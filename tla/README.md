# A TLA+ model of hoovda

hoovda is a screen reader for automated tests. It follows a browser over AT-SPI,
executes screen reader commands, publishes what it says as an ordered stream of
events, synthesizes the speech, and records a test session: events, final
document, audio and, on request, video. Tests drive it over HTTP.

What makes it hard is not the wording of its output but *attribution*: a test
trusts that the events and the audio it fetches are those of its own session,
that all of them are there, and that nothing arrives after the export. Output
comes from HTTP requests, from a keyboard listener, from a native event loop and
from synthesis goroutines, all of which overlap with the session ending. Beside that
stand the two large sequential parts, in which a test trusts that a command goes
where it says: the cursors over a page that changes, and the rules by which a
change of the page is spoken or not. Those three things are modelled here.

## Inventory

| Component | State | Operations | Hard behaviour |
|---|---|---|---|
| Event store `internal/events` | `next`, `events` (ring), `changed` channel | Append, Snapshot, Cursor, Wait, Settle, WaitFor | eviction under waiting readers, lost wakeups, a timer racing an append |
| Engine, sessions and output `internal/engine` | `commandGate`, `outputMu`, `mu`; active session, generation, sealed flag, active action, settings and baseline, `synthPending` | execute, emitEvidence, startSynthesis, handleNativeEvent, Begin/Seal/EndSession, Begin/EndAction, Set/ResetPresentationSettings, WaitForSynthesis | three locks, goroutines that outlive the lock, stale native events |
| Engine, graph cache | `graph`, `graphDirty`, `focus`, `refreshMu` | Refresh, refreshIfDirty, Sync, RefreshState, PreparePhysicalCommand | the tree changes while it is read; some refreshes hold the gate, some do not |
| Engine, commands and cursors | browse cursor, navigator, review cursor, find text, mode | about 200 commands | long sequential code over a graph; redaction of protected content |
| Engine, native focus and live regions | focus, known objects, recent announcements, atomic owners | handleFocus, handleLive*, emitLiveRegion | duplicates, events out of order with the graph |
| Recording manager `internal/recording` | map of sessions; segments, JSON artifacts, flags, the ffmpeg process | Start, AddAudio, SealAudioTimeline, WriteJSON, Finish, Abort, RemoveArtifacts | overlapping and retried Finish and Abort, a process that fails, audio that arrives late |
| Control server `internal/server` | `sem`, `active`, `finished`, `finishedOrder`, a lock, flags and a cursor per session | create, state, action, settings, events, document, finish, artifact | a finish of a dozen steps each of which may fail, retries, eviction |
| Device listener `internal/atspi/device.go` | held modifier, pending releases, queue of 256 jobs | NotifyEvent, run | synchronous callbacks, full queue, jobs that outlive a session |
| Injector `internal/input` | a mutex | Press | modifiers that must be released on every failure |
| AT-SPI client `internal/atspi`, `internal/runtime` | D-Bus connection, event channels | BrowserGraph, ReadNode, actions, forwardEvents | trees that change while they are read |
| Accessibility model `internal/model` | immutable graphs, text ranges | moves, document roots, text units, redaction | boundaries, cycles |
| Profile, speech, braille `internal/profile`, `synth`, `braille` | presentation settings | presentation, WAV codec, translators | wording and formats |
| Configuration, conformance corpus, binding generator | none at run time | sequential tools | none that a model checker reaches |

How they interact. The server calls the engine (sessions, actions, settings,
exports), the recorder (start, index, JSON, finish, abort) and the store (waits
and snapshots). Commands reach the engine from the server directly, or as key
presses that the injector makes and the device listener receives. The AT-SPI
client feeds native events to the engine's loop through a channel. The engine
appends to the store and hands audio to the recorder from goroutines.

Correctness, by component:

- *store*: a reader gets exactly what an unbounded log would give it, or is told
  that the history is gone; whoever waits for something that has happened returns;
- *engine*: each event belongs to the session that was active, and unsealed, over
  the whole command or handler that published it; after seal and drain nothing
  changes; a session leaves nothing behind for the next one;
- *graph cache*: what a command works on holds what was announced before the command, or
  before the preparation of a typed one;
- *recorder*: the audio index describes the audio; evidence is complete or not
  returned; a capture is stopped once, and never forgotten;
- *server*: one session at a time, whatever fails; no retry changes prepared
  evidence; nothing is leaked; a session that is being finished goes away; an
  action is answered with its own run of its own command;
- *cursors*: a command stays in its document and makes progress; a refresh keeps
  each cursor at its place or the nearest that is left; the review cursor is in
  its text;
- *live regions*: every change that is to be heard is said, nothing else is, an
  atomic region is said whole, and no secret of an object the graph holds is said.

## Modules

| Module | Models | Kind |
|---|---|---|
| `EventLog` | what `internal/events` promises: an unbounded log and calls that take effect at one instant | abstract specification |
| `EventStore` | `events.go` as written: ring, channel, timers, selects | implements `EventLog` |
| `EventStoreProofs` | theorems about `EventStore`, and that it implements `EventLog` | proofs |
| `SessionOutputs` | the session, output and synthesis half of `engine.go` | component |
| `SessionOutputsProofs` | theorems about `SessionOutputs` | proofs |
| `GraphRefresh` | the graph cache of `engine.go` | component |
| `GraphRefreshProofs` | theorems about `GraphRefresh` | proofs |
| `Recording` | `manager.go` | component |
| `RecordingProofs` | theorems about `Recording` | proofs |
| `ControlServer` | the session life cycle of `server.go`, over summaries of engine and recorder | composition |
| `ControlServerProofs` | theorems about `ControlServer` | proofs |
| `DeviceListener` | `device.go`: the keystroke callback and its worker, with the gate of the engine | component |
| `Injector` | `injector.go`, typing on the keyboard that `DeviceListener` hears | composition |
| `PhysicalAction` | the body of `Server.action`, over `Injector`, `DeviceListener`, sessions and the log | composition |
| `PhysicalActionProofs` | theorems about `DeviceListener`, `Injector` and `PhysicalAction` | proofs |
| `DocumentGraph` | `internal/model` and the functions of the engine that read a graph | pure operators |
| `CursorState` | the cursors, what a refresh and a focus event do to them, the modes | component |
| `BrowseCommands` | quick navigation, text, container, table, find and embedded object commands | component |
| `ReviewCommands` | object, review, copy, mouse and braille commands | component |
| `Cursors` | all commands of the cursors over a page that changes | composition |
| `CursorsProofs` | theorems about `Cursors` | proofs |
| `LiveRegions` | the handlers of live region signals in `engine.go` | component |
| `LiveRegionsProofs` | theorems about `LiveRegions` | proofs |
| `MC*` | instances for TLC | |

### EventLog and EventStore

`EventStore` has one action for each section under `Store.mu` and for each choice
of a select. `changed`, which Append closes and replaces, is a number; a captured
channel is closed when the current number is larger. A `time.Timer` is `nil`,
`armed`, `fired` (its channel holds a value) or `drained`. Durations are left
out, so a timer may fire at any moment after it was armed, and both orders of a
timer and an append are explored. `log`, `armedAt` are history variables.

`EventLog` has no ring and no readers' internals: a call is asked, and at one
instant answered completely or refused. `ImplementsLog` maps the readers that are
not idle to its busy callers and everything else to itself. It says at which
instant an answer is complete, and that the answer is refused only for a cursor
in the future or behind the promised number of events.

### SessionOutputs

The actors are executors (`execute`, from whichever caller), the native loop and
controllers (calls of the server). A section under `Engine.mu` is one step, since
it neither blocks nor calls out. `commandGate` and `outputMu` are variables that
hold their owner. A command is `ExecGate`, `ExecRead` (the session is captured, a
sealed one refuses), `ExecStart`, any number of outputs, `ExecSettle`; an output
is `EmitLock`, `EmitSpeech`, `EmitVoice`, and a mode event is the one output that
takes no lock. A say-all starts one synthesis after the last of its outputs
(`ExecVoiceAll`). A synthesis calls the sink, then publishes, then is dropped from
`synthPending`: `JobRecords`, `JobPublishes`. The loop reads the generation before
the gate and compares it behind it (`LoopTake`, `LoopCheck`).

`EndSession` clears the attribution under `mu` and restores the presenter in a
second step, still holding both locks, as the code does.

### GraphRefresh

The page is its number of mutations, each announced by one native event that the
loop handles at any later time. A read of the tree yields the page of one moment
between start and installation. Commands and native handlers hold `commandGate`;
requests of the server do not. `due` is the number of handled mutations that the graph
has to cover.

There are two ways to a graph command. A direct one refreshes behind the gate
(`CommandStarts`). For a typed one the server calls `PreparePhysicalCommand`, which
refreshes without the gate, and then types the key; the job waits in the listener's queue
(`jobs`, each with the `due` of its preparation) and `HandlePhysicalGesture` runs it
behind the gate on whatever graph is there, as `execute` does with `refreshGraph` false
(`engine.go:692`). A key that is pressed twice has two jobs. If the preparation fails,
nothing is typed.

Whether the focus lies in web content, and whether a graph holds an object, are
choices of the environment.

### Recording

One record per session holds the fields of `recording.session`, its directory and
its process. `Finish` and `Abort` are calls with a program counter under
`finishMu`; `stopCapture` is two steps, because it waits for ffmpeg. ffmpeg may
fail at any time and exits cleanly only when asked to. Audio is counted in
segments; the WAV limit is `MaxSegments` of them.

### ControlServer

Each request has a program counter. `finish` is followed call by call: lock and
recheck, settle, seal, drain, snapshot, index and events, document, mux, end,
publish, release, expire. At each call that can fail there is a failure that
takes the branch of the code: abandon, or keep for a retry. The engine and the
recorder are summaries. A drained session gets no event: `FrozenAfterDrain` of
`SessionOutputs`. A failed capture fails every later Finish: `EvidenceIsComplete`
of `Recording`. A second request for a session waits for
its lock, so that at most one of them is past `lock`.

### DeviceListener

The registry of the accessibility bus waits for the answer to each key before it
passes the next, so `NotifyEvent` is one step under `l.mu`, and every branch of it
is an action: `ModifierPress`, `PressUnbound`, `PressQueued`, `PressRefused` and so
on. The exception is a command that reads no graph: it runs inside the callback,
and waits there for `commandGate` with `l.mu` held (`PressSync`, then
`CallbackRuns`). A stroke is a key with its physical modifiers. A release carries
the key alone, which is the identity that `pending` uses. The channel of a queued
press is named by the number of that press; `closed` holds the channels that were
closed. The worker takes a job, waits for its release or 250 ms, takes the gate,
and runs.

A full queue refuses a press and hands the key to the browser. Releases may be
omitted for keys, and for a virtual modifier whose gesture was preempted, as the
comment at `device.go:307` says. The mode and the seal are changed by other holders
of the gate; single-letter navigation is part of what `Consumes` answers.

The keyboard, the registry and the browser are external. `browserWaits` is the
browser waiting for the registry: until then no read of its tree returns, and
the worker's command goes on only after the answer, or after the registry has
given up on it.

### Injector

`Injector` extends `DeviceListener` and replaces its free keyboard by `XDoTool.Press`:
one `xdotool` command after another, each of which may fail before or after the
key changed. A virtual modifier is pressed first, because its grab has an empty
mask and does not match while a physical modifier is down; if one is, a virtual
modifier goes down without a notice (`PassBy`). A gesture has at most one virtual
modifier, wherever it is spelled, as every gesture of the profile has. `stuck` remembers the
keys whose own release was not done.

### PhysicalAction

`PhysicalAction` follows `Server.action`. A request is a gesture or a structured
command; a *script* is the requests of one behaviour, one after another. `action.at`
is the call the request is in: `press`, `typing` (in `Injector`), `acknowledge`,
`settle`, `tail`, or `direct` and `running` for a structured command, which runs in
the request itself. `log` has the started and settled events of all commands, with
the session that `execute` read under the gate and the number of the press they are
for. A wait is a guard on `log` behind the cursor of the action; a late
acknowledgement is `PressGesture` taken a second time while nothing was found. `Fails`
is a deadline, a state that cannot be read, or a history that is gone.

A session is sealed, ends and begins only while no action runs, since `finish` takes
the lock of the session; jobs that a past action left in the queue go on. An action
that gave up or was pressed twice is not *sure*: a run of its command may still come.
`Clean` actions are those that no such run can reach, and `CleanActionRunsOnce` is
about them. Two things let a run reach an action: an earlier action for the same
command that was not sure, and an earlier stroke that the listener took for that
command, because a modifier stuck whose release had failed; `Clean` excludes both.
`disturbed` has the presses whose job waited while the mode or the seal
changed.

### DocumentGraph, CursorState, BrowseCommands, ReviewCommands, Cursors

A text is a sequence of characters with four kinds that matter: letters, white space,
the end of a sentence, and the place of an embedded object. A node has a role, a set
of marks for the attributes and states a command looks at, its text, and, for the
mouse, an interval as its box. `NewGraph` computes what `NewGraph` of `model.go` does:
the reading order of the reachable nodes, what each one says (with protected
content masked), and its semantic parent. These are fields of the graph that a
refresh installs, so that a state holds them and no guard computes them again. The walk of
the tree and the way up from an object are recursive functions on the natural numbers: what
the code has done after so many steps, of which it takes as many as there are objects, or
as `depthLimit` allows.

`CursorState` has the variables, `Refresh` with `RemapCursor`, `HandleFocus`, and the
mode commands. A node that is read directly has no parent (`client.go:440-633`), so the
walk of `focusModeTarget` to an application finds nothing for the focus that it serves;
`HandleFocus` has it so. One command is one action, because it decides and moves under one
section of `Engine.mu`; `ExitEmbeddedObject`, which calls the browser in between, is
two, and a refresh may come between them. A refresh may install any tree of the
workload at any moment: when it does is the matter of `GraphRefresh`. `last` records
what kind of move the last step was. `BrowseStaysInDocument` says nothing of a command to a
container or a table (kind `around`) unless these are in the document themselves.

The module states what it assumes of all pages (`TreesAssumption`): a traversal ends, as it
stops at 100000 objects; an object is listed by its parent and by no other; and no object
is deeper than `depthLimit`, where the traversal fails (`client.go:205-253`). That limit is
512 in the code and 8 in the run, whose trees are lower. A cell that names its
table lies in that table (`TablesAssumption`).

A behaviour has a *workload*: the trees its page may be, and the groups of commands
it may use. Groups that share no state are in different workloads, so that the
instance is a sum and not a product.

### LiveRegions

The page and the cached graph are trees of the same kind; a text is a sequence of
words. The page changes (`Insert`, `Edit`, `Delete`, `SetAttribute`, `Announce`),
each change puts its signals at the end of a queue, and the loop handles them in the
order of their source (signals of different objects may overtake each other). A
handler reads the page as it is by then. `unsettled` has the objects a traversal may
still miss, so `Traversals` is the set of trees a read may return: the page, or the page
without such a subtree, which no parent lists then (`pruneMissingChildren`); the up to three
refreshes of `refreshForLiveRegionOwner` are one choice among their outcomes. `Elapse`
is the passing of one interruption window; the age of an announcement is counted in
them up to the duplicate window.

A workload says what a behaviour starts from and what may happen to it. The module states
what it assumes of all workloads: the first page and all insertions together are a tree
whose depth is below `depthLimit` (`TreesAssumption`), an object keeps its place, its
role and its identifier (`ChangesAssumption`), and the secrets of an object that is
protected, from the start or once it is inserted, are words that only this object says
(`SecretsAssumption`). `depthLimit` and
`nodeLimit` are the 512 steps and the 1024 objects after which the code gives up; the
runs have 6 and 8, which their trees of depth 4 never reach. Beyond 512 levels the code
does not find the ancestor that protects an object.

`changes` remembers for each change of the page whether somebody is to hear of it:
it is *owed* when the page at that moment says so (in a live region, relevant, not
busy, reported, not sealed), *heard* once one of its signals was announced, and
*excused* when the page or an assertive announcement took the reason away. Nothing of
the engine's own memory is used for that verdict.

## Runs

| Run | Question | Bounds | Distinct states |
|---|---|---|---|
| `EventStore` | is a read exact while appends evict, are wakeups and quiet windows right, and does a reader that is due return? | ring of 2, 4 appends, one reader, one session and none | 981 000 |
| `SessionOutputs` | who may publish, when is a session final, and do settings and actions stay in it? | 1 executor, loop, 2 controllers, 2 sessions, 1 command, 1 output, 2 settings | 1.4 million |
| `SessionOutputs_live` | does every control call return? | 1 controller, 1 session, every kind of call | 13 900 |
| `Recording` | is evidence complete or refused, the capture stopped once, and does every call return? | 1 session, 3 overlapping calls, 2 exports, 2 segments | 112 000 |
| `ControlServer` | one session at a time, whole results, no leaks; does a session that is being finished go away? | 2 sessions, 2 requests, room for 1 finished session, 3 failures, 1 event | 69 100 |
| `GraphRefresh` | do commands, direct and typed, see announced mutations, is an older tree ever installed over a newer one? | 1 request, 3 mutations, 2 objects, any number of typed commands | 430 000 |
| `GraphRefresh_lost` | do exports see announced mutations? No, see below | as before | violated |
| `DeviceListener` | are channels closed once, does the browser get whole keystrokes, does every command run and every callback return? | 3 strokes of 2 keys, 2 presses, queue of 1 | 139 000 |
| `PhysicalAction` | does a gesture leave anything behind, is an action answered with its own run, who handles an activation? | 3 scripts of 2 requests, 3 presses, queue of 1, 2 sessions, 1 change of mode by the browser | 3.5 million |
| `Cursors` | do moves stay in the document and make progress, does a refresh keep the place, is the review cursor in its text? | 8 workloads over 7 trees | 54 200 |
| `LiveRegions` | is every change heard, whole, and nothing else? | 5 workloads, 2 changes, windows of 1 and 2 | 82 100 |
| `LiveRegions_busy` | is a busy region quiet? No, see below | as before | violated |

Why the bounds are enough to be interesting:

- a ring of 2 with 4 appends overflows twice, so a reader's cursor can be kept,
  just evicted, or far behind;
- readers share only the store, and none of them changes it, so one reader meets
  everything a second one would. Two sessions' worth of filters come from the one
  session, events of none, and the empty filter;
- two sessions and two controllers let the end of one session and the beginning
  of the next overlap a command, a native event and a synthesis of the first.
  Each behaviour has one of two sets of calls, export or settings and actions:
  settings and actions write nothing that an export reads;
- three overlapping calls of Finish and Abort are one that runs, one that waits
  and one that retries; sessions of the recorder share only the map;
- two sessions with room for one finished one evict once, while the other request
  uses, finishes or retries the first or the second;
- the server lets one request at a time use a session, so one refreshing request
  beside commands and the loop is what exists;
- a queue of one is full until the worker takes its job, so two presses of three
  strokes, two of which share a key, supersede, refuse and overlap, and one waits in
  the callback while the worker runs the other; the theorems cover every other size,
  and only `CommandsAreRun` rests on this one. The three gestures are one key alone,
  one with a virtual modifier, and one with both kinds of modifier, spelled in the
  order that `Press` has to change;
- the scripts are the same key twice, a change of mode before a key that depends on
  it, and a key whose job may outlive its session before a structured command. Three
  presses let one of two actions be pressed twice. One change of the mode by the
  browser, at any moment, separates the decision at the press from the one at the run
  in either direction, since both modes are initial;
- the pages of `Cursors` have what the code distinguishes: two tabs and an embedded
  document, objects that look alike, texts with empty lines, several lines and
  sentences, a table with a spanning cell and a gap, and objects on the screen that
  overlap. For each there is a changed page, on which the cursor's object is gone, is
  there under another identifier, or has a shorter text;
- two changes are the first that can be taken for a repetition, interrupt each other,
  or make each other's region known, off, busy or remembered; the windows are the
  least at which an age below, at and above each of them exists.

Deadlock is checked except in the runs of `Recording` and `ControlServer`. There
an identifier is used once, as it is random in the code, so the system stops
when all identifiers of the instance have been used up.

### Fairness

- `EventStore`: readers keep running and armed timers fire. Nothing makes an event
  arrive and no context has to end.
- `SessionOutputs`: goroutines keep running. Both gates are Go channels, whose
  blocked senders are served in order, hence strong fairness of taking them; a
  command body ends, because it loops over finite lists, hence strong fairness of
  settling although other actors' outputs may come between. A driver call ends
  within its own timeout of 15 s. No deadline has to pass: `CallsReturn` holds
  without it. `WaitForSynthesis` of a session that is *not* sealed returns only
  because outputs are bounded; the server always seals first.
- `Recording`: calls run on, `finishMu` is not withheld for ever (Go's mutexes
  prevent starvation), and ffmpeg ends after it was asked to.
- `ControlServer`: handlers run on, a client that was told to retry does, and
  failures are finitely many (`MaxFaults`). Without retries a session whose sealing
  failed stays, by design.
- `DeviceListener`: the worker and the holders of the gate run on, and the gate is
  the Go channel of `SessionOutputs`, hence strong fairness of taking it for the
  worker and for the callback. No key has to be pressed or released. One
  assumption is not the code's: the registry gives up on a listener that does not
  answer. The callback may wait for a gate whose holder reads from a browser that
  waits for the callback, and nothing in this repository ends that wait.

## What the code does otherwise than it says

`GraphRefresh_lost`. `Sync` and `RefreshState` call `Refresh` without
`commandGate`. `Refresh` reads the tree and then *assigns* `graphDirty`
(`engine.go:222`). An invalidation that the event loop recorded in between
(`engine.go:2883`, `engine.go:2887`) is overwritten, although the tree was read
before the mutation. The next `Sync` finds the flag clear and exports the old
tree, against its comment (`engine.go:579-581`): "Artifact and document exports
use this so they never freeze a pre-mutation graph".

What that means for commands: `GraphRefresh` shows that a direct command, whose refresh
and whose loop share the gate, misses nothing but what a request lost in this way. A typed
command is promised less. Its preparation is such a request itself, and then no refresh
follows: what it works on holds the mutations handled before its preparation, except lost
ones, and none of these goes while its key waits; but a mutation that is handled between
its preparation and its job leaves it with a graph that is marked dirty and read by the
command all the same (`engine.go:595-614`, `692`). `CommandSeesMutations` says exactly
this, and leaves the last case out.

A child of a known password. The comment on `ProtectsNodeContent` (`model.go:223-225`)
speaks of "children published before the graph contains their complete node", which "a
cached parent chain or child backlink" is to protect. A child that was just inserted has
neither: the cached graph does not hold it, its parent there does not list it, since a
traversal drops children it could not read (`client.go:288-298`), and a direct read gives
no parent (`client.go:440-633`). So the text of such a child is announced as it is, for a
text change, a change of the children (`engine.go:3184-3277`) or an announcement
(`engine.go:2899-2906`), in a region that is not atomic, until a refresh; an atomic region
is refreshed for first, unless the refreshes fail. The test at
`review_regression_test.go:355-397` wants it redacted, with a graph that has the backlink.
`KnownSecretsStayUnspoken` promises nothing of objects the graph does not hold; the fifth
workload of `LiveRegions` has this child, and without the premise `Has(graph, o)` TLC finds
its word announced.

`LiveRegions_busy`. Once an atomic region was read, its objects are remembered with it
(`engine.go:3392-3401`), and the next signal of one of them asks the *cached* node of
the region (`engine.go:3158-3169`), not the object that was just read. A region that
became busy, or was switched off, since the last refresh is spoken. The test at
`engine_test.go:1932` wants a busy region to be silent; its graph shares the node it
changes, so that the cached node is never stale.

Two things the listener does are no contradiction of a document and still worth
knowing. A command that runs inside the callback leaves nothing pending
(`device.go:341`): its press is consumed, its release is not, and the browser sees
a key come up that never went down. And a release that was omitted leaves its press
pending, so that a later release of the same key may be swallowed although the
browser saw its press. `ReleaseFollowsPress` excludes exactly these two.

Nor are the following. Each is in the model as the code has it, and the properties
say where they leave it out:

- *actions*: an action pressed twice may run its command twice; its answer begins at
  the last start that was seen, and so may miss the output of the first run. A job may
  run in the next session, or in none. A key may be swallowed in browse mode and find
  focus mode when its job runs: then neither the browser nor the engine acts on it.
- *modes*: only activations look at the mode again. The text, quick navigation and
  document commands run in focus mode too, although the browser gets the key
  (`engine.go:616-647`, `699-735`).
- *cursors*: a move by lines from an object inside a line may stay or go back
  (`engine.go:1083`); the previous table from inside a table is its own last cell; a
  container outside the reading order is left to the start of the document
  (`engine.go:1945-1958`); on a landmark or the document itself the next line skips the
  first one; `exitEmbeddedObject` refreshes outside the gate (`engine.go:2040`), so that
  a focus event and its own move may come in either order; a braille pan uses the review
  offset also when it belongs to another object; locking a mouse button toggles it
  even when its event fails (`engine.go:1723-1757`); a move to the start of a container or
  by table cells may leave the page for a container or a table of the browser around it,
  and the cells without a table are one grid, whatever document they are in; of several
  documents of the same name a refresh may choose another than the object is in
  (`engine.go:273-321`).
- *live regions*: one insertion is said for its text change and again for the change
  of the children, which the comment at `engine.go:3441-3443` wants said once; a text
  that changes and changes back within 750 ms is not said again; what changed while a
  region was busy is not said when it no longer is; a refresh that comes before the
  signal of an insertion makes it known; a region that the cached graph has as busy or
  off stays silent until the next refresh; an atomic region that is remembered for an
  object is read in place of a nearer one inside it that is not atomic, and so is its word
  for what is relevant.

## Proofs

`EventStoreProofs` proves four invariants of `EventStore` for every limit, every
set of sessions, readers and kinds, and any number of appends:

- `TypeCorrect`, the type invariant. Its lemmas show that `Retained` returns a
  sequence of events, and one step for each action;
- `RingCorrect`, that the ring is the tail of the log. `RingIsTail` is inductive
  together with the type invariant: an append shifts the ring by one or by none,
  and the index of every event it keeps by as much;
- `SnapshotExact`, a consequence of `RingIsTail` and the types, with no induction
  of its own: an event is evicted exactly when the cursor plus the length of the
  ring falls short of the last sequence number;
- `WakeupsCorrect`. `NoMissedWakeup` alone is not inductive: between capture and
  select a reader holds a channel but nothing is known of its snapshot. The
  strengthening says that no captured channel is newer than the current one; so a
  channel that is still open when the select begins was open at the snapshot.

The assumptions are those of the module: the limit is an integer, the bound is a
natural number, and no session has the empty name.

`EventStoreProofs` also proves `ImplementsLog` (`LogImplemented`) and
`QuietWindowIsHonest` (`QuietCorrect`) from `RingIsTail`. A snapshot that is not
refused is all of the log that was asked for, and its length the cardinality of that
(`SnapshotIsAsked`). A reader compares counts only, so the induction carries
`ReadersHaveSeen`: a nonzero `lastCount` is the number of events asked for that were
there when the timer was armed. Two finite sets of one size, the one a part of the
other, are equal: an unchanged count means that nothing was appended in between
(`QuietWasSeen`). It also says that a Wait has a timer only once it has seen an event,
that `WaitFor` has none, and that a running call has no result; these exclude the
branches of a select that would answer too early. Then each action is a step of the
log (a call, an append, an answer, a refusal) or leaves it as it is.

`PhysicalActionProofs` proves first of `DeviceListener`, for every keyboard, command table, capacity of the
queue and number of presses:

- `TypeCorrect`. The job that the worker takes is typed because the head of a
  sequence of jobs is a job (`HeadType`), and what a stroke means because the table
  of bindings is (`DecodeType`);
- `PendingCorrect`, that no channel is closed twice, which would end the process.
  The invariant needs one more fact to be inductive, that only channels of past
  presses are closed: so the channel of a new press is open. `PendingFrame` covers
  the actions that leave presses alone, `PendingQueued` and `PendingDropped` the two
  ways an entry changes;
- `SignalsCorrect`, that every waiting job is signalled or its key still holds its
  channel. It is inductive together with the types;
- `ReleaseCorrect`, that the browser gets a release exactly if it got the press.
  `ReleaseFollowsPress` speaks of keys that are down only. The induction needs what
  holds of the next press (`KeyInv`): nothing is pending of a key that is up or whose
  last press was not queued, and the stroke that waits in the callback is not queued,
  so that the answer it gets later contradicts nothing pending;
- `HeldCorrect`, that the modifier which the next stroke will be decoded with is down and
  unused. The listener never hears of a modifier that passes by, nor of the release of
  one that was used, so both parts are needed.

The assumptions are those of the module: modifiers and keys are different, bindings
lead to commands, and the queue has room for at least one job.

`GraphRefreshProofs` proves, for any number of requests, objects and mutations,
`CommandsCorrect` and `InstallCorrect`. Neither property says anything of a refresh
that is half done, so the invariant says who may be there: a tree is read and
installed by the holder of `refreshMu` (`MuIsHeld`), commands and native handlers hold
the gate (`GateIsHeld`), and therefore what was read is not older than what is
installed (`ReadIsNew`). What is due has been handled (`DueIsCovered`), and an unmarked
graph is fresh unless a request cleared the mark (`CleanIsFresh`). A typed command
refreshes nothing, so what was due when it was prepared must be covered for as long as its
key waits (`JobsAreCovered`): the graph never gets older, and what was lost stays lost.
Together they make `CommandSeesMutations` inductive. The theorem says no more of typed
commands than the property does.

`RecordingProofs` proves the three safety invariants of `Recording` for any number of
sessions, overlapping calls, segments and artifacts. The invariant is one of each
session (its lists agree, its answers are its evidence, a running capture is known)
and one of each call: what a call has read from the record at each of its steps is
what the record still holds, because the timeline is sealed before it is read, and a
call behind the lock holds `finishMu`. The lemmas show that an action changes one
session and one call (`SessionFrame`, `HolderFrame`), and what it does to these two.

`SessionOutputsProofs` proves all six safety properties of run `SessionOutputs`, for
any number of executors, controllers, sessions, settings and jobs. The invariant:

- who is behind `commandGate` and `outputMu` holds them (`LocksAreHeld`), so a
  command's session is open until it settles (`CommandsAreInside`), and the events of a
  session count one command more than are settled exactly while one runs
  (`CommandsAreCounted`), which is `CommandsAreWhole` between commands;
- the generation tells whether the session is still the one an event was taken in
  (`EventsAreInside`);
- what an end restores is the default (`SettingsAreKept`);
- a session begins once (`SessionsBeginOnce`) and a drained one has no job left and
  can start none (`DrainedIsOver`), which gives `FrozenAfterDrain`;
- at most one request acts in the active session (`ActionsAreOwned`).

`ControlServerProofs` proves the four safety invariants of `ControlServer` and
`PreparedIsFrozen`, for any number of sessions, concurrent requests, events, failures
and finished sessions kept. There is one lemma for each action and each outcome of an
action (`...Keeps`). The invariant:

- `TokenIsOwned`: the token is with the one active session, or with the one request
  that makes or releases it. `TokenCoversSession` alone does not exclude two requests
  that both release it;
- `LocksAreHeld`, `CreatedIsNew`, `EngineIsOwned`: what the engine and the recorder
  know is active, or new and known to one request only. This is why the finish of one
  session never ends another, though the engine is told only to end;
- `EvidenceIsTaken`: at each step of a finish, what it has collected is all there is,
  as no event of the session can come any more;
- `FinishedIsKept`, `ExpiredIsOver`, `AbandonedIsOver`, `DirectoriesAreOwned`: what is
  on disk belongs to an active or a finished session, or to the one request that
  removes it, and a reported session is never in that request's hands.

It follows from `CreatedIsNew` that a creation that got the token never finds the
engine with a session: the branch of `BeginSession` that refuses is not taken from the
server.

The assumptions of these four are those of their modules: the names of nobody and of
no session are no caller's and no session's, and bounds are natural numbers; the server
keeps at least one finished session. Each strengthening was first checked by TLC as an
invariant of the run of its module.

It then proves all three properties of run `PhysicalAction`, for every
table of bindings, every script of requests and any number of presses, sessions and
changes of mode. They rest on the theorems of the listener:

- `ActionsAreListenerSteps`: a behaviour of the server, typing through `Injector`, is
  one of `DeviceListener` with its free keyboard. Each step maps to one of the listener
  or leaves it alone, so that the theorems of the listener hold of real actions too;
- `ActionTypesCorrect`. The types include who holds the gate and that a gesture is
  typed for the action that waits for it. The virtual modifier of a gesture comes first
  and is the only one (`VirtualComesFirst`); the last start that an action found is one
  of the events (`MaxIsMember`: the greatest member of a finite set, from the
  well-foundedness of the numbers);
- `GesturesCorrect`. `GesturesAreIndependent` speaks of the moments before and after
  typing. In between, whatever is down is on the list of what is still to be released,
  or is the key, or its release failed (`DownIsHeld`); and while the key is due the
  listener holds the virtual modifier (`VirtualIsHeld`). The latter needs
  `HeldCorrect`: once nothing is down, the listener holds no modifier either;
- `ActivationCorrect`. A job is that of one press and one press has one job
  (`JobsInv`), and a press whose job waits unmarked was answered by what the mode and
  the seal still are (`AnsweredAsRun`);
- `CleanCorrect`, in four layers. A press has at most one start, and one end behind it
  in the same session, and none of them while its job waits (`EventsInv`, `RunsInv`). A
  request that was typed once has one press at most, whose events are behind its cursor
  (`MineInv`); a structured command has one run behind it (`DirectInv`). An action that
  was clean has its one run, and none of its presses is with a job or a callback
  (`CleanInv`): so nothing can still happen for it, and under the premise of `Clean`
  whatever happens for the command of the present request is its own (`CleanLive`,
  `CleanEvents`). Therefore the tail is awaited of a complete run that is alone behind
  the cursor (`TailInv`).

The assumptions are those of `DeviceListener`, that a gesture has at most one virtual
modifier, and that an activation reads the graph, so that it is queued. Every invariant
was checked by TLC first, with two and with three requests. The instance with three
requests refuted an earlier `Clean`, which overlooked the stuck modifier.

`LiveRegionsProofs` proves, for every workload that keeps to the assumptions above, any
number of changes, any order of their signals and any traversal that misses an insertion:

- `SecretsCorrect` (`KnownSecretsStayUnspoken`). The property speaks of the announcement
  only. The invariant (`IInv`) says that the page and the graph are parts of one tree
  (`Kin`): they may hold different objects and texts, but agree on the place and the role
  of each, so that they agree on what protects it (`KinProtects`). Such a part that holds
  an object holds all that is above it. So the graph that a handler goes on with, old or
  new, protects every object with a secret that it holds, and also every region around
  that object which is itself inside a protected one (`ConcealedIsProtected`). What a signal
  brings is no secret of another object (`SignalsKeepSecrets`), and the text of any other
  region does not have the secret, as the reading does not go on below what is protected
  (`ContentKeepsSecrets`). It does not matter whether the object was in the page from the
  start; of one that the graph does not hold the theorem says nothing, see above;
- `OnlyLiveCorrect` (`OnlyLiveIsSpoken`). An object is live because of a region on the
  way up, because of its own word for one, or because a region was remembered. On the way
  up, `LiveAlong` finds the region. The object's own word names an ancestor on the page
  (`ContainerLive`), and a word further up names one that would have ended the way
  (`NoRegionNoWord`). A remembered region is above the object (`OwnersAreAbove`, part of
  the invariant): what a reading visits is below what it reads (`VisitedAreBelow`);
- `AtomicCorrect` (`AtomicIsSpokenWhole`). What the way up to a region makes of an object
  is atomic if the object says so, and names as the region the object where the way ends,
  if that is a region (`RegionAlong`). The region that the graph has of the object is the
  first end of that way (`OwnerAlong`); one that was found by a refresh is what the new
  graph has; one that is remembered is an atomic one around the object. The property names
  the one region that all of these then are, and `AskedIsWhole` that it is the answer
  whichever of them gives it. It leaves out objects with another atomic region around
  them, for which the code may remember either;
- `KnownEditsCorrect` (`KnownEditsAreQuiet`). If every region around an object says that
  additions alone matter, so does what any way up makes of it (`RelevantAlong`), and no
  such way ends at the object (`AskedIsAdditional`). What the graph holds is known
  (`GraphIsKnown`, an invariant by itself), also after a refresh within the handler
  (`LearnKnows`). So neither reason to speak is there. The property speaks of every region
  around the object, for the way up goes on past those that the graph lacks or has
  otherwise.

The way up and the reading are recursive functions on the natural numbers. That such a
function exists, and is what its definition says, follows from `Iteration`, and what
holds of all its values from `InductionOver`: induction over a set in place of a
predicate, from a least member of a set of numbers, which the well-foundedness of `<`
gives. `ReadingKeepsTo` is the induction that the first two need: a reading stays among
objects that lead only to each other, and says only their words.

Only model-checked in `LiveRegions`: `EveryChangeIsHeard`. It holds in the five workloads
of the run and not in every one: an announcement that interrupts by the cached priority of
a region is not excused by the page's, and a region may be relevant on the page and not in
the graph. So there is no general theorem to prove without first deciding what the code
owes in these cases.

`CursorsProofs` proves all four properties of run `Cursors`, for every set of pages that
keeps to the assumptions above, whatever their size and texts, and any order of commands,
changes of the page and events of the focus. What has to be known in between is what a
graph is, and that is most of the module:

- *the reading order*. The walk of a tree is followed step by step (`InOrder`): an object
  is taken once and after those above it, and what is below an object is taken in one run,
  after which no entry of the stack leads there. So whatever stands between two objects
  that are below a third is below it too (`PlacesAre`);
- *texts*. The units of a text and the lines of a display are ranges within it, whatever
  its characters are (`Within`);
- *lines and tables*. A line has only objects of its document, and lines follow each other
  in the reading order (`LinesGrouped`); a place in the grid of a table is empty or has a
  cell that covers it (`GridIs`), and cells are below and so behind their table
  (`CellsAreBelow`, `EdgeCellComesAfter`);
- *documents*. The document of an object is that of its parent, or, if this has none, the
  object itself if it is one (`DocumentIs`): the outermost on the way up, as the code takes
  it. So what is below an object of a document, or between two objects of it, is in it
  (`DocumentBelow`, `BetweenIs`).

The inductive invariant itself is short (`Inv`): the graph is `NewGraph` of a tree the page
had, offsets are natural numbers and the text to find is a text (`TypesCorrect`). Each
property speaks of one step from such a state, so there is one lemma for each command and
each property:

- `ReviewInTextCorrect`: a review command first puts the cursor into the text as it is
  now, and all that follows is arithmetic on ranges of that text;
- `CursorsAdvanceCorrect`: what is found is ahead of the place in the direction of the
  command, because it was chosen from places that are;
- `RefreshCorrect`: what `RemapCursor` returns is the object, the one that is the same, a
  document of the same name or the start. The property speaks of all documents of that name
  and the code chooses one of them, so that they agree on the candidates when there is only
  one;
- `StaysCorrect`: what is found is in the document of the cursor.

Only model-checked as well: liveness. The prover does not treat `ENABLED`, so what holds
under fairness only stays with TLC: `DueReadersReturn`, `CallsReturn`, `FinishersReturn`,
`FinishingSessionEnds` and `CommandsAreRun`.

## Not modelled

- Wording, localisation and braille cells, JSON, HTTP routing, authentication and
  WAV bytes: formats with no state. Of the presentation only the targets of quick
  navigation and the redaction of protected content are here.
- Time: durations, offsets of segments and the length of windows, except the two of
  live regions. Whatever depends on them is a choice.
- Which command says what: `SessionOutputs` lets a command say anything. Reports that
  move nothing (report, dialog and say-all of the review text, formatting, review
  pages), speech control, and what an activation does in the browser are left out of
  `Cursors`, as is the flag for native selection.
- In `Cursors`, boxes have one dimension, a braille display shows as many cells as there
  are characters, and offsets do not count objects that a text embeds. In `LiveRegions`
  the report of a focused control's new state, which changes nothing, is left out.
- The channel between the AT-SPI client and the engine (`accessibility.go:51`): when it
  is full, invalidations of the graph wait behind a slow handler. Events that still
  wait there when a session ends are handled in the next one.
- Cancellation of the process context: the program then ends.
- Sequential tools: configuration, the conformance corpus and the generator.

Three hazards have no property, as `PROJECT.json` says: audio that completes between
`BeginSession` and the start of the recording is not recorded, an insertion is
announced twice, and a child of a known password is announced before the graph holds it.
The last two are what the code does, against what it says.

## Plan

What is left, in the order of what matters to a test that trusts its evidence:

1. `NativeEvents`, the channel between the AT-SPI client and the engine, and which
   of its events enter the next session.
2. A composition of `Recording` and `SessionOutputs` under `ControlServer`, replacing
   the summaries, to check that they are implied.
3. The audio timeline of `synth/wav.go` against a reference definition.

Theorems worth proving next: that the summaries of `ControlServer` are what `Recording` and
`SessionOutputs` do, once the composition of item 2 is written.
