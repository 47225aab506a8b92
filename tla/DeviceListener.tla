--------------------------- MODULE DeviceListener ---------------------------
(***************************************************************************)
(* internal/atspi/device.go: the keystroke listener and its worker.  The   *)
(* registry of the accessibility bus calls NotifyEvent for each press and  *)
(* release, and the answer says whether the browser shall not see the key. *)
(* Commands that read the accessibility graph are queued for the worker;   *)
(* the others run inside the callback, behind Engine.commandGate.          *)
(*                                                                         *)
(* A stroke is a key with its physical modifiers; its key is the identity  *)
(* that its release carries too (deviceEventIdentity).  The keyboard, the  *)
(* registry, the browser and the other holders of the gate are external.   *)
(***************************************************************************)
EXTENDS Integers, Sequences

CONSTANTS Strokes, KeyOf,
          Modifiers, NoModifier,  \* Insert, Caps Lock: the virtual modifiers
          PhysicalModifiers,      \* Control, Alt, Shift
          Commands, Unbound,
          Bindings,               \* CommandByGesture: modifier and stroke to command
          NeedsGraph,             \* commands that the worker runs
          Always, Browse,         \* commands consumed always, or in browse mode only
          Toggles,                \* commands that change the mode
          QueueLimit,             \* capacity of the channel of jobs, 256 in the code
          ReleasesOmitted,        \* does the stack omit releases?
          MaxPresses              \* bound: strokes of one behaviour

Keys == {KeyOf[s] : s \in Strokes}

ASSUME ModifierAssumption ==
  /\ NoModifier \notin Modifiers \cup PhysicalModifiers \cup Keys
  /\ Modifiers \cap PhysicalModifiers = {} /\ Keys \cap (Modifiers \cup PhysicalModifiers) = {}
ASSUME BindingAssumption ==
  /\ Unbound \notin Commands
  /\ \A m \in Modifiers \cup {NoModifier}, s \in Strokes : Bindings[m][s] \in Commands \cup {Unbound}
ASSUME CommandAssumption ==
  /\ NeedsGraph \subseteq Commands /\ Toggles \subseteq Commands \ NeedsGraph
  /\ Always \subseteq Commands /\ Browse \subseteq Commands \ Always
ASSUME BoundAssumption ==
  QueueLimit \in Nat \ {0} /\ ReleasesOmitted \in BOOLEAN /\ MaxPresses \in Nat

VARIABLES heldModifier,
          jobs,        \* the queue: a gesture, and the channel its release closes
          pending,     \* by key: that channel, and the answer its release will get
          presses,     \* strokes so far; its number names the channel of a queued one
          closed,      \* those of them that were closed
          worker,      \* where run is, and its job
          callback,    \* the stroke whose command runs under l.mu, and where it is
          gate,        \* commandGate: its holder
          focusMode,   \* cursor.Mode is focus
          sealed,      \* outputsSealed
          down,        \* keyboard: keys and virtual modifiers that are down
          swallowed,   \* history: keys whose last press the browser did not see
          queued,      \* history: keys whose last press was queued
          stale,       \* history: keys whose pending press had its release omitted
          used,        \* history: virtual modifiers down at a stroke since their press
          browserWaits \* the browser waits for the answer to a key

listenerVars == <<heldModifier, jobs, pending, presses, closed>>
engineVars == <<gate, focusMode, sealed>>
keyboardVars == <<down, swallowed, queued, stale, used>>
vars == <<listenerVars, worker, callback, engineVars, keyboardVars, browserWaits>>

NoChannel == 0
NoJob == [command |-> Unbound, released |-> NoChannel]
NotPending == [released |-> NoChannel, consume |-> FALSE]
Idle == [at |-> "idle", command |-> Unbound, key |-> NoModifier]

Init ==
  /\ heldModifier = NoModifier /\ jobs = <<>>
  /\ pending = [k \in Keys |-> NotPending] /\ presses = 0 /\ closed = {}
  /\ worker = [at |-> "idle", job |-> NoJob]
  /\ callback = Idle
  /\ gate = "free" /\ focusMode \in BOOLEAN /\ sealed = FALSE
  /\ down = {} /\ swallowed = {} /\ queued = {} /\ stale = {} /\ used = {}
  /\ browserWaits = FALSE

-----------------------------------------------------------------------------
(* NotifyEvent *)

\* commandConsumes: what the engine answers for a command in its present mode.
Consumes(c) == c \in Always \/ (c \in Browse /\ ~focusMode)

\* ShouldConsumeGesture.
ShouldConsume(c) == ~sealed /\ Consumes(c)

IsPending(k) == pending[k] # NotPending

\* A virtual modifier is never shown to the browser.  Its grab has an empty mask:
\* the listener is told of it while no physical modifier is down.
ModifierPress(m) ==
  /\ callback = Idle /\ m \notin down /\ down \cap PhysicalModifiers = {}
  /\ heldModifier' = m
  /\ down' = down \cup {m} /\ used' = used \ {m}
  /\ UNCHANGED <<jobs, pending, presses, closed, worker, callback, engineVars, swallowed,
                 queued, stale, browserWaits>>

ModifierRelease(m) ==
  /\ callback = Idle /\ m \in down
  /\ heldModifier' = IF heldModifier = m THEN NoModifier ELSE heldModifier
  /\ down' = down \ {m}
  /\ UNCHANGED <<jobs, pending, presses, closed, worker, callback, engineVars, swallowed,
                 queued, stale, used, browserWaits>>

\* A physical modifier goes to the browser, and uses no virtual one: NotifyEvent
\* returns early, and when it gets to do so makes no difference.  While one is down,
\* the grab of a virtual modifier does not match, and its press passes by too.
PassBy(p) ==
  /\ p \in PhysicalModifiers \/ (p \notin down /\ down \cap PhysicalModifiers # {})
  /\ down' = IF p \in down THEN down \ {p} ELSE down \cup {p}
  /\ UNCHANGED <<listenerVars, worker, callback, engineVars, swallowed, queued, stale,
                 used, browserWaits>>

\* Variant for the checks: the modifier stays until it is released.
StickyModifier == UNCHANGED heldModifier

\* The modifier is good for one stroke, bound or not.
UseModifier == heldModifier' = NoModifier

\* The command of a stroke, pressed now.
Decode(s) == Bindings[heldModifier][s]

Strike(s) ==
  /\ callback = Idle /\ KeyOf[s] \notin down
  /\ presses < MaxPresses
  /\ UseModifier
  /\ down' = down \cup {KeyOf[s]} /\ used' = used \cup (down \cap Modifiers)

Answer(k, consume) ==
  swallowed' = IF consume THEN swallowed \cup {k} ELSE swallowed \ {k}

PressUnbound(s) ==
  /\ Strike(s) /\ Decode(s) = Unbound
  /\ Answer(KeyOf[s], FALSE)
  /\ presses' = presses + 1 /\ queued' = queued \ {KeyOf[s]}
  /\ UNCHANGED <<jobs, pending, closed, worker, callback, engineVars, stale, browserWaits>>

\* Variant for the checks: the previous press is forgotten without a signal.
SupersededSilently(k) == {}

\* A press without a release in between: its job waits no longer.
Superseded(k) == IF IsPending(k) THEN {pending[k].released} ELSE {}

PressQueued(s) ==
  LET k == KeyOf[s]
      c == Decode(s)
  IN /\ Strike(s) /\ c \in NeedsGraph /\ Len(jobs) < QueueLimit
     /\ presses' = presses + 1
     /\ closed' = closed \cup Superseded(k)
     /\ pending' = [pending EXCEPT ![k] = [released |-> presses', consume |-> ShouldConsume(c)]]
     /\ jobs' = Append(jobs, [command |-> c, released |-> presses'])
     /\ Answer(k, ShouldConsume(c)) /\ queued' = queued \cup {k} /\ stale' = stale \ {k}
     /\ UNCHANGED <<worker, callback, engineVars, browserWaits>>

\* Variant for the checks: a refused press stays pending.
KeepRefused(k) == [pending EXCEPT ![k] = [released |-> presses + 1, consume |-> TRUE]]

\* Nothing stays pending of a press that the full queue refused.
DropRefused(k) == [pending EXCEPT ![k] = NotPending]

PressRefused(s) ==
  LET k == KeyOf[s]
  IN /\ Strike(s) /\ Decode(s) \in NeedsGraph /\ Len(jobs) = QueueLimit
     /\ presses' = presses + 1
     /\ closed' = closed \cup Superseded(k) \cup {presses'}
     /\ pending' = DropRefused(k)
     /\ Answer(k, FALSE) /\ queued' = queued \ {k} /\ stale' = stale \ {k}
     /\ UNCHANGED <<jobs, worker, callback, engineVars, browserWaits>>

\* The handler is called under l.mu, and the browser waits for its answer.
PressSync(s) ==
  /\ Strike(s) /\ Decode(s) \in Commands \ NeedsGraph
  /\ callback' = [at |-> "gate", command |-> Decode(s), key |-> KeyOf[s]]
  /\ browserWaits' = TRUE
  /\ presses' = presses + 1 /\ queued' = queued \ {KeyOf[s]}
  /\ UNCHANGED <<jobs, pending, closed, worker, engineVars, swallowed, stale>>

\* What a release of the key would be answered.
ReleaseAnswer(k) == IsPending(k) /\ pending[k].consume

\* Variant for the checks: the key stays pending after its release.
StillPending(k) == pending

Unpend(k) == [pending EXCEPT ![k] = NotPending]

KeyRelease(k) ==
  /\ callback = Idle /\ k \in down
  /\ closed' = closed \cup Superseded(k)
  /\ pending' = Unpend(k)
  /\ down' = down \ {k} /\ swallowed' = swallowed \ {k} /\ queued' = queued \ {k}
  /\ stale' = stale \ {k}
  /\ UNCHANGED <<heldModifier, jobs, presses, worker, callback, engineVars, used, browserWaits>>

\* The listener is not told of the release of a key, or of a modifier whose gesture
\* was preempted.
ReleaseOmitted(k) ==
  /\ ReleasesOmitted /\ k \in down \cap (Keys \cup used)
  /\ down' = down \ {k} /\ swallowed' = swallowed \ {k} /\ queued' = queued \ {k}
  /\ stale' = stale \cup ({k} \cap Keys)
  /\ UNCHANGED <<listenerVars, worker, callback, engineVars, used, browserWaits>>

-----------------------------------------------------------------------------
(* HandlePhysicalGesture, in the callback and in the worker *)

\* A command that reaches the engine in a sealed session is refused.
Execute(c) ==
  IF c \in Toggles /\ ~sealed THEN focusMode' = ~focusMode ELSE UNCHANGED focusMode

CallbackRuns ==
  /\ callback.at = "gate" /\ gate = "free"
  /\ Execute(callback.command)
  /\ Answer(callback.key, ShouldConsume(callback.command))
  /\ callback' = Idle /\ browserWaits' = FALSE
  /\ UNCHANGED <<listenerVars, worker, gate, sealed, down, queued, stale, used>>

WorkerTakes ==
  /\ worker.at = "idle" /\ jobs # <<>>
  /\ worker' = [at |-> "waiting", job |-> Head(jobs)]
  /\ jobs' = Tail(jobs)
  /\ UNCHANGED <<heldModifier, pending, presses, closed, callback, engineVars, keyboardVars,
                 browserWaits>>

\* Variant for the checks: there is no fallback for an omitted release.
WaitsForRelease == worker.job.released \in closed

\* The release, or 250 ms.
WaitsLongEnough == TRUE

WorkerProceeds ==
  /\ worker.at = "waiting" /\ WaitsLongEnough
  /\ worker' = [worker EXCEPT !.at = "gate"]
  /\ UNCHANGED <<listenerVars, callback, engineVars, keyboardVars, browserWaits>>

WorkerGate ==
  /\ worker.at = "gate" /\ gate = "free"
  /\ gate' = "worker"
  /\ worker' = [worker EXCEPT !.at = "running"]
  /\ UNCHANGED <<listenerVars, callback, focusMode, sealed, keyboardVars, browserWaits>>

\* The command reads from the browser, which answers when it waits for no key.
WorkerEnds ==
  /\ worker.at = "running" /\ ~browserWaits
  /\ gate' = "free"
  /\ worker' = [at |-> "idle", job |-> NoJob]
  /\ UNCHANGED <<listenerVars, callback, focusMode, sealed, keyboardVars, browserWaits>>

-----------------------------------------------------------------------------
(* External *)

\* The registry gives up on the answer and the browser handles the key.
RegistryGivesUp ==
  /\ browserWaits
  /\ browserWaits' = FALSE
  /\ UNCHANGED <<listenerVars, worker, callback, engineVars, keyboardVars>>

\* A native event, a structured command or a control call.
OtherTakesGate ==
  /\ gate = "free"
  /\ gate' = "other"
  /\ UNCHANGED <<listenerVars, worker, callback, focusMode, sealed, keyboardVars, browserWaits>>

\* A native focus may change the mode; an export seals, a session begins unsealed.
OtherLeavesGate ==
  /\ gate = "other"
  /\ gate' = "free"
  /\ \/ focusMode' \in BOOLEAN /\ UNCHANGED sealed
     \/ sealed' \in BOOLEAN /\ UNCHANGED focusMode
  /\ UNCHANGED <<listenerVars, worker, callback, keyboardVars, browserWaits>>

\* What the keyboard does to the listener, and everything else.
Press(s) == PressUnbound(s) \/ PressQueued(s) \/ PressRefused(s) \/ PressSync(s)
Release(k) == KeyRelease(k) \/ ReleaseOmitted(k)

System ==
  \/ CallbackRuns \/ WorkerTakes \/ WorkerProceeds \/ WorkerGate \/ WorkerEnds
  \/ RegistryGivesUp \/ OtherTakesGate \/ OtherLeavesGate

Next ==
  \/ \E m \in Modifiers : ModifierPress(m) \/ ModifierRelease(m) \/ ReleaseOmitted(m)
  \/ \E p \in Modifiers \cup PhysicalModifiers : PassBy(p)
  \/ \E s \in Strokes : Press(s)
  \/ \E k \in Keys : Release(k)
  \/ System

Spec == Init /\ [][Next]_vars

\* The worker and whoever holds the gate run on, the registry has a timeout, and
\* the gate serves its blocked senders in order.  Nothing makes a key be pressed
\* or released.
FairSpec ==
  /\ Spec
  /\ WF_vars(WorkerTakes) /\ WF_vars(WorkerProceeds) /\ SF_vars(WorkerGate) /\ WF_vars(WorkerEnds)
  /\ SF_vars(CallbackRuns) /\ WF_vars(RegistryGivesUp) /\ WF_vars(OtherLeavesGate)

-----------------------------------------------------------------------------
(* Properties *)

TypeOK ==
  /\ heldModifier \in Modifiers \cup {NoModifier}
  /\ jobs \in Seq([command : Commands, released : Nat]) /\ Len(jobs) <= QueueLimit
  /\ pending \in [Keys -> [released : Nat, consume : BOOLEAN]]
  /\ presses \in Nat /\ closed \subseteq Nat
  /\ worker \in [at : {"idle", "waiting", "gate", "running"},
                 job : [command : Commands \cup {Unbound}, released : Nat]]
  /\ callback \in [at : {"idle", "gate"}, command : Commands \cup {Unbound},
                   key : Keys \cup {NoModifier}]
  /\ callback.at = "gate" => callback.key \in Keys
  /\ gate \in {"free", "worker", "other"} /\ focusMode \in BOOLEAN /\ sealed \in BOOLEAN
  /\ down \subseteq Keys \cup Modifiers \cup PhysicalModifiers /\ swallowed \subseteq Keys /\ queued \subseteq Keys
  /\ stale \subseteq Keys /\ used \subseteq Modifiers
  /\ browserWaits \in BOOLEAN

\* A channel that a later press or release of its key will close is still open and
\* is the key's own: closing it twice would end the process.
PendingIsOpen ==
  \A k \in Keys : IsPending(k) =>
    /\ pending[k].released \in (1..presses) \ closed
    /\ \A l \in Keys \ {k} : pending[l].released # pending[k].released

\* The channels of jobs that have yet to see their release.
Waiting == {jobs[i].released : i \in 1..Len(jobs)} \cup
           {n \in {worker.job.released} : worker.at = "waiting"}

\* A queued job that is not signalled has its key pending: no path of NotifyEvent
\* loses the only reference through which a release can end its wait.
WaitingJobsAreSignalled ==
  \A n \in Waiting \ closed : \E k \in Keys : IsPending(k) /\ pending[k].released = n

\* The browser gets the release of a key exactly if it got its press: neither a
\* swallowed key that comes up nor one that stays down for ever.  Left out are the
\* swallowed keys whose command runs in the callback, which leave nothing pending,
\* and keys with a press pending whose release was omitted.
ReleaseFollowsPress ==
  \A k \in (down \cap Keys) \ ({callback.key} \cup stale) :
    (k \in queued \/ k \notin swallowed) => (ReleaseAnswer(k) <=> k \in swallowed)

\* The job of a press is in the queue or with the worker.
Waits(n) == worker.job.released = n \/ \E i \in 1..Len(jobs) : jobs[i].released = n

\* Each queued command reaches the engine and each callback is answered, although
\* a release may be omitted, the callback waits for the gate under l.mu, and the
\* holder of the gate reads from a browser that may wait for the callback.
CommandsAreRun ==
  /\ \A n \in 1..MaxPresses : Waits(n) ~> ~Waits(n)
  /\ (callback # Idle) ~> (callback = Idle)
=============================================================================
