----------------------------- MODULE GraphRefresh -----------------------------
(***************************************************************************)
(* internal/engine/engine.go: the cached accessibility graph, the flag     *)
(* that invalidates it and the reads that rebuild it.  Commands and native *)
(* handlers hold commandGate; the control server refreshes without it, in  *)
(* Sync (exports), in RefreshState (state replies), and before it types a  *)
(* key: the command that the key stands for does not refresh again.        *)
(*                                                                         *)
(* The page is its number of mutations.  Each is announced by one native   *)
(* event, in order.  A read of the tree sees the page of some moment while *)
(* it runs.  Which objects a tree holds is left open: an object that gets  *)
(* the focus may be known, unknown or a document.                          *)
(***************************************************************************)
EXTENDS Integers

CONSTANTS Requests,     \* requests of the control server
          Command, Loop, Nobody,
          Objects, Nothing,
          MaxMutations  \* bound: mutations of one behaviour

ASSUME ActorAssumption ==
  /\ Command # Loop /\ {Command, Loop, Nobody} \cap Requests = {}
  /\ Nobody \notin {Command, Loop}
ASSUME ObjectAssumption == Nothing \notin Objects
ASSUME MutationsAssumption == MaxMutations \in Nat

VARIABLES page,      \* mutations of the page so far
          handled,   \* native events of mutations the loop has handled
          gate,      \* commandGate: its holder
          refreshMu, \* its holder
          graph,     \* Engine.graph: the page it was read from
          dirty,     \* Engine.graphDirty
          focus,     \* Engine.focus
          actor,     \* the refresh of each actor
          target,    \* the object whose focus the loop is handling
          jobs,      \* commands that were prepared and typed, each as its due
          lost       \* history: mutations handled when a request cleared the flag unread

vars == <<page, handled, gate, refreshMu, graph, dirty, focus, actor, target, jobs, lost>>

Refreshers == Requests \cup {Command, Loop}

\* What a refresh is due to have seen are the mutations handled before it; a physical one
\* is for a command that is to be typed.
Idle == [at |-> "idle", due |-> 0, physical |-> FALSE, focusAtStart |-> Nothing, seen |-> 0]

Init ==
  /\ page = 0 /\ handled = 0
  /\ gate = Nobody /\ refreshMu = Nobody
  /\ graph = 0 /\ dirty = FALSE /\ focus = Nothing
  /\ actor = [a \in Refreshers |-> Idle]
  /\ target = Nothing /\ jobs = {}
  /\ lost = 0

At(a, label) == actor[a].at = label
Goto(a, label) == actor' = [actor EXCEPT ![a].at = label]

Mutate ==
  /\ page < MaxMutations
  /\ page' = page + 1
  /\ UNCHANGED <<handled, gate, refreshMu, graph, dirty, focus, actor, target, jobs, lost>>

-----------------------------------------------------------------------------
(* Refresh *)

\* Variant for the checks: refreshMu is taken only to install what was read.
RefreshMuFreeFor(a) == TRUE

RefreshMuFree(a) == refreshMu = Nobody

RefreshLock(a) ==
  /\ At(a, "lock") /\ RefreshMuFree(a)
  /\ refreshMu' = a
  /\ actor' = [actor EXCEPT ![a].at = "read", ![a].focusAtStart = focus]
  /\ UNCHANGED <<page, handled, gate, graph, dirty, focus, target, jobs, lost>>

BrowserGraph(a) ==
  /\ At(a, "read")
  /\ actor' = [actor EXCEPT ![a].at = "install", ![a].seen = page]
  /\ UNCHANGED <<page, handled, gate, refreshMu, graph, dirty, focus, target, jobs, lost>>

Unlocked(a) == IF refreshMu = a THEN Nobody ELSE refreshMu

\* The tree is gone or the context ended: nothing changes.
BrowserGraphFails(a) ==
  /\ At(a, "read")
  /\ refreshMu' = Unlocked(a)
  /\ Goto(a, IF a = Loop THEN "focus" ELSE "failed")
  /\ UNCHANGED <<page, handled, gate, graph, dirty, focus, target, jobs, lost>>

\* A focus that moved while the tree was read, and is web content, is read again.
Install(a) ==
  /\ At(a, "install")
  /\ graph' = actor[a].seen
  /\ \E webContentFocused \in BOOLEAN :
       dirty' = (webContentFocused /\ focus # actor[a].focusAtStart)
  /\ lost' = IF a \in Requests /\ actor[a].seen < handled /\ ~dirty' THEN handled ELSE lost
  /\ refreshMu' = Unlocked(a)
  /\ Goto(a, IF a = Loop THEN "focus" ELSE "done")
  /\ UNCHANGED <<page, handled, gate, focus, target, jobs>>

-----------------------------------------------------------------------------
(* refreshIfDirty: Sync, RefreshState, PreparePhysicalCommand and graph commands *)

Starts(a, physical) ==
  /\ actor' = [actor EXCEPT ![a] = [Idle EXCEPT !.at = IF dirty THEN "lock" ELSE "done",
                                               !.due = handled, !.physical = physical]]
  /\ UNCHANGED <<page, handled, refreshMu, graph, dirty, focus, target, jobs, lost>>

Sync(r) ==
  /\ At(r, "idle")
  /\ Starts(r, FALSE)
  /\ UNCHANGED gate

\* Variant for the checks: a graph that is just being read anyway is not waited for.
PrepareUnlessReading(r) ==
  /\ At(r, "idle")
  /\ UNCHANGED gate
  /\ \/ refreshMu = Nobody /\ Starts(r, TRUE)
     \/ /\ refreshMu # Nobody
        /\ actor' = [actor EXCEPT ![r] = [Idle EXCEPT !.at = "done", !.due = handled, !.physical = TRUE]]
        /\ UNCHANGED <<page, handled, refreshMu, graph, dirty, focus, target, jobs, lost>>

\* The command is prepared before its key is typed, with no gate either.
PreparePhysicalCommand(r) ==
  /\ At(r, "idle")
  /\ Starts(r, TRUE)
  /\ UNCHANGED gate

\* Variant for the checks: commands do not wait for the native handler either.
CommandUngated ==
  /\ At(Command, "idle")
  /\ Starts(Command, FALSE)
  /\ UNCHANGED gate

\* A command that was not typed refreshes behind the gate.
CommandStarts ==
  /\ At(Command, "idle") /\ gate = Nobody
  /\ gate' = Command
  /\ Starts(Command, FALSE)

\* One that was typed takes the graph as it finds it, and may be typed a second time.
HandlePhysicalGesture ==
  /\ At(Command, "idle") /\ gate = Nobody
  /\ gate' = Command
  /\ \E due \in jobs :
       /\ jobs' \in {jobs, jobs \ {due}}
       /\ actor' = [actor EXCEPT ![Command] = [Idle EXCEPT !.at = "done", !.due = due, !.physical = TRUE]]
  /\ UNCHANGED <<page, handled, refreshMu, graph, dirty, focus, target, lost>>

\* The graph is used, or the error reported, in which case nothing is typed; a command
\* leaves the gate.
Finish(a) ==
  /\ a # Loop /\ actor[a].at \in {"done", "failed"}
  /\ actor' = [actor EXCEPT ![a] = Idle]
  /\ gate' = IF gate = a THEN Nobody ELSE gate
  /\ jobs' = IF a \in Requests /\ actor[a].physical /\ At(a, "done") THEN jobs \cup {actor[a].due} ELSE jobs
  /\ UNCHANGED <<page, handled, refreshMu, graph, dirty, focus, target, lost>>

-----------------------------------------------------------------------------
(* handleNativeEvent *)

\* Events the page has caused and the loop has not handled.
Queued == handled < page

\* A structural event: the flag is all that this handler changes here.
HandleMutation ==
  /\ gate = Nobody /\ Queued
  /\ handled' = handled + 1
  /\ dirty' = TRUE
  /\ UNCHANGED <<page, gate, refreshMu, graph, focus, actor, target, jobs, lost>>

\* A document that was loaded takes the focus.
HandleDocument(o) ==
  /\ gate = Nobody
  /\ focus' = o /\ dirty' = TRUE
  /\ UNCHANGED <<page, handled, gate, refreshMu, graph, actor, target, jobs, lost>>

\* A focus event, structural or not: an unknown object has the graph read again.
HandleFocus(o) ==
  /\ gate = Nobody
  /\ gate' = Loop
  /\ \E structural \in BOOLEAN : dirty' = (dirty \/ structural)
  /\ target' = o
  /\ \E known \in BOOLEAN : Goto(Loop, IF known THEN "focus" ELSE "lock")
  /\ UNCHANGED <<page, handled, refreshMu, graph, focus, jobs, lost>>

\* A document, or an object the graph still does not hold, invalidates it again.
Focus ==
  /\ At(Loop, "focus")
  /\ focus' = target /\ target' = Nothing
  /\ \E stale \in BOOLEAN : dirty' = (dirty \/ stale)
  /\ gate' = Nobody
  /\ actor' = [actor EXCEPT ![Loop] = Idle]
  /\ UNCHANGED <<page, handled, refreshMu, graph, jobs, lost>>

-----------------------------------------------------------------------------
Next ==
  \/ Mutate \/ HandleMutation \/ CommandStarts \/ HandlePhysicalGesture \/ Focus
  \/ \E o \in Objects : HandleFocus(o) \/ HandleDocument(o)
  \/ \E r \in Requests : Sync(r) \/ PreparePhysicalCommand(r)
  \/ \E a \in Refreshers :
       RefreshLock(a) \/ BrowserGraph(a) \/ BrowserGraphFails(a) \/ Install(a) \/ Finish(a)

Spec == Init /\ [][Next]_vars

-----------------------------------------------------------------------------
(* Properties *)

TypeOK ==
  /\ page \in 0..MaxMutations /\ handled \in 0..page /\ graph \in 0..page
  /\ gate \in {Command, Loop, Nobody} /\ refreshMu \in Refreshers \cup {Nobody}
  /\ dirty \in BOOLEAN /\ lost \in 0..handled /\ jobs \subseteq Nat
  /\ focus \in Objects \cup {Nothing} /\ target \in Objects \cup {Nothing}
  /\ actor \in [Refreshers ->
       [at : {"idle", "lock", "read", "install", "focus", "done", "failed"},
        due : Nat, physical : BOOLEAN, focusAtStart : Objects \cup {Nothing}, seen : Nat]]

\* What a graph command works on holds every mutation whose native event was handled
\* before the command began, or, if its key was typed, before its preparation began
\* (engine.go:595-614): mutations that are handled between its preparation and its job are
\* not promised to it.  Neither the refreshes of other commands, native handlers and
\* requests nor the time that a key waits in the queue take any of the promised mutations
\* away.  The one way around it is a refresh of a request, the preparation of a key
\* included, which takes no gate: ExportSeesMutations shows it.
CommandSeesMutations ==
  At(Command, "done") => graph >= actor[Command].due \/ actor[Command].due <= lost

\* The same of what a request refreshes for an export or a state, as the comment on Sync
\* says: "Artifact and document exports use this so they never freeze a pre-mutation graph".
ExportSeesMutations ==
  \A r \in Requests : At(r, "done") /\ ~actor[r].physical => graph >= actor[r].due

\* Refreshes that overlap never replace a graph by one that was read earlier.
GraphNeverGoesBack == [][graph' >= graph]_vars
=============================================================================
