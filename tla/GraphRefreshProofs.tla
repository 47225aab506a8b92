-------------------------- MODULE GraphRefreshProofs --------------------------
(* Theorems about the graph cache, for any number of requests, objects and *)
(* mutations.                                                              *)
EXTENDS GraphRefresh, TLAPS

\* Commands and native handlers hold the gate until they are idle again.
GateIsHeld == \A a \in {Command, Loop} : actor[a].at # "idle" => gate = a

\* A tree is read and installed under refreshMu, and nobody else holds it.
MuIsHeld == \A a \in Refreshers : actor[a].at \in {"read", "install"} => refreshMu = a

\* What was read is not older than what is installed; and if it was read under the gate,
\* it holds every mutation that was handled.
ReadIsNew ==
  \A a \in Refreshers : At(a, "install") =>
    /\ graph <= actor[a].seen /\ actor[a].seen <= page
    /\ a \notin Requests => handled <= actor[a].seen

\* Such a number of mutations is in the graph, or a request cleared the mark of them.
Covered(due) == graph >= due \/ due <= lost

\* What a command or a request is due to have seen was handled when it began, is in the
\* tree that it reads, and covered once it is done.
DueIsCovered ==
  \A a \in Requests \cup {Command} :
    /\ actor[a].due <= handled
    /\ At(a, "install") => actor[a].due <= actor[a].seen
    /\ At(a, "done") => Covered(actor[a].due)

\* A command that was typed finds what its preparation left.
JobsAreCovered == \A due \in jobs : due <= handled /\ Covered(due)

\* A graph that is not marked holds every mutation that was handled, or a request cleared
\* the mark.
CleanIsFresh == ~dirty => Covered(handled)

IInv ==
  /\ TypeOK /\ GateIsHeld /\ MuIsHeld /\ ReadIsNew /\ DueIsCovered /\ JobsAreCovered
  /\ CleanIsFresh

\* The record of an actor.
Refreshes == [at : {"idle", "lock", "read", "install", "focus", "done", "failed"},
              due : Nat, physical : BOOLEAN, focusAtStart : Objects \cup {Nothing}, seen : Nat]

LEMMA InitIInv == Init => IInv
<1> SUFFICES ASSUME Init PROVE IInv
  OBVIOUS
<1>1. \A a \in Refreshers : actor[a] = Idle
  BY DEF Init
<1>2. TypeOK
  <2>1. Idle \in Refreshes
    BY DEF Idle, Refreshes
  <2>2. actor \in [Refreshers -> Refreshes]
    BY <2>1 DEF Init
  <2>3. /\ page \in 0..MaxMutations /\ handled \in 0..page /\ graph \in 0..page
        /\ lost \in 0..handled
    BY MutationsAssumption DEF Init
  <2> QED
    BY <2>2, <2>3 DEF Init, TypeOK, Refreshes
<1>3. {Command, Loop} \subseteq Refreshers /\ Requests \cup {Command} \subseteq Refreshers
  BY DEF Refreshers
<1> QED
  BY <1>1, <1>2, <1>3 DEF Init, IInv, GateIsHeld, MuIsHeld, ReadIsNew, DueIsCovered,
     JobsAreCovered, Covered, CleanIsFresh, Idle, At

LEMMA StartType ==
  ASSUME TypeOK, NEW a \in Refreshers, NEW physical \in BOOLEAN, Starts(a, physical)
  PROVE  actor' \in [Refreshers -> Refreshes]
<1> DEFINE begun == [Idle EXCEPT !.at = IF dirty THEN "lock" ELSE "done", !.due = handled,
                             !.physical = physical]
<1>1. handled \in Nat
  BY MutationsAssumption DEF TypeOK
<1>2. begun \in Refreshes
  BY <1>1 DEF Idle, Refreshes
<1>3. actor \in [Refreshers -> Refreshes]
  BY DEF TypeOK, Refreshes
<1>4. actor' = [actor EXCEPT ![a] = begun]
  BY DEF Starts
<1> QED
  BY <1>2, <1>3, <1>4

LEMMA TypeStep == TypeOK /\ ReadIsNew /\ [Next]_vars => TypeOK'
<1> SUFFICES ASSUME TypeOK, ReadIsNew, [Next]_vars PROVE TypeOK'
  OBVIOUS
<1> USE DEF TypeOK
<1> {Command, Loop} \subseteq Refreshers /\ Requests \subseteq Refreshers
  BY DEF Refreshers
<1>1. CASE Mutate
  BY <1>1, MutationsAssumption DEF Mutate
<1>2. CASE HandleMutation
  BY <1>2, MutationsAssumption DEF HandleMutation, Queued
<1>3. CASE CommandStarts
  BY <1>3, StartType DEF CommandStarts, Starts, Refreshes
<1>14. CASE HandlePhysicalGesture
  <2>1. PICK due \in jobs : actor' = [actor EXCEPT ![Command] =
                              [Idle EXCEPT !.at = "done", !.due = due, !.physical = TRUE]]
    BY <1>14 DEF HandlePhysicalGesture
  <2>2. [Idle EXCEPT !.at = "done", !.due = due, !.physical = TRUE] \in Refreshes
    BY <2>1 DEF Idle, Refreshes
  <2>3. actor' \in [Refreshers -> Refreshes]
    BY <2>1, <2>2 DEF Refreshes
  <2>4. jobs' \subseteq Nat
    BY <1>14 DEF HandlePhysicalGesture
  <2> QED
    BY <1>14, <2>3, <2>4 DEF HandlePhysicalGesture, Refreshes
<1>4. CASE Focus
  BY <1>4 DEF Focus, Idle
<1>5. ASSUME NEW o \in Objects, HandleFocus(o) PROVE TypeOK'
  BY <1>5 DEF HandleFocus, Goto
<1>6. ASSUME NEW o \in Objects, HandleDocument(o) PROVE TypeOK'
  BY <1>6 DEF HandleDocument
<1>7. ASSUME NEW r \in Requests, Sync(r) PROVE TypeOK'
  BY <1>7, StartType DEF Sync, Starts, Refreshes
<1>15. ASSUME NEW r \in Requests, PreparePhysicalCommand(r) PROVE TypeOK'
  BY <1>15, StartType DEF PreparePhysicalCommand, Starts, Refreshes
<1>8. ASSUME NEW a \in Refreshers, RefreshLock(a) PROVE TypeOK'
  BY <1>8 DEF RefreshLock
<1>9. ASSUME NEW a \in Refreshers, BrowserGraph(a) PROVE TypeOK'
  <2>1. page \in Nat
    BY MutationsAssumption
  <2>2. actor' = [actor EXCEPT ![a] = [@ EXCEPT !.at = "install", !.seen = page]]
    BY <1>9 DEF BrowserGraph
  <2>3. [actor[a] EXCEPT !.at = "install", !.seen = page] \in Refreshes
    BY <2>1 DEF Refreshes
  <2> QED
    BY <1>9, <2>2, <2>3 DEF BrowserGraph, Refreshes
<1>10. ASSUME NEW a \in Refreshers, BrowserGraphFails(a) PROVE TypeOK'
  BY <1>10 DEF BrowserGraphFails, Unlocked, Goto
<1>11. ASSUME NEW a \in Refreshers, Install(a) PROVE TypeOK'
  <2>1. graph' \in 0..page'
    BY <1>11, MutationsAssumption DEF Install, ReadIsNew, At
  <2>2. lost' \in 0..handled'
    BY <1>11 DEF Install
  <2> QED
    BY <1>11, <2>1, <2>2 DEF Install, Unlocked, Goto
<1>12. ASSUME NEW a \in Refreshers, Finish(a) PROVE TypeOK'
  BY <1>12 DEF Finish, Idle
<1>13. CASE UNCHANGED vars
  BY <1>13 DEF vars
<1> QED
  BY <1>1, <1>2, <1>3, <1>4, <1>5, <1>6, <1>7, <1>8, <1>9, <1>10, <1>11, <1>12, <1>13, <1>14,
     <1>15 DEF Next

\* What the steps need of the types.
LEMMA Numbers ==
  ASSUME TypeOK
  PROVE  /\ page \in Nat /\ handled \in Nat /\ graph \in Nat /\ lost \in Nat
         /\ handled <= page /\ graph <= page /\ lost <= handled
         /\ actor \in [Refreshers -> Refreshes]
         /\ jobs \subseteq Nat
         /\ \A a \in Refreshers : actor[a].due \in Nat /\ actor[a].seen \in Nat
BY MutationsAssumption DEF TypeOK, Refreshes

LEMMA StepIInv == IInv /\ [Next]_vars => IInv'
<1> SUFFICES ASSUME IInv, [Next]_vars PROVE IInv'
  OBVIOUS
<1> USE DEF At
<1> DEFINE Rest == /\ GateIsHeld /\ MuIsHeld /\ ReadIsNew /\ DueIsCovered /\ JobsAreCovered
                   /\ CleanIsFresh
<1>a. TypeOK'
  BY TypeStep DEF IInv
<1>b. /\ page \in Nat /\ handled \in Nat /\ graph \in Nat /\ lost \in Nat
      /\ handled <= page /\ graph <= page /\ lost <= handled
      /\ actor \in [Refreshers -> Refreshes]
      /\ jobs \subseteq Nat
      /\ \A a \in Refreshers : actor[a].due \in Nat /\ actor[a].seen \in Nat
  BY Numbers DEF IInv
<1>c. /\ {Command, Loop} \subseteq Refreshers /\ Requests \subseteq Refreshers
      /\ Command # Loop /\ Command \notin Requests /\ Loop \notin Requests
      /\ Nobody \notin Refreshers /\ \A a \in Refreshers \ Requests : a = Command \/ a = Loop
  BY ActorAssumption DEF Refreshers
<1> USE <1>b, <1>c
<1> SUFFICES Rest'
  BY <1>a DEF IInv
<1> USE DEF IInv, GateIsHeld, MuIsHeld, ReadIsNew, DueIsCovered, JobsAreCovered,
         Covered, CleanIsFresh
<1>1. CASE Mutate
  BY <1>1 DEF Mutate
<1>2. CASE HandleMutation
  <2>1. actor[Command].at = "idle" /\ actor[Loop].at = "idle"
    BY <1>2 DEF HandleMutation
  <2>2. ReadIsNew'
    BY <1>2, <2>1 DEF HandleMutation, Queued
  <2> QED
    BY <1>2, <2>1, <2>2 DEF HandleMutation, Queued
<1>3. CASE CommandStarts
  BY <1>3 DEF CommandStarts, Starts, Idle, Refreshes
<1>14. CASE HandlePhysicalGesture
  BY <1>14 DEF HandlePhysicalGesture, Idle, Refreshes
<1>4. CASE Focus
  BY <1>4 DEF Focus, Idle, Refreshes
<1>5. ASSUME NEW o \in Objects, HandleFocus(o) PROVE Rest'
  <2>1. PICK at \in {"focus", "lock"} : actor' = [actor EXCEPT ![Loop].at = at]
    BY <1>5 DEF HandleFocus, Goto
  <2>2. \A a \in Refreshers : /\ a # Loop => actor'[a] = actor[a]
                              /\ actor'[a].seen = actor[a].seen /\ actor'[a].due = actor[a].due
    BY <2>1 DEF Refreshes
  <2>3. actor'[Loop].at \in {"focus", "lock"} /\ actor[Command].at = "idle"
    BY <1>5, <2>1 DEF HandleFocus, Refreshes
  <2>4. CleanIsFresh'
    BY <1>5 DEF HandleFocus
  <2> QED
    BY <1>5, <2>2, <2>3, <2>4 DEF HandleFocus
<1>6. ASSUME NEW o \in Objects, HandleDocument(o) PROVE Rest'
  BY <1>6 DEF HandleDocument
<1>7. ASSUME NEW r \in Requests, Sync(r) PROVE Rest'
  BY <1>7 DEF Sync, Starts, Idle, Refreshes
<1>15. ASSUME NEW r \in Requests, PreparePhysicalCommand(r) PROVE Rest'
  BY <1>15 DEF PreparePhysicalCommand, Starts, Idle, Refreshes
<1>8. ASSUME NEW a \in Refreshers, RefreshLock(a) PROVE Rest'
  BY <1>8 DEF RefreshLock, RefreshMuFree, Refreshes
<1>9. ASSUME NEW a \in Refreshers, BrowserGraph(a) PROVE Rest'
  BY <1>9 DEF BrowserGraph, Refreshes
<1>10. ASSUME NEW a \in Refreshers, BrowserGraphFails(a) PROVE Rest'
  BY <1>10 DEF BrowserGraphFails, Unlocked, Goto, Refreshes
<1>11. ASSUME NEW a \in Refreshers, Install(a) PROVE Rest'
  BY <1>11 DEF Install, Unlocked, Goto, Refreshes
<1>12. ASSUME NEW a \in Refreshers, Finish(a) PROVE Rest'
  BY <1>12 DEF Finish, Idle, Refreshes
<1>13. CASE UNCHANGED vars
  BY <1>13 DEF vars
<1> QED
  BY <1>1, <1>2, <1>3, <1>4, <1>5, <1>6, <1>7, <1>8, <1>9, <1>10, <1>11, <1>12, <1>13, <1>14,
     <1>15 DEF Next

-----------------------------------------------------------------------------
LEMMA Invariant == Spec => []IInv
BY InitIInv, StepIInv, PTL DEF Spec

\* Every behaviour of the graph cache is well typed.
THEOREM TypeCorrect == Spec => []TypeOK
<1>1. IInv => TypeOK
  BY DEF IInv
<1> QED
  BY <1>1, Invariant, PTL

\* What a command works on holds every mutation handled before it began, or, if its key
\* was typed, before it was prepared, unless the refresh of a request lost one
\* (engine.go:198-237, 595-614, 667-700, 745-760).
THEOREM CommandsCorrect == Spec => []CommandSeesMutations
<1>1. IInv => CommandSeesMutations
  BY DEF IInv, DueIsCovered, Covered, CommandSeesMutations
<1> QED
  BY <1>1, Invariant, PTL

\* Overlapping refreshes never install an older tree over a newer one
\* (engine.go:198-222).
THEOREM InstallCorrect == Spec => GraphNeverGoesBack
<1>1. IInv /\ [Next]_vars => [graph' >= graph]_vars
  <2> SUFFICES ASSUME IInv, [Next]_vars PROVE graph' >= graph
    OBVIOUS
  <2>1. graph \in Nat
    BY Numbers DEF IInv
  <2>2. ASSUME NEW a \in Refreshers, Install(a) PROVE graph' >= graph
    BY <2>1, <2>2, Numbers DEF IInv, ReadIsNew, Install
  <2>3. CASE UNCHANGED graph
    BY <2>1, <2>3
  <2> QED
    BY <2>2, <2>3 DEF Next, vars, Mutate, HandleMutation, CommandStarts, Starts, Focus, HandleFocus,
       HandlePhysicalGesture, PreparePhysicalCommand, HandleDocument, Sync, RefreshLock, BrowserGraph, BrowserGraphFails, Finish
<1> QED
  BY <1>1, Invariant, PTL DEF Spec, GraphNeverGoesBack
=============================================================================
