------------------------ MODULE PhysicalActionProofs ------------------------
(***************************************************************************)
(* Theorems about DeviceListener, for every keyboard, table of commands    *)
(* and queue, and about PhysicalAction: typing with xdotool, the listener, *)
(* its worker and the action of the server together, for every script and  *)
(* any number of presses and sessions.  The second build on the first.     *)
(***************************************************************************)
EXTENDS PhysicalAction, SequenceTheorems, WellFoundedInduction, TLAPS

-----------------------------------------------------------------------------
(* The listener: types *)

\* A stroke decodes to a command of the table or to none, and its key is a key.
LEMMA DecodeType ==
  ASSUME TypeOK, NEW s \in Strokes
  PROVE  Decode(s) \in Commands \cup {Unbound} /\ KeyOf[s] \in Keys
BY BindingAssumption DEF TypeOK, Decode, Keys

LEMMA HeadType ==
  ASSUME NEW S, NEW q \in Seq(S), q # <<>>
  PROVE  Head(q) \in S
OBVIOUS

USE DEF listenerVars, engineVars, keyboardVars

LEMMA TypeStep == TypeOK /\ [Next]_vars => TypeOK'
<1> SUFFICES ASSUME TypeOK, [Next]_vars PROVE TypeOK' OBVIOUS
<1> USE DEF TypeOK
<1>1. ASSUME NEW m \in Modifiers, ModifierPress(m) PROVE TypeOK'
  BY <1>1 DEF ModifierPress
<1>2. ASSUME NEW m \in Modifiers, ModifierRelease(m) PROVE TypeOK'
  BY <1>2 DEF ModifierRelease
<1>3. ASSUME NEW k \in Keys \cup Modifiers, ReleaseOmitted(k) PROVE TypeOK'
  BY <1>3 DEF ReleaseOmitted
<1>4. ASSUME NEW p \in Modifiers \cup PhysicalModifiers, PassBy(p) PROVE TypeOK'
  BY <1>4 DEF PassBy
<1>5. ASSUME NEW s \in Strokes, PressUnbound(s) PROVE TypeOK'
  BY <1>5, DecodeType DEF PressUnbound, Strike, UseModifier, Answer
<1>6. ASSUME NEW s \in Strokes, PressQueued(s) PROVE TypeOK'
  <2>1. KeyOf[s] \in Keys /\ Decode(s) \in Commands
    BY <1>6, DecodeType, CommandAssumption DEF PressQueued
  <2>2. ShouldConsume(Decode(s)) \in BOOLEAN
    BY DEF ShouldConsume, Consumes
  <2>3. jobs' \in Seq([command : Commands, released : Nat]) /\ Len(jobs') <= QueueLimit
    BY <1>6, <2>1, BoundAssumption DEF PressQueued
  <2>4. Superseded(KeyOf[s]) \subseteq Nat
    BY <2>1 DEF Superseded, IsPending
  <2>5. pending' \in [Keys -> [released : Nat, consume : BOOLEAN]]
    BY <1>6, <2>1, <2>2 DEF PressQueued
  <2> QED BY ZenonT(30), <1>6, <2>1, <2>3, <2>4, <2>5 DEF PressQueued, Strike, UseModifier, Answer
<1>7. ASSUME NEW s \in Strokes, PressRefused(s) PROVE TypeOK'
  <2>1. KeyOf[s] \in Keys
    BY DecodeType
  <2>2. Superseded(KeyOf[s]) \subseteq Nat
    BY <2>1 DEF Superseded, IsPending
  <2>3. pending' \in [Keys -> [released : Nat, consume : BOOLEAN]]
    BY <1>7, <2>1 DEF PressRefused, DropRefused, NotPending, NoChannel
  <2>4. presses' \in Nat /\ closed' = closed \cup Superseded(KeyOf[s]) \cup {presses'}
    BY <1>7 DEF PressRefused
  <2>5. closed' \subseteq Nat
    BY <2>2, <2>4
  <2> QED BY <1>7, <2>1, <2>3, <2>4, <2>5 DEF PressRefused, Strike, UseModifier, Answer
<1>8. ASSUME NEW s \in Strokes, PressSync(s) PROVE TypeOK'
  BY <1>8, DecodeType DEF PressSync, Strike, UseModifier
<1>9. ASSUME NEW k \in Keys, KeyRelease(k) PROVE TypeOK'
  BY ZenonT(30), <1>9 DEF KeyRelease, Superseded, IsPending, Unpend, NotPending, NoChannel
<1>10. CASE CallbackRuns
  BY <1>10 DEF CallbackRuns, Execute, Answer, Idle
<1>11. CASE WorkerTakes
  <2>1. Head(jobs) \in [command : Commands, released : Nat]
    BY <1>11, HeadType DEF WorkerTakes
  <2>2. Tail(jobs) \in Seq([command : Commands, released : Nat]) /\ Len(Tail(jobs)) <= QueueLimit
    BY <1>11, BoundAssumption DEF WorkerTakes
  <2> QED BY <1>11, <2>1, <2>2 DEF WorkerTakes
<1>12. CASE WorkerProceeds
  BY <1>12 DEF WorkerProceeds
<1>13. CASE WorkerGate
  BY <1>13 DEF WorkerGate
<1>14. CASE WorkerEnds
  BY <1>14 DEF WorkerEnds, NoJob, NoChannel
<1>15. CASE RegistryGivesUp
  BY <1>15 DEF RegistryGivesUp
<1>16. CASE OtherTakesGate
  BY <1>16 DEF OtherTakesGate
<1>17. CASE OtherLeavesGate
  BY <1>17 DEF OtherLeavesGate
<1>18. CASE UNCHANGED vars
  BY <1>18 DEF vars
<1> QED BY <1>1, <1>2, <1>3, <1>4, <1>5, <1>6, <1>7, <1>8, <1>9, <1>10, <1>11, <1>12, <1>13,
           <1>14, <1>15, <1>16, <1>17, <1>18 DEF Next, Press, Release, System

LEMMA TypeInit == Init => TypeOK
<1> SUFFICES ASSUME Init PROVE TypeOK OBVIOUS
<1>1. jobs \in Seq([command : Commands, released : Nat]) /\ Len(jobs) <= QueueLimit
  BY BoundAssumption DEF Init
<1>2. pending \in [Keys -> [released : Nat, consume : BOOLEAN]]
  BY DEF Init, NotPending, NoChannel
<1>3. /\ worker \in [at : {"idle", "waiting", "gate", "running"},
                    job : [command : Commands \cup {Unbound}, released : Nat]]
      /\ callback \in [at : {"idle", "gate"}, command : Commands \cup {Unbound},
                      key : Keys \cup {NoModifier}]
      /\ callback.at # "gate"
  BY DEF Init, NoJob, NoChannel, Idle
<1> QED BY <1>1, <1>2, <1>3 DEF Init, TypeOK

\* Every behaviour is well typed, and the queue is never longer than its capacity:
\* NotifyEvent refuses a press rather than block the callback.
THEOREM TypeCorrect == Spec => []TypeOK
BY TypeInit, TypeStep, PTL DEF Spec

-----------------------------------------------------------------------------
\* What makes PendingIsOpen inductive: a channel is closed only after it was made,
\* so that the channel of the next press is open and nobody else's.
PendingInv == PendingIsOpen /\ closed \subseteq 1..presses

\* Steps that neither make, close nor forget a channel.
LEMMA PendingFrame ==
  ASSUME TypeOK, PendingInv, UNCHANGED <<pending, closed>>,
         presses' = presses \/ presses' = presses + 1
  PROVE  PendingInv'
<1>1. presses \in Nat /\ 1..presses \subseteq 1..presses'
  BY DEF TypeOK
<1>2. PendingIsOpen'
  BY <1>1 DEF PendingInv, PendingIsOpen, IsPending
<1> QED BY <1>1, <1>2 DEF PendingInv

\* A press of a key gives it the channel of the press, and closes its previous one.
LEMMA PendingQueued ==
  ASSUME TypeOK, PendingInv, NEW s \in Strokes, PressQueued(s)
  PROVE  PendingInv'
<1> DEFINE k == KeyOf[s]
<1>1. k \in Keys /\ presses \in Nat /\ presses' = presses + 1
  BY DecodeType DEF TypeOK, PressQueued
<1>2. closed' = closed \cup Superseded(k)
  BY DEF PressQueued
<1>3. pending'[k].released = presses + 1 /\ \A l \in Keys \ {k} : pending'[l] = pending[l]
  BY <1>1 DEF TypeOK, PressQueued
<1>4. Superseded(k) \subseteq 1..presses
  BY <1>1 DEF Superseded, PendingInv, PendingIsOpen, IsPending
<1>5. closed' \subseteq 1..presses
  BY <1>2, <1>4 DEF PendingInv
<1>6. \A l \in Keys : pending[l].released \in 0..presses
  BY <1>1 DEF PendingInv, PendingIsOpen, IsPending, NotPending, NoChannel
<1>7. ASSUME NEW l \in Keys, IsPending(l)'
      PROVE  /\ pending'[l].released \in (1..presses') \ closed'
             /\ \A j \in Keys \ {l} : pending'[j].released # pending'[l].released
  <2>1. CASE l = k
    BY <2>1, <1>1, <1>3, <1>5, <1>6
  <2>2. CASE l # k
    <3>1. IsPending(l) /\ pending'[l] = pending[l]
      BY <2>2, <1>3, <1>7 DEF IsPending
    <3>2. pending[l].released \in (1..presses) \ closed
      BY <3>1 DEF PendingInv, PendingIsOpen
    <3>3. \A j \in Keys \ {l} : pending[j].released # pending[l].released
      BY <3>1 DEF PendingInv, PendingIsOpen
    <3>4. pending[l].released \notin Superseded(k)
      BY <1>1, <2>2, <3>3 DEF Superseded
    <3>5. pending'[l].released \in (1..presses') \ closed'
      BY <1>1, <1>2, <3>1, <3>2, <3>4
    <3>6. ASSUME NEW j \in Keys \ {l} PROVE pending'[j].released # pending'[l].released
      BY <1>1, <1>3, <3>1, <3>2, <3>3
    <3> QED BY <3>5, <3>6
  <2> QED BY <2>1, <2>2
<1>8. PendingIsOpen'
  BY <1>7 DEF PendingIsOpen
<1> QED BY <1>1, <1>5, <1>8 DEF PendingInv

\* A refused press and a release leave the key without a channel.
LEMMA PendingDropped ==
  ASSUME TypeOK, PendingInv, NEW k \in Keys,
         pending' = [pending EXCEPT ![k] = NotPending],
         NEW N \in SUBSET {presses + 1}, closed' = closed \cup Superseded(k) \cup N,
         \/ N = {} /\ presses' = presses
         \/ presses' = presses + 1
  PROVE  PendingInv'
<1>1. presses \in Nat /\ presses' \in {presses, presses + 1}
  BY DEF TypeOK
<1>2. Superseded(k) \subseteq 1..presses
  BY <1>1 DEF Superseded, PendingInv, PendingIsOpen, IsPending
<1>3. closed' \subseteq 1..presses'
  <2>1. N \subseteq 1..presses'
    <3>1. CASE N = {}
      BY <3>1
    <3>2. CASE presses' = presses + 1
      BY <3>2, <1>1
    <3> QED BY <3>1, <3>2
  <2>2. 1..presses \subseteq 1..presses'
    BY <1>1
  <2>3. closed \cup Superseded(k) \subseteq 1..presses
    BY <1>2 DEF PendingInv
  <2> QED BY <2>1, <2>2, <2>3
<1>4. pending'[k] = NotPending /\ \A l \in Keys \ {k} : pending'[l] = pending[l]
  BY DEF TypeOK
<1>5. ASSUME NEW l \in Keys, IsPending(l)'
      PROVE  /\ pending'[l].released \in (1..presses') \ closed'
             /\ \A j \in Keys \ {l} : pending'[j].released # pending'[l].released
  <2>1. l # k /\ IsPending(l) /\ pending'[l] = pending[l]
    BY <1>4, <1>5 DEF IsPending
  <2>2. pending[l].released \in (1..presses) \ closed
    BY <2>1 DEF PendingInv, PendingIsOpen
  <2>3. \A j \in Keys \ {l} : pending[j].released # pending[l].released
    BY <2>1 DEF PendingInv, PendingIsOpen
  <2>4. pending[l].released \notin Superseded(k)
    BY <2>1, <2>3 DEF Superseded
  <2>5. pending'[l].released \in (1..presses') \ closed'
    BY <1>1, <2>1, <2>2, <2>4
  <2>6. ASSUME NEW j \in Keys \ {l} PROVE pending'[j].released # pending'[l].released
    <3>1. CASE j = k
      BY <3>1, <1>1, <1>4, <2>1, <2>2 DEF NotPending, NoChannel
    <3>2. CASE j # k
      BY <3>2, <1>4, <2>1, <2>3
    <3> QED BY <3>1, <3>2
  <2> QED BY <2>5, <2>6
<1>6. PendingIsOpen'
  BY <1>5 DEF PendingIsOpen
<1> QED BY <1>3, <1>6 DEF PendingInv

\* No channel is closed twice: what a later press or release of a key will close
\* is open, on every path through NotifyEvent.
THEOREM PendingCorrect == Spec => []PendingIsOpen
<1>1. Init => PendingInv
  BY DEF Init, PendingInv, PendingIsOpen, IsPending
<1>2. TypeOK /\ PendingInv /\ [Next]_vars => PendingInv'
  <2> SUFFICES ASSUME TypeOK, PendingInv, [Next]_vars PROVE PendingInv' OBVIOUS
  <2>1. CASE UNCHANGED <<pending, closed, presses>>
    BY <2>1, PendingFrame
  <2>2. ASSUME NEW s \in Strokes, PressUnbound(s) \/ PressSync(s) PROVE PendingInv'
    BY <2>2, PendingFrame DEF PressUnbound, PressSync
  <2>3. ASSUME NEW s \in Strokes, PressQueued(s) PROVE PendingInv'
    BY <2>3, PendingQueued
  <2>4. ASSUME NEW s \in Strokes, PressRefused(s) PROVE PendingInv'
    <3>1. KeyOf[s] \in Keys
      BY DecodeType
    <3>2. /\ pending' = [pending EXCEPT ![KeyOf[s]] = NotPending]
          /\ closed' = closed \cup Superseded(KeyOf[s]) \cup {presses + 1}
          /\ presses' = presses + 1
      BY <2>4 DEF PressRefused, DropRefused
    <3> QED BY <3>1, <3>2, PendingDropped
  <2>5. ASSUME NEW k \in Keys, KeyRelease(k) PROVE PendingInv'
    <3>1. /\ pending' = [pending EXCEPT ![k] = NotPending]
          /\ closed' = closed \cup Superseded(k) \cup {}
          /\ presses' = presses
      BY <2>5 DEF KeyRelease, Unpend
    <3> QED BY <3>1, PendingDropped
  <2>6. CASE \E m \in Modifiers : ModifierPress(m) \/ ModifierRelease(m) \/ ReleaseOmitted(m)
    BY <2>1, <2>6 DEF ModifierPress, ModifierRelease, ReleaseOmitted
  <2>7. CASE (\E p \in Modifiers \cup PhysicalModifiers : PassBy(p)) \/ (\E k \in Keys : ReleaseOmitted(k))
    BY <2>1, <2>7 DEF PassBy, ReleaseOmitted
  <2>8. CASE System
    BY <2>1, <2>8 DEF System, CallbackRuns, WorkerTakes, WorkerProceeds, WorkerGate, WorkerEnds,
                      RegistryGivesUp, OtherTakesGate, OtherLeavesGate
  <2>9. CASE UNCHANGED vars
    BY <2>1, <2>9 DEF vars
  <2> QED BY <2>2, <2>3, <2>4, <2>5, <2>6, <2>7, <2>8, <2>9 DEF Next, Press, Release
<1> QED BY <1>1, <1>2, TypeCorrect, PTL DEF Spec, PendingInv

-----------------------------------------------------------------------------
\* A job is signalled or its key still holds its channel, on every path through
\* NotifyEvent: the worker never waits for a release that nobody can announce.
THEOREM SignalsCorrect == Spec => []WaitingJobsAreSignalled
<1> DEFINE Held(n) == \E k \in Keys : IsPending(k) /\ pending[k].released = n
<1>1. Init => WaitingJobsAreSignalled
  BY DEF Init, WaitingJobsAreSignalled, Waiting
<1>2. TypeOK /\ WaitingJobsAreSignalled /\ [Next]_vars => WaitingJobsAreSignalled'
  <2> SUFFICES ASSUME TypeOK, WaitingJobsAreSignalled, [Next]_vars,
                      NEW n \in Waiting' \ closed'
               PROVE  Held(n)'
    BY DEF WaitingJobsAreSignalled
  <2>1. CASE Waiting' \subseteq Waiting /\ UNCHANGED <<pending, closed>>
    BY <2>1 DEF WaitingJobsAreSignalled, IsPending
  <2>2. ASSUME NEW s \in Strokes, PressQueued(s) PROVE Held(n)'
    <3> DEFINE k == KeyOf[s]
    <3>1. k \in Keys
      BY DecodeType
    <3>2. pending'[k].released = presses' /\ \A l \in Keys \ {k} : pending'[l] = pending[l]
      BY <2>2, <3>1 DEF TypeOK, PressQueued
    <3>3. n \in Waiting \/ n = presses'
      BY <2>2 DEF TypeOK, PressQueued, Waiting
    <3>4. CASE n = presses'
      <4>1. presses' # 0
        BY <2>2 DEF TypeOK, PressQueued
      <4> QED BY <3>1, <3>2, <3>4, <4>1 DEF IsPending, NotPending, NoChannel
    <3>5. CASE n \in Waiting
      <4>1. n \notin closed /\ n \notin Superseded(k)
        BY <2>2 DEF PressQueued
      <4>2. PICK l \in Keys : IsPending(l) /\ pending[l].released = n
        BY <3>5, <4>1 DEF WaitingJobsAreSignalled
      <4>3. l # k
        BY <4>1, <4>2 DEF Superseded
      <4> QED BY <3>2, <4>2, <4>3 DEF IsPending
    <3> QED BY <3>3, <3>4, <3>5
  <2>3. ASSUME NEW k \in Keys, Waiting' = Waiting, closed \cup Superseded(k) \subseteq closed',
               pending' = [pending EXCEPT ![k] = NotPending]
        PROVE  Held(n)'
    <3>1. n \in Waiting \ closed /\ n \notin Superseded(k)
      BY <2>3
    <3>2. PICK l \in Keys : IsPending(l) /\ pending[l].released = n
      BY <3>1 DEF WaitingJobsAreSignalled
    <3>3. l # k
      BY <3>1, <3>2 DEF Superseded
    <3>4. pending'[l] = pending[l]
      BY <2>3, <3>3 DEF TypeOK
    <3> QED BY <3>2, <3>4 DEF IsPending
  <2>4. ASSUME NEW s \in Strokes, PressRefused(s) PROVE Held(n)'
    <3>1. Waiting' = Waiting /\ KeyOf[s] \in Keys
      BY <2>4, DecodeType DEF PressRefused, Waiting
    <3> QED BY <2>3, <2>4, <3>1 DEF PressRefused, DropRefused
  <2>5. ASSUME NEW k \in Keys, KeyRelease(k) PROVE Held(n)'
    <3>1. Waiting' = Waiting
      BY <2>5 DEF KeyRelease, Waiting
    <3> QED BY <2>3, <2>5, <3>1 DEF KeyRelease, Unpend
  <2>6. CASE UNCHANGED <<jobs, worker, pending, closed>>
    BY <2>1, <2>6 DEF Waiting
  <2>7. ASSUME NEW s \in Strokes, PressUnbound(s) \/ PressSync(s) PROVE Held(n)'
    BY <2>6, <2>7 DEF PressUnbound, PressSync
  <2>8. CASE \E m \in Modifiers : ModifierPress(m) \/ ModifierRelease(m) \/ ReleaseOmitted(m)
    BY <2>6, <2>8 DEF ModifierPress, ModifierRelease, ReleaseOmitted
  <2>9. CASE (\E p \in Modifiers \cup PhysicalModifiers : PassBy(p)) \/ (\E k \in Keys : ReleaseOmitted(k))
    BY <2>6, <2>9 DEF PassBy, ReleaseOmitted
  <2>10. CASE WorkerTakes
    <3>1. jobs \in Seq([command : Commands, released : Nat]) /\ jobs # <<>>
      BY <2>10 DEF WorkerTakes, TypeOK
    <3>2. /\ jobs' = Tail(jobs) /\ worker' = [at |-> "waiting", job |-> jobs[1]]
          /\ UNCHANGED <<pending, closed>>
      BY <2>10 DEF WorkerTakes
    <3>3. 1 \in 1..Len(jobs) /\ \A i \in 1..Len(jobs') : i + 1 \in 1..Len(jobs) /\ jobs'[i] = jobs[i + 1]
      BY <3>1, <3>2
    <3>4. Waiting' \subseteq Waiting
      BY <3>2, <3>3 DEF Waiting
    <3> QED BY <2>1, <3>2, <3>4
  <2>11. CASE WorkerProceeds \/ WorkerGate \/ WorkerEnds
    <3>1. /\ worker'.at # "waiting" /\ UNCHANGED <<jobs, pending, closed>>
      BY <2>11 DEF WorkerProceeds, WorkerGate, WorkerEnds, TypeOK
    <3> QED BY <2>1, <3>1 DEF Waiting
  <2>12. CASE CallbackRuns \/ RegistryGivesUp \/ OtherTakesGate \/ OtherLeavesGate
    BY <2>6, <2>12 DEF CallbackRuns, RegistryGivesUp, OtherTakesGate, OtherLeavesGate
  <2>13. CASE UNCHANGED vars
    BY <2>6, <2>13 DEF vars
  <2> QED BY <2>2, <2>4, <2>5, <2>7, <2>8, <2>9, <2>10, <2>11, <2>12, <2>13
          DEF Next, Press, Release, System
<1> QED BY <1>1, <1>2, TypeCorrect, PTL DEF Spec
-----------------------------------------------------------------------------
\* What is pending of a key whose releases the listener was told of: nothing of a key
\* that is up or whose last press was not queued; otherwise what that press was told.
KeyInv(k) ==
  /\ IsPending(k) => k \in down /\ k \in queued
  /\ k \in queued => (ReleaseAnswer(k) <=> k \in swallowed)

AnswersInv ==
  /\ \A k \in Keys \ stale : KeyInv(k)
  /\ callback.at = "gate" => callback.key \notin queued

\* A step that leaves a key's entry, press and history alone.
LEMMA KeyFrame ==
  ASSUME NEW k \in Keys, KeyInv(k), pending'[k] = pending[k], k \in down => k \in down',
         k \in queued' <=> k \in queued, k \in queued => (k \in swallowed' <=> k \in swallowed)
  PROVE  KeyInv(k)'
BY DEF KeyInv, IsPending, ReleaseAnswer

\* A key of which nothing is pending, and whose last press was not queued.
LEMMA KeyIsFree ==
  ASSUME NEW k \in Keys, pending'[k] = NotPending, k \notin queued'
  PROVE  KeyInv(k)'
BY DEF KeyInv, IsPending

\* The browser gets the release of a key exactly if it got its press, for every path
\* of a press and its release through NotifyEvent, and whatever the mode and the seal
\* do in between.
THEOREM ReleaseCorrect == Spec => []ReleaseFollowsPress
<1>1. Init => AnswersInv
  BY DEF Init, AnswersInv, KeyInv, IsPending, Idle
<1>2. TypeOK /\ AnswersInv /\ [Next]_vars => AnswersInv'
  <2> SUFFICES ASSUME TypeOK, AnswersInv, [Next]_vars PROVE AnswersInv' OBVIOUS
  <2>1. CASE UNCHANGED <<pending, swallowed, queued, stale, callback>>
             /\ Keys \cap down \subseteq down'
    BY <2>1, KeyFrame DEF AnswersInv
  <2>2. ASSUME NEW m \in Modifiers, ModifierPress(m) \/ ModifierRelease(m) PROVE AnswersInv'
    BY <2>1, <2>2, ModifierAssumption DEF ModifierPress, ModifierRelease
  <2>3. ASSUME NEW m \in Modifiers, ReleaseOmitted(m) PROVE AnswersInv'
    <3>1. m \notin Keys
      BY ModifierAssumption
    <3>2. \A k \in Keys : k \in down => k \in down'
      BY <2>3, <3>1 DEF ReleaseOmitted
    <3>3. UNCHANGED <<pending, callback>> /\ stale' = stale
          /\ swallowed' = swallowed \ {m} /\ queued' = queued \ {m}
      BY <2>3, <3>1 DEF ReleaseOmitted
    <3>4. \A k \in Keys : (k \in queued' <=> k \in queued) /\ (k \in swallowed' <=> k \in swallowed)
      BY <3>1, <3>3
    <3> QED BY <3>2, <3>3, <3>4, KeyFrame DEF AnswersInv
  <2>4. ASSUME NEW p \in Modifiers \cup PhysicalModifiers, PassBy(p) PROVE AnswersInv'
    BY <2>1, <2>4, ModifierAssumption DEF PassBy
  <2>5. ASSUME NEW k \in Keys, callback' = Idle \/ callback'.key = k,
               \A l \in Keys \ {k} :
                 /\ pending'[l] = pending[l] /\ (l \in down => l \in down')
                 /\ (l \in queued' <=> l \in queued) /\ (l \in swallowed' <=> l \in swallowed)
                 /\ (l \in stale' <=> l \in stale),
               k \notin stale' => KeyInv(k)', callback' # Idle => k \notin queued'
        PROVE  AnswersInv'
    <3>1. ASSUME NEW l \in Keys \ stale' PROVE KeyInv(l)'
      BY <2>5, <3>1, KeyFrame DEF AnswersInv
    <3> QED BY <2>5, <3>1 DEF AnswersInv, Idle
  <2>6. ASSUME NEW s \in Strokes, PressUnbound(s) \/ PressSync(s) PROVE AnswersInv'
    <3> DEFINE k == KeyOf[s]
    <3>1. k \in Keys /\ k \notin down /\ callback = Idle
      BY <2>6, DecodeType DEF PressUnbound, PressSync, Strike
    <3>2. /\ UNCHANGED <<pending, stale>> /\ queued' = queued \ {k} /\ down' = down \cup {k}
          /\ \A l \in Keys \ {k} : l \in swallowed' <=> l \in swallowed
          /\ callback' = Idle \/ callback'.key = k
      BY <2>6, <3>1 DEF PressUnbound, PressSync, Strike, Answer
    <3>3. k \notin stale => pending[k] = NotPending
      BY <3>1 DEF AnswersInv, KeyInv, IsPending
    <3>4. k \notin stale' => KeyInv(k)'
      BY <3>1, <3>2, <3>3, KeyIsFree
    <3> HIDE DEF k
    <3> QED BY <2>5, <3>1, <3>2, <3>4
  <2>7. ASSUME NEW s \in Strokes, PressQueued(s) PROVE AnswersInv'
    <3> DEFINE k == KeyOf[s]
               consume == ShouldConsume(Decode(s))
    <3>1. k \in Keys /\ callback' = Idle /\ presses' # 0 /\ consume \in BOOLEAN
      BY <2>7, DecodeType DEF PressQueued, Strike, TypeOK, ShouldConsume, Consumes
    <3>2. /\ pending' = [pending EXCEPT ![k] = [released |-> presses', consume |-> consume]]
          /\ queued' = queued \cup {k} /\ down' = down \cup {k} /\ stale' = stale \ {k}
          /\ swallowed' = IF consume THEN swallowed \cup {k} ELSE swallowed \ {k}
      BY <2>7 DEF PressQueued, Strike, Answer
    <3> HIDE DEF k, consume
    <3>3. pending'[k] = [released |-> presses', consume |-> consume]
      BY <3>1, <3>2 DEF TypeOK
    <3>4. IsPending(k)' /\ pending'[k].consume = consume
      BY <3>1, <3>3 DEF IsPending, NotPending, NoChannel
    <3>5. KeyInv(k)'
      BY <3>1, <3>2, <3>4 DEF KeyInv, ReleaseAnswer
    <3>6. \A l \in Keys \ {k} : pending'[l] = pending[l]
      BY <3>2 DEF TypeOK
    <3> QED BY <2>5, <3>1, <3>2, <3>5, <3>6
  <2>8. ASSUME NEW s \in Strokes, PressRefused(s) PROVE AnswersInv'
    <3> DEFINE k == KeyOf[s]
    <3>1. k \in Keys /\ callback' = Idle
      BY <2>8, DecodeType DEF PressRefused, Strike
    <3>2. /\ pending' = [pending EXCEPT ![k] = NotPending]
          /\ queued' = queued \ {k} /\ down' = down \cup {k} /\ stale' = stale \ {k}
          /\ swallowed' = swallowed \ {k}
      BY <2>8 DEF PressRefused, DropRefused, Strike, Answer
    <3> HIDE DEF k
    <3>3. pending'[k] = NotPending /\ \A l \in Keys \ {k} : pending'[l] = pending[l]
      BY <3>1, <3>2 DEF TypeOK
    <3>4. KeyInv(k)'
      BY <3>1, <3>2, <3>3, KeyIsFree
    <3> QED BY <2>5, <3>1, <3>2, <3>3, <3>4
  <2>9. ASSUME NEW k \in Keys, KeyRelease(k) PROVE AnswersInv'
    <3>1. /\ pending' = [pending EXCEPT ![k] = NotPending] /\ callback' = Idle
          /\ queued' = queued \ {k} /\ down' = down \ {k} /\ stale' = stale \ {k}
          /\ swallowed' = swallowed \ {k}
      BY <2>9 DEF KeyRelease, Unpend
    <3>2. pending'[k] = NotPending /\ \A l \in Keys \ {k} : pending'[l] = pending[l]
      BY <3>1 DEF TypeOK
    <3>3. KeyInv(k)'
      BY <3>1, <3>2, KeyIsFree
    <3> QED BY <2>5, <3>1, <3>2, <3>3
  <2>10. ASSUME NEW k \in Keys, ReleaseOmitted(k) PROVE AnswersInv'
    <3>1. /\ UNCHANGED <<pending, callback>> /\ stale' = stale \cup {k}
          /\ queued' = queued \ {k} /\ down' = down \ {k} /\ swallowed' = swallowed \ {k}
      BY <2>10 DEF ReleaseOmitted
    <3>2. ASSUME NEW l \in Keys \ stale' PROVE KeyInv(l)'
      BY <3>1, <3>2, KeyFrame DEF AnswersInv
    <3> QED BY <3>1, <3>2 DEF AnswersInv
  <2>11. CASE CallbackRuns
    <3>1. callback.key \notin queued /\ callback' = Idle
          /\ UNCHANGED <<pending, queued, down, stale>>
      BY <2>11 DEF CallbackRuns, AnswersInv
    <3>2. \A k \in queued : k \in swallowed' <=> k \in swallowed
      BY <2>11, <3>1 DEF CallbackRuns, Answer
    <3>3. ASSUME NEW k \in Keys \ stale' PROVE KeyInv(k)'
      BY <3>1, <3>2, <3>3, KeyFrame DEF AnswersInv
    <3> QED BY <3>1, <3>3 DEF AnswersInv, Idle
  <2>12. CASE WorkerTakes \/ WorkerProceeds \/ WorkerGate \/ WorkerEnds
    BY <2>1, <2>12 DEF WorkerTakes, WorkerProceeds, WorkerGate, WorkerEnds
  <2>13. CASE RegistryGivesUp \/ OtherTakesGate \/ OtherLeavesGate
    BY <2>1, <2>13 DEF RegistryGivesUp, OtherTakesGate, OtherLeavesGate
  <2>14. CASE UNCHANGED vars
    BY <2>1, <2>14 DEF vars
  <2> QED BY <2>2, <2>3, <2>4, <2>6, <2>7, <2>8, <2>9, <2>10, <2>11, <2>12, <2>13, <2>14
          DEF Next, Press, Release, System
<1>3. TypeOK /\ AnswersInv => ReleaseFollowsPress
  BY DEF AnswersInv, KeyInv, ReleaseFollowsPress, ReleaseAnswer
<1> QED BY <1>1, <1>2, <1>3, TypeCorrect, PTL DEF Spec

-----------------------------------------------------------------------------
\* The modifier that the listener holds for the next stroke.
HeldIsDown == heldModifier # NoModifier => heldModifier \in down \ used

\* A modifier that the listener still holds is down, and no stroke has used it: the
\* omitted release of a used modifier leaves nothing behind (device.go:300-312).
THEOREM HeldCorrect == Spec => []HeldIsDown
<1>1. Init => HeldIsDown
  BY DEF Init, HeldIsDown
<1>2. TypeOK /\ HeldIsDown /\ [Next]_vars => HeldIsDown'
  <2> SUFFICES ASSUME TypeOK, HeldIsDown, [Next]_vars PROVE HeldIsDown' OBVIOUS
  <2>0. heldModifier \in Modifiers \cup {NoModifier}
    BY DEF TypeOK
  <2>1. ASSUME NEW m \in Modifiers, ModifierPress(m) \/ ModifierRelease(m) PROVE HeldIsDown'
    BY <2>1 DEF ModifierPress, ModifierRelease, HeldIsDown
  <2>2. ASSUME NEW k \in Keys \cup Modifiers, ReleaseOmitted(k) PROVE HeldIsDown'
    BY <2>0, <2>2, ModifierAssumption DEF ReleaseOmitted, HeldIsDown
  <2>3. ASSUME NEW p \in Modifiers \cup PhysicalModifiers, PassBy(p) PROVE HeldIsDown'
    BY <2>0, <2>3, ModifierAssumption DEF PassBy, HeldIsDown
  <2>4. ASSUME NEW s \in Strokes, Press(s) PROVE HeldIsDown'
    <3>1. heldModifier' = NoModifier
      BY <2>4 DEF Press, PressUnbound, PressQueued, PressRefused, PressSync, Strike, UseModifier
    <3> QED BY <3>1 DEF HeldIsDown
  <2>5. ASSUME NEW k \in Keys, KeyRelease(k) PROVE HeldIsDown'
    BY <2>0, <2>5, ModifierAssumption DEF KeyRelease, HeldIsDown
  <2>6. CASE System \/ UNCHANGED vars
    <3>1. UNCHANGED <<heldModifier, down, used>>
      BY <2>6 DEF System, CallbackRuns, WorkerTakes, WorkerProceeds, WorkerGate, WorkerEnds,
                  RegistryGivesUp, OtherTakesGate, OtherLeavesGate, vars
    <3> QED BY <3>1 DEF HeldIsDown
  <2> QED BY <2>1, <2>2, <2>3, <2>4, <2>5, <2>6 DEF Next, Release
<1> QED BY <1>1, <1>2, TypeCorrect, PTL DEF Spec

HIDE DEF listenerVars, engineVars, keyboardVars

-----------------------------------------------------------------------------
(* Types *)

Requests == Commands \cup Structured \cup {Unbound}

Places == {"idle", "press", "direct", "typing", "acknowledge", "running", "settle", "tail"}

Tasks == [at : Places, command : Requests, gesture : Gestures \cup {NoGesture},
          presses : Nat, before : Nat, from : Nat]

Events == [kind : {"started", "completed", "failed"}, command : Requests,
           session : Nat, press : Nat, acts : BOOLEAN]

Presses == [action : Nat, command : Commands \cup {Unbound}, swallowed : BOOLEAN]

Replies == [command : Requests, sure : BOOLEAN, structured : BOOLEAN, from : Nat, to : Nat]

InjectorTypes ==
  /\ step \in {"idle", "hold", "key", "keyUp", "release"}
  /\ gesture \in Gestures \cup {NoGesture} /\ (step # "idle" => gesture \in Gestures)
  /\ rest \in Seq(AllModifiers) /\ held \in Seq(AllModifiers)
  /\ failed \in BOOLEAN /\ stuck \subseteq Keys \cup AllModifiers

ActionTypes ==
  /\ script \in Seq(Gestures \cup Structured)
  /\ action \in Tasks
  /\ action.at \in {"press", "typing", "acknowledge"} => action.gesture \in Gestures
  /\ {session, begun, changes} \subseteq Nat

HistoryTypes ==
  /\ log \in Seq(Events) /\ answered \in Seq(Replies)
  /\ strokes \in Seq(Presses)
  /\ disturbed \subseteq Nat

\* Whoever runs a command holds the gate.
GateIsHeld ==
  /\ action.at = "running" => gate = "other"
  /\ worker.at = "running" => gate = "worker"

\* A gesture is typed for the action, which waits for it.
TypesForAction == action.at = "typing" <=> step # "idle"

TypeInv == InjectorTypes /\ ActionTypes /\ HistoryTypes /\ GateIsHeld /\ TypesForAction

\* The largest of finitely many numbers is one of them.
LEMMA MaxIsMember ==
  ASSUME NEW b \in Nat, NEW S \in SUBSET (0..b), S # {}
  PROVE  Max(S) \in S /\ \A y \in S : y <= Max(S)
<1> DEFINE T == {b - x : x \in S}
<1>1. T \subseteq Nat /\ T # {}
  <2>1. \A x \in S : b - x \in Nat /\ b - x \in T
    OBVIOUS
  <2>2. T # {}
    BY <2>1
  <2> QED BY <2>1, <2>2
<1>2. PICK t \in T : \A y \in T : ~ (<<y, t>> \in OpToRel(<, Nat))
  <2> HIDE DEF T
  <2> QED BY <1>1, NatLessThanWellFounded, WFMin, Zenon
<1>3. \A y \in T : t <= y
  <2> HIDE DEF T
  <2>1. ASSUME NEW y \in T PROVE ~(y < t)
    BY <1>1, <1>2 DEF OpToRel
  <2> QED BY <1>1, <2>1
<1>4. PICK x \in S : t = b - x
  OBVIOUS
<1>5. \A y \in S : y <= x
  BY <1>3, <1>4
<1> QED BY <1>5 DEF Max

\* What a gesture with a virtual modifier presses: that one, then the physical ones.
LEMMA VirtualComesFirst ==
  ASSUME NEW g \in Gestures, Virtual(g.modifiers) # NoModifier
  PROVE  /\ VirtualFirst(g.modifiers) \in Seq(AllModifiers) \ {<<>>}
         /\ Head(VirtualFirst(g.modifiers)) = Virtual(g.modifiers)
         /\ Virtual(g.modifiers) \in Modifiers
         /\ \A i \in 2..Len(VirtualFirst(g.modifiers)) :
              VirtualFirst(g.modifiers)[i] \in PhysicalModifiers
<1> DEFINE ms == g.modifiers
           v == Min(VirtualAt(ms))
<1>1. ms \in Seq(AllModifiers) /\ \A i, j \in VirtualAt(ms) : i = j
  BY GestureAssumption
<1>2. VirtualAt(ms) # {}
  BY DEF Virtual
<1>3. PICK w : VirtualAt(ms) = {w} /\ w \in 1..Len(ms) /\ ms[w] \in Modifiers
  BY <1>1, <1>2 DEF VirtualAt
<1>4. v = w
  BY <1>3 DEF Min
<1>5. Virtual(ms) = ms[w]
  BY <1>2, <1>4 DEF Virtual
<1>6. \A i \in 1..Len(ms) : ms[i] \in AllModifiers /\ (i # w => ms[i] \in PhysicalModifiers)
  BY <1>1, <1>3 DEF VirtualAt, AllModifiers
<1> DEFINE f == VirtualFirst(ms)
<1>7. f = [i \in 1..Len(ms) |-> IF i = 1 THEN ms[w] ELSE IF i <= w THEN ms[i - 1] ELSE ms[i]]
  BY <1>1, <1>4 DEF VirtualFirst
<1>8. \A i \in 1..Len(ms) : f[i] \in AllModifiers
  BY <1>1, <1>3, <1>6, <1>7
<1>9. f \in Seq(AllModifiers) /\ Len(f) = Len(ms)
  <2>1. f = [i \in 1..Len(ms) |-> f[i]]
    BY <1>7, Zenon
  <2>2. f \in [1..Len(ms) -> AllModifiers]
    BY <1>8, <2>1, Zenon
  <2> HIDE DEF f
  <2> QED BY <1>1, <2>2
<1>10. f[1] = ms[w] /\ \A i \in 2..Len(f) : f[i] \in PhysicalModifiers
  BY <1>1, <1>3, <1>6, <1>7, <1>9
<1>11. f # <<>> /\ Head(f) = f[1]
  BY <1>1, <1>3, <1>9
<1>12. f = VirtualFirst(g.modifiers)
  OBVIOUS
<1> HIDE DEF f
<1>13. Head(f) = Virtual(ms) /\ Virtual(ms) \in Modifiers
  BY <1>3, <1>5, <1>10, <1>11
<1> QED BY <1>9, <1>10, <1>11, <1>12, <1>13

-----------------------------------------------------------------------------
(* Each step is one of the listener, or does not touch it *)

USE DEF injectorVars, planVars, historyVars, listenerVars, engineVars, keyboardVars

\* What xdotool does to the keyboard, a keyboard may do.
LEMMA TypingIsListenerStep ==
  ASSUME TypeInv, Hold \/ Key \/ EndKey \/ ReleaseLast
  PROVE  [Next]_vars
<1>1. step # "idle" => gesture.stroke \in Strokes /\ KeyOf[gesture.stroke] \in Keys
  BY GestureAssumption DEF TypeInv, InjectorTypes, Keys
<1>2. ASSUME NEW m \in AllModifiers, ModifierDown(m) \/ ModifierUp(m) \/ NoKey PROVE [Next]_vars
  BY <1>2 DEF ModifierDown, ModifierUp, NoKey, AllModifiers, Next
<1>3. CASE Hold
  <2>1. Head(rest) \in AllModifiers
    BY <1>3 DEF Hold, TypeInv, InjectorTypes
  <2> QED BY <1>2, <1>3, <2>1 DEF Hold
<1>4. CASE Key
  BY <1>1, <1>4 DEF Key, KeyDown, NoKey, Next
<1>5. CASE EndKey
  BY <1>1, <1>5 DEF EndKey, KeyUp, NoKey, Next
<1>6. CASE ReleaseLast
  <2>1. Last(held) \in AllModifiers
    BY <1>6 DEF ReleaseLast, TypeInv, InjectorTypes, Last
  <2> QED BY <1>2, <1>6, <2>1 DEF ReleaseLast
<1> QED BY <1>3, <1>4, <1>5, <1>6

\* So may the rest of a step happen to the listener alone.
LEMMA ListenerSteps ==
  ASSUME TypeInv, TypeOK, [ActionNext]_allVars
  PROVE  [Next]_vars
<1>1. CASE Typing
  BY <1>1, TypingIsListenerStep DEF Typing
<1>2. CASE UNCHANGED allVars
  BY <1>2 DEF allVars
<1>3. CASE BeginAction \/ PressGesture \/ Pressed \/ Acknowledged \/ Settled \/ Answers \/ Fails
  BY <1>3 DEF BeginAction, PressGesture, Pressed, Acknowledged, Settled, Answers, Fails, Type,
              Return
<1>4. CASE Starts \/ Settles \/ RunsInCallback \/ ListenerStep \/ OthersFinish
  BY <1>4 DEF Starts, Settles, RunsInCallback, ListenerStep, OthersFinish, Next, System
<1>5. CASE DirectStarts
  <2>1. OtherTakesGate
    BY <1>5 DEF DirectStarts, OtherTakesGate
  <2> QED BY <2>1 DEF Next, System
<1>6. CASE DirectSettles
  <2>1. OtherLeavesGate
    BY <1>6 DEF DirectSettles, OtherLeavesGate, TypeInv, GateIsHeld, TypeOK
  <2> QED BY <2>1 DEF Next, System
<1> QED BY <1>1, <1>2, <1>3, <1>4, <1>5, <1>6 DEF ActionNext

-----------------------------------------------------------------------------
(* Every behaviour is well typed *)

LEMMA InjectorTypesKept ==
  ASSUME TypeInv, [ActionNext]_allVars
  PROVE  InjectorTypes'
<1> USE DEF TypeInv, InjectorTypes
<1>1. CASE PressGesture
  <2>1. action.gesture \in Gestures
    BY <1>1 DEF PressGesture, ActionTypes
  <2>2. Virtual(action.gesture.modifiers) # NoModifier =>
          VirtualFirst(action.gesture.modifiers) \in Seq(AllModifiers)
    BY <2>1, VirtualComesFirst
  <2>3. <<>> \in Seq(AllModifiers) /\ stuck' \subseteq Keys \cup AllModifiers
    BY <1>1 DEF PressGesture, Type
  <2>4. rest' \in Seq(AllModifiers)
    BY <1>1, <2>2, <2>3 DEF PressGesture, Type
  <2>5. /\ step' \in {"hold", "key"} /\ gesture' = action.gesture
        /\ held' = <<>> /\ failed' = FALSE
    BY <1>1 DEF PressGesture, Type
  <2> QED BY <2>1, <2>3, <2>4, <2>5
<1>2. CASE Pressed
  BY <1>2 DEF Pressed, Return
<1>3. CASE Typing
  <2>1. CASE Hold
    <3>1. Head(rest) \in AllModifiers /\ Tail(rest) \in Seq(AllModifiers) /\ <<>> \in Seq(AllModifiers)
      BY <2>1 DEF Hold
    <3>2. Append(held, Head(rest)) \in Seq(AllModifiers)
      BY <3>1
    <3> QED BY <2>1, <3>1, <3>2 DEF Hold, HeldAfterFailure
  <2>2. CASE Key
    BY <2>2 DEF Key
  <2>3. CASE EndKey
    <3>1. KeyOf[gesture.stroke] \in Keys
      BY <2>3, GestureAssumption DEF EndKey, Keys
    <3> QED BY <2>3, <3>1 DEF EndKey
  <2>4. CASE ReleaseLast
    <3>1. Last(held) \in AllModifiers /\ Front(held) \in Seq(AllModifiers)
      BY <2>4 DEF ReleaseLast, Last, Front
    <3> QED BY <2>4, <3>1 DEF ReleaseLast
  <2> QED BY <1>3, <2>1, <2>2, <2>3, <2>4 DEF Typing
<1>4. CASE UNCHANGED injectorVars
  BY <1>4
<1>5. CASE BeginAction \/ Acknowledged \/ DirectStarts \/ DirectSettles \/ Settled \/ Answers \/ Fails
  BY <1>4, <1>5 DEF BeginAction, Acknowledged, DirectStarts, DirectSettles, Settled, Answers, Fails
<1>6. CASE Starts \/ Settles \/ RunsInCallback \/ ListenerStep \/ OthersFinish \/ UNCHANGED allVars
  BY <1>4, <1>6 DEF Starts, Settles, RunsInCallback, ListenerStep, OthersFinish, allVars
<1> QED BY <1>1, <1>2, <1>3, <1>5, <1>6 DEF ActionNext

\* What a gesture is meant for is a command, or nothing.
LEMMA MeantType ==
  ASSUME NEW g \in Gestures
  PROVE  Meant(g) \in Commands \cup {Unbound}
<1>1. Virtual(g.modifiers) \in Modifiers \cup {NoModifier}
  BY VirtualComesFirst
<1>2. g.stroke \in Strokes
  BY GestureAssumption
<1> QED BY <1>1, <1>2, BindingAssumption DEF Meant

\* What Reply does to the state of the request and to the answers.
LEMMA ReplyType ==
  ASSUME TypeInv, NEW ok \in BOOLEAN, Reply(ok)
  PROVE  action' = NoAction /\ NoAction \in Tasks /\ answered' \in Seq(Replies)
<1>1. action' = NoAction
  BY DEF Reply
<1>2. NoAction \in Tasks
  BY DEF NoAction, Places, Requests, Tasks
<1> DEFINE sure == ok /\ action.presses <= 1
           answer == [command |-> action.command, sure |-> sure, structured |-> action.presses = 0,
                      from |-> IF sure THEN action.from ELSE 0, to |-> IF sure THEN Len(log) ELSE 0]
<1>3. answered' = Append(answered, answer)
  BY DEF Reply
<1>4. answer \in Replies
  <2>1. action.presses \in Nat /\ action.from \in Nat /\ Len(log) \in Nat /\ action.command \in Requests
    BY DEF TypeInv, ActionTypes, HistoryTypes, Tasks
  <2>2. sure \in BOOLEAN /\ (action.presses = 0) \in BOOLEAN
    BY <2>1
  <2> QED BY <2>1, <2>2 DEF Replies
<1> HIDE DEF answer
<1>5. answered' \in Seq(Replies)
  BY <1>3, <1>4, AppendProperties DEF TypeInv, HistoryTypes
<1> QED BY <1>1, <1>2, <1>5

\* The last start that the action has found is a number.
LEMMA FromType ==
  ASSUME TypeInv
  PROVE  Max({0} \cup Found({"started"})) \in Nat
<1> DEFINE S == {0} \cup Found({"started"})
<1>1. Len(log) \in Nat /\ action.before \in Nat
  BY DEF TypeInv, ActionTypes, HistoryTypes, Tasks
<1>2. S \in SUBSET (0..Len(log)) /\ S # {}
  BY <1>1 DEF Found
<1> HIDE DEF S
<1>3. Max(S) \in S
  BY <1>1, <1>2, MaxIsMember
<1>4. Max(S) \in 0..Len(log)
  BY <1>2, <1>3, Zenon
<1>5. Max(S) \in Nat
  BY <1>1, <1>4
<1> QED BY <1>5 DEF S

LEMMA ActionTypesKept ==
  ASSUME TypeInv, TypeOK, [ActionNext]_allVars
  PROVE  ActionTypes'
<1>0. /\ script \in Seq(Gestures \cup Structured) /\ action \in Tasks
      /\ action.at \in {"press", "typing", "acknowledge"} => action.gesture \in Gestures
      /\ {session, begun, changes} \subseteq Nat
  BY DEF TypeInv, ActionTypes
<1>1. CASE BeginAction
  <2>1. script' = Tail(script) /\ Head(script) \in Gestures \cup Structured
        /\ Tail(script) \in Seq(Gestures \cup Structured)
    BY <1>0, <1>1 DEF BeginAction
  <2>2. Cursor \in Nat
    BY DEF Cursor, TypeInv, HistoryTypes
  <2>3. Head(script) \notin Structured =>
          Head(script) \in Gestures /\ Meant(Head(script)) \in Commands \cup {Unbound}
    BY <2>1, MeantType
  <2>4. action' \in Tasks
    BY <1>1, <2>1, <2>2, <2>3 DEF BeginAction, NoAction, Requests, Tasks, Places
  <2>5. action'.at = "direct" \/ action'.gesture \in Gestures
    BY <1>1, <2>1, <2>3 DEF BeginAction, NoAction
  <2>6. UNCHANGED <<session, begun, changes>>
    BY <1>1 DEF BeginAction
  <2> QED BY <1>0, <2>1, <2>4, <2>5, <2>6 DEF ActionTypes
<1>2. CASE PressGesture
  <2>1. UNCHANGED <<script, session, begun, changes>>
        /\ action' = [action EXCEPT !.at = "typing", !.presses = @ + 1]
    BY <1>2 DEF PressGesture
  <2>2. action.gesture \in Gestures
    BY <1>0, <1>2 DEF PressGesture
  <2>3. action' \in Tasks /\ action'.gesture \in Gestures
    <3>1. action.presses + 1 \in Nat /\ "typing" \in Places
      BY <1>0 DEF Tasks, Places
    <3> QED BY <1>0, <2>1, <2>2, <3>1 DEF Tasks
  <2> QED BY <1>0, <2>1, <2>3 DEF ActionTypes
<1>3. CASE Pressed
  <2>1. UNCHANGED <<script, session, begun, changes>> /\ action.gesture \in Gestures
    BY <1>0, <1>3 DEF Pressed, Return, TypeInv, TypesForAction
  <2>2. CASE failed
    <3>1. action'.at = "idle" /\ action' \in Tasks
      <4>1. Reply(FALSE)
        BY <1>3, <2>2 DEF Pressed
      <4>2. action' = NoAction /\ NoAction \in Tasks
        BY <4>1, ReplyType
      <4> QED BY <4>2 DEF NoAction
    <3> QED BY <1>0, <2>1, <3>1 DEF ActionTypes
  <2>3. CASE ~failed
    <3>1. action' = [action EXCEPT !.at = IF action.presses = 1 THEN "acknowledge" ELSE "settle"]
      BY <1>3, <2>3 DEF Pressed, Goto
    <3>2. action' \in Tasks /\ action'.gesture \in Gestures
      BY <1>0, <2>1, <3>1 DEF Tasks, Places
    <3> QED BY <1>0, <2>1, <3>2 DEF ActionTypes
  <2> QED BY <2>2, <2>3
<1>4. CASE Acknowledged \/ DirectStarts \/ DirectSettles
  <2>1. UNCHANGED <<script, session, begun, changes>>
    BY <1>4 DEF Acknowledged, DirectStarts, DirectSettles
  <2>2. \E at \in {"settle", "running"} : action' = [action EXCEPT !.at = at]
    BY <1>4 DEF Acknowledged, DirectStarts, DirectSettles, Goto
  <2>3. action' \in Tasks /\ action'.at \in {"settle", "running"}
    BY <1>0, <2>2 DEF Tasks, Places
  <2> QED BY <1>0, <2>1, <2>3 DEF ActionTypes
<1>5. CASE Settled
  <2>1. UNCHANGED <<script, session, begun, changes>>
    BY <1>5 DEF Settled
  <2>2. CASE Reply(FALSE)
    <3>1. action'.at = "idle" /\ action' \in Tasks
      <4>1. action' = NoAction /\ NoAction \in Tasks
        BY <2>2, ReplyType
      <4> QED BY <4>1 DEF NoAction
    <3> QED BY <1>0, <2>1, <3>1 DEF ActionTypes
  <2>3. CASE ~Reply(FALSE)
    <3>1. action' = [action EXCEPT !.at = "tail", !.from = Max({0} \cup Found({"started"}))]
      BY <1>5, <2>3 DEF Settled
    <3>2. action' \in Tasks /\ action'.at = "tail"
      BY <1>0, <3>1, FromType DEF Tasks, Places
    <3> QED BY <1>0, <2>1, <3>2 DEF ActionTypes
  <2> QED BY <2>2, <2>3
<1>6. CASE Answers \/ Fails
  <2>1. UNCHANGED <<script, session, begun, changes>> /\ \E ok \in BOOLEAN : Reply(ok)
    BY <1>6 DEF Answers, Fails
  <2> QED BY <1>0, <2>1, ReplyType DEF NoAction, ActionTypes
<1>7. CASE Typing
  BY <1>0, <1>7 DEF Typing, ActionTypes
<1>8. CASE Starts \/ Settles \/ RunsInCallback \/ ListenerStep
  BY <1>0, <1>8 DEF Starts, Settles, RunsInCallback, ListenerStep, ActionTypes
<1>9. CASE OthersFinish
  BY <1>0, <1>9 DEF OthersFinish, ActionTypes
<1>10. CASE UNCHANGED allVars
  BY <1>0, <1>10 DEF allVars, ActionTypes
<1> QED BY <1>1, <1>2, <1>3, <1>4, <1>5, <1>6, <1>7, <1>8, <1>9, <1>10 DEF ActionNext

\* What the engine writes to the log is an event.
LEMMA EventType ==
  ASSUME TypeInv, NEW kind \in {"started", "completed", "failed"}, NEW c \in Requests,
         NEW press \in Nat
  PROVE  Event(kind, c, press) \in Events
<1>1. (kind = "started" /\ Acts(c)) \in BOOLEAN /\ session \in Nat
  BY DEF Acts, Consumes, TypeInv, ActionTypes
<1> QED BY <1>1 DEF Event, Events

LEMMA HistoryTypesKept ==
  ASSUME TypeInv, TypeOK, [ActionNext]_allVars
  PROVE  HistoryTypes'
<1>0. /\ log \in Seq(Events) /\ answered \in Seq(Replies) /\ disturbed \subseteq Nat
      /\ strokes \in Seq(Presses)
  BY DEF TypeInv, HistoryTypes
<1>1. worker.job.command \in Requests /\ worker.job.released \in Nat
      /\ callback.command \in Requests
  BY DEF TypeOK, Requests
<1>2. action.command \in Requests /\ Len(strokes) \in Nat
  BY <1>0 DEF TypeInv, ActionTypes, Tasks
<1>3. Unrun \subseteq Nat
  <2>1. \A i \in 1..Len(jobs) : jobs[i].released \in Nat
    <3>1. jobs \in Seq([command : Commands, released : Nat])
      BY DEF TypeOK
    <3>2. \A i \in 1..Len(jobs) : jobs[i] \in [command : Commands, released : Nat]
      BY <3>1, ElementOfSeq
    <3> QED BY <3>2
  <2> QED BY <1>1, <2>1 DEF Unrun
<1>4. CASE Starts
  <2>1. Event("started", worker.job.command, worker.job.released) \in Events
    BY <1>1, EventType
  <2>2. log' \in Seq(Events)
    BY <1>0, <1>4, <2>1 DEF Starts
  <2>3. UNCHANGED <<answered, strokes>> /\ disturbed' \subseteq Nat
    BY <1>0, <1>4 DEF Starts
  <2> QED BY <1>0, <2>2, <2>3 DEF HistoryTypes
<1>5. CASE Settles
  <2>1. \A kind \in {"completed", "failed"} :
          Event(kind, worker.job.command, worker.job.released) \in Events
    BY <1>1, EventType
  <2>2. log' \in Seq(Events)
    BY <1>0, <1>5, <2>1 DEF Settles
  <2>3. UNCHANGED <<answered, strokes, disturbed>>
    BY <1>5 DEF Settles
  <2> QED BY <1>0, <2>2, <2>3 DEF HistoryTypes
<1>6. CASE RunsInCallback
  <2>1. /\ Event("started", callback.command, Len(strokes)) \in Events
        /\ Event("completed", callback.command, Len(strokes)) \in Events
    BY <1>1, <1>2, EventType
  <2>2. ASSUME NEW d \in Events, NEW e \in Events PROVE log \o <<d, e>> \in Seq(Events)
    BY <1>0, <2>2
  <2>3. log' = log \/ \E d, e \in Events : log' = log \o <<d, e>>
    BY <1>6, <2>1 DEF RunsInCallback
  <2>4. log' \in Seq(Events)
    BY <1>0, <2>2, <2>3
  <2>5. UNCHANGED <<answered, strokes>> /\ disturbed' \subseteq Nat
    BY <1>0, <1>3, <1>6 DEF RunsInCallback, Disturb
  <2> QED BY <1>0, <2>4, <2>5 DEF HistoryTypes
<1>7. CASE OthersFinish
  BY <1>0, <1>3, <1>7 DEF OthersFinish, Disturb, HistoryTypes
<1>8. CASE DirectStarts \/ DirectSettles
  <2>1. \A kind \in {"started", "completed", "failed"} : Event(kind, action.command, 0) \in Events
    BY <1>2, EventType
  <2>2. log' \in Seq(Events)
    <3>1. \E e \in Events : log' = Append(log, e)
      BY <1>8, <2>1 DEF DirectStarts, DirectSettles
    <3> QED BY <1>0, <3>1, AppendProperties
  <2>3. UNCHANGED <<answered, strokes, disturbed>>
    BY <1>8 DEF DirectStarts, DirectSettles
  <2> QED BY <1>0, <2>2, <2>3 DEF HistoryTypes
<1>9. CASE Typing
  <2>1. UNCHANGED <<log, answered, disturbed>>
    BY <1>9 DEF Typing
  <2>2. strokes' \in Seq(Presses)
    <3> DEFINE stroke == [action |-> Len(answered) + 1, command |-> Decode(gesture.stroke),
                          swallowed |-> KeyOf[gesture.stroke] \in swallowed']
    <3>1. strokes' = strokes \/ strokes' = Append(strokes, stroke)
      BY <1>9 DEF Typing
    <3>2. step # "idle"
      BY <1>9 DEF Typing, Hold, Key, EndKey, ReleaseLast
    <3>3. gesture.stroke \in Strokes
      BY <3>2, GestureAssumption DEF TypeInv, InjectorTypes
    <3>4. Decode(gesture.stroke) \in Commands \cup {Unbound}
      BY <3>3, DecodeType
    <3>5. stroke \in Presses
      BY <1>0, <3>4 DEF Presses
    <3> HIDE DEF stroke
    <3> QED BY <1>0, <3>1, <3>5, AppendProperties
  <2> QED BY <1>0, <2>1, <2>2 DEF HistoryTypes
<1>10. CASE Pressed \/ Settled \/ Answers \/ Fails
  <2>1. UNCHANGED <<log, strokes, disturbed>>
    BY <1>10 DEF Pressed, Settled, Answers, Fails
  <2>2. UNCHANGED answered \/ \E ok \in BOOLEAN : Reply(ok)
    BY <1>10 DEF Pressed, Settled, Answers, Fails
  <2>3. answered' \in Seq(Replies)
    BY <1>0, <2>2, ReplyType
  <2> QED BY <1>0, <2>1, <2>3 DEF HistoryTypes
<1>11. CASE BeginAction \/ PressGesture \/ Acknowledged \/ ListenerStep \/ UNCHANGED allVars
  <2>1. UNCHANGED <<log, answered, strokes, disturbed>>
    BY <1>11 DEF BeginAction, PressGesture, Acknowledged, ListenerStep, allVars
  <2> QED BY <1>0, <2>1 DEF HistoryTypes
<1> QED BY <1>4, <1>5, <1>6, <1>7, <1>8, <1>9, <1>10, <1>11 DEF ActionNext

\* What one xdotool command does leaves the gate and the worker alone.
LEMMA TypingLeavesEngine ==
  ASSUME Typing
  PROVE  UNCHANGED <<worker, gate, focusMode, sealed, action>>
<1>1. ASSUME NEW m, ModifierDown(m) \/ ModifierUp(m) \/ NoKey
      PROVE  UNCHANGED <<worker, gate, focusMode, sealed>>
  BY <1>1 DEF ModifierDown, ModifierUp, NoKey, ModifierPress, ModifierRelease, PassBy,
              ReleaseOmitted, vars
<1>2. ASSUME NEW s, KeyDown(s) PROVE UNCHANGED <<worker, gate, focusMode, sealed>>
  BY <1>2 DEF KeyDown, NoKey, Press, PressUnbound, PressQueued, PressRefused, PressSync, vars
<1>3. ASSUME NEW k, KeyUp(k) \/ NoKey PROVE UNCHANGED <<worker, gate, focusMode, sealed>>
  BY <1>3 DEF KeyUp, NoKey, Release, KeyRelease, ReleaseOmitted, vars
<1>4. UNCHANGED action /\ (Hold \/ Key \/ EndKey \/ ReleaseLast)
  BY DEF Typing
<1>5. CASE Hold \/ ReleaseLast
  BY <1>1, <1>4, <1>5 DEF Hold, ReleaseLast
<1>6. CASE Key \/ EndKey
  BY <1>2, <1>3, <1>4, <1>6 DEF Key, EndKey
<1> QED BY <1>4, <1>5, <1>6

\* A settled action answers, or waits for the tail of the log.
LEMMA SettledTo ==
  ASSUME TypeInv, Settled
  PROVE  action'.at \in {"idle", "tail"}
<1>1. CASE Reply(FALSE)
  BY <1>1 DEF Reply, NoAction
<1>2. CASE ~Reply(FALSE)
  <2>1. action' = [action EXCEPT !.at = "tail", !.from = Max({0} \cup Found({"started"}))]
    BY <1>2 DEF Settled
  <2>2. action \in Tasks
    BY DEF TypeInv, ActionTypes
  <2> QED BY <2>1, <2>2 DEF Tasks
<1> QED BY <1>1, <1>2

LEMMA GateIsHeldKept ==
  ASSUME TypeInv, TypeOK, [ActionNext]_allVars
  PROVE  GateIsHeld'
<1>0. /\ action.at = "running" => gate = "other"
      /\ worker.at = "running" => gate = "worker"
      /\ action \in Tasks /\ worker \in [at : {"idle", "waiting", "gate", "running"},
                                       job : [command : Commands \cup {Unbound}, released : Nat]]
  BY DEF TypeInv, GateIsHeld, ActionTypes, TypeOK
<1>1. CASE BeginAction \/ PressGesture \/ Pressed \/ Acknowledged \/ Settled \/ Answers \/ Fails
  <2>1. UNCHANGED <<worker, gate>>
    BY <1>1 DEF BeginAction, PressGesture, Pressed, Acknowledged, Settled, Answers, Fails, Type,
                Return, vars
  <2>2. action'.at # "running"
    <3>1. CASE BeginAction
      BY <3>1 DEF BeginAction, NoAction
    <3>2. CASE PressGesture \/ Acknowledged
      BY <1>0, <3>2 DEF PressGesture, Acknowledged, Goto, Tasks
    <3>3. CASE Pressed
      BY <1>0, <3>3 DEF Pressed, Goto, Reply, NoAction, Tasks
    <3>4. CASE Settled
      BY <3>4, SettledTo DEF Settled
    <3>5. CASE Answers \/ Fails
      BY <3>5 DEF Answers, Fails, Reply, NoAction
    <3> QED BY <1>1, <3>1, <3>2, <3>3, <3>4, <3>5
  <2> QED BY <1>0, <2>1, <2>2 DEF GateIsHeld
<1>2. CASE DirectStarts \/ DirectSettles
  BY <1>0, <1>2 DEF DirectStarts, DirectSettles, Goto, GateIsHeld, Tasks
<1>3. CASE Typing
  BY <1>0, <1>3, TypingLeavesEngine DEF GateIsHeld
<1>4. CASE Starts
  BY <1>0, <1>4 DEF Starts, WorkerGate, GateIsHeld
<1>5. CASE Settles
  BY <1>0, <1>5 DEF Settles, WorkerEnds, GateIsHeld, NoJob
<1>6. CASE RunsInCallback
  BY <1>0, <1>6 DEF RunsInCallback, CallbackRuns, GateIsHeld
<1>7. CASE ListenerStep
  <2>1. UNCHANGED action /\ (WorkerTakes \/ WorkerProceeds \/ RegistryGivesUp \/ OtherTakesGate)
    BY <1>7 DEF ListenerStep
  <2>2. CASE WorkerTakes \/ WorkerProceeds
    BY <1>0, <2>1, <2>2 DEF WorkerTakes, WorkerProceeds, GateIsHeld
  <2>3. CASE RegistryGivesUp \/ OtherTakesGate
    BY <1>0, <2>1, <2>3 DEF RegistryGivesUp, OtherTakesGate, GateIsHeld
  <2> QED BY <2>1, <2>2, <2>3
<1>8. CASE OthersFinish
  BY <1>0, <1>8 DEF OthersFinish, OtherLeavesGate, GateIsHeld
<1>9. CASE UNCHANGED allVars
  BY <1>0, <1>9 DEF allVars, vars, GateIsHeld
<1> QED BY <1>1, <1>2, <1>3, <1>4, <1>5, <1>6, <1>7, <1>8, <1>9 DEF ActionNext

LEMMA TypesForActionKept ==
  ASSUME TypeInv, [ActionNext]_allVars
  PROVE  TypesForAction'
<1>0. (action.at = "typing" <=> step # "idle") /\ action \in Tasks
  BY DEF TypeInv, TypesForAction, ActionTypes
<1>1. CASE BeginAction
  BY <1>0, <1>1 DEF BeginAction, NoAction, TypesForAction
<1>2. CASE Acknowledged \/ DirectStarts \/ DirectSettles
  BY <1>0, <1>2 DEF Acknowledged, DirectStarts, DirectSettles, Goto, Tasks, TypesForAction
<1>3. CASE Settled \/ Answers \/ Fails
  <2>1. action.at # "typing" /\ UNCHANGED step
    BY <1>3 DEF Settled, Answers, Fails
  <2>2. action'.at # "typing"
    BY <1>0, <1>3, SettledTo DEF Answers, Fails, Reply, NoAction
  <2> QED BY <1>0, <2>1, <2>2 DEF TypesForAction
<1>4. CASE PressGesture
  BY <1>0, <1>4 DEF PressGesture, Type, Tasks, TypesForAction
<1>5. CASE Pressed
  BY <1>0, <1>5 DEF Pressed, Return, Goto, Reply, NoAction, Tasks, TypesForAction
<1>6. CASE Typing
  <2>1. step # "idle" /\ step' # "idle" /\ UNCHANGED action
    BY <1>6 DEF Typing, Hold, Key, EndKey, ReleaseLast
  <2> QED BY <1>0, <2>1 DEF TypesForAction
<1>7. CASE Starts \/ Settles \/ RunsInCallback \/ ListenerStep \/ OthersFinish \/ UNCHANGED allVars
  BY <1>0, <1>7 DEF Starts, Settles, RunsInCallback, ListenerStep, OthersFinish, allVars, TypesForAction
<1> QED BY <1>1, <1>2, <1>3, <1>4, <1>5, <1>6, <1>7 DEF ActionNext

LEMMA TypesStep ==
  ASSUME TypeOK, TypeInv, [ActionNext]_allVars
  PROVE  TypeOK' /\ TypeInv'
<1>1. TypeOK'
  BY ListenerSteps, TypeStep
<1> QED BY <1>1, InjectorTypesKept, ActionTypesKept, HistoryTypesKept, GateIsHeldKept,
           TypesForActionKept DEF TypeInv

LEMMA TypesInit == ActionInit => TypeOK /\ TypeInv
<1> SUFFICES ASSUME ActionInit PROVE TypeOK /\ TypeInv OBVIOUS
<1>1. TypeOK
  BY TypeInit DEF ActionInit, InjectorInit
<1>2. InjectorTypes
  <2>1. <<>> \in Seq(AllModifiers)
    OBVIOUS
  <2> QED BY <2>1 DEF ActionInit, InjectorInit, InjectorTypes
<1>3. ActionTypes
  <2>1. script \in Seq(Gestures \cup Structured)
    BY ScriptAssumption DEF ActionInit
  <2>2. action = NoAction /\ {session, begun, changes} \subseteq Nat
    BY DEF ActionInit
  <2> QED BY <2>1, <2>2 DEF ActionTypes, NoAction, Places, Requests, Tasks
<1>4. HistoryTypes /\ GateIsHeld /\ TypesForAction
  BY DEF ActionInit, InjectorInit, Init, HistoryTypes, GateIsHeld, TypesForAction, NoAction
<1> QED BY <1>1, <1>2, <1>3, <1>4 DEF TypeInv

\* Every behaviour of the action and its surroundings is well typed.
THEOREM ActionTypesCorrect == ActionSpec => [](TypeOK /\ TypeInv)
BY TypesInit, TypesStep, PTL DEF ActionSpec

\* The listener of the composition is the listener: whatever is typed, and whatever the
\* worker and the engine do for it, are steps of DeviceListener, whose theorems hold here too.
THEOREM ActionsAreListenerSteps == ActionSpec => Spec
<1>1. ActionInit => Init
  BY DEF ActionInit, InjectorInit
<1> QED BY <1>1, ListenerSteps, ActionTypesCorrect, PTL DEF ActionSpec, Spec

-----------------------------------------------------------------------------
(* What typing leaves behind *)

Members(s) == {s[i] : i \in 1..Len(s)}

\* The key of the gesture, where it may be down.
KeyOfGesture == IF step = "keyUp" THEN {KeyOf[gesture.stroke]} ELSE {}

\* What is down is still to be released.
DownIsHeld ==
  /\ down \subseteq stuck \cup Members(held) \cup KeyOfGesture
  /\ step = "idle" => held = <<>>

\* The first modifier of a gesture with a virtual one is that, and the listener holds it
\* until the key.
VirtualIsHeld ==
  /\ step = "hold" => Virtual(gesture.modifiers) # NoModifier
  /\ step = "hold" /\ held = <<>> => rest = VirtualFirst(gesture.modifiers)
  /\ step = "hold" /\ held # <<>> => Members(rest) \subseteq PhysicalModifiers
  /\ stuck = {} /\ (step = "key" \/ (step = "hold" /\ held # <<>>)) =>
       heldModifier = Virtual(gesture.modifiers)

GestureInv == DownIsHeld /\ VirtualIsHeld

\* The members of a sequence that grows at its end, and shrinks at either.
LEMMA MembersAppend ==
  ASSUME NEW S, NEW q \in Seq(S), NEW e \in S
  PROVE  Members(Append(q, e)) = Members(q) \cup {e} /\ Append(q, e) # <<>>
<1>1. Len(Append(q, e)) = Len(q) + 1 /\ Append(q, e)[Len(q) + 1] = e
      /\ \A i \in 1..Len(q) : Append(q, e)[i] = q[i]
  OBVIOUS
<1>2. 1..Len(q) + 1 = 1..Len(q) \cup {Len(q) + 1}
  OBVIOUS
<1> QED BY <1>1, <1>2 DEF Members

LEMMA MembersTail ==
  ASSUME NEW S, NEW q \in Seq(S), q # <<>>
  PROVE  /\ Head(q) \in Members(q) /\ Members(Tail(q)) \subseteq {q[i] : i \in 2..Len(q)}
         /\ Members(Tail(q)) \subseteq Members(q)
<1>1. Len(Tail(q)) = Len(q) - 1 /\ \A i \in 1..Len(q) - 1 : Tail(q)[i] = q[i + 1]
  OBVIOUS
<1>2. Head(q) = q[1] /\ Len(q) \in Nat \ {0}
  OBVIOUS
<1>3. \A i \in 1..Len(q) - 1 : i + 1 \in 2..Len(q) /\ i + 1 \in 1..Len(q)
  BY <1>2
<1> QED BY <1>1, <1>2, <1>3 DEF Members

LEMMA MembersFront ==
  ASSUME NEW S, NEW q \in Seq(S), q # <<>>
  PROVE  Members(q) = Members(Front(q)) \cup {Last(q)} /\ Last(q) \in S /\ Front(q) \in Seq(S)
<1>1. Len(q) \in Nat \ {0}
  OBVIOUS
<1>2. Len(Front(q)) = Len(q) - 1 /\ \A i \in 1..Len(q) - 1 : Front(q)[i] = q[i]
  <2>1. Front(q) = SubSeq(q, 1, Len(q) - 1)
    BY DEF Front
  <2>2. \A i \in 1..Len(q) - 1 : q[i] \in S
    <3>1. \A i \in 1..Len(q) - 1 : i \in 1..Len(q)
      BY <1>1
    <3> QED BY <3>1, ElementOfSeq
  <2> DEFINE n == Len(q) - 1
  <2>3. n \in Nat /\ \A i \in 1..n : q[i] \in S
    BY <1>1, <2>2
  <2> HIDE DEF n
  <2>4. /\ Len(SubSeq(q, 1, n)) = IF 1 <= n THEN n - 1 + 1 ELSE 0
        /\ \A i \in 1..n - 1 + 1 : SubSeq(q, 1, n)[i] = q[1 + i - 1]
    BY <2>3, SubSeqProperties
  <2>5. Len(SubSeq(q, 1, n)) = n
    BY <2>3, <2>4
  <2>6. \A i \in 1..n : SubSeq(q, 1, n)[i] = q[i]
    BY <2>3, <2>4
  <2> QED BY <2>1, <2>5, <2>6 DEF n
<1>3. 1..Len(q) = 1..Len(q) - 1 \cup {Len(q)}
  BY <1>1
<1>4. Last(q) = q[Len(q)]
  BY DEF Last
<1>5. Last(q) \in S /\ Front(q) \in Seq(S)
  BY <1>1, <1>4 DEF Front
<1> QED BY <1>2, <1>3, <1>4, <1>5 DEF Members

\* What one xdotool command does to the keyboard.
LEMMA KeyboardChanges ==
  /\ \A m : ModifierDown(m) \/ NoKey => down' \subseteq down \cup {m}
  /\ \A m : ModifierUp(m) => down' \subseteq down \ {m}
  /\ \A s : KeyDown(s) => down' \subseteq down \cup {KeyOf[s]}
  /\ \A k : KeyUp(k) => down' \subseteq down \ {k}
  /\ \A m \in PhysicalModifiers : ModifierDown(m) => UNCHANGED heldModifier
<1>1. ASSUME NEW m, ModifierDown(m) \/ NoKey PROVE down' \subseteq down \cup {m}
  BY <1>1 DEF ModifierDown, NoKey, ModifierPress, PassBy, vars
<1>2. ASSUME NEW m, ModifierUp(m) PROVE down' \subseteq down \ {m}
  BY <1>2 DEF ModifierUp, NoKey, ModifierRelease, ReleaseOmitted, PassBy, vars
<1>3. ASSUME NEW s, KeyDown(s) PROVE down' \subseteq down \cup {KeyOf[s]}
  BY <1>3 DEF KeyDown, NoKey, Press, PressUnbound, PressQueued, PressRefused, PressSync, Strike, vars
<1>4. ASSUME NEW k, KeyUp(k) PROVE down' \subseteq down \ {k}
  BY <1>4 DEF KeyUp, NoKey, Release, KeyRelease, ReleaseOmitted, vars
<1>5. ASSUME NEW m \in PhysicalModifiers, ModifierDown(m) PROVE UNCHANGED heldModifier
  BY <1>5, ModifierAssumption DEF ModifierDown, NoKey, PassBy, vars
<1> QED BY <1>1, <1>2, <1>3, <1>4, <1>5

\* Nothing but typing touches the keyboard.
LEMMA OnlyTypingTouchesKeys ==
  ASSUME [ActionNext]_allVars, ~Typing
  PROVE  UNCHANGED <<heldModifier, down, used>>
<1>1. CASE BeginAction \/ PressGesture \/ Pressed \/ Acknowledged \/ Settled \/ Answers \/ Fails
  BY <1>1 DEF BeginAction, PressGesture, Pressed, Acknowledged, Settled, Answers, Fails, Type,
              Return, vars
<1>2. CASE DirectStarts \/ DirectSettles \/ UNCHANGED allVars
  BY <1>2 DEF DirectStarts, DirectSettles, allVars, vars
<1>3. CASE Starts \/ Settles \/ RunsInCallback \/ OthersFinish
  BY <1>3 DEF Starts, Settles, RunsInCallback, OthersFinish, WorkerGate, WorkerEnds, CallbackRuns,
              OtherLeavesGate
<1>4. CASE ListenerStep
  BY <1>4 DEF ListenerStep, WorkerTakes, WorkerProceeds, RegistryGivesUp, OtherTakesGate
<1> QED BY <1>1, <1>2, <1>3, <1>4 DEF ActionNext

\* A modifier that goes down is held from then on, even if its command failed.
LEMMA HoldKeepsGestureInv ==
  ASSUME TypeInv, TypeOK, HeldIsDown, GestureInv, Hold
  PROVE  GestureInv'
<1> DEFINE m == Head(rest)
<1>0. /\ rest \in Seq(AllModifiers) /\ held \in Seq(AllModifiers) /\ step = "hold" /\ rest # <<>>
      /\ UNCHANGED <<gesture, stuck>> /\ gesture \in Gestures
  BY DEF TypeInv, InjectorTypes, Hold
<1>1. m \in AllModifiers
  BY <1>0, HeadType
<1>2. down' \subseteq down \cup {m}
  BY KeyboardChanges DEF Hold
<1>3. held' = Append(held, m)
  BY DEF Hold, HeldAfterFailure
<1>4. Members(held') = Members(held) \cup {m} /\ held' # <<>>
  BY <1>0, <1>1, <1>3, MembersAppend
<1>5. down \subseteq stuck \cup Members(held)
  BY <1>0 DEF GestureInv, DownIsHeld, KeyOfGesture
<1>6. step' # "idle"
  BY DEF Hold
<1>7. DownIsHeld'
  BY <1>0, <1>2, <1>4, <1>5, <1>6 DEF DownIsHeld
<1>8. CASE step' = "release"
  BY <1>7, <1>8 DEF GestureInv, VirtualIsHeld
<1>9. CASE step' # "release"
  <2>1. ModifierDown(m) /\ rest' = Tail(rest) /\ step' \in {"key", "hold"}
    BY <1>9 DEF Hold
  <2>2. Virtual(gesture.modifiers) # NoModifier
    BY <1>0 DEF GestureInv, VirtualIsHeld
  <2>3. Members(rest') \subseteq PhysicalModifiers
    <3>1. CASE held = <<>>
      <4>1. rest = VirtualFirst(gesture.modifiers)
        BY <1>0, <3>1 DEF GestureInv, VirtualIsHeld
      <4>2. {rest[i] : i \in 2..Len(rest)} \subseteq PhysicalModifiers
        BY <1>0, <2>2, <4>1, VirtualComesFirst
      <4> QED BY <1>0, <2>1, <4>2, MembersTail
    <3>2. CASE held # <<>>
      <4>1. Members(rest) \subseteq PhysicalModifiers
        BY <1>0, <3>2 DEF GestureInv, VirtualIsHeld
      <4> QED BY <1>0, <2>1, <4>1, MembersTail
    <3> QED BY <3>1, <3>2
  <2>4. stuck = {} => heldModifier' = Virtual(gesture.modifiers)
    <3>1. CASE held = <<>>
      <4>1. m = Virtual(gesture.modifiers) /\ m \in Modifiers
        BY <1>0, <2>2, <3>1, VirtualComesFirst DEF GestureInv, VirtualIsHeld
      <4>2. stuck = {} => down = {}
        BY <1>5, <3>1 DEF Members
      <4> QED BY <2>1, <4>1, <4>2, ModifierAssumption DEF ModifierDown, ModifierPress, PassBy
    <3>2. CASE held # <<>>
      <4>1. m \in PhysicalModifiers /\ (stuck = {} => heldModifier = Virtual(gesture.modifiers))
        BY <1>0, <3>2, MembersTail DEF GestureInv, VirtualIsHeld
      <4> QED BY <2>1, <4>1, KeyboardChanges
    <3> QED BY <3>1, <3>2
  <2>5. VirtualIsHeld'
    BY <1>0, <1>4, <2>1, <2>2, <2>3, <2>4 DEF VirtualIsHeld
  <2> QED BY <1>7, <2>5 DEF GestureInv
<1> QED BY <1>8, <1>9

LEMMA GestureStep ==
  ASSUME TypeInv, TypeOK, HeldIsDown, GestureInv, [ActionNext]_allVars
  PROVE  GestureInv'
<1>0. held \in Seq(AllModifiers) /\ DownIsHeld
  BY DEF TypeInv, InjectorTypes, GestureInv
<1>1. CASE Hold
  BY <1>1, HoldKeepsGestureInv
<1>2. CASE Key
  <2>1. UNCHANGED <<gesture, held, stuck>> /\ step = "key" /\ step' \in {"keyUp", "release"}
    BY <1>2 DEF Key
  <2>2. down' \subseteq down \cup KeyOfGesture'
    <3>1. CASE step' = "keyUp"
      <4>1. KeyDown(gesture.stroke)
        BY <1>2, <3>1 DEF Key
      <4> QED BY <2>1, <3>1, <4>1, KeyboardChanges DEF KeyOfGesture
    <3>2. CASE step' # "keyUp"
      BY <1>2, <3>2 DEF Key, NoKey, vars
    <3> QED BY <3>1, <3>2
  <2>3. down \subseteq stuck \cup Members(held)
    BY <1>0, <2>1 DEF DownIsHeld, KeyOfGesture
  <2>4. Members(held') = Members(held)
    BY <2>1
  <2> QED BY <2>1, <2>2, <2>3, <2>4 DEF GestureInv, DownIsHeld, VirtualIsHeld
<1>3. CASE EndKey
  <2> DEFINE k == KeyOf[gesture.stroke]
  <2>1. UNCHANGED <<gesture, held>> /\ step = "keyUp" /\ step' = "release"
    BY <1>3 DEF EndKey
  <2>2. down \subseteq stuck \cup Members(held) \cup {k}
    BY <1>0, <2>1 DEF DownIsHeld, KeyOfGesture
  <2>3. down' \subseteq stuck' \cup Members(held)
    <3>1. CASE KeyUp(k) /\ stuck' = stuck \ {k}
      BY <2>2, <3>1, KeyboardChanges
    <3>2. CASE NoKey /\ stuck' = stuck \cup {k}
      BY <2>2, <3>2 DEF NoKey, vars
    <3> QED BY <1>3, <3>1, <3>2 DEF EndKey
  <2>4. Members(held') = Members(held)
    BY <2>1
  <2> QED BY <2>1, <2>3, <2>4 DEF GestureInv, DownIsHeld, VirtualIsHeld
<1>4. CASE ReleaseLast
  <2> DEFINE m == Last(held)
  <2>1. UNCHANGED <<gesture, step>> /\ step = "release" /\ held # <<>> /\ held' = Front(held)
    BY <1>4 DEF ReleaseLast
  <2>2. Members(held) = Members(held') \cup {m}
    BY <1>0, <2>1, MembersFront
  <2>3. down \subseteq stuck \cup Members(held') \cup {m}
    BY <1>0, <2>1, <2>2 DEF DownIsHeld, KeyOfGesture
  <2>4. down' \subseteq stuck' \cup Members(held')
    <3>1. CASE ModifierUp(m) /\ stuck' = stuck \ {m}
      BY <2>3, <3>1, KeyboardChanges
    <3>2. CASE NoKey /\ stuck' = stuck \cup {m}
      BY <2>3, <3>2 DEF NoKey, vars
    <3> QED BY <1>4, <3>1, <3>2 DEF ReleaseLast
  <2> QED BY <2>1, <2>4 DEF GestureInv, DownIsHeld, VirtualIsHeld
<1>5. CASE PressGesture
  <2>1. Type(action.gesture) /\ action.gesture \in Gestures
    BY <1>5 DEF PressGesture, TypeInv, ActionTypes
  <2>2. held = <<>> /\ held' = <<>> /\ UNCHANGED <<stuck, down, heldModifier>>
        /\ step = "idle" /\ gesture' = action.gesture
    BY <1>0, <2>1 DEF Type, DownIsHeld, vars
  <2>3. down \subseteq stuck
    BY <1>0, <2>2 DEF DownIsHeld, KeyOfGesture, Members
  <2>4. stuck = {} => heldModifier = NoModifier
    BY <2>3 DEF HeldIsDown
  <2>5. DownIsHeld'
    BY <2>1, <2>2, <2>3 DEF DownIsHeld, Type
  <2>6. VirtualIsHeld'
    BY <2>1, <2>2, <2>4 DEF VirtualIsHeld, Type
  <2> QED BY <2>5, <2>6 DEF GestureInv
<1>6. CASE Pressed
  <2>1. step = "release" /\ held = <<>> /\ step' = "idle" /\ UNCHANGED <<held, stuck, down>>
    BY <1>6 DEF Pressed, Return, vars
  <2> QED BY <1>0, <2>1 DEF GestureInv, DownIsHeld, VirtualIsHeld, KeyOfGesture
<1>7. CASE ~Typing /\ ~PressGesture /\ ~Pressed
  <2>1. UNCHANGED <<heldModifier, down>>
    BY <1>7, OnlyTypingTouchesKeys
  <2>2. UNCHANGED injectorVars
    <3>1. CASE BeginAction \/ Acknowledged \/ DirectStarts \/ DirectSettles \/ Settled \/ Answers \/ Fails
      BY <3>1 DEF BeginAction, Acknowledged, DirectStarts, DirectSettles, Settled, Answers, Fails
    <3>2. CASE Starts \/ Settles \/ RunsInCallback \/ ListenerStep \/ OthersFinish \/ UNCHANGED allVars
      BY <3>2 DEF Starts, Settles, RunsInCallback, ListenerStep, OthersFinish, allVars
    <3> QED BY <1>7, <3>1, <3>2 DEF ActionNext
  <2> QED BY <2>1, <2>2 DEF GestureInv, DownIsHeld, VirtualIsHeld, KeyOfGesture
<1> QED BY <1>1, <1>2, <1>3, <1>4, <1>5, <1>6, <1>7 DEF Typing

\* Whatever fails while a gesture is typed, nothing stays down but what could not be
\* released, and a key is decoded with the modifier of its own gesture
\* (injector.go:52-79, device.go:300-312).
THEOREM GesturesCorrect == ActionSpec => []GesturesAreIndependent
<1>1. ActionInit => GestureInv
  BY DEF ActionInit, InjectorInit, Init, GestureInv, DownIsHeld, VirtualIsHeld
<1>2. GestureInv => GesturesAreIndependent
  BY DEF GestureInv, DownIsHeld, VirtualIsHeld, GesturesAreIndependent, NothingLeftDown,
         DecodedAsMeant, KeyOfGesture, Members
<1> QED BY <1>1, <1>2, GestureStep, ActionTypesCorrect, ActionsAreListenerSteps, HeldCorrect, PTL
        DEF ActionSpec

-----------------------------------------------------------------------------
(* Jobs and presses *)

Jobs == [command : Commands, released : Nat]

Queued == {jobs[i].released : i \in 1..Len(jobs)}

Taken == {n \in {worker.job.released} : worker.at # "idle"}

Calling == {n \in {presses} : callback.at = "gate"}

\* The presses whose command has yet to run or to end.
Live == Queued \cup Taken \cup Calling

\* The job of one of these presses.
JobIsOf(job, ss) ==
  /\ job.released \in 1..Len(ss)
  /\ job.command = ss[job.released].command /\ job.command \in NeedsGraph

\* A press is recorded once, and at most one job or callback is its.
JobsInv ==
  /\ Len(strokes) = presses
  /\ \A i \in 1..Len(jobs) : JobIsOf(jobs[i], strokes)
  /\ \A i, j \in 1..Len(jobs) : jobs[i].released = jobs[j].released => i = j
  /\ worker.at # "idle" => JobIsOf(worker.job, strokes) /\ worker.job.released \notin Queued
  /\ callback.at = "gate" =>
       /\ presses # 0 /\ callback.command = strokes[presses].command
       /\ callback.command \in Commands \ NeedsGraph

\* What a press records, and where its command goes: nowhere, into the queue, or into the
\* callback.
NewPress ==
  LET c == Decode(gesture.stroke)
      swallows == KeyOf[gesture.stroke] \in swallowed'
  IN /\ step = "key" /\ step' = "keyUp"
     /\ callback = Idle /\ presses' = presses + 1
     /\ strokes' = Append(strokes, [action |-> Len(answered) + 1, command |-> c, swallowed |-> swallows])
     /\ \/ UNCHANGED <<jobs, callback>>
        \/ /\ c \in NeedsGraph /\ jobs' = Append(jobs, [command |-> c, released |-> presses'])
           /\ (swallows <=> ShouldConsume(c)) /\ UNCHANGED callback
        \/ /\ c \in Commands \ NeedsGraph /\ callback'.at = "gate" /\ callback'.command = c
           /\ UNCHANGED jobs

\* Typing presses a key, or leaves the queue and the callback alone.
LEMMA TypingPresses ==
  ASSUME TypeInv, TypeOK, Typing
  PROVE  \/ NewPress
         \/ UNCHANGED <<presses, jobs, callback, strokes>>
<1> DEFINE s == gesture.stroke
<1>0. presses \in Nat /\ presses + 1 # presses
  BY DEF TypeOK
<1>1. ASSUME NEW m, ModifierDown(m) \/ ModifierUp(m) \/ NoKey
      PROVE  UNCHANGED <<presses, jobs, callback>>
  BY <1>1 DEF ModifierDown, ModifierUp, NoKey, ModifierPress, ModifierRelease, PassBy,
              ReleaseOmitted, vars
<1>2. ASSUME NEW k, KeyUp(k) PROVE UNCHANGED <<presses, jobs, callback>>
  BY <1>2 DEF KeyUp, NoKey, Release, KeyRelease, ReleaseOmitted, vars
<1>3. presses' = presses => UNCHANGED strokes
  BY DEF Typing
<1>4. CASE Hold \/ ReleaseLast
  BY <1>1, <1>3, <1>4 DEF Hold, ReleaseLast
<1>5. CASE EndKey
  BY <1>1, <1>2, <1>3, <1>5 DEF EndKey
<1>6. CASE Key /\ ~Press(s)
  BY <1>1, <1>3, <1>6 DEF Key, KeyDown, NoKey, vars
<1>7. CASE Key /\ Press(s) /\ step' # "keyUp"
  BY <1>1, <1>3, <1>7 DEF Key, NoKey, vars
<1>8. CASE Key /\ Press(s) /\ step' = "keyUp"
  <2>1. step = "key" /\ callback = Idle /\ presses' = presses + 1
    BY <1>8 DEF Key, Press, PressUnbound, PressQueued, PressRefused, PressSync, Strike
  <2>2. strokes' = Append(strokes, [action |-> Len(answered) + 1, command |-> Decode(s),
                                    swallowed |-> KeyOf[s] \in swallowed'])
    BY <1>0, <2>1 DEF Typing
  <2>3. CASE PressUnbound(s) \/ PressRefused(s)
    BY <1>8, <2>1, <2>2, <2>3 DEF PressUnbound, PressRefused, NewPress
  <2>4. CASE PressQueued(s)
    <3>1. /\ Decode(s) \in NeedsGraph /\ UNCHANGED callback
          /\ jobs' = Append(jobs, [command |-> Decode(s), released |-> presses'])
          /\ (KeyOf[s] \in swallowed' <=> ShouldConsume(Decode(s)))
      BY <2>4 DEF PressQueued, Answer
    <3> QED BY <1>8, <2>1, <2>2, <3>1 DEF NewPress
  <2>5. CASE PressSync(s)
    BY <1>8, <2>1, <2>2, <2>5 DEF PressSync, NewPress
  <2> QED BY <1>8, <2>3, <2>4, <2>5 DEF Press
<1> QED BY <1>4, <1>5, <1>6, <1>7, <1>8 DEF Typing

\* Steps that leave the queue, the worker and the callback alone.
Bystanders ==
  \/ BeginAction \/ PressGesture \/ Pressed \/ Acknowledged \/ Settled \/ Answers \/ Fails
  \/ DirectStarts \/ DirectSettles \/ OthersFinish \/ UNCHANGED allVars

LEMMA BystandersLeaveJobs ==
  ASSUME Bystanders
  PROVE  UNCHANGED <<presses, jobs, worker, callback, strokes>>
<1>1. CASE BeginAction \/ PressGesture \/ Pressed \/ Acknowledged \/ Settled \/ Answers \/ Fails
  BY <1>1 DEF BeginAction, PressGesture, Pressed, Acknowledged, Settled, Answers, Fails, Type,
              Return, vars
<1>2. CASE DirectStarts \/ DirectSettles \/ OthersFinish \/ UNCHANGED allVars
  BY <1>2 DEF DirectStarts, DirectSettles, OthersFinish, OtherLeavesGate, allVars, vars
<1> QED BY <1>1, <1>2 DEF Bystanders

\* A step that does not type or take a job changes at most where the worker is, or ends
\* the callback.
LEMMA OthersLeaveQueue ==
  ASSUME Starts \/ Settles \/ RunsInCallback \/ (ListenerStep /\ ~WorkerTakes)
  PROVE  /\ UNCHANGED <<presses, jobs, strokes>>
         /\ UNCHANGED callback \/ callback' = Idle
         /\ UNCHANGED worker \/ worker' = [at |-> "idle", job |-> NoJob] \/ worker.at # "idle"
BY DEF Starts, Settles, RunsInCallback, ListenerStep, WorkerGate, WorkerEnds, CallbackRuns,
       WorkerProceeds, RegistryGivesUp, OtherTakesGate

\* Only typing records a press.
LEMMA OnlyTypingPresses ==
  ASSUME TypeInv, TypeOK, [ActionNext]_allVars
  PROVE  UNCHANGED strokes \/ (Typing /\ NewPress)
<1>1. CASE Typing
  BY <1>1, TypingPresses
<1>2. CASE ~Typing
  <2>1. Bystanders \/ Starts \/ Settles \/ RunsInCallback \/ ListenerStep
    BY <1>2 DEF ActionNext, Bystanders
  <2>2. ListenerStep => UNCHANGED strokes
    BY DEF ListenerStep
  <2> QED BY <2>1, <2>2, BystandersLeaveJobs, OthersLeaveQueue
<1> QED BY <1>1, <1>2

\* The jobs that wait, when one is added and when the worker takes the first.
LEMMA QueueGrows ==
  ASSUME NEW job \in Jobs, jobs \in Seq(Jobs), jobs' = Append(jobs, job)
  PROVE  /\ Queued' = Queued \cup {job.released} /\ 1..Len(jobs') = 1..Len(jobs) \cup {Len(jobs) + 1}
         /\ jobs'[Len(jobs) + 1] = job /\ \A i \in 1..Len(jobs) : jobs'[i] = jobs[i]
<1>1. /\ Len(jobs') = Len(jobs) + 1 /\ jobs'[Len(jobs) + 1] = job
      /\ \A i \in 1..Len(jobs) : jobs'[i] = jobs[i]
  BY AppendProperties
<1>2. Len(jobs) \in Nat
  OBVIOUS
<1>3. 1..Len(jobs') = 1..Len(jobs) \cup {Len(jobs) + 1}
  BY <1>1, <1>2
<1> QED BY <1>1, <1>3 DEF Queued

LEMMA QueueShrinks ==
  ASSUME jobs \in Seq(Jobs), jobs # <<>>, jobs' = Tail(jobs)
  PROVE  /\ Queued = Queued' \cup {jobs[1].released} /\ Head(jobs) = jobs[1]
         /\ \A i \in 1..Len(jobs') : i + 1 \in 2..Len(jobs) /\ jobs'[i] = jobs[i + 1]
<1>1. Len(jobs) \in Nat \ {0} /\ Len(jobs') = Len(jobs) - 1 /\ Head(jobs) = jobs[1]
      /\ \A i \in 1..Len(jobs') : jobs'[i] = jobs[i + 1]
  BY HeadTailProperties
<1>2. \A i \in 1..Len(jobs') : i + 1 \in 2..Len(jobs) /\ i + 1 \in 1..Len(jobs)
  BY <1>1
<1>3. \A i \in 2..Len(jobs) : i - 1 \in 1..Len(jobs') /\ jobs[i] = jobs'[i - 1]
  <2>1. \A i \in 2..Len(jobs) : i - 1 \in 1..Len(jobs') /\ (i - 1) + 1 = i
    BY <1>1
  <2> QED BY <1>1, <2>1
<1>4. 1..Len(jobs) = {1} \cup 2..Len(jobs)
  BY <1>1
<1>5. Queued' \subseteq Queued /\ jobs[1].released \in Queued
  BY <1>1, <1>2, <1>4 DEF Queued
<1>6. ASSUME NEW n \in Queued PROVE n \in Queued' \cup {jobs[1].released}
  <2>1. PICK i \in 1..Len(jobs) : n = jobs[i].released
    BY DEF Queued
  <2>2. CASE i = 1
    BY <2>1, <2>2
  <2>3. CASE i \in 2..Len(jobs)
    <3>1. i - 1 \in 1..Len(jobs') /\ n = jobs'[i - 1].released
      BY <1>3, <2>1, <2>3
    <3> QED BY <3>1 DEF Queued
  <2> QED BY <1>4, <2>2, <2>3
<1> QED BY <1>1, <1>2, <1>5, <1>6

\* A press that was recorded stays as it is.
LEMMA StrokesGrow ==
  ASSUME TypeInv, TypeOK, [ActionNext]_allVars
  PROVE  /\ Len(strokes) \in Nat /\ Len(strokes') \in Nat /\ Len(strokes) <= Len(strokes')
         /\ \A n \in 1..Len(strokes) : n \in 1..Len(strokes') /\ strokes'[n] = strokes[n]
<1>0. strokes \in Seq(Presses) /\ Len(strokes) \in Nat
  BY DEF TypeInv, HistoryTypes
<1>1. UNCHANGED strokes \/ \E p \in Presses : strokes' = Append(strokes, p)
  <2>1. CASE Typing
    <3> DEFINE p == [action |-> Len(answered) + 1, command |-> Decode(gesture.stroke),
                     swallowed |-> KeyOf[gesture.stroke] \in swallowed']
    <3>1. CASE strokes' = Append(strokes, p)
      <4>1. step # "idle"
        BY <2>1 DEF Typing, Hold, Key, EndKey, ReleaseLast
      <4>2. gesture.stroke \in Strokes /\ Len(answered) \in Nat
        BY <4>1, GestureAssumption DEF TypeInv, InjectorTypes, HistoryTypes
      <4>3. p \in Presses
        BY <4>2, DecodeType DEF Presses
      <4> QED BY <3>1, <4>3
    <3>2. CASE strokes' = strokes
      BY <3>2
    <3> QED BY <2>1, <3>1, <3>2 DEF Typing
  <2> QED BY <2>1, OnlyTypingPresses
<1>2. CASE UNCHANGED strokes
  BY <1>0, <1>2
<1>3. ASSUME NEW p \in Presses, strokes' = Append(strokes, p)
      PROVE  /\ Len(strokes') = Len(strokes) + 1
             /\ \A n \in 1..Len(strokes) : strokes'[n] = strokes[n]
  BY <1>0, <1>3, AppendProperties
<1> QED BY <1>0, <1>1, <1>2, <1>3

\* A job stays that of its press.
LEMMA JobFrame ==
  ASSUME TypeInv, TypeOK, [ActionNext]_allVars, NEW job, JobIsOf(job, strokes)
  PROVE  JobIsOf(job, strokes')
BY StrokesGrow DEF JobIsOf

LEMMA JobsStep ==
  ASSUME TypeInv, TypeOK, JobsInv, [ActionNext]_allVars
  PROVE  JobsInv'
<1>0. /\ Len(strokes) = presses /\ presses \in Nat /\ jobs \in Seq(Jobs)
      /\ \A i \in 1..Len(jobs) : JobIsOf(jobs[i], strokes)
      /\ \A i, j \in 1..Len(jobs) : jobs[i].released = jobs[j].released => i = j
      /\ worker.at # "idle" => JobIsOf(worker.job, strokes) /\ worker.job.released \notin Queued
      /\ callback.at = "gate" =>
           /\ presses # 0 /\ callback.command = strokes[presses].command
           /\ callback.command \in Commands \ NeedsGraph
  BY DEF JobsInv, TypeOK, Jobs
<1>1. \A i \in 1..Len(jobs) : JobIsOf(jobs[i], strokes')
  BY <1>0, JobFrame
<1>2. worker.at # "idle" => JobIsOf(worker.job, strokes')
  BY <1>0, JobFrame
<1>3. CASE UNCHANGED <<presses, jobs, worker, callback, strokes>>
  <2>1. UNCHANGED Queued
    BY <1>3 DEF Queued
  <2> QED BY <1>0, <1>3, <2>1 DEF JobsInv, JobIsOf
<1>4. CASE NewPress /\ UNCHANGED worker
  <2> DEFINE c == Decode(gesture.stroke)
  <2>1. Len(strokes') = presses' /\ strokes'[presses'].command = c /\ presses' = presses + 1
    BY <1>0, <1>4, AppendProperties DEF NewPress, TypeInv, HistoryTypes
  <2>2. presses' \in 1..Len(strokes') /\ presses' # 0
    BY <1>0, <2>1
  <2>3. \A i \in 1..Len(jobs) : jobs[i].released # presses'
    BY <1>0, <2>1 DEF JobIsOf
  <2>4. worker.at # "idle" => worker.job.released # presses'
    BY <1>0, <2>1 DEF JobIsOf
  <2>5. CASE UNCHANGED <<jobs, callback>>
    <3>1. UNCHANGED Queued /\ callback'.at # "gate"
      BY <1>4, <2>5 DEF Queued, NewPress, Idle
    <3> QED BY <1>0, <1>1, <1>2, <1>4, <2>1, <2>5, <3>1 DEF JobsInv
  <2>6. CASE UNCHANGED callback /\ ~UNCHANGED jobs
    <3> DEFINE job == [command |-> c, released |-> presses']
    <3>1. job \in Jobs /\ jobs' = Append(jobs, job) /\ c \in NeedsGraph
      BY <1>0, <1>4, <2>1, <2>6, CommandAssumption DEF NewPress, Jobs
    <3>2. /\ Queued' = Queued \cup {presses'} /\ 1..Len(jobs') = 1..Len(jobs) \cup {Len(jobs) + 1}
          /\ jobs'[Len(jobs) + 1] = job /\ \A i \in 1..Len(jobs) : jobs'[i] = jobs[i]
      BY <1>0, <3>1, QueueGrows
    <3>3. JobIsOf(job, strokes')
      BY <2>1, <2>2, <3>1 DEF JobIsOf
    <3>4. \A i \in 1..Len(jobs') : JobIsOf(jobs'[i], strokes')
      BY <1>1, <3>2, <3>3
    <3>5. \A i, j \in 1..Len(jobs') : jobs'[i].released = jobs'[j].released => i = j
      BY <1>0, <2>3, <3>2
    <3>6. callback'.at # "gate"
      BY <1>4, <2>6 DEF NewPress, Idle
    <3> QED BY <1>0, <1>2, <1>4, <2>1, <2>4, <3>2, <3>4, <3>5, <3>6 DEF JobsInv
  <2>7. CASE ~UNCHANGED callback
    <3>1. UNCHANGED jobs /\ callback'.command = c /\ c \in Commands \ NeedsGraph
      BY <1>4, <2>7 DEF NewPress
    <3>2. UNCHANGED Queued
      BY <3>1 DEF Queued
    <3> QED BY <1>0, <1>1, <1>2, <1>4, <2>1, <2>2, <3>1, <3>2 DEF JobsInv
  <2> QED BY <2>5, <2>6, <2>7
<1>5. CASE ListenerStep /\ WorkerTakes
  <2>1. /\ jobs # <<>> /\ worker' = [at |-> "waiting", job |-> Head(jobs)] /\ jobs' = Tail(jobs)
        /\ UNCHANGED <<presses, callback, strokes>>
    BY <1>5 DEF ListenerStep, WorkerTakes
  <2>2. /\ Queued = Queued' \cup {jobs[1].released} /\ Head(jobs) = jobs[1]
        /\ \A i \in 1..Len(jobs') : i + 1 \in 2..Len(jobs) /\ jobs'[i] = jobs[i + 1]
    BY <1>0, <2>1, QueueShrinks
  <2>3. Len(jobs) \in Nat \ {0} /\ \A i \in 2..Len(jobs) : i \in 1..Len(jobs) /\ i # 1
    BY <1>0, <2>1
  <2>4. 1 \in 1..Len(jobs) /\ \A i \in 1..Len(jobs') : i + 1 \in 1..Len(jobs) /\ i + 1 # 1
    BY <2>2, <2>3
  <2>5. jobs[1].released \notin Queued'
    BY <1>0, <2>2, <2>4 DEF Queued
  <2>6. \A i \in 1..Len(jobs') : JobIsOf(jobs'[i], strokes')
    BY <1>1, <2>2, <2>4
  <2>7. \A i, j \in 1..Len(jobs') : jobs'[i].released = jobs'[j].released => i = j
    <3>1. ASSUME NEW i \in 1..Len(jobs'), NEW j \in 1..Len(jobs'),
                 jobs'[i].released = jobs'[j].released
          PROVE  i = j
      <4>1. jobs[i + 1].released = jobs[j + 1].released
        BY <2>2, <3>1
      <4>2. i + 1 = j + 1
        BY <1>0, <2>4, <4>1
      <4> QED BY <4>2
    <3> QED BY <3>1
  <2>8. JobIsOf(jobs[1], strokes')
    BY <1>1, <2>4
  <2> QED BY <1>0, <2>1, <2>2, <2>5, <2>6, <2>7, <2>8 DEF JobsInv
<1>6. CASE Starts \/ Settles \/ RunsInCallback \/ (ListenerStep /\ ~WorkerTakes)
  <2>1. UNCHANGED <<presses, jobs, strokes>> /\ UNCHANGED Queued
    BY <1>6, OthersLeaveQueue DEF Queued
  <2>2. UNCHANGED callback \/ callback'.at # "gate"
    BY <1>6, OthersLeaveQueue DEF Idle
  <2>3. UNCHANGED worker \/ worker'.at = "idle" \/ (worker.at # "idle" /\ UNCHANGED worker.job)
    <3>1. CASE ListenerStep /\ ~WorkerTakes
      BY <3>1 DEF ListenerStep, WorkerProceeds, RegistryGivesUp, OtherTakesGate, TypeOK
    <3>2. CASE Starts
      BY <3>2 DEF Starts, WorkerGate, TypeOK
    <3>3. CASE Settles \/ RunsInCallback
      BY <3>3 DEF Settles, RunsInCallback, WorkerEnds, CallbackRuns
    <3> QED BY <1>6, <3>1, <3>2, <3>3
  <2> QED BY <1>0, <1>1, <1>2, <2>1, <2>2, <2>3 DEF JobsInv
<1> QED BY <1>3, <1>4, <1>5, <1>6, TypingPresses, TypingLeavesEngine, BystandersLeaveJobs
        DEF ActionNext, Bystanders

\* What a request is about, and how often it was typed.
RequestInv ==
  /\ action.at \in {"idle", "press", "direct", "running"} => action.presses = 0
  /\ action.at \in {"typing", "acknowledge"} => action.presses # 0
  /\ action.at # "idle" =>
       /\ action.command \in Structured <=> action.presses = 0 /\ action.at # "press"
       /\ action.before <= Len(log)

-----------------------------------------------------------------------------
(* What a step adds to the log *)

Ends == {"completed", "failed"}

AddsOne(e) ==
  /\ Len(log') = Len(log) + 1 /\ log'[Len(log) + 1] = e
  /\ \A i \in 1..Len(log) : log'[i] = log[i]

AddsTwo(d, e) ==
  /\ Len(log') = Len(log) + 2 /\ log'[Len(log) + 1] = d /\ log'[Len(log) + 2] = e
  /\ \A i \in 1..Len(log) : log'[i] = log[i]

\* An event, or the two of a command in the callback, is added behind what was there.
LEMMA AppendAddsOne ==
  ASSUME TypeInv, NEW e \in Events, log' = Append(log, e)
  PROVE  AddsOne(e)
BY AppendProperties DEF TypeInv, HistoryTypes, AddsOne

LEMMA ConcatAddsTwo ==
  ASSUME TypeInv, NEW d \in Events, NEW e \in Events, log' = log \o <<d, e>>
  PROVE  AddsTwo(d, e)
<1> DEFINE t == <<d, e>>
<1>1. t \in Seq(Events) /\ Len(t) = 2 /\ t[1] = d /\ t[2] = e
  OBVIOUS
<1> HIDE DEF t
<1>2. log \in Seq(Events) /\ Len(log) \in Nat
  BY DEF TypeInv, HistoryTypes
<1>3. Len(log \o t) = Len(log) + 2
      /\ \A i \in 1..Len(log) + 2 : (log \o t)[i] = IF i <= Len(log) THEN log[i] ELSE t[i - Len(log)]
  <2>1. /\ Len(log \o t) = Len(log) + Len(t)
        /\ \A i \in 1..Len(log) + Len(t) :
             (log \o t)[i] = IF i <= Len(log) THEN log[i] ELSE t[i - Len(log)]
    BY <1>1, <1>2, ConcatProperties
  <2> QED BY <1>1, <2>1
<1>4. log' = log \o t
  BY DEF t
<1> QED BY <1>1, <1>2, <1>3, <1>4 DEF AddsTwo

\* Only the worker, the callback and the structured command of a request write to the log.
LEMMA LogSteps ==
  ASSUME TypeInv, TypeOK, [ActionNext]_allVars
  PROVE  \/ UNCHANGED log
         \/ /\ Starts /\ ~sealed
            /\ AddsOne(Event("started", worker.job.command, worker.job.released))
         \/ /\ Settles /\ ~sealed
            /\ \E kind \in Ends : AddsOne(Event(kind, worker.job.command, worker.job.released))
         \/ /\ RunsInCallback /\ ~sealed
            /\ AddsTwo(Event("started", callback.command, Len(strokes)),
                       Event("completed", callback.command, Len(strokes)))
         \/ DirectStarts /\ AddsOne(Event("started", action.command, 0))
         \/ DirectSettles /\ \E kind \in Ends : AddsOne(Event(kind, action.command, 0))
<1>1. /\ worker.job.command \in Requests /\ worker.job.released \in Nat
      /\ callback.command \in Requests /\ action.command \in Requests /\ Len(strokes) \in Nat
  BY DEF TypeOK, Requests, TypeInv, ActionTypes, HistoryTypes, Tasks
<1>2. CASE Starts
  <2>1. Event("started", worker.job.command, worker.job.released) \in Events
    BY <1>1, EventType
  <2> QED BY <1>2, <2>1, AppendAddsOne DEF Starts
<1>3. CASE Settles
  <2>1. \A kind \in Ends : Event(kind, worker.job.command, worker.job.released) \in Events
    BY <1>1, EventType DEF Ends
  <2>2. sealed \/ \E kind \in Ends :
                    log' = Append(log, Event(kind, worker.job.command, worker.job.released))
    BY <1>3 DEF Settles, Ends
  <2> QED BY <1>3, <2>1, <2>2, AppendAddsOne DEF Settles
<1>4. CASE RunsInCallback
  <2>1. /\ Event("started", callback.command, Len(strokes)) \in Events
        /\ Event("completed", callback.command, Len(strokes)) \in Events
    BY <1>1, EventType
  <2> QED BY <1>4, <2>1, ConcatAddsTwo DEF RunsInCallback
<1>5. CASE DirectStarts
  <2>1. Event("started", action.command, 0) \in Events
    BY <1>1, EventType
  <2> QED BY <1>5, <2>1, AppendAddsOne DEF DirectStarts
<1>6. CASE DirectSettles
  <2>1. \A kind \in Ends : Event(kind, action.command, 0) \in Events
    BY <1>1, EventType DEF Ends
  <2>2. \E kind \in Ends : log' = Append(log, Event(kind, action.command, 0))
    BY <1>6 DEF DirectSettles, Ends
  <2> QED BY <1>6, <2>1, <2>2, AppendAddsOne
<1>7. CASE BeginAction \/ PressGesture \/ Typing \/ Pressed \/ Acknowledged \/ Settled \/ Answers \/ Fails
  BY <1>7 DEF BeginAction, PressGesture, Typing, Pressed, Acknowledged, Settled, Answers, Fails
<1>8. CASE ListenerStep \/ OthersFinish \/ UNCHANGED allVars
  BY <1>8 DEF ListenerStep, OthersFinish, allVars
<1> QED BY <1>2, <1>3, <1>4, <1>5, <1>6, <1>7, <1>8 DEF ActionNext

\* The log only grows.
LEMMA LogGrows ==
  ASSUME TypeInv, TypeOK, [ActionNext]_allVars
  PROVE  /\ Len(log) \in Nat /\ Len(log') \in Nat /\ Len(log) <= Len(log')
         /\ \A i \in 1..Len(log) : i \in 1..Len(log') /\ log'[i] = log[i]
<1>1. Len(log) \in Nat
  BY DEF TypeInv, HistoryTypes
<1>2. UNCHANGED log \/ (\E e : AddsOne(e)) \/ (\E d, e : AddsTwo(d, e))
  BY LogSteps
<1> QED BY <1>1, <1>2 DEF AddsOne, AddsTwo

LEMMA RequestStep ==
  ASSUME TypeInv, TypeOK, RequestInv, [ActionNext]_allVars
  PROVE  RequestInv'
<1>0. action \in Tasks /\ Len(log) \in Nat /\ Len(log') \in Nat /\ Len(log) <= Len(log')
  BY LogGrows DEF TypeInv, ActionTypes
<1>1. CASE BeginAction
  <2>1. /\ action'.presses = 0 /\ action'.before = Len(log) /\ UNCHANGED log
        /\ \/ action'.at = "direct" /\ action'.command \in Structured
           \/ action'.at = "press" /\ action'.command = Meant(Head(script)) /\ Head(script) \in Gestures
    <3>1. Head(script) \in Gestures \cup Structured
      BY <1>1 DEF BeginAction, TypeInv, ActionTypes
    <3> QED BY <1>1, <3>1 DEF BeginAction, NoAction, Cursor
  <2>2. action'.at = "press" => action'.command \notin Structured
    BY <2>1, MeantType, StructuredAssumption
  <2> QED BY <1>0, <2>1, <2>2 DEF RequestInv
<1>2. CASE PressGesture
  <2>1. action' = [action EXCEPT !.at = "typing", !.presses = action.presses + 1]
        /\ action.at \in {"press", "acknowledge"} /\ UNCHANGED log
    BY <1>2 DEF PressGesture
  <2>2. /\ action'.at = "typing" /\ action'.presses = action.presses + 1 /\ action'.presses # 0
        /\ action'.command = action.command /\ action'.before = action.before
    BY <1>0, <2>1 DEF Tasks
  <2> QED BY <2>1, <2>2 DEF RequestInv
<1>3. ASSUME NEW at \in {"acknowledge", "settle", "running"}, Goto(at),
             at = "acknowledge" => action.presses # 0,
             at = "running" => action.at = "direct",
             action.at \in {"typing", "acknowledge", "direct", "running"}
      PROVE  RequestInv'
  <2>1. /\ action'.at = at /\ action'.command = action.command /\ action'.presses = action.presses
        /\ action'.before = action.before
    BY <1>0, <1>3 DEF Goto, Tasks
  <2>2. /\ action.command \in Structured <=> action.presses = 0 /\ action.at # "press"
        /\ action.before <= Len(log) /\ (at = "running" => action.presses = 0)
    BY <1>3 DEF RequestInv
  <2>3. action'.before <= Len(log')
    <3>1. action.before \in Nat
      BY <1>0 DEF Tasks
    <3> QED BY <1>0, <2>1, <2>2, <3>1
  <2>4. action'.command \in Structured <=> action'.presses = 0 /\ action'.at # "press"
    BY <1>3, <2>1, <2>2
  <2> QED BY <1>3, <2>1, <2>2, <2>3, <2>4 DEF RequestInv
<1>4. ASSUME NEW ok, Reply(ok) PROVE RequestInv'
  BY <1>4 DEF Reply, NoAction, RequestInv
<1>5. CASE Pressed
  <2>1. action.at = "typing"
    BY <1>5 DEF Pressed, Return, TypeInv, TypesForAction
  <2>2. CASE failed
    BY <1>4, <1>5, <2>2 DEF Pressed
  <2>3. CASE ~failed
    BY <1>3, <1>5, <2>1, <2>3 DEF Pressed
  <2> QED BY <2>2, <2>3
<1>6. CASE Acknowledged \/ DirectStarts \/ DirectSettles
  BY <1>3, <1>6 DEF Acknowledged, DirectStarts, DirectSettles
<1>7. CASE Settled
  <2>1. CASE Reply(FALSE)
    BY <1>4, <2>1
  <2>2. CASE ~Reply(FALSE)
    <3>1. /\ action.at = "settle" /\ UNCHANGED log
          /\ action' = [action EXCEPT !.at = "tail", !.from = Max({0} \cup Found({"started"}))]
      BY <1>7, <2>2 DEF Settled
    <3>2. /\ action'.at = "tail" /\ action'.command = action.command
          /\ action'.presses = action.presses /\ action'.before = action.before
      BY <1>0, <3>1 DEF Tasks
    <3> QED BY <3>1, <3>2 DEF RequestInv
  <2> QED BY <2>1, <2>2
<1>8. CASE Answers \/ Fails
  BY <1>4, <1>8 DEF Answers, Fails
<1>9. CASE UNCHANGED action
  BY <1>0, <1>9 DEF RequestInv, Tasks
<1>10. CASE Typing \/ Starts \/ Settles \/ RunsInCallback \/ ListenerStep \/ OthersFinish \/ UNCHANGED allVars
  BY <1>9, <1>10 DEF Typing, Starts, Settles, RunsInCallback, ListenerStep, OthersFinish, allVars
<1> QED BY <1>1, <1>2, <1>5, <1>6, <1>7, <1>8, <1>10 DEF ActionNext

-----------------------------------------------------------------------------
(* What happens to the presses that have not run *)

\* How the queue, the worker and the callback change.
LEMMA JobMoves ==
  ASSUME TypeInv, TypeOK, JobsInv, [ActionNext]_allVars
  PROVE  \/ UNCHANGED <<jobs, worker, callback, strokes>> /\ ~Starts
         \/ NewPress /\ UNCHANGED worker /\ ~Starts
         \/ /\ worker.at = "idle" /\ worker'.at = "waiting" /\ ~Starts
            /\ Queued = Queued' \cup {worker'.job.released} /\ UNCHANGED <<callback, strokes>>
         \/ /\ worker.at \in {"waiting", "gate"} /\ worker'.job = worker.job
            /\ worker'.at = "gate" \/ (worker'.at = "running" /\ Starts)
            /\ UNCHANGED <<jobs, callback, strokes>>
         \/ worker'.at = "idle" /\ Settles /\ UNCHANGED <<jobs, callback, strokes>> /\ ~Starts
         \/ callback' = Idle /\ RunsInCallback /\ UNCHANGED <<jobs, worker, strokes>> /\ ~Starts
<1>0. jobs \in Seq(Jobs)
  BY DEF TypeOK, Jobs
<1>1. worker.at = "gate" => ~UNCHANGED worker \/ ~Starts
  BY DEF Starts, WorkerGate, TypeOK
<1>2. CASE Bystanders
  <2>1. UNCHANGED <<jobs, worker, callback, strokes>>
    BY <1>2, BystandersLeaveJobs
  <2> QED BY <1>1, <2>1 DEF Starts, WorkerGate
<1>3. CASE Typing
  <2>1. UNCHANGED worker /\ ~Starts
    BY <1>1, <1>3, TypingLeavesEngine DEF Starts, WorkerGate
  <2> QED BY <1>3, <2>1, TypingPresses
<1>4. CASE Starts
  BY <1>4 DEF Starts, WorkerGate, TypeOK
<1>5. CASE Settles
  <2>1. worker'.at = "idle" /\ worker.at = "running" /\ UNCHANGED <<jobs, callback, strokes>>
    BY <1>5 DEF Settles, WorkerEnds
  <2> QED BY <1>5, <2>1 DEF Starts, WorkerGate
<1>6. CASE RunsInCallback
  <2>1. callback' = Idle /\ UNCHANGED <<jobs, worker, strokes>>
    BY <1>6 DEF RunsInCallback, CallbackRuns
  <2> QED BY <1>1, <1>6, <2>1 DEF Starts, WorkerGate
<1>7. CASE ListenerStep
  <2>1. CASE WorkerTakes
    <3>1. /\ worker.at = "idle" /\ worker' = [at |-> "waiting", job |-> Head(jobs)]
          /\ jobs # <<>> /\ jobs' = Tail(jobs) /\ UNCHANGED <<callback, strokes>>
      BY <1>7, <2>1 DEF ListenerStep, WorkerTakes
    <3>2. Queued = Queued' \cup {worker'.job.released}
      BY <1>0, <3>1, QueueShrinks
    <3> QED BY <3>1, <3>2 DEF Starts, WorkerGate
  <2>2. CASE WorkerProceeds
    BY <1>7, <2>2 DEF ListenerStep, WorkerProceeds, TypeOK
  <2>3. CASE RegistryGivesUp \/ OtherTakesGate
    <3>1. UNCHANGED <<jobs, worker, callback, strokes>>
      BY <1>7, <2>3 DEF ListenerStep, RegistryGivesUp, OtherTakesGate
    <3> QED BY <1>1, <3>1 DEF Starts, WorkerGate
  <2> QED BY <1>7, <2>1, <2>2, <2>3 DEF ListenerStep
<1> QED BY <1>2, <1>3, <1>4, <1>5, <1>6, <1>7 DEF ActionNext, Bystanders

\* Every job and callback is of a press.
LEMMA JobsAreOfPresses ==
  ASSUME TypeOK, JobsInv
  PROVE  Live \subseteq 1..Len(strokes)
<1>1. presses \in Nat
  BY DEF TypeOK
<1>2. Queued \subseteq 1..Len(strokes) /\ Taken \subseteq 1..Len(strokes)
  BY DEF JobsInv, JobIsOf, Queued, Taken
<1>3. Calling \subseteq 1..Len(strokes)
  BY <1>1 DEF JobsInv, Calling
<1> QED BY <1>2, <1>3 DEF Live

\* A press lives from the moment it is recorded, and does not come back.
LEMMA LiveSteps ==
  ASSUME TypeInv, TypeOK, JobsInv, [ActionNext]_allVars
  PROVE  /\ Live' \subseteq Live \cup {Len(strokes) + 1}
         /\ (Unrun \cup Calling)' \subseteq Unrun \cup Calling \cup {Len(strokes) + 1}
         /\ worker'.at = "running" => Starts \/ (worker.at = "running" /\ UNCHANGED worker)
<1>0. jobs \in Seq(Jobs) /\ Len(strokes) = presses /\ presses \in Nat
  BY DEF TypeOK, Jobs, JobsInv
<1>1. (UNCHANGED jobs => UNCHANGED Queued) /\ (UNCHANGED strokes => UNCHANGED presses)
  BY JobsStep DEF Queued, JobsInv
<1>2. Unrun = Queued \cup {n \in {worker.job.released} : worker.at \in {"waiting", "gate"}}
  BY DEF Unrun, Queued
<1>3. CASE UNCHANGED <<jobs, worker, callback, strokes>>
  BY <1>1, <1>2, <1>3 DEF Live, Taken, Calling, Unrun, Queued
<1>4. CASE NewPress /\ UNCHANGED worker
  <2>1. callback.at # "gate" /\ presses' = Len(strokes) + 1
    BY <1>0, <1>4 DEF NewPress, Idle
  <2>2. Queued' \subseteq Queued \cup {presses'}
    <3>1. CASE UNCHANGED jobs
      BY <1>1, <3>1
    <3>2. CASE ~UNCHANGED jobs
      <4> DEFINE job == [command |-> Decode(gesture.stroke), released |-> presses']
      <4>1. job \in Jobs /\ jobs' = Append(jobs, job)
        BY <1>0, <1>4, <2>1, <3>2, CommandAssumption DEF NewPress, Jobs
      <4> QED BY <1>0, <4>1, QueueGrows
    <3> QED BY <3>1, <3>2
  <2>3. Live' \subseteq Live \cup {presses'} /\ (worker'.at = "running" => worker.at = "running")
    BY <1>4, <2>2 DEF Live, Taken, Calling
  <2>4. (Unrun \cup Calling)' \subseteq Unrun \cup Calling \cup {presses'}
    BY <1>4, <2>2 DEF Unrun, Queued, Calling
  <2> QED BY <1>4, <2>1, <2>3, <2>4
<1>5. CASE /\ worker.at = "idle" /\ worker'.at = "waiting"
           /\ Queued = Queued' \cup {worker'.job.released} /\ UNCHANGED <<callback, strokes>>
  BY <1>1, <1>5 DEF Live, Taken, Calling, Unrun, Queued
<1>6. CASE /\ worker.at \in {"waiting", "gate"} /\ worker'.job = worker.job
           /\ worker'.at = "gate" \/ (worker'.at = "running" /\ Starts)
           /\ UNCHANGED <<jobs, callback, strokes>>
  BY <1>1, <1>6 DEF Live, Taken, Calling, Unrun, Queued
<1>7. CASE worker'.at = "idle" /\ UNCHANGED <<jobs, callback, strokes>>
  BY <1>1, <1>7 DEF Live, Taken, Calling, Unrun, Queued
<1>8. CASE callback' = Idle /\ UNCHANGED <<jobs, worker, strokes>>
  BY <1>1, <1>8 DEF Live, Taken, Calling, Unrun, Queued, Idle
<1> QED BY <1>3, <1>4, <1>5, <1>6, <1>7, <1>8, JobMoves

\* A press whose job waits was answered by what the mode and the seal still are, unless
\* they changed since.
AnsweredAsRun ==
  \A n \in Unrun \ disturbed :
    strokes[n].swallowed <=> ShouldConsume(strokes[n].command)

\* The mode and the seal change in the callback and at the hands of others, which marks
\* every job that waits; a job is unmarked when it starts.
LEMMA ModeChanges ==
  ASSUME TypeInv, TypeOK, [ActionNext]_allVars
  PROVE  \/ /\ UNCHANGED <<focusMode, sealed, disturbed>> /\ ~Starts
         \/ /\ UNCHANGED <<focusMode, sealed>> /\ Starts
            /\ disturbed' = disturbed \ {worker.job.released}
         \/ (RunsInCallback \/ OthersFinish) /\ Disturb
<1>1. CASE BeginAction \/ PressGesture \/ Pressed \/ Acknowledged \/ Settled \/ Answers \/ Fails
  <2>1. UNCHANGED <<focusMode, sealed, disturbed, worker, gate>>
    BY <1>1 DEF BeginAction, PressGesture, Pressed, Acknowledged, Settled, Answers, Fails, Type,
                Return, vars
  <2> QED BY <2>1 DEF Starts, WorkerGate, TypeOK
<1>2. CASE DirectStarts \/ DirectSettles
  BY <1>2 DEF DirectStarts, DirectSettles, Starts, WorkerGate
<1>3. CASE Typing
  BY <1>3, TypingLeavesEngine DEF Typing, Starts, WorkerGate
<1>4. CASE Starts
  BY <1>4 DEF Starts, WorkerGate
<1>5. CASE Settles
  BY <1>5 DEF Settles, WorkerEnds, Starts, WorkerGate
<1>6. CASE RunsInCallback \/ OthersFinish
  BY <1>6 DEF RunsInCallback, OthersFinish
<1>7. CASE ListenerStep
  <2>1. UNCHANGED <<focusMode, sealed, disturbed>>
    BY <1>7 DEF ListenerStep, WorkerTakes, WorkerProceeds, RegistryGivesUp, OtherTakesGate
  <2>2. worker.at \in {"idle", "waiting"} \/ UNCHANGED gate \/ gate' = "other"
    BY <1>7 DEF ListenerStep, WorkerTakes, WorkerProceeds, RegistryGivesUp, OtherTakesGate
  <2> QED BY <2>1, <2>2 DEF Starts, WorkerGate
<1>8. CASE UNCHANGED allVars
  BY <1>8 DEF allVars, vars, Starts, WorkerGate
<1> QED BY <1>1, <1>2, <1>3, <1>4, <1>5, <1>6, <1>7, <1>8 DEF ActionNext

\* A press is answered by the mode in which it is recorded, and a job that waits when the
\* mode changes is marked.
LEMMA AnsweredStep ==
  ASSUME TypeInv, TypeOK, JobsInv, AnsweredAsRun, [ActionNext]_allVars
  PROVE  AnsweredAsRun'
<1>0. jobs \in Seq(Jobs) /\ Len(strokes) = presses /\ presses \in Nat
  BY DEF TypeOK, Jobs, JobsInv
<1>1. Unrun \subseteq 1..Len(strokes)
  BY JobsAreOfPresses DEF Unrun, Live, Queued, Taken
<1>2. CASE (RunsInCallback \/ OthersFinish) /\ Disturb
  <2>1. UNCHANGED <<jobs, worker, strokes>>
    BY <1>2 DEF RunsInCallback, OthersFinish, CallbackRuns, OtherLeavesGate
  <2>2. UNCHANGED Unrun
    BY <2>1 DEF Unrun
  <2>3. CASE UNCHANGED <<focusMode, sealed>>
    <3>1. UNCHANGED disturbed
      BY <1>2, <2>3 DEF Disturb
    <3> QED BY <2>1, <2>2, <2>3, <3>1 DEF AnsweredAsRun, ShouldConsume, Consumes
  <2>4. CASE ~UNCHANGED <<focusMode, sealed>>
    <3>1. Unrun' \ disturbed' = {}
      BY <1>2, <2>2, <2>4 DEF Disturb
    <3> QED BY <3>1 DEF AnsweredAsRun
  <2> QED BY <2>3, <2>4
<1>3. CASE UNCHANGED <<focusMode, sealed>> /\ Starts /\ disturbed' = disturbed \ {worker.job.released}
  <2>1. /\ UNCHANGED <<jobs, strokes>> /\ worker'.at = "running" /\ worker.at = "gate"
    BY <1>3 DEF Starts, WorkerGate, TypeOK
  <2>2. Unrun' = Queued /\ worker.job.released \notin Queued /\ Queued \subseteq Unrun
    BY <2>1 DEF Unrun, Queued, JobsInv
  <2> QED BY <1>3, <2>1, <2>2 DEF AnsweredAsRun, ShouldConsume, Consumes
<1>4. CASE UNCHANGED <<focusMode, sealed, disturbed>> /\ ~Starts
  <2>1. CASE NewPress /\ UNCHANGED worker
    <3> DEFINE c == Decode(gesture.stroke)
               n == presses'
    <3>1. /\ n = Len(strokes) + 1 /\ strokes'[n].command = c
          /\ strokes'[n].swallowed = (KeyOf[gesture.stroke] \in swallowed')
          /\ \A k \in 1..Len(strokes) : strokes'[k] = strokes[k]
      BY <1>0, <2>1, AppendProperties DEF NewPress, TypeInv, HistoryTypes
    <3>3. ASSUME NEW k \in Unrun \ disturbed
          PROVE  strokes'[k].swallowed <=> ShouldConsume(strokes'[k].command)
      BY <1>1, <3>1, <3>3 DEF AnsweredAsRun
    <3>4. CASE UNCHANGED jobs
      <4>1. UNCHANGED Unrun
        BY <2>1, <3>4 DEF Unrun
      <4> QED BY <1>4, <3>3, <4>1 DEF AnsweredAsRun, ShouldConsume, Consumes
    <3>5. CASE ~UNCHANGED jobs
      <4> DEFINE job == [command |-> c, released |-> n]
      <4>0. /\ c \in NeedsGraph /\ jobs' = Append(jobs, job)
            /\ KeyOf[gesture.stroke] \in swallowed' <=> ShouldConsume(c)
        BY <2>1, <3>5 DEF NewPress
      <4>1. job \in Jobs
        BY <1>0, <3>1, <4>0, CommandAssumption DEF Jobs
      <4>2. Queued' = Queued \cup {n}
        BY <1>0, <4>0, <4>1, QueueGrows
      <4>3. Unrun' = Unrun \cup {n}
        BY <2>1, <4>2 DEF Unrun, Queued
      <4>4. \A k \in Unrun' \ disturbed' : strokes'[k].swallowed <=> ShouldConsume(strokes'[k].command)
        BY <1>4, <3>1, <3>3, <4>0, <4>3
      <4> QED BY <1>4, <4>4 DEF AnsweredAsRun, ShouldConsume, Consumes
    <3> QED BY <3>4, <3>5
  <2>2. CASE UNCHANGED strokes /\ Unrun' \subseteq Unrun
    BY <1>4, <2>2 DEF AnsweredAsRun, ShouldConsume, Consumes
  <2>3. CASE UNCHANGED <<jobs, worker, callback, strokes>>
    BY <2>2, <2>3 DEF Unrun
  <2>4. CASE /\ worker.at = "idle" /\ worker'.at = "waiting"
             /\ Queued = Queued' \cup {worker'.job.released} /\ UNCHANGED <<callback, strokes>>
    <3>1. Unrun' \subseteq Unrun
      BY <2>4 DEF Unrun, Queued
    <3> QED BY <2>2, <2>4, <3>1
  <2>5. CASE /\ worker.at \in {"waiting", "gate"} /\ worker'.job = worker.job
             /\ UNCHANGED <<jobs, callback, strokes>>
    BY <2>2, <2>5 DEF Unrun
  <2>6. CASE \/ worker'.at = "idle" /\ UNCHANGED <<jobs, callback, strokes>>
             \/ UNCHANGED <<jobs, worker, strokes>>
    BY <2>2, <2>6 DEF Unrun
  <2> QED BY <1>4, <2>1, <2>3, <2>4, <2>5, <2>6, JobMoves
<1> QED BY <1>2, <1>3, <1>4, ModeChanges

\* The engine looks at the mode again when the command starts.
LEMMA StartActs ==
  ASSUME NEW c, NEW n
  PROVE  Event("started", c, n).acts <=> Acts(c)
BY DEF Event, Acts, Consumes

\* What the run of an activation does is what its press was answered for.
LEMMA ActivationStep ==
  ASSUME TypeInv, TypeOK, JobsInv, RequestInv, AnsweredAsRun, [ActionNext]_allVars,
         NEW i \in Len(log) + 1..Len(log'),
         log'[i].kind = "started", log'[i].command \in Activations, log'[i].press \notin disturbed
  PROVE  log'[i].acts <=> strokes[log'[i].press].swallowed
<1>0. Len(log) \in Nat /\ log'[i].command \in NeedsGraph /\ log'[i].command \notin Structured
  BY ActivationAssumption, CommandAssumption, StructuredAssumption DEF TypeInv, HistoryTypes
<1>1. CASE Starts /\ ~sealed
           /\ AddsOne(Event("started", worker.job.command, worker.job.released))
  <2> DEFINE n == worker.job.released
  <2>1. /\ log'[i].command = worker.job.command /\ log'[i].press = n
        /\ log'[i].acts <=> Consumes(worker.job.command)
    <3>1. i = Len(log) + 1
      BY <1>0, <1>1 DEF AddsOne
    <3>2. log'[i] = Event("started", worker.job.command, worker.job.released)
      BY <1>1, <3>1 DEF AddsOne
    <3>3. log'[i].command = worker.job.command /\ log'[i].press = n
      BY <3>2 DEF Event
    <3>4. log'[i].acts <=> Acts(worker.job.command)
      BY <3>2, StartActs
    <3> QED BY <3>3, <3>4 DEF Acts
  <2>2. n \in Unrun /\ worker.job.command = strokes[n].command
    BY <1>1 DEF Starts, WorkerGate, Unrun, JobsInv, JobIsOf
  <2>3. strokes[n].swallowed <=> ShouldConsume(strokes[n].command)
    BY <2>1, <2>2 DEF AnsweredAsRun
  <2> QED BY <1>1, <2>1, <2>2, <2>3 DEF ShouldConsume
<1>2. CASE Settles /\ \E kind \in Ends : AddsOne(Event(kind, worker.job.command, worker.job.released))
  BY <1>0, <1>2 DEF AddsOne, Event, Ends
<1>3. CASE RunsInCallback
           /\ AddsTwo(Event("started", callback.command, Len(strokes)),
                      Event("completed", callback.command, Len(strokes)))
  <2>1. callback.command \notin NeedsGraph
    BY <1>3 DEF RunsInCallback, CallbackRuns, JobsInv
  <2>2. i = Len(log) + 1 \/ i = Len(log) + 2
    BY <1>0, <1>3 DEF AddsTwo
  <2> QED BY <1>0, <1>3, <2>1, <2>2 DEF AddsTwo, Event
<1>4. CASE \/ DirectStarts /\ AddsOne(Event("started", action.command, 0))
           \/ DirectSettles /\ \E kind \in Ends : AddsOne(Event(kind, action.command, 0))
  <2>1. action.command \in Structured
    BY <1>4 DEF DirectStarts, DirectSettles, RequestInv
  <2>2. log'[i].command = action.command
    <3>1. \E kind : AddsOne(Event(kind, action.command, 0))
      BY <1>4
    <3>2. PICK kind : log'[i] = Event(kind, action.command, 0)
      BY <1>0, <3>1 DEF AddsOne
    <3> QED BY <3>2 DEF Event
  <2> QED BY <1>0, <2>1, <2>2
<1>5. CASE UNCHANGED log
  BY <1>0, <1>5
<1>6. \/ UNCHANGED log
      \/ Starts /\ ~sealed /\ AddsOne(Event("started", worker.job.command, worker.job.released))
      \/ Settles /\ \E kind \in Ends : AddsOne(Event(kind, worker.job.command, worker.job.released))
      \/ /\ RunsInCallback
         /\ AddsTwo(Event("started", callback.command, Len(strokes)),
                    Event("completed", callback.command, Len(strokes)))
      \/ DirectStarts /\ AddsOne(Event("started", action.command, 0))
      \/ DirectSettles /\ \E kind \in Ends : AddsOne(Event(kind, action.command, 0))
  BY LogSteps
<1> QED BY <1>1, <1>2, <1>3, <1>4, <1>5, <1>6

\* What is known of the presses and of the request.
PressesInv == TypeOK /\ TypeInv /\ RequestInv /\ JobsInv /\ AnsweredAsRun

LEMMA PressesInit == ActionInit => PressesInv
<1> SUFFICES ASSUME ActionInit PROVE PressesInv OBVIOUS
<1>1. jobs = <<>> /\ worker.at = "idle" /\ callback.at = "idle" /\ presses = 0
      /\ strokes = <<>> /\ action = NoAction
  BY DEF ActionInit, InjectorInit, Init, Idle
<1>2. Unrun = {}
  BY <1>1 DEF Unrun
<1> QED BY <1>1, <1>2, TypesInit DEF PressesInv, RequestInv, JobsInv, AnsweredAsRun, NoAction

LEMMA PressesStep == PressesInv /\ [ActionNext]_allVars => PressesInv'
BY TypesStep, RequestStep, JobsStep, AnsweredStep DEF PressesInv

\* The answer to a press and the run of its command decide alike on who handles an
\* activation, although a worker, other sessions and the browser come between them.
THEOREM ActivationCorrect == ActionSpec => ActivationIsHandledOnce
<1>1. ASSUME PressesInv, [ActionNext]_allVars
      PROVE  \A i \in Len(log) + 1..Len(log') :
               LET e == log'[i]
               IN e.kind = "started" /\ e.command \in Activations /\ e.press \notin disturbed =>
                    (e.acts <=> strokes[e.press].swallowed)
  BY <1>1, ActivationStep DEF PressesInv
<1> QED BY <1>1, PressesInit, PressesStep, PTL DEF ActionSpec, ActivationIsHandledOnce

-----------------------------------------------------------------------------
(* The runs of a press *)

Starting(i) == log[i].kind = "started"

Of(n) == {i \in 1..Len(log) : log[i].press = n}

\* Every event is of the press that it names, or of a structured command.
EventsInv ==
  \A i \in 1..Len(log) :
    /\ log[i].press = 0 => log[i].command \in Structured
    /\ log[i].press # 0 =>
         /\ log[i].press \in 1..Len(strokes)
         /\ log[i].command = strokes[log[i].press].command /\ log[i].command \in Commands

\* The events of a press are a start and then an end; a press that lives has no end.
PairOf(n) ==
  /\ \A i, j \in Of(n) : (Starting(i) <=> Starting(j)) => i = j
  /\ \A j \in Of(n) : ~Starting(j) =>
       n \notin Live /\ \E i \in Of(n) : i < j /\ Starting(i) /\ log[i].session = log[j].session

\* Nor has it a start before its command runs.
RunsInv ==
  /\ \A n \in 1..Len(strokes) : PairOf(n)
  /\ \A n \in Unrun \cup Calling : Of(n) = {}
  /\ worker.at = "running" =>
       IF sealed THEN Of(worker.job.released) = {}
       ELSE \E i \in Of(worker.job.released) : Starting(i) /\ log[i].session = session

\* A press is in the queue, with the worker or in the callback.
LEMMA OnePlaceEach ==
  ASSUME TypeOK, JobsInv
  PROVE  (Queued \cup Taken) \cap Calling = {} /\ Queued \cap Taken = {}
<1>1. \A n \in Queued : strokes[n].command \in NeedsGraph
  BY DEF JobsInv, JobIsOf, Queued
<1>2. \A n \in Taken : strokes[n].command \in NeedsGraph /\ n \notin Queued
  BY DEF JobsInv, JobIsOf, Taken
<1>3. \A n \in Calling : strokes[n].command \notin NeedsGraph
  BY DEF JobsInv, Calling
<1> QED BY <1>1, <1>2, <1>3

\* An event that is added is of a press that lives, or of the structured command of the
\* request.
LEMMA NewEvents ==
  ASSUME TypeInv, TypeOK, JobsInv, RequestInv, [ActionNext]_allVars,
         NEW i \in Len(log) + 1..Len(log')
  PROVE  /\ \/ /\ log'[i].press = 0 /\ log'[i].command = action.command
               /\ action.command \in Structured /\ (DirectStarts \/ DirectSettles)
            \/ /\ log'[i].press \in Live /\ log'[i].command \in Commands
               /\ log'[i].command = strokes[log'[i].press].command
         /\ log'[i].session = session
<1>0. Len(log) \in Nat
  BY DEF TypeInv, HistoryTypes
<1>1. ASSUME NEW kind, Starts \/ Settles,
             AddsOne(Event(kind, worker.job.command, worker.job.released))
      PROVE  /\ log'[i].press \in Live /\ log'[i].command \in Commands /\ log'[i].session = session
             /\ log'[i].command = strokes[log'[i].press].command
  <2>1. log'[i] = Event(kind, worker.job.command, worker.job.released)
    BY <1>0, <1>1 DEF AddsOne
  <2>2. worker.at # "idle"
    BY <1>1 DEF Starts, Settles, WorkerGate, WorkerEnds
  <2>3. /\ worker.job.released \in Live /\ worker.job.command \in Commands
        /\ worker.job.command = strokes[worker.job.released].command
    BY <2>2, CommandAssumption DEF JobsInv, JobIsOf, Live, Taken
  <2> QED BY <2>1, <2>3 DEF Event
<1>2. ASSUME RunsInCallback,
             AddsTwo(Event("started", callback.command, Len(strokes)),
                     Event("completed", callback.command, Len(strokes)))
      PROVE  /\ log'[i].press \in Live /\ log'[i].command \in Commands /\ log'[i].session = session
             /\ log'[i].command = strokes[log'[i].press].command
  <2>1. PICK kind : log'[i] = Event(kind, callback.command, Len(strokes))
    <3>1. i = Len(log) + 1 \/ i = Len(log) + 2
      BY <1>0, <1>2 DEF AddsTwo
    <3> QED BY <1>2, <3>1 DEF AddsTwo
  <2>2. /\ Len(strokes) \in Live /\ callback.command \in Commands
        /\ callback.command = strokes[Len(strokes)].command
    BY <1>2 DEF RunsInCallback, CallbackRuns, JobsInv, Live, Calling
  <2> QED BY <2>1, <2>2 DEF Event
<1>3. ASSUME NEW kind, DirectStarts \/ DirectSettles, AddsOne(Event(kind, action.command, 0))
      PROVE  /\ log'[i].press = 0 /\ log'[i].command = action.command /\ log'[i].session = session
             /\ action.command \in Structured
  <2>1. log'[i] = Event(kind, action.command, 0)
    BY <1>0, <1>3 DEF AddsOne
  <2>2. action.command \in Structured
    BY <1>3 DEF DirectStarts, DirectSettles, RequestInv
  <2> QED BY <2>1, <2>2 DEF Event
<1>4. ~UNCHANGED log
  BY <1>0
<1> QED BY <1>1, <1>2, <1>3, <1>4, LogSteps

LEMMA EventsStep ==
  ASSUME TypeInv, TypeOK, JobsInv, RequestInv, EventsInv, [ActionNext]_allVars
  PROVE  EventsInv'
<1>1. ASSUME NEW i \in 1..Len(log)
      PROVE  /\ log'[i] = log[i]
             /\ log[i].press = 0 => log[i].command \in Structured
             /\ log[i].press # 0 =>
                  /\ log[i].press \in 1..Len(strokes')
                  /\ log[i].command = strokes'[log[i].press].command /\ log[i].command \in Commands
  BY LogGrows, StrokesGrow DEF EventsInv
<1>2. ASSUME NEW i \in Len(log) + 1..Len(log')
      PROVE  /\ log'[i].press = 0 => log'[i].command \in Structured
             /\ log'[i].press # 0 =>
                  /\ log'[i].press \in 1..Len(strokes')
                  /\ log'[i].command = strokes'[log'[i].press].command
                  /\ log'[i].command \in Commands
  <2>1. CASE log'[i].press = 0 /\ log'[i].command \in Structured
    BY <2>1
  <2>2. CASE /\ log'[i].press \in Live /\ log'[i].command \in Commands
             /\ log'[i].command = strokes[log'[i].press].command
    <3>1. log'[i].press \in 1..Len(strokes)
      BY <2>2, JobsAreOfPresses
    <3>2. log'[i].press # 0 /\ log'[i].press \in 1..Len(strokes')
          /\ strokes'[log'[i].press] = strokes[log'[i].press]
      BY <3>1, StrokesGrow
    <3> QED BY <2>2, <3>2
  <2> QED BY <2>1, <2>2, NewEvents
<1>3. \A i \in 1..Len(log') : i \in 1..Len(log) \/ i \in Len(log) + 1..Len(log')
  BY LogGrows
<1> QED BY <1>1, <1>2, <1>3 DEF EventsInv

\* One more event of press n, of one of the given kinds.
OneMore(n, kinds) ==
  /\ Of(n)' = Of(n) \cup {Len(log) + 1} /\ log'[Len(log) + 1].kind \in kinds
  /\ log'[Len(log) + 1].session = session

TwoMore(n) ==
  /\ Of(n)' = Of(n) \cup {Len(log) + 1, Len(log) + 2}
  /\ log'[Len(log) + 1].kind = "started" /\ log'[Len(log) + 2].kind \in Ends
  /\ log'[Len(log) + 1].session = session /\ log'[Len(log) + 2].session = session

\* What an added event is to press n.
LEMMA OneAdded ==
  ASSUME TypeInv, NEW kind, NEW c, NEW press, AddsOne(Event(kind, c, press)), NEW n
  PROVE  IF press = n THEN OneMore(n, {kind}) ELSE Of(n)' = Of(n)
<1>1. Len(log) \in Nat /\ 1..Len(log') = 1..Len(log) \cup {Len(log) + 1}
  BY DEF TypeInv, HistoryTypes, AddsOne
<1>2. /\ log'[Len(log) + 1].press = press /\ log'[Len(log) + 1].kind = kind
      /\ log'[Len(log) + 1].session = session /\ \A i \in 1..Len(log) : log'[i] = log[i]
  BY DEF AddsOne, Event
<1> QED BY <1>1, <1>2 DEF OneMore, Of

LEMMA TwoAdded ==
  ASSUME TypeInv, NEW kind \in Ends, NEW c, NEW press, NEW n,
         AddsTwo(Event("started", c, press), Event(kind, c, press))
  PROVE  IF press = n THEN TwoMore(n) ELSE Of(n)' = Of(n)
<1>1. Len(log) \in Nat /\ 1..Len(log') = 1..Len(log) \cup {Len(log) + 1, Len(log) + 2}
  BY DEF TypeInv, HistoryTypes, AddsTwo
<1>2. /\ log'[Len(log) + 1].press = press /\ log'[Len(log) + 2].press = press
      /\ log'[Len(log) + 1].kind = "started" /\ log'[Len(log) + 2].kind = kind
      /\ log'[Len(log) + 1].session = session /\ log'[Len(log) + 2].session = session
      /\ \A i \in 1..Len(log) : log'[i] = log[i]
  BY DEF AddsTwo, Event
<1> QED BY <1>1, <1>2 DEF TwoMore, Of

\* How the events of a press grow.
LEMMA OfSteps ==
  ASSUME TypeInv, TypeOK, [ActionNext]_allVars, NEW n \in Nat \ {0}
  PROVE  /\ \/ Of(n)' = Of(n) /\ (Starts /\ n = worker.job.released => sealed)
            \/ Starts /\ n = worker.job.released /\ ~sealed /\ OneMore(n, {"started"})
            \/ Settles /\ n = worker.job.released /\ ~sealed /\ OneMore(n, Ends)
            \/ RunsInCallback /\ n = Len(strokes) /\ TwoMore(n)
         /\ \A i \in Of(n) : (Starting(i)' <=> Starting(i)) /\ log'[i] = log[i] /\ i <= Len(log)
<1>1. \A i \in Of(n) : (Starting(i)' <=> Starting(i)) /\ log'[i] = log[i] /\ i <= Len(log)
  BY LogGrows DEF Of, Starting
<1>2. CASE UNCHANGED log
  <2>1. Starts => sealed
    <3>1. ASSUME NEW e PROVE Append(log, e) # log
      BY DEF TypeInv, HistoryTypes
    <3> QED BY <1>2, <3>1 DEF Starts
  <2> QED BY <1>1, <1>2, <2>1 DEF Of
<1>3. CASE Starts /\ ~sealed /\ AddsOne(Event("started", worker.job.command, worker.job.released))
  BY <1>1, <1>3, OneAdded
<1>4. CASE /\ Settles /\ ~sealed
           /\ \E kind \in Ends : AddsOne(Event(kind, worker.job.command, worker.job.released))
  <2>1. PICK kind \in Ends : AddsOne(Event(kind, worker.job.command, worker.job.released))
    BY <1>4
  <2>2. IF worker.job.released = n THEN OneMore(n, {kind}) ELSE Of(n)' = Of(n)
    BY <2>1, OneAdded
  <2>3. OneMore(n, {kind}) => OneMore(n, Ends)
    BY DEF OneMore
  <2>4. ~Starts
    BY <1>4 DEF Settles, Starts, WorkerGate, WorkerEnds
  <2> QED BY <1>1, <1>4, <2>2, <2>3, <2>4
<1>5. CASE /\ RunsInCallback
           /\ AddsTwo(Event("started", callback.command, Len(strokes)),
                      Event("completed", callback.command, Len(strokes)))
  <2>1. IF Len(strokes) = n THEN TwoMore(n) ELSE Of(n)' = Of(n)
    BY <1>5, TwoAdded DEF Ends
  <2>2. ~Starts
    BY <1>5 DEF RunsInCallback, CallbackRuns, Starts, WorkerGate
  <2> QED BY <1>1, <1>5, <2>1, <2>2
<1>6. CASE \/ DirectStarts /\ AddsOne(Event("started", action.command, 0))
           \/ DirectSettles /\ \E kind \in Ends : AddsOne(Event(kind, action.command, 0))
  <2>1. PICK kind : AddsOne(Event(kind, action.command, 0))
    BY <1>6
  <2>2. Of(n)' = Of(n)
    BY <2>1, OneAdded
  <2>3. ~Starts
    BY <1>6 DEF DirectStarts, DirectSettles, Starts, WorkerGate
  <2> QED BY <1>1, <2>2, <2>3
<1> QED BY <1>2, <1>3, <1>4, <1>5, <1>6, LogSteps

\* The session and the seal change at the hands of others only.
LEMMA SessionKept ==
  ASSUME [ActionNext]_allVars, ~OthersFinish
  PROVE  UNCHANGED <<session, sealed>>
<1>1. CASE BeginAction \/ PressGesture \/ Pressed \/ Acknowledged \/ Settled \/ Answers \/ Fails
  BY <1>1 DEF BeginAction, PressGesture, Pressed, Acknowledged, Settled, Answers, Fails, Type,
              Return, planVars, vars
<1>2. CASE DirectStarts \/ DirectSettles \/ UNCHANGED allVars
  BY <1>2 DEF DirectStarts, DirectSettles, allVars, vars
<1>3. CASE Typing
  BY <1>3, TypingLeavesEngine DEF Typing
<1>4. CASE Starts \/ Settles \/ RunsInCallback
  BY <1>4 DEF Starts, Settles, RunsInCallback, WorkerGate, WorkerEnds, CallbackRuns
<1>5. CASE ListenerStep
  BY <1>5 DEF ListenerStep, WorkerTakes, WorkerProceeds, RegistryGivesUp, OtherTakesGate
<1> QED BY <1>1, <1>2, <1>3, <1>4, <1>5 DEF ActionNext

\* A start is of a press that had none, and an end of one that runs.
LEMMA RunsStep ==
  ASSUME TypeInv, TypeOK, JobsInv, RequestInv, EventsInv, RunsInv, [ActionNext]_allVars
  PROVE  RunsInv'
<1> DEFINE L == Len(log)
           S == Len(strokes)
<1>0. L \in Nat /\ S \in Nat /\ Len(strokes') \in Nat /\ S <= Len(strokes') /\ S = presses
      /\ JobsInv' /\ TypeOK'
  BY LogGrows, StrokesGrow, JobsStep, TypesStep DEF JobsInv
<1>1. /\ Live' \subseteq Live \cup {S + 1}
      /\ (Unrun \cup Calling)' \subseteq Unrun \cup Calling \cup {S + 1}
      /\ worker'.at = "running" => Starts \/ (worker.at = "running" /\ UNCHANGED worker)
  BY LiveSteps
<1>2. /\ Live \subseteq 1..S /\ (Queued \cup Taken) \cap Calling = {} /\ Queued \cap Taken = {}
      /\ Unrun \cup Calling \subseteq Live
  BY JobsAreOfPresses, OnePlaceEach DEF Unrun, Live, Queued, Taken
<1>3. Of(S + 1) = {} /\ S + 1 \in Nat \ {0} /\ 1..S \subseteq Nat \ {0} /\ S + 1 \notin 1..S
  BY <1>0 DEF EventsInv, Of
\* Where a press is that starts, ends, or does both.
<1>4. ASSUME NEW n, Starts, n = worker.job.released
      PROVE  Of(n) = {} /\ n \in Live /\ n \notin (Unrun \cup Calling)'
  <2>1. worker.at = "gate" /\ worker'.at = "running" /\ UNCHANGED <<jobs, callback, presses>>
    BY <1>4 DEF Starts, WorkerGate, TypeOK
  <2>2. n \in Unrun /\ n \in Taken
    BY <1>4, <2>1 DEF Unrun, Taken
  <2>3. n \notin Queued' /\ n \notin Calling'
    BY <1>2, <2>1, <2>2 DEF Queued, Calling
  <2> QED BY <1>2, <2>1, <2>2, <2>3 DEF RunsInv, Unrun, Queued
<1>5. ASSUME NEW n, Settles, n = worker.job.released
      PROVE  /\ worker.at = "running" /\ n \in Live /\ n \notin Live' /\ n \notin Unrun \cup Calling
             /\ worker'.at = "idle"
  <2>1. worker.at = "running" /\ worker'.at = "idle" /\ UNCHANGED <<jobs, callback, presses>>
    BY <1>5 DEF Settles, WorkerEnds
  <2>2. n \in Taken
    BY <1>5, <2>1 DEF Taken
  <2>3. n \notin Queued /\ n \notin Calling
    BY <1>2, <2>2
  <2>4. n \notin Unrun
    BY <2>1, <2>3 DEF Unrun, Queued
  <2>5. n \notin Live'
    BY <2>1, <2>3 DEF Live, Queued, Taken, Calling
  <2> QED BY <2>1, <2>2, <2>3, <2>4, <2>5 DEF Live
<1>6. ASSUME NEW n, RunsInCallback, n = S
      PROVE  Of(n) = {} /\ n \in Live /\ n \notin Live' /\ n \notin Taken
  <2>1. callback.at = "gate" /\ callback' = Idle /\ UNCHANGED <<jobs, worker>>
    BY <1>6 DEF RunsInCallback, CallbackRuns
  <2>2. n \in Calling
    BY <1>0, <1>6, <2>1 DEF Calling
  <2>3. n \notin Queued /\ n \notin Taken
    BY <1>2, <2>2
  <2>4. n \notin Live'
    BY <2>1, <2>3 DEF Live, Queued, Taken, Calling, Idle
  <2> QED BY <2>2, <2>3, <2>4 DEF RunsInv, Live
<1>7. ASSUME NEW n \in 1..Len(strokes') PROVE PairOf(n)'
  <2>0. n \in Nat \ {0} /\ (n \in 1..S \/ n > S)
    BY <1>0
  <2>1. \A i \in Of(n) : (Starting(i)' <=> Starting(i)) /\ log'[i] = log[i] /\ i <= L
    BY <2>0, OfSteps
  <2>2. CASE n > S
    <3>1. n \notin Live /\ Of(n) = {}
      BY <1>0, <1>2, <2>2 DEF EventsInv, Of
    <3>2. Of(n)' = {}
      BY <1>4, <1>5, <1>6, <2>0, <3>1, OfSteps
    <3> QED BY <3>2 DEF PairOf
  <2>3. CASE n \in 1..S /\ Of(n)' = Of(n)
    <3>1. PairOf(n) /\ (n \in Live' => n \in Live)
      BY <1>0, <1>1, <2>3 DEF RunsInv
    <3> QED BY <2>1, <2>3, <3>1 DEF PairOf
  <2>4. CASE Starts /\ n = worker.job.released /\ OneMore(n, {"started"})
    <3>1. Of(n)' = {L + 1} /\ log'[L + 1].kind = "started"
      BY <1>4, <2>4 DEF OneMore
    <3> QED BY <3>1 DEF PairOf, Starting
  <2>5. CASE Settles /\ n = worker.job.released /\ ~sealed /\ OneMore(n, Ends) /\ n \in 1..S
    <3>1. n \in Live /\ n \notin Live' /\ worker.at = "running"
      BY <1>5, <2>5
    <3>2. PICK i \in Of(n) : Starting(i) /\ log[i].session = session
      BY <2>5, <3>1 DEF RunsInv
    <3>3. Of(n) = {i} /\ i <= L
      BY <2>1, <2>5, <3>1, <3>2 DEF RunsInv, PairOf
    <3>4. /\ Of(n)' = {i, L + 1} /\ log'[L + 1].kind # "started"
          /\ log'[L + 1].session = session
      BY <2>5, <3>3 DEF OneMore, Ends
    <3>5. log'[i] = log[i] /\ log[i].kind = "started" /\ i \in 1..L
      BY <2>1, <3>2 DEF Starting, Of
    <3>6. i < L + 1
      BY <1>0, <3>5
    <3> QED BY <3>1, <3>2, <3>4, <3>5, <3>6 DEF PairOf, Starting
  <2>6. CASE RunsInCallback /\ n = S /\ TwoMore(n)
    <3>1. /\ Of(n)' = {L + 1, L + 2} /\ log'[L + 1].kind = "started"
          /\ log'[L + 2].kind # "started" /\ n \notin Live'
          /\ log'[L + 1].session = log'[L + 2].session
      BY <1>6, <2>6 DEF TwoMore, Ends
    <3>2. L + 1 < L + 2
      BY <1>0
    <3> QED BY <3>1, <3>2 DEF PairOf, Starting
  <2> QED BY <2>0, <2>2, <2>3, <2>4, <2>5, <2>6, OfSteps
<1>8. ASSUME NEW n \in (Unrun \cup Calling)' PROVE Of(n)' = {}
  <2>1. n \in Unrun \cup Calling \/ n = S + 1
    BY <1>1, <1>8
  <2>2. n \in Nat \ {0} /\ Of(n) = {} /\ (n \in Live => n \in 1..S)
    BY <1>2, <1>3, <2>1 DEF RunsInv
  <2>3. ~(Starts /\ n = worker.job.released)
    BY <1>4, <1>8
  <2>4. ~(Settles /\ n = worker.job.released)
    BY <1>0, <1>2, <1>5, <2>1
  <2>5. ~(RunsInCallback /\ n = S)
    <3>1. (Unrun \cup Calling)' \subseteq Live'
      BY DEF Unrun, Live, Queued, Taken
    <3> QED BY <1>6, <1>8, <3>1
  <2> QED BY <2>2, <2>3, <2>4, <2>5, OfSteps
<1>9. ASSUME worker'.at = "running", NEW n, n = worker'.job.released
      PROVE  /\ sealed' => Of(n)' = {}
             /\ ~sealed' => \E i \in Of(n)' : log'[i].kind = "started" /\ log'[i].session = session'
  <2>1. CASE Starts
    <3>1. n = worker.job.released /\ UNCHANGED <<session, sealed>>
      BY <1>9, <2>1, SessionKept DEF Starts, WorkerGate, OthersFinish, OtherLeavesGate, TypeOK
    <3>2. Of(n) = {} /\ n \in Nat \ {0}
      BY <1>2, <1>3, <1>4, <2>1, <3>1
    <3>3. ~Settles /\ ~RunsInCallback
      BY <1>9, <2>1 DEF Starts, Settles, RunsInCallback, WorkerGate, WorkerEnds, CallbackRuns
    <3>4. (Of(n)' = Of(n) /\ sealed) \/ (~sealed /\ OneMore(n, {"started"}))
      BY <2>1, <3>1, <3>2, <3>3, OfSteps
    <3> QED BY <3>1, <3>2, <3>4 DEF OneMore
  <2>2. CASE ~Starts
    <3>1. worker.at = "running" /\ UNCHANGED worker /\ gate = "worker"
      BY <1>1, <1>9, <2>2 DEF TypeInv, GateIsHeld
    <3>2. UNCHANGED <<session, sealed>>
      BY <3>1, SessionKept DEF OthersFinish, OtherLeavesGate
    <3>3. n \in Taken /\ n \in Nat \ {0}
      BY <1>0, <1>2, <1>9, <3>1 DEF Taken, Live
    <3>4. Of(n)' = Of(n) /\ \A i \in Of(n) : log'[i] = log[i]
      BY <1>5, <1>6, <1>9, <2>2, <3>1, <3>3, OfSteps
    <3>5. IF sealed THEN Of(n) = {} ELSE \E i \in Of(n) : log[i].kind = "started" /\ log[i].session = session
      BY <1>9, <3>1 DEF RunsInv, Starting
    <3> QED BY <3>2, <3>4, <3>5
  <2> QED BY <2>1, <2>2
<1>10. (worker.at = "running" =>
          IF sealed THEN Of(worker.job.released) = {}
          ELSE \E i \in Of(worker.job.released) : Starting(i) /\ log[i].session = session)'
  BY <1>9 DEF Starting
<1>11. (\A n \in 1..Len(strokes) : PairOf(n))' /\ (\A n \in Unrun \cup Calling : Of(n) = {})'
  BY <1>7, <1>8
<1> QED BY <1>10, <1>11 DEF RunsInv

-----------------------------------------------------------------------------
(* The presses of the request *)

\* The number of the request, as its presses record it.
Current == Len(answered) + 1

Mine == {n \in 1..Len(strokes) : strokes[n].action = Current}

\* A request that was typed once has pressed at most once, after the key was due; what
\* its presses wrote is behind its cursor.
MineInv ==
  /\ \A n \in 1..Len(strokes) : strokes[n].action \in 1..Current
  /\ action.presses = 0 => Mine = {}
  /\ action.presses = 1 => \A n, k \in Mine : n = k
  /\ action.presses = 1 /\ step \in {"hold", "key"} => Mine = {}
  /\ action.at # "idle" => session # 0 /\ \A n \in Mine : \A i \in Of(n) : i > action.before

\* The request stays what it was, wherever it gets to.
Continues ==
  /\ UNCHANGED answered /\ (action'.at = "idle" <=> action.at = "idle")
  /\ action'.command = action.command /\ action'.presses = action.presses
  /\ action'.before = action.before
  /\ step' \in {"hold", "key"} => step \in {"hold", "key"}

\* A request goes on, begins, is typed, or is answered; only the tail is answered well.
LEMMA RequestMoves ==
  ASSUME TypeInv, TypeOK, [ActionNext]_allVars
  PROVE  \/ Continues
         \/ BeginAction
         \/ PressGesture
         \/ \E ok \in BOOLEAN :
              Reply(ok) /\ (ok => action.at = "tail") /\ UNCHANGED <<log, strokes, session>>
<1>0. action \in Tasks
  BY DEF TypeInv, ActionTypes
<1>1. CASE UNCHANGED <<action, answered, step>>
  BY <1>1 DEF Continues
<1>2. CASE Typing
  <2>1. UNCHANGED <<action, answered>>
    BY <1>2 DEF Typing
  <2>2. step' \in {"hold", "key"} => step \in {"hold", "key"}
    BY <1>2 DEF Typing, Hold, Key, EndKey, ReleaseLast
  <2> QED BY <2>1, <2>2 DEF Continues
<1>3. ASSUME NEW at \in Places \ {"idle"}, Goto(at), action.at # "idle", UNCHANGED answered,
             step' = step \/ step' = "idle"
      PROVE  Continues
  <2>1. /\ action'.at = at /\ action'.command = action.command /\ action'.presses = action.presses
        /\ action'.before = action.before
    BY <1>0, <1>3 DEF Goto, Tasks
  <2> QED BY <1>3, <2>1 DEF Continues
<1>4. CASE Pressed
  <2>1. action.at # "idle" /\ step' = "idle" /\ UNCHANGED <<log, strokes, session>>
    BY <1>4 DEF Pressed, Return, TypeInv, TypesForAction
  <2> QED BY <1>3, <1>4, <2>1 DEF Pressed, Places
<1>5. CASE Acknowledged \/ DirectStarts \/ DirectSettles
  <2>1. action.at # "idle" /\ UNCHANGED <<answered, step>>
    BY <1>5 DEF Acknowledged, DirectStarts, DirectSettles
  <2> QED BY <1>3, <1>5, <2>1 DEF Acknowledged, DirectStarts, DirectSettles, Places
<1>6. CASE Settled
  <2>1. action.at = "settle" /\ UNCHANGED <<log, strokes, step, session>>
    BY <1>6 DEF Settled
  <2>2. CASE Reply(FALSE)
    BY <2>1, <2>2
  <2>3. CASE ~Reply(FALSE)
    <3>1. /\ UNCHANGED answered
          /\ action' = [action EXCEPT !.at = "tail", !.from = Max({0} \cup Found({"started"}))]
      BY <1>6, <2>3 DEF Settled
    <3>2. /\ action'.at = "tail" /\ action'.command = action.command
          /\ action'.presses = action.presses /\ action'.before = action.before
      BY <1>0, <3>1 DEF Tasks
    <3> QED BY <2>1, <3>1, <3>2 DEF Continues
  <2> QED BY <2>2, <2>3
<1>7. CASE Answers \/ Fails
  BY <1>7 DEF Answers, Fails
<1>8. CASE Starts \/ Settles \/ RunsInCallback \/ ListenerStep \/ OthersFinish \/ UNCHANGED allVars
  BY <1>1, <1>8 DEF Starts, Settles, RunsInCallback, ListenerStep, OthersFinish, allVars
<1> QED BY <1>2, <1>4, <1>5, <1>6, <1>7, <1>8 DEF ActionNext

\* No session ends in the middle of an action.
LEMMA SessionStays ==
  ASSUME TypeInv, [ActionNext]_allVars, action.at # "idle", session # 0
  PROVE  UNCHANGED session
<1>1. CASE OthersFinish
  BY <1>1 DEF OthersFinish
<1> QED BY <1>1, SessionKept

LEMMA MineStep ==
  ASSUME TypeInv, TypeOK, RequestInv, JobsInv, EventsInv, MineInv, [ActionNext]_allVars
  PROVE  MineInv'
<1> DEFINE S == Len(strokes)
<1>0. /\ S \in Nat /\ Len(answered) \in Nat /\ Len(log) \in Nat /\ action \in Tasks
      /\ strokes \in Seq(Presses) /\ Len(log') \in Nat
      /\ \A i \in 1..Len(log) : log'[i] = log[i]
  BY LogGrows DEF TypeInv, ActionTypes, HistoryTypes
<1>1. \/ UNCHANGED strokes
      \/ NewPress /\ UNCHANGED <<log, answered, action, session>>
  BY OnlyTypingPresses DEF Typing
<1>2. CASE NewPress /\ UNCHANGED <<log, answered, action, session>>
  <2>1. /\ Len(strokes') = S + 1 /\ strokes'[S + 1].action = Current
        /\ \A n \in 1..S : strokes'[n] = strokes[n]
    <3> DEFINE p == [action |-> Len(answered) + 1, command |-> Decode(gesture.stroke),
                     swallowed |-> KeyOf[gesture.stroke] \in swallowed']
    <3>1. strokes' = Append(strokes, p) /\ p.action = Current
      BY <1>2 DEF NewPress, Current
    <3> HIDE DEF p
    <3> QED BY <1>0, <3>1, AppendProperties
  <2>2. Mine' = Mine \cup {S + 1} /\ S + 1 \notin Mine
    <3>1. 1..Len(strokes') = 1..S \cup {S + 1} /\ S + 1 \notin 1..S /\ Current' = Current
      BY <1>0, <1>2, <2>1 DEF Current
    <3>2. \A n \in 1..Len(strokes') : n \in Mine' <=> n \in Mine \/ n = S + 1
      BY <2>1, <3>1 DEF Mine
    <3> QED BY <3>1, <3>2 DEF Mine
  <2>3. /\ step = "key" /\ step' = "keyUp" /\ action.presses # 0
        /\ (action.presses = 1 => Mine = {})
    BY <1>2 DEF NewPress, TypeInv, TypesForAction, RequestInv, MineInv
  <2>4. \A n \in Mine' : Of(n)' = Of(n) /\ (n = S + 1 => Of(n) = {})
    BY <1>0, <1>2 DEF Of, EventsInv
  <2>5. \A n \in 1..Len(strokes') : strokes'[n].action \in 1..Current'
    <3>1. \A n \in 1..S : strokes[n].action \in 1..Current
      BY DEF MineInv
    <3>2. Current' = Current /\ Current \in 1..Current /\ 1..Len(strokes') = 1..S \cup {S + 1}
      BY <1>0, <1>2, <2>1 DEF Current
    <3> QED BY <2>1, <3>1, <3>2
  <2>6. action.at # "idle" => session # 0 /\ \A n \in Mine' : \A i \in Of(n)' : i > action.before
    BY <2>2, <2>4 DEF MineInv
  <2> QED BY <1>2, <2>2, <2>3, <2>5, <2>6 DEF MineInv
<1>3. CASE UNCHANGED strokes /\ Continues
  <2>1. Mine' = Mine /\ Current' = Current
    BY <1>3 DEF Mine, Current, Continues
  <2>2. action.at # "idle" =>
          session' # 0 /\ \A n \in Mine : \A i \in Of(n)' : i > action.before
    <3>1. action.at # "idle" => action.before \in Nat /\ action.before <= Len(log)
      BY <1>0 DEF RequestInv, Tasks
    <3>2. ASSUME action.at # "idle", NEW n \in Mine, NEW i \in Of(n)' PROVE i > action.before
      <4>1. i \in Of(n) \/ i > Len(log)
        BY <1>0, <3>2 DEF Of
      <4>2. i \in Nat
        BY <1>0, <3>2 DEF Of
      <4> QED BY <1>0, <3>1, <3>2, <4>1, <4>2 DEF MineInv
    <3>3. action.at # "idle" => session' # 0
      BY SessionStays DEF MineInv
    <3> QED BY <3>2, <3>3
  <2>3. /\ action'.presses = 0 => Mine' = {}
        /\ action'.presses = 1 => \A n, k \in Mine' : n = k
        /\ action'.presses = 1 /\ step' \in {"hold", "key"} => Mine' = {}
    BY <1>3, <2>1 DEF MineInv, Continues
  <2>4. action'.at # "idle" => session' # 0 /\ \A n \in Mine' : \A i \in Of(n)' : i > action'.before
    BY <1>3, <2>1, <2>2 DEF Continues
  <2>5. \A n \in 1..Len(strokes') : strokes'[n].action \in 1..Current'
    BY <1>3, <2>1 DEF MineInv
  <2> QED BY <2>3, <2>4, <2>5 DEF MineInv
<1>4. CASE UNCHANGED strokes /\ BeginAction
  <2>1. action.presses = 0 /\ action'.presses = 0 /\ session' # 0 /\ UNCHANGED answered
    BY <1>4 DEF BeginAction, RequestInv, NoAction
  <2>2. Mine' = {} /\ Current' = Current
    BY <1>4, <2>1 DEF MineInv, Mine, Current
  <2> QED BY <1>4, <2>1, <2>2 DEF MineInv
<1>5. CASE UNCHANGED strokes /\ PressGesture
  <2>1. /\ action'.presses = action.presses + 1 /\ action'.before = action.before /\ action.at # "idle"
        /\ UNCHANGED <<answered, log, session>>
    BY <1>0, <1>5 DEF PressGesture, Tasks
  <2>2. Mine' = Mine /\ Current' = Current /\ action.presses \in Nat
        /\ \A n : Of(n)' = Of(n)
    BY <1>0, <1>5, <2>1 DEF Mine, Current, Tasks, Of
  <2>3. /\ action'.presses # 0 /\ (action'.presses = 1 => Mine' = {})
    BY <2>1, <2>2 DEF MineInv
  <2>4. session' # 0 /\ \A n \in Mine' : \A i \in Of(n)' : i > action'.before
    BY <2>1, <2>2 DEF MineInv
  <2> QED BY <1>5, <2>2, <2>3, <2>4 DEF MineInv
<1>6. ASSUME NEW ok \in BOOLEAN, UNCHANGED strokes, Reply(ok)
      PROVE  MineInv'
  <2>1. action' = NoAction /\ Len(answered') = Len(answered) + 1
    BY <1>0, <1>6, AppendProperties DEF Reply, TypeInv, HistoryTypes
  <2>2. Current' = Current + 1 /\ Current \in Nat
    BY <1>0, <2>1 DEF Current
  <2>3. \A n \in 1..Len(strokes') : strokes'[n].action \in 1..Current' /\ strokes'[n].action # Current'
    BY <1>6, <2>2 DEF MineInv
  <2>4. Mine' = {}
    BY <2>3 DEF Mine
  <2> QED BY <2>1, <2>3, <2>4 DEF MineInv, NoAction
<1> QED BY <1>1, <1>2, <1>3, <1>4, <1>5, <1>6, RequestMoves

-----------------------------------------------------------------------------
(* The run of a structured command *)

\* The events of the command behind the cursor of the request.
Behind == {i \in action.before + 1..Len(log) : log[i].command = action.command}

\* A structured command has not started, or runs, or has run.
DirectInv ==
  action.presses = 0 =>
    /\ action.at = "direct" => Behind = {}
    /\ action.at = "running" =>
         \E i \in Behind : Behind = {i} /\ Starting(i) /\ log[i].session = session
    /\ action.at = "settle" =>
         \E i, j \in Behind : /\ Behind = {i, j} /\ i < j /\ Starting(i) /\ log[j].kind \in Ends
                              /\ log[i].session = session /\ log[j].session = session

\* Behind the cursor is what was there, and what the step adds.
LEMMA BehindGrows ==
  ASSUME TypeInv, TypeOK, RequestInv, [ActionNext]_allVars, action.at # "idle",
         action'.before = action.before, action'.command = action.command
  PROVE  /\ Behind' = Behind \cup {i \in Len(log) + 1..Len(log') : log'[i].command = action.command}
         /\ \A i \in Behind : /\ log'[i] = log[i] /\ (Starting(i)' <=> Starting(i))
                              /\ i \in Nat /\ i <= Len(log) /\ i > action.before
<1>1. /\ Len(log) \in Nat /\ Len(log') \in Nat /\ Len(log) <= Len(log')
      /\ \A i \in 1..Len(log) : log'[i] = log[i]
  BY LogGrows
<1>2. action.before \in Nat /\ action.before <= Len(log)
  BY DEF RequestInv, TypeInv, ActionTypes, Tasks
<1>3. action.before + 1..Len(log') = (action.before + 1..Len(log)) \cup (Len(log) + 1..Len(log'))
  BY <1>1, <1>2
<1>4. \A i \in action.before + 1..Len(log) :
        log'[i] = log[i] /\ i \in Nat /\ i <= Len(log) /\ i > action.before
  BY <1>1, <1>2
<1>5. \A i \in Behind : /\ log'[i] = log[i] /\ (Starting(i)' <=> Starting(i))
                        /\ i \in Nat /\ i <= Len(log) /\ i > action.before
  BY <1>4 DEF Behind, Starting
<1>6. Behind' = {i \in action.before + 1..Len(log') : log'[i].command = action.command}
  BY DEF Behind
<1> QED BY <1>3, <1>4, <1>5, <1>6 DEF Behind

LEMMA DirectStep ==
  ASSUME TypeInv, TypeOK, RequestInv, JobsInv, MineInv, DirectInv, [ActionNext]_allVars
  PROVE  DirectInv'
<1> DEFINE L == Len(log)
<1>0. L \in Nat /\ action \in Tasks
  BY DEF TypeInv, ActionTypes, HistoryTypes
<1>1. CASE UNCHANGED action /\ ~DirectStarts /\ ~DirectSettles
  <2>1. CASE action.presses # 0 \/ action.at \notin {"direct", "running", "settle"}
    BY <1>1, <2>1 DEF DirectInv
  <2>2. CASE action.presses = 0 /\ action.at \in {"direct", "running", "settle"}
    <3>1. \A i \in L + 1..Len(log') : log'[i].command # action.command
      <4>1. action.command \in Structured
        BY <2>2 DEF RequestInv
      <4>2. \A i \in L + 1..Len(log') : log'[i].command \in Commands
        BY <1>1, NewEvents
      <4> QED BY <4>1, <4>2, StructuredAssumption
    <3>2. session' = session
      BY <2>2, SessionStays DEF MineInv
    <3>3. Behind' = Behind /\ \A i \in Behind : log'[i] = log[i] /\ (Starting(i)' <=> Starting(i))
      BY <1>1, <2>2, <3>1, BehindGrows
    <3> DEFINE B == Behind
    <3>4. Behind' = B
      BY <3>3
    <3>5. \A i \in B : log'[i] = log[i] /\ (Starting(i) <=> log'[i].kind = "started")
      BY <3>3 DEF Starting
    <3> QED BY <1>1, <2>2, <3>2, <3>4, <3>5 DEF DirectInv, Starting
  <2> QED BY <2>1, <2>2
<1>2. CASE DirectStarts
  <2>1. /\ action.at = "direct" /\ action'.at = "running" /\ action'.command = action.command
        /\ action'.before = action.before /\ action'.presses = action.presses
        /\ session' = session /\ action.presses = 0 /\ Behind = {}
    BY <1>0, <1>2 DEF DirectStarts, Goto, Tasks, RequestInv, DirectInv
  <2>2. AddsOne(Event("started", action.command, 0))
    <3>1. Event("started", action.command, 0) \in Events
      BY <1>0, EventType DEF Tasks
    <3> QED BY <1>2, <3>1, AppendAddsOne DEF DirectStarts
  <2>3. /\ Len(log') = L + 1 /\ log'[L + 1].kind = "started" /\ log'[L + 1].command = action.command
        /\ log'[L + 1].session = session
    BY <2>2 DEF AddsOne, Event
  <2>4. Behind' = {L + 1}
    <3>1. {i \in L + 1..Len(log') : log'[i].command = action.command} = {L + 1}
      BY <1>0, <2>3
    <3> QED BY <1>2, <2>1, <3>1, BehindGrows
  <2> QED BY <2>1, <2>3, <2>4 DEF DirectInv, Starting
<1>3. CASE DirectSettles
  <2>1. /\ action.at = "running" /\ action'.at = "settle" /\ action'.command = action.command
        /\ action'.before = action.before /\ action'.presses = action.presses
        /\ session' = session /\ action.presses = 0
    BY <1>0, <1>3 DEF DirectSettles, Goto, Tasks, RequestInv
  <2>2. PICK i \in Behind : Behind = {i} /\ Starting(i) /\ log[i].session = session
    BY <2>1 DEF DirectInv
  <2>3. PICK kind \in Ends : AddsOne(Event(kind, action.command, 0))
    <3>1. PICK kind \in Ends : log' = Append(log, Event(kind, action.command, 0))
      BY <1>3 DEF DirectSettles, Ends
    <3>2. Event(kind, action.command, 0) \in Events
      BY <1>0, EventType DEF Tasks, Ends
    <3> QED BY <3>1, <3>2, AppendAddsOne
  <2>4. /\ Len(log') = L + 1 /\ log'[L + 1].kind \in Ends /\ log'[L + 1].command = action.command
        /\ log'[L + 1].session = session
    BY <2>3 DEF AddsOne, Event
  <2>5. Behind' = {i, L + 1}
    <3>1. {k \in L + 1..Len(log') : log'[k].command = action.command} = {L + 1}
      BY <1>0, <2>4
    <3> QED BY <1>3, <2>1, <2>2, <3>1, BehindGrows
  <2>6. log'[i].kind = "started" /\ log'[i].session = session /\ i < L + 1
    <3>1. log'[i] = log[i] /\ i \in Nat /\ i <= L
      BY <1>3, <2>1, BehindGrows
    <3> QED BY <1>0, <2>2, <3>1 DEF Starting
  <2> QED BY <2>1, <2>4, <2>5, <2>6 DEF DirectInv, Starting
<1>4. CASE BeginAction
  <2>1. action'.before = L /\ action'.at \in {"direct", "press"} /\ UNCHANGED log
    BY <1>4 DEF BeginAction, NoAction, Cursor
  <2>2. Behind' = {}
    BY <1>0, <2>1 DEF Behind
  <2> QED BY <2>1, <2>2 DEF DirectInv
<1>5. CASE PressGesture
  <2>1. action'.presses # 0
    BY <1>0, <1>5 DEF PressGesture, Tasks
  <2> QED BY <2>1 DEF DirectInv
<1>6. ASSUME NEW ok, Reply(ok) PROVE DirectInv'
  BY <1>6 DEF Reply, NoAction, DirectInv
<1>7. CASE Pressed \/ Acknowledged
  <2>1. action.presses # 0
    BY <1>7 DEF Pressed, Acknowledged, Return, TypeInv, TypesForAction, RequestInv
  <2>2. ASSUME NEW at, Goto(at) PROVE DirectInv'
    <3>1. action'.presses = action.presses
      BY <1>0, <2>2 DEF Goto, Tasks
    <3> QED BY <2>1, <3>1 DEF DirectInv
  <2> QED BY <1>6, <1>7, <2>2 DEF Pressed, Acknowledged
<1>8. CASE Settled
  <2>1. action'.at \in {"idle", "tail"}
    BY <1>8, SettledTo
  <2> QED BY <2>1 DEF DirectInv
<1>9. CASE Answers \/ Fails
  BY <1>6, <1>9 DEF Answers, Fails
<1>10. CASE Typing \/ Starts \/ Settles \/ RunsInCallback \/ ListenerStep \/ OthersFinish \/ UNCHANGED allVars
  <2>1. UNCHANGED action
    BY <1>10 DEF Typing, Starts, Settles, RunsInCallback, ListenerStep, OthersFinish, allVars
  <2> QED BY <1>1, <1>2, <1>3, <2>1
<1> QED BY <1>2, <1>3, <1>4, <1>5, <1>7, <1>8, <1>9, <1>10 DEF ActionNext

-----------------------------------------------------------------------------
(* Clean actions *)

\* Every press that decoded to the command of the request was of a request for it that
\* was answered at its first press, or is of the request itself.
CleanSoFar ==
  \A n \in 1..Len(strokes) :
    strokes[n].action # Current /\ strokes[n].command = action.command =>
      LET a == answered[strokes[n].action] IN a.sure /\ a.command = action.command

\* A clean action has run once, and none of its presses lives.
CleanInv ==
  \A m \in 1..Len(answered) :
    /\ answered[m].to <= Len(log) /\ (action.at # "idle" => answered[m].to <= action.before)
    /\ Clean(m) => RanOnce(m) /\ \A n \in Live : strokes[n].action # m

\* The action that waits for the tail of the log has run once, unless presses that went
\* astray before it still run.
TailInv ==
  action.at = "tail" /\ action.presses <= 1 /\ CleanSoFar =>
    /\ Mine \cap Live = {}
    /\ \E j \in Behind :
         /\ Behind = {action.from, j} /\ action.from < j
         /\ log[action.from].kind = "started" /\ log[j].kind = "completed"
         /\ log[j].press = log[action.from].press /\ log[j].session = log[action.from].session
         /\ action.presses = 0 \/ log[action.from].press \in Mine
         /\ \A n \in Mine : Of(n) \subseteq {action.from, j}

\* The answers that were given stay, and so do the actions of the presses.
LEMMA AnswersGrow ==
  ASSUME TypeInv, TypeOK, [ActionNext]_allVars
  PROVE  /\ Len(answered) \in Nat /\ Len(answered') \in Nat /\ Len(answered) <= Len(answered')
         /\ \A m \in 1..Len(answered) : m \in 1..Len(answered') /\ answered'[m] = answered[m]
         /\ \A n \in Len(strokes) + 1..Len(strokes') : strokes'[n].action = Len(answered) + 1
<1>0. /\ answered \in Seq(Replies) /\ Len(answered) \in Nat
      /\ strokes \in Seq(Presses) /\ Len(strokes) \in Nat
  BY DEF TypeInv, HistoryTypes
<1>1. /\ Len(answered') \in Nat /\ Len(answered) <= Len(answered')
      /\ \A m \in 1..Len(answered) : answered'[m] = answered[m]
  <2>1. CASE UNCHANGED answered
    BY <1>0, <2>1
  <2>2. ASSUME NEW ok, Reply(ok)
        PROVE  /\ Len(answered') = Len(answered) + 1
               /\ \A m \in 1..Len(answered) : answered'[m] = answered[m]
    <3>1. \E a : answered' = Append(answered, a)
      BY <2>2 DEF Reply
    <3> QED BY <1>0, <3>1, AppendProperties
  <2> QED BY <1>0, <2>1, <2>2, RequestMoves DEF Continues, BeginAction, PressGesture
<1>2. ASSUME NEW n \in Len(strokes) + 1..Len(strokes')
      PROVE  strokes'[n].action = Len(answered) + 1
  <2>1. CASE UNCHANGED strokes
    BY <1>0, <2>1
  <2>2. CASE NewPress
    <3> DEFINE p == [action |-> Len(answered) + 1, command |-> Decode(gesture.stroke),
                     swallowed |-> KeyOf[gesture.stroke] \in swallowed']
    <3>1. strokes' = Append(strokes, p) /\ p.action = Len(answered) + 1
      BY <2>2 DEF NewPress
    <3> HIDE DEF p
    <3>2. Len(strokes') = Len(strokes) + 1 /\ strokes'[Len(strokes) + 1] = p
      BY <1>0, <3>1
    <3> QED BY <1>0, <3>1, <3>2
  <2> QED BY <2>1, <2>2, OnlyTypingPresses
<1> QED BY <1>0, <1>1, <1>2

\* A press for the command of the request that is of an earlier action is of a clean one.
LEMMA CleanPast ==
  ASSUME TypeInv, MineInv, CleanSoFar, NEW n \in 1..Len(strokes),
         strokes[n].command = action.command, n \notin Mine
  PROVE  strokes[n].action \in 1..Len(answered) /\ Clean(strokes[n].action)
<1> DEFINE m == strokes[n].action
           c == action.command
<1>0. Len(answered) \in Nat
  BY DEF TypeInv, HistoryTypes
<1>1. m # Current /\ m \in 1..Current
  BY DEF Mine, MineInv
<1>2. m \in 1..Len(answered)
  BY <1>0, <1>1 DEF Current
<1>3. answered[m].sure /\ answered[m].command = c
  BY <1>1 DEF CleanSoFar
<1>4. ASSUME NEW k \in 1..Len(strokes), strokes[k].action <= m, strokes[k].command = c
      PROVE  answered[strokes[k].action].sure /\ answered[strokes[k].action].command = c
  <2>1. strokes[k].action # Current
    <3>1. strokes[k].action \in 1..Current
      BY DEF MineInv
    <3> QED BY <1>0, <1>2, <1>4, <3>1 DEF Current
  <2> QED BY <1>4, <2>1 DEF CleanSoFar
<1> QED BY <1>2, <1>3, <1>4 DEF Clean

\* What lives or happens for the command of the request is of its own presses.
LEMMA CleanLive ==
  ASSUME TypeOK, TypeInv, JobsInv, MineInv, CleanInv, CleanSoFar,
         NEW n \in Live, strokes[n].command = action.command
  PROVE  n \in Mine
<1>1. n \in 1..Len(strokes)
  BY JobsAreOfPresses
<1> QED BY <1>1, CleanPast DEF CleanInv

LEMMA CleanEvents ==
  ASSUME TypeOK, TypeInv, RequestInv, EventsInv, MineInv, CleanInv, CleanSoFar,
         action.at # "idle", NEW i \in Behind, log[i].press # 0
  PROVE  log[i].press \in Mine
<1> DEFINE n == log[i].press
           m == strokes[n].action
<1>0. /\ Len(log) \in Nat /\ action.before \in Nat /\ i \in Nat /\ i > action.before
      /\ i \in 1..Len(log) /\ log[i].command = action.command
  BY DEF TypeInv, HistoryTypes, ActionTypes, Tasks, Behind
<1>1. n \in 1..Len(strokes) /\ strokes[n].command = action.command
  BY <1>0 DEF EventsInv
<1>2. SUFFICES ASSUME n \notin Mine PROVE FALSE
  OBVIOUS
<1>3. m \in 1..Len(answered) /\ Clean(m)
  BY <1>1, <1>2, CleanPast
<1>4. /\ RanOnce(m) /\ answered[m].to <= action.before
      /\ answered[m].to \in Nat /\ answered[m].from \in Nat
  <2>1. answered[m] \in Replies
    BY <1>3 DEF TypeInv, HistoryTypes
  <2> QED BY <1>3, <2>1 DEF CleanInv, Replies
<1>5. OfAction(i, m)
  BY DEF OfAction
<1>6. \E j \in answered[m].from + 1..answered[m].to : i = answered[m].from \/ i = j
  BY <1>0, <1>4, <1>5 DEF RanOnce
<1>7. i <= answered[m].to
  BY <1>4, <1>6
<1> QED BY <1>0, <1>4, <1>7

\* An event that is added is of no press that has run, and a press that is recorded is of
\* the request.
LEMMA RanOnceKept ==
  ASSUME TypeOK, TypeInv, RequestInv, JobsInv, EventsInv, [ActionNext]_allVars,
         NEW m \in 1..Len(answered), answered[m].to <= Len(log), RanOnce(m),
         \A n \in Live : strokes[n].action # m
  PROVE  RanOnce(m)' /\ \A n \in Live' : strokes'[n].action # m
<1> DEFINE L == Len(log)
           S == Len(strokes)
<1> PICK a : a = answered[m]
  OBVIOUS
<1>0. /\ L \in Nat /\ Len(log') \in Nat /\ L <= Len(log') /\ S \in Nat /\ Len(strokes') \in Nat
      /\ Len(answered) \in Nat /\ \A i \in 1..L : log'[i] = log[i]
      /\ \A n \in 1..S : strokes'[n] = strokes[n]
      /\ answered'[m] = a /\ \A n \in S + 1..Len(strokes') : strokes'[n].action = Len(answered) + 1
  BY LogGrows, StrokesGrow, AnswersGrow
<1>1. a.from \in Nat /\ a.to \in Nat
  <2>1. a \in Replies
    BY DEF TypeInv, HistoryTypes
  <2> QED BY <2>1 DEF Replies
<1>2. Live \subseteq 1..S /\ Live' \subseteq 1..Len(strokes') /\ Live' \subseteq Live \cup {S + 1}
  <2>1. JobsInv' /\ TypeOK'
    BY JobsStep, TypesStep
  <2>2. Live' \subseteq 1..Len(strokes')
    BY <2>1 DEF Live, Queued, Taken, Calling, JobsInv, JobIsOf, TypeOK
  <2> QED BY <2>2, JobsAreOfPresses, LiveSteps
<1>3. ASSUME NEW n \in Live' PROVE strokes'[n].action # m
  <2>1. CASE n \in 1..S
    <3>1. n \in Live
      BY <1>0, <1>2, <1>3, <2>1
    <3> QED BY <1>0, <2>1, <3>1
  <2>2. CASE n \notin 1..S
    <3>1. n = S + 1 /\ n \in S + 1..Len(strokes')
      BY <1>0, <1>2, <1>3, <2>2
    <3> QED BY <1>0, <3>1
  <2> QED BY <2>1, <2>2
<1>4. PICK j \in a.from + 1..a.to :
         /\ {i \in a.from..a.to : log[i].command = a.command} = {a.from, j}
         /\ log[a.from].kind = "started" /\ log[j].kind = "completed"
         /\ log[j].press = log[a.from].press /\ log[j].session = log[a.from].session
         /\ a.structured \/ OfAction(a.from, m)
         /\ \A i \in 1..L : OfAction(i, m) => i \in {a.from, j}
  BY DEF RanOnce
<1>5. a.from # 0
  BY DEF RanOnce
<1>6. a.from..a.to \subseteq 1..L /\ a.from \in 1..L /\ j \in 1..L
  BY SMTT(30), <1>0, <1>1, <1>5
<1>7. \A i \in 1..L : OfAction(i, m)' <=> OfAction(i, m)
  <2>1. \A i \in 1..L : log[i].press # 0 => log[i].press \in 1..S
    BY DEF EventsInv
  <2> QED BY <1>0, <2>1 DEF OfAction
<1>8. ASSUME NEW i \in L + 1..Len(log') PROVE ~OfAction(i, m)'
  <2>1. log'[i].press = 0 \/ log'[i].press \in Live
    BY NewEvents
  <2>2. CASE log'[i].press \in Live
    BY <1>0, <1>2, <2>2 DEF OfAction
  <2> QED BY <2>1, <2>2 DEF OfAction
<1>9. {i \in a.from..a.to : log'[i].command = a.command} = {a.from, j}
  <2>1. \A i \in a.from..a.to : log'[i] = log[i]
    BY <1>0, <1>6
  <2> QED BY <1>4, <2>1
<1>10. ASSUME NEW i \in 1..Len(log'), OfAction(i, m)' PROVE i \in {a.from, j}
  <2>1. i \in 1..L
    BY <1>0, <1>8, <1>10
  <2> QED BY <1>4, <1>7, <1>10, <2>1
<1>11. /\ log'[a.from].kind = "started" /\ log'[j].kind = "completed"
       /\ log'[j].press = log'[a.from].press /\ log'[j].session = log'[a.from].session
       /\ a.structured \/ OfAction(a.from, m)'
  BY <1>0, <1>4, <1>6, <1>7
<1>12. RanOnce(m)'
  <2> DEFINE f == answered'[m].from
             t == answered'[m].to
             c == answered'[m].command
  <2>1. answered'[m] = a
    BY <1>0
  <2>2. {i \in f..t : log'[i].command = c} = {f, j} /\ f # 0 /\ j \in f + 1..t
    BY <1>5, <1>9, <2>1
  <2>3. /\ log'[f].kind = "started" /\ log'[j].kind = "completed"
        /\ log'[j].press = log'[f].press /\ log'[j].session = log'[f].session
    BY <1>11, <2>1
  <2>4. answered'[m].structured \/ (log'[f].press # 0 /\ strokes'[log'[f].press].action = m)
    BY <1>11, <2>1 DEF OfAction
  <2>5. \A i \in 1..Len(log') :
          log'[i].press # 0 /\ strokes'[log'[i].press].action = m => i \in {f, j}
    BY <1>10, <2>1 DEF OfAction
  <2> QED BY <2>2, <2>3, <2>4, <2>5 DEF RanOnce, OfAction
<1> QED BY <1>3, <1>12

\* What makes an action clean does not come afterwards.
LEMMA CleanBefore ==
  ASSUME TypeOK, TypeInv, MineInv, [ActionNext]_allVars, NEW m \in 1..Len(answered), Clean(m)'
  PROVE  Clean(m)
<1>0. /\ Len(strokes) \in Nat /\ Len(strokes') \in Nat /\ Len(strokes) <= Len(strokes')
      /\ \A n \in 1..Len(strokes) : n \in 1..Len(strokes') /\ strokes'[n] = strokes[n]
      /\ Len(answered) \in Nat /\ \A k \in 1..Len(answered) : answered'[k] = answered[k]
  BY StrokesGrow, AnswersGrow
<1>1. /\ answered'[m].sure
      /\ \A n \in 1..Len(strokes') :
           strokes'[n].action <= m /\ strokes'[n].command = answered'[m].command =>
             /\ answered'[strokes'[n].action].sure
             /\ answered'[strokes'[n].action].command = answered'[m].command
  BY DEF Clean
<1>2. ASSUME NEW n \in 1..Len(strokes), strokes[n].action <= m,
             strokes[n].command = answered[m].command
      PROVE  /\ answered[strokes[n].action].sure
             /\ answered[strokes[n].action].command = answered[m].command
  <2>1. strokes[n].action \in 1..Current
    BY DEF MineInv
  <2>2. strokes[n].action \in 1..Len(answered)
    BY <1>0, <1>2, <2>1 DEF Current
  <2> QED BY <1>0, <1>1, <1>2, <2>2
<1> QED BY <1>0, <1>1, <1>2 DEF Clean

\* An action that is answered, and is clean, was so while it waited for the tail.
LEMMA AnswerIsClean ==
  ASSUME TypeOK, TypeInv, RequestInv, JobsInv, EventsInv, MineInv, TailInv,
         NEW m, m = Current, NEW ok \in BOOLEAN, Reply(ok), ok => action.at = "tail",
         UNCHANGED <<log, strokes>>, Live' \subseteq Live, Clean(m)'
  PROVE  RanOnce(m)' /\ \A n \in Live' : strokes'[n].action # m
<1> DEFINE r == [command |-> action.command, sure |-> ok /\ action.presses <= 1,
                 structured |-> action.presses = 0,
                 from |-> IF ok /\ action.presses <= 1 THEN action.from ELSE 0,
                 to |-> IF ok /\ action.presses <= 1 THEN Len(log) ELSE 0]
<1>0. /\ Len(answered) \in Nat /\ answered \in Seq(Replies) /\ Len(log) \in Nat
      /\ action.before \in Nat /\ action.from \in Nat /\ action.presses \in Nat
  BY DEF TypeInv, HistoryTypes, ActionTypes, Tasks
<1>1. answered'[m] = r /\ \A k \in 1..Len(answered) : answered'[k] = answered[k]
  <2>1. answered' = Append(answered, r)
    BY DEF Reply
  <2> HIDE DEF r
  <2> QED BY <1>0, <2>1, AppendProperties DEF Current
<1>2. ok /\ action.presses <= 1
  <2>1. answered'[m].sure
    BY DEF Clean
  <2>2. answered'[m].sure = (ok /\ action.presses <= 1)
    BY <1>1
  <2> QED BY <2>1, <2>2
<1>3. /\ answered'[m].command = action.command /\ answered'[m].from = action.from
      /\ answered'[m].to = Len(log) /\ (answered'[m].structured <=> action.presses = 0)
  <2>1. /\ r.command = action.command /\ (r.structured <=> action.presses = 0)
        /\ r.from = (IF ok /\ action.presses <= 1 THEN action.from ELSE 0)
        /\ r.to = (IF ok /\ action.presses <= 1 THEN Len(log) ELSE 0)
    OBVIOUS
  <2>2. answered'[m] = r
    BY <1>1
  <2> HIDE DEF r
  <2> QED BY <1>2, <2>1, <2>2
<1>4. CleanSoFar
  <2>1. ASSUME NEW n \in 1..Len(strokes), strokes[n].action # m, strokes[n].command = action.command
        PROVE  answered[strokes[n].action].sure /\ answered[strokes[n].action].command = action.command
    <3>1. strokes[n].action \in 1..m
      BY DEF MineInv
    <3>2. strokes[n].action \in 1..Len(answered) /\ strokes[n].action <= m
      BY <1>0, <2>1, <3>1 DEF Current
    <3>3. /\ answered'[strokes[n].action].sure
          /\ answered'[strokes[n].action].command = answered'[m].command
      BY <1>3, <2>1, <3>2 DEF Clean
    <3> QED BY <1>1, <1>3, <3>2, <3>3
  <2> QED BY <2>1 DEF CleanSoFar
<1>5. PICK j \in Behind :
         /\ Behind = {action.from, j} /\ action.from < j
         /\ log[action.from].kind = "started" /\ log[j].kind = "completed"
         /\ log[j].press = log[action.from].press /\ log[j].session = log[action.from].session
         /\ action.presses = 0 \/ log[action.from].press \in Mine
         /\ \A n \in Mine : Of(n) \subseteq {action.from, j}
  BY <1>2, <1>4 DEF TailInv
<1>6. Mine \cap Live = {}
  BY <1>2, <1>4 DEF TailInv
<1>7. /\ action.from \in action.before + 1..Len(log) /\ j \in action.from + 1..Len(log)
      /\ action.from # 0
  BY <1>0, <1>5 DEF Behind
<1>8. {i \in action.from..Len(log) : log[i].command = action.command} = {action.from, j}
  <2>1. action.from..Len(log) \subseteq action.before + 1..Len(log)
    BY <1>0, <1>7
  <2>2. {i \in action.from..Len(log) : log[i].command = action.command} \subseteq Behind
    BY <2>1 DEF Behind
  <2>3. action.from \in action.from..Len(log) /\ j \in action.from..Len(log)
    BY <1>0, <1>7
  <2>4. log[action.from].command = action.command /\ log[j].command = action.command
    BY <1>5 DEF Behind
  <2> QED BY <1>5, <2>2, <2>3, <2>4
<1>9. ASSUME NEW i \in 1..Len(log), OfAction(i, m) PROVE i \in {action.from, j}
  <2>1. log[i].press \in Mine /\ i \in Of(log[i].press)
    BY <1>9 DEF OfAction, EventsInv, Mine, Of
  <2> QED BY <1>5, <2>1
<1>10. action.presses = 0 \/ OfAction(action.from, m)
  <2>1. \A n \in Mine : n # 0 /\ strokes[n].action = m
    BY DEF Mine
  <2> QED BY <1>5, <2>1 DEF OfAction
<1>11. \A i : OfAction(i, m)' <=> OfAction(i, m)
  BY DEF OfAction
<1>12. RanOnce(m)'
  <2>1. /\ action.from # 0
        /\ \E k \in action.from + 1..Len(log) :
             /\ {i \in action.from..Len(log) : log[i].command = action.command} = {action.from, k}
             /\ log[action.from].kind = "started" /\ log[k].kind = "completed"
             /\ log[k].press = log[action.from].press /\ log[k].session = log[action.from].session
             /\ action.presses = 0 \/ OfAction(action.from, m)
             /\ \A i \in 1..Len(log) : OfAction(i, m) => i \in {action.from, k}
    BY <1>5, <1>7, <1>8, <1>9, <1>10
  <2> QED BY <1>3, <1>11, <2>1 DEF RanOnce
<1>13. \A n \in Live' : strokes'[n].action # m
  <2>1. \A n \in Live : n \in 1..Len(strokes)
    BY JobsAreOfPresses
  <2> QED BY <1>6, <2>1 DEF Mine
<1> QED BY <1>12, <1>13

\* Nothing comes to life but a press.
LEMMA NoneRevives ==
  ASSUME TypeOK, TypeInv, JobsInv, [ActionNext]_allVars, UNCHANGED strokes
  PROVE  Live' \subseteq Live
<1>1. JobsInv' /\ TypeOK'
  BY JobsStep, TypesStep
<1>2. Live' \subseteq 1..Len(strokes')
  BY <1>1 DEF Live, Queued, Taken, Calling, JobsInv, JobIsOf, TypeOK
<1>3. Len(strokes) + 1 \notin 1..Len(strokes)
  BY DEF TypeInv, HistoryTypes
<1> QED BY <1>2, <1>3, LiveSteps

\* What a clean action has run stays, and the next one adds its own run.
LEMMA CleanStep ==
  ASSUME TypeOK, TypeInv, RequestInv, JobsInv, EventsInv, MineInv, CleanInv, TailInv,
         [ActionNext]_allVars
  PROVE  CleanInv'
<1>0. /\ Len(log) \in Nat /\ Len(log') \in Nat /\ Len(log) <= Len(log') /\ action \in Tasks
      /\ Len(answered) \in Nat /\ Len(answered') \in Nat /\ answered \in Seq(Replies)
      /\ \A m \in 1..Len(answered) : answered'[m] = answered[m]
  BY LogGrows, AnswersGrow DEF TypeInv, ActionTypes, HistoryTypes
<1>1. ASSUME NEW m \in 1..Len(answered)
      PROVE  /\ answered'[m].to <= Len(log')
             /\ action'.at # "idle" => answered'[m].to <= action'.before
             /\ Clean(m)' => RanOnce(m)' /\ \A n \in Live' : strokes'[n].action # m
  <2>1. /\ answered[m].to \in Nat /\ answered'[m] = answered[m] /\ answered[m].to <= Len(log)
        /\ action.at # "idle" => answered[m].to <= action.before
    <3>1. answered[m] \in Replies
      BY <1>0
    <3> QED BY <1>0, <3>1 DEF Replies, CleanInv
  <2>2. answered'[m].to <= Len(log')
    BY <1>0, <2>1
  <2>3. action'.at # "idle" => answered'[m].to <= action'.before
    <3>1. CASE Continues
      BY <2>1, <3>1 DEF Continues
    <3>2. CASE BeginAction
      BY <2>1, <3>2 DEF BeginAction, NoAction, Cursor
    <3>3. CASE PressGesture
      BY <1>0, <2>1, <3>3 DEF PressGesture, Tasks
    <3>4. ASSUME NEW ok, Reply(ok) PROVE action'.at = "idle"
      BY <3>4 DEF Reply, NoAction
    <3> QED BY <3>1, <3>2, <3>3, <3>4, RequestMoves
  <2>4. ASSUME Clean(m)' PROVE RanOnce(m)' /\ \A n \in Live' : strokes'[n].action # m
    <3>1. Clean(m)
      BY <2>4, CleanBefore
    <3>2. RanOnce(m) /\ \A n \in Live : strokes[n].action # m
      BY <3>1 DEF CleanInv
    <3> QED BY <2>1, <3>2, RanOnceKept
  <2> QED BY <2>2, <2>3, <2>4
<1>2. ASSUME NEW m \in Len(answered) + 1..Len(answered')
      PROVE  /\ answered'[m].to <= Len(log') /\ action'.at = "idle"
             /\ Clean(m)' => RanOnce(m)' /\ \A n \in Live' : strokes'[n].action # m
  <2>1. PICK ok \in BOOLEAN : /\ Reply(ok) /\ (ok => action.at = "tail")
                              /\ UNCHANGED <<log, strokes, session>>
    BY <1>0, <1>2, RequestMoves DEF Continues, BeginAction, PressGesture
  <2>2. action'.at = "idle"
    BY <2>1 DEF Reply, NoAction
  <2>3. \E a : /\ answered' = Append(answered, a) /\ (a.to = 0 \/ a.to = Len(log))
    BY <2>1 DEF Reply
  <2>4. m = Current /\ answered'[m].to <= Len(log')
    <3>1. PICK a : answered' = Append(answered, a) /\ (a.to = 0 \/ a.to = Len(log))
      BY <2>3
    <3>2. Len(answered') = Len(answered) + 1 /\ answered'[Len(answered) + 1] = a
      BY <1>0, <3>1
    <3>3. m = Len(answered) + 1
      BY <1>0, <1>2, <3>2
    <3> QED BY <1>0, <3>1, <3>2, <3>3 DEF Current
  <2>5. Live' \subseteq Live
    BY <2>1, NoneRevives
  <2> QED BY <2>1, <2>2, <2>4, <2>5, AnswerIsClean
<1>3. \A m \in 1..Len(answered') : m \in 1..Len(answered) \/ m \in Len(answered) + 1..Len(answered')
  BY <1>0
<1> QED BY <1>1, <1>2, <1>3 DEF CleanInv

\* A start and its end are what is answered, if the end is no failure.
LEMMA FromPair ==
  ASSUME TypeInv, NEW i \in Behind, NEW j \in Behind, Behind = {i, j}, i < j,
         Starting(i), log[j].kind \in Ends, log[i].session = session, log[j].session = session,
         Found({"failed"}) = {}
  PROVE  Max({0} \cup Found({"started"})) = i /\ log[j].kind = "completed"
<1>1. /\ i \in action.before + 1..Len(log) /\ j \in action.before + 1..Len(log)
      /\ Len(log) \in Nat /\ action.before \in Nat
  BY DEF Behind, TypeInv, ActionTypes, HistoryTypes, Tasks
<1>2. log[i].command = action.command /\ log[j].command = action.command
  BY DEF Behind
<1>3. log[j].kind = "completed"
  BY <1>1, <1>2 DEF Found, Ends
<1>4. Found({"started"}) = {i}
  <2>1. Found({"started"}) \subseteq Behind
    BY DEF Found, Behind
  <2>2. i \in Found({"started"}) /\ j \notin Found({"started"})
    BY <1>1, <1>2, <1>3 DEF Found, Starting
  <2> QED BY <2>1, <2>2
<1> DEFINE T == {0} \cup Found({"started"})
<1>5. T = {0, i} /\ i \in Nat /\ i > 0 /\ T \in SUBSET (0..i) /\ T # {}
  BY <1>1, <1>4
<1> HIDE DEF T
<1>6. Max(T) \in T /\ \A y \in T : y <= Max(T)
  BY <1>5, MaxIsMember
<1>7. Max(T) = i
  BY <1>5, <1>6
<1> QED BY <1>3, <1>7 DEF T

\* The run of a request that has pressed once.
LEMMA PressedPair ==
  ASSUME TypeOK, TypeInv, RequestInv, JobsInv, EventsInv, RunsInv, MineInv, CleanInv, CleanSoFar,
         action.at = "settle", action.presses = 1, Found(Ends) # {}
  PROVE  /\ \E i, j \in Behind :
              /\ Behind = {i, j} /\ i < j /\ Starting(i) /\ log[j].kind \in Ends
              /\ log[i].session = session /\ log[j].session = session
              /\ log[j].press = log[i].press /\ log[i].press \in Mine
              /\ \A n \in Mine : Of(n) \subseteq {i, j}
         /\ Mine \cap Live = {}
<1>0. Len(log) \in Nat /\ action.before \in Nat
  BY DEF TypeInv, ActionTypes, HistoryTypes, Tasks
<1>1. PICK j \in Behind : log[j].kind \in Ends /\ log[j].session = session
  BY DEF Found, Behind
<1>2. \A i \in Behind : i \in 1..Len(log) /\ log[i].command = action.command /\ log[i].press \in Mine
  <2>1. action.command \notin Structured
    BY DEF RequestInv
  <2>2. \A i \in Behind : i \in 1..Len(log) /\ log[i].command = action.command
    BY <1>0 DEF Behind
  <2>3. \A i \in Behind : log[i].press # 0
    BY <2>1, <2>2 DEF EventsInv
  <2> QED BY <2>2, <2>3, CleanEvents
<1> DEFINE n == log[j].press
<1>3. Mine = {n} /\ n \in 1..Len(strokes) /\ j \in Of(n) /\ strokes[n].command = action.command
  <2>1. n \in Mine /\ \A k \in Mine : k = n
    BY <1>1, <1>2 DEF MineInv
  <2>2. n # 0 /\ n \in 1..Len(strokes) /\ j \in Of(n)
    BY <1>1, <1>2, <2>1 DEF Mine, Of
  <2>3. strokes[n].command = action.command
    BY <1>1, <1>2, <2>2 DEF EventsInv
  <2> QED BY <2>1, <2>2, <2>3
<1>4. PairOf(n) /\ ~Starting(j)
  BY <1>1, <1>3 DEF RunsInv, Starting, Ends
<1>5. PICK i \in Of(n) : i < j /\ Starting(i) /\ log[i].session = log[j].session
  BY <1>3, <1>4 DEF PairOf
<1>6. n \notin Live
  BY <1>3, <1>4 DEF PairOf
<1>7. Of(n) = {i, j}
  BY <1>3, <1>4, <1>5 DEF PairOf
<1>8. i \in Behind /\ log[i].press = n
  <2>1. i > action.before /\ i \in 1..Len(log) /\ log[i].press = n
    BY <1>3, <1>5 DEF MineInv, Of
  <2>2. log[i].command = action.command
    BY <1>3, <2>1 DEF EventsInv
  <2> QED BY <1>0, <2>1, <2>2 DEF Behind
<1>9. Behind = {i, j}
  <2>1. \A k \in Behind : k \in Of(n)
    BY <1>2, <1>3 DEF Of
  <2> QED BY <1>1, <1>7, <1>8, <2>1
<1> QED BY <1>1, <1>3, <1>5, <1>6, <1>7, <1>8, <1>9

\* While the tail is awaited nothing happens for a command that nothing else runs for.
LEMMA TailKept ==
  ASSUME TypeOK, TypeInv, RequestInv, JobsInv, EventsInv, MineInv, CleanInv, TailInv,
         [ActionNext]_allVars, UNCHANGED action, action.at = "tail"
  PROVE  TailInv'
<1> DEFINE L == Len(log)
<1>0. /\ L \in Nat /\ action \in Tasks /\ answered \in Seq(Replies) /\ Len(answered) \in Nat
      /\ Len(log') \in Nat /\ L <= Len(log') /\ \A i \in 1..L : log'[i] = log[i]
  BY LogGrows DEF TypeInv, ActionTypes, HistoryTypes
<1>1. UNCHANGED strokes
  <2>1. ~Typing
    BY DEF Typing, Hold, Key, EndKey, ReleaseLast, TypeInv, TypesForAction
  <2> QED BY <2>1, OnlyTypingPresses
<1>2. UNCHANGED answered
  <2>1. ASSUME NEW ok, Reply(ok) PROVE FALSE
    BY <2>1 DEF Reply, NoAction
  <2> QED BY <2>1, RequestMoves DEF Continues, BeginAction, PressGesture
<1>3. Current' = Current /\ Mine' = Mine /\ CleanSoFar' = CleanSoFar
  BY <1>1, <1>2 DEF Current, Mine, CleanSoFar
<1>4. CASE action.presses <= 1 /\ CleanSoFar
  <2>1. PICK j \in Behind :
          /\ Behind = {action.from, j} /\ action.from < j
          /\ log[action.from].kind = "started" /\ log[j].kind = "completed"
          /\ log[j].press = log[action.from].press /\ log[j].session = log[action.from].session
          /\ action.presses = 0 \/ log[action.from].press \in Mine
          /\ \A n \in Mine : Of(n) \subseteq {action.from, j}
    BY <1>4 DEF TailInv
  <2>2. Mine \cap Live = {} /\ Live' \subseteq Live
    BY <1>1, <1>4, NoneRevives DEF TailInv
  <2>3. \A i \in L + 1..Len(log') :
          /\ log'[i].command # action.command /\ log'[i].press \notin Mine
    <3>1. 0 \notin Mine
      BY DEF Mine
    <3>2. ~DirectStarts /\ ~DirectSettles
      BY DEF DirectStarts, DirectSettles
    <3>3. ASSUME NEW i \in L + 1..Len(log')
          PROVE  log'[i].press \in Live /\ log'[i].command = strokes[log'[i].press].command
      BY <3>2, NewEvents
    <3> QED BY <1>4, <2>2, <3>1, <3>3, CleanLive
  <2>4. Behind' = Behind /\ action.from \in Behind /\ \A i \in Behind : log'[i] = log[i]
    BY <2>1, <2>3, BehindGrows
  <2>5. \A n \in Mine : Of(n)' = Of(n)
    <3>1. \A n \in Mine : \A i \in 1..Len(log') : log'[i].press = n => i \in 1..L
      BY <1>0, <2>3
    <3> QED BY <1>0, <3>1 DEF Of
  <2>6. \E k \in Behind' :
          /\ Behind' = {action.from, k} /\ action.from < k
          /\ log'[action.from].kind = "started" /\ log'[k].kind = "completed"
          /\ log'[k].press = log'[action.from].press /\ log'[k].session = log'[action.from].session
          /\ action.presses = 0 \/ log'[action.from].press \in Mine
          /\ \A n \in Mine : Of(n)' \subseteq {action.from, k}
    BY <2>1, <2>4, <2>5
  <2>7. Mine \cap Live' = {}
    BY <2>2
  <2> QED BY <1>3, <2>6, <2>7 DEF TailInv
<1>5. CASE ~(action.presses <= 1 /\ CleanSoFar)
  BY <1>3, <1>5 DEF TailInv
<1> QED BY <1>4, <1>5

\* The tail is awaited of a run that has completed.
LEMMA TailBegins ==
  ASSUME TypeOK, TypeInv, RequestInv, JobsInv, EventsInv, RunsInv, MineInv, CleanInv, DirectInv,
         Settled, action'.at = "tail"
  PROVE  TailInv'
<1>0. action \in Tasks
  BY DEF TypeInv, ActionTypes
<1>1. /\ action.at = "settle" /\ Found(Ends) # {} /\ Found({"failed"}) = {}
      /\ action' = [action EXCEPT !.at = "tail", !.from = Max({0} \cup Found({"started"}))]
      /\ UNCHANGED <<answered, log, strokes>>
  BY DEF Settled, Ends, Reply, NoAction
<1>2. /\ action'.from = Max({0} \cup Found({"started"})) /\ action'.presses = action.presses
      /\ action'.command = action.command /\ action'.before = action.before
  BY <1>0, <1>1 DEF Tasks
<1>3. /\ Mine' = Mine /\ CleanSoFar' = CleanSoFar /\ Behind' = Behind
      /\ \A n : Of(n)' = Of(n)
  BY <1>1, <1>2 DEF Mine, Current, CleanSoFar, Behind, Of
<1>4. Live' = Live
  <2>1. UNCHANGED <<presses, jobs, worker, callback, strokes>>
    BY BystandersLeaveJobs DEF Bystanders
  <2> QED BY <2>1 DEF Live, Queued, Taken, Calling
<1>5. ASSUME action.presses <= 1, CleanSoFar
      PROVE  /\ \E i, j \in Behind :
                  /\ Behind = {i, j} /\ i < j /\ Starting(i) /\ log[j].kind \in Ends
                  /\ log[i].session = session /\ log[j].session = session
                  /\ log[j].press = log[i].press
                  /\ action.presses = 0 \/ log[i].press \in Mine
                  /\ \A n \in Mine : Of(n) \subseteq {i, j}
             /\ Mine \cap Live = {}
  <2>1. CASE action.presses = 0
    <3>1. PICK i, j \in Behind :
             /\ Behind = {i, j} /\ i < j /\ Starting(i) /\ log[j].kind \in Ends
             /\ log[i].session = session /\ log[j].session = session
      BY <1>1, <2>1 DEF DirectInv
    <3>2. action.command \in Structured
      BY <1>1, <2>1 DEF RequestInv
    <3>3. \A k \in Behind : log[k].press = 0
      <4>1. \A k \in Behind : k \in 1..Len(log) /\ log[k].command = action.command
        BY <1>0 DEF Behind, Tasks, TypeInv, HistoryTypes
      <4> QED BY <3>2, <4>1, StructuredAssumption DEF EventsInv
    <3>4. Mine = {}
      BY <2>1 DEF MineInv
    <3> QED BY <2>1, <3>1, <3>3, <3>4
  <2>2. CASE action.presses = 1
    BY <1>1, <1>5, <2>2, PressedPair
  <2>3. action.presses = 0 \/ action.presses = 1
    BY <1>0, <1>5 DEF Tasks
  <2> QED BY <2>1, <2>2, <2>3
<1>6. ASSUME action.presses <= 1, CleanSoFar
      PROVE  /\ \E j \in Behind :
                  /\ Behind = {action'.from, j} /\ action'.from < j
                  /\ log[action'.from].kind = "started" /\ log[j].kind = "completed"
                  /\ log[j].press = log[action'.from].press
                  /\ log[j].session = log[action'.from].session
                  /\ action.presses = 0 \/ log[action'.from].press \in Mine
                  /\ \A n \in Mine : Of(n) \subseteq {action'.from, j}
             /\ Mine \cap Live = {}
  <2>1. PICK i, j \in Behind :
           /\ Behind = {i, j} /\ i < j /\ Starting(i) /\ log[j].kind \in Ends
           /\ log[i].session = session /\ log[j].session = session
           /\ log[j].press = log[i].press
           /\ action.presses = 0 \/ log[i].press \in Mine
           /\ \A n \in Mine : Of(n) \subseteq {i, j}
    BY <1>5, <1>6
  <2>2. action'.from = i /\ log[j].kind = "completed"
    BY <1>1, <1>2, <2>1, FromPair
  <2> QED BY <1>5, <1>6, <2>1, <2>2 DEF Starting
<1> QED BY <1>1, <1>2, <1>3, <1>4, <1>6 DEF TailInv

\* The tail begins at a settled run and keeps it.
LEMMA TailStep ==
  ASSUME TypeOK, TypeInv, RequestInv, JobsInv, EventsInv, RunsInv, MineInv, CleanInv, DirectInv,
         TailInv, [ActionNext]_allVars
  PROVE  TailInv'
<1> SUFFICES ASSUME action'.at = "tail" PROVE TailInv'
  BY DEF TailInv
<1>0. action \in Tasks
  BY DEF TypeInv, ActionTypes
<1>1. CASE Settled
  BY <1>1, TailBegins
<1>2. CASE UNCHANGED action
  BY <1>2, TailKept
<1>3. CASE Typing \/ Starts \/ Settles \/ RunsInCallback \/ ListenerStep \/ OthersFinish \/ UNCHANGED allVars
  <2>1. UNCHANGED action
    BY <1>3 DEF Typing, Starts, Settles, RunsInCallback, ListenerStep, OthersFinish, allVars
  <2> QED BY <1>2, <2>1
<1>4. ASSUME NEW at \in {"acknowledge", "settle", "running"}, Goto(at) PROVE FALSE
  BY <1>0, <1>4 DEF Goto, Tasks
<1>5. ASSUME NEW ok, Reply(ok) PROVE FALSE
  BY <1>5 DEF Reply, NoAction
<1>6. CASE Acknowledged \/ DirectStarts \/ DirectSettles \/ Pressed \/ Answers \/ Fails
  BY <1>4, <1>5, <1>6 DEF Acknowledged, DirectStarts, DirectSettles, Pressed, Answers, Fails
<1>7. CASE BeginAction \/ PressGesture
  BY <1>0, <1>7 DEF BeginAction, PressGesture, NoAction, Tasks
<1> QED BY <1>1, <1>3, <1>6, <1>7 DEF ActionNext

\* The inductive invariant: the presses, the runs that they cause, and what the actions
\* know of them.
ActionInv == PressesInv /\ EventsInv /\ RunsInv /\ MineInv /\ DirectInv /\ CleanInv /\ TailInv

LEMMA ActionInvInit == ActionInit => ActionInv
<1> SUFFICES ASSUME ActionInit PROVE ActionInv
  OBVIOUS
<1>1. PressesInv
  BY PressesInit
<1>2. /\ log = <<>> /\ strokes = <<>> /\ answered = <<>> /\ action = NoAction
      /\ callback.at # "gate" /\ worker.at = "idle" /\ jobs = <<>>
  BY DEF ActionInit, InjectorInit, Init, Idle
<1>3. EventsInv /\ RunsInv
  <2>1. Unrun = {} /\ Calling = {}
    BY <1>2 DEF Unrun, Calling
  <2> QED BY <1>2, <2>1 DEF EventsInv, RunsInv
<1>4. MineInv /\ DirectInv /\ CleanInv /\ TailInv
  <2>1. Mine = {}
    BY <1>2 DEF Mine
  <2> QED BY <1>2, <2>1 DEF MineInv, DirectInv, CleanInv, TailInv, NoAction
<1> QED BY <1>1, <1>3, <1>4 DEF ActionInv

LEMMA ActionInvStep == ActionInv /\ [ActionNext]_allVars => ActionInv'
<1> SUFFICES ASSUME ActionInv, [ActionNext]_allVars PROVE ActionInv'
  OBVIOUS
<1>1. /\ TypeOK /\ TypeInv /\ RequestInv /\ JobsInv /\ EventsInv /\ RunsInv /\ MineInv /\ DirectInv
      /\ CleanInv /\ TailInv
  BY DEF ActionInv, PressesInv
<1>2. PressesInv'
  BY PressesStep DEF ActionInv
<1>3. EventsInv' /\ RunsInv' /\ MineInv' /\ DirectInv'
  BY <1>1, EventsStep, RunsStep, MineStep, DirectStep
<1>4. CleanInv' /\ TailInv'
  BY <1>1, CleanStep, TailStep
<1> QED BY <1>2, <1>3, <1>4 DEF ActionInv

\* An action that is answered at its first press, after none that could have left a job
\* of its command behind, is answered with the one run that it caused and no other, for
\* every script, although a job may wait, run late and end after its session.
THEOREM CleanCorrect == ActionSpec => []CleanActionRunsOnce
<1>1. ActionInv => CleanActionRunsOnce
  BY DEF ActionInv, CleanInv, CleanActionRunsOnce
<1> QED BY <1>1, ActionInvInit, ActionInvStep, PTL DEF ActionSpec
=============================================================================
