-------------------------- MODULE EventStoreProofs --------------------------
(***************************************************************************)
(* What holds of the event store for every limit, every number of readers  *)
(* and every number of appends, and that it implements the log it promises. *)
(***************************************************************************)
EXTENDS EventStore, FiniteSetTheorems, SequenceTheorems, TLAPS

\* Keeping the tail of a sequence: its length and its elements.
LEMMA RetainedTail ==
  ASSUME NEW S, NEW s \in Seq(S)
  PROVE  /\ Retained(s) \in Seq(S)
         /\ Len(Retained(s)) = Smaller(Capacity, Len(s))
         /\ \A i \in 1..Len(Retained(s)) :
              Retained(s)[i] = s[Len(s) - Len(Retained(s)) + i]
<1>1. Capacity \in Nat /\ Capacity >= 1
  BY LimitAssumption DEF Capacity
<1>2. CASE Len(s) > Capacity
  <2> DEFINE first == Len(s) - Capacity + 1
  <2>1. Retained(s) = SubSeq(s, first, Len(s))
    BY <1>2 DEF Retained
  <2>2. first \in 1..Len(s)
    BY <1>1, <1>2
  <2>3. /\ SubSeq(s, first, Len(s)) \in Seq(S)
        /\ Len(SubSeq(s, first, Len(s))) = Capacity
        /\ \A i \in 1..Capacity : SubSeq(s, first, Len(s))[i] = s[first + i - 1]
    BY <1>1, <2>2, SubSeqProperties
  <2>4. \A i \in 1..Capacity : first + i - 1 = Len(s) - Capacity + i
    BY <1>1
  <2> QED
    BY <1>1, <1>2, <2>1, <2>3, <2>4 DEF Smaller
<1>3. CASE ~(Len(s) > Capacity)
  <2>1. Retained(s) = s
    BY <1>3 DEF Retained
  <2> QED
    BY <1>1, <1>3, <2>1 DEF Smaller
<1> QED
  BY <1>2, <1>3

\* What a reader counts and returns.
LEMMA CountIsNat ==
  ASSUME TypeOK, NEW w \in Waiters
  PROVE  Count(w) \in Nat /\ Found(w) \in SUBSET Nat
<1> DEFINE V == Visible(request[w].after, request[w].session)
<1>1. V \subseteq 1..Len(events)
  BY DEF Visible, TypeOK
<1>2. IsFiniteSet(1..Len(events))
  BY FS_Interval DEF TypeOK
<1>3. Cardinality(V) \in Nat
  BY <1>1, <1>2, FS_Subset, FS_CardinalityType
<1>4. \A i \in V : events[i].seq \in Nat
  <2>1. \A i \in 1..Len(events) : events[i] \in Event
    BY DEF TypeOK
  <2> QED
    BY <1>1, <2>1 DEF Event
<1> QED
  BY <1>3, <1>4 DEF Count, Found

-----------------------------------------------------------------------------
(* Type correctness *)

LEMMA ReturnTyped ==
  ASSUME TypeOK, NEW w \in Waiters,
         NEW outcome \in {"ahead", "truncated", "expired", "quiet", "matched", "unmatched"},
         NEW found \in SUBSET Nat,
         Return(w, outcome, found)
  PROVE  TypeOK'
<1>1. Cursor \in Nat
  BY DEF TypeOK, Cursor
<1>2. [outcome |-> outcome, found |-> found, cursor |-> Cursor] \in Result
  BY <1>1 DEF Result
<1> QED
  BY <1>2 DEF TypeOK, Return, storeVars

LEMMA AppendTyped ==
  ASSUME TypeOK, NEW e \in Entry, AppendEvent(e)
  PROVE  TypeOK'
<1> DEFINE new == [seq |-> next, session |-> e.session, kind |-> e.kind]
<1>1. new \in Event
  BY DEF TypeOK, Entry, Event
<1>2. Append(events, new) \in Seq(Event)
  BY <1>1 DEF TypeOK
<1>3. events' \in Seq(Event)
  BY <1>2, RetainedTail DEF AppendEvent
<1>4. log' \in Seq(Entry)
  BY DEF AppendEvent, TypeOK
<1> QED
  BY <1>3, <1>4 DEF TypeOK, AppendEvent, readerVars

LEMMA CallTyped ==
  ASSUME TypeOK, NEW w \in Waiters, Call(w)
  PROVE  TypeOK'
<1>1. PICK op \in Operations, after \in 0..next, s \in AllSessions :
        /\ request' = [request EXCEPT ![w] = [op |-> op, after |-> after, session |-> s]]
        /\ timer' = [timer EXCEPT ![w] = IF op = "settle" THEN "armed" ELSE "nil"]
  BY DEF Call
<1>2. after \in Nat
  BY DEF TypeOK
<1>3. request' \in [Waiters -> [op : Operations, after : Nat, session : AllSessions]]
  BY <1>1, <1>2 DEF TypeOK
<1>4. timer' \in [Waiters -> {"nil", "armed", "fired", "drained"}]
  BY <1>1 DEF TypeOK
<1>5. NoResult \in Result
  BY DEF NoResult, Result
<1> QED
  BY <1>3, <1>4, <1>5 DEF TypeOK, Call, storeVars

LEMMA ReaderStepTyped ==
  ASSUME TypeOK, NEW w \in Waiters, ReaderStep(w)
  PROVE  TypeOK'
<1>1. Refusal(w) \in {"ahead", "truncated"}
  BY DEF Refusal
<1>2. Count(w) \in Nat /\ Found(w) \in SUBSET Nat
  BY CountIsNat
<1>3. CASE CaptureChannel(w)
  BY <1>3 DEF TypeOK, CaptureChannel, storeVars
<1>4. CASE SnapshotFails(w)
  BY <1>4, <1>1, ReturnTyped DEF SnapshotFails
<1>5. CASE SnapshotMatches(w)
  <2>1. CASE Return(w, "matched", Found(w))
    BY <2>1, <1>2, ReturnTyped
  <2>2. CASE ~FoundWanted(w)
    BY <1>5, <2>2 DEF SnapshotMatches, TypeOK, storeVars
  <2> QED
    BY <1>5, <2>1, <2>2 DEF SnapshotMatches
<1>6. CASE SnapshotCounts(w)
  <2>1. timer' \in [Waiters -> {"nil", "armed", "fired", "drained"}]
    BY <1>6 DEF TypeOK, SnapshotCounts
  <2>2. armedAt' \in [Waiters -> Nat]
    BY <1>6 DEF TypeOK, SnapshotCounts
  <2>3. lastCount' \in [Waiters -> Nat]
    BY <1>6, <1>2 DEF TypeOK, SnapshotCounts
  <2>4. UNCHANGED <<storeVars, request, chan, expired, result>>
        /\ pc' = [pc EXCEPT ![w] = "select"]
    BY <1>6 DEF SnapshotCounts
  <2> QED
    BY <2>1, <2>2, <2>3, <2>4 DEF TypeOK, storeVars
<1>7. CASE SelectDone(w)
  BY <1>7 DEF TypeOK, SelectDone, storeVars
<1>8. CASE SelectQuiet(w)
  BY <1>8 DEF TypeOK, SelectQuiet, storeVars
<1>9. CASE SelectChanged(w)
  BY <1>9 DEF TypeOK, SelectChanged, storeVars
<1>10. CASE AnswerExpired(w)
  BY <1>10, <1>1, <1>2, ReturnTyped DEF AnswerExpired
<1>11. CASE AnswerQuiet(w)
  <2>1. CASE Return(w, Refusal(w), {}) \/ Return(w, "quiet", Found(w))
    BY <2>1, <1>1, <1>2, ReturnTyped
  <2>2. CASE UNCHANGED <<storeVars, request, chan, lastCount, timer, armedAt, expired, result>>
    BY <1>11, <2>2 DEF AnswerQuiet, TypeOK, storeVars, Return
  <2> QED
    BY <1>11, <2>1, <2>2 DEF AnswerQuiet
<1> QED
  BY <1>3, <1>4, <1>5, <1>6, <1>7, <1>8, <1>9, <1>10, <1>11 DEF ReaderStep

\* Every reachable state is well typed: the variables keep the types the Go
\* declarations of Store and of wait's locals give them.
THEOREM TypeCorrect == Spec => []TypeOK
<1>1. Init => TypeOK
  BY DEF Init, TypeOK, FirstSequence, Idle, NoResult, Result, Operations, AllSessions
<1>2. TypeOK /\ [Next]_vars => TypeOK'
  <2> SUFFICES ASSUME TypeOK, [Next]_vars PROVE TypeOK'
    OBVIOUS
  <2>1. ASSUME NEW e \in Entry, AppendEvent(e) PROVE TypeOK'
    BY <2>1, AppendTyped
  <2>2. ASSUME NEW w \in Waiters, Call(w) PROVE TypeOK'
    BY <2>2, CallTyped
  <2>3. ASSUME NEW w \in Waiters, ReaderStep(w) PROVE TypeOK'
    BY <2>3, ReaderStepTyped
  <2>4. ASSUME NEW w \in Waiters, TimerFires(w) PROVE TypeOK'
    BY <2>4 DEF TypeOK, TimerFires, storeVars
  <2>5. ASSUME NEW w \in Waiters, ContextEnds(w) PROVE TypeOK'
    BY <2>5 DEF TypeOK, ContextEnds, storeVars
  <2>6. CASE UNCHANGED vars
    BY <2>6 DEF vars, storeVars, readerVars, TypeOK
  <2> QED
    BY <2>1, <2>2, <2>3, <2>4, <2>5, <2>6 DEF Next
<1> QED
  BY <1>1, <1>2, PTL DEF Spec

-----------------------------------------------------------------------------
(* The ring *)

LEMMA RingStep ==
  ASSUME TypeOK, RingIsTail, NEW e \in Entry, AppendEvent(e)
  PROVE  RingIsTail'
<1> DEFINE new == [seq |-> next, session |-> e.session, kind |-> e.kind]
           long == Append(events, new)
           seqOf(i) == Cursor' - Len(events') + i
<1>1. /\ next' = next + 1 /\ events' = Retained(long) /\ log' = Append(log, e)
      /\ next \in Nat \ {0} /\ Cursor \in Nat /\ Cursor' = next /\ Cursor = next - 1
  BY DEF AppendEvent, TypeOK, Cursor
<1>2. long \in Seq(Event) /\ Len(long) = Len(events) + 1
  BY DEF TypeOK, Entry, Event
<1>3. Capacity \in Nat /\ Capacity >= 1 /\ Capacity' = Capacity
  BY LimitAssumption DEF Capacity
<1>4. Len(log') = Cursor'
  BY <1>1 DEF RingIsTail, TypeOK
<1>5. /\ Len(events') = Smaller(Capacity, Len(events) + 1)
      /\ \A i \in 1..Len(events') : events'[i] = long[Len(events) + 1 - Len(events') + i]
  <2>1. /\ Len(Retained(long)) = Smaller(Capacity, Len(long))
        /\ \A i \in 1..Len(Retained(long)) :
             Retained(long)[i] = long[Len(long) - Len(Retained(long)) + i]
    BY <1>2, RetainedTail
  <2>2. events' = Retained(long) /\ Len(long) = Len(events) + 1
    BY <1>1, <1>2
  <2> HIDE DEF long
  <2> QED
    BY <2>1, <2>2
<1>6. Len(events) = Smaller(Capacity, Cursor) /\ Len(events) \in Nat
  BY DEF RingIsTail, TypeOK
<1>7. Len(events') = Smaller(Capacity, Cursor') /\ Len(events') \in Nat
  BY <1>1, <1>3, <1>5, <1>6 DEF Smaller
<1>8. ASSUME NEW i \in DOMAIN events'
      PROVE  events'[i] = [seq |-> seqOf(i), session |-> log'[seqOf(i)].session,
                           kind |-> log'[seqOf(i)].kind]
  <2> DEFINE j == Len(events) + 1 - Len(events') + i
  <2>0. events' \in Seq(Event)
    BY <1>1, <1>2, RetainedTail
  <2>1. i \in 1..Len(events')
    BY <1>8, <2>0
  <2>2. j \in 1..(Len(events) + 1) /\ events'[i] = long[j] /\ i \in Int
    <3>1. i \in Int /\ 1 <= i /\ i <= Len(events')
      BY <1>7, <2>1
    <3>2. Len(events') <= Len(events) + 1
      BY <1>3, <1>5, <1>6 DEF Smaller
    <3>3. j \in 1..(Len(events) + 1)
      BY <1>6, <1>7, <3>1, <3>2
    <3>4. events'[i] = long[j]
      BY <1>5, <2>1
    <3> QED
      BY <3>1, <3>3, <3>4
  <2>3. seqOf(i) = Cursor - Len(events) + j
    BY <1>1, <1>6, <1>7, <2>2
  <2>4. CASE j = Len(events) + 1
    <3>1. seqOf(i) = next
      BY <1>1, <1>6, <2>3, <2>4
    <3>2. events'[i] = new
      BY <2>2, <2>4 DEF TypeOK
    <3>3. log'[next] = e
      BY <1>1 DEF RingIsTail, TypeOK
    <3> QED
      BY <3>1, <3>2, <3>3
  <2>5. CASE j # Len(events) + 1
    <3>1. j \in 1..Len(events) /\ long[j] = events[j]
      BY <1>6, <2>2, <2>5 DEF TypeOK
    <3>2. seqOf(i) \in 1..Len(log)
      BY <1>1, <1>6, <2>3, <3>1 DEF RingIsTail, Smaller
    <3>3. log'[seqOf(i)] = log[seqOf(i)]
      BY <1>1, <3>2 DEF TypeOK
    <3>4. events[j] = [seq |-> Cursor - Len(events) + j,
                       session |-> log[Cursor - Len(events) + j].session,
                       kind |-> log[Cursor - Len(events) + j].kind]
      BY <3>1 DEF RingIsTail, TypeOK
    <3> QED
      BY <2>2, <2>3, <3>1, <3>3, <3>4
  <2> QED
    BY <2>4, <2>5
<1> QED
  BY <1>4, <1>7, <1>8 DEF RingIsTail

\* No other step touches the store.
LEMMA ReadersDoNotWrite ==
  ASSUME NEW w \in Waiters, Call(w) \/ ReaderStep(w) \/ TimerFires(w) \/ ContextEnds(w)
  PROVE  UNCHANGED storeVars
  BY DEF Call, ReaderStep, TimerFires, ContextEnds, CaptureChannel, SnapshotFails,
         SnapshotMatches, SnapshotCounts, SelectDone, SelectQuiet, SelectChanged,
         AnswerExpired, AnswerQuiet, Return

RingInv == TypeOK /\ RingIsTail

LEMMA RingInvariant == Spec => []RingInv
<1>1. Init => RingIsTail
  BY LimitAssumption DEF Init, RingIsTail, FirstSequence, Cursor, Smaller, Capacity
<1>2. TypeOK /\ TypeOK' /\ RingIsTail /\ [Next]_vars => RingIsTail'
  <2> SUFFICES ASSUME TypeOK, RingIsTail, [Next]_vars PROVE RingIsTail'
    OBVIOUS
  <2>1. ASSUME NEW e \in Entry, AppendEvent(e) PROVE RingIsTail'
    BY <2>1, RingStep
  <2>2. CASE UNCHANGED storeVars
    BY <2>2 DEF storeVars, RingIsTail, Cursor
  <2>3. CASE UNCHANGED vars
    BY <2>2, <2>3 DEF vars
  <2> QED
    BY <2>1, <2>2, <2>3, ReadersDoNotWrite DEF Next
<1> QED
  BY <1>1, <1>2, TypeCorrect, PTL DEF Spec, RingInv

\* The ring always is the tail of everything appended (Append, events.go:77).
THEOREM RingCorrect == Spec => []RingIsTail
  BY RingInvariant, PTL DEF RingInv

LEMMA SnapshotFromRing ==
  ASSUME TypeOK, RingIsTail
  PROVE  SnapshotIsExact
<1> SUFFICES ASSUME NEW after \in 0..Cursor, NEW s \in AllSessions
             PROVE  /\ Truncated(after) <=> after + Len(events) < Cursor
                    /\ ~Truncated(after) =>
                         {events[i].seq : i \in Visible(after, s)} =
                           {i \in DOMAIN log : i > after /\ (s = NoSession \/ log[i].session = s)}
  BY DEF SnapshotIsExact
<1> DEFINE lost == Cursor - Len(events)
<1>1. /\ Cursor \in Nat /\ Len(events) \in Nat /\ lost \in Nat /\ after \in Nat
      /\ Len(log) = Cursor /\ DOMAIN log = 1..Cursor /\ DOMAIN events = 1..Len(events)
      /\ Len(events) = Smaller(Capacity, Cursor) /\ Capacity \in Nat /\ Capacity >= 1
  <2>1. Capacity \in Nat /\ Capacity >= 1
    BY LimitAssumption DEF Capacity
  <2>2. Cursor \in Nat /\ Len(events) \in Nat /\ DOMAIN events = 1..Len(events)
        /\ DOMAIN log = 1..Len(log)
    BY DEF TypeOK, Cursor
  <2>3. Len(log) = Cursor /\ Len(events) = Smaller(Capacity, Cursor)
    BY DEF RingIsTail
  <2>4. lost \in Nat
    BY <2>1, <2>2, <2>3 DEF Smaller
  <2> QED
    BY <2>1, <2>2, <2>3, <2>4
<1>2. \A i \in 1..Len(events) :
        /\ events[i].seq = lost + i
        /\ events[i].session = log[lost + i].session
  BY <1>1 DEF RingIsTail
<1>3. Truncated(after) <=> after + Len(events) < Cursor
  <2>1. CASE Len(events) = 0
    <3>1. Cursor = 0
      BY <1>1, <2>1 DEF Smaller
    <3>2. events = <<>>
      BY <2>1 DEF TypeOK
    <3> QED
      BY <1>1, <2>1, <3>1, <3>2 DEF Truncated
  <2>2. CASE Len(events) # 0
    <3>1. events # <<>> /\ 1 \in 1..Len(events)
      BY <1>1, <2>2
    <3>2. events[1].seq = lost + 1
      BY <1>2, <3>1
    <3> QED
      BY <1>1, <3>1, <3>2 DEF Truncated
  <2> QED
    BY <2>1, <2>2
<1>4. ASSUME ~Truncated(after)
      PROVE  {events[i].seq : i \in Visible(after, s)} =
               {i \in DOMAIN log : i > after /\ (s = NoSession \/ log[i].session = s)}
  <2>1. after >= lost
    BY <1>1, <1>3, <1>4
  <2>2. ASSUME NEW i \in Visible(after, s)
        PROVE  /\ events[i].seq \in DOMAIN log /\ events[i].seq > after
               /\ s = NoSession \/ log[events[i].seq].session = s
    <3>1. i \in 1..Len(events) /\ events[i].seq > after
          /\ (s = NoSession \/ events[i].session = s)
      BY <1>1, <2>2 DEF Visible
    <3> QED
      BY <1>1, <1>2, <3>1
  <2>3. ASSUME NEW n \in DOMAIN log, n > after, s = NoSession \/ log[n].session = s
        PROVE  \E i \in Visible(after, s) : n = events[i].seq
    <3> DEFINE i == n - lost
    <3>1. i \in 1..Len(events) /\ lost + i = n
      BY SMTT(30), <1>1, <2>1, <2>3
    <3>2. events[i].seq = n /\ events[i].session = log[n].session
      BY <1>2, <3>1
    <3>3. i \in Visible(after, s)
      BY <1>1, <2>3, <3>1, <3>2 DEF Visible
    <3> QED
      BY <3>2, <3>3
  <2> QED
    BY <2>2, <2>3
<1> QED
  BY <1>3, <1>4

\* A snapshot is complete or refused as truncated, whatever the limit, the cursor
\* and the filter (Snapshot, events.go:133).
THEOREM SnapshotExact == Spec => []SnapshotIsExact
<1>1. RingInv => SnapshotIsExact
  BY SnapshotFromRing DEF RingInv
<1> QED
  BY <1>1, RingInvariant, PTL
-----------------------------------------------------------------------------
(* Wakeups *)

\* NoMissedWakeup is inductive once no reader holds a channel from the future.
ChannelsKnown == \A w \in Waiters : chan[w] <= changed

Awake(w) ==
  pc[w] = "select" /\ chan[w] = changed /\ ~Refused(w) =>
    IF request[w].op = "waitFor" THEN ~FoundWanted(w) ELSE lastCount[w] = Count(w)

WakeInv == ChannelsKnown /\ NoMissedWakeup

LEMMA AppendKeepsAwake ==
  ASSUME TypeOK, TypeOK', WakeInv, NEW e \in Entry, AppendEvent(e)
  PROVE  WakeInv'
<1>1. \A w \in Waiters : chan'[w] < changed' /\ chan'[w] \in Nat
  BY DEF AppendEvent, readerVars, WakeInv, ChannelsKnown, TypeOK
<1>2. changed' \in Nat
  BY DEF TypeOK
<1>3. ChannelsKnown'
  BY <1>1, <1>2 DEF ChannelsKnown
<1>4. \A w \in Waiters : chan'[w] # changed'
  BY <1>1, <1>2
<1> QED
  BY <1>3, <1>4 DEF WakeInv, NoMissedWakeup

\* The view of a reader is a function of the store and its own state.
LEMMA SameView ==
  ASSUME NEW w \in Waiters, UNCHANGED storeVars, request'[w] = request[w],
         pc'[w] = pc[w], chan'[w] = chan[w], lastCount'[w] = lastCount[w],
         Awake(w)
  PROVE  Awake(w)'
<1>1. Refused(w)' = Refused(w)
  BY DEF storeVars, Refused, Ahead, Truncated, Cursor
<1>2. Count(w)' = Count(w)
  BY DEF storeVars, Count, Visible
<1>3. FoundWanted(w)' = FoundWanted(w)
  BY DEF storeVars, FoundWanted, Visible
<1> QED
  BY <1>1, <1>2, <1>3 DEF Awake, storeVars

\* A reader reaches its select only through a snapshot of the current store.
LEMMA ReaderStaysAwake ==
  ASSUME TypeOK, TypeOK', WakeInv, NEW w \in Waiters,
         Call(w) \/ ReaderStep(w) \/ TimerFires(w) \/ ContextEnds(w)
  PROVE  WakeInv'
<1>1. UNCHANGED storeVars
  BY ReadersDoNotWrite
<1>2. ChannelsKnown'
  <2>1. chan' \in {chan, [chan EXCEPT ![w] = changed], [chan EXCEPT ![w] = 0]}
    BY DEF Call, ReaderStep, TimerFires, ContextEnds, CaptureChannel, SnapshotFails,
       SnapshotMatches, SnapshotCounts, SelectDone, SelectQuiet, SelectChanged,
       AnswerExpired, AnswerQuiet, Return
  <2>2. \A v \in Waiters : chan'[v] \in {chan[v], changed, 0}
    BY <2>1 DEF TypeOK
  <2>3. changed' = changed /\ changed \in Nat /\ \A v \in Waiters : chan[v] <= changed
    BY <1>1 DEF WakeInv, ChannelsKnown, TypeOK, storeVars
  <2>4. \A v \in Waiters : chan'[v] <= changed
    BY <2>2, <2>3
  <2> QED
    BY <2>3, <2>4 DEF ChannelsKnown
<1>3. \A v \in Waiters : Awake(v)
  BY DEF WakeInv, NoMissedWakeup, Awake
<1>4. ASSUME NEW v \in Waiters, v # w PROVE Awake(v)'
  <2>1. request'[v] = request[v] /\ pc'[v] = pc[v] /\ chan'[v] = chan[v]
        /\ lastCount'[v] = lastCount[v]
    BY ZenonT(40), <1>4 DEF TypeOK, Call, ReaderStep, TimerFires, ContextEnds, CaptureChannel,
       SnapshotFails, SnapshotMatches, SnapshotCounts, SelectDone, SelectQuiet,
       SelectChanged, AnswerExpired, AnswerQuiet, Return
  <2> QED
    BY <1>1, <1>3, <2>1, SameView
<1>5. Awake(w)'
  <2>1. CASE TimerFires(w) \/ ContextEnds(w)
    BY <1>1, <1>3, <2>1, SameView DEF TimerFires, ContextEnds
  <2>2. CASE SnapshotCounts(w)
    <3>1. Count(w)' = Count(w)
      BY <1>1, <2>2 DEF SnapshotCounts, storeVars, Count, Visible
    <3>2. lastCount'[w] = Count(w) /\ request'[w].op # "waitFor"
      BY <2>2 DEF SnapshotCounts, TypeOK
    <3> QED
      BY <3>1, <3>2 DEF Awake
  <2>3. CASE SnapshotMatches(w) /\ ~FoundWanted(w)
    <3>1. FoundWanted(w)' = FoundWanted(w)
      BY <1>1, <2>3 DEF SnapshotMatches, Return, storeVars, FoundWanted, Visible
    <3>2. request'[w].op = "waitFor"
      BY <2>3 DEF SnapshotMatches, Return
    <3> QED
      BY <2>3, <3>1, <3>2 DEF Awake
  <2>4. CASE pc'[w] # "select"
    BY <2>4 DEF Awake
  <2> QED
    BY <2>1, <2>2, <2>3, <2>4 DEF TypeOK, Call, ReaderStep, CaptureChannel,
       SnapshotFails, SnapshotMatches, SelectDone, SelectQuiet, SelectChanged,
       AnswerExpired, AnswerQuiet, Return
<1>6. NoMissedWakeup'
  BY <1>4, <1>5 DEF NoMissedWakeup, Awake
<1> QED
  BY <1>2, <1>6 DEF WakeInv

\* No reader ever blocks on a wakeup that has already happened: whatever it has
\* not seen, its captured channel is closed (wait, events.go:178, and WaitFor).
THEOREM WakeupsCorrect == Spec => []NoMissedWakeup
<1>1. Init => WakeInv
  BY DEF Init, WakeInv, ChannelsKnown, NoMissedWakeup
<1>2. TypeOK /\ TypeOK' /\ WakeInv /\ [Next]_vars => WakeInv'
  <2> SUFFICES ASSUME TypeOK, TypeOK', WakeInv, [Next]_vars PROVE WakeInv'
    OBVIOUS
  <2>1. ASSUME NEW e \in Entry, AppendEvent(e) PROVE WakeInv'
    BY <2>1, AppendKeepsAwake
  <2>2. ASSUME NEW w \in Waiters,
               Call(w) \/ ReaderStep(w) \/ TimerFires(w) \/ ContextEnds(w)
        PROVE  WakeInv'
    BY <2>2, ReaderStaysAwake
  <2>3. CASE UNCHANGED vars
    <3>1. ASSUME NEW w \in Waiters PROVE Awake(w)'
      BY <2>3, <3>1, SameView DEF vars, readerVars, WakeInv, NoMissedWakeup, Awake
    <3>2. ChannelsKnown'
      BY <2>3 DEF vars, storeVars, readerVars, WakeInv, ChannelsKnown
    <3> QED
      BY <3>1, <3>2 DEF WakeInv, NoMissedWakeup, Awake
  <2> QED
    BY <2>1, <2>2, <2>3 DEF Next
<1>3. WakeInv => NoMissedWakeup
  BY DEF WakeInv
<1> QED
  BY <1>1, <1>2, <1>3, TypeCorrect, PTL DEF Spec

-----------------------------------------------------------------------------
(* The event store implements the log it promises, and its quiet windows are *)
(* honest.                                                                   *)

\* What a reader asked for, evicted or not.
Asked(w) == Promise!Selected(request[w].after, request[w].session)

\* What of it was there when the reader's timer was last armed.
SeenBefore(w) == {i \in Asked(w) : i < armedAt[w]}

\* A reader's count is that of the events it had seen when it armed its timer, a Wait
\* has a timer only once it has seen one, and a call that runs has no result yet.
Seen(w) ==
  /\ armedAt[w] <= next
  /\ lastCount[w] # 0 => lastCount[w] = Cardinality(SeenBefore(w))
  /\ request[w].op = "wait" /\ timer[w] # "nil" => Asked(w) # {}
  /\ pc[w] = "quiet" => timer[w] # "nil"
  /\ timer[w] # "nil" => request[w].op # "waitFor"
  /\ pc[w] # "idle" => result[w] = NoResult

ReadersHaveSeen == \A w \in Waiters : Seen(w)

RInv == RingInv /\ ReadersHaveSeen

-----------------------------------------------------------------------------
(* What a snapshot shows of the log *)

LEMMA AskedIsFinite ==
  ASSUME TypeOK, NEW w \in Waiters
  PROVE  /\ Asked(w) \subseteq 1..Len(log) /\ IsFiniteSet(Asked(w))
         /\ \A T \in SUBSET Asked(w) : IsFiniteSet(T) /\ Cardinality(T) \in Nat
<1>1. Len(log) \in Nat /\ DOMAIN log = 1..Len(log)
  BY DEF TypeOK
<1>2. Asked(w) \subseteq 1..Len(log)
  BY <1>1 DEF Asked, Promise!Selected
<1>3. IsFiniteSet(1..Len(log))
  BY <1>1, FS_Interval
<1>4. IsFiniteSet(Asked(w))
  BY <1>2, <1>3, FS_Subset
<1> QED
  BY <1>2, <1>4, FS_Subset, FS_CardinalityType

\* A snapshot that is not refused is all of the log that was asked for.
LEMMA SnapshotIsAsked ==
  ASSUME RingInv, NEW w \in Waiters, ~Refused(w)
  PROVE  /\ request[w].after \in (Len(log) - Capacity)..Len(log)
         /\ Found(w) = Asked(w)
         /\ FoundWanted(w) <=> \E i \in Asked(w) : log[i].kind \in Wanted
         /\ Count(w) = Cardinality(Asked(w))
<1> DEFINE after == request[w].after
           s == request[w].session
           V == Visible(after, s)
           seq == [i \in V |-> events[i].seq]
<1>1. after \in Nat /\ s \in AllSessions /\ Cursor \in Nat /\ Len(log) = Cursor
      /\ Len(events) \in Nat /\ Len(events) <= Capacity /\ Capacity \in Nat
  BY LimitAssumption DEF RingInv, TypeOK, RingIsTail, Cursor, Capacity, Smaller
<1>2. after <= Cursor /\ ~Truncated(after)
  BY <1>1 DEF Refused, Ahead
<1>3. SnapshotIsExact
  BY SnapshotFromRing DEF RingInv
<1>4. after \in 0..Cursor
  BY <1>1, <1>2
<1>5. after + Len(events) >= Cursor
  BY <1>1, <1>2, <1>3, <1>4 DEF SnapshotIsExact
<1>6. after \in (Len(log) - Capacity)..Len(log)
  BY <1>1, <1>2, <1>5
<1>7. Found(w) = Asked(w)
  BY <1>1, <1>2, <1>3, <1>4 DEF SnapshotIsExact, Found, Asked, Promise!Selected
<1>8. \A i \in V : /\ i \in 1..Len(events) /\ events[i].seq = Cursor - Len(events) + i
                   /\ events[i].kind = log[events[i].seq].kind
  BY <1>1 DEF Visible, RingInv, RingIsTail, TypeOK
<1>9. Found(w) = {seq[i] : i \in V}
  BY DEF Found
<1>10. FoundWanted(w) <=> \E i \in Asked(w) : log[i].kind \in Wanted
  BY <1>7, <1>8 DEF Found, FoundWanted
<1>11. Count(w) = Cardinality(Asked(w))
  <2>1. IsFiniteSet(V)
    <3>1. V \subseteq 1..Len(events) /\ IsFiniteSet(1..Len(events))
      BY <1>1, <1>8, FS_Interval
    <3> QED
      BY <3>1, FS_Subset
  <2>2. \A i, j \in V : seq[i] = seq[j] => i = j
    BY <1>1, <1>8
  <2>3. seq \in [V -> Asked(w)] /\ \A t \in Asked(w) : \E i \in V : seq[i] = t
    BY <1>7, <1>9
  <2> HIDE DEF seq, V
  <2>4. seq \in Bijection(V, Asked(w))
    BY <2>2, <2>3 DEF Bijection, Injection, Surjection, IsInjective
  <2>5. Cardinality(Asked(w)) = Cardinality(V)
    BY <2>1, <2>4, FS_Bijection DEF ExistsBijection
  <2> QED
    BY <2>5 DEF Count, V
<1> QED
  BY <1>6, <1>7, <1>10, <1>11

-----------------------------------------------------------------------------
(* What readers have seen *)

LEMMA AppendKeepsSeen ==
  ASSUME RInv, NEW e \in Entry, AppendEvent(e)
  PROVE  ReadersHaveSeen'
<1> SUFFICES ASSUME NEW w \in Waiters PROVE Seen(w)'
  BY DEF ReadersHaveSeen
<1>1. Len(log) = next - 1 /\ next \in Nat \ {0} /\ log \in Seq(Entry) /\ armedAt[w] \in Nat
  BY DEF RInv, RingInv, TypeOK, RingIsTail, Cursor
<1>2. /\ DOMAIN log = 1..Len(log) /\ DOMAIN log' = 1..next
      /\ \A i \in DOMAIN log : log'[i] = log[i]
  BY <1>1 DEF AppendEvent
<1>3. next' = next + 1 /\ UNCHANGED readerVars
  BY DEF AppendEvent
<1>4. Seen(w)
  BY DEF RInv, ReadersHaveSeen
<1>5. Asked(w) \subseteq Asked(w)' /\ Asked(w)' \subseteq Asked(w) \cup {next}
  BY <1>1, <1>2, <1>3 DEF Asked, Promise!Selected, readerVars
<1>6. SeenBefore(w)' = SeenBefore(w)
  BY <1>1, <1>2, <1>3, <1>4, <1>5 DEF SeenBefore, Seen, readerVars
<1> QED
  BY <1>1, <1>3, <1>4, <1>5, <1>6 DEF Seen, readerVars

\* A reader that neither counts nor arms its timer has seen what it had.
LEMMA SameSeen ==
  ASSUME NEW w \in Waiters, Seen(w), UNCHANGED <<log, next>>,
         request'[w] = request[w], lastCount'[w] = lastCount[w], armedAt'[w] = armedAt[w],
         timer[w] = "nil" => timer'[w] = "nil", pc'[w] = "quiet" => timer'[w] # "nil",
         result'[w] = result[w], pc'[w] # "idle" => pc[w] # "idle"
  PROVE  Seen(w)'
<1>1. Asked(w)' = Asked(w)
  BY DEF Asked, Promise!Selected
<1>2. SeenBefore(w)' = SeenBefore(w)
  BY <1>1 DEF SeenBefore
<1> QED
  BY <1>1, <1>2 DEF Seen

\* A call that begins, and one that has returned, has seen nothing.
LEMMA NothingSeen ==
  ASSUME NEW w \in Waiters, lastCount'[w] = 0, armedAt'[w] <= next', pc'[w] # "quiet",
         timer'[w] = "nil" \/ request'[w].op = "settle",
         pc'[w] = "idle" \/ result'[w] = NoResult
  PROVE  Seen(w)'
BY DEF Seen

LEMMA ReaderKeepsSeen ==
  ASSUME RInv, NEW w \in Waiters, Call(w) \/ ReaderStep(w) \/ TimerFires(w) \/ ContextEnds(w)
  PROVE  ReadersHaveSeen'
<1> USE DEF RInv, RingInv, ReadersHaveSeen
<1>1. UNCHANGED storeVars
  BY ReadersDoNotWrite
<1>2. UNCHANGED <<log, next>> /\ next \in Nat \ {0}
  BY <1>1 DEF storeVars, TypeOK
<1>3. ASSUME NEW v \in Waiters \ {w} PROVE Seen(v)'
  <2>1. /\ request'[v] = request[v] /\ lastCount'[v] = lastCount[v] /\ armedAt'[v] = armedAt[v]
        /\ timer'[v] = timer[v] /\ pc'[v] = pc[v] /\ result'[v] = result[v]
    BY DEF TypeOK, Call, ReaderStep, TimerFires, ContextEnds, CaptureChannel, SnapshotFails,
           SnapshotMatches, SnapshotCounts, SelectDone, SelectQuiet, SelectChanged,
           AnswerExpired, AnswerQuiet, Return
  <2>2. Seen(v)
    OBVIOUS
  <2> QED
    BY <1>2, <2>1, <2>2, SameSeen DEF Seen
<1>4. Seen(w)
  OBVIOUS
<1>5. Seen(w)'
  <2>1. CASE Call(w)
    <3>1. lastCount'[w] = 0 /\ armedAt'[w] = next /\ pc'[w] = "capture"
          /\ (timer'[w] = "nil" \/ request'[w].op = "settle") /\ result'[w] = NoResult
      BY <2>1 DEF Call, TypeOK
    <3> QED
      BY <1>2, <3>1, NothingSeen
  <2>2. ASSUME NEW outcome, NEW found, Return(w, outcome, found) PROVE Seen(w)'
    <3>1. lastCount'[w] = 0 /\ armedAt'[w] = 1 /\ pc'[w] = "idle" /\ timer'[w] = "nil"
      BY <2>2 DEF Return, TypeOK
    <3> QED
      BY <1>2, <3>1, NothingSeen
  <2>3. CASE SnapshotCounts(w) /\ Count(w) # lastCount[w]
    <3>1. ~Refused(w) /\ lastCount'[w] = Count(w) /\ armedAt'[w] = next /\ pc'[w] = "select"
          /\ request' = request /\ result' = result /\ pc[w] # "idle"
          /\ request[w].op # "waitFor"
      BY <2>3 DEF SnapshotCounts, TypeOK
    <3>2. Asked(w)' = Asked(w)
      BY <1>2, <3>1 DEF Asked, Promise!Selected
    <3>3. Count(w) = Cardinality(Asked(w))
      BY <3>1, SnapshotIsAsked
    <3>4. SeenBefore(w)' = Asked(w)
      <4>1. Asked(w) \subseteq 1..Len(log) /\ Len(log) = next - 1
        BY AskedIsFinite DEF RingIsTail, Cursor
      <4> QED
        BY <1>2, <3>1, <3>2, <4>1 DEF SeenBefore
    <3>5. Asked(w) # {}
      <4>1. CASE Count(w) # 0
        BY <3>3, <4>1, FS_EmptySet
      <4>2. CASE lastCount[w] # 0
        <5>1. SeenBefore(w) # {}
          BY <1>4, <4>2, FS_EmptySet DEF Seen
        <5> QED
          BY <5>1 DEF SeenBefore
      <4> QED
        BY <2>3, <4>1, <4>2
    <3> QED
      BY <1>2, <3>1, <3>2, <3>3, <3>4, <3>5 DEF Seen
  <2>4. CASE SnapshotCounts(w) /\ Count(w) = lastCount[w]
    <3>1. /\ request'[w] = request[w] /\ lastCount'[w] = lastCount[w] /\ armedAt'[w] = armedAt[w]
          /\ timer'[w] = timer[w] /\ pc'[w] = "select" /\ result' = result /\ pc[w] # "idle"
      BY <2>4 DEF SnapshotCounts, TypeOK
    <3> QED
      BY <1>2, <1>4, <3>1, SameSeen
  <2>5. ASSUME pc' = [pc EXCEPT ![w] = "select"] \/ pc' = [pc EXCEPT ![w] = "capture"]
                 \/ pc' = [pc EXCEPT ![w] = "snapshot"] \/ pc' = [pc EXCEPT ![w] = "expired"],
               pc[w] # "idle", UNCHANGED <<request, lastCount, timer, armedAt, result>>
        PROVE  Seen(w)'
    <3>1. pc'[w] # "quiet"
      BY <2>5 DEF TypeOK
    <3> QED
      BY <1>2, <1>4, <2>5, <3>1, SameSeen
  <2>6. CASE SelectQuiet(w) \/ TimerFires(w)
    <3>1. timer[w] # "nil" /\ timer'[w] # "nil" /\ UNCHANGED <<request, lastCount, armedAt, result>>
          /\ (pc'[w] # "idle" => pc[w] # "idle")
      BY <2>6 DEF SelectQuiet, TimerFires, TypeOK
    <3> QED
      BY <1>2, <1>4, <3>1, SameSeen
  <2>7. CASE ContextEnds(w)
    <3>1. UNCHANGED <<request, lastCount, timer, armedAt, pc, result>>
      BY <2>7 DEF ContextEnds
    <3> QED
      BY <1>2, <1>4, <3>1, SameSeen DEF Seen
  <2>8. CASE CaptureChannel(w)
    BY <2>5, <2>8 DEF CaptureChannel
  <2>9. CASE SnapshotFails(w) \/ SnapshotMatches(w) \/ AnswerExpired(w) \/ AnswerQuiet(w)
    BY <2>2, <2>5, <2>9 DEF SnapshotFails, SnapshotMatches, AnswerExpired, AnswerQuiet
  <2>10. CASE SelectDone(w) \/ SelectChanged(w)
    BY <2>5, <2>10 DEF SelectDone, SelectChanged
  <2> QED
    BY <2>1, <2>3, <2>4, <2>6, <2>7, <2>8, <2>9, <2>10 DEF ReaderStep
<1> QED
  BY <1>3, <1>5

LEMMA RInvariant == Spec => []RInv
<1>1. Init => ReadersHaveSeen
  BY DEF Init, ReadersHaveSeen, Seen, Idle, FirstSequence
<1>2. RInv /\ [Next]_vars => ReadersHaveSeen'
  <2> SUFFICES ASSUME RInv, [Next]_vars PROVE ReadersHaveSeen'
    OBVIOUS
  <2>1. CASE UNCHANGED vars
    <3> SUFFICES ASSUME NEW w \in Waiters PROVE Seen(w)'
      BY DEF ReadersHaveSeen
    <3>1. Seen(w)
      BY DEF RInv, ReadersHaveSeen
    <3> QED
      BY <2>1, <3>1, SameSeen DEF Seen, vars, storeVars, readerVars
  <2> QED
    BY <2>1, AppendKeepsSeen, ReaderKeepsSeen DEF Next
<1> QED
  BY <1>1, <1>2, RingInvariant, PTL DEF Spec, RInv

-----------------------------------------------------------------------------
(* The theorems *)

\* The window a reader reports as quiet was quiet: all it returns was there when the
\* timer was armed.
LEMMA QuietWasSeen ==
  ASSUME RInv, NEW w \in Waiters, ~Refused(w), Count(w) = lastCount[w]
  PROVE  \A i \in Found(w) : i < armedAt[w]
<1>1. Found(w) = Asked(w) /\ Count(w) = Cardinality(Asked(w))
  BY SnapshotIsAsked DEF RInv
<1>2. IsFiniteSet(Asked(w)) /\ SeenBefore(w) \in SUBSET Asked(w)
  BY AskedIsFinite DEF RInv, RingInv, SeenBefore
<1>3. CASE lastCount[w] = 0
  BY <1>1, <1>2, <1>3, FS_EmptySet
<1>4. CASE lastCount[w] # 0
  <2>1. Cardinality(Asked(w)) = Cardinality(SeenBefore(w))
    BY <1>1, <1>4 DEF RInv, ReadersHaveSeen, Seen
  <2>2. Asked(w) = SeenBefore(w)
    BY <1>2, <2>1, FS_Subset
  <2> QED
    BY <1>1, <2>2 DEF SeenBefore
<1> QED
  BY <1>3, <1>4

\* wait: "quiet" is reported of a window in which nothing that was asked for was
\* appended, however the timer and the appends race.
THEOREM QuietCorrect == Spec => QuietWindowIsHonest
<1> DEFINE Honest == \A w \in Waiters : (pc[w] # "idle" /\ result'[w].outcome = "quiet") =>
                       \A i \in result'[w].found : i < armedAt[w]
<1>1. RInv /\ [Next]_vars => [Honest]_vars
  <2> SUFFICES ASSUME RInv, Next, NEW w \in Waiters, pc[w] # "idle", result'[w].outcome = "quiet"
               PROVE  \A i \in result'[w].found : i < armedAt[w]
    OBVIOUS
  <2> USE DEF RInv, RingInv
  <2>1. result[w] = NoResult
    BY DEF ReadersHaveSeen, Seen
  <2>2. result' # result
    BY <2>1 DEF NoResult
  <2>3. PICK v \in Waiters : Call(v) \/ ReaderStep(v)
    BY <2>2 DEF Next, AppendEvent, readerVars, TimerFires, ContextEnds
  <2>4. v = w
    <3>1. v # w => result'[w] = result[w]
      BY <2>3 DEF TypeOK, Call, ReaderStep, CaptureChannel, SnapshotFails, SnapshotMatches,
                  SnapshotCounts, SelectDone, SelectQuiet, SelectChanged, AnswerExpired,
                  AnswerQuiet, Return
    <3> QED
      BY <2>1, <3>1 DEF NoResult
  <2>5. ASSUME NEW outcome, NEW found, Return(w, outcome, found)
        PROVE  outcome = "quiet" /\ result'[w].found = found
    BY <2>5 DEF Return, TypeOK
  <2>6. Refusal(w) # "quiet"
    BY DEF Refusal
  <2>7. ~SnapshotFails(w)
    BY <2>5, <2>6 DEF SnapshotFails
  <2>8. ~SnapshotMatches(w)
    BY <2>2, <2>5 DEF SnapshotMatches
  <2>9. ~AnswerExpired(w)
    BY <2>5, <2>6 DEF AnswerExpired
  <2>10. AnswerQuiet(w)
    BY <2>2, <2>3, <2>4, <2>7, <2>8, <2>9 DEF Call, ReaderStep, CaptureChannel, SnapshotCounts,
       SelectDone, SelectQuiet, SelectChanged
  <2>11. ~Refused(w) /\ Count(w) = lastCount[w] /\ Return(w, "quiet", Found(w))
    BY <2>2, <2>5, <2>6, <2>10 DEF AnswerQuiet
  <2>12. result'[w].found = Found(w)
    BY <2>5, <2>11
  <2> QED
    BY <2>11, <2>12, QuietWasSeen
<1> QED
  BY <1>1, RInvariant, PTL DEF Spec, QuietWindowIsHonest

LEMMA InitIsPromised == Init => Promise!Init
BY DEF Init, Promise!Init, Idle, Promise!Idle, NoResult, Promise!NoResult

LEMMA ReturnIsAnswer ==
  ASSUME RInv, NEW w \in Waiters, pc[w] # "idle", NEW outcome, NEW found, Return(w, outcome, found)
  PROVE  Promise!Answer(w, outcome, found)
<1>1. Cursor = Len(log)
  BY DEF RInv, RingInv, RingIsTail
<1>2. {v \in Waiters : pc'[v] # "idle"} = {v \in Waiters : pc[v] # "idle"} \ {w}
  BY DEF Return, RInv, RingInv, TypeOK
<1> QED
  BY <1>1, <1>2 DEF Return, storeVars, Promise!Answer

\* A refusal is one of the log, and an answer that is no refusal is complete.
LEMMA RefusalIsPromised ==
  ASSUME RInv, NEW w \in Waiters, pc[w] # "idle", Refused(w), Return(w, Refusal(w), {})
  PROVE  Promise!Refuse(w)
<1>1. Promise!Answer(w, Refusal(w), {})
  BY ReturnIsAnswer
<1>2. /\ Len(log) = Cursor /\ Cursor \in Nat /\ request[w].after \in Nat
      /\ Len(events) = Smaller(Capacity, Cursor) /\ Capacity \in Nat
  BY LimitAssumption DEF RInv, RingInv, RingIsTail, TypeOK, Cursor, Capacity
<1>3. CASE request[w].after > Cursor
  BY <1>1, <1>2, <1>3 DEF Refusal, Ahead, Promise!Refuse
<1>4. CASE ~(request[w].after > Cursor)
  <2>1. Truncated(request[w].after) /\ request[w].after \in 0..Cursor
    BY <1>2, <1>4 DEF Refused, Ahead
  <2>2. request[w].after + Len(events) < Cursor
    BY <2>1, SnapshotFromRing DEF RInv, RingInv, SnapshotIsExact, AllSessions
  <2>3. request[w].after < Len(log) - Promise!Kept
    BY <1>2, <2>2 DEF Promise!Kept, Capacity, Smaller
  <2> QED
    BY <1>1, <1>4, <2>3 DEF Refusal, Ahead, Promise!Refuse
<1> QED
  BY <1>3, <1>4

LEMMA AnswerIsPromised ==
  ASSUME RInv, NEW w \in Waiters, pc[w] # "idle", ~Refused(w), NEW outcome,
         Return(w, outcome, Found(w)),
         \/ outcome = "expired" /\ request[w].op # "waitFor"
         \/ outcome = "quiet" /\ request[w].op \in {"wait", "settle"} /\ pc[w] = "quiet"
         \/ outcome = "matched" /\ request[w].op = "waitFor" /\ FoundWanted(w)
         \/ outcome = "unmatched" /\ request[w].op = "waitFor" /\ ~FoundWanted(w)
  PROVE  Promise!Complete(w)
<1>1. /\ request[w].after \in (Len(log) - Capacity)..Len(log) /\ Found(w) = Asked(w)
      /\ FoundWanted(w) <=> \E i \in Asked(w) : log[i].kind \in Wanted
  BY SnapshotIsAsked DEF RInv
<1>2. Promise!Answer(w, outcome, Asked(w))
  <2>1. PICK found : found = Asked(w)
    OBVIOUS
  <2>2. Return(w, outcome, found)
    BY <1>1, <2>1 DEF Return
  <2>3. Promise!Answer(w, outcome, found)
    BY <2>2, ReturnIsAnswer
  <2> QED
    BY <2>1, <2>3 DEF Promise!Answer
<1>3. pc[w] = "quiet" /\ request[w].op = "wait" => Asked(w) # {}
  BY DEF RInv, ReadersHaveSeen, Seen
<1>4. Promise!HasWanted(Asked(w)) <=> FoundWanted(w)
  BY <1>1 DEF Promise!HasWanted
<1>5. request[w].after \in (Len(log) - Promise!Kept)..Len(log)
  BY <1>1 DEF Promise!Kept, Capacity
<1> QED
  BY <1>2, <1>3, <1>4, <1>5 DEF Promise!Complete, Asked

\* Append, wait and WaitFor implement an unbounded log whose calls take effect at one
\* instant: each step of the store is a step of the log, or invisible in it.
THEOREM LogImplemented == Spec => ImplementsLog
<1>1. RInv /\ [Next]_vars => [Promise!Next]_(Promise!vars)
  <2> SUFFICES ASSUME RInv, Next PROVE Promise!Next \/ UNCHANGED Promise!vars
    BY DEF vars, storeVars, readerVars, Promise!vars
  <2>1. ASSUME NEW e \in Entry, AppendEvent(e) PROVE Promise!Publish
    BY <2>1 DEF AppendEvent, readerVars, Promise!Publish, Entry, Promise!Entry, AllSessions
  <2>2. ASSUME NEW w \in Waiters, Call(w) PROVE Promise!Ask(w)
    <3>1. {v \in Waiters : pc'[v] # "idle"} = {v \in Waiters : pc[v] # "idle"} \cup {w}
      BY <2>2 DEF Call, RInv, RingInv, TypeOK
    <3>2. PICK op \in Operations, after \in 0..next, s \in AllSessions :
            request' = [request EXCEPT ![w] = [op |-> op, after |-> after, session |-> s]]
      BY <2>2 DEF Call
    <3>3. request'[w] = [op |-> op, after |-> after, session |-> s] /\ after \in Nat
      BY <3>2 DEF RInv, RingInv, TypeOK
    <3>4. request' = [request EXCEPT ![w] = request'[w]]
      BY <3>2, <3>3
    <3>5. request'[w] \in [op : Operations, after : Nat, session : AllSessions]
      BY <3>3
    <3> QED
      BY <2>2, <3>1, <3>4, <3>5 DEF Call, storeVars, Promise!Ask, Operations, Promise!Operations,
         AllSessions, NoResult, Promise!NoResult
  <2>3. ASSUME NEW w \in Waiters, pc[w] # "idle", UNCHANGED <<log, request, result>>,
               NEW label \in {"capture", "snapshot", "select", "expired", "quiet"},
               pc' = [pc EXCEPT ![w] = label]
        PROVE  UNCHANGED Promise!vars
    <3>1. {v \in Waiters : pc'[v] # "idle"} = {v \in Waiters : pc[v] # "idle"}
      BY <2>3 DEF RInv, RingInv, TypeOK
    <3> QED
      BY <2>3, <3>1 DEF Promise!vars
  <2>4. ASSUME NEW w \in Waiters, TimerFires(w) \/ ContextEnds(w) PROVE UNCHANGED Promise!vars
    BY <2>4 DEF TimerFires, ContextEnds, storeVars, Promise!vars
  <2>5. ASSUME NEW w \in Waiters,
               \/ CaptureChannel(w) \/ SnapshotCounts(w) \/ SelectDone(w) \/ SelectQuiet(w)
               \/ SelectChanged(w)
        PROVE  UNCHANGED Promise!vars
    BY <2>3, <2>5 DEF CaptureChannel, SnapshotCounts, SelectDone, SelectQuiet, SelectChanged,
                      storeVars
  <2>6. ASSUME NEW w \in Waiters, SnapshotFails(w)
        PROVE  Promise!Refuse(w)
    BY <2>6, RefusalIsPromised DEF SnapshotFails
  <2>7. ASSUME NEW w \in Waiters, SnapshotMatches(w)
        PROVE  Promise!Complete(w) \/ UNCHANGED Promise!vars
    BY <2>3, <2>7, AnswerIsPromised DEF SnapshotMatches, storeVars
  <2>8. ASSUME NEW w \in Waiters, AnswerExpired(w)
        PROVE  Promise!Refuse(w) \/ Promise!Complete(w)
    BY <2>8, RefusalIsPromised, AnswerIsPromised DEF AnswerExpired
  <2>9. ASSUME NEW w \in Waiters, AnswerQuiet(w)
        PROVE  Promise!Refuse(w) \/ Promise!Complete(w) \/ UNCHANGED Promise!vars
    <3>1. pc[w] = "quiet" /\ request[w].op \in Operations
      BY <2>9 DEF AnswerQuiet, RInv, RingInv, TypeOK
    <3>2. request[w].op \in {"wait", "settle"}
      BY <3>1 DEF RInv, ReadersHaveSeen, Seen, Operations
    <3> QED
      BY <2>3, <2>9, <3>1, <3>2, RefusalIsPromised, AnswerIsPromised DEF AnswerQuiet, storeVars
  <2> QED
    BY <2>1, <2>2, <2>4, <2>5, <2>6, <2>7, <2>8, <2>9 DEF Next, ReaderStep, Promise!Next
<1> QED
  BY <1>1, InitIsPromised, RInvariant, PTL DEF Spec, ImplementsLog
=============================================================================
