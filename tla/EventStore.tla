----------------------------- MODULE EventStore -----------------------------
(***************************************************************************)
(* internal/events/events.go: the bounded event store and its waiting      *)
(* readers.  Append and every read hold the store's lock, so each is one   *)
(* step; wait and WaitFor take the lock several times and run a select in  *)
(* between, so each of their lock sections, and the choice of the select,  *)
(* is a step of its own.                                                   *)
(*                                                                         *)
(* The channel `changed`, closed and replaced by each append, is a number: *)
(* a captured channel is closed once the current number is larger.         *)
(***************************************************************************)
EXTENDS Integers, Sequences, FiniteSets

CONSTANTS Limit, Sessions, NoSession, Kinds, Wanted, Waiters,
          MaxAppends    \* bound: appends of one behaviour

ASSUME LimitAssumption == Limit \in Int
ASSUME BoundAssumption == MaxAppends \in Nat
ASSUME SessionAssumption == NoSession \notin Sessions

VARIABLES next,       \* Store.next
          events,     \* Store.events
          changed,    \* Store.changed, numbered
          log,        \* history: every event ever appended
          pc,         \* where each reader is
          request,    \* its arguments
          chan,       \* the channel it captured
          lastCount,  \* wait: lastCount
          timer,      \* wait: quietTimer
          armedAt,    \* history: Store.next when that timer was last armed
          expired,    \* its context is done
          result      \* what its last call returned

storeVars == <<next, events, changed, log>>
readerVars == <<pc, request, chan, lastCount, timer, armedAt, expired, result>>
vars == <<storeVars, readerVars>>

AllSessions == Sessions \cup {NoSession}
Entry == [session : AllSessions, kind : Kinds]
Event == [seq : Nat \ {0}, session : AllSessions, kind : Kinds]
Operations == {"wait", "settle", "waitFor"}

\* NewStore: a limit below one is one.
Capacity == IF Limit < 1 THEN 1 ELSE Limit

Cursor == next - 1

-----------------------------------------------------------------------------
(* Append *)

Retained(s) ==
  IF Len(s) > Capacity THEN SubSeq(s, Len(s) - Capacity + 1, Len(s)) ELSE s

\* Variant for the checks: an append that evicts does not wake the readers.
AppendEventSilently(e) ==
  /\ next <= MaxAppends
  /\ next' = next + 1
  /\ events' = Retained(Append(events, [seq |-> next, session |-> e.session, kind |-> e.kind]))
  /\ changed' = IF Len(events) < Capacity THEN changed + 1 ELSE changed
  /\ log' = Append(log, e)
  /\ UNCHANGED readerVars

AppendEvent(e) ==
  /\ next <= MaxAppends
  /\ next' = next + 1
  /\ events' = Retained(Append(events, [seq |-> next, session |-> e.session, kind |-> e.kind]))
  /\ changed' = changed + 1
  /\ log' = Append(log, e)
  /\ UNCHANGED readerVars

-----------------------------------------------------------------------------
(* Snapshot *)

Ahead(after) == after > Cursor

\* Variant for the checks: the boundary off by one.
TruncatedLate(after) == events # <<>> /\ after + 1 < events[1].seq - 1

Truncated(after) == events # <<>> /\ after < events[1].seq - 1

Visible(after, s) ==
  {i \in DOMAIN events : events[i].seq > after /\ (s = NoSession \/ events[i].session = s)}

Found(w) == {events[i].seq : i \in Visible(request[w].after, request[w].session)}

FoundWanted(w) ==
  \E i \in Visible(request[w].after, request[w].session) : events[i].kind \in Wanted

Count(w) == Cardinality(Visible(request[w].after, request[w].session))

Refused(w) == Ahead(request[w].after) \/ Truncated(request[w].after)

Refusal(w) == IF Ahead(request[w].after) THEN "ahead" ELSE "truncated"

-----------------------------------------------------------------------------
(* wait, Settle and WaitFor *)

Idle == [op |-> "settle", after |-> 0, session |-> NoSession]
NoResult == [outcome |-> "none", found |-> {}, cursor |-> 0]

FirstSequence == 1

Init ==
  /\ next = FirstSequence /\ events = <<>> /\ changed = 0 /\ log = <<>>
  /\ pc = [w \in Waiters |-> "idle"]
  /\ request = [w \in Waiters |-> Idle]
  /\ chan = [w \in Waiters |-> 0]
  /\ lastCount = [w \in Waiters |-> 0]
  /\ timer = [w \in Waiters |-> "nil"]
  /\ armedAt = [w \in Waiters |-> 1]
  /\ expired = [w \in Waiters |-> FALSE]
  /\ result = [w \in Waiters |-> NoResult]

\* Settle arms its timer before it looks; Wait only once it has seen an event.
Call(w) ==
  /\ pc[w] = "idle"
  /\ \E op \in Operations, after \in 0..next, s \in AllSessions :
       /\ request' = [request EXCEPT ![w] = [op |-> op, after |-> after, session |-> s]]
       /\ timer' = [timer EXCEPT ![w] = IF op = "settle" THEN "armed" ELSE "nil"]
  /\ pc' = [pc EXCEPT ![w] = "capture"]
  /\ chan' = [chan EXCEPT ![w] = 0]
  /\ lastCount' = [lastCount EXCEPT ![w] = 0]
  /\ armedAt' = [armedAt EXCEPT ![w] = next]
  /\ expired' = [expired EXCEPT ![w] = FALSE]
  /\ result' = [result EXCEPT ![w] = NoResult]
  /\ UNCHANGED storeVars

CaptureChannel(w) ==
  /\ pc[w] = "capture"
  /\ chan' = [chan EXCEPT ![w] = changed]
  /\ pc' = [pc EXCEPT ![w] = "snapshot"]
  /\ UNCHANGED <<storeVars, request, lastCount, timer, armedAt, expired, result>>

\* Every return; the deferred Stop drops the timer.
Return(w, outcome, found) ==
  /\ pc' = [pc EXCEPT ![w] = "idle"]
  /\ result' = [result EXCEPT ![w] = [outcome |-> outcome, found |-> found, cursor |-> Cursor]]
  /\ chan' = [chan EXCEPT ![w] = 0]
  /\ lastCount' = [lastCount EXCEPT ![w] = 0]
  /\ timer' = [timer EXCEPT ![w] = "nil"]
  /\ armedAt' = [armedAt EXCEPT ![w] = 1]
  /\ expired' = [expired EXCEPT ![w] = FALSE]
  /\ UNCHANGED <<storeVars, request>>

SnapshotFails(w) ==
  /\ pc[w] = "snapshot"
  /\ Refused(w)
  /\ Return(w, Refusal(w), {})

\* WaitFor looks for an event the predicate accepts.
SnapshotMatches(w) ==
  /\ pc[w] = "snapshot" /\ request[w].op = "waitFor"
  /\ ~Refused(w)
  /\ \/ FoundWanted(w) /\ Return(w, "matched", Found(w))
     \/ /\ ~FoundWanted(w)
        /\ pc' = [pc EXCEPT ![w] = "select"]
        /\ UNCHANGED <<storeVars, request, chan, lastCount, timer, armedAt, expired, result>>

\* wait: a new count restarts the quiet window, or opens it the first time.
SnapshotCounts(w) ==
  /\ pc[w] = "snapshot" /\ request[w].op # "waitFor"
  /\ ~Refused(w)
  /\ pc' = [pc EXCEPT ![w] = "select"]
  /\ lastCount' = [lastCount EXCEPT ![w] = Count(w)]
  /\ IF Count(w) # lastCount[w]
       THEN /\ timer' = [timer EXCEPT ![w] = "armed"]
            /\ armedAt' = [armedAt EXCEPT ![w] = next]
       ELSE UNCHANGED <<timer, armedAt>>
  /\ UNCHANGED <<storeVars, request, chan, expired, result>>

\* The runtime sends on the timer's channel, at any time after it was armed.
TimerFires(w) ==
  /\ timer[w] = "armed"
  /\ timer' = [timer EXCEPT ![w] = "fired"]
  /\ UNCHANGED <<storeVars, pc, request, chan, lastCount, armedAt, expired, result>>

\* The caller's context ends.
ContextEnds(w) ==
  /\ pc[w] # "idle" /\ ~expired[w]
  /\ expired' = [expired EXCEPT ![w] = TRUE]
  /\ UNCHANGED <<storeVars, pc, request, chan, lastCount, timer, armedAt, result>>

\* The select: any ready case may be taken.
SelectDone(w) ==
  /\ pc[w] = "select" /\ expired[w]
  /\ pc' = [pc EXCEPT ![w] = "expired"]
  /\ UNCHANGED <<storeVars, request, chan, lastCount, timer, armedAt, expired, result>>

SelectQuiet(w) ==
  /\ pc[w] = "select" /\ timer[w] = "fired"
  /\ pc' = [pc EXCEPT ![w] = "quiet"]
  /\ timer' = [timer EXCEPT ![w] = "drained"]
  /\ UNCHANGED <<storeVars, request, chan, lastCount, armedAt, expired, result>>

SelectChanged(w) ==
  /\ pc[w] = "select" /\ chan[w] < changed
  /\ pc' = [pc EXCEPT ![w] = "capture"]
  /\ UNCHANGED <<storeVars, request, chan, lastCount, timer, armedAt, expired, result>>

\* The last snapshot of a call whose context is done.
AnswerExpired(w) ==
  /\ pc[w] = "expired"
  /\ IF Refused(w) THEN Return(w, Refusal(w), {})
     ELSE Return(w, IF request[w].op # "waitFor" THEN "expired"
                    ELSE IF FoundWanted(w) THEN "matched" ELSE "unmatched",
                 Found(w))

\* Variant for the checks: the window is taken as quiet without a second look.
AnswerQuietUnchecked(w) ==
  /\ pc[w] = "quiet"
  /\ IF Refused(w) THEN Return(w, Refusal(w), {}) ELSE Return(w, "quiet", Found(w))

\* Variant for the checks: the answer is what the timer was armed on.
AnswerQuietCached(w) ==
  /\ pc[w] = "quiet"
  /\ Return(w, "quiet", {i \in Found(w) : i < armedAt[w]})

\* The last snapshot of a quiet window; an append that won the race opens another.
AnswerQuiet(w) ==
  /\ pc[w] = "quiet"
  /\ \/ Refused(w) /\ Return(w, Refusal(w), {})
     \/ ~Refused(w) /\ Count(w) = lastCount[w] /\ Return(w, "quiet", Found(w))
     \/ /\ ~Refused(w) /\ Count(w) # lastCount[w]
        /\ pc' = [pc EXCEPT ![w] = "capture"]
        /\ UNCHANGED <<storeVars, request, chan, lastCount, timer, armedAt, expired, result>>

ReaderStep(w) ==
  \/ CaptureChannel(w) \/ SnapshotFails(w) \/ SnapshotMatches(w) \/ SnapshotCounts(w)
  \/ SelectDone(w) \/ SelectQuiet(w) \/ SelectChanged(w)
  \/ AnswerExpired(w) \/ AnswerQuiet(w)

Next ==
  \/ \E e \in Entry : AppendEvent(e)
  \/ \E w \in Waiters : Call(w) \/ ReaderStep(w) \/ TimerFires(w) \/ ContextEnds(w)

Spec == Init /\ [][Next]_vars

\* Readers are goroutines that keep running and an armed timer fires.  Nothing
\* makes an event arrive, and a context need not end.
FairSpec ==
  Spec /\ \A w \in Waiters : WF_vars(ReaderStep(w)) /\ WF_vars(TimerFires(w))

-----------------------------------------------------------------------------
(* Properties *)

Result == [outcome : {"none", "ahead", "truncated", "expired", "quiet", "matched", "unmatched"},
           found : SUBSET Nat, cursor : Nat]

TypeOK ==
  /\ next \in Nat \ {0} /\ changed \in Nat
  /\ events \in Seq(Event) /\ log \in Seq(Entry)
  /\ pc \in [Waiters -> {"idle", "capture", "snapshot", "select", "expired", "quiet"}]
  /\ request \in [Waiters -> [op : Operations, after : Nat, session : AllSessions]]
  /\ chan \in [Waiters -> Nat] /\ lastCount \in [Waiters -> Nat]
  /\ timer \in [Waiters -> {"nil", "armed", "fired", "drained"}]
  /\ armedAt \in [Waiters -> Nat] /\ expired \in [Waiters -> BOOLEAN]
  /\ result \in [Waiters -> Result]

Smaller(a, b) == IF a < b THEN a ELSE b

\* The ring is the tail of everything appended, under the sequence numbers it
\* was appended with, and no longer than the limit NewStore settled on.
RingIsTail ==
  /\ Len(log) = Cursor
  /\ Len(events) = Smaller(Capacity, Cursor)
  /\ \A i \in DOMAIN events :
       LET seq == Cursor - Len(events) + i
       IN  events[i] = [seq |-> seq, session |-> log[seq].session, kind |-> log[seq].kind]

\* Snapshot never drops an event silently: whatever the cursor and filter, it
\* is refused as truncated exactly when an event behind the cursor has been
\* evicted, and otherwise returns every event ever appended that was asked for.
SnapshotIsExact ==
  \A after \in 0..Cursor, s \in AllSessions :
    /\ Truncated(after) <=> after + Len(events) < Cursor
    /\ ~Truncated(after) =>
         {events[i].seq : i \in Visible(after, s)} =
           {i \in DOMAIN log : i > after /\ (s = NoSession \/ log[i].session = s)}

\* A reader blocked in its select on a channel nobody has closed has already
\* seen everything there is: no append falls between its snapshot and its wait.
NoMissedWakeup ==
  \A w \in Waiters :
    pc[w] = "select" /\ chan[w] = changed /\ ~Refused(w) =>
      IF request[w].op = "waitFor" THEN ~FoundWanted(w) ELSE lastCount[w] = Count(w)

\* A quiet window is honest: a wait that reports quiet returns nothing that was
\* appended after the timer of that window was last armed.
QuietWindowIsHonest ==
  [][\A w \in Waiters : (pc[w] # "idle" /\ result'[w].outcome = "quiet") =>
       \A i \in result'[w].found : i < armedAt[w]]_vars

\* The store implements the log it promises.
Promise == INSTANCE EventLog WITH busy <- {w \in Waiters : pc[w] # "idle"}
ImplementsLog == Promise!Init /\ [][Promise!Next]_(Promise!vars)

\* What a caller waits for is in the log, evicted or not.
Due(w) ==
  LET asked == {i \in DOMAIN log : i > request[w].after
                   /\ (request[w].session = NoSession \/ log[i].session = request[w].session)}
  IN  \/ request[w].op = "settle"
      \/ request[w].op = "wait" /\ asked # {}
      \/ request[w].op = "waitFor" /\ \E i \in asked : log[i].kind \in Wanted

\* Once the source falls silent every reader that has something to report
\* returns, even if its context never ends: no wakeup is lost and no timer is
\* left stopped or drained.
DueReadersReturn ==
  \A w \in Waiters : (pc[w] # "idle" /\ Due(w)) ~> pc[w] = "idle"
=============================================================================
