------------------------------ MODULE EventLog ------------------------------
(***************************************************************************)
(* What internal/events promises its readers: one append-only log, and     *)
(* calls that each take effect at one instant between invocation and       *)
(* return.  A call that succeeds returns exactly the events that the log   *)
(* then holds behind the caller's cursor for the caller's session; a call  *)
(* that cannot is refused, never answered with part of them.               *)
(***************************************************************************)
EXTENDS Integers, Sequences

CONSTANTS Limit,      \* events the store promises to keep
          Sessions,   \* session identifiers
          NoSession,  \* the empty session: of an event nobody owns, or of a filter that accepts all
          Kinds,      \* kinds of events
          Wanted,     \* the kinds the predicate of WaitFor accepts
          Waiters     \* callers

VARIABLES log,        \* every event ever appended; its index is its sequence number
          busy,       \* the callers whose call has not returned
          request,    \* the last request of each caller
          result      \* the last answer of each caller

vars == <<log, busy, request, result>>

Entry == [session : Sessions \cup {NoSession}, kind : Kinds]
Operations == {"wait", "settle", "waitFor"}
Kept == IF Limit < 1 THEN 1 ELSE Limit

\* Sequence numbers behind cursor `after` that a filter on session s selects.
Selected(after, s) ==
  {i \in DOMAIN log : i > after /\ (s = NoSession \/ log[i].session = s)}

HasWanted(found) == \E i \in found : log[i].kind \in Wanted

Idle == [op |-> "settle", after |-> 0, session |-> NoSession]
NoResult == [outcome |-> "none", found |-> {}, cursor |-> 0]

Init ==
  /\ log = <<>>
  /\ busy = {}
  /\ request = [w \in Waiters |-> Idle]
  /\ result = [w \in Waiters |-> NoResult]

Publish ==
  /\ \E e \in Entry : log' = Append(log, e)
  /\ UNCHANGED <<busy, request, result>>

Ask(w) ==
  /\ w \notin busy
  /\ busy' = busy \cup {w}
  /\ request'[w] \in [op : Operations, after : Nat, session : Sessions \cup {NoSession}]
  /\ request' = [request EXCEPT ![w] = request'[w]]
  /\ result' = [result EXCEPT ![w] = NoResult]
  /\ UNCHANGED log

Answer(w, outcome, found) ==
  /\ w \in busy
  /\ busy' = busy \ {w}
  /\ result' = [result EXCEPT ![w] =
                  [outcome |-> outcome, found |-> found, cursor |-> Len(log)]]
  /\ UNCHANGED <<log, request>>

\* A cursor the log has not reached, or one behind the events still promised.
Refuse(w) ==
  \/ request[w].after > Len(log) /\ Answer(w, "ahead", {})
  \/ request[w].after < Len(log) - Kept /\ Answer(w, "truncated", {})

\* Every other answer is complete at the instant it is given.
Complete(w) ==
  LET found == Selected(request[w].after, request[w].session)
      op == request[w].op
  IN  /\ request[w].after \in (Len(log) - Kept)..Len(log)
      /\ \/ op # "waitFor" /\ Answer(w, "expired", found)
         \/ op = "settle" /\ Answer(w, "quiet", found)
         \/ op = "wait" /\ found # {} /\ Answer(w, "quiet", found)
         \/ op = "waitFor" /\ HasWanted(found) /\ Answer(w, "matched", found)
         \/ op = "waitFor" /\ ~HasWanted(found) /\ Answer(w, "unmatched", found)

Next == Publish \/ \E w \in Waiters : Ask(w) \/ Refuse(w) \/ Complete(w)

Spec == Init /\ [][Next]_vars
=============================================================================
