-------------------------- MODULE ControlServerProofs --------------------------
(* Theorems about the control server, for any number of sessions, of         *)
(* concurrent requests, of events and of failures.                           *)
EXTENDS ControlServer, SequenceTheorems, FiniteSetTheorems, TLAPS

Exporting == {"settle", "seal", "drain", "snapshot", "write", "document"}
Finishing == Exporting \cup {"mux", "publish", "abandon", "abort", "forget"}
Over == {"release", "expire", "free", "remove"}

\* The finish of a session, and its creation, share two of their steps.
Finishes(r) == req[r].at \in Finishing \/ (At(r, "end") /\ req[r].op = "finish")
Creates(r) ==
  req[r].at \in {"begin", "start", "list"} \/ (At(r, "end") /\ req[r].op = "create")
HasToken(r) == Creates(r) \/ req[r].at \in {"release", "free"}

RequestFits(r) ==
  /\ IF At(r, "idle") THEN Of(r) = NoSession ELSE Of(r) \in Sessions
  /\ At(r, "end") => req[r].op \in {"create", "finish"}
  /\ Creates(r) => req[r].op = "create"
  /\ Finishes(r) => req[r].op = "finish"
  /\ req[r].at \notin {"release", "expire"} => req[r].expired = {}

InfoType ==
  [mu : Requests \cup {Nobody}, finishing : BOOLEAN, prepared : BOOLEAN, cursor : Nat \cup {None}]
RequestType ==
  [op : {"none", "create", "use", "finish"}, session : Sessions \cup {NoSession}, at : Labels,
   taken : Nat, expired : SUBSET Sessions]

ServerTypes ==
  /\ sem \in 0..1 /\ active \subseteq Sessions /\ info \in [Sessions -> InfoType]
  /\ finishedOrder \in Seq(Sessions) /\ Len(finishedOrder) <= FinishedSessionLimit
  /\ results \in [Sessions -> Nat \cup {None}]
EngineTypes ==
  /\ engineSession \in Sessions \cup {NoSession} /\ sealed \in BOOLEAN /\ drained \in BOOLEAN
  /\ published \in [Sessions -> Nat]
RecorderTypes ==
  /\ exported \in [Sessions -> Nat \cup {None}]
  /\ listed \subseteq Sessions /\ dirs \subseteq Sessions /\ dead \subseteq Sessions
  /\ faults \in 0..MaxFaults
Types == req \in [Requests -> RequestType] /\ ServerTypes /\ EngineTypes /\ RecorderTypes

LEMMA TypeParts == TypeOK <=> Types
BY DEF TypeOK, Types, ServerTypes, EngineTypes, RecorderTypes, InfoType, RequestType

Shape == Types /\ \A r \in Requests : RequestFits(r)

\* A session's lock is held by the request that uses or finishes it, while it is active.
LocksAreHeld ==
  \A r \in Requests : /\ At(r, "using") => info[Of(r)].mu = r /\ Of(r) \in active
                                           /\ ~info[Of(r)].finishing
                      /\ Finishes(r) => info[Of(r)].mu = r /\ Of(r) \in active
                                        /\ info[Of(r)].finishing

\* The token belongs to the one active session, or to the one request that makes or
\* releases it.
TokenIsOwned ==
  /\ \A s, t \in active : s = t
  /\ \A r, q \in Requests : HasToken(r) /\ HasToken(q) => r = q
  /\ \A r \in Requests : HasToken(r) => active = {}
  /\ sem = 1 <=> active # {} \/ \E r \in Requests : HasToken(r)

\* A session that is made is new, and known to no other request.
CreatedIsNew ==
  \A r \in Requests : Creates(r) =>
    /\ ~info[Of(r)].finishing
    /\ \A q \in Requests \ {r} : Of(q) # Of(r)
    /\ req[r].at \in {"start", "list"} => engineSession = Of(r) /\ ~sealed
    /\ At(r, "begin") => engineSession = NoSession
    /\ At(r, "list") => Of(r) \in dirs

\* What a request has ended, unlisted or forgotten stays so.
EndedIsGone(r) ==
  /\ req[r].at \in {"abort", "forget", "publish"} => engineSession # Of(r)
  /\ At(r, "forget") \/ At(r, "publish") \/ (At(r, "end") /\ req[r].op = "finish")
       => Of(r) \notin listed
  /\ req[r].at \in Over => Of(r) \notin active

\* The engine's session and the recorder's are active or being made.
EngineIsOwned ==
  /\ engineSession # NoSession => \/ engineSession \in active
                                  \/ \E r \in Requests : Creates(r) /\ Of(r) = engineSession
  /\ \A s \in listed : s \in active \/ \E r \in Requests : At(r, "list") /\ Of(r) = s
  /\ \A s \in active : ~info[s].finishing => engineSession = s /\ ~sealed
  /\ \A r \in Requests : EndedIsGone(r)

\* No event of the session can come any more.
Frozen(s) == engineSession # s \/ drained

\* What a finish has collected at each of its steps is all there is.
EvidenceSoFar(r) ==
  /\ req[r].at \in Exporting => ~info[Of(r)].prepared
  /\ At(r, "drain") => engineSession = Of(r) /\ sealed
  /\ req[r].at \in {"snapshot", "write", "document"} => Frozen(Of(r))
  /\ req[r].at \in {"write", "document"} => req[r].taken = published[Of(r)]
  /\ At(r, "document") => exported[Of(r)] = req[r].taken
  /\ Finishes(r) /\ req[r].at \in {"mux", "end", "publish"} => info[Of(r)].prepared

EvidenceIsWhole(s) ==
  info[s].prepared => /\ info[s].finishing /\ Frozen(s)
                      /\ info[s].cursor = exported[s] /\ exported[s] = published[s]

EvidenceIsTaken ==
  (\A r \in Requests : EvidenceSoFar(r)) /\ (\A s \in Sessions : EvidenceIsWhole(s))

\* The result of a finished session is that of its evidence, which is on disk.
FinishedIsKept ==
  \A s \in Range(finishedOrder) :
    s \in dirs \ active /\ info[s].prepared /\ results[s] = info[s].cursor

\* An expired session is removed by one request, and nothing else knows it.
ExpiredIsOver ==
  \A r \in Requests, s \in Sessions : s \in req[r].expired =>
    /\ s \in dirs \ active /\ s \notin Range(finishedOrder) /\ info[s].finishing
    /\ \A q \in Requests \ {r} : s \notin req[q].expired

\* Nor is an abandoned session finished or expired.
AbandonedIsOver ==
  \A r \in Requests : req[r].at \in {"free", "remove"} =>
    /\ Of(r) \notin Range(finishedOrder) /\ info[Of(r)].finishing
    /\ \A q \in Requests : Of(r) \notin req[q].expired

DirectoriesAreOwned ==
  /\ active \subseteq dirs
  /\ \A s \in dirs : \/ s \in active \cup Range(finishedOrder)
                     \/ \E r \in Requests : \/ s \in req[r].expired
                                            \/ Of(r) = s /\ req[r].at \in {"list", "free", "remove"}

IInv ==
  /\ Shape /\ LocksAreHeld /\ TokenIsOwned /\ CreatedIsNew /\ EngineIsOwned
  /\ EvidenceIsTaken /\ FinishedIsKept /\ ExpiredIsOver /\ AbandonedIsOver /\ DirectoriesAreOwned

-----------------------------------------------------------------------------
(* What a step does to the request that takes it *)

\* A request other than the one that takes the step keeps its place.
OthersStay(r) == req' \in [Requests -> RequestType] /\ \A q \in Requests \ {r} : req'[q] = req[q]

Moves(r, label) ==
  /\ OthersStay(r) /\ req'[r].at = label
  /\ \A f \in {"op", "session", "taken", "expired"} : req'[r][f] = req[r][f]

LEMMA GotoMoves ==
  ASSUME Shape, NEW r \in Requests, NEW label \in Labels, Goto(r, label)
  PROVE  Moves(r, label)
BY DEF Shape, Types, Goto, RequestType, OthersStay, Moves

Leaves(r) == OthersStay(r) /\ req'[r] = NoRequest

LEMMA LeavesType ==
  ASSUME Shape, NEW r \in Requests, req' = [req EXCEPT ![r] = NoRequest]
  PROVE  Leaves(r)
<1>1. NoRequest \in RequestType
  BY DEF NoRequest, RequestType, Labels
<1> QED
  BY <1>1 DEF Shape, Types, OthersStay, Leaves

\* The flags and the cursor of the sessions stay.
FlagsStay ==
  /\ info' \in [Sessions -> InfoType]
  /\ \A s \in Sessions : /\ info'[s].finishing = info[s].finishing
                         /\ info'[s].prepared = info[s].prepared
                         /\ info'[s].cursor = info[s].cursor

Unlocks(r) ==
  /\ FlagsStay
  /\ \A s \in Sessions : info'[s].mu = IF info[s].mu = r THEN Nobody ELSE info[s].mu

LEMMA ReturnLeaves ==
  ASSUME Shape, NEW r \in Requests, Return(r)
  PROVE  Leaves(r) /\ Unlocks(r)
<1>1. \A s \in Sessions : info[s] \in InfoType
  BY DEF Shape, Types, ServerTypes
<1>2. info' \in [Sessions -> InfoType]
  BY <1>1 DEF Return, InfoType
<1> QED
  BY <1>1, <1>2, LeavesType DEF Return, InfoType, Unlocks, FlagsStay

LEMMA ShapeMoves ==
  ASSUME Shape, NEW r \in Requests, OthersStay(r), RequestFits(r)',
         ServerTypes', EngineTypes', RecorderTypes'
  PROVE  Shape'
<1>1. \A q \in Requests \ {r} : RequestFits(q)'
  BY DEF Shape, OthersStay, RequestFits, Creates, Finishes, At, Of
<1> QED
  BY <1>1 DEF Shape, Types, OthersStay

\* The engine has no session while the token is with a creation.
LEMMA BeginSessionKeeps ==
  ASSUME IInv, NEW r \in Requests, BeginSession(r)
  PROVE  IInv'
<1> USE DEF IInv, Moves, Leaves, OthersStay, At, Of, Creates, Finishes, HasToken, Finishing,
            Exporting, Over
<1>1. At(r, "begin") /\ Moves(r, "start")
  BY GotoMoves DEF BeginSession, Labels, CreatedIsNew
<1>2. UNCHANGED <<sem, active, info, finishedOrder, results, published, listed, dirs, exported,
                  dead, faults>>
  BY DEF BeginSession, serverVars, engineVars, recorderVars
<1>3. engineSession' = Of(r) /\ sealed' = FALSE /\ drained' = FALSE
  BY DEF BeginSession, CreatedIsNew
<1>4. Shape'
  <2>1. RequestFits(r)'
    BY <1>1, <1>2, <1>3 DEF Shape, RequestFits
  <2>2. ServerTypes'
    BY <1>1, <1>2, <1>3 DEF Shape, Types, ServerTypes
  <2>3. EngineTypes'
    BY <1>1, <1>2, <1>3 DEF Shape, Types, EngineTypes, RequestFits
  <2>4. RecorderTypes'
    BY <1>1, <1>2, <1>3 DEF Shape, Types, RecorderTypes
  <2> QED
    BY <1>1, <2>1, <2>2, <2>3, <2>4, ShapeMoves
<1>5. LocksAreHeld' /\ TokenIsOwned' /\ FinishedIsKept' /\ ExpiredIsOver'
      /\ AbandonedIsOver' /\ DirectoriesAreOwned'
  BY <1>1, <1>2, <1>3 DEF LocksAreHeld, TokenIsOwned, FinishedIsKept, ExpiredIsOver,
     AbandonedIsOver, DirectoriesAreOwned
<1>6. CreatedIsNew'
  BY <1>1, <1>2, <1>3 DEF CreatedIsNew, TokenIsOwned
<1>7. EngineIsOwned'
  BY <1>1, <1>2, <1>3 DEF EngineIsOwned, EndedIsGone, TokenIsOwned, CreatedIsNew
<1>8. EvidenceIsTaken'
  BY <1>1, <1>2, <1>3, NameAssumption DEF EvidenceIsTaken, EvidenceSoFar, EvidenceIsWhole,
     Frozen, CreatedIsNew, Shape, RequestFits
<1> QED
  BY <1>4, <1>5, <1>6, <1>7, <1>8

\* A recording starts for the session that was just begun.
LEMMA StartRecordingKeeps ==
  ASSUME IInv, NEW r \in Requests, StartRecording(r)
  PROVE  IInv'
<1> USE DEF IInv, Moves, Leaves, OthersStay, At, Of, Creates, Finishes, HasToken, Finishing,
            Exporting, Over
<1>1. At(r, "start") /\ Moves(r, "list")
  BY GotoMoves DEF StartRecording, Labels
<1>2. UNCHANGED <<sem, active, info, finishedOrder, results, engineSession, sealed, drained,
                  published, exported, dead, faults>>
  BY DEF StartRecording, serverVars, engineVars, recorderVars
<1>3. listed' = listed \cup {Of(r)} /\ dirs' = dirs \cup {Of(r)}
  BY DEF StartRecording
<1>4. Shape'
  <2>1. RequestFits(r)'
    BY <1>1, <1>2, <1>3 DEF Shape, RequestFits
  <2>2. ServerTypes'
    BY <1>1, <1>2, <1>3 DEF Shape, Types, ServerTypes
  <2>3. EngineTypes'
    BY <1>1, <1>2, <1>3 DEF Shape, Types, EngineTypes
  <2>4. RecorderTypes'
    BY <1>1, <1>2, <1>3 DEF Shape, Types, RecorderTypes, RequestFits
  <2> QED
    BY <1>1, <2>1, <2>2, <2>3, <2>4, ShapeMoves
<1>5. LocksAreHeld' /\ TokenIsOwned' /\ CreatedIsNew' /\ EvidenceIsTaken'
      /\ FinishedIsKept' /\ ExpiredIsOver' /\ AbandonedIsOver' /\ DirectoriesAreOwned'
  BY <1>1, <1>2, <1>3 DEF LocksAreHeld, TokenIsOwned, CreatedIsNew, EvidenceIsTaken,
     EvidenceSoFar, EvidenceIsWhole, Frozen, FinishedIsKept, ExpiredIsOver, AbandonedIsOver,
     DirectoriesAreOwned
<1>6. EngineIsOwned'
  BY <1>1, <1>2, <1>3 DEF EngineIsOwned, EndedIsGone, CreatedIsNew
<1> QED
  BY <1>4, <1>5, <1>6

\* A creation whose recording does not start has yet to end its session.
LEMMA StartRecordingFailsKeeps ==
  ASSUME IInv, NEW r \in Requests, StartRecordingFails(r)
  PROVE  IInv'
<1> USE DEF IInv, Moves, Leaves, OthersStay, At, Of, Creates, Finishes, HasToken, Finishing,
            Exporting, Over
<1>1. At(r, "start") /\ Moves(r, "end")
  BY GotoMoves DEF StartRecordingFails, Labels
<1>2. UNCHANGED <<sem, active, info, finishedOrder, results, engineSession, sealed, drained,
                  published, listed, dirs, exported, dead>>
  BY DEF StartRecordingFails, serverVars, engineVars, recorderVars
<1>3. faults' \in 0..MaxFaults
  BY BoundAssumption DEF StartRecordingFails, Fault, Shape, Types, RecorderTypes
<1>4. Shape'
  <2>1. RequestFits(r)'
    BY <1>1, <1>2, <1>3 DEF Shape, RequestFits
  <2>2. ServerTypes'
    BY <1>1, <1>2, <1>3 DEF Shape, Types, ServerTypes
  <2>3. EngineTypes'
    BY <1>1, <1>2, <1>3 DEF Shape, Types, EngineTypes
  <2>4. RecorderTypes'
    BY <1>1, <1>2, <1>3 DEF Shape, Types, RecorderTypes
  <2> QED
    BY <1>1, <2>1, <2>2, <2>3, <2>4, ShapeMoves
<1>5. CreatedIsNew' /\ FinishedIsKept' /\ ExpiredIsOver' /\ AbandonedIsOver'
      /\ DirectoriesAreOwned'
  BY <1>1, <1>2, <1>3 DEF CreatedIsNew, FinishedIsKept, ExpiredIsOver, AbandonedIsOver,
     DirectoriesAreOwned
<1>6. LocksAreHeld'
  BY <1>1, <1>2, <1>3 DEF LocksAreHeld, Shape, RequestFits
<1>7. TokenIsOwned'
  BY <1>1, <1>2, <1>3 DEF TokenIsOwned, Shape, RequestFits
<1>8. EngineIsOwned'
  BY <1>1, <1>2, <1>3 DEF EngineIsOwned, EndedIsGone, Shape, RequestFits
<1>9. EvidenceIsTaken'
  BY <1>1, <1>2, <1>3 DEF EvidenceIsTaken, EvidenceSoFar, EvidenceIsWhole, Frozen, Shape,
     RequestFits
<1> QED
  BY <1>4, <1>5, <1>6, <1>7, <1>8, <1>9

\* The token passes from the creation to the session it made.
LEMMA ListKeeps ==
  ASSUME IInv, NEW r \in Requests, List(r)
  PROVE  IInv'
<1> USE DEF IInv, Moves, Leaves, OthersStay, At, Of, Creates, Finishes, HasToken, Finishing,
            Exporting, Over
<1>1. At(r, "list") /\ Leaves(r)
  BY LeavesType, ReturnLeaves DEF List
<1>2. UNCHANGED <<sem, info, finishedOrder, results, engineSession, sealed, drained, published,
                  listed, dirs, exported, dead, faults>>
  BY DEF List, serverVars, engineVars, recorderVars
<1>3. active' = active \cup {Of(r)}
  BY DEF List
<1>4. Shape'
  <2>1. RequestFits(r)'
    BY <1>1, <1>2, <1>3 DEF Shape, RequestFits, NoRequest
  <2>2. ServerTypes'
    BY <1>1, <1>2, <1>3 DEF Shape, Types, ServerTypes, FlagsStay, Unlocks, RequestFits
  <2>3. EngineTypes'
    BY <1>1, <1>2, <1>3 DEF Shape, Types, EngineTypes
  <2>4. RecorderTypes'
    BY <1>1, <1>2, <1>3 DEF Shape, Types, RecorderTypes
  <2> QED
    BY <1>1, <2>1, <2>2, <2>3, <2>4, ShapeMoves
<1>5. LocksAreHeld' /\ TokenIsOwned' /\ EvidenceIsTaken' /\ AbandonedIsOver'
  BY <1>1, <1>2, <1>3 DEF LocksAreHeld, TokenIsOwned, EvidenceIsTaken, EvidenceSoFar,
     EvidenceIsWhole, Frozen, AbandonedIsOver, NoRequest
<1>6. CreatedIsNew'
  BY <1>1, <1>2, <1>3, NameAssumption DEF CreatedIsNew, NoRequest, Shape, RequestFits
<1>7. EngineIsOwned'
  BY <1>1, <1>2, <1>3 DEF EngineIsOwned, EndedIsGone, NoRequest, CreatedIsNew
<1>8. FinishedIsKept'
  BY <1>1, <1>2, <1>3 DEF FinishedIsKept, NoRequest, CreatedIsNew, EvidenceIsTaken,
     EvidenceIsWhole, Shape, RequestFits
<1>9. ExpiredIsOver'
  BY <1>1, <1>2, <1>3 DEF ExpiredIsOver, NoRequest, CreatedIsNew
<1>10. DirectoriesAreOwned'
  BY <1>1, <1>2, <1>3 DEF DirectoriesAreOwned, NoRequest, CreatedIsNew, Shape, RequestFits
<1> QED
  BY <1>4, <1>5, <1>6, <1>7, <1>8, <1>9, <1>10

\* A use takes a lock that nobody holds.
LEMMA UseLockKeeps ==
  ASSUME IInv, NEW r \in Requests, UseLock(r), MayUse(Of(r))
  PROVE  IInv'
<1> USE DEF IInv, Moves, Leaves, OthersStay, At, Of, Creates, Finishes, HasToken, Finishing,
            Exporting, Over
<1>1. At(r, "lock") /\ Of(r) \in active /\ ~info[Of(r)].finishing /\ info[Of(r)].mu = Nobody
      /\ Moves(r, "using")
  BY GotoMoves DEF UseLock, Labels, MayUse
<1>2. UNCHANGED <<sem, active, finishedOrder, results, engineSession, sealed, drained,
                  published, listed, dirs, exported, dead, faults>>
  BY DEF UseLock, serverVars, engineVars, recorderVars
<1>3. FlagsStay /\ info'[Of(r)].mu = r /\ \A s \in Sessions \ {Of(r)} : info'[s] = info[s]
  <2>1. info[Of(r)] \in InfoType /\ Of(r) \in Sessions
    BY <1>1 DEF Shape, Types, ServerTypes
  <2>2. info' = [info EXCEPT ![Of(r)] = [info[Of(r)] EXCEPT !.mu = r]]
    BY <1>1 DEF UseLock, MayUse
  <2> QED
    BY <2>1, <2>2 DEF FlagsStay, Shape, Types, ServerTypes, InfoType
<1>4. Shape'
  <2>1. RequestFits(r)'
    BY <1>1, <1>2, <1>3 DEF Shape, RequestFits
  <2>2. ServerTypes'
    BY <1>1, <1>2, <1>3 DEF Shape, Types, ServerTypes, FlagsStay, Unlocks
  <2>3. EngineTypes'
    BY <1>1, <1>2, <1>3 DEF Shape, Types, EngineTypes
  <2>4. RecorderTypes'
    BY <1>1, <1>2, <1>3 DEF Shape, Types, RecorderTypes
  <2> QED
    BY <1>1, <2>1, <2>2, <2>3, <2>4, ShapeMoves
<1>5. TokenIsOwned' /\ ExpiredIsOver' /\ DirectoriesAreOwned'
  BY <1>1, <1>2, <1>3 DEF TokenIsOwned, ExpiredIsOver, DirectoriesAreOwned, FlagsStay, Unlocks
<1>6. LocksAreHeld'
  BY <1>1, <1>2, <1>3, NameAssumption DEF LocksAreHeld, FlagsStay, Unlocks, Shape, RequestFits
<1>7. CreatedIsNew'
  BY <1>1, <1>2, <1>3 DEF CreatedIsNew, FlagsStay, Unlocks, Shape, RequestFits
<1>8. EngineIsOwned'
  BY <1>1, <1>2, <1>3 DEF EngineIsOwned, EndedIsGone, FlagsStay, Unlocks, Shape, Types,
     ServerTypes
<1>9. EvidenceIsTaken'
  BY <1>1, <1>2, <1>3 DEF EvidenceIsTaken, EvidenceSoFar, EvidenceIsWhole, Frozen, FlagsStay,
     Unlocks, Shape, RequestFits
<1>10. FinishedIsKept'
  BY <1>1, <1>2, <1>3 DEF FinishedIsKept, FlagsStay, Unlocks, Shape, Types, RecorderTypes
<1>11. AbandonedIsOver'
  BY <1>1, <1>2, <1>3 DEF AbandonedIsOver, FlagsStay, Unlocks, Shape, RequestFits
<1> QED
  BY <1>4, <1>5, <1>6, <1>7, <1>8, <1>9, <1>10, <1>11

\* A handler that returns gives its lock back and leaves the rest alone.
LEMMA ReturnKeeps ==
  ASSUME IInv, NEW r \in Requests, req[r].at \in {"lock", "using", "seal", "mux", "abandon"},
         Leaves(r), Unlocks(r),
         UNCHANGED <<sem, active, finishedOrder, results, engineVars, published, recorderVars>>,
         faults' \in 0..MaxFaults
  PROVE  IInv'
<1> USE DEF IInv, Moves, Leaves, OthersStay, At, Of, Creates, Finishes, HasToken, Finishing,
            Exporting, Over
<1>1. req[r].at \in {"lock", "using", "seal", "mux", "abandon"} /\ Leaves(r)
  BY LeavesType, ReturnLeaves
<1>2. UNCHANGED <<sem, active, finishedOrder, results, engineSession, sealed, drained,
                  published, listed, dirs, exported, dead>>
  BY DEF serverVars, engineVars, recorderVars
<1>3. Unlocks(r) /\ faults' \in 0..MaxFaults
  OBVIOUS
<1>4. Shape'
  <2>1. RequestFits(r)'
    BY <1>1, <1>2, <1>3 DEF Shape, RequestFits, NoRequest
  <2>2. ServerTypes'
    BY <1>1, <1>2, <1>3 DEF Shape, Types, ServerTypes, FlagsStay, Unlocks
  <2>3. EngineTypes'
    BY <1>1, <1>2, <1>3 DEF Shape, Types, EngineTypes
  <2>4. RecorderTypes'
    BY <1>1, <1>2, <1>3 DEF Shape, Types, RecorderTypes
  <2> QED
    BY <1>1, <2>1, <2>2, <2>3, <2>4, ShapeMoves
<1>5. TokenIsOwned' /\ ExpiredIsOver'
  BY <1>1, <1>2, <1>3 DEF TokenIsOwned, ExpiredIsOver, NoRequest, FlagsStay, Unlocks
<1>6. LocksAreHeld'
  BY <1>1, <1>2, <1>3 DEF LocksAreHeld, NoRequest, FlagsStay, Unlocks, Shape, RequestFits
<1>7. CreatedIsNew'
  BY <1>1, <1>2, <1>3, NameAssumption DEF CreatedIsNew, NoRequest, FlagsStay, Unlocks, Shape,
     RequestFits
<1>8. EngineIsOwned'
  <2>1. (engineSession # NoSession => \/ engineSession \in active
                                      \/ \E q \in Requests : Creates(q) /\ Of(q) = engineSession)'
    BY <1>1, <1>2, <1>3 DEF EngineIsOwned, EndedIsGone, NoRequest, FlagsStay, Unlocks, Shape,
       Types, EngineTypes
  <2>2. (\A s \in listed : s \in active \/ \E q \in Requests : At(q, "list") /\ Of(q) = s)'
    BY <1>1, <1>2, <1>3 DEF EngineIsOwned, EndedIsGone, NoRequest, FlagsStay, Unlocks
  <2>3. (\A s \in active : ~info[s].finishing => engineSession = s /\ ~sealed)'
    BY <1>1, <1>2, <1>3 DEF EngineIsOwned, Shape, Types, ServerTypes, FlagsStay, Unlocks
  <2>4. \A q \in Requests : EndedIsGone(q)'
    BY <1>1, <1>2, <1>3 DEF EngineIsOwned, EndedIsGone, NoRequest, FlagsStay, Unlocks,
       EndedIsGone
  <2> QED
    BY <2>1, <2>2, <2>3, <2>4 DEF EngineIsOwned
<1>9. EvidenceIsTaken'
  BY <1>1, <1>2, <1>3 DEF EvidenceIsTaken, EvidenceSoFar, EvidenceIsWhole, Frozen, NoRequest,
     FlagsStay, Unlocks, Shape, RequestFits
<1>10. FinishedIsKept'
  BY <1>1, <1>2, <1>3 DEF FinishedIsKept, NoRequest, FlagsStay, Unlocks, Shape, Types,
     RecorderTypes
<1>11. AbandonedIsOver'
  BY <1>1, <1>2, <1>3 DEF AbandonedIsOver, NoRequest, FlagsStay, Unlocks, Shape, RequestFits
<1>12. DirectoriesAreOwned'
  BY <1>1, <1>2, <1>3 DEF DirectoriesAreOwned, NoRequest, FlagsStay, Unlocks, Shape, RequestFits
<1> QED
  BY <1>4, <1>5, <1>6, <1>7, <1>8, <1>9, <1>10, <1>11, <1>12

\* A retry of finish goes on with the evidence that is prepared.
LEMMA FinishLockAgainKeeps ==
  ASSUME IInv, NEW r \in Requests, FinishLock(r), StillActive(Of(r)), info[Of(r)].prepared
  PROVE  IInv'
<1> USE DEF IInv, Moves, Leaves, OthersStay, At, Of, Creates, Finishes, HasToken, Finishing,
            Exporting, Over
<1>1. At(r, "lock") /\ req[r].op = "finish" /\ Of(r) \in active /\ info[Of(r)].mu = Nobody
      /\ Moves(r, "mux")
  BY GotoMoves DEF FinishLock, Labels, StillActive
<1>2. UNCHANGED <<sem, active, finishedOrder, results, engineSession, sealed, drained,
                  published, listed, dirs, exported, dead, faults>>
  BY DEF FinishLock, serverVars, engineVars, recorderVars
<1>3. info'[Of(r)].mu = r /\ info'[Of(r)].finishing
      /\ info'[Of(r)].prepared = info[Of(r)].prepared /\ info'[Of(r)].cursor = info[Of(r)].cursor
      /\ info' \in [Sessions -> InfoType] /\ \A s \in Sessions \ {Of(r)} : info'[s] = info[s]
  <2>1. info[Of(r)] \in InfoType /\ Of(r) \in Sessions
    BY <1>1 DEF Shape, Types, ServerTypes
  <2>2. info' = [info EXCEPT ![Of(r)] = [info[Of(r)] EXCEPT !.mu = r, !.finishing = TRUE]]
    BY <1>1 DEF FinishLock, StillActive
  <2> QED
    BY <2>1, <2>2 DEF Shape, Types, ServerTypes, InfoType
<1>4. Shape'
  <2>1. RequestFits(r)'
    BY <1>1, <1>2, <1>3 DEF Shape, RequestFits
  <2>2. ServerTypes'
    BY <1>1, <1>2, <1>3 DEF Shape, Types, ServerTypes, FlagsStay, Unlocks
  <2>3. EngineTypes'
    BY <1>1, <1>2, <1>3 DEF Shape, Types, EngineTypes
  <2>4. RecorderTypes'
    BY <1>1, <1>2, <1>3 DEF Shape, Types, RecorderTypes
  <2> QED
    BY <1>1, <2>1, <2>2, <2>3, <2>4, ShapeMoves
<1>5. TokenIsOwned' /\ ExpiredIsOver' /\ DirectoriesAreOwned'
  BY <1>1, <1>2, <1>3 DEF TokenIsOwned, ExpiredIsOver, DirectoriesAreOwned, FlagsStay, Unlocks
<1>6. LocksAreHeld'
  BY <1>1, <1>2, <1>3, NameAssumption DEF LocksAreHeld, FlagsStay, Unlocks, Shape, RequestFits
<1>7. CreatedIsNew'
  BY <1>1, <1>2, <1>3 DEF CreatedIsNew, FlagsStay, Unlocks, Shape, RequestFits
<1>8. EngineIsOwned'
  BY <1>1, <1>2, <1>3 DEF EngineIsOwned, EndedIsGone, FlagsStay, Unlocks, LocksAreHeld, Shape,
     Types, ServerTypes
<1>9. EvidenceIsTaken'
  <2>a. EvidenceSoFar(r)'
    BY <1>1, <1>2, <1>3 DEF EvidenceSoFar
  <2>b. ASSUME NEW q \in Requests \ {r} PROVE EvidenceSoFar(q)'
    <3>1. req'[q] = req[q] /\ (~At(q, "idle") => Of(q) \in Sessions)
      BY <1>1 DEF Shape, RequestFits
    <3>2. Of(q) \in Sessions => info'[Of(q)].prepared = info[Of(q)].prepared
      BY <1>3
    <3> QED
      BY <1>2, <3>1, <3>2 DEF EvidenceIsTaken, EvidenceSoFar, Frozen
  <2>1. \A q \in Requests : EvidenceSoFar(q)'
    BY <2>a, <2>b
  <2>2. (\A s \in Sessions : EvidenceIsWhole(s))'
    BY <1>1, <1>2, <1>3 DEF EvidenceIsTaken, EvidenceSoFar, EvidenceIsWhole, Frozen, FlagsStay,
       Unlocks, EvidenceIsWhole, Shape, Types, ServerTypes
  <2> QED
    BY <2>1, <2>2 DEF EvidenceIsTaken
<1>10. FinishedIsKept'
  BY <1>1, <1>2, <1>3 DEF FinishedIsKept, FlagsStay, Unlocks, Shape, Types, RecorderTypes
<1>11. AbandonedIsOver'
  BY <1>1, <1>2, <1>3 DEF AbandonedIsOver, FlagsStay, Unlocks, Shape, RequestFits
<1> QED
  BY <1>4, <1>5, <1>6, <1>7, <1>8, <1>9, <1>10, <1>11

\* The first finish of a session has its evidence to prepare.
LEMMA FinishLockFirstKeeps ==
  ASSUME IInv, NEW r \in Requests, FinishLock(r), StillActive(Of(r)), ~info[Of(r)].prepared
  PROVE  IInv'
<1> USE DEF IInv, Moves, Leaves, OthersStay, At, Of, Creates, Finishes, HasToken, Finishing,
            Exporting, Over
<1>1. At(r, "lock") /\ req[r].op = "finish" /\ Of(r) \in active /\ info[Of(r)].mu = Nobody
      /\ Moves(r, "settle")
  BY GotoMoves DEF FinishLock, Labels, StillActive
<1>2. UNCHANGED <<sem, active, finishedOrder, results, engineSession, sealed, drained,
                  published, listed, dirs, exported, dead, faults>>
  BY DEF FinishLock, serverVars, engineVars, recorderVars
<1>3. info'[Of(r)].mu = r /\ info'[Of(r)].finishing
      /\ info'[Of(r)].prepared = info[Of(r)].prepared /\ info'[Of(r)].cursor = info[Of(r)].cursor
      /\ info' \in [Sessions -> InfoType] /\ \A s \in Sessions \ {Of(r)} : info'[s] = info[s]
  <2>1. info[Of(r)] \in InfoType /\ Of(r) \in Sessions
    BY <1>1 DEF Shape, Types, ServerTypes
  <2>2. info' = [info EXCEPT ![Of(r)] = [info[Of(r)] EXCEPT !.mu = r, !.finishing = TRUE]]
    BY <1>1 DEF FinishLock, StillActive
  <2> QED
    BY <2>1, <2>2 DEF Shape, Types, ServerTypes, InfoType
<1>4. Shape'
  <2>1. RequestFits(r)'
    BY <1>1, <1>2, <1>3 DEF Shape, RequestFits
  <2>2. ServerTypes'
    BY <1>1, <1>2, <1>3 DEF Shape, Types, ServerTypes, FlagsStay, Unlocks
  <2>3. EngineTypes'
    BY <1>1, <1>2, <1>3 DEF Shape, Types, EngineTypes
  <2>4. RecorderTypes'
    BY <1>1, <1>2, <1>3 DEF Shape, Types, RecorderTypes
  <2> QED
    BY <1>1, <2>1, <2>2, <2>3, <2>4, ShapeMoves
<1>5. TokenIsOwned' /\ ExpiredIsOver' /\ DirectoriesAreOwned'
  BY <1>1, <1>2, <1>3 DEF TokenIsOwned, ExpiredIsOver, DirectoriesAreOwned, FlagsStay, Unlocks
<1>6. LocksAreHeld'
  BY <1>1, <1>2, <1>3, NameAssumption DEF LocksAreHeld, FlagsStay, Unlocks, Shape, RequestFits
<1>7. CreatedIsNew'
  BY <1>1, <1>2, <1>3 DEF CreatedIsNew, FlagsStay, Unlocks, Shape, RequestFits
<1>8. EngineIsOwned'
  BY SMTT(30), <1>1, <1>2, <1>3 DEF EngineIsOwned, EndedIsGone, FlagsStay, Unlocks, LocksAreHeld, Shape,
     Types, ServerTypes
<1>9. EvidenceIsTaken'
  BY <1>1, <1>2, <1>3 DEF EvidenceIsTaken, EvidenceSoFar, EvidenceIsWhole, Frozen, FlagsStay,
     Unlocks, Shape, RequestFits
<1>10. FinishedIsKept'
  BY <1>1, <1>2, <1>3 DEF FinishedIsKept, FlagsStay, Unlocks, Shape, Types, RecorderTypes
<1>11. AbandonedIsOver'
  BY <1>1, <1>2, <1>3 DEF AbandonedIsOver, FlagsStay, Unlocks, Shape, RequestFits
<1> QED
  BY <1>4, <1>5, <1>6, <1>7, <1>8, <1>9, <1>10, <1>11

\* Waiting for the outputs in progress changes nothing here.
LEMMA SettleKeeps ==
  ASSUME IInv, NEW r \in Requests, Settle(r)
  PROVE  IInv'
<1> USE DEF IInv, Moves, Leaves, OthersStay, At, Of, Creates, Finishes, HasToken, Finishing,
            Exporting, Over
<1>1. At(r, "settle") /\ Moves(r, "seal")
  BY GotoMoves DEF Settle, Labels
<1>2. UNCHANGED <<sem, active, info, finishedOrder, results, engineSession, sealed, drained,
                  published, listed, dirs, exported, dead, faults>>
  BY DEF Settle, serverVars, engineVars, recorderVars
<1>3. Shape'
  <2>1. RequestFits(r)'
    BY <1>1, <1>2 DEF Shape, RequestFits
  <2>2. ServerTypes'
    BY <1>1, <1>2 DEF Shape, Types, ServerTypes
  <2>3. EngineTypes'
    BY <1>1, <1>2 DEF Shape, Types, EngineTypes
  <2>4. RecorderTypes'
    BY <1>1, <1>2 DEF Shape, Types, RecorderTypes
  <2> QED
    BY <1>1, <2>1, <2>2, <2>3, <2>4, ShapeMoves
<1>4. LocksAreHeld' /\ TokenIsOwned' /\ CreatedIsNew' /\ EngineIsOwned' /\ EvidenceIsTaken'
      /\ FinishedIsKept' /\ ExpiredIsOver' /\ AbandonedIsOver' /\ DirectoriesAreOwned'
  BY <1>1, <1>2 DEF LocksAreHeld, TokenIsOwned, CreatedIsNew, EngineIsOwned, EndedIsGone,
     EvidenceIsTaken, EvidenceSoFar, EvidenceIsWhole, Frozen, FinishedIsKept, ExpiredIsOver,
     AbandonedIsOver, DirectoriesAreOwned
<1> QED
  BY <1>3, <1>4

\* Only the session of the finish that holds its lock is sealed.
LEMMA SealOutputsKeeps ==
  ASSUME IInv, NEW r \in Requests, SealOutputs(r), engineSession = Of(r)
  PROVE  IInv'
<1> USE DEF IInv, Moves, Leaves, OthersStay, At, Of, Creates, Finishes, HasToken, Finishing,
            Exporting, Over
<1>1. At(r, "seal") /\ Moves(r, "drain")
  BY GotoMoves DEF SealOutputs, Labels
<1>2. UNCHANGED <<sem, active, info, finishedOrder, results, engineSession, drained, published,
                  listed, dirs, exported, dead, faults>>
  BY DEF SealOutputs, serverVars, engineVars, recorderVars
<1>3. sealed' = TRUE /\ engineSession = Of(r)
  BY DEF SealOutputs
<1>4. Shape'
  <2>1. RequestFits(r)'
    BY <1>1, <1>2, <1>3 DEF Shape, RequestFits
  <2>2. ServerTypes'
    BY <1>1, <1>2, <1>3 DEF Shape, Types, ServerTypes
  <2>3. EngineTypes'
    BY <1>1, <1>2, <1>3 DEF Shape, Types, EngineTypes
  <2>4. RecorderTypes'
    BY <1>1, <1>2, <1>3 DEF Shape, Types, RecorderTypes
  <2> QED
    BY <1>1, <2>1, <2>2, <2>3, <2>4, ShapeMoves
<1>5. LocksAreHeld' /\ TokenIsOwned' /\ CreatedIsNew' /\ EvidenceIsTaken'
      /\ FinishedIsKept' /\ ExpiredIsOver' /\ AbandonedIsOver' /\ DirectoriesAreOwned'
  BY <1>1, <1>2, <1>3 DEF LocksAreHeld, TokenIsOwned, CreatedIsNew, EvidenceIsTaken,
     EvidenceSoFar, EvidenceIsWhole, Frozen, FinishedIsKept, ExpiredIsOver, AbandonedIsOver,
     DirectoriesAreOwned
<1>6. EngineIsOwned'
  BY <1>1, <1>2, <1>3 DEF EngineIsOwned, EndedIsGone, LocksAreHeld
<1> QED
  BY <1>4, <1>5, <1>6

\* A sealed session is drained once its synthesis is over: no event comes any more.
LEMMA WaitForSynthesisKeeps ==
  ASSUME IInv, NEW r \in Requests, WaitForSynthesis(r)
  PROVE  IInv'
<1> USE DEF IInv, Moves, Leaves, OthersStay, At, Of, Creates, Finishes, HasToken, Finishing,
            Exporting, Over
<1>1. At(r, "drain") /\ Moves(r, "snapshot")
  BY GotoMoves DEF WaitForSynthesis, Labels
<1>2. UNCHANGED <<sem, active, info, finishedOrder, results, engineSession, sealed, published,
                  listed, dirs, exported, dead, faults>>
  BY DEF WaitForSynthesis, serverVars, engineVars, recorderVars
<1>3. drained' = sealed
  BY DEF WaitForSynthesis
<1>4. Shape'
  <2>1. RequestFits(r)'
    BY <1>1, <1>2, <1>3 DEF Shape, RequestFits
  <2>2. ServerTypes'
    BY <1>1, <1>2, <1>3 DEF Shape, Types, ServerTypes
  <2>3. EngineTypes'
    BY <1>1, <1>2, <1>3 DEF Shape, Types, EngineTypes
  <2>4. RecorderTypes'
    BY <1>1, <1>2, <1>3 DEF Shape, Types, RecorderTypes
  <2> QED
    BY <1>1, <2>1, <2>2, <2>3, <2>4, ShapeMoves
<1>5. LocksAreHeld' /\ TokenIsOwned' /\ CreatedIsNew' /\ EngineIsOwned' /\ EvidenceIsTaken'
      /\ FinishedIsKept' /\ ExpiredIsOver' /\ AbandonedIsOver' /\ DirectoriesAreOwned'
  BY <1>1, <1>2, <1>3 DEF LocksAreHeld, TokenIsOwned, CreatedIsNew, EngineIsOwned, EndedIsGone,
     EvidenceIsTaken, EvidenceSoFar, EvidenceIsWhole, Frozen, FinishedIsKept, ExpiredIsOver,
     AbandonedIsOver, DirectoriesAreOwned
<1> QED
  BY <1>4, <1>5

\* The events taken are all events of the session.
LEMMA SnapshotKeeps ==
  ASSUME IInv, NEW r \in Requests, Snapshot(r)
  PROVE  IInv'
<1> USE DEF IInv, Moves, Leaves, OthersStay, At, Of, Creates, Finishes, HasToken, Finishing,
            Exporting, Over
<1>1. At(r, "snapshot") /\ OthersStay(r)
  <2>1. published[Of(r)] \in Nat /\ req[r] \in RequestType
    BY DEF Snapshot, Shape, Types, EngineTypes, RequestFits
  <2>2. [req[r] EXCEPT !.at = "write", !.taken = published[Of(r)]] \in RequestType
    BY <2>1 DEF RequestType, Labels
  <2>3. req' = [req EXCEPT ![r] = [req[r] EXCEPT !.at = "write", !.taken = published[Of(r)]]]
    BY DEF Snapshot
  <2> QED
    BY <2>2, <2>3 DEF Snapshot, Shape, Types
<1>2. UNCHANGED <<sem, active, info, finishedOrder, results, engineSession, sealed, drained,
                  published, listed, dirs, exported, dead, faults>>
  BY DEF Snapshot, serverVars, engineVars, recorderVars
<1>3. req'[r].at = "write" /\ req'[r].taken = published[Of(r)]
      /\ \A f \in {"op", "session", "expired"} : req'[r][f] = req[r][f]
  BY DEF Snapshot, Shape, Types, RequestType, RequestFits
<1>4. Shape'
  <2>1. RequestFits(r)'
    BY <1>1, <1>2, <1>3 DEF Shape, RequestFits
  <2>2. ServerTypes'
    BY <1>1, <1>2, <1>3 DEF Shape, Types, ServerTypes
  <2>3. EngineTypes'
    BY <1>1, <1>2, <1>3 DEF Shape, Types, EngineTypes
  <2>4. RecorderTypes'
    BY <1>1, <1>2, <1>3 DEF Shape, Types, RecorderTypes
  <2> QED
    BY <1>1, <2>1, <2>2, <2>3, <2>4, ShapeMoves
<1>5. LocksAreHeld' /\ TokenIsOwned' /\ CreatedIsNew' /\ EngineIsOwned' /\ EvidenceIsTaken'
      /\ FinishedIsKept' /\ ExpiredIsOver' /\ AbandonedIsOver' /\ DirectoriesAreOwned'
  BY SMTT(30), <1>1, <1>2, <1>3 DEF LocksAreHeld, TokenIsOwned, CreatedIsNew, EngineIsOwned, EndedIsGone,
     EvidenceIsTaken, EvidenceSoFar, EvidenceIsWhole, Frozen, FinishedIsKept, ExpiredIsOver,
     AbandonedIsOver, DirectoriesAreOwned
<1> QED
  BY <1>4, <1>5

\* What is exported is what was taken.
LEMMA WriteEventsKeeps ==
  ASSUME IInv, NEW r \in Requests, WriteEvents(r), Of(r) \in listed
  PROVE  IInv'
<1> USE DEF IInv, Moves, Leaves, OthersStay, At, Of, Creates, Finishes, HasToken, Finishing,
            Exporting, Over
<1>1. At(r, "write") /\ Moves(r, "document")
  BY GotoMoves DEF WriteEvents, Labels
<1>2. UNCHANGED <<sem, active, info, finishedOrder, results, engineSession, sealed, drained,
                  published, listed, dirs, dead, faults>>
  BY DEF WriteEvents, serverVars, engineVars, recorderVars
<1>3. exported' \in [Sessions -> Nat \cup {None}] /\ exported'[Of(r)] = req[r].taken
      /\ \A s \in Sessions \ {Of(r)} : exported'[s] = exported[s]
  BY DEF WriteEvents, Shape, Types, RequestType, RecorderTypes
<1>4. Shape'
  <2>1. RequestFits(r)'
    BY <1>1, <1>2, <1>3 DEF Shape, RequestFits
  <2>2. ServerTypes'
    BY <1>1, <1>2, <1>3 DEF Shape, Types, ServerTypes
  <2>3. EngineTypes'
    BY <1>1, <1>2, <1>3 DEF Shape, Types, EngineTypes
  <2>4. RecorderTypes'
    BY <1>1, <1>2, <1>3 DEF Shape, Types, RecorderTypes
  <2> QED
    BY <1>1, <2>1, <2>2, <2>3, <2>4, ShapeMoves
<1>5. LocksAreHeld' /\ TokenIsOwned' /\ CreatedIsNew' /\ EngineIsOwned' /\ FinishedIsKept'
      /\ ExpiredIsOver' /\ AbandonedIsOver' /\ DirectoriesAreOwned'
  BY <1>1, <1>2, <1>3 DEF LocksAreHeld, TokenIsOwned, CreatedIsNew, EngineIsOwned, EndedIsGone,
     FinishedIsKept, ExpiredIsOver, AbandonedIsOver, DirectoriesAreOwned
<1>6. EvidenceIsTaken'
  BY <1>1, <1>2, <1>3 DEF EvidenceIsTaken, EvidenceSoFar, EvidenceIsWhole, Frozen, Shape,
     RequestFits
<1> QED
  BY <1>4, <1>5, <1>6

\* An export without a recording abandons the session.
LEMMA WriteEventsFailsKeeps ==
  ASSUME IInv, NEW r \in Requests, WriteEvents(r), Of(r) \notin listed
  PROVE  IInv'
<1> USE DEF IInv, Moves, Leaves, OthersStay, At, Of, Creates, Finishes, HasToken, Finishing,
            Exporting, Over
<1>1. At(r, "write") /\ Moves(r, "abandon")
  BY GotoMoves DEF WriteEvents, Labels
<1>2. UNCHANGED <<sem, active, info, finishedOrder, results, engineSession, sealed, drained,
                  published, listed, dirs, exported, dead, faults>>
  BY DEF WriteEvents, serverVars, engineVars, recorderVars
<1>3. Shape'
  <2>1. RequestFits(r)'
    BY <1>1, <1>2 DEF Shape, RequestFits
  <2>2. ServerTypes'
    BY <1>1, <1>2 DEF Shape, Types, ServerTypes
  <2>3. EngineTypes'
    BY <1>1, <1>2 DEF Shape, Types, EngineTypes
  <2>4. RecorderTypes'
    BY <1>1, <1>2 DEF Shape, Types, RecorderTypes
  <2> QED
    BY <1>1, <2>1, <2>2, <2>3, <2>4, ShapeMoves
<1>4. LocksAreHeld' /\ TokenIsOwned' /\ CreatedIsNew' /\ EngineIsOwned' /\ EvidenceIsTaken'
      /\ FinishedIsKept' /\ ExpiredIsOver' /\ AbandonedIsOver' /\ DirectoriesAreOwned'
  BY <1>1, <1>2 DEF LocksAreHeld, TokenIsOwned, CreatedIsNew, EngineIsOwned, EndedIsGone,
     EvidenceIsTaken, EvidenceSoFar, EvidenceIsWhole, Frozen, FinishedIsKept, ExpiredIsOver,
     AbandonedIsOver, DirectoriesAreOwned
<1> QED
  BY <1>3, <1>4

\* The cursor of the prepared session is that of its exported events.
LEMMA PrepareKeeps ==
  ASSUME IInv, NEW r \in Requests, Prepare(r)
  PROVE  IInv'
<1> USE DEF IInv, Moves, Leaves, OthersStay, At, Of, Creates, Finishes, HasToken, Finishing,
            Exporting, Over
<1>1. At(r, "document") /\ Moves(r, "mux")
  BY GotoMoves DEF Prepare, Labels
<1>2. UNCHANGED <<sem, active, finishedOrder, results, engineSession, sealed, drained,
                  published, listed, dirs, exported, dead, faults>>
  BY DEF Prepare, serverVars, engineVars, recorderVars
<1>3. info'[Of(r)].mu = info[Of(r)].mu /\ info'[Of(r)].finishing = info[Of(r)].finishing
      /\ info'[Of(r)].prepared /\ info'[Of(r)].cursor = req[r].taken
      /\ info' \in [Sessions -> InfoType] /\ \A s \in Sessions \ {Of(r)} : info'[s] = info[s]
  BY ZenonT(30) DEF Prepare, Shape, Types, ServerTypes, RequestType, InfoType, RequestFits
<1>4. Shape'
  <2>1. RequestFits(r)'
    BY <1>1, <1>2, <1>3 DEF Shape, RequestFits
  <2>2. ServerTypes'
    BY <1>1, <1>2, <1>3 DEF Shape, Types, ServerTypes, FlagsStay, Unlocks
  <2>3. EngineTypes'
    BY <1>1, <1>2, <1>3 DEF Shape, Types, EngineTypes
  <2>4. RecorderTypes'
    BY <1>1, <1>2, <1>3 DEF Shape, Types, RecorderTypes
  <2> QED
    BY <1>1, <2>1, <2>2, <2>3, <2>4, ShapeMoves
<1>5. TokenIsOwned' /\ ExpiredIsOver' /\ DirectoriesAreOwned'
  BY <1>1, <1>2, <1>3 DEF TokenIsOwned, ExpiredIsOver, DirectoriesAreOwned, FlagsStay, Unlocks
<1>6. LocksAreHeld'
  BY <1>1, <1>2, <1>3 DEF LocksAreHeld, FlagsStay, Unlocks, Shape, RequestFits
<1>7. CreatedIsNew'
  BY <1>1, <1>2, <1>3 DEF CreatedIsNew, FlagsStay, Unlocks, Shape, RequestFits
<1>8. EngineIsOwned'
  <2>1. (engineSession # NoSession => \/ engineSession \in active
                                      \/ \E q \in Requests : Creates(q) /\ Of(q) = engineSession)'
    BY <1>1, <1>2, <1>3 DEF EngineIsOwned, EndedIsGone, FlagsStay, Unlocks, Shape, Types,
       EngineTypes
  <2>2. (\A s \in listed : s \in active \/ \E q \in Requests : At(q, "list") /\ Of(q) = s)'
    BY <1>1, <1>2, <1>3 DEF EngineIsOwned, EndedIsGone, FlagsStay, Unlocks
  <2>3. (\A s \in active : ~info[s].finishing => engineSession = s /\ ~sealed)'
    BY <1>1, <1>2, <1>3 DEF EngineIsOwned, Shape, Types, ServerTypes
  <2>4. \A q \in Requests : EndedIsGone(q)'
    BY <1>1, <1>2, <1>3 DEF EngineIsOwned, EndedIsGone, FlagsStay, Unlocks, EndedIsGone
  <2> QED
    BY <2>1, <2>2, <2>3, <2>4 DEF EngineIsOwned
<1>9. EvidenceIsTaken'
  BY <1>1, <1>2, <1>3 DEF EvidenceIsTaken, EvidenceSoFar, EvidenceIsWhole, Frozen, FlagsStay,
     Unlocks, LocksAreHeld, Shape, RequestFits
<1>10. FinishedIsKept'
  BY <1>1, <1>2, <1>3 DEF FinishedIsKept, FlagsStay, Unlocks, LocksAreHeld, Shape, Types,
     RecorderTypes
<1>11. AbandonedIsOver'
  BY <1>1, <1>2, <1>3 DEF AbandonedIsOver, FlagsStay, Unlocks, Shape, RequestFits
<1> QED
  BY <1>4, <1>5, <1>6, <1>7, <1>8, <1>9, <1>10, <1>11

\* A failed export abandons the session.
LEMMA ExportFailsKeeps ==
  ASSUME IInv, NEW r \in Requests, ExportFails(r)
  PROVE  IInv'
<1> USE DEF IInv, Moves, Leaves, OthersStay, At, Of, Creates, Finishes, HasToken, Finishing,
            Exporting, Over
<1>1. req[r].at \in {"settle", "drain", "snapshot", "write", "document"} /\ Moves(r, "abandon")
  BY GotoMoves DEF ExportFails, Labels
<1>2. UNCHANGED <<sem, active, info, finishedOrder, results, engineSession, sealed, drained,
                  published, listed, dirs, exported, dead>>
  BY DEF ExportFails, serverVars, engineVars, recorderVars
<1>3. faults' \in 0..MaxFaults
  BY BoundAssumption DEF ExportFails, Fault, Shape, Types, RecorderTypes
<1>4. Shape'
  <2>1. RequestFits(r)'
    BY <1>1, <1>2, <1>3 DEF Shape, RequestFits
  <2>2. ServerTypes'
    BY <1>1, <1>2, <1>3 DEF Shape, Types, ServerTypes
  <2>3. EngineTypes'
    BY <1>1, <1>2, <1>3 DEF Shape, Types, EngineTypes
  <2>4. RecorderTypes'
    BY <1>1, <1>2, <1>3 DEF Shape, Types, RecorderTypes
  <2> QED
    BY <1>1, <2>1, <2>2, <2>3, <2>4, ShapeMoves
<1>5. LocksAreHeld' /\ TokenIsOwned' /\ CreatedIsNew' /\ EngineIsOwned' /\ EvidenceIsTaken'
      /\ FinishedIsKept' /\ ExpiredIsOver' /\ AbandonedIsOver' /\ DirectoriesAreOwned'
  BY <1>1, <1>2, <1>3 DEF LocksAreHeld, TokenIsOwned, CreatedIsNew, EngineIsOwned, EndedIsGone,
     EvidenceIsTaken, EvidenceSoFar, EvidenceIsWhole, Frozen, FinishedIsKept, ExpiredIsOver,
     AbandonedIsOver, DirectoriesAreOwned
<1> QED
  BY <1>4, <1>5

\* So does a capture that failed.
LEMMA CaptureFailsKeeps ==
  ASSUME IInv, NEW r \in Requests, CaptureFails(r)
  PROVE  IInv'
<1> USE DEF IInv, Moves, Leaves, OthersStay, At, Of, Creates, Finishes, HasToken, Finishing,
            Exporting, Over
<1>1. At(r, "mux") /\ Moves(r, "abandon")
  BY GotoMoves DEF CaptureFails, Labels
<1>2. UNCHANGED <<sem, active, info, finishedOrder, results, engineSession, sealed, drained,
                  published, listed, dirs, exported>>
  BY DEF CaptureFails, serverVars, engineVars, recorderVars
<1>3. dead' \subseteq Sessions /\ faults' \in 0..MaxFaults
  BY BoundAssumption DEF CaptureFails, Fault, Shape, Types, RecorderTypes, RequestFits
<1>4. Shape'
  <2>1. RequestFits(r)'
    BY <1>1, <1>2, <1>3 DEF Shape, RequestFits
  <2>2. ServerTypes'
    BY <1>1, <1>2, <1>3 DEF Shape, Types, ServerTypes
  <2>3. EngineTypes'
    BY <1>1, <1>2, <1>3 DEF Shape, Types, EngineTypes
  <2>4. RecorderTypes'
    BY <1>1, <1>2, <1>3 DEF Shape, Types, RecorderTypes
  <2> QED
    BY <1>1, <2>1, <2>2, <2>3, <2>4, ShapeMoves
<1>5. LocksAreHeld' /\ TokenIsOwned' /\ CreatedIsNew' /\ EngineIsOwned' /\ EvidenceIsTaken'
      /\ FinishedIsKept' /\ ExpiredIsOver' /\ AbandonedIsOver' /\ DirectoriesAreOwned'
  BY <1>1, <1>2, <1>3 DEF LocksAreHeld, TokenIsOwned, CreatedIsNew, EngineIsOwned, EndedIsGone,
     EvidenceIsTaken, EvidenceSoFar, EvidenceIsWhole, Frozen, FinishedIsKept, ExpiredIsOver,
     AbandonedIsOver, DirectoriesAreOwned
<1> QED
  BY <1>4, <1>5

\* The recorder forgets a session while it is still active here.
LEMMA FinishRecordingKeeps ==
  ASSUME IInv, NEW r \in Requests, FinishRecording(r), Of(r) \in listed
  PROVE  IInv'
<1> USE DEF IInv, Moves, Leaves, OthersStay, At, Of, Creates, Finishes, HasToken, Finishing,
            Exporting, Over
<1>1. At(r, "mux") /\ Moves(r, "end")
  BY GotoMoves DEF FinishRecording, Labels
<1>2. UNCHANGED <<sem, active, info, finishedOrder, results, engineSession, sealed, drained,
                  published, dirs, exported, dead, faults>>
  BY DEF FinishRecording, serverVars, engineVars, recorderVars
<1>3. listed' = listed \ {Of(r)}
  BY DEF FinishRecording
<1>4. Shape'
  <2>1. RequestFits(r)'
    BY <1>1, <1>2, <1>3 DEF Shape, RequestFits
  <2>2. ServerTypes'
    BY <1>1, <1>2, <1>3 DEF Shape, Types, ServerTypes
  <2>3. EngineTypes'
    BY <1>1, <1>2, <1>3 DEF Shape, Types, EngineTypes
  <2>4. RecorderTypes'
    BY <1>1, <1>2, <1>3 DEF Shape, Types, RecorderTypes
  <2> QED
    BY <1>1, <2>1, <2>2, <2>3, <2>4, ShapeMoves
<1>5. LocksAreHeld' /\ EngineIsOwned' /\ EvidenceIsTaken' /\ FinishedIsKept'
      /\ ExpiredIsOver' /\ AbandonedIsOver' /\ DirectoriesAreOwned'
  BY <1>1, <1>2, <1>3 DEF LocksAreHeld, EngineIsOwned, EndedIsGone, EvidenceIsTaken,
     EvidenceSoFar, EvidenceIsWhole, Frozen, FinishedIsKept, ExpiredIsOver, AbandonedIsOver,
     DirectoriesAreOwned
<1>6. TokenIsOwned'
  BY <1>1, <1>2, <1>3 DEF TokenIsOwned, Shape, RequestFits
<1>7. CreatedIsNew'
  BY <1>1, <1>2, <1>3 DEF CreatedIsNew, Shape, RequestFits
<1> QED
  BY <1>4, <1>5, <1>6, <1>7

\* A creation that failed ends the session it began.
LEMMA EndSessionCreatedKeeps ==
  ASSUME IInv, NEW r \in Requests, EndSession(r), req[r].op = "create"
  PROVE  IInv'
<1> USE DEF IInv, Moves, Leaves, OthersStay, At, Of, Creates, Finishes, HasToken, Finishing,
            Exporting, Over
<1>1. At(r, "end") /\ Moves(r, "release")
  BY GotoMoves DEF EndSession, Labels
<1>2. UNCHANGED <<sem, active, info, finishedOrder, results, published, listed, dirs, exported,
                  dead, faults>>
  BY DEF EndSession, serverVars, engineVars, recorderVars
<1>3. /\ engineSession' # Of(r)
      /\ engineSession = Of(r) => engineSession' = NoSession /\ sealed' = FALSE /\ drained' = FALSE
      /\ engineSession # Of(r) => UNCHANGED <<engineSession, sealed, drained>>
  BY NameAssumption DEF EndSession, EngineEnds, engineVars, Shape, RequestFits
<1>4. Shape'
  <2>1. RequestFits(r)'
    BY <1>1, <1>2, <1>3 DEF Shape, RequestFits
  <2>2. ServerTypes'
    BY <1>1, <1>2, <1>3 DEF Shape, Types, ServerTypes
  <2>3. EngineTypes'
    BY <1>1, <1>2, <1>3 DEF Shape, Types, EngineTypes
  <2>4. RecorderTypes'
    BY <1>1, <1>2, <1>3 DEF Shape, Types, RecorderTypes
  <2> QED
    BY <1>1, <2>1, <2>2, <2>3, <2>4, ShapeMoves
<1>5. LocksAreHeld' /\ TokenIsOwned' /\ CreatedIsNew' /\ FinishedIsKept' /\ ExpiredIsOver'
      /\ AbandonedIsOver' /\ DirectoriesAreOwned'
  BY <1>1, <1>2, <1>3 DEF LocksAreHeld, TokenIsOwned, CreatedIsNew, FinishedIsKept,
     ExpiredIsOver, AbandonedIsOver, DirectoriesAreOwned
<1>6. EngineIsOwned'
  BY <1>1, <1>2, <1>3 DEF EngineIsOwned, EndedIsGone, LocksAreHeld, TokenIsOwned
<1>7. EvidenceIsTaken'
  BY <1>1, <1>2, <1>3, NameAssumption DEF EvidenceIsTaken, EvidenceSoFar, EvidenceIsWhole,
     Frozen, CreatedIsNew, Shape, RequestFits
<1> QED
  BY <1>4, <1>5, <1>6, <1>7

\* A finish ends its own session in the engine.
LEMMA EndSessionFinishedKeeps ==
  ASSUME IInv, NEW r \in Requests, EndSession(r), req[r].op # "create"
  PROVE  IInv'
<1> USE DEF IInv, Moves, Leaves, OthersStay, At, Of, Creates, Finishes, HasToken, Finishing,
            Exporting, Over
<1>1. At(r, "end") /\ req[r].op = "finish" /\ Moves(r, "publish")
  BY GotoMoves DEF EndSession, Labels, Shape, RequestFits
<1>2. UNCHANGED <<sem, active, info, finishedOrder, results, published, listed, dirs, exported,
                  dead, faults>>
  BY DEF EndSession, serverVars, engineVars, recorderVars
<1>3. /\ engineSession' # Of(r)
      /\ engineSession = Of(r) => engineSession' = NoSession /\ sealed' = FALSE /\ drained' = FALSE
      /\ engineSession # Of(r) => UNCHANGED <<engineSession, sealed, drained>>
  BY NameAssumption DEF EndSession, EngineEnds, engineVars, Shape, RequestFits
<1>4. Shape'
  <2>1. RequestFits(r)'
    BY <1>1, <1>2, <1>3 DEF Shape, RequestFits
  <2>2. ServerTypes'
    BY <1>1, <1>2, <1>3 DEF Shape, Types, ServerTypes
  <2>3. EngineTypes'
    BY <1>1, <1>2, <1>3 DEF Shape, Types, EngineTypes
  <2>4. RecorderTypes'
    BY <1>1, <1>2, <1>3 DEF Shape, Types, RecorderTypes
  <2> QED
    BY <1>1, <2>1, <2>2, <2>3, <2>4, ShapeMoves
<1>5. LocksAreHeld' /\ TokenIsOwned' /\ CreatedIsNew' /\ FinishedIsKept' /\ ExpiredIsOver'
      /\ AbandonedIsOver' /\ DirectoriesAreOwned'
  BY <1>1, <1>2, <1>3 DEF LocksAreHeld, TokenIsOwned, CreatedIsNew, FinishedIsKept,
     ExpiredIsOver, AbandonedIsOver, DirectoriesAreOwned
<1>6. EngineIsOwned'
  BY <1>1, <1>2, <1>3 DEF EngineIsOwned, EndedIsGone, LocksAreHeld, TokenIsOwned
<1>7. EvidenceIsTaken'
  BY <1>1, <1>2, <1>3, NameAssumption DEF EvidenceIsTaken, EvidenceSoFar, EvidenceIsWhole,
     Frozen, LocksAreHeld, Shape, RequestFits
<1> QED
  BY <1>4, <1>5, <1>6, <1>7

\* The request that holds the token gives it back.
LEMMA ReleaseKeeps ==
  ASSUME IInv, NEW r \in Requests, Release(r)
  PROVE  IInv'
<1> USE DEF IInv, Moves, Leaves, OthersStay, At, Of, Creates, Finishes, HasToken, Finishing,
            Exporting, Over
<1>1. At(r, "release") /\ Moves(r, "expire")
  BY GotoMoves DEF Release, Labels
<1>2. UNCHANGED <<active, info, finishedOrder, results, engineSession, sealed, drained,
                  published, listed, dirs, exported, dead, faults>>
  BY DEF Release, serverVars, engineVars, recorderVars
<1>3. sem = 1 /\ sem' = 0
  BY DEF Release, Shape, Types, ServerTypes
<1>4. Shape'
  <2>1. RequestFits(r)'
    BY <1>1, <1>2, <1>3 DEF Shape, RequestFits
  <2>2. ServerTypes'
    BY <1>1, <1>2, <1>3 DEF Shape, Types, ServerTypes, FlagsStay, Unlocks
  <2>3. EngineTypes'
    BY <1>1, <1>2, <1>3 DEF Shape, Types, EngineTypes
  <2>4. RecorderTypes'
    BY <1>1, <1>2, <1>3 DEF Shape, Types, RecorderTypes
  <2> QED
    BY <1>1, <2>1, <2>2, <2>3, <2>4, ShapeMoves
<1>5. LocksAreHeld' /\ TokenIsOwned' /\ CreatedIsNew' /\ EngineIsOwned' /\ EvidenceIsTaken'
      /\ FinishedIsKept' /\ ExpiredIsOver' /\ AbandonedIsOver' /\ DirectoriesAreOwned'
  BY <1>1, <1>2, <1>3 DEF LocksAreHeld, TokenIsOwned, CreatedIsNew, EngineIsOwned, EndedIsGone,
     EvidenceIsTaken, EvidenceSoFar, EvidenceIsWhole, Frozen, FinishedIsKept, ExpiredIsOver,
     AbandonedIsOver, DirectoriesAreOwned
<1> QED
  BY <1>4, <1>5

\* An expired session is not recorded, so its directory goes.
LEMMA ExpireKeeps ==
  ASSUME IInv, NEW r \in Requests, Expire(r)
  PROVE  IInv'
<1> USE DEF IInv, Moves, Leaves, OthersStay, At, Of, Creates, Finishes, HasToken, Finishing,
            Exporting, Over
<1>1. At(r, "expire") /\ Leaves(r)
  BY LeavesType, ReturnLeaves DEF Expire
<1>2. UNCHANGED <<sem, active, finishedOrder, results, engineSession, sealed, drained,
                  published, listed, exported, dead, faults>>
  BY DEF Expire, serverVars, engineVars, recorderVars
<1>3. Unlocks(r) /\ dirs' = dirs \ (req[r].expired \ listed)
  BY ReturnLeaves DEF Expire
<1>4. Shape'
  <2>1. RequestFits(r)'
    BY <1>1, <1>2, <1>3 DEF Shape, RequestFits, NoRequest
  <2>2. ServerTypes'
    BY <1>1, <1>2, <1>3 DEF Shape, Types, ServerTypes, FlagsStay, Unlocks
  <2>3. EngineTypes'
    BY <1>1, <1>2, <1>3 DEF Shape, Types, EngineTypes
  <2>4. RecorderTypes'
    BY <1>1, <1>2, <1>3 DEF Shape, Types, RecorderTypes
  <2> QED
    BY <1>1, <2>1, <2>2, <2>3, <2>4, ShapeMoves
<1>5. TokenIsOwned' /\ ExpiredIsOver'
  BY <1>1, <1>2, <1>3 DEF TokenIsOwned, ExpiredIsOver, NoRequest, FlagsStay, Unlocks
<1>6. LocksAreHeld'
  BY <1>1, <1>2, <1>3 DEF LocksAreHeld, NoRequest, FlagsStay, Unlocks, Shape, RequestFits
<1>7. CreatedIsNew'
  BY <1>1, <1>2, <1>3, NameAssumption DEF CreatedIsNew, NoRequest, FlagsStay, Unlocks,
     ExpiredIsOver, Shape, RequestFits
<1>8. EngineIsOwned'
  <2>1. (engineSession # NoSession => \/ engineSession \in active
                                      \/ \E q \in Requests : Creates(q) /\ Of(q) = engineSession)'
    BY <1>1, <1>2, <1>3 DEF EngineIsOwned, EndedIsGone, NoRequest, FlagsStay, Unlocks, Shape,
       Types, EngineTypes
  <2>2. (\A s \in listed : s \in active \/ \E q \in Requests : At(q, "list") /\ Of(q) = s)'
    BY <1>1, <1>2, <1>3 DEF EngineIsOwned, EndedIsGone, NoRequest, FlagsStay, Unlocks
  <2>3. (\A s \in active : ~info[s].finishing => engineSession = s /\ ~sealed)'
    BY <1>1, <1>2, <1>3 DEF EngineIsOwned, Shape, Types, ServerTypes, FlagsStay, Unlocks
  <2>4. \A q \in Requests : EndedIsGone(q)'
    BY <1>1, <1>2, <1>3 DEF EngineIsOwned, EndedIsGone, NoRequest, FlagsStay, Unlocks,
       EndedIsGone
  <2> QED
    BY <2>1, <2>2, <2>3, <2>4 DEF EngineIsOwned
<1>9. EvidenceIsTaken'
  BY <1>1, <1>2, <1>3 DEF EvidenceIsTaken, EvidenceSoFar, EvidenceIsWhole, Frozen, NoRequest,
     FlagsStay, Unlocks, Shape, RequestFits
<1>10. FinishedIsKept'
  BY <1>1, <1>2, <1>3 DEF FinishedIsKept, NoRequest, FlagsStay, Unlocks, ExpiredIsOver, Shape,
     Types, RecorderTypes
<1>11. AbandonedIsOver'
  BY <1>1, <1>2, <1>3 DEF AbandonedIsOver, NoRequest, FlagsStay, Unlocks, Shape, RequestFits
<1>12. DirectoriesAreOwned'
  BY <1>1, <1>2, <1>3 DEF DirectoriesAreOwned, NoRequest, FlagsStay, Unlocks, ExpiredIsOver,
     EngineIsOwned, Shape, Types, RecorderTypes
<1> QED
  BY <1>4, <1>5, <1>6, <1>7, <1>8, <1>9, <1>10, <1>11, <1>12

\* An abandoned session ends in the engine.
LEMMA AbandonEndKeeps ==
  ASSUME IInv, NEW r \in Requests, AbandonEnd(r)
  PROVE  IInv'
<1> USE DEF IInv, Moves, Leaves, OthersStay, At, Of, Creates, Finishes, HasToken, Finishing,
            Exporting, Over
<1>1. At(r, "abandon") /\ Moves(r, "abort")
  BY GotoMoves DEF AbandonEnd, Labels
<1>2. UNCHANGED <<sem, active, info, finishedOrder, results, published, listed, dirs, exported,
                  dead, faults>>
  BY DEF AbandonEnd, serverVars, engineVars, recorderVars
<1>3. /\ engineSession' # Of(r)
      /\ engineSession = Of(r) => engineSession' = NoSession /\ sealed' = FALSE /\ drained' = FALSE
      /\ engineSession # Of(r) => UNCHANGED <<engineSession, sealed, drained>>
  BY NameAssumption DEF AbandonEnd, EngineEnds, engineVars, Shape, RequestFits
<1>4. Shape'
  <2>1. RequestFits(r)'
    BY <1>1, <1>2, <1>3 DEF Shape, RequestFits
  <2>2. ServerTypes'
    BY <1>1, <1>2, <1>3 DEF Shape, Types, ServerTypes
  <2>3. EngineTypes'
    BY <1>1, <1>2, <1>3 DEF Shape, Types, EngineTypes
  <2>4. RecorderTypes'
    BY <1>1, <1>2, <1>3 DEF Shape, Types, RecorderTypes
  <2> QED
    BY <1>1, <2>1, <2>2, <2>3, <2>4, ShapeMoves
<1>5. LocksAreHeld' /\ TokenIsOwned' /\ CreatedIsNew' /\ FinishedIsKept' /\ ExpiredIsOver'
      /\ AbandonedIsOver' /\ DirectoriesAreOwned'
  BY <1>1, <1>2, <1>3 DEF LocksAreHeld, TokenIsOwned, CreatedIsNew, FinishedIsKept,
     ExpiredIsOver, AbandonedIsOver, DirectoriesAreOwned
<1>6. EngineIsOwned'
  BY <1>1, <1>2, <1>3 DEF EngineIsOwned, EndedIsGone, LocksAreHeld, TokenIsOwned
<1>7. EvidenceIsTaken'
  BY <1>1, <1>2, <1>3, NameAssumption DEF EvidenceIsTaken, EvidenceSoFar, EvidenceIsWhole,
     Frozen, LocksAreHeld, Shape, RequestFits
<1> QED
  BY <1>4, <1>5, <1>6, <1>7

\* The recorder forgets an abandoned session.
LEMMA AbortKeeps ==
  ASSUME IInv, NEW r \in Requests, Abort(r)
  PROVE  IInv'
<1> USE DEF IInv, Moves, Leaves, OthersStay, At, Of, Creates, Finishes, HasToken, Finishing,
            Exporting, Over
<1>1. At(r, "abort") /\ Moves(r, "forget")
  BY GotoMoves DEF Abort, Labels
<1>2. UNCHANGED <<sem, active, info, finishedOrder, results, engineSession, sealed, drained,
                  published, dirs, exported, dead, faults>>
  BY DEF Abort, serverVars, engineVars, recorderVars
<1>3. listed' = listed \ {Of(r)}
  BY DEF Abort, ListedAfterAbort
<1>4. Shape'
  <2>1. RequestFits(r)'
    BY <1>1, <1>2, <1>3 DEF Shape, RequestFits
  <2>2. ServerTypes'
    BY <1>1, <1>2, <1>3 DEF Shape, Types, ServerTypes
  <2>3. EngineTypes'
    BY <1>1, <1>2, <1>3 DEF Shape, Types, EngineTypes
  <2>4. RecorderTypes'
    BY <1>1, <1>2, <1>3 DEF Shape, Types, RecorderTypes
  <2> QED
    BY <1>1, <2>1, <2>2, <2>3, <2>4, ShapeMoves
<1>5. LocksAreHeld' /\ TokenIsOwned' /\ CreatedIsNew' /\ EngineIsOwned' /\ EvidenceIsTaken'
      /\ FinishedIsKept' /\ ExpiredIsOver' /\ AbandonedIsOver' /\ DirectoriesAreOwned'
  BY <1>1, <1>2, <1>3 DEF LocksAreHeld, TokenIsOwned, CreatedIsNew, EngineIsOwned, EndedIsGone,
     EvidenceIsTaken, EvidenceSoFar, EvidenceIsWhole, Frozen, FinishedIsKept, ExpiredIsOver,
     AbandonedIsOver, DirectoriesAreOwned
<1> QED
  BY <1>4, <1>5

\* The server forgets an abandoned session, and its request keeps the token.
LEMMA ForgetKeeps ==
  ASSUME IInv, NEW r \in Requests, Forget(r)
  PROVE  IInv'
<1> USE DEF IInv, Moves, Leaves, OthersStay, At, Of, Creates, Finishes, HasToken, Finishing,
            Exporting, Over
<1>1. At(r, "forget") /\ Moves(r, "free")
  BY GotoMoves DEF Forget, Labels
<1>2. UNCHANGED <<sem, info, finishedOrder, results, engineSession, sealed, drained, published,
                  listed, dirs, exported, dead, faults>>
  BY DEF Forget, serverVars, engineVars, recorderVars
<1>3. active' = active \ {Of(r)}
  BY DEF Forget
<1>4. Shape'
  <2>1. RequestFits(r)'
    BY <1>1, <1>2, <1>3 DEF Shape, RequestFits
  <2>2. ServerTypes'
    BY <1>1, <1>2, <1>3 DEF Shape, Types, ServerTypes, FlagsStay, Unlocks
  <2>3. EngineTypes'
    BY <1>1, <1>2, <1>3 DEF Shape, Types, EngineTypes
  <2>4. RecorderTypes'
    BY <1>1, <1>2, <1>3 DEF Shape, Types, RecorderTypes
  <2> QED
    BY <1>1, <2>1, <2>2, <2>3, <2>4, ShapeMoves
<1>5. LocksAreHeld' /\ CreatedIsNew' /\ EngineIsOwned' /\ EvidenceIsTaken'
      /\ FinishedIsKept' /\ ExpiredIsOver' /\ DirectoriesAreOwned'
  BY <1>1, <1>2, <1>3 DEF LocksAreHeld, CreatedIsNew, EngineIsOwned, EndedIsGone,
     EvidenceIsTaken, EvidenceSoFar, EvidenceIsWhole, Frozen, FinishedIsKept, ExpiredIsOver,
     DirectoriesAreOwned
<1>6. TokenIsOwned'
  BY <1>1, <1>2, <1>3 DEF TokenIsOwned, LocksAreHeld
<1>7. AbandonedIsOver'
  BY <1>1, <1>2, <1>3 DEF AbandonedIsOver, LocksAreHeld, FinishedIsKept, ExpiredIsOver, Shape,
     RequestFits
<1> QED
  BY <1>4, <1>5, <1>6, <1>7

\* The receive that does not block finds the token there.
LEMMA FreeKeeps ==
  ASSUME IInv, NEW r \in Requests, Free(r)
  PROVE  IInv'
<1> USE DEF IInv, Moves, Leaves, OthersStay, At, Of, Creates, Finishes, HasToken, Finishing,
            Exporting, Over
<1>1. At(r, "free") /\ Moves(r, "remove")
  BY GotoMoves DEF Free, Labels
<1>2. UNCHANGED <<active, info, finishedOrder, results, engineSession, sealed, drained,
                  published, listed, dirs, exported, dead, faults>>
  BY DEF Free, serverVars, engineVars, recorderVars
<1>3. sem = 1 /\ sem' = 0
  BY DEF Free, Shape, Types, ServerTypes, TokenIsOwned
<1>4. Shape'
  <2>1. RequestFits(r)'
    BY <1>1, <1>2, <1>3 DEF Shape, RequestFits
  <2>2. ServerTypes'
    BY <1>1, <1>2, <1>3 DEF Shape, Types, ServerTypes, FlagsStay, Unlocks
  <2>3. EngineTypes'
    BY <1>1, <1>2, <1>3 DEF Shape, Types, EngineTypes
  <2>4. RecorderTypes'
    BY <1>1, <1>2, <1>3 DEF Shape, Types, RecorderTypes
  <2> QED
    BY <1>1, <2>1, <2>2, <2>3, <2>4, ShapeMoves
<1>5. LocksAreHeld' /\ CreatedIsNew' /\ EngineIsOwned' /\ EvidenceIsTaken'
      /\ FinishedIsKept' /\ ExpiredIsOver' /\ AbandonedIsOver' /\ DirectoriesAreOwned'
  BY <1>1, <1>2, <1>3 DEF LocksAreHeld, CreatedIsNew, EngineIsOwned, EndedIsGone,
     EvidenceIsTaken, EvidenceSoFar, EvidenceIsWhole, Frozen, FinishedIsKept, ExpiredIsOver,
     AbandonedIsOver, DirectoriesAreOwned
<1>6. TokenIsOwned'
  BY <1>1, <1>2, <1>3 DEF TokenIsOwned
<1> QED
  BY <1>4, <1>5, <1>6

\* An abandoned session is not recorded, so its directory goes.
LEMMA RemoveAbandonedKeeps ==
  ASSUME IInv, NEW r \in Requests, RemoveAbandoned(r)
  PROVE  IInv'
<1> USE DEF IInv, Moves, Leaves, OthersStay, At, Of, Creates, Finishes, HasToken, Finishing,
            Exporting, Over
<1>1. At(r, "remove") /\ Leaves(r)
  BY LeavesType, ReturnLeaves DEF RemoveAbandoned
<1>2. UNCHANGED <<sem, active, finishedOrder, results, engineSession, sealed, drained,
                  published, listed, exported, dead, faults>>
  BY DEF RemoveAbandoned, serverVars, engineVars, recorderVars
<1>3. Unlocks(r) /\ dirs' = dirs \ ({Of(r)} \ listed)
  BY ReturnLeaves DEF RemoveAbandoned
<1>4. Shape'
  <2>1. RequestFits(r)'
    BY <1>1, <1>2, <1>3 DEF Shape, RequestFits, NoRequest
  <2>2. ServerTypes'
    BY <1>1, <1>2, <1>3 DEF Shape, Types, ServerTypes, FlagsStay, Unlocks
  <2>3. EngineTypes'
    BY <1>1, <1>2, <1>3 DEF Shape, Types, EngineTypes
  <2>4. RecorderTypes'
    BY <1>1, <1>2, <1>3 DEF Shape, Types, RecorderTypes
  <2> QED
    BY <1>1, <2>1, <2>2, <2>3, <2>4, ShapeMoves
<1>5. TokenIsOwned'
  BY <1>1, <1>2, <1>3 DEF TokenIsOwned, NoRequest, FlagsStay, Unlocks
<1>6. LocksAreHeld'
  BY <1>1, <1>2, <1>3 DEF LocksAreHeld, NoRequest, FlagsStay, Unlocks, Shape, RequestFits
<1>7. CreatedIsNew'
  BY <1>1, <1>2, <1>3, NameAssumption DEF CreatedIsNew, NoRequest, FlagsStay, Unlocks, Shape,
     RequestFits
<1>8. EngineIsOwned'
  <2>1. (engineSession # NoSession => \/ engineSession \in active
                                      \/ \E q \in Requests : Creates(q) /\ Of(q) = engineSession)'
    BY <1>1, <1>2, <1>3 DEF EngineIsOwned, EndedIsGone, NoRequest, FlagsStay, Unlocks, Shape,
       Types, EngineTypes
  <2>2. (\A s \in listed : s \in active \/ \E q \in Requests : At(q, "list") /\ Of(q) = s)'
    BY <1>1, <1>2, <1>3 DEF EngineIsOwned, EndedIsGone, NoRequest, FlagsStay, Unlocks
  <2>3. (\A s \in active : ~info[s].finishing => engineSession = s /\ ~sealed)'
    BY <1>1, <1>2, <1>3 DEF EngineIsOwned, Shape, Types, ServerTypes, FlagsStay, Unlocks
  <2>4. \A q \in Requests : EndedIsGone(q)'
    BY <1>1, <1>2, <1>3 DEF EngineIsOwned, EndedIsGone, NoRequest, FlagsStay, Unlocks,
       EndedIsGone
  <2> QED
    BY <2>1, <2>2, <2>3, <2>4 DEF EngineIsOwned
<1>9. EvidenceIsTaken'
  BY <1>1, <1>2, <1>3 DEF EvidenceIsTaken, EvidenceSoFar, EvidenceIsWhole, Frozen, NoRequest,
     FlagsStay, Unlocks, Shape, RequestFits
<1>10. FinishedIsKept'
  BY <1>1, <1>2, <1>3 DEF FinishedIsKept, NoRequest, FlagsStay, Unlocks, AbandonedIsOver, Shape,
     Types, RecorderTypes
<1>11. ExpiredIsOver'
  BY <1>1, <1>2, <1>3 DEF ExpiredIsOver, NoRequest, FlagsStay, Unlocks, AbandonedIsOver
<1>12. AbandonedIsOver'
  BY <1>1, <1>2, <1>3 DEF AbandonedIsOver, NoRequest, FlagsStay, Unlocks, Shape, RequestFits
<1>13. DirectoriesAreOwned'
  BY <1>1, <1>2, <1>3 DEF DirectoriesAreOwned, NoRequest, FlagsStay, Unlocks, EngineIsOwned,
     EndedIsGone, Shape, RequestFits
<1> QED
  BY <1>4, <1>5, <1>6, <1>7, <1>8, <1>9, <1>10, <1>11, <1>12, <1>13

\* The newest results are kept, the one just added among them.
LEMMA KeptFacts ==
  ASSUME NEW f \in Seq(Sessions), Len(f) <= FinishedSessionLimit, NEW s \in Sessions
  PROVE  LET order == Append(f, s)
         IN  /\ Kept(order) \in Seq(Sessions) /\ Len(Kept(order)) <= FinishedSessionLimit
             /\ Range(order) = Range(f) \cup {s}
             /\ Range(Kept(order)) \subseteq Range(order) /\ s \in Range(Kept(order))
<1> DEFINE order == Append(f, s)
<1>1. order \in Seq(Sessions) /\ Len(order) = Len(f) + 1 /\ order[Len(order)] = s
      /\ \A i \in 1..Len(f) : order[i] = f[i]
  OBVIOUS
<1>2. Len(f) \in Nat /\ DOMAIN order = 1..Len(order) /\ DOMAIN f = 1..Len(f)
  BY <1>1
<1>3. Range(order) = Range(f) \cup {s}
  <2>1. ASSUME NEW x \in Range(order) PROVE x \in Range(f) \cup {s}
    <3>1. PICK i \in 1..Len(order) : x = order[i]
      BY <2>1, <1>2 DEF Range
    <3>2. i \in 1..Len(f) \/ i = Len(order)
      BY <1>1, <1>2
    <3> HIDE DEF order
    <3> QED
      BY <1>1, <1>2, <3>1, <3>2 DEF Range
  <2>2. ASSUME NEW x \in Range(f) PROVE x \in Range(order)
    <3>1. PICK i \in 1..Len(f) : x = f[i]
      BY <2>2, <1>2 DEF Range
    <3>2. i \in 1..Len(order) /\ order[i] = x
      BY <1>1, <1>2, <3>1
    <3> HIDE DEF order
    <3> QED
      BY <1>2, <3>2 DEF Range
  <2>3. s \in Range(order)
    <3>1. Len(order) \in 1..Len(order)
      BY <1>1, <1>2
    <3> HIDE DEF order
    <3> QED
      BY <1>1, <1>2, <3>1 DEF Range
  <2> HIDE DEF order
  <2> QED
    BY <2>1, <2>2, <2>3
<1> HIDE DEF order
<1>4. CASE Len(order) > FinishedSessionLimit
  <2> DEFINE kept == SubSeq(order, 2, Len(order))
  <2>1. Len(order) = FinishedSessionLimit + 1 /\ Kept(order) = kept
    BY <1>1, <1>2, <1>4, LimitAssumption DEF Kept
  <2>2. /\ kept \in Seq(Sessions) /\ Len(kept) = FinishedSessionLimit
        /\ \A i \in 1..FinishedSessionLimit : kept[i] = order[i + 1]
    <3>1. \A i \in 2..Len(order) : order[i] \in Sessions
      BY <1>1, <1>2
    <3>2. Len(order) \in Int /\ 2 <= Len(order)
      BY <2>1, LimitAssumption
    <3> QED
      BY <2>1, <3>1, <3>2, SubSeqProperties, LimitAssumption
  <2>3. DOMAIN kept = 1..FinishedSessionLimit
    BY <2>2
  <2> HIDE DEF kept
  <2>4. \A i \in 1..FinishedSessionLimit : i + 1 \in 1..Len(order)
    BY <2>1, LimitAssumption
  <2>5. Range(kept) \subseteq Range(order)
    BY <1>2, <2>2, <2>3, <2>4 DEF Range
  <2>6. FinishedSessionLimit \in 1..FinishedSessionLimit
        /\ kept[FinishedSessionLimit] = order[Len(order)]
    BY <2>1, <2>2, LimitAssumption
  <2>7. s \in Range(kept)
    BY <1>1, <2>3, <2>6 DEF Range
  <2> QED
    BY <1>3, <2>1, <2>2, <2>5, <2>7, LimitAssumption DEF order
<1>5. CASE ~(Len(order) > FinishedSessionLimit)
  <2>1. Kept(order) = order /\ Len(order) <= FinishedSessionLimit
    BY <1>1, <1>2, <1>5, LimitAssumption DEF Kept
  <2> QED
    BY <1>1, <1>3, <2>1 DEF order
<1> QED
  BY <1>4, <1>5

\* A new session is nobody's yet.
LEMMA CreateKeeps ==
  ASSUME IInv, NEW r \in Requests, NEW s \in Sessions, Create(r, s)
  PROVE  IInv'
<1> USE DEF IInv, Moves, Leaves, OthersStay, At, Of, Creates, Finishes, HasToken, Finishing,
            Exporting, Over
<1>1. At(r, "idle") /\ sem = 0 /\ Unused(s) /\ OthersStay(r)
  <2>1. [NoRequest EXCEPT !.op = "create", !.session = s, !.at = "begin"] \in RequestType
    BY DEF NoRequest, RequestType, Labels
  <2> QED
    BY <2>1 DEF Create, Shape, Types, NoRequest, Unused
<1>2. UNCHANGED <<active, info, finishedOrder, results, engineSession, sealed, drained,
                  published, listed, dirs, exported, dead, faults>>
  BY DEF Create, serverVars, engineVars, recorderVars
<1>3. /\ sem' = 1
      /\ req'[r].op = "create" /\ req'[r].session = s /\ req'[r].at = "begin"
      /\ req'[r].taken = 0 /\ req'[r].expired = {}
  BY DEF Create, NoRequest, Shape, Types
<1>4. Shape'
  <2>1. RequestFits(r)'
    BY <1>1, <1>2, <1>3 DEF Shape, RequestFits
  <2>2. ServerTypes'
    BY <1>1, <1>2, <1>3 DEF Shape, Types, ServerTypes, FlagsStay, Unlocks
  <2>3. EngineTypes'
    BY <1>1, <1>2, <1>3 DEF Shape, Types, EngineTypes
  <2>4. RecorderTypes'
    BY <1>1, <1>2, <1>3 DEF Shape, Types, RecorderTypes
  <2> QED
    BY <1>1, <2>1, <2>2, <2>3, <2>4, ShapeMoves
<1>5. LocksAreHeld' /\ TokenIsOwned' /\ EngineIsOwned' /\ EvidenceIsTaken'
      /\ FinishedIsKept' /\ ExpiredIsOver' /\ AbandonedIsOver'
  BY <1>1, <1>2, <1>3 DEF LocksAreHeld, TokenIsOwned, EngineIsOwned, EndedIsGone,
     EvidenceIsTaken, EvidenceSoFar, EvidenceIsWhole, Frozen, FinishedIsKept, ExpiredIsOver,
     AbandonedIsOver
<1>6. CreatedIsNew'
  BY <1>1, <1>2, <1>3 DEF CreatedIsNew, TokenIsOwned, EngineIsOwned, Unused
<1>7. DirectoriesAreOwned'
  BY <1>1, <1>2, <1>3 DEF DirectoriesAreOwned, Shape, RequestFits
<1> QED
  BY <1>4, <1>5, <1>6, <1>7

\* A request that has found its session waits for its lock.
LEMMA RequestKeeps ==
  ASSUME IInv, NEW r \in Requests, NEW s \in Sessions, NEW op \in {"use", "finish"},
         Request(r, op, s)
  PROVE  IInv'
<1> USE DEF IInv, Moves, Leaves, OthersStay, At, Of, Creates, Finishes, HasToken, Finishing,
            Exporting, Over
<1>1. At(r, "idle") /\ s \in active /\ OthersStay(r)
  <2>1. [NoRequest EXCEPT !.op = op, !.session = s, !.at = "lock"] \in RequestType
    BY DEF NoRequest, RequestType, Labels
  <2> QED
    BY <2>1 DEF Request, Shape, Types, NoRequest
<1>2. UNCHANGED <<sem, active, info, finishedOrder, results, engineSession, sealed, drained,
                  published, listed, dirs, exported, dead, faults>>
  BY DEF Request, serverVars, engineVars, recorderVars
<1>3. /\ req'[r].op = op /\ req'[r].session = s /\ req'[r].at = "lock"
      /\ req'[r].taken = 0 /\ req'[r].expired = {}
  BY DEF Request, NoRequest, Shape, Types
<1>4. Shape'
  <2>1. RequestFits(r)'
    BY <1>1, <1>2, <1>3 DEF Shape, RequestFits
  <2>2. ServerTypes'
    BY <1>1, <1>2, <1>3 DEF Shape, Types, ServerTypes
  <2>3. EngineTypes'
    BY <1>1, <1>2, <1>3 DEF Shape, Types, EngineTypes
  <2>4. RecorderTypes'
    BY <1>1, <1>2, <1>3 DEF Shape, Types, RecorderTypes
  <2> QED
    BY <1>1, <2>1, <2>2, <2>3, <2>4, ShapeMoves
<1>5. LocksAreHeld' /\ TokenIsOwned' /\ EngineIsOwned' /\ EvidenceIsTaken'
      /\ FinishedIsKept' /\ ExpiredIsOver' /\ AbandonedIsOver'
  BY <1>1, <1>2, <1>3 DEF LocksAreHeld, TokenIsOwned, EngineIsOwned, EndedIsGone,
     EvidenceIsTaken, EvidenceSoFar, EvidenceIsWhole, Frozen, FinishedIsKept, ExpiredIsOver,
     AbandonedIsOver
<1>6. CreatedIsNew'
  BY <1>1, <1>2, <1>3 DEF CreatedIsNew, TokenIsOwned
<1>7. DirectoriesAreOwned'
  BY <1>1, <1>2, <1>3 DEF DirectoriesAreOwned, Shape, RequestFits
<1> QED
  BY <1>4, <1>5, <1>6, <1>7

\* An event is one of a session whose evidence is not taken yet.
LEMMA EngineEventKeeps ==
  ASSUME IInv, EngineEvent
  PROVE  IInv'
<1> USE DEF IInv
<1>1. /\ engineSession \in Sessions /\ ~drained
      /\ published' \in [Sessions -> Nat]
      /\ \A s \in Sessions \ {engineSession} : published'[s] = published[s]
  <2>1. \A s \in Sessions : published[s] \in Nat
    BY DEF Shape, Types, EngineTypes
  <2> QED
    BY <2>1 DEF EngineEvent, Shape, Types, EngineTypes
<1>2. UNCHANGED <<sem, active, info, finishedOrder, results, req, engineSession, sealed, drained,
                  listed, dirs, exported, dead, faults>>
  BY DEF EngineEvent, serverVars, engineVars, recorderVars
<1>3. Shape'
  <2>1. \A q \in Requests : RequestFits(q)'
    BY <1>2 DEF Shape, RequestFits, At, Of, Creates, Finishes
  <2>2. ServerTypes' /\ RecorderTypes'
    BY <1>2 DEF Shape, Types, ServerTypes, RecorderTypes
  <2>3. EngineTypes'
    BY <1>1, <1>2 DEF Shape, Types, EngineTypes
  <2> QED
    BY <1>2, <2>1, <2>2, <2>3 DEF Shape, Types
<1>4. EvidenceIsTaken'
  <2>1. ASSUME NEW q \in Requests PROVE EvidenceSoFar(q)'
    BY <1>1, <1>2 DEF EvidenceIsTaken, EvidenceSoFar, Frozen, At, Of, Finishes, Shape, RequestFits,
                      Exporting, Finishing
  <2>2. ASSUME NEW s \in Sessions PROVE EvidenceIsWhole(s)'
    BY <1>1, <1>2 DEF EvidenceIsTaken, EvidenceIsWhole, Frozen
  <2> QED
    BY <2>1, <2>2 DEF EvidenceIsTaken
<1>5. LocksAreHeld' /\ TokenIsOwned' /\ CreatedIsNew' /\ EngineIsOwned' /\ FinishedIsKept'
      /\ ExpiredIsOver' /\ AbandonedIsOver' /\ DirectoriesAreOwned'
  BY <1>2 DEF LocksAreHeld, TokenIsOwned, CreatedIsNew, EngineIsOwned, EndedIsGone, FinishedIsKept,
              ExpiredIsOver, AbandonedIsOver, DirectoriesAreOwned, At, Of, Creates, Finishes,
              HasToken
<1> QED
  BY <1>3, <1>4, <1>5

\* A published session moves from the active to the finished ones; the oldest expires.
LEMMA PublishKeeps ==
  ASSUME IInv, NEW r \in Requests, Publish(r)
  PROVE  IInv'
<1> USE DEF IInv, OthersStay, At, Of, Creates, Finishes, HasToken, Finishing, Exporting, Over
<1> DEFINE order == Append(finishedOrder, Of(r))
           expired == Range(order) \ Range(Kept(order))
<1>1. At(r, "publish") /\ Of(r) \in Sessions
  BY DEF Publish, Shape, RequestFits
<1>2. UNCHANGED <<sem, info, engineSession, sealed, drained, published, listed, dirs, exported,
                  dead, faults>>
  BY DEF Publish, engineVars, recorderVars
<1>3. /\ finishedOrder' = Kept(order) /\ Kept(order) \in Seq(Sessions)
      /\ Len(Kept(order)) <= FinishedSessionLimit
      /\ Of(r) \in Range(Kept(order))
      /\ Range(finishedOrder) \cup {Of(r)} = Range(Kept(order)) \cup expired
      /\ Range(Kept(order)) \cap expired = {}
      /\ Range(Kept(order)) \cup expired \subseteq Sessions
  <2>1. finishedOrder \in Seq(Sessions) /\ Len(finishedOrder) <= FinishedSessionLimit
    BY DEF Shape, Types, ServerTypes
  <2>2. Range(finishedOrder) \subseteq Sessions
    BY <2>1, RangeOfSeq
  <2> QED
    BY <1>1, <2>1, <2>2, KeptFacts DEF Publish
<1>4. active' = active \ {Of(r)}
  BY DEF Publish
<1>5. /\ results' \in [Sessions -> Nat \cup {None}] /\ results'[Of(r)] = info[Of(r)].cursor
      /\ \A s \in Sessions \ (expired \cup {Of(r)}) : results'[s] = results[s]
  <2>1. results' = [s \in Sessions |-> IF s \in expired THEN None ELSE
                                       IF s = Of(r) THEN info[s].cursor ELSE results[s]]
    BY DEF Publish
  <2> HIDE DEF expired, order
  <2>2. info[Of(r)].cursor \in Nat \cup {None} /\ \A s \in Sessions : results[s] \in Nat \cup {None}
    BY <1>1 DEF Shape, Types, ServerTypes, InfoType
  <2> QED
    BY <1>1, <1>3, <2>1, <2>2
<1>6. /\ OthersStay(r) /\ req'[r].at = "release" /\ req'[r].expired = expired
      /\ \A f \in {"op", "session", "taken"} : req'[r][f] = req[r][f]
  <2>1. req' = [req EXCEPT ![r] = [req[r] EXCEPT !.at = "release", !.expired = expired]]
    BY DEF Publish
  <2> HIDE DEF expired, order
  <2>2. [req[r] EXCEPT !.at = "release", !.expired = expired] \in RequestType
    BY ZenonT(30), <1>3 DEF Shape, Types, RequestType, Labels
  <2> QED
    BY <2>1, <2>2 DEF Shape, Types, RequestType
<1> HIDE DEF expired, order
<1>7. Shape'
  <2>1. RequestFits(r)'
    BY <1>1, <1>6 DEF Shape, RequestFits
  <2>2. ServerTypes'
    BY <1>2, <1>3, <1>4, <1>5 DEF Shape, Types, ServerTypes
  <2>3. EngineTypes' /\ RecorderTypes'
    BY <1>2 DEF Shape, Types, EngineTypes, RecorderTypes
  <2> QED
    BY <1>6, <2>1, <2>2, <2>3, ShapeMoves
<1>8. LocksAreHeld'
  BY <1>1, <1>2, <1>4, <1>6 DEF LocksAreHeld, Shape, RequestFits
<1>9. TokenIsOwned'
  BY <1>1, <1>2, <1>4, <1>6 DEF TokenIsOwned, LocksAreHeld
<1>10. CreatedIsNew'
  BY <1>1, <1>2, <1>6 DEF CreatedIsNew
<1>11. EngineIsOwned'
  BY <1>1, <1>2, <1>4, <1>6 DEF EngineIsOwned, EndedIsGone, TokenIsOwned, LocksAreHeld
<1>12. EvidenceIsTaken'
  <2>1. ASSUME NEW q \in Requests PROVE EvidenceSoFar(q)'
    BY <1>1, <1>2, <1>6 DEF EvidenceIsTaken, EvidenceSoFar, Frozen
  <2>2. ASSUME NEW s \in Sessions PROVE EvidenceIsWhole(s)'
    BY <1>2 DEF EvidenceIsTaken, EvidenceIsWhole, Frozen
  <2> QED
    BY <2>1, <2>2 DEF EvidenceIsTaken
<1>13. info[Of(r)].prepared /\ info[Of(r)].finishing /\ Of(r) \in active /\ Of(r) \in dirs
       /\ \A s \in active : s = Of(r)
  BY <1>1 DEF EvidenceIsTaken, EvidenceSoFar, LocksAreHeld, DirectoriesAreOwned, TokenIsOwned
<1>14. FinishedIsKept'
  BY <1>1, <1>2, <1>3, <1>4, <1>5, <1>13 DEF FinishedIsKept
<1>15. \A q \in Requests \ {r}, s \in expired : s \notin req[q].expired
  BY <1>3, <1>13 DEF ExpiredIsOver
<1>16. ExpiredIsOver'
  BY <1>1, <1>2, <1>3, <1>4, <1>6, <1>13, <1>15 DEF ExpiredIsOver, FinishedIsKept,
     EvidenceIsTaken, EvidenceIsWhole
<1>17. AbandonedIsOver'
  BY <1>1, <1>2, <1>3, <1>6, <1>13 DEF AbandonedIsOver, EngineIsOwned, EndedIsGone
<1>18. DirectoriesAreOwned'
  BY <1>1, <1>2, <1>3, <1>4, <1>6 DEF DirectoriesAreOwned, Shape, RequestFits
<1> QED
  BY <1>7, <1>8, <1>9, <1>10, <1>11, <1>12, <1>14, <1>16, <1>17, <1>18

LEMMA InitIInv == Init => IInv
<1> SUFFICES ASSUME Init PROVE IInv
  OBVIOUS
<1> USE DEF Init, At, Of, Creates, Finishes, HasToken, NoRequest
<1>1. Range(finishedOrder) = {}
  BY DEF Range
<1>2. Shape
  <2>1. NoRequest \in RequestType
    BY DEF RequestType, Labels
  <2>2. ServerTypes
    BY LimitAssumption DEF ServerTypes, InfoType
  <2>3. EngineTypes
    BY DEF EngineTypes
  <2>5. RecorderTypes
    <3>1. 0 \in 0..MaxFaults
      BY BoundAssumption
    <3> QED
      BY <3>1 DEF RecorderTypes
  <2>4. \A r \in Requests : RequestFits(r)
    BY DEF RequestFits, Finishing, Exporting
  <2> QED
    BY <2>1, <2>2, <2>3, <2>4, <2>5 DEF Shape, Types
<1>3. LocksAreHeld /\ TokenIsOwned /\ CreatedIsNew /\ EngineIsOwned
  BY DEF LocksAreHeld, TokenIsOwned, CreatedIsNew, EngineIsOwned, EndedIsGone, Over, Finishing,
         Exporting
<1>4. EvidenceIsTaken
  BY DEF EvidenceIsTaken, EvidenceSoFar, EvidenceIsWhole, Finishing, Exporting
<1>5. FinishedIsKept /\ ExpiredIsOver /\ AbandonedIsOver /\ DirectoriesAreOwned
  BY <1>1 DEF FinishedIsKept, ExpiredIsOver, AbandonedIsOver, DirectoriesAreOwned
<1> QED
  BY <1>2, <1>3, <1>4, <1>5 DEF IInv

LEMMA FaultsAreFew ==
  ASSUME IInv, Fault
  PROVE  faults' \in 0..MaxFaults
BY BoundAssumption DEF IInv, Shape, Types, RecorderTypes, Fault

\* The requests that find nothing to do and those that fail for a retry only return.
LEMMA ReturnSteps ==
  ASSUME IInv, NEW r \in Requests,
         \/ UseLock(r) /\ ~MayUse(Of(r))
         \/ Used(r)
         \/ FinishLock(r) /\ ~StillActive(Of(r))
         \/ SealOutputs(r) /\ engineSession # Of(r)
         \/ FinishFails(r)
         \/ FinishRecording(r) /\ Of(r) \notin listed
         \/ AbandonEndFails(r)
  PROVE  IInv'
<1> USE DEF serverVars, engineVars, recorderVars, At
<1>1. Shape
  BY DEF IInv
<1>2. ASSUME Return(r) PROVE Leaves(r) /\ Unlocks(r)
  BY <1>1, <1>2, ReturnLeaves
<1>3. faults \in 0..MaxFaults
  BY <1>1 DEF Shape, Types, RecorderTypes
<1>4. CASE UseLock(r) /\ ~MayUse(Of(r))
  BY <1>2, <1>3, <1>4, ReturnKeeps DEF UseLock
<1>5. CASE Used(r)
  BY <1>2, <1>3, <1>5, ReturnKeeps DEF Used
<1>6. CASE FinishLock(r) /\ ~StillActive(Of(r))
  BY <1>2, <1>3, <1>6, ReturnKeeps DEF FinishLock
<1>7. CASE SealOutputs(r) /\ engineSession # Of(r)
  BY <1>2, <1>3, <1>7, ReturnKeeps DEF SealOutputs
<1>8. CASE FinishFails(r)
  BY <1>2, <1>8, FaultsAreFew, ReturnKeeps DEF FinishFails
<1>9. CASE FinishRecording(r) /\ Of(r) \notin listed
  <2>1. listed' = listed
    BY <1>9 DEF FinishRecording
  <2> QED
    BY <1>2, <1>3, <1>9, <2>1, ReturnKeeps DEF FinishRecording
<1>10. CASE AbandonEndFails(r)
  BY <1>2, <1>10, FaultsAreFew, ReturnKeeps DEF AbandonEndFails
<1> QED
  BY <1>4, <1>5, <1>6, <1>7, <1>8, <1>9, <1>10

LEMMA StepIInv == IInv /\ [Next]_vars => IInv'
<1> SUFFICES ASSUME IInv, [Next]_vars PROVE IInv'
  OBVIOUS
<1>1. ASSUME NEW r \in Requests, BeginSession(r) PROVE IInv'
  BY <1>1, BeginSessionKeeps
<1>2. ASSUME NEW r \in Requests, Progress(r) PROVE IInv'
  BY <1>1, <1>2, StartRecordingKeeps, ListKeeps, UseLockKeeps, FinishLockAgainKeeps,
     FinishLockFirstKeeps, SettleKeeps, SealOutputsKeeps, WaitForSynthesisKeeps, SnapshotKeeps,
     WriteEventsKeeps, WriteEventsFailsKeeps, PrepareKeeps, FinishRecordingKeeps,
     EndSessionCreatedKeeps, EndSessionFinishedKeeps, PublishKeeps, ReleaseKeeps, ExpireKeeps,
     AbandonEndKeeps, AbortKeeps, ForgetKeeps, FreeKeeps, RemoveAbandonedKeeps, ReturnSteps
     DEF Progress
<1>3. ASSUME NEW r \in Requests, Failure(r) PROVE IInv'
  BY <1>3, StartRecordingFailsKeeps, ExportFailsKeeps, ReturnSteps DEF Failure
<1>4. CASE UNCHANGED vars
  BY <1>4 DEF vars, serverVars, engineVars, recorderVars, IInv, Shape, Types, ServerTypes,
     EngineTypes, RecorderTypes, RequestFits, LocksAreHeld, TokenIsOwned, CreatedIsNew,
     EngineIsOwned, EndedIsGone, EvidenceIsTaken, EvidenceSoFar, EvidenceIsWhole, Frozen,
     FinishedIsKept, ExpiredIsOver, AbandonedIsOver, DirectoriesAreOwned, At, Of, Creates,
     Finishes, HasToken
<1> QED
  BY <1>2, <1>3, <1>4, EngineEventKeeps, CaptureFailsKeeps, CreateKeeps, RequestKeeps DEF Next

THEOREM Invariant == Spec => []IInv
<1>1. Init => IInv
  BY InitIInv
<1>2. IInv /\ [Next]_vars => IInv'
  BY StepIInv
<1> QED
  BY <1>1, <1>2, PTL DEF Spec

-----------------------------------------------------------------------------
(* The theorems *)

\* Every state of the server has its type.
THEOREM TypeCorrect == Spec => []TypeOK
<1>1. IInv => TypeOK
  BY TypeParts DEF IInv, Shape
<1> QED
  BY <1>1, Invariant, PTL

\* createSession and s.sem: the exclusive token is out exactly as long as a session
\* exists in the server, the engine or the recorder.
THEOREM TokenCorrect == Spec => []TokenCoversSession
<1>1. IInv => TokenCoversSession
  <2> SUFFICES ASSUME IInv PROVE TokenCoversSession
    OBVIOUS
  <2> USE DEF IInv, Shape, Types, ServerTypes, EngineTypes
  <2>1. Cardinality(active) <= 1
    <3>1. CASE active = {}
      BY <3>1, FS_EmptySet
    <3>2. CASE active # {}
      <4>1. PICK s \in active : active = {s}
        BY <3>2 DEF TokenIsOwned
      <4>2. Cardinality({s}) = 1
        BY FS_Singleton
      <4> QED
        BY <4>1, <4>2
    <3> QED
      BY <3>1, <3>2
  <2>2. active # {} \/ engineSession # NoSession \/ listed # {}
          => active # {} \/ \E r \in Requests : Creates(r)
    BY DEF EngineIsOwned, Creates, At
  <2>3. sem = 1 <=> active # {} \/ \E r \in Requests : HasToken(r)
    BY DEF TokenIsOwned
  <2>4. \A r \in Requests : HasToken(r) =>
          req[r].at \in {"begin", "start", "list", "end", "release", "free"}
    BY DEF HasToken, Creates, At
  <2> QED
    BY <2>1, <2>2, <2>3, <2>4 DEF TokenCoversSession, HasToken
<1> QED
  BY <1>1, Invariant, PTL

\* lockActive: a request that uses a session has it to itself, whatever finish is
\* called at the same time.
THEOREM UseCorrect == Spec => []UseIsProtected
<1>1. IInv => UseIsProtected
  <2> SUFFICES ASSUME IInv, NEW r \in Requests, At(r, "using")
               PROVE  /\ Of(r) \in active /\ engineSession = Of(r) /\ ~sealed
                      /\ \A q \in Requests \ {r} : Of(q) = Of(r) => At(q, "lock")
    BY DEF UseIsProtected, At
  <2>1. info[Of(r)].mu = r /\ Of(r) \in active /\ ~info[Of(r)].finishing
    BY DEF IInv, LocksAreHeld
  <2>2. Of(r) \in Sessions /\ NoSession # Of(r)
    BY <2>1, NameAssumption DEF IInv, Shape, Types, ServerTypes
  <2>3. engineSession = Of(r) /\ ~sealed
    BY <2>1 DEF IInv, EngineIsOwned
  <2>4. ASSUME NEW q \in Requests \ {r}, Of(q) = Of(r) PROVE At(q, "lock")
    <3>1. ~At(q, "using") /\ ~Finishes(q)
      BY <2>1, <2>4 DEF IInv, LocksAreHeld
    <3>2. ~Creates(q) /\ req[q].at \notin {"release", "free"}
      BY <2>1, <2>4 DEF IInv, TokenIsOwned, HasToken
    <3>3. req[q].at \notin Over
      BY <2>1, <2>4 DEF IInv, EngineIsOwned, EndedIsGone
    <3>4. ~At(q, "idle") /\ (At(q, "end") => req[q].op \in {"create", "finish"})
      BY <2>2, <2>4 DEF IInv, Shape, RequestFits
    <3>5. req[q].at \in Labels
      BY DEF IInv, Shape, Types, RequestType
    <3> QED
      BY <3>1, <3>2, <3>3, <3>4, <3>5 DEF Labels, Creates, Finishes, Finishing, Exporting, Over, At
  <2> QED
    BY <2>1, <2>3, <2>4
<1> QED
  BY <1>1, Invariant, PTL

\* prepareFinish and publish: the cursor a finished session is reported with is that
\* of its events.json, and no event of it came after.
THEOREM ResultCorrect == Spec => []ResultIsWhole
<1>1. IInv => ResultIsWhole
  <2> SUFFICES ASSUME IInv, NEW s \in Range(finishedOrder)
               PROVE  results[s] = exported[s] /\ exported[s] = published[s]
    BY DEF ResultIsWhole
  <2>1. s \in Sessions /\ info[s].prepared /\ results[s] = info[s].cursor
    BY DEF IInv, FinishedIsKept, Shape, Types, RecorderTypes
  <2> QED
    BY <2>1 DEF IInv, EvidenceIsTaken, EvidenceIsWhole
<1> QED
  BY <1>1, Invariant, PTL

\* The clean-up of finished and of abandoned sessions leaves exactly the directories
\* whose artifacts are still reported.
THEOREM DirectoriesCorrect == Spec => []DirectoriesAreAccounted
<1>1. IInv => DirectoriesAreAccounted
  BY DEF IInv, FinishedIsKept, DirectoriesAreOwned, DirectoriesAreAccounted
<1> QED
  BY <1>1, Invariant, PTL

LEMMA EvidenceStays ==
  ASSUME IInv, Next, NEW s \in Sessions, info[s].prepared
  PROVE  exported'[s] = exported[s] /\ info'[s].cursor = info[s].cursor
         /\ published'[s] = published[s]
<1>1. EvidenceIsWhole(s)
  BY DEF IInv, EvidenceIsTaken
<1>2. CASE EngineEvent
  BY <1>1, <1>2 DEF EngineEvent, EvidenceIsWhole, Frozen, serverVars, recorderVars,
     IInv, Shape, Types, EngineTypes
<1>3. ASSUME NEW r \in Requests, WriteEvents(r)
      PROVE  UNCHANGED <<info, published>> /\ exported'[s] = exported[s]
  <2>1. s # Of(r)
    BY <1>3 DEF WriteEvents, IInv, EvidenceIsTaken, EvidenceSoFar, Exporting, At
  <2> QED
    BY <1>3, <2>1 DEF WriteEvents, serverVars, IInv, Shape, Types, RecorderTypes
<1>4. ASSUME NEW r \in Requests, Prepare(r)
      PROVE  UNCHANGED <<exported, published>> /\ info'[s] = info[s]
  <2>1. s # Of(r)
    BY <1>4 DEF Prepare, IInv, EvidenceIsTaken, EvidenceSoFar, Exporting, At
  <2> QED
    BY <1>4, <2>1 DEF Prepare, recorderVars, IInv, Shape, Types, ServerTypes
<1>5. \A r \in Requests : Return(r) => info'[s].cursor = info[s].cursor
  <2>1. \A r \in Requests : Return(r) => FlagsStay
    BY ReturnLeaves DEF IInv, Unlocks
  <2> QED
    BY <2>1 DEF FlagsStay
<1>6. ASSUME NEW r \in Requests, UseLock(r) \/ FinishLock(r) PROVE info'[s].cursor = info[s].cursor
  <2>1. info[s] \in InfoType /\ info \in [Sessions -> InfoType]
    BY DEF IInv, Shape, Types, ServerTypes
  <2>2. CASE Return(r)
    BY <1>5, <2>2
  <2>3. CASE info' = [info EXCEPT ![Of(r)] = [info[Of(r)] EXCEPT !.mu = r]]
    BY <2>1, <2>3 DEF InfoType
  <2>4. CASE info' = [info EXCEPT ![Of(r)] = [info[Of(r)] EXCEPT !.mu = r, !.finishing = TRUE]]
    BY <2>1, <2>4 DEF InfoType
  <2> QED
    BY <1>6, <2>2, <2>3, <2>4 DEF UseLock, FinishLock
<1>7. CASE \E r \in Requests : Progress(r)
  <2> SUFFICES ASSUME NEW r \in Requests, Progress(r), ~WriteEvents(r), ~Prepare(r)
               PROVE  UNCHANGED <<exported, published>> /\ info'[s].cursor = info[s].cursor
    BY <1>3, <1>4, <1>7
  <2>1. CASE UseLock(r) \/ FinishLock(r)
    BY <1>6, <2>1 DEF UseLock, FinishLock, recorderVars
  <2>2. CASE ~(UseLock(r) \/ FinishLock(r))
    <3> USE DEF serverVars, recorderVars
    <3>1. CASE Used(r) \/ SealOutputs(r) \/ FinishRecording(r) \/ Expire(r) \/ RemoveAbandoned(r)
      BY <1>5, <3>1 DEF Used, SealOutputs, FinishRecording, Expire, RemoveAbandoned
    <3>2. CASE BeginSession(r) \/ StartRecording(r) \/ List(r) \/ Settle(r) \/ WaitForSynthesis(r)
               \/ Snapshot(r) \/ EndSession(r)
      BY <3>2 DEF BeginSession, StartRecording, List, Settle, WaitForSynthesis, Snapshot, EndSession
    <3>3. CASE Publish(r) \/ Release(r) \/ AbandonEnd(r) \/ Abort(r) \/ Forget(r) \/ Free(r)
      BY <3>3 DEF Publish, Release, AbandonEnd, Abort, Forget, Free
    <3> QED
      BY <2>2, <3>1, <3>2, <3>3 DEF Progress
  <2> QED
    BY <2>1, <2>2
<1>8. CASE \E r \in Requests : Failure(r) \/ CaptureFails(r)
  BY <1>5, <1>8 DEF Failure, StartRecordingFails, ExportFails, FinishFails, AbandonEndFails,
     CaptureFails, serverVars, recorderVars
<1>9. CASE \E r \in Requests, t \in Sessions :
             Create(r, t) \/ Request(r, "use", t) \/ Request(r, "finish", t)
  BY <1>9 DEF Create, Request, serverVars, recorderVars
<1> QED
  BY <1>2, <1>7, <1>8, <1>9 DEF Next

\* A retry of finish reports what the first attempt prepared: the exported events, the
\* cursor and the events themselves stay as they are.
THEOREM PreparedCorrect == Spec => PreparedIsFrozen
<1>1. IInv /\ [Next]_vars => [\A s \in Sessions : info[s].prepared =>
        exported'[s] = exported[s] /\ info'[s].cursor = info[s].cursor
        /\ published'[s] = published[s]]_vars
  BY EvidenceStays
<1> QED
  BY <1>1, Invariant, PTL DEF Spec, PreparedIsFrozen
================================================================================
