---------------------------- MODULE ControlServer ----------------------------
(***************************************************************************)
(* internal/server/server.go: the life of a test session under concurrent  *)
(* requests.  A session is created, used by requests that hold its lock,   *)
(* and finished by a request that exports its evidence in many steps, each *)
(* of which may fail: some failures abandon the session, others keep it    *)
(* for a retry.                                                            *)
(*                                                                         *)
(* The engine and the recorder appear as far as the server sees them:      *)
(* whose session is open, sealed or drained (SessionOutputs), and which    *)
(* sessions have a recording and a directory (Recording).                  *)
(***************************************************************************)
EXTENDS Integers, Sequences, FiniteSets, Functions

CONSTANTS Sessions, NoSession, Requests, Nobody,
          FinishedSessionLimit,
          MaxEvents,    \* bound: events of one behaviour
          MaxFaults     \* bound: failures of one behaviour

ASSUME LimitAssumption == FinishedSessionLimit \in Nat \ {0}
ASSUME NameAssumption == NoSession \notin Sessions /\ Nobody \notin Requests
ASSUME BoundAssumption == MaxEvents \in Nat /\ MaxFaults \in Nat

VARIABLES sem,            \* Server.sem: tokens in the channel
          active,         \* Server.active
          info,           \* activeSession: lock, flags and export cursor
          finishedOrder,  \* Server.finishedOrder
          results,        \* Server.finished: the cursor of each result
          req,            \* what each request is doing
          engineSession, sealed, drained,  \* the engine's session
          published,      \* events of each session in the store
          listed, dirs,   \* sessions the recorder lists, and directories
          exported,       \* events in events.json
          dead,           \* sessions whose capture failed for good
          faults          \* failures so far

serverVars == <<sem, active, info, finishedOrder, results>>
engineVars == <<engineSession, sealed, drained>>
recorderVars == <<listed, dirs, exported, dead>>
vars == <<serverVars, req, engineVars, published, recorderVars, faults>>

None == -1
NoRequest == [op |-> "none", session |-> NoSession, at |-> "idle", taken |-> 0, expired |-> {}]

Init ==
  /\ sem = 0 /\ active = {} /\ finishedOrder = <<>>
  /\ info = [s \in Sessions |->
               [mu |-> Nobody, finishing |-> FALSE, prepared |-> FALSE, cursor |-> None]]
  /\ results = [s \in Sessions |-> None]
  /\ req = [r \in Requests |-> NoRequest]
  /\ engineSession = NoSession /\ sealed = FALSE /\ drained = FALSE
  /\ published = [s \in Sessions |-> 0]
  /\ listed = {} /\ dirs = {} /\ dead = {}
  /\ exported = [s \in Sessions |-> None]
  /\ faults = 0

At(r, label) == req[r].at = label
Of(r) == req[r].session
Goto(r, label) == req' = [req EXCEPT ![r].at = label]

\* The handler returns, and with it the deferred Unlock of the session.
Return(r) ==
  /\ req' = [req EXCEPT ![r] = NoRequest]
  /\ info' = [s \in Sessions |-> IF info[s].mu = r THEN [info[s] EXCEPT !.mu = Nobody] ELSE info[s]]

Fault == faults < MaxFaults /\ faults' = faults + 1

-----------------------------------------------------------------------------
(* The engine: output of the open session, and audio until it is drained *)

EngineEvent ==
  /\ engineSession # NoSession /\ ~drained
  /\ published[engineSession] < MaxEvents
  /\ published' = [published EXCEPT ![engineSession] = @ + 1]
  /\ UNCHANGED <<serverVars, req, engineVars, recorderVars, faults>>

\* EndSessionContext, of a session that may no longer be the engine's.
EngineEnds(s) ==
  IF engineSession = s
    THEN engineSession' = NoSession /\ sealed' = FALSE /\ drained' = FALSE
    ELSE UNCHANGED engineVars

-----------------------------------------------------------------------------
(* createSession *)

\* randomID: nothing remembers the identifier.
Unused(s) ==
  /\ s \notin active \cup dirs /\ published[s] = 0 /\ ~info[s].finishing
  /\ \A q \in Requests : Of(q) # s

Create(r, s) ==
  /\ At(r, "idle") /\ sem = 0
  /\ Unused(s)
  /\ sem' = 1
  /\ req' = [req EXCEPT ![r] = [NoRequest EXCEPT !.op = "create", !.session = s, !.at = "begin"]]
  /\ UNCHANGED <<active, info, finishedOrder, results, engineVars, published, recorderVars, faults>>

BeginSession(r) ==
  /\ At(r, "begin")
  /\ IF engineSession # NoSession THEN Goto(r, "release") /\ UNCHANGED engineVars
     ELSE /\ engineSession' = Of(r) /\ sealed' = FALSE /\ drained' = FALSE
          /\ Goto(r, "start")
  /\ UNCHANGED <<serverVars, published, recorderVars, faults>>

StartRecording(r) ==
  /\ At(r, "start")
  /\ listed' = listed \cup {Of(r)} /\ dirs' = dirs \cup {Of(r)}
  /\ Goto(r, "list")
  /\ UNCHANGED <<serverVars, engineVars, published, exported, dead, faults>>

StartRecordingFails(r) ==
  /\ At(r, "start") /\ Fault
  /\ Goto(r, "end")
  /\ UNCHANGED <<serverVars, engineVars, published, recorderVars>>

List(r) ==
  /\ At(r, "list")
  /\ active' = active \cup {Of(r)}
  /\ req' = [req EXCEPT ![r] = NoRequest]
  /\ UNCHANGED <<sem, info, finishedOrder, results, engineVars, published, recorderVars, faults>>

-----------------------------------------------------------------------------
(* lookupActive and lockActive: every other request first finds its session *)

Request(r, op, s) ==
  /\ At(r, "idle") /\ s \in active
  /\ req' = [req EXCEPT ![r] = [NoRequest EXCEPT !.op = op, !.session = s, !.at = "lock"]]
  /\ UNCHANGED <<serverVars, engineVars, published, recorderVars, faults>>

\* Variant for the checks: membership is not looked up again behind the lock.
StillActiveUnchecked(s) == TRUE

\* Variant for the checks: nor is whether the session is finishing.
MayUseFinishing(s) == s \in active

StillActive(s) == s \in active

MayUse(s) == s \in active /\ ~info[s].finishing

\* Actions, settings, state and document hold the lock until they return.
UseLock(r) ==
  /\ At(r, "lock") /\ req[r].op = "use" /\ info[Of(r)].mu = Nobody
  /\ IF MayUse(Of(r))
       THEN Goto(r, "using") /\ info' = [info EXCEPT ![Of(r)].mu = r]
       ELSE Return(r)
  /\ UNCHANGED <<sem, active, finishedOrder, results, engineVars, published, recorderVars, faults>>

Used(r) ==
  /\ At(r, "using")
  /\ Return(r)
  /\ UNCHANGED <<sem, active, finishedOrder, results, engineVars, published, recorderVars, faults>>

-----------------------------------------------------------------------------
(* finish *)

\* A session that went meanwhile is answered with its result, or not found.
FinishLock(r) ==
  /\ At(r, "lock") /\ req[r].op = "finish" /\ info[Of(r)].mu = Nobody
  /\ IF StillActive(Of(r))
       THEN /\ info' = [info EXCEPT ![Of(r)].mu = r, ![Of(r)].finishing = TRUE]
            /\ Goto(r, IF info[Of(r)].prepared THEN "mux" ELSE "settle")
       ELSE Return(r)
  /\ UNCHANGED <<sem, active, finishedOrder, results, engineVars, published, recorderVars, faults>>

Settle(r) ==
  /\ At(r, "settle")
  /\ Goto(r, "seal")
  /\ UNCHANGED <<serverVars, engineVars, published, recorderVars, faults>>

\* Variant for the checks: the outputs in progress are awaited and not sealed.
SealOutputsOpen(r) ==
  /\ At(r, "seal") /\ engineSession = Of(r)
  /\ Goto(r, "drain")
  /\ UNCHANGED <<serverVars, engineVars, published, recorderVars, faults>>

SealOutputs(r) ==
  /\ At(r, "seal")
  /\ IF engineSession = Of(r) THEN sealed' = TRUE /\ Goto(r, "drain") /\ UNCHANGED info
                              ELSE Return(r) /\ UNCHANGED sealed
  /\ UNCHANGED <<sem, active, finishedOrder, results, engineSession, drained, published,
                 recorderVars, faults>>

\* Variant for the checks: synthesis still runs when the events are collected.
SynthesisNotAwaited(r) ==
  /\ At(r, "drain")
  /\ Goto(r, "snapshot")
  /\ UNCHANGED <<serverVars, engineVars, published, recorderVars, faults>>

WaitForSynthesis(r) ==
  /\ At(r, "drain")
  /\ drained' = sealed
  /\ Goto(r, "snapshot")
  /\ UNCHANGED <<serverVars, engineSession, sealed, published, recorderVars, faults>>

Snapshot(r) ==
  /\ At(r, "snapshot")
  /\ req' = [req EXCEPT ![r].at = "write", ![r].taken = published[Of(r)]]
  /\ UNCHANGED <<serverVars, engineVars, published, recorderVars, faults>>

\* SealAudioTimeline and WriteJSON know only a session that is recorded.
WriteEvents(r) ==
  /\ At(r, "write")
  /\ IF Of(r) \in listed
       THEN exported' = [exported EXCEPT ![Of(r)] = req[r].taken] /\ Goto(r, "document")
       ELSE Goto(r, "abandon") /\ UNCHANGED exported
  /\ UNCHANGED <<serverVars, engineVars, published, listed, dirs, dead, faults>>

\* The final document is written, or skipped when it can no longer be read.
Prepare(r) ==
  /\ At(r, "document")
  /\ info' = [info EXCEPT ![Of(r)].prepared = TRUE, ![Of(r)].cursor = req[r].taken]
  /\ Goto(r, "mux")
  /\ UNCHANGED <<sem, active, finishedOrder, results, engineVars, published, recorderVars, faults>>

\* Failures that abandon the session.
ExportFails(r) ==
  /\ req[r].at \in {"settle", "drain", "snapshot", "write", "document"} /\ Fault
  /\ Goto(r, "abandon")
  /\ UNCHANGED <<serverVars, engineVars, published, recorderVars>>

\* Failures that keep it for a retry: sealing, a client that went away, the mux.
FinishFails(r) ==
  /\ req[r].at \in {"seal", "mux"} /\ Of(r) \notin dead /\ Fault
  /\ Return(r)
  /\ UNCHANGED <<sem, active, finishedOrder, results, engineVars, published, recorderVars>>

\* Variant for the checks: every failure of the recorder is kept for a retry.
CaptureFailsKept(r) ==
  /\ At(r, "mux")
  /\ IF Of(r) \in dead THEN UNCHANGED faults ELSE Fault
  /\ dead' = dead \cup {Of(r)}
  /\ Return(r)
  /\ UNCHANGED <<sem, active, finishedOrder, results, engineVars, published, listed, dirs, exported>>

\* A capture that failed has failed for every retry, so the session is abandoned.
CaptureFails(r) ==
  /\ At(r, "mux")
  /\ IF Of(r) \in dead THEN UNCHANGED faults ELSE Fault
  /\ dead' = dead \cup {Of(r)}
  /\ Goto(r, "abandon")
  /\ UNCHANGED <<serverVars, engineVars, published, listed, dirs, exported>>

FinishRecording(r) ==
  /\ At(r, "mux") /\ Of(r) \notin dead
  /\ listed' = listed \ {Of(r)}
  /\ IF Of(r) \in listed THEN Goto(r, "end") /\ UNCHANGED info ELSE Return(r)
  /\ UNCHANGED <<sem, active, finishedOrder, results, engineVars, published, dirs, exported, dead,
                 faults>>

\* Also how a create undoes its BeginSession when the recording did not start.
EndSession(r) ==
  /\ At(r, "end")
  /\ EngineEnds(Of(r))
  /\ Goto(r, IF req[r].op = "create" THEN "release" ELSE "publish")
  /\ UNCHANGED <<serverVars, published, recorderVars, faults>>

Kept(order) ==
  IF Len(order) > FinishedSessionLimit
    THEN SubSeq(order, Len(order) - FinishedSessionLimit + 1, Len(order)) ELSE order

Publish(r) ==
  LET order == Append(finishedOrder, Of(r))
      expired == Range(order) \ Range(Kept(order))
  IN  /\ At(r, "publish")
      /\ active' = active \ {Of(r)}
      /\ finishedOrder' = Kept(order)
      /\ results' = [s \in Sessions |-> IF s \in expired THEN None ELSE
                                        IF s = Of(r) THEN info[s].cursor ELSE results[s]]
      /\ req' = [req EXCEPT ![r].at = "release", ![r].expired = expired]
      /\ UNCHANGED <<sem, info, engineVars, published, recorderVars, faults>>

\* <-s.sem blocks on an empty channel.
Release(r) ==
  /\ At(r, "release") /\ sem > 0
  /\ sem' = sem - 1
  /\ Goto(r, "expire")
  /\ UNCHANGED <<active, info, finishedOrder, results, engineVars, published, recorderVars, faults>>

\* RemoveArtifacts refuses a session that is still recorded.
Expire(r) ==
  /\ At(r, "expire")
  /\ dirs' = dirs \ (req[r].expired \ listed)
  /\ Return(r)
  /\ UNCHANGED <<sem, active, finishedOrder, results, engineVars, published, listed, exported,
                 dead, faults>>

-----------------------------------------------------------------------------
(* abandonSessionContext *)

AbandonEnd(r) ==
  /\ At(r, "abandon")
  /\ EngineEnds(Of(r))
  /\ Goto(r, "abort")
  /\ UNCHANGED <<serverVars, published, recorderVars, faults>>

\* A command still runs, or the context has expired: all is kept for a retry.
AbandonEndFails(r) ==
  /\ At(r, "abandon") /\ Fault
  /\ Return(r)
  /\ UNCHANGED <<sem, active, finishedOrder, results, engineVars, published, recorderVars>>

\* Variant for the checks: a recording that does not stop well stays listed.
ListedAfterFailedAbort(s) == IF s \in dead THEN listed ELSE listed \ {s}

ListedAfterAbort(s) == listed \ {s}

Abort(r) ==
  /\ At(r, "abort")
  /\ listed' = ListedAfterAbort(Of(r))
  /\ Goto(r, "forget")
  /\ UNCHANGED <<serverVars, engineVars, published, dirs, exported, dead, faults>>

Forget(r) ==
  /\ At(r, "forget")
  /\ active' = active \ {Of(r)}
  /\ Goto(r, "free")
  /\ UNCHANGED <<sem, info, finishedOrder, results, engineVars, published, recorderVars, faults>>

\* This receive does not block.
Free(r) ==
  /\ At(r, "free")
  /\ sem' = IF sem > 0 THEN sem - 1 ELSE sem
  /\ Goto(r, "remove")
  /\ UNCHANGED <<active, info, finishedOrder, results, engineVars, published, recorderVars, faults>>

RemoveAbandoned(r) ==
  /\ At(r, "remove")
  /\ dirs' = dirs \ ({Of(r)} \ listed)
  /\ Return(r)
  /\ UNCHANGED <<sem, active, finishedOrder, results, engineVars, published, listed, exported,
                 dead, faults>>

-----------------------------------------------------------------------------
Progress(r) ==
  \/ BeginSession(r) \/ StartRecording(r) \/ List(r) \/ UseLock(r) \/ Used(r)
  \/ FinishLock(r) \/ Settle(r) \/ SealOutputs(r) \/ WaitForSynthesis(r) \/ Snapshot(r)
  \/ WriteEvents(r) \/ Prepare(r) \/ FinishRecording(r) \/ EndSession(r) \/ Publish(r)
  \/ Release(r) \/ Expire(r)
  \/ AbandonEnd(r) \/ Abort(r) \/ Forget(r) \/ Free(r) \/ RemoveAbandoned(r)

Failure(r) ==
  StartRecordingFails(r) \/ ExportFails(r) \/ FinishFails(r) \/ AbandonEndFails(r)

Next ==
  \/ EngineEvent
  \/ \E r \in Requests :
       \/ Progress(r) \/ Failure(r) \/ CaptureFails(r)
       \/ \E s \in Sessions :
            Create(r, s) \/ Request(r, "use", s) \/ Request(r, "finish", s)

Spec == Init /\ [][Next]_vars

Retry(s) == info[s].finishing /\ \E r \in Requests : Request(r, "finish", s)

\* Handlers run on and a mutex is not withheld from a waiting request forever; a
\* client that was told to retry does.  Failures are finitely many.
FairSpec ==
  /\ Spec
  /\ \A r \in Requests : WF_vars(Progress(r) \/ (Of(r) \in dead /\ CaptureFails(r)))
                         /\ SF_vars(FinishLock(r))
  /\ \A s \in Sessions : SF_vars(Retry(s))

-----------------------------------------------------------------------------
(* Properties *)

Labels == {"idle", "begin", "start", "list", "lock", "using", "settle", "seal", "drain",
           "snapshot", "write", "document", "mux", "end", "publish", "release", "expire",
           "abandon", "abort", "forget", "free", "remove"}

TypeOK ==
  /\ sem \in 0..1 /\ active \subseteq Sessions
  /\ info \in [Sessions -> [mu : Requests \cup {Nobody}, finishing : BOOLEAN,
                            prepared : BOOLEAN, cursor : Nat \cup {None}]]
  /\ finishedOrder \in Seq(Sessions) /\ Len(finishedOrder) <= FinishedSessionLimit
  /\ results \in [Sessions -> Nat \cup {None}]
  /\ req \in [Requests -> [op : {"none", "create", "use", "finish"},
                           session : Sessions \cup {NoSession}, at : Labels, taken : Nat,
                           expired : SUBSET Sessions]]
  /\ engineSession \in Sessions \cup {NoSession} /\ sealed \in BOOLEAN /\ drained \in BOOLEAN
  /\ published \in [Sessions -> Nat] /\ exported \in [Sessions -> Nat \cup {None}]
  /\ listed \subseteq Sessions /\ dirs \subseteq Sessions /\ dead \subseteq Sessions
  /\ faults \in 0..MaxFaults

\* The exclusive token is out exactly as long as a session exists anywhere: in
\* the server, in the engine or in the recorder, through every failed export,
\* failed cleanup and retry.
TokenCoversSession ==
  /\ Cardinality(active) <= 1
  /\ (active # {} \/ engineSession # NoSession \/ listed # {}) => sem = 1
  /\ sem = 1 => \/ active # {}
                \/ \E r \in Requests : req[r].at \in {"begin", "start", "list", "end", "release",
                                                     "free"}

\* A request that uses a session has it to itself: while it runs, the session is
\* neither ended nor sealed by a finish that was called at the same time.
UseIsProtected ==
  \A r \in Requests : At(r, "using") =>
    /\ Of(r) \in active /\ engineSession = Of(r) /\ ~sealed
    /\ \A q \in Requests \ {r} : Of(q) = Of(r) => req[q].at = "lock"

\* What a finish reports is what it exported, and what it exported is all there
\* ever was: no retry and no late audio moves one and not the other.
ResultIsWhole ==
  \A s \in Range(finishedOrder) :
    results[s] = exported[s] /\ exported[s] = published[s]

\* Prepared evidence is not touched again, however often the finish is retried.
PreparedIsFrozen ==
  [][\A s \in Sessions : info[s].prepared =>
       exported'[s] = exported[s] /\ info'[s].cursor = info[s].cursor
       /\ published'[s] = published[s]]_vars

\* A reported artifact can be fetched, and nothing else is left on disk once the
\* requests that clean up have returned.
DirectoriesAreAccounted ==
  /\ Range(finishedOrder) \subseteq dirs
  /\ \A s \in dirs : \/ s \in active \cup Range(finishedOrder)
                     \/ \E r \in Requests : s \in req[r].expired \cup {Of(r)}

\* A session whose finish was requested does not keep the next one out forever:
\* retries get through, even when its capture has failed for good.
FinishingSessionEnds == \A s \in Sessions : info[s].finishing ~> s \notin active
=============================================================================
