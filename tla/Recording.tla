------------------------------ MODULE Recording ------------------------------
(***************************************************************************)
(* internal/recording/manager.go: one directory, one optional ffmpeg       *)
(* capture and one list of audio segments for each test session.           *)
(*                                                                         *)
(* Finish and Abort hold finishMu over several steps, one of which waits   *)
(* for the capture process; any number of them may be called at any time.  *)
(* Start, AddAudio, SealAudioTimeline, WriteJSON and RemoveArtifacts look  *)
(* a session up under Manager.mu and change it under one other lock.  A    *)
(* session that has left the map is sealed and never returns to it, so     *)
(* their two sections have the effect of one step.                         *)
(***************************************************************************)
EXTENDS Integers, FiniteSets

CONSTANTS Sessions, Callers, Nobody,
          Exports,      \* the JSON artifacts
          MaxSegments   \* the PCM limit of a WAV file, in segments

ASSUME CallerAssumption == Nobody \notin Callers
ASSUME LimitAssumption == MaxSegments \in Nat

VARIABLES rec,      \* the session structure, its directory and its process
          caller,   \* Finish and Abort: what each call is doing
          waits,    \* history: calls of exec.Cmd.Wait
          indexes,  \* history: segments of each audio timeline that was sealed
          written,  \* history: JSON artifacts whose WriteJSON succeeded
          answers   \* history: what the successful calls of Finish returned

historyVars == <<waits, indexes, written, answers>>
vars == <<rec, caller, historyVars>>

None == -1
NoAnswer == [audio |-> None, extras |-> {}]

Fresh == [listed |-> FALSE, dir |-> FALSE, segments |-> 0, extras |-> {},
          sealed |-> FALSE, audioSealed |-> FALSE, audioErr |-> FALSE,
          videoStopped |-> FALSE, videoStopErr |-> FALSE, capture |-> "none",
          wav |-> None, finished |-> NoAnswer, finishMu |-> Nobody]

NoCall == [op |-> "none", at |-> "idle", session |-> Nobody,
           segments |-> 0, extras |-> {}, audioErr |-> FALSE]

Init ==
  /\ rec = [s \in Sessions |-> Fresh]
  /\ caller = [c \in Callers |-> NoCall]
  /\ waits = [s \in Sessions |-> 0]
  /\ indexes = [s \in Sessions |-> {}]
  /\ written = [s \in Sessions |-> {}]
  /\ answers = [s \in Sessions |-> {}]

-----------------------------------------------------------------------------
(* Start, AddAudio, SealAudioTimeline, WriteJSON, RemoveArtifacts *)

\* A failed start removes the directory it made.  An identifier is used once.
Start(s, record) ==
  /\ rec[s] = Fresh
  /\ rec' = [rec EXCEPT ![s].listed = TRUE, ![s].dir = TRUE,
                        ![s].capture = IF record THEN "running" ELSE "none"]
  /\ UNCHANGED <<caller, historyVars>>

\* Variant for the checks: only Finish stops audio, not the sealed timeline.
AcceptsUntilFinish(s) == rec[s].listed /\ ~rec[s].sealed /\ ~rec[s].audioErr

AcceptsAudio(s) ==
  rec[s].listed /\ ~rec[s].sealed /\ ~rec[s].audioSealed /\ ~rec[s].audioErr

Fits(s) == rec[s].segments < MaxSegments

\* Invalid audio, or audio beyond the limit, is remembered as an error.
AddAudio(s, valid) ==
  /\ AcceptsAudio(s)
  /\ rec' = IF valid /\ Fits(s)
              THEN [rec EXCEPT ![s].segments = @ + 1]
              ELSE [rec EXCEPT ![s].audioErr = TRUE]
  /\ UNCHANGED <<caller, historyVars>>

SealAudioTimeline(s) ==
  /\ rec[s].listed
  /\ rec' = [rec EXCEPT ![s].audioSealed = TRUE]
  /\ indexes' = IF rec[s].audioErr THEN indexes
                ELSE [indexes EXCEPT ![s] = @ \cup {rec[s].segments}]
  /\ UNCHANGED <<caller, waits, written, answers>>

\* Variant for the checks: an export is still accepted while Finish runs.
WritableWhileFinishing(s) == rec[s].listed /\ rec[s].dir

Writable(s) == rec[s].listed /\ rec[s].dir /\ ~rec[s].sealed

\* A write that fails leaves the list of artifacts as it was.
WriteJSON(s, name) ==
  /\ Writable(s)
  /\ rec' = [rec EXCEPT ![s].extras = @ \cup {name}]
  /\ written' = [written EXCEPT ![s] = @ \cup {name}]
  /\ UNCHANGED <<caller, waits, indexes, answers>>

RemoveArtifacts(s) ==
  /\ ~rec[s].listed /\ rec[s].dir
  /\ rec' = [rec EXCEPT ![s].dir = FALSE]
  /\ UNCHANGED <<caller, historyVars>>

-----------------------------------------------------------------------------
(* Finish and Abort *)

Of(c) == caller[c].session
At(c, label) == caller[c].at = label
Goto(c, label) == caller' = [caller EXCEPT ![c].at = label]

Call(c, op, s) ==
  /\ At(c, "idle") /\ rec[s].listed
  /\ caller' = [caller EXCEPT ![c] = [NoCall EXCEPT !.op = op, !.at = "lock", !.session = s]]
  /\ UNCHANGED <<rec, historyVars>>

\* The answer of a Finish that completed while this one waited is returned again.
Lock(c) ==
  /\ At(c, "lock") /\ rec[Of(c)].finishMu = Nobody
  /\ IF caller[c].op = "finish" /\ rec[Of(c)].finished # NoAnswer
       THEN /\ caller' = [caller EXCEPT ![c] = NoCall]
            /\ answers' = [answers EXCEPT ![Of(c)] = @ \cup {rec[Of(c)].finished}]
            /\ UNCHANGED rec
       ELSE /\ Goto(c, "seal")
            /\ rec' = [rec EXCEPT ![Of(c)].finishMu = c]
            /\ UNCHANGED answers
  /\ UNCHANGED <<waits, indexes, written>>

\* Variant for the checks: Abort forgets the session before its capture stopped.
SealDropping(c) ==
  /\ At(c, "seal")
  /\ rec' = [rec EXCEPT ![Of(c)].sealed = TRUE, ![Of(c)].listed = caller[c].op = "finish"]
  /\ caller' = [caller EXCEPT ![c].at = "stop", ![c].segments = rec[Of(c)].segments,
                              ![c].extras = rec[Of(c)].extras,
                              ![c].audioErr = rec[Of(c)].audioErr]
  /\ UNCHANGED historyVars

\* What Finish will export is copied as the session is sealed.
Seal(c) ==
  /\ At(c, "seal")
  /\ rec' = [rec EXCEPT ![Of(c)].sealed = TRUE]
  /\ caller' = [caller EXCEPT ![c].at = "stop", ![c].segments = rec[Of(c)].segments,
                              ![c].extras = rec[Of(c)].extras,
                              ![c].audioErr = rec[Of(c)].audioErr]
  /\ UNCHANGED historyVars

\* A call that returns; the deferred Unlock of finishMu.
Return(c, r) ==
  /\ caller' = [caller EXCEPT ![c] = NoCall]
  /\ rec' = [rec EXCEPT ![Of(c)] = [r EXCEPT !.finishMu = Nobody]]

\* stopCapture has returned for c, and left the session as r.
AfterStop(c, r) ==
  IF caller[c].op = "abort"
    THEN Return(c, [r EXCEPT !.listed = FALSE])
    ELSE IF r.videoStopErr \/ caller[c].audioErr
      THEN Return(c, r)
      ELSE Goto(c, "render") /\ rec' = [rec EXCEPT ![Of(c)] = r]

Stopped(r) == r.videoStopped

\* Ask ffmpeg to quit and wait for it, once; later calls get the answer of the first.
StopCapture(c) ==
  LET r == rec[Of(c)]
      stopped == [r EXCEPT !.videoStopped = TRUE]
  IN  /\ At(c, "stop")
      /\ \/ Stopped(r) /\ AfterStop(c, r) /\ UNCHANGED waits
         \/ ~Stopped(r) /\ r.capture = "none" /\ AfterStop(c, stopped) /\ UNCHANGED waits
         \/ /\ ~Stopped(r) /\ r.capture # "none"
            /\ Goto(c, "wait")
            /\ rec' = [rec EXCEPT ![Of(c)] = stopped]
            /\ waits' = [waits EXCEPT ![Of(c)] = @ + 1]
      /\ UNCHANGED <<indexes, written, answers>>

\* ffmpeg may fail at any time; it succeeds only when asked to quit.
CaptureExits(s) ==
  /\ rec[s].capture = "running"
  /\ \E outcome \in {"succeeded", "failed"} :
       /\ outcome = "succeeded" => rec[s].videoStopped
       /\ rec' = [rec EXCEPT ![s].capture = outcome]
  /\ UNCHANGED <<caller, historyVars>>

\* Variant for the checks: an error of the process never reaches its waiter.
CaptureReapedWell(c) ==
  /\ At(c, "wait") /\ rec[Of(c)].capture = "succeeded"
  /\ AfterStop(c, rec[Of(c)])
  /\ UNCHANGED <<waits, indexes, written, answers>>

CaptureReaped(c) ==
  /\ At(c, "wait") /\ rec[Of(c)].capture # "running"
  /\ AfterStop(c, [rec[Of(c)] EXCEPT !.videoStopErr = rec[Of(c)].capture = "failed"])
  /\ UNCHANGED <<waits, indexes, written, answers>>

\* The context ends first, or in the same instant: kill, then wait.
CaptureKilled(c) ==
  /\ At(c, "wait")
  /\ AfterStop(c, [rec[Of(c)] EXCEPT !.videoStopErr = TRUE,
                                     !.capture = IF @ = "running" THEN "failed" ELSE @])
  /\ UNCHANGED <<waits, indexes, written, answers>>

\* renderTimeline, EncodeWAV, the file and its inventory; nothing is written to a
\* directory that is gone.
Render(c) ==
  LET r == rec[Of(c)]
      wav == [r EXCEPT !.wav = IF r.dir THEN caller[c].segments ELSE @]
  IN  /\ At(c, "render")
      /\ \/ Return(c, r)
         \/ Return(c, wav)
         \/ /\ r.dir
            /\ Goto(c, IF r.capture = "none" THEN "publish" ELSE "mux")
            /\ rec' = [rec EXCEPT ![Of(c)] = wav]
      /\ UNCHANGED historyVars

Mux(c) ==
  /\ At(c, "mux")
  /\ \/ Return(c, rec[Of(c)])
     \/ rec[Of(c)].dir /\ Goto(c, "publish") /\ UNCHANGED rec
  /\ UNCHANGED historyVars

Publish(c) ==
  LET answer == [audio |-> caller[c].segments, extras |-> caller[c].extras]
  IN  /\ At(c, "publish")
      /\ Return(c, [rec[Of(c)] EXCEPT !.listed = FALSE, !.finished = answer])
      /\ answers' = [answers EXCEPT ![Of(c)] = @ \cup {answer}]
      /\ UNCHANGED <<waits, indexes, written>>

-----------------------------------------------------------------------------
CallerStep(c) ==
  \/ Lock(c) \/ Seal(c) \/ StopCapture(c) \/ CaptureReaped(c)
  \/ Render(c) \/ Mux(c) \/ Publish(c)

Next ==
  \/ \E s \in Sessions :
       \/ \E record \in BOOLEAN : Start(s, record)
       \/ \E valid \in BOOLEAN : AddAudio(s, valid)
       \/ SealAudioTimeline(s)
       \/ \E name \in Exports : WriteJSON(s, name)
       \/ RemoveArtifacts(s)
       \/ CaptureExits(s)
       \/ \E c \in Callers, op \in {"finish", "abort"} : Call(c, op, s)
  \/ \E c \in Callers : CallerStep(c) \/ CaptureKilled(c)

Spec == Init /\ [][Next]_vars

\* Calls keep running, a mutex is not withheld from its waiters forever, and
\* ffmpeg ends once it was asked to.  No context has to end.
FairSpec ==
  /\ Spec
  /\ \A c \in Callers : WF_vars(CallerStep(c)) /\ SF_vars(Lock(c))
  /\ \A s \in Sessions : WF_vars(CaptureExits(s) /\ rec[s].videoStopped)

-----------------------------------------------------------------------------
(* Properties *)

Answer == [audio : Nat \cup {None}, extras : SUBSET Exports]

TypeOK ==
  /\ rec \in [Sessions ->
       [listed : BOOLEAN, dir : BOOLEAN, segments : 0..MaxSegments, extras : SUBSET Exports,
        sealed : BOOLEAN, audioSealed : BOOLEAN, audioErr : BOOLEAN,
        videoStopped : BOOLEAN, videoStopErr : BOOLEAN,
        capture : {"none", "running", "succeeded", "failed"},
        wav : Nat \cup {None}, finished : Answer, finishMu : Callers \cup {Nobody}]]
  /\ caller \in [Callers ->
       [op : {"none", "finish", "abort"},
        at : {"idle", "lock", "seal", "stop", "wait", "render", "mux", "publish"},
        session : Sessions \cup {Nobody}, segments : Nat, extras : SUBSET Exports,
        audioErr : BOOLEAN]]
  /\ waits \in [Sessions -> Nat] /\ indexes \in [Sessions -> SUBSET Nat]
  /\ written \in [Sessions -> SUBSET Exports] /\ answers \in [Sessions -> SUBSET Answer]

\* The sample index that went into the exported events describes the very WAV
\* that is exported: whichever calls of AddAudio, SealAudioTimeline, Finish and
\* Abort overlap, no segment is in one and not in the other.
IndexMatchesWav ==
  \A s \in Sessions : \A index \in indexes[s] :
    /\ indexes[s] = {index}
    /\ rec[s].wav # None => rec[s].wav = index
    /\ \A a \in answers[s] : a.audio = index

\* The capture process is owned until it is reaped: "A mux retry must never call
\* exec.Cmd.Wait twice", nor do calls that overlap, and no session is forgotten,
\* nor its directory removed, under a process that still runs.
CaptureIsOwned ==
  \A s \in Sessions : /\ waits[s] <= 1
                      /\ rec[s].capture = "running" => rec[s].listed /\ rec[s].dir

\* Evidence is complete or not returned: every Finish that succeeds returns all
\* the audio, every JSON artifact whose write was confirmed, no audio that is
\* known to be broken, and no video of a failed capture: once one has failed, no
\* retry succeeds, on which the server relies when it abandons the session.
EvidenceIsComplete ==
  \A s \in Sessions : \A a \in answers[s] :
    /\ a = [audio |-> rec[s].segments, extras |-> written[s]]
    /\ ~rec[s].audioErr /\ rec[s].capture \in {"none", "succeeded"}

\* Every Finish and every Abort returns: finishMu is handed on on every path, and
\* a process that fails is noticed as well as one that quits.
FinishersReturn == \A c \in Callers : ~At(c, "idle") ~> At(c, "idle")
=============================================================================
