---------------------------- MODULE RecordingProofs ----------------------------
(* Theorems about the recording manager, for any number of sessions, of     *)
(* overlapping calls, of JSON artifacts and of audio segments.              *)
EXTENDS Recording, TLAPS

Record ==
  [listed : BOOLEAN, dir : BOOLEAN, segments : 0..MaxSegments, extras : SUBSET Exports,
   sealed : BOOLEAN, audioSealed : BOOLEAN, audioErr : BOOLEAN,
   videoStopped : BOOLEAN, videoStopErr : BOOLEAN,
   capture : {"none", "running", "succeeded", "failed"},
   wav : Nat \cup {None}, finished : Answer, finishMu : Callers \cup {Nobody}]

Calling ==
  [op : {"none", "finish", "abort"},
   at : {"idle", "lock", "seal", "stop", "wait", "render", "mux", "publish"},
   session : Sessions \cup {Nobody}, segments : Nat, extras : SUBSET Exports,
   audioErr : BOOLEAN]

Types == rec \in [Sessions -> Record] /\ caller \in [Callers -> Calling]

HistoryTypes ==
  /\ waits \in [Sessions -> Nat] /\ indexes \in [Sessions -> SUBSET Nat]
  /\ written \in [Sessions -> SUBSET Exports] /\ answers \in [Sessions -> SUBSET Answer]

\* A call that runs is one of a session.
CallsHaveSessions == \A c \in Callers : ~At(c, "idle") => Of(c) \in Sessions

TInv == Types /\ HistoryTypes /\ CallsHaveSessions

LEMMA TypeParts == TypeOK <=> Types /\ HistoryTypes
BY DEF TypeOK, Types, HistoryTypes, Record, Calling

LEMMA InitTypes == Init => TInv
<1> SUFFICES ASSUME Init PROVE TInv
  OBVIOUS
<1>1. Fresh \in Record
  BY LimitAssumption DEF Fresh, Record, NoAnswer, Answer
<1>2. NoCall \in Calling
  BY DEF NoCall, Calling
<1>3. Types
  BY <1>1, <1>2 DEF Init, Types
<1>4. HistoryTypes
  BY DEF Init, HistoryTypes
<1>5. CallsHaveSessions
  BY DEF Init, CallsHaveSessions, At, NoCall
<1> QED
  BY <1>3, <1>4, <1>5 DEF TInv

-----------------------------------------------------------------------------
(* What an action does to one session and one call *)

LEMMA GotoType ==
  ASSUME TInv, NEW c \in Callers, Of(c) \in Sessions, Goto(c, "render") \/ Goto(c, "wait") \/ Goto(c, "mux")
         \/ Goto(c, "publish") \/ Goto(c, "seal")
  PROVE  caller' \in [Callers -> Calling] /\ CallsHaveSessions'
BY DEF TInv, Types, CallsHaveSessions, Goto, Calling, At, Of

LEMMA ReturnType ==
  ASSUME TInv, NEW c \in Callers, Of(c) \in Sessions, NEW r \in Record, Return(c, r)
  PROVE  Types' /\ CallsHaveSessions'
<1>1. NoCall \in Calling /\ [r EXCEPT !.finishMu = Nobody] \in Record
  BY DEF NoCall, Calling, Record
<1>2. Types'
  BY <1>1 DEF TInv, Types, Return
<1>3. CallsHaveSessions'
  BY DEF TInv, Types, CallsHaveSessions, Return, At, Of, NoCall
<1> QED
  BY <1>2, <1>3

LEMMA AfterStopType ==
  ASSUME TInv, NEW c \in Callers, Of(c) \in Sessions, NEW r \in Record, AfterStop(c, r)
  PROVE  Types' /\ CallsHaveSessions'
<1>1. [r EXCEPT !.listed = FALSE] \in Record
  BY DEF Record
<1>2. ASSUME Goto(c, "render"), rec' = [rec EXCEPT ![Of(c)] = r] PROVE Types' /\ CallsHaveSessions'
  BY <1>2, GotoType DEF TInv, Types
<1> QED
  BY <1>1, <1>2, ReturnType DEF AfterStop

LEMMA StepTypes == TInv /\ [Next]_vars => TInv'
<1> SUFFICES ASSUME TInv, [Next]_vars PROVE TInv'
  OBVIOUS
<1> USE DEF historyVars
<1>a. \A s \in Sessions : rec[s] \in Record
  BY DEF TInv, Types
<1>n. \A s \in Sessions : rec[s].segments \in Nat
  <2> TAKE s \in Sessions
  <2>1. rec[s].segments \in 0..MaxSegments
    BY <1>a DEF Record
  <2> QED
    BY <2>1, LimitAssumption
<1>b. \A c \in Callers : caller[c] \in Calling
  BY DEF TInv, Types
<1>1. ASSUME NEW s \in Sessions, NEW record \in BOOLEAN, Start(s, record) PROVE TInv'
  <2>1. [rec[s] EXCEPT !.listed = TRUE, !.dir = TRUE,
                       !.capture = IF record THEN "running" ELSE "none"] \in Record
    BY <1>a DEF Record
  <2> QED
    BY <1>1, <2>1 DEF Start, TInv, Types, HistoryTypes, CallsHaveSessions, At, Of
<1>2. ASSUME NEW s \in Sessions, NEW valid \in BOOLEAN, AddAudio(s, valid) PROVE TInv'
  <2>1. rec[s].segments < MaxSegments => [rec[s] EXCEPT !.segments = @ + 1] \in Record
    BY <1>a, LimitAssumption DEF Record
  <2>2. [rec[s] EXCEPT !.audioErr = TRUE] \in Record
    BY <1>a DEF Record
  <2>3. CASE rec' = [rec EXCEPT ![s].segments = @ + 1] /\ rec[s].segments < MaxSegments
    BY <1>2, <2>1, <2>3 DEF AddAudio, TInv, Types, HistoryTypes, CallsHaveSessions, At, Of
  <2>4. CASE rec' = [rec EXCEPT ![s].audioErr = TRUE]
    <3>1. rec' \in [Sessions -> Record]
      BY <2>2, <2>4 DEF TInv, Types
    <3> QED
      BY <1>2, <3>1 DEF AddAudio, TInv, Types, HistoryTypes, CallsHaveSessions, At, Of
  <2> QED
    BY <1>2, <2>3, <2>4 DEF AddAudio, Fits
<1>3. ASSUME NEW s \in Sessions, SealAudioTimeline(s) PROVE TInv'
  <2>1. [rec[s] EXCEPT !.audioSealed = TRUE] \in Record
    BY <1>a DEF Record
  <2> QED
    BY <1>3, <1>a, <1>n, <2>1 DEF SealAudioTimeline, TInv, Types, HistoryTypes, CallsHaveSessions, At, Of
<1>4. ASSUME NEW s \in Sessions, NEW name \in Exports, WriteJSON(s, name) PROVE TInv'
  <2>1. [rec[s] EXCEPT !.extras = @ \cup {name}] \in Record
    BY <1>a DEF Record
  <2> QED
    BY <1>4, <2>1 DEF WriteJSON, TInv, Types, HistoryTypes, CallsHaveSessions, At, Of
<1>5. ASSUME NEW s \in Sessions, RemoveArtifacts(s) PROVE TInv'
  <2>1. [rec[s] EXCEPT !.dir = FALSE] \in Record
    BY <1>a DEF Record
  <2> QED
    BY <1>5, <2>1 DEF RemoveArtifacts, TInv, Types, HistoryTypes, CallsHaveSessions, At, Of
<1>6. ASSUME NEW s \in Sessions, CaptureExits(s) PROVE TInv'
  <2>1. \A outcome \in {"succeeded", "failed"} : [rec[s] EXCEPT !.capture = outcome] \in Record
    BY <1>a DEF Record
  <2> QED
    BY <1>6, <2>1 DEF CaptureExits, TInv, Types, HistoryTypes, CallsHaveSessions, At, Of
<1>7. ASSUME NEW s \in Sessions, NEW c \in Callers, NEW op \in {"finish", "abort"}, Call(c, op, s)
      PROVE  TInv'
  <2>1. [NoCall EXCEPT !.op = op, !.at = "lock", !.session = s] \in Calling
    BY DEF NoCall, Calling
  <2>2. [NoCall EXCEPT !.op = op, !.at = "lock", !.session = s].session = s
    BY DEF NoCall
  <2> QED
    BY <1>7, <2>1, <2>2 DEF Call, TInv, Types, HistoryTypes, CallsHaveSessions, At, Of
<1>8. ASSUME NEW c \in Callers, Lock(c) PROVE TInv'
  <2>1. Of(c) \in Sessions
    BY <1>8 DEF Lock, TInv, CallsHaveSessions, At
  <2>2. NoCall \in Calling /\ [rec[Of(c)] EXCEPT !.finishMu = c] \in Record
        /\ rec[Of(c)].finished \in Answer
    BY <1>a, <2>1 DEF NoCall, Calling, Record
  <2>3. CASE Goto(c, "seal") /\ rec' = [rec EXCEPT ![Of(c)].finishMu = c] /\ UNCHANGED historyVars
    BY <2>1, <2>2, <2>3, GotoType DEF TInv, Types, HistoryTypes
  <2>4. CASE /\ caller' = [caller EXCEPT ![c] = NoCall] /\ UNCHANGED <<rec, waits, indexes, written>>
             /\ answers' = [answers EXCEPT ![Of(c)] = @ \cup {rec[Of(c)].finished}]
    <3>1. Types'
      BY <2>2, <2>4 DEF TInv, Types
    <3>2. HistoryTypes'
      BY <2>1, <2>2, <2>4 DEF TInv, HistoryTypes
    <3>3. CallsHaveSessions'
      BY <2>4 DEF TInv, Types, CallsHaveSessions, At, Of, NoCall
    <3> QED
      BY <3>1, <3>2, <3>3 DEF TInv
  <2> QED
    BY <1>8, <2>3, <2>4 DEF Lock
<1>9. ASSUME NEW c \in Callers, Seal(c) PROVE TInv'
  <2>1. Of(c) \in Sessions
    BY <1>9 DEF Seal, TInv, CallsHaveSessions, At
  <2>2. [rec[Of(c)] EXCEPT !.sealed = TRUE] \in Record
    BY <1>a, <2>1 DEF Record
  <2>3. [caller[c] EXCEPT !.at = "stop", !.segments = rec[Of(c)].segments,
                          !.extras = rec[Of(c)].extras, !.audioErr = rec[Of(c)].audioErr] \in Calling
    <3>1. rec[Of(c)].segments \in Nat /\ rec[Of(c)] \in Record /\ caller[c] \in Calling
      BY <1>a, <1>b, <1>n, <2>1
    <3> QED
      BY <3>1 DEF Record, Calling
  <2>4. caller' \in [Callers -> Calling]
    <3>1. caller' = [caller EXCEPT ![c] =
            [caller[c] EXCEPT !.at = "stop", !.segments = rec[Of(c)].segments,
                              !.extras = rec[Of(c)].extras, !.audioErr = rec[Of(c)].audioErr]]
      BY <1>9 DEF Seal, TInv, Types
    <3> QED
      BY <2>3, <3>1 DEF TInv, Types
  <2>5. rec' \in [Sessions -> Record]
    BY <1>9, <2>2 DEF Seal, TInv, Types
  <2>6. \A d \in Callers : caller'[d].session = caller[d].session /\ (d # c => caller'[d] = caller[d])
    BY <1>9, <1>b DEF Seal, TInv, Types, Calling
  <2>7. CallsHaveSessions'
    BY <2>1, <2>6 DEF TInv, CallsHaveSessions, At, Of
  <2> QED
    BY <1>9, <2>4, <2>5, <2>7 DEF Seal, TInv, Types, HistoryTypes
<1>10. ASSUME NEW c \in Callers, StopCapture(c) PROVE TInv'
  <2>1. Of(c) \in Sessions
    BY <1>10 DEF StopCapture, TInv, CallsHaveSessions, At
  <2>2. rec[Of(c)] \in Record /\ [rec[Of(c)] EXCEPT !.videoStopped = TRUE] \in Record
    BY <1>a, <2>1 DEF Record
  <2>3. HistoryTypes'
    BY <1>10, <2>1 DEF StopCapture, TInv, HistoryTypes
  <2>4. ASSUME Goto(c, "wait"),
               rec' = [rec EXCEPT ![Of(c)] = [rec[Of(c)] EXCEPT !.videoStopped = TRUE]]
        PROVE  Types' /\ CallsHaveSessions'
    BY <2>1, <2>2, <2>4, GotoType DEF TInv, Types
  <2> QED
    BY <1>10, <2>1, <2>2, <2>3, <2>4, AfterStopType DEF StopCapture, TInv
<1>11. ASSUME NEW c \in Callers, CaptureReaped(c) PROVE TInv'
  <2>1. Of(c) \in Sessions
    BY <1>11 DEF CaptureReaped, TInv, CallsHaveSessions, At
  <2>2. [rec[Of(c)] EXCEPT !.videoStopErr = rec[Of(c)].capture = "failed"] \in Record
    BY <1>a, <2>1 DEF Record
  <2> QED
    BY <1>11, <2>1, <2>2, AfterStopType DEF CaptureReaped, TInv, HistoryTypes
<1>12. ASSUME NEW c \in Callers, CaptureKilled(c) PROVE TInv'
  <2>1. Of(c) \in Sessions
    BY <1>12 DEF CaptureKilled, TInv, CallsHaveSessions, At
  <2>2. [rec[Of(c)] EXCEPT !.videoStopErr = TRUE,
                           !.capture = IF @ = "running" THEN "failed" ELSE @] \in Record
    BY <1>a, <2>1 DEF Record
  <2> QED
    BY <1>12, <2>1, <2>2, AfterStopType DEF CaptureKilled, TInv, HistoryTypes
<1>13. ASSUME NEW c \in Callers, Render(c) PROVE TInv'
  <2>1. Of(c) \in Sessions
    BY <1>13 DEF Render, TInv, CallsHaveSessions, At
  <2> DEFINE wav == [rec[Of(c)] EXCEPT !.wav = IF rec[Of(c)].dir THEN caller[c].segments ELSE @]
  <2>2. rec[Of(c)] \in Record /\ wav \in Record
    BY <1>a, <1>b, <2>1 DEF Record, Calling
  <2>3. ASSUME Goto(c, "publish") \/ Goto(c, "mux"), rec' = [rec EXCEPT ![Of(c)] = wav]
        PROVE  Types' /\ CallsHaveSessions'
    BY <2>1, <2>2, <2>3, GotoType DEF TInv, Types
  <2>4. Types' /\ CallsHaveSessions'
    BY <1>13, <2>1, <2>2, <2>3, ReturnType DEF Render
  <2> QED
    BY <1>13, <2>4 DEF Render, TInv, HistoryTypes
<1>14. ASSUME NEW c \in Callers, Mux(c) PROVE TInv'
  <2>1. Of(c) \in Sessions
    BY <1>14 DEF Mux, TInv, CallsHaveSessions, At
  <2>2. Types' /\ CallsHaveSessions'
    BY <1>a, <1>14, <2>1, ReturnType, GotoType DEF Mux, TInv, Types
  <2> QED
    BY <1>14, <2>2 DEF Mux, TInv, HistoryTypes
<1>15. ASSUME NEW c \in Callers, Publish(c) PROVE TInv'
  <2>1. Of(c) \in Sessions
    BY <1>15 DEF Publish, TInv, CallsHaveSessions, At
  <2> DEFINE answer == [audio |-> caller[c].segments, extras |-> caller[c].extras]
  <2>2. answer \in Answer
    BY <1>b DEF Calling, Answer
  <2>3. [rec[Of(c)] EXCEPT !.listed = FALSE, !.finished = answer] \in Record
    BY <1>a, <2>1, <2>2 DEF Record
  <2>4. HistoryTypes'
    BY <1>15, <2>1, <2>2 DEF Publish, TInv, HistoryTypes
  <2> QED
    BY <1>15, <2>1, <2>3, <2>4, ReturnType DEF Publish, TInv
<1>16. CASE UNCHANGED vars
  BY <1>16 DEF vars, TInv, Types, HistoryTypes, CallsHaveSessions, At, Of
<1> QED
  BY <1>1, <1>2, <1>3, <1>4, <1>5, <1>6, <1>7, <1>8, <1>9, <1>10, <1>11, <1>12, <1>13, <1>14,
     <1>15, <1>16 DEF Next, CallerStep

-----------------------------------------------------------------------------
(* The inductive invariant: what holds of each call, and of each session *)

Holding == {"seal", "stop", "wait", "render", "mux", "publish"}
Sealing == Holding \ {"seal"}
Exporting == {"render", "mux", "publish"}

Evidence(s) == [audio |-> rec[s].segments, extras |-> rec[s].extras]
Sound(s) == ~rec[s].audioErr /\ rec[s].capture \in {"none", "succeeded"}

\* A call past its lock owns the lock of its session; what it copied when it sealed the
\* session is still what the session holds; and it exports only what it found sound
\* after the capture had stopped.
CallOK(c) ==
  /\ caller[c].at \in Holding => rec[Of(c)].finishMu = c
  /\ caller[c].at \in Sealing =>
       /\ rec[Of(c)].sealed
       /\ caller[c].segments = rec[Of(c)].segments /\ caller[c].extras = rec[Of(c)].extras
       /\ caller[c].audioErr = rec[Of(c)].audioErr
  /\ caller[c].at \in Exporting => Sound(Of(c))

\* Each list of a session describes the segments and artifacts it has.
ListsAgree(s) ==
  /\ written[s] = rec[s].extras
  /\ \A i \in indexes[s] : i = rec[s].segments /\ rec[s].audioSealed
  /\ rec[s].wav # None => rec[s].wav = rec[s].segments /\ rec[s].sealed

AnswersAreEvidence(s) ==
  /\ answers[s] # {} \/ rec[s].finished # NoAnswer => rec[s].sealed /\ Sound(s)
  /\ \A a \in answers[s] : a = Evidence(s)
  /\ rec[s].finished # NoAnswer => rec[s].finished = Evidence(s)

\* A capture that was asked to stop has ended well, or failed and is known to have, or is
\* waited for by the call that has the lock.
CaptureIsKnown(s) ==
  /\ waits[s] <= 1 /\ (~rec[s].videoStopped => waits[s] = 0)
  /\ rec[s].capture = "running" => rec[s].listed /\ rec[s].dir /\ ~rec[s].videoStopErr
  /\ rec[s].videoStopped /\ ~rec[s].videoStopErr /\ rec[s].capture \in {"running", "failed"} =>
       \E c \in Callers : rec[s].finishMu = c /\ caller[c].at = "wait" /\ Of(c) = s

SessionOK(s) == ListsAgree(s) /\ AnswersAreEvidence(s) /\ CaptureIsKnown(s)

IInv == TInv /\ (\A c \in Callers : CallOK(c)) /\ (\A s \in Sessions : SessionOK(s))

LEMMA InitIInv == Init => IInv
<1> SUFFICES ASSUME Init PROVE IInv
  OBVIOUS
<1>1. \A c \in Callers : CallOK(c)
  BY DEF Init, CallOK, NoCall, Holding, Sealing, Exporting
<1>2. ASSUME NEW s \in Sessions PROVE SessionOK(s)
  <2>1. rec[s] = Fresh /\ waits[s] = 0 /\ indexes[s] = {} /\ written[s] = {} /\ answers[s] = {}
    BY DEF Init
  <2> QED
    BY <2>1 DEF SessionOK, ListsAgree, AnswersAreEvidence, CaptureIsKnown, Fresh
<1> QED
  BY <1>1, <1>2, InitTypes DEF IInv

\* A step of one call beneath its lock leaves other calls and sessions as they are.
LEMMA OthersFrame ==
  ASSUME IInv, NEW c \in Callers, caller[c].at \in Holding,
         \A d \in Callers \ {c} : caller'[d] = caller[d],
         \A t \in Sessions \ {Of(c)} :
           /\ rec'[t] = rec[t] /\ waits'[t] = waits[t] /\ indexes'[t] = indexes[t]
           /\ written'[t] = written[t] /\ answers'[t] = answers[t]
  PROVE  /\ \A d \in Callers \ {c} : CallOK(d)'
         /\ \A t \in Sessions \ {Of(c)} : SessionOK(t)'
<1>1. \A d \in Callers : caller[d].at \in Holding => Of(d) \in Sessions /\ rec[Of(d)].finishMu = d
  BY DEF IInv, CallOK, TInv, CallsHaveSessions, At, Holding
<1>2. ASSUME NEW d \in Callers \ {c} PROVE CallOK(d)'
  <2>1. caller[d].at \in Holding => rec'[Of(d)] = rec[Of(d)]
    BY <1>1
  <2>2. CallOK(d) /\ caller'[d] = caller[d]
    BY DEF IInv
  <2> QED
    BY <2>1, <2>2 DEF CallOK, Sound, Of, Sealing, Exporting, Holding
<1>3. ASSUME NEW t \in Sessions \ {Of(c)} PROVE SessionOK(t)'
  <2>1. SessionOK(t)
    BY DEF IInv
  <2>2. rec'[t] = rec[t] /\ waits'[t] = waits[t] /\ indexes'[t] = indexes[t]
        /\ written'[t] = written[t] /\ answers'[t] = answers[t]
    OBVIOUS
  <2>3. ListsAgree(t)' /\ AnswersAreEvidence(t)'
    BY <2>1, <2>2 DEF SessionOK, ListsAgree, AnswersAreEvidence, Evidence, Sound
  <2>4. CaptureIsKnown(t)'
    BY <2>1, <2>2 DEF SessionOK, CaptureIsKnown, Of
  <2> QED
    BY <2>3, <2>4 DEF SessionOK
<1> QED
  BY <1>2, <1>3

\* A step of a session that no call takes.
LEMMA SessionFrame ==
  ASSUME IInv, NEW s \in Sessions, UNCHANGED caller,
         \A t \in Sessions \ {s} :
           /\ rec'[t] = rec[t] /\ waits'[t] = waits[t] /\ indexes'[t] = indexes[t]
           /\ written'[t] = written[t] /\ answers'[t] = answers[t],
         rec'[s].finishMu = rec[s].finishMu, rec[s].sealed => rec'[s].sealed,
         rec[s].sealed => /\ rec'[s].segments = rec[s].segments /\ rec'[s].extras = rec[s].extras
                          /\ rec'[s].audioErr = rec[s].audioErr,
         rec[s].capture \in {"none", "succeeded"} /\ rec[s].sealed => rec'[s].capture = rec[s].capture
  PROVE  /\ \A d \in Callers : CallOK(d)'
         /\ \A t \in Sessions \ {s} : SessionOK(t)'
<1>1. \A d \in Callers : caller[d].at \in Holding => Of(d) \in Sessions
  BY DEF IInv, TInv, CallsHaveSessions, At, Holding
<1>2. ASSUME NEW d \in Callers PROVE CallOK(d)'
  <2>1. CallOK(d) /\ caller'[d] = caller[d]
    BY DEF IInv
  <2>2. CASE Of(d) = s
    BY <2>1, <2>2 DEF CallOK, Sound, Of, Sealing, Exporting, Holding
  <2>3. CASE Of(d) # s
    BY <1>1, <2>1, <2>3 DEF CallOK, Sound, Of, Sealing, Exporting, Holding
  <2> QED
    BY <2>2, <2>3
<1>3. ASSUME NEW t \in Sessions \ {s} PROVE SessionOK(t)'
  <2>1. SessionOK(t)
    BY DEF IInv
  <2>2. rec'[t] = rec[t] /\ waits'[t] = waits[t] /\ indexes'[t] = indexes[t]
        /\ written'[t] = written[t] /\ answers'[t] = answers[t]
    OBVIOUS
  <2> QED
    BY <2>1, <2>2 DEF SessionOK, ListsAgree, AnswersAreEvidence, Evidence, Sound, CaptureIsKnown, Of
<1> QED
  BY <1>2, <1>3

\* The operations that look a session up and change it alone.
LEMMA SessionSteps ==
  ASSUME IInv, NEW s \in Sessions,
         \/ \E record \in BOOLEAN : Start(s, record)
         \/ \E valid \in BOOLEAN : AddAudio(s, valid)
         \/ SealAudioTimeline(s)
         \/ \E name \in Exports : WriteJSON(s, name)
         \/ RemoveArtifacts(s)
         \/ CaptureExits(s)
  PROVE  /\ \A d \in Callers : CallOK(d)'
         /\ \A t \in Sessions : SessionOK(t)'
<1> USE DEF historyVars
<1>a. rec \in [Sessions -> Record] /\ rec[s] \in Record /\ SessionOK(s)
  BY DEF IInv, TInv, Types
<1>h. /\ written \in [Sessions -> SUBSET Exports] /\ indexes \in [Sessions -> SUBSET Nat]
  BY DEF IInv, TInv, HistoryTypes
<1> SUFFICES /\ \A d \in Callers : CallOK(d)'
             /\ \A t \in Sessions \ {s} : SessionOK(t)'
             /\ SessionOK(s)'
  OBVIOUS
<1>1. ASSUME NEW record \in BOOLEAN, Start(s, record)
      PROVE  (\A d \in Callers : CallOK(d)') /\ (\A t \in Sessions \ {s} : SessionOK(t)') /\ SessionOK(s)'
  <2>1. rec' = [rec EXCEPT ![s] = [rec[s] EXCEPT !.listed = TRUE, !.dir = TRUE,
                   !.capture = IF record THEN "running" ELSE "none"]]
    BY <1>1, <1>a DEF Start
  <2>2. rec[s] = Fresh
    BY <1>1 DEF Start
  <2>3. /\ \A f \in {"extras", "sealed", "videoStopped", "videoStopErr", "audioSealed",
                     "segments", "audioErr", "wav", "finished", "finishMu"} : rec'[s][f] = rec[s][f]
        /\ rec'[s].listed /\ rec'[s].dir
        /\ \A t \in Sessions \ {s} : rec'[t] = rec[t]
    BY <1>a, <2>1 DEF Record
  <2>4. /\ ~rec[s].sealed /\ ~rec[s].audioSealed /\ ~rec[s].videoStopped /\ ~rec[s].videoStopErr
        /\ rec[s].wav = None /\ rec[s].finished = NoAnswer
    BY <2>2 DEF Fresh
  <2>5. ListsAgree(s)'
    BY <1>1, <1>a, <2>3, <2>4 DEF Start, SessionOK, ListsAgree
  <2>6. AnswersAreEvidence(s)' /\ CaptureIsKnown(s)'
    BY <1>1, <1>a, <2>3, <2>4 DEF Start, SessionOK, AnswersAreEvidence, CaptureIsKnown
  <2> QED
    BY <1>1, <2>3, <2>4, <2>5, <2>6, SessionFrame DEF Start, SessionOK
<1>2. ASSUME NEW valid \in BOOLEAN, AddAudio(s, valid)
      PROVE  (\A d \in Callers : CallOK(d)') /\ (\A t \in Sessions \ {s} : SessionOK(t)') /\ SessionOK(s)'
  <2>1. ~rec[s].sealed /\ ~rec[s].audioSealed
    BY <1>2 DEF AddAudio, AcceptsAudio
  <2>2. \/ rec' = [rec EXCEPT ![s] = [rec[s] EXCEPT !.segments = @ + 1]]
        \/ rec' = [rec EXCEPT ![s] = [rec[s] EXCEPT !.audioErr = TRUE]]
    BY <1>2, <1>a DEF AddAudio
  <2>3. /\ \A f \in {"listed", "dir", "extras", "sealed", "videoStopped", "videoStopErr", "capture",
                     "wav", "finished", "finishMu"} : rec'[s][f] = rec[s][f]
        /\ \A t \in Sessions \ {s} : rec'[t] = rec[t]
    BY <1>a, <2>2 DEF Record
  <2>4. ListsAgree(s)' /\ AnswersAreEvidence(s)'
    BY <1>2, <1>a, <2>1, <2>3 DEF AddAudio, SessionOK, ListsAgree, AnswersAreEvidence
  <2>5. CaptureIsKnown(s)'
    BY <1>2, <1>a, <2>3 DEF AddAudio, SessionOK, CaptureIsKnown, Of
  <2> QED
    BY <1>2, <2>1, <2>3, <2>4, <2>5, SessionFrame DEF AddAudio, SessionOK
<1>3. ASSUME SealAudioTimeline(s)
      PROVE  (\A d \in Callers : CallOK(d)') /\ (\A t \in Sessions \ {s} : SessionOK(t)') /\ SessionOK(s)'
  <2>1. rec' = [rec EXCEPT ![s] = [rec[s] EXCEPT !.audioSealed = TRUE]]
    BY <1>3, <1>a DEF SealAudioTimeline
  <2>2. /\ \A f \in {"listed", "dir", "extras", "sealed", "videoStopped", "videoStopErr", "capture",
                     "segments", "audioErr", "wav", "finished", "finishMu"} : rec'[s][f] = rec[s][f]
        /\ rec'[s].audioSealed
        /\ \A t \in Sessions \ {s} : rec'[t] = rec[t]
    BY <1>a, <2>1 DEF Record
  <2>3. /\ indexes'[s] \subseteq indexes[s] \cup {rec[s].segments}
        /\ \A t \in Sessions \ {s} : indexes'[t] = indexes[t]
    BY <1>3, <1>h DEF SealAudioTimeline
  <2>4. ListsAgree(s)'
    BY <1>3, <1>a, <2>2, <2>3 DEF SealAudioTimeline, SessionOK, ListsAgree
  <2>5. AnswersAreEvidence(s)' /\ CaptureIsKnown(s)'
    BY <1>3, <1>a, <2>2
       DEF SealAudioTimeline, SessionOK, AnswersAreEvidence, Evidence, Sound, CaptureIsKnown, Of
  <2> QED
    BY <1>3, <2>2, <2>3, <2>4, <2>5, SessionFrame DEF SealAudioTimeline, SessionOK
<1>4. ASSUME NEW name \in Exports, WriteJSON(s, name)
      PROVE  (\A d \in Callers : CallOK(d)') /\ (\A t \in Sessions \ {s} : SessionOK(t)') /\ SessionOK(s)'
  <2>1. ~rec[s].sealed
    BY <1>4 DEF WriteJSON, Writable
  <2>2. rec' = [rec EXCEPT ![s] = [rec[s] EXCEPT !.extras = @ \cup {name}]]
    BY <1>4, <1>a DEF WriteJSON
  <2>3. /\ \A f \in {"listed", "dir", "sealed", "videoStopped", "videoStopErr", "capture", "audioSealed",
                     "segments", "audioErr", "wav", "finished", "finishMu"} : rec'[s][f] = rec[s][f]
        /\ rec'[s].extras = rec[s].extras \cup {name}
        /\ \A t \in Sessions \ {s} : rec'[t] = rec[t]
    BY <1>a, <2>2 DEF Record
  <2>4. written'[s] = written[s] \cup {name} /\ \A t \in Sessions \ {s} : written'[t] = written[t]
    BY <1>4, <1>h DEF WriteJSON
  <2>5. ListsAgree(s)' /\ AnswersAreEvidence(s)'
    BY <1>4, <1>a, <2>1, <2>3, <2>4 DEF WriteJSON, SessionOK, ListsAgree, AnswersAreEvidence
  <2>6. CaptureIsKnown(s)'
    BY <1>4, <1>a, <2>3 DEF WriteJSON, SessionOK, CaptureIsKnown, Of
  <2> QED
    BY <1>4, <2>1, <2>3, <2>4, <2>5, <2>6, SessionFrame DEF WriteJSON, SessionOK
<1>5. ASSUME RemoveArtifacts(s)
      PROVE  (\A d \in Callers : CallOK(d)') /\ (\A t \in Sessions \ {s} : SessionOK(t)') /\ SessionOK(s)'
  <2>1. rec' = [rec EXCEPT ![s] = [rec[s] EXCEPT !.dir = FALSE]]
    BY <1>5, <1>a DEF RemoveArtifacts
  <2>2. /\ \A f \in {"listed", "extras", "sealed", "videoStopped", "videoStopErr", "capture", "audioSealed",
                     "segments", "audioErr", "wav", "finished", "finishMu"} : rec'[s][f] = rec[s][f]
        /\ \A t \in Sessions \ {s} : rec'[t] = rec[t]
    BY <1>a, <2>1 DEF Record
  <2>3. ListsAgree(s)' /\ AnswersAreEvidence(s)'
    BY <1>5, <1>a, <2>2
       DEF RemoveArtifacts, SessionOK, ListsAgree, AnswersAreEvidence, Evidence, Sound
  <2>4. CaptureIsKnown(s)'
    BY <1>5, <1>a, <2>2 DEF RemoveArtifacts, SessionOK, CaptureIsKnown, Of
  <2> QED
    BY <1>5, <2>2, <2>3, <2>4, SessionFrame DEF RemoveArtifacts, SessionOK
<1>6. ASSUME CaptureExits(s)
      PROVE  (\A d \in Callers : CallOK(d)') /\ (\A t \in Sessions \ {s} : SessionOK(t)') /\ SessionOK(s)'
  <2> PICK outcome \in {"succeeded", "failed"} :
        rec' = [rec EXCEPT ![s] = [rec[s] EXCEPT !.capture = outcome]]
        /\ (outcome = "succeeded" => rec[s].videoStopped)
    BY <1>6, <1>a DEF CaptureExits
  <2>1. /\ \A f \in {"listed", "dir", "extras", "sealed", "videoStopped", "videoStopErr", "audioSealed",
                     "segments", "audioErr", "wav", "finished", "finishMu"} : rec'[s][f] = rec[s][f]
        /\ rec'[s].capture = outcome
        /\ \A t \in Sessions \ {s} : rec'[t] = rec[t]
    BY <1>a DEF Record
  <2>2. rec[s].capture = "running"
    BY <1>6 DEF CaptureExits
  <2>3. ListsAgree(s)'
    BY <1>6, <1>a, <2>1 DEF CaptureExits, SessionOK, ListsAgree
  <2>4. AnswersAreEvidence(s)'
    BY <1>6, <1>a, <2>1, <2>2 DEF CaptureExits, SessionOK, AnswersAreEvidence, Evidence, Sound
  <2>5. CaptureIsKnown(s)'
    BY <1>6, <1>a, <2>1, <2>2 DEF CaptureExits, SessionOK, CaptureIsKnown, Of
  <2> QED
    BY <1>6, <2>1, <2>2, <2>3, <2>4, <2>5, SessionFrame DEF CaptureExits, SessionOK
<1> QED
  BY <1>1, <1>2, <1>3, <1>4, <1>5, <1>6

\* A call that has the lock changes its own session, and leaves it as it must be.
LEMMA HolderFrame ==
  ASSUME IInv, NEW c \in Callers, caller[c].at \in Holding, NEW s \in Sessions, s = Of(c),
         NEW q \in Record, rec' = [rec EXCEPT ![s] = q],
         NEW k, caller' = [caller EXCEPT ![c] = k],
         \A t \in Sessions \ {s} :
           /\ waits'[t] = waits[t] /\ indexes'[t] = indexes[t]
           /\ written'[t] = written[t] /\ answers'[t] = answers[t],
         CallOK(c)', SessionOK(s)'
  PROVE  /\ \A d \in Callers : CallOK(d)'
         /\ \A t \in Sessions : SessionOK(t)'
<1>1. /\ \A t \in Sessions \ {s} : rec'[t] = rec[t]
      /\ \A d \in Callers \ {c} : caller'[d] = caller[d]
  BY DEF IInv, TInv, Types
<1>2. /\ \A d \in Callers \ {c} : CallOK(d)'
      /\ \A t \in Sessions \ {s} : SessionOK(t)'
  BY <1>1, OthersFrame
<1> QED
  BY <1>2

\* What is known of a call that has the lock, and of its session.
LEMMA HolderFacts ==
  ASSUME IInv, NEW c \in Callers, caller[c].at \in Holding
  PROVE  /\ Of(c) \in Sessions /\ rec[Of(c)] \in Record /\ caller[c] \in Calling
         /\ CallOK(c) /\ SessionOK(Of(c)) /\ rec[Of(c)].finishMu = c
         /\ rec \in [Sessions -> Record] /\ caller \in [Callers -> Calling]
<1>1. Of(c) \in Sessions
  BY DEF IInv, TInv, CallsHaveSessions, At, Holding
<1> QED
  BY <1>1 DEF IInv, TInv, Types, CallOK

\* A call that has no session any more.
LEMMA IdleCall ==
  ASSUME IInv, NEW c \in Callers, caller' = [caller EXCEPT ![c] = NoCall]
  PROVE  CallOK(c)'
<1>1. caller'[c] = NoCall
  BY DEF IInv, TInv, Types
<1> QED
  BY <1>1 DEF CallOK, NoCall, Holding, Sealing, Exporting

\* stopCapture has returned: the capture no longer runs, and if it ended badly, that is
\* remembered.
LEMMA AfterStopOK ==
  ASSUME IInv, NEW c \in Callers, caller[c].at \in {"stop", "wait"}, NEW s \in Sessions, s = Of(c),
         NEW r \in Record, AfterStop(c, r), UNCHANGED historyVars,
         \A f \in {"segments", "extras", "sealed", "audioErr", "audioSealed", "wav", "finished",
                   "finishMu"} : r[f] = rec[s][f],
         rec[s].videoStopped => r.videoStopped,
         rec[s].capture \in {"none", "succeeded"} => r.capture = rec[s].capture,
         r.capture # "running",
         ~r.videoStopErr => r.capture \in {"none", "succeeded"}
  PROVE  /\ \A d \in Callers : CallOK(d)'
         /\ \A t \in Sessions : SessionOK(t)'
<1> DEFINE gone == [r EXCEPT !.listed = FALSE]
<1>1. caller[c].at \in Holding /\ caller[c].at \in Sealing
  BY DEF Holding, Sealing
<1>2. /\ s \in Sessions /\ rec[s] \in Record /\ caller[c] \in Calling
      /\ CallOK(c) /\ SessionOK(s) /\ rec[s].finishMu = c
      /\ rec \in [Sessions -> Record] /\ caller \in [Callers -> Calling]
  BY <1>1, HolderFacts
<1>3. /\ gone \in Record
      /\ \A f \in {"segments", "extras", "sealed", "audioErr", "audioSealed", "wav", "finished",
                   "capture", "videoStopped", "videoStopErr", "finishMu"} : gone[f] = r[f]
  BY DEF Record
<1>4. waits' = waits /\ indexes' = indexes /\ written' = written /\ answers' = answers
  BY DEF historyVars
\* The session is well whatever becomes of its list entry and of its lock.
<1>5. ASSUME rec'[s] \in Record,
             \A f \in {"segments", "extras", "sealed", "audioErr", "audioSealed", "wav", "finished",
                       "capture", "videoStopped", "videoStopErr"} : rec'[s][f] = r[f]
      PROVE  SessionOK(s)'
  <2>1. ListsAgree(s)'
    BY <1>2, <1>4, <1>5 DEF SessionOK, ListsAgree
  <2>2. AnswersAreEvidence(s)'
    BY <1>2, <1>4, <1>5 DEF SessionOK, AnswersAreEvidence, Evidence, Sound
  <2>3. CaptureIsKnown(s)'
    BY <1>2, <1>4, <1>5 DEF SessionOK, CaptureIsKnown
  <2> QED
    BY <2>1, <2>2, <2>3 DEF SessionOK
<1>6. ASSUME NEW q \in Record, Return(c, q),
             \A f \in {"segments", "extras", "sealed", "audioErr", "audioSealed", "wav", "finished",
                       "capture", "videoStopped", "videoStopErr"} : q[f] = r[f]
      PROVE  (\A d \in Callers : CallOK(d)') /\ (\A t \in Sessions : SessionOK(t)')
  <2> DEFINE free == [q EXCEPT !.finishMu = Nobody]
  <2>1. /\ free \in Record
        /\ \A f \in {"segments", "extras", "sealed", "audioErr", "audioSealed", "wav", "finished",
                     "capture", "videoStopped", "videoStopErr"} : free[f] = r[f]
    BY <1>6 DEF Record
  <2>2. rec' = [rec EXCEPT ![s] = free] /\ caller' = [caller EXCEPT ![c] = NoCall]
    BY <1>6 DEF Return
  <2>3. rec'[s] = free
    BY <1>2, <2>2
  <2>4. SessionOK(s)'
    BY <1>5, <2>1, <2>3
  <2>5. CallOK(c)'
    BY <2>2, IdleCall
  <2> HIDE DEF free
  <2>6. (\A t \in Sessions \ {s} :
           /\ waits'[t] = waits[t] /\ indexes'[t] = indexes[t]
           /\ written'[t] = written[t] /\ answers'[t] = answers[t])
    BY <1>4
  <2> QED
    BY <1>1, <2>1, <2>2, <2>4, <2>5, <2>6, HolderFrame
<1>7. CASE caller[c].op = "abort"
  BY <1>3, <1>6, <1>7 DEF AfterStop
<1>8. CASE caller[c].op # "abort" /\ (r.videoStopErr \/ caller[c].audioErr)
  BY <1>6, <1>8 DEF AfterStop
<1>9. CASE caller[c].op # "abort" /\ ~(r.videoStopErr \/ caller[c].audioErr)
  <2>1. rec' = [rec EXCEPT ![s] = r]
        /\ caller' = [caller EXCEPT ![c] = [caller[c] EXCEPT !.at = "render"]]
    BY <1>2, <1>9 DEF AfterStop, Goto
  <2>2. rec'[s] = r /\ caller'[c] = [caller[c] EXCEPT !.at = "render"]
    BY <1>2, <2>1
  <2>3. SessionOK(s)'
    BY <1>5, <2>2
  <2>4. \A f \in {"session", "segments", "extras", "audioErr"} : caller'[c][f] = caller[c][f]
    BY <1>2, <2>2 DEF Calling
  <2>5. CallOK(c)'
    BY <1>1, <1>2, <1>9, <2>2, <2>4 DEF CallOK, Of, Sound
  <2> QED
    BY <1>1, <1>4, <2>1, <2>3, <2>5, HolderFrame
<1> QED
  BY <1>7, <1>8, <1>9

\* An export under the lock of a sound session: a WAV of what was copied, and an answer.
LEMMA ExportOK ==
  ASSUME IInv, NEW c \in Callers, caller[c].at \in Exporting, NEW s \in Sessions, s = Of(c),
         NEW q \in Record, rec' = [rec EXCEPT ![s] = q],
         \A f \in {"segments", "extras", "sealed", "audioErr", "audioSealed", "capture",
                   "videoStopped", "videoStopErr"} : q[f] = rec[s][f],
         q.wav \in {rec[s].wav, caller[c].segments},
         q.finished \in {rec[s].finished,
                         [audio |-> caller[c].segments, extras |-> caller[c].extras]},
         answers'[s] \subseteq answers[s] \cup
                         {[audio |-> caller[c].segments, extras |-> caller[c].extras]},
         UNCHANGED <<waits, indexes, written>>
  PROVE  SessionOK(s)'
<1>1. caller[c].at \in Holding /\ caller[c].at \in Sealing
  BY DEF Holding, Sealing, Exporting
<1>2. /\ s \in Sessions /\ rec[s] \in Record /\ caller[c] \in Calling
      /\ CallOK(c) /\ SessionOK(s) /\ rec \in [Sessions -> Record]
  BY <1>1, HolderFacts
<1>3. /\ rec[s].sealed /\ Sound(s) /\ caller[c].segments = rec[s].segments
      /\ caller[c].extras = rec[s].extras
  BY <1>1, <1>2 DEF CallOK
<1>4. rec'[s] = q
  BY <1>2
<1>5. ListsAgree(s)'
  BY <1>2, <1>3, <1>4 DEF SessionOK, ListsAgree
<1>6. AnswersAreEvidence(s)'
  BY <1>2, <1>3, <1>4 DEF SessionOK, AnswersAreEvidence, Evidence, Sound
<1>7. CaptureIsKnown(s)'
  BY <1>2, <1>3, <1>4 DEF SessionOK, CaptureIsKnown, Sound
<1> QED
  BY <1>5, <1>6, <1>7 DEF SessionOK

\* A call is made: it has neither a lock nor a copy.
LEMMA CallOKs ==
  ASSUME IInv, NEW s \in Sessions, NEW c \in Callers, NEW op \in {"finish", "abort"}, Call(c, op, s)
  PROVE  (\A d \in Callers : CallOK(d)') /\ (\A t \in Sessions : SessionOK(t)')
<1> USE DEF historyVars
<1>1. /\ caller' = [caller EXCEPT ![c] = [NoCall EXCEPT !.op = op, !.at = "lock", !.session = s]]
      /\ caller[c].at = "idle" /\ UNCHANGED <<rec, waits, indexes, written, answers>>
  BY DEF Call, At
<1>2. /\ caller'[c].at = "lock" /\ \A d \in Callers \ {c} : caller'[d] = caller[d]
  BY <1>1 DEF NoCall, IInv, TInv, Types
<1>3. ASSUME NEW d \in Callers PROVE CallOK(d)'
  <2>1. CallOK(d)
    BY DEF IInv
  <2> QED
    BY <1>1, <1>2, <2>1 DEF CallOK, Of, Holding, Sealing, Exporting, Sound
<1>4. ASSUME NEW t \in Sessions PROVE SessionOK(t)'
  <2>1. SessionOK(t)
    BY DEF IInv
  <2>2. ListsAgree(t)' /\ AnswersAreEvidence(t)'
    BY <1>1, <2>1 DEF SessionOK, ListsAgree, AnswersAreEvidence, Evidence, Sound
  <2>3. CaptureIsKnown(t)'
    BY <1>1, <1>2, <2>1 DEF SessionOK, CaptureIsKnown, Of
  <2> QED
    BY <2>2, <2>3 DEF SessionOK
<1> QED
  BY <1>3, <1>4

\* A call gets the lock that nobody has, or returns the answer of the Finish before it.
LEMMA LockOK ==
  ASSUME IInv, NEW c \in Callers, Lock(c)
  PROVE  (\A d \in Callers : CallOK(d)') /\ (\A t \in Sessions : SessionOK(t)')
<1> PICK s \in Sessions : s = Of(c)
  BY DEF Lock, IInv, TInv, CallsHaveSessions, At
<1>1. /\ rec \in [Sessions -> Record] /\ caller \in [Callers -> Calling] /\ rec[s] \in Record
      /\ caller[c].at = "lock" /\ rec[s].finishMu = Nobody /\ SessionOK(s)
      /\ answers \in [Sessions -> SUBSET Answer]
  BY DEF Lock, At, IInv, TInv, Types, HistoryTypes
<1>2. \A d \in Callers : CallOK(d) /\ (caller[d].at \in Holding => Of(d) \in Sessions /\ Of(d) # s)
  <2>1. \A d \in Callers : CallOK(d) /\ (caller[d].at \in Holding => Of(d) \in Sessions)
    BY DEF IInv, TInv, CallsHaveSessions, At, Holding
  <2> QED
    BY <1>1, <2>1, CallerAssumption DEF CallOK
<1>3. CASE /\ caller' = [caller EXCEPT ![c] = NoCall] /\ UNCHANGED <<rec, waits, indexes, written>>
           /\ answers' = [answers EXCEPT ![s] = @ \cup {rec[s].finished}]
           /\ rec[s].finished # NoAnswer
  <2>1. /\ caller'[c].at = "idle" /\ \A d \in Callers \ {c} : caller'[d] = caller[d]
    BY <1>1, <1>3 DEF NoCall
  <2>2. ASSUME NEW d \in Callers PROVE CallOK(d)'
    BY <1>2, <1>3, <2>1 DEF CallOK, Of, Holding, Sealing, Exporting, Sound
  <2>3. ASSUME NEW t \in Sessions PROVE SessionOK(t)'
    <3>1. SessionOK(t)
      BY DEF IInv
    <3>2. ListsAgree(t)'
      BY <1>3, <3>1 DEF SessionOK, ListsAgree
    <3>3. answers'[t] \subseteq answers[t] \cup {rec[t].finished}
          /\ (answers'[t] # answers[t] => rec[t].finished # NoAnswer)
      BY <1>1, <1>3
    <3>4. AnswersAreEvidence(t)'
      BY <1>3, <3>1, <3>3 DEF SessionOK, AnswersAreEvidence, Evidence, Sound
    <3>5. CaptureIsKnown(t)'
      BY <1>1, <1>3, <2>1, <3>1 DEF SessionOK, CaptureIsKnown, Of
    <3> QED
      BY <3>2, <3>4, <3>5 DEF SessionOK
  <2> QED
    BY <2>2, <2>3
<1>4. CASE /\ caller' = [caller EXCEPT ![c].at = "seal"] /\ UNCHANGED historyVars
           /\ rec' = [rec EXCEPT ![s].finishMu = c]
  <2>1. rec' = [rec EXCEPT ![s] = [rec[s] EXCEPT !.finishMu = c]]
        /\ caller' = [caller EXCEPT ![c] = [caller[c] EXCEPT !.at = "seal"]]
    BY <1>1, <1>4
  <2>2. /\ \A f \in {"listed", "dir", "segments", "extras", "sealed", "audioSealed", "audioErr",
                     "videoStopped", "videoStopErr", "capture", "wav", "finished"} :
             rec'[s][f] = rec[s][f]
        /\ rec'[s].finishMu = c /\ \A t \in Sessions \ {s} : rec'[t] = rec[t]
    BY <1>1, <2>1 DEF Record
  <2>3. /\ caller'[c].at = "seal" /\ caller'[c].session = s
        /\ \A d \in Callers \ {c} : caller'[d] = caller[d]
    BY <1>1, <2>1 DEF Calling, Of
  <2>4. waits' = waits /\ indexes' = indexes /\ written' = written /\ answers' = answers
    BY <1>4 DEF historyVars
  <2>5. ASSUME NEW d \in Callers \ {c} PROVE CallOK(d)'
    BY <1>2, <2>2, <2>3 DEF CallOK, Of, Holding, Sealing, Exporting, Sound
  <2>6. CallOK(c)'
    BY <2>2, <2>3 DEF CallOK, Of, Holding, Sealing, Exporting
  <2>7. ASSUME NEW t \in Sessions PROVE SessionOK(t)'
    <3>1. SessionOK(t)
      BY DEF IInv
    <3>2. ListsAgree(t)'
      BY <2>2, <2>4, <3>1 DEF SessionOK, ListsAgree
    <3>3. AnswersAreEvidence(t)'
      BY <2>2, <2>4, <3>1 DEF SessionOK, AnswersAreEvidence, Evidence, Sound
    <3>4. CASE t = s
      BY <1>1, <2>2, <2>4, <3>1, <3>4, CallerAssumption, <3>2, <3>3 DEF SessionOK, CaptureIsKnown
    <3>5. CASE t # s
      <4>1. rec'[t] = rec[t]
        BY <2>2, <3>5
      <4>2. CaptureIsKnown(t)'
        BY <1>1, <2>3, <2>4, <3>1, <4>1 DEF SessionOK, CaptureIsKnown, Of
      <4> QED
        BY <3>2, <3>3, <4>2 DEF SessionOK
    <3> QED
      BY <3>4, <3>5
  <2> QED
    BY <2>5, <2>6, <2>7
<1> QED
  BY <1>3, <1>4 DEF Lock, Goto, historyVars

LEMMA SealOK ==
  ASSUME IInv, NEW c \in Callers, Seal(c)
  PROVE  (\A d \in Callers : CallOK(d)') /\ (\A t \in Sessions : SessionOK(t)')
<1>1. caller[c].at \in Holding
  BY DEF Seal, At, Holding
<1> PICK s \in Sessions : s = Of(c)
  BY <1>1, HolderFacts
<1> DEFINE q == [rec[s] EXCEPT !.sealed = TRUE]
           k == [caller[c] EXCEPT !.at = "stop", !.segments = rec[s].segments,
                                  !.extras = rec[s].extras, !.audioErr = rec[s].audioErr]
<1>2. /\ rec[s] \in Record /\ caller[c] \in Calling /\ CallOK(c) /\ SessionOK(s)
      /\ rec \in [Sessions -> Record] /\ caller \in [Callers -> Calling] /\ rec[s].finishMu = c
  BY <1>1, HolderFacts
<1>3. rec' = [rec EXCEPT ![s] = q] /\ caller' = [caller EXCEPT ![c] = k]
      /\ caller[c].at = "seal"
  BY <1>2 DEF Seal, At
<1>4. q \in Record /\ q.sealed
      /\ \A f \in {"listed", "dir", "segments", "extras", "audioSealed", "audioErr", "finishMu",
                   "videoStopped", "videoStopErr", "capture", "wav", "finished"} : q[f] = rec[s][f]
  BY <1>2 DEF Record
<1>5. /\ k.at = "stop" /\ k.session = s /\ k.segments = rec[s].segments
      /\ k.extras = rec[s].extras /\ k.audioErr = rec[s].audioErr
  BY <1>2 DEF Calling, Of
<1>6. rec'[s] = q /\ caller'[c] = k
  BY <1>2, <1>3
<1>7. waits' = waits /\ indexes' = indexes /\ written' = written /\ answers' = answers
  BY DEF Seal, historyVars
<1> HIDE DEF q, k
<1>8. CallOK(c)'
  BY <1>2, <1>4, <1>5, <1>6 DEF CallOK, Of, Exporting
<1>9. ListsAgree(s)' /\ AnswersAreEvidence(s)'
  BY <1>2, <1>4, <1>6, <1>7 DEF SessionOK, ListsAgree, AnswersAreEvidence, Evidence, Sound
<1>10. CaptureIsKnown(s)'
  <2>1. ~(rec[s].videoStopped /\ ~rec[s].videoStopErr /\ rec[s].capture \in {"running", "failed"})
    BY <1>2, <1>3 DEF SessionOK, CaptureIsKnown
  <2> QED
    BY <1>2, <1>4, <1>6, <1>7, <2>1 DEF SessionOK, CaptureIsKnown
<1>11. SessionOK(s)'
  BY <1>9, <1>10 DEF SessionOK
<1> QED
  BY <1>1, <1>3, <1>4, <1>7, <1>8, <1>11, HolderFrame

\* exec.Cmd.Wait is entered once: videoStopped is set in the same section.
LEMMA StopCaptureOK ==
  ASSUME IInv, NEW c \in Callers, StopCapture(c)
  PROVE  (\A d \in Callers : CallOK(d)') /\ (\A t \in Sessions : SessionOK(t)')
<1>1. caller[c].at = "stop" /\ caller[c].at \in Holding /\ caller[c].at \in Sealing
  BY DEF StopCapture, At, Holding, Sealing
<1> PICK s \in Sessions : s = Of(c)
  BY <1>1, HolderFacts
<1> DEFINE q == [rec[s] EXCEPT !.videoStopped = TRUE]
<1>2. /\ rec[s] \in Record /\ caller[c] \in Calling /\ CallOK(c) /\ SessionOK(s)
      /\ rec \in [Sessions -> Record] /\ caller \in [Callers -> Calling] /\ rec[s].finishMu = c
      /\ waits \in [Sessions -> Nat]
  BY <1>1, HolderFacts DEF IInv, TInv, HistoryTypes
<1>3. q \in Record /\ q.videoStopped
      /\ \A f \in {"listed", "dir", "segments", "extras", "audioSealed", "audioErr", "finishMu",
                   "sealed", "videoStopErr", "capture", "wav", "finished"} : q[f] = rec[s][f]
  BY <1>2 DEF Record
<1>4. \/ rec[s].videoStopped /\ AfterStop(c, rec[s]) /\ UNCHANGED waits
      \/ ~rec[s].videoStopped /\ rec[s].capture = "none" /\ AfterStop(c, q) /\ UNCHANGED waits
      \/ /\ ~rec[s].videoStopped /\ rec[s].capture # "none"
         /\ Goto(c, "wait") /\ rec' = [rec EXCEPT ![s] = q]
         /\ waits' = [waits EXCEPT ![s] = @ + 1]
  BY DEF StopCapture, Stopped
<1>5. indexes' = indexes /\ written' = written /\ answers' = answers
  BY DEF StopCapture
<1> HIDE DEF q
<1>6. CASE rec[s].videoStopped /\ AfterStop(c, rec[s]) /\ UNCHANGED waits
  <2>1. rec[s].capture # "running" /\ (~rec[s].videoStopErr => rec[s].capture \in {"none", "succeeded"})
    BY <1>1, <1>2, <1>6 DEF SessionOK, CaptureIsKnown, Record
  <2>2. UNCHANGED historyVars
    BY <1>5, <1>6 DEF historyVars
  <2> QED
    BY <1>1, <1>2, <1>6, <2>1, <2>2, AfterStopOK
<1>7. CASE rec[s].capture = "none" /\ AfterStop(c, q) /\ UNCHANGED waits
  <2>1. UNCHANGED historyVars
    BY <1>5, <1>7 DEF historyVars
  <2> QED
    BY <1>1, <1>3, <1>7, <2>1, AfterStopOK
<1>8. CASE /\ ~rec[s].videoStopped /\ rec[s].capture # "none"
           /\ Goto(c, "wait") /\ rec' = [rec EXCEPT ![s] = q]
           /\ waits' = [waits EXCEPT ![s] = @ + 1]
  <2> DEFINE k == [caller[c] EXCEPT !.at = "wait"]
  <2>1. caller' = [caller EXCEPT ![c] = k]
    BY <1>2, <1>8 DEF Goto
  <2>2. rec'[s] = q /\ caller'[c] = k /\ waits'[s] = 1
    <3>1. waits[s] = 0
      BY <1>2, <1>8 DEF SessionOK, CaptureIsKnown
    <3> QED
      BY <1>2, <1>8, <2>1, <3>1
  <2>3. k.at = "wait" /\ \A f \in {"session", "segments", "extras", "audioErr"} : k[f] = caller[c][f]
    BY <1>2 DEF Calling
  <2> HIDE DEF k
  <2>4. CallOK(c)'
    BY <1>1, <1>2, <1>3, <2>2, <2>3 DEF CallOK, Of, Exporting
  <2>5. ListsAgree(s)' /\ AnswersAreEvidence(s)'
    BY <1>2, <1>3, <1>5, <2>2 DEF SessionOK, ListsAgree, AnswersAreEvidence, Evidence, Sound
  <2>6. CaptureIsKnown(s)'
    <3>1. Of(c)' = s
      BY <2>2, <2>3 DEF Of
    <3>2. \E d \in Callers : rec'[s].finishMu = d /\ caller'[d].at = "wait" /\ Of(d)' = s
      BY <1>2, <1>3, <2>2, <2>3, <3>1
    <3> QED
      BY <1>2, <1>3, <2>2, <3>2 DEF SessionOK, CaptureIsKnown
  <2>7. SessionOK(s)'
    BY <2>5, <2>6 DEF SessionOK
  <2>8. \A t \in Sessions \ {s} :
          /\ waits'[t] = waits[t] /\ indexes'[t] = indexes[t]
          /\ written'[t] = written[t] /\ answers'[t] = answers[t]
    BY <1>2, <1>5, <1>8
  <2> QED
    BY <1>1, <1>3, <1>8, <2>1, <2>4, <2>7, <2>8, HolderFrame
<1> QED
  BY <1>4, <1>6, <1>7, <1>8

\* The process has ended, by itself or by the context of the call that waits for it.
LEMMA WaitOK ==
  ASSUME IInv, NEW c \in Callers, CaptureReaped(c) \/ CaptureKilled(c)
  PROVE  (\A d \in Callers : CallOK(d)') /\ (\A t \in Sessions : SessionOK(t)')
<1>1. caller[c].at = "wait" /\ caller[c].at \in Holding
  BY DEF CaptureReaped, CaptureKilled, At, Holding
<1> PICK s \in Sessions : s = Of(c)
  BY <1>1, HolderFacts
<1>2. rec[s] \in Record
  BY <1>1, HolderFacts
<1>3. UNCHANGED historyVars
  BY DEF CaptureReaped, CaptureKilled, historyVars
<1>4. CASE CaptureReaped(c)
  <2> DEFINE q == [rec[s] EXCEPT !.videoStopErr = rec[s].capture = "failed"]
  <2>1. /\ q \in Record /\ q.videoStopErr = (rec[s].capture = "failed")
        /\ \A f \in {"listed", "dir", "segments", "extras", "audioSealed", "audioErr", "finishMu",
                     "sealed", "videoStopped", "capture", "wav", "finished"} : q[f] = rec[s][f]
    BY <1>2 DEF Record
  <2>2. AfterStop(c, q) /\ rec[s].capture # "running"
    BY <1>4 DEF CaptureReaped
  <2> HIDE DEF q
  <2>3. ~q.videoStopErr => q.capture \in {"none", "succeeded"}
    BY <1>2, <2>1, <2>2 DEF Record
  <2> QED
    BY <1>1, <1>3, <2>1, <2>2, <2>3, AfterStopOK
<1>5. CASE CaptureKilled(c)
  <2> DEFINE q == [rec[s] EXCEPT !.videoStopErr = TRUE,
                                 !.capture = IF @ = "running" THEN "failed" ELSE @]
  <2>1. /\ q \in Record /\ q.videoStopErr
        /\ q.capture = IF rec[s].capture = "running" THEN "failed" ELSE rec[s].capture
        /\ \A f \in {"listed", "dir", "segments", "extras", "audioSealed", "audioErr", "finishMu",
                     "sealed", "videoStopped", "wav", "finished"} : q[f] = rec[s][f]
    BY ZenonT(30), <1>2 DEF Record
  <2>2. AfterStop(c, q)
    BY <1>5 DEF CaptureKilled
  <2> HIDE DEF q
  <2> QED
    BY <1>1, <1>3, <2>1, <2>2, AfterStopOK
<1> QED
  BY <1>4, <1>5

\* A call that exports: it returns with or without the WAV or the answer, or goes on.
LEMMA ExportStep ==
  ASSUME IInv, NEW c \in Callers, caller[c].at \in Exporting, NEW s \in Sessions, s = Of(c),
         NEW r \in Record, Return(c, r) \/ ((Goto(c, "mux") \/ Goto(c, "publish"))
                                            /\ rec' = [rec EXCEPT ![s] = r]),
         \A f \in {"segments", "extras", "sealed", "audioErr", "audioSealed", "capture",
                   "videoStopped", "videoStopErr", "finishMu"} : r[f] = rec[s][f],
         r.wav \in {rec[s].wav, caller[c].segments},
         r.finished \in {rec[s].finished,
                         [audio |-> caller[c].segments, extras |-> caller[c].extras]},
         answers'[s] \subseteq answers[s] \cup
                               {[audio |-> caller[c].segments, extras |-> caller[c].extras]},
         \A t \in Sessions \ {s} : answers'[t] = answers[t],
         UNCHANGED <<waits, indexes, written>>
  PROVE  (\A d \in Callers : CallOK(d)') /\ (\A t \in Sessions : SessionOK(t)')
<1>1. caller[c].at \in Holding /\ caller[c].at \in Sealing
  BY DEF Holding, Sealing, Exporting
<1>2. /\ rec[s] \in Record /\ caller[c] \in Calling /\ CallOK(c) /\ rec[s].finishMu = c
      /\ rec \in [Sessions -> Record] /\ caller \in [Callers -> Calling]
  BY <1>1, HolderFacts
<1>3. \A t \in Sessions \ {s} :
        /\ waits'[t] = waits[t] /\ indexes'[t] = indexes[t]
        /\ written'[t] = written[t] /\ answers'[t] = answers[t]
  OBVIOUS
<1>4. CASE Return(c, r)
  <2> DEFINE q == [r EXCEPT !.finishMu = Nobody]
  <2>1. q \in Record /\ \A f \in {"segments", "extras", "sealed", "audioErr", "audioSealed", "capture",
                                  "videoStopped", "videoStopErr", "wav", "finished"} : q[f] = r[f]
    BY DEF Record
  <2>2. rec' = [rec EXCEPT ![s] = q] /\ caller' = [caller EXCEPT ![c] = NoCall]
    BY <1>4 DEF Return
  <2> HIDE DEF q
  <2>3. CallOK(c)'
    BY <2>2, IdleCall
  <2>4. \A f \in {"segments", "extras", "sealed", "audioErr", "audioSealed", "capture",
                 "videoStopped", "videoStopErr"} : q[f] = rec[s][f]
    BY <2>1
  <2>5. q.wav = r.wav /\ q.finished = r.finished
    BY <2>1
  <2>6. SessionOK(s)'
    BY <2>1, <2>2, <2>4, <2>5, ExportOK
  <2> QED
    BY <1>1, <1>3, <2>1, <2>2, <2>3, <2>6, HolderFrame
<1>5. ASSUME NEW label \in {"mux", "publish"}, Goto(c, label), rec' = [rec EXCEPT ![s] = r]
      PROVE  (\A d \in Callers : CallOK(d)') /\ (\A t \in Sessions : SessionOK(t)')
  <2> DEFINE k == [caller[c] EXCEPT !.at = label]
  <2>1. caller' = [caller EXCEPT ![c] = k]
    BY <1>2, <1>5 DEF Goto
  <2>2. rec'[s] = r /\ caller'[c] = k
    BY <1>2, <1>5, <2>1
  <2>3. k.at = label /\ \A f \in {"session", "segments", "extras", "audioErr"} : k[f] = caller[c][f]
    BY <1>2 DEF Calling
  <2> HIDE DEF k
  <2>4. SessionOK(s)'
    BY ZenonT(30), <1>5, ExportOK
  <2>5. CallOK(c)'
    BY <1>1, <1>2, <2>2, <2>3 DEF CallOK, Of, Sound
  <2> QED
    BY <1>1, <1>3, <1>5, <2>1, <2>4, <2>5, HolderFrame
<1> QED
  BY <1>4, <1>5

LEMMA ExportingOK ==
  ASSUME IInv, NEW c \in Callers, Render(c) \/ Mux(c) \/ Publish(c)
  PROVE  (\A d \in Callers : CallOK(d)') /\ (\A t \in Sessions : SessionOK(t)')
<1>1. caller[c].at \in Exporting /\ caller[c].at \in Holding
  BY DEF Render, Mux, Publish, At, Exporting, Holding
<1> PICK s \in Sessions : s = Of(c)
  BY <1>1, HolderFacts
<1>2. /\ rec[s] \in Record /\ caller[c] \in Calling
      /\ rec \in [Sessions -> Record] /\ answers \in [Sessions -> SUBSET Answer]
  BY <1>1, HolderFacts DEF IInv, TInv, HistoryTypes
<1>3. CASE Render(c)
  <2> DEFINE wav == [rec[s] EXCEPT !.wav = IF rec[s].dir THEN caller[c].segments ELSE @]
  <2>1. /\ wav \in Record /\ wav.wav \in {rec[s].wav, caller[c].segments}
        /\ \A f \in {"segments", "extras", "sealed", "audioErr", "audioSealed", "capture",
                     "videoStopped", "videoStopErr", "finishMu", "finished"} : wav[f] = rec[s][f]
    BY <1>2 DEF Record, Calling
  <2>2. \/ Return(c, rec[s]) \/ Return(c, wav)
        \/ (Goto(c, "mux") \/ Goto(c, "publish")) /\ rec' = [rec EXCEPT ![s] = wav]
    BY <1>3 DEF Render
  <2>3. UNCHANGED <<waits, indexes, written, answers>>
    BY <1>3 DEF Render, historyVars
  <2> HIDE DEF wav
  <2> QED
    BY <1>1, <1>2, <2>1, <2>2, <2>3, ExportStep
<1>4. CASE Mux(c)
  <2>1. Return(c, rec[s]) \/ (Goto(c, "publish") /\ rec' = [rec EXCEPT ![s] = rec[s]])
    BY <1>2, <1>4 DEF Mux
  <2>2. UNCHANGED <<waits, indexes, written, answers>>
    BY <1>4 DEF Mux, historyVars
  <2> QED
    BY <1>1, <1>2, <2>1, <2>2, ExportStep
<1>5. CASE Publish(c)
  <2> DEFINE answer == [audio |-> caller[c].segments, extras |-> caller[c].extras]
             gone == [rec[s] EXCEPT !.listed = FALSE, !.finished = answer]
  <2>1. answer \in Answer
    BY <1>2 DEF Calling, Answer
  <2>2. /\ gone \in Record /\ gone.finished = answer
        /\ \A f \in {"segments", "extras", "sealed", "audioErr", "audioSealed", "capture",
                     "videoStopped", "videoStopErr", "finishMu", "wav"} : gone[f] = rec[s][f]
    BY <1>2, <2>1 DEF Record
  <2>3. /\ Return(c, gone) /\ answers' = [answers EXCEPT ![s] = @ \cup {answer}]
        /\ UNCHANGED <<waits, indexes, written>>
    BY <1>5 DEF Publish
  <2>4. /\ answers'[s] \subseteq answers[s] \cup {answer}
        /\ \A t \in Sessions \ {s} : answers'[t] = answers[t]
    BY <1>2, <2>3
  <2> HIDE DEF gone
  <2> QED
    BY <1>1, <2>2, <2>3, <2>4, ExportStep
<1> QED
  BY <1>3, <1>4, <1>5

LEMMA StepIInv == IInv /\ [Next]_vars => IInv'
<1> SUFFICES ASSUME IInv, [Next]_vars PROVE IInv'
  OBVIOUS
<1>1. TInv'
  BY StepTypes DEF IInv
<1> SUFFICES (\A d \in Callers : CallOK(d)') /\ (\A t \in Sessions : SessionOK(t)')
  BY <1>1 DEF IInv
<1>2. ASSUME NEW s \in Sessions, NEW c \in Callers, \E op \in {"finish", "abort"} : Call(c, op, s)
      PROVE  (\A d \in Callers : CallOK(d)') /\ (\A t \in Sessions : SessionOK(t)')
  BY <1>2, CallOKs
<1>3. ASSUME NEW c \in Callers, CallerStep(c) \/ CaptureKilled(c)
      PROVE  (\A d \in Callers : CallOK(d)') /\ (\A t \in Sessions : SessionOK(t)')
  BY <1>3, LockOK, SealOK, StopCaptureOK, WaitOK, ExportingOK DEF CallerStep
<1>4. CASE UNCHANGED vars
  BY <1>4 DEF IInv, vars, historyVars, CallOK, SessionOK, ListsAgree, AnswersAreEvidence,
              CaptureIsKnown, Evidence, Sound, Of
<1>5. CASE \E s \in Sessions :
             \/ \E record \in BOOLEAN : Start(s, record)
             \/ \E valid \in BOOLEAN : AddAudio(s, valid)
             \/ SealAudioTimeline(s)
             \/ \E name \in Exports : WriteJSON(s, name)
             \/ RemoveArtifacts(s)
             \/ CaptureExits(s)
  BY <1>5, SessionSteps
<1>6. CASE \E s \in Sessions, c \in Callers : \E op \in {"finish", "abort"} : Call(c, op, s)
  BY <1>2, <1>6
<1>7. CASE \E c \in Callers : CallerStep(c) \/ CaptureKilled(c)
  BY <1>3, <1>7
<1>8. Next => \/ \E s \in Sessions :
                   \/ \E record \in BOOLEAN : Start(s, record)
                   \/ \E valid \in BOOLEAN : AddAudio(s, valid)
                   \/ SealAudioTimeline(s)
                   \/ \E name \in Exports : WriteJSON(s, name)
                   \/ RemoveArtifacts(s)
                   \/ CaptureExits(s)
              \/ \E s \in Sessions, c \in Callers : \E op \in {"finish", "abort"} : Call(c, op, s)
              \/ \E c \in Callers : CallerStep(c) \/ CaptureKilled(c)
  BY DEF Next
<1> QED
  BY <1>4, <1>5, <1>6, <1>7, <1>8

LEMMA Invariant == Spec => []IInv
  BY InitIInv, StepIInv, PTL DEF Spec

-----------------------------------------------------------------------------
(* What holds in every run *)

\* manager.go's structures keep their types; in particular no more audio is held than
\* the WAV limit that AddAudio checks (manager.go:156) admits.
THEOREM TypeCorrect == Spec => []TypeOK
<1>1. IInv => TypeOK
  BY DEF IInv, TInv, Types, HistoryTypes, Record, Calling, TypeOK
<1> QED
  BY <1>1, Invariant, PTL

\* However the calls of Start, AddAudio, SealAudioTimeline, Finish and Abort overlap, the
\* sample index that was exported describes the WAV that is exported (manager.go:265: Finish copies the
\* segments as it seals the session).
THEOREM IndexCorrect == Spec => []IndexMatchesWav
<1>1. IInv => IndexMatchesWav
  <2> SUFFICES ASSUME IInv, NEW s \in Sessions, NEW index \in indexes[s]
               PROVE  /\ indexes[s] = {index}
                      /\ rec[s].wav # None => rec[s].wav = index
                      /\ \A a \in answers[s] : a.audio = index
    BY DEF IndexMatchesWav
  <2>1. ListsAgree(s) /\ AnswersAreEvidence(s)
    BY DEF IInv, SessionOK
  <2> QED
    BY <2>1 DEF ListsAgree, AnswersAreEvidence, Evidence
<1> QED
  BY <1>1, Invariant, PTL

\* stopCapture waits for a process once, whatever number of calls retry or overlap, and
\* no session is forgotten while its process runs.
THEOREM CaptureCorrect == Spec => []CaptureIsOwned
<1>1. IInv => CaptureIsOwned
  BY DEF IInv, SessionOK, CaptureIsKnown, CaptureIsOwned
<1> QED
  BY <1>1, Invariant, PTL

\* A Finish that succeeds, at once or by the answer of another, returns all that was
\* accepted for the session and nothing that is known to be broken.
THEOREM EvidenceCorrect == Spec => []EvidenceIsComplete
<1>1. IInv => EvidenceIsComplete
  <2> SUFFICES ASSUME IInv, NEW s \in Sessions, NEW a \in answers[s]
               PROVE  /\ a = [audio |-> rec[s].segments, extras |-> written[s]]
                      /\ ~rec[s].audioErr /\ rec[s].capture \in {"none", "succeeded"}
    BY DEF EvidenceIsComplete
  <2>1. ListsAgree(s) /\ AnswersAreEvidence(s)
    BY DEF IInv, SessionOK
  <2> QED
    BY <2>1 DEF ListsAgree, AnswersAreEvidence, Evidence, Sound
<1> QED
  BY <1>1, Invariant, PTL
=============================================================================
