------------------------- MODULE SessionOutputsProofs -------------------------
(* Theorems about the session outputs, for any number of executors, of calls *)
(* of the control server, of sessions, settings, commands and syntheses.     *)
EXTENDS SessionOutputs, TLAPS

\* Where an actor of each kind may be.
LabelsOf(a) ==
  IF a \in Executors THEN {"idle", "read", "start", "body", "emit", "voice"}
  ELSE IF a = Loop THEN {"idle", "gate", "check", "body", "emit", "voice"}
  ELSE {"idle", "gate", "output", "apply", "restore", "drain", "await", "acting"}

\* The locks that a call takes and the step it is at fit together.
CallFits(c) ==
  /\ pc[c] # "idle" => call[c].session \in Sessions
  /\ pc[c] \in {"gate"} => call[c].op \in {"begin", "end", "seal"}
  /\ pc[c] = "restore" => call[c].op = "end"
  /\ pc[c] \in {"output", "apply"} => call[c].op \in {"begin", "end", "seal", "set", "reset"}
  /\ pc[c] = "acting" => call[c].op = "action"
  /\ call[c].op \in {"set", "reset"} => call[c].value \in Settings

Shape ==
  /\ TypeOK /\ workload \in Workloads
  /\ \A a \in Actors : pc[a] \in LabelsOf(a)
  /\ \A c \in Controllers : CallFits(c)

\* commandGate and outputMu are held by whoever is behind them.
Gated(a) ==
  IF a \in Executors THEN pc[a] # "idle"
  ELSE IF a = Loop THEN pc[a] \in {"check", "body", "emit", "voice"}
  ELSE pc[a] \in {"output", "apply", "restore"} /\ call[a].op \in {"begin", "end", "seal"}

LocksAreHeld ==
  \A a \in Actors : /\ Gated(a) => gate = a
                    /\ pc[a] \in {"emit", "voice", "apply", "restore"} => output = a

\* A command runs in the session it captured, which stays open until it settles.
Running(x) == pc[x] \in {"body", "emit", "voice"}
CommandsAreInside ==
  \A x \in Executors :
    /\ pc[x] = "start" \/ Running(x) => mine[x] = activeSession /\ ~outputsSealed
    /\ x \in unvoiced => Running(x)

\* A session has started one command more than it has settled while one runs in it.
CommandsAreCounted ==
  \A s \in AllSessions :
    published[s]["started"] =
      published[s]["settled"] + (IF \E x \in Executors : Running(x) /\ mine[x] = s THEN 1 ELSE 0)

\* The generation tells whether the session is still the one an event was taken in.
EventsAreInside ==
  /\ read <= generation
  /\ pc[Loop] # "idle" /\ read = generation => mine[Loop] = activeSession
  /\ Running(Loop) => mine[Loop] = activeSession

\* What an end restores is what the process had before the session.
SettingsAreKept ==
  /\ activeSession # NoSession => baseline = Default
  /\ \A c \in Controllers : pc[c] = "restore" => call[c].value = Default /\ activeSession = NoSession
  /\ SettingsAreRestored

\* A call of BeginSession is the only one of its session, before anything knows it.
Begins(c) == pc[c] \in {"gate", "output", "apply"} /\ call[c].op = "begin"
SessionsBeginOnce ==
  /\ activeSession \in begun \cup {NoSession} /\ drained \subseteq begun
  /\ \A c \in Controllers : Begins(c) =>
       /\ call[c].session \in begun \ drained /\ call[c].session # activeSession
       /\ \A j \in jobs : j.session # call[c].session
       /\ \A d \in Controllers \ {c} :
            /\ Begins(d) => call[d].session # call[c].session
            /\ pc[d] = "acting" => call[d].session # call[c].session
  /\ \A c \in Controllers : pc[c] = "acting" => call[c].session \in begun
  /\ \A j \in jobs : j.session \in begun \cup {NoSession}

\* A drained session has no synthesis left, and none can start.
DrainedIsOver ==
  \A s \in drained : /\ activeSession = s => outputsSealed
                     /\ \A j \in jobs : j.session # s

\* At most one request acts in the active session.
ActionsAreOwned ==
  /\ ActionHasItsRequest
  /\ \A c, d \in Controllers :
       pc[c] = "acting" /\ pc[d] = "acting" /\ call[c].session = activeSession
         /\ call[d].session = activeSession => c = d
  /\ \A c \in Controllers : pc[c] = "acting" => call[c].value \in Commands

IInv ==
  /\ Shape /\ LocksAreHeld /\ CommandsAreInside /\ CommandsAreCounted /\ EventsAreInside
  /\ SettingsAreKept /\ SessionsBeginOnce /\ DrainedIsOver /\ ActionsAreOwned

LEMMA InitIInv == Init => IInv
<1> SUFFICES ASSUME Init PROVE IInv
  OBVIOUS
<1>1. TypeOK
  BY SettingsAssumption, SessionAssumption
     DEF Init, TypeOK, NoCall, AllSessions, Actors, Ops, AllCalls, Kinds
<1>2. Shape
  BY <1>1, ActorAssumption DEF Init, Shape, LabelsOf, CallFits, NoCall, Actors, AllCalls
<1>3. LocksAreHeld
  BY DEF Init, LocksAreHeld, Gated, Actors
<1>4. CommandsAreInside /\ CommandsAreCounted /\ EventsAreInside
  BY DEF Init, CommandsAreInside, CommandsAreCounted, EventsAreInside, Running, Actors, Kinds
<1>5. SettingsAreKept
  BY DEF Init, SettingsAreKept, SettingsAreRestored, Actors
<1>6. SessionsBeginOnce /\ DrainedIsOver /\ ActionsAreOwned
  BY DEF Init, SessionsBeginOnce, DrainedIsOver, ActionsAreOwned, ActionHasItsRequest, Begins, Actors
<1> QED
  BY <1>2, <1>3, <1>4, <1>5, <1>6 DEF IInv

\* An event of one session and kind, and no other, is added.
LEMMA PublishAdds ==
  ASSUME published \in [AllSessions -> [Kinds -> Nat]],
         NEW s \in AllSessions, NEW k \in Kinds, Publish(s, k)
  PROVE  /\ published' \in [AllSessions -> [Kinds -> Nat]]
         /\ published'[s][k] = published[s][k] + 1
         /\ \A t \in AllSessions, j \in Kinds :
              t # s \/ j # k => published'[t][j] = published[t][j]
<1> DEFINE more == [published[s] EXCEPT ![k] = @ + 1]
<1>1. published[s] \in [Kinds -> Nat]
  OBVIOUS
<1>2. more \in [Kinds -> Nat] /\ more[k] = published[s][k] + 1
      /\ \A j \in Kinds \ {k} : more[j] = published[s][j]
  BY <1>1
<1>3. published' = [published EXCEPT ![s] = more]
  BY DEF Publish
<1> HIDE DEF more
<1> QED
  BY <1>2, <1>3

-----------------------------------------------------------------------------
(* Executors *)

ExecutorStep(x) ==
  ExecGate(x) \/ ExecProgress(x) \/ ExecMode(x) \/ ExecTether(x) \/ EmitLock(x)

LEMMA ExecutorShape ==
  ASSUME IInv, UNCHANGED workload, NEW x \in Executors, ExecutorStep(x)
  PROVE  Shape'
<1>1. /\ pc \in [Actors -> {"idle", "gate", "read", "start", "body", "emit", "voice", "check",
                            "output", "apply", "restore", "drain", "await", "acting"}]
      /\ x \in Actors /\ x # Loop /\ \A c \in Controllers : c \in Actors /\ c # x
      /\ mine \in [Executors \cup {Loop} -> AllSessions]
      /\ published \in [AllSessions -> [Kinds -> Nat]] /\ Session \in AllSessions
      /\ {"started", "settled", "output", "audio"} \subseteq Kinds
      /\ activeSession \in AllSessions /\ nextJob \in Nat /\ mine[x] \in AllSessions
      /\ workload.settings \subseteq Settings
  BY ActorAssumption, BoundAssumption
     DEF IInv, Shape, TypeOK, Actors, AllSessions, Session, Kinds
<1>2. /\ pc' \in [Actors -> {"idle", "read", "start", "body", "emit", "voice", "gate", "check",
                             "output", "apply", "restore", "drain", "await", "acting"}]
      /\ pc'[x] \in {"idle", "read", "start", "body", "emit", "voice"}
      /\ \A a \in Actors \ {x} : pc'[a] = pc[a]
  BY <1>1 DEF IInv, Shape, LabelsOf, ExecutorStep, ExecGate, ExecProgress, ExecMode, ExecTether,
     ExecRead, ExecStart, ExecSettle, ExecVoiceAll, EmitLock, EmitSpeech, EmitVoice, Goto, Leave
<1>3. UNCHANGED <<activeSession, generation, outputsSealed, activeAction, settings, baseline,
                  recorded, begun, drained, read, call>>
  BY DEF ExecutorStep, ExecGate, ExecProgress, ExecMode, ExecTether, ExecRead, ExecStart,
     ExecSettle, ExecVoiceAll, EmitLock, EmitSpeech, EmitVoice, engineVars, synthVars,
     historyVars, handlerVars
<1>4. /\ tether' \in Settings /\ gate' \in {gate, x, Nobody} /\ output' \in {output, x, Nobody}
      /\ unvoiced' \subseteq unvoiced \cup {x}
  <2>1. tether' \in Settings
    BY <1>1 DEF IInv, Shape, TypeOK, ExecutorStep, ExecGate, ExecProgress, ExecMode, ExecTether,
       ExecRead, ExecStart, ExecSettle, ExecVoiceAll, EmitLock, EmitSpeech, EmitVoice, engineVars
  <2>2. gate' \in {gate, x, Nobody}
    BY DEF ExecutorStep, ExecGate, ExecProgress, ExecMode, ExecTether,
       ExecRead, ExecStart, ExecSettle, ExecVoiceAll, EmitLock, EmitSpeech, EmitVoice, Leave
  <2>3. output' \in {output, x, Nobody}
    BY DEF ExecutorStep, ExecGate, ExecProgress, ExecMode, ExecTether,
       ExecRead, ExecStart, ExecSettle, ExecVoiceAll, EmitLock, EmitSpeech, EmitVoice
  <2>4. unvoiced' \subseteq unvoiced \cup {x}
    BY DEF ExecutorStep, ExecGate, ExecProgress, ExecMode, ExecTether, ExecRead, ExecStart,
       ExecSettle, ExecVoiceAll, EmitLock, EmitSpeech, EmitVoice, handlerVars
  <2> QED
    BY <2>1, <2>2, <2>3, <2>4
<1>5. mine' \in [Executors \cup {Loop} -> AllSessions]
  <2>1. \/ mine' = mine \/ mine' = [mine EXCEPT ![x] = NoSession]
        \/ mine' = [mine EXCEPT ![x] = activeSession]
    BY DEF ExecutorStep, ExecGate, ExecProgress, ExecMode, ExecTether, ExecRead, ExecStart,
       ExecSettle, ExecVoiceAll, EmitLock, EmitSpeech, EmitVoice, Leave, handlerVars
  <2>2. NoSession \in AllSessions
    BY DEF AllSessions
  <2> QED
    BY <1>1, <2>1, <2>2
<1>6. published' \in [AllSessions -> [Kinds -> Nat]]
  <2>1. \/ published' = published \/ Publish(mine[x], "started") \/ Publish(mine[x], "settled")
        \/ Publish(Session, "output")
    BY DEF ExecutorStep, ExecGate, ExecProgress, ExecMode, ExecTether, ExecRead, ExecStart,
       ExecSettle, ExecVoiceAll, EmitLock, EmitSpeech, EmitVoice
  <2> QED
    BY <1>1, <2>1, PublishAdds
<1>7. /\ jobs' \subseteq [id : Nat, session : AllSessions, phase : {"running", "recorded"}]
      /\ nextJob' \in Nat
  <2>1. Synthesis(Session) \in [id : Nat, session : AllSessions, phase : {"running", "recorded"}]
        /\ Synthesis(mine[x]) \in [id : Nat, session : AllSessions, phase : {"running", "recorded"}]
    BY <1>1 DEF Synthesis
  <2> QED
    BY <1>1, <2>1 DEF IInv, Shape, TypeOK, ExecutorStep, ExecGate, ExecProgress, ExecMode, ExecTether,
       ExecRead, ExecStart, ExecSettle, ExecVoiceAll, EmitLock, EmitSpeech, EmitVoice,
       engineVars, synthVars, historyVars, handlerVars
<1>8. TypeOK'
  BY <1>1, <1>2, <1>3, <1>4, <1>5, <1>6, <1>7 DEF IInv, Shape, TypeOK
<1>9. \A a \in Actors : pc'[a] \in LabelsOf(a)
  BY <1>1, <1>2 DEF IInv, Shape, LabelsOf
<1>10. \A c \in Controllers : CallFits(c)'
  BY <1>1, <1>2, <1>3 DEF IInv, Shape, CallFits
<1> QED
  BY <1>8, <1>9, <1>10 DEF IInv, Shape

LEMMA ExecutorKeeps ==
  ASSUME IInv, UNCHANGED workload, NEW x \in Executors, ExecutorStep(x)
  PROVE  IInv'
<1>1. /\ x \in Actors /\ x # Loop /\ x # Nobody /\ Loop # Nobody /\ Loop \in Actors
      /\ \A c \in Controllers : c \in Actors /\ c # x /\ c # Nobody
      /\ Nobody \notin Actors /\ Executors \subseteq Actors
      /\ pc \in [Actors -> {"idle", "gate", "read", "start", "body", "emit", "voice", "check",
                            "output", "apply", "restore", "drain", "await", "acting"}]
      /\ mine \in [Executors \cup {Loop} -> AllSessions]
      /\ published \in [AllSessions -> [Kinds -> Nat]] /\ Session \in AllSessions
      /\ {"started", "settled", "output", "audio"} \subseteq Kinds
      /\ activeSession \in AllSessions /\ mine[x] \in AllSessions
      /\ outputsSealed \in BOOLEAN /\ \A s \in AllSessions : published[s] \in [Kinds -> Nat]
  BY ActorAssumption DEF IInv, Shape, TypeOK, Actors, AllSessions, Session, Kinds
<1>2. /\ pc[x] \in {"idle", "read", "start", "body", "emit", "voice"}
      /\ \A d \in Executors \ {x} : (pc[x] # "idle" => pc[d] = "idle")
      /\ pc[x] # "idle" => gate = x
  BY <1>1 DEF IInv, Shape, LabelsOf, LocksAreHeld, Gated
<1>3. \A a \in Actors \ {x} : pc'[a] = pc[a] /\ (a \in Executors \cup {Loop} => mine'[a] = mine[a])
  <2>1. \A a \in Actors \ {x} : pc'[a] = pc[a]
    BY <1>1 DEF ExecutorStep, ExecGate, ExecProgress, ExecMode, ExecTether, ExecRead, ExecStart,
       ExecSettle, ExecVoiceAll, EmitLock, EmitSpeech, EmitVoice, Goto, Leave
  <2>2. \A a \in (Executors \cup {Loop}) \ {x} : mine'[a] = mine[a]
    BY <1>1 DEF ExecutorStep, ExecGate, ExecProgress, ExecMode, ExecTether, ExecRead, ExecStart,
       ExecSettle, ExecVoiceAll, EmitLock, EmitSpeech, EmitVoice, Leave, handlerVars
  <2> QED
    BY <2>1, <2>2
<1>4. UNCHANGED <<activeSession, generation, outputsSealed, activeAction, settings, baseline,
                  recorded, begun, drained, read, call>>
  BY DEF ExecutorStep, ExecGate, ExecProgress, ExecMode, ExecTether, ExecRead, ExecStart,
     ExecSettle, ExecVoiceAll, EmitLock, EmitSpeech, EmitVoice, engineVars, synthVars,
     historyVars, handlerVars
<1>5. Shape'
  BY ExecutorShape
<1>6. LocksAreHeld'
  <2>1. /\ pc'[x] # "idle" => gate' = x
        /\ \A a \in Actors \ {x} : gate = a => gate' = a
    BY <1>1, <1>2 DEF ExecutorStep, ExecGate, ExecProgress, ExecMode, ExecTether, ExecRead, ExecStart,
       ExecSettle, ExecVoiceAll, EmitLock, EmitSpeech, EmitVoice, Goto, Leave
  <2>2. pc[x] \in {"emit", "voice"} => output = x
    BY <1>1 DEF IInv, LocksAreHeld
  <2>3. /\ pc'[x] \in {"emit", "voice", "apply", "restore"} => output' = x
        /\ \A a \in Actors \ {x} : output = a => output' = a
    BY <1>1, <1>2, <2>2 DEF ExecutorStep, ExecGate, ExecProgress, ExecMode, ExecTether, ExecRead,
       ExecStart, ExecSettle, ExecVoiceAll, EmitLock, EmitSpeech, EmitVoice, Goto, Leave
  <2> QED
    BY <1>1, <1>3, <1>4, <2>1, <2>3 DEF IInv, LocksAreHeld, Gated
<1>7. CommandsAreInside'
  <2>1. /\ pc'[x] = "start" \/ Running(x)' => mine'[x] = activeSession /\ ~outputsSealed
        /\ x \in unvoiced' => Running(x)'
        /\ \A d \in Executors \ {x} : d \in unvoiced' => d \in unvoiced
    BY <1>1, <1>2 DEF IInv, CommandsAreInside, Running, ExecutorStep, ExecGate, ExecProgress, ExecMode,
       ExecTether, ExecRead, ExecStart, ExecSettle, ExecVoiceAll, EmitLock, EmitSpeech, EmitVoice,
       Goto, Leave, handlerVars
  <2> QED
    BY <1>1, <1>3, <1>4, <2>1 DEF IInv, CommandsAreInside, Running
<1>8. EventsAreInside'
  BY <1>1, <1>3, <1>4 DEF IInv, EventsAreInside, Running
<1>9. SettingsAreKept'
  BY <1>1, <1>3, <1>4 DEF IInv, SettingsAreKept, SettingsAreRestored
<1>10. ActionsAreOwned'
  BY <1>1, <1>3, <1>4 DEF IInv, ActionsAreOwned, ActionHasItsRequest, IsOwnAction
\* A synthesis starts for the active session, while it is open.
<1>11. jobs' = jobs \/ (~outputsSealed /\ jobs' = jobs \cup {Synthesis(activeSession)})
  BY <1>1, <1>2 DEF IInv, CommandsAreInside, Session, Running, ExecutorStep, ExecGate, ExecProgress,
     ExecMode, ExecTether, ExecRead, ExecStart, ExecSettle, ExecVoiceAll, EmitLock, EmitSpeech,
     EmitVoice, synthVars
<1>12. SessionsBeginOnce'
  BY <1>1, <1>3, <1>4, <1>11 DEF IInv, SessionsBeginOnce, Begins, Synthesis
<1>13. DrainedIsOver'
  BY <1>4, <1>11 DEF IInv, DrainedIsOver, Synthesis
<1>14. CommandsAreCounted'
  <2> DEFINE Inside(s) == \E d \in Executors : Running(d) /\ mine[d] = s
  <2>1. CommandsAreCounted
    BY DEF IInv
  <2>2. CASE /\ \/ published' = published \/ Publish(Session, "output")
             /\ Running(x)' = Running(x) /\ (Running(x) => mine'[x] = mine[x])
    <3>1. \A s \in AllSessions : Inside(s)' = Inside(s)
      BY <1>1, <1>3, <2>2 DEF Running
    <3>2. \A s \in AllSessions : /\ published'[s]["started"] = published[s]["started"]
                                 /\ published'[s]["settled"] = published[s]["settled"]
      BY <1>1, <2>2, PublishAdds
    <3> QED
      BY <2>1, <3>1, <3>2 DEF CommandsAreCounted
  <2>3. CASE ExecStart(x)
    <3>1. /\ pc[x] = "start" /\ pc'[x] = "body" /\ mine' = mine /\ Publish(mine[x], "started")
      BY <1>1, <2>3 DEF ExecStart, Goto, handlerVars
    <3>2. \A s \in AllSessions : ~Inside(s) /\ (Inside(s)' <=> s = mine[x])
      BY <1>1, <1>2, <1>3, <3>1 DEF Running
    <3>3. \A s \in AllSessions :
            /\ published'[s]["settled"] = published[s]["settled"]
            /\ published'[s]["started"] = published[s]["started"] + (IF s = mine[x] THEN 1 ELSE 0)
      BY <1>1, <3>1, PublishAdds
    <3> QED
      BY <1>1, <2>1, <3>2, <3>3 DEF CommandsAreCounted
  <2>4. CASE ExecSettle(x)
    <3>1. /\ pc[x] = "body" /\ pc'[x] = "idle" /\ Publish(mine[x], "settled")
      BY <1>1, <2>4 DEF ExecSettle, Leave, Goto
    <3>2. \A s \in AllSessions : ~Inside(s)' /\ (Inside(s) <=> s = mine[x])
      BY <1>1, <1>2, <1>3, <3>1 DEF Running
    <3>3. \A s \in AllSessions :
            /\ published'[s]["started"] = published[s]["started"]
            /\ published'[s]["settled"] = published[s]["settled"] + (IF s = mine[x] THEN 1 ELSE 0)
      BY <1>1, <3>1, PublishAdds
    <3> QED
      BY <1>1, <2>1, <3>2, <3>3 DEF CommandsAreCounted
  <2>5. \/ ExecStart(x) \/ ExecSettle(x)
        \/ /\ \/ published' = published \/ Publish(Session, "output")
           /\ Running(x)' = Running(x) /\ (Running(x) => mine'[x] = mine[x])
    BY <1>1 DEF Running, ExecutorStep, ExecGate, ExecProgress, ExecMode, ExecTether, ExecRead,
       ExecVoiceAll, EmitLock, EmitSpeech, EmitVoice, Goto, Leave, handlerVars
  <2> QED
    BY <2>2, <2>3, <2>4, <2>5
<1> QED
  BY <1>5, <1>6, <1>7, <1>8, <1>9, <1>10, <1>12, <1>13, <1>14 DEF IInv

-----------------------------------------------------------------------------
(* The native event loop, and the goroutines of syntheses *)

LoopStep == LoopTake \/ LoopGate \/ LoopProgress \/ EmitLock(Loop)

LEMMA LoopKeeps ==
  ASSUME IInv, UNCHANGED workload, LoopStep
  PROVE  IInv'
<1>1. /\ Loop \notin Executors /\ Loop # Nobody /\ Loop \in Actors /\ Nobody \notin Actors
      /\ \A c \in Controllers : c \in Actors /\ c # Loop /\ c \notin Executors
      /\ \A x \in Executors : x \in Actors /\ x # Loop
      /\ pc \in [Actors -> {"idle", "gate", "read", "start", "body", "emit", "voice", "check",
                            "output", "apply", "restore", "drain", "await", "acting"}]
      /\ mine \in [Executors \cup {Loop} -> AllSessions]
      /\ published \in [AllSessions -> [Kinds -> Nat]] /\ Session \in AllSessions
      /\ {"started", "settled", "output", "audio"} \subseteq Kinds
      /\ activeSession \in AllSessions /\ NoSession \in AllSessions
      /\ generation \in Nat /\ read \in Nat /\ nextJob \in Nat
  BY ActorAssumption DEF IInv, Shape, TypeOK, Actors, AllSessions, Session, Kinds
<1>2. /\ pc[Loop] \in {"idle", "gate", "check", "body", "emit", "voice"}
      /\ pc[Loop] \in {"check", "body", "emit", "voice"} => gate = Loop
      /\ pc[Loop] \in {"emit", "voice"} => output = Loop
  BY <1>1 DEF IInv, Shape, LabelsOf, LocksAreHeld, Gated
<1>3. /\ \A a \in Actors \ {Loop} : pc'[a] = pc[a]
      /\ pc'[Loop] \in {"idle", "gate", "check", "body", "emit", "voice"}
      /\ pc' \in [Actors -> {"idle", "gate", "read", "start", "body", "emit", "voice", "check",
                             "output", "apply", "restore", "drain", "await", "acting"}]
  BY <1>1 DEF LoopStep, LoopTake, LoopGate, TakeGate, LoopProgress, LoopCheck, LoopEnd, EmitLock,
     EmitSpeech, EmitVoice, Goto, Leave
<1>4. UNCHANGED <<activeSession, generation, outputsSealed, activeAction, settings, tether, baseline,
                  recorded, begun, drained, unvoiced, call>>
  BY <1>1 DEF LoopStep, LoopTake, LoopGate, TakeGate, LoopProgress, LoopCheck, LoopEnd, EmitLock,
     EmitSpeech, EmitVoice, engineVars, synthVars, historyVars, handlerVars
<1>5. /\ mine' \in [Executors \cup {Loop} -> AllSessions]
      /\ \A x \in Executors : mine'[x] = mine[x]
  <2>1. \/ mine' = mine \/ mine' = [mine EXCEPT ![Loop] = NoSession]
        \/ mine' = [mine EXCEPT ![Loop] = activeSession]
    BY DEF LoopStep, LoopTake, LoopGate, TakeGate, LoopProgress, LoopCheck, LoopEnd, EmitLock,
       EmitSpeech, EmitVoice, Leave, handlerVars
  <2> QED
    BY <1>1, <2>1
<1>6. /\ published' \in [AllSessions -> [Kinds -> Nat]]
      /\ \A s \in AllSessions : /\ published'[s]["started"] = published[s]["started"]
                                /\ published'[s]["settled"] = published[s]["settled"]
  <2>1. published' = published \/ Publish(Session, "output")
    BY DEF LoopStep, LoopTake, LoopGate, TakeGate, LoopProgress, LoopCheck, LoopEnd, EmitLock,
       EmitSpeech, EmitVoice
  <2> QED
    BY <1>1, <2>1, PublishAdds
<1>7. /\ jobs' = jobs \/ (~outputsSealed /\ jobs' = jobs \cup {Synthesis(activeSession)})
      /\ nextJob' \in {nextJob, nextJob + 1}
  BY <1>1 DEF Session, LoopStep, LoopTake, LoopGate, TakeGate, LoopProgress, LoopCheck, LoopEnd,
     EmitLock, EmitSpeech, EmitVoice, synthVars
<1>8. Shape'
  <2>1. Synthesis(activeSession) \in [id : Nat, session : AllSessions, phase : {"running", "recorded"}]
    BY <1>1 DEF Synthesis
  <2>2. gate' \in {gate, Loop, Nobody} /\ output' \in {output, Loop, Nobody}
    BY DEF LoopStep, LoopTake, LoopGate, TakeGate, LoopProgress, LoopCheck, LoopEnd, EmitLock,
       EmitSpeech, EmitVoice, Leave
  <2>3. read' \in {read, generation, 0}
    BY DEF LoopStep, LoopTake, LoopGate, TakeGate, LoopProgress, LoopCheck, LoopEnd, EmitLock,
       EmitSpeech, EmitVoice, handlerVars
  <2>4. TypeOK'
    BY <1>1, <1>3, <1>4, <1>5, <1>6, <1>7, <2>1, <2>2, <2>3 DEF IInv, Shape, TypeOK
  <2>5. (\A a \in Actors : pc'[a] \in LabelsOf(a)) /\ (\A c \in Controllers : CallFits(c)')
    BY <1>1, <1>3, <1>4 DEF IInv, Shape, LabelsOf, CallFits
  <2> QED
    BY <2>4, <2>5 DEF IInv, Shape
<1>9. LocksAreHeld'
  <2>1. /\ pc'[Loop] \in {"check", "body", "emit", "voice"} => gate' = Loop
        /\ \A a \in Actors \ {Loop} : gate = a => gate' = a
    BY <1>1, <1>2 DEF LoopStep, LoopTake, LoopGate, TakeGate, LoopProgress, LoopCheck, LoopEnd,
       EmitLock, EmitSpeech, EmitVoice, Goto, Leave
  <2>2. /\ pc'[Loop] \in {"emit", "voice", "apply", "restore"} => output' = Loop
        /\ \A a \in Actors \ {Loop} : output = a => output' = a
    BY <1>1, <1>2 DEF LoopStep, LoopTake, LoopGate, TakeGate, LoopProgress, LoopCheck, LoopEnd,
       EmitLock, EmitSpeech, EmitVoice, Goto, Leave
  <2> QED
    BY <1>1, <1>3, <1>4, <2>1, <2>2 DEF IInv, LocksAreHeld, Gated
<1>10. CommandsAreInside'
  BY <1>1, <1>3, <1>4, <1>5 DEF IInv, CommandsAreInside, Running
<1>11. CommandsAreCounted'
  BY <1>1, <1>3, <1>5, <1>6 DEF IInv, CommandsAreCounted, Running
<1>12. EventsAreInside'
  BY <1>1, <1>2, <1>4 DEF IInv, EventsAreInside, Running, LoopStep, LoopTake, LoopGate, TakeGate,
     LoopProgress, LoopCheck, LoopEnd, EmitLock, EmitSpeech, EmitVoice, Goto, Leave, handlerVars
<1>13. SettingsAreKept'
  BY <1>1, <1>3, <1>4 DEF IInv, SettingsAreKept, SettingsAreRestored
<1>14. SessionsBeginOnce'
  BY <1>1, <1>3, <1>4, <1>7 DEF IInv, SessionsBeginOnce, Begins, Synthesis
<1>15. DrainedIsOver'
  BY <1>4, <1>7 DEF IInv, DrainedIsOver, Synthesis
<1>16. ActionsAreOwned'
  BY <1>1, <1>3, <1>4 DEF IInv, ActionsAreOwned, ActionHasItsRequest, IsOwnAction
<1> QED
  BY <1>8, <1>9, <1>10, <1>11, <1>12, <1>13, <1>14, <1>15, <1>16 DEF IInv

LEMMA JobKeeps ==
  ASSUME IInv, UNCHANGED workload, NEW j \in jobs, JobStep(j)
  PROVE  IInv'
<1>1. /\ j \in [id : Nat, session : AllSessions, phase : {"running", "recorded"}]
      /\ published \in [AllSessions -> [Kinds -> Nat]] /\ recorded \in [AllSessions -> Nat]
      /\ {"started", "settled", "output", "audio"} \subseteq Kinds
  BY DEF IInv, Shape, TypeOK, Kinds
<1>2. UNCHANGED <<gate, output, activeSession, generation, outputsSealed, activeAction, settings,
                  tether, baseline, nextJob, begun, drained, pc, mine, read, unvoiced, call>>
  BY DEF JobStep, JobRecords, JobPublishes, JobFails, engineVars, historyVars, handlerVars
<1>3. /\ jobs' \subseteq jobs \cup {[j EXCEPT !.phase = "recorded"]}
      /\ [j EXCEPT !.phase = "recorded"].session = j.session
      /\ [j EXCEPT !.phase = "recorded"] \in [id : Nat, session : AllSessions, phase : {"running", "recorded"}]
  BY <1>1 DEF JobStep, JobRecords, JobPublishes, JobFails
<1>4. \A k \in jobs' : \E i \in jobs : k.session = i.session
  BY <1>3
<1>5. recorded' \in [AllSessions -> Nat]
  BY <1>1 DEF JobStep, JobRecords, JobPublishes, JobFails
<1>6. /\ published' \in [AllSessions -> [Kinds -> Nat]]
      /\ \A s \in AllSessions : /\ published'[s]["started"] = published[s]["started"]
                                /\ published'[s]["settled"] = published[s]["settled"]
  BY <1>1, PublishAdds DEF JobStep, JobRecords, JobPublishes, JobFails
<1>7. Shape'
  <2>1. TypeOK'
    BY <1>2, <1>3, <1>5, <1>6 DEF IInv, Shape, TypeOK
  <2> QED
    BY <1>2, <2>1 DEF IInv, Shape, LabelsOf, CallFits
<1>8. LocksAreHeld' /\ CommandsAreInside' /\ EventsAreInside' /\ SettingsAreKept'
  BY <1>2 DEF IInv, LocksAreHeld, Gated, CommandsAreInside, Running, EventsAreInside,
     SettingsAreKept, SettingsAreRestored
<1>9. CommandsAreCounted'
  BY <1>2, <1>6 DEF IInv, CommandsAreCounted, Running
<1>10. SessionsBeginOnce' /\ DrainedIsOver'
  BY <1>2, <1>4 DEF IInv, SessionsBeginOnce, Begins, DrainedIsOver
<1>11. ActionsAreOwned'
  BY <1>2 DEF IInv, ActionsAreOwned, ActionHasItsRequest, IsOwnAction
<1> QED
  BY <1>7, <1>8, <1>9, <1>10, <1>11 DEF IInv

-----------------------------------------------------------------------------
(* The calls of the control server *)

Labels == {"idle", "gate", "read", "start", "body", "emit", "voice", "check",
           "output", "apply", "restore", "drain", "await", "acting"}
Calls == [op : Ops, session : AllSessions, value : Settings \cup Commands, awaited : SUBSET Nat]

AnyCall(c) ==
  \E s \in Sessions : \/ \E o \in AllCalls \ {"action"} : Call(c, o, s)
                      \/ \E k \in Commands : BeginAction(c, s, k)

ControllerStep(c) ==
  \/ ControlGate(c) \/ ControlOutput(c) \/ Deadline(c) \/ ControlProgress(c) \/ EndAction(c)
  \/ AnyCall(c)

\* What every proof below knows of a controller.
LEMMA ControllerFacts ==
  ASSUME IInv, NEW c \in Controllers
  PROVE  /\ c \in Actors /\ c # Loop /\ c # Nobody /\ c \notin Executors
         /\ Nobody \notin Actors /\ Loop \in Actors
         /\ \A x \in Executors \cup {Loop} : x \in Actors /\ x # c
         /\ \A d \in Controllers : d \in Actors /\ d # Loop /\ d \notin Executors
         /\ pc \in [Actors -> Labels] /\ call \in [Controllers -> Calls]
         /\ pc[c] \in {"idle", "gate", "output", "apply", "restore", "drain", "await", "acting"}
         /\ CallFits(c) /\ call[c] \in Calls
         /\ pc[c] \in {"output", "apply", "restore"} /\ call[c].op \in {"begin", "end", "seal"}
              => gate = c
         /\ pc[c] \in {"apply", "restore"} => output = c
         /\ NoCall \in Calls
BY ActorAssumption, SettingsAssumption
   DEF IInv, Shape, TypeOK, Actors, LabelsOf, LocksAreHeld, Gated, Labels, Calls, NoCall, AllSessions,
       Ops, AllCalls

LEMMA CallType ==
  ASSUME IInv, UNCHANGED workload, NEW c \in Controllers, AnyCall(c)
  PROVE  /\ call' \in [Controllers -> Calls] /\ \A d \in Controllers \ {c} : call'[d] = call[d]
         /\ pc' \in [Actors -> Labels] /\ \A a \in Actors \ {c} : pc'[a] = pc[a]
         /\ pc[c] = "idle" /\ pc'[c] \in {"gate", "output", "drain", "acting"}
         /\ CallFits(c)'
<1>1. /\ workload.settings \subseteq Settings /\ Default \in Settings
      /\ baseline \in Settings \cup {NoSettings}
  BY SettingsAssumption, BoundAssumption DEF IInv, Shape, TypeOK
<1>2. PICK s \in Sessions : \/ \E o \in AllCalls \ {"action"} : Call(c, o, s)
                            \/ \E k \in Commands : BeginAction(c, s, k)
  BY DEF AnyCall
<1>3. CASE \E o \in AllCalls \ {"action"} : Call(c, o, s)
  <2>1. PICK o \in AllCalls \ {"action"} : Call(c, o, s)
    BY <1>3
  <2>2. PICK v \in Settings : Make(c, o, s, v)
    BY <1>1, <2>1, SessionAssumption DEF Call, IInv, SettingsAreKept
  <2>3. [op |-> o, session |-> s, value |-> v, awaited |-> {}] \in Calls
    BY DEF Calls, Ops, AllSessions
  <2>4. call'[c] = [op |-> o, session |-> s, value |-> v, awaited |-> {}]
        /\ call' \in [Controllers -> Calls] /\ \A d \in Controllers \ {c} : call'[d] = call[d]
    BY <2>2, <2>3, ControllerFacts DEF Make
  <2>5. /\ pc' \in [Actors -> Labels] /\ \A a \in Actors \ {c} : pc'[a] = pc[a]
        /\ pc[c] = "idle" /\ pc'[c] = FirstLock(o) /\ FirstLock(o) \in {"gate", "output", "drain"}
    BY <2>1, ControllerFacts DEF Call, Goto, FirstLock, Labels
  <2> QED
    BY <2>4, <2>5 DEF CallFits, FirstLock, AllCalls
<1>4. CASE \E k \in Commands : BeginAction(c, s, k)
  <2>1. PICK k \in Commands : BeginAction(c, s, k)
    BY <1>4
  <2>2. [op |-> "action", session |-> s, value |-> k, awaited |-> {}] \in Calls
    BY DEF Calls, Ops, AllCalls, AllSessions
  <2>3. call'[c] = [op |-> "action", session |-> s, value |-> k, awaited |-> {}]
        /\ call' \in [Controllers -> Calls] /\ \A d \in Controllers \ {c} : call'[d] = call[d]
    BY <2>1, <2>2, ControllerFacts DEF BeginAction, Make
  <2>4. /\ pc' \in [Actors -> Labels] /\ \A a \in Actors \ {c} : pc'[a] = pc[a]
        /\ pc[c] = "idle" /\ pc'[c] = "acting"
    BY <2>1, ControllerFacts DEF BeginAction, Goto, Labels
  <2> QED
    BY <2>3, <2>4 DEF CallFits
<1> QED
  BY <1>2, <1>3, <1>4

\* The steps of a call change what is its own, and the engine if it holds the locks.
LEMMA ControllerFrame ==
  ASSUME IInv, UNCHANGED workload, NEW c \in Controllers, ControllerStep(c)
  PROVE  /\ call' \in [Controllers -> Calls] /\ \A d \in Controllers \ {c} : call'[d] = call[d]
         /\ pc' \in [Actors -> Labels] /\ \A a \in Actors \ {c} : pc'[a] = pc[a]
         /\ pc'[c] \in {"idle", "gate", "output", "apply", "restore", "drain", "await", "acting"}
         /\ UNCHANGED <<jobs, nextJob, recorded, published, mine, read, unvoiced>>
         /\ CallFits(c)'
<1>1. CASE AnyCall(c)
  <2>1. UNCHANGED <<jobs, nextJob, recorded, published, mine, read, unvoiced>>
    BY <1>1 DEF AnyCall, Call, BeginAction, synthVars, handlerVars
  <2> QED
    BY <1>1, <2>1, CallType
<1>2. CASE ControlGate(c) \/ ControlOutput(c) \/ Deadline(c) \/ ControlProgress(c) \/ EndAction(c)
  <2>1. UNCHANGED <<jobs, nextJob, recorded, published, mine, read, unvoiced>>
    BY <1>2 DEF ControlGate, TakeGate, ControlOutput, Deadline, ControlProgress, EndAction, BeginSession,
       EndSession, EndOfAnother, RestoreSettings, SealSessionOutputs, SetPresentationSettings,
       DrainCollect, DrainDone, DrainAwait, synthVars, handlerVars
  <2>2. \/ ControlGate(c) \/ ControlOutput(c) \/ DrainAwait(c)
        \/ Return(c) \/ EndSession(c) \/ DrainCollect(c)
    BY <1>2 DEF Deadline, ControlProgress, EndAction, BeginSession, EndOfAnother, RestoreSettings,
       SealSessionOutputs, SetPresentationSettings, DrainDone
  <2>3. CASE ControlGate(c) \/ ControlOutput(c) \/ DrainAwait(c)
    <3>1. /\ call' = call
          /\ \/ pc[c] = "gate" /\ pc' = [pc EXCEPT ![c] = "output"]
             \/ pc[c] = "output" /\ pc' = [pc EXCEPT ![c] = "apply"]
             \/ pc[c] = "await" /\ pc' = [pc EXCEPT ![c] = "drain"]
      BY <2>3 DEF ControlGate, TakeGate, ControlOutput, DrainAwait, Goto
    <3>2. /\ pc' \in [Actors -> Labels] /\ \A a \in Actors \ {c} : pc'[a] = pc[a]
          /\ \/ pc[c] = "gate" /\ pc'[c] = "output"
             \/ pc[c] = "output" /\ pc'[c] = "apply"
             \/ pc[c] = "await" /\ pc'[c] = "drain"
      BY <3>1, ControllerFacts DEF Labels
    <3> QED
      BY <2>1, <3>1, <3>2, ControllerFacts DEF CallFits
  <2>4. CASE Return(c)
    <3>1. /\ call' = [call EXCEPT ![c] = NoCall] /\ pc' = [pc EXCEPT ![c] = "idle"]
      BY <2>4 DEF Return, Goto
    <3>2. pc' \in [Actors -> Labels] /\ pc'[c] = "idle" /\ \A a \in Actors \ {c} : pc'[a] = pc[a]
      BY <3>1, ControllerFacts DEF Labels
    <3>3. call' \in [Controllers -> Calls] /\ call'[c] = NoCall
          /\ \A d \in Controllers \ {c} : call'[d] = call[d]
      BY <3>1, ControllerFacts
    <3> QED
      BY <2>1, <3>2, <3>3, ControllerFacts DEF CallFits, NoCall
  <2>5. CASE EndSession(c)
    <3>1. baseline = Default /\ Default \in Settings
      BY <2>5, ControllerFacts, SettingsAssumption, SessionAssumption
         DEF EndSession, Applies, IInv, SettingsAreKept, CallFits
    <3>2. [call[c] EXCEPT !.value = baseline] \in Calls
      BY <3>1, ControllerFacts DEF Calls
    <3>3. call' = [call EXCEPT ![c] = [call[c] EXCEPT !.value = baseline]]
          /\ pc' = [pc EXCEPT ![c] = "restore"] /\ pc[c] = "apply" /\ call[c].op = "end"
      BY <2>5, ControllerFacts DEF EndSession, Goto, Applies
    <3>4. /\ call' \in [Controllers -> Calls] /\ \A d \in Controllers \ {c} : call'[d] = call[d]
          /\ call'[c].op = "end" /\ call'[c].session \in Sessions
      BY <3>2, <3>3, ControllerFacts DEF Calls, CallFits
    <3>5. pc' \in [Actors -> Labels] /\ pc'[c] = "restore" /\ \A a \in Actors \ {c} : pc'[a] = pc[a]
      BY <3>3, ControllerFacts DEF Labels
    <3> QED
      BY <2>1, <3>4, <3>5 DEF CallFits
  <2>6. CASE DrainCollect(c)
    <3>1. {j.id : j \in Pending} \subseteq Nat
      BY DEF Pending, IInv, Shape, TypeOK
    <3>2. [call[c] EXCEPT !.awaited = {j.id : j \in Pending}] \in Calls
      BY <3>1, ControllerFacts DEF Calls
    <3>3. call' = [call EXCEPT ![c] = [call[c] EXCEPT !.awaited = {j.id : j \in Pending}]]
          /\ pc' = [pc EXCEPT ![c] = "await"] /\ pc[c] = "drain"
      BY <2>6, ControllerFacts DEF DrainCollect, Goto
    <3>4. /\ call' \in [Controllers -> Calls] /\ \A d \in Controllers \ {c} : call'[d] = call[d]
          /\ call'[c].op = call[c].op /\ call'[c].session = call[c].session
          /\ call'[c].value = call[c].value
      BY <3>2, <3>3, ControllerFacts DEF Calls
    <3>5. pc' \in [Actors -> Labels] /\ pc'[c] = "await" /\ \A a \in Actors \ {c} : pc'[a] = pc[a]
      BY <3>3, ControllerFacts DEF Labels
    <3> QED
      BY <2>1, <3>3, <3>4, <3>5, ControllerFacts DEF CallFits
  <2> QED
    BY <2>2, <2>3, <2>4, <2>5, <2>6
<1> QED
  BY <1>1, <1>2 DEF ControllerStep

\* The locks of a call: it takes a free one, and gives back what it has.
LEMMA ControllerLocks ==
  ASSUME IInv, UNCHANGED workload, NEW c \in Controllers, ControllerStep(c)
  PROVE  LocksAreHeld'
<1>a. \A a \in Actors \ {c} : pc'[a] = pc[a] /\ (Gated(a)' <=> Gated(a))
  <2>1. \A a \in Actors \ {c} : pc'[a] = pc[a] /\ (a \in Controllers => call'[a] = call[a])
    BY ControllerFrame
  <2>2. \A a \in Actors : a \in Executors \/ a = Loop \/ a \in Controllers
    BY DEF Actors
  <2> QED
    BY <2>1, <2>2, ControllerFacts DEF Gated
<1>b. \A a \in Actors : (Gated(a) => gate = a) /\ (pc[a] \in {"emit", "voice", "apply", "restore"} => output = a)
  BY DEF IInv, LocksAreHeld
<1>c. c \in Actors /\ c # Loop /\ c \notin Executors /\ Nobody \notin Actors
  BY ControllerFacts
<1>1. ASSUME AnyCall(c) PROVE LocksAreHeld'
  <2>1. UNCHANGED <<gate, output>>
    BY <1>1 DEF AnyCall, Call, BeginAction
  <2>2. /\ pc'[c] \in {"gate", "output", "drain", "acting"}
        /\ pc'[c] = "output" => call'[c].op \notin {"begin", "end", "seal"}
    <3>1. pc'[c] \in {"gate", "output", "drain", "acting"}
      BY <1>1, CallType
    <3>2. ASSUME NEW s \in Sessions, NEW o \in AllCalls, Call(c, o, s), pc'[c] = "output"
          PROVE  call'[c].op \notin {"begin", "end", "seal"}
      <4>1. FirstLock(o) = "output"
        BY <3>2, ControllerFacts DEF Call, Goto
      <4>2. PICK v : Make(c, o, s, v)
        BY <3>2 DEF Call
      <4>3. call'[c].op = o
        BY <4>2, ControllerFacts DEF Make
      <4> QED
        BY <4>1, <4>3 DEF FirstLock
    <3>3. ASSUME NEW s \in Sessions, NEW k \in Commands, BeginAction(c, s, k) PROVE pc'[c] = "acting"
      BY <3>3, ControllerFacts DEF BeginAction, Goto
    <3> QED
      BY <1>1, <3>1, <3>2, <3>3 DEF AnyCall
  <2> QED
    BY <1>a, <1>b, <1>c, <2>1, <2>2 DEF LocksAreHeld, Gated
<1>2. ASSUME ControlGate(c) \/ ControlOutput(c) \/ Deadline(c) \/ ControlProgress(c) \/ EndAction(c)
      PROVE  LocksAreHeld'
  <2>1. \/ ControlGate(c) \/ ControlOutput(c) \/ Return(c) \/ EndSession(c)
        \/ DrainCollect(c) \/ DrainAwait(c)
    BY <1>2 DEF Deadline, ControlProgress, EndAction, BeginSession, EndOfAnother, RestoreSettings,
       SealSessionOutputs, SetPresentationSettings, DrainDone
  <2>2. CASE ControlGate(c)
    <3>1. /\ gate = Nobody /\ gate' = c /\ UNCHANGED <<output, call>> /\ pc'[c] = "output"
      BY <2>2, ControllerFacts DEF ControlGate, TakeGate, Goto
    <3> QED
      BY <1>a, <1>b, <1>c, <3>1 DEF LocksAreHeld, Gated
  <2>3. CASE ControlOutput(c)
    <3>1. /\ output = Nobody /\ output' = c /\ UNCHANGED <<gate, call>> /\ pc[c] = "output"
          /\ pc'[c] = "apply"
      BY <2>3, ControllerFacts DEF ControlOutput, Goto
    <3> QED
      BY <1>a, <1>b, <1>c, <3>1 DEF LocksAreHeld, Gated
  <2>4. CASE Return(c)
    <3>1. /\ gate' = (IF gate = c THEN Nobody ELSE gate) /\ pc'[c] = "idle"
          /\ output' = (IF output = c THEN Nobody ELSE output)
      BY <2>4, ControllerFacts DEF Return, Goto
    <3> QED
      BY <1>a, <1>b, <1>c, <3>1 DEF LocksAreHeld, Gated
  <2>5. CASE EndSession(c)
    <3>1. /\ UNCHANGED <<gate, output>> /\ pc[c] = "apply" /\ pc'[c] = "restore"
          /\ call[c].op = "end"
      BY <2>5, ControllerFacts DEF EndSession, Applies, Goto
    <3> QED
      BY <1>a, <1>b, <1>c, <3>1 DEF LocksAreHeld, Gated
  <2>6. CASE DrainCollect(c) \/ DrainAwait(c)
    <3>1. UNCHANGED <<gate, output>> /\ pc'[c] \in {"drain", "await"}
      BY <2>6, ControllerFacts DEF DrainCollect, DrainAwait, Goto
    <3> QED
      BY <1>a, <1>b, <1>c, <3>1 DEF LocksAreHeld, Gated
  <2> QED
    BY <2>1, <2>2, <2>3, <2>4, <2>5, <2>6
<1> QED
  BY <1>1, <1>2 DEF ControllerStep

\* Sessions change, and are sealed, under the gate: no command or native handler runs.
LEMMA EngineIsGated ==
  ASSUME IInv, UNCHANGED workload, NEW c \in Controllers, ControllerStep(c)
  PROVE  /\ \/ UNCHANGED <<activeSession, generation, outputsSealed>>
            \/ /\ \A x \in Executors : pc[x] = "idle"
               /\ ~Running(Loop) /\ generation' \in {generation, generation + 1}
               /\ UNCHANGED activeSession \/ generation' = generation + 1
         /\ CommandsAreInside' /\ CommandsAreCounted' /\ EventsAreInside'
<1>1. \/ UNCHANGED <<activeSession, generation, outputsSealed>>
      \/ /\ gate = c /\ generation' \in {generation, generation + 1}
         /\ UNCHANGED activeSession \/ generation' = generation + 1
  <2>1. \/ UNCHANGED <<activeSession, generation, outputsSealed>>
        \/ BeginSession(c) \/ EndSession(c) \/ SealSessionOutputs(c)
    BY DEF ControllerStep, AnyCall, Call, BeginAction, ControlGate, TakeGate, ControlOutput, Deadline,
       ControlProgress, EndAction, EndOfAnother, RestoreSettings, SetPresentationSettings,
       DrainCollect, DrainDone, DrainAwait, engineVars
  <2>2. BeginSession(c) \/ EndSession(c) \/ SealSessionOutputs(c) => gate = c
    BY ControllerFacts DEF BeginSession, EndSession, SealSessionOutputs, Applies
  <2>3. BeginSession(c) \/ EndSession(c) \/ SealSessionOutputs(c) =>
          /\ generation' \in {generation, generation + 1}
          /\ UNCHANGED activeSession \/ generation' = generation + 1
    BY DEF BeginSession, EndSession, SealSessionOutputs, engineVars
  <2> QED
    BY <2>1, <2>2, <2>3
<1>2. \/ UNCHANGED <<activeSession, generation, outputsSealed>>
      \/ /\ \A x \in Executors : pc[x] = "idle"
         /\ ~Running(Loop) /\ generation' \in {generation, generation + 1}
         /\ UNCHANGED activeSession \/ generation' = generation + 1
  BY <1>1, ControllerFacts DEF IInv, LocksAreHeld, Gated, Running
<1>3. /\ \A x \in Executors \cup {Loop} : pc'[x] = pc[x]
      /\ UNCHANGED <<mine, unvoiced, read, published>>
  BY ControllerFacts, ControllerFrame
<1>4. CommandsAreInside'
  BY <1>2, <1>3 DEF IInv, CommandsAreInside, Running
<1>5. CommandsAreCounted'
  BY <1>3 DEF IInv, CommandsAreCounted, Running
<1>6. EventsAreInside'
  BY <1>2, <1>3 DEF IInv, EventsAreInside, Running, Shape, TypeOK
<1> QED
  BY <1>2, <1>4, <1>5, <1>6

LEMMA ControllerShape ==
  ASSUME IInv, UNCHANGED workload, NEW c \in Controllers, ControllerStep(c)
  PROVE  Shape'
<1> DEFINE Waits == ControlGate(c) \/ ControlOutput(c) \/ Deadline(c) \/ EndOfAnother(c)
                    \/ DrainCollect(c) \/ DrainAwait(c)
<1>1. /\ gate' \in {gate, c, Nobody} /\ output' \in {output, c, Nobody}
  BY DEF ControllerStep, AnyCall, Call, BeginAction, ControlGate, TakeGate, ControlOutput, Deadline,
     ControlProgress, EndAction, BeginSession, EndSession, EndOfAnother, RestoreSettings,
     SealSessionOutputs, SetPresentationSettings, DrainCollect, DrainDone, DrainAwait, Return
<1>2. /\ activeSession \in AllSessions /\ NoSession \in AllSessions /\ Sessions \subseteq AllSessions
      /\ generation \in Nat /\ outputsSealed \in BOOLEAN
      /\ activeAction \in Commands \cup {NoAction}
      /\ settings \in Settings /\ tether \in Settings /\ baseline \in Settings \cup {NoSettings}
      /\ begun \subseteq Sessions /\ drained \subseteq Sessions /\ Default \in Settings
  BY SettingsAssumption DEF IInv, Shape, TypeOK, AllSessions
<1>b. outputsSealed' \in BOOLEAN
  <2>1. \/ UNCHANGED outputsSealed \/ outputsSealed' = FALSE
        \/ outputsSealed' = (outputsSealed \/ Sealable(c))
    BY DEF ControllerStep, AnyCall, Call, BeginAction, ControlGate, TakeGate, ControlOutput, Deadline,
       ControlProgress, EndAction, BeginSession, EndSession, EndOfAnother, RestoreSettings,
       SealSessionOutputs, SetPresentationSettings, DrainCollect, DrainDone, DrainAwait, engineVars
  <2> QED
    BY <1>2, <2>1
<1>3. /\ activeSession' \in AllSessions /\ generation' \in Nat
      /\ activeAction' \in Commands \cup {NoAction}
      /\ settings' \in Settings /\ tether' \in Settings /\ baseline' \in Settings \cup {NoSettings}
      /\ begun' \subseteq Sessions /\ drained' \subseteq Sessions
  <2>1. CASE AnyCall(c)
    <3>1. /\ UNCHANGED <<activeSession, generation, settings, tether, baseline, drained>>
          /\ activeAction' = activeAction \/ activeAction' \in Commands
      BY <2>1 DEF AnyCall, Call, BeginAction, engineVars, historyVars
    <3>2. begun' = begun \/ \E s \in Sessions : begun' = begun \cup {s}
      BY <2>1 DEF AnyCall, Call, BeginAction, historyVars
    <3> QED
      BY <1>2, <3>1, <3>2
  <2>2. CASE Waits
    BY <1>2, <2>2 DEF ControlGate, TakeGate, ControlOutput, Deadline, EndOfAnother, DrainCollect,
       DrainAwait, engineVars, historyVars
  <2>3. CASE BeginSession(c)
    <3>1. call[c].session \in AllSessions
      BY <2>3, <1>2, ControllerFacts DEF BeginSession, Applies, CallFits
    <3>2. /\ activeSession' \in {activeSession, call[c].session}
          /\ generation' \in {generation, generation + 1}
          /\ baseline' \in {baseline, settings}
          /\ UNCHANGED <<activeAction, settings, tether, begun, drained>>
      BY <2>3 DEF BeginSession, engineVars, historyVars
    <3> QED
      BY <1>2, <3>1, <3>2
  <2>4. CASE EndSession(c)
    <3>1. call[c].session # NoSession /\ activeSession = call[c].session
      BY <2>4, ControllerFacts, SessionAssumption DEF EndSession, Applies, CallFits
    <3>2. baseline = Default
      BY <3>1 DEF IInv, SettingsAreKept
    <3>3. /\ activeSession' = NoSession /\ generation' = generation + 1
          /\ activeAction' = NoAction /\ baseline' = NoSettings /\ tether' = Default
          /\ UNCHANGED <<settings, begun, drained>>
      BY <2>4, <3>2 DEF EndSession, historyVars
    <3> QED
      BY <1>2, <3>3
  <2>5. CASE RestoreSettings(c)
    BY <1>2, <2>5 DEF RestoreSettings, Restored, IInv, SettingsAreKept, historyVars
  <2>6. CASE SealSessionOutputs(c)
    BY <1>2, <2>6 DEF SealSessionOutputs, Sealable, historyVars
  <2>7. CASE SetPresentationSettings(c)
    BY <1>2, <2>7, ControllerFacts DEF SetPresentationSettings, Applies, CallFits, historyVars
  <2>8. CASE DrainDone(c)
    <3>1. call[c].session \in Sessions
      BY <2>8, ControllerFacts DEF DrainDone, CallFits
    <3> QED
      BY <1>2, <2>8, <3>1 DEF DrainDone, engineVars
  <2>9. CASE EndAction(c)
    BY <1>2, <2>9 DEF EndAction, historyVars
  <2> QED
    BY <2>1, <2>2, <2>3, <2>4, <2>5, <2>6, <2>7, <2>8, <2>9 DEF ControllerStep, ControlProgress
<1>4. TypeOK'
  BY <1>1, <1>b, <1>3, ControllerFacts, ControllerFrame DEF IInv, Shape, TypeOK, Calls, Labels
<1>5. \A a \in Actors : pc'[a] \in LabelsOf(a)
  BY ControllerFacts, ControllerFrame DEF IInv, Shape, LabelsOf
<1>6. \A d \in Controllers : CallFits(d)'
  <2>1. \A d \in Controllers \ {c} : pc'[d] = pc[d] /\ call'[d] = call[d]
    BY ControllerFacts, ControllerFrame
  <2>2. CallFits(c)'
    BY ControllerFrame
  <2> QED
    BY <2>1, <2>2 DEF IInv, Shape, CallFits
<1> QED
  BY <1>4, <1>5, <1>6 DEF IInv, Shape

LEMMA ControllerSettings ==
  ASSUME IInv, UNCHANGED workload, NEW c \in Controllers, ControllerStep(c)
  PROVE  SettingsAreKept'
<1>1. \A d \in Controllers \ {c} : pc'[d] = pc[d] /\ call'[d] = call[d]
  BY ControllerFacts, ControllerFrame
<1>2. \A d \in Controllers : pc[d] = "restore" => gate = d /\ output = d
  BY ControllerFacts DEF CallFits
<1>a. SettingsAreKept
  BY DEF IInv
<1>3. CASE BeginSession(c)
  <2>1. gate = c /\ pc'[c] = "idle" /\ call[c].session \in Sessions
    BY <1>3, ControllerFacts DEF BeginSession, Applies, Return, Goto, CallFits
  <2>2. \A d \in Controllers : pc'[d] # "restore" /\ pc[d] # "restore"
    BY <1>1, <1>2, <1>3, <2>1 DEF BeginSession, Applies
  <2> QED
    BY <1>a, <1>3, <2>1, <2>2, SessionAssumption
       DEF BeginSession, SettingsAreKept, SettingsAreRestored, engineVars
<1>4. CASE EndSession(c)
  <2>1. /\ pc'[c] = "restore" /\ call'[c].value = baseline /\ activeSession' = NoSession
        /\ activeSession # NoSession
    BY <1>4, ControllerFacts, SessionAssumption DEF EndSession, Applies, Goto, CallFits, Calls
  <2> QED
    BY <1>a, <1>1, <2>1 DEF SettingsAreKept, SettingsAreRestored
<1>5. CASE RestoreSettings(c)
  <2>1. /\ pc[c] = "restore" /\ pc'[c] = "idle" /\ settings' = call[c].value
        /\ UNCHANGED <<activeSession, baseline>>
    BY <1>5, ControllerFacts DEF RestoreSettings, Restored, Return, Goto
  <2> QED
    BY <1>a, <1>1, <2>1 DEF SettingsAreKept, SettingsAreRestored
<1>6. CASE SetPresentationSettings(c)
  <2>1. /\ pc'[c] = "idle" /\ pc[c] = "apply" /\ UNCHANGED <<activeSession, baseline>>
        /\ call[c].session \in Sessions
        /\ activeSession # call[c].session => UNCHANGED settings
    BY <1>6, ControllerFacts DEF SetPresentationSettings, Applies, Return, Goto, CallFits
  <2> QED
    BY <1>a, <1>1, <2>1, SessionAssumption DEF SettingsAreKept, SettingsAreRestored
<1>7. CASE UNCHANGED <<activeSession, baseline, settings>> /\ pc[c] # "restore" /\ pc'[c] # "restore"
  BY <1>a, <1>1, <1>7 DEF SettingsAreKept, SettingsAreRestored
<1>8. CASE AnyCall(c)
  <2>1. UNCHANGED <<activeSession, baseline, settings>>
    BY <1>8 DEF AnyCall, Call, BeginAction, engineVars
  <2> QED
    BY <1>7, <1>8, <2>1, CallType
<1>9. CASE \/ ControlGate(c) \/ ControlOutput(c) \/ Deadline(c) \/ EndOfAnother(c) \/ EndAction(c)
           \/ SealSessionOutputs(c) \/ DrainCollect(c) \/ DrainDone(c) \/ DrainAwait(c)
  <2>1. UNCHANGED <<activeSession, baseline, settings>>
    BY <1>9 DEF ControlGate, TakeGate, ControlOutput, Deadline, EndOfAnother, EndAction,
       SealSessionOutputs, DrainCollect, DrainDone, DrainAwait, engineVars
  <2>2. pc[c] # "restore" /\ pc'[c] # "restore"
    BY <1>9, ControllerFacts DEF ControlGate, TakeGate, ControlOutput, Deadline, EndOfAnother, EndAction,
       SealSessionOutputs, DrainCollect, DrainDone, DrainAwait, Return, Goto, Applies
  <2> QED
    BY <1>7, <2>1, <2>2
<1> QED
  BY <1>3, <1>4, <1>5, <1>6, <1>8, <1>9 DEF ControllerStep, ControlProgress

\* A new call of BeginSession names a session that nobody has named before.
LEMMA ControllerSessions ==
  ASSUME IInv, UNCHANGED workload, NEW c \in Controllers, ControllerStep(c)
  PROVE  SessionsBeginOnce' /\ DrainedIsOver'
<1>1. /\ \A d \in Controllers \ {c} : pc'[d] = pc[d] /\ call'[d] = call[d]
      /\ UNCHANGED jobs
  BY ControllerFacts, ControllerFrame
<1>2. /\ SessionsBeginOnce /\ DrainedIsOver /\ NoSession \notin Sessions
      /\ begun \subseteq Sessions /\ drained \subseteq Sessions
  BY SessionAssumption DEF IInv, Shape, TypeOK
<1>3. CASE BeginSession(c)
  <2>1. /\ Begins(c) /\ pc'[c] = "idle" /\ UNCHANGED <<begun, drained>>
    BY <1>3, ControllerFacts DEF BeginSession, Applies, Begins, Return, Goto, historyVars
  <2>2. \/ UNCHANGED <<activeSession, outputsSealed>>
        \/ activeSession' = call[c].session
    BY <1>3 DEF BeginSession, engineVars
  <2>3. SessionsBeginOnce'
    BY <1>1, <1>2, <2>1, <2>2 DEF SessionsBeginOnce, Begins
  <2>4. DrainedIsOver'
    BY <1>1, <1>2, <2>1, <2>2 DEF SessionsBeginOnce, DrainedIsOver
  <2> QED
    BY <2>3, <2>4
<1>4. CASE EndSession(c)
  <2>1. /\ activeSession' = NoSession /\ pc'[c] = "restore" /\ UNCHANGED <<begun, drained>>
    BY <1>4, ControllerFacts DEF EndSession, Goto, historyVars
  <2> QED
    BY <1>1, <1>2, <2>1 DEF SessionsBeginOnce, Begins, DrainedIsOver
<1>5. CASE DrainDone(c)
  <2>1. /\ pc'[c] = "idle" /\ UNCHANGED <<activeSession, outputsSealed, begun>> /\ jobs = {}
        /\ drained' = drained \/ (outputsSealed /\ activeSession = call[c].session
                                  /\ drained' = drained \cup {activeSession})
        /\ call[c].session \in Sessions
    BY <1>5, ControllerFacts DEF DrainDone, Pending, Return, Goto, CallFits, engineVars
  <2>2. SessionsBeginOnce'
    BY <1>1, <1>2, <2>1 DEF SessionsBeginOnce, Begins
  <2>3. DrainedIsOver'
    BY <1>1, <1>2, <2>1 DEF DrainedIsOver
  <2> QED
    BY <2>2, <2>3
<1>6. ASSUME NEW s \in Sessions, NEW o \in AllCalls \ {"action"}, Call(c, o, s)
      PROVE  SessionsBeginOnce' /\ DrainedIsOver'
  <2>1. /\ UNCHANGED <<activeSession, outputsSealed, drained>>
        /\ IF o = "begin" THEN s \notin begun /\ begun' = begun \cup {s}
                          ELSE s \in begun /\ begun' = begun
    BY <1>6 DEF Call, engineVars
  <2>2. call'[c].op = o /\ call'[c].session = s
    <3>1. PICK v : Make(c, o, s, v)
      BY <1>6 DEF Call
    <3> QED
      BY <3>1, ControllerFacts DEF Make
  <2>3. pc'[c] \in {"gate", "output", "drain"}
    BY <1>6, ControllerFacts DEF Call, Goto, FirstLock
  <2>4. \A d \in Controllers : pc[d] = "acting" \/ Begins(d) => call[d].session \in begun
    BY <1>2 DEF SessionsBeginOnce
  <2>5. s # NoSession
    BY <1>2
  <2>6. SessionsBeginOnce'
    BY <1>1, <1>2, <2>1, <2>2, <2>3, <2>4, <2>5 DEF SessionsBeginOnce, Begins
  <2>7. DrainedIsOver'
    BY <1>1, <1>2, <2>1 DEF DrainedIsOver
  <2> QED
    BY <2>6, <2>7
<1>7. ASSUME NEW s \in Sessions, NEW k \in Commands, BeginAction(c, s, k)
      PROVE  SessionsBeginOnce' /\ DrainedIsOver'
  <2>1. /\ UNCHANGED <<activeSession, outputsSealed, begun, drained>> /\ pc'[c] = "acting"
        /\ call'[c].session = s /\ activeSession = s /\ s \in begun
    BY <1>7, ControllerFacts DEF BeginAction, Make, Goto, historyVars
  <2> QED
    BY <1>1, <1>2, <2>1 DEF SessionsBeginOnce, Begins, DrainedIsOver
<1>8. CASE \/ ControlGate(c) \/ ControlOutput(c) \/ Deadline(c) \/ EndOfAnother(c) \/ EndAction(c)
           \/ RestoreSettings(c) \/ SealSessionOutputs(c) \/ SetPresentationSettings(c)
           \/ DrainCollect(c) \/ DrainAwait(c)
  <2>1. UNCHANGED <<activeSession, begun, drained>>
    BY <1>8 DEF ControlGate, TakeGate, ControlOutput, Deadline, EndOfAnother, EndAction,
       RestoreSettings, SealSessionOutputs, SetPresentationSettings, DrainCollect, DrainAwait,
       engineVars, historyVars
  <2>2. outputsSealed => outputsSealed'
    BY <1>8 DEF ControlGate, TakeGate, ControlOutput, Deadline, EndOfAnother, EndAction,
       RestoreSettings, SealSessionOutputs, SetPresentationSettings, DrainCollect, DrainAwait, engineVars
  <2>3. pc'[c] # "acting" /\ (Begins(c)' => Begins(c) /\ call'[c] = call[c])
    <3>1. CASE ControlGate(c) \/ ControlOutput(c)
      BY <3>1, ControllerFacts DEF ControlGate, TakeGate, ControlOutput, Goto, Begins
    <3>2. CASE Return(c)
      BY <3>2, ControllerFacts DEF Return, Goto, Begins
    <3>3. CASE DrainCollect(c) \/ DrainAwait(c)
      BY <3>3, ControllerFacts DEF DrainCollect, DrainAwait, Goto, Begins
    <3> QED
      BY <1>8, <3>1, <3>2, <3>3 DEF Deadline, EndOfAnother, EndAction, RestoreSettings,
         SealSessionOutputs, SetPresentationSettings
  <2> QED
    BY <1>1, <1>2, <2>1, <2>2, <2>3 DEF SessionsBeginOnce, Begins, DrainedIsOver
<1> QED
  BY <1>3, <1>4, <1>5, <1>6, <1>7, <1>8 DEF ControllerStep, ControlProgress, AnyCall

\* An action is begun when none is in progress, and taken back by its own request.
LEMMA ControllerActions ==
  ASSUME IInv, UNCHANGED workload, NEW c \in Controllers, ControllerStep(c)
  PROVE  ActionsAreOwned'
<1>1. \A d \in Controllers \ {c} : pc'[d] = pc[d] /\ call'[d] = call[d]
  BY ControllerFacts, ControllerFrame
<1>2. /\ ActionsAreOwned /\ NoSession \notin Sessions /\ NoAction \notin Commands
      /\ \A d \in Controllers : pc[d] = "acting" => call[d].session \in Sessions
  BY SessionAssumption, CommandAssumption DEF IInv, Shape, CallFits
<1>3. CASE BeginSession(c)
  <2>1. pc[c] = "apply" /\ pc'[c] = "idle" /\ UNCHANGED activeAction
        /\ \/ UNCHANGED <<activeSession, outputsSealed>>
           \/ /\ activeSession = NoSession /\ activeSession' = call[c].session
              /\ ~outputsSealed'
    BY <1>3, ControllerFacts DEF BeginSession, Applies, Return, Goto, engineVars
  <2>2. \A d \in Controllers : pc[d] = "acting" => call[d].session # call[c].session
    BY <1>3, <2>1 DEF BeginSession, Applies, IInv, SessionsBeginOnce, Begins
  <2>3. CASE UNCHANGED <<activeSession, outputsSealed>>
    BY <1>1, <1>2, <2>1, <2>3 DEF ActionsAreOwned, ActionHasItsRequest, IsOwnAction
  <2>4. CASE /\ activeSession = NoSession /\ activeSession' = call[c].session /\ ~outputsSealed'
    <3>1. \A d \in Controllers : pc'[d] = "acting" => pc[d] = "acting" /\ call'[d] = call[d]
      BY <1>1, <2>1
    <3>2. activeAction = NoAction
      BY <1>2, <2>4 DEF ActionsAreOwned, ActionHasItsRequest, IsOwnAction
    <3> QED
      BY <1>2, <2>1, <2>2, <2>4, <3>1, <3>2 DEF ActionsAreOwned, ActionHasItsRequest
  <2> QED
    BY <2>1, <2>3, <2>4
<1>4. CASE EndSession(c)
  <2>1. /\ pc'[c] = "restore" /\ activeAction' = NoAction /\ activeSession' = NoSession
        /\ ~outputsSealed'
    BY <1>4, ControllerFacts DEF EndSession, Goto
  <2>2. \A d \in Controllers : pc'[d] = "acting" => pc[d] = "acting" /\ call'[d] = call[d]
    BY <1>1, <2>1
  <2> QED
    BY <1>2, <2>1, <2>2 DEF ActionsAreOwned, ActionHasItsRequest
<1>5. CASE SealSessionOutputs(c)
  <2>1. /\ pc[c] = "apply" /\ pc'[c] = "idle" /\ UNCHANGED <<activeSession, activeAction>>
        /\ outputsSealed' => outputsSealed \/ activeAction = NoAction
    BY <1>5, ControllerFacts DEF SealSessionOutputs, Sealable, Applies, Return, Goto
  <2> QED
    BY <1>1, <1>2, <2>1 DEF ActionsAreOwned, ActionHasItsRequest, IsOwnAction
<1>6. CASE EndAction(c)
  <2>1. /\ pc[c] = "acting" /\ pc'[c] = "idle" /\ UNCHANGED <<activeSession, outputsSealed>>
        /\ activeAction' = IF IsOwnAction(c) THEN NoAction ELSE activeAction
    BY <1>6, ControllerFacts DEF EndAction, Return, Goto
  <2>2. \A d \in Controllers : pc'[d] = "acting" => pc[d] = "acting" /\ call'[d] = call[d] /\ d # c
    BY <1>1, <2>1
  <2>3. CASE IsOwnAction(c)
    BY <1>2, <2>1, <2>2, <2>3 DEF ActionsAreOwned, ActionHasItsRequest, IsOwnAction
  <2>4. CASE ~IsOwnAction(c)
    BY <1>1, <1>2, <2>1, <2>2, <2>4 DEF ActionsAreOwned, ActionHasItsRequest, IsOwnAction
  <2> QED
    BY <2>3, <2>4
<1>7. ASSUME NEW s \in Sessions, NEW k \in Commands, BeginAction(c, s, k) PROVE ActionsAreOwned'
  <2>1. /\ UNCHANGED <<activeSession, outputsSealed>> /\ activeSession = s /\ ~outputsSealed
        /\ activeAction = NoAction /\ activeAction' = k
        /\ pc'[c] = "acting" /\ call'[c].session = s /\ call'[c].value = k
    BY <1>7, ControllerFacts DEF BeginAction, Make, Goto
  <2>2. \A d \in Controllers : pc[d] = "acting" => call[d].session # s
    BY <1>2, <2>1 DEF ActionsAreOwned, ActionHasItsRequest
  <2> QED
    BY <1>1, <1>2, <2>1, <2>2 DEF ActionsAreOwned, ActionHasItsRequest, IsOwnAction
<1>8. CASE /\ UNCHANGED <<activeSession, outputsSealed, activeAction>>
           /\ pc[c] # "acting" /\ pc'[c] # "acting"
  BY <1>1, <1>2, <1>8 DEF ActionsAreOwned, ActionHasItsRequest, IsOwnAction
<1>9. ASSUME NEW s \in Sessions, NEW o \in AllCalls \ {"action"}, Call(c, o, s) PROVE ActionsAreOwned'
  <2>1. UNCHANGED <<activeSession, outputsSealed, activeAction>>
    BY <1>9 DEF Call, engineVars
  <2>2. pc[c] # "acting" /\ pc'[c] # "acting"
    BY <1>9, ControllerFacts DEF Call, Goto, FirstLock
  <2> QED
    BY <1>8, <2>1, <2>2
<1>10. CASE \/ ControlGate(c) \/ ControlOutput(c) \/ Deadline(c) \/ EndOfAnother(c)
            \/ RestoreSettings(c) \/ SetPresentationSettings(c)
            \/ DrainCollect(c) \/ DrainDone(c) \/ DrainAwait(c)
  <2>1. UNCHANGED <<activeSession, outputsSealed, activeAction>>
    BY <1>10 DEF ControlGate, TakeGate, ControlOutput, Deadline, EndOfAnother, RestoreSettings,
       SetPresentationSettings, DrainCollect, DrainDone, DrainAwait, engineVars
  <2>2. pc[c] # "acting" /\ pc'[c] # "acting"
    BY <1>10, ControllerFacts DEF ControlGate, TakeGate, ControlOutput, Deadline, EndOfAnother,
       RestoreSettings, SetPresentationSettings, DrainCollect, DrainDone, DrainAwait, Return, Goto,
       Applies
  <2> QED
    BY <1>8, <2>1, <2>2
<1> QED
  BY <1>3, <1>4, <1>5, <1>6, <1>7, <1>9, <1>10 DEF ControllerStep, ControlProgress, AnyCall

LEMMA ControllerKeeps ==
  ASSUME IInv, UNCHANGED workload, NEW c \in Controllers, ControllerStep(c)
  PROVE  IInv'
BY ControllerShape, ControllerLocks, EngineIsGated, ControllerSettings, ControllerSessions,
   ControllerActions DEF IInv

-----------------------------------------------------------------------------
(* What holds in every run *)

LEMMA StepKeeps == IInv /\ Next /\ UNCHANGED workload => IInv'
<1> SUFFICES ASSUME IInv, Next, UNCHANGED workload PROVE IInv'
  OBVIOUS
<1>1. workload.calls \subseteq AllCalls
  BY BoundAssumption DEF IInv, Shape
<1>2. CASE \E x \in Executors : ExecutorStep(x)
  BY <1>2, ExecutorKeeps
<1>3. CASE LoopStep
  BY <1>3, LoopKeeps
<1>4. CASE \E j \in jobs : JobStep(j)
  BY <1>4, JobKeeps
<1>5. CASE \E c \in Controllers : ControllerStep(c)
  BY <1>5, ControllerKeeps
<1>6. \/ \E x \in Executors : ExecutorStep(x)
      \/ LoopStep
      \/ \E j \in jobs : JobStep(j)
      \/ \E c \in Controllers : ControllerStep(c)
  BY <1>1 DEF Next, ExecutorStep, LoopStep, ControllerStep, AnyCall
<1> QED
  BY <1>2, <1>3, <1>4, <1>5, <1>6

LEMMA StepIInv == IInv /\ [Next /\ UNCHANGED workload]_<<vars, workload>> => IInv'
<1> SUFFICES ASSUME IInv, UNCHANGED <<vars, workload>> PROVE IInv'
  BY StepKeeps
<1> USE DEF vars, engineVars, synthVars, historyVars, handlerVars
<1>1. Shape' /\ LocksAreHeld'
  BY DEF IInv, Shape, TypeOK, LabelsOf, CallFits, LocksAreHeld, Gated
<1>2. CommandsAreInside' /\ CommandsAreCounted' /\ EventsAreInside'
  BY DEF IInv, CommandsAreInside, CommandsAreCounted, EventsAreInside, Running
<1>3. SettingsAreKept' /\ SessionsBeginOnce' /\ DrainedIsOver'
  BY DEF IInv, SettingsAreKept, SettingsAreRestored, SessionsBeginOnce, Begins, DrainedIsOver
<1>4. ActionsAreOwned'
  BY DEF IInv, ActionsAreOwned, ActionHasItsRequest, IsOwnAction
<1> QED
  BY <1>1, <1>2, <1>3, <1>4 DEF IInv

LEMMA Invariant == Spec => []IInv
  BY InitIInv, StepIInv, PTL DEF Spec

\* The engine's fields, the jobs and the events keep their types under every interleaving
\* of commands, native handlers, syntheses and calls.
THEOREM TypeCorrect == Spec => []TypeOK
<1>1. IInv => TypeOK
  BY DEF IInv, Shape
<1> QED
  BY <1>1, Invariant, PTL

\* execute (engine.go:667) captures its session once and publishes both the start and the
\* settlement for it: no seal, end or begin comes in between.
THEOREM CommandsCorrect == Spec => []CommandsAreWhole
<1>1. IInv => CommandsAreWhole
  <2> SUFFICES ASSUME IInv, NEW s \in AllSessions, s # activeSession \/ outputsSealed
               PROVE  published[s]["started"] = published[s]["settled"]
    BY DEF CommandsAreWhole
  <2>1. ~\E x \in Executors : Running(x) /\ mine[x] = s
    BY DEF IInv, CommandsAreInside
  <2>2. published[s]["settled"] \in Nat
    BY DEF IInv, Shape, TypeOK, Kinds
  <2> QED
    BY <2>1, <2>2 DEF IInv, CommandsAreCounted
<1> QED
  BY <1>1, Invariant, PTL

\* handleNativeEvent (engine.go:2853) compares the generation behind the gate: an event of a session is
\* handled in that session or dropped.
THEOREM NativeCorrect == Spec => []NativeStaysInSession
<1>1. IInv => NativeStaysInSession
  BY DEF IInv, EventsAreInside, Running, NativeStaysInSession
<1> QED
  BY <1>1, Invariant, PTL

\* Whatever a session sets, and whenever it ends, the presenter is restored before another
\* session can begin.
THEOREM SettingsCorrect == Spec => []SettingsAreRestored
<1>1. IInv => SettingsAreRestored
  BY DEF IInv, SettingsAreKept
<1> QED
  BY <1>1, Invariant, PTL

\* BeginAction, EndAction and SealSessionOutputsContext (engine.go:410-483) agree on who
\* acts.
THEOREM ActionsCorrect == Spec => []ActionHasItsRequest
<1>1. IInv => ActionHasItsRequest
  BY DEF IInv, ActionsAreOwned
<1> QED
  BY <1>1, Invariant, PTL

\* What a step adds to the events and to the audio.
LEMMA StepPublishes ==
  ASSUME IInv, Next, UNCHANGED workload
  PROVE  \/ UNCHANGED <<published, recorded>>
         \/ /\ ~outputsSealed /\ UNCHANGED recorded
            /\ \E k \in Kinds \ {"audio"} : Publish(activeSession, k)
         \/ \E j \in jobs : \/ Publish(j.session, "audio") /\ UNCHANGED recorded
                            \/ /\ recorded' = [recorded EXCEPT ![j.session] = @ + 1]
                               /\ UNCHANGED published
<1>1. workload.calls \subseteq AllCalls /\ {"started", "settled", "output"} \subseteq Kinds \ {"audio"}
  BY BoundAssumption DEF IInv, Shape, Kinds
<1>2. ASSUME NEW x \in Executors, ExecutorStep(x)
      PROVE  \/ UNCHANGED <<published, recorded>>
             \/ /\ ~outputsSealed /\ UNCHANGED recorded
                /\ \E k \in Kinds \ {"audio"} : Publish(activeSession, k)
  <2>1. UNCHANGED recorded
    BY <1>2 DEF ExecutorStep, ExecGate, ExecProgress, ExecMode, ExecTether, ExecRead, ExecStart,
       ExecSettle, ExecVoiceAll, EmitLock, EmitSpeech, EmitVoice, synthVars
  <2>2. pc[x] = "start" \/ Running(x) => mine[x] = activeSession /\ ~outputsSealed
    BY DEF IInv, CommandsAreInside
  <2>3. \/ published' = published
        \/ pc[x] = "start" /\ Publish(mine[x], "started")
        \/ pc[x] = "body" /\ Publish(mine[x], "settled")
        \/ pc[x] \in {"body", "emit"} /\ Publish(Session, "output")
    BY <1>2 DEF ExecutorStep, ExecGate, ExecProgress, ExecMode, ExecTether, ExecRead, ExecStart,
       ExecSettle, ExecVoiceAll, EmitLock, EmitSpeech, EmitVoice
  <2> QED
    BY <1>1, <2>1, <2>2, <2>3 DEF Running, Session
<1>3. ASSUME LoopStep
      PROVE  \/ UNCHANGED <<published, recorded>>
             \/ /\ ~outputsSealed /\ UNCHANGED recorded
                /\ \E k \in Kinds \ {"audio"} : Publish(activeSession, k)
  BY <1>1, <1>3 DEF Session, LoopStep, LoopTake, LoopGate, TakeGate, LoopProgress, LoopCheck, LoopEnd,
     EmitLock, EmitSpeech, EmitVoice, synthVars
<1>4. ASSUME NEW j \in jobs, JobStep(j)
      PROVE  \/ UNCHANGED <<published, recorded>>
             \/ Publish(j.session, "audio") /\ UNCHANGED recorded
             \/ recorded' = [recorded EXCEPT ![j.session] = @ + 1] /\ UNCHANGED published
  BY <1>4 DEF JobStep, JobRecords, JobPublishes, JobFails
<1>5. ASSUME NEW c \in Controllers, ControllerStep(c) PROVE UNCHANGED <<published, recorded>>
  BY <1>5, ControllerFrame
<1>6. \/ \E x \in Executors : ExecutorStep(x)
      \/ LoopStep
      \/ \E j \in jobs : JobStep(j)
      \/ \E c \in Controllers : ControllerStep(c)
  BY <1>1 DEF Next, ExecutorStep, LoopStep, ControllerStep, AnyCall
<1> QED
  BY <1>2, <1>3, <1>4, <1>5, <1>6

\* emitEvidence, execute and modeCommand publish for the session that is active, and only
\* until it is sealed, whichever step captured it.
THEOREM OutputsCorrect == Spec => OutputsOnlyWhileOpen
<1> DEFINE A == \A s \in Sessions, k \in Kinds \ {"audio"} :
                  published'[s][k] # published[s][k] => activeSession = s /\ ~outputsSealed
<1>1. IInv /\ [Next /\ UNCHANGED workload]_<<vars, workload>> => [A]_vars
  <2> SUFFICES ASSUME IInv, Next, UNCHANGED workload,
                      NEW s \in Sessions, NEW k \in Kinds \ {"audio"},
                      published'[s][k] # published[s][k]
               PROVE  activeSession = s /\ ~outputsSealed
    OBVIOUS
  <2>1. /\ published \in [AllSessions -> [Kinds -> Nat]] /\ s \in AllSessions
        /\ activeSession \in AllSessions /\ "audio" \in Kinds
        /\ \A j \in jobs : j.session \in AllSessions
    BY DEF IInv, Shape, TypeOK, AllSessions, Kinds
  <2>2. ASSUME NEW j \in jobs, Publish(j.session, "audio") PROVE FALSE
    BY <2>1, <2>2, PublishAdds
  <2>3. ASSUME ~outputsSealed, NEW i \in Kinds \ {"audio"}, Publish(activeSession, i)
        PROVE  activeSession = s
    BY <2>1, <2>3, PublishAdds
  <2> QED
    BY <2>2, <2>3, StepPublishes
<1> HIDE DEF A
<1>2. Spec => [][A]_vars
  BY <1>1, Invariant, PTL DEF Spec
<1> QED
  BY <1>2 DEF A, OutputsOnlyWhileOpen

\* After SealSessionOutputsContext and WaitForSynthesis, the snapshot that the server takes
\* of the session's events and audio stays true.
THEOREM DrainCorrect == Spec => FrozenAfterDrain
<1> DEFINE A == \A s \in drained : published'[s] = published[s] /\ recorded'[s] = recorded[s]
<1>1. IInv /\ [Next /\ UNCHANGED workload]_<<vars, workload>> => [A]_vars
  <2> SUFFICES ASSUME IInv, Next, UNCHANGED workload, NEW s \in drained
               PROVE  published'[s] = published[s] /\ recorded'[s] = recorded[s]
    OBVIOUS
  <2>1. /\ published \in [AllSessions -> [Kinds -> Nat]] /\ s \in AllSessions
        /\ recorded \in [AllSessions -> Nat]
    BY DEF IInv, Shape, TypeOK, AllSessions
  <2>2. /\ activeSession = s => outputsSealed
        /\ \A j \in jobs : j.session # s
    BY DEF IInv, DrainedIsOver
  <2>3. \A t, k : t # s /\ Publish(t, k) => published'[s] = published[s]
    BY <2>1 DEF Publish
  <2> QED
    BY <2>1, <2>2, <2>3, StepPublishes
<1> HIDE DEF A
<1>2. Spec => [][A]_vars
  BY <1>1, Invariant, PTL DEF Spec
<1> QED
  BY <1>2 DEF A, FrozenAfterDrain
=============================================================================
