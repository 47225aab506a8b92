--------------------------- MODULE SessionOutputs ---------------------------
(***************************************************************************)
(* internal/engine/engine.go: who may publish for a test session, and when.*)
(* Physical and structured commands (Executors), the native event loop     *)
(* (Loop) and the calls of the control server (Controllers) meet at three  *)
(* locks: commandGate, outputMu and mu.  A section under mu is one step;   *)
(* commandGate and outputMu are held over several steps, so they are       *)
(* variables.  Synthesis runs in goroutines that take neither.             *)
(*                                                                         *)
(* Published events are counted by session and kind.  What a command says, *)
(* the accessibility reads behind it and the speech driver are external:   *)
(* a body emits any number of outputs, a synthesis succeeds or fails.      *)
(***************************************************************************)
EXTENDS Integers, FiniteSetsExt

CONSTANTS Sessions, NoSession,
          Executors, Loop, Controllers, Nobody,
          Settings, Default,       \* presentation settings, and those of the process
          NoSettings,              \* the zero value of the settings
          Commands, NoAction,      \* command identifiers of actions
          Workloads,               \* bound: the calls, the settings and the number of
                                   \* outputs that one behaviour has
          MaxCommands              \* bound: commands of one behaviour

ASSUME SessionAssumption == NoSession \notin Sessions
ASSUME SettingsAssumption == Default \in Settings /\ NoSettings \notin Settings
ASSUME CommandAssumption == NoAction \notin Commands
ASSUME ActorAssumption ==
  /\ Executors \cap Controllers = {}
  /\ Loop \notin Executors \cup Controllers
  /\ Nobody \notin Executors \cup Controllers \cup {Loop}
AllCalls == {"begin", "end", "seal", "drain", "set", "reset", "action"}

ASSUME BoundAssumption ==
  /\ MaxCommands \in Nat
  /\ Workloads \subseteq [calls : SUBSET AllCalls, settings : SUBSET Settings, outputs : Nat]

VARIABLES gate,           \* commandGate: its holder
          output,         \* outputMu: its holder
          activeSession, generation, outputsSealed, activeAction,
          settings,       \* presenter.Settings
          tether,         \* brailleTether
          baseline,       \* presentationBaseline of the active session
          jobs,           \* synthPending
          nextJob,        \* a name for the next of them
          published,      \* events in the store, by session and kind
          recorded,       \* calls of the audio sink, by session
          begun,          \* history: sessions begun
          drained,        \* history: sessions sealed when WaitForSynthesis returned
          pc,             \* where each actor is
          mine,           \* the session a command captured, or an event was taken in
          read,           \* loop: the generation it read
          unvoiced,       \* executors that spoke and have yet to start the synthesis
          call,           \* the call of each controller, and its arguments
          workload        \* what is asked of the engine; it never changes

engineVars == <<activeSession, generation, outputsSealed, activeAction, settings, tether, baseline>>
synthVars == <<jobs, nextJob, recorded>>
historyVars == <<begun, drained>>
handlerVars == <<mine, read, unvoiced>>
vars == <<gate, output, engineVars, synthVars, published, historyVars, pc, handlerVars, call>>

AllSessions == Sessions \cup {NoSession}
Actors == Executors \cup Controllers \cup {Loop}
Kinds == {"started", "settled", "output", "audio"}

\* Events of a kind, over all sessions.
Total(kind) == MapThenSumSet(LAMBDA s : published[s][kind], AllSessions)

NoCall == [op |-> "none", session |-> NoSession, value |-> Default, awaited |-> {}]

Goto(a, label) == pc' = [pc EXCEPT ![a] = label]

Publish(s, kind) == published' = [published EXCEPT ![s][kind] = @ + 1]

\* Engine.session: a sealed session owns no further output.
Session == IF outputsSealed THEN NoSession ELSE activeSession

Init ==
  /\ gate = Nobody /\ output = Nobody
  /\ activeSession = NoSession /\ generation = 0 /\ outputsSealed = FALSE
  /\ activeAction = NoAction
  /\ settings = Default /\ tether = Default /\ baseline = NoSettings
  /\ jobs = {} /\ nextJob = 1
  /\ published = [s \in AllSessions |-> [k \in Kinds |-> 0]]
  /\ recorded = [s \in AllSessions |-> 0]
  /\ begun = {} /\ drained = {}
  /\ pc = [a \in Actors |-> "idle"]
  /\ mine = [a \in Executors \cup {Loop} |-> NoSession]
  /\ read = 0 /\ unvoiced = {}
  /\ call = [c \in Controllers |-> NoCall]
  /\ workload \in Workloads

-----------------------------------------------------------------------------
(* Locks *)

\* commandGate <- struct{}{}
TakeGate(a, next) ==
  /\ pc[a] = "gate" /\ gate = Nobody
  /\ gate' = a
  /\ Goto(a, next)
  /\ UNCHANGED <<output, engineVars, synthVars, published, historyVars, handlerVars, call>>

-----------------------------------------------------------------------------
(* execute *)

\* The gate is released; what the command or the handler captured is forgotten.
Leave(a) ==
  /\ gate' = Nobody
  /\ Goto(a, "idle")
  /\ mine' = [mine EXCEPT ![a] = NoSession]

\* A command has read nothing before it holds the gate, so its wait is no step.
ExecGate(x) ==
  /\ pc[x] = "idle" /\ gate = Nobody
  /\ Total("started") < MaxCommands
  /\ gate' = x
  /\ Goto(x, "read")
  /\ UNCHANGED <<output, engineVars, synthVars, published, historyVars, handlerVars, call>>

\* Variant for the checks: a sealed session still accepts commands.
ExecReadUnsealed(x) ==
  /\ pc[x] = "read"
  /\ mine' = [mine EXCEPT ![x] = activeSession]
  /\ Goto(x, "start") /\ gate' = gate
  /\ UNCHANGED <<output, engineVars, synthVars, published, historyVars, read, unvoiced, call>>

\* The session is captured once; a sealed one refuses the command.
ExecRead(x) ==
  /\ pc[x] = "read"
  /\ \/ outputsSealed /\ Leave(x)
     \/ /\ ~outputsSealed
        /\ mine' = [mine EXCEPT ![x] = activeSession]
        /\ Goto(x, "start") /\ gate' = gate
  /\ UNCHANGED <<output, engineVars, synthVars, published, historyVars, read, unvoiced, call>>

ExecStart(x) ==
  /\ pc[x] = "start"
  /\ Publish(mine[x], "started")
  /\ Goto(x, "body")
  /\ UNCHANGED <<gate, output, engineVars, synthVars, historyVars, handlerVars, call>>

\* modeCommand publishes its mode event without outputMu.
ExecMode(x) ==
  /\ pc[x] = "body"
  /\ Total("output") < workload.outputs
  /\ Publish(Session, "output")
  /\ UNCHANGED <<gate, output, engineVars, synthVars, historyVars, pc, handlerVars, call>>

\* brailleControl cycles the tether under mu.
ExecTether(x) ==
  /\ pc[x] = "body"
  /\ \E v \in workload.settings \ {tether} : tether' = v
  /\ UNCHANGED <<gate, output, activeSession, generation, outputsSealed, activeAction, settings,
                 baseline, synthVars, published, historyVars, pc, handlerVars, call>>

ExecSettle(x) ==
  /\ pc[x] = "body" /\ x \notin unvoiced
  /\ Publish(mine[x], "settled")
  /\ Leave(x)
  /\ UNCHANGED <<output, engineVars, synthVars, historyVars, read, unvoiced, call>>

-----------------------------------------------------------------------------
(* emitEvidence, startSynthesis *)

EmitLock(a) ==
  /\ pc[a] = "body" /\ output = Nobody
  /\ output' = a
  /\ Goto(a, "emit")
  /\ UNCHANGED <<gate, engineVars, synthVars, published, historyVars, handlerVars, call>>

\* The speech, braille, focus or live region event: none of an empty presentation,
\* and none once sealed.
EmitSpeech(a) ==
  /\ pc[a] = "emit"
  /\ \/ Goto(a, "body") /\ output' = Nobody /\ UNCHANGED published
     \/ /\ ~outputsSealed /\ Total("output") < workload.outputs
        /\ Goto(a, "voice") /\ output' = a /\ Publish(Session, "output")
  /\ UNCHANGED <<gate, engineVars, synthVars, historyVars, handlerVars, call>>

Synthesis(s) == [id |-> nextJob, session |-> s, phase |-> "running"]

\* startSynthesisLocked registers the job before the lock is released.
EmitVoice(a) ==
  /\ pc[a] = "voice"
  /\ \/ ~outputsSealed /\ jobs' = jobs \cup {Synthesis(Session)} /\ nextJob' = nextJob + 1
        /\ UNCHANGED unvoiced
     \/ a \in Executors /\ unvoiced' = unvoiced \cup {a} /\ UNCHANGED <<jobs, nextJob>>
     \/ UNCHANGED <<jobs, nextJob, unvoiced>>
  /\ output' = Nobody
  /\ Goto(a, "body")
  /\ UNCHANGED <<gate, engineVars, recorded, published, historyVars, mine, read, call>>

\* readItems: the one synthesis of all that was spoken, for the session of the first.
ExecVoiceAll(x) ==
  /\ pc[x] = "body" /\ x \in unvoiced /\ output = Nobody
  /\ unvoiced' = unvoiced \ {x}
  /\ IF outputsSealed THEN UNCHANGED <<jobs, nextJob>>
     ELSE jobs' = jobs \cup {Synthesis(mine[x])} /\ nextJob' = nextJob + 1
  /\ UNCHANGED <<gate, output, engineVars, recorded, published, historyVars, pc, mine, read, call>>

\* The goroutine of a synthesis: sink, then event, then its registration is dropped.
JobRecords(j) ==
  /\ j.phase = "running"
  /\ recorded' = [recorded EXCEPT ![j.session] = @ + 1]
  /\ jobs' = (jobs \ {j}) \cup {[j EXCEPT !.phase = "recorded"]}
  /\ UNCHANGED <<gate, output, engineVars, nextJob, published, historyVars, pc, handlerVars, call>>

\* Its event, and the deferred delete and close: a waiter cannot tell them apart.
JobPublishes(j) ==
  /\ j.phase = "recorded"
  /\ Publish(j.session, "audio")
  /\ jobs' = jobs \ {j}
  /\ UNCHANGED <<gate, output, engineVars, nextJob, recorded, historyVars, pc, handlerVars, call>>

\* Variant for the checks: a failed synthesis never closes its channel.
JobFailsOpen(j) ==
  /\ j.phase = "running"
  /\ jobs' = (jobs \ {j}) \cup {[j EXCEPT !.phase = "failed"]}
  /\ UNCHANGED <<gate, output, engineVars, nextJob, recorded, published, historyVars, pc,
                 handlerVars, call>>

\* The driver failed, timed out or was cancelled by a later synthesis.
JobFails(j) ==
  /\ j.phase = "running"
  /\ jobs' = jobs \ {j}
  /\ UNCHANGED <<gate, output, engineVars, nextJob, recorded, published, historyVars, pc,
                 handlerVars, call>>

-----------------------------------------------------------------------------
(* handleNativeEvent *)

\* The generation is read before the gate, and compared behind it.
LoopTake ==
  /\ pc[Loop] = "idle"
  /\ read' = generation
  /\ mine' = [mine EXCEPT ![Loop] = activeSession]
  /\ Goto(Loop, "gate")
  /\ UNCHANGED <<gate, output, engineVars, synthVars, published, historyVars, unvoiced, call>>

LoopGate == TakeGate(Loop, "check")

\* Variant for the checks: the event is handled whatever happened meanwhile.
LoopHandle ==
  /\ pc[Loop] = "check"
  /\ Goto(Loop, "body")
  /\ UNCHANGED <<gate, output, engineVars, synthVars, published, historyVars, handlerVars, call>>

LoopCheck ==
  /\ pc[Loop] = "check"
  /\ \/ read # generation /\ Leave(Loop) /\ read' = 0
     \/ read = generation /\ Goto(Loop, "body") /\ UNCHANGED <<gate, mine, read>>
  /\ UNCHANGED <<output, engineVars, synthVars, published, historyVars, unvoiced, call>>

LoopEnd ==
  /\ pc[Loop] = "body"
  /\ Leave(Loop) /\ read' = 0
  /\ UNCHANGED <<output, engineVars, synthVars, published, historyVars, unvoiced, call>>

-----------------------------------------------------------------------------
(* BeginSession, EndSessionContext, SealSessionOutputsContext,               *)
(* SetPresentationSettings, ResetPresentationSettings, WaitForSynthesis      *)

\* Variant for the checks: sealing does not wait for the command in progress.
FirstLockUngated(o) ==
  IF o = "begin" \/ o = "end" THEN "gate" ELSE IF o = "drain" THEN "drain" ELSE "output"

\* The first lock of a call; settings are serialized by outputMu alone.
FirstLock(o) ==
  IF o \in {"begin", "end", "seal"} THEN "gate" ELSE IF o = "drain" THEN "drain" ELSE "output"

Make(c, o, s, v) ==
  call' = [call EXCEPT ![c] = [op |-> o, session |-> s, value |-> v, awaited |-> {}]]

\* A session identifier is random: it begins once.
Call(c, o, s) ==
  /\ pc[c] = "idle"
  /\ IF o = "begin" THEN s \notin begun /\ begun' = begun \cup {s}
                    ELSE s \in begun /\ UNCHANGED begun
  /\ \/ o = "set" /\ \E v \in workload.settings : Make(c, o, s, v)
     \/ o = "reset" /\ activeSession = s /\ Make(c, o, s, baseline)
     \/ o \notin {"set", "reset"} /\ Make(c, o, s, Default)
  /\ Goto(c, FirstLock(o))
  /\ UNCHANGED <<gate, output, engineVars, synthVars, published, drained, handlerVars>>

ControlGate(c) == TakeGate(c, "output")

ControlOutput(c) ==
  /\ pc[c] = "output" /\ output = Nobody
  /\ output' = c
  /\ Goto(c, "apply")
  /\ UNCHANGED <<gate, engineVars, synthVars, published, historyVars, handlerVars, call>>

\* The deferred unlocks, for whatever the call holds.
Return(c) ==
  /\ gate' = IF gate = c THEN Nobody ELSE gate
  /\ output' = IF output = c THEN Nobody ELSE output
  /\ Goto(c, "idle")
  /\ call' = [call EXCEPT ![c] = NoCall]

\* The context of an end, a seal or a drain may end while it waits.
Deadline(c) ==
  /\ \/ pc[c] \in {"gate", "output"} /\ call[c].op \in {"end", "seal"}
     \/ pc[c] = "await"
  /\ Return(c)
  /\ UNCHANGED <<engineVars, synthVars, published, historyVars, handlerVars>>

Applies(c, o) == pc[c] = "apply" /\ call[c].op = o

BeginSession(c) ==
  /\ Applies(c, "begin")
  /\ IF activeSession # NoSession THEN UNCHANGED engineVars
     ELSE /\ activeSession' = call[c].session
          /\ generation' = generation + 1
          /\ outputsSealed' = FALSE
          /\ baseline' = settings
          /\ UNCHANGED <<activeAction, settings, tether>>
  /\ Return(c)
  /\ UNCHANGED <<synthVars, published, historyVars, handlerVars>>

EndOfAnother(c) ==
  /\ Applies(c, "end") /\ activeSession # call[c].session
  /\ Return(c)
  /\ UNCHANGED <<engineVars, synthVars, published, historyVars, handlerVars>>

\* Attribution is cleared under mu; the presenter is restored behind it.
EndSession(c) ==
  /\ Applies(c, "end") /\ activeSession = call[c].session
  /\ activeSession' = NoSession
  /\ generation' = generation + 1
  /\ outputsSealed' = FALSE
  /\ activeAction' = NoAction
  /\ baseline' = NoSettings
  /\ tether' = baseline
  /\ call' = [call EXCEPT ![c].value = baseline]
  /\ Goto(c, "restore")
  /\ UNCHANGED <<gate, output, settings, synthVars, published, historyVars, handlerVars>>

Restored(c) == call[c].value

RestoreSettings(c) ==
  /\ pc[c] = "restore"
  /\ settings' = Restored(c)
  /\ Return(c)
  /\ UNCHANGED <<activeSession, generation, outputsSealed, activeAction, tether, baseline,
                 synthVars, published, historyVars, handlerVars>>

Sealable(c) == activeSession = call[c].session /\ activeAction = NoAction

SealSessionOutputs(c) ==
  /\ Applies(c, "seal")
  /\ outputsSealed' = (outputsSealed \/ Sealable(c))
  /\ Return(c)
  /\ UNCHANGED <<activeSession, generation, activeAction, settings, tether, baseline, synthVars,
                 published, historyVars, handlerVars>>

\* Variant for the checks: settings are applied for a session that has ended.
SetSettingsUnchecked(c) ==
  /\ Applies(c, "set") \/ Applies(c, "reset")
  /\ settings' = call[c].value /\ tether' = call[c].value
  /\ Return(c)
  /\ UNCHANGED <<activeSession, generation, outputsSealed, activeAction, baseline, synthVars,
                 published, historyVars, handlerVars>>

\* An ending session needs outputMu too, so the check holds until the release.
SetPresentationSettings(c) ==
  /\ Applies(c, "set") \/ Applies(c, "reset")
  /\ IF activeSession = call[c].session
       THEN settings' = call[c].value /\ tether' = call[c].value
       ELSE UNCHANGED <<settings, tether>>
  /\ Return(c)
  /\ UNCHANGED <<activeSession, generation, outputsSealed, activeAction, baseline, synthVars,
                 published, historyVars, handlerVars>>

\* Variant for the checks: a job leaves synthPending before its event is published.
PendingSynthesis == {j \in jobs : j.phase = "running"}

Pending == jobs

DrainCollect(c) ==
  /\ pc[c] = "drain" /\ Pending # {}
  /\ call' = [call EXCEPT ![c].awaited = {j.id : j \in Pending}]
  /\ Goto(c, "await")
  /\ UNCHANGED <<gate, output, engineVars, synthVars, published, historyVars, handlerVars>>

DrainDone(c) ==
  /\ pc[c] = "drain" /\ Pending = {}
  /\ drained' = IF outputsSealed /\ activeSession = call[c].session
                  THEN drained \cup {activeSession} ELSE drained
  /\ Return(c)
  /\ UNCHANGED <<engineVars, synthVars, published, begun, handlerVars>>

\* All the collected channels are closed: look again.
DrainAwait(c) ==
  /\ pc[c] = "await"
  /\ \A j \in jobs : j.id \notin call[c].awaited
  /\ Goto(c, "drain")
  /\ UNCHANGED <<gate, output, engineVars, synthVars, published, historyVars, handlerVars, call>>

-----------------------------------------------------------------------------
(* BeginAction, EndAction *)

BeginAction(c, s, k) ==
  /\ pc[c] = "idle" /\ s \in begun
  /\ activeSession = s /\ ~outputsSealed /\ activeAction = NoAction
  /\ activeAction' = k
  /\ Make(c, "action", s, k)
  /\ Goto(c, "acting")
  /\ UNCHANGED <<gate, output, activeSession, generation, outputsSealed, settings, tether, baseline,
                 synthVars, published, historyVars, handlerVars>>

\* Variant for the checks: the end of an action forgets whose action it was.
IsOwnActionOfAny(c) == activeAction = call[c].value

IsOwnAction(c) == activeSession = call[c].session /\ activeAction = call[c].value

EndAction(c) ==
  /\ pc[c] = "acting"
  /\ activeAction' = IF IsOwnAction(c) THEN NoAction ELSE activeAction
  /\ Return(c)
  /\ UNCHANGED <<activeSession, generation, outputsSealed, settings, tether, baseline,
                 synthVars, published, historyVars, handlerVars>>

-----------------------------------------------------------------------------
ExecProgress(x) ==
  ExecRead(x) \/ ExecStart(x) \/ ExecSettle(x) \/ ExecVoiceAll(x) \/ EmitSpeech(x) \/ EmitVoice(x)

LoopProgress == LoopCheck \/ LoopEnd \/ EmitSpeech(Loop) \/ EmitVoice(Loop)

ControlProgress(c) ==
  \/ BeginSession(c) \/ EndSession(c) \/ EndOfAnother(c) \/ RestoreSettings(c)
  \/ SealSessionOutputs(c) \/ SetPresentationSettings(c)
  \/ DrainCollect(c) \/ DrainDone(c) \/ DrainAwait(c)

JobStep(j) == JobRecords(j) \/ JobPublishes(j) \/ JobFails(j)

Next ==
  \/ \E x \in Executors :
       ExecGate(x) \/ ExecProgress(x) \/ ExecMode(x) \/ ExecTether(x)
  \/ LoopTake \/ LoopGate \/ LoopProgress
  \/ \E a \in Executors \cup {Loop} : EmitLock(a)
  \/ \E j \in jobs : JobStep(j)
  \/ \E c \in Controllers :
       \/ ControlGate(c) \/ ControlOutput(c) \/ Deadline(c) \/ ControlProgress(c)
       \/ EndAction(c)
       \/ \E s \in Sessions :
            \/ \E o \in workload.calls \ {"action"} : Call(c, o, s)
            \/ "action" \in workload.calls /\ \E k \in Commands : BeginAction(c, s, k)

Spec == Init /\ [][Next /\ UNCHANGED workload]_<<vars, workload>>

\* Goroutines keep running; a Go channel serves its blocked senders in order, so
\* whoever waits for a lock that is freed again and again gets it; a body speaks
\* finitely often and then ends; a driver call ends at its own timeout.  No call
\* has to be made, and no deadline has to pass.
FairSpec ==
  /\ Spec
  /\ \A x \in Executors :
       WF_vars(ExecProgress(x)) /\ SF_vars(ExecVoiceAll(x)) /\ SF_vars(ExecSettle(x))
  /\ SF_vars(LoopGate) /\ WF_vars(LoopProgress) /\ SF_vars(LoopEnd)
  /\ \A c \in Controllers : /\ SF_vars(ControlGate(c)) /\ SF_vars(ControlOutput(c))
                           /\ WF_vars(ControlProgress(c))
  /\ WF_vars(\E j \in jobs : JobStep(j))

-----------------------------------------------------------------------------
(* Properties *)

Ops == AllCalls \cup {"none"}

TypeOK ==
  /\ gate \in Actors \cup {Nobody} /\ output \in Actors \cup {Nobody}
  /\ activeSession \in AllSessions /\ generation \in Nat /\ outputsSealed \in BOOLEAN
  /\ activeAction \in Commands \cup {NoAction}
  /\ {settings, tether} \subseteq Settings /\ baseline \in Settings \cup {NoSettings}
  /\ jobs \subseteq [id : Nat, session : AllSessions, phase : {"running", "recorded"}]
  /\ nextJob \in Nat
  /\ published \in [AllSessions -> [Kinds -> Nat]] /\ recorded \in [AllSessions -> Nat]
  /\ begun \subseteq Sessions /\ drained \subseteq Sessions
  /\ pc \in [Actors -> {"idle", "gate", "read", "start", "body", "emit", "voice", "check",
                       "output", "apply", "restore", "drain", "await", "acting"}]
  /\ mine \in [Executors \cup {Loop} -> AllSessions]
  /\ read \in Nat /\ unvoiced \subseteq Executors
  /\ call \in [Controllers -> [op : Ops, session : AllSessions, value : Settings \cup Commands,
                               awaited : SUBSET Nat]]

\* A command settles in the session it started in, and before that session is
\* sealed or ends: neither an export nor the next session splits it.
CommandsAreWhole ==
  \A s \in AllSessions :
    (s # activeSession \/ outputsSealed) =>
      published[s]["started"] = published[s]["settled"]

\* Only an active session that is not sealed gets events other than audio, over
\* all the steps at which a command or a native handler captured its session.
OutputsOnlyWhileOpen ==
  [][\A s \in Sessions, k \in Kinds \ {"audio"} :
       published'[s][k] # published[s][k] => activeSession = s /\ ~outputsSealed]_vars

\* Once a sealed session has waited for its synthesis, nothing about it changes
\* any more: the events and the audio an export reads are final.
FrozenAfterDrain ==
  [][\A s \in drained : published'[s] = published[s] /\ recorded'[s] = recorded[s]]_vars

\* A native event is handled in the session it was taken from the bus in.
NativeStaysInSession ==
  pc[Loop] \in {"body", "emit", "voice"} => mine[Loop] = activeSession

\* A session leaves no presentation setting behind for the next one.
SettingsAreRestored ==
  (activeSession = NoSession /\ \A c \in Controllers : pc[c] # "restore") => settings = Default

\* The action in progress is that of a request that is still running, and a
\* running request of the active session keeps its action until it ends it: a
\* late EndAction of a past session takes nothing from the present one, and an
\* export never begins in the middle of an action.
ActionHasItsRequest ==
  /\ outputsSealed => activeAction = NoAction
  /\ activeAction # NoAction =>
       \E c \in Controllers : pc[c] = "acting" /\ IsOwnAction(c)
  /\ \A c \in Controllers :
       pc[c] = "acting" /\ call[c].session = activeSession => activeAction = call[c].value

\* Locks are ordered, handlers end and drivers time out: every call of the
\* control server returns without its deadline.
CallsReturn ==
  \A c \in Controllers : (pc[c] \notin {"idle", "acting"}) ~> (pc[c] \in {"idle", "acting"})
=============================================================================
