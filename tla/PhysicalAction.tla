---------------------------- MODULE PhysicalAction ----------------------------
(***************************************************************************)
(* The body of Server.action (server.go:309-463): a command is typed as a  *)
(* gesture, its acknowledgement is awaited, the gesture is typed again if  *)
(* that is late, and the answer is what the log then says of the command.  *)
(* Composed with the injector, the listener and its worker, and with the   *)
(* sessions that begin and end between actions while jobs still wait.      *)
(*                                                                         *)
(* One action at a time runs, under the lock of its session, which a finish *)
(* takes too.  The log has the command events; those of session 0 belong to *)
(* no session.                                                             *)
(***************************************************************************)
EXTENDS Injector

CONSTANTS Structured,    \* commands without a gesture, or with an argument
          Activations,   \* commands that act only in browse mode
          Scripts,       \* the requests of one behaviour: gestures and structured commands
          MaxSessions, MaxChanges  \* bounds: sessions, changes of mode by the browser

ASSUME StructuredAssumption == Structured \cap Commands = {} /\ Unbound \notin Structured
ASSUME ActivationAssumption == Activations \subseteq NeedsGraph
ASSUME ScriptAssumption ==
  {MaxSessions, MaxChanges} \subseteq Nat /\ Scripts \subseteq Seq(Gestures \cup Structured)

VARIABLES script,     \* the requests
          action,     \* the request: where it is, and what it knows
          log,        \* command events, in the order of the store
          session,    \* activeSession, 0 for none
          begun,      \* sessions so far
          changes,    \* changes of mode by the browser so far
          answered,   \* history: the answers
          strokes,    \* history: what each press was part of, and its answer
          disturbed   \* history: waiting jobs since whose press the mode or the seal changed

planVars == <<script, begun, changes>>
historyVars == <<answered, strokes, disturbed>>
allVars == <<vars, injectorVars, action, log, session, planVars, historyVars>>

NoAction == [at |-> "idle", command |-> Unbound, gesture |-> NoGesture, presses |-> 0, before |-> 0,
             from |-> 0]

ActionInit ==
  /\ InjectorInit /\ script \in Scripts
  /\ action = NoAction /\ log = <<>> /\ session = 1 /\ begun = 1 /\ changes = 0
  /\ answered = <<>> /\ strokes = <<>> /\ disturbed = {}

-----------------------------------------------------------------------------
(* Engine.execute *)

\* Variant for the checks: the mode is not looked at again.
ActsAnyway(c) == TRUE

\* An activation of focus mode is left to the browser.
Acts(c) == c \in Activations => Consumes(c)

Event(kind, c, press) ==
  [kind |-> kind, command |-> c, session |-> session, press |-> press,
   acts |-> kind = "started" /\ Acts(c)]

\* Jobs that have not begun.
Unrun == {jobs[i].released : i \in 1..Len(jobs)} \cup
         {n \in {worker.job.released} : worker.at \in {"waiting", "gate"}}

Disturb == disturbed' = IF focusMode' # focusMode \/ sealed' # sealed THEN disturbed \cup Unrun
                        ELSE disturbed

\* A sealed session refuses the command without an event.
Starts ==
  /\ WorkerGate
  /\ log' = IF sealed THEN log
            ELSE Append(log, Event("started", worker.job.command, worker.job.released))
  /\ disturbed' = disturbed \ {worker.job.released}
  /\ UNCHANGED <<injectorVars, action, session, planVars, answered, strokes>>

Settles ==
  /\ WorkerEnds
  /\ \E kind \in {"completed", "failed"} :
       log' = IF sealed THEN log
              ELSE Append(log, Event(kind, worker.job.command, worker.job.released))
  /\ UNCHANGED <<injectorVars, action, session, planVars, historyVars>>

RunsInCallback ==
  /\ CallbackRuns
  /\ log' = IF sealed THEN log
            ELSE log \o <<Event("started", callback.command, Len(strokes)),
                          Event("completed", callback.command, Len(strokes))>>
  /\ Disturb
  /\ UNCHANGED <<injectorVars, action, session, planVars, answered, strokes>>

ListenerStep ==
  /\ WorkerTakes \/ WorkerProceeds \/ RegistryGivesUp \/ OtherTakesGate
  /\ UNCHANGED <<injectorVars, action, log, session, planVars, historyVars>>

\* A native event, which may change the mode; or a session is sealed, ends or begins,
\* none of them in the middle of an action.
OthersFinish ==
  /\ OtherLeavesGate /\ action.at # "running"
  /\ \/ sealed' = sealed /\ UNCHANGED <<session, begun>>
     \/ ~sealed /\ sealed' = TRUE /\ session # 0 /\ action.at = "idle" /\ UNCHANGED <<session, begun>>
     \/ /\ sealed' = FALSE /\ session # 0 /\ action.at = "idle"
        /\ session' = 0 /\ UNCHANGED begun
     \/ /\ sealed' = FALSE /\ session = 0 /\ begun < MaxSessions
        /\ session' = begun + 1 /\ begun' = begun + 1
  /\ focusMode' # focusMode => changes < MaxChanges
  /\ changes' = IF focusMode' # focusMode THEN changes + 1 ELSE changes
  /\ Disturb
  /\ UNCHANGED <<injectorVars, script, action, log, answered, strokes>>

-----------------------------------------------------------------------------
(* Server.action *)

\* Variant for the checks: the events of earlier actions count.
AnyCursor == 0

Cursor == Len(log)

\* The command that a gesture is meant for.
Meant(g) == Bindings[Virtual(g.modifiers)][g.stroke]

BeginAction ==
  /\ action.at = "idle" /\ session # 0 /\ ~sealed
  /\ script # <<>> /\ script' = Tail(script)
  /\ LET r == Head(script)
     IN action' = IF r \in Structured
                    THEN [NoAction EXCEPT !.at = "direct", !.command = r, !.before = Cursor]
                    ELSE [NoAction EXCEPT !.at = "press", !.command = Meant(r), !.gesture = r,
                                          !.before = Cursor]
  /\ UNCHANGED <<vars, injectorVars, log, session, begun, changes, historyVars>>

\* What WaitFor finds behind the cursor.
Found(kinds) ==
  {i \in action.before + 1..Len(log) :
     log[i].kind \in kinds /\ log[i].command = action.command /\ log[i].session = session}

Goto(at) == action' = [action EXCEPT !.at = at]

\* The gesture, and once more when nothing has started in time.
PressGesture ==
  /\ \/ action.at = "press"
     \/ action.at = "acknowledge" /\ Found({"started"}) = {}
  /\ Type(action.gesture)
  /\ action' = [action EXCEPT !.at = "typing", !.presses = @ + 1]
  /\ UNCHANGED <<log, session, planVars, historyVars>>

Typing ==
  /\ Hold \/ Key \/ EndKey \/ ReleaseLast
  /\ strokes' = IF presses' = presses THEN strokes
                ELSE Append(strokes, [action |-> Len(answered) + 1, command |-> Decode(gesture.stroke),
                                      swallowed |-> KeyOf[gesture.stroke] \in swallowed'])
  /\ UNCHANGED <<action, log, session, planVars, answered, disturbed>>

\* An action that gave up, or pressed twice, may leave a job behind.
Reply(ok) ==
  /\ LET sure == ok /\ action.presses <= 1
     IN answered' = Append(answered,
          [command |-> action.command, sure |-> sure, structured |-> action.presses = 0,
           from |-> IF sure THEN action.from ELSE 0, to |-> IF sure THEN Len(log) ELSE 0])
  /\ action' = NoAction

Pressed ==
  /\ Return
  /\ IF failed THEN Reply(FALSE)
     ELSE Goto(IF action.presses = 1 THEN "acknowledge" ELSE "settle") /\ UNCHANGED answered
  /\ UNCHANGED <<log, session, planVars, strokes, disturbed>>

Acknowledged ==
  /\ action.at = "acknowledge" /\ Found({"started"}) # {}
  /\ Goto("settle")
  /\ UNCHANGED <<vars, injectorVars, log, session, planVars, historyVars>>

\* A structured command runs in the request itself.
DirectStarts ==
  /\ action.at = "direct" /\ gate = "free"
  /\ gate' = "other" /\ Goto("running")
  /\ log' = Append(log, Event("started", action.command, 0))
  /\ UNCHANGED <<listenerVars, worker, callback, focusMode, sealed, keyboardVars, browserWaits,
                 injectorVars, session, planVars, historyVars>>

DirectSettles ==
  /\ action.at = "running" /\ ~browserWaits
  /\ gate' = "free" /\ Goto("settle")
  /\ \E kind \in {"completed", "failed"} : log' = Append(log, Event(kind, action.command, 0))
  /\ UNCHANGED <<listenerVars, worker, callback, focusMode, sealed, keyboardVars, browserWaits,
                 injectorVars, session, planVars, historyVars>>

\* The result begins with the last start that was seen.
Settled ==
  /\ action.at = "settle" /\ Found({"completed", "failed"}) # {}
  /\ IF Found({"failed"}) # {} THEN Reply(FALSE)
     ELSE /\ action' = [action EXCEPT !.at = "tail", !.from = Max({0} \cup Found({"started"}))]
          /\ UNCHANGED answered
  /\ UNCHANGED <<vars, injectorVars, log, session, planVars, strokes, disturbed>>

\* The log has been quiet for a while, or long enough was waited.
Answers ==
  /\ action.at = "tail"
  /\ Reply(TRUE)
  /\ UNCHANGED <<vars, injectorVars, log, session, planVars, strokes, disturbed>>

\* A deadline, a graph or a state that cannot be read, a history that is gone.
Fails ==
  /\ action.at \in {"press", "direct", "acknowledge", "settle", "tail"}
  /\ Reply(FALSE)
  /\ UNCHANGED <<vars, injectorVars, log, session, planVars, strokes, disturbed>>

ActionNext ==
  \/ BeginAction \/ PressGesture \/ Typing \/ Pressed \/ Acknowledged
  \/ DirectStarts \/ DirectSettles \/ Settled \/ Answers \/ Fails
  \/ Starts \/ Settles \/ RunsInCallback \/ ListenerStep \/ OthersFinish

ActionSpec == ActionInit /\ [][ActionNext]_allVars

-----------------------------------------------------------------------------
(* Properties *)

\* Every press up to action m that the listener took for its command belongs to an
\* action for that command that was answered at its first press: none is left behind.
Clean(m) ==
  /\ answered[m].sure
  /\ \A n \in 1..Len(strokes) :
       strokes[n].action <= m /\ strokes[n].command = answered[m].command =>
         LET a == answered[strokes[n].action] IN a.sure /\ a.command = answered[m].command

OfAction(i, m) == log[i].press # 0 /\ strokes[log[i].press].action = m

\* Action m is answered with a start and the completion of it, which are all there is of
\* its command in the answer, and all there ever is of its presses.
RanOnce(m) ==
  LET a == answered[m]
  IN /\ a.from # 0
     /\ \E j \in a.from + 1..a.to :
          /\ {i \in a.from..a.to : log[i].command = a.command} = {a.from, j}
          /\ log[a.from].kind = "started" /\ log[j].kind = "completed"
          /\ log[j].press = log[a.from].press /\ log[j].session = log[a.from].session
          /\ a.structured \/ OfAction(a.from, m)
          /\ \A i \in 1..Len(log) : OfAction(i, m) => i \in {a.from, j}

\* An action that is answered at its first press, after no action that could have left
\* a job of its command behind, is answered with exactly the one run of its command that
\* it caused: started, completed, in its session, neither before nor after it, although
\* jobs of other actions and of past sessions run in between (server.go:353-469).
CleanActionRunsOnce == \A m \in 1..Len(answered) : Clean(m) => RanOnce(m)

\* A key that activates does so once, in the browser or in the engine: the answer to the
\* press and the run decide alike, unless the mode or the seal changed between them
\* (device.go:321-338, engine.go:690, 708-711).
ActivationIsHandledOnce ==
  [][\A i \in Len(log) + 1..Len(log') :
       LET e == log'[i]
       IN e.kind = "started" /\ e.command \in Activations /\ e.press \notin disturbed =>
            (e.acts <=> strokes[e.press].swallowed)]_allVars
=============================================================================
