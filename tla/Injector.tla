------------------------------ MODULE Injector ------------------------------
(***************************************************************************)
(* internal/input/injector.go: XDoTool.Press, composed with the listener   *)
(* that its keys reach.  A gesture with a virtual modifier is typed one    *)
(* xdotool command after another, each of which may fail or be cancelled,  *)
(* before or after the key changed; any other gesture is one command.      *)
(* One gesture at a time is typed, under XDoTool.mu.                       *)
(***************************************************************************)
EXTENDS DeviceListener, SequencesExt

CONSTANTS Gestures,    \* modifiers of a gesture as it is spelled, and its stroke
          NoGesture

AllModifiers == Modifiers \cup PhysicalModifiers

\* Where a gesture has virtual modifiers.  Those of the commands have one at most.
VirtualAt(modifiers) == {i \in DOMAIN modifiers : modifiers[i] \in Modifiers}

ASSUME GestureAssumption ==
  /\ Gestures \subseteq [modifiers : Seq(AllModifiers), stroke : Strokes]
  /\ NoGesture \notin Gestures
  /\ \A g \in Gestures : \A i, j \in VirtualAt(g.modifiers) : i = j

VARIABLES gesture,  \* the gesture that is being typed
          step,     \* and where Press is
          rest,     \* modifiers to press
          held,     \* modifiers to release, in the order of their presses
          failed,   \* did one of the commands report an error?
          stuck     \* history: keys and modifiers whose release xdotool did not do

injectorVars == <<gesture, step, rest, held, failed, stuck>>

InjectorInit ==
  /\ Init
  /\ gesture = NoGesture /\ step = "idle" /\ rest = <<>> /\ held = <<>> /\ failed = FALSE /\ stuck = {}

\* The virtual modifier among those of a gesture.
Virtual(modifiers) ==
  IF VirtualAt(modifiers) = {} THEN NoModifier ELSE modifiers[Min(VirtualAt(modifiers))]

\* Variant for the checks: modifiers are pressed as they are spelled.
AsSpelled(modifiers) == modifiers

\* The virtual modifier is moved in front of those before it.
VirtualFirst(modifiers) ==
  LET v == Min(VirtualAt(modifiers))
  IN [i \in DOMAIN modifiers |->
        IF i = 1 THEN modifiers[v] ELSE IF i <= v THEN modifiers[i - 1] ELSE modifiers[i]]

Type(g) ==
  /\ step = "idle"
  /\ gesture' = g
  /\ IF Virtual(g.modifiers) = NoModifier
       THEN step' = "key" /\ rest' = <<>>
       ELSE step' = "hold" /\ rest' = VirtualFirst(g.modifiers)
  /\ held' = <<>> /\ failed' = FALSE
  /\ UNCHANGED <<vars, stuck>>

-----------------------------------------------------------------------------
(* What one xdotool command does to the keyboard *)

NoKey == UNCHANGED vars

\* A modifier goes down.  With a physical modifier down already, the grab of a
\* virtual one does not match, and its press passes by the listener.
ModifierDown(m) ==
  \/ m \in down /\ NoKey
  \/ m \in Modifiers /\ ModifierPress(m)
  \/ /\ m \notin down
     /\ PassBy(m)

ModifierUp(m) ==
  \/ m \notin down /\ NoKey
  \/ m \in Modifiers /\ (ModifierRelease(m) \/ ReleaseOmitted(m))
  \/ m \in PhysicalModifiers \cap down /\ PassBy(m)

KeyDown(s) == (KeyOf[s] \in down /\ NoKey) \/ Press(s)

KeyUp(k) == (k \notin down /\ NoKey) \/ Release(k)

-----------------------------------------------------------------------------
(* Press *)

\* Variant for the checks: a modifier whose press failed is not released.
HeldAfterFailureOmitted(m) == held

HeldAfterFailure(m) == Append(held, m)

\* The key may be down although the command failed.
Hold ==
  /\ step = "hold" /\ rest # <<>>
  /\ LET m == Head(rest)
     IN \/ /\ ModifierDown(m)
           /\ held' = Append(held, m)
           /\ rest' = Tail(rest)
           /\ step' = IF rest' = <<>> THEN "key" ELSE "hold"
           /\ UNCHANGED failed
        \/ /\ ModifierDown(m) \/ NoKey
           /\ held' = HeldAfterFailure(m)
           /\ rest' = <<>>
           /\ step' = "release" /\ failed' = TRUE
  /\ UNCHANGED <<gesture, stuck>>

\* xdotool presses the key and releases it, unless it fails before or in between; or
\* it does both and the context has ended meanwhile.
Key ==
  /\ step = "key"
  /\ \/ KeyDown(gesture.stroke) /\ step' = "keyUp" /\ UNCHANGED failed
     \/ NoKey /\ step' = "release" /\ failed' = TRUE
  /\ UNCHANGED <<gesture, rest, held, stuck>>

EndKey ==
  /\ step = "keyUp"
  /\ LET k == KeyOf[gesture.stroke]
     IN \/ KeyUp(k) /\ stuck' = stuck \ {k} /\ failed' \in BOOLEAN
        \/ k \in down /\ NoKey /\ stuck' = stuck \cup {k} /\ failed' = TRUE
  /\ step' = "release"
  /\ UNCHANGED <<gesture, rest, held>>

\* In reverse order, whatever happened before and whether or not the context ended;
\* a release that fails is not repeated.
ReleaseLast ==
  /\ step = "release" /\ held # <<>>
  /\ LET m == Last(held)
     IN \/ ModifierUp(m) /\ stuck' = stuck \ {m} /\ failed' \in {failed, TRUE}
        \/ m \in down /\ NoKey /\ stuck' = stuck \cup {m} /\ failed' = TRUE
  /\ held' = Front(held)
  /\ UNCHANGED <<gesture, step, rest>>

Return ==
  /\ step = "release" /\ held = <<>>
  /\ step' = "idle" /\ gesture' = NoGesture
  /\ UNCHANGED <<vars, rest, held, failed, stuck>>

-----------------------------------------------------------------------------
(* Properties *)

InjectorTypeOK ==
  /\ TypeOK
  /\ gesture \in Gestures \cup {NoGesture}
  /\ step \in {"idle", "hold", "key", "keyUp", "release"}
  /\ rest \in Seq(AllModifiers) /\ held \in Seq(AllModifiers)
  /\ failed \in BOOLEAN /\ stuck \subseteq Keys \cup AllModifiers

\* Press returns with every key and modifier up, whatever failed, except those
\* whose own release failed: a modifier left down would change every later key.
NothingLeftDown == step = "idle" => down \subseteq stuck

\* The listener decodes a stroke with the virtual modifier of its own gesture, and
\* with none that an earlier gesture left behind, although presses fail and the
\* release of a modifier that was used may not be notified.
DecodedAsMeant ==
  (step = "key" /\ stuck = {}) => heldModifier = Virtual(gesture.modifiers)

\* No gesture leaves anything behind for the next one: neither a key that is down nor
\* a modifier that the listener still holds (injector.go:52-79, device.go:300-312).
GesturesAreIndependent == NothingLeftDown /\ DecodedAsMeant
=============================================================================
