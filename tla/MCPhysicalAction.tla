--------------------------- MODULE MCPhysicalAction ---------------------------
(* Space activates in browse mode and toggles the mode with Insert; with       *)
(* Insert and Control it leaves an embedded object, spelled with the physical  *)
(* modifier first.  A braille route has no gesture.                            *)
EXTENDS PhysicalAction

CONSTANTS space, ctrlSpace, spaceKey, insert, ctrl,
          activateWithSpace, toggleFocusMode, exitEmbeddedObject, brailleRoute

MCStrokes == {space, ctrlSpace}
MCKeyOf == [s \in MCStrokes |-> spaceKey]
MCModifiers == {insert}
MCPhysicalModifiers == {ctrl}
MCCommands == {activateWithSpace, toggleFocusMode, exitEmbeddedObject}
MCBindings ==
  [m \in {insert, NoModifier} |->
     [s \in MCStrokes |->
        CASE s = space /\ m = NoModifier -> activateWithSpace
          [] s = space /\ m = insert -> toggleFocusMode
          [] s = ctrlSpace /\ m = NoModifier -> Unbound
          [] s = ctrlSpace /\ m = insert -> exitEmbeddedObject]]
MCNeedsGraph == {activateWithSpace, exitEmbeddedObject}
MCAlways == {toggleFocusMode}
MCBrowse == {activateWithSpace, exitEmbeddedObject}
MCToggles == {toggleFocusMode}
MCStructured == {brailleRoute}
MCActivations == {activateWithSpace}
Activate == [modifiers |-> <<>>, stroke |-> space]
Toggle == [modifiers |-> <<insert>>, stroke |-> space]
Exit == [modifiers |-> <<ctrl, insert>>, stroke |-> ctrlSpace]

MCGestures == {Activate, Toggle, Exit}

\* The same key twice, a mode that changes under it, a press that outlives its session.
MCScripts == {<<Activate, Activate>>, <<Toggle, Activate>>, <<Exit, brailleRoute>>}
=============================================================================
