-------------------------- MODULE MCDeviceListener --------------------------
(* Space activates in browse mode, toggles the mode with Insert, and leaves   *)
(* an embedded object with Insert and Control.  Tab moves the native focus,   *)
(* and reads the current object with Insert.                                  *)
EXTENDS DeviceListener

CONSTANTS space, ctrlSpace, tab, spaceKey, tabKey, insert, ctrl,
          activateWithSpace, toggleFocusMode, exitEmbeddedObject, nextFocusable, readCurrent

MCStrokes == {space, ctrlSpace, tab}
MCKeyOf == [s \in MCStrokes |-> IF s = tab THEN tabKey ELSE spaceKey]
MCModifiers == {insert}
MCPhysicalModifiers == {ctrl}
MCCommands == {activateWithSpace, toggleFocusMode, exitEmbeddedObject, nextFocusable, readCurrent}
MCBindings ==
  [m \in {insert, NoModifier} |->
     [s \in MCStrokes |->
        CASE s = space /\ m = NoModifier -> activateWithSpace
          [] s = space /\ m = insert -> toggleFocusMode
          [] s = ctrlSpace /\ m = NoModifier -> Unbound
          [] s = ctrlSpace /\ m = insert -> exitEmbeddedObject
          [] s = tab /\ m = NoModifier -> nextFocusable
          [] s = tab /\ m = insert -> readCurrent]]
MCNeedsGraph == {activateWithSpace, exitEmbeddedObject, readCurrent}
MCAlways == {readCurrent, toggleFocusMode}
MCBrowse == {activateWithSpace, exitEmbeddedObject}
MCToggles == {toggleFocusMode}
=============================================================================
