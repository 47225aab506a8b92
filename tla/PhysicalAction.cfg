\* Actions with every failure of xdotool, late acknowledgements and jobs that outlive them.
SPECIFICATION ActionSpec
CONSTANTS
  space = space
  ctrlSpace = ctrlSpace
  spaceKey = spaceKey
  insert = insert
  ctrl = ctrl
  activateWithSpace = activateWithSpace
  toggleFocusMode = toggleFocusMode
  exitEmbeddedObject = exitEmbeddedObject
  brailleRoute = brailleRoute
  NoModifier = NoModifier
  Unbound = Unbound
  NoGesture = NoGesture
  Gestures <- MCGestures
  Strokes <- MCStrokes
  KeyOf <- MCKeyOf
  Modifiers <- MCModifiers
  PhysicalModifiers <- MCPhysicalModifiers
  Commands <- MCCommands
  Bindings <- MCBindings
  NeedsGraph <- MCNeedsGraph
  Always <- MCAlways
  Browse <- MCBrowse
  Toggles <- MCToggles
  QueueLimit = 1
  ReleasesOmitted = TRUE
  MaxPresses = 3
  Structured <- MCStructured
  Activations <- MCActivations
  MaxSessions = 2
  MaxChanges = 1
  Scripts <- MCScripts
INVARIANTS GesturesAreIndependent CleanActionRunsOnce
PROPERTIES ActivationIsHandledOnce
