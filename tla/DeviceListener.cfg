\* Releases may come late or be omitted; does every command run all the same?
SPECIFICATION FairSpec
CONSTANTS
  space = space
  ctrlSpace = ctrlSpace
  tab = tab
  spaceKey = spaceKey
  tabKey = tabKey
  insert = insert
  ctrl = ctrl
  activateWithSpace = activateWithSpace
  toggleFocusMode = toggleFocusMode
  exitEmbeddedObject = exitEmbeddedObject
  nextFocusable = nextFocusable
  readCurrent = readCurrent
  NoModifier = NoModifier
  Unbound = Unbound
  Strokes <- MCStrokes
  KeyOf <- MCKeyOf
  Modifiers <- MCModifiers
  PhysicalModifiers <- MCPhysicalModifiers
  Commands <- MCCommands
  Bindings <- MCBindings
  NeedsGraph <- MCNeedsGraph
  Always <- MCAlways
  Browse <- MCBrowse
  Toggles <- MCToggles
  QueueLimit = 1
  ReleasesOmitted = TRUE
  MaxPresses = 2
INVARIANTS PendingIsOpen WaitingJobsAreSignalled ReleaseFollowsPress
PROPERTIES CommandsAreRun
