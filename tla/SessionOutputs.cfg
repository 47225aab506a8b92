\* Commands, native events, synthesis, settings and actions against begin, seal, drain and end.
SPECIFICATION Spec
CONSTANTS
  a = a
  b = b
  x1 = x1
  c1 = c1
  c2 = c2
  v0 = v0
  v1 = v1
  k1 = k1
  NoSession = NoSession
  NoSettings = NoSettings
  Loop = loop
  Nobody = Nobody
  NoAction = NoAction
  Default = v0
  Sessions <- MCSessions
  Executors <- MCExecutors
  Controllers <- MCControllers
  Settings <- MCSettings
  Commands <- MCCommands
  Workloads <- MCWorkloads
  MaxCommands = 1
SYMMETRY Symmetry
INVARIANTS CommandsAreWhole NativeStaysInSession SettingsAreRestored ActionHasItsRequest
PROPERTIES OutputsOnlyWhileOpen FrozenAfterDrain
