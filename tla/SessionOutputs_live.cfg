\* Every call of the control server returns, whatever commands and native events do.
SPECIFICATION FairSpec
CONSTANTS
  a = a
  b = b
  x1 = x1
  c1 = c1
  c2 = c2
  v0 = v0
  v1 = v1
  k1 = k1
  NoSession = NoSession
  NoSettings = NoSettings
  Loop = loop
  Nobody = Nobody
  NoAction = NoAction
  Default = v0
  Sessions <- MCOneSession
  Executors <- MCExecutors
  Controllers <- MCOneController
  Settings <- MCSettings
  Commands <- MCCommands
  Workloads <- MCAllWork
  MaxCommands = 1
PROPERTIES CallsReturn
