\* Two changes of each page, with every order of its signals.
SPECIFICATION Spec
CONSTANTS
  Nothing = Nothing
  Objects <- MCObjects
  Words <- MCWords
  depthLimit = 6
  nodeLimit = 8
  interruptionWindow = 1
  duplicateWindow = 2
  MaxChanges = 2
  Workloads <- MCWorkloads
INVARIANTS EveryChangeIsHeard KnownSecretsStayUnspoken
PROPERTIES AtomicIsSpokenWhole OnlyLiveIsSpoken KnownEditsAreQuiet
