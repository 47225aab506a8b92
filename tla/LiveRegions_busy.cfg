\* A region that is remembered speaks while it is busy.
SPECIFICATION Spec
CONSTANTS
  Nothing = Nothing
  Objects <- MCObjects
  Words <- MCWords
  depthLimit = 6
  nodeLimit = 8
  interruptionWindow = 1
  duplicateWindow = 2
  MaxChanges = 2
  Workloads <- MCWorkloads

PROPERTIES BusyIsQuiet
