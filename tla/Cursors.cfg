\* The commands of every cursor over four pages, two of which change under them.
SPECIFICATION Spec
CONSTANTS
  Nothing = Nothing
  depthLimit = 8
  notLinkBlockMinimumLength = 6
  virtualLineWidth = 5
  brailleCells = 2
  Trees <- MCTrees
  Workloads <- MCWorkloads
PROPERTIES BrowseStaysInDocument CursorsAdvance RefreshKeepsPlace ReviewInText
