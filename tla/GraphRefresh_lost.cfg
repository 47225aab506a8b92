\* A request refreshes while the loop handles a native event.
SPECIFICATION Spec
CONSTANTS
  r1 = r1
  o1 = o1
  o2 = o2
  Command = command
  Loop = loop
  Nobody = Nobody
  Nothing = Nothing
  Requests <- MCRequests
  Objects <- MCObjects
  MaxMutations = 3
SYMMETRY Symmetry
INVARIANTS ExportSeesMutations
