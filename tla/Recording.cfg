\* Three overlapping calls of Finish and Abort, two segments up to the limit.
SPECIFICATION FairSpec
CONSTANTS
  s1 = s1
  f1 = f1
  f2 = f2
  f3 = f3
  events = events
  document = document
  Nobody = Nobody
  Sessions <- MCSessions
  Callers <- MCCallers
  Exports <- MCExports
  MaxSegments = 2
CHECK_DEADLOCK FALSE
INVARIANTS IndexMatchesWav CaptureIsOwned EvidenceIsComplete
PROPERTIES FinishersReturn
