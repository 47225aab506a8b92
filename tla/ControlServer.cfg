\* Two concurrent requests over two sessions, with three failures anywhere.
SPECIFICATION FairSpec
CONSTANTS
  s1 = s1
  s2 = s2
  r1 = r1
  r2 = r2
  NoSession = NoSession
  Nobody = Nobody
  Sessions <- MCSessions
  Requests <- MCRequests
  FinishedSessionLimit = 1
  MaxEvents = 1
  MaxFaults = 3
CHECK_DEADLOCK FALSE
INVARIANTS TokenCoversSession UseIsProtected ResultIsWhole DirectoriesAreAccounted
PROPERTIES PreparedIsFrozen FinishingSessionEnds
