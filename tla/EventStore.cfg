\* A ring of two that four appends overflow twice.
SPECIFICATION FairSpec
CONSTANTS
  s1 = s1
  r1 = r1
  plain = plain
  wanted = wanted
  NoSession = NoSession
  Limit = 2
  MaxAppends = 4
  Sessions <- MCSessions
  Waiters <- MCWaiters
  Kinds <- MCKinds
  Wanted <- MCWanted
INVARIANTS SnapshotIsExact NoMissedWakeup
PROPERTIES QuietWindowIsHonest ImplementsLog DueReadersReturn
