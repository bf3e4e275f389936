SPECIFICATION FairSpec
CONSTANTS
  Threads = {p1, p2, c1, c2}
  Producers = {p1, p2}
  Consumers = {c1, c2}
  MaxBulk = 2
  MaxElements = 3
INVARIANTS PermitsAreElements HoldersFindElements
PROPERTIES ImplementsSemaphore NoLostWakeUp TimedWaitReturns
CHECK_DEADLOCK FALSE
