SPECIFICATION FairSpec
CONSTANTS
  Idle = Idle
  InitialInterval = 1
  MaxInterval = 1
  MaxElapsedTime = 2
  Throttles <- MCThrottles
  Faults = TRUE
  Flushers = {f1}
  Stoppers = {p1, p2}
  Others = {o1}
  MaxRecords = 2
CHECK_DEADLOCK FALSE
INVARIANTS
  CountedOnce
  FlushExports
  ShutdownDrains
  ClosedClientUnused
  RetryBounded
PROPERTIES
  CallsReturn
