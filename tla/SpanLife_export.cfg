SPECIFICATION FairSpec
CONSTANTS
  Threads = {t1, t2}
  Enders = {t1, t2}
  Stoppers = {p1}
  Goroutine = g
  Sampled = TRUE
  StartBatches <- MCStart
  Batches <- MCBatches
  Codes <- MCCodes
  Limit = 2
  ValueLimit = 2
  Capacity <- MCCapacity
  MaxCalls = 3
  MaxSlack = 1
CHECK_DEADLOCK FALSE
INVARIANTS
  SnapshotKeysStable
  NewestKept
  ExporterProtected
  EndedIsExported
PROPERTIES
  ImplementsMap
  ShutdownReturns
