SPECIFICATION FairSpec
CONSTANTS
  Spans = {s1, s2}
  Unsampled = {}
  Flushers = {f1}
  Closers = {c1, c2}
  Cancellable = {}
  Processor = processor
  NoThread = none
  MaxQueueSize = 1
  MaxExportBatchSize = 2
  BlockOnQueueFull = TRUE
PROPERTIES
  CallsReturn
  EndedIsExported
CHECK_DEADLOCK FALSE
