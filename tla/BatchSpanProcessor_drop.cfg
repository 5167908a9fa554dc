SPECIFICATION Spec
CONSTANTS
  Spans = {s1, s2, s3}
  Unsampled = {}
  Flushers = {f1}
  Closers = {c1}
  Cancellable = {f1, c1}
  Processor = processor
  NoThread = none
  MaxQueueSize = 2
  MaxExportBatchSize = 2
  BlockOnQueueFull = FALSE
SYMMETRY Symmetry
INVARIANTS
  ExporterContract
  FIFO
  TimerHasTicked
  FlushIsComplete
  ShutdownDrains
PROPERTIES
  ImplementsPipeline
CHECK_DEADLOCK FALSE
