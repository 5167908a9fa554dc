SPECIFICATION FairSpec
CONSTANTS
  Records = {r1}
  Flushes = {f1}
  Shutdowns = {s1}
  Cancellable = {f1, s1}
  BatchSize = 1
  QueueSize = 1
  Poll = Poll
  Nobody = Nobody
PROPERTIES
  CallsReturn
  EmittedIsExported
CHECK_DEADLOCK FALSE
