SPECIFICATION Spec
CONSTANTS
  Records = {r1, r2, r3}
  Flushes = {f1}
  Shutdowns = {s1}
  Cancellable = {f1}
  BatchSize = 1
  QueueSize = 2
  Poll = Poll
  Nobody = Nobody
SYMMETRY RecordSymmetry
INVARIANTS
  InOrder
  NothingVanishes
  NoLostWakeup
  NoSendOnClosed
  FlushIsComplete
  ShutdownDrains
CHECK_DEADLOCK FALSE
