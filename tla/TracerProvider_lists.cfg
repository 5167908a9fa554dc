SPECIFICATION FairSpec
CONSTANTS
  p1 = p1
  p2 = p2
  r1 = r1
  r2 = r2
  r3 = r3
  u1 = u1
  u2 = u2
  Processors = {p1, p2}
  Registers = {r1, r2, r3}
  Unregisters = {u1}
  Target <- MCTarget
  Shutdowns = {s1, s2}
  Flushes = {f1}
  Cancellable = {f1, s1}
  Reentrant = {p2}
  WellUsed = TRUE
  NoCall = none
INVARIANTS
  NoRegistrationLost
  ShutdownIsFinal
  ShutdownOrder
PROPERTIES
  CallsReturn
CHECK_DEADLOCK FALSE
