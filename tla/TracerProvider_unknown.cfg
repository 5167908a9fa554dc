SPECIFICATION Spec
CONSTANTS
  p1 = p1
  p2 = p2
  r1 = r1
  r2 = r2
  r3 = r3
  u1 = u1
  u2 = u2
  Processors = {p1, p2}
  Registers = {r1, r2}
  Unregisters = {u1}
  Target <- MCTarget
  Shutdowns = {}
  Flushes = {}
  Cancellable = {}
  Reentrant = {}
  WellUsed = FALSE
  NoCall = none
INVARIANTS
  OnlyTheGivenIsRemoved
CHECK_DEADLOCK FALSE
