SPECIFICATION HistSpec
CONSTANTS
  MaxSize = 4
  MaxScale = 1
  AggLimit = 2
  AttrSets = {a, b}
  Positions <- MCPositions
  NegPositions <- MCNegPositions
  MaxMeasured = 4
INVARIANTS
  BucketsExact
  FinestScale
  LimitKept
