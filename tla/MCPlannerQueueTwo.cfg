SPECIFICATION Spec
CONSTANTS
  Size = 4
  RecalcEvery = 2
  printer = printer
  ui = ui
  Nobody = Nobody
  Callers <- TwoCallers
  Ops <- TwoOps
  Priority <- TwoPriority
  SegmentCounts = {1, 4}
INVARIANT
  UnitsBounded
CHECK_DEADLOCK FALSE
