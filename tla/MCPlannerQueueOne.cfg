SPECIFICATION FairSpec
CONSTANTS
  Size = 5
  RecalcEvery = 3
  printer = printer
  ui = ui
  Nobody = Nobody
  Callers <- OneCaller
  Ops <- OneOps
  Priority <- OnePriority
  SegmentCounts = {1, 2, 4}
INVARIANTS
  TypeOK
  NoOverwrite
  UncommittedOnlyAfterSkip
PROPERTIES
  NoMotionWhileHalted
  ImplementsBlockQueue
  BlockedProceeds
  EstopTakesEffect
CHECK_DEADLOCK FALSE
