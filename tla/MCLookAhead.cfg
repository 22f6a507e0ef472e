SPECIFICATION Spec
CONSTANTS
  Capacity = 3
  RecalcEvery = 2
  SegmentCounts = {1, 3}
  Moves <- SomeMoves
INVARIANTS
  TypeOK
  CornerRespected
  ProfileCurrent
PROPERTIES
  KeepsPlan
  StopsBeforeTheEnd
  OverspeedOnlyOnReversal
CHECK_DEADLOCK FALSE
CONSTRAINT
  OneTrouble
