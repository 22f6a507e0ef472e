CONSTANTS
  Heaters = {hotend}
  Nobody = Nobody
  Ambient = 1
  Hottest = 3
  Targets <- MCTargets
  TuneTarget = 2
  Cycles = 3
  TuneFrom = 1
  Windup = 2
  Patience = 1
  NumAdcs = 1
  MaxOps = 3
  MaxTunes = 1
SPECIFICATION FairSpec
CHECK_DEADLOCK FALSE
INVARIANTS
  TypeOK
  OffWhileStopped
  ColdAfterStop
  TunerOwnsHeater
PROPERTIES
  WaitMeansReached
  WaitEnds
