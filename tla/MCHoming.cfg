CONSTANTS
  NumJoints = 2
  NumExtruders = 1
  Stroke = 6
  Endstops <- MCEndstops
  SearchVel <- MCSearchVel
  LatchVel <- MCLatchVel
  HomePos <- MCHomePos
  SequencesOf <- MCSequencesOf
  Wirings <- MCWirings
  Starts <- MCStarts
  Moves <- MCMoves
  Pace = 6
  Masks <- MCMasks
  SearchTravel = 11
  LatchTravel = 8
  MinTicks = 3
  MaxTicks = 3
  Room = 2
  MaxHomings = 2
  MaxMoves = 1
  MaxStops = 1
  NaN = NaN
SPECIFICATION FairSpec
CHECK_DEADLOCK FALSE
INVARIANTS
  TypeOK
  HomedAccurate
  SwitchRespected
  OneSequenceMoves
PROPERTIES
  NoSpuriousStop
  HomingEnds
