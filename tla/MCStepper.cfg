CONSTANTS
  NumJoints = 2
  NumExtruders = 1
  Grain = 2
  Targets <- SomeTargets
  Velocities <- SomeVelocities
  NaN = NaN
  Acceleration = 1
  EndSpeeds = {0, 1}
  VelocityFreq = 4
  ProfilePeriod = 2
  Room = 2
  MaxBlocks = 4
  MaxTicks = 6
SPECIFICATION Spec
CHECK_DEADLOCK FALSE
INVARIANTS
  TypeOK
  OnTheLine
  OneReading
