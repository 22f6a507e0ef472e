SPECIFICATION FairSpec
CONSTANTS
  BufferSize = 1
  Clients = {"host"}
  MaxEstops = 0
PROPERTY
  PingPongAnswered
CHECK_DEADLOCK FALSE
