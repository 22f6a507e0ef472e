SPECIFICATION FairSpec
CONSTANTS
  BufferSize = 1
  Clients = {"host", "ui"}
  MaxEstops = 0
PROPERTIES
  InterruptTaken
  HostServed
CHECK_DEADLOCK FALSE
