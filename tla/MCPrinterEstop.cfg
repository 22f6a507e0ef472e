SPECIFICATION Spec
CONSTANTS
  BufferSize = 1
  Clients = {"host", "ui"}
  MaxEstops = 1
INVARIANT
  EstopShown
CHECK_DEADLOCK FALSE
