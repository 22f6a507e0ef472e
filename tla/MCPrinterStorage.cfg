SPECIFICATION Spec
CONSTANTS
  BufferSize = 1
  Clients = {"storage", "ui"}
  MaxEstops = 1
INVARIANTS
  TypeOK
  PoolConserved
PROPERTIES
  StopIsFinal
  OwnerKept
CHECK_DEADLOCK FALSE
