CONSTANTS
  Lines <- MCLines
  Programs <- MCPrograms
  Windows = {1, 2}
  Room = 2
  BoxSize = 2
  MaxLosses = 2
  MaxStops = 1
  MaxPrints = 1
SPECIFICATION FairSpec
CHECK_DEADLOCK FALSE
INVARIANTS
  TypeOK
  ReceivedInOrder
  PingPongSuffices
  DecodedAsMeant
PROPERTIES
  AllReceived
