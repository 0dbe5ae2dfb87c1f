SPECIFICATION Spec
CONSTANTS
  PeerBytes <- MCPeerBytes
  Strings <- MCStrings
  FifoSize = 2
  MaxWritten = 4
  MaxArrived = 3
  MaxRead = 2
INVARIANTS
  TypeOK
  Configured
  DeliveredInOrder
  InputInOrder
PROPERTIES
  WritesEnd
  Delivered
CHECK_DEADLOCK FALSE
