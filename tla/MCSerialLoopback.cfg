SPECIFICATION Spec
CONSTANTS
  PeerBytes <- MCPeerBytes
  Strings <- MCStrings
  FifoSize = 2
  MaxWritten = 4
  MaxArrived = 3
  MaxRead = 2
INVARIANT LoopbackIsTemporary
CHECK_DEADLOCK FALSE
