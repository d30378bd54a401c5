SPECIFICATION FairSpec
CONSTANTS
  a = a
  b = b
  s = s
  Sentinel = s
  Bytes <- MCBytes
  Chunks <- MCChunks
  MaxReceived = 6
INVARIANTS
  BufferIsRest
PROPERTIES
  ImplementsStream
  PacketsHandedOver
CHECK_DEADLOCK FALSE
