\* The sequence numbers wrap around in the middle of the stream.
SPECIFICATION Spec
CONSTANTS
  WrappingBoundary = 32
  UInt64Boundary = 64
  MAX_PAYLOAD_SIZE = 2
  MAX_RETX_ATTEMPTS = 1
  SendCapacity = 3
  StreamLen = 3
  MaxWindow = 3
  RetxTimeout = 2
  Isn = 30
  MaxMs = 2
INVARIANT NothingInFlightOnceAcked
