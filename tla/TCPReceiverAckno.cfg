\* Sequence numbers of 3 bits that wrap around in the middle of the stream.
SPECIFICATION Spec
CONSTANTS
  WrappingBoundary = 8
  UInt64Boundary = 64
  SizeMax = 63
  Capacity = 2
  StreamLen = 3
  Isn = 5
  MaxAge = 3
  MaxAhead = 3
  MaxPayload = 2
INVARIANT AcknoIsFirstMissing

