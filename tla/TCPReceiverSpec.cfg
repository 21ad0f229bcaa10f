\* Sequence numbers of 3 bits that wrap around in the middle of the stream, which
\* comes near both ends of the range of 4 bits of the absolute ones.
SPECIFICATION Spec
CONSTANTS
  WrappingBoundary = 8
  UInt64Boundary = 16
  SizeMax = 63
  Capacity = 3
  StreamLen = 10
  Isn = 5
  MaxAge = 3
  MaxAhead = 3
  MaxPayload = 3
INVARIANTS SeqnoUnwrapsClosest
PROPERTIES ImplementsReassembler AdvertisedNeverRetreats
