CONSTANTS
  UInt16Boundary = 16
  WrappingBoundary = 64
  UInt64Boundary = 4096
  SizeMax = 63
  MAX_PAYLOAD_SIZE = 2
  MAX_RETX_ATTEMPTS = 2
  Config <- MCConfig
  PeerConfig <- MCPeerConfig
  OwnerBytes = 1
  PeerBytes = 2
  KernelBuffer = 1
  TickMs = 5
SPECIFICATION Spec
INVARIANTS EndToEnd NoCrashUnlessReset EofMeansAll DoneMeansDelivered
PROPERTIES ConnectReturns Joins
CHECK_DEADLOCK FALSE
