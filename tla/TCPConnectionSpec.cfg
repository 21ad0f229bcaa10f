CONSTANTS
  UInt16Boundary = 16
  WrappingBoundary = 64
  UInt64Boundary = 4096
  SizeMax = 63
  MAX_PAYLOAD_SIZE = 1
  MAX_RETX_ATTEMPTS = 2
  Config <- MCConfig
  Workloads <- MCWorkloads
  TickMs = 5
  MaxFaults = 1
  MaxOldSyns = 1
SPECIFICATION Spec
INVARIANTS ReadIsPrefix NotBothPassive ClosedMeansDelivered
PROPERTIES FollowsDiagram BothClose AllDelivered
CHECK_DEADLOCK FALSE
