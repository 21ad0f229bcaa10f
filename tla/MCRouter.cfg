\* Addresses of two bits, two interfaces, up to three of five routes.
SPECIFICATION Spec
CONSTANTS
  RESEND_ARP_MESSAGE_TIME = 1
  MAX_ETHERNET_CACHE_TIME = 2
  UInt16Boundary = 8
  ETHERNET_BROADCAST = broadcast
  NoAddress = none
  Malformed = malformed
  PREFIX_MAX_BITS = 2
  Direct = direct
  Interfaces = 2
  RouteArguments <- SomeRoutes
  MaxRoutes = 3
  MaxDatagrams = 2
  MaxTtl = 2
INVARIANTS LongestPrefixForwarding ForwardedInOrder DroppedForAReason
