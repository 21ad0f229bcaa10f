\* Two hosts, two addresses each may have, timeouts and ticks scaled down.
SPECIFICATION Spec
CONSTANTS
  RESEND_ARP_MESSAGE_TIME = 1
  MAX_ETHERNET_CACHE_TIME = 2
  UInt16Boundary = 8
  ETHERNET_BROADCAST = broadcast
  NoAddress = none
  Malformed = malformed
  Hosts = {h1, h2}
  Addresses = {e1, e2}
  OwnIp = ip
  OwnAddress = e0
  MaxDatagrams = 3
  MaxMs = 2
INVARIANTS KnownIsNotAwaited Custody SentInOrder AddressIsRecent
PROPERTY RequestsSpaced
SYMMETRY Symmetry
