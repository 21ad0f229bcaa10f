SPECIFICATION Spec
CONSTANTS
  Hosts = {"c", "s", "z"}
  Server = "s"
  Client = "c"
  Ip <- MCIp
  Port <- MCPort
  Mac <- MCMac
  Kinds = {"udp", "tun", "ethernet"}
  Script <- MCScript
  Deltas = {1, 128, 255}
  MaxDamaged = 1
  MaxTicks = 1
  TickMs = 6
  RESEND_ARP_MESSAGE_TIME = 5
  MAX_ETHERNET_CACHE_TIME = 30
  UInt16Boundary = 65536
  ETHERNET_BROADCAST <- MCBroadcast
  NoAddress <- MCNoAddress
  Malformed = Malformed
INVARIANTS HandedUpWasSent IntactIsHandedUp PacketsRight
PROPERTY PeerIsFixed
CHECK_DEADLOCK FALSE
