------------------------ MODULE NetworkInterfaceSpec ------------------------
(***************************************************************************)
(* A NetworkInterface on a network with other hosts.  The owner submits    *)
(* datagrams, numbered in order, and takes the frames after every call; a  *)
(* host announces its address in ARP requests and replies, which arrive at *)
(* once or are lost, and may change its address (as the host of            *)
(* tests/net_interface.cc does); time passes in ticks.                     *)
(*                                                                         *)
(* History variables: hop is the next hop of each datagram submitted,      *)
(* accepted the datagrams sent or held back, sent those that left, in      *)
(* order; since and changed count the time since the last request for a    *)
(* host and since its last change of address, up to what is told apart.    *)
(***************************************************************************)
EXTENDS NetworkInterface, Loops

CONSTANTS Hosts, Addresses,     \* the IP and the Ethernet addresses of the others
          OwnIp, OwnAddress,
          MaxDatagrams,         \* bound on the datagrams submitted
          MaxMs                 \* the longest time between two ticks

ASSUME NetworkInterfaceSpecAssumption ==
  /\ MaxDatagrams \in Nat /\ MaxMs \in Nat
  /\ MAX_ETHERNET_CACHE_TIME + MaxMs < UInt16Boundary
  /\ RESEND_ARP_MESSAGE_TIME + MaxMs < UInt16Boundary
  /\ Malformed \notin [opcode : {"request", "reply"},
       sender_ethernet_address : Addresses, sender_ip_address : Hosts,
       target_ethernet_address : {OwnAddress, NoAddress},
       target_ip_address : Hosts \cup {OwnIp}]

VARIABLES interface, mac, hop, accepted, sent, since, changed

vars == <<interface, mac, hop, accepted, sent, since, changed>>

cache == interface.cached_ethernet_addresses
queue == interface.datagram_queue
timers == interface.arp_message_timers
frames == interface.frames_out

\* The interface after the owner has taken the frames of the last call.
taken == [interface EXCEPT !.frames_out = <<>>]

IsDatagram(frame) == frame.type = "IPv4"
IsRequest(frame) == frame.type = "ARP" /\ frame.payload.opcode = "request"

Init ==
  /\ interface = NewNetworkInterface(OwnAddress, OwnIp)
  /\ mac \in [Hosts -> Addresses]
  /\ hop = <<>> /\ accepted = {} /\ sent = <<>>
  /\ since = [ip \in Hosts |-> RESEND_ARP_MESSAGE_TIME + 1]
  /\ changed = [ip \in Hosts |-> MAX_ETHERNET_CACHE_TIME + 1]

\* The datagrams of the frames of this step are added to sent.
record(log, frame) == IF IsDatagram(frame) THEN Append(log, frame.payload) ELSE log

RecordSent == sent' = Iterate(record, sent, frames')

SendDatagram(ip) ==
  LET d == Len(hop) + 1
  IN  /\ d <= MaxDatagrams
      /\ interface' = send_datagram(taken, d, ip)
      /\ RecordSent
      /\ hop' = Append(hop, ip)
      /\ accepted' = IF ip \in DOMAIN cache \/ ip \notin DOMAIN timers
                     THEN accepted \cup {d} ELSE accepted
      /\ since' = IF \E k \in DOMAIN frames' : IsRequest(frames'[k])
                  THEN [since EXCEPT ![ip] = 0] ELSE since
      /\ UNCHANGED <<mac, changed>>

\* An ARP frame from host ip arrives, whomever it is for.
RecvArp(ip, opcode, dst, target) ==
  LET arp == [opcode |-> opcode, sender_ethernet_address |-> mac[ip],
              sender_ip_address |-> ip, target_ip_address |-> target,
              target_ethernet_address |->
                 IF opcode = "request" THEN NoAddress ELSE OwnAddress]
  IN  /\ interface' = recv_frame(taken, [src |-> mac[ip], dst |-> dst, type |-> "ARP",
                                         payload |-> arp]).interface
      /\ RecordSent
      /\ UNCHANGED <<mac, hop, accepted, since, changed>>

ChangeAddress(ip, address) ==
  /\ address # mac[ip]
  /\ mac' = [mac EXCEPT ![ip] = address]
  /\ changed' = [changed EXCEPT ![ip] = 0]
  /\ interface' = taken
  /\ UNCHANGED <<hop, accepted, sent, since>>

Advance(clock, ms, limit) ==
  [ip \in Hosts |-> IF clock[ip] + ms <= limit THEN clock[ip] + ms ELSE limit + 1]

Tick(ms) ==
  /\ interface' = tick(taken, ms)
  /\ since' = Advance(since, ms, RESEND_ARP_MESSAGE_TIME)
  /\ changed' = Advance(changed, ms, MAX_ETHERNET_CACHE_TIME)
  /\ UNCHANGED <<mac, hop, accepted, sent>>

Next ==
  \/ \E ip \in Hosts : SendDatagram(ip)
  \/ \E ip \in Hosts, opcode \in {"request", "reply"}, target \in Hosts \cup {OwnIp},
        dst \in {OwnAddress, ETHERNET_BROADCAST} \cup Addresses :
       RecvArp(ip, opcode, dst, target)
  \/ \E ip \in Hosts, address \in Addresses : ChangeAddress(ip, address)
  \/ \E ms \in 1..MaxMs : Tick(ms)

Spec == Init /\ [][Next]_vars
-----------------------------------------------------------------------------
(***************************************************************************)
(* A datagram waits only for an address that is unknown: recv_frame()      *)
(* sends what was held back when it learns, and send_datagram() holds back *)
(* nothing for a known address.                                            *)
(***************************************************************************)
KnownIsNotAwaited == DOMAIN queue \cap DOMAIN cache = {}

(***************************************************************************)
(* A datagram that send_datagram() has accepted is sent or still held back *)
(* for its own next hop, never both and never lost.                        *)
(***************************************************************************)
Custody ==
  LET held(ip) == {queue[ip][k] : k \in DOMAIN queue[ip]}
      left == {sent[k] : k \in DOMAIN sent}
  IN  /\ accepted = left \cup UNION {held(ip) : ip \in DOMAIN queue}
      /\ \A ip \in DOMAIN queue : \A d \in held(ip) : hop[d] = ip /\ d \notin left

(***************************************************************************)
(* Datagrams for one next hop leave in the order in which they were        *)
(* submitted, and none twice, whether held back or sent at once.           *)
(***************************************************************************)
SentInOrder ==
  \A j, k \in DOMAIN sent : (j < k /\ hop[sent[j]] = hop[sent[k]]) => sent[j] < sent[k]

(***************************************************************************)
(* A stale address is used for a bounded time: a datagram leaves for an    *)
(* address its next hop has, or had at most MAX_ETHERNET_CACHE_TIME ago.   *)
(* (Time counts from the first learning; a second one does not extend it.) *)
(***************************************************************************)
AddressIsRecent ==
  /\ \A ip \in DOMAIN cache :
       cache[ip].address = mac[ip] \/ changed[ip] <= cache[ip].cache_time
  /\ \A k \in DOMAIN frames : IsDatagram(frames[k]) =>
       LET ip == hop[frames[k].payload]
       IN  frames[k].dst = mac[ip] \/ changed[ip] <= MAX_ETHERNET_CACHE_TIME

(***************************************************************************)
(* The network is not flooded: a request for a host follows the one before *)
(* it by more than RESEND_ARP_MESSAGE_TIME ("pending mappings last five    *)
(* seconds").                                                              *)
(***************************************************************************)
RequestsSpaced ==
  [][\A k \in DOMAIN frames' : IsRequest(frames'[k]) =>
       since[frames'[k].payload.target_ip_address] > RESEND_ARP_MESSAGE_TIME]_vars
=============================================================================
