----------------------------- MODULE RouterSpec -----------------------------
(***************************************************************************)
(* A Router with its network interfaces.  Routes are added first; then     *)
(* datagrams and ARP replies arrive at the interfaces and route() is       *)
(* called at any time.  The frames sent stay in frames_out, so what has    *)
(* become of a datagram can be read off the interfaces.                    *)
(*                                                                         *)
(* History variables: added has the arguments of the add_route() calls and *)
(* arrived the datagrams received, with the interface they came from.      *)
(***************************************************************************)
EXTENDS Router

CONSTANTS Interfaces,           \* how many
          RouteArguments,       \* the arguments add_route() may be given
          MaxRoutes, MaxDatagrams, MaxTtl

OwnAddress(n) == <<"router", n>>
AddressOf(ip) == <<"host", ip>>

Datagram == [id : 1..MaxDatagrams, dst : IpAddress, ttl : 0..MaxTtl]

\* The host ip answers a request of interface n.
Reply(n, ip) ==
  [opcode |-> "reply", sender_ethernet_address |-> AddressOf(ip), sender_ip_address |-> ip,
   target_ethernet_address |-> OwnAddress(n), target_ip_address |-> <<"router", n>>]

ASSUME RouterSpecAssumption ==
  /\ Interfaces \in Nat /\ MaxDatagrams \in Nat /\ MaxTtl \in Nat
  /\ RouteArguments \subseteq
       [route_prefix : IpAddress, prefix_length : 0..PREFIX_MAX_BITS,
        next_hop : IpAddress \cup {Direct}, interface_num : 1..Interfaces]
  /\ Malformed \notin Datagram
  /\ \A n \in 1..Interfaces, ip \in IpAddress : Malformed # Reply(n, ip)

VARIABLES router, added, arrived

vars == <<router, added, arrived>>

Init ==
  /\ router = NewRouter([n \in 1..Interfaces |->
                           NewAsyncNetworkInterface(OwnAddress(n), <<"router", n>>)])
  /\ added = <<>> /\ arrived = <<>>

AddRoute(a) ==
  /\ arrived = <<>> /\ Len(added) < MaxRoutes
  /\ router' \in add_route(router, a.route_prefix, a.prefix_length, a.next_hop, a.interface_num)
  /\ added' = Append(added, a)
  /\ UNCHANGED arrived

RecvFrame(n, frame) ==
  router' = [router EXCEPT !.interfaces[n] = async_recv_frame(@, frame)]

\* A datagram arrives at interface n, in a frame for it.
RecvDatagram(n, dst, ttl) ==
  LET dgram == [id |-> Len(arrived) + 1, dst |-> dst, ttl |-> ttl]
  IN  /\ Len(arrived) < MaxDatagrams
      /\ RecvFrame(n, [src |-> AddressOf(dst), dst |-> OwnAddress(n), type |-> "IPv4",
                       payload |-> dgram])
      /\ arrived' = Append(arrived, [dst |-> dst, ttl |-> ttl, at |-> n])
      /\ UNCHANGED added

\* The reply to a request that interface n has sent.
RecvReply(n, ip) ==
  /\ ip \in DOMAIN router.interfaces[n].arp_message_timers
  /\ RecvFrame(n, [src |-> AddressOf(ip), dst |-> OwnAddress(n), type |-> "ARP",
                   payload |-> Reply(n, ip)])
  /\ UNCHANGED <<added, arrived>>

Route == router' = route(router) /\ UNCHANGED <<added, arrived>>

Next ==
  \/ \E a \in RouteArguments : AddRoute(a)
  \/ \E n \in 1..Interfaces, dst \in IpAddress, ttl \in 0..MaxTtl : RecvDatagram(n, dst, ttl)
  \/ \E n \in 1..Interfaces, ip \in IpAddress : RecvReply(n, ip)
  \/ Route

Spec == Init /\ [][Next]_vars
-----------------------------------------------------------------------------
\* The frames in which interface i has sent a datagram to the next hop ip, what
\* it holds back for ip, and the datagrams of both.
Sent(i, ip) ==
  {k \in DOMAIN i.frames_out :
     i.frames_out[k].type = "IPv4" /\ i.frames_out[k].dst = AddressOf(ip)}
Held(i, ip) == IF ip \in DOMAIN i.datagram_queue THEN i.datagram_queue[ip] ELSE <<>>
Forwarded(i, ip) == {i.frames_out[k].payload : k \in Sent(i, ip)} \cup Range(Held(i, ip))

\* The first bits of a and b agree.
SamePrefix(a, b, length) ==
  LET weight == 2^(PREFIX_MAX_BITS - length)
  IN  a \div weight = b \div weight

Matching(table, dst) ==
  {k \in DOMAIN table : SamePrefix(table[k].route_prefix, dst, table[k].prefix_length)}

\* k is the route for dst: the longest match, of equal ones the last added.
IsBest(table, k, dst) ==
  /\ k \in Matching(table, dst)
  /\ \A j \in Matching(table, dst) :
       \/ table[j].prefix_length < table[k].prefix_length
       \/ table[j].prefix_length = table[k].prefix_length /\ j <= k

\* A datagram for dst leaves from interface n for ip.
LeadsTo(table, dst, n, ip) ==
  \E k \in DOMAIN table :
    /\ IsBest(table, k, dst) /\ table[k].interface_num = n
    /\ ip = IF table[k].next_hop = Direct THEN dst ELSE table[k].next_hop

(***************************************************************************)
(* Every datagram that route() sends goes to the interface and next hop of *)
(* the longest prefix that matches its destination, whatever the order in  *)
(* which the routes were added, and its ttl is one less but never 0.       *)
(***************************************************************************)
LongestPrefixForwarding ==
  \A n \in 1..Interfaces, ip \in IpAddress : \A d \in Forwarded(router.interfaces[n], ip) :
    /\ LeadsTo(added, d.dst, n, ip)
    /\ d.dst = arrived[d.id].dst
    /\ d.ttl = arrived[d.id].ttl - 1 /\ d.ttl > 0

\* Of two datagrams that arrived at one interface d came first.
Before(log, d, e) == log[d.id].at = log[e.id].at => d.id < e.id

InOrder(i, ip, log) ==
  LET out == i.frames_out
      held == Held(i, ip)
  IN  /\ \A j, k \in Sent(i, ip) : j < k => Before(log, out[j].payload, out[k].payload)
      /\ \A j \in Sent(i, ip), k \in DOMAIN held : Before(log, out[j].payload, held[k])
      /\ \A j, k \in DOMAIN held : j < k => Before(log, held[j], held[k])

(***************************************************************************)
(* Datagrams from one interface to one next hop keep their order, and no   *)
(* datagram is sent twice, across the queues of both interfaces.           *)
(***************************************************************************)
ForwardedInOrder ==
  \A n \in 1..Interfaces, ip \in IpAddress : InOrder(router.interfaces[n], ip, arrived)

\* Why the datagram id is no longer in a queue of router r: it was sent on or is
\* held back, could not be sent on, or another one waits for the reply from its
\* next hop, or has been sent there.
Explained(r, id, table, log) ==
  \/ \E n \in 1..Interfaces, ip \in IpAddress : \E d \in Forwarded(r.interfaces[n], ip) : d.id = id
  \/ log[id].ttl <= 1 \/ Matching(table, log[id].dst) = {}
  \/ \E n \in 1..Interfaces, ip \in IpAddress :
       /\ LeadsTo(table, log[id].dst, n, ip)
       /\ \E d \in Forwarded(r.interfaces[n], ip) : d.id # id

(***************************************************************************)
(* A datagram disappears only for a reason: its ttl has run out, no route  *)
(* matches, or send_datagram() dropped it because a request for its next   *)
(* hop was pending, on behalf of another datagram, which is not lost.      *)
(***************************************************************************)
DroppedForAReason ==
  \A id \in DOMAIN arrived :
    \/ \E n \in 1..Interfaces : \E d \in Range(router.interfaces[n].datagrams_out) : d.id = id
    \/ Explained(router, id, added, arrived)
=============================================================================
