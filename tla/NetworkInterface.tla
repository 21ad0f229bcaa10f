-------------------------- MODULE NetworkInterface --------------------------
(***************************************************************************)
(* The NetworkInterface class (libsponge/network_interface.hh, .cc): finds *)
(* the Ethernet address of the next hop with ARP, keeps what it learns for *)
(* a while, and holds a datagram back until the reply is in.               *)
(*                                                                         *)
(* The three unordered_maps are functions whose domain is the set of their *)
(* keys.  A frame has the fields src, dst, type and payload; a payload     *)
(* that does not parse is Malformed.  Both kinds of timers are uint16_t.   *)
(***************************************************************************)
EXTENDS Integers, Sequences, Functions

CONSTANTS RESEND_ARP_MESSAGE_TIME, MAX_ETHERNET_CACHE_TIME,
          UInt16Boundary,                \* 2^16
          ETHERNET_BROADCAST,
          NoAddress,                     \* EthernetAddress{}
          Malformed

ASSUME NetworkInterfaceAssumption ==
  /\ {RESEND_ARP_MESSAGE_TIME, MAX_ETHERNET_CACHE_TIME} \subseteq Nat
  /\ UInt16Boundary \in Nat
  /\ RESEND_ARP_MESSAGE_TIME < UInt16Boundary
  /\ MAX_ETHERNET_CACHE_TIME < UInt16Boundary

NewNetworkInterface(ethernet_address, ip_address) ==
  [ethernet_address |-> ethernet_address, ip_address |-> ip_address,
   frames_out |-> <<>>, cached_ethernet_addresses |-> <<>>,
   datagram_queue |-> <<>>, arp_message_timers |-> <<>>]

\* map[key] = value
Put(map, key, value) ==
  [k \in DOMAIN map \cup {key} |-> IF k = key THEN value ELSE map[k]]

\* map without key
Erase(map, key) == Restrict(map, DOMAIN map \ {key})

\* The two private send functions, for a datagram and for an ARP message.
send_frame(i, type, payload, address) ==
  [i EXCEPT !.frames_out = Append(@,
     [src |-> i.ethernet_address, dst |-> address, type |-> type, payload |-> payload])]

construct_arp_message(i, opcode, target_ethernet_address, target_ip_address) ==
  [opcode |-> opcode,
   sender_ethernet_address |-> i.ethernet_address, sender_ip_address |-> i.ip_address,
   target_ethernet_address |-> target_ethernet_address,
   target_ip_address |-> target_ip_address]

\* Mutant: a request is sent whether or not one is pending.
send_datagram_no_limit(i, dgram, next_hop) ==
  IF next_hop \in DOMAIN i.cached_ethernet_addresses
  THEN send_frame(i, "IPv4", dgram, i.cached_ethernet_addresses[next_hop].address)
  ELSE LET queue == IF next_hop \in DOMAIN i.datagram_queue
                    THEN i.datagram_queue[next_hop] ELSE <<>>
           request == construct_arp_message(i, "request", NoAddress, next_hop)
       IN  [send_frame(i, "ARP", request, ETHERNET_BROADCAST) EXCEPT
              !.datagram_queue = Put(@, next_hop, Append(queue, dgram)),
              !.arp_message_timers = Put(@, next_hop, 0)]

\* Mutant: the datagram is put at the front of the queue.
send_datagram_in_front(i, dgram, next_hop) ==
  IF next_hop \in DOMAIN i.cached_ethernet_addresses
  THEN send_frame(i, "IPv4", dgram, i.cached_ethernet_addresses[next_hop].address)
  ELSE IF next_hop \in DOMAIN i.arp_message_timers THEN i
  ELSE LET queue == IF next_hop \in DOMAIN i.datagram_queue
                    THEN i.datagram_queue[next_hop] ELSE <<>>
           request == construct_arp_message(i, "request", NoAddress, next_hop)
       IN  [send_frame(i, "ARP", request, ETHERNET_BROADCAST) EXCEPT
              !.datagram_queue = Put(@, next_hop, <<dgram>> \o queue),
              !.arp_message_timers = Put(@, next_hop, 0)]

\* A datagram for an unknown address is held back with the request for it.  One
\* that comes while a request is pending is neither sent nor held back.
send_datagram(i, dgram, next_hop) ==
  IF next_hop \in DOMAIN i.cached_ethernet_addresses
  THEN send_frame(i, "IPv4", dgram, i.cached_ethernet_addresses[next_hop].address)
  ELSE IF next_hop \in DOMAIN i.arp_message_timers THEN i
  ELSE LET queue == IF next_hop \in DOMAIN i.datagram_queue
                    THEN i.datagram_queue[next_hop] ELSE <<>>
           request == construct_arp_message(i, "request", NoAddress, next_hop)
       IN  [send_frame(i, "ARP", request, ETHERNET_BROADCAST) EXCEPT
              !.datagram_queue = Put(@, next_hop, Append(queue, dgram)),
              !.arp_message_timers = Put(@, next_hop, 0)]

\* The mapping is entered, or its address replaced: cache_time keeps running.
learn(i, arp) ==
  LET ip == arp.sender_ip_address
      cache == i.cached_ethernet_addresses
      cache_time == IF ip \in DOMAIN cache THEN cache[ip].cache_time ELSE 0
  IN  [i EXCEPT !.cached_ethernet_addresses =
         Put(cache, ip, [address |-> arp.sender_ethernet_address,
                         cache_time |-> cache_time])]

\* Mutant: what was sent stays in the queue.
send_queued_again(i, ip, address) ==
  IF ip \notin DOMAIN i.datagram_queue THEN i
  ELSE [i EXCEPT
          !.frames_out = @ \o [k \in DOMAIN i.datagram_queue[ip] |->
            [src |-> i.ethernet_address, dst |-> address, type |-> "IPv4",
             payload |-> i.datagram_queue[ip][k]]]]

\* Mutant: only the first datagram is sent before the queue is dropped.
send_queued_first(i, ip, address) ==
  IF ip \notin DOMAIN i.datagram_queue THEN i
  ELSE [send_frame(i, "IPv4", i.datagram_queue[ip][1], address) EXCEPT
          !.datagram_queue = Erase(@, ip)]

\* What was held back for ip is sent, in order.
send_queued(i, ip, address) ==
  IF ip \notin DOMAIN i.datagram_queue THEN i
  ELSE [i EXCEPT
          !.frames_out = @ \o [k \in DOMAIN i.datagram_queue[ip] |->
            [src |-> i.ethernet_address, dst |-> address, type |-> "IPv4",
             payload |-> i.datagram_queue[ip][k]]],
          !.datagram_queue = Erase(@, ip)]

\* A broadcast request for the address of the interface is answered.
reply(i, frame, arp) ==
  IF /\ frame.dst = ETHERNET_BROADCAST /\ arp.opcode = "request"
     /\ arp.target_ip_address = i.ip_address
  THEN send_frame(i, "ARP",
         construct_arp_message(i, "reply", arp.sender_ethernet_address, arp.sender_ip_address),
         arp.sender_ethernet_address)
  ELSE i

\* recv_frame() returns a datagram or nothing: here the sequence of datagrams
\* returned, with the interface after the call.
recv_frame(i, frame) ==
  LET arp == frame.payload
      sent == send_queued(learn(i, arp), arp.sender_ip_address, arp.sender_ethernet_address)
  IN  IF frame.payload = Malformed THEN [interface |-> i, datagrams |-> <<>>]
      ELSE IF frame.type = "ARP"
      THEN [interface |-> reply(sent, frame, arp), datagrams |-> <<>>]
      ELSE IF frame.type = "IPv4" /\ frame.dst = i.ethernet_address
      THEN [interface |-> i, datagrams |-> <<frame.payload>>]
      ELSE [interface |-> i, datagrams |-> <<>>]

\* Adding to a uint16_t.
later(time, ms) == (time + ms) % UInt16Boundary

\* Mutant: the entries of the cache never grow old.
tick_cache_stays(i, ms) ==
  LET timers == [ip \in DOMAIN i.arp_message_timers |-> later(i.arp_message_timers[ip], ms)]
  IN  [i EXCEPT !.arp_message_timers =
         Restrict(timers, {ip \in DOMAIN timers : timers[ip] <= RESEND_ARP_MESSAGE_TIME})]

tick(i, ms) ==
  LET timers == [ip \in DOMAIN i.arp_message_timers |-> later(i.arp_message_timers[ip], ms)]
      cache == [ip \in DOMAIN i.cached_ethernet_addresses |->
                  [i.cached_ethernet_addresses[ip] EXCEPT !.cache_time = later(@, ms)]]
  IN  [i EXCEPT
         !.arp_message_timers =
            Restrict(timers, {ip \in DOMAIN timers : timers[ip] <= RESEND_ARP_MESSAGE_TIME}),
         !.cached_ethernet_addresses =
            Restrict(cache, {ip \in DOMAIN cache :
                               cache[ip].cache_time <= MAX_ETHERNET_CACHE_TIME})]
=============================================================================
