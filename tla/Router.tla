------------------------------- MODULE Router -------------------------------
(***************************************************************************)
(* The Router and AsyncNetworkInterface classes (libsponge/router.hh, .cc).*)
(*                                                                         *)
(* An IP address is a number of PREFIX_MAX_BITS bits.  A datagram has the  *)
(* fields dst and ttl.  A router has a sequence of routes and one of       *)
(* interfaces, which are numbered from 1 (in the code, from 0).            *)
(***************************************************************************)
EXTENDS NetworkInterface, Loops

CONSTANTS PREFIX_MAX_BITS,
          Direct                \* next_hop without a value

\* (The prover does not know the second fact.)
ASSUME RouterAssumption == PREFIX_MAX_BITS \in Nat /\ 2^PREFIX_MAX_BITS \in Nat \ {0}

IpAddress == 0..(2^PREFIX_MAX_BITS - 1)

\* A NetworkInterface with the queue of the datagrams it has received.
NewAsyncNetworkInterface(ethernet_address, ip_address) ==
  Put(NewNetworkInterface(ethernet_address, ip_address), "datagrams_out", <<>>)

async_recv_frame(i, frame) ==
  LET received == recv_frame(i, frame)
  IN  [received.interface EXCEPT !.datagrams_out = @ \o received.datagrams]

NewRouter(interfaces) == [routes |-> <<>>, interfaces |-> interfaces]

\* x >> bits, of a PREFIX_MAX_BITS-bit number.  A shift by the whole width is
\* undefined in C++: it gives 0, or x where the processor masks the count.
ShiftRight(x, bits) == IF bits < PREFIX_MAX_BITS THEN {x \div 2^bits} ELSE {0, x}

\* The routers that add_route() can produce.
add_route(r, route_prefix, prefix_length, next_hop, interface_num) ==
  {[r EXCEPT !.routes = Append(@,
      [prefix |-> prefix, prefix_length |-> prefix_length,
       next_hop |-> next_hop, interface_num |-> interface_num])] :
     prefix \in ShiftRight(route_prefix, PREFIX_MAX_BITS - prefix_length)}

\* The condition on the bits of dst; what a full shift gives does not matter.
matches(route, dst) ==
  \/ route.prefix_length = 0
  \/ route.prefix \in ShiftRight(dst, PREFIX_MAX_BITS - route.prefix_length)

\* Mutant: the first match wins.
better_first(dst, found, candidate) ==
  IF found = <<>> /\ matches(candidate, dst) THEN <<candidate>> ELSE found

\* The route after one more candidate: found is nothing or the route so far.
better(dst, found, candidate) ==
  LET length == IF found = <<>> THEN 0 ELSE found[1].prefix_length
  IN  IF candidate.prefix_length >= length /\ matches(candidate, dst)
      THEN <<candidate>> ELSE found

\* The loop of route_one_datagram().
find_route(routes, dst) ==
  Iterate(LAMBDA found, candidate : better(dst, found, candidate), <<>>, routes)

\* Mutant: a datagram without a gateway is not sent on.
route_one_datagram_no_direct(r, dgram) ==
  LET found == find_route(r.routes, dgram.dst)
  IN  IF dgram.ttl <= 1 \/ found = <<>> THEN r
      ELSE IF found[1].next_hop = Direct THEN r
      ELSE [r EXCEPT !.interfaces[found[1].interface_num] =
              send_datagram(@, [dgram EXCEPT !.ttl = @ - 1], found[1].next_hop)]

route_one_datagram(r, dgram) ==
  LET found == find_route(r.routes, dgram.dst)
      hop == IF found[1].next_hop = Direct THEN dgram.dst ELSE found[1].next_hop
  IN  IF dgram.ttl <= 1 \/ found = <<>> THEN r
      ELSE [r EXCEPT !.interfaces[found[1].interface_num] =
              send_datagram(@, [dgram EXCEPT !.ttl = @ - 1], hop)]

\* Mutant: the datagrams routed stay in the queue.
route_interface_again(r, n) ==
  Iterate(route_one_datagram, r, r.interfaces[n].datagrams_out)

\* The inner loop of route(): send_datagram() adds to no datagrams_out, so the
\* queue is emptied of what it held at the start.
route_interface(r, n) ==
  [Iterate(route_one_datagram, r, r.interfaces[n].datagrams_out) EXCEPT
     !.interfaces[n].datagrams_out = <<>>]

route(r) ==
  Iterate(route_interface, r, [n \in DOMAIN r.interfaces |-> n])
=============================================================================
