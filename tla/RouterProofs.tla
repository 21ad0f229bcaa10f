----------------------------- MODULE RouterProofs -----------------------------
(***************************************************************************)
(* The invariants of RouterSpec hold for every number of interfaces, every *)
(* routing table, any number of datagrams and every width of addresses.    *)
(***************************************************************************)
EXTENDS RouterSpec, SequenceTheorems, TLAPS

\* Interface n with these members.
Interface(n, f, c, q, t, o) ==
  [ethernet_address |-> OwnAddress(n), ip_address |-> <<"router", n>>, frames_out |-> f,
   cached_ethernet_addresses |-> c, datagram_queue |-> q, arp_message_timers |-> t,
   datagrams_out |-> o]

\* The frames that interface n sends: datagrams and requests.
Data(n, ip, d) ==
  [src |-> OwnAddress(n), dst |-> AddressOf(ip), type |-> "IPv4", payload |-> d]
Request(n, ip) ==
  [src |-> OwnAddress(n), dst |-> ETHERNET_BROADCAST, type |-> "ARP",
   payload |->
     [opcode |-> "request", sender_ethernet_address |-> OwnAddress(n),
      sender_ip_address |-> <<"router", n>>, target_ethernet_address |-> NoAddress,
      target_ip_address |-> ip]]
Frame(n) ==
  {Data(n, ip, d) : ip \in IpAddress, d \in Datagram} \cup {Request(n, ip) : ip \in IpAddress}

(***************************************************************************)
(* What holds of interface n by itself: nothing waits for a known address, *)
(* and a request was made on behalf of a datagram that is still held back  *)
(* or has been sent.                                                       *)
(***************************************************************************)
Node(n, i) ==
  /\ i = Interface(n, i.frames_out, i.cached_ethernet_addresses, i.datagram_queue,
                   i.arp_message_timers, i.datagrams_out)
  /\ i.frames_out \in Seq(Frame(n)) /\ i.datagrams_out \in Seq(Datagram)
  /\ \A ip \in DOMAIN i.cached_ethernet_addresses :
       i.cached_ethernet_addresses[ip].address = AddressOf(ip)
  /\ \A ip \in DOMAIN i.datagram_queue : i.datagram_queue[ip] \in Seq(Datagram)
  /\ DOMAIN i.datagram_queue \cap DOMAIN i.cached_ethernet_addresses = {}
  /\ \A ip \in DOMAIN i.arp_message_timers : Forwarded(i, ip) # {}

\* The datagram d is rightly sent from interface n to ip.
Right(d, n, ip, table, log) ==
  /\ d \in Datagram /\ d.id \in DOMAIN log /\ d.dst = log[d.id].dst
  /\ LeadsTo(table, d.dst, n, ip)
  /\ d.ttl = log[d.id].ttl - 1 /\ d.ttl > 0

\* The queue of interface n holds datagrams that arrived there, in order.
Arrived(n, queue, log) ==
  /\ \A k \in DOMAIN queue :
       /\ queue[k].id \in DOMAIN log /\ log[queue[k].id].at = n
       /\ queue[k].dst = log[queue[k].id].dst /\ queue[k].ttl = log[queue[k].id].ttl
  /\ \A j, k \in DOMAIN queue : j < k => queue[j].id < queue[k].id

\* What holds of interface n.
Sound(n, i, table, log) ==
  /\ Node(n, i) /\ Arrived(n, i.datagrams_out, log)
  /\ \A ip \in IpAddress :
       InOrder(i, ip, log) /\ \A d \in Forwarded(i, ip) : Right(d, n, ip, table, log)

Prefix == UNION {ShiftRight(x, PREFIX_MAX_BITS - length) :
                   x \in IpAddress, length \in 0..PREFIX_MAX_BITS}
RouteRecord ==
  [prefix : Prefix, prefix_length : 0..PREFIX_MAX_BITS,
   next_hop : IpAddress \cup {Direct}, interface_num : 1..Interfaces]

\* The routes are those added.
Tabled(routes, table) ==
  /\ routes \in Seq(RouteRecord) /\ table \in Seq(RouteArguments) /\ Len(routes) = Len(table)
  /\ \A k \in DOMAIN table :
       /\ routes[k].prefix \in
            ShiftRight(table[k].route_prefix, PREFIX_MAX_BITS - table[k].prefix_length)
       /\ routes[k].prefix_length = table[k].prefix_length
       /\ routes[k].next_hop = table[k].next_hop
       /\ routes[k].interface_num = table[k].interface_num

\* The j-th datagram in the queue of interface p is still to be routed when
\* route() has handled the first k of interface m.
Waits(r, p, j, m, k) == j \in DOMAIN r.interfaces[p].datagrams_out /\ (p = m => j > k)

\* All that interface i has sent on came before e.
Ahead(i, e, log) == \A ip \in IpAddress : \A d \in Forwarded(i, ip) : Before(log, d, e)

Shaped(r) ==
  /\ r = [routes |-> r.routes, interfaces |-> r.interfaces]
  /\ r.interfaces = [n \in 1..Interfaces |-> r.interfaces[n]]

(***************************************************************************)
(* A router in the midst of route(), or, with k = 0, between two calls.    *)
(* What is sent on must have come before all that still waits, otherwise   *)
(* the next step of the loop would send it out of order; and it is what    *)
(* makes the datagram on whose behalf another one is dropped another one.  *)
(***************************************************************************)
Routing(r, m, k, table, log) ==
  /\ Shaped(r) /\ Tabled(r.routes, table)
  /\ \A n \in 1..Interfaces : Sound(n, r.interfaces[n], table, log)
  /\ \A n, p \in 1..Interfaces : \A j \in DOMAIN r.interfaces[p].datagrams_out :
       Waits(r, p, j, m, k) => Ahead(r.interfaces[n], r.interfaces[p].datagrams_out[j], log)
  /\ \A id \in DOMAIN log :
       \/ Explained(r, id, table, log)
       \/ \E p \in 1..Interfaces : \E j \in DOMAIN r.interfaces[p].datagrams_out :
            Waits(r, p, j, m, k) /\ r.interfaces[p].datagrams_out[j].id = id

Arrival == [dst : IpAddress, ttl : 0..MaxTtl, at : 1..Interfaces]

\* The inductive invariant.
IInv ==
  /\ arrived \in Seq(Arrival) /\ Len(arrived) <= MaxDatagrams
  /\ Routing(router, 0, 0, added, arrived)

-----------------------------------------------------------------------------
\* The types of the constants.
LEMMA Constants ==
  /\ PREFIX_MAX_BITS \in Nat /\ Interfaces \in Nat /\ MaxDatagrams \in Nat /\ MaxTtl \in Nat
  /\ RouteArguments \subseteq
       [route_prefix : IpAddress, prefix_length : 0..PREFIX_MAX_BITS,
        next_hop : IpAddress \cup {Direct}, interface_num : 1..Interfaces]
BY RouterAssumption, RouterSpecAssumption

\* The members of Interface(...).
LEMMA Members ==
  ASSUME NEW n, NEW f, NEW c, NEW q, NEW t, NEW o
  PROVE  LET i == Interface(n, f, c, q, t, o)
         IN  /\ i.ethernet_address = OwnAddress(n) /\ i.ip_address = <<"router", n>>
             /\ i.frames_out = f /\ i.cached_ethernet_addresses = c /\ i.datagram_queue = q
             /\ i.arp_message_timers = t /\ i.datagrams_out = o
BY DEF Interface

\* send_frame() adds a frame.
LEMMA SendFrame ==
  ASSUME NEW n, NEW f, NEW c, NEW q, NEW t, NEW o, NEW type, NEW payload, NEW address
  PROVE  send_frame(Interface(n, f, c, q, t, o), type, payload, address)
           = Interface(n, Append(f, [src |-> OwnAddress(n), dst |-> address, type |-> type,
                                     payload |-> payload]), c, q, t, o)
<1> DEFINE frame == [src |-> OwnAddress(n), dst |-> address, type |-> type, payload |-> payload]
           g == Append(f, frame)
           i == Interface(n, f, c, q, t, o)
<1>1. i.ethernet_address = OwnAddress(n) /\ i.frames_out = f
  BY DEF Interface
<1>2. [i EXCEPT !.frames_out = g] = Interface(n, g, c, q, t, o)
  <2> HIDE DEF g
  <2> QED BY DEF Interface
<1> HIDE DEF i
<1>3. send_frame(i, type, payload, address) = [i EXCEPT !.frames_out = g]
  BY <1>1 DEF send_frame
<1> QED BY <1>2, <1>3 DEF i

\* send_datagram() sends, does nothing, or asks and holds back.
LEMMA SendCases ==
  ASSUME NEW n, NEW i, Node(n, i), NEW d, NEW ip
  PROVE  LET j == send_datagram(i, d, ip)
             f == i.frames_out
             c == i.cached_ethernet_addresses
             q == i.datagram_queue
             t == i.arp_message_timers
             o == i.datagrams_out
         IN  /\ ip \in DOMAIN c => j = Interface(n, Append(f, Data(n, ip, d)), c, q, t, o)
             /\ ip \notin DOMAIN c /\ ip \in DOMAIN t => j = i
             /\ ip \notin DOMAIN c /\ ip \notin DOMAIN t =>
                  j = Interface(n, Append(f, Request(n, ip)), c,
                                Put(q, ip, Append(Held(i, ip), d)), Put(t, ip, 0), o)
<1> DEFINE f == i.frames_out
           c == i.cached_ethernet_addresses
           q == i.datagram_queue
           t == i.arp_message_timers
           o == i.datagrams_out
           j == send_datagram(i, d, ip)
           held == Held(i, ip)
           x == Put(q, ip, Append(held, d))
           y == Put(t, ip, 0)
           message == construct_arp_message(i, "request", NoAddress, ip)
<1>1. i = Interface(n, f, c, q, t, o) /\ (ip \in DOMAIN c => c[ip].address = AddressOf(ip))
  BY Zenon DEF Node
<1>2. i.ethernet_address = OwnAddress(n) /\ i.ip_address = <<"router", n>>
  <2> HIDE DEF f, c, q, t, o
  <2>1. /\ Interface(n, f, c, q, t, o).ethernet_address = OwnAddress(n)
        /\ Interface(n, f, c, q, t, o).ip_address = <<"router", n>>
    BY DEF Interface
  <2> QED BY <1>1, <2>1
<1>3. \A type, payload, address :
        send_frame(i, type, payload, address)
          = Interface(n, Append(f, [src |-> OwnAddress(n), dst |-> address, type |-> type,
                                    payload |-> payload]), c, q, t, o)
  <2> HIDE DEF f, c, q, t, o
  <2> SUFFICES ASSUME NEW type, NEW payload, NEW address
               PROVE  send_frame(i, type, payload, address)
                        = Interface(n, Append(f, [src |-> OwnAddress(n), dst |-> address,
                                                  type |-> type, payload |-> payload]), c, q, t, o)
    OBVIOUS
  <2>1. send_frame(Interface(n, f, c, q, t, o), type, payload, address)
          = Interface(n, Append(f, [src |-> OwnAddress(n), dst |-> address,
                                    type |-> type, payload |-> payload]), c, q, t, o)
    BY SendFrame
  <2> QED BY <1>1, <2>1
<1>4. ip \in DOMAIN c => j = Interface(n, Append(f, Data(n, ip, d)), c, q, t, o)
  <2> SUFFICES ASSUME ip \in DOMAIN c
               PROVE  j = Interface(n, Append(f, Data(n, ip, d)), c, q, t, o)
    OBVIOUS
  <2>1. j = send_frame(i, "IPv4", d, c[ip].address)
    BY Zenon DEF send_datagram
  <2>2. c[ip].address = AddressOf(ip)
    BY <1>1
  <2> QED BY <2>1, <2>2, <1>3, Zenon DEF Data
<1>5. ip \notin DOMAIN c /\ ip \in DOMAIN t => j = i
  BY Zenon DEF send_datagram
<1>6. ASSUME ip \notin DOMAIN c, ip \notin DOMAIN t
      PROVE  j = Interface(n, Append(f, Request(n, ip)), c, x, y, o)
  <2> DEFINE g == Append(f, Request(n, ip))
             s == send_frame(i, "ARP", message, ETHERNET_BROADCAST)
  <2>1. s = Interface(n, g, c, q, t, o)
    BY <1>2, <1>3, Zenon DEF construct_arp_message, Request
  <2>2. j = [s EXCEPT !.datagram_queue = Put(@, ip, Append(held, d)),
                      !.arp_message_timers = Put(@, ip, 0)]
    BY <1>6, Zenon DEF send_datagram, Held
  <2>3. s.datagram_queue = q /\ s.arp_message_timers = t
    <3> HIDE DEF f, c, q, t, o, s, g
    <3>1. /\ Interface(n, g, c, q, t, o).datagram_queue = q
          /\ Interface(n, g, c, q, t, o).arp_message_timers = t
      BY DEF Interface
    <3> QED BY <2>1, <3>1
  <2> HIDE DEF s
  <2>4. j = [s EXCEPT !.datagram_queue = x, !.arp_message_timers = y]
    BY <2>2, <2>3
  <2> HIDE DEF x, y, g
  <2>5. [Interface(n, g, c, q, t, o) EXCEPT !.datagram_queue = x] = Interface(n, g, c, x, t, o)
    BY DEF Interface
  <2>6. [Interface(n, g, c, x, t, o) EXCEPT !.arp_message_timers = y]
          = Interface(n, g, c, x, y, o)
    BY DEF Interface
  <2> HIDE DEF f, c, q, t, o, j
  <2>7. j = Interface(n, g, c, x, y, o)
    BY <2>1, <2>4, <2>5, <2>6, Zenon
  <2> QED BY <2>7 DEF g
<1> QED BY <1>4, <1>5, <1>6, Zenon

\* The frames to ip after one more frame.
Grown(i, j, frame, ip) ==
  LET m == Len(i.frames_out) + 1
  IN  /\ frame.type = "IPv4" /\ frame.dst = AddressOf(ip) => Sent(j, ip) = Sent(i, ip) \cup {m}
      /\ ~(frame.type = "IPv4" /\ frame.dst = AddressOf(ip)) => Sent(j, ip) = Sent(i, ip)
      /\ j.frames_out[m] = frame /\ m \in Nat
      /\ \A k \in Sent(i, ip) : j.frames_out[k] = i.frames_out[k] /\ k \in Nat /\ k < m

\* One more frame is that.
LEMMA SentAppend ==
  ASSUME NEW S, NEW i, i.frames_out \in Seq(S), NEW frame \in S, NEW j,
         j.frames_out = Append(i.frames_out, frame), NEW ip
  PROVE  Grown(i, j, frame, ip)
<1> DEFINE f == i.frames_out
           g == j.frames_out
           m == Len(f) + 1
           To(x) == x.type = "IPv4" /\ x.dst = AddressOf(ip)
<1>1. /\ Len(f) \in Nat /\ DOMAIN f = 1..Len(f) /\ m \in Nat
      /\ DOMAIN g = 1..m /\ g[m] = frame /\ \A k \in 1..Len(f) : g[k] = f[k]
  <2> HIDE DEF f, g, m
  <2>1. f \in Seq(S) /\ g = Append(f, frame)
    BY DEF f, g
  <2> QED BY <2>1 DEF m
<1>2. Sent(i, ip) = {k \in DOMAIN f : To(f[k])} /\ Sent(j, ip) = {k \in DOMAIN g : To(g[k])}
  BY Zenon DEF Sent
<1> HIDE DEF f, g, To
<1>3. 1..m = (1..Len(f)) \cup {m} /\ m \notin 1..Len(f)
  BY <1>1 DEF m
<1>4. \A k \in 1..Len(f) : k \in Nat /\ k < m
  BY <1>1 DEF m
<1> HIDE DEF m
<1>5. \A k \in Sent(i, ip) : g[k] = f[k] /\ k \in Nat /\ k < m
  BY <1>1, <1>2, <1>4
<1>6. To(frame) => Sent(j, ip) = Sent(i, ip) \cup {m}
  BY <1>1, <1>2, <1>3
<1>7. ~To(frame) => Sent(j, ip) = Sent(i, ip)
  BY <1>1, <1>2, <1>3
<1> QED BY <1>1, <1>5, <1>6, <1>7, Zenon DEF Grown, f, g, m, To

\* d comes last of what j has sent on to ip; nothing has changed for ip.
Last(i, j, d, ip, log) ==
  InOrder(j, ip, log) /\ Forwarded(j, ip) = Forwarded(i, ip) \cup {d}
Kept(i, j, ip, log) ==
  Forwarded(j, ip) = Forwarded(i, ip) /\ (InOrder(i, ip, log) => InOrder(j, ip, log))

\* What an interface has sent on is the same after a step that is about others.
LEMMA SameForwarded ==
  ASSUME NEW i, NEW j, NEW ip, NEW log, Sent(j, ip) = Sent(i, ip), Held(j, ip) = Held(i, ip),
         \A k \in Sent(i, ip) : j.frames_out[k].payload = i.frames_out[k].payload
  PROVE  Kept(i, j, ip, log)
<1>1. Forwarded(j, ip) = Forwarded(i, ip)
  <2>1. {j.frames_out[k].payload : k \in Sent(i, ip)} = {i.frames_out[k].payload : k \in Sent(i, ip)}
    OBVIOUS
  <2>2. /\ Forwarded(i, ip) = {i.frames_out[k].payload : k \in Sent(i, ip)} \cup Range(Held(i, ip))
        /\ Forwarded(j, ip) = {j.frames_out[k].payload : k \in Sent(i, ip)} \cup Range(Held(i, ip))
    BY DEF Forwarded
  <2> QED BY <2>1, <2>2
<1>2. InOrder(i, ip, log) => InOrder(j, ip, log)
  BY DEF InOrder
<1> QED BY <1>1, <1>2 DEF Kept

\* The elements of what is held back after one more.
LEMMA HeldAppend ==
  ASSUME NEW T, NEW s \in Seq(T), NEW d \in T
  PROVE  LET m == Len(s) + 1
         IN  /\ DOMAIN Append(s, d) = DOMAIN s \cup {m} /\ Append(s, d)[m] = d /\ m \in Nat
             /\ \A k \in DOMAIN s : Append(s, d)[k] = s[k] /\ k \in Nat /\ k < m
             /\ Range(Append(s, d)) = Range(s) \cup {d} /\ Append(s, d) \in Seq(T)
<1> DEFINE m == Len(s) + 1
           t == Append(s, d)
<1>1. /\ Len(s) \in Nat /\ DOMAIN s = 1..Len(s) /\ DOMAIN t = 1..m /\ t[m] = d
      /\ t \in Seq(T) /\ \A k \in 1..Len(s) : t[k] = s[k]
  OBVIOUS
<1>2. m \in Nat /\ 1..m = (1..Len(s)) \cup {m} /\ \A k \in 1..Len(s) : k \in Nat /\ k < m
  BY <1>1
<1> HIDE DEF m, t
<1>3. Range(t) = Range(s) \cup {d}
  BY <1>1, <1>2 DEF Range
<1> QED BY <1>1, <1>2, <1>3 DEF m, t

\* A datagram that is sent at once comes last.
LEMMA SentLast ==
  ASSUME NEW n, NEW i, Node(n, i), NEW d \in Datagram, NEW ip \in IpAddress, NEW log,
         NEW j, j.frames_out = Append(i.frames_out, Data(n, ip, d)),
         j.datagram_queue = i.datagram_queue, ip \in DOMAIN i.cached_ethernet_addresses,
         InOrder(i, ip, log), Ahead(i, d, log)
  PROVE  Last(i, j, d, ip, log)
<1> DEFINE f == i.frames_out
           g == j.frames_out
           m == Len(f) + 1
           frame == Data(n, ip, d)
           none == <<>>
<1>1. f \in Seq(Frame(n)) /\ frame \in Frame(n)
  BY DEF Node, Frame
<1>2. frame.type = "IPv4" /\ frame.dst = AddressOf(ip) /\ frame.payload = d
  BY DEF Data
<1>3. Held(i, ip) = none /\ Held(j, ip) = none
  BY DEF Node, Held
<1> HIDE DEF frame
<1>4. /\ Sent(j, ip) = Sent(i, ip) \cup {m} /\ g[m] = frame /\ m \in Nat
      /\ \A k \in Sent(i, ip) : g[k] = f[k] /\ k \in Nat /\ k < m
  <2>1. g = Append(f, frame)
    BY DEF frame
  <2>2. Grown(i, j, frame, ip)
    BY <1>1, <2>1, SentAppend, Zenon
  <2> QED BY <1>2, <2>2, Zenon DEF Grown
<1> HIDE DEF f, g, m
<1>5. DOMAIN none = {} /\ Range(none) = {}
  BY DEF Range
<1> HIDE DEF none
<1>6. /\ Forwarded(i, ip) = {f[k].payload : k \in Sent(i, ip)}
      /\ Forwarded(j, ip) = {g[k].payload : k \in Sent(j, ip)}
  BY <1>3, <1>5 DEF Forwarded, f, g
<1>7. Forwarded(j, ip) = Forwarded(i, ip) \cup {d}
  BY <1>2, <1>4, <1>6
<1>8. \A k \in Sent(i, ip) : Before(log, f[k].payload, d)
  BY <1>6 DEF Ahead
<1>9. ASSUME NEW k \in Sent(j, ip), NEW l \in Sent(j, ip), k < l
      PROVE  Before(log, g[k].payload, g[l].payload)
  <2>1. CASE l = m
    <3>1. k \in Sent(i, ip)
      BY <1>4, <1>9, <2>1
    <3> QED BY <3>1, <2>1, <1>2, <1>4, <1>8, Zenon
  <2>2. CASE l # m
    <3>1. l \in Sent(i, ip) /\ k \in Sent(i, ip)
      BY <1>4, <1>9, <2>2
    <3>2. Before(log, f[k].payload, f[l].payload)
      BY <1>9, <3>1 DEF InOrder, f
    <3> QED BY <3>1, <3>2, <1>4
  <2> QED BY <2>1, <2>2
<1>10. InOrder(j, ip, log)
  BY <1>3, <1>5, <1>9, Zenon DEF InOrder, g
<1> QED BY <1>7, <1>10 DEF Last

\* One that is held back does, too.
LEMMA HeldLast ==
  ASSUME NEW n, NEW i, Node(n, i), NEW d \in Datagram, NEW ip \in IpAddress, NEW log,
         NEW j, j.frames_out = Append(i.frames_out, Request(n, ip)),
         j.datagram_queue = Put(i.datagram_queue, ip, Append(Held(i, ip), d)),
         InOrder(i, ip, log), Ahead(i, d, log)
  PROVE  Last(i, j, d, ip, log)
<1> DEFINE f == i.frames_out
           g == j.frames_out
           s == Held(i, ip)
           t == Append(s, d)
           m == Len(s) + 1
           frame == Request(n, ip)
<1>1. f \in Seq(Frame(n)) /\ frame \in Frame(n) /\ frame.type # "IPv4"
  <2>1. frame.type # "IPv4"
    BY DEF Request
  <2> QED BY <2>1 DEF Node, Frame
<1>2. Held(j, ip) = t
  BY DEF Held, Put
<1>3. s \in Seq(Datagram)
  BY DEF Node, Held
<1> HIDE DEF frame
<1>4. Sent(j, ip) = Sent(i, ip) /\ \A k \in Sent(i, ip) : g[k] = f[k]
  <2>1. g = Append(f, frame)
    BY DEF frame
  <2>2. Grown(i, j, frame, ip)
    BY <1>1, <2>1, SentAppend, Zenon
  <2> QED BY <1>1, <2>2, Zenon DEF Grown
<1> HIDE DEF s, t
<1>5. /\ DOMAIN t = DOMAIN s \cup {m} /\ t[m] = d /\ m \in Nat /\ Range(t) = Range(s) \cup {d}
      /\ \A k \in DOMAIN s : t[k] = s[k] /\ k \in Nat /\ k < m
  BY <1>3, HeldAppend DEF t
<1> HIDE DEF f, g, m
<1>6. /\ Forwarded(i, ip) = {f[k].payload : k \in Sent(i, ip)} \cup Range(s)
      /\ Forwarded(j, ip) = {g[k].payload : k \in Sent(j, ip)} \cup Range(t)
  BY <1>2 DEF Forwarded, f, g, s
<1>7. Forwarded(j, ip) = Forwarded(i, ip) \cup {d}
  BY <1>4, <1>5, <1>6
<1>8. /\ \A k \in Sent(i, ip) : Before(log, f[k].payload, d)
      /\ \A k \in DOMAIN s : Before(log, s[k], d)
  BY <1>6 DEF Ahead, Range
<1>9. /\ \A k, l \in Sent(i, ip) : k < l => Before(log, f[k].payload, f[l].payload)
      /\ \A k \in Sent(i, ip), l \in DOMAIN s : Before(log, f[k].payload, s[l])
      /\ \A k, l \in DOMAIN s : k < l => Before(log, s[k], s[l])
  BY Zenon DEF InOrder, f, s
<1>10. \A k, l \in Sent(j, ip) : k < l => Before(log, g[k].payload, g[l].payload)
  BY <1>4, <1>9
<1>11. \A k \in Sent(j, ip), l \in DOMAIN t : Before(log, g[k].payload, t[l])
  BY <1>4, <1>5, <1>8, <1>9
<1>12. ASSUME NEW k \in DOMAIN t, NEW l \in DOMAIN t, k < l PROVE Before(log, t[k], t[l])
  <2>1. k \in DOMAIN s
    BY <1>5, <1>12
  <2> QED BY <2>1, <1>5, <1>8, <1>9, <1>12
<1>13. InOrder(j, ip, log)
  BY <1>2, <1>10, <1>11, <1>12, Zenon DEF InOrder, g
<1> QED BY <1>7, <1>13 DEF Last

\* What send_datagram() must keep and give: e is sent on to ip, or another one is.
Delivered(i, j, e, ip, log) ==
  /\ j.datagrams_out = i.datagrams_out
  /\ \A x : x # ip => Kept(i, j, x, log)
  /\ Forwarded(j, ip) = Forwarded(i, ip) \/ Forwarded(j, ip) = Forwarded(i, ip) \cup {e}
  /\ InOrder(j, ip, log)
  /\ e \in Forwarded(j, ip) \/ (Forwarded(i, ip) # {} /\ Forwarded(j, ip) = Forwarded(i, ip))

\* What is for others is not touched by a frame for ip, or a request.
LEMMA OtherAddresses ==
  ASSUME NEW n, NEW i, Node(n, i), NEW frame \in Frame(n), NEW j, NEW ip, NEW x, NEW log,
         j.frames_out = Append(i.frames_out, frame),
         frame.type = "IPv4" => frame.dst = AddressOf(ip), x # ip, Held(j, x) = Held(i, x)
  PROVE  Kept(i, j, x, log)
<1>1. i.frames_out \in Seq(Frame(n))
  BY Zenon DEF Node
<1>2. Grown(i, j, frame, x)
  BY <1>1, SentAppend, Zenon
<1>3. AddressOf(x) # AddressOf(ip)
  BY DEF AddressOf
<1>4. ~(frame.type = "IPv4" /\ frame.dst = AddressOf(x))
  BY <1>3, Zenon
<1>5. Sent(j, x) = Sent(i, x) /\ \A k \in Sent(i, x) : j.frames_out[k] = i.frames_out[k]
  BY <1>2, <1>4, Zenon DEF Grown
<1>6. \A k \in Sent(i, x) : j.frames_out[k].payload = i.frames_out[k].payload
  BY <1>5, Zenon
<1> QED BY <1>5, <1>6, SameForwarded, Zenon

\* send_datagram() does that, and the interface stays as it must be.
LEMMA SendDelivers ==
  ASSUME NEW n, NEW i, Node(n, i), NEW e \in Datagram, NEW ip \in IpAddress, NEW log,
         InOrder(i, ip, log), Ahead(i, e, log), NEW j, j = send_datagram(i, e, ip)
  PROVE  Delivered(i, j, e, ip, log) /\ Node(n, j)
<1> DEFINE f == i.frames_out
           c == i.cached_ethernet_addresses
           q == i.datagram_queue
           t == i.arp_message_timers
           o == i.datagrams_out
<1>1. /\ ip \in DOMAIN c => j = Interface(n, Append(f, Data(n, ip, e)), c, q, t, o)
      /\ ip \notin DOMAIN c /\ ip \in DOMAIN t => j = i
      /\ ip \notin DOMAIN c /\ ip \notin DOMAIN t =>
           j = Interface(n, Append(f, Request(n, ip)), c,
                         Put(q, ip, Append(Held(i, ip), e)), Put(t, ip, 0), o)
  BY SendCases
<1>2. /\ f \in Seq(Frame(n)) /\ o \in Seq(Datagram)
      /\ \A x \in DOMAIN c : c[x].address = AddressOf(x)
      /\ \A x \in DOMAIN q : q[x] \in Seq(Datagram)
      /\ DOMAIN q \cap DOMAIN c = {}
      /\ \A x \in DOMAIN t : Forwarded(i, x) # {}
  BY Zenon DEF Node
<1>3. ASSUME NEW g, NEW p, NEW s, j = Interface(n, g, c, p, s, o)
      PROVE  /\ j = Interface(n, j.frames_out, j.cached_ethernet_addresses, j.datagram_queue,
                              j.arp_message_timers, j.datagrams_out)
             /\ j.frames_out = g /\ j.datagrams_out = o /\ j.arp_message_timers = s
             /\ j.cached_ethernet_addresses = c /\ j.datagram_queue = p
  <2> HIDE DEF f, c, q, t, o
  <2> QED BY <1>3 DEF Interface
<1>4. CASE ip \in DOMAIN c
  <2> DEFINE frame == Data(n, ip, e)
  <2>1. /\ j = Interface(n, j.frames_out, j.cached_ethernet_addresses, j.datagram_queue,
                         j.arp_message_timers, j.datagrams_out)
        /\ j.frames_out = Append(f, frame) /\ j.datagrams_out = o /\ j.arp_message_timers = t
        /\ j.cached_ethernet_addresses = c /\ j.datagram_queue = q
    BY <1>1, <1>3, <1>4, Zenon
  <2>2. frame \in Frame(n) /\ frame.dst = AddressOf(ip)
    <3>1. frame.dst = AddressOf(ip)
      BY DEF Data
    <3> QED BY <3>1 DEF Frame
  <2>3. Last(i, j, e, ip, log)
    BY <1>4, <2>1, SentLast, Zenon
  <2>4. \A x : Held(j, x) = Held(i, x)
    BY <2>1, Zenon DEF Held
  <2>5. \A x : x # ip => Kept(i, j, x, log)
    <3> HIDE DEF frame
    <3> QED BY <2>1, <2>2, <2>4, OtherAddresses, Zenon
  <2>6. Delivered(i, j, e, ip, log)
    BY <2>1, <2>3, <2>5 DEF Delivered, Last
  <2>7. \A x \in DOMAIN t : Forwarded(j, x) # {}
    BY <1>2, <2>3, <2>5 DEF Last, Kept
  <2>8. j.frames_out \in Seq(Frame(n))
    <3> HIDE DEF frame, f
    <3> QED BY <1>2, <2>1, <2>2
  <2> HIDE DEF frame, f, c, q, t, o
  <2> QED BY <1>2, <2>1, <2>6, <2>7, <2>8 DEF Node
<1>5. CASE ip \notin DOMAIN c /\ ip \in DOMAIN t
  <2>1. j = i /\ Forwarded(i, ip) # {}
    BY <1>1, <1>2, <1>5, Zenon
  <2> QED BY <2>1, Zenon DEF Delivered, Kept
<1>6. CASE ip \notin DOMAIN c /\ ip \notin DOMAIN t
  <2> DEFINE frame == Request(n, ip)
             p == Put(q, ip, Append(Held(i, ip), e))
             s == Put(t, ip, 0)
  <2>1. /\ j = Interface(n, j.frames_out, j.cached_ethernet_addresses, j.datagram_queue,
                         j.arp_message_timers, j.datagrams_out)
        /\ j.frames_out = Append(f, frame) /\ j.datagrams_out = o /\ j.arp_message_timers = s
        /\ j.cached_ethernet_addresses = c /\ j.datagram_queue = p
    BY <1>1, <1>3, <1>6, Zenon
  <2>2. frame \in Frame(n) /\ frame.type # "IPv4"
    <3>1. frame.type # "IPv4"
      BY DEF Request
    <3> QED BY <3>1 DEF Frame
  <2>3. Last(i, j, e, ip, log)
    BY <2>1, HeldLast, Zenon
  <2>4. \A x : x # ip => Held(j, x) = Held(i, x)
    BY <2>1, Zenon DEF Held, Put
  <2>5. \A x : x # ip => Kept(i, j, x, log)
    <3> HIDE DEF frame
    <3> QED BY <2>1, <2>2, <2>4, OtherAddresses, ZenonT(40)
  <2>6. Delivered(i, j, e, ip, log)
    BY <2>1, <2>3, <2>5 DEF Delivered, Last
  <2>7. \A x \in DOMAIN s : Forwarded(j, x) # {}
    <3>1. \A x \in DOMAIN s : x = ip \/ x \in DOMAIN t
      BY DEF Put
    <3> HIDE DEF s
    <3> QED BY <1>2, <2>3, <2>5, <3>1 DEF Last, Kept
  <2>8. j.frames_out \in Seq(Frame(n))
    <3> HIDE DEF frame, f
    <3> QED BY <1>2, <2>1, <2>2
  <2>9. DOMAIN p \cap DOMAIN c = {} /\ \A x \in DOMAIN p : p[x] \in Seq(Datagram)
    <3>1. DOMAIN p = DOMAIN q \cup {ip} /\ p[ip] = Append(Held(i, ip), e)
          /\ \A x \in DOMAIN q : x # ip => p[x] = q[x]
      BY DEF Put
    <3>2. Held(i, ip) \in Seq(Datagram)
      BY <1>2 DEF Held
    <3>3. p[ip] \in Seq(Datagram)
      BY <3>1, <3>2
    <3> HIDE DEF p, q, c
    <3> QED BY <1>2, <1>6, <3>1, <3>3, Zenon
  <2> HIDE DEF frame, f, c, q, t, o, p, s
  <2> QED BY <1>2, <2>1, <2>6, <2>7, <2>8, <2>9 DEF Node
<1> QED BY <1>4, <1>5, <1>6, Zenon

\* The interface after send_datagram() is as it must be.
LEMMA SendSound ==
  ASSUME NEW table, NEW log, NEW n, NEW i, Sound(n, i, table, log), NEW e, NEW ip \in IpAddress,
         Right(e, n, ip, table, log), Ahead(i, e, log), NEW j, j = send_datagram(i, e, ip)
  PROVE  Sound(n, j, table, log) /\ Delivered(i, j, e, ip, log)
<1>1. Node(n, i) /\ InOrder(i, ip, log) /\ e \in Datagram
  BY Zenon DEF Sound, Right
<1>2. Delivered(i, j, e, ip, log) /\ Node(n, j)
  BY <1>1, SendDelivers, Zenon
<1>3. Arrived(n, j.datagrams_out, log)
  BY <1>2, Zenon DEF Delivered, Sound
<1>4. ASSUME NEW x \in IpAddress
      PROVE  InOrder(j, x, log) /\ \A d \in Forwarded(j, x) : Right(d, n, x, table, log)
  <2>1. InOrder(i, x, log) /\ \A d \in Forwarded(i, x) : Right(d, n, x, table, log)
    BY Zenon DEF Sound
  <2>2. CASE x = ip
    BY <1>2, <2>1, <2>2 DEF Delivered
  <2>3. CASE x # ip
    BY <1>2, <2>1, <2>3, Zenon DEF Delivered, Kept
  <2> QED BY <2>2, <2>3
<1> QED BY <1>2, <1>3, <1>4, Zenon DEF Sound

\* Interface i with another datagrams_out.
Requeued(n, i, j, queue) ==
  Node(n, j) /\ j.datagrams_out = queue /\ \A x, log : Kept(i, j, x, log)

\* An assignment to datagrams_out is that.
LEMMA SetQueue ==
  ASSUME NEW n, NEW i, Node(n, i), NEW queue \in Seq(Datagram), NEW j,
         j = [i EXCEPT !.datagrams_out = queue]
  PROVE  Requeued(n, i, j, queue)
<1> DEFINE f == i.frames_out
           c == i.cached_ethernet_addresses
           q == i.datagram_queue
           t == i.arp_message_timers
           o == i.datagrams_out
<1>1. i = Interface(n, f, c, q, t, o)
  BY Zenon DEF Node
<1>2. /\ j = Interface(n, j.frames_out, j.cached_ethernet_addresses, j.datagram_queue,
                       j.arp_message_timers, j.datagrams_out)
      /\ j.frames_out = f /\ j.cached_ethernet_addresses = c /\ j.datagram_queue = q
      /\ j.arp_message_timers = t /\ j.datagrams_out = queue
  <2> HIDE DEF f, c, q, t, o
  <2>1. j = Interface(n, f, c, q, t, queue)
    BY <1>1, Zenon DEF Interface
  <2>2. /\ j.frames_out = f /\ j.cached_ethernet_addresses = c /\ j.datagram_queue = q
        /\ j.arp_message_timers = t /\ j.datagrams_out = queue
    <3> DEFINE y == Interface(n, f, c, q, t, queue)
    <3>1. /\ y.frames_out = f /\ y.cached_ethernet_addresses = c /\ y.datagram_queue = q
          /\ y.arp_message_timers = t /\ y.datagrams_out = queue
      BY Members
    <3>2. j = y
      BY <2>1
    <3> HIDE DEF y
    <3> QED BY <3>1, <3>2, Zenon
  <2> QED BY <2>1, <2>2, Zenon
<1>3. \A x : Sent(j, x) = Sent(i, x) /\ Held(j, x) = Held(i, x)
  BY <1>2 DEF Sent, Held
<1>4. \A x, log : Kept(i, j, x, log)
  <2>1. \A x : \A k \in Sent(i, x) : j.frames_out[k].payload = i.frames_out[k].payload
    BY <1>2
  <2> QED BY <1>3, <2>1, SameForwarded, Zenon
<1>5. \A x \in DOMAIN t : Forwarded(j, x) # {}
  BY <1>4, Zenon DEF Kept, Node
<1> QED BY <1>2, <1>4, <1>5, Zenon DEF Requeued, Node

-----------------------------------------------------------------------------
\* The cache with the address of ip.
Learned(c, ip) ==
  Put(c, ip, [address |-> AddressOf(ip),
              cache_time |-> IF ip \in DOMAIN c THEN c[ip].cache_time ELSE 0])

ReplyFrame(n, ip) ==
  [src |-> AddressOf(ip), dst |-> OwnAddress(n), type |-> "ARP", payload |-> Reply(n, ip)]

\* recv_frame() of a reply learns the address and sends what was held back.
LEMMA ReplyCases ==
  ASSUME NEW n \in 1..Interfaces, NEW i, Node(n, i), NEW ip \in IpAddress, NEW j,
         j = async_recv_frame(i, ReplyFrame(n, ip))
  PROVE  LET f == i.frames_out
             c == i.cached_ethernet_addresses
             q == i.datagram_queue
             t == i.arp_message_timers
             o == i.datagrams_out
         IN  /\ ip \notin DOMAIN q => j = Interface(n, f, Learned(c, ip), q, t, o)
             /\ ip \in DOMAIN q =>
                  j = Interface(n, f \o [k \in DOMAIN q[ip] |-> Data(n, ip, q[ip][k])],
                                Learned(c, ip), Erase(q, ip), t, o)
<1> DEFINE f == i.frames_out
           c == i.cached_ethernet_addresses
           q == i.datagram_queue
           t == i.arp_message_timers
           o == i.datagrams_out
           d == Learned(c, ip)
           g == f \o [k \in DOMAIN q[ip] |-> Data(n, ip, q[ip][k])]
           e == Erase(q, ip)
           frame == ReplyFrame(n, ip)
           arp == Reply(n, ip)
           none == <<>>
           known == learn(i, arp)
           sent == send_queued(known, ip, AddressOf(ip))
           received == recv_frame(i, frame)
<1>1. i = Interface(n, f, c, q, t, o) /\ o \in Seq(Datagram)
  BY Zenon DEF Node
<1>2. /\ arp.sender_ip_address = ip /\ arp.sender_ethernet_address = AddressOf(ip)
      /\ arp.opcode = "reply" /\ arp # Malformed
  BY RouterSpecAssumption DEF Reply
<1>3. frame.payload = arp /\ frame.type = "ARP"
  BY DEF ReplyFrame
<1>4. known = Interface(n, f, d, q, t, o)
  <2>1. known = [i EXCEPT !.cached_ethernet_addresses = d]
    BY <1>2 DEF learn, Learned
  <2> HIDE DEF f, c, q, t, o, d, known
  <2> QED BY <1>1, <2>1, Zenon DEF Interface
<1>5. /\ known.frames_out = f /\ known.datagram_queue = q /\ known.datagrams_out = o
      /\ known.ethernet_address = OwnAddress(n)
  <2> DEFINE y == Interface(n, f, d, q, t, o)
  <2>1. /\ y.frames_out = f /\ y.datagram_queue = q /\ y.datagrams_out = o
        /\ y.ethernet_address = OwnAddress(n)
    BY Members
  <2> HIDE DEF y, known
  <2> QED BY <1>4, <2>1, Zenon DEF y
<1> HIDE DEF f, c, q, t, o, d, known, frame, arp
<1>6. received = [interface |-> sent, datagrams |-> none]
  <2>1. received = [interface |-> reply(sent, frame, arp), datagrams |-> none]
    BY <1>2, <1>3, Zenon DEF recv_frame, known, arp, frame
  <2>2. reply(sent, frame, arp) = sent
    BY <1>2 DEF reply
  <2> QED BY <2>1, <2>2
<1>7. j = [sent EXCEPT !.datagrams_out = @ \o none]
  <2>1. received.interface = sent /\ received.datagrams = none
    BY <1>6
  <2> HIDE DEF received
  <2>2. j = [received.interface EXCEPT !.datagrams_out = @ \o received.datagrams]
    BY DEF async_recv_frame, received, frame
  <2> QED BY <2>1, <2>2
<1>8. o \o none = o
  BY <1>1
<1> HIDE DEF none
<1>9. ASSUME NEW a, NEW b, sent = Interface(n, a, d, b, t, o) PROVE j = sent
  <2> DEFINE y == Interface(n, a, d, b, t, o)
  <2>1. y.datagrams_out = o /\ [y EXCEPT !.datagrams_out = o] = y
    BY DEF Interface
  <2> HIDE DEF y, sent
  <2>2. sent = y
    BY <1>9 DEF y
  <2> QED BY <1>7, <1>8, <2>1, <2>2
<1>10. ip \notin DOMAIN q => j = Interface(n, f, d, q, t, o)
  <2> SUFFICES ASSUME ip \notin DOMAIN q PROVE j = Interface(n, f, d, q, t, o)
    OBVIOUS
  <2>1. sent = known
    BY <1>5, Zenon DEF send_queued
  <2> HIDE DEF sent
  <2> QED BY <1>4, <1>9, <2>1, Zenon
<1>11. ip \in DOMAIN q => j = Interface(n, g, d, e, t, o)
  <2> SUFFICES ASSUME ip \in DOMAIN q PROVE j = Interface(n, g, d, e, t, o)
    OBVIOUS
  <2>1. sent = [known EXCEPT !.frames_out = g, !.datagram_queue = e]
    BY <1>5 DEF send_queued, Data
  <2> HIDE DEF sent, g, e
  <2>2. [Interface(n, f, d, q, t, o) EXCEPT !.frames_out = g] = Interface(n, g, d, q, t, o)
    BY DEF Interface
  <2>3. [Interface(n, g, d, q, t, o) EXCEPT !.datagram_queue = e] = Interface(n, g, d, e, t, o)
    BY DEF Interface
  <2>4. sent = Interface(n, g, d, e, t, o)
    BY <1>4, <2>1, <2>2, <2>3, Zenon
  <2> QED BY <1>9, <2>4, Zenon
<1> QED BY <1>10, <1>11, Zenon DEF f, c, q, t, o, d, g, e

\* The frames to ip after those with what was held back for it.
Joined(i, j, ip, h) ==
  LET f == i.frames_out
      g == j.frames_out
      m == Len(f)
  IN  /\ \A x : x # ip => Sent(j, x) = Sent(i, x)
      /\ Sent(j, ip) = Sent(i, ip) \cup {m + k : k \in DOMAIN h}
      /\ \A x : \A k \in Sent(i, x) : g[k] = f[k] /\ k \in 1..m
      /\ \A k \in DOMAIN h : g[m + k].payload = h[k] /\ k \in Nat /\ k > 0
      /\ m \in Nat

\* What was held back has been put at the end.
LEMMA SentHeld ==
  ASSUME NEW n, NEW i, NEW ip \in IpAddress, NEW h \in Seq(Datagram),
         i.frames_out \in Seq(Frame(n)), NEW j,
         j.frames_out = i.frames_out \o [k \in DOMAIN h |-> Data(n, ip, h[k])]
  PROVE  Joined(i, j, ip, h)
<1> DEFINE f == i.frames_out
           g == j.frames_out
           m == Len(f)
           s == [k \in DOMAIN h |-> Data(n, ip, h[k])]
           l == Len(h)
           To(y, x) == y.type = "IPv4" /\ y.dst = AddressOf(x)
<1>1. m \in Nat /\ DOMAIN f = 1..m /\ l \in Nat /\ DOMAIN h = 1..l
  OBVIOUS
<1>2. s = [k \in 1..l |-> Data(n, ip, h[k])] /\ \A k \in 1..l : Data(n, ip, h[k]) \in Frame(n)
  <2>1. \A k \in 1..l : h[k] \in Datagram
    BY ElementOfSeq
  <2>2. \A k \in 1..l : Data(n, ip, h[k]) \in Frame(n)
    <3>1. \A d \in Datagram : Data(n, ip, d) \in Frame(n)
      BY DEF Frame
    <3> QED BY <2>1, <3>1, Zenon
  <2>3. s = [k \in 1..l |-> Data(n, ip, h[k])]
    <3> HIDE DEF l
    <3> QED BY <1>1
  <2> QED BY <2>2, <2>3
<1> HIDE DEF s, l
<1>3. s \in [1..l -> Frame(n)] /\ \A k \in 1..l : s[k] = Data(n, ip, h[k])
  BY <1>2
<1>a. s \in Seq(Frame(n)) /\ Len(s) = l
  <2> DEFINE F == Frame(n)
  <2> HIDE DEF F
  <2>1. s \in [1..l -> F]
    BY <1>3 DEF F
  <2>2. s \in Seq(F) /\ Len(s) = l
    BY <1>1, <2>1, SeqDef
  <2> QED BY <2>2 DEF F
<1>4. g = f \o s
  BY Zenon DEF s
<1> HIDE DEF f, g
<1>5. /\ DOMAIN g = 1..(m + l)
      /\ \A k \in 1..m : g[k] = f[k]
      /\ \A k \in 1..l : g[m + k] = s[k]
  <2>1. f \in Seq(Frame(n))
    BY DEF f
  <2>2. /\ g \in Seq(Frame(n)) /\ Len(g) = m + l
        /\ \A k \in 1..(m + l) : g[k] = IF k <= m THEN f[k] ELSE s[k - m]
    BY <1>a, <1>4, <2>1, ConcatProperties
  <2> HIDE DEF m
  <2> QED BY <1>1, <2>2
<1>6. \A k \in 1..(m + l) : k \in 1..m \/ (k - m \in 1..l /\ k = m + (k - m))
  BY <1>1
<1>7. \A k \in 1..l : m + k \in 1..(m + l) /\ m + k \notin 1..m /\ k \in Nat /\ k > 0
  BY <1>1
<1>8. \A k \in 1..l : To(g[m + k], ip) /\ g[m + k].payload = h[k]
  <2>1. \A d : To(Data(n, ip, d), ip) /\ Data(n, ip, d).payload = d
    BY DEF Data
  <2> HIDE DEF To, m
  <2> QED BY <1>3, <1>5, <2>1
<1>9. \A x : \A k \in 1..l : To(g[m + k], x) => x = ip
  <2>1. \A d, x : To(Data(n, ip, d), x) => x = ip
    BY DEF Data, AddressOf
  <2> HIDE DEF To, m
  <2> QED BY <1>3, <1>5, <2>1
<1>10. /\ \A x : Sent(i, x) = {k \in 1..m : To(f[k], x)}
       /\ \A x : Sent(j, x) = {k \in 1..(m + l) : To(g[k], x)}
  <2>1. /\ \A x : Sent(i, x) = {k \in DOMAIN f : To(f[k], x)}
        /\ \A x : Sent(j, x) = {k \in DOMAIN g : To(g[k], x)}
    BY Zenon DEF Sent, f, g
  <2> QED BY <1>1, <1>5, <2>1
<1> HIDE DEF m, To
<1>11. \A k \in 1..m : k \in 1..(m + l)
  BY <1>1
<1>12. ASSUME NEW x, x # ip PROVE Sent(j, x) = Sent(i, x)
  <2>1. \A k \in 1..(m + l) : To(g[k], x) => k \in 1..m
    BY <1>6, <1>9, <1>12, Zenon
  <2> QED BY <1>5, <1>10, <1>11, <2>1, Zenon
<1>13. Sent(j, ip) = Sent(i, ip) \cup {m + k : k \in 1..l}
  <2>1. ASSUME NEW k \in Sent(j, ip) PROVE k \in Sent(i, ip) \/ \E a \in 1..l : k = m + a
    BY <1>5, <1>6, <1>10
  <2>2. ASSUME NEW k \in Sent(i, ip) PROVE k \in Sent(j, ip)
    BY <1>5, <1>10, <1>11
  <2>3. ASSUME NEW a \in 1..l PROVE m + a \in Sent(j, ip)
    BY <1>7, <1>8, <1>10
  <2> QED BY <2>1, <2>2, <2>3
<1>14. \A x : \A k \in Sent(i, x) : g[k] = f[k] /\ k \in 1..m
  BY <1>5, <1>10
<1> QED BY <1>1, <1>7, <1>8, <1>12, <1>13, <1>14, Zenon DEF Joined, f, g, m

\* What was held back for ip is sent, after what was sent before.
LEMMA Released ==
  ASSUME NEW n, NEW i, Node(n, i), NEW ip \in IpAddress, NEW h, Held(i, ip) = h,
         h \in Seq(Datagram), NEW j,
         j.frames_out = i.frames_out \o [k \in DOMAIN h |-> Data(n, ip, h[k])],
         Held(j, ip) = <<>>, NEW log
  PROVE  Kept(i, j, ip, log)
<1> DEFINE f == i.frames_out
           g == j.frames_out
           m == Len(f)
           none == <<>>
           D == DOMAIN h
           S == Sent(i, ip)
           T == Sent(j, ip)
<1>1. /\ T = S \cup {m + k : k \in D}
      /\ \A k \in S : g[k] = f[k] /\ k \in 1..m
      /\ \A k \in D : g[m + k].payload = h[k] /\ k \in Nat /\ k > 0
      /\ m \in Nat
  <2>1. f \in Seq(Frame(n))
    BY Zenon DEF Node
  <2>2. Joined(i, j, ip, h)
    BY <2>1, SentHeld, Zenon
  <2> QED BY <2>2, Zenon DEF Joined
<1>2. Held(j, ip) = none /\ DOMAIN none = {} /\ Range(none) = {}
  BY DEF Range
<1> HIDE DEF none, f, g, m
<1>3. /\ Forwarded(i, ip) = {f[k].payload : k \in S} \cup Range(h)
      /\ Forwarded(j, ip) = {g[k].payload : k \in T}
  BY <1>2, Zenon DEF Forwarded, f, g
<1>4. Range(h) = {h[k] : k \in D}
  BY DEF Range
<1> HIDE DEF S, T, D
<1>5. Forwarded(j, ip) = Forwarded(i, ip)
  <2>1. {g[k].payload : k \in S} = {f[k].payload : k \in S}
    BY <1>1, Zenon
  <2>2. {g[m + k].payload : k \in D} = {h[k] : k \in D}
    BY <1>1, Zenon
  <2>3. {g[k].payload : k \in T} = {g[k].payload : k \in S} \cup {g[m + k].payload : k \in D}
    BY <1>1
  <2> QED BY <1>3, <1>4, <2>1, <2>2, <2>3, Zenon
<1>6. ASSUME InOrder(i, ip, log) PROVE InOrder(j, ip, log)
  <2>1. /\ \A k, l \in S : k < l => Before(log, f[k].payload, f[l].payload)
        /\ \A k \in S, l \in D : Before(log, f[k].payload, h[l])
        /\ \A k, l \in D : k < l => Before(log, h[k], h[l])
    BY <1>6, Zenon DEF InOrder, f, S, D
  <2>2. ASSUME NEW k \in T, NEW l \in T, k < l PROVE Before(log, g[k].payload, g[l].payload)
    <3>1. CASE k \in S /\ l \in S
      BY <1>1, <2>1, <2>2, <3>1
    <3>2. CASE k \in S /\ l \notin S
      <4>1. PICK b \in D : l = m + b
        BY <1>1, <3>2
      <4> QED BY <1>1, <2>1, <3>2, <4>1
    <3>3. CASE k \notin S
      <4>1. PICK a \in D : k = m + a
        BY <1>1, <3>3
      <4>2. l \notin S
        <5>1. a \in Nat /\ a > 0 /\ m \in Nat
          BY <1>1
        <5>2. ASSUME l \in S PROVE FALSE
          <6>1. l \in 1..m
            BY <1>1, <5>2
          <6> QED BY <2>2, <4>1, <5>1, <6>1
        <5> QED BY <5>2
      <4>3. PICK b \in D : l = m + b
        BY <1>1, <4>2
      <4>4. a < b
        BY <1>1, <2>2, <4>1, <4>3
      <4> QED BY <1>1, <2>1, <4>1, <4>3, <4>4
    <3> QED BY <3>1, <3>2, <3>3
  <2> QED BY <1>2, <2>2, Zenon DEF InOrder, g, T
<1> QED BY <1>5, <1>6, Zenon DEF Kept

\* A reply changes nothing of what was sent on or is held back.
LEMMA ReplyKept ==
  ASSUME NEW n \in 1..Interfaces, NEW i, Node(n, i), NEW ip \in IpAddress, NEW j,
         j = async_recv_frame(i, ReplyFrame(n, ip))
  PROVE  Requeued(n, i, j, i.datagrams_out)
<1> DEFINE f == i.frames_out
           c == i.cached_ethernet_addresses
           q == i.datagram_queue
           t == i.arp_message_timers
           o == i.datagrams_out
           d == Learned(c, ip)
           h == q[ip]
           s == [k \in DOMAIN h |-> Data(n, ip, h[k])]
           e == Erase(q, ip)
<1>1. /\ ip \notin DOMAIN q => j = Interface(n, f, d, q, t, o)
      /\ ip \in DOMAIN q => j = Interface(n, f \o s, d, e, t, o)
  BY ReplyCases, Zenon
<1>2. /\ f \in Seq(Frame(n)) /\ o \in Seq(Datagram)
      /\ \A x \in DOMAIN c : c[x].address = AddressOf(x)
      /\ \A x \in DOMAIN q : q[x] \in Seq(Datagram)
      /\ DOMAIN q \cap DOMAIN c = {}
      /\ \A x \in DOMAIN t : Forwarded(i, x) # {}
  BY Zenon DEF Node
<1>3. DOMAIN d = DOMAIN c \cup {ip} /\ \A x \in DOMAIN d : d[x].address = AddressOf(x)
  <2> HIDE DEF c
  <2> QED BY <1>2 DEF Learned, Put
<1>4. ASSUME NEW g, NEW p, j = Interface(n, g, d, p, t, o)
      PROVE  /\ j = Interface(n, j.frames_out, j.cached_ethernet_addresses, j.datagram_queue,
                              j.arp_message_timers, j.datagrams_out)
             /\ j.frames_out = g /\ j.datagrams_out = o /\ j.arp_message_timers = t
             /\ j.cached_ethernet_addresses = d /\ j.datagram_queue = p
  <2> DEFINE y == Interface(n, g, d, p, t, o)
  <2> HIDE DEF f, c, q, t, o, d
  <2>1. /\ y.frames_out = g /\ y.datagrams_out = o /\ y.arp_message_timers = t
        /\ y.cached_ethernet_addresses = d /\ y.datagram_queue = p
    BY Members
  <2>2. j = y
    BY <1>4
  <2> HIDE DEF y
  <2>3. /\ j.frames_out = g /\ j.datagrams_out = o /\ j.arp_message_timers = t
        /\ j.cached_ethernet_addresses = d /\ j.datagram_queue = p
    BY <2>1, <2>2
  <2> QED BY <2>2, <2>3 DEF y
<1>5. CASE ip \notin DOMAIN q
  <2>1. /\ j = Interface(n, j.frames_out, j.cached_ethernet_addresses, j.datagram_queue,
                         j.arp_message_timers, j.datagrams_out)
        /\ j.frames_out = f /\ j.datagrams_out = o /\ j.arp_message_timers = t
        /\ j.cached_ethernet_addresses = d /\ j.datagram_queue = q
    BY <1>1, <1>4, <1>5, Zenon
  <2>2. \A x : Sent(j, x) = Sent(i, x) /\ Held(j, x) = Held(i, x)
    BY <2>1 DEF Sent, Held
  <2>3. \A x, log : Kept(i, j, x, log)
    <3>1. \A x : \A k \in Sent(i, x) : j.frames_out[k].payload = i.frames_out[k].payload
      BY <2>1
    <3> QED BY <2>2, <3>1, SameForwarded, Zenon
  <2>4. \A x \in DOMAIN t : Forwarded(j, x) # {}
    BY <1>2, <2>3, Zenon DEF Kept
  <2>5. DOMAIN q \cap DOMAIN d = {}
    <3> HIDE DEF q, d, c
    <3> QED BY <1>2, <1>3, <1>5
  <2> HIDE DEF d, f, c, q, t, o
  <2>6. Node(n, j)
    BY <1>2, <1>3, <2>1, <2>4, <2>5, Zenon DEF Node
  <2> QED BY <2>1, <2>3, <2>6, Zenon DEF Requeued, o
<1>6. CASE ip \in DOMAIN q
  <2>1. /\ j = Interface(n, j.frames_out, j.cached_ethernet_addresses, j.datagram_queue,
                         j.arp_message_timers, j.datagrams_out)
        /\ j.frames_out = f \o s /\ j.datagrams_out = o /\ j.arp_message_timers = t
        /\ j.cached_ethernet_addresses = d /\ j.datagram_queue = e
    BY <1>1, <1>4, <1>6, Zenon
  <2>2. h \in Seq(Datagram) /\ Held(i, ip) = h
    BY <1>2, <1>6 DEF Held
  <2>3. DOMAIN e = DOMAIN q \ {ip} /\ \A x \in DOMAIN e : e[x] = q[x]
    BY DEF Erase, Restrict
  <2>4. Held(j, ip) = <<>> /\ \A x : x # ip => Held(j, x) = Held(i, x)
    <3> HIDE DEF e
    <3> QED BY <2>1, <2>3, Zenon DEF Held
  <2>5. /\ \A x : x # ip => Sent(j, x) = Sent(i, x)
        /\ \A x : \A k \in Sent(i, x) : j.frames_out[k] = f[k]
    <3>1. Joined(i, j, ip, h)
      BY <1>2, <2>1, <2>2, SentHeld, Zenon
    <3> QED BY <3>1, Zenon DEF Joined
  <2>6. ASSUME NEW x, NEW log PROVE Kept(i, j, x, log)
    <3>1. CASE x = ip
      <4>1. Kept(i, j, ip, log)
        BY <2>1, <2>2, <2>4, Released, Zenon
      <4> QED BY <3>1, <4>1
    <3>2. CASE x # ip
      <4>1. \A k \in Sent(i, x) : j.frames_out[k].payload = i.frames_out[k].payload
        BY <2>5
      <4> QED BY <2>4, <2>5, <3>2, <4>1, SameForwarded, Zenon
    <3> QED BY <3>1, <3>2
  <2>7. \A x \in DOMAIN t : Forwarded(j, x) # {}
    BY <1>2, <2>6, Zenon DEF Kept
  <2>8. j.frames_out \in Seq(Frame(n))
    <3>1. \A k \in DOMAIN h : Data(n, ip, h[k]) \in Frame(n)
      <4>1. \A k \in DOMAIN h : h[k] \in Datagram
        BY <2>2
      <4>2. \A x \in Datagram : Data(n, ip, x) \in Frame(n)
        BY DEF Frame
      <4> QED BY <4>1, <4>2, Zenon
    <3>2. s \in [1..Len(h) -> Frame(n)] /\ Len(h) \in Nat
      BY <2>2, <3>1
    <3> DEFINE F == Frame(n)
    <3> HIDE DEF F, s
    <3>3. s \in Seq(F)
      BY <3>2, SeqDef DEF F
    <3> QED BY <1>2, <2>1, <3>3, ConcatProperties DEF F
  <2>9. DOMAIN e \cap DOMAIN d = {} /\ \A x \in DOMAIN e : e[x] \in Seq(Datagram)
    <3> HIDE DEF q, d, c, e
    <3> QED BY <1>2, <1>3, <1>6, <2>3
  <2> HIDE DEF d, f, c, q, t, o, e
  <2>10. Node(n, j)
    BY <1>2, <1>3, <2>1, <2>7, <2>8, <2>9, Zenon DEF Node
  <2> QED BY <2>1, <2>6, <2>10, Zenon DEF Requeued, o
<1> QED BY <1>5, <1>6

\* What holds of an interface holds with another queue of arrived datagrams.
LEMMA RequeuedSound ==
  ASSUME NEW table, NEW log, NEW n, NEW i, Sound(n, i, table, log), NEW j, NEW queue,
         Requeued(n, i, j, queue), Arrived(n, queue, log)
  PROVE  Sound(n, j, table, log)
BY Zenon DEF Requeued, Kept, Sound

\* Later the log is longer, and the same at the beginning.
Longer(log, later_log) ==
  \A k \in DOMAIN log : k \in DOMAIN later_log /\ later_log[k] = log[k]

\* What a longer log does not change: the order of two datagrams of the log, ...
LEMMA BeforeLater ==
  ASSUME NEW log, NEW l, Longer(log, l), NEW d, d.id \in DOMAIN log, NEW e, e.id \in DOMAIN log
  PROVE  Before(log, d, e) => Before(l, d, e)
BY DEF Longer, Before

\* ... the state of an interface, ...
LEMMA SoundLater ==
  ASSUME NEW table, NEW log, NEW l, Longer(log, l), NEW n, NEW i, Sound(n, i, table, log)
  PROVE  Sound(n, i, table, l)
<1>1. Arrived(n, i.datagrams_out, l)
  BY DEF Sound, Arrived, Longer
<1>2. ASSUME NEW ip \in IpAddress
      PROVE  InOrder(i, ip, l) /\ \A d \in Forwarded(i, ip) : Right(d, n, ip, table, l)
  <2> DEFINE f == i.frames_out
             h == Held(i, ip)
             S == Sent(i, ip)
  <2>1. InOrder(i, ip, log) /\ \A d \in Forwarded(i, ip) : Right(d, n, ip, table, log)
    BY Zenon DEF Sound
  <2>2. \A d \in Forwarded(i, ip) : d.id \in DOMAIN log
    BY <2>1, Zenon DEF Right
  <2>3. \A d \in Forwarded(i, ip) : Right(d, n, ip, table, l)
    BY <2>1 DEF Right, Longer
  <2>4. (\A k \in S : f[k].payload.id \in DOMAIN log) /\ \A k \in DOMAIN h : h[k].id \in DOMAIN log
    <3>1. (\A k \in S : f[k].payload \in Forwarded(i, ip)) /\ \A k \in DOMAIN h : h[k] \in Forwarded(i, ip)
      BY DEF Forwarded, Range
    <3> QED BY <2>2, <3>1
  <2>5. \A k, m \in S : k < m => Before(l, f[k].payload, f[m].payload)
    BY <2>1, <2>4, BeforeLater, Zenon DEF InOrder
  <2>6. \A k \in S, m \in DOMAIN h : Before(l, f[k].payload, h[m])
    BY <2>1, <2>4, BeforeLater, Zenon DEF InOrder
  <2>7. \A k, m \in DOMAIN h : k < m => Before(l, h[k], h[m])
    BY <2>1, <2>4, BeforeLater, Zenon DEF InOrder
  <2> QED BY <2>3, <2>5, <2>6, <2>7, Zenon DEF InOrder
<1> QED BY <1>1, <1>2, Zenon DEF Sound

\* ... what comes before a datagram of the log, ...
LEMMA AheadLater ==
  ASSUME NEW table, NEW log, NEW l, Longer(log, l), NEW n, NEW i, Sound(n, i, table, log),
         NEW e, e.id \in DOMAIN log, Ahead(i, e, log)
  PROVE  Ahead(i, e, l)
<1>1. ASSUME NEW ip \in IpAddress, NEW d \in Forwarded(i, ip) PROVE Before(l, d, e)
  <2>1. d.id \in DOMAIN log
    BY <1>1, Zenon DEF Sound, Right
  <2>2. Before(log, d, e)
    BY <1>1, Zenon DEF Ahead
  <2> QED BY <2>1, <2>2, BeforeLater, Zenon
<1> QED BY <1>1, Zenon DEF Ahead

\* ... and why a datagram disappeared.
LEMMA ExplainedLater ==
  ASSUME NEW r, NEW id, NEW table, NEW log, NEW l, Longer(log, l), id \in DOMAIN log,
         Explained(r, id, table, log)
  PROVE  Explained(r, id, table, l)
BY Zenon DEF Longer, Explained

\* A datagram that arrives is put at the end of the queue.
LEMMA ArrivedAppend ==
  ASSUME NEW n, NEW queue \in Seq(Datagram), NEW log \in Seq(Arrival), NEW l, NEW a, a.at = n,
         l = Append(log, a), Longer(log, l), Arrived(n, queue, log),
         NEW d \in Datagram, d.id = Len(log) + 1, d.dst = a.dst, d.ttl = a.ttl
  PROVE  Arrived(n, Append(queue, d), l)
<1> DEFINE new == Len(log) + 1
           q == Append(queue, d)
           m == Len(queue) + 1
<1>1. new \in DOMAIN l /\ l[new] = a /\ \A k \in DOMAIN log : k \in Nat /\ k < new
  OBVIOUS
<1>2. /\ DOMAIN q = DOMAIN queue \cup {m} /\ q[m] = d /\ m \in Nat
      /\ \A k \in DOMAIN queue : q[k] = queue[k] /\ k \in Nat /\ k < m
  BY HeldAppend
<1> HIDE DEF new, q, m
<1>3. d.id = new
  BY DEF new
<1>4. \A k \in DOMAIN queue :
        /\ q[k].id \in DOMAIN log /\ q[k].id < new
        /\ q[k].id \in DOMAIN l /\ l[q[k].id].at = n
        /\ q[k].dst = l[q[k].id].dst /\ q[k].ttl = l[q[k].id].ttl
  BY <1>1, <1>2 DEF Arrived, Longer
<1>5. \A k \in DOMAIN q :
        /\ q[k].id \in DOMAIN l /\ l[q[k].id].at = n
        /\ q[k].dst = l[q[k].id].dst /\ q[k].ttl = l[q[k].id].ttl
  BY <1>1, <1>2, <1>3, <1>4
<1>6. ASSUME NEW j \in DOMAIN q, NEW k \in DOMAIN q, j < k PROVE q[j].id < q[k].id
  <2>1. j \in DOMAIN queue
    BY <1>2, <1>6
  <2>2. CASE k = m
    BY <1>2, <1>3, <1>4, <2>1, <2>2
  <2>3. CASE k # m
    BY <1>2, <1>6, <2>1, <2>3 DEF Arrived
  <2> QED BY <2>2, <2>3
<1> QED BY <1>5, <1>6, Zenon DEF Arrived, q

\* recv_frame() of a datagram for the interface puts it into the queue.
LEMMA DatagramReceived ==
  ASSUME NEW n, NEW i, Node(n, i), NEW d \in Datagram, NEW src, NEW j,
         j = async_recv_frame(i, [src |-> src, dst |-> OwnAddress(n), type |-> "IPv4", payload |-> d])
  PROVE  Requeued(n, i, j, Append(i.datagrams_out, d))
<1> DEFINE frame == [src |-> src, dst |-> OwnAddress(n), type |-> "IPv4", payload |-> d]
           o == i.datagrams_out
           received == recv_frame(i, frame)
<1>1. i.ethernet_address = OwnAddress(n) /\ o \in Seq(Datagram)
  <2> DEFINE y == Interface(n, i.frames_out, i.cached_ethernet_addresses, i.datagram_queue,
                            i.arp_message_timers, i.datagrams_out)
  <2>1. i = y /\ o \in Seq(Datagram)
    BY Zenon DEF Node
  <2>2. y.ethernet_address = OwnAddress(n)
    BY DEF Interface
  <2> HIDE DEF y
  <2> QED BY <2>1, <2>2
<1>2. d # Malformed
  BY RouterSpecAssumption
<1>3. frame.payload = d /\ frame.type = "IPv4" /\ frame.dst = OwnAddress(n) /\ frame.type # "ARP"
  OBVIOUS
<1>4. j = [received.interface EXCEPT !.datagrams_out = @ \o received.datagrams]
  BY Zenon DEF async_recv_frame
<1> HIDE DEF frame
<1>5. received = [interface |-> i, datagrams |-> <<d>>]
  BY <1>1, <1>2, <1>3, Zenon DEF recv_frame
<1>6. received.interface = i /\ received.datagrams = <<d>>
  BY <1>5
<1> HIDE DEF received
<1>7. j = [i EXCEPT !.datagrams_out = @ \o <<d>>]
  BY <1>4, <1>6
<1>8. o \o <<d>> = Append(o, d) /\ Append(o, d) \in Seq(Datagram)
  <2> HIDE DEF o
  <2> QED BY <1>1
<1>9. j = [i EXCEPT !.datagrams_out = Append(o, d)]
  BY <1>7, <1>8, Zenon
<1> QED BY <1>8, <1>9, SetQueue, Zenon

-----------------------------------------------------------------------------
\* Router s has sent on all that r has.
More(r, s) ==
  \A n \in 1..Interfaces, ip \in IpAddress :
    Forwarded(r.interfaces[n], ip) \subseteq Forwarded(s.interfaces[n], ip)

\* What was explained stays so.
LEMMA StaysExplained ==
  ASSUME NEW r, NEW s, More(r, s), NEW id, NEW table, NEW log, Explained(r, id, table, log)
  PROVE  Explained(s, id, table, log)
BY DEF Explained, More

\* One datagram of interface m has been routed: e, or nothing, was sent on.
Advanced(r, s, e) ==
  /\ Shaped(s) /\ s.routes = r.routes
  /\ \A n \in 1..Interfaces : s.interfaces[n].datagrams_out = r.interfaces[n].datagrams_out
  /\ More(r, s)
  /\ \A n \in 1..Interfaces, ip \in IpAddress :
       Forwarded(s.interfaces[n], ip) \subseteq Forwarded(r.interfaces[n], ip) \cup {e}

\* The step of the inner loop keeps the loop's invariant.
LEMMA Advance ==
  ASSUME NEW table, NEW log, NEW m \in 1..Interfaces, NEW k \in Nat, NEW r,
         Routing(r, m, k, table, log), k + 1 \in DOMAIN r.interfaces[m].datagrams_out,
         NEW s, NEW e, e.id = r.interfaces[m].datagrams_out[k + 1].id, Advanced(r, s, e),
         \A n \in 1..Interfaces : Sound(n, s.interfaces[n], table, log),
         Explained(s, e.id, table, log)
  PROVE  Routing(s, m, k + 1, table, log)
<1> DEFINE out(n) == r.interfaces[n].datagrams_out
           dgram == out(m)[k + 1]
<1>1. \A n \in 1..Interfaces : s.interfaces[n].datagrams_out = out(n)
  BY Zenon DEF Advanced
<1>2. Shaped(s) /\ Tabled(s.routes, table)
  BY Zenon DEF Advanced, Routing
<1>3. \A n \in 1..Interfaces : Arrived(n, out(n), log) /\ out(n) \in Seq(Datagram)
  BY Zenon DEF Routing, Sound, Node
<1>4. ASSUME NEW n \in 1..Interfaces, NEW p \in 1..Interfaces, NEW j \in DOMAIN out(p),
             p = m => j > k + 1
      PROVE  Ahead(s.interfaces[n], out(p)[j], log)
  <2>1. j \in Nat
    BY <1>3
  <2>2. p = m => j > k
    BY <1>4, <2>1
  <2>3. Ahead(r.interfaces[n], out(p)[j], log)
    BY <2>2, Zenon DEF Routing, Waits
  <2>4. Before(log, e, out(p)[j])
    <3>1. log[e.id].at = m /\ log[out(p)[j].id].at = p
      BY <1>3, ZenonT(40) DEF Arrived
    <3>2. ASSUME p = m PROVE e.id < out(p)[j].id
      <4>1. j > k + 1
        BY <1>4, <3>2
      <4>2. k + 1 < j
        BY <4>1, <2>1
      <4> QED BY <4>2, <1>3, <3>2, ZenonT(40) DEF Arrived
    <3> QED BY <3>1, <3>2, Zenon DEF Before
  <2> HIDE DEF out
  <2>5. ASSUME NEW ip \in IpAddress, NEW d \in Forwarded(s.interfaces[n], ip)
        PROVE  Before(log, d, out(p)[j])
    <3>1. d \in Forwarded(r.interfaces[n], ip) \/ d = e
      BY Zenon DEF Advanced
    <3> QED BY <3>1, <2>3, <2>4, Zenon DEF Ahead
  <2> QED BY <2>5, Zenon DEF Ahead
<1>5. ASSUME NEW id \in DOMAIN log
      PROVE  \/ Explained(s, id, table, log)
             \/ \E p \in 1..Interfaces : \E j \in DOMAIN out(p) :
                  (p = m => j > k + 1) /\ out(p)[j].id = id
  <2>1. CASE Explained(r, id, table, log)
    BY <2>1, StaysExplained, Zenon DEF Advanced
  <2>2. ASSUME NEW p \in 1..Interfaces, NEW j \in DOMAIN out(p), p = m => j > k, out(p)[j].id = id
        PROVE  \/ Explained(s, id, table, log)
               \/ \E x \in 1..Interfaces : \E y \in DOMAIN out(x) :
                    (x = m => y > k + 1) /\ out(x)[y].id = id
    <3>1. CASE p = m /\ j = k + 1
      BY <2>2, <3>1, Zenon
    <3>2. CASE ~(p = m /\ j = k + 1)
      <4>1. j \in Nat
        BY <1>3
      <4>2. p = m => j > k + 1
        BY <2>2, <3>2, <4>1
      <4> QED BY <2>2, <4>2, Zenon
    <3> QED BY <3>1, <3>2, Zenon
  <2> QED BY <2>1, <2>2, Zenon DEF Routing, Waits
<1>6. \A n, p \in 1..Interfaces : \A j \in DOMAIN s.interfaces[p].datagrams_out :
        Waits(s, p, j, m, k + 1) =>
          Ahead(s.interfaces[n], s.interfaces[p].datagrams_out[j], log)
  <2> HIDE DEF out
  <2> QED BY <1>1, <1>4 DEF Waits
<1>7. \A id \in DOMAIN log :
        \/ Explained(s, id, table, log)
        \/ \E p \in 1..Interfaces : \E j \in DOMAIN s.interfaces[p].datagrams_out :
             Waits(s, p, j, m, k + 1) /\ s.interfaces[p].datagrams_out[j].id = id
  <2> HIDE DEF out
  <2>1. ASSUME NEW p \in 1..Interfaces, NEW j \in DOMAIN out(p), p = m => j > k + 1
        PROVE  /\ j \in DOMAIN s.interfaces[p].datagrams_out /\ Waits(s, p, j, m, k + 1)
               /\ s.interfaces[p].datagrams_out[j] = out(p)[j]
    <3>1. s.interfaces[p].datagrams_out = out(p)
      BY <1>1, Zenon
    <3>2. j \in DOMAIN s.interfaces[p].datagrams_out
      BY <3>1
    <3>3. Waits(s, p, j, m, k + 1)
      BY <2>1, <3>2, Zenon DEF Waits
    <3> QED BY <3>1, <3>2, <3>3, SMTT(20)
  <2> SUFFICES ASSUME NEW id \in DOMAIN log, ~Explained(s, id, table, log)
               PROVE  \E p \in 1..Interfaces : \E j \in DOMAIN s.interfaces[p].datagrams_out :
                        Waits(s, p, j, m, k + 1) /\ s.interfaces[p].datagrams_out[j].id = id
    BY Zenon
  <2>2. PICK p \in 1..Interfaces : \E j \in DOMAIN out(p) :
          (p = m => j > k + 1) /\ out(p)[j].id = id
    BY <1>5, Zenon
  <2>3. PICK j \in DOMAIN out(p) : (p = m => j > k + 1) /\ out(p)[j].id = id
    BY <2>2, Zenon
  <2>4. /\ j \in DOMAIN s.interfaces[p].datagrams_out /\ Waits(s, p, j, m, k + 1)
        /\ s.interfaces[p].datagrams_out[j].id = id
    <3>1. s.interfaces[p].datagrams_out[j] = out(p)[j]
      BY <2>1, <2>3, Zenon
    <3> QED BY <2>1, <2>3, <3>1, Zenon
  <2> QED BY <2>4, Zenon
<1> QED BY <1>2, <1>6, <1>7, Zenon DEF Routing

\* Router s is r with interface n replaced by j.
Replaced(r, s, n, j) ==
  /\ Shaped(s) /\ s.routes = r.routes /\ s.interfaces[n] = j
  /\ \A p \in 1..Interfaces : p # n => s.interfaces[p] = r.interfaces[p]

\* An assignment to one interface leaves the rest of the router.
LEMMA SetInterface ==
  ASSUME NEW r, Shaped(r), NEW n \in 1..Interfaces, NEW j, NEW s,
         s = [r EXCEPT !.interfaces[n] = j]
  PROVE  Replaced(r, s, n, j)
<1> DEFINE a == r.routes
           b == r.interfaces
           c == [b EXCEPT ![n] = j]
<1>1. r = [routes |-> a, interfaces |-> b] /\ b = [x \in 1..Interfaces |-> b[x]]
  BY DEF Shaped
<1>2. s = [r EXCEPT !.interfaces = c]
  OBVIOUS
<1> HIDE DEF a, b
<1>3. c = [x \in 1..Interfaces |-> c[x]] /\ c[n] = j
      /\ \A p \in 1..Interfaces : p # n => c[p] = b[p]
  BY <1>1, Zenon
<1> HIDE DEF c
<1>4. s = [routes |-> a, interfaces |-> c]
  BY <1>1, <1>2, Zenon
<1>5. s.routes = a /\ s.interfaces = c
  BY <1>4
<1>6. Shaped(s)
  BY <1>3, <1>4, <1>5, Zenon DEF Shaped
<1> QED BY <1>3, <1>5, <1>6, Zenon DEF Replaced, a, b

\* The datagram that route_one_datagram() is given, and the one it sends.
LEMMA Decrement ==
  ASSUME NEW dgram \in Datagram, dgram.ttl > 1, NEW e, e = [dgram EXCEPT !.ttl = @ - 1]
  PROVE  e \in Datagram /\ e.id = dgram.id /\ e.dst = dgram.dst /\ e.ttl = dgram.ttl - 1 /\ e.ttl > 0
BY Constants DEF Datagram

\* The queue of interface m has been emptied.
LEMMA Emptied ==
  ASSUME NEW table, NEW log, NEW m \in 1..Interfaces, NEW r, NEW n \in Nat,
         Routing(r, m, n, table, log), DOMAIN r.interfaces[m].datagrams_out = 1..n,
         NEW s, s = [r EXCEPT !.interfaces[m].datagrams_out = <<>>]
  PROVE  Routing(s, 0, 0, table, log)
<1> DEFINE i == r.interfaces[m]
           none == <<>>
           j == [i EXCEPT !.datagrams_out = none]
<1>1. /\ Shaped(r) /\ Tabled(r.routes, table)
      /\ \A p \in 1..Interfaces : Sound(p, r.interfaces[p], table, log)
  BY Zenon DEF Routing
<1>2. s = [r EXCEPT !.interfaces[m] = j]
  OBVIOUS
<1>3. none \in Seq(Datagram) /\ DOMAIN none = {} /\ Arrived(m, none, log)
  BY DEF Arrived
<1> HIDE DEF none
<1>4. Requeued(m, i, j, none)
  <2>1. Node(m, i)
    BY <1>1, Zenon DEF Sound
  <2> HIDE DEF j
  <2> QED BY <1>3, <2>1, SetQueue, Zenon DEF j
<1> HIDE DEF j
<1>5. Replaced(r, s, m, j)
  BY <1>1, <1>2, SetInterface, Zenon
<1>6. Sound(m, j, table, log)
  <2>1. Sound(m, i, table, log)
    BY <1>1
  <2> QED BY <1>3, <1>4, <2>1, Zenon DEF Requeued, Kept, Sound
<1>7. \A p \in 1..Interfaces :
        /\ Sound(p, s.interfaces[p], table, log)
        /\ \A x : Forwarded(s.interfaces[p], x) = Forwarded(r.interfaces[p], x)
  <2>1. ASSUME NEW p \in 1..Interfaces
        PROVE  /\ Sound(p, s.interfaces[p], table, log)
               /\ \A x : Forwarded(s.interfaces[p], x) = Forwarded(r.interfaces[p], x)
    <3>1. CASE p = m
      BY <1>4, <1>5, <1>6, <3>1, Zenon DEF Replaced, Requeued, Kept
    <3>2. CASE p # m
      BY <1>1, <1>5, <3>2, Zenon DEF Replaced
    <3> QED BY <3>1, <3>2
  <2> QED BY <2>1
<1>8. ASSUME NEW p \in 1..Interfaces
      PROVE  /\ p = m => DOMAIN s.interfaces[p].datagrams_out = {}
             /\ p # m => s.interfaces[p] = r.interfaces[p]
  BY <1>3, <1>4, <1>5 DEF Replaced, Requeued
<1>9. ASSUME NEW q \in 1..Interfaces, NEW p \in 1..Interfaces,
             NEW k \in DOMAIN s.interfaces[p].datagrams_out
      PROVE  Ahead(s.interfaces[q], s.interfaces[p].datagrams_out[k], log)
  <2>1. p # m /\ s.interfaces[p] = r.interfaces[p]
    BY <1>8
  <2>2. Ahead(r.interfaces[q], r.interfaces[p].datagrams_out[k], log)
    BY <1>9, <2>1 DEF Routing, Waits
  <2> QED BY <1>7, <2>1, <2>2, Zenon DEF Ahead
<1>10. ASSUME NEW id \in DOMAIN log
       PROVE  \/ Explained(s, id, table, log)
              \/ \E p \in 1..Interfaces : \E k \in DOMAIN s.interfaces[p].datagrams_out :
                   s.interfaces[p].datagrams_out[k].id = id
  <2>1. CASE Explained(r, id, table, log)
    <3>1. More(r, s)
      BY <1>7 DEF More
    <3> QED BY <2>1, <3>1, StaysExplained, Zenon
  <2>2. ASSUME NEW p \in 1..Interfaces, NEW k \in DOMAIN r.interfaces[p].datagrams_out,
               p = m => k > n, r.interfaces[p].datagrams_out[k].id = id
        PROVE  \E x \in 1..Interfaces : \E y \in DOMAIN s.interfaces[x].datagrams_out :
                 s.interfaces[x].datagrams_out[y].id = id
    <3>1. p # m
      BY <2>2
    <3> QED BY <1>8, <2>2, <3>1, Zenon
  <2> QED BY <2>1, <2>2, Zenon DEF Routing, Waits
<1>11. \A p \in 1..Interfaces : p # 0
  BY Constants
<1>12. Shaped(s) /\ Tabled(s.routes, table)
  BY <1>1, <1>5, Zenon DEF Replaced
<1> QED BY <1>7, <1>9, <1>10, <1>11, <1>12, ZenonT(40) DEF Routing, Waits

-----------------------------------------------------------------------------
\* A new interface.
LEMMA NewInterface ==
  ASSUME NEW n
  PROVE  NewAsyncNetworkInterface(OwnAddress(n), <<"router", n>>)
           = Interface(n, <<>>, <<>>, <<>>, <<>>, <<>>)
<1> DEFINE a == OwnAddress(n)
           b == <<"router", n>>
           e == <<>>
           six == [ethernet_address |-> a, ip_address |-> b, frames_out |-> e,
                   cached_ethernet_addresses |-> e, datagram_queue |-> e, arp_message_timers |-> e]
           fields == {"ethernet_address", "ip_address", "frames_out", "cached_ethernet_addresses",
                      "datagram_queue", "arp_message_timers"}
           seven == [k \in fields \cup {"datagrams_out"} |->
                       IF k = "datagrams_out" THEN e ELSE six[k]]
<1>1. NewAsyncNetworkInterface(a, b) = Put(six, "datagrams_out", e)
  BY Zenon DEF NewAsyncNetworkInterface, NewNetworkInterface
<1> HIDE DEF a, b, e
<1>2. DOMAIN six = fields
  OBVIOUS
<1>3. Put(six, "datagrams_out", e) = seven
  BY <1>2, Zenon DEF Put
<1>4. seven = Interface(n, e, e, e, e, e)
  <2>1. Interface(n, e, e, e, e, e)
          = [ethernet_address |-> a, ip_address |-> b, frames_out |-> e,
             cached_ethernet_addresses |-> e, datagram_queue |-> e, arp_message_timers |-> e,
             datagrams_out |-> e]
    BY DEF Interface, a, b
  <2> QED BY <2>1
<1> QED BY <1>1, <1>3, <1>4 DEF a, b, e

\* The initial states satisfy the inductive invariant.
LEMMA InitIInv ==
  ASSUME Init
  PROVE  IInv
<1> DEFINE none == <<>>
           new(n) == Interface(n, none, none, none, none, none)
<1>1. /\ none \in Seq(Arrival) /\ none \in Seq(RouteRecord) /\ none \in Seq(RouteArguments)
      /\ none \in Seq(Datagram) /\ Len(none) = 0 /\ DOMAIN none = {} /\ Range(none) = {}
      /\ \A n : none \in Seq(Frame(n))
  BY DEF Range
<1>2. /\ router = NewRouter([n \in 1..Interfaces |-> new(n)])
      /\ added = none /\ arrived = none
  BY NewInterface, Zenon DEF Init
<1> HIDE DEF none
<1>3. ASSUME NEW n
      PROVE  /\ new(n) = Interface(n, new(n).frames_out, new(n).cached_ethernet_addresses,
                                   new(n).datagram_queue, new(n).arp_message_timers,
                                   new(n).datagrams_out)
             /\ new(n).frames_out = none /\ new(n).cached_ethernet_addresses = none
             /\ new(n).datagram_queue = none /\ new(n).arp_message_timers = none
             /\ new(n).datagrams_out = none
  BY Members
<1> HIDE DEF new
<1>4. ASSUME NEW n, NEW ip PROVE Forwarded(new(n), ip) = {} /\ InOrder(new(n), ip, none)
  <2>1. Sent(new(n), ip) = {} /\ Held(new(n), ip) = none
    BY <1>1, <1>3 DEF Sent, Held, none
  <2> QED BY <1>1, <2>1 DEF Forwarded, InOrder
<1>5. ASSUME NEW n PROVE Sound(n, new(n), none, none)
  <2>1. Node(n, new(n))
    BY <1>1, <1>3, Zenon DEF Node
  <2>2. Arrived(n, new(n).datagrams_out, none)
    BY <1>1, <1>3 DEF Arrived
  <2> QED BY <1>4, <2>1, <2>2 DEF Sound
<1>6. router.routes = none /\ router.interfaces = [n \in 1..Interfaces |-> new(n)]
  BY <1>2 DEF NewRouter, none
<1>7. Shaped(router)
  BY <1>2, <1>6, Zenon DEF Shaped, NewRouter, none
<1>8. Tabled(none, none)
  BY <1>1 DEF Tabled
<1>9. \A n \in 1..Interfaces : router.interfaces[n] = new(n)
  BY <1>6
<1>10. Routing(router, 0, 0, none, none)
  <2>1. \A n \in 1..Interfaces : Sound(n, router.interfaces[n], none, none)
    BY <1>5, <1>9
  <2>2. \A p \in 1..Interfaces : DOMAIN router.interfaces[p].datagrams_out = {}
    BY <1>1, <1>3, <1>9
  <2> QED BY <1>1, <1>6, <1>7, <1>8, <2>1, <2>2, Zenon DEF Routing
<1> QED BY <1>1, <1>2, <1>10, Constants DEF IInv

\* A route is added before any datagram arrives, when nothing has been sent on.
LEMMA AddRouteStep ==
  ASSUME IInv, NEW a \in RouteArguments, AddRoute(a)
  PROVE  IInv'
<1> DEFINE none == <<>>
           table == Append(added, a)
<1>1. Routing(router, 0, 0, added, none) /\ arrived = none /\ arrived' = none /\ added' = table
  BY Zenon DEF IInv, AddRoute
<1>2. DOMAIN none = {}
  OBVIOUS
<1> HIDE DEF none
<1>3. /\ Shaped(router) /\ Tabled(router.routes, added)
      /\ \A n \in 1..Interfaces : Sound(n, router.interfaces[n], added, none)
  BY <1>1, Zenon DEF Routing
<1>4. PICK prefix \in ShiftRight(a.route_prefix, PREFIX_MAX_BITS - a.prefix_length) :
        router' = [router EXCEPT !.routes = Append(@,
                     [prefix |-> prefix, prefix_length |-> a.prefix_length,
                      next_hop |-> a.next_hop, interface_num |-> a.interface_num])]
  BY Zenon DEF AddRoute, add_route
<1> DEFINE entry == [prefix |-> prefix, prefix_length |-> a.prefix_length,
                     next_hop |-> a.next_hop, interface_num |-> a.interface_num]
           old == router.routes
           routes == Append(old, entry)
<1>5. router'.routes = routes /\ router'.interfaces = router.interfaces /\ Shaped(router')
  <2>1. router = [routes |-> old, interfaces |-> router.interfaces]
    BY <1>3, Zenon DEF Shaped
  <2>2. router' = [router EXCEPT !.routes = routes]
    BY <1>4
  <2>3. router.interfaces = [n \in 1..Interfaces |-> router.interfaces[n]]
    BY <1>3, Zenon DEF Shaped
  <2> DEFINE b == router.interfaces
  <2> HIDE DEF routes, old, b
  <2>4. router' = [routes |-> routes, interfaces |-> b]
    BY <2>1, <2>2 DEF b
  <2>5. router'.routes = routes /\ router'.interfaces = b
    BY <2>4
  <2> QED BY <2>3, <2>4, <2>5, Zenon DEF Shaped, b
<1>6. Tabled(routes, table)
  <2>1. entry \in RouteRecord
    <3>1. /\ a.route_prefix \in IpAddress /\ a.prefix_length \in 0..PREFIX_MAX_BITS
          /\ a.next_hop \in IpAddress \cup {Direct} /\ a.interface_num \in 1..Interfaces
      BY Constants
    <3>2. prefix \in Prefix
      BY <3>1 DEF Prefix
    <3> QED BY <3>1, <3>2 DEF RouteRecord
  <2>2. /\ entry.prefix = prefix /\ entry.prefix_length = a.prefix_length
        /\ entry.next_hop = a.next_hop /\ entry.interface_num = a.interface_num
    OBVIOUS
  <2>3. old \in Seq(RouteRecord) /\ added \in Seq(RouteArguments) /\ Len(old) = Len(added)
    BY <1>3 DEF Tabled
  <2> DEFINE m == Len(added) + 1
  <2> HIDE DEF entry, old
  <2>4. /\ routes \in Seq(RouteRecord) /\ table \in Seq(RouteArguments) /\ Len(routes) = Len(table)
        /\ DOMAIN table = (DOMAIN added) \cup {m} /\ table[m] = a /\ routes[m] = entry
        /\ \A k \in DOMAIN added : table[k] = added[k] /\ routes[k] = old[k]
    BY <2>1, <2>3
  <2> HIDE DEF routes, table, m
  <2>5. \A k \in DOMAIN added :
          /\ old[k].prefix \in
               ShiftRight(added[k].route_prefix, PREFIX_MAX_BITS - added[k].prefix_length)
          /\ old[k].prefix_length = added[k].prefix_length
          /\ old[k].next_hop = added[k].next_hop
          /\ old[k].interface_num = added[k].interface_num
    BY <1>3, Zenon DEF Tabled, old
  <2>6. ASSUME NEW k \in DOMAIN table
        PROVE  /\ routes[k].prefix \in
                    ShiftRight(table[k].route_prefix, PREFIX_MAX_BITS - table[k].prefix_length)
               /\ routes[k].prefix_length = table[k].prefix_length
               /\ routes[k].next_hop = table[k].next_hop
               /\ routes[k].interface_num = table[k].interface_num
    <3>1. CASE k = m
      BY <2>2, <2>4, <3>1
    <3>2. CASE k # m
      <4>1. k \in DOMAIN added /\ table[k] = added[k] /\ routes[k] = old[k]
        BY <2>4, <3>2
      <4> QED BY <2>5, <4>1
    <3> QED BY <3>1, <3>2
  <2> QED BY <2>4, <2>6, Zenon DEF Tabled
<1> HIDE DEF entry, old, routes, table
<1>7. ASSUME NEW n \in 1..Interfaces
      PROVE  /\ Sound(n, router.interfaces[n], table, none)
             /\ DOMAIN router.interfaces[n].datagrams_out = {}
  <2> DEFINE i == router.interfaces[n]
  <2>1. Sound(n, i, added, none)
    BY <1>3
  <2> HIDE DEF i
  <2>2. \A ip \in IpAddress : Forwarded(i, ip) = {}
    BY <1>2, <2>1 DEF Sound, Right
  <2>3. DOMAIN i.datagrams_out = {}
    BY <1>2, <2>1 DEF Sound, Arrived
  <2>4. Sound(n, i, table, none)
    BY <2>1, <2>2 DEF Sound
  <2> QED BY <2>3, <2>4 DEF i
<1>8. Routing(router', 0, 0, table, none)
  BY <1>2, <1>5, <1>6, <1>7, Zenon DEF Routing
<1> QED BY <1>1, <1>8 DEF IInv

\* An ARP reply arrives.
LEMMA RecvReplyStep ==
  ASSUME IInv, NEW n \in 1..Interfaces, NEW ip \in IpAddress, RecvReply(n, ip)
  PROVE  IInv'
<1> DEFINE i == router.interfaces[n]
           j == async_recv_frame(i, ReplyFrame(n, ip))
           r == router
           s == router'
<1>1. /\ Routing(r, 0, 0, added, arrived) /\ arrived \in Seq(Arrival)
      /\ Len(arrived) <= MaxDatagrams /\ arrived' = arrived /\ added' = added
  BY Zenon DEF IInv, RecvReply
<1>2. /\ Shaped(r) /\ Tabled(r.routes, added)
      /\ \A p \in 1..Interfaces : Sound(p, r.interfaces[p], added, arrived)
  BY <1>1, Zenon DEF Routing
<1>3. s = [r EXCEPT !.interfaces[n] = j]
  BY DEF RecvReply, RecvFrame, ReplyFrame
<1>4. Sound(n, i, added, arrived)
  BY <1>2
<1>5. Requeued(n, i, j, i.datagrams_out)
  BY <1>4, ReplyKept, Zenon DEF Sound
<1> HIDE DEF i, j, r, s
<1>6. Replaced(r, s, n, j)
  BY <1>2, <1>3, SetInterface, Zenon
<1>7. Sound(n, j, added, arrived)
  BY <1>4, <1>5, RequeuedSound, Zenon DEF Sound
<1>8. ASSUME NEW p \in 1..Interfaces
      PROVE  /\ Sound(p, s.interfaces[p], added, arrived)
             /\ s.interfaces[p].datagrams_out = r.interfaces[p].datagrams_out
             /\ \A x : Forwarded(s.interfaces[p], x) = Forwarded(r.interfaces[p], x)
  <2>1. CASE p = n
    BY <1>5, <1>6, <1>7, <2>1, Zenon DEF Replaced, Requeued, Kept, i, r
  <2>2. CASE p # n
    BY <1>2, <1>6, <2>2, Zenon DEF Replaced
  <2> QED BY <2>1, <2>2
<1>9. More(r, s)
  BY <1>8 DEF More
<1>10. \A p, q \in 1..Interfaces : \A k \in DOMAIN s.interfaces[p].datagrams_out :
         Waits(s, p, k, 0, 0) => Ahead(s.interfaces[q], s.interfaces[p].datagrams_out[k], arrived)
  BY <1>1, <1>8, Zenon DEF Routing, Waits, Ahead
<1>11. \A id \in DOMAIN arrived :
         \/ Explained(s, id, added, arrived)
         \/ \E p \in 1..Interfaces : \E k \in DOMAIN s.interfaces[p].datagrams_out :
              Waits(s, p, k, 0, 0) /\ s.interfaces[p].datagrams_out[k].id = id
  <2> SUFFICES ASSUME NEW id \in DOMAIN arrived
               PROVE  \/ Explained(s, id, added, arrived)
                      \/ \E p \in 1..Interfaces : \E k \in DOMAIN s.interfaces[p].datagrams_out :
                           Waits(s, p, k, 0, 0) /\ s.interfaces[p].datagrams_out[k].id = id
    OBVIOUS
  <2>1. CASE Explained(r, id, added, arrived)
    BY <1>9, <2>1, StaysExplained, Zenon
  <2>2. CASE \E p \in 1..Interfaces : \E k \in DOMAIN r.interfaces[p].datagrams_out :
               Waits(r, p, k, 0, 0) /\ r.interfaces[p].datagrams_out[k].id = id
    BY <1>8, <2>2 DEF Waits
  <2> QED BY <1>1, <2>1, <2>2, Zenon DEF Routing
<1>12. Routing(s, 0, 0, added, arrived)
  <2>1. Shaped(s) /\ Tabled(s.routes, added)
    BY <1>2, <1>6, Zenon DEF Replaced
  <2> QED BY <1>8, <1>10, <1>11, <2>1, Zenon DEF Routing
<1> QED BY <1>1, <1>12, Zenon DEF IInv, s

\* A datagram arrives.
LEMMA RecvDatagramStep ==
  ASSUME IInv, NEW n \in 1..Interfaces, NEW dst \in IpAddress, NEW ttl \in 0..MaxTtl,
         RecvDatagram(n, dst, ttl)
  PROVE  IInv'
<1> DEFINE r == router
           s == router'
           log == arrived
           table == added
           new == Len(log) + 1
           d == [id |-> new, dst |-> dst, ttl |-> ttl]
           a == [dst |-> dst, ttl |-> ttl, at |-> n]
           l == Append(log, a)
           i == r.interfaces[n]
           frame == [src |-> AddressOf(dst), dst |-> OwnAddress(n), type |-> "IPv4", payload |-> d]
           j == async_recv_frame(i, frame)
<1>1. /\ Routing(r, 0, 0, table, log) /\ log \in Seq(Arrival) /\ Len(log) < MaxDatagrams
      /\ arrived' = l /\ added' = table
  BY Zenon DEF IInv, RecvDatagram
<1>2. /\ Shaped(r) /\ Tabled(r.routes, table)
      /\ \A p \in 1..Interfaces : Sound(p, r.interfaces[p], table, log)
  BY <1>1, Zenon DEF Routing
<1>3. s = [r EXCEPT !.interfaces[n] = j]
  BY DEF RecvDatagram, RecvFrame
<1>4. a \in Arrival /\ a.at = n /\ a.dst = dst /\ a.ttl = ttl
  BY DEF Arrival
<1>5. d \in Datagram /\ d.id = new /\ d.dst = dst /\ d.ttl = ttl
  BY <1>1, Constants DEF Datagram
<1> HIDE DEF a, d
<1>6. /\ l \in Seq(Arrival) /\ Len(l) = new /\ new <= MaxDatagrams /\ DOMAIN l = DOMAIN log \cup {new}
      /\ Longer(log, l) /\ \A k \in DOMAIN log : k \in Nat /\ k < new
  <2> HIDE DEF log
  <2>1. l \in Seq(Arrival) /\ Len(l) = new /\ new <= MaxDatagrams /\ DOMAIN l = DOMAIN log \cup {new}
    BY <1>1, <1>4, Constants
  <2>2. \A k \in DOMAIN log : k \in DOMAIN l /\ l[k] = log[k] /\ k \in Nat /\ k < new
    BY <1>1, <1>4
  <2> QED BY <2>1, <2>2 DEF Longer
<1>7. Node(n, i) /\ Arrived(n, i.datagrams_out, log) /\ i.datagrams_out \in Seq(Datagram)
  BY <1>2, Zenon DEF Sound, Node
<1> DEFINE o == i.datagrams_out
           q == Append(o, d)
<1>8. Requeued(n, i, j, q)
  BY <1>5, <1>7, DatagramReceived, Zenon
<1>9. Arrived(n, q, l)
  BY <1>1, <1>4, <1>5, <1>6, <1>7, ArrivedAppend, Zenon
<1>10. /\ DOMAIN q = DOMAIN o \cup {Len(o) + 1} /\ q[Len(o) + 1] = d
       /\ \A k \in DOMAIN o : q[k] = o[k]
  <2>1. o \in Seq(Datagram)
    BY <1>7
  <2> HIDE DEF o
  <2> QED BY <1>5, <2>1, HeldAppend
<1> HIDE DEF j, q, s, l, new, log
<1>11. Replaced(r, s, n, j)
  BY <1>2, <1>3, SetInterface, Zenon
<1>12. ASSUME NEW p \in 1..Interfaces
       PROVE  /\ Sound(p, s.interfaces[p], table, l)
              /\ \A x : Forwarded(s.interfaces[p], x) = Forwarded(r.interfaces[p], x)
  <2>1. Sound(p, r.interfaces[p], table, l)
    BY <1>2, <1>6, SoundLater, Zenon
  <2>2. CASE p = n
    <3>1. Sound(n, j, table, l)
      BY <1>8, <1>9, <2>1, <2>2, RequeuedSound, Zenon
    <3> QED BY <1>8, <1>11, <2>2, <3>1, Zenon DEF Replaced, Requeued, Kept
  <2>3. CASE p # n
    BY <1>11, <2>1, <2>3, Zenon DEF Replaced
  <2> QED BY <2>2, <2>3
<1>13. /\ s.interfaces[n].datagrams_out = q
       /\ \A p \in 1..Interfaces : p # n => s.interfaces[p] = r.interfaces[p]
  BY <1>8, <1>11, Zenon DEF Replaced, Requeued
<1> HIDE DEF r
<1>14. ASSUME NEW p \in 1..Interfaces, NEW k \in DOMAIN s.interfaces[p].datagrams_out
       PROVE  \/ p = n /\ s.interfaces[p].datagrams_out[k] = d
              \/ /\ k \in DOMAIN r.interfaces[p].datagrams_out
                 /\ s.interfaces[p].datagrams_out[k] = r.interfaces[p].datagrams_out[k]
  <2>1. CASE p = n
    BY <1>10, <1>13, <1>14, <2>1, Zenon
  <2>2. CASE p # n
    BY <1>13, <1>14, <2>2, Zenon
  <2> QED BY <2>1, <2>2
<1>15. ASSUME NEW x \in 1..Interfaces, NEW p \in 1..Interfaces,
              NEW k \in DOMAIN s.interfaces[p].datagrams_out
       PROVE  Ahead(s.interfaces[x], s.interfaces[p].datagrams_out[k], l)
  <2> DEFINE e == s.interfaces[p].datagrams_out[k]
  <2>1. Sound(x, r.interfaces[x], table, log)
    BY <1>2
  <2>2. Ahead(r.interfaces[x], e, l)
    <3>1. CASE e = d
      <4>1. ASSUME NEW y \in IpAddress, NEW c \in Forwarded(r.interfaces[x], y)
            PROVE  Before(l, c, d)
        <5>1. c.id \in DOMAIN log
          BY <2>1, <4>1, Zenon DEF Sound, Right
        <5>2. c.id < d.id
          BY <1>5, <1>6, <5>1, Zenon
        <5> QED BY <5>2 DEF Before
      <4> HIDE DEF e
      <4> QED BY <3>1, <4>1, Zenon DEF Ahead
    <3>2. CASE k \in DOMAIN r.interfaces[p].datagrams_out /\ e = r.interfaces[p].datagrams_out[k]
      <4>1. Ahead(r.interfaces[x], e, log)
        <5>1. p # 0
          BY Constants
        <5> HIDE DEF e
        <5> QED BY <1>1, <3>2, <5>1, Zenon DEF Routing, Waits
      <4>2. e.id \in DOMAIN log
        <5> HIDE DEF e
        <5> QED BY <1>2, <3>2, Zenon DEF Sound, Arrived
      <4> HIDE DEF e
      <4> QED BY <1>6, <2>1, <4>1, <4>2, AheadLater, Zenon
    <3> QED BY <1>14, <3>1, <3>2, Zenon
  <2> HIDE DEF e
  <2>3. Ahead(s.interfaces[x], e, l)
    BY <1>12, <2>2, Zenon DEF Ahead
  <2> QED BY <2>3 DEF e
<1>16. ASSUME NEW id \in DOMAIN l
       PROVE  \/ Explained(s, id, table, l)
              \/ \E p \in 1..Interfaces : \E k \in DOMAIN s.interfaces[p].datagrams_out :
                   s.interfaces[p].datagrams_out[k].id = id
  <2>1. CASE id = new
    BY <1>5, <1>10, <1>13, <2>1, Zenon
  <2>2. CASE id \in DOMAIN log /\ Explained(r, id, table, log)
    <3>1. Explained(r, id, table, l)
      BY <1>6, <2>2, ExplainedLater, Zenon
    <3>2. More(r, s)
      BY <1>12 DEF More
    <3> QED BY <3>1, <3>2, StaysExplained, Zenon
  <2>3. ASSUME NEW p \in 1..Interfaces, NEW k \in DOMAIN r.interfaces[p].datagrams_out,
               r.interfaces[p].datagrams_out[k].id = id
        PROVE  /\ k \in DOMAIN s.interfaces[p].datagrams_out
               /\ s.interfaces[p].datagrams_out[k].id = id
    <3>1. CASE p = n
      BY <1>10, <1>13, <2>3, <3>1 DEF i, r
    <3>2. CASE p # n
      BY <1>13, <2>3, <3>2
    <3> QED BY <3>1, <3>2
  <2>4. CASE id \in DOMAIN log /\ ~Explained(r, id, table, log)
    <3>1. \E p \in 1..Interfaces : \E k \in DOMAIN r.interfaces[p].datagrams_out :
            r.interfaces[p].datagrams_out[k].id = id
      BY <1>1, <2>4, Zenon DEF Routing
    <3> QED BY <2>3, <3>1
  <2>5. id = new \/ id \in DOMAIN log
    BY <1>6
  <2> QED BY <2>1, <2>2, <2>4, <2>5, Zenon
<1>17. \A p \in 1..Interfaces : p # 0
  BY Constants
<1>18. Shaped(s) /\ Tabled(s.routes, table)
  BY <1>2, <1>11, Zenon DEF Replaced
<1>19. Routing(s, 0, 0, table, l)
  BY <1>12, <1>15, <1>16, <1>17, <1>18, Zenon DEF Routing, Waits
<1> QED BY <1>1, <1>6, <1>19, Zenon DEF IInv, s

-----------------------------------------------------------------------------
\* matches() is right: the shift that is undefined is not looked at, and the
\* others compare the first bits.
LEMMA MatchesIsSamePrefix ==
  ASSUME NEW entry \in RouteRecord, NEW arg \in RouteArguments, NEW dst \in IpAddress,
         entry.prefix \in ShiftRight(arg.route_prefix, PREFIX_MAX_BITS - arg.prefix_length),
         entry.prefix_length = arg.prefix_length
  PROVE  matches(entry, dst) <=> SamePrefix(arg.route_prefix, dst, arg.prefix_length)
<1> DEFINE length == arg.prefix_length
           x == arg.route_prefix
<1>1. length \in 0..PREFIX_MAX_BITS /\ x \in IpAddress /\ PREFIX_MAX_BITS \in Nat
  BY Constants
<1> HIDE DEF x, length
<1>2. CASE length = 0
  <2> DEFINE all == 2^PREFIX_MAX_BITS
  <2>1. all \in Nat \ {0} /\ x \in 0..(all - 1) /\ dst \in 0..(all - 1)
    BY <1>1, RouterAssumption DEF IpAddress
  <2>2. PREFIX_MAX_BITS - length = PREFIX_MAX_BITS
    BY <1>1, <1>2
  <2> HIDE DEF all
  <2>3. x \div all = 0 /\ dst \div all = 0
    BY <2>1
  <2>4. SamePrefix(x, dst, length)
    BY <2>2, <2>3, Zenon DEF SamePrefix, all
  <2>5. matches(entry, dst)
    BY <1>2, Zenon DEF matches, length
  <2> QED BY <2>4, <2>5 DEF x, length
<1>3. CASE length # 0
  <2> DEFINE bits == PREFIX_MAX_BITS - length
             weight == 2^bits
  <2>1. bits < PREFIX_MAX_BITS
    BY <1>1, <1>3
  <2> HIDE DEF bits
  <2>2. entry.prefix = x \div weight
    BY <2>1 DEF ShiftRight, bits, x, length
  <2>3. matches(entry, dst) <=> entry.prefix = dst \div weight
    BY <2>1, <1>3 DEF matches, ShiftRight, bits, length
  <2>4. SamePrefix(x, dst, length) <=> x \div weight = dst \div weight
    BY DEF SamePrefix, bits
  <2> QED BY <2>2, <2>3, <2>4 DEF x, length
<1> QED BY <1>2, <1>3

\* What the loop of route_one_datagram() has found among the first n routes.
Best(found, n, routes, table, dst) ==
  \/ found = <<>> /\ \A j \in 1..n : j \notin Matching(table, dst)
  \/ \E k \in 1..n :
       /\ found = <<routes[k]>> /\ k \in Matching(table, dst)
       /\ \A j \in 1..n : j \in Matching(table, dst) =>
            \/ table[j].prefix_length < table[k].prefix_length
            \/ table[j].prefix_length = table[k].prefix_length /\ j <= k

\* One more candidate.
LEMMA BetterIsBest ==
  ASSUME NEW routes, NEW table, Tabled(routes, table), NEW dst \in IpAddress,
         NEW n \in 1..Len(table), NEW found, Best(found, n - 1, routes, table, dst)
  PROVE  Best(better(dst, found, routes[n]), n, routes, table, dst)
<1> DEFINE length == IF found = <<>> THEN 0 ELSE found[1].prefix_length
           Match(k) == k \in Matching(table, dst)
           size(k) == table[k].prefix_length
           after == better(dst, found, routes[n])
<1>1. /\ Len(table) \in Nat /\ DOMAIN table = 1..Len(table) /\ DOMAIN routes = 1..Len(table)
      /\ \A k \in 1..Len(table) : table[k] \in RouteArguments /\ routes[k] \in RouteRecord
  BY DEF Tabled
<1>2. \A k \in 1..Len(table) : size(k) \in Nat /\ routes[k].prefix_length = size(k)
  BY <1>1, Constants, SMTT(20) DEF Tabled
<1>3. matches(routes[n], dst) <=> Match(n)
  <2>1. matches(routes[n], dst)
          <=> SamePrefix(table[n].route_prefix, dst, table[n].prefix_length)
    BY <1>1, MatchesIsSamePrefix, Zenon DEF Tabled
  <2> QED BY <1>1, <2>1 DEF Matching
<1>4. after = IF size(n) >= length /\ Match(n) THEN <<routes[n]>> ELSE found
  BY <1>2, <1>3, Zenon DEF better
<1>5. n \in Nat \ {0} /\ \A j \in 1..n : j = n \/ j \in 1..(n - 1)
  BY <1>1
<1> HIDE DEF after, Match, size
<1>6. ASSUME found = <<>>, \A j \in 1..(n - 1) : ~Match(j)
      PROVE  Best(after, n, routes, table, dst)
  <2>1. length = 0 /\ size(n) >= 0
    BY <1>6, <1>2
  <2>2. CASE Match(n)
    <3>1. after = <<routes[n]>> /\ n \in 1..n
      BY <1>4, <1>5, <2>1, <2>2
    <3>2. \A j \in 1..n : Match(j) => size(j) = size(n) /\ j <= n
      BY <1>5, <1>6
    <3> QED BY <3>1, <3>2, <2>2, Zenon DEF Best, Match, size
  <2>3. CASE ~Match(n)
    <3>1. after = <<>> /\ \A j \in 1..n : ~Match(j)
      BY <1>4, <1>5, <1>6, <2>3
    <3> QED BY <3>1, Zenon DEF Best, Match
  <2> QED BY <2>2, <2>3
<1>7. ASSUME NEW k \in 1..(n - 1), found = <<routes[k]>>, Match(k),
             \A j \in 1..(n - 1) :
               Match(j) => size(j) < size(k) \/ (size(j) = size(k) /\ j <= k)
      PROVE  Best(after, n, routes, table, dst)
  <2>1. k \in 1..Len(table) /\ k \in 1..n /\ k < n
    BY <1>1
  <2>4. length = size(k)
    <3>1. found # <<>> /\ found[1] = routes[k]
      BY <1>7
    <3>2. routes[k].prefix_length = size(k)
      BY <1>2, <2>1, Zenon
    <3> QED BY <3>1, <3>2, Zenon
  <2>2. CASE size(n) >= length /\ Match(n)
    <3>1. after = <<routes[n]>> /\ n \in 1..n
      BY <1>4, <1>5, <2>2
    <3>2. \A j \in 1..n : Match(j) => size(j) < size(n) \/ (size(j) = size(n) /\ j <= n)
      BY <1>5, <1>7, <1>2, <2>1, <2>4, <2>2
    <3> QED BY <3>1, <3>2, <2>2, Zenon DEF Best, Match, size
  <2>3. CASE ~(size(n) >= length /\ Match(n))
    <3>1. after = found
      BY <1>4, <2>3
    <3>2. \A j \in 1..n : Match(j) => size(j) < size(k) \/ (size(j) = size(k) /\ j <= k)
      BY <1>5, <1>7, <1>2, <2>1, <2>4, <2>3
    <3> QED BY <3>1, <3>2, <2>1, <1>7, Zenon DEF Best, Match, size
  <2> QED BY <2>2, <2>3
<1> QED BY <1>6, <1>7, Zenon DEF Best, Match, size, after

Table == INSTANCE LoopProofs WITH op <- LAMBDA p, found, candidate : better(p, found, candidate)

\* find_route() finds the longest match, or nothing if there is none.
LEMMA FindRoute ==
  ASSUME NEW routes, NEW table, Tabled(routes, table), NEW dst \in IpAddress
  PROVE  \/ find_route(routes, dst) = <<>> /\ Matching(table, dst) = {}
         \/ \E k \in DOMAIN table :
              IsBest(table, k, dst) /\ find_route(routes, dst) = <<routes[k]>>
<1> DEFINE n == Len(table)
           none == <<>>
           found == find_route(routes, dst)
<1>1. n \in Nat /\ DOMAIN routes = 1..n /\ DOMAIN table = 1..n
  BY DEF Tabled
<1>2. found = Table!Folded(dst, none, routes)
  BY DEF find_route, Iterate, Table!Folded, MapThenFoldSet, Table!MapThenFoldSet, Table!Max
<1> HIDE DEF none
<1>3. PICK f : Table!IsTrace(f, dst, none, routes, n) /\ Table!Folded(dst, none, routes) = f[n]
  <2> HIDE DEF n
  <2>1. \E f : Table!IsTrace(f, dst, none, routes, n) /\ Table!Folded(dst, none, routes) = f[n]
    BY <1>1, Table!FoldTrace
  <2> QED BY <2>1
<1>4. /\ f[0] = none
      /\ \A k \in 1..n : f[k] = better(dst, f[k - 1], routes[k])
  BY <1>1, <1>3 DEF Table!IsTrace
<1> DEFINE P == {k \in Nat : k <= n => Best(f[k], k, routes, table, dst)}
<1>5. 0 \in P
  BY <1>4 DEF Best, none
<1>6. ASSUME NEW k \in Nat, k \in P PROVE k + 1 \in P
  <2> SUFFICES ASSUME k + 1 <= n PROVE Best(f[k + 1], k + 1, routes, table, dst)
    OBVIOUS
  <2>1. k + 1 \in 1..n /\ (k + 1) - 1 = k /\ k <= n
    BY <1>1
  <2>2. Best(f[k], k, routes, table, dst)
    BY <1>6, <2>1
  <2>3. f[k + 1] = better(dst, f[k], routes[k + 1])
    BY <1>4, <2>1
  <2> QED BY <2>1, <2>2, <2>3, BetterIsBest
<1>7. n \in P
  <2> HIDE DEF P
  <2> QED BY <1>1, <1>5, <1>6, Table!SetInduction
<1>8. Best(found, n, routes, table, dst)
  BY <1>1, <1>2, <1>3, <1>7
<1> HIDE DEF found
<1>9. Matching(table, dst) \subseteq 1..n
  BY <1>1 DEF Matching
<1>10. CASE found = <<>> /\ \A j \in 1..n : j \notin Matching(table, dst)
  <2>1. Matching(table, dst) = {}
    BY <1>9, <1>10
  <2> QED BY <1>10, <2>1 DEF found
<1>11. ASSUME NEW k \in 1..n, found = <<routes[k]>>, k \in Matching(table, dst),
              \A j \in 1..n : j \in Matching(table, dst) =>
                \/ table[j].prefix_length < table[k].prefix_length
                \/ table[j].prefix_length = table[k].prefix_length /\ j <= k
       PROVE  IsBest(table, k, dst) /\ found = <<routes[k]>> /\ k \in DOMAIN table
  BY <1>1, <1>9, <1>11, Zenon DEF IsBest
<1> QED BY <1>8, <1>10, <1>11, Zenon DEF Best, found

\* The invariant of the inner loop, with the queue that it goes through.
Handled(s, queue, m, k, table, log) ==
  Routing(s, m, k, table, log) /\ s.interfaces[m].datagrams_out = queue

\* route_one_datagram() is a step of the inner loop.
LEMMA RouteOne ==
  ASSUME NEW table, NEW log, NEW m \in 1..Interfaces, NEW k \in Nat, NEW r,
         Routing(r, m, k, table, log), k + 1 \in DOMAIN r.interfaces[m].datagrams_out,
         NEW s, s = route_one_datagram(r, r.interfaces[m].datagrams_out[k + 1])
  PROVE  Handled(s, r.interfaces[m].datagrams_out, m, k + 1, table, log)
<1> DEFINE dgram == r.interfaces[m].datagrams_out[k + 1]
           found == find_route(r.routes, dgram.dst)
           e == [dgram EXCEPT !.ttl = @ - 1]
<1>1. /\ Shaped(r) /\ Tabled(r.routes, table)
      /\ \A n \in 1..Interfaces : Sound(n, r.interfaces[n], table, log)
  BY Zenon DEF Routing
<1>2. r.interfaces[m].datagrams_out \in Seq(Datagram) /\ Arrived(m, r.interfaces[m].datagrams_out, log)
  BY <1>1, Zenon DEF Sound, Node
<1>3. dgram \in Datagram
  BY <1>2
<1>4. /\ dgram.id \in DOMAIN log /\ log[dgram.id].at = m
      /\ dgram.dst = log[dgram.id].dst /\ dgram.ttl = log[dgram.id].ttl
  BY <1>2, Zenon DEF Arrived
<1>5. \A n \in 1..Interfaces : Ahead(r.interfaces[n], dgram, log)
  <2>1. Waits(r, m, k + 1, m, k)
    BY DEF Waits
  <2> QED BY <2>1, Zenon DEF Routing
<1>6. dgram.dst \in IpAddress /\ dgram.id \in Nat /\ dgram.ttl \in Nat
  <2> HIDE DEF dgram
  <2>1. dgram.id \in 1..MaxDatagrams /\ dgram.dst \in IpAddress /\ dgram.ttl \in 0..MaxTtl
    BY <1>3 DEF Datagram
  <2> QED BY <2>1, Constants
<1> HIDE DEF dgram
<1>7. CASE dgram.ttl <= 1 \/ found = <<>>
  <2>1. s = r
    BY <1>7, Zenon DEF route_one_datagram, dgram
  <2>2. Explained(r, dgram.id, table, log)
    <3>1. CASE dgram.ttl <= 1
      BY <1>4, <3>1, Zenon DEF Explained
    <3>2. CASE found = <<>>
      <4>1. ASSUME NEW b, found = <<r.routes[b]>> PROVE FALSE
        <5> HIDE DEF found
        <5> QED BY <3>2, <4>1
      <4>2. Matching(table, dgram.dst) = {}
        BY <1>1, <1>6, <4>1, FindRoute, Zenon
      <4> QED BY <1>4, <4>2, Zenon DEF Explained
    <3> QED BY <1>7, <3>1, <3>2
  <2>3. Advanced(r, r, dgram)
    BY <1>1, Zenon DEF Advanced, More
  <2>4. Routing(r, m, k + 1, table, log)
    BY <1>1, <2>2, <2>3, Advance, Zenon DEF dgram
  <2> QED BY <2>1, <2>4 DEF Handled
<1>8. CASE ~(dgram.ttl <= 1 \/ found = <<>>)
  <2>1. \E b \in DOMAIN table : IsBest(table, b, dgram.dst) /\ found = <<r.routes[b]>>
    BY <1>1, <1>6, <1>8, FindRoute, Zenon
  <2>2. PICK b \in DOMAIN table : IsBest(table, b, dgram.dst) /\ found = <<r.routes[b]>>
    BY <2>1
  <2> DEFINE n == table[b].interface_num
             hop == IF table[b].next_hop = Direct THEN dgram.dst ELSE table[b].next_hop
             i == r.interfaces[n]
             j == send_datagram(i, e, hop)
  <2>3. n \in 1..Interfaces /\ hop \in IpAddress
    <3>1. table[b] \in RouteArguments
      BY <1>1 DEF Tabled
    <3> QED BY <1>6, <3>1, Constants
  <2>4. found[1].next_hop = table[b].next_hop /\ found[1].interface_num = n
    <3>1. r.routes[b].next_hop = table[b].next_hop /\ r.routes[b].interface_num = n
      BY <1>1, Zenon DEF Tabled
    <3>2. found[1] = r.routes[b]
      <4> HIDE DEF found
      <4> QED BY <2>2
    <3> HIDE DEF found
    <3> QED BY <3>1, <3>2
  <2> HIDE DEF found
  <2>5. s = [r EXCEPT !.interfaces[n] = j]
    <3>1. s = [r EXCEPT !.interfaces[found[1].interface_num] =
                 send_datagram(@, e, IF found[1].next_hop = Direct THEN dgram.dst
                                     ELSE found[1].next_hop)]
      BY <1>8, Zenon DEF route_one_datagram, dgram, found
    <3>2. s = [r EXCEPT !.interfaces[n] = send_datagram(@, e, hop)]
      BY <2>4, <3>1
    <3> QED BY <3>2
  <2>6. e \in Datagram /\ e.id = dgram.id /\ e.dst = dgram.dst /\ e.ttl = dgram.ttl - 1 /\ e.ttl > 0
    <3> HIDE DEF e
    <3>1. dgram.ttl > 1
      BY <1>6, <1>8
    <3> QED BY <1>3, <3>1, Decrement DEF e
  <2> HIDE DEF n, hop, e, i, j
  <2>7. LeadsTo(table, dgram.dst, n, hop)
    BY <2>2, Zenon DEF LeadsTo, n, hop
  <2>8. Right(e, n, hop, table, log)
    BY <1>4, <2>6, <2>7, Zenon DEF Right
  <2>9. Ahead(i, e, log)
    <3>1. Ahead(i, dgram, log)
      BY <1>5, <2>3 DEF i
    <3> QED BY <2>6, <3>1, Zenon DEF Ahead, Before
  <2>10. Sound(n, i, table, log)
    BY <1>1, <2>3 DEF i
  <2>11. Sound(n, j, table, log) /\ Delivered(i, j, e, hop, log)
    BY <2>3, <2>8, <2>9, <2>10, SendSound, Zenon DEF j
  <2>12. /\ Shaped(s) /\ s.routes = r.routes /\ s.interfaces[n] = j
         /\ \A p \in 1..Interfaces : p # n => s.interfaces[p] = r.interfaces[p]
    <3>1. Replaced(r, s, n, j)
      BY <1>1, <2>3, <2>5, SetInterface, Zenon
    <3> QED BY <3>1, Zenon DEF Replaced
  <2>13. \A p \in 1..Interfaces : Sound(p, s.interfaces[p], table, log)
    BY <1>1, <2>11, <2>12, Zenon
  <2>14. \A x : /\ Forwarded(i, x) \subseteq Forwarded(j, x)
                /\ Forwarded(j, x) \subseteq Forwarded(i, x) \cup {e}
    <3>1. ASSUME NEW x PROVE /\ Forwarded(i, x) \subseteq Forwarded(j, x)
                             /\ Forwarded(j, x) \subseteq Forwarded(i, x) \cup {e}
      <4>1. CASE x = hop
        BY <2>11, <4>1, Zenon DEF Delivered
      <4>2. CASE x # hop
        <5>1. Forwarded(j, x) = Forwarded(i, x)
          BY <2>11, <4>2, Zenon DEF Delivered, Kept
        <5> QED BY <5>1
      <4> QED BY <4>1, <4>2, Zenon
    <3> QED BY <3>1, Zenon
  <2>15. j.datagrams_out = i.datagrams_out
    BY <2>11, Zenon DEF Delivered
  <2>16. Advanced(r, s, e)
    <3>1. \A p \in 1..Interfaces : s.interfaces[p].datagrams_out = r.interfaces[p].datagrams_out
      BY <2>12, <2>15, Zenon DEF i
    <3>2. More(r, s)
      BY <2>12, <2>14, Zenon DEF More, i
    <3>3. \A p \in 1..Interfaces, x \in IpAddress :
            Forwarded(s.interfaces[p], x) \subseteq Forwarded(r.interfaces[p], x) \cup {e}
      BY <2>12, <2>14, Zenon DEF i
    <3> QED BY <2>12, <3>1, <3>2, <3>3, Zenon DEF Advanced
  <2>17. Explained(s, e.id, table, log)
    <3>1. CASE e \in Forwarded(j, hop)
      BY <2>3, <2>12, <3>1, Zenon DEF Explained
    <3>2. CASE Forwarded(i, hop) # {} /\ Forwarded(j, hop) = Forwarded(i, hop)
      <4>1. PICK d \in Forwarded(i, hop) : TRUE
        BY <3>2
      <4>2. Before(log, d, e)
        BY <2>3, <2>9 DEF Ahead
      <4>3. d.id # e.id
        BY <1>6, <2>6, <4>2 DEF Before
      <4>4. d \in Forwarded(s.interfaces[n], hop)
        BY <2>12, <3>2, Zenon
      <4>5. LeadsTo(table, log[e.id].dst, n, hop)
        BY <1>4, <2>6, <2>7, Zenon
      <4> QED BY <2>3, <4>3, <4>4, <4>5, Zenon DEF Explained
    <3> QED BY <2>11, <3>1, <3>2, Zenon DEF Delivered
  <2>18. e.id = r.interfaces[m].datagrams_out[k + 1].id
    BY <2>6, Zenon DEF dgram
  <2>19. Routing(s, m, k + 1, table, log)
    BY <2>13, <2>16, <2>17, <2>18, Advance, Zenon
  <2> QED BY <2>16, <2>19, Zenon DEF Advanced, Handled
<1> QED BY <1>7, <1>8, Zenon

-----------------------------------------------------------------------------
\* The loops of route().
Inner == INSTANCE LoopProofs WITH op <- LAMBDA p, acc, x : route_one_datagram(acc, x)
Outer == INSTANCE LoopProofs WITH op <- LAMBDA p, acc, x : route_interface(acc, x)

\* The inner loop of route().
LEMMA RouteInterface ==
  ASSUME NEW table, NEW log, NEW m \in 1..Interfaces, NEW r, Routing(r, 0, 0, table, log)
  PROVE  Routing(route_interface(r, m), 0, 0, table, log)
<1> DEFINE o == r.interfaces[m].datagrams_out
           n == Len(o)
           last == Inner!Folded(0, r, o)
<1>1. \A p \in 1..Interfaces : r.interfaces[p].datagrams_out \in Seq(Datagram)
  BY Zenon DEF Routing, Sound, Node
<1>2. n \in Nat /\ DOMAIN o = 1..n
  BY <1>1
<1>3. route_interface(r, m) = [last EXCEPT !.interfaces[m].datagrams_out = <<>>]
  BY DEF route_interface, Iterate, Inner!Folded, MapThenFoldSet, Inner!MapThenFoldSet, Inner!Max
<1> HIDE DEF o
<1>4. PICK f : Inner!IsTrace(f, 0, r, o, n) /\ last = f[n]
  <2> HIDE DEF n
  <2>1. \E f : Inner!IsTrace(f, 0, r, o, n) /\ Inner!Folded(0, r, o) = f[n]
    BY <1>2, Inner!FoldTrace
  <2> QED BY <2>1
<1>5. /\ f[0] = r
      /\ \A k \in 1..n : f[k] = route_one_datagram(f[k - 1], o[k])
  BY <1>2, <1>4 DEF Inner!IsTrace
<1> DEFINE Good(k) == Handled(f[k], o, m, k, table, log)
           P == {k \in Nat : k <= n => Good(k)}
<1> HIDE DEF last, n
<1>6. 0 \in P
  <2>1. \A p \in 1..Interfaces : \A j \in DOMAIN r.interfaces[p].datagrams_out :
          Waits(r, p, j, 0, 0) <=> Waits(r, p, j, m, 0)
    BY <1>1 DEF Waits
  <2>2. Routing(r, m, 0, table, log)
    BY <2>1, Zenon DEF Routing
  <2>3. Good(0)
    BY <1>5, <2>2 DEF o, Handled
  <2> HIDE DEF Good
  <2> QED BY <2>3
<1>7. ASSUME NEW k \in Nat, k \in P PROVE k + 1 \in P
  <2> SUFFICES ASSUME k + 1 <= n PROVE Good(k + 1)
    BY DEF P
  <2>1. k + 1 \in 1..n /\ (k + 1) - 1 = k /\ k <= n
    BY <1>2
  <2>2. Good(k)
    BY <1>7, <2>1
  <2>3. f[k + 1] = route_one_datagram(f[k], f[k].interfaces[m].datagrams_out[k + 1])
    BY <1>5, <2>1, <2>2 DEF Handled
  <2>4. k + 1 \in DOMAIN f[k].interfaces[m].datagrams_out
    BY <1>2, <2>1, <2>2 DEF Handled
  <2>5. Handled(f[k + 1], f[k].interfaces[m].datagrams_out, m, k + 1, table, log)
    <3>1. Routing(f[k], m, k, table, log)
      BY <2>2, Zenon DEF Handled
    <3> QED BY <2>3, <2>4, <3>1, RouteOne, Zenon
  <2> QED BY <2>2, <2>5 DEF Handled
<1>8. n \in P
  <2> HIDE DEF P
  <2> QED BY <1>2, <1>6, <1>7, Inner!SetInduction
<1>9. Good(n)
  <2> HIDE DEF Good
  <2> QED BY <1>2, <1>8
<1>10. Routing(last, m, n, table, log) /\ DOMAIN last.interfaces[m].datagrams_out = 1..n
  BY <1>2, <1>4, <1>9 DEF Handled
<1> QED BY <1>2, <1>3, <1>10, Emptied, Zenon

\* The outer loop of route().
LEMMA RouteAll ==
  ASSUME NEW table, NEW log, NEW r, Routing(r, 0, 0, table, log)
  PROVE  Routing(route(r), 0, 0, table, log)
<1> DEFINE n == Interfaces
           o == [x \in DOMAIN r.interfaces |-> x]
<1>1. n \in Nat /\ DOMAIN o = 1..n /\ \A k \in 1..n : o[k] = k
  <2>1. DOMAIN r.interfaces = 1..n
    <3>1. r.interfaces = [x \in 1..n |-> r.interfaces[x]]
      BY Zenon DEF Routing, Shaped
    <3> DEFINE g == r.interfaces
    <3> HIDE DEF g
    <3>2. g = [x \in 1..n |-> g[x]]
      BY <3>1 DEF g
    <3>3. DOMAIN g = 1..n
      BY <3>2
    <3> QED BY <3>3 DEF g
  <2> QED BY <2>1, Constants
<1>2. route(r) = Outer!Folded(0, r, o)
  BY DEF route, Iterate, Outer!Folded, MapThenFoldSet, Outer!MapThenFoldSet, Outer!Max
<1> HIDE DEF o
<1>3. PICK f : Outer!IsTrace(f, 0, r, o, n) /\ route(r) = f[n]
  <2>1. \E f : Outer!IsTrace(f, 0, r, o, n) /\ Outer!Folded(0, r, o) = f[n]
    BY <1>1, Outer!FoldTrace
  <2> QED BY <1>2, <2>1
<1>4. /\ f[0] = r
      /\ \A k \in 1..n : f[k] = route_interface(f[k - 1], k)
  BY <1>1, <1>3 DEF Outer!IsTrace
<1> DEFINE P == {k \in Nat : k <= n => Routing(f[k], 0, 0, table, log)}
<1>5. 0 \in P
  BY <1>4
<1>6. ASSUME NEW k \in Nat, k \in P PROVE k + 1 \in P
  <2> SUFFICES ASSUME k + 1 <= n PROVE Routing(f[k + 1], 0, 0, table, log)
    OBVIOUS
  <2>1. k + 1 \in 1..n /\ (k + 1) - 1 = k /\ k <= n
    BY <1>1
  <2>2. Routing(f[k], 0, 0, table, log)
    BY <1>6, <2>1
  <2>3. f[k + 1] = route_interface(f[k], k + 1)
    BY <1>4, <2>1
  <2> QED BY <2>1, <2>2, <2>3, RouteInterface
<1>7. n \in P
  <2> HIDE DEF P
  <2> QED BY <1>1, <1>5, <1>6, Outer!SetInduction
<1> QED BY <1>1, <1>3, <1>7

\* route() is called.
LEMMA RouteStep ==
  ASSUME IInv, Route
  PROVE  IInv'
<1>1. /\ router' = route(router) /\ added' = added /\ arrived' = arrived
      /\ Routing(router, 0, 0, added, arrived)
      /\ arrived \in Seq(Arrival) /\ Len(arrived) <= MaxDatagrams
  BY Zenon DEF IInv, Route
<1>2. Routing(route(router), 0, 0, added, arrived)
  BY <1>1, RouteAll, Zenon
<1> QED BY <1>1, <1>2, Zenon DEF IInv

\* Every step keeps the inductive invariant.
LEMMA NextIInv ==
  ASSUME IInv, [Next]_vars
  PROVE  IInv'
<1>1. CASE \E a \in RouteArguments : AddRoute(a)
  BY <1>1, AddRouteStep, Zenon
<1>2. CASE \E n \in 1..Interfaces, dst \in IpAddress, ttl \in 0..MaxTtl : RecvDatagram(n, dst, ttl)
  BY <1>2, RecvDatagramStep, Zenon
<1>3. CASE \E n \in 1..Interfaces, ip \in IpAddress : RecvReply(n, ip)
  BY <1>3, RecvReplyStep, Zenon
<1>4. CASE Route
  BY <1>4, RouteStep, Zenon
<1>5. CASE UNCHANGED vars
  BY <1>5, Zenon DEF IInv, vars
<1> QED BY <1>1, <1>2, <1>3, <1>4, <1>5, Zenon DEF Next

-----------------------------------------------------------------------------
\* The inductive invariant holds in every reachable state.
THEOREM Invariance == Spec => []IInv
<1>1. Init => IInv
  BY InitIInv
<1>2. IInv /\ [Next]_vars => IInv'
  BY NextIInv
<1> QED BY <1>1, <1>2, PTL DEF Spec

\* For every routing table, in any order, and every width of addresses, a
\* datagram that Router::route() sends on leaves by the interface and for the
\* next hop of the longest prefix that matches, with a smaller ttl.
THEOREM LongestPrefix == Spec => []LongestPrefixForwarding
<1>1. IInv => LongestPrefixForwarding
  <2>1. ASSUME IInv
        PROVE  \A n \in 1..Interfaces, ip \in IpAddress :
                 \A d \in Forwarded(router.interfaces[n], ip) : Right(d, n, ip, added, arrived)
    BY <2>1, Zenon DEF IInv, Routing, Sound
  <2> QED BY <2>1 DEF Right, LongestPrefixForwarding
<1> QED BY <1>1, Invariance, PTL

\* For any number of interfaces and datagrams, Router::route() keeps the order of
\* the datagrams from one interface to one next hop and sends none twice, though
\* some are held back until an ARP reply.
THEOREM ForwardsInOrder == Spec => []ForwardedInOrder
<1>1. IInv => ForwardedInOrder
  BY Zenon DEF IInv, Routing, Sound, ForwardedInOrder
<1> QED BY <1>1, Invariance, PTL

\* For any number of interfaces and datagrams, a datagram that is neither queued
\* nor sent on had no ttl left, matched no route, or came to send_datagram() while
\* a request for its next hop was pending on behalf of another, which is not lost.
THEOREM DropsForAReason == Spec => []DroppedForAReason
<1>1. IInv => DroppedForAReason
  BY Zenon DEF IInv, Routing, Waits, DroppedForAReason, Range
<1> QED BY <1>1, Invariance, PTL
=============================================================================
