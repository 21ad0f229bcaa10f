----------------------- MODULE NetworkInterfaceProofs -----------------------
(***************************************************************************)
(* Safety of NetworkInterface for every number of hosts, addresses and     *)
(* datagrams and for every pair of timeouts: a datagram that was accepted  *)
(* is sent once and in order or is still held, none waits for a known      *)
(* address, a stale address is used for a bounded time, and requests for a *)
(* host are spaced.                                                        *)
(***************************************************************************)
EXTENDS NetworkInterfaceSpec, SequenceTheorems, TLAPS

\* The interface with these frames, cache, queue and timers.
Interface(f, c, q, t) ==
  [ethernet_address |-> OwnAddress, ip_address |-> OwnIp, frames_out |-> f,
   cached_ethernet_addresses |-> c, datagram_queue |-> q, arp_message_timers |-> t]

Frame(type, payload, address) ==
  [src |-> OwnAddress, dst |-> address, type |-> type, payload |-> payload]

Message(opcode, address, ip) ==
  [opcode |-> opcode, sender_ethernet_address |-> OwnAddress, sender_ip_address |-> OwnIp,
   target_ethernet_address |-> address, target_ip_address |-> ip]

Entry == [address : Addresses, cache_time : 0..MAX_ETHERNET_CACHE_TIME]

\* The variables have their types.
Typed ==
  /\ interface = Interface(frames, cache, queue, timers)
  /\ cache \in [DOMAIN cache -> Entry] /\ DOMAIN cache \subseteq Hosts
  /\ queue \in [DOMAIN queue -> Seq(1..MaxDatagrams)] /\ DOMAIN queue \subseteq Hosts
  /\ timers \in [DOMAIN timers -> 0..RESEND_ARP_MESSAGE_TIME] /\ DOMAIN timers \subseteq Hosts
  /\ mac \in [Hosts -> Addresses]
  /\ hop \in Seq(Hosts) /\ Len(hop) <= MaxDatagrams
  /\ since \in [Hosts -> Nat] /\ changed \in [Hosts -> Nat]

\* A datagram is held back under its own next hop.
HeldForHop ==
  \A ip \in DOMAIN queue : \A k \in DOMAIN queue[ip] :
    queue[ip][k] \in DOMAIN hop /\ hop[queue[ip][k]] = ip

\* While less than RESEND_ARP_MESSAGE_TIME has passed since a request, its
\* timer is there and shows that time.
TimerIsPending ==
  \A ip \in Hosts : since[ip] <= RESEND_ARP_MESSAGE_TIME =>
    ip \in DOMAIN timers /\ timers[ip] = since[ip]

\* The inductive invariant.
IInv == Typed /\ HeldForHop /\ TimerIsPending /\ AddressIsRecent /\ KnownIsNotAwaited

\* What RequestsSpaced says of a step.
Spaced ==
  \A k \in DOMAIN frames' : IsRequest(frames'[k]) =>
    since[frames'[k].payload.target_ip_address] > RESEND_ARP_MESSAGE_TIME
-----------------------------------------------------------------------------
\* send_frame() adds a frame to those of the last call.
LEMMA SendFrame ==
  ASSUME NEW f, NEW c, NEW q, NEW t, NEW type, NEW payload, NEW address
  PROVE  send_frame(Interface(f, c, q, t), type, payload, address)
           = Interface(Append(f, Frame(type, payload, address)), c, q, t)
<1> DEFINE g == Append(f, Frame(type, payload, address))
           i == Interface(f, c, q, t)
<1>1. i.ethernet_address = OwnAddress /\ i.frames_out = f
  BY DEF Interface
<1>2. [i EXCEPT !.frames_out = g] = Interface(g, c, q, t)
  <2> HIDE DEF g
  <2> QED BY DEF Interface
<1> HIDE DEF i
<1>3. send_frame(i, type, payload, address) = [i EXCEPT !.frames_out = g]
  BY <1>1 DEF send_frame, Frame
<1> QED BY <1>2, <1>3 DEF i

\* send_datagram() sends, does nothing, or asks and holds back.
LEMMA SendDatagramFields ==
  ASSUME NEW f, NEW c, NEW q, NEW t, NEW d, NEW ip
  PROVE  LET held == IF ip \in DOMAIN q THEN q[ip] ELSE <<>>
             request == Frame("ARP", Message("request", NoAddress, ip), ETHERNET_BROADCAST)
         IN  /\ ip \in DOMAIN c =>
                  send_datagram(Interface(f, c, q, t), d, ip)
                    = Interface(Append(f, Frame("IPv4", d, c[ip].address)), c, q, t)
             /\ ip \notin DOMAIN c /\ ip \in DOMAIN t =>
                  send_datagram(Interface(f, c, q, t), d, ip) = Interface(f, c, q, t)
             /\ ip \notin DOMAIN c /\ ip \notin DOMAIN t =>
                  send_datagram(Interface(f, c, q, t), d, ip)
                    = Interface(Append(f, request), c, Put(q, ip, Append(held, d)), Put(t, ip, 0))
<1> DEFINE i == Interface(f, c, q, t)
           held == IF ip \in DOMAIN q THEN q[ip] ELSE <<>>
           message == construct_arp_message(i, "request", NoAddress, ip)
<1>1. /\ i.cached_ethernet_addresses = c /\ i.datagram_queue = q
      /\ i.arp_message_timers = t
  BY DEF Interface
<1>2. message = Message("request", NoAddress, ip)
  BY DEF Interface, construct_arp_message, Message
<1>3. send_frame(i, "IPv4", d, c[ip].address)
        = Interface(Append(f, Frame("IPv4", d, c[ip].address)), c, q, t)
  BY SendFrame
<1>4. send_frame(i, "ARP", message, ETHERNET_BROADCAST)
        = Interface(Append(f, Frame("ARP", message, ETHERNET_BROADCAST)), c, q, t)
  BY SendFrame
<1>5. ASSUME NEW g
      PROVE  [Interface(g, c, q, t) EXCEPT
                !.datagram_queue = Put(@, ip, Append(held, d)),
                !.arp_message_timers = Put(@, ip, 0)]
             = Interface(g, c, Put(q, ip, Append(held, d)), Put(t, ip, 0))
  <2> DEFINE x == Put(q, ip, Append(held, d))
             y == Put(t, ip, 0)
             j == Interface(g, c, q, t)
  <2>1. j.datagram_queue = q /\ j.arp_message_timers = t
    BY DEF Interface
  <2>2. /\ [j EXCEPT !.datagram_queue = x] = Interface(g, c, x, t)
        /\ [Interface(g, c, x, t) EXCEPT !.arp_message_timers = y] = Interface(g, c, x, y)
    <3> HIDE DEF x, y
    <3>1. [j EXCEPT !.datagram_queue = x] = Interface(g, c, x, t)
      BY DEF Interface
    <3>2. [Interface(g, c, x, t) EXCEPT !.arp_message_timers = y] = Interface(g, c, x, y)
      BY DEF Interface
    <3> QED BY <3>1, <3>2
  <2> HIDE DEF j
  <2>3. [j EXCEPT !.datagram_queue = Put(@, ip, Append(held, d)),
                  !.arp_message_timers = Put(@, ip, 0)]
          = [j EXCEPT !.datagram_queue = x, !.arp_message_timers = y]
    BY <2>1
  <2> HIDE DEF x, y
  <2>4. [j EXCEPT !.datagram_queue = x, !.arp_message_timers = y] = Interface(g, c, x, y)
    BY <2>2, Zenon
  <2> QED BY <2>3, <2>4 DEF j, x, y
<1> QED BY <1>1, <1>2, <1>3, <1>4, <1>5, Zenon DEF send_datagram

\* The frames that take the datagrams of q to address.
Released(q, address) == [k \in DOMAIN q |-> Frame("IPv4", q[k], address)]

\* The cache once the address of ip is learnt, the queue once what was held back
\* for ip is sent, the frames after that, and the frame of a reply.
Learnt(c, ip, address) ==
  Put(c, ip, [address |-> address,
              cache_time |-> IF ip \in DOMAIN c THEN c[ip].cache_time ELSE 0])
Unheld(q, ip) == IF ip \in DOMAIN q THEN Erase(q, ip) ELSE q
SentTo(f, q, ip, address) == IF ip \in DOMAIN q THEN f \o Released(q[ip], address) ELSE f
Answer(ip, address) == Frame("ARP", Message("reply", address, ip), address)

\* recv_frame() of an ARP message learns the address of the sender, sends what
\* was held back for it, and may reply.
LEMMA RecvArpFields ==
  ASSUME NEW f, NEW c, NEW q, NEW t, NEW arp, NEW src, NEW dst, arp # Malformed,
         NEW ip, NEW address,
         arp.sender_ip_address = ip, arp.sender_ethernet_address = address
  PROVE  LET after == recv_frame(Interface(f, c, q, t),
                        [src |-> src, dst |-> dst, type |-> "ARP", payload |-> arp]).interface
             out == SentTo(f, q, ip, address)
         IN  \/ after = Interface(out, Learnt(c, ip, address), Unheld(q, ip), t)
             \/ after = Interface(Append(out, Answer(ip, address)),
                                  Learnt(c, ip, address), Unheld(q, ip), t)
<1> DEFINE learnt == Learnt(c, ip, address)
           queued == Unheld(q, ip)
           out == SentTo(f, q, ip, address)
           frame == [src |-> src, dst |-> dst, type |-> "ARP", payload |-> arp]
           i == Interface(f, c, q, t)
<1>1. learn(i, arp) = Interface(f, learnt, q, t)
  BY DEF learn, Interface, Learnt
<1>2. send_queued(Interface(f, learnt, q, t), ip, address) = Interface(out, learnt, queued, t)
  <2>1. CASE ip \notin DOMAIN q
    BY <2>1 DEF send_queued, Interface, SentTo, Unheld
  <2>2. CASE ip \in DOMAIN q
    BY <2>2, Zenon DEF send_queued, Interface, Released, Frame, SentTo, Unheld
  <2> QED BY <2>1, <2>2
<1>3. \/ reply(Interface(out, learnt, queued, t), frame, arp) = Interface(out, learnt, queued, t)
      \/ reply(Interface(out, learnt, queued, t), frame, arp)
           = send_frame(Interface(out, learnt, queued, t), "ARP",
               construct_arp_message(Interface(out, learnt, queued, t), "reply", address, ip),
               address)
  BY DEF reply
<1>4. construct_arp_message(Interface(out, learnt, queued, t), "reply", address, ip)
        = Message("reply", address, ip)
  BY DEF construct_arp_message, Interface, Message
<1>5. recv_frame(i, frame).interface
        = reply(send_queued(learn(i, arp), ip, address), frame, arp)
  BY DEF recv_frame
<1> HIDE DEF learnt, queued, out, frame
<1>6. send_frame(Interface(out, learnt, queued, t), "ARP", Message("reply", address, ip), address)
        = Interface(Append(out, Frame("ARP", Message("reply", address, ip), address)),
                    learnt, queued, t)
  BY SendFrame
<1> QED BY <1>1, <1>2, <1>3, <1>4, <1>5, <1>6 DEF learnt, queued, out, frame, Answer
-----------------------------------------------------------------------------
\* A map keeps the type of its values when one is put in ...
LEMMA PutTyped ==
  ASSUME NEW S, NEW map, map \in [DOMAIN map -> S], NEW key, NEW val \in S
  PROVE  Put(map, key, val) \in [DOMAIN Put(map, key, val) -> S]
  BY DEF Put

\* ... and when some are erased.
LEMMA RestrictTyped ==
  ASSUME NEW map, NEW K, NEW S, \A k \in K : map[k] \in S
  PROVE  Restrict(map, K) \in [DOMAIN Restrict(map, K) -> S]
  BY DEF Restrict

\* The frames of what was released.
LEMMA ReleasedFrames ==
  ASSUME NEW T, NEW q \in Seq(T), NEW address
  PROVE  /\ Released(q, address) \in Seq({Frame("IPv4", d, address) : d \in T})
         /\ DOMAIN Released(q, address) = DOMAIN q
         /\ \A k \in DOMAIN q : Released(q, address)[k] = Frame("IPv4", q[k], address)
<1> DEFINE R == Released(q, address)
           S == {Frame("IPv4", d, address) : d \in T}
<1>1. R = [k \in 1..Len(q) |-> Frame("IPv4", q[k], address)]
  BY DEF Released
<1>2. \A k \in 1..Len(q) : Frame("IPv4", q[k], address) \in S
  <2>1. \A k \in 1..Len(q) : q[k] \in T
    BY ElementOfSeq
  <2> QED BY <2>1, Zenon
<1>3. Len(q) \in Nat /\ DOMAIN q = 1..Len(q)
  OBVIOUS
<1> HIDE DEF S, R
<1>4. R \in [1..Len(q) -> S] /\ \A k \in 1..Len(q) : R[k] = Frame("IPv4", q[k], address)
  BY <1>1, <1>2
<1>5. R \in Seq(S) /\ DOMAIN R = DOMAIN q
  BY <1>3, <1>4, SeqDef
<1> QED BY <1>3, <1>4, <1>5 DEF R, S

\* Adding to a timer below its limit does not wrap.
LEMMA LaterIsSum ==
  ASSUME NEW time \in Nat, NEW ms \in 1..MaxMs,
         time <= MAX_ETHERNET_CACHE_TIME \/ time <= RESEND_ARP_MESSAGE_TIME
  PROVE  later(time, ms) = time + ms
<1>1. time + ms \in Nat /\ time + ms < UInt16Boundary /\ UInt16Boundary \in Nat
  BY NetworkInterfaceAssumption, NetworkInterfaceSpecAssumption
<1> QED BY <1>1 DEF later

\* tick() drops what is too old and adds to the other timers.
LEMMA TickFields ==
  ASSUME NEW f, NEW c, NEW q, NEW t, NEW ms
  PROVE  LET ticked == [ip \in DOMAIN t |-> later(t[ip], ms)]
             aged == [ip \in DOMAIN c |-> [c[ip] EXCEPT !.cache_time = later(@, ms)]]
         IN  tick(Interface(f, c, q, t), ms)
               = Interface(f,
                   Restrict(aged, {ip \in DOMAIN aged :
                                     aged[ip].cache_time <= MAX_ETHERNET_CACHE_TIME}),
                   q,
                   Restrict(ticked, {ip \in DOMAIN ticked :
                                       ticked[ip] <= RESEND_ARP_MESSAGE_TIME}))
<1> DEFINE ticked == [ip \in DOMAIN t |-> later(t[ip], ms)]
           aged == [ip \in DOMAIN c |-> [c[ip] EXCEPT !.cache_time = later(@, ms)]]
           y == Restrict(ticked, {ip \in DOMAIN ticked : ticked[ip] <= RESEND_ARP_MESSAGE_TIME})
           x == Restrict(aged, {ip \in DOMAIN aged :
                                  aged[ip].cache_time <= MAX_ETHERNET_CACHE_TIME})
           i == Interface(f, c, q, t)
<1>1. i.cached_ethernet_addresses = c /\ i.arp_message_timers = t
  BY DEF Interface
<1>2. [i EXCEPT !.arp_message_timers = y] = Interface(f, c, q, y)
  <2> HIDE DEF y
  <2> QED BY DEF Interface
<1>3. [Interface(f, c, q, y) EXCEPT !.cached_ethernet_addresses = x] = Interface(f, x, q, y)
  <2> HIDE DEF x, y
  <2> QED BY DEF Interface
<1> HIDE DEF i
<1>4. tick(i, ms) = [i EXCEPT !.arp_message_timers = y, !.cached_ethernet_addresses = x]
  BY <1>1 DEF tick
<1> HIDE DEF x, y
<1>5. [i EXCEPT !.arp_message_timers = y, !.cached_ethernet_addresses = x] = Interface(f, x, q, y)
  BY <1>2, <1>3, Zenon
<1> QED BY <1>4, <1>5 DEF i, x, y

\* The interface that the next call finds.
LEMMA TakenFields ==
  ASSUME Typed
  PROVE  taken = Interface(<<>>, cache, queue, timers)
<1> DEFINE f == frames
           c == cache
           q == queue
           t == timers
<1>1. interface = Interface(f, c, q, t)
  BY DEF Typed
<1> HIDE DEF f, c, q, t
<1>2. [Interface(f, c, q, t) EXCEPT !.frames_out = <<>>] = Interface(<<>>, c, q, t)
  BY DEF Interface
<1> QED BY <1>1, <1>2 DEF taken, f, c, q, t

-----------------------------------------------------------------------------
\* The invariant holds at the start.
LEMMA InitIInv == Init => IInv
<1> SUFFICES ASSUME Init PROVE IInv
  OBVIOUS
<1>1. interface = Interface(<<>>, <<>>, <<>>, <<>>)
  BY DEF Init, NewNetworkInterface, Interface
<1>2. frames = <<>> /\ cache = <<>> /\ queue = <<>> /\ timers = <<>>
  BY <1>1 DEF frames, cache, queue, timers, Interface
<1>3. Typed
  <2>1. <<>> \in [DOMAIN <<>> -> Entry] /\ <<>> \in [DOMAIN <<>> -> Seq(1..MaxDatagrams)]
        /\ <<>> \in [DOMAIN <<>> -> 0..RESEND_ARP_MESSAGE_TIME] /\ DOMAIN <<>> = {}
    OBVIOUS
  <2>2. hop \in Seq(Hosts) /\ Len(hop) <= MaxDatagrams
    BY NetworkInterfaceSpecAssumption DEF Init
  <2>3. since \in [Hosts -> Nat] /\ changed \in [Hosts -> Nat] /\ mac \in [Hosts -> Addresses]
    BY NetworkInterfaceAssumption DEF Init
  <2> QED BY <1>1, <1>2, <2>1, <2>2, <2>3 DEF Typed
<1>4. HeldForHop /\ KnownIsNotAwaited /\ AddressIsRecent
  BY <1>2 DEF HeldForHop, KnownIsNotAwaited, AddressIsRecent
<1>5. TimerIsPending
  BY NetworkInterfaceAssumption DEF Init, TimerIsPending
<1> QED BY <1>3, <1>4, <1>5 DEF IInv

\* The fields after a step.
LEMMA FieldsAfter ==
  ASSUME NEW f, NEW c, NEW q, NEW t, interface' = Interface(f, c, q, t)
  PROVE  frames' = f /\ cache' = c /\ queue' = q /\ timers' = t
  BY DEF Interface, frames, cache, queue, timers

\* What send_datagram() sends, holds back and starts.
LEMMA SendEffect ==
  ASSUME Typed, NEW ip, SendDatagram(ip)
  PROVE  LET d == Len(hop) + 1
             data == Frame("IPv4", d, cache[ip].address)
             request == Frame("ARP", Message("request", NoAddress, ip), ETHERNET_BROADCAST)
             held == IF ip \in DOMAIN queue THEN queue[ip] ELSE <<>>
         IN  /\ interface' = Interface(frames', cache', queue', timers') /\ cache' = cache
             /\ ip \in DOMAIN cache =>
                  frames' = <<data>> /\ queue' = queue /\ timers' = timers
             /\ ip \notin DOMAIN cache /\ ip \in DOMAIN timers =>
                  frames' = <<>> /\ queue' = queue /\ timers' = timers
             /\ ip \notin DOMAIN cache /\ ip \notin DOMAIN timers =>
                  /\ frames' = <<request>> /\ queue' = Put(queue, ip, Append(held, d))
                  /\ timers' = Put(timers, ip, 0)
<1> DEFINE d == Len(hop) + 1
           data == Frame("IPv4", d, cache[ip].address)
           request == Frame("ARP", Message("request", NoAddress, ip), ETHERNET_BROADCAST)
           held == IF ip \in DOMAIN queue THEN queue[ip] ELSE <<>>
           none == <<>>
           q == Put(queue, ip, Append(held, d))
           t == Put(timers, ip, 0)
<1>1. interface' = send_datagram(Interface(none, cache, queue, timers), d, ip)
  BY TakenFields DEF SendDatagram
<1>2. Append(none, data) = <<data>> /\ Append(none, request) = <<request>>
  <2> HIDE DEF data, request
  <2> QED BY DEF none
<1> HIDE DEF none
<1>3. CASE ip \in DOMAIN cache
  <2>1. interface' = Interface(Append(none, data), cache, queue, timers)
    BY <1>1, <1>3, SendDatagramFields
  <2>2. frames' = <<data>> /\ cache' = cache /\ queue' = queue /\ timers' = timers
    <3> HIDE DEF data
    <3> QED BY <2>1, <1>2, FieldsAfter
  <2> HIDE DEF data
  <2> QED BY <2>1, <2>2, <1>2, <1>3, Zenon DEF data
<1>4. CASE ip \notin DOMAIN cache /\ ip \in DOMAIN timers
  <2>1. interface' = Interface(none, cache, queue, timers)
    BY <1>1, <1>4, SendDatagramFields
  <2>2. frames' = none /\ cache' = cache /\ queue' = queue /\ timers' = timers
    BY <2>1, FieldsAfter
  <2> QED BY <2>1, <2>2, <1>4 DEF none
<1>5. CASE ip \notin DOMAIN cache /\ ip \notin DOMAIN timers
  <2>1. interface' = Interface(Append(none, request), cache, q, t)
    BY <1>1, <1>5, SendDatagramFields
  <2> HIDE DEF request, q, t
  <2>2. frames' = <<request>> /\ cache' = cache /\ queue' = q /\ timers' = t
    BY <2>1, <1>2, FieldsAfter
  <2> QED BY <2>1, <2>2, <1>2, <1>5, Zenon DEF request, q, t
<1> QED BY <1>3, <1>4, <1>5

\* Submitting a datagram.
LEMMA SendStep ==
  ASSUME IInv, NEW ip \in Hosts, SendDatagram(ip)
  PROVE  IInv' /\ Spaced
<1> DEFINE d == Len(hop) + 1
           data == Frame("IPv4", d, cache[ip].address)
           request == Frame("ARP", Message("request", NoAddress, ip), ETHERNET_BROADCAST)
           held == IF ip \in DOMAIN queue THEN queue[ip] ELSE <<>>
<1> USE DEF IInv
<1>1. interface' = Interface(frames', cache', queue', timers') /\ cache' = cache
  BY SendEffect
<1>2. /\ hop' \in Seq(Hosts) /\ Len(hop') <= MaxDatagrams /\ d \in 1..MaxDatagrams
      /\ d \in DOMAIN hop' /\ hop'[d] = ip
      /\ \A k \in DOMAIN hop : k \in DOMAIN hop' /\ hop'[k] = hop[k]
  BY NetworkInterfaceSpecAssumption DEF SendDatagram, Typed
<1>3. mac' = mac /\ changed' = changed
  BY DEF SendDatagram
<1>4. CASE ip \in DOMAIN cache
  <2>2. frames' = <<data>> /\ cache' = cache /\ queue' = queue /\ timers' = timers
    BY <1>4, SendEffect
  <2>3. data.type = "IPv4" /\ data.payload = d /\ data.dst = cache[ip].address
    BY DEF Frame
  <2>4. DOMAIN frames' = {1} /\ frames'[1] = data
    <3> HIDE DEF data
    <3> QED BY <2>2
  <2> HIDE DEF data
  <2>5. \A k \in DOMAIN frames' : ~IsRequest(frames'[k])
    BY <2>3, <2>4 DEF IsRequest
  <2>6. since' = since
    BY <2>5 DEF SendDatagram
  <2>7. Typed'
    BY <1>1, <1>2, <1>3, <2>2, <2>6 DEF Typed
  <2>8. HeldForHop'
    BY <1>2, <2>2 DEF HeldForHop
  <2>9. TimerIsPending' /\ KnownIsNotAwaited'
    BY <2>2, <2>6 DEF TimerIsPending, KnownIsNotAwaited
  <2>10. AddressIsRecent'
    <3>1. cache[ip].address = mac[ip] \/ changed[ip] <= cache[ip].cache_time
      BY <1>4 DEF AddressIsRecent
    <3>2. cache[ip].cache_time \in Nat /\ cache[ip].cache_time <= MAX_ETHERNET_CACHE_TIME
          /\ changed[ip] \in Nat
      BY <1>4, NetworkInterfaceAssumption DEF Typed, Entry
    <3>3. data.dst = mac[ip] \/ changed[ip] <= MAX_ETHERNET_CACHE_TIME
      BY <3>1, <3>2, <2>3, NetworkInterfaceAssumption
    <3> QED BY <1>2, <1>3, <2>2, <2>3, <2>4, <3>3 DEF AddressIsRecent
  <2> QED BY <2>5, <2>7, <2>8, <2>9, <2>10 DEF Spaced
<1>5. CASE ip \notin DOMAIN cache /\ ip \in DOMAIN timers
  <2>2. frames' = <<>> /\ cache' = cache /\ queue' = queue /\ timers' = timers
    BY <1>5, SendEffect
  <2>3. since' = since
    BY <2>2 DEF SendDatagram
  <2>4. Typed'
    BY <1>1, <1>2, <1>3, <2>2, <2>3 DEF Typed
  <2>5. HeldForHop'
    BY <1>2, <2>2 DEF HeldForHop
  <2>6. TimerIsPending' /\ KnownIsNotAwaited' /\ AddressIsRecent'
    BY <1>3, <2>2, <2>3 DEF TimerIsPending, KnownIsNotAwaited, AddressIsRecent
  <2> QED BY <2>2, <2>4, <2>5, <2>6 DEF Spaced
<1>6. CASE ip \notin DOMAIN cache /\ ip \notin DOMAIN timers
  <2> DEFINE q == Put(queue, ip, Append(held, d))
             t == Put(timers, ip, 0)
  <2>2. frames' = <<request>> /\ cache' = cache /\ queue' = q /\ timers' = t
    BY <1>6, SendEffect
  <2>3. /\ request.type = "ARP" /\ request.payload.opcode = "request"
        /\ request.payload.target_ip_address = ip
    BY DEF Frame, Message
  <2>4. DOMAIN frames' = {1} /\ frames'[1] = request
    <3> HIDE DEF request
    <3> QED BY <2>2
  <2> HIDE DEF request
  <2>5. since' = [since EXCEPT ![ip] = 0]
    BY <2>3, <2>4 DEF SendDatagram, IsRequest
  <2>6. since[ip] \in Nat /\ since[ip] > RESEND_ARP_MESSAGE_TIME
    BY <1>6, NetworkInterfaceAssumption DEF TimerIsPending, Typed
  <2>7. held \in Seq(1..MaxDatagrams) /\ Append(held, d) \in Seq(1..MaxDatagrams)
    <3>1. held \in Seq(1..MaxDatagrams)
      <4>1. ip \in DOMAIN queue => queue[ip] \in Seq(1..MaxDatagrams)
        BY DEF Typed
      <4>2. <<>> \in Seq(1..MaxDatagrams)
        OBVIOUS
      <4> QED BY <4>1, <4>2, Zenon
    <3> HIDE DEF held, d
    <3> QED BY <1>2, <3>1
  <2>8. /\ DOMAIN q = DOMAIN queue \cup {ip} /\ q[ip] = Append(held, d)
        /\ \A h \in DOMAIN queue : h # ip => q[h] = queue[h]
    <3> HIDE DEF held, d
    <3> QED BY DEF Put
  <2>9. /\ DOMAIN t = DOMAIN timers \cup {ip} /\ t[ip] = 0
        /\ \A h \in DOMAIN timers : h # ip => t[h] = timers[h]
    BY DEF Put
  <2>10. q \in [DOMAIN q -> Seq(1..MaxDatagrams)]
    BY <2>7, PutTyped, Zenon DEF Typed
  <2>11. t \in [DOMAIN t -> 0..RESEND_ARP_MESSAGE_TIME]
    <3>1. 0 \in 0..RESEND_ARP_MESSAGE_TIME
      BY NetworkInterfaceAssumption
    <3> QED BY <3>1, PutTyped, Zenon DEF Typed
  <2>12. \A k \in DOMAIN Append(held, d) :
            Append(held, d)[k] \in DOMAIN hop' /\ hop'[Append(held, d)[k]] = ip
    <3>1. \A k \in DOMAIN held : held[k] \in DOMAIN hop /\ hop[held[k]] = ip
      BY DEF HeldForHop
    <3> HIDE DEF held, d
    <3>2. \A k \in DOMAIN Append(held, d) :
            \/ k \in DOMAIN held /\ Append(held, d)[k] = held[k]
            \/ Append(held, d)[k] = d
      BY <2>7
    <3> QED BY <1>2, <3>1, <3>2
  <2> HIDE DEF q, t, held, d
  <2>13. Typed'
    BY <1>1, <1>2, <1>3, <2>2, <2>5, <2>8, <2>9, <2>10, <2>11 DEF Typed
  <2>14. HeldForHop'
    <3> SUFFICES ASSUME NEW h \in DOMAIN q, NEW k \in DOMAIN q[h]
                 PROVE  q[h][k] \in DOMAIN hop' /\ hop'[q[h][k]] = h
      BY <2>2 DEF HeldForHop
    <3>1. CASE h = ip
      BY <3>1, <2>8, <2>12
    <3>2. CASE h # ip
      BY <3>2, <1>2, <2>8 DEF HeldForHop
    <3> QED BY <3>1, <3>2
  <2>15. TimerIsPending'
    BY <2>2, <2>5, <2>9 DEF TimerIsPending, Typed
  <2>16. KnownIsNotAwaited'
    BY <1>6, <2>2, <2>8 DEF KnownIsNotAwaited
  <2>17. AddressIsRecent'
    BY <1>3, <2>2, <2>3, <2>4 DEF AddressIsRecent, IsDatagram
  <2>18. Spaced
    BY <2>3, <2>4, <2>6 DEF Spaced
  <2> QED BY <2>13, <2>14, <2>15, <2>16, <2>17, <2>18
<1> QED BY <1>4, <1>5, <1>6

\* What recv_frame() learns from an ARP message, and what it sends: the
\* datagrams held back for the sender, in order, and perhaps a reply.
LEMMA ArpEffect ==
  ASSUME Typed, NEW ip \in Hosts, NEW opcode \in {"request", "reply"}, NEW dst,
         NEW target \in Hosts \cup {OwnIp}, RecvArp(ip, opcode, dst, target)
  PROVE  LET held == IF ip \in DOMAIN queue THEN queue[ip] ELSE <<>>
         IN  /\ interface' = Interface(frames', cache', queue', timers')
             /\ cache' = Learnt(cache, ip, mac[ip]) /\ queue' = Unheld(queue, ip)
             /\ timers' = timers
             /\ \E n \in Nat :
                  /\ DOMAIN frames' = 1..n /\ Len(held) <= n
                  /\ \A k \in 1..n :
                       frames'[k] = IF k <= Len(held) THEN Frame("IPv4", held[k], mac[ip])
                                    ELSE Answer(ip, mac[ip])
<1> DEFINE arp == [opcode |-> opcode, sender_ethernet_address |-> mac[ip],
                   sender_ip_address |-> ip, target_ip_address |-> target,
                   target_ethernet_address |->
                      IF opcode = "request" THEN NoAddress ELSE OwnAddress]
           held == IF ip \in DOMAIN queue THEN queue[ip] ELSE <<>>
           address == mac[ip]
           learnt == Learnt(cache, ip, address)
           queued == Unheld(queue, ip)
           none == <<>>
           out == SentTo(none, queue, ip, address)
           answer == Answer(ip, address)
           T == 1..MaxDatagrams
           R == Released(held, address)
           S == {Frame("IPv4", d, address) : d \in T}
           Sends(n) == /\ DOMAIN frames' = 1..n /\ Len(held) <= n
                       /\ \A k \in 1..n :
                            frames'[k] = IF k <= Len(held) THEN Frame("IPv4", held[k], address)
                                         ELSE answer
<1>1. /\ arp # Malformed
      /\ arp.sender_ip_address = ip /\ arp.sender_ethernet_address = address
  BY NetworkInterfaceSpecAssumption DEF Typed
<1>2. \/ interface' = Interface(out, learnt, queued, timers)
      \/ interface' = Interface(Append(out, answer), learnt, queued, timers)
  <2> HIDE DEF arp, none
  <2>1. interface' = recv_frame(Interface(none, cache, queue, timers),
                       [src |-> address, dst |-> dst, type |-> "ARP", payload |-> arp]).interface
    BY TakenFields DEF RecvArp, arp, none
  <2> QED BY <1>1, <2>1, RecvArpFields, SMTT(20)
<1>3. /\ cache' = learnt /\ queue' = queued /\ timers' = timers
      /\ frames' = out \/ frames' = Append(out, answer)
      /\ interface' = Interface(frames', cache', queue', timers')
  <2> HIDE DEF out, answer, learnt, queued
  <2> QED BY <1>2, FieldsAfter, Zenon
<1>4. held \in Seq(T)
  <2>1. ip \in DOMAIN queue => queue[ip] \in Seq(T)
    BY DEF Typed
  <2>2. <<>> \in Seq(T)
    OBVIOUS
  <2> QED BY <2>1, <2>2, Zenon
<1>5. none = <<>> /\ (out = none \o R \/ (out = none /\ held = none))
  BY DEF SentTo
<1> HIDE DEF out, none, held, answer, T, address
<1>6. /\ R \in Seq(S) /\ DOMAIN R = DOMAIN held
      /\ \A k \in DOMAIN held : R[k] = Frame("IPv4", held[k], address)
  BY <1>4, ReleasedFrames
<1> HIDE DEF R, S
<1>7. out = R
  <2>1. CASE out = none \o R
    BY <2>1, <1>5, <1>6
  <2>2. CASE out = none /\ held = none
    <3>1. R \in Seq(S) /\ DOMAIN R = {}
      BY <2>2, <1>5, <1>6
    <3>2. R = <<>>
      BY <3>1
    <3> QED BY <2>2, <3>2, <1>5
  <2> QED BY <2>1, <2>2, <1>5
<1>8. DOMAIN held = 1..Len(held) /\ Len(held) \in Nat
  BY <1>4
<1>9. DOMAIN R = 1..Len(R) /\ Len(R) \in Nat
  BY <1>6
<1>10. Len(R) = Len(held)
  BY <1>6, <1>8, <1>9
<1>11. CASE frames' = out
  <2>1. Sends(Len(held))
    BY <1>6, <1>7, <1>8, <1>11
  <2> QED BY <2>1, <1>3, <1>8 DEF held, answer, address
<1>12. CASE frames' = Append(out, answer)
  <2> DEFINE f == Append(R, answer)
  <2>1. /\ DOMAIN f = 1..(Len(R) + 1) /\ f[Len(R) + 1] = answer
        /\ \A k \in 1..Len(R) : f[k] = R[k]
    BY <1>6
  <2>2. frames' = f
    BY <1>7, <1>12
  <2> HIDE DEF f
  <2>3. Len(held) + 1 \in Nat /\ Sends(Len(held) + 1)
    BY <2>1, <2>2, <1>6, <1>8, <1>10
  <2> QED BY <2>3, <1>3 DEF held, answer, address
<1> QED BY <1>3, <1>11, <1>12

\* An ARP message arrives.
LEMMA ArpStep ==
  ASSUME IInv, NEW ip \in Hosts, NEW opcode \in {"request", "reply"}, NEW dst,
         NEW target \in Hosts \cup {OwnIp}, RecvArp(ip, opcode, dst, target)
  PROVE  IInv' /\ Spaced
<1> DEFINE age == IF ip \in DOMAIN cache THEN cache[ip].cache_time ELSE 0
           entry == [address |-> mac[ip], cache_time |-> age]
           learnt == Learnt(cache, ip, mac[ip])
           queued == Unheld(queue, ip)
           held == IF ip \in DOMAIN queue THEN queue[ip] ELSE <<>>
           answer == Answer(ip, mac[ip])
<1> USE DEF IInv
<1>4. /\ cache' = learnt /\ queue' = queued /\ timers' = timers
      /\ interface' = Interface(frames', cache', queue', timers')
  BY ArpEffect
<1>5. mac' = mac /\ hop' = hop /\ since' = since /\ changed' = changed
  BY DEF RecvArp
<1>6. \A k \in DOMAIN frames' :
        \/ /\ ip \in DOMAIN queue
           /\ \E j \in DOMAIN queue[ip] : frames'[k] = Frame("IPv4", queue[ip][j], mac[ip])
        \/ frames'[k] = answer
  <2>1. PICK n \in Nat :
          /\ DOMAIN frames' = 1..n /\ Len(held) <= n
          /\ \A k \in 1..n :
               frames'[k] = IF k <= Len(held) THEN Frame("IPv4", held[k], mac[ip]) ELSE answer
    BY ArpEffect
  <2>2. CASE ip \in DOMAIN queue
    <3>1. held = queue[ip] /\ held \in Seq(1..MaxDatagrams)
      BY <2>2 DEF Typed
    <3> HIDE DEF held, answer
    <3>2. \A k \in 1..n : k <= Len(held) => k \in DOMAIN held
      BY <3>1
    <3> QED BY <2>1, <2>2, <3>1, <3>2
  <2>3. CASE ip \notin DOMAIN queue
    <3>1. Len(held) = 0
      BY <2>3
    <3> HIDE DEF held, answer
    <3> QED BY <2>1, <3>1
  <2> QED BY <2>2, <2>3
<1>7. \A k \in DOMAIN frames' : ~IsRequest(frames'[k])
  <2>1. answer.payload.opcode = "reply"
    BY DEF Answer, Frame, Message
  <2>2. \A p : Frame("IPv4", p, mac[ip]).type = "IPv4"
    BY DEF Frame
  <2> HIDE DEF answer
  <2> QED BY <1>6, <2>1, <2>2 DEF IsRequest
<1>8. entry \in Entry
  <2>1. ip \in DOMAIN cache => cache[ip].cache_time \in 0..MAX_ETHERNET_CACHE_TIME
    BY DEF Typed, Entry
  <2>2. age \in 0..MAX_ETHERNET_CACHE_TIME
    BY <2>1, NetworkInterfaceAssumption
  <2> HIDE DEF age
  <2> QED BY <2>2 DEF Typed, Entry
<1>9. /\ DOMAIN learnt = DOMAIN cache \cup {ip} /\ learnt[ip] = entry
      /\ \A h \in DOMAIN cache : h # ip => learnt[h] = cache[h]
      /\ learnt \in [DOMAIN learnt -> Entry]
  <2>0. learnt = Put(cache, ip, entry)
    BY DEF Learnt
  <2> HIDE DEF entry, learnt
  <2>1. cache \in [DOMAIN cache -> Entry]
    BY DEF Typed
  <2>2. learnt \in [DOMAIN learnt -> Entry]
    BY <1>8, <2>0, <2>1, PutTyped
  <2> QED BY <2>0, <2>2 DEF Put
<1>10. /\ DOMAIN queued = DOMAIN queue \ {ip}
       /\ \A h \in DOMAIN queued : queued[h] = queue[h]
       /\ queued \in [DOMAIN queued -> Seq(1..MaxDatagrams)]
  BY DEF Unheld, Erase, Restrict, Typed
<1>11. entry.address = mac[ip]
  OBVIOUS
<1> HIDE DEF learnt, queued, entry, held
<1>12. Typed'
  BY <1>4, <1>5, <1>9, <1>10 DEF Typed
<1>13. HeldForHop'
  BY <1>4, <1>5, <1>10 DEF HeldForHop
<1>14. TimerIsPending'
  BY <1>4, <1>5 DEF TimerIsPending
<1>15. KnownIsNotAwaited'
  BY <1>4, <1>9, <1>10 DEF KnownIsNotAwaited
<1>16. AddressIsRecent'
  <2>1. \A h \in DOMAIN cache' :
          cache'[h].address = mac'[h] \/ changed'[h] <= cache'[h].cache_time
    BY <1>4, <1>5, <1>9, <1>11 DEF AddressIsRecent
  <2>2. ASSUME NEW k \in DOMAIN frames', IsDatagram(frames'[k])
        PROVE  frames'[k].dst = mac'[hop'[frames'[k].payload]]
    <3>1. answer.type = "ARP"
      BY DEF Answer, Frame
    <3> HIDE DEF answer
    <3>2. PICK j \in DOMAIN queue[ip] : /\ ip \in DOMAIN queue
                                      /\ frames'[k] = Frame("IPv4", queue[ip][j], mac[ip])
      BY <1>6, <2>2, <3>1 DEF IsDatagram
    <3>3. frames'[k].payload = queue[ip][j] /\ frames'[k].dst = mac[ip]
      BY <3>2 DEF Frame
    <3>4. hop[queue[ip][j]] = ip
      BY <3>2 DEF HeldForHop
    <3> QED BY <1>5, <3>3, <3>4
  <2> QED BY <2>1, <2>2 DEF AddressIsRecent
<1>17. Spaced
  BY <1>7 DEF Spaced
<1> QED BY <1>12, <1>13, <1>14, <1>15, <1>16, <1>17

\* A host changes its address.
LEMMA ChangeStep ==
  ASSUME IInv, NEW ip \in Hosts, NEW address \in Addresses, ChangeAddress(ip, address)
  PROVE  IInv' /\ Spaced
<1> USE DEF IInv
<1>1. interface' = Interface(<<>>, cache, queue, timers)
  BY TakenFields DEF ChangeAddress
<1>2. frames' = <<>> /\ cache' = cache /\ queue' = queue /\ timers' = timers
  BY <1>1, FieldsAfter
<1>3. /\ mac' = [mac EXCEPT ![ip] = address] /\ changed' = [changed EXCEPT ![ip] = 0]
      /\ hop' = hop /\ since' = since
  BY DEF ChangeAddress
<1>4. Typed'
  BY <1>1, <1>2, <1>3 DEF Typed
<1>5. HeldForHop' /\ TimerIsPending' /\ KnownIsNotAwaited'
  BY <1>2, <1>3 DEF HeldForHop, TimerIsPending, KnownIsNotAwaited
<1>6. AddressIsRecent'
  <2>1. \A h \in DOMAIN cache : cache[h].cache_time \in Nat
    BY NetworkInterfaceAssumption DEF Typed, Entry
  <2>2. ASSUME NEW h \in DOMAIN cache
        PROVE  cache[h].address = mac'[h] \/ changed'[h] <= cache[h].cache_time
    <3>1. CASE h = ip
      BY <1>3, <2>1, <3>1 DEF Typed
    <3>2. CASE h # ip
      BY <1>3, <3>2 DEF AddressIsRecent, Typed
    <3> QED BY <3>1, <3>2
  <2> QED BY <1>2, <2>2 DEF AddressIsRecent
<1> QED BY <1>2, <1>4, <1>5, <1>6 DEF Spaced

\* Time passes.
LEMMA TickStep ==
  ASSUME IInv, NEW ms \in 1..MaxMs, Tick(ms)
  PROVE  IInv' /\ Spaced
<1> DEFINE ticked == [ip \in DOMAIN timers |-> later(timers[ip], ms)]
           aged == [ip \in DOMAIN cache |-> [cache[ip] EXCEPT !.cache_time = later(@, ms)]]
           Young == {ip \in DOMAIN aged : aged[ip].cache_time <= MAX_ETHERNET_CACHE_TIME}
           Pending == {ip \in DOMAIN ticked : ticked[ip] <= RESEND_ARP_MESSAGE_TIME}
           c == Restrict(aged, Young)
           t == Restrict(ticked, Pending)
<1> USE DEF IInv
<1>1. interface' = Interface(<<>>, c, queue, t)
  BY TakenFields, TickFields DEF Tick
<1>2. frames' = <<>> /\ cache' = c /\ queue' = queue /\ timers' = t
  <2> HIDE DEF c, t
  <2> QED BY <1>1, FieldsAfter
<1>3. /\ mac' = mac /\ hop' = hop
      /\ since' = Advance(since, ms, RESEND_ARP_MESSAGE_TIME)
      /\ changed' = Advance(changed, ms, MAX_ETHERNET_CACHE_TIME)
  BY DEF Tick
<1>4. ms \in Nat /\ ms >= 1
  BY NetworkInterfaceSpecAssumption
<1>5. ASSUME NEW ip \in DOMAIN timers
      PROVE  timers[ip] \in Nat /\ ticked[ip] = timers[ip] + ms
  <2>1. timers[ip] \in Nat /\ timers[ip] <= RESEND_ARP_MESSAGE_TIME
    BY NetworkInterfaceAssumption DEF Typed
  <2> QED BY <2>1, LaterIsSum
<1>6. ASSUME NEW ip \in DOMAIN cache
      PROVE  /\ cache[ip].cache_time \in Nat /\ cache[ip].address \in Addresses
             /\ aged[ip].address = cache[ip].address
             /\ aged[ip].cache_time = cache[ip].cache_time + ms
             /\ aged[ip] \in [address : Addresses, cache_time : Nat]
  <2>1. cache[ip] \in Entry
    BY DEF Typed
  <2>2. cache[ip].cache_time \in Nat /\ cache[ip].cache_time <= MAX_ETHERNET_CACHE_TIME
    BY <2>1, NetworkInterfaceAssumption DEF Entry
  <2>3. later(cache[ip].cache_time, ms) = cache[ip].cache_time + ms
    BY <2>2, LaterIsSum
  <2>4. aged[ip] = [cache[ip] EXCEPT !.cache_time = cache[ip].cache_time + ms]
    BY <2>3
  <2> HIDE DEF aged
  <2> QED BY <1>4, <2>1, <2>2, <2>4 DEF Entry
<1>7. /\ DOMAIN ticked = DOMAIN timers /\ DOMAIN aged = DOMAIN cache
  OBVIOUS
<1>8. /\ DOMAIN t = Pending /\ \A ip \in Pending : t[ip] = ticked[ip]
      /\ DOMAIN c = Young /\ \A ip \in Young : c[ip] = aged[ip]
  <2> HIDE DEF ticked, aged, Pending, Young
  <2> QED BY DEF Restrict
<1>9. /\ t \in [DOMAIN t -> 0..RESEND_ARP_MESSAGE_TIME] /\ DOMAIN t \subseteq DOMAIN timers
      /\ c \in [DOMAIN c -> Entry] /\ DOMAIN c \subseteq DOMAIN cache
  <2> HIDE DEF ticked, aged
  <2>1. \A ip \in Pending : ip \in DOMAIN timers /\ ticked[ip] \in 0..RESEND_ARP_MESSAGE_TIME
    BY <1>4, <1>5, <1>7, NetworkInterfaceAssumption
  <2>2. \A ip \in Young : ip \in DOMAIN cache /\ aged[ip] \in Entry
    <3> SUFFICES ASSUME NEW ip \in Young
                 PROVE  ip \in DOMAIN cache /\ aged[ip] \in Entry
      OBVIOUS
    <3>1. ip \in DOMAIN cache /\ aged[ip].cache_time <= MAX_ETHERNET_CACHE_TIME
      BY <1>7
    <3>2. aged[ip] \in [address : Addresses, cache_time : Nat]
      BY <1>6, <3>1
    <3> QED BY <3>1, <3>2, NetworkInterfaceAssumption DEF Entry
  <2>3. t \in [DOMAIN t -> 0..RESEND_ARP_MESSAGE_TIME] /\ c \in [DOMAIN c -> Entry]
    <3> HIDE DEF Pending, Young
    <3> QED BY <2>1, <2>2, RestrictTyped, Zenon
  <2> HIDE DEF t, c, Pending, Young
  <2> QED BY <1>8, <2>1, <2>2, <2>3
<1>10. /\ since' \in [Hosts -> Nat] /\ changed' \in [Hosts -> Nat]
       /\ \A ip \in Hosts :
            /\ since'[ip] <= RESEND_ARP_MESSAGE_TIME =>
                 since'[ip] = since[ip] + ms /\ since[ip] <= RESEND_ARP_MESSAGE_TIME
            /\ changed[ip] + ms <= MAX_ETHERNET_CACHE_TIME => changed'[ip] = changed[ip] + ms
  BY <1>3, <1>4, NetworkInterfaceAssumption, SMTT(20) DEF Advance, Typed
<1> HIDE DEF t, c
<1>11. Typed'
  BY <1>1, <1>2, <1>3, <1>9, <1>10 DEF Typed
<1>12. HeldForHop'
  BY <1>2, <1>3 DEF HeldForHop
<1>13. TimerIsPending'
  <2> SUFFICES ASSUME NEW ip \in Hosts, since'[ip] <= RESEND_ARP_MESSAGE_TIME
               PROVE  ip \in DOMAIN t /\ t[ip] = since'[ip]
    BY <1>2 DEF TimerIsPending
  <2>1. since'[ip] = since[ip] + ms /\ since[ip] <= RESEND_ARP_MESSAGE_TIME
    BY <1>10
  <2>2. ip \in DOMAIN timers /\ timers[ip] = since[ip]
    BY <2>1 DEF TimerIsPending
  <2>3. ticked[ip] = since'[ip]
    BY <1>5, <2>1, <2>2
  <2> HIDE DEF ticked
  <2>4. ip \in Pending
    BY <1>7, <2>2, <2>3
  <2> HIDE DEF Pending
  <2> QED BY <1>8, <2>3, <2>4
<1>14. KnownIsNotAwaited'
  BY <1>2, <1>9 DEF KnownIsNotAwaited
<1>15. AddressIsRecent'
  <2> SUFFICES ASSUME NEW ip \in DOMAIN c
               PROVE  c[ip].address = mac[ip] \/ changed'[ip] <= c[ip].cache_time
    BY <1>2, <1>3 DEF AddressIsRecent
  <2>1. ip \in DOMAIN cache /\ ip \in Hosts
    BY <1>9 DEF Typed
  <2>2. ip \in Young
    <3> HIDE DEF Young
    <3> QED BY <1>8
  <2>3. c[ip] = aged[ip] /\ aged[ip].cache_time <= MAX_ETHERNET_CACHE_TIME
    <3> HIDE DEF aged
    <3> QED BY <1>8, <2>2
  <2> HIDE DEF aged, Young
  <2>4. /\ c[ip].address = cache[ip].address
        /\ c[ip].cache_time = cache[ip].cache_time + ms
    BY <1>6, <2>1, <2>3
  <2>5. CASE cache[ip].address = mac[ip]
    BY <2>4, <2>5
  <2>6. CASE changed[ip] <= cache[ip].cache_time
    <3>1. changed[ip] \in Nat /\ cache[ip].cache_time \in Nat
      BY <1>6, <2>1 DEF Typed
    <3>2. changed[ip] + ms <= cache[ip].cache_time + ms
      BY <1>4, <2>6, <3>1
    <3>3. changed[ip] + ms <= MAX_ETHERNET_CACHE_TIME
      BY <1>4, <2>3, <2>4, <3>1, <3>2, NetworkInterfaceAssumption
    <3> QED BY <1>10, <2>1, <2>4, <3>2, <3>3
  <2> QED BY <2>1, <2>5, <2>6 DEF AddressIsRecent
<1> QED BY <1>2, <1>11, <1>12, <1>13, <1>14, <1>15 DEF Spaced

\* Every step keeps the invariant, and spaces the requests.
LEMMA NextIInv ==
  ASSUME IInv, Next
  PROVE  IInv' /\ Spaced
  BY SendStep, ArpStep, ChangeStep, TickStep DEF Next

\* A step that changes nothing keeps the invariant.
LEMMA StutterIInv ==
  ASSUME IInv, UNCHANGED vars
  PROVE  IInv'
  BY DEF vars, IInv, Typed, HeldForHop, TimerIsPending, AddressIsRecent, KnownIsNotAwaited,
     frames, cache, queue, timers
-----------------------------------------------------------------------------
(***************************************************************************)
(* What becomes of the datagrams.  Custody and SentInOrder are not         *)
(* inductive: that what is released leaves in order needs that a queue     *)
(* holds its datagrams in order, and that all of them were submitted after *)
(* those already sent to the same hop.                                     *)
(***************************************************************************)
Elements(s) == {s[k] : k \in DOMAIN s}
Held(q) == UNION {Elements(q[ip]) : ip \in DOMAIN q}

\* The datagrams of s are in order.
Increasing(s) == \A j, k \in DOMAIN s : j < k => s[j] < s[k]

\* The datagrams of s that go to one hop are in order.
InOrder(s, h) == \A j, k \in DOMAIN s : (j < k /\ h[s[j]] = h[s[k]]) => s[j] < s[k]

Ledger(q, h, a, s) ==
  /\ s \in Seq(DOMAIN h)
  /\ a = Elements(s) \cup Held(q)
  /\ InOrder(s, h)
  /\ \A ip \in DOMAIN q :
       /\ Increasing(q[ip])
       /\ \A j \in DOMAIN s, k \in DOMAIN q[ip] : h[s[j]] = ip => s[j] < q[ip][k]

LInv == IInv /\ Ledger(queue, hop, accepted, sent)

\* What a sequence holds after one more element, or several.
LEMMA ElementsAppend ==
  ASSUME NEW T, NEW s \in Seq(T), NEW d \in T
  PROVE  /\ Append(s, d) \in Seq(T) /\ Elements(Append(s, d)) = Elements(s) \cup {d}
         /\ DOMAIN Append(s, d) = DOMAIN s \cup {Len(s) + 1}
         /\ Append(s, d)[Len(s) + 1] = d
         /\ \A k \in DOMAIN s : Append(s, d)[k] = s[k] /\ k \in Nat /\ k < Len(s) + 1
<1> DEFINE n == Len(s)
           t == Append(s, d)
<1>1. /\ t \in Seq(T) /\ DOMAIN t = 1..(n + 1) /\ DOMAIN s = 1..n /\ n \in Nat
      /\ t[n + 1] = d /\ \A k \in 1..n : t[k] = s[k]
  OBVIOUS
<1> HIDE DEF n, t
<1>2. DOMAIN t = DOMAIN s \cup {n + 1} /\ \A k \in DOMAIN s : k \in Nat /\ k < n + 1
  BY <1>1
<1>3. Elements(t) = Elements(s) \cup {d}
  BY <1>1, <1>2 DEF Elements
<1> QED
  BY <1>1, <1>2, <1>3 DEF n, t

\* The elements of a concatenation, and where each of them comes from.
LEMMA ElementsConcat ==
  ASSUME NEW T, NEW s \in Seq(T), NEW t \in Seq(T)
  PROVE  /\ s \o t \in Seq(T) /\ Elements(s \o t) = Elements(s) \cup Elements(t)
         /\ \A i \in DOMAIN (s \o t) :
              \/ i \in DOMAIN s /\ (s \o t)[i] = s[i]
              \/ i - Len(s) \in DOMAIN t /\ (s \o t)[i] = t[i - Len(s)] /\ Len(s) < i
         /\ \A i \in DOMAIN s : i \in Nat /\ i <= Len(s)
         /\ Len(s) \in Nat /\ DOMAIN (s \o t) \subseteq Nat
<1> DEFINE n == Len(s)
           m == Len(t)
           u == s \o t
<1>1. /\ u \in Seq(T) /\ Len(u) = n + m /\ n \in Nat /\ m \in Nat
      /\ DOMAIN u = 1..(n + m) /\ DOMAIN s = 1..n /\ DOMAIN t = 1..m
      /\ \A i \in 1..(n + m) : u[i] = IF i <= n THEN s[i] ELSE t[i - n]
  BY ConcatProperties
<1> HIDE DEF n, m, u
<1>2. \A i \in DOMAIN u :
         \/ i \in DOMAIN s /\ u[i] = s[i]
         \/ i - n \in DOMAIN t /\ u[i] = t[i - n] /\ n < i
  BY <1>1
<1>3. \A i \in DOMAIN s : i \in DOMAIN u /\ u[i] = s[i] /\ i \in Nat /\ i <= n
  BY <1>1
<1>4. \A i \in DOMAIN t : n + i \in DOMAIN u /\ u[n + i] = t[i]
  <2> SUFFICES ASSUME NEW i \in DOMAIN t PROVE n + i \in DOMAIN u /\ u[n + i] = t[i]
    OBVIOUS
  <2>1. n + i \in 1..(n + m) /\ ~(n + i <= n) /\ (n + i) - n = i
    BY <1>1
  <2> QED
    BY <2>1, <1>1
<1>5. Elements(u) = Elements(s) \cup Elements(t)
  BY <1>2, <1>3, <1>4 DEF Elements
<1>6. DOMAIN u \subseteq Nat
  BY <1>1
<1> QED
  BY <1>1, <1>2, <1>3, <1>5, <1>6 DEF n, u

\* A datagram is submitted.
LEMMA LedgerSubmitted ==
  ASSUME NEW q, NEW H, NEW h \in Seq(H), NEW a, NEW s, Ledger(q, h, a, s), NEW ip \in H
  PROVE  Ledger(q, Append(h, ip), a, s)
<1> DEFINE g == Append(h, ip)
<1>1. DOMAIN h \subseteq DOMAIN g /\ \A x \in DOMAIN h : g[x] = h[x]
  BY ElementsAppend
<1> HIDE DEF g
<1>2. s \in Seq(DOMAIN h) /\ \A k \in DOMAIN s : s[k] \in DOMAIN h
  BY DEF Ledger
<1>3. s \in Seq(DOMAIN g) /\ \A k \in DOMAIN s : g[s[k]] = h[s[k]]
  BY <1>1, <1>2
<1> QED
  BY <1>3 DEF Ledger, InOrder, g

\* The datagram submitted last is sent at once: nothing waits for its hop.
LEMMA LedgerSent ==
  ASSUME NEW q, NEW h, NEW a, NEW s, Ledger(q, h, a, s), DOMAIN h \subseteq Nat,
         NEW d \in DOMAIN h, h[d] \notin DOMAIN q, \A j \in DOMAIN s : s[j] < d
  PROVE  Ledger(q, h, a \cup {d}, Append(s, d))
<1> DEFINE t == Append(s, d)
<1>1. s \in Seq(DOMAIN h)
  BY DEF Ledger
<1>2. /\ t \in Seq(DOMAIN h) /\ Elements(t) = Elements(s) \cup {d}
      /\ DOMAIN t = DOMAIN s \cup {Len(s) + 1} /\ t[Len(s) + 1] = d
      /\ \A k \in DOMAIN s : t[k] = s[k] /\ k \in Nat /\ k < Len(s) + 1
  BY <1>1, ElementsAppend, SMTT(20)
<1>3. Len(s) + 1 \in Nat
  BY <1>1
<1> HIDE DEF t
<1>4. InOrder(t, h)
  <2> SUFFICES ASSUME NEW j \in DOMAIN t, NEW k \in DOMAIN t, j < k, h[t[j]] = h[t[k]]
               PROVE  t[j] < t[k]
    BY DEF InOrder
  <2>1. j \in DOMAIN s
    BY <1>2, <1>3
  <2>2. CASE k \in DOMAIN s
    BY <2>1, <2>2, <1>2 DEF Ledger, InOrder
  <2>3. CASE k = Len(s) + 1
    BY <2>1, <2>3, <1>2
  <2> QED
    BY <2>2, <2>3, <1>2
<1>5. ASSUME NEW ip \in DOMAIN q, NEW j \in DOMAIN t, NEW k \in DOMAIN q[ip], h[t[j]] = ip
      PROVE  t[j] < q[ip][k]
  <2>1. j \in DOMAIN s
    BY <1>2, <1>5
  <2> QED
    BY <2>1, <1>2, <1>5 DEF Ledger
<1>6. a \cup {d} = Elements(t) \cup Held(q)
  BY <1>2 DEF Ledger
<1>7. \A ip \in DOMAIN q : Increasing(q[ip])
  BY DEF Ledger
<1> QED
  BY <1>2, <1>4, <1>5, <1>6, <1>7 DEF Ledger, t

\* The datagram submitted last is held back.
LEMMA LedgerHeld ==
  ASSUME NEW q, NEW h, NEW a, NEW s, Ledger(q, h, a, s), NEW T, NEW ip, NEW held \in Seq(T),
         T \subseteq Nat,
         ip \in DOMAIN q => held = q[ip], ip \notin DOMAIN q => held = <<>>,
         NEW d \in T, h[d] = ip, \A j \in DOMAIN s : s[j] < d, \A k \in DOMAIN held : held[k] < d
  PROVE  Ledger(Put(q, ip, Append(held, d)), h, a \cup {d}, s)
<1> DEFINE t == Append(held, d)
           p == Put(q, ip, t)
<1>1. /\ Elements(t) = Elements(held) \cup {d}
      /\ DOMAIN t = DOMAIN held \cup {Len(held) + 1} /\ t[Len(held) + 1] = d
      /\ \A k \in DOMAIN held : t[k] = held[k] /\ k \in Nat /\ k < Len(held) + 1
  BY ElementsAppend
<1>2. Len(held) + 1 \in Nat
  OBVIOUS
<1> HIDE DEF t
<1>3. /\ DOMAIN p = DOMAIN q \cup {ip} /\ p[ip] = t
      /\ \A x \in DOMAIN q : x # ip => p[x] = q[x]
  BY DEF Put
<1> HIDE DEF p
<1>4. Held(p) = Held(q) \cup {d}
  <2>1. ip \in DOMAIN q => Elements(held) \subseteq Held(q)
    BY DEF Held
  <2>2. ip \notin DOMAIN q => Elements(held) = {}
    BY DEF Elements
  <2>3. Elements(held) \subseteq Held(q)
    BY <2>1, <2>2
  <2>4. \A x \in DOMAIN q : x # ip => Elements(p[x]) = Elements(q[x])
    BY <1>3
  <2>5. Elements(p[ip]) = Elements(held) \cup {d}
    BY <1>1, <1>3
  <2>6. ip \in DOMAIN q => Elements(q[ip]) = Elements(held)
    OBVIOUS
  <2> QED
    BY <2>3, <2>4, <2>5, <2>6, <1>3 DEF Held
<1>5. ASSUME NEW x \in DOMAIN p
      PROVE  /\ Increasing(p[x])
             /\ \A j \in DOMAIN s, k \in DOMAIN p[x] : h[s[j]] = x => s[j] < p[x][k]
  <2>1. CASE x # ip
    BY <2>1, <1>3 DEF Ledger
  <2>2. CASE x = ip
    <3>1. Increasing(held) /\ \A j \in DOMAIN s, k \in DOMAIN held : h[s[j]] = ip => s[j] < held[k]
      BY DEF Ledger, Increasing
    <3>2. Increasing(t)
      <4> SUFFICES ASSUME NEW j \in DOMAIN t, NEW k \in DOMAIN t, j < k PROVE t[j] < t[k]
        BY DEF Increasing
      <4>1. j \in DOMAIN held
        BY <1>1, <1>2
      <4>2. CASE k \in DOMAIN held
        BY <4>1, <4>2, <3>1, <1>1 DEF Increasing
      <4>3. CASE k = Len(held) + 1
        BY <4>1, <4>3, <1>1
      <4> QED
        BY <4>2, <4>3, <1>1
    <3>3. ASSUME NEW j \in DOMAIN s, NEW k \in DOMAIN t, h[s[j]] = ip PROVE s[j] < t[k]
      BY <3>1, <3>3, <1>1
    <3> QED
      BY <3>2, <3>3, <2>2, <1>3
  <2> QED
    BY <2>1, <2>2
<1>6. a \cup {d} = Elements(s) \cup Held(p)
  BY <1>4 DEF Ledger
<1> QED
  BY <1>5, <1>6 DEF Ledger, p, t

\* What was held back for ip is sent.
LEMMA LedgerReleased ==
  ASSUME NEW q, NEW h, NEW a, NEW s, Ledger(q, h, a, s), DOMAIN h \subseteq Nat,
         NEW ip \in DOMAIN q, q[ip] \in Seq(DOMAIN h), \A k \in DOMAIN q[ip] : h[q[ip][k]] = ip
  PROVE  Ledger(Unheld(q, ip), h, a, s \o q[ip])
<1> DEFINE r == q[ip]
           n == Len(s)
           t == s \o r
           p == Unheld(q, ip)
<1>1. s \in Seq(DOMAIN h) /\ r \in Seq(DOMAIN h) /\ Increasing(r)
      /\ \A j \in DOMAIN s, k \in DOMAIN r : h[s[j]] = ip => s[j] < r[k]
  BY DEF Ledger
<1>2. \A k \in DOMAIN r : h[r[k]] = ip
  OBVIOUS
<1> HIDE DEF r
<1>3. /\ t \in Seq(DOMAIN h) /\ Elements(t) = Elements(s) \cup Elements(r)
      /\ \A i \in DOMAIN t : \/ i \in DOMAIN s /\ t[i] = s[i]
                             \/ i - n \in DOMAIN r /\ t[i] = r[i - n] /\ n < i
      /\ \A i \in DOMAIN s : i \in Nat /\ i <= n
      /\ n \in Nat /\ DOMAIN t \subseteq Nat
  BY <1>1, ElementsConcat
<1>4. DOMAIN p = DOMAIN q \ {ip} /\ \A x \in DOMAIN p : p[x] = q[x]
  BY DEF Unheld, Erase, Restrict
<1> HIDE DEF t, n, p
<1>5. InOrder(t, h)
  <2> SUFFICES ASSUME NEW j \in DOMAIN t, NEW k \in DOMAIN t, j < k, h[t[j]] = h[t[k]]
               PROVE  t[j] < t[k]
    BY DEF InOrder
  <2>1. j \in Nat /\ k \in Nat
    BY <1>3
  <2>2. CASE j \in DOMAIN s /\ t[j] = s[j] /\ k \in DOMAIN s /\ t[k] = s[k]
    BY <2>2 DEF Ledger, InOrder
  <2>3. CASE j \in DOMAIN s /\ t[j] = s[j] /\ k - n \in DOMAIN r /\ t[k] = r[k - n]
    BY <2>3, <1>1, <1>2
  <2>4. CASE j - n \in DOMAIN r /\ t[j] = r[j - n] /\ k - n \in DOMAIN r /\ t[k] = r[k - n]
    <3>1. j - n < k - n
      BY <2>1, <1>3
    <3> QED
      BY <2>4, <3>1, <1>1 DEF Increasing
  <2>5. CASE n < j /\ k \in DOMAIN s
    BY <2>1, <2>5, <1>3
  <2> QED
    BY <2>2, <2>3, <2>4, <2>5, <1>3
<1>6. a = Elements(t) \cup Held(p)
  <2>1. Held(q) = Elements(r) \cup Held(p)
    BY <1>4 DEF Held, r
  <2> QED
    BY <2>1, <1>3 DEF Ledger
<1>7. ASSUME NEW x \in DOMAIN p
      PROVE  /\ Increasing(p[x])
             /\ \A j \in DOMAIN t, k \in DOMAIN p[x] : h[t[j]] = x => t[j] < p[x][k]
  <2>1. x \in DOMAIN q /\ x # ip /\ p[x] = q[x] /\ Increasing(p[x])
    BY <1>4 DEF Ledger
  <2>2. ASSUME NEW j \in DOMAIN t, NEW k \in DOMAIN p[x], h[t[j]] = x
        PROVE  t[j] < p[x][k]
    <3>1. j \in DOMAIN s /\ t[j] = s[j]
      BY <2>1, <2>2, <1>2, <1>3
    <3> QED
      BY <2>1, <2>2, <3>1 DEF Ledger
  <2> QED
    BY <2>1, <2>2
<1> QED
  BY <1>3, <1>5, <1>6, <1>7 DEF Ledger, t, p, r
-----------------------------------------------------------------------------
\* The frames of a step, added to what was sent.
Log == INSTANCE LoopProofs WITH op <- LAMBDA p, log, frame : record(log, frame)

\* Of frames that begin with the datagrams of q, these are recorded, in order.
LEMMA Recorded ==
  ASSUME NEW T, NEW s \in Seq(T), NEW q \in Seq(T), NEW f, NEW n \in Nat,
         DOMAIN f = 1..n, Len(q) <= n,
         \A k \in 1..Len(q) : IsDatagram(f[k]) /\ f[k].payload = q[k],
         \A k \in 1..n : k > Len(q) => ~IsDatagram(f[k])
  PROVE  Iterate(record, s, f) = s \o q
<1> DEFINE a == Len(s)
           m == Len(q)
           all == s \o q
           count(k) == IF k <= m THEN k ELSE m
           X == [k \in 0..n |-> {x \in Seq(T) : /\ Len(x) = a + count(k)
                                                /\ \A i \in 1..(a + count(k)) : x[i] = all[i]}]
<1>1. /\ all \in Seq(T) /\ Len(all) = a + m /\ a \in Nat /\ m \in Nat /\ m <= n
      /\ \A i \in 1..(a + m) : all[i] = IF i <= a THEN s[i] ELSE q[i - a]
  BY ConcatProperties
<1>2. \A i \in 1..a : all[i] = s[i]
  BY <1>1
<1>3. \A k \in 1..m : all[a + k] = q[k] /\ q[k] \in T
  <2> SUFFICES ASSUME NEW k \in 1..m PROVE all[a + k] = q[k] /\ q[k] \in T
    OBVIOUS
  <2> DEFINE i == a + k
  <2>1. i \in 1..(a + m) /\ ~(i <= a) /\ i - a = k
    BY <1>1
  <2> HIDE DEF i, all, a
  <2>2. all[i] = q[k]
    BY <2>1, <1>1
  <2> QED
    BY <2>2, ElementOfSeq DEF i
<1> HIDE DEF a, m, all
<1>4. s \in X[0]
  <2>1. 0 \in 0..n /\ count(0) = 0 /\ a + 0 = a /\ Len(s) = a
    BY <1>1 DEF a
  <2> HIDE DEF count
  <2> QED
    BY <2>1, <1>2
<1>5. ASSUME NEW k \in 1..n, NEW x \in X[k - 1] PROVE record(x, f[k]) \in X[k]
  <2> DEFINE c == a + count(k - 1)
  <2>1. k - 1 \in 0..n /\ k \in 0..n /\ k \in Int /\ c \in Nat
    BY <1>1
  <2>2. x \in Seq(T) /\ Len(x) = c /\ \A i \in 1..c : x[i] = all[i]
    BY <2>1
  <2>3. CASE k <= m
    <3>1. c + 1 = a + k /\ count(k) = k /\ k \in 1..m
      BY <2>1, <2>3, <1>1
    <3>2. record(x, f[k]) = Append(x, q[k]) /\ q[k] \in T /\ all[c + 1] = q[k]
      BY <3>1, <1>3 DEF record, m
    <3> DEFINE y == Append(x, q[k])
    <3> HIDE DEF c
    <3>3. y \in Seq(T) /\ Len(y) = c + 1 /\ \A i \in 1..(c + 1) : y[i] = all[i]
      <4>1. y \in Seq(T) /\ Len(y) = c + 1 /\ y[c + 1] = q[k] /\ \A i \in 1..c : y[i] = x[i]
        BY <2>1, <2>2, <3>2
      <4> HIDE DEF y
      <4> QED
        BY <4>1, <2>1, <2>2, <3>2
    <3> HIDE DEF y
    <3>4. y \in X[k]
      <4> HIDE DEF count
      <4> QED
        BY <2>1, <3>1, <3>3
    <3> QED
      BY <3>2, <3>4 DEF y
  <2>4. CASE ~(k <= m)
    <3>1. a + count(k) = c
      BY <2>1, <2>4, <1>1
    <3>2. record(x, f[k]) = x
      BY <2>1, <2>4, <1>1 DEF record, m
    <3> HIDE DEF c, count
    <3>3. x \in X[k]
      BY <2>1, <2>2, <3>1
    <3> QED
      BY <3>2, <3>3
  <2> QED
    BY <2>3, <2>4
<1>6. X[n] = {all}
  <2>1. n \in 0..n /\ count(n) = m
    BY <1>1
  <2> HIDE DEF count
  <2>2. X[n] = {x \in Seq(T) : Len(x) = a + m /\ \A i \in 1..(a + m) : x[i] = all[i]}
    BY <2>1
  <2>3. ASSUME NEW x \in Seq(T), Len(x) = a + m, \A i \in 1..(a + m) : x[i] = all[i]
        PROVE  x = all
    BY <2>3, <1>1, SeqEqual
  <2> HIDE DEF X
  <2> QED
    BY <2>2, <2>3, <1>1
<1> HIDE DEF X
<1>7. Iterate(record, s, f) = Log!Folded(0, s, f)
  BY DEF Iterate, Log!Folded, MapThenFoldSet, Log!MapThenFoldSet, Log!Max
<1>8. Log!Folded(0, s, f) \in X[n]
  BY <1>4, <1>5, Log!FoldInvariant, Zenon
<1> QED
  BY <1>6, <1>7, <1>8 DEF all

\* Frames without a datagram add nothing.
LEMMA RecordedNone ==
  ASSUME NEW T, NEW s \in Seq(T), NEW f, NEW n \in Nat, DOMAIN f = 1..n,
         \A k \in 1..n : ~IsDatagram(f[k])
  PROVE  Iterate(record, s, f) = s
<1> DEFINE q == <<>>
<1>1. q \in Seq(T) /\ Len(q) = 0 /\ s \o q = s
  OBVIOUS
<1> HIDE DEF q
<1>2. /\ Len(q) <= n /\ (\A k \in 1..Len(q) : IsDatagram(f[k]) /\ f[k].payload = q[k])
      /\ \A k \in 1..n : k > Len(q) => ~IsDatagram(f[k])
  BY <1>1
<1> QED BY <1>1, <1>2, Recorded, Zenon

\* A frame with a datagram adds it.
LEMMA RecordedOne ==
  ASSUME NEW T, NEW s \in Seq(T), NEW d \in T, NEW frame, IsDatagram(frame), frame.payload = d
  PROVE  Iterate(record, s, <<frame>>) = Append(s, d)
<1> DEFINE q == <<d>>
           f == <<frame>>
<1>1. q \in Seq(T) /\ Len(q) = 1 /\ q[1] = d /\ DOMAIN f = 1..1 /\ f[1] = frame
  OBVIOUS
<1>2. s \o q = Append(s, d)
  OBVIOUS
<1> HIDE DEF q, f
<1>3. /\ Len(q) <= 1 /\ (\A k \in 1..Len(q) : IsDatagram(f[k]) /\ f[k].payload = q[k])
      /\ \A k \in 1..1 : k > Len(q) => ~IsDatagram(f[k])
  BY <1>1
<1>4. Iterate(record, s, f) = s \o q
  BY <1>1, <1>3, Recorded
<1> QED BY <1>2, <1>4 DEF f

\* What is held back for a host is a sequence of numbers.
LEMMA HeldNumbers ==
  ASSUME Typed, NEW ip \in DOMAIN queue
  PROVE  queue[ip] \in Seq(Nat)
<1> DEFINE D == 1..MaxDatagrams
           q == queue[ip]
<1>1. q \in Seq(D) /\ D \subseteq Nat
  BY DEF Typed
<1> HIDE DEF D, q
<1>2. Len(q) \in Nat /\ \A k \in 1..Len(q) : q[k] \in Nat
  <2>1. Len(q) \in Nat
    BY <1>1
  <2>2. \A k \in 1..Len(q) : q[k] \in D
    BY <1>1
  <2> QED BY <2>1, <2>2, <1>1, Zenon
<1>3. q = [k \in 1..Len(q) |-> q[k]]
  BY <1>1
<1>4. q \in [1..Len(q) -> Nat]
  BY <1>2, <1>3
<1> QED BY <1>2, <1>4, SeqDef DEF q

\* Submitting a datagram keeps the ledger.
LEMMA SendLedger ==
  ASSUME LInv, NEW ip \in Hosts, SendDatagram(ip)
  PROVE  Ledger(queue', hop', accepted', sent')
<1> DEFINE d == Len(hop) + 1
           data == Frame("IPv4", d, cache[ip].address)
           request == Frame("ARP", Message("request", NoAddress, ip), ETHERNET_BROADCAST)
           held == IF ip \in DOMAIN queue THEN queue[ip] ELSE <<>>
           T == DOMAIN hop'
<1> USE DEF LInv, IInv
<1>1. /\ hop' = Append(hop, ip) /\ hop \in Seq(Hosts) /\ sent' = Iterate(record, sent, frames')
      /\ accepted' = IF ip \in DOMAIN cache \/ ip \notin DOMAIN timers
                     THEN accepted \cup {d} ELSE accepted
  BY DEF SendDatagram, RecordSent, Typed
<1>2. Ledger(queue, hop', accepted, sent)
  BY <1>1, LedgerSubmitted
<1>3. /\ d \in T /\ hop'[d] = ip /\ T \subseteq Nat
      /\ DOMAIN hop \subseteq Nat /\ \A x \in DOMAIN hop : x < d
  BY <1>1
<1>4. sent \in Seq(T) /\ \A j \in DOMAIN sent : sent[j] < d
  <2>1. sent \in Seq(DOMAIN hop) /\ sent \in Seq(T)
    BY <1>2 DEF Ledger
  <2> HIDE DEF d
  <2> QED BY <2>1, <1>3
<1> HIDE DEF d, T, data, request
<1>5. CASE ip \in DOMAIN cache
  <2>1. frames' = <<data>> /\ queue' = queue /\ accepted' = accepted \cup {d}
    BY <1>1, <1>5, SendEffect DEF d, data
  <2>2. IsDatagram(data) /\ data.payload = d
    BY DEF data, Frame, IsDatagram
  <2>3. sent' = Append(sent, d)
    BY <1>1, <1>3, <1>4, <2>1, <2>2, RecordedOne, SMTT(20)
  <2>4. hop'[d] \notin DOMAIN queue
    BY <1>3, <1>5 DEF KnownIsNotAwaited
  <2> QED BY <1>2, <1>3, <1>4, <2>1, <2>3, <2>4, LedgerSent DEF T
<1>6. CASE ip \notin DOMAIN cache /\ ip \in DOMAIN timers
  <2>1. frames' = <<>> /\ queue' = queue /\ accepted' = accepted
    BY <1>1, <1>6, SendEffect, Zenon
  <2>2. DOMAIN frames' = 1..0 /\ \A k \in 1..0 : ~IsDatagram(frames'[k])
    BY <2>1
  <2>3. sent' = sent
    BY <1>1, <1>4, <2>2, RecordedNone
  <2> QED BY <1>2, <2>1, <2>3
<1>7. CASE ip \notin DOMAIN cache /\ ip \notin DOMAIN timers
  <2>1. /\ frames' = <<request>> /\ queue' = Put(queue, ip, Append(held, d))
        /\ accepted' = accepted \cup {d}
    BY <1>1, <1>7, SendEffect DEF request, d
  <2>2. ~IsDatagram(request)
    BY DEF request, Frame, IsDatagram
  <2>3. DOMAIN frames' = 1..1 /\ \A k \in 1..1 : ~IsDatagram(frames'[k])
    BY <2>1, <2>2
  <2>4. sent' = sent
    BY <1>1, <1>4, <2>3, RecordedNone
  <2>5. held \in Seq(Nat) /\ \A k \in DOMAIN held : held[k] < d
    <3>1. ip \in DOMAIN queue => queue[ip] \in Seq(Nat)
      BY HeldNumbers
    <3>2. <<>> \in Seq(Nat) /\ DOMAIN <<>> = {}
      OBVIOUS
    <3>3. ip \in DOMAIN queue => \A k \in DOMAIN queue[ip] : queue[ip][k] < d
      BY <1>3 DEF HeldForHop
    <3> QED BY <3>1, <3>2, <3>3, Zenon
  <2>6. (ip \in DOMAIN queue => held = queue[ip]) /\ (ip \notin DOMAIN queue => held = <<>>)
    OBVIOUS
  <2>7. d \in Nat
    BY <1>3
  <2> HIDE DEF held
  <2>8. Ledger(Put(queue, ip, Append(held, d)), hop', accepted \cup {d}, sent)
    BY <1>2, <1>3, <1>4, <2>5, <2>6, <2>7, LedgerHeld, Zenon
  <2> QED BY <2>1, <2>4, <2>8
<1> QED BY <1>5, <1>6, <1>7

\* An ARP message keeps the ledger.
LEMMA ArpLedger ==
  ASSUME LInv, NEW ip \in Hosts, NEW opcode \in {"request", "reply"}, NEW dst,
         NEW target \in Hosts \cup {OwnIp}, RecvArp(ip, opcode, dst, target)
  PROVE  Ledger(queue', hop', accepted', sent')
<1> DEFINE held == IF ip \in DOMAIN queue THEN queue[ip] ELSE <<>>
           answer == Answer(ip, mac[ip])
           T == DOMAIN hop
<1> USE DEF LInv, IInv
<1>1. /\ hop' = hop /\ accepted' = accepted /\ sent' = Iterate(record, sent, frames')
      /\ queue' = Unheld(queue, ip)
  BY ArpEffect, Zenon DEF RecvArp, RecordSent
<1>2. PICK n \in Nat :
        /\ DOMAIN frames' = 1..n /\ Len(held) <= n
        /\ \A k \in 1..n :
             frames'[k] = IF k <= Len(held) THEN Frame("IPv4", held[k], mac[ip]) ELSE answer
  BY ArpEffect, Zenon
<1>3. ip \in DOMAIN queue => /\ queue[ip] \in Seq(T)
                             /\ \A k \in DOMAIN queue[ip] : hop[queue[ip][k]] = ip
  <2> SUFFICES ASSUME ip \in DOMAIN queue
               PROVE  queue[ip] \in Seq(T) /\ \A k \in DOMAIN queue[ip] : hop[queue[ip][k]] = ip
    OBVIOUS
  <2> DEFINE q == queue[ip]
  <2>1. q \in Seq(Nat) /\ \A k \in DOMAIN q : q[k] \in T /\ hop[q[k]] = ip
    BY HeldNumbers DEF HeldForHop
  <2> HIDE DEF q, T
  <2>2. q \in Seq(T)
    BY <2>1
  <2> QED BY <2>1, <2>2 DEF q
<1>4. held \in Seq(T)
  <2>1. <<>> \in Seq(T)
    OBVIOUS
  <2> QED BY <2>1, <1>3, Zenon
<1>5. sent \in Seq(T) /\ T \subseteq Nat
  BY DEF Ledger, Typed
<1>6. ~IsDatagram(answer) /\ \A x : /\ IsDatagram(Frame("IPv4", x, mac[ip]))
                                    /\ Frame("IPv4", x, mac[ip]).payload = x
  BY DEF Answer, Frame, IsDatagram
<1>7. sent' = sent \o held
  <2> HIDE DEF held, answer, T
  <2>1. Len(held) \in Nat
    BY <1>4
  <2>2. /\ \A k \in 1..Len(held) : IsDatagram(frames'[k]) /\ frames'[k].payload = held[k]
        /\ \A k \in 1..n : k > Len(held) => ~IsDatagram(frames'[k])
    BY <2>1, <1>2, <1>6
  <2> QED BY <2>2, <1>1, <1>2, <1>4, <1>5, Recorded
<1>8. CASE ip \in DOMAIN queue
  <2>1. sent' = sent \o queue[ip]
    BY <1>7, <1>8
  <2> QED BY <2>1, <1>1, <1>3, <1>5, <1>8, LedgerReleased, Zenon
<1>9. CASE ip \notin DOMAIN queue
  <2>1. held = <<>> /\ queue' = queue
    BY <1>1, <1>9 DEF Unheld
  <2>2. sent' = sent
    BY <2>1, <1>5, <1>7
  <2> QED BY <2>1, <2>2, <1>1, Zenon
<1> QED BY <1>8, <1>9

\* The other steps leave the ledger alone.
LEMMA OtherLedger ==
  ASSUME LInv,
         \/ \E ip \in Hosts, address \in Addresses : ChangeAddress(ip, address)
         \/ \E ms \in 1..MaxMs : Tick(ms)
         \/ UNCHANGED vars
  PROVE  Ledger(queue', hop', accepted', sent')
<1> USE DEF LInv, IInv
<1>1. ASSUME NEW ip \in Hosts, NEW address \in Addresses, ChangeAddress(ip, address)
      PROVE  queue' = queue /\ hop' = hop /\ accepted' = accepted /\ sent' = sent
  <2>1. interface' = Interface(<<>>, cache, queue, timers)
    BY <1>1, TakenFields DEF ChangeAddress
  <2> QED BY <1>1, <2>1, FieldsAfter DEF ChangeAddress
<1>2. ASSUME NEW ms \in 1..MaxMs, Tick(ms)
      PROVE  queue' = queue /\ hop' = hop /\ accepted' = accepted /\ sent' = sent
  <2> DEFINE ticked == [ip \in DOMAIN timers |-> later(timers[ip], ms)]
             aged == [ip \in DOMAIN cache |-> [cache[ip] EXCEPT !.cache_time = later(@, ms)]]
             c == Restrict(aged, {ip \in DOMAIN aged :
                                    aged[ip].cache_time <= MAX_ETHERNET_CACHE_TIME})
             t == Restrict(ticked, {ip \in DOMAIN ticked :
                                      ticked[ip] <= RESEND_ARP_MESSAGE_TIME})
  <2>1. interface' = Interface(<<>>, c, queue, t)
    BY <1>2, TakenFields, TickFields DEF Tick
  <2> HIDE DEF c, t
  <2> QED BY <1>2, <2>1, FieldsAfter DEF Tick
<1>3. CASE UNCHANGED vars
  BY <1>3 DEF vars, queue
<1> QED BY <1>1, <1>2, <1>3

\* The ledger is kept from the start.
LEMMA LedgerInvariance == Spec => []LInv
<1>1. Init => LInv
  <2> SUFFICES ASSUME Init PROVE Ledger(queue, hop, accepted, sent)
    BY InitIInv DEF LInv
  <2>1. queue = <<>> /\ hop = <<>> /\ accepted = {} /\ sent = <<>>
    BY DEF Init, NewNetworkInterface, queue
  <2>2. Elements(<<>>) = {} /\ Held(<<>>) = {} /\ <<>> \in Seq({}) /\ DOMAIN <<>> = {}
    BY DEF Elements, Held
  <2> QED BY <2>1, <2>2 DEF Ledger, InOrder
<1>2. ASSUME LInv, [Next]_vars PROVE LInv'
  <2>1. IInv'
    BY <1>2, NextIInv, StutterIInv DEF LInv
  <2>2. Ledger(queue', hop', accepted', sent')
    BY <1>2, SendLedger, ArpLedger, OtherLedger DEF Next
  <2> QED BY <2>1, <2>2 DEF LInv
<1> QED BY <1>1, <1>2, PTL DEF Spec
-----------------------------------------------------------------------------
\* No datagram waits for an address that is known.
THEOREM KnownNotAwaited == Spec => []KnownIsNotAwaited
<1>1. IInv => KnownIsNotAwaited
  BY DEF IInv
<1> QED BY <1>1, InitIInv, NextIInv, StutterIInv, PTL DEF Spec

\* A datagram leaves for an address its next hop has, or had at most
\* MAX_ETHERNET_CACHE_TIME ago.
THEOREM AddressRecent == Spec => []AddressIsRecent
<1>1. IInv => AddressIsRecent
  BY DEF IInv
<1> QED BY <1>1, InitIInv, NextIInv, StutterIInv, PTL DEF Spec

\* A request for a host follows the one before it by more than
\* RESEND_ARP_MESSAGE_TIME.
THEOREM Spacing == Spec => RequestsSpaced
<1>1. ASSUME IInv, [Next]_vars PROVE [Spaced]_vars
  BY <1>1, NextIInv
<1> QED BY <1>1, InitIInv, NextIInv, StutterIInv, PTL DEF Spec, RequestsSpaced, Spaced

\* A datagram that was accepted is sent or held back for its own hop, never
\* both and never lost.
THEOREM DatagramsInCustody == Spec => []Custody
<1>1. ASSUME LInv PROVE Custody
  <2> USE DEF LInv, IInv
  <2>1. accepted = Elements(sent) \cup Held(queue)
    BY <1>1 DEF Ledger
  <2>2. ASSUME NEW ip \in DOMAIN queue, NEW k \in DOMAIN queue[ip]
        PROVE  hop[queue[ip][k]] = ip /\ queue[ip][k] \notin Elements(sent)
    <3> DEFINE d == queue[ip][k]
    <3>1. d \in DOMAIN hop /\ hop[d] = ip /\ d \in Nat
      BY <1>1 DEF HeldForHop, Typed
    <3>2. \A j \in DOMAIN sent : hop[sent[j]] = ip => sent[j] < d
      BY <1>1 DEF Ledger
    <3> HIDE DEF d
    <3>3. d \notin Elements(sent)
      BY <3>1, <3>2 DEF Elements
    <3> QED BY <3>1, <3>3 DEF d
  <2> QED BY <2>1, <2>2 DEF Custody, Elements, Held
<1> QED BY <1>1, LedgerInvariance, PTL

\* Datagrams for one hop leave in the order in which they were submitted.
THEOREM OrderKept == Spec => []SentInOrder
<1>1. LInv => SentInOrder
  BY DEF LInv, Ledger, InOrder, SentInOrder
<1> QED BY <1>1, LedgerInvariance, PTL
=============================================================================
