--------------------------- MODULE FdAdaptersSpec ---------------------------
(***************************************************************************)
(* Hosts that exchange segments through their adapters, all of one kind.   *)
(* Server listens; every other host connects to it, so that at most one of *)
(* them becomes its peer.  Packets wait in the network and are read in any *)
(* order; LossyFdAdapter drops some, and the network damages a few, by a   *)
(* byte or by cutting off the end.                                         *)
(*                                                                         *)
(* History variables: sent and got are the segments each host wrote and    *)
(* was handed up.                                                          *)
(***************************************************************************)
EXTENDS FdAdapters, FiniteSets

CONSTANTS Hosts, Server,
          Client,              \* the one host on an Ethernet with Server
          Ip, Port, Mac,       \* the addresses of each host
          Kinds,               \* the kinds of adapters looked at
          Script,              \* what each host may write as its 1st, 2nd, ... segment
          Deltas,              \* what may be added to a damaged byte
          MaxDamaged,          \* bound on the packets damaged
          MaxTicks,            \* bound on the ticks
          TickMs

VARIABLES adapters, wire, sent, got, damaged, ticks

vars == <<adapters, wire, sent, got, damaged, ticks>>

\* What the source of a UDP datagram is, and where one is sent to.
AddressOf(h) == [ip |-> Ip[h], port |-> Port[h]]

kind == adapters[Server].kind

\* listen_and_accept() on any address and connect() to the address of Server.
NewAdapter(k, h) ==
  LET listen == h = Server
      source == IF listen THEN [NoOne EXCEPT !.port = Port[h]]
                ELSE IF k = "udp" THEN NoOne ELSE AddressOf(h)
      destination == IF listen THEN NoOne ELSE AddressOf(Server)
      next_hop == IF listen THEN Ip[Client] ELSE Ip[Server]
  IN  IF k = "ethernet"
      THEN EthernetAdapter(listen, source, destination, Mac[h], Ip[h], next_hop)
      ELSE FdAdapter(k, listen, source, destination)

Init ==
  /\ \E k \in Kinds : adapters = [h \in Hosts |-> NewAdapter(k, h)]
  /\ wire = [h \in Hosts |-> <<>>]
  /\ sent = [h \in Hosts |-> <<>>] /\ got = [h \in Hosts |-> <<>>]
  /\ damaged = 0 /\ ticks = 0

\* The host whose address is the destination of h.
PeerOf(h) == CHOOSE p \in Hosts : AddressOf(p) = adapters[h].config.destination

Lossy == kind \in {"udp", "tun"}

\* An Ethernet takes a frame to the other host on it, the Internet a datagram to
\* its destination.
Receivers(a, h) ==
  IF a.kind = "ethernet" THEN {Client, Server} \ {h}
  ELSE {p \in Hosts : AddressOf(p) = a.config.destination}

Carry(w, a, h, packets) ==
  [p \in Hosts |-> IF p \in Receivers(a, h)
                   THEN w[p] \o [k \in DOMAIN packets |-> [from |-> h, bytes |-> packets[k]]]
                   ELSE w[p]]

\* The connection of h sends its next segment.  That of Server has none before
\* it was handed a SYN.
Write(h) ==
  /\ Len(sent[h]) < Len(Script[h])
  /\ ~adapters[h].listen
  /\ kind = "ethernet" => h \in {Client, Server}
  /\ \E seg \in Script[h][Len(sent[h]) + 1], dropped \in IF Lossy THEN BOOLEAN ELSE {FALSE} :
       LET w == lossy_write(adapters[h], seg, dropped)
       IN  /\ adapters' = [adapters EXCEPT ![h] = w.adapter]
           /\ wire' = Carry(wire, w.adapter, h, w.out)
           /\ sent' = [sent EXCEPT ![h] = Append(@, WithPorts(adapters[h], seg))]
  /\ UNCHANGED <<got, damaged, ticks>>

\* What a read of packet k by h has come to.
Taken(h, k, r) ==
  /\ adapters' = [adapters EXCEPT ![h] = r.adapter]
  /\ wire' = Carry([wire EXCEPT ![h] = RemoveAt(@, k)], r.adapter, h, r.out)
  /\ got' = [got EXCEPT ![h] = @ \o r.segments]

\* The adapter of h reads bytes in place of packet k.
Take(h, k, bytes, dropped) ==
  Taken(h, k, lossy_read(adapters[h], AddressOf(wire[h][k].from), bytes, dropped))

Read(h) ==
  /\ \E k \in DOMAIN wire[h], dropped \in IF Lossy THEN BOOLEAN ELSE {FALSE} :
       Take(h, k, wire[h][k].bytes, dropped)
  /\ UNCHANGED <<sent, damaged, ticks>>

\* One byte is another one; a packet that is not a UDP datagram may also be cut.
Damages(bytes) ==
  {[bytes EXCEPT ![k] = (@ + d) % 256] : k \in DOMAIN bytes, d \in Deltas}
    \cup (IF kind = "udp" THEN {} ELSE {SubSeq(bytes, 1, n) : n \in 0..Len(bytes) - 1})

ReadDamaged(h) ==
  /\ damaged < MaxDamaged
  /\ damaged' = damaged + 1
  /\ \E k \in DOMAIN wire[h] : \E bytes \in Damages(wire[h][k].bytes) :
       Take(h, k, bytes, FALSE)
  /\ UNCHANGED <<sent, ticks>>

\* Time passes: the tick() of an adapter without an interface does nothing.
Tick(h) ==
  /\ ticks < MaxTicks /\ kind = "ethernet"
  /\ ticks' = ticks + 1
  /\ LET t == ethernet_tick(adapters[h], TickMs)
     IN  /\ adapters' = [adapters EXCEPT ![h] = t.adapter]
         /\ wire' = Carry(wire, t.adapter, h, t.out)
  /\ UNCHANGED <<sent, got, damaged>>

Next == \E h \in Hosts : Write(h) \/ Read(h) \/ ReadDamaged(h) \/ Tick(h)

Spec == Init /\ [][Next]_vars

----------------------------------------------------------------------------
(* Properties *)

\* The segment without its checksum, which serialize() fills in.
Contents(seg) == [seg EXCEPT !.header.cksum = 0]

\* Whatever the network damages, a connection is handed only segments that its
\* one peer wrote, as they were written: the checks of TCPSegment::parse(),
\* IPv4Datagram::parse() and unwrap_tcp_in_ip() or TCPOverUDPSocketAdapter::read()
\* together let nothing else through.
HandedUpWasSent ==
  \A h \in Hosts : \A k \in DOMAIN got[h] :
    /\ ~adapters[h].listen
    /\ \E n \in DOMAIN sent[PeerOf(h)] :
         Contents(got[h][k]) = Contents(sent[PeerOf(h)][n])

\* Whether packet p holds a segment for h, by the bytes of an intact packet.
CarriesSegment(h, p) ==
  kind = "ethernet" => SubSeq(p.bytes, 1, 6) = Mac[h] /\ SubSeq(p.bytes, 13, 14) = <<8, 0>>

\* The segments handed up are one that host h wrote.
OneOf(segments, h) ==
  /\ Len(segments) = 1
  /\ \E n \in DOMAIN sent[h] : Contents(segments[1]) = Contents(sent[h][n])

\* A packet as its writer wrote it is understood: the reader that has this peer is
\* handed the segment.  serialize() and parse() of all the formats agree, and so
\* do wrap and unwrap.
IntactIsHandedUp ==
  \A h \in Hosts : \A k \in DOMAIN wire[h] :
    LET p == wire[h][k]
    IN  CarriesSegment(h, p) /\ ~adapters[h].listen /\ PeerOf(h) = p.from =>
          OneOf(read(adapters[h], AddressOf(p.from), p.bytes).segments, p.from)

\* The sum of the 16-bit numbers in bytes, the last one padded with a zero.
WordSum(bytes) ==
  LET byte(i) == IF i <= Len(bytes) THEN bytes[i] ELSE 0
      words == [i \in 1..(Len(bytes) + 1) \div 2 |-> 256 * byte(2 * i - 1) + byte(2 * i)]
  IN  FoldSeq(LAMBDA x, y : x + y, 0, words)

\* The definition of the Internet checksum: with it, the one's complement sum is
\* zero, which is divisibility by 2^16 - 1.
SumsToZero(bytes) == WordSum(bytes) % 65535 = 0

\* Every packet that an adapter writes has the length that its IPv4 header says
\* (IPv4Datagram::serialize() throws otherwise) and is right by the definition of
\* the Internet checksum, over the IPv4 header alone and over the TCP segment with
\* its pseudo-header of addresses, protocol and length (InternetChecksum,
\* pseudo_cksum(), wrap_tcp_in_ip()).
PacketsRight ==
  \A h \in Hosts : \A k \in DOMAIN wire[h] :
    LET bytes == wire[h][k].bytes
        skip == IF kind = "ethernet" THEN EthernetHeaderLength ELSE 0
        ip == SubSeq(bytes, skip + 1, Len(bytes))
        tcp == SubSeq(ip, 21, Len(ip))
    IN  IF kind = "udp" THEN SumsToZero(bytes)
        ELSE CarriesSegment(h, wire[h][k]) =>
               /\ 256 * ip[3] + ip[4] = Len(ip)
               /\ SumsToZero(SubSeq(ip, 1, 20))
               /\ SumsToZero(SubSeq(ip, 13, 20) \o <<0, ip[10], 0, Len(tcp)>> \o tcp)

\* Once an adapter has a peer it keeps it, whoever else sends a SYN, also when the
\* SYN it took was then dropped by LossyFdAdapter (unwrap_tcp_in_ip(),
\* set_listening()).
PeerIsFixed ==
  [][\A h \in Hosts : adapters[h].config.destination /= NoOne =>
       adapters'[h].config = adapters[h].config]_vars
=============================================================================
