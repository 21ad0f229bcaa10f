----------------------------- MODULE FdAdapters -----------------------------
(***************************************************************************)
(* The adapters that carry the segments of a TCPConnection: in UDP         *)
(* datagrams (TCPOverUDPSocketAdapter), in IPv4 datagrams on a TUN device  *)
(* (TCPOverIPv4OverTunFdAdapter) and in IPv4 datagrams in Ethernet frames  *)
(* on a TAP device (TCPOverIPv4OverEthernetAdapter, with a                 *)
(* NetworkInterface), from libsponge/tcp_helpers/{fd_adapter,tcp_over_ip,  *)
(* tuntap_adapter,lossy_fd_adapter}.                                       *)
(*                                                                         *)
(* read() takes the packet that the device returns and gives the adapter   *)
(* afterwards, the segments handed up (none or one) and the packets        *)
(* written to the device in the meantime.  An Address is an ip and a port. *)
(***************************************************************************)
EXTENDS Packets, NetworkInterface

NoOne == [ip |-> <<0, 0>>, port |-> 0]

\* FdAdapterBase with the config of connect() or listen_and_accept().
FdAdapter(kind, listen, source, destination) ==
  [kind |-> kind, listen |-> listen,
   config |-> [source |-> source, destination |-> destination]]

Nothing(a) == [adapter |-> a, segments |-> <<>>, out |-> <<>>]
HandUp(a, seg) == [adapter |-> a, segments |-> <<seg>>, out |-> <<>>]

AsSegment(parsed) == [header |-> parsed.header, payload |-> parsed.payload]

Opens(seg) == seg.header.syn /\ ~seg.header.rst

\* The segment with the ports of the config.
WithPorts(a, seg) ==
  [seg EXCEPT !.header.sport = a.config.source.port,
              !.header.dport = a.config.destination.port]

----------------------------------------------------------------------------
(* TCPOverUDPSocketAdapter *)

udp_read(a, source_address, payload) ==
  LET parsed == TCPSegment_parse(payload, 0)
      seg == AsSegment(parsed)
  IN  IF \/ ~a.listen /\ source_address /= a.config.destination
         \/ parsed.result /= "NoError"
         \/ a.listen /\ ~Opens(seg)
      THEN Nothing(a)
      ELSE HandUp(IF a.listen
                  THEN [a EXCEPT !.listen = FALSE, !.config.destination = source_address]
                  ELSE a, seg)

udp_write(a, seg) ==
  [adapter |-> a, out |-> <<concatenate(TCPSegment_serialize(WithPorts(a, seg), 0))>>]

----------------------------------------------------------------------------
(* TCPOverIPv4Adapter *)

\* Mutant: the adapter goes on listening.
filter_listens_on(a, ip, parsed) ==
  LET source == [ip |-> ip.src, port |-> parsed.header.sport]
  IN  IF \/ ~a.listen /\ (ip.dst /= a.config.source.ip \/ source /= a.config.destination)
         \/ ip.proto /= PROTO_TCP
         \/ parsed.result /= "NoError"
         \/ parsed.header.dport /= a.config.source.port
         \/ a.listen /\ ~Opens(parsed)
      THEN Nothing(a)
      ELSE HandUp(IF a.listen
                  THEN [a EXCEPT !.config.source.ip = ip.dst, !.config.destination = source]
                  ELSE a, AsSegment(parsed))

\* The early returns, for a segment parsed from a datagram with the header ip.  A
\* listening adapter takes the addresses of the first SYN for its own and its
\* peer's.
filter(a, ip, parsed) ==
  LET source == [ip |-> ip.src, port |-> parsed.header.sport]
  IN  IF \/ ~a.listen /\ (ip.dst /= a.config.source.ip \/ source /= a.config.destination)
         \/ ip.proto /= PROTO_TCP
         \/ parsed.result /= "NoError"
         \/ parsed.header.dport /= a.config.source.port
         \/ a.listen /\ ~Opens(parsed)
      THEN Nothing(a)
      ELSE HandUp(IF a.listen
                  THEN [a EXCEPT !.listen = FALSE, !.config.source.ip = ip.dst,
                                 !.config.destination = source]
                  ELSE a, AsSegment(parsed))

unwrap_tcp_in_ip(a, dgram) ==
  filter(a, dgram.header,
         TCPSegment_parse(as_Buffer(dgram.payload), pseudo_cksum(dgram.header)))

wrap_tcp_in_ip(a, seg) ==
  LET header == [NewIPv4Header EXCEPT
                   !.src = a.config.source.ip, !.dst = a.config.destination.ip,
                   !.len = 4 * NewIPv4Header.hlen + 4 * seg.header.doff + Len(seg.payload)]
  IN  [header |-> header,
       payload |-> TCPSegment_serialize(WithPorts(a, seg), pseudo_cksum(header))]

----------------------------------------------------------------------------
(* TCPOverIPv4OverTunFdAdapter *)

tun_read(a, packet) ==
  LET dgram == IPv4Datagram_parse(packet)
  IN  IF dgram.result /= "NoError" THEN Nothing(a) ELSE unwrap_tcp_in_ip(a, dgram)

tun_write(a, seg) ==
  [adapter |-> a, out |-> <<concatenate(IPv4Datagram_serialize(wrap_tcp_in_ip(a, seg)))>>]

----------------------------------------------------------------------------
(* TCPOverIPv4OverEthernetAdapter.  A frame of NetworkInterface is turned  *)
(* into bytes and back.  The dummy frame that the constructor writes is    *)
(* the one that a TAP device ignores.                                      *)

EthernetAdapter(listen, source, destination, ethernet_address, ip_address, next_hop) ==
  FdAdapter("ethernet", listen, source, destination)
    @@ [interface |-> NewNetworkInterface(ethernet_address, ip_address),
        next_hop |-> next_hop]

OpcodeNumber(opcode) == IF opcode = "request" THEN OPCODE_REQUEST ELSE OPCODE_REPLY
OpcodeName(number) == IF number = OPCODE_REQUEST THEN "request" ELSE "reply"

FrameBytes(frame) ==
  concatenate(EthernetFrame_serialize(
    [header |-> [dst |-> frame.dst, src |-> frame.src,
                 type |-> IF frame.type = "ARP" THEN TYPE_ARP ELSE TYPE_IPv4],
     payload |-> IF frame.type = "ARP"
                 THEN <<ARPMessage_serialize([frame.payload EXCEPT !.opcode = OpcodeNumber(@)])>>
                 ELSE IPv4Datagram_serialize(frame.payload)]))

\* The frame as recv_frame() sees it, which parses the payload by its type.
FrameOf(frame) ==
  LET arp == ARPMessage_parse(as_Buffer(frame.payload))
      dgram == IPv4Datagram_parse(as_Buffer(frame.payload))
      With(type, payload) == [src |-> frame.header.src, dst |-> frame.header.dst,
                              type |-> type, payload |-> payload]
  IN  CASE frame.header.type = TYPE_ARP ->
             With("ARP", IF arp.result /= "NoError" THEN Malformed
                         ELSE [arp EXCEPT !.opcode = OpcodeName(@)])
        [] frame.header.type = TYPE_IPv4 ->
             With("IPv4", IF dgram.result /= "NoError" THEN Malformed
                          ELSE [header |-> dgram.header, payload |-> dgram.payload])
        [] OTHER -> With("other", Malformed)

\* The adapter with nothing left to send, and the packets written.
send_pending(a) ==
  [adapter |-> [a EXCEPT !.interface.frames_out = <<>>],
   out |-> [k \in DOMAIN a.interface.frames_out |-> FrameBytes(a.interface.frames_out[k])]]

\* What follows recv_frame(), which has returned the datagrams.
after_recv_frame(pending, datagrams) ==
  [(IF datagrams = <<>> THEN Nothing(pending.adapter)
    ELSE unwrap_tcp_in_ip(pending.adapter, datagrams[1])) EXCEPT !.out = pending.out]

ethernet_read(a, packet) ==
  LET received == recv_frame(a.interface, FrameOf(EthernetFrame_parse(packet)))
  IN  after_recv_frame(send_pending([a EXCEPT !.interface = received.interface]),
                       received.datagrams)

ethernet_write(a, seg) ==
  send_pending([a EXCEPT !.interface =
    send_datagram(@, wrap_tcp_in_ip(a, seg), a.next_hop)])

ethernet_tick(a, ms) == send_pending([a EXCEPT !.interface = tick(@, ms)])

----------------------------------------------------------------------------
(* The operations of an adapter of any kind.  _should_drop() is asked      *)
(* after a read and before a write of LossyFdAdapter.                      *)

read(a, source_address, packet) ==
  CASE a.kind = "udp" -> udp_read(a, source_address, packet)
    [] a.kind = "tun" -> tun_read(a, packet)
    [] a.kind = "ethernet" -> ethernet_read(a, packet)

write(a, seg) ==
  CASE a.kind = "udp" -> udp_write(a, seg)
    [] a.kind = "tun" -> tun_write(a, seg)
    [] a.kind = "ethernet" -> ethernet_write(a, seg)

lossy_read(a, source_address, packet, dropped) ==
  [read(a, source_address, packet) EXCEPT !.segments = IF dropped THEN <<>> ELSE @]

lossy_write(a, seg, dropped) ==
  IF dropped THEN [adapter |-> a, out |-> <<>>] ELSE write(a, seg)
=============================================================================
