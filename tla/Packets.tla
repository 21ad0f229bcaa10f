------------------------------ MODULE Packets ------------------------------
(***************************************************************************)
(* What travels between two hosts: the bytes of TCP segments, IPv4         *)
(* datagrams, ARP messages and Ethernet frames, and the classes that       *)
(* write and read them, NetParser, BufferList and InternetChecksum of      *)
(* libsponge/util and the header and packet classes of                     *)
(* libsponge/tcp_helpers.                                                  *)
(*                                                                         *)
(* A Buffer is a sequence of bytes 0..255 and a BufferList a sequence of   *)
(* Buffers.  A uint32_t field is the pair of its 16-bit halves, an         *)
(* EthernetAddress the sequence of its six bytes.                          *)
(***************************************************************************)
EXTENDS Integers, Sequences, SequencesExt

----------------------------------------------------------------------------
(* BufferList.  A BufferList of several Buffers does not convert to a Buffer. *)

concatenate(list) == FlattenSeq(list)

\* Throws if there are several Buffers.
as_Buffer(list) == IF list = <<>> THEN <<>> ELSE list[1]

----------------------------------------------------------------------------
(* NetParser and NetUnparser.  The parser is what is left to read and the  *)
(* first error; after an error every number read is zero.                  *)

NetParser(buffer) == [buffer |-> buffer, error |-> "NoError"]

check_size(p, n) ==
  IF n > Len(p.buffer) THEN [p EXCEPT !.error = "PacketTooShort"] ELSE p

remove_prefix(p, n) ==
  LET q == check_size(p, n)
  IN  IF q.error /= "NoError" THEN q
      ELSE [q EXCEPT !.buffer = SubSeq(@, n + 1, Len(@))]

u16(b) == 256 * b[1] + b[2]

\* The number in the bytes b: u8(), u16() and u32(), or an Ethernet address.
Number(b) ==
  CASE Len(b) = 1 -> b[1]
    [] Len(b) = 2 -> u16(b)
    [] Len(b) = 4 -> <<u16(SubSeq(b, 1, 2)), u16(SubSeq(b, 3, 4))>>
    [] OTHER -> b

parse_int(p, width) ==
  LET q == remove_prefix(p, width)
  IN  [parser |-> q,
       value |-> IF q.error /= "NoError" THEN Number([i \in 1..width |-> 0])
                 ELSE Number(SubSeq(p.buffer, 1, width))]

\* The numbers of the given widths, read one after the other.
Fields(p, widths) ==
  FoldLeft(LAMBDA r, width : LET n == parse_int(r.parser, width)
                             IN  [parser |-> n.parser, values |-> Append(r.values, n.value)],
           [parser |-> p, values |-> <<>>], widths)

unparse_int(width, n) ==
  CASE width = 1 -> <<n>>
    [] width = 2 -> <<n \div 256, n % 256>>
    [] width = 4 -> <<n[1] \div 256, n[1] % 256, n[2] \div 256, n[2] % 256>>
    [] OTHER -> n

Unparse(widths, values) ==
  FlattenSeq([i \in DOMAIN widths |-> unparse_int(widths[i], values[i])])

\* string::resize() to n bytes, n no less than the length.
Resize(bytes, n) == bytes \o [i \in 1..n - Len(bytes) |-> 0]

\* Whether bit k of n is set, and the number with these bits set.
Bit(n, k) == (n \div 2^k) % 2 = 1
Bits(flags, values) ==
  FoldLeft(LAMBDA n, i : IF flags[i] THEN n + values[i] ELSE n, 0,
           [i \in DOMAIN flags |-> i])

----------------------------------------------------------------------------
(* InternetChecksum: the bytes are the high and the low halves of 16-bit   *)
(* numbers in turn, across calls of add().                                 *)

InternetChecksum(initial_sum) == [sum |-> initial_sum, parity |-> FALSE]

add(check, data) ==
  LET low(i) == check.parity = (i % 2 = 1)
      sum[i \in 0..Len(data)] ==
        IF i = 0 THEN check.sum
        ELSE sum[i - 1] + (IF low(i) THEN data[i] ELSE 256 * data[i])
  IN  [sum |-> sum[Len(data)], parity |-> check.parity /= (Len(data) % 2 = 1)]

\* Mutant: what does not fit in 16 bits is lost.
value_no_carry(check) == 65535 - (check.sum % 65536)

value(check) ==
  LET fold[ret \in Nat] == IF ret > 65535 THEN fold[(ret \div 65536) + (ret % 65536)] ELSE ret
  IN  65535 - fold[check.sum]

----------------------------------------------------------------------------
(* TCPHeader and TCPSegment.  TCPSegment::parse() looks at the checksum    *)
(* first and passes over the result of TCPHeader::parse(): what is left of *)
(* a header with a short doff is taken for payload.                        *)

TCPHeaderWidths == <<2, 2, 4, 4, 1, 1, 2, 2, 2>>
TCPHeaderLength == 20

\* The header with the numbers v in its fields.
TCPHeader(v) ==
  [sport |-> v[1], dport |-> v[2], seqno |-> v[3], ackno |-> v[4], doff |-> v[5] \div 16,
   urg |-> Bit(v[6], 5), ack |-> Bit(v[6], 4), psh |-> Bit(v[6], 3),
   rst |-> Bit(v[6], 2), syn |-> Bit(v[6], 1), fin |-> Bit(v[6], 0),
   win |-> v[7], cksum |-> v[8], uptr |-> v[9]]

TCPHeader_parse(p) ==
  LET f == Fields(p, TCPHeaderWidths)
      header == TCPHeader(f.values)
  IN  [header |-> header,
       parser |-> IF header.doff < 5 THEN f.parser
                  ELSE remove_prefix(f.parser, 4 * header.doff - TCPHeaderLength)]

\* Mutant: the bits of PSH and RST are exchanged.
TCPHeader_serialize_flags(h) ==
  Resize(Unparse(TCPHeaderWidths,
           <<h.sport, h.dport, h.seqno, h.ackno, 16 * h.doff,
             Bits(<<h.urg, h.ack, h.rst, h.psh, h.syn, h.fin>>, <<32, 16, 8, 4, 2, 1>>),
             h.win, h.cksum, h.uptr>>),
         4 * h.doff)

\* Throws unless doff is at least 5.
TCPHeader_serialize(h) ==
  Resize(Unparse(TCPHeaderWidths,
           <<h.sport, h.dport, h.seqno, h.ackno, 16 * h.doff,
             Bits(<<h.urg, h.ack, h.psh, h.rst, h.syn, h.fin>>, <<32, 16, 8, 4, 2, 1>>),
             h.win, h.cksum, h.uptr>>),
         4 * h.doff)

\* Mutant: the checksum is not looked at.
TCPSegment_parse_unchecked(buffer, datagram_layer_checksum) ==
  LET h == TCPHeader_parse(NetParser(buffer))
  IN  [result |-> h.parser.error, header |-> h.header, payload |-> h.parser.buffer]

TCPSegment_parse(buffer, datagram_layer_checksum) ==
  LET h == TCPHeader_parse(NetParser(buffer))
  IN  [result |-> IF value(add(InternetChecksum(datagram_layer_checksum), buffer)) /= 0
                  THEN "BadChecksum" ELSE h.parser.error,
       header |-> h.header, payload |-> h.parser.buffer]

TCPSegment_serialize(seg, datagram_layer_checksum) ==
  LET unsigned == TCPHeader_serialize([seg.header EXCEPT !.cksum = 0])
      check == add(add(InternetChecksum(datagram_layer_checksum), unsigned), seg.payload)
  IN  <<TCPHeader_serialize([seg.header EXCEPT !.cksum = value(check)]), seg.payload>>

----------------------------------------------------------------------------
(* IPv4Header and IPv4Datagram.  IPv4Datagram::parse() passes over the     *)
(* result of IPv4Header::parse(), whose early returns leave the options in *)
(* the payload; all it checks is the size of the payload.                  *)

IPv4HeaderWidths == <<1, 1, 2, 2, 2, 1, 1, 2, 4, 4>>
IPv4HeaderLength == 20
PROTO_TCP == 6
DEFAULT_TTL == 128

NewIPv4Header ==
  [ver |-> 4, hlen |-> IPv4HeaderLength \div 4, tos |-> 0, len |-> 0, id |-> 0,
   df |-> TRUE, mf |-> FALSE, offset |-> 0, ttl |-> DEFAULT_TTL, proto |-> PROTO_TCP,
   cksum |-> 0, src |-> <<0, 0>>, dst |-> <<0, 0>>]

\* The header with the numbers v in its fields.
IPv4Header(v) ==
  [ver |-> v[1] \div 16, hlen |-> v[1] % 16, tos |-> v[2], len |-> v[3], id |-> v[4],
   df |-> Bit(v[5], 14), mf |-> Bit(v[5], 13), offset |-> v[5] % 2^13,
   ttl |-> v[6], proto |-> v[7], cksum |-> v[8], src |-> v[9], dst |-> v[10]]

\* No early return before the options are read.
skips_options(header, data_size) ==
  /\ data_size >= 4 * header.hlen
  /\ header.ver = 4 /\ header.hlen >= 5
  /\ data_size = header.len

IPv4Header_parse(p) ==
  LET f == Fields(p, IPv4HeaderWidths)
      header == IPv4Header(f.values)
  IN  IF Len(p.buffer) < IPv4HeaderLength THEN [header |-> NewIPv4Header, parser |-> p]
      ELSE [header |-> header,
            parser |-> IF skips_options(header, Len(p.buffer))
                       THEN remove_prefix(f.parser, 4 * header.hlen - IPv4HeaderLength)
                       ELSE f.parser]

\* Throws unless ver is 4 and hlen at least 5.
IPv4Header_serialize(h) ==
  Resize(Unparse(IPv4HeaderWidths,
           <<16 * h.ver + h.hlen, h.tos, h.len, h.id,
             Bits(<<h.df, h.mf>>, <<2^14, 2^13>>) + h.offset,
             h.ttl, h.proto, h.cksum, h.src, h.dst>>),
         4 * h.hlen)

\* A uint16_t.
payload_length(h) == (h.len - 4 * h.hlen) % 65536

pseudo_cksum(h) ==
  h.src[1] + h.src[2] + h.dst[1] + h.dst[2] + h.proto + payload_length(h)

IPv4Datagram_parse(buffer) ==
  LET h == IPv4Header_parse(NetParser(buffer))
  IN  [result |-> IF Len(h.parser.buffer) /= payload_length(h.header)
                  THEN "PacketTooShort" ELSE h.parser.error,
       header |-> h.header, payload |-> <<h.parser.buffer>>]

\* Throws unless the payload has the length the header says.
IPv4Datagram_serialize(dgram) ==
  LET unsigned == IPv4Header_serialize([dgram.header EXCEPT !.cksum = 0])
      cksum == value(add(InternetChecksum(0), unsigned))
  IN  <<IPv4Header_serialize([dgram.header EXCEPT !.cksum = cksum])>> \o dgram.payload

----------------------------------------------------------------------------
(* EthernetHeader and EthernetFrame.  EthernetFrame::parse() passes over   *)
(* the result of EthernetHeader::parse(): a frame too short for a header   *)
(* has the default one.                                                    *)

EthernetHeaderWidths == <<6, 6, 2>>
EthernetHeaderLength == 14
TYPE_IPv4 == 2048
TYPE_ARP == 2054

NewEthernetHeader ==
  LET zero == [i \in 1..6 |-> 0] IN [dst |-> zero, src |-> zero, type |-> 0]

EthernetHeader_parse(p) ==
  LET f == Fields(p, EthernetHeaderWidths)
      v == f.values
  IN  IF Len(p.buffer) < EthernetHeaderLength
      THEN [header |-> NewEthernetHeader, parser |-> p]
      ELSE [header |-> [dst |-> v[1], src |-> v[2], type |-> v[3]], parser |-> f.parser]

EthernetHeader_serialize(h) == Unparse(EthernetHeaderWidths, <<h.dst, h.src, h.type>>)

EthernetFrame_parse(buffer) ==
  LET h == EthernetHeader_parse(NetParser(buffer))
  IN  [header |-> h.header, payload |-> <<h.parser.buffer>>]

EthernetFrame_serialize(frame) ==
  <<EthernetHeader_serialize(frame.header)>> \o frame.payload

----------------------------------------------------------------------------
(* ARPMessage.  parse() rejects what is not an Ethernet and IPv4 request   *)
(* or reply.                                                               *)

ARPWidths == <<2, 2, 1, 1, 2, 6, 4, 6, 4>>
ARPLength == 28
TYPE_ETHERNET == 1
OPCODE_REQUEST == 1
OPCODE_REPLY == 2

ARP_supported(fixed) ==
  /\ SubSeq(fixed, 1, 4) = <<TYPE_ETHERNET, TYPE_IPv4, 6, 4>>
  /\ fixed[5] \in {OPCODE_REQUEST, OPCODE_REPLY}

ARPMessage_parse(buffer) ==
  LET v == Fields(NetParser(buffer), ARPWidths).values
  IN  [result |-> IF Len(buffer) < ARPLength THEN "PacketTooShort"
                  ELSE IF ~ARP_supported(v) THEN "Unsupported" ELSE "NoError",
       opcode |-> v[5],
       sender_ethernet_address |-> v[6], sender_ip_address |-> v[7],
       target_ethernet_address |-> v[8], target_ip_address |-> v[9]]

ARPMessage_serialize(arp) ==
  Unparse(ARPWidths,
    <<TYPE_ETHERNET, TYPE_IPv4, 6, 4, arp.opcode,
      arp.sender_ethernet_address, arp.sender_ip_address,
      arp.target_ethernet_address, arp.target_ip_address>>)
=============================================================================
