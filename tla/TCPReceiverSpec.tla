--------------------------- MODULE TCPReceiverSpec ---------------------------
(***************************************************************************)
(* A TCPReceiver that receives the segments of one peer.  The network      *)
(* loses, repeats and reorders them, so any segment of the stream may      *)
(* arrive at any time, provided that it lies less than MaxAge behind the   *)
(* bytes written and at most MaxAhead beyond them (TCP's bound on the age  *)
(* of a segment, and the window).  The stream is longer than the boundary  *)
(* at which sequence numbers wrap around.                                  *)
(*                                                                         *)
(* promised is the history variable of StreamReassemblerSpec.              *)
(***************************************************************************)
EXTENDS TCPReceiver, WrappingIntegersSpec, FiniteSets

CONSTANTS Capacity, StreamLen, Isn, MaxAge, MaxAhead, MaxPayload

ASSUME TCPReceiverAssumption ==
  /\ Capacity \in Nat /\ StreamLen \in Nat /\ Isn \in WrappingInt32
  /\ MaxAge \in Nat /\ MaxAhead \in Nat /\ MaxPayload \in Nat
  /\ 2 * MaxAge < WrappingBoundary /\ 2 * MaxAhead < WrappingBoundary
  /\ MaxAge + Capacity + 1 < WrappingBoundary
  /\ StreamLen < UInt64Boundary
  /\ SizeMax >= 2 * StreamLen + 2 * Capacity

VARIABLES receiver, promised

vars == <<receiver, promised>>

\* What the receiver's reassembler has to do.
Reassembler == INSTANCE StreamReassemblerProofs
                 WITH reassembler <- receiver.reassembler

written == stream_out(receiver).bytes_written

\* ackno() before it is wrapped.
AbsoluteAckno ==
  written + 1 + (IF input_ended(stream_out(receiver)) THEN 1 ELSE 0)

Init == receiver = NewTCPReceiver(Capacity) /\ promised = {}

\* The segment with the n bytes from position i.
DataSegment(i, n, fin) ==
  [seqno |-> wrap(i + 1, Isn), syn |-> FALSE, fin |-> fin,
   payload |-> Reassembler!Excerpt(i, n)]

\* The segment that opens the connection, with n bytes of data.
SynSegment(n) ==
  [seqno |-> wrap(0, Isn), syn |-> TRUE, fin |-> FALSE,
   payload |-> Reassembler!Excerpt(0, n)]

Receive(seg, arrived) ==
  /\ receiver' = segment_received(receiver, seg)
  /\ promised' = IF receiver'.syn_recv
                 THEN promised \cup (arrived \cap Reassembler!Window)
                 ELSE promised

\* A segment of data, the last one with FIN; before the SYN it is ignored.
ReceiveData(i, n, fin) ==
  /\ i + n <= StreamLen /\ n <= MaxPayload
  /\ fin => i + n = StreamLen
  /\ written <= i + MaxAge /\ i <= written + MaxAhead
  /\ Receive(DataSegment(i, n, fin), i .. (i + n - 1))

\* The SYN, again perhaps; a repeated one contributes no data.
ReceiveSyn(n) ==
  /\ n <= StreamLen /\ n <= MaxPayload /\ written <= MaxAge
  /\ Receive(SynSegment(n), IF receiver.syn_recv THEN {} ELSE 0 .. (n - 1))

\* The application reads n bytes of the inbound stream.
Read(n) ==
  /\ n <= buffer_size(stream_out(receiver))
  /\ receiver' = [receiver EXCEPT !.reassembler.output = read(@, n)]
  /\ UNCHANGED promised

Next ==
  \/ \E i, n \in 0..StreamLen, fin \in BOOLEAN : ReceiveData(i, n, fin)
  \/ \E n \in 0..StreamLen : ReceiveSyn(n)
  \/ \E n \in 1..Capacity : Read(n)

Spec == Init /\ [][Next]_vars
-----------------------------------------------------------------------------
ReceiverRecord ==
  [reassembler : Reassembler!ReassemblerRecord, capacity : {Capacity},
   syn_recv : BOOLEAN, isn : WrappingInt32]

TypeOK ==
  /\ receiver \in ReceiverRecord
  /\ promised \in SUBSET (0..(StreamLen - 1))

(***************************************************************************)
(* Whatever sequence number the next segment carries, at whichever end of  *)
(* the 64-bit range the stream has come to, segment_received() takes it    *)
(* for the closest position to the bytes written that has this number.     *)
(***************************************************************************)
SeqnoUnwrapsClosest ==
  \A n \in WrappingInt32 :
    UnwrapClosest(n, (receiver.isn + 1) % WrappingBoundary, written)

(***************************************************************************)
(* Whatever arrives, the reassembler is handed true excerpts of the        *)
(* stream: every sequence number is unwrapped to the position of its byte, *)
(* before and after the sequence numbers wrap around, and a repeated SYN   *)
(* or a segment before the SYN has no effect.                              *)
(***************************************************************************)
ImplementsReassembler == Reassembler!Spec

(***************************************************************************)
(* What has been advertised is never taken back: neither the ackno nor the *)
(* right edge of the window (ackno + window_size) moves to the left,       *)
(* however segments and reads interleave.  The sender counts on both.      *)
(***************************************************************************)
AdvertisedNeverRetreats ==
  [][/\ AbsoluteAckno' >= AbsoluteAckno
     /\ AbsoluteAckno' + window_size(receiver') >= AbsoluteAckno + window_size(receiver)]_vars

(***************************************************************************)
(* The ackno is "the sequence number of the first byte in the stream that  *)
(* the receiver hasn't received" (tcp_receiver.hh:40).                     *)
(***************************************************************************)
AcknoIsFirstMissing ==
  receiver.syn_recv =>
    ackno(receiver) =
      wrap(IF receiver.reassembler.eof_set /\ written = StreamLen
           THEN StreamLen + 2 ELSE written + 1, Isn)
=============================================================================
