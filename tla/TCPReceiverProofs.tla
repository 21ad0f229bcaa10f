-------------------------- MODULE TCPReceiverProofs --------------------------
(***************************************************************************)
(* The receiver implements the reassembler's specification, for every ISN, *)
(* every pair of widths and every length of the stream.                    *)
(***************************************************************************)
EXTENDS TCPReceiverSpec, WrappingIntegersProofs

\* The constants satisfy what StreamReassemblerProofs assumes of its own.
LEMMA Assumptions == Reassembler!ReassemblerAssumption /\ Reassembler!SizeMaxAssumption
BY TCPReceiverAssumption, SizeMaxAssumption
   DEF Reassembler!ReassemblerAssumption, Reassembler!SizeMaxAssumption

\* The operators of the instance are those of the modules it instantiates.
LEMMA SameOperators ==
  /\ \A s : Reassembler!buffer_size(s) = buffer_size(s)
  /\ \A s, d : Reassembler!read(s, d) = read(s, d)
  /\ \A s, d, e, f : Reassembler!push_substring(s, d, e, f) = push_substring(s, d, e, f)
<1>1. \A s : Reassembler!buffer_size(s) = buffer_size(s)
  BY DEF Reassembler!buffer_size, buffer_size
<1>2. \A s : Reassembler!remaining_capacity(s) = remaining_capacity(s)
  BY <1>1 DEF Reassembler!remaining_capacity, remaining_capacity
<1>3. \A s, d : Reassembler!bytes_to_read(s, d) = bytes_to_read(s, d)
  BY <1>1 DEF Reassembler!bytes_to_read, bytes_to_read
<1>4. \A s, d : Reassembler!read(s, d) = read(s, d)
  BY <1>3, Zenon DEF Reassembler!read, read
<1>5. \A s, d : Reassembler!accepted(s, d) = accepted(s, d)
  BY <1>2 DEF Reassembler!accepted, accepted
<1>6. \A s, d : Reassembler!write(s, d) = write(s, d)
  BY <1>5, Zenon DEF Reassembler!write, write
<1>7. \A s : Reassembler!end_input(s) = end_input(s)
  BY DEF Reassembler!end_input, end_input
<1>8. \A s : Reassembler!size_t(s) = size_t(s)
  BY DEF Reassembler!size_t, size_t
<1>9. \A s, d : Reassembler!first_bytes(s, d) = first_bytes(s, d)
  BY DEF Reassembler!first_bytes, first_bytes
<1>10. \A s : Reassembler!index_right(s) = index_right(s)
  BY DEF Reassembler!index_right, index_right
<1>11. \A s, d : Reassembler!can_coalesce(s, d) = can_coalesce(s, d)
  BY <1>10 DEF Reassembler!can_coalesce, can_coalesce
<1>12. \A s, d : Reassembler!head_of(s, d) = head_of(s, d)
  BY DEF Reassembler!head_of, head_of
<1>13. \A s, d : Reassembler!tail_of(s, d) = tail_of(s, d)
  BY DEF Reassembler!tail_of, tail_of, Reassembler!index_right, index_right
<1>14. \A s, d : Reassembler!coalesce(s, d) = coalesce(s, d)
  BY <1>12, <1>13, Zenon DEF Reassembler!coalesce, coalesce
<1>15. \A s, d : Reassembler!set_eof(s, d) = set_eof(s, d)
  BY <1>7, Zenon DEF Reassembler!set_eof, set_eof
<1>16. \A s, d : Reassembler!write_to_output(s, d) = write_to_output(s, d)
  BY <1>5, <1>6, <1>7, Zenon DEF Reassembler!write_to_output, write_to_output
<1>17. \A s : Reassembler!flush_to_output(s) = flush_to_output(s)
  BY <1>16, Zenon DEF Reassembler!flush_to_output, flush_to_output
<1>18. \A s, d, e : Reassembler!cut_left(s, d, e) = cut_left(s, d, e)
  BY DEF Reassembler!cut_left, cut_left
<1>19. \A s, d : Reassembler!cut_right(s, d) = cut_right(s, d)
  BY <1>8, <1>1, <1>9 DEF Reassembler!cut_right, cut_right
<1>20. \A s, d, e : Reassembler!push_unassembled_bytes(s, d, e) = push_unassembled_bytes(s, d, e)
  BY <1>19, <1>18, <1>11, <1>14, ZenonT(40) DEF Reassembler!push_unassembled_bytes, push_unassembled_bytes
<1>21. \A s, d, e, f : Reassembler!push_substring(s, d, e, f) = push_substring(s, d, e, f)
  BY <1>15, <1>17, <1>20 DEF Reassembler!push_substring, push_substring
<1> QED
  BY <1>1, <1>4, <1>21

\* Moving the ISN by one moves the position by one.
LEMMA WrapShift ==
  ASSUME NEW i \in Nat, NEW s \in WrappingInt32
  PROVE  /\ (s + 1) % WrappingBoundary \in WrappingInt32
         /\ wrap(i + 1, s) = wrap(i, (s + 1) % WrappingBoundary)
<1> DEFINE B == WrappingBoundary
           t == (s + 1) % B
           d == (s + 1) \div B
           y == (t + i) % B
           e == (t + i) \div B
<1>1. B \in Nat \ {0} /\ s \in Nat /\ s + 1 \in Nat
  BY WrappingAssumption DEF WrappingInt32
<1>2. t \in 0..(B - 1) /\ d \in Nat /\ s + 1 = d * B + t
  BY <1>1, DivMod, Zenon
<1>3. t \in Nat /\ t + i \in Nat
  BY <1>1, <1>2
<1> HIDE DEF t, d
<1>4. y \in 0..(B - 1) /\ e \in Nat /\ t + i = e * B + y
  BY <1>1, <1>3, DivMod
<1> HIDE DEF y, e, B
<1>5. s + (i + 1) = y + (d + e) * B
  <2> DEFINE dB == d * B
             eB == e * B
             f == (d + e) * B
  <2>1. dB \in Int /\ eB \in Int /\ f = dB + eB /\ s + 1 = dB + t /\ t + i = eB + y
    BY <1>1, <1>2, <1>4
  <2> HIDE DEF dB, eB, f
  <2>2. s + (i + 1) = y + f
    BY <2>1, <1>1, <1>2, <1>3, <1>4
  <2> QED
    BY <2>2 DEF f
<1>6. (s + (i + 1)) % B = y
  <2>1. s + (i + 1) \in Int /\ d + e \in Int
    BY <1>1, <1>2, <1>4
  <2> QED
    BY <2>1, <1>1, <1>4, <1>5, ModUnique, Zenon
<1> QED
  BY <1>2, <1>6 DEF wrap, WrappingInt32, y, t, B

\* The sequence number of a byte that is neither too old nor too far ahead is
\* unwrapped to the position of the byte.
LEMMA IndexOfByte ==
  ASSUME NEW i \in Nat, NEW w \in Nat, i <= StreamLen, w <= StreamLen,
         w <= i + MaxAge, i <= w + MaxAhead
  PROVE  unwrap(wrap(i + 1, Isn), (Isn + 1) % WrappingBoundary, w) = i
<1> DEFINE t == (Isn + 1) % WrappingBoundary
<1>1. i \in UInt64 /\ w \in UInt64
  BY TCPReceiverAssumption, WrappingAssumption DEF UInt64
<1>2. t \in WrappingInt32 /\ wrap(i + 1, Isn) = wrap(i, t)
  BY WrapShift, TCPReceiverAssumption
<1>3. 2 * abs(i - w) < WrappingBoundary
  BY TCPReceiverAssumption, WrappingAssumption DEF abs
<1> QED
  BY <1>1, <1>2, <1>3, RoundTripLemma

\* A repeated SYN is unwrapped to a position beyond anything accepted.
LEMMA IndexOfSyn ==
  ASSUME NEW w \in Nat, w <= StreamLen, w <= MaxAge
  PROVE  LET x == unwrap(wrap(0, Isn), (Isn + 1) % WrappingBoundary, w)
         IN  x \in Nat /\ x > w + Capacity
<1> DEFINE B == WrappingBoundary
           t == (Isn + 1) % B
           x == unwrap(wrap(0, Isn), t, w)
           d == (t + x) \div B
<1>1. /\ B \in Nat \ {0} /\ Isn \in 0..(B - 1) /\ Isn \in Nat
      /\ Capacity \in Nat /\ MaxAge \in Nat /\ MaxAge + Capacity + 1 < B
  BY WrappingAssumption, TCPReceiverAssumption DEF WrappingInt32
<1>2. wrap(0, Isn) = Isn
  <2>1. Isn + 0 = Isn + 0 * B /\ Isn + 0 \in Int
    BY <1>1
  <2> QED
    BY <2>1, <1>1, ModUnique DEF wrap
<1>3. t \in WrappingInt32 /\ t \in 0..(B - 1)
  BY WrapShift, TCPReceiverAssumption DEF WrappingInt32
<1>4. t = Isn + 1 \/ (t = 0 /\ Isn = B - 1)
  <2>1. CASE Isn + 1 < B
    <3>1. Isn + 1 \in 0..(B - 1) /\ Isn + 1 = (Isn + 1) + 0 * B
      BY <1>1, <2>1
    <3> QED
      BY <3>1, <1>1, ModUnique
  <2>2. CASE Isn + 1 = B
    <3>1. 0 \in 0..(B - 1) /\ Isn + 1 = 0 + 1 * B /\ Isn + 1 \in Int
      BY <1>1, <2>2
    <3>2. t = 0
      BY <3>1, <1>1, ModUnique
    <3> QED
      BY <3>2, <1>1, <2>2
  <2> QED
    BY <2>1, <2>2, <1>1
<1>5. x \in Nat /\ (t + x) % B = Isn
  <2>1. w \in UInt64 /\ Isn \in WrappingInt32
    BY TCPReceiverAssumption, WrappingAssumption DEF UInt64
  <2>2. x \in UInt64 /\ wrap(x, t) = Isn
    BY <2>1, <1>2, <1>3, UnwrapLemma
  <2> QED
    BY <2>2 DEF UInt64, wrap
<1> HIDE DEF t, x
<1>6. d \in Nat /\ t + x = d * B + Isn
  <2>1. t + x \in Nat
    BY <1>3, <1>5
  <2> QED
    BY <2>1, <1>1, <1>5, DivMod, Zenon
<1> HIDE DEF d
<1>7. x + 1 >= B
  <2>1. CASE t = 0 /\ Isn = B - 1
    <3>1. d * B \in Nat
      BY <1>1, <1>6
    <3> QED
      BY <3>1, <2>1, <1>1, <1>5, <1>6
  <2>2. CASE t = Isn + 1
    <3>1. d # 0
      BY <2>2, <1>1, <1>5, <1>6
    <3>2. 1 * B <= d * B
      BY <3>1, <1>1, <1>6, MultipleOrder
    <3> QED
      BY <3>2, <2>2, <1>1, <1>5, <1>6
  <2> QED
    BY <2>1, <2>2, <1>4
<1> QED
  BY <1>1, <1>5, <1>7 DEF x, t
-----------------------------------------------------------------------------
(***************************************************************************)
(* The inductive invariant: the reassembler's own, and that the ISN is the *)
(* peer's once the SYN has been received.                                  *)
(***************************************************************************)
RInv ==
  /\ Reassembler!IInv
  /\ receiver \in ReceiverRecord
  /\ receiver.syn_recv => receiver.isn = Isn

\* What RInv says about the number of bytes written.
LEMMA WrittenBound ==
  ASSUME RInv
  PROVE  /\ written \in Nat /\ written <= StreamLen
         /\ receiver.reassembler.index = written
         /\ receiver.reassembler.capacity = Capacity
<1>1. Reassembler!Core(receiver.reassembler)
  BY DEF RInv, Reassembler!IInv
<1>2. receiver.reassembler.index \in Nat /\ receiver.reassembler.capacity = Capacity
  BY <1>1, Reassembler!CoreArithmetic, Assumptions
<1> QED
  BY <1>1, <1>2 DEF Reassembler!Core, written, stream_out

\* The receiver after a segment that is not ignored.
LEMMA ReceivedSegment ==
  ASSUME RInv, NEW seg, receiver.syn_recv \/ seg.syn,
         receiver.syn_recv \/ seg.seqno = Isn, Isn \in WrappingInt32,
         receiver' = segment_received(receiver, seg)
  PROVE  /\ receiver'.reassembler =
              Reassembler!push_substring(receiver.reassembler, seg.payload,
                                         stream_index(receiver, seg), seg.fin)
         /\ receiver'.syn_recv = TRUE /\ receiver'.isn = Isn
         /\ receiver'.capacity = Capacity
         /\ receiver' = [reassembler |-> receiver'.reassembler, capacity |-> Capacity,
                         syn_recv |-> TRUE, isn |-> Isn]
<1> DEFINE ra == push_substring(receiver.reassembler, seg.payload,
                                stream_index(receiver, seg), seg.fin)
<1>1. receiver' = [receiver EXCEPT !.syn_recv = TRUE,
                     !.isn = IF receiver.syn_recv THEN receiver.isn ELSE seg.seqno,
                     !.reassembler = ra]
  BY DEF segment_received
<1>2. (IF receiver.syn_recv THEN receiver.isn ELSE seg.seqno) = Isn
  BY DEF RInv
<1>3. ra = Reassembler!push_substring(receiver.reassembler, seg.payload,
                                      stream_index(receiver, seg), seg.fin)
  BY SameOperators
<1> HIDE DEF ra
<1>4. receiver' = [reassembler |-> ra, capacity |-> Capacity,
                   syn_recv |-> TRUE, isn |-> Isn]
  BY <1>1, <1>2, Zenon DEF RInv, ReceiverRecord
<1> QED
  BY <1>3, <1>4

\* A segment of data is an excerpt pushed at its own position.
LEMMA DataStep ==
  ASSUME RInv, NEW i \in 0..StreamLen, NEW n \in 0..StreamLen, NEW fin \in BOOLEAN,
         ReceiveData(i, n, fin), receiver.syn_recv
  PROVE  /\ Reassembler!PushSubstring(i, n, fin)
         /\ receiver' = [reassembler |-> receiver'.reassembler, capacity |-> Capacity,
                         syn_recv |-> TRUE, isn |-> Isn]
<1> DEFINE seg == DataSegment(i, n, fin)
<1>1. /\ i + n <= StreamLen /\ (fin => i + n = StreamLen)
      /\ written <= i + MaxAge /\ i <= written + MaxAhead
      /\ receiver' = segment_received(receiver, seg)
      /\ promised' = IF receiver'.syn_recv
                     THEN promised \cup ((i .. (i + n - 1)) \cap Reassembler!Window)
                     ELSE promised
  BY DEF ReceiveData, Receive
<1>2. seg.seqno = wrap(i + 1, Isn) /\ seg.fin = fin
      /\ seg.payload = Reassembler!Excerpt(i, n)
  BY DEF DataSegment
<1>3. stream_index(receiver, seg) = i
  <2>1. stream_index(receiver, seg)
          = unwrap(wrap(i + 1, Isn), (Isn + 1) % WrappingBoundary, written)
    BY <1>2 DEF stream_index, RInv, written
  <2>2. i \in Nat /\ i <= StreamLen
    BY TCPReceiverAssumption
  <2> QED
    BY <2>1, <2>2, <1>1, WrittenBound, IndexOfByte
<1> HIDE DEF seg
<1>4. /\ receiver'.reassembler =
           Reassembler!push_substring(receiver.reassembler, seg.payload,
                                      stream_index(receiver, seg), seg.fin)
      /\ receiver'.syn_recv = TRUE
      /\ receiver' = [reassembler |-> receiver'.reassembler, capacity |-> Capacity,
                      syn_recv |-> TRUE, isn |-> Isn]
  BY <1>1, ReceivedSegment, TCPReceiverAssumption, Zenon
<1>5. Reassembler!PushSubstring(i, n, fin)
  BY <1>1, <1>2, <1>3, <1>4 DEF Reassembler!PushSubstring
<1> QED
  BY <1>4, <1>5

\* The SYN that opens the connection pushes its data at position 0; a
\* repeated SYN changes nothing.
LEMMA SynStep ==
  ASSUME RInv, NEW n \in 0..StreamLen, ReceiveSyn(n)
  PROVE  /\ \/ Reassembler!PushSubstring(0, n, FALSE)
            \/ receiver'.reassembler = receiver.reassembler /\ promised' = promised
         /\ receiver' = [reassembler |-> receiver'.reassembler, capacity |-> Capacity,
                         syn_recv |-> TRUE, isn |-> Isn]
<1> DEFINE seg == SynSegment(n)
           arrived == IF receiver.syn_recv THEN {} ELSE 0 .. (n - 1)
           x == stream_index(receiver, seg)
<1>1. /\ n <= StreamLen /\ written <= MaxAge /\ n \in Nat
      /\ receiver' = segment_received(receiver, seg)
      /\ promised' = IF receiver'.syn_recv
                     THEN promised \cup (arrived \cap Reassembler!Window)
                     ELSE promised
  BY DEF ReceiveSyn, Receive
<1>2. /\ seg.seqno = wrap(0, Isn) /\ seg.fin = FALSE /\ seg.syn = TRUE
      /\ seg.payload = Reassembler!Excerpt(0, n)
  BY DEF SynSegment
<1>3. wrap(0, Isn) = Isn /\ Isn \in WrappingInt32
  <2>1. Isn \in 0..(WrappingBoundary - 1) /\ Isn + 0 = Isn + 0 * WrappingBoundary
        /\ WrappingBoundary \in Nat \ {0} /\ Isn + 0 \in Int
    BY WrappingAssumption, TCPReceiverAssumption DEF WrappingInt32
  <2> QED
    BY <2>1, ModUnique, TCPReceiverAssumption DEF wrap
<1> HIDE DEF seg, arrived
<1>4. /\ receiver'.reassembler =
           Reassembler!push_substring(receiver.reassembler, seg.payload, x, seg.fin)
      /\ receiver'.syn_recv = TRUE
      /\ receiver' = [reassembler |-> receiver'.reassembler, capacity |-> Capacity,
                      syn_recv |-> TRUE, isn |-> Isn]
  BY <1>1, <1>2, <1>3, ReceivedSegment, Zenon
<1>5. CASE ~receiver.syn_recv
  <2>1. x = unwrap(wrap(0 + 1, Isn), (Isn + 1) % WrappingBoundary, written)
    BY <1>2, <1>3, <1>5 DEF stream_index, written, wrap
  <2>2. 0 <= StreamLen /\ written <= 0 + MaxAge /\ 0 <= written + MaxAhead
    BY <1>1, WrittenBound, TCPReceiverAssumption
  <2>3. x = 0
    BY <2>1, <2>2, WrittenBound, IndexOfByte
  <2>4. arrived = 0 .. (0 + n - 1) /\ 0 + n <= StreamLen
    BY <1>1, <1>5 DEF arrived
  <2>5. Reassembler!PushSubstring(0, n, FALSE)
    BY <1>1, <1>2, <1>4, <2>3, <2>4, Zenon DEF Reassembler!PushSubstring
  <2> QED
    BY <2>5, <1>4, Zenon
<1>6. CASE receiver.syn_recv
  <2>1. x = unwrap(wrap(0, Isn), (Isn + 1) % WrappingBoundary, written)
    BY <1>2, <1>6 DEF stream_index, RInv, written
  <2>2. x \in Nat /\ x > written + Capacity
    BY <2>1, <1>1, WrittenBound, IndexOfSyn
  <2>3. receiver'.reassembler = receiver.reassembler
    BY <2>2, <1>2, <1>4, WrittenBound DEF Reassembler!push_substring
  <2>4. promised' = promised
    BY <1>1, <1>4, <1>6 DEF arrived
  <2> QED
    BY <2>3, <2>4, <1>4
<1> QED
  BY <1>5, <1>6, Zenon

\* A read of the receiver is one of the reassembler.
LEMMA ReadStep ==
  ASSUME RInv, NEW n \in 1..Capacity, Read(n)
  PROVE  /\ Reassembler!Read(n)
         /\ receiver' = [receiver EXCEPT !.reassembler = receiver'.reassembler]
<1> DEFINE ra == receiver.reassembler
           out == read(ra.output, n)
<1>1. /\ n <= buffer_size(ra.output) /\ promised' = promised
      /\ receiver' = [receiver EXCEPT !.reassembler = [ra EXCEPT !.output = out]]
  BY DEF Read, stream_out
<1>2. receiver'.reassembler = [ra EXCEPT !.output = out]
  BY <1>1 DEF RInv, ReceiverRecord
<1>3. out = Reassembler!read(ra.output, n) /\ n <= Reassembler!buffer_size(ra.output)
  BY <1>1, SameOperators
<1> HIDE DEF out
<1> QED
  BY <1>1, <1>2, <1>3 DEF Reassembler!Read, Reassembler!output

\* The receiver starts as the reassembler does.
LEMMA InitStep == Init => RInv /\ Reassembler!Init
<1> SUFFICES ASSUME Init PROVE RInv /\ Reassembler!Init
  OBVIOUS
<1>1. receiver.reassembler = Reassembler!NewStreamReassembler(Capacity) /\ promised = {}
  BY DEF Init, NewTCPReceiver, NewStreamReassembler, NewByteStream,
         Reassembler!NewStreamReassembler, Reassembler!NewByteStream
<1>2. Reassembler!Init
  BY <1>1 DEF Reassembler!Init
<1>3. Reassembler!IInv
  BY <1>2, Reassembler!InitIInv, Assumptions
<1>4. receiver.reassembler \in Reassembler!ReassemblerRecord
  BY <1>3 DEF Reassembler!IInv, Reassembler!Core
<1>5. receiver = [reassembler |-> receiver.reassembler, capacity |-> Capacity,
                  syn_recv |-> FALSE, isn |-> 0] /\ 0 \in WrappingInt32
  BY WrappingAssumption DEF Init, NewTCPReceiver, WrappingInt32
<1>6. receiver \in ReceiverRecord /\ receiver.syn_recv = FALSE
  <2> DEFINE ra == receiver.reassembler
  <2>1. receiver = [reassembler |-> ra, capacity |-> Capacity, syn_recv |-> FALSE, isn |-> 0]
        /\ ra \in Reassembler!ReassemblerRecord
    BY <1>4, <1>5
  <2> HIDE DEF ra
  <2> QED
    BY <2>1, <1>5 DEF ReceiverRecord
<1>7. RInv
  BY <1>3, <1>6 DEF RInv
<1> QED
  BY <1>2, <1>7

\* Every step of the receiver is a step of the reassembler or leaves it alone.
LEMMA NextStep ==
  RInv /\ [Next]_vars => RInv' /\ [Reassembler!Next]_(Reassembler!vars)
<1> SUFFICES ASSUME RInv, [Next]_vars
             PROVE  RInv' /\ [Reassembler!Next]_(Reassembler!vars)
  OBVIOUS
<1> DEFINE Fields == receiver' = [reassembler |-> receiver'.reassembler,
                       capacity |-> Capacity, syn_recv |-> TRUE, isn |-> Isn]
           Kept == receiver' = [receiver EXCEPT !.reassembler = receiver'.reassembler]
           Goal == /\ [Reassembler!Next]_(Reassembler!vars)
                   /\ Fields \/ receiver' = receiver \/ Kept
<1>1. Goal
  <2>1. ASSUME NEW i \in 0..StreamLen, NEW n \in 0..StreamLen, NEW fin \in BOOLEAN,
               ReceiveData(i, n, fin)
        PROVE  Goal
    <3>1. CASE receiver.syn_recv
      <4>1. Reassembler!PushSubstring(i, n, fin) /\ Fields
        BY <2>1, <3>1, DataStep
      <4> QED
        BY <4>1 DEF Reassembler!Next
    <3>2. CASE ~receiver.syn_recv
      <4>1. receiver' = receiver /\ promised' = promised
        BY <2>1, <3>2 DEF ReceiveData, Receive, segment_received, DataSegment
      <4> QED
        BY <4>1 DEF Reassembler!vars
    <3> QED
      BY <3>1, <3>2
  <2>2. ASSUME NEW n \in 0..StreamLen, ReceiveSyn(n) PROVE Goal
    <3>1. Fields
      BY <2>2, SynStep, Zenon
    <3>2. CASE Reassembler!PushSubstring(0, n, FALSE)
      <4>1. 0 \in 0..StreamLen
        BY TCPReceiverAssumption
      <4> QED
        BY <3>1, <3>2, <4>1, Zenon DEF Reassembler!Next
    <3>3. CASE receiver'.reassembler = receiver.reassembler /\ promised' = promised
      BY <3>1, <3>3 DEF Reassembler!vars
    <3> QED
      BY <2>2, <3>2, <3>3, SynStep, Zenon
  <2>3. ASSUME NEW n \in 1..Capacity, Read(n) PROVE Goal
    <3>1. /\ Reassembler!Read(n)
          /\ receiver' = [receiver EXCEPT !.reassembler = receiver'.reassembler]
      BY <2>3, ReadStep
    <3> QED
      BY <3>1 DEF Reassembler!Next
  <2>4. CASE UNCHANGED vars
    BY <2>4 DEF vars, Reassembler!vars
  <2> HIDE DEF Goal
  <2> QED
    BY <2>1, <2>2, <2>3, <2>4 DEF Next
<1>2. Reassembler!IInv'
  BY <1>1, Reassembler!NextIInv, Assumptions DEF RInv
<1>3. receiver'.reassembler \in Reassembler!ReassemblerRecord
  BY <1>2 DEF Reassembler!IInv, Reassembler!Core
<1>4. receiver' \in ReceiverRecord /\ (receiver'.syn_recv => receiver'.isn = Isn)
  <2> DEFINE ra == receiver'.reassembler
  <2>1. ra \in Reassembler!ReassemblerRecord /\ Isn \in WrappingInt32
    BY <1>3, TCPReceiverAssumption
  <2>2. CASE Fields
    <3>1. receiver' = [reassembler |-> ra, capacity |-> Capacity, syn_recv |-> TRUE,
                       isn |-> Isn]
      BY <2>2
    <3> HIDE DEF ra
    <3> QED
      BY <3>1, <2>1 DEF ReceiverRecord
  <2>3. CASE receiver' = receiver
    BY <2>3 DEF RInv
  <2>4. CASE Kept
    <3>1. receiver' = [receiver EXCEPT !.reassembler = ra]
      BY <2>4
    <3> HIDE DEF ra
    <3> QED
      BY <3>1, <2>1 DEF RInv, ReceiverRecord
  <2> QED
    BY <1>1, <2>2, <2>3, <2>4
<1>5. RInv'
  BY <1>2, <1>4 DEF RInv
<1> QED
  BY <1>1, <1>5

\* The fields of the receiver keep their types.
THEOREM ReceiverTypeCorrect == Spec => []TypeOK
<1>1. RInv => TypeOK
  BY DEF RInv, TypeOK, Reassembler!IInv
<1> QED
  BY <1>1, InitStep, NextStep, PTL DEF Spec

\* A sequence number is taken for the closest position, for every pair of widths.
THEOREM SeqnoIsClosest == Spec => []SeqnoUnwrapsClosest
<1>1. ASSUME RInv PROVE SeqnoUnwrapsClosest
  <2>1. (receiver.isn + 1) % WrappingBoundary \in WrappingInt32
    <3>1. receiver.isn \in Nat /\ WrappingBoundary \in Nat \ {0}
      BY <1>1, WrappingAssumption DEF RInv, ReceiverRecord, WrappingInt32
    <3> QED
      BY <3>1 DEF WrappingInt32
  <2>2. written \in UInt64
    BY <1>1, WrittenBound, TCPReceiverAssumption, WrappingAssumption DEF UInt64
  <2> QED
    BY <2>1, <2>2, UnwrapLemma DEF SeqnoUnwrapsClosest, UnwrapClosest
<1> QED
  BY <1>1, InitStep, NextStep, PTL DEF Spec

\* What RInv says of the output: the right edge of the window is bytes_read
\* plus the capacity.
LEMMA AdvertisedEdge ==
  ASSUME RInv
  PROVE  /\ window_size(receiver) \in Int /\ Reassembler!Edge(receiver.reassembler) \in Nat
         /\ written + window_size(receiver) = Reassembler!Edge(receiver.reassembler)
<1> DEFINE ra == receiver.reassembler
           size == Len(ra.output.buffer)
           edge == Reassembler!Edge(ra)
<1>1. Reassembler!Core(ra)
  BY DEF RInv, Reassembler!IInv
<1>2. /\ ra.index \in Nat /\ ra.capacity = Capacity /\ Capacity \in Nat /\ size \in Nat
      /\ edge \in Nat /\ edge = ra.index + ra.capacity - Reassembler!buffer_size(ra.output)
      /\ Reassembler!buffer_size(ra.output) = size
  BY <1>1, Reassembler!CoreArithmetic, Assumptions
<1>3. window_size(receiver) = Capacity - size
  BY DEF window_size, stream_out, buffer_size, RInv, ReceiverRecord
<1>4. written = ra.index
  BY WrittenBound
<1> HIDE DEF ra, size, edge
<1>5. Capacity - size \in Int /\ ra.index + (Capacity - size) = edge
  BY <1>2
<1> QED
  BY <1>2, <1>3, <1>4, <1>5 DEF edge, ra

\* Neither the ackno nor the right edge of the window ever moves to the left,
\* however segments and reads interleave.
THEOREM AdvertisedKept == Spec => AdvertisedNeverRetreats
<1> DEFINE Kept == /\ AbsoluteAckno' >= AbsoluteAckno
                   /\ AbsoluteAckno' + window_size(receiver')
                        >= AbsoluteAckno + window_size(receiver)
           Sizes == /\ written \in Nat /\ window_size(receiver) \in Int
                    /\ written = receiver.reassembler.index
                    /\ written + window_size(receiver)
                         = Reassembler!Edge(receiver.reassembler)
<1>0. RInv => Sizes
  BY WrittenBound, AdvertisedEdge
<1>1. ASSUME RInv, [Next]_vars, RInv' => Sizes' PROVE Kept
  <2> DEFINE x == written
             y == written'
             d == window_size(receiver)
             e == window_size(receiver')
             fin == IF input_ended(stream_out(receiver)) THEN 1 ELSE 0
             fin2 == IF input_ended(stream_out(receiver')) THEN 1 ELSE 0
  <2>1. RInv' /\ [Reassembler!Next]_(Reassembler!vars)
    BY <1>1, NextStep
  <2>2. /\ receiver.reassembler.index <= receiver'.reassembler.index
        /\ Reassembler!Edge(receiver.reassembler) <= Reassembler!Edge(receiver'.reassembler)
        /\ receiver.reassembler.output.eof => receiver'.reassembler.output.eof
    BY <1>1, <2>1, Reassembler!NeverRetreats, Assumptions DEF RInv, Reassembler!output
  <2>3. /\ x \in Nat /\ d \in Int /\ x = receiver.reassembler.index
        /\ x + d = Reassembler!Edge(receiver.reassembler)
    BY <1>0, <1>1
  <2>4. /\ y \in Nat /\ e \in Int /\ y = receiver'.reassembler.index
        /\ y + e = Reassembler!Edge(receiver'.reassembler)
    BY <1>1, <2>1
  <2>5. fin \in {0, 1} /\ fin2 \in {0, 1} /\ fin <= fin2
    BY <2>2 DEF input_ended, stream_out
  <2>6. AbsoluteAckno = x + 1 + fin /\ AbsoluteAckno' = y + 1 + fin2
    BY DEF AbsoluteAckno
  <2>7. x <= y /\ x + d <= y + e
    BY <2>2, <2>3, <2>4
  <2> HIDE DEF x, y, d, e, fin, fin2
  <2>8. /\ y + 1 + fin2 >= x + 1 + fin
        /\ y + 1 + fin2 + e >= x + 1 + fin + d
    BY <2>3, <2>4, <2>5, <2>7
  <2> QED
    BY <2>6, <2>8 DEF d, e
<1>2. RInv /\ [Next]_vars /\ (RInv' => Sizes') => [Kept]_vars
  BY <1>1
<1> QED
  BY <1>0, <1>2, InitStep, NextStep, PTL DEF Spec, AdvertisedNeverRetreats

\* The receiver hands its reassembler true excerpts of the stream, whatever
\* arrives and however often the sequence numbers wrap around.
THEOREM ReceiverImplements == Spec => ImplementsReassembler
<1>1. Spec => Reassembler!Spec
  BY InitStep, NextStep, PTL DEF Spec, Reassembler!Spec
<1> QED
  BY <1>1 DEF ImplementsReassembler
=============================================================================
