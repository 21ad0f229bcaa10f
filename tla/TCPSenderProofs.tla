--------------------------- MODULE TCPSenderProofs ---------------------------
(***************************************************************************)
(* The invariants of TCPSenderSpec hold for every stream, window, timeout  *)
(* and payload size, and every order of the acknowledgments, as long as no *)
(* sequence number wraps around.                                           *)
(***************************************************************************)
EXTENDS TCPSenderSpec, WrappingIntegersProofs, SequenceTheorems

Segment == [seqno : Nat, syn : BOOLEAN, fin : BOOLEAN, payload : Seq(Nat)]

StreamRecord ==
  [capacity : {SendCapacity}, buffer : Seq(Nat), eof : BOOLEAN,
   bytes_written : Nat, bytes_read : Nat, error : BOOLEAN]

SenderRecord ==
  [isn : {Isn}, segments_out : Seq(Segment), outstanding_segments : Seq(Segment),
   initial_retransmission_timeout : {RetxTimeout},
   retransmission_timeout : Nat, stream : StreamRecord,
   next_seqno : Nat, window_size : Nat, retransmission_timer_on : BOOLEAN,
   retransmission_timer : Nat, consecutive_retransmissions : Nat,
   highest_ackno : Int, highest_ackno_right : Int, fin_sent : BOOLEAN,
   window_empty : BOOLEAN]

\* The stream holds the bytes written and not read, each with its number.
Numbered(st) ==
  /\ Len(st.buffer) <= SendCapacity /\ st.bytes_written <= StreamLen
  /\ st.bytes_written = st.bytes_read + Len(st.buffer)
  /\ \A k \in DOMAIN st.buffer : st.buffer[k] = st.bytes_read + k - 1

\* A segment with its sequence number and its bytes.
InPlace(seg) ==
  /\ length_in_sequence_space(seg) > 0 /\ seg.seqno >= Isn
  /\ seg.syn <=> seg.seqno = Isn
  /\ \A j \in DOMAIN seg.payload : seg.payload[j] = seg.seqno - Isn + j - 2

End(seg) == seg.seqno + length_in_sequence_space(seg)

(***************************************************************************)
(* The segments from the ackno up to next, in order and without a gap; the *)
(* last one has FIN or not.  (That they are in order would follow from     *)
(* that they have no gap, by induction.)                                   *)
(***************************************************************************)
Queue(list, next, ack, fin) ==
  /\ \A k \in DOMAIN list :
       /\ InPlace(list[k])
       /\ End(list[k]) = IF k = Len(list) THEN Isn + next ELSE list[k + 1].seqno
       /\ list[k].fin <=> k = Len(list) /\ fin
  /\ \A j, k \in DOMAIN list : j < k => End(list[j]) <= list[k].seqno
  /\ list = <<>> <=> ack = next
  /\ list # <<>> => list[1].seqno <= Isn + ack /\ Isn + ack < End(list[1])

\* The timer runs while something is outstanding.
Timed(s) == s.retransmission_timer_on <=> s.outstanding_segments # <<>>

\* SYN, the bytes read and FIN are counted.
Counted(s) ==
  /\ s.next_seqno > 0 =>
       s.next_seqno = 1 + s.stream.bytes_read + (IF s.fin_sent THEN 1 ELSE 0)
  /\ s.next_seqno = 0 => s.stream.bytes_read = 0 /\ ~s.fin_sent
  /\ s.fin_sent => eof(s.stream)

\* A sender between two calls whose peer has acknowledged up to ack.
Good(s, ack) ==
  /\ s \in SenderRecord /\ Numbered(s.stream) /\ Counted(s) /\ Timed(s)
  /\ Queue(s.outstanding_segments, s.next_seqno, ack, s.fin_sent)

\* What the sender remembers of the peer, whose window ends at right; late if
\* an acknowledgment has arrived out of order.
Informed(s, ack, right, late) ==
  /\ s.consecutive_retransmissions <= MAX_RETX_ATTEMPTS + 1
  /\ s.retransmission_timeout = Doubled[s.consecutive_retransmissions]
  /\ s.highest_ackno = (IF ack = 0 THEN -1 ELSE Isn + ack)
  /\ ack = 0 => s.highest_ackno_right = -1
  /\ ~late => s.highest_ackno_right <= Isn + right
  /\ ~late /\ ack > 0 => s.next_seqno + s.window_size >= right

\* Bytes are left in the stream only when no window is left, and some is left
\* when nothing is outstanding.
Filled(s, late) ==
  /\ ~buffer_empty(s.stream) => s.window_size = 0
  /\ ~late /\ s.next_seqno > 0 /\ s.outstanding_segments = <<>> =>
       /\ s.window_size > 0 /\ buffer_empty(s.stream)
       /\ input_ended(s.stream) => s.fin_sent

(***************************************************************************)
(* The inductive invariant.  The stall is excluded by the window that is   *)
(* left; that it reaches the peer's edge is what keeps it from being 0     *)
(* when an acknowledgment does not move the edge.                          *)
(***************************************************************************)
IInv ==
  /\ Good(sender, acked) /\ Informed(sender, acked, edge, reordered)
  /\ Filled(sender, reordered)
  /\ acked \in Nat /\ edge \in Nat /\ acked <= edge /\ reordered \in BOOLEAN
  /\ acks \subseteq (1..acked) \X (0..MaxWindow)
-----------------------------------------------------------------------------
\* The types of the constants.
LEMMA Constants ==
  /\ SendCapacity \in Nat /\ StreamLen \in Nat /\ MaxWindow \in Nat
  /\ RetxTimeout \in Nat /\ MaxMs \in Nat /\ Isn \in Nat
  /\ WrappingBoundary \in Nat \ {0} /\ Isn < WrappingBoundary
  /\ MAX_PAYLOAD_SIZE \in Nat \ {0} /\ MAX_RETX_ATTEMPTS \in Nat
BY TCPSenderAssumption, TCPConfigAssumption, WrappingAssumption DEF WrappingInt32

\* A number that stays below the boundary is not changed by wrap().
LEMMA WrapSmall ==
  ASSUME NoWrap, NEW n \in Nat, n <= StreamLen + 2
  PROVE  wrap(n, Isn) = Isn + n
<1>1. Isn + n \in 0..(WrappingBoundary - 1) /\ WrappingBoundary \in Nat \ {0}
  BY Constants DEF NoWrap
<1>2. Isn + n = (Isn + n) + 0 * WrappingBoundary
  BY <1>1
<1> QED
  BY <1>1, <1>2, ModUnique, SMTT(20) DEF wrap

\* The lengths and ends of segments are natural numbers.
LEMMA LengthIsNat ==
  ASSUME NEW seg \in Segment
  PROVE  /\ length_in_sequence_space(seg) \in Nat /\ End(seg) \in Nat /\ seg.seqno \in Nat
         /\ Len(seg.payload) \in Nat
<1>1. Len(seg.payload) \in Nat /\ seg.seqno \in Nat /\ seg.syn \in BOOLEAN /\ seg.fin \in BOOLEAN
  BY DEF Segment
<1> DEFINE n == Len(seg.payload)
           a == IF seg.syn THEN 1 ELSE 0
           b == IF seg.fin THEN 1 ELSE 0
<1>2. n \in Nat /\ a \in Nat /\ b \in Nat
  BY <1>1
<1>3. length_in_sequence_space(seg) = n + a + b
  BY DEF length_in_sequence_space
<1> HIDE DEF n, a, b
<1>4. length_in_sequence_space(seg) \in Nat
  BY <1>2, <1>3
<1> QED
  BY <1>1, <1>4 DEF End

\* The end of the queue: every segment ends at next or before.
LEMMA EndsBefore ==
  ASSUME NEW list \in Seq(Segment), NEW next \in Nat, NEW ack, NEW fin,
         Queue(list, next, ack, fin), NEW k \in DOMAIN list
  PROVE  End(list[k]) <= Isn + next /\ list[k].seqno < Isn + next
<1>1. Len(list) \in Nat /\ DOMAIN list = 1..Len(list) /\ Len(list) \in DOMAIN list
  OBVIOUS
<1> DEFINE last == Len(list)
<1>2. list[k] \in Segment /\ list[last] \in Segment
  BY <1>1, ElementOfSeq
<1>3. End(list[last]) = Isn + next /\ InPlace(list[last]) /\ InPlace(list[k])
  BY <1>1 DEF Queue
<1>4. k = last \/ End(list[k]) <= list[last].seqno
  BY <1>1 DEF Queue
<1>5. /\ End(list[k]) = list[k].seqno + length_in_sequence_space(list[k])
      /\ End(list[last]) = list[last].seqno + length_in_sequence_space(list[last])
      /\ length_in_sequence_space(list[k]) > 0 /\ length_in_sequence_space(list[last]) > 0
  BY <1>3 DEF End, InPlace
<1> QED
  BY <1>2, <1>3, <1>4, <1>5, LengthIsNat, Constants, SMTT(20)

\* What is acknowledged has been sent.
LEMMA AckBound ==
  ASSUME NEW list \in Seq(Segment), NEW next \in Nat, NEW ack \in Nat, NEW fin,
         Queue(list, next, ack, fin)
  PROVE  ack <= next
<1>1. CASE list = <<>>
  BY <1>1 DEF Queue
<1>2. CASE list # <<>>
  <2>1. 1 \in DOMAIN list /\ list[1] \in Segment
    BY <1>2, ElementOfSeq
  <2>2. End(list[1]) <= Isn + next /\ Isn + ack < End(list[1])
    BY <2>1, <1>2, EndsBefore, Zenon DEF Queue
  <2> QED
    BY <2>1, <2>2, LengthIsNat, Constants
<1> QED
  BY <1>1, <1>2

-----------------------------------------------------------------------------
\* A segment beyond all others is inserted at the end.
LEMMA InsertedLast ==
  ASSUME NEW list \in Seq(Segment), NEW seg \in Segment,
         \A k \in DOMAIN list : list[k].seqno < seg.seqno
  PROVE  insert_outstanding(list, seg) = Append(list, seg)
<1> DEFINE n == Len(list)
           S == {j \in DOMAIN list : seg.seqno < list[j].seqno} \cup {n + 1}
<1>1. n \in Nat /\ DOMAIN list = 1..n
  OBVIOUS
<1>2. \A k \in DOMAIN list : list[k].seqno \in Nat
  BY ElementOfSeq, LengthIsNat
<1>3. \A k \in DOMAIN list : ~(seg.seqno < list[k].seqno)
  BY <1>2, LengthIsNat
<1>4. S = {n + 1}
  BY <1>3
<1>5. Min(S) = n + 1
  <2>1. \A y \in S : n + 1 <= y
    BY <1>1, <1>4
  <2> HIDE DEF S, n
  <2> QED
    BY <1>4, <2>1 DEF Min
<1>6. insert_outstanding(list, seg) = SubSeq(list, 1, (n + 1) - 1) \o <<seg>> \o SubSeq(list, n + 1, n)
  BY <1>5, Zenon DEF insert_outstanding
<1>7. SubSeq(list, 1, (n + 1) - 1) = list /\ SubSeq(list, n + 1, n) = <<>>
  BY <1>1
<1>8. list \o <<seg>> = Append(list, seg) /\ Append(list, seg) \in Seq(Segment)
  OBVIOUS
<1>9. Append(list, seg) \o <<>> = Append(list, seg)
  BY <1>8
<1> QED
  BY <1>6, <1>7, <1>8, <1>9, Zenon

\* A segment that begins at next joins the queue.
LEMMA QueueAppend ==
  ASSUME NEW list \in Seq(Segment), NEW next \in Nat, NEW ack \in Nat,
         Queue(list, next, ack, FALSE), NEW seg \in Segment, InPlace(seg),
         seg.seqno = Isn + next
  PROVE  /\ insert_outstanding(list, seg) = Append(list, seg)
         /\ Queue(Append(list, seg), next + length_in_sequence_space(seg), ack, seg.fin)
<1> DEFINE n == Len(list)
           new == Append(list, seg)
           length == length_in_sequence_space(seg)
           end == next + length
<1>1. n \in Nat /\ DOMAIN list = 1..n /\ length \in Nat \ {0} /\ Isn \in Nat
  BY LengthIsNat, Constants DEF InPlace
<1>2. \A k \in 1..n : /\ list[k] \in Segment /\ End(list[k]) <= Isn + next
                      /\ list[k].seqno < Isn + next
  BY <1>1, ElementOfSeq, EndsBefore, Zenon
<1>3. insert_outstanding(list, seg) = new
  BY <1>2, <1>1, InsertedLast
<1>4. /\ Len(new) = n + 1 /\ DOMAIN new = 1..(n + 1) /\ new[n + 1] = seg
      /\ \A k \in 1..n : new[k] = list[k]
  BY <1>1
<1> HIDE DEF new, n, length
<1>5. End(seg) = Isn + end
  BY <1>1 DEF End, length
<1>6. ASSUME NEW k \in 1..(n + 1)
      PROVE  /\ InPlace(new[k])
             /\ End(new[k]) = IF k = n + 1 THEN Isn + end ELSE new[k + 1].seqno
             /\ new[k].fin <=> k = n + 1 /\ seg.fin
  <2>1. CASE k = n + 1
    BY <2>1, <1>4, <1>5
  <2>2. CASE k = n
    <3>1. k \in 1..n /\ k # n + 1
      BY <2>2, <1>1
    <3>2. InPlace(list[k]) /\ End(list[k]) = Isn + next /\ ~list[k].fin
      BY <3>1, <2>2, <1>1 DEF Queue, n
    <3> QED
      BY <3>1, <3>2, <2>2, <1>4
  <2>3. CASE k < n
    <3>1. k \in 1..n /\ k # n + 1 /\ k # n /\ k + 1 \in 1..n
      BY <2>3, <1>1
    <3>2. InPlace(list[k]) /\ End(list[k]) = list[k + 1].seqno /\ ~list[k].fin
      BY <3>1, <1>1, Zenon DEF Queue, n
    <3> QED
      BY <3>1, <3>2, <1>4
  <2> QED
    BY <2>1, <2>2, <2>3, <1>1
<1>7. ASSUME NEW j \in 1..(n + 1), NEW k \in 1..(n + 1), j < k
      PROVE  End(new[j]) <= new[k].seqno
  <2>1. j \in 1..n /\ new[j] = list[j]
    BY <1>1, <1>4, <1>7
  <2>2. CASE k = n + 1
    BY <2>1, <2>2, <1>2, <1>4
  <2>3. CASE k \in 1..n
    BY <2>1, <2>3, <1>1, <1>4, <1>7 DEF Queue, n
  <2> QED
    BY <2>2, <2>3, <1>1
<1>8. ack # end
  <2>1. ack <= next
    BY AckBound, Zenon
  <2> QED
    BY <2>1, <1>1
<1>9. new # <<>>
  BY <1>1, <1>4
<1>10. new[1].seqno <= Isn + ack /\ Isn + ack < End(new[1])
  <2>1. CASE n = 0
    <3>1. list = <<>> /\ ack = next /\ new[1] = seg
      BY <2>1, <1>4 DEF Queue, n
    <3> QED
      BY <3>1, <1>5, <1>1
  <2>2. CASE n # 0
    <3>1. 1 \in 1..n /\ list # <<>>
      BY <2>2, <1>1 DEF n
    <3> QED
      BY <3>1, <1>4 DEF Queue
  <2> QED
    BY <2>1, <2>2
<1>11. Queue(new, end, ack, seg.fin)
  <2> HIDE DEF end
  <2> QED
    BY <1>4, <1>6, <1>7, <1>8, <1>9, <1>10 DEF Queue
<1> QED
  BY <1>3, <1>11 DEF new, length

-----------------------------------------------------------------------------
\* What sending a segment leaves alone.
Unsent(s, t) ==
  /\ t.stream = s.stream /\ t.fin_sent = s.fin_sent /\ t.window_empty = s.window_empty
  /\ t.retransmission_timeout = s.retransmission_timeout
  /\ t.consecutive_retransmissions = s.consecutive_retransmissions
  /\ t.highest_ackno = s.highest_ackno /\ t.highest_ackno_right = s.highest_ackno_right

\* A segment that fits behind what was sent; its sequence number is still open.
Ready(seg, next) ==
  /\ seg \in Segment /\ length_in_sequence_space(seg) > 0
  /\ next + length_in_sequence_space(seg) <= StreamLen + 2
  /\ seg.syn <=> next = 0
  /\ \A j \in DOMAIN seg.payload : seg.payload[j] = next + j - 2

\* send_new_segment() puts its segment at the end of the queue, starts the
\* timer and takes the length out of the window.
LEMMA SendNew ==
  ASSUME NoWrap, NEW s \in SenderRecord, NEW ack \in Nat, NEW seg,
         Queue(s.outstanding_segments, s.next_seqno, ack, FALSE), Timed(s),
         Ready(seg, s.next_seqno)
  PROVE  LET t == send_new_segment(s, seg)
             length == length_in_sequence_space(seg)
         IN  /\ t \in SenderRecord /\ Unsent(s, t) /\ Timed(t)
             /\ t.next_seqno = s.next_seqno + length
             /\ t.window_size = IF s.window_size < length THEN 0 ELSE s.window_size - length
             /\ Queue(t.outstanding_segments, t.next_seqno, ack, seg.fin)
<1> DEFINE length == length_in_sequence_space(seg)
           sent == [seg EXCEPT !.seqno = wrap(s.next_seqno, s.isn)]
           next == s.next_seqno
           end == next + length
           out == Append(s.segments_out, sent)
           window == IF s.window_size < length THEN 0 ELSE s.window_size - length
           timer == IF s.retransmission_timer_on THEN s.retransmission_timer ELSE 0
           list == insert_outstanding(s.outstanding_segments, sent)
           t == send_new_segment(s, seg)
<1>1. /\ seg \in Segment /\ length \in Nat \ {0} /\ next \in Nat /\ s.isn = Isn
      /\ s.outstanding_segments \in Seq(Segment) /\ s.window_size \in Nat
      /\ s.segments_out \in Seq(Segment) /\ s.retransmission_timer \in Nat
      /\ end <= StreamLen + 2 /\ StreamLen \in Nat /\ Isn \in Nat
  BY LengthIsNat, Constants DEF Ready, SenderRecord
<1>2. wrap(s.next_seqno, s.isn) = Isn + next
  <2>1. next <= StreamLen + 2
    BY <1>1
  <2> QED
    BY <2>1, <1>1, WrapSmall
<1>3. /\ sent \in Segment /\ sent.seqno = Isn + next /\ sent.fin = seg.fin
      /\ sent.syn = seg.syn /\ sent.payload = seg.payload
  <2> DEFINE no == wrap(s.next_seqno, s.isn)
  <2>1. no = Isn + next /\ no \in Nat
    BY <1>1, <1>2
  <2> HIDE DEF no, next
  <2>2. sent = [seg EXCEPT !.seqno = no]
    BY DEF no
  <2> HIDE DEF sent
  <2> QED
    BY <1>1, <2>1, <2>2, Zenon DEF Segment
<1>4. length_in_sequence_space(sent) = length
  BY <1>3 DEF length_in_sequence_space
<1>5. InPlace(sent)
  BY <1>1, <1>3, <1>4 DEF InPlace, Ready
<1> HIDE DEF length, sent
<1>6. t = [s EXCEPT !.next_seqno = end, !.segments_out = out, !.window_size = window,
                    !.retransmission_timer_on = TRUE, !.retransmission_timer = timer,
                    !.outstanding_segments = list]
  <2> DEFINE u == [s EXCEPT !.next_seqno = end]
  <2>1. t = send_segment(u, sent)
    BY DEF send_new_segment, sent, length
  <2>2. /\ u.segments_out = s.segments_out /\ u.window_size = s.window_size
        /\ u.retransmission_timer_on = s.retransmission_timer_on
        /\ u.retransmission_timer = s.retransmission_timer
        /\ u.outstanding_segments = s.outstanding_segments
    BY DEF SenderRecord
  <2> HIDE DEF u
  <2>3. t = [u EXCEPT !.segments_out = out, !.window_size = window,
                    !.retransmission_timer_on = TRUE, !.retransmission_timer = timer,
                    !.outstanding_segments = list]
    BY <2>1, <2>2, <1>1, <1>4 DEF send_segment
  <2> HIDE DEF out, window, timer, list, end
  <2> QED
    BY <2>3 DEF u
<1>7. /\ list = Append(s.outstanding_segments, sent)
      /\ Queue(list, end, ack, seg.fin)
  <2> DEFINE q == s.outstanding_segments
  <2>1. q \in Seq(Segment) /\ Queue(q, next, ack, FALSE) /\ list = insert_outstanding(q, sent)
    BY <1>1, Zenon
  <2> HIDE DEF q, next, list
  <2>2. /\ insert_outstanding(q, sent) = Append(q, sent)
        /\ Queue(Append(q, sent), next + length_in_sequence_space(sent), ack, sent.fin)
    BY <2>1, <1>1, <1>3, <1>5, QueueAppend, Zenon
  <2>3. list = Append(q, sent) /\ Queue(list, end, ack, seg.fin)
    BY <2>1, <2>2, <1>3, <1>4
  <2> QED
    BY <2>3 DEF q
<1>8. /\ list \in Seq(Segment) /\ list # <<>> /\ out \in Seq(Segment)
      /\ window \in Nat /\ timer \in Nat /\ end \in Nat
  <2>1. list \in Seq(Segment) /\ list # <<>>
    <3> DEFINE q == s.outstanding_segments
    <3>1. q \in Seq(Segment) /\ list = Append(q, sent)
      BY <1>1, <1>7
    <3> HIDE DEF list, q
    <3>2. Append(q, sent) \in Seq(Segment) /\ Append(q, sent) # <<>>
      BY <3>1, <1>3
    <3> QED
      BY <3>1, <3>2
  <2>2. out \in Seq(Segment)
    BY <1>1, <1>3
  <2>3. window \in Nat
    BY <1>1
  <2>4. timer \in Nat /\ end \in Nat
    BY <1>1
  <2> QED
    BY <2>1, <2>2, <2>3, <2>4
<1> HIDE DEF out, window, timer, list, end, t
<1>9. t \in SenderRecord
  BY <1>6, <1>8, Zenon DEF SenderRecord
<1>10. /\ t.next_seqno = end /\ t.window_size = window
       /\ t.retransmission_timer_on = TRUE /\ t.outstanding_segments = list
       /\ Unsent(s, t)
  BY <1>6 DEF SenderRecord, Unsent
<1>11. Timed(t)
  BY <1>8, <1>10 DEF Timed
<1> QED
  BY <1>7, <1>9, <1>10, <1>11 DEF t, end, window, length

(***************************************************************************)
(* What each part of fill_window() does at most: the stream gives bytes    *)
(* away, next_seqno grows, and the window shrinks by no more than that.    *)
(***************************************************************************)
Sends(s, t) ==
  /\ t.window_empty = s.window_empty
  /\ t.retransmission_timeout = s.retransmission_timeout
  /\ t.consecutive_retransmissions = s.consecutive_retransmissions
  /\ t.highest_ackno = s.highest_ackno /\ t.highest_ackno_right = s.highest_ackno_right
  /\ t.stream.bytes_written = s.stream.bytes_written /\ t.stream.eof = s.stream.eof
  /\ t.next_seqno >= s.next_seqno
  /\ t.next_seqno + t.window_size >= s.next_seqno + s.window_size
  /\ t.next_seqno = s.next_seqno => t.window_size = s.window_size

\* Sends() relates a sender to itself,
LEMMA SendsNothing ==
  ASSUME NEW s \in SenderRecord
  PROVE  Sends(s, s)
BY DEF Sends, SenderRecord

\* is transitive,
LEMMA SendsTransitive ==
  ASSUME NEW s \in SenderRecord, NEW t \in SenderRecord, NEW u \in SenderRecord,
         Sends(s, t), Sends(t, u)
  PROVE  Sends(s, u)
<1>1. /\ s.next_seqno \in Nat /\ t.next_seqno \in Nat /\ u.next_seqno \in Nat
      /\ s.window_size \in Nat /\ t.window_size \in Nat /\ u.window_size \in Nat
  BY DEF SenderRecord
<1>2. /\ u.next_seqno >= s.next_seqno
      /\ u.next_seqno + u.window_size >= s.next_seqno + s.window_size
      /\ u.next_seqno = s.next_seqno => u.window_size = s.window_size
  BY <1>1 DEF Sends
<1> QED
  BY <1>2 DEF Sends

\* and holds of one send_new_segment().
LEMMA SendNewSends ==
  ASSUME NEW s \in SenderRecord, NEW t \in SenderRecord, Unsent(s, t),
         NEW length \in Nat \ {0}, t.next_seqno = s.next_seqno + length,
         t.window_size = IF s.window_size < length THEN 0 ELSE s.window_size - length
  PROVE  Sends(s, t)
<1>1. s.next_seqno \in Nat /\ s.window_size \in Nat
  BY DEF SenderRecord
<1>2. /\ t.next_seqno >= s.next_seqno /\ t.next_seqno # s.next_seqno
      /\ t.next_seqno + t.window_size >= s.next_seqno + s.window_size
  BY <1>1
<1> QED
  BY <1>2 DEF Sends, Unsent

\* send_syn(): the SYN is the first segment, and it is sent at once.
LEMMA SynStep ==
  ASSUME NoWrap, NEW s, NEW ack \in Nat, Good(s, ack)
  PROVE  LET t == send_syn(s)
         IN  Good(t, ack) /\ Sends(s, t) /\ t.next_seqno > 0
<1> DEFINE t == send_syn(s)
           syn == [seqno |-> 0, syn |-> TRUE, fin |-> FALSE, payload |-> <<>>]
<1>1. /\ s \in SenderRecord /\ Counted(s) /\ Timed(s) /\ s.next_seqno \in Nat
      /\ Numbered(s.stream)
      /\ Queue(s.outstanding_segments, s.next_seqno, ack, s.fin_sent)
  BY DEF Good, SenderRecord
<1>2. CASE s.next_seqno # 0
  BY <1>1, <1>2, SendsNothing DEF send_syn
<1>3. CASE s.next_seqno = 0
  <2>1. /\ syn \in Segment /\ syn.syn = TRUE /\ syn.fin = FALSE /\ syn.payload = <<>>
        /\ Len(<<>>) = 0 /\ DOMAIN <<>> = {}
    BY DEF Segment
  <2> HIDE DEF syn
  <2>2. length_in_sequence_space(syn) = 1
    BY <2>1 DEF length_in_sequence_space
  <2>3. Ready(syn, s.next_seqno)
    BY <2>1, <2>2, <1>3, Constants DEF Ready
  <2>4. ~s.fin_sent /\ s.stream.bytes_read = 0
    BY <1>1, <1>3 DEF Counted
  <2>5. Queue(s.outstanding_segments, s.next_seqno, ack, FALSE)
    <3>1. s.fin_sent = FALSE
      BY <2>4, <1>1 DEF SenderRecord
    <3> QED
      BY <3>1, <1>1, Zenon
  <2>6. t = send_new_segment(s, syn)
    BY <1>3 DEF send_syn, syn
  <2> HIDE DEF t
  <2>7. /\ t \in SenderRecord /\ Unsent(s, t) /\ Timed(t)
        /\ t.next_seqno = s.next_seqno + 1
        /\ t.window_size = IF s.window_size < 1 THEN 0 ELSE s.window_size - 1
        /\ Queue(t.outstanding_segments, t.next_seqno, ack, FALSE)
    BY <2>1, <2>2, <2>3, <2>5, <2>6, <1>1, SendNew, ZenonT(40)
  <2>8. Sends(s, t)
    BY <2>7, <1>1, SendNewSends
  <2>9. t.next_seqno = 1
    BY <2>7, <1>3
  <2>10. Counted(t)
    BY <2>4, <2>7, <2>9 DEF Counted, Unsent
  <2>11. t.fin_sent = FALSE /\ t.stream = s.stream
    BY <2>4, <2>7, <1>1 DEF Unsent, SenderRecord
  <2>12. Good(t, ack)
    BY <2>7, <2>10, <2>11, <1>1, Zenon DEF Good
  <2> QED
    BY <2>8, <2>9, <2>12 DEF t
<1> QED
  BY <1>1, <1>2, <1>3

-----------------------------------------------------------------------------
\* segments_of() cuts the first n bytes at increasing positions.
IsCut(done, count, data, n, fin, segs) ==
  /\ done \in [0..count -> 0..n] /\ done[0] = 0 /\ done[count] = n
  /\ \A k \in 1..count :
       /\ done[k - 1] < done[k]
       /\ segs[k] \in Segment /\ ~segs[k].syn /\ (segs[k].fin <=> fin /\ k = count)
       /\ Len(segs[k].payload) = done[k] - done[k - 1]
       /\ \A j \in 1..Len(segs[k].payload) : segs[k].payload[j] = data[done[k - 1] + j]

\* segments_of() cuts the first n bytes into payloads that are full but for the
\* last one.
LEMMA SegmentsOf ==
  ASSUME NEW data \in Seq(Nat), NEW n \in Nat \ {0}, n <= Len(data), NEW fin \in BOOLEAN
  PROVE  \E count \in Nat \ {0} : \E done :
           LET segs == segments_of(data, n, fin)
           IN  DOMAIN segs = 1..count /\ IsCut(done, count, data, n, fin, segs)
<1> DEFINE M == MAX_PAYLOAD_SIZE
           x == n + M - 1
           count == x \div M
           last(k) == IF k = count THEN n ELSE k * M
           done == [k \in 0..count |-> last(k)]
           segs == segments_of(data, n, fin)
<1>1. M \in Nat \ {0} /\ x \in Nat /\ Len(data) \in Nat
  BY Constants
<1>2. count \in Nat /\ x % M \in 0..(M - 1) /\ x = count * M + (x % M)
  BY <1>1, DivMod, Zenon
<1> HIDE DEF M, count
<1>3. count # 0
  <2>1. x >= M
    BY <1>1
  <2>2. count = 0 => count * M = 0
    BY <1>1
  <2> HIDE DEF x
  <2> QED
    BY <1>1, <1>2, <2>1, <2>2
<1>4. n <= count * M
  <2> DEFINE r == x % M
             p == count * M
  <2>1. p \in Int
    BY <1>1, <1>2
  <2>2. r \in 0..(M - 1) /\ n + M - 1 = p + r
    BY <1>2
  <2> HIDE DEF p, r
  <2>3. n <= p
    BY <2>1, <2>2, <1>1
  <2> QED
    BY <2>3 DEF p
<1>5. (count - 1) * M < n
  <2> DEFINE r == x % M
             p == count * M
  <2>1. p \in Int /\ (count - 1) * M = p - M
    BY <1>1, <1>2
  <2>2. r \in 0..(M - 1) /\ n + M - 1 = p + r
    BY <1>2
  <2> HIDE DEF p, r
  <2> QED
    BY <2>1, <2>2, <1>1
<1>6. ASSUME NEW k \in 0..count, k # count
      PROVE  k * M \in Nat /\ k * M < n
  <2>1. k <= count - 1 /\ k \in Int /\ count - 1 \in Int
    BY <1>2, <1>6
  <2>2. k * M <= (count - 1) * M
    BY <2>1, <1>1, MultipleOrder
  <2>3. k * M \in Nat /\ (count - 1) * M \in Int
    BY <1>1, <1>2
  <2> DEFINE p == k * M
             q == (count - 1) * M
  <2>4. p \in Nat /\ q \in Int /\ p <= q /\ q < n
    BY <2>2, <2>3, <1>5
  <2> HIDE DEF p, q
  <2>5. p < n
    BY <2>4
  <2> QED
    BY <2>3, <2>5 DEF p
<1>7. \A k \in 0..count : last(k) \in 0..n
  <2> TAKE k \in 0..count
  <2>1. CASE k = count
    BY <2>1
  <2>2. CASE k # count
    <3> DEFINE p == k * M
    <3>1. p \in Nat /\ p < n /\ last(k) = p
      BY <2>2, <1>6
    <3> HIDE DEF p, last
    <3> QED
      BY <3>1
  <2> QED
    BY <2>1, <2>2
<1>8. done \in [0..count -> 0..n] /\ done[0] = 0 /\ done[count] = n
  <2>1. last(0) = 0 /\ last(count) = n
    BY <1>1, <1>3
  <2> HIDE DEF last
  <2> QED
    BY <1>2, <1>7, <2>1
<1>9. ASSUME NEW k \in 1..count
      PROVE  /\ k - 1 \in 0..count /\ k \in 0..count
             /\ done[k - 1] = (k - 1) * M /\ done[k] = last(k)
             /\ done[k - 1] \in 0..n /\ done[k] \in 0..n /\ done[k - 1] < done[k]
  <2>1. k - 1 \in 0..count /\ k \in 0..count /\ k - 1 # count
    BY <1>2
  <2>2. done[k - 1] = (k - 1) * M /\ done[k] = last(k)
    BY <2>1
  <2>3. last(k - 1) < last(k)
    <3>1. CASE k = count
      BY <3>1, <2>1, <1>6
    <3>2. CASE k # count
      <4> DEFINE p == (k - 1) * M
                 q == k * M
      <4>1. p = q - M /\ q \in Int
        BY <1>1
      <4>2. last(k - 1) = p /\ last(k) = q
        BY <2>1, <3>2
      <4> HIDE DEF p, q, last
      <4> QED
        BY <4>1, <4>2, <1>1
    <3> QED
      BY <3>1, <3>2
  <2> HIDE DEF last
  <2> QED
    BY <2>1, <2>2, <2>3, <1>7
<1>10. segs = [k \in 1..count |->
                 [seqno |-> 0, syn |-> FALSE, fin |-> fin /\ k = count,
                  payload |-> SubSeq(data, (k - 1) * M + 1, last(k))]]
  BY DEF segments_of, M, count
<1>11. DOMAIN segs = 1..count
  BY <1>10
<1>12. ASSUME NEW k \in 1..count
       PROVE  /\ segs[k] \in Segment /\ ~segs[k].syn /\ (segs[k].fin <=> fin /\ k = count)
              /\ Len(segs[k].payload) = done[k] - done[k - 1]
              /\ \A j \in 1..Len(segs[k].payload) :
                   segs[k].payload[j] = data[done[k - 1] + j]
  <2> DEFINE from == done[k - 1]
             to == done[k]
             cut == SubSeq(data, from + 1, to)
             f == fin /\ k = count
  <2>1. segs[k] = [seqno |-> 0, syn |-> FALSE, fin |-> f, payload |-> cut]
    <3> HIDE DEF segs, done
    <3> QED
      BY <1>9, <1>10, Zenon
  <2>2. from \in 0..n /\ to \in 0..n /\ from < to
    BY <1>9
  <2> HIDE DEF segs, done, from, to
  <2>3. /\ cut \in Seq(Nat) /\ Len(cut) = to - from
        /\ \A j \in 1..Len(cut) : cut[j] = data[from + j]
    <3>1. from + 1 \in 1..(Len(data) + 1) /\ to \in 0..Len(data) /\ from + 1 <= to
      BY <2>2, <1>1
    <3>2. Len(cut) = to - from
      BY <3>1, <2>2
    <3>3. cut \in Seq(Nat)
      BY <3>1, <2>2
    <3>4. \A j \in 1..(to - from) : cut[j] = data[from + j]
      BY <3>1, <2>2
    <3> QED
      BY <3>2, <3>3, <3>4
  <2>4. f \in BOOLEAN
    OBVIOUS
  <2> HIDE DEF cut, f
  <2>5. segs[k] \in Segment /\ segs[k].syn = FALSE /\ segs[k].fin = f /\ segs[k].payload = cut
    BY <2>1, <2>3, <2>4 DEF Segment
  <2> QED
    BY <2>3, <2>5, Zenon DEF from, to, f
<1>13. IsCut(done, count, data, n, fin, segs)
  <2> HIDE DEF done, segs, last
  <2> QED
    BY <1>8, <1>9, <1>12 DEF IsCut
<1>14. count \in Nat \ {0}
  BY <1>2, <1>3
<1> HIDE DEF done
<1> QED
  BY <1>11, <1>13, <1>14

-----------------------------------------------------------------------------
\* What read() leaves of the stream.
LEMMA ReadLemma ==
  ASSUME NEW st \in StreamRecord, Numbered(st), NEW n \in Nat, n <= Len(st.buffer)
  PROVE  LET r == read(st, n)
         IN  /\ r \in StreamRecord /\ Numbered(r) /\ r.eof = st.eof
             /\ r.bytes_written = st.bytes_written /\ r.bytes_read = st.bytes_read + n
             /\ Len(r.buffer) = Len(st.buffer) - n
<1> DEFINE b == st.buffer
           rest == SubSeq(b, n + 1, Len(b))
           r == read(st, n)
<1>1. b \in Seq(Nat) /\ Len(b) \in Nat /\ st.bytes_read \in Nat
  BY DEF StreamRecord
<1>2. bytes_to_read(st, n) = n
  BY <1>1 DEF bytes_to_read, buffer_size
<1>3. r = [st EXCEPT !.bytes_read = st.bytes_read + n, !.buffer = rest]
  BY <1>2 DEF read, StreamRecord
<1>4. /\ rest \in Seq(Nat) /\ Len(rest) = Len(b) - n
      /\ \A k \in 1..Len(rest) : rest[k] = b[n + k]
  <2> HIDE DEF b
  <2>1. n + 1 \in 1..(Len(b) + 1) /\ Len(b) \in 0..Len(b)
    BY <1>1 DEF b
  <2>2. rest \in Seq(Nat) /\ Len(rest) = Len(b) - n
    BY <1>1, <2>1
  <2>3. \A k \in 1..(Len(b) - n) : rest[k] = b[n + k]
    BY <1>1, <2>1
  <2> QED
    BY <2>2, <2>3
<1>5. /\ r \in StreamRecord /\ r.buffer = rest /\ r.eof = st.eof
      /\ r.bytes_written = st.bytes_written /\ r.bytes_read = st.bytes_read + n
  <2> DEFINE d == st.bytes_read + n
             u == [st EXCEPT !.bytes_read = d]
  <2>1. d \in Nat
    BY <1>1
  <2> HIDE DEF d, rest
  <2>2. r = [u EXCEPT !.buffer = rest]
    BY <1>3 DEF StreamRecord, d
  <2>3. /\ u \in StreamRecord /\ u.eof = st.eof
        /\ u.bytes_written = st.bytes_written /\ u.bytes_read = d
    BY <2>1 DEF StreamRecord
  <2> HIDE DEF u, r
  <2> QED
    BY <2>2, <2>3, <1>4, Zenon DEF StreamRecord, d
<1> HIDE DEF rest, r
<1>6. Numbered(r)
  <2> DEFINE m == Len(b)
             w == st.bytes_written
             d == st.bytes_read
  <2>1. m \in Nat /\ w \in Nat /\ d \in Nat /\ SendCapacity \in Nat
    BY <1>1, Constants DEF StreamRecord
  <2>2. m <= SendCapacity /\ w <= StreamLen /\ w = d + m /\ n <= m
    BY DEF Numbered
  <2>3. Len(rest) <= SendCapacity /\ w = (d + n) + Len(rest)
    <3> HIDE DEF m, w, d
    <3>1. Len(rest) = m - n
      BY <1>4 DEF m
    <3> QED
      BY <2>1, <2>2, <3>1
  <2>4. \A k \in 1..Len(rest) : rest[k] = (d + n) + k - 1
    <3> TAKE k \in 1..Len(rest)
    <3>1. n + k \in 1..m /\ k \in Int
      BY <1>4, <2>1
    <3>2. b[n + k] = d + (n + k) - 1
      BY <3>1, <1>1 DEF Numbered
    <3> HIDE DEF d
    <3> QED
      BY <3>1, <3>2, <1>4, <2>1
  <2>5. DOMAIN rest = 1..Len(rest)
    BY <1>4
  <2> QED
    BY <1>5, <2>2, <2>3, <2>4, <2>5 DEF Numbered
<1> QED
  BY <1>4, <1>5, <1>6 DEF r

\* x has sent m sequence numbers more than b, in segments of which the last
\* has FIN or not.
HasSent(b, x, ack, m, fin) ==
  /\ x \in SenderRecord /\ Unsent(b, x) /\ Timed(x)
  /\ x.next_seqno = b.next_seqno + m /\ x.window_size = b.window_size - m
  /\ Queue(x.outstanding_segments, x.next_seqno, ack, fin)

\* One turn of the loop of fill_window().
LEMMA LoopTurn ==
  ASSUME NoWrap, NEW b \in SenderRecord, b.next_seqno > 0, NEW ack \in Nat,
         NEW x, NEW m \in Nat, HasSent(b, x, ack, m, FALSE),
         NEW seg \in Segment, ~seg.syn, NEW length \in Nat \ {0},
         length = length_in_sequence_space(seg),
         b.next_seqno + m + length <= StreamLen + 2, m + length <= b.window_size,
         \A j \in DOMAIN seg.payload : seg.payload[j] = b.next_seqno + m + j - 2
  PROVE  HasSent(b, send_new_segment(x, seg), ack, m + length, seg.fin)
<1> DEFINE y == send_new_segment(x, seg)
           next == b.next_seqno
           window == b.window_size
<1>1. next \in Nat \ {0} /\ window \in Nat
  BY DEF SenderRecord
<1>2. /\ x \in SenderRecord /\ Unsent(b, x) /\ Timed(x)
      /\ x.next_seqno = next + m /\ x.window_size = window - m
      /\ Queue(x.outstanding_segments, x.next_seqno, ack, FALSE)
  BY Zenon DEF HasSent
<1>3. Ready(seg, x.next_seqno)
  <2>1. x.next_seqno # 0
    BY <1>1, <1>2
  <2> QED
    BY <2>1, <1>2 DEF Ready
<1>4. /\ y \in SenderRecord /\ Unsent(x, y) /\ Timed(y)
      /\ y.next_seqno = x.next_seqno + length
      /\ y.window_size = IF x.window_size < length THEN 0 ELSE x.window_size - length
      /\ Queue(y.outstanding_segments, y.next_seqno, ack, seg.fin)
  BY <1>2, <1>3, SendNew, Zenon
<1> HIDE DEF y, next, window
<1>5. y.next_seqno = next + (m + length) /\ y.window_size = window - (m + length)
  <2>1. m + length <= window
    BY DEF window
  <2> QED
    BY <1>1, <1>2, <1>4, <2>1
<1>6. Unsent(b, y)
  BY <1>2, <1>4 DEF Unsent
<1> QED
  BY <1>4, <1>5, <1>6, Zenon DEF HasSent, y, next, window

\* The same in sequence numbers: after k segments sent[k] of them are sent.
IsCutInto(sent, count, data, n, fin, segs) ==
  /\ sent[0] = 0 /\ sent[count] = n + (IF fin THEN 1 ELSE 0)
  /\ \A k \in 1..count :
       /\ sent[k - 1] \in Nat /\ sent[k] \in Nat
       /\ sent[k - 1] < sent[k] /\ sent[k] <= sent[count]
       /\ segs[k] \in Segment /\ ~segs[k].syn /\ (segs[k].fin <=> fin /\ k = count)
       /\ length_in_sequence_space(segs[k]) = sent[k] - sent[k - 1]
       /\ \A j \in DOMAIN segs[k].payload :
            sent[k - 1] + j \in 1..n /\ segs[k].payload[j] = data[sent[k - 1] + j]

\* The same cut with FIN counted: each segment starts where the one before ends.
LEMMA CutLengths ==
  ASSUME NEW count \in Nat \ {0}, NEW done, NEW data, NEW n \in Nat \ {0},
         NEW fin \in BOOLEAN, NEW segs, IsCut(done, count, data, n, fin, segs)
  PROVE  \E sent : IsCutInto(sent, count, data, n, fin, segs)
<1> DEFINE one(k) == IF fin /\ k = count THEN 1 ELSE 0
           sent == [k \in 0..count |-> done[k] + one(k)]
<1>1. /\ \A k \in 0..count : done[k] \in 0..n
      /\ done[0] = 0 /\ done[count] = n
      /\ \A k \in 1..count : done[k - 1] < done[k]
  BY DEF IsCut
<1>2. /\ \A k \in 0..count : one(k) \in 0..1 /\ (k # count => one(k) = 0)
      /\ one(count) = IF fin THEN 1 ELSE 0
  OBVIOUS
<1> HIDE DEF one
<1>3. /\ \A k \in 0..count : sent[k] = done[k] + one(k)
      /\ 0 \in 0..count /\ count \in 0..count
  OBVIOUS
<1> HIDE DEF sent
<1>4. sent[0] = 0 /\ sent[count] = n + one(count)
  BY <1>1, <1>2, <1>3
<1>5. ASSUME NEW k \in 1..count
      PROVE  /\ sent[k - 1] \in Nat /\ sent[k] \in Nat
             /\ sent[k - 1] < sent[k] /\ sent[k] <= sent[count]
             /\ segs[k] \in Segment /\ ~segs[k].syn /\ (segs[k].fin <=> fin /\ k = count)
             /\ length_in_sequence_space(segs[k]) = sent[k] - sent[k - 1]
             /\ \A j \in DOMAIN segs[k].payload :
                  sent[k - 1] + j \in 1..n /\ segs[k].payload[j] = data[sent[k - 1] + j]
  <2> DEFINE seg == segs[k]
             p == Len(seg.payload)
  <2>1. k \in 0..count /\ k - 1 \in 0..count /\ k - 1 # count
    OBVIOUS
  <2>2. /\ done[k] \in 0..n /\ done[k - 1] \in 0..n /\ done[k - 1] < done[k]
        /\ one(k) \in 0..1 /\ one(k - 1) = 0
        /\ sent[k] = done[k] + one(k) /\ sent[k - 1] = done[k - 1] + one(k - 1)
    BY <1>1, <1>2, <1>3, <2>1
  <2>3. /\ seg \in Segment /\ ~seg.syn /\ (seg.fin <=> fin /\ k = count)
        /\ p = done[k] - done[k - 1]
        /\ \A j \in 1..p : seg.payload[j] = data[done[k - 1] + j]
    BY Zenon DEF IsCut
  <2> HIDE DEF seg, p
  <2>4. sent[k - 1] = done[k - 1] /\ sent[k - 1] \in Nat /\ sent[k] \in Nat /\ sent[k - 1] < sent[k]
    BY <2>2
  <2>5. sent[k] <= sent[count]
    BY <2>2, <1>2, <1>4
  <2>6. length_in_sequence_space(seg) = p + one(k)
    <3>1. p \in Nat /\ one(k) \in 0..1
      BY <2>2, <2>3
    <3>2. length_in_sequence_space(seg) = p + 0 + one(k)
      BY <2>3, Zenon DEF length_in_sequence_space, one, p
    <3> QED
      BY <3>1, <3>2
  <2>7. length_in_sequence_space(seg) = sent[k] - sent[k - 1]
    BY <2>2, <2>3, <2>4, <2>6
  <2>8. ASSUME NEW j \in DOMAIN seg.payload
        PROVE  sent[k - 1] + j \in 1..n /\ seg.payload[j] = data[sent[k - 1] + j]
    <3>1. DOMAIN seg.payload = 1..p
      BY <2>3 DEF Segment, p
    <3>2. j \in 1..p
      BY <3>1
    <3> QED
      BY <3>2, <2>2, <2>3, <2>4
  <2> QED
    BY <2>3, <2>4, <2>5, <2>7, <2>8 DEF seg
<1>6. IsCutInto(sent, count, data, n, fin, segs)
  BY <1>2, <1>4, <1>5, Zenon DEF IsCutInto
<1> QED
  BY <1>6

\* The loop of fill_window().
Loop == INSTANCE LoopProofs WITH op <- LAMBDA p, s, seg : send_new_segment(s, seg)

(***************************************************************************)
(* The loop sends n bytes of the stream and maybe FIN.  Its invariant: the *)
(* segments made so far are sent.                                          *)
(***************************************************************************)
LEMMA BytesLoop ==
  ASSUME NoWrap, NEW b \in SenderRecord, b.next_seqno > 0, Timed(b), NEW ack \in Nat,
         Queue(b.outstanding_segments, b.next_seqno, ack, FALSE),
         NEW fin \in BOOLEAN, NEW data \in Seq(Nat), NEW n \in Nat \ {0}, n <= Len(data),
         NEW total \in Nat, total = n + (IF fin THEN 1 ELSE 0),
         b.next_seqno + total <= StreamLen + 2, total <= b.window_size,
         \A j \in 1..n : data[j] = b.next_seqno + j - 2
  PROVE  HasSent(b, Iterate(send_new_segment, b, segments_of(data, n, fin)),
                 ack, total, fin)
<1> DEFINE segs == segments_of(data, n, fin)
           t == Iterate(send_new_segment, b, segs)
           next == b.next_seqno
           window == b.window_size
<1>0. PICK count \in Nat \ {0} :
        \E sent : DOMAIN segs = 1..count /\ IsCutInto(sent, count, data, n, fin, segs)
  <2>1. PICK count \in Nat \ {0} :
          \E done : DOMAIN segs = 1..count /\ IsCut(done, count, data, n, fin, segs)
    BY SegmentsOf
  <2> HIDE DEF segs
  <2>2. PICK done : DOMAIN segs = 1..count /\ IsCut(done, count, data, n, fin, segs)
    BY <2>1, Zenon
  <2> QED
    BY <2>2, CutLengths
<1>1. PICK sent : DOMAIN segs = 1..count /\ IsCutInto(sent, count, data, n, fin, segs)
  BY <1>0, Zenon
<1> DEFINE X == [k \in 0..count |->
                  {x \in SenderRecord : HasSent(b, x, ack, sent[k], fin /\ k = count)}]
<1> HIDE DEF segs
<1>2. next \in Nat \ {0} /\ window \in Nat /\ StreamLen \in Nat
  BY Constants DEF SenderRecord
<1>3. sent[0] = 0 /\ sent[count] = total
  BY <1>1 DEF IsCutInto
<1>4. b \in X[0]
  <2>1. Unsent(b, b)
    BY DEF Unsent
  <2>2. next = next + 0 /\ window = window - 0
    BY <1>2
  <2>3. (fin /\ 0 = count) = FALSE /\ 0 \in 0..count
    OBVIOUS
  <2>4. HasSent(b, b, ack, sent[0], fin /\ 0 = count)
    BY <2>1, <2>2, <2>3, <1>3, Zenon DEF HasSent
  <2> QED
    BY <2>3, <2>4, Zenon
<1>5. ASSUME NEW k \in 1..count, NEW x \in X[k - 1]
      PROVE  send_new_segment(x, segs[k]) \in X[k]
  <2> DEFINE seg == segs[k]
             m == sent[k - 1]
             length == length_in_sequence_space(seg)
             y == send_new_segment(x, seg)
  <2>1. k \in 0..count /\ k - 1 \in 0..count /\ (fin /\ k - 1 = count) = FALSE
    OBVIOUS
  <2>2. HasSent(b, x, ack, m, FALSE) /\ x \in SenderRecord
    BY <2>1, Zenon
  <2>3. /\ seg \in Segment /\ ~seg.syn /\ (seg.fin <=> fin /\ k = count)
        /\ \A j \in DOMAIN seg.payload : m + j \in 1..n /\ seg.payload[j] = data[m + j]
    BY <1>1, Zenon DEF IsCutInto
  <2>4. /\ m \in Nat /\ sent[k] \in Nat /\ m < sent[k] /\ sent[k] <= total
        /\ length = sent[k] - m
    BY <1>1, <1>3, Zenon DEF IsCutInto
  <2> DEFINE to == sent[k]
  <2> HIDE DEF seg, m, length, next, window, y, to
  <2>5. /\ length \in Nat \ {0} /\ m + length = to
        /\ next + m + length <= StreamLen + 2 /\ m + length <= window
    <3>1. m \in Nat /\ to \in Nat /\ m < to /\ to <= total /\ length = to - m
      BY <2>4 DEF to
    <3>2. total \in Nat /\ next + total <= StreamLen + 2 /\ total <= window
      BY DEF next, window
    <3>3. length \in Nat \ {0} /\ m + length = to
      BY <3>1
    <3>4. next + to <= StreamLen + 2 /\ to <= window
      BY <3>1, <3>2, <1>2
    <3> QED
      BY <3>1, <3>3, <3>4, <1>2
  <2>6. ASSUME NEW j \in DOMAIN seg.payload
        PROVE  seg.payload[j] = next + m + j - 2
    <3>1. m + j \in 1..n /\ seg.payload[j] = data[m + j]
      BY <2>3
    <3>2. j \in Nat
      <4>1. seg.payload \in Seq(Nat)
        BY <2>3 DEF Segment
      <4> QED
        BY <4>1, SMTT(20)
    <3>3. data[m + j] = next + (m + j) - 2
      BY <3>1 DEF next
    <3> QED
      BY <3>1, <3>2, <3>3, <1>2, <2>4, SMTT(20)
  <2>7. HasSent(b, y, ack, m + length, seg.fin)
    BY <2>2, <2>3, <2>4, <2>5, <2>6, LoopTurn, Zenon DEF length, next, window, y
  <2>8. seg.fin = (fin /\ k = count)
    BY <2>3 DEF Segment
  <2>9. HasSent(b, y, ack, sent[k], fin /\ k = count) /\ y \in SenderRecord
    BY <2>5, <2>7, <2>8, Zenon DEF HasSent, to
  <2> QED
    BY <2>1, <2>9, Zenon DEF seg, y
<1>6. t = Loop!Folded(0, b, segs)
  BY DEF Iterate, Loop!Folded, MapThenFoldSet, Loop!MapThenFoldSet, Loop!Max
<1> HIDE DEF X, t
<1>7. t \in X[count]
  <2>1. count \in Nat /\ DOMAIN segs = 1..count
    BY <1>1
  <2>2. Loop!Folded(0, b, segs) \in X[count]
    BY <2>1, <1>4, <1>5, Loop!FoldInvariant, Zenon
  <2> QED
    BY <2>2, <1>6
<1>8. HasSent(b, t, ack, sent[count], fin /\ count = count) /\ (fin /\ count = count) = fin
  <2>1. count \in 0..count
    OBVIOUS
  <2> QED
    BY <2>1, <1>7, Zenon DEF X
<1> QED
  BY <1>3, <1>8, Zenon DEF t, segs

\* send_bytes(): the stream is read as far as the window allows.
LEMMA BytesStep ==
  ASSUME NoWrap, NEW s, NEW ack \in Nat, Good(s, ack), s.next_seqno > 0
  PROVE  LET t == send_bytes(s)
         IN  /\ Good(t, ack) /\ Sends(s, t)
             /\ t.window_size > 0 => buffer_empty(t.stream)
<1> DEFINE t == send_bytes(s)
           st == s.stream
           n == bytes_to_read(st, s.window_size)
           rest == read(st, n)
           fin == eof(rest) /\ ~s.fin_sent /\ n < s.window_size
           b == [s EXCEPT !.stream = rest, !.fin_sent = @ \/ fin]
           total == n + (IF fin THEN 1 ELSE 0)
           loop == Iterate(send_new_segment, b, segments_of(st.buffer, n, fin))
           next == s.next_seqno
           window == s.window_size
<1>1. /\ s \in SenderRecord /\ Counted(s) /\ Timed(s) /\ Numbered(st)
      /\ Queue(s.outstanding_segments, next, ack, s.fin_sent)
  BY DEF Good
<1>2. /\ st \in StreamRecord /\ next \in Nat \ {0} /\ window \in Nat
      /\ s.fin_sent \in BOOLEAN /\ st.buffer \in Seq(Nat) /\ Len(st.buffer) \in Nat
      /\ st.bytes_read \in Nat /\ st.bytes_written \in Nat /\ StreamLen \in Nat
      /\ st.eof \in BOOLEAN
  BY <1>1, Constants DEF SenderRecord, StreamRecord
<1>3. /\ n \in Nat /\ n <= Len(st.buffer) /\ n <= window
      /\ n < window => n = Len(st.buffer)
  BY <1>2 DEF bytes_to_read, buffer_size
<1>4. t = IF n = 0 THEN s ELSE loop
  BY DEF send_bytes
<1> HIDE DEF n, t
<1>5. CASE n = 0
  <2>1. window > 0 => buffer_empty(st)
    BY <1>2, <1>3, <1>5 DEF buffer_empty, buffer_size
  <2>2. t = s
    BY <1>4, <1>5
  <2> QED
    BY <2>1, <2>2, <1>1, SendsNothing DEF t
<1>6. CASE n # 0
  <2>1. /\ rest \in StreamRecord /\ Numbered(rest) /\ rest.eof = st.eof
        /\ rest.bytes_written = st.bytes_written /\ rest.bytes_read = st.bytes_read + n
        /\ Len(rest.buffer) = Len(st.buffer) - n
    BY <1>1, <1>2, <1>3, ReadLemma, Zenon
  <2>2. /\ s.fin_sent = FALSE /\ next = 1 + st.bytes_read
    <3>1. ~buffer_empty(st)
      BY <1>2, <1>3, <1>6 DEF buffer_empty, buffer_size
    <3>2. ~s.fin_sent
      BY <1>1, <3>1 DEF Counted, eof
    <3>3. next = 1 + st.bytes_read + 0
      BY <1>1, <1>2, <3>2 DEF Counted
    <3> QED
      BY <1>2, <3>2, <3>3
  <2>3. /\ fin \in BOOLEAN /\ total \in Nat /\ total <= window
        /\ st.bytes_read + n <= StreamLen
    <3>1. st.bytes_read + n <= StreamLen
      <4> DEFINE c == st.bytes_written
                 d == st.bytes_read
                 e == Len(st.buffer)
      <4>1. /\ c \in Nat /\ d \in Nat /\ e \in Nat /\ StreamLen \in Nat
            /\ c = d + e /\ c <= StreamLen /\ n <= e /\ n \in Nat
        BY <1>1, <1>2, <1>3, Zenon DEF Numbered
      <4> HIDE DEF c, d, e
      <4>2. d + n <= StreamLen
        BY <4>1
      <4> QED
        BY <4>2 DEF d
    <3>2. fin => n < window
      OBVIOUS
    <3> HIDE DEF fin, window
    <3>3. total \in Nat /\ total <= window
      BY <1>2, <1>3, <3>2
    <3> QED
      BY <3>1, <3>3 DEF fin
  <2>4. fin => eof(rest)
    OBVIOUS
  <2> HIDE DEF rest, fin
  <2>5. /\ b \in SenderRecord /\ b.stream = rest /\ b.fin_sent = fin
        /\ b.next_seqno = next /\ b.window_size = window
        /\ b.outstanding_segments = s.outstanding_segments
        /\ b.retransmission_timer_on = s.retransmission_timer_on
    <3> DEFINE u == [s EXCEPT !.stream = rest]
    <3>1. b = [u EXCEPT !.fin_sent = fin]
      <4>1. (s.fin_sent \/ fin) = fin
        BY <2>2, <2>3
      <4>2. b = [s EXCEPT !.stream = rest, !.fin_sent = fin]
        BY <4>1, Zenon
      <4> QED
        BY <4>2
    <3>2. /\ u \in SenderRecord /\ u.stream = rest
          /\ u.next_seqno = next /\ u.window_size = window
          /\ u.outstanding_segments = s.outstanding_segments
          /\ u.retransmission_timer_on = s.retransmission_timer_on
      BY <1>1, <2>1, Zenon DEF SenderRecord
    <3> HIDE DEF u, b
    <3> QED
      BY <3>1, <3>2, <2>3, Zenon DEF SenderRecord
  <2>6. /\ b.window_empty = s.window_empty
        /\ b.retransmission_timeout = s.retransmission_timeout
        /\ b.consecutive_retransmissions = s.consecutive_retransmissions
        /\ b.highest_ackno = s.highest_ackno /\ b.highest_ackno_right = s.highest_ackno_right
    BY <1>1 DEF SenderRecord
  <2> HIDE DEF b
  <2>7. HasSent(b, loop, ack, total, fin)
    <3>1. n \in Nat \ {0} /\ b.next_seqno > 0
      BY <1>2, <1>3, <1>6, <2>5
    <3>2. b.next_seqno + total <= StreamLen + 2 /\ total <= b.window_size
      <4>1. total <= n + 1
        BY <1>3
      <4> HIDE DEF total
      <4> QED
        BY <4>1, <1>2, <1>3, <2>2, <2>3, <2>5
    <3>3. Timed(b) /\ Queue(b.outstanding_segments, b.next_seqno, ack, FALSE)
      BY <1>1, <2>2, <2>5, Zenon DEF Timed
    <3>4. \A j \in 1..n : st.buffer[j] = b.next_seqno + j - 2
      <4> TAKE j \in 1..n
      <4>1. j \in DOMAIN st.buffer /\ j \in Int
        BY <1>2, <1>3
      <4>2. st.buffer[j] = st.bytes_read + j - 1
        BY <4>1, <1>1 DEF Numbered
      <4>3. b.next_seqno = 1 + st.bytes_read
        BY <2>2, <2>5
      <4> DEFINE d == st.bytes_read
      <4>4. d \in Nat /\ b.next_seqno = 1 + d
        BY <1>2, <4>3
      <4> HIDE DEF d
      <4>5. d + j - 1 = b.next_seqno + j - 2
        BY <4>1, <4>4
      <4> QED
        BY <4>2, <4>5 DEF d
    <3> HIDE DEF st
    <3> QED
      BY <3>1, <3>2, <3>3, <3>4, <1>2, <1>3, <2>3, <2>5, BytesLoop, Zenon
  <2>8. t = loop
    BY <1>4, <1>6
  <2> HIDE DEF loop
  <2>9. /\ t \in SenderRecord /\ Unsent(b, t) /\ Timed(t)
        /\ t.next_seqno = next + total /\ t.window_size = window - total
        /\ Queue(t.outstanding_segments, t.next_seqno, ack, fin)
    BY <2>5, <2>7, <2>8, Zenon DEF HasSent
  <2>10. t.fin_sent = fin /\ t.stream = rest
    BY <2>5, <2>9 DEF Unsent
  <2>11. Sends(s, t)
    <3>1. total >= 0 /\ (total = 0 => t.window_size = window)
      BY <1>2, <2>3, <2>9
    <3>2. /\ t.next_seqno >= next /\ t.next_seqno + t.window_size >= next + window
          /\ t.next_seqno = next => t.window_size = window
      <4> HIDE DEF total, next, window
      <4> QED
        BY <1>2, <2>3, <2>9, <3>1
    <3> QED
      BY <2>1, <2>5, <2>6, <2>9, <2>10, <3>2 DEF Sends, Unsent
  <2>12. Counted(t)
    <3>1. t.next_seqno = 1 + rest.bytes_read + (IF fin THEN 1 ELSE 0) /\ t.next_seqno > 0
      <4> DEFINE one == IF fin THEN 1 ELSE 0
      <4>1. one \in Nat /\ total = n + one
        OBVIOUS
      <4> HIDE DEF one, total, next
      <4>2. t.next_seqno = 1 + rest.bytes_read + one /\ t.next_seqno > 0
        <5> DEFINE x == t.next_seqno
                   d == st.bytes_read
                   e == rest.bytes_read
        <5>1. /\ x = next + total /\ next = 1 + d /\ e = d + n /\ total = n + one
              /\ d \in Nat /\ n \in Nat /\ one \in Nat
          BY <4>1, <1>2, <1>3, <2>1, <2>2, <2>9, Zenon
        <5> HIDE DEF x, d, e
        <5>2. x = 1 + e + one /\ x > 0
          BY <5>1
        <5> QED
          BY <5>2 DEF x, e
      <4> QED
        BY <4>2 DEF one
    <3>2. t.next_seqno # 0
      BY <3>1
    <3> QED
      BY <3>1, <3>2, <2>4, <2>10 DEF Counted
  <2>13. t.window_size > 0 => buffer_empty(t.stream)
    <3>1. total >= n
      BY <1>3
    <3>2. t.window_size > 0 => n < window
      <4> HIDE DEF total, window
      <4> QED
        BY <1>2, <1>3, <2>3, <2>9, <3>1
    <3>3. n = Len(st.buffer) => Len(rest.buffer) = 0
      BY <1>2, <2>1
    <3> QED
      BY <3>2, <3>3, <1>3, <2>10 DEF buffer_empty, buffer_size
  <2>14. Good(t, ack)
    BY <2>1, <2>9, <2>10, <2>12, Zenon DEF Good
  <2> QED
    BY <2>11, <2>13, <2>14 DEF t
<1> QED
  BY <1>5, <1>6

\* send_fin(): FIN takes one sequence number and ends the queue.
LEMMA FinStep ==
  ASSUME NoWrap, NEW s, NEW ack \in Nat, Good(s, ack), s.next_seqno > 0
  PROVE  LET t == send_fin(s)
         IN  /\ Good(t, ack) /\ Sends(s, t) /\ t.stream = s.stream
             /\ t.window_size > 0 /\ eof(t.stream) => t.fin_sent
             /\ t.window_size > 0 => s.window_size > 0
<1> DEFINE t == send_fin(s)
           fin == [seqno |-> 0, syn |-> FALSE, fin |-> TRUE, payload |-> <<>>]
           b == [s EXCEPT !.fin_sent = TRUE]
<1>1. /\ s \in SenderRecord /\ Counted(s) /\ Timed(s) /\ s.next_seqno \in Nat \ {0}
      /\ Numbered(s.stream) /\ s.window_size \in Nat /\ s.fin_sent \in BOOLEAN
      /\ s.stream.bytes_read \in Nat /\ s.stream.bytes_written \in Nat
      /\ Len(s.stream.buffer) \in Nat /\ StreamLen \in Nat
      /\ Queue(s.outstanding_segments, s.next_seqno, ack, s.fin_sent)
  BY Constants, SMTT(20) DEF Good, SenderRecord, StreamRecord
<1>2. CASE ~(eof(s.stream) /\ ~s.fin_sent /\ s.window_size > 0)
  <2>1. t = s
    BY <1>2 DEF send_fin
  <2> QED
    BY <2>1, <1>1, <1>2, SendsNothing
<1>3. CASE eof(s.stream) /\ ~s.fin_sent /\ s.window_size > 0
  <2>1. /\ fin \in Segment /\ fin.syn = FALSE /\ fin.fin = TRUE /\ fin.payload = <<>>
        /\ Len(<<>>) = 0 /\ DOMAIN <<>> = {}
    BY DEF Segment
  <2> HIDE DEF fin
  <2>2. length_in_sequence_space(fin) = 1
    BY <2>1 DEF length_in_sequence_space
  <2>3. /\ b \in SenderRecord /\ b.fin_sent = TRUE /\ b.stream = s.stream
        /\ b.next_seqno = s.next_seqno /\ b.window_size = s.window_size
        /\ b.outstanding_segments = s.outstanding_segments
        /\ b.retransmission_timer_on = s.retransmission_timer_on
        /\ b.window_empty = s.window_empty
        /\ b.retransmission_timeout = s.retransmission_timeout
        /\ b.consecutive_retransmissions = s.consecutive_retransmissions
        /\ b.highest_ackno = s.highest_ackno /\ b.highest_ackno_right = s.highest_ackno_right
    BY <1>1, Zenon DEF SenderRecord
  <2> HIDE DEF b
  <2>4. s.fin_sent = FALSE
    BY <1>1, <1>3
  <2>5. s.next_seqno = 1 + s.stream.bytes_read
    <3>1. s.next_seqno = 1 + s.stream.bytes_read + 0
      BY <1>1, <1>3 DEF Counted
    <3> QED
      BY <1>1, <3>1
  <2>6. s.stream.bytes_read <= StreamLen
    BY <1>1 DEF Numbered
  <2>7. Ready(fin, b.next_seqno)
    <3>1. b.next_seqno # 0 /\ b.next_seqno + 1 <= StreamLen + 2
      BY <1>1, <2>3, <2>5, <2>6
    <3> QED
      BY <2>1, <2>2, <3>1 DEF Ready
  <2>8. Timed(b) /\ Queue(b.outstanding_segments, b.next_seqno, ack, FALSE)
    BY <1>1, <2>3, <2>4, Zenon DEF Timed
  <2>9. t = send_new_segment(b, fin)
    BY <1>3 DEF send_fin, b, fin
  <2> HIDE DEF t
  <2>10. /\ t \in SenderRecord /\ Unsent(b, t) /\ Timed(t)
         /\ t.next_seqno = b.next_seqno + 1
         /\ t.window_size = IF b.window_size < 1 THEN 0 ELSE b.window_size - 1
         /\ Queue(t.outstanding_segments, t.next_seqno, ack, TRUE)
    BY <2>1, <2>2, <2>3, <2>7, <2>8, <2>9, SendNew, ZenonT(40)
  <2>11. Sends(b, t)
    BY <2>3, <2>10, SendNewSends
  <2>12. Sends(s, t)
    BY <2>3, <2>11 DEF Sends
  <2>13. t.fin_sent = TRUE /\ t.stream = s.stream
    BY <2>3, <2>10 DEF Unsent
  <2>14. Counted(t)
    <3>1. t.next_seqno = 1 + s.stream.bytes_read + 1 /\ t.next_seqno > 0
      BY <2>3, <2>5, <2>10, <1>1
    <3>2. t.next_seqno # 0
      BY <3>1
    <3> QED
      BY <3>1, <3>2, <2>13, <1>3 DEF Counted
  <2>15. Good(t, ack)
    BY <1>1, <2>10, <2>13, <2>14, Zenon DEF Good
  <2> QED
    BY <1>3, <2>12, <2>13, <2>15 DEF t
<1> QED
  BY <1>2, <1>3

(***************************************************************************)
(* fill_window(): with window left there is nothing left to send.          *)
(***************************************************************************)
LEMMA FillStep ==
  ASSUME NoWrap, NEW s, NEW ack \in Nat, Good(s, ack)
  PROVE  LET t == fill_window(s)
         IN  /\ Good(t, ack) /\ Sends(s, t) /\ t.next_seqno > 0
             /\ t.window_size > 0 => buffer_empty(t.stream)
             /\ t.window_size > 0 /\ input_ended(t.stream) => t.fin_sent
<1> DEFINE u == send_syn(s)
           v == send_bytes(u)
           w == send_fin(v)
           t == fill_window(s)
<1>1. Good(u, ack) /\ Sends(s, u) /\ u.next_seqno > 0
  BY SynStep
<1>2. t = IF u.window_size = 0 THEN u ELSE w
  BY DEF fill_window
<1> HIDE DEF u, t
<1>3. CASE u.window_size = 0
  <2>1. t = u /\ ~(t.window_size > 0)
    BY <1>2, <1>3
  <2> QED
    BY <1>1, <2>1 DEF t
<1>4. CASE u.window_size # 0
  <2>1. /\ Good(v, ack) /\ Sends(u, v)
        /\ v.window_size > 0 => buffer_empty(v.stream)
    BY <1>1, BytesStep
  <2> HIDE DEF v
  <2>2. /\ s \in SenderRecord /\ u \in SenderRecord /\ v \in SenderRecord
    BY <1>1, <2>1 DEF Good
  <2>3. v.next_seqno > 0
    <3> DEFINE x == u.next_seqno
               y == v.next_seqno
    <3>1. x \in Nat /\ y \in Nat
      BY <2>2, Zenon DEF SenderRecord
    <3>2. y >= x /\ x > 0
      BY <1>1, <2>1, Zenon DEF Sends
    <3> HIDE DEF x, y
    <3>3. y > 0
      BY <3>1, <3>2
    <3> QED
      BY <3>3 DEF y
  <2>4. /\ Good(w, ack) /\ Sends(v, w) /\ w.stream = v.stream
        /\ w.window_size > 0 /\ eof(w.stream) => w.fin_sent
        /\ w.window_size > 0 => v.window_size > 0
    BY <2>1, <2>3, FinStep
  <2> HIDE DEF w
  <2>5. w \in SenderRecord
    BY <2>4 DEF Good
  <2>6. Sends(s, v)
    BY <1>1, <2>1, <2>2, SendsTransitive
  <2>7. Sends(s, w)
    BY <2>2, <2>4, <2>5, <2>6, SendsTransitive
  <2>8. w.next_seqno > 0
    <3>1. w.next_seqno >= v.next_seqno
      BY <2>4 DEF Sends
    <3>2. w.next_seqno \in Nat /\ v.next_seqno \in Nat
      BY <2>2, <2>5 DEF SenderRecord
    <3> QED
      BY <2>3, <3>1, <3>2
  <2>9. /\ w.window_size > 0 => buffer_empty(w.stream)
        /\ w.window_size > 0 /\ input_ended(w.stream) => w.fin_sent
    BY <2>1, <2>4 DEF eof, input_ended
  <2>10. t = w
    BY <1>2, <1>4
  <2> QED
    BY <2>4, <2>7, <2>8, <2>9, <2>10 DEF t
<1> QED
  BY <1>3, <1>4

-----------------------------------------------------------------------------
\* remove_acknowledged(): what is left is the queue from the new ackno on.
LEMMA RemoveLemma ==
  ASSUME NEW list \in Seq(Segment), NEW next \in Nat, NEW ack \in Nat, NEW fin,
         Queue(list, next, ack, fin), NEW a \in Nat, ack <= a, a <= next
  PROVE  LET r == remove_acknowledged(list, Isn + a)
         IN  r \in Seq(Segment) /\ Queue(r, next, a, fin) /\ (a = ack => r = list)
<1> DEFINE len == Len(list)
           S == {k \in 0..len : \A j \in 1..k :
                   list[j].seqno + length_in_sequence_space(list[j]) - 1 < Isn + a}
           n == Max(S)
           r == SubSeq(list, n + 1, len)
<1>1. r = remove_acknowledged(list, Isn + a)
  BY DEF remove_acknowledged
<1>2. len \in Nat /\ DOMAIN list = 1..len /\ Isn \in Nat
  BY Constants
<1>3. \A j \in 1..len : /\ End(list[j]) \in Nat /\ list[j].seqno \in Nat
                        /\ End(list[j]) <= Isn + next /\ list[j].seqno < End(list[j])
                        /\ End(list[j]) = list[j].seqno + length_in_sequence_space(list[j])
                        /\ length_in_sequence_space(list[j]) \in Nat
  <2> TAKE j \in 1..len
  <2>1. j \in DOMAIN list /\ list[j] \in Segment
    BY <1>2, ElementOfSeq
  <2>2. /\ length_in_sequence_space(list[j]) \in Nat /\ End(list[j]) \in Nat
        /\ list[j].seqno \in Nat /\ End(list[j]) <= Isn + next
        /\ length_in_sequence_space(list[j]) > 0
    BY <2>1, LengthIsNat, EndsBefore, Zenon DEF Queue, InPlace
  <2> QED
    BY <2>2 DEF End
<1>4. \A j \in 1..len :
        list[j].seqno + length_in_sequence_space(list[j]) - 1 < Isn + a <=>
        End(list[j]) <= Isn + a
  BY <1>2, <1>3
<1> HIDE DEF len
<1>5. \A k \in 0..len : k \in S <=> \A j \in 1..k : End(list[j]) <= Isn + a
  BY <1>2, <1>4
<1> HIDE DEF S
<1>6. n \in S /\ n \in 0..len /\ \A y \in S : n >= y
  <2>1. S \in SUBSET (0..len)
    BY DEF S
  <2>2. 0 \in S
    BY <1>2, <1>5
  <2>3. n = Loop!Max(S)
    BY DEF Max, Loop!Max
  <2> HIDE DEF n
  <2>4. Loop!Max(S) \in S /\ \A y \in S : Loop!Max(S) >= y
    BY <1>2, <2>1, <2>2, Loop!MaxOfSubset, Zenon
  <2> QED
    BY <2>1, <2>3, <2>4, Zenon
<1> HIDE DEF n
<1>7. \A j \in 1..n : End(list[j]) <= Isn + a
  BY <1>5, <1>6
<1>8. n < len => Isn + a < End(list[n + 1])
  <2> SUFFICES ASSUME n < len PROVE Isn + a < End(list[n + 1])
    OBVIOUS
  <2>1. n + 1 \in 0..len /\ n + 1 \in 1..len /\ ~(n >= n + 1)
    BY <1>2, <1>6
  <2>2. n + 1 \notin S
    BY <1>6, <2>1
  <2>3. PICK j \in 1..(n + 1) : ~(End(list[j]) <= Isn + a)
    BY <1>5, <2>1, <2>2
  <2>4. j = n + 1
    BY <1>7, <2>3, <1>6
  <2> QED
    BY <2>1, <2>3, <2>4, <1>2, <1>3
<1>9. /\ r \in Seq(Segment) /\ Len(r) = len - n /\ DOMAIN r = 1..(len - n)
      /\ \A k \in 1..(len - n) : r[k] = list[n + k]
  <2>1. n + 1 \in 1..(len + 1) /\ len \in 0..len
    BY <1>2, <1>6
  <2>2. r \in Seq(Segment) /\ Len(r) = len - n
    <3>1. \A i \in (n + 1)..len : list[i] \in Segment
      BY <1>2, <1>6, ElementOfSeq DEF len
    <3>2. n + 1 \in Int /\ len \in Int
      BY <1>2, <1>6
    <3>3. /\ r \in Seq(Segment)
          /\ Len(r) = IF n + 1 <= len THEN len - (n + 1) + 1 ELSE 0
      BY <3>1, <3>2, SubSeqProperties
    <3> HIDE DEF r
    <3> QED
      BY <3>3, <1>2, <1>6
  <2>3. \A k \in 1..(len - n) : r[k] = list[n + k]
    BY <1>2, <1>6, <2>1 DEF len
  <2> QED
    BY <2>2, <2>3
<1> HIDE DEF r
<1>10. ASSUME NEW k \in DOMAIN r
       PROVE  /\ InPlace(r[k])
              /\ End(r[k]) = IF k = Len(r) THEN Isn + next ELSE r[k + 1].seqno
              /\ r[k].fin <=> k = Len(r) /\ fin
  <2>1. k \in 1..(len - n) /\ n + k \in 1..len /\ r[k] = list[n + k]
    BY <1>2, <1>6, <1>9
  <2>2. /\ InPlace(list[n + k])
        /\ End(list[n + k]) = IF n + k = len THEN Isn + next ELSE list[n + k + 1].seqno
        /\ list[n + k].fin <=> n + k = len /\ fin
    BY <1>2, <2>1 DEF Queue, len
  <2>3. n + k = len <=> k = Len(r)
    BY <1>2, <1>6, <1>9, <2>1
  <2>4. k # Len(r) => r[k + 1] = list[n + k + 1]
    <3> SUFFICES ASSUME k # Len(r) PROVE r[k + 1] = list[n + k + 1]
      OBVIOUS
    <3>1. k + 1 \in 1..(len - n) /\ n + (k + 1) = n + k + 1
      BY <1>2, <1>6, <1>9, <2>1
    <3> QED
      BY <3>1, <1>9
  <2> QED
    BY <2>1, <2>2, <2>3, <2>4
<1>11. ASSUME NEW j \in DOMAIN r, NEW k \in DOMAIN r, j < k
       PROVE  End(r[j]) <= r[k].seqno
  <2>1. n + j \in 1..len /\ n + k \in 1..len /\ n + j < n + k
    BY <1>2, <1>6, <1>9, <1>11
  <2> QED
    BY <1>2, <1>9, <2>1 DEF Queue
<1>12. n = len <=> a = next
  <2>1. CASE len = 0
    <3>1. list = <<>> /\ ack = next
      BY <2>1 DEF Queue, len
    <3> QED
      BY <3>1, <2>1, <1>2, <1>6
  <2>2. CASE len # 0
    <3>1. len \in 1..len /\ End(list[len]) = Isn + next
      BY <2>2, <1>2 DEF Queue, len
    <3>2. n = len => a = next
      BY <3>1, <1>2, <1>3, <1>7
    <3>3. a = next => n = len
      <4> SUFFICES ASSUME a = next PROVE n = len
        OBVIOUS
      <4>1. n < len => FALSE
        <5>1. n < len => n + 1 \in 1..len
          BY <1>2, <1>6
        <5> QED
          BY <5>1, <1>2, <1>3, <1>8
      <4> QED
        BY <4>1, <1>2, <1>6
    <3> QED
      BY <3>2, <3>3
  <2> QED
    BY <2>1, <2>2
<1>13. r = <<>> <=> a = next
  <2>1. r = <<>> <=> Len(r) = 0
    BY <1>9
  <2> QED
    BY <2>1, <1>2, <1>6, <1>9, <1>12
<1>14. ASSUME r # <<>>
       PROVE  r[1].seqno <= Isn + a /\ Isn + a < End(r[1])
  <2>1. n < len /\ n + 1 \in 1..len /\ r[1] = list[n + 1]
    BY <1>2, <1>6, <1>9, <1>12, <1>13, <1>14
  <2>2. CASE n = 0
    <3>1. list # <<>>
      BY <2>1, <1>2 DEF len
    <3>2. list[1].seqno <= Isn + ack /\ list[1].seqno \in Nat /\ n + 1 = 1
      BY <3>1, <2>1, <2>2, <1>3 DEF Queue
    <3> QED
      BY <3>2, <2>1, <2>2, <1>2, <1>8
  <2>3. CASE n # 0
    <3>1. n \in 1..len /\ n \in DOMAIN list /\ n # len /\ n \in 1..n
      BY <2>1, <2>3, <1>2, <1>6
    <3>2. End(list[n]) = list[n + 1].seqno
      BY <3>1 DEF Queue, len
    <3> QED
      BY <3>1, <3>2, <2>1, <1>7, <1>8
  <2> QED
    BY <2>2, <2>3
<1>15. Queue(r, next, a, fin)
  BY <1>10, <1>11, <1>13, <1>14 DEF Queue
<1>16. a = ack => r = list
  <2> SUFFICES ASSUME a = ack PROVE r = list
    OBVIOUS
  <2>1. n = 0
    <3>1. CASE list = <<>>
      BY <3>1, <1>6 DEF len
    <3>2. CASE list # <<>>
      <4>1. 1 \in 1..len /\ Isn + a < End(list[1])
        BY <3>2, <1>2 DEF Queue, len
      <4>2. n > 0 => 1 \in 1..n
        BY <1>6
      <4> QED
        BY <4>1, <4>2, <1>2, <1>3, <1>6, <1>7, SMTT(20)
    <3> QED
      BY <3>1, <3>2
  <2> QED
    BY <2>1, <1>2 DEF r, len
<1> QED
  BY <1>1, <1>9, <1>15, <1>16

\* SYN, the stream and FIN bound next_seqno.
LEMMA NextBound ==
  ASSUME NEW s, NEW ack, Good(s, ack)
  PROVE  s.next_seqno \in Nat /\ s.next_seqno <= StreamLen + 2
<1>1. /\ s.next_seqno \in Nat /\ s.stream.bytes_read \in Nat /\ StreamLen \in Nat
      /\ Len(s.stream.buffer) \in Nat
  BY Constants DEF Good, SenderRecord, StreamRecord
<1>2. s.stream.bytes_read <= StreamLen
  BY <1>1 DEF Good, Numbered
<1> DEFINE one == IF s.fin_sent THEN 1 ELSE 0
<1>3. one \in 0..1 /\ (s.next_seqno > 0 => s.next_seqno = 1 + s.stream.bytes_read + one)
  BY DEF Good, Counted
<1> HIDE DEF one
<1> QED
  BY <1>1, <1>2, <1>3

\* The sender after an acknowledgment, before it fills the window.
acknowledged(s, ackno) ==
  [s EXCEPT !.outstanding_segments = remove_acknowledged(@, ackno)]
updated(s, ackno, w) == reset_timer(set_window(acknowledged(s, ackno), ackno, w), ackno)

\* What set_window() changes.
LEMMA WindowLemma ==
  ASSUME NoWrap, NEW s \in SenderRecord, NEW a \in Nat, a <= StreamLen + 2,
         NEW w \in 0..MaxWindow
  PROVE  LET u == set_window(s, Isn + a, w)
         IN  /\ u \in SenderRecord /\ u.stream = s.stream
             /\ u.next_seqno = s.next_seqno /\ u.fin_sent = s.fin_sent
             /\ u.outstanding_segments = s.outstanding_segments
             /\ u.retransmission_timer_on = s.retransmission_timer_on
             /\ u.retransmission_timeout = s.retransmission_timeout
             /\ u.consecutive_retransmissions = s.consecutive_retransmissions
             /\ u.highest_ackno = s.highest_ackno
             /\ \/ w = 0 /\ u.window_size = 1 /\ u.highest_ackno_right = s.highest_ackno_right
                \/ /\ w > 0 /\ u.window_size = w /\ u.highest_ackno_right = Isn + a + w
                \/ /\ w > 0 /\ Isn + a + w <= s.highest_ackno_right
                   /\ u.window_size = s.window_size
                   /\ u.highest_ackno_right = s.highest_ackno_right
<1> DEFINE right == Isn + a + w
           u == set_window(s, Isn + a, w)
           same(x) == /\ x.stream = s.stream
             /\ x.next_seqno = s.next_seqno /\ x.fin_sent = s.fin_sent
             /\ x.outstanding_segments = s.outstanding_segments
             /\ x.retransmission_timer_on = s.retransmission_timer_on
             /\ x.retransmission_timeout = s.retransmission_timeout
             /\ x.consecutive_retransmissions = s.consecutive_retransmissions
             /\ x.highest_ackno = s.highest_ackno
<1>1. /\ (Isn + a + w) % WrappingBoundary = right /\ right \in Int
      /\ w \in Nat /\ s.highest_ackno_right \in Int
  <2>1. /\ Isn + a + w \in 0..(WrappingBoundary - 1) /\ WrappingBoundary \in Nat \ {0}
        /\ w \in Nat
    BY Constants DEF NoWrap
  <2>2. (Isn + a + w) % WrappingBoundary = right
    <3> HIDE DEF right
    <3>1. right \in 0..(WrappingBoundary - 1) /\ right \in Int
      BY <2>1 DEF right
    <3>2. right = right + 0 * WrappingBoundary
      BY <2>1, <3>1
    <3>3. right % WrappingBoundary = right
      BY <2>1, <3>1, <3>2, ModUnique
    <3> QED
      BY <3>3 DEF right
  <2> QED
    BY <2>1, <2>2 DEF SenderRecord
<1>2. u = IF w = 0 THEN [s EXCEPT !.window_size = 1, !.window_empty = TRUE]
          ELSE IF right > s.highest_ackno_right
               THEN [s EXCEPT !.highest_ackno_right = right,
                              !.window_size = w, !.window_empty = FALSE]
               ELSE s
  BY <1>1, Zenon DEF set_window
<1> HIDE DEF right, u
<1>3. CASE w = 0
  <2> DEFINE x == [s EXCEPT !.window_size = 1]
  <2>1. x \in SenderRecord /\ same(x) /\ x.window_size = 1
        /\ x.highest_ackno_right = s.highest_ackno_right
    BY Zenon DEF SenderRecord
  <2>2. u = [x EXCEPT !.window_empty = TRUE]
    BY <1>2, <1>3
  <2> HIDE DEF x
  <2>3. u \in SenderRecord /\ same(u) /\ u.window_size = 1
        /\ u.highest_ackno_right = s.highest_ackno_right
    BY <2>1, <2>2, Zenon DEF SenderRecord
  <2> QED
    BY <1>3, <2>3 DEF u
<1>4. CASE w # 0 /\ right > s.highest_ackno_right
  <2> DEFINE x == [s EXCEPT !.highest_ackno_right = right]
             y == [x EXCEPT !.window_size = w]
  <2>1. x \in SenderRecord /\ same(x) /\ x.highest_ackno_right = right
    BY <1>1, Zenon DEF SenderRecord
  <2>2. u = [y EXCEPT !.window_empty = FALSE]
    BY <1>2, <1>4
  <2> HIDE DEF x
  <2>3. y \in SenderRecord /\ same(y) /\ y.window_size = w /\ y.highest_ackno_right = right
    BY <1>1, <2>1, Zenon DEF SenderRecord
  <2> HIDE DEF y
  <2>4. u \in SenderRecord /\ same(u) /\ u.window_size = w /\ u.highest_ackno_right = right
    BY <2>2, <2>3, Zenon DEF SenderRecord
  <2>5. w > 0
    BY <1>1, <1>4
  <2> QED
    BY <2>4, <2>5 DEF u, right
<1>5. CASE w # 0 /\ ~(right > s.highest_ackno_right)
  <2>1. u = s /\ w > 0 /\ right <= s.highest_ackno_right
    BY <1>1, <1>2, <1>5
  <2> QED
    BY <2>1 DEF u, right
<1> QED
  BY <1>3, <1>4, <1>5

\* An acknowledgment of a sequence number that was sent, at or after the
\* highest one so far.
LEMMA UpdatedLemma ==
  ASSUME NoWrap, NEW s, NEW ack \in Nat, Good(s, ack),
         NEW a \in Nat, ack <= a, 1 <= a, a <= s.next_seqno, NEW w \in 0..MaxWindow,
         s.highest_ackno = (IF ack = 0 THEN -1 ELSE Isn + ack)
  PROVE  LET u == updated(s, Isn + a, w)
         IN  /\ Good(u, a) /\ u.highest_ackno = Isn + a
             /\ u.stream = s.stream /\ u.next_seqno = s.next_seqno
             /\ \/ /\ u.retransmission_timeout = s.retransmission_timeout
                   /\ u.consecutive_retransmissions = s.consecutive_retransmissions
                \/ /\ u.retransmission_timeout = RetxTimeout
                   /\ u.consecutive_retransmissions = 0
             /\ \/ w = 0 /\ u.window_size = 1 /\ u.highest_ackno_right = s.highest_ackno_right
                \/ /\ w > 0 /\ u.window_size = w /\ u.highest_ackno_right = Isn + a + w
                \/ /\ w > 0 /\ Isn + a + w <= s.highest_ackno_right
                   /\ u.window_size = s.window_size
                   /\ u.highest_ackno_right = s.highest_ackno_right
<1> DEFINE q == acknowledged(s, Isn + a)
           x == set_window(q, Isn + a, w)
           u == reset_timer(x, Isn + a)
           list == remove_acknowledged(s.outstanding_segments, Isn + a)
<1>1. /\ s \in SenderRecord /\ Counted(s) /\ Timed(s) /\ Numbered(s.stream)
      /\ s.outstanding_segments \in Seq(Segment) /\ s.next_seqno \in Nat
      /\ Queue(s.outstanding_segments, s.next_seqno, ack, s.fin_sent)
  BY DEF Good, SenderRecord
<1>2. /\ list \in Seq(Segment) /\ Queue(list, s.next_seqno, a, s.fin_sent)
      /\ a = ack => list = s.outstanding_segments
  <2> DEFINE o == s.outstanding_segments
             m == s.next_seqno
             f == s.fin_sent
  <2>1. o \in Seq(Segment) /\ m \in Nat /\ Queue(o, m, ack, f) /\ a <= m
    BY <1>1
  <2> HIDE DEF o, m, f
  <2>2. LET r == remove_acknowledged(o, Isn + a)
        IN  r \in Seq(Segment) /\ Queue(r, m, a, f) /\ (a = ack => r = o)
    BY <2>1, RemoveLemma, Zenon
  <2> QED
    BY <2>2, Zenon DEF o, m, f
<1>3. q = [s EXCEPT !.outstanding_segments = list]
  BY DEF acknowledged
<1> HIDE DEF list, q
<1>4. /\ q \in SenderRecord /\ q.stream = s.stream /\ q.outstanding_segments = list
      /\ q.next_seqno = s.next_seqno /\ q.fin_sent = s.fin_sent
      /\ q.retransmission_timer_on = s.retransmission_timer_on
      /\ q.retransmission_timeout = s.retransmission_timeout
      /\ q.consecutive_retransmissions = s.consecutive_retransmissions
      /\ q.highest_ackno = s.highest_ackno /\ q.window_size = s.window_size
      /\ q.highest_ackno_right = s.highest_ackno_right
  BY <1>1, <1>2, <1>3, Zenon DEF SenderRecord
<1>5. a <= StreamLen + 2
  BY <1>1, NextBound, Constants
<1>6. /\ x \in SenderRecord /\ x.stream = s.stream
      /\ x.next_seqno = s.next_seqno /\ x.fin_sent = s.fin_sent
      /\ x.outstanding_segments = list
      /\ x.retransmission_timer_on = s.retransmission_timer_on
      /\ x.retransmission_timeout = s.retransmission_timeout
      /\ x.consecutive_retransmissions = s.consecutive_retransmissions
      /\ x.highest_ackno = s.highest_ackno
      /\ \/ w = 0 /\ x.window_size = 1 /\ x.highest_ackno_right = s.highest_ackno_right
         \/ /\ w > 0 /\ x.window_size = w /\ x.highest_ackno_right = Isn + a + w
         \/ /\ w > 0 /\ Isn + a + w <= s.highest_ackno_right
            /\ x.window_size = s.window_size
            /\ x.highest_ackno_right = s.highest_ackno_right
  BY <1>4, <1>5, WindowLemma, ZenonT(40)
<1> HIDE DEF x
<1>7. CASE Isn + a > x.highest_ackno
  <2> DEFINE on == x.outstanding_segments # <<>>
             x1 == [x EXCEPT !.retransmission_timeout = x.initial_retransmission_timeout]
             x2 == [x1 EXCEPT !.retransmission_timer = 0]
             x3 == [x2 EXCEPT !.retransmission_timer_on = on]
             x4 == [x3 EXCEPT !.consecutive_retransmissions = 0]
             kept(y) == /\ y \in SenderRecord /\ y.stream = s.stream
                        /\ y.next_seqno = s.next_seqno /\ y.fin_sent = s.fin_sent
                        /\ y.outstanding_segments = list
                        /\ y.window_size = x.window_size
                        /\ y.highest_ackno_right = x.highest_ackno_right
  <2>1. u = [x4 EXCEPT !.highest_ackno = Isn + a]
    <3> HIDE DEF on
    <3> QED
      BY <1>7 DEF reset_timer, on
  <2>2. on \in BOOLEAN /\ Isn + a \in Int /\ RetxTimeout \in Nat
    BY Constants
  <2> HIDE DEF on, u
  <2>3. kept(x1) /\ x1.retransmission_timeout = RetxTimeout
    BY <1>6, <2>2, Zenon DEF SenderRecord
  <2> HIDE DEF x1
  <2>4. kept(x2) /\ x2.retransmission_timeout = RetxTimeout
    BY <2>3, Zenon DEF SenderRecord
  <2> HIDE DEF x2
  <2>5. kept(x3) /\ x3.retransmission_timeout = RetxTimeout /\ x3.retransmission_timer_on = on
    BY <2>2, <2>4, Zenon DEF SenderRecord
  <2> HIDE DEF x3
  <2>6. /\ kept(x4) /\ x4.retransmission_timeout = RetxTimeout
        /\ x4.retransmission_timer_on = on /\ x4.consecutive_retransmissions = 0
    BY <2>5, Zenon DEF SenderRecord
  <2> HIDE DEF x4
  <2>7. /\ kept(u) /\ u.retransmission_timeout = RetxTimeout
        /\ u.retransmission_timer_on = on /\ u.consecutive_retransmissions = 0
        /\ u.highest_ackno = Isn + a
    BY <2>1, <2>2, <2>6, Zenon DEF SenderRecord
  <2>8. Timed(u) /\ Counted(u)
    BY <1>1, <1>6, <2>7, Zenon DEF Timed, Counted, on
  <2>9. Good(u, a)
    BY <1>1, <1>2, <2>7, <2>8, Zenon DEF Good
  <2> QED
    BY <1>6, <2>7, <2>9, Zenon DEF u, q, updated, x
<1>8. CASE ~(Isn + a > x.highest_ackno)
  <2>1. u = x
    BY <1>8 DEF reset_timer
  <2>2. a = ack
    <3>1. x.highest_ackno = (IF ack = 0 THEN -1 ELSE Isn + ack)
      BY <1>6
    <3>2. Isn \in Nat
      BY Constants
    <3> QED
      BY <3>1, <3>2, <1>8
  <2>3. x.highest_ackno = Isn + a
    BY <1>6, <2>2
  <2>4. list = s.outstanding_segments
    BY <1>2, <2>2
  <2>5. Timed(x) /\ Counted(x)
    BY <1>1, <1>6, <2>4 DEF Timed, Counted
  <2>6. Good(x, a)
    BY <1>1, <1>2, <1>6, <2>5, Zenon DEF Good
  <2> QED
    BY <1>6, <2>1, <2>3, <2>6, Zenon DEF q, updated, x
<1> QED
  BY <1>7, <1>8

-----------------------------------------------------------------------------
(***************************************************************************)
(* Every step but a tick ends in fill_window(), and it is enough that the  *)
(* sender is in order before it.                                           *)
(***************************************************************************)
LEMMA Refill ==
  ASSUME NoWrap, NEW u, NEW a \in Nat, NEW right \in Nat, NEW late \in BOOLEAN,
         Good(u, a), Informed(u, a, right, late),
         ~late /\ u.next_seqno > 0 /\ a = u.next_seqno => u.window_size > 0
  PROVE  LET t == fill_window(u)
         IN  Good(t, a) /\ Informed(t, a, right, late) /\ Filled(t, late)
<1> DEFINE t == fill_window(u)
<1>1. /\ Good(t, a) /\ Sends(u, t) /\ t.next_seqno > 0
      /\ t.window_size > 0 => buffer_empty(t.stream)
      /\ t.window_size > 0 /\ input_ended(t.stream) => t.fin_sent
  BY FillStep
<1> HIDE DEF t
<1>2. /\ u.next_seqno \in Nat /\ t.next_seqno \in Nat /\ u.window_size \in Nat
      /\ t.window_size \in Nat
  BY <1>1 DEF Good, SenderRecord
<1>3. Informed(t, a, right, late)
  <2>1. /\ t.consecutive_retransmissions <= MAX_RETX_ATTEMPTS + 1
        /\ t.retransmission_timeout = Doubled[t.consecutive_retransmissions]
        /\ t.highest_ackno = (IF a = 0 THEN -1 ELSE Isn + a)
        /\ a = 0 => t.highest_ackno_right = -1
        /\ ~late => t.highest_ackno_right <= Isn + right
    BY <1>1, Zenon DEF Informed, Sends
  <2>2. ~late /\ a > 0 => t.next_seqno + t.window_size >= right
    <3>1. t.next_seqno + t.window_size >= u.next_seqno + u.window_size
      BY <1>1 DEF Sends
    <3>2. ~late /\ a > 0 => u.next_seqno + u.window_size >= right
      BY DEF Informed
    <3> QED
      BY <1>2, <3>1, <3>2
  <2> QED
    BY <2>1, <2>2, Zenon DEF Informed
<1>4. ASSUME ~late, t.outstanding_segments = <<>> PROVE t.window_size > 0
  <2>1. a = t.next_seqno
    BY <1>1, <1>4 DEF Good, Queue
  <2>2. a <= u.next_seqno
    <3> DEFINE o == u.outstanding_segments
    <3>1. o \in Seq(Segment) /\ Queue(o, u.next_seqno, a, u.fin_sent)
      BY DEF Good, SenderRecord
    <3> HIDE DEF o
    <3> QED
      BY <1>2, <3>1, AckBound
  <2>3. t.next_seqno >= u.next_seqno
    BY <1>1 DEF Sends
  <2>4. t.next_seqno = u.next_seqno /\ u.next_seqno > 0 /\ a = u.next_seqno
    BY <1>1, <1>2, <2>1, <2>2, <2>3
  <2>5. t.window_size = u.window_size
    BY <1>1, <2>4 DEF Sends
  <2> QED
    BY <1>4, <2>4, <2>5
<1>5. ~buffer_empty(t.stream) => t.window_size = 0
  BY <1>1, <1>2
<1>6. Filled(t, late)
  BY <1>1, <1>4, <1>5 DEF Filled
<1> QED
  BY <1>1, <1>3, <1>6 DEF t

\* The stream after write() of the bytes that follow those written before.
LEMMA WriteLemma ==
  ASSUME NEW st \in StreamRecord, Numbered(st), NEW n \in Nat,
         st.bytes_written + n <= StreamLen
  PROVE  LET r == write(st, [k \in 1..n |-> st.bytes_written + k - 1])
         IN  /\ r \in StreamRecord /\ Numbered(r) /\ r.eof = st.eof
             /\ r.bytes_read = st.bytes_read
<1> DEFINE w == st.bytes_written
           data == [k \in 1..n |-> w + k - 1]
           b == st.buffer
           m == accepted(st, data)
           cut == SubSeq(data, 1, m)
           new == b \o cut
           r == write(st, data)
<1>1. /\ w \in Nat /\ b \in Seq(Nat) /\ Len(b) \in Nat /\ st.bytes_read \in Nat
      /\ st.capacity = SendCapacity /\ SendCapacity \in Nat /\ StreamLen \in Nat
  BY Constants DEF StreamRecord
<1>2. Len(b) <= SendCapacity /\ w = st.bytes_read + Len(b)
  BY DEF Numbered
<1>3. data \in Seq(Nat) /\ Len(data) = n
  <2>1. \A k \in 1..n : w + k - 1 \in Nat
    BY <1>1
  <2> HIDE DEF w
  <2> QED
    BY <2>1
<1>4. m \in Nat /\ m <= n /\ Len(b) + m <= SendCapacity
  <2> DEFINE l == Len(b)
  <2> HIDE DEF data
  <2>1. m = IF n > SendCapacity - l THEN SendCapacity - l ELSE n
    BY <1>1, <1>3, Zenon DEF accepted, remaining_capacity, buffer_size
  <2>2. l \in Nat /\ l <= SendCapacity
    BY <1>1, <1>2
  <2> HIDE DEF l, m
  <2>3. m \in Nat /\ m <= n /\ l + m <= SendCapacity
    BY <2>1, <2>2, <1>1
  <2> QED
    BY <2>3 DEF l
<1>5. r = [st EXCEPT !.buffer = new, !.bytes_written = w + m]
  BY DEF write, StreamRecord
<1> HIDE DEF m
<1>6. cut \in Seq(Nat) /\ Len(cut) = m /\ \A k \in 1..m : cut[k] = w + k - 1
  <2>1. \A k \in 1..m : data[k] = w + k - 1
    BY <1>4
  <2> HIDE DEF data
  <2>2. 1 \in 1..(n + 1) /\ m \in 0..n
    BY <1>4
  <2>3. Len(cut) = m /\ \A k \in 1..m : cut[k] = data[k]
    BY <1>3, <1>4, <2>2
  <2>4. cut \in Seq(Nat)
    BY <1>3, <1>4, <2>2
  <2> QED
    BY <2>1, <2>3, <2>4
<1> HIDE DEF cut, data, b, w
<1>7. /\ new \in Seq(Nat) /\ Len(new) = Len(b) + m /\ DOMAIN new = 1..(Len(b) + m)
      /\ \A k \in 1..Len(b) : new[k] = b[k]
      /\ \A k \in (Len(b) + 1)..(Len(b) + m) : new[k] = cut[k - Len(b)]
  <2>1. new \in Seq(Nat) /\ Len(new) = Len(b) + m
    <3>1. b \in Seq(Nat) /\ cut \in Seq(Nat) /\ Len(cut) = m
      BY <1>1, <1>6
    <3> QED
      BY <3>1, ConcatProperties, Zenon
  <2>2. \A k \in 1..(Len(b) + m) :
          new[k] = IF k <= Len(b) THEN b[k] ELSE cut[k - Len(b)]
    BY <1>1, <1>4, <1>6
  <2> HIDE DEF new
  <2>3. DOMAIN new = 1..(Len(b) + m)
    BY <2>1
  <2>4. \A k \in 1..Len(b) : k \in 1..(Len(b) + m) /\ k <= Len(b)
    BY <1>1, <1>4
  <2>5. \A k \in (Len(b) + 1)..(Len(b) + m) : k \in 1..(Len(b) + m) /\ ~(k <= Len(b))
    BY <1>1, <1>4
  <2> QED
    BY <2>1, <2>2, <2>3, <2>4, <2>5
<1> HIDE DEF new, r
<1>8. \A k \in DOMAIN new : new[k] = st.bytes_read + k - 1
  <2> TAKE k \in DOMAIN new
  <2>1. CASE k \in 1..Len(b)
    <3>1. k \in DOMAIN st.buffer
      BY <2>1, <1>1 DEF b
    <3>2. st.buffer[k] = st.bytes_read + k - 1
      BY <3>1 DEF Numbered
    <3> QED
      BY <3>2, <2>1, <1>7 DEF b
  <2>2. CASE k \in (Len(b) + 1)..(Len(b) + m)
    <3>1. k - Len(b) \in 1..m /\ k \in Int
      BY <2>2, <1>1, <1>4
    <3>2. new[k] = w + (k - Len(b)) - 1
      BY <3>1, <2>2, <1>6, <1>7
    <3> DEFINE d == st.bytes_read
    <3>3. d \in Nat /\ w = d + Len(b)
      BY <1>1, <1>2
    <3> HIDE DEF d
    <3>4. new[k] = d + k - 1
      BY <3>1, <3>2, <3>3, <1>1
    <3> QED
      BY <3>4 DEF d
  <2> QED
    BY <2>1, <2>2, <1>1, <1>4, <1>7
<1>9. /\ r \in StreamRecord /\ r.buffer = new /\ r.bytes_written = w + m
      /\ r.bytes_read = st.bytes_read /\ r.eof = st.eof
  <2> DEFINE x == [st EXCEPT !.buffer = new]
             v == w + m
  <2>1. v \in Nat
    BY <1>1, <1>4
  <2> HIDE DEF v
  <2>2. /\ x \in StreamRecord /\ x.buffer = new
        /\ x.bytes_read = st.bytes_read /\ x.eof = st.eof
    BY <1>7, Zenon DEF StreamRecord
  <2>3. r = [x EXCEPT !.bytes_written = v]
    BY <1>5, Zenon DEF v
  <2> HIDE DEF x
  <2> QED
    BY <2>1, <2>2, <2>3, Zenon DEF StreamRecord, v
<1>10. Len(new) <= SendCapacity /\ w + m <= StreamLen /\ w + m = st.bytes_read + Len(new)
  <2> DEFINE d == st.bytes_read
             l == Len(b)
  <2>1. d \in Nat /\ l \in Nat /\ w = d + l /\ l + m <= SendCapacity /\ Len(new) = l + m
    BY <1>1, <1>2, <1>4, <1>7
  <2>2. w + n <= StreamLen
    BY DEF w
  <2> HIDE DEF d, l
  <2>3. Len(new) <= SendCapacity /\ w + m <= StreamLen /\ w + m = d + Len(new)
    BY <2>1, <2>2, <1>1, <1>4
  <2> QED
    BY <2>3 DEF d
<1>11. Numbered(r)
  BY <1>8, <1>9, <1>10 DEF Numbered
<1> QED
  BY <1>9, <1>11 DEF r, data, w

\* The doubling of the timeout as a loop, so that Doubled exists.
Twice == INSTANCE LoopProofs WITH op <- LAMBDA p, t, k : 2 * t

\* Doubled doubles, as exponential_backoff does.
LEMMA DoubledUnfold ==
  /\ Doubled[0] = RetxTimeout
  /\ \A n \in 0..MAX_RETX_ATTEMPTS : Doubled[n + 1] = 2 * Doubled[n]
<1> DEFINE m == MAX_RETX_ATTEMPTS + 1
           seq == [k \in 1..m |-> k]
<1>1. m \in Nat /\ DOMAIN seq = 1..m /\ MAX_RETX_ATTEMPTS \in Nat
  BY Constants
<1> HIDE DEF seq
<1>2. PICK f : Twice!IsTrace(f, 0, RetxTimeout, seq, m)
  BY <1>1, Twice!FoldTrace
<1>3. f = [n \in 0..m |-> IF n = 0 THEN RetxTimeout ELSE 2 * f[n - 1]]
  BY <1>2, Zenon DEF Twice!IsTrace
<1>4. Doubled = [n \in 0..m |-> IF n = 0 THEN RetxTimeout ELSE 2 * Doubled[n - 1]]
  BY <1>3, Zenon DEF Doubled
<1> HIDE DEF m
<1>5. ASSUME NEW n \in 0..MAX_RETX_ATTEMPTS PROVE Doubled[n + 1] = 2 * Doubled[n]
  <2>1. n + 1 \in 0..m /\ n + 1 # 0 /\ (n + 1) - 1 = n
    BY <1>1 DEF m
  <2> QED
    BY <2>1, <1>4, Zenon
<1>6. 0 \in 0..m
  BY <1>1
<1> QED
  BY <1>4, <1>5, <1>6

-----------------------------------------------------------------------------
\* The sender starts with nothing written, sent or acknowledged.
LEMMA InitIInv ==
  ASSUME Init PROVE IInv
<1> DEFINE st == NewByteStream(SendCapacity)
           none == <<>>
<1>1. /\ sender = NewTCPSender(SendCapacity, RetxTimeout, Isn)
      /\ acked = 0 /\ edge = 1 /\ acks = {} /\ reordered = FALSE
  BY DEF Init
<1>2. none \in Seq(Nat) /\ none \in Seq(Segment) /\ Len(none) = 0 /\ DOMAIN none = {}
  OBVIOUS
<1>3. st = [capacity |-> SendCapacity, buffer |-> none, eof |-> FALSE,
            bytes_written |-> 0, bytes_read |-> 0, error |-> FALSE]
  BY DEF NewByteStream
<1>4. sender = [isn |-> Isn, segments_out |-> none, outstanding_segments |-> none,
        initial_retransmission_timeout |-> RetxTimeout,
        retransmission_timeout |-> RetxTimeout, stream |-> st,
        next_seqno |-> 0, window_size |-> 1, retransmission_timer_on |-> FALSE,
        retransmission_timer |-> 0, consecutive_retransmissions |-> 0,
        highest_ackno |-> -1, highest_ackno_right |-> -1, fin_sent |-> FALSE,
        window_empty |-> FALSE]
  BY <1>1 DEF NewTCPSender
<1> HIDE DEF none, st
<1>5. st \in StreamRecord /\ Numbered(st) /\ buffer_empty(st) /\ st.bytes_read = 0
  BY <1>2, <1>3, Constants DEF StreamRecord, Numbered, buffer_empty, buffer_size
<1>6. sender \in SenderRecord
  BY <1>2, <1>4, <1>5, Constants DEF SenderRecord
<1>7. /\ sender.stream = st /\ sender.next_seqno = 0 /\ ~sender.fin_sent
      /\ sender.outstanding_segments = none /\ ~sender.retransmission_timer_on
      /\ sender.consecutive_retransmissions = 0
      /\ sender.retransmission_timeout = RetxTimeout
      /\ sender.highest_ackno = -1 /\ sender.highest_ackno_right = -1
  BY <1>4
<1>8. Queue(sender.outstanding_segments, sender.next_seqno, acked, sender.fin_sent)
  BY <1>1, <1>2, <1>7 DEF Queue, none
<1>9. Good(sender, acked)
  BY <1>5, <1>6, <1>7, <1>8 DEF Good, Counted, Timed, none
<1>10. Informed(sender, acked, edge, reordered)
  <2>1. 0 <= MAX_RETX_ATTEMPTS + 1 /\ -1 <= Isn + 1 /\ ~(0 > 0)
    BY Constants
  <2> QED
    BY <1>1, <1>7, <2>1, DoubledUnfold DEF Informed
<1>11. Filled(sender, reordered)
  BY <1>5, <1>7 DEF Filled
<1>12. /\ acked \in Nat /\ edge \in Nat /\ acked <= edge /\ reordered \in BOOLEAN
       /\ acks \subseteq (1..acked) \X (0..MaxWindow)
  <2>1. 0 \in Nat /\ 1 \in Nat /\ 0 <= 1
    OBVIOUS
  <2> QED
    BY <2>1, <1>1, Zenon
<1> QED
  BY <1>9, <1>10, <1>11, <1>12 DEF IInv

\* Taking the segments out of the queue disturbs nothing.
LEMMA DrainedLemma ==
  ASSUME IInv
  PROVE  /\ Good(drained, acked) /\ Informed(drained, acked, edge, reordered)
         /\ Filled(drained, reordered) /\ drained.next_seqno = sender.next_seqno
         /\ drained.stream = sender.stream
<1> DEFINE none == <<>>
<1>1. none \in Seq(Segment)
  OBVIOUS
<1>2. drained = [sender EXCEPT !.segments_out = none]
  BY DEF drained
<1> HIDE DEF none
<1>3. sender \in SenderRecord
  BY DEF IInv, Good
<1>4. /\ drained \in SenderRecord /\ drained.next_seqno = sender.next_seqno
      /\ drained.stream = sender.stream /\ drained.fin_sent = sender.fin_sent
      /\ drained.outstanding_segments = sender.outstanding_segments
      /\ drained.retransmission_timer_on = sender.retransmission_timer_on
      /\ drained.consecutive_retransmissions = sender.consecutive_retransmissions
      /\ drained.retransmission_timeout = sender.retransmission_timeout
      /\ drained.highest_ackno = sender.highest_ackno
      /\ drained.highest_ackno_right = sender.highest_ackno_right
      /\ drained.window_size = sender.window_size
  BY <1>1, <1>2, <1>3, Zenon DEF SenderRecord
<1>5. Good(drained, acked)
  BY <1>4, Zenon DEF IInv, Good, Counted, Timed
<1>6. Informed(drained, acked, edge, reordered)
  BY <1>4, Zenon DEF IInv, Informed
<1>7. Filled(drained, reordered)
  BY <1>4, Zenon DEF IInv, Filled
<1> QED
  BY <1>4, <1>5, <1>6, <1>7

\* A step of the sender's side that ends in fill_window().
LEMMA OwnStep ==
  ASSUME NoWrap, IInv, UNCHANGED peer, NEW u, sender' = fill_window(u), Good(u, acked),
         Informed(u, acked, edge, reordered),
         ~reordered /\ u.next_seqno > 0 /\ acked = u.next_seqno => u.window_size > 0
  PROVE  IInv'
<1>1. /\ acked \in Nat /\ edge \in Nat /\ acked <= edge /\ reordered \in BOOLEAN
      /\ acks \subseteq (1..acked) \X (0..MaxWindow)
  BY DEF IInv
<1>2. acked' = acked /\ edge' = edge /\ acks' = acks /\ reordered' = reordered
  BY DEF peer
<1>3. /\ Good(sender', acked) /\ Informed(sender', acked, edge, reordered)
      /\ Filled(sender', reordered)
  BY <1>1, Refill, Zenon
<1> QED
  BY <1>1, <1>2, <1>3, Zenon DEF IInv

\* Nothing is outstanding and everything is acknowledged: then window is left.
LEMMA WindowLeft ==
  ASSUME NEW u, Good(u, acked), Filled(u, reordered),
         ~reordered, u.next_seqno > 0, acked = u.next_seqno
  PROVE  u.window_size > 0
BY DEF Good, Queue, Filled

\* The SYN is the first segment of the queue.
LEMMA ConnectStep ==
  ASSUME NoWrap, IInv, Connect PROVE IInv'
<1>1. /\ sender' = fill_window(drained) /\ UNCHANGED peer
  BY DEF Connect
<1> QED
  BY <1>1, DrainedLemma, WindowLeft, OwnStep

\* A sender whose stream has changed, before FIN.
LEMMA NewStream ==
  ASSUME IInv, NEW st \in StreamRecord, Numbered(st),
         st.bytes_read = sender.stream.bytes_read, ~input_ended(sender.stream)
  PROVE  LET u == [drained EXCEPT !.stream = st]
         IN  /\ Good(u, acked) /\ Informed(u, acked, edge, reordered)
             /\ ~reordered /\ u.next_seqno > 0 /\ acked = u.next_seqno => u.window_size > 0
<1> DEFINE u == [drained EXCEPT !.stream = st]
<1>1. /\ Good(drained, acked) /\ Informed(drained, acked, edge, reordered)
      /\ Filled(drained, reordered) /\ drained.stream = sender.stream
  BY DrainedLemma
<1>2. drained \in SenderRecord
  BY <1>1 DEF Good
<1>3. /\ u \in SenderRecord /\ u.stream = st /\ u.next_seqno = drained.next_seqno
      /\ u.fin_sent = drained.fin_sent
      /\ u.outstanding_segments = drained.outstanding_segments
      /\ u.retransmission_timer_on = drained.retransmission_timer_on
      /\ u.consecutive_retransmissions = drained.consecutive_retransmissions
      /\ u.retransmission_timeout = drained.retransmission_timeout
      /\ u.highest_ackno = drained.highest_ackno
      /\ u.highest_ackno_right = drained.highest_ackno_right
      /\ u.window_size = drained.window_size
  BY <1>2, Zenon DEF SenderRecord
<1> HIDE DEF u
<1>4. ~drained.fin_sent
  BY <1>1 DEF Good, Counted, eof, input_ended
<1>5. Good(u, acked)
  <2>1. Counted(u)
    BY <1>1, <1>3, <1>4, Zenon DEF Good, Counted
  <2> QED
    BY <1>1, <1>3, <2>1, Zenon DEF Good, Timed
<1>6. Informed(u, acked, edge, reordered)
  BY <1>1, <1>3, Zenon DEF Informed
<1>7. ~reordered /\ u.next_seqno > 0 /\ acked = u.next_seqno => u.window_size > 0
  BY <1>1, <1>3, WindowLeft
<1> QED
  BY <1>5, <1>6, <1>7 DEF u

\* Bytes written continue the stream, and are sent as far as the window goes.
LEMMA WriteStep ==
  ASSUME NoWrap, IInv, NEW n \in 1..StreamLen, Write(n) PROVE IInv'
<1> DEFINE from == sender.stream.bytes_written
           data == [k \in 1..n |-> from + k - 1]
           st == write(sender.stream, data)
           u == [drained EXCEPT !.stream = st]
<1>1. sender.stream \in StreamRecord /\ Numbered(sender.stream) /\ n \in Nat
  BY DEF IInv, Good, SenderRecord
<1>2. /\ ~input_ended(sender.stream) /\ from + n <= StreamLen /\ UNCHANGED peer
      /\ sender' = fill_window([drained EXCEPT !.stream = write(drained.stream, data)])
  BY Zenon DEF Write
<1>3. sender' = fill_window(u)
  BY <1>2, DrainedLemma, Zenon
<1>4. st \in StreamRecord /\ Numbered(st) /\ st.bytes_read = sender.stream.bytes_read
  BY <1>1, <1>2, WriteLemma
<1> HIDE DEF st
<1>5. /\ Good(u, acked) /\ Informed(u, acked, edge, reordered)
      /\ ~reordered /\ u.next_seqno > 0 /\ acked = u.next_seqno => u.window_size > 0
  BY <1>2, <1>4, NewStream
<1> HIDE DEF u
<1> QED
  BY <1>2, <1>3, <1>5, OwnStep, Zenon

\* The end of the input lets FIN out if the window has room for it.
LEMMA EndInputStep ==
  ASSUME NoWrap, IInv, EndInput PROVE IInv'
<1> DEFINE st == end_input(sender.stream)
           u == [drained EXCEPT !.stream = st]
<1>1. sender.stream \in StreamRecord /\ Numbered(sender.stream)
  BY DEF IInv, Good, SenderRecord
<1>2. /\ ~input_ended(sender.stream) /\ UNCHANGED peer
      /\ sender' = fill_window([drained EXCEPT !.stream = end_input(drained.stream)])
  BY Zenon DEF EndInput
<1>3. sender' = fill_window(u)
  BY <1>2, DrainedLemma, Zenon
<1>4. st \in StreamRecord /\ Numbered(st) /\ st.bytes_read = sender.stream.bytes_read
  <2> DEFINE old == sender.stream
  <2>1. old \in StreamRecord /\ Numbered(old) /\ st = [old EXCEPT !.eof = TRUE]
    BY <1>1 DEF end_input
  <2> HIDE DEF st, old
  <2>2. /\ st \in StreamRecord /\ st.bytes_read = old.bytes_read
        /\ st.buffer = old.buffer /\ st.bytes_written = old.bytes_written
    BY <2>1, Zenon DEF StreamRecord
  <2> QED
    BY <2>1, <2>2 DEF Numbered, old
<1> HIDE DEF st
<1>5. /\ Good(u, acked) /\ Informed(u, acked, edge, reordered)
      /\ ~reordered /\ u.next_seqno > 0 /\ acked = u.next_seqno => u.window_size > 0
  BY <1>2, <1>4, NewStream
<1> HIDE DEF u
<1> QED
  BY <1>2, <1>3, <1>5, OwnStep, Zenon

\* ack_received() of a sequence number that was sent.
LEMMA AckReceivedLemma ==
  ASSUME NoWrap, NEW s, NEW ack \in Nat, Good(s, ack),
         NEW a \in Nat, a <= s.next_seqno, NEW w,
         s.highest_ackno = (IF ack = 0 THEN -1 ELSE Isn + ack)
  PROVE  LET t == ack_received(s, wrap(a, Isn), w)
         IN  /\ a < ack => t = s
             /\ ack <= a => t = fill_window(updated(s, Isn + a, w))
<1>1. s.next_seqno \in Nat /\ s.next_seqno <= StreamLen + 2 /\ s.isn = Isn /\ Isn \in Nat
  BY NextBound, Constants, Zenon DEF Good, SenderRecord
<1>2. a <= StreamLen + 2
  BY <1>1, Constants
<1>3. wrap(a, Isn) = Isn + a /\ wrap(s.next_seqno, s.isn) = Isn + s.next_seqno
  BY <1>1, <1>2, WrapSmall
<1>4. ~(Isn + a > Isn + s.next_seqno)
  BY <1>1
<1>5. a < ack <=> Isn + a < s.highest_ackno
  BY <1>1
<1>6. a < ack => ack_received(s, wrap(a, Isn), w) = s
  BY <1>3, <1>5, Zenon DEF ack_received
<1>7. ack <= a => ~(Isn + a < s.highest_ackno)
  BY <1>1
<1>8. ack <= a => ack_received(s, wrap(a, Isn), w) = fill_window(updated(s, Isn + a, w))
  BY <1>3, <1>4, <1>7, Zenon DEF ack_received, updated, acknowledged
<1> QED
  BY <1>6, <1>8

\* What an acknowledgment tells the sender.
LEMMA InformedLemma ==
  ASSUME NoWrap, NEW s, NEW ack \in Nat, NEW right \in Nat, NEW late \in BOOLEAN,
         Good(s, ack), Informed(s, ack, right, late),
         NEW a \in Nat, ack <= a, 1 <= a, a <= s.next_seqno, NEW w \in 0..MaxWindow,
         right <= a + w
  PROVE  LET u == updated(s, Isn + a, w)
         IN  /\ Good(u, a) /\ Informed(u, a, a + w, late)
             /\ ~late /\ u.next_seqno > 0 /\ a = u.next_seqno => u.window_size > 0
<1> DEFINE u == updated(s, Isn + a, w)
<1>1. /\ Isn \in Nat /\ w \in Nat /\ s.next_seqno \in Nat /\ s.window_size \in Nat
      /\ s.highest_ackno_right \in Int /\ s.highest_ackno = (IF ack = 0 THEN -1 ELSE Isn + ack)
      /\ MAX_RETX_ATTEMPTS \in Nat
  BY Constants DEF Good, SenderRecord, Informed
<1>2. /\ Good(u, a) /\ u.highest_ackno = Isn + a
      /\ u.stream = s.stream /\ u.next_seqno = s.next_seqno
      /\ \/ /\ u.retransmission_timeout = s.retransmission_timeout
            /\ u.consecutive_retransmissions = s.consecutive_retransmissions
         \/ /\ u.retransmission_timeout = RetxTimeout
            /\ u.consecutive_retransmissions = 0
      /\ \/ w = 0 /\ u.window_size = 1 /\ u.highest_ackno_right = s.highest_ackno_right
         \/ /\ w > 0 /\ u.window_size = w /\ u.highest_ackno_right = Isn + a + w
         \/ /\ w > 0 /\ Isn + a + w <= s.highest_ackno_right
            /\ u.window_size = s.window_size
            /\ u.highest_ackno_right = s.highest_ackno_right
  BY <1>1, UpdatedLemma, SMTT(20)
<1> HIDE DEF u
<1>3. /\ u.consecutive_retransmissions <= MAX_RETX_ATTEMPTS + 1
      /\ u.retransmission_timeout = Doubled[u.consecutive_retransmissions]
  <2>1. /\ s.consecutive_retransmissions <= MAX_RETX_ATTEMPTS + 1
        /\ s.retransmission_timeout = Doubled[s.consecutive_retransmissions]
    BY DEF Informed
  <2>2. 0 <= MAX_RETX_ATTEMPTS + 1 /\ Doubled[0] = RetxTimeout
    BY <1>1, DoubledUnfold
  <2> QED
    BY <1>2, <2>1, <2>2, Zenon
<1>4. a # 0 /\ u.highest_ackno = (IF a = 0 THEN -1 ELSE Isn + a)
  BY <1>2
<1>5. /\ ack = 0 => s.highest_ackno_right = -1
      /\ ~late => s.highest_ackno_right <= Isn + right
      /\ ~late /\ ack > 0 => s.next_seqno + s.window_size >= right
  BY DEF Informed
<1>6. ASSUME ~late
      PROVE  /\ u.highest_ackno_right <= Isn + (a + w)
             /\ u.next_seqno + u.window_size >= a + w
             /\ a = u.next_seqno => u.window_size > 0
  <2>1. CASE w = 0 /\ u.window_size = 1 /\ u.highest_ackno_right = s.highest_ackno_right
    BY <1>1, <1>2, <1>5, <1>6, <2>1
  <2>2. CASE w > 0 /\ u.window_size = w /\ u.highest_ackno_right = Isn + a + w
    BY <1>1, <1>2, <2>2
  <2>3. CASE /\ w > 0 /\ Isn + a + w <= s.highest_ackno_right
             /\ u.window_size = s.window_size
             /\ u.highest_ackno_right = s.highest_ackno_right
    <3>1. ack > 0
      BY <1>1, <1>5, <2>3
    <3>2. a + w = right
      BY <1>1, <1>5, <1>6, <2>3
    <3>3. s.next_seqno + s.window_size >= a + w
      BY <1>5, <1>6, <3>1, <3>2
    <3>4. u.highest_ackno_right <= Isn + (a + w)
      BY <1>5, <1>6, <2>3, <3>2
    <3> QED
      BY <1>1, <1>2, <2>3, <3>3, <3>4
  <2> QED
    BY <1>2, <2>1, <2>2, <2>3
<1>7. Informed(u, a, a + w, late)
  BY <1>3, <1>4, <1>6, Zenon DEF Informed
<1> QED
  BY <1>2, <1>6, <1>7 DEF u

\* An acknowledgment in order removes the segments it covers and sets the window.
LEMMA AckStep ==
  ASSUME NoWrap, IInv, NEW a \in 1..(StreamLen + 2), NEW w \in 0..MaxWindow, Ack(a, w)
  PROVE  IInv'
<1> DEFINE u == updated(drained, Isn + a, w)
<1>1. /\ acked \in Nat /\ edge \in Nat /\ reordered \in BOOLEAN
      /\ acks \subseteq (1..acked) \X (0..MaxWindow)
  BY DEF IInv
<1>2. /\ acked <= a /\ a <= sender.next_seqno /\ edge <= a + w
      /\ sender' = ack_received(drained, wrap(a, Isn), w)
      /\ acked' = a /\ edge' = a + w /\ acks' = acks \cup {<<a, w>>}
      /\ reordered' = reordered
  BY DEF Ack, AckReceived
<1>3. a \in Nat /\ 1 <= a /\ w \in Nat /\ a + w \in Nat /\ a <= a + w
  BY Constants
<1>4. /\ Good(drained, acked) /\ Informed(drained, acked, edge, reordered)
      /\ a <= drained.next_seqno
      /\ drained.highest_ackno = (IF acked = 0 THEN -1 ELSE Isn + acked)
  BY <1>2, DrainedLemma DEF Informed
<1>5. sender' = fill_window(u)
  BY <1>1, <1>2, <1>3, <1>4, AckReceivedLemma
<1>6. /\ Good(u, a) /\ Informed(u, a, a + w, reordered)
      /\ ~reordered /\ u.next_seqno > 0 /\ a = u.next_seqno => u.window_size > 0
  BY <1>1, <1>2, <1>3, <1>4, InformedLemma
<1> HIDE DEF u
<1>7. /\ Good(sender', a) /\ Informed(sender', a, a + w, reordered)
      /\ Filled(sender', reordered)
  BY <1>1, <1>3, <1>5, <1>6, Refill, Zenon
<1>8. acks' \subseteq (1..a) \X (0..MaxWindow)
  <2>1. \A x \in 1..acked : x \in 1..a
    BY <1>1, <1>2, <1>3
  <2>2. a \in 1..a
    BY <1>3
  <2> QED
    BY <1>1, <1>2, <2>1, <2>2
<1> QED
  BY <1>1, <1>2, <1>3, <1>7, <1>8, Zenon DEF IInv

\* One that was overtaken leaves the queue alone, but may set the window.
LEMMA StaleAckStep ==
  ASSUME NoWrap, IInv, StaleAck PROVE IInv'
<1>1. PICK ack \in acks : /\ sender' = ack_received(drained, wrap(ack[1], Isn), ack[2])
                          /\ reordered' = TRUE /\ UNCHANGED <<acked, edge, acks>>
  BY DEF StaleAck, AckReceived
<1> DEFINE a == ack[1]
           w == ack[2]
           u == updated(drained, Isn + a, w)
<1>2. /\ acked \in Nat /\ edge \in Nat /\ acked <= edge
      /\ acks \subseteq (1..acked) \X (0..MaxWindow)
  BY DEF IInv
<1>3. a \in 1..acked /\ w \in 0..MaxWindow
  BY <1>2
<1> HIDE DEF a, w
<1>4. a \in Nat /\ 1 <= a /\ a <= acked /\ w \in Nat
  BY <1>2, <1>3, Constants
<1>5. /\ Good(drained, acked) /\ Filled(drained, reordered)
      /\ Informed(drained, acked, edge, reordered)
      /\ drained.highest_ackno = (IF acked = 0 THEN -1 ELSE Isn + acked)
  BY DrainedLemma DEF Informed
<1>6. acked <= drained.next_seqno /\ drained.next_seqno \in Nat
  <2> DEFINE o == drained.outstanding_segments
             m == drained.next_seqno
             f == drained.fin_sent
  <2>1. o \in Seq(Segment) /\ m \in Nat /\ Queue(o, m, acked, f)
    BY <1>5 DEF Good, SenderRecord
  <2> HIDE DEF o, m, f
  <2>2. acked <= m
    BY <2>1, <1>2, AckBound, Zenon
  <2> QED
    BY <2>1, <2>2 DEF m
<1>7. a <= drained.next_seqno
  BY <1>2, <1>4, <1>6
<1>8. /\ a < acked => sender' = drained
      /\ acked <= a => sender' = fill_window(u)
  BY <1>1, <1>2, <1>4, <1>5, <1>7, AckReceivedLemma DEF a, w
<1>9. Informed(drained, acked, edge, TRUE) /\ Filled(drained, TRUE)
  BY <1>5 DEF Informed, Filled
<1>10. /\ Good(sender', acked) /\ Informed(sender', acked, edge, TRUE)
       /\ Filled(sender', TRUE)
  <2>1. CASE a < acked
    BY <1>5, <1>8, <1>9, <2>1, Zenon
  <2>2. CASE acked <= a
    <3>1. a = acked
      BY <1>2, <1>4, <2>2
    <3>2. Good(u, a) /\ Informed(u, a, a + w, TRUE)
      <4>1. Informed(drained, acked, 0, TRUE) /\ 0 <= a + w
        BY <1>4, <1>9 DEF Informed
      <4> QED
        BY <4>1, <1>2, <1>3, <1>4, <1>5, <1>7, <2>2, InformedLemma, Zenon
    <3>3. Informed(u, a, edge, TRUE)
      BY <3>2 DEF Informed
    <3> HIDE DEF u
    <3>4. /\ Good(fill_window(u), a) /\ Informed(fill_window(u), a, edge, TRUE)
          /\ Filled(fill_window(u), TRUE)
      BY <1>2, <1>4, <3>2, <3>3, Refill, Zenon
    <3> QED
      BY <1>8, <2>2, <3>1, <3>4, Zenon
  <2>3. a < acked \/ acked <= a
    BY <1>2, <1>4
  <2> QED
    BY <2>1, <2>2, <2>3, Zenon
<1> QED
  BY <1>1, <1>2, <1>10, Zenon DEF IInv

\* A tick sends nothing new: it counts, or sends the first segment again.
LEMMA TickStep ==
  ASSUME NoWrap, IInv, NEW ms \in 1..MaxMs, Tick(ms) PROVE IInv'
<1> DEFINE s == drained
           on == s.retransmission_timer_on
           count == s.retransmission_timer + ms
           t == [s EXCEPT !.retransmission_timer = count]
           expired == t.retransmission_timer >= t.retransmission_timeout
                        /\ t.outstanding_segments # <<>>
           kept(x) == /\ x \in SenderRecord /\ x.next_seqno = s.next_seqno
                      /\ x.stream = s.stream /\ x.fin_sent = s.fin_sent
                      /\ x.outstanding_segments = s.outstanding_segments
                      /\ x.retransmission_timer_on = s.retransmission_timer_on
                      /\ x.highest_ackno = s.highest_ackno
                      /\ x.highest_ackno_right = s.highest_ackno_right
                      /\ x.window_size = s.window_size
           counted(x) ==
             /\ x.consecutive_retransmissions <= MAX_RETX_ATTEMPTS + 1
             /\ x.retransmission_timeout = Doubled[x.consecutive_retransmissions]
<1>1. /\ Good(s, acked) /\ Informed(s, acked, edge, reordered) /\ Filled(s, reordered)
  BY DrainedLemma
<1>2. /\ s \in SenderRecord /\ s.retransmission_timer \in Nat /\ MaxMs \in Nat
      /\ s.consecutive_retransmissions \in Nat /\ MAX_RETX_ATTEMPTS \in Nat
      /\ s.retransmission_timeout \in Nat /\ s.outstanding_segments \in Seq(Segment)
      /\ s.segments_out \in Seq(Segment)
  BY <1>1, Constants DEF Good, SenderRecord
<1>3. kept(s) /\ counted(s)
  BY <1>1, <1>2, Zenon DEF Informed
<1>4. sender' = tick(s, ms) /\ UNCHANGED peer
  BY DEF Tick
<1>5. tick(s, ms) = IF ~on \/ s.consecutive_retransmissions > MAX_RETX_ATTEMPTS THEN s
                    ELSE IF expired THEN retransmit(t) ELSE t
  BY Zenon DEF tick
<1>6. count \in Nat
  BY <1>2
<1> HIDE DEF s, count
<1>7. /\ kept(t) /\ counted(t) /\ t.window_empty = s.window_empty
      /\ t.consecutive_retransmissions = s.consecutive_retransmissions
      /\ t.retransmission_timeout = s.retransmission_timeout
      /\ t.segments_out = s.segments_out
  BY <1>2, <1>3, <1>6, Zenon DEF SenderRecord
<1> HIDE DEF t
<1>8. ASSUME expired, ~(s.consecutive_retransmissions > MAX_RETX_ATTEMPTS)
      PROVE  kept(retransmit(t)) /\ counted(retransmit(t))
  <2> DEFINE c == t.consecutive_retransmissions
             d == t.retransmission_timeout
             out == Append(t.segments_out, t.outstanding_segments[1])
             x1 == [t EXCEPT !.segments_out = out]
             x2 == [x1 EXCEPT !.retransmission_timer = 0]
             x3 == [x2 EXCEPT !.consecutive_retransmissions = c + 1]
             x4 == [x3 EXCEPT !.retransmission_timeout = 2 * d]
  <2>1. c \in 0..MAX_RETX_ATTEMPTS /\ d \in Nat /\ d = Doubled[c]
    BY <1>2, <1>7, <1>8
  <2>2. out \in Seq(Segment)
    <3> DEFINE o == t.outstanding_segments
    <3>1. o \in Seq(Segment) /\ o # <<>> /\ t.segments_out \in Seq(Segment)
      BY <1>2, <1>7, <1>8
    <3> HIDE DEF o
    <3>2. 1 \in DOMAIN o /\ o[1] \in Segment
      BY <3>1, ElementOfSeq
    <3> QED
      BY <3>1, <3>2 DEF o
  <2> HIDE DEF out
  <2>3. kept(x1) /\ x1.consecutive_retransmissions = c /\ x1.retransmission_timeout = d
    BY <2>2, <1>7, Zenon DEF SenderRecord
  <2> HIDE DEF x1, c, d
  <2>4. kept(x2) /\ x2.consecutive_retransmissions = c /\ x2.retransmission_timeout = d
    <3>1. 0 \in Nat
      OBVIOUS
    <3> QED
      BY <2>3, <3>1, Zenon DEF SenderRecord
  <2>5. retransmit(t) = IF t.window_empty THEN x2 ELSE x4
    <3> DEFINE y == [t EXCEPT !.segments_out = out, !.retransmission_timer = 0]
    <3>1. y = x2
      BY DEF x1
    <3>2. retransmit(t) = IF t.window_empty THEN y
                          ELSE [y EXCEPT !.consecutive_retransmissions = @ + 1,
                                         !.retransmission_timeout = 2 * @]
      BY Zenon DEF retransmit, out
    <3> HIDE DEF y
    <3>3. [x2 EXCEPT !.consecutive_retransmissions = x2.consecutive_retransmissions + 1,
                     !.retransmission_timeout = 2 * x2.retransmission_timeout] = x4
      <4> HIDE DEF x2
      <4> QED
        BY <2>4
    <3> HIDE DEF x2, x4
    <3> QED
      BY <3>1, <3>2, <3>3, Zenon
  <2> HIDE DEF x2
  <2>6. c + 1 \in Nat /\ 2 * d \in Nat /\ c + 1 <= MAX_RETX_ATTEMPTS + 1
    BY <2>1, <1>2
  <2>7. 2 * d = Doubled[c + 1]
    BY <2>1, DoubledUnfold
  <2>8. kept(x3) /\ x3.consecutive_retransmissions = c + 1
    BY <2>4, <2>6, Zenon DEF SenderRecord
  <2> HIDE DEF x3
  <2>9. kept(x4) /\ x4.consecutive_retransmissions = c + 1 /\ x4.retransmission_timeout = 2 * d
    BY <2>6, <2>8, Zenon DEF SenderRecord
  <2> HIDE DEF x4
  <2>10. counted(x2)
    BY <2>1, <2>4, <1>2
  <2>11. counted(x4)
    BY <2>6, <2>7, <2>9
  <2> HIDE DEF kept, counted
  <2> QED
    BY <2>4, <2>5, <2>9, <2>10, <2>11, Zenon
<1>9. kept(sender') /\ counted(sender')
  <2> HIDE DEF kept, counted, expired
  <2> QED
    BY <1>3, <1>4, <1>5, <1>7, <1>8, Zenon DEF s
<1> DEFINE x == sender'
<1>10. /\ x \in SenderRecord /\ x.next_seqno = s.next_seqno
       /\ x.stream = s.stream /\ x.fin_sent = s.fin_sent
       /\ x.outstanding_segments = s.outstanding_segments
       /\ x.retransmission_timer_on = s.retransmission_timer_on
       /\ x.highest_ackno = s.highest_ackno
       /\ x.highest_ackno_right = s.highest_ackno_right
       /\ x.window_size = s.window_size
       /\ x.consecutive_retransmissions <= MAX_RETX_ATTEMPTS + 1
       /\ x.retransmission_timeout = Doubled[x.consecutive_retransmissions]
  BY <1>9
<1> HIDE DEF x
<1>11. /\ Good(x, acked) /\ Informed(x, acked, edge, reordered) /\ Filled(x, reordered)
  <2>1. Good(x, acked)
    BY <1>1, <1>10, Zenon DEF Good, Counted, Timed
  <2>2. Informed(x, acked, edge, reordered)
    BY <1>1, <1>10, Zenon DEF Informed
  <2>3. Filled(x, reordered)
    BY <1>1, <1>10, Zenon DEF Filled
  <2> QED
    BY <2>1, <2>2, <2>3
<1>12. acked' = acked /\ edge' = edge /\ acks' = acks /\ reordered' = reordered
  BY <1>4 DEF peer
<1> QED
  BY <1>11, <1>12, Zenon DEF IInv, x

\* Every step preserves the inductive invariant.
LEMMA NextIInv ==
  ASSUME NoWrap, IInv, [Next]_vars PROVE IInv'
<1>1. CASE Connect
  BY <1>1, ConnectStep
<1>2. CASE \E n \in 1..StreamLen : Write(n)
  BY <1>2, WriteStep
<1>3. CASE EndInput
  BY <1>3, EndInputStep
<1>4. CASE \E a \in 1..(StreamLen + 2), w \in 0..MaxWindow : Ack(a, w)
  BY <1>4, AckStep
<1>5. CASE StaleAck
  BY <1>5, StaleAckStep
<1>6. CASE \E ms \in 1..MaxMs : Tick(ms)
  BY <1>6, TickStep
<1>7. CASE UNCHANGED vars
  BY <1>7, Zenon DEF vars, IInv
<1> QED
  BY <1>1, <1>2, <1>3, <1>4, <1>5, <1>6, <1>7 DEF Next

-----------------------------------------------------------------------------
\* The lengths of a queue's segments, added up.
Lengths == INSTANCE LoopProofs WITH op <- LAMBDA p, n, seg : add_length(n, seg)

\* The lengths of the segments from the k-th on add up to what is between its
\* sequence number and the next one to be sent.
LEMMA SumLemma ==
  ASSUME NEW list \in Seq(Segment), NEW next \in Nat, NEW ack, NEW fin,
         Queue(list, next, ack, fin), NEW k \in DOMAIN list
  PROVE  Iterate(add_length, 0, SubSeq(list, k, Len(list))) = Isn + next - list[k].seqno
<1> DEFINE len == Len(list)
           q == SubSeq(list, k, len)
           m == len - k + 1
           first == list[k].seqno
           X == [j \in 0..m |-> {IF j = 0 THEN 0 ELSE End(list[k + j - 1]) - first}]
<1>1. len \in Nat /\ DOMAIN list = 1..len /\ k \in 1..len /\ Isn \in Nat
  BY Constants
<1>2. \A j \in 1..len : /\ list[j] \in Segment /\ list[j].seqno \in Nat
                        /\ End(list[j]) = list[j].seqno + length_in_sequence_space(list[j])
                        /\ length_in_sequence_space(list[j]) \in Nat
  BY <1>1, ElementOfSeq, LengthIsNat DEF End
<1>3. \A j \in 1..len : End(list[j]) = IF j = len THEN Isn + next ELSE list[j + 1].seqno
  BY <1>1, Zenon DEF Queue
<1>4. m \in Nat \ {0} /\ k + m - 1 = len /\ first \in Nat
  BY <1>1, <1>2
<1>5. DOMAIN q = 1..m /\ \A j \in 1..m : q[j] = list[k + j - 1]
  <2> HIDE DEF len
  <2>1. Len(q) = m
    BY <1>1 DEF len
  <2>2. \A j \in 1..m : q[j] = list[k + j - 1]
    BY <1>1 DEF len
  <2>3. q \in Seq(Segment)
    <3>1. \A i \in k..len : list[i] \in Segment
      BY <1>1, <1>2
    <3>2. k \in Int /\ len \in Int
      BY <1>1
    <3> QED
      BY <3>1, <3>2, SubSeqProperties
  <2> HIDE DEF q, m
  <2> QED
    BY <2>1, <2>2, <2>3
<1> HIDE DEF len, q, first
<1>6. 0 \in X[0]
  BY <1>4
<1>7. ASSUME NEW j \in 1..m, NEW x \in X[j - 1] PROVE add_length(x, q[j]) \in X[j]
  <2> DEFINE i == k + j - 1
             length == length_in_sequence_space(list[i])
             start == list[i].seqno
             end == End(list[i])
  <2>1. i \in 1..len /\ j \in 0..m /\ j - 1 \in 0..m /\ j # 0 /\ j \in Int
    BY <1>1, <1>4
  <2>2. length \in Nat /\ start \in Nat /\ end = start + length /\ q[j] = list[i]
    BY <1>2, <1>5, <2>1
  <2>3. x = start - first
    <3>1. CASE j = 1
      <4>1. i = k /\ x = 0
        BY <3>1, <1>1, <2>1
      <4>2. start = first
        BY <4>1 DEF first
      <4> QED
        BY <4>1, <4>2, <1>4
    <3>2. CASE j # 1
      <4>1. j - 1 # 0 /\ k + (j - 1) - 1 = i - 1 /\ i - 1 \in 1..len /\ i - 1 # len
            /\ (i - 1) + 1 = i
        BY <3>2, <1>1, <1>4, <2>1
      <4>2. End(list[i - 1]) = start
        BY <4>1, <1>3
      <4>3. x = End(list[i - 1]) - first
        BY <4>1, <2>1
      <4> QED
        BY <4>2, <4>3
    <3> QED
      BY <3>1, <3>2
  <2>4. add_length(x, q[j]) = x + length
    BY <2>2 DEF add_length
  <2>5. X[j] = {end - first}
    BY <2>1
  <2> HIDE DEF length, start, end, X, i
  <2> QED
    BY <2>2, <2>3, <2>4, <2>5, <1>4
<1>8. Iterate(add_length, 0, q) = Lengths!Folded(0, 0, q)
  BY DEF Iterate, Lengths!Folded, MapThenFoldSet, Lengths!MapThenFoldSet, Lengths!Max
<1>9. X[m] = {Isn + next - first}
  <2>1. m \in 0..m /\ m # 0 /\ len \in 1..len
    BY <1>1, <1>4
  <2>2. End(list[len]) = Isn + next
    BY <2>1, <1>3
  <2>3. X[m] = {End(list[k + m - 1]) - first}
    BY <2>1
  <2>4. End(list[k + m - 1]) = Isn + next
    BY <2>2, <1>4
  <2> HIDE DEF X, m
  <2>5. End(list[k + m - 1]) - first = Isn + next - first
    <3> DEFINE end == End(list[k + m - 1])
    <3>1. end = Isn + next /\ end \in Int /\ first \in Int
      BY <2>4, <1>1, <1>4
    <3> HIDE DEF end
    <3>2. end - first = Isn + next - first
      BY <3>1, <1>1
    <3> QED
      BY <3>2 DEF end
  <2> QED
    BY <2>3, <2>5
<1> HIDE DEF X, m
<1>10. Lengths!Folded(0, 0, q) \in X[m]
  <2>1. m \in Nat /\ DOMAIN q = 1..m
    BY <1>4, <1>5
  <2> QED
    BY <2>1, <1>6, <1>7, Lengths!FoldInvariant, Zenon
<1> QED
  BY <1>8, <1>9, <1>10 DEF q, len, first

\* Every outstanding segment begins where the lengths say.
LEMMA StartLemma ==
  ASSUME IInv, NEW k \in DOMAIN outstanding
  PROVE  Start(k) = outstanding[k].seqno - Isn /\ Start(k) \in Nat
<1> DEFINE next == sender.next_seqno
<1>1. /\ outstanding \in Seq(Segment) /\ next \in Nat
      /\ Queue(outstanding, next, acked, sender.fin_sent)
  BY DEF IInv, Good, SenderRecord, outstanding
<1>2. Iterate(add_length, 0, SubSeq(outstanding, k, Len(outstanding)))
        = Isn + next - outstanding[k].seqno
  BY <1>1, SumLemma
<1>3. outstanding[k] \in Segment
  BY <1>1, ElementOfSeq
<1>4. outstanding[k].seqno \in Nat /\ Isn \in Nat /\ outstanding[k].seqno >= Isn
  BY <1>1, <1>3, LengthIsNat, Constants DEF Queue, InPlace
<1>5. Start(k) = next - (Isn + next - outstanding[k].seqno)
  BY <1>2 DEF Start
<1> HIDE DEF next
<1> QED
  BY <1>1, <1>4, <1>5

\* The inductive invariant holds.
LEMMA Invariance ==
  ASSUME NoWrap PROVE Spec => []IInv
<1>1. Init => IInv
  BY InitIInv
<1>2. IInv /\ [Next]_vars => IInv'
  BY NextIInv
<1> QED
  BY <1>1, <1>2, PTL DEF Spec

\* The inductive invariant says what is outstanding.
LEMMA OutstandingLemma ==
  ASSUME NoWrap, IInv PROVE OutstandingIsUnacknowledged
<1> DEFINE o == outstanding
           next == sender.next_seqno
<1>1. /\ o \in Seq(Segment) /\ next \in Nat /\ Counted(sender)
      /\ Queue(o, next, acked, sender.fin_sent) /\ Good(sender, acked)
      /\ acked \in Nat /\ Isn \in Nat
  BY Constants DEF IInv, Good, SenderRecord, outstanding
<1>2. \A k \in DOMAIN o : /\ Start(k) = o[k].seqno - Isn /\ Start(k) \in Nat
                          /\ o[k] \in Segment /\ o[k].seqno \in Nat
  BY <1>1, StartLemma, ElementOfSeq, LengthIsNat
<1>3. /\ next > 0 => next = 1 + sender.stream.bytes_read + (IF sender.fin_sent THEN 1 ELSE 0)
      /\ sender.fin_sent => eof(sender.stream)
  BY <1>1 DEF Counted
<1>4. o = <<>> <=> acked = next
  BY <1>1, Zenon DEF Queue
<1>5. ASSUME o # <<>>
      PROVE  Start(1) <= acked /\ acked < Start(1) + length_in_sequence_space(o[1])
  <2>1. 1 \in DOMAIN o
    BY <1>1, <1>5
  <2>2. o[1].seqno <= Isn + acked /\ Isn + acked < End(o[1])
    BY <1>1, <1>5, Zenon DEF Queue
  <2>3. length_in_sequence_space(o[1]) \in Nat
    BY <1>2, <2>1, LengthIsNat
  <2>4. Start(1) = o[1].seqno - Isn /\ o[1].seqno \in Nat
    BY <1>2, <2>1
  <2> DEFINE start == o[1].seqno
             length == length_in_sequence_space(o[1])
  <2>5. /\ start \in Nat /\ length \in Nat /\ Start(1) = start - Isn
        /\ start <= Isn + acked /\ Isn + acked < start + length
    BY <2>2, <2>3, <2>4 DEF End
  <2> HIDE DEF start, length, o
  <2>6. Start(1) <= acked /\ acked < Start(1) + length
    BY <2>5, <1>1
  <2> QED
    BY <2>6 DEF length
<1>6. ASSUME NEW k \in DOMAIN o
      PROVE  /\ o[k].seqno = wrap(Start(k), Isn)
             /\ o[k].syn <=> Start(k) = 0
             /\ o[k].fin <=> k = Len(o) /\ sender.fin_sent
             /\ \A j \in DOMAIN o[k].payload : o[k].payload[j] = Start(k) + j - 2
  <2> DEFINE seg == o[k]
  <2>1. /\ Start(k) = seg.seqno - Isn /\ Start(k) \in Nat /\ seg \in Segment
        /\ seg.seqno \in Nat
    BY <1>2
  <2>2. InPlace(seg) /\ (seg.fin <=> k = Len(o) /\ sender.fin_sent)
    BY <1>1, Zenon DEF Queue
  <2>3. seg.seqno < Isn + next
    BY <1>1, EndsBefore
  <2>4. next <= StreamLen + 2 /\ StreamLen \in Nat
    BY <1>1, NextBound, Constants
  <2> HIDE DEF seg
  <2>5. Start(k) <= StreamLen + 2 /\ seg.seqno = Isn + Start(k)
    BY <1>1, <2>1, <2>3, <2>4
  <2>6. wrap(Start(k), Isn) = Isn + Start(k)
    BY <2>1, <2>5, WrapSmall
  <2>7. seg.syn <=> Start(k) = 0
    BY <1>1, <2>1, <2>2 DEF InPlace
  <2>8. ASSUME NEW j \in DOMAIN seg.payload PROVE seg.payload[j] = Start(k) + j - 2
    BY <2>1, <2>2 DEF InPlace
  <2> QED
    BY <2>2, <2>5, <2>6, <2>7, <2>8 DEF seg
<1> QED
  BY <1>3, <1>4, <1>5, <1>6, Zenon DEF OutstandingIsUnacknowledged

(***************************************************************************)
(* Whatever is acknowledged, late or in order, with any window, and        *)
(* however often the timer expires: every sequence number sent and not     *)
(* acknowledged is in the retransmission queue, once, with its own bytes.  *)
(***************************************************************************)
THEOREM SenderKeepsUnacknowledged ==
  ASSUME NoWrap PROVE Spec => []OutstandingIsUnacknowledged
<1>1. IInv => OutstandingIsUnacknowledged
  BY OutstandingLemma
<1> QED
  BY <1>1, Invariance, PTL

\* The retransmission timer runs exactly while something is outstanding, and
\* the timeout backs off by doubling, at most MAX_RETX_ATTEMPTS + 1 times.
THEOREM TimerRunsWhileOutstanding ==
  ASSUME NoWrap PROVE Spec => []RetransmissionTimer
<1>1. IInv => RetransmissionTimer
  BY DEF IInv, Good, Timed, Informed, RetransmissionTimer, outstanding
<1> QED
  BY <1>1, Invariance, PTL

\* With acknowledgments in order the sender never falls silent with bytes or
\* FIN left to send.
THEOREM SenderNeverStalls ==
  ASSUME NoWrap PROVE Spec => []NoSilentStall
<1>1. IInv => NoSilentStall
  BY DEF IInv, Filled, NoSilentStall, outstanding
<1> QED
  BY <1>1, Invariance, PTL

\* With acknowledgments in order and bytes left, fill_window() has used the
\* whole window the peer advertised.
THEOREM WindowIsFilled ==
  ASSUME NoWrap PROVE Spec => []WindowFilledInOrder
<1>1. IInv => WindowFilledInOrder
  <2> SUFFICES ASSUME IInv, ~reordered, acked > 0, ~buffer_empty(sender.stream)
               PROVE  sender.next_seqno >= edge
    BY DEF WindowFilledInOrder
  <2>1. sender.window_size = 0 /\ sender.next_seqno + sender.window_size >= edge
    BY DEF IInv, Filled, Informed
  <2>2. sender.next_seqno \in Nat /\ edge \in Nat
    BY DEF IInv, Good, SenderRecord
  <2> QED
    BY <2>1, <2>2
<1> QED
  BY <1>1, Invariance, PTL
=============================================================================
