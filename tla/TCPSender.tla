------------------------------ MODULE TCPSender ------------------------------
(***************************************************************************)
(* The TCPSender class (libsponge/tcp_sender.hh, tcp_sender.cc): cuts the  *)
(* outbound stream into segments, keeps those that are not acknowledged    *)
(* and retransmits the first of them when the timer expires.               *)
(*                                                                         *)
(* Sequence numbers and acknos are raw 32-bit values, compared as such, as *)
(* in the code; _next_seqno is absolute.  A segment is a record with the   *)
(* fields seqno, syn, fin and payload.                                     *)
(***************************************************************************)
EXTENDS ByteStream, WrappingIntegers, FiniteSetsExt, Loops

CONSTANTS MAX_PAYLOAD_SIZE, MAX_RETX_ATTEMPTS      \* of TCPConfig

ASSUME TCPConfigAssumption ==
  MAX_PAYLOAD_SIZE \in Nat \ {0} /\ MAX_RETX_ATTEMPTS \in Nat

NewTCPSender(capacity, retx_timeout, isn) ==
  [isn |-> isn, segments_out |-> <<>>, outstanding_segments |-> <<>>,
   initial_retransmission_timeout |-> retx_timeout,
   retransmission_timeout |-> retx_timeout, stream |-> NewByteStream(capacity),
   next_seqno |-> 0, window_size |-> 1, retransmission_timer_on |-> FALSE,
   retransmission_timer |-> 0, consecutive_retransmissions |-> 0,
   highest_ackno |-> -1, highest_ackno_right |-> -1, fin_sent |-> FALSE,
   window_empty |-> FALSE]

\* TCPSegment::length_in_sequence_space().
length_in_sequence_space(seg) ==
  Len(seg.payload) + (IF seg.syn THEN 1 ELSE 0) + (IF seg.fin THEN 1 ELSE 0)

add_length(n, seg) == n + length_in_sequence_space(seg)

bytes_in_flight(s) == Iterate(add_length, 0, s.outstanding_segments)

\* The new segment goes before the first one with a greater sequence number.
insert_outstanding(list, seg) ==
  LET k == Min({j \in DOMAIN list : seg.seqno < list[j].seqno} \cup {Len(list) + 1})
  IN  SubSeq(list, 1, k - 1) \o <<seg>> \o SubSeq(list, k, Len(list))

\* Mutant: the timer is not started when it is off.
send_segment_no_timer(s, seg) ==
  LET length == length_in_sequence_space(seg)
  IN  IF length = 0 THEN s
      ELSE [s EXCEPT
              !.segments_out = Append(@, seg),
              !.window_size = IF @ < length THEN 0 ELSE @ - length,
              !.outstanding_segments = insert_outstanding(@, seg)]

send_segment(s, seg) ==
  LET length == length_in_sequence_space(seg)
  IN  IF length = 0 THEN s
      ELSE [s EXCEPT
              !.segments_out = Append(@, seg),
              !.window_size = IF @ < length THEN 0 ELSE @ - length,
              !.retransmission_timer_on = TRUE,
              !.retransmission_timer = IF s.retransmission_timer_on THEN @ ELSE 0,
              !.outstanding_segments = insert_outstanding(@, seg)]

send_new_segment(s, seg) ==
  send_segment([s EXCEPT !.next_seqno = @ + length_in_sequence_space(seg)],
               [seg EXCEPT !.seqno = wrap(s.next_seqno, s.isn)])

(***************************************************************************)
(* The segments that the loop of fill_window() makes of the first n bytes  *)
(* of the stream: all but the last are full, the last has FIN or not.      *)
(***************************************************************************)
segments_of(data, n, fin) ==
  LET count == (n + MAX_PAYLOAD_SIZE - 1) \div MAX_PAYLOAD_SIZE
      last(k) == IF k = count THEN n ELSE k * MAX_PAYLOAD_SIZE
  IN  [k \in 1..count |->
         [seqno |-> 0, syn |-> FALSE, fin |-> fin /\ k = count,
          payload |-> SubSeq(data, (k - 1) * MAX_PAYLOAD_SIZE + 1, last(k))]]

\* The SYN, regardless of the window.
send_syn(s) ==
  IF s.next_seqno # 0 THEN s
  ELSE send_new_segment(s, [seqno |-> 0, syn |-> TRUE, fin |-> FALSE, payload |-> <<>>])

\* Mutant: one segment per call, however large the window.
send_bytes_once(s) ==
  LET n == bytes_to_read(s.stream, IF s.window_size < MAX_PAYLOAD_SIZE
                                   THEN s.window_size ELSE MAX_PAYLOAD_SIZE)
      drained == read(s.stream, n)
      fin == eof(drained) /\ ~s.fin_sent /\ n < s.window_size
  IN  IF n = 0 THEN s
      ELSE Iterate(send_new_segment,
                    [s EXCEPT !.stream = drained, !.fin_sent = @ \/ fin],
                    segments_of(s.stream.buffer, n, fin))

\* The loop: as many bytes as the window allows, and FIN with the last of them
\* if the stream is drained and the window has room for it.
send_bytes(s) ==
  LET n == bytes_to_read(s.stream, s.window_size)
      drained == read(s.stream, n)
      fin == eof(drained) /\ ~s.fin_sent /\ n < s.window_size
  IN  IF n = 0 THEN s
      ELSE Iterate(send_new_segment,
                    [s EXCEPT !.stream = drained, !.fin_sent = @ \/ fin],
                    segments_of(s.stream.buffer, n, fin))

\* FIN by itself.
send_fin(s) ==
  IF eof(s.stream) /\ ~s.fin_sent /\ s.window_size > 0
  THEN send_new_segment([s EXCEPT !.fin_sent = TRUE],
         [seqno |-> 0, syn |-> FALSE, fin |-> TRUE, payload |-> <<>>])
  ELSE s

fill_window(s) ==
  LET t == send_syn(s)
  IN  IF t.window_size = 0 THEN t ELSE send_fin(send_bytes(t))

\* Mutant: a segment is removed once its first byte is acknowledged.
remove_acknowledged_early(list, ackno) ==
  LET acknowledged(j) == list[j].seqno < ackno
      n == Max({k \in 0..Len(list) : \A j \in 1..k : acknowledged(j)})
  IN  SubSeq(list, n + 1, Len(list))

\* The segments at the front that lie entirely below the ackno are removed.
\* seqno + length is a size_t: it does not wrap at 32 bits.
remove_acknowledged(list, ackno) ==
  LET acknowledged(j) == list[j].seqno + length_in_sequence_space(list[j]) - 1 < ackno
      n == Max({k \in 0..Len(list) : \A j \in 1..k : acknowledged(j)})
  IN  SubSeq(list, n + 1, Len(list))

\* Mutant: a window of 0 is taken as it is.
set_window_zero(s, ackno, window_size) ==
  LET right == (ackno + window_size) % WrappingBoundary
  IN  IF right > s.highest_ackno_right
      THEN [s EXCEPT !.highest_ackno_right = right, !.window_size = window_size,
                     !.window_empty = window_size = 0]
      ELSE s

\* A window of 0 counts as 1; another one is taken only if it reaches further.
set_window(s, ackno, window_size) ==
  LET right == (ackno + window_size) % WrappingBoundary
  IN  IF window_size = 0
      THEN [s EXCEPT !.window_size = 1, !.window_empty = TRUE]
      ELSE IF right > s.highest_ackno_right
           THEN [s EXCEPT !.highest_ackno_right = right,
                          !.window_size = window_size, !.window_empty = FALSE]
           ELSE s

reset_timer(s, ackno) ==
  IF ackno > s.highest_ackno
  THEN [s EXCEPT !.retransmission_timeout = s.initial_retransmission_timeout,
                 !.retransmission_timer = 0,
                 !.retransmission_timer_on = s.outstanding_segments # <<>>,
                 !.consecutive_retransmissions = 0,
                 !.highest_ackno = ackno]
  ELSE s

ack_received(s, ackno, window_size) ==
  IF ackno > wrap(s.next_seqno, s.isn) \/ ackno < s.highest_ackno THEN s
  ELSE LET t == [s EXCEPT !.outstanding_segments = remove_acknowledged(@, ackno)]
       IN  fill_window(reset_timer(set_window(t, ackno, window_size), ackno))

\* The timer expires: the first outstanding segment is sent again, and the
\* timeout doubles unless the peer's window is known to be empty.
retransmit(s) ==
  LET t == [s EXCEPT !.segments_out = Append(@, s.outstanding_segments[1]),
                     !.retransmission_timer = 0]
  IN  IF s.window_empty THEN t
      ELSE [t EXCEPT !.consecutive_retransmissions = @ + 1,
                     !.retransmission_timeout = 2 * @]

tick(s, ms) ==
  LET t == [s EXCEPT !.retransmission_timer = @ + ms]
  IN  IF ~s.retransmission_timer_on
           \/ s.consecutive_retransmissions > MAX_RETX_ATTEMPTS
      THEN s
      ELSE IF /\ t.retransmission_timer >= t.retransmission_timeout
              /\ t.outstanding_segments # <<>>
           THEN retransmit(t) ELSE t

send_empty_segment(s) ==
  [s EXCEPT !.segments_out =
     Append(@, [seqno |-> wrap(s.next_seqno, s.isn), syn |-> FALSE, fin |-> FALSE,
                payload |-> <<>>])]
=============================================================================
