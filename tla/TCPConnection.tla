---------------------------- MODULE TCPConnection ----------------------------
(***************************************************************************)
(* The TCPConnection class (libsponge/tcp_connection.hh, .cc): a sender, a *)
(* receiver, the RST and the decision when the connection is over; and the *)
(* state names of TCPState (tcp_helpers/tcp_state.cc).                     *)
(*                                                                         *)
(* The operators are the methods, on records; the private methods that a   *)
(* handler calls are part of it.  A segment on the wire has the fields of  *)
(* the sender's segments and rst, ack, ackno and win.                      *)
(***************************************************************************)
EXTENDS Integers, Sequences

CONSTANTS UInt16Boundary, WrappingBoundary, UInt64Boundary, SizeMax,
          MAX_PAYLOAD_SIZE, MAX_RETX_ATTEMPTS

Stream == INSTANCE ByteStream
Sender == INSTANCE TCPSender
Receiver == INSTANCE TCPReceiver

\* cfg is a TCPConfig with a fixed ISN.
NewTCPConnection(cfg) ==
  [receiver |-> Receiver!NewTCPReceiver(cfg.recv_capacity),
   sender |-> Sender!NewTCPSender(cfg.send_capacity, cfg.rt_timeout, cfg.fixed_isn),
   rt_timeout |-> cfg.rt_timeout, segments_out |-> <<>>,
   linger_after_streams_finish |-> TRUE, active |-> FALSE,
   time_since_last_segment_received |-> 0]

inbound_stream(c) == Receiver!stream_out(c.receiver)
outbound_stream(c) == c.sender.stream
bytes_in_flight(c) == Sender!bytes_in_flight(c.sender)
remaining_outbound_capacity(c) == Stream!remaining_capacity(outbound_stream(c))
active(c) == c.active \/ c.linger_after_streams_finish

shutdown(c) == [c EXCEPT !.active = FALSE, !.linger_after_streams_finish = FALSE]

streams_set_err(c) ==
  [c EXCEPT !.receiver.reassembler.output = Stream!set_error(@),
            !.sender.stream = Stream!set_error(@)]

Reset ==
  [seqno |-> 0, syn |-> FALSE, fin |-> FALSE, payload |-> <<>>,
   rst |-> TRUE, ack |-> FALSE, ackno |-> 0, win |-> 0]

send_rst(c) ==
  streams_set_err(shutdown([c EXCEPT !.segments_out = Append(@, Reset)]))

\* A segment of the sender with what the receiver advertises; the header's field
\* for the window has 16 bits.
with_ackno(c, seg) ==
  LET r == c.receiver
  IN  [seqno |-> seg.seqno, syn |-> seg.syn, fin |-> seg.fin, payload |-> seg.payload,
       rst |-> FALSE, ack |-> r.syn_recv,
       ackno |-> IF r.syn_recv THEN Receiver!ackno(r) ELSE 0,
       win |-> IF r.syn_recv THEN Receiver!window_size(r) % UInt16Boundary ELSE 0]

send_segments(c) ==
  [c EXCEPT !.segments_out = @ \o [k \in DOMAIN c.sender.segments_out |->
                                     with_ackno(c, c.sender.segments_out[k])],
            !.sender.segments_out = <<>>]

connect_sender(c) == [c EXCEPT !.active = TRUE, !.sender = Sender!fill_window(@)]

update_sender(c) == send_segments([c EXCEPT !.sender = Sender!fill_window(@)])

connect(c) == send_segments(connect_sender(c))

\* write(data); the number of bytes accepted is the sender's stream's.
write(c, data) == update_sender([c EXCEPT !.sender.stream = Stream!write(@, data)])

end_input_stream(c) == update_sender([c EXCEPT !.sender.stream = Stream!end_input(@)])

\* Mutant: no end lingers once both streams have ended.
update_connection_status_passive(c) ==
  IF ~Stream!input_ended(inbound_stream(c)) THEN c
  ELSE IF Stream!input_ended(outbound_stream(c)) /\ bytes_in_flight(c) = 0
  THEN shutdown(c) ELSE [c EXCEPT !.linger_after_streams_finish = FALSE]

\* Mutant: what is in flight does not keep the connection open.
update_connection_status_early(c) ==
  IF ~Stream!input_ended(inbound_stream(c)) THEN c
  ELSE IF ~Stream!input_ended(outbound_stream(c))
  THEN [c EXCEPT !.linger_after_streams_finish = FALSE]
  ELSE IF ~c.linger_after_streams_finish THEN shutdown(c)
  ELSE c

update_connection_status(c) ==
  IF ~Stream!input_ended(inbound_stream(c)) THEN c
  ELSE IF ~Stream!input_ended(outbound_stream(c))
  THEN [c EXCEPT !.linger_after_streams_finish = FALSE]
  ELSE IF bytes_in_flight(c) = 0 /\ ~c.linger_after_streams_finish THEN shutdown(c)
  ELSE c

\* Mutant: a segment is not answered unless there is something to send anyway.
process_no_answer(c, seg) ==
  LET received == Receiver!segment_received(c.receiver, seg)
      acked == IF seg.ack THEN Sender!ack_received(c.sender, seg.ackno, seg.win) ELSE c.sender
  IN  update_connection_status(
        send_segments([c EXCEPT !.receiver = received, !.sender = acked]))

\* The part of segment_received() that an ordinary segment reaches.
process(c, seg) ==
  LET received == Receiver!segment_received(c.receiver, seg)
      acked == IF seg.ack THEN Sender!ack_received(c.sender, seg.ackno, seg.win) ELSE c.sender
      answered == IF acked.segments_out = <<>> /\ Sender!length_in_sequence_space(seg) > 0
                  THEN Sender!send_empty_segment(acked) ELSE acked
  IN  update_connection_status(
        send_segments([c EXCEPT !.receiver = received, !.sender = answered]))

\* An inactive connection is activated by any SYN.
segment_received(c, seg) ==
  LET t == [c EXCEPT !.time_since_last_segment_received = 0]
      opened == IF t.active THEN t ELSE connect_sender(t)
  IN  IF ~t.active /\ ~seg.syn THEN t
      ELSE IF seg.rst THEN streams_set_err(shutdown(opened))
      ELSE process(opened, seg)

\* Gives up after too many retransmissions.
check_retransmissions(c) ==
  IF c.sender.consecutive_retransmissions > MAX_RETX_ATTEMPTS
  THEN send_rst([c EXCEPT !.segments_out = <<>>]) ELSE c

\* Mutant: the end of the linger time is not noticed.
check_linger_never(c) == c

\* Ends lingering.
check_linger(c) ==
  IF /\ Stream!input_ended(inbound_stream(c)) /\ Stream!input_ended(outbound_stream(c))
     /\ bytes_in_flight(c) = 0
     /\ c.time_since_last_segment_received >= 10 * c.rt_timeout
  THEN shutdown(c) ELSE c

tick(c, ms) ==
  check_linger(check_retransmissions(send_segments(
    [c EXCEPT !.time_since_last_segment_received = @ + ms,
              !.sender = Sender!tick(@, ms)])))

\* The destructor: a RST is queued if the connection is still alive.
destroy(c) == IF active(c) THEN send_rst(c) ELSE c
-----------------------------------------------------------------------------
\* TCPState::state_summary() of a receiver and of a sender.
receiver_summary(r) ==
  LET out == Receiver!stream_out(r)
  IN  IF out.error THEN "error"
      ELSE IF ~r.syn_recv THEN "listen"
      ELSE IF Stream!input_ended(out) THEN "fin_recv" ELSE "syn_recv"

sender_summary(s) ==
  IF s.stream.error THEN "error"
  ELSE IF s.next_seqno = 0 THEN "closed"
  ELSE IF s.next_seqno = Sender!bytes_in_flight(s) THEN "syn_sent"
  ELSE IF ~Stream!eof(s.stream) \/ s.next_seqno < s.stream.bytes_written + 2 THEN "syn_acked"
  ELSE IF Sender!bytes_in_flight(s) > 0 THEN "fin_sent" ELSE "fin_acked"

\* TCPConnection::state().
state(c) ==
  [sender |-> sender_summary(c.sender), receiver |-> receiver_summary(c.receiver),
   active |-> active(c),
   linger |-> active(c) /\ c.linger_after_streams_finish]

\* The state with a name, as the constructor from TCPState::State gives it.
Named(sender, receiver, live, linger) ==
  [sender |-> sender, receiver |-> receiver, active |-> live, linger |-> linger]

LISTEN == Named("closed", "listen", TRUE, TRUE)
SYN_RCVD == Named("syn_sent", "syn_recv", TRUE, TRUE)
SYN_SENT == Named("syn_sent", "listen", TRUE, TRUE)
ESTABLISHED == Named("syn_acked", "syn_recv", TRUE, TRUE)
CLOSE_WAIT == Named("syn_acked", "fin_recv", TRUE, FALSE)
LAST_ACK == Named("fin_sent", "fin_recv", TRUE, FALSE)
CLOSING == Named("fin_sent", "fin_recv", TRUE, TRUE)
FIN_WAIT_1 == Named("fin_sent", "syn_recv", TRUE, TRUE)
FIN_WAIT_2 == Named("fin_acked", "syn_recv", TRUE, TRUE)
TIME_WAIT == Named("fin_acked", "fin_recv", TRUE, TRUE)
RESET == Named("error", "error", FALSE, FALSE)
CLOSED == Named("fin_acked", "fin_recv", FALSE, FALSE)
=============================================================================
