--------------------------- MODULE TCPSpongeSocket ---------------------------
(***************************************************************************)
(* The TCPSpongeSocket class (libsponge/tcp_helpers/tcp_sponge_socket.cc): *)
(* a TCPConnection in an event loop with four rules, between a datagram    *)
(* adapter and one end of a Unix-domain stream socket, _thread_data.       *)
(*                                                                         *)
(* The state of the TCP thread is the record w: tcp, the two shutdown      *)
(* flags and thread_data_eof, the end-of-file flag of _thread_data.  A     *)
(* callback is an operator on it, given what the kernel did.               *)
(***************************************************************************)
EXTENDS TCPConnection, SequencesExt

Rules == <<"datagram_in", "data_in", "data_out", "datagram_out">>

\* _initialize_TCP().
initialize_TCP(config) ==
  [tcp |-> NewTCPConnection(config), thread_data_eof |-> FALSE,
   inbound_shutdown |-> FALSE, outbound_shutdown |-> FALSE]

direction(rule) == IF rule \in {"datagram_in", "data_in"} THEN "In" ELSE "Out"
eof_of(rule, w) == rule \in {"data_in", "data_out"} /\ w.thread_data_eof
closed_of(rule, w) == FALSE

\* Mutant: what the stream still holds is forgotten.
inbound_finished_early(w) ==
  Stream!input_ended(inbound_stream(w.tcp)) \/ inbound_stream(w.tcp).error

\* The inbound stream is over, and the owner is to be told.
inbound_finished(w) ==
  Stream!eof(inbound_stream(w.tcp)) \/ inbound_stream(w.tcp).error

interest(rule, w) ==
  CASE rule = "datagram_in" -> active(w.tcp)
    [] rule = "data_in" -> /\ active(w.tcp) /\ ~w.outbound_shutdown
                           /\ remaining_outbound_capacity(w.tcp) > 0
    [] rule = "data_out" -> \/ ~Stream!buffer_empty(inbound_stream(w.tcp))
                            \/ inbound_finished(w) /\ ~w.inbound_shutdown
    [] rule = "datagram_out" -> w.tcp.segments_out # <<>>

end_outbound(w) ==
  [w EXCEPT !.tcp = end_input_stream(@), !.outbound_shutdown = TRUE]

\* Only rule 2 has a cancel callback.
cancel(rule, w) == IF rule = "data_in" THEN end_outbound(w) ELSE w

\* Rule 1, with the segment that the adapter let through.
datagram_in(w, seg) == [w EXCEPT !.tcp = segment_received(@, seg)]

\* Rule 2, with what read() returned; an empty read is the end.
data_in(w, data) ==
  LET written == [w EXCEPT !.tcp = write(@, data)]
  IN  IF data = <<>> /\ remaining_outbound_capacity(w.tcp) > 0
      THEN end_outbound([written EXCEPT !.thread_data_eof = TRUE]) ELSE written

\* Rule 2 throws if the connection takes less than it has room for.
accepted_less(w, data) == Stream!accepted(outbound_stream(w.tcp), data) # Len(data)

\* Mutant: a partial write pops nothing.
data_out_all_or_nothing(w, n) ==
  LET popped == [w EXCEPT !.tcp.receiver.reassembler.output =
                   IF n < Stream!buffer_size(@) THEN @ ELSE Stream!pop_output(@, n)]
  IN  [popped EXCEPT !.inbound_shutdown = @ \/ inbound_finished(popped)]

\* Rule 3, with the number of bytes that write() took.  inbound_shutdown also
\* stands for the _thread_data.shutdown(SHUT_WR) that goes with it.
data_out(w, n) ==
  LET popped == [w EXCEPT !.tcp.receiver.reassembler.output = Stream!pop_output(@, n)]
  IN  [popped EXCEPT !.inbound_shutdown = @ \/ inbound_finished(popped)]

\* Mutant: one segment per callback.
datagram_out_one(w) == [w EXCEPT !.tcp.segments_out = SubSeq(@, 2, Len(@))]

\* Rule 4 sends all of tcp.segments_out.
datagram_out(w) == [w EXCEPT !.tcp.segments_out = <<>>]

\* Mutant: connect() runs the loop with the condition of _tcp_main().
condition_of_main(mode, w) ==
  mode = "listen" => state(w.tcp) \in {LISTEN, SYN_RCVD, SYN_SENT}

\* The condition with which connect(), listen_and_accept() and _tcp_main() run
\* the loop.
condition(mode, w) ==
  CASE mode = "connect" -> state(w.tcp) = SYN_SENT
    [] mode = "listen" -> state(w.tcp) \in {LISTEN, SYN_RCVD, SYN_SENT}
    [] mode = "main" -> TRUE

Loop == INSTANCE EventLoop
          WITH Direction <- direction, Eof <- eof_of, Closed <- closed_of,
               Interest <- interest, Cancel <- cancel
=============================================================================
