----------------------------- MODULE StreamCopy -----------------------------
(***************************************************************************)
(* bidirectional_stream_copy() (apps/bidirectional_stream_copy.cc): stdin  *)
(* to the socket and the socket to stdout, through two ByteStreams and an  *)
(* EventLoop with four rules; with the FileDescriptors that it uses        *)
(* (libsponge/util/file_descriptor.cc).                                    *)
(*                                                                         *)
(* The state of the function is the record w.  A callback is an operator   *)
(* on it, given what the kernel did: the data of a read, the number of     *)
(* bytes of a write.                                                       *)
(***************************************************************************)
EXTENDS ByteStream

Rules == <<"stdin", "to_socket", "from_socket", "stdout">>

\* A FileDescriptor: the flags of its FDWrapper and what was done in shutdown().
NewFD == [eof |-> FALSE, closed |-> FALSE]

NewStreamCopy(buffer_sz) ==
  [input |-> NewFD, output |-> NewFD, socket |-> NewFD,
   outbound |-> NewByteStream(buffer_sz), inbound |-> NewByteStream(buffer_sz),
   outbound_shutdown |-> FALSE, inbound_shutdown |-> FALSE]

\* FileDescriptor::read(limit) that returned data.
fd_read(fd, limit, data) == IF limit > 0 /\ data = <<>> THEN [fd EXCEPT !.eof = TRUE] ELSE fd

\* FileDescriptor::close().
fd_close(fd) == [fd EXCEPT !.eof = TRUE, !.closed = TRUE]

direction(rule) == IF rule \in {"stdin", "from_socket"} THEN "In" ELSE "Out"

fd_of(rule, w) ==
  CASE rule = "stdin" -> w.input
    [] rule = "stdout" -> w.output
    [] OTHER -> w.socket

eof_of(rule, w) == fd_of(rule, w).eof
closed_of(rule, w) == fd_of(rule, w).closed

\* Mutant: a read may fill the whole buffer again.
limit_of_capacity(rule, w) ==
  CASE rule = "stdin" -> w.outbound.capacity
    [] rule = "to_socket" -> buffer_size(w.outbound)
    [] rule = "from_socket" -> w.inbound.capacity
    [] rule = "stdout" -> buffer_size(w.inbound)

\* How many bytes a callback offers to write (max_copy_length exceeds them all)
\* or has room to read.
limit_of(rule, w) ==
  CASE rule = "stdin" -> remaining_capacity(w.outbound)
    [] rule = "to_socket" -> buffer_size(w.outbound)
    [] rule = "from_socket" -> remaining_capacity(w.inbound)
    [] rule = "stdout" -> buffer_size(w.inbound)

\* Mutant: rules 2 and 4 stay interested after the end of their stream.
interest_forever(rule, w) ==
  CASE rule = "stdin" -> limit_of(rule, w) > 0 /\ ~w.outbound.error /\ ~w.inbound.error
    [] rule = "to_socket" -> ~buffer_empty(w.outbound) \/ eof(w.outbound)
    [] rule = "from_socket" -> limit_of(rule, w) > 0 /\ ~w.outbound.error /\ ~w.inbound.error
    [] rule = "stdout" -> ~buffer_empty(w.inbound) \/ eof(w.inbound)

interest(rule, w) ==
  CASE rule = "stdin" -> limit_of(rule, w) > 0 /\ ~w.outbound.error /\ ~w.inbound.error
    [] rule = "to_socket" ->
         ~buffer_empty(w.outbound) \/ (eof(w.outbound) /\ ~w.outbound_shutdown)
    [] rule = "from_socket" -> limit_of(rule, w) > 0 /\ ~w.outbound.error /\ ~w.inbound.error
    [] rule = "stdout" ->
         ~buffer_empty(w.inbound) \/ (eof(w.inbound) /\ ~w.inbound_shutdown)

cancel(rule, w) ==
  CASE rule = "stdin" -> [w EXCEPT !.outbound = end_input(@)]
    [] rule = "to_socket" -> [w EXCEPT !.outbound = set_error(@)]
    [] rule = "from_socket" -> [w EXCEPT !.inbound = end_input(@)]
    [] rule = "stdout" -> [w EXCEPT !.inbound = set_error(@)]

end_input_at_eof(stream, fd) == IF fd.eof THEN end_input(stream) ELSE stream

\* Rules 1 and 3, after a read of data.
read_callback(rule, w, data) ==
  LET fd == fd_read(fd_of(rule, w), limit_of(rule, w), data)
  IN  IF rule = "stdin"
      THEN [w EXCEPT !.input = fd, !.outbound = end_input_at_eof(write(@, data), fd)]
      ELSE [w EXCEPT !.socket = fd, !.inbound = end_input_at_eof(write(@, data), fd)]

\* Mutant: the socket is shut down as soon as stdin has ended.
write_callback_early(rule, w, n) ==
  IF rule = "to_socket"
  THEN LET t == pop_output(w.outbound, n)
       IN  [w EXCEPT !.outbound = t, !.outbound_shutdown = @ \/ input_ended(t)]
  ELSE LET t == pop_output(w.inbound, n)
       IN  [w EXCEPT !.inbound = t, !.inbound_shutdown = @ \/ eof(t),
                     !.output = IF eof(t) THEN fd_close(@) ELSE @]

\* Rules 2 and 4, after a write of n bytes.  outbound_shutdown also stands for
\* the socket.shutdown(SHUT_WR) that goes with it.
write_callback(rule, w, n) ==
  IF rule = "to_socket"
  THEN LET t == pop_output(w.outbound, n)
       IN  [w EXCEPT !.outbound = t, !.outbound_shutdown = @ \/ eof(t)]
  ELSE LET t == pop_output(w.inbound, n)
       IN  [w EXCEPT !.inbound = t, !.inbound_shutdown = @ \/ eof(t),
                     !.output = IF eof(t) THEN fd_close(@) ELSE @]

Loop == INSTANCE EventLoop
          WITH Direction <- direction, Eof <- eof_of, Closed <- closed_of,
               Interest <- interest, Cancel <- cancel
=============================================================================
