----------------------------- MODULE ByteStream -----------------------------
(***************************************************************************)
(* The ByteStream class (libsponge/byte_stream.hh, byte_stream.cc): a      *)
(* bounded FIFO of bytes with an end-of-input flag.  The object is a       *)
(* record; a method that changes it is an operator that returns the new    *)
(* record, a const method an operator that returns its value.              *)
(***************************************************************************)
EXTENDS Integers, Sequences

\* The constructor.  _buffer is the bytes written and not yet popped.
NewByteStream(capacity) ==
  [capacity |-> capacity, buffer |-> <<>>, eof |-> FALSE,
   bytes_written |-> 0, bytes_read |-> 0, error |-> FALSE]

buffer_size(s) == Len(s.buffer)
buffer_empty(s) == buffer_size(s) = 0
input_ended(s) == s.eof
eof(s) == s.eof /\ buffer_empty(s)
remaining_capacity(s) == s.capacity - buffer_size(s)

\* Never more than the buffer holds.
bytes_to_read(s, len) ==
  IF len > buffer_size(s) THEN buffer_size(s) ELSE len

\* How many bytes of data write() accepts.
accepted(s, data) ==
  IF Len(data) > remaining_capacity(s) THEN remaining_capacity(s) ELSE Len(data)

\* Appends what fits; the end-of-input flag is not consulted.
write(s, data) ==
  [s EXCEPT !.buffer = @ \o SubSeq(data, 1, accepted(s, data)),
            !.bytes_written = @ + accepted(s, data)]

peek_output(s, len) == SubSeq(s.buffer, 1, bytes_to_read(s, len))

\* The buffer loses at most what it holds; the counter grows by len as given.
pop_output(s, len) ==
  [s EXCEPT !.bytes_read = @ + len,
            !.buffer = SubSeq(@, bytes_to_read(s, len) + 1, Len(@))]

\* The stream after read(len), which returns peek_output(s, len).
read(s, len) ==
  [s EXCEPT !.bytes_read = @ + bytes_to_read(s, len),
            !.buffer = SubSeq(@, bytes_to_read(s, len) + 1, Len(@))]

end_input(s) == [s EXCEPT !.eof = TRUE]
set_error(s) == [s EXCEPT !.error = TRUE]
=============================================================================
