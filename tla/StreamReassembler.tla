-------------------------- MODULE StreamReassembler --------------------------
(***************************************************************************)
(* The StreamReassembler class (libsponge/stream_reassembler.hh, .cc).     *)
(* The object is a record.  _unassembled_bytes, a std::list of ByteStrings *)
(* sorted by index, is the SET of its ByteStrings: they never touch one    *)
(* another (StreamReassemblerSpec!Separated), so the set determines the    *)
(* list.  The list itself and the loop over it are in ReassemblerList,     *)
(* which is shown to implement this module.                                *)
(***************************************************************************)
EXTENDS ByteStream

CONSTANT SizeMax        \* the largest size_t (2^64 - 1 in the build)

ASSUME SizeMaxAssumption == SizeMax \in Nat

\* Unsigned subtraction: a negative difference wraps around (differences here
\* are far smaller than the modulus, so they wrap once at most).
size_t(x) == IF x < 0 THEN x + SizeMax + 1 ELSE x

\* std::string::substr(0, n).
first_bytes(str, n) == SubSeq(str, 1, IF n < Len(str) THEN n ELSE Len(str))

\* One past the last byte of a ByteString [index, str].
index_right(b) == b.index + Len(b.str)

NewStreamReassembler(capacity) ==
  [output |-> NewByteStream(capacity), capacity |-> capacity, index |-> 0,
   eof |-> SizeMax, eof_set |-> FALSE, unassembled_bytes |-> {}]

\* When coalesce(a, b, res) returns true: the ranges overlap or touch.
can_coalesce(a, b) == a.index <= index_right(b) /\ b.index <= index_right(a)

\* The bytes before b of the stored ByteString that starts before b, if any.
head_of(b, touching) ==
  LET left == {u \in touching : u.index < b.index}
      u == CHOOSE u \in left : TRUE
  IN  IF left = {} THEN <<>> ELSE SubSeq(u.str, 1, b.index - u.index)

\* The bytes after b of the stored ByteString that ends after b, if any.
\* Mutant: the whole of it is appended, the overlap included.
tail_whole(b, touching) ==
  LET right == {u \in touching : index_right(u) > index_right(b)}
  IN  IF right = {} THEN <<>> ELSE (CHOOSE u \in right : TRUE).str

tail_of(b, touching) ==
  LET right == {u \in touching : index_right(u) > index_right(b)}
      u == CHOOSE u \in right : TRUE
  IN  IF right = {} THEN <<>>
      ELSE SubSeq(u.str, index_right(b) - u.index + 1, Len(u.str))

\* Mutant: the length of the head is subtracted twice.
coalesce_head_twice(b, touching) ==
  [index |-> b.index - 2 * Len(head_of(b, touching)),
   str |-> head_of(b, touching) \o b.str \o tail_of(b, touching)]

(***************************************************************************)
(* b coalesced with every stored ByteString it touches.  Stored ones do    *)
(* not touch each other, so at most one of them starts before b and at     *)
(* most one ends after b.                                                  *)
(***************************************************************************)
coalesce(b, touching) ==
  [index |-> b.index - Len(head_of(b, touching)),
   str |-> head_of(b, touching) \o b.str \o tail_of(b, touching)]

(***************************************************************************)
(* The input ends when the last byte is in, and also when exactly one byte *)
(* is still missing.  The loop that follows in the code is never entered:  *)
(* ReassemblerList has it, and implements this operator.                   *)
(***************************************************************************)
set_eof(r, eof_index) ==
  [r EXCEPT !.eof = eof_index, !.eof_set = TRUE,
            !.output = IF eof_index <= r.index + 1 THEN end_input(@) ELSE @]

\* Mutant: the end of the input is not signalled when the last byte is written.
write_to_output_no_end(r, b) ==
  [r EXCEPT !.index = @ + accepted(r.output, b.str), !.output = write(@, b.str)]

write_to_output(r, b) ==
  LET n == accepted(r.output, b.str)
      out == write(r.output, b.str)
  IN  [r EXCEPT !.index = @ + n,
                !.output = IF r.index + n = r.eof /\ r.eof_set
                           THEN end_input(out) ELSE out]

\* Mutant: looks for a ByteString before _index, not at it.
flush_to_output_before_index(r) ==
  LET front == {u \in r.unassembled_bytes : u.index < r.index}
      b == CHOOSE u \in front : TRUE
  IN  IF front = {} THEN r
      ELSE [write_to_output(r, b) EXCEPT !.unassembled_bytes = @ \ {b}]

\* Mutant: the front is written wherever it starts.
flush_to_output_anywhere(r) ==
  LET front == r.unassembled_bytes
      b == CHOOSE u \in front : TRUE
  IN  IF front = {} THEN r
      ELSE [write_to_output(r, b) EXCEPT !.unassembled_bytes = @ \ {b}]

\* Only the front can start at _index; it is popped however little of it the
\* output had room for.
flush_to_output(r) ==
  LET front == {u \in r.unassembled_bytes : u.index = r.index}
      b == CHOOSE u \in front : TRUE
  IN  IF front = {} THEN r
      ELSE [write_to_output(r, b) EXCEPT !.unassembled_bytes = @ \ {b}]

\* The bytes of data from _index on.
cut_left(r, data, index) ==
  IF index < r.index
  THEN [index |-> r.index, str |-> SubSeq(data, r.index - index + 1, Len(data))]
  ELSE [index |-> index, str |-> data]

\* The bytes of b that the code takes to be within the capacity.  right_bound
\* is a size_t: it wraps, and cuts nothing, when b starts beyond the room left.
\* Mutant: the last byte that fits is cut as well.
cut_right_too_much(r, b) ==
  LET right_bound ==
        size_t(r.index + r.capacity - buffer_size(r.output) - b.index)
  IN  [b EXCEPT !.str = first_bytes(@, IF right_bound = 0 THEN 0 ELSE right_bound - 1)]

cut_right(r, b) ==
  LET right_bound ==
        size_t(r.index + r.capacity - buffer_size(r.output) - b.index)
  IN  [b EXCEPT !.str = first_bytes(@, right_bound)]

push_unassembled_bytes(r, data, index) ==
  LET b == cut_right(r, cut_left(r, data, index))
      touching == {u \in r.unassembled_bytes : can_coalesce(b, u)}
  IN  IF index + Len(data) <= r.index THEN r
      ELSE [r EXCEPT !.unassembled_bytes =
                        (@ \ touching) \cup {coalesce(b, touching)}]

push_substring(r, data, index, is_eof) ==
  LET last_index == index + Len(data)
      s == IF is_eof THEN set_eof(r, last_index) ELSE r
  IN  IF last_index <= s.index \/ index > s.index + s.capacity \/ Len(data) = 0
      THEN s
      ELSE flush_to_output(push_unassembled_bytes(s, data, index))
=============================================================================
