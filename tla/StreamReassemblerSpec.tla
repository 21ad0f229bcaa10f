------------------------ MODULE StreamReassemblerSpec ------------------------
(***************************************************************************)
(* A StreamReassembler that is handed excerpts of one finite stream in any *)
(* order, any number of times and overlapping at will, while a reader      *)
(* takes bytes from its output.  The byte at position i of the stream is   *)
(* represented by i.  An excerpt marked eof really ends the stream.        *)
(*                                                                         *)
(* promised is a history variable: the positions that were inside the      *)
(* window [_index, _index + remaining capacity) when they arrived.         *)
(***************************************************************************)
EXTENDS StreamReassembler, FiniteSets

CONSTANTS Capacity, StreamLen

ASSUME ReassemblerAssumption ==
  /\ Capacity \in Nat /\ StreamLen \in Nat
  /\ SizeMax >= 2 * StreamLen + 2 * Capacity

VARIABLES reassembler, promised

vars == <<reassembler, promised>>

unassembled == reassembler.unassembled_bytes
output == reassembler.output

\* The excerpt of n bytes at position i.
Excerpt(i, n) == [k \in 1..n |-> i + k - 1]

Positions(b) == b.index .. (index_right(b) - 1)

Window == reassembler.index .. (reassembler.index + remaining_capacity(output) - 1)

Init == reassembler = NewStreamReassembler(Capacity) /\ promised = {}

PushSubstring(i, n, is_eof) ==
  /\ i + n <= StreamLen
  /\ is_eof => i + n = StreamLen
  /\ reassembler' = push_substring(reassembler, Excerpt(i, n), i, is_eof)
  /\ promised' = promised \cup ((i .. (i + n - 1)) \cap Window)

Read(n) ==
  /\ n <= buffer_size(output)
  /\ reassembler' = [reassembler EXCEPT !.output = read(@, n)]
  /\ UNCHANGED promised

Next ==
  \/ \E i, n \in 0..StreamLen, is_eof \in BOOLEAN : PushSubstring(i, n, is_eof)
  \/ \E n \in 1..Capacity : Read(n)

Spec == Init /\ [][Next]_vars
-----------------------------------------------------------------------------
ByteString == [index : Nat, str : Seq(Nat)]

OutputRecord ==
  [capacity : {Capacity}, buffer : Seq(Nat), eof : BOOLEAN,
   bytes_written : Nat, bytes_read : Nat, error : BOOLEAN]

ReassemblerRecord ==
  [output : OutputRecord, capacity : {Capacity}, index : Nat, eof : Nat,
   eof_set : BOOLEAN, unassembled_bytes : SUBSET ByteString]

TypeOK ==
  /\ reassembler \in ReassemblerRecord
  /\ promised \in SUBSET (0..(StreamLen - 1))

(***************************************************************************)
(* The output stream is the original one: the unread bytes are exactly the *)
(* positions from bytes_read to bytes_written - 1, and _index counts the   *)
(* bytes written.  No cut, merge or partial write of push_substring() puts *)
(* a byte in the wrong place or twice.                                     *)
(***************************************************************************)
OutputInOrder ==
  /\ output.buffer = Excerpt(output.bytes_read, buffer_size(output))
  /\ output.bytes_written = reassembler.index
  /\ output.bytes_written = output.bytes_read + buffer_size(output)

(***************************************************************************)
(* The stored ByteStrings are the canonical decomposition of what is held: *)
(* no two of them overlap or touch (so unassembled_bytes() counts a byte   *)
(* pushed twice once) and all of them start after _index.                  *)
(***************************************************************************)
Separated ==
  /\ \A u \in unassembled : u.index > reassembler.index
  /\ \A u, v \in unassembled : u # v => ~can_coalesce(u, v)

(***************************************************************************)
(* No byte that arrived inside the window is forgotten: it has been        *)
(* written to the output or is stored, although flush_to_output() pops a   *)
(* ByteString that was written in part only.                               *)
(***************************************************************************)
PromisedBytesKept ==
  \A p \in promised :
    p < reassembler.index \/ \E u \in unassembled : p \in Positions(u)

(***************************************************************************)
(* A byte that can be delivered is delivered: the next byte of the stream  *)
(* is never among the bytes that arrived inside the window (flush_to_      *)
(* output() looks at the front of the list once only).                     *)
(***************************************************************************)
NothingDeliverableWaits == reassembler.index \notin promised

(***************************************************************************)
(* The end of the input is signalled: once the end of the stream is known  *)
(* and every byte is in, the output has ended, whichever came first.       *)
(***************************************************************************)
EndSignalled ==
  (reassembler.eof_set /\ reassembler.index = StreamLen) => input_ended(output)
=============================================================================
