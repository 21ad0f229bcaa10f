--------------------------- MODULE ReassemblerList ---------------------------
(***************************************************************************)
(* The StreamReassembler with _unassembled_bytes as the std::list it is:   *)
(* the scan that finds the place of a new ByteString, the pairwise         *)
(* coalesce() and the loop that absorbs the next ByteStrings, the walk in  *)
(* set_eof() and the flush of the front.  It is given the same calls as    *)
(* the reassembler of StreamReassemblerSpec, where the list is a set, and  *)
(* must agree with it after each.                                          *)
(***************************************************************************)
EXTENDS StreamReassemblerSpec, SequencesExt

VARIABLE listed     \* the reassembler, with a sequence for unassembled_bytes

\* coalesce(a, b, res), for a and b that can be coalesced: the value of res.
coalesce_pair(a, b) ==
  CASE a.index <= b.index /\ index_right(a) >= index_right(b) -> a
    [] b.index <= a.index /\ index_right(b) >= index_right(a) -> b
    [] a.index < b.index /\ index_right(a) < index_right(b) ->
         [index |-> a.index,
          str |-> a.str \o SubSeq(b.str, index_right(a) - b.index + 1, Len(b.str))]
    [] b.index < a.index /\ index_right(b) < index_right(a) ->
         [index |-> b.index,
          str |-> b.str \o SubSeq(a.str, index_right(b) - a.index + 1, Len(a.str))]

\* The inner loop: res takes in the elements that follow while it can.
RECURSIVE absorb(_, _)
\* Mutant: only the first element touched is coalesced.
absorb_nothing(res, rest) == <<res>> \o rest
absorb(res, rest) ==
  IF rest # <<>> /\ can_coalesce(res, Head(rest))
  THEN absorb(coalesce_pair(res, Head(rest)), Tail(rest))
  ELSE <<res>> \o rest

\* The scan for the place of b, from the front of the list.
RECURSIVE insert(_, _)
insert(b, list) ==
  IF list = <<>> \/ index_right(b) < Head(list).index THEN <<b>> \o list
  ELSE IF can_coalesce(b, Head(list))
       THEN absorb(coalesce_pair(b, Head(list)), Tail(list))
       ELSE <<Head(list)>> \o insert(b, Tail(list))

(***************************************************************************)
(* The loop of set_eof() on a list.  iter stays at rend(), where libstdc++ *)
(* keeps the size of the list in the place of an index, and the element    *)
(* erased is the second one.  (With a single element left the code would   *)
(* erase end(), which is undefined; the model stops there.)                *)
(***************************************************************************)
RECURSIVE erase_after_eof(_, _)
erase_after_eof(list, eof_index) ==
  IF Len(list) < 2 \/ Len(list) < eof_index THEN list
  ELSE erase_after_eof(RemoveAt(list, 2), eof_index)

list_set_eof(r, eof_index) ==
  [set_eof(r, eof_index) EXCEPT
     !.unassembled_bytes = erase_after_eof(@, eof_index)]

list_flush_to_output(r) ==
  IF r.unassembled_bytes # <<>> /\ Head(r.unassembled_bytes).index = r.index
  THEN [write_to_output(r, Head(r.unassembled_bytes)) EXCEPT
          !.unassembled_bytes = Tail(@)]
  ELSE r

list_push_unassembled_bytes(r, data, index) ==
  IF index + Len(data) <= r.index THEN r
  ELSE [r EXCEPT !.unassembled_bytes =
                    insert(cut_right(r, cut_left(r, data, index)), @)]

list_push_substring(r, data, index, is_eof) ==
  LET last_index == index + Len(data)
      s == IF is_eof THEN list_set_eof(r, last_index) ELSE r
  IN  IF last_index <= s.index \/ index > s.index + s.capacity \/ Len(data) = 0
      THEN s
      ELSE list_flush_to_output(list_push_unassembled_bytes(s, data, index))
-----------------------------------------------------------------------------
ListInit ==
  /\ Init
  /\ listed = [NewStreamReassembler(Capacity) EXCEPT !.unassembled_bytes = <<>>]

ListPushSubstring(i, n, is_eof) ==
  /\ PushSubstring(i, n, is_eof)
  /\ listed' = list_push_substring(listed, Excerpt(i, n), i, is_eof)

ListRead(n) ==
  /\ Read(n)
  /\ listed' = [listed EXCEPT !.output = read(@, n)]

ListNext ==
  \/ \E i, n \in 0..StreamLen, is_eof \in BOOLEAN : ListPushSubstring(i, n, is_eof)
  \/ \E n \in 1..Capacity : ListRead(n)

ListSpec == ListInit /\ [][ListNext]_<<vars, listed>>
-----------------------------------------------------------------------------
(***************************************************************************)
(* The scan, coalesce() and the absorbing loop of push_unassembled_bytes() *)
(* do to the list what StreamReassemblerSpec does to the set in one step:  *)
(* after every call the two reassemblers are the same.  The list stays     *)
(* sorted, which flush_to_output() relies on when it looks at the front    *)
(* only and the scan when it stops at the first ByteString beyond the new. *)
(***************************************************************************)
ListImplementsSet ==
  LET list == listed.unassembled_bytes
  IN  /\ reassembler = [listed EXCEPT !.unassembled_bytes = Range(list)]
      /\ \A i \in 1..(Len(list) - 1) : index_right(list[i]) < list[i + 1].index
=============================================================================
