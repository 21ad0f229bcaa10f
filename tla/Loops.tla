-------------------------------- MODULE Loops --------------------------------
(***************************************************************************)
(* A loop over a container that changes a state:                           *)
(* for (x : seq) acc = op(acc, x).                                         *)
(*                                                                         *)
(* This is FoldLeft of SequencesExt by itself.  SequencesExt brings all    *)
(* that it extends into each proof obligation of the modules that use it,  *)
(* which made their proofs twenty times slower to check.                   *)
(***************************************************************************)
EXTENDS Integers, Sequences, Folds

\* MapThenFoldSet applies op for the position that is chosen outermost, so the
\* choice of the last one makes the loop begin with the first.
Iterate(op(_, _), base, seq) ==
  MapThenFoldSet(LAMBDA x, acc : op(acc, x), base, LAMBDA i : seq[i],
                 LAMBDA S : CHOOSE i \in S : \A j \in S : i >= j, DOMAIN seq)
=============================================================================
