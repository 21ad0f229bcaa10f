------------------------ MODULE WrappingIntegersSpec ------------------------
(***************************************************************************)
(* What unwrap() promises, for every ISN, every 32-bit sequence number and *)
(* every checkpoint.                                                       *)
(***************************************************************************)
EXTENDS WrappingIntegers

(***************************************************************************)
(* "The 64-bit sequence number that wraps to n and is closest to           *)
(* checkpoint" (wrapping_integers.cc:31): it stays clear of both ends of   *)
(* the 64-bit range, where a candidate would wrap around, it wraps to n,   *)
(* and no other one that does is closer.                                   *)
(***************************************************************************)
UnwrapClosest(n, isn, checkpoint) ==
  LET absolute == unwrap(n, isn, checkpoint)
  IN  /\ absolute \in UInt64 /\ wrap(absolute, isn) = n
      /\ \A x \in UInt64 :
           wrap(x, isn) = n => abs(checkpoint - absolute) <= abs(checkpoint - x)

(***************************************************************************)
(* What the receiver relies on: a number less than half the boundary away  *)
(* from the checkpoint is recovered from its 32-bit form.                  *)
(***************************************************************************)
RoundTrip ==
  \A isn \in WrappingInt32, checkpoint, x \in UInt64 :
    2 * abs(x - checkpoint) < WrappingBoundary =>
      unwrap(wrap(x, isn), isn, checkpoint) = x
=============================================================================
