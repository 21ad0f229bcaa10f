-------------------------- MODULE WrappingIntegers --------------------------
(***************************************************************************)
(* wrap() and unwrap() (libsponge/wrapping_integers.cc): 32-bit sequence   *)
(* numbers to and from 64-bit absolute ones.  The two widths are           *)
(* parameters.  None of the 64-bit operations of unwrap() wraps around     *)
(* (WrappingIntegersSpec!UnwrapClosest), so they are those of Integers.    *)
(***************************************************************************)
EXTENDS Integers

CONSTANTS WrappingBoundary,   \* 2^32 in the build: one past UINT32_MAX
          UInt64Boundary      \* 2^64 in the build: one past UINT64_MAX

ASSUME WrappingAssumption ==
  /\ WrappingBoundary \in Nat \ {0}
  /\ UInt64Boundary \in Nat
  /\ UInt64Boundary >= WrappingBoundary /\ UInt64Boundary % WrappingBoundary = 0

WrappingInt32 == 0..(WrappingBoundary - 1)
UInt64 == 0..(UInt64Boundary - 1)

abs(i) == IF i >= 0 THEN i ELSE -i

\* The point b steps before a (operator- of a WrappingInt32 and a uint32_t).
minus(a, b) == IF a >= b THEN a - b ELSE a - b + WrappingBoundary

\* isn + n, where n is cut to 32 bits.
wrap(n, isn) == (isn + n) % WrappingBoundary

center_seqno(n, isn, checkpoint) ==
  (checkpoint - (checkpoint % WrappingBoundary)) + minus(n, isn)

\* Mutant: the candidate on the left is not considered.
unwrap_no_left(n, isn, checkpoint) ==
  LET center == center_seqno(n, isn, checkpoint)
      right == center + WrappingBoundary
  IN  IF checkpoint < UInt64Boundary - WrappingBoundary
           /\ abs(checkpoint - right) < abs(checkpoint - center)
      THEN right ELSE center

unwrap(n, isn, checkpoint) ==
  LET center == center_seqno(n, isn, checkpoint)
      left == center - WrappingBoundary
      right == center + WrappingBoundary
  IN  IF checkpoint > WrappingBoundary - 1
           /\ abs(checkpoint - left) < abs(checkpoint - center)
      THEN left
      ELSE IF checkpoint < UInt64Boundary - WrappingBoundary
                /\ abs(checkpoint - right) < abs(checkpoint - center)
           THEN right ELSE center
=============================================================================
