------------------------------ MODULE LoopProofs ------------------------------
(***************************************************************************)
(* What Iterate() of Loops computes, for any operator op that this module  *)
(* is instantiated with.  The loops of the models (fill_window(), the      *)
(* rules of EventLoop) are folds over sequences, and their proofs rest on  *)
(* the lemmas FoldTrace and FoldInvariant.                                 *)
(*                                                                         *)
(* op has a parameter p beside the accumulator and the element, which the  *)
(* loop does not change.  Folded is Iterate with that parameter.           *)
(***************************************************************************)
EXTENDS Integers, Folds, WellFoundedInduction, TLAPS

CONSTANT op(_, _, _)

Max(S) == CHOOSE x \in S : \A y \in S : x >= y

Folded(p, base, seq) ==
  MapThenFoldSet(LAMBDA x, y : op(p, y, x), base, LAMBDA i : seq[i], LAMBDA S : Max(S),
                 DOMAIN seq)

\* Induction with a set in place of a predicate: a least number outside S
\* would have a predecessor outside S.
LEMMA SetInduction ==
  ASSUME NEW S, 0 \in S, \A n \in Nat : n \in S => n + 1 \in S
  PROVE  \A n \in Nat : n \in S
<1> DEFINE T == {n \in Nat : n \notin S}
           R == {p \in Nat \X Nat : p[1] < p[2]}
<1> SUFFICES ASSUME T # {} PROVE FALSE
  OBVIOUS
<1>1. IsWellFoundedOn(R, Nat)
  BY NatLessThanWellFounded, Zenon DEF OpToRel
<1>2. T \subseteq Nat
  OBVIOUS
<1>3. PICK x \in T : \A y \in T : ~ (<<y, x>> \in R)
  <2> HIDE DEF T, R
  <2> QED
    BY <1>1, <1>2, WFMin, Zenon
<1>4. x - 1 \in T
  OBVIOUS
<1>5. <<x - 1, x>> \in R
  BY <1>4
<1> QED
  BY <1>3, <1>4, <1>5

\* A nonempty set of numbers up to m has a greatest element.
LEMMA MaxOfSubset ==
  ASSUME NEW m \in Nat, NEW s \in SUBSET (0..m), s # {}
  PROVE  Max(s) \in s /\ \A y \in s : Max(s) >= y
<1> DEFINE HasMax(t) == \E x \in t : \A y \in t : x >= y
           P == {n \in Nat : \A t \in SUBSET (0..n) : t # {} => HasMax(t)}
<1>1. 0 \in P
  <2>1. ASSUME NEW t \in SUBSET (0..0), t # {} PROVE HasMax(t)
    <3>1. \A x \in t : x = 0
      OBVIOUS
    <3>2. 0 \in t
      BY <2>1, <3>1, Zenon
    <3> QED
      BY <3>1, <3>2
  <2> HIDE DEF HasMax
  <2> QED
    BY <2>1
<1>2. ASSUME NEW n \in Nat, n \in P PROVE n + 1 \in P
  <2> SUFFICES ASSUME NEW t \in SUBSET (0..(n + 1)), t # {} PROVE HasMax(t)
    OBVIOUS
  <2>1. CASE n + 1 \in t
    BY <2>1
  <2>2. CASE n + 1 \notin t
    <3>1. t \in SUBSET (0..n)
      BY <2>2
    <3> QED
      BY <3>1, <1>2
  <2> QED
    BY <2>1, <2>2
<1>3. m \in P
  <2> HIDE DEF P
  <2> QED
    BY <1>1, <1>2, SetInduction
<1>4. HasMax(s)
  BY <1>3
<1> QED
  BY <1>4, Zenon DEF Max

\* The function on sets of positions by which Iterate() is defined.
IsIter(iter, p, base, seq, m) ==
  iter = [s \in SUBSET (1..m) |->
            IF s = {} THEN base ELSE op(p, iter[s \ {Max(s)}], seq[Max(s)])]

\* There is such a function: the one for m + 1 positions extends the one for m.
LEMMA IterExists ==
  ASSUME NEW p, NEW base, NEW seq, NEW m \in Nat
  PROVE  \E iter : IsIter(iter, p, base, seq, m)
<1> DEFINE P == {n \in Nat : \E iter : IsIter(iter, p, base, seq, n)}
<1>1. 0 \in P
  <2> DEFINE it == [s \in SUBSET (1..0) |-> base]
  <2>1. IsIter(it, p, base, seq, 0)
    BY DEF IsIter
  <2> QED
    BY <2>1
<1>2. ASSUME NEW n \in Nat, n \in P PROVE n + 1 \in P
  <2>1. PICK h : IsIter(h, p, base, seq, n)
    BY <1>2
  <2> DEFINE it == [s \in SUBSET (1..(n + 1)) |->
                      IF n + 1 \in s THEN op(p, h[s \ {n + 1}], seq[n + 1]) ELSE h[s]]
             body(s) == IF s = {} THEN base ELSE op(p, it[s \ {Max(s)}], seq[Max(s)])
  <2>2. ASSUME NEW s \in SUBSET (1..(n + 1)) PROVE it[s] = body(s)
    <3>1. CASE n + 1 \in s
      <4>1. Max(s) = n + 1
        <5>1. n + 1 \in Nat /\ s # {} /\ s \in SUBSET (0..(n + 1))
          BY <3>1
        <5>2. Max(s) \in s /\ Max(s) >= n + 1
          BY <3>1, <5>1, MaxOfSubset, Zenon
        <5>3. Max(s) \in 1..(n + 1)
          BY <5>2, Zenon
        <5> QED
          BY <5>2, <5>3
      <4>2. s \ {n + 1} \in SUBSET (1..(n + 1)) /\ n + 1 \notin (s \ {n + 1})
        OBVIOUS
      <4>3. it[s \ {n + 1}] = h[s \ {n + 1}]
        BY <4>2
      <4>4. it[s] = op(p, h[s \ {n + 1}], seq[n + 1])
        BY <3>1
      <4> HIDE DEF it
      <4> QED
        BY <3>1, <4>1, <4>3, <4>4
    <3>2. CASE n + 1 \notin s
      <4>1. s \in SUBSET (1..n)
        BY <3>2
      <4>2. h[s] = IF s = {} THEN base ELSE op(p, h[s \ {Max(s)}], seq[Max(s)])
        BY <2>1, <4>1, Zenon DEF IsIter
      <4>3. it[s \ {Max(s)}] = h[s \ {Max(s)}]
        BY <3>2
      <4>4. it[s] = h[s]
        BY <3>2
      <4> HIDE DEF it
      <4> QED
        BY <4>2, <4>3, <4>4
    <3> QED
      BY <3>1, <3>2
  <2>3. it = [s \in SUBSET (1..(n + 1)) |-> it[s]]
    OBVIOUS
  <2> HIDE DEF it
  <2>4. IsIter(it, p, base, seq, n + 1)
    BY <2>2, <2>3, Zenon DEF IsIter
  <2> QED
    BY <2>4
<1>3. m \in P
  <2> HIDE DEF P
  <2> QED
    BY <1>1, <1>2, SetInduction
<1> QED
  BY <1>3

\* The values of the accumulator, from base to the result.
IsTrace(f, p, base, seq, n) ==
  f = [k \in 0..n |-> IF k = 0 THEN base ELSE op(p, f[k - 1], seq[k])]

\* Iterate() runs through the values of the accumulator, one per element.
LEMMA FoldTrace ==
  ASSUME NEW p, NEW base, NEW n \in Nat, NEW seq, DOMAIN seq = 1..n
  PROVE  \E f : IsTrace(f, p, base, seq, n) /\ Folded(p, base, seq) = f[n]
<1> DEFINE iter == CHOOSE it : IsIter(it, p, base, seq, n)
           f == [k \in 0..n |-> iter[1..k]]
<1>1. IsIter(iter, p, base, seq, n)
  BY IterExists
<1>2. Folded(p, base, seq) = iter[1..n]
  BY DEF Folded, MapThenFoldSet, IsIter
<1> HIDE DEF iter
<1>3. ASSUME NEW k \in 0..n
      PROVE  f[k] = IF k = 0 THEN base ELSE op(p, f[k - 1], seq[k])
  <2>1. CASE k = 0
    <3>1. 1..0 = {} /\ {} \in SUBSET (1..n)
      OBVIOUS
    <3> QED
      BY <2>1, <3>1, <1>1 DEF IsIter
  <2>2. CASE k # 0
    <3>1. k \in 1..k
      BY <2>2
    <3>2. \A j \in 1..k : j \in 1..n /\ j \in 0..n
      OBVIOUS
    <3>3. Max(1..k) = k
      <4>1. Max(1..k) \in 1..k /\ Max(1..k) >= k
        BY <3>1, <3>2, MaxOfSubset, Zenon
      <4> QED
        BY <4>1
    <3>4. (1..k) \ {k} = 1..(k - 1)
      BY <2>2
    <3>5. iter[1..k] = op(p, iter[1..(k - 1)], seq[k])
      BY <3>1, <3>2, <3>3, <3>4, <1>1, Zenon DEF IsIter
    <3> QED
      BY <2>2, <3>5
  <2> QED
    BY <2>1, <2>2
<1>4. f = [k \in 0..n |-> f[k]] /\ Folded(p, base, seq) = f[n]
  BY <1>2
<1> HIDE DEF f
<1>5. IsTrace(f, p, base, seq, n)
  BY <1>3, <1>4, Zenon DEF IsTrace
<1> QED
  BY <1>4, <1>5

\* The loop invariant: X[k] holds the values the accumulator may have after k
\* elements.
LEMMA FoldInvariant ==
  ASSUME NEW p, NEW base, NEW n \in Nat, NEW seq, DOMAIN seq = 1..n, NEW X,
         base \in X[0],
         \A k \in 1..n : \A x \in X[k - 1] : op(p, x, seq[k]) \in X[k]
  PROVE  Folded(p, base, seq) \in X[n]
<1>1. PICK f : IsTrace(f, p, base, seq, n) /\ Folded(p, base, seq) = f[n]
  BY FoldTrace
<1> DEFINE P == {k \in Nat : k <= n => f[k] \in X[k]}
<1>2. 0 \in P
  <2>1. f[0] = base
    BY <1>1 DEF IsTrace
  <2> QED
    BY <2>1
<1>3. ASSUME NEW k \in Nat, k \in P PROVE k + 1 \in P
  <2> SUFFICES ASSUME k + 1 <= n PROVE f[k + 1] \in X[k + 1]
    OBVIOUS
  <2>1. f[k] \in X[k] /\ (k + 1) - 1 = k /\ k + 1 \in 1..n /\ k + 1 # 0 /\ k + 1 \in 0..n
    BY <1>3
  <2>2. f[k + 1] = op(p, f[k], seq[k + 1])
    BY <1>1, <2>1 DEF IsTrace
  <2> QED
    BY <2>1, <2>2
<1>4. n \in P
  <2> HIDE DEF P
  <2> QED
    BY <1>2, <1>3, SetInduction
<1> QED
  BY <1>1, <1>4
=============================================================================
