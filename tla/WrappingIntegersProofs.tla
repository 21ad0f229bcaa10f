----------------------- MODULE WrappingIntegersProofs -----------------------
(***************************************************************************)
(* The promises of WrappingIntegersSpec hold for every pair of widths, and *)
(* the lemmas about wrap() and unwrap() that they, the receiver's and the  *)
(* sender's theorems rest on.                                              *)
(***************************************************************************)
EXTENDS WrappingIntegersSpec, TLAPS

\* Division with remainder.
LEMMA DivMod ==
  ASSUME NEW a \in Nat, NEW b \in Nat \ {0}
  PROVE  /\ a % b \in 0..(b - 1) /\ a \div b \in Nat
         /\ a = (a \div b) * b + (a % b)
OBVIOUS

\* A remainder is determined by its class.
LEMMA ModUnique ==
  ASSUME NEW b \in Nat \ {0}, NEW x \in Int, NEW y \in 0..(b - 1), NEW k \in Int,
         x = y + k * b
  PROVE  x % b = y
OBVIOUS

\* Multiples of b keep the order of their factors.
LEMMA MultipleOrder ==
  ASSUME NEW b \in Nat \ {0}, NEW j \in Int, NEW k \in Int, j <= k
  PROVE  j * b <= k * b
<1>1. k - j \in Nat /\ (k - j) * b >= 0
  OBVIOUS
<1>2. (k - j) * b = k * b - j * b
  OBVIOUS
<1> QED
  BY <1>1, <1>2

(***************************************************************************)
(* The part of the checkpoint below which unwrap() places its candidates:  *)
(* a multiple of the boundary, and the ends of the 64-bit range it is      *)
(* clear of.                                                               *)
(***************************************************************************)
LEMMA Offset ==
  ASSUME NEW cp \in UInt64
  PROVE  LET B == WrappingBoundary
             Q == UInt64Boundary
             off == cp - (cp % B)
         IN  /\ off \in Nat /\ off <= cp /\ cp < off + B
             /\ \E k \in Nat : off = k * B
             /\ off + B <= Q
             /\ cp > B - 1 => off >= B
             /\ cp <= B - 1 => off = 0
             /\ cp < Q - B => off + B + B <= Q
             /\ cp >= Q - B => off + B = Q
<1> DEFINE B == WrappingBoundary
           Q == UInt64Boundary
           off == cp - (cp % B)
           k == cp \div B
           q == Q \div B
<1>1. B \in Nat \ {0} /\ Q \in Nat /\ cp \in Nat /\ cp < Q /\ Q % B = 0
  BY WrappingAssumption DEF UInt64
<1>2. k \in Nat /\ cp = k * B + (cp % B) /\ cp % B \in 0..(B - 1)
  BY <1>1, DivMod, Zenon
<1>3. q \in Nat /\ Q = q * B
  <2>1. q \in Nat /\ Q = q * B + (Q % B)
    BY <1>1, DivMod, Zenon
  <2>2. q * B \in Nat
    BY <1>1, <2>1
  <2> QED
    BY <1>1, <2>1, <2>2
<1> HIDE DEF k, q
<1>4. off = k * B /\ off \in Nat /\ off <= cp /\ cp < off + B
  <2> DEFINE m == cp % B
             kB == k * B
  <2>1. kB \in Nat /\ cp = kB + m /\ m \in 0..(B - 1) /\ off = cp - m
    BY <1>1, <1>2
  <2> HIDE DEF m, kB, off
  <2>2. off = kB /\ off \in Nat /\ off <= cp /\ cp < off + B
    BY <1>1, <2>1
  <2> QED
    BY <2>2 DEF kB
<1>5. (k + 1) * B = k * B + B /\ (k + 2) * B = k * B + B + B /\ (q - 1) * B = q * B - B
  BY <1>1, <1>2, <1>3
<1> HIDE DEF off, B, Q
<1>6. k + 1 <= q
  <2> SUFFICES ASSUME q <= k PROVE FALSE
    BY <1>2, <1>3
  <2>1. q * B <= k * B
    BY <1>1, <1>2, <1>3, MultipleOrder
  <2> QED
    BY <1>1, <1>3, <1>4, <2>1
<1>7. off + B <= Q
  <2>1. (k + 1) * B <= q * B
    BY <1>1, <1>2, <1>3, <1>6, MultipleOrder
  <2> QED
    BY <2>1, <1>3, <1>4, <1>5
<1>8. ASSUME cp > B - 1 PROVE off >= B
  <2>1. k # 0
    BY <1>8, <1>1, <1>2
  <2>2. 1 * B <= k * B
    BY <2>1, <1>1, <1>2, MultipleOrder
  <2> QED
    BY <2>2, <1>1, <1>4
<1>9. ASSUME cp <= B - 1 PROVE off = 0
  <2> SUFFICES ASSUME k # 0 PROVE FALSE
    BY <1>1, <1>4
  <2>1. 1 * B <= k * B
    BY <1>1, <1>2, MultipleOrder
  <2> QED
    BY <2>1, <1>1, <1>4, <1>9
<1>10. ASSUME cp < Q - B PROVE off + B + B <= Q
  <2>1. k + 2 <= q
    <3> SUFFICES ASSUME q = k + 1 PROVE FALSE
      BY <1>2, <1>3, <1>6
    <3> QED
      BY <1>1, <1>3, <1>4, <1>5, <1>10
  <2>2. (k + 2) * B <= q * B
    BY <1>1, <1>2, <1>3, <2>1, MultipleOrder
  <2> QED
    BY <2>2, <1>3, <1>4, <1>5
<1>11. ASSUME cp >= Q - B PROVE off + B = Q
  <2>1. k + 1 = q
    <3> SUFFICES ASSUME k + 1 <= q - 1 PROVE FALSE
      BY <1>2, <1>3, <1>6
    <3>1. (k + 1) * B <= (q - 1) * B
      BY <1>1, <1>2, <1>3, MultipleOrder
    <3> QED
      BY <3>1, <1>1, <1>3, <1>4, <1>5, <1>11
  <2> QED
    BY <2>1, <1>3, <1>4, <1>5
<1> QED
  BY <1>2, <1>4, <1>7, <1>8, <1>9, <1>10, <1>11 DEF off, B, Q

\* The distance from the ISN, and that it wraps to n.
LEMMA MinusLemma ==
  ASSUME NEW a \in WrappingInt32, NEW i \in WrappingInt32
  PROVE  /\ minus(a, i) \in Nat /\ minus(a, i) < WrappingBoundary
         /\ i + minus(a, i) = a \/ i + minus(a, i) = a + WrappingBoundary
BY WrappingAssumption DEF WrappingInt32, minus

(***************************************************************************)
(* A number wraps to a exactly if it is a multiple of the boundary away    *)
(* from the center candidate.                                              *)
(***************************************************************************)
LEMMA WrapsIffMultiple ==
  ASSUME NEW a \in WrappingInt32, NEW i \in WrappingInt32, NEW cp \in UInt64,
         NEW x \in Nat
  PROVE  wrap(x, i) = a <=>
           \E j \in Int : x = center_seqno(a, i, cp) + j * WrappingBoundary
<1> DEFINE B == WrappingBoundary
           off == cp - (cp % B)
           s == minus(a, i)
<1>1. B \in Nat \ {0} /\ a \in 0..(B - 1) /\ i \in Nat /\ a \in Nat
  BY WrappingAssumption DEF WrappingInt32
<1>2. PICK k \in Nat : off = k * B
  BY Offset
<1>3. center_seqno(a, i, cp) = off + s /\ off \in Nat
  BY Offset DEF center_seqno
<1>4. s \in Nat /\ s < B
  BY MinusLemma
<1>5. PICK e \in {0, 1} : i + s = a + e * B
  <2>1. i + s = a \/ i + s = a + B
    BY MinusLemma
  <2> HIDE DEF s, B
  <2>2. a + 0 * B = a /\ a + 1 * B = a + B
    BY <1>1
  <2> QED
    BY <2>1, <2>2
<1> HIDE DEF off, s, B
<1>6. ASSUME NEW j \in Int, x = off + s + j * B PROVE (i + x) % B = a
  <2>1. (e + k + j) * B = e * B + k * B + j * B
    BY <1>1
  <2>2. i + x = a + (e + k + j) * B
    <3> DEFINE eB == e * B
               kB == k * B
               jB == j * B
    <3>1. eB \in Int /\ kB \in Int /\ jB \in Int
      BY <1>1
    <3>2. off = kB /\ i + s = a + eB /\ x = off + s + jB
          /\ (e + k + j) * B = eB + kB + jB
      BY <1>2, <1>5, <1>6, <2>1
    <3> HIDE DEF eB, kB, jB
    <3> QED
      BY <1>1, <1>4, <3>1, <3>2
  <2>3. e + k + j \in Int /\ i + x \in Int
    BY <1>1
  <2> QED
    BY <2>2, <2>3, <1>1, ModUnique, Zenon
<1>7. ASSUME (i + x) % B = a PROVE \E j \in Int : x = off + s + j * B
  <2> DEFINE d == (i + x) \div B
  <2>1. d \in Nat /\ i + x = d * B + a
    BY <1>1, <1>7, DivMod
  <2> HIDE DEF d
  <2>2. (d - e - k) * B = d * B - e * B - k * B
    BY <1>1, <2>1
  <2>3. x = off + s + (d - e - k) * B
    <3> DEFINE eB == e * B
               kB == k * B
               dB == d * B
               f == (d - e - k) * B
    <3>1. eB \in Int /\ kB \in Int /\ dB \in Int
      BY <1>1, <2>1
    <3>2. off = kB /\ i + s = a + eB /\ i + x = dB + a /\ f = dB - eB - kB
      BY <1>2, <1>5, <2>1, <2>2
    <3> HIDE DEF eB, kB, dB, f
    <3>3. x = off + s + f
      BY <1>1, <1>4, <3>1, <3>2
    <3> QED
      BY <3>3 DEF f
  <2>4. d - e - k \in Int
    BY <2>1
  <2> QED
    BY <2>3, <2>4
<1> QED
  BY <1>3, <1>6, <1>7 DEF wrap, B

(***************************************************************************)
(* What unwrap() returns, as a multiple of the boundary away from the      *)
(* center, and what it knows about the candidates it did not choose.       *)
(***************************************************************************)
LEMMA UnwrapLemma ==
  ASSUME NEW a \in WrappingInt32, NEW i \in WrappingInt32, NEW cp \in UInt64
  PROVE  LET r == unwrap(a, i, cp)
         IN  /\ r \in UInt64
             /\ wrap(r, i) = a
             /\ \A x \in UInt64 : wrap(x, i) = a => abs(cp - r) <= abs(cp - x)
<1> DEFINE B == WrappingBoundary
           Q == UInt64Boundary
           off == cp - (cp % B)
           s == minus(a, i)
           c == center_seqno(a, i, cp)
           r == unwrap(a, i, cp)
<1>1. B \in Nat \ {0} /\ Q \in Nat /\ cp \in Nat /\ cp < Q
  BY WrappingAssumption DEF UInt64
<1>2. /\ off \in Nat /\ off <= cp /\ cp < off + B /\ off + B <= Q
      /\ cp > B - 1 => off >= B
      /\ cp <= B - 1 => off = 0
      /\ cp < Q - B => off + B + B <= Q
      /\ cp >= Q - B => off + B = Q
  BY Offset
<1>3. c = off + s /\ s \in Nat /\ s < B
  BY MinusLemma DEF center_seqno
<1>4. r = IF cp > B - 1 /\ abs(cp - (c - B)) < abs(cp - c) THEN c - B
          ELSE IF cp < Q - B /\ abs(cp - (c + B)) < abs(cp - c) THEN c + B ELSE c
  BY DEF unwrap
<1>5. \A x \in Nat : wrap(x, i) = a <=> \E j \in Int : x = c + j * B
  BY WrapsIffMultiple
<1> HIDE DEF B, Q, off, s, c, r
<1>6. r \in Nat /\ r < Q /\ (r = c - B \/ r = c + B \/ r = c)
  BY <1>1, <1>2, <1>3, <1>4
<1>7. wrap(r, i) = a
  <2>1. c + (-1) * B = c - B /\ c + 1 * B = c + B /\ c + 0 * B = c /\ -1 \in Int
    BY <1>1, <1>2, <1>3
  <2> QED
    BY <2>1, <1>5, <1>6
<1>8. ASSUME NEW x \in UInt64, wrap(x, i) = a PROVE abs(cp - r) <= abs(cp - x)
  <2>1. x \in Nat /\ x < Q
    BY <1>1 DEF UInt64, Q
  <2>2. PICK j \in Int : x = c + j * B
    BY <2>1, <1>5, <1>8
  <2> DEFINE jB == j * B
  <2>3. jB \in Int /\ x = c + jB
    BY <1>1, <2>2
  <2>4. abs(cp - r) <= abs(cp - c)
    BY <1>1, <1>2, <1>3, <1>4 DEF abs
  <2>5. CASE j >= 2
    <3>1. 2 * B <= jB
      BY <2>5, <1>1, MultipleOrder
    <3> HIDE DEF jB
    <3> QED
      BY <3>1, <2>3, <2>4, <1>1, <1>2, <1>3, <1>6 DEF abs
  <2>6. CASE j <= -2
    <3>1. jB <= (-2) * B
      BY <2>6, <1>1, MultipleOrder
    <3> HIDE DEF jB
    <3> QED
      BY <3>1, <2>3, <2>4, <1>1, <1>2, <1>3, <1>6 DEF abs
  <2>7. CASE j = 1
    <3>1. x = c + B
      BY <2>7, <1>1, <2>2
    <3> QED
      BY <3>1, <2>1, <1>1, <1>2, <1>3, <1>4 DEF abs
  <2>8. CASE j = -1
    <3>1. x = c - B
      BY <2>8, <1>1, <1>2, <1>3, <2>2
    <3> QED
      BY <3>1, <2>1, <1>1, <1>2, <1>3, <1>4 DEF abs
  <2>9. CASE j = 0
    <3>1. x = c
      BY <2>9, <1>1, <1>2, <1>3, <2>2
    <3> QED
      BY <3>1, <2>4
  <2> QED
    BY <2>5, <2>6, <2>7, <2>8, <2>9
<1> QED
  BY <1>1, <1>6, <1>7, <1>8 DEF UInt64, r, Q

\* Within half the boundary of the checkpoint unwrap() undoes wrap().
LEMMA RoundTripLemma ==
  ASSUME NEW x \in UInt64, NEW i \in WrappingInt32, NEW cp \in UInt64,
         2 * abs(x - cp) < WrappingBoundary
  PROVE  unwrap(wrap(x, i), i, cp) = x
<1> DEFINE B == WrappingBoundary
           a == wrap(x, i)
           c == center_seqno(a, i, cp)
           r == unwrap(a, i, cp)
<1>1. B \in Nat \ {0} /\ x \in Nat /\ cp \in Nat /\ i \in WrappingInt32
  BY WrappingAssumption DEF UInt64
<1>2. a \in WrappingInt32
  <2>1. i + x \in Nat
    BY <1>1 DEF WrappingInt32
  <2> QED
    BY <1>1, <2>1, DivMod, Zenon DEF wrap, WrappingInt32
<1>3. /\ r \in UInt64 /\ wrap(r, i) = a
      /\ abs(cp - r) <= abs(cp - x)
  BY <1>2, UnwrapLemma
<1>4. r \in Nat
  BY <1>3 DEF UInt64
<1>5. PICK j \in Int : x = c + j * B
  BY <1>1, <1>2, WrapsIffMultiple, Zenon
<1>6. PICK k \in Int : r = c + k * B
  BY <1>2, <1>3, <1>4, WrapsIffMultiple
<1>7. c \in Int
  BY <1>1, <1>2, MinusLemma, Offset DEF center_seqno
<1> HIDE DEF B, a, c, r
<1>8. (r - x < B /\ x - r < B)
  BY <1>1, <1>3, <1>4 DEF abs, B
<1> DEFINE jB == j * B
           kB == k * B
<1>9. jB \in Int /\ kB \in Int /\ x = c + jB /\ r = c + kB
  BY <1>1, <1>5, <1>6
<1>10. (k - 1) * B = kB - B /\ (j - 1) * B = jB - B
  BY <1>1
<1>11. ~(j <= k - 1)
  <2> SUFFICES ASSUME j <= k - 1 PROVE FALSE
    OBVIOUS
  <2>1. jB <= (k - 1) * B
    BY <1>1, MultipleOrder
  <2> HIDE DEF jB, kB
  <2> QED
    BY <2>1, <1>1, <1>7, <1>8, <1>9, <1>10
<1>12. ~(k <= j - 1)
  <2> SUFFICES ASSUME k <= j - 1 PROVE FALSE
    OBVIOUS
  <2>1. kB <= (j - 1) * B
    BY <1>1, MultipleOrder
  <2> HIDE DEF jB, kB
  <2> QED
    BY <2>1, <1>1, <1>7, <1>8, <1>9, <1>10
<1>13. j = k
  BY <1>11, <1>12
<1>14. r = x
  BY <1>5, <1>6, <1>13
<1> QED
  BY <1>14 DEF r, a

-----------------------------------------------------------------------------
\* unwrap() returns a 64-bit number that wraps to its argument, at both ends
\* of the range too, and of those the closest to the checkpoint.
THEOREM UnwrapIsClosest ==
  \A n, isn \in WrappingInt32, checkpoint \in UInt64 : UnwrapClosest(n, isn, checkpoint)
  BY UnwrapLemma DEF UnwrapClosest

\* Within half the boundary of the checkpoint unwrap() undoes wrap().
THEOREM UnwrapInverts == RoundTrip
  BY RoundTripLemma DEF RoundTrip
=============================================================================
