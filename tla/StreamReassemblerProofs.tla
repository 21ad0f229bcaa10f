----------------------- MODULE StreamReassemblerProofs -----------------------
(***************************************************************************)
(* For every capacity and every stream: the reassembler puts the stream in *)
(* order, keeps what it promised to keep and delivers what it can.         *)
(*                                                                         *)
(* The lemmas are about the operators of StreamReassembler on an arbitrary *)
(* record, so that they can be used wherever a reassembler is embedded.    *)
(***************************************************************************)
EXTENDS StreamReassemblerSpec, SequenceTheorems, TLAPS

\* An excerpt is a sequence of positions of the length asked for.
LEMMA ExcerptType ==
  ASSUME NEW i \in Nat, NEW n \in Nat
  PROVE  /\ Excerpt(i, n) \in Seq(Nat)
         /\ Len(Excerpt(i, n)) = n
         /\ \A k \in 1..n : Excerpt(i, n)[k] = i + k - 1
BY DEF Excerpt

\* A part of an excerpt is an excerpt.
LEMMA ExcerptSubSeq ==
  ASSUME NEW i \in Nat, NEW n \in Nat, NEW a \in 1..(n + 1), NEW m \in (a - 1)..n
  PROVE  SubSeq(Excerpt(i, n), a, m) = Excerpt(i + a - 1, m - a + 1)
<1> DEFINE s == Excerpt(i, n)
           t == Excerpt(i + a - 1, m - a + 1)
<1>1. s \in Seq(Nat) /\ Len(s) = n /\ \A k \in 1..n : s[k] = i + k - 1
  BY ExcerptType
<1>2. t \in Seq(Nat) /\ Len(t) = m - a + 1
      /\ \A k \in 1..(m - a + 1) : t[k] = (i + a - 1) + k - 1
  <2>1. i + a - 1 \in Nat /\ m - a + 1 \in Nat
    OBVIOUS
  <2> QED
    BY <2>1, ExcerptType, Zenon
<1>3. SubSeq(s, a, m) \in Seq(Nat) /\ Len(SubSeq(s, a, m)) = m - a + 1
      /\ \A k \in 1..(m - a + 1) : SubSeq(s, a, m)[k] = s[a + k - 1]
  BY <1>1
<1>4. ASSUME NEW k \in 1..(m - a + 1)
      PROVE  SubSeq(s, a, m)[k] = t[k]
  BY <1>1, <1>2, <1>3
<1> QED
  BY <1>2, <1>3, <1>4, SeqEqual

\* Two adjoining excerpts make one.
LEMMA ExcerptConcat ==
  ASSUME NEW i \in Nat, NEW n \in Nat, NEW m \in Nat
  PROVE  Excerpt(i, n) \o Excerpt(i + n, m) = Excerpt(i, n + m)
<1> DEFINE s == Excerpt(i, n)
           t == Excerpt(i + n, m)
           u == Excerpt(i, n + m)
<1>1. s \in Seq(Nat) /\ Len(s) = n /\ \A k \in 1..n : s[k] = i + k - 1
  BY ExcerptType
<1>2. t \in Seq(Nat) /\ Len(t) = m /\ \A k \in 1..m : t[k] = (i + n) + k - 1
  <2>1. i + n \in Nat
    OBVIOUS
  <2> QED
    BY <2>1, ExcerptType
<1>3. u \in Seq(Nat) /\ Len(u) = n + m /\ \A k \in 1..(n + m) : u[k] = i + k - 1
  <2>1. n + m \in Nat
    OBVIOUS
  <2> QED
    BY <2>1, ExcerptType
<1> HIDE DEF s, t, u
<1>4. /\ s \o t \in Seq(Nat) /\ Len(s \o t) = n + m
      /\ \A k \in 1..(n + m) : (s \o t)[k] = IF k <= n THEN s[k] ELSE t[k - n]
  BY <1>1, <1>2, ConcatProperties, Zenon
<1>5. ASSUME NEW k \in 1..(n + m)
      PROVE  (s \o t)[k] = u[k]
  <2>1. CASE k <= n
    BY <2>1, <1>1, <1>3, <1>4
  <2>2. CASE k > n
    <3>1. k - n \in 1..m /\ ~(k <= n)
      BY <2>2
    <3>2. t[k - n] = i + k - 1
      BY <3>1, <1>2
    <3>3. (s \o t)[k] = t[k - n]
      BY <3>1, <1>4
    <3>4. u[k] = i + k - 1
      BY <1>3
    <3> QED
      BY <3>2, <3>3, <3>4
  <2>3. k <= n \/ k > n
    OBVIOUS
  <2> QED
    BY <2>1, <2>2, <2>3, Zenon
<1>6. s \o t = u
  BY <1>3, <1>4, <1>5, SeqEqual, Zenon
<1> QED
  BY <1>6 DEF s, t, u

\* An excerpt of no bytes is the empty sequence.
LEMMA ExcerptEmpty ==
  ASSUME NEW i \in Nat
  PROVE  Excerpt(i, 0) = <<>>
BY ExcerptType

\* A ByteString whose bytes are the ones at its place in the stream.
IsBlock(u) == u \in ByteString /\ u.str = Excerpt(u.index, Len(u.str))

\* No two ByteStrings of U overlap or touch.
Apart(U) == \A u, v \in U : u # v => ~can_coalesce(u, v)

\* The ends of a ByteString are natural numbers.
LEMMA BlockType ==
  ASSUME NEW u, IsBlock(u)
  PROVE  /\ u.index \in Nat /\ u.str \in Seq(Nat) /\ Len(u.str) \in Nat
         /\ index_right(u) \in Nat /\ index_right(u) = u.index + Len(u.str)
         /\ u.index <= index_right(u)
BY DEF IsBlock, ByteString, index_right

\* What coalesce() puts in front of b: the bytes before b of the stored
\* ByteString that starts before b, if there is one.
LEMMA HeadOfCoalesce ==
  ASSUME NEW b, IsBlock(b), NEW T, \A u \in T : IsBlock(u) /\ can_coalesce(b, u)
  PROVE  \E lo \in Nat :
           /\ lo <= b.index
           /\ head_of(b, T) = Excerpt(lo, b.index - lo)
           /\ Len(head_of(b, T)) = b.index - lo
           /\ \/ (\A u \in T : ~(u.index < b.index)) /\ lo = b.index
              \/ \E u \in T : u.index < b.index /\ lo = u.index
<1> DEFINE left == {u \in T : u.index < b.index}
           head == head_of(b, T)
<1>0. b.index \in Nat
  BY BlockType
<1>1. CASE left = {}
  <2>1. head = <<>> /\ b.index - b.index = 0 /\ Len(head) = 0
    BY <1>1, <1>0 DEF head_of
  <2> QED
    BY <2>1, <1>0, <1>1, ExcerptEmpty
<1>2. CASE left # {}
  <2> DEFINE u == CHOOSE u \in left : TRUE
             m == b.index - u.index
  <2>1. u \in left /\ head = SubSeq(u.str, 1, m)
    BY <1>2, Zenon DEF head_of
  <2> HIDE DEF u
  <2>2. IsBlock(u) /\ can_coalesce(b, u) /\ u.index < b.index
    BY <2>1
  <2>3. /\ u.index \in Nat /\ Len(u.str) \in Nat /\ u.str = Excerpt(u.index, Len(u.str))
        /\ b.index <= u.index + Len(u.str)
    BY <2>2, BlockType DEF can_coalesce, IsBlock
  <2>4. m \in 0..Len(u.str) /\ 1 \in 1..(Len(u.str) + 1) /\ m \in (1 - 1)..Len(u.str)
    BY <2>2, <2>3, <1>0
  <2>5. SubSeq(Excerpt(u.index, Len(u.str)), 1, m) = Excerpt(u.index + 1 - 1, m - 1 + 1)
    BY <2>3, <2>4, ExcerptSubSeq, Zenon
  <2>6. u.index + 1 - 1 = u.index /\ m - 1 + 1 = m
    BY <2>3, <2>4
  <2>7. head = Excerpt(u.index, m)
    BY <2>1, <2>3, <2>5, <2>6
  <2>8. Len(head) = m
    <3>1. u.index \in Nat /\ m \in Nat
      BY <2>3, <2>4
    <3>2. Len(Excerpt(u.index, m)) = m
      BY <3>1, ExcerptType, Zenon
    <3> QED
      BY <2>7, <3>2
  <2> u.index \in Nat
    BY <2>3
  <2> WITNESS u.index \in Nat
  <2>9. u.index <= b.index
    BY <2>2, <2>3, <1>0
  <2> QED
    BY <1>2, <2>1, <2>7, <2>8, <2>9, Zenon
<1> QED
  BY <1>1, <1>2

\* What coalesce() puts after b: the bytes after b of the stored ByteString
\* that ends after b, if there is one.
LEMMA TailOfCoalesce ==
  ASSUME NEW b, IsBlock(b), NEW T, \A u \in T : IsBlock(u) /\ can_coalesce(b, u)
  PROVE  \E hi \in Nat :
           /\ index_right(b) <= hi
           /\ tail_of(b, T) = Excerpt(index_right(b), hi - index_right(b))
           /\ Len(tail_of(b, T)) = hi - index_right(b)
           /\ \/ (\A u \in T : ~(index_right(u) > index_right(b))) /\ hi = index_right(b)
              \/ \E u \in T : index_right(u) > index_right(b) /\ hi = index_right(u)
<1> DEFINE right == {u \in T : index_right(u) > index_right(b)}
           tail == tail_of(b, T)
<1>0. index_right(b) \in Nat
  BY BlockType
<1>1. CASE right = {}
  <2>1. tail = <<>> /\ index_right(b) - index_right(b) = 0 /\ Len(tail) = 0
    BY <1>1, <1>0 DEF tail_of
  <2> QED
    BY <2>1, <1>0, <1>1, ExcerptEmpty
<1>2. CASE right # {}
  <2> DEFINE u == CHOOSE u \in right : TRUE
             a == index_right(b) - u.index + 1
             n == Len(u.str)
  <2>1. u \in right /\ tail = SubSeq(u.str, a, n)
    BY <1>2, Zenon DEF tail_of
  <2> HIDE DEF u
  <2>2. IsBlock(u) /\ can_coalesce(b, u) /\ index_right(u) > index_right(b)
    BY <2>1
  <2>3. /\ u.index \in Nat /\ n \in Nat /\ u.str = Excerpt(u.index, n)
        /\ u.index <= index_right(b) /\ index_right(u) = u.index + n
    BY <2>2, BlockType DEF can_coalesce, IsBlock
  <2>4. a \in 1..(n + 1) /\ n \in (a - 1)..n
    BY <2>2, <2>3, <1>0
  <2>5. SubSeq(Excerpt(u.index, n), a, n) = Excerpt(u.index + a - 1, n - a + 1)
    BY <2>3, <2>4, ExcerptSubSeq, Zenon
  <2>6. u.index + a - 1 = index_right(b) /\ n - a + 1 = index_right(u) - index_right(b)
    BY <2>3, <1>0
  <2>7. tail = Excerpt(index_right(b), index_right(u) - index_right(b))
    BY <2>1, <2>3, <2>5, <2>6
  <2>8. index_right(u) \in Nat /\ index_right(u) - index_right(b) \in Nat
    BY <2>2, <2>3, <1>0
  <2>9. Len(tail) = index_right(u) - index_right(b)
    BY <2>7, <2>8, <1>0, ExcerptType
  <2> index_right(u) \in Nat
    BY <2>8
  <2> WITNESS index_right(u) \in Nat
  <2>10. index_right(b) <= index_right(u)
    BY <2>2, <2>8, <1>0
  <2> QED
    BY <1>2, <2>1, <2>7, <2>9, <2>10, Zenon
<1> QED
  BY <1>1, <1>2

(***************************************************************************)
(* coalesce() makes one block of b and of everything it touches: it covers *)
(* all of them, reaches no further than they do, and touches none of the   *)
(* other blocks.                                                           *)
(***************************************************************************)
LEMMA CoalesceBlock ==
  ASSUME NEW b, IsBlock(b), NEW U, \A u \in U : IsBlock(u), Apart(U),
         NEW T, T = {u \in U : can_coalesce(b, u)}
  PROVE  LET c == coalesce(b, T)
         IN  /\ IsBlock(c)
             /\ c.index <= b.index /\ index_right(b) <= index_right(c)
             /\ \A u \in T : c.index <= u.index /\ index_right(u) <= index_right(c)
             /\ c.index = b.index \/ \E u \in T : c.index = u.index
             /\ \/ index_right(c) = index_right(b)
                \/ \E u \in T : index_right(c) = index_right(u)
             /\ \A v \in U \ T : ~can_coalesce(c, v)
<1> DEFINE head == head_of(b, T)
           tail == tail_of(b, T)
           c == coalesce(b, T)
           R == index_right(b)
<1>1. c = [index |-> b.index - Len(head), str |-> head \o b.str \o tail]
  BY DEF coalesce
<1>2. \A u \in T : IsBlock(u) /\ can_coalesce(b, u)
  OBVIOUS
<1>3. PICK lo \in Nat :
        /\ lo <= b.index
        /\ head = Excerpt(lo, b.index - lo)
        /\ Len(head) = b.index - lo
        /\ \/ (\A u \in T : ~(u.index < b.index)) /\ lo = b.index
           \/ \E u \in T : u.index < b.index /\ lo = u.index
  BY <1>2, HeadOfCoalesce, Zenon
<1>4. PICK hi \in Nat :
        /\ R <= hi
        /\ tail = Excerpt(R, hi - R)
        /\ Len(tail) = hi - R
        /\ \/ (\A u \in T : ~(index_right(u) > R)) /\ hi = R
           \/ \E u \in T : index_right(u) > R /\ hi = index_right(u)
  BY <1>2, TailOfCoalesce, Zenon
<1> HIDE DEF head, tail, c
<1>5. /\ b.index \in Nat /\ Len(b.str) \in Nat /\ R \in Nat
      /\ R = b.index + Len(b.str) /\ b.str = Excerpt(b.index, Len(b.str))
  BY BlockType DEF IsBlock
<1>6. c.index = lo /\ c.str = Excerpt(lo, hi - lo)
  <2>1. b.index - Len(head) = lo
    BY <1>3, <1>5
  <2>2. /\ b.index - lo \in Nat /\ hi - R \in Nat /\ R - lo \in Nat
        /\ lo + (b.index - lo) = b.index /\ lo + (R - lo) = R
        /\ (b.index - lo) + Len(b.str) = R - lo
        /\ (R - lo) + (hi - R) = hi - lo
    <3> DEFINE x == b.index
               n == Len(b.str)
    <3>1. lo <= x /\ R <= hi /\ x \in Nat /\ n \in Nat /\ R = x + n /\ R \in Nat
      BY <1>3, <1>4, <1>5
    <3> HIDE DEF x, n, R
    <3>2. /\ x - lo \in Nat /\ hi - R \in Nat /\ R - lo \in Nat
          /\ lo + (x - lo) = x /\ lo + (R - lo) = R
          /\ (x - lo) + n = R - lo
          /\ (R - lo) + (hi - R) = hi - lo
      BY <3>1
    <3> QED
      BY <3>2 DEF x, n
  <2>3. Excerpt(lo, b.index - lo) \o Excerpt(lo + (b.index - lo), Len(b.str))
          = Excerpt(lo, (b.index - lo) + Len(b.str))
    <3>1. lo \in Nat /\ b.index - lo \in Nat /\ Len(b.str) \in Nat
      BY <2>2, <1>5
    <3> QED
      BY <3>1, ExcerptConcat, Zenon
  <2>4. head \o b.str = Excerpt(lo, R - lo)
    BY <2>2, <2>3, <1>3, <1>5, Zenon
  <2>5. Excerpt(lo, R - lo) \o Excerpt(lo + (R - lo), hi - R)
          = Excerpt(lo, (R - lo) + (hi - R))
    BY <2>2, ExcerptConcat, Zenon
  <2>6. (head \o b.str) \o tail = Excerpt(lo, hi - lo)
    BY <2>2, <2>4, <2>5, <1>4, Zenon
  <2> QED
    BY <1>1, <2>1, <2>6
<1>7. hi - lo \in Nat /\ lo <= hi /\ Len(c.str) = hi - lo /\ c.str \in Seq(Nat)
  <2>1. hi - lo \in Nat /\ lo <= hi
    BY <1>3, <1>4, <1>5
  <2>2. Len(Excerpt(lo, hi - lo)) = hi - lo /\ Excerpt(lo, hi - lo) \in Seq(Nat)
    BY <2>1, ExcerptType
  <2> QED
    BY <2>1, <2>2, <1>6
<1>8. index_right(c) = hi
  BY <1>6, <1>7 DEF index_right
<1>9. IsBlock(c)
  <2>1. c = [index |-> lo, str |-> Excerpt(lo, hi - lo)]
    BY <1>1, <1>6, Zenon
  <2>2. c \in ByteString
    BY <2>1, <1>6, <1>7 DEF ByteString
  <2> QED
    BY <2>2, <1>6, <1>7 DEF IsBlock
<1>10. ASSUME NEW u \in U
       PROVE  /\ u.index \in Nat /\ index_right(u) \in Nat /\ u.index <= index_right(u)
  BY BlockType
<1>11. \A u \in T : u \in U /\ u.index <= R /\ b.index <= index_right(u)
  BY DEF can_coalesce
<1>12. \A u, v \in U : u # v => ~(u.index <= index_right(v) /\ v.index <= index_right(u))
  BY DEF Apart, can_coalesce
<1>13. \A u \in T : lo <= u.index
  <2> SUFFICES ASSUME NEW u \in T PROVE lo <= u.index
    OBVIOUS
  <2>1. CASE u.index < b.index
    <3>2. PICK w \in T : w.index < b.index /\ lo = w.index
      BY <2>1, <1>3
    <3>3. w \in T /\ w.index < b.index
      BY <3>2
    <3>4. w.index <= index_right(u) /\ u.index <= index_right(w)
      BY <3>3, <2>1, <1>5, <1>10, <1>11
    <3>5. w = u
      BY <3>3, <3>4, <1>11, <1>12
    <3> QED
      BY <3>2, <3>5, <1>10, <1>11
  <2>2. CASE ~(u.index < b.index)
    BY <2>2, <1>3, <1>5, <1>10, <1>11
  <2> QED
    BY <2>1, <2>2
<1>14. \A u \in T : index_right(u) <= hi
  <2> SUFFICES ASSUME NEW u \in T PROVE index_right(u) <= hi
    OBVIOUS
  <2>1. CASE index_right(u) > R
    <3>2. PICK w \in T : index_right(w) > R /\ hi = index_right(w)
      BY <2>1, <1>4
    <3>3. w \in T /\ index_right(w) > R
      BY <3>2
    <3>4. w.index <= index_right(u) /\ u.index <= index_right(w)
      BY <3>3, <2>1, <1>5, <1>10, <1>11
    <3>5. w = u
      BY <3>3, <3>4, <1>11, <1>12
    <3> QED
      BY <3>2, <3>5, <1>10, <1>11
  <2>2. CASE ~(index_right(u) > R)
    BY <2>2, <1>4, <1>5, <1>10, <1>11
  <2> QED
    BY <2>1, <2>2
<1>15. lo = b.index \/ \E u \in T : lo = u.index /\ u.index < b.index
  BY <1>3
<1>16. hi = R \/ \E u \in T : hi = index_right(u) /\ index_right(u) > R
  BY <1>4
<1>17. \A v \in U \ T : ~can_coalesce(c, v)
  <2> SUFFICES ASSUME NEW v \in U, v \notin T,
                      lo <= index_right(v), v.index <= hi
               PROVE  FALSE
    BY <1>6, <1>8 DEF can_coalesce
  <2>1. index_right(v) < b.index \/ R < v.index
    <3>1. ~(b.index <= index_right(v) /\ v.index <= R)
      BY DEF can_coalesce
    <3> QED
      BY <3>1, <1>5, <1>10
  <2>2. CASE index_right(v) < b.index
    <3>1. PICK u \in T : lo = u.index /\ u.index < b.index
      BY <2>2, <1>5, <1>10, <1>15
    <3>2. u \in U /\ u # v /\ b.index <= index_right(u)
      BY <3>1, <1>11
    <3>3. u.index <= index_right(v) /\ v.index <= index_right(u)
      BY <3>1, <3>2, <2>2, <1>5, <1>10
    <3> QED
      BY <3>2, <3>3, <1>12
  <2>3. CASE R < v.index
    <3>1. PICK u \in T : hi = index_right(u) /\ index_right(u) > R
      BY <2>3, <1>5, <1>10, <1>16
    <3>2. u \in U /\ u # v /\ u.index <= R
      BY <3>1, <1>11
    <3>3. u.index <= index_right(v) /\ v.index <= index_right(u)
      BY <3>1, <3>2, <2>3, <1>5, <1>10
    <3> QED
      BY <3>2, <3>3, <1>12
  <2> QED
    BY <2>1, <2>2, <2>3
<1> QED
  BY <1>3, <1>4, <1>6, <1>8, <1>9, <1>13, <1>14, <1>15, <1>16, <1>17, Zenon DEF c

-----------------------------------------------------------------------------
\* The output holds the bytes from bytes_read on, in order.
StreamInv(o) ==
  /\ o \in OutputRecord
  /\ o.buffer = Excerpt(o.bytes_read, Len(o.buffer))
  /\ o.bytes_written = o.bytes_read + Len(o.buffer)
  /\ Len(o.buffer) <= Capacity

\* What holds of the record between any two statements of push_substring().
Core(r) ==
  /\ r \in ReassemblerRecord
  /\ StreamInv(r.output)
  /\ r.output.bytes_written = r.index
  /\ r.index <= StreamLen
  /\ \A u \in r.unassembled_bytes :
       IsBlock(u) /\ u.index >= r.index /\ index_right(u) <= StreamLen
  /\ Apart(r.unassembled_bytes)
  /\ r.eof_set => r.eof = StreamLen
  /\ r.eof_set /\ r.index = StreamLen => r.output.eof

\* What holds once flush_to_output() has run.
Flushed(r) == \A u \in r.unassembled_bytes : u.index > r.index

\* Position p is stored.
Stored(r, p) == \E u \in r.unassembled_bytes : u.index <= p /\ p < index_right(u)

\* The first position beyond the room there is.
Edge(r) == r.output.bytes_read + Capacity

\* The numbers that Core is about.
LEMMA CoreArithmetic ==
  ASSUME NEW r, Core(r)
  PROVE  /\ r.index \in Nat /\ r.capacity = Capacity /\ Capacity \in Nat
         /\ StreamLen \in Nat /\ Len(r.output.buffer) \in Nat
         /\ r.output.bytes_read \in Nat /\ r.output \in OutputRecord
         /\ r.index = r.output.bytes_read + Len(r.output.buffer)
         /\ Edge(r) = r.index + r.capacity - buffer_size(r.output)
         /\ buffer_size(r.output) = Len(r.output.buffer)
         /\ r.index <= Edge(r) /\ Edge(r) <= r.index + Capacity /\ Edge(r) \in Nat
<1>1. /\ r.index \in Nat /\ r.capacity = Capacity /\ r.output \in OutputRecord
      /\ r.output.bytes_read \in Nat /\ r.output.buffer \in Seq(Nat)
  BY DEF Core, ReassemblerRecord, OutputRecord
<1>2. Len(r.output.buffer) \in Nat
  BY <1>1
<1>3. r.index = r.output.bytes_read + Len(r.output.buffer) /\ Len(r.output.buffer) <= Capacity
  BY DEF Core, StreamInv
<1>4. Capacity \in Nat /\ StreamLen \in Nat
  BY ReassemblerAssumption
<1> DEFINE x == r.index
           br == r.output.bytes_read
           n == Len(r.output.buffer)
<1>5. Edge(r) = br + Capacity /\ buffer_size(r.output) = n
  BY DEF Edge, buffer_size
<1>6. x \in Nat /\ br \in Nat /\ n \in Nat /\ x = br + n /\ n <= Capacity
  BY <1>1, <1>2, <1>3
<1> HIDE DEF x, br, n
<1>7. /\ br + Capacity = x + Capacity - n
      /\ x <= br + Capacity /\ br + Capacity <= x + Capacity /\ br + Capacity \in Nat
  BY <1>4, <1>6
<1> QED
  BY <1>1, <1>4, <1>5, <1>6, <1>7 DEF x, br, n

\* set_eof() with the true end of the stream.
LEMMA SetEof ==
  ASSUME NEW r, Core(r), Flushed(r)
  PROVE  LET s == set_eof(r, StreamLen)
         IN  /\ Core(s) /\ Flushed(s)
             /\ s.index = r.index /\ s.unassembled_bytes = r.unassembled_bytes
             /\ Edge(s) = Edge(r)
<1> DEFINE s == set_eof(r, StreamLen)
           o == r.output
           out == IF StreamLen <= r.index + 1 THEN end_input(o) ELSE o
<1>1. r \in ReassemblerRecord /\ o \in OutputRecord /\ StreamLen \in Nat
  BY ReassemblerAssumption DEF Core, ReassemblerRecord
<1>2. /\ out \in OutputRecord /\ out.buffer = o.buffer
      /\ out.bytes_read = o.bytes_read /\ out.bytes_written = o.bytes_written
      /\ StreamLen <= r.index + 1 => out.eof
  BY <1>1, Zenon DEF end_input, OutputRecord
<1>3. s = [r EXCEPT !.eof = StreamLen, !.eof_set = TRUE, !.output = out]
  BY DEF set_eof
<1> HIDE DEF out, s
<1>4. /\ s \in ReassemblerRecord /\ s.output = out /\ s.index = r.index
      /\ s.unassembled_bytes = r.unassembled_bytes /\ s.eof = StreamLen
  BY <1>1, <1>2, <1>3, Zenon DEF ReassemblerRecord
<1>5. StreamInv(s.output) /\ s.output.bytes_written = s.index
  BY <1>2, <1>4 DEF Core, StreamInv
<1>6. r.index \in Nat
  BY CoreArithmetic
<1>7. s.index = StreamLen => s.output.eof
  BY <1>1, <1>2, <1>4, <1>6
<1>8. Core(s)
  BY <1>4, <1>5, <1>7 DEF Core
<1>9. Edge(s) = Edge(r) /\ Flushed(s)
  BY <1>2, <1>4 DEF Edge, Flushed
<1> QED
  BY <1>4, <1>8, <1>9 DEF s

\* The part of an excerpt that is neither assembled already nor cut at the
\* right is a block, and has every position of the excerpt inside the window.
LEMMA CutBlock ==
  ASSUME NEW r, Core(r), NEW i \in Nat, NEW n \in Nat,
         i + n <= StreamLen, r.index < i + n
  PROVE  LET b == cut_right(r, cut_left(r, Excerpt(i, n), i))
         IN  /\ IsBlock(b) /\ b.index >= r.index /\ index_right(b) <= StreamLen
             /\ \A p \in i..(i + n - 1) :
                  r.index <= p /\ p < Edge(r) => b.index <= p /\ p < index_right(b)
<1> DEFINE x == r.index
           a == cut_left(r, Excerpt(i, n), i)
           b == cut_right(r, a)
           lo == IF i < x THEN x ELSE i
           m == i + n - lo
<1>1. /\ x \in Nat /\ StreamLen \in Nat /\ Capacity \in Nat /\ SizeMax \in Nat
      /\ SizeMax >= 2 * StreamLen + 2 * Capacity
      /\ Edge(r) = x + r.capacity - buffer_size(r.output)
      /\ x <= Edge(r) /\ Edge(r) <= x + Capacity /\ Edge(r) \in Nat
  BY CoreArithmetic, ReassemblerAssumption, SizeMaxAssumption
<1>2. lo \in Nat /\ m \in Nat /\ lo + m = i + n /\ lo <= i + n /\ x <= lo /\ i <= lo
  BY <1>1
<1>3. a = [index |-> lo, str |-> Excerpt(lo, m)]
  <2>1. CASE i < x
    <3>1. /\ x - i + 1 \in 1..(n + 1) /\ n \in ((x - i + 1) - 1)..n
          /\ i + (x - i + 1) - 1 = lo /\ n - (x - i + 1) + 1 = m
      BY <2>1, <1>1
    <3>2. SubSeq(Excerpt(i, n), x - i + 1, n)
            = Excerpt(i + (x - i + 1) - 1, n - (x - i + 1) + 1)
      BY <3>1, ExcerptSubSeq, Zenon
    <3>3. Len(Excerpt(i, n)) = n
      BY ExcerptType
    <3> QED
      BY <2>1, <3>1, <3>2, <3>3, Zenon DEF cut_left
  <2>2. CASE ~(i < x)
    BY <2>2, <1>1 DEF cut_left
  <2> QED
    BY <2>1, <2>2
<1>4. Excerpt(lo, m) \in Seq(Nat) /\ Len(Excerpt(lo, m)) = m
  BY <1>2, ExcerptType
<1> DEFINE rb == size_t(Edge(r) - lo)
           k == IF rb < m THEN rb ELSE m
<1> HIDE DEF a, lo, m
<1>5. rb \in Nat
  BY <1>1, <1>2 DEF size_t
<1>6. k \in 0..m
  BY <1>2, <1>5
<1>7. b = [index |-> lo, str |-> Excerpt(lo, k)]
  <2>1. a.index = lo /\ a.str = Excerpt(lo, m)
    BY <1>3
  <2>2. b = [a EXCEPT !.str = first_bytes(@, rb)]
    <3>1. /\ Edge(r) = r.index + r.capacity - buffer_size(r.output)
          /\ r.index \in Nat /\ r.capacity \in Nat /\ buffer_size(r.output) \in Nat
          /\ a.index = lo /\ lo \in Nat
      BY <2>1, <1>2, CoreArithmetic
    <3>2. b = [a EXCEPT !.str =
                 first_bytes(@, size_t(r.index + r.capacity
                                         - buffer_size(r.output) - a.index))]
      BY Zenon DEF cut_right
    <3>3. size_t(r.index + r.capacity - buffer_size(r.output) - a.index) = rb
      BY <3>1
    <3> HIDE DEF b, rb
    <3> QED
      BY <3>2, <3>3, Zenon
  <2>3. first_bytes(a.str, rb) = SubSeq(Excerpt(lo, m), 1, k)
    BY <2>1, <1>4 DEF first_bytes
  <2>4. SubSeq(Excerpt(lo, m), 1, k) = Excerpt(lo + 1 - 1, k - 1 + 1)
    <3>1. 1 \in 1..(m + 1) /\ k \in (1 - 1)..m
      BY <1>2, <1>6
    <3> QED
      BY <3>1, <1>2, ExcerptSubSeq, Zenon
  <2>5. lo + 1 - 1 = lo /\ k - 1 + 1 = k
    BY <1>2, <1>6
  <2>6. b = [a EXCEPT !.str = Excerpt(lo, k)]
    BY <2>2, <2>3, <2>4, <2>5, Zenon
  <2> QED
    BY <2>6, <1>3
<1> HIDE DEF b
<1>8. Excerpt(lo, k) \in Seq(Nat) /\ Len(Excerpt(lo, k)) = k /\ k \in Nat
  <2> HIDE DEF k
  <2>1. k \in Nat
    BY <1>2, <1>6
  <2> QED
    BY <2>1, <1>2, ExcerptType
<1>9. IsBlock(b) /\ index_right(b) = lo + k /\ b.index = lo
  BY <1>2, <1>7, <1>8 DEF IsBlock, ByteString, index_right
<1>10. b.index >= r.index /\ index_right(b) <= StreamLen
  BY <1>1, <1>2, <1>6, <1>9
<1>11. ASSUME NEW p \in i..(i + n - 1), x <= p, p < Edge(r)
       PROVE  lo <= p /\ p < lo + k
  <2>1. p \in Nat /\ p < i + n /\ i <= p
    OBVIOUS
  <2>2. lo <= p
    BY <1>11, <2>1, <1>1, <1>2 DEF lo
  <2>3. rb = Edge(r) - lo
    BY <2>1, <2>2, <1>11, <1>1, <1>2 DEF size_t
  <2>4. p < lo + k
    BY <2>1, <2>2, <2>3, <1>11, <1>1, <1>2
  <2> QED
    BY <2>2, <2>4
<1> QED
  BY <1>9, <1>10, <1>11 DEF b, a

\* push_unassembled_bytes() keeps the record in order, forgets nothing that
\* was stored and stores every position of the excerpt inside the window.
LEMMA PushUnassembledBytes ==
  ASSUME NEW r, Core(r), NEW i \in Nat, NEW n \in Nat,
         i + n <= StreamLen, r.index < i + n
  PROVE  LET s == push_unassembled_bytes(r, Excerpt(i, n), i)
         IN  /\ Core(s) /\ s.index = r.index /\ Edge(s) = Edge(r)
             /\ \A p \in Nat : Stored(r, p) => Stored(s, p)
             /\ \A p \in i..(i + n - 1) :
                  r.index <= p /\ p < Edge(r) => Stored(s, p)
<1> DEFINE U == r.unassembled_bytes
           b == cut_right(r, cut_left(r, Excerpt(i, n), i))
           T == {u \in U : can_coalesce(b, u)}
           c == coalesce(b, T)
           V == (U \ T) \cup {c}
           s == push_unassembled_bytes(r, Excerpt(i, n), i)
<1>1. s = [r EXCEPT !.unassembled_bytes = V]
  <2>1. Len(Excerpt(i, n)) = n /\ r.index \in Nat
    BY ExcerptType, CoreArithmetic
  <2>2. ~(i + Len(Excerpt(i, n)) <= r.index)
    BY <2>1
  <2> QED
    BY <2>2 DEF push_unassembled_bytes
<1>2. /\ IsBlock(b) /\ b.index >= r.index /\ index_right(b) <= StreamLen
      /\ \A p \in i..(i + n - 1) :
           r.index <= p /\ p < Edge(r) => b.index <= p /\ p < index_right(b)
  BY CutBlock
<1> HIDE DEF b, s
<1>3. /\ \A u \in U : IsBlock(u) /\ u.index >= r.index /\ index_right(u) <= StreamLen
      /\ Apart(U) /\ r \in ReassemblerRecord
  BY DEF Core
<1>4. /\ IsBlock(c)
      /\ c.index <= b.index /\ index_right(b) <= index_right(c)
      /\ \A u \in T : c.index <= u.index /\ index_right(u) <= index_right(c)
      /\ c.index = b.index \/ \E u \in T : c.index = u.index
      /\ index_right(c) = index_right(b) \/ \E u \in T : index_right(c) = index_right(u)
      /\ \A v \in U \ T : ~can_coalesce(c, v)
  BY <1>2, <1>3, CoalesceBlock, Zenon
<1> HIDE DEF c
<1>5. c.index >= r.index /\ index_right(c) <= StreamLen
  BY <1>2, <1>3, <1>4
<1>6. \A u \in V : IsBlock(u) /\ u.index >= r.index /\ index_right(u) <= StreamLen
  BY <1>3, <1>4, <1>5
<1>7. Apart(V)
  BY <1>3, <1>4 DEF Apart, can_coalesce
<1>8. /\ s \in ReassemblerRecord /\ s.unassembled_bytes = V /\ s.output = r.output
      /\ s.index = r.index /\ s.eof = r.eof /\ s.eof_set = r.eof_set
  <2>1. V \in SUBSET ByteString
    BY <1>6 DEF IsBlock
  <2> HIDE DEF V
  <2> QED
    BY <1>1, <1>3, <2>1 DEF ReassemblerRecord
<1>9. Core(s)
  BY <1>6, <1>7, <1>8 DEF Core
<1>10. Edge(s) = Edge(r)
  BY <1>8 DEF Edge
<1>11. r.index \in Nat /\ Edge(r) \in Nat
  BY CoreArithmetic
<1>12. /\ b.index \in Nat /\ index_right(b) \in Nat /\ c.index \in Nat /\ index_right(c) \in Nat
       /\ \A u \in U : u.index \in Nat /\ index_right(u) \in Nat
  BY <1>2, <1>3, <1>4, BlockType
<1>13. ASSUME NEW p \in Nat, Stored(r, p) PROVE Stored(s, p)
  <2>1. PICK u \in U : u.index <= p /\ p < index_right(u)
    BY <1>13 DEF Stored
  <2>2. CASE u \in T
    <3>1. c.index <= p /\ p < index_right(c)
      BY <2>1, <2>2, <1>4, <1>12
    <3> QED
      BY <3>1, <1>8 DEF Stored
  <2>3. CASE u \notin T
    BY <2>1, <2>3, <1>8 DEF Stored
  <2> QED
    BY <2>2, <2>3
<1>14. ASSUME NEW p \in i..(i + n - 1), r.index <= p, p < Edge(r) PROVE Stored(s, p)
  <2>1. b.index <= p /\ p < index_right(b)
    BY <1>2, <1>14
  <2>2. c.index <= p /\ p < index_right(c)
    BY <2>1, <1>4, <1>12
  <2> QED
    BY <2>2, <1>8 DEF Stored
<1> QED
  BY <1>8, <1>9, <1>10, <1>13, <1>14 DEF s

\* ByteStream::write() of the next bytes of the stream.
LEMMA WriteStream ==
  ASSUME NEW o, StreamInv(o), NEW m \in Nat
  PROVE  LET data == Excerpt(o.bytes_written, m)
             k == accepted(o, data)
             out == write(o, data)
         IN  /\ k \in 0..m /\ k <= Capacity - Len(o.buffer)
             /\ k < m => k = Capacity - Len(o.buffer)
             /\ StreamInv(out) /\ out.bytes_written = o.bytes_written + k
             /\ out.bytes_read = o.bytes_read /\ out.eof = o.eof
<1> DEFINE w == o.bytes_written
           d == Excerpt(w, m)
           L == Len(o.buffer)
           br == o.bytes_read
           k == accepted(o, d)
           out == write(o, d)
<1>1. /\ o \in OutputRecord /\ w \in Nat /\ br \in Nat /\ o.buffer \in Seq(Nat)
      /\ o.capacity = Capacity /\ o.buffer = Excerpt(br, L) /\ w = br + L
      /\ L <= Capacity /\ Capacity \in Nat
  BY ReassemblerAssumption DEF StreamInv, OutputRecord
<1>2. L \in Nat
  BY <1>1
<1>3. d \in Seq(Nat) /\ Len(d) = m
  BY <1>1, ExcerptType, Zenon
<1>4. k = IF m > Capacity - L THEN Capacity - L ELSE m
  BY <1>1, <1>3 DEF accepted, remaining_capacity, buffer_size
<1>5. k \in 0..m /\ k \in Nat /\ k <= Capacity - L /\ (k < m => k = Capacity - L)
  <2> HIDE DEF L, k
  <2> QED
    BY <1>1, <1>2, <1>4
<1>6. SubSeq(d, 1, k) = Excerpt(w, k)
  <2> HIDE DEF k
  <2>1. 1 \in 1..(m + 1) /\ k \in (1 - 1)..m /\ w + 1 - 1 = w /\ k - 1 + 1 = k
    BY <1>1, <1>5
  <2>2. SubSeq(Excerpt(w, m), 1, k) = Excerpt(w + 1 - 1, k - 1 + 1)
    BY <2>1, <1>1, ExcerptSubSeq, Zenon
  <2> QED
    BY <2>1, <2>2
<1>7. out = [o EXCEPT !.buffer = Excerpt(br, L) \o Excerpt(br + L, k), !.bytes_written = w + k]
  BY <1>1, <1>6, Zenon DEF write
<1>a. br \in Nat /\ L \in Nat /\ k \in Nat
  BY <1>1, <1>2, <1>5
<1> HIDE DEF k, out, L, w, br
<1>8. Excerpt(br, L) \o Excerpt(br + L, k) = Excerpt(br, L + k)
  BY <1>a, ExcerptConcat, Zenon
<1>9. Excerpt(br, L + k) \in Seq(Nat) /\ Len(Excerpt(br, L + k)) = L + k /\ L + k \in Nat
  <2>1. L + k \in Nat
    BY <1>2, <1>5
  <2> QED
    BY <2>1, <1>1, ExcerptType
<1>10. out = [o EXCEPT !.buffer = Excerpt(br, L + k), !.bytes_written = w + k]
  BY <1>7, <1>8, Zenon
<1>11. /\ out \in OutputRecord /\ out.buffer = Excerpt(br, L + k) /\ out.bytes_read = br
       /\ out.bytes_written = w + k /\ out.eof = o.eof
  <2>1. w + k \in Nat
    BY <1>1, <1>5
  <2> QED
    BY <2>1, <1>1, <1>9, <1>10, Zenon DEF OutputRecord, br
<1>12. StreamInv(out)
  <2>1. w + k = br + (L + k) /\ L + k <= Capacity
    BY <1>1, <1>2, <1>5
  <2> QED
    BY <2>1, <1>9, <1>11 DEF StreamInv
<1> QED
  BY <1>5, <1>11, <1>12 DEF k, out, L, w, br

\* flush_to_output() writes what has become contiguous; of what it drops
\* nothing was inside the window.
LEMMA FlushToOutput ==
  ASSUME NEW r, Core(r)
  PROVE  LET s == flush_to_output(r)
         IN  /\ Core(s) /\ Flushed(s) /\ Edge(s) = Edge(r) /\ r.index <= s.index
             /\ \A p \in Nat : p < Edge(r) /\ Stored(r, p) => p < s.index \/ Stored(s, p)
<1> DEFINE x == r.index
           o == r.output
           U == r.unassembled_bytes
           front == {u \in U : u.index = x}
           s == flush_to_output(r)
<1>1. /\ r \in ReassemblerRecord /\ StreamInv(o) /\ o.bytes_written = x
      /\ x \in Nat /\ StreamLen \in Nat /\ x <= StreamLen
      /\ \A u \in U : IsBlock(u) /\ u.index >= x /\ index_right(u) <= StreamLen
      /\ Apart(U) /\ (r.eof_set => r.eof = StreamLen)
      /\ o.bytes_read \in Nat /\ Len(o.buffer) \in Nat /\ Capacity \in Nat
      /\ x = o.bytes_read + Len(o.buffer) /\ Edge(r) = o.bytes_read + Capacity
  BY CoreArithmetic DEF Core, Edge
<1>2. \A u \in U : u.index \in Nat /\ index_right(u) \in Nat /\ u.index <= index_right(u)
  BY <1>1, BlockType
<1>3. CASE front = {}
  <2>1. s = r
    BY <1>3 DEF flush_to_output
  <2>2. Flushed(r)
    BY <1>1, <1>2, <1>3 DEF Flushed
  <2> QED
    BY <2>1, <2>2, <1>1
<1>4. CASE front # {}
  <2> DEFINE b == CHOOSE u \in front : TRUE
             m == Len(b.str)
             k == accepted(o, b.str)
             out == write(o, b.str)
             out2 == IF x + k = r.eof /\ r.eof_set THEN end_input(out) ELSE out
             V == U \ {b}
  <2>1. b \in U /\ b.index = x
    <3>1. b \in front
      BY <1>4
    <3> QED
      BY <3>1
  <2>2. s = [write_to_output(r, b) EXCEPT !.unassembled_bytes = @ \ {b}]
    BY <1>4 DEF flush_to_output
  <2> HIDE DEF b, s, front
  <2>3. IsBlock(b) /\ m \in Nat /\ b.str = Excerpt(x, m) /\ index_right(b) = x + m
        /\ x + m <= StreamLen
    BY <2>1, <1>1, BlockType DEF IsBlock
  <2>4. write_to_output(r, b) = [r EXCEPT !.index = x + k, !.output = out2]
    BY DEF write_to_output
  <2>5. /\ k \in 0..m /\ k \in Nat /\ k <= Capacity - Len(o.buffer)
        /\ k < m => k = Capacity - Len(o.buffer)
        /\ StreamInv(out) /\ out.bytes_written = x + k
        /\ out.bytes_read = o.bytes_read /\ out.eof = o.eof
    <3>1. b.str = Excerpt(o.bytes_written, m)
      BY <2>3, <1>1
    <3>2. /\ k \in 0..m /\ k <= Capacity - Len(o.buffer)
          /\ k < m => k = Capacity - Len(o.buffer)
          /\ StreamInv(out) /\ out.bytes_written = o.bytes_written + k
          /\ out.bytes_read = o.bytes_read /\ out.eof = o.eof
      <4> HIDE DEF m, o
      <4>1. m \in Nat /\ StreamInv(o)
        BY <2>3, <1>1
      <4> QED
        BY <3>1, <4>1, WriteStream, Zenon
    <3> QED
      BY <3>2, <1>1
  <2> HIDE DEF k, out, m
  <2>6. /\ StreamInv(out2) /\ out2.bytes_written = x + k /\ out2.bytes_read = o.bytes_read
        /\ x + k = r.eof /\ r.eof_set => out2.eof
        /\ out2 \in OutputRecord
    <3>1. out \in OutputRecord
      BY <2>5 DEF StreamInv
    <3>2. CASE x + k = r.eof /\ r.eof_set
      <4>1. out2 = [out EXCEPT !.eof = TRUE]
        BY <3>2 DEF end_input
      <4>2. /\ out2 \in OutputRecord /\ out2.eof /\ out2.buffer = out.buffer
            /\ out2.bytes_written = out.bytes_written /\ out2.bytes_read = out.bytes_read
        BY <3>1, <4>1, Zenon DEF OutputRecord
      <4> QED
        BY <4>2, <2>5 DEF StreamInv
    <3>3. CASE ~(x + k = r.eof /\ r.eof_set)
      BY <3>1, <3>3, <2>5
    <3> QED
      BY <3>2, <3>3
  <2> HIDE DEF out2
  <2>7. s = [[r EXCEPT !.index = x + k, !.output = out2] EXCEPT !.unassembled_bytes = @ \ {b}]
    BY <2>2, <2>4
  <2>8. /\ s \in ReassemblerRecord /\ s.index = x + k /\ s.output = out2
        /\ s.unassembled_bytes = V /\ s.eof = r.eof /\ s.eof_set = r.eof_set
    <3>1. x + k \in Nat
      BY <1>1, <2>5
    <3> QED
      BY <3>1, <2>6, <2>7, <1>1, Zenon DEF ReassemblerRecord
  <2>9. \A u \in V : u.index > x + m
    <3> SUFFICES ASSUME NEW u \in V PROVE u.index > x + m
      OBVIOUS
    <3>0. u \in U /\ u # b /\ Apart(U)
      BY <1>1
    <3>1. ~(b.index <= index_right(u) /\ u.index <= index_right(b))
      <4>1. ~can_coalesce(b, u)
        BY <3>0, <2>1 DEF Apart
      <4> QED
        BY <4>1 DEF can_coalesce
    <3>2. IsBlock(u) /\ u.index >= x /\ x \in Nat
      BY <3>0, <1>1, <1>2
    <3>3. u.index \in Nat /\ index_right(u) \in Nat /\ u.index <= index_right(u)
      BY <3>2, BlockType
    <3> QED
      <4> HIDE DEF x, U, V
      <4> QED
        BY <3>1, <3>2, <3>3, <2>1, <2>3
  <2>10. x + k <= x + m /\ x <= x + k /\ x + k <= StreamLen
    BY <1>1, <2>3, <2>5
  <2>11. Flushed(s) /\ \A u \in V : u.index >= x + k
    <3> SUFFICES ASSUME NEW u \in V PROVE u.index > x + k /\ u.index >= x + k
      BY <2>8 DEF Flushed
    <3>1. u.index > x + m /\ u.index \in Nat
      BY <2>9, <1>2
    <3>2. x + k \in Nat /\ x + m \in Nat
      BY <2>5, <2>3, <1>1
    <3> QED
      BY <3>1, <3>2, <2>10
  <2>12. Apart(V)
    BY <1>1 DEF Apart
  <2>13. Core(s)
    <3>1. StreamInv(s.output) /\ s.output.bytes_written = s.index /\ s.index <= StreamLen
      BY <2>6, <2>8, <2>10
    <3>2. \A u \in s.unassembled_bytes :
            IsBlock(u) /\ u.index >= s.index /\ index_right(u) <= StreamLen
      BY <1>1, <2>8, <2>11
    <3>3. (s.eof_set => s.eof = StreamLen) /\ (s.eof_set /\ s.index = StreamLen => s.output.eof)
      BY <1>1, <2>6, <2>8
    <3> QED
      BY <3>1, <3>2, <3>3, <2>8, <2>12 DEF Core
  <2>14. Edge(s) = Edge(r)
    BY <2>6, <2>8 DEF Edge
  <2>15. ASSUME NEW p \in Nat, p < Edge(r), Stored(r, p)
         PROVE  p < s.index \/ Stored(s, p)
    <3>1. PICK u \in U : u.index <= p /\ p < index_right(u)
      BY <2>15 DEF Stored
    <3>2. CASE u = b
      <4>1. p < x + m
        BY <3>1, <3>2, <2>3
      <4>2. p < x + k
        <5> DEFINE L == Len(o.buffer)
                   br == o.bytes_read
        <5>1. /\ x = br + L /\ p < br + Capacity /\ L \in Nat /\ br \in Nat /\ m \in Nat
              /\ k \in Nat /\ k <= m /\ (k < m => k = Capacity - L) /\ Capacity \in Nat
          BY <1>1, <2>3, <2>5, <2>15
        <5> HIDE DEF L, br, x
        <5> QED
          BY <4>1, <5>1
      <4> QED
        BY <4>2, <2>8
    <3>3. CASE u # b
      BY <3>1, <3>3, <2>8 DEF Stored
    <3> QED
      BY <3>2, <3>3
  <2> QED
    BY <2>8, <2>10, <2>11, <2>13, <2>14, <2>15 DEF s
<1> QED
  BY <1>3, <1>4

\* push_substring() with a true excerpt of the stream.
LEMMA PushSubstringLemma ==
  ASSUME NEW r, Core(r), Flushed(r), NEW i \in Nat, NEW n \in Nat,
         NEW is_eof \in BOOLEAN, i + n <= StreamLen, is_eof => i + n = StreamLen
  PROVE  LET s == push_substring(r, Excerpt(i, n), i, is_eof)
         IN  /\ Core(s) /\ Flushed(s) /\ Edge(s) = Edge(r) /\ r.index <= s.index
             /\ \A p \in Nat : p < Edge(r) /\ Stored(r, p) => p < s.index \/ Stored(s, p)
             /\ \A p \in i..(i + n - 1) :
                  r.index <= p /\ p < Edge(r) => p < s.index \/ Stored(s, p)
<1> DEFINE q == IF is_eof THEN set_eof(r, i + n) ELSE r
           skip == i + n <= q.index \/ i > q.index + q.capacity \/ n = 0
           s == push_substring(r, Excerpt(i, n), i, is_eof)
<1>1. Len(Excerpt(i, n)) = n
  BY ExcerptType
<1>2. s = IF skip THEN q ELSE flush_to_output(push_unassembled_bytes(q, Excerpt(i, n), i))
  BY <1>1 DEF push_substring
<1>3. /\ Core(q) /\ Flushed(q) /\ q.index = r.index /\ Edge(q) = Edge(r)
      /\ q.unassembled_bytes = r.unassembled_bytes
  <2>1. CASE is_eof
    BY <2>1, SetEof
  <2>2. CASE ~is_eof
    BY <2>2
  <2> QED
    BY <2>1, <2>2
<1> SUFFICES /\ Core(s) /\ Flushed(s) /\ Edge(s) = Edge(r) /\ r.index <= s.index
             /\ \A p \in Nat : p < Edge(r) /\ Stored(r, p) => p < s.index \/ Stored(s, p)
             /\ \A p \in i..(i + n - 1) :
                  r.index <= p /\ p < Edge(r) => p < s.index \/ Stored(s, p)
  OBVIOUS
<1> HIDE DEF q, s
<1>4. \A p \in Nat : Stored(q, p) <=> Stored(r, p)
  BY <1>3 DEF Stored
<1>5. /\ q.index \in Nat /\ q.capacity = Capacity /\ Capacity \in Nat
      /\ Edge(q) \in Nat /\ Edge(q) <= q.index + Capacity
  BY <1>3, CoreArithmetic
<1>6. CASE skip
  <2>1. s = q
    BY <1>2, <1>6
  <2>2. ASSUME NEW p \in i..(i + n - 1), r.index <= p, p < Edge(r) PROVE FALSE
    BY <2>2, <1>3, <1>5, <1>6
  <2> QED
    BY <2>1, <2>2, <1>3, <1>4, <1>5
<1>7. CASE ~skip
  <2> DEFINE t == push_unassembled_bytes(q, Excerpt(i, n), i)
  <2>1. q.index < i + n
    BY <1>5, <1>7
  <2>2. /\ Core(t) /\ t.index = q.index /\ Edge(t) = Edge(q)
        /\ \A p \in Nat : Stored(q, p) => Stored(t, p)
        /\ \A p \in i..(i + n - 1) : q.index <= p /\ p < Edge(q) => Stored(t, p)
    BY <2>1, <1>3, PushUnassembledBytes
  <2> HIDE DEF t
  <2>3. LET f == flush_to_output(t)
        IN  /\ Core(f) /\ Flushed(f) /\ Edge(f) = Edge(t) /\ t.index <= f.index
            /\ \A p \in Nat : p < Edge(t) /\ Stored(t, p) => p < f.index \/ Stored(f, p)
    BY <2>2, FlushToOutput
  <2>4. s = flush_to_output(t)
    BY <1>2, <1>7 DEF t
  <2>5. /\ Core(s) /\ Flushed(s) /\ Edge(s) = Edge(t) /\ t.index <= s.index
        /\ \A p \in Nat : p < Edge(t) /\ Stored(t, p) => p < s.index \/ Stored(s, p)
    BY <2>3, <2>4
  <2>6. i..(i + n - 1) \subseteq Nat
    OBVIOUS
  <2> QED
    BY <2>2, <2>5, <2>6, <1>3, <1>4
<1> QED
  BY <1>6, <1>7

\* The end of the input, once signalled, stays signalled: none of the steps of
\* push_substring() clears the flag of the output.
LEMMA EofStays ==
  ASSUME NEW r, Core(r), Flushed(r), NEW i \in Nat, NEW n \in Nat,
         NEW is_eof \in BOOLEAN, i + n <= StreamLen, is_eof => i + n = StreamLen,
         r.output.eof
  PROVE  push_substring(r, Excerpt(i, n), i, is_eof).output.eof
<1> DEFINE q == IF is_eof THEN set_eof(r, i + n) ELSE r
           t == push_unassembled_bytes(q, Excerpt(i, n), i)
           s == push_substring(r, Excerpt(i, n), i, is_eof)
<1>1. s = q \/ s = flush_to_output(t)
  <2>1. Len(Excerpt(i, n)) = n
    BY ExcerptType
  <2> QED
    BY <2>1 DEF push_substring
<1>2. Core(q)
  BY SetEof
<1>3. q.output.eof
  <2>1. r \in ReassemblerRecord /\ r.output \in OutputRecord
    BY DEF Core, ReassemblerRecord
  <2>2. r.output.eof = TRUE /\ end_input(r.output).eof = TRUE
    BY <2>1 DEF end_input, OutputRecord
  <2>3. CASE is_eof
    <3> DEFINE out == IF i + n <= r.index + 1 THEN end_input(r.output) ELSE r.output
    <3>1. q = [r EXCEPT !.eof = i + n, !.eof_set = TRUE, !.output = out]
      BY <2>3 DEF set_eof
    <3>2. out.eof
      BY <2>2
    <3> HIDE DEF out, q
    <3>3. q.output = out
      BY <3>1, <2>1 DEF ReassemblerRecord
    <3> QED
      BY <3>2, <3>3
  <2>4. CASE ~is_eof
    BY <2>4
  <2> QED
    BY <2>3, <2>4
<1> HIDE DEF q
<1>4. q \in ReassemblerRecord
  BY <1>2 DEF Core
<1>5. t.output = q.output /\ DOMAIN t = DOMAIN q
  BY <1>4 DEF push_unassembled_bytes, ReassemblerRecord
<1> HIDE DEF t, s
<1>6. flush_to_output(t).output.eof
  <2> DEFINE front == {u \in t.unassembled_bytes : u.index = t.index}
             b == CHOOSE u \in front : TRUE
             out == write(t.output, b.str)
             out2 == IF t.index + accepted(t.output, b.str) = t.eof /\ t.eof_set
                     THEN end_input(out) ELSE out
             w == write_to_output(t, b)
  <2>1. t.output \in OutputRecord /\ DOMAIN t = {"output", "capacity", "index", "eof",
                                                 "eof_set", "unassembled_bytes"}
    BY <1>4, <1>5 DEF ReassemblerRecord
  <2>2. out.eof = t.output.eof /\ out2.eof = TRUE
    BY <2>1, <1>3, <1>5 DEF write, end_input, OutputRecord
  <2>3. w = [t EXCEPT !.index = @ + accepted(t.output, b.str), !.output = out2]
    BY DEF write_to_output
  <2>4. flush_to_output(t) = t \/ flush_to_output(t) = [w EXCEPT !.unassembled_bytes = @ \ {b}]
    BY DEF flush_to_output
  <2> HIDE DEF out, out2, b, front
  <2>5. w.output = out2
    BY <2>1, <2>3
  <2> HIDE DEF w
  <2>6. [w EXCEPT !.unassembled_bytes = @ \ {b}].output = out2
    BY <2>5
  <2> QED
    BY <2>2, <2>4, <2>6, <1>3, <1>5, Zenon
<1> QED
  BY <1>1, <1>3, <1>6 DEF s

-----------------------------------------------------------------------------
(***************************************************************************)
(* The inductive invariant.  The properties are not inductive by           *)
(* themselves: that a partial write drops nothing promised needs the right *)
(* edge of the window, which only moves to the right, and that the output  *)
(* is in order needs that every stored ByteString is a block.              *)
(***************************************************************************)
IInv ==
  /\ Core(reassembler) /\ Flushed(reassembler)
  /\ promised \in SUBSET (0..(StreamLen - 1))
  /\ \A p \in promised :
       p < Edge(reassembler) /\ (p < reassembler.index \/ Stored(reassembler, p))

\* Nothing is stored at the start.
LEMMA InitIInv == Init => IInv
<1> SUFFICES ASSUME Init PROVE IInv
  OBVIOUS
<1> DEFINE r == NewStreamReassembler(Capacity)
           o == NewByteStream(Capacity)
<1>1. Capacity \in Nat /\ StreamLen \in Nat /\ SizeMax \in Nat
  BY ReassemblerAssumption, SizeMaxAssumption
<1>2. o \in OutputRecord /\ o.buffer = <<>> /\ o.bytes_read = 0 /\ o.bytes_written = 0
  BY <1>1 DEF NewByteStream, OutputRecord
<1>3. StreamInv(o)
  <2>1. Excerpt(0, 0) = <<>> /\ Len(<<>>) = 0
    BY ExcerptEmpty
  <2> QED
    BY <1>1, <1>2, <2>1 DEF StreamInv
<1>4. r = [output |-> o, capacity |-> Capacity, index |-> 0,
           eof |-> SizeMax, eof_set |-> FALSE, unassembled_bytes |-> {}]
  BY DEF NewStreamReassembler
<1> HIDE DEF r, o
<1>5. r \in ReassemblerRecord
  BY <1>1, <1>2, <1>4 DEF ReassemblerRecord
<1>6. Core(r) /\ Flushed(r)
  BY <1>1, <1>2, <1>3, <1>4, <1>5 DEF Core, Flushed, Apart
<1>7. reassembler = r /\ promised = {}
  BY DEF Init, r
<1> QED
  BY <1>6, <1>7 DEF IInv

\* push_substring() preserves the inductive invariant,
LEMMA PushIInv ==
  ASSUME IInv, NEW i \in 0..StreamLen, NEW n \in 0..StreamLen, NEW is_eof \in BOOLEAN,
         PushSubstring(i, n, is_eof)
  PROVE  IInv'
<1> DEFINE r == reassembler
           s == push_substring(r, Excerpt(i, n), i, is_eof)
<1>1. /\ StreamLen \in Nat /\ i \in Nat /\ n \in Nat /\ i + n <= StreamLen
      /\ (is_eof => i + n = StreamLen) /\ reassembler' = s
      /\ promised' = promised \cup ((i .. (i + n - 1)) \cap Window)
  BY ReassemblerAssumption DEF PushSubstring
<1>2. Core(r) /\ Flushed(r)
  BY DEF IInv
<1> HIDE DEF s
<1>3. /\ Core(s) /\ Flushed(s) /\ Edge(s) = Edge(r) /\ r.index <= s.index
      /\ \A p \in Nat : p < Edge(r) /\ Stored(r, p) => p < s.index \/ Stored(s, p)
      /\ \A p \in i..(i + n - 1) : r.index <= p /\ p < Edge(r) => p < s.index \/ Stored(s, p)
  BY <1>1, <1>2, PushSubstringLemma DEF s
<1>4. r.index \in Nat /\ s.index \in Nat /\ Edge(r) \in Nat
  BY <1>2, <1>3, CoreArithmetic
<1>5. Window = r.index .. (Edge(r) - 1)
  <2>1. /\ Edge(r) = r.index + r.capacity - buffer_size(r.output) /\ r.capacity = Capacity
        /\ Capacity \in Nat /\ buffer_size(r.output) \in Nat /\ r.output.capacity = Capacity
    BY <1>2, CoreArithmetic DEF OutputRecord
  <2>2. r.index + remaining_capacity(output) - 1 = Edge(r) - 1
    BY <2>1, <1>4 DEF remaining_capacity, output
  <2> QED
    BY <2>2 DEF Window
<1>6. promised' \in SUBSET (0..(StreamLen - 1))
  <2>1. promised \in SUBSET (0..(StreamLen - 1))
    BY DEF IInv
  <2>2. \A p \in i..(i + n - 1) : p \in 0..(StreamLen - 1)
    BY <1>1
  <2> QED
    BY <2>1, <2>2, <1>1, Zenon
<1>7. ASSUME NEW p \in promised'
      PROVE  p < Edge(s) /\ (p < s.index \/ Stored(s, p))
  <2>1. CASE p \in promised
    <3>1. p \in Nat /\ p < Edge(r) /\ (p < r.index \/ Stored(r, p))
      BY <2>1, <1>1 DEF IInv
    <3> QED
      BY <3>1, <1>3, <1>4
  <2>2. CASE p \in i..(i + n - 1) /\ p \in Window
    <3>1. p \in Nat /\ r.index <= p /\ p < Edge(r)
      BY <2>2, <1>1, <1>4, <1>5
    <3> QED
      BY <3>1, <2>2, <1>3
  <2> QED
    BY <2>1, <2>2, <1>1
<1> QED
  BY <1>1, <1>3, <1>6, <1>7 DEF IInv

\* and so does a reader that takes bytes from the output.
LEMMA ReadIInv ==
  ASSUME IInv, NEW n \in 1..Capacity, Read(n)
  PROVE  IInv'
<1> DEFINE r == reassembler
           o == r.output
           L == Len(o.buffer)
           br == o.bytes_read
           out == read(o, n)
           s == [r EXCEPT !.output = out]
<1>1. reassembler' = s /\ promised' = promised /\ n <= L /\ n \in Nat
  BY ReassemblerAssumption DEF Read, output, buffer_size
<1>2. /\ Core(r) /\ Flushed(r) /\ r \in ReassemblerRecord /\ StreamInv(o)
      /\ o \in OutputRecord /\ o.buffer = Excerpt(br, L) /\ r.index = br + L
      /\ o.bytes_written = br + L /\ L <= Capacity /\ o.bytes_written = r.index
      /\ L \in Nat /\ br \in Nat /\ Capacity \in Nat
  BY CoreArithmetic DEF IInv, Core, StreamInv
<1>3. out = [o EXCEPT !.bytes_read = br + n, !.buffer = Excerpt(br + n, L - n)]
  <2>1. bytes_to_read(o, n) = n
    BY <1>1, <1>2 DEF bytes_to_read, buffer_size
  <2>2. n + 1 \in 1..(L + 1) /\ L \in ((n + 1) - 1)..L
        /\ br + (n + 1) - 1 = br + n /\ L - (n + 1) + 1 = L - n
    <3> HIDE DEF L, br
    <3> QED
      BY <1>1, <1>2
  <2>3. SubSeq(Excerpt(br, L), n + 1, L) = Excerpt(br + (n + 1) - 1, L - (n + 1) + 1)
    BY <2>2, <1>1, <1>2, ExcerptSubSeq, Zenon
  <2>4. SubSeq(o.buffer, n + 1, L) = Excerpt(br + n, L - n)
    BY <2>2, <2>3, <1>2
  <2> QED
    BY <2>1, <2>4, Zenon DEF read
<1> HIDE DEF out, s, L, br
<1>4. br + n \in Nat /\ L - n \in Nat /\ (br + n) + (L - n) = br + L /\ L - n <= Capacity
      /\ br + Capacity <= (br + n) + Capacity
  BY <1>1, <1>2
<1>5. Excerpt(br + n, L - n) \in Seq(Nat) /\ Len(Excerpt(br + n, L - n)) = L - n
  BY <1>4, ExcerptType
<1>6. /\ out \in OutputRecord /\ out.buffer = Excerpt(br + n, L - n)
      /\ out.bytes_read = br + n /\ out.bytes_written = o.bytes_written /\ out.eof = o.eof
  BY <1>2, <1>3, <1>4, <1>5, Zenon DEF OutputRecord
<1>7. StreamInv(out)
  BY <1>2, <1>4, <1>5, <1>6 DEF StreamInv
<1>8. /\ s \in ReassemblerRecord /\ s.output = out /\ s.index = r.index
      /\ s.unassembled_bytes = r.unassembled_bytes
      /\ s.eof = r.eof /\ s.eof_set = r.eof_set
  BY <1>2, <1>6 DEF s, ReassemblerRecord
<1>9. Core(s)
  BY <1>2, <1>6, <1>7, <1>8 DEF Core
<1>10. Flushed(s) /\ (\A p : Stored(r, p) => Stored(s, p))
  BY <1>2, <1>8 DEF Flushed, Stored
<1>11. Edge(r) = br + Capacity /\ Edge(s) = (br + n) + Capacity
  BY <1>6, <1>8 DEF Edge, br
<1>12. \A p \in promised : p < Edge(s) /\ (p < s.index \/ Stored(s, p))
  <2> SUFFICES ASSUME NEW p \in promised
               PROVE  p < Edge(s) /\ (p < s.index \/ Stored(s, p))
    OBVIOUS
  <2>1. p \in Nat /\ p < br + Capacity /\ (p < r.index \/ Stored(r, p))
    BY <1>11, ReassemblerAssumption DEF IInv
  <2>2. p < (br + n) + Capacity
    BY <2>1, <1>1, <1>2, <1>4
  <2> QED
    BY <2>1, <2>2, <1>8, <1>10, <1>11
<1> QED
  BY <1>1, <1>9, <1>10, <1>12 DEF IInv

\* Every step preserves the inductive invariant.
LEMMA NextIInv == IInv /\ [Next]_vars => IInv'
<1> SUFFICES ASSUME IInv, [Next]_vars PROVE IInv'
  OBVIOUS
<1>1. ASSUME NEW i \in 0..StreamLen, NEW n \in 0..StreamLen, NEW is_eof \in BOOLEAN,
             PushSubstring(i, n, is_eof)
      PROVE  IInv'
  BY <1>1, PushIInv
<1>2. ASSUME NEW n \in 1..Capacity, Read(n) PROVE IInv'
  BY <1>2, ReadIInv
<1>3. CASE UNCHANGED vars
  BY <1>3 DEF vars, IInv
<1> QED
  BY <1>1, <1>2, <1>3 DEF Next

\* No step takes back a byte of the output, room in the window, or the end of
\* the input.
LEMMA NeverRetreats ==
  ASSUME IInv, [Next]_vars
  PROVE  /\ reassembler.index <= reassembler'.index
         /\ Edge(reassembler) <= Edge(reassembler')
         /\ output.eof => output'.eof
<1> DEFINE r == reassembler
           Goal == /\ r.index <= reassembler'.index
                   /\ Edge(r) <= Edge(reassembler')
                   /\ r.output.eof => reassembler'.output.eof
<1> SUFFICES Goal
  BY DEF output
<1>1. Core(r) /\ Flushed(r) /\ r.index \in Nat /\ Edge(r) \in Nat
  BY CoreArithmetic DEF IInv
<1>2. ASSUME NEW i \in 0..StreamLen, NEW n \in 0..StreamLen, NEW is_eof \in BOOLEAN,
             PushSubstring(i, n, is_eof)
      PROVE  Goal
  <2> DEFINE s == push_substring(r, Excerpt(i, n), i, is_eof)
  <2>1. /\ reassembler' = s /\ i + n <= StreamLen /\ (is_eof => i + n = StreamLen)
        /\ i \in Nat /\ n \in Nat
    BY <1>2 DEF PushSubstring
  <2>2. Edge(s) = Edge(r) /\ r.index <= s.index
    BY <2>1, <1>1, PushSubstringLemma
  <2>3. r.output.eof => s.output.eof
    BY <2>1, <1>1, EofStays
  <2> HIDE DEF s
  <2> QED
    BY <2>1, <2>2, <2>3, <1>1
<1>3. ASSUME NEW n \in 1..Capacity, Read(n) PROVE Goal
  <2> DEFINE o == r.output
             out == read(o, n)
             br == o.bytes_read
  <2>1. reassembler' = [r EXCEPT !.output = out] /\ n <= Len(o.buffer) /\ n \in Nat
    BY <1>3, ReassemblerAssumption DEF Read, output, buffer_size
  <2>2. r \in ReassemblerRecord /\ o \in OutputRecord /\ Len(o.buffer) \in Nat
        /\ br \in Nat /\ Capacity \in Nat
    BY <1>1, CoreArithmetic DEF Core
  <2>3. bytes_to_read(o, n) = n
    BY <2>1, <2>2 DEF bytes_to_read, buffer_size
  <2>4. out.bytes_read = br + n /\ out.eof = o.eof
    BY <2>2, <2>3 DEF read, OutputRecord
  <2> HIDE DEF out
  <2>5. reassembler'.output = out /\ reassembler'.index = r.index
    BY <2>1, <2>2 DEF ReassemblerRecord
  <2>6. Edge(r) = br + Capacity /\ Edge(reassembler') = (br + n) + Capacity
    BY <2>4, <2>5 DEF Edge
  <2> HIDE DEF br
  <2>7. br + Capacity <= (br + n) + Capacity
    BY <2>1, <2>2
  <2> QED
    BY <2>4, <2>5, <2>6, <2>7, <1>1
<1>4. CASE UNCHANGED vars
  <2>1. reassembler' = r
    BY <1>4 DEF vars
  <2>2. r.index <= r.index /\ Edge(r) <= Edge(r)
    BY <1>1
  <2> QED
    BY <2>1, <2>2
<1> QED
  BY <1>2, <1>3, <1>4 DEF Next

\* IInv holds after every push_substring() and every read.
THEOREM Invariance == Spec => []IInv
BY InitIInv, NextIInv, PTL DEF Spec
-----------------------------------------------------------------------------
\* Every field of the reassembler keeps its type, whatever the segments
\* pushed: in particular every stored string is a sequence of bytes.
THEOREM TypeCorrect == Spec => []TypeOK
<1>1. IInv => TypeOK
  BY DEF IInv, Core, TypeOK
<1> QED
  BY <1>1, Invariance, PTL

\* The output is the original stream in order, with no byte lost or repeated.
THEOREM OutputOrdered == Spec => []OutputInOrder
<1>1. IInv => OutputInOrder
  BY DEF IInv, Core, StreamInv, OutputInOrder, output, buffer_size
<1> QED
  BY <1>1, Invariance, PTL

\* The stored ByteStrings neither overlap nor touch, and start after _index.
THEOREM StoredApart == Spec => []Separated
<1>1. IInv => Separated
  BY DEF IInv, Core, Apart, Flushed, Separated, unassembled
<1> QED
  BY <1>1, Invariance, PTL

\* A byte pushed while it was inside the window is never forgotten.
THEOREM BytesKept == Spec => []PromisedBytesKept
<1>1. ASSUME IInv PROVE PromisedBytesKept
  <2> SUFFICES ASSUME NEW p \in promised, ~(p < reassembler.index)
               PROVE  \E u \in unassembled : p \in Positions(u)
    BY DEF PromisedBytesKept
  <2>1. p \in Nat /\ Stored(reassembler, p)
    BY <1>1, ReassemblerAssumption DEF IInv
  <2>2. PICK u \in unassembled : u.index <= p /\ p < index_right(u)
    BY <2>1 DEF Stored, unassembled
  <2>3. u.index \in Nat /\ index_right(u) \in Nat
    BY <1>1, <2>2, BlockType DEF IInv, Core, unassembled
  <2>4. p \in Positions(u)
    BY <2>1, <2>2, <2>3 DEF Positions
  <2> QED
    BY <2>4
<1> QED
  BY <1>1, Invariance, PTL

\* The next byte of the stream is never waiting: if it has arrived inside the
\* window, push_substring() has written it to the output.
THEOREM Delivered == Spec => []NothingDeliverableWaits
<1>1. ASSUME IInv PROVE NothingDeliverableWaits
  <2> SUFFICES ASSUME reassembler.index \in promised PROVE FALSE
    BY DEF NothingDeliverableWaits
  <2>1. reassembler.index \in Nat
    BY <1>1, CoreArithmetic DEF IInv
  <2>2. Stored(reassembler, reassembler.index)
    BY <1>1, <2>1 DEF IInv
  <2>3. PICK u \in reassembler.unassembled_bytes : u.index <= reassembler.index
    BY <2>2 DEF Stored
  <2>4. u.index \in Nat /\ u.index > reassembler.index
    BY <1>1, <2>3, BlockType DEF IInv, Core, Flushed
  <2> QED
    BY <2>1, <2>3, <2>4
<1> QED
  BY <1>1, Invariance, PTL

\* When the end of the stream is known and all of it is in, the output ends.
THEOREM EndIsSignalled == Spec => []EndSignalled
<1>1. IInv => EndSignalled
  BY DEF IInv, Core, EndSignalled, input_ended, output
<1> QED
  BY <1>1, Invariance, PTL
=============================================================================
