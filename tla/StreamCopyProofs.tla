-------------------------- MODULE StreamCopyProofs --------------------------
(***************************************************************************)
(* Safety of bidirectional_stream_copy() for every size of the buffers and *)
(* every length of the two streams: no byte is lost, repeated or           *)
(* reordered, and a side is shut down only when all of the other has been  *)
(* copied.                                                                 *)
(***************************************************************************)
EXTENDS StreamCopySpec, SequenceTheorems, TLAPS

Rule == Source \cup Sink
FD == [eof : BOOLEAN, closed : BOOLEAN]
Stream ==
  [capacity : {BufferSize}, buffer : Seq(Nat), eof : BOOLEAN,
   bytes_written : Nat, bytes_read : Nat, error : BOOLEAN]
CopyRecord ==
  [input : FD, output : FD, socket : FD, outbound : Stream, inbound : Stream,
   outbound_shutdown : BOOLEAN, inbound_shutdown : BOOLEAN]
SourceRecord == [offered : Nat, taken : Nat, ended : BOOLEAN]

\* written and buffer together are the numbers from 1 to m, in order.
Counted(written, buffer, m) ==
  /\ Len(written) + Len(buffer) = m
  /\ \A i \in 1..Len(written) : written[i] = i
  /\ \A i \in 1..Len(buffer) : buffer[i] = Len(written) + i

\* One of the two ways: the stream, whether its source's fd is at its end,
\* whether the sink is shut down, the source, and what was written to the sink.
Way(stream, at_end, shutdown, src, written) ==
  /\ stream \in Stream /\ src \in SourceRecord /\ written \in Seq(Nat)
  /\ Len(stream.buffer) <= BufferSize
  /\ Counted(written, stream.buffer, src.taken)
  /\ src.taken <= src.offered
  /\ at_end => stream.eof
  /\ stream.eof => src.ended /\ src.taken = src.offered
  /\ shutdown => stream.eof /\ Len(stream.buffer) = 0

\* What holds of the function's local state whenever it may be left.
Copied(v, from, to) ==
  /\ v \in CopyRecord
  /\ ~v.input.closed /\ ~v.socket.closed
  /\ v.output.closed => v.inbound_shutdown
  /\ Way(v.outbound, v.input.eof, v.outbound_shutdown, from["stdin"], to["to_socket"].written)
  /\ Way(v.inbound, v.socket.eof, v.inbound_shutdown, from["from_socket"], to["stdout"].written)

Distinct(s) == \A i, j \in DOMAIN s : s[i] = s[j] => i = j

stream_of(r, v) == IF r = "stdin" THEN v.outbound ELSE v.inbound

\* A source that is still read from, and not at its end, has an open stream.
Open(r, v) == ~eof_of(r, v) => ~stream_of(r, v).eof

\* The rules of the loop: the one that writes to the socket stays for good, the
\* one that writes to stdout until stdout is closed.
Listed(list, v) ==
  /\ list \in Seq(Rule) /\ Distinct(list)
  /\ \E i \in DOMAIN list : list[i] = "to_socket"
  /\ v.output.closed \/ \E i \in DOMAIN list : list[i] = "stdout"
  /\ \A i \in DOMAIN list : list[i] \in Source => Open(list[i], v)

\* What poll() has reported stays true until the rule is handled: only the rule
\* itself takes from its source.
Reported(p, v, from) ==
  /\ p.rule \in Source =>
       /\ ~eof_of(p.rule, v) /\ ~stream_of(p.rule, v).eof
       /\ p.revents.ready => from[p.rule].offered > from[p.rule].taken \/ from[p.rule].ended
       /\ p.revents.hup /\ ~p.revents.ready =>
            from[p.rule].ended /\ from[p.rule].offered = from[p.rule].taken
  /\ p.rule = "to_socket" => ~(p.events /\ p.revents.hup)
  /\ p.rule = "stdout" => ~p.revents.hup

PollFd ==
  [rule : Rule, events : BOOLEAN, revents : [ready : BOOLEAN, hup : BOOLEAN, err : BOOLEAN]]

\* The pollfds left are of the last rules of the list.
Aligned(left, list) ==
  /\ Len(left) <= Len(list)
  /\ \A k \in 1..Len(left) : left[k].rule = list[Len(list) - Len(left) + k]

IInv ==
  /\ source \in [Source -> SourceRecord]
  /\ sink \in [Sink -> [written : Seq(Nat), drained : Nat]]
  /\ reset \in BOOLEAN /\ pipe \in BOOLEAN
  /\ pc \in {"wait", "results", "return", "throw"}
  /\ Copied(w, source, sink)
  /\ Listed(rules, w)
  /\ pc = "results" =>
       /\ pollfds \in Seq(PollFd) /\ Len(pollfds) > 0
       /\ Aligned(pollfds, rules)
       /\ \A k \in DOMAIN pollfds : Reported(pollfds[k], w, source)
  /\ pc = "return" => buffer_empty(w.outbound) /\ buffer_empty(w.inbound)
-----------------------------------------------------------------------------
\* A read appends the next numbers.
LEMMA CountedRead ==
  ASSUME NEW wr \in Seq(Nat), NEW b \in Seq(Nat), NEW m \in Nat, Counted(wr, b, m),
         NEW d \in Seq(Nat), \A k \in 1..Len(d) : d[k] = m + k
  PROVE  /\ b \o d \in Seq(Nat) /\ Len(b \o d) = Len(b) + Len(d)
         /\ Counted(wr, b \o d, m + Len(d))
<1> DEFINE c == Len(wr)
           e == Len(b)
           n == Len(d)
           t == b \o d
<1>1. c \in Nat /\ e \in Nat /\ n \in Nat /\ c + e = m
  BY DEF Counted
<1>2. \A k \in 1..n : d[k] = m + k
  OBVIOUS
<1>3. /\ t \in Seq(Nat) /\ Len(t) = e + n
      /\ \A i \in 1..(e + n) : t[i] = IF i <= e THEN b[i] ELSE d[i - e]
  BY ConcatProperties
<1>4. \A i \in 1..e : b[i] = c + i
  BY DEF Counted
<1> HIDE DEF c, e, n, t
<1>5. \A i \in 1..(e + n) : t[i] = c + i
  <2> SUFFICES ASSUME NEW i \in 1..(e + n) PROVE t[i] = c + i
    OBVIOUS
  <2>1. CASE i <= e
    <3>1. i \in 1..e
      BY <2>1, <1>1
    <3>2. t[i] = b[i]
      BY <2>1, <1>3, Zenon
    <3> QED BY <3>1, <3>2, <1>4, Zenon
  <2>2. CASE ~(i <= e)
    <3>1. i - e \in 1..n /\ m + (i - e) = c + i
      BY <2>2, <1>1
    <3> QED BY <2>2, <3>1, <1>2, <1>3, Zenon
  <2> QED BY <2>1, <2>2
<1>6. c + (e + n) = m + n
  BY <1>1
<1>7. Counted(wr, t, m + n)
  BY <1>3, <1>5, <1>6 DEF Counted, c
<1> QED BY <1>3, <1>7 DEF t, e, n

\* A write moves numbers from the front of the buffer to what was written.
LEMMA CountedWrite ==
  ASSUME NEW wr \in Seq(Nat), NEW b \in Seq(Nat), NEW m \in Nat, Counted(wr, b, m),
         NEW n \in Nat, n <= Len(b)
  PROVE  LET x == wr \o SubSeq(b, 1, n)
             y == SubSeq(b, n + 1, Len(b))
         IN  /\ x \in Seq(Nat) /\ y \in Seq(Nat) /\ Len(y) = Len(b) - n
             /\ Counted(x, y, m)
<1> DEFINE c == Len(wr)
           e == Len(b)
           d == SubSeq(b, 1, n)
           x == wr \o d
           y == SubSeq(b, n + 1, e)
<1>1. c \in Nat /\ e \in Nat /\ c + e = m /\ n <= e
  BY DEF Counted
<1>2. (\A i \in 1..c : wr[i] = i) /\ (\A i \in 1..e : b[i] = c + i /\ b[i] \in Nat)
  <2>1. \A i \in 1..e : b[i] \in Nat
    BY ElementOfSeq
  <2> QED BY <2>1 DEF Counted
<1>3. d \in Seq(Nat) /\ Len(d) = n /\ \A i \in 1..n : d[i] = b[i]
  <2>1. \A i \in 1..n : b[i] \in Nat
    BY <1>1, <1>2
  <2> HIDE DEF e
  <2> QED BY <1>1, <2>1, SubSeqProperties
<1>4. y \in Seq(Nat) /\ Len(y) = e - n /\ \A i \in 1..(e - n) : y[i] = b[n + i]
  <2>1. \A i \in (n + 1)..e : b[i] \in Nat
    BY <1>1, <1>2
  <2>2. n + 1 \in Int /\ e \in Int
    BY <1>1
  <2> HIDE DEF e
  <2>3. /\ y \in Seq(Nat)
        /\ Len(y) = IF n + 1 <= e THEN e - (n + 1) + 1 ELSE 0
        /\ \A i \in 1..(e - (n + 1) + 1) : y[i] = b[(n + 1) + i - 1]
    BY <2>1, <2>2, SubSeqProperties
  <2>4. (IF n + 1 <= e THEN e - (n + 1) + 1 ELSE 0) = e - n /\ e - (n + 1) + 1 = e - n
    BY <1>1
  <2>5. \A i \in 1..(e - n) : (n + 1) + i - 1 = n + i
    BY <1>1
  <2> QED BY <2>3, <2>4, <2>5
<1> HIDE DEF d, y
<1>5. /\ x \in Seq(Nat) /\ Len(x) = c + n
      /\ \A i \in 1..(c + n) : x[i] = IF i <= c THEN wr[i] ELSE d[i - c]
  BY <1>3, ConcatProperties
<1> HIDE DEF c, e, x
<1>6. \A i \in 1..(c + n) : x[i] = i
  <2> SUFFICES ASSUME NEW i \in 1..(c + n) PROVE x[i] = i
    OBVIOUS
  <2>1. CASE i <= c
    BY <2>1, <1>1, <1>2, <1>5
  <2>2. CASE ~(i <= c)
    <3>1. i - c \in 1..n /\ i - c \in 1..e /\ c + (i - c) = i
      BY <2>2, <1>1
    <3> QED BY <2>2, <3>1, <1>2, <1>3, <1>5, Zenon
  <2> QED BY <2>1, <2>2
<1>7. \A i \in 1..(e - n) : y[i] = (c + n) + i
  <2> SUFFICES ASSUME NEW i \in 1..(e - n) PROVE y[i] = (c + n) + i
    OBVIOUS
  <2>1. n + i \in 1..e /\ c + (n + i) = (c + n) + i
    BY <1>1
  <2> QED BY <2>1, <1>2, <1>4, Zenon
<1>8. (c + n) + (e - n) = m
  BY <1>1
<1>9. Counted(x, y, m)
  BY <1>4, <1>5, <1>6, <1>7, <1>8 DEF Counted
<1> QED BY <1>4, <1>5, <1>9 DEF x, y, d, e

\* write() of data that fits, by a source that has the data.
LEMMA WayRead ==
  ASSUME NEW str, NEW at_end, NEW shut, NEW src, NEW wr, Way(str, at_end, shut, src, wr),
         ~str.eof, NEW data \in Seq(Nat), \A k \in 1..Len(data) : data[k] = src.taken + k,
         Len(data) <= remaining_capacity(str), src.taken + Len(data) <= src.offered
  PROVE  LET from == [src EXCEPT !.taken = src.taken + Len(data)]
             t == write(str, data)
         IN  /\ Way(t, FALSE, shut, from, wr) /\ t.eof = FALSE
             /\ src.ended /\ src.taken = src.offered /\ Len(data) = 0 =>
                  Way(end_input(t), TRUE, shut, from, wr) /\ end_input(t).eof = TRUE
<1> DEFINE n == Len(data)
           b == str.buffer
           t == write(str, data)
           s == end_input(t)
           upto == src.taken + n
           from == [src EXCEPT !.taken = upto]
<1>1. /\ str \in Stream /\ b \in Seq(Nat) /\ Len(b) \in Nat /\ str.capacity = BufferSize
      /\ src \in SourceRecord /\ wr \in Seq(Nat) /\ Counted(wr, b, src.taken) /\ n \in Nat
      /\ src.taken \in Nat /\ src.offered \in Nat /\ ~shut
      /\ str.bytes_written \in Nat /\ str.eof = FALSE /\ BufferSize \in Nat
  BY StreamCopyAssumption DEF Way, Stream, SourceRecord
<1>2. accepted(str, data) = n /\ SubSeq(data, 1, n) = data /\ n <= BufferSize - Len(b)
  BY <1>1 DEF accepted, remaining_capacity, buffer_size
<1>3. b \o data \in Seq(Nat) /\ Len(b \o data) = Len(b) + n /\ Counted(wr, b \o data, src.taken + n)
  BY <1>1, CountedRead
<1>4. t = [str EXCEPT !.buffer = b \o data, !.bytes_written = str.bytes_written + n]
  BY <1>2, Zenon DEF write
<1> DEFINE c == b \o data
           count == str.bytes_written + n
<1>5. count \in Nat /\ c \in Seq(Nat) /\ Len(c) = Len(b) + n /\ Counted(wr, c, src.taken + n)
  BY <1>1, <1>3
<1> HIDE DEF c, count
<1>6. t \in Stream /\ t.buffer = c /\ t.eof = FALSE
  BY <1>1, <1>4, <1>5, Zenon DEF Stream, c, count
<1> HIDE DEF t
<1>7. s \in Stream /\ s.buffer = c /\ s.eof = TRUE
  BY <1>6, Zenon DEF end_input, Stream
<1>8. /\ from \in SourceRecord /\ from.taken = src.taken + n /\ from.offered = src.offered
      /\ from.ended = src.ended
  <2>1. upto \in Nat
    BY <1>1
  <2> HIDE DEF upto
  <2>2. /\ from \in SourceRecord /\ from.taken = upto /\ from.offered = src.offered
        /\ from.ended = src.ended
    BY <1>1, <2>1, Zenon DEF SourceRecord
  <2> QED BY <2>2 DEF upto
<1> HIDE DEF s, from
<1>9. Len(c) <= BufferSize /\ from.taken <= from.offered
  BY <1>1, <1>2, <1>5, <1>8
<1>10. Way(t, FALSE, shut, from, wr)
  BY <1>1, <1>5, <1>6, <1>8, <1>9 DEF Way
<1>11. src.ended /\ src.taken = src.offered /\ n = 0 => Way(s, TRUE, shut, from, wr)
  <2>1. n = 0 => from.taken = src.taken
    BY <1>1, <1>8
  <2> QED BY <2>1, <1>1, <1>5, <1>7, <1>8, <1>9 DEF Way
<1> QED BY <1>6, <1>7, <1>10, <1>11, Zenon DEF s, t, from

\* pop_output() of what was written.
LEMMA WayWrite ==
  ASSUME NEW str, NEW at_end, NEW shut, NEW src, NEW wr,
         Way(str, at_end, shut, src, wr), NEW n \in Nat, n <= buffer_size(str)
  PROVE  LET s == pop_output(str, n)
         IN  /\ Way(s, at_end, shut \/ eof(s), src, wr \o peek_output(str, n))
             /\ s.eof = str.eof
<1> DEFINE b == str.buffer
           s == pop_output(str, n)
           x == wr \o SubSeq(b, 1, n)
           y == SubSeq(b, n + 1, Len(b))
           count == str.bytes_read + n
<1>1. /\ str \in Stream /\ b \in Seq(Nat) /\ Len(b) \in Nat /\ Len(b) <= BufferSize
      /\ src \in SourceRecord /\ wr \in Seq(Nat) /\ Counted(wr, b, src.taken)
      /\ src.taken \in Nat /\ str.bytes_read \in Nat /\ BufferSize \in Nat
  BY StreamCopyAssumption DEF Way, Stream, SourceRecord
<1>2. bytes_to_read(str, n) = n /\ n <= Len(b)
  BY <1>1 DEF bytes_to_read, buffer_size
<1>3. /\ x \in Seq(Nat) /\ y \in Seq(Nat) /\ Len(y) = Len(b) - n
      /\ Counted(x, y, src.taken)
  BY <1>1, <1>2, CountedWrite, Zenon
<1>4. s = [str EXCEPT !.bytes_read = count, !.buffer = y] /\ wr \o peek_output(str, n) = x
  BY <1>2 DEF pop_output, peek_output
<1>5. count \in Nat
  BY <1>1
<1> HIDE DEF x, y, count, s
<1>6. s \in Stream /\ s.buffer = y /\ s.eof = str.eof
  BY <1>1, <1>3, <1>4, <1>5, Zenon DEF Stream
<1>7. Len(y) <= BufferSize /\ (Len(b) = 0 => Len(y) = 0)
  <2> DEFINE l == Len(b)
             k == Len(y)
  <2>1. l \in Nat /\ k = l - n /\ n <= l /\ l <= BufferSize
    BY <1>1, <1>2, <1>3
  <2> HIDE DEF l, k
  <2>2. k <= BufferSize /\ (l = 0 => k = 0)
    BY <2>1, <1>1
  <2> QED BY <2>2 DEF l, k
<1>8. shut \/ eof(s) => s.eof /\ Len(s.buffer) = 0
  <2>1. shut => s.eof /\ Len(s.buffer) = 0
    BY <1>6, <1>7 DEF Way
  <2>2. eof(s) => s.eof /\ Len(s.buffer) = 0
    BY DEF eof, buffer_empty, buffer_size
  <2> QED BY <2>1, <2>2
<1>9. (at_end => s.eof) /\ (s.eof => src.ended /\ src.taken = src.offered)
      /\ src.taken <= src.offered
  BY <1>6 DEF Way
<1>10. Way(s, at_end, shut \/ eof(s), src, x)
  BY <1>1, <1>3, <1>6, <1>7, <1>8, <1>9 DEF Way
<1> QED BY <1>4, <1>6, <1>10 DEF s

\* end_input() when the source has ended and all of it was taken, and
\* set_error() at any time.
LEMMA WayFlags ==
  ASSUME NEW str, NEW at_end, NEW shut, NEW src, NEW wr, Way(str, at_end, shut, src, wr)
  PROVE  /\ src.ended /\ src.taken = src.offered => Way(end_input(str), at_end, shut, src, wr)
         /\ Way(set_error(str), at_end, shut, src, wr)
         /\ end_input(str).buffer = str.buffer /\ set_error(str).buffer = str.buffer
         /\ set_error(str).eof = str.eof
<1>1. str \in Stream
  BY DEF Way
<1>2. /\ end_input(str) \in Stream /\ end_input(str).buffer = str.buffer /\ end_input(str).eof
      /\ set_error(str) \in Stream /\ set_error(str).buffer = str.buffer
      /\ set_error(str).eof = str.eof
  BY <1>1, Zenon DEF Stream, end_input, set_error
<1> DEFINE e == end_input(str)
           f == set_error(str)
<1>3. /\ e \in Stream /\ e.buffer = str.buffer /\ e.eof
      /\ f \in Stream /\ f.buffer = str.buffer /\ f.eof = str.eof
  BY <1>2
<1> HIDE DEF e, f
<1>4. src.ended /\ src.taken = src.offered => Way(e, at_end, shut, src, wr)
  BY <1>3 DEF Way
<1>5. Way(f, at_end, shut, src, wr)
  BY <1>3 DEF Way
<1> QED BY <1>2, <1>4, <1>5 DEF e, f

\* The source offers more, or ends, while its stream is open.
LEMMA WaySource ==
  ASSUME NEW str, NEW at_end, NEW shut, NEW src, NEW wr, Way(str, at_end, shut, src, wr),
         ~src.ended
  PROVE  /\ Way(str, at_end, shut, [src EXCEPT !.offered = src.offered + 1], wr)
         /\ Way(str, at_end, shut, [src EXCEPT !.ended = TRUE], wr)
<1> DEFINE more == [src EXCEPT !.offered = src.offered + 1]
           done == [src EXCEPT !.ended = TRUE]
<1>1. src \in SourceRecord /\ src.offered \in Nat /\ src.taken \in Nat /\ src.taken <= src.offered
  BY DEF Way, SourceRecord
<1>2. src.offered + 1 \in Nat /\ src.taken <= src.offered + 1
  BY <1>1
<1>3. /\ more \in SourceRecord /\ more.taken = src.taken /\ more.offered = src.offered + 1
      /\ done \in SourceRecord /\ done.taken = src.taken /\ done.offered = src.offered
  BY <1>1, <1>2, Zenon DEF SourceRecord
<1>4. str.eof = FALSE
  BY DEF Way, Stream
<1> HIDE DEF more, done
<1>5. Way(str, at_end, shut, more, wr)
  BY <1>2, <1>3, <1>4 DEF Way
<1>6. Way(str, at_end, shut, done, wr)
  BY <1>1, <1>3, <1>4 DEF Way
<1> QED BY <1>5, <1>6 DEF more, done

\* What the cancel callbacks leave alone.
Same(u, v) ==
  /\ u.input = v.input /\ u.output = v.output /\ u.socket = v.socket
  /\ u.outbound_shutdown = v.outbound_shutdown /\ u.inbound_shutdown = v.inbound_shutdown
  /\ u.outbound.buffer = v.outbound.buffer /\ u.inbound.buffer = v.inbound.buffer

\* Cancelling keeps what was copied, if a source that is cancelled has ended and
\* nothing is left of it.
LEMMA CancelLemma ==
  ASSUME NEW v, NEW from, NEW to, Copied(v, from, to), NEW r \in Rule,
         r \in Source => from[r].ended /\ from[r].taken = from[r].offered
  PROVE  /\ Copied(cancel(r, v), from, to) /\ Same(cancel(r, v), v)
         /\ \A q \in Source : q # r => stream_of(q, cancel(r, v)).eof = stream_of(q, v).eof
<1> DEFINE e == end_input(v.outbound)
           f == set_error(v.outbound)
           g == end_input(v.inbound)
           h == set_error(v.inbound)
           from1 == from["stdin"]
           from2 == from["from_socket"]
           to1 == to["to_socket"].written
           to2 == to["stdout"].written
<1>1. /\ v \in CopyRecord /\ v.input.closed = FALSE /\ v.socket.closed = FALSE
      /\ v.output.closed => v.inbound_shutdown
      /\ Way(v.outbound, v.input.eof, v.outbound_shutdown, from1, to1)
      /\ Way(v.inbound, v.socket.eof, v.inbound_shutdown, from2, to2)
  BY DEF Copied, CopyRecord, FD
<1>2. /\ from1.ended /\ from1.taken = from1.offered =>
           Way(e, v.input.eof, v.outbound_shutdown, from1, to1)
      /\ Way(f, v.input.eof, v.outbound_shutdown, from1, to1)
      /\ e.buffer = v.outbound.buffer /\ f.buffer = v.outbound.buffer /\ f.eof = v.outbound.eof
  BY <1>1, WayFlags, Zenon
<1>3. /\ from2.ended /\ from2.taken = from2.offered =>
           Way(g, v.socket.eof, v.inbound_shutdown, from2, to2)
      /\ Way(h, v.socket.eof, v.inbound_shutdown, from2, to2)
      /\ g.buffer = v.inbound.buffer /\ h.buffer = v.inbound.buffer /\ h.eof = v.inbound.eof
  BY <1>1, WayFlags, Zenon
<1>4. e \in Stream /\ f \in Stream /\ g \in Stream /\ h \in Stream
  <2>1. v.outbound \in Stream /\ v.inbound \in Stream
    BY <1>1 DEF Way
  <2> QED BY <2>1, Zenon DEF end_input, set_error, Stream
<1> HIDE DEF e, f, g, h
<1> DEFINE u == cancel(r, v)
           Goal == /\ Copied(u, from, to) /\ Same(u, v)
                   /\ \A q \in Source : q # r => stream_of(q, u).eof = stream_of(q, v).eof
<1> SUFFICES Goal
  OBVIOUS
<1>5. CASE r = "stdin"
  <2>1. u = [v EXCEPT !.outbound = e] /\ from1.ended /\ from1.taken = from1.offered
    BY <1>5 DEF cancel, e, Source
  <2>2. /\ u \in CopyRecord /\ u.outbound = e /\ u.inbound = v.inbound
        /\ u.input = v.input /\ u.output = v.output /\ u.socket = v.socket
        /\ u.outbound_shutdown = v.outbound_shutdown /\ u.inbound_shutdown = v.inbound_shutdown
    BY <2>1, <1>1, <1>4, Zenon DEF CopyRecord
  <2> HIDE DEF u
  <2>3. Copied(u, from, to)
    BY <2>1, <2>2, <1>1, <1>2, Zenon DEF Copied
  <2>4. Same(u, v)
    BY <2>2, <1>2, Zenon DEF Same
  <2>5. \A q \in Source : q # r => stream_of(q, u) = stream_of(q, v)
    BY <2>2, <1>5 DEF stream_of
  <2> QED BY <2>3, <2>4, <2>5
<1>6. CASE r = "to_socket"
  <2>1. u = [v EXCEPT !.outbound = f]
    BY <1>6 DEF cancel, f
  <2>2. /\ u \in CopyRecord /\ u.outbound = f /\ u.inbound = v.inbound
        /\ u.input = v.input /\ u.output = v.output /\ u.socket = v.socket
        /\ u.outbound_shutdown = v.outbound_shutdown /\ u.inbound_shutdown = v.inbound_shutdown
    BY <2>1, <1>1, <1>4, Zenon DEF CopyRecord
  <2> HIDE DEF u
  <2>3. Copied(u, from, to)
    BY <2>1, <2>2, <1>1, <1>2, Zenon DEF Copied
  <2>4. Same(u, v)
    BY <2>2, <1>2, Zenon DEF Same
  <2>5. \A q \in Source : q # r => stream_of(q, u).eof = stream_of(q, v).eof
    BY <2>2, <1>2, <1>6 DEF stream_of
  <2> QED BY <2>3, <2>4, <2>5
<1>7. CASE r = "from_socket"
  <2>1. u = [v EXCEPT !.inbound = g] /\ from2.ended /\ from2.taken = from2.offered
    BY <1>7 DEF cancel, g, Source
  <2>2. /\ u \in CopyRecord /\ u.inbound = g /\ u.outbound = v.outbound
        /\ u.input = v.input /\ u.output = v.output /\ u.socket = v.socket
        /\ u.outbound_shutdown = v.outbound_shutdown /\ u.inbound_shutdown = v.inbound_shutdown
    BY <2>1, <1>1, <1>4, Zenon DEF CopyRecord
  <2> HIDE DEF u
  <2>3. Copied(u, from, to)
    BY <2>1, <2>2, <1>1, <1>3, Zenon DEF Copied
  <2>4. Same(u, v)
    BY <2>2, <1>3, Zenon DEF Same
  <2>5. \A q \in Source : q # r => stream_of(q, u) = stream_of(q, v)
    BY <2>2, <1>7 DEF stream_of, Source
  <2> QED BY <2>3, <2>4, <2>5
<1>8. CASE r = "stdout"
  <2>1. u = [v EXCEPT !.inbound = h]
    BY <1>8 DEF cancel, h
  <2>2. /\ u \in CopyRecord /\ u.inbound = h /\ u.outbound = v.outbound
        /\ u.input = v.input /\ u.output = v.output /\ u.socket = v.socket
        /\ u.outbound_shutdown = v.outbound_shutdown /\ u.inbound_shutdown = v.inbound_shutdown
    BY <2>1, <1>1, <1>4, Zenon DEF CopyRecord
  <2> HIDE DEF u
  <2>3. Copied(u, from, to)
    BY <2>1, <2>2, <1>1, <1>3, Zenon DEF Copied
  <2>4. Same(u, v)
    BY <2>2, <1>3, Zenon DEF Same
  <2>5. \A q \in Source : q # r => stream_of(q, u).eof = stream_of(q, v).eof
    BY <2>2, <1>3, <1>8 DEF stream_of
  <2> QED BY <2>3, <2>4, <2>5
<1> QED BY <1>5, <1>6, <1>7, <1>8 DEF Rule, Source, Sink

\* The loop over the rules before poll(), after the first k of them.
Entry == [rule : Rule, events : BOOLEAN]

\* The pollfds are of different rules among those, a source's has an open stream.
Entries(P, list, k, v, x) ==
  \A i \in 1..Len(P) :
    /\ \E j \in 1..k : list[j] = P[i].rule
    /\ \A j \in 1..Len(P) : P[j].rule = P[i].rule => i = j
    /\ P[i].rule \in Source => ~eof_of(P[i].rule, v) /\ ~stream_of(P[i].rule, x).eof
    /\ P[i].rule = "to_socket" /\ P[i].events => ~v.outbound_shutdown

\* The rules not seen yet.
StillOpen(list, k, x) ==
  \A j \in (k + 1)..Len(list) : list[j] \in Source => Open(list[j], x)

\* The rule that writes has a pollfd, with interest unless its buffer is empty.
Writes(P, list, k, r, buffer) ==
  \A j \in 1..k : list[j] = r =>
    \E i \in 1..Len(P) : P[i].rule = r /\ (P[i].events \/ Len(buffer) = 0)

Prepared(acc, list, k, v, from, to) ==
  /\ acc \in [w : CopyRecord, pollfds : Seq(Entry)]
  /\ Copied(acc.w, from, to) /\ Same(acc.w, v)
  /\ Entries(acc.pollfds, list, k, v, acc.w)
  /\ StillOpen(list, k, acc.w)
  /\ Writes(acc.pollfds, list, k, "to_socket", v.outbound.buffer)
  /\ ~v.output.closed => Writes(acc.pollfds, list, k, "stdout", v.inbound.buffer)

\* A rule that is at its end is cancelled.
LEMMA SetupCancels ==
  ASSUME NEW list \in Seq(Rule), Distinct(list), NEW k \in 1..Len(list),
         NEW v, NEW from, NEW to, NEW acc, Prepared(acc, list, k - 1, v, from, to),
         (direction(list[k]) = "In" /\ eof_of(list[k], acc.w)) \/ closed_of(list[k], acc.w)
  PROVE  Prepared([acc EXCEPT !.w = cancel(list[k], acc.w)], list, k, v, from, to)
<1> DEFINE r == list[k]
           x == acc.w
           u == cancel(r, x)
           b == [acc EXCEPT !.w = u]
           P == acc.pollfds
<1>1. /\ r \in Rule /\ P \in Seq(Entry) /\ x \in CopyRecord
      /\ Copied(x, from, to) /\ Same(x, v)
      /\ acc \in [w : CopyRecord, pollfds : Seq(Entry)]
  BY DEF Prepared
<1>2. r # "to_socket" /\ (r \in Source => eof_of(r, x)) /\ (r = "stdout" => v.output.closed)
  <2>1. x.input.closed = FALSE /\ x.socket.closed = FALSE /\ x.output = v.output
    BY <1>1 DEF Copied, CopyRecord, FD, Same
  <2> HIDE DEF x, r
  <2>2. r \in Source => closed_of(r, x) = FALSE
    BY <2>1 DEF closed_of, fd_of, Source
  <2>3. r \in Sink => direction(r) = "Out"
    BY DEF direction, Sink
  <2>4. r = "to_socket" => closed_of(r, x) = FALSE
    BY <2>1 DEF closed_of, fd_of
  <2>5. r = "stdout" => closed_of(r, x) = v.output.closed
    BY <2>1 DEF closed_of, fd_of
  <2> QED BY <2>2, <2>3, <2>4, <2>5, <1>1 DEF Rule, Source, Sink, r, x
<1>3. r \in Source => from[r].ended /\ from[r].taken = from[r].offered
  <2>1. /\ Way(x.outbound, x.input.eof, x.outbound_shutdown, from["stdin"], to["to_socket"].written)
        /\ Way(x.inbound, x.socket.eof, x.inbound_shutdown, from["from_socket"], to["stdout"].written)
    BY <1>1 DEF Copied
  <2>2. /\ x.input.eof => from["stdin"].ended /\ from["stdin"].taken = from["stdin"].offered
        /\ x.socket.eof =>
             from["from_socket"].ended /\ from["from_socket"].taken = from["from_socket"].offered
    BY <2>1 DEF Way
  <2> HIDE DEF x, r
  <2> QED BY <2>2, <1>2 DEF eof_of, fd_of, Source
<1>4. /\ Copied(u, from, to) /\ Same(u, x)
      /\ \A q \in Source : q # r => stream_of(q, u).eof = stream_of(q, x).eof
  <2> HIDE DEF x, r
  <2> QED BY <1>1, <1>3, CancelLemma, Zenon
<1> HIDE DEF u
<1>5. b \in [w : CopyRecord, pollfds : Seq(Entry)] /\ b.w = u /\ b.pollfds = P
  BY <1>1, <1>4, Zenon DEF Copied
<1>6. Same(u, v)
  BY <1>1, <1>4, Zenon DEF Same
<1>7. \A j \in 1..Len(list) : j # k => list[j] # r
  BY DEF Distinct
<1>8. k \in Nat /\ Len(list) \in Nat
  OBVIOUS
<1> HIDE DEF b
<1>9. ASSUME NEW i \in 1..Len(P)
      PROVE  /\ \E j \in 1..k : list[j] = P[i].rule
             /\ \A j \in 1..Len(P) : P[j].rule = P[i].rule => i = j
             /\ P[i].rule \in Source => ~eof_of(P[i].rule, v) /\ ~stream_of(P[i].rule, u).eof
             /\ P[i].rule = "to_socket" /\ P[i].events => ~v.outbound_shutdown
  <2>1. /\ \E j \in 1..(k - 1) : list[j] = P[i].rule
        /\ \A j \in 1..Len(P) : P[j].rule = P[i].rule => i = j
        /\ P[i].rule \in Source => ~eof_of(P[i].rule, v) /\ ~stream_of(P[i].rule, x).eof
        /\ P[i].rule = "to_socket" /\ P[i].events => ~v.outbound_shutdown
    BY Zenon DEF Prepared, Entries
  <2>2. PICK j \in 1..(k - 1) : list[j] = P[i].rule
    BY <2>1
  <2>3. j \in 1..k /\ j \in 1..Len(list) /\ j # k
    BY <1>8
  <2>4. P[i].rule # r
    BY <2>2, <2>3, <1>7
  <2>5. P[i].rule \in Source => ~stream_of(P[i].rule, u).eof
    BY <2>1, <2>4, <1>4
  <2> QED BY <2>1, <2>2, <2>3, <2>5, Zenon
<1>10. ASSUME NEW j \in (k + 1)..Len(list), list[j] \in Source PROVE Open(list[j], u)
  <2>1. j \in 1..Len(list) /\ j # k /\ j \in (k - 1 + 1)..Len(list)
    BY <1>8
  <2>2. Open(list[j], x)
    BY <2>1, <1>10, Zenon DEF Prepared, StillOpen
  <2>3. stream_of(list[j], u).eof = stream_of(list[j], x).eof
    BY <2>1, <1>4, <1>7, <1>10
  <2>4. fd_of(list[j], u) = fd_of(list[j], x)
    BY <1>4 DEF fd_of, Same
  <2> QED BY <2>2, <2>3, <2>4, Zenon DEF Open, eof_of
<1>11. ASSUME NEW j \in 1..k, list[j] = "to_socket" \/ (list[j] = "stdout" /\ ~v.output.closed)
       PROVE  j \in 1..(k - 1)
  <2>1. j # k
    BY <1>2, <1>11 DEF r
  <2> QED BY <2>1, <1>8
<1>12. Writes(P, list, k, "to_socket", v.outbound.buffer)
  BY <1>11, Zenon DEF Prepared, Writes
<1>13. ~v.output.closed => Writes(P, list, k, "stdout", v.inbound.buffer)
  BY <1>11, Zenon DEF Prepared, Writes
<1>14. Entries(P, list, k, v, u) /\ StillOpen(list, k, u)
  BY <1>9, <1>10, Zenon DEF Entries, StillOpen
<1>15. Prepared(b, list, k, v, from, to)
  BY <1>4, <1>5, <1>6, <1>12, <1>13, <1>14, Zenon DEF Prepared
<1> QED BY <1>15 DEF b, u

\* Any other rule gets its pollfd.
LEMMA SetupPolls ==
  ASSUME NEW list \in Seq(Rule), Distinct(list), NEW k \in 1..Len(list),
         NEW v, NEW from, NEW to, NEW acc, Prepared(acc, list, k - 1, v, from, to),
         ~(direction(list[k]) = "In" /\ eof_of(list[k], acc.w)), ~closed_of(list[k], acc.w)
  PROVE  Prepared([acc EXCEPT !.pollfds =
                     Append(acc.pollfds, [rule |-> list[k], events |-> interest(list[k], acc.w)])],
                  list, k, v, from, to)
<1> DEFINE r == list[k]
           x == acc.w
           P == acc.pollfds
           e == [rule |-> r, events |-> interest(r, x)]
           Q == Append(P, e)
           b == [acc EXCEPT !.pollfds = Q]
           n == Len(P)
<1>1. /\ r \in Rule /\ P \in Seq(Entry) /\ x \in CopyRecord /\ n \in Nat
      /\ Copied(x, from, to) /\ Same(x, v)
      /\ acc \in [w : CopyRecord, pollfds : Seq(Entry)]
      /\ k \in Nat /\ Len(list) \in Nat /\ k <= Len(list) /\ 1 <= k
  BY DEF Prepared
<1>2. interest(r, x) \in BOOLEAN
  <2> HIDE DEF r, x
  <2> USE DEF interest, Rule, Source, Sink
  <2>1. CASE r = "stdin" BY <2>1
  <2>2. CASE r = "to_socket" BY <2>2
  <2>3. CASE r = "from_socket" BY <2>3
  <2>4. CASE r = "stdout" BY <2>4
  <2> QED BY <2>1, <2>2, <2>3, <2>4, <1>1
<1>3. e \in Entry /\ e.rule = r /\ e.events = interest(r, x)
  BY <1>1, <1>2, Zenon DEF Entry
<1> HIDE DEF e
<1>4. /\ Q \in Seq(Entry) /\ Len(Q) = n + 1 /\ Q[n + 1] = e
      /\ \A i \in 1..n : Q[i] = P[i]
  BY <1>1, <1>3
<1> HIDE DEF Q
<1>5. b \in [w : CopyRecord, pollfds : Seq(Entry)] /\ b.w = x /\ b.pollfds = Q
  BY <1>1, <1>4, Zenon
<1>6. \A j \in 1..Len(list) : j # k => list[j] # r
  BY DEF Distinct
<1>7. r \in Source => ~eof_of(r, v) /\ ~stream_of(r, x).eof
  <2>1. r \in Source => ~eof_of(r, x)
    <3> HIDE DEF r, x
    <3>1. r \in Source => direction(r) = "In"
      BY DEF direction, Source
    <3> QED BY <3>1 DEF r, x
  <2>2. fd_of(r, x) = fd_of(r, v)
    BY <1>1 DEF fd_of, Same
  <2>3. k \in (k - 1 + 1)..Len(list)
    BY <1>1
  <2>4. r \in Source => Open(r, x)
    BY <2>3, Zenon DEF Prepared, StillOpen
  <2> QED BY <2>1, <2>2, <2>4, Zenon DEF Open, eof_of
<1>8. /\ r = "to_socket" /\ e.events => ~v.outbound_shutdown
      /\ r = "to_socket" => e.events \/ Len(v.outbound.buffer) = 0
      /\ r = "stdout" => e.events \/ Len(v.inbound.buffer) = 0
  <2>1. /\ x.outbound.buffer = v.outbound.buffer /\ x.inbound.buffer = v.inbound.buffer
        /\ x.outbound_shutdown = v.outbound_shutdown
        /\ Way(x.outbound, x.input.eof, x.outbound_shutdown, from["stdin"], to["to_socket"].written)
    BY <1>1 DEF Same, Copied
  <2>2. x.outbound_shutdown => Len(x.outbound.buffer) = 0
    BY <2>1 DEF Way
  <2> HIDE DEF r, x
  <2>3. r = "to_socket" => e.events = (~buffer_empty(x.outbound)
                                         \/ (eof(x.outbound) /\ ~x.outbound_shutdown))
    BY <1>3 DEF interest
  <2>4. r = "stdout" => e.events = (~buffer_empty(x.inbound)
                                      \/ (eof(x.inbound) /\ ~x.inbound_shutdown))
    BY <1>3 DEF interest
  <2>5. /\ buffer_empty(x.outbound) <=> Len(v.outbound.buffer) = 0
        /\ buffer_empty(x.inbound) <=> Len(v.inbound.buffer) = 0
    BY <2>1 DEF buffer_empty, buffer_size
  <2> QED BY <2>1, <2>2, <2>3, <2>4, <2>5, Zenon
<1> HIDE DEF b, n
<1>9. ASSUME NEW i \in 1..Len(Q)
      PROVE  /\ \E j \in 1..k : list[j] = Q[i].rule
             /\ \A j \in 1..Len(Q) : Q[j].rule = Q[i].rule => i = j
             /\ Q[i].rule \in Source => ~eof_of(Q[i].rule, v) /\ ~stream_of(Q[i].rule, x).eof
             /\ Q[i].rule = "to_socket" /\ Q[i].events => ~v.outbound_shutdown
  <2> DEFINE Goal == /\ \E j \in 1..k : list[j] = Q[i].rule
                     /\ \A j \in 1..Len(Q) : Q[j].rule = Q[i].rule => i = j
                     /\ Q[i].rule \in Source =>
                          ~eof_of(Q[i].rule, v) /\ ~stream_of(Q[i].rule, x).eof
                     /\ Q[i].rule = "to_socket" /\ Q[i].events => ~v.outbound_shutdown
  <2> SUFFICES Goal
    OBVIOUS
  <2>1. ASSUME NEW h \in 1..n
        PROVE  /\ \E j \in 1..k : list[j] = P[h].rule
               /\ \A j \in 1..n : P[j].rule = P[h].rule => h = j
               /\ P[h].rule # r
               /\ P[h].rule \in Source => ~eof_of(P[h].rule, v) /\ ~stream_of(P[h].rule, x).eof
               /\ P[h].rule = "to_socket" /\ P[h].events => ~v.outbound_shutdown
    <3>1. /\ \E j \in 1..(k - 1) : list[j] = P[h].rule
          /\ \A j \in 1..n : P[j].rule = P[h].rule => h = j
          /\ P[h].rule \in Source => ~eof_of(P[h].rule, v) /\ ~stream_of(P[h].rule, x).eof
          /\ P[h].rule = "to_socket" /\ P[h].events => ~v.outbound_shutdown
      BY Zenon DEF Prepared, Entries, n
    <3>2. PICK j \in 1..(k - 1) : list[j] = P[h].rule
      BY <3>1
    <3>3. j \in 1..k /\ j \in 1..Len(list) /\ j # k
      BY <1>1
    <3> QED BY <3>1, <3>2, <3>3, <1>6, Zenon
  <2>2. CASE i \in 1..n
    <3>1. Q[i] = P[i] /\ i # n + 1
      BY <2>2, <1>1, <1>4
    <3>2. ASSUME NEW j \in 1..Len(Q), Q[j].rule = Q[i].rule PROVE i = j
      <4>1. j \in 1..n \/ j = n + 1
        BY <1>1, <1>4
      <4>2. CASE j = n + 1
        BY <4>2, <3>1, <3>2, <2>1, <2>2, <1>3, <1>4
      <4>3. CASE j \in 1..n
        BY <4>3, <3>1, <3>2, <2>1, <2>2, <1>4
      <4> QED BY <4>1, <4>2, <4>3
    <3> QED BY <3>1, <3>2, <2>1, <2>2, Zenon
  <2>3. CASE i = n + 1
    <3>1. Q[i] = e /\ k \in 1..k
      BY <2>3, <1>1, <1>4
    <3>2. ASSUME NEW j \in 1..Len(Q), Q[j].rule = Q[i].rule PROVE i = j
      <4>1. j \in 1..n \/ j = n + 1
        BY <1>1, <1>4
      <4>2. CASE j \in 1..n
        BY <4>2, <3>1, <3>2, <2>1, <1>3, <1>4
      <4> QED BY <4>1, <4>2, <2>3
    <3> QED BY <3>1, <3>2, <1>3, <1>7, <1>8, Zenon
  <2>4. i \in 1..n \/ i = n + 1
    BY <1>1, <1>4
  <2> QED BY <2>2, <2>3, <2>4
<1>10. ASSUME NEW j \in (k + 1)..Len(list), list[j] \in Source PROVE Open(list[j], x)
  <2>1. j \in (k - 1 + 1)..Len(list)
    BY <1>1
  <2> QED BY <2>1, <1>10, Zenon DEF Prepared, StillOpen
<1>11. ASSUME NEW q, NEW buffer, Writes(P, list, k - 1, q, buffer),
              r = q => e.events \/ Len(buffer) = 0
       PROVE  Writes(Q, list, k, q, buffer)
  <2> SUFFICES ASSUME NEW j \in 1..k, list[j] = q
               PROVE  \E i \in 1..Len(Q) : Q[i].rule = q /\ (Q[i].events \/ Len(buffer) = 0)
    BY Zenon DEF Writes
  <2>1. CASE j = k
    <3>1. n + 1 \in 1..Len(Q)
      BY <1>1, <1>4
    <3> QED BY <3>1, <2>1, <1>3, <1>4, <1>11, Zenon
  <2>2. CASE j # k
    <3>1. j \in 1..(k - 1)
      BY <2>2, <1>1
    <3>2. PICK i \in 1..n : P[i].rule = q /\ (P[i].events \/ Len(buffer) = 0)
      BY <3>1, <1>11, Zenon DEF Writes, n
    <3>3. i \in 1..Len(Q)
      BY <1>1, <1>4
    <3> QED BY <3>2, <3>3, <1>4, Zenon
  <2> QED BY <2>1, <2>2
<1>12. Writes(Q, list, k, "to_socket", v.outbound.buffer)
  BY <1>8, <1>11, Zenon DEF Prepared
<1>13. ~v.output.closed => Writes(Q, list, k, "stdout", v.inbound.buffer)
  BY <1>8, <1>11, Zenon DEF Prepared
<1>14. Entries(Q, list, k, v, x) /\ StillOpen(list, k, x)
  BY <1>9, <1>10, Zenon DEF Entries, StillOpen
<1>15. Prepared(b, list, k, v, from, to)
  BY <1>1, <1>5, <1>12, <1>13, <1>14, Zenon DEF Prepared
<1> QED BY <1>15 DEF b, Q, e

Setup == INSTANCE LoopProofs WITH op <- LAMBDA p, acc, rule : Loop!setup_rule(acc, rule)

\* The state and the pollfds with which poll() is called.
LEMMA SetupLemma ==
  ASSUME NEW v, NEW from, NEW to, Copied(v, from, to), NEW list, Listed(list, v)
  PROVE  Prepared(Loop!setup(list, v), list, Len(list), v, from, to)
<1> DEFINE n == Len(list)
           Acc == [w : CopyRecord, pollfds : Seq(Entry)]
           X == [k \in 0..n |-> {acc \in Acc : Prepared(acc, list, k, v, from, to)}]
           start == [w |-> v, pollfds |-> <<>>]
<1>1. n \in Nat /\ list \in Seq(Rule) /\ Distinct(list) /\ DOMAIN list = 1..n
  BY DEF Listed
<1>2. start \in X[0]
  <2>1. start \in Acc /\ start.w = v /\ start.pollfds = <<>>
    BY DEF Copied
  <2> HIDE DEF start
  <2>2. Same(start.w, v) /\ Copied(start.w, from, to)
    BY <2>1, Zenon DEF Same
  <2>3. Entries(<<>>, list, 0, v, v) /\ StillOpen(list, 0, v)
    BY <1>1 DEF Entries, StillOpen, Listed
  <2>4. \A q, buffer : Writes(<<>>, list, 0, q, buffer)
    BY DEF Writes
  <2>5. Prepared(start, list, 0, v, from, to)
    BY <2>1, <2>2, <2>3, <2>4, Zenon DEF Prepared
  <2>6. 0 \in 0..n
    BY <1>1
  <2> QED BY <2>1, <2>5, <2>6
<1>3. ASSUME NEW k \in 1..n, NEW acc \in X[k - 1] PROVE Loop!setup_rule(acc, list[k]) \in X[k]
  <2>1. k - 1 \in 0..n /\ k \in 0..n
    BY <1>1
  <2>2. acc \in Acc /\ Prepared(acc, list, k - 1, v, from, to)
    BY <2>1
  <2> DEFINE b == Loop!setup_rule(acc, list[k])
  <2>3. Prepared(b, list, k, v, from, to)
    <3>1. CASE (direction(list[k]) = "In" /\ eof_of(list[k], acc.w)) \/ closed_of(list[k], acc.w)
      <4>1. b = [acc EXCEPT !.w = cancel(list[k], acc.w)]
        BY <3>1, Zenon DEF Loop!setup_rule
      <4>2. Prepared([acc EXCEPT !.w = cancel(list[k], acc.w)], list, k, v, from, to)
        BY <3>1, <2>2, <1>1, SetupCancels, Zenon
      <4> HIDE DEF b
      <4> QED BY <4>1, <4>2
    <3>2. CASE ~((direction(list[k]) = "In" /\ eof_of(list[k], acc.w)) \/ closed_of(list[k], acc.w))
      <4>1. b = [acc EXCEPT !.pollfds =
                   Append(acc.pollfds, [rule |-> list[k], events |-> interest(list[k], acc.w)])]
        BY <3>2, Zenon DEF Loop!setup_rule
      <4>2. Prepared([acc EXCEPT !.pollfds =
                         Append(acc.pollfds,
                                [rule |-> list[k], events |-> interest(list[k], acc.w)])],
                     list, k, v, from, to)
        BY <3>2, <2>2, <1>1, SetupPolls, Zenon
      <4> HIDE DEF b
      <4> QED BY <4>1, <4>2
    <3> QED BY <3>1, <3>2
  <2> HIDE DEF b
  <2>4. b \in Acc
    BY <2>3, Zenon DEF Prepared
  <2>5. b \in X[k]
    BY <2>1, <2>3, <2>4
  <2> QED BY <2>5 DEF b
<1> HIDE DEF X
<1>4. Loop!setup(list, v) = Setup!Folded(0, start, list)
  BY DEF Loop!setup, Loop!Iterate, Setup!Folded, Loop!MapThenFoldSet, Setup!MapThenFoldSet,
         Setup!Max
<1> HIDE DEF start
<1>5. Setup!Folded(0, start, list) \in X[n]
  BY <1>1, <1>2, <1>3, Setup!FoldInvariant, Zenon
<1>6. n \in 0..n
  BY <1>1
<1> QED BY <1>4, <1>5, <1>6 DEF X

\* The loop after poll() goes on to the pollfd of the next rule, which is another
\* rule than the one just handled.
LEMMA NextPollFd ==
  ASSUME NEW p \in Seq(PollFd), Len(p) > 0, NEW list \in Seq(Rule), Distinct(list), Aligned(p, list)
  PROVE  /\ Tail(p) \in Seq(PollFd) /\ Len(Tail(p)) = Len(p) - 1
         /\ Head(p) = p[1] /\ Head(p) \in PollFd
         /\ Len(list) - Len(p) + 1 \in 1..Len(list)
         /\ list[Len(list) - Len(p) + 1] = Head(p).rule
         /\ \A k \in 1..(Len(p) - 1) :
              /\ Tail(p)[k] = p[k + 1] /\ k + 1 \in 1..Len(p)
              /\ p[k + 1].rule # Head(p).rule
         /\ Aligned(Tail(p), list)
<1> DEFINE n == Len(p)
           m == Len(list)
           t == Tail(p)
           at == m - n + 1
<1>1. n \in Nat /\ m \in Nat /\ n > 0 /\ n <= m /\ \A k \in 1..n : p[k].rule = list[m - n + k]
  <2>1. n \in Nat /\ m \in Nat
    OBVIOUS
  <2> QED BY <2>1, Zenon DEF Aligned
<1>2. p # <<>> /\ p[1] \in PollFd
  BY <1>1, ElementOfSeq
<1>3. t \in Seq(PollFd) /\ Len(t) = n - 1 /\ (\A k \in 1..(n - 1) : t[k] = p[k + 1])
  <2>1. t \in Seq(PollFd) /\ Len(t) = n - 1 /\ \A k \in 1..Len(t) : t[k] = p[k + 1]
    BY <1>2, HeadTailProperties
  <2> QED BY <2>1
<1>4. Head(p) = p[1]
  BY <1>2
<1> HIDE DEF n, m, t
<1>5. at \in 1..m /\ list[at] = p[1].rule
  BY <1>1
<1>6. ASSUME NEW k \in 1..(n - 1) PROVE k + 1 \in 1..n /\ p[k + 1].rule # p[1].rule
  <2>1. k + 1 \in 1..n /\ m - n + (k + 1) \in 1..m /\ m - n + (k + 1) # at
    BY <1>1
  <2>2. list[m - n + (k + 1)] = p[k + 1].rule
    BY <2>1, <1>1
  <2>3. \A i, j \in 1..m : list[i] = list[j] => i = j
    BY DEF Distinct, m
  <2> QED BY <2>1, <2>2, <2>3, <1>5
<1>7. Aligned(t, list)
  <2>1. n - 1 <= m
    BY <1>1
  <2>2. ASSUME NEW k \in 1..(n - 1) PROVE t[k].rule = list[m - (n - 1) + k]
    <3>1. k + 1 \in 1..n /\ m - n + (k + 1) = m - (n - 1) + k
      BY <1>1
    <3> QED BY <3>1, <1>1, <1>3, Zenon
  <2> QED BY <2>1, <2>2, <1>3 DEF Aligned, m
<1> QED BY <1>2, <1>3, <1>4, <1>5, <1>6, <1>7 DEF n, m, t

\* erase(): the rule just handled leaves the list, and the rules that follow are
\* still those of the pollfds that follow.
LEMMA RemovedRule ==
  ASSUME NEW p \in Seq(PollFd), Len(p) > 0, NEW list \in Seq(Rule), Distinct(list), Aligned(p, list)
  PROVE  LET s == erase(list, Len(list) - Len(p) + 1)
         IN  /\ s \in Seq(Rule) /\ Distinct(s) /\ Aligned(Tail(p), s)
             /\ \A i \in DOMAIN s : s[i] # Head(p).rule /\ \E j \in DOMAIN list : s[i] = list[j]
             /\ \A j \in DOMAIN list : list[j] # Head(p).rule => \E i \in DOMAIN s : s[i] = list[j]
<1> DEFINE n == Len(p)
           m == Len(list)
           at == m - n + 1
           a == SubSeq(list, 1, at - 1)
           b == SubSeq(list, at + 1, m)
           s == erase(list, at)
           t == Tail(p)
           h == Head(p).rule
           place(i) == IF i < at THEN i ELSE i + 1
<1>1. /\ n \in Nat /\ m \in Nat /\ n > 0 /\ n <= m /\ at \in 1..m /\ list[at] = h
      /\ Len(t) = n - 1 /\ DOMAIN list = 1..m
  BY NextPollFd DEF Aligned
<1>2. \A k \in 1..(n - 1) : t[k].rule = list[at + k]
  <2>1. Aligned(t, list)
    BY NextPollFd, Zenon
  <2>2. \A k \in 1..(n - 1) : t[k].rule = list[m - (n - 1) + k]
    BY <2>1, <1>1 DEF Aligned
  <2> HIDE DEF n, m, t
  <2>3. \A k \in 1..(n - 1) : m - (n - 1) + k = at + k
    BY <1>1
  <2> QED BY <2>2, <2>3
<1>3. \A i, j \in 1..m : list[i] = list[j] => i = j
  BY DEF Distinct
<1>4. /\ s \in Seq(Rule) /\ Len(s) = m - 1
      /\ \A i \in 1..(m - 1) : s[i] = list[place(i)]
  <2>1. \A i \in 1..m : list[i] \in Rule
    BY ElementOfSeq
  <2> HIDE DEF n, m
  <2>2. /\ a \in Seq(Rule) /\ Len(a) = at - 1 /\ \A i \in 1..(at - 1) : a[i] = list[i]
    <3>1. 1 \in Int /\ at - 1 \in Int /\ (\A i \in 1..(at - 1) : list[i] \in Rule) /\ at - 1 >= 0
      BY <2>1, <1>1
    <3> HIDE DEF at
    <3>2. /\ a \in Seq(Rule) /\ Len(a) = IF 1 <= at - 1 THEN at - 1 - 1 + 1 ELSE 0
          /\ \A i \in 1..(at - 1 - 1 + 1) : a[i] = list[1 + i - 1]
      BY <3>1, SubSeqProperties
    <3> HIDE DEF a
    <3> QED BY <3>1, <3>2
  <2>3. /\ b \in Seq(Rule) /\ Len(b) = m - at /\ \A i \in 1..(m - at) : b[i] = list[at + i]
    <3>1. /\ at + 1 \in Int /\ m \in Int /\ (\A i \in (at + 1)..m : list[i] \in Rule) /\ at <= m
          /\ at \in Int
      BY <2>1, <1>1
    <3> HIDE DEF at
    <3>2. /\ b \in Seq(Rule) /\ Len(b) = IF at + 1 <= m THEN m - (at + 1) + 1 ELSE 0
          /\ \A i \in 1..(m - (at + 1) + 1) : b[i] = list[at + 1 + i - 1]
      BY <3>1, SubSeqProperties
    <3> HIDE DEF b
    <3> QED BY <3>1, <3>2
  <2>4. s = a \o b
    BY DEF erase, m
  <2> HIDE DEF a, b, s
  <2>5. /\ s \in Seq(Rule) /\ Len(s) = Len(a) + Len(b)
        /\ \A i \in 1..(Len(a) + Len(b)) : s[i] = IF i <= Len(a) THEN a[i] ELSE b[i - Len(a)]
    BY <2>2, <2>3, <2>4, ConcatProperties, Zenon
  <2>6. Len(a) + Len(b) = m - 1
    BY <2>2, <2>3, <1>1
  <2>7. ASSUME NEW i \in 1..(m - 1) PROVE s[i] = list[place(i)]
    <3>1. CASE i < at
      <4>1. i \in 1..(at - 1) /\ i <= at - 1 /\ place(i) = i
        BY <3>1, <1>1
      <4> QED BY <4>1, <2>2, <2>5, <2>6
    <3>2. CASE ~(i < at)
      <4>1. ~(i <= at - 1) /\ i - (at - 1) \in 1..(m - at) /\ at + (i - (at - 1)) = place(i)
        BY <3>2, <1>1
      <4> HIDE DEF place
      <4> QED BY <4>1, <2>2, <2>3, <2>5, <2>6
    <3> QED BY <3>1, <3>2
  <2> QED BY <2>5, <2>6, <2>7
<1> HIDE DEF n, m, s, t, h
<1>5. \A i \in 1..(m - 1) : place(i) \in 1..m /\ place(i) # at
  BY <1>1
<1>6. \A i, j \in 1..(m - 1) : place(i) = place(j) => i = j
  BY <1>1
<1>7. \A j \in 1..m : j # at => \E i \in 1..(m - 1) : place(i) = j
  <2> SUFFICES ASSUME NEW j \in 1..m, j # at PROVE \E i \in 1..(m - 1) : place(i) = j
    OBVIOUS
  <2>1. CASE j < at
    <3>1. j \in 1..(m - 1) /\ place(j) = j
      BY <2>1, <1>1
    <3> QED BY <3>1
  <2>2. CASE ~(j < at)
    <3>1. j - 1 \in 1..(m - 1) /\ place(j - 1) = j
      BY <2>2, <1>1
    <3> QED BY <3>1
  <2> QED BY <2>1, <2>2
<1>8. \A k \in 1..(n - 1) : at + k - 1 \in 1..(m - 1) /\ place(at + k - 1) = at + k
  BY <1>1
<1>9. (m - 1) - (n - 1) = at - 1 /\ n - 1 <= m - 1
  BY <1>1
<1>10. \A k \in 1..(n - 1) : at - 1 + k = at + k - 1
  BY <1>1
<1>11. DOMAIN s = 1..(m - 1)
  BY <1>4
<1> HIDE DEF place, at
<1>12. Distinct(s)
  BY <1>3, <1>4, <1>5, <1>6, <1>11 DEF Distinct
<1>13. Aligned(t, s)
  <2>1. \A k \in 1..(n - 1) : t[k].rule = s[(m - 1) - (n - 1) + k]
    <3> SUFFICES ASSUME NEW k \in 1..(n - 1)
                 PROVE  t[k].rule = s[(m - 1) - (n - 1) + k]
      OBVIOUS
    <3>1. (m - 1) - (n - 1) + k = at + k - 1
      BY <1>9, <1>10
    <3>2. s[at + k - 1] = list[at + k]
      BY <1>4, <1>8
    <3> QED BY <3>1, <3>2, <1>2
  <2> QED BY <2>1, <1>1, <1>4, <1>9, Zenon DEF Aligned
<1>14. \A i \in DOMAIN s : s[i] # h /\ \E j \in DOMAIN list : s[i] = list[j]
  BY <1>1, <1>3, <1>4, <1>5, <1>11
<1>15. \A j \in DOMAIN list : list[j] # h => \E i \in DOMAIN s : s[i] = list[j]
  BY <1>1, <1>4, <1>7, <1>11, Zenon
<1> QED BY <1>4, <1>12, <1>13, <1>14, <1>15 DEF s, t, h, at, m, n

-----------------------------------------------------------------------------
\* The copy starts with empty streams and the four rules.
LEMMA InitIInv ==
  Init => IInv
<1> SUFFICES ASSUME Init PROVE IInv
  OBVIOUS
<1> DEFINE s == NewByteStream(BufferSize)
           none == [offered |-> 0, taken |-> 0, ended |-> FALSE]
<1>1. s \in Stream /\ s.buffer = <<>> /\ s.eof = FALSE /\ BufferSize \in Nat
  BY StreamCopyAssumption DEF NewByteStream, Stream
<1>2. none \in SourceRecord /\ none.taken = 0 /\ none.offered = 0
  BY DEF SourceRecord
<1>3. Counted(<<>>, <<>>, 0) /\ <<>> \in Seq(Nat) /\ Len(<<>>) = 0
  BY DEF Counted
<1> HIDE DEF s, none
<1>4. Way(s, FALSE, FALSE, none, <<>>)
  BY <1>1, <1>2, <1>3 DEF Way
<1>5. NewFD \in FD /\ NewFD.eof = FALSE /\ NewFD.closed = FALSE
  BY DEF NewFD, FD
<1>6. /\ w \in CopyRecord /\ w.input = NewFD /\ w.output = NewFD /\ w.socket = NewFD
      /\ w.outbound = s /\ w.inbound = s
      /\ w.outbound_shutdown = FALSE /\ w.inbound_shutdown = FALSE
  BY <1>1, <1>5 DEF Init, NewStreamCopy, CopyRecord, s
<1>7. /\ source["stdin"] = none /\ source["from_socket"] = none
      /\ sink["to_socket"].written = <<>> /\ sink["stdout"].written = <<>>
  BY DEF Init, Source, Sink, none
<1>8. Copied(w, source, sink)
  BY <1>4, <1>5, <1>6, <1>7, Zenon DEF Copied
<1>9. Listed(rules, w)
  <2>1. rules = <<"stdin", "to_socket", "from_socket", "stdout">>
    BY DEF Init, Rules
  <2>2. rules \in Seq(Rule) /\ DOMAIN rules = 1..4 /\ rules[2] = "to_socket" /\ rules[4] = "stdout"
    BY <2>1 DEF Rule, Source, Sink
  <2>3. Distinct(rules)
    BY <2>1 DEF Distinct
  <2>4. \A i \in DOMAIN rules : rules[i] \in Source => Open(rules[i], w)
    BY <1>1, <1>6 DEF Open, stream_of
  <2>5. 2 \in 1..4 /\ 4 \in 1..4
    OBVIOUS
  <2> QED BY <2>2, <2>3, <2>4, <2>5, Zenon DEF Listed
<1>10. source \in [Source -> SourceRecord]
  BY <1>2 DEF Init, none
<1>11. sink \in [Sink -> [written : Seq(Nat), drained : Nat]]
  <2>1. [written |-> <<>>, drained |-> 0] \in [written : Seq(Nat), drained : Nat]
    OBVIOUS
  <2> QED BY <2>1 DEF Init
<1> QED BY <1>8, <1>9, <1>10, <1>11, Zenon DEF Init, IInv

\* What poll() reports of a source and of a sink.
LEMMA ReventsLemma ==
  ASSUME IInv, NEW r \in Rule
  PROVE  /\ revents(r) \in [ready : BOOLEAN, hup : BOOLEAN, err : BOOLEAN]
         /\ r \in Source =>
              /\ revents(r).ready => source[r].offered > source[r].taken \/ source[r].ended
              /\ revents(r).hup /\ ~revents(r).ready =>
                   source[r].ended /\ source[r].offered = source[r].taken
         /\ r = "to_socket" /\ revents(r).hup => w.outbound_shutdown
         /\ r = "stdout" => ~revents(r).hup
<1> DEFINE ready == IF r \in Sink THEN room(r) > 0
                    ELSE available(r) > 0 \/ (source[r].ended /\ ~(r = "stdin" /\ pipe))
           hup == IF r = "stdin" THEN pipe /\ source[r].ended
                  ELSE /\ r # "stdout"
                       /\ w.outbound_shutdown /\ source["from_socket"].ended
           err == broken(r)
<1>1. revents(r) = [ready |-> ready, hup |-> hup, err |-> err]
  BY DEF revents
<1>2. /\ source \in [Source -> SourceRecord] /\ pipe \in BOOLEAN /\ reset \in BOOLEAN
      /\ Copied(w, source, sink) /\ w \in CopyRecord
  BY DEF IInv, Copied
<1>3. /\ \A q \in Source : /\ source[q].ended \in BOOLEAN
                           /\ source[q].offered \in Nat /\ source[q].taken \in Nat
      /\ w.outbound_shutdown \in BOOLEAN
      /\ "stdin" \in Source /\ "from_socket" \in Source /\ "stdin" \notin Sink
      /\ "from_socket" \notin Sink
  BY <1>2 DEF SourceRecord, CopyRecord, Source, Sink
<1>4. ready \in BOOLEAN
  <2>1. CASE r \in Sink
    BY <2>1
  <2>2. CASE r \notin Sink
    BY <2>2
  <2> QED BY <2>1, <2>2
<1>5. hup \in BOOLEAN
  BY <1>2, <1>3, Zenon
<1>6. err \in BOOLEAN
  BY DEF broken
<1> HIDE DEF ready, hup, err
<1>7. revents(r).ready = ready /\ revents(r).hup = hup
      /\ revents(r) \in [ready : BOOLEAN, hup : BOOLEAN, err : BOOLEAN]
  BY <1>1, <1>4, <1>5, <1>6
<1>8. \A q \in Source : source[q].taken <= source[q].offered
  BY <1>2 DEF Copied, Way, Source
<1>9. r \in Source => (ready => source[r].offered > source[r].taken \/ source[r].ended)
  BY <1>3 DEF ready, available, Source
<1>10. r = "stdin" => (hup /\ ~ready => source[r].ended /\ source[r].offered = source[r].taken)
  BY <1>3, <1>8 DEF ready, hup, available
<1>11. r = "from_socket" => (hup => ready)
  BY <1>3 DEF ready, hup
<1>12. /\ r = "to_socket" /\ hup => w.outbound_shutdown
       /\ r = "stdout" => ~hup
  BY DEF hup
<1> QED BY <1>7, <1>9, <1>10, <1>11, <1>12, Zenon DEF Source

\* The first half of wait_next_event(): a rule whose descriptor is closed or at
\* its end is cancelled and removed, the others are polled.
LEMMA WaitStep ==
  IInv /\ WaitNextEvent => IInv'
<1> SUFFICES ASSUME IInv, WaitNextEvent PROVE IInv'
  OBVIOUS
<1> DEFINE start == Loop!setup(rules, w)
           P == start.pollfds
           n == Len(P)
           Q == polled(start)
<1>1. /\ Copied(w, source, sink) /\ Listed(rules, w)
      /\ w' = start.w /\ UNCHANGED <<source, sink, reset, pipe>>
      /\ rules' = [k \in DOMAIN P |-> P[k].rule]
      /\ \/ Loop!something_to_poll(P) /\ pc' = "results" /\ pollfds' = Q
         \/ ~Loop!something_to_poll(P) /\ pc' = "return"
  BY DEF IInv, WaitNextEvent, env
<1>2. Prepared(start, rules, Len(rules), w, source, sink)
  BY <1>1, SetupLemma, Zenon
<1>3. \A k \in DOMAIN P : Q[k] = [rule |-> P[k].rule, events |-> P[k].events,
                                  revents |-> revents(P[k].rule)]
  BY DEF polled
<1>4. DOMAIN Q = DOMAIN P
  BY DEF polled
<1> HIDE DEF start, Q
<1>5. /\ start \in [w : CopyRecord, pollfds : Seq(Entry)]
      /\ Copied(start.w, source, sink) /\ Same(start.w, w)
      /\ Entries(P, rules, Len(rules), w, start.w)
      /\ Writes(P, rules, Len(rules), "to_socket", w.outbound.buffer)
      /\ ~w.output.closed => Writes(P, rules, Len(rules), "stdout", w.inbound.buffer)
  BY <1>2 DEF Prepared
<1>6. /\ P \in Seq(Entry) /\ n \in Nat /\ DOMAIN P = 1..n
      /\ \A k \in 1..n : P[k] \in Entry /\ P[k].rule \in Rule /\ P[k].events \in BOOLEAN
  <2>1. P \in Seq(Entry)
    BY <1>5
  <2>2. \A k \in 1..n : P[k] \in Entry
    BY <2>1, ElementOfSeq
  <2> QED BY <2>1, <2>2 DEF Entry
<1>7. rules' \in Seq(Rule) /\ Len(rules') = n /\ \A k \in 1..n : rules'[k] = P[k].rule
  <2>1. rules' = [k \in 1..n |-> P[k].rule]
    BY <1>1, <1>6
  <2> HIDE DEF P, n
  <2> QED BY <2>1, <1>6
<1>8. DOMAIN rules' = 1..n
  BY <1>1, <1>6
<1>9. /\ \A k \in 1..n : \A j \in 1..n : P[j].rule = P[k].rule => k = j
      /\ \A k \in 1..n : P[k].rule \in Source =>
                           ~eof_of(P[k].rule, w) /\ ~stream_of(P[k].rule, start.w).eof
      /\ \A k \in 1..n : P[k].rule = "to_socket" /\ P[k].events => ~w.outbound_shutdown
  BY <1>5 DEF Entries
<1>10. \E i \in 1..n : P[i].rule = "to_socket" /\ (P[i].events \/ Len(w.outbound.buffer) = 0)
  <2>1. \E j \in 1..Len(rules) : rules[j] = "to_socket"
    BY <1>1 DEF Listed
  <2> QED BY <2>1, <1>5, Zenon DEF Writes
<1>11. w.output.closed \/
       \E i \in 1..n : P[i].rule = "stdout" /\ (P[i].events \/ Len(w.inbound.buffer) = 0)
  <2>1. w.output.closed \/ \E j \in 1..Len(rules) : rules[j] = "stdout"
    BY <1>1 DEF Listed
  <2> QED BY <2>1, <1>5, Zenon DEF Writes
<1> HIDE DEF P, n
<1>12. Listed(rules, w)'
  <2>1. Distinct(rules')
    BY <1>7, <1>8, <1>9 DEF Distinct
  <2>2. \E i \in DOMAIN rules' : rules'[i] = "to_socket"
    BY <1>7, <1>8, <1>10
  <2>3. w'.output.closed \/ \E i \in DOMAIN rules' : rules'[i] = "stdout"
    <3>1. w'.output = w.output
      BY <1>1, <1>5 DEF Same
    <3> QED BY <3>1, <1>7, <1>8, <1>11
  <2>4. \A i \in DOMAIN rules' : rules'[i] \in Source => Open(rules'[i], w')
    BY <1>1, <1>7, <1>8, <1>9 DEF Open
  <2> QED BY <2>1, <2>2, <2>3, <2>4, <1>7 DEF Listed
<1>13. Copied(w, source, sink)'
  BY <1>1, <1>5, Zenon
<1>14. ASSUME pc' = "results"
       PROVE  /\ pollfds' \in Seq(PollFd) /\ Len(pollfds') > 0
              /\ Aligned(pollfds, rules)'
              /\ \A k \in DOMAIN pollfds' : Reported(pollfds'[k], w', source')
  <2>1. pollfds' = Q /\ n > 0
    BY <1>1, <1>10, <1>14, <1>6
  <2>2. ASSUME NEW k \in 1..n
        PROVE  /\ Q[k] \in PollFd /\ Q[k].rule = P[k].rule
               /\ Reported(Q[k], w', source')
    <3> DEFINE r == P[k].rule
               e == P[k].events
    <3>1. /\ r \in Rule /\ e \in BOOLEAN
          /\ r \in Source => ~eof_of(r, w) /\ ~stream_of(r, start.w).eof
          /\ r = "to_socket" /\ e => ~w.outbound_shutdown
      BY <1>6, <1>9
    <3>2. Q[k] = [rule |-> r, events |-> e, revents |-> revents(r)]
      BY <1>3, <1>6, Zenon
    <3> HIDE DEF r, e
    <3> DEFINE v == revents(r)
    <3>3. /\ v \in [ready : BOOLEAN, hup : BOOLEAN, err : BOOLEAN]
          /\ r \in Source =>
               /\ v.ready => source[r].offered > source[r].taken \/ source[r].ended
               /\ v.hup /\ ~v.ready => source[r].ended /\ source[r].offered = source[r].taken
          /\ r = "to_socket" /\ v.hup => w.outbound_shutdown
          /\ r = "stdout" => ~v.hup
      BY <3>1, ReventsLemma, Zenon
    <3> HIDE DEF v
    <3>4. Q[k] \in PollFd /\ Q[k].rule = r /\ Q[k].events = e /\ Q[k].revents = v
      <4>1. Q[k] = [rule |-> r, events |-> e, revents |-> v]
        BY <3>2 DEF v
      <4> QED BY <4>1, <3>1, <3>3 DEF PollFd
    <3>5. eof_of(r, w') = eof_of(r, w) /\ w' = start.w /\ source' = source
      BY <1>1, <1>5 DEF eof_of, fd_of, Same
    <3>6. Reported(Q[k], w', source')
      BY <3>1, <3>3, <3>4, <3>5, Zenon DEF Reported
    <3> QED BY <3>4, <3>6 DEF r
  <2>3. DOMAIN Q = 1..n
    BY <1>4, <1>6
  <2>4. Q \in Seq(PollFd) /\ Len(Q) = n
    <3>1. Q = [k \in 1..n |-> Q[k]]
      BY <2>3 DEF Q, polled
    <3> QED BY <3>1, <2>2, <2>3, <1>6
  <2>5. Aligned(Q, rules')
    <3>1. \A k \in 1..n : n - n + k = k /\ n <= n
      BY <1>6
    <3> QED BY <3>1, <2>1, <2>2, <2>4, <1>6, <1>7 DEF Aligned
  <2> QED BY <2>1, <2>2, <2>3, <2>4, <2>5
<1>15. ASSUME pc' = "return" PROVE (buffer_empty(w.outbound) /\ buffer_empty(w.inbound))'
  <2>1. \A k \in 1..n : ~P[k].events
    BY <1>1, <1>6, <1>15 DEF Loop!something_to_poll
  <2>2. Len(w.outbound.buffer) = 0
    BY <2>1, <1>10
  <2>3. w.output.closed => Len(w.inbound.buffer) = 0
    BY <1>1 DEF Copied, Way
  <2>4. Len(w.inbound.buffer) = 0
    BY <2>1, <2>3, <1>11
  <2>5. w'.outbound.buffer = w.outbound.buffer /\ w'.inbound.buffer = w.inbound.buffer
    BY <1>1, <1>5 DEF Same
  <2> QED BY <2>2, <2>4, <2>5, Zenon DEF buffer_empty, buffer_size
<1>16. /\ (source \in [Source -> SourceRecord])'
       /\ (sink \in [Sink -> [written : Seq(Nat), drained : Nat]])'
       /\ reset' \in BOOLEAN /\ pipe' \in BOOLEAN
       /\ pc' \in {"wait", "results", "return", "throw"}
  BY <1>1 DEF IInv
<1> QED BY <1>12, <1>13, <1>14, <1>15, <1>16, Zenon DEF IInv

\* The pollfd being handled.
LEMMA HeadLemma ==
  ASSUME IInv, pc = "results"
  PROVE  /\ Head(pollfds) \in PollFd /\ Reported(Head(pollfds), w, source)
         /\ Head(pollfds).rule \in Rule
         /\ Head(pollfds).events \in BOOLEAN /\ Head(pollfds).revents.ready \in BOOLEAN
         /\ Head(pollfds).revents.hup \in BOOLEAN /\ Head(pollfds).revents.err \in BOOLEAN
<1>1. /\ pollfds \in Seq(PollFd) /\ Len(pollfds) > 0 /\ Aligned(pollfds, rules)
      /\ \A k \in DOMAIN pollfds : Reported(pollfds[k], w, source)
      /\ rules \in Seq(Rule) /\ Distinct(rules)
  BY DEF IInv, Listed
<1>2. Head(pollfds) = pollfds[1] /\ Head(pollfds) \in PollFd
  BY <1>1, NextPollFd, Zenon
<1>3. 1 \in DOMAIN pollfds
  BY <1>1
<1>4. Reported(Head(pollfds), w, source)
  BY <1>1, <1>2, <1>3
<1> QED BY <1>2, <1>4 DEF PollFd

\* The rules after the one that was handled find their pollfds and what they
\* report as they were.
LEMMA HandledStep ==
  ASSUME IInv, pc = "results", Handled,
         rules' = rules \/ rules' = erase(rules, iterator),
         \A q \in Source : q # Head(pollfds).rule =>
           /\ eof_of(q, w') = eof_of(q, w) /\ stream_of(q, w').eof = stream_of(q, w).eof
           /\ source'[q] = source[q]
  PROVE  /\ pc' \in {"wait", "results"}
         /\ pc' = "results" =>
              /\ pollfds' \in Seq(PollFd) /\ Len(pollfds') > 0
              /\ Aligned(pollfds', rules')
              /\ \A k \in DOMAIN pollfds' : Reported(pollfds'[k], w', source')
<1> DEFINE n == Len(pollfds)
<1>1. /\ pollfds \in Seq(PollFd) /\ n > 0 /\ n \in Nat /\ Aligned(pollfds, rules)
      /\ \A k \in 1..n : Reported(pollfds[k], w, source)
      /\ rules \in Seq(Rule) /\ Distinct(rules)
  <2>1. /\ pollfds \in Seq(PollFd) /\ n > 0 /\ Aligned(pollfds, rules)
        /\ \A k \in DOMAIN pollfds : Reported(pollfds[k], w, source)
    BY Zenon DEF IInv
  <2>2. rules \in Seq(Rule) /\ Distinct(rules)
    BY Zenon DEF IInv, Listed
  <2>3. n \in Nat /\ DOMAIN pollfds = 1..n
    BY <2>1
  <2> QED BY <2>1, <2>2, <2>3, Zenon
<1>2. /\ Tail(pollfds) \in Seq(PollFd) /\ Len(Tail(pollfds)) = n - 1
      /\ \A k \in 1..(n - 1) : /\ Tail(pollfds)[k] = pollfds[k + 1] /\ k + 1 \in 1..n
                               /\ pollfds[k + 1].rule # Head(pollfds).rule
      /\ Aligned(Tail(pollfds), rules)
  BY <1>1, NextPollFd, Zenon
<1>3. Aligned(Tail(pollfds), rules')
  <2>1. Aligned(Tail(pollfds), erase(rules, iterator))
    BY <1>1, RemovedRule, Zenon DEF iterator
  <2> QED BY <2>1, <1>2, Zenon
<1>4. pollfds' = Tail(pollfds) /\ pc' \in {"wait", "results"} /\ (pc' = "results" => n # 1)
  BY DEF Handled
<1> HIDE DEF n
<1>5. DOMAIN pollfds' = 1..(n - 1)
  BY <1>2, <1>4
<1>6. ASSUME NEW k \in 1..(n - 1) PROVE Reported(pollfds'[k], w', source')
  <2> DEFINE p == pollfds[k + 1]
  <2>1. pollfds'[k] = p /\ Reported(p, w, source) /\ p.rule # Head(pollfds).rule
    BY <1>1, <1>2, <1>4
  <2> HIDE DEF p
  <2> QED BY <2>1, Zenon DEF Reported
<1>7. pc' = "results" => n - 1 > 0
  BY <1>1, <1>4
<1> QED BY <1>2, <1>3, <1>4, <1>5, <1>6, <1>7

\* A read callback moves bytes from a source into a stream.
LEMMA ReadStep ==
  IInv /\ ReadCallback => IInv'
<1> SUFFICES ASSUME IInv, ReadCallback PROVE IInv'
  OBVIOUS
<1> DEFINE p == Head(pollfds)
           r == p.rule
           taken == source[r].taken
<1>1. PICK n \in (IF available(r) = 0 THEN {0} ELSE 1..available(r)) :
        /\ n <= limit_of(r, w)
        /\ source' = [source EXCEPT ![r].taken = @ + n]
        /\ w' = read_callback(r, w, [k \in 1..n |-> taken + k])
  BY Zenon DEF ReadCallback
<1>2. /\ pc = "results" /\ Loop!verdict(p) = "callback" /\ r \in Source /\ Handled
      /\ UNCHANGED <<rules, sink, reset, pipe>>
  BY DEF ReadCallback, Results
<1>3. /\ p.revents.ready /\ Reported(p, w, source)
  <2>1. p.revents.ready
    BY <1>2 DEF Loop!verdict
  <2> QED BY <2>1, <1>2, HeadLemma
<1>4. /\ ~eof_of(r, w) /\ ~stream_of(r, w).eof
      /\ source[r].offered > taken \/ source[r].ended
  BY <1>2, <1>3 DEF Reported
<1>5. /\ source \in [Source -> SourceRecord] /\ Copied(w, source, sink) /\ w \in CopyRecord
      /\ w.input \in FD /\ w.socket \in FD
      /\ Way(w.outbound, w.input.eof, w.outbound_shutdown, source["stdin"], sink["to_socket"].written)
      /\ Way(w.inbound, w.socket.eof, w.inbound_shutdown, source["from_socket"],
             sink["stdout"].written)
      /\ ~w.input.closed /\ ~w.socket.closed /\ (w.output.closed => w.inbound_shutdown)
  BY DEF IInv, Copied, CopyRecord
<1>6. /\ source[r] \in SourceRecord /\ taken \in Nat /\ source[r].offered \in Nat
      /\ taken <= source[r].offered
  BY <1>2, <1>5 DEF SourceRecord, Way, Source
<1> DEFINE data == [k \in 1..n |-> taken + k]
           src == [source[r] EXCEPT !.taken = taken + Len(data)]
<1>7. n \in Nat /\ n <= source[r].offered - taken /\ (n = 0 => source[r].offered = taken)
  BY <1>1, <1>6 DEF available
<1> HIDE DEF taken, r
<1>8. data \in Seq(Nat) /\ Len(data) = n /\ \A k \in 1..Len(data) : data[k] = taken + k
  BY <1>6, <1>7
<1>9. (data = <<>> => Len(data) = 0) /\ w' = read_callback(r, w, data)
  BY <1>1
<1>10. source' = [source EXCEPT ![r] = src]
  <2>1. source' = [source EXCEPT ![r] = [source[r] EXCEPT !.taken = taken + n]]
    BY <1>1, <1>2, <1>5 DEF taken
  <2> QED BY <2>1, <1>8, Zenon
<1> HIDE DEF data
<1>11. src \in SourceRecord
  BY <1>6, <1>8 DEF SourceRecord
<1> HIDE DEF src
<1>12. /\ source' \in [Source -> SourceRecord] /\ source'[r] = src
       /\ \A q \in Source : q # r => source'[q] = source[q]
  BY <1>2, <1>5, <1>10, <1>11
<1> DEFINE limit == limit_of(r, w)
           end == limit > 0 /\ data = <<>>
<1>13. end \in BOOLEAN /\ (end => /\ source[r].ended /\ taken = source[r].offered
                                  /\ Len(data) = 0)
  BY <1>4, <1>6, <1>7, <1>8, <1>9
<1>14. taken + Len(data) <= source[r].offered
  BY <1>6, <1>7, <1>8
<1> HIDE DEF end
<1> DEFINE str == stream_of(r, w)
           s == IF end THEN end_input(write(str, data)) ELSE write(str, data)
           fd == fd_read(fd_of(r, w), limit, data)
           at_end == IF r = "stdin" THEN w.input.eof ELSE w.socket.eof
           shut == IF r = "stdin" THEN w.outbound_shutdown ELSE w.inbound_shutdown
           wr == IF r = "stdin" THEN sink["to_socket"].written ELSE sink["stdout"].written
<1>15. Way(str, at_end, shut, source[r], wr) /\ limit = remaining_capacity(str)
  <2>1. CASE r = "stdin"
    BY <2>1, <1>5 DEF stream_of, limit_of
  <2>2. CASE r = "from_socket"
    BY <2>2, <1>5 DEF stream_of, limit_of
  <2> QED BY <2>1, <2>2, <1>2 DEF Source
<1>16. Len(data) <= remaining_capacity(str)
  BY <1>1, <1>8, <1>15
<1> HIDE DEF limit
<1>17. Way(s, end, shut, src, wr) /\ s.eof = end
  <2> HIDE DEF str, at_end, shut, wr
  <2> DEFINE t == write(str, data)
  <2>1. ~str.eof
    BY <1>4 DEF str
  <2>2. end => source[r].ended /\ source[r].taken = source[r].offered /\ Len(data) = 0
    BY <1>13 DEF taken
  <2>3. src = [source[r] EXCEPT !.taken = source[r].taken + Len(data)]
    BY DEF src, taken
  <2>4. /\ Way(t, FALSE, shut, src, wr) /\ t.eof = FALSE
        /\ source[r].ended /\ source[r].taken = source[r].offered /\ Len(data) = 0 =>
             Way(end_input(t), TRUE, shut, src, wr) /\ end_input(t).eof = TRUE
    <3> DEFINE from == [source[r] EXCEPT !.taken = source[r].taken + Len(data)]
    <3>1. \A k \in 1..Len(data) : data[k] = source[r].taken + k
      BY <1>8 DEF taken
    <3>2. source[r].taken + Len(data) <= source[r].offered
      BY <1>14 DEF taken
    <3>3. data \in Seq(Nat)
      BY <1>8
    <3>4. Way(str, at_end, shut, source[r], wr)
      BY <1>15
    <3>5. /\ Way(t, FALSE, shut, from, wr) /\ t.eof = FALSE
          /\ source[r].ended /\ source[r].taken = source[r].offered /\ Len(data) = 0 =>
               Way(end_input(t), TRUE, shut, from, wr) /\ end_input(t).eof = TRUE
      BY <3>1, <3>2, <3>3, <3>4, <2>1, <1>16, WayRead, Zenon
    <3> QED BY <3>5, <2>3, Zenon
  <2>5. CASE end = TRUE
    BY <2>2, <2>4, <2>5, Zenon
  <2>6. CASE end = FALSE
    BY <2>4, <2>6, Zenon
  <2> QED BY <2>5, <2>6, <1>13, Zenon
<1>18. fd_of(r, w) \in FD /\ fd_of(r, w).eof = FALSE /\ fd_of(r, w).closed = FALSE
  BY <1>2, <1>4, <1>5 DEF eof_of, fd_of, FD, Source
<1>20. fd \in FD /\ fd.eof = end /\ fd.closed = FALSE
  <2>1. CASE end = TRUE
    <3>1. fd = [fd_of(r, w) EXCEPT !.eof = TRUE]
      BY <2>1, Zenon DEF fd_read, end
    <3> HIDE DEF fd
    <3> QED BY <3>1, <2>1, <1>18, Zenon DEF FD
  <2>2. CASE end = FALSE
    <3>1. fd = fd_of(r, w)
      BY <2>2, Zenon DEF fd_read, end
    <3> HIDE DEF fd
    <3> QED BY <3>1, <2>2, <1>18, Zenon
  <2> QED BY <2>1, <2>2, <1>13, Zenon
<1>21. end_input_at_eof(write(str, data), fd) = s
  BY <1>20, Zenon DEF end_input_at_eof
<1>22. s \in Stream
  BY <1>17 DEF Way
<1> HIDE DEF s, fd
<1>23. Copied(w, source, sink)' /\ Open(r, w')
       /\ w'.output = w.output
       /\ \A q \in Source : q # r => /\ eof_of(q, w') = eof_of(q, w)
                                     /\ stream_of(q, w').eof = stream_of(q, w).eof
  <2> DEFINE Goal == /\ Copied(w', source', sink') /\ Open(r, w') /\ w'.output = w.output
                     /\ \A q \in Source : q # r => /\ eof_of(q, w') = eof_of(q, w)
                                                   /\ stream_of(q, w').eof = stream_of(q, w).eof
  <2> SUFFICES Goal
    OBVIOUS
  <2>1. CASE r = "stdin"
    <3>1. w' = [w EXCEPT !.input = fd, !.outbound = s]
      BY <2>1, <1>9, <1>21, Zenon DEF read_callback, str, stream_of, limit, fd
    <3>2. /\ w' \in CopyRecord /\ w'.input = fd /\ w'.outbound = s /\ w'.inbound = w.inbound
          /\ w'.output = w.output /\ w'.socket = w.socket
          /\ w'.outbound_shutdown = w.outbound_shutdown
          /\ w'.inbound_shutdown = w.inbound_shutdown
      BY <3>1, <1>5, <1>20, <1>22, Zenon DEF CopyRecord
    <3>3. /\ source'["stdin"] = src /\ source'["from_socket"] = source["from_socket"]
          /\ sink' = sink
      BY <2>1, <1>2, <1>12 DEF Source
    <3>4. Way(s, end, w.outbound_shutdown, src, sink["to_socket"].written)
      BY <1>17, <2>1
    <3>5. Copied(w', source', sink')
      BY <3>2, <3>3, <3>4, <1>5, <1>20, Zenon DEF Copied
    <3>6. Open(r, w')
      BY <3>2, <2>1, <1>17, <1>20 DEF Open, eof_of, fd_of, stream_of
    <3>7. \A q \in Source : q # r => /\ eof_of(q, w') = eof_of(q, w)
                                     /\ stream_of(q, w') = stream_of(q, w)
      BY <3>2, <2>1 DEF eof_of, fd_of, stream_of, Source
    <3> QED BY <3>2, <3>5, <3>6, <3>7
  <2>2. CASE r = "from_socket"
    <3>1. w' = [w EXCEPT !.socket = fd, !.inbound = s]
      BY <2>2, <1>9, <1>21, Zenon DEF read_callback, str, stream_of, limit, fd
    <3>2. /\ w' \in CopyRecord /\ w'.socket = fd /\ w'.inbound = s /\ w'.outbound = w.outbound
          /\ w'.output = w.output /\ w'.input = w.input
          /\ w'.outbound_shutdown = w.outbound_shutdown
          /\ w'.inbound_shutdown = w.inbound_shutdown
      BY <3>1, <1>5, <1>20, <1>22, Zenon DEF CopyRecord
    <3>3. /\ source'["from_socket"] = src /\ source'["stdin"] = source["stdin"]
          /\ sink' = sink
      BY <2>2, <1>2, <1>12 DEF Source
    <3>4. Way(s, end, w.inbound_shutdown, src, sink["stdout"].written)
      BY <1>17, <2>2
    <3>5. Copied(w', source', sink')
      BY <3>2, <3>3, <3>4, <1>5, <1>20, Zenon DEF Copied
    <3>6. Open(r, w')
      BY <3>2, <2>2, <1>17, <1>20 DEF Open, eof_of, fd_of, stream_of
    <3>7. \A q \in Source : q # r => /\ eof_of(q, w') = eof_of(q, w)
                                     /\ stream_of(q, w') = stream_of(q, w)
      BY <3>2, <2>2 DEF eof_of, fd_of, stream_of, Source
    <3> QED BY <3>2, <3>5, <3>6, <3>7
  <2> QED BY <2>1, <2>2, <1>2 DEF Source
<1>24. Listed(rules, w)'
  <2>1. Listed(rules, w) /\ rules' = rules
    BY <1>2 DEF IInv
  <2>2. \A i \in DOMAIN rules : rules[i] \in Source => Open(rules[i], w')
    BY <2>1, <1>23 DEF Listed, Open
  <2> QED BY <2>1, <2>2, <1>23, Zenon DEF Listed
<1>25. /\ pc' \in {"wait", "results"}
       /\ pc' = "results" =>
            /\ pollfds' \in Seq(PollFd) /\ Len(pollfds') > 0
            /\ Aligned(pollfds', rules')
            /\ \A k \in DOMAIN pollfds' : Reported(pollfds'[k], w', source')
  BY <1>2, <1>12, <1>23, HandledStep, Zenon DEF r
<1>26. /\ (sink \in [Sink -> [written : Seq(Nat), drained : Nat]])'
       /\ reset' \in BOOLEAN /\ pipe' \in BOOLEAN
  BY <1>2 DEF IInv
<1>27. pc' \in {"wait", "results", "return", "throw"} /\ pc' # "return"
  BY <1>25
<1> QED BY <1>12, <1>23, <1>24, <1>25, <1>26, <1>27, Zenon DEF IInv

\* A write callback moves bytes from a stream to a sink, and shuts it down after
\* the last one.
LEMMA WriteStep ==
  IInv /\ WriteCallback => IInv'
<1> SUFFICES ASSUME IInv, WriteCallback PROVE IInv'
  OBVIOUS
<1> DEFINE r == Head(pollfds).rule
           str == IF r = "to_socket" THEN w.outbound ELSE w.inbound
<1>1. PICK n \in (IF limit_of(r, w) = 0 THEN {0} ELSE 1..limit_of(r, w)) :
        /\ sink' = [sink EXCEPT ![r].written = @ \o peek_output(str, n)]
        /\ w' = write_callback(r, w, n)
  BY Zenon DEF WriteCallback
<1>2. /\ pc = "results" /\ r \in Sink /\ Handled
      /\ UNCHANGED <<rules, source, reset, pipe>>
  BY DEF WriteCallback, Results
<1>3. /\ sink \in [Sink -> [written : Seq(Nat), drained : Nat]]
      /\ w \in CopyRecord /\ w.output \in FD
      /\ w.outbound_shutdown \in BOOLEAN /\ w.inbound_shutdown \in BOOLEAN
      /\ w.input.closed = FALSE /\ w.socket.closed = FALSE
      /\ w.output.closed => w.inbound_shutdown
      /\ Way(w.outbound, w.input.eof, w.outbound_shutdown, source["stdin"], sink["to_socket"].written)
      /\ Way(w.inbound, w.socket.eof, w.inbound_shutdown, source["from_socket"],
             sink["stdout"].written)
  BY DEF IInv, Copied, CopyRecord, FD
<1> HIDE DEF r
<1>4. limit_of(r, w) = buffer_size(str) /\ buffer_size(str) \in Nat
  <2>1. w.outbound.buffer \in Seq(Nat) /\ w.inbound.buffer \in Seq(Nat)
    BY <1>3 DEF Way, Stream
  <2>2. CASE r = "to_socket"
    BY <2>1, <2>2 DEF limit_of, buffer_size
  <2>3. CASE r = "stdout"
    BY <2>1, <2>3 DEF limit_of, buffer_size
  <2> QED BY <2>2, <2>3, <1>2 DEF Sink
<1>5. n \in Nat /\ n <= buffer_size(str)
  <2> HIDE DEF str
  <2> QED BY <1>1, <1>4
<1> DEFINE t == pop_output(str, n)
           x == sink[r].written \o peek_output(str, n)
           entry == [sink[r] EXCEPT !.written = x]
<1>6. sink' = [sink EXCEPT ![r] = entry]
  BY <1>1, <1>2, <1>3
<1>7. CASE r = "to_socket"
  <2> DEFINE shut == w.outbound_shutdown \/ eof(t)
  <2>1. Way(t, w.input.eof, shut, source["stdin"], x) /\ t.eof = w.outbound.eof
    <3> DEFINE y == w.outbound
               u == pop_output(y, n)
    <3>1. str = y /\ r = "to_socket"
      BY <1>7
    <3>2. Way(y, w.input.eof, w.outbound_shutdown, source["stdin"], sink["to_socket"].written)
      BY <1>3
    <3>3. n \in Nat /\ n <= buffer_size(y)
      BY <3>1, <1>5
    <3>4. /\ Way(u, w.input.eof, w.outbound_shutdown \/ eof(u), source["stdin"],
                 sink["to_socket"].written \o peek_output(y, n))
          /\ u.eof = y.eof
      BY <3>2, <3>3, WayWrite, Zenon
    <3> HIDE DEF str
    <3> QED BY <3>1, <3>4, Zenon
  <2>2. t \in Stream /\ x \in Seq(Nat) /\ shut \in BOOLEAN
    BY <2>1 DEF Way
  <2>3. w' = [w EXCEPT !.outbound = t, !.outbound_shutdown = shut]
    BY <1>1, <1>7 DEF write_callback
  <2> HIDE DEF t, x, shut
  <2>4. /\ w' \in CopyRecord /\ w'.outbound = t /\ w'.outbound_shutdown = shut
        /\ w'.input = w.input /\ w'.output = w.output /\ w'.socket = w.socket
        /\ w'.inbound = w.inbound /\ w'.inbound_shutdown = w.inbound_shutdown
    BY <2>2, <2>3, <1>3, Zenon DEF CopyRecord
  <2>5. entry \in [written : Seq(Nat), drained : Nat] /\ entry.written = x
    BY <2>2, <1>2, <1>3, Zenon
  <2> HIDE DEF entry
  <2>6. /\ sink' \in [Sink -> [written : Seq(Nat), drained : Nat]]
        /\ sink'["to_socket"].written = x /\ sink'["stdout"] = sink["stdout"]
    BY <2>5, <1>2, <1>3, <1>6, <1>7 DEF Sink
  <2>7. Copied(w', source', sink')
    <3>1. source' = source
      BY <1>2
    <3> QED BY <3>1, <2>1, <2>4, <2>6, <1>3, Zenon DEF Copied
  <2>8. \A q \in Source : eof_of(q, w') = eof_of(q, w) /\ stream_of(q, w').eof = stream_of(q, w).eof
    BY <2>1, <2>4, <1>7 DEF eof_of, fd_of, stream_of, t, str
  <2>9. Listed(rules', w')
    <3>1. Listed(rules, w) /\ rules' = rules /\ w'.output = w.output
      BY <1>2, <2>4 DEF IInv
    <3> QED BY <3>1, <2>8 DEF Listed, Open
  <2>10. /\ pc' \in {"wait", "results"}
         /\ pc' = "results" =>
              /\ pollfds' \in Seq(PollFd) /\ Len(pollfds') > 0
              /\ Aligned(pollfds', rules')
              /\ \A k \in DOMAIN pollfds' : Reported(pollfds'[k], w', source')
    BY <1>2, <2>8, HandledStep
  <2>11. /\ source' \in [Source -> SourceRecord]
         /\ reset' \in BOOLEAN /\ pipe' \in BOOLEAN
    BY <1>2 DEF IInv
  <2>12. pc' \in {"wait", "results", "return", "throw"} /\ pc' # "return"
    BY <2>10
  <2> QED BY <2>6, <2>7, <2>9, <2>10, <2>11, <2>12, Zenon DEF IInv
<1>8. CASE r = "stdout"
  <2> DEFINE shut == w.inbound_shutdown \/ eof(t)
             fd == IF eof(t) THEN fd_close(w.output) ELSE w.output
  <2>1. Way(t, w.socket.eof, shut, source["from_socket"], x) /\ t.eof = w.inbound.eof
    <3> DEFINE y == w.inbound
               u == pop_output(y, n)
    <3>1. str = y /\ r = "stdout"
      BY <1>8
    <3>2. Way(y, w.socket.eof, w.inbound_shutdown, source["from_socket"], sink["stdout"].written)
      BY <1>3
    <3>3. n \in Nat /\ n <= buffer_size(y)
      BY <3>1, <1>5
    <3>4. /\ Way(u, w.socket.eof, w.inbound_shutdown \/ eof(u), source["from_socket"],
                 sink["stdout"].written \o peek_output(y, n))
          /\ u.eof = y.eof
      BY <3>2, <3>3, WayWrite, Zenon
    <3> HIDE DEF str
    <3> QED BY <3>1, <3>4, Zenon
  <2>2. t \in Stream /\ x \in Seq(Nat) /\ shut \in BOOLEAN
    BY <2>1 DEF Way
  <2>3. w' = [w EXCEPT !.inbound = t, !.inbound_shutdown = shut, !.output = fd]
    BY <1>1, <1>8 DEF write_callback
  <2>4. fd \in FD /\ (fd.closed => shut)
    <3>1. fd_close(w.output) \in FD
      BY <1>3, Zenon DEF fd_close, FD
    <3> QED BY <3>1, <1>3
  <2> HIDE DEF t, x, shut, fd
  <2>5. /\ w' \in CopyRecord /\ w'.inbound = t /\ w'.inbound_shutdown = shut
        /\ w'.input = w.input /\ w'.output = fd /\ w'.socket = w.socket
        /\ w'.outbound = w.outbound /\ w'.outbound_shutdown = w.outbound_shutdown
    BY <2>2, <2>3, <2>4, <1>3, Zenon DEF CopyRecord
  <2>6. entry \in [written : Seq(Nat), drained : Nat] /\ entry.written = x
    BY <2>2, <1>2, <1>3, Zenon
  <2> HIDE DEF entry
  <2>7. /\ sink' \in [Sink -> [written : Seq(Nat), drained : Nat]]
        /\ sink'["stdout"].written = x /\ sink'["to_socket"] = sink["to_socket"]
    BY <2>6, <1>2, <1>3, <1>6, <1>8 DEF Sink
  <2>8. Copied(w', source', sink')
    <3>1. source' = source
      BY <1>2
    <3> QED BY <3>1, <2>1, <2>4, <2>5, <2>7, <1>3, Zenon DEF Copied
  <2>9. \A q \in Source : eof_of(q, w') = eof_of(q, w) /\ stream_of(q, w').eof = stream_of(q, w).eof
    BY <2>1, <2>5, <1>8 DEF eof_of, fd_of, stream_of, Source
  <2>10. Listed(rules', w')
    <3>1. Listed(rules, w) /\ rules' = rules
      BY <1>2 DEF IInv
    <3>2. w.output.closed => w'.output.closed
      BY <2>5, <1>3 DEF fd, fd_close, FD
    <3> QED BY <3>1, <3>2, <2>9 DEF Listed, Open
  <2>11. /\ pc' \in {"wait", "results"}
         /\ pc' = "results" =>
              /\ pollfds' \in Seq(PollFd) /\ Len(pollfds') > 0
              /\ Aligned(pollfds', rules')
              /\ \A k \in DOMAIN pollfds' : Reported(pollfds'[k], w', source')
    BY <1>2, <2>9, HandledStep
  <2>12. /\ source' \in [Source -> SourceRecord]
         /\ reset' \in BOOLEAN /\ pipe' \in BOOLEAN
    BY <1>2 DEF IInv
  <2>13. pc' \in {"wait", "results", "return", "throw"} /\ pc' # "return"
    BY <2>11
  <2> QED BY <2>7, <2>8, <2>10, <2>11, <2>12, <2>13, Zenon DEF IInv
<1> QED BY <1>2, <1>7, <1>8 DEF Sink

\* A rule that loses its fd is a source's: the ones that write report no hangup
\* while they are interested.
LEMMA CancelStep ==
  IInv /\ CancelRule => IInv'
<1> SUFFICES ASSUME IInv, CancelRule PROVE IInv'
  OBVIOUS
<1> DEFINE p == Head(pollfds)
           r == p.rule
<1>1. /\ pc = "results" /\ Loop!verdict(p) = "cancel" /\ w' = cancel(r, w)
      /\ rules' = erase(rules, iterator) /\ Handled
      /\ UNCHANGED <<source, sink, reset, pipe>>
  BY DEF CancelRule, Results, env
<1>2. p.events /\ p.revents.hup /\ ~p.revents.ready
  BY <1>1 DEF Loop!verdict
<1>3. Reported(p, w, source) /\ r \in Rule
  BY <1>1, HeadLemma
<1>4. r \in Source /\ source[r].ended /\ source[r].taken = source[r].offered
  BY <1>2, <1>3 DEF Reported, Rule, Sink
<1>5. Copied(w, source, sink) /\ Listed(rules, w)
  BY DEF IInv
<1>6. /\ Copied(w', source, sink) /\ Same(w', w)
      /\ \A q \in Source : q # r => stream_of(q, w').eof = stream_of(q, w).eof
  BY <1>1, <1>3, <1>4, <1>5, CancelLemma, Zenon
<1>7. \A q : eof_of(q, w') = eof_of(q, w)
  BY <1>6 DEF eof_of, fd_of, Same
<1>8. /\ pollfds \in Seq(PollFd) /\ Len(pollfds) > 0 /\ Aligned(pollfds, rules)
      /\ rules \in Seq(Rule) /\ Distinct(rules)
  BY <1>1, <1>5 DEF IInv, Listed
<1>9. /\ rules' \in Seq(Rule) /\ Distinct(rules')
      /\ \A i \in DOMAIN rules' : rules'[i] # r /\ \E j \in DOMAIN rules : rules'[i] = rules[j]
      /\ \A j \in DOMAIN rules : rules[j] # r => \E i \in DOMAIN rules' : rules'[i] = rules[j]
  BY <1>1, <1>8, RemovedRule, Zenon DEF iterator
<1>10. Listed(rules', w')
  <2>1. "to_socket" # r /\ "stdout" # r
    BY <1>4 DEF Source
  <2>2. w'.output = w.output
    BY <1>6 DEF Same
  <2>3. \A i \in DOMAIN rules' : rules'[i] \in Source => Open(rules'[i], w')
    <3> SUFFICES ASSUME NEW i \in DOMAIN rules', rules'[i] \in Source, ~eof_of(rules'[i], w')
                 PROVE  ~stream_of(rules'[i], w').eof
      BY Zenon DEF Open
    <3>1. PICK j \in DOMAIN rules : rules'[i] = rules[j]
      BY <1>9, Zenon
    <3>2. Open(rules[j], w)
      BY <3>1, <1>5, Zenon DEF Listed
    <3>3. rules'[i] # r /\ ~eof_of(rules[j], w)
      BY <3>1, <1>7, <1>9, Zenon
    <3>4. ~stream_of(rules[j], w).eof
      BY <3>2, <3>3, Zenon DEF Open
    <3> HIDE DEF r
    <3> QED BY <3>1, <3>3, <3>4, <1>6, Zenon
  <2>4. \E i \in DOMAIN rules' : rules'[i] = "to_socket"
    BY <2>1, <1>5, <1>9, Zenon DEF Listed
  <2>5. w.output.closed \/ \E i \in DOMAIN rules' : rules'[i] = "stdout"
    BY <2>1, <1>5, <1>9, Zenon DEF Listed
  <2> QED BY <2>2, <2>3, <2>4, <2>5, <1>9, Zenon DEF Listed
<1>11. /\ pc' \in {"wait", "results"}
       /\ pc' = "results" =>
            /\ pollfds' \in Seq(PollFd) /\ Len(pollfds') > 0
            /\ Aligned(pollfds', rules')
            /\ \A k \in DOMAIN pollfds' : Reported(pollfds'[k], w', source')
  BY <1>1, <1>6, <1>7, HandledStep
<1>12. /\ source' \in [Source -> SourceRecord]
       /\ sink' \in [Sink -> [written : Seq(Nat), drained : Nat]]
       /\ reset' \in BOOLEAN /\ pipe' \in BOOLEAN /\ Copied(w', source', sink')
  BY <1>1, <1>6 DEF IInv
<1>13. pc' \in {"wait", "results", "return", "throw"} /\ pc' # "return"
  BY <1>11
<1> QED BY <1>10, <1>11, <1>12, <1>13, Zenon DEF IInv

\* A rule without an event is passed over.
LEMMA SkipStep ==
  IInv /\ SkipRule => IInv'
<1> SUFFICES ASSUME IInv, SkipRule PROVE IInv'
  OBVIOUS
<1>1. /\ pc = "results" /\ Handled /\ UNCHANGED <<w, rules, source, sink, reset, pipe>>
  BY DEF SkipRule, Results, env
<1>2. /\ pc' \in {"wait", "results"}
      /\ pc' = "results" =>
           /\ pollfds' \in Seq(PollFd) /\ Len(pollfds') > 0
           /\ Aligned(pollfds', rules')
           /\ \A k \in DOMAIN pollfds' : Reported(pollfds'[k], w', source')
  BY <1>1, HandledStep, Zenon
<1>3. pc' \in {"wait", "results", "return", "throw"} /\ pc' # "return"
  BY <1>2
<1> QED BY <1>1, <1>2, <1>3, Zenon DEF IInv

\* A source offers a byte or ends, between any two steps of the function.
LEMMA SourceStep ==
  ASSUME NEW r \in Source
  PROVE  IInv /\ (Offer(r) \/ End(r)) => IInv'
<1> SUFFICES ASSUME IInv, Offer(r) \/ End(r) PROVE IInv'
  OBVIOUS
<1> DEFINE src == source[r]
           more == [src EXCEPT !.offered = src.offered + 1]
           done == [src EXCEPT !.ended = TRUE]
           new == source'[r]
<1>1. /\ ~src.ended /\ UNCHANGED <<w, rules, pollfds, pc, sink, reset, pipe>>
      /\ source' = [source EXCEPT ![r] = more] \/ source' = [source EXCEPT ![r] = done]
  BY DEF Offer, End
<1>2. source \in [Source -> SourceRecord] /\ Copied(w, source, sink) /\ w \in CopyRecord
  BY DEF IInv, Copied
<1>3. src \in SourceRecord /\ src.offered \in Nat /\ src.taken \in Nat
  BY <1>2 DEF SourceRecord
<1>4. /\ new \in SourceRecord /\ new.taken = src.taken
      /\ src.offered > src.taken => new.offered > src.taken
      /\ new = more \/ new = done
      /\ \A q \in Source : q # r => source'[q] = source[q]
      /\ source' \in [Source -> SourceRecord]
  <2>1. CASE source' = [source EXCEPT ![r] = more]
    <3>1. src.offered + 1 \in Nat /\ (src.offered > src.taken => src.offered + 1 > src.taken)
      BY <1>3
    <3>2. more \in SourceRecord /\ more.taken = src.taken /\ more.offered = src.offered + 1
      BY <3>1, <1>3, Zenon DEF SourceRecord
    <3> HIDE DEF more
    <3> QED BY <2>1, <3>1, <3>2, <1>2
  <2>2. CASE source' = [source EXCEPT ![r] = done]
    <3>1. done \in SourceRecord /\ done.taken = src.taken /\ done.offered = src.offered
      BY <1>3, Zenon DEF SourceRecord
    <3> HIDE DEF done
    <3> QED BY <2>2, <3>1, <1>2
  <2> QED BY <1>1, <2>1, <2>2
<1>5. ASSUME NEW str, NEW at_end, NEW shut, NEW wr, Way(str, at_end, shut, src, wr)
      PROVE  Way(str, at_end, shut, new, wr)
  <2>1. Way(str, at_end, shut, more, wr) /\ Way(str, at_end, shut, done, wr)
    BY <1>1, <1>5, WaySource, Zenon
  <2> QED BY <2>1, <1>4, Zenon
<1>6. Copied(w', source', sink')
  <2>1. /\ ~w.input.closed /\ ~w.socket.closed /\ (w.output.closed => w.inbound_shutdown)
        /\ Way(w.outbound, w.input.eof, w.outbound_shutdown, source["stdin"],
               sink["to_socket"].written)
        /\ Way(w.inbound, w.socket.eof, w.inbound_shutdown, source["from_socket"],
               sink["stdout"].written)
    BY <1>2 DEF Copied
  <2>2. /\ Way(w.outbound, w.input.eof, w.outbound_shutdown, source'["stdin"],
               sink["to_socket"].written)
        /\ Way(w.inbound, w.socket.eof, w.inbound_shutdown, source'["from_socket"],
               sink["stdout"].written)
    <3> HIDE DEF new, src
    <3>1. "stdin" \in Source /\ "from_socket" \in Source
      BY DEF Source
    <3>2. \A q \in Source : source'[q] = source[q] \/ (q = r /\ source'[q] = new /\ source[q] = src)
      BY <1>4, Zenon DEF new, src
    <3> QED BY <2>1, <3>1, <3>2, <1>5, Zenon
  <2> QED BY <2>1, <2>2, <1>1, <1>2, Zenon DEF Copied
<1>7. ASSUME NEW p, Reported(p, w, source), p.rule \in Rule PROVE Reported(p, w', source')
  <2>1. CASE p.rule = r
    <3>1. /\ ~eof_of(r, w) /\ ~stream_of(r, w).eof
          /\ p.revents.ready => src.offered > src.taken
          /\ ~(p.revents.hup /\ ~p.revents.ready)
          /\ r # "to_socket" /\ r # "stdout"
      BY <2>1, <1>1, <1>7 DEF Reported, Source
    <3>2. p.revents.ready => source'[r].offered > source'[r].taken
      BY <3>1, <1>4
    <3> QED BY <2>1, <3>1, <3>2, <1>1, Zenon DEF Reported
  <2>2. CASE p.rule # r
    BY <2>2, <1>1, <1>4, <1>7, Zenon DEF Reported
  <2> QED BY <2>1, <2>2
<1>8. pc' = "results" =>
        /\ pollfds' \in Seq(PollFd) /\ Len(pollfds') > 0
        /\ Aligned(pollfds', rules')
        /\ \A k \in DOMAIN pollfds' : Reported(pollfds'[k], w', source')
  <2> SUFFICES ASSUME pc = "results"
               PROVE  \A k \in DOMAIN pollfds : Reported(pollfds[k], w', source')
    BY <1>1 DEF IInv
  <2>1. \A k \in DOMAIN pollfds : pollfds[k] \in PollFd /\ Reported(pollfds[k], w, source)
    <3>1. /\ pollfds \in Seq(PollFd)
          /\ \A k \in DOMAIN pollfds : Reported(pollfds[k], w, source)
      BY Zenon DEF IInv
    <3> QED BY <3>1
  <2>2. \A k \in DOMAIN pollfds : pollfds[k].rule \in Rule
    BY <2>1 DEF PollFd
  <2> QED BY <2>1, <2>2, <1>7, Zenon
<1>9. /\ Listed(rules', w') /\ sink' \in [Sink -> [written : Seq(Nat), drained : Nat]]
      /\ reset' \in BOOLEAN /\ pipe' \in BOOLEAN
      /\ pc' \in {"wait", "results", "return", "throw"}
      /\ pc' = "return" => buffer_empty(w'.outbound) /\ buffer_empty(w'.inbound)
  BY <1>1 DEF IInv
<1> QED BY <1>4, <1>6, <1>8, <1>9, Zenon DEF IInv

\* What is written may be read by someone at any time.
LEMMA DrainStep ==
  ASSUME NEW r \in Sink
  PROVE  IInv /\ Drain(r) => IInv'
<1> SUFFICES ASSUME IInv, Drain(r) PROVE IInv'
  OBVIOUS
<1> DEFINE new == [sink[r] EXCEPT !.drained = sink[r].drained + 1]
<1>1. /\ UNCHANGED <<w, rules, pollfds, pc, source, reset, pipe>>
      /\ sink' = [sink EXCEPT ![r] = new]
      /\ sink \in [Sink -> [written : Seq(Nat), drained : Nat]]
  BY DEF Drain, IInv
<1>2. sink[r].drained + 1 \in Nat
  BY <1>1
<1>3. new \in [written : Seq(Nat), drained : Nat] /\ new.written = sink[r].written
  BY <1>1, <1>2, Zenon
<1> HIDE DEF new
<1>4. /\ sink' \in [Sink -> [written : Seq(Nat), drained : Nat]]
      /\ sink'["to_socket"].written = sink["to_socket"].written
      /\ sink'["stdout"].written = sink["stdout"].written
  BY <1>1, <1>3 DEF Sink
<1>5. Copied(w', source', sink')
  BY <1>1, <1>4, Zenon DEF IInv, Copied
<1> QED BY <1>1, <1>4, <1>5, Zenon DEF IInv

\* Every step preserves the inductive invariant.
LEMMA NextIInv ==
  IInv /\ [Next]_vars => IInv'
<1> SUFFICES ASSUME IInv, [Next]_vars PROVE IInv'
  OBVIOUS
<1>1. CASE WaitNextEvent
  BY <1>1, WaitStep
<1>2. CASE ReadCallback
  BY <1>2, ReadStep
<1>3. CASE WriteCallback
  BY <1>3, WriteStep
<1>4. CASE CancelRule
  BY <1>4, CancelStep
<1>5. CASE SkipRule
  BY <1>5, SkipStep
<1>6. CASE Throw
  <2>1. pc' = "throw" /\ UNCHANGED <<w, rules, pollfds, source, sink, reset, pipe>>
    BY <1>6 DEF Throw, env
  <2> QED BY <2>1 DEF IInv
<1>7. CASE \E r \in Source : Offer(r) \/ End(r)
  BY <1>7, SourceStep
<1>8. CASE \E r \in Sink : Drain(r)
  BY <1>8, DrainStep
<1>9. CASE ResetConnection
  <2>1. reset' = TRUE /\ UNCHANGED <<w, rules, pollfds, pc, source, sink, pipe>>
    BY <1>9 DEF ResetConnection
  <2> QED BY <2>1 DEF IInv
<1>10. CASE UNCHANGED vars
  BY <1>10 DEF IInv, vars
<1> QED BY <1>1, <1>2, <1>3, <1>4, <1>5, <1>6, <1>7, <1>8, <1>9, <1>10 DEF Next, Function

\* The inductive invariant holds.
LEMMA Invariance == Spec => []IInv
<1> QED BY InitIInv, NextIInv, PTL DEF Spec

Numbers(m) == [k \in 1..m |-> k]

\* Counting sequences are equal to the sequence of numbers.
LEMMA CountedIsFifo ==
  ASSUME NEW wr \in Seq(Nat), NEW b \in Seq(Nat), NEW m \in Nat, Counted(wr, b, m)
  PROVE  wr \o b = Numbers(m)
<1> DEFINE c == Len(wr)
           e == Len(b)
           t == wr \o b
           all == Numbers(m)
<1>1. c \in Nat /\ e \in Nat /\ c + e = m
      /\ (\A i \in 1..c : wr[i] = i) /\ (\A i \in 1..e : b[i] = c + i)
  BY DEF Counted
<1>2. /\ t \in Seq(Nat) /\ Len(t) = c + e
      /\ \A i \in 1..(c + e) : t[i] = IF i <= c THEN wr[i] ELSE b[i - c]
  BY ConcatProperties
<1>3. all \in Seq(Nat) /\ Len(all) = m /\ \A i \in 1..m : all[i] = i
  BY DEF Numbers
<1> HIDE DEF c, e, t, all
<1>4. ASSUME NEW i \in 1..m PROVE t[i] = i
  <2>1. CASE i <= c
    <3>1. i \in 1..c /\ i \in 1..(c + e)
      BY <2>1, <1>1
    <3> QED BY <2>1, <3>1, <1>1, <1>2
  <2>2. CASE ~(i <= c)
    <3>1. i \in 1..(c + e) /\ i - c \in 1..e /\ c + (i - c) = i
      BY <2>2, <1>1
    <3> QED BY <2>2, <3>1, <1>1, <1>2, Zenon
  <2> QED BY <2>1, <2>2
<1>5. t = all
  BY <1>1, <1>2, <1>3, <1>4, SeqEqual
<1> QED BY <1>5 DEF t, all

\* What bidirectional_stream_copy() has written to a side, followed by what it
\* holds for it, is what it has read from the other side, in order.
THEOREM CopiesInOrder == Spec => []Fifo
<1>1. IInv => Fifo
  <2> SUFFICES ASSUME IInv, NEW s \in streams
               PROVE  sink[s[3]].written \o s[2].buffer = Numbers(source[s[1]].taken)
    BY Zenon DEF Fifo, Numbers
  <2>1. /\ Way(w.outbound, w.input.eof, w.outbound_shutdown, source["stdin"],
               sink["to_socket"].written)
        /\ Way(w.inbound, w.socket.eof, w.inbound_shutdown, source["from_socket"],
               sink["stdout"].written)
    BY DEF IInv, Copied
  <2>2. ASSUME NEW str, NEW at_end, NEW shut, NEW src, NEW wr, Way(str, at_end, shut, src, wr)
        PROVE  wr \o str.buffer = Numbers(src.taken)
    <3>1. /\ wr \in Seq(Nat) /\ str.buffer \in Seq(Nat) /\ src.taken \in Nat
          /\ Counted(wr, str.buffer, src.taken)
      BY <2>2 DEF Way, Stream, SourceRecord
    <3> QED BY <3>1, CountedIsFifo, Zenon
  <2>3. /\ sink["to_socket"].written \o w.outbound.buffer = Numbers(source["stdin"].taken)
        /\ sink["stdout"].written \o w.inbound.buffer = Numbers(source["from_socket"].taken)
    <3>1. Way(w.outbound, w.input.eof, w.outbound_shutdown, source["stdin"],
              sink["to_socket"].written)
      BY <2>1
    <3>2. Way(w.inbound, w.socket.eof, w.inbound_shutdown, source["from_socket"],
              sink["stdout"].written)
      BY <2>1
    <3>3. sink["to_socket"].written \o w.outbound.buffer = Numbers(source["stdin"].taken)
      BY <3>1, <2>2, Zenon
    <3>4. sink["stdout"].written \o w.inbound.buffer = Numbers(source["from_socket"].taken)
      BY <3>2, <2>2, Zenon
    <3> QED BY <3>3, <3>4
  <2>4. CASE s = <<"stdin", w.outbound, "to_socket">>
    BY <2>3, <2>4, Zenon
  <2>5. CASE s = <<"from_socket", w.inbound, "stdout">>
    BY <2>3, <2>5, Zenon
  <2> QED BY <2>4, <2>5, Zenon DEF streams
<1> QED BY <1>1, Invariance, PTL

\* The socket is shut down, and stdout closed, when all of the ended other side
\* was written there, and the function returns with empty buffers.
THEOREM ShutsDownLast == Spec => []ShutdownAfterAll
<1>1. IInv => ShutdownAfterAll
  <2> SUFFICES ASSUME IInv PROVE ShutdownAfterAll
    OBVIOUS
  <2>1. /\ Way(w.outbound, w.input.eof, w.outbound_shutdown, source["stdin"],
               sink["to_socket"].written)
        /\ Way(w.inbound, w.socket.eof, w.inbound_shutdown, source["from_socket"],
               sink["stdout"].written)
        /\ pc = "return" => buffer_empty(w.outbound) /\ buffer_empty(w.inbound)
    BY DEF IInv, Copied
  <2>2. ASSUME NEW str, NEW at_end, NEW shut, NEW src, NEW wr, Way(str, at_end, shut, src, wr), shut
        PROVE  src.ended /\ Len(wr) = src.offered
    <3>1. /\ src.ended /\ src.taken = src.offered /\ Len(str.buffer) = 0
          /\ wr \in Seq(Nat) /\ Len(wr) + Len(str.buffer) = src.taken
      BY <2>2 DEF Way, Counted
    <3>2. Len(wr) \in Nat
      BY <3>1
    <3> QED BY <3>1, <3>2
  <2> QED BY <2>1, <2>2, Zenon DEF ShutdownAfterAll
<1> QED BY <1>1, Invariance, PTL
=============================================================================
