-------------------------- MODULE TCPConnectionSpec --------------------------
(***************************************************************************)
(* Two TCPConnections driven as apps/tcp_benchmark.cc drives them: x       *)
(* connects, and each end writes while there is room, ends its stream,     *)
(* reads, has its segments moved to the other end and lets time pass, in   *)
(* any order.  The network delivers in order, except for a bounded number  *)
(* of faults: it loses, duplicates or reorders segments, is so slow that   *)
(* timers expire while segments are under way, or delivers a copy of the   *)
(* first SYN when the connection is over.                                  *)
(***************************************************************************)
EXTENDS TCPConnection, SequencesExt

CONSTANTS Config,         \* the TCPConfig of both ends
          Workloads,      \* how many bytes each end may have to send
          TickMs,         \* how much time passes at once
          MaxFaults,      \* how often the network loses, duplicates, ...
          MaxOldSyns      \* how many copies of the first SYN come too late

\* The network does not fail more often than a sender tries again, or each of
\* its attempts could be lost and every promise be off.
ASSUME FaultsAssumption == MaxFaults <= MAX_RETX_ATTEMPTS

End == {"x", "y"}
peer(e) == IF e = "x" THEN "y" ELSE "x"

VARIABLES conn,            \* the connection of each end
          net,             \* what is under way to each end
          string_received, \* what each application has read
          to_send,         \* how many bytes each application has to send
          faults, old_syns

vars == <<conn, net, string_received, to_send, faults, old_syns>>

Init ==
  /\ conn = [e \in End |-> NewTCPConnection(Config)]
  /\ net = [e \in End |-> <<>>]
  /\ string_received = [e \in End |-> <<>>]
  /\ to_send \in Workloads
  /\ faults = 0 /\ old_syns = 0

\* The connection of e is now c; what c has to send goes to the other end, and
\* left is what is still under way to e.
Move(e, c, left) ==
  /\ conn' = [conn EXCEPT ![e] = [c EXCEPT !.segments_out = <<>>]]
  /\ net' = [net EXCEPT ![peer(e)] = @ \o c.segments_out, ![e] = left]
  /\ UNCHANGED <<string_received, to_send>>

Call(e, c) == Move(e, c, net[e]) /\ UNCHANGED <<faults, old_syns>>

Connect(e) ==
  /\ e = "x" /\ conn[e].sender.next_seqno = 0
  /\ Call(e, connect(conn[e]))

\* As much as there is room for of what is left.
Write(e) ==
  LET c == conn[e]
      done == outbound_stream(c).bytes_written
      left == [k \in 1..(to_send[e] - done) |-> done + k]
  IN  /\ c.sender.next_seqno > 0 /\ left # <<>> /\ remaining_outbound_capacity(c) > 0
      /\ Call(e, write(c, SubSeq(left, 1, Stream!accepted(outbound_stream(c), left))))

\* The end that listens may do so before it is connected.
EndInput(e) ==
  LET c == conn[e]
  IN  /\ e = "x" => c.sender.next_seqno > 0
      /\ outbound_stream(c).bytes_written = to_send[e]
      /\ ~Stream!input_ended(outbound_stream(c))
      /\ Call(e, end_input_stream(c))

Receive(e) ==
  /\ net[e] # <<>>
  /\ Move(e, segment_received(conn[e], Head(net[e])), Tail(net[e]))
  /\ UNCHANGED <<faults, old_syns>>

Read(e) ==
  LET s == inbound_stream(conn[e])
      n == Stream!buffer_size(s)
  IN  /\ n > 0
      /\ string_received' = [string_received EXCEPT ![e] = @ \o Stream!peek_output(s, n)]
      /\ conn' = [conn EXCEPT ![e].receiver.reassembler.output = Stream!read(@, n)]
      /\ UNCHANGED <<net, to_send, faults, old_syns>>

\* The time is not counted further than the connection compares it with.
capped(c) ==
  [c EXCEPT !.time_since_last_segment_received =
     IF @ > 10 * c.rt_timeout THEN 10 * c.rt_timeout ELSE @]

\* Nothing is under way: the network is faster than the timers.
Idle == \A e \in End : net[e] = <<>>

\* Time passes for both ends.  A connection that is over gets no ticks, as in
\* TCPSpongeSocket::_tcp_loop.
TimePasses ==
  LET ticked(e) == IF active(conn[e]) THEN capped(tick(conn[e], TickMs)) ELSE conn[e]
  IN  /\ conn' = [e \in End |-> [ticked(e) EXCEPT !.segments_out = <<>>]]
      /\ net' = [e \in End |-> net[e] \o ticked(peer(e)).segments_out]
      /\ UNCHANGED <<string_received, to_send>>

Tick == Idle /\ TimePasses /\ UNCHANGED <<faults, old_syns>>

Fault == faults < MaxFaults /\ faults' = faults + 1 /\ UNCHANGED old_syns

Lose(e) ==
  /\ Fault /\ net[e] # <<>>
  /\ net' = [net EXCEPT ![e] = Tail(@)]
  /\ UNCHANGED <<conn, string_received, to_send>>

Duplicate(e) ==
  /\ Fault /\ net[e] # <<>>
  /\ net' = [net EXCEPT ![e] = Append(@, Head(@))]
  /\ UNCHANGED <<conn, string_received, to_send>>

Reorder(e) ==
  /\ Fault /\ Len(net[e]) > 1
  /\ net' = [net EXCEPT ![e] = Append(Tail(@), Head(@))]
  /\ UNCHANGED <<conn, string_received, to_send>>

\* Timers may expire although an answer is under way.
Late == Fault /\ ~Idle /\ TimePasses

\* A copy of the SYN with which x connected reaches y when the connection of y
\* is over, closed or reset.  (Before that, it is one of the duplicates above.)
OldSyn ==
  /\ old_syns < MaxOldSyns /\ ~active(conn["y"])
  /\ old_syns' = old_syns + 1
  /\ net' = [net EXCEPT !["y"] = @ \o connect(NewTCPConnection(Config)).segments_out]
  /\ UNCHANGED <<conn, string_received, to_send, faults>>

Application(e) == Connect(e) \/ Write(e) \/ EndInput(e) \/ Read(e)

Next ==
  \/ \E e \in End : \/ Application(e) \/ Receive(e)
                 \/ Lose(e) \/ Duplicate(e) \/ Reorder(e)
  \/ Tick \/ Late \/ OldSyn

(***************************************************************************)
(* Weak fairness, written out with the states in which the action can      *)
(* change something: the applications keep looping, the network keeps      *)
(* delivering, and time keeps passing.                                     *)
(***************************************************************************)
CanApply(e) ==
  LET c == conn[e]
      out == outbound_stream(c)
  IN  \/ e = "x" /\ c.sender.next_seqno = 0
      \/ /\ c.sender.next_seqno > 0 /\ out.bytes_written < to_send[e]
         /\ remaining_outbound_capacity(c) > 0
      \/ /\ e = "x" => c.sender.next_seqno > 0
         /\ out.bytes_written = to_send[e] /\ ~Stream!input_ended(out)
      \/ ~Stream!buffer_empty(inbound_stream(c))

CanTick ==
  /\ Idle
  /\ \E e \in End :
       LET c == conn[e]
       IN  /\ active(c)
           /\ \/ c.time_since_last_segment_received < 10 * c.rt_timeout
              \/ c.sender.retransmission_timer_on
              \/ c.sender.consecutive_retransmissions > MAX_RETX_ATTEMPTS

Spec ==
  /\ Init /\ [][Next]_vars
  /\ \A e \in End : /\ []<>~CanApply(e) \/ []<><<Application(e)>>_vars
                    /\ []<>(net[e] = <<>>) \/ []<><<Receive(e)>>_vars
  /\ []<>~CanTick \/ []<><<Tick>>_vars
-----------------------------------------------------------------------------
\* Whatever the network loses, repeats, reorders or delays, what an application
\* reads is the beginning of what the other one wrote, byte by byte.
ReadIsPrefix ==
  \A e \in End : string_received[e] = [k \in 1..Len(string_received[e]) |-> k]

\* Of two ends that are still active and were not reset, at most one believes
\* that it need not linger (update_connection_status): otherwise nobody would
\* be left to answer a retransmitted FIN.
NotBothPassive ==
  ~\A e \in End : /\ conn[e].active /\ ~conn[e].linger_after_streams_finish
                  /\ ~outbound_stream(conn[e]).error

\* The receiver has ended its stream although a byte is missing (set_eof()).
EndedEarly(e) ==
  LET r == conn[e].receiver.reassembler
  IN  Stream!input_ended(r.output) /\ r.index < r.eof

\* The sender has not sent its FIN, has nothing in flight and no window: only a
\* wider window can wake it (an outdated acknowledgment shrank its window).
Stalled(e) ==
  LET s == conn[e].sender
  IN  s.window_size = 0 /\ s.outstanding_segments = <<>> /\ ~s.fin_sent

\* The sender repeats a segment into a window it takes to be empty, which it
\* does without counting the attempts.
Probing(e) == conn[e].sender.window_empty /\ bytes_in_flight(conn[e]) > 0

\* A connection that is over and was not reset has got all of its bytes across
\* (update_connection_status, and the end of lingering in tick), unless the
\* other end stopped early or this end stalled.
ClosedMeansDelivered ==
  \A e \in End :
    ~active(conn[e]) /\ ~outbound_stream(conn[e]).error =>
      \/ inbound_stream(conn[peer(e)]).bytes_written = to_send[e]
      \/ EndedEarly(peer(e)) \/ Stalled(e)

\* In the end each application has read all that the other one wrote, if the
\* network fails no more often than FaultsAssumption says: a lost segment is
\* retransmitted and a closed window reopens.  The only ways to fail are an end
\* of the stream that comes early and a stalled sender.
AllDelivered ==
  <>[](\/ \A e \in End : Len(string_received[e]) = to_send[peer(e)]
       \/ \E e \in End : EndedEarly(e) \/ Stalled(e))

\* In the end both connections are over, under the same assumption: the FINs are
\* acknowledged and the lingering ends, or the retransmissions are used up.  The
\* only ways to stay active are to probe an empty window for ever and to wait for
\* a stalled peer.
BothClose ==
  <>[](\/ \A e \in End : ~active(conn[e])
       \/ \E e \in End : Probing(e) \/ Stalled(e))

\* What each half of a connection may do in one step: the sender sends its SYN,
\* has it acknowledged, sends its FIN (an acknowledgment of the SYN may set it
\* free) and has that acknowledged; the receiver takes the SYN, then the FIN.
SenderArrows ==
  {<<"closed", "syn_sent">>, <<"syn_sent", "syn_acked">>, <<"syn_sent", "fin_sent">>,
   <<"syn_acked", "fin_sent">>, <<"fin_sent", "fin_acked">>}

ReceiverArrows == {<<"listen", "syn_recv">>, <<"syn_recv", "fin_recv">>}

\* A step of a connection that stays active.  It ceases to linger only if the
\* FIN of the peer comes before its own stream has ended.
Proceeds(before, after) ==
  /\ before.sender = after.sender \/ <<before.sender, after.sender>> \in SenderArrows
  /\ before.receiver = after.receiver \/ <<before.receiver, after.receiver>> \in ReceiverArrows
  /\ before.active /\ after.active
  /\ before.linger # after.linger =>
       before.linger /\ after.receiver = "fin_recv" /\ after.sender \in {"syn_sent", "syn_acked"}

\* A connection ends once its FIN is acknowledged and the FIN of the peer is in,
\* and if it was the first to end its stream, after the linger time.
Ends(before, after, lingered) ==
  after = CLOSED /\ (before = LAST_ACK \/ (before = TIME_WAIT /\ lingered))

\* A connection that was reset and is active again: any SYN activates it, and
\* the streams keep their error.
Revived == Named("error", "error", TRUE, FALSE)

\* Whatever the network loses, repeats, reorders or delays, TCPState::state()
\* moves along the diagram of TCP, which is the product of the lives of the two
\* halves: no connection goes back or skips a state in which it must still
\* linger or wait for its FIN to be acknowledged, and a closed one stays closed,
\* whatever arrives.  There are two exceptions.  A stalled connection has nothing
\* in flight and so takes itself for finished, without having sent its FIN.  And
\* a reset one is not safe from a late SYN: segment_received() activates it
\* again, and then it can only be reset once more.
FollowsDiagram ==
  [][\A e \in End :
       LET before == state(conn[e])
           after == state(conn'[e])
           lingered == conn'[e].time_since_last_segment_received >= 10 * Config.rt_timeout
       IN  conn'[e] # conn[e] /\ before # after =>
             \/ Proceeds(before, after)
             \/ Ends(before, after, lingered)
             \/ before.active /\ ~after.active /\ Stalled(e)'
             \/ before.active /\ after = RESET
             \/ before = RESET /\ after = Revived /\ Head(net[e]).syn]_vars
=============================================================================
