---------------------------- MODULE TCPSenderSpec ----------------------------
(***************************************************************************)
(* A TCPSender driven by an application, a clock and the acknowledgments   *)
(* of a peer.  The queue segments_out is emptied by the connection after   *)
(* every call, so it holds the segments of the last step only.             *)
(*                                                                         *)
(* The peer acknowledges what it was sent, up to any sequence number, and  *)
(* never takes back what it advertised: acked is its ackno and edge the    *)
(* right edge of its window, both absolute.  An older acknowledgment may   *)
(* arrive late or again (acks is all that were sent); reordered says that  *)
(* this has happened.                                                      *)
(***************************************************************************)
EXTENDS TCPSender

CONSTANTS SendCapacity, StreamLen, MaxWindow, RetxTimeout, Isn,
          MaxMs             \* the longest time between two ticks

ASSUME TCPSenderAssumption ==
  /\ {SendCapacity, StreamLen, MaxWindow, RetxTimeout, MaxMs} \subseteq Nat \ {0}
  /\ Isn \in WrappingInt32

VARIABLES sender, acked, edge, acks, reordered

vars == <<sender, acked, edge, acks, reordered>>
peer == <<acked, edge, acks, reordered>>

Init ==
  /\ sender = NewTCPSender(SendCapacity, RetxTimeout, Isn)
  /\ acked = 0 /\ edge = 1 /\ acks = {} /\ reordered = FALSE

\* The sender after the connection has taken the segments of the last step.
drained == [sender EXCEPT !.segments_out = <<>>]

\* TCPConnection::connect().
Connect ==
  /\ sender.next_seqno = 0
  /\ sender' = fill_window(drained)
  /\ UNCHANGED peer

\* TCPConnection::write() of the next n bytes, of which some may be refused.
Write(n) ==
  LET from == sender.stream.bytes_written
  IN  /\ ~input_ended(sender.stream) /\ from + n <= StreamLen
      /\ sender' = fill_window([drained EXCEPT !.stream =
                                  write(@, [k \in 1..n |-> from + k - 1])])
      /\ UNCHANGED peer

\* TCPConnection::end_input_stream().
EndInput ==
  /\ ~input_ended(sender.stream)
  /\ sender' = fill_window([drained EXCEPT !.stream = end_input(@)])
  /\ UNCHANGED peer

AckReceived(a, w) == sender' = ack_received(drained, wrap(a, Isn), w)

\* The peer's current acknowledgment arrives.
Ack(a, w) ==
  /\ acked <= a /\ 1 <= a /\ a <= sender.next_seqno /\ edge <= a + w
  /\ AckReceived(a, w)
  /\ acked' = a /\ edge' = a + w /\ acks' = acks \cup {<<a, w>>}
  /\ UNCHANGED reordered

\* An acknowledgment the peer sent before arrives, late or repeated.
StaleAck ==
  \E ack \in acks \ {<<acked, edge - acked>>} :
    /\ AckReceived(ack[1], ack[2])
    /\ reordered' = TRUE /\ UNCHANGED <<acked, edge, acks>>

Tick(ms) == sender' = tick(drained, ms) /\ UNCHANGED peer

Next ==
  \/ Connect
  \/ \E n \in 1..StreamLen : Write(n)
  \/ EndInput
  \/ \E a \in 1..(StreamLen + 2), w \in 0..MaxWindow : Ack(a, w)
  \/ StaleAck
  \/ \E ms \in 1..MaxMs : Tick(ms)

Spec == Init /\ [][Next]_vars

\* No sequence number of the stream and no right edge of a window reaches the
\* boundary.  (Acknowledgments and segments are compared by their raw numbers.)
NoWrap == Isn + StreamLen + 2 + MaxWindow < WrappingBoundary
-----------------------------------------------------------------------------
outstanding == sender.outstanding_segments

\* The absolute sequence number of the first byte of outstanding segment k.
Start(k) ==
  sender.next_seqno - Iterate(add_length, 0, SubSeq(outstanding, k, Len(outstanding)))

(***************************************************************************)
(* Every sequence number that was sent and is not acknowledged can be      *)
(* retransmitted: the outstanding segments are exactly the ones that reach *)
(* beyond the ackno, in order and without a gap up to next_seqno, each     *)
(* with its own bytes of the stream, the SYN first and the FIN last.  SYN, *)
(* every byte taken from the stream and FIN count one each, and nothing    *)
(* follows FIN.                                                            *)
(***************************************************************************)
OutstandingIsUnacknowledged ==
  /\ sender.next_seqno > 0 =>
       sender.next_seqno = 1 + sender.stream.bytes_read + (IF sender.fin_sent THEN 1 ELSE 0)
  /\ sender.fin_sent => eof(sender.stream)
  /\ outstanding = <<>> <=> acked = sender.next_seqno
  /\ outstanding # <<>> => Start(1) <= acked
       /\ acked < Start(1) + length_in_sequence_space(outstanding[1])
  /\ \A k \in DOMAIN outstanding :
       LET seg == outstanding[k]
       IN  /\ seg.seqno = wrap(Start(k), Isn)
           /\ seg.syn <=> Start(k) = 0
           /\ seg.fin <=> k = Len(outstanding) /\ sender.fin_sent
           /\ \A j \in DOMAIN seg.payload : seg.payload[j] = Start(k) + j - 2

\* The initial timeout, doubled n times.
Doubled[n \in 0..(MAX_RETX_ATTEMPTS + 1)] ==
  IF n = 0 THEN RetxTimeout ELSE 2 * Doubled[n - 1]

(***************************************************************************)
(* The timer runs exactly while something is outstanding: otherwise a lost *)
(* segment would never be retransmitted, or tick() would count without one.*)
(* The timeout has doubled once for each consecutive retransmission, and   *)
(* there are at most MAX_RETX_ATTEMPTS + 1 of them, so it cannot overflow. *)
(***************************************************************************)
RetransmissionTimer ==
  /\ sender.retransmission_timer_on <=> outstanding # <<>>
  /\ sender.consecutive_retransmissions <= MAX_RETX_ATTEMPTS + 1
  /\ sender.retransmission_timeout = Doubled[sender.consecutive_retransmissions]

(***************************************************************************)
(* The sender never falls silent with work left: when all it sent is       *)
(* acknowledged (so that no timer runs) the stream is drained, and FIN has *)
(* been sent if the input has ended.  Acknowledgments in order only.       *)
(***************************************************************************)
NoSilentStall ==
  (~reordered /\ sender.next_seqno > 0 /\ outstanding = <<>>) =>
    buffer_empty(sender.stream) /\ (input_ended(sender.stream) => sender.fin_sent)

(***************************************************************************)
(* fill_window() will "create and send segments to fill as much of the     *)
(* window as possible" (tcp_sender.hh:85): with bytes to send the window   *)
(* the peer advertised last is used up, as long as acknowledgments arrive  *)
(* in order.                                                               *)
(***************************************************************************)
WindowFilledInOrder ==
  (~reordered /\ acked > 0 /\ ~buffer_empty(sender.stream)) => sender.next_seqno >= edge

(***************************************************************************)
(* bytes_in_flight() is "how many sequence numbers are occupied by         *)
(* segments sent but not yet acknowledged" (tcp_sender.hh:95): none once   *)
(* everything is acknowledged.                                             *)
(***************************************************************************)
NothingInFlightOnceAcked ==
  acked = sender.next_seqno => bytes_in_flight(sender) = 0
=============================================================================
