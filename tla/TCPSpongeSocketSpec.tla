------------------------- MODULE TCPSpongeSocketSpec -------------------------
(***************************************************************************)
(* A TCPSpongeSocket between its owner and a peer.  The owner's thread and *)
(* the TCP thread share the pair of Unix-domain sockets and _abort.  The   *)
(* peer is a TCPConnection with an application of its own, which may also  *)
(* die; the datagrams between them are neither lost nor late.              *)
(*                                                                         *)
(* A direction of the socket pair is shut when its writer has shut down    *)
(* writing or its reader reading: what it holds can still be read, then    *)
(* the end of the stream, and a write fails with EPIPE.                    *)
(***************************************************************************)
EXTENDS TCPSpongeSocket

CONSTANTS Config, PeerConfig,      \* the TCPConfig of either side
          OwnerBytes, PeerBytes,   \* how much each application may write
          KernelBuffer,    \* what a direction of the socket pair holds
          TickMs           \* the time from one timeout of poll() to the next

VARIABLES w,               \* the state of the TCP thread
          mode,            \* who runs the loop: "connect", "listen", "main"
          rules, pollfds,  \* of the event loop: rules left, pollfds to handle
          pc,              \* "wait", "results", "turn", "timeout", "exit",
                           \* "done" or "crash"
          pair,            \* the directions "to_thread" and "to_owner"
          owner,           \* what the owner has written, read and called
          peer,            \* the peer's connection, what its application read
          net              \* the datagrams to the socket and to the peer

thread == <<w, mode, rules, pollfds, pc>>
vars == <<w, mode, rules, pollfds, pc, pair, owner, peer, net>>

opening(config, connects) ==
  LET c == NewTCPConnection(config)
  IN  IF connects THEN connect(c) ELSE c

Init ==
  /\ mode \in {"connect", "listen"}
  /\ w = [initialize_TCP(Config) EXCEPT !.tcp = opening(Config, mode = "connect")]
  /\ rules = Rules /\ pollfds = <<>> /\ pc = "wait"
  /\ pair = [d \in {"to_thread", "to_owner"} |-> [data |-> <<>>, shut |-> FALSE]]
  /\ owner = [written |-> 0, read |-> <<>>, eof |-> FALSE, abort |-> FALSE, waits |-> FALSE]
  /\ LET c == opening(PeerConfig, mode = "listen")
     IN  /\ peer = [tcp |-> [c EXCEPT !.segments_out = <<>>], read |-> <<>>, alive |-> TRUE]
         /\ net = [socket |-> c.segments_out, peer |-> <<>>]

room(d) == KernelBuffer - Len(pair[d].data)

\* What poll() reports for a rule's fd.
revents(rule) ==
  [ready |-> CASE rule = "datagram_in" -> net.socket # <<>>
               [] rule = "data_in" -> pair["to_thread"].data # <<>> \/ pair["to_thread"].shut
               [] rule = "data_out" -> room("to_owner") > 0
               [] rule = "datagram_out" -> TRUE,
   hup |-> /\ rule \in {"data_in", "data_out"}
           /\ pair["to_thread"].shut /\ pair["to_owner"].shut,
   err |-> FALSE]

\* The pollfds that are to be handled; the others are passed over.  A hangup
\* that nobody asked about makes poll() return too, but all that comes of it is
\* that time passes.
to_handle(start) ==
  SelectSeq([k \in DOMAIN start.pollfds |->
               [rule |-> start.pollfds[k].rule, events |-> start.pollfds[k].events,
                revents |-> revents(start.pollfds[k].rule)]],
            LAMBDA p : Loop!verdict(p) # "skip")

\* wait_next_event(TCP_TICK_MS).
WaitNextEvent ==
  LET start == Loop!setup(rules, w)
  IN  /\ pc = "wait"
      /\ w' = start.w
      /\ rules' = [k \in DOMAIN start.pollfds |-> start.pollfds[k].rule]
      /\ IF ~Loop!something_to_poll(start.pollfds) THEN pc' = "exit" /\ pollfds' = <<>>
         ELSE IF to_handle(start) # <<>> THEN pc' = "results" /\ pollfds' = to_handle(start)
         ELSE pc' = "timeout" /\ pollfds' = <<>> /\ net.peer = <<>>
      /\ UNCHANGED <<mode, pair, owner, peer, net>>

Handled ==
  /\ pollfds' = Tail(pollfds)
  /\ pc' = IF Len(pollfds) = 1 THEN "turn" ELSE "results"
  /\ UNCHANGED mode

Results(verdict) == pc = "results" /\ Loop!verdict(Head(pollfds)) = verdict
Callback(rule) == Results("callback") /\ Head(pollfds).rule = rule

\* The exception leaves the TCP thread, or the signal ends the program.
Crash == pc' = "crash" /\ UNCHANGED <<w, mode, rules, pollfds, pair, owner, peer, net>>

DatagramIn ==
  /\ Callback("datagram_in")
  /\ w' = datagram_in(w, Head(net.socket)) /\ net' = [net EXCEPT !.socket = Tail(@)]
  /\ Handled /\ UNCHANGED <<rules, pair, owner, peer>>

DataIn ==
  LET data == pair["to_thread"].data
      limit == remaining_outbound_capacity(w.tcp)
      n == IF Len(data) > limit THEN limit ELSE Len(data)
  IN  /\ Callback("data_in")
      /\ IF accepted_less(w, SubSeq(data, 1, n)) THEN Crash
         ELSE /\ w' = data_in(w, SubSeq(data, 1, n))
              /\ pair' = [pair EXCEPT !["to_thread"].data = SubSeq(@, n + 1, Len(@))]
              /\ Handled /\ UNCHANGED <<rules, owner, peer, net>>

\* writev() takes at least one byte, if it is given one and the owner has not
\* shut the socket down.
DataOut ==
  LET inbound == inbound_stream(w.tcp)
      size == Stream!buffer_size(inbound)
  IN  /\ Callback("data_out")
      /\ IF size > 0 /\ pair["to_owner"].shut THEN Crash
         ELSE \E n \in (IF size = 0 THEN {0} ELSE 1..size) :
                LET t == data_out(w, n)
                IN  /\ n <= room("to_owner")
                    /\ w' = t
                    /\ pair' = [pair EXCEPT
                         !["to_owner"].data = @ \o Stream!peek_output(inbound, n),
                         !["to_owner"].shut = @ \/ t.inbound_shutdown]
                    /\ Handled /\ UNCHANGED <<rules, owner, peer, net>>

\* The callback must not count on the adapter's use of its fd: a lossy one may
\* drop all that it is given.
DatagramOut ==
  /\ Callback("datagram_out")
  /\ IF Loop!busy_wait(Head(pollfds), FALSE, datagram_out(w)) THEN Crash
     ELSE /\ net' = [net EXCEPT !.peer = IF peer.alive THEN @ \o w.tcp.segments_out ELSE @]
          /\ w' = datagram_out(w)
          /\ Handled /\ UNCHANGED <<rules, pair, owner, peer>>

CancelRule ==
  /\ Results("cancel")
  /\ w' = cancel(Head(pollfds).rule, w)
  /\ rules' = Remove(rules, Head(pollfds).rule)
  /\ Handled /\ UNCHANGED <<pair, owner, peer, net>>

\* The time is not counted further than the connection compares it with.
ticked(c, ms) ==
  LET t == tick(c, ms)
  IN  IF ~active(c) THEN c
      ELSE [t EXCEPT !.time_since_last_segment_received =
              IF @ > 10 * c.rt_timeout THEN 10 * c.rt_timeout ELSE @]

\* Mutant: the loop does not look at the flag.
abort_unseen == FALSE

\* _abort, which the loop looks at after every wait_next_event().
abort == owner.abort

\* The rest of the body of _tcp_loop(), and its condition.  Time passes, for
\* the peer too, when poll() had nothing to do.
Turn ==
  LET t == ticked(w.tcp, IF pc = "timeout" THEN TickMs ELSE 0)
      p == ticked(peer.tcp, TickMs)
  IN  /\ pc \in {"turn", "timeout"}
      /\ IF abort THEN pc' = "exit" /\ UNCHANGED <<w, mode, peer, net>>
         ELSE /\ w' = [w EXCEPT !.tcp = t]
              /\ pc' = "wait"
              /\ mode' = IF condition(mode, w') THEN mode ELSE "main"
              /\ IF pc = "timeout" /\ peer.alive
                 THEN /\ peer' = [peer EXCEPT !.tcp = [p EXCEPT !.segments_out = <<>>]]
                      /\ net' = [net EXCEPT !.socket = @ \o p.segments_out]
                 ELSE UNCHANGED <<peer, net>>
      /\ UNCHANGED <<rules, pollfds, pair, owner>>

\* The loop is left: the thread is started, or it shuts the owner's socket down
\* and destroys the connection with all that it had to send.
Exit ==
  /\ pc = "exit" /\ mode' = "main"
  /\ IF mode = "main"
     THEN /\ pc' = "done"
          /\ pair' = [d \in DOMAIN pair |-> [pair[d] EXCEPT !.shut = TRUE]]
          /\ w' = datagram_out([w EXCEPT !.tcp = destroy(@)])
     ELSE pc' = "wait" /\ UNCHANGED <<w, pair>>
  /\ UNCHANGED <<rules, pollfds, owner, peer, net>>

TCPThread ==
  \/ WaitNextEvent \/ DatagramIn \/ DataIn \/ DataOut \/ DatagramOut
  \/ CancelRule \/ Turn \/ Exit
-----------------------------------------------------------------------------
\* The owner calls nothing more once it is in wait_until_closed() or in the
\* destructor, which join the thread.
OwnerCalls ==
  /\ mode = "main" /\ ~owner.abort /\ ~owner.waits
  /\ UNCHANGED <<w, mode, rules, pollfds, pc, peer, net>>

OwnerWrite ==
  /\ OwnerCalls /\ owner.written < OwnerBytes
  /\ ~pair["to_thread"].shut /\ room("to_thread") > 0
  /\ owner' = [owner EXCEPT !.written = @ + 1]
  /\ pair' = [pair EXCEPT !["to_thread"].data = Append(@, owner.written + 1)]

OwnerShutdown ==
  /\ OwnerCalls /\ ~pair["to_thread"].shut
  /\ pair' = [pair EXCEPT !["to_thread"].shut = TRUE] /\ UNCHANGED owner

OwnerRead ==
  /\ OwnerCalls
  /\ pair["to_owner"].data # <<>> \/ (pair["to_owner"].shut /\ ~owner.eof)
  /\ owner' = [owner EXCEPT !.read = @ \o pair["to_owner"].data,
                            !.eof = pair["to_owner"].data = <<>>]
  /\ pair' = [pair EXCEPT !["to_owner"].data = <<>>]

\* wait_until_closed(), after the end of the stream as its comment asks.
OwnerWait ==
  /\ OwnerCalls /\ owner.eof
  /\ owner' = [owner EXCEPT !.waits = TRUE]
  /\ pair' = [d \in DOMAIN pair |-> [pair[d] EXCEPT !.shut = TRUE]]

\* The destructor, without wait_until_closed().
OwnerDestroys ==
  /\ OwnerCalls /\ owner' = [owner EXCEPT !.abort = TRUE] /\ UNCHANGED pair

Owner == OwnerWrite \/ OwnerShutdown \/ OwnerRead \/ OwnerWait \/ OwnerDestroys
-----------------------------------------------------------------------------
PeerCalls(c) ==
  /\ peer.alive
  /\ peer' = [peer EXCEPT !.tcp = [c EXCEPT !.segments_out = <<>>]]
  /\ net' = [net EXCEPT !.socket = @ \o c.segments_out]
  /\ UNCHANGED <<thread, pair, owner>>

\* The application of the peer writes as much as there is room for of what it
\* has left, and then ends its stream.
PeerWrite ==
  LET c == peer.tcp
      done == outbound_stream(c).bytes_written
      left == [k \in 1..(PeerBytes - done) |-> done + k]
  IN  /\ c.sender.next_seqno > 0 /\ left # <<>> /\ remaining_outbound_capacity(c) > 0
      /\ PeerCalls(write(c, SubSeq(left, 1, Stream!accepted(outbound_stream(c), left))))

PeerEnds ==
  LET out == outbound_stream(peer.tcp)
  IN  /\ peer.tcp.sender.next_seqno > 0
      /\ out.bytes_written = PeerBytes /\ ~Stream!input_ended(out)
      /\ PeerCalls(end_input_stream(peer.tcp))

PeerReceives ==
  LET c == segment_received(peer.tcp, Head(net.peer))
  IN  /\ peer.alive /\ net.peer # <<>>
      /\ peer' = [peer EXCEPT !.tcp = [c EXCEPT !.segments_out = <<>>]]
      /\ net' = [net EXCEPT !.peer = Tail(@), !.socket = @ \o c.segments_out]
      /\ UNCHANGED <<thread, pair, owner>>

PeerReads ==
  LET s == inbound_stream(peer.tcp)
      n == Stream!buffer_size(s)
  IN  /\ peer.alive /\ n > 0
      /\ peer' = [peer EXCEPT !.read = @ \o Stream!peek_output(s, n),
                              !.tcp.receiver.reassembler.output = Stream!read(@, n)]
      /\ UNCHANGED <<thread, pair, owner, net>>

\* The peer is gone, with a RST or without.
PeerDies ==
  /\ peer.alive
  /\ peer' = [peer EXCEPT !.alive = FALSE, !.tcp = NewTCPConnection(PeerConfig)]
  /\ \E rst \in {<<>>, <<Reset>>} :
       net' = [net EXCEPT !.peer = <<>>, !.socket = @ \o rst]
  /\ UNCHANGED <<thread, pair, owner>>

\* The peer is not followed further once the TCP thread has ended.
Over == pc \in {"done", "crash"}

Next ==
  \/ TCPThread \/ Owner
  \/ ~Over /\ (PeerWrite \/ PeerEnds \/ PeerReceives \/ PeerReads \/ PeerDies)

\* The thread runs unless it has ended or waits for a datagram that the peer
\* is about to answer.
CanRun ==
  /\ ~Over
  /\ pc = "wait" => \/ net.peer = <<>>
                     \/ LET start == Loop!setup(rules, w)
                        IN  Loop!something_to_poll(start.pollfds) => to_handle(start) # <<>>

CanReceive == ~Over /\ net.peer # <<>>
CanRead == ~Over /\ peer.alive /\ ~Stream!buffer_empty(inbound_stream(peer.tcp))

\* What tells the thread's steps, and the peer's handling of a datagram, from
\* the other steps.
ThreadStep == <<pc, pollfds>>' # <<pc, pollfds>>
ReceiveStep == Len(net.peer)' < Len(net.peer)

\* Weak fairness, written out: the threads are scheduled, and the
\* peer handles its datagrams and reads.
Spec ==
  /\ Init /\ [][Next]_vars
  /\ []<>~CanRun \/ []<><<ThreadStep>>_vars
  /\ []<>~CanReceive \/ []<><<ReceiveStep>>_vars
  /\ []<>~CanRead \/ []<><<PeerReads>>_vars
-----------------------------------------------------------------------------
\* What either application reads is the beginning of what the other one wrote.
EndToEnd ==
  /\ owner.read = [k \in 1..Len(owner.read) |-> k]
  /\ peer.read = [k \in 1..Len(peer.read) |-> k]
  /\ Len(owner.read) <= PeerBytes /\ Len(peer.read) <= owner.written

\* The connection was reset, by the peer or by this end.
reset == outbound_stream(w.tcp).error

\* Rule 3 handles "the possibility of a partial write": no write to the owner
\* fails, no callback throws.
NoCrash == pc # "crash"

\* Short of a reset no exception leaves the TCP thread and no write fails: rule
\* 2 never reads more than the connection accepts, no callback is a busy wait,
\* and once rule 3 or the owner has shut the socket down after the end of the
\* stream, nothing more is written to it.
NoCrashUnlessReset == pc = "crash" => reset

\* The owner is told the end of the stream only after all of it, unless the
\* connection was reset.
EofMeansAll ==
  owner.eof /\ ~reset /\ peer.alive =>
    Len(owner.read) = outbound_stream(peer.tcp).bytes_written

\* When the thread has ended and the connection was not reset, all that the
\* owner wrote has arrived.
DoneMeansDelivered ==
  pc = "done" /\ ~reset /\ peer.alive =>
    inbound_stream(peer.tcp).bytes_written = owner.written

\* connect() returns, with a connection or without: its loop ends when the
\* connection leaves SYN_SENT, and SYNs are not sent for ever.
ConnectReturns == mode = "connect" ~> mode = "main"

\* The thread repeats a segment to a peer that is dead and whose window was
\* empty, which the sender does without counting the attempts.
Probing == ~peer.alive /\ w.tcp.sender.window_empty /\ bytes_in_flight(w.tcp) > 0

\* The thread has ended as it should, or after a reset the whole program was
\* ended by its exception, as NoCrash shows.
Ended == pc = "done" \/ (pc = "crash" /\ reset)

\* The destructor returns: poll() has a timeout, after which _abort is looked at.
\* wait_until_closed() returns too, after the end of the inbound stream: the rest
\* of the outbound stream is acknowledged or given up, and the lingering ends.
\* The one way to wait for ever is to probe the empty window of a dead peer; and
\* nobody returns if a failed write ends the program, which takes a reset.
Joins ==
  /\ owner.abort ~> Ended
  /\ owner.waits ~> [](Ended \/ Probing)
=============================================================================
