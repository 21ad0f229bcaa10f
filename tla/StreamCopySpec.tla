--------------------------- MODULE StreamCopySpec ---------------------------
(***************************************************************************)
(* bidirectional_stream_copy() between a user, who types and may stop, a   *)
(* reader of its output, and the other side of the socket, which sends,    *)
(* receives, may end its stream and may reset the connection.  The k-th    *)
(* byte of either source is the number k.                                  *)
(*                                                                         *)
(* A source is what was offered and taken of it; a sink is what was        *)
(* written to it, and how much of that the reader has drained.             *)
(***************************************************************************)
EXTENDS StreamCopy

CONSTANTS BufferSize,      \* buffer_size of the two streams
          KernelBuffer,    \* what a pipe or a socket holds
          MaxTyped,        \* bounds on the bytes of stdin and of the socket
          MaxSent

ASSUME StreamCopyAssumption ==
  /\ BufferSize \in Nat \ {0} /\ KernelBuffer \in Nat \ {0}
  /\ MaxTyped \in Nat /\ MaxSent \in Nat

VARIABLES w,               \* the function's local state
          rules, pollfds,  \* of the event loop: rules left, pollfds to handle
          pc,              \* "wait", "results", "return" or "throw"
          source,          \* "stdin" and "from_socket"
          sink,            \* "to_socket" and "stdout"
          reset,           \* the connection was reset
          pipe             \* stdin is a pipe: its end is a hangup

env == <<source, sink, reset, pipe>>
vars == <<w, rules, pollfds, pc, source, sink, reset, pipe>>

Source == {"stdin", "from_socket"}
Sink == {"to_socket", "stdout"}

Init ==
  /\ w = NewStreamCopy(BufferSize) /\ rules = Rules /\ pollfds = <<>> /\ pc = "wait"
  /\ source = [r \in Source |-> [offered |-> 0, taken |-> 0, ended |-> FALSE]]
  /\ sink = [r \in Sink |-> [written |-> <<>>, drained |-> 0]]
  /\ reset = FALSE /\ pipe \in BOOLEAN

available(r) == source[r].offered - source[r].taken
room(r) == KernelBuffer - (Len(sink[r].written) - sink[r].drained)

broken(r) == reset /\ r \in {"to_socket", "from_socket"}

\* What poll() reports for a rule's fd; a hangup is the end of a pipe, or a
\* socket whose two directions are shut down.
revents(r) ==
  [ready |-> IF r \in Sink THEN room(r) > 0
             ELSE available(r) > 0 \/ (source[r].ended /\ ~(r = "stdin" /\ pipe)),
   hup |-> IF r = "stdin" THEN pipe /\ source[r].ended
           ELSE /\ r # "stdout"
                /\ w.outbound_shutdown /\ source["from_socket"].ended,
   err |-> broken(r)]

\* The pollfds when poll() looks at them.
polled(start) ==
  [k \in DOMAIN start.pollfds |->
     [rule |-> start.pollfds[k].rule, events |-> start.pollfds[k].events,
      revents |-> revents(start.pollfds[k].rule)]]

\* wait_next_event(-1): poll() blocks until it has something to report.
poll_returns(start) ==
  Loop!something_to_poll(start.pollfds) =>
    \E k \in DOMAIN start.pollfds : Loop!reported(polled(start)[k])

WaitNextEvent ==
  LET start == Loop!setup(rules, w)
  IN  /\ pc = "wait" /\ poll_returns(start)
      /\ w' = start.w
      /\ rules' = [k \in DOMAIN start.pollfds |-> start.pollfds[k].rule]
      /\ IF Loop!something_to_poll(start.pollfds)
         THEN pc' = "results" /\ pollfds' = polled(start)
         ELSE pc' = "return" /\ pollfds' = <<>>
      /\ UNCHANGED env

\* The end of the handling of one rule.
Handled ==
  /\ pollfds' = Tail(pollfds)
  /\ pc' = IF Len(pollfds) = 1 THEN "wait" ELSE "results"

Results(verdict) ==
  /\ pc = "results"
  /\ Loop!verdict(Head(pollfds)) = verdict

\* read() returns at least one byte if there is one; an end is an empty read.
ReadCallback ==
  LET r == Head(pollfds).rule
  IN  /\ Results("callback") /\ r \in Source /\ ~broken(r)
      /\ \E n \in (IF available(r) = 0 THEN {0} ELSE 1..available(r)) :
           /\ n <= limit_of(r, w)
           /\ source' = [source EXCEPT ![r].taken = @ + n]
           /\ w' = read_callback(r, w, [k \in 1..n |-> source[r].taken + k])
      /\ Handled /\ UNCHANGED <<rules, sink, reset, pipe>>

\* writev() takes at least one byte if it is given one.
WriteCallback ==
  LET r == Head(pollfds).rule
      stream == IF r = "to_socket" THEN w.outbound ELSE w.inbound
  IN  /\ Results("callback") /\ r \in Sink /\ ~broken(r)
      /\ \E n \in (IF limit_of(r, w) = 0 THEN {0} ELSE 1..limit_of(r, w)) :
           /\ n <= room(r)
           /\ sink' = [sink EXCEPT ![r].written = @ \o peek_output(stream, n)]
           /\ w' = write_callback(r, w, n)
      /\ Handled /\ UNCHANGED <<rules, source, reset, pipe>>

\* Where the iterator over the rules is: the pollfds left are of the rules from
\* there on.
iterator == Len(rules) - Len(pollfds) + 1

\* list::erase(): s without the element at position i.
erase(s, i) == SubSeq(s, 1, i - 1) \o SubSeq(s, i + 1, Len(s))

CancelRule ==
  /\ Results("cancel")
  /\ w' = cancel(Head(pollfds).rule, w)
  /\ rules' = erase(rules, iterator)
  /\ Handled /\ UNCHANGED env

SkipRule == Results("skip") /\ Handled /\ UNCHANGED <<w, rules, env>>

\* POLLERR, or a call that fails because the reset came after poll().
Throw ==
  /\ Results("throw") \/ (Results("callback") /\ broken(Head(pollfds).rule))
  /\ pc' = "throw" /\ UNCHANGED <<w, rules, pollfds, env>>

Offer(r) ==
  /\ source[r].offered < (IF r = "stdin" THEN MaxTyped ELSE MaxSent) /\ ~source[r].ended
  /\ source' = [source EXCEPT ![r].offered = @ + 1]
  /\ UNCHANGED <<w, rules, pollfds, pc, sink, reset, pipe>>

End(r) ==
  /\ ~source[r].ended /\ source' = [source EXCEPT ![r].ended = TRUE]
  /\ UNCHANGED <<w, rules, pollfds, pc, sink, reset, pipe>>

Drain(r) ==
  /\ Len(sink[r].written) > sink[r].drained
  /\ sink' = [sink EXCEPT ![r].drained = @ + 1]
  /\ UNCHANGED <<w, rules, pollfds, pc, source, reset, pipe>>

ResetConnection ==
  /\ ~reset /\ reset' = TRUE
  /\ UNCHANGED <<w, rules, pollfds, pc, source, sink, pipe>>

Function ==
  WaitNextEvent \/ ReadCallback \/ WriteCallback \/ CancelRule \/ SkipRule \/ Throw

Next ==
  \/ Function
  \/ \E r \in Source : Offer(r) \/ End(r)
  \/ \E r \in Sink : Drain(r)
  \/ ResetConnection

\* When a step of the function can be taken.
CanRun == pc = "results" \/ (pc = "wait" /\ poll_returns(Loop!setup(rules, w)))

\* The program runs (weak fairness of Function, written out), and what it
\* writes is read by someone.
Spec ==
  /\ Init /\ [][Next]_vars
  /\ []<>~CanRun \/ []<><<Function>>_vars
  /\ \A r \in Sink : WF_vars(Drain(r))
-----------------------------------------------------------------------------
streams == {<<"stdin", w.outbound, "to_socket">>, <<"from_socket", w.inbound, "stdout">>}

\* Both ways, what was written followed by what the ByteStream holds is exactly
\* what was read, in order: no callback loses, repeats or reorders a byte,
\* however short the kernel's reads and writes are.
Fifo ==
  \A s \in streams :
    sink[s[3]].written \o s[2].buffer = [k \in 1..source[s[1]].taken |-> k]

\* The sending side of the socket is shut down, and stdout closed, only when
\* the source has ended and all of it has been written; and the function
\* returns with nothing left in its buffers, what it took from one side it has
\* given to the other.
ShutdownAfterAll ==
  /\ w.outbound_shutdown => /\ source["stdin"].ended
                            /\ Len(sink["to_socket"].written) = source["stdin"].offered
  /\ w.inbound_shutdown => /\ source["from_socket"].ended
                           /\ Len(sink["stdout"].written) = source["from_socket"].offered
  /\ pc = "return" => buffer_empty(w.outbound) /\ buffer_empty(w.inbound)

\* Once both sources have ended the function finishes, although it waits
\* without a timeout.
Finishes == (\A r \in Source : source[r].ended) ~> pc \in {"return", "throw"}
=============================================================================
