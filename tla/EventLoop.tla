------------------------------ MODULE EventLoop ------------------------------
(***************************************************************************)
(* The EventLoop class (libsponge/util/eventloop.hh, .cc) over the state w *)
(* of the program that uses it.  A rule is a name; what is registered for  *)
(* it are the constants.  wait_next_event() is cut where other processes   *)
(* can be seen: setup() runs up to poll(), then the rules are handled one  *)
(* by one with the revents of that poll().                                 *)
(***************************************************************************)
EXTENDS Loops

CONSTANTS Direction(_),        \* "In" or "Out"
          Eof(_, _), Closed(_, _),   \* of the rule's fd
          Interest(_, _), Cancel(_, _)

\* A rule is cancelled or gets its pollfd; interest is asked rule by rule, so
\* before the rules that follow are cancelled.
setup_rule(acc, rule) ==
  IF (Direction(rule) = "In" /\ Eof(rule, acc.w)) \/ Closed(rule, acc.w)
  THEN [acc EXCEPT !.w = Cancel(rule, @)]
  ELSE [acc EXCEPT !.pollfds = Append(@, [rule |-> rule, events |-> Interest(rule, acc.w)])]

\* The program's state and the pollfds before poll().
setup(rules, w) == Iterate(setup_rule, [w |-> w, pollfds |-> <<>>], rules)

something_to_poll(pollfds) == \E k \in DOMAIN pollfds : pollfds[k].events

\* poll() counts a pollfd if it is ready as asked, or has a hangup or an error,
\* which are reported whether asked for or not.
reported(p) == p.revents.hup \/ p.revents.err \/ (p.events /\ p.revents.ready)

\* Mutant: a hangup ends the rule although there is something to read.
verdict_hangup(p) ==
  IF p.revents.err THEN "throw"
  ELSE IF p.events /\ p.revents.hup THEN "cancel"
  ELSE IF p.events /\ p.revents.ready THEN "callback" ELSE "skip"

\* What is done with a rule after poll().
verdict(p) ==
  IF p.revents.err THEN "throw"
  ELSE IF p.events /\ p.revents.ready THEN "callback"
  ELSE IF p.events /\ p.revents.hup THEN "cancel" ELSE "skip"

\* A callback that neither used its fd nor lost interest.
busy_wait(p, serviced, w) == ~serviced /\ Interest(p.rule, w)
=============================================================================
