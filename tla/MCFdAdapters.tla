---------------------------- MODULE MCFdAdapters ----------------------------
(* FdAdaptersSpec for TLC: a server, its client and another client.  The   *)
(* segments have the extreme values of their fields; their payloads have   *)
(* even and odd lengths.                                                   *)
EXTENDS FdAdaptersSpec

MCIp == [h \in Hosts |-> CASE h = "s" -> <<2560, 1>> [] h = "c" -> <<2560, 255>>
                           [] OTHER -> <<65535, 2>>]
MCPort == [h \in Hosts |-> IF h = "s" THEN 80 ELSE 65534]
MCMac == [h \in Hosts |-> CASE h = "s" -> <<2, 0, 0, 0, 0, 1>>
                            [] h = "c" -> <<2, 0, 0, 0, 0, 255>>
                            [] OTHER -> <<2, 255, 0, 0, 0, 1>>]

MCBroadcast == <<255, 255, 255, 255, 255, 255>>
MCNoAddress == <<0, 0, 0, 0, 0, 0>>

Flags == [urg |-> FALSE, ack |-> FALSE, psh |-> FALSE, rst |-> FALSE, syn |-> FALSE, fin |-> FALSE]
Segment(flags, seqno, ackno, win, payload) ==
  [header |-> flags @@ [sport |-> 0, dport |-> 0, seqno |-> seqno, ackno |-> ackno,
                        doff |-> 5, win |-> win, cksum |-> 0, uptr |-> 0],
   payload |-> payload]

Syn == Segment([Flags EXCEPT !.syn = TRUE], <<65535, 65535>>, <<0, 0>>, 0, <<>>)
SynRst == Segment([Flags EXCEPT !.syn = TRUE, !.rst = TRUE], <<0, 0>>, <<0, 0>>, 0, <<>>)
Answer == Segment([Flags EXCEPT !.syn = TRUE, !.ack = TRUE], <<1, 0>>, <<0, 0>>, 65535, <<255, 0>>)
Data == Segment([Flags EXCEPT !.ack = TRUE, !.psh = TRUE], <<0, 0>>, <<1, 1>>, 65535, <<0>>)
Fin == Segment([Flags EXCEPT !.ack = TRUE, !.fin = TRUE], <<0, 0>>, <<1, 1>>, 1, <<255, 1, 0>>)

MCScript ==
  [h \in Hosts |-> CASE h = "c" -> <<{Syn}, {Data, Fin}>>
                     [] h = "s" -> <<{Answer}>>
                     [] OTHER -> <<{Syn, SynRst}>>]
=============================================================================
