----------------------------- MODULE TCPReceiver -----------------------------
(***************************************************************************)
(* The TCPReceiver class (libsponge/tcp_receiver.hh, .cc): a reassembler,  *)
(* the ISN of the peer, and what is advertised back.  A segment is a       *)
(* record with (at least) the fields seqno, syn, fin and payload.          *)
(***************************************************************************)
EXTENDS StreamReassembler, WrappingIntegers

NewTCPReceiver(capacity) ==
  [reassembler |-> NewStreamReassembler(capacity), capacity |-> capacity,
   syn_recv |-> FALSE, isn |-> 0]

stream_out(r) == r.reassembler.output

\* Mutant: the checkpoint is the number of bytes read, not of those written.
stream_index_old_checkpoint(r, seg) ==
  LET isn == IF r.syn_recv THEN r.isn ELSE seg.seqno
      seqno == IF r.syn_recv THEN seg.seqno ELSE (seg.seqno + 1) % WrappingBoundary
  IN  unwrap(seqno, (isn + 1) % WrappingBoundary, stream_out(r).bytes_read)

\* The index in the stream of the first byte of seg.  Only for the SYN that
\* opens the connection is the sequence number moved past the SYN.
stream_index(r, seg) ==
  LET isn == IF r.syn_recv THEN r.isn ELSE seg.seqno
      seqno == IF r.syn_recv THEN seg.seqno ELSE (seg.seqno + 1) % WrappingBoundary
  IN  unwrap(seqno, (isn + 1) % WrappingBoundary, stream_out(r).bytes_written)

\* The receiver after segment_received(seg).
segment_received(r, seg) ==
  IF ~r.syn_recv /\ ~seg.syn THEN r
  ELSE [r EXCEPT !.syn_recv = TRUE,
                 !.isn = IF r.syn_recv THEN @ ELSE seg.seqno,
                 !.reassembler =
                    push_substring(@, seg.payload, stream_index(r, seg), seg.fin)]

\* ackno(), when there is one (syn_recv).
ackno(r) ==
  (r.isn + stream_out(r).bytes_written + 1
     + (IF input_ended(stream_out(r)) THEN 1 ELSE 0)) % WrappingBoundary

\* Mutant: what is stored and not yet in order is taken off the window as well.
window_size_less_stored(r) ==
  LET w == r.capacity - buffer_size(stream_out(r))
  IN  IF r.reassembler.unassembled_bytes = {} THEN w ELSE w - 1

window_size(r) == r.capacity - buffer_size(stream_out(r))
=============================================================================
