# A TLA+ model of Sponge

Sponge (`src/`) is a user-space TCP implementation: the Stanford CS144 labs,
solved. This directory models its parts in TLA+, checks them with TLC on small
instances and proves the central facts with TLAPS for every size.

## The system

| part | code (under `src/`) | what it keeps and does |
|---|---|---|
| `ByteStream` | `libsponge/byte_stream.*` | bounded FIFO of bytes, end-of-input flag, two counters |
| `StreamReassembler` | `libsponge/stream_reassembler.*` | puts excerpts of a stream in order into a `ByteStream` |
| `WrappingInt32`, `wrap`, `unwrap` | `libsponge/wrapping_integers.*` | 32-bit sequence numbers to and from 64-bit indices |
| `TCPReceiver` | `libsponge/tcp_receiver.*` | reassembler plus ISN: ackno and window |
| `TCPSender` | `libsponge/tcp_sender.*` | cuts the stream into segments, window, retransmission timer |
| `TCPConnection`, `TCPState` | `libsponge/tcp_connection.*`, `tcp_helpers/tcp_state.*` | sender and receiver, RST, lingering, the names of the states |
| `NetworkInterface` | `libsponge/network_interface.*` | ARP cache, queue of datagrams waiting for a reply |
| `Router` | `libsponge/router.*` | longest-prefix match, TTL |
| `TCPSpongeSocket` | `libsponge/tcp_helpers/tcp_sponge_socket.*` | the thread that runs a `TCPConnection` in an event loop, and its owner's calls |
| adapters | `tcp_helpers/fd_adapter.*`, `lossy_fd_adapter.hh`, `tuntap_adapter.*`, `tcp_over_ip.*` | carry segments in UDP, IP or Ethernet; drop some at random |
| `EventLoop` | `util/eventloop.*` | `poll()` over rules with interest and cancel callbacks |
| headers, parser, checksum | `tcp_helpers/*_header.*`, `*_segment.*`, `*_datagram.*`, `*_frame.*`, `arp_message.*`, `util/parser.*`, `util/util.*` | bytes to fields and back |
| buffers, descriptors, sockets, addresses | `util/*` | wrappers of system calls, reference-counted strings |
| applications | `apps/*` | command-line programs, a bidirectional copy loop |

A byte goes through them in this order: application -> socket pair ->
`TCPConnection::write` -> the sender's `ByteStream` -> `TCPSender` segments ->
adapter -> network -> adapter -> `TCPConnection::segment_received` ->
`TCPReceiver` -> `StreamReassembler` -> its `ByteStream` -> socket pair ->
application. Acknowledgments and windows go back the same way.

## Conventions

* A class is a module of operators on records (`ByteStream`, `TCPConnection`,
  ...): a method that changes the object is an operator that returns the new
  record. A module `...Spec` has the variables, the actions, the specification and
  the properties; `MC...` gives the constants that a `.cfg` cannot; a module
  `...Proofs` or `...Theorems` has the theorems. Operators keep the names of the
  methods; fields keep the names of the members without the `_`.
* A byte of a stream is represented by its position in it, so that a lost,
  repeated or misplaced byte is visible. Only `Packets` and `FdAdapters`, where the
  conversion itself is in question, have real bytes (0..255).
* An operator introduced by `Mutant:` is a deliberately wrong version of the one
  that follows it. It is used to see that a property can fail; `PROJECT.json` lists
  which.

## Modules

| module | models | run |
|---|---|---|
| `StreamReassembler`, `StreamReassemblerSpec` | the class, the list of stored excerpts as a set; arbitrary excerpts, a reader | `reassembler` |
| `ReassemblerList` | the list, its scan and the pairwise `coalesce()`, in lock step with `StreamReassemblerSpec` | `reassembler` |
| `WrappingIntegers`, `WrappingIntegersSpec` | `wrap`, `unwrap`, for any two widths | `receiver` |
| `TCPReceiver`, `TCPReceiverSpec` | the class; segments lost, repeated, reordered; refines `StreamReassemblerSpec` | `receiver`, `receiver_ackno` |
| `TCPSender`, `TCPSenderSpec` | the class; application, clock, peer with late acknowledgments | `sender`, `sender_wrap` |
| `TCPConnection`, `TCPConnectionSpec`, `MCTCPConnection` | the class over `TCPSender` and `TCPReceiver`, `TCPState`; two ends, two applications, a network with faults, time | `connection` |
| `ByteStream` | the class; part of all of the above and of the next | `stream_copy` and others |
| `EventLoop` | `wait_next_event()`, cut in two at `poll()`; the rules are a parameter | `stream_copy`, `sponge_socket` |
| `StreamCopy`, `StreamCopySpec` | `bidirectional_stream_copy()` and the descriptors it uses; a user, a reader, the other side of the socket | `stream_copy` |
| `TCPSpongeSocket`, `TCPSpongeSocketSpec`, `MCTCPSpongeSocket` | the four rules and the loop over `EventLoop` and `TCPConnection`; the owner's thread, the socket pair, a peer that may die | `sponge_socket`, `sponge_partial_write` |
| `NetworkInterface`, `NetworkInterfaceSpec`, `MCNetworkInterface` | the class; hosts that announce and change their addresses, ticks | `network_interface` |
| `Router`, `RouterSpec`, `MCRouter` | the class with its interfaces; arrivals, ARP replies, `route()` | `router` |
| `Packets` | `parse()` and `serialize()` of TCP, IPv4, Ethernet and ARP on bytes, the parser's error state, the checksum | `adapters` |
| `FdAdapters`, `FdAdaptersSpec`, `MCFdAdapters` | `read()`, `write()` and `tick()` of the UDP, TUN, Ethernet and lossy adapters over `Packets` and `NetworkInterface`; a server and two clients, packets damaged, reordered, dropped | `adapters` |
| `Loops` | `Iterate`, a `for` loop over a sequence as a fold | all that loop |
| `StreamReassemblerProofs`, `WrappingIntegersProofs`, `TCPReceiverProofs`, `TCPSenderProofs`, `NetworkInterfaceProofs`, `RouterProofs`, `StreamCopyProofs` | theorems | |
| `LoopProofs` | what `Iterate` computes, for the proofs about loops | |

Every operation of a class that changes state is an action, whole: `PushSubstring`
is all of `push_substring()` (cut, merge, flush, end of input), `Ack` all of
`ack_received()` including the final `fill_window()`, `Receive` of the connection all
of `segment_received()` including the answer and the decision to shut down, `Route`
all of `route()` including what the interfaces do with the datagrams. Loops are given
in closed form where that is the same (`fill_window()` as a division of the readable
bytes into segments; the set in `StreamReassembler`), or as folds. The event loop
is cut where the code gives up control: between `poll()` and each callback other
threads, the kernel and the peer take steps, so a callback runs on what `poll()` saw
earlier.

### Where the model abstracts

* `StreamReassembler` keeps the stored excerpts as a set and merges a new one with
  all it touches in one step. `ReassemblerList` has the list and the loops;
  `ListSpec` takes each step of both, and `ListImplementsSet` says that they agree.
* In `ack_received()` the header of the segment at `end()` is copied when the list
  is empty (tcp_sender.cc:125, 129). The copy is never used, so the model leaves it
  out.
* A shift by the full width in `add_route()` is undefined: `ShiftRight` allows both
  results a processor gives.
* In `NetworkInterface` and `Router` ARP messages and datagrams are records, and a
  payload that does not parse is the value `Malformed`; their bytes are in `Packets`.
* `poll()` and `writev()` are as POSIX has them: partial reads and writes of any
  length from 1, a hangup together with readable data. `EINTR` is left out. A hangup
  that no rule asked for makes the loop spin; only that time passes is kept of it.
* The datagrams between a `TCPSpongeSocket` and its peer are neither lost nor late
  (the run `connection` is about that); the peer may die with or without a RST.
* `to_string()`, `summary()` and the debugging output are left out, and the dummy
  frame that the Ethernet adapter writes first, which the TAP device ignores.

## What the runs show

* **reassembler** - whatever excerpts arrive in whatever order, the output is the
  stream in order; a byte that arrived inside the window is never lost and never
  waits once it is next; the end is signalled; the list of the code stays sorted and
  equal to the set of the specification.
* **receiver** - `unwrap()` gives, in range, the position closest to the bytes written,
  for any sequence number the next segment may carry. Whatever arrives, with sequence
  numbers that wrap, the reassembler is handed true excerpts of the stream (the receiver refines
  `StreamReassemblerSpec`); neither the ackno nor the right edge that is
  advertised moves back.
* **receiver_ackno** (violation) - when FIN arrives by itself while exactly the last
  byte is missing, `set_eof()` ends the output and `ackno()` covers the missing byte.
* **sender** - the outstanding segments are exactly what is unacknowledged, in order
  and without a gap, and the sequence space is accounted for; the timer runs exactly
  while there are some, and the timeout is the initial one doubled once per
  retransmission. With acknowledgments in order the window is used up and the
  sender is never silent with data left.
* **sender_wrap** (violation) - raw 32-bit comparisons: with an ISN close to 2^32
  acknowledgments past the wrap are ignored, and the sender counts bytes as in flight
  that were acknowledged.
* **connection** - with a segment lost, repeated, reordered or late at any point, and a
  copy of the first SYN that arrives when the connection is over: applications read
  prefixes of what was written; the two ends never both believe that they need not
  linger; a connection that ends without a reset has delivered;
  states follow the diagram of TCP, sender and receiver each along its own arrows
  (`FollowsDiagram`). In the end everything is delivered (`AllDelivered`) and both ends
  close (`BothClose`), all with the exceptions below.
* **stream_copy** - `bidirectional_stream_copy()` loses, repeats and reorders nothing,
  however short the reads and writes; each direction is shut down only after all of
  it; the function returns once both sources have ended, although it waits without a
  timeout.
* **sponge_socket** - data reaches both applications in order; no callback throws and
  no write fails short of a reset; the end of the stream comes after all of it; a
  thread that ends has delivered; `connect()` returns, whatever the peer does; the
  destructor returns, and so does `wait_until_closed()` unless the thread probes the
  window of a dead peer (`Joins`).
* **sponge_partial_write** (violation) - after a reset rule 3 may write a part of the
  inbound stream, shut the socket down and then write the rest, which fails.
* **network_interface** - an accepted datagram is sent once, in order, or still
  held; nothing waits for a known address; a stale address is used for at most the
  lifetime of the cache; requests for one host are spaced.
* **router** - datagrams go where a declarative longest-prefix match says, with a
  smaller ttl, once and in order, and disappear only for a reason.
* **adapters** - over UDP, TUN and Ethernet, with packets dropped, reordered, and
  damaged in any byte or cut anywhere: what is handed up was written by the one peer;
  what is intact is understood; every packet written is right by the definition of the
  Internet checksum; an adapter that has a peer keeps it.

Every property has been seen to fail on a mutated definition of the code, listed
in `PROJECT.json`.

### Exceptions that the properties name

The properties of the composed runs say what holds of the code as it is. The
exceptions are states of the code, defined next to the properties:

* `EndedEarly` - the receiver has ended its stream with a byte missing, the behaviour
  that `receiver_ackno` shows.
* `Stalled` - an acknowledgment that was overtaken has left the sender with no window,
  nothing in flight and data to send. Its peer has nothing to say, so only a new segment
  of the peer's own would wake it. With its input ended and the peer's FIN received it even
  takes itself for finished and closes, although its FIN was never sent:
  `FollowsDiagram` names that arrow.
* `Revived` - `segment_received()` activates the connection for any SYN
  (tcp_connection.cc:90), so a SYN that comes late makes a connection active again that was reset, with both
  streams still in error. `FollowsDiagram` allows it as the one way out of a reset. A
  connection that closed without a reset shuts down again in the same call.
* `Probing` - a sender that takes the window to be empty repeats its segment without
  counting the attempts, so with a dead peer it never gives up. In `connection` it is an
  exception of `BothClose`, in `sponge_socket` of `Joins`: `wait_until_closed()` may
  wait for ever even after EOF, where its note (tcp_sponge_socket.hh:63) advises the
  call. The destructor sets `_abort` and is not affected.
* `Ended` - a thread that failed after a reset, as `sponge_partial_write` shows, counts as
  ended in `Joins`. Short of a reset `NoCrash` excludes it.
* In `TCPSpongeSocketSpec` the RST that the destructor of the connection queues is
  not sent: nothing takes it from `segments_out()` any more. The peer finds out by its
  own retransmissions. The comments say otherwise: "When a connected socket is
  destructed, it will send a RST" (tcp_sponge_socket.hh:73), and "the connection is
  immediately terminated with a RST" (tcp_sponge_socket.hh:121). No property states
  that a RST arrives.
* `IPv4Datagram::parse()` ignores the error of the header: a damaged byte that no
  later check covers is accepted. `HandedUpWasSent` is about the segment inside, which
  is intact even so. A damaged header length moves the start of the segment; what is
  found there fails the checksum of TCP for the segments and ports of the run, but ports
  and numbers could be chosen for which it does not.
* `LossyFdAdapter` drops a segment after the adapter below has read it. A SYN dropped
  that way has already fixed the peer, as `PeerIsFixed` says.

## Bounds

* `reassembler`: a stream of 10 bytes, capacity 5: an excerpt lies before, across,
  inside and beyond each edge of the window, up to three are stored, the output is full.
* `receiver`: sequence numbers modulo 8, so that the stream wraps, and absolute ones
  modulo 16, so that it comes near both ends of their range; a segment is less
  than half the sequence space old (`MaxAge`) or ahead (`MaxAhead`), TCP's own
  assumption. The theorems hold for every boundary.
* `sender`: payloads of at most 2 bytes, windows of 0 to 3, one retransmission before
  giving up, ticks of 1 or 2 ms with a timeout of 2; no wrap except in `sender_wrap`.
* `connection`: 2 bytes one way and 1 the other, or 3 and none (so that a sender can
  stall before its FIN), payloads of 1, capacities of 2 (so the window closes), two
  retransmissions, one fault anywhere (`MaxFaults`), one late SYN (`MaxOldSyns`). There are
  no more faults than retransmissions (`FaultsAssumption`), or a live peer could be given
  up. The 16-bit window field is a number modulo 16, larger than every capacity. A tick is
  half the linger time and longer than a timeout. The linger time is counted up to the
  value it is compared with.
* `stream_copy`: buffers of 3 bytes, pipes of 1, 4 bytes from the user, 2 from the
  socket: streams longer than a buffer, writes shorter than a stream.
* `sponge_socket`: 1 byte from the owner, 2 from the peer in one segment, a socket pair
  that holds 1, so that rule 3 writes partially; a peer with a capacity of 1, so that the
  FIN finds its window empty; connecting and listening.
* `network_interface`: two hosts, two addresses, three datagrams; timeouts of 1 and
  2 with ticks of 1 and 2, so that each of them expires first in some behaviour. Ticks
  are assumed too short to wrap the 16-bit timers. Hosts and addresses are
  symmetric: no definition compares them but for equality.
* `router`: 2-bit addresses, up to 3 of 5 routes in any order (default, ties,
  nested), two datagrams on two interfaces.
* `adapters`: three hosts, four segments with extreme field values and payloads of 0
  to 3 bytes, one packet damaged in any one byte or cut at any length, one tick that
  makes an ARP request expire. The widths are the real ones.

## Fairness

The fairness conditions are weak fairness with the enabling condition written out, so
that TLC does not evaluate `ENABLED` of the large actions.

* `connection`: each application keeps looping, the network keeps delivering what is
  under way, time passes while nothing is under way. `tcp_benchmark.cc` and `_tcp_loop()`
  are such loops. Faults are never required, and there are at most `MaxFaults`.
* `stream_copy`: the program runs whenever `poll()` would return, and someone reads what
  it writes. The sources need never end: `Finishes` starts when both have.
* `sponge_socket`: both threads are scheduled, the peer (while alive) handles its
  datagrams and reads what it received. The owner need not do anything. `poll()` has a
  timeout of `TCP_TICK_MS`, so the thread always runs on.

The other runs check safety only, without fairness: a step that may be lost is not
taken. `CHECK_DEADLOCK FALSE` stands where the system may stop: both connections
closed, the function returned, the thread ended, the script of segments used up.

## What is proved

* `WrappingIntegersProofs`: for every two widths of which one divides the other,
  `unwrap()` is correct (`UnwrapIsClosest`, `UnwrapInverts`). The argument: the numbers
  that wrap to `n` are the center plus multiples of the boundary (`WrapsIffMultiple`), the
  center is one of the two neighbours of the checkpoint, so one of three candidates is
  closest.
* `StreamReassemblerProofs`: for every capacity and stream, the five invariants of
  the run `reassembler` that are about the set, and that the stored strings stay apart
  (`StoredApart`). The inductive invariant `IInv` is `Core` (every stored
  ByteString holds the bytes of its place and lies in the stream, no two touch,
  the output is an excerpt that ends at `_index`), `Flushed` (nothing stored starts at
  `_index`) and "what was promised is written or stored". None of them is
  inductive alone: that nothing deliverable waits needs that stored strings are apart,
  which needs that merging yields an excerpt. Between the merge and the flush `Flushed`
  fails, so each step of `push_substring()` has a lemma about `Core` of its own.
* `TCPReceiverProofs`: for every ISN, width, capacity and stream the receiver
  implements `StreamReassemblerSpec` (`ReceiverImplements`), so all the invariants above
  carry over; and it takes every sequence number for the closest position
  (`SeqnoIsClosest`). The argument is `RoundTripLemma` with the bytes written as the
  checkpoint; the segment that is older than the SYN's successor (index -1) is shown to
  be rejected by the reassembler. `RInv` adds to `IInv` that the ISN is the peer's.
* `TCPSenderProofs`: for every stream, capacity, payload size, window and timeout, all
  four invariants of the run `sender`: what is outstanding is what is unacknowledged,
  whatever acknowledgments come late (`SenderKeepsUnacknowledged`); the timer runs
  exactly then, with the timeout doubled once per retransmission
  (`TimerRunsWhileOutstanding`); while acknowledgments arrive in order the window is
  filled (`WindowIsFilled`) and the sender is never silent with something left to send
  (`SenderNeverStalls`). All four assume `NoWrap`: no sequence number of the stream
  wraps around. Without it they are false, as the run `sender_wrap` shows.
  The inductive invariant `IInv` is `Good` (the outstanding segments are a `Queue` without
  a gap from the ackno to `_next_seqno`, each with the bytes of its place; SYN, bytes
  and FIN are counted; the timer) with `Informed` (what `_highest_ackno`,
  `_highest_ackno_right` and `_window_size` say of the peer) and `Filled`. That the sender
  does not stall needs all three: the window can be 0 with nothing outstanding only if the
  edge it was computed from was beyond the peer's. Each of the loops (`fill_window()`,
  the removal of what is acknowledged, the sum in `bytes_in_flight()`) has a lemma.
* `NetworkInterfaceProofs`: for every set of hosts and addresses, any number of
  datagrams and every pair of timeouts, every datagram that was accepted has been sent
  once or is held once, and no other is (`DatagramsInCustody`), in the order of the calls
  for each next hop (`OrderKept`); none waits for a known address (`KnownNotAwaited`), a
  stale address is used for a bounded time (`AddressRecent`) and requests are spaced
  (`Spacing`). The inductive invariant `IInv` adds to them that a datagram is held back
  under its own next hop (`HeldForHop`: what an ARP message releases leaves for the
  address in that message) and that the timer of a recent request is there and shows its
  age (`TimerIsPending`: `send_datagram()` looks at the timer, `Spacing` speaks of time).
  For custody and order `LInv` adds `Ledger`: each queue is increasing, and what has been
  sent to a host comes before what is held for it. A first group of lemmas says what each operation of the class does to the fields, a
  second has one lemma per action.
* `RouterProofs`: for every table of routes, width of addresses, number of interfaces and
  of datagrams, and whenever ARP replies come, all three invariants of the run `router`:
  a datagram goes where the longest matching prefix says (`LongestPrefix`), in the order of
  arrival (`ForwardsInOrder`), and is dropped only for one of the reasons the code has
  (`DropsForAReason`). The inductive invariant `IInv` is `Routing` with nothing handled.
  `Routing(r, m, k, ...)` is the invariant of the two nested loops of `route()`, when `k`
  datagrams of interface `m` are handled: the table is what was added (`Tabled`, with
  the prefixes shifted), each interface has sent and holds only what is right and in
  order (`Sound`), what was sent on came before all that waits (`Ahead`), and what does
  not wait is accounted for. `Ahead` is the strengthening: without it the next step of the
  loop could send a datagram after one that came later, and the datagram on whose behalf
  another is dropped could be that one itself. That the scan of the table finds the best
  route is an induction of its own (`Best`, `FindRoute`): of the routes seen so far the one
  kept is the longest that matches, the last of equal ones.
* `StreamCopyProofs`: for every size of the buffers, the pipes and the streams, and
  every partial read and write, what `bidirectional_stream_copy()` has written and holds
  is what it has read, in order (`CopiesInOrder`), and a side is shut down only after all
  of it (`ShutsDownLast`). The second is about stale information: a rule acts on what
  `poll()` saw before the callbacks ahead of it ran. So `IInv` has, besides the state of the
  two directions (`Way`), that the pollfds still to be handled belong to the last rules of
  the list (`Aligned`, across the removal of a rule), that what `poll()` reported of a
  source is still true when its turn comes (`Reported`: a hangup still means that nothing
  is left to read), and that the rules which write stay in the list (`Listed`).

### Loops

A `for` loop is `Iterate(body, start, seq)`. Its meaning for sequences of any length
needs induction, with the body as a parameter. `LoopProofs` has that parameter as a
CONSTANT operator and is instantiated once per loop; its induction (`SetInduction`)
has a set in place of the predicate, and follows from the least-element principle of the library.
`FoldTrace` says that there is a sequence of accumulators, one per element, that starts
with `start` and ends with the result; `FoldInvariant` that a set which holds `start` and is
closed under the body holds the result. The modules with theorems define the few
operations on lists that they need in terms of `SubSeq` and `\o`, about which the library
has theorems.

### Assumptions, and what is only model-checked

The assumptions are the named `ASSUME`s: sizes are natural numbers, `size_t` does
not overflow for the streams considered, the age of segments is bounded, and a timeout
of the interface plus the time between two ticks fits its 16-bit timers; the arguments of
`add_route()` are in range; a payload that does not parse is none that does; for the sender
also `NoWrap`. `FaultsAssumption` concerns the liveness in the run `connection` only.

Only model-checked:

* all liveness (`AllDelivered`, `BothClose`, `Finishes`, `Joins`, `ConnectReturns`), which
  the prover does not reach;
* the invariants of the connection and of the socket: they relate two ends and what is
  under way between them, on top of everything the sender's and the receiver's invariants
  say, and the connection's sender sees acknowledgments in any order;
* the agreement of the reassembler's list with the set (`ListImplementsSet`), whose
  operators are `RECURSIVE`;
* the adapters, whose invariants rest on what parsing and serializing real bytes gives.

## Not modelled

* The command lines of `apps/*` and the test network of `apps/network_simulator.cc`:
  they set up the components that are modelled.
* `util/address.*`, `socket.*`, `tun.*`: each method wraps a system call and keeps no
  state. Of `file_descriptor.*` the end-of-file and closed flags and the partial reads
  and writes are modelled, not the reference counts; of `buffer.*` the conversions of
  `BufferList`.
* `to_string()`, `summary()`, `hexdump()` and the debugging output of the event loop
  and the socket.
* Exceptions for failed system calls other than a write to a socket that is shut down
  and a connection that is reset.
