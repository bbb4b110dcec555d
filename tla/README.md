# A verification of Sponge, a TCP/IP stack in user space

Sponge (`libsponge/`) implements TCP, ARP and IP forwarding as C++ classes that
event loops drive. This directory holds TLA+ models of its parts, the TLC
runs that check them on small instances, and TLAPS proofs about them for
every value of the constants.

## The system

| Component | State | Operations | What is hard about it |
|---|---|---|---|
| Wrapping numbers (`wrapping_integers.cc`) | none | `wrap`, `unwrap` | unsigned arithmetic around the wrap, ties |
| Byte stream (`byte_stream.cc`) | buffer, capacity, bytes written, ended, error | `write`, `peek_output`, `pop_output`, `read`, `end_input`, `set_error` | reads past the end, writes after the end |
| Reassembler (`stream_reassembler.cc`) | staging list and its byte count, start of the unassembled part, end of stream, output | `push_substring` | any order and overlap, one capacity for two buffers, end of stream known early |
| Receiver (`tcp_receiver.cc`) | SYN and FIN seen, peer's ISN, reassembler | `segment_received`, `ackno`, `window_size` | sequence numbers to stream positions, FIN out of order, promised window |
| Sender (`tcp_sender.cc`) | stream, edges of what is in flight, tracked segments, timer and backoff, windows | `fill_window`, `ack_received`, `tick`, `send_empty_segment` | stale and foreign acknowledgments, zero windows, timeouts, wraps |
| Connection (`tcp_connection.cc`) | sender, receiver, outgoing segments, active and linger flags, time since last segment | `connect`, `write`, `end_input_stream`, `segment_received`, `tick`, destructor | two peers, lost and late segments, who lingers, giving up |
| State names (`tcp_state.cc`) | none | summaries of a connection | which pairs of states can occur |
| Socket (`tcp_sponge_socket.cc`), event loop (`eventloop.cc`), descriptors (`file_descriptor.cc`) | connection, rules, abort and shutdown flags, two threads, a socket pair | four rules, `_tcp_loop`, `connect`, `wait_until_closed`, destructor | two threads, termination, readiness that is stale when used |
| Stream copy (`bidirectional_stream_copy.cc`), `webget.cc` | two byte streams, four rules | the owner's side of a socket | half-closed directions, closing too early |
| Network interface (`network_interface.cc`) | address table, waiting datagrams, frames out, clock | `send_datagram`, `recv_frame`, `tick` | lost ARP frames, expiry, requests not repeated |
| Router (`router.cc`) | interfaces, routes | `add_route`, `route_one_datagram`, `route` | longest prefix, time to live |
| Networks (`network_simulator.cc`, `lab7.cc`, `bouncer.cc`) | hosts, routers, links, relay | exchanging and carrying frames | order of frames, answers and routing |
| Wire formats (`tcp_header.cc`, `ipv4_*.cc`, `arp_message.cc`, `ethernet_*.cc`, `parser.cc`, the checksum of `util.cc`) | none | `parse`, `serialize` | refusing malformed input at the right stage |
| Adapters (`fd_adapter.cc`, `tcp_over_ip.cc`, `tuntap_adapter.cc`, `lossy_fd_adapter.hh`) | configuration, listening flag, interface | `read`, `write`, `tick` | filters, the switch from listening to connected |

The socket's thread runs one event loop. A packet becomes a segment in the
adapter and goes to the connection; the connection passes it to its receiver
(which passes the payload to the reassembler, which writes to the inbound
stream), its acknowledgment to its sender, and answers; the sender's segments
are stamped with the receiver's acknowledgment and window and queued; the loop
gives them to the adapter. A socket pair joins this thread to its owner, who
copies between it and a terminal. Over Ethernet a network interface under the
adapter resolves addresses, and routers forward between interfaces.

`PROJECT.json` lists what can go wrong where ("hazards"), and which
property would notice.

## The modules

Components are *data types*: a record per object, an operator per method,
named as in the source. A `...Spec` module, or a module of a composition, puts
such objects into an environment that calls them in every order the code
allows. Methods compose as calls do, so an action is always a whole handler.
(`Calls!Then` makes TLC evaluate the result of a call once; it has no other
meaning.)

* `WrappingIntegers`: `wrap` and `unwrap`. The ring size `TwoTo32` is a
  constant, so that TLC can go round it and the proofs hold for the real one.
* `ByteStream`: the stream. `TCPSegment`: the header fields the protocol reads, a
  payload, and the running totals of the sequence space a list of segments takes
  (`SequenceSpace`).
* `TCPSender`: the sender. `tracking` is `_tracking_segments` with the oldest
  segment first. The loop of `fill_window()` is written in closed form
  (`ReadTotal`, `Iterations`, `NthSegment`), which the proofs need;
  `MCTCPSender` also has the loop as it is coded, and the invariant
  `ClosedFormIsLoop` compares the two in every reachable state and for every
  window that may be left. `TCPSenderState` says how the fields of the record hang
  together, for whoever holds a sender. `TCPSenderSpec` calls the sender with every
  acknowledgment number and window there is.
* `StreamReassembler`: the reassembler over a function from stream positions
  to staged bytes; `StreamReassemblerSpec` pushes substrings of one stream.
  `StagingList` is the same class as coded: an ordered list of ranges, the
  insertion loop with its early exits, the hand-kept byte count. Its two loops are
  recursive functions of the number of items passed (`Walk`, `WriteItems`), which
  the prover takes. It is shown to implement `StreamReassemblerSpec`, by TLC and by
  proof. `PushedStream` holds their constants.
* `TCPReceiver`, `TCPReceiverSpec`: the receiver, fed with the segments of one
  stream in any order, repeated and overlapping, within the window it advertised.
  The stream may go round the sequence numbers; a segment is never older than
  half the ring, which is TCP's assumption on the life of segments.
* `TCPConnection`: the connection, all of `segment_received()` and `tick()`
  including the RST paths. `TCPState`: the summaries and the RFC 793 names.
* `TCPPair`: two connections and a network. The actions are the event loop's
  rules: `Deliver` (rule 1), `AppWrite` and `AppEnd` (rule 2), `AppRead` (rule 3),
  `Transmit` (rule 4) and `Tick`; and the network's `Lose` and
  `Duplicate`. `MCTCPPair` gives it its constants.
* `EventLoop`: the passes of `wait_next_event()` over rules that a program
  supplies (its constants are the rules' interest, callback and cancel functions and
  what `poll()` reports). A pass has three parts, between which other threads
  run: `SetUp` (drop finished rules, ask for interest), `Poll`, and one
  `GoThrough` per result, with the exception for a callback that leaves its
  descriptor alone although it stays interested. `FileDescriptor`: a direction of
  a socket pair with reading, writing, end of file and shutdown.
* `BidirectionalStreamCopy`: the four rules of the copy, on its instance
  `CopyLoop` of the event loop.
* `TCPSpongeSocket`: the owner's thread, the TCP thread (instance `Loop`) and a
  peer. `LoopTop`, `LoopPoll`, `LoopServe`, `LoopTimeout`, `LoopExit` are the
  stretches of `_tcp_loop()` between which the other thread can be seen; `EndConnect` and
  `EndMain` what `connect()` and `_tcp_main()` do after it. The owner runs
  `CopyWait`/`CopyServe` and `WaitUntilClosed`, or webget, or `Destruct`s the
  socket at any moment. The peer is the server of `TCPPair`, and may be reset
  (`PeerReset`). A callback is one step: it touches a shared descriptor once, or in
  a way that the other thread cannot tell from once. What follows the last
  callback up to the next `poll()` belongs to that step, since of the shared state
  it reads the abort flag only.
* `NetworkInterface`, `Router`: the classes. `asked` is a history of the ARP
  requests for the properties only.
* `Network`: hosts and routers joined by links. `Exchange` is the simulator's
  swap of all waiting frames of two or three interfaces, `Route` its call of
  `route()`; `Carry` is one of lab7's rules or the host's adapter, which
  take frames one by one and route at once; `Announce` and `Carry` teach the
  bouncer where its two ends are. `Damage` spoils a frame on the Internet.
* `NetParser`, `Formats`: parsing and serializing of TCP, IPv4, Ethernet and ARP,
  byte by byte, with the error of every stage and what callers make of it, and
  the Internet checksum.
* `FdAdapter`: a listener and callers, each with an adapter over UDP, a TUN
  device or a TAP device, on a medium that keeps every packet for ever (so that it
  may arrive late, often, or never) and may change a byte or cut the end off.
  `tcp_ipv4`, `tcp_udp`, `tcp_ip_ethernet` and `TCPSocketLab7` are the configurations that
  those programs make.

In the protocol modules bytes are represented by their position in the stream,
so a byte at the wrong place is visible; in the wire modules a byte is a
number, and 32-bit and 48-bit fields are tuples of 16-bit words, because TLC's
integers have 32 bits. Operators whose comment begins with "A mutant" are
deliberately wrong variants of the definition that follows them; they are used
to make sure that each property can fail.

## What the runs check

| Run | Shows | Bounds, and why they are enough |
|---|---|---|
| `sender` | ten properties of the sender, below | ring of 12 with the ISN 3 before the wrap, windows 0 to 3, segments of up to 2 bytes, 4 bytes written: several segments in flight, zero windows, probes, an expiry and the wrap all occur |
| `sender_fin` | finding 1 | the smallest instance |
| `staging_list` | the list is in order and counted right, output is the stream, within the capacity, ended exactly when complete; and the list walk implements the reassembler over positions | capacity 5, stream of 8: overlaps on both sides, several gaps, substrings past the capacity |
| `receiver` | order, acknowledgment, end, advertised edges, unwrapping | ring of 14, capacity 5, stream of 18: the numbers wrap twice; a SYN with a payload |
| `receiver_fin` | finding 2 | smaller, with a FIN that may overtake |
| `pair_lossy` | the states of the two ends fit, a clean end is complete, both ends finish, with one segment lost anywhere | 2 bytes one way and 1 the other, receive capacity 1 (zero windows), three retransmissions before giving up |
| `pair_unreliable` | safety with a loss, a duplicate and any reordering | 2 bytes, receive capacity 2, so that bytes are staged out of order; two segments under way each way (`MaxQueue`), the fewest that can overtake |
| `network` | one copy, right destination, ARP discipline, all arrive | four topologies, below; addresses of 4 bits, three prefix lengths, 2 or 3 datagrams |
| `network_host_bits` | finding 4 | one route like the simulator's |
| `socket` | joins return, copies finish, the thread leaves no segments behind and throws in two cases only, end of file means all | five scenarios, below; streams and payloads of 2, a request of up to 3 bytes through a pipe of 3 (more than the outbound stream takes), an answer of up to 2 through a pipe of 1 (partial writes) |
| `socket_rst` | finding 3 | the scenario that quits |
| `adapter` | only what was sent to this node comes in (over UDP up to zeros at the end), from one peer, and all that is intact does | real header sizes, 2 clients, a payload that ends in a zero, one damaged packet: every byte of it by 1 or by 128, or cut anywhere |

*Sender*: its record is typed and its windows stay 16-bit (`TypeOK`);
tracked segments tile the range in flight (`InFlightTiled`), which is less
than half the ring (`InFlightBounded`), and carry the right bytes
(`TrackedContent`); the numbers handed out are SYN, the bytes read and one
FIN (`SentIsRead`); the timer runs only in flight (`TimerDiscipline`);
the edges never move back (`EdgesAdvance`); a timeout resends the oldest segment
(`RetransmitsOldest`); data stays within the window (`DataWithinWindow`).

*Pair*: what is received is a prefix of what was sent
(`ReceivedIsPrefixOfSent`); what a sender forgets has been received
(`AckedWasReceived`); a clean end is complete (`CleanCloseIsComplete`); a side
whose FIN counts as acknowledged faces one that has it, and one that leaves without
lingering leaves nobody behind who still repeats a FIN (`StatesAgree`); both ends
finish (`BothFinish`).

*Network* (`MCNetwork`): `Simulator` is `network_simulator.cc` with one stub
network per kind (a default route, a direct one, a three-interface Ethernet, a
longer prefix behind a host); `Lab7` is `lab7.cc` with both programs, the bouncer
and one damaged frame; `Loop` has two routers that are each other's default
route; `Slow` is one link on which frames get lost while time passes, so that
requests and mappings age (the code's 5 s and 30 s are 1 and 2 ticks).
`DeliveredIsRouted` compares every delivery, with its remaining TTL, with the
journey that longest-prefix match gives hop by hop; `AllArrive` says that the network
comes to rest, with no frame to carry and no datagram to route, that what has a
journey has then arrived if no frame was lost, and that each lost frame (damaged, or
dropped by the relay) costs at most the datagram in it: everything else that is
missing still waits for an ARP answer, where the code leaves it. `Damage` makes the
receiver drop the frame: lab7's frames travel in UDP datagrams, whose
checksum the kernel verifies (`ipv4_datagram.cc:13` by itself would let a damaged IPv4
header pass; the `adapter` run has that case);
`OneCopy` that a datagram never multiplies; `RequestDiscipline` that requests are
not repeated early and that nothing starts to wait without a recent request.

*Socket* (`MCTCPSpongeSocket`): a copy that runs to its end; a copy with a peer that
never answers, so that the connection gives up; webget with a request that does not
fit into the outbound stream at once; webget with a peer that resets the
connection at any moment, also while it has bytes under way; and an owner that
destructs the socket at any moment. `OwnerReturns` says that `join()` returns
wherever the TCP thread is, and that an undisturbed copy comes to its end with
everything copied both ways; `EofMeansWhole` that what the owner reads is in order,
and all of it if the end of file comes without an error; `NothingLeftUnsent` that
a thread which ends by itself has sent what it queued. `ThreadDoesNotThrow` names the
two cases in which the TCP thread takes the process down, and shows that there
are no others:

* webget closes the descriptor before `wait_until_closed()`; that call then throws,
  the destructor runs, and the `shutdown()` at the end of `_tcp_main()` throws in the
  TCP thread. The class promises nothing for a closed descriptor.
* A reset arrives while the inbound stream holds more than the pipe to the owner
  takes. Rule 3 writes a part, shuts the pipe down because the stream has an error
  (`tcp_sponge_socket.cc:136-138`), stays interested because the stream still has
  bytes (`:148`), and writes the rest into the shut pipe, which raises SIGPIPE. The
  comment at `:128-130` speaks of "handling the possibility of a partial write".

*Adapter* (`MCFdAdapter`): `Tun` and `Udp` have a listener and two callers (over UDP both on
one host), `Tap` a listener and a caller on an Ethernet. `AcceptedIsSent`,
`OnePeer` and `ListenerAnswersCaller` are about what comes in, `IntactIsAccepted`
about what must. Over IPv4 a segment that comes in is exactly one that was written.
Over UDP the adapter computes the checksum without a length (`fd_adapter.cc:31`),
so that zeros cut off the end of a payload are not missed by it; `LostZeros` is this
case, and the run reaches it. It takes a medium that shortens datagrams, which UDP's own
length and checksum rule out where the kernel verifies them. Over TAP each segment is written once (the bound on waiting
datagrams), and the clock makes one step.

Bounds are named in the modules: `MaxBytes`, `MaxTimeouts`, `MaxQueue`,
`MaxLosses`, `MaxDuplicates`, `MaxDamage`, `MaxTime`, and `maxSends`, `maxTime`,
`maxDamage` of a topology. `MaxQueue` bounds the segments under way: the event loop
sends all that is queued at once, and does so when the way is empty or when it all
fits. The pair,
network and socket runs set `CHECK_DEADLOCK FALSE`, because two finished
connections, a network at rest and a joined socket do stop.

### Fairness

* `TCPPair!Fairness`: weak fairness of what each side's event loop, application and
  network do, and of the clock. The loop polls all rules and ticks after every
  pass, so a rule that stays ready is served; a segment that the network does not
  lose is delivered. Losing and duplicating are never required. Liveness is
  checked with `Prompt`: a tick (one retransmission timeout) passes only when
  segments under way have arrived and the application has read, that is, round
  trips and the application are fast compared with the timeout. Without it the
  connection may give up in the middle of a healthy exchange, as the code does. Both
  connections tick together: clocks that drift arbitrarily would let one peer
  linger and leave while the other has not had one timeout. The connection
  gives up after 3 retransmissions and lingers for 4 timeouts (8 and 10 in the
  code): one loss can cost more than one attempt, because `segment_received()`
  makes no fresh acknowledgment while older segments wait (`tcp_connection.cc:48`).
* `Network!Fairness`: routing, exchanging, announcing and carrying go on: the simulator
  repeats them 256 times per datagram, lab7's event loops for ever. The clock is
  never required to move, and frames are never required to be spoiled.
* `TCPSpongeSocket!SocketFairness`: weak fairness of the machines (TCP thread, time,
  peer's loop) and of the users (owner's thread, typing, peer's application). The
  operating system schedules both threads, and a `poll()` with a limit returns. It is
  only assumed of the scenarios that `OwnerReturns` is about (`Joins`).

## Findings

1. `fill_window()` sends a FIN past the window (`tcp_sender.cc:66`): it
   compares the whole window with the size of the segment, not what is left of
   it. With something in flight the FIN can be one number too far. The
   name of the test in `tests/send_extra.cc:236` says that it must not; the
   test only tries it with nothing in flight.
2. The receiver ends the stream early (`tcp_receiver.cc:43`): a FIN that
   overtakes the data before it, at a moment when nothing is staged, ends the
   output, and `ackno()` acknowledges numbers that have not arrived, against
   `tcp_receiver.hh:40-41`. In a pair with a receive capacity of 2 and one loss
   this loses data: the sender forgets a segment nobody received. The
   receiver and the faulty pair runs therefore exclude an overtaking FIN:
   `receiver` by `FinOvertakes = FALSE`, `pair_lossy` by a receive capacity of 1,
   under which at most one sequence number is in flight, `pair_unreliable` by
   `EndsWhenAcked`, applications that close once their bytes are acknowledged.
3. A socket that is destructed while connected does not send a RST
   (`tcp_sponge_socket.cc:266`): `_tcp.reset()` runs `~TCPConnection()`, which queues one
   in a queue that dies with it. `tcp_sponge_socket.hh:75` says that it is sent.
4. A route with bits set beyond its prefix length is never found
   (`router.cc:54`), although only the high-order bits need to match
   (`router.cc:22`); `network_simulator.cc:232` adds one. `RouterProofs` shows
   that this is the only way in which the lookup differs from longest-prefix match.

Smaller ones that no run is about: the write into a shut pipe after a reset
(above, under *Socket*); the comment at `router.hh:28` says that an ARP
reply teaches a mapping from its "target" fields, against `network_interface.hh:70` and the code,
which take the "sender" fields (taking the others is the mutant `Learn_FromTarget`, under
which `AllArrive` fails); the comment at `fd_adapter.cc:12-19` speaks of
checking TCP ports and of `connect()`, the code compares only the UDP source
address; and the errors that `serialize()` throws cannot happen for segments the
stack makes itself.

## What is proved

All proofs are checked by TLAPS; they assume only the named `ASSUME`s on
constants: the ring is even and more than twice the largest window
(`TwoTo32Assumption`, `SenderAssumption`), sizes are positive, the sets of
ISNs and tick sizes are what their names say, powers of two are positive
(`RouterAssumption`: the provers do not know), and, for the pair, no stream is as
long as half the ring (`ShortStreamsAssumption`, see below). TLC evaluates all
of them in the runs.

* `TCPSenderLemmas`: `UnwrapClosest` (a preimage, and no other is
  closer) and `RoundTrip` (unwrapping undoes wrapping within half a ring of the
  checkpoint); then how running totals behave when segments are appended to
  or dropped from a list, where induction over the list is replaced by
  the least counterexample (`LeastNat`, `RangeInduction`); then that every method of
  the sender preserves its invariant `Good`, and what each queues.
* `TCPSenderProofs`: from `Good` follow all of `TypeOK`, `InFlightTiled`, `InFlightBounded`,
  `TrackedContent`, `SentIsRead`, `TimerDiscipline`, `EdgesAdvance`,
  `RetransmitsOldest` and `DataWithinWindow`.
* `StreamReassemblerProofs`: `push_substring()` keeps a reassembler `Sound` and
  makes it hold exactly what it held and the bytes of the substring that fit.
* `StagingListProofs`: what the two loops of `push_substring()` compute, for every
  list in order. `StagingListRefinement`: from this, that the list algorithm
  implements the reassembler over positions (`ImplementsReassembler`), that its list
  stays in order and counted (`ListInOrder`), and about the class as coded
  `OutputIsStream`, `AssembledIsWritten`, `CapacityIsRespected` and `EndsAtEof`,
  the last in both directions (`EndsExactlyAtEof`).
* `TCPReceiverProofs`: `DeliveredInOrder`, `AckIsFirstMissing`, `EofIsComplete`,
  `UnwrapIsClosest`, `AdvertisedEdgesAdvance`, for every ring, window, ISN and
  stream length, under `FinOvertakes = FALSE` (finding 2 is what happens without it).
* `TCPPairProofs`: `ReceivedIsPrefixOfSent` for two connections over a network that
  loses, repeats and reorders as it likes (`AlwaysPrefixOfSent`), also when a FIN
  overtakes; by way of `PairInv` (`PairIsSound`).
* `RouterProofs`: `LongestPrefixMatch` for every table and address size, among
  prefixes without stray bits; `HostBitsNeverLookedUp` for the others.

**The sender.** `Good` is the conjunction of the six state invariants. None is
inductive alone. That an acknowledgment matches the *right* tracked segment
needs the tiling (the headers hold the wrapped ends of consecutive ranges) and the
bound (all of them lie within half the ring, so equal wrapped numbers are
equal); the bound needs the tiling and the window's type; that
`_current_state()` never falls back to `Closed` needs the accounting, which
needs that a FIN is only ever sent once, which needs the contents; the timer
needs `bytes_in_flight()` to be zero exactly when nothing is tracked, which is
the tiling again. There is a lemma per method (`SendSynGood`, `SendDataGood`,
`AckReceivedGood`, `TickGood`, ...), and `NextGood` combines them.

**The reassembler.** `Placed` says that every staged byte is the right one for its
position, at or past the write position and within the capacity; it holds also in
the middle of `push_substring()`. `Sound` adds what holds between calls: the
next missing byte is not staged, and an ended output is complete. `FirstGapIs`
finds where assembling stops by a least counterexample.

**The list algorithm.** `WalkInv` says what holds after the insertion loop has passed
k items: the new list is in order, ends before the next item, and covers
exactly what the k items cover and the part of the new data that lies before the
next item (or all of it, once `left` says that nothing remains); `size` counts
it. `WalkStep` follows one turn through its early exits, `PlaceLastIs` the code after
the loop, and `PlaceIs` concludes what the new list covers. `WriteInv` says that
after k items the first j have been written without a gap and the others are back
on the list, since the next one does not continue the output. That the
recursive functions are what their definitions say (`WalkExists`, `WriteExists`)
is shown by building the function one argument at a time.
`ListInv`, the inductive invariant, says that the list is in order and that the
function from positions to bytes it stands for (`AbsOf`) is a `Sound` reassembler;
the order alone is not inductive, since where the loop cuts depends on
the items lying past the write position and within the capacity. `PushAbs` and
`ReadAbs` are the step simulation: `AbsOf` of the state after a call is the abstract
call of `AbsOf` of the state before. That the output ends as soon as it is complete,
and not only then, needs one more invariant, `Ends`: the flags and the
write position fit together after every call, whichever call brought the last byte.

**The receiver.** `ReceiverInv` ties `arrived`, the sequence numbers that have
reached the receiver, to what the reassembler holds: SYN, the held positions
shifted by one, and the FIN once seen. The properties speak of the acknowledgment
only; without the staged bytes in between they would not survive the step that
closes a gap. That a segment lands at its own position is `UnwrapClosest` with
the bound on its age.

**The pair.** `PairInv` says of every segment that is queued, tracked or under way that it
is `Genuine`: its SYN has the ISN, its payload is what its sender's stream has at the
position its number stands for, all of that was taken off the stream, and a FIN
comes after the last byte. The sender's `Good` makes new and repeated segments
genuine (so `Carries` also says that a tracked byte is no longer in the
stream), and what the stamp writes does not matter. A receiver that holds only what
was sent, at its own place (`Placed`), stays so for any genuine segment, whenever
it comes: since the stream is shorter than half the ring, its number is unwrapped to
the position its sender meant. TCP gets this from the lifetime of segments; in the model
the network may keep one for ever, hence the assumption. There is a lemma per
method of the connection (`MoveOK`, `TakeSegmentOK`, `AnswerOK`, `AfterTickOK`, ...), and
`ServeKeeps`, `MisbehaveKeeps` and `TickKeeps` combine them.

Only model-checked:

* the closed form of the sender's loop against the loop (`ClosedFormIsLoop`) and the journeys
  of datagrams (`DeliveredIsRouted`): recursive operators, which the prover does not take;
* what the two ends of a connection know of each other's state (`AckedWasReceived`,
  `CleanCloseIsComplete`, `StatesAgree`);
* the network, the socket and the adapters: their steps are folds over frames, rules and
  bytes, and what a fold computes needs induction over data;
* everything about liveness, which is out of the prover's reach.

## Not modelled

* Buffers (`buffer.cc`): reference-counted strings; the model has what they stand for.
* `address.cc`, `tun.cc` and the options of kernel sockets: calls of the operating
  system without state of the program. Errors of `poll()`, signals, and a
  descriptor that reports an error are left out of the event loop.
* Printing: `to_string()`, `summary()`, `hexdump()`, the packet printers, usage
  texts and the parsing of command lines.
* The limits of 64-bit counters (absolute sequence numbers, bytes written) and clocks.
* An application that reads nothing for many timeouts: zero-window probes count
  as retransmissions, and the peer resets the connection (`tcp_connection.cc:88`).
  Both runs of two connections read promptly, which keeps time bounded.
* Segments of an earlier connection between the same two ends.
* The data races on the plain members of `FDWrapper` shared by the two threads: each
  descriptor is used by one thread, until the last `shutdown()`.
* The clock of the Ethernet adapter below a socket: `FdAdapter` ticks it,
  `TCPSpongeSocket` has an abstract adapter.
* The byte stream under random calls: it is exercised by the five modules that use it.
