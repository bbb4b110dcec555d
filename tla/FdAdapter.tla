----------------------------- MODULE FdAdapter ------------------------------
(***************************************************************************)
(* The adapters between a TCPConnection and what carries its segments: UDP *)
(* (libsponge/tcp_helpers/fd_adapter.cc), IPv4 over a TUN device and IPv4  *)
(* over Ethernet on a TAP device (tcp_over_ip.cc, tuntap_adapter.cc), with *)
(* the adapter that loses segments on purpose (lossy_fd_adapter.hh) around *)
(* the first two.  A listener and its clients share a medium that delays,  *)
(* duplicates, reorders, loses, damages and cuts what is written to it.    *)
(***************************************************************************)
EXTENDS Formats, NetworkInterface, FiniteSets

\* A setup names what carries the segments ("udp", "tun" or "tap"), and for
\* every node its configuration, its address, and what it may send.
CONSTANTS Setups, Deltas, MaxDamage, MaxTime

VARIABLES setup,    \* the setup of this behaviour
          adapter,  \* adapter[n]: the adapter of node n
          medium,   \* everything that was written to the medium; it can arrive any time
          written,  \* the segments given to the adapters
          got,      \* got[n]: the segments that the adapter of n has returned
          damage    \* how many packets arrived changed

vars == <<setup, adapter, medium, written, got, damage>>

Nodes == DOMAIN setup.nodes
Lossy == setup.kind \in {"udp", "tun"}

-----------------------------------------------------------------------------
(* Reading: the adapter afterwards, and the segment if there is one. *)

Nothing(a) == [adapter |-> a, segments |-> << >>]
Returns(a, segment) == [adapter |-> a, segments |-> <<segment>>]

Opens(header) == syn(header) /\ ~rst(header)

\* A mutant: the adapter goes on listening.
Latch_Again(a, source, destination) == [a EXCEPT !.source = source, !.destination = destination]

Latch(a, source, destination) ==
    [a EXCEPT !.source = source, !.destination = destination, !.listening = FALSE]

\* Is the datagram between us and our peer?
Related_AnySource(a, header) == a.listening \/ header.dst = a.source.ip

Related(a, header) ==
    a.listening \/ (header.dst = a.source.ip /\ header.src = a.destination.ip)

unwrap_tcp_in_ip(a, dgram) ==
    IF ~Related(a, dgram.header) \/ dgram.header.proto # PROTO_TCP THEN Nothing(a)
    ELSE Then(TCPSegment_parse(dgram.payload, pseudo_cksum(dgram.header)), LAMBDA parsed :
        IF parsed.result # "NoError" THEN Nothing(a)
        ELSE LET header == parsed.segment.header
                 b == IF a.listening
                      THEN Latch(a, [ip |-> dgram.header.dst, port |-> a.source.port],
                                    [ip |-> dgram.header.src, port |-> header.sport])
                      ELSE a
             IN  IF header.dport # a.source.port \/ (a.listening /\ ~Opens(header)) THEN Nothing(a)
                 ELSE IF header.sport # b.destination.port THEN Nothing(b)
                 ELSE Returns(b, parsed.segment))

\* TCPOverUDPSocketAdapter::read().
ReadUDP(a, source_address, payload) ==
    IF ~a.listening /\ source_address # a.destination THEN Nothing(a)
    ELSE Then(TCPSegment_parse(payload, 0), LAMBDA parsed :
        IF parsed.result # "NoError" THEN Nothing(a)
        ELSE IF ~a.listening THEN Returns(a, parsed.segment)
        ELSE IF Opens(parsed.segment.header)
        THEN Returns(Latch(a, a.source, source_address), parsed.segment)
        ELSE Nothing(a))

\* TCPOverIPv4OverTunFdAdapter::read().
ReadTun(a, bytes) ==
    Then(IPv4Datagram_parse(bytes), LAMBDA parsed :
        IF parsed.result # "NoError" THEN Nothing(a) ELSE unwrap_tcp_in_ip(a, parsed.dgram))

\* What the interface sees of a frame.  Every type but IPv4 counts as ARP.
Arrived(frame) ==
    LET ipv4 == frame.header.type = TYPE_IPv4
        parsed == IF ipv4 THEN IPv4Datagram_parse(frame.payload) ELSE ARPMessage_parse(frame.payload)
        parses == parsed.result = "NoError"
        Payload == IF ipv4 THEN parsed.dgram
                   ELSE [parsed.message EXCEPT !.opcode =
                            IF @ = OPCODE_REQUEST THEN "REQUEST" ELSE "REPLY"]
    IN  [src |-> frame.header.src, dst |-> frame.header.dst, parses |-> parses,
         type |-> IF ipv4 THEN "IPv4" ELSE "ARP", payload |-> IF parses THEN Payload ELSE << >>]

\* TCPOverIPv4OverEthernetAdapter::read(), up to send_pending().
ReadTap(a, bytes) ==
    Then(EthernetFrame_parse(bytes), LAMBDA frame :
        IF frame.result # "NoError" THEN Nothing(a)
        ELSE Then(recv_frame(a.interface, Arrived(frame)), LAMBDA i :
            LET b == [a EXCEPT !.interface = [i EXCEPT !.datagrams_out = << >>]]
            IN  IF i.datagrams_out = << >> THEN Nothing(b)
                ELSE unwrap_tcp_in_ip(b, i.datagrams_out[1])))

read(a, packet) ==
    CASE setup.kind = "udp" -> ReadUDP(a, packet.source, packet.data)
      [] setup.kind = "tun" -> ReadTun(a, packet.data)
      [] setup.kind = "tap" -> ReadTap(a, packet.data)

-----------------------------------------------------------------------------
(* Writing *)

\* The segment with the ports of the connection.
Addressed(a, seg) == [seg EXCEPT !.header.sport = a.source.port,
                                 !.header.dport = a.destination.port]

\* The header of the datagram in which wrap_tcp_in_ip() puts a segment.
WrapHeader(a, seg) ==
    [NewIPv4Header EXCEPT !.src = a.source.ip, !.dst = a.destination.ip,
                          !.len = 20 + 4 * seg.header.doff + Len(seg.payload)]

LowerChecksum(a, seg) == IF setup.kind = "udp" THEN 0 ELSE pseudo_cksum(WrapHeader(a, seg))

wrap_tcp_in_ip(a, seg) ==
    [header |-> WrapHeader(a, seg),
     payload |-> TCPSegment_serialize(Addressed(a, seg), LowerChecksum(a, seg))]

\* An Ethernet frame of the interface as bytes.
Departs(frame) ==
    EthernetFrame_serialize(
        [src |-> frame.src, dst |-> frame.dst,
         type |-> IF frame.type = "IPv4" THEN TYPE_IPv4 ELSE TYPE_ARP],
        IF frame.type = "IPv4" THEN IPv4Datagram_serialize(frame.payload)
        ELSE ARPMessage_serialize(
                [hardware_type |-> 1, protocol_type |-> TYPE_IPv4,
                 hardware_address_size |-> 6, protocol_address_size |-> 4]
                @@ [frame.payload EXCEPT !.opcode =
                        IF @ = "REQUEST" THEN OPCODE_REQUEST ELSE OPCODE_REPLY]))

Packet(n, a, data) == [from |-> n, source |-> setup.nodes[n].address, to |-> a.destination,
                       data |-> data]

\* send_pending(): all frames that the interface has ready go out.
Pended(n, a) == {Packet(n, a, Departs(a.interface.frames_out[k])) :
                 k \in DOMAIN a.interface.frames_out}
send_pending(a) == [a EXCEPT !.interface.frames_out = << >>]

-----------------------------------------------------------------------------
(* How the programs configure the adapter of a node that listens or calls  *)
(* (listen_and_accept() or connect()).                                     *)

\* FdAdapterConfig, as far as it is the same for all of them.
FdAdapterConfig(source, destination, listening) ==
    [source |-> source, destination |-> destination, listening |-> listening]

AnyAddress(port) == [ip |-> <<0, 0>>, port |-> port]

\* apps/tcp_ipv4.cc: the listener takes what is sent to any address.
tcp_ipv4(listen, own, peer) ==
    IF listen THEN FdAdapterConfig(AnyAddress(own.port), AnyAddress(0), TRUE)
    ELSE FdAdapterConfig(own, peer, FALSE)

\* apps/tcp_udp.cc: a caller does not know its own address.
tcp_udp(listen, own, peer) ==
    IF listen THEN FdAdapterConfig(AnyAddress(own.port), AnyAddress(0), TRUE)
    ELSE FdAdapterConfig(AnyAddress(0), peer, FALSE)

\* apps/tcp_ip_ethernet.cc only calls.
tcp_ip_ethernet(own, peer) == FdAdapterConfig(own, peer, FALSE)

\* The listener on an Ethernet is lab7's, with the address of its interface.
TCPSocketLab7(own) == FdAdapterConfig(own, AnyAddress(0), TRUE)

NewAdapter(node) ==
    [source |-> node.config.source, destination |-> node.config.destination,
     listening |-> node.config.listening, next_hop |-> node.next_hop,
     interface |-> NewNetworkInterface(node.ethernet, node.config.source.ip)]

\* The adapter for a TAP device writes a frame with nothing in it when it is
\* made, lab7's adapter does not.
DummyFrame(n) ==
    [from |-> n, source |-> setup.nodes[n].address, to |-> setup.nodes[n].config.destination,
     data |-> EthernetFrame_serialize(NewEthernetHeader, << >>)]

Init == /\ setup \in Setups
        /\ adapter = [n \in Nodes |-> NewAdapter(setup.nodes[n])]
        /\ medium = {DummyFrame(n) : n \in {m \in Nodes : setup.kind = "tap"
                                                        /\ ~setup.nodes[m].config.listening}}
        /\ written = {} /\ damage = 0
        /\ got = [n \in Nodes |-> {}]

\* LossyFdAdapter::write() may drop the segment.  A listener has nothing to
\* send before it has got a segment.  Over Ethernet every segment is written
\* once (the bound on the queue of waiting datagrams).
Write(n, seg) ==
    LET a == adapter[n]
        w == [from |-> n, to |-> a.destination,
              segment |-> Checksummed(Addressed(a, seg), LowerChecksum(a, seg))]
        wrapped == wrap_tcp_in_ip(a, seg)
    IN  /\ setup.nodes[n].config.listening => got[n] # {}
        /\ setup.kind = "tap" => w \notin written
        /\ written' = written \cup {w}
        /\ \/ /\ Lossy
              /\ UNCHANGED <<adapter, medium>>
           \/ /\ setup.kind = "udp"
              /\ medium' = medium \cup {Packet(n, a, wrapped.payload)}
              /\ UNCHANGED adapter
           \/ /\ setup.kind = "tun"
              /\ medium' = medium \cup {Packet(n, a, IPv4Datagram_serialize(wrapped))}
              /\ UNCHANGED adapter
           \/ /\ setup.kind = "tap"
              /\ \E b \in {[a EXCEPT !.interface = send_datagram(@, wrapped, a.next_hop)]} :
                    /\ medium' = medium \cup Pended(n, b)
                    /\ adapter' = [adapter EXCEPT ![n] = send_pending(b)]
        /\ UNCHANGED <<setup, got, damage>>

\* UDP delivers to the address; the devices show a node all traffic of others.
Reaches(packet, n) ==
    packet.from # n /\ (setup.kind = "udp" => packet.to = setup.nodes[n].address)

\* LossyFdAdapter::read() reads first, and may then drop what was read.
Read(n, packet) ==
    /\ Reaches(packet, n)
    /\ \E r \in {read(adapter[n], packet)} :
          /\ medium' = medium \cup Pended(n, r.adapter)
          /\ adapter' = [adapter EXCEPT ![n] = send_pending(r.adapter)]
          /\ \/ got' = [got EXCEPT ![n] = @ \cup Range(r.segments)]
             \/ Lossy /\ UNCHANGED got
    /\ UNCHANGED <<setup, written>>

\* What the medium can make of some bytes: one is changed, or the end is lost.
Damaged(data) ==
    UNION {{SubSeq(data, 1, k - 1)} \cup {[data EXCEPT ![k] = (@ + d) % 256] : d \in Deltas} :
           k \in DOMAIN data}

\* TCPOverIPv4OverEthernetAdapter::tick(); the other adapters have no timer.
Tick(n) ==
    /\ setup.kind = "tap" /\ adapter[n].interface.timer < MaxTime
    /\ \E b \in {[adapter[n] EXCEPT !.interface = interface_tick(@, 1)]} :
          /\ medium' = medium \cup Pended(n, b)
          /\ adapter' = [adapter EXCEPT ![n] = send_pending(b)]
    /\ UNCHANGED <<setup, written, got, damage>>

Next == \/ \E n \in Nodes : \E seg \in setup.nodes[n].segments : Write(n, seg)
        \/ \E n \in Nodes, packet \in medium : Read(n, packet) /\ UNCHANGED damage
        \/ \E n \in Nodes, packet \in medium :
              /\ damage < MaxDamage /\ damage' = damage + 1
              /\ \E data \in Damaged(packet.data) : Read(n, [packet EXCEPT !.data = data])
        \/ \E n \in Nodes : Tick(n)

Spec == Init /\ [][Next]_vars

-----------------------------------------------------------------------------
(* Properties *)

\* Over UDP no length enters the checksum, and a zero adds nothing to it:
\* zeros that the medium cuts off the end of a payload are not missed.
LostZeros(s, w) ==
    /\ setup.kind = "udp" /\ s.header = w.header /\ IsPrefix(s.payload, w.payload)
    /\ \A k \in Len(s.payload) + 1 .. Len(w.payload) : w.payload[k] = 0

\* Whatever the medium did to the bytes, a segment that an adapter returns is
\* one that another node wrote to this node.  Over IPv4 it is exactly that one:
\* the checksum of TCP with the addresses and the length catches what the IPv4
\* header's own checksum, which IPv4Datagram::parse() does not act on, would
\* have caught.  Over UDP zeros at its end can be missing (LostZeros), unless
\* UDP itself notices.
AcceptedIsSent ==
    \A n \in Nodes : \A s \in got[n] : \E w \in written :
        /\ w.to = setup.nodes[n].address
        /\ w.segment = s \/ LostZeros(s, w.segment)

\* Two clients that call the same listener, in any order and with any loss,
\* never get into each other's connection: all segments that a node gets come
\* from one node, which is the one that its answers go to.
OnePeer ==
    \A n \in Nodes : got[n] # {} =>
        \E m \in Nodes :
            /\ adapter[n].destination = setup.nodes[m].address
            /\ \A s \in got[n] : \E w \in written :
                  w.from = m /\ (w.segment = s \/ LostZeros(s, w.segment))

\* A listener takes a peer once, the writer of a SYN without RST, answers from
\* the address that was called, and keeps both for good, although the SYN
\* itself may be dropped afterwards.
ListenerAnswersCaller ==
    [][\A n \in Nodes : LET a == adapter[n]  b == adapter'[n] IN
          <<a.source, a.destination>> # <<b.source, b.destination>> =>
              /\ a.listening /\ ~b.listening
              /\ \E w \in written : /\ Opens(w.segment.header)
                                    /\ setup.nodes[w.from].address = b.destination
                                    /\ setup.kind # "udp" => w.to = b.source]_vars

\* A packet for this node alone: the Ethernet address fits, too.
ForNode(n, packet) ==
    setup.kind = "tap" =>
        LET header == EthernetFrame_parse(packet.data).header
        IN  header.type = TYPE_IPv4 /\ header.dst = setup.nodes[n].ethernet

\* What the peer of a connection wrote and the medium left alone is accepted,
\* whatever else has arrived before: odd lengths, options, late or repeated
\* packets are no reason to refuse it.
IntactIsAccepted ==
    \A n \in Nodes : ~adapter[n].listening =>
        \A packet \in medium :
            (/\ Reaches(packet, n) /\ ForNode(n, packet)
             /\ setup.nodes[packet.from].address = adapter[n].destination
             /\ packet.to = setup.nodes[n].address)
            => read(adapter[n], packet).segments # << >>
=============================================================================
