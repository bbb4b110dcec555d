---------------------------- MODULE MCFdAdapter -----------------------------
(***************************************************************************)
(* A listener and two clients over UDP and over TUN devices, and a         *)
(* listener and one client on an Ethernet.                                 *)
(***************************************************************************)
EXTENDS FdAdapter

BroadcastAddress == <<65535, 65535, 65535>>
NoAddress == <<0, 0, 0>>

Header(flags, seqno, doff) ==
    [sport |-> 0, dport |-> 0, seqno |-> <<40000, seqno>>, ackno |-> <<0, 7>>, doff |-> doff,
     flags |-> flags, win |-> 64000, cksum |-> 0, uptr |-> 0]
Segment(flags, seqno, doff, payload) == [header |-> Header(flags, seqno, doff), payload |-> payload]

SYN == 2
ACK == 16
At(host, port) == [ip |-> <<2560, host>>, port |-> port]
Station(host) == <<512, 0, host>>

\* A node that owns address own; hosts on the medium have numbers.
Node(config, own, host, hop, segments) ==
    [config |-> config, address |-> own, ethernet |-> Station(host), next_hop |-> At(hop, 0).ip,
     segments |-> segments]

ServerSegments == {Segment(SYN + ACK, 300, 5, <<>>), Segment(ACK, 301, 5, <<200, 1, 9>>)}
ClientASegments == {Segment(SYN, 100, 5, <<>>), Segment(ACK, 101, 5, <<7, 0>>)}
ClientBSegments == {Segment(SYN, 500, 6, <<>>)}

S == At(1, 1080)
A == At(2, 5000)
B == At(3, 5000)
C == At(2, 6000)   \* a second client on the host of A

Tun == [kind |-> "tun",
        nodes |-> [s |-> Node(tcp_ipv4(TRUE, S, S), S, 1, 2, ServerSegments),
                   a |-> Node(tcp_ipv4(FALSE, A, S), A, 2, 1, ClientASegments),
                   b |-> Node(tcp_ipv4(FALSE, B, S), B, 3, 1, ClientBSegments)]]

Udp == [kind |-> "udp",
        nodes |-> [s |-> Node(tcp_udp(TRUE, S, S), S, 1, 2, ServerSegments),
                   a |-> Node(tcp_udp(FALSE, A, S), A, 2, 1, ClientASegments),
                   b |-> Node(tcp_udp(FALSE, C, S), C, 3, 1, ClientBSegments)]]

Tap == [kind |-> "tap",
        nodes |-> [s |-> Node(TCPSocketLab7(S), S, 1, 2,
                              {Segment(SYN + ACK, 300, 5, <<200, 1, 9>>)}),
                   a |-> Node(tcp_ip_ethernet(A, S), A, 2, 1, {Segment(SYN, 100, 5, << >>)})]]

AllSetups == {Tun, Udp, Tap}
=============================================================================
