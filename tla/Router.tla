------------------------------- MODULE Router -------------------------------
(***************************************************************************)
(* A router (libsponge/router.cc): its interfaces and its routes, a map    *)
(* from (prefix, prefix length) to next hop and interface.  Addresses have *)
(* AddressBits bits; the code's have 32.                                   *)
(***************************************************************************)
EXTENDS NetworkInterface, SequencesExt

CONSTANTS AddressBits, Direct   \* Direct: the empty optional next_hop

\* (No prover knows that the powers of 2 are positive.)
ASSUME RouterAssumption ==
    AddressBits \in Nat /\ \A i \in 0 .. AddressBits : 2 ^ i \in Nat \ {0}

Addresses == 0 .. 2 ^ AddressBits - 1

add_route(routes, route_prefix, prefix_length, next_hop, interface_num) ==
    With(routes, <<route_prefix, prefix_length>>,
         [next_hop |-> next_hop, interface_num |-> interface_num])

\* The destination with its i low bits cleared.
dst_part(dst, i) == (dst \div 2 ^ i) * 2 ^ i

\* The loop's values of i at which a route is found.
Hits(routes, dst) ==
    {i \in 0 .. AddressBits : <<dst_part(dst, i), AddressBits - i>> \in DOMAIN routes}

\* A mutant: the loop clears the most bits first.
find_route_Shortest(routes, dst) ==
    LET i == Max(Hits(routes, dst)) IN routes[<<dst_part(dst, i), AddressBits - i>>]

\* The loop stops at the first hit.
find_route(routes, dst) ==
    LET i == Min(Hits(routes, dst)) IN routes[<<dst_part(dst, i), AddressBits - i>>]

Forward(router, dgram) ==
    LET r == find_route(router.routes, dgram.dst)
    IN  [router EXCEPT !.interfaces[r.interface_num] =
            send_datagram(@, [dgram EXCEPT !.ttl = @ - 1],
                          IF r.next_hop = Direct THEN dgram.dst ELSE r.next_hop)]

\* A datagram without a route, or whose TTL is or becomes 0, is dropped.
route_one_datagram(router, dgram) ==
    IF Hits(router.routes, dgram.dst) = {} \/ dgram.ttl = 0 \/ dgram.ttl - 1 = 0
    THEN router
    ELSE Forward(router, dgram)

\* Every received datagram is routed, interface by interface.
route(router) ==
    LET received == FlattenSeq([k \in DOMAIN router.interfaces |->
                                   router.interfaces[k].datagrams_out])
        routed == FoldLeft(LAMBDA r, d : Then(r, LAMBDA x : route_one_datagram(x, d)),
                           router, received)
    IN  [routed EXCEPT !.interfaces =
            [k \in DOMAIN @ |-> [@[k] EXCEPT !.datagrams_out = << >>]]]
=============================================================================
