------------------------------ MODULE Network -------------------------------
(***************************************************************************)
(* Hosts and routers joined by links.  The links are those of the two      *)
(* programs that build such networks: apps/network_simulator.cc exchanges  *)
(* all the frames waiting on a link at once and lets the router route      *)
(* afterwards; apps/lab7.cc carries frames one by one, over a socket pair  *)
(* between host and router and over a UDP relay (apps/bouncer.cc) between  *)
(* the routers, and routes as soon as a router has received a frame.       *)
(***************************************************************************)
EXTENDS Router

\* A topology is a record: the nodes (addresses of the interfaces, gateway of
\* a host, routes of a router), the links, what the hosts may send, and the
\* bounds on the number of datagrams, on time and on damaged frames.
CONSTANT Topologies

VARIABLES top,      \* the network of this behaviour
          node,     \* node[n]: a router's or host's interfaces and routes
          sent,     \* the datagrams the hosts have sent, as sent
          relay,    \* the ports whose UDP address the bouncer has learned
          damaged   \* how many frames did not arrive

vars == <<top, node, sent, relay, damaged>>

Nodes == DOMAIN top.nodes
Hosts == {n \in Nodes : top.nodes[n].routes = << >>}
Routers == Nodes \ Hosts

\* Network(), lab7's program_body(): all interfaces and routes come first.
NewNode(t, n) ==
    [interfaces |-> [k \in DOMAIN t.nodes[n].addresses |->
                        NewNetworkInterface(<<n, k>>, t.nodes[n].addresses[k])],
     routes |-> FoldLeft(LAMBDA routes, r : add_route(routes, r[1], r[2], r[3], r[4]),
                         << >>, t.nodes[n].routes)]

Init == /\ top \in Topologies
        /\ node = [n \in DOMAIN top.nodes |-> NewNode(top, n)]
        /\ sent = {} /\ relay = {} /\ damaged = 0

Interface(p) == node[p[1]].interfaces[p[2]]
SetInterface(p, i) == node' = [node EXCEPT ![p[1]].interfaces[p[2]] = i]

\* Host::send_to(), TCP over NetworkInterfaceAdapter::write().
SendTo(h, dst, ttl) ==
    LET dgram == [id |-> Cardinality(sent), src |-> h, dst |-> dst, ttl |-> ttl]
    IN  /\ h \in top.senders /\ Cardinality(sent) < top.maxSends
        /\ SetInterface(<<h, 1>>, send_datagram(Interface(<<h, 1>>), dgram, top.nodes[h].gateway))
        /\ sent' = sent \cup {dgram}
        /\ UNCHANGED <<top, relay, damaged>>

\* exchange_frames(), for two or three interfaces: each gets the frames that
\* the others had ready, in order; what it sends meanwhile waits.
exchange_frames(link, p) ==
    LET others == SelectSeq(link.ports, LAMBDA q : q # p)
        frames == FlattenSeq([k \in DOMAIN others |-> Interface(others[k]).frames_out])
        after == FoldLeft(LAMBDA i, f : Then(i, LAMBDA x : recv_frame(x, f)), Interface(p), frames)
    IN  [after EXCEPT !.frames_out =
            SubSeq(@, Len(Interface(p).frames_out) + 1, Len(@))]

OnLink(link) == Range(link.ports)

Exchange(link) ==
    /\ link.kind = "exchange"
    /\ \E p \in OnLink(link) : Interface(p).frames_out # << >>
    /\ node' = [n \in Nodes |-> [node[n] EXCEPT !.interfaces =
                    [k \in DOMAIN @ |-> IF <<n, k>> \in OnLink(link)
                                        THEN exchange_frames(link, <<n, k>>) ELSE @[k]]]]
    /\ UNCHANGED <<top, sent, relay, damaged>>

\* Network::simulate() calls Router::route().
Route(n) == /\ \E k \in DOMAIN node[n].interfaces : node[n].interfaces[k].datagrams_out # << >>
            /\ node' = [node EXCEPT ![n] = route(@)]
            /\ UNCHANGED <<top, sent, relay, damaged>>

\* lab7 tells the bouncer where it is; the bouncer remembers (x_peer, y_peer).
Announce(link, p) == /\ link.kind = "internet" /\ p \notin relay
                     /\ relay' = relay \cup {p}
                     /\ UNCHANGED <<top, node, sent, damaged>>

\* A host's adapter takes a frame in (NetworkInterfaceAdapter::read()).
Receive(n, k, frame) == [node[n] EXCEPT !.interfaces[k] = recv_frame(@, frame)]

\* lab7's network thread gives a frame to the router, which routes at once.
ReceiveAndRoute(n, k, frame) == Then(Receive(n, k, frame), route)

\* What a port has ready goes out in order (send_pending()).
Sent(p) == [node[p[1]] EXCEPT !.interfaces[p[2]].frames_out = Tail(@)]

\* The bouncer learns where a port is from what it sends, and drops it if it
\* does not know the other side yet.
Learned(link, p) == IF link.kind = "internet" THEN relay \cup {p} ELSE relay
Passes(link, q) == link.kind = "socketpair" \/ q \in relay

\* The rules of lab7's network thread, and of the host's adapter: the first
\* waiting frame goes to the other end.
Carry(link, p) ==
    LET q == CHOOSE x \in OnLink(link) : x # p
        frame == Head(Interface(p).frames_out)
        carried == Passes(link, q)
        after == IF q[1] \in Routers THEN ReceiveAndRoute(q[1], q[2], frame)
                 ELSE Receive(q[1], q[2], frame)
    IN  /\ link.kind \in {"socketpair", "internet"} /\ Interface(p).frames_out # << >>
        /\ node' = [node EXCEPT ![p[1]] = Sent(p), ![q[1]] = IF carried THEN after ELSE @]
        /\ relay' = Learned(link, p)
        /\ damaged' = IF carried /\ frame.parses THEN damaged ELSE damaged + 1
        /\ UNCHANGED <<top, sent>>

\* On the Internet a frame may be damaged, or lost, which comes to the same:
\* the frames travel in UDP datagrams, whose checksum the kernel verifies.
\* (IPv4Datagram::parse() by itself would let a damaged header through; this
\* case is in FdAdapter.)
Damage(link, p) ==
    /\ link.kind = "internet" /\ damaged < top.maxDamage
    /\ Interface(p).frames_out # << >> /\ Head(Interface(p).frames_out).parses
    /\ SetInterface(p, [Interface(p) EXCEPT !.frames_out[1].parses = FALSE])
    /\ UNCHANGED <<top, sent, relay, damaged>>

\* The loops of lab7 and of the host's TCP tick all interfaces of their node.
Tick(n) == /\ node[n].interfaces[1].timer < top.maxTime
           /\ node' = [node EXCEPT ![n].interfaces =
                          [k \in DOMAIN @ |-> interface_tick(@[k], 1)]]
           /\ UNCHANGED <<top, sent, relay, damaged>>

Next == \/ \E h \in Hosts, dst \in Addresses, ttl \in top.ttls :
              dst \in top.destinations /\ SendTo(h, dst, ttl)
        \/ \E link \in top.links : Exchange(link)
        \/ \E link \in top.links : \E p \in OnLink(link) :
              Announce(link, p) \/ Carry(link, p) \/ Damage(link, p)
        \/ \E n \in Routers : Route(n)
        \/ \E n \in Nodes : Tick(n)

Spec == Init /\ [][Next]_vars

\* The simulator keeps exchanging and routing; lab7's event loops keep
\* carrying frames, and announce themselves when they start.
Fairness == /\ WF_vars(\E n \in Routers : Route(n))
            /\ WF_vars(\E link \in top.links : Exchange(link))
            /\ WF_vars(\E link \in top.links : \E p \in OnLink(link) : Announce(link, p))
            /\ WF_vars(\E link \in top.links : \E p \in OnLink(link) : Carry(link, p))

FairSpec == Spec /\ Fairness

-----------------------------------------------------------------------------
(* Properties *)

Ports == UNION {OnLink(link) : link \in top.links}

\* An interface asks for an address again only after RequestPending, and a
\* datagram that starts to wait does so with a request younger than that: no
\* flood of requests, and no datagram waits without anybody having asked.
RequestDiscipline ==
    [][\A p \in Ports : LET i == Interface(p)  j == Interface(p)'
       IN  /\ \A k \in DOMAIN j.asked \ DOMAIN i.asked : \A m \in 1 .. k - 1 :
                 j.asked[m].ip = j.asked[k].ip => j.asked[k].at >= j.asked[m].at + RequestPending
           /\ \A w \in Range(j.dgram_delay_queue) \ Range(i.dgram_delay_queue) :
                 \E r \in Range(j.asked) : r.ip = w.hop /\ j.timer < r.at + RequestPending]_vars

\* The places where a copy of datagram number id is.
Copies(id) ==
    LET Holds(s) == \* indices of s with the datagram
            {k \in DOMAIN s : s[k].id = id}
        InFrames(f) == {k \in DOMAIN f : f[k].type = "IPv4" /\ f[k].payload.id = id}
        Waiting(w) == {k \in DOMAIN w : w[k].dgram.id = id}
    IN  UNION {  ({<<p, "in">>} \X Holds(Interface(p).datagrams_out))
            \cup ({<<p, "out">>} \X InFrames(Interface(p).frames_out))
            \cup ({<<p, "wait">>} \X Waiting(Interface(p).dgram_delay_queue)) : p \in Ports}

\* However the frames, the ARP answers and the routing interleave, a datagram
\* exists once: it is never sent twice by flushing, forwarding or a broadcast.
OneCopy == \A d \in sent : Cardinality(Copies(d.id)) <= 1

\* The reference: the route that agrees with dst in the most high-order bits.
Agrees(r, dst) == r[1] \div 2 ^ (AddressBits - r[2]) = dst \div 2 ^ (AddressBits - r[2])
BestRoute(n, dst) ==
    LET applicable == {r \in Range(top.nodes[n].routes) : Agrees(r, dst)}
    IN  CHOOSE r \in applicable : \A s \in applicable : s[2] <= r[2]

\* The node with address ip on the link of port p, if there is one.
Neighbours(p, ip) ==
    {q \in Ports \ {p} : Interface(q).ip_address = ip
                         /\ \E link \in top.links : {p, q} \subseteq OnLink(link)}

\* Where a datagram for dst that port p sends to hop ends up: at a host with
\* some TTL, or nowhere.
RECURSIVE Journey(_, _, _, _)
Journey(p, hop, dst, ttl) ==
    IF Neighbours(p, hop) = {} THEN << >>
    ELSE LET n == (CHOOSE q \in Neighbours(p, hop) : TRUE)[1]
             r == BestRoute(n, dst)
         IN  IF n \in Hosts THEN <<n, ttl>>
             ELSE IF ttl <= 1 \/ ~\E s \in Range(top.nodes[n].routes) : Agrees(s, dst) THEN << >>
             ELSE Journey(<<n, r[4]>>, IF r[3] = Direct THEN dst ELSE r[3], dst, ttl - 1)

Destination(d) == Journey(<<d.src, 1>>, top.nodes[d.src].gateway, d.dst, d.ttl)

\* "the route with the longest prefix_length that matches the datagram's
\* destination address" (router.hh:50) decides: a host gets exactly datagrams
\* whose way, hop by hop, leads to it, with the TTL they have left then.
DeliveredIsRouted ==
    \A h \in Hosts : \A got \in Range(Interface(<<h, 1>>).datagrams_out) :
        \E d \in sent : d.id = got.id /\ Destination(d) = <<h, got.ttl>>

Delivered(d) ==
    \E h \in Hosts : \E got \in Range(Interface(<<h, 1>>).datagrams_out) : got.id = d.id

\* Everything comes to rest, loops of routes included, and then every datagram
\* that has a way has been delivered, if no frame was lost.  A lost frame costs
\* the datagram in it and no other: what is missing besides still waits for an
\* ARP answer, whichever frames the Internet damaged or the relay dropped.
AllArrive ==
    <>[](LET missing == {d \in sent : Destination(d) # << >> /\ ~Delivered(d)}
         IN  /\ \A p \in Ports : /\ Interface(p).frames_out = << >>
                                 /\ p[1] \in Routers => Interface(p).datagrams_out = << >>
             /\ damaged = 0 => missing = {}
             /\ Cardinality({d \in missing : Copies(d.id) = {}}) <= damaged)
=============================================================================
