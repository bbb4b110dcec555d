------------------------------ MODULE MCNetwork -----------------------------
(***************************************************************************)
(* The networks on which Network is checked.  Addresses have four bits;    *)
(* the first two are the number of the Ethernet.                           *)
(***************************************************************************)
EXTENDS Network

Everyone == <<"everyone", 0>>
Nobody == <<"nobody", 0>>
NoHop == 99

Host(address, gateway) == [addresses |-> <<address>>, gateway |-> gateway, routes |-> << >>]
Gateway(addresses, routes) == [addresses |-> addresses, gateway |-> NoHop, routes |-> routes]
Link(kind, ports) == [kind |-> kind, ports |-> ports]

\* network_simulator.cc in small: a default router, a host, and two hosts on
\* one Ethernet, one of them the way to a network with a longer prefix.
Simulator ==
    [nodes |-> [router |-> Gateway(<<9, 1, 5>>, <<<<0, 0, 10, 1>>, <<0, 2, NoHop, 2>>,
                                                  <<4, 2, NoHop, 3>>, <<12, 3, 7, 3>>>>),
                default_router |-> Host(10, 0), applesauce |-> Host(2, 1),
                dm42 |-> Host(6, 5), dm43 |-> Host(7, 5)],
     links |-> {Link("exchange", <<<<"router", 1>>, <<"default_router", 1>>>>),
                Link("exchange", <<<<"router", 2>>, <<"applesauce", 1>>>>),
                Link("exchange", <<<<"router", 3>>, <<"dm42", 1>>, <<"dm43", 1>>>>)},
     senders |-> {"applesauce", "dm42"}, destinations |-> {2, 7, 13, 14}, ttls |-> {0, 1, 2},
     maxSends |-> 2, maxTime |-> 0, maxDamage |-> 0]

\* lab7.cc: client, its router, the Internet, the server's router, server.
Lab7 ==
    [nodes |-> [client |-> Host(2, 1), server |-> Host(10, 9),
                clientside |-> Gateway(<<1, 5>>, <<<<0, 2, NoHop, 1>>, <<4, 2, NoHop, 2>>, <<8, 2, 6, 2>>>>),
                serverside |-> Gateway(<<9, 6>>, <<<<8, 2, NoHop, 1>>, <<4, 2, NoHop, 2>>, <<0, 2, 5, 2>>>>)],
     links |-> {Link("socketpair", <<<<"client", 1>>, <<"clientside", 1>>>>),
                Link("internet", <<<<"clientside", 2>>, <<"serverside", 2>>>>),
                Link("socketpair", <<<<"serverside", 1>>, <<"server", 1>>>>)},
     senders |-> {"client", "server"}, destinations |-> {2, 10, 14}, ttls |-> {3},
     maxSends |-> 2, maxTime |-> 0, maxDamage |-> 1]

\* Two routers, each the other's default route: other addresses loop.
Loop ==
    [nodes |-> [client |-> Host(2, 1),
                left |-> Gateway(<<1, 5>>, <<<<0, 0, 6, 2>>, <<0, 2, NoHop, 1>>>>),
                right |-> Gateway(<<6>>, <<<<0, 0, 5, 1>>>>)],
     links |-> {Link("socketpair", <<<<"client", 1>>, <<"left", 1>>>>),
                Link("socketpair", <<<<"left", 2>>, <<"right", 1>>>>)},
     senders |-> {"client"}, destinations |-> {2, 14}, ttls |-> {1, 4, 5},
     maxSends |-> 2, maxTime |-> 0, maxDamage |-> 0]

\* One lossy link, as time passes.
Slow ==
    [nodes |-> [client |-> Host(2, 1), router |-> Gateway(<<1>>, <<<<0, 2, NoHop, 1>>>>)],
     links |-> {Link("internet", <<<<"client", 1>>, <<"router", 1>>>>)},
     senders |-> {"client"}, destinations |-> {2}, ttls |-> {0, 2},
     maxSends |-> 3, maxTime |-> 3, maxDamage |-> 1]

Networks == {Simulator, Lab7, Loop, Slow}

\* A route whose prefix has bits set beyond its length, like the simulator's
\* 128.30.76.255/16.
RouteWithHostBits ==
    {[nodes |-> [router |-> Gateway(<<9, 1, 5>>, <<<<0, 0, 10, 1>>, <<0, 2, NoHop, 2>>, <<15, 2, 6, 3>>>>),
                 default_router |-> Host(10, 0), applesauce |-> Host(2, 1), mit |-> Host(6, 5)],
      links |-> {Link("exchange", <<<<"router", 1>>, <<"default_router", 1>>>>),
                 Link("exchange", <<<<"router", 2>>, <<"applesauce", 1>>>>),
                 Link("exchange", <<<<"router", 3>>, <<"mit", 1>>>>)},
      senders |-> {"applesauce"}, destinations |-> {13, 14}, ttls |-> {2},
      maxSends |-> 1, maxTime |-> 0, maxDamage |-> 0]}
=============================================================================
