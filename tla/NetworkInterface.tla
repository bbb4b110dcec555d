-------------------------- MODULE NetworkInterface --------------------------
(***************************************************************************)
(* An Ethernet interface (libsponge/network_interface.cc, and the queue of *)
(* received datagrams that AsyncNetworkInterface of router.hh adds) as a   *)
(* data type.  An Ethernet frame is a record of its two addresses, its     *)
(* type, its payload (a datagram or an ARP message), and whether that      *)
(* payload still parses when the frame arrives.                            *)
(***************************************************************************)
EXTENDS Naturals, Sequences, Calls

CONSTANTS Broadcast,        \* ETHERNET_BROADCAST
          NoEthernet,       \* the zero address of a field that is not set
          RequestPending,   \* the 5 * 1000 ms an ARP request stays pending
          MappingLife       \* the 30 * 1000 ms a mapping is kept

ASSUME InterfaceAssumption == RequestPending \in Nat /\ MappingLife \in Nat

\* asked, which the code does not have, remembers the requests sent and their
\* times; only the properties read it.
NewNetworkInterface(ethernet_address, ip_address) ==
    [ethernet_address |-> ethernet_address, ip_address |-> ip_address, timer |-> 0,
     address_table |-> << >>, dgram_delay_queue |-> << >>,
     frames_out |-> << >>, datagrams_out |-> << >>, asked |-> << >>]

\* The map f with f[key] set to value.
With(f, key, value) == [k \in DOMAIN f \cup {key} |-> IF k = key THEN value ELSE f[k]]

Frame(i, dst, type, payload) ==
    [src |-> i.ethernet_address, dst |-> dst, type |-> type, payload |-> payload,
     parses |-> TRUE]

PushFrame(i, dst, type, payload) ==
    [i EXCEPT !.frames_out = Append(@, Frame(i, dst, type, payload))]

ARPMessage(i, opcode, target_ip, target_ethernet) ==
    [opcode |-> opcode,
     sender_ip |-> i.ip_address, sender_ethernet |-> i.ethernet_address,
     target_ip |-> target_ip, target_ethernet |-> target_ethernet]

Resolved(i, ip) == ip \in DOMAIN i.address_table

\* A mutant: only the newest waiting datagram is looked at.
Pending_NewestOnly(i, ip) ==
    LET q == i.dgram_delay_queue
    IN  q # << >> /\ q[Len(q)].hop = ip /\ q[Len(q)].until > i.timer

\* Is the answer to an earlier request for ip still expected?
Pending(i, ip) ==
    \E k \in DOMAIN i.dgram_delay_queue :
        i.dgram_delay_queue[k].hop = ip /\ i.dgram_delay_queue[k].until > i.timer

Delay(i, dgram, hop, until) ==
    [i EXCEPT !.dgram_delay_queue = Append(@, [dgram |-> dgram, hop |-> hop, until |-> until])]

\* A datagram leaves at once if the next hop's address is known.  Otherwise it
\* waits, and only the first one in RequestPending sends a request.
send_datagram(i, dgram, next_hop) ==
    IF Resolved(i, next_hop)
    THEN PushFrame(i, i.address_table[next_hop].ethernet, "IPv4", dgram)
    ELSE IF Pending(i, next_hop)
    THEN Delay(i, dgram, next_hop, i.timer)
    ELSE PushFrame([Delay(i, dgram, next_hop, i.timer + RequestPending)
                        EXCEPT !.asked = Append(@, [ip |-> next_hop, at |-> i.timer])],
                   Broadcast, "ARP", ARPMessage(i, "REQUEST", next_hop, NoEthernet))

\* A mutant: the mapping is taken from the target fields.
Learn_FromTarget(i, arp) ==
    [i EXCEPT !.address_table =
        With(@, arp.target_ip, [ethernet |-> arp.target_ethernet,
                                expiry |-> i.timer + MappingLife])]

Learn(i, arp) ==
    [i EXCEPT !.address_table =
        With(@, arp.sender_ip, [ethernet |-> arp.sender_ethernet,
                                expiry |-> i.timer + MappingLife])]

Reply(i, arp) ==
    IF arp.opcode = "REQUEST" /\ arp.target_ip = i.ip_address
    THEN PushFrame(i, arp.sender_ethernet, "ARP",
                   ARPMessage(i, "REPLY", arp.sender_ip, arp.sender_ethernet))
    ELSE i

\* A mutant: the datagrams are sent and stay in the queue.
Flush_Keeps(i) ==
    LET ready == SelectSeq(i.dgram_delay_queue, LAMBDA w : Resolved(i, w.hop))
    IN  [i EXCEPT
            !.frames_out = @ \o [k \in DOMAIN ready |->
                Frame(i, i.address_table[ready[k].hop].ethernet, "IPv4", ready[k].dgram)]]

\* Every waiting datagram whose next hop is known by now leaves, in order.
Flush(i) ==
    LET ready == SelectSeq(i.dgram_delay_queue, LAMBDA w : Resolved(i, w.hop))
    IN  [i EXCEPT
            !.frames_out = @ \o [k \in DOMAIN ready |->
                Frame(i, i.address_table[ready[k].hop].ethernet, "IPv4", ready[k].dgram)],
            !.dgram_delay_queue = SelectSeq(@, LAMBDA w : ~Resolved(i, w.hop))]

\* A frame for somebody else and one that does not parse change nothing.
recv_frame(i, frame) ==
    IF frame.dst \notin {i.ethernet_address, Broadcast} \/ ~frame.parses THEN i
    ELSE IF frame.type = "IPv4"
    THEN [i EXCEPT !.datagrams_out = Append(@, frame.payload)]
    ELSE Then(Then(Learn(i, frame.payload), LAMBDA j : Reply(j, frame.payload)), Flush)

\* Time passes: mappings die, waiting datagrams do not.
interface_tick(i, ms) ==
    LET now == i.timer + ms
        alive == {ip \in DOMAIN i.address_table : i.address_table[ip].expiry >= now}
    IN  [i EXCEPT !.timer = now,
                  !.address_table = [ip \in alive |-> @[ip]]]
=============================================================================
