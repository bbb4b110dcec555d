------------------------------ MODULE TCPPair -------------------------------
(***************************************************************************)
(* Two TCPConnections, each run by its TCPSpongeSocket event loop, over a  *)
(* network that may lose, repeat and reorder segments.  The loop's rules   *)
(* (tcp_helpers/tcp_sponge_socket.cc) are the actions: a segment arrives,  *)
(* the application's bytes or its end of stream are read, inbound bytes    *)
(* are handed to the application, queued segments are sent, time passes.   *)
(* The applications use the connection once it is established.             *)
(***************************************************************************)
EXTENDS TCPState

CONSTANTS ISN,          \* ISN[p]: the initial sequence number p picks
          BytesToSend,  \* BytesToSend[p]: bytes p's application writes in all
          MaxQueue,     \* bound: segments waiting at one end or on the way to it
          MaxLosses, MaxDuplicates,   \* bounds: how often the network misbehaves
          Reorders,     \* may a segment overtake another?
          EndsWhenAcked,  \* do applications close only once their bytes are acknowledged?
          Prompt        \* are segments delivered, and bytes read, within one tick?

Peers == {"client", "server"}
Other(p) == IF p = "client" THEN "server" ELSE "client"

ASSUME PairAssumption ==
    /\ ISN \in [Peers -> WrappingInt32] /\ BytesToSend \in [Peers -> Nat]
    /\ MaxQueue \in Nat /\ MaxLosses \in Nat /\ MaxDuplicates \in Nat
    /\ Reorders \in BOOLEAN /\ EndsWhenAcked \in BOOLEAN /\ Prompt \in BOOLEAN

\* A segment may stay on its way as long as the network likes, and still be
\* unwrapped to its own position, because no stream is as long as half the
\* ring of sequence numbers.
ASSUME ShortStreamsAssumption == \A p \in Peers : 2 * (BytesToSend[p] + 1) < TwoTo32

VARIABLES conn,     \* conn[p]: p's connection
          net,      \* net[p]: the segments on their way to p
          lost, duplicated

vars == <<conn, net, lost, duplicated>>

Init == /\ conn = [p \in Peers |-> NewTCPConnection(ISN[p])]
        /\ net = [p \in Peers |-> << >>]
        /\ lost = 0 /\ duplicated = 0

Set(p, c) == conn' = [conn EXCEPT ![p] = c]
Quiet == UNCHANGED <<net, lost, duplicated>>
Room(p) == Len(conn[p].segments_out) < MaxQueue

\* TCPSpongeSocket::connect() starts the client.
Connect(p) == /\ p = "client"
              /\ next_seqno_absolute(conn[p].sender) = 0
              /\ Set(p, connect(conn[p]))
              /\ Quiet

\* connect() and listen_and_accept() return, and the application gets hold of
\* the socket, once the state is none of these.
Established(p) ==
    state(conn[p]) \notin {Official.LISTEN, Official.SYN_SENT, Official.SYN_RCVD}

Wants(p) == Established(p) /\ conn[p].active /\ ~outbound_stream(conn[p]).ended

\* Rule 2: the application's bytes, at most what the stream has room for.
AppWrite(p, n) ==
    LET bs == outbound_stream(conn[p])
    IN  /\ Wants(p) /\ Room(p)
        /\ n <= remaining_capacity(bs) /\ bs.written + n <= BytesToSend[p]
        /\ Set(p, connection_write(conn[p], [i \in 1 .. n |-> bs.written + i - 1]))
        /\ Quiet

\* Rule 2: the application closes its side.
AppEnd(p) == /\ Wants(p) /\ Room(p)
             /\ bytes_written(outbound_stream(conn[p])) = BytesToSend[p]
             /\ EndsWhenAcked => /\ buffer_empty(outbound_stream(conn[p]))
                                 /\ bytes_in_flight(conn[p].sender) = 0
             /\ Set(p, end_input_stream(conn[p]))
             /\ Quiet

\* Rule 3: inbound bytes go to the application.
AppRead(p) == /\ ~buffer_empty(inbound_stream(conn[p]))
              /\ Set(p, [conn[p] EXCEPT !.receiver.reassembler.output = stream_read(@, 1)])
              /\ Quiet

\* Rule 4: all queued segments are sent.
Transmit(p) == /\ conn[p].segments_out # << >>
               /\ \/ net[Other(p)] = << >>
                  \/ Len(net[Other(p)]) + Len(conn[p].segments_out) <= MaxQueue
               /\ Set(p, [conn[p] EXCEPT !.segments_out = << >>])
               /\ net' = [net EXCEPT ![Other(p)] = @ \o conn[p].segments_out]
               /\ UNCHANGED <<lost, duplicated>>

Without(s, i) == SubSeq(s, 1, i - 1) \o SubSeq(s, i + 1, Len(s))
Next1(p) == IF Reorders THEN DOMAIN net[p] ELSE DOMAIN net[p] \cap {1}

\* Rule 1: a segment arrives at a connection that is still active; the
\* others are left unread, which is as good as dropping them.
Deliver(p, i) == /\ Room(p)
                 /\ conn' = IF conn[p].active
                            THEN [conn EXCEPT ![p] = segment_received(@, net[p][i])]
                            ELSE conn
                 /\ net' = [net EXCEPT ![p] = Without(@, i)]
                 /\ UNCHANGED <<lost, duplicated>>

Lose(p, i) == /\ lost < MaxLosses /\ lost' = lost + 1
              /\ net' = [net EXCEPT ![p] = Without(@, i)]
              /\ UNCHANGED <<conn, duplicated>>

Duplicate(p, i) == /\ duplicated < MaxDuplicates /\ duplicated' = duplicated + 1
                   /\ Len(net[p]) < MaxQueue
                   /\ net' = [net EXCEPT ![p] = Append(@, net[p][i])]
                   /\ UNCHANGED <<conn, lost>>

\* Time passes: both loops tick their connection, while it is active.  The
\* unit is RtTimeout, or a fraction of it.
Tick == /\ \E p \in Peers : conn[p].active
        /\ \A p \in Peers : Room(p)
        /\ Prompt => \A p \in Peers : /\ net[p] = << >> /\ conn[p].segments_out = << >>
                                      /\ buffer_empty(inbound_stream(conn[p]))
        /\ conn' = [p \in Peers |-> IF conn[p].active THEN connection_tick(conn[p], 1)
                                                      ELSE conn[p]]
        /\ Quiet

\* What p's event loop, its application and the network do for p in time.
Serve(p) ==
    \/ Connect(p)
    \/ \E n \in 1 .. BytesToSend[p] : AppWrite(p, n)
    \/ AppEnd(p)
    \/ AppRead(p)
    \/ Transmit(p)
    \/ \E i \in Next1(p) : Deliver(p, i)

Misbehave(p) ==
    \/ \E i \in DOMAIN net[p] : Lose(p, i)
    \/ \E i \in DOMAIN net[p] : Duplicate(p, i)

Next == Tick \/ \E p \in Peers : Serve(p) \/ Misbehave(p)

Spec == Init /\ [][Next]_vars

\* An event loop keeps serving and ticking while there is anything to do; the
\* network delivers what it does not lose; the applications connect, write,
\* close and read.
Fairness == WF_vars(Tick) /\ \A p \in Peers : WF_vars(Serve(p))

FairSpec == Spec /\ Fairness

-----------------------------------------------------------------------------
(* Properties *)

HasError(p) == inbound_stream(conn[p]).error \/ outbound_stream(conn[p]).error

\* What p has received is a prefix of what its peer has sent, byte for byte
\* and in order, whatever the network did to the segments.
ReceivedIsPrefixOfSent ==
    \A p \in Peers :
        LET in == inbound_stream(conn[p])
        IN  /\ bytes_written(in) <= bytes_read(outbound_stream(conn[Other(p)]))
            /\ \A i \in 1 .. buffer_size(in) : in.buffer[i] = bytes_read(in) + i - 1

\* How many sequence numbers p's sender has handed out and no longer tracks.
Forgotten(p) ==
    LET tracking == conn[p].sender.tracking
    IN  next_seqno_absolute(conn[p].sender) - SequenceSpace(tracking)[Len(tracking)]

\* A sender drops a byte from _tracking_segments only when the peer's receiver
\* has it: otherwise nobody can send it again.
AckedWasReceived ==
    \A p \in Peers :
        MinOf(Forgotten(p) - 1, bytes_written(outbound_stream(conn[p])))
            <= bytes_written(inbound_stream(conn[Other(p)]))

\* A connection that ended without an error has had its FIN acknowledged and
\* both streams have arrived whole.
CleanCloseIsComplete ==
    \A p \in Peers :
        ~conn[p].active /\ ~HasError(p) =>
            /\ current_state(conn[p].sender) = "FinAcked"
            /\ bytes_read(inbound_stream(conn[p])) = BytesToSend[Other(p)]
            /\ bytes_written(inbound_stream(conn[Other(p)])) = BytesToSend[p]

\* The official states of the two ends fit together: one that holds its SYN or
\* its FIN to be acknowledged faces one that has it, and one that ended
\* without lingering (a passive close) faces one whose FIN is acknowledged,
\* so nobody is left repeating a FIN to a peer that is gone.
StatesAgree ==
    \A p \in Peers :
        LET ours == state(conn[p])
            theirs == state(conn[Other(p)])
        IN  /\ ours.sender \in {"SYN_ACKED", "FIN_SENT"} => theirs.receiver # "LISTEN"
            /\ ours.sender = "FIN_ACKED" => theirs.receiver \in {"FIN_RECV", "ERROR"}
            /\ ours = Official.CLOSED /\ ~conn[p].linger =>
                    theirs.sender \in {"FIN_ACKED", "ERROR"}

\* Both connections end, without an error, and the applications have read
\* everything.
BothFinish ==
    <>[](\A p \in Peers :
            /\ ~conn[p].active /\ ~HasError(p)
            /\ bytes_read(inbound_stream(conn[p])) = BytesToSend[Other(p)])
=============================================================================
