-------------------------- MODULE TCPSpongeSocket ---------------------------
(***************************************************************************)
(* A TCPSpongeSocket (tcp_helpers/tcp_sponge_socket.cc): the owner's       *)
(* thread and the TCP thread, joined by a pair of stream sockets.  The TCP *)
(* thread runs an event loop with four rules around its TCPConnection,     *)
(* the "client" of TCPPair; the "server" is the peer, as in TCPPair.  The  *)
(* owner runs bidirectional_stream_copy() and then wait_until_closed() (as *)
(* tcp_udp and tcp_ipv4 do), or the program webget, or destructs the       *)
(* socket at any moment.                                                   *)
(*                                                                         *)
(* Callbacks are atomic: they use the shared descriptors in one call each, *)
(* or in two that the other thread cannot tell from one.  What the TCP     *)
(* thread does from its last callback to the next poll() is one step with  *)
(* it: of the shared state it reads the abort flag only, which callbacks   *)
(* do not read.                                                            *)
(***************************************************************************)
EXTENDS TCPPair, BidirectionalStreamCopy

\* A scenario says what the owner runs, whether it destructs the socket early,
\* how the peer behaves, and how many bytes each writes.
CONSTANTS UpCapacity, DownCapacity,  \* what the socket pair buffers in each direction
          Scenarios

ASSUME ScenarioAssumption ==
    /\ UpCapacity \in Nat \ {0} /\ DownCapacity \in Nat \ {0}
    /\ Scenarios \subseteq [program: {"copy", "webget"}, quits: BOOLEAN,
                            peer: {"answers", "silent", "resets"},
                            request: 1 .. BytesToSend["client"], answer: 1 .. BytesToSend["server"]]

VARIABLES sc,      \* the scenario
          up, down,  \* the socket pair: owner to TCP thread, and back
          fd_closed, \* has the owner closed its descriptor?
          abort,   \* _abort
          thread,  \* the TCP thread (before it is started, its loop runs in connect())
          owner    \* the owner: program counter, event loop, state of the copy

socketVars == <<sc, up, down, fd_closed, abort, thread, owner>>

Rules == <<"receive", "outbound", "inbound", "send">>

-----------------------------------------------------------------------------
(* The rules of _initialize_TCP() *)

World == [loop |-> thread.loop, thread |-> thread, conn |-> conn["client"],
          net |-> net, up |-> up, down |-> down]

Commit(w, at) ==
    /\ thread' = [w.thread EXCEPT !.loop = w.loop, !.at = at]
    /\ conn' = [conn EXCEPT !["client"] = w.conn]
    /\ net' = w.net /\ up' = w.up /\ down' = w.down
    /\ UNCHANGED <<lost, duplicated, sc, fd_closed, abort, owner>>

Defunct(w, r) == r = "outbound" /\ w.thread.eof

OutboundInterest(w) == /\ w.conn.active /\ ~w.thread.outbound_shutdown
                       /\ remaining_capacity(outbound_stream(w.conn)) > 0

InboundInterest(w) ==
    LET inbound == inbound_stream(w.conn)
    IN  \/ ~buffer_empty(inbound)
        \/ (eof(inbound) \/ inbound.error) /\ ~w.thread.inbound_shutdown

\* A mutant: nothing is sent for a connection that has ended.
SendInterest_Active(w) == w.conn.active /\ w.conn.segments_out # << >>

SendInterest(w) == w.conn.segments_out # << >>

Interest(w, r) == CASE r = "receive" -> w.conn.active
                    [] r = "outbound" -> OutboundInterest(w)
                    [] r = "inbound" -> InboundInterest(w)
                    [] r = "send" -> SendInterest(w)

\* A mutant: the connection is not told.
EndOutbound_FlagOnly(w) == [w EXCEPT !.thread.outbound_shutdown = TRUE]

EndOutbound(w) == [w EXCEPT !.conn = end_input_stream(@), !.thread.outbound_shutdown = TRUE]

Cancel(w, r) == IF r = "outbound" THEN EndOutbound(w) ELSE w

Ready(w, r) ==
    CASE r = "receive" -> w.net["client"] # << >>
      [] r = "outbound" -> Readable(w.up)
      [] r = "inbound" -> Writable(w.down)
      [] r = "send" -> Len(w.net["server"]) + Len(w.conn.segments_out) <= MaxQueue

Hup(w, r) == r \in {"outbound", "inbound"} /\ w.up.shut /\ w.down.shut

\* Rule 1.
Receives(w) == [w EXCEPT !.conn = segment_received(@, Head(w.net["client"])),
                         !.net["client"] = Tail(@)]

\* A mutant: everything that the pipe holds is read.
OutboundLimit_Pipe(w) == w.up.capacity

OutboundLimit(w) == remaining_capacity(outbound_stream(w.conn))

\* Rule 2.
Outbound(w) ==
    LET limit == OutboundLimit(w)
        data == ReadBytes(w.up, limit)
        at_eof == ReadsEof(w.up, limit)
        read == [w EXCEPT !.conn = connection_write(@, data), !.up = AfterRead(@, limit),
                          !.thread.eof = at_eof]
    IN  IF Len(data) > remaining_capacity(outbound_stream(w.conn))
        THEN [read EXCEPT !.loop.threw = TRUE]
        ELSE IF at_eof THEN EndOutbound(read) ELSE read

\* Rule 3.  (A write to a socket pair that the owner shut down is a SIGPIPE.)
Inbound(w) ==
    LET inbound == inbound_stream(w.conn)
        data == peek_output(inbound, buffer_size(inbound))
        popped == pop_output(inbound, Taken(w.down, data))
        wrote == [w EXCEPT !.down = AfterWrite(@, data),
                           !.conn.receiver.reassembler.output = popped]
    IN  IF WriteFails(w.down, data) THEN [w EXCEPT !.loop.threw = TRUE]
        ELSE IF eof(popped) \/ popped.error
             THEN [wrote EXCEPT !.down = shutdown(@), !.thread.inbound_shutdown = TRUE]
             ELSE wrote

\* Rule 4: everything queued.  An adapter may drop or hold back all of it,
\* so that the descriptor is not written.
Sends(w) == [w EXCEPT !.net["server"] = @ \o w.conn.segments_out, !.conn.segments_out = << >>]

Callback(w, r) ==
    LET used == [w EXCEPT !.loop.serviced = TRUE]
    IN  CASE r = "receive" -> Receives(used)
          [] r = "outbound" -> Outbound(used)
          [] r = "inbound" -> Inbound(used)
          [] r = "send" -> Sends(w)

Loop == INSTANCE EventLoop   \* with the operators above

-----------------------------------------------------------------------------
(* _tcp_loop(), connect() and _tcp_main() *)

NewThread == [phase |-> "connect", at |-> "top",
              loop |-> Loop!NewEventLoop(Rules), eof |-> FALSE,
              inbound_shutdown |-> FALSE, outbound_shutdown |-> FALSE]

NewOwner == [pc |-> "connecting", loop |-> CopyLoop!NewEventLoop(CopyRules), copy |-> NewCopy,
             typed |-> 0]

\* _initialize_TCP() and TCPConnection::connect() have run.
SocketInit ==
    /\ conn = [p \in Peers |-> IF p = "client" THEN connect(NewTCPConnection(ISN[p]))
                                               ELSE NewTCPConnection(ISN[p])]
    /\ net = [p \in Peers |-> << >>] /\ lost = 0 /\ duplicated = 0
    /\ sc \in Scenarios /\ up = NewPipe(UpCapacity) /\ down = NewPipe(DownCapacity)
    /\ fd_closed = FALSE /\ abort = FALSE
    /\ thread = NewThread /\ owner = NewOwner

Alive == owner.pc # "killed" /\ thread.phase \in {"connect", "main"}

\* What ~TCPConnection() does to a connection that is still open: its RST
\* joins the queue that is about to be destroyed.
Destroyed(c) ==
    IF c.active
    THEN [SetErrors(c) EXCEPT !.linger = FALSE,
              !.segments_out = Append(@, [EmptySegment EXCEPT !.rst = TRUE])]
    ELSE c

\* The end of _tcp_main(): shutdown() of the owner's descriptor, which throws
\* if the owner has closed it, and _tcp.reset().
EndMain(w) ==
    /\ thread' = [w.thread EXCEPT !.loop = w.loop,
                                  !.phase = IF fd_closed THEN "terminated" ELSE "ended"]
    /\ conn' = [conn EXCEPT !["client"] = IF fd_closed THEN w.conn ELSE Destroyed(w.conn)]
    /\ up' = shutdown(w.up) /\ down' = shutdown(w.down)
    /\ net' = w.net
    /\ UNCHANGED <<lost, duplicated, sc, fd_closed, abort, owner>>

\* connect() returns: the TCP thread is started and the owner goes on.
EndConnect(w) ==
    /\ thread' = [w.thread EXCEPT !.loop = w.loop, !.phase = "main", !.at = "top"]
    /\ owner' = [owner EXCEPT !.pc = IF sc.program = "copy" THEN "wait" ELSE "writing"]
    /\ conn' = [conn EXCEPT !["client"] = w.conn]
    /\ UNCHANGED <<net, lost, duplicated, sc, up, down, fd_closed, abort>>

\* The loop's condition, and the first half of wait_next_event().
EnterLoop(w) ==
    IF w.thread.phase = "connect" /\ state(w.conn) # Official.SYN_SENT THEN Commit(w, "exit")
    ELSE \E v \in {Loop!SetUp(w)} : Commit(v, IF Loop!SomethingToPoll(v) THEN "poll" ELSE "exit")

LoopTop == Alive /\ thread.at = "top" /\ EnterLoop(World)

\* poll() returns because a rule can be run.
LoopPoll ==
    LET w == Loop!Poll(World)
    IN  /\ Alive /\ thread.at = "poll" /\ w.loop.results # << >>
        /\ Commit(w, "serve")

\* After wait_next_event(): the abort flag, the clock, and round again.
AfterWait(w, elapsed) ==
    IF abort THEN Commit(w, "exit")
    ELSE \E v \in {[w EXCEPT !.conn = IF @.active THEN connection_tick(@, elapsed) ELSE @]} :
             EnterLoop(v)

\* The next poll result.  An exception ends the thread, and the process.
LoopServe ==
    /\ Alive /\ thread.at = "serve"
    /\ \E w \in {Loop!GoThrough(World)} :
           IF w.loop.threw THEN Commit([w EXCEPT !.thread.phase = "terminated"], "serve")
           ELSE IF w.loop.results # << >> THEN Commit(w, "serve")
           ELSE AfterWait(w, 0)

\* poll() has timed out.
LoopTimeout == Alive /\ thread.at = "timeout" /\ AfterWait(World, 1)

\* _tcp_loop() has returned.
LoopExit ==
    /\ Alive /\ thread.at = "exit"
    /\ IF thread.phase = "connect" THEN EndConnect(World) ELSE EndMain(World)

-----------------------------------------------------------------------------
(* The owner *)

Request == [i \in 1 .. sc.request |-> i - 1]
Running == thread.phase # "terminated"
OwnerOnly == UNCHANGED <<conn, net, lost, duplicated, sc, thread>>

\* The user types, and ends the input.
Type ==
    /\ sc.program = "copy" /\ Running /\ ~owner.copy.input.shut
    /\ owner' = [owner EXCEPT !.copy.input = shutdown(AfterWrite(@, Request))]
    /\ UNCHANGED <<up, down, fd_closed, abort>> /\ OwnerOnly

CopyWorld == [loop |-> owner.loop, copy |-> owner.copy, up |-> up, down |-> down]

CopyCommit(w, pc) ==
    /\ owner' = [owner EXCEPT !.loop = w.loop, !.copy = w.copy, !.pc = pc]
    /\ up' = w.up /\ down' = w.down
    /\ UNCHANGED <<fd_closed, abort>> /\ OwnerOnly

\* bidirectional_stream_copy(): its loop waits without a time limit, and ends
\* with Exit.
CopyWait ==
    /\ Running /\ owner.pc = "wait"
    /\ \E w \in {CopyLoop!SetUp(CopyWorld)} :
           IF ~CopyLoop!SomethingToPoll(w) THEN CopyCommit(w, "closing")
           ELSE \E v \in {CopyLoop!Poll(w)} :
                    v.loop.results # << >> /\ CopyCommit(v, "serve")

CopyServe ==
    /\ Running /\ owner.pc = "serve"
    /\ \E w \in {CopyLoop!GoThrough(CopyWorld)} :
           CopyCommit(w, IF w.copy.killed THEN "killed"
                         ELSE IF w.loop.results = << >> THEN "wait" ELSE "serve")

\* wait_until_closed(): shutdown() in both directions, then join().
WaitUntilClosed ==
    /\ Running /\ owner.pc = "closing" /\ sc.program = "copy"
    /\ up' = shutdown(up) /\ down' = shutdown(down)
    /\ owner' = [owner EXCEPT !.pc = "joining"]
    /\ UNCHANGED <<fd_closed, abort>> /\ OwnerOnly

\* webget: the request is written, as much as fits at a time,
WebgetWrite ==
    LET rest == SubSeq(Request, owner.typed + 1, sc.request)
        typed == owner.typed + Taken(up, rest)
    IN  /\ Running /\ owner.pc = "writing" /\ (up.shut \/ Writable(up))
        /\ owner' = IF WriteFails(up, rest) THEN [owner EXCEPT !.pc = "killed"]
                    ELSE [owner EXCEPT !.typed = typed,
                              !.pc = IF typed = sc.request THEN "reading" ELSE @]
        /\ up' = IF WriteFails(up, rest) THEN up ELSE AfterWrite(up, rest)
        /\ UNCHANGED <<down, fd_closed, abort>> /\ OwnerOnly

\* the answer is read and printed up to the end of file,
WebgetRead ==
    LET limit == down.capacity
    IN  /\ Running /\ owner.pc = "reading" /\ Readable(down)
        /\ owner' = IF ReadsEof(down, limit)
                    THEN [owner EXCEPT !.pc = "closing", !.copy.socket_eof = TRUE]
                    ELSE [owner EXCEPT !.copy.output = @ \o ReadBytes(down, limit)]
        /\ down' = AfterRead(down, limit)
        /\ UNCHANGED <<up, fd_closed, abort>> /\ OwnerOnly

\* the descriptor is closed,
WebgetClose ==
    /\ Running /\ owner.pc = "closing" /\ sc.program = "webget" /\ ~fd_closed
    /\ fd_closed' = TRUE
    /\ up' = shutdown(up) /\ down' = shutdown(down)
    /\ UNCHANGED <<owner, abort>> /\ OwnerOnly

\* The destructor: of a socket that is open at any moment the owner gives up,
\* or because the shutdown() of a closed descriptor in wait_until_closed()
\* throws.
Destruct ==
    /\ Running
    /\ \/ sc.quits /\ owner.pc \in {"wait", "serve", "writing", "reading", "closing"}
       \/ owner.pc = "closing" /\ fd_closed
    /\ abort' = TRUE /\ owner' = [owner EXCEPT !.pc = "joining"]
    /\ UNCHANGED <<up, down, fd_closed>> /\ OwnerOnly

Join ==
    /\ owner.pc = "joining" /\ thread.phase = "ended"
    /\ owner' = [owner EXCEPT !.pc = "done"]
    /\ UNCHANGED <<up, down, fd_closed, abort>> /\ OwnerOnly

-----------------------------------------------------------------------------
(* The rest of the world *)

\* The peer: its application, which writes as much as it can at once, and its
\* event loop.
PeerApplication ==
    LET bs == outbound_stream(conn["server"])
        n == MinOf(remaining_capacity(bs), sc.answer - bs.written)
    IN  /\ sc.peer # "silent"
        /\ \/ n > 0 /\ AppWrite("server", n)
           \/ /\ Wants("server") /\ Room("server") /\ bs.written = sc.answer
              /\ Set("server", end_input_stream(conn["server"])) /\ Quiet
        /\ UNCHANGED socketVars

PeerLoop ==
    /\ sc.peer # "silent"
    /\ \/ AppRead("server") \/ Transmit("server")
       \/ \E i \in Next1("server") : Deliver("server", i)
    /\ UNCHANGED socketVars

\* The peer gives up, as connection_tick() does, or is killed: its RST is on
\* the way behind whatever it has sent.
PeerReset ==
    /\ sc.peer = "resets" /\ conn["server"].active
    /\ next_seqno_absolute(conn["server"].sender) # 0
    /\ conn' = [conn EXCEPT !["server"] = Destroyed(@)]
    /\ UNCHANGED <<net, lost, duplicated, socketVars>>

\* Datagrams for a silent peer get lost; those nobody reads any more stay
\* where they are, which is the same.
Unread(p) ==
    /\ IF p = "server" THEN sc.peer = "silent" ELSE ~conn[p].active \/ ~Alive
    /\ net[p] # << >>
    /\ net' = [net EXCEPT ![p] = << >>]
    /\ UNCHANGED <<conn, lost, duplicated, socketVars>>

\* Time passes: the wait of the TCP thread is over, by the time limit or by a
\* hangup nobody asked for; the server's loop ticks.  Segments travel, and
\* owner and server application read, faster than that.
Time ==
    LET polled == Loop!Poll(World)
        quiet == thread.at = "poll" /\ polled.loop.results = << >>
    IN  /\ Alive => quiet
        /\ \A p \in Peers : net[p] = << >>
        /\ owner.pc \in {"wait", "serve", "reading"} => ~Readable(down)
        /\ conn["server"].segments_out = << >> /\ buffer_empty(inbound_stream(conn["server"]))
        /\ Alive \/ conn["server"].active
        /\ conn' = IF conn["server"].active /\ sc.peer # "silent"
                   THEN [conn EXCEPT !["server"] = connection_tick(@, 1)] ELSE conn
        /\ thread' = IF Alive THEN [thread EXCEPT !.at = "timeout", !.loop = polled.loop] ELSE thread
        /\ UNCHANGED <<net, lost, duplicated, sc, up, down, fd_closed, abort, owner>>

TCPThread == LoopTop \/ LoopPoll \/ LoopServe \/ LoopTimeout \/ LoopExit
Owner == \/ CopyWait \/ CopyServe \/ WaitUntilClosed
         \/ WebgetWrite \/ WebgetRead \/ WebgetClose \/ Destruct \/ Join
Users == Type \/ PeerReset \/ PeerApplication \/ Owner
Machines == TCPThread \/ (\E p \in Peers : Unread(p)) \/ PeerLoop \/ Time

SocketNext == Users \/ Machines

allVars == <<vars, socketVars>>
SocketSpec == SocketInit /\ [][SocketNext]_allVars

\* The machines do not stand still while there is something to do, and
\* neither do the programs: the owner's thread is scheduled, the user types
\* on and ends the input, the peer's application writes and closes.  (This is
\* only assumed where OwnerReturns needs it: webget closes the descriptor
\* before it joins, unless it quits.)
Joins == sc.program = "copy" \/ sc.quits
SocketFairness == WF_allVars(Joins /\ Machines) /\ WF_allVars(Joins /\ Users)

FairSocketSpec == SocketSpec /\ SocketFairness

-----------------------------------------------------------------------------
(* Properties *)

\* A copy that is not interrupted, with a peer that answers.
PlainCopy == sc.program = "copy" /\ ~sc.quits /\ sc.peer = "answers"

\* Everything typed has arrived, everything sent has been printed, and both
\* connections have ended without an error.
Copied == /\ Len(owner.copy.output) = sc.answer
          /\ bytes_read(inbound_stream(conn["server"])) = sc.request
          /\ \A p \in Peers : ~conn[p].active /\ ~HasError(p)

\* join() returns, wherever the TCP thread is when the owner calls it, unless
\* the owner has closed the descriptor before or the thread takes the process
\* down (ThreadDoesNotThrow says when it may).  A plain copy comes to its end
\* from the first moment on, with everything copied.
OwnerReturns ==
    PlainCopy \/ (owner.pc = "joining" /\ ~fd_closed) ~>
        IF PlainCopy THEN owner.pc = "done" /\ Copied
        ELSE owner.pc = "done" \/ thread.phase = "terminated"

\* When the TCP thread ends by itself it leaves no segment behind: the last
\* acknowledgment, or the RST of a connection it gave up, has been sent.
NothingLeftUnsent ==
    thread.phase = "ended" /\ ~abort => conn["client"].segments_out = << >>

\* What the owner reads is the peer's stream in order; an end of file that no
\* error or abort explains comes after the last byte.
EofMeansWhole ==
    LET got == owner.copy.output \o owner.copy.inbound.buffer
    IN  /\ \A i \in DOMAIN got : got[i] = i - 1
        /\ owner.copy.socket_eof /\ ~HasError("client") /\ ~abort =>
               Len(got) = sc.answer

\* The TCP thread throws (a short write into the connection, a busy wait, a
\* write to a closed pipe) in two cases only: the owner has closed the
\* descriptor, or a reset has met bytes that the pipe to the owner has no room
\* for.  Rule 3 then shuts the pipe after its partial write, because the
\* stream has an error, keeps its interest, because the stream has bytes, and
\* writes the rest into the shut pipe.
ThreadDoesNotThrow ==
    LET inbound == inbound_stream(conn["client"])
    IN  thread.phase = "terminated" =>
            fd_closed \/ (thread.inbound_shutdown /\ inbound.error /\ ~buffer_empty(inbound))

\* As the class comment has it: a connection that is open when the socket is
\* destructed is terminated with a RST, which is not left in the queue.
DestructSendsRST ==
    thread.phase = "ended" => \A i \in DOMAIN conn["client"].segments_out :
                                  ~conn["client"].segments_out[i].rst

=============================================================================
