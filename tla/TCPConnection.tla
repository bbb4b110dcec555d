--------------------------- MODULE TCPConnection ----------------------------
(***************************************************************************)
(* A TCP connection (libsponge/tcp_connection.cc) as a data type: a sender *)
(* and a receiver, the segments waiting to be sent, and the rules for      *)
(* answering segments and for ending the connection.  Each operator is a   *)
(* whole method, the calls it makes on the sender and receiver included.   *)
(***************************************************************************)
EXTENDS TCPSender, TCPReceiver, Calls

CONSTANTS MaxRetxAttempts,  \* TCPConfig::MAX_RETX_ATTEMPTS
          LingerFactor      \* the 10 of "10 * _cfg.rt_timeout"

ASSUME ConnectionAssumption ==
    MaxRetxAttempts \in Nat /\ LingerFactor \in Nat \ {0}

LingerTime == LingerFactor * RtTimeout

NewTCPConnection(isn) ==
    [sender |-> NewTCPSender(isn), receiver |-> NewTCPReceiver,
     segments_out |-> << >>, linger |-> TRUE, active |-> TRUE,
     time_since_last_segment |-> 0]

inbound_stream(c) == stream_out(c.receiver)
outbound_stream(c) == c.sender.stream

\* Every segment leaves with the receiver's ackno and window, once it has an
\* ackno.  The window is a size_t cut down to the header's 16 bits.
Stamp(v, seg) ==
    IF has_ackno(v)
    THEN [seg EXCEPT !.ack = TRUE, !.ackno = receiver_ackno(v),
                     !.win = window_size(v) % TwoTo16]
    ELSE seg

move_to_segments_out(c) ==
    [c EXCEPT
        !.segments_out = @ \o [i \in DOMAIN c.sender.segments_out |->
                                  Stamp(c.receiver, c.sender.segments_out[i])],
        !.sender.segments_out = << >>]

\* A mutant: unacknowledged segments do not keep the connection alive.
is_satisfied_prereq_IgnoresFlight(c) ==
    /\ unassembled_bytes(c.receiver.reassembler) = 0 /\ eof(inbound_stream(c))
    /\ eof(outbound_stream(c))

\* The prerequisites of a clean shutdown.
is_satisfied_prereq(c) ==
    /\ unassembled_bytes(c.receiver.reassembler) = 0 /\ eof(inbound_stream(c))
    /\ eof(outbound_stream(c)) /\ bytes_in_flight(c.sender) = 0

fin_sent(c) ==
    /\ eof(outbound_stream(c))
    /\ c.sender.next_seqno = bytes_written(outbound_stream(c)) + 2

\* What a RST, received or about to be sent, does to both streams.
SetErrors(c) ==
    [c EXCEPT !.active = FALSE, !.sender.stream = set_error(@),
              !.receiver.reassembler.output = set_error(@)]

-----------------------------------------------------------------------------

connect(c) ==
    Then([c EXCEPT !.sender = fill_window(@)], move_to_segments_out)

connection_write(c, data) ==
    Then([c EXCEPT !.sender.stream = stream_write(@, data)], connect)

end_input_stream(c) ==
    Then([c EXCEPT !.sender.stream = end_input(@)], connect)

\* segment_received(), first part: the receiver, and RST.  The rest runs for
\* a RST segment too.
TakeSegment(c, seg) ==
    LET got == [c EXCEPT !.time_since_last_segment = 0,
                         !.receiver = receiver_segment_received(@, seg)]
    IN  IF seg.rst THEN SetErrors(got) ELSE got

\* Second part: the acknowledgment, unless we have not sent a SYN ourselves.
TakeAck(c, seg) ==
    IF next_seqno_absolute(c.sender) # 0 /\ seg.ack
    THEN Then([c EXCEPT !.sender = ack_received(@, seg.ackno, seg.win)], connect)
    ELSE c

\* A mutant: no empty segment is made up for an acknowledgment.
Answer_NeverEmpty(c) == move_to_segments_out(c)

\* Third part: a segment that takes up sequence numbers is answered, with an
\* empty segment if nothing else is waiting to be sent.
Answer(c) ==
    Then(IF c.segments_out = << >> THEN [c EXCEPT !.sender = send_empty_segment(@)] ELSE c,
         move_to_segments_out)

\* A mutant: no lingering whenever the peer's stream has ended.
CheckClose_NeverLingers(c) ==
    LET linger == c.linger /\ ~eof(inbound_stream(c))
    IN  [c EXCEPT !.linger = linger,
                  !.active = @ /\ ~(~linger /\ is_satisfied_prereq(c))]

\* Last part: the peer ended first, so there is no need to linger; and the
\* passive close.
CheckClose(c) ==
    LET linger == c.linger /\ ~(eof(inbound_stream(c)) /\ ~fin_sent(c))
    IN  [c EXCEPT !.linger = linger,
                  !.active = @ /\ ~(~linger /\ is_satisfied_prereq(c))]

Respond(c, seg) ==
    IF length_in_sequence_space(seg) = 0 THEN CheckClose(c)
    ELSE IF next_seqno_absolute(c.sender) = 0 THEN connect(c)
    ELSE Then(Answer(c), CheckClose)

segment_received(c, seg) ==
    Then(Then(TakeSegment(c, seg), LAMBDA d : TakeAck(d, seg)), LAMBDA d : Respond(d, seg))

\* The clock: the sender's timer, the active close, and giving up, which
\* queues a RST and leaves without moving the sender's segments.  The time
\* since the last segment is only ever compared with LingerTime, where the
\* model lets it saturate.
AdvanceClock(c, ms) ==
    [c EXCEPT !.sender = sender_tick(@, ms),
              !.time_since_last_segment = MinOf(@ + ms, LingerTime)]

AfterTick(c) ==
    LET active == c.active /\ ~(c.time_since_last_segment >= LingerTime /\ is_satisfied_prereq(c))
    IN  IF consecutive_retransmissions(c.sender) > MaxRetxAttempts
        THEN [SetErrors(c) EXCEPT
                 !.segments_out = Append(@, [EmptySegment EXCEPT !.rst = TRUE]),
                 !.linger = FALSE]
        ELSE move_to_segments_out([c EXCEPT !.active = active])

connection_tick(c, ms) == Then(AdvanceClock(c, ms), AfterTick)
=============================================================================
