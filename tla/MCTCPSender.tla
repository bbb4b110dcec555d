---------------------------- MODULE MCTCPSender -----------------------------
(***************************************************************************)
(* Model-checking of TCPSenderSpec on a small ring, and of the closed form *)
(* TCPSender uses for fill_window()'s loop against the loop itself.        *)
(***************************************************************************)
EXTENDS TCPSenderSpec

\* One iteration of the while loop, statement by statement.
Iterate(s) ==
    LET room == RightEdge(s) - s.next_seqno
        readSize == MinOf(IF room > buffer_size(s.stream) THEN buffer_size(s.stream)
                          ELSE room, MaxPayload)
        stream == stream_read(s.stream, readSize)
        fin == s.remain_window_size > readSize /\ eof(stream)
        bare == [EmptySegment EXCEPT !.payload = peek_output(s.stream, readSize),
                                     !.seqno = next_seqno(s), !.fin = fin, !.ack = fin]
        len == length_in_sequence_space(bare)
        seg == [bare EXCEPT !.ackno = wrap(bare.seqno + len, 0)]
    IN  [s EXCEPT !.stream = stream, !.segments_out = Append(@, seg),
                  !.tracking = Append(@, seg), !.next_seqno = @ + len,
                  !.tracked_count = @ + len,
                  !.remain_window_size = IF @ # s.window_size THEN 0 ELSE @]

RECURSIVE Loop(_)
Loop(s) == IF CanSend(s) THEN Loop(Iterate(s)) ELSE s

\* In every state, and whatever is left of the window, the closed form SendData
\* computes what running the loop of fill_window() (tcp_sender.cc:51-80) to its
\* end computes.
ClosedFormIsLoop ==
    current_state(sender) \notin {"Closed", "SynSent"} =>
        \A remain \in Window :
            LET s == [sender EXCEPT !.remain_window_size = remain]
            IN  fill_window(s) = Loop(s)
=============================================================================
