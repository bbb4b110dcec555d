------------------------------ MODULE TCPState ------------------------------
(***************************************************************************)
(* The "official" state of a connection (tcp_helpers/tcp_state.cc): a      *)
(* summary of the sender, one of the receiver, and the two bits of         *)
(* TCPConnection.  The socket decides on it when connect() and             *)
(* listen_and_accept() return.                                             *)
(***************************************************************************)
EXTENDS TCPConnection

receiver_summary(v) ==
    IF stream_out(v).error THEN "ERROR"
    ELSE IF ~has_ackno(v) THEN "LISTEN"
    ELSE IF stream_out(v).ended THEN "FIN_RECV"
    ELSE "SYN_RECV"

sender_summary(s) ==
    IF s.stream.error THEN "ERROR"
    ELSE IF next_seqno_absolute(s) = 0 THEN "CLOSED"
    ELSE IF next_seqno_absolute(s) = bytes_in_flight(s) THEN "SYN_SENT"
    ELSE IF ~eof(s.stream) \/ next_seqno_absolute(s) < bytes_written(s.stream) + 2
         THEN "SYN_ACKED"
    ELSE IF bytes_in_flight(s) > 0 THEN "FIN_SENT"
    ELSE "FIN_ACKED"

Summary(receiver, sender, linger, active) ==
    [receiver |-> receiver, sender |-> sender, linger |-> linger, active |-> active]

\* TCPConnection::state(): the linger bit of an ended connection does not count.
state(c) == Summary(receiver_summary(c.receiver), sender_summary(c.sender),
                    c.active /\ c.linger, c.active)

Official ==
    [LISTEN      |-> Summary("LISTEN",   "CLOSED",    TRUE,  TRUE),
     SYN_RCVD    |-> Summary("SYN_RECV", "SYN_SENT",  TRUE,  TRUE),
     SYN_SENT    |-> Summary("LISTEN",   "SYN_SENT",  TRUE,  TRUE),
     ESTABLISHED |-> Summary("SYN_RECV", "SYN_ACKED", TRUE,  TRUE),
     CLOSE_WAIT  |-> Summary("FIN_RECV", "SYN_ACKED", FALSE, TRUE),
     LAST_ACK    |-> Summary("FIN_RECV", "FIN_SENT",  FALSE, TRUE),
     CLOSING     |-> Summary("FIN_RECV", "FIN_SENT",  TRUE,  TRUE),
     FIN_WAIT_1  |-> Summary("SYN_RECV", "FIN_SENT",  TRUE,  TRUE),
     FIN_WAIT_2  |-> Summary("SYN_RECV", "FIN_ACKED", TRUE,  TRUE),
     TIME_WAIT   |-> Summary("FIN_RECV", "FIN_ACKED", TRUE,  TRUE),
     RESET       |-> Summary("ERROR",    "ERROR",     FALSE, FALSE),
     CLOSED      |-> Summary("FIN_RECV", "FIN_ACKED", FALSE, FALSE)]
=============================================================================
