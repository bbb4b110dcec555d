---------------------------- MODULE TCPReceiver -----------------------------
(***************************************************************************)
(* The receiving half of a TCP connection (libsponge/tcp_receiver.cc) as a *)
(* data type.  Its peers are senders whose non-SYN segments start at       *)
(* absolute sequence number 1 or later, so unwrap(...) - 1 is never        *)
(* negative for a segment that has a payload or a FIN.                     *)
(***************************************************************************)
EXTENDS TCPSegment, StreamReassembler

CONSTANT RecvCapacity

ASSUME RecvCapacityAssumption == RecvCapacity \in Nat \ {0}

NewTCPReceiver ==
    [have_SYN |-> FALSE, have_FIN |-> FALSE, icn |-> 0,
     reassembler |-> NewStreamReassembler(RecvCapacity)]

stream_out(v) == v.reassembler.output

\* A mutant: the SYN is counted in its own segment only.
Receive_SynNotCounted(v, seg, seqno) ==
    LET index == unwrap(seqno, v.icn, bytes_written(stream_out(v))) - (IF seg.syn THEN 1 ELSE 0)
        pushed == push_substring(v.reassembler, seg.payload, index, seg.fin)
        haveFin == v.have_FIN \/ seg.fin
    IN  [v EXCEPT
            !.have_FIN = haveFin,
            !.reassembler = IF haveFin /\ reassembler_empty(pushed)
                            THEN [pushed EXCEPT !.output = end_input(@)]
                            ELSE pushed]

\* A mutant: what arrives is taken to be what comes next.
Receive_IgnoresSeqno(v, seg, seqno) ==
    LET index == bytes_written(stream_out(v))
        pushed == push_substring(v.reassembler, seg.payload, index, seg.fin)
        haveFin == v.have_FIN \/ seg.fin
    IN  [v EXCEPT
            !.have_FIN = haveFin,
            !.reassembler = IF haveFin /\ reassembler_empty(pushed)
                            THEN [pushed EXCEPT !.output = end_input(@)]
                            ELSE pushed]

\* A mutant: the output is ended whenever nothing is staged.
Receive_EndsWhenEmpty(v, seg, seqno) ==
    LET index == unwrap(seqno, v.icn, bytes_written(stream_out(v))) - 1
        pushed == push_substring(v.reassembler, seg.payload, index, seg.fin)
    IN  [v EXCEPT
            !.have_FIN = v.have_FIN \/ seg.fin,
            !.reassembler = IF reassembler_empty(pushed)
                            THEN [pushed EXCEPT !.output = end_input(@)]
                            ELSE pushed]

\* The payload goes to the reassembler.  Then, on every segment: once a FIN
\* has been seen and nothing is staged, the output is ended.
Receive(v, seg, seqno) ==
    LET index == unwrap(seqno, v.icn, bytes_written(stream_out(v))) - 1
        pushed == push_substring(v.reassembler, seg.payload, index, seg.fin)
        haveFin == v.have_FIN \/ seg.fin
    IN  [v EXCEPT
            !.have_FIN = haveFin,
            !.reassembler = IF haveFin /\ reassembler_empty(pushed)
                            THEN [pushed EXCEPT !.output = end_input(@)]
                            ELSE pushed]

\* Nothing counts before the SYN, which sets _icn; a SYN segment's own
\* payload starts one after it; a repeated SYN segment is ignored whole.
receiver_segment_received(v, seg) ==
    IF ~v.have_SYN
    THEN IF seg.syn
         THEN Receive([v EXCEPT !.have_SYN = TRUE, !.icn = seg.seqno], seg, wrap(1, seg.seqno))
         ELSE v
    ELSE IF seg.syn THEN v ELSE Receive(v, seg, seg.seqno)

\* ackno() is empty until the SYN has come; AckAbsolute is its value before
\* wrapping.
has_ackno(v) == v.have_SYN

\* A mutant: the FIN is never acknowledged.
AckAbsolute_NoFin(v) == bytes_written(stream_out(v)) + 1

\* A mutant: staged bytes are acknowledged.
AckAbsolute_CountsStaged(v) ==
    bytes_written(stream_out(v)) + unassembled_bytes(v.reassembler)
        + (IF v.have_FIN /\ stream_out(v).ended THEN 2 ELSE 1)

AckAbsolute(v) ==
    bytes_written(stream_out(v)) + (IF v.have_FIN /\ stream_out(v).ended THEN 2 ELSE 1)
receiver_ackno(v) == wrap(AckAbsolute(v), v.icn)

\* A mutant: staged bytes shrink the window.
window_size_CountsStaged(v) ==
    RecvCapacity - (bytes_written(stream_out(v)) - bytes_read(stream_out(v)))
        - unassembled_bytes(v.reassembler)

window_size(v) ==
    RecvCapacity - (bytes_written(stream_out(v)) - bytes_read(stream_out(v)))
=============================================================================
