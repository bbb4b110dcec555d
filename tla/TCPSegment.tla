----------------------------- MODULE TCPSegment -----------------------------
(***************************************************************************)
(* Segments (libsponge/tcp_helpers/tcp_segment.cc, tcp_header.hh): the     *)
(* header fields the protocol logic reads, and a payload of bytes.  Ports, *)
(* data offset, checksum and urgent pointer play no part above the codec.  *)
(***************************************************************************)
EXTENDS WrappingIntegers, Sequences

\* TCPSegment(): every field value-initialised.
EmptySegment ==
    [seqno |-> 0, ackno |-> 0, ack |-> FALSE, rst |-> FALSE, syn |-> FALSE,
     fin |-> FALSE, win |-> 0, payload |-> << >>]

SegmentType(Byte, Window) ==
    [seqno: WrappingInt32, ackno: WrappingInt32, ack: BOOLEAN, rst: BOOLEAN,
     syn: BOOLEAN, fin: BOOLEAN, win: Window, payload: Seq(Byte)]

length_in_sequence_space(seg) ==
    Len(seg.payload) + (IF seg.syn THEN 1 ELSE 0) + (IF seg.fin THEN 1 ELSE 0)

\* The running totals of sequence-space length over a list of segments:
\* SequenceSpace(segs)[k] is what the first k of them occupy.
SequenceSpace(segs) ==
    LET total[k \in 0 .. Len(segs)] ==
            IF k = 0 THEN 0
            ELSE total[k - 1] + length_in_sequence_space(segs[k])
    IN  total
=============================================================================
