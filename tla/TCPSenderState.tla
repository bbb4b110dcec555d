--------------------------- MODULE TCPSenderState ---------------------------
(***************************************************************************)
(* What the fields of a TCPSender have to do with each other, as           *)
(* predicates on the record, for whoever holds a sender.                   *)
(*                                                                         *)
(* The byte at position i of the outgoing stream is represented by i, so   *)
(* that a segment's payload tells which bytes it carries.                  *)
(***************************************************************************)
EXTENDS TCPSender

\* The next n bytes of the application's data.
NextBytes(bs, n) == [i \in 1 .. n |-> bs.written + i - 1]

\* The absolute sequence number after the k-th tracked segment.
TrackedUpTo(s, k) == s.next_ackno + SequenceSpace(s.tracking)[k]

WellTyped(s) == /\ s \in TCPSenderType
                /\ buffer_size(s.stream) <= s.stream.capacity
                /\ buffer_size(s.stream) <= bytes_written(s.stream)

Tiled(s) ==
    /\ TrackedUpTo(s, Len(s.tracking)) = s.next_seqno
    /\ bytes_in_flight(s) = s.next_seqno - s.next_ackno
    /\ \A k \in 1 .. Len(s.tracking) :
          /\ s.tracking[k].seqno = wrap(TrackedUpTo(s, k - 1), s.isn)
          /\ s.tracking[k].ackno = wrap(TrackedUpTo(s, k), s.isn)
          /\ length_in_sequence_space(s.tracking[k]) > 0

Bounded(s) == s.next_seqno - s.next_ackno <= TwoTo16

\* At each sequence number a segment carries the byte that belongs there, and
\* none that is still in the stream.
Carries(s, seg, start) ==
    /\ seg.syn <=> start = 0
    /\ seg.syn => seg.payload = << >> /\ ~seg.fin
    /\ \A i \in 1 .. Len(seg.payload) : seg.payload[i] = start + i - 2
    /\ start + Len(seg.payload) <= bytes_read(s.stream) + 1
    /\ seg.fin => /\ eof(s.stream)
                  /\ start + Len(seg.payload) = bytes_written(s.stream) + 1

ContentOK(s) ==
    /\ \A k \in 1 .. Len(s.tracking) : Carries(s, s.tracking[k], TrackedUpTo(s, k - 1))
    /\ \A i \in 1 .. buffer_size(s.stream) : s.stream.buffer[i] = bytes_read(s.stream) + i - 1

Accounted(s) ==
    \/ s.next_seqno = 0 /\ bytes_read(s.stream) = 0
    \/ s.next_seqno = bytes_read(s.stream) + 1
    \/ s.next_seqno = bytes_read(s.stream) + 2 /\ eof(s.stream)

TimerOK(s) ==
    /\ bytes_in_flight(s) = 0 => s.timer = 0
    /\ s.timer < s.retransmission_timeout
    /\ consecutive_retransmissions(s) = 0 => s.retransmission_timeout = RtTimeout
=============================================================================
