-------------------------- MODULE TCPReceiverSpec ---------------------------
(***************************************************************************)
(* A TCPReceiver fed with the segments of one stream of StreamLength bytes *)
(* (byte i is represented by i), in any order, duplicated and overlapping, *)
(* as a network that loses, repeats and reorders segments delivers them.   *)
(***************************************************************************)
EXTENDS TCPReceiver

CONSTANTS PeerISN, StreamLength,
          SynPayload,    \* how many bytes the peer's SYN segment carries
          FinOvertakes   \* may a FIN arrive before a byte that precedes it?

ASSUME ReceiverSpecAssumption ==
    /\ PeerISN \in WrappingInt32
    /\ StreamLength \in Nat /\ SynPayload \in 0 .. StreamLength
    /\ FinOvertakes \in BOOLEAN

VARIABLES receiver,
          arrived     \* the absolute sequence numbers that have reached the receiver

vars == <<receiver, arrived>>

Init == receiver = NewTCPReceiver /\ arrived = {}

\* The sequence numbers of the stream: SYN 0, byte i at i + 1, then FIN.
FinSeqno == StreamLength + 1

\* The segment that starts at absolute sequence number first, carries the
\* len bytes from there on, and has the SYN exactly when it starts at 0.
PeerSegment(first, len, fin) ==
    [EmptySegment EXCEPT
        !.seqno = wrap(first, PeerISN), !.syn = (first = 0), !.fin = fin,
        !.payload = [i \in 1 .. len |-> (IF first = 0 THEN 0 ELSE first - 1) + i - 1]]

\* No segment is older, or further ahead, than half the sequence space: the
\* lifetime of segments in the network is bounded.  The stream itself may go
\* round the sequence space any number of times.
Recent(first) == 2 * Distance(first, bytes_written(stream_out(receiver))) < TwoTo32

\* The data a segment carries fits the window the peer has been told
\* (TCPSenderSpec!DataWithinWindow).
WithinWindow(last) ==
    last <= bytes_read(stream_out(receiver)) + RecvCapacity

SegmentReceived(first, len, fin) ==
    LET seg == PeerSegment(first, len, fin)
        next == first + length_in_sequence_space(seg)   \* the number after it
    IN  /\ first = 0 => len = SynPayload /\ ~fin
        /\ Recent(first)
        /\ next <= FinSeqno + 1
        /\ fin = (next = FinSeqno + 1)
        /\ len > 0 => WithinWindow(next - 1 - (IF fin THEN 1 ELSE 0))
        /\ fin /\ ~FinOvertakes => receiver.have_SYN /\ first <= AckAbsolute(receiver)
        /\ receiver' = receiver_segment_received(receiver, seg)
        /\ arrived' = IF receiver.have_SYN \/ seg.syn
                      THEN arrived \cup (first .. next - 1) ELSE arrived

\* The application reads.
Read(n) == /\ n <= buffer_size(stream_out(receiver))
           /\ receiver' = [receiver EXCEPT !.reassembler.output = stream_read(@, n)]
           /\ UNCHANGED arrived

Next == \/ \E first \in 0 .. FinSeqno, len \in 0 .. StreamLength, fin \in BOOLEAN :
              SegmentReceived(first, len, fin)
        \/ \E n \in 1 .. RecvCapacity : Read(n)

Spec == Init /\ [][Next]_vars

-----------------------------------------------------------------------------

\* Through wrapping and unwrapping, every byte reaches its own position: the
\* output holds the stream's bytes in order.
DeliveredInOrder ==
    \A i \in 1 .. buffer_size(stream_out(receiver)) :
        stream_out(receiver).buffer[i] = bytes_read(stream_out(receiver)) + i - 1

\* "This is the beginning of the receiver's window, or in other words, the
\* sequence number of the first byte in the stream that the receiver hasn't
\* received" (tcp_receiver.hh:40-41), the FIN counting as received only when
\* everything before it has been.
AckIsFirstMissing ==
    has_ackno(receiver) =>
        /\ AckAbsolute(receiver) \notin arrived
        /\ 0 .. AckAbsolute(receiver) - 1 \subseteq arrived

\* The output is ended only after every byte of the stream has been written.
EofIsComplete ==
    stream_out(receiver).ended => bytes_written(stream_out(receiver)) = StreamLength

\* Wherever the stream is, unwrap reads every sequence number as a position
\* that wraps to it and than which no such position is closer to the stream's
\* (wrapping_integers.cc:28, "the 64-bit sequence number that wraps to `n`
\* and is closest to `checkpoint`").
UnwrapIsClosest ==
    LET checkpoint == bytes_written(stream_out(receiver))
    IN  \A seqno \in WrappingInt32 :
            LET abs == unwrap(seqno, receiver.icn, checkpoint)
            IN  /\ wrap(abs, receiver.icn) = seqno
                /\ \A other \in 0 .. StreamLength + TwoTo32 :
                      wrap(other, receiver.icn) = seqno
                         => Distance(abs, checkpoint) <= Distance(other, checkpoint)

\* Neither the acknowledgment nor the right edge of the window the receiver
\* advertises ever moves back, so a sender may rely on an old advertisement.
AdvertisedEdgesAdvance ==
    [][has_ackno(receiver) =>
         /\ AckAbsolute(receiver') >= AckAbsolute(receiver)
         /\ AckAbsolute(receiver') + window_size(receiver')
               >= AckAbsolute(receiver) + window_size(receiver)]_vars
=============================================================================
