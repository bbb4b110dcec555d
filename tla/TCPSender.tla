----------------------------- MODULE TCPSender ------------------------------
(***************************************************************************)
(* The sending half of a TCP connection (libsponge/tcp_sender.cc) as a     *)
(* data type: a record per object, an operator per method.                 *)
(*                                                                         *)
(* tracking is _tracking_segments, oldest segment first (the code's list   *)
(* is kept latest first, push_front here is an append).  A tracked         *)
(* segment's header().ackno holds the sequence number after its last byte: *)
(* ack_received() matches an acknowledgment against it.                    *)
(***************************************************************************)
EXTENDS TCPSegment, ByteStream

CONSTANTS MaxPayload,    \* TCPConfig::MAX_PAYLOAD_SIZE
          TwoTo16,       \* one more than the largest uint16_t window
          SendCapacity,  \* capacity of the outgoing stream
          RtTimeout      \* the initial retransmission timeout

ASSUME SenderAssumption ==
    /\ MaxPayload \in Nat \ {0}
    /\ TwoTo16 \in Nat \ {0, 1}
    /\ SendCapacity \in Nat
    /\ RtTimeout \in Nat \ {0}
    /\ TwoTo32 > 2 * TwoTo16   \* a window is less than half the ring

Window == 0 .. TwoTo16 - 1
Segment == SegmentType(Nat, Window)

NewTCPSender(isn) ==
    [isn |-> isn, segments_out |-> << >>, stream |-> NewByteStream(SendCapacity),
     next_seqno |-> 0, next_ackno |-> 0, tracking |-> << >>, tracked_count |-> 0,
     timer |-> 0, retransmission_timeout |-> RtTimeout, window_size |-> 1,
     remain_window_size |-> 1, time_out_count |-> 0]

TCPSenderType ==
    [isn: WrappingInt32, segments_out: Seq(Segment), stream: ByteStreamType(Nat),
     next_seqno: Nat, next_ackno: Nat, tracking: Seq(Segment), tracked_count: Nat,
     timer: Nat, retransmission_timeout: Nat, window_size: Window,
     remain_window_size: Window, time_out_count: Nat]

bytes_in_flight(s) == s.tracked_count
consecutive_retransmissions(s) == s.time_out_count
next_seqno_absolute(s) == s.next_seqno
next_seqno(s) == wrap(s.next_seqno, s.isn)

current_state(s) ==
    LET finSeqno == bytes_written(s.stream) + 2
    IN  IF s.next_seqno = 0 THEN "Closed"
        ELSE IF s.next_seqno = bytes_in_flight(s) THEN "SynSent"
        ELSE IF s.next_seqno > bytes_in_flight(s) /\ ~eof(s.stream) THEN "SynAcked"
        ELSE IF eof(s.stream) /\ s.next_seqno < finSeqno THEN "SynAckedEof"
        ELSE IF eof(s.stream) /\ s.next_seqno = finSeqno /\ bytes_in_flight(s) > 0
             THEN "FinSent"
        ELSE IF eof(s.stream) /\ s.next_seqno = finSeqno /\ bytes_in_flight(s) = 0
             THEN "FinAcked"
        ELSE "Closed"

-----------------------------------------------------------------------------
(* fill_window() *)

\* The case Closed: the SYN.
SendSyn(s) ==
    LET syn == [EmptySegment EXCEPT !.seqno = s.isn, !.syn = TRUE,
                                    !.ackno = wrap(s.next_seqno + 1, s.isn)]
    IN  [s EXCEPT !.next_seqno = @ + 1, !.segments_out = Append(@, syn),
                  !.tracking = Append(@, syn), !.tracked_count = @ + 1, !.timer = 0]

\* The right edge the loop condition compares with, and the room left of it.
RightEdge(s) == s.next_ackno + s.remain_window_size

\* A mutant: the FIN is sent again whenever the stream is at eof.
CanSend_FinAgain(s) == /\ RightEdge(s) > s.next_seqno
                       /\ ~buffer_empty(s.stream) \/ eof(s.stream)

\* The while condition, on entry.
CanSend(s) == /\ RightEdge(s) > s.next_seqno
              /\ ~buffer_empty(s.stream) \/ current_state(s) = "SynAckedEof"

\* A mutant: a probe may be more than one segment.
ReadTotal_LongProbe(s) == MinOf(RightEdge(s) - s.next_seqno, buffer_size(s.stream))

\* A mutant: everything buffered is sent once there is any room.
ReadTotal_IgnoresWindow(s) == buffer_size(s.stream)

\* What the loop reads from the stream in all: as much as the window and the
\* buffer allow, but a single segment's worth when _remain_window_size is not
\* _window_size, because the first iteration then sets it to 0.
ReadTotal(s) ==
    LET fits == MinOf(RightEdge(s) - s.next_seqno, buffer_size(s.stream))
    IN  IF s.remain_window_size = s.window_size THEN fits ELSE MinOf(fits, MaxPayload)

\* The number of iterations: full segments and a last, shorter or equal one;
\* a lone FIN takes one.
Iterations(s) ==
    IF ReadTotal(s) = 0 THEN 1 ELSE ((ReadTotal(s) - 1) \div MaxPayload) + 1

\* read_size of the i-th iteration ends after this many bytes.
ReadUpTo(s, i) == MinOf(i * MaxPayload, ReadTotal(s))

\* A mutant: FIN as soon as the buffer is drained, before the input has ended.
SetsFin_BeforeEnd(s, i) ==
    /\ i = Iterations(s)
    /\ ReadTotal(s) = buffer_size(s.stream)
    /\ s.remain_window_size > ReadUpTo(s, i) - ReadUpTo(s, i - 1)

\* The FIN condition of line 66: the iteration drained an ended stream and
\* the whole window (not what is left of it) exceeds its read_size.
SetsFin(s, i) ==
    /\ i = Iterations(s)
    /\ s.stream.ended /\ ReadTotal(s) = buffer_size(s.stream)
    /\ s.remain_window_size > ReadUpTo(s, i) - ReadUpTo(s, i - 1)

FinLength(s) == IF SetsFin(s, Iterations(s)) THEN 1 ELSE 0

\* The segment of the i-th iteration.
NthSegment(s, i) ==
    [EmptySegment EXCEPT
        !.payload = SubSeq(s.stream.buffer, ReadUpTo(s, i - 1) + 1, ReadUpTo(s, i)),
        !.seqno = wrap(s.next_seqno + ReadUpTo(s, i - 1), s.isn),
        !.fin = SetsFin(s, i),
        !.ack = SetsFin(s, i),
        !.ackno = wrap(s.next_seqno + ReadUpTo(s, i) + (IF SetsFin(s, i) THEN 1 ELSE 0),
                       s.isn)]

NewSegments(s) == [i \in 1 .. Iterations(s) |-> NthSegment(s, i)]

\* A mutant: _remain_window_size is counted down, FIN included.
SendData_CountsDown(s) ==
    LET sent == ReadTotal(s) + FinLength(s)
    IN  [s EXCEPT !.stream = stream_read(@, ReadTotal(s)),
                  !.segments_out = @ \o NewSegments(s),
                  !.tracking = @ \o NewSegments(s),
                  !.next_seqno = @ + sent,
                  !.tracked_count = @ + sent,
                  !.remain_window_size = @ - sent]

\* The default case: all iterations of the loop.
SendData(s) ==
    LET sent == ReadTotal(s) + FinLength(s)
    IN  [s EXCEPT !.stream = stream_read(@, ReadTotal(s)),
                  !.segments_out = @ \o NewSegments(s),
                  !.tracking = @ \o NewSegments(s),
                  !.next_seqno = @ + sent,
                  !.tracked_count = @ + sent,
                  !.remain_window_size = IF @ = s.window_size THEN @ ELSE 0]

fill_window(s) ==
    IF current_state(s) = "Closed" THEN SendSyn(s)
    ELSE IF current_state(s) # "SynSent" /\ CanSend(s) THEN SendData(s)
    ELSE s

-----------------------------------------------------------------------------
(* ack_received() *)

\* The position of the latest tracked segment that ends at ackno; 0 if none.
Acknowledged(s, ackno) ==
    LET ends == {i \in DOMAIN s.tracking : s.tracking[i].ackno = ackno}
    IN  IF ends = {} THEN 0 ELSE CHOOSE m \in ends : \A i \in ends : m >= i

\* A mutant: the acknowledged segment itself stays.
StillTracked_KeepsAcked(s, ackno) ==
    SubSeq(s.tracking, IF Acknowledged(s, ackno) = 0 THEN 1 ELSE Acknowledged(s, ackno),
           Len(s.tracking))

\* The segments left after everything up to the acknowledged one is erased.
StillTracked(s, ackno) ==
    SubSeq(s.tracking, Acknowledged(s, ackno) + 1, Len(s.tracking))

AckInWindow(s, ackno) ==
    unwrap(ackno, s.isn, s.next_ackno) \in s.next_ackno .. s.next_seqno

\* A mutant: the timer keeps running through an acknowledgment.
ApplyAck_KeepsTimer(s, ackno, win) ==
    LET matched == Acknowledged(s, ackno) # 0
        abs == unwrap(ackno, s.isn, s.next_ackno)
    IN  [s EXCEPT
            !.window_size = IF AckInWindow(s, ackno) THEN win ELSE @,
            !.tracking = StillTracked(s, ackno),
            !.next_ackno = IF matched /\ abs > @ THEN abs ELSE @,
            !.time_out_count = IF matched THEN 0 ELSE @,
            !.retransmission_timeout = IF matched THEN RtTimeout ELSE @]

\* A mutant: an acknowledgment inside a segment moves the edge too.
ApplyAck_Unmatched(s, ackno, win) ==
    LET matched == Acknowledged(s, ackno) # 0
    IN  [s EXCEPT
            !.window_size = IF AckInWindow(s, ackno) THEN win ELSE @,
            !.tracking = StillTracked(s, ackno),
            !.next_ackno = IF AckInWindow(s, ackno)
                           THEN unwrap(ackno, s.isn, s.next_ackno) ELSE @,
            !.time_out_count = IF matched THEN 0 ELSE @,
            !.timer = IF matched THEN 0 ELSE @,
            !.retransmission_timeout = IF matched THEN RtTimeout ELSE @]

\* The first half: the advertised window, and the list scan.
ApplyAck(s, ackno, win) ==
    LET matched == Acknowledged(s, ackno) # 0
        abs == unwrap(ackno, s.isn, s.next_ackno)
    IN  [s EXCEPT
            !.window_size = IF AckInWindow(s, ackno) THEN win ELSE @,
            !.tracking = StillTracked(s, ackno),
            !.next_ackno = IF matched /\ abs > @ THEN abs ELSE @,
            !.time_out_count = IF matched THEN 0 ELSE @,
            !.timer = IF matched THEN 0 ELSE @,
            !.retransmission_timeout = IF matched THEN RtTimeout ELSE @]

\* The early return: nothing was acknowledged, and ackno lies past the start
\* of the oldest tracked segment, as raw 32-bit values.
StopsEarly(s, ackno, left) ==
    /\ s.tracked_count = left
    /\ StillTracked(s, ackno) # << >>
    /\ StillTracked(s, ackno)[1].seqno < ackno

ack_received(s, ackno, win) ==
    LET rest == StillTracked(s, ackno)
        left == SequenceSpace(rest)[Len(rest)]
        acked == ApplyAck(s, ackno, win)
    IN  IF StopsEarly(s, ackno, left)
        THEN acked
        ELSE [acked EXCEPT
                 !.tracked_count = left,
                 !.remain_window_size =
                     IF acked.window_size = 0 /\ left = 0 THEN 1 ELSE acked.window_size]

-----------------------------------------------------------------------------
(* tick() and send_empty_segment() *)

\* A mutant: the latest segment is sent again instead of the oldest.
sender_tick_Latest(s, ms) ==
    LET timer == s.timer + (IF bytes_in_flight(s) # 0 THEN ms ELSE 0)
    IN  IF timer >= s.retransmission_timeout /\ bytes_in_flight(s) # 0
        THEN [s EXCEPT
                 !.segments_out = Append(@, s.tracking[Len(s.tracking)]),
                 !.timer = 0,
                 !.retransmission_timeout = IF s.window_size # 0 THEN @ + @ ELSE @,
                 !.time_out_count = @ + 1]
        ELSE [s EXCEPT !.timer = timer]

sender_tick(s, ms) ==
    LET timer == s.timer + (IF bytes_in_flight(s) # 0 THEN ms ELSE 0)
    IN  IF timer >= s.retransmission_timeout /\ bytes_in_flight(s) # 0
        THEN [s EXCEPT
                 !.segments_out = Append(@, s.tracking[1]),
                 !.timer = 0,
                 !.retransmission_timeout = IF s.window_size # 0 THEN @ + @ ELSE @,
                 !.time_out_count = @ + 1]
        ELSE [s EXCEPT !.timer = timer]

\* The segment holds no sequence numbers and is not tracked.
send_empty_segment(s) ==
    [s EXCEPT !.segments_out =
        Append(@, [EmptySegment EXCEPT !.seqno = next_seqno(s), !.ackno = next_seqno(s)])]
=============================================================================
