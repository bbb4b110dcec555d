--------------------------- MODULE TCPSenderSpec ----------------------------
(***************************************************************************)
(* A TCPSender driven by everything that can call it, in any order: the    *)
(* application's writes and end of input, the connection's fill_window(),  *)
(* ack_received() with any acknowledgment number and window the network    *)
(* can bring, the clock, and send_empty_segment().  The caller empties     *)
(* segments_out after every call, as TCPConnection does.                   *)
(***************************************************************************)
EXTENDS TCPSenderState

CONSTANTS ISNs,        \* the initial sequence numbers explored
          MaxBytes,    \* bound: bytes the application writes in all
          TickSizes,   \* the values of ms_since_last_tick
          MaxTimeouts  \* bound: expiries in a row before the caller gives up

ASSUME SenderSpecAssumption ==
    /\ ISNs \subseteq WrappingInt32
    /\ MaxBytes \in Nat /\ MaxTimeouts \in Nat
    /\ TickSizes \subseteq Nat

VARIABLE sender

Drained == [sender EXCEPT !.segments_out = << >>]

Init == \E isn \in ISNs : sender = NewTCPSender(isn)

\* A writer that has ended its input writes no more.
Write(n) == /\ ~sender.stream.ended
            /\ sender.stream.written + n <= MaxBytes
            /\ sender' = [Drained EXCEPT !.stream = stream_write(@, NextBytes(@, n))]

EndInput == /\ ~sender.stream.ended
            /\ sender' = [Drained EXCEPT !.stream = end_input(@)]

FillWindow == sender' = fill_window(Drained)

\* TCPConnection passes no acknowledgment on before it has sent its SYN.
AckReceived(ackno, win) == /\ next_seqno_absolute(sender) # 0
                           /\ sender' = ack_received(Drained, ackno, win)

Tick(ms) == /\ consecutive_retransmissions(sender) <= MaxTimeouts
            /\ sender' = sender_tick(Drained, ms)

SendEmptySegment == sender' = send_empty_segment(Drained)

Next == \/ \E n \in 1 .. MaxBytes : Write(n)
        \/ EndInput
        \/ FillWindow
        \/ \E ackno \in WrappingInt32, win \in Window : AckReceived(ackno, win)
        \/ \E ms \in TickSizes : Tick(ms)
        \/ SendEmptySegment

Spec == Init /\ [][Next]_sender

-----------------------------------------------------------------------------
(* Properties *)

\* The record keeps its type, both windows stay 16-bit, and the outgoing
\* stream never holds more than its capacity or than was written.
TypeOK == WellTyped(sender)

\* The tracked segments, oldest first, tile the range from _next_ackno to
\* _next_seqno without gap or overlap; their headers hold exactly the wrapped
\* start and end; and bytes_in_flight() is the length of that range.  This is
\* what lets ack_received() match by equality and tick() resend the front.
InFlightTiled == Tiled(sender)

\* No more is in flight than the largest window and a FIN: less than half the
\* ring, so that ack_received() unwraps every acknowledgment of a tracked
\* segment to the position it was sent for.
InFlightBounded == Bounded(sender)

\* Every tracked segment carries, at each sequence number, the byte of the
\* stream that belongs there: SYN at 0, byte i at i + 1, FIN only after the
\* last byte of an ended stream; and the buffer holds the bytes that come
\* next.  A retransmission can therefore never deliver another byte than the
\* first transmission did.
TrackedContent == ContentOK(sender)

\* The sequence numbers handed out are the SYN, the bytes read from the
\* stream and at most one FIN, and a FIN only once the stream is at eof.
\* _current_state() depends on it: otherwise it would fall through to Closed
\* and fill_window() would send a second SYN.
SentIsRead == Accounted(sender)

\* The retransmission timer only runs while something is in flight, and never
\* stands at or past the timeout between calls; so the first segment of a new
\* flight gets a full timeout.  The timeout is back at its initial value
\* whenever no expiry is counted.
TimerDiscipline == TimerOK(sender)

\* No step moves the acknowledged edge or the send edge back, and the
\* acknowledged edge stops only at the end of a segment that was in flight.
EdgesAdvance ==
    [][/\ sender'.next_seqno >= sender.next_seqno
       /\ sender'.next_ackno \in
             {TrackedUpTo(sender, k) : k \in 0 .. Len(sender.tracking)}]_sender

\* What an expiry puts on the wire is the oldest unacknowledged segment.
RetransmitsOldest ==
    [][\A ms \in TickSizes :
          Tick(ms) /\ sender'.segments_out # << >>
             => /\ Len(sender'.segments_out) = 1
                /\ sender'.segments_out[1].seqno = wrap(sender.next_ackno, sender.isn)
      ]_sender

\* New bytes stay inside the window last used for sending (one byte when the
\* peer advertised none); the FIN is looked at separately.
DataWithinWindow ==
    [][FillWindow /\ sender.next_seqno # 0 /\ sender'.next_seqno > sender.next_seqno
         => bytes_read(sender'.stream) + 1 <= RightEdge(sender)]_sender

\* "Don't add FIN if this would make the segment exceed the receiver's
\* window" (tests/send_extra.cc:236): whatever fill_window() sends, FIN
\* included, ends inside the window it was given.
SegmentsWithinWindow ==
    [][FillWindow /\ sender.next_seqno # 0 /\ sender'.next_seqno > sender.next_seqno
         => sender'.next_seqno <= RightEdge(sender)]_sender
=============================================================================
