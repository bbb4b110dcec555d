-------------------------- MODULE TCPSenderProofs ---------------------------
(***************************************************************************)
(* The sender's invariants hold for every ring, window, payload size and   *)
(* capacity.  Their conjunction is inductive: InFlightTiled alone is not,  *)
(* because an acknowledgment is only unwrapped to the right position while *)
(* the flight is bounded, and the flight only stays bounded and in step    *)
(* with the stream while fill_window() finds the right state.              *)
(***************************************************************************)
EXTENDS TCPSenderSpec, TCPSenderLemmas

-----------------------------------------------------------------------------
(* The theorems *)

\* A new sender satisfies the invariant.
LEMMA InitGood == Init => Good(sender)
BY NewGood, SenderSpecAssumption DEF Init

\* What the caller finds after emptying segments_out.
LEMMA DrainedGood ==
    ASSUME Good(sender)
    PROVE  /\ Good(Drained) /\ Untouched(sender, Drained)
           /\ Drained.segments_out = << >>
           /\ Drained.remain_window_size = sender.remain_window_size
BY OutputGood, EmptySeq, Zenon DEF Drained

\* One step: the invariant is kept, the edges only advance.
LEMMA NextGood ==
    ASSUME Good(sender), Next
    PROVE  /\ Good(sender')
           /\ sender'.next_seqno >= sender.next_seqno
           /\ sender'.next_ackno \in
                 {TrackedUpTo(sender, k) : k \in 0 .. Len(sender.tracking)}
<1> DEFINE s == Drained
           Stops == {TrackedUpTo(sender, k) : k \in 0 .. Len(sender.tracking)}
<1>1. /\ Good(s) /\ s.isn = sender.isn /\ s.stream = sender.stream
      /\ s.next_seqno = sender.next_seqno /\ s.next_ackno = sender.next_ackno
      /\ s.tracking = sender.tracking
  BY DrainedGood DEF Untouched
<1>2. sender.next_seqno \in Nat /\ sender.next_ackno \in Nat
  BY SenderFields DEF Good
<1>3. sender.next_ackno \in Stops
  <2>1. SequenceSpace(sender.tracking)[0] = 0 /\ 0 \in 0 .. Len(sender.tracking)
    BY TrackedTotals DEF Good
  <2> QED BY <1>2, <2>1 DEF TrackedUpTo
<1>4. Stops = {TrackedUpTo(s, k) : k \in 0 .. Len(s.tracking)}
  BY <1>1 DEF TrackedUpTo
<1> HIDE DEF s, Stops
<1> SUFFICES /\ Good(sender') /\ sender'.next_seqno >= sender.next_seqno
             /\ sender'.next_ackno \in Stops
  BY DEF Stops
<1>5. ASSUME NEW n \in 1 .. MaxBytes, Write(n)
      PROVE  /\ Good(sender') /\ sender'.next_seqno >= sender.next_seqno
             /\ sender'.next_ackno \in Stops
  <2>1. ~s.stream.ended /\ n \in Nat
    BY <1>1, <1>5, SenderSpecAssumption DEF Write
  <2>2. sender' = [s EXCEPT !.stream = stream_write(@, NextBytes(@, n))]
    BY <1>5 DEF Write, s
  <2>3. Good(sender') /\ sender'.next_seqno = s.next_seqno /\ sender'.next_ackno = s.next_ackno
    BY <1>1, <2>1, <2>2, WriteGood
  <2> QED BY <1>1, <1>2, <1>3, <2>3
<1>6. ASSUME EndInput
      PROVE  /\ Good(sender') /\ sender'.next_seqno >= sender.next_seqno
             /\ sender'.next_ackno \in Stops
  <2>1. sender' = [s EXCEPT !.stream = end_input(@)]
    BY <1>6 DEF EndInput, s
  <2>2. Good(sender') /\ sender'.next_seqno = s.next_seqno /\ sender'.next_ackno = s.next_ackno
    BY <1>1, <2>1, EndInputGood
  <2> QED BY <1>1, <1>2, <1>3, <2>2
<1>7. ASSUME FillWindow
      PROVE  /\ Good(sender') /\ sender'.next_seqno >= sender.next_seqno
             /\ sender'.next_ackno \in Stops
  <2>1. sender' = fill_window(s) /\ Good(sender')
    BY <1>1, <1>7, FillWindowGood DEF FillWindow, s
  <2>2. CASE current_state(s) = "Closed"
    <3>1. sender'.next_seqno = s.next_seqno + 1 /\ sender'.next_ackno = s.next_ackno
      BY <1>1, <2>1, <2>2, SendSynFields, Zenon DEF fill_window, Good
    <3> QED BY <1>1, <1>2, <1>3, <2>1, <3>1
  <2>3. CASE current_state(s) # "Closed" /\ current_state(s) # "SynSent" /\ CanSend(s)
    <3>1. sender' = SendData(s)
      BY <2>1, <2>3 DEF fill_window
    <3>2. sender'.next_seqno >= s.next_seqno
      BY <1>1, <2>3, <3>1, SendDataGood
    <3>3. sender'.next_ackno = s.next_ackno
      BY <1>1, <2>3, <3>1, SendDataFields DEF Good, CanSend
    <3> QED BY <1>1, <1>3, <2>1, <3>2, <3>3
  <2>4. CASE current_state(s) # "Closed" /\ ~(current_state(s) # "SynSent" /\ CanSend(s))
    <3>1. sender' = s
      BY <2>1, <2>4 DEF fill_window
    <3> QED BY <1>1, <1>2, <1>3, <3>1
  <2> QED BY <2>2, <2>3, <2>4
<1>8. ASSUME NEW ackno \in WrappingInt32, NEW win \in Window, AckReceived(ackno, win)
      PROVE  /\ Good(sender') /\ sender'.next_seqno >= sender.next_seqno
             /\ sender'.next_ackno \in Stops
  <2>1. sender' = ack_received(s, ackno, win)
    BY <1>8 DEF AckReceived, s
  <2>2. Good(sender') /\ sender'.next_seqno = s.next_seqno /\ sender'.next_ackno \in Stops
    BY <1>1, <1>4, <2>1, AckReceivedGood
  <2> QED BY <1>1, <1>2, <2>2
<1>9. ASSUME NEW ms \in TickSizes, Tick(ms)
      PROVE  /\ Good(sender') /\ sender'.next_seqno >= sender.next_seqno
             /\ sender'.next_ackno \in Stops
  <2>1. sender' = sender_tick(s, ms) /\ ms \in Nat
    BY <1>9, SenderSpecAssumption DEF Tick, s
  <2>2. Good(sender') /\ Untouched(s, sender')
    BY <1>1, <2>1, TickGood
  <2> QED BY <1>1, <1>2, <1>3, <2>2 DEF Untouched
<1>10. ASSUME SendEmptySegment
       PROVE  /\ Good(sender') /\ sender'.next_seqno >= sender.next_seqno
              /\ sender'.next_ackno \in Stops
  <2>1. sender' = send_empty_segment(s)
    BY <1>10 DEF SendEmptySegment, s
  <2>2. Good(sender') /\ Untouched(s, sender')
    BY <1>1, <2>1, SendEmptyGood
  <2> QED BY <1>1, <1>2, <1>3, <2>2 DEF Untouched
<1> QED BY <1>5, <1>6, <1>7, <1>8, <1>9, <1>10 DEF Next

\* Every call keeps the sender in the states the methods expect it in: the
\* conjunction of the invariants is inductive.
THEOREM SenderInvariant == Spec => []Good(sender)
<1>1. Good(sender) /\ [Next]_sender => Good(sender)'
  <2>1. ASSUME Good(sender), Next PROVE Good(sender)'
    BY <2>1, NextGood
  <2>2. ASSUME Good(sender), UNCHANGED sender PROVE Good(sender)'
    BY <2>2
  <2> QED BY <2>1, <2>2
<1> QED BY <1>1, InitGood, PTL DEF Spec

\* The sender's record keeps its type: both windows stay 16-bit and the
\* outgoing stream never holds more than its capacity or than was written.
THEOREM SenderTypeOK == Spec => []TypeOK
<1>1. Good(sender) => TypeOK
  BY DEF Good, TypeOK
<1> QED BY <1>1, SenderInvariant, PTL

\* The tracked segments always tile the range from _next_ackno to _next_seqno,
\* whatever acknowledgments, windows and timer expiries the sender meets.
THEOREM SenderInFlightTiled == Spec => []InFlightTiled
<1>1. Good(sender) => InFlightTiled
  BY DEF Good, InFlightTiled
<1> QED BY <1>1, SenderInvariant, PTL

\* fill_window() never puts more than the largest window and a FIN in flight.
THEOREM SenderInFlightBounded == Spec => []InFlightBounded
<1>1. Good(sender) => InFlightBounded
  BY DEF Good, InFlightBounded
<1> QED BY <1>1, SenderInvariant, PTL

\* What tick() may retransmit carries the bytes of the stream that belong at
\* its sequence numbers.
THEOREM SenderTrackedContent == Spec => []TrackedContent
<1>1. Good(sender) => TrackedContent
  BY DEF Good, TrackedContent
<1> QED BY <1>1, SenderInvariant, PTL

\* The sequence numbers handed out are the SYN, the bytes read and one FIN.
THEOREM SenderSentIsRead == Spec => []SentIsRead
<1>1. Good(sender) => SentIsRead
  BY DEF Good, SentIsRead
<1> QED BY <1>1, SenderInvariant, PTL

\* The retransmission timer runs only while something is in flight and never
\* stands at its timeout between calls.
THEOREM SenderTimerDiscipline == Spec => []TimerDiscipline
<1>1. Good(sender) => TimerDiscipline
  BY DEF Good, TimerDiscipline
<1> QED BY <1>1, SenderInvariant, PTL

\* No call moves either edge of the flight back, and the acknowledged edge only
\* ever stops at the end of a segment that was in flight.
THEOREM SenderEdgesAdvance == Spec => EdgesAdvance
<1>1. Good(sender) /\ [Next]_sender
        => [/\ sender'.next_seqno >= sender.next_seqno
            /\ sender'.next_ackno \in
                  {TrackedUpTo(sender, k) : k \in 0 .. Len(sender.tracking)}]_sender
  BY NextGood
<1> QED BY <1>1, SenderInvariant, PTL DEF Spec, EdgesAdvance

\* What an expiry of the timer sends again is the segment that starts at the
\* acknowledged edge.
THEOREM SenderRetransmitsOldest == Spec => RetransmitsOldest
<1> DEFINE Oldest ==
        \A ms \in TickSizes :
           Tick(ms) /\ sender'.segments_out # << >>
              => /\ Len(sender'.segments_out) = 1
                 /\ sender'.segments_out[1].seqno = wrap(sender.next_ackno, sender.isn)
<1>1. Good(sender) => Oldest
  <2> SUFFICES ASSUME Good(sender), NEW ms \in TickSizes, Tick(ms),
                      sender'.segments_out # << >>
               PROVE  /\ Len(sender'.segments_out) = 1
                      /\ sender'.segments_out[1].seqno = wrap(sender.next_ackno, sender.isn)
    OBVIOUS
  <2>1. sender' = sender_tick(Drained, ms) /\ ms \in Nat
    BY SenderSpecAssumption DEF Tick
  <2>2. Good(Drained) /\ Untouched(sender, Drained) /\ Drained.segments_out = << >>
    BY DrainedGood
  <2>3. /\ Drained.tracked_count # 0
        /\ sender'.segments_out = Append(Drained.segments_out, Drained.tracking[1])
    BY <2>1, <2>2, TickGood, SMTT(30)
  <2>4. /\ WellTyped(sender) /\ Tiled(sender)
        /\ sender.tracked_count # 0 /\ sender.tracking = Drained.tracking
    BY <2>2, <2>3 DEF Untouched, Good
  <2>5. 1 \in 1 .. Len(sender.tracking)
    BY <2>4, FlightIsTracked
  <2>6. sender.tracking[1].seqno = wrap(sender.next_ackno, sender.isn)
    <3>1. SequenceSpace(sender.tracking)[0] = 0 /\ sender.next_ackno \in Nat
      BY <2>4, TrackedTotals, SenderFields
    <3>2. sender.tracking[1].seqno = wrap(TrackedUpTo(sender, 1 - 1), sender.isn)
      BY <2>4, <2>5 DEF Tiled
    <3>3. TrackedUpTo(sender, 1 - 1) = sender.next_ackno
      BY <3>1 DEF TrackedUpTo
    <3> QED BY <3>2, <3>3
  <2>7. Len(sender'.segments_out) = 1 /\ sender'.segments_out[1] = sender.tracking[1]
    <3> DEFINE seg == sender.tracking[1]
    <3>1. sender'.segments_out = Append(<< >>, seg)
      BY <2>2, <2>3, <2>4
    <3>2. Append(<< >>, seg) = << seg >>
      OBVIOUS
    <3> HIDE DEF seg
    <3>3. Len(sender'.segments_out) = 1 /\ sender'.segments_out[1] = seg
      BY <3>1, <3>2
    <3> QED BY <3>3 DEF seg
  <2> QED BY <2>6, <2>7
<1> HIDE DEF Oldest
<1>2. Spec => [][Oldest]_sender
  BY <1>1, SenderInvariant, PTL
<1> QED BY <1>2 DEF RetransmitsOldest, Oldest

\* The bytes fill_window() takes from the stream all lie inside the window.
THEOREM SenderDataWithinWindow == Spec => DataWithinWindow
<1> DEFINE Within ==
        FillWindow /\ sender.next_seqno # 0 /\ sender'.next_seqno > sender.next_seqno
           => bytes_read(sender'.stream) + 1 <= RightEdge(sender)
<1>1. Good(sender) => Within
  <2> SUFFICES ASSUME Good(sender), FillWindow, sender.next_seqno # 0,
                      sender'.next_seqno > sender.next_seqno
               PROVE  bytes_read(sender'.stream) + 1 <= RightEdge(sender)
    OBVIOUS
  <2> DEFINE s == Drained
  <2>1. sender' = fill_window(s)
    BY DEF FillWindow
  <2>2. /\ Good(s) /\ s.next_seqno = sender.next_seqno /\ s.next_ackno = sender.next_ackno
        /\ s.remain_window_size = sender.remain_window_size
    BY DrainedGood DEF Untouched
  <2> HIDE DEF s
  <2>3. current_state(s) # "Closed"
    BY <2>2, SendStates DEF Good
  <2>4. current_state(s) # "SynSent" /\ CanSend(s)
    <3> SUFFICES ASSUME ~(current_state(s) # "SynSent" /\ CanSend(s)) PROVE FALSE
      OBVIOUS
    <3>1. sender' = s
      BY <2>1, <2>3 DEF fill_window
    <3>2. sender.next_seqno \in Nat
      BY SenderFields DEF Good
    <3> QED BY <2>2, <3>1, <3>2
  <2>5. sender' = SendData(s)
    BY <2>1, <2>3, <2>4 DEF fill_window
  <2>6. bytes_read(sender'.stream) + 1 <= RightEdge(s)
    BY <2>2, <2>3, <2>4, <2>5, SendDataGood
  <2>7. RightEdge(s) = RightEdge(sender)
    BY <2>2 DEF RightEdge
  <2> QED BY <2>6, <2>7
<1> HIDE DEF Within
<1>2. Spec => [][Within]_sender
  BY <1>1, SenderInvariant, PTL
<1> QED BY <1>2 DEF DataWithinWindow, Within
=============================================================================
