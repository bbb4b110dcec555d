-------------------------- MODULE TCPReceiverProofs -------------------------
(***************************************************************************)
(* The receiver's properties for every window, stream length and sequence  *)
(* space, however often the stream goes round it.                          *)
(***************************************************************************)
EXTENDS TCPReceiverSpec, StreamReassemblerProofs, TCPSenderLemmas

IsReceiver(v) ==
    v = [have_SYN |-> v.have_SYN, have_FIN |-> v.have_FIN, icn |-> v.icn,
         reassembler |-> v.reassembler]

\* The FIN counts as seen only when the output has the whole stream: what
\* the peer guarantees when no FIN overtakes a byte.
SoundReceiver(v) ==
    /\ IsReceiver(v)
    /\ v.have_SYN \in BOOLEAN /\ v.have_FIN \in BOOLEAN /\ v.icn \in WrappingInt32
    /\ Sound(v.reassembler, RecvCapacity, StreamLength)
    /\ v.have_FIN = v.reassembler.have_eof
    /\ v.have_FIN => v.reassembler.unassembled_start_index = StreamLength
    /\ v.have_FIN => v.reassembler.output.ended

-----------------------------------------------------------------------------

\* The next missing position is where the held positions without gap end.
LEMMA HeldWhole ==
    ASSUME NEW capacity \in Nat \ {0}, NEW length \in Nat,
           NEW q, Sound(q, capacity, length), 0 .. length - 1 \subseteq Held(q)
    PROVE  q.unassembled_start_index = length
<1>1. /\ q.unassembled_start_index \in Nat /\ q.unassembled_start_index <= length
      /\ q.unassembled_start_index \notin DOMAIN q.staged
  BY PlacedNumbers DEF Sound, Placed, SoundStream
<1>2. q.unassembled_start_index \notin Held(q)
  BY <1>1 DEF Held
<1> QED BY <1>1, <1>2

\* Ending an output that has the whole stream changes nothing else.
LEMMA EndWhole ==
    ASSUME NEW capacity \in Nat \ {0}, NEW length \in Nat,
           NEW q, Sound(q, capacity, length), q.unassembled_start_index = length
    PROVE  LET e == [q EXCEPT !.output = end_input(@)]
           IN  /\ Sound(e, capacity, length) /\ Held(e) = Held(q)
               /\ e.unassembled_start_index = q.unassembled_start_index
               /\ e.have_eof = q.have_eof /\ e.output.ended
               /\ e.output.buffer = q.output.buffer
               /\ e.output.written = q.output.written
<1> DEFINE bs == q.output
           out == [buffer |-> bs.buffer, capacity |-> bs.capacity, ended |-> TRUE,
                   written |-> bs.written, error |-> bs.error]
           e == [q EXCEPT !.output = end_input(@)]
<1>1. Placed(q, capacity, length) /\ q.unassembled_start_index \notin DOMAIN q.staged
  BY DEF Sound
<1>2. SoundStream(bs, capacity, length)
  BY <1>1 DEF Placed
<1>3. end_input(bs) = out
  BY <1>2, EndInput DEF SoundStream
<1>4. SoundStream(out, capacity, length)
  BY <1>2 DEF SoundStream
<1>5. e = [output |-> out, capacity |-> q.capacity, staged |-> q.staged,
           unassembled_start_index |-> q.unassembled_start_index,
           have_eof |-> q.have_eof, eof_index |-> q.eof_index]
  <2>1. e = [q EXCEPT !.output = out]
    BY <1>3
  <2>2. IsReassembler(q)
    BY <1>1 DEF Placed
  <2> HIDE DEF e, out
  <2> QED BY <2>1, <2>2 DEF IsReassembler
<1>6. /\ e.output = out /\ e.capacity = q.capacity /\ e.staged = q.staged
      /\ e.unassembled_start_index = q.unassembled_start_index
      /\ e.have_eof = q.have_eof /\ e.eof_index = q.eof_index
      /\ IsReassembler(e)
  BY <1>5 DEF IsReassembler
<1>7. out.buffer = bs.buffer /\ out.written = bs.written /\ out.ended
  OBVIOUS
<1> HIDE DEF e, out
<1>8. unassembled_max_index(e) = unassembled_max_index(q)
  BY <1>6, <1>7 DEF unassembled_max_index, buffer_size
<1>9. Placed(e, capacity, length)
  BY <1>1, <1>4, <1>6, <1>7, <1>8 DEF Placed
<1>10. Held(e) = Held(q)
  BY <1>6 DEF Held
<1> QED BY <1>1, <1>6, <1>7, <1>9, <1>10 DEF Sound, e

-----------------------------------------------------------------------------

\* A segment whose payload is the stream's bytes from index on and lies in the
\* window, and whose FIN does not overtake a byte.
Acceptable(v, seg, seqno, index, len) ==
    /\ SoundReceiver(v)
    /\ index \in Nat /\ len \in Nat
    /\ seg.fin \in BOOLEAN /\ seg.payload = Bytes(index, len)
    /\ unwrap(seqno, v.icn, bytes_written(stream_out(v))) - 1 = index
    /\ index + len <= StreamLength
    /\ seg.fin => index + len = StreamLength
    /\ len > 0 => index + len - 1 <= unassembled_max_index(v.reassembler)
    /\ seg.fin => v.have_FIN \/ index <= v.reassembler.unassembled_start_index

\* It is received whole: w is what receiver v becomes.
Accepted(v, seg, w, index, len) ==
    /\ SoundReceiver(w)
    /\ w.have_SYN = v.have_SYN /\ w.icn = v.icn
    /\ w.have_FIN = (v.have_FIN \/ seg.fin)
    /\ Held(w.reassembler) = Held(v.reassembler) \cup (index .. index + len - 1)
    /\ w.reassembler.unassembled_start_index >= v.reassembler.unassembled_start_index
    /\ Len(w.reassembler.output.buffer) - w.reassembler.output.written
          = Len(v.reassembler.output.buffer) - v.reassembler.output.written

\* Receive() of an acceptable segment.
LEMMA ReceiveSound ==
    ASSUME NEW v, NEW seg, NEW seqno, NEW index, NEW len,
           Acceptable(v, seg, seqno, index, len)
    PROVE  Accepted(v, seg, Receive(v, seg, seqno), index, len)
<1> USE RecvCapacityAssumption
<1> DEFINE w == Receive(v, seg, seqno)
<1>0. /\ StreamLength \in Nat /\ index \in Nat /\ len \in Nat
      /\ SoundReceiver(v)
      /\ seg.fin \in BOOLEAN /\ seg.payload = Bytes(index, len)
      /\ unwrap(seqno, v.icn, bytes_written(stream_out(v))) - 1 = index
      /\ index + len <= StreamLength
      /\ seg.fin => index + len = StreamLength
      /\ len > 0 => index + len - 1 <= unassembled_max_index(v.reassembler)
      /\ seg.fin => v.have_FIN \/ index <= v.reassembler.unassembled_start_index
  BY ReceiverSpecAssumption DEF Acceptable
<1> DEFINE q == v.reassembler
           start == q.unassembled_start_index
           pushed == push_substring(q, Bytes(index, len), index, seg.fin)
           fin == v.have_FIN \/ seg.fin
           ended == [pushed EXCEPT !.output = end_input(@)]
           last == IF fin /\ reassembler_empty(pushed) THEN ended ELSE pushed
<1>1. /\ Sound(q, RecvCapacity, StreamLength)
      /\ v.have_FIN \in BOOLEAN /\ v.have_SYN \in BOOLEAN /\ v.icn \in WrappingInt32
      /\ v.have_FIN = q.have_eof /\ (v.have_FIN => start = StreamLength)
      /\ IsReceiver(v)
  BY <1>0 DEF SoundReceiver
<1>2. w = [have_SYN |-> v.have_SYN, have_FIN |-> fin, icn |-> v.icn, reassembler |-> last]
  <2>1. w = [v EXCEPT !.have_FIN = fin, !.reassembler = last]
    BY <1>0 DEF Receive
  <2> HIDE DEF last, fin, w
  <2> QED BY <2>1, <1>1 DEF IsReceiver
<1>3. /\ Sound(pushed, RecvCapacity, StreamLength)
      /\ Held(pushed) = Held(q) \cup
            {p \in index .. index + len - 1 : p <= unassembled_max_index(q)}
      /\ pushed.have_eof = (q.have_eof \/ seg.fin)
      /\ pushed.unassembled_start_index >= start
      /\ pushed.have_eof /\ pushed.unassembled_start_index = StreamLength
            => pushed.output.ended
      /\ Len(pushed.output.buffer) - pushed.output.written
            = Len(q.output.buffer) - q.output.written
  <2> DEFINE flag == seg.fin
  <2>1. /\ Sound(q, RecvCapacity, StreamLength) /\ flag \in BOOLEAN
        /\ index + len <= StreamLength /\ (flag => index + len = StreamLength)
        /\ StreamLength \in Nat /\ index \in Nat /\ len \in Nat
        /\ pushed = push_substring(q, Bytes(index, len), index, flag)
    BY <1>0, <1>1
  <2> HIDE DEF flag, q, pushed, start
  <2>2. /\ Sound(pushed, RecvCapacity, StreamLength)
        /\ Held(pushed) = Held(q) \cup
              {p \in index .. index + len - 1 : p <= unassembled_max_index(q)}
        /\ pushed.have_eof = (q.have_eof \/ flag)
        /\ pushed.unassembled_start_index >= q.unassembled_start_index
        /\ pushed.have_eof /\ pushed.unassembled_start_index = StreamLength
              => pushed.output.ended
        /\ Len(pushed.output.buffer) - pushed.output.written
              = Len(q.output.buffer) - q.output.written
    BY <2>1, PushSound, SMTT(30)
  <2> QED BY <2>2, Zenon DEF flag, start
<1>4. /\ start \in Nat /\ start <= StreamLength /\ unassembled_max_index(q) \in Int
      /\ pushed.unassembled_start_index \in Nat
      /\ pushed.unassembled_start_index <= StreamLength
  BY <1>0, <1>1, <1>3, PlacedNumbers DEF Sound, Placed, SoundStream
<1> HIDE DEF pushed, q, w
<1>5. Held(pushed) = Held(q) \cup (index .. index + len - 1)
  <2>1. \A p \in index .. index + len - 1 : p <= unassembled_max_index(q)
    BY <1>0, <1>4 DEF q
  <2> QED BY <2>1, <1>3
<1>6. fin => pushed.unassembled_start_index = StreamLength
  <2>1. CASE v.have_FIN
    BY <2>1, <1>0, <1>1, <1>3, <1>4
  <2>2. CASE seg.fin /\ ~v.have_FIN
    <3>1. index + len = StreamLength /\ index <= start
      BY <2>2, <1>0 DEF q
    <3>2. 0 .. StreamLength - 1 \subseteq Held(pushed)
      <4>1. 0 .. start - 1 \subseteq Held(q)
        BY DEF Held
      <4>2. \A p \in 0 .. StreamLength - 1 :
                p \in 0 .. start - 1 \/ p \in index .. index + len - 1
        BY <3>1, <1>0, <1>4
      <4> QED BY <4>1, <4>2, <1>5
    <3> QED BY <3>2, <1>0, <1>3, HeldWhole
  <2> QED BY <2>1, <2>2
<1>7. fin => pushed.have_eof /\ pushed.output.ended
  BY <1>1, <1>3, <1>6
<1>8. /\ Sound(last, RecvCapacity, StreamLength) /\ Held(last) = Held(pushed)
      /\ last.unassembled_start_index = pushed.unassembled_start_index
      /\ last.have_eof = pushed.have_eof
      /\ fin => last.output.ended
      /\ last.output.buffer = pushed.output.buffer
      /\ last.output.written = pushed.output.written
  <2>1. CASE fin /\ reassembler_empty(pushed)
    <3>1. last = ended
      BY <2>1
    <3>2. pushed.unassembled_start_index = StreamLength
      BY <2>1, <1>6
    <3> HIDE DEF fin, last
    <3> QED BY <3>1, <3>2, <1>0, <1>3, EndWhole
  <2>2. CASE ~(fin /\ reassembler_empty(pushed))
    <3>1. last = pushed
      BY <2>2
    <3> HIDE DEF last
    <3> QED BY <3>1, <1>3, <1>7
  <2> QED BY <2>1, <2>2
<1>9. fin \in BOOLEAN /\ fin = pushed.have_eof
  BY <1>0, <1>1, <1>3
<1> HIDE DEF fin, last
<1>10. /\ w.have_SYN = v.have_SYN /\ w.have_FIN = fin /\ w.icn = v.icn
       /\ w.reassembler = last /\ IsReceiver(w)
  BY <1>2 DEF IsReceiver
<1>11. SoundReceiver(w)
  BY <1>1, <1>6, <1>8, <1>9, <1>10 DEF SoundReceiver
<1> QED BY <1>3, <1>5, <1>8, <1>10, <1>11 DEF Accepted, w, fin, q

-----------------------------------------------------------------------------

\* The absolute sequence numbers a receiver that has its SYN has seen.
Numbers(v) ==
    {x \in Nat : \/ x = 0
                 \/ x - 1 \in Held(v.reassembler)
                 \/ v.have_FIN /\ x = FinSeqno}

\* The inductive invariant: what has arrived is what the receiver holds.
ReceiverInv ==
    /\ SoundReceiver(receiver)
    /\ ~receiver.have_SYN => receiver = NewTCPReceiver /\ arrived = {}
    /\ receiver.have_SYN =>
          /\ receiver.icn = PeerISN
          /\ 0 .. SynPayload - 1 \subseteq Held(receiver.reassembler)
          /\ arrived = Numbers(receiver)

\* The fields of a segment of the peer.
LEMMA PeerSegmentIs ==
    ASSUME NEW first \in Nat, NEW len \in Nat, NEW fin \in BOOLEAN
    PROVE  LET seg == PeerSegment(first, len, fin)
           IN  /\ seg.seqno = wrap(first, PeerISN) /\ seg.fin = fin
               /\ seg.syn = (first = 0)
               /\ seg.payload = Bytes(IF first = 0 THEN 0 ELSE first - 1, len)
               /\ length_in_sequence_space(seg)
                     = len + (IF first = 0 THEN 1 ELSE 0) + (IF fin THEN 1 ELSE 0)
<1> DEFINE seg == PeerSegment(first, len, fin)
<1>1. /\ seg.seqno = wrap(first, PeerISN) /\ seg.fin = fin
      /\ seg.syn = (first = 0)
      /\ seg.payload = Bytes(IF first = 0 THEN 0 ELSE first - 1, len)
  BY DEF PeerSegment, EmptySegment, Bytes
<1>2. Len(Bytes(IF first = 0 THEN 0 ELSE first - 1, len)) = len
  BY DEF Bytes
<1> HIDE DEF seg
<1>3. length_in_sequence_space(seg)
         = len + (IF first = 0 THEN 1 ELSE 0) + (IF fin THEN 1 ELSE 0)
  BY <1>1, <1>2 DEF length_in_sequence_space
<1> QED BY <1>1, <1>3 DEF seg

\* The first byte after a SYN is read as position 1 on any sequence space.
LEMMA FirstByte ==
    ASSUME NEW isn \in WrappingInt32
    PROVE  unwrap(wrap(1, isn), isn, 0) = 1 /\ wrap(0, isn) = isn
<1> DEFINE u == unwrap(wrap(1, isn), isn, 0)
<1>1. /\ u \in Nat /\ wrap(u, isn) = wrap(1, isn)
      /\ Distance(u, 0) <= Distance(1, 0)
  BY WrapType, UnwrapClosest
<1>2. u = 1 \/ Distance(u, 1) >= TwoTo32
  BY <1>1, SameWrap
<1> HIDE DEF u
<1>3. u = 1
  BY <1>1, <1>2, TwoTo32Assumption DEF Distance
<1>4. wrap(0, isn) = isn
  BY TwoTo32Assumption DEF wrap, WrappingInt32
<1> QED BY <1>3, <1>4 DEF u

\* The receiver that the SYN's segment is first handed to.
LEMMA SynSound ==
    ASSUME NEW isn \in WrappingInt32
    PROVE  LET v == [NewTCPReceiver EXCEPT !.have_SYN = TRUE, !.icn = isn]
           IN  /\ SoundReceiver(v) /\ v.have_SYN /\ ~v.have_FIN /\ v.icn = isn
               /\ Held(v.reassembler) = {}
               /\ bytes_written(stream_out(v)) = 0
               /\ unassembled_max_index(v.reassembler) = RecvCapacity - 1
<1> DEFINE q == NewStreamReassembler(RecvCapacity)
           v == [NewTCPReceiver EXCEPT !.have_SYN = TRUE, !.icn = isn]
<1>1. Sound(q, RecvCapacity, StreamLength) /\ Held(q) = {}
  BY NewIsSound, RecvCapacityAssumption, ReceiverSpecAssumption
<1>2. /\ q.have_eof = FALSE /\ q.output.written = 0
      /\ unassembled_max_index(q) = RecvCapacity - 1
  BY RecvCapacityAssumption DEF NewStreamReassembler, NewByteStream, unassembled_max_index,
                                buffer_size
<1>3. v = [have_SYN |-> TRUE, have_FIN |-> FALSE, icn |-> isn, reassembler |-> q]
  <2>1. \A t, f, z, x :
            [[have_SYN |-> f, have_FIN |-> f, icn |-> z, reassembler |-> x]
                EXCEPT !.have_SYN = t, !.icn = isn]
              = [have_SYN |-> t, have_FIN |-> f, icn |-> isn, reassembler |-> x]
    <3> SUFFICES ASSUME NEW t, NEW f, NEW z, NEW x
                 PROVE  [[have_SYN |-> f, have_FIN |-> f, icn |-> z, reassembler |-> x]
                            EXCEPT !.have_SYN = t, !.icn = isn]
                          = [have_SYN |-> t, have_FIN |-> f, icn |-> isn, reassembler |-> x]
      OBVIOUS
    <3>1. [[have_SYN |-> f, have_FIN |-> f, icn |-> z, reassembler |-> x] EXCEPT !.have_SYN = t]
            = [have_SYN |-> t, have_FIN |-> f, icn |-> z, reassembler |-> x]
      OBVIOUS
    <3>2. [[have_SYN |-> t, have_FIN |-> f, icn |-> z, reassembler |-> x] EXCEPT !.icn = isn]
            = [have_SYN |-> t, have_FIN |-> f, icn |-> isn, reassembler |-> x]
      OBVIOUS
    <3> QED BY <3>1, <3>2
  <2> QED BY <2>1, Zenon DEF NewTCPReceiver
<1> HIDE DEF q, v
<1>4. /\ v.have_SYN = TRUE /\ v.have_FIN = FALSE /\ v.icn = isn /\ v.reassembler = q
      /\ IsReceiver(v)
  BY <1>3 DEF IsReceiver
<1>5. SoundReceiver(v)
  BY <1>1, <1>2, <1>4, Zenon DEF SoundReceiver
<1> QED BY <1>1, <1>2, <1>4, <1>5 DEF bytes_written, stream_out, v

-----------------------------------------------------------------------------

\* What the guards of SegmentReceived say of a segment that is not the SYN.
LEMMA SegmentGuards ==
    ASSUME FinOvertakes = FALSE, ReceiverInv, receiver.have_SYN,
           NEW first \in 0 .. FinSeqno, NEW len \in 0 .. StreamLength,
           NEW fin \in BOOLEAN, SegmentReceived(first, len, fin), first # 0
    PROVE  /\ first \in Nat /\ len \in Nat /\ first - 1 \in Nat
           /\ (first - 1) + len <= StreamLength
           /\ fin => (first - 1) + len = StreamLength
           /\ len > 0 => (first - 1) + len - 1 <= unassembled_max_index(receiver.reassembler)
           /\ fin => \/ receiver.have_FIN
                     \/ first - 1 <= receiver.reassembler.unassembled_start_index
           /\ unwrap(wrap(first, PeerISN), PeerISN, bytes_written(stream_out(receiver))) = first
<1> DEFINE q == receiver.reassembler
           start == q.unassembled_start_index
           seg == PeerSegment(first, len, fin)
           next == first + length_in_sequence_space(seg)
<1>1. first \in Nat /\ len \in Nat /\ first - 1 \in Nat /\ StreamLength \in Nat
  BY ReceiverSpecAssumption DEF FinSeqno
<1>2. length_in_sequence_space(seg) = len + (IF fin THEN 1 ELSE 0)
  BY <1>1, PeerSegmentIs
<1>3. /\ next <= FinSeqno + 1 /\ fin = (next = FinSeqno + 1)
      /\ len > 0 => WithinWindow(next - 1 - (IF fin THEN 1 ELSE 0))
      /\ fin => first <= AckAbsolute(receiver)
      /\ Recent(first)
  BY DEF SegmentReceived
<1>4. /\ start \in Nat /\ q.output.written = start
      /\ Len(q.output.buffer) \in Nat
      /\ unassembled_max_index(q) = start - Len(q.output.buffer) + RecvCapacity - 1
  <2>1. Placed(q, RecvCapacity, StreamLength)
    BY DEF ReceiverInv, SoundReceiver, Sound
  <2> QED BY <2>1, PlacedNumbers, RecvCapacityAssumption, ReceiverSpecAssumption DEF Placed
<1> HIDE DEF next, seg
<1>5. next = first + len + (IF fin THEN 1 ELSE 0)
  BY <1>1, <1>2 DEF next
<1>6. /\ (first - 1) + len <= StreamLength
      /\ fin => (first - 1) + len = StreamLength
  <2>1. CASE fin
    <3>1. next = FinSeqno + 1
      BY <2>1, <1>3, Zenon
    <3>2. next = first + len + 1
      BY <2>1, <1>5
    <3> QED BY <3>1, <3>2, <1>1 DEF FinSeqno
  <2>2. CASE ~fin
    <3>1. next <= FinSeqno + 1 /\ next # FinSeqno + 1
      BY <2>2, <1>3, Zenon
    <3>2. next = first + len
      BY <2>2, <1>1, <1>5
    <3> QED BY <2>2, <3>1, <3>2, <1>1 DEF FinSeqno
  <2> QED BY <2>1, <2>2
<1>7. next - 1 - (IF fin THEN 1 ELSE 0) = (first - 1) + len
  BY <1>1, <1>5
<1>8. len > 0 => (first - 1) + len - 1 <= unassembled_max_index(q)
  <2> SUFFICES ASSUME len > 0 PROVE (first - 1) + len - 1 <= unassembled_max_index(q)
    OBVIOUS
  <2>1. (first - 1) + len <= bytes_read(stream_out(receiver)) + RecvCapacity
    BY <1>3, <1>7 DEF WithinWindow
  <2> DEFINE m == Len(q.output.buffer)
  <2>2. bytes_read(stream_out(receiver)) = start - m
    BY <1>4 DEF bytes_read, buffer_size, stream_out
  <2>3. m \in Nat /\ start \in Nat /\ unassembled_max_index(q) = start - m + RecvCapacity - 1
    BY <1>4
  <2> HIDE DEF m, q, start
  <2> QED BY <2>3, <2>1, <2>2, <1>1, <1>4, RecvCapacityAssumption
<1>9. fin => receiver.have_FIN \/ first - 1 <= start
  <2> SUFFICES ASSUME fin, ~receiver.have_FIN PROVE first - 1 <= start
    OBVIOUS
  <2>1. AckAbsolute(receiver) = start + 1
    BY <1>4 DEF AckAbsolute, bytes_written, stream_out
  <2> QED BY <2>1, <1>1, <1>3, <1>4
<1>10. unwrap(wrap(first, PeerISN), PeerISN, bytes_written(stream_out(receiver))) = first
  <2>1. bytes_written(stream_out(receiver)) = start
    BY <1>4 DEF bytes_written, stream_out
  <2> QED BY <2>1, <1>1, <1>3, <1>4, RoundTrip, ReceiverSpecAssumption DEF Recent
<1> QED BY <1>1, <1>6, <1>8, <1>9, <1>10

\* A segment that arrives in the middle of the stream.
LEMMA SegmentStep ==
    ASSUME FinOvertakes = FALSE, ReceiverInv, receiver.have_SYN,
           NEW first \in 0 .. FinSeqno, NEW len \in 0 .. StreamLength,
           NEW fin \in BOOLEAN, SegmentReceived(first, len, fin), first # 0
    PROVE  /\ ReceiverInv'
           /\ (receiver.have_FIN => receiver'.have_FIN)
           /\ receiver'.reassembler.unassembled_start_index
                 >= receiver.reassembler.unassembled_start_index
           /\ Len(receiver'.reassembler.output.buffer) - receiver'.reassembler.output.written
                 = Len(receiver.reassembler.output.buffer) - receiver.reassembler.output.written
<1> DEFINE seg == PeerSegment(first, len, fin)
           index == first - 1
           w == Receive(receiver, seg, seg.seqno)
           H == Held(receiver.reassembler)
<1>1. /\ first \in Nat /\ len \in Nat /\ index \in Nat
      /\ index + len <= StreamLength
      /\ fin => index + len = StreamLength
      /\ len > 0 => index + len - 1 <= unassembled_max_index(receiver.reassembler)
      /\ fin => \/ receiver.have_FIN
                \/ index <= receiver.reassembler.unassembled_start_index
      /\ unwrap(wrap(first, PeerISN), PeerISN, bytes_written(stream_out(receiver))) = first
  BY SegmentGuards
<1>2. /\ seg.seqno = wrap(first, PeerISN) /\ seg.fin = fin /\ ~seg.syn
      /\ seg.payload = Bytes(index, len)
      /\ length_in_sequence_space(seg) = len + (IF fin THEN 1 ELSE 0)
  <2>1. /\ seg.seqno = wrap(first, PeerISN) /\ seg.fin = fin /\ seg.syn = (first = 0)
        /\ seg.payload = Bytes(IF first = 0 THEN 0 ELSE first - 1, len)
        /\ length_in_sequence_space(seg)
              = len + (IF first = 0 THEN 1 ELSE 0) + (IF fin THEN 1 ELSE 0)
    BY <1>1, PeerSegmentIs
  <2>2. len + 0 = len
    BY <1>1
  <2> HIDE DEF seg
  <2> QED BY <2>1, <2>2, Zenon
<1>3. /\ receiver' = receiver_segment_received(receiver, seg)
      /\ arrived' = arrived \cup (first .. (first + length_in_sequence_space(seg)) - 1)
  <2>1. /\ receiver' = receiver_segment_received(receiver, seg)
        /\ arrived' = IF receiver.have_SYN \/ seg.syn
                      THEN arrived \cup (first .. (first + length_in_sequence_space(seg)) - 1)
                      ELSE arrived
    BY Zenon DEF SegmentReceived
  <2> HIDE DEF seg
  <2> QED BY <2>1, Zenon
<1> HIDE DEF seg
<1>4. receiver' = w
  BY <1>2, <1>3 DEF receiver_segment_received
<1>5. /\ SoundReceiver(receiver) /\ receiver.icn = PeerISN
      /\ 0 .. SynPayload - 1 \subseteq H /\ arrived = Numbers(receiver)
      /\ receiver.have_FIN \in BOOLEAN
  BY DEF ReceiverInv, SoundReceiver
<1>6. unwrap(seg.seqno, receiver.icn, bytes_written(stream_out(receiver))) - 1 = index
  BY <1>1, <1>2, <1>5
<1>7. /\ SoundReceiver(w)
      /\ w.have_SYN = receiver.have_SYN /\ w.icn = receiver.icn
      /\ w.have_FIN = (receiver.have_FIN \/ seg.fin)
      /\ Held(w.reassembler) = H \cup (index .. index + len - 1)
      /\ w.reassembler.unassembled_start_index
            >= receiver.reassembler.unassembled_start_index
      /\ Len(w.reassembler.output.buffer) - w.reassembler.output.written
            = Len(receiver.reassembler.output.buffer) - receiver.reassembler.output.written
  <2>1. /\ seg.fin \in BOOLEAN
        /\ seg.fin => index + len = StreamLength
        /\ seg.fin => \/ receiver.have_FIN
                      \/ index <= receiver.reassembler.unassembled_start_index
    BY <1>1, <1>2, Zenon
  <2>2. Acceptable(receiver, seg, seg.seqno, index, len)
    <3> HIDE DEF index
    <3> QED BY <2>1, <1>1, <1>2, <1>5, <1>6, Zenon DEF Acceptable
  <2>3. Accepted(receiver, seg, w, index, len)
    BY <2>2, ReceiveSound
  <2> QED BY <2>3, Zenon DEF Accepted
<1> HIDE DEF w, H
<1>8. arrived' = Numbers(w)
  <2>1. arrived' = arrived \cup (first .. first + len + (IF fin THEN 1 ELSE 0) - 1)
    BY <1>1, <1>2, <1>3
  <2>2. \A x \in Nat : x \in arrived <=>
            x = 0 \/ x - 1 \in H \/ (receiver.have_FIN /\ x = FinSeqno)
    BY <1>5 DEF Numbers, H
  <2>3. \A x \in Nat : x \in Numbers(w) <=>
            \/ x = 0 \/ x - 1 \in H
            \/ x - 1 \in index .. index + len - 1
            \/ (receiver.have_FIN \/ fin) /\ x = FinSeqno
    BY <1>2, <1>7 DEF Numbers
  <2>4. \A x \in Nat : x \in first .. first + len + (IF fin THEN 1 ELSE 0) - 1 <=>
            x - 1 \in index .. index + len - 1 \/ (fin /\ x = FinSeqno)
    <3>1. CASE fin
      BY <3>1, <1>1, ReceiverSpecAssumption DEF FinSeqno
    <3>2. CASE ~fin
      BY <3>2, <1>1
    <3> QED BY <3>1, <3>2
  <2>5. arrived \subseteq Nat /\ Numbers(w) \subseteq Nat
    BY <1>5 DEF Numbers
  <2>6. first .. first + len + (IF fin THEN 1 ELSE 0) - 1 \subseteq Nat
    BY <1>1
  <2> HIDE DEF index
  <2>7. \A x \in Nat : x \in arrived' <=> x \in Numbers(w)
    BY <2>1, <2>2, <2>3, <2>4, Zenon
  <2> QED BY <2>1, <2>5, <2>6, <2>7
<1>9. 0 .. SynPayload - 1 \subseteq Held(w.reassembler)
  BY <1>5, <1>7
<1>10. ReceiverInv'
  BY <1>4, <1>5, <1>7, <1>8, <1>9, Zenon DEF ReceiverInv, SoundReceiver, Numbers
<1> QED BY <1>4, <1>7, <1>10

\* The SYN's segment, which may carry the first bytes of the stream.
LEMMA SynStep ==
    ASSUME FinOvertakes = FALSE, ReceiverInv, ~receiver.have_SYN,
           NEW len \in 0 .. StreamLength, NEW fin \in BOOLEAN, SegmentReceived(0, len, fin)
    PROVE  ReceiverInv'
<1> DEFINE seg == PeerSegment(0, len, fin)
           v == [NewTCPReceiver EXCEPT !.have_SYN = TRUE, !.icn = PeerISN]
           w == Receive(v, seg, wrap(1, PeerISN))
<1>1. /\ receiver = NewTCPReceiver /\ arrived = {}
      /\ len = SynPayload /\ ~fin
  BY DEF ReceiverInv, SegmentReceived
<1>2. len \in Nat /\ StreamLength \in Nat /\ len <= StreamLength /\ PeerISN \in WrappingInt32
  BY ReceiverSpecAssumption
<1>3. /\ seg.seqno = PeerISN /\ ~seg.fin /\ seg.fin \in BOOLEAN /\ seg.syn
      /\ seg.payload = Bytes(0, len) /\ length_in_sequence_space(seg) = len + 1
  <2>1. /\ seg.seqno = wrap(0, PeerISN) /\ seg.fin = fin /\ seg.syn = (0 = 0)
        /\ seg.payload = Bytes(IF 0 = 0 THEN 0 ELSE 0 - 1, len)
        /\ length_in_sequence_space(seg)
              = len + (IF 0 = 0 THEN 1 ELSE 0) + (IF fin THEN 1 ELSE 0)
    BY <1>2, PeerSegmentIs
  <2>2. len + 1 + 0 = len + 1
    BY <1>2
  <2>3. wrap(0, PeerISN) = PeerISN
    BY <1>2, FirstByte
  <2> HIDE DEF seg
  <2> QED BY <2>1, <2>2, <2>3, <1>1, Zenon
<1>4. /\ receiver' = receiver_segment_received(receiver, seg)
      /\ arrived' = 0 .. (0 + length_in_sequence_space(seg)) - 1
      /\ len > 0 => WithinWindow((0 + length_in_sequence_space(seg)) - 1 - 0)
  <2>1. /\ receiver' = receiver_segment_received(receiver, seg)
        /\ arrived' = IF receiver.have_SYN \/ seg.syn
                      THEN arrived \cup (0 .. (0 + length_in_sequence_space(seg)) - 1)
                      ELSE arrived
        /\ len > 0 => WithinWindow((0 + length_in_sequence_space(seg)) - 1
                                      - (IF fin THEN 1 ELSE 0))
    BY Zenon DEF SegmentReceived
  <2> HIDE DEF seg
  <2> QED BY <2>1, <1>1, <1>3, Zenon
<1> HIDE DEF seg
<1>5. receiver' = w
  BY <1>1, <1>3, <1>4, Zenon DEF receiver_segment_received
<1>6. /\ SoundReceiver(v) /\ v.have_SYN /\ ~v.have_FIN /\ v.icn = PeerISN
      /\ Held(v.reassembler) = {}
      /\ bytes_written(stream_out(v)) = 0
      /\ unassembled_max_index(v.reassembler) = RecvCapacity - 1
  BY <1>2, SynSound
<1>7. len > 0 => len <= RecvCapacity
  <2>1. bytes_read(stream_out(receiver)) = 0
    BY <1>1 DEF NewTCPReceiver, NewStreamReassembler, NewByteStream, stream_out, bytes_read,
                buffer_size
  <2> QED BY <2>1, <1>2, <1>3, <1>4, RecvCapacityAssumption DEF WithinWindow
<1> HIDE DEF v
<1>8. Acceptable(v, seg, wrap(1, PeerISN), 0, len)
  <2>1. unwrap(wrap(1, PeerISN), v.icn, bytes_written(stream_out(v))) - 1 = 0
    BY <1>2, <1>6, FirstByte
  <2>2. len > 0 => 0 + len - 1 <= unassembled_max_index(v.reassembler)
    BY <1>2, <1>6, <1>7, RecvCapacityAssumption
  <2>3. 0 \in Nat /\ 0 + len <= StreamLength
    BY <1>2
  <2> QED BY <2>1, <2>2, <2>3, <1>2, <1>3, <1>6, Zenon DEF Acceptable
<1>9. Accepted(v, seg, w, 0, len)
  BY <1>8, ReceiveSound
<1> HIDE DEF w
<1>10. /\ SoundReceiver(w) /\ w.have_SYN /\ w.icn = PeerISN /\ ~w.have_FIN
       /\ Held(w.reassembler) = 0 .. 0 + len - 1
  <2>1. {} \cup (0 .. 0 + len - 1) = 0 .. 0 + len - 1
    OBVIOUS
  <2> QED BY <2>1, <1>3, <1>6, <1>9, Zenon DEF Accepted
<1>11. 0 .. SynPayload - 1 \subseteq Held(w.reassembler)
  BY <1>1, <1>2, <1>10
<1>12. arrived' = Numbers(w)
  <2>1. Numbers(w) = {x \in Nat : x = 0 \/ x - 1 \in 0 .. len - 1}
    BY <1>2, <1>10 DEF Numbers
  <2>2. arrived' = 0 .. len
    BY <1>2, <1>3, <1>4
  <2> QED BY <2>1, <2>2, <1>2
<1> QED BY <1>5, <1>10, <1>11, <1>12, Zenon DEF ReceiverInv, SoundReceiver, Numbers

\* A SYN that is repeated brings nothing new.
LEMMA RepeatedSyn ==
    ASSUME FinOvertakes = FALSE, ReceiverInv, receiver.have_SYN,
           NEW len \in 0 .. StreamLength, NEW fin \in BOOLEAN, SegmentReceived(0, len, fin)
    PROVE  receiver' = receiver /\ arrived' = arrived
<1> DEFINE seg == PeerSegment(0, len, fin)
<1>1. len = SynPayload /\ ~fin /\ len \in Nat
  BY ReceiverSpecAssumption DEF SegmentReceived
<1>2. seg.syn /\ length_in_sequence_space(seg) = len + 1
  <2>1. /\ seg.syn = (0 = 0)
        /\ length_in_sequence_space(seg)
              = len + (IF 0 = 0 THEN 1 ELSE 0) + (IF fin THEN 1 ELSE 0)
    BY <1>1, PeerSegmentIs
  <2>2. len + 1 + 0 = len + 1
    BY <1>1
  <2> HIDE DEF seg
  <2> QED BY <2>1, <2>2, <1>1, Zenon
<1>3. /\ receiver' = receiver_segment_received(receiver, seg)
      /\ arrived' = IF receiver.have_SYN \/ seg.syn
                    THEN arrived \cup (0 .. (0 + length_in_sequence_space(seg)) - 1)
                    ELSE arrived
  BY Zenon DEF SegmentReceived
<1> HIDE DEF seg
<1>4. receiver' = receiver
  BY <1>2, <1>3, Zenon DEF receiver_segment_received
<1>5. arrived' = arrived \cup (0 .. (0 + (len + 1)) - 1)
  BY <1>2, <1>3, Zenon
<1>6. 0 .. (0 + (len + 1)) - 1 \subseteq arrived
  <2>1. arrived = Numbers(receiver) /\ 0 .. SynPayload - 1 \subseteq Held(receiver.reassembler)
    BY DEF ReceiverInv
  <2>2. \A x \in 0 .. (0 + (len + 1)) - 1 : x \in Nat /\ (x = 0 \/ x - 1 \in 0 .. SynPayload - 1)
    BY <1>1
  <2> QED BY <2>1, <2>2 DEF Numbers
<1> QED BY <1>4, <1>5, <1>6

\* The application's read.
LEMMA ReadStep ==
    ASSUME ReceiverInv, NEW n \in 1 .. RecvCapacity, Read(n)
    PROVE  /\ ReceiverInv'
           /\ receiver'.have_SYN = receiver.have_SYN
           /\ receiver'.have_FIN = receiver.have_FIN
           /\ receiver'.reassembler.unassembled_start_index
                 = receiver.reassembler.unassembled_start_index
           /\ Len(receiver'.reassembler.output.buffer)
                 = Len(receiver.reassembler.output.buffer) - n
<1> DEFINE q == receiver.reassembler
           q1 == [q EXCEPT !.output = stream_read(@, n)]
           w == receiver'
<1>1. /\ n \in Nat /\ n <= buffer_size(q.output)
      /\ w = [receiver EXCEPT !.reassembler.output = stream_read(@, n)]
      /\ arrived' = arrived
  BY RecvCapacityAssumption DEF Read, stream_out
<1>2. SoundReceiver(receiver)
  BY DEF ReceiverInv
<1>3. w = [have_SYN |-> receiver.have_SYN, have_FIN |-> receiver.have_FIN,
           icn |-> receiver.icn, reassembler |-> q1]
  <2>1. w = [receiver EXCEPT !.reassembler = q1]
    BY <1>1
  <2>2. IsReceiver(receiver)
    BY <1>2 DEF SoundReceiver
  <2> HIDE DEF w, q1
  <2> QED BY <2>1, <2>2 DEF IsReceiver
<1>4. Sound(q, RecvCapacity, StreamLength)
  BY <1>2 DEF SoundReceiver
<1>5. /\ Sound(q1, RecvCapacity, StreamLength) /\ Held(q1) = Held(q)
      /\ q1.have_eof = q.have_eof
      /\ q1.unassembled_start_index = q.unassembled_start_index
      /\ q1.output.ended = q.output.ended
      /\ Len(q1.output.buffer) = Len(q.output.buffer) - n
  BY <1>1, <1>4, ReadSound, RecvCapacityAssumption, ReceiverSpecAssumption
<1> HIDE DEF q1, w
<1>6. /\ w.have_SYN = receiver.have_SYN /\ w.have_FIN = receiver.have_FIN
      /\ w.icn = receiver.icn /\ w.reassembler = q1 /\ IsReceiver(w)
  BY <1>3 DEF IsReceiver
<1>7. SoundReceiver(w)
  BY <1>2, <1>5, <1>6, Zenon DEF SoundReceiver
<1>8. Numbers(w) = Numbers(receiver)
  BY <1>5, <1>6 DEF Numbers
<1>9. receiver.have_SYN
  <2> SUFFICES ASSUME ~receiver.have_SYN PROVE FALSE
    OBVIOUS
  <2>1. receiver = NewTCPReceiver
    BY DEF ReceiverInv
  <2>2. buffer_size(q.output) = 0
    BY <2>1 DEF NewTCPReceiver, NewStreamReassembler, NewByteStream, buffer_size
  <2> QED BY <2>2, <1>1
<1>10. /\ receiver.icn = PeerISN
       /\ 0 .. SynPayload - 1 \subseteq Held(q) /\ arrived = Numbers(receiver)
  BY <1>9 DEF ReceiverInv
<1>11. ReceiverInv'
  BY <1>1, <1>5, <1>6, <1>7, <1>8, <1>9, <1>10, Zenon DEF ReceiverInv, SoundReceiver, Numbers, w
<1> QED BY <1>5, <1>6, <1>11 DEF w

-----------------------------------------------------------------------------

\* What has arrived is what the receiver holds, along every behaviour in
\* which no FIN overtakes a byte.
THEOREM ReceiverIsSound ==
    ASSUME FinOvertakes = FALSE
    PROVE  Spec => []ReceiverInv
<1>1. Init => ReceiverInv
  <2> SUFFICES ASSUME Init PROVE ReceiverInv
    OBVIOUS
  <2> DEFINE q == NewStreamReassembler(RecvCapacity)
  <2>1. Sound(q, RecvCapacity, StreamLength) /\ q.have_eof = FALSE
    BY NewIsSound, RecvCapacityAssumption, ReceiverSpecAssumption DEF NewStreamReassembler
  <2> HIDE DEF q
  <2>2. /\ receiver.have_SYN = FALSE /\ receiver.have_FIN = FALSE /\ receiver.icn = 0
        /\ receiver.reassembler = q /\ IsReceiver(receiver)
    BY DEF Init, NewTCPReceiver, IsReceiver, q
  <2>3. 0 \in WrappingInt32
    BY TwoTo32Assumption DEF WrappingInt32
  <2>4. SoundReceiver(receiver)
    BY <2>1, <2>2, <2>3, Zenon DEF SoundReceiver
  <2> QED BY <2>2, <2>4, Zenon DEF Init, ReceiverInv
<1>2. ReceiverInv /\ [Next]_vars => ReceiverInv'
  <2> SUFFICES ASSUME ReceiverInv, [Next]_vars PROVE ReceiverInv'
    OBVIOUS
  <2>1. ASSUME NEW first \in 0 .. FinSeqno, NEW len \in 0 .. StreamLength,
               NEW fin \in BOOLEAN, SegmentReceived(first, len, fin)
        PROVE  ReceiverInv'
    <3>1. CASE receiver.have_SYN /\ first # 0
      BY <2>1, <3>1, SegmentStep
    <3>2. CASE receiver.have_SYN /\ first = 0
      <4>1. receiver' = receiver /\ arrived' = arrived
        BY <2>1, <3>2, RepeatedSyn
      <4> QED BY <4>1 DEF ReceiverInv, SoundReceiver, Numbers
    <3>3. CASE ~receiver.have_SYN /\ first = 0
      BY <2>1, <3>3, SynStep
    <3>4. CASE ~receiver.have_SYN /\ first # 0
      <4> DEFINE seg == PeerSegment(first, len, fin)
      <4>1. first \in Nat /\ len \in Nat
        BY ReceiverSpecAssumption DEF FinSeqno
      <4>2. seg.syn = (first = 0)
        BY <4>1, PeerSegmentIs
      <4>3. /\ receiver' = receiver_segment_received(receiver, seg)
            /\ arrived' = IF receiver.have_SYN \/ seg.syn
                          THEN arrived \cup (first .. (first + length_in_sequence_space(seg)) - 1)
                          ELSE arrived
        BY <2>1, Zenon DEF SegmentReceived
      <4> HIDE DEF seg
      <4>4. receiver' = receiver /\ arrived' = arrived
        BY <4>2, <4>3, <3>4, Zenon DEF receiver_segment_received
      <4> QED BY <4>4 DEF ReceiverInv, SoundReceiver, Numbers
    <3> QED BY <3>1, <3>2, <3>3, <3>4
  <2>2. ASSUME NEW n \in 1 .. RecvCapacity, Read(n) PROVE ReceiverInv'
    BY <2>2, ReadStep
  <2>3. CASE UNCHANGED vars
    BY <2>3 DEF vars, ReceiverInv, SoundReceiver, Numbers
  <2> QED BY <2>1, <2>2, <2>3 DEF Next
<1> QED BY <1>1, <1>2, PTL DEF Spec

\* Numbers of a sound receiver.
LEMMA ReceiverNumbers ==
    ASSUME NEW v, SoundReceiver(v)
    PROVE  /\ v.reassembler.unassembled_start_index \in Nat
           /\ v.reassembler.unassembled_start_index <= StreamLength
           /\ v.reassembler.output.written = v.reassembler.unassembled_start_index
           /\ Len(v.reassembler.output.buffer) \in Nat
           /\ v.reassembler.unassembled_start_index \notin Held(v.reassembler)
           /\ \A p \in Held(v.reassembler) : p \in Nat /\ p < StreamLength
           /\ AckAbsolute(v) = v.reassembler.unassembled_start_index
                                  + (IF v.have_FIN THEN 2 ELSE 1)
           /\ window_size(v) = RecvCapacity - Len(v.reassembler.output.buffer)
<1> DEFINE q == v.reassembler
           start == q.unassembled_start_index
           m == Len(q.output.buffer)
<1>1. Placed(q, RecvCapacity, StreamLength) /\ start \notin DOMAIN q.staged
  BY DEF SoundReceiver, Sound
<1>2. start \in Nat /\ m \in Nat
  BY <1>1, PlacedNumbers, RecvCapacityAssumption, ReceiverSpecAssumption
<1>3. start <= StreamLength /\ q.output.written = start
      /\ \A p \in DOMAIN q.staged : p \in Nat /\ p < StreamLength
  BY <1>1 DEF Placed, SoundStream
<1>4. start \notin Held(q) /\ \A p \in Held(q) : p \in Nat /\ p < StreamLength
  BY <1>1, <1>2, <1>3, ReceiverSpecAssumption DEF Held
<1>5. v.have_FIN => q.output.ended
  BY DEF SoundReceiver
<1>6. AckAbsolute(v) = start + (IF v.have_FIN THEN 2 ELSE 1)
  BY <1>3, <1>5 DEF AckAbsolute, bytes_written, stream_out
<1>7. window_size(v) = RecvCapacity - (start - (start - m))
  BY <1>3 DEF window_size, bytes_written, bytes_read, stream_out, buffer_size
<1> HIDE DEF m, start
<1>8. start - (start - m) = m
  BY <1>2
<1>9. window_size(v) = RecvCapacity - m
  BY <1>7, <1>8
<1> QED BY <1>2, <1>3, <1>4, <1>6, <1>9 DEF start, m

\* Every byte reaches its own position, however often the sequence numbers
\* wrap and in whatever order the segments come.
THEOREM AlwaysDeliveredInOrder ==
    ASSUME FinOvertakes = FALSE
    PROVE  Spec => []DeliveredInOrder
<1>1. ReceiverInv => DeliveredInOrder
  BY DEF ReceiverInv, SoundReceiver, Sound, Placed, SoundStream, DeliveredInOrder,
         stream_out, buffer_size, bytes_read
<1> QED BY <1>1, ReceiverIsSound, PTL

\* The output is ended only when it has the whole stream.
THEOREM EofIsAlwaysComplete ==
    ASSUME FinOvertakes = FALSE
    PROVE  Spec => []EofIsComplete
<1>1. ReceiverInv => EofIsComplete
  BY DEF ReceiverInv, SoundReceiver, Sound, Placed, EofIsComplete, stream_out, bytes_written
<1> QED BY <1>1, ReceiverIsSound, PTL

\* The acknowledgment number is the first number that has not arrived.
THEOREM AckIsAlwaysFirstMissing ==
    ASSUME FinOvertakes = FALSE
    PROVE  Spec => []AckIsFirstMissing
<1>1. ReceiverInv => AckIsFirstMissing
  <2> SUFFICES ASSUME ReceiverInv, receiver.have_SYN
               PROVE  /\ AckAbsolute(receiver) \notin arrived
                      /\ 0 .. AckAbsolute(receiver) - 1 \subseteq arrived
    BY DEF AckIsFirstMissing, has_ackno
  <2> DEFINE q == receiver.reassembler
             start == q.unassembled_start_index
             H == Held(q)
  <2>1. SoundReceiver(receiver) /\ arrived = Numbers(receiver)
    BY DEF ReceiverInv
  <2>2. /\ start \in Nat /\ start <= StreamLength /\ start \notin H
        /\ \A p \in H : p \in Nat /\ p < StreamLength
        /\ AckAbsolute(receiver) = start + (IF receiver.have_FIN THEN 2 ELSE 1)
    BY <2>1, ReceiverNumbers
  <2>3. 0 .. start - 1 \subseteq H
    BY DEF Held
  <2>4. \A x \in Nat : x \in arrived <=>
            x = 0 \/ x - 1 \in H \/ (receiver.have_FIN /\ x = FinSeqno)
    BY <2>1 DEF Numbers
  <2>5. receiver.have_FIN => start = StreamLength
    BY <2>1 DEF SoundReceiver
  <2> HIDE DEF start, H
  <2>6. CASE receiver.have_FIN
    <3>1. AckAbsolute(receiver) = StreamLength + 2 /\ start = StreamLength
      BY <2>2, <2>5, <2>6
    <3>2. StreamLength + 2 \notin arrived
      <4>1. StreamLength + 2 \in Nat /\ (StreamLength + 2) - 1 \notin H
        BY <2>2, ReceiverSpecAssumption
      <4> QED BY <4>1, <2>4, ReceiverSpecAssumption DEF FinSeqno
    <3>3. \A x \in 0 .. (StreamLength + 2) - 1 : x \in arrived
      <4> SUFFICES ASSUME NEW x \in 0 .. (StreamLength + 2) - 1 PROVE x \in arrived
        OBVIOUS
      <4>1. x \in Nat /\ (x = 0 \/ x - 1 \in 0 .. StreamLength - 1 \/ x = FinSeqno)
        BY ReceiverSpecAssumption DEF FinSeqno
      <4> QED BY <4>1, <3>1, <2>3, <2>4, <2>6
    <3> QED BY <3>1, <3>2, <3>3
  <2>7. CASE ~receiver.have_FIN
    <3>1. AckAbsolute(receiver) = start + 1
      BY <2>2, <2>7
    <3>2. start + 1 \notin arrived
      <4>1. start + 1 \in Nat /\ (start + 1) - 1 \notin H /\ start + 1 # 0
        BY <2>2
      <4> QED BY <4>1, <2>4, <2>7
    <3>3. \A x \in 0 .. (start + 1) - 1 : x \in arrived
      <4> SUFFICES ASSUME NEW x \in 0 .. (start + 1) - 1 PROVE x \in arrived
        OBVIOUS
      <4>1. x \in Nat /\ (x = 0 \/ x - 1 \in 0 .. start - 1)
        BY <2>2
      <4> QED BY <4>1, <2>3, <2>4
    <3> QED BY <3>1, <3>2, <3>3
  <2> QED BY <2>6, <2>7
<1> QED BY <1>1, ReceiverIsSound, PTL

\* unwrap() keeps the promise of its documentation at every point of the
\* stream and for every sequence number.
THEOREM UnwrapIsAlwaysClosest ==
    ASSUME FinOvertakes = FALSE
    PROVE  Spec => []UnwrapIsClosest
<1>1. ReceiverInv => UnwrapIsClosest
  <2> SUFFICES ASSUME ReceiverInv PROVE UnwrapIsClosest
    OBVIOUS
  <2> DEFINE checkpoint == bytes_written(stream_out(receiver))
             isn == receiver.icn
  <2>1. SoundReceiver(receiver)
    BY DEF ReceiverInv
  <2>2. checkpoint \in Nat /\ isn \in WrappingInt32
    BY <2>1, ReceiverNumbers DEF SoundReceiver, bytes_written, stream_out
  <2>3. 0 .. StreamLength + TwoTo32 \subseteq Nat
    BY TwoTo32Assumption, ReceiverSpecAssumption
  <2> HIDE DEF checkpoint, isn
  <2>4. \A seqno \in WrappingInt32 :
            /\ wrap(unwrap(seqno, isn, checkpoint), isn) = seqno
            /\ \A other \in Nat : wrap(other, isn) = seqno =>
                  Distance(unwrap(seqno, isn, checkpoint), checkpoint)
                     <= Distance(other, checkpoint)
    BY <2>2, UnwrapClosest
  <2> QED BY <2>3, <2>4 DEF UnwrapIsClosest, checkpoint, isn
<1> QED BY <1>1, ReceiverIsSound, PTL

\* What the receiver has advertised is never taken back.
THEOREM AdvertisedEdgesAlwaysAdvance ==
    ASSUME FinOvertakes = FALSE
    PROVE  Spec => AdvertisedEdgesAdvance
<1> DEFINE A == has_ackno(receiver) =>
                  /\ AckAbsolute(receiver') >= AckAbsolute(receiver)
                  /\ AckAbsolute(receiver') + window_size(receiver')
                        >= AckAbsolute(receiver) + window_size(receiver)
<1>1. ReceiverInv /\ ReceiverInv' /\ [Next]_vars => [A]_vars
  <2> SUFFICES ASSUME ReceiverInv, ReceiverInv', Next, receiver.have_SYN
               PROVE  /\ AckAbsolute(receiver') >= AckAbsolute(receiver)
                      /\ AckAbsolute(receiver') + window_size(receiver')
                            >= AckAbsolute(receiver) + window_size(receiver)
    BY DEF has_ackno
  <2> DEFINE start == receiver.reassembler.unassembled_start_index
             m == Len(receiver.reassembler.output.buffer)
             start1 == receiver'.reassembler.unassembled_start_index
             m1 == Len(receiver'.reassembler.output.buffer)
             ack == AckAbsolute(receiver)
             ack1 == AckAbsolute(receiver')
             edge == window_size(receiver)
             edge1 == window_size(receiver')
  <2>1. SoundReceiver(receiver) /\ SoundReceiver(receiver')
    BY DEF ReceiverInv, SoundReceiver
  <2>2. /\ start \in Nat /\ m \in Nat /\ receiver.reassembler.output.written = start
        /\ ack = start + (IF receiver.have_FIN THEN 2 ELSE 1)
        /\ edge = RecvCapacity - m
    BY <2>1, ReceiverNumbers
  <2>3. /\ start1 \in Nat /\ m1 \in Nat /\ receiver'.reassembler.output.written = start1
        /\ ack1 = start1 + (IF receiver'.have_FIN THEN 2 ELSE 1)
        /\ edge1 = RecvCapacity - m1
    BY <2>1, ReceiverNumbers
  <2>4. /\ receiver.have_FIN => receiver'.have_FIN
        /\ start1 >= start /\ start1 - m1 >= start - m
    <3>1. ASSUME NEW first \in 0 .. FinSeqno, NEW len \in 0 .. StreamLength,
                 NEW fin \in BOOLEAN, SegmentReceived(first, len, fin)
          PROVE  /\ receiver.have_FIN => receiver'.have_FIN
                 /\ start1 >= start /\ start1 - m1 >= start - m
      <4>1. CASE first # 0
        <5>1. /\ receiver.have_FIN => receiver'.have_FIN
              /\ start1 >= start /\ m1 - start1 = m - start
          BY <3>1, <4>1, <2>2, <2>3, SegmentStep
        <5> HIDE DEF start, m, start1, m1
        <5> QED BY <5>1, <2>2, <2>3
      <4>2. CASE first = 0
        <5>1. receiver' = receiver
          BY <3>1, <4>2, RepeatedSyn
        <5> QED BY <5>1, <2>2
      <4> QED BY <4>1, <4>2
    <3>2. ASSUME NEW n \in 1 .. RecvCapacity, Read(n)
          PROVE  /\ receiver.have_FIN => receiver'.have_FIN
                 /\ start1 >= start /\ start1 - m1 >= start - m
      <4>1. /\ receiver'.have_FIN = receiver.have_FIN /\ start1 = start /\ m1 = m - n
            /\ n \in Nat
        <5>1. /\ receiver'.have_FIN = receiver.have_FIN /\ start1 = start /\ m1 = m - n
          BY <3>2, ReadStep, Zenon
        <5>2. n \in Nat
          BY RecvCapacityAssumption
        <5> QED BY <5>1, <5>2
      <4> HIDE DEF start, m, start1, m1
      <4> QED BY <4>1, <2>2
    <3> QED BY <3>1, <3>2 DEF Next
  <2>5. RecvCapacity \in Nat
    BY RecvCapacityAssumption
  <2> HIDE DEF start, m, start1, m1, ack, ack1, edge, edge1
  <2>6. ack1 >= ack /\ ack1 + edge1 >= ack + edge
    <3>1. CASE receiver.have_FIN
      BY <3>1, <2>2, <2>3, <2>4, <2>5
    <3>2. CASE ~receiver.have_FIN
      BY <3>2, <2>2, <2>3, <2>4, <2>5
    <3> QED BY <3>1, <3>2
  <2> QED BY <2>6 DEF ack, ack1, edge, edge1
<1> QED BY <1>1, ReceiverIsSound, PTL DEF AdvertisedEdgesAdvance, Spec
=============================================================================
