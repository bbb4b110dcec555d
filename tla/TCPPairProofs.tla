--------------------------- MODULE TCPPairProofs ----------------------------
(***************************************************************************)
(* Two connections over a network that loses, repeats and reorders: what   *)
(* one has received is a prefix of what the other has sent, for every      *)
(* window, payload size, stream length, number of retransmissions and      *)
(* whatever the network does.                                              *)
(*                                                                         *)
(* The argument: every segment that waits anywhere is genuine, that is, it *)
(* says of its sender's stream only what is so; genuine segments stay so   *)
(* as the sender goes on; and a receiver that is given genuine segments    *)
(* only, in any order, any number of times, holds its peer's bytes, each   *)
(* in its place.  Acknowledgments play no part in this.                    *)
(***************************************************************************)
EXTENDS TCPPair, TCPSenderLemmas, StreamReassemblerProofs

\* seg is p's SYN, or holds consecutive bytes that p has sent, or holds none.
Genuine(seg, p, sent) ==
    /\ seg \in Segment
    /\ seg.syn => seg.seqno = ISN[p] /\ seg.payload = << >> /\ ~seg.fin
    /\ ~seg.syn /\ (seg.payload # << >> \/ seg.fin) =>
          \E index \in Nat :
              /\ seg.seqno = wrap(index + 1, ISN[p])
              /\ seg.payload = Bytes(index, Len(seg.payload))
              /\ index + Len(seg.payload) <= sent
              /\ seg.fin => index + Len(seg.payload) = BytesToSend[p]

AllGenuine(segs, p, sent) ==
    /\ segs \in Seq(Segment)
    /\ \A i \in 1 .. Len(segs) : Genuine(segs[i], p, sent)

SentBy(s) == bytes_read(s.stream)

\* A sender of p's stream.
SenderOK(s, p) ==
    /\ Good(s) /\ s.isn = ISN[p]
    /\ s.stream.written <= BytesToSend[p]
    /\ s.stream.ended => s.stream.written = BytesToSend[p]
    /\ AllGenuine(s.segments_out, p, SentBy(s))

IsReceiver(v) ==
    v = [have_SYN |-> v.have_SYN, have_FIN |-> v.have_FIN, icn |-> v.icn,
         reassembler |-> v.reassembler]

\* A receiver of the stream of o, which has sent that many bytes of it.
ReceiverOK(v, o, sent) ==
    /\ IsReceiver(v)
    /\ v.have_SYN \in BOOLEAN /\ v.have_FIN \in BOOLEAN /\ v.icn \in WrappingInt32
    /\ v.have_SYN => v.icn = ISN[o]
    /\ Placed(v.reassembler, RecvCapacity, BytesToSend[o])
    /\ Held(v.reassembler) \subseteq 0 .. sent - 1

-----------------------------------------------------------------------------
(* Segments *)

LEMMA PeerConstants ==
    ASSUME NEW p \in Peers
    PROVE  /\ ISN[p] \in WrappingInt32 /\ BytesToSend[p] \in Nat
           /\ 2 * (BytesToSend[p] + 1) < TwoTo32
           /\ Other(p) \in Peers /\ Other(Other(p)) = p /\ Other(p) # p
<1>1. ISN[p] \in WrappingInt32 /\ BytesToSend[p] \in Nat
  BY PairAssumption
<1>2. 2 * (BytesToSend[p] + 1) < TwoTo32
  BY ShortStreamsAssumption
<1>3. Other(p) \in Peers /\ Other(Other(p)) = p /\ Other(p) # p
  BY DEF Other, Peers
<1> QED BY <1>1, <1>2, <1>3

\* The fields of a segment have their types.
LEMMA SegmentFields ==
    ASSUME NEW seg \in Segment
    PROVE  /\ seg.seqno \in WrappingInt32 /\ seg.ackno \in WrappingInt32
           /\ seg.ack \in BOOLEAN /\ seg.rst \in BOOLEAN
           /\ seg.syn \in BOOLEAN /\ seg.fin \in BOOLEAN
           /\ seg.win \in Window /\ seg.payload \in Seq(Nat) /\ Len(seg.payload) \in Nat
<1>1. /\ seg.seqno \in WrappingInt32 /\ seg.ackno \in WrappingInt32
      /\ seg.ack \in BOOLEAN /\ seg.rst \in BOOLEAN
      /\ seg.syn \in BOOLEAN /\ seg.fin \in BOOLEAN
      /\ seg.win \in Window /\ seg.payload \in Seq(Nat)
  BY DEF Segment, SegmentType
<1> QED BY <1>1, LenProperties

\* What is genuine stays so as the sender sends more.
LEMMA StaysGenuine ==
    ASSUME NEW p, NEW a \in Nat, NEW b \in Nat, a <= b, NEW seg, Genuine(seg, p, a)
    PROVE  Genuine(seg, p, b)
<1>1. seg \in Segment /\ Len(seg.payload) \in Nat
  BY SegmentFields DEF Genuine
<1>2. ASSUME ~seg.syn, seg.payload # << >> \/ seg.fin
      PROVE  \E index \in Nat :
                /\ seg.seqno = wrap(index + 1, ISN[p])
                /\ seg.payload = Bytes(index, Len(seg.payload))
                /\ index + Len(seg.payload) <= b
                /\ seg.fin => index + Len(seg.payload) = BytesToSend[p]
  <2>1. PICK index \in Nat :
                /\ seg.seqno = wrap(index + 1, ISN[p])
                /\ seg.payload = Bytes(index, Len(seg.payload))
                /\ index + Len(seg.payload) <= a
                /\ seg.fin => index + Len(seg.payload) = BytesToSend[p]
    BY <1>2 DEF Genuine
  <2> DEFINE len == Len(seg.payload)
  <2>2. index + len <= a /\ len \in Nat
    BY <1>1, <2>1
  <2> HIDE DEF len
  <2>3. index + len <= b
    BY <2>2
  <2> QED BY <2>1, <2>3 DEF len
<1> QED BY <1>1, <1>2 DEF Genuine

LEMMA AllStayGenuine ==
    ASSUME NEW p, NEW a \in Nat, NEW b \in Nat, a <= b, NEW segs, AllGenuine(segs, p, a)
    PROVE  AllGenuine(segs, p, b)
BY StaysGenuine DEF AllGenuine

\* Queues of genuine segments can be joined and cut.
LEMMA JoinGenuine ==
    ASSUME NEW p, NEW sent, NEW a, NEW b, AllGenuine(a, p, sent), AllGenuine(b, p, sent)
    PROVE  AllGenuine(a \o b, p, sent)
<1>1. /\ a \in Seq(Segment) /\ b \in Seq(Segment) /\ Len(a) \in Nat /\ Len(b) \in Nat
      /\ \A i \in 1 .. Len(a) : Genuine(a[i], p, sent)
      /\ \A i \in 1 .. Len(b) : Genuine(b[i], p, sent)
  BY LenProperties DEF AllGenuine
<1>2. /\ a \o b \in Seq(Segment) /\ Len(a \o b) = Len(a) + Len(b)
      /\ \A i \in 1 .. Len(a) + Len(b) :
            (a \o b)[i] = IF i <= Len(a) THEN a[i] ELSE b[i - Len(a)]
  BY <1>1, ConcatProperties
<1> DEFINE c == a \o b
<1> HIDE DEF c
<1>3. ASSUME NEW i \in 1 .. Len(a) + Len(b) PROVE Genuine(c[i], p, sent)
  <2>1. CASE i <= Len(a)
    <3>1. i \in 1 .. Len(a)
      BY <1>1, <2>1
    <3> QED BY <1>1, <1>2, <2>1, <3>1 DEF c
  <2>2. CASE ~(i <= Len(a))
    <3>1. i - Len(a) \in 1 .. Len(b)
      BY <1>1, <2>2
    <3> QED BY <1>1, <1>2, <2>2, <3>1 DEF c
  <2> QED BY <2>1, <2>2
<1> QED BY <1>2, <1>3 DEF AllGenuine, c

LEMMA OneGenuine ==
    ASSUME NEW p, NEW sent, NEW segs, AllGenuine(segs, p, sent),
           NEW seg, Genuine(seg, p, sent)
    PROVE  AllGenuine(Append(segs, seg), p, sent)
<1>1. segs \in Seq(Segment) /\ seg \in Segment
  BY DEF AllGenuine, Genuine
<1>2. Append(segs, seg) = segs \o << seg >>
  BY <1>1, AppendIsConcat
<1>3. << seg >> \in Seq(Segment) /\ Len(<< seg >>) = 1 /\ << seg >>[1] = seg
  BY <1>1
<1>4. AllGenuine(<< seg >>, p, sent)
  BY <1>3 DEF AllGenuine
<1> QED BY <1>2, <1>4, JoinGenuine

LEMMA NoneGenuine ==
    ASSUME NEW p, NEW sent
    PROVE  AllGenuine(<< >>, p, sent)
<1>1. << >> \in Seq(Segment) /\ Len(<< >>) = 0
  BY EmptySeq
<1> QED BY <1>1 DEF AllGenuine

LEMMA CutGenuine ==
    ASSUME NEW p, NEW sent, NEW segs, AllGenuine(segs, p, sent), NEW i \in 1 .. Len(segs)
    PROVE  AllGenuine(Without(segs, i), p, sent)
<1> DEFINE n == Len(segs)
<1>1. segs \in Seq(Segment) /\ n \in Nat /\ \A j \in 1 .. n : Genuine(segs[j], p, sent)
  BY LenProperties DEF AllGenuine
<1>2. ASSUME NEW a \in 1 .. n + 1, NEW b \in 0 .. n
      PROVE  AllGenuine(SubSeq(segs, a, b), p, sent)
  <2> DEFINE part == SubSeq(segs, a, b)
  <2>1. \A j \in a .. b : segs[j] \in Segment /\ j \in 1 .. n
    BY <1>1 DEF Genuine
  <2>2. /\ part \in Seq(Segment) /\ Len(part) = IF a <= b THEN b - a + 1 ELSE 0
        /\ \A j \in 1 .. b - a + 1 : part[j] = segs[a + j - 1]
    BY <1>1, <2>1, SubSeqProperties
  <2> HIDE DEF part
  <2>3. ASSUME NEW j \in 1 .. Len(part) PROVE Genuine(part[j], p, sent)
    <3>1. j \in 1 .. b - a + 1 /\ a + j - 1 \in 1 .. n
      BY <1>1, <2>2
    <3> QED BY <1>1, <2>2, <3>1
  <2>4. AllGenuine(part, p, sent)
    BY <2>2, <2>3 DEF AllGenuine
  <2> QED BY <2>4 DEF part
<1>3. 1 \in 1 .. n + 1 /\ i - 1 \in 0 .. n /\ i + 1 \in 1 .. n + 1 /\ n \in 0 .. n
  BY <1>1
<1>4. AllGenuine(SubSeq(segs, 1, i - 1), p, sent) /\ AllGenuine(SubSeq(segs, i + 1, n), p, sent)
  BY <1>2, <1>3
<1> QED BY <1>4, JoinGenuine DEF Without

-----------------------------------------------------------------------------
(* Senders *)

\* Everything a sender tracks is genuine: it lies where its number says, it
\* was taken off the stream, and only the end of the stream has the FIN.
LEMMA TrackedGenuine ==
    ASSUME NEW p \in Peers, NEW s, Good(s), s.isn = ISN[p],
           s.stream.ended => s.stream.written = BytesToSend[p],
           NEW k \in 1 .. Len(s.tracking)
    PROVE  Genuine(s.tracking[k], p, SentBy(s))
<1> DEFINE seg == s.tracking[k]
           start == TrackedUpTo(s, k - 1)
           len == Len(seg.payload)
<1>1. WellTyped(s) /\ Tiled(s) /\ ContentOK(s) /\ SentBy(s) \in Nat
  BY StreamFields DEF Good, SentBy
<1>2. seg \in Segment /\ start \in Nat
  <2>1. /\ seg \in Segment /\ SequenceSpace(s.tracking) \in [0 .. Len(s.tracking) -> Nat]
        /\ Len(s.tracking) \in Nat /\ s.next_ackno \in Nat
    BY <1>1, TrackedTotals, SenderFields
  <2>2. k - 1 \in 0 .. Len(s.tracking)
    BY <2>1
  <2>3. SequenceSpace(s.tracking)[k - 1] \in Nat
    BY <2>1, <2>2
  <2> QED BY <2>1, <2>3 DEF TrackedUpTo
<1>3. seg.payload \in Seq(Nat) /\ len \in Nat /\ seg.syn \in BOOLEAN
  BY <1>2, SegmentFields
<1>4. seg.seqno = wrap(start, ISN[p])
  BY <1>1 DEF Tiled
<1>5. /\ seg.syn <=> start = 0
      /\ seg.syn => seg.payload = << >> /\ ~seg.fin
      /\ \A i \in 1 .. len : seg.payload[i] = start + i - 2
      /\ start + len <= SentBy(s) + 1
      /\ seg.fin => s.stream.ended /\ start + len = s.stream.written + 1
  BY <1>1 DEF ContentOK, Carries, SentBy, eof, bytes_written
<1>6. ASSUME seg.syn PROVE seg.seqno = ISN[p]
  <2>1. ISN[p] \in WrappingInt32 /\ ISN[p] \in Nat
    BY PeerConstants DEF WrappingInt32
  <2>2. ISN[p] = TwoTo32 * 0 + ISN[p]
    BY <2>1, TwoTo32Assumption
  <2>3. ISN[p] % TwoTo32 = ISN[p]
    BY <2>1, <2>2, DivModUnique
  <2>4. start = 0
    BY <1>5, <1>6
  <2> QED BY <1>4, <2>1, <2>3, <2>4 DEF wrap
<1>7. ASSUME ~seg.syn
      PROVE  \E index \in Nat :
                /\ seg.seqno = wrap(index + 1, ISN[p])
                /\ seg.payload = Bytes(index, len)
                /\ index + len <= SentBy(s)
                /\ seg.fin => index + len = BytesToSend[p]
  <2> DEFINE index == start - 1
  <2> HIDE DEF seg, start, len
  <2>1. index \in Nat /\ index + 1 = start
    BY <1>2, <1>5, <1>7
  <2>2. index + len <= SentBy(s)
    BY <1>1, <1>3, <1>5, <2>1
  <2>3. seg.fin => index + len = BytesToSend[p]
    <3> DEFINE w == s.stream.written
    <3>1. /\ w \in Nat
          /\ seg.fin => start + len = w + 1 /\ w = BytesToSend[p]
      BY <1>1, <1>5, StreamFields
    <3> HIDE DEF w
    <3>2. start + len = w + 1 => index + len = w
      BY <1>2, <1>3, <2>1, <3>1
    <3> QED BY <3>1, <3>2
  <2>4. seg.payload = Bytes(index, len)
    <3>1. seg.payload \in [1 .. len -> Nat]
      BY <1>3, LenProperties DEF len
    <3>2. ASSUME NEW i \in 1 .. len PROVE seg.payload[i] = index + i - 1
      <4>1. start + i - 2 = index + i - 1
        BY <1>3, <2>1
      <4>2. seg.payload[i] = start + i - 2
        BY <1>5
      <4> QED BY <4>1, <4>2
    <3> QED BY <3>1, <3>2 DEF Bytes
  <2> HIDE DEF index
  <2> QED BY <1>4, <2>1, <2>2, <2>3, <2>4
<1> QED BY <1>2, <1>5, <1>6, <1>7 DEF Genuine

\* A step of a sender whose new segments are tracked ones.
LEMMA SenderStep ==
    ASSUME NEW p \in Peers, NEW s, SenderOK(s, p), NEW t, Good(t), t.isn = s.isn,
           t.stream.written <= BytesToSend[p],
           t.stream.ended => t.stream.written = BytesToSend[p],
           SentBy(t) >= SentBy(s), OutFrom(s, t)
    PROVE  SenderOK(t, p)
<1>1. SentBy(s) \in Nat /\ SentBy(t) \in Nat /\ t.segments_out \in Seq(Segment)
  BY StreamFields, SenderFields DEF SenderOK, Good, SentBy
<1>2. AllGenuine(s.segments_out, p, SentBy(t))
  BY <1>1, AllStayGenuine DEF SenderOK
<1>3. t.isn = ISN[p]
  BY DEF SenderOK
<1>4. \A k \in 1 .. Len(t.tracking) : Genuine(t.tracking[k], p, SentBy(t))
  BY <1>3, TrackedGenuine
<1>5. \A i \in 1 .. Len(t.segments_out) : Genuine(t.segments_out[i], p, SentBy(t))
  BY <1>2, <1>4 DEF OutFrom, AllGenuine
<1> QED BY <1>1, <1>3, <1>5 DEF SenderOK, AllGenuine

LEMMA FillOK ==
    ASSUME NEW p \in Peers, NEW s, SenderOK(s, p)
    PROVE  SenderOK(fill_window(s), p) /\ SentBy(fill_window(s)) >= SentBy(s)
<1> DEFINE t == fill_window(s)
<1>1. Good(s) /\ Good(t)
  BY FillWindowGood DEF SenderOK
<1>2. /\ t.isn = s.isn /\ OutFrom(s, t)
      /\ t.stream.written = s.stream.written /\ t.stream.ended = s.stream.ended
      /\ SentBy(t) >= SentBy(s)
  BY <1>1, FillWindowSends DEF SentBy
<1> HIDE DEF t
<1>3. SenderOK(t, p)
  BY <1>1, <1>2, SenderStep DEF SenderOK
<1> QED BY <1>2, <1>3 DEF t

LEMMA AckOK ==
    ASSUME NEW p \in Peers, NEW s, SenderOK(s, p),
           NEW ackno \in WrappingInt32, NEW win \in Window
    PROVE  /\ SenderOK(ack_received(s, ackno, win), p)
           /\ SentBy(ack_received(s, ackno, win)) = SentBy(s)
<1> DEFINE t == ack_received(s, ackno, win)
<1>1. Good(s) /\ Good(t) /\ WellTyped(s) /\ SentBy(s) \in Nat
  BY AckReceivedGood, StreamFields DEF SenderOK, Good, SentBy
<1>2. t.isn = s.isn /\ t.stream = s.stream /\ t.segments_out = s.segments_out
  BY <1>1, AckReceivedFields
<1> HIDE DEF t
<1>3. OutFrom(s, t) /\ SentBy(t) = SentBy(s) /\ SentBy(t) >= SentBy(s)
  BY <1>1, <1>2 DEF OutFrom, SentBy
<1>4. SenderOK(t, p)
  BY <1>1, <1>2, <1>3, SenderStep DEF SenderOK
<1> QED BY <1>3, <1>4 DEF t

LEMMA TickOK ==
    ASSUME NEW p \in Peers, NEW s, SenderOK(s, p), NEW ms \in Nat
    PROVE  SenderOK(sender_tick(s, ms), p) /\ SentBy(sender_tick(s, ms)) = SentBy(s)
<1> DEFINE t == sender_tick(s, ms)
<1>1. Good(s) /\ Good(t) /\ Untouched(s, t)
      /\ \/ t.segments_out = s.segments_out
         \/ s.tracked_count # 0 /\ t.segments_out = Append(s.segments_out, s.tracking[1])
  BY TickGood DEF SenderOK
<1> HIDE DEF t
<1>2. SentBy(t) = SentBy(s) /\ t.stream = s.stream /\ t.isn = s.isn
  BY <1>1 DEF Untouched, SentBy
<1>3. AllGenuine(t.segments_out, p, SentBy(s))
  <2>1. CASE t.segments_out = s.segments_out
    BY <2>1 DEF SenderOK
  <2>2. CASE s.tracked_count # 0 /\ t.segments_out = Append(s.segments_out, s.tracking[1])
    <3>1. 1 \in 1 .. Len(s.tracking)
      BY <1>1, <2>2, FlightIsTracked DEF Good
    <3>2. Genuine(s.tracking[1], p, SentBy(s))
      BY <3>1, TrackedGenuine DEF SenderOK
    <3> QED BY <2>2, <3>2, OneGenuine DEF SenderOK
  <2> QED BY <1>1, <2>1, <2>2
<1>4. SenderOK(t, p)
  BY <1>1, <1>2, <1>3 DEF SenderOK
<1> QED BY <1>2, <1>4 DEF t

LEMMA EmptyOK ==
    ASSUME NEW p \in Peers, NEW s, SenderOK(s, p)
    PROVE  SenderOK(send_empty_segment(s), p) /\ SentBy(send_empty_segment(s)) = SentBy(s)
<1> DEFINE t == send_empty_segment(s)
<1>1. Good(t) /\ Untouched(s, t)
  BY SendEmptyGood DEF SenderOK
<1>2. PICK seg \in Segment : /\ ~seg.syn /\ ~seg.fin /\ seg.payload = << >>
                             /\ t.segments_out = Append(s.segments_out, seg)
  BY SendEmptyGood DEF SenderOK
<1> HIDE DEF t
<1>3. SentBy(t) = SentBy(s) /\ t.stream = s.stream /\ t.isn = s.isn
  BY <1>1 DEF Untouched, SentBy
<1>4. Genuine(seg, p, SentBy(s))
  BY <1>2 DEF Genuine
<1>5. AllGenuine(t.segments_out, p, SentBy(s))
  BY <1>2, <1>4, OneGenuine DEF SenderOK
<1>6. SenderOK(t, p)
  BY <1>1, <1>3, <1>5 DEF SenderOK
<1> QED BY <1>3, <1>6 DEF t

LEMMA DrainOK ==
    ASSUME NEW p \in Peers, NEW s, SenderOK(s, p)
    PROVE  LET t == [s EXCEPT !.segments_out = << >>]
           IN  SenderOK(t, p) /\ SentBy(t) = SentBy(s)
<1> DEFINE t == [s EXCEPT !.segments_out = << >>]
<1>1. << >> \in Seq(Segment)
  BY EmptySeq
<1>2. Good(t) /\ Untouched(s, t) /\ t.segments_out = << >>
  BY <1>1, OutputGood DEF SenderOK
<1> HIDE DEF t
<1>3. SentBy(t) = SentBy(s) /\ t.stream = s.stream /\ t.isn = s.isn
  BY <1>2 DEF Untouched, SentBy
<1>4. SenderOK(t, p)
  BY <1>2, <1>3, NoneGenuine DEF SenderOK
<1> QED BY <1>3, <1>4 DEF t

-----------------------------------------------------------------------------
(* Receivers *)

\* A receiver with another reassembler.
LEMMA OtherReassembler ==
    ASSUME NEW v, IsReceiver(v), NEW q, NEW w, w = [v EXCEPT !.reassembler = q]
    PROVE  /\ IsReceiver(w) /\ w.have_SYN = v.have_SYN /\ w.have_FIN = v.have_FIN
           /\ w.icn = v.icn /\ w.reassembler = q
<1>1. PICK a, b, c, d : v = [have_SYN |-> a, have_FIN |-> b, icn |-> c, reassembler |-> d]
  BY DEF IsReceiver
<1>2. w = [have_SYN |-> a, have_FIN |-> b, icn |-> c, reassembler |-> q]
  BY <1>1
<1> QED BY <1>1, <1>2 DEF IsReceiver

\* What the reassembler is given by a genuine segment it puts in its place: the
\* segment's number is unwrapped to the position its sender meant.
LEMMA PushOK ==
    ASSUME NEW o \in Peers, NEW sent \in Nat, sent <= BytesToSend[o],
           NEW v, ReceiverOK(v, o, sent), v.have_SYN,
           NEW seg, Genuine(seg, o, sent), NEW seqno, ~seg.syn => seqno = seg.seqno
    PROVE  LET index == unwrap(seqno, v.icn, bytes_written(stream_out(v))) - 1
               pushed == push_substring(v.reassembler, seg.payload, index, seg.fin)
           IN  /\ Placed(pushed, RecvCapacity, BytesToSend[o])
               /\ Held(pushed) \subseteq 0 .. sent - 1
<1> DEFINE q == v.reassembler
           total == BytesToSend[o]
           written == bytes_written(stream_out(v))
           index == unwrap(seqno, v.icn, written) - 1
           len == Len(seg.payload)
           pushed == push_substring(q, seg.payload, index, seg.fin)
<1>1. /\ Placed(q, RecvCapacity, total) /\ Held(q) \subseteq 0 .. sent - 1
      /\ v.icn = ISN[o] /\ RecvCapacity \in Nat \ {0}
  BY RecvCapacityAssumption DEF ReceiverOK
<1>2. total \in Nat /\ 2 * (total + 1) < TwoTo32 /\ ISN[o] \in WrappingInt32
  BY PeerConstants
<1>3. seg \in Segment /\ len \in Nat /\ seg.fin \in BOOLEAN /\ seg.syn \in BOOLEAN
  BY SegmentFields DEF Genuine
<1>4. CASE seg.payload = << >> /\ ~seg.fin
  <2>1. pushed = eof_process(q)
    BY <1>4 DEF push_substring, NoteEof
  <2> HIDE DEF pushed, q, total
  <2>2. Placed(pushed, RecvCapacity, total) /\ Held(pushed) = Held(q)
    BY <1>1, <1>2, <2>1, EofPlaced
  <2> QED BY <1>1, <2>2 DEF pushed, total, q
<1>5. CASE seg.payload # << >> \/ seg.fin
  <2>1. ~seg.syn
    BY <1>5 DEF Genuine
  <2>2. PICK at \in Nat : /\ seg.seqno = wrap(at + 1, ISN[o])
                          /\ seg.payload = Bytes(at, len)
                          /\ at + len <= sent
                          /\ seg.fin => at + len = total
    BY <1>5, <2>1 DEF Genuine
  <2>3. written \in Nat /\ written <= total
    BY <1>1, PlacedNumbers DEF Placed, SoundStream, bytes_written, stream_out
  <2> HIDE DEF len, written, total, q, pushed
  <2>4. at + 1 \in Nat /\ 2 * Distance(at + 1, written) < TwoTo32
    <3>1. at <= total
      BY <1>2, <1>3, <2>2 DEF total
    <3>2. Distance(at + 1, written) <= total + 1 /\ Distance(at + 1, written) \in Int
      BY <1>2, <2>3, <3>1 DEF Distance
    <3> HIDE DEF total
    <3> QED BY <1>2, <3>2, TwoTo32Assumption
  <2>5. unwrap(wrap(at + 1, ISN[o]), ISN[o], written) = at + 1
    BY <1>2, <2>3, <2>4, RoundTrip
  <2>6. index = at
    <3>1. unwrap(seqno, v.icn, written) = at + 1
      BY <1>1, <2>1, <2>2, <2>5
    <3>2. at + 1 - 1 = at
      OBVIOUS
    <3> QED BY <3>1, <3>2
  <2> DEFINE fin == seg.fin
  <2>7. /\ pushed = push_substring(q, Bytes(at, len), at, fin) /\ fin \in BOOLEAN
        /\ at + len <= total /\ (fin => at + len = total)
    <3>1. at + len <= total
      BY <1>2, <1>3, <2>2 DEF total
    <3>2. pushed = push_substring(q, Bytes(at, len), at, fin)
      BY <2>2, <2>6 DEF pushed
    <3> QED BY <1>3, <2>2, <3>1, <3>2
  <2> HIDE DEF fin, index
  <2>8. /\ Placed(pushed, RecvCapacity, total)
        /\ Held(pushed) = Held(q) \cup
              {x \in at .. at + len - 1 : x <= unassembled_max_index(q)}
    BY <1>1, <1>2, <1>3, <2>7, PushPlaced, SMTT(30) DEF len
  <2>9. \A x \in at .. at + len - 1 : x \in 0 .. sent - 1
    BY <1>3, <2>2 DEF len
  <2>10. Held(pushed) \subseteq 0 .. sent - 1
    BY <1>1, <2>8, <2>9
  <2> QED BY <2>8, <2>10 DEF pushed, total, q, index, written
<1> QED BY <1>4, <1>5

LEMMA ReceiveOK ==
    ASSUME NEW o \in Peers, NEW sent \in Nat, sent <= BytesToSend[o],
           NEW v, ReceiverOK(v, o, sent), v.have_SYN,
           NEW seg, Genuine(seg, o, sent), NEW seqno, ~seg.syn => seqno = seg.seqno
    PROVE  ReceiverOK(Receive(v, seg, seqno), o, sent)
<1> DEFINE index == unwrap(seqno, v.icn, bytes_written(stream_out(v))) - 1
           pushed == push_substring(v.reassembler, seg.payload, index, seg.fin)
           fin == v.have_FIN \/ seg.fin
           flagged == [pushed EXCEPT !.output = end_input(@)]
           last == IF fin /\ reassembler_empty(pushed) THEN flagged ELSE pushed
           w == Receive(v, seg, seqno)
<1>1. BytesToSend[o] \in Nat /\ RecvCapacity \in Nat \ {0}
  BY PeerConstants, RecvCapacityAssumption
<1>2. /\ Placed(pushed, RecvCapacity, BytesToSend[o])
      /\ Held(pushed) \subseteq 0 .. sent - 1
  BY PushOK
<1>3. w = [v EXCEPT !.have_FIN = fin, !.reassembler = last]
  BY DEF Receive
<1>4. fin \in BOOLEAN
  BY SegmentFields DEF ReceiverOK, Genuine
<1> HIDE DEF pushed, fin, w
<1>5. /\ Placed(flagged, RecvCapacity, BytesToSend[o])
      /\ Held(flagged) \subseteq 0 .. sent - 1
  <2>1. flagged = [pushed EXCEPT !.output = end_input(pushed.output)]
    OBVIOUS
  <2> QED BY <1>1, <1>2, <2>1, FlagPlaced
<1> HIDE DEF flagged
<1>6. /\ Placed(last, RecvCapacity, BytesToSend[o])
      /\ Held(last) \subseteq 0 .. sent - 1
  BY <1>2, <1>5
<1> HIDE DEF last
<1>7. /\ IsReceiver(w) /\ w.have_SYN = v.have_SYN /\ w.have_FIN = fin
      /\ w.icn = v.icn /\ w.reassembler = last
  <2>1. PICK a, b, c, d : v = [have_SYN |-> a, have_FIN |-> b, icn |-> c, reassembler |-> d]
    BY DEF ReceiverOK, IsReceiver
  <2>2. w = [have_SYN |-> a, have_FIN |-> fin, icn |-> c, reassembler |-> last]
    BY <1>3, <2>1
  <2> QED BY <2>1, <2>2 DEF IsReceiver
<1>8. ReceiverOK(w, o, sent)
  BY <1>4, <1>6, <1>7 DEF ReceiverOK
<1> QED BY <1>8 DEF w

\* segment_received() of a genuine segment.
LEMMA TakenOK ==
    ASSUME NEW o \in Peers, NEW sent \in Nat, sent <= BytesToSend[o],
           NEW v, ReceiverOK(v, o, sent), NEW seg, Genuine(seg, o, sent)
    PROVE  ReceiverOK(receiver_segment_received(v, seg), o, sent)
<1>1. CASE ~v.have_SYN /\ seg.syn
  <2> DEFINE u == [v EXCEPT !.have_SYN = TRUE, !.icn = seg.seqno]
  <2>1. /\ IsReceiver(u) /\ u.have_SYN = TRUE /\ u.have_FIN = v.have_FIN
        /\ u.icn = seg.seqno /\ u.reassembler = v.reassembler
    <3>1. PICK a, b, c, d : v = [have_SYN |-> a, have_FIN |-> b, icn |-> c, reassembler |-> d]
      BY DEF ReceiverOK, IsReceiver
    <3> DEFINE isn == seg.seqno
    <3>2. u = [v EXCEPT !.have_SYN = TRUE, !.icn = isn]
      OBVIOUS
    <3> HIDE DEF u, isn
    <3>3. u = [have_SYN |-> TRUE, have_FIN |-> b, icn |-> isn, reassembler |-> d]
      BY <3>1, <3>2
    <3> QED BY <3>1, <3>3 DEF IsReceiver, isn
  <2>2. seg.seqno = ISN[o] /\ ISN[o] \in WrappingInt32
    BY <1>1, PeerConstants DEF Genuine
  <2> HIDE DEF u
  <2>3. ReceiverOK(u, o, sent)
    BY <2>1, <2>2 DEF ReceiverOK
  <2>4. ReceiverOK(Receive(u, seg, wrap(1, seg.seqno)), o, sent)
    BY <1>1, <2>1, <2>3, ReceiveOK
  <2> QED BY <1>1, <2>4 DEF receiver_segment_received, u
<1>2. CASE v.have_SYN /\ ~seg.syn
  <2>1. ReceiverOK(Receive(v, seg, seg.seqno), o, sent)
    BY <1>2, ReceiveOK
  <2> QED BY <1>2, <2>1 DEF receiver_segment_received
<1>3. CASE v.have_SYN <=> seg.syn
  <2>1. receiver_segment_received(v, seg) = v
    BY <1>3 DEF receiver_segment_received
  <2> QED BY <2>1
<1> QED BY <1>1, <1>2, <1>3

\* What the application's read and an error do to the output.
LEMMA OutputOK ==
    ASSUME NEW o \in Peers, NEW sent \in Nat, NEW v, ReceiverOK(v, o, sent)
    PROVE  /\ ReceiverOK([v EXCEPT !.reassembler.output = set_error(@)], o, sent)
           /\ ~buffer_empty(stream_out(v)) =>
                 ReceiverOK([v EXCEPT !.reassembler.output = stream_read(@, 1)], o, sent)
<1> DEFINE q == v.reassembler
           flagged == [q EXCEPT !.output = set_error(@)]
           drawn == [q EXCEPT !.output = stream_read(@, 1)]
<1>1. /\ BytesToSend[o] \in Nat /\ RecvCapacity \in Nat \ {0} /\ IsReceiver(v)
      /\ Placed(q, RecvCapacity, BytesToSend[o]) /\ Held(q) \subseteq 0 .. sent - 1
  BY PeerConstants, RecvCapacityAssumption DEF ReceiverOK
<1>2. ASSUME NEW r1, Placed(r1, RecvCapacity, BytesToSend[o]),
             Held(r1) \subseteq 0 .. sent - 1
      PROVE  ReceiverOK([v EXCEPT !.reassembler = r1], o, sent)
  <2> DEFINE w == [v EXCEPT !.reassembler = r1]
  <2>1. /\ IsReceiver(w) /\ w.have_SYN = v.have_SYN /\ w.have_FIN = v.have_FIN
        /\ w.icn = v.icn /\ w.reassembler = r1
    BY <1>1, OtherReassembler
  <2> HIDE DEF w
  <2>2. ReceiverOK(w, o, sent)
    BY <1>2, <2>1 DEF ReceiverOK
  <2> QED BY <2>2 DEF w
<1>3. Placed(flagged, RecvCapacity, BytesToSend[o]) /\ Held(flagged) \subseteq 0 .. sent - 1
  <2> HIDE DEF q
  <2> QED BY <1>1, FlagPlaced
<1>4. ASSUME ~buffer_empty(stream_out(v))
      PROVE  Placed(drawn, RecvCapacity, BytesToSend[o]) /\ Held(drawn) \subseteq 0 .. sent - 1
  <2>1. q.output.buffer # << >> /\ q.output.buffer \in Seq(Nat)
    BY <1>1, <1>4, PlacedNumbers DEF buffer_empty, stream_out
  <2> HIDE DEF q
  <2>2. 1 \in Nat /\ 1 <= buffer_size(q.output)
    BY <2>1, EmptySeq, LenProperties DEF buffer_size
  <2>3. ASSUME NEW n \in Nat, n <= buffer_size(q.output)
        PROVE  LET r1 == [q EXCEPT !.output = stream_read(@, n)]
               IN  Placed(r1, RecvCapacity, BytesToSend[o]) /\ Held(r1) = Held(q)
    BY <1>1, <2>3, ReadPlaced
  <2>4. Placed(drawn, RecvCapacity, BytesToSend[o]) /\ Held(drawn) = Held(q)
    BY <2>2, <2>3
  <2> QED BY <1>1, <2>4
<1>5. /\ [v EXCEPT !.reassembler.output = set_error(@)] = [v EXCEPT !.reassembler = flagged]
      /\ [v EXCEPT !.reassembler.output = stream_read(@, 1)] = [v EXCEPT !.reassembler = drawn]
  OBVIOUS
<1> HIDE DEF drawn, flagged
<1> QED BY <1>2, <1>3, <1>4, <1>5

\* As the peer sends more, the receiver need not change.
LEMMA ReceiverWaits ==
    ASSUME NEW o, NEW a \in Nat, NEW b \in Nat, a <= b, NEW v, ReceiverOK(v, o, a)
    PROVE  ReceiverOK(v, o, b)
<1>1. 0 .. a - 1 \subseteq 0 .. b - 1
  OBVIOUS
<1> QED BY <1>1 DEF ReceiverOK

-----------------------------------------------------------------------------
(* What the application and an error do to a sender *)

LEMMA StreamOK ==
    ASSUME NEW p \in Peers, NEW s, SenderOK(s, p), NEW t, Good(t), t.isn = s.isn,
           t.segments_out = s.segments_out, bytes_read(t.stream) = bytes_read(s.stream),
           t.stream.written <= BytesToSend[p],
           t.stream.ended => t.stream.written = BytesToSend[p]
    PROVE  SenderOK(t, p) /\ SentBy(t) = SentBy(s)
BY DEF SenderOK, SentBy

LEMMA WriteOK ==
    ASSUME NEW p \in Peers, NEW s, SenderOK(s, p), ~s.stream.ended, NEW n \in Nat,
           s.stream.written + n <= BytesToSend[p]
    PROVE  LET t == [s EXCEPT !.stream = stream_write(@, NextBytes(@, n))]
           IN  SenderOK(t, p) /\ SentBy(t) = SentBy(s)
<1> DEFINE t == [s EXCEPT !.stream = stream_write(@, NextBytes(@, n))]
<1>1. /\ Good(t) /\ t.isn = s.isn /\ t.segments_out = s.segments_out
      /\ bytes_read(t.stream) = bytes_read(s.stream)
      /\ t.stream.written <= s.stream.written + n /\ ~t.stream.ended
  BY WriteGood, Zenon DEF SenderOK
<1>2. t.stream.written \in Nat /\ s.stream.written \in Nat /\ BytesToSend[p] \in Nat
  BY <1>1, StreamFields, PeerConstants DEF SenderOK, Good
<1> HIDE DEF t
<1>3. t.stream.written <= BytesToSend[p]
  BY <1>1, <1>2
<1>4. SenderOK(t, p) /\ SentBy(t) = SentBy(s)
  BY <1>1, <1>3, StreamOK
<1> QED BY <1>4 DEF t

LEMMA EndOK ==
    ASSUME NEW p \in Peers, NEW s, SenderOK(s, p), s.stream.written = BytesToSend[p]
    PROVE  LET t == [s EXCEPT !.stream = end_input(@)]
           IN  SenderOK(t, p) /\ SentBy(t) = SentBy(s)
<1> DEFINE t == [s EXCEPT !.stream = end_input(@)]
<1>1. /\ Good(t) /\ t.isn = s.isn /\ t.segments_out = s.segments_out
      /\ bytes_read(t.stream) = bytes_read(s.stream)
      /\ t.stream.written = s.stream.written
  BY EndInputGood, Zenon DEF SenderOK
<1> HIDE DEF t
<1>2. t.stream.written <= BytesToSend[p]
  BY <1>1, PeerConstants
<1>3. SenderOK(t, p) /\ SentBy(t) = SentBy(s)
  BY <1>1, <1>2, StreamOK
<1> QED BY <1>3 DEF t

LEMMA FailOK ==
    ASSUME NEW p \in Peers, NEW s, SenderOK(s, p)
    PROVE  LET t == [s EXCEPT !.stream = set_error(@)]
           IN  SenderOK(t, p) /\ SentBy(t) = SentBy(s)
<1> DEFINE t == [s EXCEPT !.stream = set_error(@)]
<1>1. /\ Good(t) /\ t.isn = s.isn /\ t.segments_out = s.segments_out
      /\ bytes_read(t.stream) = bytes_read(s.stream)
      /\ t.stream.written = s.stream.written /\ t.stream.ended = s.stream.ended
  BY ErrorGood, Zenon DEF SenderOK
<1> HIDE DEF t
<1>2. SenderOK(t, p) /\ SentBy(t) = SentBy(s)
  BY <1>1, StreamOK DEF SenderOK
<1> QED BY <1>2 DEF t

-----------------------------------------------------------------------------
(* Connections *)

\* Only the acknowledgment and the window of a segment are stamped.
LEMMA StampGenuine ==
    ASSUME NEW p \in Peers, NEW sent, NEW seg, Genuine(seg, p, sent),
           NEW o \in Peers, NEW psent \in Nat, NEW v, ReceiverOK(v, o, psent)
    PROVE  Genuine(Stamp(v, seg), p, sent)
<1> DEFINE a == receiver_ackno(v)
           size == window_size(v)
           win == size % TwoTo16
           x == [seg EXCEPT !.ack = TRUE, !.ackno = a, !.win = win]
           written == v.reassembler.output.written
           len == Len(v.reassembler.output.buffer)
<1>1. written \in Nat /\ len \in Nat /\ RecvCapacity \in Nat /\ v.icn \in WrappingInt32
  BY PlacedNumbers, PeerConstants, RecvCapacityAssumption DEF ReceiverOK
<1>2. a \in WrappingInt32
  <2>1. AckAbsolute(v) = written + (IF v.have_FIN /\ stream_out(v).ended THEN 2 ELSE 1)
    BY DEF AckAbsolute, bytes_written, stream_out
  <2> HIDE DEF written
  <2>2. AckAbsolute(v) \in Nat
    BY <1>1, <2>1
  <2> QED BY <1>1, <2>2, WrapType DEF receiver_ackno
<1>3. win \in Window
  <2>1. size = RecvCapacity - (written - (written - len))
    BY DEF window_size, bytes_written, bytes_read, buffer_size, stream_out
  <2> HIDE DEF size, written, len
  <2>2. size \in Int
    BY <1>1, <2>1
  <2> QED BY <2>2, SenderAssumption DEF Window
<1>4. Genuine(x, p, sent)
  <2>1. /\ seg \in Segment /\ seg.seqno \in WrappingInt32 /\ seg.rst \in BOOLEAN
        /\ seg.syn \in BOOLEAN /\ seg.fin \in BOOLEAN /\ seg.payload \in Seq(Nat)
    BY SegmentFields DEF Genuine
  <2> HIDE DEF a, win
  <2>2. x = [seqno |-> seg.seqno, ackno |-> a, ack |-> TRUE, rst |-> seg.rst,
             syn |-> seg.syn, fin |-> seg.fin, win |-> win, payload |-> seg.payload]
    <3>1. seg = [seqno |-> seg.seqno, ackno |-> seg.ackno, ack |-> seg.ack, rst |-> seg.rst,
                 syn |-> seg.syn, fin |-> seg.fin, win |-> seg.win, payload |-> seg.payload]
      BY <2>1, Zenon DEF Segment, SegmentType
    <3>2. PICK b, c, d, e, f, g, h, i :
             seg = [seqno |-> b, ackno |-> c, ack |-> d, rst |-> e,
                    syn |-> f, fin |-> g, win |-> h, payload |-> i]
      BY <3>1, Zenon
    <3> DEFINE yes == TRUE
    <3>3. x = [seg EXCEPT !.ack = yes, !.ackno = a, !.win = win]
      OBVIOUS
    <3> HIDE DEF x, yes
    <3>4. x = [seqno |-> b, ackno |-> a, ack |-> yes, rst |-> e,
               syn |-> f, fin |-> g, win |-> win, payload |-> i]
      BY <3>2, <3>3
    <3> QED BY <3>2, <3>4 DEF yes
  <2> HIDE DEF x
  <2>3. x \in Segment
    BY <1>2, <1>3, <2>1, <2>2, Zenon DEF Segment, SegmentType
  <2>4. /\ x.seqno = seg.seqno /\ x.syn = seg.syn /\ x.fin = seg.fin
        /\ x.payload = seg.payload
    BY <2>2
  <2> QED BY <2>3, <2>4 DEF Genuine
<1>5. Stamp(v, seg) = IF has_ackno(v) THEN x ELSE seg
  BY DEF Stamp
<1> QED BY <1>4, <1>5

\* The record of a connection.
IsConn(c) ==
    c = [sender |-> c.sender, receiver |-> c.receiver, segments_out |-> c.segments_out,
         linger |-> c.linger, active |-> c.active,
         time_since_last_segment |-> c.time_since_last_segment]

\* p's connection, whose peer has sent that many bytes of its stream.
ConnOK(c, p, psent) ==
    /\ IsConn(c)
    /\ SenderOK(c.sender, p)
    /\ ReceiverOK(c.receiver, Other(p), psent)
    /\ AllGenuine(c.segments_out, p, SentBy(c.sender))

\* A connection that is put together from parts that are all right.
LEMMA Parts ==
    ASSUME NEW p, NEW psent, NEW s, NEW v, NEW q, NEW linger, NEW active, NEW time, NEW c,
           c = [sender |-> s, receiver |-> v, segments_out |-> q, linger |-> linger,
                active |-> active, time_since_last_segment |-> time],
           SenderOK(s, p), ReceiverOK(v, Other(p), psent), AllGenuine(q, p, SentBy(s))
    PROVE  ConnOK(c, p, psent) /\ SentBy(c.sender) = SentBy(s)
<1>1. c.sender = s /\ c.receiver = v /\ c.segments_out = q /\ IsConn(c)
  BY DEF IsConn
<1> QED BY <1>1, Zenon DEF ConnOK

LEMMA SentIsNat ==
    ASSUME NEW p \in Peers, NEW s, SenderOK(s, p)
    PROVE  SentBy(s) \in Nat /\ SentBy(s) <= BytesToSend[p]
<1>1. s.stream.written \in Nat /\ Len(s.stream.buffer) \in Nat /\ bytes_read(s.stream) \in Nat
      /\ BytesToSend[p] \in Nat
  BY StreamFields, PeerConstants DEF SenderOK, Good
<1>2. s.stream.written <= BytesToSend[p]
      /\ SentBy(s) = s.stream.written - Len(s.stream.buffer)
  BY DEF SenderOK, SentBy, bytes_read, buffer_size
<1> QED BY <1>1, <1>2 DEF SentBy

\* d is c after a method: still all right, and nothing unsent.
Stays(c, d, p, psent) == ConnOK(d, p, psent) /\ SentBy(d.sender) >= SentBy(c.sender)

LEMMA SenderChanges ==
    ASSUME NEW p \in Peers, NEW psent, NEW c, ConnOK(c, p, psent),
           NEW t, SenderOK(t, p), SentBy(t) >= SentBy(c.sender),
           NEW d, d = [c EXCEPT !.sender = t]
    PROVE  Stays(c, d, p, psent)
<1>1. PICK s, v, q, linger, active, time :
         /\ c = [sender |-> s, receiver |-> v, segments_out |-> q, linger |-> linger,
                 active |-> active, time_since_last_segment |-> time]
         /\ c.sender = s /\ SenderOK(s, p) /\ ReceiverOK(v, Other(p), psent)
         /\ AllGenuine(q, p, SentBy(s))
  BY Zenon DEF ConnOK, IsConn
<1>2. d = [sender |-> t, receiver |-> v, segments_out |-> q, linger |-> linger,
           active |-> active, time_since_last_segment |-> time]
  BY <1>1
<1>3. AllGenuine(q, p, SentBy(t))
  BY <1>1, SentIsNat, AllStayGenuine
<1>4. ConnOK(d, p, psent) /\ SentBy(d.sender) = SentBy(t)
  BY <1>1, <1>2, <1>3, Parts
<1> QED BY <1>4 DEF Stays

LEMMA ConnSent ==
    ASSUME NEW p \in Peers, NEW psent, NEW c, ConnOK(c, p, psent)
    PROVE  SentBy(c.sender) \in Nat /\ SentBy(c.sender) <= BytesToSend[p]
BY SentIsNat DEF ConnOK

LEMMA StaysThenStays ==
    ASSUME NEW p \in Peers, NEW psent, NEW b, NEW c, NEW d, ConnOK(b, p, psent),
           Stays(b, c, p, psent), Stays(c, d, p, psent)
    PROVE  Stays(b, d, p, psent)
<1>1. SentBy(b.sender) \in Nat /\ SentBy(c.sender) \in Nat /\ SentBy(d.sender) \in Nat
  BY ConnSent DEF Stays
<1>2. SentBy(c.sender) >= SentBy(b.sender) /\ SentBy(d.sender) >= SentBy(c.sender)
  BY DEF Stays
<1> DEFINE x == SentBy(b.sender)
           y == SentBy(c.sender)
           z == SentBy(d.sender)
<1> HIDE DEF x, y, z
<1>3. z >= x
  <2>1. x \in Nat /\ y \in Nat /\ z \in Nat /\ y >= x /\ z >= y
    BY <1>1, <1>2 DEF x, y, z
  <2> QED BY <2>1
<1> QED BY <1>3 DEF Stays, x, z

LEMMA StaysSelf ==
    ASSUME NEW p \in Peers, NEW psent, NEW c, ConnOK(c, p, psent)
    PROVE  Stays(c, c, p, psent)
<1>1. SentBy(c.sender) \in Nat
  BY ConnSent
<1> QED BY <1>1 DEF Stays

\* move_to_segments_out()
LEMMA MoveOK ==
    ASSUME NEW p \in Peers, NEW psent \in Nat, NEW c, ConnOK(c, p, psent)
    PROVE  Stays(c, move_to_segments_out(c), p, psent)
<1>1. PICK s, v, q, linger, active, time :
         /\ c = [sender |-> s, receiver |-> v, segments_out |-> q, linger |-> linger,
                 active |-> active, time_since_last_segment |-> time]
         /\ c.sender = s /\ c.receiver = v /\ c.segments_out = q
         /\ SenderOK(s, p) /\ ReceiverOK(v, Other(p), psent)
         /\ AllGenuine(q, p, SentBy(s))
  BY Zenon DEF ConnOK, IsConn
<1> DEFINE segs == s.segments_out
           n == Len(segs)
           stamped == [i \in DOMAIN segs |-> Stamp(v, segs[i])]
           t == [s EXCEPT !.segments_out = << >>]
           d == move_to_segments_out(c)
<1>2. segs \in Seq(Segment) /\ n \in Nat /\ DOMAIN segs = 1 .. n
  BY <1>1, LenProperties DEF SenderOK, AllGenuine
<1>3. ASSUME NEW i \in 1 .. n PROVE Genuine(Stamp(v, segs[i]), p, SentBy(s))
  <2>1. Genuine(segs[i], p, SentBy(s)) /\ Other(p) \in Peers
    BY <1>1, PeerConstants DEF SenderOK, AllGenuine
  <2> QED BY <1>1, <2>1, StampGenuine
<1>4. AllGenuine(stamped, p, SentBy(s))
  <2>1. \A i \in 1 .. n : Stamp(v, segs[i]) \in Segment
    BY <1>3 DEF Genuine
  <2>2. stamped \in [1 .. n -> Segment]
    BY <1>2, <2>1
  <2>3. stamped \in Seq(Segment) /\ Len(stamped) = n
    BY <1>2, <2>2, SeqDef, LenProperties
  <2>4. \A i \in 1 .. n : stamped[i] = Stamp(v, segs[i])
    BY <1>2
  <2> HIDE DEF stamped
  <2> QED BY <1>3, <2>3, <2>4 DEF AllGenuine
<1>5. SenderOK(t, p) /\ SentBy(t) = SentBy(s)
  BY <1>1, DrainOK, Zenon
<1>6. d = [sender |-> t, receiver |-> v, segments_out |-> q \o stamped, linger |-> linger,
           active |-> active, time_since_last_segment |-> time]
  <2>1. d = [c EXCEPT !.segments_out = q \o stamped, !.sender = t]
    BY <1>1 DEF move_to_segments_out
  <2> HIDE DEF d, stamped, t
  <2> QED BY <1>1, <2>1
<1> HIDE DEF stamped, t, d
<1>7. AllGenuine(q \o stamped, p, SentBy(t))
  BY <1>1, <1>4, <1>5, JoinGenuine
<1>8. ConnOK(d, p, psent) /\ SentBy(d.sender) = SentBy(t)
  BY <1>1, <1>5, <1>6, <1>7, Parts
<1>9. SentBy(s) \in Nat
  BY <1>1, SentIsNat
<1>10. Stays(c, d, p, psent)
  BY <1>1, <1>5, <1>8, <1>9 DEF Stays
<1> QED BY <1>10 DEF d

\* connect(): fill_window(), and what it queued moves on.
LEMMA ConnectOK ==
    ASSUME NEW p \in Peers, NEW psent \in Nat, NEW c, ConnOK(c, p, psent)
    PROVE  Stays(c, connect(c), p, psent)
<1> DEFINE b == [c EXCEPT !.sender = fill_window(@)]
           t == fill_window(c.sender)
<1>1. SenderOK(t, p) /\ SentBy(t) >= SentBy(c.sender)
  BY FillOK DEF ConnOK
<1>2. b = [c EXCEPT !.sender = t]
  OBVIOUS
<1>3. connect(c) = move_to_segments_out(b)
  BY DEF connect, Then
<1> HIDE DEF b, t
<1>4. Stays(c, b, p, psent)
  BY <1>1, <1>2, SenderChanges
<1>5. Stays(b, connect(c), p, psent)
  BY <1>3, <1>4, MoveOK DEF Stays
<1> QED BY <1>4, <1>5, StaysThenStays

\* write() of the application's next bytes, and end_input_stream() after the
\* last of them.
LEMMA ConnWriteOK ==
    ASSUME NEW p \in Peers, NEW psent \in Nat, NEW c, ConnOK(c, p, psent),
           ~c.sender.stream.ended, NEW n \in Nat,
           c.sender.stream.written + n <= BytesToSend[p]
    PROVE  Stays(c, connection_write(c, NextBytes(c.sender.stream, n)), p, psent)
<1> DEFINE s == c.sender
           data == NextBytes(s.stream, n)
           b == [c EXCEPT !.sender.stream = stream_write(@, data)]
           t == [s EXCEPT !.stream = stream_write(@, NextBytes(@, n))]
<1>1. SenderOK(s, p)
  BY DEF ConnOK
<1>2. SenderOK(t, p) /\ SentBy(t) = SentBy(s)
  BY <1>1, WriteOK, Zenon
<1>3. SentBy(t) >= SentBy(s)
  BY <1>1, <1>2, SentIsNat
<1>4. b = [c EXCEPT !.sender = t]
  OBVIOUS
<1>5. connection_write(c, data) = connect(b)
  BY DEF connection_write, Then
<1> HIDE DEF b, t, data
<1>6. Stays(c, b, p, psent)
  BY <1>2, <1>3, <1>4, SenderChanges
<1>7. Stays(b, connect(b), p, psent)
  BY <1>6, ConnectOK DEF Stays
<1> QED BY <1>5, <1>6, <1>7, StaysThenStays DEF data

LEMMA ConnEndOK ==
    ASSUME NEW p \in Peers, NEW psent \in Nat, NEW c, ConnOK(c, p, psent),
           c.sender.stream.written = BytesToSend[p]
    PROVE  Stays(c, end_input_stream(c), p, psent)
<1> DEFINE s == c.sender
           b == [c EXCEPT !.sender.stream = end_input(@)]
           t == [s EXCEPT !.stream = end_input(@)]
<1>1. SenderOK(s, p)
  BY DEF ConnOK
<1>2. SenderOK(t, p) /\ SentBy(t) = SentBy(s)
  BY <1>1, EndOK, Zenon
<1>3. SentBy(t) >= SentBy(s)
  BY <1>1, <1>2, SentIsNat
<1>4. b = [c EXCEPT !.sender = t]
  OBVIOUS
<1>5. end_input_stream(c) = connect(b)
  BY DEF end_input_stream, Then
<1> HIDE DEF b, t
<1>6. Stays(c, b, p, psent)
  BY <1>2, <1>3, <1>4, SenderChanges
<1>7. Stays(b, connect(b), p, psent)
  BY <1>6, ConnectOK DEF Stays
<1> QED BY <1>5, <1>6, <1>7, StaysThenStays

\* A RST only sets flags.
LEMMA SetErrorsOK ==
    ASSUME NEW p \in Peers, NEW psent \in Nat, NEW c, ConnOK(c, p, psent)
    PROVE  Stays(c, SetErrors(c), p, psent)
<1>1. PICK s, v, q, linger, active, time :
         /\ c = [sender |-> s, receiver |-> v, segments_out |-> q, linger |-> linger,
                 active |-> active, time_since_last_segment |-> time]
         /\ c.sender = s /\ c.receiver = v
         /\ SenderOK(s, p) /\ ReceiverOK(v, Other(p), psent)
         /\ AllGenuine(q, p, SentBy(s))
  BY Zenon DEF ConnOK, IsConn
<1> DEFINE t == [s EXCEPT !.stream = set_error(@)]
           w == [v EXCEPT !.reassembler.output = set_error(@)]
           no == FALSE
           d == SetErrors(c)
<1>2. SenderOK(t, p) /\ SentBy(t) = SentBy(s) /\ SentBy(s) \in Nat
  BY <1>1, FailOK, SentIsNat, Zenon
<1>3. ReceiverOK(w, Other(p), psent)
  BY <1>1, OutputOK, PeerConstants, Zenon
<1>4. d = [c EXCEPT !.active = no, !.sender = t, !.receiver = w]
  BY <1>1 DEF SetErrors
<1> HIDE DEF d, t, w, no
<1>5. d = [sender |-> t, receiver |-> w, segments_out |-> q, linger |-> linger,
           active |-> no, time_since_last_segment |-> time]
  BY <1>1, <1>4
<1>6. ConnOK(d, p, psent) /\ SentBy(d.sender) = SentBy(t)
  BY <1>1, <1>2, <1>3, <1>5, Parts
<1>7. Stays(c, d, p, psent)
  BY <1>1, <1>2, <1>6 DEF Stays
<1> QED BY <1>7 DEF d

\* segment_received(), part by part.
LEMMA TakeSegmentOK ==
    ASSUME NEW p \in Peers, NEW psent \in Nat, psent <= BytesToSend[Other(p)],
           NEW c, ConnOK(c, p, psent), NEW seg, Genuine(seg, Other(p), psent)
    PROVE  Stays(c, TakeSegment(c, seg), p, psent)
<1>1. PICK s, v, q, linger, active, time :
         /\ c = [sender |-> s, receiver |-> v, segments_out |-> q, linger |-> linger,
                 active |-> active, time_since_last_segment |-> time]
         /\ c.sender = s /\ c.receiver = v
         /\ SenderOK(s, p) /\ ReceiverOK(v, Other(p), psent)
         /\ AllGenuine(q, p, SentBy(s))
  BY Zenon DEF ConnOK, IsConn
<1> DEFINE w == receiver_segment_received(v, seg)
           got == [c EXCEPT !.time_since_last_segment = 0,
                            !.receiver = receiver_segment_received(@, seg)]
<1>2. ReceiverOK(w, Other(p), psent) /\ SentBy(s) \in Nat
  BY <1>1, TakenOK, SentIsNat, PeerConstants
<1>3. got = [c EXCEPT !.time_since_last_segment = 0, !.receiver = w]
  BY <1>1
<1>4. TakeSegment(c, seg) = IF seg.rst THEN SetErrors(got) ELSE got
  BY DEF TakeSegment
<1> HIDE DEF got, w
<1>5. got = [sender |-> s, receiver |-> w, segments_out |-> q, linger |-> linger,
             active |-> active, time_since_last_segment |-> 0]
  BY <1>1, <1>3
<1>6. ConnOK(got, p, psent) /\ SentBy(got.sender) = SentBy(s)
  BY <1>1, <1>2, <1>5, Parts
<1>7. Stays(c, got, p, psent)
  BY <1>1, <1>2, <1>6 DEF Stays
<1>8. Stays(c, SetErrors(got), p, psent)
  BY <1>6, <1>7, SetErrorsOK, StaysThenStays
<1> QED BY <1>4, <1>7, <1>8

LEMMA TakeAckOK ==
    ASSUME NEW p \in Peers, NEW psent \in Nat, NEW c, ConnOK(c, p, psent),
           NEW seg \in Segment
    PROVE  Stays(c, TakeAck(c, seg), p, psent)
<1> DEFINE t == ack_received(c.sender, seg.ackno, seg.win)
           b == [c EXCEPT !.sender = ack_received(@, seg.ackno, seg.win)]
<1>1. SenderOK(t, p) /\ SentBy(t) = SentBy(c.sender)
  BY AckOK, SegmentFields DEF ConnOK
<1>2. SentBy(t) >= SentBy(c.sender)
  BY <1>1, ConnSent
<1>3. b = [c EXCEPT !.sender = t]
  OBVIOUS
<1>4. TakeAck(c, seg) = connect(b) \/ TakeAck(c, seg) = c
  BY DEF TakeAck, Then
<1> HIDE DEF b, t
<1>5. Stays(c, b, p, psent)
  BY <1>1, <1>2, <1>3, SenderChanges
<1>6. Stays(c, connect(b), p, psent)
  BY <1>5, ConnectOK, StaysThenStays DEF Stays
<1> QED BY <1>4, <1>6, StaysSelf

LEMMA AnswerOK ==
    ASSUME NEW p \in Peers, NEW psent \in Nat, NEW c, ConnOK(c, p, psent)
    PROVE  Stays(c, Answer(c), p, psent)
<1> DEFINE t == send_empty_segment(c.sender)
           e == [c EXCEPT !.sender = send_empty_segment(@)]
           b == IF c.segments_out = << >> THEN e ELSE c
<1>1. SenderOK(t, p) /\ SentBy(t) = SentBy(c.sender)
  BY EmptyOK DEF ConnOK
<1>2. SentBy(t) >= SentBy(c.sender)
  BY <1>1, ConnSent
<1>3. e = [c EXCEPT !.sender = t]
  OBVIOUS
<1>4. Answer(c) = move_to_segments_out(b)
  BY DEF Answer, Then
<1> HIDE DEF e, t
<1>5. Stays(c, b, p, psent)
  BY <1>1, <1>2, <1>3, SenderChanges, StaysSelf
<1> HIDE DEF b
<1>6. Stays(b, move_to_segments_out(b), p, psent)
  BY <1>5, MoveOK DEF Stays
<1> QED BY <1>4, <1>5, <1>6, StaysThenStays

LEMMA CheckCloseOK ==
    ASSUME NEW p \in Peers, NEW psent \in Nat, NEW c, ConnOK(c, p, psent)
    PROVE  Stays(c, CheckClose(c), p, psent)
<1>1. PICK s, v, q, linger, active, time :
         /\ c = [sender |-> s, receiver |-> v, segments_out |-> q, linger |-> linger,
                 active |-> active, time_since_last_segment |-> time]
         /\ c.sender = s
         /\ SenderOK(s, p) /\ ReceiverOK(v, Other(p), psent)
         /\ AllGenuine(q, p, SentBy(s))
  BY Zenon DEF ConnOK, IsConn
<1> DEFINE x == c.linger /\ ~(eof(inbound_stream(c)) /\ ~fin_sent(c))
           y == c.active /\ ~(~x /\ is_satisfied_prereq(c))
           d == CheckClose(c)
<1>2. d = [c EXCEPT !.linger = x, !.active = y]
  BY DEF CheckClose
<1> HIDE DEF x, y, d
<1>3. d = [sender |-> s, receiver |-> v, segments_out |-> q, linger |-> x,
           active |-> y, time_since_last_segment |-> time]
  BY <1>1, <1>2
<1>4. ConnOK(d, p, psent) /\ SentBy(d.sender) = SentBy(s) /\ SentBy(s) \in Nat
  BY <1>1, <1>3, Parts, SentIsNat
<1>5. Stays(c, d, p, psent)
  BY <1>1, <1>4 DEF Stays
<1> QED BY <1>5 DEF d

LEMMA RespondOK ==
    ASSUME NEW p \in Peers, NEW psent \in Nat, NEW c, ConnOK(c, p, psent), NEW seg
    PROVE  Stays(c, Respond(c, seg), p, psent)
<1> DEFINE b == Answer(c)
<1>1. Respond(c, seg) \in {CheckClose(c), connect(c), CheckClose(b)}
  BY DEF Respond, Then
<1>2. Stays(c, b, p, psent)
  BY AnswerOK
<1> HIDE DEF b
<1>3. Stays(c, CheckClose(b), p, psent)
  BY <1>2, CheckCloseOK, StaysThenStays DEF Stays
<1> QED BY <1>1, <1>3, CheckCloseOK, ConnectOK

LEMMA ReceivedOK ==
    ASSUME NEW p \in Peers, NEW psent \in Nat, psent <= BytesToSend[Other(p)],
           NEW c, ConnOK(c, p, psent), NEW seg, Genuine(seg, Other(p), psent)
    PROVE  Stays(c, segment_received(c, seg), p, psent)
<1> DEFINE a == TakeSegment(c, seg)
           b == TakeAck(a, seg)
<1>1. segment_received(c, seg) = Respond(b, seg)
  BY DEF segment_received, Then
<1>2. Stays(c, a, p, psent)
  BY TakeSegmentOK
<1> HIDE DEF a
<1>3. Stays(c, b, p, psent)
  BY <1>2, TakeAckOK, StaysThenStays DEF Stays, Genuine
<1> HIDE DEF b
<1>4. Stays(c, Respond(b, seg), p, psent)
  BY <1>3, RespondOK, StaysThenStays DEF Stays
<1> QED BY <1>1, <1>4

\* tick(): the clock, and what follows from it.
LEMMA AdvanceOK ==
    ASSUME NEW p \in Peers, NEW psent \in Nat, NEW c, ConnOK(c, p, psent), NEW ms \in Nat
    PROVE  Stays(c, AdvanceClock(c, ms), p, psent)
<1>1. PICK s, v, q, linger, active, time :
         /\ c = [sender |-> s, receiver |-> v, segments_out |-> q, linger |-> linger,
                 active |-> active, time_since_last_segment |-> time]
         /\ c.sender = s
         /\ SenderOK(s, p) /\ ReceiverOK(v, Other(p), psent)
         /\ AllGenuine(q, p, SentBy(s))
  BY Zenon DEF ConnOK, IsConn
<1> DEFINE t == sender_tick(s, ms)
           x == MinOf(c.time_since_last_segment + ms, LingerTime)
           d == AdvanceClock(c, ms)
<1>2. SenderOK(t, p) /\ SentBy(t) = SentBy(s) /\ SentBy(s) \in Nat
  BY <1>1, TickOK, SentIsNat
<1>3. d = [c EXCEPT !.sender = t, !.time_since_last_segment = x]
  BY <1>1 DEF AdvanceClock
<1> HIDE DEF t, x, d
<1>4. d = [sender |-> t, receiver |-> v, segments_out |-> q, linger |-> linger,
           active |-> active, time_since_last_segment |-> x]
  BY <1>1, <1>3
<1>5. ConnOK(d, p, psent) /\ SentBy(d.sender) = SentBy(t)
  BY <1>1, <1>2, <1>4, Parts
<1>6. Stays(c, d, p, psent)
  BY <1>1, <1>2, <1>5 DEF Stays
<1> QED BY <1>6 DEF d

\* Giving up queues a RST, which says nothing of the stream.
LEMMA ResetGenuine ==
    ASSUME NEW p, NEW sent
    PROVE  Genuine([EmptySegment EXCEPT !.rst = TRUE], p, sent)
<1> DEFINE seg == [EmptySegment EXCEPT !.rst = TRUE]
<1>1. 0 \in WrappingInt32 /\ 0 \in Window /\ << >> \in Seq(Nat)
  BY TwoTo32Assumption, SenderAssumption, EmptySeq DEF WrappingInt32, Window
<1>2. /\ EmptySegment \in Segment
      /\ ~EmptySegment.syn /\ ~EmptySegment.fin /\ EmptySegment.payload = << >>
  BY <1>1, Zenon DEF EmptySegment, Segment, SegmentType
<1>3. seg \in Segment
  BY <1>2, Zenon DEF Segment, SegmentType
<1>4. ~seg.syn /\ ~seg.fin /\ seg.payload = << >>
  BY <1>2, Zenon DEF Segment, SegmentType
<1> HIDE DEF seg
<1>5. Genuine(seg, p, sent)
  BY <1>3, <1>4 DEF Genuine
<1> QED BY <1>5 DEF seg

LEMMA AfterTickOK ==
    ASSUME NEW p \in Peers, NEW psent \in Nat, NEW c, ConnOK(c, p, psent)
    PROVE  Stays(c, AfterTick(c), p, psent)
<1> DEFINE rst == [EmptySegment EXCEPT !.rst = TRUE]
           b == SetErrors(c)
           gone == [b EXCEPT !.segments_out = Append(@, rst), !.linger = FALSE]
           on == c.active /\ ~(c.time_since_last_segment >= LingerTime /\ is_satisfied_prereq(c))
           d == [c EXCEPT !.active = on]
<1>1. AfterTick(c) = gone \/ AfterTick(c) = move_to_segments_out(d)
  BY DEF AfterTick
<1>2. Stays(c, b, p, psent)
  BY SetErrorsOK
<1> HIDE DEF b, on, rst
<1>3. Stays(b, gone, p, psent)
  <2>1. PICK s, v, q, linger, active, time :
           /\ b = [sender |-> s, receiver |-> v, segments_out |-> q, linger |-> linger,
                   active |-> active, time_since_last_segment |-> time]
           /\ b.sender = s /\ b.segments_out = q
           /\ SenderOK(s, p) /\ ReceiverOK(v, Other(p), psent)
           /\ AllGenuine(q, p, SentBy(s))
    BY <1>2, Zenon DEF ConnOK, IsConn, Stays
  <2> DEFINE more == Append(q, rst)
             no == FALSE
  <2>2. gone = [b EXCEPT !.segments_out = more, !.linger = no]
    BY <2>1
  <2>3. AllGenuine(more, p, SentBy(s)) /\ SentBy(s) \in Nat
    BY <2>1, OneGenuine, ResetGenuine, SentIsNat DEF rst
  <2> HIDE DEF gone, more, no
  <2>4. gone = [sender |-> s, receiver |-> v, segments_out |-> more, linger |-> no,
                active |-> active, time_since_last_segment |-> time]
    BY <2>1, <2>2
  <2>5. ConnOK(gone, p, psent) /\ SentBy(gone.sender) = SentBy(s)
    BY <2>1, <2>3, <2>4, Parts
  <2> QED BY <2>1, <2>3, <2>5 DEF Stays
<1>4. Stays(c, d, p, psent)
  <2>1. PICK s, v, q, linger, active, time :
           /\ c = [sender |-> s, receiver |-> v, segments_out |-> q, linger |-> linger,
                   active |-> active, time_since_last_segment |-> time]
           /\ c.sender = s
           /\ SenderOK(s, p) /\ ReceiverOK(v, Other(p), psent)
           /\ AllGenuine(q, p, SentBy(s))
    BY Zenon DEF ConnOK, IsConn
  <2>2. d = [sender |-> s, receiver |-> v, segments_out |-> q, linger |-> linger,
             active |-> on, time_since_last_segment |-> time]
    BY <2>1
  <2> HIDE DEF d
  <2>3. ConnOK(d, p, psent) /\ SentBy(d.sender) = SentBy(s) /\ SentBy(s) \in Nat
    BY <2>1, <2>2, Parts, SentIsNat
  <2> QED BY <2>1, <2>3 DEF Stays
<1> HIDE DEF gone, d
<1>5. Stays(c, gone, p, psent)
  BY <1>2, <1>3, StaysThenStays
<1>6. Stays(c, move_to_segments_out(d), p, psent)
  BY <1>4, MoveOK, StaysThenStays DEF Stays
<1> QED BY <1>1, <1>5, <1>6

LEMMA ConnTickOK ==
    ASSUME NEW p \in Peers, NEW psent \in Nat, NEW c, ConnOK(c, p, psent), NEW ms \in Nat
    PROVE  Stays(c, connection_tick(c, ms), p, psent)
<1> DEFINE b == AdvanceClock(c, ms)
<1>1. connection_tick(c, ms) = AfterTick(b)
  BY DEF connection_tick, Then
<1>2. Stays(c, b, p, psent)
  BY AdvanceOK
<1> HIDE DEF b
<1>3. Stays(c, AfterTick(b), p, psent)
  BY <1>2, AfterTickOK, StaysThenStays DEF Stays
<1> QED BY <1>1, <1>3

\* The application reads a byte; the queued segments are taken away.
LEMMA ConnReadOK ==
    ASSUME NEW p \in Peers, NEW psent \in Nat, NEW c, ConnOK(c, p, psent),
           ~buffer_empty(inbound_stream(c))
    PROVE  Stays(c, [c EXCEPT !.receiver.reassembler.output = stream_read(@, 1)], p, psent)
<1>1. PICK s, v, q, linger, active, time :
         /\ c = [sender |-> s, receiver |-> v, segments_out |-> q, linger |-> linger,
                 active |-> active, time_since_last_segment |-> time]
         /\ c.sender = s /\ c.receiver = v
         /\ SenderOK(s, p) /\ ReceiverOK(v, Other(p), psent)
         /\ AllGenuine(q, p, SentBy(s))
  BY Zenon DEF ConnOK, IsConn
<1> DEFINE w == [v EXCEPT !.reassembler.output = stream_read(@, 1)]
           d == [c EXCEPT !.receiver.reassembler.output = stream_read(@, 1)]
<1>2. ReceiverOK(w, Other(p), psent) /\ SentBy(s) \in Nat
  <2>1. ~buffer_empty(stream_out(v))
    BY <1>1 DEF inbound_stream
  <2> QED BY <1>1, <2>1, OutputOK, SentIsNat, PeerConstants
<1>3. d = [c EXCEPT !.receiver = w]
  BY <1>1
<1> HIDE DEF d, w
<1>4. d = [sender |-> s, receiver |-> w, segments_out |-> q, linger |-> linger,
           active |-> active, time_since_last_segment |-> time]
  BY <1>1, <1>3
<1>5. ConnOK(d, p, psent) /\ SentBy(d.sender) = SentBy(s)
  BY <1>1, <1>2, <1>4, Parts
<1>6. Stays(c, d, p, psent)
  BY <1>1, <1>2, <1>5 DEF Stays
<1> QED BY <1>6 DEF d

LEMMA ConnDrainOK ==
    ASSUME NEW p \in Peers, NEW psent \in Nat, NEW c, ConnOK(c, p, psent)
    PROVE  Stays(c, [c EXCEPT !.segments_out = << >>], p, psent)
<1>1. PICK s, v, q, linger, active, time :
         /\ c = [sender |-> s, receiver |-> v, segments_out |-> q, linger |-> linger,
                 active |-> active, time_since_last_segment |-> time]
         /\ c.sender = s
         /\ SenderOK(s, p) /\ ReceiverOK(v, Other(p), psent)
  BY Zenon DEF ConnOK, IsConn
<1> DEFINE none == << >>
           d == [c EXCEPT !.segments_out = none]
<1>2. AllGenuine(none, p, SentBy(s)) /\ SentBy(s) \in Nat
  BY <1>1, NoneGenuine, SentIsNat
<1> HIDE DEF none
<1>3. d = [sender |-> s, receiver |-> v, segments_out |-> none, linger |-> linger,
           active |-> active, time_since_last_segment |-> time]
  BY <1>1
<1> HIDE DEF d
<1>4. ConnOK(d, p, psent) /\ SentBy(d.sender) = SentBy(s)
  BY <1>1, <1>2, <1>3, Parts
<1>5. Stays(c, d, p, psent)
  BY <1>1, <1>2, <1>4 DEF Stays
<1> QED BY <1>5 DEF d, none

-----------------------------------------------------------------------------
(* The pair *)

Sent(p) == SentBy(conn[p].sender)

\* Both connections are all right, and what is on its way to p is genuine.
PairInv ==
    /\ DOMAIN conn = Peers /\ DOMAIN net = Peers
    /\ \A p \in Peers : /\ ConnOK(conn[p], p, Sent(Other(p)))
                        /\ AllGenuine(net[p], Other(p), Sent(Other(p)))

LEMMA PairSent ==
    ASSUME PairInv, NEW p \in Peers
    PROVE  Sent(p) \in Nat /\ Sent(p) <= BytesToSend[p]
BY ConnSent, PeerConstants DEF PairInv, Sent

\* A step in which each connection stays all right, and nothing is put on the
\* way that was not genuine already.
LEMMA AllMove ==
    ASSUME PairInv, DOMAIN conn' = Peers, DOMAIN net' = Peers,
           \A p \in Peers : Stays(conn[p], conn'[p], p, Sent(Other(p))),
           \A p \in Peers : AllGenuine(net'[p], Other(p), Sent(Other(p)))
    PROVE  PairInv'
<1>1. ASSUME NEW p \in Peers PROVE Sent(p) \in Nat /\ Sent(p)' \in Nat /\ Sent(p) <= Sent(p)'
  <2>1. Sent(p) \in Nat /\ Stays(conn[p], conn'[p], p, Sent(Other(p)))
    BY PairSent
  <2>2. SentBy(conn'[p].sender) \in Nat
    BY <2>1, ConnSent DEF Stays
  <2>3. Sent(p)' = SentBy(conn'[p].sender) /\ Sent(p) = SentBy(conn[p].sender)
    BY DEF Sent
  <2>4. SentBy(conn'[p].sender) >= SentBy(conn[p].sender)
    BY <2>1 DEF Stays
  <2> QED BY <2>1, <2>2, <2>3, <2>4
<1>2. ASSUME NEW p \in Peers
      PROVE  /\ ConnOK(conn'[p], p, Sent(Other(p))')
             /\ AllGenuine(net'[p], Other(p), Sent(Other(p))')
  <2> DEFINE o == Other(p)
  <2>1. o \in Peers
    BY PeerConstants
  <2>2. Sent(o) \in Nat /\ Sent(o)' \in Nat /\ Sent(o) <= Sent(o)'
    BY <1>1, <2>1
  <2>3. ConnOK(conn'[p], p, Sent(o)) /\ AllGenuine(net'[p], o, Sent(o))
    BY DEF Stays
  <2>4. ReceiverOK(conn'[p].receiver, o, Sent(o)')
    BY <2>2, <2>3, ReceiverWaits DEF ConnOK
  <2>5. AllGenuine(net'[p], o, Sent(o)')
    BY <2>2, <2>3, AllStayGenuine
  <2> QED BY <2>3, <2>4, <2>5 DEF ConnOK
<1> QED BY <1>2 DEF PairInv

\* A step of one connection.
LEMMA OneMoves ==
    ASSUME PairInv, NEW p \in Peers, NEW c, conn' = [conn EXCEPT ![p] = c],
           Stays(conn[p], c, p, Sent(Other(p))), DOMAIN net' = Peers,
           \A q \in Peers : AllGenuine(net'[q], Other(q), Sent(Other(q)))
    PROVE  PairInv'
<1>1. DOMAIN conn' = Peers
  BY DEF PairInv
<1>2. ASSUME NEW q \in Peers PROVE Stays(conn[q], conn'[q], q, Sent(Other(q)))
  <2>1. conn'[q] = IF q = p THEN c ELSE conn[q]
    BY DEF PairInv
  <2>2. Stays(conn[q], conn[q], q, Sent(Other(q)))
    BY StaysSelf DEF PairInv
  <2> QED BY <2>1, <2>2
<1> QED BY <1>1, <1>2, AllMove

\* The same, when the network has no part in it.
LEMMA OneMovesQuietly ==
    ASSUME PairInv, NEW p \in Peers, NEW c, Set(p, c), Quiet,
           Stays(conn[p], c, p, Sent(Other(p)))
    PROVE  PairInv'
<1>1. DOMAIN net' = Peers /\ \A q \in Peers : AllGenuine(net'[q], Other(q), Sent(Other(q)))
  BY DEF PairInv, Quiet
<1> QED BY <1>1, OneMoves DEF Set

\* A step of the network alone.
LEMMA NetMoves ==
    ASSUME PairInv, NEW p \in Peers, NEW segs, AllGenuine(segs, Other(p), Sent(Other(p))),
           UNCHANGED conn, net' = [net EXCEPT ![p] = segs]
    PROVE  PairInv'
<1>1. DOMAIN conn' = Peers /\ DOMAIN net' = Peers
  BY DEF PairInv
<1>2. ASSUME NEW q \in Peers
      PROVE  /\ Stays(conn[q], conn'[q], q, Sent(Other(q)))
             /\ AllGenuine(net'[q], Other(q), Sent(Other(q)))
  <2>1. net'[q] = IF q = p THEN segs ELSE net[q]
    BY DEF PairInv
  <2>2. Stays(conn[q], conn[q], q, Sent(Other(q)))
    BY StaysSelf DEF PairInv
  <2> QED BY <2>1, <2>2 DEF PairInv
<1> QED BY <1>1, <1>2, AllMove

\* Two connections that have not said anything.
LEMMA PairInit == Init => PairInv
<1> SUFFICES ASSUME Init PROVE PairInv
  OBVIOUS
<1>1. /\ conn = [p \in Peers |-> NewTCPConnection(ISN[p])]
      /\ net = [p \in Peers |-> << >>]
  BY DEF Init
<1>2. DOMAIN conn = Peers /\ DOMAIN net = Peers
  BY <1>1
<1>3. ASSUME NEW p \in Peers
      PROVE  /\ SenderOK(conn[p].sender, p) /\ SentBy(conn[p].sender) = 0
             /\ conn[p] = [sender |-> NewTCPSender(ISN[p]), receiver |-> NewTCPReceiver,
                           segments_out |-> << >>, linger |-> TRUE, active |-> TRUE,
                           time_since_last_segment |-> 0]
  <2> DEFINE s == NewTCPSender(ISN[p])
  <2>1. conn[p] = [sender |-> s, receiver |-> NewTCPReceiver,
                   segments_out |-> << >>, linger |-> TRUE, active |-> TRUE,
                   time_since_last_segment |-> 0]
    BY <1>1 DEF NewTCPConnection
  <2>2. conn[p].sender = s
    BY <2>1
  <2>3. /\ Good(s) /\ s.isn = ISN[p] /\ s.segments_out = << >> /\ s.stream.written = 0
        /\ ~s.stream.ended /\ bytes_read(s.stream) = 0 /\ BytesToSend[p] \in Nat
    BY NewGood, PeerConstants
  <2> HIDE DEF s
  <2>4. s.stream.written <= BytesToSend[p] /\ AllGenuine(s.segments_out, p, SentBy(s))
    BY <2>3, NoneGenuine
  <2>5. SenderOK(s, p) /\ SentBy(s) = 0
    BY <2>3, <2>4 DEF SenderOK, SentBy
  <2> QED BY <2>1, <2>2, <2>5 DEF s
<1>4. ASSUME NEW o \in Peers PROVE ReceiverOK(NewTCPReceiver, o, 0)
  <2> DEFINE v == NewTCPReceiver
             q == NewStreamReassembler(RecvCapacity)
  <2>1. /\ IsReceiver(v) /\ v.have_SYN = FALSE /\ v.have_FIN = FALSE /\ v.icn = 0
        /\ v.reassembler = q
    BY DEF NewTCPReceiver, IsReceiver
  <2>2. Placed(q, RecvCapacity, BytesToSend[o]) /\ Held(q) = {}
    BY NewIsSound, RecvCapacityAssumption, PeerConstants DEF Sound
  <2>3. 0 \in WrappingInt32
    BY TwoTo32Assumption DEF WrappingInt32
  <2> HIDE DEF v, q
  <2>4. ReceiverOK(v, o, 0)
    BY <2>1, <2>2, <2>3 DEF ReceiverOK
  <2> QED BY <2>4 DEF v
<1>5. ASSUME NEW p \in Peers
      PROVE  /\ ConnOK(conn[p], p, Sent(Other(p)))
             /\ AllGenuine(net[p], Other(p), Sent(Other(p)))
  <2>1. Other(p) \in Peers /\ Sent(Other(p)) = 0
    BY <1>3, PeerConstants DEF Sent
  <2>2. net[p] = << >>
    BY <1>1
  <2>3. /\ conn[p].receiver = NewTCPReceiver /\ conn[p].segments_out = << >>
        /\ IsConn(conn[p])
    <3> DEFINE c == conn[p]
               s == NewTCPSender(ISN[p])
               yes == TRUE
    <3>1. c = [sender |-> s, receiver |-> NewTCPReceiver, segments_out |-> << >>,
               linger |-> yes, active |-> yes, time_since_last_segment |-> 0]
      BY <1>3
    <3> HIDE DEF c, s, yes
    <3>2. c.receiver = NewTCPReceiver /\ c.segments_out = << >> /\ IsConn(c)
      BY <3>1 DEF IsConn
    <3> QED BY <3>2 DEF c
  <2> QED BY <1>3, <1>4, <2>1, <2>2, <2>3, NoneGenuine DEF ConnOK
<1> QED BY <1>2, <1>5 DEF PairInv

\* What one end's event loop and application do keeps the invariant.
LEMMA ServeKeeps ==
    ASSUME PairInv, NEW p \in Peers, Serve(p)
    PROVE  PairInv'
<1> DEFINE c == conn[p]
           o == Other(p)
           psent == Sent(o)
<1>1. /\ ConnOK(c, p, psent) /\ AllGenuine(net[p], o, psent) /\ o \in Peers
      /\ DOMAIN conn = Peers /\ DOMAIN net = Peers
  BY PeerConstants DEF PairInv
<1>2. psent \in Nat /\ psent <= BytesToSend[o] /\ BytesToSend[p] \in Nat
  BY <1>1, PairSent, PeerConstants
<1> HIDE DEF psent
<1>3. CASE Connect(p)
  <2>1. Stays(c, connect(c), p, psent)
    BY <1>1, <1>2, ConnectOK
  <2> QED BY <1>3, <2>1, OneMovesQuietly DEF Connect, psent
<1>4. ASSUME NEW n \in 1 .. BytesToSend[p], AppWrite(p, n) PROVE PairInv'
  <2> DEFINE bs == c.sender.stream
             d == connection_write(c, NextBytes(bs, n))
  <2>1. ~bs.ended /\ bs.written + n <= BytesToSend[p] /\ n \in Nat
    BY <1>2, <1>4 DEF AppWrite, Wants, outbound_stream
  <2>2. Stays(c, d, p, psent)
    BY <1>1, <1>2, <2>1, ConnWriteOK
  <2>3. Set(p, d) /\ Quiet
    BY <1>4 DEF AppWrite, NextBytes, outbound_stream
  <2> HIDE DEF d
  <2> QED BY <2>2, <2>3, OneMovesQuietly DEF psent
<1>5. CASE AppEnd(p)
  <2>1. c.sender.stream.written = BytesToSend[p]
    BY <1>5 DEF AppEnd, bytes_written, outbound_stream
  <2>2. Stays(c, end_input_stream(c), p, psent)
    BY <1>1, <1>2, <2>1, ConnEndOK
  <2> QED BY <1>5, <2>2, OneMovesQuietly DEF AppEnd, psent
<1>6. CASE AppRead(p)
  <2> DEFINE d == [c EXCEPT !.receiver.reassembler.output = stream_read(@, 1)]
  <2>1. Stays(c, d, p, psent)
    BY <1>1, <1>2, <1>6, ConnReadOK DEF AppRead
  <2>2. Set(p, d) /\ Quiet
    BY <1>6 DEF AppRead
  <2> HIDE DEF d
  <2> QED BY <2>1, <2>2, OneMovesQuietly DEF psent
<1>7. CASE Transmit(p)
  <2> DEFINE d == [c EXCEPT !.segments_out = << >>]
             segs == net[o] \o c.segments_out
  <2>1. Stays(c, d, p, psent)
    BY <1>1, <1>2, ConnDrainOK
  <2>2. conn' = [conn EXCEPT ![p] = d] /\ net' = [net EXCEPT ![o] = segs]
    BY <1>7 DEF Transmit, Set
  <2>3. AllGenuine(segs, p, Sent(p))
    <3>1. Other(o) = p
      BY PeerConstants
    <3>2. AllGenuine(net[o], p, Sent(p)) /\ AllGenuine(c.segments_out, p, Sent(p))
      BY <1>1, <3>1 DEF PairInv, ConnOK, Sent
    <3> QED BY <3>2, JoinGenuine
  <2> HIDE DEF d, segs
  <2>4. ASSUME NEW q \in Peers PROVE AllGenuine(net'[q], Other(q), Sent(Other(q)))
    <3>1. net'[q] = IF q = o THEN segs ELSE net[q]
      BY <1>1, <2>2
    <3>2. Other(o) = p
      BY PeerConstants
    <3> QED BY <2>3, <3>1, <3>2 DEF PairInv
  <2>5. DOMAIN net' = Peers
    BY <1>1, <2>2
  <2> QED BY <2>1, <2>2, <2>4, <2>5, OneMoves DEF psent
<1>8. ASSUME NEW i \in Next1(p), Deliver(p, i) PROVE PairInv'
  <2> DEFINE segs == Without(net[p], i)
             seg == net[p][i]
             d == segment_received(c, seg)
             e == IF c.active THEN d ELSE c
  <2>1. i \in 1 .. Len(net[p])
    <3>1. i \in DOMAIN net[p] /\ net[p] \in Seq(Segment)
      BY <1>1, <1>8 DEF Next1, AllGenuine
    <3> QED BY <3>1, LenProperties
  <2>2. Genuine(seg, o, psent) /\ AllGenuine(segs, o, psent)
    BY <1>1, <2>1, CutGenuine DEF AllGenuine
  <2>3. net' = [net EXCEPT ![p] = segs]
    BY <1>8 DEF Deliver
  <2>4. CASE c.active
    <3>1. conn' = [conn EXCEPT ![p] = d]
      BY <1>8, <2>4 DEF Deliver
    <3>2. Stays(c, d, p, psent)
      BY <1>1, <1>2, <2>2, ReceivedOK
    <3> HIDE DEF d, segs
    <3>3. ASSUME NEW q \in Peers PROVE AllGenuine(net'[q], Other(q), Sent(Other(q)))
      <4>1. net'[q] = IF q = p THEN segs ELSE net[q]
        BY <1>1, <2>3
      <4> QED BY <2>2, <4>1 DEF PairInv, psent
    <3>4. DOMAIN net' = Peers
      BY <1>1, <2>3
    <3> QED BY <3>1, <3>2, <3>3, <3>4, OneMoves DEF psent
  <2>5. CASE ~c.active
    <3>1. UNCHANGED conn
      BY <1>8, <2>5 DEF Deliver
    <3> HIDE DEF segs
    <3> QED BY <2>2, <2>3, <3>1, NetMoves DEF psent
  <2> QED BY <2>4, <2>5
<1> QED BY <1>3, <1>4, <1>5, <1>6, <1>7, <1>8 DEF Serve

\* So does what the network does, and time.
LEMMA MisbehaveKeeps ==
    ASSUME PairInv, NEW p \in Peers, Misbehave(p)
    PROVE  PairInv'
<1> DEFINE o == Other(p)
<1>1. PICK i \in DOMAIN net[p] : Lose(p, i) \/ Duplicate(p, i)
  BY DEF Misbehave
<1>2. AllGenuine(net[p], o, Sent(o)) /\ net[p] \in Seq(Segment)
  BY DEF PairInv, AllGenuine
<1>3. i \in 1 .. Len(net[p])
  BY <1>1, <1>2, LenProperties
<1>4. CASE Lose(p, i)
  <2> DEFINE segs == Without(net[p], i)
  <2>1. AllGenuine(segs, o, Sent(o))
    BY <1>2, <1>3, CutGenuine
  <2>2. UNCHANGED conn /\ net' = [net EXCEPT ![p] = segs]
    BY <1>4 DEF Lose
  <2> HIDE DEF segs
  <2> QED BY <2>1, <2>2, NetMoves
<1>5. CASE Duplicate(p, i)
  <2> DEFINE segs == Append(net[p], net[p][i])
  <2>1. AllGenuine(segs, o, Sent(o))
    <3>1. Genuine(net[p][i], o, Sent(o))
      BY <1>2, <1>3 DEF AllGenuine
    <3> QED BY <1>2, <3>1, OneGenuine
  <2>2. UNCHANGED conn /\ net' = [net EXCEPT ![p] = segs]
    BY <1>5 DEF Duplicate
  <2> HIDE DEF segs
  <2> QED BY <2>1, <2>2, NetMoves
<1> QED BY <1>1, <1>4, <1>5

LEMMA TickKeeps ==
    ASSUME PairInv, Tick
    PROVE  PairInv'
<1>1. /\ conn' = [p \in Peers |-> IF conn[p].active THEN connection_tick(conn[p], 1)
                                                    ELSE conn[p]]
      /\ net' = net
  BY DEF Tick, Quiet
<1>2. ASSUME NEW p \in Peers
      PROVE  /\ Stays(conn[p], conn'[p], p, Sent(Other(p)))
             /\ AllGenuine(net'[p], Other(p), Sent(Other(p)))
  <2>1. ConnOK(conn[p], p, Sent(Other(p))) /\ Sent(Other(p)) \in Nat
    BY PairSent, PeerConstants DEF PairInv
  <2>2. conn'[p] \in {connection_tick(conn[p], 1), conn[p]}
    BY <1>1
  <2>3. Stays(conn[p], connection_tick(conn[p], 1), p, Sent(Other(p)))
    <3>1. ASSUME NEW ms \in Nat
          PROVE  Stays(conn[p], connection_tick(conn[p], ms), p, Sent(Other(p)))
      BY <2>1, ConnTickOK
    <3> QED BY <3>1
  <2>4. Stays(conn[p], conn[p], p, Sent(Other(p)))
    BY <2>1, StaysSelf
  <2> QED BY <1>1, <2>2, <2>3, <2>4 DEF PairInv
<1>3. DOMAIN conn' = Peers /\ DOMAIN net' = Peers
  BY <1>1 DEF PairInv
<1> QED BY <1>2, <1>3, AllMove

-----------------------------------------------------------------------------
(* The theorems *)

\* At any time both connections are all right, and every segment that is
\* queued or on its way is genuine.
THEOREM PairIsSound == Spec => []PairInv
<1>1. PairInv /\ [Next]_vars => PairInv'
  <2> SUFFICES ASSUME PairInv, [Next]_vars PROVE PairInv'
    OBVIOUS
  <2>1. CASE Tick
    BY <2>1, TickKeeps
  <2>2. ASSUME NEW p \in Peers, Serve(p) PROVE PairInv'
    BY <2>2, ServeKeeps
  <2>3. ASSUME NEW p \in Peers, Misbehave(p) PROVE PairInv'
    BY <2>3, MisbehaveKeeps
  <2>4. CASE UNCHANGED vars
    BY <2>4 DEF vars, PairInv, Sent
  <2> QED BY <2>1, <2>2, <2>3, <2>4 DEF Next
<1> QED BY <1>1, PairInit, PTL DEF Spec

\* What one end has received is a prefix of what the other has sent, byte for
\* byte and in order: segment_received() and the network may do what they like
\* with any number of segments, in any order.
THEOREM AlwaysPrefixOfSent == Spec => []ReceivedIsPrefixOfSent
<1>1. PairInv => ReceivedIsPrefixOfSent
  <2> SUFFICES ASSUME PairInv, NEW p \in Peers
               PROVE  LET in == inbound_stream(conn[p])
                      IN  /\ bytes_written(in) <= bytes_read(outbound_stream(conn[Other(p)]))
                          /\ \A i \in 1 .. buffer_size(in) : in.buffer[i] = bytes_read(in) + i - 1
    BY DEF ReceivedIsPrefixOfSent
  <2> DEFINE o == Other(p)
             q == conn[p].receiver.reassembler
             sent == Sent(o)
             written == q.output.written
  <2>1. /\ Placed(q, RecvCapacity, BytesToSend[o]) /\ Held(q) \subseteq 0 .. sent - 1
        /\ o \in Peers /\ BytesToSend[o] \in Nat /\ sent \in Nat
    BY PeerConstants, PairSent DEF PairInv, ConnOK, ReceiverOK
  <2>2. written \in Nat /\ q.unassembled_start_index = written
    BY <2>1, PlacedNumbers, RecvCapacityAssumption DEF Placed
  <2>3. 0 .. written - 1 \subseteq 0 .. sent - 1
    BY <2>1, <2>2 DEF Held
  <2>4. \A i \in 1 .. Len(q.output.buffer) :
           q.output.buffer[i] = q.output.written - Len(q.output.buffer) + i - 1
    BY <2>1 DEF Placed, SoundStream
  <2>5. sent = bytes_read(outbound_stream(conn[o]))
    BY DEF Sent, SentBy, outbound_stream
  <2> HIDE DEF q, sent, written
  <2>6. written <= sent
    <3>1. CASE written = 0
      BY <2>1, <3>1
    <3>2. CASE written # 0
      <4>1. written - 1 \in 0 .. written - 1
        BY <2>2, <3>2
      <4>2. written - 1 \in 0 .. sent - 1
        BY <2>3, <4>1
      <4> QED BY <2>1, <2>2, <4>2
    <3> QED BY <3>1, <3>2
  <2> QED BY <2>4, <2>5, <2>6
           DEF inbound_stream, stream_out, bytes_written, bytes_read, buffer_size, q, written
<1> QED BY <1>1, PairIsSound, PTL
=============================================================================
