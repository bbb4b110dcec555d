---------------------- MODULE StreamReassemblerProofs -----------------------
(***************************************************************************)
(* What push_substring() does to a reassembler that is fed with substrings *)
(* of the stream 0, 1, 2, ... of some length: it stays sound, and it holds *)
(* what it held before and the bytes of the substring that fit.            *)
(***************************************************************************)
EXTENDS StreamReassembler, FiniteSetTheorems, SequenceTheorems,
        WellFoundedInduction, TLAPS

\* A ByteStream that holds the last bytes of what was written to it.
SoundStream(bs, capacity, length) ==
    /\ bs \in [buffer: Seq(Nat), capacity: {capacity}, ended: BOOLEAN,
               written: Nat, error: BOOLEAN]
    /\ Len(bs.buffer) <= capacity /\ Len(bs.buffer) <= bs.written
    /\ bs.written <= length
    /\ \A i \in 1 .. Len(bs.buffer) : bs.buffer[i] = bs.written - Len(bs.buffer) + i - 1

\* The record of a reassembler, and what holds of it at any time: the write
\* position is the output's, and everything staged is the right byte for its
\* position, at or past the write position and within the capacity.
IsReassembler(q) ==
    q = [output |-> q.output, capacity |-> q.capacity, staged |-> q.staged,
         unassembled_start_index |-> q.unassembled_start_index,
         have_eof |-> q.have_eof, eof_index |-> q.eof_index]

Placed(q, capacity, length) ==
    /\ IsReassembler(q)
    /\ SoundStream(q.output, capacity, length)
    /\ q.capacity = capacity
    /\ q.unassembled_start_index = q.output.written
    /\ q.have_eof \in BOOLEAN /\ q.eof_index \in Nat
    /\ q.have_eof => q.eof_index = length
    /\ DOMAIN q.staged \subseteq Nat
    /\ \A p \in DOMAIN q.staged :
          /\ q.staged[p] = p /\ p < length
          /\ q.unassembled_start_index <= p
          /\ p <= unassembled_max_index(q)

\* Between two calls the next missing byte is not staged, and the output has
\* ended only when it has the whole stream.
Sound(q, capacity, length) ==
    /\ Placed(q, capacity, length)
    /\ q.unassembled_start_index \notin DOMAIN q.staged
    /\ q.output.ended => q.unassembled_start_index = length

\* The positions whose bytes have been assembled or staged.
Held(q) == (0 .. q.unassembled_start_index - 1) \cup DOMAIN q.staged

\* Numbers of a sound reassembler.
LEMMA PlacedNumbers ==
    ASSUME NEW capacity \in Nat \ {0}, NEW length \in Nat,
           NEW q, Placed(q, capacity, length)
    PROVE  /\ q.unassembled_start_index \in Nat
           /\ q.output.written \in Nat
           /\ Len(q.output.buffer) \in Nat
           /\ q.output.buffer \in Seq(Nat)
           /\ unassembled_max_index(q) \in Int
           /\ unassembled_max_index(q)
                = q.unassembled_start_index - Len(q.output.buffer) + capacity - 1
           /\ q.unassembled_start_index - 1 <= unassembled_max_index(q)
<1>1. q.output.buffer \in Seq(Nat) /\ q.output.written \in Nat
  BY DEF Placed, SoundStream
<1>2. Len(q.output.buffer) \in Nat
  BY <1>1, LenProperties
<1>3. Len(q.output.buffer) <= capacity /\ q.capacity = capacity
      /\ q.unassembled_start_index = q.output.written
  BY DEF Placed, SoundStream
<1> QED BY <1>1, <1>2, <1>3 DEF unassembled_max_index, buffer_size

-----------------------------------------------------------------------------

\* There is a first position that is not staged, where FirstGap looks for it:
\* more positions in a row than are staged cannot all be staged.
LEMMA FirstGapIs ==
    ASSUME NEW capacity \in Nat \ {0}, NEW length \in Nat,
           NEW q, Placed(q, capacity, length)
    PROVE  /\ FirstGap(q) \in Nat
           /\ q.unassembled_start_index <= FirstGap(q)
           /\ FirstGap(q) \notin DOMAIN q.staged
           /\ \A p \in Nat : q.unassembled_start_index <= p /\ p < FirstGap(q)
                                => p \in DOMAIN q.staged
<1> DEFINE start == q.unassembled_start_index
           top == unassembled_max_index(q)
           S == DOMAIN q.staged
           n == Cardinality(S)
           Missing == {p \in Nat : start <= p /\ p \notin S}
<1>1. start \in Nat /\ top \in Int
  BY PlacedNumbers
<1>2. S \subseteq start .. top /\ S \subseteq Nat
  BY <1>1 DEF Placed
<1>3. IsFiniteSet(S) /\ n \in Nat
  <2>1. IsFiniteSet(start .. top)
    BY <1>1, FS_Interval
  <2>2. IsFiniteSet(S)
    BY <2>1, <1>2, FS_Subset
  <2> QED BY <2>2, FS_CardinalityType
<1>4. \E p \in start .. start + n : p \notin S
  <2> SUFFICES ASSUME start .. start + n \subseteq S PROVE FALSE
    OBVIOUS
  <2>1. Cardinality(start .. start + n) <= n
    BY <1>3, FS_Subset
  <2>2. Cardinality(start .. start + n) = n + 1
    <3>1. start + n \in Int /\ start \in Int /\ ~(start > start + n)
      BY <1>1, <1>3
    <3>2. Cardinality(start .. start + n) = (start + n) - start + 1
      BY <3>1, FS_Interval
    <3> QED BY <3>2, <1>1, <1>3
  <2> QED BY <2>1, <2>2, <1>3
<1>5. \E g \in Missing : \A p \in Missing : g <= p
  <2> DEFINE R == OpToRel(<, Nat)
  <2>1. IsWellFoundedOn(R, Nat)
    BY NatLessThanWellFounded, Zenon
  <2>2. Missing \subseteq Nat /\ Missing # {}
    BY <1>1, <1>3, <1>4
  <2> HIDE DEF R, Missing
  <2>3. PICK g \in Missing : \A p \in Missing : ~(<<p, g>> \in R)
    BY <2>1, <2>2, WFMin, Zenon
  <2>4. \A p \in Missing : ~(p < g)
    BY <2>2, <2>3 DEF R, OpToRel
  <2> QED BY <2>2, <2>3, <2>4
<1>6. PICK g \in Missing : \A p \in Missing : g <= p
  BY <1>5
<1>7. /\ g \in start .. start + n /\ g \notin S
      /\ \A p \in start .. g - 1 : p \in S
  BY <1>1, <1>3, <1>4, <1>6
<1>8. LET h == FirstGap(q)
      IN  /\ h \in start .. start + n /\ h \notin S
          /\ \A p \in start .. h - 1 : p \in S
  BY <1>7 DEF FirstGap, StagedPositions, unassembled_bytes
<1> QED BY <1>1, <1>3, <1>8

-----------------------------------------------------------------------------

\* The bytes of the stream from position index on.
Bytes(index, len) == [i \in 1 .. len |-> index + i - 1]

\* What Stage leaves: only staged changes.
LEMMA StagePlaced ==
    ASSUME NEW capacity \in Nat \ {0}, NEW length \in Nat,
           NEW q, Placed(q, capacity, length),
           NEW index \in Nat, NEW len \in Nat,
           len > 0, index + len <= length,
           index + len >= q.unassembled_start_index
    PROVE  LET s == Stage(q, Bytes(index, len), index)
           IN  /\ Placed(s, capacity, length)
               /\ s.output = q.output
               /\ s.unassembled_start_index = q.unassembled_start_index
               /\ s.have_eof = q.have_eof
               /\ DOMAIN s.staged = DOMAIN q.staged \cup
                     {p \in index .. index + len - 1 :
                        q.unassembled_start_index <= p /\ p <= unassembled_max_index(q)}
<1> DEFINE start == q.unassembled_start_index
           top == unassembled_max_index(q)
           first == IF index >= start THEN index ELSE start
           last == MinOf(index + len - 1, top)
           data == Bytes(index, len)
           f == [p \in DOMAIN q.staged \cup (first .. last) |->
                    IF p \in DOMAIN q.staged THEN q.staged[p] ELSE data[p - index + 1]]
           s == Stage(q, data, index)
<1>1. start \in Nat /\ top \in Int /\ start - 1 <= top
  BY PlacedNumbers
<1>2. Len(data) = len
  BY DEF Bytes
<1>3. first \in Nat /\ last \in Int /\ last <= top /\ last <= index + len - 1
      /\ index <= first /\ start <= first
  BY <1>1 DEF MinOf
<1>4. s = [output |-> q.output, capacity |-> q.capacity, staged |-> f,
           unassembled_start_index |-> q.unassembled_start_index,
           have_eof |-> q.have_eof, eof_index |-> q.eof_index]
  <2>1. s = [q EXCEPT !.staged = f]
    BY <1>2 DEF Stage
  <2>2. IsReassembler(q)
    BY DEF Placed
  <2> HIDE DEF f, s
  <2> QED BY <2>1, <2>2 DEF IsReassembler
<1>5. unassembled_max_index(s) = top
  BY <1>4 DEF unassembled_max_index
<1>6. \A p \in first .. last : data[p - index + 1] = p
  <2> SUFFICES ASSUME NEW p \in first .. last PROVE data[p - index + 1] = p
    OBVIOUS
  <2>1. p - index + 1 \in 1 .. len /\ index + (p - index + 1) - 1 = p
    BY <1>3
  <2> QED BY <2>1 DEF Bytes
<1>7. DOMAIN f = DOMAIN q.staged \cup
          {p \in index .. index + len - 1 : start <= p /\ p <= top}
  <2>1. first .. last = {p \in index .. index + len - 1 : start <= p /\ p <= top}
    BY <1>1, <1>3 DEF MinOf
  <2> QED BY <2>1
<1>8. \A p \in DOMAIN f : f[p] = p /\ p < length /\ start <= p /\ p <= top /\ p \in Nat
  <2> SUFFICES ASSUME NEW p \in DOMAIN f
               PROVE  f[p] = p /\ p < length /\ start <= p /\ p <= top /\ p \in Nat
    OBVIOUS
  <2>1. CASE p \in DOMAIN q.staged
    BY <2>1 DEF Placed
  <2>2. CASE p \notin DOMAIN q.staged
    BY <2>2, <1>1, <1>3, <1>6
  <2> QED BY <2>1, <2>2
<1> HIDE DEF f
<1>9. Placed(s, capacity, length)
  <2>1. IsReassembler(s)
    BY <1>4 DEF IsReassembler
  <2> QED BY <2>1, <1>4, <1>5, <1>8 DEF Placed
<1> QED BY <1>4, <1>7, <1>9

\* Assemble writes the bytes up to the first gap, which the output has room
\* for, and forgets them.
LEMMA AssemblePlaced ==
    ASSUME NEW capacity \in Nat \ {0}, NEW length \in Nat,
           NEW q, Placed(q, capacity, length)
    PROVE  LET a == Assemble(q)
           IN  /\ Placed(a, capacity, length)
               /\ a.unassembled_start_index = FirstGap(q)
               /\ a.unassembled_start_index \notin DOMAIN a.staged
               /\ a.output.ended = q.output.ended
               /\ a.have_eof = q.have_eof
               /\ Len(a.output.buffer) - a.output.written
                     = Len(q.output.buffer) - q.output.written
               /\ Held(a) = Held(q)
<1> DEFINE start == q.unassembled_start_index
           top == unassembled_max_index(q)
           gap == FirstGap(q)
           n == gap - start
           b == q.output.buffer
           m == Len(b)
           staged == q.staged
           S == DOMAIN staged
           data == [i \in 1 .. n |-> staged[start + i - 1]]
           whole == b \o data
           out == [buffer |-> whole, capacity |-> capacity, ended |-> q.output.ended,
                   written |-> start + n, error |-> q.output.error]
           rest == [p \in {p \in S : p > gap} |-> staged[p]]
           a == Assemble(q)
<1>1. start \in Nat /\ m \in Nat /\ top = start - m + capacity - 1
  BY PlacedNumbers
<1>2. /\ gap \in Nat /\ start <= gap /\ gap \notin S
      /\ \A p \in Nat : start <= p /\ p < gap => p \in S
  BY FirstGapIs
<1>3. /\ \A p \in S : p \in Nat /\ staged[p] = p /\ p < length /\ start <= p /\ p <= top
      /\ S \subseteq Nat
  BY DEF Placed
<1>4. /\ start = q.output.written /\ start <= length /\ m <= capacity /\ m <= start
      /\ q.capacity = capacity /\ q.have_eof \in BOOLEAN /\ q.eof_index \in Nat
      /\ q.have_eof => q.eof_index = length
  BY DEF Placed, SoundStream
<1>5. /\ b \in Seq(Nat) /\ \A i \in 1 .. m : b[i] = start - m + i - 1
      /\ q.output \in [buffer: Seq(Nat), capacity: {capacity}, ended: BOOLEAN,
                       written: Nat, error: BOOLEAN]
  BY DEF Placed, SoundStream
<1>6. a = [q EXCEPT !.output = stream_write(@, data), !.unassembled_start_index = gap,
                    !.staged = rest]
  BY DEF Assemble
<1>7. IsReassembler(q)
  BY DEF Placed
<1>8. n = gap - start /\ m = Len(b)
  OBVIOUS
<1> HIDE DEF start, top, gap, n, m, S, b, data, whole, out, rest, staged, a
<1>9. n \in Nat /\ gap = start + n /\ gap <= length /\ m + n <= capacity
  <2>0. m <= capacity /\ start <= length
    BY <1>4
  <2>1. CASE gap = start
    BY <2>0, <2>1, <1>1, <1>8
  <2>2. CASE gap # start
    <3>1. gap - 1 \in S
      BY <2>2, <1>1, <1>2
    <3>2. gap - 1 < length /\ gap - 1 <= top
      BY <3>1, <1>3
    <3> QED BY <3>2, <1>1, <1>2, <1>8
  <2> QED BY <2>1, <2>2
<1>10. \A i \in 1 .. n : start + i - 1 \in Nat /\ staged[start + i - 1] = start + i - 1
  <2> SUFFICES ASSUME NEW i \in 1 .. n
               PROVE  start + i - 1 \in Nat /\ staged[start + i - 1] = start + i - 1
    OBVIOUS
  <2>1. start + i - 1 \in Nat /\ start <= start + i - 1 /\ start + i - 1 < gap
    BY <1>1, <1>9
  <2>2. start + i - 1 \in S
    BY <2>1, <1>2
  <2> QED BY <2>1, <2>2, <1>3
<1>11. data = [i \in 1 .. n |-> start + i - 1]
  BY <1>10 DEF data
<1>12. data \in Seq(Nat) /\ Len(data) = n /\ \A i \in 1 .. n : data[i] = start + i - 1
  BY <1>1, <1>9, <1>11
<1>13. /\ whole \in Seq(Nat) /\ Len(whole) = m + n
       /\ \A i \in 1 .. m + n : whole[i] = start - m + i - 1
  <2>1. /\ whole \in Seq(Nat) /\ Len(whole) = m + n
        /\ \A i \in 1 .. m + n : whole[i] = IF i <= m THEN b[i] ELSE data[i - m]
    <3>1. b \in Seq(Nat) /\ data \in Seq(Nat) /\ Len(b) = m /\ Len(data) = n
      BY <1>5, <1>8, <1>12
    <3>2. whole \in Seq(Nat) /\ Len(whole) = m + n
      BY <3>1, ConcatProperties DEF whole
    <3>3. \A i \in 1 .. m + n : whole[i] = IF i <= m THEN b[i] ELSE data[i - m]
      BY <3>1 DEF whole
    <3> QED BY <3>2, <3>3
  <2>2. \A i \in 1 .. m + n : whole[i] = start - m + i - 1
    <3> SUFFICES ASSUME NEW i \in 1 .. m + n PROVE whole[i] = start - m + i - 1
      OBVIOUS
    <3>1. CASE i <= m
      <4>1. i \in 1 .. m
        BY <3>1, <1>1
      <4>2. b[i] = start - m + i - 1
        BY <4>1, <1>5
      <4>3. whole[i] = b[i]
        BY <3>1, <2>1
      <4> QED BY <4>2, <4>3
    <3>2. CASE ~(i <= m)
      <4>1. i - m \in 1 .. n
        BY <3>2, <1>1, <1>9
      <4>2. data[i - m] = start + (i - m) - 1
        BY <4>1, <1>12
      <4>3. whole[i] = data[i - m]
        BY <3>2, <2>1
      <4> QED BY <4>2, <4>3, <1>1
    <3> QED BY <3>1, <3>2
  <2> QED BY <2>1, <2>2
<1>14. stream_write(q.output, data) = out
  <2>1. remaining_capacity(q.output) = capacity - m
    BY <1>5, <1>8 DEF remaining_capacity, buffer_size, b
  <2>2. MinOf(remaining_capacity(q.output), Len(data)) = n
    <3>1. Len(data) = n
      BY <1>12
    <3> QED BY <2>1, <3>1, <1>1, <1>9 DEF MinOf
  <2>3. SubSeq(data, 1, n) = data
    BY <1>9, <1>11, <1>12
  <2>4. stream_write(q.output, data)
          = [q.output EXCEPT !.buffer = @ \o SubSeq(data, 1, n), !.written = @ + n]
    BY <2>2 DEF stream_write
  <2>5. stream_write(q.output, data)
          = [q.output EXCEPT !.buffer = b \o data, !.written = start + n]
    BY <2>3, <2>4, <1>4 DEF b
  <2> QED BY <2>5, <1>5 DEF out, whole
<1>15. a = [output |-> out, capacity |-> q.capacity, staged |-> rest,
            unassembled_start_index |-> gap,
            have_eof |-> q.have_eof, eof_index |-> q.eof_index]
  BY <1>6, <1>7, <1>14 DEF IsReassembler
<1>16. /\ out.buffer = whole /\ out.written = start + n
       /\ out.ended = q.output.ended
       /\ out \in [buffer: Seq(Nat), capacity: {capacity}, ended: BOOLEAN,
                   written: Nat, error: BOOLEAN]
  BY <1>1, <1>5, <1>9, <1>13 DEF out
<1>17. SoundStream(out, capacity, length)
  <2>1. \A i \in 1 .. m + n : whole[i] = (start + n) - (m + n) + i - 1
    BY <1>1, <1>9, <1>13
  <2>2. m + n <= capacity /\ m + n <= start + n /\ start + n <= length
    BY <1>1, <1>4, <1>9
  <2>3. Len(out.buffer) = m + n
    BY <1>13, <1>16
  <2> QED BY <2>1, <2>2, <2>3, <1>16 DEF SoundStream
<1>18. unassembled_max_index(a) = top
  <2>1. unassembled_max_index(a) = (gap - (m + n)) + (capacity - 1)
    BY <1>13, <1>15, <1>16, <1>4 DEF unassembled_max_index, buffer_size
  <2> QED BY <2>1, <1>1, <1>9
<1>19. \A p \in DOMAIN rest : /\ p \in S /\ p > gap /\ rest[p] = staged[p]
  BY DEF rest
<1>20. \A p \in DOMAIN rest : p \in Nat /\ rest[p] = p /\ p < length /\ gap <= p /\ p <= top
  <2> SUFFICES ASSUME NEW p \in DOMAIN rest
               PROVE  p \in Nat /\ rest[p] = p /\ p < length /\ gap <= p /\ p <= top
    OBVIOUS
  <2>1. p \in S /\ p > gap /\ rest[p] = staged[p]
    BY <1>19
  <2>2. p \in Nat /\ staged[p] = p /\ p < length /\ p <= top
    BY <2>1, <1>3
  <2>3. gap \in Nat
    BY <1>2
  <2> QED BY <2>1, <2>2, <2>3
<1>21. Placed(a, capacity, length)
  <2>1. IsReassembler(a)
    BY <1>15 DEF IsReassembler
  <2> QED BY <2>1, <1>4, <1>9, <1>15, <1>16, <1>17, <1>18, <1>20 DEF Placed
<1>22. Held(a) = Held(q)
  <2>1. Held(a) = (0 .. gap - 1) \cup {p \in S : p > gap}
    BY <1>15 DEF Held, rest
  <2>2. Held(q) = (0 .. start - 1) \cup S
    BY DEF Held, start, S, staged
  <2>3. \A p \in 0 .. gap - 1 : p \in 0 .. start - 1 \/ p \in S
    BY <1>1, <1>2
  <2>4. \A p \in 0 .. start - 1 : p \in 0 .. gap - 1
    BY <1>1, <1>2
  <2>5. \A p \in S : p \in 0 .. gap - 1 \/ p > gap
    <3> SUFFICES ASSUME NEW p \in S PROVE p \in 0 .. gap - 1 \/ p > gap
      OBVIOUS
    <3>1. p \in Nat /\ gap \in Nat /\ p # gap
      BY <1>2, <1>3
    <3> QED BY <3>1
  <2> QED BY <2>1, <2>2, <2>3, <2>4, <2>5
<1>23. Len(a.output.buffer) - a.output.written = Len(q.output.buffer) - q.output.written
  <2>1. Len(a.output.buffer) = m + n /\ a.output.written = start + n
    BY <1>13, <1>15, <1>16
  <2>2. Len(q.output.buffer) = m /\ q.output.written = start
    BY <1>4, <1>8 DEF b
  <2> QED BY <2>1, <2>2, <1>1, <1>9
<1>24. gap \notin DOMAIN rest
  BY <1>2, <1>19
<1> QED BY <1>15, <1>16, <1>21, <1>22, <1>23, <1>24 DEF a, gap

-----------------------------------------------------------------------------

\* end_input() sets the flag and nothing else.
LEMMA EndInput ==
    ASSUME NEW bs, NEW capacity, bs \in [buffer: Seq(Nat), capacity: {capacity},
                              ended: BOOLEAN, written: Nat, error: BOOLEAN]
    PROVE  end_input(bs) = [buffer |-> bs.buffer, capacity |-> bs.capacity, ended |-> TRUE,
                            written |-> bs.written, error |-> bs.error]
<1>1. \A v : [bs EXCEPT !.ended = v]
               = [buffer |-> bs.buffer, capacity |-> bs.capacity, ended |-> v,
                  written |-> bs.written, error |-> bs.error]
  OBVIOUS
<1> QED BY <1>1, Zenon DEF end_input

\* eof_process ends the output when it has the whole stream, and there is
\* nothing staged then.
LEMMA EofPlaced ==
    ASSUME NEW capacity \in Nat \ {0}, NEW length \in Nat,
           NEW q, Placed(q, capacity, length)
    PROVE  LET e == eof_process(q)
           IN  /\ Placed(e, capacity, length)
               /\ Held(e) = Held(q)
               /\ DOMAIN e.staged = DOMAIN q.staged
               /\ e.unassembled_start_index = q.unassembled_start_index
               /\ e.have_eof = q.have_eof
               /\ e.output.buffer = q.output.buffer
               /\ e.output.written = q.output.written
               /\ e.have_eof /\ e.unassembled_start_index = length => e.output.ended
               /\ e.output.ended =>
                     q.output.ended \/ (q.have_eof /\ q.unassembled_start_index = length)
<1> DEFINE start == q.unassembled_start_index
           ended == [buffer |-> q.output.buffer, capacity |-> q.output.capacity,
                     ended |-> TRUE, written |-> q.output.written,
                     error |-> q.output.error]
           e == eof_process(q)
<1>1. /\ start \in Nat /\ start <= length /\ q.have_eof \in BOOLEAN
      /\ q.have_eof => q.eof_index = length
  BY PlacedNumbers DEF Placed, SoundStream
<1>2. CASE ~(q.have_eof /\ start >= q.eof_index)
  <2>1. e = q
    BY <1>2 DEF eof_process
  <2>2. q.have_eof => start # length
    BY <1>1, <1>2
  <2> QED BY <2>1, <2>2
<1>3. CASE q.have_eof /\ start >= q.eof_index
  <2>1. start = length
    BY <1>1, <1>3
  <2>2. \A p \in DOMAIN q.staged : FALSE
    <3> SUFFICES ASSUME NEW p \in DOMAIN q.staged PROVE FALSE
      OBVIOUS
    <3>1. p \in Nat /\ p < length /\ start <= p
      BY DEF Placed
    <3> QED BY <3>1, <2>1
  <2>3. q.output \in [buffer: Seq(Nat), capacity: {capacity}, ended: BOOLEAN,
                      written: Nat, error: BOOLEAN]
    BY DEF Placed, SoundStream
  <2>4. end_input(q.output) = ended
    BY <2>3, EndInput
  <2>5. e = [q EXCEPT !.output = ended, !.staged = << >>]
    BY <1>3, <2>4 DEF eof_process
  <2>6. e = [output |-> ended, capacity |-> q.capacity, staged |-> << >>,
             unassembled_start_index |-> start,
             have_eof |-> q.have_eof, eof_index |-> q.eof_index]
    <3>1. IsReassembler(q)
      BY DEF Placed
    <3> HIDE DEF e, ended
    <3> QED BY <2>5, <3>1 DEF IsReassembler
  <2>7. SoundStream(ended, capacity, length)
    BY <2>3 DEF Placed, SoundStream
  <2>8. DOMAIN e.staged = {} /\ DOMAIN q.staged = {}
    BY <2>2, <2>6
  <2>9. /\ e.output = ended /\ e.unassembled_start_index = start
        /\ e.have_eof = q.have_eof /\ e.capacity = q.capacity
        /\ e.eof_index = q.eof_index /\ IsReassembler(e)
    BY <2>6 DEF IsReassembler
  <2> HIDE DEF e
  <2>10. Placed(e, capacity, length)
    BY <2>7, <2>8, <2>9 DEF Placed
  <2>11. Held(e) = Held(q)
    BY <2>8, <2>9 DEF Held
  <2> QED BY <1>3, <2>1, <2>8, <2>9, <2>10, <2>11 DEF e
<1> QED BY <1>2, <1>3

\* push_substring(), also after a FIN that overtook some bytes: everything stays
\* in its place; the reassembler holds what it held and what fits of the
\* substring, and nothing else; nothing is read by it.
LEMMA PushPlaced ==
    ASSUME NEW capacity \in Nat \ {0}, NEW length \in Nat,
           NEW q, Placed(q, capacity, length),
           NEW index \in Nat, NEW len \in Nat, NEW eofFlag \in BOOLEAN,
           index + len <= length, eofFlag => index + len = length
    PROVE  LET r1 == push_substring(q, Bytes(index, len), index, eofFlag)
           IN  /\ Placed(r1, capacity, length)
               /\ q.unassembled_start_index \notin DOMAIN q.staged
                     => r1.unassembled_start_index \notin DOMAIN r1.staged
               /\ Held(r1) = Held(q) \cup
                     {p \in index .. index + len - 1 : p <= unassembled_max_index(q)}
               /\ r1.have_eof = (q.have_eof \/ eofFlag)
               /\ r1.unassembled_start_index >= q.unassembled_start_index
               /\ r1.have_eof /\ r1.unassembled_start_index = length => r1.output.ended
               /\ r1.output.ended =>
                     q.output.ended \/ (r1.have_eof /\ r1.unassembled_start_index = length)
               /\ Len(r1.output.buffer) - r1.output.written
                     = Len(q.output.buffer) - q.output.written
<1> DEFINE data == Bytes(index, len)
           start == q.unassembled_start_index
           top == unassembled_max_index(q)
           noted == NoteEof(q, data, index, eofFlag)
           fits == {p \in index .. index + len - 1 : p <= top}
           r1 == push_substring(q, data, index, eofFlag)
<1>1. Placed(q, capacity, length)
  OBVIOUS
<1>2. start \in Nat /\ top \in Int /\ start - 1 <= top /\ start <= length
  BY <1>1, PlacedNumbers DEF Placed, SoundStream
<1>3. Len(data) = len /\ (data = << >> <=> len = 0)
  BY DEF Bytes
<1>4. noted = [output |-> q.output, capacity |-> q.capacity, staged |-> q.staged,
               unassembled_start_index |-> q.unassembled_start_index,
               have_eof |-> (q.have_eof \/ eofFlag),
               eof_index |-> IF eofFlag THEN index + len ELSE q.eof_index]
  <2>1. noted = IF eofFlag THEN [q EXCEPT !.have_eof = TRUE, !.eof_index = index + len]
                ELSE q
    BY <1>3 DEF NoteEof
  <2>2. IsReassembler(q) /\ q.have_eof \in BOOLEAN
    BY <1>1 DEF Placed
  <2> HIDE DEF noted
  <2>3. CASE eofFlag
    BY <2>1, <2>2, <2>3 DEF IsReassembler
  <2>4. CASE ~eofFlag
    BY <2>1, <2>2, <2>4 DEF IsReassembler
  <2> QED BY <2>3, <2>4
<1> HIDE DEF noted, data
<1>5. /\ noted.output = q.output /\ noted.capacity = q.capacity /\ noted.staged = q.staged
      /\ noted.unassembled_start_index = start
      /\ noted.have_eof = (q.have_eof \/ eofFlag)
      /\ noted.eof_index = (IF eofFlag THEN index + len ELSE q.eof_index)
      /\ IsReassembler(noted)
  BY <1>4 DEF IsReassembler
<1>6. /\ Placed(noted, capacity, length)
      /\ unassembled_max_index(noted) = top
      /\ Held(noted) = Held(q)
  <2>1. unassembled_max_index(noted) = top
    BY <1>5 DEF unassembled_max_index
  <2>2. Held(noted) = Held(q)
    BY <1>5 DEF Held
  <2>3. noted.have_eof \in BOOLEAN /\ noted.eof_index \in Nat
        /\ (noted.have_eof => noted.eof_index = length)
    BY <1>1, <1>5 DEF Placed
  <2> QED BY <1>1, <1>5, <2>1, <2>2, <2>3 DEF Placed
<1>7. CASE len = 0 \/ index + len < start
  <2>1. r1 = eof_process(noted)
    BY <1>3, <1>7 DEF push_substring, noted
  <2>2. fits \subseteq Held(q)
    BY <1>2, <1>7 DEF Held
  <2>3. Held(q) = Held(q) \cup fits
    BY <2>2
  <2> HIDE DEF r1, fits
  <2>4. /\ Placed(r1, capacity, length) /\ Held(r1) = Held(noted)
        /\ DOMAIN r1.staged = DOMAIN q.staged
        /\ r1.unassembled_start_index = start
        /\ r1.have_eof = noted.have_eof
        /\ r1.output.buffer = q.output.buffer
        /\ r1.output.written = q.output.written
        /\ r1.have_eof /\ r1.unassembled_start_index = length => r1.output.ended
        /\ r1.output.ended => q.output.ended \/ (noted.have_eof /\ start = length)
    BY <1>5, <1>6, <2>1, EofPlaced
  <2>5. r1.unassembled_start_index >= start
    BY <2>4, <1>2
  <2> QED BY <2>3, <2>4, <2>5, <1>5, <1>6 DEF r1, fits, data
<1>8. CASE ~(len = 0 \/ index + len < start)
  <2> DEFINE s == Stage(noted, data, index)
             a == Assemble(s)
  <2>1. r1 = eof_process(a)
    BY <1>3, <1>8 DEF push_substring, noted
  <2>2. /\ Placed(s, capacity, length)
        /\ s.output = q.output /\ s.unassembled_start_index = start
        /\ s.have_eof = noted.have_eof
        /\ DOMAIN s.staged = DOMAIN q.staged \cup
               {p \in index .. index + len - 1 : start <= p /\ p <= top}
    BY <1>2, <1>5, <1>6, <1>8, StagePlaced, SMTT(40) DEF data
  <2> HIDE DEF s, r1
  <2>3. Held(s) = Held(q) \cup fits
    <3>1. Held(s) = (0 .. start - 1) \cup (DOMAIN q.staged \cup
               {p \in index .. index + len - 1 : start <= p /\ p <= top})
      BY <2>2 DEF Held
    <3>2. Held(q) = (0 .. start - 1) \cup DOMAIN q.staged
      BY DEF Held
    <3>3. \A p \in fits : p \in 0 .. start - 1 \/ start <= p
      BY <1>2
    <3> QED BY <3>1, <3>2, <3>3
  <2>4. /\ Placed(a, capacity, length)
        /\ a.unassembled_start_index = FirstGap(s)
        /\ a.unassembled_start_index \notin DOMAIN a.staged
        /\ a.output.ended = s.output.ended /\ a.have_eof = s.have_eof
        /\ Len(a.output.buffer) - a.output.written
              = Len(s.output.buffer) - s.output.written
        /\ Held(a) = Held(s)
    BY <2>2, AssemblePlaced
  <2>5. FirstGap(s) >= start /\ FirstGap(s) \in Nat
    BY <2>2, <1>2, FirstGapIs
  <2> HIDE DEF a, fits
  <2>6. /\ Placed(r1, capacity, length) /\ Held(r1) = Held(a)
        /\ DOMAIN r1.staged = DOMAIN a.staged
        /\ r1.unassembled_start_index = a.unassembled_start_index
        /\ r1.have_eof = a.have_eof
        /\ r1.output.buffer = a.output.buffer
        /\ r1.output.written = a.output.written
        /\ r1.have_eof /\ r1.unassembled_start_index = length => r1.output.ended
        /\ r1.output.ended =>
              a.output.ended \/ (a.have_eof /\ a.unassembled_start_index = length)
    BY <2>1, <2>4, EofPlaced
  <2> QED BY <2>2, <2>3, <2>4, <2>5, <2>6, <1>5 DEF r1, fits, data
<1> QED BY <1>7, <1>8

\* If no FIN overtook a byte, the reassembler stays sound.
LEMMA PushSound ==
    ASSUME NEW capacity \in Nat \ {0}, NEW length \in Nat,
           NEW q, Sound(q, capacity, length),
           NEW index \in Nat, NEW len \in Nat, NEW eofFlag \in BOOLEAN,
           index + len <= length, eofFlag => index + len = length
    PROVE  LET r1 == push_substring(q, Bytes(index, len), index, eofFlag)
           IN  /\ Sound(r1, capacity, length)
               /\ Held(r1) = Held(q) \cup
                     {p \in index .. index + len - 1 : p <= unassembled_max_index(q)}
               /\ r1.have_eof = (q.have_eof \/ eofFlag)
               /\ r1.unassembled_start_index >= q.unassembled_start_index
               /\ r1.have_eof /\ r1.unassembled_start_index = length => r1.output.ended
               /\ r1.output.ended => q.output.ended \/ r1.have_eof
               /\ Len(r1.output.buffer) - r1.output.written
                     = Len(q.output.buffer) - q.output.written
<1> DEFINE r1 == push_substring(q, Bytes(index, len), index, eofFlag)
<1>1. /\ Placed(q, capacity, length) /\ q.unassembled_start_index \notin DOMAIN q.staged
      /\ q.output.ended => q.unassembled_start_index = length
  BY DEF Sound
<1>2. /\ Placed(r1, capacity, length)
      /\ r1.unassembled_start_index \notin DOMAIN r1.staged
      /\ r1.unassembled_start_index >= q.unassembled_start_index
      /\ r1.output.ended =>
            q.output.ended \/ (r1.have_eof /\ r1.unassembled_start_index = length)
  BY <1>1, PushPlaced
<1>3. /\ r1.unassembled_start_index \in Nat /\ r1.unassembled_start_index <= length
  BY <1>2, PlacedNumbers DEF Placed, SoundStream
<1>4. r1.output.ended => r1.unassembled_start_index = length
  BY <1>1, <1>2, <1>3
<1>5. Sound(r1, capacity, length)
  BY <1>2, <1>4 DEF Sound
<1>6. /\ Held(r1) = Held(q) \cup
            {p \in index .. index + len - 1 : p <= unassembled_max_index(q)}
      /\ r1.have_eof = (q.have_eof \/ eofFlag)
      /\ r1.have_eof /\ r1.unassembled_start_index = length => r1.output.ended
      /\ Len(r1.output.buffer) - r1.output.written = Len(q.output.buffer) - q.output.written
  BY <1>1, PushPlaced
<1> HIDE DEF r1
<1> QED BY <1>2, <1>5, <1>6 DEF r1

\* The application's read takes bytes off the front of the output.
LEMMA ReadPlaced ==
    ASSUME NEW capacity \in Nat \ {0}, NEW length \in Nat,
           NEW q, Placed(q, capacity, length),
           NEW n \in Nat, n <= buffer_size(q.output)
    PROVE  LET r1 == [q EXCEPT !.output = stream_read(@, n)]
           IN  /\ Placed(r1, capacity, length)
               /\ Held(r1) = Held(q) /\ DOMAIN r1.staged = DOMAIN q.staged
               /\ r1.have_eof = q.have_eof
               /\ r1.unassembled_start_index = q.unassembled_start_index
               /\ r1.output.ended = q.output.ended
               /\ Len(r1.output.buffer) = Len(q.output.buffer) - n
<1> DEFINE b == q.output.buffer
           m == Len(b)
           w == q.output.written
           left == SubSeq(b, n + 1, m)
           out == [buffer |-> left, capacity |-> q.output.capacity,
                   ended |-> q.output.ended, written |-> w, error |-> q.output.error]
           r1 == [q EXCEPT !.output = stream_read(@, n)]
<1>1. Placed(q, capacity, length)
  OBVIOUS
<1>2. /\ b \in Seq(Nat) /\ q.output \in [buffer: Seq(Nat), capacity: {capacity},
                              ended: BOOLEAN, written: Nat, error: BOOLEAN]
      /\ \A i \in 1 .. m : b[i] = w - m + i - 1
  BY <1>1 DEF Placed, SoundStream
<1>3. m \in Nat /\ w \in Nat /\ m <= capacity /\ m <= w /\ w <= length /\ n <= m
  BY <1>1, PlacedNumbers DEF Placed, SoundStream, buffer_size
<1>4. stream_read(q.output, n) = out
  <2>1. ~(n > buffer_size(q.output))
    BY <1>3 DEF buffer_size
  <2>2. stream_read(q.output, n) = [q.output EXCEPT !.buffer = left]
    BY <2>1 DEF stream_read, pop_output
  <2> HIDE DEF left
  <2> QED BY <2>2, <1>2
<1>5. r1 = [output |-> out, capacity |-> q.capacity, staged |-> q.staged,
            unassembled_start_index |-> q.unassembled_start_index,
            have_eof |-> q.have_eof, eof_index |-> q.eof_index]
  <2>1. r1 = [q EXCEPT !.output = out]
    BY <1>4
  <2>2. IsReassembler(q)
    BY <1>1 DEF Placed
  <2> HIDE DEF r1, out
  <2> QED BY <2>1, <2>2 DEF IsReassembler
<1>6. m = Len(b)
  OBVIOUS
<1> HIDE DEF b, m, w
<1>7. /\ left \in Seq(Nat) /\ Len(left) = m - n
      /\ \A i \in 1 .. m - n : left[i] = b[n + i]
  BY <1>2, <1>3, <1>6, SubSeqProperties, SMTT(40)
<1>8. \A i \in 1 .. m - n : left[i] = w - (m - n) + i - 1
  <2> SUFFICES ASSUME NEW i \in 1 .. m - n PROVE left[i] = w - (m - n) + i - 1
    OBVIOUS
  <2>1. n + i \in 1 .. m
    BY <1>3
  <2>2. b[n + i] = w - m + (n + i) - 1
    BY <2>1, <1>2
  <2>3. left[i] = b[n + i]
    BY <1>7
  <2> QED BY <2>2, <2>3, <1>3
<1> HIDE DEF left
<1>9. SoundStream(out, capacity, length)
  <2>1. m - n <= capacity /\ m - n <= w
    BY <1>3
  <2>2. out \in [buffer: Seq(Nat), capacity: {capacity}, ended: BOOLEAN,
                 written: Nat, error: BOOLEAN]
    BY <1>2, <1>3, <1>7
  <2> QED BY <2>1, <2>2, <1>3, <1>7, <1>8 DEF SoundStream
<1>10. Len(out.buffer) = m - n /\ out.written = w /\ out.ended = q.output.ended
  BY <1>7
<1> HIDE DEF out, r1
<1>11. /\ r1.output = out /\ r1.capacity = q.capacity /\ r1.staged = q.staged
       /\ r1.unassembled_start_index = q.unassembled_start_index
       /\ r1.have_eof = q.have_eof /\ r1.eof_index = q.eof_index
       /\ IsReassembler(r1)
  BY <1>5 DEF IsReassembler
<1>12. /\ unassembled_max_index(r1) \in Int
       /\ unassembled_max_index(q) \in Int
       /\ unassembled_max_index(r1) >= unassembled_max_index(q)
  <2>1. /\ unassembled_max_index(q) = (w - m) + (capacity - 1)
        /\ unassembled_max_index(r1) = (w - (m - n)) + (capacity - 1)
    BY <1>1, <1>6, <1>10, <1>11 DEF unassembled_max_index, buffer_size, Placed, w, b
  <2> QED BY <2>1, <1>3
<1>13. Placed(r1, capacity, length)
  <2>1. \A p \in DOMAIN q.staged :
            /\ p \in Nat /\ q.staged[p] = p /\ p < length
            /\ q.unassembled_start_index <= p /\ p <= unassembled_max_index(q)
    BY <1>1 DEF Placed
  <2>2. \A p \in DOMAIN q.staged : p <= unassembled_max_index(r1)
    BY <2>1, <1>12
  <2> QED BY <2>1, <2>2, <1>1, <1>9, <1>10, <1>11 DEF Placed, w
<1>14. Held(r1) = Held(q)
  BY <1>11 DEF Held
<1> QED BY <1>6, <1>10, <1>11, <1>13, <1>14 DEF r1, b

\* It keeps a sound reassembler sound.
LEMMA ReadSound ==
    ASSUME NEW capacity \in Nat \ {0}, NEW length \in Nat,
           NEW q, Sound(q, capacity, length),
           NEW n \in Nat, n <= buffer_size(q.output)
    PROVE  LET r1 == [q EXCEPT !.output = stream_read(@, n)]
           IN  /\ Sound(r1, capacity, length)
               /\ Held(r1) = Held(q)
               /\ r1.have_eof = q.have_eof
               /\ r1.unassembled_start_index = q.unassembled_start_index
               /\ r1.output.ended = q.output.ended
               /\ Len(r1.output.buffer) = Len(q.output.buffer) - n
<1> DEFINE r1 == [q EXCEPT !.output = stream_read(@, n)]
<1>1. /\ Placed(q, capacity, length) /\ q.unassembled_start_index \notin DOMAIN q.staged
      /\ q.output.ended => q.unassembled_start_index = length
  BY DEF Sound
<1>2. /\ Placed(r1, capacity, length)
      /\ Held(r1) = Held(q) /\ DOMAIN r1.staged = DOMAIN q.staged
      /\ r1.have_eof = q.have_eof
      /\ r1.unassembled_start_index = q.unassembled_start_index
      /\ r1.output.ended = q.output.ended
      /\ Len(r1.output.buffer) = Len(q.output.buffer) - n
  BY <1>1, ReadPlaced
<1> HIDE DEF r1
<1> QED BY <1>1, <1>2 DEF Sound, r1

-----------------------------------------------------------------------------

\* Flags of the output put nothing out of its place.
LEMMA FlagPlaced ==
    ASSUME NEW capacity \in Nat \ {0}, NEW length \in Nat,
           NEW q, Placed(q, capacity, length), NEW bs,
           bs \in {end_input(q.output), set_error(q.output)}
    PROVE  LET r1 == [q EXCEPT !.output = bs]
           IN  /\ Placed(r1, capacity, length) /\ Held(r1) = Held(q)
               /\ r1.output.buffer = q.output.buffer /\ r1.output.written = q.output.written
<1> DEFINE r1 == [q EXCEPT !.output = bs]
<1>1. q.output \in [buffer: Seq(Nat), capacity: {capacity}, ended: BOOLEAN,
                    written: Nat, error: BOOLEAN]
  BY DEF Placed, SoundStream
<1>2. /\ bs \in [buffer: Seq(Nat), capacity: {capacity}, ended: BOOLEAN,
                  written: Nat, error: BOOLEAN]
      /\ bs.buffer = q.output.buffer /\ bs.written = q.output.written
  <2>1. CASE bs = end_input(q.output)
    BY <1>1, <2>1, Zenon DEF end_input
  <2>2. CASE bs = set_error(q.output)
    BY <1>1, <2>2, Zenon DEF set_error
  <2> QED BY <2>1, <2>2
<1>3. SoundStream(bs, capacity, length)
  BY <1>2 DEF Placed, SoundStream
<1>4. r1 = [output |-> bs, capacity |-> q.capacity, staged |-> q.staged,
            unassembled_start_index |-> q.unassembled_start_index,
            have_eof |-> q.have_eof, eof_index |-> q.eof_index]
  <2>1. IsReassembler(q)
    BY DEF Placed
  <2> QED BY <2>1 DEF IsReassembler
<1> HIDE DEF r1
<1>5. /\ r1.output = bs /\ r1.capacity = q.capacity /\ r1.staged = q.staged
      /\ r1.unassembled_start_index = q.unassembled_start_index
      /\ r1.have_eof = q.have_eof /\ r1.eof_index = q.eof_index
      /\ IsReassembler(r1)
  BY <1>4 DEF IsReassembler
<1>6. unassembled_max_index(r1) = unassembled_max_index(q)
  BY <1>2, <1>5 DEF unassembled_max_index, buffer_size
<1>7. Placed(r1, capacity, length)
  BY <1>2, <1>3, <1>5, <1>6 DEF Placed
<1>8. Held(r1) = Held(q)
  BY <1>5 DEF Held
<1> QED BY <1>2, <1>5, <1>7, <1>8 DEF r1

\* A reassembler as its constructor leaves it is sound.
LEMMA NewIsSound ==
    ASSUME NEW capacity \in Nat \ {0}, NEW length \in Nat
    PROVE  /\ Sound(NewStreamReassembler(capacity), capacity, length)
           /\ Held(NewStreamReassembler(capacity)) = {}
<1> DEFINE q == NewStreamReassembler(capacity)
           bs == NewByteStream(capacity)
<1>1. SoundStream(bs, capacity, length)
  <2>1. bs.buffer = << >> /\ Len(bs.buffer) = 0 /\ bs.written = 0
    BY DEF NewByteStream
  <2>2. bs \in [buffer: Seq(Nat), capacity: {capacity}, ended: BOOLEAN,
                written: Nat, error: BOOLEAN]
    BY DEF NewByteStream
  <2> QED BY <2>1, <2>2 DEF SoundStream
<1>2. /\ q.output = bs /\ q.capacity = capacity /\ q.staged = << >>
      /\ q.unassembled_start_index = 0 /\ q.have_eof = FALSE /\ q.eof_index = 0
      /\ IsReassembler(q)
  BY DEF NewStreamReassembler, IsReassembler
<1>3. bs.written = 0 /\ bs.ended = FALSE
  BY DEF NewByteStream
<1>4. DOMAIN q.staged = {}
  BY <1>2
<1> HIDE DEF q, bs
<1>5. Placed(q, capacity, length)
  <2>1. \A p \in DOMAIN q.staged : FALSE
    BY <1>4
  <2>2. /\ q.have_eof \in BOOLEAN /\ (q.have_eof => q.eof_index = length)
        /\ q.unassembled_start_index = q.output.written /\ q.eof_index = 0
    BY <1>2, <1>3, Zenon
  <2>4. q.eof_index \in Nat
    BY <2>2
  <2>3. DOMAIN q.staged \subseteq Nat
    BY <2>1
  <2> QED BY <2>1, <2>2, <2>3, <2>4, <1>1, <1>2, Zenon DEF Placed
<1>6. Held(q) = {}
  BY <1>2, <1>4 DEF Held
<1> QED BY <1>2, <1>3, <1>4, <1>5, <1>6 DEF Sound, q

\* What a sound reassembler stages lies in the room that is left, and it is
\* nothing when the output has the whole stream.
LEMMA StagedIsSmall ==
    ASSUME NEW capacity \in Nat \ {0}, NEW length \in Nat,
           NEW q, Sound(q, capacity, length)
    PROVE  /\ IsFiniteSet(DOMAIN q.staged)
           /\ unassembled_bytes(q) \in Nat
           /\ buffer_size(q.output) + unassembled_bytes(q) <= capacity
           /\ q.unassembled_start_index = length => reassembler_empty(q)
           /\ reassembler_empty(q) => DOMAIN q.staged = {}
<1> DEFINE start == q.unassembled_start_index
           top == unassembled_max_index(q)
           m == Len(q.output.buffer)
           S == DOMAIN q.staged
<1>1. Placed(q, capacity, length) /\ start \notin S
  BY DEF Sound
<1>2. start \in Nat /\ m \in Nat /\ top \in Int /\ top = start - m + capacity - 1
  BY <1>1, PlacedNumbers
<1>3. m <= capacity
  BY <1>1 DEF Placed, SoundStream
<1>4. \A p \in S : p \in Nat /\ p < length /\ start <= p /\ p <= top /\ p # start
  BY <1>1 DEF Placed
<1>5. unassembled_bytes(q) = Cardinality(S) /\ buffer_size(q.output) = m
  BY DEF unassembled_bytes, StagedPositions, buffer_size
<1>6. reassembler_empty(q) <=> Cardinality(S) = 0
  BY DEF unassembled_bytes, StagedPositions, reassembler_empty
<1> HIDE DEF start, top, m, S
<1>7. S \subseteq start + 1 .. top
  BY <1>2, <1>4
<1>8. /\ IsFiniteSet(start + 1 .. top)
      /\ Cardinality(start + 1 .. top)
            = IF start + 1 > top THEN 0 ELSE top - (start + 1) + 1
  BY <1>2, FS_Interval
<1>9. /\ IsFiniteSet(S)
      /\ Cardinality(S) <= Cardinality(start + 1 .. top)
  BY <1>7, <1>8, FS_Subset
<1>10. Cardinality(S) \in Nat
  BY <1>9, FS_CardinalityType
<1>11. m + Cardinality(S) <= capacity
  <2>1. CASE start + 1 > top
    BY <2>1, <1>2, <1>3, <1>8, <1>9, <1>10
  <2>2. CASE ~(start + 1 > top)
    BY <2>2, <1>2, <1>3, <1>8, <1>9, <1>10
  <2> QED BY <2>1, <2>2
<1>12. start = length => S = {}
  BY <1>2, <1>4
<1>13. S = {} <=> Cardinality(S) = 0
  BY <1>9, FS_EmptySet
<1> QED BY <1>5, <1>6, <1>9, <1>10, <1>11, <1>12, <1>13 DEF start, S
=============================================================================
