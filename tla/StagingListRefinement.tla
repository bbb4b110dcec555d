----------------------- MODULE StagingListRefinement ------------------------
(***************************************************************************)
(* Every push and read of the list algorithm is the same push or read of   *)
(* the reassembler over a function from positions to bytes, so that the    *)
(* algorithm has the reassembler's properties, for every capacity and      *)
(* stream length.  The inductive invariant is ListInv: the list is in      *)
(* order, _staging_size counts it, and what it stands for is Sound, which  *)
(* module StreamReassemblerProofs keeps.                                   *)
(***************************************************************************)
EXTENDS StagingListProofs

SR == INSTANCE StreamReassemblerProofs

-----------------------------------------------------------------------------
(* The state between two pushes *)

\* The reassembler that the list stands for.
AbsOf(m) ==
    [output |-> m.output, capacity |-> m.capacity,
     staged |-> [p \in Cover(m.staging_list, Len(m.staging_list)) |-> p],
     unassembled_start_index |-> m.unassembled_start_index,
     have_eof |-> m.have_eof, eof_index |-> m.eof_index]

\* The record of the code's reassembler, with a list in order and the right size.
GoodRecord(m) ==
    /\ m = [output |-> m.output, capacity |-> m.capacity,
            staging_list |-> m.staging_list, staging_size |-> m.staging_size,
            unassembled_start_index |-> m.unassembled_start_index,
            have_eof |-> m.have_eof, eof_index |-> m.eof_index]
    /\ InOrder(m.staging_list)
    /\ Sized(Cover(m.staging_list, Len(m.staging_list)), m.staging_size)

ListInv == GoodRecord(l) /\ SR!Sound(AbsOf(l), Capacity, StreamLength)

\* It is what the loops rely on.
LEMMA ListIsReady ==
    ASSUME ListInv
    PROVE  ListReady /\ MaxIndex = SR!unassembled_max_index(AbsOf(l))
<1> DEFINE q == AbsOf(l)
<1>1. /\ InOrder(List) /\ Len(List) \in Nat
      /\ \A k \in 1 .. Len(List) : /\ List[k].first \in Nat /\ List[k].last \in Nat
                                   /\ List[k].first <= List[k].last
  BY InOrderItems DEF ListInv, GoodRecord, List, IsItem
<1>2. /\ q.unassembled_start_index = Start /\ q.output = l.output /\ q.capacity = l.capacity
      /\ DOMAIN q.staged = Cover(List, Len(List))
  BY DEF AbsOf, Start, List
<1>3. SR!Placed(q, Capacity, StreamLength) /\ Start \notin DOMAIN q.staged
  BY <1>2 DEF ListInv, SR!Sound
<1> HIDE DEF q
<1>4. MaxIndex = SR!unassembled_max_index(q)
  BY <1>2, Zenon DEF MaxIndex, SR!unassembled_max_index, Start, buffer_size, SR!buffer_size
<1>5. /\ q.unassembled_start_index \in Nat
      /\ SR!unassembled_max_index(q) \in Int
      /\ q.unassembled_start_index - 1 <= SR!unassembled_max_index(q)
  BY <1>3, SR!PlacedNumbers, ReassemblerAssumption
<1>6. ASSUME NEW k \in 1 .. Len(List)
      PROVE  Start < List[k].first /\ List[k].last <= MaxIndex
  <2>1. List[k].first \in Cover(List, Len(List)) /\ List[k].last \in Cover(List, Len(List))
    BY <1>1 DEF Cover
  <2>2. Start <= List[k].first /\ List[k].last <= MaxIndex /\ Start # List[k].first
    BY <1>2, <1>3, <1>4, <2>1 DEF SR!Placed
  <2> QED BY <1>1, <1>2, <1>5, <2>2
<1>7. Sized(Cover(List, Len(List)), l.staging_size)
  BY DEF ListInv, GoodRecord, List
<1> QED BY <1>1, <1>2, <1>4, <1>5, <1>6, <1>7 DEF q, ListReady

\* The operations on the output are the reassembler's.
LEMMA SameStream ==
    /\ \A bs, data : SR!stream_write(bs, data) = stream_write(bs, data)
    /\ \A bs, n : SR!stream_read(bs, n) = stream_read(bs, n)
    /\ \A bs : SR!end_input(bs) = end_input(bs)
    /\ \A bs : SR!buffer_size(bs) = buffer_size(bs)
    /\ \A capacity : SR!NewByteStream(capacity) = NewByteStream(capacity)
<1>1. \A bs, data : SR!stream_write(bs, data) = stream_write(bs, data)
  BY DEF SR!stream_write, stream_write, SR!MinOf, MinOf, SR!remaining_capacity,
         remaining_capacity, SR!buffer_size, buffer_size
<1>2. \A bs, n : SR!stream_read(bs, n) = stream_read(bs, n)
  BY DEF SR!stream_read, stream_read, SR!pop_output, pop_output, SR!buffer_size, buffer_size
<1>3. \A bs : SR!end_input(bs) = end_input(bs)
  BY DEF SR!end_input, end_input
<1>4. \A bs : SR!buffer_size(bs) = buffer_size(bs)
  BY DEF SR!buffer_size, buffer_size
<1>5. \A capacity : SR!NewByteStream(capacity) = NewByteStream(capacity)
  BY DEF SR!NewByteStream, NewByteStream
<1> QED BY <1>1, <1>2, <1>3, <1>4, <1>5

\* The empty list covers nothing.
LEMMA EmptyList ==
    /\ Cover(<< >>, Len(<< >>)) = {} /\ InOrder(<< >>) /\ Sized({}, 0)
    /\ [p \in {} |-> p] = << >>
<1>1. << >> \in Seq(Items) /\ Len(<< >>) = 0
  OBVIOUS
<1>2. Cover(<< >>, 0) = {} /\ InOrder(<< >>)
  BY <1>1 DEF Cover, InOrder
<1>3. Sized({}, 0)
  BY FS_EmptySet DEF Sized
<1>4. [p \in {} |-> p] = << >>
  <2>1. 1 .. 0 = {}
    OBVIOUS
  <2>2. DOMAIN << >> = {}
    OBVIOUS
  <2> QED BY <2>2
<1> QED BY <1>1, <1>2, <1>3, <1>4

\* eof_process() on the list is eof_process() on the reassembler.
LEMMA EofAbs ==
    ASSUME NEW m, GoodRecord(m)
    PROVE  GoodRecord(eof_process(m)) /\ AbsOf(eof_process(m)) = SR!eof_process(AbsOf(m))
<1> DEFINE q == AbsOf(m)
           done == m.have_eof /\ m.unassembled_start_index >= m.eof_index
<1>1. /\ q.have_eof = m.have_eof /\ q.eof_index = m.eof_index
      /\ q.unassembled_start_index = m.unassembled_start_index
      /\ q.output = m.output
  BY DEF AbsOf
<1>2. CASE done
  <2> DEFINE x == eof_process(m)
  <2>1. x = [output |-> end_input(m.output), capacity |-> m.capacity,
             staging_list |-> << >>, staging_size |-> 0,
             unassembled_start_index |-> m.unassembled_start_index,
             have_eof |-> m.have_eof, eof_index |-> m.eof_index]
    BY <1>2 DEF eof_process, GoodRecord
  <2> HIDE DEF x
  <2>2. GoodRecord(x)
    BY <2>1, EmptyList DEF GoodRecord
  <2>3. AbsOf(x) = [output |-> end_input(m.output), capacity |-> m.capacity,
                    staged |-> << >>,
                    unassembled_start_index |-> m.unassembled_start_index,
                    have_eof |-> m.have_eof, eof_index |-> m.eof_index]
    BY <2>1, EmptyList DEF AbsOf
  <2>4. SR!eof_process(q) = [q EXCEPT !.output = end_input(@), !.staged = << >>]
    <3> HIDE DEF q
    <3> QED BY <1>1, <1>2, SameStream DEF SR!eof_process
  <2>5. SR!eof_process(q) = AbsOf(x)
    BY <2>3, <2>4 DEF AbsOf
  <2> QED BY <2>2, <2>5 DEF x
<1>3. CASE ~done
  <2>1. eof_process(m) = m
    BY <1>3 DEF eof_process
  <2>2. SR!eof_process(q) = q
    <3> HIDE DEF q
    <3> QED BY <1>1, <1>3 DEF SR!eof_process
  <2> QED BY <2>1, <2>2
<1> QED BY <1>2, <1>3

\* The list with another idea of the end.
Noted(have, at) ==
    [output |-> l.output, capacity |-> l.capacity,
     staging_list |-> l.staging_list, staging_size |-> l.staging_size,
     unassembled_start_index |-> l.unassembled_start_index,
     have_eof |-> have, eof_index |-> at]

LEMMA NotedReset ==
    ASSUME NEW have, NEW at, NEW size
    PROVE  /\ [Noted(have, at) EXCEPT !.staging_list = << >>, !.staging_size = size]
                = [output |-> l.output, capacity |-> l.capacity,
                   staging_list |-> << >>, staging_size |-> size,
                   unassembled_start_index |-> Start, have_eof |-> have, eof_index |-> at]
           /\ Noted(have, at).have_eof = have /\ Noted(have, at).eof_index = at
<1> DEFINE m == Noted(have, at)
<1>1. m = [output |-> l.output, capacity |-> l.capacity,
           staging_list |-> l.staging_list, staging_size |-> l.staging_size,
           unassembled_start_index |-> Start, have_eof |-> have, eof_index |-> at]
  BY DEF Noted, Start
<1> HIDE DEF m
<1>2. m.have_eof = have /\ m.eof_index = at
  BY <1>1
<1> DEFINE k == [m EXCEPT !.staging_list = << >>]
<1>3. [m EXCEPT !.staging_list = << >>, !.staging_size = size]
        = [k EXCEPT !.staging_size = size]
  OBVIOUS
<1>4. k = [output |-> l.output, capacity |-> l.capacity,
           staging_list |-> << >>, staging_size |-> l.staging_size,
           unassembled_start_index |-> Start, have_eof |-> have, eof_index |-> at]
  BY <1>1
<1> HIDE DEF k
<1>5. [k EXCEPT !.staging_size = size]
        = [output |-> l.output, capacity |-> l.capacity,
           staging_list |-> << >>, staging_size |-> size,
           unassembled_start_index |-> Start, have_eof |-> have, eof_index |-> at]
  BY <1>4
<1> QED BY <1>2, <1>3, <1>5 DEF m

\* Noting the end changes the same fields of both.
LEMMA NotedAbs ==
    ASSUME ListInv, NEW index \in Nat, NEW len \in Nat, NEW eofFlag \in BOOLEAN,
           eofFlag => index + len = StreamLength
    PROVE  LET m == NoteEof(Substring(index, len), index, eofFlag)
           IN  /\ m = Noted(m.have_eof, m.eof_index)
               /\ GoodRecord(m)
               /\ AbsOf(m) = SR!NoteEof(AbsOf(l), SR!Bytes(index, len), index, eofFlag)
               /\ SR!Placed(AbsOf(m), Capacity, StreamLength)
               /\ SR!unassembled_max_index(AbsOf(m)) = SR!unassembled_max_index(AbsOf(l))
<1> DEFINE m == NoteEof(Substring(index, len), index, eofFlag)
           q == AbsOf(l)
           z == AbsOf(m)
<1>1. Len(Substring(index, len)) = len /\ Len(SR!Bytes(index, len)) = len
  BY SubstringIs DEF SR!Bytes, Substring
<1>2. /\ m = [output |-> l.output, capacity |-> l.capacity,
              staging_list |-> l.staging_list, staging_size |-> l.staging_size,
              unassembled_start_index |-> l.unassembled_start_index,
              have_eof |-> m.have_eof, eof_index |-> m.eof_index]
      /\ m.have_eof = IF eofFlag THEN TRUE ELSE l.have_eof
      /\ m.eof_index = IF eofFlag THEN index + len ELSE l.eof_index
  <2>1. m = IF eofFlag THEN [l EXCEPT !.have_eof = TRUE, !.eof_index = index + len] ELSE l
    BY <1>1 DEF NoteEof
  <2>2. l = [output |-> l.output, capacity |-> l.capacity,
             staging_list |-> l.staging_list, staging_size |-> l.staging_size,
             unassembled_start_index |-> l.unassembled_start_index,
             have_eof |-> l.have_eof, eof_index |-> l.eof_index]
    BY DEF ListInv, GoodRecord
  <2> HIDE DEF m
  <2>3. CASE eofFlag
    BY <2>1, <2>2, <2>3
  <2>4. CASE ~eofFlag
    BY <2>1, <2>2, <2>4
  <2> QED BY <2>3, <2>4
<1> HIDE DEF m
<1>3. /\ m.output = l.output /\ m.capacity = l.capacity
      /\ m.staging_list = l.staging_list /\ m.staging_size = l.staging_size
      /\ m.unassembled_start_index = l.unassembled_start_index
  BY <1>2
<1>4. GoodRecord(m)
  BY <1>2, <1>3 DEF ListInv, GoodRecord
<1>5. z = SR!NoteEof(q, SR!Bytes(index, len), index, eofFlag)
  <2>1. SR!NoteEof(q, SR!Bytes(index, len), index, eofFlag)
          = IF eofFlag THEN [q EXCEPT !.have_eof = TRUE, !.eof_index = index + len] ELSE q
    <3> HIDE DEF q
    <3> QED BY <1>1 DEF SR!NoteEof
  <2>2. CASE eofFlag
    BY <1>2, <1>3, <2>1, <2>2 DEF AbsOf
  <2>3. CASE ~eofFlag
    BY <1>2, <1>3, <2>1, <2>3 DEF AbsOf
  <2> QED BY <2>2, <2>3
<1>6. SR!Placed(q, Capacity, StreamLength)
  BY DEF ListInv, SR!Sound
<1>7. /\ z.output = q.output /\ z.capacity = q.capacity /\ z.staged = q.staged
      /\ z.unassembled_start_index = q.unassembled_start_index
      /\ z.have_eof = m.have_eof /\ z.eof_index = m.eof_index
      /\ q.have_eof = l.have_eof /\ q.eof_index = l.eof_index
  BY <1>3 DEF AbsOf
<1>8. SR!IsReassembler(z)
  BY DEF SR!IsReassembler, AbsOf
<1> HIDE DEF z, q
<1>9. SR!unassembled_max_index(z) = SR!unassembled_max_index(q)
  BY <1>7 DEF SR!unassembled_max_index
<1>10. /\ z.have_eof \in BOOLEAN /\ z.eof_index \in Nat
       /\ z.have_eof => z.eof_index = StreamLength
  <2>1. CASE eofFlag
    BY <1>2, <1>7, <2>1
  <2>2. CASE ~eofFlag
    <3>1. z.have_eof = q.have_eof /\ z.eof_index = q.eof_index
      BY <1>2, <1>7, <2>2
    <3> QED BY <1>6, <3>1 DEF SR!Placed
  <2> QED BY <2>1, <2>2
<1>11. SR!Placed(z, Capacity, StreamLength)
  BY <1>6, <1>7, <1>8, <1>9, <1>10 DEF SR!Placed
<1> QED BY <1>2, <1>4, <1>5, <1>9, <1>11 DEF z, q, m, Noted

\* Placing and writing is staging and assembling.
LEMMA WriteAbs ==
    ASSUME ListInv, NEW index \in Nat, NEW len \in Nat, len > 0,
           index + len <= StreamLength, index + len >= Start, NEW have, NEW at,
           SR!Placed(AbsOf(Noted(have, at)), Capacity, StreamLength),
           SR!unassembled_max_index(AbsOf(Noted(have, at))) = MaxIndex
    PROVE  LET m == Noted(have, at)
               v == Place(Substring(index, len), index)
               m0 == [m EXCEPT !.staging_list = << >>, !.staging_size = v.size]
               x == WriteItems(m0, v.items)[Len(v.items)]
           IN  /\ GoodRecord(x)
               /\ AbsOf(x) = SR!Assemble(SR!Stage(AbsOf(m), SR!Bytes(index, len), index))
<1> DEFINE m == Noted(have, at)
           data == Substring(index, len)
           v == Place(data, index)
           P == v.items
           n == Len(P)
           m0 == [m EXCEPT !.staging_list = << >>, !.staging_size = v.size]
           x == WriteItems(m0, P)[n]
           q == AbsOf(m)
           z == SR!Stage(q, SR!Bytes(index, len), index)
           a == SR!Assemble(z)
           Fits == {p \in MaxOf(Start, index) .. index + len - 1 : p <= MaxIndex}
<1>1. ListReady
  BY ListIsReady
<1>2. /\ InOrder(P) /\ Cover(P, n) = Cover(List, Len(List)) \cup Fits
      /\ Sized(Cover(P, n), v.size)
  BY <1>1, PlaceIs
<1>3. Start \in Nat /\ MaxIndex \in Int /\ Start - 1 <= MaxIndex
  BY <1>1 DEF ListReady
<1>4. /\ q.output = l.output /\ q.unassembled_start_index = Start
      /\ q.capacity = l.capacity /\ q.have_eof = m.have_eof /\ q.eof_index = m.eof_index
      /\ DOMAIN q.staged = Cover(List, Len(List))
  BY DEF AbsOf, Start, List, Noted
<1>q. SR!Placed(q, Capacity, StreamLength) /\ SR!unassembled_max_index(q) = MaxIndex
  OBVIOUS
<1> HIDE DEF v
<1>5. m0 = [output |-> l.output, capacity |-> l.capacity,
            staging_list |-> << >>, staging_size |-> v.size,
            unassembled_start_index |-> Start,
            have_eof |-> m.have_eof, eof_index |-> m.eof_index]
  <2> DEFINE size == v.size
  <2> HIDE DEF size
  <2>1. /\ [m EXCEPT !.staging_list = << >>, !.staging_size = size]
             = [output |-> l.output, capacity |-> l.capacity,
                staging_list |-> << >>, staging_size |-> size,
                unassembled_start_index |-> Start, have_eof |-> have, eof_index |-> at]
        /\ m.have_eof = have /\ m.eof_index = at
    BY NotedReset, Zenon
  <2> QED BY <2>1 DEF size
<1> HIDE DEF q, m0, P, m
<1>6. /\ l.output.buffer \in Seq(Nat) /\ Len(l.output.buffer) \in Nat
      /\ l.output.written \in Nat
      /\ l.output.capacity = Capacity /\ Len(l.output.buffer) <= Capacity
      /\ MaxIndex = Start - Len(l.output.buffer) + Capacity - 1
      /\ l.output = [buffer |-> l.output.buffer, capacity |-> l.output.capacity,
                     ended |-> l.output.ended, written |-> l.output.written,
                     error |-> l.output.error]
  <2>1. SR!SoundStream(l.output, Capacity, StreamLength)
    BY <1>4, <1>q DEF SR!Placed
  <2>2. /\ Len(l.output.buffer) \in Nat /\ l.output.buffer \in Seq(Nat)
        /\ MaxIndex = Start - Len(l.output.buffer) + Capacity - 1
    BY <1>4, <1>q, SR!PlacedNumbers, ReassemblerAssumption
  <2> QED BY <2>1, <2>2 DEF SR!SoundStream
<1>7. \A p \in Cover(P, n) : p \in Nat /\ Start <= p /\ p <= MaxIndex
  <2>1. \A p \in Cover(List, Len(List)) : p \in Nat /\ Start <= p /\ p <= MaxIndex
    BY <1>4, <1>q DEF SR!Placed
  <2>2. \A p \in Fits : p \in Nat /\ Start <= p /\ p <= MaxIndex
    BY <1>3 DEF MaxOf
  <2> QED BY <1>2, <2>1, <2>2
<1>8. WriteReady(m0, P)
  <2>1. IsStream(l.output)
    BY <1>6, ReassemblerAssumption DEF IsStream
  <2>2. v.size \in Int
    BY <1>2 DEF Sized
  <2>3. ASSUME NEW k \in 1 .. n
        PROVE  Start <= P[k].first /\ P[k].last - Start < Capacity - Len(l.output.buffer)
    <3>1. /\ P[k].first \in Nat /\ P[k].last \in Nat /\ P[k].first <= P[k].last
      BY <1>2, InOrderItems DEF IsItem
    <3>2. P[k].first \in Cover(P, n) /\ P[k].last \in Cover(P, n)
      BY <3>1 DEF Cover
    <3>3. Start <= P[k].first /\ P[k].last <= MaxIndex
      BY <1>7, <3>2
    <3> DEFINE held == Len(l.output.buffer)
               last == P[k].last
    <3>4. held \in Nat /\ last \in Nat /\ last <= MaxIndex
          /\ MaxIndex = Start - held + Capacity - 1 /\ Capacity \in Int
      BY <1>6, <3>1, <3>3, ReassemblerAssumption
    <3> HIDE DEF held, last
    <3>5. last - Start < Capacity - held
      BY <1>3, <3>4
    <3> QED BY <3>3, <3>5 DEF held, last
  <2> QED BY <1>2, <1>3, <1>5, <1>6, <2>1, <2>2, <2>3 DEF WriteReady
<1>9. PICK s, rest :
          /\ s \in Nat
          /\ x = Written(m0, s, rest)
          /\ Start <= s /\ s - Start <= Capacity - Len(l.output.buffer)
          /\ InOrder(rest)
          /\ Cover(rest, Len(rest)) = {p \in Cover(P, n) : p > s}
          /\ Sized(Cover(rest, Len(rest)), v.size - (s - Start))
          /\ s \notin Cover(P, n)
          /\ \A p \in Nat : Start <= p /\ p < s => p \in Cover(P, n)
  <2>1. m0.output = l.output /\ m0.unassembled_start_index = Start /\ m0.staging_size = v.size
    BY <1>5
  <2>2. Sized(Cover(P, n), m0.staging_size)
    BY <1>2, <2>1
  <2> HIDE DEF x
  <2>3. \E s \in Nat : \E rest :
              /\ x = Written(m0, s, rest)
              /\ m0.unassembled_start_index <= s
              /\ s - m0.unassembled_start_index <= m0.output.capacity - Len(m0.output.buffer)
              /\ InOrder(rest)
              /\ Cover(rest, Len(rest)) = {p \in Cover(P, n) : p > s}
              /\ Sized(Cover(rest, Len(rest)),
                       m0.staging_size - (s - m0.unassembled_start_index))
              /\ s \notin Cover(P, n)
              /\ \A p \in Nat : m0.unassembled_start_index <= p /\ p < s
                                   => p \in Cover(P, n)
    BY <1>8, <2>2, WriteItemsIs DEF x
  <2> QED BY <1>6, <2>1, <2>3
<1> HIDE DEF x
<1>10. x = [output |-> Grown(l.output, Start, s - Start), capacity |-> l.capacity,
            staging_list |-> rest, staging_size |-> v.size - (s - Start),
            unassembled_start_index |-> s,
            have_eof |-> m.have_eof, eof_index |-> m.eof_index]
  BY <1>5, <1>9 DEF Written
<1>11. GoodRecord(x)
  <2>1. x.staging_list = rest /\ x.staging_size = v.size - (s - Start)
    BY <1>10
  <2>2. x = [output |-> x.output, capacity |-> x.capacity,
             staging_list |-> x.staging_list, staging_size |-> x.staging_size,
             unassembled_start_index |-> x.unassembled_start_index,
             have_eof |-> x.have_eof, eof_index |-> x.eof_index]
    BY <1>10
  <2> QED BY <1>9, <2>1, <2>2 DEF GoodRecord
<1>12. /\ SR!Placed(z, Capacity, StreamLength)
       /\ DOMAIN z.staged = Cover(P, n)
  <2>1. /\ SR!Placed(z, Capacity, StreamLength)
        /\ DOMAIN z.staged = DOMAIN q.staged \cup
              {p \in index .. index + len - 1 :
                 q.unassembled_start_index <= p /\ p <= SR!unassembled_max_index(q)}
    BY <1>4, <1>q, SR!StagePlaced, ReassemblerAssumption
  <2>2. {p \in index .. index + len - 1 : Start <= p /\ p <= MaxIndex} = Fits
    BY <1>3 DEF MaxOf
  <2> QED BY <1>2, <1>4, <1>q, <2>1, <2>2
<1>13. /\ z.output = l.output /\ z.unassembled_start_index = Start
       /\ z.capacity = l.capacity /\ z.have_eof = m.have_eof /\ z.eof_index = m.eof_index
  <2>1. \E f : z = [q EXCEPT !.staged = f]
    BY DEF SR!Stage
  <2>2. SR!IsReassembler(q)
    BY <1>q DEF SR!Placed
  <2> HIDE DEF z
  <2> QED BY <1>4, <2>1, <2>2 DEF SR!IsReassembler
<1> HIDE DEF z
<1>14. SR!FirstGap(z) = s
  <2> DEFINE gap == SR!FirstGap(z)
  <2>1. /\ gap \in Nat /\ Start <= gap /\ gap \notin Cover(P, n)
        /\ \A p \in Nat : Start <= p /\ p < gap => p \in Cover(P, n)
    BY <1>12, <1>13, SR!FirstGapIs, ReassemblerAssumption
  <2> HIDE DEF gap
  <2>2. ~(gap < s) /\ ~(s < gap)
    BY <1>9, <2>1
  <2> QED BY <1>9, <2>1, <2>2 DEF gap
<1>15. [i \in 1 .. s - Start |-> z.staged[Start + i - 1]] = Substring(Start, s - Start)
  <2>1. ASSUME NEW i \in 1 .. s - Start PROVE z.staged[Start + i - 1] = Start + i - 1
    <3>1. Start + i - 1 \in Nat /\ Start <= Start + i - 1 /\ Start + i - 1 < s
      BY <1>3, <1>9
    <3>2. Start + i - 1 \in DOMAIN z.staged
      BY <1>9, <1>12, <3>1
    <3> QED BY <1>12, <3>2 DEF SR!Placed
  <2> QED BY <2>1 DEF Substring
<1>16. SR!stream_write(l.output, Substring(Start, s - Start)) = Grown(l.output, Start, s - Start)
  <2>1. IsStream(l.output) /\ s - Start \in Nat
    BY <1>3, <1>6, <1>9, ReassemblerAssumption DEF IsStream
  <2>2. stream_write(l.output, Substring(Start, s - Start)) = Grown(l.output, Start, s - Start)
    BY <1>3, <1>6, <1>9, <2>1, WriteFits
  <2> QED BY <2>2, SameStream
<1>17. [p \in {y \in DOMAIN z.staged : y > s} |-> z.staged[p]]
         = [p \in Cover(rest, Len(rest)) |-> p]
  <2>1. \A p \in DOMAIN z.staged : z.staged[p] = p
    BY <1>12 DEF SR!Placed
  <2> QED BY <1>9, <1>12, <2>1
<1>18. a = [output |-> Grown(l.output, Start, s - Start), capacity |-> l.capacity,
            staged |-> [p \in Cover(rest, Len(rest)) |-> p],
            unassembled_start_index |-> s,
            have_eof |-> m.have_eof, eof_index |-> m.eof_index]
  <2>1. a = [z EXCEPT
               !.output = SR!stream_write(@, [i \in 1 .. s - Start |-> z.staged[Start + i - 1]]),
               !.unassembled_start_index = s,
               !.staged = [p \in {y \in DOMAIN @ : y > s} |-> @[p]]]
    BY <1>13, <1>14 DEF SR!Assemble
  <2>2. SR!IsReassembler(z)
    BY <1>12 DEF SR!Placed
  <2> HIDE DEF a
  <2> QED BY <1>13, <1>15, <1>16, <1>17, <2>1, <2>2 DEF SR!IsReassembler
<1>19. AbsOf(x) = a
  BY <1>10, <1>18 DEF AbsOf
<1> QED BY <1>11, <1>19 DEF x, a, z, q, m0, P, v, m

\* push_substring() on the list is push_substring() on the reassembler.
LEMMA PushAbs ==
    ASSUME ListInv, NEW index \in Nat, NEW len \in Nat, NEW eofFlag \in BOOLEAN,
           index + len <= StreamLength, eofFlag => index + len = StreamLength
    PROVE  LET x == push_substring(Substring(index, len), index, eofFlag)
           IN  /\ GoodRecord(x)
               /\ AbsOf(x) = SR!push_substring(AbsOf(l), SR!Bytes(index, len), index, eofFlag)
<1> DEFINE data == Substring(index, len)
           bytes == SR!Bytes(index, len)
           m == NoteEof(data, index, eofFlag)
           v == Place(data, index)
           m0 == [m EXCEPT !.staging_list = << >>, !.staging_size = v.size]
           w == WriteItems(m0, v.items)[Len(v.items)]
           x == push_substring(data, index, eofFlag)
           q == AbsOf(l)
           noted == SR!NoteEof(q, bytes, index, eofFlag)
           y == SR!push_substring(q, bytes, index, eofFlag)
<1>1. Len(data) = len /\ Len(bytes) = len /\ (bytes = << >> <=> len = 0)
  BY SubstringIs DEF SR!Bytes, Substring
<1>2. /\ m = Noted(m.have_eof, m.eof_index)
      /\ GoodRecord(m)
      /\ AbsOf(m) = noted
      /\ SR!Placed(AbsOf(m), Capacity, StreamLength)
      /\ SR!unassembled_max_index(AbsOf(m)) = SR!unassembled_max_index(q)
  BY NotedAbs
<1>3. q.unassembled_start_index = Start /\ Start \in Nat
  BY ListIsReady DEF AbsOf, Start, ListReady
<1>4. CASE len = 0 \/ index + len < Start
  <2>1. x = eof_process(m)
    BY <1>1, <1>4 DEF push_substring, Start
  <2>2. y = SR!eof_process(noted)
    <3> HIDE DEF q, noted, bytes
    <3> QED BY <1>1, <1>3, <1>4 DEF SR!push_substring, noted
  <2> HIDE DEF x, y, m, noted
  <2> QED BY <1>2, <2>1, <2>2, EofAbs DEF x, y
<1>5. CASE ~(len = 0 \/ index + len < Start)
  <2>1. x = eof_process(w)
    BY <1>1, <1>5 DEF push_substring, Start
  <2>2. y = SR!eof_process(SR!Assemble(SR!Stage(noted, bytes, index)))
    <3> HIDE DEF q, noted, bytes
    <3> QED BY <1>1, <1>3, <1>5 DEF SR!push_substring, noted
  <2>3. len > 0 /\ index + len >= Start
    BY <1>3, <1>5
  <2>4. SR!unassembled_max_index(AbsOf(m)) = MaxIndex
    BY <1>2, ListIsReady
  <2> HIDE DEF m
  <2>5. GoodRecord(w) /\ AbsOf(w) = SR!Assemble(SR!Stage(AbsOf(m), bytes, index))
    <3> DEFINE have == m.have_eof
               at == m.eof_index
    <3>1. m = Noted(have, at)
      BY <1>2
    <3> HIDE DEF have, at
    <3>2. /\ SR!Placed(AbsOf(Noted(have, at)), Capacity, StreamLength)
          /\ SR!unassembled_max_index(AbsOf(Noted(have, at))) = MaxIndex
      BY <1>2, <2>4, <3>1
    <3> QED BY <2>3, <3>1, <3>2, WriteAbs
  <2> HIDE DEF x, y, w, noted
  <2> QED BY <1>2, <2>1, <2>2, <2>5, EofAbs DEF x, y
<1> QED BY <1>4, <1>5

\* Reading touches the output only.
LEMMA ReadAbs ==
    ASSUME ListInv, NEW n
    PROVE  LET x == [l EXCEPT !.output = stream_read(@, n)]
               q == AbsOf(l)
           IN  GoodRecord(x) /\ AbsOf(x) = [q EXCEPT !.output = SR!stream_read(@, n)]
<1> DEFINE x == [l EXCEPT !.output = stream_read(@, n)]
           q == AbsOf(l)
           o == stream_read(l.output, n)
<1>1. x = [output |-> o, capacity |-> l.capacity,
           staging_list |-> l.staging_list, staging_size |-> l.staging_size,
           unassembled_start_index |-> l.unassembled_start_index,
           have_eof |-> l.have_eof, eof_index |-> l.eof_index]
  <2>1. l = [output |-> l.output, capacity |-> l.capacity,
             staging_list |-> l.staging_list, staging_size |-> l.staging_size,
             unassembled_start_index |-> l.unassembled_start_index,
             have_eof |-> l.have_eof, eof_index |-> l.eof_index]
    BY DEF ListInv, GoodRecord
  <2> QED BY <2>1
<1> HIDE DEF x
<1>2. GoodRecord(x)
  <2>1. x.staging_list = l.staging_list /\ x.staging_size = l.staging_size
    BY <1>1
  <2> QED BY <1>1, <2>1 DEF ListInv, GoodRecord
<1>3. SR!stream_read(l.output, n) = o
  BY SameStream
<1> HIDE DEF o
<1>4. [q EXCEPT !.output = SR!stream_read(@, n)]
        = [output |-> o, capacity |-> l.capacity,
           staged |-> [p \in Cover(l.staging_list, Len(l.staging_list)) |-> p],
           unassembled_start_index |-> l.unassembled_start_index,
           have_eof |-> l.have_eof, eof_index |-> l.eof_index]
  <2> DEFINE f == [p \in Cover(l.staging_list, Len(l.staging_list)) |-> p]
  <2>1. q = [output |-> l.output, capacity |-> l.capacity, staged |-> f,
             unassembled_start_index |-> l.unassembled_start_index,
             have_eof |-> l.have_eof, eof_index |-> l.eof_index]
    BY DEF AbsOf
  <2> HIDE DEF q, f
  <2>2. q.output = l.output
    BY <2>1
  <2>3. [q EXCEPT !.output = o]
          = [output |-> o, capacity |-> l.capacity, staged |-> f,
             unassembled_start_index |-> l.unassembled_start_index,
             have_eof |-> l.have_eof, eof_index |-> l.eof_index]
    BY <2>1
  <2> QED BY <1>3, <2>2, <2>3 DEF f
<1>5. AbsOf(x) = [q EXCEPT !.output = SR!stream_read(@, n)]
  BY <1>1, <1>4 DEF AbsOf
<1> QED BY <1>2, <1>5 DEF x

\* The initial state.
LEMMA InitAbs ==
    ASSUME Init
    PROVE  GoodRecord(l) /\ AbsOf(l) = SR!NewStreamReassembler(Capacity)
<1>1. l = [output |-> NewByteStream(Capacity), capacity |-> Capacity,
           staging_list |-> << >>, staging_size |-> 0,
           unassembled_start_index |-> 0, have_eof |-> FALSE, eof_index |-> 0]
  BY DEF Init
<1>2. GoodRecord(l)
  BY <1>1, EmptyList DEF GoodRecord
<1>3. AbsOf(l) = SR!NewStreamReassembler(Capacity)
  BY <1>1, EmptyList, SameStream DEF AbsOf, SR!NewStreamReassembler
<1> QED BY <1>2, <1>3

-----------------------------------------------------------------------------
(* Every behaviour *)

LEMMA ListStep ==
    ASSUME ListInv, Next
    PROVE  /\ GoodRecord(l') /\ SR!Sound(AbsOf(l'), Capacity, StreamLength)
           /\ \/ \E index \in 0 .. StreamLength, len \in 0 .. StreamLength,
                    eofFlag \in BOOLEAN :
                    /\ index + len <= StreamLength
                    /\ eofFlag => index + len = StreamLength
                    /\ AbsOf(l') = SR!push_substring(AbsOf(l), SR!Bytes(index, len),
                                                     index, eofFlag)
              \/ \E n \in 1 .. Capacity :
                    /\ n <= SR!buffer_size(AbsOf(l).output)
                    /\ AbsOf(l') = [AbsOf(l) EXCEPT !.output = SR!stream_read(@, n)]
<1> USE ReassemblerAssumption
<1>1. SR!Sound(AbsOf(l), Capacity, StreamLength)
  BY DEF ListInv
<1>2. ASSUME NEW index \in 0 .. StreamLength, NEW len \in 0 .. StreamLength,
             NEW eofFlag \in BOOLEAN, Push(index, len, eofFlag)
      PROVE  /\ GoodRecord(l') /\ SR!Sound(AbsOf(l'), Capacity, StreamLength)
             /\ index + len <= StreamLength
             /\ eofFlag => index + len = StreamLength
             /\ AbsOf(l') = SR!push_substring(AbsOf(l), SR!Bytes(index, len), index, eofFlag)
  <2>1. /\ index \in Nat /\ len \in Nat /\ index + len <= StreamLength
        /\ eofFlag => index + len = StreamLength
        /\ l' = push_substring(Substring(index, len), index, eofFlag)
    BY <1>2 DEF Push
  <2>2. /\ GoodRecord(l')
        /\ AbsOf(l') = SR!push_substring(AbsOf(l), SR!Bytes(index, len), index, eofFlag)
    BY <2>1, PushAbs
  <2>3. SR!Sound(AbsOf(l'), Capacity, StreamLength)
    BY <1>1, <2>1, <2>2, SR!PushSound
  <2> QED BY <2>1, <2>2, <2>3
<1>3. ASSUME NEW n \in 1 .. Capacity, Read(n)
      PROVE  /\ GoodRecord(l') /\ SR!Sound(AbsOf(l'), Capacity, StreamLength)
             /\ n <= SR!buffer_size(AbsOf(l).output)
             /\ AbsOf(l') = [AbsOf(l) EXCEPT !.output = SR!stream_read(@, n)]
  <2>1. n \in Nat /\ n <= buffer_size(l.output)
        /\ l' = [l EXCEPT !.output = stream_read(@, n)]
    BY <1>3 DEF Read
  <2>2. /\ GoodRecord(l')
        /\ AbsOf(l') = [AbsOf(l) EXCEPT !.output = SR!stream_read(@, n)]
    BY <2>1, ReadAbs
  <2>3. n <= SR!buffer_size(AbsOf(l).output)
    <3>1. AbsOf(l).output = l.output
      BY DEF AbsOf
    <3> QED BY <2>1, <3>1, SameStream
  <2>4. SR!Sound(AbsOf(l'), Capacity, StreamLength)
    BY <1>1, <2>1, <2>2, <2>3, SR!ReadSound
  <2> QED BY <2>2, <2>3, <2>4
<1> QED BY <1>2, <1>3 DEF Next

\* The list invariant holds along every behaviour: the list is in order, its
\* size is right, and the reassembler it stands for is sound.
THEOREM ListIsSound == Spec => []ListInv
<1>1. Init => ListInv
  BY InitAbs, SR!NewIsSound, ReassemblerAssumption DEF ListInv
<1>2. ListInv /\ [Next]_l => ListInv'
  <2> SUFFICES ASSUME ListInv, [Next]_l PROVE ListInv'
    OBVIOUS
  <2>1. CASE Next
    BY <2>1, ListStep DEF ListInv
  <2>2. CASE UNCHANGED l
    BY <2>2 DEF ListInv
  <2> QED BY <2>1, <2>2
<1> QED BY <1>1, <1>2, PTL DEF Spec

-----------------------------------------------------------------------------
(* The properties *)

\* The refinement mapping of module StagingList, of any list.
CoveredBy(list) == UNION {list[k].first .. list[k].last : k \in DOMAIN list}
ByteOf(list, p) ==
    LET k == CHOOSE i \in DOMAIN list : p \in list[i].first .. list[i].last
    IN  list[k].data[p - list[k].first + 1]

\* A list in order stands for the identity on what it covers.
LEMMA ListStandsFor ==
    ASSUME NEW list, InOrder(list)
    PROVE  /\ CoveredBy(list) = Cover(list, Len(list))
           /\ [p \in CoveredBy(list) |-> ByteOf(list, p)]
                = [p \in Cover(list, Len(list)) |-> p]
<1>1. /\ DOMAIN list = 1 .. Len(list)
      /\ \A k \in 1 .. Len(list) : /\ list[k].first \in Nat /\ list[k].last \in Nat
                                   /\ list[k].first <= list[k].last
                                   /\ list[k].data
                                        = Substring(list[k].first, list[k].last - list[k].first + 1)
  <2>1. DOMAIN list = 1 .. Len(list)
    BY LenProperties DEF InOrder
  <2> QED BY <2>1, InOrderItems DEF IsItem
<1>2. ASSUME NEW k \in 1 .. Len(list), NEW p
      PROVE  p \in list[k].first .. list[k].last
                <=> p \in Nat /\ list[k].first <= p /\ p <= list[k].last
  BY <1>1
<1>3. CoveredBy(list) = Cover(list, Len(list))
  BY <1>1, <1>2 DEF CoveredBy, Cover
<1>4. ASSUME NEW p \in Cover(list, Len(list)) PROVE ByteOf(list, p) = p
  <2> DEFINE k == CHOOSE i \in DOMAIN list : p \in list[i].first .. list[i].last
  <2>1. k \in 1 .. Len(list) /\ p \in list[k].first .. list[k].last
    <3>1. \E i \in DOMAIN list : p \in list[i].first .. list[i].last
      BY <1>1, <1>2, <1>4 DEF Cover
    <3> QED BY <1>1, <3>1
  <2>2. ByteOf(list, p) = list[k].data[p - list[k].first + 1]
    BY DEF ByteOf
  <2> HIDE DEF k
  <2> DEFINE first == list[k].first
             n == list[k].last - first + 1
  <2>3. /\ first \in Nat /\ n \in Nat /\ p - first + 1 \in 1 .. n
        /\ first + (p - first + 1) - 1 = p
    BY <1>1, <2>1
  <2>4. list[k].data = Substring(first, n)
    BY <1>1, <2>1
  <2> HIDE DEF first, n
  <2>5. Substring(first, n)[p - first + 1] = p
    BY <2>3, SubstringIs
  <2> QED BY <2>2, <2>4, <2>5 DEF first
<1> QED BY <1>3, <1>4

\* The mapped state is AbsOf, now and after a step.
Mapped ==
    [output |-> l.output, capacity |-> l.capacity,
     staged |-> [p \in Covered |-> StagedByte(p)],
     unassembled_start_index |-> l.unassembled_start_index,
     have_eof |-> l.have_eof, eof_index |-> l.eof_index]

LEMMA MappedIs ==
    /\ GoodRecord(l) => Covered = Cover(List, Len(List)) /\ Mapped = AbsOf(l)
    /\ GoodRecord(l') => Mapped' = AbsOf(l')
<1>1. ASSUME NEW m, GoodRecord(m)
      PROVE  /\ CoveredBy(m.staging_list) = Cover(m.staging_list, Len(m.staging_list))
             /\ AbsOf(m) = [output |-> m.output, capacity |-> m.capacity,
                            staged |-> [p \in CoveredBy(m.staging_list) |->
                                          ByteOf(m.staging_list, p)],
                            unassembled_start_index |-> m.unassembled_start_index,
                            have_eof |-> m.have_eof, eof_index |-> m.eof_index]
  BY <1>1, ListStandsFor DEF GoodRecord, AbsOf
<1>2. /\ Covered = CoveredBy(l.staging_list) /\ Covered' = CoveredBy(l'.staging_list)
      /\ \A p : StagedByte(p) = ByteOf(l.staging_list, p)
      /\ \A p : StagedByte(p)' = ByteOf(l'.staging_list, p)
  BY DEF Covered, StagedByte, CoveredBy, ByteOf
<1>3. ASSUME GoodRecord(l) PROVE Covered = Cover(List, Len(List)) /\ Mapped = AbsOf(l)
  BY <1>1, <1>2, <1>3 DEF Mapped, List
<1>4. ASSUME GoodRecord(l') PROVE Mapped' = AbsOf(l')
  BY <1>1, <1>2, <1>4 DEF Mapped
<1> QED BY <1>3, <1>4

\* _staging_list stays in order, its items do not overlap, and _staging_size
\* counts every staged byte once.
THEOREM ListStaysInOrder == Spec => []ListInOrder
<1>1. ListInv => ListInOrder
  <2> SUFFICES ASSUME ListInv PROVE ListInOrder
    OBVIOUS
  <2>1. InOrder(List) /\ Sized(Cover(List, Len(List)), l.staging_size)
    BY DEF ListInv, GoodRecord, List
  <2>2. l.staging_size = Cardinality(Covered)
    BY <2>1, MappedIs DEF ListInv, Sized
  <2>3. ASSUME NEW k \in 1 .. Len(List)
        PROVE  /\ List[k].first <= List[k].last
               /\ Len(List[k].data) = List[k].last - List[k].first + 1
               /\ k < Len(List) => List[k].last < List[k + 1].first
    <3>1. /\ List[k].first \in Nat /\ List[k].last \in Nat /\ Len(List) \in Nat
          /\ List[k].first <= List[k].last
          /\ List[k].data = Substring(List[k].first, List[k].last - List[k].first + 1)
      BY <2>1, InOrderItems DEF IsItem
    <3>2. Len(List[k].data) = List[k].last - List[k].first + 1
      <4> DEFINE n == List[k].last - List[k].first + 1
                 first == List[k].first
      <4>1. n \in Nat /\ first \in Nat /\ List[k].data = Substring(first, n)
        BY <3>1
      <4> HIDE DEF n, first
      <4>2. Len(List[k].data) = n
        BY <4>1, SubstringIs
      <4> QED BY <4>2 DEF n
    <3>3. k < Len(List) => k + 1 \in 1 .. Len(List) /\ k < k + 1
      BY <3>1
    <3> QED BY <2>1, <3>1, <3>2, <3>3 DEF InOrder
  <2> QED BY <2>2, <2>3 DEF ListInOrder, List
<1> QED BY <1>1, ListIsSound, PTL

\* What a sound reassembler is worth.
LEMMA SoundMeans ==
    ASSUME NEW q, SR!Sound(q, Capacity, StreamLength)
    PROVE  /\ \A i \in 1 .. Len(q.output.buffer) :
                 q.output.buffer[i] = q.output.written - Len(q.output.buffer) + i - 1
           /\ \A p \in DOMAIN q.staged : q.staged[p] = p
           /\ q.unassembled_start_index = q.output.written
           /\ \A p \in DOMAIN q.staged :
                 q.unassembled_start_index < p /\ p <= SR!unassembled_max_index(q)
           /\ Len(q.output.buffer) + Cardinality(DOMAIN q.staged) <= Capacity
           /\ q.output.ended => q.output.written = StreamLength
                                  /\ Cardinality(DOMAIN q.staged) = 0
<1> USE ReassemblerAssumption
<1>1. SR!Placed(q, Capacity, StreamLength) /\ q.unassembled_start_index \notin DOMAIN q.staged
      /\ (q.output.ended => q.unassembled_start_index = StreamLength)
  BY DEF SR!Sound
<1>2. q.unassembled_start_index \in Nat
  BY <1>1, SR!PlacedNumbers
<1>3. \A S : SR!Cardinality(S) = Cardinality(S)
  BY DEF SR!Cardinality, Cardinality
<1>4. Len(q.output.buffer) + Cardinality(DOMAIN q.staged) <= Capacity
  BY <1>3, SR!StagedIsSmall DEF SR!buffer_size, SR!unassembled_bytes,
     SR!StagedPositions
<1>5. q.unassembled_start_index = StreamLength => Cardinality(DOMAIN q.staged) = 0
  BY <1>3, SR!StagedIsSmall DEF SR!reassembler_empty, SR!unassembled_bytes, SR!StagedPositions
<1>6. /\ q.unassembled_start_index = q.output.written
      /\ DOMAIN q.staged \subseteq Nat
      /\ \A p \in DOMAIN q.staged : q.staged[p] = p /\ q.unassembled_start_index <= p
                                      /\ p <= SR!unassembled_max_index(q)
  BY <1>1 DEF SR!Placed
<1>7. \A i \in 1 .. Len(q.output.buffer) :
          q.output.buffer[i] = q.output.written - Len(q.output.buffer) + i - 1
  BY <1>1 DEF SR!Placed, SR!SoundStream
<1>8. ASSUME NEW p \in DOMAIN q.staged
      PROVE  q.unassembled_start_index < p
  BY <1>1, <1>2, <1>6, <1>8
<1> QED BY <1>1, <1>4, <1>5, <1>6, <1>7, <1>8

\* Whatever the order, overlap and repetition of the substrings pushed, the
\* output that the list algorithm leaves holds the bytes of the stream in order.
THEOREM OutputIsAlwaysStream == Spec => []OutputIsStream
<1>1. ListInv => OutputIsStream
  <2> SUFFICES ASSUME ListInv PROVE OutputIsStream
    OBVIOUS
  <2> DEFINE q == Mapped
  <2>1. SR!Sound(q, Capacity, StreamLength)
    BY MappedIs DEF ListInv
  <2> HIDE DEF q
  <2>2. /\ \A i \in 1 .. Len(q.output.buffer) :
              q.output.buffer[i] = q.output.written - Len(q.output.buffer) + i - 1
        /\ \A p \in DOMAIN q.staged : q.staged[p] = p
    BY <2>1, SoundMeans
  <2> QED BY <2>2 DEF q, Mapped, OutputIsStream, Reassembler!OutputIsStream,
                      Reassembler!buffer_size, Reassembler!bytes_read,
                      Reassembler!StagedPositions
<1> QED BY <1>1, ListIsSound, PTL

\* No byte that the output had no room for counts as assembled, and the next
\* missing byte is never on the list.
THEOREM AssembledIsAlwaysWritten == Spec => []AssembledIsWritten
<1>1. ListInv => AssembledIsWritten
  <2> SUFFICES ASSUME ListInv PROVE AssembledIsWritten
    OBVIOUS
  <2> DEFINE q == Mapped
  <2>1. SR!Sound(q, Capacity, StreamLength)
    BY MappedIs DEF ListInv
  <2> HIDE DEF q
  <2>2. /\ q.unassembled_start_index = q.output.written
        /\ \A p \in DOMAIN q.staged :
              q.unassembled_start_index < p /\ p <= SR!unassembled_max_index(q)
    BY <2>1, SoundMeans
  <2>3. Reassembler!unassembled_max_index(q) = SR!unassembled_max_index(q)
    BY DEF Reassembler!unassembled_max_index, SR!unassembled_max_index,
           Reassembler!buffer_size, SR!buffer_size
  <2>4. /\ q.unassembled_start_index = Reassembler!bytes_written(q.output)
        /\ \A p \in Reassembler!StagedPositions(q) :
              /\ q.unassembled_start_index < p
              /\ p <= Reassembler!unassembled_max_index(q)
    BY <2>2, <2>3 DEF Reassembler!bytes_written, Reassembler!StagedPositions
  <2> QED BY <2>4, Zenon DEF q, Mapped, AssembledIsWritten, Reassembler!AssembledIsWritten
<1> QED BY <1>1, ListIsSound, PTL

\* The output and the list together never hold more than Capacity.
THEOREM CapacityIsAlwaysRespected == Spec => []CapacityIsRespected
<1>1. ListInv => CapacityIsRespected
  <2> SUFFICES ASSUME ListInv PROVE CapacityIsRespected
    OBVIOUS
  <2> DEFINE q == Mapped
  <2>1. SR!Sound(q, Capacity, StreamLength)
    BY MappedIs DEF ListInv
  <2> HIDE DEF q
  <2>2. Len(q.output.buffer) + Cardinality(DOMAIN q.staged) <= Capacity
    BY <2>1, SoundMeans
  <2>3. Reassembler!buffer_size(q.output) + Reassembler!unassembled_bytes(q) <= Capacity
    BY <2>2 DEF Reassembler!buffer_size, Reassembler!unassembled_bytes,
                Reassembler!StagedPositions, Reassembler!Cardinality, Cardinality
  <2> QED BY <2>3, Zenon DEF q, Mapped, CapacityIsRespected, Reassembler!CapacityIsRespected
<1> QED BY <1>1, ListIsSound, PTL

\* Sound has it that an ended output is complete; the end is also known then,
\* and a complete output whose end is known has ended.
Ends(q) ==
    /\ q.output.ended => q.have_eof
    /\ q.have_eof /\ q.unassembled_start_index = StreamLength => q.output.ended

\* The output of the list ends exactly when the end has been announced and the
\* output has the whole stream, and then the list is empty.
THEOREM EndsExactlyAtEof == Spec => []EndsAtEof
<1> USE ReassemblerAssumption
<1>1. Init => Ends(AbsOf(l))
  BY InitAbs DEF Ends, SR!NewStreamReassembler, SR!NewByteStream
<1>2. ASSUME ListInv, Ends(AbsOf(l)), [Next]_l PROVE Ends(AbsOf(l'))
  <2> DEFINE q == AbsOf(l)
             z == AbsOf(l')
  <2>1. SR!Sound(q, Capacity, StreamLength)
    BY <1>2 DEF ListInv
  <2>2. CASE UNCHANGED l
    BY <1>2, <2>2
  <2>3. Ends(q)
    BY <1>2
  <2>4. CASE Next
    <3>1. \/ \E index \in 0 .. StreamLength, len \in 0 .. StreamLength,
               eofFlag \in BOOLEAN :
               /\ index + len <= StreamLength
               /\ eofFlag => index + len = StreamLength
               /\ z = SR!push_substring(q, SR!Bytes(index, len), index, eofFlag)
          \/ \E n \in 1 .. Capacity :
               /\ n <= SR!buffer_size(q.output)
               /\ z = [q EXCEPT !.output = SR!stream_read(@, n)]
      BY <1>2, <2>4, ListStep
    <3> HIDE DEF q, z
    <3>2. ASSUME NEW index \in 0 .. StreamLength, NEW len \in 0 .. StreamLength,
                 NEW eofFlag \in BOOLEAN,
                 index + len <= StreamLength, eofFlag => index + len = StreamLength,
                 z = SR!push_substring(q, SR!Bytes(index, len), index, eofFlag)
          PROVE  Ends(z)
      <4>1. /\ z.have_eof = (q.have_eof \/ eofFlag)
            /\ z.have_eof /\ z.unassembled_start_index = StreamLength => z.output.ended
            /\ z.output.ended => q.output.ended \/ z.have_eof
        BY <2>1, <3>2, SR!PushSound
      <4> QED BY <2>3, <4>1, Zenon DEF Ends
    <3>3. ASSUME NEW n \in 1 .. Capacity, n <= SR!buffer_size(q.output),
                 z = [q EXCEPT !.output = SR!stream_read(@, n)]
          PROVE  Ends(z)
      <4>1. /\ z.have_eof = q.have_eof
            /\ z.unassembled_start_index = q.unassembled_start_index
            /\ z.output.ended = q.output.ended
        BY <2>1, <3>3, SR!ReadSound
      <4> QED BY <2>3, <4>1, Zenon DEF Ends
    <3>4. Ends(z)
      BY <3>1, <3>2, <3>3
    <3> QED BY <3>4 DEF z
  <2> QED BY <1>2, <2>2, <2>4
<1>3. ASSUME ListInv, Ends(AbsOf(l)) PROVE EndsAtEof
  <2> DEFINE q == Mapped
  <2>1. SR!Sound(q, Capacity, StreamLength) /\ Ends(q)
    BY <1>3, MappedIs DEF ListInv
  <2> HIDE DEF q
  <2>2. /\ q.output.ended => q.output.written = StreamLength
                               /\ Cardinality(DOMAIN q.staged) = 0
        /\ q.unassembled_start_index = q.output.written
    BY <2>1, SoundMeans
  <2>3. q.output.ended => Reassembler!reassembler_empty(q)
    BY <2>2 DEF Reassembler!reassembler_empty, Reassembler!unassembled_bytes,
                Reassembler!StagedPositions, Reassembler!Cardinality, Cardinality
  <2>4. q.output.ended <=> q.have_eof /\ Reassembler!bytes_written(q.output) = StreamLength
    BY <2>1, <2>2, Zenon DEF Ends, Reassembler!bytes_written
  <2> QED BY <2>3, <2>4, Zenon DEF q, Mapped, EndsAtEof, Reassembler!EndsAtEof
<1> DEFINE Inv == Ends(AbsOf(l))
<1>4. Init => Inv
  BY <1>1
<1>5. ListInv /\ Inv /\ [Next]_l => Inv'
  BY <1>2
<1>6. ListInv /\ Inv => EndsAtEof
  BY <1>3
<1> HIDE DEF Inv
<1> QED BY <1>4, <1>5, <1>6, ListIsSound, PTL DEF Spec

\* The two instances of the reassembler are one data type.
LEMMA SameReassembler ==
    /\ \A q, data, index, eofFlag :
          Reassembler!push_substring(q, data, index, eofFlag)
            = SR!push_substring(q, data, index, eofFlag)
    /\ \A bs, n : Reassembler!stream_read(bs, n) = SR!stream_read(bs, n)
    /\ \A bs : Reassembler!buffer_size(bs) = SR!buffer_size(bs)
    /\ \A index, len : Reassembler!Substring(index, len) = SR!Bytes(index, len)
    /\ Reassembler!NewStreamReassembler(Capacity) = SR!NewStreamReassembler(Capacity)
<1>1. ASSUME NEW q, NEW data, NEW index, NEW eofFlag
      PROVE  Reassembler!push_substring(q, data, index, eofFlag)
               = SR!push_substring(q, data, index, eofFlag)
  <2>1. \A a, b : Reassembler!MinOf(a, b) = SR!MinOf(a, b)
    BY DEF Reassembler!MinOf, SR!MinOf
  <2>2. \A bs, d : Reassembler!stream_write(bs, d) = SR!stream_write(bs, d)
    BY <2>1 DEF Reassembler!stream_write, SR!stream_write, Reassembler!remaining_capacity,
                SR!remaining_capacity, Reassembler!buffer_size, SR!buffer_size
  <2>3. \A z : Reassembler!unassembled_max_index(z) = SR!unassembled_max_index(z)
    BY DEF Reassembler!unassembled_max_index, SR!unassembled_max_index,
           Reassembler!buffer_size, SR!buffer_size
  <2>4. \A z, d, i : Reassembler!Stage(z, d, i) = SR!Stage(z, d, i)
    BY <2>1, <2>3 DEF Reassembler!Stage, SR!Stage
  <2>5. \A z : Reassembler!unassembled_bytes(z) = SR!unassembled_bytes(z)
    BY DEF Reassembler!unassembled_bytes, SR!unassembled_bytes, Reassembler!StagedPositions,
           SR!StagedPositions, Reassembler!Cardinality, SR!Cardinality
  <2>6. \A z : Reassembler!FirstGap(z) = SR!FirstGap(z)
    BY <2>5 DEF Reassembler!FirstGap, SR!FirstGap, Reassembler!StagedPositions,
                SR!StagedPositions
  <2>7. \A z : Reassembler!Assemble(z) = SR!Assemble(z)
    BY <2>2, <2>6 DEF Reassembler!Assemble, SR!Assemble
  <2>8. \A z : Reassembler!eof_process(z) = SR!eof_process(z)
    BY DEF Reassembler!eof_process, SR!eof_process, Reassembler!end_input, SR!end_input
  <2>9. Reassembler!NoteEof(q, data, index, eofFlag) = SR!NoteEof(q, data, index, eofFlag)
    BY DEF Reassembler!NoteEof, SR!NoteEof
  <2> QED BY <2>4, <2>7, <2>8, <2>9 DEF Reassembler!push_substring, SR!push_substring
<1>2. \A bs, n : Reassembler!stream_read(bs, n) = SR!stream_read(bs, n)
  BY DEF Reassembler!stream_read, SR!stream_read, Reassembler!pop_output, SR!pop_output,
         Reassembler!buffer_size, SR!buffer_size
<1>3. \A bs : Reassembler!buffer_size(bs) = SR!buffer_size(bs)
  BY DEF Reassembler!buffer_size, SR!buffer_size
<1>4. \A index, len : Reassembler!Substring(index, len) = SR!Bytes(index, len)
  BY DEF Reassembler!Substring, SR!Bytes
<1>5. Reassembler!NewStreamReassembler(Capacity) = SR!NewStreamReassembler(Capacity)
  BY DEF Reassembler!NewStreamReassembler, SR!NewStreamReassembler,
         Reassembler!NewByteStream, SR!NewByteStream
<1> QED BY <1>1, <1>2, <1>3, <1>4, <1>5

\* The list algorithm implements the reassembler over a function from positions
\* to bytes: the initial states agree, and every push or read of the list is
\* the same push or read there.
THEOREM ListImplementsReassembler == Spec => ImplementsReassembler
<1>1. Init => Reassembler!Init
  <2> SUFFICES ASSUME Init PROVE Reassembler!Init
    OBVIOUS
  <2>1. Mapped = SR!NewStreamReassembler(Capacity)
    BY InitAbs, MappedIs
  <2>2. Mapped = Reassembler!NewStreamReassembler(Capacity)
    BY <2>1, SameReassembler
  <2> QED BY <2>2, Zenon DEF Mapped, Reassembler!Init
<1>2. ASSUME ListInv, [Next]_l PROVE Reassembler!Next \/ UNCHANGED Mapped
  <2> DEFINE q == Mapped
             z == Mapped'
  <2>1. CASE Next
    <3>1. /\ q = AbsOf(l) /\ z = AbsOf(l')
      BY <1>2, <2>1, ListStep, MappedIs DEF ListInv
    <3> HIDE DEF q, z
    <3>2. ASSUME NEW index \in 0 .. StreamLength, NEW len \in 0 .. StreamLength,
                 NEW eofFlag \in BOOLEAN,
                 index + len <= StreamLength, eofFlag => index + len = StreamLength,
                 z = SR!push_substring(q, SR!Bytes(index, len), index, eofFlag)
          PROVE  Reassembler!Next
      <4>1. z = Reassembler!push_substring(q, Reassembler!Substring(index, len),
                                           index, eofFlag)
        BY <3>2, SameReassembler
      <4>2. Reassembler!Push(index, len, eofFlag)
        BY <3>2, <4>1, Zenon DEF Reassembler!Push, q, z, Mapped
      <4> QED BY <4>2 DEF Reassembler!Next
    <3>3. ASSUME NEW n \in 1 .. Capacity, n <= SR!buffer_size(q.output),
                 z = [q EXCEPT !.output = SR!stream_read(@, n)]
          PROVE  Reassembler!Next
      <4>1. /\ n <= Reassembler!buffer_size(q.output)
            /\ z = [q EXCEPT !.output = Reassembler!stream_read(@, n)]
        BY <3>3, SameReassembler
      <4>2. Reassembler!Read(n)
        BY <4>1, Zenon DEF Reassembler!Read, q, z, Mapped
      <4> QED BY <4>2 DEF Reassembler!Next
    <3> QED BY <1>2, <2>1, <3>1, <3>2, <3>3, ListStep
  <2>2. CASE UNCHANGED l
    BY <2>2 DEF Mapped, Covered, StagedByte
  <2> QED BY <1>2, <2>1, <2>2
<1>3. ListInv /\ [Next]_l => [Reassembler!Next]_Mapped
  BY <1>2
<1> QED BY <1>1, <1>3, ListIsSound, PTL
     DEF Spec, ImplementsReassembler, Reassembler!Spec, Mapped
=============================================================================
