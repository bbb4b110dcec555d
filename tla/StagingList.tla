---------------------------- MODULE StagingList -----------------------------
(***************************************************************************)
(* The stream reassembler as it is coded: _staging_list is an ordered list *)
(* of (first index, last index, string) items, and push_substring() walks  *)
(* it with an iterator, inserting what falls before each item.  The module *)
(* implements StreamReassemblerSpec, which sees the list as a function     *)
(* from positions to bytes.                                                *)
(***************************************************************************)
EXTENDS ByteStream, FiniteSets, PushedStream

VARIABLE l

MaxOf(a, b) == IF a >= b THEN a ELSE b

Init == l = [output |-> NewByteStream(Capacity), capacity |-> Capacity,
             staging_list |-> << >>, staging_size |-> 0,
             unassembled_start_index |-> 0, have_eof |-> FALSE, eof_index |-> 0]

\* A mutant: one position too many.
MaxIndex_OffByOne == (l.unassembled_start_index - buffer_size(l.output)) + l.capacity

\* A mutant: the bytes waiting in the output are not counted.
MaxIndex_Unread == l.unassembled_start_index + (l.capacity - 1)

MaxIndex == (l.unassembled_start_index - buffer_size(l.output)) + (l.capacity - 1)

\* A mutant: the string starts at the data's first byte.
Item_FromStart(data, index, first, last) ==
    [first |-> first, last |-> last, data |-> SubSeq(data, 1, last - first + 1)]

\* The item made of data.substr(first - index, last - first + 1).
Item(data, index, first, last) ==
    [first |-> first, last |-> last,
     data |-> SubSeq(data, first - index + 1, last - index + 1)]

\* A mutant: what is inserted may run into the next item.
PlaceBefore_Overlaps(data, index, w, item) ==
    LET last == MinOf(w.last, MaxIndex)
        fits == w.first <= last
    IN  IF w.left \/ (w.first >= item.first /\ w.last <= item.last)
        THEN [w EXCEPT !.left = TRUE, !.items = Append(@, item)]
        ELSE IF w.first < item.first
        THEN [w EXCEPT
                 !.items = IF fits THEN @ \o <<Item(data, index, w.first, last), item>>
                           ELSE Append(@, item),
                 !.size = IF fits THEN @ + (last - w.first + 1) ELSE @,
                 !.left = item.last + 1 > w.last,
                 !.first = item.last + 1]
        ELSE [w EXCEPT !.items = Append(@, item), !.first = MaxOf(item.last + 1, w.first)]

\* A mutant: the loop is left one byte too early.
PlaceBefore_StopsEarly(data, index, w, item) ==
    LET last == MinOf(w.last, MinOf(item.first - 1, MaxIndex))
        fits == w.first <= last
    IN  IF w.left \/ (w.first >= item.first /\ w.last <= item.last)
        THEN [w EXCEPT !.left = TRUE, !.items = Append(@, item)]
        ELSE IF w.first < item.first
        THEN [w EXCEPT
                 !.items = IF fits THEN @ \o <<Item(data, index, w.first, last), item>>
                           ELSE Append(@, item),
                 !.size = IF fits THEN @ + (last - w.first + 1) ELSE @,
                 !.left = item.last + 1 >= w.last,
                 !.first = item.last + 1]
        ELSE [w EXCEPT !.items = Append(@, item), !.first = MaxOf(item.last + 1, w.first)]

\* One turn of the insertion loop: w is the walk so far (the items passed,
\* the range temp still to be placed, whether the loop was left).
PlaceBefore(data, index, w, item) ==
    LET last == MinOf(w.last, MinOf(item.first - 1, MaxIndex))
        fits == w.first <= last
    IN  IF w.left \/ (w.first >= item.first /\ w.last <= item.last)
        THEN [w EXCEPT !.left = TRUE, !.items = Append(@, item)]
        ELSE IF w.first < item.first
        THEN [w EXCEPT
                 !.items = IF fits THEN @ \o <<Item(data, index, w.first, last), item>>
                           ELSE Append(@, item),
                 !.size = IF fits THEN @ + (last - w.first + 1) ELSE @,
                 !.left = item.last + 1 > w.last,
                 !.first = item.last + 1]
        ELSE [w EXCEPT !.items = Append(@, item), !.first = MaxOf(item.last + 1, w.first)]

\* After the loop: the rest of the data goes to the end of the list.
PlaceLast(data, index, w) ==
    LET last == MinOf(w.last, MaxIndex)
    IN  IF ~w.left /\ w.first <= last
        THEN [w EXCEPT !.items = Append(@, Item(data, index, w.first, last)),
                       !.size = @ + (last - w.first + 1)]
        ELSE w

\* The insertion loop: Walk(data, index)[k] is the walk past k items.
Temp(data, index) ==
    [items |-> << >>, size |-> l.staging_size, left |-> FALSE,
     first |-> MaxOf(l.unassembled_start_index, index), last |-> index + Len(data) - 1]

Walk(data, index) ==
    LET walk[k \in 0 .. Len(l.staging_list)] ==
            IF k = 0 THEN Temp(data, index)
            ELSE PlaceBefore(data, index, walk[k - 1], l.staging_list[k])
    IN  walk

Place(data, index) == PlaceLast(data, index, Walk(data, index)[Len(l.staging_list)])

\* One turn of the write loop, which stops at the first item that does not
\* continue the output.
WriteItem(m, item) ==
    IF m.staging_list = << >> /\ item.first = m.unassembled_start_index
    THEN [m EXCEPT !.output = stream_write(@, item.data),
                   !.unassembled_start_index = item.last + 1,
                   !.staging_size = @ - (item.last - item.first + 1)]
    ELSE [m EXCEPT !.staging_list = Append(@, item)]

\* The write loop: WriteItems(m, items)[k] is after k items.
WriteItems(m, items) ==
    LET wrote[k \in 0 .. Len(items)] ==
            IF k = 0 THEN m ELSE WriteItem(wrote[k - 1], items[k])
    IN  wrote

\* A mutant: the end of the stream is believed before its bytes are there.
eof_process_Early(m) ==
    IF m.have_eof
    THEN [m EXCEPT !.output = end_input(@), !.staging_list = << >>, !.staging_size = 0]
    ELSE m

eof_process(m) ==
    IF m.have_eof /\ m.unassembled_start_index >= m.eof_index
    THEN [m EXCEPT !.output = end_input(@), !.staging_list = << >>, !.staging_size = 0]
    ELSE m

NoteEof(data, index, eofFlag) ==
    IF eofFlag THEN [l EXCEPT !.have_eof = TRUE, !.eof_index = index + Len(data)] ELSE l

push_substring(data, index, eofFlag) ==
    LET noted == NoteEof(data, index, eofFlag)
        placed == Place(data, index)
    IN  IF Len(data) = 0 \/ index + Len(data) < l.unassembled_start_index
        THEN eof_process(noted)
        ELSE eof_process(WriteItems(
                 [noted EXCEPT !.staging_list = << >>, !.staging_size = placed.size],
                 placed.items)[Len(placed.items)])

Push(index, len, eofFlag) ==
    /\ index + len <= StreamLength
    /\ eofFlag => index + len = StreamLength
    /\ l' = push_substring(Substring(index, len), index, eofFlag)

Read(n) == /\ n <= buffer_size(l.output)
           /\ l' = [l EXCEPT !.output = stream_read(@, n)]

Next == \/ \E index \in 0 .. StreamLength, len \in 0 .. StreamLength, eofFlag \in BOOLEAN :
              Push(index, len, eofFlag)
        \/ \E n \in 1 .. Capacity : Read(n)

Spec == Init /\ [][Next]_l

-----------------------------------------------------------------------------

\* The positions the list covers, and the byte the list holds for each.
Covered == UNION {l.staging_list[k].first .. l.staging_list[k].last :
                    k \in DOMAIN l.staging_list}
StagedByte(p) ==
    LET k == CHOOSE i \in DOMAIN l.staging_list :
                 p \in l.staging_list[i].first .. l.staging_list[i].last
    IN  l.staging_list[k].data[p - l.staging_list[k].first + 1]

Reassembler == INSTANCE StreamReassemblerSpec WITH
    r <- [output |-> l.output, capacity |-> l.capacity,
          staged |-> [p \in Covered |-> StagedByte(p)],
          unassembled_start_index |-> l.unassembled_start_index,
          have_eof |-> l.have_eof, eof_index |-> l.eof_index]

\* The list algorithm implements the reassembler over a function from
\* positions to bytes: every push and read of the code is one of its steps.
ImplementsReassembler == Reassembler!Spec

\* The output holds the stream's bytes from the first unread one on, in order
\* and without gap, and the staged bytes are the right ones for their
\* positions: whatever the order and overlap of the substrings, nothing is
\* ever assembled at a wrong place.
OutputIsStream == Reassembler!OutputIsStream

\* The assembled part ends where the output ends (no byte that the output had
\* no room for was counted as assembled), and what is staged lies strictly
\* past it: the next missing byte is never staged and always accepted.
AssembledIsWritten == Reassembler!AssembledIsWritten

\* "This capacity limits both the bytes that have been reassembled, and those
\* that have not yet been reassembled" (stream_reassembler.hh:32-33).
CapacityIsRespected == Reassembler!CapacityIsRespected

\* The output is ended exactly when the end has been announced and the whole
\* stream is in it, in whatever order that came about, and then nothing is
\* left in the staging list.
EndsAtEof == Reassembler!EndsAtEof

\* The items are in order, do not overlap, hold as many bytes as their range,
\* and _staging_size, which empty() and unassembled_bytes() report, counts
\* each staged byte once (stream_reassembler.hh:53-54, "If the byte at a
\* particular index has been pushed more than once, it should only be counted
\* once").
ListInOrder ==
    /\ \A k \in 1 .. Len(l.staging_list) :
          LET item == l.staging_list[k]
          IN  /\ item.first <= item.last
              /\ Len(item.data) = item.last - item.first + 1
              /\ k < Len(l.staging_list) => item.last < l.staging_list[k + 1].first
    /\ l.staging_size = Cardinality(Covered)
=============================================================================
