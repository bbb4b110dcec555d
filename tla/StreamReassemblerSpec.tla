------------------------ MODULE StreamReassemblerSpec -----------------------
(***************************************************************************)
(* A StreamReassembler fed with the substrings of one stream in any order, *)
(* any number of times and with any overlap, while the application reads.  *)
(***************************************************************************)
EXTENDS StreamReassembler, PushedStream

VARIABLE r

Init == r = NewStreamReassembler(Capacity)

\* eof marks the substring that ends the stream; the sender may also leave it
\* to a later, empty substring.
Push(index, len, eofFlag) ==
    /\ index + len <= StreamLength
    /\ eofFlag => index + len = StreamLength
    /\ r' = push_substring(r, Substring(index, len), index, eofFlag)

Read(n) == /\ n <= buffer_size(r.output)
           /\ r' = [r EXCEPT !.output = stream_read(@, n)]

Next == \/ \E index \in 0 .. StreamLength, len \in 0 .. StreamLength, eofFlag \in BOOLEAN :
              Push(index, len, eofFlag)
        \/ \E n \in 1 .. Capacity : Read(n)

Spec == Init /\ [][Next]_r

-----------------------------------------------------------------------------

\* The output holds the stream's bytes from the first unread one on, in order
\* and without gap, and the staged bytes are the right ones for their
\* positions: whatever the order and overlap of the substrings, nothing is
\* ever assembled at a wrong place.
OutputIsStream ==
    /\ \A i \in 1 .. buffer_size(r.output) : r.output.buffer[i] = bytes_read(r.output) + i - 1
    /\ \A p \in StagedPositions(r) : r.staged[p] = p

\* The assembled part ends where the output ends (no byte that the output had
\* no room for was counted as assembled), and what is staged lies strictly
\* past it: the next missing byte is never staged and always accepted.
AssembledIsWritten ==
    /\ r.unassembled_start_index = bytes_written(r.output)
    /\ \A p \in StagedPositions(r) :
          r.unassembled_start_index < p /\ p <= unassembled_max_index(r)

\* "This capacity limits both the bytes that have been reassembled, and those
\* that have not yet been reassembled" (stream_reassembler.hh:32-33).
CapacityIsRespected ==
    buffer_size(r.output) + unassembled_bytes(r) <= Capacity

\* The output is ended exactly when the end has been announced and the whole
\* stream is in it, in whatever order that came about, and then nothing is
\* left in the staging area.
EndsAtEof ==
    /\ r.output.ended <=> r.have_eof /\ bytes_written(r.output) = StreamLength
    /\ r.output.ended => reassembler_empty(r)
=============================================================================
