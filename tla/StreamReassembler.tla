-------------------------- MODULE StreamReassembler -------------------------
(***************************************************************************)
(* The stream reassembler (libsponge/stream_reassembler.cc) as a data      *)
(* type.  The code's _staging_list is represented by the function it       *)
(* stands for, from the staged stream positions to the staged bytes:       *)
(* staged.  How the list cuts that function into substrings cannot be      *)
(* observed; module StagingList keeps the list and the loop over it, and   *)
(* is checked to implement this module.                                    *)
(***************************************************************************)
EXTENDS ByteStream, FiniteSets

NewStreamReassembler(capacity) ==
    [output |-> NewByteStream(capacity), capacity |-> capacity,
     staged |-> << >>, unassembled_start_index |-> 0,
     have_eof |-> FALSE, eof_index |-> 0]

StagedPositions(r) == DOMAIN r.staged
unassembled_bytes(r) == Cardinality(StagedPositions(r))
reassembler_empty(r) == unassembled_bytes(r) = 0

\* The last position that may be held, counted from the first unread byte.
unassembled_max_index(r) ==
    (r.unassembled_start_index - buffer_size(r.output)) + (r.capacity - 1)

eof_process(r) ==
    IF r.have_eof /\ r.unassembled_start_index >= r.eof_index
    THEN [r EXCEPT !.output = end_input(@), !.staged = << >>]
    ELSE r

\* Staging a substring fills the gaps: positions that are already staged keep
\* their byte, positions before the unassembled part or past the capacity
\* are dropped.
Stage(r, data, index) ==
    LET first == IF index >= r.unassembled_start_index THEN index
                 ELSE r.unassembled_start_index
        last == MinOf(index + Len(data) - 1, unassembled_max_index(r))
    IN  [r EXCEPT !.staged =
            [p \in DOMAIN @ \cup (first .. last) |->
                IF p \in DOMAIN @ THEN @[p] ELSE data[p - index + 1]]]

\* The first position from the unassembled part on that is not staged.
FirstGap(r) ==
    CHOOSE p \in r.unassembled_start_index ..
                 r.unassembled_start_index + unassembled_bytes(r) :
        /\ p \notin StagedPositions(r)
        /\ \A q \in r.unassembled_start_index .. p - 1 : q \in StagedPositions(r)

\* The write loop: every staged substring that continues the output moves to it.
Assemble(r) ==
    LET start == r.unassembled_start_index
        gap == FirstGap(r)
    IN  [r EXCEPT
            !.output = stream_write(@, [i \in 1 .. gap - start |-> r.staged[start + i - 1]]),
            !.unassembled_start_index = gap,
            !.staged = [p \in {q \in DOMAIN @ : q > gap} |-> @[p]]]

NoteEof(r, data, index, eofFlag) ==
    IF eofFlag
    THEN [r EXCEPT !.have_eof = TRUE, !.eof_index = index + Len(data)]
    ELSE r

push_substring(r, data, index, eofFlag) ==
    LET noted == NoteEof(r, data, index, eofFlag)
    IN  IF data = << >> \/ index + Len(data) < r.unassembled_start_index
        THEN eof_process(noted)
        ELSE eof_process(Assemble(Stage(noted, data, index)))
=============================================================================
