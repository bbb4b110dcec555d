----------------------------- MODULE ByteStream -----------------------------
(***************************************************************************)
(* The flow-controlled in-memory byte stream (libsponge/byte_stream.cc) as *)
(* a data type: a record per object, an operator per method.  Senders and  *)
(* receivers each hold one.                                                *)
(***************************************************************************)
EXTENDS Integers, Sequences

MinOf(a, b) == IF a <= b THEN a ELSE b

NewByteStream(capacity) ==
    [buffer |-> << >>, capacity |-> capacity, ended |-> FALSE,
     written |-> 0, error |-> FALSE]

ByteStreamType(Byte) ==
    [buffer: Seq(Byte), capacity: Nat, ended: BOOLEAN, written: Nat, error: BOOLEAN]

buffer_size(bs) == Len(bs.buffer)
buffer_empty(bs) == bs.buffer = << >>
remaining_capacity(bs) == bs.capacity - buffer_size(bs)
eof(bs) == bs.ended /\ buffer_empty(bs)
bytes_written(bs) == bs.written
bytes_read(bs) == bs.written - buffer_size(bs)

\* write() stores the prefix that fits.  It does not look at _is_ended.
stream_write(bs, data) ==
    LET n == MinOf(remaining_capacity(bs), Len(data))
    IN  [bs EXCEPT !.buffer = @ \o SubSeq(data, 1, n), !.written = @ + n]

peek_output(bs, len) ==
    IF len > buffer_size(bs) THEN << >> ELSE SubSeq(bs.buffer, 1, len)

\* pop_output() of more than is buffered only sets the error flag.
pop_output(bs, len) ==
    IF len > buffer_size(bs)
    THEN [bs EXCEPT !.error = TRUE]
    ELSE [bs EXCEPT !.buffer = SubSeq(@, len + 1, Len(@))]

\* read() is peek_output() followed by pop_output(); this is the stream it
\* leaves, peek_output(bs, len) the bytes it returns.
stream_read(bs, len) == pop_output(bs, len)

end_input(bs) == [bs EXCEPT !.ended = TRUE]
set_error(bs) == [bs EXCEPT !.error = TRUE]
=============================================================================
