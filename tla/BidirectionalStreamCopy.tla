---------------------- MODULE BidirectionalStreamCopy -----------------------
(***************************************************************************)
(* bidirectional_stream_copy() (apps/bidirectional_stream_copy.cc): an     *)
(* event loop that copies the standard input to a socket and the socket to *)
(* the standard output, through a ByteStream each way.  w.copy is its own  *)
(* state; w.up and w.down are the socket's two directions.                 *)
(***************************************************************************)
EXTENDS ByteStream, FileDescriptor

CONSTANTS CopyCapacity,   \* buffer_size
          InputCapacity   \* what the standard input buffers

ASSUME CopyAssumption == CopyCapacity \in Nat \ {0} /\ InputCapacity \in Nat \ {0}

CopyRules == <<"stdin", "to_socket", "from_socket", "stdout">>

NewCopy ==
    [input |-> NewPipe(InputCapacity), input_eof |-> FALSE, output |-> << >>, output_closed |-> FALSE,
     socket_eof |-> FALSE, outbound |-> NewByteStream(CopyCapacity),
     inbound |-> NewByteStream(CopyCapacity), outbound_shutdown |-> FALSE,
     inbound_shutdown |-> FALSE, killed |-> FALSE]

CopyDefunct(w, r) == \/ r = "stdin" /\ w.copy.input_eof
                     \/ r = "from_socket" /\ w.copy.socket_eof
                     \/ r = "stdout" /\ w.copy.output_closed

Reads(into, other) == ~into.error /\ remaining_capacity(into) > 0 /\ ~other.error
Writes(from, is_shutdown) == ~buffer_empty(from) \/ (eof(from) /\ ~is_shutdown)

CopyInterest(w, r) ==
    LET c == w.copy
    IN  CASE r = "stdin" -> Reads(c.outbound, c.inbound)
          [] r = "to_socket" -> Writes(c.outbound, c.outbound_shutdown)
          [] r = "from_socket" -> Reads(c.inbound, c.outbound)
          [] r = "stdout" -> Writes(c.inbound, c.inbound_shutdown)

CopyCancel(w, r) ==
    IF r \in {"stdin", "to_socket"} THEN [w EXCEPT !.copy.outbound = end_input(@)]
                                    ELSE [w EXCEPT !.copy.inbound = end_input(@)]

CopyReady(w, r) ==
    CASE r = "stdin" -> Readable(w.copy.input)
      [] r = "to_socket" -> Writable(w.up)
      [] r = "from_socket" -> Readable(w.down)
      [] r = "stdout" -> TRUE

CopyHup(w, r) == r \in {"to_socket", "from_socket"} /\ w.up.shut /\ w.down.shut

\* Rules 1 and 3: a read into a stream, which the end of file ends.
ReadInto(stream, pipe) ==
    LET limit == remaining_capacity(stream)
        written == stream_write(stream, ReadBytes(pipe, limit))
    IN  IF ReadsEof(pipe, limit) THEN end_input(written) ELSE written

CopyStdin(w) ==
    LET limit == remaining_capacity(w.copy.outbound)
    IN  [w EXCEPT !.copy.outbound = ReadInto(@, w.copy.input),
                  !.copy.input = AfterRead(@, limit),
                  !.copy.input_eof = ReadsEof(w.copy.input, limit)]

CopyFromSocket(w) ==
    LET limit == remaining_capacity(w.copy.inbound)
    IN  [w EXCEPT !.copy.inbound = ReadInto(@, w.down),
                  !.down = AfterRead(@, limit),
                  !.copy.socket_eof = ReadsEof(w.down, limit)]

\* Rule 2: as much of the outbound stream as the socket takes; its end shuts
\* the socket down for writing.
CopyToSocket(w) ==
    LET data == peek_output(w.copy.outbound, buffer_size(w.copy.outbound))
        popped == pop_output(w.copy.outbound, Taken(w.up, data))
        sent == [w EXCEPT !.up = AfterWrite(@, data), !.copy.outbound = popped]
    IN  IF WriteFails(w.up, data) THEN [w EXCEPT !.copy.killed = TRUE]
        ELSE IF eof(popped)
             THEN [sent EXCEPT !.up = shutdown(@), !.copy.outbound_shutdown = TRUE]
             ELSE sent

\* Rule 4: the same with the standard output, which its end closes.
CopyStdout(w) ==
    LET data == peek_output(w.copy.inbound, buffer_size(w.copy.inbound))
        popped == pop_output(w.copy.inbound, Len(data))
    IN  [w EXCEPT !.copy.output = @ \o data, !.copy.inbound = popped,
                  !.copy.output_closed = eof(popped), !.copy.inbound_shutdown = eof(popped)]

CopyCallback(w, r) ==
    LET used == [w EXCEPT !.loop.serviced = TRUE]
    IN  CASE r = "stdin" -> CopyStdin(used)
          [] r = "to_socket" -> CopyToSocket(used)
          [] r = "from_socket" -> CopyFromSocket(used)
          [] r = "stdout" -> CopyStdout(used)

CopyLoop == INSTANCE EventLoop WITH
    Defunct <- CopyDefunct, Interest <- CopyInterest, Callback <- CopyCallback,
    Cancel <- CopyCancel, Ready <- CopyReady, Hup <- CopyHup
=============================================================================
