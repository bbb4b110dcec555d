--------------------------- MODULE FileDescriptor ---------------------------
(***************************************************************************)
(* One direction of a pipe or of a pair of connected stream sockets, as    *)
(* the kernel keeps it, and the calls of util/file_descriptor.cc and       *)
(* util/socket.cc on it.  What was written before a shutdown can still be  *)
(* read after it.                                                          *)
(***************************************************************************)
EXTENDS Integers, Sequences, FiniteSetsExt

\* The kernel buffers so many bytes.
NewPipe(capacity) == [bytes |-> << >>, shut |-> FALSE, capacity |-> capacity]

\* What poll() reports of the reading and of the writing end.
Readable(pipe) == pipe.bytes # << >> \/ pipe.shut
Writable(pipe) == Len(pipe.bytes) < pipe.capacity

\* FileDescriptor::read(): the bytes it returns, what it leaves in the pipe,
\* and whether it notes the end of file.
ReadBytes(pipe, limit) == SubSeq(pipe.bytes, 1, Min({limit, Len(pipe.bytes)}))
AfterRead(pipe, limit) ==
    [pipe EXCEPT !.bytes = SubSeq(@, Min({limit, Len(@)}) + 1, Len(@))]

\* A mutant: the end of file is noted as soon as the other end has shut down.
ReadsEof_Shut(pipe, limit) == limit > 0 /\ pipe.shut

ReadsEof(pipe, limit) == limit > 0 /\ ReadBytes(pipe, limit) = << >>

\* FileDescriptor::write() without write_all: how much is taken.  Writing
\* bytes to a pipe that has been shut down raises SIGPIPE; writing none does
\* nothing.
Taken(pipe, data) == Min({Len(data), pipe.capacity - Len(pipe.bytes)})
AfterWrite(pipe, data) == [pipe EXCEPT !.bytes = @ \o SubSeq(data, 1, Taken(pipe, data))]
WriteFails(pipe, data) == pipe.shut /\ data # << >>

shutdown(pipe) == [pipe EXCEPT !.shut = TRUE]
=============================================================================
