------------------------- MODULE MCTCPSpongeSocket --------------------------
(***************************************************************************)
(* Constants for the runs of TCPSpongeSocket.                              *)
(***************************************************************************)
EXTENDS TCPSpongeSocket

ISNs == [p \in Peers |-> IF p = "client" THEN TwoTo32 - 1 ELSE 2]
Bytes == [p \in Peers |-> 3]

Scenario(program, quits, peer, request, answer) ==
    [program |-> program, quits |-> quits, peer |-> peer, request |-> request, answer |-> answer]

\* A request of three bytes does not fit into the outbound stream, an answer
\* of two does not fit into the pipe to the owner.
AllScenarios == {Scenario("copy", FALSE, "answers", 1, 2), Scenario("copy", FALSE, "silent", 2, 1),
                 Scenario("webget", FALSE, "answers", 3, 1), Scenario("webget", FALSE, "resets", 1, 2),
                 Scenario("webget", TRUE, "answers", 1, 2)}
QuitScenario == {Scenario("webget", TRUE, "answers", 1, 2)}
=============================================================================
