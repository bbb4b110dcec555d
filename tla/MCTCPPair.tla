----------------------------- MODULE MCTCPPair ------------------------------
(***************************************************************************)
(* Constants for the runs of TCPPair.                                      *)
(***************************************************************************)
EXTENDS TCPPair

\* The client's numbers wrap within its first bytes, the server's do not.
ISNs == [p \in Peers |-> IF p = "client" THEN TwoTo32 - 2 ELSE 2]

OneWay == [p \in Peers |-> IF p = "client" THEN 2 ELSE 0]
BothWays == [p \in Peers |-> IF p = "client" THEN 2 ELSE 1]
=============================================================================
