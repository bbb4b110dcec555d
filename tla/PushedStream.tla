---------------------------- MODULE PushedStream ----------------------------
(***************************************************************************)
(* The stream that a reassembler is given: StreamLength bytes, of which    *)
(* the one at position i is i, cut into substrings.                        *)
(***************************************************************************)
EXTENDS Integers

CONSTANTS Capacity, StreamLength

ASSUME ReassemblerAssumption ==
    Capacity \in Nat \ {0} /\ StreamLength \in Nat

Substring(index, len) == [i \in 1 .. len |-> index + i - 1]
=============================================================================
