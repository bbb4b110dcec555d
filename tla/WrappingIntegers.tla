-------------------------- MODULE WrappingIntegers --------------------------
(***************************************************************************)
(* 32-bit sequence numbers and their translation to and from absolute      *)
(* 64-bit stream positions (libsponge/wrapping_integers.cc).  TwoTo32 is   *)
(* the code's two_32; TLC runs give it a small value, so that wrapping     *)
(* happens within a few bytes, and the proofs hold for every value.        *)
(***************************************************************************)
EXTENDS Integers

CONSTANT TwoTo32

ASSUME TwoTo32Assumption == TwoTo32 \in Nat \ {0, 1} /\ TwoTo32 % 2 = 0

WrappingInt32 == 0 .. TwoTo32 - 1

wrap(n, isn) == (isn + n) % TwoTo32

\* The distance from isn to n going upwards: the code's absolute_seqno_mod.
ForwardDistance(n, isn) == IF n < isn THEN n + TwoTo32 - isn ELSE n - isn

\* A mutant of unwrap that never looks one wrap above the checkpoint.
unwrap_NoUpperWrap(n, isn, checkpoint) ==
    LET quotient == checkpoint \div TwoTo32
        candidate == ForwardDistance(n, isn) + quotient * TwoTo32
    IN  IF quotient >= 1 /\ 2 * (checkpoint - (candidate - TwoTo32)) < TwoTo32
        THEN candidate - TwoTo32
        ELSE candidate

\* The three candidates in the order the code tries them: one wrap below
\* the checkpoint's (not below position 0), one wrap above, and the same one.
\* No subtraction is negative, so unsigned arithmetic agrees with integers;
\* positions within two_32 of 2^64, where the sums would overflow, are out of
\* reach of any stream.
unwrap(n, isn, checkpoint) ==
    LET quotient == checkpoint \div TwoTo32
        candidate == ForwardDistance(n, isn) + quotient * TwoTo32
    IN  IF quotient >= 1 /\ 2 * (checkpoint - (candidate - TwoTo32)) < TwoTo32
        THEN candidate - TwoTo32
        ELSE IF 2 * ((candidate + TwoTo32) - checkpoint) < TwoTo32
             THEN candidate + TwoTo32
             ELSE candidate

\* How far two positions are apart.
Distance(a, b) == IF a <= b THEN b - a ELSE a - b
=============================================================================
