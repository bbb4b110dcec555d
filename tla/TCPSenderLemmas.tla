-------------------------- MODULE TCPSenderLemmas ---------------------------
(***************************************************************************)
(* The lemmas about sequence numbers, lists of segments and senders, for   *)
(* every ring, window, payload size and capacity.  First wrap and unwrap;  *)
(* then the running totals SequenceSpace: what they are, and what they     *)
(* become when segments are appended to a list or removed from its front.  *)
(* Then every method of the sender keeps its invariant Good.               *)
(*                                                                         *)
(* The induction the totals need is stated about sets of natural numbers,  *)
(* which keeps every step first-order.                                     *)
(***************************************************************************)
EXTENDS TCPSenderState, WellFoundedInduction, SequenceTheorems, TLAPS

-----------------------------------------------------------------------------
(* wrap() and unwrap() *)

\* Division with remainder on the ring.
LEMMA DivMod ==
    ASSUME NEW a \in Nat
    PROVE  /\ a % TwoTo32 \in WrappingInt32
           /\ a \div TwoTo32 \in Nat
           /\ a = TwoTo32 * (a \div TwoTo32) + (a % TwoTo32)
BY TwoTo32Assumption DEF WrappingInt32

\* Quotient and remainder are unique.
LEMMA DivModUnique ==
    ASSUME NEW a \in Nat, NEW q \in Nat, NEW rem \in WrappingInt32, a = TwoTo32 * q + rem
    PROVE  a % TwoTo32 = rem /\ a \div TwoTo32 = q
BY TwoTo32Assumption DEF WrappingInt32

\* wrap() yields a 32-bit value.
LEMMA WrapType ==
    ASSUME NEW n \in Nat, NEW isn \in WrappingInt32
    PROVE  wrap(n, isn) \in WrappingInt32
BY DivMod DEF wrap, WrappingInt32

\* The positions that wrap to n are exactly the distance from isn to n plus a
\* number of whole turns.
LEMMA WrapTurns ==
    ASSUME NEW n \in WrappingInt32, NEW isn \in WrappingInt32, NEW turns \in Nat
    PROVE  /\ ForwardDistance(n, isn) \in WrappingInt32
           /\ ForwardDistance(n, isn) + TwoTo32 * turns \in Nat
           /\ wrap(ForwardDistance(n, isn) + TwoTo32 * turns, isn) = n
<1> DEFINE t == TwoTo32 * turns
<1>1. t \in Nat
  BY TwoTo32Assumption
<1>2. ForwardDistance(n, isn) \in WrappingInt32
  BY TwoTo32Assumption DEF ForwardDistance, WrappingInt32
<1>3. CASE n < isn
  <2>1. isn + (ForwardDistance(n, isn) + t) = TwoTo32 * (turns + 1) + n
    BY <1>3, TwoTo32Assumption DEF ForwardDistance, WrappingInt32
  <2>2. TwoTo32 * (turns + 1) + n \in Nat
    BY TwoTo32Assumption DEF WrappingInt32
  <2>3. (TwoTo32 * (turns + 1) + n) % TwoTo32 = n
    BY <2>2, DivModUnique
  <2> QED BY <1>1, <1>2, <2>1, <2>3 DEF wrap, WrappingInt32
<1>4. CASE ~(n < isn)
  <2>1. isn + (ForwardDistance(n, isn) + t) = t + n
    BY <1>4, <1>1, TwoTo32Assumption DEF ForwardDistance, WrappingInt32
  <2>2. (t + n) % TwoTo32 = n
    BY <1>1, DivModUnique, TwoTo32Assumption DEF WrappingInt32
  <2> QED BY <1>1, <1>2, <2>1, <2>2 DEF wrap, WrappingInt32
<1> QED BY <1>3, <1>4

\* Every position is of that form.
LEMMA WrapTurnsOnly ==
    ASSUME NEW a \in Nat, NEW isn \in WrappingInt32
    PROVE  \E turns \in Nat :
              a = ForwardDistance(wrap(a, isn), isn) + TwoTo32 * turns
<1> DEFINE d == (isn + a) \div TwoTo32
           w == wrap(a, isn)
<1>1. /\ w \in WrappingInt32 /\ d \in Nat
      /\ isn + a = TwoTo32 * d + w
  BY DivMod DEF wrap, WrappingInt32
<1> HIDE DEF d, w
<1>2. CASE w < isn
  <2>1. d # 0
    BY <1>1, <1>2, TwoTo32Assumption DEF WrappingInt32
  <2>2. d - 1 \in Nat /\ TwoTo32 * d = TwoTo32 * (d - 1) + TwoTo32
    BY <2>1, <1>1, TwoTo32Assumption
  <2>3. TwoTo32 * (d - 1) \in Nat
    BY <2>2, TwoTo32Assumption
  <2>4. a = ForwardDistance(w, isn) + TwoTo32 * (d - 1)
    BY <1>1, <1>2, <2>2, <2>3, TwoTo32Assumption DEF ForwardDistance, WrappingInt32
  <2> QED BY <2>2, <2>4 DEF w
<1>3. CASE ~(w < isn)
  <2>1. TwoTo32 * d \in Nat
    BY <1>1, TwoTo32Assumption
  <2>2. a = ForwardDistance(w, isn) + TwoTo32 * d
    BY <1>1, <1>3, <2>1, TwoTo32Assumption DEF ForwardDistance, WrappingInt32
  <2> QED BY <1>1, <2>2 DEF w
<1> QED BY <1>2, <1>3

\* Different numbers of turns are at least one turn apart.
LEMMA TurnsApart ==
    ASSUME NEW p \in Nat, NEW q \in Nat, p < q
    PROVE  /\ TwoTo32 * p \in Nat /\ TwoTo32 * q \in Nat
           /\ TwoTo32 * p + TwoTo32 <= TwoTo32 * q
<1>1. PICK k \in Nat : q = p + 1 + k
  <2>1. q - p - 1 \in Nat /\ q = p + 1 + (q - p - 1)
    OBVIOUS
  <2> QED BY <2>1
<1>2. TwoTo32 * q = TwoTo32 * p + TwoTo32 + TwoTo32 * k
  BY <1>1, TwoTo32Assumption
<1>3. TwoTo32 * k \in Nat /\ TwoTo32 * p \in Nat
  BY TwoTo32Assumption
<1> QED BY <1>2, <1>3, TwoTo32Assumption

\* unwrap() returns one of the positions that wrap to n, and of those the
\* one with some number of turns that is closest to the checkpoint.
LEMMA UnwrapTurns ==
    ASSUME NEW n \in WrappingInt32, NEW isn \in WrappingInt32, NEW checkpoint \in Nat
    PROVE  \E turns \in Nat :
              /\ unwrap(n, isn, checkpoint) = ForwardDistance(n, isn) + TwoTo32 * turns
              /\ \A other \in Nat :
                    Distance(ForwardDistance(n, isn) + TwoTo32 * turns, checkpoint)
                       <= Distance(ForwardDistance(n, isn) + TwoTo32 * other, checkpoint)
<1> DEFINE f == ForwardDistance(n, isn)
           q == checkpoint \div TwoTo32
           base == TwoTo32 * q
<1>1. f \in WrappingInt32
  BY WrapTurns
<1>2. /\ q \in Nat /\ base \in Nat
      /\ base <= checkpoint /\ checkpoint < base + TwoTo32
  BY DivMod, TwoTo32Assumption DEF WrappingInt32
<1>3. q * TwoTo32 = base
  BY <1>2, TwoTo32Assumption
<1>4. unwrap(n, isn, checkpoint) =
        IF q >= 1 /\ 2 * (checkpoint - ((f + base) - TwoTo32)) < TwoTo32
        THEN (f + base) - TwoTo32
        ELSE IF 2 * (((f + base) + TwoTo32) - checkpoint) < TwoTo32
             THEN (f + base) + TwoTo32
             ELSE f + base
  BY <1>3 DEF unwrap
<1>5. ASSUME NEW other \in Nat
      PROVE  /\ TwoTo32 * other \in Nat
             /\ other < q => TwoTo32 * other + TwoTo32 <= base
             /\ other > q => base + TwoTo32 <= TwoTo32 * other
             /\ other + 1 < q => TwoTo32 * other + TwoTo32 + TwoTo32 <= base
             /\ other > q + 1 => base + TwoTo32 + TwoTo32 <= TwoTo32 * other
  <2>1. TwoTo32 * other \in Nat
    BY TwoTo32Assumption
  <2>2. other < q => TwoTo32 * other + TwoTo32 <= base
    BY <1>2, TurnsApart
  <2>3. other > q => base + TwoTo32 <= TwoTo32 * other
    BY <1>2, TurnsApart
  <2>4. TwoTo32 * (other + 1) = TwoTo32 * other + TwoTo32
    BY TwoTo32Assumption
  <2>5. other + 1 < q => TwoTo32 * other + TwoTo32 + TwoTo32 <= base
    BY <1>2, <2>4, TurnsApart
  <2>6. TwoTo32 * (q + 1) = base + TwoTo32
    BY <1>2, TwoTo32Assumption
  <2>7. other > q + 1 => base + TwoTo32 + TwoTo32 <= TwoTo32 * other
    BY <1>2, <2>6, TurnsApart
  <2> QED BY <2>1, <2>2, <2>3, <2>5, <2>7
<1>6. CASE q >= 1 /\ 2 * (checkpoint - ((f + base) - TwoTo32)) < TwoTo32
  <2>1. q - 1 \in Nat /\ base = TwoTo32 * (q - 1) + TwoTo32
    BY <1>2, <1>6, TwoTo32Assumption
  <2>2. unwrap(n, isn, checkpoint) = f + TwoTo32 * (q - 1)
    BY <1>1, <1>2, <1>4, <1>6, <2>1, TwoTo32Assumption DEF WrappingInt32
  <2> HIDE DEF f, q, base
  <2>3. ASSUME NEW other \in Nat
        PROVE  Distance(f + TwoTo32 * (q - 1), checkpoint)
                  <= Distance(f + TwoTo32 * other, checkpoint)
    <3>1. other = q - 1 \/ other = q \/ other > q \/ other + 1 < q
      BY <1>2
    <3> QED BY <1>1, <1>2, <1>5, <1>6, <2>1, <3>1, TwoTo32Assumption
            DEF Distance, WrappingInt32
  <2> QED BY <2>1, <2>2, <2>3 DEF f
<1>7. CASE /\ ~(q >= 1 /\ 2 * (checkpoint - ((f + base) - TwoTo32)) < TwoTo32)
           /\ 2 * (((f + base) + TwoTo32) - checkpoint) < TwoTo32
  <2>1. q + 1 \in Nat /\ base + TwoTo32 = TwoTo32 * (q + 1)
    BY <1>2, TwoTo32Assumption
  <2> HIDE DEF f, q, base
  <2>2. unwrap(n, isn, checkpoint) = f + TwoTo32 * (q + 1)
    BY <1>1, <1>2, <1>4, <1>7, <2>1, TwoTo32Assumption DEF WrappingInt32
  <2>3. ASSUME NEW other \in Nat
        PROVE  Distance(f + TwoTo32 * (q + 1), checkpoint)
                  <= Distance(f + TwoTo32 * other, checkpoint)
    <3>1. other = q + 1 \/ other = q \/ other < q \/ other > q + 1
      BY <1>2
    <3> QED BY <1>1, <1>2, <1>5, <1>7, <2>1, <3>1, TwoTo32Assumption
            DEF Distance, WrappingInt32
  <2> QED BY <2>1, <2>2, <2>3 DEF f
<1>8. CASE /\ ~(q >= 1 /\ 2 * (checkpoint - ((f + base) - TwoTo32)) < TwoTo32)
           /\ ~(2 * (((f + base) + TwoTo32) - checkpoint) < TwoTo32)
  <2>1. unwrap(n, isn, checkpoint) = f + TwoTo32 * q
    BY <1>4, <1>8
  <2> HIDE DEF f, q, base
  <2>2. ASSUME NEW other \in Nat
        PROVE  Distance(f + base, checkpoint) <= Distance(f + TwoTo32 * other, checkpoint)
    <3>1. other = q \/ other < q \/ other > q
      BY <1>2
    <3> QED BY <1>1, <1>2, <1>5, <1>8, <3>1, TwoTo32Assumption
            DEF Distance, WrappingInt32, base
  <2> QED BY <1>2, <2>1, <2>2 DEF f, base
<1> QED BY <1>6, <1>7, <1>8

\* The documentation of unwrap() (wrapping_integers.cc:28): it returns a
\* position that wraps to n, and no position that wraps to n is closer to the
\* checkpoint.
THEOREM UnwrapClosest ==
    ASSUME NEW n \in WrappingInt32, NEW isn \in WrappingInt32, NEW checkpoint \in Nat
    PROVE  /\ unwrap(n, isn, checkpoint) \in Nat
           /\ wrap(unwrap(n, isn, checkpoint), isn) = n
           /\ \A other \in Nat :
                 wrap(other, isn) = n =>
                    Distance(unwrap(n, isn, checkpoint), checkpoint)
                       <= Distance(other, checkpoint)
<1>1. PICK turns \in Nat :
         /\ unwrap(n, isn, checkpoint) = ForwardDistance(n, isn) + TwoTo32 * turns
         /\ \A other \in Nat :
               Distance(ForwardDistance(n, isn) + TwoTo32 * turns, checkpoint)
                  <= Distance(ForwardDistance(n, isn) + TwoTo32 * other, checkpoint)
  BY UnwrapTurns
<1>2. unwrap(n, isn, checkpoint) \in Nat /\ wrap(unwrap(n, isn, checkpoint), isn) = n
  BY <1>1, WrapTurns
<1>3. ASSUME NEW other \in Nat, wrap(other, isn) = n
      PROVE  Distance(unwrap(n, isn, checkpoint), checkpoint) <= Distance(other, checkpoint)
  <2>1. PICK k \in Nat : other = ForwardDistance(n, isn) + TwoTo32 * k
    BY <1>3, WrapTurnsOnly
  <2> QED BY <1>1, <2>1
<1> QED BY <1>2, <1>3

\* Positions that wrap to the same number are equal or a turn apart.
LEMMA SameWrap ==
    ASSUME NEW a \in Nat, NEW b \in Nat, NEW isn \in WrappingInt32,
           wrap(a, isn) = wrap(b, isn)
    PROVE  a = b \/ Distance(a, b) >= TwoTo32
<1>1. PICK p \in Nat : a = ForwardDistance(wrap(a, isn), isn) + TwoTo32 * p
  BY WrapTurnsOnly
<1>2. PICK q \in Nat : b = ForwardDistance(wrap(a, isn), isn) + TwoTo32 * q
  BY WrapTurnsOnly
<1>3. ForwardDistance(wrap(a, isn), isn) \in WrappingInt32
  BY WrapType, WrapTurns
<1>4. CASE p < q
  BY <1>1, <1>2, <1>3, <1>4, TurnsApart, TwoTo32Assumption DEF Distance, WrappingInt32
<1>5. CASE q < p
  BY <1>1, <1>2, <1>3, <1>5, TurnsApart, TwoTo32Assumption DEF Distance, WrappingInt32
<1> QED BY <1>1, <1>2, <1>4, <1>5

\* Within half a ring of the checkpoint, unwrap() inverts wrap().
LEMMA RoundTrip ==
    ASSUME NEW a \in Nat, NEW isn \in WrappingInt32, NEW checkpoint \in Nat,
           2 * Distance(a, checkpoint) < TwoTo32
    PROVE  unwrap(wrap(a, isn), isn, checkpoint) = a
<1> DEFINE u == unwrap(wrap(a, isn), isn, checkpoint)
<1>1. /\ u \in Nat /\ wrap(u, isn) = wrap(a, isn)
      /\ Distance(u, checkpoint) <= Distance(a, checkpoint)
  BY WrapType, UnwrapClosest
<1> HIDE DEF u
<1>2. u = a \/ Distance(u, a) >= TwoTo32
  BY <1>1, SameWrap
<1>3. u = a
  BY <1>1, <1>2, TwoTo32Assumption DEF Distance
<1> QED BY <1>3 DEF u

-----------------------------------------------------------------------------
(* Running totals *)

\* Every non-empty set of natural numbers has a least element.
LEMMA LeastNat ==
    ASSUME NEW T, T \subseteq Nat, T # {}
    PROVE  \E x \in T : \A y \in T : x <= y
<1>1. PICK x \in T : \A y \in T : ~(<<y, x>> \in OpToRel(<, Nat))
  <2> DEFINE R == OpToRel(<, Nat)
  <2>1. IsWellFoundedOn(R, Nat)
    BY NatLessThanWellFounded, Zenon
  <2> HIDE DEF R
  <2>2. \E x \in T : \A y \in T : ~(<<y, x>> \in R)
    BY <2>1, WFMin, Zenon
  <2> QED BY <2>2 DEF R
<1>2. \A y \in T : ~(y < x)
  BY <1>1 DEF OpToRel
<1> QED BY <1>2

\* Induction over a range of natural numbers.
LEMMA RangeInduction ==
    ASSUME NEW n \in Nat, NEW T, 0 \in T,
           \A k \in 1 .. n : k - 1 \in T => k \in T
    PROVE  0 .. n \subseteq T
<1> DEFINE Bad == {k \in 0 .. n : k \notin T}
<1> SUFFICES ASSUME Bad # {} PROVE FALSE
  OBVIOUS
<1>1. PICK m \in Bad : \A y \in Bad : m <= y
  <2>1. Bad \subseteq Nat
    OBVIOUS
  <2> HIDE DEF Bad
  <2> QED BY <2>1, LeastNat
<1>2. m \in 1 .. n /\ m - 1 \in 0 .. n
  BY <1>1
<1>3. m - 1 \in T
  BY <1>1, <1>2
<1> QED BY <1>1, <1>2, <1>3

\* A segment's length counts at least its payload, SYN and FIN.
LEMMA LengthIsNat ==
    ASSUME NEW seg \in Segment
    PROVE  length_in_sequence_space(seg) \in Nat
<1>1. Len(seg.payload) \in Nat
  <2>1. seg.payload \in Seq(Nat)
    BY DEF Segment, SegmentType
  <2> QED BY <2>1, LenProperties
<1> DEFINE syn == IF seg.syn THEN 1 ELSE 0
           fin == IF seg.fin THEN 1 ELSE 0
<1>2. syn \in {0, 1} /\ fin \in {0, 1}
  BY Zenon
<1>3. length_in_sequence_space(seg) = Len(seg.payload) + syn + fin
  BY DEF length_in_sequence_space
<1> HIDE DEF syn, fin
<1> QED BY <1>1, <1>2, <1>3

-----------------------------------------------------------------------------

\* f is the running total of the lengths of the first n segments of segs.
IsTotal(f, segs, n) ==
    f = [k \in 0 .. n |->
            IF k = 0 THEN 0 ELSE f[k - 1] + length_in_sequence_space(segs[k])]

\* The running totals exist, so that the recursive definition of
\* SequenceSpace has the meaning it looks like it has.
LEMMA TotalExists ==
    ASSUME NEW segs, NEW n \in Nat,
           \A k \in 1 .. n : length_in_sequence_space(segs[k]) \in Nat
    PROVE  \E f : IsTotal(f, segs, n) /\ f \in [0 .. n -> Nat]
<1> DEFINE P(m) == \E f : IsTotal(f, segs, m) /\ f \in [0 .. m -> Nat]
           T == {m \in 0 .. n : P(m)}
<1>1. P(0)
  <2>1. IsTotal([k \in 0 .. 0 |-> 0], segs, 0)
    BY DEF IsTotal
  <2>2. [k \in 0 .. 0 |-> 0] \in [0 .. 0 -> Nat]
    OBVIOUS
  <2> QED BY <2>1, <2>2
<1>2. ASSUME NEW m \in 1 .. n, P(m - 1) PROVE P(m)
  <2>1. PICK f : IsTotal(f, segs, m - 1) /\ f \in [0 .. m - 1 -> Nat]
    BY <1>2
  <2> DEFINE g == [k \in 0 .. m |->
                     IF k = m THEN f[m - 1] + length_in_sequence_space(segs[m]) ELSE f[k]]
  <2>2. g \in [0 .. m -> Nat]
    BY <2>1
  <2>3. ASSUME NEW k \in 0 .. m
        PROVE  g[k] = IF k = 0 THEN 0 ELSE g[k - 1] + length_in_sequence_space(segs[k])
    <3>1. CASE k = m
      BY <3>1, <2>1
    <3>2. CASE k # m
      <4>1. f[k] = IF k = 0 THEN 0 ELSE f[k - 1] + length_in_sequence_space(segs[k])
        BY <3>2, <2>1 DEF IsTotal
      <4> QED BY <3>2, <4>1
    <3> QED BY <3>1, <3>2
  <2>4. IsTotal(g, segs, m)
    BY <2>2, <2>3 DEF IsTotal
  <2> HIDE DEF g
  <2> QED BY <2>2, <2>4
<1> HIDE DEF P
<1>3. 0 \in T /\ \A k \in 1 .. n : k - 1 \in T => k \in T
  BY <1>1, <1>2
<1>4. 0 .. n \subseteq T
  <2> HIDE DEF T
  <2> QED BY <1>3, RangeInduction
<1>5. P(n)
  BY <1>4
<1> QED BY <1>5 DEF P

\* The defining equations of SequenceSpace.
LEMMA SequenceSpaceDef ==
    ASSUME NEW segs,
           Len(segs) \in Nat,
           \A k \in 1 .. Len(segs) : length_in_sequence_space(segs[k]) \in Nat
    PROVE  /\ SequenceSpace(segs) \in [0 .. Len(segs) -> Nat]
           /\ SequenceSpace(segs)[0] = 0
           /\ \A k \in 1 .. Len(segs) :
                 SequenceSpace(segs)[k] =
                    SequenceSpace(segs)[k - 1] + length_in_sequence_space(segs[k])
<1> DEFINE n == Len(segs)
<1>1. PICK f : IsTotal(f, segs, n) /\ f \in [0 .. n -> Nat]
  BY TotalExists
<1>2. SequenceSpace(segs) = CHOOSE g : IsTotal(g, segs, n)
  BY DEF SequenceSpace, IsTotal
<1>3. IsTotal(SequenceSpace(segs), segs, n)
  BY <1>1, <1>2
<1> DEFINE g == SequenceSpace(segs)
<1> HIDE DEF g
<1>4. g = [k \in 0 .. n |->
             IF k = 0 THEN 0 ELSE g[k - 1] + length_in_sequence_space(segs[k])]
  BY <1>3 DEF IsTotal, g
<1>5. g[0] = 0 /\ \A k \in 1 .. n : g[k] = g[k - 1] + length_in_sequence_space(segs[k])
  BY <1>4
<1>6. \A k \in 0 .. n : g[k] \in Nat
  <2> DEFINE T == {k \in 0 .. n : g[k] \in Nat}
  <2>1. 0 \in T
    BY <1>5
  <2>2. \A k \in 1 .. n : k - 1 \in T => k \in T
    BY <1>5
  <2>3. 0 .. n \subseteq T
    <3> HIDE DEF T
    <3> QED BY <2>1, <2>2, RangeInduction
  <2> QED BY <2>3
<1>7. g \in [0 .. n -> Nat]
  BY <1>4, <1>6
<1> QED BY <1>5, <1>7 DEF g

\* A list whose segments all have a length.
Measured(segs) ==
    Len(segs) \in Nat /\ \A k \in 1 .. Len(segs) : length_in_sequence_space(segs[k]) \in Nat

\* The totals do not decrease.
LEMMA TotalMonotone ==
    ASSUME NEW segs, Measured(segs), NEW m \in 0 .. Len(segs), NEW k \in m .. Len(segs)
    PROVE  SequenceSpace(segs)[m] <= SequenceSpace(segs)[k]
<1> DEFINE n == Len(segs) - m
           f == SequenceSpace(segs)
           T == {j \in 0 .. n : f[m] <= f[m + j]}
<1>1. /\ f \in [0 .. Len(segs) -> Nat]
      /\ \A j \in 1 .. Len(segs) : f[j] = f[j - 1] + length_in_sequence_space(segs[j])
      /\ \A j \in 1 .. Len(segs) : length_in_sequence_space(segs[j]) \in Nat
      /\ Len(segs) \in Nat
  BY SequenceSpaceDef DEF Measured
<1> HIDE DEF f
<1>2. 0 \in T
  <2>1. m + 0 = m /\ 0 \in 0 .. n
    BY <1>1
  <2>2. f[m] \in Nat
    BY <1>1
  <2>3. f[m] <= f[m + 0]
    BY <2>1, <2>2
  <2> HIDE DEF n
  <2> QED BY <2>1, <2>3
<1>3. ASSUME NEW j \in 1 .. n, j - 1 \in T PROVE j \in T
  <2>1. m + j \in 1 .. Len(segs) /\ (m + j) - 1 = m + (j - 1) /\ m + (j - 1) \in 0 .. Len(segs)
    BY <1>1
  <2>2. f[m + j] = f[m + (j - 1)] + length_in_sequence_space(segs[m + j])
    BY <1>1, <2>1
  <2>3. f[m] \in Nat /\ f[m + (j - 1)] \in Nat
    <3>1. \A i \in 0 .. Len(segs) : f[i] \in Nat
      BY <1>1
    <3> QED BY <2>1, <3>1
  <2>4. length_in_sequence_space(segs[m + j]) \in Nat
    BY <1>1, <2>1
  <2>5. f[m] <= f[m + (j - 1)]
    BY <1>3
  <2> QED BY <2>2, <2>3, <2>4, <2>5
<1>4. 0 .. n \subseteq T
  <2>1. n \in Nat
    BY <1>1
  <2> HIDE DEF n, T
  <2> QED BY <1>2, <1>3, <2>1, RangeInduction
<1>5. k - m \in 0 .. n /\ m + (k - m) = k
  BY <1>1
<1> QED BY <1>4, <1>5 DEF f

\* The n segments of long after the first m are the first n of short.
InStep(long, short, m, n) ==
    /\ Measured(long) /\ Measured(short)
    /\ m \in Nat /\ n \in Nat
    /\ m + n <= Len(long) /\ n <= Len(short)
    /\ \A k \in 1 .. n : long[m + k] = short[k]

\* The totals of such lists grow in step.
LEMMA TotalsInStep ==
    ASSUME NEW long, NEW short, NEW m, NEW n, InStep(long, short, m, n)
    PROVE  \A k \in 0 .. n :
              SequenceSpace(long)[m + k] = SequenceSpace(long)[m] + SequenceSpace(short)[k]
<1> DEFINE f == SequenceSpace(long)
           g == SequenceSpace(short)
           T == {k \in 0 .. n : f[m + k] = f[m] + g[k]}
<1>0. /\ Measured(long) /\ Measured(short)
      /\ m \in Nat /\ n \in Nat
      /\ m + n <= Len(long) /\ n <= Len(short)
      /\ \A k \in 1 .. n : long[m + k] = short[k]
  BY DEF InStep
<1>1. /\ f \in [0 .. Len(long) -> Nat]
      /\ \A j \in 1 .. Len(long) : f[j] = f[j - 1] + length_in_sequence_space(long[j])
      /\ Len(long) \in Nat
  BY <1>0, SequenceSpaceDef DEF Measured
<1>2. /\ g \in [0 .. Len(short) -> Nat] /\ g[0] = 0
      /\ \A j \in 1 .. Len(short) : g[j] = g[j - 1] + length_in_sequence_space(short[j])
      /\ \A j \in 1 .. Len(short) : length_in_sequence_space(short[j]) \in Nat
      /\ Len(short) \in Nat
  BY <1>0, SequenceSpaceDef DEF Measured
<1> HIDE DEF f, g
<1>3. 0 \in T
  <2>1. m \in 0 .. Len(long) /\ m + 0 = m
    BY <1>0, <1>1
  <2>2. f[m] \in Nat
    <3>1. \A i \in 0 .. Len(long) : f[i] \in Nat
      BY <1>1
    <3> QED BY <2>1, <3>1
  <2>3. f[m] = f[m] + g[0]
    BY <1>2, <2>2
  <2> QED BY <1>0, <2>1, <2>3
<1>4. ASSUME NEW k \in 1 .. n, k - 1 \in T PROVE k \in T
  <2>1. /\ m + k \in 1 .. Len(long) /\ (m + k) - 1 = m + (k - 1)
        /\ m + (k - 1) \in 0 .. Len(long) /\ m \in 0 .. Len(long)
        /\ k \in 1 .. Len(short) /\ k - 1 \in 0 .. Len(short)
    BY <1>0, <1>1, <1>2
  <2>2. f[m + k] = f[m + (k - 1)] + length_in_sequence_space(short[k])
    BY <1>0, <1>1, <2>1
  <2>3. g[k] = g[k - 1] + length_in_sequence_space(short[k])
    BY <1>2, <2>1
  <2>4. /\ f[m] \in Nat /\ g[k - 1] \in Nat /\ length_in_sequence_space(short[k]) \in Nat
    BY <1>1, <1>2, <2>1
  <2> QED BY <1>4, <2>2, <2>3, <2>4
<1>5. 0 .. n \subseteq T
  <2> HIDE DEF T
  <2> QED BY <1>0, <1>3, <1>4, RangeInduction
<1> QED BY <1>5 DEF f, g

\* c is a followed by b.
Joined(c, a, b) ==
    /\ Measured(a) /\ Measured(b) /\ Measured(c)
    /\ Len(c) = Len(a) + Len(b)
    /\ \A k \in 1 .. Len(a) : c[k] = a[k]
    /\ \A k \in 1 .. Len(b) : c[Len(a) + k] = b[k]

\* The totals of a concatenation.
LEMMA TotalsOfConcat ==
    ASSUME NEW a, NEW b, NEW c, Joined(c, a, b)
    PROVE  /\ \A k \in 0 .. Len(a) : SequenceSpace(c)[k] = SequenceSpace(a)[k]
           /\ \A k \in 0 .. Len(b) :
                 SequenceSpace(c)[Len(a) + k] = SequenceSpace(a)[Len(a)] + SequenceSpace(b)[k]
<1> USE DEF Joined
<1>0. Len(a) \in Nat /\ Len(b) \in Nat
  BY DEF Measured
<1>1. PICK z \in Nat : z = 0
  OBVIOUS
<1>2. \A k \in 0 .. Len(a) : z + k = k
  BY <1>0, <1>1
<1>3. \A k \in 1 .. Len(a) : c[z + k] = a[k]
  <2>1. \A k \in 1 .. Len(a) : k \in 0 .. Len(a)
    BY <1>0
  <2> QED BY <1>2, <2>1, Zenon
<1>4. z + Len(a) <= Len(c) /\ Len(a) <= Len(a)
  BY <1>0, <1>1
<1>5. \A k \in 0 .. Len(a) : SequenceSpace(c)[z + k] = SequenceSpace(c)[z] + SequenceSpace(a)[k]
  <2>1. InStep(c, a, z, Len(a))
    BY <1>0, <1>3, <1>4 DEF InStep
  <2> QED BY <2>1, TotalsInStep
<1>6. SequenceSpace(c)[z] = 0 /\ \A k \in 0 .. Len(a) : SequenceSpace(a)[k] \in Nat
  BY <1>1, SequenceSpaceDef DEF Measured
<1>7. \A k \in 0 .. Len(a) : SequenceSpace(c)[k] = SequenceSpace(a)[k]
  BY <1>2, <1>5, <1>6
<1>8. Len(a) + Len(b) <= Len(c) /\ Len(b) <= Len(b)
  BY <1>0
<1>9. \A k \in 0 .. Len(b) :
         SequenceSpace(c)[Len(a) + k] = SequenceSpace(c)[Len(a)] + SequenceSpace(b)[k]
  <2>1. InStep(c, b, Len(a), Len(b))
    BY <1>0, <1>8 DEF InStep
  <2> QED BY <2>1, TotalsInStep
<1>10. SequenceSpace(c)[Len(a)] = SequenceSpace(a)[Len(a)]
  BY <1>0, <1>7
<1> QED BY <1>7, <1>9, <1>10

-----------------------------------------------------------------------------
(* The sender's invariant *)

\* The inductive invariant.
Good(s) == /\ WellTyped(s) /\ Tiled(s) /\ Bounded(s)
           /\ ContentOK(s) /\ Accounted(s) /\ TimerOK(s)

-----------------------------------------------------------------------------
(* Types *)

\* The fields of a well-typed sender have their types.
LEMMA SenderFields ==
    ASSUME NEW s, WellTyped(s)
    PROVE  /\ s.isn \in WrappingInt32
           /\ s.segments_out \in Seq(Segment)
           /\ s.stream \in ByteStreamType(Nat)
           /\ s.next_seqno \in Nat /\ s.next_ackno \in Nat
           /\ s.tracking \in Seq(Segment) /\ s.tracked_count \in Nat
           /\ s.timer \in Nat /\ s.retransmission_timeout \in Nat
           /\ s.window_size \in Window /\ s.remain_window_size \in Window
           /\ s.time_out_count \in Nat
BY DEF WellTyped, TCPSenderType

\* So do the fields of its outgoing stream, and its counters agree.
LEMMA StreamFields ==
    ASSUME NEW s, WellTyped(s)
    PROVE  /\ s.stream.buffer \in Seq(Nat) /\ s.stream.capacity \in Nat
           /\ s.stream.ended \in BOOLEAN /\ s.stream.written \in Nat
           /\ s.stream.error \in BOOLEAN
           /\ Len(s.stream.buffer) \in Nat
           /\ Len(s.stream.buffer) <= s.stream.capacity
           /\ Len(s.stream.buffer) <= s.stream.written
           /\ bytes_read(s.stream) \in Nat
<1>1. s.stream \in ByteStreamType(Nat)
  BY SenderFields
<1>2. /\ s.stream.buffer \in Seq(Nat) /\ s.stream.capacity \in Nat
      /\ s.stream.ended \in BOOLEAN /\ s.stream.written \in Nat
      /\ s.stream.error \in BOOLEAN
  BY <1>1 DEF ByteStreamType
<1>3. Len(s.stream.buffer) \in Nat
  BY <1>2, LenProperties
<1> QED BY <1>2, <1>3 DEF WellTyped, buffer_size, bytes_read, bytes_written

\* The tracked segments have a length, so their running totals are defined.
LEMMA TrackingMeasured ==
    ASSUME NEW segs \in Seq(Segment)
    PROVE  Measured(segs)
<1>1. Len(segs) \in Nat /\ \A k \in 1 .. Len(segs) : segs[k] \in Segment
  BY LenProperties, ElementOfSeq
<1>2. \A seg \in Segment : length_in_sequence_space(seg) \in Nat
  BY LengthIsNat
<1> QED BY <1>1, <1>2 DEF Measured

\* What the running totals of the tracked segments are.
LEMMA TrackedTotals ==
    ASSUME NEW s, WellTyped(s)
    PROVE  /\ Len(s.tracking) \in Nat
           /\ \A k \in 1 .. Len(s.tracking) : s.tracking[k] \in Segment
           /\ SequenceSpace(s.tracking) \in [0 .. Len(s.tracking) -> Nat]
           /\ SequenceSpace(s.tracking)[0] = 0
           /\ \A k \in 1 .. Len(s.tracking) :
                 SequenceSpace(s.tracking)[k] =
                    SequenceSpace(s.tracking)[k - 1]
                       + length_in_sequence_space(s.tracking[k])
           /\ \A k \in 0 .. Len(s.tracking) :
                 SequenceSpace(s.tracking)[k] <= SequenceSpace(s.tracking)[Len(s.tracking)]
<1>1. s.tracking \in Seq(Segment)
  BY SenderFields
<1>2. Measured(s.tracking)
  BY <1>1, TrackingMeasured
<1>3. Len(s.tracking) \in Nat /\ \A k \in 1 .. Len(s.tracking) : s.tracking[k] \in Segment
  BY <1>1, LenProperties, ElementOfSeq
<1>4. \A k \in 0 .. Len(s.tracking) :
         SequenceSpace(s.tracking)[k] <= SequenceSpace(s.tracking)[Len(s.tracking)]
  <2> TAKE k \in 0 .. Len(s.tracking)
  <2>1. Len(s.tracking) \in k .. Len(s.tracking)
    BY <1>3
  <2> QED BY <1>2, <2>1, TotalMonotone
<1> QED BY <1>2, <1>3, <1>4, SequenceSpaceDef DEF Measured

\* A tiled sender with nothing in flight tracks nothing, and one with
\* something in flight tracks something.
LEMMA FlightIsTracked ==
    ASSUME NEW s, WellTyped(s), Tiled(s)
    PROVE  /\ s.next_ackno <= s.next_seqno
           /\ s.next_seqno - s.next_ackno = SequenceSpace(s.tracking)[Len(s.tracking)]
           /\ s.tracked_count = 0 <=> s.tracking = << >>
           /\ s.tracked_count # 0 => 1 \in 1 .. Len(s.tracking)
<1> DEFINE n == Len(s.tracking)
           f == SequenceSpace(s.tracking)
<1>1. /\ n \in Nat /\ f \in [0 .. n -> Nat] /\ f[0] = 0
      /\ \A k \in 1 .. n : f[k] = f[k - 1] + length_in_sequence_space(s.tracking[k])
      /\ \A k \in 1 .. n : length_in_sequence_space(s.tracking[k]) \in Nat
  BY TrackedTotals, SenderFields, TrackingMeasured DEF Measured
<1>2. s.next_seqno \in Nat /\ s.next_ackno \in Nat /\ s.tracking \in Seq(Segment)
  BY SenderFields
<1>3. /\ s.next_ackno + f[n] = s.next_seqno
      /\ s.tracked_count = s.next_seqno - s.next_ackno
      /\ \A k \in 1 .. n : length_in_sequence_space(s.tracking[k]) > 0
  BY DEF Tiled, TrackedUpTo, bytes_in_flight
<1> HIDE DEF f
<1>4. f[n] \in Nat
  <2>1. n \in 0 .. n
    BY <1>1
  <2> QED BY <1>1, <2>1
<1>5. n # 0 => f[n] > 0
  <2> SUFFICES ASSUME n # 0 PROVE f[n] > 0
    OBVIOUS
  <2>1. n \in 1 .. n /\ n - 1 \in 0 .. n
    BY <1>1
  <2>2. f[n - 1] \in Nat
    BY <1>1, <2>1, SMTT(30)
  <2>3. f[n] = f[n - 1] + length_in_sequence_space(s.tracking[n])
    BY <1>1, <2>1
  <2>4. length_in_sequence_space(s.tracking[n]) > 0 /\ length_in_sequence_space(s.tracking[n]) \in Nat
    BY <1>1, <1>3, <2>1
  <2> QED BY <2>2, <2>3, <2>4
<1>6. n = 0 <=> s.tracking = << >>
  BY <1>2, EmptySeq
<1>7. s.tracked_count = f[n]
  BY <1>2, <1>3, <1>4
<1>8. f[n] = 0 <=> n = 0
  BY <1>1, <1>4, <1>5
<1> QED BY <1>1, <1>2, <1>3, <1>4, <1>6, <1>7, <1>8 DEF f

-----------------------------------------------------------------------------
(* fill_window(): how the loop cuts what it reads into segments *)

\* Multiples of a positive p are at least p apart.
LEMMA Multiples ==
    ASSUME NEW p \in Nat \ {0}, NEW a \in Nat, NEW b \in Nat, a < b
    PROVE  /\ a * p \in Nat /\ b * p \in Nat
           /\ a * p + p <= b * p
<1>1. PICK k \in Nat : b = a + 1 + k
  <2>1. b - a - 1 \in Nat /\ b = a + 1 + (b - a - 1)
    OBVIOUS
  <2> QED BY <2>1
<1>2. b * p = a * p + p + k * p
  BY <1>1
<1>3. a * p \in Nat /\ k * p \in Nat
  BY <1>1
<1> QED BY <1>1, <1>2, <1>3

\* What the division in Iterations() yields: the largest multiple of p up to a.
LEMMA Quotient ==
    ASSUME NEW p \in Nat \ {0}, NEW a \in Nat
    PROVE  /\ a \div p \in Nat
           /\ (a \div p) * p \in Nat
           /\ (a \div p) * p <= a
           /\ a < (a \div p) * p + p
OBVIOUS

\* While there is room, the loop reads a whole number of non-empty pieces that
\* end where it stops; or, with nothing to read, it runs once.
LEMMA Reading ==
    ASSUME NEW s, WellTyped(s), RightEdge(s) > s.next_seqno
    PROVE  /\ ReadTotal(s) \in Nat
           /\ ReadTotal(s) <= RightEdge(s) - s.next_seqno
           /\ ReadTotal(s) <= Len(s.stream.buffer)
           /\ Len(s.stream.buffer) # 0 => ReadTotal(s) # 0
<1> DEFINE room == RightEdge(s) - s.next_seqno
           size == Len(s.stream.buffer)
<1>1. room \in Nat \ {0} /\ size \in Nat /\ MaxPayload \in Nat \ {0}
  <2>1. s.next_seqno \in Nat /\ s.next_ackno \in Nat /\ s.remain_window_size \in Nat
    BY SenderFields, SenderAssumption DEF Window
  <2> QED BY <2>1, StreamFields, SenderAssumption DEF RightEdge
<1>2. ReadTotal(s) = IF s.remain_window_size = s.window_size THEN MinOf(room, size)
                     ELSE MinOf(MinOf(room, size), MaxPayload)
  BY DEF ReadTotal, buffer_size
<1> HIDE DEF room, size
<1>3. /\ ReadTotal(s) \in Nat /\ ReadTotal(s) <= room /\ ReadTotal(s) <= size
      /\ size # 0 => ReadTotal(s) # 0
  BY <1>1, <1>2 DEF MinOf
<1> QED BY <1>3 DEF room, size

\* The iterations of the fill_window() loop cut what is read into consecutive
\* pieces of at most MaxPayload bytes, none of them empty but a lone FIN's.
LEMMA Pieces ==
    ASSUME NEW s, ReadTotal(s) \in Nat
    PROVE  /\ Iterations(s) \in Nat \ {0}
           /\ ReadTotal(s) = 0 => Iterations(s) = 1
           /\ ReadUpTo(s, 0) = 0
           /\ ReadUpTo(s, Iterations(s)) = ReadTotal(s)
           /\ \A i \in 0 .. Iterations(s) :
                 /\ ReadUpTo(s, i) \in Nat
                 /\ ReadUpTo(s, i) <= ReadTotal(s)
           /\ \A i \in 1 .. Iterations(s) :
                 /\ ReadUpTo(s, i - 1) <= ReadUpTo(s, i)
                 /\ ReadTotal(s) # 0 => ReadUpTo(s, i - 1) < ReadUpTo(s, i)
<1> DEFINE R == ReadTotal(s)
           n == Iterations(s)
<1>0. R \in Nat /\ MaxPayload \in Nat \ {0}
  BY SenderAssumption
<1>1. \A i \in Nat : ReadUpTo(s, i) = IF i * MaxPayload <= R THEN i * MaxPayload ELSE R
  BY DEF ReadUpTo, MinOf
<1>2. n = IF R = 0 THEN 1 ELSE ((R - 1) \div MaxPayload) + 1
  BY DEF Iterations
<1> HIDE DEF R, n
<1>3. CASE R = 0
  <2>1. n = 1
    BY <1>2, <1>3
  <2>2. ReadUpTo(s, 0) = 0 /\ ReadUpTo(s, 1) = 0
    BY <1>0, <1>1, <1>3
  <2> QED BY <1>3, <2>1, <2>2 DEF R, n
<1>4. CASE R # 0
  <2> DEFINE d == (R - 1) \div MaxPayload
  <2>1. /\ d \in Nat /\ d * MaxPayload \in Nat
        /\ d * MaxPayload <= R - 1 /\ R - 1 < d * MaxPayload + MaxPayload
    <3>1. R - 1 \in Nat
      BY <1>0, <1>4
    <3> QED BY <1>0, <3>1, Quotient
  <2>2. n = d + 1
    BY <1>2, <1>4
  <2> HIDE DEF d
  <2>3. \A i \in 0 .. d : i * MaxPayload \in Nat /\ i * MaxPayload <= R - 1
    <3> TAKE i \in 0 .. d
    <3>1. CASE i = d
      BY <2>1, <3>1
    <3>2. CASE i < d
      <4>1. i * MaxPayload \in Nat /\ i * MaxPayload + MaxPayload <= d * MaxPayload
        BY <1>0, <2>1, <3>2, Multiples
      <4> QED BY <1>0, <2>1, <4>1
    <3> QED BY <2>1, <3>1, <3>2
  <2>4. n * MaxPayload \in Nat /\ n * MaxPayload >= R
    <3>1. n * MaxPayload = d * MaxPayload + MaxPayload
      BY <1>0, <2>1, <2>2
    <3> QED BY <1>0, <2>1, <3>1
  <2>5. /\ \A i \in 0 .. d : ReadUpTo(s, i) = i * MaxPayload
        /\ ReadUpTo(s, n) = R
    BY <1>0, <1>1, <2>1, <2>2, <2>3, <2>4
  <2>6. ReadUpTo(s, 0) = 0
    BY <1>0, <2>1, <2>5
  <2>7. \A i \in 0 .. n : ReadUpTo(s, i) \in Nat /\ ReadUpTo(s, i) <= R
    BY <1>0, <2>1, <2>2, <2>3, <2>5
  <2>8. \A i \in 1 .. n : ReadUpTo(s, i - 1) < ReadUpTo(s, i)
    <3> TAKE i \in 1 .. n
    <3>1. i - 1 \in 0 .. d /\ ReadUpTo(s, i - 1) = (i - 1) * MaxPayload
      BY <2>1, <2>2, <2>5
    <3>2. CASE i = n
      BY <1>0, <2>3, <2>5, <3>1, <3>2
    <3>3. CASE i # n
      <4>1. i \in 0 .. d /\ ReadUpTo(s, i) = i * MaxPayload
        BY <2>1, <2>2, <2>5, <3>3
      <4>2. (i - 1) * MaxPayload \in Nat /\ (i - 1) * MaxPayload + MaxPayload <= i * MaxPayload
        <5>1. i - 1 \in Nat /\ i \in Nat /\ i - 1 < i
          BY <2>1, <2>2
        <5> QED BY <1>0, <5>1, Multiples
      <4> QED BY <1>0, <2>3, <3>1, <4>1, <4>2
    <3> QED BY <3>2, <3>3
  <2>9. n \in Nat \ {0}
    BY <2>1, <2>2
  <2>10. \A i \in 1 .. n : ReadUpTo(s, i - 1) <= ReadUpTo(s, i)
    <3> TAKE i \in 1 .. n
    <3>1. i - 1 \in 0 .. n /\ i \in 0 .. n
      BY <2>9
    <3> QED BY <2>7, <2>8, <3>1
  <2> QED BY <1>4, <2>5, <2>6, <2>7, <2>8, <2>9, <2>10 DEF R, n
<1> QED BY <1>3, <1>4

-----------------------------------------------------------------------------
(* Segments are appended to the flight, and taken from its front *)

\* t is s with new segments tracked after the others, numbered from the send
\* edge on.
Appends(s, t, new) ==
    /\ t.isn = s.isn /\ t.next_ackno = s.next_ackno
    /\ t.tracking = s.tracking \o new
    /\ t.next_seqno = s.next_seqno + SequenceSpace(new)[Len(new)]
    /\ t.tracked_count = s.tracked_count + SequenceSpace(new)[Len(new)]
    /\ \A k \in 1 .. Len(new) :
          /\ new[k].seqno = wrap(s.next_seqno + SequenceSpace(new)[k - 1], s.isn)
          /\ new[k].ackno = wrap(s.next_seqno + SequenceSpace(new)[k], s.isn)
          /\ length_in_sequence_space(new[k]) > 0

\* Appending consecutive segments after the send edge, as fill_window() does,
\* keeps the range in flight tiled.
LEMMA FlightGrows ==
    ASSUME NEW s, NEW t, NEW new \in Seq(Segment), WellTyped(s), Tiled(s),
           Appends(s, t, new)
    PROVE  /\ Tiled(t)
           /\ Len(t.tracking) = Len(s.tracking) + Len(new)
           /\ \A k \in 1 .. Len(s.tracking) :
                 /\ t.tracking[k] = s.tracking[k]
                 /\ TrackedUpTo(t, k - 1) = TrackedUpTo(s, k - 1)
           /\ \A k \in 1 .. Len(new) :
                 /\ t.tracking[Len(s.tracking) + k] = new[k]
                 /\ TrackedUpTo(t, Len(s.tracking) + k - 1)
                       = s.next_seqno + SequenceSpace(new)[k - 1]
<1> DEFINE old == s.tracking
           long == t.tracking
           m == Len(old)
           n == Len(new)
           f == SequenceSpace(old)
           g == SequenceSpace(new)
           h == SequenceSpace(long)
<1>1. old \in Seq(Segment) /\ m \in Nat /\ n \in Nat /\ s.next_seqno \in Nat
      /\ s.next_ackno \in Nat /\ s.tracked_count \in Nat
  BY SenderFields, LenProperties
<1>2. /\ long \in Seq(Segment) /\ Len(long) = m + n
      /\ \A k \in 1 .. m : long[k] = old[k]
      /\ \A k \in 1 .. n : long[m + k] = new[k]
  <2>1. /\ long \in Seq(Segment) /\ Len(long) = m + n
        /\ \A i \in 1 .. m + n : long[i] = IF i <= m THEN old[i] ELSE new[i - m]
    BY <1>1, ConcatProperties DEF Appends
  <2> HIDE DEF long, old, m, n
  <2>2. ASSUME NEW k \in 1 .. m PROVE long[k] = old[k]
    BY <1>1, <2>1
  <2>3. ASSUME NEW k \in 1 .. n PROVE long[m + k] = new[k]
    <3>1. m + k \in 1 .. m + n /\ ~(m + k <= m) /\ (m + k) - m = k
      BY <1>1
    <3>2. long[m + k] = IF m + k <= m THEN old[m + k] ELSE new[(m + k) - m]
      BY <2>1, <3>1
    <3> QED BY <3>1, <3>2
  <2> QED BY <2>1, <2>2, <2>3
<1>3. Measured(old) /\ Measured(new) /\ Measured(long)
  BY <1>1, <1>2, TrackingMeasured
<1>4. /\ f \in [0 .. m -> Nat] /\ f[0] = 0
      /\ g \in [0 .. n -> Nat] /\ g[0] = 0
      /\ h \in [0 .. Len(long) -> Nat] /\ h[0] = 0
  BY <1>3, SequenceSpaceDef, SMTT(30) DEF Measured
<1>5. /\ \A k \in 0 .. m : h[k] = f[k]
      /\ \A k \in 0 .. n : h[m + k] = f[m] + g[k]
  <2>1. Joined(long, old, new)
    BY <1>2, <1>3 DEF Joined
  <2> HIDE DEF long, old
  <2> QED BY <2>1, TotalsOfConcat
<1>6. \A k \in 0 .. n : h[m + k] = h[m] + g[k]
  <2> HIDE DEF f, g, h, m, n
  <2>1. m \in 0 .. m
    BY <1>1
  <2> QED BY <1>5, <2>1
<1>7. /\ s.next_ackno + f[m] = s.next_seqno
      /\ s.tracked_count = s.next_seqno - s.next_ackno
      /\ \A k \in 1 .. m : /\ old[k].seqno = wrap(s.next_ackno + f[k - 1], s.isn)
                           /\ old[k].ackno = wrap(s.next_ackno + f[k], s.isn)
                           /\ length_in_sequence_space(old[k]) > 0
  BY DEF Tiled, TrackedUpTo, bytes_in_flight
<1> HIDE DEF f, g, h, m, n, old, long
<1>8. \A k \in 0 .. n : g[k] \in Nat /\ h[m + k] = f[m] + g[k]
                        /\ s.next_ackno + h[m + k] = s.next_seqno + g[k]
  <2> TAKE k \in 0 .. n
  <2>1. g[k] \in Nat /\ f[m] \in Nat /\ h[m] = f[m]
    <3>1. m \in 0 .. m
      BY <1>1
    <3> QED BY <1>4, <1>5, <3>1, Zenon
  <2> QED BY <1>1, <1>6, <1>7, <2>1
<1>9. \A k \in 1 .. m : k - 1 \in 0 .. m /\ k \in 0 .. m
  BY <1>1
<1>10. \A k \in 1 .. n : k - 1 \in 0 .. n /\ k \in 0 .. n
  BY <1>1
<1>11. /\ \A k \in 1 .. m : s.next_ackno + h[k - 1] = s.next_ackno + f[k - 1]
                            /\ s.next_ackno + h[k] = s.next_ackno + f[k]
       /\ \A k \in 1 .. n : s.next_ackno + h[m + k - 1] = s.next_seqno + g[k - 1]
                            /\ s.next_ackno + h[m + k] = s.next_seqno + g[k]
  <2>1. ASSUME NEW k \in 1 .. m PROVE h[k - 1] = f[k - 1] /\ h[k] = f[k]
    BY <1>5, <1>9
  <2>2. ASSUME NEW k \in 1 .. n
        PROVE  /\ s.next_ackno + h[m + k - 1] = s.next_seqno + g[k - 1]
               /\ s.next_ackno + h[m + k] = s.next_seqno + g[k]
    <3>1. s.next_ackno + h[m + (k - 1)] = s.next_seqno + g[k - 1]
      BY <1>8, <1>10
    <3>2. m + (k - 1) = m + k - 1
      BY <1>10
    <3>3. s.next_ackno + h[m + k] = s.next_seqno + g[k]
      BY <1>8, <1>10
    <3> QED BY <3>1, <3>2, <3>3
  <2> QED BY <2>1, <2>2
<1>12. /\ \A k \in 1 .. n : new[k].seqno = wrap(s.next_seqno + g[k - 1], s.isn)
       /\ \A k \in 1 .. n : new[k].ackno = wrap(s.next_seqno + g[k], s.isn)
       /\ \A k \in 1 .. n : length_in_sequence_space(new[k]) > 0
       /\ t.next_seqno = s.next_seqno + g[n]
       /\ t.tracked_count = s.tracked_count + g[n]
  BY DEF Appends, n, g
<1> DEFINE Fits(j) == /\ long[j].seqno = wrap(s.next_ackno + h[j - 1], s.isn)
                      /\ long[j].ackno = wrap(s.next_ackno + h[j], s.isn)
                      /\ length_in_sequence_space(long[j]) > 0
<1>13. \A j \in 1 .. Len(long) : Fits(j)
  <2>1. ASSUME NEW j \in 1 .. m PROVE Fits(j)
    BY <1>2, <1>7, <1>11
  <2>2. ASSUME NEW k \in 1 .. n PROVE Fits(m + k)
    <3>1. long[m + k] = new[k]
      BY <1>2
    <3>2. /\ wrap(s.next_ackno + h[m + k - 1], s.isn) = wrap(s.next_seqno + g[k - 1], s.isn)
          /\ wrap(s.next_ackno + h[m + k], s.isn) = wrap(s.next_seqno + g[k], s.isn)
      BY <1>11, Zenon
    <3>3. (m + k) - 1 = m + (k - 1)
      BY <1>1
    <3> QED BY <1>12, <3>1, <3>2, <3>3, Zenon
  <2>3. ASSUME NEW j \in 1 .. Len(long)
        PROVE  j \in 1 .. m \/ \E k \in 1 .. n : j = m + k
    <3>1. j \in 1 .. m \/ (j - m \in 1 .. n /\ j = m + (j - m))
      BY <1>1, <1>2
    <3> QED BY <3>1
  <2> HIDE DEF Fits
  <2> QED BY <2>1, <2>2, <2>3
<1>14. s.next_ackno + h[Len(long)] = t.next_seqno /\ t.tracked_count = t.next_seqno - s.next_ackno
  <2>1. n \in 0 .. n
    BY <1>1
  <2>2. g[n] \in Nat /\ s.next_ackno + h[m + n] = s.next_seqno + g[n]
    BY <1>8, <2>1
  <2> QED BY <1>1, <1>2, <1>7, <1>12, <2>2, SMTT(30)
<1>15. Tiled(t)
  <2>1. t.next_ackno = s.next_ackno /\ t.isn = s.isn
    BY DEF Appends
  <2> QED BY <1>13, <1>14, <2>1 DEF Tiled, TrackedUpTo, bytes_in_flight, h, long
<1>16. /\ \A k \in 1 .. m : TrackedUpTo(t, k - 1) = TrackedUpTo(s, k - 1)
       /\ \A k \in 1 .. n : TrackedUpTo(t, m + k - 1) = s.next_seqno + g[k - 1]
  <2>1. t.next_ackno = s.next_ackno
    BY DEF Appends
  <2> QED BY <1>11, <2>1 DEF TrackedUpTo, h, long, f, old
<1> QED BY <1>2, <1>15, <1>16 DEF m, n, g, long, old

\* t is s with the first m segments no longer tracked and the acknowledged
\* edge at their end.
Drops(s, t, m) ==
    /\ m \in 0 .. Len(s.tracking)
    /\ t.isn = s.isn /\ t.next_seqno = s.next_seqno
    /\ t.tracking = SubSeq(s.tracking, m + 1, Len(s.tracking))
    /\ t.next_ackno = TrackedUpTo(s, m)
    /\ t.tracked_count = SequenceSpace(t.tracking)[Len(t.tracking)]

\* Erasing the oldest segments up to an acknowledged one, as ack_received()
\* does, keeps the range in flight tiled.
LEMMA FlightShrinks ==
    ASSUME NEW s, NEW t, NEW m, WellTyped(s), Tiled(s), Drops(s, t, m)
    PROVE  /\ Tiled(t)
           /\ t.tracking \in Seq(Segment)
           /\ t.tracked_count \in Nat
           /\ Len(t.tracking) = Len(s.tracking) - m
           /\ \A k \in 1 .. Len(t.tracking) :
                 /\ m + k \in 1 .. Len(s.tracking)
                 /\ t.tracking[k] = s.tracking[m + k]
                 /\ TrackedUpTo(t, k - 1) = TrackedUpTo(s, (m + k) - 1)
<1> DEFINE old == s.tracking
           short == t.tracking
           n == Len(short)
           f == SequenceSpace(old)
           g == SequenceSpace(short)
<1>1. /\ m \in 0 .. Len(old) /\ Len(old) \in Nat /\ m \in Nat
      /\ old \in Seq(Segment)
      /\ s.next_ackno \in Nat /\ s.next_seqno \in Nat /\ s.isn \in WrappingInt32
      /\ t.isn = s.isn /\ t.next_seqno = s.next_seqno
      /\ t.next_ackno = s.next_ackno + f[m]
      /\ t.tracked_count = g[n]
  BY SenderFields, LenProperties DEF Drops, TrackedUpTo
<1>2. /\ short \in Seq(Segment) /\ n = Len(old) - m /\ n \in Nat
      /\ \A k \in 1 .. n : short[k] = old[m + k]
  <2>1. short = SubSeq(old, m + 1, Len(old))
    BY DEF Drops
  <2>2. \A i \in m + 1 .. Len(old) : old[i] \in Segment
    BY <1>1, ElementOfSeq
  <2> HIDE DEF old, short, n
  <2>3. /\ short \in Seq(Segment)
        /\ Len(short) = IF m + 1 <= Len(old) THEN Len(old) - (m + 1) + 1 ELSE 0
        /\ \A i \in 1 .. Len(old) - (m + 1) + 1 : short[i] = old[(m + 1) + i - 1]
    BY <1>1, <2>1, <2>2, SubSeqProperties
  <2>4. n = Len(old) - m
    BY <1>1, <2>3 DEF n
  <2>5. ASSUME NEW k \in 1 .. n PROVE short[k] = old[m + k]
    <3>1. k \in 1 .. Len(old) - (m + 1) + 1 /\ (m + 1) + k - 1 = m + k
      BY <1>1, <2>4
    <3> QED BY <2>3, <3>1
  <2> QED BY <1>1, <2>3, <2>4, <2>5
<1>3. Measured(old) /\ Measured(short)
  BY <1>1, <1>2, TrackingMeasured
<1>4. f \in [0 .. Len(old) -> Nat] /\ g \in [0 .. n -> Nat] /\ g[0] = 0
  BY <1>3, SequenceSpaceDef DEF Measured
<1>5. \A k \in 0 .. n : f[m + k] = f[m] + g[k]
  <2> HIDE DEF old, short
  <2>1. InStep(old, short, m, n)
    BY <1>1, <1>2, <1>3 DEF InStep
  <2> QED BY <2>1, TotalsInStep
<1>6. /\ s.next_ackno + f[Len(old)] = s.next_seqno
      /\ \A k \in 1 .. Len(old) : /\ old[k].seqno = wrap(s.next_ackno + f[k - 1], s.isn)
                                  /\ old[k].ackno = wrap(s.next_ackno + f[k], s.isn)
                                  /\ length_in_sequence_space(old[k]) > 0
  BY DEF Tiled, TrackedUpTo
<1> HIDE DEF f, g, n, old, short
<1>7. ASSUME NEW k \in 0 .. n
      PROVE  g[k] \in Nat /\ f[m] \in Nat /\ t.next_ackno + g[k] = s.next_ackno + f[m + k]
  <2>1. g[k] \in Nat /\ f[m] \in Nat
    BY <1>1, <1>4
  <2> QED BY <1>1, <1>5, <2>1
<1>8. ASSUME NEW k \in 1 .. n
      PROVE  /\ m + k \in 1 .. Len(old) /\ k \in 0 .. n /\ k - 1 \in 0 .. n
             /\ (m + k) - 1 = m + (k - 1)
  BY <1>1, <1>2
<1>9. ASSUME NEW k \in 1 .. n
      PROVE  t.next_ackno + g[k - 1] = s.next_ackno + f[(m + k) - 1]
  <2>1. t.next_ackno + g[k - 1] = s.next_ackno + f[m + (k - 1)]
    BY <1>7, <1>8
  <2> QED BY <1>8, <2>1
<1>10. ASSUME NEW k \in 1 .. n
       PROVE  /\ short[k].seqno = wrap(t.next_ackno + g[k - 1], s.isn)
              /\ short[k].ackno = wrap(t.next_ackno + g[k], s.isn)
              /\ length_in_sequence_space(short[k]) > 0
  <2>1. short[k] = old[m + k] /\ m + k \in 1 .. Len(old)
    BY <1>2, <1>8
  <2>2. /\ old[m + k].seqno = wrap(s.next_ackno + f[(m + k) - 1], s.isn)
        /\ old[m + k].ackno = wrap(s.next_ackno + f[m + k], s.isn)
        /\ length_in_sequence_space(old[m + k]) > 0
    BY <1>6, <2>1
  <2>3. t.next_ackno + g[k] = s.next_ackno + f[m + k]
    BY <1>7, <1>8
  <2> QED BY <1>9, <2>1, <2>2, <2>3, Zenon
<1>11. t.next_ackno + g[n] = s.next_seqno /\ g[n] \in Nat /\ t.next_ackno \in Nat
  <2>1. n \in 0 .. n /\ m + n = Len(old)
    BY <1>1, <1>2
  <2> QED BY <1>1, <1>6, <1>7, <2>1
<1>12. Tiled(t)
  <2>1. t.tracked_count = t.next_seqno - t.next_ackno /\ t.next_ackno + g[n] = t.next_seqno
    BY <1>1, <1>11
  <2> QED BY <1>1, <1>10, <2>1 DEF Tiled, TrackedUpTo, bytes_in_flight, g, n, short
<1> QED BY <1>1, <1>2, <1>8, <1>9, <1>11, <1>12 DEF TrackedUpTo, g, n, short, f, old

-----------------------------------------------------------------------------
(* fill_window() *)

\* _current_state() never falls through to Closed, so a SYN is sent only
\* before anything else; and data is sent only when the bytes read so far and
\* the SYN are all that was sent.
LEMMA SendStates ==
    ASSUME NEW s, WellTyped(s), Tiled(s), Accounted(s)
    PROVE  /\ current_state(s) = "Closed" => s.next_seqno = 0
           /\ current_state(s) # "Closed" => s.next_seqno # 0
           /\ current_state(s) # "Closed" /\ CanSend(s)
                 => s.next_seqno = bytes_read(s.stream) + 1
<1>1. /\ s.next_seqno \in Nat /\ s.next_ackno \in Nat
      /\ s.stream.written \in Nat /\ s.stream.buffer \in Seq(Nat)
      /\ Len(s.stream.buffer) \in Nat /\ s.stream.ended \in BOOLEAN
      /\ bytes_read(s.stream) = s.stream.written - Len(s.stream.buffer)
  BY SenderFields, StreamFields DEF bytes_read, buffer_size
<1>2. s.tracked_count = s.next_seqno - s.next_ackno
  BY DEF Tiled, bytes_in_flight
<1>3. s.stream.buffer = << >> <=> Len(s.stream.buffer) = 0
  BY <1>1, EmptySeq
<1>4. s.next_seqno # 0 => current_state(s) # "Closed"
  <2>1. \/ s.next_seqno = 0
        \/ s.next_seqno = bytes_read(s.stream) + 1
        \/ s.next_seqno = bytes_read(s.stream) + 2 /\ eof(s.stream)
    BY DEF Accounted
  <2>2. eof(s.stream) => bytes_read(s.stream) = s.stream.written
    BY <1>1, <1>3 DEF eof, buffer_empty
  <2>3. s.tracked_count \in Int /\ s.tracked_count <= s.next_seqno /\ s.tracked_count >= 0
    BY <1>1, <1>2, SenderFields
  <2>4. eof(s.stream) \in BOOLEAN
    BY <1>1 DEF eof, buffer_empty
  <2>5. SUFFICES ASSUME s.next_seqno # 0, s.next_seqno # s.tracked_count, eof(s.stream)
                 PROVE  current_state(s) # "Closed"
    BY <1>1, <2>3, <2>4 DEF current_state, bytes_in_flight
  <2>6. s.next_seqno = s.stream.written + 1 \/ s.next_seqno = s.stream.written + 2
    BY <2>1, <2>2, <2>5
  <2> QED BY <1>1, <2>3, <2>5, <2>6 DEF current_state, bytes_in_flight, bytes_written
<1>5. s.next_seqno = 0 => current_state(s) = "Closed"
  BY DEF current_state
<1>6. s.next_seqno # 0 /\ CanSend(s) => s.next_seqno = bytes_read(s.stream) + 1
  <2> SUFFICES ASSUME s.next_seqno # 0, CanSend(s), s.next_seqno # bytes_read(s.stream) + 1
               PROVE  FALSE
    OBVIOUS
  <2>1. s.next_seqno = bytes_read(s.stream) + 2 /\ eof(s.stream)
    BY DEF Accounted
  <2>2. s.stream.buffer = << >> /\ s.next_seqno = s.stream.written + 2
    BY <1>1, <1>3, <2>1 DEF eof, buffer_empty
  <2>3. current_state(s) = "SynAckedEof"
    BY <2>2 DEF CanSend, buffer_empty
  <2>4. current_state(s) = "SynAckedEof" => s.next_seqno < s.stream.written + 2
    BY DEF current_state, bytes_written
  <2> QED BY <1>1, <2>2, <2>3, <2>4
<1> QED BY <1>4, <1>5, <1>6

\* The SYN segment.
SynOf(s) == [EmptySegment EXCEPT !.seqno = s.isn, !.syn = TRUE,
                                 !.ackno = wrap(s.next_seqno + 1, s.isn)]

\* The SYN segment fill_window() sends: its fields and its length of one.
LEMMA SynSegment ==
    ASSUME NEW s, WellTyped(s)
    PROVE  /\ SynOf(s) \in Segment
           /\ SynOf(s).seqno = s.isn /\ SynOf(s).ackno = wrap(s.next_seqno + 1, s.isn)
           /\ SynOf(s).syn /\ ~SynOf(s).fin /\ SynOf(s).payload = << >>
           /\ length_in_sequence_space(SynOf(s)) = 1
<1>1. s.isn \in WrappingInt32 /\ wrap(s.next_seqno + 1, s.isn) \in WrappingInt32
  BY SenderFields, WrapType
<1>2. << >> \in Seq(Nat) /\ Len(<< >>) = 0
  BY EmptySeq
<1>3. 0 \in WrappingInt32 /\ 0 \in Window
  BY TwoTo32Assumption, SenderAssumption DEF WrappingInt32, Window
<1>4. EmptySegment \in Segment
  BY <1>2, <1>3 DEF EmptySegment, Segment, SegmentType
<1>5. SynOf(s) \in Segment
  BY <1>1, <1>4, Zenon DEF SynOf, Segment, SegmentType
<1>6. /\ SynOf(s).seqno = s.isn /\ SynOf(s).ackno = wrap(s.next_seqno + 1, s.isn)
      /\ SynOf(s).syn = TRUE /\ SynOf(s).fin = FALSE /\ SynOf(s).payload = << >>
  BY DEF SynOf, EmptySegment
<1>7. length_in_sequence_space(SynOf(s)) = 1
  BY <1>2, <1>6 DEF length_in_sequence_space
<1> QED BY <1>5, <1>6, <1>7

\* The running totals of a list of one segment.
LEMMA SingleTotals ==
    ASSUME NEW seg \in Segment
    PROVE  /\ << seg >> \in Seq(Segment) /\ Len(<< seg >>) = 1 /\ << seg >>[1] = seg
           /\ SequenceSpace(<< seg >>)[0] = 0
           /\ SequenceSpace(<< seg >>)[1] = length_in_sequence_space(seg)
<1> DEFINE one == << seg >>
<1>1. one \in Seq(Segment) /\ Len(one) = 1 /\ one[1] = seg
  OBVIOUS
<1> HIDE DEF one
<1>2. Measured(one)
  BY <1>1, TrackingMeasured
<1>3. /\ SequenceSpace(one)[0] = 0
      /\ SequenceSpace(one)[1] = SequenceSpace(one)[1 - 1] + length_in_sequence_space(one[1])
      /\ length_in_sequence_space(one[1]) \in Nat
  BY <1>1, <1>2, SequenceSpaceDef DEF Measured
<1> QED BY <1>1, <1>3 DEF one

\* What fill_window() changes when it sends the SYN, field by field.
LEMMA SendSynFields ==
    ASSUME NEW s, WellTyped(s)
    PROVE  /\ SendSyn(s) \in TCPSenderType
           /\ SendSyn(s).isn = s.isn /\ SendSyn(s).stream = s.stream
           /\ SendSyn(s).next_seqno = s.next_seqno + 1
           /\ SendSyn(s).next_ackno = s.next_ackno
           /\ SendSyn(s).tracking = s.tracking \o << SynOf(s) >>
           /\ SendSyn(s).segments_out = s.segments_out \o << SynOf(s) >>
           /\ SendSyn(s).tracked_count = s.tracked_count + 1
           /\ SendSyn(s).timer = 0
           /\ SendSyn(s).retransmission_timeout = s.retransmission_timeout
           /\ SendSyn(s).time_out_count = s.time_out_count
<1>1. SynOf(s) \in Segment
  BY SynSegment
<1>2. /\ Append(s.tracking, SynOf(s)) \in Seq(Segment)
      /\ Append(s.segments_out, SynOf(s)) \in Seq(Segment)
      /\ Append(s.tracking, SynOf(s)) = s.tracking \o << SynOf(s) >>
      /\ Append(s.segments_out, SynOf(s)) = s.segments_out \o << SynOf(s) >>
  BY <1>1, SenderFields, AppendProperties, AppendIsConcat
<1>3. SendSyn(s) = [s EXCEPT !.next_seqno = @ + 1,
                             !.segments_out = Append(@, SynOf(s)),
                             !.tracking = Append(@, SynOf(s)),
                             !.tracked_count = @ + 1, !.timer = 0]
  BY DEF SendSyn, SynOf
<1> HIDE DEF SynOf
<1>4. s \in TCPSenderType
  BY DEF WellTyped
<1>5. SendSyn(s) \in TCPSenderType
  <2> DEFINE out == Append(s.segments_out, SynOf(s))
             tracked == Append(s.tracking, SynOf(s))
             seqno == s.next_seqno + 1
             count == s.tracked_count + 1
  <2>1. out \in Seq(Segment) /\ tracked \in Seq(Segment) /\ seqno \in Nat /\ count \in Nat
        /\ 0 \in Nat
    BY <1>2, SenderFields
  <2>2. SendSyn(s) = [s EXCEPT !.next_seqno = seqno, !.segments_out = out,
                               !.tracking = tracked, !.tracked_count = count, !.timer = 0]
    BY <1>3
  <2> HIDE DEF out, tracked, seqno, count
  <2> QED BY <1>4, <2>1, <2>2, Zenon DEF TCPSenderType
<1>6. /\ SendSyn(s).isn = s.isn /\ SendSyn(s).stream = s.stream
      /\ SendSyn(s).next_ackno = s.next_ackno
      /\ SendSyn(s).retransmission_timeout = s.retransmission_timeout
      /\ SendSyn(s).time_out_count = s.time_out_count
  BY <1>3, <1>4 DEF TCPSenderType
<1>7. /\ SendSyn(s).next_seqno = s.next_seqno + 1
      /\ SendSyn(s).tracked_count = s.tracked_count + 1
      /\ SendSyn(s).timer = 0
      /\ SendSyn(s).tracking = Append(s.tracking, SynOf(s))
      /\ SendSyn(s).segments_out = Append(s.segments_out, SynOf(s))
  BY <1>3, <1>4 DEF TCPSenderType
<1> QED BY <1>2, <1>5, <1>6, <1>7

\* Sending the SYN preserves the invariant.
LEMMA SendSynGood ==
    ASSUME NEW s, Good(s), current_state(s) = "Closed"
    PROVE  Good(SendSyn(s))
<1> DEFINE t == SendSyn(s)
           syn == SynOf(s)
<1>1. WellTyped(s) /\ Tiled(s) /\ Accounted(s) /\ ContentOK(s) /\ TimerOK(s)
  BY DEF Good
<1>2. s.next_seqno = 0 /\ s.next_ackno = 0 /\ s.tracked_count = 0 /\ s.tracking = << >>
  <2>1. s.next_seqno = 0 /\ s.next_ackno \in Nat /\ s.next_ackno <= s.next_seqno
    BY <1>1, SendStates, SenderFields, FlightIsTracked
  <2>2. s.tracked_count = 0
    BY <1>1, <2>1 DEF Tiled, bytes_in_flight
  <2> QED BY <1>1, <2>1, <2>2, FlightIsTracked
<1>3. /\ t \in TCPSenderType /\ t.isn = s.isn /\ t.stream = s.stream
      /\ t.next_seqno = 1 /\ t.next_ackno = 0 /\ t.tracking = s.tracking \o << syn >>
      /\ t.tracked_count = 1 /\ t.timer = 0
      /\ t.retransmission_timeout = s.retransmission_timeout
      /\ t.time_out_count = s.time_out_count
  <2>1. s.next_seqno + 1 = 1 /\ s.tracked_count + 1 = 1
    BY <1>2
  <2> QED BY <1>1, <1>2, <2>1, SendSynFields, Zenon
<1>4. /\ syn \in Segment /\ syn.seqno = s.isn /\ syn.ackno = wrap(1, s.isn)
      /\ syn.syn /\ ~syn.fin /\ syn.payload = << >> /\ length_in_sequence_space(syn) = 1
  BY <1>1, <1>2, SynSegment
<1> HIDE DEF t, syn
<1>5. WellTyped(t)
  BY <1>1, <1>3 DEF WellTyped
<1>6. /\ Tiled(t) /\ Len(t.tracking) = 1
      /\ t.tracking[1] = syn /\ TrackedUpTo(t, 0) = 0
  <2> DEFINE new == << syn >>
  <2>1. /\ new \in Seq(Segment) /\ Len(new) = 1 /\ new[1] = syn
        /\ SequenceSpace(new)[0] = 0 /\ SequenceSpace(new)[1] = 1
    BY <1>4, SingleTotals
  <2>2. wrap(0, s.isn) = s.isn
    <3>1. s.isn \in WrappingInt32 /\ s.isn \in Nat
      BY <1>1, SenderFields DEF WrappingInt32
    <3>2. s.isn = TwoTo32 * 0 + s.isn
      BY <3>1, TwoTo32Assumption
    <3>3. s.isn % TwoTo32 = s.isn
      BY <3>1, <3>2, DivModUnique
    <3> QED BY <3>1, <3>3 DEF wrap
  <2>3. t.tracking = s.tracking \o new
    BY <1>3
  <2> HIDE DEF new
  <2>4. Appends(s, t, new)
    BY <1>2, <1>3, <1>4, <2>1, <2>2, <2>3 DEF Appends
  <2>5. Len(s.tracking) = 0
    BY <1>2
  <2>6. Tiled(t) /\ Len(t.tracking) = 0 + 1 /\ t.tracking[0 + 1] = new[1]
    BY <1>1, <2>1, <2>4, <2>5, FlightGrows
  <2>7. TrackedUpTo(t, 0) = 0
    <3>1. SequenceSpace(t.tracking)[0] = 0
      BY <1>5, TrackedTotals
    <3> QED BY <1>3, <3>1 DEF TrackedUpTo
  <2> QED BY <2>1, <2>6, <2>7
<1>7. Bounded(t)
  BY <1>3, SenderAssumption DEF Bounded
<1>8. Accounted(t)
  <2>1. bytes_read(s.stream) = 0
    BY <1>1, <1>2, StreamFields DEF Accounted
  <2> QED BY <1>3, <2>1 DEF Accounted
<1>9. ContentOK(t)
  <2>1. Len(syn.payload) = 0 /\ 0 + 0 <= bytes_read(t.stream) + 1
    BY <1>1, <1>3, <1>4, StreamFields
  <2>2. Carries(t, syn, 0)
    BY <1>4, <2>1 DEF Carries
  <2>3. \A k \in 1 .. Len(t.tracking) : Carries(t, t.tracking[k], TrackedUpTo(t, k - 1))
    BY <1>6, <2>2
  <2> QED BY <1>1, <1>3, <2>3 DEF ContentOK
<1>10. TimerOK(t)
  <2>1. s.timer \in Nat /\ s.retransmission_timeout \in Nat
    BY <1>1, SenderFields
  <2> QED BY <1>1, <1>3, <2>1 DEF TimerOK, bytes_in_flight, consecutive_retransmissions
<1> QED BY <1>5, <1>6, <1>7, <1>8, <1>9, <1>10 DEF Good, t

\* What the i-th iteration sends.
LEMMA NthSegmentFields ==
    ASSUME NEW s, WellTyped(s), RightEdge(s) > s.next_seqno, NEW i \in 1 .. Iterations(s)
    PROVE  /\ NthSegment(s, i) \in Segment
           /\ NthSegment(s, i).seqno = wrap(s.next_seqno + ReadUpTo(s, i - 1), s.isn)
           /\ NthSegment(s, i).ackno =
                 wrap(s.next_seqno + ReadUpTo(s, i) + (IF SetsFin(s, i) THEN 1 ELSE 0), s.isn)
           /\ NthSegment(s, i).syn = FALSE
           /\ NthSegment(s, i).fin = SetsFin(s, i)
           /\ Len(NthSegment(s, i).payload) = ReadUpTo(s, i) - ReadUpTo(s, i - 1)
           /\ \A j \in 1 .. ReadUpTo(s, i) - ReadUpTo(s, i - 1) :
                 NthSegment(s, i).payload[j] = s.stream.buffer[ReadUpTo(s, i - 1) + j]
           /\ length_in_sequence_space(NthSegment(s, i)) =
                 ReadUpTo(s, i) - ReadUpTo(s, i - 1) + (IF SetsFin(s, i) THEN 1 ELSE 0)
<1> DEFINE lo == ReadUpTo(s, i - 1)
           hi == ReadUpTo(s, i)
           bit == IF SetsFin(s, i) THEN 1 ELSE 0
           piece == SubSeq(s.stream.buffer, lo + 1, hi)
           start == wrap(s.next_seqno + lo, s.isn)
           end == wrap(s.next_seqno + hi + bit, s.isn)
           fin == SetsFin(s, i)
           seg == NthSegment(s, i)
<1>1. /\ lo \in Nat /\ hi \in Nat /\ lo <= hi /\ hi <= Len(s.stream.buffer)
      /\ s.stream.buffer \in Seq(Nat) /\ Len(s.stream.buffer) \in Nat
  <2>1. ReadTotal(s) \in Nat /\ ReadTotal(s) <= Len(s.stream.buffer)
    BY Reading
  <2>2. i - 1 \in 0 .. Iterations(s) /\ i \in 0 .. Iterations(s)
    BY <2>1, Pieces
  <2> QED BY <2>1, <2>2, Pieces, StreamFields
<1>2. fin \in BOOLEAN /\ bit \in {0, 1}
  <2>1. s.stream.ended \in BOOLEAN
    BY StreamFields
  <2>2. fin \in BOOLEAN
    BY <2>1 DEF SetsFin
  <2> QED BY <2>2, Zenon
<1>3. start \in WrappingInt32 /\ end \in WrappingInt32
  <2> HIDE DEF lo, hi, bit
  <2>1. s.isn \in WrappingInt32 /\ s.next_seqno + lo \in Nat /\ s.next_seqno + hi + bit \in Nat
    BY <1>1, <1>2, SenderFields
  <2> QED BY <2>1, WrapType
<1>4. /\ piece \in Seq(Nat) /\ Len(piece) = hi - lo
      /\ \A j \in 1 .. hi - lo : piece[j] = s.stream.buffer[lo + j]
  <2> HIDE DEF lo, hi
  <2>1. \A j \in lo + 1 .. hi : s.stream.buffer[j] \in Nat
    BY <1>1, ElementOfSeq
  <2>2. /\ piece \in Seq(Nat) /\ Len(piece) = IF lo + 1 <= hi THEN hi - (lo + 1) + 1 ELSE 0
        /\ \A j \in 1 .. hi - (lo + 1) + 1 : piece[j] = s.stream.buffer[(lo + 1) + j - 1]
    BY <1>1, <2>1, SubSeqProperties
  <2>3. Len(piece) = hi - lo /\ hi - (lo + 1) + 1 = hi - lo
    BY <1>1, <2>2
  <2>4. ASSUME NEW j \in 1 .. hi - lo PROVE piece[j] = s.stream.buffer[lo + j]
    <3>1. (lo + 1) + j - 1 = lo + j
      BY <1>1
    <3> QED BY <2>2, <2>3, <3>1, Zenon
  <2> QED BY <2>2, <2>3, <2>4
<1>5. 0 \in WrappingInt32 /\ 0 \in Window
  BY TwoTo32Assumption, SenderAssumption DEF WrappingInt32, Window
<1>6. seg = [EmptySegment EXCEPT !.payload = piece, !.seqno = start, !.fin = fin,
                                 !.ack = fin, !.ackno = end]
  BY DEF NthSegment
<1> HIDE DEF lo, hi, bit, piece, start, end, fin, seg
<1>7. /\ seg.seqno = start /\ seg.ackno = end /\ seg.syn = FALSE /\ seg.fin = fin
      /\ seg.payload = piece
  BY <1>6 DEF EmptySegment
<1>8. seg \in Segment
  <2>1. EmptySegment \in Segment
    BY <1>5, EmptySeq DEF EmptySegment, Segment, SegmentType
  <2> QED BY <1>2, <1>3, <1>4, <1>6, <2>1, Zenon DEF Segment, SegmentType
<1>9. length_in_sequence_space(seg) = hi - lo + bit
  <2>1. length_in_sequence_space(seg) = Len(piece) + 0 + (IF fin THEN 1 ELSE 0)
    BY <1>7, Zenon DEF length_in_sequence_space
  <2>2. bit = IF fin THEN 1 ELSE 0
    BY DEF bit, fin
  <2> QED BY <1>1, <1>2, <1>4, <2>1, <2>2
<1> QED BY <1>4, <1>7, <1>8, <1>9 DEF lo, hi, bit, piece, start, end, fin, seg

\* How many sequence numbers the first i new segments occupy.
LEMMA NewTotals ==
    ASSUME NEW s, WellTyped(s), RightEdge(s) > s.next_seqno
    PROVE  /\ NewSegments(s) \in Seq(Segment) /\ Len(NewSegments(s)) = Iterations(s)
           /\ \A i \in 1 .. Iterations(s) : NewSegments(s)[i] = NthSegment(s, i)
           /\ \A k \in 0 .. Iterations(s) :
                 SequenceSpace(NewSegments(s))[k] =
                    ReadUpTo(s, k) + (IF SetsFin(s, k) THEN 1 ELSE 0)
<1> DEFINE n == Iterations(s)
           new == NewSegments(s)
           f == SequenceSpace(new)
           U(k) == ReadUpTo(s, k)
           bit(k) == IF SetsFin(s, k) THEN 1 ELSE 0
           T == {k \in 0 .. n : f[k] = U(k) + bit(k)}
<1>1. /\ n \in Nat \ {0} /\ U(0) = 0
      /\ \A k \in 0 .. n : U(k) \in Nat
      /\ \A k \in 1 .. n : U(k - 1) <= U(k)
  BY Reading, Pieces
<1>2. \A k \in 1 .. n : NthSegment(s, k) \in Segment
  BY NthSegmentFields, Zenon
<1>3. new \in Seq(Segment) /\ Len(new) = n /\ \A k \in 1 .. n : new[k] = NthSegment(s, k)
  <2>1. new = [k \in 1 .. n |-> NthSegment(s, k)]
    BY DEF NewSegments
  <2> HIDE DEF n, new
  <2> QED BY <1>1, <1>2, <2>1
<1>4. \A k \in 0 .. n : bit(k) \in {0, 1} /\ (k # n => bit(k) = 0)
  <2> TAKE k \in 0 .. n
  <2>1. SetsFin(s, k) => k = n
    BY DEF SetsFin
  <2> QED BY <2>1, Zenon
<1>5. \A k \in 1 .. n : length_in_sequence_space(new[k]) = U(k) - U(k - 1) + bit(k)
  BY <1>3, NthSegmentFields, Zenon
<1>6. /\ f[0] = 0
      /\ \A k \in 1 .. n : f[k] = f[k - 1] + length_in_sequence_space(new[k])
  <2>1. Measured(new)
    BY <1>3, TrackingMeasured
  <2> HIDE DEF n, new
  <2> QED BY <1>3, <2>1, SequenceSpaceDef, SMTT(30) DEF Measured
<1> HIDE DEF n, new, f, U, bit
<1>7. 0 \in T
  BY <1>1, <1>4, <1>6
<1>8. ASSUME NEW k \in 1 .. n, k - 1 \in T PROVE k \in T
  <2>1. k - 1 \in 0 .. n /\ k \in 0 .. n /\ k - 1 # n
    BY <1>1
  <2>2. U(k) \in Nat /\ U(k - 1) \in Nat /\ bit(k) \in {0, 1} /\ bit(k - 1) = 0
    BY <1>1, <1>4, <2>1
  <2>3. f[k - 1] = U(k - 1) + bit(k - 1)
    BY <1>8
  <2>4. f[k] = f[k - 1] + (U(k) - U(k - 1) + bit(k))
    BY <1>5, <1>6
  <2>5. f[k] = U(k) + bit(k)
    BY <2>2, <2>3, <2>4
  <2> QED BY <2>1, <2>5
<1>9. 0 .. n \subseteq T
  <2>1. n \in Nat
    BY <1>1
  <2> HIDE DEF T
  <2> QED BY <1>7, <1>8, <2>1, RangeInduction
<1> QED BY <1>3, <1>9 DEF n, new, f, U, bit

\* Every iteration sends something: bytes, or the FIN.
LEMMA NothingEmpty ==
    ASSUME NEW s, WellTyped(s), Tiled(s), CanSend(s), NEW i \in 1 .. Iterations(s)
    PROVE  length_in_sequence_space(NthSegment(s, i)) > 0
<1> DEFINE bit == IF SetsFin(s, i) THEN 1 ELSE 0
<1>0. RightEdge(s) > s.next_seqno
  BY DEF CanSend
<1>1. /\ length_in_sequence_space(NthSegment(s, i)) = ReadUpTo(s, i) - ReadUpTo(s, i - 1) + bit
      /\ bit \in {0, 1}
  <2>1. bit \in {0, 1}
    BY Zenon
  <2> QED BY <1>0, <2>1, NthSegmentFields, Zenon
<1>2. /\ ReadTotal(s) \in Nat /\ Iterations(s) \in Nat
      /\ ReadUpTo(s, i - 1) \in Nat /\ ReadUpTo(s, i) \in Nat
      /\ ReadTotal(s) # 0 => ReadUpTo(s, i - 1) < ReadUpTo(s, i)
  <2>1. ReadTotal(s) \in Nat
    BY <1>0, Reading
  <2>2. i - 1 \in 0 .. Iterations(s) /\ i \in 0 .. Iterations(s) /\ Iterations(s) \in Nat
    BY <2>1, Pieces
  <2> QED BY <2>1, <2>2, Pieces
<1>3. ASSUME ReadTotal(s) = 0 PROVE SetsFin(s, i)
  <2>1. /\ Iterations(s) = 1 /\ ReadUpTo(s, 0) = 0 /\ ReadUpTo(s, 1) = 0
    BY <1>3, Pieces
  <2>2. i = 1
    BY <2>1
  <2>3. Len(s.stream.buffer) = 0
    BY <1>0, <1>3, Reading
  <2>4. current_state(s) = "SynAckedEof"
    <3>1. s.stream.buffer = << >>
      BY <2>3, StreamFields, EmptySeq
    <3> QED BY <3>1 DEF CanSend, buffer_empty
  <2>5. s.stream.ended
    BY <2>4 DEF current_state, eof
  <2>6. s.remain_window_size > 0
    <3>1. /\ s.next_seqno \in Nat /\ s.next_ackno \in Nat /\ s.remain_window_size \in Nat
          /\ s.next_ackno <= s.next_seqno
      BY SenderFields, FlightIsTracked, SenderAssumption DEF Window
    <3> QED BY <1>0, <3>1 DEF RightEdge
  <2>7. ReadUpTo(s, i) - ReadUpTo(s, i - 1) = 0
    BY <2>1, <2>2
  <2> QED BY <1>3, <2>1, <2>2, <2>3, <2>5, <2>6, <2>7 DEF SetsFin, buffer_size
<1>4. CASE ReadTotal(s) = 0
  <2>1. bit = 1
    BY <1>3, <1>4
  <2>2. ReadUpTo(s, i) - ReadUpTo(s, i - 1) = 0
    BY <1>2, <1>4, <1>0, Pieces
  <2> QED BY <1>1, <2>1, <2>2
<1>5. CASE ReadTotal(s) # 0
  <2> HIDE DEF bit
  <2> QED BY <1>1, <1>2, <1>5
<1> QED BY <1>4, <1>5

\* What the loop of fill_window() changes, field by field.
LEMMA SendDataFields ==
    ASSUME NEW s, WellTyped(s), RightEdge(s) > s.next_seqno
    PROVE  LET t == SendData(s)
               R == ReadTotal(s)
               sent == R + FinLength(s)
           IN  /\ t \in TCPSenderType /\ t.isn = s.isn /\ t.next_ackno = s.next_ackno
               /\ t.next_seqno = s.next_seqno + sent
               /\ t.tracked_count = s.tracked_count + sent
               /\ t.tracking = s.tracking \o NewSegments(s)
               /\ t.segments_out = s.segments_out \o NewSegments(s)
               /\ t.timer = s.timer /\ t.retransmission_timeout = s.retransmission_timeout
               /\ t.time_out_count = s.time_out_count
               /\ t.stream.buffer \in Seq(Nat)
               /\ Len(t.stream.buffer) = Len(s.stream.buffer) - R
               /\ \A i \in 1 .. Len(s.stream.buffer) - R :
                     t.stream.buffer[i] = s.stream.buffer[R + i]
               /\ t.stream.written = s.stream.written /\ t.stream.ended = s.stream.ended
               /\ t.stream.capacity = s.stream.capacity
<1> DEFINE R == ReadTotal(s)
           size == Len(s.stream.buffer)
           rest == SubSeq(s.stream.buffer, R + 1, Len(s.stream.buffer))
           bs == stream_read(s.stream, R)
           bit == FinLength(s)
           sent == R + bit
           out == s.segments_out \o NewSegments(s)
           tracked == s.tracking \o NewSegments(s)
           seqno == s.next_seqno + sent
           count == s.tracked_count + sent
           remain == IF s.remain_window_size = s.window_size THEN s.remain_window_size ELSE 0
           t == SendData(s)
<1>1. R \in Nat /\ R <= size /\ size \in Nat /\ s.stream.buffer \in Seq(Nat)
  BY Reading, StreamFields
<1>2. bit \in {0, 1}
  BY Zenon DEF FinLength
<1>3. /\ rest \in Seq(Nat) /\ Len(rest) = size - R
      /\ \A i \in 1 .. size - R : rest[i] = s.stream.buffer[R + i]
  <2> HIDE DEF R
  <2>1. \A j \in R + 1 .. size : s.stream.buffer[j] \in Nat
    BY <1>1, ElementOfSeq
  <2>2. /\ rest \in Seq(Nat) /\ Len(rest) = IF R + 1 <= size THEN size - (R + 1) + 1 ELSE 0
        /\ \A j \in 1 .. size - (R + 1) + 1 : rest[j] = s.stream.buffer[(R + 1) + j - 1]
    BY <1>1, <2>1, SubSeqProperties
  <2>3. Len(rest) = size - R /\ size - (R + 1) + 1 = size - R
    BY <1>1, <2>2
  <2>4. ASSUME NEW j \in 1 .. size - R PROVE rest[j] = s.stream.buffer[R + j]
    <3>1. (R + 1) + j - 1 = R + j
      BY <1>1
    <3> QED BY <2>2, <2>3, <3>1, Zenon
  <2> QED BY <2>2, <2>3, <2>4, SMTT(30)
<1>4. bs = [s.stream EXCEPT !.buffer = rest]
  <2>1. ~(R > size)
    BY <1>1
  <2> QED BY <2>1 DEF stream_read, pop_output, buffer_size
<1>5. /\ out \in Seq(Segment) /\ tracked \in Seq(Segment)
      /\ seqno \in Nat /\ count \in Nat /\ remain \in Window /\ 0 \in Nat
  <2>1. NewSegments(s) \in Seq(Segment)
    BY NewTotals
  <2>2. out \in Seq(Segment) /\ tracked \in Seq(Segment)
    BY <2>1, SenderFields, ConcatProperties
  <2>3. sent \in Nat
    BY <1>1, <1>2
  <2>4. remain \in Window
    BY SenderFields, SenderAssumption DEF Window
  <2> HIDE DEF sent
  <2> QED BY <2>2, <2>3, <2>4, SenderFields
<1>6. t = [s EXCEPT !.stream = bs, !.segments_out = out, !.tracking = tracked,
                    !.next_seqno = seqno, !.tracked_count = count,
                    !.remain_window_size = remain]
  BY DEF SendData
<1>7. s \in TCPSenderType
  BY DEF WellTyped
<1> HIDE DEF rest, bs, out, tracked, seqno, count, remain, t
<1>8. /\ bs.buffer = rest /\ bs.written = s.stream.written /\ bs.ended = s.stream.ended
      /\ bs.capacity = s.stream.capacity
      /\ bs \in ByteStreamType(Nat)
  <2>1. s.stream \in ByteStreamType(Nat)
    BY SenderFields
  <2> QED BY <1>3, <1>4, <2>1, Zenon DEF ByteStreamType
<1>9. t \in TCPSenderType
  BY <1>5, <1>6, <1>7, <1>8, Zenon DEF TCPSenderType
<1>10. /\ t.isn = s.isn /\ t.next_ackno = s.next_ackno /\ t.timer = s.timer
       /\ t.retransmission_timeout = s.retransmission_timeout
       /\ t.time_out_count = s.time_out_count
  BY <1>6, <1>7 DEF TCPSenderType
<1>11. /\ t.stream = bs /\ t.tracking = tracked /\ t.next_seqno = seqno
       /\ t.tracked_count = count /\ t.segments_out = out
  BY <1>6, <1>7 DEF TCPSenderType
<1> QED BY <1>3, <1>8, <1>9, <1>10, <1>11 DEF t, out, tracked, seqno, count

\* The loop of fill_window() preserves the invariant, moves the send edge only
\* forward, and sends no byte past the right edge of the window.
LEMMA SendDataGood ==
    ASSUME NEW s, Good(s), current_state(s) # "Closed", CanSend(s)
    PROVE  /\ Good(SendData(s))
           /\ SendData(s).next_seqno >= s.next_seqno
           /\ bytes_read(SendData(s).stream) + 1 <= RightEdge(s)
<1> DEFINE t == SendData(s)
           R == ReadTotal(s)
           bit == FinLength(s)
           new == NewSegments(s)
           n == Iterations(s)
           size == Len(s.stream.buffer)
           U(k) == ReadUpTo(s, k)
           read == bytes_read(s.stream)
<1>1. /\ WellTyped(s) /\ Tiled(s) /\ Accounted(s) /\ ContentOK(s) /\ TimerOK(s)
      /\ RightEdge(s) > s.next_seqno
  BY DEF Good, CanSend
<1>2. s.next_seqno = read + 1
  BY <1>1, SendStates
<1>3. /\ R \in Nat /\ R <= RightEdge(s) - s.next_seqno /\ R <= size
      /\ size \in Nat /\ read \in Nat /\ s.next_seqno \in Nat /\ s.next_ackno \in Nat
      /\ s.tracked_count \in Nat /\ s.remain_window_size \in Window
      /\ s.stream.written \in Nat /\ size <= s.stream.written /\ size <= s.stream.capacity
      /\ s.stream.capacity \in Nat
      /\ read = s.stream.written - size
  BY <1>1, Reading, StreamFields, SenderFields DEF bytes_read, buffer_size
<1>4. bit \in {0, 1} /\ (bit = 1 <=> SetsFin(s, n))
  <2>1. bit = IF SetsFin(s, n) THEN 1 ELSE 0
    BY DEF FinLength
  <2> HIDE DEF bit, n
  <2> QED BY <2>1
<1>5. /\ t \in TCPSenderType /\ t.isn = s.isn /\ t.next_ackno = s.next_ackno
      /\ t.next_seqno = s.next_seqno + (R + bit)
      /\ t.tracked_count = s.tracked_count + (R + bit)
      /\ t.timer = s.timer /\ t.retransmission_timeout = s.retransmission_timeout
      /\ t.time_out_count = s.time_out_count
      /\ t.stream.written = s.stream.written /\ t.stream.ended = s.stream.ended
      /\ t.stream.capacity = s.stream.capacity
      /\ Len(t.stream.buffer) = size - R
  BY <1>1, SendDataFields
<1>5a. /\ t.tracking = s.tracking \o new
       /\ t.stream.buffer \in Seq(Nat)
  BY <1>1, SendDataFields
<1>5b. \A i \in 1 .. size - R : t.stream.buffer[i] = s.stream.buffer[R + i]
  BY <1>1, SendDataFields
<1>6. /\ n \in Nat \ {0} /\ U(n) = R /\ U(0) = 0
      /\ \A k \in 0 .. n : U(k) \in Nat
  BY <1>1, Reading, Pieces
<1>7. /\ new \in Seq(Segment) /\ Len(new) = n
      /\ \A k \in 1 .. n : new[k] = NthSegment(s, k)
      /\ \A k \in 1 .. n : SequenceSpace(new)[k] = U(k) + (IF SetsFin(s, k) THEN 1 ELSE 0)
      /\ \A k \in 1 .. n : SequenceSpace(new)[k - 1] = U(k - 1)
      /\ SequenceSpace(new)[n] = R + bit
  <2>1. /\ new \in Seq(Segment) /\ Len(new) = n
        /\ \A k \in 1 .. n : new[k] = NthSegment(s, k)
        /\ \A k \in 0 .. n : SequenceSpace(new)[k] = U(k) + (IF SetsFin(s, k) THEN 1 ELSE 0)
    BY <1>1, NewTotals
  <2>2. \A k \in 0 .. n : k # n => ~SetsFin(s, k)
    BY DEF SetsFin
  <2>3. bit = IF SetsFin(s, n) THEN 1 ELSE 0
    BY DEF FinLength
  <2> HIDE DEF new, U, n, R, bit
  <2>4. n \in 0 .. n /\ \A k \in 1 .. n : k \in 0 .. n /\ k - 1 \in 0 .. n /\ k - 1 # n
    BY <1>6
  <2>5. ASSUME NEW k \in 1 .. n PROVE SequenceSpace(new)[k - 1] = U(k - 1)
    <3>1. /\ SequenceSpace(new)[k - 1] = U(k - 1) + (IF SetsFin(s, k - 1) THEN 1 ELSE 0)
          /\ ~SetsFin(s, k - 1) /\ U(k - 1) \in Nat
      BY <1>6, <2>1, <2>2, <2>4, Zenon
    <3> QED BY <3>1
  <2>6. SequenceSpace(new)[n] = R + bit
    BY <1>6, <2>1, <2>3, <2>4
  <2> QED BY <2>1, <2>4, <2>5, <2>6
<1>8. \A k \in 1 .. n :
         /\ new[k].seqno = wrap(s.next_seqno + U(k - 1), s.isn)
         /\ new[k].ackno = wrap(s.next_seqno + U(k) + (IF SetsFin(s, k) THEN 1 ELSE 0), s.isn)
         /\ new[k].syn = FALSE /\ new[k].fin = SetsFin(s, k)
         /\ Len(new[k].payload) = U(k) - U(k - 1)
         /\ \A j \in 1 .. U(k) - U(k - 1) :
               new[k].payload[j] = s.stream.buffer[U(k - 1) + j]
         /\ length_in_sequence_space(new[k]) > 0
  <2> TAKE k \in 1 .. n
  <2>1. new[k] = NthSegment(s, k)
    BY <1>7
  <2>2. length_in_sequence_space(NthSegment(s, k)) > 0
    BY <1>1, NothingEmpty
  <2> DEFINE seg == NthSegment(s, k)
  <2>3. /\ seg.seqno = wrap(s.next_seqno + U(k - 1), s.isn)
        /\ seg.ackno = wrap(s.next_seqno + U(k) + (IF SetsFin(s, k) THEN 1 ELSE 0), s.isn)
        /\ seg.syn = FALSE /\ seg.fin = SetsFin(s, k)
        /\ Len(seg.payload) = U(k) - U(k - 1)
        /\ \A j \in 1 .. U(k) - U(k - 1) :
              seg.payload[j] = s.stream.buffer[U(k - 1) + j]
    <3> HIDE DEF new
    <3> QED BY <1>1, NthSegmentFields, Zenon
  <2> HIDE DEF new, n, U, seg
  <2>4. new[k] = seg /\ length_in_sequence_space(seg) > 0
    BY <2>1, <2>2 DEF seg
  <2> QED BY <2>3, <2>4, Zenon
<1>10. SetsFin(s, n) => eof(t.stream) /\ R = size
  <2> SUFFICES ASSUME SetsFin(s, n) PROVE eof(t.stream) /\ R = size
    OBVIOUS
  <2>1. s.stream.ended /\ R = size
    BY DEF SetsFin, buffer_size
  <2>2. Len(t.stream.buffer) = 0
    BY <1>3, <1>5, <2>1
  <2>3. t.stream.buffer = << >>
    BY <1>5a, <2>2, EmptySeq
  <2> QED BY <1>5, <2>1, <2>3 DEF eof, buffer_empty
<1>11. eof(s.stream) => eof(t.stream)
  <2> SUFFICES ASSUME eof(s.stream) PROVE eof(t.stream)
    OBVIOUS
  <2>1. size = 0
    BY DEF eof, buffer_empty
  <2>2. Len(t.stream.buffer) = 0
    BY <1>3, <1>5, <2>1
  <2>3. t.stream.buffer = << >>
    BY <1>5a, <2>2, EmptySeq
  <2> QED BY <1>5, <2>3 DEF eof, buffer_empty
<1> HIDE DEF t, R, bit, new, n, U, size, read
<1>9. /\ bytes_read(t.stream) = read + R /\ bytes_read(t.stream) \in Nat
      /\ buffer_size(t.stream) = size - R
  <2>1. bytes_read(t.stream) = s.stream.written - (size - R)
    BY <1>5 DEF bytes_read, buffer_size
  <2> QED BY <1>3, <1>5, <2>1, SMTT(30) DEF buffer_size
<1>12. WellTyped(t)
  <2>1. size - R <= s.stream.capacity /\ size - R <= s.stream.written
    BY <1>3
  <2> QED BY <1>5, <1>9, <2>1 DEF WellTyped, bytes_written
<1>13. Appends(s, t, new)
  <2>1. \A k \in 1 .. n : s.next_seqno + U(k) + (IF SetsFin(s, k) THEN 1 ELSE 0)
                             = s.next_seqno + SequenceSpace(new)[k]
    <3> TAKE k \in 1 .. n
    <3> DEFINE b == IF SetsFin(s, k) THEN 1 ELSE 0
    <3>1. b \in {0, 1}
      BY Zenon
    <3>2. SequenceSpace(new)[k] = U(k) + b
      BY <1>7
    <3>3. U(k) \in Nat
      BY <1>6
    <3> HIDE DEF b
    <3>4. s.next_seqno + U(k) + b = s.next_seqno + SequenceSpace(new)[k]
      BY <1>3, <3>1, <3>2, <3>3
    <3> QED BY <3>4 DEF b
  <2>2. \A k \in 1 .. n :
           /\ new[k].seqno = wrap(s.next_seqno + SequenceSpace(new)[k - 1], s.isn)
           /\ new[k].ackno = wrap(s.next_seqno + SequenceSpace(new)[k], s.isn)
           /\ length_in_sequence_space(new[k]) > 0
    <3> TAKE k \in 1 .. n
    <3>1. /\ new[k].seqno = wrap(s.next_seqno + U(k - 1), s.isn)
          /\ new[k].ackno = wrap(s.next_seqno + U(k) + (IF SetsFin(s, k) THEN 1 ELSE 0), s.isn)
          /\ length_in_sequence_space(new[k]) > 0
      BY <1>8, Zenon
    <3>2. SequenceSpace(new)[k - 1] = U(k - 1)
      BY <1>7, Zenon
    <3> QED BY <2>1, <3>1, <3>2, Zenon
  <2> QED BY <1>5, <1>5a, <1>7, <2>2 DEF Appends
<1>14. /\ Tiled(t) /\ Len(t.tracking) = Len(s.tracking) + n
       /\ \A k \in 1 .. Len(s.tracking) :
             /\ t.tracking[k] = s.tracking[k]
             /\ TrackedUpTo(t, k - 1) = TrackedUpTo(s, k - 1)
       /\ \A k \in 1 .. n :
             /\ t.tracking[Len(s.tracking) + k] = new[k]
             /\ TrackedUpTo(t, Len(s.tracking) + k - 1) = s.next_seqno + U(k - 1)
  <2>1. /\ Tiled(t) /\ Len(t.tracking) = Len(s.tracking) + Len(new)
        /\ \A k \in 1 .. Len(s.tracking) :
              /\ t.tracking[k] = s.tracking[k]
              /\ TrackedUpTo(t, k - 1) = TrackedUpTo(s, k - 1)
        /\ \A k \in 1 .. Len(new) :
              /\ t.tracking[Len(s.tracking) + k] = new[k]
              /\ TrackedUpTo(t, Len(s.tracking) + k - 1)
                    = s.next_seqno + SequenceSpace(new)[k - 1]
    <3>1. new \in Seq(Segment) /\ WellTyped(s) /\ Tiled(s)
      BY <1>1, <1>7
    <3> QED BY <1>13, <3>1, FlightGrows, ZenonT(60)
  <2> QED BY <1>7, <2>1, Zenon
<1>15. Bounded(t) /\ t.next_seqno >= s.next_seqno /\ bytes_read(t.stream) + 1 <= RightEdge(s)
  <2>1. s.remain_window_size \in Nat /\ s.remain_window_size <= TwoTo16 - 1 /\ TwoTo16 \in Nat
    BY <1>3, SenderAssumption DEF Window
  <2>2. /\ s.next_seqno + R <= s.next_ackno + s.remain_window_size
        /\ t.next_seqno = s.next_seqno + (R + bit) /\ t.next_ackno = s.next_ackno
        /\ RightEdge(s) = s.next_ackno + s.remain_window_size
    BY <1>3, <1>5, <2>1, SMTT(30) DEF RightEdge
  <2>3. t.next_seqno - t.next_ackno <= TwoTo16
    BY <1>3, <1>4, <2>1, <2>2
  <2>4. t.next_seqno >= s.next_seqno
    BY <1>3, <1>4, <2>2
  <2>5. bytes_read(t.stream) + 1 <= RightEdge(s)
    BY <1>2, <1>3, <1>9, <2>1, <2>2
  <2> QED BY <2>3, <2>4, <2>5 DEF Bounded
<1>16. Accounted(t)
  <2>1. CASE bit = 0
    <3>1. t.next_seqno = bytes_read(t.stream) + 1
      BY <1>2, <1>3, <1>5, <1>9, <2>1
    <3> QED BY <3>1 DEF Accounted
  <2>2. CASE bit = 1
    <3>1. t.next_seqno = bytes_read(t.stream) + 2
      BY <1>2, <1>3, <1>5, <1>9, <2>2
    <3> QED BY <1>4, <1>10, <2>2, <3>1 DEF Accounted
  <2> QED BY <1>4, <2>1, <2>2
<1>17. TimerOK(t)
  <2>1. s.tracked_count = 0 => s.timer = 0
    BY <1>1 DEF TimerOK, bytes_in_flight
  <2>2. t.tracked_count = 0 => s.tracked_count = 0
    BY <1>3, <1>4, <1>5
  <2> QED BY <1>1, <1>5, <2>1, <2>2 DEF TimerOK, bytes_in_flight, consecutive_retransmissions
<1>18. ASSUME NEW k \in 1 .. n PROVE Carries(t, new[k], s.next_seqno + U(k - 1))
  <2>1. k \in 0 .. n /\ k - 1 \in 0 .. n
    BY <1>6
  <2>2. U(k) \in Nat /\ U(k - 1) \in Nat
    BY <1>6, <2>1
  <2>3. /\ new[k].syn = FALSE /\ new[k].fin = SetsFin(s, k)
        /\ Len(new[k].payload) = U(k) - U(k - 1)
        /\ \A j \in 1 .. U(k) - U(k - 1) : new[k].payload[j] = s.stream.buffer[U(k - 1) + j]
    BY <1>8
  <2>4. s.next_seqno + U(k - 1) # 0
    BY <1>2, <1>3, <2>2
  <2>4a. U(k) <= R
    BY <1>1, <2>1, Reading, Pieces DEF U, R, n
  <2>5. U(k) <= size
    BY <1>3, <2>2, <2>4a
  <2>6. ASSUME NEW j \in 1 .. Len(new[k].payload)
        PROVE  new[k].payload[j] = s.next_seqno + U(k - 1) + j - 2
    <3>0. size \in Nat /\ U(k) \in Nat /\ U(k - 1) \in Nat /\ U(k) <= size
      BY <1>3, <2>2, <2>5
    <3>0a. j \in 1 .. U(k) - U(k - 1)
      BY <2>3
    <3>1. U(k - 1) + j \in 1 .. size
      BY <3>0, <3>0a
    <3>2. s.stream.buffer[U(k - 1) + j] = read + (U(k - 1) + j) - 1
      BY <1>1, <3>1 DEF ContentOK, buffer_size, size, read
    <3>3. new[k].payload[j] = s.stream.buffer[U(k - 1) + j]
      BY <2>3
    <3>4. j \in Int /\ read \in Int /\ U(k - 1) \in Int /\ s.next_seqno = read + 1
      BY <1>2, <1>3, <2>2, <2>3
    <3>5. s.next_seqno + U(k - 1) + j - 2 = read + (U(k - 1) + j) - 1
      BY <3>4
    <3> QED BY <3>2, <3>3, <3>5
  <2>7. ASSUME SetsFin(s, k)
        PROVE  /\ eof(t.stream)
               /\ s.next_seqno + U(k - 1) + Len(new[k].payload) = bytes_written(t.stream) + 1
    <3>1. k = n
      BY <2>7 DEF SetsFin, n
    <3>2. eof(t.stream) /\ R = size
      BY <1>10, <2>7, <3>1
    <3>3. U(k) = size
      BY <1>6, <3>1, <3>2
    <3>4. Len(new[k].payload) = size - U(k - 1)
      BY <2>3, <3>3
    <3>5. bytes_written(t.stream) = read + size
      BY <1>3, <1>5 DEF bytes_written
    <3>6. read \in Nat /\ size \in Nat /\ U(k - 1) \in Nat
      BY <1>3, <2>2
    <3>7. read + 1 + U(k - 1) + (size - U(k - 1)) = (read + size) + 1
      BY <3>6
    <3>8. s.next_seqno + U(k - 1) + Len(new[k].payload) = bytes_written(t.stream) + 1
      BY <1>2, <3>4, <3>5, <3>7, Zenon
    <3> QED BY <3>2, <3>8
  <2>8. s.next_seqno + U(k - 1) + Len(new[k].payload) <= bytes_read(t.stream) + 1
    <3> DEFINE a == U(k - 1)
               b == U(k)
    <3>1. a \in Nat /\ b \in Nat /\ b <= R /\ read \in Nat /\ R \in Nat
      BY <1>3, <2>2, <2>4a
    <3>2. s.next_seqno = read + 1 /\ Len(new[k].payload) = b - a
          /\ bytes_read(t.stream) = read + R
      BY <1>2, <1>9, <2>3
    <3> HIDE DEF a, b
    <3>3. read + 1 + a + (b - a) <= (read + R) + 1
      BY <3>1
    <3> QED BY <3>2, <3>3, Zenon DEF a
  <2> QED BY <2>3, <2>4, <2>6, <2>7, <2>8 DEF Carries
<1>19. ASSUME NEW k \in 1 .. Len(s.tracking)
       PROVE  Carries(t, s.tracking[k], TrackedUpTo(s, k - 1))
  <2>1. Carries(s, s.tracking[k], TrackedUpTo(s, k - 1))
    BY <1>1 DEF ContentOK
  <2>2. bytes_written(t.stream) = bytes_written(s.stream)
    BY <1>5 DEF bytes_written
  <2> DEFINE end == TrackedUpTo(s, k - 1) + Len(s.tracking[k].payload)
  <2>3. end \in Int
    <3>0. Len(s.tracking) \in Nat /\ s.tracking[k] \in Segment
          /\ SequenceSpace(s.tracking) \in [0 .. Len(s.tracking) -> Nat]
      BY <1>1, TrackedTotals, Zenon
    <3>1. s.tracking[k].payload \in Seq(Nat)
      <4> DEFINE seg == s.tracking[k]
      <4>1. seg \in Segment
        BY <3>0
      <4> HIDE DEF seg
      <4>2. seg.payload \in Seq(Nat)
        BY <4>1 DEF Segment, SegmentType
      <4> QED BY <4>2 DEF seg
    <3>2. Len(s.tracking[k].payload) \in Nat
      BY <3>1, LenProperties
    <3>3. k - 1 \in 0 .. Len(s.tracking)
      BY <3>0
    <3>4. SequenceSpace(s.tracking)[k - 1] \in Nat
      BY <3>0, <3>3
    <3> DEFINE x == SequenceSpace(s.tracking)[k - 1]
               l == Len(s.tracking[k].payload)
    <3>5. x \in Nat /\ l \in Nat /\ s.next_ackno \in Nat
      BY <1>3, <3>2, <3>4
    <3> HIDE DEF x, l
    <3>6. s.next_ackno + x + l \in Int
      BY <3>5
    <3> QED BY <3>6 DEF TrackedUpTo, x, l
  <2>4. end <= bytes_read(s.stream) + 1
    BY <2>1 DEF Carries
  <2>5. bytes_read(s.stream) = read
    BY DEF read
  <2> HIDE DEF end
  <2>6. end <= bytes_read(t.stream) + 1
    <3>1. read \in Nat /\ R \in Nat /\ end <= read + 1
      BY <1>3, <2>4, <2>5
    <3>2. end <= (read + R) + 1
      BY <2>3, <3>1
    <3> QED BY <1>9, <3>2
  <2> QED BY <1>11, <2>1, <2>2, <2>6 DEF Carries, end
<1>20. ContentOK(t)
  <2>0. Len(s.tracking) \in Nat
    BY <1>1, TrackedTotals
  <2>1. ASSUME NEW j \in 1 .. Len(t.tracking)
        PROVE  Carries(t, t.tracking[j], TrackedUpTo(t, j - 1))
    <3>1. CASE j \in 1 .. Len(s.tracking)
      BY <1>14, <1>19, <3>1
    <3>2. CASE j \notin 1 .. Len(s.tracking)
      <4>1. PICK k \in 1 .. n : j = Len(s.tracking) + k /\ j - 1 = Len(s.tracking) + (k - 1)
        <5>1. /\ j - Len(s.tracking) \in 1 .. n
              /\ j = Len(s.tracking) + (j - Len(s.tracking))
              /\ j - 1 = Len(s.tracking) + ((j - Len(s.tracking)) - 1)
          BY <1>6, <1>14, <2>0, <3>2
        <5> QED BY <5>1
      <4>2. t.tracking[j] = new[k] /\ TrackedUpTo(t, j - 1) = s.next_seqno + U(k - 1)
        BY <1>14, <4>1, Zenon
      <4> QED BY <1>18, <4>2
    <3> QED BY <3>1, <3>2
  <2>2. ASSUME NEW i \in 1 .. size - R
        PROVE  t.stream.buffer[i] = bytes_read(t.stream) + i - 1
    <3>1. R + i \in 1 .. size
      BY <1>3
    <3>2. s.stream.buffer[R + i] = read + (R + i) - 1
      BY <1>1, <3>1 DEF ContentOK, buffer_size, size, read
    <3> QED BY <1>3, <1>5b, <1>9, <3>2
  <2> QED BY <1>9, <2>1, <2>2 DEF ContentOK
<1> QED BY <1>12, <1>14, <1>15, <1>16, <1>17, <1>20 DEF Good, t

\* fill_window() preserves the invariant.
LEMMA FillWindowGood ==
    ASSUME NEW s, Good(s)
    PROVE  Good(fill_window(s))
<1>1. CASE current_state(s) = "Closed"
  BY <1>1, SendSynGood DEF fill_window
<1>2. CASE current_state(s) # "Closed" /\ current_state(s) # "SynSent" /\ CanSend(s)
  BY <1>2, SendDataGood DEF fill_window
<1>3. CASE current_state(s) # "Closed" /\ ~(current_state(s) # "SynSent" /\ CanSend(s))
  BY <1>3 DEF fill_window
<1> QED BY <1>1, <1>2, <1>3

\* What t has to send is what s had to send, or is tracked by t.
OutFrom(s, t) ==
    \A i \in 1 .. Len(t.segments_out) :
        \/ \E j \in 1 .. Len(s.segments_out) : t.segments_out[i] = s.segments_out[j]
        \/ \E j \in 1 .. Len(t.tracking) : t.segments_out[i] = t.tracking[j]

LEMMA ConcatFrom ==
    ASSUME NEW s, NEW t, NEW new \in Seq(Segment), WellTyped(s),
           t.segments_out = s.segments_out \o new, t.tracking = s.tracking \o new
    PROVE  OutFrom(s, t)
<1> DEFINE a == s.segments_out
           b == s.tracking
<1>1. /\ a \in Seq(Segment) /\ b \in Seq(Segment)
      /\ Len(a) \in Nat /\ Len(b) \in Nat /\ Len(new) \in Nat
  BY SenderFields, LenProperties
<1>2. /\ Len(t.segments_out) = Len(a) + Len(new) /\ Len(t.tracking) = Len(b) + Len(new)
      /\ \A i \in 1 .. Len(a) + Len(new) :
            t.segments_out[i] = IF i <= Len(a) THEN a[i] ELSE new[i - Len(a)]
      /\ \A i \in 1 .. Len(b) + Len(new) :
            t.tracking[i] = IF i <= Len(b) THEN b[i] ELSE new[i - Len(b)]
  BY <1>1, ConcatProperties
<1> HIDE DEF a, b
<1>3. ASSUME NEW i \in 1 .. Len(t.segments_out)
      PROVE  \/ \E j \in 1 .. Len(a) : t.segments_out[i] = a[j]
             \/ \E j \in 1 .. Len(t.tracking) : t.segments_out[i] = t.tracking[j]
  <2>1. CASE i <= Len(a)
    <3>1. i \in 1 .. Len(a) /\ i \in 1 .. Len(a) + Len(new)
      BY <1>1, <1>2, <2>1
    <3> QED BY <1>2, <2>1, <3>1
  <2>2. CASE ~(i <= Len(a))
    <3> DEFINE j == Len(b) + (i - Len(a))
    <3>1. /\ j \in 1 .. Len(t.tracking) /\ j \in 1 .. Len(b) + Len(new)
          /\ ~(j <= Len(b)) /\ j - Len(b) = i - Len(a) /\ i \in 1 .. Len(a) + Len(new)
      BY <1>1, <1>2, <2>2
    <3> HIDE DEF j
    <3>2. t.segments_out[i] = new[i - Len(a)] /\ t.tracking[j] = new[j - Len(b)]
      BY <1>2, <2>2, <3>1
    <3> QED BY <3>1, <3>2
  <2> QED BY <2>1, <2>2
<1> QED BY <1>3 DEF OutFrom, a

\* fill_window() takes bytes off its stream, into segments it tracks.
LEMMA FillWindowSends ==
    ASSUME NEW s, Good(s)
    PROVE  LET t == fill_window(s)
           IN  /\ t.isn = s.isn /\ OutFrom(s, t)
               /\ t.stream.written = s.stream.written /\ t.stream.ended = s.stream.ended
               /\ bytes_read(t.stream) >= bytes_read(s.stream)
<1> DEFINE t == fill_window(s)
<1>1. WellTyped(s) /\ bytes_read(s.stream) \in Nat
  BY StreamFields DEF Good
<1>2. CASE current_state(s) = "Closed"
  <2>1. t = SendSyn(s)
    BY <1>2 DEF fill_window
  <2>2. << SynOf(s) >> \in Seq(Segment)
    BY <1>1, SynSegment, SingleTotals
  <2>3. /\ t.isn = s.isn /\ t.stream = s.stream
        /\ t.tracking = s.tracking \o << SynOf(s) >>
        /\ t.segments_out = s.segments_out \o << SynOf(s) >>
    BY <1>1, <2>1, SendSynFields
  <2> HIDE DEF t
  <2>4. OutFrom(s, t)
    BY <1>1, <2>2, <2>3, ConcatFrom
  <2> QED BY <1>1, <2>3, <2>4 DEF t
<1>3. CASE current_state(s) # "Closed" /\ current_state(s) # "SynSent" /\ CanSend(s)
  <2>1. t = SendData(s) /\ RightEdge(s) > s.next_seqno
    BY <1>3 DEF fill_window, CanSend
  <2>2. NewSegments(s) \in Seq(Segment)
    BY <1>1, <2>1, NewTotals
  <2>3. /\ t.isn = s.isn
        /\ t.tracking = s.tracking \o NewSegments(s)
        /\ t.segments_out = s.segments_out \o NewSegments(s)
        /\ Len(t.stream.buffer) = Len(s.stream.buffer) - ReadTotal(s)
        /\ t.stream.written = s.stream.written /\ t.stream.ended = s.stream.ended
    BY <1>1, <2>1, SendDataFields
  <2> HIDE DEF t
  <2>4. OutFrom(s, t)
    BY <1>1, <2>2, <2>3, ConcatFrom
  <2>5. /\ ReadTotal(s) \in Nat /\ Len(s.stream.buffer) \in Nat /\ s.stream.written \in Nat
    BY <1>1, <2>1, Reading, StreamFields
  <2>6. bytes_read(t.stream) >= bytes_read(s.stream)
    BY <2>3, <2>5 DEF bytes_read, buffer_size
  <2> QED BY <2>3, <2>4, <2>6 DEF t
<1>4. CASE current_state(s) # "Closed" /\ ~(current_state(s) # "SynSent" /\ CanSend(s))
  <2>1. t = s
    BY <1>4 DEF fill_window
  <2> QED BY <1>1, <2>1 DEF OutFrom
<1> QED BY <1>2, <1>3, <1>4

-----------------------------------------------------------------------------
(* ack_received() *)

\* t has the flight and the stream of s.
Untouched(s, t) ==
    /\ t.isn = s.isn /\ t.stream = s.stream
    /\ t.next_seqno = s.next_seqno /\ t.next_ackno = s.next_ackno
    /\ t.tracking = s.tracking /\ t.tracked_count = s.tracked_count

\* A step that leaves stream, edges and tracked segments alone keeps every part
\* of the invariant that is about them.
LEMMA UntouchedGood ==
    ASSUME NEW s, NEW t, Good(s), Untouched(s, t), t \in TCPSenderType
    PROVE  WellTyped(t) /\ Tiled(t) /\ Bounded(t) /\ ContentOK(t) /\ Accounted(t)
<1>1. WellTyped(s) /\ Tiled(s) /\ Bounded(s) /\ ContentOK(s) /\ Accounted(s)
  BY DEF Good
<1>2. WellTyped(t)
  BY <1>1 DEF WellTyped, Untouched
<1>3. Tiled(t)
  BY <1>1 DEF Tiled, TrackedUpTo, bytes_in_flight, Untouched
<1>4. Bounded(t) /\ Accounted(t)
  BY <1>1 DEF Bounded, Accounted, Untouched
<1>5. ContentOK(t)
  <2>1. t.stream = s.stream /\ t.tracking = s.tracking /\ t.next_ackno = s.next_ackno
    BY DEF Untouched
  <2>2. \A seg, start : Carries(t, seg, start) <=> Carries(s, seg, start)
    BY <2>1, Zenon DEF Carries
  <2>3. \A k : TrackedUpTo(t, k) = TrackedUpTo(s, k)
    BY <2>1, Zenon DEF TrackedUpTo
  <2> QED BY <1>1, <2>1, <2>2, <2>3, Zenon DEF ContentOK
<1> QED BY <1>2, <1>3, <1>4, <1>5

\* The scan stops at a segment that ends at ackno, if there is one.
LEMMA ScanStops ==
    ASSUME NEW s, WellTyped(s), NEW ackno
    PROVE  /\ Acknowledged(s, ackno) \in 0 .. Len(s.tracking)
           /\ Acknowledged(s, ackno) # 0 => s.tracking[Acknowledged(s, ackno)].ackno = ackno
<1> DEFINE n == Len(s.tracking)
           I == {i \in 1 .. n : s.tracking[i].ackno = ackno}
<1>1. n \in Nat
  BY TrackedTotals
<1>2. Acknowledged(s, ackno)
        = IF I = {} THEN 0 ELSE CHOOSE m \in I : \A i \in I : m >= i
  <2>1. DOMAIN s.tracking = 1 .. n
    BY TrackedTotals
  <2> QED BY <2>1 DEF Acknowledged
<1> HIDE DEF n
<1>3. CASE I = {}
  BY <1>1, <1>2, <1>3 DEF n
<1>4. CASE I # {}
  <2> DEFINE J == {n - i : i \in I}
  <2>1. PICK x \in J : \A y \in J : x <= y
    <3>1. J \subseteq Nat /\ J # {}
      BY <1>1, <1>4
    <3> HIDE DEF J
    <3> QED BY <3>1, LeastNat, Zenon
  <2>2. PICK m \in I : x = n - m
    OBVIOUS
  <2>3. \A i \in I : m >= i
    <3> TAKE i \in I
    <3>1. n - m <= n - i
      BY <2>1, <2>2
    <3>2. m \in Int /\ i \in Int
      BY <1>1
    <3> HIDE DEF I
    <3> QED BY <1>1, <3>1, <3>2
  <2>4. (CHOOSE k \in I : \A i \in I : k >= i) \in I
    <3>1. \E k \in I : \A i \in I : k >= i
      BY <2>3
    <3> HIDE DEF I
    <3> QED BY <3>1
  <2>5. Acknowledged(s, ackno) \in I
    <3> HIDE DEF I
    <3> QED BY <1>2, <1>4, <2>4
  <2> QED BY <1>1, <2>5 DEF n
<1> QED BY <1>3, <1>4

\* What ack_received() changes, field by field.
LEMMA AckReceivedFields ==
    ASSUME NEW s, WellTyped(s), NEW ackno \in WrappingInt32, NEW win \in Window
    PROVE  LET t == ack_received(s, ackno, win)
               m == Acknowledged(s, ackno)
               rest == StillTracked(s, ackno)
               left == SequenceSpace(rest)[Len(rest)]
               abs == unwrap(ackno, s.isn, s.next_ackno)
           IN  /\ t \in TCPSenderType
               /\ t.isn = s.isn /\ t.stream = s.stream /\ t.next_seqno = s.next_seqno
               /\ t.tracking = rest /\ t.segments_out = s.segments_out
               /\ t.next_ackno = IF m # 0 /\ abs > s.next_ackno THEN abs ELSE s.next_ackno
               /\ t.time_out_count = IF m # 0 THEN 0 ELSE s.time_out_count
               /\ t.timer = IF m # 0 THEN 0 ELSE s.timer
               /\ t.retransmission_timeout =
                     IF m # 0 THEN RtTimeout ELSE s.retransmission_timeout
               /\ t.tracked_count = left
<1> DEFINE t == ack_received(s, ackno, win)
           m == Acknowledged(s, ackno)
           rest == StillTracked(s, ackno)
           left == SequenceSpace(rest)[Len(rest)]
           abs == unwrap(ackno, s.isn, s.next_ackno)
           edge == IF m # 0 /\ abs > s.next_ackno THEN abs ELSE s.next_ackno
           expiries == IF m # 0 THEN 0 ELSE s.time_out_count
           timer == IF m # 0 THEN 0 ELSE s.timer
           rto == IF m # 0 THEN RtTimeout ELSE s.retransmission_timeout
           window == IF AckInWindow(s, ackno) THEN win ELSE s.window_size
           acked == ApplyAck(s, ackno, win)
           stops == StopsEarly(s, ackno, left)
           remain == IF acked.window_size = 0 /\ left = 0 THEN 1 ELSE acked.window_size
<1>1. s \in TCPSenderType
  BY DEF WellTyped
<1>2. /\ s.next_ackno \in Nat /\ s.isn \in WrappingInt32 /\ s.time_out_count \in Nat
      /\ s.timer \in Nat /\ s.retransmission_timeout \in Nat /\ s.window_size \in Window
      /\ RtTimeout \in Nat
  BY SenderFields, SenderAssumption
<1>3. rest \in Seq(Segment)
  <2>1. m \in 0 .. Len(s.tracking)
    BY ScanStops
  <2>2. Len(s.tracking) \in Nat /\ \A k \in 1 .. Len(s.tracking) : s.tracking[k] \in Segment
    BY TrackedTotals
  <2> HIDE DEF m
  <2>3. \A k \in m + 1 .. Len(s.tracking) : s.tracking[k] \in Segment
    BY <2>1, <2>2
  <2>4. rest = SubSeq(s.tracking, m + 1, Len(s.tracking))
    BY DEF StillTracked, m
  <2> QED BY <2>1, <2>2, <2>3, <2>4, SubSeqProperties
<1>4. left \in Nat
  <2>1. Measured(rest)
    BY <1>3, TrackingMeasured
  <2> HIDE DEF rest
  <2>2. Len(rest) \in 0 .. Len(rest) /\ SequenceSpace(rest) \in [0 .. Len(rest) -> Nat]
    BY <2>1, SequenceSpaceDef DEF Measured
  <2> QED BY <2>2
<1>5. abs \in Nat
  BY <1>2, UnwrapClosest, Zenon
<1>6. edge \in Nat /\ expiries \in Nat /\ timer \in Nat /\ rto \in Nat /\ window \in Window
  <2> HIDE DEF abs
  <2> QED BY <1>2, <1>5
<1>7. acked = [s EXCEPT !.window_size = window, !.tracking = rest, !.next_ackno = edge,
                        !.time_out_count = expiries, !.timer = timer,
                        !.retransmission_timeout = rto]
  BY DEF ApplyAck
<1>8. t = IF stops THEN acked
          ELSE [acked EXCEPT !.tracked_count = left, !.remain_window_size = remain]
  BY DEF ack_received
<1>9. stops => s.tracked_count = left
  BY DEF StopsEarly
<1> HIDE DEF t, rest, left, edge, expiries, timer, rto, window, acked, stops
<1>10. acked \in TCPSenderType
  BY <1>1, <1>3, <1>6, <1>7, Zenon DEF TCPSenderType
<1>11. /\ acked.isn = s.isn /\ acked.stream = s.stream /\ acked.next_seqno = s.next_seqno
       /\ acked.tracked_count = s.tracked_count /\ acked.segments_out = s.segments_out
  BY <1>1, <1>7 DEF TCPSenderType
<1>12. /\ acked.tracking = rest /\ acked.next_ackno = edge
       /\ acked.time_out_count = expiries /\ acked.timer = timer
       /\ acked.retransmission_timeout = rto
  BY <1>1, <1>7 DEF TCPSenderType
<1>13. CASE stops
  BY <1>8, <1>9, <1>10, <1>11, <1>12, <1>13
       DEF t, rest, left, edge, expiries, timer, rto
<1>14. CASE ~stops
  <2>1. remain \in Window
    <3>1. acked.window_size \in Window
      BY <1>10 DEF TCPSenderType
    <3>2. 1 \in Window
      BY SenderAssumption DEF Window
    <3> QED BY <3>1, <3>2
  <2>2. t = [acked EXCEPT !.tracked_count = left, !.remain_window_size = remain]
    BY <1>8, <1>14
  <2> HIDE DEF remain
  <2>3. t \in TCPSenderType
    BY <1>4, <1>10, <2>1, <2>2, Zenon DEF TCPSenderType
  <2>4. /\ t.isn = acked.isn /\ t.stream = acked.stream /\ t.next_seqno = acked.next_seqno
        /\ t.tracking = acked.tracking /\ t.next_ackno = acked.next_ackno
        /\ t.time_out_count = acked.time_out_count /\ t.timer = acked.timer
        /\ t.retransmission_timeout = acked.retransmission_timeout
        /\ t.segments_out = acked.segments_out
    BY <1>10, <2>2 DEF TCPSenderType
  <2>5. t.tracked_count = left
    BY <1>10, <2>2 DEF TCPSenderType
  <2> QED BY <1>11, <1>12, <2>3, <2>4, <2>5
             DEF t, rest, left, edge, expiries, timer, rto
<1> QED BY <1>13, <1>14

\* An acknowledgment that the scan finds is unwrapped to the end of the segment
\* it acknowledges, which lies past the acknowledged edge.
LEMMA AckUnwrapped ==
    ASSUME NEW s, Good(s), NEW m \in 1 .. Len(s.tracking)
    PROVE  /\ TrackedUpTo(s, m) \in Nat
           /\ TrackedUpTo(s, m) > s.next_ackno
           /\ unwrap(s.tracking[m].ackno, s.isn, s.next_ackno) = TrackedUpTo(s, m)
<1> DEFINE n == Len(s.tracking)
           f == SequenceSpace(s.tracking)
           a == s.next_ackno
           b == TrackedUpTo(s, m)
<1>1. WellTyped(s) /\ Tiled(s) /\ Bounded(s)
  BY DEF Good
<1>2. /\ n \in Nat /\ a \in Nat /\ s.next_seqno \in Nat /\ s.isn \in WrappingInt32
      /\ f \in [0 .. n -> Nat]
      /\ \A k \in 1 .. n : f[k] = f[k - 1] + length_in_sequence_space(s.tracking[k])
      /\ \A k \in 0 .. n : f[k] <= f[n]
      /\ f[n] = s.next_seqno - a
  BY <1>1, TrackedTotals, SenderFields, FlightIsTracked
<1>3. /\ length_in_sequence_space(s.tracking[m]) > 0
      /\ s.tracking[m].ackno = wrap(b, s.isn)
  BY <1>1 DEF Tiled
<1>4. length_in_sequence_space(s.tracking[m]) \in Nat
  BY <1>1, SenderFields, TrackingMeasured DEF Measured
<1>5. b = a + f[m]
  BY DEF TrackedUpTo
<1> HIDE DEF n, f, a, b
<1>6. m \in 0 .. n /\ m - 1 \in 0 .. n /\ m \in 1 .. n /\ n \in 0 .. n
  BY <1>2 DEF n
<1>7. f[m] \in Nat /\ f[m - 1] \in Nat /\ f[m] <= f[n] /\ f[n] \in Nat
  BY <1>2, <1>6
<1>8. f[m] > 0
  BY <1>2, <1>3, <1>4, <1>6, <1>7
<1>9. f[m] <= TwoTo16
  <2>1. s.next_seqno - a <= TwoTo16
    BY <1>1 DEF Bounded, a
  <2> QED BY <1>2, <1>7, <2>1, SenderAssumption
<1>10. b \in Nat /\ b > a
  <2>1. a \in Nat /\ f[m] \in Nat
    BY <1>2, <1>7
  <2> QED BY <1>5, <1>8, <2>1
<1>11. 2 * Distance(b, a) < TwoTo32
  <2>1. Distance(b, a) = f[m]
    BY <1>2, <1>5, <1>7, <1>8 DEF Distance
  <2> QED BY <1>7, <1>9, <2>1, SenderAssumption, TwoTo32Assumption
<1>12. unwrap(wrap(b, s.isn), s.isn, a) = b
  BY <1>2, <1>10, <1>11, RoundTrip
<1> QED BY <1>3, <1>10, <1>12 DEF a, b

\* ack_received() preserves the invariant for every acknowledgment and window,
\* and moves the acknowledged edge only to the end of a tracked segment.
LEMMA AckReceivedGood ==
    ASSUME NEW s, Good(s), NEW ackno \in WrappingInt32, NEW win \in Window
    PROVE  /\ Good(ack_received(s, ackno, win))
           /\ ack_received(s, ackno, win).next_seqno = s.next_seqno
           /\ ack_received(s, ackno, win).next_ackno \in
                 {TrackedUpTo(s, k) : k \in 0 .. Len(s.tracking)}
<1> DEFINE t == ack_received(s, ackno, win)
           m == Acknowledged(s, ackno)
           rest == StillTracked(s, ackno)
           abs == unwrap(ackno, s.isn, s.next_ackno)
<1>1. WellTyped(s) /\ Tiled(s) /\ Bounded(s) /\ Accounted(s) /\ ContentOK(s) /\ TimerOK(s)
  BY DEF Good
<1>2. /\ m \in 0 .. Len(s.tracking)
      /\ m # 0 => s.tracking[m].ackno = ackno
      /\ Len(s.tracking) \in Nat
      /\ s.next_ackno \in Nat /\ s.next_seqno \in Nat /\ s.tracking \in Seq(Segment)
  BY <1>1, ScanStops, TrackedTotals, SenderFields
<1>3. rest = SubSeq(s.tracking, m + 1, Len(s.tracking))
  BY DEF StillTracked
<1>4. /\ t \in TCPSenderType
      /\ t.isn = s.isn /\ t.stream = s.stream /\ t.next_seqno = s.next_seqno
      /\ t.tracking = rest
      /\ t.next_ackno = IF m # 0 /\ abs > s.next_ackno THEN abs ELSE s.next_ackno
      /\ t.time_out_count = IF m # 0 THEN 0 ELSE s.time_out_count
      /\ t.timer = IF m # 0 THEN 0 ELSE s.timer
      /\ t.retransmission_timeout = IF m # 0 THEN RtTimeout ELSE s.retransmission_timeout
      /\ t.tracked_count = SequenceSpace(rest)[Len(rest)]
  BY <1>1, AckReceivedFields
<1> HIDE DEF t, m, rest, abs
<1>5. TrackedUpTo(s, 0) = s.next_ackno
  <2>1. SequenceSpace(s.tracking)[0] = 0
    BY <1>1, TrackedTotals
  <2> QED BY <1>2, <2>1 DEF TrackedUpTo
<1>6. t.next_ackno = TrackedUpTo(s, m) /\ t.next_ackno >= s.next_ackno /\ t.next_ackno \in Nat
  <2>1. CASE m = 0
    BY <1>2, <1>4, <1>5, <2>1
  <2>2. CASE m # 0
    <3>1. m \in 1 .. Len(s.tracking)
      BY <1>2, <2>2
    <3>2. /\ TrackedUpTo(s, m) \in Nat /\ TrackedUpTo(s, m) > s.next_ackno
          /\ abs = TrackedUpTo(s, m)
      BY <1>2, <2>2, <3>1, AckUnwrapped DEF abs
    <3>3. t.next_ackno = TrackedUpTo(s, m)
      BY <1>4, <2>2, <3>2
    <3> QED BY <1>2, <3>2, <3>3
  <2> QED BY <2>1, <2>2
<1>7. Drops(s, t, m)
  BY <1>2, <1>3, <1>4, <1>6 DEF Drops
<1>8. /\ Tiled(t)
      /\ \A k \in 1 .. Len(t.tracking) :
            /\ m + k \in 1 .. Len(s.tracking)
            /\ t.tracking[k] = s.tracking[m + k]
            /\ TrackedUpTo(t, k - 1) = TrackedUpTo(s, (m + k) - 1)
  BY <1>1, <1>7, FlightShrinks
<1>9. WellTyped(t) /\ Accounted(t)
  BY <1>1, <1>4 DEF WellTyped, Accounted
<1>10. Bounded(t)
  BY <1>1, <1>2, <1>4, <1>6, SenderAssumption DEF Bounded
<1>11. ContentOK(t)
  <2>1. \A k \in 1 .. Len(t.tracking) : Carries(t, t.tracking[k], TrackedUpTo(t, k - 1))
    <3> TAKE k \in 1 .. Len(t.tracking)
    <3>1. Carries(s, s.tracking[m + k], TrackedUpTo(s, (m + k) - 1))
      BY <1>1, <1>8 DEF ContentOK
    <3>2. Carries(s, t.tracking[k], TrackedUpTo(t, k - 1))
      BY <1>8, <3>1, Zenon
    <3> QED BY <1>4, <3>2 DEF Carries
  <2> QED BY <1>1, <1>4, <2>1 DEF ContentOK
<1>12. TimerOK(t)
  <2>1. CASE m = 0
    <3>1. rest = s.tracking
      <4>1. m + 1 = 1
        BY <2>1
      <4> QED BY <1>2, <1>3, <4>1, SubSeqFull
    <3>2. t.tracked_count = s.tracked_count
      BY <1>1, <1>4, <3>1, FlightIsTracked DEF Tiled, bytes_in_flight
    <3> QED BY <1>1, <1>4, <2>1, <3>2
            DEF TimerOK, bytes_in_flight, consecutive_retransmissions
  <2>2. CASE m # 0
    <3>1. t.timer = 0 /\ t.retransmission_timeout = RtTimeout
      BY <1>4, <2>2, Zenon
    <3>2. 0 < RtTimeout
      BY SenderAssumption
    <3> QED BY <3>1, <3>2, Zenon DEF TimerOK
  <2> QED BY <2>1, <2>2
<1> QED BY <1>2, <1>4, <1>6, <1>8, <1>9, <1>10, <1>11, <1>12 DEF Good, t

-----------------------------------------------------------------------------
(* tick(), send_empty_segment(), the application, and emptying segments_out *)

\* tick() preserves the invariant, and an expiry sends the oldest segment.
LEMMA TickGood ==
    ASSUME NEW s, Good(s), NEW ms \in Nat
    PROVE  /\ Good(sender_tick(s, ms)) /\ Untouched(s, sender_tick(s, ms))
           /\ \/ sender_tick(s, ms).segments_out = s.segments_out
              \/ /\ s.tracked_count # 0
                 /\ sender_tick(s, ms).segments_out = Append(s.segments_out, s.tracking[1])
<1> DEFINE t == sender_tick(s, ms)
           timer == s.timer + (IF bytes_in_flight(s) # 0 THEN ms ELSE 0)
           rto == IF s.window_size # 0
                  THEN s.retransmission_timeout + s.retransmission_timeout
                  ELSE s.retransmission_timeout
           out == Append(s.segments_out, s.tracking[1])
           count == s.time_out_count + 1
           expired == timer >= s.retransmission_timeout /\ bytes_in_flight(s) # 0
<1>1. /\ WellTyped(s) /\ Tiled(s) /\ s \in TCPSenderType
      /\ s.timer \in Nat /\ s.retransmission_timeout \in Nat /\ s.time_out_count \in Nat
      /\ s.segments_out \in Seq(Segment)
  BY SenderFields DEF Good, WellTyped
<1>2. /\ s.tracked_count = 0 => s.timer = 0
      /\ s.timer < s.retransmission_timeout
      /\ s.time_out_count = 0 => s.retransmission_timeout = RtTimeout
  BY DEF Good, TimerOK, bytes_in_flight, consecutive_retransmissions
<1>3. timer \in Nat /\ rto \in Nat /\ count \in Nat /\ rto > 0 /\ 0 \in Nat /\ count # 0
  <2> DEFINE passed == IF bytes_in_flight(s) # 0 THEN ms ELSE 0
  <2>1. passed \in Nat
    OBVIOUS
  <2>2. timer \in Nat
    <3> HIDE DEF passed
    <3> QED BY <1>1, <2>1 DEF passed
  <2>3. rto \in Nat /\ rto > 0
    BY <1>1, <1>2
  <2>4. count \in Nat /\ count # 0
    BY <1>1
  <2> HIDE DEF timer, rto, count
  <2> QED BY <2>2, <2>3, <2>4
<1>4. t = IF expired
          THEN [s EXCEPT !.segments_out = out, !.timer = 0,
                         !.retransmission_timeout = rto, !.time_out_count = count]
          ELSE [s EXCEPT !.timer = timer]
  BY DEF sender_tick
<1>5. ~expired => timer < s.retransmission_timeout /\ (s.tracked_count = 0 => timer = 0)
  BY <1>1, <1>2, <1>3 DEF bytes_in_flight
<1>6. expired => s.tracked_count # 0 /\ out \in Seq(Segment)
  <2> SUFFICES ASSUME expired PROVE s.tracked_count # 0 /\ out \in Seq(Segment)
    OBVIOUS
  <2>1. s.tracked_count # 0
    BY DEF bytes_in_flight
  <2>2. s.tracking[1] \in Segment
    BY <1>1, <2>1, FlightIsTracked, TrackedTotals
  <2> QED BY <1>1, <2>1, <2>2, AppendProperties
<1> HIDE DEF t, timer, rto, out, count, expired
<1>7. CASE expired
  <2>1. t = [s EXCEPT !.segments_out = out, !.timer = 0,
                      !.retransmission_timeout = rto, !.time_out_count = count]
    BY <1>4, <1>7
  <2>2. t \in TCPSenderType
    BY <1>1, <1>3, <1>6, <1>7, <2>1, Zenon DEF TCPSenderType
  <2>3. Untouched(s, t)
    BY <1>1, <2>1 DEF TCPSenderType, Untouched
  <2>4. t.timer = 0 /\ t.retransmission_timeout = rto /\ t.time_out_count = count
        /\ t.segments_out = out
    BY <1>1, <2>1 DEF TCPSenderType
  <2>5. TimerOK(t)
    BY <1>3, <2>4 DEF TimerOK, bytes_in_flight, consecutive_retransmissions
  <2>6. Good(t)
    BY <2>2, <2>3, <2>5, UntouchedGood DEF Good
  <2> QED BY <1>6, <1>7, <2>3, <2>4, <2>6 DEF t, out
<1>8. CASE ~expired
  <2>1. t = [s EXCEPT !.timer = timer]
    BY <1>4, <1>8
  <2>2. t \in TCPSenderType
    BY <1>1, <1>3, <2>1, Zenon DEF TCPSenderType
  <2>3. Untouched(s, t)
    BY <1>1, <2>1 DEF TCPSenderType, Untouched
  <2>4. /\ t.timer = timer /\ t.retransmission_timeout = s.retransmission_timeout
        /\ t.time_out_count = s.time_out_count /\ t.segments_out = s.segments_out
    BY <1>1, <2>1 DEF TCPSenderType
  <2>5. TimerOK(t)
    BY <1>2, <1>5, <1>8, <2>3, <2>4
       DEF TimerOK, Untouched, bytes_in_flight, consecutive_retransmissions
  <2>6. Good(t)
    BY <2>2, <2>3, <2>5, UntouchedGood DEF Good
  <2> QED BY <2>3, <2>4, <2>6 DEF t
<1> QED BY <1>7, <1>8

\* Whatever happens to segments_out alone is harmless.
LEMMA OutputGood ==
    ASSUME NEW s, Good(s), NEW out \in Seq(Segment)
    PROVE  LET t == [s EXCEPT !.segments_out = out]
           IN  Good(t) /\ Untouched(s, t) /\ t.segments_out = out
                  /\ t.remain_window_size = s.remain_window_size
<1> DEFINE t == [s EXCEPT !.segments_out = out]
<1>1. s \in TCPSenderType
  BY DEF Good, WellTyped
<1>2. t \in TCPSenderType
  BY <1>1, Zenon DEF TCPSenderType
<1>3. Untouched(s, t)
  BY <1>1 DEF TCPSenderType, Untouched
<1>4. /\ t.timer = s.timer /\ t.retransmission_timeout = s.retransmission_timeout
      /\ t.time_out_count = s.time_out_count /\ t.segments_out = out
      /\ t.remain_window_size = s.remain_window_size
  BY <1>1 DEF TCPSenderType
<1> HIDE DEF t
<1>5. TimerOK(t)
  BY <1>3, <1>4 DEF Good, TimerOK, Untouched, bytes_in_flight, consecutive_retransmissions
<1>6. Good(t)
  BY <1>2, <1>3, <1>5, UntouchedGood DEF Good
<1> QED BY <1>3, <1>4, <1>6 DEF t

\* send_empty_segment() preserves the invariant.
LEMMA SendEmptyGood ==
    ASSUME NEW s, Good(s)
    PROVE  /\ Good(send_empty_segment(s)) /\ Untouched(s, send_empty_segment(s))
           /\ \E seg \in Segment :
                 /\ ~seg.syn /\ ~seg.fin /\ seg.payload = << >>
                 /\ send_empty_segment(s).segments_out = Append(s.segments_out, seg)
<1> DEFINE seg == [EmptySegment EXCEPT !.seqno = next_seqno(s), !.ackno = next_seqno(s)]
           out == Append(s.segments_out, seg)
<1>1. /\ s.isn \in WrappingInt32 /\ s.next_seqno \in Nat /\ s.segments_out \in Seq(Segment)
  BY SenderFields DEF Good
<1>2. next_seqno(s) \in WrappingInt32
  BY <1>1, WrapType DEF next_seqno
<1>3. 0 \in WrappingInt32 /\ 0 \in Window
  BY TwoTo32Assumption, SenderAssumption DEF WrappingInt32, Window
<1>4. EmptySegment \in Segment
  BY <1>3, EmptySeq DEF EmptySegment, Segment, SegmentType
<1>5. seg \in Segment
  BY <1>2, <1>4, Zenon DEF Segment, SegmentType
<1>5a. ~seg.syn /\ ~seg.fin /\ seg.payload = << >>
  BY DEF EmptySegment
<1>6. out \in Seq(Segment)
  <2> HIDE DEF seg
  <2> QED BY <1>1, <1>5, AppendProperties
<1>7. send_empty_segment(s) = [s EXCEPT !.segments_out = out]
  BY DEF send_empty_segment
<1> HIDE DEF out, seg
<1>8. send_empty_segment(s).segments_out = Append(s.segments_out, seg)
  BY <1>6, <1>7, OutputGood DEF out
<1> QED BY <1>5, <1>5a, <1>6, <1>7, <1>8, OutputGood

\* Lengthening an open stream at its end, or ending it, disturbs nothing.
LEMMA StreamGood ==
    ASSUME NEW s, NEW bs \in ByteStreamType(Nat), Good(s),
           buffer_size(bs) <= bs.capacity, buffer_size(bs) <= bytes_written(bs),
           bytes_read(bs) = bytes_read(s.stream),
           \A i \in 1 .. buffer_size(bs) : bs.buffer[i] = bytes_read(bs) + i - 1,
           eof(s.stream) => eof(bs) /\ bytes_written(bs) = bytes_written(s.stream)
    PROVE  LET t == [s EXCEPT !.stream = bs]
           IN  /\ Good(t) /\ t.next_seqno = s.next_seqno /\ t.next_ackno = s.next_ackno
               /\ t.segments_out = s.segments_out /\ t.isn = s.isn /\ t.stream = bs
<1> DEFINE t == [s EXCEPT !.stream = bs]
<1>1. /\ s \in TCPSenderType /\ WellTyped(s) /\ Tiled(s) /\ Bounded(s)
      /\ ContentOK(s) /\ Accounted(s) /\ TimerOK(s)
  BY DEF Good, WellTyped
<1>2. t \in TCPSenderType
  BY <1>1, Zenon DEF TCPSenderType
<1>3. /\ t.isn = s.isn /\ t.next_seqno = s.next_seqno /\ t.next_ackno = s.next_ackno
      /\ t.tracking = s.tracking /\ t.tracked_count = s.tracked_count
      /\ t.segments_out = s.segments_out
  BY <1>1 DEF TCPSenderType
<1>4. /\ t.stream = bs
      /\ t.timer = s.timer /\ t.retransmission_timeout = s.retransmission_timeout
      /\ t.time_out_count = s.time_out_count
  BY <1>1 DEF TCPSenderType
<1> HIDE DEF t
<1>5. WellTyped(t)
  BY <1>2, <1>4 DEF WellTyped
<1>6. Tiled(t)
  BY <1>1, <1>3 DEF Tiled, TrackedUpTo, bytes_in_flight
<1>7. Bounded(t)
  BY <1>1, <1>3 DEF Bounded
<1>8. Accounted(t)
  BY <1>1, <1>3, <1>4 DEF Accounted
<1>9. TimerOK(t)
  BY <1>1, <1>3, <1>4 DEF TimerOK, bytes_in_flight, consecutive_retransmissions
<1>10. ContentOK(t)
  <2>1. \A k \in 1 .. Len(t.tracking) : Carries(t, t.tracking[k], TrackedUpTo(t, k - 1))
    <3> TAKE k \in 1 .. Len(t.tracking)
    <3>1. Carries(s, t.tracking[k], TrackedUpTo(t, k - 1))
      BY <1>1, <1>3 DEF ContentOK, TrackedUpTo
    <3> QED BY <1>4, <3>1 DEF Carries
  <2> QED BY <1>4, <2>1 DEF ContentOK
<1> QED BY <1>3, <1>4, <1>5, <1>6, <1>7, <1>8, <1>9, <1>10 DEF Good, t

\* Writing the application's next bytes to the stream preserves the invariant.
LEMMA WriteGood ==
    ASSUME NEW s, Good(s), NEW n \in Nat, ~s.stream.ended
    PROVE  LET t == [s EXCEPT !.stream = stream_write(@, NextBytes(@, n))]
           IN  /\ Good(t) /\ t.next_seqno = s.next_seqno /\ t.next_ackno = s.next_ackno
               /\ t.segments_out = s.segments_out /\ t.isn = s.isn
               /\ t.stream.written <= s.stream.written + n /\ ~t.stream.ended
               /\ bytes_read(t.stream) = bytes_read(s.stream)
<1> DEFINE old == s.stream
           size == Len(old.buffer)
           room == old.capacity - size
           data == NextBytes(old, n)
           k == MinOf(room, n)
           piece == SubSeq(data, 1, k)
           buffer == old.buffer \o piece
           written == old.written + k
           bs == stream_write(old, data)
<1>1. /\ WellTyped(s) /\ old \in ByteStreamType(Nat) /\ old.buffer \in Seq(Nat)
      /\ size \in Nat /\ old.capacity \in Nat /\ old.written \in Nat
      /\ size <= old.capacity /\ size <= old.written
      /\ \A i \in 1 .. size : old.buffer[i] = (old.written - size) + i - 1
  <2>1. WellTyped(s) /\ ContentOK(s)
    BY DEF Good
  <2> QED BY <2>1, SenderFields, StreamFields DEF ContentOK, buffer_size, bytes_read
<1>2. /\ data \in Seq(Nat) /\ Len(data) = n
      /\ \A i \in 1 .. n : data[i] = old.written + i - 1
  <2>1. data = [i \in 1 .. n |-> old.written + i - 1]
    BY DEF NextBytes
  <2>2. \A i \in 1 .. n : old.written + i - 1 \in Nat
    BY <1>1
  <2> HIDE DEF data
  <2> QED BY <2>1, <2>2
<1>3. k \in Nat /\ k <= room /\ k <= n /\ room \in Nat
  BY <1>1 DEF MinOf
<1>4. bs = [old EXCEPT !.buffer = buffer, !.written = written]
  BY <1>2 DEF stream_write, remaining_capacity, buffer_size
<1> HIDE DEF old, size, data, k, room, bs
<1>5. /\ piece \in Seq(Nat) /\ Len(piece) = k
      /\ \A i \in 1 .. k : piece[i] = old.written + i - 1
  <2>1. \A i \in 1 .. k : data[i] \in Nat /\ i \in 1 .. n
    BY <1>2, <1>3, ElementOfSeq
  <2>2. /\ piece \in Seq(Nat) /\ Len(piece) = IF 1 <= k THEN k - 1 + 1 ELSE 0
        /\ \A i \in 1 .. k - 1 + 1 : piece[i] = data[1 + i - 1]
    BY <1>3, <2>1, SubSeqProperties
  <2>3. Len(piece) = k /\ k - 1 + 1 = k
    BY <1>3, <2>2
  <2>4. ASSUME NEW i \in 1 .. k PROVE piece[i] = old.written + i - 1
    <3>1. 1 + i - 1 = i
      BY <1>3
    <3>2. piece[i] = data[i]
      BY <2>2, <2>3, <3>1, Zenon
    <3> QED BY <1>2, <2>1, <3>2, Zenon
  <2> QED BY <2>2, <2>3, <2>4
<1>6. /\ buffer \in Seq(Nat) /\ Len(buffer) = size + k
      /\ \A i \in 1 .. size + k : buffer[i] = (old.written - size) + i - 1
  <2> HIDE DEF piece
  <2>1. /\ buffer \in Seq(Nat) /\ Len(buffer) = size + k
        /\ \A i \in 1 .. size + k :
              buffer[i] = IF i <= size THEN old.buffer[i] ELSE piece[i - size]
    BY <1>1, <1>5, ConcatProperties, Zenon DEF size
  <2> HIDE DEF buffer
  <2>2. ASSUME NEW i \in 1 .. size + k PROVE buffer[i] = (old.written - size) + i - 1
    <3>1. CASE i <= size
      <4>1. i \in 1 .. size
        BY <1>1, <1>3, <3>1
      <4> QED BY <1>1, <2>1, <3>1, <4>1, Zenon
    <3>2. CASE ~(i <= size)
      <4>1. i - size \in 1 .. k
        BY <1>1, <1>3, <3>2
      <4>2. buffer[i] = old.written + (i - size) - 1
        BY <1>5, <2>1, <3>2, <4>1
      <4> QED BY <1>1, <1>3, <4>2
    <3> QED BY <3>1, <3>2
  <2> QED BY <2>1, <2>2
<1>7. written \in Nat
  BY <1>1, <1>3
<1> HIDE DEF buffer, written
<1>8. /\ bs \in ByteStreamType(Nat) /\ bs.buffer = buffer /\ bs.written = written
      /\ bs.capacity = old.capacity /\ bs.ended = old.ended
  BY <1>1, <1>4, <1>6, <1>7, Zenon DEF ByteStreamType
<1>9. /\ buffer_size(bs) = size + k /\ buffer_size(bs) <= bs.capacity
      /\ buffer_size(bs) <= bytes_written(bs)
      /\ bytes_read(bs) = old.written - size
  <2>1. buffer_size(bs) = size + k /\ bytes_written(bs) = old.written + k
    BY <1>6, <1>8 DEF buffer_size, bytes_written, written
  <2>2. size + k <= old.capacity /\ size + k <= old.written + k
        /\ (old.written + k) - (size + k) = old.written - size
    BY <1>1, <1>3 DEF room
  <2>3. bytes_read(bs) = bytes_written(bs) - buffer_size(bs)
    BY DEF bytes_read, bytes_written
  <2> QED BY <1>8, <2>1, <2>2, <2>3
<1>10. bytes_read(s.stream) = old.written - size
  BY DEF bytes_read, buffer_size, old, size
<1>11. \A i \in 1 .. buffer_size(bs) : bs.buffer[i] = bytes_read(bs) + i - 1
  BY <1>6, <1>8, <1>9
<1>12. ~eof(s.stream)
  BY DEF eof
<1>13. [s EXCEPT !.stream = stream_write(@, NextBytes(@, n))] = [s EXCEPT !.stream = bs]
  BY DEF bs, old, data
<1>14. bs.written <= s.stream.written + n /\ ~bs.ended
  BY <1>1, <1>3, <1>8 DEF written, old
<1> DEFINE t == [s EXCEPT !.stream = bs]
<1>15. /\ Good(t) /\ t.next_seqno = s.next_seqno /\ t.next_ackno = s.next_ackno
       /\ t.segments_out = s.segments_out /\ t.isn = s.isn /\ t.stream = bs
  BY <1>8, <1>9, <1>10, <1>11, <1>12, StreamGood
<1>16. t = [s EXCEPT !.stream = stream_write(@, NextBytes(@, n))]
  BY <1>13
<1> HIDE DEF t
<1>17. /\ t.stream.written <= s.stream.written + n /\ ~t.stream.ended
       /\ bytes_read(t.stream) = bytes_read(s.stream)
  BY <1>9, <1>10, <1>14, <1>15
<1> QED BY <1>15, <1>16, <1>17, Zenon

\* Ending the stream's input preserves the invariant.
LEMMA EndInputGood ==
    ASSUME NEW s, Good(s)
    PROVE  LET t == [s EXCEPT !.stream = end_input(@)]
           IN  /\ Good(t) /\ t.next_seqno = s.next_seqno /\ t.next_ackno = s.next_ackno
               /\ t.segments_out = s.segments_out /\ t.isn = s.isn
               /\ t.stream.written = s.stream.written
               /\ bytes_read(t.stream) = bytes_read(s.stream)
<1> DEFINE bs == end_input(s.stream)
<1>1. WellTyped(s) /\ ContentOK(s) /\ s.stream \in ByteStreamType(Nat)
  BY SenderFields DEF Good
<1>2. /\ bs \in ByteStreamType(Nat) /\ bs.buffer = s.stream.buffer
      /\ bs.written = s.stream.written /\ bs.capacity = s.stream.capacity /\ bs.ended = TRUE
  BY <1>1, Zenon DEF end_input, ByteStreamType
<1>3. /\ buffer_size(bs) = buffer_size(s.stream) /\ bytes_read(bs) = bytes_read(s.stream)
      /\ bytes_written(bs) = bytes_written(s.stream)
      /\ eof(s.stream) => eof(bs)
  BY <1>2 DEF buffer_size, bytes_read, bytes_written, eof, buffer_empty
<1>4. buffer_size(bs) <= bs.capacity /\ buffer_size(bs) <= bytes_written(bs)
  BY <1>1, <1>2, <1>3 DEF WellTyped
<1>5. \A i \in 1 .. buffer_size(bs) : bs.buffer[i] = bytes_read(bs) + i - 1
  BY <1>1, <1>2, <1>3 DEF ContentOK
<1> DEFINE t == [s EXCEPT !.stream = bs]
<1>6. t = [s EXCEPT !.stream = end_input(@)]
  OBVIOUS
<1> HIDE DEF bs
<1>7. /\ Good(t) /\ t.next_seqno = s.next_seqno /\ t.next_ackno = s.next_ackno
      /\ t.segments_out = s.segments_out /\ t.isn = s.isn /\ t.stream = bs
  BY <1>2, <1>3, <1>4, <1>5, StreamGood
<1> HIDE DEF t
<1>8. /\ t.stream.written = s.stream.written
      /\ bytes_read(t.stream) = bytes_read(s.stream)
  BY <1>2, <1>3, <1>7
<1> QED BY <1>6, <1>7, <1>8, Zenon

\* So does flagging an error on it.
LEMMA ErrorGood ==
    ASSUME NEW s, Good(s)
    PROVE  LET t == [s EXCEPT !.stream = set_error(@)]
           IN  /\ Good(t) /\ t.next_seqno = s.next_seqno /\ t.next_ackno = s.next_ackno
               /\ t.segments_out = s.segments_out /\ t.isn = s.isn
               /\ t.stream.written = s.stream.written /\ t.stream.ended = s.stream.ended
               /\ bytes_read(t.stream) = bytes_read(s.stream)
<1> DEFINE bs == set_error(s.stream)
<1>1. WellTyped(s) /\ ContentOK(s) /\ s.stream \in ByteStreamType(Nat)
  BY SenderFields DEF Good
<1>2. /\ bs \in ByteStreamType(Nat) /\ bs.buffer = s.stream.buffer
      /\ bs.written = s.stream.written /\ bs.capacity = s.stream.capacity
      /\ bs.ended = s.stream.ended
  BY <1>1, Zenon DEF set_error, ByteStreamType
<1>3. /\ buffer_size(bs) = buffer_size(s.stream) /\ bytes_read(bs) = bytes_read(s.stream)
      /\ bytes_written(bs) = bytes_written(s.stream)
      /\ eof(s.stream) => eof(bs)
  BY <1>2 DEF buffer_size, bytes_read, bytes_written, eof, buffer_empty
<1>4. buffer_size(bs) <= bs.capacity /\ buffer_size(bs) <= bytes_written(bs)
  BY <1>1, <1>2, <1>3 DEF WellTyped
<1>5. \A i \in 1 .. buffer_size(bs) : bs.buffer[i] = bytes_read(bs) + i - 1
  BY <1>1, <1>2, <1>3 DEF ContentOK
<1> DEFINE t == [s EXCEPT !.stream = bs]
<1>6. t = [s EXCEPT !.stream = set_error(@)]
  OBVIOUS
<1> HIDE DEF bs
<1>7. /\ Good(t) /\ t.next_seqno = s.next_seqno /\ t.next_ackno = s.next_ackno
      /\ t.segments_out = s.segments_out /\ t.isn = s.isn /\ t.stream = bs
  BY <1>2, <1>3, <1>4, <1>5, StreamGood
<1> HIDE DEF t
<1>8. /\ t.stream.written = s.stream.written /\ t.stream.ended = s.stream.ended
      /\ bytes_read(t.stream) = bytes_read(s.stream)
  BY <1>2, <1>3, <1>7
<1> QED BY <1>6, <1>7, <1>8, Zenon

\* A new sender satisfies the invariant.
LEMMA NewGood ==
    ASSUME NEW isn \in WrappingInt32
    PROVE  /\ Good(NewTCPSender(isn)) /\ NewTCPSender(isn).isn = isn
           /\ NewTCPSender(isn).segments_out = << >>
           /\ NewTCPSender(isn).stream.written = 0 /\ ~NewTCPSender(isn).stream.ended
           /\ bytes_read(NewTCPSender(isn).stream) = 0
<1> DEFINE s == NewTCPSender(isn)
           bs == NewByteStream(SendCapacity)
<1>1. isn \in WrappingInt32
  OBVIOUS
<1>2. << >> \in Seq(Segment) /\ << >> \in Seq(Nat) /\ Len(<< >>) = 0
  BY EmptySeq
<1>3. 0 \in Nat /\ 1 \in Window /\ RtTimeout \in Nat \ {0} /\ SendCapacity \in Nat
  BY SenderAssumption DEF Window
<1>4. /\ bs \in ByteStreamType(Nat) /\ bs.buffer = << >> /\ bs.written = 0
      /\ bs.capacity = SendCapacity /\ bs.ended = FALSE
  BY <1>2, <1>3 DEF NewByteStream, ByteStreamType
<1>5. s = [isn |-> isn, segments_out |-> << >>, stream |-> bs,
           next_seqno |-> 0, next_ackno |-> 0, tracking |-> << >>, tracked_count |-> 0,
           timer |-> 0, retransmission_timeout |-> RtTimeout, window_size |-> 1,
           remain_window_size |-> 1, time_out_count |-> 0]
  BY DEF NewTCPSender
<1> HIDE DEF bs, s
<1>6. s \in TCPSenderType
  BY <1>1, <1>2, <1>3, <1>4, <1>5, Zenon DEF TCPSenderType
<1>7. /\ s.stream = bs /\ s.next_seqno = 0 /\ s.next_ackno = 0 /\ s.tracking = << >>
      /\ s.tracked_count = 0 /\ s.timer = 0 /\ s.retransmission_timeout = RtTimeout
      /\ s.isn = isn /\ s.segments_out = << >>
  BY <1>5
<1>8. buffer_size(bs) = 0 /\ bytes_read(bs) = 0 /\ bytes_written(bs) = 0
  <2>1. Len(bs.buffer) = 0
    BY <1>2, <1>4
  <2>2. bs.written = 0
    BY <1>4
  <2> QED BY <2>1, <2>2 DEF buffer_size, bytes_read, bytes_written
<1>9. WellTyped(s)
  BY <1>3, <1>4, <1>6, <1>7, <1>8 DEF WellTyped
<1>10. Len(s.tracking) = 0 /\ SequenceSpace(s.tracking)[0] = 0
  BY <1>2, <1>7, <1>9, TrackedTotals
<1>11. Tiled(s)
  BY <1>7, <1>10 DEF Tiled, TrackedUpTo, bytes_in_flight
<1>12. Bounded(s) /\ Accounted(s)
  BY <1>7, <1>8, SenderAssumption DEF Bounded, Accounted
<1>13. ContentOK(s)
  BY <1>7, <1>8, <1>10 DEF ContentOK
<1>14. TimerOK(s)
  BY <1>3, <1>7 DEF TimerOK, bytes_in_flight, consecutive_retransmissions
<1>15. Good(s)
  BY <1>9, <1>11, <1>12, <1>13, <1>14 DEF Good
<1>16. /\ s.isn = isn /\ s.segments_out = << >> /\ s.stream.written = 0
       /\ ~s.stream.ended /\ bytes_read(s.stream) = 0
  BY <1>4, <1>7, <1>8
<1> QED BY <1>15, <1>16 DEF s
=============================================================================
