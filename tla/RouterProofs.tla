---------------------------- MODULE RouterProofs ----------------------------
(***************************************************************************)
(* route_one_datagram() finds the longest matching prefix among the routes *)
(* whose prefixes have no bit set beyond their length, for every address   *)
(* size and every set of routes; a route with such a bit is never found.   *)
(***************************************************************************)
EXTENDS Router, WellFoundedInduction, TLAPS

\* "how many high-order (most-significant) bits of the route_prefix will need
\* to match the corresponding bits of the datagram's destination address"
\* (router.cc:22).
Matches(prefix, len, dst) ==
    prefix \div 2 ^ (AddressBits - len) = dst \div 2 ^ (AddressBits - len)

\* No bit of the prefix is set beyond its length.
Clean(prefix, len) == dst_part(prefix, AddressBits - len) = prefix

\* Clearing low bits leaves the quotient, so clearing them twice is clearing
\* them once.
LEMMA ClearedBits ==
    ASSUME NEW a \in Nat, NEW i \in 0 .. AddressBits
    PROVE  /\ dst_part(a, i) \in Nat
           /\ dst_part(a, i) \div 2 ^ i = a \div 2 ^ i
<1> DEFINE k == 2 ^ i
<1>1. k \in Nat \ {0}
  BY RouterAssumption
<1>2. dst_part(a, i) = (a \div k) * k
  BY DEF dst_part
<1> HIDE DEF k
<1>3. a \div k \in Nat
  BY <1>1
<1>4. \A q \in Nat : q * k \in Nat /\ (q * k) \div k = q
  BY <1>1
<1> QED BY <1>2, <1>3, <1>4 DEF k

\* For a clean prefix the code's lookup is the documented match.
LEMMA LookupIsMatch ==
    ASSUME NEW prefix \in Nat, NEW len \in 0 .. AddressBits, NEW dst \in Nat,
           Clean(prefix, len)
    PROVE  dst_part(dst, AddressBits - len) = prefix <=> Matches(prefix, len, dst)
<1> DEFINE i == AddressBits - len
<1>1. i \in 0 .. AddressBits
  BY RouterAssumption
<1>2. dst_part(prefix, i) = prefix
  BY DEF Clean
<1>3. dst_part(dst, i) \div 2 ^ i = dst \div 2 ^ i
  BY <1>1, ClearedBits
<1> HIDE DEF i
<1>4. ASSUME dst_part(dst, i) = prefix PROVE prefix \div 2 ^ i = dst \div 2 ^ i
  BY <1>3, <1>4
<1>5. ASSUME prefix \div 2 ^ i = dst \div 2 ^ i PROVE dst_part(dst, i) = prefix
  BY <1>2, <1>5, Zenon DEF dst_part
<1> QED BY <1>4, <1>5 DEF Matches, i

\* The least element that Min chooses is there.
LEMMA LeastHit ==
    ASSUME NEW S, S \subseteq Nat, S # {}
    PROVE  Min(S) \in S /\ \A i \in S : Min(S) <= i
<1> DEFINE R == OpToRel(<, Nat)
<1>1. IsWellFoundedOn(R, Nat)
  BY NatLessThanWellFounded, Zenon
<1> HIDE DEF R
<1>2. PICK g \in S : \A p \in S : ~(<<p, g>> \in R)
  BY <1>1, WFMin, Zenon
<1>3. \A p \in S : ~(p < g)
  BY <1>2 DEF R, OpToRel
<1>4. \A p \in S : g <= p
  BY <1>3
<1> QED BY <1>4 DEF Min

\* When some clean route matches the destination, the route found is clean,
\* matches, and no clean route that matches is longer.
THEOREM LongestPrefixMatch ==
    ASSUME NEW routes, NEW dst \in Nat,
           \A r \in DOMAIN routes : \E prefix \in Nat, len \in 0 .. AddressBits :
               r = <<prefix, len>> /\ Clean(prefix, len),
           NEW prefix0 \in Nat, NEW len0 \in 0 .. AddressBits,
           <<prefix0, len0>> \in DOMAIN routes, Matches(prefix0, len0, dst)
    PROVE  /\ Hits(routes, dst) # {}
           /\ \E prefix \in Nat, len \in 0 .. AddressBits :
                 /\ <<prefix, len>> \in DOMAIN routes
                 /\ Matches(prefix, len, dst)
                 /\ find_route(routes, dst) = routes[<<prefix, len>>]
                 /\ len0 <= len
<1> DEFINE S == Hits(routes, dst)
           i == Min(S)
           len1 == AddressBits - i
           prefix1 == dst_part(dst, i)
<1>1. \A p \in Nat, l \in 0 .. AddressBits : <<p, l>> \in DOMAIN routes => Clean(p, l)
  OBVIOUS
<1>2. dst_part(dst, AddressBits - len0) = prefix0
  BY <1>1, LookupIsMatch
<1>3. /\ AddressBits - len0 \in 0 .. AddressBits
      /\ AddressBits - (AddressBits - len0) = len0
  BY RouterAssumption
<1>4. AddressBits - len0 \in S
  BY <1>2, <1>3 DEF Hits
<1>5. S \subseteq Nat /\ S \subseteq 0 .. AddressBits
  BY RouterAssumption DEF Hits
<1>6. i \in S /\ \A j \in S : i <= j
  BY <1>4, <1>5, LeastHit
<1>7. <<prefix1, len1>> \in DOMAIN routes
  BY <1>6 DEF Hits
<1>8. find_route(routes, dst) = routes[<<prefix1, len1>>]
  BY DEF find_route
<1> HIDE DEF S, i
<1>9. /\ i \in 0 .. AddressBits /\ len1 \in 0 .. AddressBits
      /\ AddressBits - len1 = i /\ len0 <= len1
  BY <1>4, <1>5, <1>6, RouterAssumption
<1>10. prefix1 \in Nat
  BY <1>9, ClearedBits
<1>11. Matches(prefix1, len1, dst)
  <2> HIDE DEF prefix1, len1
  <2>1. Clean(prefix1, len1)
    BY <1>1, <1>7, <1>9, <1>10
  <2>2. dst_part(dst, AddressBits - len1) = prefix1
    BY <1>9 DEF prefix1
  <2> QED BY <2>1, <2>2, <1>9, <1>10, LookupIsMatch
<1>12. S # {}
  BY <1>4
<1> QED BY <1>7, <1>8, <1>9, <1>10, <1>11, <1>12 DEF S

\* A route whose prefix has a bit set beyond its length is dead: the loop of
\* route_one_datagram() (router.cc:45-55) looks up its pair for no
\* destination, also for those the documentation says it matches.
THEOREM HostBitsNeverLookedUp ==
    ASSUME NEW prefix \in Nat, NEW len \in 0 .. AddressBits, ~Clean(prefix, len),
           NEW dst \in Nat, NEW i \in 0 .. AddressBits
    PROVE  <<dst_part(dst, i), AddressBits - i>> # <<prefix, len>>
<1> SUFFICES ASSUME dst_part(dst, i) = prefix, AddressBits - i = len PROVE FALSE
  OBVIOUS
<1>1. AddressBits - len = i
  BY RouterAssumption
<1>2. dst_part(dst, i) \div 2 ^ i = dst \div 2 ^ i
  BY ClearedBits
<1>3. dst_part(prefix, i) = prefix
  BY <1>2, Zenon DEF dst_part
<1> QED BY <1>1, <1>3 DEF Clean
=============================================================================
