-------------------------- MODULE StagingListProofs -------------------------
(***************************************************************************)
(* What the two loops of push_substring() compute, for every capacity and  *)
(* every list in order.  The insertion loop is followed item by item:      *)
(* WalkInv says what has been placed so far, and PlaceIs what the new list *)
(* covers.  WriteInv follows the write loop, and WriteItemsIs says that it *)
(* stops at the first position without an item.                            *)
(***************************************************************************)
EXTENDS StagingList, FiniteSetTheorems, SequenceTheorems,
        WellFoundedInduction, TLAPS

-----------------------------------------------------------------------------
(* Lists of items *)

\* The type of an item.
Items == [first: Nat, last: Nat, data: Seq(Nat)]

\* A list of items in order, each with the bytes of its range.
InOrder(list) ==
    /\ list \in Seq(Items)
    /\ \A k \in 1 .. Len(list) :
          /\ list[k].first <= list[k].last
          /\ list[k].data = Substring(list[k].first, list[k].last - list[k].first + 1)
    /\ \A j, k \in 1 .. Len(list) : j < k => list[j].last < list[k].first

\* The positions that the first k items cover.
Cover(list, k) == {p \in Nat : \E j \in 1 .. k : list[j].first <= p /\ p <= list[j].last}

\* Every non-empty set of natural numbers has a least element.
LEMMA Least ==
    ASSUME NEW T, T \subseteq Nat, T # {}
    PROVE  \E x \in T : \A y \in T : x <= y
<1>1. PICK x \in T : \A y \in T : ~(<<y, x>> \in OpToRel(<, Nat))
  <2> DEFINE R == OpToRel(<, Nat)
  <2>1. IsWellFoundedOn(R, Nat)
    BY NatLessThanWellFounded, Zenon
  <2> HIDE DEF R
  <2>2. \E x \in T : \A y \in T : ~(<<y, x>> \in R)
    BY <2>1, WFMin, Zenon
  <2> QED BY <2>2 DEF R
<1>2. \A y \in T : ~(y < x)
  BY <1>1 DEF OpToRel
<1> QED BY <1>2

\* Induction over a range of natural numbers, stated about a set.
LEMMA Induction ==
    ASSUME NEW n \in Nat, NEW T, 0 \in T,
           \A k \in 1 .. n : k - 1 \in T => k \in T
    PROVE  0 .. n \subseteq T
<1> DEFINE Bad == {k \in 0 .. n : k \notin T}
<1> SUFFICES ASSUME Bad # {} PROVE FALSE
  OBVIOUS
<1>1. PICK m \in Bad : \A y \in Bad : m <= y
  <2>1. Bad \subseteq Nat
    OBVIOUS
  <2> HIDE DEF Bad
  <2> QED BY <2>1, Least
<1>2. m \in 1 .. n /\ m - 1 \in 0 .. n /\ m - 1 \notin Bad
  BY <1>1
<1> QED BY <1>1, <1>2

\* The data of an item is what substr() cuts out of the pushed data.
LEMMA SubstringIs ==
    ASSUME NEW i \in Nat, NEW n \in Nat
    PROVE  /\ Substring(i, n) \in Seq(Nat)
           /\ Len(Substring(i, n)) = n
           /\ \A k \in 1 .. n : Substring(i, n)[k] = i + k - 1
<1>1. Substring(i, n) = [k \in 1 .. n |-> i + k - 1]
  BY DEF Substring
<1>2. \A k \in 1 .. n : i + k - 1 \in Nat
  OBVIOUS
<1>3. Substring(i, n) \in [1 .. n -> Nat]
  BY <1>1, <1>2
<1> QED BY <1>1, <1>3

LEMMA ItemIs ==
    ASSUME NEW index \in Nat, NEW len \in Nat, NEW first \in Nat, NEW last \in Nat,
           index <= first, first <= last, last <= index + len - 1
    PROVE  /\ Item(Substring(index, len), index, first, last) \in Items
           /\ Item(Substring(index, len), index, first, last).first = first
           /\ Item(Substring(index, len), index, first, last).last = last
           /\ Item(Substring(index, len), index, first, last).data
                = Substring(first, last - first + 1)
<1> DEFINE d == Substring(index, len)
           a == first - index + 1
           b == last - index + 1
           n == last - first + 1
           s == SubSeq(d, a, b)
<1>1. /\ d \in Seq(Nat) /\ Len(d) = len
      /\ \A k \in 1 .. len : d[k] = index + k - 1
  BY SubstringIs
<1>2. /\ a \in 1 .. len /\ b \in 1 .. len /\ a <= b /\ n \in Nat /\ b - a + 1 = n
  OBVIOUS
<1>3. /\ Substring(first, n) \in Seq(Nat) /\ Len(Substring(first, n)) = n
      /\ \A k \in 1 .. n : Substring(first, n)[k] = first + k - 1
  BY <1>2, SubstringIs
<1> HIDE DEF d
<1>4. /\ s \in Seq(Nat) /\ Len(s) = n
      /\ \A k \in 1 .. n : s[k] = d[a + k - 1]
  BY <1>1, <1>2, SubSeqProperties
<1>5. \A k \in 1 .. n : s[k] = first + k - 1
  <2> TAKE k \in 1 .. n
  <2>1. a + k - 1 \in 1 .. len /\ index + (a + k - 1) - 1 = first + k - 1
    BY <1>2
  <2> QED BY <1>1, <1>4, <2>1
<1> HIDE DEF s, n
<1>6. s = Substring(first, n)
  BY <1>2, <1>3, <1>4, <1>5, SeqEqual
<1>7. Item(d, index, first, last) = [first |-> first, last |-> last, data |-> s]
  BY DEF Item, s
<1> QED BY <1>4, <1>6, <1>7 DEF Items, d, n

-----------------------------------------------------------------------------
(* Appending to a list *)

\* S has n elements.
Sized(S, n) == IsFiniteSet(S) /\ Cardinality(S) = n /\ n \in Nat

\* A range that is apart from S adds its length.
LEMMA SizedAdd ==
    ASSUME NEW S, NEW n, Sized(S, n), NEW a \in Nat, NEW b \in Nat, a <= b,
           \A p \in a .. b : p \notin S
    PROVE  Sized(S \cup (a .. b), n + (b - a + 1))
<1>1. IsFiniteSet(a .. b) /\ Cardinality(a .. b) = b - a + 1
  BY FS_Interval
<1>2. S \cap (a .. b) = {}
  OBVIOUS
<1>3. /\ IsFiniteSet(S \cup (a .. b))
      /\ Cardinality(S \cup (a .. b)) = Cardinality(S) + Cardinality(a .. b) - Cardinality({})
  BY <1>1, <1>2, FS_Union DEF Sized
<1> QED BY <1>1, <1>3, FS_EmptySet DEF Sized

\* An item with the bytes of its range.
IsItem(it) ==
    it \in Items /\ it.first <= it.last /\ it.data = Substring(it.first, it.last - it.first + 1)

\* Everything on the list comes before position p.
Before(list, p) == \A k \in 1 .. Len(list) : list[k].last < p

LEMMA InOrderItems ==
    ASSUME NEW list, InOrder(list)
    PROVE  /\ Len(list) \in Nat
           /\ \A k \in 1 .. Len(list) : IsItem(list[k])
                   /\ list[k].first \in Nat /\ list[k].last \in Nat
<1>1. list \in Seq(Items) /\ Len(list) \in Nat
  BY LenProperties DEF InOrder
<1>2. \A k \in 1 .. Len(list) : list[k] \in Items
  BY <1>1, ElementOfSeq
<1> QED BY <1>1, <1>2 DEF InOrder, IsItem, Items

LEMMA AppendItem ==
    ASSUME NEW list, InOrder(list), NEW it, IsItem(it), Before(list, it.first)
    PROVE  /\ InOrder(Append(list, it))
           /\ Len(Append(list, it)) = Len(list) + 1
           /\ Cover(Append(list, it), Len(list) + 1)
                = Cover(list, Len(list)) \cup (it.first .. it.last)
           /\ \A p \in it.first .. it.last : p \notin Cover(list, Len(list))
           /\ \A p \in Nat : it.last < p => Before(Append(list, it), p)
<1> DEFINE new == Append(list, it)
           n == Len(list)
<1>1. /\ list \in Seq(Items) /\ n \in Nat /\ it \in Items
      /\ it.first \in Nat /\ it.last \in Nat /\ it.first <= it.last
  BY LenProperties DEF InOrder, IsItem, Items
<1>2. \A k \in 1 .. n : /\ list[k].first \in Nat /\ list[k].last \in Nat
                        /\ list[k].first <= list[k].last
  BY InOrderItems DEF IsItem
<1>3. /\ new \in Seq(Items) /\ Len(new) = n + 1
      /\ \A k \in 1 .. n : new[k] = list[k]
      /\ new[n + 1] = it
  BY <1>1, AppendProperties
<1> HIDE DEF new
<1>4. \A k \in 1 .. n + 1 : k \in 1 .. n \/ k = n + 1
  BY <1>1
<1>5. InOrder(new)
  <2>1. ASSUME NEW k \in 1 .. Len(new)
        PROVE  /\ new[k].first <= new[k].last
               /\ new[k].data = Substring(new[k].first, new[k].last - new[k].first + 1)
    <3>1. CASE k \in 1 .. n
      BY <1>3, <3>1 DEF InOrder
    <3>2. CASE k = n + 1
      BY <1>3, <3>2 DEF IsItem
    <3> QED BY <1>3, <1>4, <2>1, <3>1, <3>2
  <2>2. ASSUME NEW j \in 1 .. Len(new), NEW k \in 1 .. Len(new), j < k
        PROVE  new[j].last < new[k].first
    <3>1. j \in 1 .. n
      BY <1>1, <1>3, <2>2
    <3>2. CASE k \in 1 .. n
      BY <1>3, <2>2, <3>1, <3>2 DEF InOrder
    <3>3. CASE k = n + 1
      BY <1>3, <3>1, <3>3 DEF Before
    <3> QED BY <1>3, <1>4, <3>2, <3>3
  <2> QED BY <1>3, <2>1, <2>2 DEF InOrder
<1>6. Cover(new, n + 1) = Cover(list, n) \cup (it.first .. it.last)
  <2>1. ASSUME NEW p \in Nat
        PROVE  (\E j \in 1 .. n + 1 : new[j].first <= p /\ p <= new[j].last)
                  <=> \/ \E j \in 1 .. n : list[j].first <= p /\ p <= list[j].last
                      \/ it.first <= p /\ p <= it.last
    <3>1. n + 1 \in 1 .. n + 1 /\ \A j \in 1 .. n : j \in 1 .. n + 1
      BY <1>1
    <3> QED BY <1>3, <1>4, <3>1
  <2>2. \A p \in it.first .. it.last : p \in Nat
    BY <1>1
  <2>3. \A p : p \in it.first .. it.last <=> p \in Nat /\ it.first <= p /\ p <= it.last
    BY <1>1
  <2> QED BY <2>1, <2>2, <2>3 DEF Cover
<1>7. \A p \in it.first .. it.last : p \notin Cover(list, n)
  BY <1>1, <1>2 DEF Cover, Before
<1>8. ASSUME NEW p \in Nat, it.last < p PROVE Before(new, p)
  <2>1. ASSUME NEW k \in 1 .. Len(new) PROVE new[k].last < p
    <3>1. CASE k \in 1 .. n
      <4>1. list[k].last < it.first
        BY <3>1 DEF Before
      <4> QED BY <1>1, <1>2, <1>3, <1>8, <3>1, <4>1
    <3>2. CASE k = n + 1
      BY <1>3, <1>8, <3>2
    <3> QED BY <1>3, <1>4, <2>1, <3>1, <3>2
  <2> QED BY <2>1 DEF Before
<1> QED BY <1>3, <1>5, <1>6, <1>7, <1>8 DEF new

\* One more item of a list.
LEMMA CoverStep ==
    ASSUME NEW list, InOrder(list), NEW k \in 1 .. Len(list)
    PROVE  /\ Cover(list, k) = Cover(list, k - 1) \cup (list[k].first .. list[k].last)
           /\ \A p \in list[k].first .. list[k].last : p \notin Cover(list, k - 1)
<1>1. Len(list) \in Nat /\ \A j \in 1 .. Len(list) : list[j].first \in Nat /\ list[j].last \in Nat
  BY InOrderItems
<1>2. /\ \A j \in 1 .. k : j \in 1 .. k - 1 \/ j = k
      /\ \A j \in 1 .. k - 1 : j \in 1 .. k /\ j \in 1 .. Len(list) /\ j < k
      /\ k \in 1 .. k
  BY <1>1
<1>3. \A p : p \in list[k].first .. list[k].last
               <=> p \in Nat /\ list[k].first <= p /\ p <= list[k].last
  BY <1>1
<1>4. Cover(list, k) = Cover(list, k - 1) \cup (list[k].first .. list[k].last)
  BY <1>2, <1>3 DEF Cover
<1>5. ASSUME NEW p \in list[k].first .. list[k].last, p \in Cover(list, k - 1) PROVE FALSE
  <2>1. PICK j \in 1 .. k - 1 : p <= list[j].last
    BY <1>5 DEF Cover
  <2>2. list[j].last < list[k].first
    BY <1>2 DEF InOrder
  <2> QED BY <1>1, <1>2, <1>3, <2>1, <2>2
<1> QED BY <1>4, <1>5

-----------------------------------------------------------------------------
(* The state between two pushes *)

Start == l.unassembled_start_index
List == l.staging_list

\* What the loops find: a list in order whose items lie past the first missing
\* byte and within the capacity, and a size that counts them.
ListReady ==
    /\ InOrder(List) /\ Len(List) \in Nat
    /\ Start \in Nat /\ MaxIndex \in Int /\ Start - 1 <= MaxIndex
    /\ \A k \in 1 .. Len(List) :
          /\ List[k].first \in Nat /\ List[k].last \in Nat
          /\ List[k].first <= List[k].last
          /\ Start < List[k].first /\ List[k].last <= MaxIndex
    /\ Sized(Cover(List, Len(List)), l.staging_size)

\* The items taken over so far, k of them old ones, and the size counted.
Accounts(items, size, k) ==
    /\ InOrder(items) /\ size \in Int
    /\ \E c, d : /\ Sized(Cover(List, k), c) /\ Sized(Cover(items, Len(items)), d)
                 /\ size + c = l.staging_size + d

\* An old item is passed.
LEMMA PassItem ==
    ASSUME ListReady, NEW items, NEW size, NEW k \in 1 .. Len(List),
           Accounts(items, size, k - 1), Before(items, List[k].first)
    PROVE  /\ Accounts(Append(items, List[k]), size, k)
           /\ Cover(Append(items, List[k]), Len(Append(items, List[k])))
                = Cover(items, Len(items)) \cup (List[k].first .. List[k].last)
           /\ \A p \in Nat : List[k].last < p => Before(Append(items, List[k]), p)
           /\ \A j \in k + 1 .. Len(List) : Before(Append(items, List[k]), List[j].first)
<1> DEFINE it == List[k]
           new == Append(items, it)
<1>1. /\ InOrder(List) /\ Len(List) \in Nat
      /\ it.first \in Nat /\ it.last \in Nat /\ it.first <= it.last
      /\ \A j \in 1 .. Len(List) : List[j].first \in Nat
  BY DEF ListReady
<1>2. IsItem(it)
  BY <1>1, InOrderItems
<1>3. /\ InOrder(new) /\ Len(new) = Len(items) + 1
      /\ Cover(new, Len(items) + 1) = Cover(items, Len(items)) \cup (it.first .. it.last)
      /\ \A p \in it.first .. it.last : p \notin Cover(items, Len(items))
      /\ \A p \in Nat : it.last < p => Before(new, p)
  BY <1>2, AppendItem DEF Accounts
<1>4. /\ Cover(List, k) = Cover(List, k - 1) \cup (it.first .. it.last)
      /\ \A p \in it.first .. it.last : p \notin Cover(List, k - 1)
  BY <1>1, CoverStep
<1>5. PICK c, d : /\ Sized(Cover(List, k - 1), c) /\ Sized(Cover(items, Len(items)), d)
                  /\ size + c = l.staging_size + d
  BY DEF Accounts
<1> DEFINE n == it.last - it.first + 1
<1>6. Sized(Cover(List, k), c + n) /\ Sized(Cover(new, Len(new)), d + n)
  <2>1. Sized(Cover(List, k), c + n)
    BY <1>1, <1>4, <1>5, SizedAdd
  <2>2. Sized(Cover(new, Len(new)), d + n)
    <3> DEFINE old == Cover(items, Len(items))
    <3>1. Cover(new, Len(new)) = old \cup (it.first .. it.last)
      BY <1>3
    <3>2. Sized(old, d) /\ \A p \in it.first .. it.last : p \notin old
      BY <1>3, <1>5
    <3> HIDE DEF old
    <3> QED BY <1>1, <3>1, <3>2, SizedAdd
  <2> QED BY <2>1, <2>2
<1>7. size \in Int /\ l.staging_size \in Int /\ c \in Int /\ d \in Int /\ n \in Int
  <2>1. l.staging_size \in Int
    BY DEF ListReady, Sized
  <2>2. size \in Int
    BY DEF Accounts
  <2> QED BY <1>1, <1>5, <2>1, <2>2, SMTT(40) DEF Sized
<1> HIDE DEF n
<1>8. size + (c + n) = l.staging_size + (d + n)
  BY <1>5, <1>7, SMTT(40)
<1>9. Accounts(new, size, k)
  BY <1>3, <1>6, <1>7, <1>8 DEF Accounts
<1>10. ASSUME NEW j \in k + 1 .. Len(List) PROVE Before(new, List[j].first)
  <2>1. j \in 1 .. Len(List) /\ k < j
    BY <1>1
  <2>2. it.last < List[j].first /\ List[j].first \in Nat
    BY <1>1, <2>1 DEF InOrder
  <2> QED BY <1>3, <2>2
<1> QED BY <1>3, <1>9, <1>10

\* A new item is inserted.
LEMMA InsertItem ==
    ASSUME ListReady, NEW items, NEW size, NEW k, Accounts(items, size, k),
           NEW it, IsItem(it), Before(items, it.first)
    PROVE  /\ Accounts(Append(items, it), size + (it.last - it.first + 1), k)
           /\ Cover(Append(items, it), Len(Append(items, it)))
                = Cover(items, Len(items)) \cup (it.first .. it.last)
           /\ \A p \in Nat : it.last < p => Before(Append(items, it), p)
<1> DEFINE new == Append(items, it)
           n == it.last - it.first + 1
<1>1. it.first \in Nat /\ it.last \in Nat /\ it.first <= it.last
  BY DEF IsItem, Items
<1>2. /\ InOrder(new) /\ Len(new) = Len(items) + 1
      /\ Cover(new, Len(items) + 1) = Cover(items, Len(items)) \cup (it.first .. it.last)
      /\ \A p \in it.first .. it.last : p \notin Cover(items, Len(items))
      /\ \A p \in Nat : it.last < p => Before(new, p)
  BY AppendItem DEF Accounts
<1>3. PICK c, d : /\ Sized(Cover(List, k), c) /\ Sized(Cover(items, Len(items)), d)
                  /\ size + c = l.staging_size + d
  BY DEF Accounts
<1>4. Sized(Cover(new, Len(new)), d + n)
  BY <1>1, <1>2, <1>3, SizedAdd
<1>5. size \in Int /\ l.staging_size \in Int /\ c \in Int /\ d \in Int /\ n \in Int
  <2>1. l.staging_size \in Int
    BY DEF ListReady, Sized
  <2>2. size \in Int
    BY DEF Accounts
  <2> QED BY <1>1, <1>3, <2>1, <2>2 DEF Sized
<1> HIDE DEF n
<1>6. (size + n) + c = l.staging_size + (d + n) /\ size + n \in Int
  BY <1>3, <1>5
<1>7. Accounts(new, size + n, k)
  BY <1>2, <1>3, <1>4, <1>6 DEF Accounts
<1> QED BY <1>2, <1>7 DEF n

-----------------------------------------------------------------------------
(* The insertion loop *)

\* The walk past k items: what is on the new list, and that everything of the
\* pushed range that comes before w.first has a place there.
WalkInv(index, len, w, k) ==
    LET first == MaxOf(Start, index)
        last == index + len - 1
    IN  /\ w = [items |-> w.items, size |-> w.size, left |-> w.left,
                first |-> w.first, last |-> w.last]
        /\ w.left \in BOOLEAN /\ w.first \in Nat /\ w.last = last
        /\ first <= w.first
        /\ Accounts(w.items, w.size, k)
        /\ \A j \in k + 1 .. Len(List) : Before(w.items, List[j].first)
        /\ ~w.left => Before(w.items, w.first)
        /\ Cover(w.items, Len(w.items))
             = Cover(List, k) \cup
                 {p \in first .. last : p <= MaxIndex /\ (w.left \/ p < w.first)}

LEMMA TwoItems ==
    ASSUME NEW s \in Seq(Items), NEW a \in Items, NEW b \in Items
    PROVE  s \o <<a, b>> = Append(Append(s, a), b)
<1>1. Append(s, a) \in Seq(Items) /\ Append(s, a) = s \o <<a>>
  BY AppendProperties, AppendIsConcat
<1>2. Append(Append(s, a), b) = (s \o <<a>>) \o <<b>>
  BY <1>1, AppendIsConcat
<1>3. <<a>> \in Seq(Items) /\ <<b>> \in Seq(Items) /\ <<a, b>> \in Seq(Items)
  OBVIOUS
<1>4. <<a>> \o <<b>> = <<a, b>>
  <2>1. /\ <<a>> \o <<b>> \in Seq(Items) /\ Len(<<a>> \o <<b>>) = 2
        /\ (<<a>> \o <<b>>)[1] = a /\ (<<a>> \o <<b>>)[2] = b
    BY <1>3, ConcatProperties
  <2>2. Len(<<a, b>>) = 2 /\ <<a, b>>[1] = a /\ <<a, b>>[2] = b
    OBVIOUS
  <2>3. \A i \in 1 .. 2 : (<<a>> \o <<b>>)[i] = <<a, b>>[i]
    BY <2>1, <2>2
  <2> QED BY <1>3, <2>1, <2>2, <2>3, SeqEqual
<1> QED BY <1>2, <1>3, <1>4, ConcatAssociative

\* One turn of the loop keeps it.
LEMMA WalkStep ==
    ASSUME ListReady, NEW index \in Nat, NEW len \in Nat, len > 0,
           NEW k \in 1 .. Len(List), NEW w, WalkInv(index, len, w, k - 1)
    PROVE  WalkInv(index, len, PlaceBefore(Substring(index, len), index, w, List[k]), k)
<1> DEFINE first == MaxOf(Start, index)
           last == index + len - 1
           it == List[k]
           data == Substring(index, len)
           v == PlaceBefore(data, index, w, it)
           new == Append(w.items, it)
           Placed(left, bound) == {p \in first .. last : p <= MaxIndex /\ (left \/ p < bound)}
           upto == MinOf(w.last, MinOf(it.first - 1, MaxIndex))
<1>1. /\ InOrder(List) /\ Len(List) \in Nat
      /\ Start \in Nat /\ MaxIndex \in Int
      /\ it.first \in Nat /\ it.last \in Nat /\ it.first <= it.last
      /\ Start < it.first /\ it.last <= MaxIndex
  BY DEF ListReady
<1>2. first \in Nat /\ index <= first /\ Start <= first /\ last \in Nat
  BY <1>1 DEF MaxOf
<1>3. /\ w = [items |-> w.items, size |-> w.size, left |-> w.left,
              first |-> w.first, last |-> w.last]
      /\ w.left \in BOOLEAN /\ w.first \in Nat /\ w.last = last
      /\ first <= w.first
      /\ Accounts(w.items, w.size, k - 1)
      /\ \A j \in k .. Len(List) : Before(w.items, List[j].first)
      /\ ~w.left => Before(w.items, w.first)
      /\ Cover(w.items, Len(w.items)) = Cover(List, k - 1) \cup Placed(w.left, w.first)
  BY <1>1 DEF WalkInv
<1>4. Before(w.items, it.first)
  BY <1>1, <1>3
<1>5. /\ Accounts(new, w.size, k)
      /\ Cover(new, Len(new)) = Cover(w.items, Len(w.items)) \cup (it.first .. it.last)
      /\ \A p \in Nat : it.last < p => Before(new, p)
      /\ \A j \in k + 1 .. Len(List) : Before(new, List[j].first)
  BY <1>3, <1>4, PassItem
<1>6. Cover(List, k) = Cover(List, k - 1) \cup (it.first .. it.last)
  BY <1>1, CoverStep
<1>7. Cover(new, Len(new)) = Cover(List, k) \cup Placed(w.left, w.first)
  BY <1>3, <1>5, <1>6
<1> HIDE DEF first, last, it, new
<1>a. upto \in Int /\ upto <= w.last /\ upto <= it.first - 1 /\ upto <= MaxIndex
      /\ upto \in {w.last, it.first - 1, MaxIndex}
  <2>1. w.last \in Int /\ it.first - 1 \in Int /\ MaxIndex \in Int
    BY <1>1, <1>2, <1>3
  <2> QED BY <2>1 DEF MinOf
<1> HIDE DEF upto
\* The numbers of the walk, without the lists.
<1>b. /\ w.first \in Int /\ w.last = last /\ first <= w.first /\ first \in Int /\ last \in Int
      /\ first >= 0 /\ it.first \in Int /\ it.last \in Int /\ it.first <= it.last
      /\ it.last <= MaxIndex /\ MaxIndex \in Int
  BY <1>1, <1>2, <1>3
\* What is to be shown, field by field.
<1>8. ASSUME NEW x, x = [items |-> x.items, size |-> x.size, left |-> x.left,
                         first |-> x.first, last |-> x.last],
             x.left \in BOOLEAN, x.first \in Nat, x.last = last, first <= x.first,
             Accounts(x.items, x.size, k),
             \A j \in k + 1 .. Len(List) : Before(x.items, List[j].first),
             ~x.left => Before(x.items, x.first),
             Cover(x.items, Len(x.items)) = Cover(List, k) \cup Placed(x.left, x.first)
      PROVE  WalkInv(index, len, x, k)
  BY <1>8 DEF WalkInv, first, last
<1>9. CASE w.left \/ (w.first >= it.first /\ w.last <= it.last)
  <2>1. v = [items |-> new, size |-> w.size, left |-> TRUE, first |-> w.first, last |-> w.last]
    BY <1>3, <1>9 DEF PlaceBefore, new
  <2>2. Cover(List, k) \cup Placed(w.left, w.first) = Cover(List, k) \cup Placed(TRUE, w.first)
    <3>1. CASE w.left
      BY <3>1
    <3>2. CASE ~w.left
      <4>1. ASSUME NEW p \in Placed(TRUE, w.first), ~(p < w.first) PROVE p \in it.first .. it.last
        BY <1>1, <1>2, <1>3, <1>9, <3>2, <4>1
      <4> QED BY <1>6, <4>1
    <3> QED BY <1>3, <3>1, <3>2
  <2>3. Cover(new, Len(new)) = Cover(List, k) \cup Placed(TRUE, w.first)
    BY <1>7, <2>2
  <2> HIDE DEF v, Placed
  <2> QED BY <1>3, <1>5, <1>8, <2>1, <2>3 DEF v, it
<1>10. CASE ~w.left /\ w.first < it.first /\ w.first <= upto
  <2> DEFINE piece == Item(data, index, w.first, upto)
             size == w.size + (upto - w.first + 1)
             left == it.last + 1 > w.last
             items == Append(Append(w.items, piece), it)
  <2>1. /\ upto \in Nat /\ upto <= last /\ upto < it.first /\ upto <= MaxIndex
        /\ upto \in {last, it.first - 1, MaxIndex}
    BY <1>1, <1>2, <1>3, <1>a, <1>10
  <2>2. /\ IsItem(piece) /\ piece.first = w.first /\ piece.last = upto
    BY <1>2, <1>3, <1>10, <2>1, ItemIs DEF IsItem, last
  <2> HIDE DEF piece
  <2>3. /\ Accounts(Append(w.items, piece), size, k - 1)
        /\ Cover(Append(w.items, piece), Len(Append(w.items, piece)))
             = Cover(w.items, Len(w.items)) \cup (w.first .. upto)
        /\ Before(Append(w.items, piece), it.first)
    BY <1>1, <1>3, <1>10, <2>1, <2>2, InsertItem
  <2>4. /\ Accounts(items, size, k)
        /\ Cover(items, Len(items)) = Cover(Append(w.items, piece), Len(Append(w.items, piece)))
                                        \cup (it.first .. it.last)
        /\ \A p \in Nat : it.last < p => Before(items, p)
        /\ \A j \in k + 1 .. Len(List) : Before(items, List[j].first)
    BY <2>3, PassItem DEF it
  <2>5. w.items \o <<piece, it>> = items
    <3>1. w.items \in Seq(Items) /\ piece \in Items /\ it \in Items
      BY <1>1, <1>3, <2>2, InOrderItems DEF Accounts, InOrder, IsItem, it
    <3> QED BY <3>1, TwoItems
  <2>6. v = [items |-> items, size |-> size, left |-> left, first |-> it.last + 1,
             last |-> w.last]
    <3>1. v = [w EXCEPT !.items = w.items \o <<piece, it>>, !.size = size, !.left = left,
                        !.first = it.last + 1]
      BY <1>1, <1>3, <1>10 DEF PlaceBefore, piece, upto
    <3> QED BY <1>3, <2>5, <3>1
  <2>7. Cover(items, Len(items)) = Cover(List, k) \cup Placed(left, it.last + 1)
    <3>1. Cover(items, Len(items))
            = Cover(List, k - 1) \cup Placed(FALSE, w.first) \cup (w.first .. upto)
                \cup (it.first .. it.last)
      BY <1>3, <1>10, <2>3, <2>4
    <3>2. ASSUME NEW p \in Placed(left, it.last + 1)
          PROVE  p \in Placed(FALSE, w.first) \/ p \in w.first .. upto \/ p \in it.first .. it.last
      <4>1. p \in first .. last /\ p <= MaxIndex /\ (it.last + 1 > last \/ p < it.last + 1)
        BY <1>b, <3>2
      <4>2. CASE p < w.first
        BY <4>1, <4>2
      <4>3. CASE w.first <= p /\ p <= upto
        BY <1>b, <2>1, <4>1, <4>3
      <4>4. CASE ~(p <= upto)
        <5>1. upto = it.first - 1
          BY <1>b, <2>1, <4>1, <4>4
        <5> QED BY <1>b, <4>1, <4>4, <5>1
      <4> QED BY <1>b, <2>1, <4>1, <4>2, <4>3, <4>4
    <3>3. ASSUME NEW p \in Placed(FALSE, w.first) PROVE p \in Placed(left, it.last + 1)
      BY <1>1, <1>2, <1>3, <1>10, <3>3
    <3>4. ASSUME NEW p \in w.first .. upto PROVE p \in Placed(left, it.last + 1)
      <4>1. p \in Nat /\ first <= p /\ p <= last /\ p <= MaxIndex /\ p < it.last + 1
        BY <1>b, <2>1, <3>4, SMTT(40)
      <4> QED BY <1>b, <4>1
    <3> HIDE DEF Placed
    <3> QED BY <1>6, <3>1, <3>2, <3>3, <3>4
  <2>8. first <= it.last + 1 /\ it.last + 1 \in Nat /\ left \in BOOLEAN
    BY <1>1, <1>2, <1>3, <1>10, SMTT(40)
  <2>9. Before(items, it.last + 1)
    BY <1>1, <2>4
  <2> HIDE DEF v, Placed, items, size, left
  <2> QED BY <1>3, <1>8, <2>4, <2>6, <2>7, <2>8, <2>9 DEF v, it
<1>11. CASE ~w.left /\ w.first < it.first /\ ~(w.first <= upto)
  <2> DEFINE left == it.last + 1 > w.last
  <2>1. upto \in Int /\ upto \in {last, it.first - 1, MaxIndex}
    BY <1>3, <1>a
  <2>2. v = [items |-> new, size |-> w.size, left |-> left, first |-> it.last + 1,
             last |-> w.last]
    <3>1. v = [w EXCEPT !.items = new, !.size = w.size, !.left = left,
                        !.first = it.last + 1]
      BY <1>1, <1>3, <1>11 DEF PlaceBefore, upto, new
    <3> QED BY <1>3, <3>1
  <2>3. Cover(List, k) \cup Placed(w.left, w.first) = Cover(List, k) \cup Placed(left, it.last + 1)
    <3>1. ASSUME NEW p \in Placed(left, it.last + 1)
          PROVE  p \in Placed(w.left, w.first)
      BY <1>1, <1>2, <1>3, <1>11, <2>1, <3>1, SMTT(40)
    <3>2. ASSUME NEW p \in Placed(w.left, w.first) PROVE p \in Placed(left, it.last + 1)
      BY <1>1, <1>2, <1>3, <1>11, <3>2, SMTT(40)
    <3> HIDE DEF Placed
    <3> QED BY <3>1, <3>2
  <2>4. first <= it.last + 1 /\ it.last + 1 \in Nat /\ left \in BOOLEAN
    BY <1>1, <1>2, <1>3, <1>11, SMTT(40)
  <2>5. Before(new, it.last + 1)
    BY <1>1, <1>5
  <2> HIDE DEF v, Placed, left
  <2> QED BY <1>3, <1>5, <1>7, <1>8, <2>2, <2>3, <2>4, <2>5 DEF v, it
<1>12. CASE ~w.left /\ w.first >= it.first /\ w.last > it.last
  <2> DEFINE next == MaxOf(it.last + 1, w.first)
  <2>1. next \in Nat /\ it.last < next /\ w.first <= next /\ next \in {it.last + 1, w.first}
    <3>1. it.last + 1 \in Int /\ w.first \in Int
      BY <1>1, <1>3
    <3>2. next = IF it.last + 1 >= w.first THEN it.last + 1 ELSE w.first
      BY <3>1 DEF MaxOf
    <3> HIDE DEF next
    <3> QED BY <1>1, <1>3, <3>2
  <2> HIDE DEF next
  <2>2. v = [items |-> new, size |-> w.size, left |-> FALSE, first |-> next, last |-> w.last]
    <3>1. v = [w EXCEPT !.items = new, !.first = next]
      BY <1>1, <1>2, <1>3, <1>12 DEF PlaceBefore, new, next
    <3> QED BY <1>3, <1>12, <3>1
  <2>3. Cover(List, k) \cup Placed(w.left, w.first) = Cover(List, k) \cup Placed(FALSE, next)
    <3>1. ASSUME NEW p \in Placed(FALSE, next), p \notin Placed(w.left, w.first)
          PROVE  p \in it.first .. it.last
      BY <1>1, <1>2, <1>3, <1>12, <2>1, <3>1, SMTT(40)
    <3>2. ASSUME NEW p \in Placed(w.left, w.first) PROVE p \in Placed(FALSE, next)
      BY <1>1, <1>2, <1>3, <1>12, <2>1, <3>2
    <3> HIDE DEF Placed
    <3> QED BY <1>6, <3>1, <3>2
  <2>4. first <= next
    BY <1>2, <1>3, <2>1
  <2>5. Before(new, next)
    BY <1>5, <2>1
  <2> HIDE DEF v, Placed
  <2> QED BY <1>3, <1>5, <1>7, <1>8, <2>1, <2>2, <2>3, <2>4, <2>5 DEF v, it
<1>13. /\ w.left \/ ~w.left
       /\ w.first < it.first \/ w.first >= it.first
       /\ w.last <= it.last \/ w.last > it.last
  BY <1>1, <1>2, <1>3
<1> QED BY <1>9, <1>10, <1>11, <1>12, <1>13 DEF it

\* What is left of the pushed range goes to the end of the list.
LEMMA PlaceLastIs ==
    ASSUME ListReady, NEW index \in Nat, NEW len \in Nat, len > 0,
           NEW w, WalkInv(index, len, w, Len(List))
    PROVE  LET v == PlaceLast(Substring(index, len), index, w)
           IN  /\ InOrder(v.items)
               /\ Cover(v.items, Len(v.items))
                    = Cover(List, Len(List)) \cup
                        {p \in MaxOf(Start, index) .. index + len - 1 : p <= MaxIndex}
               /\ Sized(Cover(v.items, Len(v.items)), v.size)
<1> DEFINE first == MaxOf(Start, index)
           last == index + len - 1
           n == Len(List)
           v == PlaceLast(Substring(index, len), index, w)
           Placed(left, bound) == {p \in first .. last : p <= MaxIndex /\ (left \/ p < bound)}
           All == {p \in first .. last : p <= MaxIndex}
           upto == MinOf(w.last, MaxIndex)
<1>1. Start \in Nat /\ MaxIndex \in Int /\ Sized(Cover(List, n), l.staging_size)
  BY DEF ListReady
<1>2. first \in Nat /\ index <= first /\ last \in Nat
  BY <1>1 DEF MaxOf
<1>3. /\ w = [items |-> w.items, size |-> w.size, left |-> w.left,
              first |-> w.first, last |-> w.last]
      /\ w.left \in BOOLEAN /\ w.first \in Nat /\ w.last = last
      /\ first <= w.first
      /\ Accounts(w.items, w.size, n)
      /\ ~w.left => Before(w.items, w.first)
      /\ Cover(w.items, Len(w.items)) = Cover(List, n) \cup Placed(w.left, w.first)
  BY DEF WalkInv
<1> HIDE DEF first, last, n
<1>4. upto \in Int /\ upto <= last /\ upto <= MaxIndex /\ upto \in {last, MaxIndex}
  BY <1>1, <1>2, <1>3 DEF MinOf
<1>5. ASSUME NEW items, NEW size, Accounts(items, size, n)
      PROVE  InOrder(items) /\ Sized(Cover(items, Len(items)), size)
  <2>1. PICK c, d : /\ Sized(Cover(List, n), c) /\ Sized(Cover(items, Len(items)), d)
                    /\ size + c = l.staging_size + d
    BY <1>5 DEF Accounts
  <2>2. c = l.staging_size /\ c \in Int /\ d \in Int
    BY <1>1, <2>1 DEF Sized
  <2>3. size \in Int /\ InOrder(items)
    BY <1>5 DEF Accounts
  <2>4. size = d
    BY <2>1, <2>2, <2>3
  <2> QED BY <2>1, <2>3, <2>4
<1>6. CASE ~w.left /\ w.first <= upto
  <2> DEFINE piece == Item(Substring(index, len), index, w.first, upto)
             items == Append(w.items, piece)
             size == w.size + (upto - w.first + 1)
  <2>1. upto \in Nat /\ index <= w.first
    BY <1>2, <1>3, <1>4, <1>6
  <2>2. IsItem(piece) /\ piece.first = w.first /\ piece.last = upto
    BY <1>2, <1>3, <1>4, <1>6, <2>1, ItemIs DEF IsItem, last
  <2> HIDE DEF piece
  <2>3. /\ Accounts(items, size, n)
        /\ Cover(items, Len(items)) = Cover(w.items, Len(w.items)) \cup (w.first .. upto)
    BY <1>3, <1>6, <2>2, InsertItem
  <2>4. v.items = items /\ v.size = size
    <3>1. v = [w EXCEPT !.items = items, !.size = size]
      BY <1>6 DEF PlaceLast, piece
    <3> HIDE DEF v, items, size
    <3> QED BY <1>3, <3>1
  <2>5. Placed(FALSE, w.first) \cup (w.first .. upto) = All
    <3>1. ASSUME NEW p \in All, ~(p < w.first) PROVE p \in w.first .. upto
      BY <1>2, <1>3, <1>4, <3>1
    <3>2. ASSUME NEW p \in w.first .. upto PROVE p \in All
      BY <1>1, <1>2, <1>3, <1>4, <3>2
    <3> QED BY <3>1, <3>2
  <2>6. Cover(items, Len(items)) = Cover(List, n) \cup All
    BY <1>3, <1>6, <2>3, <2>5
  <2> HIDE DEF v, items, size, Placed, All
  <2> QED BY <1>5, <2>3, <2>4, <2>6 DEF v, All, first, last, n
<1>7. CASE ~(~w.left /\ w.first <= upto)
  <2>1. v = w
    BY <1>7 DEF PlaceLast
  <2>2. Placed(w.left, w.first) = All
    <3>1. CASE w.left
      BY <3>1
    <3>2. CASE ~w.left
      <4>1. \A p \in All : p < w.first
        BY <1>1, <1>2, <1>3, <1>4, <1>7, <3>2
      <4> QED BY <4>1
    <3> QED BY <1>3, <3>1, <3>2
  <2> HIDE DEF v, Placed, All
  <2> QED BY <1>3, <1>5, <2>1, <2>2 DEF v, All, first, last, n
<1> QED BY <1>6, <1>7

\* The recursive definition of the insertion loop.
IsWalk(f, data, index, n) ==
    f = [k \in 0 .. n |-> IF k = 0 THEN Temp(data, index)
                          ELSE PlaceBefore(data, index, f[k - 1], l.staging_list[k])]

\* The insertion loop has a result after each item.
LEMMA WalkExists ==
    ASSUME NEW data, NEW index, NEW n \in Nat
    PROVE  \E f : IsWalk(f, data, index, n)
<1> DEFINE P(m) == \E f : IsWalk(f, data, index, m)
           T == {m \in 0 .. n : P(m)}
<1>1. P(0)
  <2>1. IsWalk([k \in 0 .. 0 |-> Temp(data, index)], data, index, 0)
    BY DEF IsWalk
  <2> QED BY <2>1
<1>2. ASSUME NEW m \in 1 .. n, P(m - 1) PROVE P(m)
  <2>1. PICK f : IsWalk(f, data, index, m - 1)
    BY <1>2
  <2> DEFINE g == [k \in 0 .. m |->
                     IF k = m THEN PlaceBefore(data, index, f[m - 1], l.staging_list[m])
                     ELSE f[k]]
  <2>2. ASSUME NEW k \in 0 .. m
        PROVE  g[k] = IF k = 0 THEN Temp(data, index)
                      ELSE PlaceBefore(data, index, g[k - 1], l.staging_list[k])
    <3>1. CASE k = m
      BY <3>1
    <3>2. CASE k # m
      <4>1. f[k] = IF k = 0 THEN Temp(data, index)
                   ELSE PlaceBefore(data, index, f[k - 1], l.staging_list[k])
        BY <3>2, <2>1 DEF IsWalk
      <4> QED BY <3>2, <4>1
    <3> QED BY <3>1, <3>2
  <2>3. IsWalk(g, data, index, m)
    BY <2>2 DEF IsWalk
  <2> HIDE DEF g
  <2> QED BY <2>3
<1> HIDE DEF P
<1>3. 0 \in T /\ \A k \in 1 .. n : k - 1 \in T => k \in T
  BY <1>1, <1>2
<1>4. 0 .. n \subseteq T
  <2> HIDE DEF T
  <2> QED BY <1>3, Induction
<1>5. P(n)
  BY <1>4
<1> QED BY <1>5 DEF P

\* After the whole loop and the piece behind it, the new list has the old
\* positions and the pushed ones that are neither assembled nor too far.
LEMMA PlaceIs ==
    ASSUME ListReady, NEW index \in Nat, NEW len \in Nat, len > 0
    PROVE  LET v == Place(Substring(index, len), index)
           IN  /\ InOrder(v.items)
               /\ Cover(v.items, Len(v.items))
                    = Cover(List, Len(List)) \cup
                        {p \in MaxOf(Start, index) .. index + len - 1 : p <= MaxIndex}
               /\ Sized(Cover(v.items, Len(v.items)), v.size)
<1> DEFINE n == Len(List)
           data == Substring(index, len)
           g == Walk(data, index)
<1>1. n \in Nat
  BY DEF ListReady
<1>2. IsWalk(g, data, index, n)
  <2>1. PICK f : IsWalk(f, data, index, n)
    BY <1>1, WalkExists
  <2>2. g = CHOOSE h : IsWalk(h, data, index, n)
    BY DEF Walk, IsWalk, List
  <2> QED BY <2>1, <2>2
<1> HIDE DEF g, data
<1>3. /\ g[0] = Temp(data, index)
      /\ \A k \in 1 .. n : g[k] = PlaceBefore(data, index, g[k - 1], List[k])
  <2>1. g = [k \in 0 .. n |-> IF k = 0 THEN Temp(data, index)
                              ELSE PlaceBefore(data, index, g[k - 1], List[k])]
    BY <1>2 DEF IsWalk, List
  <2> HIDE DEF n
  <2>2. 0 \in 0 .. n /\ \A k \in 1 .. n : k \in 0 .. n /\ k # 0
    BY <1>1
  <2> QED BY <2>1, <2>2
<1> DEFINE T == {k \in 0 .. n : WalkInv(index, len, g[k], k)}
<1>4. 0 \in T
  <2> DEFINE w == Temp(data, index)
             first == MaxOf(Start, index)
  <2>1. Len(data) = len
    BY SubstringIs DEF data
  <2>2. w = [items |-> << >>, size |-> l.staging_size, left |-> FALSE,
             first |-> first, last |-> index + len - 1]
    BY <2>1 DEF Temp, Start
  <2>3. first \in Nat /\ index + len - 1 \in Nat
    BY DEF ListReady, MaxOf
  <2>4. /\ << >> \in Seq(Items) /\ Len(<< >>) = 0
        /\ Cover(<< >>, 0) = {} /\ Cover(List, 0) = {}
        /\ \A p : Before(<< >>, p)
    BY DEF Cover, Before
  <2>5. InOrder(<< >>) /\ Sized({}, 0)
    BY <2>4, FS_EmptySet DEF InOrder, Sized
  <2>6. l.staging_size \in Int
    BY DEF ListReady, Sized
  <2>7. Accounts(<< >>, l.staging_size, 0)
    BY <2>4, <2>5, <2>6 DEF Accounts
  <2> HIDE DEF w
  <2>8. WalkInv(index, len, w, 0)
    <3>1. {p \in first .. index + len - 1 : p <= MaxIndex /\ (FALSE \/ p < first)} = {}
      BY <2>3
    <3> HIDE DEF first
    <3> QED BY <2>2, <2>3, <2>4, <2>7, <3>1 DEF WalkInv, first
  <2> QED BY <1>1, <1>3, <2>8 DEF w
<1>5. ASSUME NEW k \in 1 .. n, k - 1 \in T PROVE k \in T
  <2>1. WalkInv(index, len, g[k - 1], k - 1)
    BY <1>5
  <2>2. WalkInv(index, len, PlaceBefore(data, index, g[k - 1], List[k]), k)
    BY <2>1, WalkStep DEF data
  <2> QED BY <1>1, <1>3, <2>2
<1>6. WalkInv(index, len, g[n], n)
  <2>1. 0 .. n \subseteq T
    <3> HIDE DEF T
    <3> QED BY <1>1, <1>4, <1>5, Induction
  <2> QED BY <1>1, <2>1
<1>7. Place(data, index) = PlaceLast(data, index, g[n])
  BY DEF Place, g, List
<1> QED BY <1>6, <1>7, PlaceLastIs DEF data

-----------------------------------------------------------------------------
(* The write loop *)

\* A ByteStream after n more bytes of the stream, from position i on.
Grown(bs, i, n) ==
    [buffer |-> bs.buffer \o Substring(i, n), capacity |-> bs.capacity, ended |-> bs.ended,
     written |-> bs.written + n, error |-> bs.error]

IsStream(bs) ==
    /\ bs = [buffer |-> bs.buffer, capacity |-> bs.capacity, ended |-> bs.ended,
             written |-> bs.written, error |-> bs.error]
    /\ bs.buffer \in Seq(Nat) /\ Len(bs.buffer) \in Nat
    /\ bs.capacity \in Nat /\ bs.written \in Nat

\* write() takes everything when there is room for it.
LEMMA WriteFits ==
    ASSUME NEW bs, IsStream(bs), NEW i \in Nat, NEW n \in Nat,
           n <= bs.capacity - Len(bs.buffer)
    PROVE  /\ stream_write(bs, Substring(i, n)) = Grown(bs, i, n)
           /\ IsStream(Grown(bs, i, n))
           /\ Len(Grown(bs, i, n).buffer) = Len(bs.buffer) + n
<1> DEFINE d == Substring(i, n)
<1>1. d \in Seq(Nat) /\ Len(d) = n
  BY SubstringIs
<1> HIDE DEF d
<1>2. SubSeq(d, 1, n) = d
  <2>1. \A k \in 1 .. n : d[k] \in Nat
    BY <1>1, ElementOfSeq
  <2>2. /\ SubSeq(d, 1, n) \in Seq(Nat) /\ Len(SubSeq(d, 1, n)) = n
        /\ \A k \in 1 .. n : SubSeq(d, 1, n)[k] = d[1 + k - 1]
    BY <2>1, SubSeqProperties
  <2>3. \A k \in 1 .. n : SubSeq(d, 1, n)[k] = d[k]
    BY <2>2
  <2> QED BY <1>1, <2>2, <2>3, SeqEqual
<1>3. MinOf(remaining_capacity(bs), Len(d)) = n
  BY <1>1 DEF MinOf, remaining_capacity, buffer_size, IsStream
<1>4. stream_write(bs, d) = [bs EXCEPT !.buffer = @ \o d, !.written = @ + n]
  BY <1>2, <1>3 DEF stream_write
<1>5. stream_write(bs, d) = Grown(bs, i, n)
  BY <1>4 DEF IsStream, Grown, d
<1>6. bs.buffer \o d \in Seq(Nat) /\ Len(bs.buffer \o d) = Len(bs.buffer) + n
  BY <1>1, ConcatProperties DEF IsStream
<1>7. /\ Grown(bs, i, n).buffer = bs.buffer \o d
      /\ IsStream(Grown(bs, i, n))
  BY <1>6 DEF IsStream, Grown, d
<1> QED BY <1>5, <1>6, <1>7 DEF d

LEMMA GrownTwice ==
    ASSUME NEW bs, IsStream(bs), NEW i \in Nat, NEW a \in Nat, NEW n \in Nat
    PROVE  Grown(Grown(bs, i, a), i + a, n) = Grown(bs, i, a + n)
<1> DEFINE c == Substring(i, a)
           d == Substring(i + a, n)
           e == Substring(i, a + n)
<1>1. /\ c \in Seq(Nat) /\ Len(c) = a /\ \A k \in 1 .. a : c[k] = i + k - 1
      /\ d \in Seq(Nat) /\ Len(d) = n /\ \A k \in 1 .. n : d[k] = i + a + k - 1
      /\ e \in Seq(Nat) /\ Len(e) = a + n /\ \A k \in 1 .. a + n : e[k] = i + k - 1
  <2>1. c \in Seq(Nat) /\ Len(c) = a /\ \A k \in 1 .. a : c[k] = i + k - 1
    BY SubstringIs
  <2>2. d \in Seq(Nat) /\ Len(d) = n /\ \A k \in 1 .. n : d[k] = i + a + k - 1
    <3>1. i + a \in Nat
      OBVIOUS
    <3> QED BY <3>1, SubstringIs
  <2>3. e \in Seq(Nat) /\ Len(e) = a + n /\ \A k \in 1 .. a + n : e[k] = i + k - 1
    <3>1. a + n \in Nat
      OBVIOUS
    <3> QED BY <3>1, SubstringIs
  <2> QED BY <2>1, <2>2, <2>3
<1> HIDE DEF c, d, e
<1>2. c \o d = e
  <2>1. /\ c \o d \in Seq(Nat) /\ Len(c \o d) = a + n
        /\ \A k \in 1 .. a + n : (c \o d)[k] = IF k <= a THEN c[k] ELSE d[k - a]
    BY <1>1, ConcatProperties
  <2>2. ASSUME NEW k \in 1 .. a + n PROVE (c \o d)[k] = e[k]
    <3>1. CASE k <= a
      BY <1>1, <2>1, <3>1
    <3>2. CASE ~(k <= a)
      <4>1. k - a \in 1 .. n /\ i + a + (k - a) - 1 = i + k - 1
        BY <3>2
      <4> QED BY <1>1, <2>1, <3>2, <4>1
    <3> QED BY <3>1, <3>2
  <2> QED BY <1>1, <2>1, <2>2, SeqEqual
<1>3. (bs.buffer \o c) \o d = bs.buffer \o e
  <2> DEFINE b == bs.buffer
  <2>1. b \in Seq(Nat) /\ c \in Seq(Nat) /\ d \in Seq(Nat)
    BY <1>1 DEF IsStream
  <2> HIDE DEF b
  <2>2. (b \o c) \o d = b \o (c \o d)
    BY <2>1, ConcatAssociative, SMTT(40)
  <2> USE DEF b
  <2> QED BY <1>2, <2>2
<1>4. (bs.written + a) + n = bs.written + (a + n)
  BY DEF IsStream
<1> QED BY <1>3, <1>4 DEF Grown, c, d, e

\* What the write loop is given: nothing on the list yet, and new items P
\* that lie past the output and for which the output has room.
WriteReady(m, P) ==
    /\ m = [output |-> m.output, capacity |-> m.capacity,
            staging_list |-> << >>, staging_size |-> m.staging_size,
            unassembled_start_index |-> m.unassembled_start_index,
            have_eof |-> m.have_eof, eof_index |-> m.eof_index]
    /\ IsStream(m.output) /\ Len(m.output.buffer) <= m.output.capacity
    /\ m.unassembled_start_index \in Nat /\ m.staging_size \in Int
    /\ InOrder(P)
    /\ \A k \in 1 .. Len(P) :
          /\ m.unassembled_start_index <= P[k].first
          /\ P[k].last - m.unassembled_start_index
               < m.output.capacity - Len(m.output.buffer)

\* The reassembler when everything before position s is written.
Written(m, s, rest) ==
    [output |-> Grown(m.output, m.unassembled_start_index, s - m.unassembled_start_index),
     capacity |-> m.capacity,
     staging_list |-> rest, staging_size |-> m.staging_size - (s - m.unassembled_start_index),
     unassembled_start_index |-> s,
     have_eof |-> m.have_eof, eof_index |-> m.eof_index]

\* Where the output ends after j items.
Stop(m, P, j) == IF j = 0 THEN m.unassembled_start_index ELSE P[j].last + 1

\* After k items j have been written, which leave no gap, and the others are
\* on the list because the next one does not continue the output.
WriteInv(m, P, x, k) ==
    \E j \in 0 .. k :
        /\ x = Written(m, Stop(m, P, j), SubSeq(P, j + 1, k))
        /\ Cover(P, j) = m.unassembled_start_index .. Stop(m, P, j) - 1
        /\ j < k => P[j + 1].first # Stop(m, P, j)

LEMMA WriteStep ==
    ASSUME NEW m, NEW P, WriteReady(m, P), NEW k \in 1 .. Len(P),
           NEW x, WriteInv(m, P, x, k - 1)
    PROVE  WriteInv(m, P, WriteItem(x, P[k]), k)
<1> DEFINE start == m.unassembled_start_index
           it == P[k]
<1>1. /\ InOrder(P) /\ P \in Seq(Items) /\ Len(P) \in Nat /\ start \in Nat
      /\ \A j \in 1 .. Len(P) : P[j] \in Items /\ P[j].first \in Nat /\ P[j].last \in Nat
  BY InOrderItems DEF WriteReady, IsItem, InOrder
<1>2. /\ it.first \in Nat /\ it.last \in Nat /\ it.first <= it.last
      /\ it.data = Substring(it.first, it.last - it.first + 1)
      /\ start <= it.first /\ it.last - start < m.output.capacity - Len(m.output.buffer)
  BY <1>1 DEF WriteReady, InOrder
<1>3. PICK j \in 0 .. k - 1 :
          /\ x = Written(m, Stop(m, P, j), SubSeq(P, j + 1, k - 1))
          /\ Cover(P, j) = start .. Stop(m, P, j) - 1
          /\ j < k - 1 => P[j + 1].first # Stop(m, P, j)
  BY DEF WriteInv
<1> DEFINE s == Stop(m, P, j)
           rest == SubSeq(P, j + 1, k - 1)
<1>4. s \in Nat /\ start <= s /\ s <= it.first
  <2>1. CASE j = 0
    BY <1>1, <1>2, <2>1 DEF Stop
  <2>2. CASE j # 0
    <3>1. j \in 1 .. Len(P) /\ j < k
      BY <1>1, <2>2
    <3>2. P[j].last < it.first /\ start <= P[j].first /\ P[j].first <= P[j].last
      BY <1>1, <3>1 DEF InOrder, WriteReady
    <3> QED BY <1>1, <1>2, <2>2, <3>1, <3>2, SMTT(40) DEF Stop
  <2> QED BY <2>1, <2>2
<1>5. /\ rest \in Seq(Items) /\ Len(rest) = IF j + 1 <= k - 1 THEN k - 1 - j ELSE 0
  <2>1. \A i \in j + 1 .. k - 1 : P[i] \in Items
    BY <1>1
  <2> QED BY <2>1, SubSeqProperties
<1>6. rest = << >> <=> j = k - 1
  <2>1. rest = << >> <=> Len(rest) = 0
    BY <1>5, EmptySeq
  <2> QED BY <1>5, <2>1
<1>7. x.staging_list = rest /\ x.unassembled_start_index = s
  BY <1>3 DEF Written
<1> HIDE DEF s, rest, it
<1>8. CASE rest = << >> /\ it.first = s
  <2> DEFINE n == it.last - it.first + 1
             t == it.last + 1
  <2>1. j = k - 1 /\ n \in Nat /\ t \in Nat /\ (s - start) + n = t - start /\ s - start \in Nat
    <3>1. j = k - 1
      BY <1>6, <1>8
    <3>2. start \in Int /\ s \in Int /\ it.first \in Int /\ it.last \in Int
          /\ start <= s /\ it.first <= it.last /\ 0 <= it.first /\ it.first = s
      BY <1>1, <1>2, <1>4, <1>8
    <3> HIDE DEF start
    <3> QED BY <3>1, <3>2
  <2>2. t = Stop(m, P, k)
    BY DEF Stop, it
  <2>3. SubSeq(P, k + 1, k) = << >>
    BY SubSeqEmpty
  <2>4. stream_write(Grown(m.output, start, s - start), it.data) = Grown(m.output, start, t - start)
    <3> DEFINE bs == Grown(m.output, start, s - start)
    <3>0. IsStream(m.output)
      BY DEF WriteReady
    <3>1. s - start <= m.output.capacity - Len(m.output.buffer)
      <4> DEFINE cap == m.output.capacity
                 used == Len(m.output.buffer)
      <4>1. cap \in Int /\ used \in Int
        BY <3>0 DEF IsStream
      <4>2. /\ start \in Int /\ s \in Int /\ it.first \in Int /\ it.last \in Int
            /\ s <= it.first /\ it.first <= it.last /\ it.last - start < cap - used
        BY <1>1, <1>2, <1>4
      <4> HIDE DEF start, cap, used
      <4>3. s - start <= cap - used
        BY <4>1, <4>2
      <4> QED BY <4>3 DEF cap, used
    <3>2. IsStream(bs) /\ Len(bs.buffer) = Len(m.output.buffer) + (s - start)
      BY <1>1, <2>1, <3>0, <3>1, WriteFits
    <3>3. bs.capacity = m.output.capacity
      BY DEF Grown
    <3>4. n <= bs.capacity - Len(bs.buffer)
      <4>1. m.output.capacity \in Int /\ Len(m.output.buffer) \in Int
        BY <3>0 DEF IsStream
      <4>2. it.last - start < m.output.capacity - Len(m.output.buffer)
        BY <1>2
      <4>3. start \in Int /\ it.last \in Int /\ s \in Int /\ it.first = s
        BY <1>1, <1>2, <1>4, <1>8
      <4>4. Len(bs.buffer) = Len(m.output.buffer) + (s - start)
        BY <3>2
      <4> HIDE DEF bs, start
      <4>5. it.last - s + 1
              <= m.output.capacity - (Len(m.output.buffer) + (s - start))
        <5> DEFINE cap == m.output.capacity
                   held == Len(m.output.buffer)
        <5>1. cap \in Int /\ held \in Int /\ it.last - start < cap - held
          BY <4>1, <4>2
        <5> HIDE DEF cap, held
        <5>2. it.last - s + 1 <= cap - (held + (s - start))
          BY <4>3, <5>1
        <5> QED BY <5>2 DEF cap, held
      <4> QED BY <3>3, <4>3, <4>4, <4>5
    <3> HIDE DEF bs
    <3>5. stream_write(bs, Substring(s, n)) = Grown(bs, s, n)
      BY <1>4, <2>1, <3>2, <3>4, WriteFits
    <3>6. start + (s - start) = s
      BY <1>1, <1>4
    <3>7. Grown(bs, s, n) = Grown(m.output, start, (s - start) + n)
      <4>1. Grown(bs, start + (s - start), n) = Grown(m.output, start, (s - start) + n)
        <5> HIDE DEF n, start
        <5> QED BY <1>1, <2>1, <3>0, GrownTwice DEF bs
      <4> QED BY <3>6, <4>1
    <3> QED BY <1>2, <1>8, <2>1, <3>5, <3>7 DEF bs
  <2>5. m.staging_size - (s - start) - n = m.staging_size - (t - start)
    BY <1>1, <1>2, <1>4, <1>8 DEF WriteReady
  <2> DEFINE y == WriteItem(x, it)
  <2>6. y = [x EXCEPT !.output = stream_write(@, it.data), !.unassembled_start_index = t,
                      !.staging_size = @ - n]
    BY <1>7, <1>8 DEF WriteItem
  <2>7. y = Written(m, t, << >>)
    <3> HIDE DEF y, n, t
    <3> QED BY <1>3, <1>8, <2>4, <2>5, <2>6 DEF Written, s, rest
  <2>8. Cover(P, k) = start .. t - 1
    <3>1. Cover(P, k) = (start .. s - 1) \cup (it.first .. it.last)
      BY <1>1, <1>3, <2>1, CoverStep DEF it, s
    <3> QED BY <1>1, <1>2, <1>4, <1>8, <3>1
  <2> HIDE DEF y, t
  <2>9. k \in 0 .. k /\ ~(k < k)
    OBVIOUS
  <2>10. /\ y = Written(m, Stop(m, P, k), SubSeq(P, k + 1, k))
         /\ Cover(P, k) = start .. Stop(m, P, k) - 1
    BY <2>2, <2>3, <2>7, <2>8
  <2> QED BY <2>9, <2>10 DEF WriteInv, y, it
<1>9. CASE ~(rest = << >> /\ it.first = s)
  <2> DEFINE y == WriteItem(x, it)
  <2>1. y = [x EXCEPT !.staging_list = Append(@, it)]
    BY <1>7, <1>9 DEF WriteItem
  <2>2. Append(rest, it) = SubSeq(P, j + 1, k)
    <3>1. j + 1 \in 1 .. Len(P) /\ k \in j + 1 .. Len(P)
      BY <1>1
    <3>2. SubSeq(P, j + 1, k) = SubSeq(P, j + 1, k - 1) \o <<P[k]>>
      BY <1>1, <3>1, SubSeqRecursiveSecond
    <3>3. Append(rest, it) = rest \o <<it>>
      BY <1>1, <1>5, AppendIsConcat DEF it
    <3> QED BY <3>2, <3>3 DEF rest, it
  <2>3. y = Written(m, s, SubSeq(P, j + 1, k))
    <3> HIDE DEF y
    <3>1. x = Written(m, s, rest)
      BY <1>3 DEF s, rest
    <3>2. y = Written(m, s, Append(rest, it))
      BY <2>1, <3>1 DEF Written
    <3> QED BY <2>2, <3>2
  <2>4. P[j + 1].first # s
    <3>1. CASE j < k - 1
      BY <1>3, <3>1 DEF s
    <3>2. CASE j = k - 1
      BY <1>6, <1>9, <3>2 DEF it
    <3> QED BY <3>1, <3>2
  <2> HIDE DEF y
  <2>5. j \in 0 .. k
    OBVIOUS
  <2> QED BY <1>3, <2>3, <2>4, <2>5 DEF WriteInv, y, s, it
<1> QED BY <1>8, <1>9 DEF it

\* The recursive definition of the write loop.
IsWrite(f, m, P, n) ==
    f = [k \in 0 .. n |-> IF k = 0 THEN m ELSE WriteItem(f[k - 1], P[k])]

\* The write loop has a result after each item.
LEMMA WriteExists ==
    ASSUME NEW m, NEW P, NEW n \in Nat
    PROVE  \E f : IsWrite(f, m, P, n)
<1> DEFINE H(i) == \E f : IsWrite(f, m, P, i)
           T == {i \in 0 .. n : H(i)}
<1>1. H(0)
  <2>1. IsWrite([k \in 0 .. 0 |-> m], m, P, 0)
    BY DEF IsWrite
  <2> QED BY <2>1
<1>2. ASSUME NEW i \in 1 .. n, H(i - 1) PROVE H(i)
  <2>1. PICK f : IsWrite(f, m, P, i - 1)
    BY <1>2
  <2> DEFINE g == [k \in 0 .. i |-> IF k = i THEN WriteItem(f[i - 1], P[i]) ELSE f[k]]
  <2>2. ASSUME NEW k \in 0 .. i
        PROVE  g[k] = IF k = 0 THEN m ELSE WriteItem(g[k - 1], P[k])
    <3>1. CASE k = i
      BY <3>1
    <3>2. CASE k # i
      <4>1. f[k] = IF k = 0 THEN m ELSE WriteItem(f[k - 1], P[k])
        BY <3>2, <2>1 DEF IsWrite
      <4> QED BY <3>2, <4>1
    <3> QED BY <3>1, <3>2
  <2>3. IsWrite(g, m, P, i)
    BY <2>2 DEF IsWrite
  <2> HIDE DEF g
  <2> QED BY <2>3
<1> HIDE DEF H
<1>3. 0 \in T /\ \A k \in 1 .. n : k - 1 \in T => k \in T
  BY <1>1, <1>2
<1>4. 0 .. n \subseteq T
  <2> HIDE DEF T
  <2> QED BY <1>3, Induction
<1>5. H(n)
  BY <1>4
<1> QED BY <1>5 DEF H

LEMMA WriteLoop ==
    ASSUME NEW m, NEW P, WriteReady(m, P)
    PROVE  WriteInv(m, P, WriteItems(m, P)[Len(P)], Len(P))
<1> DEFINE n == Len(P)
           g == WriteItems(m, P)
<1>1. n \in Nat /\ m.unassembled_start_index \in Nat
  BY InOrderItems DEF WriteReady
<1>2. IsWrite(g, m, P, n)
  <2>1. PICK f : IsWrite(f, m, P, n)
    BY <1>1, WriteExists
  <2>2. g = CHOOSE h : IsWrite(h, m, P, n)
    BY DEF WriteItems, IsWrite
  <2> QED BY <2>1, <2>2
<1> HIDE DEF g, n
<1>3. g[0] = m /\ \A k \in 1 .. n : g[k] = WriteItem(g[k - 1], P[k])
  <2>1. g = [k \in 0 .. n |-> IF k = 0 THEN m ELSE WriteItem(g[k - 1], P[k])]
    BY <1>2 DEF IsWrite
  <2>2. 0 \in 0 .. n /\ \A k \in 1 .. n : k \in 0 .. n /\ k # 0
    BY <1>1
  <2> QED BY <2>1, <2>2
<1> DEFINE T == {k \in 0 .. n : WriteInv(m, P, g[k], k)}
           start == m.unassembled_start_index
<1>4. 0 \in T
  <2>1. Stop(m, P, 0) = start /\ start - start = 0
    BY <1>1 DEF Stop
  <2>2. SubSeq(P, 1, 0) = << >>
    BY SubSeqEmpty
  <2>3. Grown(m.output, start, 0) = m.output
    <3>1. Substring(start, 0) = << >>
      <4>1. Substring(start, 0) \in Seq(Nat) /\ Len(Substring(start, 0)) = 0
        BY <1>1, SubstringIs
      <4> QED BY <4>1, EmptySeq
    <3> DEFINE b == m.output.buffer
    <3>2. b \in Seq(Nat) /\ m.output.written + 0 = m.output.written
      BY DEF WriteReady, IsStream
    <3>3. b \o << >> = b
      <4> HIDE DEF b
      <4> QED BY <3>2, ConcatEmptySeq
    <3> QED BY <3>1, <3>2, <3>3 DEF Grown, WriteReady, IsStream
  <2>4. m.staging_size - 0 = m.staging_size
    BY DEF WriteReady
  <2>5. m = Written(m, start, << >>)
    BY <2>1, <2>3, <2>4 DEF Written, WriteReady
  <2>6. Cover(P, 0) = {} /\ start .. start - 1 = {} /\ 0 \in 0 .. 0
    BY <1>1 DEF Cover
  <2>7. WriteInv(m, P, m, 0)
    <3>1. /\ m = Written(m, Stop(m, P, 0), SubSeq(P, 0 + 1, 0))
          /\ Cover(P, 0) = start .. Stop(m, P, 0) - 1
          /\ ~(0 < 0)
      <4>1. 0 + 1 = 1 /\ ~(0 < 0)
        OBVIOUS
      <4> HIDE DEF start
      <4> QED BY <2>1, <2>2, <2>5, <2>6, <4>1, Zenon
    <3> QED BY <2>6, <3>1 DEF WriteInv
  <2> QED BY <1>1, <1>3, <2>7
<1>5. ASSUME NEW k \in 1 .. n, k - 1 \in T PROVE k \in T
  <2>1. WriteInv(m, P, g[k - 1], k - 1)
    BY <1>5
  <2>2. WriteInv(m, P, WriteItem(g[k - 1], P[k]), k)
    BY <2>1, WriteStep DEF n
  <2> QED BY <1>1, <1>3, <2>2
<1>6. 0 .. n \subseteq T
  <2> HIDE DEF T
  <2> QED BY <1>1, <1>4, <1>5, Induction
<1> QED BY <1>1, <1>6 DEF g, n

\* The loop stops at the first position that has no item: everything before is
\* written, everything behind is on the list.
LEMMA WriteItemsIs ==
    ASSUME NEW m, NEW P, WriteReady(m, P), Sized(Cover(P, Len(P)), m.staging_size)
    PROVE  \E s \in Nat : \E rest :
              /\ WriteItems(m, P)[Len(P)] = Written(m, s, rest)
              /\ m.unassembled_start_index <= s
              /\ s - m.unassembled_start_index <= m.output.capacity - Len(m.output.buffer)
              /\ InOrder(rest)
              /\ Cover(rest, Len(rest)) = {p \in Cover(P, Len(P)) : p > s}
              /\ Sized(Cover(rest, Len(rest)),
                       m.staging_size - (s - m.unassembled_start_index))
              /\ s \notin Cover(P, Len(P))
              /\ \A p \in Nat : m.unassembled_start_index <= p /\ p < s
                                   => p \in Cover(P, Len(P))
<1> DEFINE start == m.unassembled_start_index
           n == Len(P)
<1>1. /\ InOrder(P) /\ P \in Seq(Items) /\ n \in Nat /\ start \in Nat
      /\ \A j \in 1 .. n : /\ P[j] \in Items /\ P[j].first \in Nat /\ P[j].last \in Nat
                           /\ P[j].first <= P[j].last /\ start <= P[j].first
                           /\ P[j].last - start < m.output.capacity - Len(m.output.buffer)
  BY InOrderItems DEF WriteReady, IsItem, InOrder
<1>2. PICK j \in 0 .. n :
          /\ WriteItems(m, P)[n] = Written(m, Stop(m, P, j), SubSeq(P, j + 1, n))
          /\ Cover(P, j) = start .. Stop(m, P, j) - 1
          /\ j < n => P[j + 1].first # Stop(m, P, j)
  BY WriteLoop DEF WriteInv
<1> DEFINE s == Stop(m, P, j)
           rest == SubSeq(P, j + 1, n)
<1> HIDE DEF n
<1>3. s \in Nat /\ start <= s /\ s - start <= m.output.capacity - Len(m.output.buffer)
  <2>1. CASE j = 0
    <3>1. 0 <= m.output.capacity - Len(m.output.buffer)
      BY DEF WriteReady, IsStream
    <3>2. start - start = 0
      BY <1>1
    <3> QED BY <1>1, <2>1, <3>1, <3>2 DEF Stop
  <2>2. CASE j # 0
    <3>1. j \in 1 .. n
      BY <1>1, <2>2
    <3>2. m.output.capacity \in Int /\ Len(m.output.buffer) \in Int
      BY DEF WriteReady, IsStream
    <3> DEFINE cap == m.output.capacity
               held == Len(m.output.buffer)
               last == P[j].last
    <3>3. /\ cap \in Int /\ held \in Int /\ last \in Nat /\ P[j].first \in Nat
          /\ P[j].first <= last /\ start <= P[j].first /\ last - start < cap - held
          /\ s = last + 1
      BY <1>1, <2>2, <3>1, <3>2 DEF Stop
    <3> HIDE DEF cap, held, last, s
    <3>4. s \in Nat /\ start <= s /\ s - start <= cap - held
      BY <1>1, <3>3
    <3> QED BY <3>4 DEF cap, held
  <2> QED BY <2>1, <2>2
<1>4. ASSUME NEW i \in j + 1 .. n PROVE s < P[i].first
  <2>1. j + 1 \in 1 .. n /\ i \in 1 .. n /\ (i = j + 1 \/ j + 1 < i)
    BY <1>1, <1>4
  <2>2. s <= P[j + 1].first
    <3>1. CASE j = 0
      BY <1>1, <2>1, <3>1 DEF Stop
    <3>2. CASE j # 0
      <4>1. j \in 1 .. n /\ j < j + 1
        BY <1>1, <3>2
      <4>2. P[j].last < P[j + 1].first
        BY <1>1, <2>1, <4>1 DEF InOrder, n
      <4> QED BY <1>1, <2>1, <3>2, <4>1, <4>2 DEF Stop
    <3> QED BY <3>1, <3>2
  <2>3. s < P[j + 1].first
    BY <1>1, <1>2, <1>3, <2>1, <2>2
  <2>4. CASE i = j + 1
    BY <2>3, <2>4
  <2>5. CASE j + 1 < i
    <3>1. P[j + 1].last < P[i].first
      BY <1>1, <2>1, <2>5 DEF InOrder, n
    <3> QED BY <1>1, <1>3, <2>1, <2>3, <3>1
  <2> QED BY <2>1, <2>4, <2>5
<1>5. /\ rest \in Seq(Items) /\ Len(rest) = n - j
      /\ \A i \in 1 .. n - j : rest[i] = P[j + i]
  <2>1. \A i \in j + 1 .. n : P[i] \in Items
    BY <1>1
  <2>2. /\ rest \in Seq(Items) /\ Len(rest) = IF j + 1 <= n THEN n - (j + 1) + 1 ELSE 0
        /\ \A i \in 1 .. n - (j + 1) + 1 : rest[i] = P[j + 1 + i - 1]
    BY <1>1, <2>1, SubSeqProperties
  <2>3. n - (j + 1) + 1 = n - j /\ \A i \in 1 .. n - j : j + 1 + i - 1 = j + i
    BY <1>1
  <2> HIDE DEF rest
  <2> QED BY <1>1, <2>2, <2>3
<1>6. \A i \in 1 .. n - j : j + i \in 1 .. n /\ j + i \in j + 1 .. n
  BY <1>1
<1>7. \A i \in j + 1 .. n : i - j \in 1 .. n - j /\ j + (i - j) = i
  BY <1>1
<1> HIDE DEF s, rest
<1>8. InOrder(rest)
  <2>1. ASSUME NEW a \in 1 .. n - j, NEW b \in 1 .. n - j, a < b
        PROVE  rest[a].last < rest[b].first
    <3>1. j + a < j + b
      BY <1>1, <2>1
    <3> QED BY <1>1, <1>5, <1>6, <3>1 DEF InOrder, n
  <2>2. ASSUME NEW a \in 1 .. n - j
        PROVE  /\ rest[a].first <= rest[a].last
               /\ rest[a].data = Substring(rest[a].first, rest[a].last - rest[a].first + 1)
    BY <1>1, <1>5, <1>6 DEF InOrder, n
  <2> QED BY <1>5, <2>1, <2>2 DEF InOrder
<1>9. ASSUME NEW p
      PROVE  /\ p \in Cover(P, n) <=> p \in Cover(P, j) \/ p \in Cover(rest, Len(rest))
             /\ p \in Cover(rest, Len(rest)) => p > s /\ p \in Nat
             /\ p \in Cover(P, j) <=> p \in Nat /\ start <= p /\ p < s
  <2>1. p \in Cover(P, j) <=> p \in Nat /\ start <= p /\ p < s
    BY <1>1, <1>2, <1>3 DEF s
  <2>2. ASSUME p \in Cover(rest, Len(rest)) PROVE p > s /\ p \in Cover(P, n) /\ p \in Nat
    <3>1. PICK i \in 1 .. n - j : p \in Nat /\ P[j + i].first <= p /\ p <= P[j + i].last
      BY <1>5, <2>2 DEF Cover
    <3>2. s < P[j + i].first /\ P[j + i].first \in Nat
      BY <1>1, <1>4, <1>6
    <3> QED BY <1>3, <1>6, <3>1, <3>2 DEF Cover
  <2>3. ASSUME p \in Cover(P, n), p \notin Cover(P, j) PROVE p \in Cover(rest, Len(rest))
    <3>1. PICK i \in 1 .. n : p \in Nat /\ P[i].first <= p /\ p <= P[i].last
      BY <2>3 DEF Cover
    <3>2. i \in j + 1 .. n
      BY <1>1, <2>3, <3>1 DEF Cover
    <3> QED BY <1>5, <1>7, <3>1, <3>2 DEF Cover
  <2>4. p \in Cover(P, j) => p \in Cover(P, n)
    BY <1>1 DEF Cover
  <2> QED BY <2>1, <2>2, <2>3, <2>4
<1>10. Cover(rest, Len(rest)) = {p \in Cover(P, n) : p > s}
  <2>1. \A p \in Nat : p < s => ~(p > s)
    BY <1>3
  <2> QED BY <1>9, <2>1
<1>11. s \notin Cover(P, n)
  <2>1. ~(s > s) /\ ~(s < s)
    BY <1>3
  <2> QED BY <1>9, <2>1
<1>12. Sized(Cover(rest, Len(rest)), m.staging_size - (s - start))
  <2> DEFINE R == Cover(rest, Len(rest))
             c == Cardinality(R)
  <2>1. IsFiniteSet(R) /\ c \in Nat
    BY <1>10, FS_Subset, FS_CardinalityType DEF Sized, n
  <2>2. m.staging_size \in Nat /\ Cardinality(Cover(P, n)) = m.staging_size
    BY DEF Sized, n
  <2> HIDE DEF R
  <2>3. c = m.staging_size - (s - start)
    <3>1. CASE s = start
      <4>1. \A p \in Nat : ~(start <= p /\ p < start)
        BY <1>1
      <4>2. Cover(P, n) = R
        BY <1>9, <3>1, <4>1 DEF R
      <4> QED BY <1>1, <2>2, <3>1, <4>2
    <3>2. CASE s # start
      <4>1. s - 1 \in Nat /\ start <= s - 1
        BY <1>1, <1>3, <3>2
      <4>2. \A p \in start .. s - 1 : p \in Nat /\ start <= p /\ p < s /\ ~(p > s)
        BY <1>1, <1>3
      <4>3. Sized(R, c)
        BY <2>1 DEF Sized
      <4> HIDE DEF c
      <4>4. Sized(R \cup (start .. s - 1), c + (s - 1 - start + 1))
        BY <1>1, <1>9, <4>1, <4>2, <4>3, SizedAdd DEF R
      <4>5. Cover(P, n) = R \cup (start .. s - 1)
        BY <1>1, <1>2, <1>9 DEF R, s
      <4>6. c + (s - 1 - start + 1) = m.staging_size
        BY <2>2, <4>4, <4>5 DEF Sized
      <4> QED BY <1>1, <1>3, <2>1, <2>2, <4>6
    <3> QED BY <3>1, <3>2
  <2> QED BY <2>1, <2>3 DEF Sized, R
<1> QED BY <1>2, <1>3, <1>8, <1>9, <1>10, <1>11, <1>12 DEF s, rest, n
=============================================================================
