---------------------------- MODULE InputsProofs -----------------------------
(***************************************************************************)
(* What expandFolders makes of any list of specs, and rfc822FromEmail of   *)
(* any list of fields.                                                     *)
(***************************************************************************)
EXTENDS FolderSpecs, EmailFields, FiniteSetTheorems, SequenceTheorems, TLAPS

-----------------------------------------------------------------------------
(***************************************************************************)
(* Induction and order.                                                    *)
(***************************************************************************)
\* A set of numbers has all of them if it has 0 and the successors of its elements.
LEMMA AllNumbers ==
  ASSUME NEW S \in SUBSET Nat, 0 \in S, \A n \in S : n + 1 \in S
  PROVE  S = Nat
  <1> DEFINE Less == {p \in Nat \X Nat : p[1] < p[2]}
             Missing == Nat \ S
  <1>1. IsWellFoundedOn(Less, Nat)
    BY NatLessThanWellFounded DEF OpToRel
  <1>2. \A y, x \in Nat : <<y, x>> \in Less <=> y < x
    OBVIOUS
  <1>3. Missing \in SUBSET Nat
    OBVIOUS
  <1>4. SUFFICES ASSUME Missing # {} PROVE FALSE
    OBVIOUS
  <1> HIDE DEF Less, Missing
  <1>5. PICK x \in Missing : \A y \in Missing : ~ (<<y, x>> \in Less)
    BY <1>1, <1>3, <1>4, WFMin
  <1>6. x \in Nat /\ x # 0 /\ x - 1 \in Nat
    BY <1>3, <1>5 DEF Missing
  <1>7. x - 1 \in S
    <2>1. <<x - 1, x>> \in Less
      BY <1>2, <1>6
    <2>2. x - 1 \notin Missing
      BY <1>5, <2>1
    <2> QED
      BY <1>6, <2>2 DEF Missing
  <1>8. x \in S
    BY <1>6, <1>7
  <1> QED
    BY <1>5, <1>8 DEF Missing

\* An element with the least number.
LEMMA LeastElement ==
  ASSUME NEW S, NEW r \in [S -> Nat], S # {}
  PROVE  \E m \in S : \A x \in S : r[m] <= r[x]
  <1> DEFINE Less == {p \in Nat \X Nat : p[1] < p[2]}
             Numbers == {r[x] : x \in S}
  <1>1. IsWellFoundedOn(Less, Nat)
    BY NatLessThanWellFounded DEF OpToRel
  <1>2. \A y, x \in Nat : <<y, x>> \in Less <=> y < x
    OBVIOUS
  <1>3. Numbers \in SUBSET Nat /\ Numbers # {}
    OBVIOUS
  <1> HIDE DEF Less
  <1>4. PICK n \in Numbers : \A y \in Numbers : ~ (<<y, n>> \in Less)
    <2> HIDE DEF Numbers
    <2> QED
      BY <1>1, <1>3, WFMin
  <1>5. PICK m \in S : r[m] = n
    BY <1>4
  <1>6. \A x \in S : r[m] <= r[x]
    <2> SUFFICES ASSUME NEW x \in S PROVE r[m] <= r[x]
      OBVIOUS
    <2>1. r[x] \in Numbers /\ r[x] \in Nat /\ r[m] \in Nat
      OBVIOUS
    <2>2. ~(r[x] < r[m])
      BY <1>2, <1>4, <1>5, <2>1
    <2> QED
      BY <2>1, <2>2
  <1> QED
    BY <1>6

\* The orders of a finite set.
LEMMA OrdersOfSet ==
  ASSUME NEW S, IsFiniteSet(S), NEW order \in SetToSeqs(S)
  PROVE  order \in Seq(S) /\ ToSet(order) = S
  <1> DEFINE n == Cardinality(S)
  <1>1. n \in Nat
    BY FS_CardinalityType
  <1>2. IsFiniteSet(1..n) /\ Cardinality(1..n) = n
    BY <1>1, FS_Interval
  <1>3. order \in [1..n -> S] /\ \A i, j \in 1..n : i # j => order[i] # order[j]
    BY DEF SetToSeqs
  <1>4. order \in Injection(1..n, S)
    BY <1>3 DEF Injection, IsInjective
  <1>5. order \in Surjection(1..n, S)
    BY <1>2, <1>4, FS_Injection
  <1>6. order \in Seq(S) /\ DOMAIN order = 1..n
    BY <1>1, <1>3
  <1>7. ToSet(order) = S
    BY <1>3, <1>5, <1>6 DEF ToSet, Surjection
  <1> QED
    BY <1>6, <1>7

Sorted(order, r) == \A i, j \in DOMAIN order : i < j => r[order[i]] < r[order[j]]

\* A finite set whose elements have different numbers can be sorted by them.
LEMMA SortedOrder ==
  ASSUME NEW S, IsFiniteSet(S), NEW r \in [S -> Nat], IsInjective(r)
  PROVE  \E order \in SetToSeqs(S) : Sorted(order, r)
  <1> DEFINE Sortable(T) == \E order \in SetToSeqs(T) : Sorted(order, r)
             Sizes == {n \in Nat : \A T \in SUBSET S : Cardinality(T) = n => Sortable(T)}
  <1>1. 0 \in Sizes
    <2> SUFFICES ASSUME NEW T \in SUBSET S, Cardinality(T) = 0 PROVE Sortable(T)
      OBVIOUS
    <2>1. IsFiniteSet(T)
      BY FS_Subset
    <2>2. T = {}
      BY <2>1, FS_EmptySet
    <2>3. << >> \in SetToSeqs(T)
      BY <2>2 DEF SetToSeqs
    <2> QED
      BY <2>3 DEF Sorted
  <1>2. ASSUME NEW n \in Sizes PROVE n + 1 \in Sizes
    <2> SUFFICES ASSUME NEW T \in SUBSET S, Cardinality(T) = n + 1 PROVE Sortable(T)
      BY <1>2
    <2>1. n \in Nat /\ \A U \in SUBSET S : Cardinality(U) = n => Sortable(U)
      BY <1>2
    <2>2. IsFiniteSet(T) /\ T # {}
      BY <2>1, FS_Subset, FS_EmptySet
    <2> DEFINE rT == [x \in T |-> r[x]]
    <2>3. rT \in [T -> Nat]
      OBVIOUS
    <2>4. PICK m \in T : \A x \in T : rT[m] <= rT[x]
      <3> HIDE DEF rT
      <3> QED
        BY <2>2, <2>3, LeastElement
    <2>5. \A x \in T \ {m} : r[m] < r[x]
      <3> SUFFICES ASSUME NEW x \in T \ {m} PROVE r[m] < r[x]
        OBVIOUS
      <3>1. r[m] <= r[x] /\ r[m] \in Nat /\ r[x] \in Nat
        BY <2>4
      <3>2. r[m] # r[x]
        BY DEF IsInjective
      <3> QED
        BY <3>1, <3>2
    <2>6. Cardinality(T \ {m}) = n
      <3>1. Cardinality(T \ {m}) = Cardinality(T) - 1
        BY <2>2, FS_RemoveElement
      <3> QED
        BY <2>1, <3>1
    <2>7. PICK rest \in SetToSeqs(T \ {m}) : Sorted(rest, r)
      BY <2>1, <2>6
    <2>8. /\ rest \in [1..n -> T \ {m}]
          /\ \A i, j \in 1..n : i # j => rest[i] # rest[j]
      BY <2>6, <2>7 DEF SetToSeqs
    <2> DEFINE all == [i \in 1..(n + 1) |-> IF i = 1 THEN m ELSE rest[i - 1]]
    <2>9. ASSUME NEW i \in 1..(n + 1), i # 1
          PROVE  i - 1 \in 1..n /\ all[i] = rest[i - 1] /\ all[i] \in T \ {m}
      BY <2>1, <2>8, <2>9
    <2>10. all \in [1..(n + 1) -> T]
      BY <2>9
    <2>11. ASSUME NEW i \in 1..(n + 1), NEW j \in 1..(n + 1), i < j
           PROVE  r[all[i]] < r[all[j]]
      <3>1. CASE i = 1
        BY <2>1, <2>5, <2>9, <2>11, <3>1
      <3>2. CASE i # 1
        BY <2>1, <2>7, <2>8, <2>9, <2>11, <3>2 DEF Sorted
      <3> QED
        BY <3>1, <3>2
    <2>12. ASSUME NEW i \in 1..(n + 1), NEW j \in 1..(n + 1), i # j
           PROVE  all[i] # all[j]
      <3> HIDE DEF all
      <3>1. i < j \/ j < i
        BY <2>1, <2>12
      <3>2. all[i] \in S /\ all[j] \in S
        BY <2>10
      <3> QED
        BY <2>11, <3>1, <3>2
    <2>13. all \in SetToSeqs(T)
      BY <2>10, <2>12 DEF SetToSeqs
    <2>14. Sorted(all, r)
      BY <2>10, <2>11 DEF Sorted
    <2> QED
      BY <2>13, <2>14
  <1> HIDE DEF Sortable
  <1>3. Sizes = Nat
    <2>1. Sizes \in SUBSET Nat
      OBVIOUS
    <2> HIDE DEF Sizes
    <2> QED
      BY <1>1, <1>2, <2>1, AllNumbers
  <1>4. Cardinality(S) \in Nat /\ S \in SUBSET S
    BY FS_CardinalityType
  <1>5. Sortable(S)
    BY <1>3, <1>4
  <1> QED
    BY <1>5 DEF Sortable

-----------------------------------------------------------------------------
(***************************************************************************)
(* The orderedSet.                                                         *)
(***************************************************************************)
AnyName == Name \cup FolderSpec

\* What the orderedSet keeps true of itself.
OrderedSet(s) ==
    /\ s = [data |-> s.data, orderCount |-> s.orderCount]
    /\ s.orderCount \in Nat
    /\ DOMAIN s.data \subseteq AnyName /\ IsFiniteSet(DOMAIN s.data)
    /\ s.data \in [DOMAIN s.data -> 0..(s.orderCount - 1)]
    /\ IsInjective(s.data)

LEMMA EmptyOrderedSet == OrderedSet(newOrderedSet) /\ DOMAIN newOrderedSet.data = {}
  BY FS_EmptySet DEF OrderedSet, newOrderedSet, IsInjective

\* A new entry gets a number that no entry has, and comes last.
LEMMA AddOne ==
  ASSUME NEW s, OrderedSet(s), NEW key \in AnyName
  PROVE  /\ OrderedSet(AddEntry(s, key))
         /\ DOMAIN AddEntry(s, key).data = DOMAIN s.data \cup {key}
  <1>1. CASE Has(s, key)
    BY <1>1 DEF AddEntry, Has
  <1>2. CASE ~Has(s, key)
    <2> DEFINE K == DOMAIN s.data
               d == [k \in K \cup {key} |-> IF k = key THEN s.orderCount ELSE s.data[k]]
               t == [data |-> d, orderCount |-> s.orderCount + 1]
    <2>1. AddEntry(s, key) = t
      BY <1>2 DEF AddEntry
    <2>2. /\ key \notin K /\ s.orderCount \in Nat
          /\ K \subseteq AnyName /\ IsFiniteSet(K)
          /\ s.data \in [K -> 0..(s.orderCount - 1)]
          /\ \A a, b \in K : s.data[a] = s.data[b] => a = b
      BY <1>2 DEF Has, OrderedSet, IsInjective
    <2>3. IsFiniteSet(K \cup {key})
      BY <2>2, FS_AddElement
    <2>4. d \in [K \cup {key} -> 0..s.orderCount]
      BY <2>2
    <2>5. ASSUME NEW a \in K \cup {key}, NEW b \in K \cup {key}, d[a] = d[b]
          PROVE  a = b
      <3>1. \A k \in K : d[k] = s.data[k] /\ d[k] # s.orderCount
        BY <2>2
      <3>2. d[key] = s.orderCount
        OBVIOUS
      <3> HIDE DEF d
      <3> QED
        BY <2>2, <2>5, <3>1, <3>2
    <2>6. t.data = d /\ t.orderCount = s.orderCount + 1 /\ DOMAIN d = K \cup {key}
      OBVIOUS
    <2>7. s.orderCount + 1 \in Nat /\ (s.orderCount + 1) - 1 = s.orderCount
      BY <2>2
    <2> HIDE DEF d
    <2>8. OrderedSet(t)
      BY <2>2, <2>3, <2>4, <2>5, <2>6, <2>7 DEF OrderedSet, IsInjective
    <2> QED
      BY <2>1, <2>6, <2>8
  <1> QED
    BY <1>1, <1>2

\* Removing leaves the other entries their numbers.
LEMMA RemoveSome ==
  ASSUME NEW s, OrderedSet(s), NEW keys
  PROVE  /\ OrderedSet(RemoveEntries(s, keys))
         /\ DOMAIN RemoveEntries(s, keys).data = DOMAIN s.data \ keys
  <1> DEFINE K == DOMAIN s.data \ keys
             d == [k \in K |-> s.data[k]]
             t == [data |-> d, orderCount |-> s.orderCount]
  <1>1. RemoveEntries(s, keys) = t
    BY DEF RemoveEntries, Restrict, OrderedSet
  <1>2. IsFiniteSet(K)
    BY FS_Subset DEF OrderedSet
  <1>3. /\ d \in [K -> 0..(s.orderCount - 1)] /\ K \subseteq AnyName
        /\ \A a, b \in K : d[a] = d[b] => a = b
    BY DEF OrderedSet, IsInjective
  <1>4. t.data = d /\ t.orderCount = s.orderCount /\ DOMAIN d = K
    OBVIOUS
  <1> HIDE DEF d, K
  <1>5. OrderedSet(t)
    BY <1>2, <1>3, <1>4 DEF OrderedSet, IsInjective
  <1> QED
    BY <1>1, <1>4, <1>5 DEF K

\* The orderedSet after each turn of a loop that adds entries.
LEMMA LoopUnfolds ==
  ASSUME NEW K, NEW order \in Seq(K), NEW s, NEW keys
  PROVE  \E added :
           /\ AddEntries(s, order, keys) = added[Len(order)]
           /\ added[0] = s
           /\ \A n \in 1..Len(order) :
                added[n] = IF order[n] \in keys THEN AddEntry(added[n - 1], order[n])
                           ELSE added[n - 1]
  <1> DEFINE N == Len(order)
             Turn(h, n) == IF n = 0 THEN s
                           ELSE IF order[n] \in keys THEN AddEntry(h[n - 1], order[n])
                           ELSE h[n - 1]
             Unfolded(m) == \E h : h = [n \in 0..m |-> Turn(h, n)]
             Done == {m \in Nat : Unfolded(m)}
  <1>1. N \in Nat
    OBVIOUS
  <1>2. Unfolded(0)
    <2> DEFINE h == [n \in 0..0 |-> s]
    <2>1. h = [n \in 0..0 |-> Turn(h, n)]
      OBVIOUS
    <2> QED
      BY <2>1
  <1>3. ASSUME NEW m \in Nat, Unfolded(m) PROVE Unfolded(m + 1)
    <2>1. PICK h : h = [n \in 0..m |-> Turn(h, n)]
      BY <1>3
    <2> DEFINE g == [n \in 0..(m + 1) |-> IF n = m + 1 THEN Turn(h, n) ELSE h[n]]
    <2>2. \A n \in 0..m : g[n] = h[n] /\ h[n] = Turn(h, n)
      <3>1. \A n \in 0..m : n \in 0..(m + 1) /\ n # m + 1
        OBVIOUS
      <3> HIDE DEF Turn
      <3>2. \A n \in 0..m : g[n] = h[n]
        BY <3>1
      <3> HIDE DEF g
      <3>3. \A n \in 0..m : h[n] = Turn(h, n)
        BY <2>1
      <3> QED
        BY <3>2, <3>3
    <2>3. ASSUME NEW n \in 0..(m + 1) PROVE g[n] = Turn(g, n)
      <3>1. g[n] = Turn(h, n)
        <4> HIDE DEF Turn
        <4>1. CASE n = m + 1
          BY <4>1
        <4>2. CASE n \in 0..m
          BY <2>2, <4>2
        <4> QED
          BY <4>1, <4>2
      <3>2. n # 0 => g[n - 1] = h[n - 1]
        <4> HIDE DEF g
        <4> QED
          BY <2>2
      <3> HIDE DEF g
      <3> QED
        BY <3>1, <3>2
    <2>4. g = [n \in 0..(m + 1) |-> Turn(g, n)]
      <3>1. g = [n \in 0..(m + 1) |-> g[n]]
        OBVIOUS
      <3> HIDE DEF g, Turn
      <3> QED
        BY <2>3, <3>1
    <2> QED
      BY <2>4
  <1> HIDE DEF Unfolded
  <1>4. Done = Nat
    <2>1. Done \in SUBSET Nat /\ 0 \in Done /\ \A m \in Done : m + 1 \in Done
      BY <1>2, <1>3
    <2> HIDE DEF Done
    <2> QED
      BY <2>1, AllNumbers
  <1>5. Unfolded(N)
    BY <1>1, <1>4
  <1> DEFINE added == CHOOSE h : h = [n \in 0..N |-> Turn(h, n)]
  <1>6. added = [n \in 0..N |-> Turn(added, n)]
    <2> HIDE DEF Turn
    <2> QED
      BY <1>5 DEF Unfolded
  <1>7. AddEntries(s, order, keys) = added[N]
    BY DEF AddEntries
  <1>8. \A n \in 0..N : added[n] = Turn(added, n)
    <2> HIDE DEF Turn, added
    <2> QED
      BY <1>6
  <1> HIDE DEF added
  <1>9. added[0] = s
    BY <1>1, <1>8
  <1>10. \A n \in 1..N : added[n] = Turn(added, n) /\ n # 0
    <2> HIDE DEF Turn
    <2> QED
      BY <1>1, <1>8
  <1> QED
    BY <1>7, <1>9, <1>10

\* A loop adds what it is given to, and nothing else.
LEMMA AddSome ==
  ASSUME NEW s, OrderedSet(s), NEW order \in Seq(AnyName), NEW keys
  PROVE  /\ OrderedSet(AddEntries(s, order, keys))
         /\ DOMAIN AddEntries(s, order, keys).data
              = DOMAIN s.data \cup (ToSet(order) \cap keys)
  <1>1. PICK added :
          /\ AddEntries(s, order, keys) = added[Len(order)]
          /\ added[0] = s
          /\ \A n \in 1..Len(order) :
               added[n] = IF order[n] \in keys THEN AddEntry(added[n - 1], order[n])
                          ELSE added[n - 1]
    BY LoopUnfolds
  <1> DEFINE Seen(n) == {order[i] : i \in 1..n}
             Good(n) == /\ OrderedSet(added[n])
                        /\ DOMAIN added[n].data = DOMAIN s.data \cup (Seen(n) \cap keys)
             Turns == {n \in Nat : n <= Len(order) => Good(n)}
  <1>2. Len(order) \in Nat /\ DOMAIN order = 1..Len(order)
    OBVIOUS
  <1>3. Good(0)
    BY <1>1
  <1>4. ASSUME NEW n \in Nat, Good(n), n + 1 <= Len(order) PROVE Good(n + 1)
    <2>1. n + 1 \in 1..Len(order) /\ (n + 1) - 1 = n /\ order[n + 1] \in AnyName
      BY <1>2, <1>4
    <2>2. Seen(n + 1) = Seen(n) \cup {order[n + 1]}
      <3>1. 1..(n + 1) = (1..n) \cup {n + 1}
        BY <1>4
      <3> QED
        BY <3>1
    <2>3. added[n + 1] = IF order[n + 1] \in keys THEN AddEntry(added[n], order[n + 1])
                         ELSE added[n]
      BY <1>1, <2>1
    <2> HIDE DEF Seen
    <2>4. CASE order[n + 1] \in keys
      BY <1>4, <2>1, <2>2, <2>3, <2>4, AddOne
    <2>5. CASE order[n + 1] \notin keys
      BY <1>4, <2>2, <2>3, <2>5
    <2> QED
      BY <2>4, <2>5
  <1> HIDE DEF Good
  <1>5. Turns = Nat
    <2>1. Turns \in SUBSET Nat /\ 0 \in Turns
      BY <1>3
    <2>2. ASSUME NEW n \in Turns PROVE n + 1 \in Turns
      <3>1. n \in Nat /\ n + 1 \in Nat /\ (n <= Len(order) => Good(n))
        BY <2>2
      <3>2. n + 1 <= Len(order) => n <= Len(order)
        BY <1>2, <3>1
      <3> QED
        BY <1>4, <3>1, <3>2
    <2> HIDE DEF Turns
    <2> QED
      BY <2>1, <2>2, AllNumbers
  <1>6. Good(Len(order))
    BY <1>2, <1>5
  <1>7. Seen(Len(order)) = ToSet(order)
    BY <1>2 DEF ToSet
  <1> QED
    BY <1>1, <1>6, <1>7 DEF Good

\* The entries come out of the orderedSet.
LEMMA EntriesOfSet ==
  ASSUME NEW s, OrderedSet(s)
  PROVE  ToSet(OrderedEntries(s)) = DOMAIN s.data
  <1> DEFINE K == DOMAIN s.data
  <1>1. IsFiniteSet(K) /\ s.data \in [K -> Nat] /\ IsInjective(s.data)
    BY DEF OrderedSet
  <1>2. \E order \in SetToSeqs(K) : Sorted(order, s.data)
    BY <1>1, SortedOrder
  <1>3. OrderedEntries(s) \in SetToSeqs(K)
    BY <1>2 DEF OrderedEntries, Sorted
  <1> QED
    BY <1>1, <1>3, OrdersOfSet

\* The union has what both sets have, in whatever order the map is iterated.
LEMMA UnionOfSets ==
  ASSUME NEW s, OrderedSet(s), NEW keys, NEW known \in Unions(s, keys)
  PROVE  OrderedSet(known) /\ DOMAIN known.data = DOMAIN s.data \cap keys
  <1>1. PICK order \in SetToSeqs(DOMAIN s.data) :
               known = AddEntries(newOrderedSet, order, keys)
    BY DEF Unions
  <1>2. IsFiniteSet(DOMAIN s.data) /\ DOMAIN s.data \subseteq AnyName
    BY DEF OrderedSet
  <1>3. order \in Seq(DOMAIN s.data) /\ ToSet(order) = DOMAIN s.data
    BY <1>2, OrdersOfSet
  <1>4. order \in Seq(AnyName)
    BY <1>2, <1>3
  <1>5. OrderedSet(newOrderedSet) /\ DOMAIN newOrderedSet.data = {}
    BY EmptyOrderedSet
  <1>6. /\ OrderedSet(known)
        /\ DOMAIN known.data = DOMAIN newOrderedSet.data \cup (ToSet(order) \cap keys)
    BY <1>1, <1>4, <1>5, AddSome
  <1> QED
    BY <1>3, <1>5, <1>6

-----------------------------------------------------------------------------
(***************************************************************************)
(* The order of names.                                                     *)
(***************************************************************************)
LEMMA NamesFinite == IsFiniteSet(Name)
  <1> DEFINE name == [p \in FolderDashes \X Base |-> [dashes |-> p[1], base |-> p[2]]]
  <1>1. IsFiniteSet(FolderDashes \X Base)
    BY BaseAssumption, FS_Product
  <1>2. name \in [FolderDashes \X Base -> Name]
    BY DEF Name
  <1>3. \A n \in Name : \E p \in FolderDashes \X Base : name[p] = n
    <2> SUFFICES ASSUME NEW n \in Name
                 PROVE  \E p \in FolderDashes \X Base : name[p] = n
      OBVIOUS
    <2>1. /\ n.dashes \in FolderDashes /\ n.base \in Base
          /\ n = [dashes |-> n.dashes, base |-> n.base]
      BY DEF Name
    <2>2. name[<<n.dashes, n.base>>] = n
      BY <2>1
    <2> QED
      BY <2>1, <2>2
  <1>4. name \in Surjection(FolderDashes \X Base, Name)
    BY <1>2, <1>3 DEF Surjection
  <1> QED
    BY <1>1, <1>4, FS_Surjection

\* Names are ordered strictly, and any two that differ.
LEMMA NameOrder ==
  /\ \A a \in Name : ~Before(a, a)
  /\ \A a, b \in Name : a = b \/ Before(a, b) \/ Before(b, a)
  /\ \A a, b, c \in Name : Before(a, b) /\ Before(b, c) => Before(a, c)
  <1>1. \A a \in Name :
          /\ a.dashes \in Nat /\ a.base \in Base /\ Rank[a.base] \in Int
          /\ a = [dashes |-> a.dashes, base |-> a.base]
    <2>1. Cardinality(Base) \in Nat
      BY BaseAssumption, FS_CardinalityType
    <2>2. \A x \in Base : Rank[x] \in Int
      BY <2>1, RankAssumption
    <2> SUFFICES ASSUME NEW a \in Name
                 PROVE  /\ a.dashes \in Nat /\ a.base \in Base /\ Rank[a.base] \in Int
                        /\ a = [dashes |-> a.dashes, base |-> a.base]
      OBVIOUS
    <2>3. /\ a.dashes \in FolderDashes /\ a.base \in Base
          /\ a = [dashes |-> a.dashes, base |-> a.base]
      BY DEF Name
    <2>4. a.dashes \in Nat
      BY <2>3, BaseAssumption
    <2> QED
      BY <2>2, <2>3, <2>4
  <1>2. \A x, y \in Base : Rank[x] = Rank[y] => x = y
    BY RankAssumption DEF IsInjective
  <1>3. \A a \in Name : ~Before(a, a)
    BY <1>1 DEF Before
  <1>4. ASSUME NEW a \in Name, NEW b \in Name PROVE a = b \/ Before(a, b) \/ Before(b, a)
    <2>1. CASE a.dashes = b.dashes /\ Rank[a.base] = Rank[b.base]
      BY <1>1, <1>2, <2>1
    <2>2. CASE ~(a.dashes = b.dashes /\ Rank[a.base] = Rank[b.base])
      BY <1>1, <2>2 DEF Before
    <2> QED
      BY <2>1, <2>2
  <1>5. \A a, b, c \in Name : Before(a, b) /\ Before(b, c) => Before(a, c)
    BY <1>1 DEF Before
  <1> QED
    BY <1>3, <1>4, <1>5

\* sort.Strings puts the same names in order: each name's number is how many come
\* before it.
LEMMA SortOfNames ==
  ASSUME NEW names, ToSet(names) \subseteq Name
  PROVE  /\ SortNames(names) \in Seq(Name)
         /\ ToSet(SortNames(names)) = ToSet(names)
         /\ \A i, j \in DOMAIN SortNames(names) :
              i < j => Before(SortNames(names)[i], SortNames(names)[j])
  <1> DEFINE S == ToSet(names)
             Below(a) == {b \in S : Before(b, a)}
             r == [a \in S |-> Cardinality(Below(a))]
  <1>1. IsFiniteSet(S) /\ S \subseteq Name
    BY NamesFinite, FS_Subset
  <1> HIDE DEF S
  <1>2. \A a \in S : IsFiniteSet(Below(a)) /\ Cardinality(Below(a)) \in Nat
    BY <1>1, FS_Subset, FS_CardinalityType
  <1>3. r \in [S -> Nat]
    BY <1>2
  <1>4. ASSUME NEW a \in S, NEW b \in S, Before(a, b) PROVE r[a] < r[b]
    <2>1. a \in Below(b) /\ a \notin Below(a)
      BY <1>1, <1>4, NameOrder
    <2>2. Below(a) \in SUBSET Below(b)
      BY <1>1, <1>4, NameOrder
    <2> HIDE DEF Below
    <2>3. /\ Cardinality(Below(a)) <= Cardinality(Below(b))
          /\ Cardinality(Below(a)) # Cardinality(Below(b))
      BY <1>2, <2>1, <2>2, FS_Subset
    <2> QED
      BY <1>2, <2>3
  <1>5. \A a, b \in S : r[a] < r[b] => Before(a, b)
    <2> SUFFICES ASSUME NEW a \in S, NEW b \in S, r[a] < r[b] PROVE Before(a, b)
      OBVIOUS
    <2> HIDE DEF r
    <2>1. r[a] \in Nat /\ r[b] \in Nat
      BY <1>3
    <2>2. a # b /\ ~(r[b] < r[a])
      BY <2>1
    <2>3. ~Before(b, a)
      BY <1>4, <2>2
    <2> QED
      BY <1>1, <2>2, <2>3, NameOrder
  <1>6. IsInjective(r)
    <2> SUFFICES ASSUME NEW a \in S, NEW b \in S, r[a] = r[b] PROVE a = b
      BY <1>3 DEF IsInjective
    <2> HIDE DEF r
    <2>1. r[a] \in Nat /\ r[b] \in Nat /\ ~(r[a] < r[b]) /\ ~(r[b] < r[a])
      BY <1>3
    <2> QED
      BY <1>1, <1>4, <2>1, NameOrder
  <1> HIDE DEF r
  <1>7. PICK order \in SetToSeqs(S) : Sorted(order, r)
    BY <1>1, <1>3, <1>6, SortedOrder
  <1>8. order \in Seq(S)
    BY <1>1, OrdersOfSet
  <1>9. \A i, j \in DOMAIN order : i < j => Before(order[i], order[j])
    <2> SUFFICES ASSUME NEW i \in DOMAIN order, NEW j \in DOMAIN order, i < j
                 PROVE  Before(order[i], order[j])
      OBVIOUS
    <2>1. order[i] \in S /\ order[j] \in S
      BY <1>8
    <2> QED
      BY <1>5, <1>7, <2>1 DEF Sorted
  <1>10. /\ SortNames(names) \in SetToSeqs(S)
         /\ \A i, j \in DOMAIN SortNames(names) :
              i < j => Before(SortNames(names)[i], SortNames(names)[j])
    BY <1>7, <1>9 DEF SortNames, S
  <1>11. SortNames(names) \in Seq(S) /\ ToSet(SortNames(names)) = S
    BY <1>1, <1>10, OrdersOfSet
  <1>12. SortNames(names) \in Seq(Name)
    BY <1>1, <1>11
  <1> QED
    BY <1>10, <1>11, <1>12 DEF S

-----------------------------------------------------------------------------
(***************************************************************************)
(* expandFolders: the inductive invariant. A folder of the server is in    *)
(* the orderedSet when the last spec that affects it adds it. The result   *)
(* is what the orderedSet has of the server's folders, sorted.             *)
(***************************************************************************)
Picked(spec, name) ==
    \/ IsSelector(spec, allSelector)
    \/ IsSelector(spec, gmailSelector) /\ isGmailDir(name)

\* What a spec does speak of: unlike in Matches, the name that is removed is
\* trimmed twice.
Affects(spec, name) ==
    LET what == TrimDash(spec) IN
    IF spec.dashes = 0 THEN Picked(spec, name) \/ spec = name
    ELSE Picked(what, name) \/ TrimDash(what) = name

Chosen(name) ==
    \E i \in DOMAIN specs :
      /\ specs[i].dashes = 0 /\ Affects(specs[i], name)
      /\ \A j \in (i + 1)..Len(specs) : specs[j].dashes > 0 => ~Affects(specs[j], name)

FolderType ==
    /\ available \in Seq(Name)
    /\ specs \in Seq(FolderSpec)
    /\ OrderedSet(selected)
    /\ pc \in {"loop", "done"}

ChosenInv ==
    \A name \in ToSet(available) : name \in DOMAIN selected.data <=> Chosen(name)

ResultInv ==
    /\ pc = "loop" => folders = << >>
    /\ pc = "done" =>
         /\ ToSet(folders) = DOMAIN selected.data \cap ToSet(available)
         /\ \A i, j \in DOMAIN folders : i < j => Before(folders[i], folders[j])

FolderInv == FolderType /\ ChosenInv /\ ResultInv

LEMMA FolderInvInit == Init => FolderInv
  <1> SUFFICES ASSUME Init PROVE FolderInv
    OBVIOUS
  <1>1. PICK S \in SUBSET Name : available \in SetToSeqs(S)
    BY DEF Init
  <1>2. IsFiniteSet(S)
    BY NamesFinite, FS_Subset
  <1>3. available \in Seq(S)
    BY <1>1, <1>2, OrdersOfSet
  <1>4. available \in Seq(Name)
    BY <1>3
  <1>5. selected = newOrderedSet /\ specs = << >> /\ folders = << >> /\ pc = "loop"
    BY DEF Init
  <1>6. \A name : ~Chosen(name)
    BY <1>5 DEF Chosen
  <1> QED
    BY <1>4, <1>5, <1>6, EmptyOrderedSet
       DEF FolderInv, FolderType, ChosenInv, ResultInv

\* A spec decides on what it affects, and on nothing else.
LEMMA LastSpec ==
  ASSUME specs \in Seq(FolderSpec), NEW spec \in FolderSpec, NEW name,
         specs' = Append(specs, spec)
  PROVE  Chosen(name)' <=> IF Affects(spec, name) THEN spec.dashes = 0 ELSE Chosen(name)
  <1> DEFINE n == Len(specs)
  <1>1. /\ n \in Nat /\ Len(specs') = n + 1 /\ specs'[n + 1] = spec
        /\ DOMAIN specs = 1..n /\ DOMAIN specs' = 1..(n + 1)
        /\ \A i \in 1..n : specs'[i] = specs[i]
    OBVIOUS
  <1>2. spec.dashes \in Nat
    BY BaseAssumption DEF FolderSpec
  <1>3. Chosen(name)' <=>
          \E i \in 1..(n + 1) :
            /\ specs'[i].dashes = 0 /\ Affects(specs'[i], name)
            /\ \A j \in (i + 1)..(n + 1) :
                 specs'[j].dashes > 0 => ~Affects(specs'[j], name)
    BY <1>1 DEF Chosen, Affects, Picked, IsSelector, isGmailDir, TrimDash
  <1>4. Chosen(name) <=>
          \E i \in 1..n :
            /\ specs[i].dashes = 0 /\ Affects(specs[i], name)
            /\ \A j \in (i + 1)..n : specs[j].dashes > 0 => ~Affects(specs[j], name)
    BY <1>1 DEF Chosen
  <1> HIDE DEF n
  <1>5. CASE Affects(spec, name) /\ spec.dashes = 0
    <2>1. \A j \in ((n + 1) + 1)..(n + 1) : FALSE
      BY <1>1
    <2>2. n + 1 \in 1..(n + 1)
      BY <1>1
    <2> QED
      BY <1>1, <1>3, <1>5, <2>1, <2>2
  <1>6. CASE Affects(spec, name) /\ spec.dashes # 0
    <2>1. spec.dashes > 0
      BY <1>2, <1>6
    <2>2. \A i \in 1..(n + 1) : i = n + 1 \/ n + 1 \in (i + 1)..(n + 1)
      BY <1>1
    <2> QED
      BY <1>1, <1>3, <1>6, <2>1, <2>2
  <1>7. CASE ~Affects(spec, name)
    <2>1. ASSUME NEW i \in 1..(n + 1), specs'[i].dashes = 0, Affects(specs'[i], name),
                 \A j \in (i + 1)..(n + 1) :
                   specs'[j].dashes > 0 => ~Affects(specs'[j], name)
          PROVE  Chosen(name)
      <3>1. i # n + 1
        BY <1>1, <1>7, <2>1
      <3>2. i \in 1..n
        BY <1>1, <3>1
      <3>3. \A j \in (i + 1)..n : j \in (i + 1)..(n + 1) /\ j \in 1..n
        BY <1>1, <3>2
      <3> QED
        BY <1>1, <1>4, <2>1, <3>2, <3>3
    <2>2. ASSUME NEW i \in 1..n, specs[i].dashes = 0, Affects(specs[i], name),
                 \A j \in (i + 1)..n : specs[j].dashes > 0 => ~Affects(specs[j], name)
          PROVE  Chosen(name)'
      <3>1. i \in 1..(n + 1)
        BY <1>1
      <3>2. \A j \in (i + 1)..(n + 1) : j = n + 1 \/ (j \in (i + 1)..n /\ j \in 1..n)
        BY <1>1
      <3>3. \A j \in (i + 1)..(n + 1) :
              specs'[j].dashes > 0 => ~Affects(specs'[j], name)
        BY <1>1, <1>7, <2>2, <3>2
      <3> QED
        BY <1>1, <1>3, <2>2, <3>1, <3>3
    <2> QED
      BY <1>3, <1>4, <1>7, <2>1, <2>2
  <1> QED
    BY <1>5, <1>6, <1>7

\* What is read of specs and names.
LEMMA SpecFacts ==
  ASSUME NEW spec \in FolderSpec
  PROVE  /\ spec.dashes \in 0..MaxDashes
         /\ spec = [dashes |-> spec.dashes, base |-> spec.base]
         /\ TrimDash(spec) = [dashes |-> IF spec.dashes = 0 THEN 0 ELSE spec.dashes - 1,
                              base |-> spec.base]
         /\ TrimDash(spec) \in FolderSpec
  BY BaseAssumption DEF FolderSpec, TrimDash

LEMMA NameIsNoSelector ==
  ASSUME NEW name \in Name
  PROVE  ~IsAnySelector(name)
  BY BaseAssumption DEF Name, IsAnySelector, IsSelector

\* A spec adds or removes what it affects.
LEMMA AddSpecSelects ==
  ASSUME FolderType, NEW spec \in FolderSpec, AddSpec(spec)
  PROVE  /\ OrderedSet(selected')
         /\ \A name \in ToSet(available) :
              name \in DOMAIN selected'.data <=>
                Affects(spec, name) \/ name \in DOMAIN selected.data
  <1>1. /\ OrderedSet(selected) /\ available \in Seq(Name) /\ available \in Seq(AnyName)
        /\ ToSet(available) \subseteq Name /\ spec \in AnyName
    <2>1. available \in Seq(Name)
      BY DEF FolderType
    <2>2. available \in Seq(AnyName)
      BY <2>1 DEF AnyName
    <2> QED
      BY <2>1, <2>2 DEF FolderType, ToSet, AnyName
  <1>2. CASE IsAnySelector(spec)
    <2>1. selected' = AddEntries(selected, available, Expansion(spec))
      BY <1>2 DEF AddSpec
    <2>2. /\ OrderedSet(selected')
          /\ DOMAIN selected'.data
               = DOMAIN selected.data \cup (ToSet(available) \cap Expansion(spec))
      BY <1>1, <2>1, AddSome
    <2>3. ASSUME NEW name \in ToSet(available)
          PROVE  name \in Expansion(spec) <=> Affects(spec, name)
      <3>1. spec # name
        BY <1>1, <1>2, NameIsNoSelector
      <3> QED
        BY <1>2, <3>1
           DEF AddSpec, Expansion, Affects, Picked, IsAnySelector
    <2> QED
      BY <2>2, <2>3
  <1>3. CASE ~IsAnySelector(spec)
    <2>1. selected' = AddEntry(selected, spec)
      BY <1>3 DEF AddSpec
    <2>2. /\ OrderedSet(selected')
          /\ DOMAIN selected'.data = DOMAIN selected.data \cup {spec}
      BY <1>1, <2>1, AddOne
    <2>3. \A name : Affects(spec, name) <=> spec = name
      BY <1>3 DEF AddSpec, Affects, Picked, IsAnySelector
    <2> QED
      BY <2>2, <2>3
  <1> QED
    BY <1>2, <1>3

LEMMA RemoveSpecSelects ==
  ASSUME FolderType, NEW spec \in FolderSpec, RemoveSpec(spec)
  PROVE  /\ OrderedSet(selected')
         /\ \A name \in ToSet(available) :
              name \in DOMAIN selected'.data <=>
                ~Affects(spec, name) /\ name \in DOMAIN selected.data
  <1> DEFINE what == TrimDash(spec)
  <1>1. /\ OrderedSet(selected) /\ ToSet(available) \subseteq Name
        /\ what \in FolderSpec /\ spec.dashes # 0
    BY SpecFacts DEF FolderType, ToSet, RemoveSpec
  <1>2. CASE IsAnySelector(what)
    <2>1. selected' = RemoveEntries(selected, Expansion(what))
      BY <1>2 DEF RemoveSpec
    <2>2. /\ OrderedSet(selected')
          /\ DOMAIN selected'.data = DOMAIN selected.data \ Expansion(what)
      BY <1>1, <2>1, RemoveSome
    <2>3. ASSUME NEW name \in ToSet(available)
          PROVE  name \in Expansion(what) <=> Affects(spec, name)
      <3>1. TrimDash(what) = what
        BY <1>2 DEF IsAnySelector, IsSelector, TrimDash
      <3>2. what # name
        BY <1>1, <1>2, NameIsNoSelector
      <3> HIDE DEF what
      <3>3. Affects(spec, name) <=> Picked(what, name) \/ TrimDash(what) = name
        BY <1>1 DEF Affects, what
      <3> QED
        BY <1>2, <3>1, <3>2, <3>3 DEF Expansion, Picked, IsAnySelector
    <2> QED
      BY <2>2, <2>3
  <1>3. CASE ~IsAnySelector(what)
    <2>1. selected' = RemoveEntries(selected, {TrimDash(what)})
      BY <1>3 DEF RemoveSpec, RemoveEntry
    <2>2. /\ OrderedSet(selected')
          /\ DOMAIN selected'.data = DOMAIN selected.data \ {TrimDash(what)}
      BY <1>1, <2>1, RemoveSome
    <2>3. \A name : Affects(spec, name) <=> TrimDash(what) = name
      BY <1>1, <1>3 DEF Affects, Picked, IsAnySelector
    <2> QED
      BY <2>2, <2>3
  <1> QED
    BY <1>2, <1>3

LEMMA InterpretKeeps ==
  ASSUME FolderInv, NEW spec \in FolderSpec, Interpret(spec)
  PROVE  FolderInv'
  <1>1. /\ FolderType /\ ChosenInv /\ specs' = Append(specs, spec)
        /\ available' = available /\ folders' = folders /\ pc' = pc /\ pc = "loop"
        /\ folders = << >> /\ specs \in Seq(FolderSpec) /\ spec.dashes \in Nat
    BY BaseAssumption DEF FolderInv, FolderType, ResultInv, Interpret, FolderSpec
  <1>2. /\ OrderedSet(selected')
        /\ \A name \in ToSet(available) :
             name \in DOMAIN selected'.data <=>
               IF Affects(spec, name) THEN spec.dashes = 0
               ELSE name \in DOMAIN selected.data
    <2>1. CASE AddSpec(spec)
      BY <1>1, <2>1, AddSpecSelects DEF AddSpec
    <2>2. CASE RemoveSpec(spec)
      BY <1>1, <2>2, RemoveSpecSelects DEF RemoveSpec
    <2> QED
      BY <2>1, <2>2 DEF Interpret
  <1>3. \A name : Chosen(name)' <=> IF Affects(spec, name) THEN spec.dashes = 0
                                    ELSE Chosen(name)
    BY <1>1, LastSpec
  <1>4. FolderType'
    BY <1>1, <1>2 DEF FolderType, OrderedSet
  <1>5. ChosenInv'
    BY <1>1, <1>2, <1>3 DEF ChosenInv, Chosen
  <1>6. ResultInv'
    BY <1>1 DEF ResultInv
  <1> QED
    BY <1>4, <1>5, <1>6 DEF FolderInv

\* What is handed out is what there is in both sets, sorted.
LEMMA FinishSorts == FolderInv /\ Finish => FolderInv'
  <1> SUFFICES ASSUME FolderInv, Finish PROVE FolderInv'
    OBVIOUS
  <1>1. PICK known \in Unions(selected, ToSet(available)) :
               folders' = SortNames(OrderedEntries(known))
    BY DEF Finish
  <1>2. /\ OrderedSet(selected) /\ ToSet(available) \subseteq Name
        /\ pc' = "done" /\ UNCHANGED <<available, specs, selected>>
    BY DEF FolderInv, FolderType, Finish, ToSet
  <1>3. /\ OrderedSet(known)
        /\ DOMAIN known.data = DOMAIN selected.data \cap ToSet(available)
    BY <1>2, UnionOfSets
  <1>4. ToSet(OrderedEntries(known)) = DOMAIN selected.data \cap ToSet(available)
    BY <1>3, EntriesOfSet
  <1>5. /\ ToSet(folders') = DOMAIN selected.data \cap ToSet(available)
        /\ \A i, j \in DOMAIN folders' : i < j => Before(folders'[i], folders'[j])
    BY <1>1, <1>2, <1>4, SortOfNames
  <1>6. ResultInv'
    BY <1>2, <1>5 DEF ResultInv, ToSet
  <1>7. FolderType'
    BY <1>2 DEF FolderInv, FolderType, OrderedSet
  <1>8. ChosenInv'
    BY <1>2 DEF FolderInv, ChosenInv, Chosen
  <1> QED
    BY <1>6, <1>7, <1>8 DEF FolderInv

\* Every step of expandFolders keeps it.
LEMMA FolderInvariant == Spec => []FolderInv
  <1>1. FolderInv /\ [Next]_vars => FolderInv'
    <2> SUFFICES ASSUME FolderInv, [Next]_vars PROVE FolderInv'
      OBVIOUS
    <2>1. CASE UNCHANGED vars
      BY <2>1 DEF vars, FolderInv, FolderType, ChosenInv, ResultInv, Chosen
    <2>2. CASE Next
      BY <2>2, InterpretKeeps, FinishSorts DEF Next
    <2> QED
      BY <2>1, <2>2
  <1> QED
    BY <1>1, FolderInvInit, PTL DEF Spec

-----------------------------------------------------------------------------
\* The types; only folders of the server are ever handed to a thread, whatever the
\* specs say (expandFolders).
THEOREM OnlyKnownFolders == Spec => []TypeOK
  <1>1. FolderInv => TypeOK
    <2> SUFFICES ASSUME FolderInv PROVE TypeOK
      OBVIOUS
    <2>1. ToSet(available) \subseteq Name
      BY DEF FolderInv, FolderType, ToSet
    <2>2. /\ DOMAIN selected.data \subseteq Name \cup FolderSpec
          /\ selected.orderCount \in Nat
      BY DEF FolderInv, FolderType, OrderedSet, AnyName
    <2>3. ToSet(folders) \subseteq ToSet(available)
      <3>1. CASE pc = "loop"
        BY <3>1 DEF FolderInv, ResultInv, ToSet
      <3>2. CASE pc = "done"
        BY <3>2 DEF FolderInv, ResultInv
      <3> QED
        BY <3>1, <3>2 DEF FolderInv, FolderType
    <2> QED
      BY <2>1, <2>2, <2>3 DEF TypeOK, FolderInv, FolderType
  <1> QED
    BY <1>1, FolderInvariant, PTL

\* The last spec that affects a folder of the server decides on it, however many
\* dashes specs and folders begin with; the result is sorted, each folder once.
LastAffecting ==
    pc = "done" =>
      /\ \A name \in Name :
           name \in ToSet(folders) <=> name \in ToSet(available) /\ Chosen(name)
      /\ \A i, j \in DOMAIN folders : i < j => Before(folders[i], folders[j])

\* expandFolders hands out what the specs choose in their order, independently of
\* how the server's reply and the map are ordered.
THEOREM LastAffectingDecides == Spec => []LastAffecting
  <1>1. FolderInv => LastAffecting
    BY DEF FolderInv, ChosenInv, ResultInv, LastAffecting
  <1> QED
    BY <1>1, FolderInvariant, PTL

\* A spec with at most one dash affects what it is meant to speak of.
LEMMA OneDashIsMeant ==
  ASSUME MaxDashes <= 1, NEW spec \in FolderSpec, NEW name \in Name
  PROVE  Affects(spec, name) <=> Matches(spec, name)
  <1> DEFINE what == TrimDash(spec)
  <1>1. /\ spec.dashes = 0 \/ spec.dashes = 1
        /\ spec = [dashes |-> spec.dashes, base |-> spec.base]
        /\ what = [dashes |-> 0, base |-> spec.base]
    BY BaseAssumption, SpecFacts
  <1>2. TrimDash(what) = what
    BY <1>1 DEF TrimDash
  <1> HIDE DEF what
  <1>3. CASE spec.dashes = 0
    BY <1>1, <1>3 DEF Affects, Matches, Picked, IsSelector
  <1>4. CASE spec.dashes = 1
    BY <1>2, <1>4 DEF Affects, Matches, Picked, IsSelector, what
  <1> QED
    BY <1>1, <1>3, <1>4

\* "specs are interpreted in order": with no spec of two dashes, of which expandFolders
\* trims both, the last spec that speaks of a folder decides.
THEOREM LastSpecDecides == MaxDashes <= 1 => (Spec => []LastSpecWins)
  <1>1. SUFFICES ASSUME MaxDashes <= 1 PROVE Spec => []LastSpecWins
    OBVIOUS
  <1>2. FolderInv => LastSpecWins
    <2> SUFFICES ASSUME FolderInv, pc = "done" PROVE LastSpecWins
      BY DEF LastSpecWins
    <2>1. /\ LastAffecting /\ specs \in Seq(FolderSpec)
      BY DEF FolderInv, FolderType, ChosenInv, ResultInv, LastAffecting
    <2>2. \A i \in DOMAIN specs : \A name \in Name :
            Affects(specs[i], name) <=> Matches(specs[i], name)
      BY <1>1, <2>1, OneDashIsMeant
    <2>3. \A i \in DOMAIN specs : \A j \in (i + 1)..Len(specs) : j \in DOMAIN specs
      BY <2>1
    <2> QED
      BY <2>1, <2>2, <2>3 DEF LastAffecting, LastSpecWins, Chosen
  <1> QED
    BY <1>2, FolderInvariant, PTL

-----------------------------------------------------------------------------
(***************************************************************************)
(* rfc822FromEmail: the inductive invariant. Unless an error has been      *)
(* found, each member has been set from the one field of its kind, and the *)
(* fields that are of no other kind are the header and the text, in this   *)
(* order. An error has a reason that can be seen in the fields.            *)
(***************************************************************************)
Other == {"plain", "mention"}

\* The positions of the fields of some kinds.
Places(kinds) == {i \in DOMAIN fields : fields[i] \in kinds}

EmailType ==
    /\ fields \in Seq(FieldKind)
    /\ email \in [{"uid", "timestamp", "header", "rfc822"} -> Nat]
    /\ outcome \in {"none", "text", "error"}

MembersInv ==
    outcome # "error" =>
      /\ Places({"uid"}) = {email.uid} \ {None}
      /\ Places({"time"}) = {email.timestamp} \ {None}
      /\ Places(Other) = {email.header, email.rfc822} \ {None}
      /\ email.header = None => email.rfc822 = None
      /\ email.header # None => fields[email.header] = "mention"
      /\ email.rfc822 # None => email.header < email.rfc822

\* Two fields of a kind of which there has to be one.
Repeated ==
    \E i, j \in DOMAIN fields :
      i # j /\ fields[i] = fields[j] /\ fields[i] \in {"uid", "time"}

\* The text comes before the header, or is not the only one.
Misplaced ==
    \/ \E i \in Places(Other) :
         fields[i] = "plain" /\ \A j \in Places(Other) : i <= j
    \/ \E i, j, k \in Places(Other) : i < j /\ j < k

Lacking ==
    \/ Places({"uid"}) = {} \/ Places({"time"}) = {}
    \/ \A i, j \in Places(Other) : i = j

OutcomeInv ==
    /\ outcome # "error" => len = rfc822ExpectedNumFields
    /\ outcome = "text" => Len(fields) = len /\ Validate
    /\ outcome = "error" =>
         \/ len # rfc822ExpectedNumFields
         \/ Repeated \/ Misplaced \/ (Len(fields) = len /\ Lacking)

EmailInv == EmailType /\ MembersInv /\ OutcomeInv

\* No field has been looked at before the call.
LEMMA EmailInvInit == EmailInit => EmailInv
  <1> SUFFICES ASSUME EmailInit PROVE EmailInv
    OBVIOUS
  <1>1. /\ fields = << >> /\ \A kinds : Places(kinds) = {}
        /\ email = [uid |-> 0, timestamp |-> 0, header |-> 0, rfc822 |-> 0]
        /\ outcome = IF len = rfc822ExpectedNumFields THEN "none" ELSE "error"
    BY DEF EmailInit, Places, None
  <1>2. EmailType
    BY <1>1 DEF EmailType
  <1>3. MembersInv
    BY <1>1 DEF MembersInv, None
  <1>4. OutcomeInv
    BY <1>1 DEF OutcomeInv
  <1> QED
    BY <1>2, <1>3, <1>4 DEF EmailInv

\* The next field is added to the places of its kind.
LEMMA PlacesOfNext ==
  ASSUME EmailType, NEW kind \in FieldKind, fields' = Append(fields, kind)
  PROVE  /\ fields' \in Seq(FieldKind)
         /\ Len(fields) \in Nat /\ Len(fields') = Len(fields) + 1
         /\ DOMAIN fields = 1..Len(fields)
         /\ DOMAIN fields' = 1..(Len(fields) + 1)
         /\ \A i \in DOMAIN fields : fields'[i] = fields[i]
         /\ fields'[Len(fields) + 1] = kind
         /\ \A kinds : Places(kinds) \subseteq 1..Len(fields)
         /\ \A kinds : Places(kinds)' =
              IF kind \in kinds THEN Places(kinds) \cup {Len(fields) + 1}
              ELSE Places(kinds)
  <1>1. /\ fields' \in Seq(FieldKind)
        /\ Len(fields) \in Nat /\ Len(fields') = Len(fields) + 1
        /\ DOMAIN fields = 1..Len(fields)
        /\ DOMAIN fields' = 1..(Len(fields) + 1)
        /\ \A i \in DOMAIN fields : fields'[i] = fields[i]
        /\ fields'[Len(fields) + 1] = kind
    BY DEF EmailType
  <1>2. \A i \in 1..Len(fields) : i # Len(fields) + 1
    BY <1>1
  <1>3. DOMAIN fields' = DOMAIN fields \cup {Len(fields) + 1}
    BY <1>1
  <1>4. ASSUME NEW kinds
        PROVE  Places(kinds)' = IF kind \in kinds
                                THEN Places(kinds) \cup {Len(fields) + 1}
                                ELSE Places(kinds)
    BY <1>1, <1>2, <1>3 DEF Places
  <1> QED
    BY <1>1, <1>4 DEF Places

\* A reason for an error remains one.
LEMMA ReasonsStay ==
  ASSUME EmailType, NEW kind \in FieldKind, fields' = Append(fields, kind)
  PROVE  (Repeated => Repeated') /\ (Misplaced => Misplaced')
  <1> USE PlacesOfNext
  <1>1. Repeated => Repeated'
    BY DEF Repeated
  <1>2. ASSUME NEW i \in Places(Other), fields[i] = "plain",
               \A j \in Places(Other) : i <= j
        PROVE  Misplaced'
    <2>1. i \in 1..Len(fields) /\ Len(fields) \in Nat
      OBVIOUS
    <2>2. i \in Places(Other)' /\ fields'[i] = "plain"
      BY <1>2, <2>1
    <2>3. \A j \in Places(Other)' : j \in Places(Other) \/ j = Len(fields) + 1
      OBVIOUS
    <2>4. \A j \in Places(Other)' : i <= j
      BY <1>2, <2>1, <2>3
    <2> QED
      BY <2>2, <2>4 DEF Misplaced
  <1>3. ASSUME NEW i \in Places(Other), NEW j \in Places(Other),
               NEW k \in Places(Other), i < j, j < k
        PROVE  Misplaced'
    <2>1. Places(Other) \subseteq Places(Other)'
      OBVIOUS
    <2> QED
      BY <1>3, <2>1 DEF Misplaced
  <1> QED
    BY <1>1, <1>2, <1>3 DEF Misplaced

\* A member that is set a second time is a field that is there twice.
LEMMA SetMember ==
  ASSUME EmailInv, outcome = "none",
         NEW kind \in {"uid", "time"}, fields' = Append(fields, kind),
         NEW member \in {"uid", "timestamp"},
         member = (IF kind = "uid" THEN "uid" ELSE "timestamp"),
         SetOnce(member, Len(fields) + 1), UNCHANGED len
  PROVE  EmailInv'
  <1> DEFINE n == Len(fields) + 1
  <1>1. EmailType /\ MembersInv /\ kind \in FieldKind
    BY DEF EmailInv, FieldKind
  <1>2. /\ n \in Nat \ {0} /\ fields'[n] = kind /\ n \in DOMAIN fields'
        /\ DOMAIN fields \subseteq DOMAIN fields' /\ n \notin DOMAIN fields
        /\ \A i \in DOMAIN fields : fields'[i] = fields[i]
        /\ fields' \in Seq(FieldKind)
    BY <1>1, PlacesOfNext
  <1>3. /\ Places({kind})' = Places({kind}) \cup {n}
        /\ \A kinds : kind \notin kinds => Places(kinds)' = Places(kinds)
    BY <1>1, PlacesOfNext
  <1>4. Places({kind}) = {email[member]} \ {None}
    BY <1>1 DEF MembersInv
  <1>5. CASE email[member] = None
    <2>1. email' = [email EXCEPT ![member] = n] /\ outcome' = "none"
      BY <1>5 DEF SetOnce
    <2>2. EmailType'
      BY <1>1, <1>2, <2>1 DEF EmailType
    <2>3. /\ email' \in [{"uid", "timestamp", "header", "rfc822"} -> Nat]
          /\ email'[member] = n
          /\ \A other \in {"uid", "timestamp", "header", "rfc822"} \ {member} :
               email'[other] = email[other]
      BY <1>1, <2>1, <2>2 DEF EmailType
    <2>4. Places({kind})' = {email'[member]} \ {None}
      BY <1>2, <1>3, <1>4, <1>5, <2>3 DEF None
    <2>5. Places(Other)' = Places(Other) /\ email'.header = email.header
          /\ email'.rfc822 = email.rfc822
      BY <1>3, <2>3 DEF Other
    <2>6. email.header # None => email.header \in DOMAIN fields
      BY <1>1 DEF MembersInv, Places
    <2>7. MembersInv'
      BY <1>1, <1>2, <1>3, <2>1, <2>3, <2>4, <2>5, <2>6 DEF MembersInv
    <2>8. OutcomeInv'
      BY <2>1 DEF EmailInv, OutcomeInv
    <2> QED
      BY <2>2, <2>7, <2>8 DEF EmailInv
  <1>6. CASE email[member] # None
    <2>1. outcome' = "error" /\ UNCHANGED email
      BY <1>6 DEF SetOnce
    <2>2. EmailType'
      BY <1>1, <1>2, <2>1 DEF EmailType
    <2>3. email[member] \in DOMAIN fields /\ fields[email[member]] = kind
      BY <1>4, <1>6 DEF Places
    <2>4. Repeated'
      BY <1>2, <2>3 DEF Repeated
    <2> QED
      BY <2>1, <2>2, <2>4 DEF EmailInv, MembersInv, OutcomeInv
  <1> QED
    BY <1>5, <1>6

\* The first of the others is taken for the header, and the second for the text.
LEMMA SetHeaderOrText ==
  ASSUME EmailInv, outcome = "none",
         NEW kind \in Other, fields' = Append(fields, kind),
         SetOther(kind, Len(fields) + 1), UNCHANGED len
  PROVE  EmailInv'
  <1> DEFINE n == Len(fields) + 1
  <1>1. EmailType /\ MembersInv /\ kind \in FieldKind
    BY DEF EmailInv, FieldKind, Other
  <1>2. /\ n \in Nat \ {0} /\ fields'[n] = kind
        /\ n \notin DOMAIN fields /\ \A i \in DOMAIN fields : i < n
        /\ \A i \in DOMAIN fields : fields'[i] = fields[i]
        /\ fields' \in Seq(FieldKind)
    BY <1>1, PlacesOfNext
  <1>3. /\ Places(Other)' = Places(Other) \cup {n}
        /\ Places({"uid"})' = Places({"uid"})
        /\ Places({"time"})' = Places({"time"})
    BY <1>1, PlacesOfNext DEF Other
  <1>4. /\ Places(Other) = {email.header, email.rfc822} \ {None}
        /\ email.header = None => email.rfc822 = None
        /\ email.rfc822 # None => email.header < email.rfc822
        /\ email.header # None => fields[email.header] = "mention"
    BY <1>1 DEF MembersInv
  <1>5. /\ email.header # None => email.header \in DOMAIN fields
        /\ email.rfc822 # None => email.rfc822 \in DOMAIN fields
    BY <1>4 DEF Places
  <1>6. CASE email.header # None /\ email.rfc822 = None
    <2>1. email' = [email EXCEPT !.rfc822 = n] /\ outcome' = "none"
      BY <1>6 DEF SetOther, SetOnce
    <2>2. EmailType'
      BY <1>1, <1>2, <2>1 DEF EmailType
    <2>3. /\ email'.rfc822 = n /\ email'.header = email.header
          /\ email'.uid = email.uid /\ email'.timestamp = email.timestamp
      BY <1>1, <2>1 DEF EmailType
    <2>4. Places(Other)' = {email'.header, email'.rfc822} \ {None}
      BY <1>2, <1>3, <1>4, <1>6, <2>3 DEF None
    <2>5. MembersInv'
      BY <1>1, <1>2, <1>3, <1>4, <1>5, <1>6, <2>1, <2>3, <2>4 DEF MembersInv
    <2>6. OutcomeInv'
      BY <2>1 DEF EmailInv, OutcomeInv
    <2> QED
      BY <2>2, <2>5, <2>6 DEF EmailInv
  <1>7. CASE email.header # None /\ email.rfc822 # None
    <2>1. outcome' = "error" /\ UNCHANGED email
      BY <1>7 DEF SetOther, SetOnce
    <2>2. EmailType'
      BY <1>1, <1>2, <2>1 DEF EmailType
    <2>3. email.header < email.rfc822 /\ email.rfc822 < n
      BY <1>2, <1>4, <1>5, <1>7
    <2>4. {email.header, email.rfc822, n} \subseteq Places(Other)'
      BY <1>3, <1>4, <1>7
    <2>5. Misplaced'
      BY <2>3, <2>4 DEF Misplaced
    <2> QED
      BY <2>1, <2>2, <2>5 DEF EmailInv, MembersInv, OutcomeInv
  <1>8. CASE email.header = None /\ kind = "mention"
    <2>1. email' = [email EXCEPT !.header = n] /\ outcome' = "none"
      BY <1>8 DEF SetOther, SetOnce
    <2>2. EmailType'
      BY <1>1, <1>2, <2>1 DEF EmailType
    <2>3. /\ email'.header = n /\ email'.rfc822 = email.rfc822
          /\ email'.uid = email.uid /\ email'.timestamp = email.timestamp
      BY <1>1, <2>1 DEF EmailType
    <2>4. Places(Other)' = {email'.header, email'.rfc822} \ {None}
      BY <1>2, <1>3, <1>4, <1>8, <2>3 DEF None
    <2>5. MembersInv'
      BY <1>1, <1>2, <1>3, <1>4, <1>8, <2>1, <2>3, <2>4 DEF MembersInv
    <2>6. OutcomeInv'
      BY <2>1 DEF EmailInv, OutcomeInv
    <2> QED
      BY <2>2, <2>5, <2>6 DEF EmailInv
  <1>9. CASE email.header = None /\ kind = "plain"
    <2>1. outcome' = "error" /\ UNCHANGED email
      BY <1>9 DEF SetOther
    <2>2. EmailType'
      BY <1>1, <1>2, <2>1 DEF EmailType
    <2>3. Places(Other)' = {n}
      BY <1>3, <1>4, <1>9
    <2>4. Misplaced'
      BY <1>2, <1>9, <2>3 DEF Misplaced
    <2> QED
      BY <2>1, <2>2, <2>4 DEF EmailInv, MembersInv, OutcomeInv
  <1> QED
    BY <1>6, <1>7, <1>8, <1>9 DEF Other

\* The next field changes what its kind is for.
LEMMA SetFieldKeeps ==
  ASSUME EmailInv, NEW kind \in FieldKind, SetField(kind)
  PROVE  EmailInv'
  <1>1. /\ outcome = "none" /\ fields' = Append(fields, kind) /\ UNCHANGED len
    BY DEF SetField
  <1>2. CASE kind = "uid"
    <2>1. SetOnce("uid", Len(fields) + 1)
      BY <1>2 DEF SetField
    <2> QED
      BY <1>1, <1>2, <2>1, SetMember
  <1>3. CASE kind = "time"
    <2>1. SetOnce("timestamp", Len(fields) + 1)
      BY <1>3 DEF SetField
    <2> QED
      BY <1>1, <1>3, <2>1, SetMember
  <1>4. CASE kind = "name"
    <2>1. UNCHANGED <<email, outcome>>
      BY <1>4 DEF SetField
    <2>2. EmailType /\ MembersInv
      BY DEF EmailInv
    <2>3. EmailType'
      BY <1>1, <2>1, <2>2, PlacesOfNext DEF EmailType
    <2>4. /\ Places({"uid"})' = Places({"uid"})
          /\ Places({"time"})' = Places({"time"})
          /\ Places(Other)' = Places(Other)
          /\ \A i \in DOMAIN fields : fields'[i] = fields[i]
      BY <1>1, <1>4, <2>2, PlacesOfNext DEF Other
    <2>5. email.header # None => email.header \in DOMAIN fields
      BY <1>1, <2>2 DEF MembersInv, Places
    <2>6. MembersInv'
      BY <2>1, <2>2, <2>4, <2>5 DEF MembersInv
    <2>7. OutcomeInv'
      BY <1>1, <2>1 DEF EmailInv, OutcomeInv
    <2> QED
      BY <2>3, <2>6, <2>7 DEF EmailInv
  <1>5. CASE kind \in Other
    <2>1. SetOther(kind, Len(fields) + 1)
      BY <1>5 DEF SetField, Other
    <2> QED
      BY <1>1, <1>5, <2>1, SetHeaderOrText
  <1> QED
    BY <1>2, <1>3, <1>4, <1>5 DEF FieldKind, Other

\* What is lacking at the end was not among the fields.
LEMMA FinishKeeps ==
  ASSUME EmailInv, FinishEmail
  PROVE  EmailInv'
  <1>1. /\ outcome = "none" /\ Len(fields) = len /\ UNCHANGED <<len, fields, email>>
        /\ outcome' = IF Validate THEN "text" ELSE "error"
    BY DEF FinishEmail
  <1>2. EmailType' /\ MembersInv'
    BY <1>1 DEF EmailInv, EmailType, MembersInv, Places
  <1>3. CASE Validate
    <2>1. Validate'
      BY <1>1, <1>3 DEF Validate
    <2> QED
      BY <1>1, <1>2, <1>3, <2>1 DEF EmailInv, OutcomeInv
  <1>4. CASE ~Validate
    <2>1. MembersInv
      BY DEF EmailInv
    <2>2. Lacking
      BY <1>1, <1>4, <2>1 DEF Validate, MembersInv, Lacking
    <2>3. Lacking'
      BY <1>1, <2>2 DEF Lacking, Places
    <2> QED
      BY <1>1, <1>2, <1>4, <2>3 DEF EmailInv, OutcomeInv
  <1> QED
    BY <1>3, <1>4

\* Every step of rfc822FromEmail keeps it.
LEMMA EmailInvariant == EmailSpec => []EmailInv
  <1>1. EmailInv /\ [EmailNext]_emailVars => EmailInv'
    <2> SUFFICES ASSUME EmailInv, [EmailNext]_emailVars PROVE EmailInv'
      OBVIOUS
    <2>1. CASE UNCHANGED emailVars
      BY <2>1 DEF emailVars, EmailInv, EmailType, MembersInv, OutcomeInv, Places,
             Repeated, Misplaced, Lacking, Validate
    <2>2. CASE EmailNext
      BY <2>2, SetFieldKeeps, FinishKeeps DEF EmailNext
    <2> QED
      BY <2>1, <2>2
  <1> QED
    BY <1>1, EmailInvInit, PTL DEF EmailSpec

\* A set of two has two elements.
LEMMA CardinalityOfPair ==
  ASSUME NEW a, NEW b, a # b
  PROVE  Cardinality({a, b}) = 2
  <1>1. IsFiniteSet({a}) /\ Cardinality({a}) = 1
    BY FS_Singleton
  <1>2. Cardinality({a} \cup {b}) = 2
    BY <1>1, FS_AddElement
  <1>3. {a} \cup {b} = {a, b}
    OBVIOUS
  <1> QED
    BY <1>2, <1>3

\* A list of fields that is not of the expected form, as a server may cause, is
\* never stored with a header for its text, or with the UID or the time of
\* another message (rfc822FromEmail, email.set).
THEOREM NothingIsGuessed == EmailSpec => []NothingGuessed
  <1>1. EmailInv => NothingGuessed
    <2> SUFFICES ASSUME EmailInv, outcome = "text" PROVE NothingGuessed
      BY DEF NothingGuessed
    <2>1. /\ Places({"uid"}) = {email.uid}
          /\ Places({"time"}) = {email.timestamp}
          /\ Places(Other) = {email.header, email.rfc822}
          /\ fields[email.header] = "mention" /\ email.header < email.rfc822
          /\ email.header \in Nat /\ email.rfc822 \in Nat
      BY DEF EmailInv, EmailType, MembersInv, OutcomeInv, Validate
    <2>2. /\ Places({"uid"}) = {i \in DOMAIN fields : fields[i] = "uid"}
          /\ Places({"time"}) = {i \in DOMAIN fields : fields[i] = "time"}
      BY DEF Places
    <2>3. /\ Cardinality({i \in DOMAIN fields : fields[i] = "uid"}) = 1
          /\ Cardinality({i \in DOMAIN fields : fields[i] = "time"}) = 1
      BY <2>1, <2>2, FS_Singleton
    <2>4. Cardinality(Places(Other)) = 2
      BY <2>1, CardinalityOfPair
    <2>5. \E h \in Places(Other) : /\ fields[h] = "mention" /\ h < email.rfc822
                                   /\ Places(Other) = {h, email.rfc822}
      BY <2>1
    <2>6. Places(Other) = {i \in DOMAIN fields : fields[i] \in {"plain", "mention"}}
      BY DEF Places, Other
    <2> QED
      BY <2>3, <2>4, <2>5, <2>6 DEF NothingGuessed
  <1> QED
    BY <1>1, EmailInvariant, PTL

-----------------------------------------------------------------------------
(***************************************************************************)
(* A reply of three items. The names of the items are at odd positions and *)
(* their values at even ones.                                              *)
(***************************************************************************)
\* An item is told by its value, and one with the text by its name.
LEMMA KindsOfItem ==
  ASSUME NEW item \in Items
  PROVE  /\ item[1] \in {"name", "mention"}
         /\ item[1] = "mention" <=> item \in TextItems
         /\ item[2] = "uid" <=> item = UidItem
         /\ item[2] = "time" <=> item = TimeItem
         /\ item[2] \in Other <=> item \notin {UidItem, TimeItem}
         /\ item[2] \in {"uid", "time"} \cup Other
  BY DEF Items, TextItems, UidItem, TimeItem, OtherItem, Other

\* The library writes six fields, two per item.
LEMMA WrittenReply ==
  ASSUME NEW reply \in Replies
  PROVE  /\ \A x \in 1..3 : reply[x] \in Items
         /\ ToSet(reply) = {reply[x] : x \in 1..3}
         /\ Written(reply) \in Seq(FieldKind) /\ Len(Written(reply)) = 6
         /\ \A x \in 1..3 : /\ Written(reply)[2 * x - 1] = reply[x][1]
                            /\ Written(reply)[2 * x] = reply[x][2]
  <1>1. PICK a \in Items, b \in Items, c \in Items : reply = <<a, b, c>>
    BY DEF Replies
  <1>2. /\ reply[1] = a /\ reply[2] = b /\ reply[3] = c /\ DOMAIN reply = 1..3
    BY <1>1
  <1>3. \A item \in Items :
          item \in Seq(FieldKind) /\ Len(item) = 2
    <2> SUFFICES ASSUME NEW item \in Items
                 PROVE  item \in Seq(FieldKind) /\ Len(item) = 2
      OBVIOUS
    <2>1. PICK m, n \in FieldKind : item = <<m, n>>
      BY DEF Items, TextItems, UidItem, TimeItem, OtherItem, FieldKind
    <2> HIDE DEF FieldKind
    <2> QED
      BY <2>1
  <1>4. \A x \in 1..3 : x = 1 \/ x = 2 \/ x = 3
    OBVIOUS
  <1>5. \A x \in 1..3 : reply[x] \in Items
    BY <1>2, <1>4
  <1>6. ToSet(reply) = {reply[x] : x \in 1..3}
    BY <1>2 DEF ToSet
  <1> DEFINE ab == a \o b
  <1>7. /\ ab \in Seq(FieldKind) /\ Len(ab) = 4
        /\ ab[1] = a[1] /\ ab[2] = a[2] /\ ab[3] = b[1] /\ ab[4] = b[2]
    <2>1. a \in Seq(FieldKind) /\ b \in Seq(FieldKind) /\ Len(a) = 2 /\ Len(b) = 2
      BY <1>3
    <2>2. /\ ab \in Seq(FieldKind) /\ Len(ab) = Len(a) + Len(b)
          /\ \A q \in 1..Len(a) + Len(b) :
               ab[q] = IF q <= Len(a) THEN a[q] ELSE b[q - Len(a)]
      BY <2>1, ConcatProperties, Zenon
    <2> HIDE DEF ab
    <2> QED
      BY <2>1, <2>2
  <1>8. Written(reply) = ab \o c
    BY <1>2 DEF Written
  <1> HIDE DEF ab
  <1> DEFINE w == ab \o c
  <1>9. /\ w \in Seq(FieldKind) /\ Len(w) = 6
        /\ w[1] = a[1] /\ w[2] = a[2] /\ w[3] = b[1] /\ w[4] = b[2]
        /\ w[5] = c[1] /\ w[6] = c[2]
    <2>1. c \in Seq(FieldKind) /\ Len(c) = 2
      BY <1>3
    <2>2. /\ w \in Seq(FieldKind) /\ Len(w) = Len(ab) + Len(c)
          /\ \A q \in 1..Len(ab) + Len(c) :
               w[q] = IF q <= Len(ab) THEN ab[q] ELSE c[q - Len(ab)]
      BY <1>7, <2>1, ConcatProperties, Zenon
    <2> HIDE DEF w
    <2> QED
      BY <1>7, <2>1, <2>2
  <1> HIDE DEF w
  <1>10. \A x \in 1..3 : w[2 * x - 1] = reply[x][1] /\ w[2 * x] = reply[x][2]
    BY <1>2, <1>4, <1>9
  <1> QED
    BY <1>5, <1>6, <1>8, <1>9, <1>10 DEF w

\* The fields that have been looked at belong to the items.
LEMMA FieldsOfReply ==
  ASSUME EmailType, NEW reply \in Replies, IsPrefix(fields, Written(reply))
  PROVE  /\ Len(fields) \in 0..6 /\ DOMAIN fields = 1..Len(fields)
         /\ \A q \in DOMAIN fields : \E x \in 1..3 :
              \/ q = 2 * x - 1 /\ fields[q] = reply[x][1]
              \/ q = 2 * x /\ fields[q] = reply[x][2]
         /\ \A x \in 1..3 :
              /\ 2 * x - 1 \in DOMAIN fields => fields[2 * x - 1] = reply[x][1]
              /\ 2 * x \in DOMAIN fields => fields[2 * x] = reply[x][2]
  <1> DEFINE w == Written(reply)
  <1>1. fields \in Seq(FieldKind) /\ w \in Seq(FieldKind) /\ Len(w) = 6
    BY WrittenReply DEF EmailType
  <1>2. Len(fields) <= 6 /\ SubSeq(fields, 1, Len(fields)) = SubSeq(w, 1, Len(fields))
    BY <1>1 DEF IsPrefix
  <1>3. \A x \in 1..3 : w[2 * x - 1] = reply[x][1] /\ w[2 * x] = reply[x][2]
    BY WrittenReply
  <1> HIDE DEF w
  <1>4. /\ Len(fields) \in Nat /\ DOMAIN fields = 1..Len(fields)
        /\ \A q \in 1..Len(fields) :
             /\ SubSeq(fields, 1, Len(fields))[q] = fields[q]
             /\ SubSeq(w, 1, Len(fields))[q] = w[q]
    BY <1>1, <1>2
  <1>5. \A q \in DOMAIN fields : fields[q] = w[q]
    BY <1>2, <1>4
  <1>6. \A q \in 1..6 : \E x \in 1..3 : q = 2 * x - 1 \/ q = 2 * x
    <2> TAKE q \in 1..6
    <2>1. CASE q \in {1, 2}
      BY <2>1
    <2>2. CASE q \in {3, 4}
      BY <2>2
    <2>3. CASE q \in {5, 6}
      BY <2>3
    <2> QED
      BY <2>1, <2>2, <2>3
  <1>7. \A q \in DOMAIN fields : q \in 1..6
    BY <1>2, <1>4
  <1> QED
    BY <1>2, <1>3, <1>4, <1>5, <1>6, <1>7

\* In a complete reply each of the three items is there once.
LEMMA CompleteReply ==
  ASSUME NEW reply \in Replies, Complete(reply)
  PROVE  \E i, j, k \in 1..3 :
           /\ reply[i] = UidItem /\ reply[j] = TimeItem /\ reply[k] \in TextItems
           /\ \A x \in 1..3 : x = i \/ x = j \/ x = k
  <1>1. PICK i \in 1..3, j \in 1..3, k \in 1..3 :
          reply[i] = UidItem /\ reply[j] = TimeItem /\ reply[k] \in TextItems
    BY WrittenReply DEF Complete
  <1>2. i # j /\ j # k /\ i # k
    BY <1>1 DEF UidItem, TimeItem, TextItems
  <1>3. \A x \in 1..3 : x = i \/ x = j \/ x = k
    BY <1>2
  <1> QED
    BY <1>1, <1>3

\* What a complete reply has written gives no reason for an error.
LEMMA CompleteIsAccepted ==
  ASSUME EmailInv, NEW reply \in Replies, Complete(reply),
         len = rfc822ExpectedNumFields, IsPrefix(fields, Written(reply))
  PROVE  outcome # "error"
  <1>1. PICK i \in 1..3, j \in 1..3, k \in 1..3 :
          /\ reply[i] = UidItem /\ reply[j] = TimeItem /\ reply[k] \in TextItems
          /\ \A x \in 1..3 : x = i \/ x = j \/ x = k
    BY CompleteReply
  <1>2. EmailType
    BY DEF EmailInv
  <1>3. /\ Len(fields) \in 0..6 /\ DOMAIN fields = 1..Len(fields)
        /\ \A q \in DOMAIN fields : \E x \in 1..3 :
             \/ q = 2 * x - 1 /\ fields[q] = reply[x][1]
             \/ q = 2 * x /\ fields[q] = reply[x][2]
        /\ \A x \in 1..3 :
             /\ 2 * x - 1 \in DOMAIN fields => fields[2 * x - 1] = reply[x][1]
             /\ 2 * x \in DOMAIN fields => fields[2 * x] = reply[x][2]
    BY <1>2, FieldsOfReply
  <1>4. /\ reply[i] = <<"name", "uid">> /\ reply[j] = <<"name", "time">>
        /\ reply[k][1] = "mention" /\ reply[k][2] \in Other
    BY <1>1 DEF UidItem, TimeItem, TextItems, Other
  <1>5. \A q \in DOMAIN fields :
          /\ fields[q] = "uid" => q = 2 * i
          /\ fields[q] = "time" => q = 2 * j
          /\ fields[q] \in Other => q \in {2 * k - 1, 2 * k}
    <2> SUFFICES ASSUME NEW q \in DOMAIN fields
                 PROVE  /\ fields[q] = "uid" => q = 2 * i
                        /\ fields[q] = "time" => q = 2 * j
                        /\ fields[q] \in Other => q \in {2 * k - 1, 2 * k}
      OBVIOUS
    <2>1. PICK x \in {i, j, k} : \/ q = 2 * x - 1 /\ fields[q] = reply[x][1]
                                 \/ q = 2 * x /\ fields[q] = reply[x][2]
      BY <1>1, <1>3
    <2> QED
      BY <1>4, <2>1 DEF Other
  <1>6. ~Repeated
    BY <1>5 DEF Repeated
  <1>7. ~Misplaced
    <2>1. \A q \in Places(Other) : q \in {2 * k - 1, 2 * k} /\ q \in 1..Len(fields)
      BY <1>3, <1>5 DEF Places
    <2>2. \A a, b, c \in Places(Other) : ~(a < b /\ b < c)
      BY <2>1
    <2>3. ASSUME NEW a \in Places(Other), fields[a] = "plain",
                 \A b \in Places(Other) : a <= b
          PROVE  FALSE
      <3>1. a = 2 * k /\ a \in 1..Len(fields)
        <4>1. 2 * k - 1 \in DOMAIN fields => fields[2 * k - 1] = "mention"
          BY <1>3, <1>4
        <4> QED
          BY <1>3, <2>1, <2>3, <4>1
      <3>2. 2 * k - 1 \in DOMAIN fields
        BY <1>3, <3>1
      <3>3. 2 * k - 1 \in Places(Other)
        BY <1>3, <1>4, <3>2 DEF Places, Other
      <3> QED
        BY <2>3, <3>1, <3>3
    <2> QED
      BY <2>2, <2>3 DEF Misplaced
  <1>8. Len(fields) = len => ~Lacking
    <2> SUFFICES ASSUME Len(fields) = 6 PROVE ~Lacking
      BY DEF rfc822ExpectedNumFields
    <2>1. {2 * i, 2 * j, 2 * k - 1, 2 * k} \subseteq DOMAIN fields
      BY <1>3
    <2>2. /\ fields[2 * i] = "uid" /\ fields[2 * j] = "time"
          /\ fields[2 * k - 1] \in Other /\ fields[2 * k] \in Other
      BY <1>3, <1>4, <2>1 DEF Other
    <2>3. /\ Places({"uid"}) # {} /\ Places({"time"}) # {}
          /\ 2 * k - 1 \in Places(Other) /\ 2 * k \in Places(Other)
      BY <2>1, <2>2 DEF Places
    <2> QED
      BY <2>3 DEF Lacking
  <1> QED
    BY <1>6, <1>7, <1>8 DEF EmailInv, OutcomeInv

\* A reply whose text is stored has the three items, and that is its text.
LEMMA StoredIsItsText ==
  ASSUME EmailInv, NEW reply \in Replies, outcome = "text",
         IsPrefix(fields, Written(reply))
  PROVE  /\ Complete(reply)
         /\ \E i \in 1..3 : reply[i] \in TextItems /\ email.rfc822 = 2 * i
  <1>1. EmailType
    BY DEF EmailInv
  <1>2. Len(fields) = 6
    BY DEF EmailInv, OutcomeInv, rfc822ExpectedNumFields
  <1>3. /\ DOMAIN fields = 1..6
        /\ \A q \in 1..6 : \E x \in 1..3 :
             \/ q = 2 * x - 1 /\ fields[q] = reply[x][1]
             \/ q = 2 * x /\ fields[q] = reply[x][2]
        /\ \A x \in 1..3 : /\ fields[2 * x - 1] = reply[x][1]
                           /\ fields[2 * x] = reply[x][2]
    <2>1. \A x \in 1..3 : 2 * x - 1 \in 1..6 /\ 2 * x \in 1..6
      OBVIOUS
    <2> QED
      BY <1>1, <1>2, <2>1, FieldsOfReply
  <1>4. /\ Places({"uid"}) = {email.uid}
        /\ Places({"time"}) = {email.timestamp}
        /\ Places(Other) = {email.header, email.rfc822}
        /\ fields[email.header] = "mention" /\ email.header < email.rfc822
    BY DEF EmailInv, MembersInv, OutcomeInv, Validate
  <1>5. \A x \in 1..3 :
          /\ reply[x] \in Items
          /\ reply[x][1] \in {"name", "mention"}
          /\ reply[x][1] = "mention" <=> reply[x] \in TextItems
          /\ reply[x][2] = "uid" <=> reply[x] = UidItem
          /\ reply[x][2] = "time" <=> reply[x] = TimeItem
          /\ reply[x][2] \in Other <=> reply[x] \notin {UidItem, TimeItem}
    BY WrittenReply, KindsOfItem
  <1>6. PICK i \in 1..3 : email.uid = 2 * i /\ reply[i] = UidItem
    <2>1. email.uid \in 1..6 /\ fields[email.uid] = "uid"
      BY <1>3, <1>4 DEF Places
    <2> QED
      BY <1>3, <1>5, <2>1
  <1>7. PICK j \in 1..3 : email.timestamp = 2 * j /\ reply[j] = TimeItem
    <2>1. email.timestamp \in 1..6 /\ fields[email.timestamp] = "time"
      BY <1>3, <1>4 DEF Places
    <2> QED
      BY <1>3, <1>5, <2>1
  <1>8. /\ email.header \in 1..6 /\ fields[email.header] = "mention"
        /\ email.rfc822 \in 1..6 /\ fields[email.rfc822] \in Other
    BY <1>3, <1>4 DEF Places
  <1>9. \A x \in 1..3 : /\ reply[x] = UidItem => x = i
                        /\ reply[x] = TimeItem => x = j
    <2> SUFFICES ASSUME NEW x \in 1..3
                 PROVE  /\ reply[x] = UidItem => x = i
                        /\ reply[x] = TimeItem => x = j
      OBVIOUS
    <2>1. 2 * x \in DOMAIN fields /\ fields[2 * x] = reply[x][2]
      BY <1>3
    <2>2. reply[x] = UidItem => 2 * x \in Places({"uid"})
      BY <1>5, <2>1 DEF Places
    <2>3. reply[x] = TimeItem => 2 * x \in Places({"time"})
      BY <1>5, <2>1 DEF Places
    <2> QED
      BY <1>4, <1>6, <1>7, <2>2, <2>3
  <1>10. i # j
    BY <1>6, <1>7 DEF UidItem, TimeItem
  <1>11. PICK k \in 1..3 : k # i /\ k # j /\ \A x \in 1..3 : x = i \/ x = j \/ x = k
    BY <1>10
  <1>12. reply[k] \notin {UidItem, TimeItem} /\ reply[k][2] \in Other
    BY <1>5, <1>9, <1>11
  <1>13. 2 * k \in Places(Other)
    BY <1>3, <1>12 DEF Places
  <1>14. \A q \in Places(Other) :
           q = 2 * k \/ (q = 2 * k - 1 /\ reply[k] \in TextItems)
    <2> SUFFICES ASSUME NEW q \in 1..6, fields[q] \in Other
                 PROVE  q = 2 * k \/ (q = 2 * k - 1 /\ reply[k] \in TextItems)
      BY <1>3 DEF Places
    <2>1. PICK x \in 1..3 : \/ q = 2 * x - 1 /\ fields[q] = reply[x][1]
                            \/ q = 2 * x /\ fields[q] = reply[x][2]
      BY <1>3
    <2>2. CASE q = 2 * x /\ fields[q] = reply[x][2]
      <3>1. x # i /\ x # j
        BY <1>5, <1>6, <1>7, <2>2
      <3> QED
        BY <1>11, <2>2, <3>1
    <2>3. CASE q = 2 * x - 1 /\ fields[q] = reply[x][1]
      <3>1. reply[x] \in TextItems
        BY <1>5, <2>3 DEF Other
      <3>2. x # i /\ x # j
        BY <1>6, <1>7, <3>1 DEF UidItem, TimeItem, TextItems
      <3> QED
        BY <1>11, <2>3, <3>1, <3>2
    <2> QED
      BY <2>1, <2>2, <2>3
  <1>15. email.header = 2 * k - 1 /\ email.rfc822 = 2 * k /\ reply[k] \in TextItems
    <2>1. email.header \in Places(Other) /\ email.rfc822 \in Places(Other)
      BY <1>4
    <2> QED
      BY <1>4, <1>14, <2>1
  <1>16. Complete(reply)
    <2>1. {reply[i], reply[j], reply[k]} \subseteq ToSet(reply)
      BY WrittenReply
    <2> QED
      BY <1>6, <1>7, <1>15, <2>1 DEF Complete
  <1> QED
    BY <1>15, <1>16

\* Every reply that has the three items, in any order, and whatever the text
\* quotes, is stored with its own text, and no other reply of three items is
\* (rfc822FromEmail, email.set).
THEOREM RepliesAreToldApart == EmailSpec => []RepliesToldApart
  <1>1. EmailInv => RepliesToldApart
    BY CompleteIsAccepted, StoredIsItsText DEF RepliesToldApart
  <1> QED
    BY <1>1, EmailInvariant, PTL
=============================================================================
