---------------------------- MODULE StoreGC_proofs ----------------------------
(***************************************************************************)
(* Proofs about StoreGC: what a clean-up pass selects and deletes.          *)
(***************************************************************************)
EXTENDS StoreGC, NumberLemmas, FiniteSetTheorems

Store == [Tables -> [Parts -> 0 .. MaxRows]]

(* There are finitely many tables, at least one, and finitely many          *)
(* partitions.                                                              *)
LEMMA FiniteStore == IsFiniteSet(Tables) /\ IsFiniteSet(Parts) /\ Parts \subseteq Nat
<1>1. IsFiniteSet(Parts) /\ Parts \subseteq Nat
  BY GCAssumption, FS_Interval DEF Parts
<1>2. Tables = {TableNames[i] : i \in 1 .. Len(TableNames)}
  BY GCAssumption DEF Tables, ToSet
<1>3. Len(TableNames) \in Nat /\ TableNames \in [1 .. Len(TableNames) -> STRING]
  BY GCAssumption
<1>4. TableNames \in Surjection(1 .. Len(TableNames), Tables)
  BY <1>2, <1>3 DEF Surjection
<1>5. IsFiniteSet(1 .. Len(TableNames))
  BY <1>3, FS_Interval
<1>6. IsFiniteSet(Tables)
  BY <1>4, <1>5, FS_Surjection
<1> QED
  BY <1>1, <1>6

(* The number of keys: natural, growing with the partitions, 0 for none of  *)
(* them and not 0 for one that has a key.                                   *)
LEMMA KeyCountFacts ==
    ASSUME NEW r \in Store, NEW P \in SUBSET Parts
    PROVE  /\ KeyCount(r, P) \in Nat
           /\ \A Q \in SUBSET P : KeyCount(r, Q) <= KeyCount(r, P)
           /\ P = {} => KeyCount(r, P) = 0
           /\ P \cap NonEmpty(r) # {} => KeyCount(r, P) > 0
<1>1. IsFiniteSet(Keys(r, P))
  <2>1. IsFiniteSet(P) /\ IsFiniteSet(1 .. MaxRows)
    <3>1. IsFiniteSet(P)
      BY FiniteStore, FS_Subset
    <3>2. 1 \in Int /\ MaxRows \in Int
      BY GCAssumption
    <3>3. IsFiniteSet(1 .. MaxRows)
      BY <3>2, FS_Interval
    <3> QED
      BY <3>1, <3>3
  <2>2. IsFiniteSet(Tables \X P)
    BY <2>1, FiniteStore, FS_Product
  <2>3. IsFiniteSet((Tables \X P) \X (1 .. MaxRows))
    BY <2>1, <2>2, FS_Product
  <2>4. Keys(r, P) \subseteq (Tables \X P) \X (1 .. MaxRows)
    BY DEF Keys
  <2> QED
    BY <2>3, <2>4, FS_Subset
<1>2. KeyCount(r, P) \in Nat
  BY <1>1, FS_CardinalityType DEF KeyCount
<1>3. ASSUME NEW Q \in SUBSET P PROVE KeyCount(r, Q) <= KeyCount(r, P)
  <2>1. Keys(r, Q) \in SUBSET Keys(r, P)
    BY DEF Keys
  <2> QED
    BY <1>1, <2>1, FS_Subset DEF KeyCount
<1>4. P = {} => KeyCount(r, P) = 0
  <2>1. P = {} => Keys(r, P) = {}
    BY DEF Keys
  <2> QED
    BY <2>1, FS_EmptySet DEF KeyCount
<1>5. ASSUME P \cap NonEmpty(r) # {} PROVE KeyCount(r, P) > 0
  <2>1. PICK p \in P : p \in Parts /\ \E t \in Tables : r[t][p] > 0
    BY <1>5 DEF NonEmpty
  <2>2. PICK t \in Tables : r[t][p] > 0
    BY <2>1
  <2>3. r[t][p] \in 0 .. MaxRows
    BY <2>1, <2>2 DEF Store
  <2>4. <<<<t, p>>, 1>> \in Keys(r, P)
    BY <2>1, <2>2, <2>3, GCAssumption DEF Keys
  <2>5. Cardinality(Keys(r, P)) # 0
    BY <1>1, <2>4, FS_EmptySet
  <2> QED
    BY <1>2, <2>5 DEF KeyCount
<1> QED
  BY <1>2, <1>3, <1>4, <1>5

(* All keys are in the partitions that are listed.                          *)
LEMMA KeysAreListed ==
    ASSUME NEW r \in Store PROVE KeyCount(r, NonEmpty(r)) = TotalCount(r)
<1>1. ASSUME NEW k \in Keys(r, Parts) PROVE k \in Keys(r, NonEmpty(r))
  <2>1. PICK t \in Tables, p \in Parts, i \in 1 .. MaxRows : k = <<<<t, p>>, i>> /\ i <= r[t][p]
    BY DEF Keys
  <2>2. r[t][p] \in 0 .. MaxRows
    BY DEF Store
  <2>3. r[t][p] > 0
    BY <2>1, <2>2, GCAssumption
  <2>4. p \in NonEmpty(r)
    BY <2>3 DEF NonEmpty
  <2> QED
    BY <2>1, <2>4 DEF Keys
<1>2. Keys(r, NonEmpty(r)) \subseteq Keys(r, Parts)
  BY DEF Keys, NonEmpty
<1>3. Keys(r, NonEmpty(r)) = Keys(r, Parts)
  BY <1>1, <1>2
<1> QED
  BY <1>3 DEF KeyCount, TotalCount

-----------------------------------------------------------------------------
(* GetSortedPartitionIDs: a list of exactly the partitions that have keys,  *)
(* in ascending order.                                                      *)
LEMMA SortedFacts ==
    ASSUME NEW r \in Store
    PROVE  LET s == SortedPartitionIDs(r) IN
           /\ s \in Seq(Parts) /\ DOMAIN s = 1 .. Len(s) /\ Len(s) \in Nat
           /\ \A i \in 1 .. Len(s) : s[i] \in NonEmpty(r)
           /\ \A i, j \in 1 .. Len(s) : i < j => s[i] < s[j]
           /\ \A p \in NonEmpty(r) : \E i \in 1 .. Len(s) : s[i] = p
<1> DEFINE N == NonEmpty(r)
           id == [p \in N |-> p]
           s == SortedPartitionIDs(r)
<1>1. N \subseteq Parts /\ IsFiniteSet(N) /\ Cardinality(N) \in Nat /\ N \subseteq Nat
  <2>1. N \subseteq Parts
    BY DEF NonEmpty
  <2>2. IsFiniteSet(N)
    BY <2>1, FiniteStore, FS_Subset
  <2> QED
    BY <2>1, <2>2, FiniteStore, FS_CardinalityType
<1>2. /\ DOMAIN s = 1 .. Cardinality(N)
      /\ \A i \in 1 .. Cardinality(N) :
           s[i] = CHOOSE p \in N : Cardinality({q \in N : q <= p}) = i
  BY DEF SortedPartitionIDs
<1>3. Len(s) = Cardinality(N)
  <2> HIDE DEF N
  <2> QED
    BY <1>1 DEF SortedPartitionIDs, N
<1>4. ASSUME NEW p \in N PROVE UpTo(N, id, p) = {q \in N : q <= p}
  BY DEF UpTo
<1>5. \A i \in 1 .. Cardinality(N) :
        (\E p \in N : Cardinality(UpTo(N, id, p)) = i)
           => s[i] \in N /\ Cardinality(UpTo(N, id, s[i])) = i
  <2> SUFFICES ASSUME NEW i \in 1 .. Cardinality(N),
                      NEW p \in N, Cardinality(UpTo(N, id, p)) = i
               PROVE  s[i] \in N /\ Cardinality(UpTo(N, id, s[i])) = i
    OBVIOUS
  <2>1. Cardinality({q \in N : q <= p}) = i
    BY <1>4
  <2>2. s[i] = CHOOSE o \in N : Cardinality({q \in N : q <= o}) = i
    BY <1>2
  <2> DEFINE o == s[i]
  <2> HIDE DEF N, s
  <2>3. o \in N /\ Cardinality({q \in N : q <= o}) = i
    BY <2>1, <2>2
  <2> HIDE DEF o, id
  <2>4. Cardinality(UpTo(N, id, o)) = i
    BY <1>4, <2>3
  <2> QED
    BY <2>3, <2>4 DEF o
<1>6. id \in [N -> Int] /\ (\A p, q \in N : id[p] = id[q] => p = q)
  BY <1>1
<1>7. /\ Len(s) \in Nat
      /\ \A i \in 1 .. Len(s) : s[i] \in N
      /\ \A i, j \in 1 .. Len(s) : i < j => id[s[i]] < id[s[j]]
      /\ \A p \in N : \E i \in 1 .. Len(s) : s[i] = p
  <2> HIDE DEF N, id, s
  <2> QED
    BY <1>1, <1>3, <1>5, <1>6, RankedList, ZenonT(30)
<1>8. s \in Seq(Parts) /\ DOMAIN s = 1 .. Len(s)
  <2>1. s \in [1 .. Len(s) -> Parts]
    BY <1>1, <1>2, <1>3, <1>7 DEF SortedPartitionIDs
  <2> HIDE DEF s
  <2> QED
    BY <1>7, <2>1
<1>9. \A i, j \in 1 .. Len(s) : i < j => s[i] < s[j]
  BY <1>7
<1> HIDE DEF s
<1> QED
  BY <1>7, <1>8, <1>9 DEF s

(* The first n partitions of the list.                                      *)
LEMMA FirstFacts ==
    ASSUME NEW r \in Store, NEW s, s = SortedPartitionIDs(r), NEW n \in 0 .. Len(s)
    PROVE  /\ First(s, n) \in SUBSET Parts
           /\ n = Len(s) => First(s, n) = NonEmpty(r)
           /\ n = 0 => First(s, n) = {}
           /\ n > 0 => /\ First(s, n - 1) = First(s, n) \ {s[n]}
                       /\ Max(First(s, n)) = s[n]
           /\ \A m \in 0 .. n : First(s, m) \subseteq First(s, n)
           /\ \A p \in NonEmpty(r) : n > 0 /\ p <= s[n] => p \in First(s, n)
<1>1. /\ s \in Seq(Parts) /\ Len(s) \in Nat
      /\ \A i \in 1 .. Len(s) : s[i] \in NonEmpty(r)
      /\ \A i, j \in 1 .. Len(s) : i < j => s[i] < s[j]
      /\ \A p \in NonEmpty(r) : \E i \in 1 .. Len(s) : s[i] = p
  BY SortedFacts
<1>2. \A i \in 1 .. Len(s) : s[i] \in Parts /\ s[i] \in Nat
  <2>1. NonEmpty(r) \subseteq Parts
    BY DEF NonEmpty
  <2> QED
    BY <1>1, <2>1, FiniteStore
<1>3. First(s, n) \in SUBSET Parts
  BY <1>1, <1>2 DEF First
<1>4. n = Len(s) => First(s, n) = NonEmpty(r)
  BY <1>1 DEF First
<1>5. n = 0 => First(s, n) = {}
  BY DEF First
<1>6. ASSUME n > 0 PROVE First(s, n - 1) = First(s, n) \ {s[n]}
  <2>1. \A i \in 1 .. n : i # n <=> i \in 1 .. n - 1
    BY <1>1, <1>6
  <2>2. \A i \in 1 .. n - 1 : s[i] # s[n] /\ i \in 1 .. n
    <3> SUFFICES ASSUME NEW i \in 1 .. n - 1 PROVE s[i] # s[n] /\ i \in 1 .. n
      OBVIOUS
    <3>1. i \in 1 .. Len(s) /\ n \in 1 .. Len(s) /\ i < n /\ i \in 1 .. n
      BY <1>1, <1>6
    <3>2. s[i] < s[n] /\ s[i] \in Nat /\ s[n] \in Nat
      BY <1>1, <1>2, <3>1
    <3> QED
      BY <3>1, <3>2
  <2> QED
    BY <2>1, <2>2 DEF First
<1>7. ASSUME n > 0 PROVE Max(First(s, n)) = s[n]
  <2>1. s[n] \in First(s, n) /\ s[n] \in Nat
    BY <1>1, <1>2, <1>7 DEF First
  <2>2. \A x \in First(s, n) : x \in Nat /\ x <= s[n]
    <3> SUFFICES ASSUME NEW i \in 1 .. n PROVE s[i] \in Nat /\ s[i] <= s[n]
      BY DEF First
    <3>1. i \in 1 .. Len(s) /\ n \in 1 .. Len(s) /\ (i = n \/ i < n)
      BY <1>1, <1>7
    <3> QED
      BY <1>1, <1>2, <3>1
  <2>3. /\ Max(First(s, n)) \in First(s, n)
        /\ \A x \in First(s, n) : x <= Max(First(s, n))
    <3> DEFINE S == First(s, n)
               b == s[n]
    <3>1. S \subseteq Nat /\ S # {} /\ b \in Nat /\ \A x \in S : x <= b
      BY <2>1, <2>2
    <3> HIDE DEF S, b
    <3>2. Max(S) \in S /\ \A x \in S : x <= Max(S)
      BY <3>1, MaxOfNaturals
    <3> QED
      BY <3>2 DEF S
  <2> QED
    BY <2>1, <2>2, <2>3
<1>8. \A m \in 0 .. n : First(s, m) \subseteq First(s, n)
  BY <1>1 DEF First
<1>9. ASSUME NEW p \in NonEmpty(r), n > 0, p <= s[n] PROVE p \in First(s, n)
  <2>1. PICK i \in 1 .. Len(s) : s[i] = p
    BY <1>1
  <2>2. n \in 1 .. Len(s) /\ s[n] \in Nat /\ s[i] \in Nat
    BY <1>1, <1>2, <1>9
  <2>3. ~(n < i)
    BY <1>1, <1>9, <2>1, <2>2
  <2>4. i \in 1 .. n
    BY <1>1, <2>2, <2>3
  <2> QED
    BY <2>1, <2>4 DEF First
<1> QED
  BY <1>3, <1>4, <1>5, <1>6, <1>7, <1>8, <1>9

(* getNumberOfKeysToDelete: at least one key of a store that is not empty,  *)
(* no more than there are, and the least number that is the share over the  *)
(* limit, or next to it.                                                    *)
LEMMA NeedFacts ==
    ASSUME NEW d \in Nat, SizeConditionMet(d), NEW total \in Nat,
           NEW need \in KeysToDelete(d, total)
    PROVE  LET exact == Min({k \in 0 .. total : k * d >= (d - SizeThreshold) * total}) IN
           /\ need \in Nat /\ need <= total
           /\ total > 0 => need > 0
           /\ exact \in Nat /\ need >= exact - 1 /\ need <= exact + 1
<1> DEFINE x == (d - SizeThreshold) * total
           exact == (x + d - 1) \div d
           S == {k \in 0 .. total : k * d >= x}
<1>1. SizeThreshold \in Nat /\ d > SizeThreshold /\ d \in Nat \ {0}
      /\ d - SizeThreshold \in Nat \ {0} /\ d - SizeThreshold <= d
  BY GCAssumption DEF SizeConditionMet
<1>2. x \in Nat /\ x <= total * d
  <2> DEFINE e == d - SizeThreshold
  <2>1. e \in Nat \ {0} /\ e <= d
    BY <1>1
  <2> HIDE DEF e
  <2>2. e * total \in Nat /\ e * total <= total * d
    BY <2>1
  <2> QED
    BY <2>2 DEF e
<1>3. /\ need \in 0 .. total /\ need >= exact - 1 /\ need <= exact + 1
      /\ total > 0 => need > 0
  BY DEF KeysToDelete, Ceil
<1> HIDE DEF x
<1>4. exact \in Nat /\ exact * d >= x /\ \A j \in Nat : j * d >= x => exact <= j
  BY <1>1, <1>2, CeilingIsLeast, ZenonT(30)
<1> HIDE DEF exact
<1>5. exact <= total
  <2>1. total * d >= x
    BY <1>1, <1>2
  <2> QED
    BY <1>4, <2>1
<1>6. exact = Min(S)
  <2>1. exact \in S /\ S \subseteq Nat
    BY <1>4, <1>5
  <2>2. Min(S) \in S /\ \A k \in S : Min(S) <= k
    <3> HIDE DEF S
    <3> QED
      BY <2>1, MinOfNaturals
  <2>3. exact <= Min(S) /\ Min(S) <= exact /\ Min(S) \in Nat
    BY <1>4, <2>1, <2>2
  <2> QED
    BY <1>4, <2>3
<1> QED
  BY <1>3, <1>4, <1>6 DEF x

(* The loop of getPartitionsToDeleteWhenSizeConditionHasBeenMet ends within *)
(* the list, at the first round that has collected enough; it deletes       *)
(* something of a store that is not empty.                                  *)
LEMMA SizeLoopFacts ==
    ASSUME NEW r \in Store, NonEmpty(r) # {}, NEW s, s = SortedPartitionIDs(r),
           NEW d \in Nat, SizeConditionMet(d),
           NEW need \in KeysToDelete(d, TotalCount(r)),
           NEW n, n = SizeLoop(r, s, need)
    PROVE  /\ n \in 1 .. Len(s)
           /\ KeyCount(r, First(s, n)) >= need
           /\ KeyCount(r, First(s, n - 1)) < need
<1> DEFINE S == {m \in 0 .. Len(s) : KeyCount(r, First(s, m)) >= need}
<1>1. Len(s) \in Nat
  BY SortedFacts
<1>2. TotalCount(r) \in Nat /\ TotalCount(r) > 0
  <2>1. NonEmpty(r) \in SUBSET Parts /\ NonEmpty(r) \cap NonEmpty(r) # {}
    BY DEF NonEmpty
  <2>2. KeyCount(r, NonEmpty(r)) \in Nat /\ KeyCount(r, NonEmpty(r)) > 0
    BY <2>1, KeyCountFacts
  <2> QED
    BY <2>2, KeysAreListed
<1>3. need \in Nat /\ need <= TotalCount(r) /\ need > 0
  BY <1>2, NeedFacts
<1>4. \A m \in 0 .. Len(s) : KeyCount(r, First(s, m)) \in Nat
  BY FirstFacts, KeyCountFacts
<1>5. Len(s) \in S
  <2>1. Len(s) \in 0 .. Len(s)
    BY <1>1
  <2>2. First(s, Len(s)) = NonEmpty(r)
    BY <2>1, FirstFacts
  <2>3. KeyCount(r, First(s, Len(s))) = TotalCount(r)
    BY <2>2, KeysAreListed
  <2> QED
    BY <1>2, <1>3, <2>1, <2>3
<1>6. n \in S /\ \A m \in S : n <= m
  <2>1. S \subseteq Nat /\ S # {}
    BY <1>1, <1>5
  <2>2. n = Min(S)
    BY DEF SizeLoop
  <2> HIDE DEF S
  <2> QED
    BY <2>1, <2>2, MinOfNaturals
<1>7. n # 0
  <2>1. ASSUME n = 0 PROVE FALSE
    <3>1. n \in 0 .. Len(s)
      BY <1>6
    <3>2. First(s, n) = {}
      BY <2>1, <3>1, FirstFacts
    <3>3. KeyCount(r, First(s, n)) = 0
      BY <3>2, KeyCountFacts
    <3> QED
      BY <1>3, <1>6, <3>3
  <2> QED
    BY <2>1
<1>8. n - 1 \in 0 .. Len(s) /\ n - 1 \notin S
  BY <1>1, <1>6, <1>7
<1>9. KeyCount(r, First(s, n - 1)) < need
  BY <1>3, <1>4, <1>8
<1> QED
  BY <1>1, <1>6, <1>7, <1>9

(* The loop of getPartitionsToDelete: it appends partitions that are too    *)
(* old, and ends at one that is not or at the end of the list.              *)
LEMMA TimeLoopFacts ==
    ASSUME NEW s, Len(s) \in Nat, NEW from \in 0 .. Len(s), NEW max,
           NEW n, n = TimeLoop(s, from, max)
    PROVE  /\ n \in from .. Len(s)
           /\ \A i \in from + 1 .. n : CleanUpTimeCondition(s[i], max)
           /\ n < Len(s) => ~CleanUpTimeCondition(s[n + 1], max)
<1> DEFINE S == {m \in from .. Len(s) : m < Len(s) => ~CleanUpTimeCondition(s[m + 1], max)}
<1>1. Len(s) \in S /\ S \subseteq Nat
  OBVIOUS
<1>2. n \in S /\ \A m \in S : n <= m
  <2>1. n = Min(S)
    BY DEF TimeLoop
  <2> HIDE DEF S
  <2> QED
    BY <1>1, <2>1, MinOfNaturals
<1>3. ASSUME NEW i \in from + 1 .. n PROVE CleanUpTimeCondition(s[i], max)
  <2>1. i - 1 \in from .. Len(s) /\ i - 1 < n /\ i - 1 < Len(s) /\ (i - 1) + 1 = i
    BY <1>2
  <2>2. i - 1 \notin S
    BY <1>2, <2>1
  <2> QED
    BY <2>1, <2>2
<1> QED
  BY <1>2, <1>3

-----------------------------------------------------------------------------
(* getPartitionsToDelete, second transaction: what is chosen, and that the  *)
(* access behind it stays within the list.                                  *)
LEMMA ReadInfoFacts ==
    ASSUME TypeOK, InfoInv, ReadInfo
    PROVE  /\ toDelete' \in Seq(Parts) /\ Len(toDelete') \in Nat \ {0}
           /\ \A i, j \in 1 .. Len(toDelete') : i < j => toDelete'[i] < toDelete'[j]
           /\ SizeConditionMet(disk) \/
                \A i \in 1 .. Len(toDelete') : CleanUpTimeCondition(toDelete'[i], newest)
           /\ pc' \in {"delete", "panic"} /\ (TimeLimit >= PartLen => pc' = "delete")
           /\ LET C    == ToSet(toDelete')
                  last == Max(C)
              IN  /\ C # {} /\ C \in SUBSET Parts
                  /\ \A p \in NonEmpty(rows) : p <= last => p \in C
                  /\ \/ ~SizeConditionMet(disk) /\ CleanUpTimeCondition(last, newest)
                     \/ /\ SizeConditionMet(disk)
                        /\ \E need \in KeysToDelete(disk, TotalCount(rows)) :
                             /\ KeyCount(rows, C) >= need
                             /\ \/ CleanUpTimeCondition(last, newest)
                                \/ KeyCount(rows, C \ {last}) < need
<1> DEFINE s == SortedPartitionIDs(rows)
<1>0. PICK bySize \in BySize(s) :
         LET chosen == IF bySize = Len(s) THEN bySize ELSE TimeLoop(s, bySize, newest)
         IN  /\ toDelete' = SubSeq(s, 1, chosen)
             /\ pc' = IF bySize < Len(s) /\ chosen = Len(s) THEN "panic" ELSE "delete"
  BY DEF ReadInfo
<1> DEFINE byTime == TimeLoop(s, bySize, newest)
           chosen == IF bySize = Len(s) THEN bySize ELSE byTime
           Need == KeysToDelete(disk, TotalCount(rows))
<1>1. /\ pc = "info" /\ toDelete' = SubSeq(s, 1, chosen)
      /\ pc' = IF bySize < Len(s) /\ chosen = Len(s) THEN "panic" ELSE "delete"
  BY <1>0 DEF ReadInfo
<1>0a. PICK need : \/ ~SizeConditionMet(disk) /\ bySize = 0
                  \/ /\ SizeConditionMet(disk) /\ need \in Need
                     /\ bySize = SizeLoop(rows, s, need)
  BY DEF BySize
<1>2. rows \in Store /\ disk \in Nat /\ newest \in NonEmpty(rows)
      /\ NonEmpty(rows) \subseteq Parts
  <2>1. rows \in Store
    BY DEF TypeOK, Store
  <2>2. disk \in Nat
    BY GCAssumption DEF TypeOK
  <2>3. newest \in NonEmpty(rows) /\ NonEmpty(rows) \subseteq Parts
    BY <1>1 DEF InfoInv, NonEmpty
  <2> QED
    BY <2>1, <2>2, <2>3
<1> HIDE DEF s, Need, byTime, chosen
<1>3. /\ s \in Seq(Parts) /\ Len(s) \in Nat
      /\ \A i \in 1 .. Len(s) : s[i] \in NonEmpty(rows)
      /\ \A i, j \in 1 .. Len(s) : i < j => s[i] < s[j]
      /\ \A p \in NonEmpty(rows) : \E i \in 1 .. Len(s) : s[i] = p
  BY <1>2, SortedFacts DEF s
<1>4. \A i \in 1 .. Len(s) : s[i] \in Nat /\ s[i] \in Parts
  BY <1>2, <1>3, FiniteStore
<1>5. Len(s) > 0
  BY <1>2, <1>3
<1>6. /\ bySize \in 0 .. Len(s)
      /\ SizeConditionMet(disk) => /\ bySize > 0
                                   /\ KeyCount(rows, First(s, bySize)) >= need
                                   /\ KeyCount(rows, First(s, bySize - 1)) < need
      /\ ~SizeConditionMet(disk) => bySize = 0
  <2>1. CASE SizeConditionMet(disk)
    <3>1. bySize = SizeLoop(rows, s, need) /\ need \in Need
      BY <1>0a, <2>1
    <3>2. NonEmpty(rows) # {}
      BY <1>2
    <3>3. /\ bySize \in 1 .. Len(s)
          /\ KeyCount(rows, First(s, bySize)) >= need
          /\ KeyCount(rows, First(s, bySize - 1)) < need
      BY <1>2, <2>1, <3>1, <3>2, SizeLoopFacts DEF s, Need
    <3> QED
      BY <1>3, <2>1, <3>3
  <2>2. CASE ~SizeConditionMet(disk)
    BY <1>0a, <1>3, <2>2
  <2> QED
    BY <2>1, <2>2
<1>7. /\ byTime \in bySize .. Len(s)
      /\ \A i \in bySize + 1 .. byTime : CleanUpTimeCondition(s[i], newest)
      /\ byTime < Len(s) => ~CleanUpTimeCondition(s[byTime + 1], newest)
  BY <1>3, <1>6, TimeLoopFacts DEF byTime
<1>8. /\ chosen \in bySize .. Len(s)
      /\ \A i \in bySize + 1 .. chosen : CleanUpTimeCondition(s[i], newest)
  BY <1>3, <1>6, <1>7 DEF chosen
<1>9. chosen > 0
  <2>1. CASE SizeConditionMet(disk)
    BY <1>3, <1>6, <1>8, <2>1
  <2>2. CASE ~SizeConditionMet(disk)
    <3>1. PICK p \in NonEmpty(rows) : CleanUpTimeCondition(p, newest)
      BY <1>1, <2>2 DEF InfoInv
    <3>2. PICK i \in 1 .. Len(s) : s[i] = p
      BY <1>3
    <3>3. 1 \in 1 .. Len(s) /\ (i = 1 \/ 1 < i)
      BY <1>3, <1>5
    <3>4. s[1] <= p /\ s[1] \in Nat /\ p \in Nat
      BY <1>3, <1>4, <3>2, <3>3
    <3>5. CleanUpTimeCondition(s[1], newest)
      <4>1. newest \in Nat
        BY <1>2, FiniteStore
      <4>2. StartOf(s[1]) <= StartOf(p) /\ StartOf(s[1]) \in Nat /\ StartOf(p) \in Nat
            /\ EndOf(newest) \in Nat
        BY <3>4, <4>1, GCAssumption DEF StartOf, EndOf
      <4> QED
        BY <3>1, <4>2, GCAssumption DEF CleanUpTimeCondition
    <3>6. bySize = 0 /\ byTime # 0
      BY <1>3, <1>5, <1>6, <1>7, <2>2, <3>5
    <3> QED
      BY <1>3, <1>5, <1>6, <1>7, <3>6 DEF chosen
  <2> QED
    BY <2>1, <2>2
<1>10. chosen \in 1 .. Len(s) /\ chosen \in 0 .. Len(s) /\ bySize \in 0 .. chosen
  BY <1>3, <1>6, <1>8, <1>9
<1>11. /\ toDelete' \in Seq(Parts) /\ Len(toDelete') = chosen /\ DOMAIN toDelete' = 1 .. chosen
       /\ \A i \in 1 .. chosen : toDelete'[i] = s[i]
  BY <1>1, <1>3, <1>10
<1>12. ToSet(toDelete') = First(s, chosen)
  BY <1>11 DEF ToSet, First
<1>13. \A i, j \in 1 .. chosen : i < j => toDelete'[i] < toDelete'[j]
  BY <1>3, <1>10, <1>11
<1>14. SizeConditionMet(disk) \/ \A i \in 1 .. chosen : CleanUpTimeCondition(toDelete'[i], newest)
  BY <1>6, <1>8, <1>11
<1>15. ASSUME TimeLimit >= PartLen PROVE pc' = "delete"
  <2> SUFFICES ASSUME bySize < Len(s), chosen = Len(s) PROVE FALSE
    BY <1>1
  <2> DEFINE q == s[Len(s)]
  <2>1. Len(s) \in 1 .. Len(s) /\ q \in Nat
    BY <1>3, <1>4, <1>5
  <2>2. CleanUpTimeCondition(q, newest)
    BY <1>3, <1>6, <1>8, <2>1
  <2>3. newest \in Nat /\ newest <= q
    <3>1. newest \in Nat
      BY <1>2, FiniteStore
    <3>2. PICK i \in 1 .. Len(s) : s[i] = newest
      BY <1>2, <1>3
    <3>3. i = Len(s) \/ i < Len(s)
      BY <1>3
    <3> QED
      BY <1>3, <2>1, <3>1, <3>2, <3>3
  <2> HIDE DEF q
  <2>4. EndOf(newest) - StartOf(q) <= PartLen
    <3>1. newest * PartLen <= q * PartLen /\ newest * PartLen \in Nat /\ q * PartLen \in Nat
      BY <2>1, <2>3, GCAssumption
    <3>2. (newest + 1) * PartLen = newest * PartLen + PartLen
      BY <2>3, GCAssumption
    <3> QED
      BY <3>1, <3>2, GCAssumption DEF EndOf, StartOf
  <2>5. EndOf(newest) - StartOf(q) \in Int
    BY <2>1, <2>3, GCAssumption DEF EndOf, StartOf
  <2> QED
    BY <1>15, <2>2, <2>4, <2>5, GCAssumption DEF CleanUpTimeCondition
<1>16. /\ First(s, chosen) \in SUBSET Parts /\ s[chosen] \in First(s, chosen)
       /\ First(s, chosen - 1) = First(s, chosen) \ {s[chosen]}
       /\ Max(First(s, chosen)) = s[chosen]
       /\ First(s, bySize) \subseteq First(s, chosen)
       /\ \A p \in NonEmpty(rows) : p <= s[chosen] => p \in First(s, chosen)
  <2>1. s[chosen] \in First(s, chosen)
    BY <1>10 DEF First
  <2> QED
    BY <1>2, <1>9, <1>10, <2>1, FirstFacts DEF s
<1>17. SizeConditionMet(disk) => KeyCount(rows, First(s, chosen)) >= need
  <2> SUFFICES ASSUME SizeConditionMet(disk) PROVE KeyCount(rows, First(s, chosen)) >= need
    OBVIOUS
  <2>1. /\ KeyCount(rows, First(s, bySize)) <= KeyCount(rows, First(s, chosen))
        /\ KeyCount(rows, First(s, chosen)) \in Nat
    BY <1>2, <1>16, KeyCountFacts
  <2>2. KeyCount(rows, First(s, bySize)) \in Nat
    <3>1. First(s, bySize) \in SUBSET Parts
      BY <1>16
    <3> QED
      BY <1>2, <3>1, KeyCountFacts
  <2>3. need \in Nat
    <3>1. TotalCount(rows) \in Nat
      BY <1>2, KeyCountFacts DEF TotalCount
    <3> QED
      BY <1>0a, <1>2, <3>1, NeedFacts DEF Need
  <2> QED
    BY <1>6, <2>1, <2>2, <2>3
<1>18. \/ CleanUpTimeCondition(s[chosen], newest)
       \/ SizeConditionMet(disk) /\ KeyCount(rows, First(s, chosen - 1)) < need
  <2>1. CASE chosen = bySize
    BY <1>6, <1>9, <2>1
  <2>2. CASE chosen # bySize
    BY <1>3, <1>6, <1>8, <2>2
  <2> QED
    BY <2>1, <2>2
<1>19. pc' \in {"delete", "panic"}
  BY <1>1
<1>20. Len(toDelete') \in Nat \ {0}
  BY <1>3, <1>10, <1>11
<1>21. SizeConditionMet(disk) => need \in KeysToDelete(disk, TotalCount(rows))
  BY <1>0a DEF Need
<1> QED
  BY <1>11, <1>12, <1>13, <1>14, <1>15, <1>16, <1>17, <1>18, <1>19, <1>20, <1>21

(* The end of the loop bodies: the next table, or the next partition, or    *)
(* the end of the pass.                                                     *)
LEMMA AdvanceFacts ==
    ASSUME TypeOK, pc = "delete", part \in 1 .. Len(toDelete), NEW STATE err, err \in BOOLEAN,
           Advance(err)
    PROVE  /\ deleted' = 0 /\ tab' \in 1 .. Len(TableNames) /\ errs' \in BOOLEAN
           /\ pc' \in {"delete", "succeeded", "failed"}
           /\ part' \in {part, part + 1}
           /\ pc' = "delete" => part' \in 1 .. Len(toDelete)
<1>1. /\ Len(TableNames) \in Nat \ {0} /\ Len(toDelete) \in Nat /\ part \in Nat
      /\ tab \in 1 .. Len(TableNames)
  BY GCAssumption DEF TypeOK
<1>2. deleted' = 0 /\ tab' \in 1 .. Len(TableNames)
  BY <1>1 DEF Advance, NextTab
<1>3. CASE tab < Len(TableNames)
  BY <1>1, <1>2, <1>3 DEF Advance
<1>4. CASE ~(tab < Len(TableNames))
  <2>1. errs' = FALSE /\ part' = part + 1
    BY <1>4 DEF Advance, NextPart
  <2>2. \/ err /\ pc' = "failed"
        \/ ~err /\ part = Len(toDelete) /\ pc' = "succeeded"
        \/ ~err /\ part # Len(toDelete) /\ pc' = "delete"
    BY <1>4 DEF Advance
  <2>3. pc' \in {"delete", "succeeded", "failed"} /\ (pc' = "delete" => part # Len(toDelete))
    BY <2>2
  <2>4. part # Len(toDelete) => part + 1 \in 1 .. Len(toDelete)
    BY <1>1
  <2>5. pc' = "delete" => part' \in 1 .. Len(toDelete)
    BY <2>1, <2>3, <2>4
  <2>6. errs' \in BOOLEAN /\ part' \in {part, part + 1}
    BY <2>1
  <2> QED
    BY <1>2, <2>3, <2>5, <2>6
<1> QED
  BY <1>3, <1>4

(* deletePartition and DeleteKeysWithPrefix: only keys of the partition     *)
(* whose turn it is go.                                                     *)
LEMMA DeleteFacts ==
    ASSUME TypeOK, OrderInv, DeleteStep
    PROVE  /\ pc = "delete" /\ UNCHANGED <<enableDeleteKeys, now>>
           /\ UNCHANGED <<disk, newest, info, toDelete>> \/ (pc' # "delete" /\ Forget)
           /\ rows' \in Store
           /\ \A t \in Tables, p \in Parts : p # toDelete[part] => rows'[t][p] = rows[t][p]
           /\ deleted' \in Nat /\ tab' \in 1 .. Len(TableNames) /\ errs' \in BOOLEAN
           /\ pc' \in {"delete", "succeeded", "failed"}
           /\ part' \in {part, part + 1}
           /\ pc' = "delete" => part' \in 1 .. Len(toDelete)
<1>1. /\ pc = "delete" /\ UNCHANGED <<enableDeleteKeys, now>>
      /\ UNCHANGED <<disk, newest, info, toDelete>> \/ (pc' # "delete" /\ Forget)
  <2>1. pc = "delete" /\ UNCHANGED <<enableDeleteKeys, now>>
    BY DEF DeleteStep, DropPrefixes, DeleteBatch, DeleteBatchesDone
  <2>2. ForgetAtEnd \/ UNCHANGED passVars
    <3>1. \A err : Advance(err) => ForgetAtEnd
      BY DEF Advance
    <3>2. \A ok : DeleteBatch(ok) => ForgetAtEnd \/ UNCHANGED passVars
      BY <3>1 DEF DeleteBatch
    <3>3. \A d, m : DropPrefixes(d, m) => ForgetAtEnd
      BY <3>1 DEF DropPrefixes
    <3>4. DeleteBatchesDone => ForgetAtEnd
      BY <3>1 DEF DeleteBatchesDone
    <3> QED
      BY <3>2, <3>3, <3>4 DEF DeleteStep
  <2>3. UNCHANGED passVars \/ (pc' # "delete" /\ Forget)
    BY <2>2, Zenon DEF ForgetAtEnd
  <2>4. UNCHANGED passVars => UNCHANGED <<disk, newest, info, toDelete>>
    BY DEF passVars
  <2> QED
    BY <2>1, <2>3, <2>4, Zenon
<1>2. /\ part \in 1 .. Len(toDelete) /\ toDelete \in Seq(Parts) /\ Len(toDelete) \in Nat
      /\ rows \in Store /\ errs \in BOOLEAN /\ deleted \in Nat /\ tab \in 1 .. Len(TableNames)
  BY <1>1 DEF OrderInv, TypeOK, Store
<1>3. Part \in Parts /\ Part = toDelete[part]
  BY <1>2 DEF Part
<1>4. Tab \in Tables
  BY <1>2, GCAssumption DEF Tab, Tables, ToSet
<1>5. CASE UNCHANGED rows
  <2>1. ASSUME NEW STATE err, err \in BOOLEAN, Advance(err)
        PROVE  /\ deleted' \in Nat /\ tab' \in 1 .. Len(TableNames) /\ errs' \in BOOLEAN
               /\ pc' \in {"delete", "succeeded", "failed"}
               /\ part' \in {part, part + 1}
               /\ pc' = "delete" => part' \in 1 .. Len(toDelete)
    BY <1>1, <1>2, <2>1, AdvanceFacts
  <2>2. /\ rows' \in Store
        /\ \A t \in Tables, p \in Parts : p # toDelete[part] => rows'[t][p] = rows[t][p]
    BY <1>2, <1>5
  <2>3. CASE \E err \in BOOLEAN : Advance(err)
    BY <1>1, <2>1, <2>2, <2>3
  <2>4. CASE /\ deleted' = deleted + Batch(Tab, Part) /\ UNCHANGED <<pc, part, tab, errs>>
    <3>1. Batch(Tab, Part) \in Nat
      <4>1. rows[Tab][Part] \in Nat /\ DeletionBatchSize \in Nat
        BY <1>2, <1>3, <1>4, GCAssumption DEF Store
      <4>2. Min({DeletionBatchSize, rows[Tab][Part]}) \in Nat
        BY <4>1, MinOfTwo
      <4> QED
        BY <4>2 DEF Batch
    <3> QED
      BY <1>1, <1>2, <2>2, <2>4, <3>1
  <2>5. \/ \E err \in BOOLEAN : Advance(err)
        \/ /\ deleted' = deleted + Batch(Tab, Part) /\ UNCHANGED <<pc, part, tab, errs>>
    <3>1. \A ok \in BOOLEAN : (errs \/ ~ok) \in BOOLEAN
      BY <1>2
    <3>2. CASE \E dropOk, moveOk \in BOOLEAN : DropPrefixes(dropOk, moveOk)
      BY <3>1, <3>2 DEF DropPrefixes
    <3>3. CASE \E ok \in BOOLEAN : DeleteBatch(ok)
      BY <3>3 DEF DeleteBatch
    <3>4. CASE DeleteBatchesDone
      BY <1>2, <3>4 DEF DeleteBatchesDone
    <3> QED
      BY <3>2, <3>3, <3>4 DEF DeleteStep
  <2> QED
    BY <2>3, <2>4, <2>5
<1>6. ASSUME NEW moveOk \in BOOLEAN, DropPrefixes(TRUE, moveOk)
      PROVE  /\ rows' = [rows EXCEPT ![Tab][Part] = 0]
             /\ Advance(errs \/ ~moveOk)
  BY <1>6 DEF DropPrefixes
<1>7. CASE \E moveOk \in BOOLEAN : DropPrefixes(TRUE, moveOk)
  <2>1. PICK moveOk \in BOOLEAN : DropPrefixes(TRUE, moveOk)
    BY <1>7
  <2> DEFINE err == errs \/ ~moveOk
  <2>2. Advance(err) /\ err \in BOOLEAN
    BY <1>2, <1>6, <2>1
  <2> HIDE DEF err
  <2>3. /\ deleted' = 0 /\ tab' \in 1 .. Len(TableNames) /\ errs' \in BOOLEAN
        /\ pc' \in {"delete", "succeeded", "failed"}
        /\ part' \in {part, part + 1}
        /\ pc' = "delete" => part' \in 1 .. Len(toDelete)
    BY <1>1, <1>2, <2>2, AdvanceFacts
  <2>4. rows' = [rows EXCEPT ![Tab][Part] = 0]
    BY <1>6, <2>1
  <2>5. 0 \in 0 .. MaxRows
    BY GCAssumption
  <2>6. rows' \in Store
    BY <1>2, <1>3, <1>4, <2>4, <2>5 DEF Store
  <2>7. \A t \in Tables, p \in Parts : p # Part => rows'[t][p] = rows[t][p]
    BY <1>2, <1>3, <1>4, <2>4 DEF Store
  <2> QED
    BY <1>1, <1>3, <2>3, <2>6, <2>7
<1>8. CASE DeleteBatch(TRUE)
  <2> DEFINE n == Batch(Tab, Part)
             old == rows[Tab][Part]
  <2>1. /\ rows' = [rows EXCEPT ![Tab][Part] = @ - n] /\ deleted' = deleted + n
        /\ UNCHANGED <<pc, part, tab, errs>>
    BY <1>8 DEF DeleteBatch
  <2>2. old \in 0 .. MaxRows /\ MaxRows \in Nat
    BY <1>2, <1>3, <1>4, GCAssumption DEF Store
  <2>3. n \in Nat /\ n <= old
    <3>1. DeletionBatchSize \in Nat
      BY GCAssumption
    <3>2. Min({DeletionBatchSize, old}) \in Nat /\ Min({DeletionBatchSize, old}) <= old
      <4> HIDE DEF old
      <4> QED
        BY <2>2, <3>1, MinOfTwo
    <3> QED
      BY <2>2, <3>2 DEF Batch
  <2> HIDE DEF n
  <2>4. old - n \in 0 .. MaxRows
    <3> HIDE DEF old
    <3> QED
      BY <2>2, <2>3
  <2>5. rows' = [rows EXCEPT ![Tab][Part] = old - n]
    BY <1>2, <1>3, <1>4, <2>1 DEF Store
  <2> HIDE DEF old
  <2>6. rows' \in Store
    BY <1>2, <1>3, <1>4, <2>4, <2>5 DEF Store
  <2>7. \A t \in Tables, p \in Parts : p # Part => rows'[t][p] = rows[t][p]
    BY <1>2, <1>3, <1>4, <2>5 DEF Store
  <2>8. deleted' \in Nat
    BY <1>2, <2>1, <2>3
  <2> QED
    BY <1>1, <1>2, <1>3, <2>1, <2>6, <2>7, <2>8
<1>9. \/ UNCHANGED rows
      \/ \E moveOk \in BOOLEAN : DropPrefixes(TRUE, moveOk)
      \/ DeleteBatch(TRUE)
  <2>1. CASE \E dropOk, moveOk \in BOOLEAN : DropPrefixes(dropOk, moveOk)
    <3>1. PICK dropOk \in BOOLEAN, moveOk \in BOOLEAN : DropPrefixes(dropOk, moveOk)
      BY <2>1
    <3>2. CASE dropOk = TRUE
      BY <3>1, <3>2
    <3>3. CASE dropOk = FALSE
      BY <3>1, <3>3 DEF DropPrefixes
    <3> QED
      BY <3>2, <3>3
  <2>2. CASE \E ok \in BOOLEAN : DeleteBatch(ok)
    <3>1. PICK ok \in BOOLEAN : DeleteBatch(ok)
      BY <2>2
    <3>2. CASE ok = TRUE
      BY <3>1, <3>2
    <3>3. CASE ok = FALSE
      BY <3>1, <3>3 DEF DeleteBatch
    <3> QED
      BY <3>2, <3>3
  <2>3. CASE DeleteBatchesDone
    BY <2>3 DEF DeleteBatchesDone
  <2> QED
    BY <2>1, <2>2, <2>3 DEF DeleteStep
<1> QED
  BY <1>5, <1>7, <1>8, <1>9

(* The processor only adds keys.                                            *)
LEMMA WriteFacts ==
    ASSUME TypeOK, NEW t \in Tables, NEW p \in Parts, Write(t, p)
    PROVE  /\ rows' \in Store /\ NonEmpty(rows) \subseteq NonEmpty(rows')
           /\ \A u \in Tables, q \in Parts : ~(rows'[u][q] < rows[u][q])
           /\ UNCHANGED <<enableDeleteKeys, now, pc, passVars, part, tab, deleted, errs>>
<1>1. /\ rows \in Store /\ MaxRows \in Nat /\ rows[t][p] \in Nat /\ rows[t][p] < MaxRows
      /\ UNCHANGED <<enableDeleteKeys, now, pc, passVars, part, tab, deleted, errs>>
  BY GCAssumption DEF TypeOK, Store, Write
<1>2. rows' = [rows EXCEPT ![t][p] = rows[t][p] + 1]
  BY DEF Write
<1>3. rows[t][p] + 1 \in 0 .. MaxRows
  BY <1>1
<1>4. rows' \in Store
  BY <1>1, <1>2, <1>3 DEF Store
<1>5. \A u \in Tables, q \in Parts :
         rows[u][q] \in Nat /\ (rows'[u][q] = rows[u][q] \/ rows'[u][q] = rows[u][q] + 1)
  BY <1>1, <1>2 DEF Store
<1>6. NonEmpty(rows) \subseteq NonEmpty(rows')
  BY <1>5 DEF NonEmpty
<1>7. \A u \in Tables, q \in Parts : ~(rows'[u][q] < rows[u][q])
  BY <1>5
<1> QED
  BY <1>1, <1>4, <1>6, <1>7

-----------------------------------------------------------------------------
(* Every step keeps the types.                                              *)
LEMMA TypeStep == IndInv /\ [Next]_vars => TypeOK'
<1> SUFFICES ASSUME TypeOK, InfoInv, OrderInv, [Next]_vars PROVE TypeOK'
  BY DEF IndInv
<1>1. ASSUME NEW t \in Tables, NEW p \in Parts, Write(t, p) PROVE TypeOK'
  BY <1>1, WriteFacts DEF TypeOK, Store, passVars
<1>2. CASE NextHour
  BY <1>2, GCAssumption, SMTT(30) DEF NextHour, TypeOK, passVars, Parts
<1>3. ASSUME NEW d \in DiskSizes, BeginPass(d) PROVE TypeOK'
  <2>1. newest' \in Parts
    <3> DEFINE N == NonEmpty(rows)
    <3>1. N \subseteq Parts /\ N # {}
      BY <1>3 DEF BeginPass, NonEmpty
    <3>2. MaxPart \in Nat /\ N \subseteq Nat /\ \A x \in N : x <= MaxPart
      BY <3>1, GCAssumption DEF Parts
    <3>3. Max(N) \in N
      <4> HIDE DEF N
      <4> QED
        BY <3>1, <3>2, MaxOfNaturals
    <3> QED
      BY <1>3, <3>1, <3>3 DEF BeginPass
  <2>2. 1 \in 1 .. Len(TableNames)
    BY GCAssumption
  <2> QED
    BY <1>3, <2>1, <2>2 DEF BeginPass, TypeOK
<1>4. CASE ReadInfo
  <2>1. toDelete' \in Seq(Parts) /\ pc' \in {"delete", "panic"}
    BY <1>4, ReadInfoFacts
  <2> QED
    BY <1>4, <2>1 DEF ReadInfo, TypeOK
<1>5. CASE DeleteStep
  <2>1. part' \in Nat
    <3>1. part \in Nat /\ part' \in {part, part + 1}
      BY <1>5, DeleteFacts DEF TypeOK
    <3> QED
      BY <3>1
  <2>2. /\ disk' \in DiskSizes \cup {0} /\ newest' \in Parts \cup {0}
        /\ info' \in Store /\ toDelete' \in Seq(Parts)
    <3>1. NoRows \in Store /\ << >> \in Seq(Parts)
      BY GCAssumption DEF NoRows, Store
    <3> QED
      BY <1>5, <3>1, DeleteFacts DEF TypeOK, Store, Forget
  <2> QED
    BY <1>5, <2>1, <2>2, DeleteFacts DEF TypeOK, Store
<1>6. CASE UNCHANGED vars
  BY <1>6 DEF vars, passVars, TypeOK
<1> QED
  BY <1>1, <1>2, <1>3, <1>4, <1>5, <1>6 DEF Next

(* Between the two transactions of getPartitionsToDelete keys are only      *)
(* added.                                                                   *)
LEMMA InfoStep == IndInv /\ [Next]_vars => InfoInv'
<1> SUFFICES ASSUME TypeOK, InfoInv, OrderInv, [Next]_vars, pc' = "info"
             PROVE  /\ part' = 1
                    /\ newest' \in NonEmpty(rows')
                    /\ \/ SizeConditionMet(disk')
                       \/ \E p \in NonEmpty(rows') : CleanUpTimeCondition(p, newest')
  BY DEF IndInv, InfoInv
<1>1. ASSUME NEW t \in Tables, NEW p \in Parts, Write(t, p) PROVE InfoInv'
  <2>1. /\ NonEmpty(rows) \subseteq NonEmpty(rows')
        /\ UNCHANGED <<pc, disk, newest, part>>
    BY <1>1, WriteFacts DEF passVars
  <2> QED
    BY <2>1 DEF InfoInv
<1>2. CASE NextHour \/ UNCHANGED vars
  BY <1>2 DEF NextHour, vars, passVars, InfoInv
<1>3. ASSUME NEW d \in DiskSizes, BeginPass(d) PROVE InfoInv'
  <2> DEFINE N == NonEmpty(rows)
  <2>1. N \subseteq Parts /\ N # {}
    BY <1>3 DEF BeginPass, NonEmpty
  <2>2. MaxPart \in Nat /\ N \subseteq Nat /\ \A x \in N : x <= MaxPart
    BY <2>1, GCAssumption DEF Parts
  <2>3. Max(N) \in N /\ Min(N) \in N
    <3> HIDE DEF N
    <3> QED
      BY <2>1, <2>2, MaxOfNaturals, MinOfNaturals
  <2>4. newest' = Max(N) /\ disk' = d /\ rows' = rows /\ part' = 1
        /\ (SizeConditionMet(d) \/ CleanUpTimeCondition(Min(N), Max(N)))
    BY <1>3 DEF BeginPass, NeedCleanUp
  <2> QED
    BY <2>3, <2>4 DEF InfoInv
<1>4. CASE ReadInfo
  BY <1>4, ReadInfoFacts
<1>5. CASE DeleteStep
  BY <1>5, DeleteFacts
<1> QED
  BY <1>1, <1>2, <1>3, <1>4, <1>5 DEF Next, InfoInv

(* A pass deletes in order; the newest partition, as it was read, is there  *)
(* until its turn comes.                                                    *)
LEMMA OrderStep == IndInv /\ [Next]_vars => OrderInv'
<1> SUFFICES ASSUME TypeOK, InfoInv, OrderInv, [Next]_vars, pc' = "delete" PROVE OrderInv'
  BY DEF IndInv, OrderInv
<1>1. ASSUME NEW t \in Tables, NEW p \in Parts, Write(t, p) PROVE OrderInv'
  <2>1. /\ NonEmpty(rows) \subseteq NonEmpty(rows')
        /\ UNCHANGED <<pc, disk, newest, toDelete, part>>
    BY <1>1, WriteFacts DEF passVars
  <2> QED
    BY <2>1 DEF OrderInv
<1>2. CASE NextHour \/ UNCHANGED vars
  BY <1>2 DEF NextHour, vars, passVars, OrderInv
<1>3. ASSUME NEW d \in DiskSizes, BeginPass(d) PROVE OrderInv'
  BY <1>3 DEF BeginPass, OrderInv
<1>4. CASE ReadInfo
  <2>1. /\ toDelete' \in Seq(Parts) /\ Len(toDelete') \in Nat \ {0}
        /\ \A i, j \in 1 .. Len(toDelete') : i < j => toDelete'[i] < toDelete'[j]
        /\ SizeConditionMet(disk) \/
             \A i \in 1 .. Len(toDelete') : CleanUpTimeCondition(toDelete'[i], newest)
    BY <1>4, ReadInfoFacts
  <2>2. DOMAIN toDelete' = 1 .. Len(toDelete')
    BY <2>1
  <2>3. newest \in NonEmpty(rows) /\ UNCHANGED <<rows, disk, newest, part>> /\ pc = "info"
    BY <1>4 DEF ReadInfo, InfoInv
  <2>4. part \in 1 .. Len(toDelete')
    BY <2>1, <2>3 DEF InfoInv
  <2> QED
    BY <2>1, <2>2, <2>3, <2>4 DEF OrderInv
<1>5. CASE DeleteStep
  <2>1. /\ pc = "delete" /\ UNCHANGED <<disk, newest, toDelete>>
        /\ rows' \in Store
        /\ \A t \in Tables, p \in Parts : p # toDelete[part] => rows'[t][p] = rows[t][p]
        /\ part' \in {part, part + 1} /\ part' \in 1 .. Len(toDelete)
    BY <1>5, DeleteFacts
  <2>2. /\ part \in 1 .. Len(toDelete) /\ DOMAIN toDelete = 1 .. Len(toDelete)
        /\ \A i \in DOMAIN toDelete : toDelete[i] \in Nat
        /\ Len(toDelete) \in Nat /\ newest \in Nat
    <3>1. toDelete \in Seq(Parts) /\ newest \in Parts \cup {0}
      BY DEF TypeOK
    <3>2. Len(toDelete) \in Nat /\ DOMAIN toDelete = 1 .. Len(toDelete)
          /\ \A i \in 1 .. Len(toDelete) : toDelete[i] \in Parts
      BY <3>1
    <3>3. part \in 1 .. Len(toDelete)
      BY <2>1 DEF OrderInv
    <3>4. newest \in Nat
      BY <3>1, FiniteStore
    <3> QED
      BY <3>2, <3>3, <3>4, FiniteStore
  <2>3. ASSUME ~SizeConditionMet(disk), NEW i \in DOMAIN toDelete, i >= part',
               toDelete[i] < newest
        PROVE  newest \in NonEmpty(rows')
    <3>1. i >= part
      BY <2>1, <2>2, <2>3
    <3>2. newest \in NonEmpty(rows)
      BY <2>1, <2>3, <3>1 DEF OrderInv
    <3>3. newest # toDelete[part]
      <4>1. part \in DOMAIN toDelete /\ (part = i \/ part < i)
        BY <2>2, <3>1
      <4>2. toDelete[part] <= toDelete[i]
        BY <2>1, <2>2, <4>1 DEF OrderInv
      <4> QED
        BY <2>2, <2>3, <4>1, <4>2
    <3>4. newest \in Parts /\ \E t \in Tables : rows[t][newest] > 0
      BY <3>2 DEF NonEmpty
    <3> QED
      BY <2>1, <3>3, <3>4 DEF NonEmpty
  <2>4. /\ \A i, j \in DOMAIN toDelete : i < j => toDelete[i] < toDelete[j]
        /\ SizeConditionMet(disk) \/
             \A i \in DOMAIN toDelete : CleanUpTimeCondition(toDelete[i], newest)
    BY <2>1 DEF OrderInv
  <2> QED
    BY <2>1, <2>3, <2>4 DEF OrderInv
<1> QED
  BY <1>1, <1>2, <1>3, <1>4, <1>5 DEF Next

(* What was chosen stays chosen until the pass is over.                     *)
LEMMA SelectStep == IndInv /\ [Next]_vars => SelectsOldestAndEnough'
<1> SUFFICES ASSUME TypeOK, InfoInv, OrderInv, SelectsOldestAndEnough, [Next]_vars,
                    pc' = "delete"
             PROVE  SelectsOldestAndEnough'
  BY DEF IndInv, SelectsOldestAndEnough
<1>1. CASE pc = "delete" /\ UNCHANGED <<disk, newest, info, toDelete>>
  BY <1>1 DEF SelectsOldestAndEnough
<1>2. CASE ReadInfo
  <2> DEFINE C    == ToSet(toDelete')
             last == Max(C)
             asked == IF SizeConditionMet(disk)
                        THEN Min({k \in 0 .. TotalCount(rows) :
                                    k * disk >= (disk - SizeThreshold) * TotalCount(rows)})
                        ELSE 0
  <2>1. /\ C # {} /\ C \in SUBSET Parts
        /\ \A p \in NonEmpty(rows) : p <= last => p \in C
        /\ \/ ~SizeConditionMet(disk) /\ CleanUpTimeCondition(last, newest)
           \/ /\ SizeConditionMet(disk)
              /\ \E need \in KeysToDelete(disk, TotalCount(rows)) :
                   /\ KeyCount(rows, C) >= need
                   /\ \/ CleanUpTimeCondition(last, newest)
                      \/ KeyCount(rows, C \ {last}) < need
    BY <1>2, ReadInfoFacts
  <2>2. info' = rows /\ UNCHANGED <<disk, newest>>
    BY <1>2 DEF ReadInfo
  <2>3. rows \in Store /\ disk \in Nat
    BY GCAssumption DEF TypeOK, Store
  <2>4. KeyCount(rows, C) \in Nat /\ KeyCount(rows, C \ {last}) \in Nat
    <3>1. C \ {last} \in SUBSET Parts
      BY <2>1
    <3> QED
      BY <2>1, <2>3, <3>1, KeyCountFacts
  <2>5. CASE ~SizeConditionMet(disk)
    <3>1. asked = 0 /\ CleanUpTimeCondition(last, newest)
      BY <2>1, <2>5
    <3> QED
      BY <2>1, <2>2, <2>4, <3>1 DEF SelectsOldestAndEnough, CleanUpTimeCondition
  <2>6. CASE SizeConditionMet(disk)
    <3>1. PICK need \in KeysToDelete(disk, TotalCount(rows)) :
             /\ KeyCount(rows, C) >= need
             /\ CleanUpTimeCondition(last, newest) \/ KeyCount(rows, C \ {last}) < need
      BY <2>1, <2>6
    <3>2. TotalCount(rows) \in Nat
      BY <2>3, KeyCountFacts DEF TotalCount
    <3>3. /\ need \in Nat /\ asked \in Nat
          /\ need >= asked - 1 /\ need <= asked + 1
      BY <2>3, <2>6, <3>2, NeedFacts
    <3>4. /\ KeyCount(rows, C) >= asked - 1
          /\ CleanUpTimeCondition(last, newest) \/ KeyCount(rows, C \ {last}) <= asked
      <4> HIDE DEF asked, C, last
      <4> QED
        BY <2>4, <3>1, <3>3
    <3> QED
      BY <2>1, <2>2, <2>6, <3>4 DEF SelectsOldestAndEnough, CleanUpTimeCondition
  <2> QED
    BY <2>5, <2>6
<1>3. \/ pc = "delete" /\ UNCHANGED <<disk, newest, info, toDelete>>
      \/ ReadInfo
  <2>1. ASSUME NEW t \in Tables, NEW p \in Parts, Write(t, p)
        PROVE  pc = "delete" /\ UNCHANGED <<disk, newest, info, toDelete>>
    BY <2>1 DEF Write, passVars
  <2>2. CASE NextHour \/ UNCHANGED vars
    BY <2>2 DEF NextHour, vars, passVars
  <2>3. ASSUME NEW d \in DiskSizes, BeginPass(d) PROVE FALSE
    BY <2>3 DEF BeginPass
  <2>4. CASE DeleteStep
    BY <2>4, DeleteFacts
  <2> QED
    BY <2>1, <2>2, <2>3, <2>4 DEF Next
<1> QED
  BY <1>1, <1>2, <1>3

(* Only the choice could index behind the list.                             *)
LEMMA PanicStep == IndInv /\ [Next]_vars => NoIndexPanic'
<1> SUFFICES ASSUME TypeOK, InfoInv, OrderInv, NoIndexPanic, [Next]_vars, TimeLimit >= PartLen
             PROVE  pc' # "panic"
  BY DEF IndInv, NoIndexPanic
<1>1. ASSUME NEW t \in Tables, NEW p \in Parts, Write(t, p) PROVE pc' # "panic"
  BY <1>1 DEF Write, NoIndexPanic
<1>2. CASE NextHour \/ UNCHANGED vars
  BY <1>2 DEF NextHour, vars, NoIndexPanic
<1>3. ASSUME NEW d \in DiskSizes, BeginPass(d) PROVE pc' # "panic"
  BY <1>3 DEF BeginPass
<1>4. CASE ReadInfo
  BY <1>4, ReadInfoFacts
<1>5. CASE DeleteStep
  BY <1>5, DeleteFacts
<1> QED
  BY <1>1, <1>2, <1>3, <1>4, <1>5 DEF Next

(* A fresh store, with no pass under way.                                   *)
LEMMA InitInv == Init => IndInv
<1> SUFFICES ASSUME Init PROVE IndInv
  OBVIOUS
<1>1. NoRows \in [Tables -> [Parts -> 0 .. MaxRows]]
  BY GCAssumption DEF NoRows
<1>2. Len(TableNames) \in Nat \ {0}
  BY GCAssumption
<1>3. << >> \in Seq(Parts) /\ 1 \in Parts
  BY GCAssumption DEF Parts
<1>4. TypeOK
  <2>1. tab \in 1 .. Len(TableNames) /\ part \in Nat /\ deleted \in Nat
    BY <1>2 DEF Init
  <2>2. pc = "idle" /\ errs \in BOOLEAN /\ enableDeleteKeys \in BOOLEAN
    BY DEF Init
  <2>3. now \in Parts /\ disk \in DiskSizes \cup {0} /\ newest \in Parts \cup {0}
    BY <1>3 DEF Init
  <2>4. /\ rows \in [Tables -> [Parts -> 0 .. MaxRows]]
        /\ info \in [Tables -> [Parts -> 0 .. MaxRows]]
        /\ toDelete \in Seq(Parts)
    BY <1>1, <1>3 DEF Init
  <2> QED
    BY <2>1, <2>2, <2>3, <2>4 DEF TypeOK
<1>5. InfoInv /\ OrderInv /\ SelectsOldestAndEnough /\ NoIndexPanic
  BY DEF Init, InfoInv, OrderInv, SelectsOldestAndEnough, NoIndexPanic
<1> QED
  BY <1>4, <1>5 DEF IndInv

LEMMA StepInv == IndInv /\ [Next]_vars => IndInv'
<1> SUFFICES ASSUME IndInv, [Next]_vars PROVE IndInv'
  OBVIOUS
<1>1. TypeOK'
  BY TypeStep
<1>2. InfoInv' /\ OrderInv'
  BY InfoStep, OrderStep
<1>3. SelectsOldestAndEnough' /\ NoIndexPanic'
  BY SelectStep, PanicStep
<1> QED
  BY <1>1, <1>2, <1>3 DEF IndInv

-----------------------------------------------------------------------------
(* The invariant of the clean-up: what a pass read and chose stays true     *)
(* while the processor keeps writing.                                       *)
THEOREM StoreGCInvariant == Spec => []IndInv
  BY InitInv, StepInv, PTL DEF Spec

(* The loop indices of doCleanup and deletePartition stay within the tables *)
(* and the counts of keys within the naturals.                              *)
THEOREM StoreGCTypes == Spec => []TypeOK
<1>1. IndInv => TypeOK
  BY DEF IndInv
<1> QED
  BY <1>1, StoreGCInvariant, PTL

(* getPartitionsToDelete chooses the oldest partitions, enough of them and  *)
(* none too many but for the one key that rounding may cost, for every      *)
(* store, disk size, limit and look-back.                                   *)
THEOREM SelectionIsRight == Spec => []SelectsOldestAndEnough
<1>1. IndInv => SelectsOldestAndEnough
  BY DEF IndInv
<1> QED
  BY <1>1, StoreGCInvariant, PTL

(* sortedPartitionsList is never indexed behind its end if the look-back    *)
(* covers a partition, although partitions may have come since the newest   *)
(* one was read.                                                            *)
THEOREM NeverPanics == Spec => []NoIndexPanic
<1>1. IndInv => NoIndexPanic
  BY DEF IndInv
<1> QED
  BY <1>1, StoreGCInvariant, PTL

(* A later partition does not end earlier.                                  *)
LEMMA EndOfOrder ==
    ASSUME NEW p \in Nat, NEW q \in Nat, p <= q
    PROVE  EndOf(p) \in Nat /\ EndOf(q) \in Nat /\ StartOf(p) \in Nat /\ EndOf(p) <= EndOf(q)
<1>1. PICK k \in Nat : q + 1 = (p + 1) + k
  <2>1. q - p \in Nat /\ q + 1 = (p + 1) + (q - p)
    OBVIOUS
  <2> QED
    BY <2>1
<1>2. (q + 1) * PartLen = (p + 1) * PartLen + k * PartLen
  BY <1>1, GCAssumption
<1>3. /\ (p + 1) * PartLen \in Nat /\ k * PartLen \in Nat
      /\ (q + 1) * PartLen \in Nat /\ p * PartLen \in Nat
  BY <1>1, GCAssumption
<1> QED
  BY <1>2, <1>3 DEF EndOf, StartOf

(* Only a pass deletes, and it deletes the partition it has come to.        *)
LEMMA OnlyDeleteStepDeletes ==
    ASSUME TypeOK, [Next]_vars, NEW t \in Tables, NEW p \in Parts, rows'[t][p] < rows[t][p]
    PROVE  DeleteStep
<1>1. ASSUME rows' = rows PROVE FALSE
  <2>1. rows[t][p] \in Int
    BY GCAssumption DEF TypeOK
  <2> QED
    BY <1>1, <2>1
<1>2. ASSUME NEW u \in Tables, NEW q \in Parts, Write(u, q) PROVE FALSE
  BY <1>2, WriteFacts
<1>3. CASE NextHour \/ UNCHANGED vars \/ ReadInfo
  BY <1>1, <1>3 DEF NextHour, ReadInfo, vars
<1>4. ASSUME NEW d \in DiskSizes, BeginPass(d) PROVE FALSE
  BY <1>1, <1>4 DEF BeginPass
<1> QED
  BY <1>2, <1>3, <1>4 DEF Next

(* Without need for space, what a step deletes is too old for the newest    *)
(* data there is at that moment.                                            *)
LEMMA DeletesOnlyOldData ==
    ASSUME IndInv, [Next]_vars, NEW t \in Tables, NEW p \in Parts,
           rows'[t][p] < rows[t][p], ~SizeConditionMet(disk)
    PROVE  EndOf(Max(NonEmpty(rows))) - StartOf(p) > TimeLimit
<1> DEFINE N == NonEmpty(rows)
<1>1. TypeOK /\ OrderInv /\ DeleteStep
  BY OnlyDeleteStepDeletes DEF IndInv
<1>2. /\ pc = "delete" /\ rows' \in Store
      /\ \A u \in Tables, q \in Parts : q # toDelete[part] => rows'[u][q] = rows[u][q]
  BY <1>1, DeleteFacts
<1>3. rows[t][p] \in Nat /\ rows'[t][p] \in Nat
  BY <1>1, <1>2, GCAssumption DEF TypeOK, Store
<1>4. p = toDelete[part] /\ p \in N
  BY <1>2, <1>3 DEF NonEmpty
<1>5. toDelete \in Seq(Parts) /\ newest \in Parts \cup {0}
  BY <1>1 DEF TypeOK
<1>6. part \in 1 .. Len(toDelete) /\ part \in DOMAIN toDelete /\ part >= part
  BY <1>1, <1>2, <1>5 DEF OrderInv
<1>7. /\ CleanUpTimeCondition(p, newest)
      /\ p < newest => newest \in N
  BY <1>1, <1>2, <1>4, <1>6 DEF OrderInv
<1>8. p \in Nat /\ newest \in Nat /\ MaxPart \in Nat
  BY <1>5, FiniteStore, GCAssumption
<1>9. Max(N) \in N /\ \A q \in N : q <= Max(N)
  <2>1. N \subseteq Nat /\ \A q \in N : q <= MaxPart
    BY <1>8 DEF NonEmpty, Parts
  <2> HIDE DEF N
  <2> QED
    BY <1>4, <1>8, <2>1, MaxOfNaturals
<1>10. newest <= Max(N) /\ Max(N) \in Nat
  <2>1. Max(N) \in Nat
    BY <1>9, FiniteStore DEF NonEmpty
  <2>2. p <= Max(N) /\ (newest \in N => newest <= Max(N))
    BY <1>4, <1>9
  <2> HIDE DEF N
  <2> QED
    BY <1>7, <1>8, <2>1, <2>2
<1>11. EndOf(newest) - StartOf(p) > TimeLimit
  BY <1>7 DEF CleanUpTimeCondition
<1>12. EndOf(newest) <= EndOf(Max(N)) /\ EndOf(newest) \in Nat /\ EndOf(Max(N)) \in Nat
  BY <1>8, <1>10, EndOfOrder
<1>13. StartOf(p) \in Nat /\ TimeLimit \in Nat
  BY <1>8, EndOfOrder, GCAssumption
<1> QED
  BY <1>11, <1>12, <1>13

(* Data within the look-back of the newest data is deleted only to make     *)
(* room on disk, whatever the processor writes between the two reads of a   *)
(* pass and its deletions.                                                  *)
THEOREM RecentDataIsKept == Spec => KeepsRecentData
<1> DEFINE A == \A t \in Tables, p \in Parts :
                  rows'[t][p] < rows[t][p] =>
                      \/ SizeConditionMet(disk)
                      \/ EndOf(Max(NonEmpty(rows))) - StartOf(p) > TimeLimit
<1>1. IndInv /\ [Next]_vars => [A]_vars
  BY DeletesOnlyOldData
<1> QED
  BY <1>1, StoreGCInvariant, PTL DEF Spec, KeepsRecentData
=============================================================================
