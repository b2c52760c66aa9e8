------------------------- MODULE PayloadQuery_proofs -------------------------
(***************************************************************************)
(* Proofs about PayloadQuery: what the payload query answers, for every     *)
(* cluster, range and look-back, while the store changes under it.          *)
(***************************************************************************)
EXTENDS PayloadQuery, NumberLemmas

-----------------------------------------------------------------------------
(* Times and partitions                                                     *)

(* GetPartitionId keeps the order of times, also of those a range reaches   *)
(* before the first partition.                                              *)
LEMMA PartOrder ==
    ASSUME NEW t \in Int, NEW u \in Int
    PROVE  /\ PartOf(t) \in Int /\ PartOf(u) \in Int
           /\ t <= u => PartOf(t) <= PartOf(u)
           /\ PartOf(t) < PartOf(u) => t < u
<1>1. PartLen \in Nat \ {0}
  BY PayloadQueryAssumption
<1>2. PartOf(t) \in Int /\ PartOf(u) \in Int
  BY <1>1 DEF PartOf
<1>3. t <= u => PartOf(t) <= PartOf(u)
  BY <1>1, DivMonotone DEF PartOf
<1>4. u <= t => PartOf(u) <= PartOf(t)
  BY <1>1, DivMonotone DEF PartOf
<1> QED
  BY <1>2, <1>3, <1>4

(* A time lies before the end of its partition and of every later one.      *)
LEMMA EndFacts ==
    ASSUME NEW t \in Nat, NEW p \in Int, PartOf(t) <= p
    PROVE  EndOf(p) \in Int /\ t < EndOf(p)
<1> DEFINE q == PartOf(t)
<1>1. PartLen \in Nat \ {0}
  BY PayloadQueryAssumption
<1>2. q \in Nat /\ t < PartLen * q + PartLen
  BY <1>1, DivBounds DEF PartOf
<1>3. q <= p
  OBVIOUS
<1> HIDE DEF q
<1>4. PartLen * (q + 1) <= PartLen * (p + 1)
  BY <1>1, <1>2, <1>3
<1>5. PartLen * (q + 1) = PartLen * q + PartLen /\ PartLen * q \in Nat
  BY <1>1, <1>2
<1>6. (p + 1) * PartLen = PartLen * (p + 1) /\ (p + 1) * PartLen \in Int
  BY <1>1
<1> QED
  BY <1>1, <1>2, <1>4, <1>5, <1>6 DEF EndOf

(* The times, the partitions and the rows there may be.                     *)
LEMMA RowFacts ==
    /\ MaxTime \in Nat /\ Times \subseteq Nat
    /\ \A r \in Row : /\ r.ts \in Times /\ r.ts \in Nat /\ PartOf(r.ts) \in Parts
                      /\ PartOf(r.ts) \in Nat /\ r.name \in Nat /\ r.name \in Names
    /\ Parts \subseteq 0 .. PartOf(MaxTime) /\ PartOf(MaxTime) \in Nat
<1>1. MaxTime \in Nat /\ Times \subseteq Nat /\ Names \subseteq Nat
  BY PayloadQueryAssumption DEF Times
<1>2. PartLen \in Nat \ {0}
  BY PayloadQueryAssumption
<1>3. \A t \in Nat : PartOf(t) \in Nat
  BY <1>2, DivBounds DEF PartOf
<1>4. ASSUME NEW t \in Times PROVE PartOf(t) \in 0 .. PartOf(MaxTime)
  <2>1. t \in Int /\ MaxTime \in Int /\ t <= MaxTime
    BY <1>1 DEF Times
  <2>2. PartOf(t) <= PartOf(MaxTime)
    BY <2>1, PartOrder
  <2> QED
    BY <1>1, <1>3, <2>2
<1>5. \A r \in Row : r.ts \in Times /\ r.name \in Names
  BY DEF Row
<1>6. \A t \in Times : PartOf(t) \in Parts
  BY DEF Parts
<1>7. Parts \subseteq 0 .. PartOf(MaxTime)
  BY <1>4 DEF Parts
<1> QED
  BY <1>1, <1>3, <1>5, <1>6, <1>7

-----------------------------------------------------------------------------
(* removeDupePayloads                                                       *)

(* Rows of one resource: no two of them have the same time.                 *)
OneHistory(S) ==
    S \subseteq Row /\ IsFiniteSet(S) /\ \A r, s \in S : r.ts = s.ts => r = s

(* Sorting: all rows, by time.                                              *)
LEMMA ByTimeFacts ==
    ASSUME NEW S, OneHistory(S), NEW s, s = ByTime(S)
    PROVE  /\ s \in Seq(Row) /\ Len(s) \in Nat /\ DOMAIN s = 1 .. Len(s)
           /\ \A i \in 1 .. Len(s) : s[i] \in S
           /\ \A i, j \in 1 .. Len(s) : i < j => s[i].ts < s[j].ts
           /\ \A r \in S : \E i \in 1 .. Len(s) : s[i] = r
<1> DEFINE key == [r \in S |-> r.ts]
<1>1. S \subseteq Row /\ IsFiniteSet(S) /\ Cardinality(S) \in Nat
  BY FS_CardinalityType DEF OneHistory
<1>2. s = [i \in 1 .. Cardinality(S) |->
             CHOOSE r \in S : Cardinality({q \in S : q.ts <= r.ts}) = i]
  BY DEF ByTime
<1>3. /\ DOMAIN s = 1 .. Cardinality(S) /\ Len(s) = Cardinality(S)
      /\ \A i \in 1 .. Cardinality(S) :
           s[i] = CHOOSE r \in S : Cardinality({q \in S : q.ts <= r.ts}) = i
  <2> DEFINE n == Cardinality(S)
             nth(i) == CHOOSE r \in S : Cardinality({q \in S : q.ts <= r.ts}) = i
  <2>1. s = [i \in 1 .. n |-> nth(i)] /\ n \in Nat
    BY <1>1, <1>2
  <2> HIDE DEF n, nth
  <2>2. DOMAIN s = 1 .. n /\ Len(s) = n /\ \A i \in 1 .. n : s[i] = nth(i)
    BY <2>1
  <2> QED
    BY <2>2 DEF n, nth
<1>4. ASSUME NEW p \in S PROVE UpTo(S, key, p) = {q \in S : q.ts <= p.ts}
  BY DEF UpTo
<1>5. \A i \in 1 .. Cardinality(S) :
        (\E p \in S : Cardinality(UpTo(S, key, p)) = i)
           => s[i] \in S /\ Cardinality(UpTo(S, key, s[i])) = i
  <2> SUFFICES ASSUME NEW i \in 1 .. Cardinality(S),
                      NEW p \in S, Cardinality(UpTo(S, key, p)) = i
               PROVE  s[i] \in S /\ Cardinality(UpTo(S, key, s[i])) = i
    OBVIOUS
  <2>1. Cardinality({q \in S : q.ts <= p.ts}) = i
    BY <1>4
  <2>2. s[i] = CHOOSE r \in S : Cardinality({q \in S : q.ts <= r.ts}) = i
    BY <1>3
  <2> DEFINE o == s[i]
  <2>3. o \in S /\ Cardinality({q \in S : q.ts <= o.ts}) = i
    BY <2>1, <2>2
  <2> HIDE DEF o, key
  <2>4. Cardinality(UpTo(S, key, o)) = i
    BY <1>4, <2>3
  <2> QED
    BY <2>3, <2>4 DEF o
<1>6. key \in [S -> Int] /\ (\A p, q \in S : key[p] = key[q] => p = q)
  BY <1>1, RowFacts DEF OneHistory
<1>7. /\ Len(s) \in Nat
      /\ \A i \in 1 .. Len(s) : s[i] \in S
      /\ \A i, j \in 1 .. Len(s) : i < j => key[s[i]] < key[s[j]]
      /\ \A p \in S : \E i \in 1 .. Len(s) : s[i] = p
  <2>1. Len(s) = Cardinality(S) /\ IsFiniteSet(S)
    BY <1>1, <1>3
  <2>2. /\ IsFiniteSet(S) /\ Len(s) = Cardinality(S)
        /\ key \in [S -> Int]
        /\ \A p, q \in S : key[p] = key[q] => p = q
        /\ \A i \in 1 .. Cardinality(S) :
             (\E p \in S : Cardinality(UpTo(S, key, p)) = i)
                => s[i] \in S /\ Cardinality(UpTo(S, key, s[i])) = i
    BY <1>5, <1>6, <2>1
  <2> HIDE DEF key
  <2> QED
    BY ONLY <2>2, RankedList
<1>8. s \in Seq(Row)
  <2>1. s \in [1 .. Len(s) -> Row]
    <3>1. \A i \in 1 .. Len(s) : s[i] \in Row
      BY <1>1, <1>7
    <3>2. s = [i \in DOMAIN s |-> s[i]]
      BY <1>2
    <3> QED
      BY <1>3, <3>1, <3>2
  <2> QED
    BY <1>7, <2>1
<1>9. \A i, j \in 1 .. Len(s) : i < j => s[i].ts < s[j].ts
  BY <1>7
<1> QED
  BY <1>3, <1>7, <1>8, <1>9

(* Rows that each repeat the payload before them have one payload.          *)
LEMMA RunFacts ==
    ASSUME NEW s, NEW n \in Nat, NEW a \in 1 .. n, NEW b \in 1 .. n, a <= b,
           \A j \in 1 .. n : a < j /\ j <= b => s[j].payload = s[j - 1].payload
    PROVE  s[b].payload = s[a].payload
<1> DEFINE D == {j \in a .. b : s[j].payload # s[a].payload}
<1>1. ASSUME D # {} PROVE FALSE
  <2>1. D \subseteq Nat
    OBVIOUS
  <2>2. PICK m \in D : \A j \in D : m <= j
    <3> HIDE DEF D
    <3> QED
      BY <1>1, <2>1, MinOfNaturals
  <2>3. m \in a .. b /\ m # a /\ m - 1 \in a .. b /\ m \in 1 .. n /\ a < m /\ m <= b
    BY <2>2
  <2>4. m - 1 \notin D
    BY <2>1, <2>2
  <2>5. s[m - 1].payload = s[a].payload
    BY <2>3, <2>4
  <2>6. s[m].payload = s[m - 1].payload
    BY <2>3
  <2> QED
    BY <2>2, <2>5, <2>6
<1>2. b \in a .. b
  OBVIOUS
<1> QED
  BY <1>1, <1>2

(* What is kept: rows in order of time, each of them a change; and for each *)
(* row the last one kept up to it has its payload.                          *)
LEMMA DedupFacts ==
    ASSUME NEW S, OneHistory(S), NEW s, s = RemoveDupePayloads(S)
    PROVE  /\ s \in Seq(Row) /\ Len(s) \in Nat /\ DOMAIN s = 1 .. Len(s)
           /\ \A i \in 1 .. Len(s) : s[i] \in S
           /\ \A i, j \in 1 .. Len(s) : i < j => s[i].ts < s[j].ts
           /\ \A i \in 1 .. Len(s) : i > 1 => s[i].payload # s[i - 1].payload
           /\ \A r \in S : \E k \in 1 .. Len(s) :
                /\ s[k].ts <= r.ts /\ s[k].payload = r.payload
                /\ \A j \in 1 .. Len(s) : s[j].ts <= r.ts => j <= k
<1> DEFINE o == ByTime(S)
           n == Len(o)
           kept == {i \in 1 .. n : i > 1 => o[i].payload # o[i - 1].payload}
           K == {o[i] : i \in kept}
<1>1. /\ n \in Nat /\ DOMAIN o = 1 .. n
      /\ \A i \in 1 .. n : o[i] \in S
      /\ \A i, j \in 1 .. n : i < j => o[i].ts < o[j].ts
      /\ \A r \in S : \E i \in 1 .. n : o[i] = r
  BY ByTimeFacts
<1>2. s = ByTime(K)
  BY <1>1 DEF RemoveDupePayloads
<1> HIDE DEF o, n
<1>3. K \subseteq S /\ S \subseteq Row
  BY <1>1 DEF OneHistory
<1>4. OneHistory(K)
  <2>1. IsFiniteSet(K)
    BY <1>3, FS_Subset DEF OneHistory
  <2> QED
    BY <1>3, <2>1 DEF OneHistory
<1>5. /\ s \in Seq(Row) /\ Len(s) \in Nat /\ DOMAIN s = 1 .. Len(s)
      /\ \A i \in 1 .. Len(s) : s[i] \in K
      /\ \A i, j \in 1 .. Len(s) : i < j => s[i].ts < s[j].ts
      /\ \A r \in K : \E i \in 1 .. Len(s) : s[i] = r
  <2> HIDE DEF K
  <2> QED
    BY <1>2, <1>4, ByTimeFacts
<1>6. \A i \in 1 .. n : o[i].ts \in Nat
  BY <1>1, <1>3, RowFacts
<1>7. \A i, j \in 1 .. n : o[i].ts <= o[j].ts <=> i <= j
  <2> SUFFICES ASSUME NEW i \in 1 .. n, NEW j \in 1 .. n
               PROVE  o[i].ts <= o[j].ts <=> i <= j
    OBVIOUS
  <2>1. i < j \/ i = j \/ j < i
    BY <1>1
  <2>2. (i < j => o[i].ts < o[j].ts) /\ (j < i => o[j].ts < o[i].ts)
    BY <1>1
  <2>3. o[i].ts \in Nat /\ o[j].ts \in Nat /\ i \in Nat /\ j \in Nat
    BY <1>6
  <2> QED
    BY <2>1, <2>2, <2>3
<1>8. \A i \in 1 .. Len(s) : s[i].ts \in Nat
  BY <1>3, <1>5, RowFacts
<1>9. \A i, j \in 1 .. Len(s) : s[i].ts <= s[j].ts <=> i <= j
  <2> SUFFICES ASSUME NEW i \in 1 .. Len(s), NEW j \in 1 .. Len(s)
               PROVE  s[i].ts <= s[j].ts <=> i <= j
    OBVIOUS
  <2>1. i < j \/ i = j \/ j < i
    BY <1>5
  <2>2. (i < j => s[i].ts < s[j].ts) /\ (j < i => s[j].ts < s[i].ts)
    BY <1>5
  <2>3. s[i].ts \in Nat /\ s[j].ts \in Nat /\ i \in Nat /\ j \in Nat
    BY <1>8
  <2> QED
    BY <2>1, <2>2, <2>3
<1>10. ASSUME NEW a \in kept, NEW b \in 1 .. n, a <= b,
              \A j \in kept : j <= b => j <= a
       PROVE  o[b].payload = o[a].payload
  <2>1. a \in 1 .. n
    OBVIOUS
  <2>2. ASSUME NEW j \in 1 .. n, a < j, j <= b PROVE o[j].payload = o[j - 1].payload
    <3>1. j \notin kept
      BY <1>1, <1>10, <2>1, <2>2
    <3> QED
      BY <3>1
  <2> HIDE DEF kept
  <2> QED
    BY <1>1, <1>10, <2>1, <2>2, RunFacts, ZenonT(30)
<1>11. ASSUME NEW i \in 1 .. Len(s), i > 1 PROVE s[i].payload # s[i - 1].payload
  <2>1. i - 1 \in 1 .. Len(s)
    BY <1>5, <1>11
  <2>2. PICK b \in kept : s[i] = o[b]
    BY <1>5
  <2>3. PICK a \in kept : s[i - 1] = o[a]
    BY <1>5, <2>1
  <2>4. a \in 1 .. n /\ b \in 1 .. n
    OBVIOUS
  <2>5. o[a].ts < o[b].ts
    BY <1>5, <2>1, <2>2, <2>3, SMTT(30)
  <2>6. a < b
    <3>1. ~(o[b].ts <= o[a].ts)
      BY <1>6, <2>4, <2>5
    <3>2. ~(b <= a)
      BY <1>7, <2>4, <3>1
    <3> QED
      BY <1>1, <2>4, <3>2
  <2>7. ASSUME NEW j \in kept, j < b PROVE j <= a
    <3>1. PICK k \in 1 .. Len(s) : s[k] = o[j]
      BY <1>5
    <3>2. j \in 1 .. n /\ ~(b <= j)
      BY <1>1, <2>4, <2>7
    <3>3. ~(s[i].ts <= s[k].ts)
      BY <1>7, <2>2, <2>4, <3>1, <3>2
    <3>4. ~(i <= k)
      BY <1>9, <3>1, <3>3
    <3>5. k <= i - 1
      BY <1>5, <3>4
    <3>6. s[k].ts <= s[i - 1].ts
      BY <1>9, <2>1, <3>5
    <3> QED
      BY <1>7, <2>3, <2>4, <3>1, <3>2, <3>6
  <2>8. b - 1 \in 1 .. n /\ a <= b - 1 /\ \A j \in kept : j <= b - 1 => j <= a
    BY <1>1, <2>4, <2>6, <2>7
  <2>9. o[b - 1].payload = o[a].payload
    BY <1>10, <2>8
  <2>10. o[b].payload # o[b - 1].payload
    BY <1>1, <2>4, <2>6
  <2> QED
    BY <2>2, <2>3, <2>9, <2>10
<1>12. ASSUME NEW r \in S
       PROVE  \E k \in 1 .. Len(s) :
                /\ s[k].ts <= r.ts /\ s[k].payload = r.payload
                /\ \A j \in 1 .. Len(s) : s[j].ts <= r.ts => j <= k
  <2>1. PICK b \in 1 .. n : o[b] = r
    BY <1>1
  <2> DEFINE U == {j \in kept : j <= b}
  <2>2. U \subseteq Nat /\ 1 \in U /\ \A j \in U : j <= b
    BY <1>1, <2>1
  <2>3. PICK a \in U : \A j \in U : j <= a
    <3>1. b \in Nat
      BY <2>1
    <3> HIDE DEF U
    <3> QED
      BY <2>2, <3>1, MaxOfNaturals
  <2>4. a \in kept /\ a \in 1 .. n /\ a <= b
    BY <2>3
  <2>5. o[b].payload = o[a].payload
    BY <1>10, <2>1, <2>3, <2>4
  <2>6. PICK k \in 1 .. Len(s) : s[k] = o[a]
    BY <1>5, <2>4
  <2>7. ASSUME NEW j \in 1 .. Len(s), s[j].ts <= r.ts PROVE j <= k
    <3>1. PICK c \in kept : s[j] = o[c]
      BY <1>5
    <3>2. c \in 1 .. n /\ c <= b
      BY <1>7, <2>1, <2>7, <3>1
    <3>3. c <= a
      BY <2>3, <3>1, <3>2
    <3>4. s[j].ts <= s[k].ts
      BY <1>7, <2>4, <2>6, <3>1, <3>2, <3>3
    <3> QED
      BY <1>9, <2>6, <2>7, <3>4
  <2>8. s[k].ts <= r.ts
    BY <1>7, <2>1, <2>4, <2>6
  <2> QED
    BY <2>1, <2>5, <2>6, <2>7, <2>8
<1>13. \A i \in 1 .. Len(s) : s[i] \in S
  BY <1>3, <1>5
<1> HIDE DEF K, kept
<1> QED
  BY <1>5, <1>11, <1>12, <1>13

-----------------------------------------------------------------------------
(* The time range of a query                                                *)

(* getEndOfTime: a moment that has been, not before any row.                *)
LEMMA EndOfTimeFacts ==
    ASSUME TypeOK, StoreInv
    PROVE  EndOfTime \in Int /\ EndOfTime <= now /\ \A r \in rows : r.ts <= EndOfTime
<1>1. now \in Nat /\ newest \in Int
  BY RowFacts DEF TypeOK
<1>2. EndOf(newest) \in Int
  BY <1>1, PayloadQueryAssumption DEF EndOf
<1>3. ASSUME NEW r \in rows PROVE r.ts \in Nat /\ r.ts <= now /\ r.ts < EndOf(newest)
  <2>1. r \in Row /\ r.ts \in Nat
    BY RowFacts DEF TypeOK
  <2>2. r.ts <= now /\ PartOf(r.ts) <= newest
    BY DEF StoreInv
  <2> QED
    BY <1>1, <2>1, <2>2, EndFacts
<1>4. EndOfTime = now \/ (EndOfTime = EndOf(newest) /\ EndOf(newest) <= now)
  BY <1>1, <1>2 DEF EndOfTime
<1> QED
  BY <1>1, <1>2, <1>3, <1>4

(* computeTimeRangeInternal, for every request that passes its validations. *)
LEMMA RangeFacts ==
    ASSUME TypeOK, StoreInv, NEW q \in Params, ValidParams(q),
           NEW STATE c, c = ComputeTimeRange(q)
    PROVE  /\ c \in [start : Int, end : Int] /\ c.start <= c.end
           /\ c.end <= now /\ c.end - c.start \in MinLookback .. MaxLookBack
           /\ q.lookback = None /\ q.end - q.start \in MinLookback .. MaxLookBack
                => c.end - c.start = q.end - q.start
           /\ q.lookback # None /\ q.end = None => \A r \in rows : r.ts <= c.end
<1> DEFINE e == EndOfTime
           a == AskedRange(q, e)
           s == ShiftBack(a, e)
<1>1. e \in Int /\ e <= now /\ (\A r \in rows : r.ts <= e) /\ now \in Int
  BY EndOfTimeFacts, RowFacts DEF TypeOK
<1>2. /\ MinLookback \in Nat \ {0} /\ MaxLookBack \in Nat /\ MinLookback <= MaxLookBack
      /\ q.lookback # None => q.lookback \in Int
      /\ q.start # None => q.start \in Int
      /\ q.end # None => q.end \in Int
  <2>1. /\ q.lookback \in Lookbacks \cup {None}
        /\ q.start \in Stamps \cup {None} /\ q.end \in Stamps \cup {None}
    BY DEF Params
  <2>2. Lookbacks \subseteq Int /\ Stamps \subseteq Nat
    BY PayloadQueryAssumption
  <2>3. MinLookback \in Nat \ {0} /\ MaxLookBack \in Nat /\ MinLookback <= MaxLookBack
    BY PayloadQueryAssumption
  <2>4. q.lookback # None => q.lookback \in Int
    BY <2>1, <2>2
  <2>5. (q.start # None => q.start \in Nat) /\ (q.end # None => q.end \in Nat)
    BY <2>1, <2>2
  <2> QED
    BY <2>3, <2>4, <2>5
<1>3. c = LimitLength(s)
  BY DEF ComputeTimeRange
<1> HIDE DEF e
<1>4. /\ a \in [start : Int, end : Int]
      /\ q.lookback = None => a.end = q.end /\ a.start = q.start
      /\ q.end = None => a.end = e
  BY <1>1, <1>2 DEF AskedRange, ValidParams
<1> HIDE DEF a
<1>5. /\ s \in [start : Int, end : Int] /\ s.end <= e
      /\ s.end - s.start = a.end - a.start
      /\ a.end <= e => s.end = a.end
  BY <1>1, <1>4 DEF ShiftBack
<1> HIDE DEF s
<1>6. /\ c \in [start : Int, end : Int] /\ c.end = s.end
      /\ c.end - c.start \in MinLookback .. MaxLookBack
      /\ s.end - s.start \in MinLookback .. MaxLookBack => c.end - c.start = s.end - s.start
  BY <1>2, <1>3, <1>5 DEF LimitLength
<1>7. c.start <= c.end /\ c.end <= now
  BY <1>1, <1>2, <1>5, <1>6
<1>8. ASSUME q.lookback = None, q.end - q.start \in MinLookback .. MaxLookBack
      PROVE  c.end - c.start = q.end - q.start
  BY <1>4, <1>5, <1>6, <1>8
<1>9. ASSUME q.end = None PROVE \A r \in rows : r.ts <= c.end
  <2>1. c.end = e
    BY <1>1, <1>4, <1>5, <1>6, <1>9
  <2> QED
    BY <1>1, <2>1
<1> QED
  BY <1>6, <1>7, <1>8, <1>9

-----------------------------------------------------------------------------
(* GetPreviousKey                                                           *)

(* getLastMatchingKeyInPartition finds the last row of the resource from    *)
(* before the range in a partition, if there is one.                        *)
LEMMA LastKeyFacts ==
    ASSUME TypeOK, StoreInv, NEW p \in Int
    PROVE  LET found == LastMatchingKeyInPartition(p) IN
           /\ found \subseteq {r \in Before(Visible) : PartOf(r.ts) = p}
           /\ \A r, s \in found : r = s
           /\ \A r \in Before(Visible) : PartOf(r.ts) = p =>
                found # {} /\ \A s \in found : r.ts <= s.ts
<1> DEFINE below == {r \in Visible :
                       /\ KeyLeq(PartOf(r.ts), r.name, r.ts, p, name, range.start)
                       /\ ~(r.name = name /\ r.ts = range.start)}
           last  == {r \in below :
                       \A s \in below :
                         KeyLeq(PartOf(s.ts), s.name, s.ts, PartOf(r.ts), r.name, r.ts)}
           found == {r \in last : PartOf(r.ts) = p /\ r.name = name}
<1>1. LastMatchingKeyInPartition(p) = found
  BY DEF LastMatchingKeyInPartition
<1>2. /\ Visible \subseteq Row /\ Visible \subseteq rows \cup snap
      /\ name \in Nat /\ range.start \in Int /\ range.end \in Int
  BY PayloadQueryAssumption DEF TypeOK, Visible
<1>3. \A r \in Visible : r.ts \in Nat /\ r.name \in Nat /\ PartOf(r.ts) \in Nat
  BY <1>2, RowFacts
<1>4. found \subseteq {r \in Before(Visible) : PartOf(r.ts) = p}
  <2> SUFFICES ASSUME NEW r \in found PROVE r \in Before(Visible) /\ PartOf(r.ts) = p
    OBVIOUS
  <2>1. /\ r \in Visible /\ PartOf(r.ts) = p /\ r.name = name /\ r.ts # range.start
        /\ KeyLeq(PartOf(r.ts), r.name, r.ts, p, name, range.start)
    OBVIOUS
  <2>2. r.ts <= range.start
    BY <1>2, <1>3, <2>1 DEF KeyLeq
  <2> QED
    BY <1>2, <1>3, <2>1, <2>2 DEF Before
<1>5. \A r, s \in found : r.ts <= s.ts
  <2> SUFFICES ASSUME NEW r \in found, NEW s \in found PROVE r.ts <= s.ts
    OBVIOUS
  <2>1. /\ r \in Visible /\ PartOf(r.ts) = p /\ r.name = name /\ s.name = name
        /\ PartOf(s.ts) = p
        /\ KeyLeq(PartOf(r.ts), r.name, r.ts, PartOf(s.ts), s.name, s.ts)
    OBVIOUS
  <2> QED
    BY <1>2, <1>3, <2>1 DEF KeyLeq
<1>6. \A r, s \in found : r = s
  <2> SUFFICES ASSUME NEW r \in found, NEW s \in found PROVE r = s
    OBVIOUS
  <2>1. r \in Visible /\ s \in Visible /\ r.name = s.name
    OBVIOUS
  <2>2. r.ts <= s.ts /\ s.ts <= r.ts
    BY <1>5
  <2>3. r.ts = s.ts
    BY <1>3, <2>1, <2>2
  <2> QED
    BY <1>2, <2>1, <2>3 DEF StoreInv
<1>7. ASSUME NEW r \in Before(Visible), PartOf(r.ts) = p
      PROVE  \E m \in found : r.ts <= m.ts
  <2> DEFINE T == {s.ts : s \in {u \in below : u.name = name /\ PartOf(u.ts) = p}}
  <2>1. r \in Visible /\ r.name = name /\ r.ts < range.start /\ PartOf(r.ts) = p
    BY <1>7 DEF Before
  <2>2. r \in below
    BY <1>2, <1>3, <2>1 DEF KeyLeq
  <2>3. r.ts \in T /\ T \subseteq Nat /\ \A t \in T : t <= MaxTime
    <3>1. \A s \in Visible : s.ts \in 0 .. MaxTime
      BY <1>2, RowFacts DEF Times
    <3> QED
      BY <2>1, <2>2, <3>1, RowFacts
  <2>4. PICK t \in T : \A u \in T : u <= t
    <3> HIDE DEF T
    <3> QED
      BY <2>3, RowFacts, MaxOfNaturals
  <2>5. PICK m \in below : m.name = name /\ PartOf(m.ts) = p /\ m.ts = t
    BY <2>4
  <2>6. ASSUME NEW s \in below
        PROVE  KeyLeq(PartOf(s.ts), s.name, s.ts, PartOf(m.ts), m.name, m.ts)
    <3>1. /\ s \in Visible /\ s.ts \in Nat /\ s.name \in Nat /\ PartOf(s.ts) \in Nat
          /\ KeyLeq(PartOf(s.ts), s.name, s.ts, p, name, range.start)
      BY <1>3
    <3>2. CASE PartOf(s.ts) = p /\ s.name = name
      <4>1. s.ts \in T
        BY <3>2
      <4>2. s.ts <= m.ts
        BY <2>4, <2>5, <4>1
      <4> QED
        BY <2>5, <3>2, <4>2 DEF KeyLeq
    <3>3. CASE ~(PartOf(s.ts) = p /\ s.name = name)
      BY <2>5, <3>1, <3>3 DEF KeyLeq
    <3> QED
      BY <3>2, <3>3
  <2>7. m \in found
    BY <2>5, <2>6
  <2>8. r.ts <= m.ts
    BY <2>3, <2>4, <2>5
  <2> QED
    BY <2>7, <2>8
<1>8. ASSUME NEW r \in Before(Visible), PartOf(r.ts) = p
      PROVE  found # {} /\ \A s \in found : r.ts <= s.ts
  <2>1. PICK m \in found : r.ts <= m.ts
    BY <1>7, <1>8
  <2> QED
    BY <1>6, <2>1
<1> HIDE DEF found
<1> QED
  BY <1>1, <1>4, <1>6, <1>8

-----------------------------------------------------------------------------
(* The rest of the program, while a query runs                              *)

(* What the processor writes is not visible to a query.                     *)
LEMMA WriteFacts ==
    ASSUME TypeOK, StoreInv, NEW n \in Names, NEW p \in Payloads, Write(n, p)
    PROVE  /\ UNCHANGED <<now, pc, name, range, readVars>>
           /\ rows' \subseteq Row /\ rows \subseteq rows' /\ newest' \in Parts \cup {-1}
           /\ Visible' = Visible /\ StoreInv'
<1>1. PICK t \in Times :
        /\ t <= now
        /\ \A r \in rows \cup snap : <<r.name, r.ts>> # <<n, t>>
        /\ rows' = rows \cup {[name |-> n, ts |-> t, payload |-> p]}
        /\ newest' = NewestAfter(t)
        /\ UNCHANGED <<now, pc, name, range, readVars>>
  BY DEF Write
<1> DEFINE new == [name |-> n, ts |-> t, payload |-> p]
<1>2. new \in Row /\ new.name = n /\ new.ts = t
  BY DEF Row
<1>3. \A r \in rows \cup snap : ~(r.name = n /\ r.ts = t)
  BY <1>1
<1>4. rows' = rows \cup {new} /\ new \notin snap /\ snap' = snap
  BY <1>1, <1>2, <1>3 DEF readVars
<1>5. PartOf(t) \in Parts /\ PartOf(t) \in Int /\ newest \in Int /\ newest \in Parts \cup {-1}
  BY <1>2, RowFacts DEF TypeOK
<1>6. /\ newest' \in Parts \cup {-1} /\ newest' \in Int
      /\ newest <= newest' /\ PartOf(t) <= newest'
  BY <1>1, <1>5 DEF NewestAfter
<1>7. Visible' = Visible
  BY <1>4 DEF Visible
<1> HIDE DEF new
<1>8. rows' \subseteq Row /\ rows \subseteq rows'
  BY <1>2, <1>4 DEF TypeOK
<1>9. StoreInv'
  <2>1. IsFiniteSet(rows') /\ IsFiniteSet(snap')
    BY <1>4, FS_AddElement DEF StoreInv
  <2>2. ASSUME NEW r \in rows' PROVE r.ts <= now' /\ PartOf(r.ts) <= newest'
    <3>1. CASE r = new
      BY <1>1, <1>2, <1>6, <3>1
    <3>2. CASE r \in rows
      <4>1. PartOf(r.ts) \in Int /\ r.ts <= now /\ PartOf(r.ts) <= newest
        BY <3>2, RowFacts DEF TypeOK, StoreInv
      <4> QED
        BY <1>1, <1>5, <1>6, <4>1
    <3> QED
      BY <1>4, <3>1, <3>2
  <2>3. ASSUME NEW r \in rows' \cup snap', NEW s \in rows' \cup snap',
               r.name = s.name, r.ts = s.ts
        PROVE  r = s
    BY <1>2, <1>3, <1>4, <2>3 DEF StoreInv
  <2> QED
    BY <2>1, <2>2, <2>3 DEF StoreInv
<1> QED
  BY <1>1, <1>6, <1>7, <1>8, <1>9

(* The garbage collector takes the oldest partition: what it leaves is not  *)
(* older than anything it takes.                                            *)
LEMMA GcFacts ==
    ASSUME TypeOK, StoreInv, GcDrops
    PROVE  /\ UNCHANGED <<now, newest, pc, name, range, readVars>>
           /\ rows' \subseteq rows /\ StoreInv'
           /\ \A r \in rows', p \in rows : PartOf(r.ts) <= PartOf(p.ts) => p \in rows'
<1> DEFINE W == WatchParts
           m == Min(W)
<1>1. /\ rows # {} /\ rows' = {r \in rows : PartOf(r.ts) # m}
      /\ UNCHANGED <<now, newest, pc, name, range, readVars>>
  BY DEF GcDrops
<1>2. \A r \in rows : PartOf(r.ts) \in W /\ PartOf(r.ts) \in Nat
  BY RowFacts DEF TypeOK, WatchParts
<1>3. W \subseteq Nat /\ W # {}
  BY <1>1, <1>2 DEF WatchParts
<1>4. m \in Nat /\ \A q \in W : m <= q
  <2> HIDE DEF W
  <2> QED
    BY <1>3, MinOfNaturals
<1> HIDE DEF m, W
<1>5. ASSUME NEW r \in rows', NEW p \in rows, PartOf(r.ts) <= PartOf(p.ts)
      PROVE  p \in rows'
  <2>1. r \in rows /\ PartOf(r.ts) # m
    BY <1>1
  <2>2. m <= PartOf(r.ts) /\ PartOf(r.ts) \in Nat /\ PartOf(p.ts) \in Nat
    BY <1>2, <1>4, <2>1
  <2>3. PartOf(p.ts) # m
    BY <1>4, <1>5, <2>1, <2>2
  <2> QED
    BY <1>1, <2>3
<1>6. StoreInv'
  <2>1. rows' \subseteq rows /\ UNCHANGED <<now, newest, snap>>
    BY <1>1 DEF readVars
  <2>2. IsFiniteSet(rows')
    BY <2>1, FS_Subset DEF StoreInv
  <2> QED
    BY <2>1, <2>2 DEF StoreInv
<1> QED
  BY <1>1, <1>5, <1>6

StoreStep ==
    \/ Tick \/ WriteOthersOnly \/ GcDrops \/ UNCHANGED vars
    \/ \E n \in Names, p \in Payloads : Write(n, p)

(* What a query sees of the store, and has in its hands, when the rest of   *)
(* the program takes a step.                                                *)
LEMMA StoreStepFacts ==
    ASSUME TypeOK, StoreInv, StoreStep
    PROVE  /\ UNCHANGED <<pc, name, range, readVars>>
           /\ now' \in Times /\ rows' \subseteq Row /\ newest' \in Parts \cup {-1}
           /\ StoreInv' /\ Visible' \subseteq Visible
           /\ \A r \in Visible', p \in Visible : PartOf(r.ts) <= PartOf(p.ts) => p \in rows'
<1>1. now \in Times /\ now \in Nat /\ rows \subseteq Row /\ newest \in Parts \cup {-1}
  BY RowFacts DEF TypeOK
<1>2. CASE UNCHANGED vars
  BY <1>1, <1>2 DEF vars, storeVars, readVars, StoreInv, Visible
<1>3. CASE Tick
  <2>1. now' = now + 1 /\ now < MaxTime /\ UNCHANGED <<rows, newest, pc, name, range, readVars>>
    BY <1>3 DEF Tick
  <2>2. now' \in Times
    BY <1>1, <2>1, RowFacts DEF Times
  <2>3. \A r \in rows : r.ts <= now'
    <3>1. \A r \in rows : r.ts <= now /\ r.ts \in Nat
      BY <1>1, RowFacts DEF StoreInv
    <3> QED
      BY <1>1, <2>1, <3>1
  <2> QED
    BY <1>1, <2>1, <2>2, <2>3 DEF StoreInv, Visible, readVars
<1>4. CASE WriteOthersOnly
  <2>1. newest' = NewestAfter(now) /\ UNCHANGED <<now, rows, pc, name, range, readVars>>
    BY <1>4 DEF WriteOthersOnly
  <2>2. PartOf(now) \in Parts /\ PartOf(now) \in Int /\ newest \in Int
    BY <1>1, RowFacts DEF Parts
  <2>3. newest' \in Parts \cup {-1} /\ newest' \in Int /\ newest <= newest'
    BY <1>1, <2>1, <2>2 DEF NewestAfter
  <2>4. \A r \in rows : PartOf(r.ts) <= newest'
    <3>1. \A r \in rows : PartOf(r.ts) <= newest /\ PartOf(r.ts) \in Nat
      BY <1>1, RowFacts DEF StoreInv
    <3> QED
      BY <2>2, <2>3, <3>1
  <2> QED
    BY <1>1, <2>1, <2>3, <2>4 DEF StoreInv, Visible, readVars
<1>5. CASE GcDrops
  <2>1. /\ UNCHANGED <<now, newest, pc, name, range, readVars>>
        /\ rows' \subseteq rows /\ StoreInv'
        /\ \A r \in rows', p \in rows : PartOf(r.ts) <= PartOf(p.ts) => p \in rows'
    BY <1>5, GcFacts
  <2> QED
    BY <1>1, <2>1 DEF Visible, readVars
<1>6. ASSUME NEW n \in Names, NEW p \in Payloads, Write(n, p)
      PROVE  /\ UNCHANGED <<now, pc, name, range, readVars>>
             /\ rows' \subseteq Row /\ rows \subseteq rows' /\ newest' \in Parts \cup {-1}
             /\ Visible' = Visible /\ StoreInv'
  BY <1>6, WriteFacts
<1>7. CASE \E n \in Names, p \in Payloads : Write(n, p)
  BY <1>1, <1>6, <1>7 DEF Visible
<1> QED
  BY <1>2, <1>3, <1>4, <1>5, <1>7 DEF StoreStep

(* GetPreviousKey finds the last row of the resource from before the range, *)
(* also in an older partition than that of startTime.                       *)
LEMMA PreviousKeyFacts ==
    ASSUME TypeOK, StoreInv, GetPreviousKey
    PROVE  /\ prev' \subseteq Before(Visible) /\ \A r, s \in prev' : r = s
           /\ \/ pc' = "render" /\ prev' = {} /\ Before(Visible) = {}
              \/ pc' = "get" /\ prev' # {} /\ \A r \in Before(Visible), p \in prev' : r.ts <= p.ts
<1> DEFINE ps    == {PartOf(r.ts) : r \in Visible}
           found == {p \in EarlierPartitions : LastMatchingKeyInPartition(p) # {}}
<1>1. Visible \subseteq Row /\ range.start \in Int
  BY DEF TypeOK, Visible
<1>2. ps \subseteq Nat /\ \A p \in ps : p <= PartOf(MaxTime)
  BY <1>1, RowFacts
<1>3. ps # {} => /\ Min(ps) \in ps /\ Max(ps) \in ps
                 /\ \A p \in ps : Min(ps) <= p /\ p <= Max(ps)
  <2> HIDE DEF ps
  <2> QED
    BY <1>2, RowFacts, MinOfNaturals, MaxOfNaturals
<1>4. /\ UniquePartitionList = IF ps = {} THEN {} ELSE Min(ps) .. Max(ps)
      /\ \A r \in Visible : PartOf(r.ts) \in ps
  BY DEF UniquePartitionList
<1>5. /\ UniquePartitionList \subseteq Nat
      /\ \A p \in UniquePartitionList : p <= PartOf(MaxTime)
      /\ \A r \in Visible : PartOf(r.ts) \in UniquePartitionList
  <2> HIDE DEF ps
  <2>1. CASE ps = {}
    BY <1>4, <2>1
  <2>2. CASE ps # {}
    <3>1. Min(ps) \in Nat /\ Max(ps) \in Nat /\ Max(ps) <= PartOf(MaxTime)
      BY <1>2, <1>3, <2>2
    <3>2. UniquePartitionList = Min(ps) .. Max(ps)
      BY <1>4, <2>2
    <3>3. ASSUME NEW p \in UniquePartitionList PROVE p \in Nat /\ p <= PartOf(MaxTime)
      BY <3>1, <3>2, RowFacts
    <3>4. ASSUME NEW r \in Visible PROVE PartOf(r.ts) \in UniquePartitionList
      <4>1. PartOf(r.ts) \in ps /\ PartOf(r.ts) \in Nat
        BY <1>2, <1>4
      <4>2. Min(ps) <= PartOf(r.ts) /\ PartOf(r.ts) <= Max(ps)
        BY <1>3, <2>2, <4>1
      <4> QED
        BY <3>1, <3>2, <4>1, <4>2
    <3> QED
      BY <3>3, <3>4
  <2> QED
    BY <2>1, <2>2
<1>6. found \subseteq Nat /\ \A p \in found : p <= PartOf(MaxTime)
  BY <1>5 DEF EarlierPartitions
<1>7. ASSUME NEW r \in Before(Visible) PROVE PartOf(r.ts) \in found
  <2>1. r \in Visible /\ r.ts < range.start /\ r.ts \in Nat /\ PartOf(r.ts) \in Nat
    BY <1>1, RowFacts DEF Before
  <2>2. PartOf(r.ts) <= PartOf(range.start)
    BY <1>1, <2>1, PartOrder
  <2>3. PartOf(r.ts) \in EarlierPartitions
    BY <1>5, <2>1, <2>2 DEF EarlierPartitions
  <2>4. LastMatchingKeyInPartition(PartOf(r.ts)) # {}
    <3> DEFINE p == PartOf(r.ts)
    <3>1. p \in Int
      BY <2>1
    <3>2. p = PartOf(r.ts)
      OBVIOUS
    <3> HIDE DEF p
    <3>3. LastMatchingKeyInPartition(p) # {}
      BY <3>1, <3>2, LastKeyFacts
    <3> QED
      BY <3>2, <3>3
  <2> QED
    BY <2>3, <2>4
<1>8. /\ found = {} => pc' = "render" /\ prev' = {}
      /\ found # {} => pc' = "get" /\ prev' = LastMatchingKeyInPartition(Max(found))
  BY DEF GetPreviousKey
<1> HIDE DEF found
<1>9. CASE found = {}
  BY <1>7, <1>8, <1>9
<1>10. CASE found # {}
  <2> DEFINE m == Max(found)
  <2>1. m \in found /\ \A p \in found : p <= m
    BY <1>6, <1>10, RowFacts, MaxOfNaturals
  <2>2. prev' = LastMatchingKeyInPartition(m) /\ pc' = "get"
    BY <1>8, <1>10
  <2> HIDE DEF m
  <2>3. m \in Nat /\ LastMatchingKeyInPartition(m) # {}
    BY <1>6, <2>1 DEF found
  <2>4. /\ prev' \subseteq {r \in Before(Visible) : PartOf(r.ts) = m}
        /\ \A r, s \in prev' : r = s
        /\ \A r \in Before(Visible) : PartOf(r.ts) = m => \A s \in prev' : r.ts <= s.ts
    BY <2>2, <2>3, LastKeyFacts
  <2>5. ASSUME NEW r \in Before(Visible), NEW p \in prev' PROVE r.ts <= p.ts
    <3>1. PartOf(r.ts) \in found /\ PartOf(r.ts) <= m /\ p \in Before(Visible) /\ PartOf(p.ts) = m
      BY <1>7, <2>1, <2>4
    <3>2. r.ts \in Int /\ p.ts \in Int /\ PartOf(r.ts) \in Nat
      BY <1>1, <3>1, RowFacts DEF Before
    <3>3. CASE PartOf(r.ts) = m
      BY <2>4, <3>3
    <3>4. CASE PartOf(r.ts) < m
      <4>1. PartOf(r.ts) < PartOf(p.ts)
        BY <3>1, <3>4
      <4>2. r.ts < p.ts
        BY <3>2, <4>1, PartOrder
      <4> QED
        BY <3>2, <4>2
    <3> QED
      BY <2>3, <3>1, <3>2, <3>3, <3>4
  <2> QED
    BY <2>2, <2>3, <2>4, <2>5
<1> QED
  BY <1>9, <1>10

(* The rows an answer is made from are all of the resource.                 *)
LEMMA OneResource ==
    ASSUME TypeOK, StoreInv, PrevInv, pc \in {"render", "done"}
    PROVE  OneHistory(watchRes)
<1>1. watchRes \subseteq InRange(snap) \cup prev /\ prev \subseteq Before(snap)
  BY DEF PrevInv
<1>2. \A r \in watchRes : r \in snap /\ r.name = name
  BY <1>1 DEF InRange, Before
<1>3. IsFiniteSet(watchRes)
  BY <1>2, FS_Subset DEF StoreInv
<1>4. watchRes \subseteq Row
  BY <1>2 DEF TypeOK
<1>5. \A r, s \in watchRes : r.ts = s.ts => r = s
  BY <1>2 DEF StoreInv
<1> QED
  BY <1>3, <1>4, <1>5 DEF OneHistory

-----------------------------------------------------------------------------
(* The invariant                                                            *)

(* Every step is one of the rest of the program or one of the query.        *)
LEMMA StepCases ==
    ASSUME [Next]_vars
    PROVE  \/ StoreStep
           \/ \E q \in Params : BeginQuery(q) \/ BeginQueryFails(q)
           \/ OpenView \/ RangeRead \/ RangeReadEnds \/ GetPreviousKey \/ Get \/ ReadFails
           \/ Render \/ Respond
  BY Zenon DEF Next, StoreStep

(* The rows a query has in its hands are rows it has seen, one of them at   *)
(* most from before the range.                                              *)
LEMMA TypeStep == IndInv /\ [Next]_vars => TypeOK'
<1> SUFFICES ASSUME TypeOK, StoreInv, ReadInv, PrevInv, [Next]_vars PROVE TypeOK'
  BY DEF IndInv
<1>1. CASE StoreStep
  <2>1. /\ UNCHANGED <<pc, name, range, snap, cur, watchRes, prev, reply>>
        /\ now' \in Times /\ rows' \subseteq Row /\ newest' \in Parts \cup {-1}
    BY <1>1, StoreStepFacts DEF readVars
  <2> QED
    BY <2>1 DEF TypeOK
<1>2. ASSUME NEW q \in Params, BeginQuery(q) PROVE TypeOK'
  <2>1. q.name \in Names
    BY DEF Params
  <2> DEFINE c == ComputeTimeRange(q)
  <2>2. ValidParams(q) /\ range' = c
    BY <1>2 DEF BeginQuery
  <2>3. c \in [start : Int, end : Int]
    <3> HIDE DEF c
    <3> QED
      BY <2>2, RangeFacts DEF c
  <2> HIDE DEF c
  <2> QED
    BY <1>2, <2>1, <2>2, <2>3 DEF BeginQuery, TypeOK, storeVars, readVars
<1>3. ASSUME NEW q \in Params, BeginQueryFails(q) PROVE TypeOK'
  BY <1>3 DEF BeginQueryFails, TypeOK, storeVars, readVars
<1>4. CASE OpenView
  <2>1. PartOf(range.start) \in Int
    BY PartOrder DEF TypeOK
  <2>2. watchRes = {}
    BY <1>4 DEF OpenView, ReadInv
  <2> QED
    BY <1>4, <2>1, <2>2 DEF OpenView, TypeOK, storeVars
<1>5. CASE RangeRead
  <2>1. watchRes' \subseteq snap /\ cur' \in Int
    BY <1>5 DEF RangeRead, TypeOK, Visible
  <2> QED
    BY <1>5, <2>1 DEF RangeRead, TypeOK, storeVars
<1>6. CASE RangeReadEnds
  BY <1>6 DEF RangeReadEnds, TypeOK, storeVars, readVars
<1>7. CASE GetPreviousKey
  <2>1. prev' \subseteq Row /\ (\A r, s \in prev' : r = s) /\ pc' \in {"get", "render"}
    BY <1>7, PreviousKeyFacts DEF Before, Visible, TypeOK
  <2>2. Cardinality(prev') <= 1
    <3>1. CASE prev' = {}
      BY <3>1, FS_EmptySet
    <3>2. ASSUME NEW r \in prev' PROVE prev' = {r}
      BY <2>1
    <3>3. ASSUME NEW r \in prev' PROVE Cardinality(prev') = 1
      BY <3>2, <3>3, FS_Singleton
    <3> QED
      BY <3>1, <3>3
  <2> QED
    BY <1>7, <2>1, <2>2 DEF GetPreviousKey, TypeOK, storeVars
<1>8. CASE Get
  <2>1. watchRes' \subseteq snap
    BY <1>8 DEF Get, TypeOK, Visible
  <2> QED
    BY <1>8, <2>1 DEF Get, TypeOK, storeVars
<1>9. CASE ReadFails \/ Respond
  <2>1. ClearQuery /\ pc' \in {"failed", "idle"} /\ UNCHANGED storeVars
    BY <1>9 DEF ReadFails, Respond
  <2>2. Cardinality(prev') <= 1
    BY <2>1, FS_EmptySet DEF ClearQuery
  <2> QED
    BY <2>1, <2>2 DEF ClearQuery, TypeOK, storeVars
<1>10. CASE Render
  <2>1. reply' = RemoveDupePayloads(watchRes) /\ OneHistory(watchRes)
    BY <1>10, OneResource DEF Render
  <2>2. reply' \in Seq(Row)
    BY <2>1, DedupFacts
  <2> QED
    BY <1>10, <2>2 DEF Render, TypeOK, storeVars
<1> QED
  BY <1>1, <1>2, <1>3, <1>4, <1>5, <1>6, <1>7, <1>8, <1>9, <1>10, StepCases

(* No two rows have one key, now or when the query began.                   *)
LEMMA StoreInvStep == IndInv /\ [Next]_vars => StoreInv'
<1> SUFFICES ASSUME TypeOK, StoreInv, [Next]_vars PROVE StoreInv'
  BY DEF IndInv
<1>1. CASE StoreStep
  BY <1>1, StoreStepFacts
<1>2. CASE UNCHANGED storeVars /\ snap' \in {snap, rows, {}}
  <2>1. IsFiniteSet(snap')
    BY <1>2, FS_EmptySet DEF StoreInv
  <2> QED
    BY <1>2, <2>1 DEF StoreInv, storeVars
<1>3. ASSUME NEW q \in Params, BeginQuery(q) \/ BeginQueryFails(q)
      PROVE  UNCHANGED storeVars /\ snap' \in {snap, rows, {}}
  BY <1>3 DEF BeginQuery, BeginQueryFails, readVars
<1>4. CASE OpenView \/ RangeRead \/ RangeReadEnds \/ GetPreviousKey \/ Get \/ Render
  BY <1>2, <1>4 DEF OpenView, RangeRead, RangeReadEnds, GetPreviousKey, Get, Render, readVars
<1>5. CASE ReadFails \/ Respond
  BY <1>2, <1>5 DEF ReadFails, Respond, ClearQuery
<1> QED
  BY <1>1, <1>2, <1>3, <1>4, <1>5, StepCases

(* What was read is in the range, and nothing that is still there was       *)
(* missed.                                                                  *)
LEMMA ReadInvStep == IndInv /\ [Next]_vars => ReadInv'
<1> SUFFICES ASSUME TypeOK, StoreInv, ReadInv, PrevInv, [Next]_vars PROVE ReadInv'
  BY DEF IndInv
<1>0. /\ range.start \in Int /\ range.end \in Int /\ cur \in Int
      /\ \A r \in Visible : r \in snap /\ r.ts \in Nat /\ PartOf(r.ts) \in Nat
  BY RowFacts DEF TypeOK, Visible
<1>1. CASE StoreStep
  <2>1. UNCHANGED <<pc, name, range, snap, cur, watchRes, prev>> /\ Visible' \subseteq Visible
    BY <1>1, StoreStepFacts DEF readVars
  <2>2. InRange(snap)' = InRange(snap) /\ InRange(Visible)' \subseteq InRange(Visible)
    BY <2>1 DEF InRange, InTimeRange
  <2> QED
    BY <2>1, <2>2 DEF ReadInv
<1>2. ASSUME NEW q \in Params, BeginQuery(q) PROVE ReadInv'
  <2> DEFINE c == ComputeTimeRange(q)
  <2>1. ValidParams(q) /\ range' = c /\ pc' = "view" /\ pc = "idle"
        /\ UNCHANGED <<watchRes, prev>>
    BY <1>2 DEF BeginQuery, readVars
  <2> HIDE DEF c
  <2>2. c.start <= c.end
    BY <2>1, RangeFacts DEF c
  <2> QED
    BY <2>1, <2>2 DEF ReadInv
<1>3. ASSUME NEW q \in Params, BeginQueryFails(q) PROVE ReadInv'
  BY <1>3 DEF BeginQueryFails, ReadInv, readVars
<1>4. CASE OpenView
  <2>1. /\ pc = "view" /\ pc' = "read" /\ UNCHANGED <<name, range, watchRes, prev>>
        /\ cur' = PartOf(range.start) /\ snap' = rows /\ rows' = rows
    BY <1>4 DEF OpenView, storeVars
  <2>2. ASSUME NEW r \in rows, r.ts >= range.start PROVE ~(PartOf(r.ts) < cur')
    <3>1. r.ts \in Int
      BY RowFacts DEF TypeOK
    <3>2. PartOf(range.start) <= PartOf(r.ts) /\ PartOf(range.start) \in Int
          /\ PartOf(r.ts) \in Int
      BY <1>0, <2>2, <3>1, PartOrder
    <3> QED
      BY <2>1, <3>2
  <2>3. \A r \in InRange(Visible)' : r \in rows /\ r.ts >= range.start
    BY <2>1 DEF InRange, InTimeRange, Visible
  <2>4. watchRes = {} /\ prev = {} /\ range.start <= range.end
    BY <2>1 DEF ReadInv
  <2> QED
    BY <2>1, <2>2, <2>3, <2>4 DEF ReadInv
<1>5. CASE RangeRead
  <2> DEFINE new == {r \in Visible : PartOf(r.ts) = cur /\ r.name = name /\ InTimeRange(r)}
  <2>1. /\ pc = "read" /\ pc' = "read" /\ UNCHANGED <<name, range, snap, rows, prev>>
        /\ watchRes' = watchRes \cup new /\ cur' = cur + 1
    BY <1>5 DEF RangeRead, storeVars
  <2>2. InRange(snap)' = InRange(snap) /\ InRange(Visible)' = InRange(Visible)
    BY <2>1 DEF InRange, InTimeRange, Visible
  <2>3. new \subseteq InRange(snap)
    BY DEF InRange, Visible
  <2>4. ASSUME NEW r \in InRange(Visible), PartOf(r.ts) < cur + 1 PROVE r \in watchRes \cup new
    <3>1. r \in Visible /\ PartOf(r.ts) \in Nat /\ r.name = name /\ InTimeRange(r)
      BY <1>0 DEF InRange
    <3>2. PartOf(r.ts) = cur \/ PartOf(r.ts) < cur
      BY <1>0, <2>4, <3>1
    <3>3. PartOf(r.ts) < cur => r \in watchRes
      BY <2>1 DEF ReadInv
    <3> QED
      BY <3>1, <3>2, <3>3
  <2> HIDE DEF new
  <2> QED
    BY <2>1, <2>2, <2>3, <2>4 DEF ReadInv
<1>6. CASE RangeReadEnds
  <2>1. /\ pc = "read" /\ pc' = "prev" /\ cur > PartOf(range.end)
        /\ UNCHANGED <<name, range, snap, rows, prev, watchRes>>
    BY <1>6 DEF RangeReadEnds, LastPartition, storeVars, readVars
  <2>2. InRange(snap)' = InRange(snap) /\ InRange(Visible)' = InRange(Visible)
    BY <2>1 DEF InRange, InTimeRange, Visible
  <2>3. ASSUME NEW r \in InRange(Visible) PROVE r \in watchRes
    <3>1. r \in Visible /\ r.ts \in Int /\ r.ts <= range.end
      BY <1>0 DEF InRange, InTimeRange
    <3>2. /\ PartOf(r.ts) <= PartOf(range.end)
          /\ PartOf(r.ts) \in Int /\ PartOf(range.end) \in Int
      BY <1>0, <3>1, PartOrder
    <3>3. PartOf(r.ts) < cur
      BY <1>0, <2>1, <3>2
    <3> QED
      BY <2>1, <3>3 DEF ReadInv
  <2> QED
    BY <2>1, <2>2, <2>3 DEF ReadInv
<1>7. CASE GetPreviousKey
  <2>1. /\ pc = "prev" /\ pc' \in {"get", "render"}
        /\ UNCHANGED <<name, range, snap, rows, watchRes>>
    BY <1>7, PreviousKeyFacts DEF GetPreviousKey, storeVars
  <2>2. InRange(snap)' = InRange(snap) /\ InRange(Visible)' = InRange(Visible)
    BY <2>1 DEF InRange, InTimeRange, Visible
  <2> QED
    BY <2>1, <2>2 DEF ReadInv
<1>8. CASE Get \/ Render
  <2>1. /\ pc \in {"get", "render"} /\ pc' \in {"render", "done"}
        /\ UNCHANGED <<name, range, snap, rows>> /\ watchRes \subseteq watchRes'
    BY <1>8 DEF Get, Render, storeVars
  <2>2. InRange(Visible)' = InRange(Visible)
    BY <2>1 DEF InRange, InTimeRange, Visible
  <2> QED
    BY <2>1, <2>2 DEF ReadInv
<1>9. CASE ReadFails \/ Respond
  BY <1>9 DEF ReadFails, Respond, ClearQuery, ReadInv
<1> QED
  BY <1>1, <1>2, <1>3, <1>4, <1>5, <1>6, <1>7, <1>8, <1>9, StepCases

(* The previous key stays the last one, and does not vanish before older    *)
(* rows.                                                                    *)
LEMMA PrevInvStep == IndInv /\ [Next]_vars => PrevInv'
<1> SUFFICES ASSUME TypeOK, StoreInv, ReadInv, PrevInv, [Next]_vars PROVE PrevInv'
  BY DEF IndInv
<1>0. \A r \in Visible : r \in snap /\ r \in rows /\ r.ts \in Int
  BY RowFacts DEF TypeOK, Visible
<1>1. CASE StoreStep
  <2>1. /\ UNCHANGED <<pc, name, range, snap, watchRes, prev>> /\ Visible' \subseteq Visible
        /\ \A r \in Visible', p \in Visible : PartOf(r.ts) <= PartOf(p.ts) => p \in rows'
    BY <1>1, StoreStepFacts DEF readVars
  <2>2. /\ Before(snap)' = Before(snap) /\ InRange(snap)' = InRange(snap)
        /\ Before(Visible)' \subseteq Before(Visible) /\ Before(Visible)' \subseteq Visible'
    BY <2>1 DEF Before, InRange, InTimeRange
  <2>3. ASSUME pc = "get", NEW r \in Before(Visible)', NEW p \in prev
        PROVE  p \in rows' /\ r.ts <= p.ts
    <3>1. r \in Before(Visible) /\ r \in Visible' /\ r \in Visible
      BY <2>1, <2>2
    <3>2. p \in rows /\ r.ts <= p.ts
      BY <2>3, <3>1 DEF PrevInv
    <3>3. p \in Visible
      BY <3>2 DEF PrevInv, Before, Visible
    <3>4. PartOf(r.ts) <= PartOf(p.ts)
      BY <1>0, <3>1, <3>2, <3>3, PartOrder
    <3> QED
      BY <2>1, <3>1, <3>2, <3>3, <3>4
  <2>4. prev \subseteq Before(snap) /\ (pc = "get" => prev # {})
    BY DEF PrevInv
  <2>5. ASSUME pc \in {"render", "done"}
        PROVE  /\ watchRes \subseteq InRange(snap) \cup prev
               /\ \A r \in Before(Visible)' : \E p \in prev \cap watchRes : r.ts <= p.ts
    BY <2>2, <2>5 DEF PrevInv
  <2> QED
    BY <2>1, <2>2, <2>3, <2>4, <2>5 DEF PrevInv
<1>2. ASSUME prev' = {}, pc' \notin {"get", "render", "done"} PROVE PrevInv'
  BY <1>2 DEF PrevInv
<1>3. ASSUME NEW q \in Params, BeginQuery(q) \/ BeginQueryFails(q) PROVE PrevInv'
  BY <1>2, <1>3 DEF BeginQuery, BeginQueryFails, readVars, ReadInv
<1>4. CASE OpenView
  BY <1>2, <1>4 DEF OpenView, ReadInv
<1>5. CASE RangeRead
  BY <1>2, <1>5 DEF RangeRead, ReadInv
<1>6. CASE RangeReadEnds
  BY <1>2, <1>6 DEF RangeReadEnds, readVars, ReadInv
<1>7. CASE GetPreviousKey
  <2>1. /\ prev' \subseteq Before(Visible)
        /\ \/ pc' = "render" /\ prev' = {} /\ Before(Visible) = {}
           \/ pc' = "get" /\ prev' # {} /\ \A r \in Before(Visible), p \in prev' : r.ts <= p.ts
    BY <1>7, PreviousKeyFacts
  <2>2. pc = "prev" /\ UNCHANGED <<name, range, snap, rows, watchRes>>
    BY <1>7 DEF GetPreviousKey, storeVars
  <2>3. /\ Before(snap)' = Before(snap) /\ Before(Visible)' = Before(Visible)
        /\ Before(Visible) \subseteq Before(snap) /\ Before(Visible) \subseteq rows
        /\ InRange(snap)' = InRange(snap)
    BY <2>2 DEF Before, Visible, InRange, InTimeRange
  <2>4. watchRes \subseteq InRange(snap)
    BY <2>2 DEF ReadInv
  <2> QED
    BY <2>1, <2>2, <2>3, <2>4 DEF PrevInv
<1>8. CASE Get
  <2>1. /\ pc = "get" /\ pc' = "render" /\ UNCHANGED <<name, range, snap, rows, prev>>
        /\ watchRes' = watchRes \cup (prev \cap Visible)
    BY <1>8 DEF Get, storeVars
  <2>2. /\ Before(snap)' = Before(snap) /\ Before(Visible)' = Before(Visible)
        /\ InRange(snap)' = InRange(snap)
    BY <2>1 DEF Before, Visible, InRange, InTimeRange
  <2>3. watchRes \subseteq InRange(snap)
    BY <2>1 DEF ReadInv
  <2>4. ASSUME NEW r \in Before(Visible) PROVE \E p \in prev \cap watchRes' : r.ts <= p.ts
    <3>1. PICK p \in prev : p \in rows /\ r.ts <= p.ts
      BY <2>1 DEF PrevInv
    <3>2. p \in Visible
      BY <3>1 DEF PrevInv, Before, Visible
    <3> QED
      BY <2>1, <3>1, <3>2
  <2>5. prev \subseteq Before(snap)
    BY DEF PrevInv
  <2> QED
    BY <2>1, <2>2, <2>3, <2>4, <2>5 DEF PrevInv
<1>9. CASE Render
  <2>1. /\ pc = "render" /\ pc' = "done" /\ UNCHANGED <<name, range, snap, rows, prev, watchRes>>
    BY <1>9 DEF Render, storeVars
  <2>2. /\ Before(snap)' = Before(snap) /\ Before(Visible)' = Before(Visible)
        /\ InRange(snap)' = InRange(snap)
    BY <2>1 DEF Before, Visible, InRange, InTimeRange
  <2> QED
    BY <2>1, <2>2 DEF PrevInv
<1>10. CASE ReadFails \/ Respond
  BY <1>2, <1>10 DEF ReadFails, Respond, ClearQuery
<1> QED
  BY <1>1, <1>3, <1>4, <1>5, <1>6, <1>7, <1>8, <1>9, <1>10, StepCases

LEMMA ReplyInvStep == IndInv /\ [Next]_vars => ReplyInv'
<1> SUFFICES ASSUME TypeOK, StoreInv, ReplyInv, [Next]_vars, pc' = "done" PROVE ReplyInv'
  BY DEF IndInv, ReplyInv
<1>1. CASE StoreStep
  BY <1>1, StoreStepFacts DEF readVars, ReplyInv
<1>2. CASE Render
  BY <1>2 DEF Render, ReplyInv
<1>3. ASSUME NEW q \in Params, BeginQuery(q) \/ BeginQueryFails(q) PROVE FALSE
  BY <1>3 DEF BeginQuery, BeginQueryFails
<1>4. CASE OpenView \/ RangeRead \/ RangeReadEnds \/ GetPreviousKey \/ Get \/ ReadFails \/ Respond
  BY <1>4 DEF OpenView, RangeRead, RangeReadEnds, GetPreviousKey, Get, ReadFails, Respond
<1> QED
  BY <1>1, <1>2, <1>3, <1>4, StepCases

LEMMA InitInv == Init => IndInv
<1> SUFFICES ASSUME Init PROVE IndInv
  OBVIOUS
<1>1. 0 \in Times /\ << >> \in Seq(Row)
  BY RowFacts DEF Times
<1>2. TypeOK
  BY <1>1, FS_EmptySet DEF Init, NoQuery, TypeOK
<1>3. StoreInv
  BY FS_EmptySet DEF Init, NoQuery, StoreInv
<1>4. ReadInv /\ PrevInv /\ ReplyInv
  BY DEF Init, NoQuery, ReadInv, PrevInv, ReplyInv
<1> QED
  BY <1>2, <1>3, <1>4 DEF IndInv

-----------------------------------------------------------------------------
(* The invariant of the payload query: what it has read, against what is    *)
(* still there, at every point of its way through the partitions.           *)
THEOREM PayloadQueryInvariant == Spec => []IndInv
<1>1. IndInv /\ [Next]_vars => IndInv'
  BY TypeStep, StoreInvStep, ReadInvStep, PrevInvStep, ReplyInvStep DEF IndInv
<1> QED
  BY <1>1, InitInv, PTL DEF Spec

(* The rows read are rows the transaction has seen, and there is at most    *)
(* one previous key.                                                        *)
THEOREM PayloadQueryTypes == Spec => []TypeOK
<1>1. IndInv => TypeOK
  BY DEF IndInv
<1> QED
  BY <1>1, PayloadQueryInvariant, PTL

(* At every moment of the range the answer shows the payload in force, for  *)
(* any number of rows, resources and partitions and whatever is dropped.    *)
THEOREM PayloadInForceIsShown == Spec => []ShowsPayloadInForce
<1>1. IndInv => ShowsPayloadInForce
  <2> SUFFICES ASSUME TypeOK, StoreInv, ReadInv, PrevInv, ReplyInv, pc = "done",
                      NEW t \in range.start .. range.end, NEW r \in InForceAt(t) \cap rows
               PROVE  ShownAt(t) = {r.payload}
    BY DEF IndInv, ShowsPayloadInForce
  <2>1. range.start \in Int /\ range.end \in Int /\ t \in Int /\ range.start <= t /\ t <= range.end
    BY DEF TypeOK
  <2>2. /\ r \in Visible /\ r \in snap /\ r.name = name /\ r.ts <= t
        /\ \A s \in snap : s.name = name /\ s.ts <= t => s.ts <= r.ts
    BY DEF InForceAt, Visible
  <2>3. \A s \in snap : s.ts \in Int
    BY RowFacts DEF TypeOK
  <2>4. OneHistory(watchRes)
    BY OneResource
  <2>5. \A s \in watchRes : s \in snap /\ s.name = name
    BY DEF PrevInv, InRange, Before
  <2>6. r \in watchRes
    <3>1. CASE r.ts >= range.start
      <4>1. r \in InRange(Visible)
        BY <2>1, <2>2, <2>3, <3>1 DEF InRange, InTimeRange
      <4> QED
        BY <4>1 DEF ReadInv
    <3>2. CASE r.ts < range.start
      <4>1. r \in Before(Visible)
        BY <2>2, <3>2 DEF Before
      <4>2. PICK p \in prev \cap watchRes : r.ts <= p.ts
        BY <4>1 DEF PrevInv
      <4>3. p \in snap /\ p.name = name /\ p.ts < range.start
        BY <4>2 DEF PrevInv, Before
      <4>4. p.ts <= r.ts
        BY <2>1, <2>2, <2>3, <4>3
      <4>5. p.ts = r.ts
        BY <2>2, <2>3, <4>2, <4>3, <4>4
      <4>6. p = r
        BY <2>2, <4>3, <4>5 DEF StoreInv
      <4> QED
        BY <4>2, <4>6
    <3> QED
      BY <2>1, <2>2, <2>3, <3>1, <3>2
  <2>7. reply = RemoveDupePayloads(watchRes)
    BY DEF ReplyInv
  <2>8. /\ Len(reply) \in Nat /\ DOMAIN reply = 1 .. Len(reply)
        /\ \A i \in 1 .. Len(reply) : reply[i] \in watchRes
    BY <2>4, <2>7, DedupFacts
  <2>9. PICK k \in 1 .. Len(reply) :
          /\ reply[k].ts <= r.ts /\ reply[k].payload = r.payload
          /\ \A j \in 1 .. Len(reply) : reply[j].ts <= r.ts => j <= k
    BY <2>4, <2>6, <2>7, DedupFacts
  <2>10. \A j \in 1 .. Len(reply) : reply[j].ts \in Int /\ (reply[j].ts <= t <=> reply[j].ts <= r.ts)
    BY <2>1, <2>2, <2>3, <2>5, <2>8
  <2>11. \A j \in DOMAIN reply :
           (/\ reply[j].ts <= t /\ \A i \in DOMAIN reply : reply[i].ts <= t => i <= j) <=> j = k
    BY <2>8, <2>9, <2>10
  <2> QED
    BY <2>8, <2>9, <2>11 DEF ShownAt
<1> QED
  BY <1>1, PayloadQueryInvariant, PTL

(* The answer is a history of the resource, in order, each entry a change,  *)
(* with at most one entry from before the range.                            *)
THEOREM AnswersAreHistories == Spec => []AnswerIsAHistory
<1>1. IndInv => AnswerIsAHistory
  <2> SUFFICES ASSUME TypeOK, StoreInv, ReadInv, PrevInv, ReplyInv, pc = "done"
               PROVE  AnswerIsAHistory
    BY DEF IndInv, AnswerIsAHistory
  <2>1. range.start \in Int /\ range.end \in Int /\ range.start <= range.end
    BY DEF TypeOK, ReadInv
  <2>2. reply = RemoveDupePayloads(watchRes) /\ OneHistory(watchRes)
    BY OneResource DEF ReplyInv
  <2>3. /\ Len(reply) \in Nat /\ DOMAIN reply = 1 .. Len(reply)
        /\ \A i \in 1 .. Len(reply) : reply[i] \in watchRes
        /\ \A i, j \in 1 .. Len(reply) : i < j => reply[i].ts < reply[j].ts
        /\ \A i \in 1 .. Len(reply) : i > 1 => reply[i].payload # reply[i - 1].payload
    BY <2>2, DedupFacts
  <2>4. ASSUME NEW s \in watchRes
        PROVE  /\ s.name = name /\ s.ts \in Int /\ s.ts <= range.end
               /\ s.ts < range.start => s \in prev
    <3>1. s \in InRange(snap) \/ (s \in prev /\ s \in Before(snap))
      BY DEF PrevInv
    <3>2. s.ts \in Int
      BY <3>1, RowFacts DEF TypeOK, InRange, Before
    <3>3. CASE s \in InRange(snap)
      BY <2>1, <3>2, <3>3 DEF InRange, InTimeRange
    <3>4. CASE s \in prev /\ s \in Before(snap)
      BY <2>1, <3>2, <3>4 DEF Before
    <3> QED
      BY <3>1, <3>3, <3>4
  <2>5. \A p, q \in prev : p = q
    <3>1. IsFiniteSet(prev) /\ Cardinality(prev) <= 1
      <4>1. prev \subseteq snap
        BY DEF PrevInv, Before
      <4> QED
        BY <4>1, FS_Subset DEF StoreInv, TypeOK
    <3>2. SUFFICES ASSUME NEW p \in prev, NEW q \in prev, p # q PROVE FALSE
      OBVIOUS
    <3>3. {p, q} \subseteq prev
      OBVIOUS
    <3>4. Cardinality({p, q}) = 2 /\ IsFiniteSet({p, q})
      <4>1. IsFiniteSet({p}) /\ Cardinality({p}) = 1
        BY FS_Singleton
      <4>2. /\ IsFiniteSet({p} \cup {q})
            /\ Cardinality({p} \cup {q}) = Cardinality({p}) + 1
        BY <3>2, <4>1, FS_AddElement
      <4>3. {p} \cup {q} = {p, q}
        OBVIOUS
      <4> QED
        BY <4>1, <4>2, <4>3
    <3>5. Cardinality({p, q}) <= Cardinality(prev) /\ Cardinality(prev) \in Nat
      BY <3>1, <3>3, FS_Subset, FS_CardinalityType
    <3> QED
      BY <3>1, <3>4, <3>5
  <2>6. ASSUME NEW i \in DOMAIN reply \ {1}
        PROVE  /\ reply[i].ts > reply[i - 1].ts /\ reply[i].ts >= range.start
               /\ reply[i].payload # reply[i - 1].payload
    <3>1. i \in 1 .. Len(reply) /\ i - 1 \in 1 .. Len(reply) /\ i > 1 /\ i - 1 < i
      BY <2>3
    <3>2. /\ reply[i - 1].ts < reply[i].ts /\ reply[i].ts \in Int /\ reply[i - 1].ts \in Int
          /\ reply[i].payload # reply[i - 1].payload
          /\ reply[i] \in watchRes /\ reply[i - 1] \in watchRes
      BY <2>3, <2>4, <3>1
    <3>3. ASSUME reply[i].ts < range.start PROVE FALSE
      <4>1. reply[i] \in prev /\ reply[i - 1] \in prev
        BY <2>1, <2>4, <3>2, <3>3
      <4>2. reply[i] = reply[i - 1]
        BY <2>5, <4>1
      <4> QED
        BY <3>2, <4>2
    <3> QED
      BY <2>1, <3>2, <3>3
  <2>7. \A i \in DOMAIN reply : reply[i].name = name /\ reply[i].ts <= range.end
    BY <2>3, <2>4
  <2> QED
    BY <2>6, <2>7 DEF AnswerIsAHistory
<1> QED
  BY <1>1, PayloadQueryInvariant, PTL

(* The range of every query is sane, for all limits, look-backs and stamps: *)
(* it ends in the past, has a length within the limits, keeps the length    *)
(* that was asked for, and without an end reaches the newest row.           *)
THEOREM RangesAreSane == Spec => RangeIsSane
<1> DEFINE A == pc' = "view" /\ pc # "view" =>
         /\ range'.end <= now
         /\ range'.end - range'.start \in MinLookback .. MaxLookBack
         /\ \A q \in Params :
              (/\ q.lookback = None /\ BeginQuery(q)
               /\ q.end - q.start \in MinLookback .. MaxLookBack)
                  => range'.end - range'.start = q.end - q.start
         /\ \A q \in Params :
              (BeginQuery(q) /\ q.lookback # None /\ q.end = None)
                  => \A r \in rows : r.ts <= range'.end
<1>1. ASSUME TypeOK, StoreInv, NEW q \in Params, BeginQuery(q)
      PROVE  /\ range'.end <= now
             /\ range'.end - range'.start \in MinLookback .. MaxLookBack
             /\ q.lookback = None /\ q.end - q.start \in MinLookback .. MaxLookBack
                  => range'.end - range'.start = q.end - q.start
             /\ q.lookback # None /\ q.end = None => \A r \in rows : r.ts <= range'.end
  <2> DEFINE c == ComputeTimeRange(q)
  <2>1. ValidParams(q) /\ range' = c
    BY <1>1 DEF BeginQuery
  <2> HIDE DEF c
  <2>2. /\ c.end <= now /\ c.end - c.start \in MinLookback .. MaxLookBack
        /\ q.lookback = None /\ q.end - q.start \in MinLookback .. MaxLookBack
             => c.end - c.start = q.end - q.start
        /\ q.lookback # None /\ q.end = None => \A r \in rows : r.ts <= c.end
    BY <1>1, <2>1, RangeFacts DEF c
  <2> QED
    BY <2>1, <2>2
<1>2. IndInv /\ [Next]_vars => [A]_vars
  <2> SUFFICES ASSUME TypeOK, StoreInv, [Next]_vars, pc' = "view", pc # "view" PROVE A
    BY DEF IndInv
  <2>1. \E q \in Params : BeginQuery(q)
    <3>1. CASE StoreStep
      BY <3>1, StoreStepFacts
    <3>2. ASSUME NEW q \in Params, BeginQueryFails(q) PROVE FALSE
      BY <3>2 DEF BeginQueryFails
    <3>3. CASE OpenView \/ RangeRead \/ RangeReadEnds \/ GetPreviousKey \/ Get \/ ReadFails
               \/ Render \/ Respond
      BY <3>3 DEF OpenView, RangeRead, RangeReadEnds, GetPreviousKey, Get, ReadFails,
                  Render, Respond
    <3> QED
      BY <3>1, <3>2, <3>3, StepCases
  <2> QED
    BY <1>1, <2>1
<1> QED
  BY <1>2, PayloadQueryInvariant, PTL DEF Spec, RangeIsSane
=============================================================================
