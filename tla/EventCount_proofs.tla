-------------------------- MODULE EventCount_proofs --------------------------
(***************************************************************************)
(* Proofs about EventCount: what redelivered copies of an Event add up to,  *)
(* and where the counts are stored.                                         *)
(***************************************************************************)
EXTENDS EventCount, NumberLemmas

(* A minute of the table: a multiple of MinuteLen not too late.             *)
LEMMA MinuteFacts ==
    ASSUME NEW k \in Nat, k <= MaxTime \div MinuteLen + 1
    PROVE  k * MinuteLen \in Minutes /\ k * MinuteLen \in Nat
  BY EventCountAssumption DEF Minutes

(* The minutes and the partitions are natural numbers.                      *)
LEMMA MinutesAreNaturals == Minutes \subseteq Nat /\ Parts \subseteq Nat
<1>1. MaxTime \div MinuteLen \in Nat
  BY EventCountAssumption, DivBounds
<1>2. Minutes \subseteq Nat
  BY <1>1, EventCountAssumption DEF Minutes
<1>3. \A m \in Nat : m \div PartLen \in Nat
  BY EventCountAssumption, DivBounds
<1> QED
  BY <1>2, <1>3 DEF Parts, PartOf

(* There are finitely many of them.                                         *)
LEMMA TablesAreFinite == IsFiniteSet(Minutes) /\ IsFiniteSet(Parts)
<1> DEFINE K == 0 .. (MaxTime \div MinuteLen + 1)
           F == [k \in K |-> k * MinuteLen]
           G == [m \in Minutes |-> PartOf(m)]
<1>1. IsFiniteSet(K)
  <2>1. MaxTime \div MinuteLen + 1 \in Int
    BY EventCountAssumption, DivBounds
  <2> HIDE DEF K
  <2> QED
    BY <2>1, FS_Interval DEF K
<1>2. F \in Surjection(K, Minutes)
  BY DEF Surjection, Minutes
<1>3. IsFiniteSet(Minutes)
  BY <1>1, <1>2, FS_Surjection
<1>4. G \in Surjection(Minutes, Parts)
  BY DEF Surjection, Parts
<1> QED
  BY <1>3, <1>4, FS_Surjection

(* A partition is a whole number of minutes: it has the minute in which     *)
(* each of its times falls.                                                 *)
LEMMA TimesHaveParts == \A t \in Times : PartOf(t) \in Parts
<1> SUFFICES ASSUME NEW t \in Times PROVE PartOf(t) \in Parts
  OBVIOUS
<1> DEFINE k == t \div MinuteLen
           m == k * MinuteLen
           q == t \div PartLen
           j == PartLen \div MinuteLen
<1>1. t \in Nat /\ t <= MaxTime
  BY EventCountAssumption DEF Times
<1>2. k \in Nat /\ MinuteLen * k <= t /\ t < MinuteLen * k + MinuteLen
  BY <1>1, EventCountAssumption, DivBounds
<1>3. q \in Nat /\ PartLen * q <= t /\ t < PartLen * q + PartLen
  BY <1>1, EventCountAssumption, DivBounds
<1>4. j \in Nat /\ PartLen = j * MinuteLen
  BY EventCountAssumption, Multiple
<1>5. k <= MaxTime \div MinuteLen
  BY <1>1, <1>2, EventCountAssumption, DivOrder
<1> HIDE DEF k, q, j
<1>6. m \in Minutes /\ m \in Nat
  <2>1. MaxTime \div MinuteLen \in Nat
    BY EventCountAssumption, DivBounds
  <2> QED
    BY <1>2, <1>5, <2>1, MinuteFacts
<1>7. PartLen * q <= m
  <2>1. PartLen * q = (j * q) * MinuteLen /\ j * q \in Nat
    BY <1>3, <1>4, EventCountAssumption
  <2>2. j * q <= t \div MinuteLen
    BY <1>1, <1>3, <2>1, EventCountAssumption, DivOrder
  <2>3. (j * q) * MinuteLen <= k * MinuteLen
    BY <1>2, <2>1, <2>2, EventCountAssumption DEF k
  <2> QED
    BY <2>1, <2>3
<1>8. m <= t
  BY <1>2, EventCountAssumption
<1>9. m \div PartLen = q
  <2>1. PartLen * q \in Nat
    BY <1>3, EventCountAssumption
  <2>2. m < PartLen * q + PartLen
    BY <1>1, <1>3, <1>6, <1>8, <2>1, EventCountAssumption
  <2> HIDE DEF m
  <2> QED
    BY <1>3, <1>6, <1>7, <2>2, EventCountAssumption, DivUnique
<1> QED
  BY <1>6, <1>9 DEF Parts, PartOf, q

-----------------------------------------------------------------------------
(* A span of time with a count.                                             *)
Span == {d \in [first : Nat, last : Nat, count : Nat] : d.first <= d.last}

(* computeEventsDiff: what is new in a copy is a span of time within it or  *)
(* since the previous copy, with at most its count.                         *)
LEMMA DiffFacts ==
    ASSUME NEW prev \in EventInfo, NEW new \in EventInfo,
           prev.first <= prev.last, new.first <= new.last
    PROVE  LET d == ComputeEventsDiff(prev, new) IN
           d \in Span /\ d.last <= MaxTime /\ d.count <= new.count
<1>1. /\ prev.first \in Nat /\ prev.last \in Nat /\ prev.count \in Nat
      /\ prev.last <= MaxTime
  BY EventCountAssumption DEF EventInfo, NoEvent, Times
<1>2. /\ new.first \in Nat /\ new.last \in Nat /\ new.count \in Nat
      /\ new.last <= MaxTime /\ new \in Span
  BY EventCountAssumption DEF EventInfo, NoEvent, Times, Span
<1>3. NoEvent \in Span /\ NoEvent.last = 0 /\ NoEvent.count = 0
  BY DEF NoEvent, Span
<1> DEFINE since(n) == [first |-> prev.last, last |-> new.last, count |-> n]
<1>4. ASSUME NEW n \in Nat, n <= new.count, prev.last < new.last
      PROVE  since(n) \in Span /\ since(n).last <= MaxTime /\ since(n).count <= new.count
  BY <1>1, <1>2, <1>4 DEF Span
<1>5. CASE prev = NoEvent \/ prev.last < new.first
  BY <1>2, <1>5 DEF ComputeEventsDiff
<1>6. CASE ~(prev = NoEvent \/ prev.last < new.first) /\ prev.last >= new.last
  BY <1>2, <1>3, <1>6, EventCountAssumption DEF ComputeEventsDiff
<1>7. CASE /\ ~(prev = NoEvent \/ prev.last < new.first) /\ ~(prev.last >= new.last)
           /\ prev.first = new.first
  <2>1. ComputeEventsDiff(prev, new) =
          IF new.count < prev.count THEN NoEvent ELSE since(new.count - prev.count)
    BY <1>7 DEF ComputeEventsDiff
  <2>2. ~(new.count < prev.count) => new.count - prev.count \in Nat
                                     /\ new.count - prev.count <= new.count
    BY <1>1, <1>2
  <2>3. prev.last < new.last
    BY <1>1, <1>2, <1>7
  <2> HIDE DEF since
  <2> QED
    BY <1>2, <1>3, <1>4, <2>1, <2>2, <2>3, EventCountAssumption
<1>8. CASE /\ ~(prev = NoEvent \/ prev.last < new.first) /\ ~(prev.last >= new.last)
           /\ prev.first # new.first
  <2> DEFINE n == Max({0, new.count - (prev.count * (prev.last - new.first))
                                         \div (prev.last - prev.first)})
  <2>1. ComputeEventsDiff(prev, new) = IF prev.last <= prev.first THEN NoEvent ELSE since(n)
    BY <1>8 DEF ComputeEventsDiff
  <2>2. ASSUME ~(prev.last <= prev.first) PROVE n \in Nat /\ n <= new.count
    <3> DEFINE a == prev.count * (prev.last - new.first)
               b == prev.last - prev.first
               x == new.count - a \div b
    <3>1. a \in Nat /\ b \in Nat \ {0}
      <4>1. prev.last - new.first \in Nat
        BY <1>1, <1>2, <1>8
      <4>2. \A y, z \in Nat : y * z \in Nat
        OBVIOUS
      <4> QED
        BY <1>1, <2>2, <4>1, <4>2
    <3>2. a \div b \in Nat
      <4> HIDE DEF a, b
      <4> QED
        BY <3>1, DivBounds
    <3>3. x \in Int /\ x <= new.count
      <4> HIDE DEF a, b
      <4> QED
        BY <1>2, <3>2
    <3>4. n = Max({0, x})
      OBVIOUS
    <3> HIDE DEF x, n
    <3> QED
      BY <1>2, <3>3, <3>4, MaxOfTwo
  <2>3. prev.last < new.last
    BY <1>1, <1>2, <1>8
  <2> HIDE DEF since, n
  <2> QED
    BY <1>2, <1>3, <1>4, <2>1, <2>2, <2>3, EventCountAssumption
<1> QED
  BY <1>5, <1>6, <1>7, <1>8

(* adjustForAvailablePartitions: the counts never grow, and counts that are *)
(* left lie within the bounds.                                              *)
LEMMA AdjustFacts ==
    ASSUME NEW d \in Span, NEW minEnd \in Nat, NEW maxStart \in Nat, NEW maxEnd \in Nat,
           NEW begin, begin = IF minEnd = maxEnd THEN maxStart ELSE minEnd,
           begin < maxEnd
    PROVE  LET a == AdjustForAvailablePartitions(d, minEnd, maxStart, maxEnd) IN
           /\ a \in Span /\ a.count <= d.count
           /\ \/ begin <= a.first /\ a.last <= maxEnd /\ a.last <= d.last
              \/ a.count = 0 /\ a.first = begin /\ a.last = maxEnd
              \/ a.count = 0 /\ a.first = d.first /\ a.last = d.last
<1> DEFINE first == Max({d.first, begin})
           last  == Min({d.last, maxEnd})
           a     == AdjustForAvailablePartitions(d, minEnd, maxStart, maxEnd)
<1>1. d.first \in Nat /\ d.last \in Nat /\ d.count \in Nat /\ d.first <= d.last
  BY DEF Span
<1>2. begin \in Nat
  OBVIOUS
<1>3. CASE d.last < begin \/ d.first > maxEnd
  <2>1. a = [first |-> begin, last |-> maxEnd, count |-> 0]
    BY <1>3 DEF AdjustForAvailablePartitions
  <2> HIDE DEF a
  <2> QED
    BY <1>1, <1>2, <2>1 DEF Span, a
<1>4. CASE ~(d.last < begin \/ d.first > maxEnd) /\ d.first = d.last
  <2>1. a = [d EXCEPT !.count = 0]
    BY <1>4 DEF AdjustForAvailablePartitions
  <2>2. a \in Span /\ a.count = 0 /\ a.first = d.first /\ a.last = d.last
    BY <1>1, <2>1 DEF Span
  <2> QED
    BY <1>1, <2>2
<1>5. CASE ~(d.last < begin \/ d.first > maxEnd) /\ d.first # d.last
  <2>1. a = [first |-> first, last |-> last,
             count |-> (d.count * (last - first)) \div (d.last - d.first)]
    BY <1>5 DEF AdjustForAvailablePartitions
  <2>2. /\ first = IF d.first >= begin THEN d.first ELSE begin
        /\ last = IF d.last <= maxEnd THEN d.last ELSE maxEnd
    BY <1>1, <1>2, MaxOfTwo, MinOfTwo
  <2> HIDE DEF first, last, a
  <2>3. /\ first \in Nat /\ last \in Nat /\ first <= last
        /\ begin <= first /\ d.first <= first /\ last <= maxEnd /\ last <= d.last
    BY <1>1, <1>2, <1>5, <2>2
  <2>4. (d.count * (last - first)) \div (d.last - d.first) \in 0 .. d.count
    <3>1. /\ last - first \in Nat /\ d.last - d.first \in Nat \ {0}
          /\ last - first <= d.last - d.first
      BY <1>1, <1>5, <2>3
    <3> QED
      BY <1>1, <3>1, ShareIsPart
  <2> QED
    BY <1>1, <2>1, <2>3, <2>4 DEF Span, a
<1> QED
  BY <1>3, <1>4, <1>5

(* time.Round: a time rounds to the minute that is at most half a minute    *)
(* away.                                                                    *)
LEMMA RoundFacts ==
    ASSUME NEW t \in Nat
    PROVE  \E k \in Nat : /\ RoundToMinute(t) = k * MinuteLen
                          /\ 2 * (k * MinuteLen) <= 2 * t + MinuteLen
                          /\ 2 * t < 2 * (k * MinuteLen) + MinuteLen
<1> DEFINE a == 2 * t + MinuteLen
           d == 2 * MinuteLen
           k == a \div d
<1>1. a \in Nat /\ d \in Nat \ {0} /\ MinuteLen \in Nat
  BY EventCountAssumption
<1>2. k \in Nat /\ d * k <= a /\ a < d * k + d
  <2> HIDE DEF a, d
  <2> QED
    BY <1>1, DivBounds
<1>3. RoundToMinute(t) = k * MinuteLen
  BY DEF RoundToMinute
<1> HIDE DEF k
<1>4. k * MinuteLen \in Nat /\ d * k = 2 * (k * MinuteLen)
  BY <1>1, <1>2
<1>5. 2 * (k * MinuteLen) <= 2 * t + MinuteLen
  BY <1>1, <1>2, <1>4
<1>6. 2 * t + MinuteLen < 2 * (k * MinuteLen) + 2 * MinuteLen
  BY <1>1, <1>2, <1>4
<1>7. 2 * t < 2 * (k * MinuteLen) + MinuteLen
  BY <1>1, <1>4, <1>6
<1> QED
  BY <1>2, <1>3, <1>5, <1>7

(* A rounded time is a natural number.                                      *)
LEMMA RoundIsNatural ==
    ASSUME NEW t \in Nat PROVE RoundToMinute(t) \in Nat
<1>1. PICK k \in Nat : RoundToMinute(t) = k * MinuteLen
  BY RoundFacts
<1> QED
  BY <1>1, EventCountAssumption

(* Multiples of a minute in order have their factors in order.              *)
LEMMA FactorOrder ==
    ASSUME NEW j \in Nat, NEW k \in Nat
    PROVE  /\ j * MinuteLen < k * MinuteLen + MinuteLen => j <= k
           /\ j <= k => j * MinuteLen <= k * MinuteLen
<1> MinuteLen \in Nat /\ MinuteLen > 0
  BY EventCountAssumption
<1>1. ASSUME j > k PROVE j * MinuteLen >= k * MinuteLen + MinuteLen
  <2>1. j >= k + 1
    BY <1>1
  <2>2. (k + 1) * MinuteLen <= j * MinuteLen
    BY <2>1
  <2>3. (k + 1) * MinuteLen = k * MinuteLen + MinuteLen
    OBVIOUS
  <2>4. j * MinuteLen \in Nat /\ k * MinuteLen \in Nat
    OBVIOUS
  <2> QED
    BY <2>2, <2>3, <2>4
<1>2. ASSUME j <= k PROVE j * MinuteLen <= k * MinuteLen
  BY <1>2
<1>3. j * MinuteLen \in Nat /\ k * MinuteLen \in Nat
  OBVIOUS
<1> QED
  BY <1>1, <1>2, <1>3

(* Rounding keeps the order of two times, keeps a whole minute, and stays   *)
(* within the minutes of the table.                                         *)
LEMMA RoundOrder ==
    ASSUME NEW s \in Nat, NEW t \in Nat, s <= t
    PROVE  RoundToMinute(s) <= RoundToMinute(t)
<1> MinuteLen \in Nat /\ MinuteLen > 0
  BY EventCountAssumption
<1>1. PICK j \in Nat : /\ RoundToMinute(s) = j * MinuteLen
                       /\ 2 * (j * MinuteLen) <= 2 * s + MinuteLen
  BY RoundFacts
<1>2. PICK k \in Nat : /\ RoundToMinute(t) = k * MinuteLen
                       /\ 2 * t < 2 * (k * MinuteLen) + MinuteLen
  BY RoundFacts
<1>3. j * MinuteLen \in Nat /\ k * MinuteLen \in Nat
  OBVIOUS
<1>4. j * MinuteLen < k * MinuteLen + MinuteLen
  BY <1>1, <1>2, <1>3
<1> QED
  BY <1>1, <1>2, <1>4, FactorOrder

(* A whole minute rounds to itself.                                         *)
LEMMA RoundWhole ==
    ASSUME NEW k \in Nat PROVE RoundToMinute(k * MinuteLen) = k * MinuteLen
<1> MinuteLen \in Nat /\ MinuteLen > 0
  BY EventCountAssumption
<1>1. k * MinuteLen \in Nat
  OBVIOUS
<1>2. PICK j \in Nat : /\ RoundToMinute(k * MinuteLen) = j * MinuteLen
                       /\ 2 * (j * MinuteLen) <= 2 * (k * MinuteLen) + MinuteLen
                       /\ 2 * (k * MinuteLen) < 2 * (j * MinuteLen) + MinuteLen
  BY <1>1, RoundFacts
<1>3. j * MinuteLen \in Nat
  OBVIOUS
<1>4. j * MinuteLen < k * MinuteLen + MinuteLen /\ k * MinuteLen < j * MinuteLen + MinuteLen
  BY <1>1, <1>2, <1>3
<1>5. j <= k /\ k <= j
  BY <1>4, FactorOrder
<1> QED
  BY <1>2, <1>5

(* A time of the run rounds to a minute of the table.                       *)
LEMMA RoundInTable ==
    ASSUME NEW t \in Nat, t <= MaxTime PROVE RoundToMinute(t) \in Minutes
<1> MinuteLen \in Nat /\ MinuteLen > 0 /\ MaxTime \in Nat
  BY EventCountAssumption
<1> DEFINE q == MaxTime \div MinuteLen
<1>1. q \in Nat /\ MinuteLen * q <= MaxTime /\ MaxTime < MinuteLen * q + MinuteLen
  BY EventCountAssumption, DivBounds
<1>2. PICK k \in Nat : /\ RoundToMinute(t) = k * MinuteLen
                       /\ 2 * (k * MinuteLen) <= 2 * t + MinuteLen
  BY RoundFacts
<1> HIDE DEF q
<1>3. k * MinuteLen \in Nat /\ MinuteLen * q \in Nat
      /\ (q + 1) * MinuteLen = MinuteLen * q + MinuteLen /\ q + 1 \in Nat
  BY <1>1
<1>4. k * MinuteLen < (q + 1) * MinuteLen + MinuteLen
  BY <1>1, <1>2, <1>3
<1>5. k <= q + 1
  BY <1>3, <1>4, FactorOrder
<1> QED
  BY <1>2, <1>5, MinuteFacts DEF q

(* distributeValue: every bucket gets a natural number, and nothing is      *)
(* distributed of nothing.                                                  *)
LEMMA DistributeFacts ==
    ASSUME NEW v \in Nat, NEW n \in Nat \ {0}
    PROVE  /\ DOMAIN DistributeValue(v, n) = 0 .. n - 1
           /\ \A i \in 0 .. n - 1 : /\ DistributeValue(v, n)[i] \in Nat
                                    /\ v = 0 => DistributeValue(v, n)[i] = 0
<1>1. v \div n \in Nat /\ v % n \in Nat
  BY DivBounds
<1>2. v = 0 => v \div n = 0 /\ v % n = 0
  OBVIOUS
<1> QED
  BY <1>1, <1>2 DEF DistributeValue

(* distributeValue: the i-th bucket gets the i-th, (i + n)-th, ... of the   *)
(* values dealt out one by one.                                             *)
LEMMA DealtOut ==
    ASSUME NEW v \in Nat, NEW n \in Nat \ {0}, NEW i \in 0 .. n - 1, NEW q \in Nat
    PROVE  n * q + i < v <=> q < DistributeValue(v, n)[i]
<1> DEFINE Q == v \div n
           r == v % n
<1>1. Q \in Nat /\ r \in 0 .. n - 1 /\ v = n * Q + r
  OBVIOUS
<1>2. DistributeValue(v, n)[i] = Q + (IF r > i THEN 1 ELSE 0)
  BY DEF DistributeValue
<1> HIDE DEF Q, r
<1>3. i \in Nat /\ i < n /\ r \in Nat /\ r < n /\ n * q \in Nat /\ n * Q \in Nat
  BY <1>1
<1>4. CASE q < Q
  <2>1. n * (q + 1) <= n * Q
    BY <1>1, <1>4
  <2>2. n * (q + 1) = n * q + n
    OBVIOUS
  <2>3. n * q + i < v
    BY <1>1, <1>3, <2>1, <2>2
  <2> QED
    BY <1>1, <1>2, <1>4, <2>3
<1>5. CASE q = Q
  BY <1>1, <1>2, <1>3, <1>5
<1>6. CASE q > Q
  <2>1. n * (Q + 1) <= n * q
    BY <1>1, <1>6
  <2>2. n * (Q + 1) = n * Q + n
    BY <1>1
  <2>3. ~(n * q + i < v)
    BY <1>1, <1>3, <2>1, <2>2
  <2> QED
    BY <1>1, <1>2, <1>6, <2>3
<1> QED
  BY <1>1, <1>4, <1>5, <1>6

(* The minutes of a map from the minute `from` on have what n buckets got.  *)
InBuckets(S, from, n, v) ==
    LET V == DistributeValue(v, n)
    IN  /\ \A m \in DOMAIN S : \E i \in 0 .. n - 1 : m = from + i * MinuteLen
        /\ \A i \in 0 .. n - 1 :
             /\ from + i * MinuteLen \in DOMAIN S <=> V[i] > 0
             /\ V[i] > 0 => S[from + i * MinuteLen] = V[i]

(* spreadOutEvents over several minutes: the i-th minute gets the i-th      *)
(* bucket, unless that is empty.                                            *)
LEMMA SpreadBuckets ==
    ASSUME NEW d \in Span, NEW from, NEW to,
           from = RoundToMinute(d.first), to = RoundToMinute(d.last), from # to
    PROVE  \E n \in Nat \ {0} :
             to = from + n * MinuteLen /\ InBuckets(SpreadOutEvents(d), from, n, d.count)
<1> DEFINE w == (to - from) \div MinuteLen
           n == Max({1, w})
           V == DistributeValue(d.count, n)
           S == SpreadOutEvents(d)
<1> MinuteLen \in Nat /\ MinuteLen > 0
  BY EventCountAssumption
<1>1. d.first \in Nat /\ d.last \in Nat /\ d.count \in Nat /\ d.first <= d.last
  BY DEF Span
<1>2. PICK j \in Nat : from = j * MinuteLen
  BY <1>1, RoundFacts
<1>3. PICK k \in Nat : to = k * MinuteLen
  BY <1>1, RoundFacts
<1>4. from <= to /\ from \in Nat /\ to \in Nat
  <2>1. from \in Nat /\ to \in Nat
    BY <1>2, <1>3
  <2>2. from <= to
    BY <1>1, RoundOrder
  <2> QED
    BY <2>1, <2>2
<1>5. S = [m \in {from + i * MinuteLen : i \in {b \in DOMAIN V : V[b] > 0}}
             |-> V[(m - from) \div MinuteLen]]
  BY DEF SpreadOutEvents
<1>6. k - j \in Nat \ {0} /\ to - from = (k - j) * MinuteLen
  <2>1. (k - j) * MinuteLen = k * MinuteLen - j * MinuteLen
    OBVIOUS
  <2>2. j <= k
    BY <1>2, <1>3, <1>4, FactorOrder
  <2>3. j # k
    BY <1>2, <1>3
  <2> QED
    BY <1>2, <1>3, <2>1, <2>2, <2>3
<1>7. n = k - j
  <2>1. (k - j) * MinuteLen \in Nat /\ MinuteLen * (k - j) = (k - j) * MinuteLen
    BY <1>6
  <2>2. ((k - j) * MinuteLen) \div MinuteLen = k - j
    BY <1>6, <2>1, DivUnique, EventCountAssumption
  <2>3. w = k - j
    BY <1>6, <2>2
  <2> HIDE DEF w
  <2> QED
    BY <1>6, <2>3, MaxOfTwo
<1> HIDE DEF S, n
<1>8. to = from + n * MinuteLen
  <2>1. n * MinuteLen \in Nat
    BY <1>6, <1>7
  <2> QED
    BY <1>4, <1>6, <1>7, <2>1
<1>9. DOMAIN V = 0 .. n - 1 /\ \A i \in 0 .. n - 1 : V[i] \in Nat
  BY <1>1, <1>6, <1>7, DistributeFacts
<1> HIDE DEF V
<1>10. \A m \in DOMAIN S : \E i \in 0 .. n - 1 : m = from + i * MinuteLen
  BY <1>5, <1>9
<1>11. ASSUME NEW i \in 0 .. n - 1
       PROVE  /\ from + i * MinuteLen \in DOMAIN S <=> V[i] > 0
              /\ V[i] > 0 => S[from + i * MinuteLen] = V[i]
  <2> DEFINE m == from + i * MinuteLen
  <2>1. i \in Nat /\ i * MinuteLen \in Nat
    BY <1>6, <1>7
  <2>2. ASSUME NEW b \in Nat, m = from + b * MinuteLen PROVE b = i
    <3>1. b * MinuteLen \in Nat
      OBVIOUS
    <3>2. b * MinuteLen = i * MinuteLen
      BY <1>4, <2>1, <2>2, <3>1
    <3>3. b <= i /\ i <= b
      BY <2>1, <3>1, <3>2, FactorOrder
    <3> QED
      BY <2>1, <3>3
  <2>3. m \in DOMAIN S => V[i] > 0
    <3> SUFFICES ASSUME m \in DOMAIN S PROVE V[i] > 0
      OBVIOUS
    <3>1. PICK b \in 0 .. n - 1 : m = from + b * MinuteLen /\ V[b] > 0
      BY <1>5, <1>9
    <3>2. b \in Nat
      BY <1>6, <1>7
    <3> QED
      BY <2>2, <3>1, <3>2
  <2>4. (m - from) \div MinuteLen = i
    <3>1. m - from = i * MinuteLen
      BY <1>4, <2>1
    <3>2. MinuteLen * i = i * MinuteLen
      BY <2>1
    <3>3. (i * MinuteLen) \div MinuteLen = i
      BY <2>1, <3>2, DivUnique, EventCountAssumption
    <3> QED
      BY <3>1, <3>3
  <2>5. ASSUME V[i] > 0 PROVE m \in DOMAIN S /\ S[m] = V[i]
    <3>1. m \in {from + b * MinuteLen : b \in {c \in DOMAIN V : V[c] > 0}}
      BY <1>9, <2>5
    <3> HIDE DEF m
    <3> QED
      BY <1>5, <2>4, <3>1
  <2> QED
    BY <2>3, <2>5
<1>12. n \in Nat \ {0}
  BY <1>6, <1>7
<1>13. InBuckets(S, from, n, d.count)
  BY <1>10, <1>11 DEF InBuckets, V
<1> QED
  BY <1>8, <1>12, <1>13 DEF S

(* spreadOutEvents: whole minutes between the rounded ends, the last        *)
(* excluded unless both round to one minute; and nowhere, when nothing is   *)
(* left to spread over several minutes.                                     *)
LEMMA SpreadFacts ==
    ASSUME NEW d \in Span
    PROVE  LET S    == SpreadOutEvents(d)
               from == RoundToMinute(d.first)
               to   == RoundToMinute(d.last)
           IN  /\ \A m \in DOMAIN S :
                    /\ S[m] \in Nat /\ from <= m /\ m <= to
                    /\ \E k \in Nat : m = k * MinuteLen
                    /\ from # to => m < to
                    /\ d.count = 0 => from = to /\ S[m] = 0
<1> DEFINE S    == SpreadOutEvents(d)
           from == RoundToMinute(d.first)
           to   == RoundToMinute(d.last)
<1> MinuteLen \in Nat /\ MinuteLen > 0
  BY EventCountAssumption
<1>1. d.first \in Nat /\ d.last \in Nat /\ d.count \in Nat /\ d.first <= d.last
  BY DEF Span
<1>2. PICK j \in Nat : from = j * MinuteLen
  BY <1>1, RoundFacts
<1>3. from \in Nat
  BY <1>2
<1>4. CASE from = to
  <2>1. S = [m \in {from} |-> d.count]
    BY <1>4 DEF SpreadOutEvents
  <2> HIDE DEF S, from, to
  <2> QED
    BY <1>1, <1>2, <1>3, <1>4, <2>1 DEF S, from, to
<1>5. CASE from # to
  <2>1. PICK n \in Nat \ {0} : to = from + n * MinuteLen /\ InBuckets(S, from, n, d.count)
    <3>1. from = RoundToMinute(d.first) /\ to = RoundToMinute(d.last)
      OBVIOUS
    <3> HIDE DEF from, to
    <3> QED
      BY <1>5, <3>1, SpreadBuckets
  <2> DEFINE V == DistributeValue(d.count, n)
  <2>2. \A i \in 0 .. n - 1 : V[i] \in Nat /\ (d.count = 0 => V[i] = 0)
    BY <1>1, DistributeFacts
  <2> HIDE DEF S, from, to, V
  <2>3. ASSUME NEW m \in DOMAIN S
        PROVE  /\ S[m] \in Nat /\ from <= m /\ m < to
               /\ \E x \in Nat : m = x * MinuteLen
               /\ d.count # 0 /\ m \in Nat /\ to \in Nat
    <3>1. PICK i \in 0 .. n - 1 : m = from + i * MinuteLen
      BY <2>1 DEF InBuckets
    <3>2. V[i] > 0 /\ S[m] = V[i]
      BY <2>1, <3>1 DEF InBuckets, V
    <3>3. i \in Nat /\ i + 1 <= n /\ i * MinuteLen \in Nat /\ n * MinuteLen \in Nat
      OBVIOUS
    <3>4. m = (j + i) * MinuteLen /\ j + i \in Nat
      BY <1>2, <3>1, <3>3
    <3>5. (i + 1) * MinuteLen <= n * MinuteLen
      BY <3>3, FactorOrder
    <3>6. (i + 1) * MinuteLen = i * MinuteLen + MinuteLen
      BY <3>3
    <3>7. from <= m /\ m < to /\ m \in Nat /\ to \in Nat
      BY <1>3, <2>1, <3>1, <3>3, <3>5, <3>6
    <3> QED
      BY <2>2, <3>2, <3>4, <3>7
  <2> QED
    BY <1>5, <2>3 DEF S, from, to
<1> QED
  BY <1>4, <1>5

-----------------------------------------------------------------------------
(* Totals of maps from keys to counts.                                      *)

(* The units of a map are its keys, each as often as it is counted.         *)
LEMMA UnitFacts ==
    ASSUME NEW f
    PROVE  /\ \A u \in Units(f) : \E x, k : x \in DOMAIN f /\ k \in 1 .. f[x] /\ u = <<x, k>>
           /\ \A x \in DOMAIN f : \A k \in 1 .. f[x] : <<x, k>> \in Units(f)
           /\ \A x, k : <<x, k>> \in Units(f) => x \in DOMAIN f /\ k \in 1 .. f[x]
<1>1. ASSUME NEW u \in Units(f) PROVE \E x, k : x \in DOMAIN f /\ k \in 1 .. f[x] /\ u = <<x, k>>
  <2>1. PICK x \in DOMAIN f : u \in {x} \X (1 .. f[x])
    BY DEF Units
  <2> QED
    BY <2>1
<1>2. ASSUME NEW x \in DOMAIN f, NEW k \in 1 .. f[x] PROVE <<x, k>> \in Units(f)
  BY DEF Units
<1>3. ASSUME NEW x, NEW k, <<x, k>> \in Units(f) PROVE x \in DOMAIN f /\ k \in 1 .. f[x]
  <2>1. PICK y, l : y \in DOMAIN f /\ l \in 1 .. f[y] /\ <<x, k>> = <<y, l>>
    BY <1>1, <1>3
  <2> QED
    BY <2>1
<1> QED
  BY <1>1, <1>2, <1>3

(* A map with finitely many keys has a total.                               *)
LEMMA TotalIsNatural ==
    ASSUME NEW f, IsFiniteSet(DOMAIN f), \A x \in DOMAIN f : f[x] \in Nat
    PROVE  IsFiniteSet(Units(f)) /\ Total(f) \in Nat
<1> DEFINE G == [x \in DOMAIN f |-> {x} \X (1 .. f[x])]
           R == {{x} \X (1 .. f[x]) : x \in DOMAIN f}
<1>1. G \in Surjection(DOMAIN f, R)
  BY DEF Surjection
<1>2. IsFiniteSet(R)
  BY <1>1, FS_Surjection
<1>3. ASSUME NEW T \in R PROVE IsFiniteSet(T)
  <2>1. PICK x \in DOMAIN f : T = {x} \X (1 .. f[x])
    OBVIOUS
  <2>2. IsFiniteSet({x})
    BY FS_Singleton
  <2>3. IsFiniteSet(1 .. f[x])
    BY FS_Interval
  <2> QED
    BY <2>1, <2>2, <2>3, FS_Product
<1>4. Units(f) = UNION R
  BY DEF Units
<1> HIDE DEF R
<1>5. IsFiniteSet(Units(f))
  BY <1>2, <1>3, <1>4, FS_UNION
<1> QED
  BY <1>5, FS_CardinalityType DEF Total

(* The total of a sum, key by key, is the sum of the totals.                *)
LEMMA TotalOfSum ==
    ASSUME NEW D, IsFiniteSet(D), NEW f \in [D -> Nat], NEW g \in [D -> Nat],
           NEW h \in [D -> Nat], \A x \in D : h[x] = f[x] + g[x]
    PROVE  Total(h) = Total(f) + Total(g)
<1> DEFINE T == Units(h) \ Units(f)
           G == [u \in Units(g) |-> <<u[1], f[u[1]] + u[2]>>]
<1>1. /\ IsFiniteSet(Units(f)) /\ IsFiniteSet(Units(g)) /\ IsFiniteSet(Units(h))
      /\ Total(f) \in Nat /\ Total(g) \in Nat /\ Total(h) \in Nat
  BY TotalIsNatural
<1>2. ASSUME NEW u \in Units(f) PROVE u \in Units(h)
  <2>1. PICK x, k : x \in D /\ k \in 1 .. f[x] /\ u = <<x, k>>
    BY UnitFacts
  <2>2. f[x] \in Nat /\ g[x] \in Nat /\ h[x] = f[x] + g[x]
    BY <2>1
  <2>3. k \in 1 .. h[x]
    BY <2>1, <2>2
  <2> QED
    BY <2>1, <2>3, UnitFacts
<1>3. ASSUME NEW u \in Units(g) PROVE G[u] \in T
  <2>1. PICK x, k : x \in D /\ k \in 1 .. g[x] /\ u = <<x, k>>
    BY UnitFacts
  <2>2. f[x] \in Nat /\ g[x] \in Nat /\ h[x] = f[x] + g[x]
    BY <2>1
  <2>3. G[u] = <<x, f[x] + k>>
    BY <2>1
  <2>4. f[x] + k \in 1 .. h[x] /\ f[x] + k \notin 1 .. f[x]
    BY <2>1, <2>2
  <2>5. <<x, f[x] + k>> \in Units(h)
    BY <2>1, <2>4, UnitFacts
  <2>6. <<x, f[x] + k>> \notin Units(f)
    BY <2>1, <2>4, UnitFacts
  <2> QED
    BY <2>3, <2>5, <2>6
<1>4. ASSUME NEW u \in Units(g), NEW v \in Units(g), G[u] = G[v] PROVE u = v
  <2>1. PICK x, k : x \in D /\ k \in 1 .. g[x] /\ u = <<x, k>>
    BY UnitFacts
  <2>2. PICK y, l : y \in D /\ l \in 1 .. g[y] /\ v = <<y, l>>
    BY UnitFacts
  <2>3. <<x, f[x] + k>> = <<y, f[y] + l>>
    BY <1>4, <2>1, <2>2
  <2>4. x = y /\ f[x] + k = f[x] + l
    BY <2>3
  <2>5. f[x] \in Nat /\ k \in Int /\ l \in Int
    BY <2>1, <2>2
  <2>6. k = l
    BY <2>4, <2>5
  <2> QED
    BY <2>1, <2>2, <2>4, <2>6
<1>5. ASSUME NEW t \in T PROVE \E u \in Units(g) : G[u] = t
  <2>1. PICK x, k : x \in D /\ k \in 1 .. h[x] /\ t = <<x, k>>
    BY UnitFacts
  <2>2. f[x] \in Nat /\ g[x] \in Nat /\ h[x] = f[x] + g[x]
    BY <2>1
  <2>3. k \notin 1 .. f[x]
    BY <2>1, UnitFacts
  <2>4. k - f[x] \in 1 .. g[x] /\ f[x] + (k - f[x]) = k
    BY <2>1, <2>2, <2>3
  <2>5. <<x, k - f[x]>> \in Units(g)
    BY <2>1, <2>4, UnitFacts
  <2> QED
    BY <2>1, <2>4, <2>5
<1>6. G \in [Units(g) -> T]
  BY <1>3
<1>7. IsFiniteSet(T) /\ Cardinality(T) = Cardinality(Units(g))
  <2> HIDE DEF G, T
  <2> QED
    BY <1>1, <1>4, <1>5, <1>6, SameSize
<1>8. Units(h) = Units(f) \cup T /\ Units(f) \cap T = {}
  BY <1>2
<1> HIDE DEF T
<1>9. Cardinality(Units(f) \cup T) = Cardinality(Units(f)) + Cardinality(T) - 0
  BY <1>1, <1>7, <1>8, FS_Union, FS_EmptySet
<1> QED
  BY <1>1, <1>7, <1>8, <1>9 DEF Total

(* Keys that are not counted add nothing.                                   *)
LEMMA TotalOfExtension ==
    ASSUME NEW D, NEW f, DOMAIN f \subseteq D,
           NEW g, g = [x \in D |-> IF x \in DOMAIN f THEN f[x] ELSE 0]
    PROVE  Total(g) = Total(f)
<1>1. ASSUME NEW u \in Units(f) PROVE u \in Units(g)
  <2>1. PICK x, k : x \in DOMAIN f /\ k \in 1 .. f[x] /\ u = <<x, k>>
    BY UnitFacts
  <2>2. x \in DOMAIN g /\ k \in 1 .. g[x]
    BY <2>1
  <2> QED
    BY <2>1, <2>2, UnitFacts
<1>2. ASSUME NEW u \in Units(g) PROVE u \in Units(f)
  <2>1. PICK x, k : x \in DOMAIN g /\ k \in 1 .. g[x] /\ u = <<x, k>>
    BY UnitFacts
  <2>2. x \in DOMAIN f /\ k \in 1 .. f[x]
    BY <2>1
  <2> QED
    BY <2>1, <2>2, UnitFacts
<1>3. Units(g) = Units(f)
  BY <1>1, <1>2
<1> QED
  BY <1>3 DEF Total

(* The total of one key.                                                    *)
LEMMA TotalOfOne ==
    ASSUME NEW x, NEW n \in Nat, NEW f, f = [y \in {x} |-> n]
    PROVE  Total(f) = n
<1>1. Units(f) = {x} \X (1 .. n)
  <2>1. ASSUME NEW u \in Units(f) PROVE u \in {x} \X (1 .. n)
    <3>1. PICK y, k : y \in DOMAIN f /\ k \in 1 .. f[y] /\ u = <<y, k>>
      BY UnitFacts
    <3> QED
      BY <3>1
  <2>2. ASSUME NEW u \in {x} \X (1 .. n) PROVE u \in Units(f)
    <3>1. PICK k \in 1 .. n : u = <<x, k>>
      OBVIOUS
    <3>2. x \in DOMAIN f /\ k \in 1 .. f[x]
      OBVIOUS
    <3> QED
      BY <3>1, <3>2, UnitFacts
  <2> QED
    BY <2>1, <2>2
<1>2. IsFiniteSet({x}) /\ Cardinality({x}) = 1
  BY FS_Singleton
<1>3. IsFiniteSet(1 .. n) /\ Cardinality(1 .. n) = n
  BY FS_Interval
<1>4. Cardinality({x} \X (1 .. n)) = 1 * n
  BY <1>2, <1>3, FS_Product
<1>5. 1 * n = n
  OBVIOUS
<1>6. Total(f) = Cardinality(Units(f))
  BY DEF Total
<1> QED
  BY ONLY <1>1, <1>4, <1>5, <1>6

(* spreadOutEvents loses and invents nothing.                               *)
LEMMA TotalOfSpread ==
    ASSUME NEW d \in Span
    PROVE  Total(SpreadOutEvents(d)) = d.count
<1> DEFINE from == RoundToMinute(d.first)
           to   == RoundToMinute(d.last)
           S    == SpreadOutEvents(d)
<1>1. d.count \in Nat
  BY DEF Span
<1>2. CASE from = to
  <2>1. S = [m \in {from} |-> d.count]
    BY <1>2 DEF SpreadOutEvents
  <2> HIDE DEF S, from
  <2>2. Total(S) = d.count
    BY <1>1, <2>1, TotalOfOne
  <2> QED
    BY <2>2 DEF S
<1>3. CASE from # to
  <2> MinuteLen \in Nat /\ MinuteLen > 0
    BY EventCountAssumption
  <2>1. PICK n \in Nat \ {0} : InBuckets(S, from, n, d.count)
    <3>1. from = RoundToMinute(d.first) /\ to = RoundToMinute(d.last)
      OBVIOUS
    <3> HIDE DEF from, to
    <3> QED
      BY <1>3, <3>1, SpreadBuckets
  <2>2. from \in Nat
    <3>1. d.first \in Nat
      BY DEF Span
    <3>2. PICK k \in Nat : from = k * MinuteLen
      BY <3>1, RoundFacts
    <3> QED
      BY <3>2
  <2> DEFINE v == d.count
             V == DistributeValue(v, n)
             G == [x \in 0 .. v - 1 |-> <<from + (x % n) * MinuteLen, x \div n + 1>>]
  <2>3. \A i \in 0 .. n - 1 : V[i] \in Nat
    BY <1>1, DistributeFacts
  <2> HIDE DEF from, to, S, V
  <2>5. ASSUME NEW x \in 0 .. v - 1 PROVE G[x] \in Units(S)
    <3> DEFINE i == x % n
               q == x \div n
    <3>1. x \in Nat /\ x < v
      BY <1>1
    <3>2. i \in 0 .. n - 1 /\ q \in Nat /\ x = n * q + i
      BY <3>1, DivMod
    <3>3. G[x] = <<from + i * MinuteLen, q + 1>>
      OBVIOUS
    <3> HIDE DEF i, q, G
    <3>4. q < V[i]
      BY <1>1, <3>1, <3>2, DealtOut DEF V
    <3>5. V[i] \in Nat /\ V[i] > 0
      BY <2>3, <3>2, <3>4
    <3>6. from + i * MinuteLen \in DOMAIN S /\ S[from + i * MinuteLen] = V[i]
      BY <2>1, <3>2, <3>5 DEF V, InBuckets
    <3>7. q + 1 \in 1 .. V[i]
      BY <3>2, <3>4, <3>5
    <3> QED
      BY <3>3, <3>6, <3>7, UnitFacts
  <2>6. ASSUME NEW x \in 0 .. v - 1, NEW y \in 0 .. v - 1, G[x] = G[y] PROVE x = y
    <3> DEFINE i == x % n
               q == x \div n
               j == y % n
               r == y \div n
    <3>1. x \in Nat /\ y \in Nat
      BY <1>1
    <3>2. i \in 0 .. n - 1 /\ q \in Nat /\ x = n * q + i
      BY <3>1, DivMod
    <3>3. j \in 0 .. n - 1 /\ r \in Nat /\ y = n * r + j
      BY <3>1, DivMod
    <3>4. <<from + i * MinuteLen, q + 1>> = <<from + j * MinuteLen, r + 1>>
      BY <2>6
    <3> HIDE DEF i, q, j, r, G
    <3>5. from + i * MinuteLen = from + j * MinuteLen /\ q + 1 = r + 1
      BY <3>4
    <3>6. i \in Nat /\ j \in Nat /\ i * MinuteLen \in Nat /\ j * MinuteLen \in Nat
      BY <3>2, <3>3
    <3>7. i * MinuteLen = j * MinuteLen /\ q = r
      BY <2>2, <3>2, <3>3, <3>5, <3>6
    <3>8. i <= j /\ j <= i
      BY <3>6, <3>7, FactorOrder
    <3> QED
      BY <3>2, <3>3, <3>6, <3>7, <3>8
  <2>7. ASSUME NEW u \in Units(S) PROVE \E x \in 0 .. v - 1 : G[x] = u
    <3>1. PICK m, k : m \in DOMAIN S /\ k \in 1 .. S[m] /\ u = <<m, k>>
      BY UnitFacts
    <3>2. PICK i \in 0 .. n - 1 : m = from + i * MinuteLen
      BY <2>1, <3>1 DEF InBuckets
    <3>3. S[m] = V[i] /\ V[i] \in Nat
      BY <2>1, <2>3, <3>1, <3>2 DEF V, InBuckets
    <3> DEFINE q == k - 1
               x == n * q + i
    <3>4. q \in Nat /\ q < V[i] /\ k = q + 1
      BY <3>1, <3>3
    <3> HIDE DEF q
    <3>5. x < v
      BY <1>1, <3>4, DealtOut DEF V
    <3>6. n * q \in Nat /\ i \in Nat
      BY <3>4
    <3>7. x \in Nat /\ x \in 0 .. v - 1
      BY <1>1, <3>5, <3>6
    <3>8. x \div n = q
      <4>1. n * q <= x /\ x < n * q + n
        BY <3>6
      <4> HIDE DEF x
      <4> QED
        BY <3>4, <3>7, <4>1, DivUnique
    <3>9. x % n = i
      <4> DEFINE e == x % n
      <4>1. x = n * q + i
        OBVIOUS
      <4> HIDE DEF x
      <4>2. x = n * q + e /\ e \in 0 .. n - 1
        BY <3>7, <3>8, DivMod
      <4> HIDE DEF e
      <4>3. e = i
        BY <3>6, <4>1, <4>2
      <4> QED
        BY <4>3 DEF e
    <3> HIDE DEF x
    <3>10. G[x] = <<from + i * MinuteLen, q + 1>>
      BY <3>7, <3>8, <3>9
    <3> QED
      BY <3>1, <3>2, <3>4, <3>7, <3>10
  <2> DEFINE I == 0 .. v - 1
  <2>8. IsFiniteSet(I) /\ Cardinality(I) = v
    <3>1. v - 1 \in Int /\ (0 > v - 1 => v = 0) /\ (v - 1) - 0 + 1 = v
      BY <1>1
    <3>2. IsFiniteSet(I) /\ Cardinality(I) = IF 0 > v - 1 THEN 0 ELSE (v - 1) - 0 + 1
      <4> DEFINE e == v - 1
      <4>1. e \in Int /\ 0 \in Int
        BY <3>1
      <4> HIDE DEF e
      <4>2. IsFiniteSet(0 .. e) /\ Cardinality(0 .. e) = IF 0 > e THEN 0 ELSE e - 0 + 1
        BY ONLY <4>1, FS_Interval
      <4> QED
        BY <4>2 DEF e
    <3> QED
      BY <3>1, <3>2
  <2>9. G \in [I -> Units(S)]
    BY <2>5
  <2>10. /\ \A x, y \in I : G[x] = G[y] => x = y
         /\ \A u \in Units(S) : \E x \in I : G[x] = u
    BY <2>6, <2>7
  <2> HIDE DEF G, I, v
  <2>11. Cardinality(Units(S)) = v
    BY <2>8, <2>9, <2>10, SameSize
  <2> QED
    BY <2>11 DEF Total, S, v
<1> QED
  BY <1>2, <1>3

-----------------------------------------------------------------------------
(* The partitions of the store, and the bounds adjustForAvailablePartitions *)
(* is given: whole minutes, in order.                                       *)
LEMMA PartitionFacts ==
    ASSUME TypeOK, Partitions # {},
           NEW STATE min, min = Min(Partitions), NEW STATE max, max = Max(Partitions),
           NEW STATE begin, begin = IF EndOf(min) = EndOf(max) THEN StartOf(max) ELSE EndOf(min)
    PROVE  /\ min \in Partitions /\ max \in Partitions /\ min \in Nat /\ max \in Nat
           /\ \A p \in Partitions : min <= p /\ p <= max
           /\ EndOf(min) \in Nat /\ StartOf(max) \in Nat /\ EndOf(max) \in Nat
           /\ begin \in Nat /\ begin < EndOf(max)
           /\ \E k \in Nat : begin = k * MinuteLen
           /\ \E k \in Nat : EndOf(max) = k * MinuteLen
           /\ min # max => begin = EndOf(min)
           /\ min = max => begin = StartOf(min)
<1> DEFINE last == MaxTime \div MinuteLen + 1
<1> MinuteLen \in Nat /\ MinuteLen > 0 /\ PartLen \in Nat /\ PartLen > 0 /\ MaxTime \in Nat
  BY EventCountAssumption
<1>1. last \in Nat
  BY EventCountAssumption, DivBounds
<1>2. \A p \in Parts : p \in Nat /\ p <= last * MinuteLen
  <2> SUFFICES ASSUME NEW p \in Parts PROVE p \in Nat /\ p <= last * MinuteLen
    OBVIOUS
  <2>1. PICK k \in 0 .. last : p = (k * MinuteLen) \div PartLen
    BY DEF Parts, Minutes, PartOf
  <2> HIDE DEF last
  <2>2. k * MinuteLen \in Nat /\ last * MinuteLen \in Nat
    BY <1>1
  <2>3. k * MinuteLen <= last * MinuteLen
    BY <1>1
  <2>4. p \in Nat /\ PartLen * p <= k * MinuteLen
    BY <2>1, <2>2, EventCountAssumption, DivBounds
  <2>5. p <= PartLen * p
    BY <2>4
  <2> QED
    BY <2>2, <2>3, <2>4, <2>5
<1>3. Partitions \subseteq Parts
  BY DEF Partitions, TypeOK
<1>4. last * MinuteLen \in Nat
  BY <1>1
<1> HIDE DEF last
<1>5. min \in Partitions /\ \A p \in Partitions : min <= p
  BY <1>2, <1>3, MinOfNaturals
<1>6. max \in Partitions /\ \A p \in Partitions : p <= max
  BY <1>2, <1>3, <1>4, MaxOfNaturals
<1>7. min \in Nat /\ max \in Nat /\ min <= max
  BY <1>2, <1>3, <1>5, <1>6
<1>8. PICK j \in Nat : PartLen = j * MinuteLen
  BY EventCountAssumption, Multiple
<1>9. \A p \in Nat : /\ StartOf(p) \in Nat /\ StartOf(p) = (p * j) * MinuteLen /\ p * j \in Nat
                     /\ EndOf(p) \in Nat /\ EndOf(p) = ((p + 1) * j) * MinuteLen
                     /\ (p + 1) * j \in Nat /\ EndOf(p) = StartOf(p) + PartLen
  <2> SUFFICES ASSUME NEW p \in Nat
               PROVE /\ StartOf(p) \in Nat /\ StartOf(p) = (p * j) * MinuteLen /\ p * j \in Nat
                     /\ EndOf(p) \in Nat /\ EndOf(p) = ((p + 1) * j) * MinuteLen
                     /\ (p + 1) * j \in Nat /\ EndOf(p) = StartOf(p) + PartLen
    OBVIOUS
  <2>1. StartOf(p) = p * PartLen /\ EndOf(p) = (p + 1) * PartLen
    BY DEF StartOf, EndOf
  <2>2. p * PartLen = (p * j) * MinuteLen /\ (p + 1) * PartLen = ((p + 1) * j) * MinuteLen
    BY <1>8
  <2>3. (p + 1) * PartLen = p * PartLen + PartLen
    OBVIOUS
  <2>4. p * PartLen \in Nat /\ (p + 1) * PartLen \in Nat /\ p * j \in Nat /\ (p + 1) * j \in Nat
    OBVIOUS
  <2> QED
    BY <2>1, <2>2, <2>3, <2>4
<1>10. min < max => EndOf(min) <= StartOf(max)
  <2> SUFFICES ASSUME min < max PROVE EndOf(min) <= StartOf(max)
    OBVIOUS
  <2>1. min + 1 <= max
    BY <1>7
  <2>2. (min + 1) * PartLen <= max * PartLen
    BY <1>7, <2>1
  <2> QED
    BY <2>2 DEF EndOf, StartOf
<1>11. StartOf(max) \in Nat /\ EndOf(max) \in Nat /\ EndOf(min) \in Nat
       /\ StartOf(max) < EndOf(max)
  <2>1. StartOf(max) \in Nat /\ EndOf(max) = StartOf(max) + PartLen
    BY <1>7, <1>9
  <2>2. EndOf(max) \in Nat /\ EndOf(min) \in Nat
    BY <1>7, <1>9
  <2> QED
    BY <2>1, <2>2
<1>12. min # max => EndOf(min) # EndOf(max) /\ EndOf(min) < EndOf(max)
  <2>1. min # max => min < max
    BY <1>7
  <2> QED
    BY <1>10, <1>11, <2>1
<1>13. CASE min # max
  BY <1>5, <1>6, <1>7, <1>9, <1>11, <1>12, <1>13
<1>14. CASE min = max
  BY <1>5, <1>6, <1>7, <1>9, <1>11, <1>14
<1> QED
  BY <1>13, <1>14

(* What a record stores: no more than what is new in its copy, in minutes   *)
(* of the table, and never in the oldest of several partitions or before.   *)
LEMMA StoredFacts ==
    ASSUME TypeOK, CopyInv, Partitions # {}
    PROVE  /\ NewCounts \in Span /\ NewCounts.count \in Nat
           /\ NewCounts.count <= ComputeEventsDiff(PreviousEventInfo, rec.info).count
           /\ \A m \in DOMAIN SpreadOutEvents(NewCounts) :
                /\ m \in Minutes
                /\ SpreadOutEvents(NewCounts)[m] \in Nat
                /\ SpreadOutEvents(NewCounts)[m] > 0
                     => PartOf(m) > Min(Partitions) \/ Partitions = {PartOf(m)}
<1> DEFINE d   == ComputeEventsDiff(PreviousEventInfo, rec.info)
           min == Min(Partitions)
           max == Max(Partitions)
           begin == IF EndOf(min) = EndOf(max) THEN StartOf(max) ELSE EndOf(min)
           a == NewCounts
           S == SpreadOutEvents(a)
<1> MinuteLen \in Nat /\ MinuteLen > 0 /\ PartLen \in Nat /\ PartLen > 0 /\ MaxTime \in Nat
  BY EventCountAssumption
<1>1. d \in Span /\ d.last <= MaxTime
  <2>1. PartOf(rec.ts) \in Parts
    BY TimesHaveParts DEF TypeOK
  <2>2. PreviousEventInfo \in EventInfo /\ rec.info \in EventInfo
    BY <2>1 DEF TypeOK, PreviousEventInfo
  <2>3. PreviousEventInfo.first <= PreviousEventInfo.last /\ rec.info.first <= rec.info.last
    BY <2>1 DEF CopyInv, PreviousEventInfo
  <2> QED
    BY <2>2, <2>3, DiffFacts
<1>2. a = AdjustForAvailablePartitions(d, EndOf(min), StartOf(max), EndOf(max))
  BY DEF NewCounts
<1>3. /\ min \in Partitions /\ max \in Partitions /\ min \in Nat /\ max \in Nat
      /\ \A p \in Partitions : min <= p /\ p <= max
      /\ EndOf(min) \in Nat /\ StartOf(max) \in Nat /\ EndOf(max) \in Nat
      /\ begin \in Nat /\ begin < EndOf(max)
      /\ \E k \in Nat : begin = k * MinuteLen
      /\ \E k \in Nat : EndOf(max) = k * MinuteLen
      /\ min # max => begin = EndOf(min)
      /\ min = max => begin = StartOf(min)
  <2>1. begin = IF EndOf(min) = EndOf(max) THEN StartOf(max) ELSE EndOf(min)
    OBVIOUS
  <2>2. min = Min(Partitions) /\ max = Max(Partitions)
    OBVIOUS
  <2> HIDE DEF begin, min, max
  <2> QED
    BY <2>1, <2>2, PartitionFacts
<1> HIDE DEF d, a
<1>4. /\ a \in Span /\ a.count <= d.count
      /\ \/ begin <= a.first /\ a.last <= EndOf(max) /\ a.last <= d.last
         \/ a.count = 0 /\ a.first = begin /\ a.last = EndOf(max)
         \/ a.count = 0 /\ a.first = d.first /\ a.last = d.last
  <2> DEFINE x == EndOf(min)
             y == StartOf(max)
             z == EndOf(max)
  <2>1. begin = IF x = z THEN y ELSE x
    OBVIOUS
  <2>2. a = AdjustForAvailablePartitions(d, x, y, z)
    BY <1>2
  <2>3. x \in Nat /\ y \in Nat /\ z \in Nat /\ begin < z
    BY <1>3
  <2> HIDE DEF begin, min, max, x, y, z
  <2>4. /\ a \in Span /\ a.count <= d.count
        /\ \/ begin <= a.first /\ a.last <= z /\ a.last <= d.last
           \/ a.count = 0 /\ a.first = begin /\ a.last = z
           \/ a.count = 0 /\ a.first = d.first /\ a.last = d.last
    BY <1>1, <2>1, <2>2, <2>3, AdjustFacts, SMTT(30)
  <2> QED
    BY <2>4 DEF z
<1> HIDE DEF begin, min, max, S
<1>5. \A m \in DOMAIN S :
         /\ S[m] \in Nat /\ RoundToMinute(a.first) <= m /\ m <= RoundToMinute(a.last)
         /\ \E k \in Nat : m = k * MinuteLen
         /\ a.count = 0 => RoundToMinute(a.first) = RoundToMinute(a.last) /\ S[m] = 0
  BY <1>4, SpreadFacts DEF S
<1>6. a.first \in Nat /\ a.last \in Nat /\ a.count \in Nat /\ a.first <= a.last
      /\ d.last \in Nat
  BY <1>1, <1>4 DEF Span
<1>7. RoundToMinute(begin) = begin /\ RoundToMinute(EndOf(max)) = EndOf(max)
  BY <1>3, RoundWhole
<1>8. ASSUME NEW m \in DOMAIN S PROVE m \in Minutes
  <2>1. a.last <= d.last
    <3>1. ~(a.count = 0 /\ a.first = begin /\ a.last = EndOf(max))
      BY <1>3, <1>5, <1>7
    <3> QED
      BY <1>4, <1>6, <3>1
  <2>2. RoundToMinute(a.last) \in Minutes
    <3>1. a.last <= MaxTime
      BY <1>1, <1>6, <2>1
    <3> QED
      BY <1>6, <3>1, RoundInTable
  <2>3. PICK k \in Nat : m = k * MinuteLen
    BY <1>5
  <2>4. PICK l \in 0 .. (MaxTime \div MinuteLen + 1) : RoundToMinute(a.last) = l * MinuteLen
    BY <2>2 DEF Minutes
  <2>5. MaxTime \div MinuteLen \in Nat
    BY EventCountAssumption, DivBounds
  <2>6. k * MinuteLen <= l * MinuteLen
    BY <1>5, <2>3, <2>4
  <2>7. l \in Nat /\ k * MinuteLen \in Nat /\ l * MinuteLen \in Nat
    BY <2>5
  <2>8. k <= l
    BY <2>6, <2>7, FactorOrder
  <2>9. k <= MaxTime \div MinuteLen + 1
    BY <2>5, <2>7, <2>8
  <2> QED
    BY <2>3, <2>9, MinuteFacts
<1>9. ASSUME NEW m \in DOMAIN S, S[m] > 0
      PROVE  PartOf(m) > min \/ Partitions = {PartOf(m)}
  <2>1. a.count # 0
    BY <1>5, <1>9
  <2>2. begin <= a.first
    BY <1>4, <2>1
  <2>3. begin <= RoundToMinute(a.first)
    BY <1>3, <1>6, <1>7, <2>2, RoundOrder
  <2>4. m \in Nat
    BY <1>5
  <2>5. RoundToMinute(a.first) \in Nat
    <3>1. PICK k \in Nat : RoundToMinute(a.first) = k * MinuteLen
      BY <1>6, RoundFacts
    <3> QED
      BY <3>1
  <2>6. begin <= m
    BY <1>3, <1>5, <2>3, <2>4, <2>5
  <2>7. PartOf(m) \in Nat
    BY <2>4, EventCountAssumption, DivBounds DEF PartOf
  <2>8. CASE min # max
    <3>1. (min + 1) * PartLen <= m
      BY <1>3, <2>6, <2>8 DEF EndOf
    <3>2. min + 1 \in Nat /\ min \in Nat
      BY <1>3
    <3>3. min + 1 <= m \div PartLen
      BY <2>4, <3>1, <3>2, EventCountAssumption, DivOrder
    <3> QED
      BY <2>7, <3>2, <3>3 DEF PartOf
  <2>9. CASE min = max
    <3>1. min * PartLen <= m
      BY <1>3, <2>6, <2>9 DEF StartOf
    <3>2. min <= PartOf(m)
      BY <1>3, <2>4, <3>1, EventCountAssumption, DivOrder DEF PartOf
    <3>3. Partitions = {min}
      <4>1. \A p \in Partitions : p \in Nat
        BY MinutesAreNaturals DEF Partitions, TypeOK
      <4>2. \A p \in Partitions : p = min
        BY <1>3, <2>9, <4>1
      <4> QED
        BY <1>3, <4>2
    <3> QED
      BY <1>3, <2>7, <3>2, <3>3
  <2> QED
    BY <2>8, <2>9
<1> QED
  BY <1>4, <1>5, <1>6, <1>8, <1>9 DEF a, d, S, min

-----------------------------------------------------------------------------
(* Every copy of the Event has a first and a last time and a count.         *)
LEMMA InfoFacts ==
    ASSUME NEW c \in EventInfo
    PROVE  /\ c.first \in Nat /\ c.last \in Nat /\ c.count \in Nat
           /\ c.last <= MaxTime /\ c.count <= MaxCount
           /\ c # NoEvent => c.count > 0
           /\ c = NoEvent => c.count = 0 /\ c.first = 0 /\ c.last = 0
  BY EventCountAssumption DEF EventInfo, NoEvent, Times

(* Every step keeps the types.                                              *)
LEMMA TypeStep == TypeOK /\ CopyInv /\ [Next]_vars => TypeOK'
<1> SUFFICES ASSUME TypeOK, CopyInv, [Next]_vars PROVE TypeOK'
  OBVIOUS
<1> MaxTime \in Nat /\ MaxCount \in Nat /\ MaxCount > 0 /\ MaxRecords \in Nat
  BY EventCountAssumption
<1>1. CASE Tick
  BY <1>1 DEF Tick, TypeOK, Times, storeVars
<1>2. CASE Occur
  <2>1. event' \in EventInfo
    <3>1. event = NoEvent => event' \in EventInfo
      BY <1>2 DEF Occur, TypeOK, EventInfo
    <3>2. ASSUME event # NoEvent PROVE event' \in EventInfo
      <4>1. event \in [first : Times, last : Times, count : 1 .. MaxCount]
        BY <3>2 DEF TypeOK, EventInfo
      <4>2. event.count + 1 \in 1 .. MaxCount
        BY <1>2, <4>1 DEF Occur, TypeOK, CopyInv
      <4>3. event' = [event EXCEPT !.last = now, !.count = @ + 1]
        BY <1>2, <3>2 DEF Occur
      <4>4. now \in Times
        BY DEF TypeOK
      <4>5. event' \in [first : Times, last : Times, count : 1 .. MaxCount]
        BY <4>1, <4>2, <4>3, <4>4
      <4> QED
        BY <4>5 DEF EventInfo
    <3> QED
      BY <3>1, <3>2
  <2>2. occurred' \in 0 .. MaxCount
    BY <1>2 DEF Occur, TypeOK
  <2> QED
    BY <1>2, <2>1, <2>2 DEF Occur, TypeOK, storeVars
<1>3. CASE Expire
  BY <1>3 DEF Expire, TypeOK, storeVars, EventInfo
<1>4. CASE OtherRecord
  <2>1. PartOf(now) \in Parts
    BY TimesHaveParts DEF TypeOK
  <2> QED
    BY <1>4, <2>1 DEF OtherRecord, TypeOK, envVars
<1>5. CASE GcDropsWatch
  <2>1. Min(Partitions) \in Parts
    <3>1. Partitions \subseteq Parts
      BY DEF Partitions, TypeOK
    <3>2. Min(Partitions) \in Partitions
      BY <1>5, <3>1, MinutesAreNaturals, MinOfNaturals DEF GcDropsWatch
    <3> QED
      BY <3>1, <3>2
  <2>2. NoEvent \in EventInfo
    BY DEF EventInfo
  <2>3. watch' \in [Parts -> EventInfo]
    BY <1>5, <2>1, <2>2 DEF GcDropsWatch, TypeOK
  <2>4. others' \subseteq Parts /\ forgot' \subseteq Parts
    BY <1>5, <2>1 DEF GcDropsWatch, TypeOK
  <2> QED
    BY <1>5, <2>3, <2>4 DEF GcDropsWatch, TypeOK, envVars
<1>6. CASE GcDropsCounts
  <2>1. counts' \in [Minutes -> Nat] /\ counted' \subseteq Parts
    BY <1>6 DEF GcDropsCounts, TypeOK
  <2> QED
    BY <1>6, <2>1 DEF GcDropsCounts, TypeOK, envVars
<1>7. CASE Deliver
  <2>1. rec' \in [ts : Times, info : EventInfo]
    BY <1>7 DEF Deliver, TypeOK
  <2>2. records' \in 0 .. MaxRecords
    BY <1>7 DEF Deliver, TypeOK
  <2> QED
    BY <1>7, <2>1, <2>2 DEF Deliver, TypeOK, storeVars
<1>8. CASE UpdateEventCountTable
  <2>1. CASE UNCHANGED <<counted, counts, added>>
    BY <1>8, <2>1 DEF UpdateEventCountTable, TypeOK, envVars
  <2>2. CASE /\ Partitions # {}
             /\ StoreMinutes(SpreadOutEvents(NewCounts))
             /\ added' = [added EXCEPT ![PartOf(rec.ts)] = @ + NewCounts.count]
    <3> DEFINE S == SpreadOutEvents(NewCounts)
    <3>1. \A m \in DOMAIN S : m \in Minutes /\ S[m] \in Nat
      BY <2>2, StoredFacts
    <3>2. NewCounts.count \in Nat
      BY <2>2, StoredFacts
    <3>3. counts' = [m \in Minutes |-> counts[m] + (IF m \in DOMAIN S THEN S[m] ELSE 0)]
      BY <2>2 DEF StoreMinutes
    <3>4. counted' = counted \cup {PartOf(m) : m \in DOMAIN S}
      BY <2>2 DEF StoreMinutes
    <3> HIDE DEF S
    <3>5. counts' \in [Minutes -> Nat]
      BY <3>1, <3>3 DEF TypeOK
    <3>6. counted' \subseteq Parts
      BY <3>1, <3>4 DEF TypeOK, Parts
    <3>7. added' \in [Parts -> Nat]
      <4>1. PartOf(rec.ts) \in Parts
        BY TimesHaveParts DEF TypeOK
      <4> QED
        BY <2>2, <3>2, <4>1 DEF TypeOK
    <3> QED
      BY <1>8, <3>5, <3>6, <3>7 DEF UpdateEventCountTable, TypeOK, envVars
  <2> QED
    BY <1>8, <2>1, <2>2 DEF UpdateEventCountTable
<1>9. CASE UpdateEventCountTableFails
  BY <1>9 DEF UpdateEventCountTableFails, TypeOK, envVars, storeVars
<1>10. NoRecord \in [ts : Times, info : EventInfo]
  BY DEF NoRecord, Times, EventInfo
<1>11. CASE UpdateKubeWatchTable
  <2>1. PartOf(rec.ts) \in Parts
    BY TimesHaveParts DEF TypeOK
  <2>2. watch' \in [Parts -> EventInfo]
    BY <1>11, <2>1 DEF UpdateKubeWatchTable, TypeOK
  <2> QED
    BY <1>10, <1>11, <2>2 DEF UpdateKubeWatchTable, TypeOK, envVars
<1>12. CASE UpdateKubeWatchTableFails
  <2>1. PartOf(rec.ts) \in Parts
    BY TimesHaveParts DEF TypeOK
  <2> QED
    BY <1>10, <1>12, <2>1 DEF UpdateKubeWatchTableFails, TypeOK, envVars, storeVars
<1>13. CASE UNCHANGED vars
  BY <1>13 DEF vars, envVars, storeVars, TypeOK
<1> QED
  BY <1>1, <1>2, <1>3, <1>4, <1>5, <1>6, <1>7, <1>8, <1>9, <1>11, <1>12, <1>13 DEF Next

(* A copy that is of the past stays one, and so do the copies each step     *)
(* takes.                                                                   *)
LEMMA CopyStep == TypeOK /\ CopyInv /\ [Next]_vars => CopyInv'
<1> SUFFICES ASSUME TypeOK, CopyInv, [Next]_vars PROVE CopyInv'
  OBVIOUS
<1> DEFINE Past(c, t) == c.first <= c.last /\ c.last <= t
<1>1. now \in Nat /\ occurred \in Nat
  BY EventCountAssumption DEF TypeOK, Times
<1>2. /\ Past(event, now) /\ Past(cache, now) /\ Past(rec.info, now)
      /\ \A p \in Parts : Past(watch[p], now)
  BY DEF CopyInv
<1>3. Past(NoEvent, now) /\ NoRecord.info = NoEvent /\ NoEvent.count = 0
  BY <1>1 DEF NoEvent, NoRecord
<1>4. /\ event.count <= occurred /\ (pc = "recv" <=> rec.info = NoEvent)
      /\ (pc # "recv" => cache \in {NoEvent, rec.info})
  BY DEF CopyInv
<1>5. /\ event.last \in Nat /\ cache.last \in Nat /\ rec.info.last \in Nat
      /\ event.first \in Nat /\ event.count \in Nat
      /\ \A p \in Parts : watch[p].last \in Nat
  BY InfoFacts DEF TypeOK
<1>6. SUFFICES /\ Past(event', now') /\ Past(cache', now') /\ Past(rec'.info, now')
               /\ \A p \in Parts : Past(watch'[p], now')
               /\ event'.count <= occurred' /\ (pc' = "recv" <=> rec'.info = NoEvent)
               /\ (pc' # "recv" => cache' \in {NoEvent, rec'.info})
  BY <1>6 DEF CopyInv
<1>7. CASE Tick
  <2>1. \A x \in Nat : x <= now => x <= now'
    BY <1>1, <1>7 DEF Tick
  <2> QED
    BY <1>2, <1>4, <1>5, <1>7, <2>1 DEF Tick, storeVars
<1>8. CASE Occur
  <2>1. Past(event', now) /\ event'.count <= occurred'
    <3>1. CASE event = NoEvent
      <4>1. event'.first = now /\ event'.last = now /\ event'.count = 1
        BY <1>8, <3>1 DEF Occur
      <4> QED
        BY <1>1, <1>8, <4>1 DEF Occur
    <3>2. CASE event # NoEvent
      <4>1. event' = [event EXCEPT !.last = now, !.count = @ + 1]
        BY <1>8, <3>2 DEF Occur
      <4>2. event \in [first : Times, last : Times, count : 1 .. MaxCount]
        BY <3>2 DEF TypeOK, EventInfo
      <4>3. event'.first = event.first /\ event'.last = now /\ event'.count = event.count + 1
        BY <4>1, <4>2
      <4> QED
        BY <1>1, <1>2, <1>4, <1>5, <1>8, <4>3 DEF Occur
    <3> QED
      BY <3>1, <3>2
  <2> QED
    BY <1>2, <1>4, <1>8, <2>1 DEF Occur, storeVars
<1>9. CASE Expire
  BY <1>1, <1>2, <1>3, <1>4, <1>9 DEF Expire, storeVars
<1>10. CASE OtherRecord
  BY <1>2, <1>4, <1>10 DEF OtherRecord, envVars
<1>11. CASE GcDropsWatch
  <2>1. \A p \in Parts : watch'[p] = watch[p] \/ watch'[p] = NoEvent
    BY <1>11 DEF GcDropsWatch, TypeOK
  <2> QED
    BY <1>2, <1>3, <1>4, <1>11, <2>1 DEF GcDropsWatch, envVars
<1>12. CASE GcDropsCounts
  BY <1>2, <1>4, <1>12 DEF GcDropsCounts, envVars
<1>13. CASE Deliver
  <2>1. rec'.info # NoEvent /\ rec'.info = (IF event # NoEvent THEN event ELSE cache)
    BY <1>13 DEF Deliver
  <2> QED
    BY <1>2, <1>4, <1>13, <2>1 DEF Deliver, storeVars
<1>14. CASE UpdateEventCountTable \/ UpdateEventCountTableFails
  BY <1>2, <1>4, <1>14
     DEF UpdateEventCountTable, UpdateEventCountTableFails, envVars, storeVars
<1>15. CASE UpdateKubeWatchTable
  <2>1. \A p \in Parts : watch'[p] = watch[p] \/ watch'[p] = rec.info
    BY <1>15 DEF UpdateKubeWatchTable, TypeOK
  <2> QED
    BY <1>2, <1>3, <1>4, <1>15, <2>1 DEF UpdateKubeWatchTable, envVars
<1>16. CASE UpdateKubeWatchTableFails
  BY <1>2, <1>3, <1>4, <1>16 DEF UpdateKubeWatchTableFails, envVars, storeVars
<1>17. CASE UNCHANGED vars
  BY <1>2, <1>4, <1>17 DEF vars, envVars, storeVars
<1> QED
  BY <1>7, <1>8, <1>9, <1>10, <1>11, <1>12, <1>13, <1>14, <1>15, <1>16, <1>17 DEF Next

-----------------------------------------------------------------------------
(* computeEventsDiff and the budget of a partition: a copy that may be      *)
(* counted there brings no more than is left.                               *)
LEMMA DiffBudget ==
    ASSUME TypeOK, CopyInv, NEW p \in Parts, NEW copy \in EventInfo,
           copy.first <= copy.last, added[p] <= occurred, MayCount(p, copy)
    PROVE  added[p] + ComputeEventsDiff(watch[p], copy).count <= occurred
<1> DEFINE w == watch[p]
           d == ComputeEventsDiff(w, copy)
<1>1. w \in EventInfo /\ w.first <= w.last
  BY DEF TypeOK, CopyInv
<1>2. d.count \in Nat /\ d.count <= copy.count
  BY <1>1, DiffFacts DEF Span
<1>3. added[p] \in Nat /\ occurred \in Nat
  BY DEF TypeOK
<1>4. /\ w.first \in Nat /\ w.last \in Nat /\ w.count \in Nat
      /\ copy.first \in Nat /\ copy.last \in Nat /\ copy.count \in Nat
      /\ copy = NoEvent => copy.count = 0
  BY <1>1, InfoFacts
<1>5. CASE copy = NoEvent \/ added[p] + copy.count <= occurred
  <2> HIDE DEF d
  <2> QED
    BY <1>2, <1>3, <1>4, <1>5 DEF d
<1>6. CASE copy # NoEvent /\ w # NoEvent /\ Grown(w, copy)
           /\ added[p] + (copy.count - w.count) <= occurred
  <2>1. w.first = copy.first /\ w.count <= copy.count /\ w.last <= copy.last
    BY <1>6 DEF Grown
  <2>2. d = IF w.last >= copy.last THEN NoEvent
            ELSE [first |-> w.last, last |-> copy.last, count |-> copy.count - w.count]
    <3>1. ~(w.last < copy.first) /\ ~(copy.count < w.count)
      BY <1>1, <1>4, <2>1
    <3> QED
      BY <1>6, <2>1, <3>1 DEF ComputeEventsDiff
  <2>3. d.count = 0 \/ d.count = copy.count - w.count
    BY <2>2 DEF NoEvent
  <2> HIDE DEF d
  <2> QED
    BY <1>3, <1>4, <1>6, <2>3 DEF d
<1> QED
  BY <1>5, <1>6 DEF MayCount, MayCountOn

(* Less counted so far leaves at least as much room.                        *)
LEMMA RoomKept ==
    ASSUME TypeOK, NEW old \in EventInfo, NEW new \in EventInfo, NEW n \in Nat, NEW m \in Nat,
           m <= n, MayCountOn(old, new, n)
    PROVE  MayCountOn(old, new, m)
<1>1. old.count \in Nat /\ new.count \in Nat /\ occurred \in Nat
  BY InfoFacts DEF TypeOK
<1>2. ASSUME NEW k \in Int, n + k <= occurred PROVE m + k <= occurred
  BY <1>1, <1>2
<1> QED
  BY <1>1, <1>2 DEF MayCountOn

(* The part of BudgetInv that is about one partition.                       *)
BudgetAt(p) ==
    p \notin forgot =>
        /\ added[p] <= occurred
        /\ MayCount(p, event) \/ (pc # "recv" /\ p = PartOf(rec.ts))
        /\ MayCount(p, cache) \/ (pc # "recv" /\ p = PartOf(rec.ts))
        /\ pc # "recv" /\ p = PartOf(rec.ts) =>
             /\ pc = "count" => MayCount(p, rec.info)
             /\ added[p] + Pending <= occurred
             /\ event # NoEvent => MayCountOn(rec.info, event, added[p] + Pending)

(* Where nothing of it changes, the budget of a partition is kept.          *)
LEMMA BudgetKept ==
    ASSUME NEW p \in Parts, BudgetAt(p), p \notin forgot' => p \notin forgot,
           watch'[p] = watch[p], added'[p] = added[p],
           UNCHANGED <<event, cache, rec, pc, occurred>>
    PROVE  BudgetAt(p)'
<1>1. \A c : MayCount(p, c)' <=> MayCount(p, c)
  BY DEF MayCount, MayCountOn
<1>2. p = PartOf(rec.ts) => Pending' = Pending
  BY DEF Pending, PreviousEventInfo
<1>3. \A c, e, n : MayCountOn(c, e, n)' <=> MayCountOn(c, e, n)
  BY DEF MayCountOn
<1> QED
  BY <1>1, <1>2, <1>3 DEF BudgetAt

(* Occur: the Event that occurs once more, or anew, needs one more.         *)
LEMMA OccurBudget ==
    ASSUME TypeOK, CopyInv, Occur, NEW p \in Parts, BudgetAt(p) PROVE BudgetAt(p)'
<1> SUFFICES ASSUME p \notin forgot PROVE BudgetAt(p)'
  BY DEF BudgetAt, Occur
<1> DEFINE Room(old, e, n, o) == \/ Grown(old, e) /\ n + (e.count - old.count) <= o
                                 \/ Succeeds(old, e) /\ n + e.count <= o
<1>1. /\ UNCHANGED <<now, cache, records, rec, pc, watch, added, forgot>>
      /\ occurred' = occurred + 1 /\ occurred \in Nat /\ now \in Nat /\ added[p] \in Nat
  BY EventCountAssumption DEF Occur, TypeOK, Times, storeVars
<1>2. /\ event'.last = now /\ event'.count = event.count + 1
      /\ event # NoEvent => event'.first = event.first
      /\ event = NoEvent => event'.first = now
      /\ event.count \in Nat /\ event.first \in Nat /\ event.last \in Nat
      /\ event = NoEvent => event.count = 0
  <2>1. CASE event = NoEvent
    BY <2>1 DEF Occur, NoEvent
  <2>2. CASE event # NoEvent
    <3>1. event \in [first : Times, last : Times, count : 1 .. MaxCount]
      BY <2>2 DEF TypeOK, EventInfo
    <3>2. event' = [event EXCEPT !.last = now, !.count = @ + 1]
      BY <2>2 DEF Occur
    <3>3. event.count \in Nat /\ event.first \in Nat /\ event.last \in Nat
      BY <3>1, InfoFacts DEF EventInfo
    <3> QED
      BY <2>2, <3>1, <3>2, <3>3
  <2> QED
    BY <2>1, <2>2
<1>3. ASSUME NEW STATE old, old \in EventInfo, old.last <= now, NEW n \in Nat, n <= occurred,
             event # NoEvent => MayCountOn(old, event, n)
      PROVE  Room(old, event', n, occurred')
  <2>1. old.first \in Nat /\ old.last \in Nat /\ old.count \in Nat
    BY <1>3, InfoFacts
  <2>2. CASE event = NoEvent
    BY <1>1, <1>2, <1>3, <2>1, <2>2 DEF Succeeds
  <2>3. CASE event # NoEvent /\ Grown(old, event) /\ n + (event.count - old.count) <= occurred
    BY <1>1, <1>2, <1>3, <2>1, <2>3 DEF Grown
  <2>4. CASE event # NoEvent /\ Succeeds(old, event) /\ n + event.count <= occurred
    BY <1>1, <1>2, <1>3, <2>1, <2>4 DEF Succeeds
  <2> QED
    BY <1>3, <2>2, <2>3, <2>4 DEF MayCountOn
<1>4. ASSUME NEW STATE c, c \in EventInfo, MayCount(p, c)
      PROVE  c # NoEvent => IF watch[p] = NoEvent THEN added[p] + c.count <= occurred'
                                                  ELSE Room(watch[p], c, added[p], occurred')
  <2>1. c.count \in Nat /\ watch[p].count \in Nat
    BY <1>4, InfoFacts DEF TypeOK
  <2>2. \A k \in Int : k <= occurred => k <= occurred'
    BY <1>1
  <2>3. /\ added[p] + c.count \in Int /\ added[p] + (c.count - watch[p].count) \in Int
    BY <1>1, <2>1
  <2> QED
    BY <1>4, <2>2, <2>3 DEF MayCount, MayCountOn
<1>5. added[p] <= occurred
  BY DEF BudgetAt
<1>6. added'[p] <= occurred'
  BY <1>1, <1>5
<1>7. MayCount(p, event)' \/ (pc' # "recv" /\ p = PartOf(rec'.ts))
  <2>1. CASE pc # "recv" /\ p = PartOf(rec.ts)
    BY <1>1, <2>1
  <2>2. CASE MayCount(p, event)
    <3>1. CASE watch[p] = NoEvent
      <4>1. event # NoEvent => added[p] + event.count <= occurred
        BY <2>2, <3>1 DEF MayCount
      <4>2. added[p] + event'.count <= occurred'
        BY <1>1, <1>2, <1>5, <4>1
      <4> QED
        BY <1>1, <3>1, <4>2 DEF MayCount
    <3>2. CASE watch[p] # NoEvent
      <4>1. watch[p] \in EventInfo /\ watch[p].last <= now
        BY DEF TypeOK, CopyInv
      <4>2. event # NoEvent => MayCountOn(watch[p], event, added[p])
        BY <2>2, <3>2 DEF MayCount
      <4>3. Room(watch[p], event', added[p], occurred')
        <5> HIDE DEF Room
        <5> QED
          BY <1>1, <1>3, <1>5, <4>1, <4>2
      <4> QED
        BY <1>1, <3>2, <4>3 DEF MayCount, MayCountOn
    <3> QED
      BY <3>1, <3>2
  <2> QED
    BY <2>1, <2>2 DEF BudgetAt
<1>8. MayCount(p, cache)' \/ (pc' # "recv" /\ p = PartOf(rec'.ts))
  <2>1. CASE pc # "recv" /\ p = PartOf(rec.ts)
    BY <1>1, <2>1
  <2>2. CASE MayCount(p, cache)
    BY <1>1, <1>4, <2>2 DEF MayCount, MayCountOn, TypeOK
  <2> QED
    BY <2>1, <2>2 DEF BudgetAt
<1>9. ASSUME pc # "recv", p = PartOf(rec.ts)
      PROVE  /\ pc' = "count" => MayCount(p, rec.info)'
             /\ added'[p] + Pending' <= occurred'
             /\ event' # NoEvent => MayCountOn(rec.info, event, added[p] + Pending)'
  <2>1. Pending' = Pending
    BY <1>1 DEF Pending, PreviousEventInfo
  <2>2. rec.info \in EventInfo /\ rec.info.last <= now /\ rec.info.first <= rec.info.last
    BY DEF TypeOK, CopyInv
  <2>3. Pending \in Nat
    <3>1. watch[p] \in EventInfo /\ watch[p].first <= watch[p].last
      BY DEF TypeOK, CopyInv
    <3>2. ComputeEventsDiff(watch[p], rec.info).count \in Nat
      BY <2>2, <3>1, DiffFacts DEF Span
    <3> QED
      BY <1>9, <3>2 DEF Pending, PreviousEventInfo
  <2>4. added[p] + Pending <= occurred /\ added[p] + Pending \in Nat
    BY <1>1, <1>9, <2>3 DEF BudgetAt
  <2>5. event # NoEvent => MayCountOn(rec.info, event, added[p] + Pending)
    BY <1>9 DEF BudgetAt
  <2>6. Room(rec.info, event', added[p] + Pending, occurred')
    <3> HIDE DEF Room
    <3> QED
      BY <1>3, <2>2, <2>4, <2>5
  <2>7. pc = "count" => MayCount(p, rec.info)
    BY <1>9 DEF BudgetAt
  <2>8. pc' = "count" => MayCount(p, rec.info)'
    BY <1>1, <1>4, <2>2, <2>7 DEF MayCount, MayCountOn
  <2>9. added'[p] + Pending' <= occurred'
    BY <1>1, <2>1, <2>4
  <2>10. MayCountOn(rec.info, event, added[p] + Pending)'
    BY <1>1, <2>1, <2>6 DEF MayCountOn
  <2> QED
    BY <2>8, <2>9, <2>10
<1> QED
  BY <1>1, <1>6, <1>7, <1>8, <1>9 DEF BudgetAt

(* Deliver: the copy the record takes may be counted, and the Event grows   *)
(* on from it.                                                              *)
LEMMA DeliverBudget ==
    ASSUME TypeOK, CopyInv, Deliver, NEW p \in Parts, BudgetAt(p) PROVE BudgetAt(p)'
<1> SUFFICES ASSUME p \notin forgot PROVE BudgetAt(p)'
  BY DEF BudgetAt, Deliver
<1>1. /\ UNCHANGED <<now, event, occurred, watch, added, forgot>>
      /\ pc = "recv" /\ pc' = "count" /\ cache' = event /\ rec'.ts = now
      /\ rec'.info = (IF event # NoEvent THEN event ELSE cache)
      /\ occurred \in Nat /\ added[p] \in Nat
  BY DEF Deliver, TypeOK, storeVars
<1>2. MayCount(p, event) /\ MayCount(p, cache) /\ added[p] <= occurred
  BY <1>1 DEF BudgetAt
<1>3. \A c : MayCount(p, c)' <=> MayCount(p, c)
  BY <1>1 DEF MayCount, MayCountOn
<1>4. MayCount(p, rec'.info)
  BY <1>1, <1>2
<1>5. rec'.info \in EventInfo /\ rec'.info.first <= rec'.info.last
  BY <1>1 DEF TypeOK, CopyInv
<1>6. added[p] + ComputeEventsDiff(watch[p], rec'.info).count <= occurred
  BY <1>2, <1>4, <1>5, DiffBudget
<1>7. ASSUME p = PartOf(now)
      PROVE  /\ added'[p] + Pending' <= occurred'
             /\ event' # NoEvent => MayCountOn(rec.info, event, added[p] + Pending)'
  <2>1. Pending' = ComputeEventsDiff(watch[p], rec'.info).count
    BY <1>1, <1>7 DEF Pending, PreviousEventInfo
  <2>2. added'[p] + Pending' <= occurred' /\ Pending' \in Nat
    <3>1. watch[p] \in EventInfo /\ watch[p].first <= watch[p].last
      BY DEF TypeOK, CopyInv
    <3>2. ComputeEventsDiff(watch[p], rec'.info).count \in Nat
      BY <1>5, <3>1, DiffFacts DEF Span
    <3> QED
      BY <1>1, <1>6, <2>1, <3>2
  <2>3. event.first \in Nat /\ event.last \in Nat /\ event.count \in Nat
    BY InfoFacts DEF TypeOK
  <2>4. ASSUME event # NoEvent
        PROVE  /\ Grown(event, event)
               /\ (added'[p] + Pending') + (event.count - event.count) <= occurred'
    BY <1>1, <2>2, <2>3 DEF Grown
  <2> QED
    BY <1>1, <2>2, <2>4 DEF MayCountOn
<1>8. MayCount(p, rec.info)'
  BY <1>1, <1>4 DEF MayCount, MayCountOn
<1>9. MayCount(p, event)' /\ MayCount(p, cache)'
  BY <1>1, <1>2 DEF MayCount, MayCountOn
<1> QED
  BY <1>1, <1>2, <1>7, <1>8, <1>9 DEF BudgetAt

(* The event count transaction adds at most what was pending.               *)
LEMMA CountBudget ==
    ASSUME TypeOK, CopyInv, UpdateEventCountTable \/ UpdateEventCountTableFails,
           NEW p \in Parts, BudgetAt(p)
    PROVE  BudgetAt(p)'
<1> SUFFICES ASSUME p \notin forgot PROVE BudgetAt(p)'
  BY DEF BudgetAt, UpdateEventCountTable, UpdateEventCountTableFails
<1>1. /\ UNCHANGED <<now, event, cache, occurred, rec, watch, forgot>>
      /\ pc = "count" /\ pc' = "watch" /\ occurred \in Nat /\ added[p] \in Nat
  BY DEF UpdateEventCountTable, UpdateEventCountTableFails, envVars, storeVars, TypeOK
<1>2. Pending' = 0 /\ Pending = ComputeEventsDiff(PreviousEventInfo, rec.info).count
  BY <1>1 DEF Pending
<1>3. PartOf(rec.ts) \in Parts
  BY TimesHaveParts DEF TypeOK
<1>4. Pending \in Nat
  <2>1. /\ PreviousEventInfo \in EventInfo /\ PreviousEventInfo.first <= PreviousEventInfo.last
        /\ rec.info \in EventInfo /\ rec.info.first <= rec.info.last
    BY <1>3 DEF TypeOK, CopyInv, PreviousEventInfo
  <2> QED
    BY <1>2, <2>1, DiffFacts DEF Span
<1>5. CASE p # PartOf(rec.ts)
  <2>1. added'[p] = added[p]
    BY <1>3, <1>5 DEF UpdateEventCountTable, UpdateEventCountTableFails, TypeOK
  <2>2. \A c : MayCount(p, c)' <=> MayCount(p, c)
    BY <1>1, <2>1 DEF MayCount, MayCountOn
  <2> QED
    BY <1>1, <1>5, <2>1, <2>2 DEF BudgetAt
<1>6. CASE p = PartOf(rec.ts)
  <2>1. added'[p] \in Nat /\ added'[p] <= added[p] + Pending
    <3>1. CASE added' = added
      BY <1>1, <1>4, <3>1
    <3>2. CASE Partitions # {} /\ added' = [added EXCEPT ![PartOf(rec.ts)] = @ + NewCounts.count]
      <4>1. NewCounts.count \in Nat /\ NewCounts.count <= Pending
        BY <1>2, <3>2, StoredFacts
      <4>2. added'[p] = added[p] + NewCounts.count
        BY <1>6, <3>2 DEF TypeOK
      <4> QED
        BY <1>1, <1>4, <4>1, <4>2
    <3> QED
      BY <3>1, <3>2 DEF UpdateEventCountTable, UpdateEventCountTableFails
  <2>2. /\ added[p] + Pending <= occurred
        /\ event # NoEvent => MayCountOn(rec.info, event, added[p] + Pending)
    BY <1>1, <1>6 DEF BudgetAt
  <2>3. added'[p] + Pending' <= occurred' /\ added'[p] <= occurred'
    BY <1>1, <1>2, <1>4, <2>1, <2>2
  <2>4. event # NoEvent => MayCountOn(rec.info, event, added'[p])
    <3>1. rec.info \in EventInfo /\ event \in EventInfo
      BY DEF TypeOK
    <3>2. added[p] + Pending \in Nat
      BY <1>1, <1>4
    <3> QED
      BY <2>1, <2>2, <3>1, <3>2, RoomKept
  <2>5. event' # NoEvent => MayCountOn(rec.info, event, added[p] + Pending)'
    <3>1. added'[p] + Pending' = added'[p]
      BY <1>2, <2>1
    <3> QED
      BY <1>1, <2>4, <3>1 DEF MayCountOn
  <2> QED
    BY <1>1, <1>6, <2>3, <2>5 DEF BudgetAt
<1> QED
  BY <1>5, <1>6

(* The watch table transaction: from the copy it stores the Event grows on. *)
LEMMA WatchBudget ==
    ASSUME TypeOK, CopyInv, UpdateKubeWatchTable, NEW p \in Parts, BudgetAt(p)
    PROVE  BudgetAt(p)'
<1> SUFFICES ASSUME p \notin forgot PROVE BudgetAt(p)'
  BY DEF BudgetAt, UpdateKubeWatchTable
<1>1. /\ UNCHANGED <<now, event, cache, occurred, added, forgot>>
      /\ pc = "watch" /\ pc' = "recv" /\ occurred \in Nat /\ added[p] \in Nat
      /\ watch' = [watch EXCEPT ![PartOf(rec.ts)] = rec.info]
  BY DEF UpdateKubeWatchTable, envVars, TypeOK
<1>2. Pending = 0 /\ added[p] <= occurred
  BY <1>1 DEF Pending, BudgetAt
<1>3. CASE p # PartOf(rec.ts)
  <2>1. watch'[p] = watch[p]
    BY <1>1, <1>3 DEF TypeOK
  <2>2. \A c : MayCount(p, c)' <=> MayCount(p, c)
    BY <1>1, <2>1 DEF MayCount, MayCountOn
  <2> QED
    BY <1>1, <1>3, <2>2 DEF BudgetAt
<1>4. CASE p = PartOf(rec.ts)
  <2>1. watch'[p] = rec.info /\ rec.info # NoEvent
    BY <1>1, <1>4 DEF TypeOK, CopyInv
  <2>2. event # NoEvent => MayCountOn(rec.info, event, added[p])
    <3>1. added[p] + Pending = added[p]
      BY <1>1, <1>2
    <3> QED
      BY <1>1, <1>4, <3>1 DEF BudgetAt
  <2>3. MayCountOn(rec.info, rec.info, added[p])
    <3>1. rec.info.first \in Nat /\ rec.info.last \in Nat /\ rec.info.count \in Nat
      BY InfoFacts DEF TypeOK
    <3>2. Grown(rec.info, rec.info) /\ added[p] + (rec.info.count - rec.info.count) <= occurred
      BY <1>1, <1>2, <3>1 DEF Grown
    <3> QED
      BY <3>2 DEF MayCountOn
  <2>4. MayCount(p, event)'
    BY <1>1, <2>1, <2>2 DEF MayCount, MayCountOn
  <2>5. cache \in {NoEvent, rec.info}
    BY <1>1 DEF CopyInv
  <2>6. MayCount(p, cache)'
    BY <1>1, <2>1, <2>3, <2>5 DEF MayCount, MayCountOn
  <2> QED
    BY <1>1, <1>2, <2>4, <2>6 DEF BudgetAt
<1> QED
  BY <1>3, <1>4

(* Every step keeps every partition within its budget.                      *)
LEMMA BudgetStep == TypeOK /\ CopyInv /\ BudgetInv /\ [Next]_vars => BudgetInv'
<1> SUFFICES ASSUME TypeOK, CopyInv, BudgetInv, [Next]_vars, NEW p \in Parts
             PROVE  BudgetAt(p)'
  BY DEF BudgetInv, BudgetAt
<1>1. BudgetAt(p)
  BY DEF BudgetInv, BudgetAt
<1>2. CASE Tick \/ OtherRecord \/ GcDropsCounts \/ UNCHANGED vars
  <2>1. UNCHANGED <<event, cache, rec, pc, occurred, watch, added, forgot>>
    BY <1>2 DEF Tick, OtherRecord, GcDropsCounts, vars, envVars, storeVars
  <2> QED
    BY <1>1, <2>1, BudgetKept
<1>3. CASE Occur
  BY <1>1, <1>3, OccurBudget
<1>4. CASE Expire
  <2>1. UNCHANGED <<cache, rec, pc, occurred, watch, added, forgot>> /\ event' = NoEvent
    BY <1>4 DEF Expire, storeVars
  <2>2. MayCount(p, event)' /\ (MayCount(p, cache)' <=> MayCount(p, cache))
    BY <2>1 DEF MayCount, MayCountOn
  <2>3. Pending' = Pending /\ (MayCount(p, rec.info)' <=> MayCount(p, rec.info))
    BY <2>1 DEF Pending, PreviousEventInfo, MayCount, MayCountOn
  <2> QED
    BY <1>1, <2>1, <2>2, <2>3 DEF BudgetAt
<1>5. CASE GcDropsWatch
  <2>1. p \notin forgot' => p \notin forgot /\ p # Min(Partitions)
    BY <1>5 DEF GcDropsWatch
  <2>2. CASE p \in forgot'
    BY <2>2 DEF BudgetAt
  <2>3. CASE p \notin forgot'
    <3>1. watch'[p] = watch[p] /\ UNCHANGED <<event, cache, rec, pc, occurred, added>>
      BY <1>5, <2>1, <2>3 DEF GcDropsWatch, envVars, TypeOK
    <3> QED
      BY <1>1, <2>1, <3>1, BudgetKept
  <2> QED
    BY <2>2, <2>3
<1>6. CASE Deliver
  BY <1>1, <1>6, DeliverBudget
<1>7. CASE UpdateEventCountTable \/ UpdateEventCountTableFails
  BY <1>1, <1>7, CountBudget
<1>8. CASE UpdateKubeWatchTable
  BY <1>1, <1>8, WatchBudget
<1>9. CASE UpdateKubeWatchTableFails
  <2>1. /\ UNCHANGED <<event, cache, occurred, watch, added>> /\ pc' = "recv"
        /\ p \notin forgot' => p \notin forgot /\ p # PartOf(rec.ts)
    BY <1>9 DEF UpdateKubeWatchTableFails, envVars, storeVars
  <2>2. \A c : MayCount(p, c)' <=> MayCount(p, c)
    BY <2>1 DEF MayCount, MayCountOn
  <2> QED
    BY <1>1, <2>1, <2>2 DEF BudgetAt
<1> QED
  BY <1>2, <1>3, <1>4, <1>5, <1>6, <1>7, <1>8, <1>9 DEF Next

-----------------------------------------------------------------------------
(* The inductive invariant holds in every reachable state.                  *)
THEOREM EventCountInvariant == Spec => []IndInv
<1>1. Init => IndInv
  <2> SUFFICES ASSUME Init PROVE IndInv
    OBVIOUS
  <2>1. TypeOK
    BY EventCountAssumption DEF Init, TypeOK, NoRecord, Times, EventInfo
  <2>2. CopyInv
    BY DEF Init, CopyInv, NoRecord, NoEvent
  <2>3. BudgetInv
    BY DEF Init, BudgetInv, MayCount
  <2> QED
    BY <2>1, <2>2, <2>3 DEF IndInv
<1>2. IndInv /\ [Next]_vars => IndInv'
  BY TypeStep, CopyStep, BudgetStep DEF IndInv
<1> QED
  BY <1>1, <1>2, PTL DEF Spec

(* The event count transaction stays within its tables, whatever the diff,  *)
(* the truncation and the spreading make of a copy: minutes of the table,   *)
(* natural numbers, partitions that exist.                                  *)
THEOREM EventCountTypes == Spec => []TypeOK
<1>1. IndInv => TypeOK
  BY DEF IndInv
<1> QED
  BY <1>1, EventCountInvariant, PTL

(* computeEventsDiff: the copies of an Event delivered within a partition   *)
(* never add more counts there than the Event occurred, unless the copy it  *)
(* compares with was lost.                                                  *)
THEOREM CountsOnce == Spec => []CountsOncePerPartition
<1>1. IndInv => CountsOncePerPartition
  BY DEF IndInv, BudgetInv, CountsOncePerPartition
<1> QED
  BY <1>1, EventCountInvariant, PTL

(* adjustForAvailablePartitions: no step adds counts to the oldest of       *)
(* several partitions or to one before it.                                  *)
THEOREM PastStaysAsItIs == Spec => NeverFillsThePast
<1> DEFINE Kept == \A m \in Minutes : counts'[m] > counts[m] =>
                     \/ PartOf(m) > Min(Partitions)
                     \/ Partitions = {PartOf(m)}
<1>1. IndInv /\ [Next]_vars => [Kept]_vars
  <2> SUFFICES ASSUME TypeOK, CopyInv, Next, NEW m \in Minutes, counts'[m] > counts[m]
               PROVE  PartOf(m) > Min(Partitions) \/ Partitions = {PartOf(m)}
    BY DEF IndInv
  <2>1. counts[m] \in Nat
    BY DEF TypeOK
  <2>2. CASE counts' = counts
    BY <2>1, <2>2
  <2>3. CASE GcDropsCounts
    <3>1. counts'[m] = 0 \/ counts'[m] = counts[m]
      BY <2>3 DEF GcDropsCounts
    <3> QED
      BY <2>1, <3>1
  <2>4. CASE Partitions # {} /\ StoreMinutes(SpreadOutEvents(NewCounts))
    <3> DEFINE S == SpreadOutEvents(NewCounts)
    <3>1. counts'[m] = counts[m] + (IF m \in DOMAIN S THEN S[m] ELSE 0)
      BY <2>4 DEF StoreMinutes
    <3>2. \A x \in DOMAIN S : /\ S[x] \in Nat
                              /\ S[x] > 0 => \/ PartOf(x) > Min(Partitions)
                                             \/ Partitions = {PartOf(x)}
      BY <2>4, StoredFacts
    <3> HIDE DEF S
    <3>3. m \in DOMAIN S /\ S[m] > 0
      BY <2>1, <3>1, <3>2
    <3> QED
      BY <3>2, <3>3
  <2> QED
    BY <2>2, <2>3, <2>4
       DEF Next, Tick, Occur, Expire, OtherRecord, GcDropsWatch, Deliver, UpdateEventCountTable,
           UpdateEventCountTableFails, UpdateKubeWatchTable, UpdateKubeWatchTableFails,
           envVars, storeVars
<1> QED
  BY <1>1, EventCountInvariant, PTL DEF Spec, NeverFillsThePast

(* spreadOutEvents and storeMinutes: the store gains, over all minutes, what *)
(* was left of the new counts after truncation, in every step that adds     *)
(* counts.                                                                  *)
THEOREM StoredTotalsMatch == Spec => TotalsMatch
<1> DEFINE Match == added' # added =>
                      Total(counts') - Total(counts) = Total(added') - Total(added)
<1>1. IndInv /\ [Next]_vars => [Match]_vars
  <2> SUFFICES ASSUME TypeOK, CopyInv, Next, added' # added
               PROVE  Total(counts') - Total(counts) = Total(added') - Total(added)
    BY DEF IndInv
  <2> DEFINE S == SpreadOutEvents(NewCounts)
             n == NewCounts.count
             p == PartOf(rec.ts)
             g == [m \in Minutes |-> IF m \in DOMAIN S THEN S[m] ELSE 0]
             o == [q \in {p} |-> n]
             e == [q \in Parts |-> IF q \in DOMAIN o THEN o[q] ELSE 0]
  <2>1. /\ Partitions # {} /\ StoreMinutes(S)
        /\ added' = [added EXCEPT ![p] = @ + n]
    BY DEF Next, Tick, Occur, Expire, OtherRecord, GcDropsWatch, GcDropsCounts, Deliver,
           UpdateEventCountTable, UpdateEventCountTableFails, UpdateKubeWatchTable,
           UpdateKubeWatchTableFails
  <2>2. p \in Parts
    BY TimesHaveParts DEF TypeOK
  <2>3. NewCounts \in Span /\ n \in Nat /\ \A m \in DOMAIN S : m \in Minutes /\ S[m] \in Nat
    BY <2>1, StoredFacts
  <2>4. Total(S) = n
    BY <2>3, TotalOfSpread
  <2>5. /\ counts \in [Minutes -> Nat] /\ added \in [Parts -> Nat]
        /\ IsFiniteSet(Minutes) /\ IsFiniteSet(Parts)
    BY TablesAreFinite DEF TypeOK
  <2> HIDE DEF S, n, p
  <2>6. g \in [Minutes -> Nat] /\ Total(g) = n
    <3>1. g \in [Minutes -> Nat]
      BY <2>3
    <3>2. DOMAIN S \subseteq Minutes
      BY <2>3
    <3> QED
      BY <2>4, <3>1, <3>2, TotalOfExtension
  <2>7. e \in [Parts -> Nat] /\ Total(e) = n
    <3>1. e \in [Parts -> Nat]
      BY <2>3
    <3>2. DOMAIN o \subseteq Parts
      BY <2>2
    <3>3. Total(o) = n
      BY <2>3, TotalOfOne
    <3> HIDE DEF o
    <3> QED
      BY <3>1, <3>2, <3>3, TotalOfExtension
  <2>8. /\ counts' \in [Minutes -> Nat]
        /\ \A m \in Minutes : counts'[m] = counts[m] + g[m]
    BY <2>1, <2>3, <2>5 DEF StoreMinutes
  <2>9. /\ added' \in [Parts -> Nat]
        /\ \A q \in Parts : added'[q] = added[q] + e[q]
    BY <2>1, <2>2, <2>3, <2>5
  <2> HIDE DEF g, e
  <2>10. Total(counts') = Total(counts) + Total(g)
    BY <2>5, <2>6, <2>8, TotalOfSum
  <2>11. Total(added') = Total(added) + Total(e)
    BY <2>5, <2>7, <2>9, TotalOfSum
  <2>12. Total(counts) \in Nat /\ Total(added) \in Nat
    BY <2>5, TotalIsNatural
  <2> QED
    BY <2>3, <2>6, <2>7, <2>10, <2>11, <2>12
<1> QED
  BY <1>1, EventCountInvariant, PTL DEF Spec, TotalsMatch

(* adjustForAvailablePartitions: an Event that is new to its partition and  *)
(* lasted a while, within the partitions that are kept but the oldest, is   *)
(* counted in full, in the minutes it lasted.                               *)
THEOREM NewEventsAreKept == Spec => []AvailableIsKept
<1>1. IndInv => AvailableIsKept
  <2> DEFINE e == rec.info
             min == Min(Partitions)
             max == Max(Partitions)
             a == NewCounts
             S == SpreadOutEvents(a)
  <2> SUFFICES ASSUME TypeOK, CopyInv, Partitions # {}, PreviousEventInfo = NoEvent,
                      e.first > EndOf(min), e.last < EndOf(max), e.first < e.last
               PROVE  /\ Total(S) = e.count
                      /\ DOMAIN S \subseteq RoundToMinute(e.first) .. RoundToMinute(e.last)
    BY DEF IndInv, AvailableIsKept
  <2>1. a \in Span
    BY StoredFacts
  <2>2. e.first \in Nat /\ e.last \in Nat /\ e.count \in Nat
    <3>1. e \in EventInfo
      BY DEF TypeOK
    <3> HIDE DEF e
    <3> QED
      BY <3>1, InfoFacts
  <2>3. EndOf(min) \in Nat /\ EndOf(max) \in Nat
    BY PartitionFacts
  <2>4. a.first = e.first /\ a.last = e.last /\ a.count = e.count
    <3> DEFINE x == EndOf(min)
               z == EndOf(max)
    <3>1. a = AdjustForAvailablePartitions(e, x, StartOf(max), z)
      BY DEF NewCounts, ComputeEventsDiff
    <3>2. x \in Nat /\ z \in Nat /\ x < e.first /\ e.last < z
      BY <2>3
    <3> HIDE DEF a, e, x, z
    <3>3. x # z /\ ~(e.last < x) /\ ~(e.first > z) /\ e.first # e.last
      BY <2>2, <3>2
    <3>4. Max({e.first, x}) = e.first /\ Min({e.last, z}) = e.last
      BY <2>2, <3>2, MaxOfTwo, MinOfTwo
    <3>5. (e.count * (e.last - e.first)) \div (e.last - e.first) = e.count
      <4> DEFINE w == e.last - e.first
      <4>1. w \in Nat \ {0}
        BY <2>2
      <4> HIDE DEF w
      <4>2. e.count * w \in Nat /\ w * e.count = e.count * w
        BY <2>2, <4>1
      <4>3. (e.count * w) \div w = e.count
        BY <2>2, <4>1, <4>2, DivUnique
      <4> QED
        BY <4>3 DEF w
    <3>6. a = [first |-> e.first, last |-> e.last, count |-> e.count]
      BY <3>1, <3>3, <3>4, <3>5 DEF AdjustForAvailablePartitions
    <3> QED
      BY <3>6
  <2> HIDE DEF a, e
  <2>5. Total(S) = e.count
    BY <2>1, <2>4, TotalOfSpread
  <2>6. ASSUME NEW m \in DOMAIN S
        PROVE  m \in RoundToMinute(e.first) .. RoundToMinute(e.last)
    <3>1. /\ RoundToMinute(e.first) <= m /\ m <= RoundToMinute(e.last)
          /\ \E k \in Nat : m = k * MinuteLen
      BY <2>1, <2>4, SpreadFacts
    <3>2. m \in Nat
      BY <3>1, EventCountAssumption
    <3>3. RoundToMinute(e.first) \in Nat /\ RoundToMinute(e.last) \in Nat
      BY <2>2, RoundIsNatural
    <3> QED
      BY <3>1, <3>2, <3>3
  <2> QED
    BY <2>5, <2>6
<1> QED
  BY <1>1, EventCountInvariant, PTL
=============================================================================
