---------------------------- MODULE NumberLemmas ----------------------------
(***************************************************************************)
(* Facts about numbers that the proofs of several modules need: minima and  *)
(* maxima of sets, integer division by a number that is not known, and      *)
(* lists in the order of a number.                                          *)
(***************************************************************************)
EXTENDS Integers, Sequences, FiniteSetsExt, FiniteSetTheorems, WellFoundedInduction, TLAPS

(* Min is the least element of a set of naturals: the oldest partition.     *)
LEMMA MinOfNaturals ==
    ASSUME NEW S, S \subseteq Nat, S # {}
    PROVE  Min(S) \in S /\ \A n \in S : Min(S) <= n
<1>1. PICK m \in S : \A n \in S : ~ (<<n, m>> \in OpToRel(<, Nat))
  BY NatLessThanWellFounded, WFMin
<1>2. ASSUME NEW n \in S PROVE m <= n
  <2>1. ASSUME n < m PROVE FALSE
    <3>1. <<n, m>> \in Nat \X Nat
      OBVIOUS
    <3>2. <<n, m>>[1] < <<n, m>>[2]
      BY <2>1
    <3>3. <<n, m>> \in OpToRel(<, Nat)
      BY <3>1, <3>2 DEF OpToRel
    <3> QED
      BY <1>1, <3>3
  <2> QED
    BY <2>1
<1> QED
  BY <1>2 DEF Min

(* Max is the greatest element of a set of naturals that has a bound: the   *)
(* newest partition.                                                        *)
LEMMA MaxOfNaturals ==
    ASSUME NEW S, S \subseteq Nat, S # {}, NEW b \in Nat, \A n \in S : n <= b
    PROVE  Max(S) \in S /\ \A n \in S : n <= Max(S)
<1> DEFINE T == {b - n : n \in S}
<1>1. T \subseteq Nat /\ T # {}
  <2>1. \A n \in S : b - n \in Nat
    OBVIOUS
  <2>2. PICK s \in S : b - s \in T
    OBVIOUS
  <2> QED
    BY <2>1, <2>2
<1>2. Min(T) \in T /\ \A t \in T : Min(T) <= t
  <2> HIDE DEF T
  <2> QED
    BY <1>1, MinOfNaturals
<1>3. PICK m \in S : Min(T) = b - m
  BY <1>2
<1>4. ASSUME NEW n \in S PROVE n <= m
  <2>1. b - n \in T
    OBVIOUS
  <2>2. b - m <= b - n
    BY <1>2, <1>3, <2>1
  <2> QED
    BY <2>2
<1> QED
  BY <1>4 DEF Max

(* The larger, and the smaller, of two numbers.                             *)
LEMMA MaxOfTwo ==
    ASSUME NEW a \in Int, NEW b \in Int
    PROVE  Max({a, b}) = IF a >= b THEN a ELSE b
  BY DEF Max

(* The smaller of two numbers.                                              *)
LEMMA MinOfTwo ==
    ASSUME NEW a \in Int, NEW b \in Int
    PROVE  Min({a, b}) = IF a <= b THEN a ELSE b
  BY DEF Min

(* Sets that correspond one to one have equally many elements.              *)
LEMMA SameSize ==
    ASSUME NEW S, NEW T, IsFiniteSet(S), NEW G \in [S -> T],
           \A a, b \in S : G[a] = G[b] => a = b,
           \A t \in T : \E s \in S : G[s] = t
    PROVE  IsFiniteSet(T) /\ Cardinality(T) = Cardinality(S)
<1>1. G \in Bijection(S, T)
  BY DEF Bijection, Injection, Surjection, IsInjective
<1>2. ExistsBijection(S, T)
  BY <1>1 DEF ExistsBijection
<1> QED
  BY <1>2, FS_Bijection

(* A share of a count, cut off, is at most the count.                       *)
LEMMA ShareIsPart ==
    ASSUME NEW n \in Nat, NEW a \in Nat, NEW d \in Nat \ {0}, a <= d
    PROVE  (n * a) \div d \in 0 .. n
<1>1. n * a \in Nat /\ n * d \in Nat /\ n * a <= n * d
  OBVIOUS
<1>2. (n * a) \div d \in Nat
  BY <1>1
<1>3. d * ((n * a) \div d) <= n * a
  BY <1>1
<1>4. ASSUME (n * a) \div d > n PROVE FALSE
  <2> DEFINE q == (n * a) \div d
  <2>1. q \in Nat /\ q >= n + 1 /\ d * q <= n * d
    BY <1>1, <1>2, <1>3, <1>4
  <2> HIDE DEF q
  <2>2. d * q >= d * (n + 1)
    BY <2>1
  <2>3. d * (n + 1) = n * d + d
    OBVIOUS
  <2>4. d * q \in Nat /\ d * (n + 1) \in Nat
    BY <2>1
  <2> QED
    BY <1>1, <2>1, <2>2, <2>3, <2>4
<1> QED
  BY <1>2, <1>4

(* Integer division rounds down.                                            *)
LEMMA DivBounds ==
    ASSUME NEW a \in Nat, NEW d \in Nat \ {0}
    PROVE  a \div d \in Nat /\ d * (a \div d) <= a /\ a < d * (a \div d) + d
  OBVIOUS

(* A number is its quotient times the divisor, and a remainder.             *)
LEMMA DivMod ==
    ASSUME NEW a \in Nat, NEW d \in Nat \ {0}
    PROVE  a \div d \in Nat /\ a % d \in 0 .. d - 1 /\ a = d * (a \div d) + (a % d)
  OBVIOUS

(* The quotient is the only number with these bounds.                       *)
LEMMA DivUnique ==
    ASSUME NEW a \in Nat, NEW d \in Nat \ {0}, NEW q \in Nat,
           d * q <= a, a < d * q + d
    PROVE  a \div d = q
<1> DEFINE r == a \div d
<1>1. r \in Nat /\ d * r <= a /\ a < d * r + d
  BY DivBounds
<1> HIDE DEF r
<1>2. ASSUME r < q PROVE FALSE
  <2>1. d * (r + 1) <= d * q
    BY <1>1, <1>2
  <2>2. d * (r + 1) = d * r + d
    BY <1>1
  <2>3. d * r \in Nat /\ d * q \in Nat
    BY <1>1
  <2> QED
    BY <1>1, <2>1, <2>2, <2>3
<1>3. ASSUME q < r PROVE FALSE
  <2>1. d * (q + 1) <= d * r
    BY <1>1, <1>3
  <2>2. d * (q + 1) = d * q + d
    OBVIOUS
  <2>3. d * r \in Nat /\ d * q \in Nat
    BY <1>1
  <2> QED
    BY <1>1, <2>1, <2>2, <2>3
<1> QED
  BY <1>1, <1>2, <1>3 DEF r

(* A number from q times d on has at least the quotient q, one below it has *)
(* a smaller one.                                                           *)
LEMMA DivOrder ==
    ASSUME NEW a \in Nat, NEW d \in Nat \ {0}, NEW q \in Nat
    PROVE  q * d <= a <=> q <= a \div d
<1> DEFINE r == a \div d
<1>1. r \in Nat /\ d * r <= a /\ a < d * r + d
  BY DivBounds
<1> HIDE DEF r
<1>2. ASSUME q * d <= a, r < q PROVE FALSE
  <2>1. d * (r + 1) <= d * q
    BY <1>1, <1>2
  <2>2. d * (r + 1) = d * r + d /\ d * q = q * d
    BY <1>1
  <2>3. d * r \in Nat /\ d * q \in Nat
    BY <1>1
  <2> QED
    BY <1>1, <1>2, <2>1, <2>2, <2>3
<1>3. ASSUME q <= r PROVE q * d <= a
  <2>1. q * d <= d * r
    BY <1>1, <1>3
  <2>2. d * r \in Nat /\ q * d \in Nat
    BY <1>1
  <2> QED
    BY <1>1, <2>1, <2>2
<1> QED
  BY <1>1, <1>2, <1>3 DEF r

(* A multiple.                                                              *)
LEMMA Multiple ==
    ASSUME NEW a \in Nat, NEW d \in Nat \ {0}, a % d = 0
    PROVE  a \div d \in Nat /\ a = (a \div d) * d
  OBVIOUS

(* A quotient rounded up is the least number that is large enough.          *)
LEMMA CeilingIsLeast ==
    ASSUME NEW x \in Nat, NEW d \in Nat \ {0}, NEW k, k = (x + d - 1) \div d
    PROVE  k \in Nat /\ k * d >= x /\ \A j \in Nat : j * d >= x => k <= j
<1> DEFINE a == x + d - 1
<1>1. a \in Nat
  OBVIOUS
<1>2. k = a \div d
  OBVIOUS
<1>3. k \in Nat /\ d * k <= a /\ a < d * k + d
  <2> HIDE DEF a
  <2> QED
    BY <1>1, <1>2, DivBounds
<1>4. d * k = k * d /\ k * d \in Nat
  BY <1>3
<1>5. k * d >= x
  BY <1>3, <1>4
<1>6. ASSUME NEW j \in Nat, j * d >= x, k > j PROVE FALSE
  <2>1. j + 1 <= k
    BY <1>3, <1>6
  <2>2. (j + 1) * d <= k * d
    BY <1>3, <2>1
  <2>3. (j + 1) * d = j * d + d /\ j * d \in Nat
    OBVIOUS
  <2>4. j * d + d <= x + d - 1
    BY <1>3, <1>4, <2>2, <2>3
  <2> QED
    BY <1>6, <2>3, <2>4
<1> QED
  BY <1>3, <1>5, <1>6

(* The quotient of an integer, also of a time before the first partition,   *)
(* does not get smaller when the integer gets larger.                       *)
LEMMA DivMonotone ==
    ASSUME NEW a \in Int, NEW b \in Int, NEW d \in Nat \ {0}, a <= b
    PROVE  a \div d \in Int /\ b \div d \in Int /\ a \div d <= b \div d
<1> DEFINE p == a \div d
           q == b \div d
<1>1. p \in Int /\ q \in Int /\ d * p <= a /\ b < d * q + d
  OBVIOUS
<1> HIDE DEF p, q
<1>2. ASSUME q < p PROVE FALSE
  <2>1. d * (q + 1) <= d * p
    BY <1>1, <1>2
  <2>2. d * (q + 1) = d * q + d
    BY <1>1
  <2>3. d * p \in Int /\ d * q \in Int
    BY <1>1
  <2> QED
    BY <1>1, <2>1, <2>2, <2>3
<1> QED
  BY <1>1, <1>2 DEF p, q

-----------------------------------------------------------------------------
(* The elements of S up to p, in the order of their keys.                   *)
UpTo(S, key, p) == {q \in S : key[q] <= key[p]}

(* A list whose i-th element is one with i elements up to it, in the order  *)
(* of their keys, lists the whole set in this order.                        *)
LEMMA RankedList ==
    ASSUME NEW S, IsFiniteSet(S), NEW key \in [S -> Int],
           \A p, q \in S : key[p] = key[q] => p = q,
           NEW s, Len(s) = Cardinality(S),
           \A i \in 1 .. Cardinality(S) :
             (\E p \in S : Cardinality(UpTo(S, key, p)) = i)
                => s[i] \in S /\ Cardinality(UpTo(S, key, s[i])) = i
    PROVE  /\ Len(s) \in Nat
           /\ \A i \in 1 .. Len(s) : s[i] \in S
           /\ \A i, j \in 1 .. Len(s) : i < j => key[s[i]] < key[s[j]]
           /\ \A p \in S : \E i \in 1 .. Len(s) : s[i] = p
<1> DEFINE n == Cardinality(S)
           rank == [p \in S |-> Cardinality(UpTo(S, key, p))]
<1>1. n \in Nat /\ \A p \in S : key[p] \in Int
  BY FS_CardinalityType
<1>2. ASSUME NEW p \in S
      PROVE  UpTo(S, key, p) \subseteq S /\ IsFiniteSet(UpTo(S, key, p)) /\ p \in UpTo(S, key, p) /\ rank[p] \in 1 .. n
  <2>1. UpTo(S, key, p) \in SUBSET S /\ p \in UpTo(S, key, p)
    BY <1>1 DEF UpTo
  <2>2. IsFiniteSet(UpTo(S, key, p)) /\ Cardinality(UpTo(S, key, p)) <= n
    BY <1>1, <2>1, FS_Subset
  <2>3. Cardinality(UpTo(S, key, p)) \in Nat /\ Cardinality(UpTo(S, key, p)) # 0
    BY <2>1, <2>2, FS_CardinalityType, FS_EmptySet
  <2> QED
    BY <1>1, <2>1, <2>2, <2>3
<1>3. ASSUME NEW p \in S, NEW q \in S, key[p] < key[q] PROVE rank[p] < rank[q]
  <2>1. UpTo(S, key, p) \in SUBSET UpTo(S, key, q)
    BY <1>1, <1>3 DEF UpTo
  <2>2. q \in UpTo(S, key, q) /\ q \notin UpTo(S, key, p)
    BY <1>1, <1>3 DEF UpTo
  <2>3. /\ Cardinality(UpTo(S, key, p)) <= Cardinality(UpTo(S, key, q))
        /\ Cardinality(UpTo(S, key, p)) # Cardinality(UpTo(S, key, q))
    BY <1>2, <2>1, <2>2, FS_Subset
  <2>4. rank[p] \in 1 .. n /\ rank[q] \in 1 .. n
    BY <1>2
  <2>5. rank[p] = Cardinality(UpTo(S, key, p)) /\ rank[q] = Cardinality(UpTo(S, key, q))
    OBVIOUS
  <2> HIDE DEF rank, n
  <2> QED
    BY <1>1, <2>3, <2>4, <2>5
<1>4. \A p \in S : rank[p] \in 1 .. n /\ rank[p] = Cardinality(UpTo(S, key, p))
  BY <1>2
<1>5. \A p, q \in S : p # q => rank[p] # rank[q]
  <2> SUFFICES ASSUME NEW p \in S, NEW q \in S, p # q PROVE rank[p] # rank[q]
    OBVIOUS
  <2>1. key[p] < key[q] \/ key[q] < key[p]
    BY <1>1
  <2>2. rank[p] < rank[q] \/ rank[q] < rank[p]
    BY <1>3, <2>1
  <2>3. rank[p] \in Nat /\ rank[q] \in Nat
    BY <1>1, <1>4
  <2> HIDE DEF rank
  <2> QED
    BY <2>2, <2>3
<1>6. rank \in Surjection(S, 1 .. n)
  <2>1. rank \in [S -> 1 .. n]
    BY <1>4
  <2>2. IsFiniteSet(1 .. n) /\ Cardinality(1 .. n) = n
    BY <1>1, FS_Interval
  <2> HIDE DEF rank
  <2>3. rank \in Injection(S, 1 .. n)
    BY <1>5, <2>1 DEF Injection, IsInjective
  <2> QED
    BY <2>2, <2>3, FS_Injection
<1>7. ASSUME NEW i \in 1 .. n PROVE s[i] \in S /\ rank[s[i]] = i
  <2>1. \E p \in S : Cardinality(UpTo(S, key, p)) = i
    BY <1>6 DEF Surjection
  <2>2. s[i] \in S /\ Cardinality(UpTo(S, key, s[i])) = i
    BY <2>1
  <2> QED
    BY <2>2
<1>8. ASSUME NEW i \in 1 .. n, NEW j \in 1 .. n, i < j PROVE key[s[i]] < key[s[j]]
  <2> DEFINE a == s[i]
             b == s[j]
  <2>1. a \in S /\ b \in S /\ rank[a] = i /\ rank[b] = j
    BY <1>7
  <2> HIDE DEF a, b, rank
  <2>2. key[a] \in Int /\ key[b] \in Int
    BY <1>1, <2>1
  <2>3. ~(key[b] < key[a]) /\ a # b
    BY <1>1, <1>3, <1>8, <2>1
  <2>4. key[a] # key[b]
    BY <2>1, <2>3
  <2> QED
    BY <2>2, <2>3, <2>4 DEF a, b
<1>9. ASSUME NEW p \in S PROVE \E i \in 1 .. n : s[i] = p
  <2> DEFINE i == rank[p]
             q == s[i]
  <2>1. i \in 1 .. n
    BY <1>4
  <2> HIDE DEF i
  <2>2. q \in S /\ rank[q] = i
    BY <1>7, <2>1
  <2> HIDE DEF q, rank
  <2>3. q = p
    BY <1>5, <2>2 DEF i
  <2> QED
    BY <2>1, <2>3 DEF q
<1> QED
  BY <1>1, <1>7, <1>8, <1>9

(* Counting up to N: what holds of 0 and of the successor of each number it *)
(* holds of.                                                                *)
LEMMA CountingUp ==
    ASSUME NEW N \in Nat, NEW S, 0 \in S, \A n \in 0 .. N - 1 : n \in S => n + 1 \in S
    PROVE  \A n \in 0 .. N : n \in S
<1> DEFINE T == {n \in 0 .. N : n \notin S}
<1> SUFFICES ASSUME T # {} PROVE FALSE
  OBVIOUS
<1>1. T \subseteq Nat
  OBVIOUS
<1>2. Min(T) \in T /\ \A n \in T : Min(T) <= n
  <2> HIDE DEF T
  <2> QED
    BY <1>1, MinOfNaturals
<1> DEFINE m == Min(T)
<1>3. m \in 0 .. N /\ m \notin S /\ m # 0
  BY <1>2
<1> HIDE DEF m
<1>4. m - 1 \in 0 .. N - 1 /\ m - 1 + 1 = m
  BY <1>3
<1>5. m - 1 \notin S
  BY <1>3, <1>4
<1>6. m - 1 \in T
  BY <1>4, <1>5
<1> QED
  BY <1>2, <1>3, <1>6 DEF m

(* Loops of N rounds, each of which maps a value to the next, and the       *)
(* values after each round.                                                 *)
Loops(V, N) == [1 .. N -> [V -> V]]

ValuesOf(V, N, v, step) ==
    {f \in [0 .. N -> V] : f[0] = v /\ \A k \in 1 .. N : f[k] = step[k][f[k - 1]]}

(* A loop has values for all of its rounds.                                 *)
LEMMA LoopHasValues ==
    ASSUME NEW V, NEW N \in Nat, NEW v \in V, NEW step \in Loops(V, N)
    PROVE  \E f : f \in ValuesOf(V, N, v, step)
<1>0. step \in [1 .. N -> [V -> V]]
  BY DEF Loops
<1> DEFINE Run(f, n) == f[0] = v /\ \A k \in 1 .. n : f[k] = step[k][f[k - 1]]
           S == {n \in 0 .. N : \E f \in [0 .. n -> V] : Run(f, n)}
<1>1. 0 \in S
  <2> DEFINE f == [k \in 0 .. 0 |-> v]
  <2>1. f \in [0 .. 0 -> V] /\ f[0] = v /\ 1 .. 0 = {}
    OBVIOUS
  <2>2. Run(f, 0)
    BY <2>1
  <2> HIDE DEF f, Run
  <2> QED
    BY <2>1, <2>2
<1>2. ASSUME NEW n \in 0 .. N - 1, n \in S PROVE n + 1 \in S
  <2>1. PICK f \in [0 .. n -> V] : Run(f, n)
    BY <1>2
  <2>2. n + 1 \in 1 .. N /\ n \in 0 .. n
    OBVIOUS
  <2> DEFINE w == step[n + 1][f[n]]
             g == [k \in 0 .. n + 1 |-> IF k = n + 1 THEN w ELSE f[k]]
  <2>3. w \in V
    BY <1>0, <2>1, <2>2
  <2> HIDE DEF w
  <2>4. g \in [0 .. n + 1 -> V]
    BY <2>1, <2>3
  <2>5. \A k \in 0 .. n : g[k] = f[k]
    OBVIOUS
  <2>6. g[n + 1] = w
    OBVIOUS
  <2> HIDE DEF g
  <2>7. g[0] = v
    BY <2>1, <2>5
  <2>8. ASSUME NEW k \in 1 .. n + 1 PROVE g[k] = step[k][g[k - 1]]
    <3>1. CASE k = n + 1
      BY <2>2, <2>5, <2>6, <3>1 DEF w
    <3>2. CASE k # n + 1
      <4>1. k \in 1 .. n /\ k \in 0 .. n /\ k - 1 \in 0 .. n
        BY <3>2
      <4> QED
        BY <2>1, <2>5, <4>1
    <3> QED
      BY <3>1, <3>2
  <2> QED
    BY <2>2, <2>4, <2>7, <2>8
<1>3. \A n \in 0 .. N : n \in S
  <2> HIDE DEF S
  <2> QED
    BY <1>1, <1>2, CountingUp
<1>4. N \in S
  BY <1>3
<1>5. PICK f \in [0 .. N -> V] : Run(f, N)
  BY <1>4
<1> QED
  BY <1>5 DEF ValuesOf

(* A loop from v on, if it begins with a value                              *)
Follows(V, N, step, g) == \A k \in 1 .. N : g[k - 1] \in V => g[k] = step[k][g[k - 1]]

(* Only one round does something.                                           *)
ActsOnceAt(V, N, step, j) ==
    j \in 1 .. N /\ \A k \in 1 .. N : k # j => \A p \in V : step[k][p] = p

(* These values are the only ones.                                          *)
LEMMA LoopValuesAreUnique ==
    ASSUME NEW V, NEW N \in Nat, NEW v, NEW step, NEW f \in ValuesOf(V, N, v, step),
           NEW g, g[0] = v, Follows(V, N, step, g)
    PROVE  \A n \in 0 .. N : g[n] = f[n]
<1> DEFINE S == {n \in 0 .. N : g[n] = f[n]}
<1>0. f \in [0 .. N -> V] /\ f[0] = v /\ \A k \in 1 .. N : f[k] = step[k][f[k - 1]]
  BY DEF ValuesOf
<1>1. 0 \in S
  BY <1>0
<1>2. ASSUME NEW n \in 0 .. N - 1, n \in S PROVE n + 1 \in S
  <2>1. n \in 0 .. N /\ n + 1 \in 1 .. N /\ n + 1 \in 0 .. N /\ (n + 1) - 1 = n
    OBVIOUS
  <2>2. g[n] = f[n] /\ f[n] \in V
    BY <1>0, <1>2, <2>1
  <2>3. g[n + 1] = step[n + 1][g[n]] /\ f[n + 1] = step[n + 1][f[n]]
    BY <1>0, <2>1, <2>2 DEF Follows
  <2> QED
    BY <2>1, <2>2, <2>3
<1>3. \A n \in 0 .. N : n \in S
  <2> HIDE DEF S
  <2> QED
    BY <1>1, <1>2, CountingUp
<1> QED
  BY <1>3

(* A loop that does something in one of its rounds only.                    *)
LEMMA LoopActsOnce ==
    ASSUME NEW V, NEW N \in Nat, NEW v, NEW step, NEW f \in ValuesOf(V, N, v, step),
           NEW j, ActsOnceAt(V, N, step, j)
    PROVE  f[N] = step[j][v]
<1> DEFINE w == step[j][v]
           S == {n \in 0 .. N : f[n] = IF n < j THEN v ELSE w}
<1>0. /\ f \in [0 .. N -> V] /\ f[0] = v /\ \A k \in 1 .. N : f[k] = step[k][f[k - 1]]
      /\ j \in 1 .. N /\ \A k \in 1 .. N : k # j => \A p \in V : step[k][p] = p
  BY DEF ValuesOf, ActsOnceAt
<1>1. 0 \in S
  BY <1>0
<1>2. ASSUME NEW n \in 0 .. N - 1, n \in S PROVE n + 1 \in S
  <2>1. n \in 0 .. N /\ n + 1 \in 1 .. N /\ n + 1 \in 0 .. N /\ (n + 1) - 1 = n
    OBVIOUS
  <2>2. f[n + 1] = step[n + 1][f[n]] /\ f[n] \in V /\ f[n] = IF n < j THEN v ELSE w
    BY <1>0, <1>2, <2>1
  <2>3. CASE n + 1 = j
    <3>1. f[n] = v
      BY <1>0, <2>1, <2>2, <2>3
    <3>2. f[n + 1] = w
      BY <2>2, <2>3, <3>1
    <3> QED
      BY <2>1, <2>3, <3>2
  <2>4. CASE n + 1 # j
    <3>1. f[n + 1] = f[n]
      BY <1>0, <2>1, <2>2, <2>4
    <3>2. n + 1 < j <=> n < j
      BY <1>0, <2>1, <2>4
    <3> HIDE DEF w
    <3> QED
      BY <2>1, <2>2, <3>1, <3>2
  <2> QED
    BY <2>3, <2>4
<1>3. \A n \in 0 .. N : n \in S
  <2> HIDE DEF S
  <2> QED
    BY <1>1, <1>2, CountingUp
<1>4. N \in S /\ ~(N < j)
  BY <1>0, <1>3
<1> QED
  BY <1>4
=============================================================================
