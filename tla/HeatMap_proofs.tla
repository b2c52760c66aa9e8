--------------------------- MODULE HeatMap_proofs ---------------------------
(***************************************************************************)
(* Proofs about HeatMap: what the queries behind the UI answer.             *)
(***************************************************************************)
EXTENDS HeatMap, NumberLemmas, FunctionTheorems

-----------------------------------------------------------------------------
(* Overlays                                                                 *)

OverlayType == [minute : Nat, start : Nat, end : Nat, duration : Nat]

(* start, end and duration agree                                            *)
Overlay == {o \in OverlayType : o.start + o.duration = o.end}

(* Moving its start keeps an overlay consistent: it begins with its row, or *)
(* where it ends.                                                           *)
LEMMA MoveStartFacts ==
    ASSUME NEW o \in Overlay, NEW row, row.start \in Nat, NEW r, r = MoveStart(o, row)
    PROVE  /\ r \in Overlay /\ r.minute = o.minute /\ r.end = o.end
           /\ r.start = IF row.start > o.start /\ row.start < o.start + MaxAdjust
                          THEN IF o.end <= row.start THEN o.end ELSE row.start
                          ELSE o.start
<1> DEFINE early == row.start - o.start
           left  == o.duration - early
<1>1. /\ o \in OverlayType /\ o.start + o.duration = o.end
      /\ o.start \in Nat /\ o.end \in Nat /\ o.duration \in Nat /\ MaxAdjust \in Nat
  BY HeatMapAssumption DEF Overlay, OverlayType
<1>2. /\ early > 0 <=> row.start > o.start
      /\ early < MaxAdjust <=> row.start < o.start + MaxAdjust
      /\ left <= 0 <=> o.end <= row.start
      /\ row.start + left = o.end /\ left \in Int
  BY <1>1
<1>3. r = IF early > 0 /\ early < MaxAdjust
            THEN IF left <= 0 THEN [o EXCEPT !.start = o.end, !.duration = 0]
                              ELSE [o EXCEPT !.start = row.start, !.duration = left]
            ELSE o
  BY DEF MoveStart
<1> HIDE DEF early, left
<1>4. CASE early > 0 /\ early < MaxAdjust /\ left <= 0
  <2> DEFINE e == o.end
             z == 0
  <2>1. r = [o EXCEPT !.start = e, !.duration = z] /\ e \in Nat /\ z \in Nat
    BY <1>1, <1>3, <1>4
  <2> HIDE DEF e, z
  <2>2. /\ r \in OverlayType /\ r.minute = o.minute
        /\ r.start = e /\ r.end = o.end /\ r.duration = z
    BY <1>1, <2>1 DEF OverlayType
  <2>3. r.start + r.duration = r.end
    BY <1>1, <2>2 DEF e, z
  <2>4. r \in Overlay
    BY <2>2, <2>3 DEF Overlay
  <2> QED
    BY <1>2, <1>4, <2>2, <2>4 DEF e, z
<1>5. CASE early > 0 /\ early < MaxAdjust /\ ~(left <= 0)
  <2>1. r = [o EXCEPT !.start = row.start, !.duration = left] /\ left \in Nat
    BY <1>2, <1>3, <1>5
  <2>2. /\ r \in OverlayType /\ r.minute = o.minute
        /\ r.start = row.start /\ r.end = o.end /\ r.duration = left
    BY <1>1, <2>1 DEF OverlayType
  <2>3. r.start + r.duration = r.end
    BY <1>2, <2>2
  <2>4. r \in Overlay
    BY <2>2, <2>3 DEF Overlay
  <2> QED
    BY <1>2, <1>5, <2>2, <2>4
<1>6. CASE ~(early > 0 /\ early < MaxAdjust)
  BY <1>1, <1>2, <1>3, <1>6 DEF Overlay
<1> QED
  BY <1>4, <1>5, <1>6

(* Moving its end keeps an overlay consistent: it ends with its row, or     *)
(* where it begins.                                                         *)
LEMMA MoveEndFacts ==
    ASSUME NEW o \in Overlay, NEW row, row.end \in Nat, NEW r, r = MoveEnd(o, row)
    PROVE  /\ r \in Overlay /\ r.minute = o.minute /\ r.start = o.start
           /\ r.end = IF o.end > row.end /\ o.end < row.end + MaxAdjust
                        THEN IF row.end <= o.start THEN o.start ELSE row.end
                        ELSE o.end
<1> DEFINE over == o.end - row.end
           left == o.duration - over
<1>1. /\ o \in OverlayType /\ o.start + o.duration = o.end
      /\ o.start \in Nat /\ o.end \in Nat /\ o.duration \in Nat /\ MaxAdjust \in Nat
  BY HeatMapAssumption DEF Overlay, OverlayType
<1>2. /\ over > 0 <=> o.end > row.end
      /\ over < MaxAdjust <=> o.end < row.end + MaxAdjust
      /\ left <= 0 <=> row.end <= o.start
      /\ o.start + left = row.end /\ left \in Int
  BY <1>1
<1>3. r = IF over > 0 /\ over < MaxAdjust
            THEN IF left <= 0 THEN [o EXCEPT !.end = o.start, !.duration = 0]
                              ELSE [o EXCEPT !.end = row.end, !.duration = left]
            ELSE o
  BY DEF MoveEnd
<1> HIDE DEF over, left
<1>4. CASE over > 0 /\ over < MaxAdjust /\ left <= 0
  <2> DEFINE b == o.start
             z == 0
  <2>1. r = [o EXCEPT !.end = b, !.duration = z] /\ b \in Nat /\ z \in Nat
    BY <1>1, <1>3, <1>4
  <2> HIDE DEF b, z
  <2>2. /\ r \in OverlayType /\ r.minute = o.minute
        /\ r.start = o.start /\ r.end = b /\ r.duration = z
    BY <1>1, <2>1 DEF OverlayType
  <2>3. r.start + r.duration = r.end
    BY <1>1, <2>2 DEF b, z
  <2>4. r \in Overlay
    BY <2>2, <2>3 DEF Overlay
  <2> QED
    BY <1>2, <1>4, <2>2, <2>4 DEF b, z
<1>5. CASE over > 0 /\ over < MaxAdjust /\ ~(left <= 0)
  <2>1. r = [o EXCEPT !.end = row.end, !.duration = left] /\ left \in Nat
    BY <1>2, <1>3, <1>5
  <2>2. /\ r \in OverlayType /\ r.minute = o.minute
        /\ r.start = o.start /\ r.end = row.end /\ r.duration = left
    BY <1>1, <2>1 DEF OverlayType
  <2>3. r.start + r.duration = r.end
    BY <1>2, <2>2
  <2>4. r \in Overlay
    BY <2>2, <2>3 DEF Overlay
  <2> QED
    BY <1>2, <1>5, <2>2, <2>4
<1>6. CASE ~(over > 0 /\ over < MaxAdjust)
  BY <1>1, <1>2, <1>3, <1>6 DEF Overlay
<1> QED
  BY <1>4, <1>5, <1>6

(* The overlay o of a minute meets its row ...                              *)
Meets(m, row, o) ==
    /\ m \in Nat /\ row.start \in Nat /\ row.end \in Nat /\ row.start <= row.end
    /\ m <= row.end /\ m + MinuteLen >= row.start
    /\ o \in Overlay /\ o.start = m /\ o.end = m + MinuteLen

(* ... and fits into it.                                                    *)
Fits(m, row, o) ==
    o.start = Max({m, row.start}) /\ o.end = Min({m + MinuteLen, row.end})

(* An overlay whose minute meets its row ends up as what they have in       *)
(* common.                                                                  *)
LEMMA MoveFits ==
    ASSUME NEW m, NEW row, NEW o, Meets(m, row, o)
    PROVE  Fits(m, row, MoveEnd(MoveStart(o, row), row))
<1> DEFINE s == MoveStart(o, row)
           moved == MoveEnd(s, row)
<1>1. /\ m \in Nat /\ row.start \in Nat /\ row.end \in Nat /\ row.start <= row.end
      /\ m <= row.end /\ m + MinuteLen >= row.start
      /\ o \in Overlay /\ o.start = m /\ o.end = m + MinuteLen
  BY DEF Meets
<1>2. MinuteLen \in Nat \ {0} /\ MaxAdjust \in Nat /\ MinuteLen < MaxAdjust
  BY HeatMapAssumption
<1>3. /\ Max({m, row.start}) = IF m >= row.start THEN m ELSE row.start
      /\ Min({m + MinuteLen, row.end}) = IF m + MinuteLen <= row.end THEN m + MinuteLen ELSE row.end
  BY <1>1, <1>2, MaxOfTwo, MinOfTwo
<1>4. s \in Overlay /\ s.end = o.end
      /\ s.start = IF row.start > o.start /\ row.start < o.start + MaxAdjust
                     THEN IF o.end <= row.start THEN o.end ELSE row.start
                     ELSE o.start
  BY <1>1, MoveStartFacts
<1> HIDE DEF s, moved
<1>5. moved.start = s.start
      /\ moved.end = IF s.end > row.end /\ s.end < row.end + MaxAdjust
                       THEN IF row.end <= s.start THEN s.start ELSE row.end
                       ELSE s.end
  <2>1. moved = MoveEnd(s, row)
    BY DEF moved
  <2> QED
    BY <1>1, <1>4, <2>1, MoveEndFacts
<1>6. s.start = IF m >= row.start THEN m ELSE row.start
  BY <1>1, <1>2, <1>4
<1>7. moved.end = IF m + MinuteLen <= row.end THEN m + MinuteLen ELSE row.end
  BY <1>1, <1>2, <1>4, <1>5, <1>6
<1> QED
  BY <1>3, <1>5, <1>6, <1>7 DEF Fits, moved, s

-----------------------------------------------------------------------------
(* The loops over the rows                                                  *)

(* An order visits each row once.                                           *)
LEMMA OrderFacts ==
    ASSUME NEW S, IsFiniteSet(S), NEW order \in SetToSeqs(S)
    PROVE  /\ Len(order) \in Nat /\ order \in [1 .. Len(order) -> S]
           /\ \A i, j \in 1 .. Len(order) : i # j => order[i] # order[j]
           /\ \A x \in S : \E i \in 1 .. Len(order) : order[i] = x
<1> DEFINE n == Cardinality(S)
<1>1. n \in Nat /\ IsFiniteSet(1 .. n) /\ Cardinality(1 .. n) = n
  BY FS_CardinalityType, FS_Interval
<1>2. order \in [1 .. n -> S] /\ \A i, j \in 1 .. n : i # j => order[i] # order[j]
  BY DEF SetToSeqs
<1> HIDE DEF n
<1>3. order \in Seq(S) /\ Len(order) = n
  BY <1>1, <1>2
<1>4. order \in Injection(1 .. n, S)
  BY <1>2 DEF Injection, IsInjective
<1>5. order \in Surjection(1 .. n, S)
  BY <1>1, <1>4, FS_Injection DEF n
<1> QED
  BY <1>1, <1>2, <1>3, <1>5 DEF Surjection

(* The first loop keeps overlays consistent, and each with its minute.  If  *)
(* only one row has the key, only that one moves them.                      *)
LEMMA StartsFacts ==
    ASSUME NEW gantt, IsFiniteSet(DOMAIN gantt),
           \A s \in DOMAIN gantt : gantt[s].start \in Nat,
           NEW order \in SetToSeqs(DOMAIN gantt), NEW key, NEW o \in Overlay,
           NEW moved, moved = MoveStarts(o, key, gantt, order)
    PROVE  /\ moved \in Overlay /\ moved.minute = o.minute
           /\ \A r \in DOMAIN gantt :
                /\ OverlayKey(r) = key
                /\ \A s \in DOMAIN gantt : OverlayKey(s) = key => s = r
                => moved = MoveStart(o, gantt[r])
<1> DEFINE N == Len(order)
           V == {p \in Overlay : p.minute = o.minute}
           hit(n) == OverlayKey(order[n]) = key
           step == [n \in 1 .. N |->
                      [p \in V |-> IF hit(n) THEN MoveStart(p, gantt[order[n]]) ELSE p]]
           Rec(g) == g = [n \in 0 .. N |->
                            IF n = 0 THEN o
                            ELSE IF hit(n) THEN MoveStart(g[n - 1], gantt[order[n]])
                            ELSE g[n - 1]]
           F == CHOOSE g : Rec(g)
<1>1. /\ N \in Nat /\ \A n \in 1 .. N : order[n] \in DOMAIN gantt
      /\ \A i, j \in 1 .. N : i # j => order[i] # order[j]
      /\ \A r \in DOMAIN gantt : \E i \in 1 .. N : order[i] = r
  BY OrderFacts
<1>2. moved = F[N]
  BY DEF MoveStarts
<1> HIDE DEF N
<1>3. \A n \in 1 .. N : \A p \in V :
        step[n][p] = IF hit(n) THEN MoveStart(p, gantt[order[n]]) ELSE p
  OBVIOUS
<1>4. step \in Loops(V, N)
  <2>1. ASSUME NEW n \in 1 .. N, NEW p \in V PROVE MoveStart(p, gantt[order[n]]) \in V
    <3>1. p \in Overlay /\ p.minute = o.minute /\ gantt[order[n]].start \in Nat
      BY <1>1, <2>1
    <3> QED
      BY <3>1, MoveStartFacts
  <2> QED
    BY <2>1 DEF Loops
<1>5. o \in V
  OBVIOUS
<1> HIDE DEF V, step
<1>6. PICK f : f \in ValuesOf(V, N, o, step)
  BY <1>1, <1>4, <1>5, LoopHasValues
<1>7. f \in [0 .. N -> V] /\ f[0] = o /\ \A k \in 1 .. N : f[k] = step[k][f[k - 1]]
  BY <1>6 DEF ValuesOf
<1>8. Rec(f)
  <2>1. ASSUME NEW n \in 0 .. N, n # 0
        PROVE  f[n] = IF hit(n) THEN MoveStart(f[n - 1], gantt[order[n]]) ELSE f[n - 1]
    <3>1. n \in 1 .. N /\ n - 1 \in 0 .. N
      BY <1>1, <2>1
    <3>2. f[n - 1] \in V
      BY <1>7, <3>1
    <3>3. f[n] = step[n][f[n - 1]]
      BY <1>7, <3>1
    <3> QED
      BY <1>3, <3>1, <3>2, <3>3
  <2> DEFINE G == [n \in 0 .. N |->
                     IF n = 0 THEN o
                     ELSE IF hit(n) THEN MoveStart(f[n - 1], gantt[order[n]])
                     ELSE f[n - 1]]
  <2>2. \A n \in 0 .. N : f[n] = G[n]
    BY <1>7, <2>1
  <2>3. DOMAIN f = 0 .. N /\ DOMAIN G = 0 .. N /\ f = [n \in 0 .. N |-> f[n]]
    BY <1>7
  <2>4. f = G
    BY <2>2, <2>3
  <2> QED
    BY <2>4
<1>9. Rec(F)
  BY <1>8
<1>10. F[0] = o /\ \A n \in 1 .. N :
        F[n] = IF hit(n) THEN MoveStart(F[n - 1], gantt[order[n]]) ELSE F[n - 1]
  <2>1. 0 \in 0 .. N /\ \A n \in 1 .. N : n \in 0 .. N /\ n # 0
    BY <1>1
  <2> HIDE DEF F
  <2> QED
    BY <1>9, <2>1
<1> HIDE DEF F
<1>11. \A n \in 0 .. N : F[n] = f[n]
  <2>1. Follows(V, N, step, F)
    BY <1>3, <1>10 DEF Follows
  <2> QED
    BY <1>1, <1>6, <1>10, <2>1, LoopValuesAreUnique
<1>12. moved = f[N] /\ f[N] \in V
  BY <1>1, <1>2, <1>7, <1>11
<1>13. ASSUME NEW r \in DOMAIN gantt, OverlayKey(r) = key,
              \A s \in DOMAIN gantt : OverlayKey(s) = key => s = r
       PROVE  moved = MoveStart(o, gantt[r])
  <2>1. PICK j \in 1 .. N : order[j] = r
    BY <1>1
  <2>2. \A k \in 1 .. N : k # j => ~hit(k)
    BY <1>1, <1>13, <2>1
  <2>3. ActsOnceAt(V, N, step, j)
    BY <1>3, <2>1, <2>2 DEF ActsOnceAt
  <2>4. f[N] = step[j][o]
    BY <1>1, <1>6, <2>3, LoopActsOnce
  <2>5. step[j][o] = MoveStart(o, gantt[r])
    BY <1>3, <1>5, <1>13, <2>1
  <2> QED
    BY <1>12, <2>4, <2>5
<1> QED
  BY <1>12, <1>13 DEF V

(* So does the second loop.                                                 *)
LEMMA EndsFacts ==
    ASSUME NEW gantt, IsFiniteSet(DOMAIN gantt),
           \A s \in DOMAIN gantt : gantt[s].end \in Nat,
           NEW order \in SetToSeqs(DOMAIN gantt), NEW key, NEW o \in Overlay,
           NEW moved, moved = MoveEnds(o, key, gantt, order)
    PROVE  /\ moved \in Overlay /\ moved.minute = o.minute
           /\ \A r \in DOMAIN gantt :
                /\ OverlayKey(r) = key
                /\ \A s \in DOMAIN gantt : OverlayKey(s) = key => s = r
                => moved = MoveEnd(o, gantt[r])
<1> DEFINE N == Len(order)
           V == {p \in Overlay : p.minute = o.minute}
           hit(n) == OverlayKey(order[n]) = key
           step == [n \in 1 .. N |->
                      [p \in V |-> IF hit(n) THEN MoveEnd(p, gantt[order[n]]) ELSE p]]
           Rec(g) == g = [n \in 0 .. N |->
                            IF n = 0 THEN o
                            ELSE IF hit(n) THEN MoveEnd(g[n - 1], gantt[order[n]])
                            ELSE g[n - 1]]
           F == CHOOSE g : Rec(g)
<1>1. /\ N \in Nat /\ \A n \in 1 .. N : order[n] \in DOMAIN gantt
      /\ \A i, j \in 1 .. N : i # j => order[i] # order[j]
      /\ \A r \in DOMAIN gantt : \E i \in 1 .. N : order[i] = r
  BY OrderFacts
<1>2. moved = F[N]
  BY DEF MoveEnds
<1> HIDE DEF N
<1>3. \A n \in 1 .. N : \A p \in V :
        step[n][p] = IF hit(n) THEN MoveEnd(p, gantt[order[n]]) ELSE p
  OBVIOUS
<1>4. step \in Loops(V, N)
  <2>1. ASSUME NEW n \in 1 .. N, NEW p \in V PROVE MoveEnd(p, gantt[order[n]]) \in V
    <3>1. p \in Overlay /\ p.minute = o.minute /\ gantt[order[n]].end \in Nat
      BY <1>1, <2>1
    <3> QED
      BY <3>1, MoveEndFacts
  <2> QED
    BY <2>1 DEF Loops
<1>5. o \in V
  OBVIOUS
<1> HIDE DEF V, step
<1>6. PICK f : f \in ValuesOf(V, N, o, step)
  BY <1>1, <1>4, <1>5, LoopHasValues
<1>7. f \in [0 .. N -> V] /\ f[0] = o /\ \A k \in 1 .. N : f[k] = step[k][f[k - 1]]
  BY <1>6 DEF ValuesOf
<1>8. Rec(f)
  <2>1. ASSUME NEW n \in 0 .. N, n # 0
        PROVE  f[n] = IF hit(n) THEN MoveEnd(f[n - 1], gantt[order[n]]) ELSE f[n - 1]
    <3>1. n \in 1 .. N /\ n - 1 \in 0 .. N
      BY <1>1, <2>1
    <3>2. f[n - 1] \in V
      BY <1>7, <3>1
    <3>3. f[n] = step[n][f[n - 1]]
      BY <1>7, <3>1
    <3> QED
      BY <1>3, <3>1, <3>2, <3>3
  <2> DEFINE G == [n \in 0 .. N |->
                     IF n = 0 THEN o
                     ELSE IF hit(n) THEN MoveEnd(f[n - 1], gantt[order[n]])
                     ELSE f[n - 1]]
  <2>2. \A n \in 0 .. N : f[n] = G[n]
    BY <1>7, <2>1
  <2>3. DOMAIN f = 0 .. N /\ DOMAIN G = 0 .. N /\ f = [n \in 0 .. N |-> f[n]]
    BY <1>7
  <2>4. f = G
    BY <2>2, <2>3
  <2> QED
    BY <2>4
<1>9. Rec(F)
  BY <1>8
<1>10. F[0] = o /\ \A n \in 1 .. N :
        F[n] = IF hit(n) THEN MoveEnd(F[n - 1], gantt[order[n]]) ELSE F[n - 1]
  <2>1. 0 \in 0 .. N /\ \A n \in 1 .. N : n \in 0 .. N /\ n # 0
    BY <1>1
  <2> HIDE DEF F
  <2> QED
    BY <1>9, <2>1
<1> HIDE DEF F
<1>11. \A n \in 0 .. N : F[n] = f[n]
  <2>1. Follows(V, N, step, F)
    BY <1>3, <1>10 DEF Follows
  <2> QED
    BY <1>1, <1>6, <1>10, <2>1, LoopValuesAreUnique
<1>12. moved = f[N] /\ f[N] \in V
  BY <1>1, <1>2, <1>7, <1>11
<1>13. ASSUME NEW r \in DOMAIN gantt, OverlayKey(r) = key,
              \A s \in DOMAIN gantt : OverlayKey(s) = key => s = r
       PROVE  moved = MoveEnd(o, gantt[r])
  <2>1. PICK j \in 1 .. N : order[j] = r
    BY <1>1
  <2>2. \A k \in 1 .. N : k # j => ~hit(k)
    BY <1>1, <1>13, <2>1
  <2>3. ActsOnceAt(V, N, step, j)
    BY <1>3, <2>1, <2>2 DEF ActsOnceAt
  <2>4. f[N] = step[j][o]
    BY <1>1, <1>6, <2>3, LoopActsOnce
  <2>5. step[j][o] = MoveEnd(o, gantt[r])
    BY <1>3, <1>5, <1>13, <2>1
  <2> QED
    BY <1>12, <2>4, <2>5
<1> QED
  BY <1>12, <1>13 DEF V

-----------------------------------------------------------------------------
(* What a request selects                                                   *)

(* keepRowHelper keeps what was asked for.                                  *)
LEMMA KeepsWhatIsWanted ==
    ASSUME NEW r
    PROVE  KeepRowHelper(r, sel) <=> Wanted(r)
<1>1. All # "Node"
  BY HeatMapAssumption
<1>2. CASE sel.kind = All
  BY <1>1, <1>2 DEF KeepRowHelper, Wanted
<1>3. CASE sel.kind # All
  BY <1>1, <1>3 DEF KeepRowHelper, Wanted
<1> QED
  BY <1>2, <1>3

(* The names, kinds and uids a resource is known by.                        *)
LEMMA ResourceFacts ==
    ASSUME TypeOK, NEW r \in Resources
    PROVE  /\ DOMAIN r = {"kind", "namespace", "name", "uid"}
           /\ r.kind \in {"Node", "Namespace"} => r.namespace = ""
           /\ created[r] \in Times \cup {Never}
  BY HeatMapAssumption DEF TypeOK, Resources

(* The key of the event counts of a resource, and its overlays' key, differ *)
(* from the resource in the uid at most.                                    *)
LEMMA KeyFacts ==
    ASSUME NEW r, DOMAIN r = {"kind", "namespace", "name", "uid"}
    PROVE  /\ InvolvedObject(r) = OverlayKey(r)
           /\ InvolvedObject(r).kind = r.kind /\ InvolvedObject(r).namespace = r.namespace
           /\ InvolvedObject(r).name = r.name
  BY DEF InvolvedObject, OverlayKey

(* The filter of the event counts lets pass those of what is selected.      *)
LEMMA CountsArePassed ==
    ASSUME NEW r, DOMAIN r = {"kind", "namespace", "name", "uid"}, KeepRowHelper(r, sel),
           DOMAIN sel = {"kind", "namespace", "match", "name", "uid", "dotted"},
           NEW c, c.key = InvolvedObject(r)
    PROVE  ParamEventCountSum(c)
<1> DEFINE k == c.key
           s == [sel EXCEPT !.name = All, !.uid = All]
<1>1. k.kind = r.kind /\ k.namespace = r.namespace /\ k.name = r.name
  BY KeyFacts
<1>2. /\ s.kind = sel.kind /\ s.namespace = sel.namespace /\ s.match = sel.match
      /\ s.name = All /\ s.uid = All
  OBVIOUS
<1> HIDE DEF k, s
<1>3. KeepRowHelper(k, s)
  BY <1>1, <1>2 DEF KeepRowHelper
<1> QED
  BY <1>3 DEF ParamEventCountSum, k, s

-----------------------------------------------------------------------------
(* Rows                                                                     *)

Lived(v) == v.create <= range.end /\ v.last >= range.start

(* a summary clipped to the range, and extended to its end                  *)
Cut(v) ==
    AdjustLastSeenTime([v EXCEPT !.create = Max({@, range.start}), !.last = Min({@, range.end})])

(* when the resource of a summary was last seen, as far as a row shows it   *)
SeenTo(v) ==
    IF ~v.deleted /\ Min({v.last, range.end}) + Resync >= range.end
      THEN range.end ELSE Min({v.last, range.end})

RangeOK == range.start \in Nat /\ range.end \in Nat /\ range.start < range.end

(* Clipping keeps the resource, and moves the two times.                    *)
LEMMA CutFacts ==
    ASSUME RangeOK, NEW v \in Summaries, NEW w, w = Cut(v)
    PROVE  w.res = v.res /\ w.create = Max({v.create, range.start}) /\ w.last = SeenTo(v)
<1> DEFINE a == Max({v.create, range.start})
           b == Min({v.last, range.end})
           u == [v EXCEPT !.create = a, !.last = b]
<1>1. DOMAIN v = {"res", "part", "create", "first", "last", "deleted"}
  BY DEF Summaries
<1>2. u.res = v.res /\ u.create = a /\ u.last = b /\ u.deleted = v.deleted /\ DOMAIN u = DOMAIN v
  BY <1>1
<1>3. w = AdjustLastSeenTime(u)
  BY DEF Cut
<1>4. SeenTo(v) = IF ~v.deleted /\ b + Resync >= range.end THEN range.end ELSE b
  BY DEF SeenTo
<1> HIDE DEF u, a, b
<1>5. CASE ~v.deleted /\ b + Resync >= range.end
  <2>1. w = [u EXCEPT !.last = range.end]
    BY <1>2, <1>3, <1>5 DEF AdjustLastSeenTime
  <2>2. w.res = u.res /\ w.create = u.create /\ w.last = range.end
    BY <1>1, <1>2, <2>1
  <2> QED
    BY <1>2, <1>4, <1>5, <2>2 DEF a
<1>6. CASE ~(~v.deleted /\ b + Resync >= range.end)
  <2>1. w = u
    BY <1>2, <1>3, <1>6 DEF AdjustLastSeenTime
  <2> QED
    BY <1>2, <1>4, <1>6, <2>1 DEF a
<1> QED
  BY <1>5, <1>6

(* The fields of a summary.                                                 *)
LEMMA SummaryFacts ==
    ASSUME NEW v \in Summaries
    PROVE  /\ v.res \in Resources /\ v.part \in Nat /\ v.deleted \in BOOLEAN
           /\ v.create \in Nat /\ v.first \in Nat /\ v.last \in Nat
<1>1. v.res \in Resources /\ v.create \in Times /\ v.first \in Times /\ v.last \in Times
  BY DEF Summaries
<1>2. MaxTime \in Nat
  BY HeatMapAssumption
<1>3. v.part \in Nat
  BY DEF Summaries
<1>4. v.deleted \in BOOLEAN
  BY Zenon DEF Summaries
<1> QED
  BY <1>1, <1>2, <1>3, <1>4 DEF Times

(* A summary in the range is cut to a time within it.                       *)
LEMMA SeenWithinRange ==
    ASSUME RangeOK, NEW v \in Summaries, v.create <= v.last, Lived(v)
    PROVE  /\ Max({v.create, range.start}) \in Nat /\ SeenTo(v) \in Nat
           /\ Max({v.create, range.start}) <= SeenTo(v) /\ SeenTo(v) <= range.end
           /\ SeenTo(v) = LastsTo(v)
<1> DEFINE e == range.end
           b == range.start
           a == Max({v.create, b})
           l == Min({v.last, e})
<1>1. /\ v.create \in Nat /\ v.last \in Nat /\ Resync \in Nat
      /\ e \in Nat /\ b \in Nat /\ b < e /\ v.create <= e /\ v.last >= b
  BY HeatMapAssumption, SummaryFacts DEF RangeOK, Lived
<1>2. SeenTo(v) = IF ~v.deleted /\ l + Resync >= e THEN e ELSE l
  BY DEF SeenTo
<1> HIDE DEF e, b
<1>3. a = (IF v.create >= b THEN v.create ELSE b) /\ l = (IF v.last <= e THEN v.last ELSE e)
  BY <1>1, MaxOfTwo, MinOfTwo
<1> HIDE DEF a, l
<1>4. a \in Nat /\ SeenTo(v) \in Nat /\ a <= SeenTo(v) /\ SeenTo(v) <= e
  BY <1>1, <1>2, <1>3
<1>5. SeenTo(v) = IF ~v.deleted /\ v.last + Resync >= e THEN e ELSE l
  BY <1>1, <1>2, <1>3
<1> QED
  BY <1>4, <1>5 DEF LastsTo, a, l, e, b

(* The rows of the heat map: those of the resources with a summary in the   *)
(* range, from the creation time, which all summaries of a resource have in *)
(* common, to the latest time one of them was seen.                         *)
LEMMA GanttFacts ==
    ASSUME TypeOK, StoreInv, RangeOK
    PROVE  /\ DOMAIN GanttMap = {v.res : v \in {w \in raw.resources : Lived(w)}}
           /\ \A r \in DOMAIN GanttMap :
                /\ GanttMap[r].start = Max({created[r], range.start})
                /\ GanttMap[r].start \in Nat /\ GanttMap[r].end \in Nat
                /\ GanttMap[r].start <= GanttMap[r].end /\ GanttMap[r].end <= range.end
                /\ GanttMap[r].duration = GanttMap[r].end - GanttMap[r].start
           /\ \A v \in raw.resources : Lived(v) => SeenTo(v) <= GanttMap[v.res].end
           /\ \A r \in DOMAIN GanttMap : \E v \in raw.resources :
                v.res = r /\ Lived(v) /\ GanttMap[r].end = SeenTo(v)
<1> DEFINE L == {w \in raw.resources : Lived(w)}
           S == {AdjustLastSeenTime(v) : v \in TimeFilterResSum(raw.resources)}
           R(r) == {ResSumRowToD3Gantt(v) : v \in {w \in S : w.res = r}}
<1>1. S = {Cut(v) : v \in L}
  BY DEF TimeFilterResSum, Cut, Lived
<1>2. GanttMap = [r \in {v.res : v \in S} |-> TakeNewest(R(r))]
  BY DEF GanttMap, ResSumRowsToD3GanttMap
<1>3. ASSUME NEW v \in L
      PROVE  /\ v \in Summaries /\ v.create = created[v.res] /\ v.create <= v.last /\ Lived(v)
             /\ Cut(v).res = v.res /\ Cut(v).create = Max({created[v.res], range.start})
             /\ Cut(v).last = SeenTo(v)
  <2>1. v \in Summaries /\ v.create = created[v.res] /\ Lived(v)
    BY DEF TypeOK, StoreInv
  <2>2. v.create <= v.first /\ v.first <= v.last
    BY DEF StoreInv
  <2>3. v.create \in Nat /\ v.first \in Nat /\ v.last \in Nat
    BY <2>1, SummaryFacts
  <2>4. v.create <= v.last
    BY <2>2, <2>3
  <2> QED
    BY <2>1, <2>4, CutFacts
<1> HIDE DEF S
<1>4. {v.res : v \in S} = {v.res : v \in L}
  <2>1. \A v \in L : Cut(v) \in S /\ Cut(v).res = v.res
    BY <1>1, <1>3
  <2>2. \A w \in S : \E v \in L : w.res = v.res
    BY <1>1, <1>3
  <2> HIDE DEF L
  <2> QED
    BY <2>1, <2>2
<1>5. ASSUME NEW r, NEW v \in L, v.res = r PROVE \E x \in R(r) : x.end = SeenTo(v)
  <2>1. Cut(v) \in S /\ Cut(v).res = r /\ Cut(v).last = SeenTo(v)
    BY <1>1, <1>3, <1>5
  <2>2. ResSumRowToD3Gantt(Cut(v)) \in R(r)
    BY <2>1
  <2>3. ResSumRowToD3Gantt(Cut(v)).end = SeenTo(v)
    BY <2>1 DEF ResSumRowToD3Gantt
  <2> HIDE DEF R
  <2> QED
    BY <2>2, <2>3
<1>6. ASSUME NEW r, NEW x \in R(r)
      PROVE  \E v \in L : /\ v.res = r /\ x.start = Max({created[r], range.start})
                          /\ x.end = SeenTo(v) /\ x.duration = x.end - x.start
  <2>1. PICK w \in S : w.res = r /\ x = ResSumRowToD3Gantt(w)
    OBVIOUS
  <2>2. PICK v \in L : w = Cut(v)
    BY <1>1
  <2>3. v.res = r /\ w.create = Max({created[r], range.start}) /\ w.last = SeenTo(v)
    BY <1>3, <2>1, <2>2
  <2>4. x.start = w.create /\ x.end = w.last /\ x.duration = w.last - w.create
    BY <2>1 DEF ResSumRowToD3Gantt
  <2> HIDE DEF L
  <2> QED
    BY <2>3, <2>4
<1>7. ASSUME NEW r \in DOMAIN GanttMap
      PROVE  GanttMap[r] \in R(r) /\ \A x \in R(r) : x.end <= GanttMap[r].end
  <2> DEFINE E == {x.end : x \in R(r)}
  <2>1. GanttMap[r] = TakeNewest(R(r)) /\ r \in {v.res : v \in L}
    BY <1>2, <1>4
  <2> HIDE DEF R, L
  <2>2. E # {}
    <3>1. PICK v \in L : v.res = r
      BY <2>1
    <3>2. PICK x \in R(r) : x.end = SeenTo(v)
      BY <1>5, <3>1
    <3> QED
      BY <3>2
  <2>3. E \subseteq Nat /\ \A n \in E : n <= range.end
    <3>1. ASSUME NEW x \in R(r) PROVE x.end \in Nat /\ x.end <= range.end
      <4>1. PICK v \in L : x.end = SeenTo(v)
        BY <1>6
      <4> QED
        BY <1>3, <4>1, SeenWithinRange
    <3> QED
      BY <3>1
  <2>4. range.end \in Nat
    BY DEF RangeOK
  <2> HIDE DEF E
  <2>5. Max(E) \in E /\ \A n \in E : n <= Max(E)
    BY <2>2, <2>3, <2>4, MaxOfNaturals
  <2>6. PICK y \in R(r) : \A x \in R(r) : x.end <= y.end
    BY <2>5 DEF E
  <2> QED
    BY <2>1, <2>6 DEF TakeNewest
<1>8. DOMAIN GanttMap = {v.res : v \in L}
  BY <1>2, <1>4
<1>9. ASSUME NEW r \in DOMAIN GanttMap
      PROVE  /\ GanttMap[r].start = Max({created[r], range.start})
             /\ GanttMap[r].start \in Nat /\ GanttMap[r].end \in Nat
             /\ GanttMap[r].start <= GanttMap[r].end /\ GanttMap[r].end <= range.end
             /\ GanttMap[r].duration = GanttMap[r].end - GanttMap[r].start
  <2> DEFINE g == GanttMap[r]
  <2>1. g \in R(r)
    BY <1>7
  <2> HIDE DEF g, R, L
  <2>2. PICK v \in L : /\ v.res = r /\ g.start = Max({created[r], range.start})
                       /\ g.end = SeenTo(v) /\ g.duration = g.end - g.start
    BY <1>6, <2>1
  <2>3. /\ Max({v.create, range.start}) \in Nat /\ SeenTo(v) \in Nat
        /\ Max({v.create, range.start}) <= SeenTo(v) /\ SeenTo(v) <= range.end
    BY <1>3, SeenWithinRange
  <2>4. v.create = created[r]
    BY <1>3, <2>2
  <2> QED
    BY <2>2, <2>3, <2>4 DEF g
<1>10. ASSUME NEW v \in L PROVE SeenTo(v) <= GanttMap[v.res].end
  <2>1. v.res \in DOMAIN GanttMap
    BY <1>8
  <2> DEFINE r == v.res
  <2>2. r \in DOMAIN GanttMap /\ v.res = r
    BY <2>1
  <2> HIDE DEF r, R, L
  <2>3. PICK x \in R(r) : x.end = SeenTo(v)
    BY <1>5, <2>2
  <2> QED
    BY <1>7, <2>2, <2>3
<1>11. ASSUME NEW r \in DOMAIN GanttMap
       PROVE  \E v \in L : v.res = r /\ GanttMap[r].end = SeenTo(v)
  <2> DEFINE g == GanttMap[r]
  <2>1. g \in R(r)
    BY <1>7
  <2> HIDE DEF g, R, L
  <2>2. PICK v \in L : v.res = r /\ g.end = SeenTo(v)
    BY <1>6, <2>1
  <2> QED
    BY <2>2 DEF g
<1> QED
  BY <1>8, <1>9, <1>10, <1>11

(* The resources with rows are finitely many.                               *)
LEMMA RowsAreFinite ==
    ASSUME TypeOK, StoreInv, RangeOK
    PROVE  IsFiniteSet(DOMAIN GanttMap) /\ DOMAIN GanttMap \subseteq Resources
<1>1. IsFiniteSet(Resources)
  <2>1. PICK p \in Populations : created \in [p -> Times \cup {Never}]
    BY DEF TypeOK
  <2>2. Resources = p
    BY <2>1 DEF Resources
  <2> QED
    BY <2>2, HeatMapAssumption
<1>2. DOMAIN GanttMap \subseteq Resources
  <2>1. DOMAIN GanttMap = {v.res : v \in {w \in raw.resources : Lived(w)}}
    BY GanttFacts
  <2>2. \A v \in raw.resources : v.res \in Resources
    BY SummaryFacts DEF TypeOK
  <2> QED
    BY <2>1, <2>2
<1> QED
  BY <1>1, <1>2, FS_Subset

(* What becomes of the overlay of a minute in a row.                        *)
LEMMA OverlayFacts ==
    ASSUME TypeOK, StoreInv, RangeOK, NEW order \in SetToSeqs(DOMAIN GanttMap),
           NEW r \in DOMAIN GanttMap, NEW key, key = OverlayKey(r),
           NEW c \in raw.events, NEW o,
           o = MoveEnds(MoveStarts(EventCountToOverlay(c), key, GanttMap, order),
                        key, GanttMap, order)
    PROVE  /\ o \in Overlay /\ o.minute = c.minute
           /\ /\ \A s \in DOMAIN GanttMap : OverlayKey(s) = key => s = r
              /\ c.minute <= GanttMap[r].end /\ c.minute + MinuteLen >= GanttMap[r].start
              => /\ o.start = Max({c.minute, GanttMap[r].start})
                 /\ o.end = Min({c.minute + MinuteLen, GanttMap[r].end})
<1> DEFINE G == GanttMap
           m == c.minute
           p == EventCountToOverlay(c)
           s1 == MoveStarts(p, key, G, order)
<1>1. m \in Nat
  <2>1. m \in Times /\ MaxTime \in Nat
    BY HeatMapAssumption DEF TypeOK
  <2> QED
    BY <2>1 DEF Times
<1>2. MinuteLen \in Nat
  BY HeatMapAssumption
<1>3. p \in Overlay /\ p.minute = m /\ p.start = m /\ p.end = m + MinuteLen
  <2>1. p = [minute |-> m, start |-> m, end |-> m + MinuteLen, duration |-> MinuteLen]
    BY DEF EventCountToOverlay
  <2> HIDE DEF p, m
  <2> QED
    BY <1>1, <1>2, <2>1 DEF Overlay, OverlayType
<1>4. /\ IsFiniteSet(DOMAIN G) /\ order \in SetToSeqs(DOMAIN G) /\ r \in DOMAIN G
      /\ \A s \in DOMAIN G : G[s].start \in Nat /\ G[s].end \in Nat /\ G[s].start <= G[s].end
  BY GanttFacts, RowsAreFinite
<1>5. o = MoveEnds(s1, key, G, order)
  OBVIOUS
<1>6. /\ s1 \in Overlay /\ s1.minute = p.minute
      /\ \A x \in DOMAIN G :
           /\ OverlayKey(x) = key /\ \A s \in DOMAIN G : OverlayKey(s) = key => s = x
           => s1 = MoveStart(p, G[x])
  <2> HIDE DEF G, p
  <2> QED
    BY <1>3, <1>4, StartsFacts
<1>7. /\ o \in Overlay /\ o.minute = s1.minute
      /\ \A x \in DOMAIN G :
           /\ OverlayKey(x) = key /\ \A s \in DOMAIN G : OverlayKey(s) = key => s = x
           => o = MoveEnd(s1, G[x])
  <2> HIDE DEF G, p, s1
  <2> QED
    BY <1>4, <1>5, <1>6, EndsFacts
<1>8. ASSUME \A s \in DOMAIN G : OverlayKey(s) = key => s = r,
             m <= G[r].end, m + MinuteLen >= G[r].start
      PROVE  o.start = Max({m, G[r].start}) /\ o.end = Min({m + MinuteLen, G[r].end})
  <2> DEFINE row == G[r]
  <2> HIDE DEF G, p, s1, m
  <2>1. o = MoveEnd(MoveStart(p, row), row)
    BY <1>4, <1>6, <1>7, <1>8
  <2>2. row.start \in Nat /\ row.end \in Nat /\ row.start <= row.end
    BY <1>4
  <2>3. m <= row.end /\ m + MinuteLen >= row.start
    BY <1>8
  <2> HIDE DEF row
  <2>4. o.start = Max({m, row.start}) /\ o.end = Min({m + MinuteLen, row.end})
    <3>1. Meets(m, row, p)
      BY <1>1, <1>3, <2>2, <2>3 DEF Meets
    <3>2. Fits(m, row, o)
      BY ONLY <2>1, <3>1, MoveFits
    <3> QED
      BY <3>2 DEF Fits
  <2> QED
    BY <2>4 DEF row
<1> QED
  BY <1>3, <1>6, <1>7, <1>8

(* A row of the answer has the overlays of the event minutes under its key, *)
(* and one that shares them with no other row has them fitted.              *)
HasItsOverlays(h, r) ==
    /\ \A c \in raw.events :
         c.key = OverlayKey(r) => \E o \in h[r].overlays : o.minute = c.minute
    /\ \A o \in h[r].overlays :
         /\ o \in Overlay
         /\ \E c \in raw.events : c.key = OverlayKey(r) /\ c.minute = o.minute
         /\ /\ \A s \in DOMAIN h : OverlayKey(s) = OverlayKey(r) => s = r
            /\ o.minute <= h[r].end /\ o.minute + MinuteLen >= h[r].start
            => /\ o.start = Max({o.minute, h[r].start})
               /\ o.end = Min({o.minute + MinuteLen, h[r].end})

(* So have all rows.                                                        *)
LEMMA RowsFacts ==
    ASSUME TypeOK, StoreInv, RangeOK, NEW order \in SetToSeqs(DOMAIN GanttMap),
           NEW h, h = HeatMapRows(GanttMap, order), NEW r \in DOMAIN h
    PROVE  HasItsOverlays(h, r)
<1> DEFINE G == GanttMap
           Moved(c, key) == MoveEnds(MoveStarts(EventCountToOverlay(c), key, G, order), key, G, order)
<1>1. DOMAIN h = DOMAIN G
  BY DEF HeatMapRows
<1> DEFINE key == OverlayKey(r)
<1>2. /\ h[r].start = G[r].start /\ h[r].end = G[r].end
      /\ h[r].overlays = AdjustOverlays(OverlaysOf(TimeFilterEvents(raw.events), key), key, G, order)
  BY <1>1 DEF HeatMapRows
<1>3. h[r].overlays = {Moved(c, key) : c \in {d \in raw.events : d.key = key}}
  BY <1>2 DEF AdjustOverlays, OverlaysOf, TimeFilterEvents
<1>4. ASSUME NEW c \in raw.events
      PROVE  /\ Moved(c, key) \in Overlay /\ Moved(c, key).minute = c.minute
             /\ /\ \A s \in DOMAIN G : OverlayKey(s) = key => s = r
                /\ c.minute <= G[r].end /\ c.minute + MinuteLen >= G[r].start
                => /\ Moved(c, key).start = Max({c.minute, G[r].start})
                   /\ Moved(c, key).end = Min({c.minute + MinuteLen, G[r].end})
  <2> DEFINE o == Moved(c, key)
  <2>1. /\ r \in DOMAIN GanttMap /\ key = OverlayKey(r)
        /\ o = MoveEnds(MoveStarts(EventCountToOverlay(c), key, GanttMap, order),
                        key, GanttMap, order)
    BY <1>1
  <2> HIDE DEF key, o
  <2>2. /\ o \in Overlay /\ o.minute = c.minute
        /\ /\ \A s \in DOMAIN GanttMap : OverlayKey(s) = key => s = r
           /\ c.minute <= GanttMap[r].end /\ c.minute + MinuteLen >= GanttMap[r].start
           => /\ o.start = Max({c.minute, GanttMap[r].start})
              /\ o.end = Min({c.minute + MinuteLen, GanttMap[r].end})
    BY <2>1, OverlayFacts
  <2> QED
    BY <2>2 DEF o
<1> HIDE DEF Moved, key
<1>5. ASSUME NEW c \in raw.events, c.key = key
      PROVE  \E o \in h[r].overlays : o.minute = c.minute
  <2>1. Moved(c, key) \in h[r].overlays
    BY <1>3, <1>5
  <2> QED
    BY <1>4, <2>1
<1>6. ASSUME NEW o \in h[r].overlays
      PROVE  /\ o \in Overlay
             /\ \E c \in raw.events : c.key = key /\ c.minute = o.minute
             /\ /\ \A s \in DOMAIN h : OverlayKey(s) = key => s = r
                /\ o.minute <= h[r].end /\ o.minute + MinuteLen >= h[r].start
                => /\ o.start = Max({o.minute, h[r].start})
                   /\ o.end = Min({o.minute + MinuteLen, h[r].end})
  <2>1. PICK c \in raw.events : c.key = key /\ o = Moved(c, key)
    BY <1>3
  <2> HIDE DEF G
  <2> QED
    BY <1>1, <1>2, <1>4, <2>1
<1>7. \A c \in raw.events :
        c.key = OverlayKey(r) => \E o \in h[r].overlays : o.minute = c.minute
  BY <1>5 DEF key
<1>8. \A o \in h[r].overlays :
        /\ o \in Overlay
        /\ \E c \in raw.events : c.key = OverlayKey(r) /\ c.minute = o.minute
        /\ /\ \A s \in DOMAIN h : OverlayKey(s) = OverlayKey(r) => s = r
           /\ o.minute <= h[r].end /\ o.minute + MinuteLen >= h[r].start
           => /\ o.start = Max({o.minute, h[r].start})
              /\ o.end = Min({o.minute + MinuteLen, h[r].end})
  BY <1>6 DEF key
<1> QED
  BY <1>7, <1>8 DEF HasItsOverlays

-----------------------------------------------------------------------------
(* The invariant                                                            *)

(* A request in progress has a range.                                       *)
LEMMA RangeFacts ==
    ASSUME StageInv, pc \notin {"idle", "failed"}
    PROVE  RangeOK
<1>1. range \in Ranges
  BY DEF StageInv
<1> QED
  BY <1>1, HeatMapAssumption DEF RangeOK

(* The partitions of a range.                                               *)
LEMMA ListFacts ==
    ASSUME NEW a \in Nat, NEW b \in Nat, a <= b
    PROVE  PartOf(a) \in Nat /\ PartOf(b) \in Nat /\ PartOf(a) <= PartOf(b)
<1>1. PartLen \in Nat \ {0}
  BY HeatMapAssumption
<1>2. a \div PartLen \in Nat /\ b \div PartLen \in Nat
  BY <1>1, DivBounds
<1>3. a \div PartLen <= b \div PartLen
  BY <1>1, DivMonotone
<1> QED
  BY <1>2, <1>3 DEF PartOf

(* A step that leaves the request alone keeps what is known of its answer.  *)
LEMMA AnswerIsKept ==
    ASSUME SelectInv, AnswerInv, UNCHANGED queryVars
    PROVE  SelectInv' /\ AnswerInv'
<1> USE DEF queryVars, answerVars
<1>1. SelectInv'
  BY DEF SelectInv, PartitionList, KeepsSummary, ParamFilterResSum, IsResSummaryValInTimeRange,
         IsNamespace, KeepResourceSummaryKind, HasKeyPrefix, IsEventValInTimeRange,
         MatchEventInvolvedObject
<1>2. GanttMap' = GanttMap
  BY DEF GanttMap, TimeFilterResSum, AdjustLastSeenTime
<1>3. \A g, order : HeatMapRows(g, order)' = HeatMapRows(g, order)
  BY DEF HeatMapRows, TimeFilterWatchActivity, TimeFilterEvents
<1>4. AnswerInv'
  BY <1>2, <1>3 DEF AnswerInv
<1> QED
  BY <1>1, <1>4

(* Before it is done, a request has no answer.                              *)
LEMMA NoAnswerYet ==
    ASSUME AnswerInv, pc # "done", pc' # "done", UNCHANGED answerVars
    PROVE  AnswerInv'
  BY DEF AnswerInv, answerVars

(* While no request is being served, none of what is known of one changes.  *)
LEMMA IdleStep ==
    ASSUME IndInv, pc = "idle", UNCHANGED queryVars
    PROVE  StageInv' /\ ReadInv' /\ SelectInv' /\ AnswerInv'
<1>1. query = "none" /\ raw = NoRaw /\ DOMAIN raw = DOMAIN NoRaw
  BY DEF IndInv, StageInv
<1>2. query' = "none" /\ raw' = NoRaw /\ pc' = "idle"
  BY <1>1 DEF queryVars
<1>3. StageInv'
  BY <1>1, <1>2 DEF StageInv, NoRaw
<1>4. ReadInv'
  BY <1>2 DEF ReadInv, CountsRead, SummariesRead, ActivityRead, EventsRead
<1> QED
  BY <1>3, <1>4, AnswerIsKept DEF IndInv

(* The bounds are numbers, and so is the time.                              *)
LEMMA NowFacts ==
    ASSUME TypeOK
    PROVE  /\ MaxTime \in Nat /\ MaxRecords \in Nat /\ Times \subseteq Nat
           /\ now \in Times /\ now \in Nat /\ PartOf(now) \in Nat
<1>1. MaxTime \in Nat /\ MaxRecords \in Nat /\ PartLen \in Nat \ {0}
  BY HeatMapAssumption
<1>2. now \in Times
  BY DEF TypeOK
<1>3. Times \subseteq Nat
  BY <1>1 DEF Times
<1>4. now \div PartLen \in Nat
  BY <1>1, <1>2, <1>3, DivBounds
<1> QED
  BY <1>1, <1>2, <1>3, <1>4 DEF PartOf

(* A resource has a creation time, or none yet.                             *)
LEMMA CreatedFacts ==
    ASSUME TypeOK, NEW r \in Resources
    PROVE  /\ created[r] \in Int /\ (created[r] # Never => created[r] \in Times)
           /\ deletedAt[r] \in Times \cup {Never}
<1>1. created[r] \in Times \cup {Never} /\ deletedAt[r] \in Times \cup {Never}
  BY DEF TypeOK, Resources
<1>2. created[r] # Never => created[r] \in Times
  BY <1>1
<1>3. created[r] = Never => created[r] \in Int
  BY DEF Never
<1>4. created[r] \in Times => created[r] \in Int
  BY NowFacts
<1> QED
  BY <1>1, <1>2, <1>3, <1>4

(* Time goes on.                                                            *)
LEMMA TickKeepsInv ==
    ASSUME IndInv, Tick
    PROVE  IndInv'
<1> USE DEF queryVars, storeVars, answerVars
<1>1. /\ now \in Nat /\ now' = now + 1 /\ now' \in Times /\ pc = "idle"
      /\ UNCHANGED <<created, deletedAt, records, storeVars, queryVars>>
  <2>1. now < MaxTime /\ now' = now + 1 /\ now \in Nat /\ MaxTime \in Nat
    BY NowFacts DEF IndInv, Tick
  <2>2. now' \in Times
    BY <2>1 DEF Times
  <2> QED
    BY <2>1, <2>2 DEF Tick
<1>2. TypeOK'
  BY <1>1 DEF IndInv, TypeOK, Summaries, Resources
<1>3. StoreInv'
  <2>1. ASSUME NEW v \in ressum \cup raw.resources
        PROVE  v.create = created[v.res] /\ v.create <= v.first /\ v.first <= v.last /\ v.last <= now'
    <3>1. v \in Summaries
      BY DEF IndInv, TypeOK
    <3>2. v.last \in Nat
      BY <3>1, SummaryFacts
    <3>3. v.create = created[v.res] /\ v.create <= v.first /\ v.first <= v.last /\ v.last <= now
      BY DEF IndInv, StoreInv
    <3> QED
      BY <1>1, <3>2, <3>3
  <2>2. ASSUME NEW r \in Resources PROVE created[r] <= now'
    <3>1. created[r] \in Int /\ created[r] <= now
      BY CreatedFacts DEF IndInv, StoreInv
    <3> QED
      BY <1>1, <3>1
  <2> QED
    BY <1>1, <2>1, <2>2 DEF StoreInv, Resources
<1> QED
  BY <1>1, <1>2, <1>3, IdleStep DEF IndInv

(* An Event is counted.                                                     *)
LEMMA CountEventKeepsInv ==
    ASSUME IndInv, NEW r \in Resources, CountEvent(r)
    PROVE  IndInv'
<1> USE DEF queryVars, clusterVars, answerVars
<1>1. PICK m \in MinutesPast : counts' = counts \cup {[key |-> InvolvedObject(r), minute |-> m]}
  BY DEF CountEvent
<1>2. pc = "idle" /\ UNCHANGED <<clusterVars, ressum, activity, watch, queryVars>>
  BY DEF CountEvent
<1>3. TypeOK'
  <2>1. \A c \in counts' \cup raw.events : c.minute \in Times /\ c.minute % MinuteLen = 0
    BY <1>1 DEF IndInv, TypeOK, MinutesPast
  <2> QED
    BY <1>2, <2>1 DEF IndInv, TypeOK, Summaries, Resources
<1>4. StoreInv'
  BY <1>2 DEF IndInv, StoreInv, Resources
<1> QED
  BY <1>2, <1>3, <1>4, IdleStep DEF IndInv

(* An Event is stored.                                                      *)
LEMMA StoreEventKeepsInv ==
    ASSUME IndInv, NEW r \in Resources, StoreEvent(r)
    PROVE  IndInv'
<1> USE DEF queryVars, answerVars
<1>1. PICK m \in MinutesPast :
        watch' = watch \cup {[obj |-> r, first |-> m, last |-> now, part |-> PartOf(now)]}
  BY DEF StoreEvent
<1>2. /\ pc = "idle" /\ records < MaxRecords /\ records' = records + 1
      /\ UNCHANGED <<now, created, deletedAt, ressum, activity, counts, queryVars>>
  BY DEF StoreEvent
<1>3. TypeOK'
  <2>1. now \in Times /\ PartOf(now) \in Nat
    BY NowFacts DEF IndInv
  <2>2. [obj |-> r, first |-> m, last |-> now, part |-> PartOf(now)] \in
          [obj : Resources, first : Times, last : Times, part : Nat]
    BY <2>1 DEF MinutesPast
  <2>3. watch' \cup raw.watch \cup eventsList \subseteq
          [obj : Resources, first : Times, last : Times, part : Nat]
    BY <1>1, <2>2 DEF IndInv, TypeOK
  <2>4. records' \in 0 .. MaxRecords
    BY <1>2, NowFacts DEF IndInv, TypeOK
  <2> QED
    BY <1>2, <2>3, <2>4 DEF IndInv, TypeOK, Summaries, Resources
<1>4. StoreInv'
  BY <1>2 DEF IndInv, StoreInv, Resources
<1> QED
  BY <1>2, <1>3, <1>4, IdleStep DEF IndInv

(* A record is processed.                                                   *)
LEMMA ProcessKeepsInv ==
    ASSUME IndInv, NEW r \in Resources, NEW type, Process(r, type)
    PROVE  IndInv'
<1> USE DEF queryVars, answerVars
<1> DEFINE p   == PartOf(now)
           old == {v \in ressum : v.res = r /\ v.part = p}
           F   == IF old = {} THEN {now} ELSE {v.first : v \in old}
           Row(f) == [res |-> r, part |-> p, create |-> created'[r], first |-> f, last |-> now,
                      deleted |-> type = "DELETE"]
           act == [res |-> r, at |-> now,
                   changed |-> \E a \in activity : a.res = r /\ PartOf(a.at) = p]
<1>1. /\ pc = "idle" /\ records < MaxRecords /\ records' = records + 1
      /\ (created[r] = Never <=> type = "ADD")
      /\ created' = IF type = "ADD" THEN [created EXCEPT ![r] = now] ELSE created
      /\ deletedAt' = IF type = "DELETE" THEN [deletedAt EXCEPT ![r] = now] ELSE deletedAt
      /\ UNCHANGED <<now, counts, watch, queryVars>>
  BY DEF Process
<1>2. ressum' = (ressum \ old) \cup {Row(f) : f \in F} /\ activity' = activity \cup {act}
  BY DEF Process
<1>3. /\ MaxRecords \in Nat /\ Times \subseteq Nat /\ now \in Times /\ now \in Nat /\ p \in Nat
  BY NowFacts DEF IndInv
<1>4. raw = NoRaw /\ raw' = NoRaw /\ raw.resources = {}
  BY <1>1 DEF IndInv, StageInv, NoRaw
<1>5. ASSUME NEW v \in ressum
      PROVE  /\ v \in Summaries /\ v.create = created[v.res]
             /\ v.create <= v.first /\ v.first <= v.last /\ v.last <= now
             /\ v.res \in Resources /\ v.create \in Nat /\ v.first \in Nat /\ v.last \in Nat
             /\ v.first \in Times
  <2>1. v \in Summaries
    BY DEF IndInv, TypeOK
  <2>2. v.first \in Times
    BY <2>1 DEF Summaries
  <2> QED
    BY <2>1, <2>2, SummaryFacts DEF IndInv, StoreInv
<1>6. /\ DOMAIN created' = Resources /\ Resources' = Resources /\ created'[r] \in Times
      /\ created'[r] <= now /\ \A s \in Resources \ {r} : created'[s] = created[s]
      /\ (created[r] # Never => created'[r] = created[r])
  <2>1. DOMAIN created = Resources /\ r \in Resources
    BY DEF Resources
  <2>2. /\ created[r] # Never => created[r] \in Times
        /\ created[r] <= now
    BY CreatedFacts DEF IndInv, StoreInv
  <2>3. CASE type = "ADD"
    <3>1. created' = [created EXCEPT ![r] = now] /\ created[r] = Never
      BY <1>1, <2>3
    <3>2. created'[r] = now /\ DOMAIN created' = Resources
      BY <2>1, <3>1
    <3>3. \A s \in Resources \ {r} : created'[s] = created[s]
      BY <2>1, <3>1
    <3> QED
      BY <1>3, <3>1, <3>2, <3>3 DEF Resources
  <2>4. CASE type # "ADD"
    BY <1>1, <2>1, <2>2, <2>4 DEF Resources
  <2> QED
    BY <2>3, <2>4
<1>7. ASSUME NEW f \in F PROVE f \in Times /\ created'[r] <= f /\ f <= now
  <2>1. CASE old = {}
    BY <1>3, <1>6, <2>1
  <2>2. CASE old # {}
    <3>1. PICK v \in old : f = v.first
      BY <2>2
    <3>2. v \in ressum /\ v.res = r
      BY <3>1
    <3>3. /\ v.create = created[r] /\ v.create <= v.first /\ v.first <= v.last /\ v.last <= now
          /\ v.create \in Nat /\ v.first \in Nat /\ v.last \in Nat /\ v.first \in Times
      BY <1>5, <3>2
    <3>4. created[r] # Never
      BY <3>3 DEF Never
    <3> QED
      BY <1>3, <1>6, <3>1, <3>3, <3>4
  <2> QED
    BY <2>1, <2>2
<1>8. ASSUME NEW v \in ressum'
      PROVE  /\ v \in Summaries /\ v.create = created'[v.res]
             /\ v.create <= v.first /\ v.first <= v.last /\ v.last <= now
  <2>1. CASE v \in ressum
    <3>1. created[v.res] # Never
      BY <1>5, <2>1 DEF Never
    <3>2. created'[v.res] = created[v.res]
      BY <1>5, <1>6, <2>1, <3>1
    <3> QED
      BY <1>5, <2>1, <3>2
  <2>2. CASE v \notin ressum
    <3>1. PICK f \in F : v = Row(f)
      BY <1>2, <2>2
    <3>2. f \in Times /\ created'[r] <= f /\ f <= now
      BY <1>7
    <3>3. Row(f) \in Summaries
      <4>1. (type = "DELETE") \in BOOLEAN
        OBVIOUS
      <4> QED
        BY <1>3, <1>6, <3>2, <4>1, Zenon DEF Summaries
    <3>4. v.res = r /\ v.create = created'[r] /\ v.first = f /\ v.last = now
      BY <3>1
    <3>5. v \in Summaries
      BY <3>1, <3>3
    <3>6. v.create = created'[v.res]
      BY <3>4
    <3>7. v.create <= v.first /\ v.first <= v.last
      BY <3>2, <3>4
    <3>8. v.last <= now
      BY <1>3, <3>4
    <3> QED
      BY <3>5, <3>6, <3>7, <3>8
  <2> QED
    BY <2>1, <2>2
<1>9. StoreInv'
  <2>1. \A s \in Resources : created'[s] <= now
    BY <1>6 DEF IndInv, StoreInv
  <2> QED
    BY <1>1, <1>4, <1>6, <1>8, <2>1 DEF StoreInv
<1>10. TypeOK'
  <2>1. Summaries' = Summaries
    BY <1>6 DEF Summaries
  <2>2. (ressum \cup raw.resources \cup found \subseteq Summaries)'
    <3>1. found \subseteq Summaries /\ found' = found
      BY <1>1 DEF IndInv, TypeOK
    <3> QED
      BY <1>4, <1>8, <2>1, <3>1
  <2>3. (activity \cup raw.activity \subseteq [res : Resources, at : Times, changed : BOOLEAN])'
    <3>1. act \in [res : Resources, at : Times, changed : BOOLEAN]
      BY <1>3, Zenon
    <3>2. activity \cup raw.activity \subseteq [res : Resources, at : Times, changed : BOOLEAN]
      BY DEF IndInv, TypeOK
    <3> HIDE DEF act
    <3> QED
      BY <1>1, <1>2, <1>6, <3>1, <3>2
  <2>4. \E q \in Populations :
          (created \in [q -> Times \cup {Never}] /\ deletedAt \in [q -> Times \cup {Never}])'
    <3>1. PICK q \in Populations :
            created \in [q -> Times \cup {Never}] /\ deletedAt \in [q -> Times \cup {Never}]
      BY DEF IndInv, TypeOK
    <3>2. r \in q
      BY <3>1 DEF Resources
    <3>3. created' \in [q -> Times \cup {Never}]
      BY <1>1, <1>3, <3>1, <3>2
    <3>4. deletedAt' \in [q -> Times \cup {Never}]
      BY <1>1, <1>3, <3>1, <3>2
    <3> QED
      BY <3>3, <3>4
  <2>5. records' \in 0 .. MaxRecords
    BY <1>1, <1>3 DEF IndInv, TypeOK
  <2> QED
    BY <1>1, <1>6, <2>2, <2>3, <2>4, <2>5 DEF IndInv, TypeOK
<1> QED
  BY <1>1, <1>9, <1>10, IdleStep DEF IndInv

(* The garbage collector drops rows.                                        *)
LEMMA GcDropsKeepsInv ==
    ASSUME IndInv, NEW table, GcDrops(table)
    PROVE  IndInv'
<1>1. /\ ressum' \subseteq ressum /\ activity' \subseteq activity
      /\ counts' \subseteq counts /\ watch' \subseteq watch
  BY DEF GcDrops
<1>2. UNCHANGED <<clusterVars, queryVars>>
  BY DEF GcDrops
<1> USE DEF clusterVars, queryVars, answerVars
<1>3. TypeOK'
  BY <1>1, <1>2 DEF IndInv, TypeOK, Summaries, Resources
<1>4. StoreInv'
  BY <1>1, <1>2 DEF IndInv, StoreInv, Resources
<1>5. StageInv'
  BY <1>2 DEF IndInv, StageInv, PartitionList, Resources
<1>6. ReadInv'
  <2>1. \A t, after : Behind(t, after)' = Behind(t, after)
    BY <1>2 DEF Behind, PartitionList
  <2>2. CountsRead'
    BY <1>1, <1>2, <2>1 DEF IndInv, ReadInv, CountsRead, ParamEventCountSum
  <2>3. SummariesRead'
    <3>1. \A v : KeepsSummary(v)' = KeepsSummary(v)
      BY <1>2 DEF KeepsSummary, ParamFilterResSum, IsResSummaryValInTimeRange, IsNamespace,
                  KeepResourceSummaryKind
    <3> QED
      BY <1>1, <1>2, <2>1, <3>1 DEF IndInv, ReadInv, SummariesRead
  <2>4. ActivityRead'
    BY <1>1, <1>2, <2>1 DEF IndInv, ReadInv, ActivityRead, ParamFilterWatchActivity
  <2>5. EventsRead'
    BY <1>1, <1>2, <2>1 DEF IndInv, ReadInv, EventsRead, HasKeyPrefix, IsEventValInTimeRange,
                            MatchEventInvolvedObject
  <2> QED
    BY <2>2, <2>3, <2>4, <2>5 DEF ReadInv
<1>7. SelectInv' /\ AnswerInv'
  BY <1>2, AnswerIsKept DEF IndInv
<1> QED
  BY <1>3, <1>4, <1>5, <1>6, <1>7 DEF IndInv

(* A request fails, or its answer is written.                               *)
LEMMA ClearKeepsInv ==
    ASSUME IndInv, ClearQuery, pc' \in {"idle", "failed"}, UNCHANGED <<clusterVars, storeVars>>
    PROVE  IndInv'
<1> USE DEF clusterVars, storeVars
<1>1. /\ query' = "none" /\ cur' = 0 /\ raw' = NoRaw /\ rows' = NoRows /\ found' = {}
      /\ eventsList' = {} /\ offered' = {}
  BY DEF ClearQuery
<1>2. /\ raw'.resources = {} /\ raw'.events = {} /\ raw'.activity = {} /\ raw'.watch = {}
      /\ DOMAIN raw' = DOMAIN NoRaw /\ DOMAIN rows' = {}
  BY <1>1 DEF NoRaw, NoRows
<1>3. TypeOK'
  BY <1>1, <1>2 DEF IndInv, TypeOK, Summaries, Resources
<1>4. StoreInv'
  BY <1>2 DEF IndInv, StoreInv, Resources
<1>5. StageInv'
  BY <1>1, <1>2 DEF StageInv, NoRaw
<1>6. ReadInv'
  BY <1>1 DEF ReadInv, CountsRead, SummariesRead, ActivityRead, EventsRead
<1>7. SelectInv'
  BY <1>1 DEF SelectInv
<1>8. AnswerInv'
  BY <1>1 DEF AnswerInv
<1> QED
  BY <1>3, <1>4, <1>5, <1>6, <1>7, <1>8 DEF IndInv

(* A request begins: it has read nothing.                                   *)
LEMMA BeginQueryKeepsInv ==
    ASSUME IndInv, NEW q \in {"EventHeatMap", "GetResSummaryData", "GetEventData", "Kinds", "Namespaces"},
           NEW s, NEW r \in Ranges,
           q \in {"EventHeatMap", "GetResSummaryData", "GetEventData"} => s \in Selections(Resources),
           pc = "idle", BeginQuery(q, s, r)
    PROVE  IndInv'
<1> USE DEF clusterVars, storeVars, answerVars
<1>1. /\ pc = "idle" /\ r.end <= now /\ query' = q /\ sel' = s /\ range' = r
      /\ pc' = FirstTable(q) /\ cur' = PartOf(r.start)
      /\ UNCHANGED <<clusterVars, storeVars, raw, kindExists, answerVars>>
  BY DEF BeginQuery
<1>2. /\ raw = NoRaw /\ raw' = NoRaw /\ raw'.resources = {} /\ raw'.events = {}
      /\ raw'.watch = {} /\ DOMAIN raw' = DOMAIN NoRaw
  BY <1>1 DEF IndInv, StageInv, NoRaw
<1>3. RangeOK'
  BY <1>1, HeatMapAssumption DEF RangeOK
<1>4. /\ PartOf(range'.start) \in Nat /\ PartOf(range'.end) \in Nat
      /\ PartOf(range'.start) <= PartOf(range'.end)
  <2>1. range'.start \in Nat /\ range'.end \in Nat /\ range'.start <= range'.end
    BY <1>3 DEF RangeOK
  <2> QED
    BY <2>1, ListFacts
<1>5. /\ pc' \in {"events", "watch", "resources"}
      /\ pc' = "events" <=> q = "EventHeatMap"
      /\ pc' = "watch" <=> q = "GetEventData"
      /\ pc' = "resources" => q \in {"GetResSummaryData", "Namespaces", "Kinds"}
  BY <1>1 DEF FirstTable
<1>6. TypeOK'
  BY <1>1, <1>4, <1>5 DEF IndInv, TypeOK, Summaries, Resources
<1>7. StoreInv'
  BY <1>1 DEF IndInv, StoreInv, Resources
<1>8. StageInv'
  <2>1. cur' \in PartitionList'
    BY <1>1, <1>4 DEF PartitionList
  <2>2. Resources' = Resources
    BY <1>1 DEF Resources
  <2> QED
    BY <1>1, <1>2, <1>5, <2>1, <2>2 DEF StageInv
<1>9. ReadInv'
  <2>1. PartOf(range'.start) .. cur' - 1 = {}
    BY <1>1, <1>4
  <2>2. /\ q = "EventHeatMap" =>
             /\ Behind("events", {"resources", "activity", "render", "done"})' = {}
             /\ Behind("activity", {"render", "done"})' = {}
        /\ Behind("resources", {"activity", "render", "done"})' = {}
        /\ q = "GetEventData" => Behind("watch", {"render", "done"})' = {}
    BY <1>5, <2>1 DEF Behind
  <2> QED
    BY <1>1, <2>2 DEF ReadInv, CountsRead, SummariesRead, ActivityRead, EventsRead
<1>10. SelectInv'
  BY <1>2 DEF SelectInv
<1>11. AnswerInv'
  <2>1. pc # "done" /\ pc' # "done"
    BY <1>1, <1>5
  <2> QED
    BY <1>1, <2>1, NoAnswerYet DEF IndInv
<1> QED
  BY <1>6, <1>7, <1>8, <1>9, <1>10, <1>11 DEF IndInv

(* After a partition comes the next one, or another table: the partitions   *)
(* behind are those before, and the one just read.                          *)
LEMMA AdvanceFacts ==
    ASSUME RangeOK, cur \in PartitionList, NEW next, Advance(next), range' = range
    PROVE  /\ PartitionList' = PartitionList /\ cur' \in PartitionList' /\ cur' \in Nat
           /\ \/ /\ pc' = pc
                 /\ \A x \in PartOf(range'.start) .. cur' - 1 :
                      x = cur \/ x \in PartOf(range.start) .. cur - 1
              \/ /\ pc' = next
                 /\ PartOf(range'.start) .. cur' - 1 = {}
                 /\ \A x \in PartitionList : x = cur \/ x \in PartOf(range.start) .. cur - 1
<1> DEFINE a == PartOf(range.start)
           b == PartOf(range.end)
<1>1. a \in Nat /\ b \in Nat /\ a <= b
  BY ListFacts DEF RangeOK
<1>2. PartitionList = a .. b /\ PartOf(range'.start) = a /\ PartitionList' = PartitionList
  BY DEF PartitionList
<1>3. \/ cur + 1 <= b /\ cur' = cur + 1 /\ pc' = pc
      \/ ~(cur + 1 <= b) /\ cur' = a /\ pc' = next
  BY DEF Advance, InPartitionList
<1> HIDE DEF a, b
<1>4. cur \in Nat /\ a <= cur /\ cur <= b
  BY <1>1, <1>2
<1>5. CASE cur + 1 <= b /\ cur' = cur + 1 /\ pc' = pc
  <2>1. cur' \in a .. b /\ cur' \in Nat
    BY <1>1, <1>4, <1>5
  <2>2. \A x \in a .. cur' - 1 : x = cur \/ x \in a .. cur - 1
    BY <1>1, <1>4, <1>5
  <2> QED
    BY <1>2, <1>5, <2>1, <2>2 DEF a
<1>6. CASE ~(cur + 1 <= b) /\ cur' = a /\ pc' = next
  <2>1. cur' \in a .. b /\ cur' \in Nat /\ a .. cur' - 1 = {}
    BY <1>1, <1>6
  <2>2. \A x \in a .. b : x = cur \/ x \in a .. cur - 1
    BY <1>1, <1>4, <1>6
  <2> QED
    BY <1>2, <1>6, <2>1, <2>2 DEF a
<1> QED
  BY <1>3, <1>5, <1>6

(* A read changes what was read, and where the request is.                  *)
LEMMA ReadStep ==
    ASSUME IndInv, pc \in {"events", "watch", "resources", "activity"}, NEW next, Advance(next),
           UNCHANGED <<clusterVars, storeVars, query, sel, range, answerVars>>
    PROVE  /\ RangeOK /\ cur \in PartitionList
           /\ PartitionList' = PartitionList /\ cur' \in PartitionList' /\ cur' \in Nat
           /\ next # "done" => AnswerInv'
           /\ DOMAIN raw = DOMAIN NoRaw
           /\ Summaries' = Summaries /\ Resources' = Resources
<1> USE DEF clusterVars, storeVars, answerVars
<1>1. RangeOK /\ cur \in PartitionList /\ DOMAIN raw = DOMAIN NoRaw
  BY RangeFacts DEF IndInv, StageInv
<1>2. /\ PartitionList' = PartitionList /\ cur' \in PartitionList' /\ cur' \in Nat
      /\ pc' \in {pc, next}
  BY <1>1, AdvanceFacts
<1>3. ASSUME next # "done" PROVE AnswerInv'
  <2>1. pc # "done" /\ pc' # "done"
    BY <1>2, <1>3
  <2> QED
    BY <2>1, NoAnswerYet DEF IndInv
<1>4. Summaries' = Summaries /\ Resources' = Resources
  BY DEF Summaries, Resources
<1> QED
  BY <1>1, <1>2, <1>3, <1>4

(* A partition of the event counts is read.                                 *)
LEMMA ReadEventCountsKeepsInv ==
    ASSUME IndInv, RangeReadEventCounts
    PROVE  IndInv'
<1> DEFINE new == {c \in counts : PartOf(c.minute) = cur /\ ParamEventCountSum(c)}
<1>1. /\ pc = "events" /\ raw' = [raw EXCEPT !.events = @ \cup new] /\ Advance("resources")
      /\ UNCHANGED <<clusterVars, storeVars, query, sel, range, kindExists, answerVars>>
  BY DEF RangeReadEventCounts
<1> USE DEF clusterVars, storeVars, answerVars
<1>2. query = "EventHeatMap"
  BY <1>1 DEF IndInv, StageInv
<1>3. /\ RangeOK /\ cur \in PartitionList /\ PartitionList' = PartitionList
      /\ cur' \in PartitionList' /\ cur' \in Nat /\ AnswerInv' /\ DOMAIN raw = DOMAIN NoRaw
      /\ Summaries' = Summaries /\ Resources' = Resources
  BY <1>1, ReadStep
<1>4. /\ raw'.events = raw.events \cup new /\ raw'.resources = raw.resources
      /\ raw'.activity = raw.activity /\ raw'.watch = raw.watch /\ DOMAIN raw' = DOMAIN NoRaw
  BY <1>1, <1>3 DEF NoRaw
<1>5. new \subseteq counts /\ \A c \in counts : c \in new <=> PartOf(c.minute) = cur /\ ParamEventCountSum(c)
  OBVIOUS
<1> HIDE DEF new
<1>6. \/ /\ pc' = "events"
         /\ \A x \in PartOf(range'.start) .. cur' - 1 :
              x = cur \/ x \in PartOf(range.start) .. cur - 1
      \/ /\ pc' = "resources" /\ PartOf(range'.start) .. cur' - 1 = {}
         /\ \A x \in PartitionList : x = cur \/ x \in PartOf(range.start) .. cur - 1
  BY <1>1, <1>3, AdvanceFacts
<1>7. TypeOK'
  BY <1>1, <1>3, <1>4, <1>5, <1>6 DEF IndInv, TypeOK
<1>8. StoreInv'
  BY <1>1, <1>3, <1>4 DEF IndInv, StoreInv
<1>9. StageInv'
  BY <1>1, <1>2, <1>3, <1>4, <1>6 DEF IndInv, StageInv
<1>10. ReadInv'
  <2>1. ASSUME NEW c \in counts, ParamEventCountSum(c),
               PartOf(c.minute) \in Behind("events", {"resources", "activity", "render", "done"})'
        PROVE  c \in raw'.events
    <3>1. PartOf(c.minute) = cur \/ PartOf(c.minute) \in PartOf(range.start) .. cur - 1
      BY <1>3, <1>6, <2>1 DEF Behind
    <3>2. CASE PartOf(c.minute) = cur
      BY <1>4, <1>5, <2>1, <3>2
    <3>3. CASE PartOf(c.minute) \in PartOf(range.start) .. cur - 1
      BY <1>1, <1>2, <1>4, <2>1, <3>3 DEF IndInv, ReadInv, CountsRead, Behind
    <3> QED
      BY <3>1, <3>2, <3>3
  <2>2. \A c : ParamEventCountSum(c)' = ParamEventCountSum(c)
    BY <1>1 DEF ParamEventCountSum
  <2>3. CountsRead'
    BY <1>1, <2>1, <2>2 DEF CountsRead
  <2>4. /\ Behind("resources", {"activity", "render", "done"})' = {}
        /\ Behind("activity", {"render", "done"})' = {}
    BY <1>6 DEF Behind
  <2> QED
    BY <1>1, <1>2, <2>3, <2>4 DEF ReadInv, SummariesRead, ActivityRead, EventsRead
<1>11. SelectInv'
  <2>1. \A v : KeepsSummary(v)' = KeepsSummary(v)
    BY <1>1 DEF KeepsSummary, ParamFilterResSum, IsResSummaryValInTimeRange, IsNamespace,
                KeepResourceSummaryKind
  <2> QED
    BY <1>1, <1>2, <1>3, <1>4, <1>5, <2>1 DEF IndInv, SelectInv
<1> QED
  BY <1>3, <1>7, <1>8, <1>9, <1>10, <1>11 DEF IndInv

(* A partition of the watch activity is read.                               *)
LEMMA ReadActivityKeepsInv ==
    ASSUME IndInv, RangeReadActivity
    PROVE  IndInv'
<1> DEFINE new == {a \in activity : PartOf(a.at) = cur /\ ParamFilterWatchActivity(a)}
<1>1. /\ pc = "activity" /\ raw' = [raw EXCEPT !.activity = @ \cup new] /\ Advance("render")
      /\ UNCHANGED <<clusterVars, storeVars, query, sel, range, kindExists, answerVars>>
  BY DEF RangeReadActivity
<1> USE DEF clusterVars, storeVars, answerVars
<1>2. query = "EventHeatMap"
  BY <1>1 DEF IndInv, StageInv
<1>3. /\ RangeOK /\ cur \in PartitionList /\ PartitionList' = PartitionList
      /\ cur' \in PartitionList' /\ cur' \in Nat /\ AnswerInv' /\ DOMAIN raw = DOMAIN NoRaw
      /\ Summaries' = Summaries /\ Resources' = Resources
  BY <1>1, ReadStep
<1>4. /\ raw'.activity = raw.activity \cup new /\ raw'.resources = raw.resources
      /\ raw'.events = raw.events /\ raw'.watch = raw.watch /\ DOMAIN raw' = DOMAIN NoRaw
  BY <1>1, <1>3 DEF NoRaw
<1>5. new \subseteq activity /\
      \A a \in activity : a \in new <=> PartOf(a.at) = cur /\ ParamFilterWatchActivity(a)
  OBVIOUS
<1> HIDE DEF new
<1>6. \/ /\ pc' = "activity"
         /\ \A x \in PartOf(range'.start) .. cur' - 1 :
              x = cur \/ x \in PartOf(range.start) .. cur - 1
      \/ /\ pc' = "render" /\ PartOf(range'.start) .. cur' - 1 = {}
         /\ \A x \in PartitionList : x = cur \/ x \in PartOf(range.start) .. cur - 1
  BY <1>1, <1>3, AdvanceFacts
<1>7. TypeOK'
  BY <1>1, <1>3, <1>4, <1>5, <1>6 DEF IndInv, TypeOK
<1>8. StoreInv'
  BY <1>1, <1>3, <1>4 DEF IndInv, StoreInv
<1>9. StageInv'
  BY <1>1, <1>2, <1>3, <1>4, <1>6 DEF IndInv, StageInv
<1>10. ReadInv'
  <2>1. ASSUME NEW a \in activity, ParamFilterWatchActivity(a),
               PartOf(a.at) \in Behind("activity", {"render", "done"})'
        PROVE  a \in raw'.activity
    <3>1. PartOf(a.at) = cur \/ PartOf(a.at) \in PartOf(range.start) .. cur - 1
      BY <1>3, <1>6, <2>1 DEF Behind
    <3>2. CASE PartOf(a.at) = cur
      BY <1>4, <1>5, <2>1, <3>2
    <3>3. CASE PartOf(a.at) \in PartOf(range.start) .. cur - 1
      BY <1>1, <1>2, <1>4, <2>1, <3>3 DEF IndInv, ReadInv, ActivityRead, Behind
    <3> QED
      BY <3>1, <3>2, <3>3
  <2>2. \A a : ParamFilterWatchActivity(a)' = ParamFilterWatchActivity(a)
    BY <1>1 DEF ParamFilterWatchActivity
  <2>3. ActivityRead'
    BY <1>1, <2>1, <2>2 DEF ActivityRead
  <2>4. CountsRead'
    <3>1. \A c : ParamEventCountSum(c)' = ParamEventCountSum(c)
      BY <1>1 DEF ParamEventCountSum
    <3>2. Behind("events", {"resources", "activity", "render", "done"}) = PartitionList
      BY <1>1 DEF Behind
    <3>3. Behind("events", {"resources", "activity", "render", "done"})' = PartitionList
      BY <1>3, <1>6 DEF Behind
    <3> QED
      BY <1>1, <1>4, <3>1, <3>2, <3>3 DEF IndInv, ReadInv, CountsRead
  <2>5. SummariesRead'
    <3>1. \A v : KeepsSummary(v)' = KeepsSummary(v)
      BY <1>1 DEF KeepsSummary, ParamFilterResSum, IsResSummaryValInTimeRange, IsNamespace,
                  KeepResourceSummaryKind
    <3>2. Behind("resources", {"activity", "render", "done"}) = PartitionList
      BY <1>1 DEF Behind
    <3>3. Behind("resources", {"activity", "render", "done"})' = PartitionList
      BY <1>3, <1>6 DEF Behind
    <3> QED
      BY <1>1, <1>2, <1>4, <3>1, <3>2, <3>3 DEF IndInv, ReadInv, SummariesRead
  <2> QED
    BY <1>1, <1>2, <2>3, <2>4, <2>5 DEF ReadInv, EventsRead
<1>11. SelectInv'
  <2>1. \A v : KeepsSummary(v)' = KeepsSummary(v)
    BY <1>1 DEF KeepsSummary, ParamFilterResSum, IsResSummaryValInTimeRange, IsNamespace,
                KeepResourceSummaryKind
  <2> QED
    BY <1>1, <1>2, <1>3, <1>4, <1>5, <2>1 DEF IndInv, SelectInv
<1> QED
  BY <1>3, <1>7, <1>8, <1>9, <1>10, <1>11 DEF IndInv

(* A partition of the stored Events is read.                                *)
LEMMA ReadWatchKeepsInv ==
    ASSUME IndInv, RangeReadWatch
    PROVE  IndInv'
<1> DEFINE Asked(e) == HasKeyPrefix(e) /\ IsEventValInTimeRange(e) /\ MatchEventInvolvedObject(e)
           new == {e \in watch : e.part = cur /\ Asked(e)}
<1>1. /\ pc = "watch" /\ raw' = [raw EXCEPT !.watch = @ \cup new] /\ Advance("render")
      /\ UNCHANGED <<clusterVars, storeVars, query, sel, range, kindExists, answerVars>>
  BY DEF RangeReadWatch
<1> USE DEF clusterVars, storeVars, answerVars
<1>2. query = "GetEventData"
  BY <1>1 DEF IndInv, StageInv
<1>3. /\ RangeOK /\ cur \in PartitionList /\ PartitionList' = PartitionList
      /\ cur' \in PartitionList' /\ cur' \in Nat /\ AnswerInv' /\ DOMAIN raw = DOMAIN NoRaw
      /\ Summaries' = Summaries /\ Resources' = Resources
  BY <1>1, ReadStep
<1>4. /\ raw'.watch = raw.watch \cup new /\ raw'.resources = raw.resources
      /\ raw'.activity = raw.activity /\ raw'.events = raw.events /\ DOMAIN raw' = DOMAIN NoRaw
  BY <1>1, <1>3 DEF NoRaw
<1>5. new \subseteq watch /\ \A e \in watch : e \in new <=> e.part = cur /\ Asked(e)
  OBVIOUS
<1> HIDE DEF new
<1>6. \/ /\ pc' = "watch"
         /\ \A x \in PartOf(range'.start) .. cur' - 1 :
              x = cur \/ x \in PartOf(range.start) .. cur - 1
      \/ /\ pc' = "render" /\ PartOf(range'.start) .. cur' - 1 = {}
         /\ \A x \in PartitionList : x = cur \/ x \in PartOf(range.start) .. cur - 1
  BY <1>1, <1>3, AdvanceFacts
<1>7. TypeOK'
  BY <1>1, <1>3, <1>4, <1>5, <1>6 DEF IndInv, TypeOK
<1>8. StoreInv'
  BY <1>1, <1>3, <1>4 DEF IndInv, StoreInv
<1>9. StageInv'
  BY <1>1, <1>2, <1>3, <1>4, <1>6 DEF IndInv, StageInv
<1> HIDE DEF Asked
<1>10. \A e : Asked(e)' <=> Asked(e)
  BY <1>1 DEF Asked, HasKeyPrefix, IsEventValInTimeRange, MatchEventInvolvedObject
<1>11. ReadInv'
  <2>1. ASSUME NEW e \in watch, Asked(e), e.part \in Behind("watch", {"render", "done"})'
        PROVE  e \in raw'.watch
    <3>1. e.part = cur \/ e.part \in PartOf(range.start) .. cur - 1
      BY <1>3, <1>6, <2>1 DEF Behind
    <3>2. CASE e.part = cur
      BY <1>4, <1>5, <2>1, <3>2
    <3>3. CASE e.part \in PartOf(range.start) .. cur - 1
      BY <1>1, <1>2, <1>4, <2>1, <3>3 DEF IndInv, ReadInv, EventsRead, Behind, Asked
    <3> QED
      BY <3>1, <3>2, <3>3
  <2>2. EventsRead'
    BY <1>1, <1>10, <2>1 DEF EventsRead, Asked
  <2> QED
    BY <1>1, <1>2, <2>2 DEF ReadInv, CountsRead, SummariesRead, ActivityRead
<1>12. SelectInv'
  <2>1. ASSUME NEW e \in raw'.watch PROVE e.part \in PartitionList /\ Asked(e)
    <3>1. CASE e \in raw.watch
      BY <1>2, <3>1 DEF IndInv, SelectInv, Asked
    <3>2. CASE e \notin raw.watch
      BY <1>3, <1>4, <1>5, <3>2
    <3> QED
      BY <3>1, <3>2
  <2> QED
    BY <1>1, <1>2, <1>3, <1>10, <2>1 DEF SelectInv, Asked
<1> QED
  BY <1>3, <1>7, <1>8, <1>9, <1>11, <1>12 DEF IndInv

(* A partition of the resource summaries is read: summaries are added to    *)
(* what was read, or, for Kinds, their kinds to those seen.                 *)
LEMMA ReadSummariesKeepsInv ==
    ASSUME IndInv, RangeReadSummaries
    PROVE  IndInv'
<1> DEFINE next == IF query = "EventHeatMap" THEN "activity" ELSE "render"
           kept == {v \in ressum : v.part = cur /\ KeepsSummary(v)}
<1>1. /\ pc = "resources" /\ Advance(next)
      /\ UNCHANGED <<clusterVars, storeVars, query, sel, range, answerVars>>
  BY DEF RangeReadSummaries
<1> USE DEF clusterVars, storeVars, answerVars
<1>2. query \in {"EventHeatMap", "GetResSummaryData", "Namespaces", "Kinds"}
  BY <1>1 DEF IndInv, StageInv
<1>3. next \in {"activity", "render"} /\ (next = "activity" <=> query = "EventHeatMap")
  OBVIOUS
<1>4. /\ query = "Kinds" =>
           kindExists' = kindExists \cup {v.res.kind : v \in kept} /\ raw' = raw
      /\ query # "Kinds" =>
           raw' = [raw EXCEPT !.resources = @ \cup kept] /\ kindExists' = kindExists
  BY DEF RangeReadSummaries
<1> HIDE DEF next
<1>5. /\ RangeOK /\ cur \in PartitionList /\ PartitionList' = PartitionList
      /\ cur' \in PartitionList' /\ cur' \in Nat /\ AnswerInv' /\ DOMAIN raw = DOMAIN NoRaw
      /\ Summaries' = Summaries /\ Resources' = Resources
  BY <1>1, <1>3, ReadStep
<1>6. /\ raw'.resources = IF query = "Kinds" THEN raw.resources ELSE raw.resources \cup kept
      /\ raw'.events = raw.events /\ raw'.activity = raw.activity /\ raw'.watch = raw.watch
      /\ DOMAIN raw' = DOMAIN NoRaw
  BY <1>4, <1>5 DEF NoRaw
<1>7. kept \subseteq ressum /\ \A v \in ressum : v \in kept <=> v.part = cur /\ KeepsSummary(v)
  OBVIOUS
<1>8. query # "Kinds" => \A v : KeepsSummary(v)' = KeepsSummary(v)
  BY <1>1, <1>4 DEF KeepsSummary, ParamFilterResSum, IsResSummaryValInTimeRange, IsNamespace,
                    KeepResourceSummaryKind
<1>9. query = "Kinds" => \A v \in ressum : v.part = cur => v.res.kind \in kindExists'
  <2>1. ASSUME query = "Kinds", NEW v \in ressum, v.part = cur, v.res.kind \notin kindExists
        PROVE  v.res.kind \in kindExists'
    <3>1. v \in kept
      BY <1>7, <2>1 DEF KeepsSummary, KeepResourceSummaryKind
    <3> HIDE DEF kept
    <3> QED
      BY <1>4, <2>1, <3>1
  <2> QED
    BY <1>4, <2>1
<1>10. query = "Kinds" => kindExists \subseteq kindExists'
  BY <1>4
<1> HIDE DEF kept
<1>11. \/ /\ pc' = "resources"
          /\ \A x \in PartOf(range'.start) .. cur' - 1 :
               x = cur \/ x \in PartOf(range.start) .. cur - 1
       \/ /\ pc' = next /\ PartOf(range'.start) .. cur' - 1 = {}
          /\ \A x \in PartitionList : x = cur \/ x \in PartOf(range.start) .. cur - 1
  BY <1>1, <1>5, AdvanceFacts
<1>12. TypeOK'
  <2>1. raw'.resources \subseteq Summaries
    BY <1>6, <1>7 DEF IndInv, TypeOK
  <2> QED
    BY <1>1, <1>3, <1>5, <1>6, <1>11, <2>1 DEF IndInv, TypeOK
<1>13. StoreInv'
  <2>1. raw'.resources \subseteq ressum \cup raw.resources
    BY <1>6, <1>7
  <2> QED
    BY <1>1, <1>5, <2>1 DEF IndInv, StoreInv
<1>14. StageInv'
  BY <1>1, <1>2, <1>3, <1>5, <1>6, <1>11 DEF IndInv, StageInv
<1>15. ReadInv'
  <2>1. ASSUME NEW v \in ressum, v.part \in Behind("resources", {"activity", "render", "done"})'
        PROVE  IF query = "Kinds" THEN v.res.kind \in kindExists'
                                  ELSE KeepsSummary(v) => v \in raw'.resources
    <3>1. v.part = cur \/ v.part \in PartOf(range.start) .. cur - 1
      BY <1>3, <1>5, <1>11, <2>1 DEF Behind
    <3>2. CASE v.part = cur
      BY <1>6, <1>7, <1>9, <2>1, <3>2
    <3>3. CASE v.part \in PartOf(range.start) .. cur - 1
      <4>1. IF query = "Kinds" THEN v.res.kind \in kindExists
                               ELSE KeepsSummary(v) => v \in raw.resources
        BY <1>1, <1>2, <2>1, <3>3 DEF IndInv, ReadInv, SummariesRead, Behind
      <4> QED
        BY <1>6, <1>10, <4>1
    <3> QED
      BY <3>1, <3>2, <3>3
  <2>2. SummariesRead'
    BY <1>1, <1>8, <2>1 DEF SummariesRead
  <2>3. CountsRead'
    <3>1. \A c : ParamEventCountSum(c)' = ParamEventCountSum(c)
      BY <1>1 DEF ParamEventCountSum
    <3>2. Behind("events", {"resources", "activity", "render", "done"}) = PartitionList
      BY <1>1 DEF Behind
    <3>3. Behind("events", {"resources", "activity", "render", "done"})' = PartitionList
      BY <1>3, <1>5, <1>11 DEF Behind
    <3> QED
      BY <1>1, <1>6, <3>1, <3>2, <3>3 DEF IndInv, ReadInv, CountsRead
  <2>4. ActivityRead'
    <3>1. query = "EventHeatMap" => Behind("activity", {"render", "done"})' = {}
      BY <1>3, <1>11 DEF Behind
    <3> QED
      BY <1>1, <3>1 DEF ActivityRead
  <2> QED
    BY <1>1, <1>2, <2>2, <2>3, <2>4 DEF ReadInv, EventsRead
<1>16. SelectInv'
  <2>1. query \in {"EventHeatMap", "GetResSummaryData"} => \A v \in raw'.resources : KeepsSummary(v)
    BY <1>6, <1>7 DEF IndInv, SelectInv
  <2> QED
    BY <1>1, <1>2, <1>5, <1>6, <1>8, <2>1 DEF IndInv, SelectInv
<1> QED
  BY <1>5, <1>12, <1>13, <1>14, <1>15, <1>16 DEF IndInv

(* A request that has read everything is answered.                          *)
LEMMA RenderStep ==
    ASSUME IndInv, pc = "render", pc' = "done",
           UNCHANGED <<clusterVars, storeVars, query, sel, range, cur, raw, kindExists>>
    PROVE  StoreInv' /\ StageInv' /\ ReadInv' /\ SelectInv'
<1> USE DEF clusterVars, storeVars
<1>1. StoreInv' /\ StageInv'
  BY DEF IndInv, StoreInv, StageInv, Resources, PartitionList
<1>2. \A v : KeepsSummary(v)' = KeepsSummary(v)
  BY DEF KeepsSummary, ParamFilterResSum, IsResSummaryValInTimeRange, IsNamespace,
         KeepResourceSummaryKind
<1>3. \A e : (HasKeyPrefix(e) /\ IsEventValInTimeRange(e) /\ MatchEventInvolvedObject(e))'
           <=> (HasKeyPrefix(e) /\ IsEventValInTimeRange(e) /\ MatchEventInvolvedObject(e))
  BY DEF HasKeyPrefix, IsEventValInTimeRange, MatchEventInvolvedObject
<1>4. SelectInv'
  BY <1>2, <1>3 DEF IndInv, SelectInv, PartitionList
<1>5. /\ \A t, after : t \notin {"render", "done"} /\ "render" \in after /\ "done" \in after =>
                         Behind(t, after)' = Behind(t, after)
  BY DEF Behind, PartitionList
<1>6. CountsRead' /\ ActivityRead'
  BY <1>5 DEF IndInv, ReadInv, CountsRead, ActivityRead, ParamEventCountSum, ParamFilterWatchActivity
<1>7. SummariesRead'
  BY <1>2, <1>5 DEF IndInv, ReadInv, SummariesRead
<1>8. EventsRead'
  BY <1>3, <1>5 DEF IndInv, ReadInv, EventsRead
<1> QED
  BY <1>1, <1>4, <1>6, <1>7, <1>8 DEF ReadInv

(* The heat map is drawn.                                                   *)
LEMMA RenderHeatMapKeepsInv ==
    ASSUME IndInv, RenderHeatMap
    PROVE  IndInv'
<1>1. PICK order \in SetToSeqs(DOMAIN GanttMap) : rows' = HeatMapRows(GanttMap, order)
  BY DEF RenderHeatMap
<1>2. /\ pc = "render" /\ pc' = "done" /\ query = "EventHeatMap"
      /\ UNCHANGED <<clusterVars, storeVars, query, sel, range, cur, raw, kindExists,
                     offered, found, eventsList>>
  BY DEF RenderHeatMap
<1> USE DEF clusterVars, storeVars
<1>3. RangeOK /\ range.end <= now /\ TypeOK /\ StoreInv
  BY <1>2, RangeFacts DEF IndInv, StageInv
<1>4. TypeOK'
  <2>1. ASSUME NEW r \in DOMAIN rows'
        PROVE  /\ rows'[r].start \in Times /\ rows'[r].end \in Times /\ rows'[r].duration \in Nat
               /\ \A o \in rows'[r].overlays : o.duration \in Nat
    <3> DEFINE g == GanttMap[r]
               h == rows'
    <3>1. h = HeatMapRows(GanttMap, order)
      BY <1>1
    <3> HIDE DEF h
    <3>2. /\ r \in DOMAIN GanttMap /\ h[r].start = g.start /\ h[r].end = g.end
          /\ h[r].duration = g.duration /\ \A o \in h[r].overlays : o \in Overlay
      <4>1. r \in DOMAIN h
        BY <2>1 DEF h
      <4> HIDE DEF g
      <4>2. DOMAIN h = DOMAIN GanttMap /\ h[r].start = g.start /\ h[r].end = g.end /\ h[r].duration = g.duration
        BY <3>1, <4>1 DEF HeatMapRows, g
      <4>3. \A o \in h[r].overlays : o \in Overlay
        <5>1. HasItsOverlays(h, r)
          BY <1>3, <3>1, <4>1, RowsFacts
        <5> QED
          BY <5>1 DEF HasItsOverlays
      <4> QED
        BY <4>1, <4>2, <4>3
    <3>3. /\ g.start \in Nat /\ g.end \in Nat /\ g.start <= g.end /\ g.end <= range.end
          /\ g.duration = g.end - g.start
      BY <1>3, <3>2, GanttFacts
    <3> HIDE DEF g
    <3>4. now \in 0 .. MaxTime /\ MaxTime \in Nat
      BY <1>3, NowFacts DEF Times
    <3>5. range.end \in Nat
      BY <1>3 DEF RangeOK
    <3>6. g.start \in Times /\ g.end \in Times /\ g.duration \in Nat
      BY <1>3, <3>3, <3>4, <3>5 DEF Times
    <3> QED
      BY <3>2, <3>6 DEF Overlay, OverlayType, h
  <2> QED
    BY <1>2, <2>1 DEF IndInv, TypeOK, Summaries, Resources
<1>5. AnswerInv'
  <2>1. GanttMap' = GanttMap
    BY <1>2 DEF GanttMap, TimeFilterResSum, AdjustLastSeenTime
  <2>2. \A g, o : HeatMapRows(g, o)' = HeatMapRows(g, o)
    BY <1>2 DEF HeatMapRows, TimeFilterWatchActivity, TimeFilterEvents
  <2>3. found = {} /\ eventsList = {}
    BY <1>2 DEF IndInv, AnswerInv
  <2> QED
    BY <1>1, <1>2, <2>1, <2>2, <2>3 DEF AnswerInv
<1> QED
  BY <1>2, <1>4, <1>5, RenderStep DEF IndInv

(* A list is made.                                                          *)
LEMMA RenderListKeepsInv ==
    ASSUME IndInv, RenderList
    PROVE  IndInv'
<1>1. /\ pc = "render" /\ pc' = "done" /\ query \in {"Kinds", "Namespaces"}
      /\ query = "Kinds" => kindExists \subseteq offered'
      /\ query = "Namespaces" => {v.res.name : v \in raw.resources} \subseteq offered'
      /\ UNCHANGED <<clusterVars, storeVars, query, sel, range, cur, raw, kindExists,
                     rows, found, eventsList>>
  BY DEF RenderList, ResSumRowsToNamespaceStrings
<1> USE DEF clusterVars, storeVars
<1>2. TypeOK'
  BY <1>1 DEF IndInv, TypeOK, Summaries, Resources
<1>3. AnswerInv'
  BY <1>1 DEF IndInv, AnswerInv
<1> QED
  BY <1>1, <1>2, <1>3, RenderStep DEF IndInv

(* A summary is chosen.                                                     *)
LEMMA RenderSummaryKeepsInv ==
    ASSUME IndInv, RenderSummary
    PROVE  IndInv'
<1>1. /\ pc = "render" /\ pc' = "done" /\ query = "GetResSummaryData"
      /\ UNCHANGED <<clusterVars, storeVars, query, sel, range, cur, raw, kindExists,
                     rows, offered, eventsList>>
  BY DEF RenderSummary
<1>2. found' \subseteq raw.resources /\ (raw.resources # {} => found' # {})
  BY DEF RenderSummary
<1> USE DEF clusterVars, storeVars
<1>3. TypeOK'
  BY <1>1, <1>2 DEF IndInv, TypeOK, Summaries, Resources
<1>4. AnswerInv'
  BY <1>1, <1>2 DEF IndInv, AnswerInv
<1> QED
  BY <1>1, <1>3, <1>4, RenderStep DEF IndInv

(* Events are listed.                                                       *)
LEMMA RenderEventsKeepsInv ==
    ASSUME IndInv, RenderEvents
    PROVE  IndInv'
<1>1. /\ pc = "render" /\ pc' = "done" /\ query = "GetEventData" /\ eventsList' = raw.watch
      /\ UNCHANGED <<clusterVars, storeVars, query, sel, range, cur, raw, kindExists,
                     rows, offered, found>>
  BY DEF RenderEvents
<1> USE DEF clusterVars, storeVars
<1>2. TypeOK'
  BY <1>1 DEF IndInv, TypeOK, Summaries, Resources
<1>3. AnswerInv'
  BY <1>1 DEF IndInv, AnswerInv
<1> QED
  BY <1>1, <1>2, <1>3, RenderStep DEF IndInv

(* The invariant holds in the beginning.                                    *)
LEMMA InitInv == Init => IndInv
<1> SUFFICES ASSUME Init PROVE IndInv
  OBVIOUS
<1>1. PICK p \in Populations : created = [r \in p |-> Never] /\ deletedAt = [r \in p |-> Never]
  BY DEF Init
<1>2. /\ now = 0 /\ records = 0 /\ ressum = {} /\ activity = {} /\ counts = {} /\ watch = {}
      /\ pc = "idle" /\ query = "none" /\ cur = 0 /\ raw = NoRaw /\ rows = NoRows
      /\ found = {} /\ eventsList = {}
  BY DEF Init
<1>3. /\ raw.resources = {} /\ raw.events = {} /\ raw.activity = {} /\ raw.watch = {}
      /\ DOMAIN rows = {}
  BY <1>2 DEF NoRaw, NoRows
<1>4. MaxTime \in Nat /\ MaxRecords \in Nat
  BY HeatMapAssumption
<1>5. TypeOK
  <2>1. now \in Times /\ records \in 0 .. MaxRecords
    BY <1>2, <1>4 DEF Times
  <2>2. created \in [p -> Times \cup {Never}] /\ deletedAt \in [p -> Times \cup {Never}]
    BY <1>1
  <2> QED
    BY <1>2, <1>3, <2>1, <2>2 DEF TypeOK
<1>6. StoreInv
  BY <1>1, <1>2, <1>3 DEF StoreInv, Resources, Never
<1>7. StageInv
  BY <1>2 DEF StageInv
<1>8. ReadInv /\ SelectInv /\ AnswerInv
  BY <1>2 DEF ReadInv, CountsRead, SummariesRead, ActivityRead, EventsRead, SelectInv, AnswerInv
<1> QED
  BY <1>5, <1>6, <1>7, <1>8 DEF IndInv

(* A step that changes nothing.                                             *)
LEMMA StutterKeepsInv ==
    ASSUME IndInv, UNCHANGED vars
    PROVE  IndInv'
<1> USE DEF vars, clusterVars, storeVars, answerVars
<1>1. TypeOK' /\ StoreInv' /\ StageInv'
  BY DEF IndInv, TypeOK, StoreInv, StageInv, Summaries, Resources, PartitionList
<1>2. ReadInv'
  BY DEF IndInv, ReadInv, CountsRead, SummariesRead, ActivityRead, EventsRead, Behind, PartitionList,
         ParamEventCountSum, KeepsSummary, ParamFilterResSum, IsResSummaryValInTimeRange, IsNamespace,
         KeepResourceSummaryKind, ParamFilterWatchActivity, HasKeyPrefix, IsEventValInTimeRange,
         MatchEventInvolvedObject
<1>3. SelectInv' /\ AnswerInv'
  BY AnswerIsKept DEF IndInv, queryVars
<1> QED
  BY <1>1, <1>2, <1>3 DEF IndInv

(* Every step keeps the invariant.                                          *)
LEMMA NextKeepsInv == IndInv /\ [Next]_vars => IndInv'
<1> SUFFICES ASSUME IndInv, [Next]_vars PROVE IndInv'
  OBVIOUS
<1>1. CASE Tick
  BY <1>1, TickKeepsInv
<1>2. CASE \E r \in Resources : \/ \E type \in {"ADD", "UPDATE", "DELETE"} : Process(r, type)
                                \/ CountEvent(r) \/ StoreEvent(r)
  BY <1>2, ProcessKeepsInv, CountEventKeepsInv, StoreEventKeepsInv
<1>3. CASE \E table \in Tables : GcDrops(table)
  BY <1>3, GcDropsKeepsInv
<1>4. CASE Request
  <2>1. pc = "idle"
    BY <1>4 DEF Request
  <2>2. PICK r \in Ranges :
          \/ \E q \in {"EventHeatMap", "GetResSummaryData"}, s \in Selections(Resources) :
               BeginQuery(q, s, r)
          \/ \E s \in {t \in Selections(Resources) : t.name # All} :
               BeginQuery("GetEventData", s, r)
          \/ \E q \in {"Kinds", "Namespaces"} : BeginQuery(q, All, r)
    BY <1>4 DEF Request
  <2>3. ASSUME NEW q \in {"EventHeatMap", "GetResSummaryData"}, NEW s \in Selections(Resources),
               BeginQuery(q, s, r)
        PROVE  IndInv'
    BY <2>1, <2>3, BeginQueryKeepsInv
  <2>4. ASSUME NEW s \in Selections(Resources), BeginQuery("GetEventData", s, r) PROVE IndInv'
    BY <2>1, <2>4, BeginQueryKeepsInv
  <2>5. ASSUME NEW q \in {"Kinds", "Namespaces"}, BeginQuery(q, All, r) PROVE IndInv'
    BY <2>1, <2>5, BeginQueryKeepsInv
  <2> QED
    BY <2>2, <2>3, <2>4, <2>5
<1>5. CASE RangeReadEventCounts
  BY <1>5, ReadEventCountsKeepsInv
<1>6. CASE RangeReadSummaries
  BY <1>6, ReadSummariesKeepsInv
<1>7. CASE RangeReadActivity
  BY <1>7, ReadActivityKeepsInv
<1>8. CASE RangeReadWatch
  BY <1>8, ReadWatchKeepsInv
<1>9. CASE ReadFails \/ Respond
  BY <1>9, ClearKeepsInv DEF ReadFails, Respond
<1>10. CASE RenderHeatMap \/ RenderList \/ RenderSummary \/ RenderEvents
  BY <1>10, RenderHeatMapKeepsInv, RenderListKeepsInv, RenderSummaryKeepsInv, RenderEventsKeepsInv
<1>11. CASE UNCHANGED vars
  BY <1>11, StutterKeepsInv
<1> QED
  BY <1>1, <1>2, <1>3, <1>4, <1>5, <1>6, <1>7, <1>8, <1>9, <1>10, <1>11 DEF Next

-----------------------------------------------------------------------------
(* What the invariant says of the answers                                   *)

(* The summaries that survive and are selected were read.                   *)
LEMMA SurvivorsWereRead ==
    ASSUME IndInv, pc = "done", NEW v \in Surviving,
           query \in {"EventHeatMap", "GetResSummaryData", "Namespaces", "Kinds"}
    PROVE  /\ v \in ressum
           /\ IF query = "Kinds" THEN v.res.kind \in kindExists
                                 ELSE KeepsSummary(v) => v \in raw.resources
<1>1. v \in ressum /\ v.part \in PartitionList
  BY DEF Surviving, PartitionList
<1>2. Behind("resources", {"activity", "render", "done"}) = PartitionList
  BY DEF Behind
<1> QED
  BY <1>1, <1>2 DEF IndInv, ReadInv, SummariesRead

(* What is known of a heat map that is being answered.                      *)
LEMMA DoneFacts ==
    ASSUME IndInv, pc = "done", query = "EventHeatMap"
    PROVE  /\ TypeOK /\ StoreInv /\ RangeOK
           /\ \E order \in SetToSeqs(DOMAIN GanttMap) : rows = HeatMapRows(GanttMap, order)
           /\ DOMAIN rows = DOMAIN GanttMap
           /\ \A r \in DOMAIN rows :
                /\ rows[r].start = GanttMap[r].start /\ rows[r].end = GanttMap[r].end
                /\ r \in Resources /\ Wanted(r)
<1>1. TypeOK /\ StoreInv /\ RangeOK
  BY RangeFacts DEF IndInv
<1>2. PICK order \in SetToSeqs(DOMAIN GanttMap) : rows = HeatMapRows(GanttMap, order)
  BY DEF IndInv, AnswerInv
<1>3. /\ DOMAIN rows = DOMAIN GanttMap
      /\ \A r \in DOMAIN rows : rows[r].start = GanttMap[r].start /\ rows[r].end = GanttMap[r].end
  BY <1>2 DEF HeatMapRows
<1>4. ASSUME NEW r \in DOMAIN GanttMap PROVE r \in Resources /\ Wanted(r)
  <2>1. PICK v \in raw.resources : r = v.res
    BY <1>1, GanttFacts
  <2>2. KeepsSummary(v)
    BY DEF IndInv, SelectInv
  <2>3. KeepRowHelper(r, sel)
    BY <2>1, <2>2 DEF KeepsSummary, ParamFilterResSum
  <2> QED
    BY <1>1, <2>3, KeepsWhatIsWanted, RowsAreFinite
<1> QED
  BY <1>1, <1>2, <1>3, <1>4

(* RowsShowLifetimes                                                        *)
LEMMA LifetimesFollow == IndInv => RowsShowLifetimes
<1> SUFFICES ASSUME IndInv, pc = "done", query = "EventHeatMap"
             PROVE  /\ \A v \in Surviving : Wanted(v.res) =>
                         v.res \in DOMAIN rows /\ rows[v.res].end >= LastsTo(v)
                    /\ \A r \in DOMAIN rows :
                         /\ Wanted(r)
                         /\ rows[r].start = Max({created[r], range.start})
                         /\ \E v \in raw.resources :
                              v.res = r /\ v.last >= range.start /\ rows[r].end = LastsTo(v)
  BY DEF RowsShowLifetimes
<1>1. /\ TypeOK /\ StoreInv /\ RangeOK /\ DOMAIN rows = DOMAIN GanttMap
      /\ \A r \in DOMAIN rows :
           rows[r].start = GanttMap[r].start /\ rows[r].end = GanttMap[r].end /\ Wanted(r)
  BY DoneFacts
<1>2. ASSUME NEW v \in raw.resources, Lived(v)
      PROVE  SeenTo(v) \in Nat /\ SeenTo(v) = LastsTo(v)
  <2>1. v \in Summaries /\ v.create <= v.first /\ v.first <= v.last
    BY <1>1 DEF TypeOK, StoreInv
  <2>2. v.create \in Nat /\ v.first \in Nat /\ v.last \in Nat
    BY <2>1, SummaryFacts
  <2>3. v.create <= v.last
    BY <2>1, <2>2
  <2> QED
    BY <1>1, <1>2, <2>1, <2>3, SeenWithinRange
<1>3. ASSUME NEW r \in DOMAIN rows
      PROVE  /\ Wanted(r) /\ rows[r].start = Max({created[r], range.start})
             /\ rows[r].end \in Nat
  BY <1>1, GanttFacts
<1>4. ASSUME NEW r \in DOMAIN rows
      PROVE  \E v \in raw.resources :
               v.res = r /\ v.last >= range.start /\ rows[r].end = LastsTo(v)
  <2>1. PICK v \in raw.resources : v.res = r /\ Lived(v) /\ GanttMap[r].end = SeenTo(v)
    BY <1>1, GanttFacts
  <2>2. v.last >= range.start /\ rows[r].end = LastsTo(v)
    BY <1>1, <1>2, <2>1 DEF Lived
  <2> QED
    BY <2>1, <2>2
<1>5. ASSUME NEW v \in Surviving, Wanted(v.res)
      PROVE  v.res \in DOMAIN rows /\ rows[v.res].end >= LastsTo(v)
  <2>1. KeepsSummary(v)
    BY <1>5, KeepsWhatIsWanted DEF KeepsSummary, ParamFilterResSum
  <2>2. v \in raw.resources
    BY <2>1, SurvivorsWereRead
  <2>3. Lived(v)
    BY DEF Lived, Surviving
  <2>4. v.res \in DOMAIN rows /\ SeenTo(v) <= GanttMap[v.res].end
    BY <1>1, <2>2, <2>3, GanttFacts
  <2>5. rows[v.res].end \in Nat /\ rows[v.res].end = GanttMap[v.res].end
    BY <1>1, <1>3, <2>4
  <2> QED
    BY <1>2, <2>2, <2>3, <2>4, <2>5
<1> QED
  BY <1>3, <1>4, <1>5

(* FindsWhatIsThere                                                         *)
LEMMA FindsFollows == IndInv => FindsWhatIsThere
<1> DEFINE seen(v) == v.first <= range.end /\ v.last >= range.start
<1> SUFFICES ASSUME IndInv, pc = "done"
             PROVE  /\ \A v \in Surviving :
                         /\ query = "Kinds" => v.res.kind \in offered
                         /\ query = "Namespaces" /\ IsNamespace(v) => v.res.name \in offered
                         /\ query = "GetResSummaryData" /\ Wanted(v.res) /\ seen(v) => found # {}
                    /\ \A v \in found : Wanted(v.res) /\ seen(v)
  BY DEF FindsWhatIsThere
<1>1. ASSUME NEW v \in Surviving, query = "Kinds" PROVE v.res.kind \in offered
  BY <1>1, SurvivorsWereRead DEF IndInv, AnswerInv
<1>2. ASSUME NEW v \in Surviving, query = "Namespaces", IsNamespace(v)
      PROVE  v.res.name \in offered
  <2>1. v \in raw.resources
    BY <1>2, SurvivorsWereRead DEF KeepsSummary
  <2> QED
    BY <1>2, <2>1 DEF IndInv, AnswerInv
<1>3. ASSUME NEW v \in Surviving, query = "GetResSummaryData", Wanted(v.res), seen(v)
      PROVE  found # {}
  <2>1. KeepsSummary(v)
    BY <1>3, KeepsWhatIsWanted DEF KeepsSummary, ParamFilterResSum, IsResSummaryValInTimeRange
  <2>2. v \in raw.resources
    BY <1>3, <2>1, SurvivorsWereRead
  <2> QED
    BY <1>3, <2>2 DEF IndInv, AnswerInv
<1>4. ASSUME NEW v \in found PROVE Wanted(v.res) /\ seen(v)
  <2>1. query = "GetResSummaryData" /\ v \in raw.resources
    BY DEF IndInv, AnswerInv
  <2>2. KeepsSummary(v)
    BY <2>1 DEF IndInv, SelectInv
  <2> QED
    BY <2>1, <2>2, KeepsWhatIsWanted DEF KeepsSummary, ParamFilterResSum, IsResSummaryValInTimeRange
<1> QED
  BY <1>1, <1>2, <1>3, <1>4

(* EventsAreOfTheResource                                                   *)
LEMMA EventsFollow == IndInv => EventsAreOfTheResource
<1> SUFFICES ASSUME IndInv, pc = "done", query = "GetEventData"
             PROVE  EventsAreOfTheResource
  BY DEF EventsAreOfTheResource
<1> DEFINE Asked(e) == HasKeyPrefix(e) /\ IsEventValInTimeRange(e) /\ MatchEventInvolvedObject(e)
<1>1. eventsList = raw.watch
  BY DEF IndInv, AnswerInv
<1>2. ASSUME NEW e \in watch \cup raw.watch
      PROVE  e.obj \in Resources /\ (e.obj.kind \in {"Node", "Namespace"} => e.obj.namespace = "")
  <2>1. e.obj \in Resources
    BY DEF IndInv, TypeOK
  <2> QED
    BY <2>1, ResourceFacts DEF IndInv
<1>3. ASSUME ~NameIsContinued, NEW e \in raw.watch
      PROVE  /\ e.obj.kind = sel.kind /\ e.obj.name = sel.name
             /\ e.obj.namespace \in {"", sel.namespace}
             /\ e.first <= range.end /\ e.last >= range.start
             /\ e.part \in PartitionList
  <2>1. e.part \in PartitionList /\ Asked(e)
    BY DEF IndInv, SelectInv
  <2>2. e.obj.kind = sel.kind /\ e.obj.name \in sel.dotted
    BY <2>1 DEF HasKeyPrefix, MatchEventInvolvedObject
  <2>3. e.obj.namespace \in {"", sel.namespace}
    BY <1>2, <2>1, <2>2 DEF HasKeyPrefix, EventNamespace, IsClustersScopedResource
  <2>4. e.obj.name = sel.name
    BY <1>2, <1>3, <2>2, <2>3 DEF NameIsContinued
  <2> QED
    BY <2>1, <2>2, <2>3, <2>4 DEF IsEventValInTimeRange
<1>4. sel.name \in sel.dotted
  <2>1. sel \in Selections(Resources)
    BY DEF IndInv, StageInv
  <2>2. PICK p \in Populations : created \in [p -> Times \cup {Never}]
    BY DEF IndInv, TypeOK
  <2>3. Resources = p
    BY <2>2 DEF Resources
  <2> QED
    BY <2>1, <2>3, HeatMapAssumption
<1>5. ASSUME NEW e \in watch,
             e.obj.kind = sel.kind, e.obj.name = sel.name,
             e.obj.namespace \in {"", sel.namespace},
             e.first <= range.end, e.last >= range.start, e.part \in PartitionList,
             e.obj.namespace = "" => IsClustersScopedResource(e.obj.kind)
      PROVE  e \in raw.watch
  <2>1. HasKeyPrefix(e)
    <3>1. CASE e.obj.namespace = ""
      BY <1>4, <1>5, <3>1 DEF HasKeyPrefix, EventNamespace, IsClustersScopedResource
    <3>2. CASE e.obj.namespace # ""
      <4>1. sel.kind \notin {"Node", "Namespace"} /\ e.obj.namespace = sel.namespace
        BY <1>2, <1>5, <3>2
      <4> QED
        BY <1>4, <1>5, <3>2, <4>1 DEF HasKeyPrefix, EventNamespace, IsClustersScopedResource
    <3> QED
      BY <3>1, <3>2
  <2>2. Asked(e)
    BY <1>5, <2>1 DEF IsEventValInTimeRange, MatchEventInvolvedObject
  <2>3. Behind("watch", {"render", "done"}) = PartitionList
    BY DEF Behind
  <2> QED
    BY <1>5, <2>2, <2>3 DEF IndInv, ReadInv, EventsRead
<1> QED
  BY <1>1, <1>3, <1>5 DEF EventsAreOfTheResource, PartitionList

(* RowsJoinTheirOwn                                                         *)
LEMMA JoinFollows == IndInv => RowsJoinTheirOwn
<1> SUFFICES ASSUME IndInv, NEW r \in Shown
             PROVE  LET acts(S)    == {a.at : a \in {b \in S :
                                         b.res = r /\ b.at \in range.start .. range.end}}
                        minutes(S) == {c.minute : c \in {d \in S :
                                         /\ d.key = InvolvedObject(r)
                                         /\ PartOf(d.minute) \in
                                              PartOf(range.start) .. PartOf(range.end)}}
                        has   == rows[r].changedAt \cup rows[r].noChangeAt
                        shows == {o.minute : o \in rows[r].overlays}
                    IN  /\ acts(activity) \subseteq has /\ has \subseteq acts(raw.activity)
                        /\ minutes(counts) \subseteq shows /\ shows \subseteq minutes(raw.events)
  BY DEF RowsJoinTheirOwn
<1>1. pc = "done" /\ query = "EventHeatMap" /\ r \in DOMAIN rows
  BY DEF Shown
<1>2. PICK order \in SetToSeqs(DOMAIN GanttMap) : rows = HeatMapRows(GanttMap, order)
  BY <1>1, DoneFacts
<1>3. TypeOK /\ StoreInv /\ RangeOK /\ r \in Resources /\ Wanted(r)
  BY <1>1, DoneFacts
<1> DEFINE in == TimeFilterWatchActivity(raw.activity)
<1>4. /\ rows[r].changedAt = WatchActivityToMap(in, r, TRUE)
      /\ rows[r].noChangeAt = WatchActivityToMap(in, r, FALSE)
  BY <1>1, <1>2 DEF HeatMapRows
<1>5. KeepRowHelper(r, sel)
  BY <1>3, KeepsWhatIsWanted
<1>6. ASSUME NEW a \in activity \cup raw.activity PROVE a.at \in Nat /\ a.changed \in BOOLEAN
  <2>1. a \in [res : Resources, at : Times, changed : BOOLEAN]
    BY <1>3 DEF TypeOK
  <2>2. a.at \in Times
    BY <2>1
  <2>3. a.changed \in BOOLEAN
    BY <2>1, Zenon
  <2> QED
    BY <1>3, <2>2, <2>3, NowFacts
<1>7. \A x : x \in rows[r].changedAt \cup rows[r].noChangeAt <=>
               \E a \in raw.activity : /\ a.res = r /\ a.at = x
                                       /\ a.at >= range.start /\ a.at <= range.end
  <2>1. \A x : x \in rows[r].changedAt <=> \E a \in in : a.res = r /\ a.changed = TRUE /\ a.at = x
    BY <1>4 DEF WatchActivityToMap
  <2>2. \A x : x \in rows[r].noChangeAt <=> \E a \in in : a.res = r /\ a.changed = FALSE /\ a.at = x
    BY <1>4 DEF WatchActivityToMap
  <2>3. \A a : a \in in <=> a \in raw.activity /\ a.at >= range.start /\ a.at <= range.end
    BY DEF TimeFilterWatchActivity
  <2>4. \A a \in in : a.changed = TRUE \/ a.changed = FALSE
    BY <1>6, <2>3
  <2> HIDE DEF in
  <2> QED
    BY <2>1, <2>2, <2>3, <2>4
<1>8. ASSUME NEW a \in activity, a.res = r, a.at \in range.start .. range.end
      PROVE  a.at \in rows[r].changedAt \cup rows[r].noChangeAt
  <2>1. range.start \in Nat /\ range.end \in Nat /\ a.at \in Nat
        /\ range.start <= a.at /\ a.at <= range.end
    BY <1>3, <1>6, <1>8 DEF RangeOK
  <2>2. PartOf(a.at) \in PartitionList
    <3>1. /\ PartOf(range.start) \in Nat /\ PartOf(a.at) \in Nat
          /\ PartOf(range.start) <= PartOf(a.at)
      BY <2>1, ListFacts
    <3>2. PartOf(range.end) \in Nat /\ PartOf(a.at) <= PartOf(range.end)
      BY <2>1, ListFacts
    <3> QED
      BY <3>1, <3>2 DEF PartitionList
  <2>3. Behind("activity", {"render", "done"}) = PartitionList
    BY <1>1 DEF Behind
  <2>4. ParamFilterWatchActivity(a)
    BY <1>5, <1>8 DEF ParamFilterWatchActivity
  <2>5. a \in raw.activity
    BY <1>1, <2>2, <2>3, <2>4 DEF IndInv, ReadInv, ActivityRead
  <2> QED
    BY <1>7, <1>8, <2>1, <2>5
<1>9. ASSUME NEW x \in rows[r].changedAt \cup rows[r].noChangeAt
      PROVE  \E a \in raw.activity : a.res = r /\ a.at \in range.start .. range.end /\ a.at = x
  <2>1. PICK a \in raw.activity : /\ a.res = r /\ a.at = x
                                  /\ a.at >= range.start /\ a.at <= range.end
    BY <1>7
  <2>2. a.at \in range.start .. range.end
    BY <1>3, <1>6, <2>1 DEF RangeOK
  <2> QED
    BY <2>1, <2>2
<1>10. /\ DOMAIN r = {"kind", "namespace", "name", "uid"}
       /\ InvolvedObject(r) = OverlayKey(r)
  BY <1>3, ResourceFacts, KeyFacts
<1>11. /\ \A c \in raw.events :
            c.key = OverlayKey(r) => \E o \in rows[r].overlays : o.minute = c.minute
       /\ \A o \in rows[r].overlays :
            \E c \in raw.events : c.key = OverlayKey(r) /\ c.minute = o.minute
  <2> DEFINE h == rows
  <2>1. h = HeatMapRows(GanttMap, order) /\ r \in DOMAIN h
    BY <1>1, <1>2
  <2> HIDE DEF h
  <2>2. HasItsOverlays(h, r)
    BY <1>3, <2>1, RowsFacts
  <2> QED
    BY <2>2 DEF HasItsOverlays, h
<1>12. ASSUME NEW d \in counts, d.key = InvolvedObject(r), PartOf(d.minute) \in PartitionList
       PROVE  \E o \in rows[r].overlays : o.minute = d.minute
  <2>1. DOMAIN sel = {"kind", "namespace", "match", "name", "uid", "dotted"}
    <3>1. sel \in Selections(Resources)
      BY <1>1 DEF IndInv, StageInv
    <3>2. Resources \in Populations
      BY <1>3 DEF TypeOK, Resources
    <3> QED
      BY <3>1, <3>2, HeatMapAssumption
  <2>2. ParamEventCountSum(d)
    BY <1>5, <1>10, <1>12, <2>1, CountsArePassed
  <2>3. Behind("events", {"resources", "activity", "render", "done"}) = PartitionList
    BY <1>1 DEF Behind
  <2>4. d \in raw.events
    BY <1>1, <1>12, <2>2, <2>3 DEF IndInv, ReadInv, CountsRead
  <2> QED
    BY <1>10, <1>11, <1>12, <2>4
<1>13. ASSUME NEW o \in rows[r].overlays
       PROVE  \E c \in raw.events : /\ c.key = InvolvedObject(r)
                                    /\ PartOf(c.minute) \in PartitionList /\ c.minute = o.minute
  <2>1. PICK c \in raw.events : c.key = OverlayKey(r) /\ c.minute = o.minute
    BY <1>11
  <2>2. PartOf(c.minute) \in PartitionList
    BY <1>1 DEF IndInv, SelectInv
  <2> QED
    BY <1>10, <2>1, <2>2
<1> QED
  BY <1>8, <1>9, <1>12, <1>13 DEF PartitionList

(* OverlaysFitTheirRows                                                     *)
LEMMA OverlaysFollow == IndInv => OverlaysFitTheirRows
<1> SUFFICES ASSUME IndInv, NEW r \in Shown, NEW o \in rows[r].overlays
             PROVE  /\ o.duration >= 0 /\ o.start + o.duration = o.end
                    /\ /\ Alone(r) /\ o.minute <= rows[r].end
                       /\ o.minute + MinuteLen >= rows[r].start
                       => /\ o.start = Max({o.minute, rows[r].start})
                          /\ o.end = Min({o.minute + MinuteLen, rows[r].end})
  BY DEF OverlaysFitTheirRows
<1>1. pc = "done" /\ query = "EventHeatMap" /\ r \in DOMAIN rows
  BY DEF Shown
<1>2. PICK order \in SetToSeqs(DOMAIN GanttMap) : rows = HeatMapRows(GanttMap, order)
  BY <1>1, DoneFacts
<1>3. TypeOK /\ StoreInv /\ RangeOK
  BY <1>1, DoneFacts
<1> DEFINE h == rows
<1>4. h = HeatMapRows(GanttMap, order) /\ r \in DOMAIN h /\ o \in h[r].overlays
  BY <1>1, <1>2
<1> HIDE DEF h
<1>5. HasItsOverlays(h, r)
  BY <1>3, <1>4, RowsFacts
<1>6. o \in Overlay
  BY <1>4, <1>5 DEF HasItsOverlays
<1>7. o.duration \in Nat /\ o.start + o.duration = o.end
  BY <1>6 DEF Overlay, OverlayType
<1>8. ASSUME Alone(r), o.minute <= rows[r].end, o.minute + MinuteLen >= rows[r].start
      PROVE  /\ o.start = Max({o.minute, rows[r].start})
             /\ o.end = Min({o.minute + MinuteLen, rows[r].end})
  <2>1. /\ \A s \in DOMAIN h : OverlayKey(s) = OverlayKey(r) => s = r
        /\ o.minute <= h[r].end /\ o.minute + MinuteLen >= h[r].start
    BY <1>8 DEF Alone, h
  <2>2. /\ o.start = Max({o.minute, h[r].start})
        /\ o.end = Min({o.minute + MinuteLen, h[r].end})
    BY ONLY <1>4, <1>5, <2>1, Zenon DEF HasItsOverlays
  <2> QED
    BY <2>2 DEF h
<1>9. o.duration >= 0
  BY <1>7
<1> QED
  BY <1>7, <1>8, <1>9

-----------------------------------------------------------------------------
(* Theorems                                                                 *)

(* The invariant holds of every reachable state: a request has read all of  *)
(* what it selects in the partitions behind it, and its answer is made of   *)
(* that.                                                                    *)
THEOREM HeatMapInvariant == Spec => []IndInv
  BY InitInv, NextKeepsInv, PTL DEF Spec

(* Rows, minutes, summaries and answers have the types the code gives them; *)
(* durations are never negative.                                            *)
THEOREM HeatMapTypes == Spec => []TypeOK
<1>1. IndInv => TypeOK
  BY DEF IndInv
<1> QED
  BY <1>1, HeatMapInvariant, PTL

(* EventHeatMap3Query: the rows are those of the resources asked for that   *)
(* were seen in the range; they begin with the creation, and the summary    *)
(* with the latest end among those that were read says where they end.      *)
THEOREM HeatMapShowsLifetimes == Spec => []RowsShowLifetimes
  BY HeatMapInvariant, LifetimesFollow, PTL

(* mergeHeatmapWithResources, mergeHeatmapWithWatchActivity: a row has the  *)
(* activity and the event minutes of its own resource.                      *)
THEOREM HeatMapJoinsTheirOwn == Spec => []RowsJoinTheirOwn
  BY HeatMapInvariant, JoinFollows, PTL

(* adjustOverlays: overlays come out consistent, and fit their rows.        *)
THEOREM HeatMapOverlaysFit == Spec => []OverlaysFitTheirRows
  BY HeatMapInvariant, OverlaysFollow, PTL

(* KindQuery, NamespaceQuery, GetResSummaryData: what survives is found.    *)
THEOREM ListsFindWhatIsThere == Spec => []FindsWhatIsThere
  BY HeatMapInvariant, FindsFollows, PTL

(* GetEventData: all Events of the resource, and no other ones unless the   *)
(* name of another resource continues that of this one after a dot.         *)
THEOREM EventDataIsOfTheResource == Spec => []EventsAreOfTheResource
  BY HeatMapInvariant, EventsFollow, PTL
=============================================================================
