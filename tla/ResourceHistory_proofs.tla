----------------------- MODULE ResourceHistory_proofs -----------------------
(***************************************************************************)
(* Proofs about ResourceHistory: what the tables say of a resource through  *)
(* updates, deletions, failures, restarts and garbage collection.           *)
(***************************************************************************)
EXTENDS ResourceHistory, NumberLemmas

(* Every time has a partition, a natural number.                            *)
LEMMA PartsAreNaturals == Parts \subseteq Nat /\ \A t \in Times : PartOf(t) \in Parts
  BY ResourceHistoryAssumption, DivBounds DEF Parts, PartOf, Times

(* A record in hand has a time, a type and a resource.                      *)
LEMMA RecordInHand ==
    ASSUME TypeOK, rec # NoRecord
    PROVE  /\ rec \in [ts : Times, type : {"ADD", "UPDATE", "DELETE"}, obj : Object]
           /\ rec.ts \in Times /\ rec.ts # Never /\ Part \in Parts
           /\ rec.obj.uid \in Uids /\ rec.obj.version \in 1 .. MaxVersion
  BY PartsAreNaturals, ResourceHistoryAssumption DEF TypeOK, Record, Object, Part, Times, Never

(* What one step of the garbage collector does: it drops the rows of one    *)
(* partition from one table.                                                *)
LEMMA GcEffect ==
    ASSUME NEW table, GcDrops(table)
    PROVE  \E p \in Parts :
             /\ watch' \in {watch, [watch EXCEPT ![p] = NoRecord]}
             /\ activity' \in {activity, [activity EXCEPT ![p] = [u \in Uids |-> NoActivity]]}
             /\ summary' \in {summary, [summary EXCEPT ![p] = [u \in Uids |-> NoSummary]]}
             /\ forgot' = forgot \cup {p}
             /\ UNCHANGED <<envVars, rec, pc, last, versions, changes, deletedAt, records>>
<1> DEFINE p == Min(Partitions)
<1>1. Partitions # {} /\ Partitions \subseteq Parts /\ Parts \subseteq Nat
  BY PartsAreNaturals DEF GcDrops, Partitions
<1>2. p \in Parts
  BY <1>1, MinOfNaturals
<1>3. /\ watch' \in {watch, [watch EXCEPT ![p] = NoRecord]}
      /\ activity' \in {activity, [activity EXCEPT ![p] = [u \in Uids |-> NoActivity]]}
      /\ summary' \in {summary, [summary EXCEPT ![p] = [u \in Uids |-> NoSummary]]}
      /\ forgot' = forgot \cup {p}
      /\ UNCHANGED <<envVars, rec, pc, last, versions, changes, deletedAt, records>>
  BY DEF GcDrops
<1> HIDE DEF p
<1> QED
  BY <1>2, <1>3

-----------------------------------------------------------------------------
(* The cluster and the informer keep their types.                           *)
LEMMA ClusterTypeStep == TypeOK /\ ClusterInv /\ [Next]_vars => ClusterType'
<1> SUFFICES ASSUME TypeOK, ClusterInv, [Next]_vars PROVE ClusterType'
  OBVIOUS
<1> USE ResourceHistoryAssumption
    DEF TypeOK, ClusterType, Object, Uids, Times, envVars
<1>1. CASE Tick
  BY <1>1 DEF Tick
<1>2. CASE Create
  <2>1. version' \in 1 .. MaxVersion /\ uids' \in 1 .. MaxUid
    BY <1>2 DEF Create
  <2> QED
    BY <1>2, <2>1 DEF Create
<1>3. ASSUME NEW major \in BOOLEAN, Modify(major) PROVE ClusterType'
  <2>1. version' \in 1 .. MaxVersion
    BY <1>3 DEF Modify
  <2>2. obj' \in Object
    BY <1>3, <2>1 DEF Modify
  <2> QED
    BY <1>3, <2>1, <2>2 DEF Modify
<1>4. CASE Remove
  BY <1>4 DEF Remove
<1>5. CASE ReportAdd \/ ReportUpdate
  BY <1>5 DEF ReportAdd, ReportUpdate
<1>6. CASE ReportDelete \/ Restart
  BY <1>6 DEF ReportDelete, Restart
<1>7. CASE UpdateWatchActivityTable \/ UpdateKubeWatchTable \/ UpdateResourceSummaryTable
           \/ TxnFails \/ UNCHANGED vars
  BY <1>7 DEF UpdateWatchActivityTable, UpdateKubeWatchTable, UpdateResourceSummaryTable,
              TxnFails, vars
<1>8. ASSUME NEW table, GcDrops(table) PROVE ClusterType'
  BY <1>8 DEF GcDrops
<1> QED
  BY <1>1, <1>2, <1>3, <1>4, <1>5, <1>6, <1>7, <1>8 DEF Next

(* So does the processor's record in hand.                                  *)
LEMMA RecTypeStep ==
    TypeOK /\ [Next]_vars =>
        /\ rec' \in Record /\ pc' \in {"recv", "activity", "watch", "summary"}
        /\ pc' = "recv" <=> rec' = NoRecord
<1> DEFINE Inv == /\ rec \in Record /\ pc \in {"recv", "activity", "watch", "summary"}
                  /\ pc = "recv" <=> rec = NoRecord
<1> SUFFICES ASSUME TypeOK, [Next]_vars PROVE Inv'
  OBVIOUS
<1> USE DEF TypeOK
<1>1. CASE ReportAdd \/ ReportUpdate \/ ReportDelete
  <2>1. PICK type \in {"ADD", "UPDATE", "DELETE"}, o \in Object : Report(type, o)
    BY <1>1 DEF ReportAdd, ReportUpdate, ReportDelete, ClusterType
  <2> QED
    BY <2>1, ResourceHistoryAssumption
    DEF Report, Record, ClusterType, NoRecord, Times, Never
<1>2. CASE Restart
  BY <1>2 DEF Restart, Record
<1>3. CASE UpdateWatchActivityTable \/ UpdateKubeWatchTable
  BY <1>3 DEF UpdateWatchActivityTable, UpdateKubeWatchTable
<1>4. CASE UpdateResourceSummaryTable
  BY <1>4 DEF UpdateResourceSummaryTable, Record
<1>5. CASE TxnFails
  BY <1>5 DEF TxnFails, Record
<1>6. CASE Tick \/ Create \/ (\E major \in BOOLEAN : Modify(major)) \/ Remove
           \/ UNCHANGED vars
  BY <1>6 DEF Tick, Create, Modify, Remove, vars
<1>7. ASSUME NEW table, GcDrops(table) PROVE Inv'
  BY <1>7 DEF GcDrops
<1> QED
  BY <1>1, <1>2, <1>3, <1>4, <1>5, <1>6, <1>7 DEF Next

(* So do the history variables.                                             *)
LEMMA HistoryTypeStep == TypeOK /\ [Next]_vars => HistoryType'
<1> SUFFICES ASSUME TypeOK, [Next]_vars PROVE HistoryType'
  OBVIOUS
<1> USE DEF TypeOK, HistoryType, histVars
<1>1. CASE ReportAdd \/ ReportUpdate
  BY <1>1, ResourceHistoryAssumption DEF ReportAdd, ReportUpdate, Report
<1>2. CASE ReportDelete
  <2>1. deletedAt' \in [Uids -> Times \cup {Never}]
    BY <1>2 DEF ReportDelete, ClusterType
  <2>2. records' \in 0 .. MaxRecords
    BY <1>2, ResourceHistoryAssumption DEF ReportDelete, Report
  <2> QED
    BY <1>2, <2>1, <2>2 DEF ReportDelete
<1>3. CASE Restart
  BY <1>3, RecordInHand DEF Restart, Part
<1>4. CASE UpdateWatchActivityTable
  <2>1. Part \in Parts /\ rec.obj.version \in 1 .. MaxVersion
    BY <1>4, RecordInHand DEF UpdateWatchActivityTable
  <2>2. versions' \in [Parts -> SUBSET (1 .. MaxVersion)]
    BY <1>4, <2>1 DEF UpdateWatchActivityTable
  <2>3. changes' \in [Parts -> Nat]
    BY <1>4, <2>1 DEF UpdateWatchActivityTable
  <2> QED
    BY <1>4, <2>2, <2>3 DEF UpdateWatchActivityTable
<1>5. CASE UpdateKubeWatchTable
  BY <1>5, RecordInHand DEF UpdateKubeWatchTable
<1>6. CASE TxnFails
  BY <1>6, RecordInHand DEF TxnFails
<1>7. CASE UpdateResourceSummaryTable
  BY <1>7 DEF UpdateResourceSummaryTable
<1>8. CASE Tick \/ Create \/ (\E major \in BOOLEAN : Modify(major)) \/ Remove
           \/ UNCHANGED vars
  BY <1>8 DEF Tick, Create, Modify, Remove, vars
<1>9. ASSUME NEW table, GcDrops(table) PROVE HistoryType'
  BY <1>9, GcEffect
<1> QED
  BY <1>1, <1>2, <1>3, <1>4, <1>5, <1>6, <1>7, <1>8, <1>9 DEF Next

(* What the summary transaction writes, in one cell.                        *)
LEMMA SummaryEffect ==
    ASSUME TypeOK, UpdateResourceSummaryTable
    PROVE  LET u   == rec.obj.uid
               old == summary[Part][u]
           IN  /\ Part \in Parts /\ u \in Uids /\ old \in Summary
               /\ summary' = [summary EXCEPT ![Part] = [@ EXCEPT ![u] =
                                [firstSeen |-> FirstSeen(old), lastSeen |-> rec.ts,
                                 deletedAtEnd |-> old.deletedAtEnd \/ rec.type = "DELETE"]]]
<1>1. rec # NoRecord
  BY DEF TypeOK, UpdateResourceSummaryTable
<1>2. Part \in Parts /\ rec.obj.uid \in Uids
  BY <1>1, RecordInHand
<1> QED
  BY <1>2 DEF UpdateResourceSummaryTable, SummaryKey, TypeOK, StoreType

(* The garbage collector empties summaries and changes none.                *)
LEMMA GcSummary ==
    ASSUME TypeOK, NEW table, GcDrops(table)
    PROVE  /\ \A p \in Parts, u \in Uids : summary'[p][u] \in {summary[p][u], NoSummary}
           /\ NoSummary.lastSeen = -1 /\ ~NoSummary.deletedAtEnd
<1>1. PICK q \in Parts :
        summary' \in {summary, [summary EXCEPT ![q] = [u \in Uids |-> NoSummary]]}
  BY GcEffect
<1>2. summary \in [Parts -> [Uids -> Summary]]
  BY DEF TypeOK, StoreType
<1>3. \A p \in Parts, u \in Uids : summary'[p][u] \in {summary[p][u], NoSummary}
  BY <1>1, <1>2
<1> QED
  BY <1>3 DEF NoSummary, Never

(* The tables keep their types, and a summary its times in order and within *)
(* its partition.                                                           *)
LEMMA StoreTypeStep == TypeOK /\ SeenInv /\ [Next]_vars => StoreType'
<1> SUFFICES ASSUME TypeOK, SeenInv, [Next]_vars PROVE StoreType'
  OBVIOUS
<1> USE DEF TypeOK, StoreType, storeVars
<1>1. CASE UpdateWatchActivityTable
  <2>1. Part \in Parts /\ rec.obj.uid \in Uids /\ rec.ts \in Times
    BY <1>1, RecordInHand DEF UpdateWatchActivityTable
  <2>2. activity[Part][rec.obj.uid] \in Activity
    BY <2>1
  <2>3. AddActivity(activity[Part][rec.obj.uid]) \in Activity
    BY <2>1, <2>2 DEF AddActivity, Activity
  <2>4. activity' \in [Parts -> [Uids -> Activity]]
    BY <1>1, <2>1, <2>3 DEF UpdateWatchActivityTable
  <2> QED
    BY <1>1, <2>4 DEF UpdateWatchActivityTable
<1>2. CASE UpdateKubeWatchTable
  BY <1>2, RecordInHand DEF UpdateKubeWatchTable
<1>3. CASE UpdateResourceSummaryTable
  <2> DEFINE u   == rec.obj.uid
             old == summary[Part][u]
             new == [firstSeen |-> FirstSeen(old), lastSeen |-> rec.ts,
                     deletedAtEnd |-> old.deletedAtEnd \/ rec.type = "DELETE"]
  <2>1. /\ Part \in Parts /\ u \in Uids /\ old \in Summary /\ rec # NoRecord
        /\ summary' = [summary EXCEPT ![Part] = [@ EXCEPT ![u] = new]]
    BY <1>3, SummaryEffect DEF UpdateResourceSummaryTable
  <2>2. rec.ts \in Times /\ rec.ts \in TimesOf(Part)
    BY <2>1, RecordInHand DEF TimesOf, Part
  <2>3. FirstSeen(old) \in TimesOf(Part) /\ FirstSeen(old) <= rec.ts
    <3>1. CASE old = NoSummary \/ rec.type = "ADD"
      BY <2>2, <3>1 DEF FirstSeen, Times
    <3>2. CASE ~(old = NoSummary \/ rec.type = "ADD")
      <4>1. old.firstSeen \in TimesOf(Part) /\ old.firstSeen <= old.lastSeen
            /\ old.lastSeen \in TimesOf(Part)
        BY <2>1, <3>2
      <4>2. old.lastSeen <= rec.ts
        BY <2>1 DEF SeenInv
      <4> QED
        BY <2>2, <3>2, <4>1, <4>2 DEF FirstSeen, TimesOf, Times
    <3> QED
      BY <3>1, <3>2
  <2>4. new \in Summary
    BY <2>1, <2>2, <2>3 DEF Summary, TimesOf
  <2>5. new.firstSeen = FirstSeen(old) /\ new.lastSeen = rec.ts
    OBVIOUS
  <2> HIDE DEF new, old
  <2>6. summary' \in [Parts -> [Uids -> Summary]]
    BY <2>1, <2>4
  <2>7. ASSUME NEW q \in Parts, NEW v \in Uids, summary'[q][v] # NoSummary
        PROVE  /\ {summary'[q][v].firstSeen, summary'[q][v].lastSeen} \subseteq TimesOf(q)
               /\ summary'[q][v].firstSeen <= summary'[q][v].lastSeen
    <3>1. summary'[q][v] = IF q = Part /\ v = u THEN new ELSE summary[q][v]
      BY <2>1
    <3> QED
      BY <2>2, <2>3, <2>5, <2>7, <3>1
  <2> QED
    BY <1>3, <2>6, <2>7 DEF UpdateResourceSummaryTable
<1>4. ASSUME NEW table, GcDrops(table) PROVE StoreType'
  <2>1. PICK p \in Parts :
          /\ watch' \in {watch, [watch EXCEPT ![p] = NoRecord]}
          /\ activity' \in {activity, [activity EXCEPT ![p] = [u \in Uids |-> NoActivity]]}
          /\ summary' \in {summary, [summary EXCEPT ![p] = [u \in Uids |-> NoSummary]]}
    BY <1>4, GcEffect
  <2>2. NoActivity \in Activity /\ NoSummary \in Summary /\ NoRecord \in Record
    BY DEF NoActivity, Activity, NoSummary, Summary, Record
  <2>3. /\ watch' \in [Parts -> Record]
        /\ activity' \in [Parts -> [Uids -> Activity]]
    <3>1. watch' \in [Parts -> Record]
      BY <2>1, <2>2
    <3>2. [u \in Uids |-> NoActivity] \in [Uids -> Activity]
      BY <2>2
    <3>3. activity' \in [Parts -> [Uids -> Activity]]
      BY <2>1, <3>2
    <3> QED
      BY <3>1, <3>3
  <2>4. summary' \in [Parts -> [Uids -> Summary]]
    <3>1. [u \in Uids |-> NoSummary] \in [Uids -> Summary]
      BY <2>2
    <3>2. summary \in [Parts -> [Uids -> Summary]]
      OBVIOUS
    <3> QED
      BY ONLY <2>1, <3>1, <3>2
  <2>5. \A q \in Parts, v \in Uids : summary'[q][v] \in {summary[q][v], NoSummary}
    BY <2>1
  <2> QED
    BY <2>3, <2>4, <2>5
<1>5. CASE ReportAdd \/ ReportUpdate \/ ReportDelete \/ Restart \/ TxnFails
           \/ Tick \/ Create \/ (\E major \in BOOLEAN : Modify(major)) \/ Remove
           \/ UNCHANGED vars
  BY <1>5 DEF ReportAdd, ReportUpdate, ReportDelete, Restart, TxnFails, Tick, Create,
              Modify, Remove, vars
<1> QED
  BY <1>1, <1>2, <1>3, <1>4, <1>5 DEF Next

-----------------------------------------------------------------------------
(* Uids and versions grow, and the informer reports them in that order.     *)
LEMMA ClusterInvStep == TypeOK /\ ClusterInv /\ [Next]_vars => ClusterInv'
<1> SUFFICES ASSUME TypeOK, ClusterInv, [Next]_vars PROVE ClusterInv'
  OBVIOUS
<1>0. /\ now \in Int /\ version \in Int /\ uids \in Int
      /\ obj # NoObj => obj \in Object /\ obj.uid \in Int /\ obj.version \in Int
      /\ cache # NoObj => cache \in Object /\ cache.uid \in Int /\ cache.version \in Int
      /\ rec # NoRecord => rec.ts \in Int /\ rec.obj.version \in Int
  BY RecordInHand DEF TypeOK, ClusterType, Object, Times, Uids
<1> USE <1>0 DEF ClusterInv, envVars
<1>1. CASE Tick
  BY <1>1 DEF Tick
<1>2. CASE Create
  BY <1>2 DEF Create
<1>3. ASSUME NEW major \in BOOLEAN, Modify(major) PROVE ClusterInv'
  <2>1. obj'.uid = obj.uid /\ obj'.version = version'
    BY <1>3 DEF Modify, Object
  <2> QED
    BY <1>3, <2>1 DEF Modify
<1>4. CASE Remove
  BY <1>4 DEF Remove
<1>5. CASE ReportAdd \/ ReportUpdate
  BY <1>5 DEF ReportAdd, ReportUpdate, Report
<1>6. CASE ReportDelete
  BY <1>6 DEF ReportDelete, Report
<1>7. CASE Restart
  BY <1>7 DEF Restart
<1>8. CASE UpdateWatchActivityTable \/ UpdateKubeWatchTable \/ UpdateResourceSummaryTable
           \/ TxnFails \/ UNCHANGED vars
  BY <1>8 DEF UpdateWatchActivityTable, UpdateKubeWatchTable, UpdateResourceSummaryTable,
              TxnFails, vars
<1>9. ASSUME NEW table, GcDrops(table) PROVE ClusterInv'
  BY <1>9 DEF GcDrops
<1> QED
  BY <1>1, <1>2, <1>3, <1>4, <1>5, <1>6, <1>7, <1>8, <1>9 DEF Next

(* No summary is from the future, nor younger than the record in hand.      *)
LEMMA SeenInvStep == TypeOK /\ ClusterInv /\ SeenInv /\ [Next]_vars => SeenInv'
<1> SUFFICES ASSUME TypeOK, ClusterInv, SeenInv, [Next]_vars PROVE SeenInv'
  OBVIOUS
<1>0. /\ now \in Nat /\ (rec # NoRecord => rec.ts \in Nat)
      /\ \A p \in Parts, u \in Uids : summary[p][u].lastSeen \in Int
  <2>1. \A p \in Parts, u \in Uids : summary[p][u] \in Summary
    BY DEF TypeOK, StoreType
  <2> QED
    BY <2>1, RecordInHand DEF TypeOK, ClusterType, Times, Summary, Never
<1> USE <1>0 DEF SeenInv, envVars, storeVars
<1>1. CASE Tick
  BY <1>1 DEF Tick
<1>2. CASE ReportAdd \/ ReportUpdate \/ ReportDelete
  BY <1>2 DEF ReportAdd, ReportUpdate, ReportDelete, Report
<1>3. CASE Restart
  BY <1>3 DEF Restart
<1>4. CASE UpdateResourceSummaryTable
  <2> DEFINE new == [firstSeen |-> FirstSeen(summary[Part][rec.obj.uid]),
                     lastSeen |-> rec.ts,
                     deletedAtEnd |-> summary[Part][rec.obj.uid].deletedAtEnd
                                        \/ rec.type = "DELETE"]
  <2>1. /\ Part \in Parts /\ rec.obj.uid \in Uids
        /\ summary' = [summary EXCEPT ![Part] = [@ EXCEPT ![rec.obj.uid] = new]]
    BY <1>4, SummaryEffect
  <2>2. new.lastSeen = rec.ts
    OBVIOUS
  <2> HIDE DEF new
  <2>3. rec # NoRecord /\ rec.ts <= now /\ now' = now /\ rec' = NoRecord
    BY <1>4 DEF UpdateResourceSummaryTable, TypeOK, ClusterInv
  <2>4. ASSUME NEW p \in Parts, NEW u \in Uids PROVE summary'[p][u].lastSeen <= now
    <3>1. summary'[p][u] \in {new, summary[p][u]}
      BY <2>1 DEF TypeOK, StoreType
    <3> QED
      BY <2>2, <2>3, <3>1
  <2> QED
    BY <2>3, <2>4
<1>5. CASE UpdateWatchActivityTable \/ UpdateKubeWatchTable \/ TxnFails \/ Create
           \/ (\E major \in BOOLEAN : Modify(major)) \/ Remove \/ UNCHANGED vars
  BY <1>5 DEF UpdateWatchActivityTable, UpdateKubeWatchTable, TxnFails, Create, Modify,
              Remove, vars
<1>6. ASSUME NEW table, GcDrops(table) PROVE SeenInv'
  <2>1. UNCHANGED <<envVars, rec>>
    BY <1>6, GcEffect
  <2> QED
    BY <1>6, <2>1, GcSummary
<1> QED
  BY <1>1, <1>2, <1>3, <1>4, <1>5, <1>6 DEF Next

(* A deleted uid is not reported again, so its summary stays as it was.     *)
LEMMA DeletionInvStep ==
    TypeOK /\ ClusterInv /\ DeletionInv /\ [Next]_vars => DeletionInv'
<1> SUFFICES ASSUME TypeOK, ClusterInv, DeletionInv, [Next]_vars PROVE DeletionInv'
  OBVIOUS
<1>0. /\ uids \in Nat /\ now \in Nat
      /\ obj # NoObj => obj \in Object /\ obj.uid \in Uids
      /\ cache # NoObj => cache \in Object /\ cache.uid \in Uids
      /\ NoObj.uid = 0 /\ \A u \in Uids : u \in Nat \ {0}
      /\ deletedAt \in [Uids -> Times \cup {Never}]
  BY DEF TypeOK, ClusterType, HistoryType, Object, Times, Uids, NoObj
<1> USE <1>0 DEF DeletionInv, envVars, storeVars, histVars
<1>1. CASE Tick
  BY <1>1 DEF Tick
<1>2. CASE Create
  <2>1. uids' = uids + 1 /\ obj'.uid = uids'
    BY <1>2 DEF Create
  <2>2. \A u \in Uids : deletedAt[u] # Never => u <= uids' /\ obj'.uid # u
    BY <2>1
  <2> QED
    BY <1>2, <2>2 DEF Create
<1>3. ASSUME NEW major \in BOOLEAN, Modify(major) PROVE DeletionInv'
  <2>1. obj'.uid = obj.uid
    BY <1>3 DEF Modify, Object
  <2> QED
    BY <1>3, <2>1 DEF Modify
<1>4. CASE Remove
  BY <1>4 DEF Remove
<1>5. CASE ReportAdd \/ ReportUpdate
  <2>1. /\ cache' = obj /\ obj' = obj /\ obj # NoObj /\ deletedAt[obj.uid] = Never
        /\ rec'.obj = obj /\ rec'.type # "DELETE"
        /\ UNCHANGED <<uids, deletedAt, summary>>
    BY <1>5 DEF ReportAdd, ReportUpdate, Report
  <2> QED
    BY <2>1
<1>6. CASE ReportDelete
  <2>1. /\ cache # NoObj /\ obj.uid # cache.uid /\ cache' = NoObj
        /\ rec'.obj = cache /\ rec'.type = "DELETE" /\ rec'.ts = now
        /\ deletedAt' = [deletedAt EXCEPT ![cache.uid] = now]
        /\ UNCHANGED <<uids, obj, summary>>
    BY <1>6 DEF ReportDelete, Report
  <2>2. deletedAt[cache.uid] = Never /\ cache.uid <= uids
    BY <2>1 DEF ClusterInv
  <2>3. \A p \in Parts : ~summary[p][cache.uid].deletedAtEnd
    BY <2>1, <2>2
  <2> QED
    BY <2>1, <2>2, <2>3
<1>7. CASE Restart
  BY <1>7 DEF Restart
<1>8. CASE UpdateResourceSummaryTable
  <2> DEFINE u   == rec.obj.uid
             new == [firstSeen |-> FirstSeen(summary[Part][u]),
                     lastSeen |-> rec.ts,
                     deletedAtEnd |-> summary[Part][u].deletedAtEnd
                                        \/ rec.type = "DELETE"]
  <2>1. /\ Part \in Parts /\ u \in Uids
        /\ summary' = [summary EXCEPT ![Part] = [@ EXCEPT ![u] = new]]
    BY <1>8, SummaryEffect
  <2>2. /\ rec # NoRecord /\ rec' = NoRecord
        /\ UNCHANGED <<obj, cache, uids, deletedAt>>
    BY <1>8 DEF UpdateResourceSummaryTable, TypeOK
  <2>3. rec.ts \in Times /\ rec.ts # Never
    BY <2>2, RecordInHand
  <2>4. new.deletedAtEnd => deletedAt[u] # Never /\ new.lastSeen = deletedAt[u]
    BY <2>1, <2>2, <2>3
  <2> HIDE DEF new
  <2>5. ASSUME NEW q \in Parts, NEW v \in Uids
        PROVE  summary'[q][v] = IF q = Part /\ v = u THEN new ELSE summary[q][v]
    BY <2>1 DEF TypeOK, StoreType
  <2> QED
    BY <2>2, <2>4, <2>5
<1>9. CASE UpdateWatchActivityTable \/ UpdateKubeWatchTable \/ TxnFails \/ UNCHANGED vars
  BY <1>9 DEF UpdateWatchActivityTable, UpdateKubeWatchTable, TxnFails, vars
<1>10. ASSUME NEW table, GcDrops(table) PROVE DeletionInv'
  <2>1. UNCHANGED <<envVars, rec, deletedAt>>
    BY <1>10, GcEffect
  <2> QED
    BY <1>10, <2>1, GcSummary
<1> QED
  BY <1>1, <1>2, <1>3, <1>4, <1>5, <1>6, <1>7, <1>8, <1>9, <1>10 DEF Next

(* Versions are processed in the order the cluster gave them out.           *)
LEMMA VersionInvStep ==
    TypeOK /\ ClusterInv /\ VersionInv /\ [Next]_vars => VersionInv'
<1> SUFFICES ASSUME TypeOK, ClusterInv, VersionInv, [Next]_vars PROVE VersionInv'
  OBVIOUS
<1>0. /\ version \in Nat
      /\ obj # NoObj => obj.version = version
      /\ cache # NoObj => cache.version \in Nat
      /\ rec # NoRecord => rec.obj.version \in Nat
      /\ \A p \in Parts : versions[p] \subseteq Nat
  BY RecordInHand DEF TypeOK, ClusterType, HistoryType, Object, ClusterInv
<1> USE <1>0 DEF VersionInv, envVars, histVars
<1>1. CASE Create \/ \E major \in BOOLEAN : Modify(major)
  <2>1. version' = version + 1 /\ UNCHANGED <<versions, cache, rec>>
    BY <1>1 DEF Create, Modify
  <2> QED
    BY <2>1
<1>2. CASE ReportAdd \/ ReportUpdate
  BY <1>2 DEF ReportAdd, ReportUpdate, Report
<1>3. CASE ReportDelete
  BY <1>3 DEF ReportDelete, Report
<1>4. CASE Restart
  BY <1>4 DEF Restart
<1>5. CASE UpdateWatchActivityTable
  <2>1. /\ rec # NoRecord /\ Part \in Parts
        /\ versions' = [versions EXCEPT ![Part] = @ \cup {rec.obj.version}]
        /\ UNCHANGED <<version, cache, rec>>
    BY <1>5, RecordInHand DEF UpdateWatchActivityTable, TypeOK
  <2>2. ASSUME NEW p \in Parts, NEW v \in versions'[p]
        PROVE  v \in versions[p] \/ v = rec.obj.version
    BY <2>1 DEF TypeOK, HistoryType
  <2> QED
    BY <2>1, <2>2 DEF ClusterInv
<1>6. CASE UpdateKubeWatchTable \/ UpdateResourceSummaryTable \/ TxnFails \/ Tick
           \/ Remove \/ UNCHANGED vars
  BY <1>6 DEF UpdateKubeWatchTable, UpdateResourceSummaryTable, TxnFails, Tick, Remove, vars
<1>7. ASSUME NEW table, GcDrops(table) PROVE VersionInv'
  BY <1>7, GcEffect
<1> QED
  BY <1>1, <1>2, <1>3, <1>4, <1>5, <1>6, <1>7 DEF Next

(* What the watch table holds of a partition keeps up with the last record  *)
(* that was processed there.                                                *)
LEMMA LastStateStep == TypeOK /\ LastStateIsKept /\ [Next]_vars => LastStateIsKept'
<1> SUFFICES ASSUME TypeOK, LastStateIsKept, [Next]_vars PROVE LastStateIsKept'
  OBVIOUS
<1> USE DEF LastStateIsKept, envVars, storeVars, histVars
<1>0. DropsMinorUpdates' = DropsMinorUpdates
  <2>1. isNode' = isNode
    BY DEF Next, Tick, Create, Modify, Remove, ReportAdd, ReportUpdate, ReportDelete, Restart,
           UpdateWatchActivityTable, UpdateKubeWatchTable, UpdateResourceSummaryTable,
           TxnFails, GcDrops, vars
  <2> QED
    BY <2>1 DEF DropsMinorUpdates
<1>1. CASE UpdateKubeWatchTable
  <2>1. rec # NoRecord /\ Part \in Parts
    BY <1>1, RecordInHand DEF UpdateKubeWatchTable, TypeOK
  <2>2. /\ last' = [last EXCEPT ![Part] = rec] /\ forgot' = forgot
        /\ watch' = IF KeepsUpdate THEN [watch EXCEPT ![Part] = rec] ELSE watch
    BY <1>1 DEF UpdateKubeWatchTable
  <2>3. ~KeepsUpdate => /\ DropsMinorUpdates
                        /\ watch[Part].obj.uid = rec.obj.uid
                        /\ watch[Part].obj.major = rec.obj.major
    BY DEF KeepsUpdate, NodeHasMajorUpdate, LastKubeWatchResult
  <2> QED
    BY <1>0, <2>1, <2>2, <2>3 DEF TypeOK, StoreType, HistoryType
<1>2. ASSUME NEW table, GcDrops(table) PROVE LastStateIsKept'
  <2>1. PICK q \in Parts :
          /\ watch' \in {watch, [watch EXCEPT ![q] = NoRecord]}
          /\ forgot' = forgot \cup {q} /\ last' = last
    BY <1>2, GcEffect
  <2>2. \A p \in Parts : p # q => watch'[p] = watch[p]
    BY <2>1 DEF TypeOK, StoreType
  <2> QED
    BY <1>0, <2>1, <2>2
<1>3. CASE ReportAdd \/ ReportUpdate \/ ReportDelete \/ Restart
           \/ UpdateWatchActivityTable \/ UpdateResourceSummaryTable \/ TxnFails
           \/ Tick \/ Create \/ (\E major \in BOOLEAN : Modify(major)) \/ Remove
           \/ UNCHANGED vars
  BY <1>0, <1>3 DEF ReportAdd, ReportUpdate, ReportDelete, Restart, UpdateWatchActivityTable,
              UpdateResourceSummaryTable, TxnFails, Tick, Create, Modify, Remove, vars
<1> QED
  BY <1>1, <1>2, <1>3 DEF Next

(* Within a partition the changes counted stay behind the versions seen.    *)
LEMMA StoredInvStep ==
    TypeOK /\ VersionInv /\ StoredInv /\ [Next]_vars => StoredInv'
<1> SUFFICES ASSUME TypeOK, VersionInv, StoredInv, [Next]_vars,
                    NEW p \in Parts, p \notin forgot', ~DropsMinorUpdates'
             PROVE  /\ watch'[p] = NoRecord =>
                         versions'[p] = {} \/ (pc' = "watch" /\ p = Part')
                    /\ watch'[p] # NoRecord =>
                         /\ watch'[p].obj.version \in versions'[p]
                         /\ ~(pc' = "watch" /\ p = Part') =>
                              \A v \in versions'[p] : v <= watch'[p].obj.version
                    /\ pc' = "watch" /\ p = Part' => rec'.obj.version \in versions'[p]
                    /\ changes'[p] = 0 \/ changes'[p] < Cardinality(versions'[p])
  BY DEF StoredInv
<1> DEFINE Goal == /\ watch[p] = NoRecord =>
                         versions[p] = {} \/ (pc = "watch" /\ p = Part)
                   /\ watch[p] # NoRecord =>
                         /\ watch[p].obj.version \in versions[p]
                         /\ ~(pc = "watch" /\ p = Part) =>
                              \A v \in versions[p] : v <= watch[p].obj.version
                   /\ pc = "watch" /\ p = Part => rec.obj.version \in versions[p]
                   /\ changes[p] = 0 \/ changes[p] < Cardinality(versions[p])
<1>0. p \notin forgot /\ ~DropsMinorUpdates
  <2>1. forgot \subseteq forgot' /\ isNode' = isNode
    <3>1. ASSUME NEW table, GcDrops(table) PROVE forgot \subseteq forgot' /\ isNode' = isNode
      BY <3>1, GcEffect DEF envVars
    <3> QED
      BY <3>1
      DEF Next, Tick, Create, Modify, Remove, ReportAdd, ReportUpdate, ReportDelete,
          Restart, UpdateWatchActivityTable, UpdateKubeWatchTable,
          UpdateResourceSummaryTable, TxnFails, vars, envVars, histVars
  <2> QED
    BY <2>1 DEF DropsMinorUpdates
<1>a. Goal
  BY <1>0 DEF StoredInv
<1>1. CASE UpdateWatchActivityTable
  <2>1. /\ rec # NoRecord /\ Part \in Parts /\ Part' = Part /\ pc = "activity"
        /\ pc' = "watch" /\ rec' = rec /\ watch' = watch
        /\ versions' = [versions EXCEPT ![Part] = @ \cup {rec.obj.version}]
        /\ changes' = [changes EXCEPT ![Part] =
                         @ + (IF DidKubeWatchResultChange THEN 1 ELSE 0)]
    BY <1>1, RecordInHand DEF UpdateWatchActivityTable, TypeOK, Part
  <2>2. CASE p # Part
    BY <1>a, <2>1, <2>2 DEF TypeOK, HistoryType
  <2>3. CASE p = Part
    <3>1. /\ versions'[p] = versions[p] \cup {rec.obj.version}
          /\ changes'[p] = changes[p] + (IF DidKubeWatchResultChange THEN 1 ELSE 0)
          /\ changes[p] \in Nat /\ versions[p] \subseteq 1 .. MaxVersion
      BY <2>1, <2>3 DEF TypeOK, HistoryType
    <3>2. IsFiniteSet(versions[p]) /\ Cardinality(versions[p]) \in Nat
      <4>1. IsFiniteSet(1 .. MaxVersion)
        BY FS_Interval, ResourceHistoryAssumption
      <4>2. IsFiniteSet(versions[p])
        BY <3>1, <4>1, FS_Subset
      <4> QED
        BY <4>2, FS_CardinalityType
    <3>3. Cardinality(versions'[p]) =
            IF rec.obj.version \in versions[p] THEN Cardinality(versions[p])
                                               ELSE Cardinality(versions[p]) + 1
      <4>1. Cardinality(versions[p] \cup {rec.obj.version}) =
              IF rec.obj.version \in versions[p] THEN Cardinality(versions[p])
                                                 ELSE Cardinality(versions[p]) + 1
        BY <3>2, FS_AddElement
      <4> QED
        BY <3>1, <4>1
    <3>4. ASSUME DidKubeWatchResultChange
          PROVE  rec.obj.version \notin versions[p] /\ Cardinality(versions[p]) > 0
      <4>1. watch[p] # NoRecord /\ watch[p].obj.version # rec.obj.version
        BY <2>3, <3>4 DEF DidKubeWatchResultChange, LastKubeWatchResult
      <4>2. /\ watch[p].obj.version \in versions[p]
            /\ \A v \in versions[p] : v <= watch[p].obj.version
        BY <1>a, <2>1, <4>1
      <4>3. watch[p].obj.version <= rec.obj.version
        BY <2>1, <4>2 DEF VersionInv
      <4>4. rec.obj.version \in 1 .. MaxVersion
        BY <2>1, RecordInHand
      <4>5. rec.obj.version \notin versions[p]
        BY <3>1, <4>1, <4>2, <4>3, <4>4
      <4> QED
        BY <3>2, <4>2, <4>5, FS_EmptySet
    <3>5. changes'[p] = 0 \/ changes'[p] < Cardinality(versions'[p])
      BY <1>a, <3>1, <3>2, <3>3, <3>4
    <3> QED
      BY <1>a, <2>1, <2>3, <3>1, <3>5
  <2> QED
    BY <2>2, <2>3
<1>2. CASE UpdateKubeWatchTable
  <2>1. /\ rec # NoRecord /\ Part \in Parts /\ Part' = Part /\ pc = "watch"
        /\ pc' = "summary" /\ UNCHANGED <<rec, versions, changes>>
        /\ watch' = [watch EXCEPT ![Part] = rec]
    BY <1>0, <1>2, RecordInHand
    DEF UpdateKubeWatchTable, KeepsUpdate, TypeOK, Part
  <2>2. CASE p # Part
    BY <1>a, <2>1, <2>2 DEF TypeOK, StoreType
  <2>3. CASE p = Part
    <3>1. watch'[p] = rec /\ rec.obj.version \in versions[p]
      BY <1>a, <2>1, <2>3 DEF TypeOK, StoreType
    <3>2. \A v \in versions[p] : v <= rec.obj.version
      BY <2>1 DEF VersionInv
    <3> QED
      BY <1>a, <2>1, <3>1, <3>2
  <2> QED
    BY <2>2, <2>3
<1>3. CASE Restart \/ TxnFails
  <2>1. UNCHANGED <<watch, versions, changes>>
    BY <1>3 DEF Restart, TxnFails, storeVars
  <2>2. pc # "recv" => p # Part
    BY <1>3 DEF Restart, TxnFails, Part
  <2>3. pc' = "watch" => Part' = Part /\ p # Part
    BY <1>3, <2>2 DEF Restart, TxnFails, Part
  <2> QED
    BY <1>a, <2>1, <2>2, <2>3
<1>4. CASE ReportAdd \/ ReportUpdate \/ ReportDelete \/ UpdateResourceSummaryTable
  <2>1. /\ UNCHANGED <<watch, versions, changes>>
        /\ pc # "watch" /\ pc' # "watch"
    BY <1>4 DEF ReportAdd, ReportUpdate, ReportDelete, Report, UpdateResourceSummaryTable,
                storeVars, histVars
  <2> QED
    BY <1>a, <2>1
<1>5. CASE Tick \/ Create \/ (\E major \in BOOLEAN : Modify(major)) \/ Remove
           \/ UNCHANGED vars
  <2>1. UNCHANGED <<watch, versions, changes, pc, rec>> /\ Part' = Part
    BY <1>5 DEF Tick, Create, Modify, Remove, vars, storeVars, histVars, Part
  <2> QED
    BY <1>a, <2>1
<1>6. ASSUME NEW table, GcDrops(table) PROVE Goal'
  <2>1. PICK q \in Parts :
          /\ watch' \in {watch, [watch EXCEPT ![q] = NoRecord]}
          /\ forgot' = forgot \cup {q} /\ UNCHANGED <<versions, changes, pc, rec>>
    BY <1>6, GcEffect
  <2>2. watch'[p] = watch[p] /\ Part' = Part
    BY <2>1 DEF TypeOK, StoreType, Part
  <2> QED
    BY <1>a, <2>1, <2>2
<1> QED
  BY <1>1, <1>2, <1>3, <1>4, <1>5, <1>6 DEF Next

-----------------------------------------------------------------------------
(* The invariant holds of empty tables.                                     *)
LEMMA InitInv == Init => IndInv
<1> SUFFICES ASSUME Init PROVE IndInv
  OBVIOUS
<1> USE ResourceHistoryAssumption DEF Init
<1>1. ClusterType
  BY DEF ClusterType, Times
<1>2. StoreType
  <2>1. NoActivity \in Activity /\ NoSummary \in Summary /\ NoRecord \in Record
    BY DEF NoActivity, Activity, NoSummary, Summary, Record
  <2> QED
    BY <2>1 DEF StoreType
<1>3. HistoryType
  <2>1. NoRecord \in Record
    BY DEF Record
  <2> QED
    BY <2>1 DEF HistoryType
<1>4. TypeOK
  BY <1>1, <1>2, <1>3 DEF TypeOK, Record
<1>5. ClusterInv /\ SeenInv /\ DeletionInv
  BY DEF ClusterInv, SeenInv, DeletionInv, NoSummary, Never
<1>6. VersionInv /\ StoredInv /\ LastStateIsKept
  BY DEF VersionInv, StoredInv, LastStateIsKept
<1> QED
  BY <1>4, <1>5, <1>6 DEF IndInv

(* Every step keeps it.                                                     *)
LEMMA StepInv == IndInv /\ [Next]_vars => IndInv'
<1> SUFFICES ASSUME IndInv, [Next]_vars PROVE IndInv'
  OBVIOUS
<1>1. TypeOK'
  BY ClusterTypeStep, StoreTypeStep, HistoryTypeStep, RecTypeStep DEF IndInv, TypeOK
<1> QED
  BY <1>1, ClusterInvStep, SeenInvStep, DeletionInvStep, VersionInvStep, StoredInvStep,
     LastStateStep DEF IndInv

(* The inductive invariant of the tables of a resource.                     *)
THEOREM HistoryInvariant == Spec => []IndInv
  BY InitInv, StepInv, PTL DEF Spec

(* Types, and every summary has its times in order and in its partition.    *)
THEOREM HistoryTypes == Spec => []TypeOK
<1>1. IndInv => TypeOK
  BY DEF IndInv
<1> QED
  BY <1>1, HistoryInvariant, PTL

(* A summary that says it ends with the deletion was last seen exactly when *)
(* the deletion was reported: no later record of any incarnation moves it.  *)
THEOREM DeletionIsTheEnd == Spec => []DeletedAtEndIsLast
<1>1. IndInv => DeletedAtEndIsLast
  BY DEF IndInv, DeletionInv, DeletedAtEndIsLast
<1> QED
  BY <1>1, HistoryInvariant, PTL

(* A partition that lost nothing counts fewer changes than versions,        *)
(* however often a version is delivered.                                    *)
THEOREM ChangesAreCountedOnce == Spec => []ChangedOncePerVersion
<1>1. IndInv => ChangedOncePerVersion
  <2> SUFFICES ASSUME IndInv, NEW p \in Parts, p \notin forgot, ~DropsMinorUpdates
               PROVE  changes[p] < Max({1, Cardinality(versions[p])})
    BY DEF ChangedOncePerVersion
  <2>1. changes[p] \in Nat /\ versions[p] \subseteq 1 .. MaxVersion
    BY DEF IndInv, TypeOK, HistoryType
  <2>2. IsFiniteSet(1 .. MaxVersion)
    BY FS_Interval, ResourceHistoryAssumption
  <2>3. Cardinality(versions[p]) \in Nat
    BY <2>1, <2>2, FS_Subset, FS_CardinalityType
  <2>4. changes[p] = 0 \/ changes[p] < Cardinality(versions[p])
    BY DEF IndInv, StoredInv
  <2>5. Max({1, Cardinality(versions[p])}) >= 1
        /\ Max({1, Cardinality(versions[p])}) >= Cardinality(versions[p])
        /\ Max({1, Cardinality(versions[p])}) \in Int
    BY <2>3, MaxOfTwo
  <2> QED
    BY <2>1, <2>3, <2>4, <2>5
<1> QED
  BY <1>1, HistoryInvariant, PTL

(* The watch table ends a partition with the last record processed in it,   *)
(* or, for a node whose minor updates are dropped, with one of the same     *)
(* content; of the type of that last record nothing is said then.           *)
THEOREM LastStateIsInTheStore == Spec => []LastStateIsKept
<1>1. IndInv => LastStateIsKept
  BY DEF IndInv
<1> QED
  BY <1>1, HistoryInvariant, PTL
=============================================================================
