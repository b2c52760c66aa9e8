--------------------------- MODULE ResourceHistory ---------------------------
(***************************************************************************)
(* pkg/sloop/processing, for a resource that is not an Event: the three     *)
(* transactions of a record (watchactivity, watch, ressum), each of which   *)
(* may fail by itself, with restarts of sloop between any two of them, a    *)
(* resource that is updated, deleted and created again under its name, and  *)
(* the garbage collector at work.                                           *)
(***************************************************************************)
EXTENDS Integers, FiniteSetsExt

CONSTANTS
    MaxUid,                \* bound: incarnations of the resource
    KeepMinorNodeUpdates,  \* Runner.keepMinorNodeUpdates
    PartLen,               \* units of time per partition
    MaxTime,               \* bound: last unit of time
    MaxVersion,            \* bound: resource versions
    MaxRecords             \* bound: records of the resource

ASSUME ResourceHistoryAssumption ==
    /\ KeepMinorNodeUpdates \in BOOLEAN
    /\ PartLen \in Nat \ {0} /\ MaxTime \in Nat /\ MaxVersion \in Nat \ {0}
    /\ MaxRecords \in Nat /\ MaxUid \in Nat

VARIABLES
    isNode,     \* the kind of the resource is Node
    now,
    obj,        \* the resource in the cluster
    version,    \* the last resource version given out
    uids,       \* the last uid given out
    cache,      \* the informer's copy
    rec,        \* the record in hand: when, what kind of change, the resource
    pc,         \* the transaction that comes next
    watch,      \* last record of the resource in each partition of `watch`
    activity,   \* ChangedAt and NoChangeAt per partition and uid
    summary,    \* ResourceSummary per partition and uid
    last,       \* history: the last record that was processed in a partition
    versions,   \* history: versions that were processed in each partition
    changes,    \* history: number of times ChangedAt grew
    deletedAt,  \* history: when the deletion of a uid was reported
    records,    \* history: number of records
    forgot      \* history: partitions where a transaction failed or rows were dropped

envVars   == <<isNode, now, obj, version, uids, cache>>
storeVars == <<watch, activity, summary>>
histVars  == <<last, versions, changes, deletedAt, records, forgot>>
vars == <<envVars, rec, pc, storeVars, histVars>>

Times == 0 .. MaxTime
Uids  == 1 .. MaxUid

(* GetPartitionId                                                           *)
PartOf(t) == t \div PartLen

Parts == {PartOf(t) : t \in Times}

(* What is told apart of a resource: its uid, its resource version and the  *)
(* version that last changed more than heartbeats (its content otherwise).  *)
NoObj  == [uid |-> 0, version |-> 0, major |-> 0]
Object == [uid : Uids, version : 1 .. MaxVersion, major : 1 .. MaxVersion]

Never    == -1
NoRecord == [ts |-> Never, type |-> "none", obj |-> NoObj]
Record   == [ts : Times, type : {"ADD", "UPDATE", "DELETE"}, obj : Object] \cup {NoRecord}

NoActivity == [changedAt |-> {}, noChangeAt |-> {}]
NoSummary  == [firstSeen |-> Never, lastSeen |-> Never, deletedAtEnd |-> FALSE]

(* the times of a partition                                                 *)
TimesOf(p) == {t \in Times : PartOf(t) = p}

Activity == [changedAt : SUBSET Times, noChangeAt : SUBSET Times]
Summary  == [firstSeen : Times \cup {Never}, lastSeen : Times \cup {Never},
             deletedAtEnd : BOOLEAN]

ClusterType ==
    /\ isNode \in BOOLEAN /\ now \in Times
    /\ version \in 0 .. MaxVersion /\ uids \in 0 .. MaxUid
    /\ obj \in Object \cup {NoObj} /\ cache \in Object \cup {NoObj}

StoreType ==
    /\ watch \in [Parts -> Record]
    /\ activity \in [Parts -> [Uids -> Activity]]
    /\ summary \in [Parts -> [Uids -> Summary]]
    /\ \A p \in Parts, u \in Uids : summary[p][u] # NoSummary =>
         /\ {summary[p][u].firstSeen, summary[p][u].lastSeen} \subseteq TimesOf(p)
         /\ summary[p][u].firstSeen <= summary[p][u].lastSeen

HistoryType ==
    /\ last \in [Parts -> Record]
    /\ versions \in [Parts -> SUBSET (1 .. MaxVersion)]
    /\ changes \in [Parts -> Nat]
    /\ deletedAt \in [Uids -> Times \cup {Never}]
    /\ records \in 0 .. MaxRecords /\ forgot \subseteq Parts

TypeOK ==
    /\ ClusterType /\ StoreType /\ HistoryType
    /\ rec \in Record /\ pc \in {"recv", "activity", "watch", "summary"}
    /\ pc = "recv" <=> rec = NoRecord

Init ==
    /\ isNode \in BOOLEAN /\ now = 0
    /\ obj = NoObj /\ version = 0 /\ uids = 0 /\ cache = NoObj
    /\ rec = NoRecord /\ pc = "recv"
    /\ watch = [p \in Parts |-> NoRecord]
    /\ activity = [p \in Parts |-> [u \in Uids |-> NoActivity]]
    /\ summary = [p \in Parts |-> [u \in Uids |-> NoSummary]]
    /\ last = [p \in Parts |-> NoRecord]
    /\ versions = [p \in Parts |-> {}] /\ changes = [p \in Parts |-> 0]
    /\ deletedAt = [u \in Uids |-> Never] /\ records = 0 /\ forgot = {}

-----------------------------------------------------------------------------
(* The cluster.  Resource versions grow over all incarnations.              *)

Tick ==
    /\ now < MaxTime
    /\ now' = now + 1
    /\ UNCHANGED <<isNode, obj, version, uids, cache, rec, pc, storeVars, histVars>>

Create ==
    /\ obj = NoObj /\ uids < MaxUid /\ version < MaxVersion
    /\ version' = version + 1
    /\ uids' = uids + 1
    /\ obj' = [uid |-> uids', version |-> version', major |-> version']
    /\ UNCHANGED <<isNode, now, cache, rec, pc, storeVars, histVars>>

Modify(major) ==
    /\ obj # NoObj /\ version < MaxVersion
    /\ version' = version + 1
    /\ obj' = [obj EXCEPT !.version = version', !.major = IF major THEN version' ELSE @]
    /\ UNCHANGED <<isNode, now, uids, cache, rec, pc, storeVars, histVars>>

Remove ==
    /\ obj # NoObj
    /\ obj' = NoObj
    /\ UNCHANGED <<isNode, now, version, uids, cache, rec, pc, storeVars, histVars>>

-----------------------------------------------------------------------------
(* The informer's callbacks, and the processor receiving the record.        *)

Report(type, o) ==
    /\ pc = "recv" /\ records < MaxRecords
    /\ rec' = [ts |-> now, type |-> type, obj |-> o]
    /\ pc' = "activity"
    /\ records' = records + 1

(* First list, also after a restart: an add.                                *)
ReportAdd ==
    /\ obj # NoObj /\ cache = NoObj
    /\ Report("ADD", obj)
    /\ cache' = obj
    /\ UNCHANGED <<isNode, now, obj, version, uids, storeVars, last, versions, changes,
                   deletedAt, forgot>>

(* A change, or a resync without one.  A resource found replaced by another *)
(* incarnation when the informer lists again is an update, too.             *)
ReportUpdate ==
    /\ obj # NoObj /\ cache # NoObj
    /\ Report("UPDATE", obj)
    /\ cache' = obj
    /\ UNCHANGED <<isNode, now, obj, version, uids, storeVars, last, versions, changes,
                   deletedAt, forgot>>

(* The deletion, with the last known state.                                 *)
ReportDelete ==
    /\ cache # NoObj /\ obj.uid # cache.uid
    /\ Report("DELETE", cache)
    /\ cache' = NoObj
    /\ deletedAt' = [deletedAt EXCEPT ![cache.uid] = now]
    /\ UNCHANGED <<isNode, now, obj, version, uids, storeVars, last, versions, changes, forgot>>

(* sloop stops and starts again: what is in memory is lost.                 *)
Restart ==
    /\ cache' = NoObj
    /\ rec' = NoRecord /\ pc' = "recv"
    /\ forgot' = IF pc = "recv" THEN forgot ELSE forgot \cup {PartOf(rec.ts)}
    /\ UNCHANGED <<isNode, now, obj, version, uids, storeVars, last, versions, changes,
                   deletedAt, records>>

-----------------------------------------------------------------------------
(* The transactions.                                                        *)

Part == PartOf(rec.ts)

(* getLastKubeWatchResult: the last record in the partition of this one.    *)
LastKubeWatchResult == watch[Part]

DidChangeMutant == LastKubeWatchResult.type # "none"

(* didKubeWatchResultChange                                                 *)
DidKubeWatchResultChange ==
    /\ LastKubeWatchResult # NoRecord
    /\ LastKubeWatchResult.obj.version # rec.obj.version

AddActivity(old) ==
    IF DidKubeWatchResultChange
      THEN [old EXCEPT !.changedAt = @ \cup {rec.ts}]
      ELSE [old EXCEPT !.noChangeAt = @ \cup {rec.ts}]

(* updateWatchActivityTable                                                 *)
UpdateWatchActivityTable ==
    /\ pc = "activity"
    /\ pc' = "watch"
    /\ activity' = [activity EXCEPT ![Part][rec.obj.uid] = AddActivity(@)]
    /\ changes' = [changes EXCEPT ![Part] = @ + (IF DidKubeWatchResultChange THEN 1 ELSE 0)]
    /\ versions' = [versions EXCEPT ![Part] = @ \cup {rec.obj.version}]
    /\ UNCHANGED <<envVars, rec, watch, summary, last, deletedAt, records, forgot>>

NodeHasMajorUpdateMutant(node1, node2) == node1.uid # node2.uid

(* NodeHasMajorUpdate: do the nodes differ in more than the resource        *)
(* version and heartbeats?                                                  *)
NodeHasMajorUpdate(node1, node2) ==
    node1.uid # node2.uid \/ node1.major # node2.major

(* doesNodeHaveMajorUpdates and its use in updateKubeWatchTable.            *)
DropsMinorUpdates == isNode /\ ~KeepMinorNodeUpdates

KeepsUpdate ==
    \/ ~DropsMinorUpdates
    \/ LastKubeWatchResult = NoRecord
    \/ NodeHasMajorUpdate(LastKubeWatchResult.obj, rec.obj)

(* updateKubeWatchTable                                                     *)
UpdateKubeWatchTable ==
    /\ pc = "watch"
    /\ pc' = "summary"
    /\ watch' = IF KeepsUpdate THEN [watch EXCEPT ![Part] = rec] ELSE watch
    /\ last' = [last EXCEPT ![Part] = rec]
    /\ UNCHANGED <<envVars, rec, activity, summary, versions, changes, deletedAt,
                   records, forgot>>

SummaryKeyMutant == 1

(* The key of the summary has the uid in it, besides the partition.         *)
SummaryKey == rec.obj.uid

FirstSeenMutant(old) == IF rec.type = "ADD" THEN rec.ts ELSE old.firstSeen

FirstSeen(old) ==
    IF old = NoSummary \/ rec.type = "ADD" THEN rec.ts ELSE old.firstSeen

(* updateResourceSummaryTable and getResourceSummaryValue                   *)
UpdateResourceSummaryTable ==
    /\ pc = "summary"
    /\ pc' = "recv" /\ rec' = NoRecord
    /\ LET old == summary[Part][SummaryKey]
       IN  summary' = [summary EXCEPT ![Part][SummaryKey] =
                         [firstSeen |-> FirstSeen(old),
                          lastSeen |-> rec.ts,
                          deletedAtEnd |-> old.deletedAtEnd \/ rec.type = "DELETE"]]
    /\ UNCHANGED <<envVars, watch, activity, histVars>>

(* A transaction fails; processing goes on with the next one.               *)
TxnFails ==
    /\ pc # "recv"
    /\ pc' = CASE pc = "activity" -> "watch"
               [] pc = "watch"    -> "summary"
               [] pc = "summary"  -> "recv"
    /\ rec' = IF pc = "summary" THEN NoRecord ELSE rec
    /\ forgot' = forgot \cup {Part}
    /\ UNCHANGED <<envVars, storeVars, last, versions, changes, deletedAt, records>>

(* The garbage collector drops the oldest partition, table by table.        *)
Partitions ==
    {p \in Parts : \/ watch[p] # NoRecord
                   \/ \E u \in Uids : activity[p][u] # NoActivity \/ summary[p][u] # NoSummary}

GcDrops(table) ==
    /\ Partitions # {}
    /\ LET p == Min(Partitions)
           wiped(t, f, empty) == IF t = table THEN [f EXCEPT ![p] = empty] ELSE f
       IN  /\ watch' = wiped("watch", watch, NoRecord)
           /\ activity' = wiped("watchactivity", activity, [u \in Uids |-> NoActivity])
           /\ summary' = wiped("ressum", summary, [u \in Uids |-> NoSummary])
           /\ forgot' = forgot \cup {p}
    /\ UNCHANGED <<envVars, rec, pc, last, versions, changes, deletedAt, records>>

-----------------------------------------------------------------------------
Next ==
    \/ Tick
    \/ Create
    \/ \E major \in BOOLEAN : Modify(major)
    \/ Remove
    \/ ReportAdd \/ ReportUpdate \/ ReportDelete
    \/ Restart
    \/ UpdateWatchActivityTable \/ UpdateKubeWatchTable \/ UpdateResourceSummaryTable
    \/ TxnFails
    \/ \E table \in {"watch", "watchactivity", "ressum"} : GcDrops(table)

Spec == Init /\ [][Next]_vars

-----------------------------------------------------------------------------
(* schema.proto, deletedAtEnd: "Tells us that the lastSeen time is also     *)
(* when it was deleted".  No record that comes later, of this or of another *)
(* incarnation, moves lastSeen away from the deletion.                      *)
DeletedAtEndIsLast ==
    \A p \in Parts, u \in Uids :
        summary[p][u].deletedAtEnd => summary[p][u].lastSeen = deletedAt[u]

(* schema.proto, ChangedAt: timestamps where the watch event "contained a   *)
(* change from previous event".  Within a partition there are fewer changes *)
(* than versions, however often a version is redelivered, unless a          *)
(* transaction failed or rows were dropped there.  Not so for nodes, whose  *)
(* minor updates are not stored and count as changes again and again.       *)
ChangedOncePerVersion ==
    \A p \in Parts : p \notin forgot /\ ~DropsMinorUpdates =>
        changes[p] < Max({1, Cardinality(versions[p])})

(* A partition in which no transaction failed and nothing was dropped ends  *)
(* with the last record that was processed there, its type included.  Of a  *)
(* node whose minor updates are dropped it shows the content of that record *)
(* (uid and everything but heartbeats), and no more: updateKubeWatchTable   *)
(* compares payloads and never looks at the watch type, so that the DELETE  *)
(* of a node, which carries its last known state, is dropped as a minor     *)
(* update, although the flag -keep-minor-node-updates speaks of changes of  *)
(* "only condition timestamps".  That a node was deleted is left to its     *)
(* summary (DeletedAtEndIsLast).                                            *)
LastStateIsKept ==
    \A p \in Parts : p \notin forgot /\ last[p] # NoRecord =>
        IF DropsMinorUpdates
          THEN /\ watch[p].obj.uid = last[p].obj.uid
               /\ watch[p].obj.major = last[p].obj.major
          ELSE watch[p] = last[p]

-----------------------------------------------------------------------------
(* The inductive strengthening used by ResourceHistory_proofs.              *)

(* Uids and versions only grow, in the cluster and in what is reported of   *)
(* it: the informer's copy is the newest that was ever reported.            *)
ClusterInv ==
    /\ obj # NoObj => obj.uid = uids /\ obj.version = version
    /\ cache # NoObj => cache.uid <= uids /\ cache.version <= version
    /\ rec # NoRecord =>
         /\ rec.ts <= now /\ rec.obj.version <= version
         /\ cache # NoObj => rec.obj.version <= cache.version

(* Time has not passed the record in hand: what it is added to is older.    *)
SeenInv ==
    \A p \in Parts, u \in Uids :
        /\ summary[p][u].lastSeen <= now
        /\ rec # NoRecord => summary[p][u].lastSeen <= rec.ts

(* A uid whose deletion was reported is gone for good.                      *)
DeletionInv ==
    /\ \A u \in Uids : deletedAt[u] # Never =>
         u <= uids /\ obj.uid # u /\ cache.uid # u
    /\ rec # NoRecord =>
         deletedAt[rec.obj.uid] = IF rec.type = "DELETE" THEN rec.ts ELSE Never
    /\ \A p \in Parts, u \in Uids : summary[p][u].deletedAtEnd =>
         deletedAt[u] # Never /\ summary[p][u].lastSeen = deletedAt[u]

(* Versions are processed in the order they were given out.                 *)
VersionInv ==
    \A p \in Parts : \A v \in versions[p] :
        /\ v <= version
        /\ cache # NoObj => v <= cache.version
        /\ rec # NoRecord => v <= rec.obj.version

(* The last record of a partition has the newest of its versions, except    *)
(* between the first two transactions of a record.                          *)
StoredInv ==
    \A p \in Parts : p \notin forgot /\ ~DropsMinorUpdates =>
        /\ watch[p] = NoRecord => versions[p] = {} \/ (pc = "watch" /\ p = Part)
        /\ watch[p] # NoRecord =>
             /\ watch[p].obj.version \in versions[p]
             /\ ~(pc = "watch" /\ p = Part) =>
                  \A v \in versions[p] : v <= watch[p].obj.version
        /\ pc = "watch" /\ p = Part => rec.obj.version \in versions[p]
        /\ changes[p] = 0 \/ changes[p] < Cardinality(versions[p])

IndInv ==
    /\ TypeOK /\ ClusterInv /\ SeenInv /\ DeletionInv /\ VersionInv /\ StoredInv
    /\ LastStateIsKept
=============================================================================
