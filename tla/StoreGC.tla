------------------------------- MODULE StoreGC -------------------------------
(***************************************************************************)
(* doCleanup of pkg/sloop/storemanager/storemanager.go and the helpers of   *)
(* pkg/sloop/common it calls: which partitions a clean-up pass selects, and *)
(* how it deletes them, table by table, while the processor keeps writing.  *)
(*                                                                         *)
(* A store is the number of keys per table and partition.  Time is counted  *)
(* in units of which a partition (one hour) has PartLen.                    *)
(***************************************************************************)
EXTENDS Integers, Sequences, FiniteSetsExt, SequencesExt

CONSTANTS
    TableNames,        \* GetTableNames(): the order in which deletePartition goes
    KeyOrder,          \* the same tables in the order of their keys
    LateTables,        \* tables with rows for past hours (eventcount)
    MaxPart,           \* bound: partitions are 1 .. MaxPart
    MaxRows,           \* bound: keys per table and partition
    PartLen,           \* length of a partition
    TimeLimit,         \* conf.MaxLookback
    SizeThreshold,     \* gcThreshold * sizeLimitBytes, as it comes out
    DiskSizes,         \* values the (cached) stats.DiskSizeBytes may have
    DeletionBatchSize  \* conf.DeletionBatchSize

Tables == ToSet(TableNames)
Parts  == 1 .. MaxPart

(* config.Validate only asks for MaxLookback > 0.                           *)
ASSUME GCAssumption ==
    /\ TableNames \in Seq(STRING) /\ TableNames # << >>
    /\ ToSet(KeyOrder) = Tables /\ Len(KeyOrder) = Len(TableNames)
    /\ LateTables \subseteq Tables
    /\ MaxPart \in Nat \ {0} /\ MaxRows \in Nat \ {0}
    /\ PartLen \in Nat \ {0} /\ TimeLimit \in Nat \ {0}
    /\ SizeThreshold \in Nat /\ DiskSizes \subseteq Nat
    /\ DeletionBatchSize \in Nat \ {0}

VARIABLES
    enableDeleteKeys,  \* conf.EnableDeleteKeys
    rows,      \* the store: number of keys per table and partition
    now,       \* partition of the current time
    pc,        \* where the clean-up pass stands
    disk,      \* stats.DiskSizeBytes of this pass
    newest,    \* maxPartition, read in a transaction of its own
    info,      \* partitionMap: the numbers of keys GetPartitionsInfo counted
    toDelete,  \* partitionsToDelete
    part, tab, \* loop indices of doCleanup and deletePartition
    deleted,   \* numOfKeysDeleted of the DeleteKeysWithPrefix call in progress
    errs       \* errMessages is not empty

passVars == <<disk, newest, info, toDelete>>
vars == <<enableDeleteKeys, rows, now, pc, passVars, part, tab, deleted, errs>>

NoRows == [t \in Tables |-> [p \in Parts |-> 0]]

TypeOK ==
    /\ rows \in [Tables -> [Parts -> 0 .. MaxRows]]
    /\ now \in Parts
    /\ pc \in {"idle", "info", "delete", "succeeded", "failed", "panic"}
    /\ disk \in DiskSizes \cup {0}
    /\ newest \in Parts \cup {0}
    /\ info \in [Tables -> [Parts -> 0 .. MaxRows]]
    /\ toDelete \in Seq(Parts)
    /\ part \in Nat /\ tab \in 1 .. Len(TableNames)
    /\ deleted \in Nat
    /\ errs \in BOOLEAN /\ enableDeleteKeys \in BOOLEAN

Init ==
    /\ rows = NoRows
    /\ now = 1
    /\ pc = "idle"
    /\ disk = 0 /\ newest = 0 /\ info = NoRows /\ toDelete = <<>>
    /\ part = 1 /\ tab = 1 /\ deleted = 0
    /\ errs = FALSE
    /\ enableDeleteKeys \in BOOLEAN

-----------------------------------------------------------------------------
(* Pure parts.                                                              *)

(* The keys of the partitions P, and how many they are: TotalKeyCount,      *)
(* added up, and totalKeysCount.                                            *)
Keys(r, P)     == {k \in (Tables \X P) \X (1 .. MaxRows) : k[2] <= r[k[1][1]][k[1][2]]}
KeyCount(r, P) == Cardinality(Keys(r, P))
TotalCount(r)  == KeyCount(r, Parts)

NonEmpty(r) == {p \in Parts : \E t \in Tables : r[t][p] > 0}

(* GetSortedPartitionIDs: the i-th has i partitions up to it.               *)
SortedPartitionIDs(r) ==
    [i \in 1 .. Cardinality(NonEmpty(r)) |->
        CHOOSE p \in NonEmpty(r) : Cardinality({q \in NonEmpty(r) : q <= p}) = i]

(* The first n of them.                                                     *)
First(sorted, n) == {sorted[i] : i \in 1 .. n}

StartOf(p) == p * PartLen
EndOf(p)   == (p + 1) * PartLen

(* mutants of CleanUpTimeCondition: a partition that just fits is too old;  *)
(* the newest partition is not counted; everything is too old               *)
CleanUpEarlyMutant(min, max) == EndOf(max) - StartOf(min) >= TimeLimit

CleanUpLateMutant(min, max) == StartOf(max) - StartOf(min) > TimeLimit

CleanUpAlwaysMutant(min, max) == EndOf(max) - StartOf(min) > 0

(* cleanUpTimeCondition                                                     *)
CleanUpTimeCondition(min, max) == EndOf(max) - StartOf(min) > TimeLimit

(* hasFilesOnDiskExceededThreshold                                          *)
SizeConditionMet(d) == d > SizeThreshold

(* math.Ceil of a product of total keys and share/d, in floating point: the *)
(* product is off by less than one, so that the result is the ceiling or    *)
(* one key more or less, at least one key and at most all of them.          *)
Ceil(share, d, total) ==
    LET exact == (share * total + d - 1) \div d
    IN  {n \in 0 .. total : n >= exact - 1 /\ n <= exact + 1 /\ (total > 0 => n > 0)}

(* mutant of KeysToDelete: the share of the keys to keep                    *)
KeysToDeleteMutant(d, total) == Ceil(SizeThreshold, d, total)

(* getGarbageCollectionRatio and getNumberOfKeysToDelete: what they may     *)
(* return for a disk size above the threshold.                              *)
KeysToDelete(d, total) == Ceil(d - SizeThreshold, d, total)

(* getPartitionsToDeleteWhenSizeConditionHasBeenMet: how many rounds its    *)
(* loop takes to collect `need` keys, one partition of `sorted` each.       *)
SizeLoop(r, sorted, need) ==
    Min({n \in 0 .. Len(sorted) : KeyCount(r, First(sorted, n)) >= need})

(* The loop of getPartitionsToDelete over the partitions behind the first   *)
(* `from`: how many partitions there are up to the one it stops at.         *)
TimeLoop(sorted, from, max) ==
    Min({n \in from .. Len(sorted) :
           n < Len(sorted) => ~CleanUpTimeCondition(sorted[n + 1], max)})

-----------------------------------------------------------------------------
(* The processor, running all the time: rows of the hour a record was made  *)
(* in, which may be over when it is processed, and event counts also for    *)
(* past hours that are still there.                                         *)
Write(t, p) ==
    /\ rows[t][p] < MaxRows
    /\ \/ p \in {now - 1, now}
       \/ /\ t \in LateTables /\ NonEmpty(rows) # {}
          /\ p \in Min(NonEmpty(rows)) .. Max(NonEmpty(rows))
    /\ rows' = [rows EXCEPT ![t][p] = @ + 1]
    /\ UNCHANGED <<enableDeleteKeys, now, pc, passVars, part, tab, deleted, errs>>

NextHour ==
    /\ now < MaxPart
    /\ now' = now + 1
    /\ UNCHANGED <<enableDeleteKeys, rows, pc, passVars, part, tab, deleted, errs>>

-----------------------------------------------------------------------------
(* doCleanup                                                                *)

(* needCleanUp                                                              *)
NeedCleanUp(d) ==
    \/ SizeConditionMet(d)
    \/ CleanUpTimeCondition(Min(NonEmpty(rows)), Max(NonEmpty(rows)))

(* getPartitionsToDelete, first transaction: the smallest and the largest   *)
(* partition.  A pass that finds nothing to do changes nothing.             *)
BeginPass(d) ==
    /\ pc \in {"idle", "succeeded", "failed"}
    /\ NonEmpty(rows) # {} /\ NeedCleanUp(d)
    /\ disk' = d
    /\ newest' = Max(NonEmpty(rows))
    /\ pc' = "info"
    /\ part' = 1 /\ tab' = 1 /\ deleted' = 0 /\ errs' = FALSE
    /\ UNCHANGED <<enableDeleteKeys, rows, now, info, toDelete>>

(* if sizeConditionMet: how many partitions are chosen to make room.        *)
BySize(sorted) ==
    IF SizeConditionMet(disk)
      THEN {SizeLoop(rows, sorted, need) : need \in KeysToDelete(disk, TotalCount(rows))}
      ELSE {0}

(* Second transaction: GetPartitionsInfo, and the choice.  The access to    *)
(* sortedPartitionsList behind the last partition to delete panics if there *)
(* is none left.                                                            *)
ReadInfo ==
    /\ pc = "info"
    /\ info' = rows
    /\ LET sorted == SortedPartitionIDs(rows)
       IN  \E bySize \in BySize(sorted) :
             LET chosen == IF bySize = Len(sorted) THEN bySize
                                                   ELSE TimeLoop(sorted, bySize, newest)
             IN  /\ toDelete' = SubSeq(sorted, 1, chosen)
                 /\ pc' = IF bySize < Len(sorted) /\ chosen = Len(sorted)
                            THEN "panic" ELSE "delete"
    /\ UNCHANGED <<enableDeleteKeys, rows, now, disk, newest, part, tab, deleted, errs>>

Part == toDelete[part]
Tab  == TableNames[tab]

NextTabMutant == tab + 1

(* The range over GetTableNames() starts afresh for every partition.        *)
NextTab == IF tab < Len(TableNames) THEN tab + 1 ELSE 1

NextPartMutant == part

NextPart == part + 1

(* doCleanup returns, and its local variables are gone.                     *)
Forget == disk' = 0 /\ newest' = 0 /\ info' = NoRows /\ toDelete' = <<>>
ForgetAtEnd == IF pc' = "delete" THEN UNCHANGED passVars ELSE Forget

(* The end of the loop body of deletePartition for one table, and after the *)
(* last table of the loop body of doCleanup, which gives up on errors.  (A  *)
(* pass that got through then drops the empty prefix if enableDeleteKeys:   *)
(* Badger compacts its tables, no row changes, an error is only logged.)    *)
Advance(err) ==
    /\ deleted' = 0
    /\ tab' = NextTab
    /\ IF tab < Len(TableNames)
         THEN errs' = err /\ UNCHANGED <<part, pc>>
         ELSE /\ errs' = FALSE
              /\ part' = NextPart
              /\ pc' = CASE err                             -> "failed"
                         [] ~err /\ part = Len(toDelete) -> "succeeded"
                         [] OTHER                        -> pc
    /\ ForgetAtEnd

(* deletePartition without enableDeleteKeys: DropPrefix of the table's      *)
(* keys, then of Badger's moved keys.  Either call may fail, but the error  *)
(* of the first is overwritten by the result of the second.                 *)
DropPrefixes(dropOk, moveOk) ==
    /\ pc = "delete" /\ ~enableDeleteKeys
    /\ rows' = IF dropOk THEN [rows EXCEPT ![Tab][Part] = 0] ELSE rows
    /\ Advance(errs \/ ~moveOk)
    /\ UNCHANGED <<enableDeleteKeys, now>>

(* The smallest key of the whole store has the prefix /t/p.                 *)
FirstKeyIn(t, p) ==
    /\ rows[t][p] > 0
    /\ \A q \in Parts : q < p => rows[t][q] = 0
    /\ \A i, j \in DOMAIN KeyOrder :
         i < j /\ KeyOrder[j] = t => \A q \in Parts : rows[KeyOrder[i]][q] = 0

(* DeleteKeysWithPrefix: the keys of one batch are looked for from the very *)
(* first key of the store (Rewind), for as long as they have the prefix.    *)
Batch(t, p) ==
    IF FirstKeyIn(t, p) THEN Min({DeletionBatchSize, rows[t][p]}) ELSE 0

(* numOfKeysDeleted < numOfKeysToDelete                                     *)
MoreToDelete == deleted < info[Tab][Part]

(* One round of its loop: find a batch and delete it, or fail to.           *)
DeleteBatch(ok) ==
    /\ pc = "delete" /\ enableDeleteKeys
    /\ MoreToDelete
    /\ LET n == Batch(Tab, Part)
       IN  IF ok THEN /\ rows' = [rows EXCEPT ![Tab][Part] = @ - n]
                      /\ deleted' = deleted + n
                      /\ UNCHANGED <<pc, part, tab, errs, passVars>>
                 ELSE /\ n > 0
                      /\ Advance(TRUE)
                      /\ UNCHANGED rows
    /\ UNCHANGED <<enableDeleteKeys, now>>

(* ... until as many keys are deleted as were counted.                      *)
DeleteBatchesDone ==
    /\ pc = "delete" /\ enableDeleteKeys
    /\ ~MoreToDelete
    /\ Advance(errs)
    /\ UNCHANGED <<enableDeleteKeys, rows, now>>

-----------------------------------------------------------------------------
DeleteStep ==
    \/ \E dropOk, moveOk \in BOOLEAN : DropPrefixes(dropOk, moveOk)
    \/ \E ok \in BOOLEAN : DeleteBatch(ok)
    \/ DeleteBatchesDone

Next ==
    \/ \E t \in Tables, p \in Parts : Write(t, p)
    \/ NextHour
    \/ \E d \in DiskSizes : BeginPass(d)
    \/ ReadInfo
    \/ DeleteStep

(* gcLoop comes around again and again, and starts a pass if one is due     *)
(* whatever the disk size is then; a pass goes on, and a DropPrefix that is *)
(* retried for ever on the same prefix succeeds in the end.                 *)
Fairness ==
    /\ WF_vars(\E d \in DiskSizes : BeginPass(d) /\ \A e \in DiskSizes : NeedCleanUp(e))
    /\ WF_vars(ReadInfo)
    /\ WF_vars(DeleteStep)
    /\ \A t \in Tables, p \in Parts :
         SF_vars(DropPrefixes(TRUE, TRUE) /\ Tab = t /\ Part = p)

Spec     == Init /\ [][Next]_vars
FairSpec == Spec /\ Fairness

-----------------------------------------------------------------------------
(* Data within the look-back of the newest data is only ever deleted to     *)
(* make room on disk, although the newest partition was read before the     *)
(* partitions were listed and both before anything is deleted.              *)
KeepsRecentData ==
    [][\A t \in Tables, p \in Parts :
         rows'[t][p] < rows[t][p] =>
             \/ SizeConditionMet(disk)
             \/ EndOf(Max(NonEmpty(rows))) - StartOf(p) > TimeLimit]_vars

(* The partitions chosen are the oldest ones; under size pressure they hold *)
(* the share of the keys that is over the limit, and without the last of    *)
(* them they would not, unless that one is too old as well.  Both are true  *)
(* up to one key: the number of keys to delete is computed in floating      *)
(* point, and its ceiling may be one too large or too small.                *)
SelectsOldestAndEnough ==
    pc = "delete" =>
        LET need   == IF SizeConditionMet(disk)
                        THEN Min({k \in 0 .. TotalCount(info) :
                                    k * disk >= (disk - SizeThreshold) * TotalCount(info)})
                        ELSE 0
            chosen == ToSet(toDelete)
            last   == Max(chosen)
        IN  /\ chosen # {}
            /\ \A p \in NonEmpty(info) : p <= last => p \in chosen
            /\ KeyCount(info, chosen) >= need - 1
            /\ \/ EndOf(newest) - StartOf(last) > TimeLimit
               \/ SizeConditionMet(disk) /\ KeyCount(info, chosen \ {last}) <= need

(* getPartitionsToDelete never indexes behind the last partition, provided  *)
(* that the look-back covers a partition (config.Validate does not ask).    *)
NoIndexPanic == TimeLimit >= PartLen => pc # "panic"

(* With DropPrefix a clean-up pass comes to an end, whatever fails.         *)
DropPassEnds ==
    ~enableDeleteKeys /\ pc = "delete" ~> pc \in {"succeeded", "failed"}

(* A clean-up pass comes to an end, whichever way it deletes.               *)
(* Comment of DeleteKeysWithPrefix: "count of existing keys is used which   *)
(* match the given prefix and deletion ends when this number of keys have   *)
(* been deleted".                                                           *)
DeletionEnds == pc = "delete" ~> pc \in {"succeeded", "failed"}

(* p has fallen out of the look-back of the newest data.                    *)
Expired(p) ==
    p \in NonEmpty(rows) /\ EndOf(Max(NonEmpty(rows))) - StartOf(p) > TimeLimit

(* With DropPrefix a partition that has fallen out of the look-back goes    *)
(* away in the end, whatever fails on the way, unless the newer data goes   *)
(* for lack of space while it is not deleted.                               *)
ExpiredDataGoes == \A p \in Parts : ~enableDeleteKeys /\ Expired(p) ~> ~Expired(p)

-----------------------------------------------------------------------------
(* The inductive strengthening used by StoreGC_proofs.                      *)

(* Between the two transactions nothing is deleted: the newest partition    *)
(* and the reason for the pass are still there, and the loops are at their  *)
(* beginning.                                                               *)
InfoInv ==
    pc = "info" =>
        /\ part = 1
        /\ newest \in NonEmpty(rows)
        /\ \/ SizeConditionMet(disk)
           \/ \E p \in NonEmpty(rows) : CleanUpTimeCondition(p, newest)

(* The pass deletes in the order of the partitions; if there is no need for *)
(* space, partitions too old for the newest one only, which is there for as *)
(* long as older ones remain to be deleted.                                 *)
OrderInv ==
    pc = "delete" =>
        /\ part \in 1 .. Len(toDelete)
        /\ \A i, j \in DOMAIN toDelete : i < j => toDelete[i] < toDelete[j]
        /\ SizeConditionMet(disk) \/ \A i \in DOMAIN toDelete :
             /\ CleanUpTimeCondition(toDelete[i], newest)
             /\ i >= part /\ toDelete[i] < newest => newest \in NonEmpty(rows)

IndInv == TypeOK /\ InfoInv /\ OrderInv /\ SelectsOldestAndEnough /\ NoIndexPanic
=============================================================================
