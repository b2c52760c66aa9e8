---------------------------- MODULE PayloadQuery ----------------------------
(***************************************************************************)
(* pkg/sloop/queries: RunQuery with GetResPayload, and the operations of    *)
(* pkg/sloop/store/typed/tabletemplate.go it reads the watch table with.    *)
(* The query computes its time range in one transaction and reads in a      *)
(* second one, partition by partition, while the processor writes and the   *)
(* garbage collector drops partitions.                                      *)
(*                                                                         *)
(* A transaction does not see what is written after it began, but it does   *)
(* lose what DropPrefix removes (external: badger).  A watch table key is   *)
(* the partition, the resource and the time; the order of the resources is  *)
(* that of their numbers.  A payload is never empty.                        *)
(***************************************************************************)
EXTENDS Integers, FiniteSetsExt, SequencesExt

CONSTANTS
    Names,        \* the resources, as positive numbers
    Payloads,
    PartLen,      \* units of time per partition
    MinLookback,  \* minLookback
    MaxLookBack,  \* conf.MaxLookback
    MaxDelay,     \* bound: from the time stamp of a record to its commit
    MaxTime,      \* bound: last unit of time
    MaxRows,      \* bound: rows of the watch table, now or when the query began
    Lookbacks,    \* the lookbacks queries ask for
    Stamps,       \* the start and end times queries ask for
    None          \* a parameter that is not given

ASSUME PayloadQueryAssumption ==
    /\ Names \subseteq Nat \ {0} /\ PartLen \in Nat \ {0}
    /\ MinLookback \in Nat \ {0} /\ MaxLookBack \in Nat \ {0}
    /\ MinLookback <= MaxLookBack
    /\ {MaxDelay, MaxTime, MaxRows} \subseteq Nat
    /\ Lookbacks \subseteq Int /\ Stamps \subseteq Nat

VARIABLES
    now,
    rows,      \* the watch table
    newest,    \* the newest partition of all tables, or -1
    pc,        \* where the request is
    name,      \* the resource asked for
    range,     \* startTime and endTime of the query
    snap,      \* the watch table when the reading transaction began
    cur,       \* RangeRead: currentPartition
    watchRes,  \* watchRes: the rows read so far
    prev,      \* previousKey: the row it names, or none
    reply      \* the payload list of the answer

storeVars == <<now, rows, newest>>
readVars  == <<snap, cur, watchRes, prev, reply>>
vars == <<storeVars, pc, name, range, readVars>>

(* GetPartitionId and GetTimeRangeForPartition                              *)
PartOf(t) == t \div PartLen
EndOf(p)  == (p + 1) * PartLen

Times == 0 .. MaxTime
Parts == {PartOf(t) : t \in Times}
Row   == [name : Names, ts : Times, payload : Payloads]

Params ==
    [name : Names, lookback : Lookbacks \cup {None}, start : Stamps \cup {None},
     end : Stamps \cup {None}]

TypeOK ==
    /\ now \in Times /\ rows \subseteq Row /\ newest \in Parts \cup {-1}
    /\ pc \in {"idle", "view", "read", "prev", "get", "render", "done", "failed"}
    /\ name \in Names \cup {0}
    /\ range \in [start : Int, end : Int]
    /\ snap \subseteq Row /\ watchRes \subseteq snap
    /\ prev \subseteq Row /\ Cardinality(prev) <= 1
    /\ cur \in Int
    /\ reply \in Seq(Row)

NoQuery ==
    /\ name = 0 /\ range = [start |-> 0, end |-> 0]
    /\ snap = {} /\ cur = 0 /\ watchRes = {} /\ prev = {} /\ reply = << >>

ClearQuery ==
    /\ name' = 0 /\ range' = [start |-> 0, end |-> 0]
    /\ snap' = {} /\ cur' = 0 /\ watchRes' = {} /\ prev' = {} /\ reply' = << >>

Init ==
    /\ now = 0 /\ rows = {} /\ newest = -1
    /\ pc = "idle" /\ NoQuery

-----------------------------------------------------------------------------
(* The rest of the program: time, the processor and the garbage collector   *)

Tick ==
    /\ now < MaxTime
    /\ now' = now + 1
    /\ UNCHANGED <<rows, newest, pc, name, range, readVars>>

NewestAfter(t) == IF PartOf(t) > newest THEN PartOf(t) ELSE newest

(* updateKubeWatchTable, and the tables written with it.  The time stamp    *)
(* was taken by the watcher, in nanoseconds: no two records have one key.   *)
Write(n, p) ==
    \E t \in {u \in Times : u <= now /\ u >= now - MaxDelay} :
        /\ Cardinality(rows \cup snap) < MaxRows
        /\ \A r \in rows \cup snap :
            <<r.name, r.ts>> # <<n, t>>
        /\ rows' = rows \cup {[name |-> n, ts |-> t, payload |-> p]}
        /\ newest' = NewestAfter(t)
        /\ UNCHANGED <<now, pc, name, range, readVars>>

(* a record that leaves no watch row: a minor update of a node              *)
WriteOthersOnly ==
    /\ newest' = NewestAfter(now)
    /\ UNCHANGED <<now, rows, pc, name, range, readVars>>

WatchParts == {PartOf(r.ts) : r \in rows}

(* deletePartition: the oldest partition goes, the newest of all stays      *)
GcDrops ==
    /\ rows # {}
    /\ Min(WatchParts) < newest
    /\ rows' = {r \in rows : PartOf(r.ts) # Min(WatchParts)}
    /\ UNCHANGED <<now, newest, pc, name, range, readVars>>

-----------------------------------------------------------------------------
(* The time range of a query                                                *)

(* getEndOfTime: the end of the newest partition of all tables, or now if   *)
(* that is earlier                                                          *)
EndOfTime ==
    IF newest = -1 \/ EndOf(newest) > now THEN now ELSE EndOf(newest)

(* the input validations of computeTimeRangeInternal                        *)
ValidParams(q) ==
    \/ q.lookback # None /\ q.start = None
    \/ q.lookback = None /\ q.start # None /\ q.end # None

(* the range the parameters ask for                                         *)
AskedRange(q, endOfTime) ==
    LET end == IF q.end = None THEN endOfTime ELSE q.end
    IN  [start |-> IF q.lookback # None THEN end - q.lookback ELSE q.start,
         end   |-> end]

(* mutant of ShiftBack: cut off instead of moved                            *)
ShiftBackMutant(r, endOfTime) ==
    [start |-> r.start, end |-> IF r.end > endOfTime THEN endOfTime ELSE r.end]

(* a range that ends beyond endOfTime is moved back as it is                *)
ShiftBack(r, endOfTime) ==
    LET by == IF r.end > endOfTime THEN r.end - endOfTime ELSE 0
    IN  [start |-> r.start - by, end |-> r.end - by]

LimitLength(r) ==
    LET len == IF r.end - r.start < MinLookback THEN MinLookback ELSE r.end - r.start
    IN  [start |-> r.end - (IF len > MaxLookBack THEN MaxLookBack ELSE len),
         end   |-> r.end]

ComputeTimeRange(q) == LimitLength(ShiftBack(AskedRange(q, EndOfTime), EndOfTime))

(* RunQuery up to the call of GetResPayload                                 *)
BeginQuery(q) ==
    /\ pc = "idle"
    /\ ValidParams(q)
    /\ name' = q.name
    /\ range' = ComputeTimeRange(q)
    /\ pc' = "view"
    /\ UNCHANGED <<storeVars, readVars>>

BeginQueryFails(q) ==
    /\ pc = "idle"
    /\ ~ValidParams(q)
    /\ pc' = "failed"
    /\ UNCHANGED <<storeVars, name, range, readVars>>

-----------------------------------------------------------------------------
(* GetResPayload                                                            *)

(* what the reading transaction still sees                                  *)
Visible == snap \cap rows

OpenView ==
    /\ pc = "view"
    /\ snap' = rows
    /\ cur' = PartOf(range.start)
    /\ pc' = "read"
    /\ UNCHANGED <<storeVars, name, range, watchRes, prev, reply>>

(* mutant of InTimeRange: the end of the range is forgotten                 *)
InTimeRangeMutant(r) == r.ts >= range.start

(* isResPayloadInTimeRange                                                  *)
InTimeRange(r) == r.ts >= range.start /\ r.ts <= range.end

(* GetPartitionsFromTimeRange: the last partition of the range              *)
LastPartition == PartOf(range.end)

(* RangeRead: one partition; the key prefix selects the resource            *)
RangeRead ==
    /\ pc = "read"
    /\ cur <= LastPartition
    /\ watchRes' = watchRes \cup
         {r \in Visible : PartOf(r.ts) = cur /\ r.name = name /\ InTimeRange(r)}
    /\ cur' = cur + 1
    /\ UNCHANGED <<storeVars, pc, name, range, snap, prev, reply>>

RangeReadEnds ==
    /\ pc = "read"
    /\ cur > LastPartition
    /\ pc' = "prev"
    /\ UNCHANGED <<storeVars, name, range, readVars>>

(* the order of the keys                                                    *)
KeyLeq(p, n, t, q, m, u) ==
    \/ p < q
    \/ p = q /\ n < m
    \/ p = q /\ n = m /\ t <= u

(* GetUniquePartitionList: from the oldest to the newest partition of the   *)
(* table, the empty ones between them included                              *)
UniquePartitionList ==
    LET ps == {PartOf(r.ts) : r \in Visible}
    IN  IF ps = {} THEN {} ELSE Min(ps) .. Max(ps)

(* mutant of LastMatchingKeyInPartition: every earlier key                  *)
LastMatchingKeyMutant(p) ==
    {r \in Visible : r.name = name /\ PartOf(r.ts) = p /\ r.ts < range.start}

(* getLastMatchingKeyInPartition: seek backwards from the key of the        *)
(* resource at startTime, moved to partition p; step over that very key;    *)
(* what is found counts if it is a key of the resource in p.                *)
LastMatchingKeyInPartition(p) ==
    LET below == {r \in Visible : 
                    /\ KeyLeq(PartOf(r.ts), r.name, r.ts, p, name, range.start)
                    /\ ~(r.name = name /\ r.ts = range.start)}
        last  == {r \in below : 
                    \A s \in below : 
                        KeyLeq(PartOf(s.ts), s.name, s.ts, PartOf(r.ts), r.name, r.ts)}
    IN  {r \in last : PartOf(r.ts) = p /\ r.name = name}

(* mutant of EarlierPartitions: only the partition of startTime             *)
EarlierPartitionsMutant == {p \in UniquePartitionList : p = PartOf(range.start)}

(* the partitions GetPreviousKey looks into                                 *)
EarlierPartitions == {p \in UniquePartitionList : p <= PartOf(range.start)}

(* GetPreviousKey: from the newest of them to the oldest.  Rows vanish from *)
(* the oldest partition first, so that looking into all of them in one step *)
(* gives no other answers than looking into one after the other.            *)
GetPreviousKey ==
    /\ pc = "prev"
    /\ LET found == {p \in EarlierPartitions : LastMatchingKeyInPartition(p) # {}}
       IN  IF found = {}
           THEN pc' = "render" /\ prev' = {}
           ELSE pc' = "get" /\ prev' = LastMatchingKeyInPartition(Max(found))
    /\ UNCHANGED <<storeVars, name, range, snap, cur, watchRes, reply>>

(* Get of the previous key.  Not found, it is left out.                     *)
Get ==
    /\ pc = "get"
    /\ watchRes' = watchRes \cup (prev \cap Visible)
    /\ pc' = "render"
    /\ UNCHANGED <<storeVars, name, range, snap, cur, prev, reply>>

(* an error of the store: the request fails                                 *)
ReadFails ==
    /\ pc \in {"read", "get"}
    /\ pc' = "failed"
    /\ ClearQuery
    /\ UNCHANGED storeVars

(* rows in the order of their times: the i-th has i rows up to it           *)
ByTime(S) ==
    [i \in 1 .. Cardinality(S) |->
        CHOOSE r \in S : Cardinality({s \in S : s.ts <= r.ts}) = i]

(* removeDupePayloads: by time, without those that repeat the payload of    *)
(* the one before, kept or not                                              *)
RemoveDupePayloads(S) ==
    LET sorted == ByTime(S)
        kept   == {i \in DOMAIN sorted : 
                     i > 1 => sorted[i].payload # sorted[i - 1].payload}
    IN  ByTime({sorted[i] : i \in kept})

(* the end of GetResPayload                                                 *)
Render ==
    /\ pc = "render"
    /\ reply' = RemoveDupePayloads(watchRes)
    /\ pc' = "done"
    /\ UNCHANGED <<storeVars, name, range, snap, cur, watchRes, prev>>

(* queryHandler writes the answer or the error; nothing of the query stays  *)
Respond ==
    /\ pc \in {"done", "failed"}
    /\ pc' = "idle"
    /\ ClearQuery
    /\ UNCHANGED storeVars

Next ==
    \/ Tick
    \/ \E n \in Names, p \in Payloads : Write(n, p)
    \/ WriteOthersOnly
    \/ GcDrops
    \/ \E q \in Params : BeginQuery(q) \/ BeginQueryFails(q)
    \/ OpenView
    \/ RangeRead \/ RangeReadEnds
    \/ GetPreviousKey \/ Get \/ ReadFails
    \/ Render \/ Respond

Spec == Init /\ [][Next]_vars

-----------------------------------------------------------------------------
(* Properties                                                               *)

(* the payload the answer shows for time t, if any                          *)
ShownAt(t) == {reply[i].payload : i \in
    {j \in DOMAIN reply : 
        /\ reply[j].ts <= t
        /\ \A k \in DOMAIN reply : reply[k].ts <= t => k <= j}}

(* the row of the resource that was in force at time t                      *)
InForceAt(t) == {r \in snap : 
    /\ r.name = name /\ r.ts <= t
    /\ \A s \in snap : s.name = name /\ s.ts <= t => s.ts <= r.ts}

(* GetResPayload: at every moment of the time range the answer shows the    *)
(* payload of the row that was in force then, also when that row was        *)
(* written before startTime, in an older partition or beyond empty ones,    *)
(* and whatever the garbage collector drops during the query; only a row    *)
(* it drops may be missing.                                                 *)
ShowsPayloadInForce ==
    pc = "done" =>
        \A t \in range.start .. range.end :
            \A r \in InForceAt(t) \cap rows : ShownAt(t) = {r.payload}

(* GetResPayload and removeDupePayloads: the answer is a history of this    *)
(* resource: in order of time, each entry a change, nothing after endTime   *)
(* and at most one entry from before startTime.                             *)
AnswerIsAHistory ==
    pc = "done" =>
        /\ \A i \in DOMAIN reply : 
            reply[i].name = name /\ reply[i].ts <= range.end
        /\ \A i \in DOMAIN reply \ {1} : 
            /\ reply[i].ts > reply[i - 1].ts
            /\ reply[i].ts >= range.start
            /\ reply[i].payload # reply[i - 1].payload

(* computeTimeRangeInternal: whatever was asked for, the range ends at a    *)
(* moment that has been, is at least minLookback long and at most           *)
(* maxLookBack; and a stretch of time of a length within these limits keeps *)
(* its length, also when it has to be moved back.  And getEndOfTime: a      *)
(* look-back without an end reaches the newest row there is at this time.   *)
RangeIsSane ==
    [][pc' = "view" /\ pc # "view" =>
         /\ range'.end <= now
         /\ range'.end - range'.start \in MinLookback .. MaxLookBack
         /\ \A q \in Params :
              (/\ q.lookback = None /\ BeginQuery(q)
               /\ q.end - q.start \in MinLookback .. MaxLookBack)
                  => range'.end - range'.start = q.end - q.start
         /\ \A q \in Params :
              (BeginQuery(q) /\ q.lookback # None /\ q.end = None)
                  => \A r \in rows : r.ts <= range'.end]_vars

-----------------------------------------------------------------------------
(* The inductive strengthening used by PayloadQuery_proofs.                 *)

(* No two rows, stored now or when the query began, have one key; no row is *)
(* from the future or newer than the newest partition.                      *)
StoreInv ==
    /\ IsFiniteSet(rows) /\ IsFiniteSet(snap)
    /\ \A r \in rows : r.ts <= now /\ PartOf(r.ts) <= newest
    /\ \A r, s \in rows \cup snap : r.name = s.name /\ r.ts = s.ts => r = s

(* rows of the resource, from within the range and from before it           *)
InRange(S) == {r \in S : r.name = name /\ InTimeRange(r)}
Before(S)  == {r \in S : r.name = name /\ r.ts < range.start}

(* While the partitions are read, what was read is in the range, and what   *)
(* is still visible of the partitions behind is among it.                   *)
ReadInv ==
    /\ pc \in {"idle", "view", "failed"} => watchRes = {} /\ prev = {}
    /\ pc \in {"view", "read", "prev", "get", "render", "done"} =>
         range.start <= range.end
    /\ pc \in {"read", "prev", "get"} => watchRes \subseteq InRange(snap)
    /\ pc = "read" =>
         /\ prev = {}
         /\ \A r \in InRange(Visible) : PartOf(r.ts) < cur => r \in watchRes
    /\ pc \in {"prev", "get", "render", "done"} => InRange(Visible) \subseteq watchRes

(* The previous key is the last one before the range; as long as any row    *)
(* from before the range is visible, it is visible as well, since older     *)
(* partitions go first.  Then it is in the answer.                          *)
PrevInv ==
    /\ prev \subseteq Before(snap)
    /\ pc = "get" =>
         /\ prev # {}
         /\ \A r \in Before(Visible), p \in prev : p \in rows /\ r.ts <= p.ts
    /\ pc \in {"render", "done"} =>
         /\ watchRes \subseteq InRange(snap) \cup prev
         /\ \A r \in Before(Visible) : \E p \in prev \cap watchRes : r.ts <= p.ts

ReplyInv == pc = "done" => reply = RemoveDupePayloads(watchRes)

IndInv == TypeOK /\ StoreInv /\ ReadInv /\ PrevInv /\ ReplyInv
=============================================================================
