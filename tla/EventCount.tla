----------------------------- MODULE EventCount -----------------------------
(***************************************************************************)
(* pkg/sloop/processing/eventcount.go: how the copies of one Kubernetes     *)
(* Event that the watcher delivers become counts per minute.  The Event     *)
(* keeps occurring, is redelivered on resyncs and expires; the processor    *)
(* runs the event count transaction and the watch table transaction of a    *)
(* record one after the other, and either may fail; other records and the   *)
(* garbage collector add and remove partitions meanwhile.                   *)
(*                                                                         *)
(* Time is counted in units of which a minute has MinuteLen.                *)
(***************************************************************************)
EXTENDS Integers, FiniteSetsExt

CONSTANTS
    MinuteLen,   \* units per minute
    PartLen,     \* units per partition
    MaxTime,     \* bound: last unit of time
    MaxCount,    \* bound: occurrences of the event
    MaxRecords   \* bound: records of the event that are processed

ASSUME EventCountAssumption ==
    /\ MinuteLen \in Nat \ {0} /\ MaxCount \in Nat \ {0}
    /\ MaxTime \in Nat /\ MaxRecords \in Nat
    /\ PartLen \in Nat \ {0} /\ PartLen % MinuteLen = 0

VARIABLES
    now,
    event,     \* the Event at the API server: first, last, count
    cache,     \* the copy of it the informer reported last
    rec,       \* the record the processor has in hand: its time and the Event
    pc,        \* the transaction that comes next
    watch,     \* last copy of the Event in each partition of the watch table
    others,    \* partitions with rows of other resources
    counted,   \* partitions with an eventcount row of the involved object
    counts,    \* MapReasonToCount of the Event's reason, minute by minute
    occurred,  \* history: occurrences so far
    records,   \* history: records so far
    added,     \* history: counts added by the records of each partition
    forgot     \* history: partitions that lost, or never got, a copy of the Event

envVars   == <<now, event, cache, occurred, records>>
storeVars == <<watch, others, counted, counts>>
vars == <<envVars, rec, pc, storeVars, added, forgot>>

Times   == 0 .. MaxTime
Minutes == {k * MinuteLen : k \in 0 .. (MaxTime \div MinuteLen + 1)}

(* GetPartitionId and GetTimeRangeForPartition                              *)
PartOf(t)  == t \div PartLen
StartOf(p) == p * PartLen
EndOf(p)   == (p + 1) * PartLen

Parts == {PartOf(m) : m \in Minutes}

NoEvent   == [first |-> 0, last |-> 0, count |-> 0]
EventInfo == [first : Times, last : Times, count : 1 .. MaxCount] \cup {NoEvent}

TypeOK ==
    /\ now \in Times
    /\ event \in EventInfo /\ cache \in EventInfo
    /\ rec \in [ts : Times, info : EventInfo]
    /\ pc \in {"recv", "count", "watch"}
    /\ watch \in [Parts -> EventInfo]
    /\ others \subseteq Parts /\ counted \subseteq Parts /\ forgot \subseteq Parts
    /\ counts \in [Minutes -> Nat]
    /\ occurred \in 0 .. MaxCount /\ records \in 0 .. MaxRecords
    /\ added \in [Parts -> Nat]

NoRecord == [ts |-> 0, info |-> NoEvent]

Init ==
    /\ now = 0
    /\ event = NoEvent /\ cache = NoEvent
    /\ rec = NoRecord /\ pc = "recv"
    /\ watch = [p \in Parts |-> NoEvent]
    /\ others = {} /\ counted = {}
    /\ counts = [m \in Minutes |-> 0]
    /\ occurred = 0 /\ records = 0 /\ added = [p \in Parts |-> 0] /\ forgot = {}

-----------------------------------------------------------------------------
(* Pure parts.                                                              *)

DiffMutant(prev, new) ==
    IF prev # NoEvent /\ prev.last >= new.last THEN NoEvent ELSE new

(* computeEventsDiff: what is new in `new`.                                 *)
ComputeEventsDiff(prev, new) ==
    LET since(n) == [first |-> prev.last, last |-> new.last, count |-> n]
    IN  IF prev = NoEvent \/ prev.last < new.first THEN new
        ELSE IF prev.last >= new.last THEN NoEvent
        ELSE IF prev.first = new.first
          THEN IF new.count < prev.count THEN NoEvent ELSE since(new.count - prev.count)
        ELSE IF prev.last <= prev.first THEN NoEvent
        ELSE since(Max({0, new.count - (prev.count * (prev.last - new.first))
                                         \div (prev.last - prev.first)}))

AdjustMutant(d, minEnd, maxStart, maxEnd) ==
    IF d.first > maxEnd THEN [d EXCEPT !.count = 0]
                        ELSE [d EXCEPT !.last = Min({@, maxEnd})]

AdjustUncheckedMutant(d, minEnd, maxStart, maxEnd) ==
    LET first == Max({d.first, IF minEnd = maxEnd THEN maxStart ELSE minEnd})
        last  == Min({d.last, maxEnd})
    IN  IF d.first = d.last THEN [d EXCEPT !.count = 0]
        ELSE [first |-> first, last |-> last,
              count |-> (d.count * (last - first)) \div (d.last - d.first)]

AdjustShareMutant(d, minEnd, maxStart, maxEnd) ==
    LET begin == IF minEnd = maxEnd THEN maxStart ELSE minEnd
        first == Max({d.first, begin})
        last  == Min({d.last, maxEnd})
    IN  IF d.last < begin \/ d.first > maxEnd
          THEN [first |-> begin, last |-> maxEnd, count |-> 0]
          ELSE [first |-> first, last |-> last,
                count |-> (d.count * (last - first)) \div (maxEnd - begin)]

(* adjustForAvailablePartitions: the share of the counts that falls between *)
(* the end of the oldest partition (the start of it, if it is the only one) *)
(* and the end of the newest.  For first = last the code divides 0 by 0 and *)
(* converts NaN to int and then to int32: 0 whichever int the build yields. *)
(* The quotient is exact here, a float64 there.                             *)
AdjustForAvailablePartitions(d, minEnd, maxStart, maxEnd) ==
    LET begin == IF minEnd = maxEnd THEN maxStart ELSE minEnd
        first == Max({d.first, begin})
        last  == Min({d.last, maxEnd})
    IN  IF d.last < begin \/ d.first > maxEnd
          THEN [first |-> begin, last |-> maxEnd, count |-> 0]
        ELSE IF d.first = d.last
          THEN [d EXCEPT !.count = 0]
        ELSE [first |-> first, last |-> last,
              count |-> (d.count * (last - first)) \div (d.last - d.first)]

DistributeMutant(value, buckets) ==
    [pos \in 0 .. buckets - 1 |-> value \div buckets]

(* distributeValue                                                          *)
DistributeValue(value, buckets) ==
    [pos \in 0 .. buckets - 1 |->
        value \div buckets + (IF value % buckets > pos THEN 1 ELSE 0)]

(* time.Round(time.Minute): half a minute rounds up.                        *)
RoundToMinute(t) == ((2 * t + MinuteLen) \div (2 * MinuteLen)) * MinuteLen

(* spreadOutEvents: a map from minutes to counts.                           *)
SpreadOutEvents(d) ==
    LET from   == RoundToMinute(d.first)
        to     == RoundToMinute(d.last)
        n      == Max({1, (to - from) \div MinuteLen})
        values == DistributeValue(d.count, n)
    IN  IF from = to
          THEN [m \in {from} |-> d.count]
          ELSE [m \in {from + i * MinuteLen : i \in {j \in DOMAIN values : values[j] > 0}}
                  |-> values[(m - from) \div MinuteLen]]

-----------------------------------------------------------------------------
(* The cluster and the other users of the store.                            *)

Tick ==
    /\ now < MaxTime
    /\ now' = now + 1
    /\ UNCHANGED <<event, cache, occurred, records, rec, pc, storeVars, added, forgot>>

(* The event occurs (again): the API server updates the Event.              *)
Occur ==
    /\ occurred < MaxCount
    /\ occurred' = occurred + 1
    /\ event' = IF event = NoEvent THEN [first |-> now, last |-> now, count |-> 1]
                ELSE [event EXCEPT !.last = now, !.count = @ + 1]
    /\ UNCHANGED <<now, cache, records, rec, pc, storeVars, added, forgot>>

Expire ==
    /\ event # NoEvent
    /\ event' = NoEvent
    /\ UNCHANGED <<now, cache, occurred, records, rec, pc, storeVars, added, forgot>>

(* Another resource is processed: its rows are in the current partition.    *)
OtherRecord ==
    /\ pc = "recv"
    /\ others' = others \cup {PartOf(now)}
    /\ UNCHANGED <<envVars, rec, pc, watch, counted, counts, added, forgot>>

Partitions == {p \in Parts : watch[p] # NoEvent} \cup others \cup counted

(* The garbage collector drops the oldest partition, one table at a time.   *)
GcDropsWatch ==
    /\ Partitions # {}
    /\ LET p == Min(Partitions)
       IN  /\ watch' = [watch EXCEPT ![p] = NoEvent]
           /\ others' = others \ {p}
           /\ forgot' = forgot \cup {p}
    /\ UNCHANGED <<envVars, rec, pc, counted, counts, added>>

GcDropsCounts ==
    /\ Partitions # {}
    /\ LET p == Min(Partitions)
       IN  /\ counted' = counted \ {p}
           /\ counts' = [m \in Minutes |-> IF PartOf(m) = p THEN 0 ELSE counts[m]]
    /\ UNCHANGED <<envVars, rec, pc, watch, others, added, forgot>>

-----------------------------------------------------------------------------
(* The informer reports the Event: an add, an update, a resync with nothing *)
(* new, or, once it has expired, its deletion with the last known copy.     *)
Deliver ==
    /\ pc = "recv" /\ records < MaxRecords
    /\ LET copy == IF event # NoEvent THEN event ELSE cache
       IN  /\ copy # NoEvent
           /\ rec' = [ts |-> now, info |-> copy]
    /\ cache' = event
    /\ records' = records + 1
    /\ pc' = "count"
    /\ UNCHANGED <<now, event, occurred, storeVars, added, forgot>>

(* getPreviousEventInfo: the last copy in the partition of the record.      *)
PreviousEventInfo == watch[PartOf(rec.ts)]

NewCounts ==
    LET d == ComputeEventsDiff(PreviousEventInfo, rec.info)
        min == Min(Partitions)
        max == Max(Partitions)
    IN  AdjustForAvailablePartitions(d, EndOf(min), StartOf(max), EndOf(max))

(* storeMinutes                                                             *)
StoreMinutes(minutes) ==
    /\ counts' = [m \in Minutes |->
                    counts[m] + (IF m \in DOMAIN minutes THEN minutes[m] ELSE 0)]
    /\ counted' = counted \cup {PartOf(m) : m \in DOMAIN minutes}

(* updateEventCountTable.  Nothing new, and a store without partitions, are *)
(* no error.  The transaction is one step: a DropPrefix comes before or     *)
(* after it, never between its reads and its write.                         *)
UpdateEventCountTable ==
    /\ pc = "count"
    /\ pc' = "watch"
    /\ IF \/ ComputeEventsDiff(PreviousEventInfo, rec.info).count = 0
          \/ Partitions = {}
         THEN UNCHANGED <<counted, counts, added>>
         ELSE /\ StoreMinutes(SpreadOutEvents(NewCounts))
              /\ added' = [added EXCEPT ![PartOf(rec.ts)] = @ + NewCounts.count]
    /\ UNCHANGED <<envVars, rec, watch, others, forgot>>

(* The transaction fails: a conflict, or no uid for the involved object.    *)
UpdateEventCountTableFails ==
    /\ pc = "count"
    /\ pc' = "watch"
    /\ UNCHANGED <<envVars, rec, storeVars, added, forgot>>

(* updateKubeWatchTable of an Event, which always stores it; the other two  *)
(* transactions of the record skip Events.                                  *)
UpdateKubeWatchTable ==
    /\ pc = "watch"
    /\ pc' = "recv"
    /\ watch' = [watch EXCEPT ![PartOf(rec.ts)] = rec.info]
    /\ rec' = NoRecord
    /\ UNCHANGED <<envVars, others, counted, counts, added, forgot>>

UpdateKubeWatchTableFails ==
    /\ pc = "watch"
    /\ pc' = "recv"
    /\ forgot' = forgot \cup {PartOf(rec.ts)}
    /\ rec' = NoRecord
    /\ UNCHANGED <<envVars, storeVars, added>>

-----------------------------------------------------------------------------
Next ==
    \/ Tick \/ Occur \/ Expire \/ OtherRecord
    \/ GcDropsWatch \/ GcDropsCounts
    \/ Deliver
    \/ UpdateEventCountTable \/ UpdateEventCountTableFails
    \/ UpdateKubeWatchTable \/ UpdateKubeWatchTableFails

Spec == Init /\ [][Next]_vars

-----------------------------------------------------------------------------
(* The counts of a map, one by one, and how many they are.                  *)
Units(f) == UNION {{x} \X (1 .. f[x]) : x \in DOMAIN f}
Total(f) == Cardinality(Units(f))

(* However often an Event is redelivered within a partition, its records    *)
(* there never add more than the times it occurred, unless a copy got lost: *)
(* a watch table transaction failed, or the partition was dropped.          *)
CountsOncePerPartition ==
    \A p \in Parts : p \notin forgot => added[p] <= occurred

(* Spreading the counts over minutes and partitions loses and invents none: *)
(* the store gains what was left after truncation.  (A TODO asks for totals *)
(* that always match.)                                                      *)
TotalsMatch ==
    [][added' # added =>
         Total(counts') - Total(counts) = Total(added') - Total(added)]_vars

(* Event counts are never filled in for partitions older than the ones that *)
(* are kept, nor for the oldest of several, which is the next to go.        *)
NeverFillsThePast ==
    [][\A m \in Minutes : counts'[m] > counts[m] =>
         \/ PartOf(m) > Min(Partitions)
         \/ Partitions = {PartOf(m)}]_vars

(* adjustForAvailablePartitions: an Event that is new to its partition and  *)
(* lasted from after the end of the oldest partition to before the end of   *)
(* the newest is counted in full, and its counts are spread over the        *)
(* minutes it lasted.  (One that lasted no time at all is counted as none.) *)
AvailableIsKept ==
    LET e == rec.info
        available == e.first > EndOf(Min(Partitions)) /\ e.last < EndOf(Max(Partitions))
        minutes   == SpreadOutEvents(NewCounts)
    IN  (/\ pc = "count" /\ Partitions # {} /\ PreviousEventInfo = NoEvent
         /\ available /\ e.first < e.last)
            => /\ Total(minutes) = e.count
               /\ DOMAIN minutes \subseteq RoundToMinute(e.first) .. RoundToMinute(e.last)

(* Test of updateEventCountTable, "new event is added which is after        *)
(* truncateTs ... The new events will be added": an Event of the current    *)
(* hour that lasted a while is counted when its record has been processed.  *)
NewEventIsAdded ==
    pc = "count" /\ Partitions # {} /\ PreviousEventInfo = NoEvent
      /\ rec.info.first < rec.info.last /\ rec.info.count >= MaxCount
      /\ PartOf(rec.info.first) = PartOf(rec.ts) /\ Min(Partitions) < PartOf(rec.ts)
        => NewCounts.count > 0

-----------------------------------------------------------------------------
(* The inductive strengthening used by EventCount_proofs.                   *)

(* Copies of the Event, in the order they are taken.                        *)
Grown(old, new) == old.first = new.first /\ old.count <= new.count /\ old.last <= new.last
Succeeds(old, new) == old.last <= new.first

(* With n counted of the copy `old` and what went before it, counting on to *)
(* `new` stays within the occurrences: `new` is the same Event grown, or a  *)
(* later Event, all of which is still to be counted.                        *)
MayCountOn(old, new, n) ==
    \/ Grown(old, new) /\ n + (new.count - old.count) <= occurred
    \/ Succeeds(old, new) /\ n + new.count <= occurred

MayCount(p, copy) ==
    copy # NoEvent =>
        IF watch[p] = NoEvent THEN added[p] + copy.count <= occurred
                              ELSE MayCountOn(watch[p], copy, added[p])

(* A copy is of the past, and what is in the informer's cache while a       *)
(* record is in hand is that record.                                        *)
CopyInv ==
    /\ \A c \in {event, cache, rec.info} \cup {watch[p] : p \in Parts} :
         c.first <= c.last /\ c.last <= now
    /\ event.count <= occurred
    /\ pc = "recv" <=> rec.info = NoEvent
    /\ pc # "recv" => cache \in {NoEvent, rec.info}

(* What the record in hand may add to its partition ...                     *)
Pending == IF pc = "count" THEN ComputeEventsDiff(PreviousEventInfo, rec.info).count ELSE 0

(* ... leaves room for what is still to come.                               *)
BudgetInv ==
    \A p \in Parts : p \notin forgot =>
        /\ added[p] <= occurred
        /\ MayCount(p, event) \/ (pc # "recv" /\ p = PartOf(rec.ts))
        /\ MayCount(p, cache) \/ (pc # "recv" /\ p = PartOf(rec.ts))
        /\ pc # "recv" /\ p = PartOf(rec.ts) =>
             /\ pc = "count" => MayCount(p, rec.info)
             /\ added[p] + Pending <= occurred
             /\ event # NoEvent => MayCountOn(rec.info, event, added[p] + Pending)

IndInv == TypeOK /\ CopyInv /\ BudgetInv
=============================================================================
