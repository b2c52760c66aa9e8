------------------------------ MODULE HeatMap ------------------------------
(***************************************************************************)
(* pkg/sloop/queries: the queries the UI is drawn from.  EventHeatMap reads *)
(* event counts, resource summaries and watch activity, table by table and  *)
(* partition by partition, and joins them into one row per resource; Kinds  *)
(* and Namespaces fill the drop-down lists, GetResSummaryData and           *)
(* GetEventData the page of a resource.                                     *)
(*                                                                         *)
(* The garbage collector drops partitions meanwhile, and a transaction that *)
(* is open loses them (external: badger).  What is written after it began   *)
(* it does not see: nothing is written here while a query runs.             *)
(***************************************************************************)
EXTENDS Integers, FiniteSetsExt, SequencesExt

CONSTANTS
    Populations,  \* the sets of resources a cluster may have
    Selections(_), \* what requests on a population select: kind, namespace, name, uid
    Ranges,       \* the time ranges of requests
    All,          \* AllKinds, AllNamespaces, and a parameter that is not given
    MinuteLen,    \* units of time per minute
    PartLen,      \* units of time per partition
    Resync,       \* the resync time adjustLastSeenTime is called with
    MaxAdjust,    \* by how much adjustOverlays moves an end at most, exclusive
    MaxTime,      \* bound: last unit of time
    QueryFrom,    \* bound: queries begin at this time or later
    MaxRecords,   \* bound: stored records of resources and Events
    MaxEventRows  \* bound: stored Events and minutes with Events, together

(* The limit of adjustOverlays is 60 * 1000 for a minute of 60 seconds, and *)
(* AllKinds is no kind.  Kubernetes: nodes and namespaces have no namespace. *)
ASSUME HeatMapAssumption ==
    /\ MinuteLen \in Nat \ {0} /\ PartLen \in Nat \ {0} /\ PartLen % MinuteLen = 0
    /\ {Resync, MaxAdjust, MaxTime, QueryFrom, MaxRecords, MaxEventRows} \subseteq Nat
    /\ MinuteLen < MaxAdjust /\ All # "Node"
    /\ \A r \in Ranges :
         r.start \in Nat /\ r.end \in Nat /\ r.start < r.end
    /\ \A p \in Populations :
         /\ IsFiniteSet(p)
         /\ \A r \in p :
              /\ DOMAIN r = {"kind", "namespace", "name", "uid"}
              /\ r.kind \in {"Node", "Namespace"} => r.namespace = ""
         /\ \A s \in Selections(p) :
              /\ DOMAIN s = {"kind", "namespace", "match", "name", "uid", "dotted"}
              /\ s.name \in s.dotted

VARIABLES
    now,
    created,     \* creation time of each resource, Never before it exists
    deletedAt,   \* history: when its deletion was processed
    records,     \* history: number of records
    ressum,      \* the rows of the resource summary table
    activity,    \* the occurrences in the rows of the watch activity table
    counts,      \* the minutes in the rows of the event count table
    watch,       \* the rows of the watch table that hold Events
    pc,          \* where the request is
    query,       \* its name
    sel,         \* what it selects
    range,       \* queryStartTime and queryEndTime
    cur,         \* RangeRead: currentPartition
    raw,         \* rawData: the rows read so far
    kindExists,  \* KindQuery: kinds seen so far
    rows,        \* the answer of EventHeatMap: rows by resource
    offered,     \* the answer of Kinds or Namespaces
    found,       \* the answer of GetResSummaryData: a summary, or none
    eventsList   \* the answer of GetEventData

clusterVars == <<now, created, deletedAt, records>>
storeVars   == <<ressum, activity, counts, watch>>
answerVars  == <<rows, offered, found, eventsList>>
vars == <<clusterVars, storeVars, pc, query, sel, range, cur, raw, kindExists, answerVars>>

Times     == 0 .. MaxTime
Never     == -1
Resources == DOMAIN created

(* GetPartitionId                                                           *)
PartOf(t) == t \div PartLen

NoRaw   == [events |-> {}, resources |-> {}, activity |-> {}, watch |-> {}]
NoRange == [start |-> 0, end |-> 0]
NoRows  == [r \in {} |-> 0]

(* ResourceSummary, with its resource and partition                         *)
Summaries ==
    [res : Resources, part : Nat, create : Times, first : Times, last : Times,
     deleted : BOOLEAN]

TypeOK ==
    /\ now \in Times /\ records \in 0 .. MaxRecords
    /\ \E p \in Populations :
        created \in [p -> Times \cup {Never}] /\ deletedAt \in [p -> Times \cup {Never}]
    /\ ressum \cup raw.resources \cup found \subseteq Summaries
    /\ activity \cup raw.activity \subseteq [res : Resources, at : Times, changed : BOOLEAN]
    /\ \A c \in counts \cup raw.events : c.minute \in Times /\ c.minute % MinuteLen = 0
    /\ watch \cup raw.watch \cup eventsList \subseteq
         [obj : Resources, first : Times, last : Times, part : Nat]
    /\ pc \in {"idle", "events", "watch", "resources", "activity", "render", "done", "failed"}
    /\ cur \in Nat
    /\ \A r \in DOMAIN rows :
         /\ rows[r].start \in Times /\ rows[r].end \in Times /\ rows[r].duration \in Nat
         /\ \A o \in rows[r].overlays : o.duration \in Nat

Init ==
    /\ now = 0 /\ records = 0
    /\ \E p \in Populations : 
        created = [r \in p |-> Never] /\ deletedAt = [r \in p |-> Never]
    /\ ressum = {} /\ activity = {} /\ counts = {} /\ watch = {}
    /\ pc = "idle" /\ query = "none" /\ sel = All /\ range = NoRange /\ cur = 0
    /\ raw = NoRaw /\ kindExists = {}
    /\ rows = NoRows /\ offered = {} /\ found = {} /\ eventsList = {}

-----------------------------------------------------------------------------
(* The rest of the program                                                  *)

queryVars == <<pc, query, sel, range, cur, raw, kindExists, answerVars>>

Tick ==
    /\ pc = "idle" /\ now < MaxTime
    /\ now' = now + 1
    /\ UNCHANGED <<created, deletedAt, records, storeVars, queryVars>>

SameName(r, s) == <<r.kind, r.namespace, r.name>> = <<s.kind, s.namespace, s.name>>

(* The rows a record leaves (module ResourceHistory has them in detail).    *)
(* A resource is added when it is created, not before another incarnation   *)
(* of it is gone, and has at most one record per unit of time.  The first   *)
(* record of a partition counts as no change, the others as changes.        *)
Process(r, type) ==
    LET p   == PartOf(now)
        old == {v \in ressum : v.res = r /\ v.part = p}
    IN  /\ pc = "idle" /\ records < MaxRecords
        /\ deletedAt[r] = Never /\ (created[r] = Never <=> type = "ADD")
        /\ \A s \in Resources \ {r} : 
            SameName(r, s) /\ created[s] # Never => deletedAt[s] \in 0 .. now - 1
        /\ ~\E a \in activity : a.res = r /\ a.at = now
        /\ created' = IF type = "ADD" THEN [created EXCEPT ![r] = now] ELSE created
        /\ ressum' = (ressum \ old) \cup
             {[res |-> r, part |-> p, create |-> created'[r], first |-> f, last |-> now,
               deleted |-> type = "DELETE"] :
                f \in IF old = {} THEN {now} ELSE {v.first : v \in old}}
        /\ activity' = activity \cup
             {[res |-> r, at |-> now,
               changed |-> \E a \in activity : a.res = r /\ PartOf(a.at) = p]}
        /\ deletedAt' = IF type = "DELETE" THEN [deletedAt EXCEPT ![r] = now] ELSE deletedAt
        /\ records' = records + 1
        /\ UNCHANGED <<now, counts, watch, queryVars>>

(* Kubernetes: events of a node have its name for the uid of the object.    *)
InvolvedObject(r) == IF r.kind = "Node" THEN [r EXCEPT !.uid = r.name] ELSE r

(* An Event that began in minute m is counted for that minute, in one       *)
(* transaction, and stored in the partition of now, in another one (module  *)
(* EventCount has both in detail, and how either may fail).                 *)
EventRows == Cardinality(counts) + Cardinality(watch)

MinutesPast == {m \in Times : m <= now /\ m % MinuteLen = 0}

CountEvent(r) ==
    /\ pc = "idle" /\ created[r] # Never
    /\ EventRows < MaxEventRows
    /\ \E m \in MinutesPast :
         counts' = counts \cup {[key |-> InvolvedObject(r), minute |-> m]}
    /\ UNCHANGED <<clusterVars, ressum, activity, watch, queryVars>>

StoreEvent(r) ==
    /\ pc = "idle" /\ created[r] # Never
    /\ EventRows < MaxEventRows /\ records < MaxRecords
    /\ records' = records + 1
    /\ \E m \in MinutesPast :
         watch' = watch \cup {[obj |-> r, first |-> m, last |-> now, part |-> PartOf(now)]}
    /\ UNCHANGED <<now, created, deletedAt, ressum, activity, counts, queryVars>>

(* the partitions with rows in a table, and those of all tables             *)
PartsOf(table) ==
    CASE table = "watch"         -> {e.part : e \in watch}
      [] table = "ressum"        -> {v.part : v \in ressum}
      [] table = "eventcount"    -> {PartOf(c.minute) : c \in counts}
      [] table = "watchactivity" -> {PartOf(a.at) : a \in activity}

Tables     == {"watch", "ressum", "eventcount", "watchactivity"}
Partitions == UNION {PartsOf(table) : table \in Tables}

(* deletePartition: the oldest partition goes, table by table; the newest   *)
(* stays.                                                                   *)
GcDrops(table) ==
    /\ \E p \in PartsOf(table) :
         /\ p = Min(Partitions) /\ p < Max(Partitions)
         /\ ressum' = IF table = "ressum" THEN {v \in ressum : v.part # p} ELSE ressum
         /\ activity' = IF table = "watchactivity"
                          THEN {a \in activity : PartOf(a.at) # p} ELSE activity
         /\ counts' = IF table = "eventcount"
                        THEN {c \in counts : PartOf(c.minute) # p} ELSE counts
         /\ watch' = IF table = "watch" THEN {e \in watch : e.part # p} ELSE watch
    /\ UNCHANGED <<clusterVars, queryVars>>

-----------------------------------------------------------------------------
(* Which rows a request selects                                             *)

(* keepRowHelper.  s.match is the set of the names that contain the         *)
(* substring; names are told apart up to their case.                        *)
KeepRowHelper(k, s) ==
    /\ IF s.kind # All THEN s.kind = k.kind
       ELSE s.namespace = All \/ k.kind # "Node"
    /\ s.namespace # All /\ s.kind # "Node" =>
         s.namespace = IF k.kind = "Namespace" THEN k.name ELSE k.namespace
    /\ k.name \in s.match
    /\ s.name = All \/ k.name = s.name
    /\ s.uid = All \/ k.uid = s.uid

(* paramFilterResSumFn                                                      *)
ParamFilterResSum(v) == KeepRowHelper(v.res, sel)

(* paramFilterWatchActivityFn                                               *)
ParamFilterWatchActivity(a) == KeepRowHelper(a.res, sel)

(* paramEventCountSumFn: neither the exact name nor the uid                 *)
ParamEventCountSum(c) == KeepRowHelper(c.key, [sel EXCEPT !.name = All, !.uid = All])

(* isResSummaryValInTimeRange                                               *)
IsResSummaryValInTimeRange(v) == v.first <= range.end /\ v.last >= range.start

-----------------------------------------------------------------------------
(* Reading                                                                  *)

FirstTable(q) ==
    CASE q = "EventHeatMap" -> "events" [] q = "GetEventData" -> "watch"
      [] OTHER -> "resources"

BeginQuery(q, s, r) ==
    /\ r.end <= now
    /\ query' = q /\ sel' = s /\ range' = r
    /\ pc' = FirstTable(q)
    /\ cur' = PartOf(r.start)
    /\ UNCHANGED <<clusterVars, storeVars, raw, kindExists, answerVars>>

(* queryHandler: a request for one of the queries.  The page of a resource  *)
(* asks for it by name; the lists have no parameters but the range.         *)
Request ==
    /\ pc = "idle" /\ now >= QueryFrom
    /\ \E r \in Ranges :
         \/ \E q \in {"EventHeatMap", "GetResSummaryData"}, s \in Selections(Resources) :
              BeginQuery(q, s, r)
         \/ \E s \in {t \in Selections(Resources) : t.name # All} :
              BeginQuery("GetEventData", s, r)
         \/ \E q \in {"Kinds", "Namespaces"} : BeginQuery(q, All, r)

(* GetPartitionsFromTimeRange                                               *)
InPartitionList(p) == p <= PartOf(range.end)

(* the next partition of the table, or the first of the next table          *)
Advance(next) ==
    IF InPartitionList(cur + 1)
      THEN cur' = cur + 1 /\ pc' = pc
      ELSE cur' = PartOf(range.start) /\ pc' = next

(* RangeRead of the event count table: one partition                        *)
RangeReadEventCounts ==
    /\ pc = "events"
    /\ raw' = [raw EXCEPT !.events = @ \cup
                 {c \in counts : PartOf(c.minute) = cur /\ ParamEventCountSum(c)}]
    /\ Advance("resources")
    /\ UNCHANGED <<clusterVars, storeVars, query, sel, range, kindExists, answerVars>>

(* isNamespace                                                              *)
IsNamespace(v) == v.res.kind = "Namespace"

KeepResourceSummaryKindMutant(v) == kindExists = {}

(* keepResourceSummaryKind                                                  *)
KeepResourceSummaryKind(v) == v.res.kind \notin kindExists

(* the predicates the four queries read the summaries with                  *)
KeepsSummary(v) ==
    CASE query = "EventHeatMap"      -> ParamFilterResSum(v)
      [] query = "GetResSummaryData" -> ParamFilterResSum(v) /\ IsResSummaryValInTimeRange(v)
      [] query = "Namespaces"        -> IsNamespace(v)
      [] query = "Kinds"             -> KeepResourceSummaryKind(v)

(* RangeRead of the resource summary table: one partition.  The predicate   *)
(* of Kinds notes each kind it sees; the rows themselves are not used.      *)
RangeReadSummaries ==
    /\ pc = "resources"
    /\ LET kept == {v \in ressum : v.part = cur /\ KeepsSummary(v)}
       IN  IF query = "Kinds"
             THEN kindExists' = kindExists \cup {v.res.kind : v \in kept} /\ raw' = raw
             ELSE raw' = [raw EXCEPT !.resources = @ \cup kept] /\ UNCHANGED kindExists
    /\ Advance(IF query = "EventHeatMap" THEN "activity" ELSE "render")
    /\ UNCHANGED <<clusterVars, storeVars, query, sel, range, answerVars>>

(* RangeRead of the watch activity table: one partition                     *)
RangeReadActivity ==
    /\ pc = "activity"
    /\ raw' = [raw EXCEPT !.activity = @ \cup
                 {a \in activity : PartOf(a.at) = cur /\ ParamFilterWatchActivity(a)}]
    /\ Advance("render")
    /\ UNCHANGED <<clusterVars, storeVars, query, sel, range, kindExists, answerVars>>

IsClustersScopedResource(kind) == kind \in {"Node", "Namespace"}

(* Kubernetes: the Events of what has no namespace are in the default one.  *)
EventNamespace(r) == IF r.namespace = "" THEN "default" ELSE r.namespace

(* GetEventData, WatchTableKey.String: the key prefix.  s.dotted is the set *)
(* of the names that are s.name or continue it after a dot.                 *)
HasKeyPrefix(e) ==
    /\ EventNamespace(e.obj) =
         IF IsClustersScopedResource(sel.kind) THEN "default" ELSE sel.namespace
    /\ e.obj.name \in sel.dotted

(* isEventValInTimeRange                                                    *)
IsEventValInTimeRange(e) == e.first <= range.end /\ e.last >= range.start

MatchEventInvolvedObjectMutant(e) == TRUE

(* matchEventInvolvedObject                                                 *)
MatchEventInvolvedObject(e) == e.obj.kind = sel.kind

(* RangeRead of the watch table: one partition                              *)
RangeReadWatch ==
    /\ pc = "watch"
    /\ raw' = [raw EXCEPT !.watch = @ \cup
                 {e \in watch : /\ e.part = cur /\ HasKeyPrefix(e)
                               /\ IsEventValInTimeRange(e) /\ MatchEventInvolvedObject(e)}]
    /\ Advance("render")
    /\ UNCHANGED <<clusterVars, storeVars, query, sel, range, kindExists, answerVars>>

ClearQuery ==
    /\ query' = "none" /\ sel' = All /\ range' = NoRange /\ cur' = 0
    /\ raw' = NoRaw /\ kindExists' = {}
    /\ rows' = NoRows /\ offered' = {} /\ found' = {} /\ eventsList' = {}

(* an error of the store                                                    *)
ReadFails ==
    /\ pc \in {"events", "resources", "activity", "watch"}
    /\ pc' = "failed"
    /\ ClearQuery
    /\ UNCHANGED <<clusterVars, storeVars>>

-----------------------------------------------------------------------------
(* The rows of the heat map                                                 *)

(* timeFilterResSumMap and timeFilterResSumValue: what overlaps with the    *)
(* range, clipped to it                                                     *)
TimeFilterResSum(S) ==
    {[v EXCEPT !.create = Max({@, range.start}), !.last = Min({@, range.end})] :
       v \in {w \in S : w.create <= range.end /\ w.last >= range.start}}

(* timeFilterEventsMap and timeFilterEventValue: nothing is filtered yet    *)
TimeFilterEvents(S) == S

(* timeFilterWatchActivityMap and what it calls                             *)
TimeFilterWatchActivity(S) == {a \in S : a.at >= range.start /\ a.at <= range.end}

AdjustLastSeenTimeMutant(v) ==
    IF v.last + Resync >= range.end THEN [v EXCEPT !.last = range.end] ELSE v

(* adjustLastSeenTime                                                       *)
AdjustLastSeenTime(v) ==
    IF ~v.deleted /\ v.last + Resync >= range.end THEN [v EXCEPT !.last = range.end] ELSE v

(* resSumRowToD3Gantt                                                       *)
ResSumRowToD3Gantt(v) ==
    [start |-> v.create, end |-> v.last, duration |-> v.last - v.create]

(* takeNewest, over the rows of all partitions.  Rows that end together     *)
(* are equal, for the creation time is the same in all of them.             *)
TakeNewest(S) == CHOOSE r \in S : \A s \in S : s.end <= r.end

(* resSumRowsToD3GanttMap                                                   *)
ResSumRowsToD3GanttMap(S) ==
    [r \in {v.res : v \in S} |->
       TakeNewest({ResSumRowToD3Gantt(v) : v \in {w \in S : w.res = r}})]

(* eventCountRowToD3GanttOverlay: one overlay per minute; what its text     *)
(* says of reasons and counts is left out                                   *)
EventCountToOverlay(c) ==
    [minute |-> c.minute, start |-> c.minute, end |-> c.minute + MinuteLen,
     duration |-> MinuteLen]

(* eventCountsToOverlayMap, from keys without the partition                 *)
OverlaysOf(S, key) == {EventCountToOverlay(c) : c \in {d \in S : d.key = key}}

OverlayKeyMutant(r) == r

(* mergeHeatmapWithResources: the key a row finds its overlays under        *)
OverlayKey(r) == IF r.kind = "Node" THEN [r EXCEPT !.uid = r.name] ELSE r

(* watchActivityToMap: the occurrences of all partitions together           *)
WatchActivityToMap(S, r, changed) ==
    {a.at : a \in {b \in S : b.res = r /\ b.changed = changed}}

MoveStartMutant(o, row) ==
    LET tooEarly == row.start - o.start
    IN  IF tooEarly > 0 /\ tooEarly < MaxAdjust THEN [o EXCEPT !.start = row.start] ELSE o

(* adjustOverlays, first loop: an overlay that begins before its row        *)
MoveStart(o, row) ==
    LET tooEarly == row.start - o.start
        left     == o.duration - tooEarly
    IN  IF tooEarly > 0 /\ tooEarly < MaxAdjust
          THEN IF left <= 0 THEN [o EXCEPT !.start = o.end, !.duration = 0]
                            ELSE [o EXCEPT !.start = row.start, !.duration = left]
          ELSE o

MoveEndMutant(o, row) ==
    LET over == o.end - row.end
    IN  IF over > 0 /\ over < MaxAdjust
          THEN [o EXCEPT !.end = row.end, !.duration = o.duration - over]
          ELSE o

(* adjustOverlays, second loop: an overlay that ends after its row          *)
MoveEnd(o, row) ==
    LET over == o.end - row.end
        left == o.duration - over
    IN  IF over > 0 /\ over < MaxAdjust
          THEN IF left <= 0 THEN [o EXCEPT !.end = o.start, !.duration = 0]
                            ELSE [o EXCEPT !.end = row.end, !.duration = left]
          ELSE o

(* adjustOverlays: each loop goes over the rows of gantt, in some order,    *)
(* and moves the overlays of the row in place.  Rows with the same overlay  *)
(* key, which are those of a node that was created again under its name,    *)
(* have one slice of overlays in common, so that each of them moves it.     *)
MoveStarts(o, key, gantt, order) ==
    LET moved[n \in 0 .. Len(order)] ==
          IF n = 0 THEN o
          ELSE IF OverlayKey(order[n]) = key THEN MoveStart(moved[n - 1], gantt[order[n]])
          ELSE moved[n - 1]
    IN  moved[Len(order)]

MoveEnds(o, key, gantt, order) ==
    LET moved[n \in 0 .. Len(order)] ==
          IF n = 0 THEN o
          ELSE IF OverlayKey(order[n]) = key THEN MoveEnd(moved[n - 1], gantt[order[n]])
          ELSE moved[n - 1]
    IN  moved[Len(order)]

AdjustOverlays(overlays, key, gantt, order) ==
    {MoveEnds(MoveStarts(o, key, gantt, order), key, gantt, order) : o \in overlays}

(* the rows of the resources in the range                                   *)
GanttMap ==
    ResSumRowsToD3GanttMap({AdjustLastSeenTime(v) : v \in TimeFilterResSum(raw.resources)})

(* overlays and activity added, if the rows are visited in this order       *)
HeatMapRows(gantt, order) ==
    LET events == TimeFilterEvents(raw.events)
        acts   == TimeFilterWatchActivity(raw.activity)
    IN  [r \in DOMAIN gantt |->
           [start |-> gantt[r].start, end |-> gantt[r].end, duration |-> gantt[r].duration,
            overlays   |-> AdjustOverlays(OverlaysOf(events, OverlayKey(r)), OverlayKey(r),
                                          gantt, order),
            changedAt  |-> WatchActivityToMap(acts, r, TRUE),
            noChangeAt |-> WatchActivityToMap(acts, r, FALSE)]]

(* the rest of EventHeatMap3Query; the rows come out of a map, in any order *)
RenderHeatMap ==
    /\ pc = "render" /\ query = "EventHeatMap"
    /\ LET gantt == GanttMap
       IN  \E order \in SetToSeqs(DOMAIN gantt) : rows' = HeatMapRows(gantt, order)
    /\ pc' = "done"
    /\ UNCHANGED <<clusterVars, storeVars, query, sel, range, cur, raw, kindExists,
                   offered, found, eventsList>>

(* resSumRowsToNamespaceStrings                                             *)
ResSumRowsToNamespaceStrings(S) == {v.res.name : v \in S}

(* the rest of KindQuery and of NamespaceQuery                              *)
RenderList ==
    /\ pc = "render" /\ query \in {"Kinds", "Namespaces"}
    /\ offered' = IF query = "Kinds" THEN kindExists \cup {All}
                  ELSE ResSumRowsToNamespaceStrings(raw.resources) \cup {All}
    /\ pc' = "done"
    /\ UNCHANGED <<clusterVars, storeVars, query, sel, range, cur, raw, kindExists,
                   rows, found, eventsList>>

(* the rest of GetResSummaryData: any of the rows that were read            *)
RenderSummary ==
    /\ pc = "render" /\ query = "GetResSummaryData"
    /\ IF raw.resources = {} THEN found' = {}
       ELSE \E v \in raw.resources : found' = {v}
    /\ pc' = "done"
    /\ UNCHANGED <<clusterVars, storeVars, query, sel, range, cur, raw, kindExists,
                   rows, offered, eventsList>>

(* the rest of GetEventData                                                 *)
RenderEvents ==
    /\ pc = "render" /\ query = "GetEventData"
    /\ eventsList' = raw.watch
    /\ pc' = "done"
    /\ UNCHANGED <<clusterVars, storeVars, query, sel, range, cur, raw, kindExists,
                   rows, offered, found>>

(* queryHandler writes the answer or the error                              *)
Respond ==
    /\ pc \in {"done", "failed"}
    /\ pc' = "idle"
    /\ ClearQuery
    /\ UNCHANGED <<clusterVars, storeVars>>

Next ==
    \/ Tick
    \/ \E r \in Resources : \/ \E type \in {"ADD", "UPDATE", "DELETE"} : Process(r, type)
                            \/ CountEvent(r) \/ StoreEvent(r)
    \/ \E table \in Tables : GcDrops(table)
    \/ Request
    \/ RangeReadEventCounts \/ RangeReadSummaries \/ RangeReadActivity \/ RangeReadWatch
    \/ ReadFails
    \/ RenderHeatMap \/ RenderList \/ RenderSummary \/ RenderEvents
    \/ Respond

Spec == Init /\ [][Next]_vars

-----------------------------------------------------------------------------
(* Properties                                                               *)

Shown == IF pc = "done" /\ query = "EventHeatMap" THEN DOMAIN rows ELSE {}

(* what the parameters ask for: with a namespace, what is in it and the     *)
(* namespace itself; nodes have none, and are shown if asked for            *)
Wanted(r) ==
    /\ sel.kind \in {All, r.kind}
    /\ \/ sel.namespace = All
       \/ r.kind = "Node" /\ sel.kind = "Node"
       \/ r.kind = "Namespace" /\ r.name = sel.namespace
       \/ r.kind \notin {"Node", "Namespace"} /\ r.namespace = sel.namespace
    /\ r.name \in sel.match /\ sel.name \in {All, r.name} /\ sel.uid \in {All, r.uid}

(* the summaries that no garbage collection took while the query ran and    *)
(* that fall into the range                                                 *)
Surviving ==
    {v \in ressum : 
        /\ v.part \in PartOf(range.start) .. PartOf(range.end)
        /\ v.create <= range.end /\ v.last >= range.start}

(* When the row of a resource ends, going by one summary: when it was last  *)
(* seen, but at the end of the range if it was not deleted and the next     *)
(* resync was not due before that.                                          *)
LastsTo(v) ==
    IF ~v.deleted /\ v.last + Resync >= range.end THEN range.end
    ELSE Min({v.last, range.end})

(* EventHeatMap3Query: a resource that was asked for and was seen in the    *)
(* range has a row, whatever partition its summaries are in and whatever is *)
(* dropped meanwhile; one last seen before the range has none, even if it   *)
(* lives on.  No other resource has a row.  A row begins when the resource  *)
(* was created, or with the range.  It ends when one of the summaries that  *)
(* were read says, and no summary that is still there says later.  (The     *)
(* latest end wins, not the newest summary: the row of a resource that was  *)
(* deleted lasts beyond the deletion if the summary of an earlier partition *)
(* reaches the end of the range, as TakesTheNewest shows.)                  *)
RowsShowLifetimes ==
    pc = "done" /\ query = "EventHeatMap" =>
        /\ \A v \in Surviving : Wanted(v.res) =>
             v.res \in DOMAIN rows /\ rows[v.res].end >= LastsTo(v)
        /\ \A r \in DOMAIN rows :
             /\ Wanted(r)
             /\ rows[r].start = Max({created[r], range.start})
             /\ \E v \in raw.resources :
                  v.res = r /\ v.last >= range.start /\ rows[r].end = LastsTo(v)

(* mergeHeatmapWithResources, mergeHeatmapWithWatchActivity: although the   *)
(* three tables are read with different filters, under different keys and   *)
(* with a garbage collector at work, a row has exactly the activity and the *)
(* event minutes of its own resource (a node's by its name), of all         *)
(* partitions; only what was dropped may be missing.                        *)
RowsJoinTheirOwn ==
    \A r \in Shown :
        LET acts(S)    == {a.at : a \in {b \in S : 
                             b.res = r /\ b.at \in range.start .. range.end}}
            minutes(S) == {c.minute : c \in {d \in S : 
                             /\ d.key = InvolvedObject(r)
                             /\ PartOf(d.minute) \in PartOf(range.start) .. PartOf(range.end)}}
            has   == rows[r].changedAt \cup rows[r].noChangeAt
            shows == {o.minute : o \in rows[r].overlays}
        IN  /\ acts(activity) \subseteq has /\ has \subseteq acts(raw.activity)
            /\ minutes(counts) \subseteq shows /\ shows \subseteq minutes(raw.events)

(* the other rows the overlays of r are in                                  *)
Alone(r) == \A s \in DOMAIN rows : 
    OverlayKey(s) = OverlayKey(r) => s = r

(* adjustOverlays, outputRowValidation: every overlay comes out with a      *)
(* start, an end and a duration that agree; one whose minute meets its row  *)
(* lies within the row and covers all that they have in common.  (Claimed   *)
(* of rows that do not share their overlays with another one.)              *)
OverlaysFitTheirRows ==
    \A r \in Shown : \A o \in rows[r].overlays :
        /\ o.duration >= 0 /\ o.start + o.duration = o.end
        /\ Alone(r) /\ o.minute <= rows[r].end /\ o.minute + MinuteLen >= rows[r].start =>
             /\ o.start = Max({o.minute, rows[r].start})
             /\ o.end = Min({o.minute + MinuteLen, rows[r].end})

(* KindQuery, NamespaceQuery: the drop-down lists offer the kind of every   *)
(* resource, and every namespace, that lived in the range, although the     *)
(* predicate of Kinds lets each kind pass only once.  GetResSummaryData:    *)
(* the summary shown is of a resource that was asked for, seen within the   *)
(* range; and there is one if one survives.                                 *)
FindsWhatIsThere ==
    LET seen(v) == v.first <= range.end /\ v.last >= range.start
    IN  pc = "done" =>
          /\ \A v \in Surviving :
               /\ query = "Kinds" => v.res.kind \in offered
               /\ query = "Namespaces" /\ IsNamespace(v) => v.res.name \in offered
               /\ query = "GetResSummaryData" /\ Wanted(v.res) /\ seen(v) => found # {}
          /\ \A v \in found : Wanted(v.res) /\ seen(v)

(* another resource of this kind, next to it, continues its name after a dot *)
NameIsContinued ==
    \E r \in Resources :
        /\ r.kind = sel.kind /\ r.namespace \in {"", sel.namespace}
        /\ r.name \in sel.dotted \ {sel.name}

(* GetEventData: the page of a resource lists all Events of that kind,      *)
(* namespace and name (of any incarnation) that overlap with the range and  *)
(* were stored in one of its partitions, unless they are dropped meanwhile, *)
(* and none of another resource that shares its name, or the beginning of   *)
(* it.  Not claimed is the latter if NameIsContinued: the key prefix of the *)
(* Events of "a" is "a.", that of the Events of "a.b" as well, and they are *)
(* listed on the page of "a", although the comment there says that the dot  *)
(* is to "ensure we only get events for this resource".  (Of the kinds      *)
(* without a namespace the code knows Node and Namespace; those of others   *)
(* it looks for in the wrong one.)                                          *)
EventsAreOfTheResource ==
    pc = "done" /\ query = "GetEventData" =>
        LET asked(e) ==
                /\ e.obj.kind = sel.kind /\ e.obj.name = sel.name
                /\ e.obj.namespace \in {"", sel.namespace}
                /\ e.first <= range.end /\ e.last >= range.start
                /\ e.part \in PartOf(range.start) .. PartOf(range.end)
        IN  /\ ~NameIsContinued => \A e \in eventsList : asked(e)
            /\ \A e \in watch :
                 /\ asked(e)
                 /\ e.obj.namespace = "" => IsClustersScopedResource(e.obj.kind)
                 => e \in eventsList

(* resSumRowsToD3GanttMap: "We have more than one entry for this resource   *)
(* summary row.  Take the newest".  So the row of a resource whose newest   *)
(* summary says that it was deleted does not last beyond the deletion.      *)
TakesTheNewest ==
    \A r \in Shown : \A v \in raw.resources :
        LET newest == \A w \in raw.resources : w.res = r => w.part <= v.part
        IN  v.res = r /\ newest /\ v.deleted => rows[r].end <= v.last

-----------------------------------------------------------------------------
(* The inductive strengthening used by HeatMap_proofs.                      *)

PartitionList == PartOf(range.start) .. PartOf(range.end)

(* A summary has the creation time of its resource, and times in order.     *)
StoreInv ==
    /\ \A r \in Resources : created[r] <= now
    /\ \A v \in ressum \cup raw.resources :
         /\ v.create = created[v.res]
         /\ v.create <= v.first /\ v.first <= v.last /\ v.last <= now

(* Where a request is, and what it has so far: nothing before it begins.    *)
StageInv ==
    /\ pc \in {"idle", "failed"} => query = "none" /\ raw = NoRaw
    /\ pc = "events" => query = "EventHeatMap"
    /\ pc = "watch" => query = "GetEventData"
    /\ pc = "resources" =>
         query \in {"EventHeatMap", "GetResSummaryData", "Namespaces", "Kinds"}
    /\ pc = "activity" => query = "EventHeatMap"
    /\ pc \notin {"idle", "failed"} =>
         /\ range \in Ranges /\ range.end <= now
         /\ cur \in PartitionList
         /\ query \in {"EventHeatMap", "GetResSummaryData", "GetEventData"} =>
              sel \in Selections(Resources)
    /\ DOMAIN raw = DOMAIN NoRaw

(* the partitions of a table that a request has read                        *)
Behind(table, after) ==
    CASE pc = table    -> PartOf(range.start) .. cur - 1
      [] pc \in after -> PartitionList
      [] OTHER         -> {}

(* Of what was there when a request came by, all that it selects and that   *)
(* is still there has been read.                                            *)
CountsRead ==
    query = "EventHeatMap" =>
      \A c \in counts :
        /\ PartOf(c.minute) \in Behind("events", {"resources", "activity", "render", "done"})
        /\ ParamEventCountSum(c)
        => c \in raw.events

SummariesRead ==
    query \in {"EventHeatMap", "GetResSummaryData", "Namespaces", "Kinds"} =>
      \A v \in ressum :
        v.part \in Behind("resources", {"activity", "render", "done"}) =>
          IF query = "Kinds" THEN v.res.kind \in kindExists
                             ELSE KeepsSummary(v) => v \in raw.resources

ActivityRead ==
    query = "EventHeatMap" =>
      \A a \in activity :
        PartOf(a.at) \in Behind("activity", {"render", "done"}) /\ ParamFilterWatchActivity(a)
        => a \in raw.activity

EventsRead ==
    query = "GetEventData" =>
      \A e \in watch :
        /\ e.part \in Behind("watch", {"render", "done"})
        /\ HasKeyPrefix(e) /\ IsEventValInTimeRange(e) /\ MatchEventInvolvedObject(e)
        => e \in raw.watch

ReadInv == CountsRead /\ SummariesRead /\ ActivityRead /\ EventsRead

(* And nothing else has been read.                                          *)
SelectInv ==
    /\ query = "EventHeatMap" =>
         \A c \in raw.events : PartOf(c.minute) \in PartitionList
    /\ query \in {"EventHeatMap", "GetResSummaryData"} =>
         \A v \in raw.resources : KeepsSummary(v)
    /\ query = "GetEventData" =>
         \A e \in raw.watch :
           /\ e.part \in PartitionList
           /\ HasKeyPrefix(e) /\ IsEventValInTimeRange(e) /\ MatchEventInvolvedObject(e)

(* The answer is made of what was read, and of nothing that came later.     *)
AnswerInv ==
    /\ IF pc = "done" /\ query = "EventHeatMap"
         THEN \E order \in SetToSeqs(DOMAIN GanttMap) : rows = HeatMapRows(GanttMap, order)
         ELSE rows = NoRows
    /\ pc = "done" /\ query = "Kinds" => kindExists \subseteq offered
    /\ pc = "done" /\ query = "Namespaces" => {v.res.name : v \in raw.resources} \subseteq offered
    /\ found # {} => pc = "done" /\ query = "GetResSummaryData" /\ found \subseteq raw.resources
    /\ pc = "done" /\ query = "GetResSummaryData" /\ raw.resources # {} => found # {}
    /\ eventsList = IF pc = "done" /\ query = "GetEventData" THEN raw.watch ELSE {}

IndInv == TypeOK /\ StoreInv /\ StageInv /\ ReadInv /\ SelectInv /\ AnswerInv
=============================================================================
