# A TLA+ verification project for sloop

Sloop (`src/`) watches a Kubernetes cluster, keeps a history of its resources
and events in a Badger store, and serves it to a web UI. This directory models
its core in TLA+, checks the models with TLC on small instances, and proves the
central safety properties with TLAPS for every value of the constants.
`PROJECT.json` lists the runs, the mutants, the theorems, the hazards and, for
every definition that models code, the lines it models.

## Inventory

All paths are below `src/pkg/sloop/`.

| component | state | operations | interacts with |
|---|---|---|---|
| kube watcher, `ingress/kubewatcher.go` | mutex `protection`, flag `stopped`, map `crdInformers`, stop channels, ticker | constructor, CRD refresh, three informer callbacks, exclusion rules, `Stop` | informers call back on their own goroutines; writes the channel that `RealMain` owns |
| playback and recorder, `ingress/fileplayback.go`, `filerecorder.go` | recorded slice, WaitGroup | `PlayFile`; `Start`, `listen`, `Close` | write to, and read from, the same channel as the processor |
| processor, `processing/` | none of its own (the store) | one goroutine: four transactions per record | reads the channel, writes the four tables |
| typed tables, `store/typed/` | four tables keyed by `/table/partition/...` | `Set`, `Get`, min/max key and partition, `GetPreviousKey`, `RangeRead` | processor, GC and queries |
| partitions, `store/untyped/partition.go` | - | partition id from a time and back | everything that builds a key |
| store manager, `storemanager/` | `done`, sleeper, WaitGroup, cached stats | two background loops, `Shutdown`, `doCleanup` | deletes whole partitions while the processor writes |
| queries, `queries/` | - | time range and filters; heat map, drop-down lists, payloads, Events, summary | read-only transactions on the tables |
| web server, `webserver/` | - | handlers, `Run` with graceful shutdown | calls the queries; its return starts the shutdown |
| main, `server/server.go` | the channel | start-up order, shutdown order | everything |

A record takes this way: an informer callback of the watcher puts it on
`kubeWatchChan`; the processor's goroutine takes it off and updates the event
counts, the watch activity, the watch table and the resource summary, in this
order and each in a transaction of its own; queries read these tables; the store manager deletes
them partition by partition, the oldest first.

What is hard to get right, and the properties that say it is:

- **stopping the watcher.** Callbacks run on the informers' goroutines and may
  be blocked in a send on a full channel, lock in hand; the refresh of the CRD
  informers moves them between maps outside a single critical section. No send
  on the closed channel, no channel closed twice, no informer lost, doubled or
  leaked, and `Stop` returns.
- **shutting down.** Goroutines are told to stop in a fixed order, and one of
  them counts itself in only after it was started. The store is closed when
  nobody uses it, and every accepted record has been processed.
- **garbage collection** decides from numbers that were read in several
  transactions, while the processor writes; DropPrefix fails now and then.
- **event counts.** Kubernetes redelivers an Event with a growing count; the
  difference to the last copy is spread over the minutes it covers. Counts are
  neither doubled nor lost, and partitions that are going away are left alone.
- **resource history.** Resources are redelivered, reappear under their name
  and are reported as new after each restart.
- **queries** read several tables, partition by partition, in the middle of all
  this, and join what they find. They must show what was in force, all of what
  was asked for, and nothing of another resource that shares a name.

## Modules

| module | models | how state and actions correspond |
|---|---|---|
| `IngressChannel` | what the processor may rely on | the abstract specification of the channel: a bounded buffer that accepts records while open, is closed once, and loses nothing |
| `KubeWatcher` | `kubewatcher.go` | the mutex, the flags, `crdInformers` and the local maps of `startCustomInformers` (`existing`) and `Stop` (`pulled`); one action per stretch of code between two lock operations or channel operations; each informer's goroutine has a `run` and a `handler` state |
| `KubeWatcher_proofs` | - | its proofs |
| `StoreManager` | the two loops, `SleepWithCancel`, `Shutdown` | program counters of both goroutines and of `Shutdown`, the WaitGroup as a counter, the cancel channel as token and closed flag |
| `Server` | `RealMain`, processor loop, recorder, playback, `Run` of the web server | composes the watcher's promise (writes until stopped), the processor, the recorder and an INSTANCE of `StoreManager`; the configuration is chosen in `Init` |
| `Server_proofs` | - | its proofs, and those of the `StoreManager` it instantiates |
| `StoreGC`, `MCStoreGC` | `doCleanup` and its helpers, `DeleteKeysWithPrefix` | the store as numbers of keys per table and partition; one action per transaction or DropPrefix pair; a count is the size of a set of keys, and a loop that adds up until it has enough is the least index at which there is enough |
| `StoreGC_proofs` | - | its proofs |
| `EventCount` | `eventcount.go` | one Event at the API server, in the informer's cache, in the processor's hand and in the watch table; its counts minute by minute |
| `EventCount_proofs` | - | its proofs |
| `ResourceHistory` | `watch.go`, `watchactivity.go`, `resourcesummary.go`, `nodededupe.go` | one resource with versions and incarnations, its rows in three tables per partition; `isNode` is chosen in `Init` |
| `ResourceHistory_proofs` | - | its proofs |
| `PayloadQuery`, `MCPayloadQuery` | `RunQuery`, `timerange.go`, `respayloadquery.go`, reads of `tabletemplate.go` | a request's program counter and local variables; the snapshot of its transaction, and the table as the processor and the collector change it; the sorted list puts each row at the number of rows up to it |
| `PayloadQuery_proofs` | - | its proofs |
| `HeatMap`, `MCHeatMap` | `queryd3heatmap.go`, `queryfilter.go`, `ressumquery.go`, `eventquery.go`, `resourcefilter.go`, the generated `RangeRead`s | the rows of the four tables that matter here, a request's program counter, `cur` for the partition `RangeRead` is in, `raw` for the maps it fills; one action per partition that is read, and one for the rest of each query |
| `HeatMap_proofs` | - | its proofs |
| `NumberLemmas` | - | lemmas the proofs share: least and greatest elements, integer division, sets of equal size, lists ordered by a key, and what a loop over a list leaves behind |

Data is abstracted to what the properties tell apart: a record is its identity,
a payload a model value, a version a number, a time a small number of units
(`PartLen` of them make a partition). What decides is kept: early returns,
error paths, which transaction reads what, and the order of the calls.

Three things outside the repository are modelled from how the code uses them:
the Kubernetes API server (redelivery, expiry, deletion), the clock, and
Badger (serial transactions; a read transaction keeps its snapshot against
writes, but not against DropPrefix).

## Runs

Runs that must pass:

| run | shows |
|---|---|
| `watcher_safety` | For two CRDs that come and go, four informers and two refreshes, every interleaving of refresh, callbacks, `Stop` and the closing of the channel: `NoSendOnClosedChannel`, `ClosedAtMostOnce`, `OneLiveInformerPerCrd`, `NoInformerLeak`. |
| `watcher_live` | `StopCompletes` and `InformersExit` with a channel of capacity 1 that fills up, and that the watcher implements `IngressChannel`. |
| `store_manager` | `NoDbUseAfterShutdown` and `ShutdownCompletes`, in whatever state the loops are, also not yet scheduled. |
| `server` | Start-up, error returns and shutdown of all parts: `NoStoreUseAfterClose`, `AcceptedIsProcessed` (without a recorder, which takes records away from the processor), `ShutdownTerminates`. |
| `gc` | Size and age rules and both ways to delete: `SelectsOldestAndEnough` (up to the one key that rounding in floating point may add or take), `NoIndexPanic`, `KeepsRecentData`, `DropPassEnds`, `ExpiredDataGoes`. |
| `event_count` | `CountsOncePerPartition`, `TotalsMatch`, `NeverFillsThePast` and `AvailableIsKept` (cutting counts to the partitions there are takes nothing from those) under redelivery, failing transactions and garbage collection. |
| `resource_history` | `DeletedAtEndIsLast`, `ChangedOncePerVersion`, `LastStateIsKept` (of a node its content, not the type of its last record), for nodes and other resources. |
| `payload_query` | `ShowsPayloadInForce`, `AnswerIsAHistory`, `RangeIsSane`, with writes, late writes and dropped partitions at every point of the query. |
| `heat_map` | Five queries over four tables while partitions are dropped table by table: `RowsShowLifetimes`, `RowsJoinTheirOwn`, `OverlaysFitTheirRows`, `FindsWhatIsThere`, `EventsAreOfTheResource` (no Events of others unless a name continues this one after a dot). |

Runs that exhibit a disagreement between the code and what the repository says
of it (quoted under `findings` in `PROJECT.json`):

| run | shows |
|---|---|
| `gc_delete_keys` | `DeleteKeysWithPrefix` rewinds to the first key of the whole store instead of seeking its prefix; if that key has another prefix nothing is deleted or counted and the loop never ends. |
| `event_count_new_hour` | The first Events of a new partition are not counted, because the partition only comes into being with the watch table transaction that follows. |
| `heat_map_newest` | A summary of an earlier partition, its end moved to the end of the range, wins over the newest one, which says that the resource was deleted; the row then lasts beyond the deletion. |

Every property of a passing run has a mutant: a definition is replaced by a
plausibly wrong version of it (kept next to it, named `...Mutant`) and TLC then
finds the property violated.

### Bounds

Bounds are guards on counters (`Max...`) and small sets in the `.cfg` files.

- Watcher: two CRDs and four informers let a CRD be dropped, come back and be
  started anew while the other stays; two ticks of the refresh let one follow
  another with `Stop` in between; capacity 1 and one record per source make
  the channel full. The liveness run has one CRD and no symmetry.
- Server: one watched and one played record with capacity 1 make senders wait;
  `MaxRewrites` is how often a value log is rewritten in a row.
- GC: three partitions with a look-back of two, so that one expires while two
  stay; two tables, one that is written for past hours and has the smallest
  keys; disk sizes below and above the threshold; batches of one key. A table
  without late writes is written for the current and for the previous hour,
  the one a record was made in.
- Event counts: two partitions of two minutes of two units each, so that
  rounding to a minute and truncating to a partition both happen; three
  occurrences, two records.
- Resource history: two incarnations and two versions in total, and two
  partitions; a resource that is created again is not modified besides.
- Payload query: three partitions of two units, so that the row before the range may be in
  the same partition, the one before, or beyond an empty one; a neighbour on
  either side in key order; ranges that are too long, too short, negative or in
  the future; up to three rows, written up to a unit late.
- Heat map: three partitions of two units and a minute of two; a resync of two
  units; overlays are moved by up to two units (`MaxAdjust`, exclusive; the
  code's limit is far more than a minute, and so is it here). Up to three
  stored records and one Event or minute with Events. A population is chosen in
  `Init`: a node that is created again under its name; a namespace and a
  pod with the same name; or two pods, `a` and `a.b`, whose Events share a key
  prefix. A query does not look at the clock and its
  transaction does not see later writes, so that queries only begin at the
  last time (`QueryFrom`) and nothing is written while one runs; partitions are
  dropped at any time. A resource has at most one record per unit of time.
  One range ends at the last time, one a whole partition earlier; the range of
  `heat_map_newest` ends in between, where a deletion and the move of an end
  meet.

Deadlock is not checked where the system may stop: after shutdown, or when a
bound is used up. It is checked in `payload_query`.

### Fairness

Safety runs use `Spec`. `FairSpec` adds what Go and the environment guarantee:
weak fairness for goroutines that can run; strong fairness where a goroutine
waits for a mutex, since `sync.Mutex` hands over to a starving waiter; the
processor keeps receiving. In `StoreGC`, `gcLoop` comes around again and again
and starts a pass that is due, and a DropPrefix that is retried for ever on the
same prefix succeeds sometime. Nothing obliges Kubernetes to report anything,
the ticker to tick, a sleep to run out or a signal to arrive.
`RunValueLogGCFails` is strongly fair because Badger returns an error when
there is nothing left to rewrite.

## Proofs

`KubeWatcher_proofs` proves for any number of CRDs, informers and records and
any capacity:

- `TypeCorrect`, `NeverSendsOnClosedChannel`, `NeverClosesTwice`,
  `OneInformerPerCrd`, `NeverLeaksAnInformer`;
- `WatcherImplementsIngressChannel`: every step of the watcher is a step of
  the abstract channel or changes nothing of it.

None of these is inductive. The invariant `IndInv` (at the end of
`KubeWatcher`) adds three ideas. `LockInv`: exactly the callback that is sending
holds the lock, and while anyone does the flag is not set; so when the flag is
set no send is in progress, and none begins. `StopInv`: how far `Stop` has come
determines the flag, the channels and that `crdInformers` is empty for good.
`OwnershipInv`: each live informer is in exactly one of the maps
`crdInformers`, `existing` and `pulled`, so that whoever empties a map is the
only one to close what was in it. `RefreshInv` says when `existing` is in use.

`Server_proofs` first proves, of `StoreManager` alone, `StoreManagerTypes` and
`StoreManagerIsQuiet` (`NoDbUseAfterShutdown`) from `WaitGroupInv`: the
WaitGroup counts the loops that are between `Add` and `Done`, and `done` is set
before `Wait`. A loop that was forked and counts itself only after `Wait` has
returned is not covered by the count, but finds `done` set before it
touches the database. Then, of the server, for any sets of records that are
watched and played back, and any capacity of the channel's buffer:

- `ServerImplementsStoreManager`: seen through the store manager's variables,
  every step of the server is a step of `StoreManager` or none, so that what is
  proved of the store manager holds of the one the server runs;
- `ServerTypes`, `StoreIsClosedIdle` (`NoStoreUseAfterClose`) and
  `ChannelIsDrained` (`AcceptedIsProcessed`);
- `ServerImplementsIngressChannel`: watcher, playback, processor and recorder
  together use the channel as `IngressChannel` says. The abstract `open` is
  `Accepting`: the watcher is not stopped; or, without a watcher, `RealMain` has
  not come to the point where the playback has ended and the web server runs.
  This is the same abstract channel that the watcher implements on its own in
  `WatcherImplementsIngressChannel`.

`OrderInv` says what the position of `RealMain` on the orderly path tells of
everyone else: after `close` nobody writes, after the wait the processor is
done, and a failure is final. `DrainInv`: the processor leaves only a closed and
empty channel. `ManagerInv` carries the store manager's own invariant and says
that it is down, or never ran, before the store is closed. `PlacesInv`: an
accepted record is in exactly one of the channel, the processor's hand, the
tables and the recording. `RecorderInv`: nothing is recorded unless a recorder was
configured and started.

`StoreGC_proofs`, for any tables, partitions, numbers of keys, sizes and limits:

- `StoreGCTypes`, `SelectionIsRight` (`SelectsOldestAndEnough`), `NeverPanics`
  (`NoIndexPanic`);
- `RecentDataIsKept` (`KeepsRecentData`), an action property.

`InfoInv` is about the gap between the two transactions: the newest partition
that the first one read, and the reason for the pass, are still there in the
second. `OrderInv` is about the deletions: they go in ascending order; without
pressure on the disk only partitions too old for the newest are deleted, and
that one stays while older ones remain, so that each is still too old when its
turn comes. That the chosen partitions are enough and none too many rests on
`SortedFacts` (the sorted list has all partitions, in order), `NeedFacts` (the
share of the keys is rounded up, and off by one key at most) and `SizeLoopFacts` (the loop stops at the
least index that is enough).

`EventCount_proofs`, for any length of a minute, any whole number of minutes in a
partition, and any number of occurrences:

- `EventCountTypes`, `CountsOnce` (`CountsOncePerPartition`),
  `NewEventsAreKept` (`AvailableIsKept`);
- `PastStaysAsItIs` (`NeverFillsThePast`) and `StoredTotalsMatch`
  (`TotalsMatch`), action properties.

The number counted in a partition is bounded by the occurrences only because
later copies of the Event account for what earlier ones did. `CopyInv`: copies
are of the past, and the informer's cache is the record in hand while there is
one. `BudgetInv`: for each copy that may still be processed, what it would add
on top of what was counted (`MayCountOn`: the same Event grown, or a later
one) fits into the occurrences.

The two properties about totals need no stronger invariant, but what
`distributeValue` and `spreadOutEvents` compute for every count and span. The
total of a map is the number of its `Units`, pairs of a key and a number up to
its count, so that statements about sums are statements about sets of equal
size: `TotalOfSum` (a sum, key by key), `TotalOfExtension` (keys without a
count) and `TotalOfSpread`, where the x-th of the counts dealt out goes to
bucket `x % n` as its `(x \div n)`-th, one to one (`DealtOut`).

`ResourceHistory_proofs`, for nodes and other resources, any number of versions,
incarnations and partitions:

- `HistoryTypes`, `DeletionIsTheEnd` (`DeletedAtEndIsLast`),
  `ChangesAreCountedOnce` (`ChangedOncePerVersion`), `LastStateIsInTheStore`
  (`LastStateIsKept`).

`ClusterInv` and `VersionInv`: uids and versions only grow and are processed in
that order. `SeenInv`: no summary is ahead of the record in hand. `DeletionInv`: a
uid whose deletion was reported does not come back, and every summary that says
so ends at that time. `StoredInv`: the last row of a partition has its newest
version, except between the first two transactions of a record, so that a
redelivered version is not seen as a change. `LastStateIsKept` is inductive by
itself.

`PayloadQuery_proofs`, for any names, rows, lengths of partitions and limits of
the range:

- `PayloadQueryTypes`, `PayloadInForceIsShown` (`ShowsPayloadInForce`),
  `AnswersAreHistories` (`AnswerIsAHistory`);
- `RangesAreSane` (`RangeIsSane`), an action property.

`StoreInv`: rows have unique keys, none is from the future. `ReadInv`: what is
still visible of the partitions that were read is in the result. `PrevInv`: the
key found before the range is the last one before it; a partition dropped
between finding and reading it was the oldest, so that it takes every older row
with it, and nothing that is still stored is missed. `ReplyInv` relates the answer to the result;
`DedupFacts` says that removing repeated payloads leaves, for every row,
its payload in the last entry at or before it.

`HeatMap_proofs`, for any populations of resources, ranges and selections, and any
lengths of minutes and partitions:

- `HeatMapTypes`, `HeatMapShowsLifetimes` (`RowsShowLifetimes`),
  `HeatMapJoinsTheirOwn` (`RowsJoinTheirOwn`), `HeatMapOverlaysFit`
  (`OverlaysFitTheirRows`);
- `ListsFindWhatIsThere` (`FindsWhatIsThere`), `EventDataIsOfTheResource`
  (`EventsAreOfTheResource`).

All of them are about the finished answer, which says nothing of how it came
about. `ReadInv` follows the request through the tables: of the partitions
behind its cursor (`Behind`), everything that it selects and that the collector
has left has been read; `SelectInv`: and nothing else. `StageInv` ties the
query, its range and its cursor together, `StoreInv` the times of a summary to
its resource, and `AnswerInv` keeps the answer what it was made of while records
and the collector go on. The lemmas are about the pure part: `TakeNewest` of
several summaries is one of them, with the greatest end, so that a row ends
where some summary says and none that was read says later (`GanttFacts`); the two passes of `adjustOverlays` are
loops over the rows in any order, of which `LoopActsOnce` (in `NumberLemmas`)
says that an overlay that belongs to one row only is moved by this row and left
alone by the rest.

The assumptions on the constants are the `ASSUME`s of the modules; TLC evaluates
them in the runs. They are what the code or its use guarantees: lengths are
positive, a partition is a whole number of minutes, a record that is played back
is not one that is watched, `MinLookback <= MaxLookBack`, a query range is not
empty, nodes and namespaces have no namespace, a name is among those with its
own prefix, the limit of `adjustOverlays`
is more than a minute. `StoreGC` assumes
nothing of the look-back but that it is positive; where more is needed the
property says so. The theorems are about `Spec`; the runs under `FairSpec`, which is
`Spec` and fairness, check behaviours the theorems cover.

Every safety property that a passing run checks is proved as well. Checked by TLC
only are the liveness properties (`StopCompletes`, `InformersExit`,
`ShutdownCompletes`, `ShutdownTerminates`, `DropPassEnds`, `ExpiredDataGoes`):
the prover does not handle fairness.

## Met while modelling

Besides the three findings, the models brought up the following. They do not
have a run; the properties above are stated so that they claim nothing about
them, and the hazards in `PROJECT.json` refer to them.

- `server/server.go:177` says the store will not change after the processor has
  finished; the garbage collector may still delete until
  `storemgr.Shutdown()` at line 189. It does end before the store is closed.
- `server/server.go:117`, `webserver/webserver.go:258`: an error return after the
  processor was started, or a request that outlasts the grace period, skips
  the shutdown and closes the store under running goroutines. The model has
  these paths; `NoStoreUseAfterClose` is about the orderly one.
- `storemanager/storemanager.go:289`: with a `MaxLookback` below the length of
  a partition all partitions expire and the list is indexed behind its end;
  `config.go:220` only rejects values of zero and less.
- `storemanager/storemanager.go:316-319`: the error of the first DropPrefix is
  overwritten by the result of the second.
- `processing/eventcount.go:157-163`: rounding to minutes may move a count to
  the first minute of the partition after the newest, contrary to the comment
  in line 54.
- `processing/resourcesummary.go:66-67`: the ADD that follows a restart moves
  `firstSeen` forward, which `schema.proto:30` calls "Scoped to this partition".
- `processing/watch.go:94-104`: a node's DELETE has the last known payload and
  is dropped as a minor update, for the watch type is not compared, although
  the flag `keep-minor-node-updates` (`config.go:103`) is about a change that
  "is only condition timestamps". So the watch table does not show that a node
  is gone; `LastStateIsKept` claims the type of the last record only where
  minor updates are kept. The summary does show it (`DeletedAtEndIsLast`).
- `processing/watchactivity.go:59,65`: the previous record is the last one
  *stored* in the *same* partition, so a change that comes first in a partition
  is recorded as no change, and a minor node update as a change again on each
  resync (`schema.proto:53,55`).
- `server/server.go:123`: recorder and processor receive from the same channel,
  which line 54 calls the one for updates from ingress to store. Each record goes
  to one of them: with `-record-file` the store misses what the recorder took,
  and the file that `config.go:99` calls a record of the watch data has only
  that. `AcceptedIsProcessed` is therefore claimed without a recorder only.
- `webserver/webserver.go:247-250`: if the listener fails, `glog.Fatal` ends the
  process at once, without any of the shutdown or the deferred `CloseStore`
  (`ListenFails`).
- `ingress/kubewatcher.go:421-423`: a second call of `Stop` returns with the
  mutex held. `RealMain` makes only one.
- `storemanager/storemanager.go:389,403`: the share of the keys to delete is
  computed in floating point before it is rounded up; 55 of 100 keys become 56
  (`0.55 * 100 = 55.00000000000001`).
- `processing/eventcount.go:292`: an Event with equal first and last timestamps
  is counted zero times; `eventcount_test.go:476-483` keeps the whole count of an Event that
  lies within the limits.
- `queries/queryd3heatmap.go:145-147`: `timeFilterResSumMap` removes a resource
  last seen just before the range, although `adjustLastSeenTime`, which comes
  next, would have let it last into the range.
- `queries/queryd3heatmap.go:376`: overlays are not "always contained" in their
  row. One that lies wholly outside shrinks to its nearer end, and one that is
  further away than a limit stays as it is; the limit is named `Ms` and
  compared with seconds (lines 387 and 402).
- `queries/queryd3heatmap.go:318`: two nodes with one name have one slice of
  overlays in common, and it is moved in place for either, in the order of a map.
- `queries/ressumquery.go:47`: the summary shown is that of an arbitrary
  partition of the range.
- `queries/eventquery.go:45-47`: the dot at the end of the prefix is "to ensure we
  only get events for this resource", but names may contain dots: the page of a
  pod `a` also lists the Events of a pod `a.b`. `EventsAreOfTheResource` claims
  that no others are listed only if no resource of the kind next to it continues
  the name. Events that were stored after the last
  partition of the range are not found although they may overlap with it.
- `queries/eventquery.go:49-51`, `kubeextractor/events.go:130`: Events of kinds without a
  namespace other than Node and Namespace (a PersistentVolume, say) are kept in
  the default namespace but looked for in the one of the request. The proof of
  `EventsAreOfTheResource` failed at this point; TLC's populations have no such kind.
- `webserver/debug.go`: the limit on the number of keys ends the loop over one
  table only, and the handler goes on after an invalid regular expression;
  `GetAllKeysForGivenPartitions` counts keys of earlier partitions again.

## Not modelled

- The relationships in resource summaries; JSON extraction in `kubeextractor/`.
- `store/untyped/badgerwrap/`: forwarding to Badger and a mock for tests.
- `server/internal/config`, `ingress/kubeclient.go`, `server/server_metrics`:
  flags, client construction and counters without behaviour of their own.
- `webserver/` handlers, debug pages, templates and `bindata.go`: rendering.
- `store/typed/schema.pb.go`: generated. The `*tablegen.go` files are generated
  from `tabletemplate.go`; what queries, processor and collector use of them is
  modelled, `GetAllKeysForGivenPartitions` (debug pages) is not.
- In the heat map: the text of overlays and rows, colours, JSON. Whether an
  occurrence of watch activity is a change, which only sorts it into one of two
  lists, is reduced to whether it is the first of its partition.
- Go's panic on a WaitGroup that is used again before an earlier `Wait` has
  returned: `Enter` of `StoreManager` counts a late goroutine in and goes on.
- A DropPrefix between the reads and the write of the event count transaction
  (`eventcount.go:55` and `:83`): `UpdateEventCountTable` is one step, so
  `NeverFillsThePast` covers drops before and after it, not within.
- The last bit of the float64 quotient at `eventcount.go:292-293`, which
  `AdjustForAvailablePartitions` takes as an exact division; a count may come
  out one lower than that, which no property depends on.
- In the heat map's store, resources that are older than the first record of
  them, and the ADDs after a restart: `Process` adds a resource when it is
  created. `ResourceHistory` has restarts.
- Several Kubernetes contexts in one store directory: the collector measures
  the directory and deletes from its own context's store. The size it measures is
  arbitrary in `StoreGC`, so its decisions are covered, whose data it counts is
  not.

## Plan

Done, in this order: watcher and channel with proofs; store manager with
proofs; server; garbage collection; event counts; resource history; time ranges
and the payload query; the heat map, list, summary and Event queries; proofs for
the server, garbage collection, event counts, resource history and the payload
query; proofs for the heat map and the other queries, for totals of event
counts, and that the server implements `IngressChannel`.

Next:

1. The stats cache that both loops of the store manager share, and several
   contexts on one disk.
2. Relationships in resource summaries, which `GetResSummaryData` only copies.
