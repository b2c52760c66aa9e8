----------------------------- MODULE KubeWatcher -----------------------------
(***************************************************************************)
(* pkg/sloop/ingress/kubewatcher.go: the informers, the mutex `protection`, *)
(* the CRD refresh goroutine and Stop(), writing into one bounded channel.  *)
(*                                                                         *)
(* Threads: one handler goroutine per informer (well-known or CRD), main    *)
(* (NewKubeWatcherSource, then Stop) and the CRD refresh goroutine.  A      *)
(* critical section that cannot block is one atomic action guarded by       *)
(* lock = None; only the channel send blocks while it holds the lock.       *)
(***************************************************************************)
EXTENDS Integers, Sequences, FiniteSets

CONSTANTS
    WellKnown,    \* informers of startWellKnownInformers
    Crds,         \* crdGroupVersionResourceKind values the API server can list
    Informers,    \* crdInformerInfo objects: one is allocated per started informer
    None,         \* nil pointer, or: nobody holds the mutex
    IncludeCrds,  \* conf.WatchCrds
    ChanCap,      \* capacity of the channel (1000 in server.go)
    MaxRecords,   \* bound: callbacks per informer
    MaxTicks      \* bound: ticks of the refresh ticker

Source == WellKnown \cup Informers

ASSUME ConstantsAssumption ==
    /\ WellKnown \cap Informers = {}
    /\ None \notin WellKnown \cup Informers \cup Crds
    /\ IncludeCrds \in BOOLEAN
    /\ ChanCap \in Nat \ {0}
    /\ MaxRecords \in Nat
    /\ MaxTicks \in Nat

VARIABLES
    lock,          \* None, or the informer whose handler holds `protection`
    stopped,       \* kubeWatcherImpl.stopped
    stopChan,      \* number of close() calls on kubeWatcherImpl.stopChan
    crdInformers,  \* kubeWatcherImpl.crdInformers: [Crds -> Informers or None]
    outchan,       \* buffered records, oldest first
    chanClosed,    \* RealMain has closed the channel
    handler,       \* per informer: what its callback goroutine is doing
    emitted,       \* per informer: callbacks delivered so far
    run,           \* per informer: life of the goroutine around Run(stopChan)
    crdOf,         \* crdInformerInfo.crd
    closes,        \* number of close() calls on crdInformerInfo.stopChan
    refresh,       \* where the startCustomInformers call in progress stands
    crdList,       \* its CRDs not visited yet
    existing,      \* its local map `existing`
    ticker,        \* refreshCrd: is it on, is a tick buffered, how many so far
    main,          \* program counter of the main goroutine
    pulled         \* the map Stop() took from crdInformers

chanVars    == <<outchan, chanClosed>>
handlerVars == <<handler, emitted>>
infVars     == <<run, crdOf, closes>>
refreshVars == <<refresh, crdList, existing>>
mainVars    == <<main, pulled, stopChan>>
vars == <<lock, stopped, crdInformers, ticker, chanVars, handlerVars, infVars,
          refreshVars, mainVars>>

CrdMap   == [Crds -> Informers \cup {None}]
EmptyMap == [c \in Crds |-> None]
NilMap   == [c \in {} |-> None]    \* declared and not made: a write panics
Record   == [src : Source, seq : 0 .. MaxRecords]

(* Types; crdInformers, which each refresh takes away and fills again, is   *)
(* always a map that was made, never the nil one.                           *)
TypeOK ==
    /\ lock \in Source \cup {None}
    /\ stopped \in BOOLEAN
    /\ stopChan \in Nat
    /\ crdInformers \in CrdMap
    /\ outchan \in Seq(Record)
    /\ chanClosed \in BOOLEAN
    /\ handler \in [Source -> {"idle", "report", "sending"}]
    /\ emitted \in [Source -> 0 .. MaxRecords]
    /\ run \in [Source -> {"none", "started", "running", "exited"}]
    /\ crdOf \in [Informers -> Crds \cup {None}]
    /\ closes \in [Informers -> Nat]
    /\ refresh \in {"off", "wait", "list", "each", "unwanted"}
    /\ crdList \in SUBSET Crds
    /\ existing \in CrdMap
    /\ ticker \in [on : BOOLEAN, pending : BOOLEAN, ticks : Nat]
    /\ main \in {"new", "custom", "serve", "failed", "stopLock", "stopTicker",
                 "stopClose", "stopPull", "stopUnwanted", "stopped", "closed"}
    /\ pulled \in CrdMap

(* A kubeWatcherImpl whose constructor has not been entered yet.            *)
Init ==
    /\ lock = None
    /\ stopped = FALSE
    /\ stopChan = 0
    /\ crdInformers = EmptyMap
    /\ outchan = <<>>
    /\ chanClosed = FALSE
    /\ handler = [s \in Source |-> "idle"]
    /\ emitted = [s \in Source |-> 0]
    /\ run = [s \in Source |-> "none"]
    /\ crdOf = [i \in Informers |-> None]
    /\ closes = [i \in Informers |-> 0]
    /\ refresh = "off"
    /\ crdList = {}
    /\ existing = EmptyMap
    /\ ticker = [on |-> FALSE, pending |-> FALSE, ticks |-> 0]
    /\ main = "new"
    /\ pulled = EmptyMap

-----------------------------------------------------------------------------
(* NewKubeWatcherSource, on the main goroutine.                             *)

(* informerFactory.Start runs every well-known informer until stopChan is   *)
(* closed; then main enters startCustomInformers itself, or returns.        *)
StartWellKnownInformers ==
    /\ main = "new"
    /\ run' = [s \in Source |-> IF s \in WellKnown THEN "running" ELSE run[s]]
    /\ main' = IF IncludeCrds THEN "custom" ELSE "serve"
    /\ refresh' = IF IncludeCrds THEN "list" ELSE "off"
    /\ UNCHANGED <<lock, stopped, crdInformers, ticker, chanVars, handlerVars,
                   crdOf, closes, crdList, existing, pulled, stopChan>>

(* Returning from startCustomInformers.  Main then creates the ticker and   *)
(* the refresh goroutine, which begins by waiting; an error makes           *)
(* NewKubeWatcherSource fail although the well-known informers are running. *)
(* The refresh goroutine only logs an error and waits for the next tick.    *)
ReturnFromCustom(err) ==
    IF main = "custom"
      THEN IF err THEN /\ main' = "failed"
                       /\ refresh' = "off"
                       /\ UNCHANGED ticker
                  ELSE /\ main' = "serve"
                       /\ refresh' = "wait"
                       /\ ticker' = [ticker EXCEPT !.on = TRUE]
      ELSE /\ refresh' = "wait"
           /\ UNCHANGED <<main, ticker>>

-----------------------------------------------------------------------------
(* startCustomInformers, on main the first time and on the refresh          *)
(* goroutine afterwards.                                                    *)

(* Reading the config, building the clients or listing the CRDs fails: all  *)
(* of these return before crdInformers is touched.                          *)
ListCrdsFails ==
    /\ refresh = "list"
    /\ ReturnFromCustom(TRUE)
    /\ UNCHANGED <<lock, stopped, crdInformers, chanVars, handlerVars, infVars,
                   crdList, existing, pulled, stopChan>>

PullMutant(m) == m

PullNilMutant(m) == NilMap

(* pullCrdInformers leaves an empty map behind for whoever comes next.      *)
PullCrdInformers(m) == EmptyMap

(* The list (any set of CRDs: they come and go in the cluster, and V1beta1  *)
(* is the fallback API) is in hand; take over the informers running now.    *)
ListCrds(crds) ==
    /\ refresh = "list"
    /\ lock = None
    /\ crdList' = crds
    /\ existing' = crdInformers
    /\ crdInformers' = PullCrdInformers(crdInformers)
    /\ refresh' = "each"
    /\ UNCHANGED <<lock, stopped, ticker, chanVars, handlerVars, infVars, mainVars>>

(* existingOrStartNewCrdInformer, after Stop: nothing to do.                *)
SkipStopped(c) ==
    /\ refresh = "each" /\ c \in crdList
    /\ lock = None
    /\ stopped
    /\ crdList' = crdList \ {c}
    /\ UNCHANGED <<lock, stopped, crdInformers, ticker, chanVars, handlerVars,
                   infVars, refresh, existing, mainVars>>

FoundMutant(c) == FALSE

(* crdInformer, found := existing[crd]                                      *)
Found(c) == existing[c] # None

(* delete(existing, crd)                                                    *)
Delete(m, c) == [m EXCEPT ![c] = None]

(* ... when an informer of this CRD is already running: keep it.            *)
KeepExisting(c) ==
    /\ refresh = "each" /\ c \in crdList
    /\ lock = None
    /\ ~stopped
    /\ Found(c)
    /\ crdInformers' = [crdInformers EXCEPT ![c] = existing[c]]
    /\ existing' = Delete(existing, c)
    /\ crdList' = crdList \ {c}
    /\ UNCHANGED <<lock, stopped, ticker, chanVars, handlerVars, infVars, refresh,
                   mainVars>>

StartAllowedMutant == TRUE

(* The test of `stopped` in front of starting one.                          *)
StartAllowed == ~stopped

(* ... and when there is none: startNewCrdInformer allocates a              *)
(* crdInformerInfo with a stopChan of its own and starts its goroutine.     *)
StartNewCrdInformer(c, i) ==
    /\ refresh = "each" /\ c \in crdList
    /\ lock = None
    /\ StartAllowed
    /\ ~Found(c)
    /\ crdOf[i] = None
    /\ crdOf' = [crdOf EXCEPT ![i] = c]
    /\ run' = [run EXCEPT ![i] = "started"]
    /\ crdInformers' = [crdInformers EXCEPT ![c] = i]
    /\ crdList' = crdList \ {c}
    /\ UNCHANGED <<lock, stopped, ticker, chanVars, handlerVars, closes, refresh,
                   existing, mainVars>>

AllCrdsVisited ==
    /\ refresh = "each" /\ crdList = {}
    /\ refresh' = "unwanted"
    /\ UNCHANGED <<lock, stopped, crdInformers, ticker, chanVars, handlerVars,
                   infVars, crdList, existing, mainVars>>

(* stopUnwantedCrdInformers(existing): one close per entry, without a lock. *)
StopUnwanted(c) ==
    /\ refresh = "unwanted" /\ existing[c] # None
    /\ closes' = [closes EXCEPT ![existing[c]] = @ + 1]
    /\ existing' = [existing EXCEPT ![c] = None]
    /\ UNCHANGED <<lock, stopped, crdInformers, ticker, chanVars, handlerVars,
                   run, crdOf, refresh, crdList, mainVars>>

CustomInformersDone ==
    /\ refresh = "unwanted" /\ existing = EmptyMap
    /\ ReturnFromCustom(FALSE)
    /\ UNCHANGED <<lock, stopped, crdInformers, chanVars, handlerVars, infVars,
                   crdList, existing, pulled, stopChan>>

(* time.Ticker: its channel buffers one tick, and Stop() of the ticker does *)
(* not remove a tick that is already there.                                 *)
Tick ==
    /\ ticker.on /\ ~ticker.pending /\ ticker.ticks < MaxTicks
    /\ ticker' = [ticker EXCEPT !.pending = TRUE, !.ticks = @ + 1]
    /\ UNCHANGED <<lock, stopped, crdInformers, chanVars, handlerVars, infVars,
                   refreshVars, mainVars>>

(* refreshCrdInformers: for range i.refreshCrd.C                            *)
RefreshCrdInformers ==
    /\ refresh = "wait" /\ ticker.pending
    /\ ticker' = [ticker EXCEPT !.pending = FALSE]
    /\ refresh' = "list"
    /\ UNCHANGED <<lock, stopped, crdInformers, chanVars, handlerVars, infVars,
                   crdList, existing, mainVars>>

-----------------------------------------------------------------------------
(* The goroutine of a CRD informer, and the callbacks of every informer.    *)

RunInformer(i) ==
    /\ run[i] = "started"
    /\ run' = [run EXCEPT ![i] = "running"]
    /\ UNCHANGED <<lock, stopped, crdInformers, ticker, chanVars, handlerVars,
                   crdOf, closes, refreshVars, mainVars>>

StopRequested(s) == IF s \in WellKnown THEN stopChan > 0 ELSE closes[s] > 0

(* Run(stopChan) returns some time after stopChan is closed, when the       *)
(* callback in progress has returned.                                       *)
InformerExits(s) ==
    /\ run[s] = "running" /\ StopRequested(s) /\ handler[s] = "idle"
    /\ run' = [run EXCEPT ![s] = "exited"]
    /\ UNCHANGED <<lock, stopped, crdInformers, ticker, chanVars, handlerVars,
                   crdOf, closes, refreshVars, mainVars>>

(* reportAdd, reportUpdate or reportDelete enters processUpdate.            *)
Report(s) ==
    /\ run[s] = "running" /\ handler[s] = "idle" /\ emitted[s] < MaxRecords
    /\ handler' = [handler EXCEPT ![s] = "report"]
    /\ emitted' = [emitted EXCEPT ![s] = @ + 1]
    /\ UNCHANGED <<lock, stopped, crdInformers, ticker, chanVars, infVars,
                   refreshVars, mainVars>>

(* processUpdate returns early: marshalling failed or a rule excludes the   *)
(* object.                                                                  *)
ProcessUpdateDrops(s) ==
    /\ handler[s] = "report"
    /\ handler' = [handler EXCEPT ![s] = "idle"]
    /\ UNCHANGED <<lock, stopped, crdInformers, ticker, chanVars, emitted, infVars,
                   refreshVars, mainVars>>

(* writeToOutChan: take the lock; after Stop, give it back and drop.        *)
WriteDropped(s) ==
    /\ handler[s] = "report" /\ lock = None /\ stopped
    /\ handler' = [handler EXCEPT ![s] = "idle"]
    /\ UNCHANGED <<lock, stopped, crdInformers, ticker, chanVars, emitted, infVars,
                   refreshVars, mainVars>>

LockedByMutant(s) == None

(* protection.Lock() by the handler of s.                                   *)
LockedBy(s) == s

UnlockedMutant(s) == s

(* the deferred protection.Unlock()                                         *)
Unlocked(s) == None

WriteLocked(s) ==
    /\ handler[s] = "report" /\ lock = None /\ ~stopped
    /\ lock' = LockedBy(s)
    /\ handler' = [handler EXCEPT ![s] = "sending"]
    /\ UNCHANGED <<stopped, crdInformers, ticker, chanVars, emitted, infVars,
                   refreshVars, mainVars>>

(* i.outchan <- *watchResult blocks, with the lock held, until there is     *)
(* room; the deferred Unlock follows.                                       *)
WriteSent(s) ==
    /\ handler[s] = "sending" /\ Len(outchan) < ChanCap
    /\ outchan' = Append(outchan, [src |-> s, seq |-> emitted[s]])
    /\ handler' = [handler EXCEPT ![s] = "idle"]
    /\ lock' = Unlocked(s)
    /\ UNCHANGED <<stopped, crdInformers, ticker, chanClosed, emitted, infVars,
                   refreshVars, mainVars>>

-----------------------------------------------------------------------------
(* Stop(), called once by RealMain when the web server has returned.        *)

CallStop ==
    /\ main = "serve"
    /\ main' = "stopLock"
    /\ UNCHANGED <<lock, stopped, crdInformers, ticker, chanVars, handlerVars,
                   infVars, refreshVars, pulled, stopChan>>

(* A second Stop() would find `stopped` and return without unlocking; there *)
(* is none, and the guard is the code's test.                               *)
StopSetsStopped ==
    /\ main = "stopLock" /\ lock = None
    /\ ~stopped
    /\ stopped' = TRUE
    /\ main' = "stopTicker"
    /\ UNCHANGED <<lock, crdInformers, ticker, chanVars, handlerVars, infVars,
                   refreshVars, pulled, stopChan>>

StopTicker ==
    /\ main = "stopTicker"
    /\ ticker' = [ticker EXCEPT !.on = FALSE]
    /\ main' = "stopClose"
    /\ UNCHANGED <<lock, stopped, crdInformers, chanVars, handlerVars, infVars,
                   refreshVars, pulled, stopChan>>

StopCloses ==
    /\ main = "stopClose"
    /\ stopChan' = stopChan + 1
    /\ main' = "stopPull"
    /\ UNCHANGED <<lock, stopped, crdInformers, ticker, chanVars, handlerVars,
                   infVars, refreshVars, pulled>>

StopPullsMutant ==
    /\ main = "stopPull" /\ lock = None
    /\ pulled' = EmptyMap
    /\ crdInformers' = EmptyMap
    /\ main' = "stopUnwanted"
    /\ UNCHANGED <<lock, stopped, ticker, chanVars, handlerVars, infVars,
                   refreshVars, stopChan>>

StopPulls ==
    /\ main = "stopPull" /\ lock = None
    /\ pulled' = crdInformers
    /\ crdInformers' = PullCrdInformers(crdInformers)
    /\ main' = "stopUnwanted"
    /\ UNCHANGED <<lock, stopped, ticker, chanVars, handlerVars, infVars,
                   refreshVars, stopChan>>

StopUnwantedPulled(c) ==
    /\ main = "stopUnwanted" /\ pulled[c] # None
    /\ closes' = [closes EXCEPT ![pulled[c]] = @ + 1]
    /\ pulled' = [pulled EXCEPT ![c] = None]
    /\ UNCHANGED <<lock, stopped, crdInformers, ticker, chanVars, handlerVars,
                   run, crdOf, refreshVars, main, stopChan>>

StopReturns ==
    /\ main = "stopUnwanted" /\ pulled = EmptyMap
    /\ main' = "stopped"
    /\ UNCHANGED <<lock, stopped, crdInformers, ticker, chanVars, handlerVars,
                   infVars, refreshVars, pulled, stopChan>>

-----------------------------------------------------------------------------
(* The owner of the channel: RealMain closes it after Stop(), the processor *)
(* receives from it.                                                        *)

CloseChan ==
    /\ main = "stopped"
    /\ chanClosed' = TRUE
    /\ main' = "closed"
    /\ UNCHANGED <<lock, stopped, crdInformers, ticker, outchan, handlerVars,
                   infVars, refreshVars, pulled, stopChan>>

Receive ==
    /\ outchan # <<>>
    /\ outchan' = Tail(outchan)
    /\ UNCHANGED <<lock, stopped, crdInformers, ticker, chanClosed, handlerVars,
                   infVars, refreshVars, mainVars>>

-----------------------------------------------------------------------------
CustomStep ==
    \/ ListCrdsFails
    \/ \E crds \in SUBSET Crds : ListCrds(crds)
    \/ \E c \in Crds : SkipStopped(c) \/ KeepExisting(c) \/ StopUnwanted(c)
    \/ \E c \in Crds, i \in Informers : StartNewCrdInformer(c, i)
    \/ AllCrdsVisited
    \/ CustomInformersDone

WriteStep(s) == WriteDropped(s) \/ WriteLocked(s)

StopStep ==
    \/ StopTicker \/ StopCloses \/ StopReturns
    \/ \E c \in Crds : StopUnwantedPulled(c)

Next ==
    \/ StartWellKnownInformers
    \/ CustomStep
    \/ Tick
    \/ RefreshCrdInformers
    \/ \E i \in Informers : RunInformer(i)
    \/ \E s \in Source : \/ InformerExits(s)
                         \/ Report(s)
                         \/ ProcessUpdateDrops(s)
                         \/ WriteStep(s)
                         \/ WriteSent(s)
    \/ CallStop
    \/ StopSetsStopped
    \/ StopPulls
    \/ StopStep
    \/ CloseChan
    \/ Receive

(* Goroutines that can run do run; a goroutine waiting for the mutex gets   *)
(* it eventually (sync.Mutex hands over to a starving waiter), hence strong *)
(* fairness where lock = None is a guard; the processor keeps receiving.    *)
(* Nothing obliges an informer to report, the ticker to tick, or main to    *)
(* call Stop.                                                               *)
Fairness ==
    /\ WF_vars(Receive)
    /\ SF_vars(StopSetsStopped) /\ SF_vars(StopPulls)
    /\ WF_vars(StopStep) /\ WF_vars(CloseChan)
    /\ SF_vars(CustomStep)
    /\ \A s \in Source : /\ SF_vars(WriteStep(s))
                         /\ WF_vars(WriteSent(s))
                         /\ WF_vars(InformerExits(s))
    /\ \A i \in Informers : WF_vars(RunInformer(i))

Spec     == Init /\ [][Next]_vars
FairSpec == Spec /\ Fairness

-----------------------------------------------------------------------------
Started(i) == crdOf[i] # None
Live(i)    == Started(i) /\ closes[i] = 0

(* No handler is inside the channel send when RealMain has closed the       *)
(* channel: such a send panics.  This is what the lock around the test of   *)
(* `stopped` and the send in writeToOutChan is for.                         *)
NoSendOnClosedChannel == chanClosed => \A s \in Source : handler[s] # "sending"

(* stopChan of the watcher and of each CRD informer is closed at most once  *)
(* (a second close panics), although Stop() and the refresh goroutine both  *)
(* close informers, outside the lock.                                       *)
ClosedAtMostOnce == stopChan <= 1 /\ \A i \in Informers : closes[i] <= 1

(* At no time do two informers that nobody has stopped watch the same CRD   *)
(* (every object of it would be reported twice); and an informer that a     *)
(* refresh keeps in crdInformers has not been stopped by it (its CRD would  *)
(* silently never be watched again).                                        *)
OneLiveInformerPerCrd ==
    /\ \A i, j \in Informers : Live(i) /\ Live(j) /\ crdOf[i] = crdOf[j] => i = j
    /\ \A c \in Crds : crdInformers[c] # None => Live(crdInformers[c])

(* Once Stop() has returned and no refresh is under way, every informer     *)
(* ever started has been told to stop, whichever way Stop() and a running   *)
(* refresh were interleaved.                                                *)
NoInformerLeak ==
    main \in {"stopped", "closed"} /\ refresh \in {"off", "wait"} =>
        \A i \in Informers : ~Live(i)

(* Stop() returns and the channel gets closed even when a handler is        *)
(* blocked on a full channel with the lock in its hand.                     *)
StopCompletes == main = "stopLock" ~> main = "closed"

(* After Stop() every informer goroutine comes to an end.                   *)
InformersExit == main = "stopLock" ~> \A s \in Source : run[s] \in {"none", "exited"}

(* What the processor may rely on.                                          *)
Port == INSTANCE IngressChannel WITH
            buffer <- outchan, open <- ~stopped, closed <- chanClosed

(* The watcher implements the ingress channel: in particular nothing is     *)
(* written once `stopped` is set (comment of writeToOutChan).               *)
ImplementsIngressChannel == Port!Spec

-----------------------------------------------------------------------------
(* The inductive strengthening that KubeWatcher_proofs uses.                *)

(* The lock is held exactly by the handler that is sending, and the flag    *)
(* cannot be set behind its back.                                           *)
LockInv ==
    /\ \A s \in Source : (handler[s] = "sending") <=> (lock = s)
    /\ lock # None => ~stopped

(* How far Stop() has come decides the flag, both channels and the map.     *)
StopInv ==
    /\ stopped <=> (main \in {"stopTicker", "stopClose", "stopPull",
                              "stopUnwanted", "stopped", "closed"})
    /\ chanClosed <=> (main = "closed")
    /\ stopChan = IF main \in {"stopPull", "stopUnwanted", "stopped", "closed"}
                    THEN 1 ELSE 0
    /\ main # "stopUnwanted" => \A c \in Crds : pulled[c] = None
    /\ main \in {"stopUnwanted", "stopped", "closed"} =>
          \A c \in Crds : crdInformers[c] = None

(* `existing` is local to one call of startCustomInformers, and that call   *)
(* meets each CRD once: the API server lists a (group, version, resource,   *)
(* kind) only once, which is why crdList is a set.                          *)
RefreshInv ==
    /\ main = "new" => refresh = "off"
    /\ refresh \notin {"each", "unwanted"} => \A c \in Crds : existing[c] = None
    /\ refresh = "each" => \A c \in crdList : crdInformers[c] = None

(* The informer i that map m holds for c is c's, and nobody has stopped it. *)
Owns(m) ==
    \A c \in Crds : m[c] # None => crdOf[m[c]] = c /\ closes[m[c]] = 0

(* Each live informer is in exactly one of the three maps: whoever empties  *)
(* a map is the only one who may close what it finds there, and nothing is  *)
(* lost between the maps.                                                   *)
OwnershipInv ==
    /\ Owns(crdInformers) /\ Owns(existing) /\ Owns(pulled)
    /\ \A c \in Crds :
          /\ crdInformers[c] = None \/ existing[c] = None
          /\ crdInformers[c] = None \/ pulled[c] = None
          /\ existing[c] = None \/ pulled[c] = None
    /\ \A i \in Informers :
          /\ closes[i] <= 1
          /\ crdOf[i] = None => closes[i] = 0
          /\ Live(i) => i \in {crdInformers[crdOf[i]], existing[crdOf[i]],
                               pulled[crdOf[i]]}

IndInv == TypeOK /\ LockInv /\ StopInv /\ RefreshInv /\ OwnershipInv
=============================================================================
