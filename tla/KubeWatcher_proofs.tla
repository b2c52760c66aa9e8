------------------------- MODULE KubeWatcher_proofs -------------------------
(***************************************************************************)
(* Proofs about KubeWatcher, for every set of informers and CRDs, every     *)
(* channel capacity and every bound.                                        *)
(***************************************************************************)
EXTENDS KubeWatcher, TLAPS

(* Type correctness is preserved by every step. *)
LEMMA TypeOKStep == TypeOK /\ [Next]_vars => TypeOK'
<1> SUFFICES ASSUME TypeOK, [Next]_vars PROVE TypeOK'
  OBVIOUS
<1> USE ConstantsAssumption DEF TypeOK, CrdMap, EmptyMap, Record, Source,
        chanVars, handlerVars, infVars, refreshVars, mainVars
<1>1. CASE StartWellKnownInformers
  BY <1>1 DEF StartWellKnownInformers
<1>2. CASE ListCrdsFails
  BY <1>2 DEF ListCrdsFails, ReturnFromCustom
<1>3. ASSUME NEW crds \in SUBSET Crds, ListCrds(crds) PROVE TypeOK'
  BY <1>3 DEF ListCrds, PullCrdInformers
<1>4. ASSUME NEW c \in Crds, SkipStopped(c) PROVE TypeOK'
  BY <1>4 DEF SkipStopped
<1>5. ASSUME NEW c \in Crds, KeepExisting(c) PROVE TypeOK'
  BY <1>5 DEF KeepExisting, Found, Delete
<1>6. ASSUME NEW c \in Crds, NEW i \in Informers, StartNewCrdInformer(c, i) PROVE TypeOK'
  BY <1>6 DEF StartNewCrdInformer, Found, StartAllowed
<1>7. CASE AllCrdsVisited
  BY <1>7 DEF AllCrdsVisited
<1>8. ASSUME NEW c \in Crds, StopUnwanted(c) PROVE TypeOK'
  BY <1>8 DEF StopUnwanted
<1>9. CASE CustomInformersDone
  BY <1>9, ZenonT(30) DEF CustomInformersDone, ReturnFromCustom
<1>10. CASE Tick
  <2>1. ticker.ticks + 1 \in Nat
    BY <1>10 DEF Tick
  <2>2. ticker' \in [on : BOOLEAN, pending : BOOLEAN, ticks : Nat]
    BY <1>10, <2>1 DEF Tick
  <2> QED
    BY <1>10, <2>2 DEF Tick
<1>11. CASE RefreshCrdInformers
  BY <1>11 DEF RefreshCrdInformers
<1>12. ASSUME NEW i \in Informers, RunInformer(i) PROVE TypeOK'
  BY <1>12 DEF RunInformer
<1>13. ASSUME NEW s \in Source, InformerExits(s) PROVE TypeOK'
  BY <1>13 DEF InformerExits
<1>14. ASSUME NEW s \in Source, Report(s) PROVE TypeOK'
  BY <1>14 DEF Report
<1>15. ASSUME NEW s \in Source, ProcessUpdateDrops(s) PROVE TypeOK'
  BY <1>15 DEF ProcessUpdateDrops
<1>16. ASSUME NEW s \in Source, WriteDropped(s) PROVE TypeOK'
  BY <1>16 DEF WriteDropped
<1>17. ASSUME NEW s \in Source, WriteLocked(s) PROVE TypeOK'
  BY <1>17 DEF WriteLocked, LockedBy
<1>18. ASSUME NEW s \in Source, WriteSent(s) PROVE TypeOK'
  <2>1. outchan' \in Seq(Record)
    BY <1>18 DEF WriteSent
  <2> QED
    BY <1>18, <2>1 DEF WriteSent, Unlocked
<1>19. CASE CallStop
  BY <1>19 DEF CallStop
<1>20. CASE StopSetsStopped
  BY <1>20 DEF StopSetsStopped
<1>21. CASE StopTicker
  BY <1>21 DEF StopTicker
<1>22. CASE StopCloses
  BY <1>22 DEF StopCloses
<1>23. CASE StopPulls
  BY <1>23 DEF StopPulls, PullCrdInformers
<1>24. ASSUME NEW c \in Crds, StopUnwantedPulled(c) PROVE TypeOK'
  BY <1>24 DEF StopUnwantedPulled
<1>25. CASE StopReturns
  BY <1>25 DEF StopReturns
<1>26. CASE CloseChan
  BY <1>26 DEF CloseChan
<1>27. CASE Receive
  BY <1>27 DEF Receive
<1>28. CASE UNCHANGED vars
  BY <1>28 DEF vars
<1> QED
  BY <1>1, <1>2, <1>3, <1>4, <1>5, <1>6, <1>7, <1>8, <1>9, <1>10, <1>11, <1>12, <1>13, <1>14, <1>15, <1>16, <1>17, <1>18, <1>19, <1>20, <1>21, <1>22, <1>23, <1>24, <1>25, <1>26, <1>27, <1>28
  DEF Next, CustomStep, WriteStep, StopStep

(* The lock discipline of writeToOutChan and Stop is preserved. *)
LEMMA LockInvStep == TypeOK /\ LockInv /\ [Next]_vars => LockInv'
<1> SUFFICES ASSUME TypeOK, LockInv, [Next]_vars PROVE LockInv'
  OBVIOUS
<1> USE ConstantsAssumption DEF TypeOK, LockInv, Source,
        chanVars, handlerVars, infVars, refreshVars, mainVars
<1>1. CASE StartWellKnownInformers
  BY <1>1 DEF StartWellKnownInformers
<1>2. CASE ListCrdsFails
  BY <1>2 DEF ListCrdsFails, ReturnFromCustom
<1>3. ASSUME NEW crds \in SUBSET Crds, ListCrds(crds) PROVE LockInv'
  BY <1>3 DEF ListCrds, PullCrdInformers
<1>4. ASSUME NEW c \in Crds, SkipStopped(c) PROVE LockInv'
  BY <1>4 DEF SkipStopped
<1>5. ASSUME NEW c \in Crds, KeepExisting(c) PROVE LockInv'
  BY <1>5 DEF KeepExisting, Found, Delete
<1>6. ASSUME NEW c \in Crds, NEW i \in Informers, StartNewCrdInformer(c, i) PROVE LockInv'
  BY <1>6 DEF StartNewCrdInformer, Found, StartAllowed
<1>7. CASE AllCrdsVisited
  BY <1>7 DEF AllCrdsVisited
<1>8. ASSUME NEW c \in Crds, StopUnwanted(c) PROVE LockInv'
  BY <1>8 DEF StopUnwanted
<1>9. CASE CustomInformersDone
  BY <1>9 DEF CustomInformersDone, ReturnFromCustom
<1>10. CASE Tick
  BY <1>10 DEF Tick
<1>11. CASE RefreshCrdInformers
  BY <1>11 DEF RefreshCrdInformers
<1>12. ASSUME NEW i \in Informers, RunInformer(i) PROVE LockInv'
  BY <1>12 DEF RunInformer
<1>13. ASSUME NEW s \in Source, InformerExits(s) PROVE LockInv'
  BY <1>13 DEF InformerExits
<1>14. ASSUME NEW s \in Source, Report(s) PROVE LockInv'
  BY <1>14 DEF Report
<1>15. ASSUME NEW s \in Source, ProcessUpdateDrops(s) PROVE LockInv'
  BY <1>15 DEF ProcessUpdateDrops
<1>16. ASSUME NEW s \in Source, WriteDropped(s) PROVE LockInv'
  BY <1>16 DEF WriteDropped
<1>17. ASSUME NEW s \in Source, WriteLocked(s) PROVE LockInv'
  BY <1>17 DEF WriteLocked, LockedBy
<1>18. ASSUME NEW s \in Source, WriteSent(s) PROVE LockInv'
  BY <1>18 DEF WriteSent, Unlocked
<1>19. CASE CallStop
  BY <1>19 DEF CallStop
<1>20. CASE StopSetsStopped
  BY <1>20 DEF StopSetsStopped
<1>21. CASE StopTicker
  BY <1>21 DEF StopTicker
<1>22. CASE StopCloses
  BY <1>22 DEF StopCloses
<1>23. CASE StopPulls
  BY <1>23 DEF StopPulls, PullCrdInformers
<1>24. ASSUME NEW c \in Crds, StopUnwantedPulled(c) PROVE LockInv'
  BY <1>24 DEF StopUnwantedPulled
<1>25. CASE StopReturns
  BY <1>25 DEF StopReturns
<1>26. CASE CloseChan
  BY <1>26 DEF CloseChan
<1>27. CASE Receive
  BY <1>27 DEF Receive
<1>28. CASE UNCHANGED vars
  BY <1>28 DEF vars
<1> QED
  BY <1>1, <1>2, <1>3, <1>4, <1>5, <1>6, <1>7, <1>8, <1>9, <1>10, <1>11, <1>12, <1>13, <1>14, <1>15, <1>16, <1>17, <1>18, <1>19, <1>20, <1>21, <1>22, <1>23, <1>24, <1>25, <1>26, <1>27, <1>28
  DEF Next, CustomStep, WriteStep, StopStep

(* The bookkeeping of Stop() is preserved. *)
LEMMA StopInvStep == TypeOK /\ StopInv /\ [Next]_vars => StopInv'
<1> SUFFICES ASSUME TypeOK, StopInv, [Next]_vars PROVE StopInv'
  OBVIOUS
<1> USE ConstantsAssumption DEF TypeOK, StopInv, CrdMap, EmptyMap,
        chanVars, handlerVars, infVars, refreshVars, mainVars
<1>1. CASE StartWellKnownInformers
  BY <1>1 DEF StartWellKnownInformers
<1>2. CASE ListCrdsFails
  BY <1>2 DEF ListCrdsFails, ReturnFromCustom
<1>3. ASSUME NEW crds \in SUBSET Crds, ListCrds(crds) PROVE StopInv'
  BY <1>3 DEF ListCrds, PullCrdInformers
<1>4. ASSUME NEW c \in Crds, SkipStopped(c) PROVE StopInv'
  BY <1>4 DEF SkipStopped
<1>5. ASSUME NEW c \in Crds, KeepExisting(c) PROVE StopInv'
  BY <1>5 DEF KeepExisting, Found, Delete
<1>6. ASSUME NEW c \in Crds, NEW i \in Informers, StartNewCrdInformer(c, i) PROVE StopInv'
  BY <1>6 DEF StartNewCrdInformer, Found, StartAllowed
<1>7. CASE AllCrdsVisited
  BY <1>7 DEF AllCrdsVisited
<1>8. ASSUME NEW c \in Crds, StopUnwanted(c) PROVE StopInv'
  BY <1>8 DEF StopUnwanted
<1>9. CASE CustomInformersDone
  BY <1>9 DEF CustomInformersDone, ReturnFromCustom
<1>10. CASE Tick
  BY <1>10 DEF Tick
<1>11. CASE RefreshCrdInformers
  BY <1>11 DEF RefreshCrdInformers
<1>12. ASSUME NEW i \in Informers, RunInformer(i) PROVE StopInv'
  BY <1>12 DEF RunInformer
<1>13. ASSUME NEW s \in Source, InformerExits(s) PROVE StopInv'
  BY <1>13 DEF InformerExits
<1>14. ASSUME NEW s \in Source, Report(s) PROVE StopInv'
  BY <1>14 DEF Report
<1>15. ASSUME NEW s \in Source, ProcessUpdateDrops(s) PROVE StopInv'
  BY <1>15 DEF ProcessUpdateDrops
<1>16. ASSUME NEW s \in Source, WriteDropped(s) PROVE StopInv'
  BY <1>16 DEF WriteDropped
<1>17. ASSUME NEW s \in Source, WriteLocked(s) PROVE StopInv'
  BY <1>17 DEF WriteLocked, LockedBy
<1>18. ASSUME NEW s \in Source, WriteSent(s) PROVE StopInv'
  BY <1>18 DEF WriteSent, Unlocked
<1>19. CASE CallStop
  BY <1>19 DEF CallStop
<1>20. CASE StopSetsStopped
  BY <1>20 DEF StopSetsStopped
<1>21. CASE StopTicker
  BY <1>21 DEF StopTicker
<1>22. CASE StopCloses
  BY <1>22 DEF StopCloses
<1>23. CASE StopPulls
  BY <1>23 DEF StopPulls, PullCrdInformers
<1>24. ASSUME NEW c \in Crds, StopUnwantedPulled(c) PROVE StopInv'
  BY <1>24 DEF StopUnwantedPulled
<1>25. CASE StopReturns
  BY <1>25 DEF StopReturns
<1>26. CASE CloseChan
  BY <1>26 DEF CloseChan
<1>27. CASE Receive
  BY <1>27 DEF Receive
<1>28. CASE UNCHANGED vars
  BY <1>28 DEF vars
<1> QED
  BY <1>1, <1>2, <1>3, <1>4, <1>5, <1>6, <1>7, <1>8, <1>9, <1>10, <1>11, <1>12, <1>13, <1>14, <1>15, <1>16, <1>17, <1>18, <1>19, <1>20, <1>21, <1>22, <1>23, <1>24, <1>25, <1>26, <1>27, <1>28
  DEF Next, CustomStep, WriteStep, StopStep

(* `existing` stays local to a refresh. *)
LEMMA RefreshInvStep == TypeOK /\ RefreshInv /\ [Next]_vars => RefreshInv'
<1> SUFFICES ASSUME TypeOK, RefreshInv, [Next]_vars PROVE RefreshInv'
  OBVIOUS
<1> USE ConstantsAssumption DEF TypeOK, RefreshInv, CrdMap, EmptyMap,
        chanVars, handlerVars, infVars, refreshVars, mainVars
<1>1. CASE StartWellKnownInformers
  BY <1>1 DEF StartWellKnownInformers
<1>2. CASE ListCrdsFails
  BY <1>2 DEF ListCrdsFails, ReturnFromCustom
<1>3. ASSUME NEW crds \in SUBSET Crds, ListCrds(crds) PROVE RefreshInv'
  BY <1>3 DEF ListCrds, PullCrdInformers
<1>4. ASSUME NEW c \in Crds, SkipStopped(c) PROVE RefreshInv'
  BY <1>4 DEF SkipStopped
<1>5. ASSUME NEW c \in Crds, KeepExisting(c) PROVE RefreshInv'
  BY <1>5 DEF KeepExisting, Found, Delete
<1>6. ASSUME NEW c \in Crds, NEW i \in Informers, StartNewCrdInformer(c, i) PROVE RefreshInv'
  BY <1>6 DEF StartNewCrdInformer, Found, StartAllowed
<1>7. CASE AllCrdsVisited
  BY <1>7 DEF AllCrdsVisited
<1>8. ASSUME NEW c \in Crds, StopUnwanted(c) PROVE RefreshInv'
  BY <1>8 DEF StopUnwanted
<1>9. CASE CustomInformersDone
  BY <1>9 DEF CustomInformersDone, ReturnFromCustom
<1>10. CASE Tick
  BY <1>10 DEF Tick
<1>11. CASE RefreshCrdInformers
  BY <1>11 DEF RefreshCrdInformers
<1>12. ASSUME NEW i \in Informers, RunInformer(i) PROVE RefreshInv'
  BY <1>12 DEF RunInformer
<1>13. ASSUME NEW s \in Source, InformerExits(s) PROVE RefreshInv'
  BY <1>13 DEF InformerExits
<1>14. ASSUME NEW s \in Source, Report(s) PROVE RefreshInv'
  BY <1>14 DEF Report
<1>15. ASSUME NEW s \in Source, ProcessUpdateDrops(s) PROVE RefreshInv'
  BY <1>15 DEF ProcessUpdateDrops
<1>16. ASSUME NEW s \in Source, WriteDropped(s) PROVE RefreshInv'
  BY <1>16 DEF WriteDropped
<1>17. ASSUME NEW s \in Source, WriteLocked(s) PROVE RefreshInv'
  BY <1>17 DEF WriteLocked, LockedBy
<1>18. ASSUME NEW s \in Source, WriteSent(s) PROVE RefreshInv'
  BY <1>18 DEF WriteSent, Unlocked
<1>19. CASE CallStop
  BY <1>19 DEF CallStop
<1>20. CASE StopSetsStopped
  BY <1>20 DEF StopSetsStopped
<1>21. CASE StopTicker
  BY <1>21 DEF StopTicker
<1>22. CASE StopCloses
  BY <1>22 DEF StopCloses
<1>23. CASE StopPulls
  BY <1>23 DEF StopPulls, PullCrdInformers
<1>24. ASSUME NEW c \in Crds, StopUnwantedPulled(c) PROVE RefreshInv'
  BY <1>24 DEF StopUnwantedPulled
<1>25. CASE StopReturns
  BY <1>25 DEF StopReturns
<1>26. CASE CloseChan
  BY <1>26 DEF CloseChan
<1>27. CASE Receive
  BY <1>27 DEF Receive
<1>28. CASE UNCHANGED vars
  BY <1>28 DEF vars
<1> QED
  BY <1>1, <1>2, <1>3, <1>4, <1>5, <1>6, <1>7, <1>8, <1>9, <1>10, <1>11, <1>12, <1>13, <1>14, <1>15, <1>16, <1>17, <1>18, <1>19, <1>20, <1>21, <1>22, <1>23, <1>24, <1>25, <1>26, <1>27, <1>28
  DEF Next, CustomStep, WriteStep, StopStep

(* Ownership of the live informers is preserved. *)
LEMMA OwnershipInvStep == TypeOK /\ StopInv /\ RefreshInv /\ OwnershipInv /\ [Next]_vars => OwnershipInv'
<1> SUFFICES ASSUME TypeOK, StopInv, RefreshInv, OwnershipInv, [Next]_vars PROVE OwnershipInv'
  OBVIOUS
<1> USE ConstantsAssumption DEF TypeOK, StopInv, RefreshInv, OwnershipInv, Owns,
        Live, Started, CrdMap, EmptyMap, Source, chanVars, handlerVars, infVars, refreshVars, mainVars
<1>1. CASE StartWellKnownInformers
  BY <1>1 DEF StartWellKnownInformers
<1>2. CASE ListCrdsFails
  BY <1>2 DEF ListCrdsFails, ReturnFromCustom
<1>3. ASSUME NEW crds \in SUBSET Crds, ListCrds(crds) PROVE OwnershipInv'
  BY <1>3 DEF ListCrds, PullCrdInformers
<1>4. ASSUME NEW c \in Crds, SkipStopped(c) PROVE OwnershipInv'
  BY <1>4 DEF SkipStopped
<1>5. ASSUME NEW c \in Crds, KeepExisting(c) PROVE OwnershipInv'
  BY <1>5 DEF KeepExisting, Found, Delete
<1>6. ASSUME NEW c \in Crds, NEW i \in Informers, StartNewCrdInformer(c, i) PROVE OwnershipInv'
  <2> USE <1>6 DEF StartNewCrdInformer, Found, StartAllowed
  <2>1. /\ crdInformers[c] = None /\ existing[c] = None /\ pulled[c] = None
        /\ closes[i] = 0
    OBVIOUS
  <2>2. \A d \in Crds : /\ crdInformers[d] # i
                         /\ existing[d] # i
                         /\ pulled[d] # i
    OBVIOUS
  <2>3. Owns(crdInformers)'
    BY <2>1, <2>2
  <2>4. Owns(existing)' /\ Owns(pulled)'
    BY <2>1, <2>2
  <2>5. \A d \in Crds :
          /\ crdInformers'[d] = None \/ existing'[d] = None
          /\ crdInformers'[d] = None \/ pulled'[d] = None
          /\ existing'[d] = None \/ pulled'[d] = None
    BY <2>1
  <2>6. ASSUME NEW j \in Informers
        PROVE  /\ closes'[j] <= 1
               /\ crdOf'[j] = None => closes'[j] = 0
               /\ Live(j)' => j \in {crdInformers'[crdOf'[j]],
                                    existing'[crdOf'[j]], pulled'[crdOf'[j]]}
    BY <2>1, <2>2
  <2> QED
    BY <2>3, <2>4, <2>5, <2>6
<1>7. CASE AllCrdsVisited
  BY <1>7 DEF AllCrdsVisited
<1>8. ASSUME NEW c \in Crds, StopUnwanted(c) PROVE OwnershipInv'
  BY <1>8 DEF StopUnwanted
<1>9. CASE CustomInformersDone
  BY <1>9 DEF CustomInformersDone, ReturnFromCustom
<1>10. CASE Tick
  BY <1>10 DEF Tick
<1>11. CASE RefreshCrdInformers
  BY <1>11 DEF RefreshCrdInformers
<1>12. ASSUME NEW i \in Informers, RunInformer(i) PROVE OwnershipInv'
  BY <1>12 DEF RunInformer
<1>13. ASSUME NEW s \in Source, InformerExits(s) PROVE OwnershipInv'
  BY <1>13 DEF InformerExits
<1>14. ASSUME NEW s \in Source, Report(s) PROVE OwnershipInv'
  BY <1>14 DEF Report
<1>15. ASSUME NEW s \in Source, ProcessUpdateDrops(s) PROVE OwnershipInv'
  BY <1>15 DEF ProcessUpdateDrops
<1>16. ASSUME NEW s \in Source, WriteDropped(s) PROVE OwnershipInv'
  BY <1>16 DEF WriteDropped
<1>17. ASSUME NEW s \in Source, WriteLocked(s) PROVE OwnershipInv'
  BY <1>17 DEF WriteLocked, LockedBy
<1>18. ASSUME NEW s \in Source, WriteSent(s) PROVE OwnershipInv'
  BY <1>18 DEF WriteSent, Unlocked
<1>19. CASE CallStop
  BY <1>19 DEF CallStop
<1>20. CASE StopSetsStopped
  BY <1>20 DEF StopSetsStopped
<1>21. CASE StopTicker
  BY <1>21 DEF StopTicker
<1>22. CASE StopCloses
  BY <1>22 DEF StopCloses
<1>23. CASE StopPulls
  BY <1>23 DEF StopPulls, PullCrdInformers
<1>24. ASSUME NEW c \in Crds, StopUnwantedPulled(c) PROVE OwnershipInv'
  BY <1>24 DEF StopUnwantedPulled
<1>25. CASE StopReturns
  BY <1>25 DEF StopReturns
<1>26. CASE CloseChan
  BY <1>26 DEF CloseChan
<1>27. CASE Receive
  BY <1>27 DEF Receive
<1>28. CASE UNCHANGED vars
  BY <1>28 DEF vars
<1> QED
  BY <1>1, <1>2, <1>3, <1>4, <1>5, <1>6, <1>7, <1>8, <1>9, <1>10, <1>11, <1>12, <1>13, <1>14, <1>15, <1>16, <1>17, <1>18, <1>19, <1>20, <1>21, <1>22, <1>23, <1>24, <1>25, <1>26, <1>27, <1>28
  DEF Next, CustomStep, WriteStep, StopStep

(* The constructor starts from a state that satisfies the invariant. *)
LEMMA InitIndInv == Init => IndInv
<1> SUFFICES ASSUME Init PROVE IndInv
  OBVIOUS
<1> USE ConstantsAssumption DEF Init, CrdMap, EmptyMap, Source
<1>1. TypeOK
  <2>1. ticker \in [on : BOOLEAN, pending : BOOLEAN, ticks : Nat]
    OBVIOUS
  <2>2. /\ handler \in [Source -> {"idle", "report", "sending"}]
        /\ emitted \in [Source -> 0 .. MaxRecords]
        /\ run \in [Source -> {"none", "started", "running", "exited"}]
        /\ closes \in [Informers -> Nat]
    OBVIOUS
  <2>3. stopped \in BOOLEAN /\ chanClosed \in BOOLEAN
    OBVIOUS
  <2>4. outchan \in Seq(Record)
    OBVIOUS
  <2>5. /\ crdInformers \in CrdMap /\ existing \in CrdMap /\ pulled \in CrdMap
        /\ crdOf \in [Informers -> Crds \cup {None}]
    OBVIOUS
  <2>6. lock \in Source \cup {None} /\ stopChan \in Nat /\ crdList \in SUBSET Crds
    OBVIOUS
  <2>7. /\ refresh \in {"off", "wait", "list", "each", "unwanted"}
        /\ main \in {"new", "custom", "serve", "failed", "stopLock", "stopTicker",
                     "stopClose", "stopPull", "stopUnwanted", "stopped", "closed"}
    OBVIOUS
  <2> HIDE DEF Init, CrdMap, Source
  <2> QED
    BY <2>1, <2>2, <2>3, <2>4, <2>5, <2>6, <2>7 DEF TypeOK
<1>2. LockInv
  BY DEF LockInv
<1>3. StopInv /\ RefreshInv
  <2>1. main = "new"
    OBVIOUS
  <2>2. ~(main \in {"stopTicker", "stopClose", "stopPull", "stopUnwanted",
                    "stopped", "closed"})
    BY <2>1
  <2>3. stopped <=> (main \in {"stopTicker", "stopClose", "stopPull",
                               "stopUnwanted", "stopped", "closed"})
    BY <2>2
  <2>4. chanClosed <=> (main = "closed")
    BY <2>1
  <2> QED
    BY <2>1, <2>3, <2>4 DEF StopInv, RefreshInv
<1>4. OwnershipInv
  BY DEF OwnershipInv, Owns, Live, Started
<1> QED
  BY <1>1, <1>2, <1>3, <1>4 DEF IndInv

(* IndInv is an invariant of the watcher. *)
THEOREM Inductive == Spec => []IndInv
<1>1. IndInv /\ [Next]_vars => IndInv'
  BY TypeOKStep, LockInvStep, StopInvStep, RefreshInvStep, OwnershipInvStep
  DEF IndInv
<1> QED
  BY InitIndInv, <1>1, PTL DEF Spec

-----------------------------------------------------------------------------
(* Every variable keeps its type: the lock is free or held by an informer,  *)
(* the maps hold informers or nil, the channel holds records.               *)
THEOREM TypeCorrect == Spec => []TypeOK
<1>1. IndInv => TypeOK
  BY DEF IndInv
<1> QED
  BY Inductive, <1>1, PTL

(* No handler of any informer is ever caught in the channel send when       *)
(* RealMain closes the channel.                                             *)
THEOREM NeverSendsOnClosedChannel == Spec => []NoSendOnClosedChannel
<1>1. IndInv => NoSendOnClosedChannel
  BY ConstantsAssumption
  DEF IndInv, LockInv, StopInv, NoSendOnClosedChannel, Source
<1> QED
  BY Inductive, <1>1, PTL

(* Neither Stop() nor a refresh closes a stop channel a second time.        *)
THEOREM NeverClosesTwice == Spec => []ClosedAtMostOnce
<1>1. IndInv => ClosedAtMostOnce
  BY DEF IndInv, StopInv, OwnershipInv, ClosedAtMostOnce
<1> QED
  BY Inductive, <1>1, PTL

(* No CRD is watched by two live informers, and the one that is registered  *)
(* is live.                                                                 *)
THEOREM OneInformerPerCrd == Spec => []OneLiveInformerPerCrd
<1>1. ASSUME IndInv, NEW i \in Informers, NEW j \in Informers,
             Live(i), Live(j), crdOf[i] = crdOf[j]
      PROVE  i = j
  <2>1. crdOf[i] \in Crds
    BY <1>1 DEF IndInv, TypeOK, Live, Started
  <2> QED
    BY <1>1, <2>1, ConstantsAssumption DEF IndInv, OwnershipInv
<1>2. ASSUME IndInv, NEW c \in Crds, crdInformers[c] # None
      PROVE  Live(crdInformers[c])
  BY <1>2, ConstantsAssumption
  DEF IndInv, TypeOK, CrdMap, OwnershipInv, Owns, Live, Started
<1>3. IndInv => OneLiveInformerPerCrd
  BY <1>1, <1>2 DEF OneLiveInformerPerCrd
<1> QED
  BY Inductive, <1>3, PTL

(* When Stop() has returned and no refresh is running, no informer is left  *)
(* that nobody has told to stop.                                            *)
THEOREM NeverLeaksAnInformer == Spec => []NoInformerLeak
<1>1. IndInv => NoInformerLeak
  <2> SUFFICES ASSUME IndInv, main \in {"stopped", "closed"},
                      refresh \in {"off", "wait"},
                      NEW i \in Informers, Live(i)
               PROVE  FALSE
    BY DEF NoInformerLeak
  <2>1. crdOf[i] \in Crds
    BY DEF IndInv, TypeOK, Live, Started
  <2>2. /\ crdInformers[crdOf[i]] = None
        /\ existing[crdOf[i]] = None
        /\ pulled[crdOf[i]] = None
    BY <2>1 DEF IndInv, StopInv, RefreshInv
  <2> QED
    BY <2>2, ConstantsAssumption DEF IndInv, OwnershipInv
<1> QED
  BY Inductive, <1>1, PTL

-----------------------------------------------------------------------------
(* Every step of the watcher is a step of the abstract ingress channel, or  *)
(* does not change what its owner sees.                                     *)
LEMMA IngressStep ==
  IndInv /\ [Next]_vars => [Port!Next]_<<outchan, ~stopped, chanClosed>>
<1> SUFFICES ASSUME IndInv, [Next]_vars
             PROVE  [Port!Next]_<<outchan, ~stopped, chanClosed>>
  OBVIOUS
<1> USE DEF chanVars, handlerVars, infVars, refreshVars, mainVars, Port!Next
<1>1. ASSUME NEW s \in Source, WriteSent(s) PROVE Port!Write
  <2>1. ~stopped
    BY <1>1, ConstantsAssumption DEF WriteSent, IndInv, LockInv, Source
  <2>2. [src |-> s, seq |-> emitted[s]] \in Record
    BY DEF IndInv, TypeOK, Record
  <2> QED
    BY <1>1, <2>1, <2>2 DEF WriteSent, Port!Write
<1>2. CASE StopSetsStopped
  BY <1>2 DEF StopSetsStopped, IndInv, StopInv, TypeOK, Port!Stop
<1>3. CASE CloseChan
  BY <1>3 DEF CloseChan, IndInv, StopInv, TypeOK, Port!Close
<1>4. CASE Receive
  BY <1>4 DEF Receive, Port!Read
<1>5. CASE CustomStep
  <2>1. ASSUME ListCrdsFails \/ AllCrdsVisited \/ CustomInformersDone
        PROVE  UNCHANGED <<outchan, ~stopped, chanClosed>>
    BY <2>1 DEF ListCrdsFails, AllCrdsVisited, CustomInformersDone,
                ReturnFromCustom
  <2>2. ASSUME NEW crds \in SUBSET Crds, ListCrds(crds)
        PROVE  UNCHANGED <<outchan, ~stopped, chanClosed>>
    BY <2>2 DEF ListCrds
  <2>3. ASSUME NEW c \in Crds, SkipStopped(c) \/ KeepExisting(c) \/ StopUnwanted(c)
        PROVE  UNCHANGED <<outchan, ~stopped, chanClosed>>
    BY <2>3 DEF SkipStopped, KeepExisting, StopUnwanted
  <2>4. ASSUME NEW c \in Crds, NEW i \in Informers, StartNewCrdInformer(c, i)
        PROVE  UNCHANGED <<outchan, ~stopped, chanClosed>>
    BY <2>4 DEF StartNewCrdInformer
  <2> QED
    BY <1>5, <2>1, <2>2, <2>3, <2>4 DEF CustomStep
<1>6. CASE StartWellKnownInformers \/ Tick \/ RefreshCrdInformers
  BY <1>6 DEF StartWellKnownInformers, Tick, RefreshCrdInformers
<1>7. ASSUME NEW i \in Informers, RunInformer(i)
      PROVE  UNCHANGED <<outchan, ~stopped, chanClosed>>
  BY <1>7 DEF RunInformer
<1>8. ASSUME NEW s \in Source,
             InformerExits(s) \/ Report(s) \/ ProcessUpdateDrops(s) \/ WriteStep(s)
      PROVE  UNCHANGED <<outchan, ~stopped, chanClosed>>
  BY <1>8 DEF InformerExits, Report, ProcessUpdateDrops, WriteStep, WriteDropped,
              WriteLocked
<1>9. CASE CallStop \/ StopPulls \/ StopStep
  BY <1>9 DEF CallStop, StopPulls, StopStep, StopTicker, StopCloses, StopReturns,
              StopUnwantedPulled
<1>10. CASE UNCHANGED vars
  BY <1>10 DEF vars
<1> QED
  BY <1>1, <1>2, <1>3, <1>4, <1>5, <1>6, <1>7, <1>8, <1>9, <1>10 DEF Next

(* The watcher implements the ingress channel of module IngressChannel: the *)
(* buffer never exceeds its capacity and nothing is written after Stop()    *)
(* has set `stopped`, for any number of informers and interleaving.         *)
THEOREM WatcherImplementsIngressChannel == Spec => ImplementsIngressChannel
<1>1. Init => Port!Init
  BY DEF Init, Port!Init
<1> QED
  BY <1>1, Inductive, IngressStep, PTL DEF Spec, ImplementsIngressChannel, Port!Spec

=============================================================================
