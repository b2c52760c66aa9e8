--------------------------- MODULE Server_proofs ---------------------------
(***************************************************************************)
(* Proofs about Server, the shutdown sequence of RealMain, and about        *)
(* StoreManager, which Server composes.                                     *)
(***************************************************************************)
EXTENDS Server, SequenceTheorems, TLAPS

-----------------------------------------------------------------------------
(* The store manager, in every behaviour of its own specification.  SM is   *)
(* StoreManager as it stands, its variables and constants unchanged.        *)

(* Types and the WaitGroup's count are right in a new store manager.        *)
LEMMA ManagerInit == SM!Init => SM!TypeOK /\ SM!WaitGroupInv
<1> SUFFICES ASSUME SM!Init PROVE SM!TypeOK /\ SM!WaitGroupInv
  OBVIOUS
<1> USE ServerAssumption DEF SM!Init, SM!Loops, SM!UsesDb
<1>1. loop \in [SM!Loops -> {"none", "forked", "check", "sleep", "exited"} \cup SM!UsesDb]
  OBVIOUS
<1>2. cancel \in [tokens : Nat, closed : BOOLEAN] /\ done \in BOOLEAN
  OBVIOUS
<1>3. SM!TypeOK
  BY <1>1, <1>2 DEF SM!TypeOK
<1>4. wg = SM!CountOf("gcLoop") + SM!CountOf("vlogGcLoop")
  BY DEF SM!CountOf, SM!Counted
<1>5. done <=> (shutdown \in {"cancel", "closeCancel", "wait", "down"})
  OBVIOUS
<1> QED
  BY <1>3, <1>4, <1>5 DEF SM!WaitGroupInv

(* Each of its steps keeps both.                                            *)
LEMMA ManagerKeepsInv ==
    SM!TypeOK /\ SM!WaitGroupInv /\ [SM!Next]_smVars => SM!TypeOK' /\ SM!WaitGroupInv'
<1> SUFFICES ASSUME SM!TypeOK, SM!WaitGroupInv, [SM!Next]_smVars
             PROVE  SM!TypeOK' /\ SM!WaitGroupInv'
  OBVIOUS
<1> USE ServerAssumption
    DEF SM!TypeOK, SM!WaitGroupInv, SM!Counted, SM!CountOf, SM!Loops, SM!UsesDb
<1>1. CASE SM!Start
  BY <1>1 DEF SM!Start
<1>2. CASE SM!ShutdownSetsDone
  BY <1>2 DEF SM!ShutdownSetsDone
<1>3. CASE SM!CancelSends
  BY <1>3 DEF SM!CancelSends
<1>4. CASE SM!CancelCloses \/ SM!Wait
  <2>1. CASE SM!CancelCloses
    BY <2>1 DEF SM!CancelCloses
  <2>2. CASE SM!Wait
    BY <2>2 DEF SM!Wait
  <2> QED
    BY <1>4, <2>1, <2>2
<1>5. ASSUME NEW l \in SM!Loops, SM!Enter(l) PROVE SM!TypeOK' /\ SM!WaitGroupInv'
  BY <1>5 DEF SM!Enter
<1>6. ASSUME NEW l \in SM!Loops, SM!Exit(l) PROVE SM!TypeOK' /\ SM!WaitGroupInv'
  BY <1>6 DEF SM!Exit, SM!IsDone
<1>7. ASSUME NEW l \in SM!Loops, SM!Continue(l) \/ SM!RefreshStats(l)
      PROVE  SM!TypeOK' /\ SM!WaitGroupInv'
  BY <1>7 DEF SM!Continue, SM!IsDone, SM!RefreshStats
<1>8. ASSUME NEW l \in SM!Loops, SM!WokenByCancel(l) \/ SM!WokenByTimer(l)
      PROVE  SM!TypeOK' /\ SM!WaitGroupInv'
  BY <1>8 DEF SM!WokenByCancel, SM!WokenByTimer
<1>9. CASE SM!DoCleanup \/ SM!GcStatsAfter
  BY <1>9 DEF SM!DoCleanup, SM!GcStatsAfter
<1>10. CASE SM!RunValueLogGC \/ SM!VlogStatsAfter \/ SM!RunValueLogGCFails
  BY <1>10 DEF SM!RunValueLogGC, SM!VlogStatsAfter, SM!RunValueLogGCFails
<1>11. CASE UNCHANGED smVars
  BY <1>11 DEF smVars
<1> QED
  BY <1>1, <1>2, <1>3, <1>4, <1>5, <1>6, <1>7, <1>8, <1>9, <1>10, <1>11
  DEF SM!Next, SM!ShutdownStep, SM!LoopStep, SM!GcStep

(* Types, and the agreement of the WaitGroup with the goroutines.           *)
THEOREM StoreManagerInvariant == SM!Spec => [](SM!TypeOK /\ SM!WaitGroupInv)
<1>1. smVars = SM!vars
  BY DEF smVars, SM!vars
<1>2. SM!TypeOK /\ SM!WaitGroupInv /\ [SM!Next]_SM!vars => SM!TypeOK' /\ SM!WaitGroupInv'
  BY <1>1, ManagerKeepsInv DEF smVars, SM!vars
<1> QED
  BY <1>2, ManagerInit, PTL DEF SM!Spec

(* When Shutdown() has returned the store can be closed: no goroutine of    *)
(* the store manager uses the database, then or later.                      *)
THEOREM StoreManagerIsQuiet == SM!Spec => []SM!NoDbUseAfterShutdown
<1>1. SM!TypeOK /\ SM!WaitGroupInv => SM!NoDbUseAfterShutdown
  BY DEF SM!WaitGroupInv, SM!NoDbUseAfterShutdown, SM!UsesDb
<1> QED
  BY StoreManagerInvariant, <1>1, PTL

(* The goroutines of the store manager, its WaitGroup and its timers keep   *)
(* to their ranges.                                                         *)
THEOREM StoreManagerTypes == SM!Spec => []SM!TypeOK
<1>1. SM!TypeOK /\ SM!WaitGroupInv => SM!TypeOK
  OBVIOUS
<1> QED
  BY <1>1, StoreManagerInvariant, PTL

-----------------------------------------------------------------------------
(* Whatever the server does, its store manager takes one of its own steps   *)
(* or none.                                                                 *)
LEMMA StepIsManagerStep == [Next]_vars => [SM!Next]_smVars
<1> SUFFICES ASSUME [Next]_vars PROVE [SM!Next]_smVars
  OBVIOUS
<1>1. CASE StartStoreManager
  BY <1>1 DEF StartStoreManager, SM!Next
<1>2. CASE ShutdownStoreManager
  BY <1>2 DEF ShutdownStoreManager, SM!Next
<1>3. ASSUME NEW dropped \in SUBSET Record, GcDeletes(dropped) PROVE [SM!Next]_smVars
  BY <1>3 DEF GcDeletes, SM!Next, SM!GcStep
<1>4. CASE ManagerStep
  BY <1>4 DEF ManagerStep, SM!Next, SM!GcStep
<1>5. CASE UNCHANGED smVars
  BY <1>5
<1>6. ASSUME Next, ~StartStoreManager, ~ShutdownStoreManager, ~ManagerStep,
             \A dropped \in SUBSET Record : ~GcDeletes(dropped)
      PROVE  UNCHANGED smVars
  BY <1>6
  DEF Next, MainStep, ProcessorStep, RecorderStep, OpenStore, OpenStoreFails,
      StartProcessor, StartUpFails, StartWatcher, PlayRecord, PlayFileReturns,
      StartRecorder, ListenFails, WebServerTimesOut, StopWatcher, CloseChan,
      WaitForProcessor, CloseRecorder, CloseStore, OsExit, WebServerReturns,
      WatcherWrites, ProcessorReceives, ProcessorTxn, ProcessorEnds, RecorderReceives,
      RecorderEnds, RequestBegins, RequestEnds
<1>7. UNCHANGED vars => UNCHANGED smVars
  BY DEF vars
<1> QED
  BY <1>1, <1>2, <1>3, <1>4, <1>5, <1>6, <1>7

(* The server implements the store manager: what is proved above of the     *)
(* manager alone holds of it inside RealMain.                               *)
THEOREM ServerImplementsStoreManager == Spec => SM!Spec
<1>1. Init => SM!Init
  BY DEF Init
<1>2. [Next]_vars => [SM!Next]_smVars
  BY StepIsManagerStep
<1>3. smVars = SM!vars
  BY DEF smVars, SM!vars
<1> QED
  BY <1>1, <1>2, <1>3, PTL DEF Spec, SM!Spec, smVars, SM!vars

-----------------------------------------------------------------------------
(* Sending puts one more record into the channel, behind distinct others if *)
(* it was not among them.                                                   *)
LEMMA SendQueues ==
    ASSUME NEW S, NEW q \in Seq(S), NEW r \in S
    PROVE  LET t == Append(q, r) IN
           /\ t \in Seq(S)
           /\ {t[i] : i \in DOMAIN t} = {q[i] : i \in DOMAIN q} \cup {r}
           /\ (\A i, j \in DOMAIN q : q[i] = q[j] => i = j)
                /\ r \notin {q[i] : i \in DOMAIN q}
              => \A i, j \in DOMAIN t : t[i] = t[j] => i = j
<1> DEFINE t == Append(q, r)
<1>1. /\ t \in Seq(S) /\ Len(t) = Len(q) + 1 /\ t[Len(q) + 1] = r
      /\ \A i \in 1 .. Len(q) : t[i] = q[i]
  BY AppendProperties
<1>2. DOMAIN q = 1 .. Len(q) /\ DOMAIN t = 1 .. Len(q) + 1 /\ Len(q) \in Nat
  BY <1>1
<1>3. \A i \in DOMAIN t : i \in DOMAIN q \/ i = Len(q) + 1
  BY <1>2
<1> HIDE DEF t
<1>4. {t[i] : i \in DOMAIN t} = {q[i] : i \in DOMAIN q} \cup {r}
  <2>1. ASSUME NEW i \in DOMAIN t PROVE t[i] \in {q[k] : k \in DOMAIN q} \cup {r}
    BY <1>1, <1>2, <1>3
  <2>2. ASSUME NEW i \in DOMAIN q PROVE q[i] \in {t[k] : k \in DOMAIN t}
    BY <1>1, <1>2
  <2>3. r \in {t[k] : k \in DOMAIN t}
    BY <1>1, <1>2
  <2> QED
    BY <2>1, <2>2, <2>3
<1>5. ASSUME \A i, j \in DOMAIN q : q[i] = q[j] => i = j,
             r \notin {q[i] : i \in DOMAIN q},
             NEW i \in DOMAIN t, NEW j \in DOMAIN t, t[i] = t[j]
      PROVE  i = j
  BY <1>1, <1>2, <1>3, <1>5
<1> QED
  BY <1>1, <1>4, <1>5 DEF t

(* Receiving takes the first record, and no copy of it stays behind.        *)
LEMMA ReceiveTakes ==
    ASSUME NEW S, NEW q \in Seq(S), q # <<>>,
           \A i, j \in DOMAIN q : q[i] = q[j] => i = j
    PROVE  LET t == Tail(q) IN
           /\ t \in Seq(S) /\ Head(q) \in S
           /\ {q[i] : i \in DOMAIN q} = {t[i] : i \in DOMAIN t} \cup {Head(q)}
           /\ Head(q) \notin {t[i] : i \in DOMAIN t}
           /\ \A i, j \in DOMAIN t : t[i] = t[j] => i = j
<1> DEFINE t == Tail(q)
<1>1. /\ t \in Seq(S) /\ Len(q) \in Nat /\ Len(q) > 0 /\ Len(t) = Len(q) - 1
      /\ Head(q) = q[1] /\ Head(q) \in S
      /\ \A i \in 1 .. Len(t) : t[i] = q[i + 1]
  BY HeadTailProperties, EmptySeq
<1>2. DOMAIN q = 1 .. Len(q) /\ DOMAIN t = 1 .. Len(q) - 1
  BY <1>1
<1> HIDE DEF t
<1>3. \A i \in DOMAIN t : i + 1 \in DOMAIN q /\ t[i] = q[i + 1] /\ i \in Nat
  BY <1>1, <1>2
<1>4. \A i \in DOMAIN q : i = 1 \/ (i - 1 \in DOMAIN t /\ q[i] = t[i - 1])
  BY <1>1, <1>2
<1>5. {q[i] : i \in DOMAIN q} = {t[i] : i \in DOMAIN t} \cup {Head(q)}
  <2>1. ASSUME NEW i \in DOMAIN q PROVE q[i] \in {t[k] : k \in DOMAIN t} \cup {Head(q)}
    BY <1>1, <1>4
  <2>2. ASSUME NEW i \in DOMAIN t PROVE t[i] \in {q[k] : k \in DOMAIN q}
    BY <1>3
  <2>3. Head(q) \in {q[k] : k \in DOMAIN q}
    BY <1>1, <1>2
  <2> QED
    BY <2>1, <2>2, <2>3
<1>6. Head(q) \notin {t[i] : i \in DOMAIN t}
  BY <1>1, <1>2, <1>3
<1>7. ASSUME NEW i \in DOMAIN t, NEW j \in DOMAIN t, t[i] = t[j] PROVE i = j
  <2>1. i + 1 = j + 1
    BY <1>3, <1>7
  <2> QED
    BY <2>1, <1>3
<1> QED
  BY <1>1, <1>5, <1>6, <1>7 DEF t

-----------------------------------------------------------------------------
(* The invariant holds before RealMain has done anything.                   *)
LEMMA InitInv == Init => IndInv
<1> SUFFICES ASSUME Init PROVE IndInv
  OBVIOUS
<1>1. SM!TypeOK /\ SM!WaitGroupInv
  <2> USE ServerAssumption DEF Init, SM!Init, SM!Loops, SM!UsesDb
  <2>1. loop \in [SM!Loops -> {"none", "forked", "check", "sleep", "exited"} \cup SM!UsesDb]
    OBVIOUS
  <2>2. cancel \in [tokens : Nat, closed : BOOLEAN] /\ done \in BOOLEAN
    OBVIOUS
  <2>3. SM!TypeOK
    BY <2>1, <2>2 DEF SM!TypeOK
  <2>4. wg = SM!CountOf("gcLoop") + SM!CountOf("vlogGcLoop")
    BY DEF SM!CountOf, SM!Counted
  <2>5. done <=> (shutdown \in {"cancel", "closeCancel", "wait", "down"})
    OBVIOUS
  <2> QED
    BY <2>3, <2>4, <2>5 DEF SM!WaitGroupInv
<1>2. MainType
  BY DEF Init, Port!Init, MainType
<1>3. RecordType
  BY EmptySeq DEF Init, Port!Init, RecordType, Idle, Txns
<1>4. OrderInv /\ DrainInv
  BY DEF Init, Port!Init, OrderInv, DrainInv, AfterClose, AfterProc, AfterServe, AfterDb,
         Idle
<1>5. ManagerInv
  BY <1>1 DEF Init, SM!Init, ManagerInv, AfterDb
<1>6. PlacesInv /\ RecorderInv
  BY DEF Init, Port!Init, Idle, PlacesInv, RecorderInv, Queued, InHand
<1> QED
  BY <1>1, <1>2, <1>3, <1>4, <1>5, <1>6 DEF IndInv, TypeOK

(* Only these steps move records: the two senders, the two receivers, and   *)
(* the end of a record's last transaction.                                  *)
LEMMA WhoMovesRecords ==
    ASSUME [Next]_vars
    PROVE  \/ \E r \in Played : PlayRecord(r)
           \/ \E r \in Watched : WatcherWrites(r)
           \/ ProcessorReceives \/ RecorderReceives
           \/ \E ok \in BOOLEAN : ProcessorTxn(ok)
           \/ /\ UNCHANGED <<outchan, sent, toPlay, handled, recorded>>
              /\ StartProcessor \/ ProcessorEnds \/ UNCHANGED proc
  BY DEF Next, MainStep, ProcessorStep, RecorderStep, OpenStore, OpenStoreFails,
         StartProcessor, StartUpFails, StartWatcher, PlayFileReturns, StartRecorder,
         StartStoreManager, WebServerReturns, ListenFails, WebServerTimesOut, StopWatcher,
         CloseChan, WaitForProcessor, CloseRecorder, ShutdownStoreManager, CloseStore,
         OsExit, ProcessorEnds, RecorderEnds, RequestBegins, RequestEnds, GcDeletes,
         ManagerStep, vars, chanVars, procVars, recVars, Port!Stop

(* RealMain and its peers outside the record path: what the steps of the    *)
(* processor, the recorder, the watcher and the store manager leave alone.  *)
LEMMA WhoMovesMain ==
    ASSUME [Next]_vars
    PROVE  \/ MainStep \/ WebServerReturns \/ ListenFails
           \/ /\ UNCHANGED <<conf, main, failed, dbOpen, open, closed>>
              /\ RequestBegins \/ RequestEnds \/ UNCHANGED query
  BY DEF Next, ProcessorStep, RecorderStep, WatcherWrites, ProcessorReceives,
         ProcessorTxn, ProcessorEnds, RecorderReceives, RecorderEnds, RequestBegins,
         RequestEnds, GcDeletes, ManagerStep, vars, chanVars, procVars, recVars

(* The types are kept along the path of the records ...                     *)
LEMMA RecordTypeStep == TypeOK /\ [Next]_vars => RecordType'
<1> SUFFICES ASSUME TypeOK, [Next]_vars PROVE RecordType'
  OBVIOUS
<1>0. store' \subseteq Record
  BY DEF TypeOK, RecordType, Next, MainStep, ProcessorStep, RecorderStep, OpenStore,
         OpenStoreFails, StartProcessor, StartUpFails, StartWatcher, PlayRecord,
         PlayFileReturns, StartRecorder, StartStoreManager, WebServerReturns,
         ListenFails, WebServerTimesOut, StopWatcher, CloseChan, WaitForProcessor,
         CloseRecorder, ShutdownStoreManager, CloseStore, OsExit, WatcherWrites,
         ProcessorReceives, ProcessorTxn, ProcessorEnds, RecorderReceives, RecorderEnds,
         RequestBegins, RequestEnds, GcDeletes, ManagerStep, vars
<1> USE <1>0 DEF TypeOK, RecordType, Record, Txns, chanVars, procVars, recVars
<1>1. ASSUME NEW r \in Played, PlayRecord(r) PROVE RecordType'
  BY <1>1, AppendProperties DEF PlayRecord
<1>2. ASSUME NEW r \in Watched, WatcherWrites(r) PROVE RecordType'
  BY <1>2, AppendProperties DEF WatcherWrites
<1>3. CASE ProcessorReceives
  BY <1>3, HeadTailProperties DEF ProcessorReceives
<1>4. CASE RecorderReceives
  BY <1>4, HeadTailProperties DEF RecorderReceives
<1>5. ASSUME NEW ok \in BOOLEAN, ProcessorTxn(ok) PROVE RecordType'
  BY <1>5 DEF ProcessorTxn, Idle
<1>6. CASE /\ UNCHANGED <<outchan, sent, toPlay, handled, recorded>>
           /\ StartProcessor \/ ProcessorEnds \/ UNCHANGED proc
  BY <1>6 DEF StartProcessor, ProcessorEnds
<1> QED
  BY WhoMovesRecords, <1>1, <1>2, <1>3, <1>4, <1>5, <1>6

(* ... and everywhere else.                                                 *)
LEMMA MainTypeStep == TypeOK /\ [Next]_vars => MainType'
<1> SUFFICES ASSUME TypeOK, [Next]_vars PROVE MainType'
  OBVIOUS
<1>1. CASE MainStep \/ WebServerReturns \/ ListenFails
  <2> USE <1>1
      DEF TypeOK, MainType, MainStep, OpenStore, OpenStoreFails, StartProcessor,
          StartUpFails, StartWatcher, PlayRecord, PlayFileReturns, StartRecorder,
          StartStoreManager, WebServerReturns, ListenFails, WebServerTimesOut,
          StopWatcher, CloseChan, WaitForProcessor, CloseRecorder, ShutdownStoreManager,
          CloseStore, OsExit, Goto, Fail, chanVars, recVars, Port!Stop
  <2>1. conf' = conf
    OBVIOUS
  <2>2. main' \in {"open", "restore", "watch", "play", "record", "manage", "serve", "stop",
                  "close", "waitProc", "closeRec", "shutdown", "closeDb", "return", "exit"}
    OBVIOUS
  <2>3. failed' \in BOOLEAN /\ dbOpen' \in BOOLEAN /\ query' \in BOOLEAN
    OBVIOUS
  <2>4. open' \in BOOLEAN /\ closed' \in BOOLEAN
    OBVIOUS
  <2>5. recorder' \in {"off", "recv", "done"}
    OBVIOUS
  <2> QED
    BY <2>1, <2>2, <2>3, <2>4, <2>5
<1>2. CASE /\ UNCHANGED <<conf, main, failed, dbOpen, open, closed>>
           /\ RequestBegins \/ RequestEnds \/ UNCHANGED query
  <2>1. recorder' \in {"off", "recv", "done"}
    BY <1>2
    DEF TypeOK, MainType, Next, MainStep, ProcessorStep, RecorderStep, OpenStore,
        OpenStoreFails, StartProcessor, StartUpFails, StartWatcher, PlayRecord,
        PlayFileReturns, StartRecorder, StartStoreManager, WebServerReturns,
        ListenFails, WebServerTimesOut, StopWatcher, CloseChan, WaitForProcessor,
        CloseRecorder, ShutdownStoreManager, CloseStore, OsExit, WatcherWrites,
        ProcessorReceives, ProcessorTxn, ProcessorEnds, RecorderReceives, RecorderEnds,
        RequestBegins, RequestEnds, GcDeletes, ManagerStep, vars, recVars
  <2>2. query' \in BOOLEAN
    BY <1>2 DEF TypeOK, MainType, RequestBegins, RequestEnds
  <2> QED
    BY <1>2, <2>1, <2>2 DEF TypeOK, MainType
<1> QED
  BY WhoMovesMain, <1>1, <1>2

-----------------------------------------------------------------------------
(* The order of the shutdown bounds what the other goroutines do.           *)
LEMMA OrderStep == IndInv /\ [Next]_vars => OrderInv'
<1> SUFFICES ASSUME IndInv, [Next]_vars PROVE OrderInv'
  OBVIOUS
<1> USE DEF IndInv, OrderInv, AfterDb, AfterProc, AfterClose, AfterServe
<1>1. CASE MainStep \/ WebServerReturns \/ ListenFails
  <2> USE <1>1 DEF TypeOK, MainType, Goto, Fail, chanVars, procVars, Port!Stop
  <2>1. CASE OpenStore \/ OpenStoreFails \/ StartUpFails \/ StartWatcher
             \/ PlayFileReturns \/ StartRecorder \/ StartStoreManager
    BY <2>1 DEF OpenStore, OpenStoreFails, StartUpFails, StartWatcher, PlayFileReturns,
                StartRecorder, StartStoreManager
  <2>2. CASE StartProcessor
    BY <2>2 DEF StartProcessor
  <2>3. ASSUME NEW r \in Played, PlayRecord(r) PROVE OrderInv'
    BY <2>3 DEF PlayRecord
  <2>4. CASE WebServerReturns \/ ListenFails \/ WebServerTimesOut
    BY <2>4 DEF WebServerReturns, ListenFails, WebServerTimesOut
  <2>5. CASE StopWatcher
    BY <2>5 DEF StopWatcher
  <2>6. CASE CloseChan
    BY <2>6 DEF CloseChan
  <2>7. CASE WaitForProcessor
    BY <2>7 DEF WaitForProcessor, ProcessorIdle
  <2>8. CASE CloseRecorder
    BY <2>8 DEF CloseRecorder
  <2>9. CASE ShutdownStoreManager
    BY <2>9 DEF ShutdownStoreManager
  <2>10. CASE CloseStore \/ OsExit
    BY <2>10 DEF CloseStore, OsExit
  <2> QED
    BY <2>1, <2>2, <2>3, <2>4, <2>5, <2>6, <2>7, <2>8, <2>9, <2>10 DEF MainStep
<1>2. CASE /\ UNCHANGED <<conf, main, failed, dbOpen, open, closed>>
           /\ RequestBegins \/ RequestEnds \/ UNCHANGED query
  <2>1. proc.pc \in {"off", "done"} => proc'.pc = proc.pc
    BY <1>2, WhoMovesRecords
    DEF PlayRecord, WatcherWrites, ProcessorReceives, RecorderReceives, ProcessorTxn,
        StartProcessor, ProcessorEnds, Goto, procVars
  <2> QED
    BY <1>2, <2>1 DEF RequestBegins, RequestEnds
<1> QED
  BY WhoMovesMain, <1>1, <1>2

(* A processor that has left the loop left an empty, closed channel behind. *)
LEMMA DrainStep == IndInv /\ [Next]_vars => DrainInv'
<1> SUFFICES ASSUME IndInv, [Next]_vars, proc'.pc = "done" PROVE closed' /\ outchan' = <<>>
  BY DEF DrainInv
<1>1. closed => closed'
  BY WhoMovesMain
  DEF MainStep, OpenStore, OpenStoreFails, StartProcessor, StartUpFails, StartWatcher,
      PlayRecord, PlayFileReturns, StartRecorder, StartStoreManager, WebServerReturns,
      ListenFails, WebServerTimesOut, StopWatcher, CloseChan, WaitForProcessor,
      CloseRecorder, ShutdownStoreManager, CloseStore, OsExit, chanVars, Port!Stop
<1>2. CASE ProcessorEnds
  BY <1>1, <1>2 DEF ProcessorEnds, Drained, chanVars
<1>3. CASE proc.pc = "done"
  <2>1. closed /\ outchan = <<>> /\ main \in AfterClose /\ (conf.watch => ~open)
    BY <1>3 DEF IndInv, DrainInv, OrderInv
  <2>2. outchan' = outchan
    BY <1>3, <2>1, WhoMovesRecords
    DEF PlayRecord, WatcherWrites, Watching, ProcessorReceives, RecorderReceives,
        ProcessorTxn, chanVars, AfterClose, AfterProc, AfterDb
  <2> QED
    BY <1>1, <2>1, <2>2
<1> QED
  BY <1>2, <1>3, WhoMovesRecords
  DEF PlayRecord, WatcherWrites, ProcessorReceives, RecorderReceives, ProcessorTxn,
      StartProcessor, procVars, Idle, IndInv, TypeOK, RecordType

(* The store manager is started and shut down where RealMain says.          *)
LEMMA ManagerStepInv == IndInv /\ [Next]_vars => ManagerInv'
<1> SUFFICES ASSUME IndInv, [Next]_vars PROVE ManagerInv'
  OBVIOUS
<1>1. SM!TypeOK' /\ SM!WaitGroupInv'
  BY StepIsManagerStep, ManagerKeepsInv DEF IndInv, ManagerInv
<1> USE <1>1 DEF IndInv, ManagerInv, OrderInv, AfterDb
<1>2. CASE StartStoreManager
  BY <1>2 DEF StartStoreManager, SM!Start, Goto, smVars
<1>3. CASE ShutdownStoreManager
  BY <1>3 DEF ShutdownStoreManager, SM!ShutdownSetsDone, SM!ShutdownStep, SM!CancelSends,
              SM!CancelCloses, SM!Wait, Goto
<1>4. ASSUME ~StartStoreManager, ~ShutdownStoreManager PROVE ManagerInv'
  <2>1. shutdown' = shutdown
    BY <1>4
    DEF Next, MainStep, ProcessorStep, RecorderStep, OpenStore, OpenStoreFails,
        StartProcessor, StartUpFails, StartWatcher, PlayRecord, PlayFileReturns,
        StartRecorder, ListenFails, WebServerTimesOut, StopWatcher, CloseChan,
        WaitForProcessor, CloseRecorder, CloseStore, OsExit, WebServerReturns,
        WatcherWrites, ProcessorReceives, ProcessorTxn, ProcessorEnds, RecorderReceives,
        RecorderEnds, RequestBegins, RequestEnds, GcDeletes, ManagerStep, SM!LoopStep,
        SM!Enter, SM!Exit, SM!Continue, SM!RefreshStats, SM!WokenByCancel,
        SM!WokenByTimer, SM!DoCleanup, SM!GcStatsAfter, SM!RunValueLogGC,
        SM!VlogStatsAfter, SM!RunValueLogGCFails, vars, smVars
  <2>2. CASE MainStep \/ WebServerReturns \/ ListenFails
    BY <1>4, <2>1, <2>2
    DEF MainStep, OpenStore, OpenStoreFails, StartProcessor, StartUpFails, StartWatcher,
        PlayRecord, PlayFileReturns, StartRecorder, WebServerReturns, ListenFails,
        WebServerTimesOut, StopWatcher, CloseChan, WaitForProcessor, CloseRecorder,
        CloseStore, OsExit, Goto, Fail
  <2> QED
    BY <2>1, <2>2, WhoMovesMain
<1> QED
  BY <1>2, <1>3, <1>4

(* No step loses, duplicates or invents a record.                           *)
LEMMA PlacesStep == IndInv /\ [Next]_vars => PlacesInv'
<1> SUFFICES ASSUME IndInv, [Next]_vars PROVE PlacesInv'
  OBVIOUS
<1> USE DEF IndInv, TypeOK, RecordType
<1>1. ASSUME NEW r \in Played, PlayRecord(r) PROVE PlacesInv'
  <2>1. r \in Record /\ r \notin sent
    BY <1>1 DEF PlayRecord, PlacesInv, Record
  <2>2. /\ Queued' = Queued \cup {r}
        /\ r \notin Queued => \A i, j \in DOMAIN outchan' : outchan'[i] = outchan'[j] => i = j
    BY <1>1, <2>1, SendQueues DEF PlayRecord, Queued, PlacesInv
  <2>3. InHand' = InHand /\ UNCHANGED <<handled, recorded>>
    BY <1>1 DEF PlayRecord, InHand, procVars, recVars
  <2> QED
    BY <1>1, <2>1, <2>2, <2>3 DEF PlayRecord, PlacesInv
<1>2. ASSUME NEW r \in Watched, WatcherWrites(r) PROVE PlacesInv'
  <2>1. r \in Record /\ r \notin sent /\ r \notin toPlay
    BY <1>2, ServerAssumption DEF WatcherWrites, Record
  <2>2. /\ Queued' = Queued \cup {r}
        /\ r \notin Queued => \A i, j \in DOMAIN outchan' : outchan'[i] = outchan'[j] => i = j
    BY <1>2, <2>1, SendQueues DEF WatcherWrites, Queued, PlacesInv
  <2>3. InHand' = InHand /\ UNCHANGED <<handled, recorded>>
    BY <1>2 DEF WatcherWrites, InHand, procVars, recVars
  <2> QED
    BY <1>2, <2>1, <2>2, <2>3 DEF WatcherWrites, PlacesInv
<1>3. CASE ProcessorReceives \/ RecorderReceives
  <2>1. outchan # <<>> /\ outchan' = Tail(outchan)
    BY <1>3 DEF ProcessorReceives, RecorderReceives
  <2>2. /\ Queued = Queued' \cup {Head(outchan)} /\ Head(outchan) \notin Queued'
        /\ \A i, j \in DOMAIN outchan' : outchan'[i] = outchan'[j] => i = j
    <3>1. /\ outchan \in Seq(Record)
          /\ \A i, j \in DOMAIN outchan : outchan[i] = outchan[j] => i = j
      BY DEF PlacesInv
    <3>2. /\ {outchan[i] : i \in DOMAIN outchan}
               = {Tail(outchan)[i] : i \in DOMAIN Tail(outchan)} \cup {Head(outchan)}
          /\ Head(outchan) \notin {Tail(outchan)[i] : i \in DOMAIN Tail(outchan)}
          /\ \A i, j \in DOMAIN Tail(outchan) :
                Tail(outchan)[i] = Tail(outchan)[j] => i = j
      <4> HIDE DEF IndInv, TypeOK, RecordType
      <4> QED
        BY <2>1, <3>1, ReceiveTakes
    <3> QED
      BY <2>1, <3>2 DEF Queued
  <2>3. CASE ProcessorReceives
    <3>1. InHand = {} /\ InHand' = {Head(outchan)}
      BY <2>3 DEF ProcessorReceives, InHand
    <3> QED
      BY <2>2, <2>3, <3>1 DEF ProcessorReceives, PlacesInv, recVars
  <2>4. CASE RecorderReceives
    <3>1. InHand' = InHand
      BY <2>4 DEF RecorderReceives, InHand, procVars
    <3> QED
      BY <2>2, <2>4, <3>1 DEF RecorderReceives, PlacesInv, procVars
  <2> QED
    BY <1>3, <2>3, <2>4
<1>4. ASSUME NEW ok \in BOOLEAN, ProcessorTxn(ok) PROVE PlacesInv'
  <2>1. UNCHANGED <<Queued, outchan, sent, toPlay, recorded>>
    BY <1>4 DEF ProcessorTxn, Queued, chanVars, recVars
  <2>2. \/ InHand' = InHand /\ handled' = handled
        \/ InHand' = {} /\ handled' = handled \cup InHand
    BY <1>4 DEF ProcessorTxn, InHand, Idle
  <2> QED
    BY <2>1, <2>2 DEF PlacesInv
<1>5. CASE /\ UNCHANGED <<outchan, sent, toPlay, handled, recorded>>
           /\ StartProcessor \/ ProcessorEnds \/ UNCHANGED proc
  <2>1. InHand' = InHand
    BY <1>5 DEF StartProcessor, ProcessorEnds, InHand, OrderInv
  <2>2. Queued' = Queued
    BY <1>5 DEF Queued
  <2> QED
    BY <1>5, <2>1, <2>2 DEF PlacesInv
<1> QED
  BY WhoMovesRecords, <1>1, <1>2, <1>3, <1>4, <1>5

(* Only StartRecorder starts the recorder, if there is to be one.           *)
LEMMA RecorderStepInv == IndInv /\ [Next]_vars => RecorderInv'
  BY DEF IndInv, RecorderInv, Next, MainStep, ProcessorStep, RecorderStep, OpenStore,
         OpenStoreFails, StartProcessor, StartUpFails, StartWatcher, PlayRecord,
         PlayFileReturns, StartRecorder, StartStoreManager, WebServerReturns, ListenFails,
         WebServerTimesOut, StopWatcher, CloseChan, WaitForProcessor, CloseRecorder,
         ShutdownStoreManager, CloseStore, OsExit, WatcherWrites, ProcessorReceives,
         ProcessorTxn, ProcessorEnds, RecorderReceives, RecorderEnds, RequestBegins,
         RequestEnds, GcDeletes, ManagerStep, vars, recVars

(* Every step of the program keeps the whole invariant.                     *)
LEMMA StepInv == IndInv /\ [Next]_vars => IndInv'
<1> SUFFICES ASSUME IndInv, [Next]_vars PROVE IndInv'
  OBVIOUS
<1>1. TypeOK'
  BY RecordTypeStep, MainTypeStep, StepIsManagerStep, ManagerKeepsInv
  DEF IndInv, ManagerInv, TypeOK
<1> QED
  BY <1>1, OrderStep, DrainStep, ManagerStepInv, PlacesStep, RecorderStepInv
  DEF IndInv

-----------------------------------------------------------------------------
(* The inductive invariant of the server, and with it the types.            *)
THEOREM ServerInvariant == Spec => []IndInv
  BY InitInv, StepInv, PTL DEF Spec

(* Every variable keeps its type: nothing but records in the channel, in    *)
(* the processor's hand, in the store and in the recorder's file.           *)
THEOREM ServerTypes == Spec => []TypeOK
<1>1. IndInv => TypeOK
  BY DEF IndInv
<1> QED
  BY <1>1, ServerInvariant, PTL

(* When RealMain has closed the store on its orderly path, neither the      *)
(* processor, nor a web request, nor a loop of the store manager is using   *)
(* it, whatever the configuration.                                          *)
THEOREM StoreIsClosedIdle == Spec => []NoStoreUseAfterClose
<1>1. IndInv => NoStoreUseAfterClose
  <2> SUFFICES ASSUME IndInv, main \in {"return", "exit"}, ~failed
               PROVE  /\ proc.pc # "txn"
                      /\ ~query
                      /\ \A l \in SM!Loops : loop[l] \notin SM!UsesDb
    BY DEF NoStoreUseAfterClose
  <2>1. proc.pc = "done" /\ ~query
    BY DEF IndInv, OrderInv, AfterProc, AfterServe, AfterClose, AfterDb
  <2>2. shutdown \in {"new", "down"}
    BY DEF IndInv, ManagerInv, AfterDb
  <2>3. \A l \in SM!Loops : loop[l] \notin SM!UsesDb
    BY <2>2 DEF IndInv, ManagerInv, SM!WaitGroupInv, SM!UsesDb
  <2> QED
    BY <2>1, <2>3
<1> QED
  BY <1>1, ServerInvariant, PTL

(* When RealMain exits in order and there was no recorder, every record the *)
(* channel ever accepted has been processed: draining a closed channel      *)
(* loses nothing, for any capacity and any number of records.               *)
THEOREM ChannelIsDrained == Spec => []AcceptedIsProcessed
<1>1. IndInv => AcceptedIsProcessed
  <2> SUFFICES ASSUME IndInv, main = "exit", ~failed, ~conf.record PROVE sent = handled
    BY DEF AcceptedIsProcessed
  <2>1. proc.pc = "done" /\ outchan = <<>>
    BY DEF IndInv, OrderInv, DrainInv, AfterProc, AfterDb
  <2>2. Queued = {} /\ InHand = {}
    BY <2>1 DEF Queued, InHand
  <2>3. recorded = {}
    BY DEF IndInv, RecorderInv
  <2> QED
    BY <2>2, <2>3 DEF IndInv, PlacesInv
<1> QED
  BY <1>1, ServerInvariant, PTL

-----------------------------------------------------------------------------
(* Every step of the server is a step of the ingress channel or leaves it   *)
(* alone.                                                                   *)
LEMMA ChannelStep ==
    IndInv /\ [Next]_vars => [Channel!Next]_<<outchan, Accepting, closed>>
<1> SUFFICES ASSUME IndInv, [Next]_vars PROVE [Channel!Next]_<<outchan, Accepting, closed>>
  OBVIOUS
<1> USE DEF IndInv, OrderInv, Accepting, Goto, Fail, AfterServe, AfterClose, AfterProc,
            AfterDb
<1>1. ASSUME NEW r \in Played, PlayRecord(r) PROVE Channel!Write
  BY <1>1 DEF PlayRecord, Channel!Write, Record
<1>2. ASSUME NEW r \in Watched, WatcherWrites(r) PROVE Channel!Write
  BY <1>2 DEF WatcherWrites, Watching, Channel!Write, Record
<1>3. CASE ProcessorReceives \/ RecorderReceives
  BY <1>3 DEF ProcessorReceives, RecorderReceives, Channel!Read, Channel!Next
<1>4. CASE WebServerReturns
  BY <1>4 DEF WebServerReturns, chanVars, Channel!Stop, Channel!Next
<1>5. CASE StopWatcher
  BY <1>5 DEF StopWatcher, Port!Stop, Channel!Stop, Channel!Next
<1>6. CASE CloseChan
  BY <1>6 DEF CloseChan, Channel!Close, Channel!Next
<1>7. ASSUME MainStep \/ ListenFails, ~StopWatcher, ~CloseChan, \A r \in Played : ~PlayRecord(r)
      PROVE  UNCHANGED <<outchan, Accepting, closed>>
  BY <1>7
  DEF MainStep, OpenStore, OpenStoreFails, StartProcessor, StartUpFails, StartWatcher,
      PlayFileReturns, StartRecorder, StartStoreManager, ListenFails, WebServerTimesOut,
      WaitForProcessor, CloseRecorder, ShutdownStoreManager, CloseStore, OsExit, chanVars
<1>8. ASSUME NEW dropped \in SUBSET Record, GcDeletes(dropped)
      PROVE  UNCHANGED <<outchan, Accepting, closed>>
  BY <1>8 DEF GcDeletes, chanVars
<1>9. CASE ManagerStep \/ RequestBegins \/ RequestEnds \/ RecorderEnds \/ ProcessorEnds
           \/ (\E ok \in BOOLEAN : ProcessorTxn(ok)) \/ UNCHANGED vars
  BY <1>9
  DEF ManagerStep, RequestBegins, RequestEnds, RecorderEnds, ProcessorEnds, ProcessorTxn,
      vars, chanVars
<1> QED
  BY <1>1, <1>2, <1>3, <1>4, <1>5, <1>6, <1>7, <1>8, <1>9
  DEF Next, ProcessorStep, RecorderStep, MainStep, Channel!Next

(* The parts of the server use the channel as an ingress channel: what      *)
(* KubeWatcher is proved to implement is what RealMain composes, with and   *)
(* without a watcher.                                                       *)
THEOREM ServerImplementsIngressChannel == Spec => UsesIngressChannel
<1>1. Init => Channel!Init
  BY DEF Init, Port!Init, Channel!Init, Accepting, AfterServe, AfterClose, AfterProc, AfterDb
<1>2. IndInv /\ [Next]_vars => [Channel!Next]_<<outchan, Accepting, closed>>
  BY ChannelStep
<1> QED
  BY <1>1, <1>2, ServerInvariant, PTL DEF Spec, UsesIngressChannel, Channel!Spec
=============================================================================
