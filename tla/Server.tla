------------------------------- MODULE Server -------------------------------
(***************************************************************************)
(* pkg/sloop/server/server.go: RealMain starts the parts in order, serves   *)
(* until a signal and shuts them down in order.  The ingress source is its  *)
(* abstract specification (IngressChannel, which KubeWatcher implements),   *)
(* the store manager is module StoreManager, the processor and the file     *)
(* recorder both receive from the channel, web requests read the store.     *)
(***************************************************************************)
EXTENDS Integers, Sequences

CONSTANTS
    Watched,      \* records the watcher can deliver
    Played,       \* records of the playback file
    ChanCap,      \* capacity of kubeWatchChan
    MaxRewrites   \* bound of StoreManager

(* A record is an identity: none is both watched and played.                *)
ASSUME ServerAssumption ==
    /\ Watched \cap Played = {}
    /\ ChanCap \in Nat /\ MaxRewrites \in Nat

Record == Watched \cup Played

(* The four db.Update transactions of one record, in order: eventcount,     *)
(* watchactivity, watch, ressum.                                            *)
Txns == 1 .. 4

VARIABLES
    conf,      \* which optional parts the configuration asks for
    main,      \* program counter of RealMain
    failed,    \* RealMain is returning an error
    dbOpen,    \* between OpenStore and CloseStore
    store,     \* records some transaction of which has committed, until dropped
    outchan, open, closed,   \* the channel, as in IngressChannel
    sent,      \* records ever accepted by the channel
    toPlay,    \* records PlayFile has not sent yet
    proc,      \* processor goroutine: the record in hand and its next transaction
    handled,   \* records that went through all four transactions
    recorder,  \* recorder goroutine
    recorded,  \* FileRecorder.data
    query,     \* a web request is reading the store
    done, cancel, wg, loop, rewrites, shutdown   \* StoreManager

Port == INSTANCE IngressChannel WITH buffer <- outchan
SM   == INSTANCE StoreManager

smVars   == <<done, cancel, wg, loop, rewrites, shutdown>>
chanVars == <<outchan, open, closed>>
procVars == <<proc, handled>>
recVars  == <<recorder, recorded>>
vars == <<conf, main, failed, dbOpen, store, sent, toPlay, query, chanVars,
          procVars, recVars, smVars>>

Idle == [pc |-> "off", rec |-> "none", txn |-> 1]

(* RealMain, the store handle and the web request                           *)
MainType ==
    /\ conf \in [watch : BOOLEAN, play : BOOLEAN, record : BOOLEAN, manage : BOOLEAN]
    /\ main \in {"open", "restore", "watch", "play", "record", "manage", "serve", "stop",
                 "close", "waitProc", "closeRec", "shutdown", "closeDb", "return", "exit"}
    /\ failed \in BOOLEAN /\ dbOpen \in BOOLEAN /\ query \in BOOLEAN
    /\ open \in BOOLEAN /\ closed \in BOOLEAN
    /\ recorder \in {"off", "recv", "done"}

(* the path of the records                                                  *)
RecordType ==
    /\ outchan \in Seq(Record)
    /\ sent \subseteq Record /\ toPlay \subseteq Played
    /\ proc \in [pc : {"off", "recv", "txn", "done"}, rec : Record \cup {"none"},
                 txn : Txns]
    /\ proc.pc = "txn" => proc.rec \in Record
    /\ handled \subseteq Record /\ recorded \subseteq Record /\ store \subseteq Record

TypeOK == MainType /\ RecordType /\ SM!TypeOK

Init ==
    /\ conf \in [watch : BOOLEAN, play : BOOLEAN, record : BOOLEAN, manage : BOOLEAN]
    /\ main = "open" /\ failed = FALSE /\ dbOpen = FALSE /\ query = FALSE
    /\ store = {} /\ sent = {} /\ toPlay = Played
    /\ proc = Idle /\ handled = {}
    /\ recorder = "off" /\ recorded = {}
    /\ Port!Init
    /\ SM!Init

-----------------------------------------------------------------------------
(* RealMain, start-up                                                       *)

Goto(pc) == main' = pc /\ UNCHANGED failed

(* return errors.Wrap(...): the deferred CloseStore is all that still runs. *)
Fail ==
    /\ main' = IF dbOpen THEN "closeDb" ELSE "return"
    /\ failed' = TRUE

(* untyped.OpenStore                                                        *)
OpenStore ==
    /\ main = "open"
    /\ dbOpen' = TRUE
    /\ Goto("restore")
    /\ UNCHANGED <<conf, store, sent, toPlay, query, chanVars, procVars, recVars, smVars>>

OpenStoreFails ==
    /\ main = "open"
    /\ Fail
    /\ UNCHANGED <<conf, dbOpen, store, sent, toPlay, query, chanVars, procVars,
                   recVars, smVars>>

(* DatabaseRestore if asked for, and then processor.Start.                  *)
StartProcessor ==
    /\ main = "restore"
    /\ proc' = [proc EXCEPT !.pc = "recv"]
    /\ Goto("watch")
    /\ UNCHANGED <<conf, dbOpen, store, sent, toPlay, query, chanVars, handled,
                   recVars, smVars>>

(* A start-up step fails: the restore, the Kubernetes client, the watcher,  *)
(* or the playback file.                                                    *)
StartUpFails ==
    /\ \/ main = "restore"
       \/ main = "watch" /\ conf.watch
       \/ main = "play" /\ conf.play /\ toPlay = Played
    /\ Fail
    /\ UNCHANGED <<conf, dbOpen, store, sent, toPlay, query, chanVars, procVars,
                   recVars, smVars>>

(* NewKubeWatcherSource, unless the watcher is disabled.                    *)
StartWatcher ==
    /\ main = "watch"
    /\ Goto("play")
    /\ UNCHANGED <<conf, dbOpen, store, sent, toPlay, query, chanVars, procVars,
                   recVars, smVars>>

(* PlayFile sends from the main goroutine, blocking while the channel is    *)
(* full.                                                                    *)
PlayRecord(r) ==
    /\ main = "play" /\ conf.play /\ r \in toPlay
    /\ Len(outchan) < ChanCap
    /\ outchan' = Append(outchan, r)
    /\ sent' = sent \cup {r}
    /\ toPlay' = toPlay \ {r}
    /\ UNCHANGED <<conf, main, failed, dbOpen, store, query, open, closed, procVars,
                   recVars, smVars>>

PlayFileReturns ==
    /\ main = "play" /\ (conf.play => toPlay = {})
    /\ Goto("record")
    /\ UNCHANGED <<conf, dbOpen, store, sent, toPlay, query, chanVars, procVars,
                   recVars, smVars>>

(* recorder.Start                                                           *)
StartRecorder ==
    /\ main = "record"
    /\ recorder' = IF conf.record THEN "recv" ELSE recorder
    /\ Goto("manage")
    /\ UNCHANGED <<conf, dbOpen, store, sent, toPlay, query, chanVars, procVars,
                   recorded, smVars>>

(* storemgr.Start, unless the store manager is disabled.                    *)
StartStoreManager ==
    /\ main = "manage"
    /\ IF conf.manage THEN SM!Start ELSE UNCHANGED smVars
    /\ Goto("serve")
    /\ UNCHANGED <<conf, dbOpen, store, sent, toPlay, query, chanVars, procVars, recVars>>

-----------------------------------------------------------------------------
(* RealMain, shutdown                                                       *)

(* webserver.Run returns after the signal when the requests are finished,   *)
(* and with an error when one is not within the five seconds' grace.        *)
WebServerReturns ==
    /\ main = "serve" /\ ~query
    /\ Goto(IF conf.watch THEN "stop" ELSE "close")
    /\ UNCHANGED <<conf, dbOpen, store, sent, toPlay, query, chanVars, procVars,
                   recVars, smVars>>

WebServerTimesOut ==
    /\ main = "serve" /\ query
    /\ Fail
    /\ UNCHANGED <<conf, dbOpen, store, sent, toPlay, query, chanVars, procVars,
                   recVars, smVars>>

(* ListenAndServe returns an error of its own (the address is in use): its  *)
(* goroutine calls glog.Fatal, which exits at once; nothing deferred runs.  *)
ListenFails ==
    /\ main = "serve"
    /\ main' = "exit" /\ failed' = TRUE
    /\ UNCHANGED <<conf, dbOpen, store, sent, toPlay, query, chanVars, procVars,
                   recVars, smVars>>

(* kubeWatcherSource.Stop()                                                 *)
StopWatcher ==
    /\ main = "stop"
    /\ Port!Stop
    /\ Goto("close")
    /\ UNCHANGED <<conf, dbOpen, store, sent, toPlay, query, procVars, recVars, smVars>>

(* close(kubeWatchChan)                                                     *)
CloseChan ==
    /\ main = "close"
    /\ closed' = TRUE
    /\ Goto("waitProc")
    /\ UNCHANGED <<conf, dbOpen, store, sent, toPlay, query, outchan, open, procVars,
                   recVars, smVars>>

ProcessorIdleMutant == TRUE

(* inputWg.Wait()                                                           *)
ProcessorIdle == proc.pc = "done"

WaitForProcessor ==
    /\ main = "waitProc" /\ ProcessorIdle
    /\ Goto(CASE conf.record -> "closeRec"
              [] ~conf.record /\ conf.manage -> "shutdown"
              [] OTHER -> "closeDb")
    /\ UNCHANGED <<conf, dbOpen, store, sent, toPlay, query, chanVars, procVars,
                   recVars, smVars>>

(* recorder.Close(): wait for listen, write the file.                       *)
CloseRecorder ==
    /\ main = "closeRec" /\ recorder = "done"
    /\ Goto(IF conf.manage THEN "shutdown" ELSE "closeDb")
    /\ UNCHANGED <<conf, dbOpen, store, sent, toPlay, query, chanVars, procVars,
                   recVars, smVars>>

(* storemgr.Shutdown()                                                      *)
ShutdownStoreManager ==
    /\ main = "shutdown"
    /\ SM!ShutdownSetsDone \/ SM!ShutdownStep
    /\ Goto(IF shutdown' = "down" THEN "closeDb" ELSE main)
    /\ UNCHANGED <<conf, dbOpen, store, sent, toPlay, query, chanVars, procVars, recVars>>

(* The deferred untyped.CloseStore.                                         *)
CloseStore ==
    /\ main = "closeDb"
    /\ dbOpen' = FALSE
    /\ Goto("return")
    /\ UNCHANGED <<conf, store, sent, toPlay, query, chanVars, procVars, recVars, smVars>>

(* main() calls os.Exit: every goroutine is gone.                           *)
OsExit ==
    /\ main = "return"
    /\ Goto("exit")
    /\ UNCHANGED <<conf, dbOpen, store, sent, toPlay, query, chanVars, procVars,
                   recVars, smVars>>

-----------------------------------------------------------------------------
(* The other goroutines                                                     *)

Watching == conf.watch /\ main \notin {"open", "restore"}

(* An informer's callback: writeToOutChan.  The constructor's informers     *)
(* already run while main is in "watch".                                    *)
WatcherWrites(r) ==
    /\ Watching /\ r \in Watched \ sent
    /\ open /\ Len(outchan) < ChanCap
    /\ outchan' = Append(outchan, r)
    /\ sent' = sent \cup {r}
    /\ UNCHANGED <<conf, main, failed, dbOpen, store, toPlay, query, open, closed,
                   procVars, recVars, smVars>>

ProcessorReceivesMutant ==
    /\ proc.pc = "recv" /\ (outchan # <<>> \/ closed)
    /\ proc' = [pc |-> "txn", txn |-> 1,
                rec |-> IF outchan = <<>> THEN "none" ELSE Head(outchan)]
    /\ outchan' = IF outchan = <<>> THEN outchan ELSE Tail(outchan)
    /\ UNCHANGED <<conf, main, failed, dbOpen, store, sent, toPlay, query, open,
                   closed, handled, recVars, smVars>>

(* Runner.Start: receive a record ...                                       *)
ProcessorReceives ==
    /\ proc.pc = "recv" /\ outchan # <<>>
    /\ proc' = [pc |-> "txn", rec |-> Head(outchan), txn |-> 1]
    /\ outchan' = Tail(outchan)
    /\ UNCHANGED <<conf, main, failed, dbOpen, store, sent, toPlay, query, open,
                   closed, handled, recVars, smVars>>

(* ... run one of its transactions, which commits or fails (a failure is    *)
(* counted and the next transaction follows) ...                            *)
ProcessorTxn(ok) ==
    /\ proc.pc = "txn"
    /\ store' = IF ok /\ dbOpen THEN store \cup {proc.rec} ELSE store
    /\ IF proc.txn + 1 \in Txns
         THEN /\ proc' = [proc EXCEPT !.txn = @ + 1]
              /\ UNCHANGED handled
         ELSE /\ proc' = [Idle EXCEPT !.pc = "recv"]
              /\ handled' = handled \cup {proc.rec}
    /\ UNCHANGED <<conf, main, failed, dbOpen, sent, toPlay, query, chanVars,
                   recVars, smVars>>

DrainedMutant == closed

(* more is false: the channel is closed and empty.                          *)
Drained == closed /\ outchan = <<>>

ProcessorEnds ==
    /\ proc.pc = "recv" /\ Drained
    /\ proc' = [proc EXCEPT !.pc = "done"]
    /\ UNCHANGED <<conf, main, failed, dbOpen, store, sent, toPlay, query, chanVars,
                   handled, recVars, smVars>>

(* FileRecorder.listen takes records out of the same channel.               *)
RecorderReceives ==
    /\ recorder = "recv" /\ outchan # <<>>
    /\ recorded' = recorded \cup {Head(outchan)}
    /\ outchan' = Tail(outchan)
    /\ UNCHANGED <<conf, main, failed, dbOpen, store, sent, toPlay, query, open,
                   closed, procVars, recorder, smVars>>

RecorderEnds ==
    /\ recorder = "recv" /\ closed /\ outchan = <<>>
    /\ recorder' = "done"
    /\ UNCHANGED <<conf, main, failed, dbOpen, store, sent, toPlay, query, chanVars,
                   procVars, recorded, smVars>>

(* A query or backup handler reads the store; the server takes no request   *)
(* once the signal has arrived.                                             *)
RequestBegins ==
    /\ main = "serve" /\ ~query
    /\ query' = TRUE
    /\ UNCHANGED <<conf, main, failed, dbOpen, store, sent, toPlay, chanVars,
                   procVars, recVars, smVars>>

RequestEnds ==
    /\ query
    /\ query' = FALSE
    /\ UNCHANGED <<conf, main, failed, dbOpen, store, sent, toPlay, chanVars,
                   procVars, recVars, smVars>>

(* A clean-up drops the rows of some records (whole partitions) ...         *)
GcDeletes(dropped) ==
    /\ SM!DoCleanup
    /\ store' = IF dbOpen THEN store \ dropped ELSE store
    /\ UNCHANGED <<conf, main, failed, dbOpen, sent, toPlay, query, chanVars,
                   procVars, recVars>>

(* ... and the rest of the two loops leaves the rows alone.                 *)
ManagerStep ==
    /\ \/ \E l \in SM!Loops : SM!LoopStep(l) \/ SM!WokenByCancel(l) \/ SM!WokenByTimer(l)
       \/ SM!GcStatsAfter
       \/ SM!RunValueLogGC \/ SM!VlogStatsAfter \/ SM!RunValueLogGCFails
    /\ UNCHANGED <<conf, main, failed, dbOpen, store, sent, toPlay, query, chanVars,
                   procVars, recVars>>

-----------------------------------------------------------------------------
MainStep ==
    \/ OpenStore \/ OpenStoreFails \/ StartProcessor \/ StartUpFails \/ StartWatcher
    \/ \E r \in Played : PlayRecord(r)
    \/ PlayFileReturns \/ StartRecorder \/ StartStoreManager
    \/ WebServerTimesOut \/ StopWatcher \/ CloseChan \/ WaitForProcessor
    \/ CloseRecorder \/ ShutdownStoreManager \/ CloseStore \/ OsExit

ProcessorStep == ProcessorReceives \/ (\E ok \in BOOLEAN : ProcessorTxn(ok)) \/ ProcessorEnds
RecorderStep  == RecorderReceives \/ RecorderEnds

Next ==
    /\ main # "exit"
    /\ \/ MainStep
       \/ WebServerReturns \/ ListenFails
       \/ \E r \in Watched : WatcherWrites(r)
       \/ ProcessorStep
       \/ RecorderStep
       \/ RequestBegins \/ RequestEnds
       \/ \E dropped \in SUBSET Record : GcDeletes(dropped)
       \/ ManagerStep

(* Main, the processor and the recorder run when they can, a request comes  *)
(* to an end, and the store manager's goroutines are scheduled as           *)
(* StoreManager assumes.  Nothing obliges the signal to arrive.             *)
Running(A) == main # "exit" /\ A

Fairness ==
    /\ WF_vars(Running(MainStep))
    /\ WF_vars(Running(ProcessorStep)) /\ WF_vars(Running(RecorderStep))
    /\ \A l \in {"gcLoop", "vlogGcLoop"} :
         /\ WF_vars(Running(SM!LoopStep(l) /\ ManagerStep))
         /\ WF_vars(Running(SM!WokenByCancel(l) /\ ManagerStep))
    /\ WF_vars(Running(\E dropped \in SUBSET Record : GcDeletes(dropped)))
    /\ WF_vars(Running(SM!GcStatsAfter /\ ManagerStep))
    /\ WF_vars(Running(SM!VlogStatsAfter /\ ManagerStep))
    /\ SF_vars(Running(SM!RunValueLogGCFails /\ ManagerStep))

Spec     == Init /\ [][Next]_vars
FairSpec == Spec /\ Fairness

-----------------------------------------------------------------------------
(* On the orderly path (RealMain returns no error) nobody is using the      *)
(* store when, or after, it is closed: not the processor, not a web         *)
(* request, not a goroutine of the store manager.  The error returns give   *)
(* no such guarantee: they close the store under the running goroutines.    *)
NoStoreUseAfterClose ==
    main \in {"return", "exit"} /\ ~failed =>
        /\ proc.pc # "txn"
        /\ ~query
        /\ \A l \in SM!Loops : loop[l] \notin SM!UsesDb

(* Comment of server.go, "Channel used for updates from ingress to store":   *)
(* on the orderly path, and without a recorder, every record the channel    *)
(* ever accepted has been through all its transactions: closing the channel *)
(* loses nothing.  Nothing is claimed when a recorder runs: the records it  *)
(* receives do not get to the store, and the others not into its file.      *)
AcceptedIsProcessed ==
    main = "exit" /\ ~failed /\ ~conf.record => sent = handled

(* Once the signal has arrived and the web server has returned, the program *)
(* ends: the watcher, the processor draining the channel, the recorder and  *)
(* the store manager all let go.                                            *)
ShutdownTerminates == main \in {"stop", "close"} ~> main = "exit"

-----------------------------------------------------------------------------
(* The inductive strengthening used by Server_proofs.                       *)

(* the points of RealMain after its waits                                   *)
AfterDb    == {"closeDb", "return", "exit"}
AfterProc  == {"closeRec", "shutdown"} \cup AfterDb
AfterClose == {"waitProc"} \cup AfterProc
AfterServe == {"stop", "close"} \cup AfterClose

(* How far the orderly path has come bounds what the others can be doing.   *)
(* Only CloseChan closes the channel, and when it does nobody can write.    *)
OrderInv ==
    /\ closed => main \in AfterClose /\ ~failed
    /\ main \in AfterClose /\ ~failed => closed
    /\ main \in {"close"} \cup AfterClose /\ ~failed /\ conf.watch => ~open
    /\ main \in AfterServe /\ ~failed => ~query
    /\ main \in AfterProc /\ ~failed => proc.pc = "done"
    /\ failed => main \in AfterDb
    /\ main \in {"open", "restore"} => proc.pc = "off"
    /\ ~open => main \in {"close"} \cup AfterClose

(* The processor leaves only a closed and empty channel, which stays empty. *)
DrainInv == proc.pc = "done" => closed /\ outchan = <<>>

(* The store manager is down before the store is closed, if it ever ran.    *)
ManagerInv ==
    /\ SM!TypeOK /\ SM!WaitGroupInv
    /\ main \in {"open", "restore", "watch", "play", "record", "manage"}
         \/ ~conf.manage => shutdown = "new"
    /\ main \in AfterDb /\ ~failed => shutdown \in {"new", "down"}

(* Every record the channel accepted is in exactly one place.               *)
InHand == IF proc.pc = "txn" THEN {proc.rec} ELSE {}
Queued == {outchan[i] : i \in DOMAIN outchan}

PlacesInv ==
    /\ sent = Queued \cup InHand \cup handled \cup recorded
    /\ \A i, j \in DOMAIN outchan : outchan[i] = outchan[j] => i = j
    /\ Queued \cap (InHand \cup handled \cup recorded) = {}
    /\ InHand \cap (handled \cup recorded) = {}
    /\ handled \cap recorded = {}
    /\ toPlay \cap sent = {}

(* A recorder that is not configured never runs and takes nothing.          *)
RecorderInv == ~conf.record => recorder = "off" /\ recorded = {}

IndInv == TypeOK /\ OrderInv /\ DrainInv /\ ManagerInv /\ PlacesInv /\ RecorderInv

-----------------------------------------------------------------------------
(* Somebody may still write to the channel: the watcher until it is         *)
(* stopped; without one, the playback, which main has left when it serves.  *)
Accepting == IF conf.watch THEN open ELSE ~(main \in AfterServe /\ ~failed)

Channel == INSTANCE IngressChannel WITH buffer <- outchan, open <- Accepting

(* Comment of the shutdown sequence: whatever is configured and whatever    *)
(* fails, watcher, playback, processor and recorder together use the        *)
(* channel as an ingress channel: it is closed once, and only when nobody   *)
(* can write to it any more.                                                *)
UsesIngressChannel == Channel!Spec
=============================================================================
