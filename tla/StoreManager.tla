---------------------------- MODULE StoreManager ----------------------------
(***************************************************************************)
(* pkg/sloop/storemanager: the life of the two background goroutines of the *)
(* store manager, the cancellable sleep and Shutdown().  What a clean-up    *)
(* deletes is the subject of StoreGC; here a pass is a period during which  *)
(* its goroutine uses the database.                                         *)
(***************************************************************************)
EXTENDS Integers

CONSTANT MaxRewrites   \* bound: value log files one vlogGcLoop round rewrites

ASSUME MaxRewritesAssumption == MaxRewrites \in Nat

VARIABLES
    done,       \* StoreManager.done, under donelock
    cancel,     \* SleepWithCancel.cancel: buffered tokens, and whether it is closed
    wg,         \* counter of the WaitGroup
    loop,       \* program counters of the two goroutines
    rewrites,   \* successful RunValueLogGC calls in the current round
    shutdown    \* program counter of the goroutine that calls Start and Shutdown

vars == <<done, cancel, wg, loop, rewrites, shutdown>>

Loops == {"gcLoop", "vlogGcLoop"}

(* "forked": the goroutine exists but has not run wg.Add(1) yet.            *)
(* "stats", "work" and "after" are the steps that use the database:         *)
(* refreshStats counts its keys, the work is doCleanup or RunValueLogGC.    *)
UsesDb == {"stats", "work", "after"}

TypeOK ==
    /\ done \in BOOLEAN
    /\ cancel \in [tokens : Nat, closed : BOOLEAN]
    /\ wg \in Nat
    /\ loop \in [Loops -> {"none", "forked", "check", "sleep", "exited"} \cup UsesDb]
    /\ rewrites \in 0 .. MaxRewrites
    /\ shutdown \in {"new", "started", "cancel", "closeCancel", "wait", "down"}

(* NewStoreManager                                                          *)
Init ==
    /\ done = FALSE
    /\ cancel = [tokens |-> 0, closed |-> FALSE]
    /\ wg = 0
    /\ loop = [l \in Loops |-> "none"]
    /\ rewrites = 0
    /\ shutdown = "new"

Start ==
    /\ shutdown = "new"
    /\ loop' = [l \in Loops |-> "forked"]
    /\ shutdown' = "started"
    /\ UNCHANGED <<done, cancel, wg, rewrites>>

-----------------------------------------------------------------------------
EnterMutant(l) ==
    /\ loop[l] = "forked"
    /\ loop' = [loop EXCEPT ![l] = "check"]
    /\ UNCHANGED <<done, cancel, wg, rewrites, shutdown>>

(* Both loops: wg.Add(1) is the first statement of the goroutine itself.    *)
(* (Not modelled: the panic of an Add that meets a Wait at the count zero.) *)
Enter(l) ==
    /\ loop[l] = "forked"
    /\ wg' = wg + 1
    /\ loop' = [loop EXCEPT ![l] = "check"]
    /\ UNCHANGED <<done, cancel, rewrites, shutdown>>

(* isDone()                                                                 *)
IsDone == done

Exit(l) ==
    /\ loop[l] = "check" /\ IsDone
    /\ loop' = [loop EXCEPT ![l] = "exited"]
    /\ wg' = wg - 1
    /\ UNCHANGED <<done, cancel, rewrites, shutdown>>

Continue(l) ==
    /\ loop[l] = "check" /\ ~IsDone
    /\ loop' = [loop EXCEPT ![l] = "stats"]
    /\ UNCHANGED <<done, cancel, wg, rewrites, shutdown>>

(* beforeGCStats := sm.refreshStats()                                       *)
RefreshStats(l) ==
    /\ loop[l] = "stats"
    /\ loop' = [loop EXCEPT ![l] = "work"]
    /\ UNCHANGED <<done, cancel, wg, rewrites, shutdown>>

(* gcLoop: doCleanup (whether it fails or not), then the stats again.       *)
DoCleanup ==
    /\ loop["gcLoop"] = "work"
    /\ loop' = [loop EXCEPT !["gcLoop"] = "after"]
    /\ UNCHANGED <<done, cancel, wg, rewrites, shutdown>>

GcStatsAfter ==
    /\ loop["gcLoop"] = "after"
    /\ loop' = [loop EXCEPT !["gcLoop"] = "sleep"]
    /\ UNCHANGED <<done, cancel, wg, rewrites, shutdown>>

(* vlogGcLoop: RunValueLogGC again and again, until it returns an error     *)
(* (nothing left to rewrite, or rejected).  isDone is not tested here.      *)
RunValueLogGC ==
    /\ loop["vlogGcLoop"] = "work" /\ rewrites < MaxRewrites
    /\ loop' = [loop EXCEPT !["vlogGcLoop"] = "after"]
    /\ rewrites' = rewrites + 1
    /\ UNCHANGED <<done, cancel, wg, shutdown>>

VlogStatsAfter ==
    /\ loop["vlogGcLoop"] = "after"
    /\ loop' = [loop EXCEPT !["vlogGcLoop"] = "work"]
    /\ UNCHANGED <<done, cancel, wg, rewrites, shutdown>>

RunValueLogGCFails ==
    /\ loop["vlogGcLoop"] = "work"
    /\ loop' = [loop EXCEPT !["vlogGcLoop"] = "sleep"]
    /\ rewrites' = 0
    /\ UNCHANGED <<done, cancel, wg, shutdown>>

(* Sleep: select between the cancel channel and the timer.  Receiving takes *)
(* a token while there is one, and returns at once on the closed channel.   *)
WokenByCancel(l) ==
    /\ loop[l] = "sleep" /\ (cancel.tokens > 0 \/ cancel.closed)
    /\ cancel' = [cancel EXCEPT !.tokens = IF @ > 0 THEN @ - 1 ELSE @]
    /\ loop' = [loop EXCEPT ![l] = "check"]
    /\ UNCHANGED <<done, wg, rewrites, shutdown>>

WokenByTimer(l) ==
    /\ loop[l] = "sleep"
    /\ loop' = [loop EXCEPT ![l] = "check"]
    /\ UNCHANGED <<done, cancel, wg, rewrites, shutdown>>

-----------------------------------------------------------------------------
(* Shutdown()                                                               *)
ShutdownSetsDone ==
    /\ shutdown = "started"
    /\ done' = TRUE
    /\ shutdown' = "cancel"
    /\ UNCHANGED <<cancel, wg, loop, rewrites>>

CancelSends ==
    /\ shutdown = "cancel"
    /\ cancel' = [cancel EXCEPT !.tokens = @ + 1]
    /\ shutdown' = "closeCancel"
    /\ UNCHANGED <<done, wg, loop, rewrites>>

CancelClosesMutant ==
    /\ shutdown = "closeCancel"
    /\ shutdown' = "wait"
    /\ UNCHANGED <<cancel, done, wg, loop, rewrites>>

CancelCloses ==
    /\ shutdown = "closeCancel"
    /\ cancel' = [cancel EXCEPT !.closed = TRUE]
    /\ shutdown' = "wait"
    /\ UNCHANGED <<done, wg, loop, rewrites>>

WaitMutant ==
    /\ shutdown = "wait"
    /\ shutdown' = "down"
    /\ UNCHANGED <<done, cancel, wg, loop, rewrites>>

(* sm.wg.Wait() returns as soon as the counter is zero, hence also before a *)
(* forked goroutine has counted itself.                                     *)
Wait ==
    /\ shutdown = "wait" /\ wg = 0
    /\ shutdown' = "down"
    /\ UNCHANGED <<done, cancel, wg, loop, rewrites>>

-----------------------------------------------------------------------------
ShutdownStep == CancelSends \/ CancelCloses \/ Wait

LoopStep(l) == Enter(l) \/ Exit(l) \/ Continue(l) \/ RefreshStats(l)

GcStep == DoCleanup \/ GcStatsAfter

Next ==
    \/ Start
    \/ ShutdownSetsDone
    \/ ShutdownStep
    \/ \E l \in Loops : LoopStep(l) \/ WokenByCancel(l) \/ WokenByTimer(l)
    \/ GcStep
    \/ RunValueLogGC \/ VlogStatsAfter \/ RunValueLogGCFails

(* Goroutines that can run do run, and a clean-up or one RunValueLogGC call *)
(* comes to an end; RunValueLogGC finally has nothing left to rewrite.      *)
(* Nothing is assumed of the timer: with the default of minutes to hours    *)
(* between passes, Shutdown must not depend on it.                          *)
Fairness ==
    /\ WF_vars(ShutdownStep)
    /\ \A l \in Loops : WF_vars(LoopStep(l)) /\ WF_vars(WokenByCancel(l))
    /\ WF_vars(GcStep)
    /\ WF_vars(VlogStatsAfter) /\ SF_vars(RunValueLogGCFails)

Spec     == Init /\ [][Next]_vars
FairSpec == Spec /\ Fairness

-----------------------------------------------------------------------------
(* Once Shutdown() has returned neither goroutine is using the database,    *)
(* and none ever will: RealMain closes the store right afterwards.  This    *)
(* holds although a goroutine may count itself in after Wait().             *)
NoDbUseAfterShutdown == shutdown = "down" => \A l \in Loops : loop[l] \notin UsesDb

(* Shutdown() returns, and both goroutines end, whatever they were doing    *)
(* and however long they meant to sleep: one token in the cancel channel    *)
(* wakes one sleeper, its closing wakes the other (comment of               *)
(* SleepWithCancel).                                                        *)
ShutdownCompletes ==
    done ~> (shutdown = "down" /\ \A l \in Loops : loop[l] = "exited")

-----------------------------------------------------------------------------
(* The inductive strengthening used by Server_proofs: the WaitGroup         *)
(* counts the goroutines between Enter and Exit, `done` precedes the wait,  *)
(* and a goroutine that is late can only find it set.                       *)
Counted(l) == loop[l] \in {"check", "sleep"} \cup UsesDb

CountOf(l) == IF Counted(l) THEN 1 ELSE 0

WaitGroupInv ==
    /\ wg = CountOf("gcLoop") + CountOf("vlogGcLoop")
    /\ done <=> (shutdown \in {"cancel", "closeCancel", "wait", "down"})
    /\ shutdown = "new" => \A l \in Loops : loop[l] = "none"
    /\ shutdown = "down" =>
          \A l \in Loops : loop[l] \in {"none", "forked", "check", "exited"}
=============================================================================
