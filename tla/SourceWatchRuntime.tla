------------------------- MODULE SourceWatchRuntime -------------------------
(***************************************************************************)
(* The source watcher of the local agent: source_watch_runtime.py, around  *)
(* the coordinator of SaveImportCoordinator, whose lock it takes inside    *)
(* its own.                                                                *)
(*                                                                         *)
(* Three kinds of thread meet under the lifecycle lock: the thread that    *)
(* called run (the only driver of the coordinator, `Main'), the dispatcher *)
(* of the file observer, which calls the event adapter, and whoever calls  *)
(* request_stop.  A step is what one of them does between taking and       *)
(* leaving the lock, or outside it between two calls.                      *)
(*                                                                         *)
(* Waiting on the condition always has a timeout of at most a second and   *)
(* is followed by a fresh look at everything, so a waiting run thread is   *)
(* one that is at the head of its loop; a look that finds nothing to do    *)
(* is no step.  Exceptions are kept as the place they came from, which is  *)
(* what the order of the error group and the terminal state depend on.     *)
(***************************************************************************)
EXTENDS Integers

CONSTANTS
    Main,                             \* the thread that calls run
    Debounce, None, MaxClock, MaxSaves  \* as in SaveImportCoordinator

ASSUME RuntimeAssumption ==
    /\ Debounce \in Nat \ {0}
    /\ MaxClock \in Nat /\ MaxSaves \in Nat
    /\ None \notin Nat /\ None \notin [id : Nat, started : Nat]

VARIABLES
    (* the coordinator, see SaveImportCoordinator *)
    state, latestNotice, nextDue, pendingFollowup, activeAttempt, lastClock,
    issued, pc, attempt, outcome, seen, file, heard, handled,
    (* the runtime *)
    phase,          \* _state
    stopRequested,  \* _stop_requested
    admissionOpen,  \* _admission_open
    asyncError,     \* _async_error is set
    cycleRunning,   \* _active_cycle_running
    rpc,            \* where the run thread is
    failure,        \* start_error, run_error, teardown_errors: which are set
    polled,         \* the clock as the loop saw it when it admitted the cycle
    owed,           \* history: a successful read the consumer has not been given
    (* external: the observer and its two threads *)
    allocated,      \* _observer is set
    alive,          \* its threads that run
    told,           \* those that were told to stop
    queue,          \* a native event of the workbook waits for the dispatcher
    calling         \* what the dispatcher is about to call the adapter with

SaveCoordinator == INSTANCE SaveImportCoordinator WITH Driver <- {Main}

coordinator == <<state, latestNotice, nextDue, pendingFollowup,
                 activeAttempt, lastClock, issued>>
coordinatorVars == <<coordinator, pc, attempt, outcome, seen, file, heard, handled>>
lifecycle == <<phase, stopRequested, admissionOpen, asyncError>>
runThread == <<cycleRunning, rpc, failure, polled, owed>>
observer == <<allocated, alive, told, queue, calling>>
vars == <<coordinatorVars, lifecycle, runThread, observer>>

Worker == {"dispatcher", "emitter"}

Terminal == {"stopped", "failed"}

Init ==
    /\ SaveCoordinator!Init
    /\ phase = "new"
    /\ stopRequested = FALSE /\ admissionOpen = FALSE /\ asyncError = FALSE
    /\ cycleRunning = FALSE /\ rpc = "ready" /\ failure = {}
    /\ polled = 0 /\ owed = FALSE
    /\ allocated = FALSE /\ alive = {} /\ told = {}
    /\ queue = FALSE /\ calling = "nothing"

-----------------------------------------------------------------------------
(* The world outside, and the observer's threads. *)

\* A save raises a native event if somebody watches.
Save ==
    /\ SaveCoordinator!Save
    /\ queue' = (queue \/ "emitter" \in alive)
    /\ UNCHANGED <<lifecycle, runThread, allocated, alive, told, calling>>

\* It looks at its stop flag before every event.
DispatcherReady == "dispatcher" \in alive \ told /\ calling = "nothing"

\* The dispatcher hands an event to the adapter, which needs the lock.
DispatchEvent ==
    /\ DispatcherReady
    /\ queue /\ queue' = FALSE
    /\ calling' = "event"
    /\ UNCHANGED <<coordinatorVars, lifecycle, runThread, allocated, alive, told>>

\* The same for an event with fields the adapter cannot decode.
DispatchMalformed ==
    /\ DispatcherReady
    /\ calling' = "malformed"
    /\ UNCHANGED <<coordinatorVars, lifecycle, runThread, allocated, alive, told, queue>>

WorkerDies(w) ==
    /\ w \in alive /\ (w = "dispatcher" => calling = "nothing")
    /\ alive' = alive \ {w}
    /\ UNCHANGED <<coordinatorVars, lifecycle, runThread, allocated, told, queue, calling>>

\* A thread that was told to stop ends after the callback it is in.
WorkerExits(w) == w \in told /\ WorkerDies(w)

\* The first fault seen outside the run thread closes the door behind it.
RecordAsyncError ==
    /\ asyncError' = TRUE
    /\ admissionOpen' = FALSE
    /\ UNCHANGED <<phase, stopRequested>>

\* Fault: events are taken after the end of the watch.
AlwaysOpen == ~asyncError

Admitting == admissionOpen /\ ~asyncError

\* _on_adapter_event: the coordinator is notified, or raises.
DeliverEvent ==
    /\ calling = "event"
    /\ calling' = "nothing"
    /\ \/ /\ ~Admitting
          /\ UNCHANGED <<coordinatorVars, lifecycle>>
       \/ /\ Admitting
          /\ SaveCoordinator!Notify /\ lastClock' >= polled
          /\ UNCHANGED lifecycle
       \/ /\ Admitting
          /\ RecordAsyncError
          /\ UNCHANGED coordinatorVars
    /\ UNCHANGED <<runThread, allocated, alive, told, queue>>

\* _on_adapter_error, for an event the adapter cannot decode.
DeliverFault ==
    /\ calling = "malformed"
    /\ calling' = "nothing"
    /\ IF admissionOpen THEN RecordAsyncError ELSE UNCHANGED lifecycle
    /\ UNCHANGED <<coordinatorVars, runThread, allocated, alive, told, queue>>

-----------------------------------------------------------------------------
(* request_stop, by any thread, the consumer included. *)

AfterStop(p) ==
    CASE p = "new" -> "stopped" [] p = "running" -> "stopping" [] OTHER -> p

RequestStop ==
    /\ ~(stopRequested /\ phase \in {"stopping", "stopped", "failed"})
    /\ stopRequested' = TRUE
    /\ admissionOpen' = FALSE
    /\ phase' = AfterStop(phase)
    /\ UNCHANGED <<coordinatorVars, asyncError, runThread, observer>>

-----------------------------------------------------------------------------
(* The run thread. *)

\* Goes on to `place', with one more kind of error if `kinds' is not empty.
GoTo(place, kinds) ==
    /\ rpc' = place
    /\ failure' = failure \cup kinds

\* run, run_identified: any other call of them raises.
Run ==
    /\ rpc = "ready" /\ phase = "new"
    /\ phase' = "running"
    /\ admissionOpen' = TRUE
    /\ GoTo("allocate", {})
    /\ UNCHANGED <<coordinatorVars, stopRequested, asyncError, cycleRunning,
                   polled, owed, observer>>

Allocate ==
    /\ rpc = "allocate"
    /\ \/ allocated' = TRUE /\ GoTo("schedule", {})
       \/ UNCHANGED allocated /\ GoTo("closing", {"start"})
    /\ UNCHANGED <<coordinatorVars, lifecycle, cycleRunning, polled, owed,
                   alive, told, queue, calling>>

Schedule ==
    /\ rpc = "schedule"
    /\ GoTo("start", {}) \/ GoTo("closing", {"start"})
    /\ UNCHANGED <<coordinatorVars, lifecycle, cycleRunning, polled, owed, observer>>

\* The emitter starts first: a failure may leave it running alone.
Start ==
    /\ rpc = "start"
    /\ \/ alive' = Worker /\ GoTo("announce", {})
       \/ alive' \in {{}, {"emitter"}} /\ GoTo("closing", {"start"})
    /\ UNCHANGED <<coordinatorVars, lifecycle, cycleRunning, polled, owed,
                   allocated, told, queue, calling>>

\* _check_liveness_locked, when it records an error.
WorkerLost == ~stopRequested /\ ~asyncError /\ Worker \ alive # {}

\* Fault: no notice of the workbook that is already there.
NoInitialNotice == UNCHANGED coordinatorVars

InitialNotice == SaveCoordinator!Notify

\* The initial notice, unless the watch is over before it began.
Announce ==
    /\ rpc = "announce"
    /\ \/ /\ WorkerLost
          /\ RecordAsyncError /\ GoTo("closing", {})
          /\ UNCHANGED coordinatorVars
       \/ /\ asyncError \/ stopRequested
          /\ GoTo("closing", {})
          /\ UNCHANGED <<coordinatorVars, lifecycle>>
       \/ /\ ~WorkerLost /\ ~asyncError /\ ~stopRequested
          /\ InitialNotice /\ GoTo("loop", {})
          /\ UNCHANGED lifecycle
       \/ /\ ~WorkerLost /\ ~asyncError /\ ~stopRequested
          /\ GoTo("closing", {"start"})
          /\ UNCHANGED <<coordinatorVars, lifecycle>>
    /\ UNCHANGED <<cycleRunning, polled, owed, observer>>

\* The two looks at the head of the loop.
LoopEnds == asyncError \/ (stopRequested /\ ~cycleRunning)

\* The loop ends, for a fault or a stop seen before, or a lost thread.
LeaveLoop ==
    /\ rpc = "loop"
    /\ GoTo("closing", {})
    /\ \/ LoopEnds /\ UNCHANGED lifecycle
       \/ ~LoopEnds /\ WorkerLost /\ RecordAsyncError
    /\ UNCHANGED <<coordinatorVars, cycleRunning, polled, owed, observer>>

\* The loop raises: the coordinator is faulted, or the clock cannot be read.
LoopRaises ==
    /\ rpc = "loop" /\ ~LoopEnds /\ ~WorkerLost
    /\ GoTo("closing", {"run"})
    /\ UNCHANGED <<coordinatorVars, lifecycle, cycleRunning, polled, owed, observer>>

\* Work is due: the cycle is admitted and the lock given up.
Admit ==
    /\ rpc = "loop" /\ ~LoopEnds /\ ~WorkerLost
    /\ state = "waiting"
    /\ \E now \in SaveCoordinator!Readings : now >= nextDue /\ polled' = now
    /\ cycleRunning' = TRUE
    /\ GoTo("cycle", {})
    /\ UNCHANGED <<coordinatorVars, lifecycle, owed, observer>>

EndCycle(place, kinds) ==
    /\ cycleRunning' = FALSE
    /\ polled' = 0
    /\ GoTo(place, kinds)

\* The driver's take_due.  A notice since the loop looked may have put the
\* work off: then there is none, and nothing to deliver.  It may also raise.
TakeDue ==
    /\ rpc = "cycle" /\ pc[Main] = "ready"
    /\ \/ /\ SaveCoordinator!TakeDue(Main) /\ lastClock' >= polled
          /\ IF pc'[Main] = "reading" THEN UNCHANGED runThread
             ELSE EndCycle("loop", {}) /\ UNCHANGED owed
       \/ /\ EndCycle("closing", {"run"})
          /\ UNCHANGED <<coordinatorVars, owed>>
    /\ UNCHANGED <<lifecycle, observer>>

Read ==
    /\ rpc = "cycle" /\ SaveCoordinator!Read(Main)
    /\ UNCHANGED <<lifecycle, runThread, observer>>

\* Fault: whatever the driver raises, the loop goes on.
GoesOnAfterAll == {"source_not_ready", "reader_rejected", "faulted"}

\* The outcomes whose errors the loop goes on after.
GoesOnAfter == {"source_not_ready", "reader_rejected"}

\* finish ends the driver's call: a result, an error the loop goes on after,
\* or one that ends the run.
Finish ==
    /\ rpc = "cycle" /\ SaveCoordinator!Finish(Main)
    /\ CASE outcome[Main] = "success" ->
              GoTo("deliver", {}) /\ owed' = TRUE /\ UNCHANGED <<cycleRunning, polled>>
         [] outcome[Main] \in GoesOnAfter ->
              EndCycle("loop", {}) /\ UNCHANGED owed
         [] OTHER -> EndCycle("closing", {"run"}) /\ UNCHANGED owed
    /\ UNCHANGED <<lifecycle, observer>>

FinishRaises ==
    /\ rpc = "cycle" /\ SaveCoordinator!FinishRaises(Main)
    /\ UNCHANGED <<lifecycle, runThread, observer>>

\* The guard, and then the driver raises what finish raised.
ForceFault ==
    /\ rpc = "cycle" /\ SaveCoordinator!ForceFault(Main)
    /\ EndCycle("closing", {"run"})
    /\ UNCHANGED <<owed, lifecycle, observer>>

\* Fault: a stop takes back what was read.
UnlessStopped == ~asyncError /\ ~stopRequested

ShouldDeliver == ~asyncError

\* A fault seen before now takes the result back; a stop does not.
Deliver ==
    /\ rpc = "deliver"
    /\ IF ShouldDeliver
       THEN GoTo("consuming", {}) /\ owed' = FALSE /\ UNCHANGED <<cycleRunning, polled>>
       ELSE EndCycle("loop", {}) /\ UNCHANGED owed
    /\ UNCHANGED <<coordinatorVars, lifecycle, observer>>

\* External: the consumer returns or raises.
Consume ==
    /\ rpc = "consuming"
    /\ EndCycle("loop", {}) \/ EndCycle("closing", {"run"})
    /\ UNCHANGED <<coordinatorVars, lifecycle, owed, observer>>

\* Teardown begins: nothing is admitted any more.
Close ==
    /\ rpc = "closing"
    /\ admissionOpen' = FALSE
    /\ stopRequested' = TRUE
    /\ phase' = IF phase = "running" THEN "stopping" ELSE phase
    /\ GoTo("stopping", {})
    /\ UNCHANGED <<coordinatorVars, asyncError, cycleRunning, polled, owed, observer>>

\* observer.stop(): it tells the dispatcher, and perhaps the emitter; or it
\* raises, before or after doing so.
StopObserver ==
    /\ rpc = "stopping"
    /\ IF allocated
       THEN \/ told' \in {Worker, {"dispatcher"}} /\ GoTo("stopping_workers", {})
            \/ told' \in SUBSET Worker /\ GoTo("stopping_workers", {"teardown"})
       ELSE GoTo("stopping_workers", {}) /\ UNCHANGED told
    /\ UNCHANGED <<coordinatorVars, lifecycle, cycleRunning, polled, owed,
                   allocated, alive, queue, calling>>

\* Fault: only the observer is stopped.
NobodyElse == {}

StillRunning == alive \ {"dispatcher"}

StopWorkers ==
    /\ rpc = "stopping_workers"
    /\ \/ told' = told \cup StillRunning /\ GoTo("joining", {})
       \/ StillRunning # {} /\ GoTo("joining", {"teardown"}) /\ UNCHANGED told
    /\ UNCHANGED <<coordinatorVars, lifecycle, cycleRunning, polled, owed,
                   allocated, alive, queue, calling>>

\* Fault: only the observer is waited for.
JoinsObserver == alive \cap {"dispatcher"}

Joins == alive

\* Every thread that was started is waited for, however long it takes.
Join ==
    /\ rpc = "joining" /\ Joins = {}
    /\ GoTo("publishing", {})
    /\ UNCHANGED <<coordinatorVars, lifecycle, cycleRunning, polled, owed, observer>>

JoinRaises ==
    /\ rpc = "joining" /\ Joins # {}
    /\ GoTo("publishing", {"teardown"})
    /\ UNCHANGED <<coordinatorVars, lifecycle, cycleRunning, polled, owed, observer>>

\* The terminal state; run raises whatever was collected.
Publish ==
    /\ rpc = "publishing"
    /\ phase' = IF failure # {} \/ asyncError THEN "failed" ELSE "stopped"
    /\ GoTo("done", {})
    /\ UNCHANGED <<coordinatorVars, stopRequested, admissionOpen, asyncError,
                   cycleRunning, polled, owed, observer>>

\* The end of run, or of a runtime stopped before it ran.
Terminated ==
    /\ phase \in Terminal /\ rpc \in {"ready", "done"}
    /\ UNCHANGED vars

\* What the run thread does of its own accord once run was called.
RunThread ==
    \/ Allocate \/ Schedule \/ Start \/ Announce
    \/ LeaveLoop \/ Admit \/ TakeDue \/ Read \/ Finish
    \/ ForceFault \/ Deliver \/ Consume
    \/ Close \/ StopObserver \/ StopWorkers \/ Join \/ Publish

Next ==
    \/ Run \/ RunThread \/ LoopRaises \/ FinishRaises \/ JoinRaises
    \/ RequestStop \/ Save
    \/ DispatchEvent \/ DispatchMalformed \/ DeliverEvent \/ DeliverFault
    \/ \E w \in Worker : WorkerDies(w)
    \/ Terminated

Spec == Init /\ [][Next]_vars

\* The scheduler runs every thread; the acquisition and the consumer return;
\* a thread that is told to stop ends.  Nobody need call run, save or stop,
\* and nothing need fail.
Fairness ==
    /\ WF_vars(RunThread)
    /\ WF_vars(DispatchEvent)
    /\ WF_vars(DeliverEvent) /\ WF_vars(DeliverFault)
    /\ \A w \in Worker : WF_vars(WorkerExits(w))

FairSpec == Spec /\ Fairness

-----------------------------------------------------------------------------
(* Properties. *)

\* The runtime's fields, the run thread and the observer have their types.
TypeOK ==
    /\ SaveCoordinator!TypeOK
    /\ phase \in {"new", "running", "stopping"} \cup Terminal
    /\ stopRequested \in BOOLEAN /\ admissionOpen \in BOOLEAN
    /\ asyncError \in BOOLEAN /\ cycleRunning \in BOOLEAN /\ owed \in BOOLEAN
    /\ rpc \in {"ready", "allocate", "schedule", "start", "announce", "loop",
                "cycle", "deliver", "consuming", "closing", "stopping",
                "stopping_workers", "joining", "publishing", "done"}
    /\ failure \subseteq {"start", "run", "teardown"}
    /\ polled \in 0..MaxClock
    /\ allocated \in BOOLEAN /\ queue \in BOOLEAN
    /\ alive \subseteq Worker /\ told \subseteq Worker
    /\ calling \in {"nothing", "event", "malformed"}

\* A runtime that says it stopped left nothing behind: no thread of the
\* observer runs, no read is open, the coordinator is not faulted, and no
\* fault was recorded anywhere, however stop and faults raced.
StoppedIsClean ==
    phase = "stopped" =>
        /\ alive = {} /\ calling = "nothing"
        /\ state \notin {"running", "faulted"}
        /\ failure = {} /\ ~asyncError /\ ~owed

\* No save slips through the start: when the watch is quiet (nothing due, no
\* event on its way, both threads well), the last concluded read saw the
\* workbook as it is, whether it was saved before, during or after the start.
QuietMeansRead ==
    /\ rpc = "loop" /\ admissionOpen /\ alive = Worker
    /\ state = "idle" /\ ~queue /\ calling = "nothing"
    => handled = file

\* A successful read reaches the consumer, also when a stop comes between the
\* read and the delivery; only a fault takes it back.
ResultReachesConsumer ==
    owed /\ rpc # "deliver" => asyncError \/ failure # {}

\* A fault of the driver is never taken for one of the errors the loop goes
\* on after: a faulted coordinator has ended the run.
FaultEndsRun == state = "faulted" => "run" \in failure

\* A stop or a fault that comes before the admission of a cycle prevents it,
\* though work is due and whoever reports it holds the lock but for a moment.
NoCycleAfterStop ==
    [][(stopRequested \/ asyncError) /\ ~cycleRunning => ~cycleRunning']_vars

Ended == phase \in Terminal

\* After the end nothing changes any more: a late stop does not reopen the
\* state, and a thread that outlived a failed teardown cannot reach the
\* coordinator.
EndIsFinal ==
    [][Ended => UNCHANGED <<phase, coordinator>>]_vars

\* A stop ends the run, if tearing down the observer does not fail: nobody
\* waits for a lock held by the thread that waits for him.
StopEnds ==
    stopRequested ~> phase \in Terminal \/ "teardown" \in failure

\* The bound on the clock, not the code, keeps the work from becoming due.
OutOfTime == nextDue # None /\ nextDue > MaxClock

\* Every save is eventually read while the watch goes on: through the event,
\* the pause, the retries and the follow-ups.
SaveIsRead ==
    phase = "running" /\ handled < file
        ~> handled = file \/ phase # "running" \/ OutOfTime
=============================================================================
