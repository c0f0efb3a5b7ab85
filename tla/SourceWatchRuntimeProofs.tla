---------------------- MODULE SourceWatchRuntimeProofs ----------------------
(***************************************************************************)
(* What SourceWatchRuntime's runs check on small instances, proved for any *)
(* pause, any clock, any number of saves and every failure of the observer *)
(* and its threads.                                                        *)
(*                                                                         *)
(* A step of the runtime is a step of the coordinator with one driver, or  *)
(* none: the coordinator's own theorems hold inside the runtime as they    *)
(* stand, and only what the runtime adds is proved here.                   *)
(***************************************************************************)
EXTENDS SourceWatchRuntime, TLAPS

Coordinated == INSTANCE SaveImportCoordinatorProofs WITH Driver <- {Main}

-----------------------------------------------------------------------------
(* The coordinator inside. *)

\* The coordinator's definitions, instantiated here and in the runtime.
LEMMA SameInit == SaveCoordinator!Init <=> Coordinated!Init
BY DEF SaveCoordinator!Init, Coordinated!Init

LEMMA SameNext == SaveCoordinator!Next <=> Coordinated!Next
BY DEF SaveCoordinator!Next, Coordinated!Next,
  SaveCoordinator!Notify, Coordinated!Notify,
  SaveCoordinator!Resume, Coordinated!Resume,
  SaveCoordinator!Save, Coordinated!Save,
  SaveCoordinator!TakeDue, Coordinated!TakeDue,
  SaveCoordinator!Read, Coordinated!Read,
  SaveCoordinator!Finish, Coordinated!Finish,
  SaveCoordinator!FinishRaises, Coordinated!FinishRaises,
  SaveCoordinator!ForceFault, Coordinated!ForceFault,
  SaveCoordinator!FinishAgain, Coordinated!FinishAgain,
  SaveCoordinator!Readings, Coordinated!Readings,
  SaveCoordinator!WaitUntil, Coordinated!WaitUntil,
  SaveCoordinator!NoticeWhileBusy, Coordinated!NoticeWhileBusy,
  SaveCoordinator!Due, Coordinated!Due,
  SaveCoordinator!IsActive, Coordinated!IsActive,
  SaveCoordinator!Conclude, Coordinated!Conclude,
  SaveCoordinator!Conclusive, Coordinated!Conclusive,
  SaveCoordinator!RetryLater, Coordinated!RetryLater,
  SaveCoordinator!EnterFault, Coordinated!EnterFault,
  SaveCoordinator!SourceReadOutcome, Coordinated!SourceReadOutcome,
  SaveCoordinator!coordinator, Coordinated!coordinator,
  SaveCoordinator!drivers, Coordinated!drivers

LEMMA SameVars ==
    /\ (UNCHANGED coordinatorVars) => UNCHANGED SaveCoordinator!vars
    /\ (UNCHANGED SaveCoordinator!vars) => UNCHANGED Coordinated!vars
BY DEF SaveCoordinator!vars, Coordinated!vars, coordinatorVars,
  SaveCoordinator!coordinator, Coordinated!coordinator, coordinator,
  SaveCoordinator!drivers, Coordinated!drivers

LEMMA CoordinatorStep == [Next]_vars => [SaveCoordinator!Next]_(SaveCoordinator!vars)
<1> SUFFICES ASSUME [Next]_vars PROVE SaveCoordinator!Next \/ UNCHANGED coordinatorVars
  BY SameVars
<1> USE DEF SaveCoordinator!Next
<1>1. CASE UNCHANGED vars
  BY <1>1 DEF vars
<1>2. ASSUME Run \/ Allocate \/ Schedule \/ Start \/ LeaveLoop \/ LoopRaises
             \/ Admit \/ Deliver \/ Consume \/ Close
      PROVE  UNCHANGED coordinatorVars
  BY <1>2 DEF Run, Allocate, Schedule, Start, LeaveLoop, LoopRaises, Admit, Deliver, Consume, Close
<1>3. ASSUME StopObserver \/ StopWorkers \/ Join \/ JoinRaises \/ Publish
             \/ RequestStop \/ DispatchEvent \/ DispatchMalformed \/ DeliverFault
             \/ (\E w \in Worker : WorkerDies(w)) \/ Terminated
      PROVE  UNCHANGED coordinatorVars
  BY <1>3 DEF StopObserver, StopWorkers, Join, JoinRaises, Publish, RequestStop,
    DispatchEvent, DispatchMalformed, DeliverFault, WorkerDies, Terminated, vars
<1>4. CASE Announce
  BY <1>4 DEF Announce, InitialNotice
<1>5. CASE DeliverEvent
  BY <1>5 DEF DeliverEvent
<1>6. CASE Save
  BY <1>6 DEF Save
<1>7. CASE TakeDue \/ Read \/ Finish \/ FinishRaises \/ ForceFault
  BY <1>7 DEF TakeDue, Read, Finish, FinishRaises, ForceFault
<1> QED
  BY <1>1, <1>2, <1>3, <1>4, <1>5, <1>6, <1>7 DEF Next, RunThread

\* The runtime uses its coordinator as it is meant to be used: the run thread is
\* its only driver, and notices, cycles and stops reach it only through its
\* methods, whoever holds the lifecycle lock.
THEOREM ImplementsCoordinator == Spec => SaveCoordinator!Spec
<1>1. Init => SaveCoordinator!Init
  BY DEF Init
<1> QED
  BY <1>1, CoordinatorStep, PTL DEF Spec, SaveCoordinator!Spec

-----------------------------------------------------------------------------
(* The inductive invariant. *)

InCycle == rpc \in {"cycle", "deliver", "consuming"}

\* What the phase, the flags and the place of the run thread say of each other.
LifeInv ==
    /\ phase = "new" => rpc = "ready"
    /\ rpc = "ready" =>
        /\ phase \in {"new", "stopped"}
        /\ failure = {} /\ ~asyncError /\ ~admissionOpen /\ ~owed
        /\ state = "idle"
    /\ rpc \notin {"ready", "done"} => phase \in {"running", "stopping"}
    /\ rpc = "done" => phase \in Terminal
    /\ stopRequested <=> phase \in {"stopping"} \cup Terminal
    /\ stopRequested \/ asyncError => ~admissionOpen
    /\ rpc \in {"stopping", "stopping_workers", "joining", "publishing"} => stopRequested
    /\ phase = "stopped" => failure = {} /\ ~asyncError
    /\ cycleRunning <=> InCycle

\* The driver is at work only in the middle of a cycle.
CycleInv == pc[Main] # "ready" => rpc = "cycle"

\* No thread before the start, none after a teardown that did not fail, and no
\* callback without the dispatcher that makes it.
ObserverInv ==
    /\ rpc \in {"ready", "allocate", "schedule", "start"} => alive = {}
    /\ rpc \in {"publishing", "done"} => alive = {} \/ "teardown" \in failure
    /\ calling # "nothing" => "dispatcher" \in alive

\* No read sees what was not saved yet.
SeenInv == handled <= file /\ seen[Main] <= file

\* While both threads watch, a save that was not heard of is on its way.
WatchInv ==
    (rpc = "loop" \/ InCycle) /\ admissionOpen /\ alive = Worker /\ ~queue /\ calling # "event"
    => heard = file

IInv ==
    /\ Coordinated!IInv /\ TypeOK
    /\ LifeInv /\ CycleInv /\ ObserverInv /\ SeenInv /\ WatchInv
    /\ FaultEndsRun /\ ResultReachesConsumer

\* The instance's type invariant is that of the module the runtime uses.
LEMMA SameTypes == Coordinated!IInv => SaveCoordinator!TypeOK
BY DEF Coordinated!IInv, Coordinated!TypeOK, SaveCoordinator!TypeOK,
  Coordinated!Attempt, SaveCoordinator!Attempt,
  Coordinated!SourceReadOutcome, SaveCoordinator!SourceReadOutcome

LEMMA InitIInv == Init => IInv
<1> SUFFICES ASSUME Init PROVE IInv
  OBVIOUS
<1>1. Coordinated!IInv
  BY SameInit, Coordinated!InitInv, RuntimeAssumption DEF Init
<1>2. TypeOK
  <2>1. SaveCoordinator!TypeOK
    BY <1>1, SameTypes
  <2>2. polled \in 0..MaxClock
    BY RuntimeAssumption DEF Init, RuntimeAssumption
  <2> QED
    BY <2>1, <2>2 DEF Init, TypeOK, Terminal
<1>3. LifeInv
  BY DEF Init, LifeInv, InCycle, SaveCoordinator!Init, Terminal
<1>4. CycleInv /\ SeenInv
  BY DEF Init, SaveCoordinator!Init, CycleInv, SeenInv
<1>5. ObserverInv /\ WatchInv /\ FaultEndsRun /\ ResultReachesConsumer
  BY DEF Init, SaveCoordinator!Init, ObserverInv, WatchInv, InCycle, FaultEndsRun,
    ResultReachesConsumer
<1> QED
  BY <1>1, <1>2, <1>3, <1>4, <1>5 DEF IInv

-----------------------------------------------------------------------------
(* What the coordinator's methods do to what the runtime's invariant tells. *)

LEMMA CoordinatorKeeps == Coordinated!IInv /\ [Next]_vars => Coordinated!IInv'
BY CoordinatorStep, SameNext, SameVars, Coordinated!StepKeeps, RuntimeAssumption

\* A read is open exactly while the driver is not ready, and work that waits has
\* a time at which it is due.
LEMMA CoordinatorFacts ==
    Coordinated!IInv =>
        /\ state = "running" <=> pc[Main] # "ready"
        /\ heard <= file
        /\ state = "idle" => handled >= heard
BY DEF Coordinated!IInv, Coordinated!TokenInv, Coordinated!Working, Coordinated!SaveInv

LEMMA NotifyActs ==
    SaveCoordinator!Notify =>
        /\ heard' = file /\ UNCHANGED <<pc, seen, file, handled>>
        /\ state' = "faulted" => state = "faulted"
BY DEF SaveCoordinator!Notify, SaveCoordinator!WaitUntil, SaveCoordinator!NoticeWhileBusy,
  SaveCoordinator!drivers

LEMMA FinishActs ==
    TypeOK /\ SaveCoordinator!Finish(Main) =>
        /\ pc'[Main] = "ready" /\ UNCHANGED <<heard, seen, file>>
        /\ handled' \in {handled, seen[Main]}
        /\ state' = "faulted" => outcome[Main] = "faulted"
BY DEF TypeOK, SaveCoordinator!TypeOK, SaveCoordinator!Finish, SaveCoordinator!Conclude,
  SaveCoordinator!Conclusive, SaveCoordinator!WaitUntil, SaveCoordinator!RetryLater,
  SaveCoordinator!EnterFault

LEMMA ForceFaultActs ==
    TypeOK /\ SaveCoordinator!ForceFault(Main) =>
        pc'[Main] = "ready" /\ UNCHANGED <<heard, seen, file, handled>>
BY DEF TypeOK, SaveCoordinator!TypeOK, SaveCoordinator!ForceFault

LEMMA TakeDueActs ==
    TypeOK /\ SaveCoordinator!TakeDue(Main) =>
        /\ UNCHANGED <<heard, seen, file, handled>>
        /\ state' = "faulted" => state = "faulted"
        /\ pc'[Main] \in {"ready", "reading"}
BY DEF TypeOK, SaveCoordinator!TypeOK, SaveCoordinator!TakeDue

-----------------------------------------------------------------------------
(* Every step keeps the invariant. *)

LEMMA TypeStep == IInv /\ [Next]_vars => TypeOK'
<1> SUFFICES ASSUME IInv, [Next]_vars PROVE TypeOK'
  OBVIOUS
<1> USE DEF Next, RunThread, Run, Allocate, Schedule, Start, Announce, LeaveLoop,
    LoopRaises, Admit, TakeDue, Read, Finish, FinishRaises, ForceFault, Deliver, Consume,
    Close, StopObserver, StopWorkers, Join, JoinRaises, Publish, RequestStop, Save,
    DispatchEvent, DispatchMalformed, DeliverEvent, DeliverFault, WorkerDies, Terminated
<1>1. SaveCoordinator!TypeOK'
  <2>1. Coordinated!IInv'
    BY CoordinatorKeeps DEF IInv
  <2> QED
    BY <2>1 DEF Coordinated!IInv, Coordinated!TypeOK, SaveCoordinator!TypeOK,
      Coordinated!Attempt, SaveCoordinator!Attempt,
      Coordinated!SourceReadOutcome, SaveCoordinator!SourceReadOutcome
<1>2. polled' \in 0..MaxClock
  <2>1. lastClock \in Nat /\ polled \in 0..MaxClock /\ MaxClock \in Nat
    BY RuntimeAssumption DEF IInv, TypeOK, SaveCoordinator!TypeOK, RuntimeAssumption
  <2>2. polled' \in {0, polled} \/ \E now \in SaveCoordinator!Readings : polled' = now
    BY DEF vars, runThread, EndCycle
  <2> QED
    BY <2>1, <2>2 DEF SaveCoordinator!Readings
<1>3. /\ phase' \in {"new", "running", "stopping"} \cup Terminal
      /\ stopRequested' \in BOOLEAN /\ admissionOpen' \in BOOLEAN /\ asyncError' \in BOOLEAN
  BY DEF IInv, TypeOK, Terminal, vars, lifecycle, AfterStop, RecordAsyncError
<1>4. cycleRunning' \in BOOLEAN /\ owed' \in BOOLEAN
  BY DEF IInv, TypeOK, vars, runThread, EndCycle
<1>5. /\ rpc' \in {"ready", "allocate", "schedule", "start", "announce", "loop",
                "cycle", "deliver", "consuming", "closing", "stopping",
                "stopping_workers", "joining", "publishing", "done"}
      /\ failure' \subseteq {"start", "run", "teardown"}
  BY DEF IInv, TypeOK, vars, runThread, EndCycle, GoTo
<1>6. /\ allocated' \in BOOLEAN /\ queue' \in BOOLEAN
      /\ calling' \in {"nothing", "event", "malformed"}
  BY DEF IInv, TypeOK, vars, observer
<1>7. alive' \subseteq Worker /\ told' \subseteq Worker
  BY DEF IInv, TypeOK, vars, observer, Worker, StillRunning
<1> QED
  BY <1>1, <1>2, <1>3, <1>4, <1>5, <1>6, <1>7 DEF TypeOK

LEMMA LifeStep == IInv /\ [Next]_vars => LifeInv'
<1> SUFFICES ASSUME IInv, [Next]_vars PROVE LifeInv'
  OBVIOUS
<1>1. TypeOK /\ LifeInv
  BY DEF IInv
<1>2. CASE Run
  BY <1>1, <1>2 DEF TypeOK, LifeInv, InCycle, Terminal, Run, GoTo
<1>3. CASE Allocate \/ Schedule \/ Start
  BY <1>1, <1>3 DEF TypeOK, LifeInv, InCycle, Terminal, Allocate, Schedule, Start, GoTo, lifecycle
<1>4. CASE Announce
  BY <1>1, <1>4 DEF TypeOK, LifeInv, InCycle, Terminal, Announce, GoTo, lifecycle, RecordAsyncError
<1>5. CASE LeaveLoop \/ LoopRaises
  BY <1>1, <1>5 DEF TypeOK, LifeInv, InCycle, Terminal, LeaveLoop, LoopRaises, GoTo, lifecycle,
    RecordAsyncError
<1>6. CASE Admit
  BY <1>1, <1>6 DEF TypeOK, LifeInv, InCycle, Terminal, Admit, GoTo, lifecycle
<1>7. CASE TakeDue \/ Read \/ Finish \/ FinishRaises \/ ForceFault
  BY <1>1, <1>7 DEF TypeOK, LifeInv, InCycle, Terminal, TakeDue, Read, Finish, FinishRaises,
    ForceFault, EndCycle, GoTo, lifecycle, runThread
<1>8. CASE Deliver \/ Consume
  BY <1>1, <1>8 DEF TypeOK, LifeInv, InCycle, Terminal, Deliver, Consume, EndCycle, GoTo, lifecycle
<1>9. CASE Close
  BY <1>1, <1>9 DEF TypeOK, LifeInv, InCycle, Terminal, Close, GoTo
<1>10. CASE StopObserver \/ StopWorkers \/ Join \/ JoinRaises
  BY <1>1, <1>10 DEF TypeOK, LifeInv, InCycle, Terminal, StopObserver, StopWorkers, Join,
    JoinRaises, GoTo, lifecycle
<1>11. CASE Publish
  BY <1>1, <1>11 DEF TypeOK, LifeInv, InCycle, Terminal, Publish, GoTo
<1>12. CASE RequestStop
  BY <1>1, <1>12 DEF TypeOK, LifeInv, InCycle, Terminal, RequestStop, AfterStop,
    coordinatorVars, coordinator, runThread
<1>13. CASE DeliverEvent
  BY <1>1, <1>13 DEF TypeOK, LifeInv, InCycle, Terminal, DeliverEvent, Admitting,
    RecordAsyncError, lifecycle, runThread, coordinatorVars, coordinator
<1>14. CASE DeliverFault
  BY <1>1, <1>14 DEF TypeOK, LifeInv, InCycle, Terminal, DeliverFault,
    RecordAsyncError, lifecycle, runThread, coordinatorVars, coordinator
<1>15. CASE Save
  BY <1>1, <1>15 DEF TypeOK, LifeInv, InCycle, Terminal, Save, SaveCoordinator!Save,
    SaveCoordinator!coordinator, lifecycle, runThread
<1>16. CASE DispatchEvent \/ DispatchMalformed \/ (\E w \in Worker : WorkerDies(w))
  <2>1. UNCHANGED <<coordinatorVars, lifecycle, runThread>>
    BY <1>16 DEF DispatchEvent, DispatchMalformed, WorkerDies
  <2> QED
    BY <1>1, <2>1 DEF LifeInv, InCycle, lifecycle, runThread, coordinatorVars, coordinator
<1>17. CASE Terminated \/ UNCHANGED vars
  BY <1>1, <1>17 DEF LifeInv, InCycle, Terminated, vars, lifecycle, runThread, coordinatorVars,
    coordinator
<1> QED
  BY <1>2, <1>3, <1>4, <1>5, <1>6, <1>7, <1>8, <1>9, <1>10, <1>11, <1>12, <1>13, <1>14, <1>15,
    <1>16, <1>17 DEF Next, RunThread

LEMMA DriverStep == IInv /\ [Next]_vars => CycleInv' /\ SeenInv'
<1> SUFFICES ASSUME IInv, [Next]_vars PROVE CycleInv' /\ SeenInv'
  OBVIOUS
<1>1. TypeOK /\ CycleInv /\ SeenInv /\ LifeInv
  BY DEF IInv
<1>2. handled \in Nat /\ seen \in [{Main} -> Nat] /\ file \in Nat
      /\ pc \in [{Main} -> {"ready", "reading", "finishing", "guarding"}]
  BY <1>1 DEF TypeOK, SaveCoordinator!TypeOK
<1>3. CASE UNCHANGED coordinatorVars /\ (rpc = "cycle" => rpc' = "cycle")
  BY <1>1, <1>3 DEF CycleInv, SeenInv, coordinatorVars
<1>4. CASE SaveCoordinator!Notify /\ (rpc = "cycle" => rpc' = "cycle")
  BY <1>1, <1>4, NotifyActs DEF CycleInv, SeenInv
<1>5. CASE Save
  BY <1>1, <1>2, <1>5 DEF Save, SaveCoordinator!Save, SaveCoordinator!drivers, runThread,
    CycleInv, SeenInv
<1>6. CASE Read
  BY <1>1, <1>2, <1>6 DEF Read, SaveCoordinator!Read, runThread, CycleInv, SeenInv
<1>7. CASE TakeDue
  <2>1. CASE /\ SaveCoordinator!TakeDue(Main)
             /\ pc'[Main] = "reading" => UNCHANGED runThread
    <3>1. rpc = "cycle"
      BY <1>7 DEF TakeDue
    <3> QED
      BY <1>1, <2>1, <3>1, TakeDueActs DEF runThread, CycleInv, SeenInv
  <2>2. CASE UNCHANGED coordinatorVars
    BY <1>1, <1>7, <2>2 DEF TakeDue, coordinatorVars, CycleInv, SeenInv
  <2> QED
    BY <1>7, <2>1, <2>2 DEF TakeDue
<1>8. CASE Finish
  BY <1>1, <1>2, <1>8, FinishActs DEF Finish, CycleInv, SeenInv
<1>9. CASE ForceFault
  BY <1>1, <1>2, <1>9, ForceFaultActs DEF ForceFault, CycleInv, SeenInv
<1>10. CASE FinishRaises
  BY <1>1, <1>2, <1>10 DEF FinishRaises, SaveCoordinator!FinishRaises, runThread, CycleInv, SeenInv
<1>11. \/ UNCHANGED coordinatorVars /\ (rpc = "cycle" => rpc' = "cycle")
       \/ SaveCoordinator!Notify /\ (rpc = "cycle" => rpc' = "cycle")
       \/ Save \/ Read \/ TakeDue \/ Finish \/ ForceFault \/ FinishRaises
  BY DEF Next, RunThread, Run, Allocate, Schedule, Start, Announce, InitialNotice, LeaveLoop,
    LoopRaises, Admit, Deliver, Consume, Close, StopObserver, StopWorkers, Join, JoinRaises,
    Publish, RequestStop, DispatchEvent, DispatchMalformed, DeliverEvent, DeliverFault,
    WorkerDies, Terminated, GoTo, EndCycle, runThread, vars
<1> QED
  BY <1>3, <1>4, <1>5, <1>6, <1>7, <1>8, <1>9, <1>10, <1>11

LEMMA ObserverStep == IInv /\ [Next]_vars => ObserverInv'
<1> SUFFICES ASSUME IInv, [Next]_vars PROVE ObserverInv'
  OBVIOUS
<1>1. TypeOK /\ ObserverInv
  BY DEF IInv
<1>2. CASE Start
  BY <1>1, <1>2 DEF TypeOK, ObserverInv, Start, GoTo, Worker
<1>3. CASE \E w \in Worker : WorkerDies(w)
  BY <1>1, <1>3 DEF TypeOK, ObserverInv, WorkerDies, Worker, runThread
<1>4. CASE DispatchEvent \/ DispatchMalformed \/ DeliverEvent \/ DeliverFault
  BY <1>1, <1>4 DEF ObserverInv, DispatchEvent, DispatchMalformed, DispatcherReady,
    DeliverEvent, DeliverFault, runThread
<1>5. CASE Join
  BY <1>1, <1>5 DEF ObserverInv, Join, Joins, GoTo, observer
<1>6. CASE JoinRaises
  BY <1>1, <1>6 DEF ObserverInv, JoinRaises, GoTo, observer
<1>7. CASE /\ UNCHANGED <<alive, calling>>
           /\ failure \subseteq failure'
           /\ \/ rpc' = rpc
              \/ rpc \in {"ready", "allocate", "schedule"}
              \/ rpc' \notin {"ready", "allocate", "schedule", "start", "publishing", "done"}
              \/ rpc = "publishing" /\ rpc' = "done"
  BY <1>1, <1>7 DEF ObserverInv
<1> QED
  <2>1. CASE Run \/ Allocate \/ Schedule
    BY <2>1, <1>1, <1>7 DEF Run, Allocate, Schedule, GoTo, observer, ObserverInv
  <2>2. CASE Announce \/ LeaveLoop \/ LoopRaises \/ Admit
    BY <2>2, <1>7 DEF Announce, LeaveLoop, LoopRaises, Admit, GoTo, observer
  <2>3. CASE TakeDue \/ Read \/ Finish \/ FinishRaises \/ ForceFault \/ Deliver \/ Consume
    BY <2>3, <1>7 DEF TakeDue, Read, Finish, FinishRaises, ForceFault, Deliver, Consume,
      GoTo, EndCycle, observer, runThread
  <2>4. CASE Close \/ StopObserver \/ StopWorkers \/ Publish
    BY <2>4, <1>7 DEF Close, StopObserver, StopWorkers, Publish, GoTo, observer
  <2>5. CASE RequestStop \/ Save \/ Terminated \/ UNCHANGED vars
    BY <2>5, <1>7 DEF RequestStop, Save, Terminated, observer, runThread, vars
  <2> QED
    BY <1>2, <1>3, <1>4, <1>5, <1>6, <2>1, <2>2, <2>3, <2>4, <2>5 DEF Next, RunThread

LEMMA WatchStep == IInv /\ [Next]_vars => WatchInv'
<1> SUFFICES ASSUME IInv, [Next]_vars PROVE WatchInv'
  OBVIOUS
<1> DEFINE Watched == rpc = "loop" \/ InCycle
<1>1. TypeOK /\ WatchInv /\ LifeInv
  BY DEF IInv
<1>2. CASE Announce
  BY <1>2, NotifyActs DEF Announce, InitialNotice, RecordAsyncError, GoTo, WatchInv, InCycle
<1>3. CASE DeliverEvent
  <2>1. CASE UNCHANGED lifecycle /\ ~admissionOpen
    BY <2>1 DEF lifecycle, WatchInv
  <2>2. CASE heard' = file' \/ ~admissionOpen'
    BY <2>2 DEF WatchInv
  <2> QED
    BY <1>1, <1>3, <2>1, <2>2, NotifyActs DEF DeliverEvent, Admitting, RecordAsyncError, LifeInv
<1>4. CASE DeliverFault
  BY <1>1, <1>4 DEF DeliverFault, RecordAsyncError, WatchInv, InCycle, runThread, lifecycle,
    coordinatorVars
<1>5. CASE Save
  BY <1>5 DEF Save, WatchInv, Worker
<1>6. CASE DispatchEvent
  BY <1>6 DEF DispatchEvent, WatchInv
<1>7. CASE \E w \in Worker : WorkerDies(w)
  BY <1>7 DEF WorkerDies, WatchInv
<1>8. CASE Read \/ TakeDue \/ Finish \/ ForceFault \/ FinishRaises
  <2>1. UNCHANGED <<heard, file, lifecycle, observer>> /\ rpc = "cycle"
    BY <1>1, <1>8, TakeDueActs, FinishActs, ForceFaultActs DEF Read, SaveCoordinator!Read,
      TakeDue, Finish, ForceFault, FinishRaises, SaveCoordinator!FinishRaises, coordinatorVars
  <2> QED
    BY <1>1, <2>1 DEF WatchInv, InCycle, lifecycle, observer
<1>9. CASE Close \/ RequestStop
  BY <1>9 DEF Close, RequestStop, WatchInv
<1>10. CASE /\ UNCHANGED <<heard, file, admissionOpen, alive, queue>>
            /\ calling = "event" => calling' = "event"
            /\ Watched' => Watched
  BY <1>1, <1>10 DEF WatchInv
<1>11. CASE Run \/ Allocate \/ Schedule \/ Start
  BY <1>11 DEF Run, Allocate, Schedule, Start, GoTo, WatchInv, InCycle
<1>12. CASE StopObserver \/ StopWorkers \/ Join \/ JoinRaises \/ Publish
  BY <1>12 DEF StopObserver, StopWorkers, Join, JoinRaises, Publish, GoTo, WatchInv, InCycle
<1>13. CASE LeaveLoop \/ LoopRaises
  BY <1>13 DEF LeaveLoop, LoopRaises, GoTo, WatchInv, InCycle
<1>14. CASE Admit \/ Deliver \/ Consume \/ DispatchMalformed \/ Terminated \/ UNCHANGED vars
  BY <1>10, <1>14 DEF Admit, Deliver, Consume, DispatchMalformed, DispatcherReady, Terminated,
    EndCycle, GoTo, InCycle, vars, coordinatorVars, lifecycle, runThread, observer
<1> QED
  BY <1>2, <1>3, <1>4, <1>5, <1>6, <1>7, <1>8, <1>9, <1>11, <1>12, <1>13, <1>14
  DEF Next, RunThread

LEMMA FaultStep == IInv /\ [Next]_vars => FaultEndsRun' /\ ResultReachesConsumer'
<1> SUFFICES ASSUME IInv, [Next]_vars PROVE FaultEndsRun' /\ ResultReachesConsumer'
  OBVIOUS
<1>1. TypeOK /\ FaultEndsRun /\ ResultReachesConsumer /\ LifeInv
  BY DEF IInv
<1>2. CASE Finish
  <2>1. state' = "faulted" => outcome[Main] = "faulted"
    BY <1>1, <1>2, FinishActs DEF Finish
  <2> QED
    BY <1>1, <1>2, <2>1 DEF Finish, GoesOnAfter, EndCycle, GoTo, lifecycle,
      FaultEndsRun, ResultReachesConsumer
<1>3. CASE ForceFault
  BY <1>1, <1>3 DEF ForceFault, EndCycle, GoTo, FaultEndsRun, ResultReachesConsumer
<1>4. CASE TakeDue
  BY <1>1, <1>4, TakeDueActs DEF TakeDue, EndCycle, GoTo, coordinatorVars, coordinator,
    lifecycle, runThread, FaultEndsRun, ResultReachesConsumer
<1>5. CASE Deliver
  BY <1>1, <1>5 DEF Deliver, ShouldDeliver, EndCycle, GoTo, coordinatorVars, coordinator,
    lifecycle, FaultEndsRun, ResultReachesConsumer
<1>6. CASE /\ state' = "faulted" => state = "faulted"
           /\ UNCHANGED owed /\ (asyncError => asyncError')
           /\ failure \subseteq failure'
           /\ rpc = "deliver" => rpc' = rpc
  BY <1>1, <1>6 DEF FaultEndsRun, ResultReachesConsumer
<1> QED
  <2>1. CASE Run \/ Allocate \/ Schedule \/ Start
    BY <1>6, <2>1 DEF Run, Allocate, Schedule, Start, GoTo, lifecycle, coordinatorVars, coordinator
  <2>2. CASE Announce
    BY <1>6, <2>2, NotifyActs DEF Announce, InitialNotice, RecordAsyncError, GoTo, lifecycle,
      coordinatorVars, coordinator
  <2>3. CASE LeaveLoop \/ LoopRaises \/ Admit \/ Consume
    BY <1>6, <2>3 DEF LeaveLoop, LoopRaises, Admit, Consume, RecordAsyncError, EndCycle, GoTo,
      lifecycle, coordinatorVars, coordinator
  <2>4. CASE Read \/ FinishRaises
    BY <1>6, <2>4 DEF Read, SaveCoordinator!Read, FinishRaises, SaveCoordinator!FinishRaises,
      SaveCoordinator!coordinator, lifecycle, runThread
  <2>5. CASE Close \/ StopObserver \/ StopWorkers \/ Join \/ JoinRaises \/ Publish
    BY <1>6, <2>5 DEF Close, StopObserver, StopWorkers, Join, JoinRaises, Publish, GoTo,
      lifecycle, coordinatorVars, coordinator
  <2>6. CASE DeliverEvent
    BY <1>6, <2>6, NotifyActs DEF DeliverEvent, RecordAsyncError, lifecycle, runThread,
      coordinatorVars, coordinator
  <2>7. CASE Save
    BY <1>6, <2>7 DEF Save, SaveCoordinator!Save, SaveCoordinator!coordinator, lifecycle, runThread
  <2>8. CASE RequestStop \/ DispatchEvent \/ DispatchMalformed \/ DeliverFault
             \/ (\E w \in Worker : WorkerDies(w)) \/ Terminated \/ UNCHANGED vars
    <3>1. UNCHANGED <<coordinatorVars, runThread>> /\ (asyncError => asyncError')
      BY <2>8 DEF RequestStop, DispatchEvent, DispatchMalformed, DeliverFault, WorkerDies,
        Terminated, RecordAsyncError, lifecycle, vars
    <3> QED
      BY <1>6, <3>1 DEF runThread, coordinatorVars, coordinator
  <2> QED
    BY <1>2, <1>3, <1>4, <1>5, <2>1, <2>2, <2>3, <2>4, <2>5, <2>6, <2>7, <2>8
    DEF Next, RunThread

LEMMA NextKeeps == IInv /\ [Next]_vars => IInv'
BY CoordinatorKeeps, TypeStep, LifeStep, DriverStep, ObserverStep, WatchStep, FaultStep DEF IInv

-----------------------------------------------------------------------------
(* Theorems. *)

\* Everything the invariant says holds in every state of every run.
THEOREM Invariance == Spec => []IInv
BY InitIInv, NextKeeps, PTL DEF Spec

\* TypeOK: the fields of the runtime, its threads and the coordinator in it have
\* their types.
THEOREM TypeCorrect == Spec => []TypeOK
<1>1. IInv => TypeOK
  BY DEF IInv
<1> QED
  BY <1>1, Invariance, PTL

\* StoppedIsClean: a run that ends without an error leaves no thread, no callback,
\* no open read and no undelivered result, whatever raced with the stop.
THEOREM StopLeavesNothing == Spec => []StoppedIsClean
<1>1. IInv => StoppedIsClean
  <2> SUFFICES ASSUME IInv, phase = "stopped"
               PROVE  /\ alive = {} /\ calling = "nothing"
                      /\ state \notin {"running", "faulted"}
                      /\ failure = {} /\ ~asyncError /\ ~owed
    BY DEF StoppedIsClean
  <2>1. rpc \in {"ready", "done"} /\ failure = {} /\ ~asyncError
    BY DEF IInv, LifeInv
  <2>2. alive = {} /\ calling = "nothing"
    BY <2>1 DEF IInv, ObserverInv
  <2>3. state \notin {"running", "faulted"}
    BY <2>1, CoordinatorFacts DEF IInv, CycleInv, FaultEndsRun
  <2>4. ~owed
    BY <2>1 DEF IInv, ResultReachesConsumer
  <2> QED
    BY <2>1, <2>2, <2>3, <2>4
<1> QED
  BY <1>1, Invariance, PTL

\* QuietMeansRead: a watch that is quiet has read the workbook as it is.
THEOREM QuietWatchHasRead == Spec => []QuietMeansRead
<1>1. IInv => QuietMeansRead
  <2> SUFFICES ASSUME IInv, rpc = "loop", admissionOpen, alive = Worker,
                      state = "idle", ~queue, calling = "nothing"
               PROVE  handled = file
    BY DEF QuietMeansRead
  <2>1. heard = file
    BY DEF IInv, WatchInv
  <2>2. handled >= heard /\ handled <= file
    BY CoordinatorFacts DEF IInv, SeenInv
  <2>3. handled \in Nat /\ file \in Nat
    BY DEF IInv, TypeOK, SaveCoordinator!TypeOK
  <2> QED
    BY <2>1, <2>2, <2>3
<1> QED
  BY <1>1, Invariance, PTL

\* ResultReachesConsumer: between a successful read and its delivery a stop takes
\* nothing back.
THEOREM ResultsAreDelivered == Spec => []ResultReachesConsumer
<1>1. IInv => ResultReachesConsumer
  BY DEF IInv
<1> QED
  BY <1>1, Invariance, PTL

\* FaultEndsRun: the loop never goes on after a fault of the coordinator.
THEOREM FaultsEndTheRun == Spec => []FaultEndsRun
<1>1. IInv => FaultEndsRun
  BY DEF IInv
<1> QED
  BY <1>1, Invariance, PTL

\* NoCycleAfterStop: once a stop or a fault is on record no other cycle begins.
THEOREM StopPreventsCycles == Spec => NoCycleAfterStop
<1>1. [Next]_vars =>
        [(stopRequested \/ asyncError) /\ ~cycleRunning => ~cycleRunning']_vars
  BY DEF Next, RunThread, Run, Allocate, Schedule, Start, Announce, LeaveLoop, LoopRaises,
    Admit, LoopEnds, TakeDue, Read, Finish, FinishRaises, ForceFault, Deliver, Consume, Close,
    StopObserver, StopWorkers, Join, JoinRaises, Publish, RequestStop, Save, DispatchEvent,
    DispatchMalformed, DeliverEvent, DeliverFault, WorkerDies, Terminated, EndCycle, runThread, vars
<1> QED
  BY <1>1, PTL DEF Spec, NoCycleAfterStop

\* EndIsFinal: nothing that comes after the end reaches the state or the
\* coordinator, not even a thread that outlived a failed teardown.
THEOREM TheEndIsFinal == Spec => EndIsFinal
<1>1. IInv /\ [Next]_vars => [Ended => UNCHANGED <<phase, coordinator>>]_vars
  <2> SUFFICES ASSUME LifeInv, Next, Ended PROVE UNCHANGED <<phase, coordinator>>
    BY DEF IInv
  <2>1. rpc \in {"ready", "done"} /\ phase \notin {"new", "running", "stopping"} /\ ~admissionOpen
    BY DEF LifeInv, Ended, Terminal
  <2>2. \/ RequestStop \/ Save \/ DispatchEvent \/ DispatchMalformed \/ DeliverEvent
        \/ DeliverFault \/ (\E w \in Worker : WorkerDies(w)) \/ Terminated
    BY <2>1 DEF Next, RunThread, Run, Allocate, Schedule, Start, Announce, LeaveLoop, LoopRaises,
      Admit, TakeDue, Read, Finish, FinishRaises, ForceFault, Deliver, Consume, Close,
      StopObserver, StopWorkers, Join, JoinRaises, Publish
  <2>3. CASE RequestStop
    BY <2>1, <2>3 DEF RequestStop, AfterStop, coordinatorVars
  <2>4. CASE Save
    BY <2>4 DEF Save, SaveCoordinator!Save, SaveCoordinator!coordinator, coordinator, lifecycle
  <2>5. CASE DeliverEvent \/ DeliverFault
    BY <2>1, <2>5 DEF DeliverEvent, Admitting, DeliverFault, coordinatorVars, lifecycle
  <2>6. CASE DispatchEvent \/ DispatchMalformed \/ (\E w \in Worker : WorkerDies(w)) \/ Terminated
    BY <2>6 DEF DispatchEvent, DispatchMalformed, WorkerDies, Terminated, vars, coordinatorVars,
      lifecycle
  <2> QED
    BY <2>2, <2>3, <2>4, <2>5, <2>6
<1> QED
  BY <1>1, Invariance, PTL DEF Spec, EndIsFinal
=============================================================================
