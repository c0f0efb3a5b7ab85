----------------------- MODULE SaveImportCoordinator -----------------------
(***************************************************************************)
(* The save coordinator of the local agent: save_import_coordinator.py.    *)
(*                                                                         *)
(* Notices of the file watcher and the drivers that read the workbook meet *)
(* in one object behind one lock; every method is one atomic step.  A      *)
(* driver (read_due_source, read_due_identified_source) takes an attempt,  *)
(* reads the workbook outside the lock and gives the attempt back.         *)
(*                                                                         *)
(* Time: a method reads the monotonic clock once, under the lock; the      *)
(* reading is any instant not before the last one.  A clock that fails or  *)
(* goes backwards makes the method raise before it changes anything, which *)
(* is no step, except in finish, where the driver's guard takes over.      *)
(***************************************************************************)
EXTENDS Integers

CONSTANTS
    Driver,      \* threads that call read_due_source
    Debounce,    \* SAVE_DEBOUNCE_NS
    None,
    MaxClock,    \* bound: the last instant the clock shows
    MaxSaves     \* bound: how often the workbook is saved

ASSUME CoordinatorAssumption ==
    /\ Debounce \in Nat \ {0}
    /\ MaxClock \in Nat /\ MaxSaves \in Nat
    /\ None \notin Nat /\ None \notin [id : Nat, started : Nat]

VARIABLES
    state,            \* SaveCoordinatorState
    latestNotice,     \* _latest_notice_ns
    nextDue,          \* _next_due_ns
    pendingFollowup,  \* _pending_followup
    activeAttempt,    \* _active_attempt
    lastClock,        \* _last_clock_ns
    issued,           \* attempts issued so far: what makes a token unique
    pc,               \* where each driver is
    attempt,          \* the last attempt each driver took, kept after use
    outcome,          \* how its read ended
    seen,             \* the version of the workbook its snapshot holds
    file,             \* external: the version of the workbook, one per save
    heard,            \* history: the version at the last accepted notice
    handled           \* history: the version the last concluded read saw

coordinator == <<state, latestNotice, nextDue, pendingFollowup,
                 activeAttempt, lastClock, issued>>
drivers == <<pc, attempt, outcome, seen>>
vars == <<coordinator, drivers, file, heard, handled>>

SourceReadOutcome == {"success", "source_not_ready", "reader_rejected", "faulted"}

\* The outcomes after which the workbook needs no other read.
Conclusive == {"success", "reader_rejected"}

Attempt == [id : Nat, started : Nat]

Init ==
    /\ state = "idle"
    /\ latestNotice = None /\ nextDue = None
    /\ pendingFollowup = FALSE
    /\ activeAttempt = None
    /\ lastClock = 0 /\ issued = 0
    /\ pc = [d \in Driver |-> "ready"]
    /\ attempt = [d \in Driver |-> None]
    /\ outcome = [d \in Driver |-> "faulted"]
    /\ seen = [d \in Driver |-> 0]
    /\ file = 0 /\ heard = 0 /\ handled = 0

-----------------------------------------------------------------------------
\* Fault: the reading is not compared with the last one.
UncheckedReadings == -1..MaxClock

\* _get_time_ns, when it does not raise.
Readings == lastClock..MaxClock

WaitUntil(due) ==
    /\ state' = "waiting"
    /\ nextDue' = due
    /\ pendingFollowup' = FALSE

\* Fault: a notice during a read only moves the due time.
NoticeForgetsFollowup(now) ==
    /\ latestNotice' = now
    /\ UNCHANGED <<state, nextDue, pendingFollowup>>

\* What a notice does while an attempt runs or a fault waits for resume.
NoticeWhileBusy(now) ==
    /\ latestNotice' = now
    /\ pendingFollowup' = TRUE
    /\ UNCHANGED <<state, nextDue>>

\* notify, for an event that touches the workbook; any other event returns
\* before the lock.
Notify ==
    /\ \E now \in Readings :
        /\ lastClock' = now
        /\ \/ /\ state \in {"idle", "waiting"}
              /\ latestNotice' = now
              /\ WaitUntil(now + Debounce)
           \/ /\ state \in {"running", "faulted"}
              /\ NoticeWhileBusy(now)
    /\ heard' = file
    /\ UNCHANGED <<activeAttempt, issued, drivers, file, handled>>

\* Fault: work is taken as soon as it waits.
AnyWork(now) == state = "waiting"

Due(now) == state = "waiting" /\ now >= nextDue

\* take_due: reserve an attempt if work is due, else return None.
TakeDue(d) ==
    /\ pc[d] = "ready"
    /\ \E now \in Readings :
        /\ lastClock' = now
        /\ IF Due(now)
           THEN LET token == [id |-> issued + 1, started |-> now]
                IN  /\ state' = "running"
                    /\ activeAttempt' = token
                    /\ nextDue' = None
                    /\ pendingFollowup' = FALSE
                    /\ issued' = issued + 1
                    /\ attempt' = [attempt EXCEPT ![d] = token]
                    /\ pc' = [pc EXCEPT ![d] = "reading"]
           ELSE UNCHANGED <<state, activeAttempt, nextDue, pendingFollowup,
                            issued, attempt, pc>>
    /\ UNCHANGED <<latestNotice, outcome, seen, file, heard, handled>>

\* External to the coordinator: the acquisition copies the workbook as it is
\* at some moment of the read, or fails in one of its ways.
Read(d) ==
    /\ pc[d] = "reading"
    /\ \E result \in SourceReadOutcome : outcome' = [outcome EXCEPT ![d] = result]
    /\ seen' = [seen EXCEPT ![d] = file]
    /\ pc' = [pc EXCEPT ![d] = "finishing"]
    /\ UNCHANGED <<coordinator, attempt, file, heard, handled>>

\* External: somebody saves the workbook.
Save ==
    /\ file < MaxSaves
    /\ file' = file + 1
    /\ UNCHANGED <<coordinator, drivers, heard, handled>>

\* Fault: any attempt will do while one is running.
AnyRunning(a) == state = "running"

\* finish accepts the token of the running attempt only.
IsActive(a) == state = "running" /\ activeAttempt = a

\* Fault: a source that is busy is given up until the next notice.
GiveUp(now) ==
    /\ state' = "idle"
    /\ nextDue' = None
    /\ pendingFollowup' = FALSE

\* SOURCE_NOT_READY: the source was busy; another attempt after the pause.
RetryLater(now) ==
    WaitUntil(IF latestNotice # None /\ latestNotice > now
              THEN latestNotice + Debounce ELSE now + Debounce)

\* Fault: the end of a fault is the end of the work.
FaultDropsWork ==
    /\ state' = "faulted"
    /\ nextDue' = None
    /\ pendingFollowup' = FALSE

EnterFault ==
    /\ state' = "faulted"
    /\ nextDue' = None
    /\ pendingFollowup' = TRUE

\* The part of finish behind the checks.
Conclude(result, now) ==
    /\ lastClock' = now
    /\ activeAttempt' = None
    /\ \/ /\ result \in Conclusive /\ pendingFollowup
          /\ WaitUntil((IF latestNotice # None THEN latestNotice ELSE now) + Debounce)
          /\ UNCHANGED latestNotice
       \/ /\ result \in Conclusive /\ ~pendingFollowup
          /\ state' = "idle"
          /\ nextDue' = None /\ latestNotice' = None
          /\ UNCHANGED pendingFollowup
       \/ /\ result = "source_not_ready"
          /\ RetryLater(now)
          /\ UNCHANGED latestNotice
       \/ /\ result = "faulted"
          /\ EnterFault
          /\ UNCHANGED latestNotice
    /\ UNCHANGED issued

\* finish, called by the driver that holds the attempt.
Finish(d) ==
    /\ pc[d] = "finishing"
    /\ IsActive(attempt[d])
    /\ \E now \in Readings : Conclude(outcome[d], now)
    /\ handled' = IF outcome[d] \in Conclusive THEN seen[d] ELSE handled
    /\ pc' = [pc EXCEPT ![d] = "ready"]
    /\ UNCHANGED <<attempt, outcome, seen, file, heard>>

\* finish raises: the clock failed, or the attempt is not the active one.
FinishRaises(d) ==
    /\ pc[d] = "finishing"
    /\ pc' = [pc EXCEPT ![d] = "guarding"]
    /\ UNCHANGED <<coordinator, attempt, outcome, seen, file, heard, handled>>

\* _guarded_force_fault, after finish raised.
ForceFault(d) ==
    /\ pc[d] = "guarding"
    /\ IF activeAttempt = attempt[d]
       THEN activeAttempt' = None /\ EnterFault
       ELSE UNCHANGED <<activeAttempt, state, nextDue, pendingFollowup>>
    /\ pc' = [pc EXCEPT ![d] = "ready"]
    /\ UNCHANGED <<latestNotice, lastClock, issued, attempt, outcome, seen,
                   file, heard, handled>>

\* An attempt given back for a second time, with any outcome: finish raises.
FinishAgain(d) ==
    /\ pc[d] = "ready" /\ attempt[d] # None
    /\ \E result \in SourceReadOutcome, now \in Readings :
        IF IsActive(attempt[d]) THEN Conclude(result, now)
        ELSE UNCHANGED coordinator
    /\ UNCHANGED <<drivers, file, heard, handled>>

\* resume_after_fault
Resume ==
    /\ state = "faulted" /\ activeAttempt = None
    /\ \E now \in Readings :
        /\ lastClock' = now
        /\ WaitUntil(now + Debounce)
    /\ UNCHANGED <<latestNotice, activeAttempt, issued, drivers,
                   file, heard, handled>>

Next ==
    \/ Notify \/ Resume \/ Save
    \/ \E d \in Driver :
        \/ TakeDue(d) \/ Read(d) \/ Finish(d) \/ FinishRaises(d)
        \/ ForceFault(d) \/ FinishAgain(d)

Spec == Init /\ [][Next]_vars

-----------------------------------------------------------------------------
(* Properties. *)

\* The coordinator's fields and the drivers' have their types.
TypeOK ==
    /\ state \in {"idle", "waiting", "running", "faulted"}
    /\ latestNotice \in Nat \cup {None} /\ nextDue \in Nat \cup {None}
    /\ pendingFollowup \in BOOLEAN
    /\ activeAttempt \in Attempt \cup {None}
    /\ lastClock \in Nat /\ issued \in Nat
    /\ pc \in [Driver -> {"ready", "reading", "finishing", "guarding"}]
    /\ attempt \in [Driver -> Attempt \cup {None}]
    /\ outcome \in [Driver -> SourceReadOutcome]
    /\ seen \in [Driver -> Nat]
    /\ file \in Nat /\ heard \in Nat /\ handled \in Nat

\* No save is lost: when the coordinator comes to rest, the last read that
\* concluded saw the workbook as it was at the last notice, or later; whatever
\* notices came before, during and after reads that failed or were retried.
NoLostSave == state = "idle" => handled >= heard

\* Whatever drivers do with old attempts, and however finish fails, two reads
\* never run at the same time, and one runs exactly while the state says so.
OneReadAtATime ==
    /\ \A c, d \in Driver : pc[c] # "ready" /\ pc[d] # "ready" => c = d
    /\ state = "running" <=> \E d \in Driver : pc[d] # "ready"

\* A read begins a full pause after the last notice, and a full pause after
\* the one before began: a burst of saves or of failures causes no storm.
QuietBeforeRead ==
    [][state # "running" /\ state' = "running" =>
        /\ lastClock' >= latestNotice + Debounce
        /\ \A d \in Driver : attempt[d] # None =>
            lastClock' >= attempt[d].started + Debounce]_vars

\* The work of a faulted coordinator is still to be done: it says so, and a
\* later notice, an old attempt or a read cannot make it forget.
FaultKeepsWork ==
    state = "faulted" => pendingFollowup /\ latestNotice # None /\ nextDue = None
=============================================================================
