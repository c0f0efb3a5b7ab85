-------------------- MODULE SaveImportCoordinatorProofs --------------------
(***************************************************************************)
(* What SaveImportCoordinator's runs check on small instances, proved for  *)
(* any number of drivers, any pause, any clock and any number of saves.    *)
(***************************************************************************)
EXTENDS SaveImportCoordinator, TLAPS

Working(d) == pc[d] # "ready"

\* What each state says of the clock fields (SaveCoordinatorView's checks, and
\* that a notice is remembered until it is dealt with).
ViewInv ==
    /\ state = "idle" => nextDue = None /\ ~pendingFollowup
    /\ state = "waiting" => nextDue \in Nat /\ latestNotice \in Nat
    /\ state = "running" => nextDue = None /\ latestNotice \in Nat
    /\ state = "faulted" => nextDue = None /\ latestNotice \in Nat /\ pendingFollowup

\* The driver at work holds the active attempt, and no other driver holds one
\* with the same token.
TokenInv ==
    /\ state = "running" => \E d \in Driver : Working(d)
    /\ \A d \in Driver : Working(d) =>
        /\ state = "running"
        /\ attempt[d] # None /\ activeAttempt = attempt[d]
    /\ state # "running" => activeAttempt = None
    /\ \A d \in Driver : attempt[d] # None => attempt[d].id <= issued
    /\ \A c, d \in Driver :
        attempt[c] # None /\ attempt[d] # None /\ attempt[c].id = attempt[d].id => c = d

\* Nothing lies in the future but the due time, and that far enough.
TimeInv ==
    /\ latestNotice # None => latestNotice <= lastClock
    /\ \A d \in Driver : attempt[d] # None => attempt[d].started <= lastClock
    /\ state = "waiting" =>
        /\ latestNotice # None => nextDue >= latestNotice + Debounce
        /\ \A d \in Driver : attempt[d] # None => nextDue >= attempt[d].started + Debounce
    /\ state = "running" /\ pendingFollowup =>
        \A d \in Driver : attempt[d] # None => attempt[d].started <= latestNotice

\* The read under way will see what was last heard of, unless a notice since
\* asks for another.
SaveInv ==
    /\ heard <= file
    /\ state = "idle" => handled >= heard
    /\ state = "running" /\ ~pendingFollowup =>
        \A d \in Driver : pc[d] = "finishing" => seen[d] >= heard

IInv == TypeOK /\ ViewInv /\ TokenInv /\ TimeInv /\ SaveInv

-----------------------------------------------------------------------------
LEMMA InitInv == Init => IInv
<1> SUFFICES ASSUME Init PROVE IInv
  OBVIOUS
<1>1. TypeOK
  BY DEF Init, TypeOK, SourceReadOutcome
<1>2. ViewInv
  BY DEF Init, ViewInv
<1>3. TokenInv
  BY DEF Init, TokenInv, Working
<1>4. TimeInv
  BY DEF Init, TimeInv
<1>5. SaveInv
  BY DEF Init, SaveInv
<1> QED BY <1>1, <1>2, <1>3, <1>4, <1>5 DEF IInv

\* A clock reading is a time, and not before the last one.
LEMMA ReadingIsLate == TypeOK => \A now \in Readings : now \in Nat /\ now >= lastClock
BY DEF TypeOK, Readings

LEMMA TokenFields ==
  TypeOK => \A d \in Driver : attempt[d] # None =>
                attempt[d].id \in Nat /\ attempt[d].started \in Nat
BY DEF TypeOK, Attempt

LEMMA PauseIsTime == \A t \in Nat : t + Debounce \in Nat
BY CoordinatorAssumption

\* A pause counted from the present lies behind every notice and attempt.
LEMMA PauseFromNow ==
  ASSUME TypeOK, TimeInv, NEW now \in Nat, now >= lastClock, lastClock' = now,
         WaitUntil(now + Debounce), attempt' = attempt,
         latestNotice' = latestNotice \/ latestNotice' = now
  PROVE  TimeInv'
<1>1. latestNotice' # None => latestNotice' \in Nat /\ latestNotice' <= now
  BY DEF TypeOK, TimeInv
<1>2. \A d \in Driver : attempt[d] # None =>
        attempt[d].started \in Nat /\ attempt[d].started <= now
  BY TokenFields DEF TypeOK, TimeInv
<1>3. \A t \in Nat : t <= now => now + Debounce >= t + Debounce
  BY CoordinatorAssumption
<1>4. state' = "waiting" /\ nextDue' = now + Debounce
  BY DEF WaitUntil
<1>5. \A d \in Driver : attempt[d] # None => nextDue' >= attempt[d].started + Debounce
  BY <1>2, <1>3, <1>4
<1>6. latestNotice' # None => nextDue' >= latestNotice' + Debounce
  BY <1>1, <1>3, <1>4
<1> QED BY <1>1, <1>2, <1>4, <1>5, <1>6 DEF TimeInv

\* An accepted notice keeps the invariant.
LEMMA NotifyKeeps == IInv /\ Notify => IInv'
<1> SUFFICES ASSUME IInv, Notify PROVE IInv'
  OBVIOUS
<1>1. PICK now \in Readings :
        /\ lastClock' = now
        /\ \/ /\ state \in {"idle", "waiting"}
              /\ latestNotice' = now
              /\ WaitUntil(now + Debounce)
           \/ /\ state \in {"running", "faulted"}
              /\ NoticeWhileBusy(now)
  BY DEF Notify
<1>2. now \in Nat /\ now >= lastClock
  BY ReadingIsLate DEF IInv
<1>3. /\ heard' = file
      /\ UNCHANGED <<activeAttempt, issued, pc, attempt, outcome, seen, file, handled>>
  BY DEF Notify, drivers
<1>4. CASE state \in {"idle", "waiting"} /\ latestNotice' = now /\ WaitUntil(now + Debounce)
  <2>1. TypeOK'
    BY <1>1, <1>2, <1>3, <1>4, PauseIsTime DEF IInv, TypeOK, WaitUntil
  <2>2. ViewInv'
    BY <1>2, <1>3, <1>4, PauseIsTime, CoordinatorAssumption DEF IInv, ViewInv, WaitUntil
  <2>3. TokenInv'
    BY <1>3, <1>4 DEF IInv, TokenInv, WaitUntil, Working
  <2>4. TimeInv'
    BY <1>1, <1>2, <1>3, <1>4, PauseFromNow DEF IInv
  <2>5. SaveInv'
    BY <1>3, <1>4 DEF IInv, TypeOK, SaveInv, WaitUntil
  <2> QED BY <2>1, <2>2, <2>3, <2>4, <2>5 DEF IInv
<1>5. CASE state \in {"running", "faulted"} /\ NoticeWhileBusy(now)
  <2>1. TypeOK'
    BY <1>1, <1>2, <1>3, <1>5 DEF IInv, TypeOK, NoticeWhileBusy
  <2>2. ViewInv'
    BY <1>2, <1>3, <1>5 DEF IInv, ViewInv, NoticeWhileBusy
  <2>3. TokenInv'
    BY <1>3, <1>5 DEF IInv, TokenInv, NoticeWhileBusy, Working
  <2>4. TimeInv'
    BY <1>1, <1>2, <1>3, <1>5 DEF IInv, TypeOK, TimeInv, NoticeWhileBusy, Attempt
  <2>5. SaveInv'
    BY <1>3, <1>5 DEF IInv, TypeOK, SaveInv, NoticeWhileBusy
  <2> QED BY <2>1, <2>2, <2>3, <2>4, <2>5 DEF IInv
<1> QED BY <1>1, <1>4, <1>5

\* The operator explicitly restarts the work a fault left over.
LEMMA ResumeKeeps == IInv /\ Resume => IInv'
<1> SUFFICES ASSUME IInv, Resume PROVE IInv'
  OBVIOUS
<1>1. PICK now \in Readings : lastClock' = now /\ WaitUntil(now + Debounce)
  BY DEF Resume
<1>2. now \in Nat /\ now >= lastClock
  BY ReadingIsLate DEF IInv
<1>3. /\ state = "faulted" /\ activeAttempt = None
      /\ UNCHANGED <<latestNotice, activeAttempt, issued, pc, attempt, outcome,
                     seen, file, heard, handled>>
  BY DEF Resume, drivers
<1>4. TypeOK'
  BY <1>1, <1>2, <1>3, PauseIsTime DEF IInv, TypeOK, WaitUntil
<1>5. ViewInv'
  BY <1>1, <1>2, <1>3, PauseIsTime DEF IInv, ViewInv, WaitUntil
<1>6. TokenInv'
  BY <1>1, <1>3 DEF IInv, TokenInv, WaitUntil, Working
<1>7. TimeInv'
  BY <1>1, <1>2, <1>3, PauseFromNow DEF IInv
<1>8. SaveInv'
  BY <1>1, <1>3 DEF IInv, SaveInv, WaitUntil
<1> QED BY <1>4, <1>5, <1>6, <1>7, <1>8 DEF IInv

LEMMA SaveKeeps == IInv /\ Save => IInv'
<1> SUFFICES ASSUME IInv, Save PROVE IInv'
  OBVIOUS
<1>1. file' = file + 1 /\ UNCHANGED <<coordinator, drivers, heard, handled>>
  BY DEF Save
<1>2. TypeOK' /\ SaveInv'
  BY <1>1 DEF IInv, TypeOK, SaveInv, coordinator, drivers
<1>3. ViewInv' /\ TokenInv' /\ TimeInv'
  BY <1>1 DEF IInv, ViewInv, TokenInv, TimeInv, Working, coordinator, drivers
<1> QED BY <1>2, <1>3 DEF IInv

\* A poll reserves at most one attempt, with a token nobody has seen before.
LEMMA TakeDueKeeps == ASSUME NEW d \in Driver, IInv, TakeDue(d) PROVE IInv'
<1>1. PICK now \in Readings :
        /\ lastClock' = now
        /\ IF Due(now)
           THEN /\ state' = "running"
                /\ activeAttempt' = [id |-> issued + 1, started |-> now]
                /\ nextDue' = None
                /\ pendingFollowup' = FALSE
                /\ issued' = issued + 1
                /\ attempt' = [attempt EXCEPT ![d] = [id |-> issued + 1, started |-> now]]
                /\ pc' = [pc EXCEPT ![d] = "reading"]
           ELSE UNCHANGED <<state, activeAttempt, nextDue, pendingFollowup,
                            issued, attempt, pc>>
  BY DEF TakeDue
<1>2. now \in Nat /\ now >= lastClock
  BY ReadingIsLate DEF IInv
<1>3. /\ pc[d] = "ready"
      /\ UNCHANGED <<latestNotice, outcome, seen, file, heard, handled>>
  BY DEF TakeDue
<1>4. CASE ~Due(now)
  <2>1. TypeOK' /\ ViewInv' /\ SaveInv'
    BY <1>1, <1>2, <1>3, <1>4 DEF IInv, TypeOK, ViewInv, SaveInv
  <2>2. TokenInv'
    BY <1>1, <1>4 DEF IInv, TokenInv, Working
  <2>3. TimeInv'
    BY <1>1, <1>2, <1>3, <1>4, TokenFields DEF IInv, TypeOK, TimeInv
  <2> QED BY <2>1, <2>2, <2>3 DEF IInv
<1>5. CASE Due(now)
  <2> DEFINE token == [id |-> issued + 1, started |-> now]
  <2>1. /\ state = "waiting" /\ state' = "running"
        /\ activeAttempt' = token /\ nextDue' = None
        /\ pendingFollowup' = FALSE /\ issued' = issued + 1
        /\ attempt' = [attempt EXCEPT ![d] = token]
        /\ pc' = [pc EXCEPT ![d] = "reading"]
    BY <1>1, <1>5 DEF Due
  <2>2. token \in Attempt /\ token # None /\ token.id = issued + 1 /\ token.started = now
    BY <1>2, CoordinatorAssumption DEF IInv, TypeOK, Attempt
  <2>3. /\ attempt'[d] = token /\ pc'[d] = "reading"
        /\ \A e \in Driver \ {d} : attempt'[e] = attempt[e] /\ pc'[e] = pc[e]
    BY <2>1 DEF IInv, TypeOK
  <2>4. \A e \in Driver : pc[e] = "ready"
    BY <2>1 DEF IInv, TokenInv, Working
  <2> HIDE DEF token
  <2>5. TypeOK'
    <3>1. attempt' \in [Driver -> Attempt \cup {None}]
      BY <2>1, <2>2 DEF IInv, TypeOK
    <3>2. /\ pc' \in [Driver -> {"ready", "reading", "finishing", "guarding"}]
          /\ state' \in {"idle", "waiting", "running", "faulted"}
          /\ issued' \in Nat /\ lastClock' \in Nat
      BY <1>1, <1>2, <2>1 DEF IInv, TypeOK
    <3>3. /\ activeAttempt' \in Attempt \cup {None}
          /\ nextDue' \in Nat \cup {None}
          /\ pendingFollowup' \in BOOLEAN
      BY <2>1, <2>2
    <3> QED BY <1>3, <3>1, <3>2, <3>3 DEF IInv, TypeOK
  <2>6. ViewInv'
    BY <1>3, <2>1 DEF IInv, ViewInv
  <2>7. TokenInv'
    BY <2>1, <2>2, <2>3, <2>4, TokenFields DEF IInv, TypeOK, TokenInv, Working
  <2>8. TimeInv'
    BY <1>1, <1>2, <1>3, <2>1, <2>2, <2>3, TokenFields DEF IInv, TypeOK, TimeInv
  <2>9. SaveInv'
    BY <1>3, <2>1, <2>3, <2>4 DEF IInv, SaveInv
  <2> QED BY <2>5, <2>6, <2>7, <2>8, <2>9 DEF IInv
<1> QED BY <1>4, <1>5

\* The snapshot is of a time after the attempt began, so it holds every save
\* of which a notice came before.
LEMMA ReadKeeps == ASSUME NEW d \in Driver, IInv, Read(d) PROVE IInv'
<1>1. PICK result \in SourceReadOutcome : outcome' = [outcome EXCEPT ![d] = result]
  BY DEF Read
<1>2. /\ pc[d] = "reading"
      /\ seen' = [seen EXCEPT ![d] = file]
      /\ pc' = [pc EXCEPT ![d] = "finishing"]
      /\ UNCHANGED <<coordinator, attempt, file, heard, handled>>
  BY DEF Read
<1>3. TypeOK'
  BY <1>1, <1>2 DEF IInv, TypeOK, coordinator
<1>4. ViewInv' /\ TimeInv'
  BY <1>2 DEF IInv, ViewInv, TimeInv, coordinator
<1>5. TokenInv'
  BY <1>2 DEF IInv, TypeOK, TokenInv, Working, coordinator
<1>6. SaveInv'
  BY <1>2 DEF IInv, TypeOK, SaveInv, coordinator
<1> QED BY <1>3, <1>4, <1>5, <1>6 DEF IInv

LEMMA FinishRaisesKeeps == ASSUME NEW d \in Driver, IInv, FinishRaises(d) PROVE IInv'
<1>1. /\ pc[d] = "finishing" /\ pc' = [pc EXCEPT ![d] = "guarding"]
      /\ UNCHANGED <<coordinator, attempt, outcome, seen, file, heard, handled>>
  BY DEF FinishRaises
<1>2. TypeOK'
  BY <1>1 DEF IInv, TypeOK, coordinator
<1>3. ViewInv' /\ TimeInv'
  BY <1>1 DEF IInv, ViewInv, TimeInv, coordinator
<1>4. TokenInv'
  BY <1>1 DEF IInv, TypeOK, TokenInv, Working, coordinator
<1>5. SaveInv'
  BY <1>1 DEF IInv, TypeOK, SaveInv, coordinator
<1> QED BY <1>2, <1>3, <1>4, <1>5 DEF IInv

\* The driver at work is the only one.
LEMMA Alone ==
  ASSUME IInv, NEW d \in Driver, Working(d), NEW e \in Driver, Working(e)
  PROVE  e = d
BY DEF IInv, TokenInv

\* The guard finds the attempt it holds still active, and turns it to a fault.
LEMMA ForceFaultKeeps == ASSUME NEW d \in Driver, IInv, ForceFault(d) PROVE IInv'
<1>1. /\ pc[d] = "guarding" /\ pc' = [pc EXCEPT ![d] = "ready"]
      /\ UNCHANGED <<latestNotice, lastClock, issued, attempt, outcome, seen,
                     file, heard, handled>>
  BY DEF ForceFault
<1>2. Working(d) /\ state = "running" /\ activeAttempt = attempt[d]
  BY <1>1 DEF IInv, TokenInv, Working
<1>3. activeAttempt' = None /\ EnterFault
  BY <1>2 DEF ForceFault
<1>4. \A e \in Driver : pc'[e] = "ready"
  BY <1>1, <1>2, Alone DEF IInv, TypeOK, Working
<1>5. TypeOK'
  BY <1>1, <1>3 DEF IInv, TypeOK, EnterFault
<1>6. ViewInv' /\ SaveInv'
  BY <1>1, <1>2, <1>3, <1>4 DEF IInv, ViewInv, SaveInv, EnterFault
<1>7. TokenInv'
  BY <1>1, <1>3, <1>4 DEF IInv, TokenInv, EnterFault, Working
<1>8. TimeInv'
  BY <1>1, <1>3 DEF IInv, TimeInv, EnterFault
<1> QED BY <1>5, <1>6, <1>7, <1>8 DEF IInv

\* Whatever the outcome, giving an attempt back leaves the clock fields fit for
\* the next pause.
LEMMA ConcludeKeeps ==
  ASSUME TypeOK, ViewInv, TimeInv, state = "running",
         NEW result \in SourceReadOutcome, NEW now \in Readings,
         Conclude(result, now), attempt' = attempt
  PROVE  /\ activeAttempt' = None /\ lastClock' \in Nat /\ issued' = issued
         /\ state' \in {"idle", "waiting", "faulted"}
         /\ state' = "idle" => result \in Conclusive /\ ~pendingFollowup
         /\ latestNotice' \in Nat \cup {None}
         /\ nextDue' \in Nat \cup {None}
         /\ pendingFollowup' \in BOOLEAN
         /\ ViewInv' /\ TimeInv'
<1>1. now \in Nat /\ now >= lastClock
  BY ReadingIsLate
<1>2. /\ activeAttempt' = None /\ issued' = issued /\ lastClock' = now
  BY DEF Conclude
<1>3. latestNotice \in Nat /\ latestNotice <= lastClock /\ latestNotice # None
  BY CoordinatorAssumption DEF ViewInv, TimeInv
<1>4. CASE result \in Conclusive /\ pendingFollowup
  <2>1. WaitUntil(latestNotice + Debounce) /\ latestNotice' = latestNotice
    BY <1>3, <1>4 DEF Conclude, Conclusive
  <2>2. \A d \in Driver : attempt[d] # None =>
          attempt[d].started \in Nat /\ attempt[d].started <= latestNotice
    BY <1>4, TokenFields DEF TimeInv
  <2>3. /\ \A d \in Driver : attempt[d] # None =>
              latestNotice + Debounce >= attempt[d].started + Debounce
        /\ latestNotice + Debounce \in Nat
    BY <1>3, <2>2, CoordinatorAssumption
  <2>4. latestNotice' <= lastClock'
    BY <1>1, <1>2, <1>3, <2>1 DEF TypeOK
  <2>5. \A d \in Driver : attempt[d] # None => attempt[d].started <= lastClock'
    BY <1>1, <1>2, TokenFields DEF TypeOK, TimeInv
  <2>6. TimeInv'
    BY <1>3, <2>1, <2>3, <2>4, <2>5 DEF TimeInv, WaitUntil
  <2>7. ViewInv'
    BY <1>3, <2>1, <2>3 DEF ViewInv, WaitUntil
  <2>8. pendingFollowup' \in BOOLEAN /\ state' = "waiting"
    BY <2>1 DEF WaitUntil
  <2> QED BY <1>1, <1>2, <1>3, <2>1, <2>3, <2>6, <2>7, <2>8 DEF WaitUntil
<1>5. CASE result \in Conclusive /\ ~pendingFollowup
  <2>1. /\ state' = "idle" /\ nextDue' = None /\ latestNotice' = None
        /\ pendingFollowup' = pendingFollowup
    BY <1>5 DEF Conclude, Conclusive
  <2>2. \A d \in Driver : attempt[d] # None => attempt[d].started <= lastClock'
    BY <1>1, <1>2, TokenFields DEF TypeOK, TimeInv
  <2>3. ViewInv' /\ TimeInv'
    BY <1>5, <2>1, <2>2 DEF ViewInv, TimeInv
  <2>4. pendingFollowup' \in BOOLEAN
    BY <2>1 DEF TypeOK
  <2> QED BY <1>1, <1>2, <1>5, <2>1, <2>3, <2>4
<1>6. CASE result = "source_not_ready"
  <2>1. WaitUntil(now + Debounce) /\ latestNotice' = latestNotice
    BY <1>1, <1>3, <1>6 DEF Conclude, Conclusive, RetryLater, TypeOK
  <2>2. TimeInv'
    BY <1>1, <1>2, <2>1, PauseFromNow
  <2>3. ViewInv'
    BY <1>1, <1>3, <2>1, PauseIsTime DEF ViewInv, WaitUntil
  <2>4. pendingFollowup' \in BOOLEAN /\ nextDue' \in Nat
    BY <1>1, <2>1, PauseIsTime DEF WaitUntil
  <2> QED BY <1>1, <1>2, <1>3, <2>1, <2>2, <2>3, <2>4 DEF WaitUntil
<1>7. CASE result = "faulted"
  <2>1. EnterFault /\ latestNotice' = latestNotice
    BY <1>7 DEF Conclude, Conclusive
  <2>2. \A d \in Driver : attempt[d] # None => attempt[d].started <= lastClock'
    BY <1>1, <1>2, TokenFields DEF TypeOK, TimeInv
  <2>3. latestNotice' <= lastClock'
    BY <1>1, <1>2, <1>3, <2>1 DEF TypeOK
  <2>4. ViewInv' /\ TimeInv'
    BY <1>3, <2>1, <2>2, <2>3 DEF ViewInv, TimeInv, EnterFault
  <2>5. pendingFollowup' \in BOOLEAN
    BY <2>1 DEF EnterFault
  <2> QED BY <1>1, <1>2, <1>3, <2>1, <2>4, <2>5 DEF EnterFault
<1> QED BY <1>4, <1>5, <1>6, <1>7 DEF SourceReadOutcome, Conclusive

\* The coordinator comes to rest only after a read that saw all that was heard.
LEMMA FinishKeeps == ASSUME NEW d \in Driver, IInv, Finish(d) PROVE IInv'
<1>1. PICK now \in Readings : Conclude(outcome[d], now)
  BY DEF Finish
<1>2. /\ pc[d] = "finishing" /\ pc' = [pc EXCEPT ![d] = "ready"]
      /\ handled' = IF outcome[d] \in Conclusive THEN seen[d] ELSE handled
      /\ UNCHANGED <<attempt, outcome, seen, file, heard>>
  BY DEF Finish
<1>3. Working(d) /\ state = "running"
  BY <1>2 DEF IInv, TokenInv, Working
<1>4. outcome[d] \in SourceReadOutcome /\ seen[d] \in Nat
  BY DEF IInv, TypeOK
<1>5. /\ activeAttempt' = None /\ lastClock' \in Nat /\ issued' = issued
      /\ state' \in {"idle", "waiting", "faulted"}
      /\ state' = "idle" => outcome[d] \in Conclusive /\ ~pendingFollowup
      /\ latestNotice' \in Nat \cup {None}
      /\ nextDue' \in Nat \cup {None}
      /\ pendingFollowup' \in BOOLEAN
      /\ ViewInv' /\ TimeInv'
  BY <1>1, <1>2, <1>3, <1>4, ConcludeKeeps DEF IInv
<1>6. \A e \in Driver : pc'[e] = "ready"
  BY <1>2, <1>3, Alone DEF IInv, TypeOK, Working
<1>7. TypeOK'
  <2>1. pc' \in [Driver -> {"ready", "reading", "finishing", "guarding"}]
    BY <1>2 DEF IInv, TypeOK
  <2>2. handled' \in Nat
    BY <1>2, <1>4 DEF IInv, TypeOK
  <2> QED BY <1>2, <1>5, <2>1, <2>2 DEF IInv, TypeOK
<1>8. TokenInv'
  BY <1>2, <1>5, <1>6 DEF IInv, TokenInv, Working
<1>9. SaveInv'
  <2>1. ~pendingFollowup => seen[d] >= heard
    BY <1>2, <1>3 DEF IInv, SaveInv
  <2>2. state' = "idle" => handled' >= heard'
    BY <1>2, <1>5, <2>1
  <2> QED BY <1>2, <1>5, <2>2 DEF IInv, SaveInv
<1> QED BY <1>5, <1>7, <1>8, <1>9 DEF IInv

\* A used attempt is never the active one: giving it back again is refused.
LEMMA FinishAgainKeeps ==
  ASSUME NEW d \in Driver, IInv, FinishAgain(d) PROVE UNCHANGED vars
<1>1. ~IsActive(attempt[d])
  <2>1. SUFFICES ASSUME IsActive(attempt[d]) PROVE FALSE
    OBVIOUS
  <2>2. PICK e \in Driver : Working(e)
    BY <2>1 DEF IsActive, IInv, TokenInv
  <2>3. attempt[e] = attempt[d] /\ attempt[e] # None
    BY <2>1, <2>2 DEF IsActive, IInv, TokenInv
  <2>4. e = d
    BY <2>3 DEF IInv, TokenInv
  <2> QED BY <2>2, <2>4 DEF FinishAgain, Working
<1> QED BY <1>1 DEF FinishAgain, vars

LEMMA StutterKeeps == IInv /\ UNCHANGED vars => IInv'
<1> SUFFICES ASSUME IInv, UNCHANGED vars PROVE IInv'
  OBVIOUS
<1> USE DEF vars, coordinator, drivers
<1>1. TypeOK'
  BY DEF IInv, TypeOK
<1>2. ViewInv' /\ TokenInv' /\ TimeInv' /\ SaveInv'
  BY DEF IInv, ViewInv, TokenInv, TimeInv, SaveInv, Working
<1> QED BY <1>1, <1>2 DEF IInv

LEMMA StepKeeps == IInv /\ [Next]_vars => IInv'
<1> SUFFICES ASSUME IInv, [Next]_vars PROVE IInv'
  OBVIOUS
<1>1. CASE Notify
  BY <1>1, NotifyKeeps
<1>2. CASE Resume
  BY <1>2, ResumeKeeps
<1>3. CASE Save
  BY <1>3, SaveKeeps
<1>4. ASSUME NEW d \in Driver, TakeDue(d) PROVE IInv'
  BY <1>4, TakeDueKeeps
<1>5. ASSUME NEW d \in Driver, Read(d) PROVE IInv'
  BY <1>5, ReadKeeps
<1>6. ASSUME NEW d \in Driver, Finish(d) PROVE IInv'
  BY <1>6, FinishKeeps
<1>7. ASSUME NEW d \in Driver, FinishRaises(d) PROVE IInv'
  BY <1>7, FinishRaisesKeeps
<1>8. ASSUME NEW d \in Driver, ForceFault(d) PROVE IInv'
  BY <1>8, ForceFaultKeeps
<1>9. ASSUME NEW d \in Driver, FinishAgain(d) PROVE IInv'
  BY <1>9, FinishAgainKeeps, StutterKeeps
<1>10. CASE UNCHANGED vars
  BY <1>10, StutterKeeps
<1> QED
  BY <1>1, <1>2, <1>3, <1>4, <1>5, <1>6, <1>7, <1>8, <1>9, <1>10 DEF Next

\* The strengthened invariant holds always (notify, take_due, finish, the guard
\* and resume_after_fault).
THEOREM Invariance == Spec => []IInv
BY InitInv, StepKeeps, PTL DEF Spec

-----------------------------------------------------------------------------
\* Every field of the coordinator and of its drivers keeps its type, whatever
\* the number of drivers and the pause (the dataclass and field declarations).
THEOREM TypeCorrect == Spec => []TypeOK
BY Invariance, PTL DEF IInv

\* No save is lost, by any interleaving of notices, polls, reads, faults and
\* resumptions: when the coordinator is idle, the last concluded read saw the
\* workbook as of the last notice (notify, take_due, finish).
THEOREM NoSaveLost == Spec => []NoLostSave
<1>1. IInv => NoLostSave
  BY DEF IInv, SaveInv, NoLostSave
<1> QED BY <1>1, Invariance, PTL

\* Drivers exclude each other by the attempt token alone, also when finish
\* fails and old tokens are presented again (take_due, finish, the guard).
THEOREM MutualExclusion == Spec => []OneReadAtATime
<1>1. IInv => OneReadAtATime
  BY DEF IInv, TokenInv, OneReadAtATime, Working
<1> QED BY <1>1, Invariance, PTL

\* A fault never loses the work it interrupted (finish, the guard, notify).
THEOREM FaultIsRemembered == Spec => []FaultKeepsWork
<1>1. IInv => FaultKeepsWork
  BY CoordinatorAssumption DEF IInv, ViewInv, FaultKeepsWork
<1> QED BY <1>1, Invariance, PTL

\* Reads are a pause apart from notices and from each other (take_due and the
\* due times that notify, finish and resume_after_fault set).
THEOREM ReadsAreApart == Spec => QuietBeforeRead
<1> DEFINE Quiet == state # "running" /\ state' = "running" =>
        /\ lastClock' >= latestNotice + Debounce
        /\ \A d \in Driver : attempt[d] # None =>
            lastClock' >= attempt[d].started + Debounce
<1>1. ASSUME IInv, Next PROVE Quiet
  <2>1. ASSUME NEW d \in Driver, TakeDue(d) PROVE Quiet
    <3>1. SUFFICES ASSUME state # "running", state' = "running"
                   PROVE  /\ lastClock' >= latestNotice + Debounce
                          /\ \A e \in Driver : attempt[e] # None =>
                              lastClock' >= attempt[e].started + Debounce
      OBVIOUS
    <3>2. PICK now \in Readings : lastClock' = now /\ (Due(now) \/ state' = state)
      BY <2>1 DEF TakeDue
    <3>3. now \in Nat /\ state = "waiting" /\ now >= nextDue
      BY <1>1, <3>1, <3>2, ReadingIsLate DEF IInv, Due
    <3>4. nextDue \in Nat /\ latestNotice \in Nat /\ nextDue >= latestNotice + Debounce
      BY <1>1, <3>3, CoordinatorAssumption DEF IInv, ViewInv, TimeInv
    <3>5. \A e \in Driver : attempt[e] # None =>
            attempt[e].started \in Nat /\ nextDue >= attempt[e].started + Debounce
      BY <1>1, <3>3, TokenFields DEF IInv, TimeInv
    <3>6. \A t \in Nat : nextDue >= t + Debounce => now >= t + Debounce
      BY <3>3, <3>4, CoordinatorAssumption
    <3> QED BY <3>2, <3>4, <3>5, <3>6
  <2>2. ASSUME NEW d \in Driver, FinishAgain(d) PROVE Quiet
    BY <2>2, FinishAgainKeeps, <1>1 DEF vars, coordinator
  <2>3. ASSUME NEW d \in Driver, Finish(d) PROVE Quiet
    BY <2>3 DEF Finish, IsActive
  <2>4. CASE Notify
    BY <2>4 DEF Notify, WaitUntil, NoticeWhileBusy
  <2>5. CASE Resume
    BY <2>5 DEF Resume, WaitUntil
  <2>6. CASE Save
    BY <2>6 DEF Save, coordinator
  <2>7. ASSUME NEW d \in Driver, Read(d) \/ FinishRaises(d) \/ ForceFault(d) PROVE Quiet
    BY <2>7 DEF Read, FinishRaises, ForceFault, EnterFault, coordinator
  <2> QED BY <1>1, <2>1, <2>2, <2>3, <2>4, <2>5, <2>6, <2>7 DEF Next
<1>2. IInv /\ [Next]_vars => [Quiet]_vars
  BY <1>1
<1> QED BY <1>2, Invariance, PTL DEF Spec, QuietBeforeRead
=============================================================================
