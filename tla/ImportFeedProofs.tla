--------------------------- MODULE ImportFeedProofs ---------------------------
(***************************************************************************)
(* Theorems about the import store, for any number of callers, sources,    *)
(* imports, workbooks and generations.                                     *)
(*                                                                         *)
(* The argument: a transaction commits an import only if its identity is   *)
(* in no row yet, and no other step touches the table of imports.  So rows *)
(* are never overwritten, and what a row said when it was written it says  *)
(* for ever; every property below about receipts and retries rests on it.  *)
(* Who has the write lock after a failed ROLLBACK is followed by LockInv:  *)
(* a connection in a transaction past its call lets no call begin another. *)
(*                                                                         *)
(* What the store keeps and what its outbox says of it, for any number of  *)
(* clients, sources, imports and rows.                                     *)
(*                                                                         *)
(* The argument: IInv, the invariant of the requests, says what an         *)
(* admitted request was built from; FeedInv says how the tables belong     *)
(* together - one event per revision, in the order of the row's revisions, *)
(* one membership per row a source ever held, and the last revision of a   *)
(* row reached from the source that still counts. Together with the three  *)
(* properties it implies along the way they are AllInv, which every write  *)
(* of a commit and every change of a binding preserves. The feed is read   *)
(* from its end: the last event of a row announces the last revision of    *)
(* that row (LastSays).                                                    *)
(***************************************************************************)
EXTENDS ImportStore, FiniteSetTheorems, TLAPS

Place == {"closed", "creating", "building", "open", "sent", "writing", "answered"}

IsOfCallers(f) == f = [c \in Client |-> f[c]]

\* Who may have the lock: a transaction left open is one of a call that ended, and
\* its caller could not prepare another request since.
LockInv ==
    /\ leftOpen \subseteq Client
    /\ \A c \in leftOpen : pc[c] \notin {"creating", "building", "writing"}
    /\ \A c \in Client :
         /\ pc[c] = "writing" => request[c].rows \notin Incomplete
         /\ writer = c =>
              /\ pc[c] \notin {"creating", "open"}
              /\ pc[c] \in {"sent", "answered"} => request[c].rows \notin Incomplete

\* Every caller is somewhere, and the lock is accounted for.
CallerInv ==
    /\ pc \in [Client -> Place]
    /\ writer \in Client \cup {None}
    /\ IsOfCallers(request) /\ IsOfCallers(reply) /\ IsOfCallers(receipt)
    /\ LockInv /\ NoSilentLock

\* A caller that was told COMMITTED finds its import in the table.
ReplyInv ==
    \A c \in Client : reply[c] = "COMMITTED" => request[c].import \in DOMAIN imports

\* The generations of the imports are 1, 2, ... without a gap or a repetition.
HistoryInv ==
    /\ generation \in Nat
    /\ \A i \in DOMAIN imports :
        /\ imports[i].committed \in 1..generation
        /\ imports[i].committed = imports[i].base + 1
    /\ \A i, j \in DOMAIN imports : imports[i].committed = imports[j].committed => i = j
    /\ \A g \in 1..generation : \E i \in DOMAIN imports : imports[i].committed = g

\* Before the schema there is nothing.
FreshInv == userVersion = 0 => DOMAIN bindings = {}

IInv == CallerInv /\ ReplyInv /\ HistoryInv /\ FreshInv
        /\ NoStaleImport /\ ReceiptIsOfMyRequest /\ OneCommitPerImport

-----------------------------------------------------------------------------
(* Facts about single operators. *)

\* The verdict COMMITTED is reached only past every refusal.
LEMMA CommittedVerdict ==
    ASSUME NEW r, Verdict(r) = "COMMITTED"
    PROVE  IsActive(r.source) /\ ~Committed(r) /\ r.expected = generation
  BY DEF Verdict, NotActive, Conflicts, Stale

\* The verdict REPLAYED is given to the very request that was committed.
LEMMA ReplayedVerdict ==
    ASSUME NEW r, Verdict(r) = "REPLAYED"
    PROVE  Committed(r) /\ imports[r.import].digest = r
  BY DEF Verdict, NotActive, Conflicts, Stale

\* A commit adds one row to the table, at a new identity, and keeps the rest.
LEMMA CommitAddsRow ==
    ASSUME NEW c \in Client, Commit(c)
    PROVE  LET r == request[c]
           IN  /\ r.import \notin DOMAIN imports
               /\ DOMAIN imports' = DOMAIN imports \cup {r.import}
               /\ \A i \in DOMAIN imports : imports'[i] = imports[i]
               /\ imports'[r.import] = NewImport(r, Prior(r.source, r.rows))
               /\ r.expected = generation
               /\ generation' = generation + 1
  <1> DEFINE r == request[c]
             row == NewImport(r, Prior(r.source, r.rows))
  <1>1. r.import \notin DOMAIN imports /\ r.expected = generation
    BY CommittedVerdict DEF Commit, Committed
  <1>2. /\ imports' = Overlay(imports, [i \in {r.import} |-> row])
        /\ generation' = generation + 1
    BY DEF Commit, WriteImport
  <1> HIDE DEF row
  <1>3. /\ DOMAIN imports' = DOMAIN imports \cup {r.import}
        /\ \A i \in DOMAIN imports : imports'[i] = imports[i]
        /\ imports'[r.import] = row
    BY <1>1, <1>2 DEF Overlay
  <1> QED
    BY <1>1, <1>2, <1>3 DEF row

\* Only a commit, the creation of the schema and a rollover write tables.
LEMMA OnlyThreeWrite ==
    ASSUME [Next]_vars,
           ~\E c \in Client : Commit(c) \/ Create(c),
           ~\E s, t \in Source : Rollover(s, t)
    PROVE  UNCHANGED tables
  <1>1. CASE UNCHANGED vars
    BY <1>1 DEF vars
  <1>2. ASSUME NEW c \in Client, FindEmpty(c) \/ Retry(c) \/ Reject(c) \/ Begin(c)
                \/ Busy(c) \/ RefuseNested(c)
        PROVE  UNCHANGED tables
    BY <1>2 DEF FindEmpty, Retry, Reject, Begin, Busy, RefuseNested
  <1>3. ASSUME NEW c \in Client, Refuse(c) \/ Replay(c) \/ RollBack(c)
                \/ RollBackRaises(c) \/ ReadRollBackRaises(c) \/ Disconnect(c)
        PROVE  UNCHANGED tables
    BY <1>3 DEF Refuse, Replay, RollBack, RollBackRaises, ReadRollBackRaises, Disconnect
  <1>4. ASSUME NEW c \in Client, NEW s \in Source, OpenExisting(c, s)
        PROVE  UNCHANGED tables
    BY <1>4 DEF OpenExisting
  <1>5. ASSUME NEW c \in Client, NEW i \in ImportId, NEW s \in Source,
               NEW rows \in Workbooks, Prepare(c, i, s, rows)
        PROVE  UNCHANGED tables
    BY <1>5 DEF Prepare
  <1> QED
    BY <1>1, <1>2, <1>3, <1>4, <1>5 DEF Next

\* Only a commit touches the table of imports.
LEMMA OnlyCommitWrites ==
    ASSUME [Next]_vars, ~\E c \in Client : Commit(c)
    PROVE  UNCHANGED <<imports, generation>>
  <1>1. CASE \E c \in Client : Create(c)
    BY <1>1 DEF Create
  <1>2. CASE \E s, t \in Source : Rollover(s, t)
    BY <1>2 DEF Rollover
  <1>3. CASE /\ ~\E c \in Client : Commit(c) \/ Create(c)
             /\ ~\E s, t \in Source : Rollover(s, t)
    BY <1>3, OnlyThreeWrite DEF tables
  <1> QED
    BY <1>1, <1>2, <1>3

-----------------------------------------------------------------------------
(* The inductive invariant. *)

LEMMA InitIInv == Init => IInv
  <1> SUFFICES ASSUME Init PROVE IInv
    OBVIOUS
  <1>1. CallerInv
    BY StoreAssumption DEF Init, CallerInv, Place, IsOfCallers, LockInv, NoSilentLock, InWrite
  <1>2. DOMAIN imports = {} /\ generation = 0
    BY DEF Init, EmptyTable
  <1>3. HistoryInv
    BY <1>2 DEF HistoryInv
  <1>4. FreshInv
    BY DEF Init, EmptyTable, FreshInv
  <1>5. ReplyInv /\ NoStaleImport /\ ReceiptIsOfMyRequest /\ OneCommitPerImport
    BY <1>2 DEF Init, ReplyInv, NoStaleImport, ReceiptIsOfMyRequest, OneCommitPerImport
  <1> QED
    BY <1>1, <1>3, <1>4, <1>5 DEF IInv

LEMMA CallerStep == CallerInv /\ [Next]_vars => CallerInv'
  <1> SUFFICES ASSUME CallerInv, [Next]_vars PROVE CallerInv'
    OBVIOUS
  <1> USE StoreAssumption DEF CallerInv, Place, IsOfCallers, LockInv, NoSilentLock,
                              InWrite, locks
  <1>1. CASE UNCHANGED vars
    BY <1>1 DEF vars, callers
  <1>2. ASSUME NEW c \in Client, FindEmpty(c) PROVE CallerInv'
    BY <1>2 DEF FindEmpty
  <1>3. ASSUME NEW c \in Client, Create(c) PROVE CallerInv'
    BY <1>3 DEF Create
  <1>4. ASSUME NEW c \in Client, Retry(c) PROVE CallerInv'
    BY <1>4 DEF Retry
  <1>5. ASSUME NEW c \in Client, Reject(c) PROVE CallerInv'
    BY <1>5 DEF Reject, Answer
  <1>6. ASSUME NEW c \in Client, Begin(c) PROVE CallerInv'
    BY <1>6 DEF Begin, WantsToWrite
  <1>7. ASSUME NEW c \in Client, Busy(c) \/ RefuseNested(c) PROVE CallerInv'
    BY <1>7 DEF Busy, RefuseNested, WantsToWrite, Fails
  <1>8. ASSUME NEW c \in Client, Refuse(c) PROVE CallerInv'
    <2>1. /\ pc[c] = "writing" /\ writer = c /\ writer' = None /\ leftOpen' = leftOpen
          /\ pc' = [pc EXCEPT ![c] = "answered"] /\ request' = request
          /\ IsOfCallers(reply') /\ IsOfCallers(receipt')
      BY <1>8 DEF Refuse, Answer
    <2> QED
      BY <2>1
  <1>9. ASSUME NEW c \in Client, Replay(c) PROVE CallerInv'
    <2>1. /\ pc[c] = "writing" /\ writer = c /\ writer' = None /\ leftOpen' = leftOpen
          /\ pc' = [pc EXCEPT ![c] = "answered"] /\ request' = request
          /\ IsOfCallers(reply') /\ IsOfCallers(receipt')
      BY <1>9 DEF Replay, Answer
    <2> QED
      BY <2>1
  <1>10. ASSUME NEW c \in Client, Commit(c) PROVE CallerInv'
    <2>1. /\ pc[c] = "writing" /\ writer = c /\ writer' = None /\ leftOpen' = leftOpen
          /\ pc' = [pc EXCEPT ![c] = "answered"] /\ request' = request
          /\ IsOfCallers(reply') /\ IsOfCallers(receipt')
      BY <1>10 DEF Commit, Answer
    <2> QED
      BY <2>1
  <1>11. ASSUME NEW c \in Client, RollBack(c) PROVE CallerInv'
    <2>1. /\ pc[c] \in InWrite /\ writer = c /\ writer' = None /\ leftOpen' = leftOpen
          /\ pc' = [pc EXCEPT ![c] = IF @ = "writing" THEN "answered" ELSE "closed"]
          /\ request' = request /\ IsOfCallers(reply') /\ IsOfCallers(receipt')
      BY <1>11 DEF RollBack, Fails
    <2> QED
      BY <2>1
  <1>12. ASSUME NEW c \in Client, NEW s \in Source, OpenExisting(c, s) PROVE CallerInv'
    BY <1>12 DEF OpenExisting
  <1>13. ASSUME NEW c \in Client, NEW i \in ImportId, NEW s \in Source,
                NEW rows \in Workbooks, Prepare(c, i, s, rows)
         PROVE  CallerInv'
    <2>1. /\ pc[c] \in {"open", "answered"} /\ c \notin leftOpen
          /\ pc' = [pc EXCEPT ![c] = "sent"]
          /\ reply' = [reply EXCEPT ![c] = "NONE"]
          /\ writer' = writer /\ leftOpen' = leftOpen
          /\ receipt' = [receipt EXCEPT ![c] = None]
      BY <1>13 DEF Prepare
    <2>2. \E new : request' = [request EXCEPT ![c] = new]
      BY <1>13 DEF Prepare
    <2>3. /\ IsOfCallers(receipt') /\ IsOfCallers(request') /\ IsOfCallers(reply')
          /\ \A d \in Client \ {c} : request'[d] = request[d]
      BY <2>1, <2>2
    <2>4. writer # c
      BY <2>1
    <2>5. pc' \in [Client -> Place] /\ \A d \in leftOpen' : pc'[d] \notin {"creating", "building", "writing"}
      BY <2>1
    <2>6. \A d \in Client : pc'[d] \in InWrite => writer' = d
      BY <2>1
    <2>7. ASSUME NEW d \in Client
          PROVE  /\ pc'[d] = "writing" => request'[d].rows \notin Incomplete
                 /\ writer' = d =>
                      /\ pc'[d] \notin {"creating", "open"}
                      /\ pc'[d] \in {"sent", "answered"} => request'[d].rows \notin Incomplete
      BY <2>1, <2>3, <2>4
    <2>8. writer' # None /\ pc'[writer'] \notin InWrite =>
            writer' \in leftOpen' /\ reply'[writer'] \in {"ROLLBACK_FAILED", "STORAGE_FAILURE"}
      BY <2>1, <2>4
    <2> QED
      BY <2>1, <2>3, <2>5, <2>6, <2>7, <2>8
  <1>14. ASSUME NEW s \in Source, NEW t \in Source, Rollover(s, t) PROVE CallerInv'
    BY <1>14 DEF Rollover, callers
  <1>15. ASSUME NEW c \in Client, RollBackRaises(c) PROVE CallerInv'
    <2>1. /\ pc[c] \in InWrite /\ writer = c /\ request' = request
          /\ pc' = [pc EXCEPT ![c] = IF @ = "writing" THEN "answered" ELSE "closed"]
          /\ reply' = [reply EXCEPT ![c] = "ROLLBACK_FAILED"] /\ IsOfCallers(receipt')
      BY <1>15 DEF RollBackRaises, Fails
    <2>2. CASE writer' = None /\ leftOpen' = leftOpen
      BY <2>1, <2>2
    <2>3. CASE writer' = writer /\ leftOpen' = leftOpen \cup {c}
      BY <2>1, <2>3
    <2> QED
      BY <1>15, <2>2, <2>3 DEF RollBackRaises
  <1>16. ASSUME NEW c \in Client, ReadRollBackRaises(c) PROVE CallerInv'
    BY <1>16 DEF ReadRollBackRaises, Fails, callers
  <1>17. ASSUME NEW c \in Client, Disconnect(c) PROVE CallerInv'
    BY <1>17 DEF Disconnect, callers
  <1> QED
    BY <1>1, <1>2, <1>3, <1>4, <1>5, <1>6, <1>7, <1>8, <1>9, <1>10, <1>11,
       <1>12, <1>13, <1>14, <1>15, <1>16, <1>17 DEF Next

LEMMA HistoryStep == IInv /\ [Next]_vars => HistoryInv' /\ NoStaleImport'
  <1> SUFFICES ASSUME IInv, [Next]_vars PROVE HistoryInv' /\ NoStaleImport'
    OBVIOUS
  <1> USE DEF IInv
  <1>1. CASE ~\E c \in Client : Commit(c)
    BY <1>1, OnlyCommitWrites DEF HistoryInv, NoStaleImport
  <1>2. ASSUME NEW c \in Client, Commit(c) PROVE HistoryInv' /\ NoStaleImport'
    <2> DEFINE r == request[c]
               new == imports'[r.import]
    <2>1. /\ r.import \notin DOMAIN imports
          /\ DOMAIN imports' = DOMAIN imports \cup {r.import}
          /\ \A i \in DOMAIN imports : imports'[i] = imports[i]
          /\ r.expected = generation
          /\ generation' = generation + 1
      BY <1>2, CommitAddsRow
    <2>2. /\ new.digest = r /\ new.base = generation
          /\ new.committed = generation + 1
      <3>1. new = NewImport(r, Prior(r.source, r.rows))
        BY <1>2, CommitAddsRow
      <3> QED
        BY <3>1 DEF NewImport
    <2> HIDE DEF r, new
    <2>3. NoStaleImport'
      BY <2>1, <2>2 DEF NoStaleImport, new
    <2>4. HistoryInv'
      <3>1. generation' \in Nat
        BY <2>1 DEF HistoryInv
      <3>2. \A i \in DOMAIN imports' :
                /\ imports'[i].committed \in 1..generation'
                /\ imports'[i].committed = imports'[i].base + 1
        BY <2>1, <2>2 DEF HistoryInv, new
      <3>3. \A i, j \in DOMAIN imports' :
                imports'[i].committed = imports'[j].committed => i = j
        BY <2>1, <2>2 DEF HistoryInv, new
      <3>4. \A g \in 1..generation' : \E i \in DOMAIN imports' : imports'[i].committed = g
        <4> SUFFICES ASSUME NEW g \in 1..generation'
                     PROVE  \E i \in DOMAIN imports' : imports'[i].committed = g
          OBVIOUS
        <4>1. CASE g = generation + 1
          BY <4>1, <2>1, <2>2 DEF new
        <4>2. CASE g \in 1..generation
          BY <4>2, <2>1 DEF HistoryInv
        <4> QED
          BY <4>1, <4>2, <2>1 DEF HistoryInv
      <3> QED
        BY <3>1, <3>2, <3>3, <3>4 DEF HistoryInv
    <2> QED
      BY <2>3, <2>4
  <1> QED
    BY <1>1, <1>2

\* No step takes a row out of the table of imports or changes one.
LEMMA ImportsKept ==
    ASSUME [Next]_vars, NEW i \in DOMAIN imports
    PROVE  i \in DOMAIN imports' /\ imports'[i] = imports[i]
  <1>1. CASE \E c \in Client : Commit(c)
    BY <1>1, CommitAddsRow
  <1>2. CASE ~\E c \in Client : Commit(c)
    BY <1>2, OnlyCommitWrites
  <1> QED
    BY <1>1, <1>2

\* What one caller is told of imports: the three properties about replies.
Told(c) ==
    /\ reply[c] = "COMMITTED" => request[c].import \in DOMAIN imports
    /\ receipt[c] # None =>
        /\ request[c].import \in DOMAIN imports
        /\ imports[request[c].import].digest = request[c]
        /\ receipt[c] = ReceiptOf(imports[request[c].import])

\* A caller that keeps its request, reply and receipt is told nothing new.
LEMMA ToldKept ==
    ASSUME [Next]_vars, NEW c \in Client, Told(c),
           request'[c] = request[c],
           reply'[c] = reply[c] \/ reply'[c] # "COMMITTED",
           receipt'[c] = receipt[c] \/ receipt'[c] = None
    PROVE  Told(c)'
  BY ImportsKept DEF Told, ReceiptOf

\* What a step leaves to a caller: all it had, or less, or the commit or the
\* replay of its request.
LEMMA ToldSteps ==
    ASSUME CallerInv, [Next]_vars, NEW c \in Client
    PROVE  \/ /\ request'[c] = request[c]
              /\ reply'[c] = reply[c] \/ reply'[c] # "COMMITTED"
              /\ receipt'[c] = receipt[c] \/ receipt'[c] = None
           \/ reply'[c] = "NONE" /\ receipt'[c] = None
           \/ Commit(c) /\ request'[c] = request[c]
           \/ /\ Replay(c) /\ request'[c] = request[c] /\ imports' = imports
              /\ reply'[c] = "REPLAYED"
              /\ receipt'[c] = ReceiptOf(imports[request[c].import])
  <1> DEFINE Goal ==
           \/ /\ request'[c] = request[c]
              /\ reply'[c] = reply[c] \/ reply'[c] # "COMMITTED"
              /\ receipt'[c] = receipt[c] \/ receipt'[c] = None
           \/ reply'[c] = "NONE" /\ receipt'[c] = None
           \/ Commit(c) /\ request'[c] = request[c]
           \/ /\ Replay(c) /\ request'[c] = request[c] /\ imports' = imports
              /\ reply'[c] = "REPLAYED"
              /\ receipt'[c] = ReceiptOf(imports[request[c].import])
  <1> USE DEF CallerInv, IsOfCallers
  <1>1. CASE UNCHANGED vars
    BY <1>1 DEF vars, callers
  <1>2. ASSUME NEW d \in Client, FindEmpty(d) \/ Create(d) PROVE Goal
    BY <1>2 DEF FindEmpty, Create
  <1>3. ASSUME NEW d \in Client, Retry(d) \/ Begin(d) PROVE Goal
    BY <1>3 DEF Retry, Begin
  <1>4. ASSUME NEW d \in Client, Reject(d) \/ Busy(d) \/ RefuseNested(d) PROVE Goal
    BY <1>4 DEF Reject, Busy, RefuseNested, Answer, Fails
  <1>5. ASSUME NEW d \in Client, Refuse(d) PROVE Goal
    BY <1>5 DEF Refuse, Answer
  <1>6. ASSUME NEW d \in Client, RollBack(d) \/ RollBackRaises(d) PROVE Goal
    BY <1>6 DEF RollBack, RollBackRaises, Fails
  <1>7. ASSUME NEW d \in Client, Replay(d) PROVE Goal
    BY <1>7 DEF Replay, Answer, tables
  <1>8. ASSUME NEW d \in Client, Commit(d) PROVE Goal
    BY <1>8 DEF Commit, Answer
  <1>9. ASSUME NEW d \in Client, NEW s \in Source, OpenExisting(d, s) PROVE Goal
    BY <1>9 DEF OpenExisting
  <1>10. ASSUME NEW d \in Client, NEW i \in ImportId, NEW s \in Source,
                NEW rows \in Workbooks, Prepare(d, i, s, rows)
         PROVE  Goal
    BY <1>10 DEF Prepare
  <1>11. ASSUME NEW s \in Source, NEW t \in Source, Rollover(s, t) PROVE Goal
    BY <1>11 DEF Rollover, callers
  <1>12. ASSUME NEW d \in Client, ReadRollBackRaises(d) \/ Disconnect(d) PROVE Goal
    BY <1>12 DEF ReadRollBackRaises, Disconnect, Fails, callers
  <1> QED
    BY <1>1, <1>2, <1>3, <1>4, <1>5, <1>6, <1>7, <1>8, <1>9, <1>10, <1>11, <1>12
    DEF Next

LEMMA ToldStep ==
    ASSUME IInv, [Next]_vars, NEW c \in Client
    PROVE  Told(c)'
  <1> USE DEF IInv
  <1>1. Told(c)
    BY DEF Told, ReplyInv, ReceiptIsOfMyRequest
  <1>2. CASE /\ request'[c] = request[c]
             /\ reply'[c] = reply[c] \/ reply'[c] # "COMMITTED"
             /\ receipt'[c] = receipt[c] \/ receipt'[c] = None
    BY <1>1, <1>2, ToldKept
  <1>3. CASE reply'[c] = "NONE" /\ receipt'[c] = None
    BY <1>3 DEF Told
  <1>4. CASE Commit(c) /\ request'[c] = request[c]
    <2> DEFINE r == request[c]
    <2>1. /\ r.import \in DOMAIN imports'
          /\ imports'[r.import] = NewImport(r, Prior(r.source, r.rows))
      BY <1>4, CommitAddsRow
    <2>2. imports'[r.import].digest = r
      BY <2>1 DEF NewImport
    <2>3. receipt'[c] \in {None, ReceiptOf(imports'[r.import])}
      BY <1>4 DEF Commit, Answer, CallerInv, IsOfCallers
    <2>4. ReceiptOf(imports[request[c].import])' = ReceiptOf(imports'[r.import])
      BY <1>4 DEF ReceiptOf
    <2> QED
      BY <1>4, <2>1, <2>2, <2>3, <2>4 DEF Told
  <1>5. CASE /\ Replay(c) /\ request'[c] = request[c] /\ imports' = imports
             /\ reply'[c] = "REPLAYED"
             /\ receipt'[c] = ReceiptOf(imports[request[c].import])
    <2>1. Committed(request[c]) /\ imports[request[c].import].digest = request[c]
      BY <1>5, ReplayedVerdict DEF Replay
    <2>2. ReceiptOf(imports[request[c].import])' = ReceiptOf(imports[request[c].import])
      BY <1>5 DEF ReceiptOf
    <2> QED
      BY <1>5, <2>1, <2>2 DEF Told, Committed
  <1> QED
    BY <1>2, <1>3, <1>4, <1>5, ToldSteps

LEMMA RepliesStep ==
    IInv /\ [Next]_vars => ReplyInv' /\ ReceiptIsOfMyRequest'
  <1> SUFFICES ASSUME IInv, [Next]_vars PROVE ReplyInv' /\ ReceiptIsOfMyRequest'
    OBVIOUS
  <1>1. \A c \in Client : Told(c)'
    BY ToldStep
  <1> QED
    BY <1>1 DEF Told, ReplyInv, ReceiptIsOfMyRequest

\* Who is told COMMITTED by this step committed in it; who was told before
\* keeps its request.
LEMMA NewlyCommitted ==
    ASSUME IInv, [Next]_vars, NEW c \in Client, reply'[c] = "COMMITTED"
    PROVE  /\ request'[c] = request[c]
           /\ \/ Commit(c)
              \/ reply[c] = "COMMITTED" /\ request[c].import \in DOMAIN imports
  BY ToldSteps DEF IInv, ReplyInv

LEMMA OneCommitStep == IInv /\ [Next]_vars => OneCommitPerImport'
  <1> SUFFICES ASSUME IInv, [Next]_vars,
                      NEW c \in Client, NEW d \in Client,
                      reply'[c] = "COMMITTED", reply'[d] = "COMMITTED",
                      request'[c].import = request'[d].import
               PROVE  c = d
    BY DEF OneCommitPerImport
  <1>1. request[c].import = request[d].import
    BY NewlyCommitted
  <1>2. CASE Commit(c) /\ Commit(d)
    BY <1>2 DEF Commit, IInv, CallerInv, NoSilentLock, InWrite
  <1>3. CASE Commit(c) /\ ~Commit(d)
    BY <1>1, <1>3, NewlyCommitted, CommitAddsRow
  <1>4. CASE ~Commit(c) /\ Commit(d)
    BY <1>1, <1>4, NewlyCommitted, CommitAddsRow
  <1>5. CASE ~Commit(c) /\ ~Commit(d)
    BY <1>1, <1>5, NewlyCommitted DEF IInv, OneCommitPerImport
  <1> QED
    BY <1>2, <1>3, <1>4, <1>5

LEMMA FreshStep == IInv /\ [Next]_vars => FreshInv'
  <1> SUFFICES ASSUME IInv, [Next]_vars PROVE FreshInv'
    OBVIOUS
  <1>1. CASE \E c \in Client : Create(c)
    BY <1>1 DEF Create, IInv, FreshInv
  <1>2. CASE \E c \in Client : Commit(c)
    BY <1>2, CommittedVerdict DEF Commit, WriteImport, IInv, FreshInv
  <1>3. CASE \E s, t \in Source : Rollover(s, t)
    BY <1>3 DEF Rollover, IsActive, IInv, FreshInv
  <1>4. CASE /\ ~\E c \in Client : Commit(c) \/ Create(c)
             /\ ~\E s, t \in Source : Rollover(s, t)
    BY <1>4, OnlyThreeWrite DEF tables, IInv, FreshInv
  <1> QED
    BY <1>1, <1>2, <1>3, <1>4

\* What a step may do to a source that is not active.
LEMMA FrozenStep ==
    ASSUME IInv, [Next]_vars, NEW s \in DOMAIN bindings, ~IsActive(s)
    PROVE  /\ bindings'[s] = bindings[s]
           /\ \A id \in StableId :
                /\ (<<s, id>> \in DOMAIN members') = (<<s, id>> \in DOMAIN members)
                /\ <<s, id>> \in DOMAIN members =>
                    members'[<<s, id>>] = members[<<s, id>>]
  <1>1. CASE \E c \in Client : Create(c)
    <2>1. UNCHANGED <<bindings, members>>
      BY <1>1 DEF Create, IInv, FreshInv
    <2> QED
      BY <2>1
  <1>2. ASSUME NEW c \in Client, Commit(c)
        PROVE  /\ bindings'[s] = bindings[s]
               /\ \A id \in StableId :
                    /\ (<<s, id>> \in DOMAIN members') = (<<s, id>> \in DOMAIN members)
                    /\ <<s, id>> \in DOMAIN members =>
                        members'[<<s, id>>] = members[<<s, id>>]
    <2> DEFINE r == request[c]
               written == NewMembers(r, Prior(r.source, r.rows))
    <2>1. s # r.source
      BY <1>2, CommittedVerdict DEF Commit
    <2>2. bindings' = [bindings EXCEPT ![r.source] = Latest(@, r)]
      BY <1>2 DEF Commit, WriteImport
    <2>3. members' = Overlay(members, written)
      BY <1>2 DEF Commit, WriteImport
    <2>4. \A id \in StableId : <<s, id>> \notin DOMAIN written
      BY <2>1 DEF NewMembers
    <2> HIDE DEF r, written
    <2>5. bindings'[s] = bindings[s]
      BY <2>1, <2>2
    <2>6. ASSUME NEW id \in StableId
          PROVE  /\ (<<s, id>> \in DOMAIN members') = (<<s, id>> \in DOMAIN members)
                 /\ <<s, id>> \in DOMAIN members =>
                    members'[<<s, id>>] = members[<<s, id>>]
      BY <2>3, <2>4 DEF Overlay
    <2> QED
      BY <2>5, <2>6
  <1>3. ASSUME NEW a \in Source, NEW t \in Source, Rollover(a, t)
        PROVE  bindings'[s] = bindings[s] /\ members' = members
    <2>1. /\ s # a /\ s # t /\ members' = members
          /\ bindings' = Overlay([bindings EXCEPT ![a] = Archived(@)],
                                 [x \in {t} |-> NewBinding])
      BY <1>3 DEF Rollover
    <2> QED
      BY <2>1 DEF Overlay
  <1>4. CASE /\ ~\E c \in Client : Commit(c) \/ Create(c)
             /\ ~\E a, t \in Source : Rollover(a, t)
    BY <1>4, OnlyThreeWrite DEF tables
  <1> QED
    BY <1>1, <1>2, <1>3, <1>4

\* The strengthened invariant holds always: commits alone write, and what they
\* wrote stays (initialize, read, commit and rollover).
THEOREM Invariance == Spec => []IInv
  <1>1. Init => IInv
    BY InitIInv
  <1>2. IInv /\ [Next]_vars => IInv'
    BY CallerStep, HistoryStep, RepliesStep, OneCommitStep, FreshStep DEF IInv
  <1> QED
    BY <1>1, <1>2, PTL DEF Spec

-----------------------------------------------------------------------------
(* The theorems. *)

\* Callers write one at a time, and the write lock outlives a call only where its
\* own ROLLBACK raised, which the caller was told, on a connection that refuses
\* every further call.
THEOREM LockIsAccountedFor == Spec => []NoSilentLock
  <1>1. IInv => NoSilentLock
    BY DEF IInv, CallerInv
  <1> QED
    BY <1>1, Invariance, PTL

\* No import is applied to a generation other than the one it was planned
\* against, whatever other callers commit in between.
THEOREM NoImportIsStale == Spec => []NoStaleImport
  <1>1. IInv => NoStaleImport
    BY DEF IInv
  <1> QED
    BY <1>1, Invariance, PTL

\* Every receipt a caller holds is the row of the request it sent.
THEOREM ReceiptsAreTrue == Spec => []ReceiptIsOfMyRequest
  <1>1. IInv => ReceiptIsOfMyRequest
    BY DEF IInv
  <1> QED
    BY <1>1, Invariance, PTL

\* Of all callers that use one import identity at most one is told COMMITTED.
THEOREM OneCommit == Spec => []OneCommitPerImport
  <1>1. IInv => OneCommitPerImport
    BY DEF IInv
  <1> QED
    BY <1>1, Invariance, PTL

\* The imports are numbered 1, 2, ... up to the generation of the store, each
\* by the one row that has it: the history has no gap and no fork.
THEOREM HistoryIsContiguous == Spec => []HistoryInv
  <1>1. IInv => HistoryInv
    BY DEF IInv
  <1> QED
    BY <1>1, Invariance, PTL

\* No step changes anything of an archived source: neither its binding, nor
\* which rows it holds, nor at which revision.
THEOREM ArchivesStayFrozen == Spec => ArchivedFrozen
  <1>1. IInv /\ [Next]_vars =>
            [\A s \in DOMAIN bindings : ~IsActive(s) =>
                /\ bindings'[s] = bindings[s]
                /\ \A id \in StableId :
                    /\ (<<s, id>> \in DOMAIN members') = (<<s, id>> \in DOMAIN members)
                    /\ <<s, id>> \in DOMAIN members =>
                        members'[<<s, id>>] = members[<<s, id>>]]_vars
    BY FrozenStep
  <1> QED
    BY <1>1, Invariance, PTL DEF Spec, ArchivedFrozen

-----------------------------------------------------------------------------
(* The tables and the feed. *)

\* Revision k of the row is the last one.
Top(id, k) ==
    /\ <<id, k>> \in DOMAIN revisions
    /\ \A x \in DOMAIN revisions : x[1] = id => x[2] <= k

SequenceInv == DOMAIN events = 1..(nextSequence - 1)

\* An event and the revision it announces say the same.
EventInv ==
    \A q \in DOMAIN events :
        LET e == events[q]
            head == revisions[<<e.id, e.rev>>]
        IN  /\ <<e.id, e.rev>> \in DOMAIN revisions
            /\ head.version = e.event /\ head.previous = e.previous
            /\ head.sheet = e.sheet /\ head.hash = e.hash /\ head.import = e.import
            /\ head.lifecycle = IF e.op = "upsert" THEN "active" ELSE "voided"
            /\ e.import \in DOMAIN imports /\ imports[e.import].source = e.source
            /\ <<e.source, e.id>> \in DOMAIN members

\* Every revision was announced, and some source points at the last one.
RevisionInv ==
    \A k \in DOMAIN revisions :
        /\ \E q \in DOMAIN events : events[q].id = k[1] /\ events[q].rev = k[2]
        /\ \E s \in DOMAIN bindings :
            <<s, k[1]>> \in DOMAIN members /\ Top(k[1], members[<<s, k[1]>>].rev)

\* The revisions of a row are announced in their order.
OrderInv ==
    \A p, q \in DOMAIN events :
        events[p].id = events[q].id /\ p < q => events[p].rev < events[q].rev

\* A membership is of a row its source once held; the active source points at
\* the last revision of every row it knows.
MemberInv ==
    \A k \in DOMAIN members :
        /\ k[1] \in DOMAIN bindings
        /\ <<k[2], members[k].rev>> \in DOMAIN revisions
        /\ IsActive(k[1]) => Top(k[2], members[k].rev)
        /\ \E i \in DOMAIN imports :
            imports[i].source = k[1] /\ k[2] \in DOMAIN imports[i].file

\* What an import held, its source still knows.
FileInv ==
    \A i \in DOMAIN imports : \A id \in DOMAIN imports[i].file :
        <<imports[i].source, id>> \in DOMAIN members

\* The revisions the active source points at are its last workbook.
LiveInv ==
    \A s \in DOMAIN bindings : IsActive(s) /\ bindings[s].lastImport # None =>
        LET rows == bindings[s].lastFile
        IN  /\ \A id \in DOMAIN rows :
                /\ <<s, id>> \in DOMAIN members
                /\ HeadOf(s, id).lifecycle = "active"
                /\ HeadOf(s, id).hash = rows[id].hash
                /\ HeadOf(s, id).sheet = rows[id].sheet
            /\ \A id \in MemberIds(s) \ DOMAIN rows : HeadOf(s, id).lifecycle = "voided"

FeedInv ==
    /\ SequenceInv /\ EventInv /\ RevisionInv /\ OrderInv /\ MemberInv
    /\ FileInv /\ LiveInv

-----------------------------------------------------------------------------
(* The plan. *)

\* The changed rows, sorted, get the positions 0, 1, ..., each exactly one: the
\* order of sheets and row UUIDs leaves no tie and no gap.
LEMMA PositionsNumber ==
    ASSUME NEW rows, NEW prior,
           IsFiniteSet(Changed(rows, prior)),
           \A id \in Changed(rows, prior) : id \in Nat /\ ItemSheet(rows, prior, id) \in Nat
    PROVE  LET changed == Changed(rows, prior)
               position(id) == Position(rows, prior, id)
           IN  /\ Cardinality(changed) \in Nat
               /\ \A id \in changed : position(id) \in 0..(Cardinality(changed) - 1)
               /\ \A a, b \in changed : position(a) = position(b) => a = b
               /\ \A p \in 0..(Cardinality(changed) - 1) : \E id \in changed : position(id) = p
  <1> DEFINE changed == Changed(rows, prior)
             m == Cardinality(changed)
             Before(id) == {other \in changed : Precedes(rows, prior, other, id)}
             positions == [id \in changed |-> Cardinality(Before(id))]
             range == 0..(m - 1)
  <1>1. m \in Nat
    BY FS_CardinalityType
  <1>2. ASSUME NEW id \in changed
        PROVE  /\ IsFiniteSet(Before(id)) /\ Cardinality(Before(id)) \in Nat
               /\ Cardinality(Before(id)) <= m - 1
    <2>1. Before(id) \in SUBSET changed /\ id \notin Before(id)
      BY DEF Precedes
    <2> HIDE DEF changed, Before
    <2>2. /\ IsFiniteSet(Before(id)) /\ Cardinality(Before(id)) <= m
          /\ m = Cardinality(Before(id)) => changed = Before(id)
      BY <2>1, FS_Subset DEF changed
    <2>3. Cardinality(Before(id)) \in Nat
      BY <2>2, FS_CardinalityType
    <2> QED
      BY <1>1, <2>1, <2>2, <2>3
  <1>3. ASSUME NEW a \in changed, NEW b \in changed, Precedes(rows, prior, a, b)
        PROVE  Cardinality(Before(a)) # Cardinality(Before(b))
    <2>1. Before(a) \in SUBSET Before(b) /\ a \in Before(b) /\ a \notin Before(a)
      BY <1>3 DEF Precedes
    <2> HIDE DEF changed, Before
    <2> QED
      BY <1>2, <2>1, FS_Subset
  <1>4. ASSUME NEW a \in changed, NEW b \in changed, a # b
        PROVE  Precedes(rows, prior, a, b) \/ Precedes(rows, prior, b, a)
    BY <1>4 DEF Precedes
  <1>5. \A a, b \in changed : Cardinality(Before(a)) = Cardinality(Before(b)) => a = b
    <2> HIDE DEF Before, changed
    <2> QED
      BY <1>3, <1>4
  <1>6. positions \in Injection(changed, range)
    <2> HIDE DEF Before, changed
    <2>1. positions \in [changed -> range]
      BY <1>1, <1>2
    <2> QED
      BY <1>5, <2>1 DEF Injection, IsInjective
  <1>7. IsFiniteSet(range) /\ Cardinality(range) = m
    BY <1>1, FS_Interval
  <1>8. positions \in Surjection(changed, range)
    <2> HIDE DEF positions, range, changed, m
    <2>1. Cardinality(changed) = Cardinality(range)
      BY <1>7 DEF m
    <2> QED
      BY <1>6, <1>7, <2>1, FS_Injection
  <1>9. \A p \in range : \E id \in changed : positions[id] = p
    <2> HIDE DEF positions, range, changed
    <2> QED
      BY <1>8 DEF Surjection
  <1>10. \A id \in changed : Position(rows, prior, id) = Cardinality(Before(id))
    BY DEF Position
  <1>11. /\ \A id \in changed : Position(rows, prior, id) \in range
         /\ \A a, b \in changed : Position(rows, prior, a) = Position(rows, prior, b) => a = b
         /\ \A p \in range : \E id \in changed : Position(rows, prior, id) = p
    <2> HIDE DEF Before, changed, m
    <2> QED
      BY <1>1, <1>2, <1>5, <1>9, <1>10
  <1> QED
    BY <1>1, <1>11

-----------------------------------------------------------------------------
(* What the reader makes of the tables. *)

\* Revision k of a row as the catalog shows it.
Said(id, k) ==
    [sheet     |-> revisions[<<id, k>>].sheet,
     rev       |-> k,
     lifecycle |-> revisions[<<id, k>>].lifecycle,
     hash      |-> revisions[<<id, k>>].hash]

\* What the registries hold, in the words of the tables.
LEMMA RegistriesSay ==
    /\ DOMAIN Registries = DOMAIN bindings
    /\ \A s \in DOMAIN bindings :
        /\ DOMAIN Registries[s] = MemberIds(s)
        /\ \A id \in MemberIds(s) : Registries[s][id] = Said(id, members[<<s, id>>].rev)
  BY DEF Registries, HeadOf, Said

\* A row is known to the catalog iff it has a revision.
LEMMA KnownRows ==
    ASSUME TypeOK, RevisionInv, MemberInv
    PROVE  \A id \in StableId :
             /\ id \in Known(Registries) <=> \E s \in DOMAIN bindings : id \in MemberIds(s)
             /\ id \in Known(Registries) <=> \E k \in Nat : <<id, k>> \in DOMAIN revisions
  <1>1. ASSUME NEW id \in StableId
        PROVE  id \in Known(Registries) <=> \E s \in DOMAIN bindings : id \in MemberIds(s)
    BY RegistriesSay DEF Known
  <1>2. ASSUME NEW id \in StableId, NEW s \in DOMAIN bindings, id \in MemberIds(s)
        PROVE  \E k \in Nat : <<id, k>> \in DOMAIN revisions
    <2>1. <<s, id>> \in DOMAIN members
      BY <1>2 DEF MemberIds
    <2>2. members[<<s, id>>].rev \in Nat
      BY <2>1 DEF TypeOK, Table, Membership
    <2> QED
      BY <2>1, <2>2 DEF MemberInv
  <1>3. ASSUME NEW id \in StableId, NEW k \in Nat, <<id, k>> \in DOMAIN revisions
        PROVE  \E s \in DOMAIN bindings : id \in MemberIds(s)
    BY <1>3 DEF RevisionInv, MemberIds
  <1> QED
    BY <1>1, <1>2, <1>3

\* The latest state of a row over all sources is its last revision.
LEMMA HeadIsTop ==
    ASSUME TypeOK, RevisionInv, MemberInv, NEW id \in StableId, id \in Known(Registries)
    PROVE  LET head == GlobalHead(Registries, id)
           IN  head = Said(id, head.rev) /\ Top(id, head.rev)
  <1> DEFINE states == {Registries[s][id] : s \in Holders(Registries, id)}
             Best(state) == \A s \in Holders(Registries, id) :
                                Registries[s][id].rev <= state.rev
             head == GlobalHead(Registries, id)
             r(s) == members[<<s, id>>].rev
  <1>1. Holders(Registries, id) = {s \in DOMAIN bindings : id \in MemberIds(s)}
    BY RegistriesSay DEF Holders
  <1>2. \A s \in Holders(Registries, id) :
          /\ <<s, id>> \in DOMAIN members /\ <<id, r(s)>> \in DOMAIN revisions
          /\ r(s) \in Nat
          /\ Registries[s][id] = Said(id, r(s)) /\ Registries[s][id].rev = r(s)
    BY <1>1, RegistriesSay DEF MemberIds, MemberInv, TypeOK, Table, Membership, Said
  <1>3. PICK t \in Holders(Registries, id) : Top(id, r(t))
    <2>1. PICK k \in Nat : <<id, k>> \in DOMAIN revisions
      BY KnownRows
    <2> QED
      BY <1>1, <2>1 DEF RevisionInv, MemberIds
  <1>4. Registries[t][id] \in states /\ Best(Registries[t][id])
    BY <1>2, <1>3 DEF Top
  <1>5. head = CHOOSE state \in states : Best(state)
    BY DEF GlobalHead
  <1>6. head \in states /\ Best(head)
    <2> HIDE DEF states, Best, head
    <2> QED
      BY <1>4, <1>5
  <1>7. PICK u \in Holders(Registries, id) : head = Registries[u][id]
    BY <1>6
  <1>8. r(t) <= r(u) /\ r(u) <= r(t)
    BY <1>2, <1>3, <1>6, <1>7 DEF Top
  <1>9. r(u) = r(t)
    <2>1. r(u) \in Nat /\ r(t) \in Nat
      BY <1>2
    <2> QED
      BY <1>8, <2>1
  <1> QED
    BY <1>2, <1>3, <1>7, <1>9

\* A row has one last revision.
LEMMA TopIsUnique ==
    ASSUME NEW id, NEW j \in Nat, NEW k \in Nat, Top(id, j), Top(id, k)
    PROVE  j = k
  BY DEF Top

\* The state a snapshot of the active source is compared with: the last
\* revisions of the rows it knows, and of the rows in it that others know.
LEMMA PriorSays ==
    ASSUME TypeOK, RevisionInv, MemberInv,
           NEW s \in DOMAIN bindings, IsActive(s), NEW rows \in Snapshot
    PROVE  LET prior == Prior(s, rows)
           IN  /\ DOMAIN prior = MemberIds(s) \cup (DOMAIN rows \cap Known(Registries))
               /\ DOMAIN rows \subseteq StableId /\ DOMAIN prior \subseteq StableId
               /\ \A id \in DOMAIN prior : /\ prior[id].rev \in Nat \ {0}
                                           /\ prior[id] = Said(id, prior[id].rev)
                                           /\ Top(id, prior[id].rev)
               /\ \A id \in DOMAIN rows \ DOMAIN prior :
                    \A k \in Nat : <<id, k>> \notin DOMAIN revisions
  <1> DEFINE prior == Prior(s, rows)
  <1>1. DOMAIN rows \subseteq StableId
    BY DEF Snapshot
  <1>2. DOMAIN prior = MemberIds(s) \cup (DOMAIN rows \cap Known(Registries))
    BY RegistriesSay DEF Prior, ProjectSourcePrior, Borrowed
  <1>3. DOMAIN prior \subseteq StableId
    BY <1>1, <1>2 DEF MemberIds
  <1>4. \A id \in DOMAIN prior :
          prior[id] = IF id \in MemberIds(s) THEN Registries[s][id] ELSE GlobalHead(Registries, id)
    BY RegistriesSay DEF Prior, ProjectSourcePrior
  <1> HIDE DEF prior
  <1>5. ASSUME NEW id \in DOMAIN prior
        PROVE  prior[id].rev \in Nat \ {0} /\ prior[id] = Said(id, prior[id].rev)
               /\ Top(id, prior[id].rev)
    <2>1. CASE id \in MemberIds(s)
      <3>1. <<s, id>> \in DOMAIN members
        BY <2>1 DEF MemberIds
      <3>2. members[<<s, id>>].rev \in Nat \ {0} /\ Top(id, members[<<s, id>>].rev)
        BY <3>1 DEF TypeOK, Table, Membership, MemberInv
      <3>3. prior[id] = Said(id, members[<<s, id>>].rev)
        BY <1>4, <2>1, RegistriesSay
      <3> QED
        BY <3>2, <3>3 DEF Said
    <2>2. CASE id \notin MemberIds(s)
      <3>1. id \in StableId /\ id \in Known(Registries)
        BY <1>2, <1>3, <2>2
      <3>2. prior[id] = Said(id, prior[id].rev) /\ Top(id, prior[id].rev)
        BY <1>4, <2>2, <3>1, HeadIsTop
      <3>3. <<id, prior[id].rev>> \in StableId \X (Nat \ {0})
        BY <3>2 DEF Top, TypeOK, Table
      <3> QED
        BY <3>2, <3>3
    <2> QED
      BY <2>1, <2>2
  <1>6. ASSUME NEW id \in DOMAIN rows \ DOMAIN prior, NEW k \in Nat
        PROVE  <<id, k>> \notin DOMAIN revisions
    BY <1>1, <1>2, KnownRows
  <1> QED
    BY <1>1, <1>2, <1>3, <1>5, <1>6 DEF prior

\* A row that is admitted keeps its sheet, and a transaction its only holder.
LEMMA AdmittedRows ==
    ASSUME TypeOK, RevisionInv, MemberInv,
           NEW s \in DOMAIN bindings, IsActive(s), NEW rows \in Snapshot,
           CatalogConsistent(Registries, {t \in DOMAIN bindings : IsActive(t)}),
           ~Relocates(rows, Registries), ~TakesTransaction(s, rows, Registries)
    PROVE  LET prior == Prior(s, rows)
           IN  /\ \A id \in DOMAIN rows \cap DOMAIN prior : rows[id].sheet = prior[id].sheet
               /\ \A id \in DOMAIN prior, t \in DOMAIN bindings :
                    prior[id].sheet # PartySheet /\ id \in MemberIds(t) => t = s
  <1> DEFINE prior == Prior(s, rows)
             head(id) == GlobalHead(Registries, id)
  <1>1. /\ DOMAIN prior = MemberIds(s) \cup (DOMAIN rows \cap Known(Registries))
        /\ DOMAIN prior \subseteq StableId
        /\ \A id \in DOMAIN prior : /\ prior[id].rev \in Nat \ {0}
                                    /\ prior[id] = Said(id, prior[id].rev)
                                    /\ Top(id, prior[id].rev)
    BY PriorSays
  <1>2. MemberIds(s) \subseteq Known(Registries)
    BY RegistriesSay DEF Known
  <1> HIDE DEF prior
  <1>3. ASSUME NEW id \in DOMAIN prior
        PROVE  id \in Known(Registries) /\ head(id) = prior[id]
    <2>1. id \in StableId /\ id \in Known(Registries)
      BY <1>1, <1>2
    <2>2. head(id) = Said(id, head(id).rev) /\ Top(id, head(id).rev)
      BY <2>1, HeadIsTop
    <2>3. head(id).rev \in Nat
      BY <2>2 DEF Top, TypeOK, Table
    <2>4. head(id).rev = prior[id].rev
      BY <1>1, <2>2, <2>3, TopIsUnique
    <2> QED
      BY <1>1, <2>1, <2>2, <2>4
  <1>4. \A id \in DOMAIN rows \cap DOMAIN prior : rows[id].sheet = prior[id].sheet
    BY <1>3 DEF Relocates
  <1>5. ASSUME NEW id \in DOMAIN prior, NEW t \in DOMAIN bindings,
               prior[id].sheet # PartySheet, id \in MemberIds(t)
        PROVE  t = s
    <2>1. CASE id \in DOMAIN rows
      <3>1. Holders(Registries, id) = {s}
        BY <1>3, <1>5, <2>1 DEF TakesTransaction
      <3>2. t \in Holders(Registries, id)
        BY <1>5, RegistriesSay DEF Holders
      <3> QED
        BY <3>1, <3>2
    <2>2. CASE id \notin DOMAIN rows
      <3>1. id \in MemberIds(s)
        BY <1>1, <2>2
      <3>2. id \in DOMAIN Registries[s] \cap DOMAIN Registries[t]
        BY <1>5, <3>1, RegistriesSay
      <3>3. Registries[s][id] = prior[id]
        <4>1. <<s, id>> \in DOMAIN members
          BY <3>1 DEF MemberIds
        <4>2. members[<<s, id>>].rev \in Nat \ {0} /\ Top(id, members[<<s, id>>].rev)
          BY <4>1 DEF TypeOK, Table, Membership, MemberInv
        <4>3. members[<<s, id>>].rev = prior[id].rev
          BY <1>1, <4>2, TopIsUnique
        <4> QED
          BY <1>1, <3>1, <4>3, RegistriesSay
      <3>4. Registries[s][id].sheet # PartySheet => s = t
        BY <3>2, RegistriesSay DEF CatalogConsistent
      <3> QED
        BY <1>5, <3>3, <3>4
    <2> QED
      BY <2>1, <2>2
  <1> QED
    BY <1>4, <1>5 DEF prior

\* The changed rows are finitely many rows, each of one sheet.
LEMMA ChangesAreRows ==
    ASSUME TypeOK, RevisionInv, MemberInv,
           NEW s \in DOMAIN bindings, IsActive(s), NEW rows \in Snapshot
    PROVE  LET prior == Prior(s, rows)
               changed == Changed(rows, prior)
           IN  /\ changed \subseteq StableId /\ IsFiniteSet(changed)
               /\ \A id \in changed : ItemSheet(rows, prior, id) \in Sheet
               /\ \A id \in changed : PlannedRevision(prior, id) \in Nat \ {0}
               /\ \A id \in changed : <<id, PlannedRevision(prior, id)>> \notin DOMAIN revisions
  <1> DEFINE prior == Prior(s, rows)
             changed == Changed(rows, prior)
  <1>1. /\ DOMAIN rows \subseteq StableId /\ DOMAIN prior \subseteq StableId
        /\ \A id \in DOMAIN prior : /\ prior[id].rev \in Nat \ {0}
                                    /\ prior[id] = Said(id, prior[id].rev)
                                    /\ Top(id, prior[id].rev)
        /\ \A id \in DOMAIN rows \ DOMAIN prior :
             \A k \in Nat : <<id, k>> \notin DOMAIN revisions
    BY PriorSays
  <1>2. \A id \in DOMAIN rows : rows[id].sheet \in Sheet
    BY DEF Snapshot, Row
  <1> HIDE DEF prior
  <1>3. changed \subseteq DOMAIN rows \cup DOMAIN prior
    BY DEF Changed, Inserted, Edited, Voided
  <1>4. changed \in SUBSET StableId
    BY <1>1, <1>3
  <1>5. IsFiniteSet(changed)
    BY <1>4, PlanAssumption, FS_Subset
  <1>6. \A id \in DOMAIN prior : prior[id].sheet \in Sheet
    <2> SUFFICES ASSUME NEW id \in DOMAIN prior PROVE prior[id].sheet \in Sheet
      OBVIOUS
    <2> DEFINE k == prior[id].rev
    <2>1. <<id, k>> \in DOMAIN revisions /\ prior[id] = Said(id, k)
      BY <1>1 DEF Top
    <2>2. revisions[<<id, k>>].sheet \in Sheet
      BY <2>1 DEF TypeOK, Table, Revision
    <2> QED
      BY <2>1, <2>2 DEF Said
  <1>7. \A id \in changed : ItemSheet(rows, prior, id) \in Sheet
    BY <1>2, <1>3, <1>6 DEF ItemSheet
  <1>8. ASSUME NEW id \in changed
        PROVE  /\ PlannedRevision(prior, id) \in Nat \ {0}
               /\ <<id, PlannedRevision(prior, id)>> \notin DOMAIN revisions
    <2>1. CASE id \in DOMAIN prior
      <3> DEFINE k == prior[id].rev
      <3>1. k \in Nat /\ Top(id, k) /\ PlannedRevision(prior, id) = k + 1
        BY <1>1, <2>1 DEF PlannedRevision
      <3> HIDE DEF k
      <3> QED
        BY <3>1 DEF Top
    <2>2. CASE id \notin DOMAIN prior
      BY <1>1, <1>3, <2>2 DEF PlannedRevision
    <2> QED
      BY <2>1, <2>2
  <1> QED
    BY <1>4, <1>5, <1>7, <1>8 DEF prior

-----------------------------------------------------------------------------
(* What a commit writes. *)

\* The state request r is planned against, the rows it changes, their new
\* revisions and their places in the outbox.
Was(r) == Prior(r.source, r.rows)
Changes(r) == Changed(r.rows, Was(r))
NewRev(r, id) == PlannedRevision(Was(r), id)
Slot(r, id) == nextSequence + Position(r.rows, Was(r), id)

Written(r, id) ==
    [sheet     |-> ItemSheet(r.rows, Was(r), id),
     lifecycle |-> IF id \in DOMAIN r.rows THEN "active" ELSE "voided",
     hash      |-> NewHash(r, id),
     import    |-> r.import,
     version   |-> r.events[id],
     previous  |-> Predecessor(id, NewRev(r, id))]

\* Every caller in a call has a request.
SentInv == \A c \in Client : pc[c] \in {"sent", "writing"} => request[c] \in Request

Tables == TypeOK /\ SentInv /\ FeedInv

\* The step commits request r.
Commits(r) == \E c \in Client : Commit(c) /\ r = request[c]

\* The verdict COMMITTED is reached past every refusal.
LEMMA CommittedMeans ==
    ASSUME NEW r, Verdict(r) = "COMMITTED"
    PROVE  /\ IsActive(r.source) /\ ReaderAccepts
           /\ ~Relocates(r.rows, Registries) /\ ~TakesTransaction(r.source, r.rows, Registries)
           /\ DOMAIN r.events = Changes(r)
           /\ ~WriteClashes(r, Was(r))
  BY DEF Verdict, NotActive, Changes, Was

\* The request of a commit.
LEMMA CommittedRequest ==
    ASSUME Tables, NEW r, Commits(r)
    PROVE  /\ r \in Request /\ Verdict(r) = "COMMITTED"
           /\ r.source \in DOMAIN bindings /\ IsActive(r.source)
           /\ \A t \in DOMAIN bindings : IsActive(t) => t = r.source
           /\ r.rows \in Snapshot /\ r.rows \in Workbooks
           /\ r.import \in ImportId /\ r.source \in Source
           /\ \A id \in Changes(r) : r.events[id] \in EventId
  <1>1. r \in Request /\ Verdict(r) = "COMMITTED"
    BY DEF Commits, Commit, Tables, SentInv
  <1>2. /\ r.import \in ImportId /\ r.source \in Source /\ r.rows \in Workbooks
        /\ r.events \in UNION {[ids -> EventId] : ids \in SUBSET StableId}
    BY <1>1 DEF Request
  <1>3. r.rows \in Snapshot
    BY <1>2, StoreAssumption
  <1>4. IsActive(r.source) /\ ReaderAccepts /\ DOMAIN r.events = Changes(r)
    BY <1>1, CommittedMeans
  <1>5. r.source \in DOMAIN bindings
    BY <1>4 DEF IsActive
  <1>6. \A t \in DOMAIN bindings : IsActive(t) => t = r.source
    BY <1>4, <1>5 DEF ReaderAccepts, BindingsReadable
  <1>7. \A id \in Changes(r) : r.events[id] \in EventId
    BY <1>2, <1>4
  <1> QED
    BY <1>1, <1>2, <1>3, <1>4, <1>5, <1>6, <1>7

\* Its plan.
LEMMA CommittedPlan ==
    ASSUME Tables, NEW r, Commits(r)
    PROVE  /\ Changes(r) \subseteq StableId /\ IsFiniteSet(Changes(r))
           /\ DOMAIN r.rows \subseteq StableId /\ DOMAIN Was(r) \subseteq StableId
           /\ \A id \in Changes(r) :
                /\ ItemSheet(r.rows, Was(r), id) \in Sheet
                /\ NewRev(r, id) \in Nat \ {0}
                /\ <<id, NewRev(r, id)>> \notin DOMAIN revisions
           /\ \A id \in DOMAIN Was(r) :
                /\ Was(r)[id].rev \in Nat \ {0}
                /\ Was(r)[id] = Said(id, Was(r)[id].rev) /\ Top(id, Was(r)[id].rev)
           /\ \A id \in DOMAIN r.rows \ DOMAIN Was(r) :
                \A k \in Nat : <<id, k>> \notin DOMAIN revisions
           /\ DOMAIN Was(r) = MemberIds(r.source) \cup (DOMAIN r.rows \cap Known(Registries))
           /\ \A id \in DOMAIN r.rows \cap DOMAIN Was(r) : r.rows[id].sheet = Was(r)[id].sheet
           /\ \A id \in DOMAIN Was(r), t \in DOMAIN bindings :
                Was(r)[id].sheet # PartySheet /\ id \in MemberIds(t) => t = r.source
  <1>1. /\ Verdict(r) = "COMMITTED" /\ r.rows \in Snapshot
        /\ r.source \in DOMAIN bindings /\ IsActive(r.source)
    BY CommittedRequest
  <1>2. TypeOK /\ RevisionInv /\ MemberInv
    BY DEF Tables, FeedInv
  <1>3. /\ Changes(r) \subseteq StableId /\ IsFiniteSet(Changes(r))
        /\ \A id \in Changes(r) :
             /\ ItemSheet(r.rows, Was(r), id) \in Sheet
             /\ NewRev(r, id) \in Nat \ {0}
             /\ <<id, NewRev(r, id)>> \notin DOMAIN revisions
    BY <1>1, <1>2, ChangesAreRows DEF Was, Changes, NewRev
  <1>4. /\ DOMAIN r.rows \subseteq StableId /\ DOMAIN Was(r) \subseteq StableId
        /\ \A id \in DOMAIN Was(r) :
             /\ Was(r)[id].rev \in Nat \ {0}
             /\ Was(r)[id] = Said(id, Was(r)[id].rev) /\ Top(id, Was(r)[id].rev)
        /\ \A id \in DOMAIN r.rows \ DOMAIN Was(r) :
             \A k \in Nat : <<id, k>> \notin DOMAIN revisions
        /\ DOMAIN Was(r) = MemberIds(r.source) \cup (DOMAIN r.rows \cap Known(Registries))
    BY <1>1, <1>2, PriorSays DEF Was
  <1>5. /\ \A id \in DOMAIN r.rows \cap DOMAIN Was(r) : r.rows[id].sheet = Was(r)[id].sheet
        /\ \A id \in DOMAIN Was(r), t \in DOMAIN bindings :
             Was(r)[id].sheet # PartySheet /\ id \in MemberIds(t) => t = r.source
    <2>1. /\ CatalogConsistent(Registries, {t \in DOMAIN bindings : IsActive(t)})
          /\ ~Relocates(r.rows, Registries) /\ ~TakesTransaction(r.source, r.rows, Registries)
      BY <1>1, CommittedMeans DEF ReaderAccepts
    <2> QED
      BY <1>1, <1>2, <2>1, AdmittedRows DEF Was
  <1> QED
    BY <1>3, <1>4, <1>5

\* What a row of the workbook has to do with the plan, in the planner's cases.
LEMMA PlanCases ==
    ASSUME Tables, NEW r, Commits(r)
    PROVE  /\ \A id \in Changes(r) \ DOMAIN r.rows :
                /\ id \in MemberIds(r.source) /\ id \in DOMAIN Was(r)
                /\ Was(r)[id].lifecycle = "active"
           /\ \A id \in Changes(r) \cap DOMAIN r.rows \cap DOMAIN Was(r) :
                Was(r)[id].lifecycle # "active" \/ Was(r)[id].hash # r.rows[id].hash
           /\ \A id \in DOMAIN r.rows \ Changes(r) :
                /\ id \in DOMAIN Was(r)
                /\ Was(r)[id].lifecycle = "active" /\ Was(r)[id].hash = r.rows[id].hash
           /\ \A id \in DOMAIN Was(r) \ (DOMAIN r.rows \cup Changes(r)) :
                Was(r)[id].lifecycle # "active"
  <1>1. DOMAIN Was(r) = MemberIds(r.source) \cup (DOMAIN r.rows \cap Known(Registries))
    BY CommittedPlan
  <1> QED
    BY <1>1 DEF Changes, Changed, Inserted, Edited, Unchanged, Voided

\* The history grows by the request.
LEMMA CommitImports ==
    ASSUME Tables, NEW r, Commits(r)
    PROVE  /\ r.import \notin DOMAIN imports
           /\ DOMAIN imports' = DOMAIN imports \cup {r.import}
           /\ \A i \in DOMAIN imports : imports'[i] = imports[i]
           /\ imports'[r.import] = NewImport(r, Was(r))
           /\ imports'[r.import].source = r.source /\ imports'[r.import].file = r.rows
           /\ imports'[r.import].committed = generation + 1
           /\ generation' = generation + 1
  <1>1. PICK c \in Client : Commit(c) /\ r = request[c]
    BY DEF Commits
  <1>2. /\ r.import \notin DOMAIN imports
        /\ DOMAIN imports' = DOMAIN imports \cup {r.import}
        /\ \A i \in DOMAIN imports : imports'[i] = imports[i]
        /\ imports'[r.import] = NewImport(r, Was(r))
        /\ generation' = generation + 1
    BY <1>1, CommitAddsRow DEF Was
  <1> QED
    BY <1>2 DEF NewImport

\* The new revisions stand beside the old ones.
LEMMA CommitRevisions ==
    ASSUME Tables, NEW r, Commits(r)
    PROVE  /\ DOMAIN revisions' =
                DOMAIN revisions \cup {<<id, NewRev(r, id)>> : id \in Changes(r)}
           /\ \A k \in DOMAIN revisions : revisions'[k] = revisions[k]
           /\ \A id \in Changes(r) : revisions'[<<id, NewRev(r, id)>>] = Written(r, id)
  <1> DEFINE new == NewRevisions(r, Was(r))
  <1>1. revisions' = Overlay(revisions, new)
    BY DEF Commits, Commit, WriteImport, Was
  <1>2. \A id \in Changes(r) : <<id, NewRev(r, id)>> \notin DOMAIN revisions
    BY CommittedPlan
  <1>3. DOMAIN new = {<<id, NewRev(r, id)>> : id \in Changes(r)}
    BY DEF NewRevisions, Changes, NewRev
  <1>4. \A id \in Changes(r) : new[<<id, NewRev(r, id)>>] = Written(r, id)
    BY DEF NewRevisions, Changes, NewRev, Written
  <1> HIDE DEF new
  <1>5. /\ DOMAIN revisions' = DOMAIN revisions \cup DOMAIN new
        /\ \A k \in DOMAIN new : revisions'[k] = new[k]
        /\ \A k \in DOMAIN revisions \ DOMAIN new : revisions'[k] = revisions[k]
    BY <1>1 DEF Overlay
  <1>6. \A k \in DOMAIN revisions : k \notin DOMAIN new
    BY <1>2, <1>3
  <1>7. \A id \in Changes(r) : <<id, NewRev(r, id)>> \in DOMAIN new
    BY <1>3
  <1>8. \A id \in Changes(r) : revisions'[<<id, NewRev(r, id)>>] = Written(r, id)
    BY <1>4, <1>5, <1>7
  <1>9. DOMAIN revisions' = DOMAIN revisions \cup {<<id, NewRev(r, id)>> : id \in Changes(r)}
    BY <1>3, <1>5
  <1>10. \A k \in DOMAIN revisions : revisions'[k] = revisions[k]
    BY <1>5, <1>6
  <1> QED
    BY <1>8, <1>9, <1>10

\* The outbox grows by one event for every changed row, in plan order.
LEMMA CommitEvents ==
    ASSUME Tables, NEW r, Commits(r)
    PROVE  /\ Cardinality(Changes(r)) \in Nat
           /\ nextSequence' = nextSequence + Cardinality(Changes(r))
           /\ nextSequence \in Nat \ {0} /\ nextSequence' \in Nat \ {0}
           /\ nextSequence <= nextSequence'
           /\ DOMAIN events = 1..(nextSequence - 1)
           /\ DOMAIN events' = 1..(nextSequence' - 1)
           /\ \A q \in DOMAIN events : q \in DOMAIN events' /\ events'[q] = events[q]
           /\ \A id \in Changes(r) :
                /\ Slot(r, id) \in DOMAIN events' /\ Slot(r, id) >= nextSequence
                /\ events'[Slot(r, id)] = NewEvent(r, Was(r), id)
           /\ \A q \in DOMAIN events' \ DOMAIN events : \E id \in Changes(r) : q = Slot(r, id)
  <1> DEFINE n == nextSequence
             m == Cardinality(Changes(r))
             at(q) == CHOOSE id \in Changes(r) : Slot(r, id) = q
             new == [q \in n..(n + m - 1) |-> NewEvent(r, Was(r), at(q))]
  <1>1. events' = Overlay(events, new) /\ nextSequence' = n + m
    BY DEF Commits, Commit, WriteImport, Was, Changes, NewEvents, Slot
  <1>2. /\ Changes(r) \subseteq StableId /\ IsFiniteSet(Changes(r))
        /\ \A id \in Changes(r) : ItemSheet(r.rows, Was(r), id) \in Sheet
    BY CommittedPlan
  <1>3. n \in Nat \ {0} /\ DOMAIN events = 1..(n - 1)
    BY DEF Tables, FeedInv, TypeOK, SequenceInv
  <1>4. /\ m \in Nat
        /\ \A id \in Changes(r) : Position(r.rows, Was(r), id) \in 0..(m - 1)
        /\ \A a, b \in Changes(r) :
             Position(r.rows, Was(r), a) = Position(r.rows, Was(r), b) => a = b
        /\ \A p \in 0..(m - 1) : \E id \in Changes(r) : Position(r.rows, Was(r), id) = p
    <2>1. \A id \in Changes(r) : id \in Nat /\ ItemSheet(r.rows, Was(r), id) \in Nat
      BY <1>2, PlanAssumption
    <2> QED
      BY <1>2, <2>1, PositionsNumber DEF Changes
  <1>5. \A id \in Changes(r) : Slot(r, id) \in n..(n + m - 1)
    BY <1>3, <1>4 DEF Slot
  <1>6. \A a, b \in Changes(r) : Slot(r, a) = Slot(r, b) => a = b
    <2>1. \A id \in Changes(r) : Position(r.rows, Was(r), id) \in Int
      BY <1>4
    <2> QED
      BY <1>3, <1>4, <2>1 DEF Slot
  <1>7. ASSUME NEW q \in n..(n + m - 1)
        PROVE  \E id \in Changes(r) : q = Slot(r, id)
    <2>1. q - n \in 0..(m - 1)
      BY <1>3, <1>4
    <2>2. PICK id \in Changes(r) : Position(r.rows, Was(r), id) = q - n
      BY <1>4, <2>1
    <2> QED
      BY <1>3, <2>2 DEF Slot
  <1>8. \A id \in Changes(r) : at(Slot(r, id)) = id
    BY <1>6
  <1> HIDE DEF at, m
  <1>9. \A id \in Changes(r) : new[Slot(r, id)] = NewEvent(r, Was(r), id)
    BY <1>5, <1>8
  <1>10. DOMAIN new = n..(n + m - 1)
    OBVIOUS
  <1> HIDE DEF new
  <1>11. /\ DOMAIN events' = DOMAIN events \cup DOMAIN new
         /\ \A q \in DOMAIN new : events'[q] = new[q]
         /\ \A q \in DOMAIN events \ DOMAIN new : events'[q] = events[q]
    BY <1>1 DEF Overlay
  <1>12. nextSequence' = n + m /\ m \in Nat
    BY <1>1, <1>4
  <1>13. DOMAIN events' = 1..(nextSequence' - 1)
    BY <1>3, <1>10, <1>11, <1>12
  <1>14. \A q \in DOMAIN events : q \in DOMAIN events' /\ events'[q] = events[q]
    BY <1>3, <1>10, <1>11, <1>12
  <1>15. ASSUME NEW id \in Changes(r)
         PROVE  /\ Slot(r, id) \in DOMAIN events' /\ Slot(r, id) >= nextSequence
                /\ events'[Slot(r, id)] = NewEvent(r, Was(r), id)
    <2>1. Slot(r, id) \in DOMAIN new
      BY <1>5, <1>10
    <2>2. Slot(r, id) >= n
      BY <1>3, <1>5, <1>12
    <2> QED
      BY <1>9, <1>11, <2>1, <2>2
  <1>16. \A q \in DOMAIN events' \ DOMAIN events : \E id \in Changes(r) : q = Slot(r, id)
    BY <1>7, <1>10, <1>11
  <1> QED
    BY <1>3, <1>12, <1>13, <1>14, <1>15, <1>16 DEF m

\* A commit leaves the memberships of other sources, and points the source at
\* the new revisions of the changed rows and the old ones of the rest.
LEMMA CommitMembers ==
    ASSUME Tables, NEW r, Commits(r)
    PROVE  /\ DOMAIN members' = DOMAIN members \cup {<<r.source, id>> : id \in DOMAIN r.rows}
           /\ \A k \in DOMAIN members : k[1] # r.source => members'[k] = members[k]
           /\ \A id : <<r.source, id>> \in DOMAIN members' =>
                /\ id \in StableId /\ id \in Changes(r) \cup DOMAIN Was(r)
                /\ members'[<<r.source, id>>].rev =
                     IF id \in Changes(r) THEN NewRev(r, id) ELSE Was(r)[id].rev
           /\ \A id \in Changes(r) : <<r.source, id>> \in DOMAIN members'
  <1> DEFINE s == r.source
             new == NewMembers(r, Was(r))
             rev(id) == IF id \in Changes(r) THEN NewRev(r, id) ELSE Was(r)[id].rev
  <1>1. members' = Overlay(members, new)
    BY DEF Commits, Commit, WriteImport, Was
  <1>2. s \in DOMAIN bindings
    BY CommittedRequest
  <1>3. /\ DOMAIN Was(r) = MemberIds(s) \cup (DOMAIN r.rows \cap Known(Registries))
        /\ DOMAIN r.rows \subseteq StableId
    BY CommittedPlan
  <1>4. DOMAIN new = {s} \X (DOMAIN r.rows \cup Voided(r.rows, Was(r)))
    BY DEF NewMembers
  <1>5. \A id \in DOMAIN r.rows \cup Voided(r.rows, Was(r)) : new[<<s, id>>].rev = rev(id)
    BY DEF NewMembers, Changes, NewRev
  <1>6. ASSUME NEW id \in MemberIds(s) PROVE Was(r)[id].rev = members[<<s, id>>].rev
    <2>1. Was(r)[id] = Registries[s][id]
      BY <1>2, RegistriesSay DEF Was, Prior, ProjectSourcePrior
    <2>2. Registries[s][id] = Said(id, members[<<s, id>>].rev)
      BY <1>2, RegistriesSay
    <2> QED
      BY <2>1, <2>2 DEF Said
  <1>7. MemberIds(s) \subseteq StableId /\ \A id \in MemberIds(s) : <<s, id>> \in DOMAIN members
    BY DEF MemberIds
  <1>8. \A id : <<s, id>> \in DOMAIN members => id \in MemberIds(s)
    BY DEF MemberIds, Tables, TypeOK, Table
  <1> HIDE DEF s, new
  <1>9. /\ DOMAIN members' = DOMAIN members \cup DOMAIN new
        /\ \A k \in DOMAIN new : members'[k] = new[k]
        /\ \A k \in DOMAIN members \ DOMAIN new : members'[k] = members[k]
    BY <1>1 DEF Overlay
  <1>10. Voided(r.rows, Was(r)) \subseteq MemberIds(s)
    BY <1>3 DEF Voided
  <1>11. DOMAIN members' = DOMAIN members \cup {<<s, id>> : id \in DOMAIN r.rows}
    BY <1>4, <1>7, <1>9, <1>10
  <1>12. \A k \in DOMAIN members : k[1] # s => members'[k] = members[k]
    BY <1>4, <1>9
  <1>13. Changes(r) \subseteq DOMAIN r.rows \cup Voided(r.rows, Was(r))
    BY DEF Changes, Changed, Inserted, Edited
  <1>14. ASSUME NEW id, <<s, id>> \in DOMAIN members'
         PROVE  /\ id \in StableId /\ id \in Changes(r) \cup DOMAIN Was(r)
                /\ members'[<<s, id>>].rev = rev(id)
    <2>1. id \in DOMAIN r.rows \cup MemberIds(s)
      BY <1>8, <1>11, <1>14
    <2>2. id \in Changes(r) \cup DOMAIN Was(r)
      BY <1>3, <2>1 DEF Changes, Changed, Inserted
    <2>3. CASE id \in DOMAIN r.rows \cup Voided(r.rows, Was(r))
      BY <1>3, <1>4, <1>5, <1>7, <1>9, <2>1, <2>2, <2>3
    <2>4. CASE id \notin DOMAIN r.rows \cup Voided(r.rows, Was(r))
      <3>1. id \in MemberIds(s) /\ id \notin Changes(r)
        BY <1>13, <2>1, <2>4
      <3>2. <<s, id>> \in DOMAIN members \ DOMAIN new
        BY <1>4, <1>7, <2>4, <3>1
      <3> QED
        BY <1>6, <1>7, <1>9, <2>2, <3>1, <3>2
    <2> QED
      BY <2>3, <2>4
  <1>15. \A id \in Changes(r) : <<s, id>> \in DOMAIN members'
    BY <1>4, <1>9, <1>13
  <1> QED
    BY <1>11, <1>12, <1>14, <1>15 DEF s

\* The binding of the source names the import; the others stay.
LEMMA CommitBindings ==
    ASSUME Tables, NEW r, Commits(r)
    PROVE  /\ DOMAIN bindings' = DOMAIN bindings
           /\ \A s \in DOMAIN bindings : s # r.source => bindings'[s] = bindings[s]
           /\ bindings'[r.source] = Latest(bindings[r.source], r)
           /\ \A s : IsActive(s)' <=> IsActive(s)
           /\ bindings'[r.source].lastImport = r.import
           /\ bindings'[r.source].lastFile = r.rows
  <1>1. bindings' = [bindings EXCEPT ![r.source] = Latest(bindings[r.source], r)]
    BY DEF Commits, Commit, WriteImport
  <1>2. r.source \in DOMAIN bindings
    BY CommittedRequest
  <1>3. bindings[r.source] \in Binding
    BY <1>2 DEF Tables, TypeOK, Table
  <1>4. /\ Latest(bindings[r.source], r).state = bindings[r.source].state
        /\ Latest(bindings[r.source], r).lastImport = r.import
        /\ Latest(bindings[r.source], r).lastFile = r.rows
    BY <1>3 DEF Latest, Binding
  <1>5. /\ DOMAIN bindings' = DOMAIN bindings
        /\ \A s \in DOMAIN bindings : s # r.source => bindings'[s] = bindings[s]
        /\ bindings'[r.source] = Latest(bindings[r.source], r)
    BY <1>1, <1>2
  <1>6. \A s : IsActive(s)' <=> IsActive(s)
    BY <1>4, <1>5 DEF IsActive
  <1> QED
    BY <1>4, <1>5, <1>6

\* Revision k will be the last one of the row.
NextTop(id, k) ==
    /\ <<id, k>> \in DOMAIN revisions'
    /\ \A x \in DOMAIN revisions' : x[1] = id => x[2] <= k

\* After a commit the new revisions are the last ones of the changed rows, and
\* the last ones of the other rows stay so.
LEMMA CommitTops ==
    ASSUME Tables, NEW r, Commits(r)
    PROVE  /\ \A id \in Changes(r) : NextTop(id, NewRev(r, id))
           /\ \A id, k : id \notin Changes(r) /\ Top(id, k) => NextTop(id, k)
           /\ \A id \in Changes(r), k \in Nat :
                <<id, k>> \in DOMAIN revisions => k < NewRev(r, id)
  <1>1. /\ \A id \in DOMAIN Was(r) : Was(r)[id].rev \in Nat \ {0} /\ Top(id, Was(r)[id].rev)
        /\ \A id \in DOMAIN r.rows \ DOMAIN Was(r) :
             \A k \in Nat : <<id, k>> \notin DOMAIN revisions
        /\ \A id \in Changes(r) : NewRev(r, id) \in Nat \ {0}
    BY CommittedPlan
  <1>2. DOMAIN revisions' = DOMAIN revisions \cup {<<id, NewRev(r, id)>> : id \in Changes(r)}
    BY CommitRevisions
  <1>3. DOMAIN revisions \subseteq StableId \X (Nat \ {0})
    BY DEF Tables, TypeOK, Table
  <1>4. ASSUME NEW id \in Changes(r), NEW k \in Nat, <<id, k>> \in DOMAIN revisions
        PROVE  k < NewRev(r, id)
    <2>1. id \in DOMAIN Was(r) \/ id \in DOMAIN r.rows
      BY DEF Changes, Changed, Inserted, Edited, Voided
    <2>2. id \in DOMAIN Was(r)
      BY <1>1, <1>4, <2>1
    <2>3. NewRev(r, id) = Was(r)[id].rev + 1
      BY <2>2 DEF NewRev, PlannedRevision
    <2>4. k <= Was(r)[id].rev /\ Was(r)[id].rev \in Nat
      BY <1>1, <1>4, <2>2 DEF Top
    <2> QED
      BY <2>3, <2>4
  <1>5. ASSUME NEW id \in Changes(r)
        PROVE  NextTop(id, NewRev(r, id))
    <2>1. <<id, NewRev(r, id)>> \in DOMAIN revisions'
      BY <1>2
    <2>2. ASSUME NEW x \in DOMAIN revisions', x[1] = id
          PROVE  x[2] <= NewRev(r, id)
      <3>1. CASE x \in DOMAIN revisions
        <4>1. x = <<id, x[2]>> /\ x[2] \in Nat
          BY <1>3, <2>2, <3>1
        <4>2. x[2] < NewRev(r, id)
          BY <1>4, <3>1, <4>1
        <4> QED
          BY <1>1, <4>1, <4>2
      <3>2. CASE x \notin DOMAIN revisions
        <4>1. PICK b \in Changes(r) : x = <<b, NewRev(r, b)>>
          BY <1>2, <3>2
        <4> QED
          BY <1>1, <2>2, <4>1
      <3> QED
        BY <3>1, <3>2
    <2> QED
      BY <2>1, <2>2 DEF NextTop
  <1>6. ASSUME NEW id, NEW k, id \notin Changes(r), Top(id, k)
        PROVE  NextTop(id, k)
    BY <1>2, <1>6 DEF Top, NextTop
  <1> QED
    BY <1>4, <1>5, <1>6

\* What the event of a changed row says.
LEMMA NewEventSays ==
    ASSUME Tables, NEW r, Commits(r), NEW id \in Changes(r)
    PROVE  LET e == events'[Slot(r, id)]
           IN  /\ Slot(r, id) \in DOMAIN events' /\ Slot(r, id) \notin DOMAIN events
               /\ e.id = id /\ e.rev = NewRev(r, id) /\ e.event = r.events[id]
               /\ e.import = r.import /\ e.source = r.source
               /\ e.op = IF id \in DOMAIN r.rows THEN "upsert" ELSE "void"
               /\ e.sheet = ItemSheet(r.rows, Was(r), id) /\ e.hash = NewHash(r, id)
               /\ e.previous = Predecessor(id, NewRev(r, id))
  <1>1. /\ Slot(r, id) \in DOMAIN events'
        /\ events'[Slot(r, id)] = NewEvent(r, Was(r), id)
        /\ Slot(r, id) >= nextSequence /\ DOMAIN events = 1..(nextSequence - 1)
        /\ nextSequence \in Nat \ {0}
    BY CommitEvents
  <1>2. Slot(r, id) \notin DOMAIN events
    BY <1>1
  <1> HIDE DEF Slot
  <1> QED
    BY <1>1, <1>2 DEF NewEvent, NewRev

-----------------------------------------------------------------------------
(* The invariant over a commit. *)

LEMMA CommitKeepsEvents ==
    ASSUME Tables, NEW r, Commits(r)
    PROVE  EventInv'
  <1> DEFINE Says(q) ==
        LET e == events'[q]
            head == revisions'[<<e.id, e.rev>>]
        IN  /\ <<e.id, e.rev>> \in DOMAIN revisions'
            /\ head.version = e.event /\ head.previous = e.previous
            /\ head.sheet = e.sheet /\ head.hash = e.hash /\ head.import = e.import
            /\ head.lifecycle = IF e.op = "upsert" THEN "active" ELSE "voided"
            /\ e.import \in DOMAIN imports' /\ imports'[e.import].source = e.source
            /\ <<e.source, e.id>> \in DOMAIN members'
  <1>1. /\ r.import \in DOMAIN imports' /\ imports'[r.import].source = r.source
        /\ \A i \in DOMAIN imports : i \in DOMAIN imports' /\ imports'[i] = imports[i]
    BY CommitImports
  <1>2. /\ \A k \in DOMAIN revisions : k \in DOMAIN revisions' /\ revisions'[k] = revisions[k]
        /\ \A id \in Changes(r) : /\ <<id, NewRev(r, id)>> \in DOMAIN revisions'
                                  /\ revisions'[<<id, NewRev(r, id)>>] = Written(r, id)
    BY CommitRevisions
  <1>3. /\ \A k \in DOMAIN members : k \in DOMAIN members'
        /\ \A id \in Changes(r) : <<r.source, id>> \in DOMAIN members'
    BY CommitMembers
  <1>4. ASSUME NEW q \in DOMAIN events PROVE Says(q)
    <2>1. events'[q] = events[q]
      BY <1>4, CommitEvents
    <2> DEFINE e == events[q]
               head == revisions[<<e.id, e.rev>>]
    <2>2. /\ <<e.id, e.rev>> \in DOMAIN revisions
          /\ head.version = e.event /\ head.previous = e.previous
          /\ head.sheet = e.sheet /\ head.hash = e.hash /\ head.import = e.import
          /\ head.lifecycle = IF e.op = "upsert" THEN "active" ELSE "voided"
          /\ e.import \in DOMAIN imports /\ imports[e.import].source = e.source
          /\ <<e.source, e.id>> \in DOMAIN members
      BY <1>4 DEF Tables, FeedInv, EventInv
    <2>3. revisions'[<<e.id, e.rev>>] = head /\ <<e.id, e.rev>> \in DOMAIN revisions'
      BY <1>2, <2>2
    <2>4. e.import \in DOMAIN imports' /\ imports'[e.import] = imports[e.import]
      BY <1>1, <2>2
    <2>5. <<e.source, e.id>> \in DOMAIN members'
      BY <1>3, <2>2
    <2> HIDE DEF head
    <2> QED
      BY <2>1, <2>2, <2>3, <2>4, <2>5
  <1>5. ASSUME NEW id \in Changes(r) PROVE Says(Slot(r, id))
    <2> DEFINE e == events'[Slot(r, id)]
               head == revisions'[<<id, NewRev(r, id)>>]
    <2>1. /\ e.id = id /\ e.rev = NewRev(r, id) /\ e.event = r.events[id]
          /\ e.import = r.import /\ e.source = r.source
          /\ e.op = IF id \in DOMAIN r.rows THEN "upsert" ELSE "void"
          /\ e.sheet = ItemSheet(r.rows, Was(r), id) /\ e.hash = NewHash(r, id)
          /\ e.previous = Predecessor(id, NewRev(r, id))
      BY NewEventSays
    <2>2. /\ head.sheet = ItemSheet(r.rows, Was(r), id) /\ head.hash = NewHash(r, id)
          /\ head.import = r.import /\ head.version = r.events[id]
          /\ head.previous = Predecessor(id, NewRev(r, id))
          /\ head.lifecycle = IF id \in DOMAIN r.rows THEN "active" ELSE "voided"
      <3>1. head = Written(r, id)
        BY <1>2
      <3> HIDE DEF head
      <3> QED
        BY <3>1 DEF Written
    <2>3. head = revisions'[<<e.id, e.rev>>] /\ <<e.id, e.rev>> \in DOMAIN revisions'
      BY <1>2, <2>1
    <2>4. <<e.source, e.id>> \in DOMAIN members'
      BY <1>3, <2>1
    <2> HIDE DEF e, head
    <2>5. head.lifecycle = IF e.op = "upsert" THEN "active" ELSE "voided"
      BY <2>1, <2>2
    <2>6. /\ head.version = e.event /\ head.previous = e.previous
          /\ head.sheet = e.sheet /\ head.hash = e.hash /\ head.import = e.import
          /\ e.import \in DOMAIN imports' /\ imports'[e.import].source = e.source
      BY <1>1, <2>1, <2>2
    <2> QED
      BY <2>3, <2>4, <2>5, <2>6 DEF e
  <1>6. \A q \in DOMAIN events' : q \in DOMAIN events \/ \E id \in Changes(r) : q = Slot(r, id)
    BY CommitEvents
  <1> HIDE DEF Says
  <1>7. \A q \in DOMAIN events' : Says(q)
    BY <1>4, <1>5, <1>6
  <1> QED
    BY <1>7 DEF Says, EventInv

LEMMA CommitKeepsRevisions ==
    ASSUME Tables, NEW r, Commits(r)
    PROVE  RevisionInv'
  <1>1. DOMAIN revisions' = DOMAIN revisions \cup {<<id, NewRev(r, id)>> : id \in Changes(r)}
    BY CommitRevisions
  <1>2. \A q \in DOMAIN events : q \in DOMAIN events' /\ events'[q] = events[q]
    BY CommitEvents
  <1>3. \A id \in Changes(r) :
          /\ Slot(r, id) \in DOMAIN events'
          /\ events'[Slot(r, id)].id = id /\ events'[Slot(r, id)].rev = NewRev(r, id)
    BY NewEventSays
  <1>4. /\ DOMAIN members \subseteq DOMAIN members'
        /\ \A k \in DOMAIN members : k[1] # r.source => members'[k] = members[k]
        /\ \A id : <<r.source, id>> \in DOMAIN members' =>
             /\ id \in Changes(r) \cup DOMAIN Was(r)
             /\ members'[<<r.source, id>>].rev =
                  IF id \in Changes(r) THEN NewRev(r, id) ELSE Was(r)[id].rev
        /\ \A id \in Changes(r) : <<r.source, id>> \in DOMAIN members'
    BY CommitMembers
  <1>5. /\ \A id \in Changes(r) : NextTop(id, NewRev(r, id))
        /\ \A id, k : id \notin Changes(r) /\ Top(id, k) => NextTop(id, k)
    BY CommitTops
  <1>6. DOMAIN bindings' = DOMAIN bindings
    BY CommitBindings
  <1>7. r.source \in DOMAIN bindings
    BY CommittedRequest
  <1>8. \A id \in DOMAIN Was(r) : Top(id, Was(r)[id].rev)
    BY CommittedPlan
  <1>9. ASSUME NEW k \in DOMAIN revisions'
        PROVE  \E q \in DOMAIN events' : events'[q].id = k[1] /\ events'[q].rev = k[2]
    <2>1. CASE k \in DOMAIN revisions
      <3>1. PICK q \in DOMAIN events : events[q].id = k[1] /\ events[q].rev = k[2]
        BY <2>1 DEF Tables, FeedInv, RevisionInv
      <3> QED
        BY <1>2, <3>1
    <2>2. CASE k \notin DOMAIN revisions
      <3>1. PICK id \in Changes(r) : k = <<id, NewRev(r, id)>>
        BY <1>1, <2>2
      <3>2. k[1] = id /\ k[2] = NewRev(r, id)
        BY <3>1
      <3> QED
        BY <1>3, <3>2
    <2> QED
      BY <2>1, <2>2
  <1>10. ASSUME NEW k \in DOMAIN revisions'
         PROVE  \E s \in DOMAIN bindings' :
                  <<s, k[1]>> \in DOMAIN members' /\ NextTop(k[1], members'[<<s, k[1]>>].rev)
    <2> DEFINE id == k[1]
    <2>1. CASE id \in Changes(r)
      <3>1. /\ <<r.source, id>> \in DOMAIN members'
            /\ members'[<<r.source, id>>].rev = NewRev(r, id)
        BY <1>4, <2>1
      <3> QED
        BY <1>5, <1>6, <1>7, <2>1, <3>1
    <2>2. CASE id \notin Changes(r)
      <3>1. k \in DOMAIN revisions
        BY <1>1, <2>2
      <3>2. PICK t \in DOMAIN bindings :
              <<t, id>> \in DOMAIN members /\ Top(id, members[<<t, id>>].rev)
        BY <3>1 DEF Tables, FeedInv, RevisionInv
      <3> HIDE DEF id
      <3>3. <<t, id>> \in DOMAIN members'
        BY <1>4, <3>2
      <3>4. Top(id, members'[<<t, id>>].rev)
        <4>1. CASE t = r.source
          <5>1. id \in DOMAIN Was(r) /\ members'[<<t, id>>].rev = Was(r)[id].rev
            BY <1>4, <2>2, <3>3, <4>1
          <5> QED
            BY <1>8, <5>1
        <4>2. CASE t # r.source
          <5>1. members'[<<t, id>>] = members[<<t, id>>]
            BY <1>4, <3>2, <4>2
          <5> QED
            BY <3>2, <5>1
        <4> QED
          BY <4>1, <4>2
      <3>5. NextTop(id, members'[<<t, id>>].rev)
        BY <1>5, <2>2, <3>4
      <3> QED
        BY <1>6, <3>2, <3>3, <3>5 DEF id
    <2> QED
      BY <2>1, <2>2
  <1> QED
    BY <1>9, <1>10 DEF RevisionInv, Top, NextTop

LEMMA CommitKeepsOrder ==
    ASSUME Tables, NEW r, Commits(r)
    PROVE  SequenceInv' /\ OrderInv'
  <1>1. /\ DOMAIN events' = 1..(nextSequence' - 1)
        /\ DOMAIN events = 1..(nextSequence - 1)
        /\ nextSequence \in Nat /\ nextSequence' \in Nat
        /\ \A q \in DOMAIN events : events'[q] = events[q]
        /\ \A q \in DOMAIN events' \ DOMAIN events : \E id \in Changes(r) : q = Slot(r, id)
    BY CommitEvents
  <1>2. \A id \in Changes(r) :
          events'[Slot(r, id)].id = id /\ events'[Slot(r, id)].rev = NewRev(r, id)
    BY NewEventSays
  <1>3. \A id \in Changes(r), k \in Nat : <<id, k>> \in DOMAIN revisions => k < NewRev(r, id)
    BY CommitTops
  <1>4. \A p, q \in DOMAIN events' : p < q /\ q \in DOMAIN events => p \in DOMAIN events
    BY <1>1
  <1>5. ASSUME NEW p \in DOMAIN events', NEW q \in DOMAIN events',
               events'[p].id = events'[q].id, p < q
        PROVE  events'[p].rev < events'[q].rev
    <2>1. CASE q \in DOMAIN events
      <3>1. p \in DOMAIN events
        BY <1>4, <1>5, <2>1
      <3>2. events'[p] = events[p] /\ events'[q] = events[q]
        BY <1>1, <2>1, <3>1
      <3> QED
        BY <1>5, <2>1, <3>1, <3>2 DEF Tables, FeedInv, OrderInv
    <2>2. CASE q \notin DOMAIN events
      <3>1. PICK id \in Changes(r) : q = Slot(r, id)
        BY <1>1, <2>2
      <3>2. events'[q].id = id /\ events'[q].rev = NewRev(r, id)
        BY <1>2, <3>1
      <3>3. p \in DOMAIN events
        <4> SUFFICES ASSUME p \notin DOMAIN events PROVE FALSE
          OBVIOUS
        <4>1. PICK b \in Changes(r) : p = Slot(r, b)
          BY <1>1
        <4>2. b = id
          BY <1>2, <1>5, <3>2, <4>1
        <4>3. p = q
          BY <3>1, <4>1, <4>2
        <4>4. p \in Nat
          BY <1>1
        <4> QED
          BY <1>5, <4>3, <4>4
      <3>4. events'[p] = events[p] /\ events[p].id = id
        BY <1>1, <1>5, <3>2, <3>3
      <3>5. <<id, events[p].rev>> \in DOMAIN revisions
        BY <3>3, <3>4 DEF Tables, FeedInv, EventInv
      <3>6. events[p].rev \in Nat
        BY <3>3 DEF Tables, TypeOK, Table, Event
      <3> QED
        BY <1>3, <3>2, <3>4, <3>5, <3>6
    <2> QED
      BY <2>1, <2>2
  <1> QED
    BY <1>1, <1>5 DEF SequenceInv, OrderInv

LEMMA CommitKeepsMembers ==
    ASSUME Tables, NEW r, Commits(r)
    PROVE  MemberInv' /\ FileInv'
  <1>1. /\ r.source \in DOMAIN bindings
        /\ \A t \in DOMAIN bindings : IsActive(t) => t = r.source
    BY CommittedRequest
  <1>2. \A id \in DOMAIN Was(r) : Top(id, Was(r)[id].rev)
    BY CommittedPlan
  <1>3. /\ DOMAIN imports' = DOMAIN imports \cup {r.import}
        /\ \A i \in DOMAIN imports : imports'[i] = imports[i]
        /\ imports'[r.import].source = r.source /\ imports'[r.import].file = r.rows
    BY CommitImports
  <1>4. DOMAIN revisions \subseteq DOMAIN revisions'
    BY CommitRevisions
  <1>5. /\ DOMAIN members' = DOMAIN members \cup {<<r.source, id>> : id \in DOMAIN r.rows}
        /\ \A k \in DOMAIN members : k[1] # r.source => members'[k] = members[k]
        /\ \A id : <<r.source, id>> \in DOMAIN members' =>
             /\ id \in Changes(r) \cup DOMAIN Was(r)
             /\ members'[<<r.source, id>>].rev =
                  IF id \in Changes(r) THEN NewRev(r, id) ELSE Was(r)[id].rev
    BY CommitMembers
  <1>6. /\ \A id \in Changes(r) : NextTop(id, NewRev(r, id))
        /\ \A id, k : id \notin Changes(r) /\ Top(id, k) => NextTop(id, k)
    BY CommitTops
  <1>7. DOMAIN bindings' = DOMAIN bindings /\ \A s : IsActive(s)' <=> IsActive(s)
    BY CommitBindings
  <1>8. \A k \in DOMAIN members' : k = <<k[1], k[2]>>
    BY <1>5 DEF Tables, TypeOK, Table
  <1>9. ASSUME NEW id, <<r.source, id>> \in DOMAIN members'
        PROVE  NextTop(id, members'[<<r.source, id>>].rev)
    <2>1. CASE id \in Changes(r)
      BY <1>5, <1>6, <1>9, <2>1
    <2>2. CASE id \notin Changes(r)
      BY <1>2, <1>5, <1>6, <1>9, <2>2
    <2> QED
      BY <2>1, <2>2
  <1>10. ASSUME NEW k \in DOMAIN members'
         PROVE  /\ k[1] \in DOMAIN bindings'
                /\ <<k[2], members'[k].rev>> \in DOMAIN revisions'
                /\ IsActive(k[1])' => NextTop(k[2], members'[k].rev)
                /\ \E i \in DOMAIN imports' :
                     imports'[i].source = k[1] /\ k[2] \in DOMAIN imports'[i].file
    <2>1. CASE k[1] = r.source
      <3>1. k = <<r.source, k[2]>>
        BY <1>8, <2>1
      <3>2. NextTop(k[2], members'[k].rev)
        BY <1>9, <3>1
      <3>3. \E i \in DOMAIN imports' :
              imports'[i].source = k[1] /\ k[2] \in DOMAIN imports'[i].file
        <4>1. CASE k[2] \in DOMAIN r.rows
          BY <1>3, <2>1, <4>1
        <4>2. CASE k[2] \notin DOMAIN r.rows
          <5>1. k \in DOMAIN members
            BY <1>5, <3>1, <4>2
          <5>2. PICK i \in DOMAIN imports :
                  imports[i].source = k[1] /\ k[2] \in DOMAIN imports[i].file
            BY <5>1 DEF Tables, FeedInv, MemberInv
          <5> QED
            BY <1>3, <5>2
        <4> QED
          BY <4>1, <4>2
      <3> QED
        BY <1>1, <1>7, <2>1, <3>2, <3>3 DEF NextTop
    <2>2. CASE k[1] # r.source
      <3>1. k \in DOMAIN members /\ members'[k] = members[k]
        BY <1>5, <1>8, <2>2
      <3>2. /\ k[1] \in DOMAIN bindings /\ <<k[2], members[k].rev>> \in DOMAIN revisions
            /\ \E i \in DOMAIN imports :
                 imports[i].source = k[1] /\ k[2] \in DOMAIN imports[i].file
        BY <3>1 DEF Tables, FeedInv, MemberInv
      <3>3. ~IsActive(k[1])'
        BY <1>1, <1>7, <2>2, <3>2
      <3>4. \E i \in DOMAIN imports' :
              imports'[i].source = k[1] /\ k[2] \in DOMAIN imports'[i].file
        BY <1>3, <3>2
      <3> QED
        BY <1>4, <1>7, <3>1, <3>2, <3>3, <3>4
    <2> QED
      BY <2>1, <2>2
  <1>11. MemberInv'
    BY <1>10 DEF MemberInv, Top, NextTop
  <1>12. FileInv'
    <2> SUFFICES ASSUME NEW i \in DOMAIN imports', NEW id \in DOMAIN imports'[i].file
                 PROVE  <<imports'[i].source, id>> \in DOMAIN members'
      BY DEF FileInv
    <2>1. CASE i \in DOMAIN imports
      <3>1. <<imports[i].source, id>> \in DOMAIN members
        BY <1>3, <2>1 DEF Tables, FeedInv, FileInv
      <3> QED
        BY <1>3, <1>5, <2>1, <3>1
    <2>2. CASE i = r.import
      BY <1>3, <1>5, <2>2
    <2> QED
      BY <1>3, <2>1, <2>2
  <1> QED
    BY <1>11, <1>12

LEMMA CommitKeepsLive ==
    ASSUME Tables, NEW r, Commits(r)
    PROVE  LiveInv'
  <1> DEFINE head(id) == revisions'[<<id, members'[<<r.source, id>>].rev>>]
  <1>1. /\ r.source \in DOMAIN bindings
        /\ \A t \in DOMAIN bindings : IsActive(t) => t = r.source
    BY CommittedRequest
  <1>2. /\ \A id \in DOMAIN Was(r) : /\ Top(id, Was(r)[id].rev)
                                     /\ Was(r)[id] = Said(id, Was(r)[id].rev)
        /\ \A id \in DOMAIN r.rows \cap DOMAIN Was(r) : r.rows[id].sheet = Was(r)[id].sheet
    BY CommittedPlan
  <1>3. /\ \A k \in DOMAIN revisions : revisions'[k] = revisions[k]
        /\ \A id \in Changes(r) : revisions'[<<id, NewRev(r, id)>>] = Written(r, id)
    BY CommitRevisions
  <1>4. /\ DOMAIN members' = DOMAIN members \cup {<<r.source, id>> : id \in DOMAIN r.rows}
        /\ \A id : <<r.source, id>> \in DOMAIN members' =>
             /\ id \in Changes(r) \cup DOMAIN Was(r)
             /\ members'[<<r.source, id>>].rev =
                  IF id \in Changes(r) THEN NewRev(r, id) ELSE Was(r)[id].rev
    BY CommitMembers
  <1>5. /\ DOMAIN bindings' = DOMAIN bindings /\ \A s : IsActive(s)' <=> IsActive(s)
        /\ bindings'[r.source].lastFile = r.rows
    BY CommitBindings
  <1>6. /\ \A id \in DOMAIN r.rows \ Changes(r) :
             /\ id \in DOMAIN Was(r)
             /\ Was(r)[id].lifecycle = "active" /\ Was(r)[id].hash = r.rows[id].hash
        /\ \A id \in DOMAIN Was(r) \ (DOMAIN r.rows \cup Changes(r)) :
             Was(r)[id].lifecycle # "active"
    BY PlanCases
  <1>7. ASSUME NEW id, <<r.source, id>> \in DOMAIN members', id \in Changes(r)
        PROVE  /\ head(id).lifecycle = IF id \in DOMAIN r.rows THEN "active" ELSE "voided"
               /\ id \in DOMAIN r.rows => /\ head(id).hash = r.rows[id].hash
                                          /\ head(id).sheet = r.rows[id].sheet
    <2>1. members'[<<r.source, id>>].rev = NewRev(r, id)
      BY <1>4, <1>7
    <2>2. head(id) = Written(r, id)
      BY <1>3, <1>7, <2>1
    <2> HIDE DEF head
    <2> QED
      BY <2>2 DEF Written, NewHash, ItemSheet
  <1>8. ASSUME NEW id, <<r.source, id>> \in DOMAIN members', id \notin Changes(r)
        PROVE  /\ id \in DOMAIN Was(r)
               /\ head(id).lifecycle = Was(r)[id].lifecycle
               /\ head(id).lifecycle \in Lifecycle
               /\ head(id).hash = Was(r)[id].hash /\ head(id).sheet = Was(r)[id].sheet
    <2>1. PICK k : id \in DOMAIN Was(r) /\ Was(r)[id].rev = k
                   /\ members'[<<r.source, id>>].rev = k
      BY <1>4, <1>8
    <2>2. <<id, k>> \in DOMAIN revisions /\ Was(r)[id] = Said(id, k)
      BY <1>2, <2>1 DEF Top
    <2>3. head(id) = revisions[<<id, k>>] /\ revisions[<<id, k>>] \in Revision
      BY <1>3, <2>1, <2>2 DEF Tables, TypeOK, Table
    <2> HIDE DEF head
    <2>4. head(id).lifecycle \in Lifecycle
      BY <2>3 DEF Revision
    <2> QED
      BY <2>1, <2>2, <2>3, <2>4 DEF Said
  <1> HIDE DEF head
  <1>9. ASSUME NEW id \in DOMAIN r.rows
        PROVE  /\ <<r.source, id>> \in DOMAIN members' /\ head(id).lifecycle = "active"
               /\ head(id).hash = r.rows[id].hash /\ head(id).sheet = r.rows[id].sheet
    <2>1. <<r.source, id>> \in DOMAIN members'
      BY <1>4
    <2>2. CASE id \in Changes(r)
      BY <1>7, <2>1, <2>2
    <2>3. CASE id \notin Changes(r)
      BY <1>2, <1>6, <1>8, <2>1, <2>3
    <2> QED
      BY <2>2, <2>3
  <1>10. ASSUME NEW id, <<r.source, id>> \in DOMAIN members', id \notin DOMAIN r.rows
         PROVE  head(id).lifecycle = "voided"
    <2>1. CASE id \in Changes(r)
      BY <1>7, <1>10, <2>1
    <2>2. CASE id \notin Changes(r)
      BY <1>6, <1>8, <1>10, <2>2 DEF Lifecycle
    <2> QED
      BY <2>1, <2>2
  <1> SUFFICES ASSUME NEW s \in DOMAIN bindings', IsActive(s)'
               PROVE  LET rows == bindings'[s].lastFile
                      IN  /\ \A id \in DOMAIN rows :
                              /\ <<s, id>> \in DOMAIN members'
                              /\ revisions'[<<id, members'[<<s, id>>].rev>>].lifecycle = "active"
                              /\ revisions'[<<id, members'[<<s, id>>].rev>>].hash = rows[id].hash
                              /\ revisions'[<<id, members'[<<s, id>>].rev>>].sheet = rows[id].sheet
                          /\ \A id \in MemberIds(s)' \ DOMAIN rows :
                                revisions'[<<id, members'[<<s, id>>].rev>>].lifecycle = "voided"
    BY DEF LiveInv, HeadOf
  <1>11. s = r.source
    BY <1>1, <1>5
  <1>12. \A id \in MemberIds(s)' : <<r.source, id>> \in DOMAIN members'
    BY <1>11 DEF MemberIds
  <1>13. /\ \A id \in DOMAIN r.rows :
             /\ <<s, id>> \in DOMAIN members' /\ head(id).lifecycle = "active"
             /\ head(id).hash = r.rows[id].hash /\ head(id).sheet = r.rows[id].sheet
         /\ \A id \in MemberIds(s)' \ DOMAIN r.rows : head(id).lifecycle = "voided"
    BY <1>9, <1>10, <1>11, <1>12
  <1> QED
    BY <1>5, <1>11, <1>13 DEF head

-----------------------------------------------------------------------------
(* The invariant over the other steps. *)

\* Only a commit, the creation of the schema and a rollover write tables.
LEMMA QuietSteps ==
    ASSUME [Next]_vars,
           ~\E r : Commits(r), ~\E c \in Client : Create(c),
           ~\E s, t \in Source : Rollover(s, t)
    PROVE  UNCHANGED tables
  <1>1. ~\E c \in Client : Commit(c)
    BY DEF Commits
  <1> QED
    BY <1>1, OnlyThreeWrite

\* A step that writes no table keeps what relates them.
LEMMA QuietKeepsFeed ==
    ASSUME FeedInv, UNCHANGED tables
    PROVE  FeedInv'
  <1> USE DEF tables, FeedInv
  <1>1. SequenceInv'
    BY DEF SequenceInv
  <1>2. EventInv'
    BY DEF EventInv
  <1>3. RevisionInv'
    BY DEF RevisionInv, Top
  <1>4. OrderInv'
    BY DEF OrderInv
  <1>5. MemberInv'
    BY DEF MemberInv, IsActive, Top
  <1>6. FileInv'
    BY DEF FileInv
  <1>7. LiveInv'
    BY DEF LiveInv, IsActive, HeadOf, MemberIds
  <1> QED
    BY <1>1, <1>2, <1>3, <1>4, <1>5, <1>6, <1>7

\* A schema is created in an empty file: there are no rows to point at.
LEMMA CreateKeepsFeed ==
    ASSUME FeedInv, FreshInv, NEW c \in Client, Create(c)
    PROVE  FeedInv'
  <1>1. /\ bindings' = [s \in {FirstSource} |-> NewBinding]
        /\ UNCHANGED <<nextSequence, imports, revisions, members, events>>
    BY DEF Create
  <1>2. DOMAIN bindings = {}
    BY DEF Create, FreshInv
  <1>3. DOMAIN members = {} /\ DOMAIN revisions = {}
    BY <1>2 DEF FeedInv, MemberInv, RevisionInv
  <1>4. SequenceInv' /\ EventInv' /\ OrderInv' /\ FileInv'
    BY <1>1 DEF FeedInv, SequenceInv, EventInv, OrderInv, FileInv
  <1>5. RevisionInv' /\ MemberInv'
    BY <1>1, <1>3 DEF RevisionInv, MemberInv
  <1>6. LiveInv'
    BY <1>1 DEF LiveInv, NewBinding
  <1> QED
    BY <1>4, <1>5, <1>6 DEF FeedInv

\* What a rollover does to the bindings.
LEMMA RolloverBindings ==
    ASSUME NEW s \in Source, NEW t \in Source, Rollover(s, t)
    PROVE  /\ s \in DOMAIN bindings /\ t \notin DOMAIN bindings
           /\ DOMAIN bindings' = DOMAIN bindings \cup {t}
           /\ bindings'[t] = NewBinding /\ bindings'[s] = Archived(bindings[s])
           /\ \A x \in DOMAIN bindings \ {s} : bindings'[x] = bindings[x]
  <1>1. /\ s \in DOMAIN bindings /\ t \notin DOMAIN bindings
        /\ bindings' = Overlay([bindings EXCEPT ![s] = Archived(@)], [x \in {t} |-> NewBinding])
    BY DEF Rollover, IsActive
  <1> QED
    BY <1>1 DEF Overlay

\* The active source becomes an archive, and the new one knows nothing yet.
LEMMA RolloverKeepsFeed ==
    ASSUME TypeOK, FeedInv, NEW s \in Source, NEW t \in Source, Rollover(s, t)
    PROVE  FeedInv'
  <1>1. UNCHANGED <<nextSequence, imports, revisions, members, events>>
    BY DEF Rollover
  <1>2. /\ s \in DOMAIN bindings /\ t \notin DOMAIN bindings
        /\ DOMAIN bindings' = DOMAIN bindings \cup {t}
        /\ bindings'[t] = NewBinding /\ bindings'[s] = Archived(bindings[s])
        /\ \A x \in DOMAIN bindings \ {s} : bindings'[x] = bindings[x]
    BY RolloverBindings
  <1>3. bindings[s] \in Binding
    BY <1>2 DEF TypeOK, Table
  <1>4. bindings'[s].state = "archived" /\ bindings'[t].lastImport = None
    BY <1>2, <1>3 DEF Archived, Binding, NewBinding
  <1>5. \A x \in DOMAIN bindings : IsActive(x)' => IsActive(x) /\ bindings'[x] = bindings[x]
    BY <1>2, <1>4 DEF IsActive
  <1>6. SequenceInv' /\ EventInv' /\ OrderInv' /\ FileInv'
    BY <1>1 DEF FeedInv, SequenceInv, EventInv, OrderInv, FileInv
  <1>7. RevisionInv'
    BY <1>1, <1>2 DEF FeedInv, RevisionInv, Top
  <1>8. MemberInv'
    BY <1>1, <1>2, <1>5 DEF FeedInv, MemberInv, Top
  <1>9. LiveInv'
    <2> SUFFICES ASSUME NEW x \in DOMAIN bindings', IsActive(x)', bindings'[x].lastImport # None
                 PROVE  LET rows == bindings'[x].lastFile
                        IN  /\ \A id \in DOMAIN rows :
                                /\ <<x, id>> \in DOMAIN members'
                                /\ HeadOf(x, id)'.lifecycle = "active"
                                /\ HeadOf(x, id)'.hash = rows[id].hash
                                /\ HeadOf(x, id)'.sheet = rows[id].sheet
                            /\ \A id \in MemberIds(x)' \ DOMAIN rows :
                                  HeadOf(x, id)'.lifecycle = "voided"
      BY DEF LiveInv
    <2>1. x \in DOMAIN bindings
      BY <1>2, <1>4
    <2>2. IsActive(x) /\ bindings'[x] = bindings[x]
      BY <1>5, <2>1
    <2>3. \A id : HeadOf(x, id)' = HeadOf(x, id)
      BY <1>1 DEF HeadOf
    <2>4. MemberIds(x)' = MemberIds(x)
      BY <1>1 DEF MemberIds
    <2> QED
      BY <1>1, <2>1, <2>2, <2>3, <2>4 DEF FeedInv, LiveInv
  <1> QED
    BY <1>6, <1>7, <1>8, <1>9 DEF FeedInv

LEMMA FeedStep ==
    ASSUME Tables, FreshInv, [Next]_vars
    PROVE  FeedInv'
  <1>1. CASE \E r : Commits(r)
    <2>1. PICK r : Commits(r)
      BY <1>1
    <2> QED
      BY <2>1, CommitKeepsEvents, CommitKeepsRevisions, CommitKeepsOrder,
         CommitKeepsMembers, CommitKeepsLive DEF FeedInv
  <1>2. CASE \E c \in Client : Create(c)
    BY <1>2, CreateKeepsFeed DEF Tables
  <1>3. CASE \E s, t \in Source : Rollover(s, t)
    BY <1>3, RolloverKeepsFeed DEF Tables
  <1>4. CASE /\ ~\E r : Commits(r)
             /\ ~\E c \in Client : Create(c)
             /\ ~\E s, t \in Source : Rollover(s, t)
    BY <1>4, QuietSteps, QuietKeepsFeed DEF Tables
  <1> QED
    BY <1>1, <1>2, <1>3, <1>4

-----------------------------------------------------------------------------
(* Types. *)

LEMMA ReceiptHasItsShape ==
    ASSUME NEW row \in ImportRow
    PROVE  ReceiptOf(row) \in Receipt
  <1>1. /\ row.import \in ImportId /\ row.source \in Source
        /\ row.base \in Nat /\ row.committed \in Nat /\ row.file \in Workbooks
        /\ row.total \in Nat /\ row.inserted \in Nat /\ row.edited \in Nat
        /\ row.voided \in Nat /\ row.unchanged \in Nat
        /\ row.first \in Nat /\ row.last \in Nat
    BY DEF ImportRow
  <1>2. ReceiptOf(row) =
          [import |-> row.import, source |-> row.source, base |-> row.base,
           committed |-> row.committed, file |-> row.file, total |-> row.total,
           inserted |-> row.inserted, edited |-> row.edited, voided |-> row.voided,
           unchanged |-> row.unchanged, first |-> row.first, last |-> row.last]
    BY DEF ImportRow, ReceiptOf
  <1> QED
    BY <1>1, <1>2 DEF Receipt

\* The row of a commit.
LEMMA CommitRow ==
    ASSUME Tables, NEW r, Commits(r)
    PROVE  NewImport(r, Was(r)) \in ImportRow
  <1>1. /\ r \in Request /\ r.import \in ImportId /\ r.source \in Source
        /\ r.rows \in Workbooks
    BY CommittedRequest
  <1>2. /\ IsFiniteSet(Changes(r)) /\ DOMAIN r.rows \in SUBSET StableId
        /\ DOMAIN Was(r) \in SUBSET StableId
    BY CommittedPlan
  <1>3. \A S \in SUBSET StableId : Cardinality(S) \in Nat
    BY PlanAssumption, FS_Subset, FS_CardinalityType
  <1>4. /\ Inserted(r.rows, Was(r)) \in SUBSET StableId
        /\ Edited(r.rows, Was(r)) \in SUBSET StableId
        /\ Voided(r.rows, Was(r)) \in SUBSET StableId
        /\ Unchanged(r.rows, Was(r)) \in SUBSET StableId
    BY <1>2 DEF Inserted, Edited, Voided, Unchanged
  <1>5. generation \in Nat /\ nextSequence \in Nat \ {0}
    BY DEF Tables, TypeOK
  <1>6. Cardinality(Changes(r)) \in Nat
    BY CommitEvents
  <1>7. /\ Cardinality(DOMAIN r.rows) \in Nat
        /\ Cardinality(Inserted(r.rows, Was(r))) \in Nat
        /\ Cardinality(Edited(r.rows, Was(r))) \in Nat
        /\ Cardinality(Voided(r.rows, Was(r))) \in Nat
        /\ UnchangedCount(r, Was(r)) \in Nat
    BY <1>2, <1>3, <1>4 DEF UnchangedCount
  <1>8. /\ (IF Cardinality(Changes(r)) = 0 THEN 0 ELSE nextSequence) \in Nat
        /\ (IF Cardinality(Changes(r)) = 0 THEN 0
            ELSE nextSequence + Cardinality(Changes(r)) - 1) \in Nat
        /\ generation + 1 \in Nat
    BY <1>5, <1>6
  <1> QED
    BY <1>1, <1>5, <1>7, <1>8 DEF NewImport, ImportRow, Changes

\* The first revision has no predecessor, and every other one has one.
LEMMA PredecessorExists ==
    ASSUME Tables, NEW r, Commits(r), NEW id \in Changes(r)
    PROVE  /\ id \notin DOMAIN Was(r) =>
                /\ NewRev(r, id) = 1 /\ Predecessor(id, NewRev(r, id)) = None
                /\ id \in DOMAIN r.rows
           /\ id \in DOMAIN Was(r) =>
                /\ NewRev(r, id) = Was(r)[id].rev + 1 /\ NewRev(r, id) # 1
                /\ <<id, Was(r)[id].rev>> \in DOMAIN revisions
                /\ Predecessor(id, NewRev(r, id)) = revisions[<<id, Was(r)[id].rev>>].version
  <1>1. CASE id \notin DOMAIN Was(r)
    <2>1. id \in DOMAIN r.rows
      BY <1>1 DEF Changes, Changed, Inserted, Edited, Voided
    <2> QED
      BY <1>1, <2>1 DEF NewRev, PlannedRevision, Predecessor
  <1>2. CASE id \in DOMAIN Was(r)
    <2>1. PICK k : k = Was(r)[id].rev
      OBVIOUS
    <2>2. k \in Nat \ {0} /\ Top(id, k)
      BY <1>2, <2>1, CommittedPlan
    <2>3. NewRev(r, id) = k + 1
      BY <1>2, <2>1 DEF NewRev, PlannedRevision
    <2>4. NewRev(r, id) # 1 /\ NewRev(r, id) - 1 = k
      BY <2>2, <2>3
    <2> QED
      BY <1>2, <2>1, <2>2, <2>3, <2>4 DEF Top, Predecessor
  <1> QED
    BY <1>1, <1>2

LEMMA PredecessorIsEvent ==
    ASSUME Tables, NEW r, Commits(r), NEW id \in Changes(r)
    PROVE  Predecessor(id, NewRev(r, id)) \in EventId \cup {None}
  <1>1. \A k \in DOMAIN revisions : revisions[k].version \in EventId
    BY DEF Tables, TypeOK, Table, Revision
  <1> QED
    BY <1>1, PredecessorExists

\* The contents of the rows in r's workbook.
LEMMA CommittedRows ==
    ASSUME Tables, NEW r, Commits(r), NEW id \in DOMAIN r.rows
    PROVE  r.rows[id].hash \in Hash /\ r.rows[id].sheet \in Sheet
  <1>1. r.rows \in Snapshot
    BY CommittedRequest
  <1> QED
    BY <1>1 DEF Snapshot, Row

\* A row to be voided has a live revision to take its date from.
LEMMA VoidHasDate ==
    ASSUME Tables, NEW r, Commits(r), NEW id \in Changes(r), id \notin DOMAIN r.rows
    PROVE  LastLiveHash(id) \in Hash \cup {None}
  <1> DEFINE live == {k \in DOMAIN revisions :
                        k[1] = id /\ revisions[k].lifecycle = "active"}
             Latest1(k) == \A other \in live : other[2] <= k[2]
             latest == CHOOSE k \in live : Latest1(k)
  <1>1. id \in DOMAIN Was(r) /\ Was(r)[id].lifecycle = "active"
    BY PlanCases
  <1>2. PICK k : k = Was(r)[id].rev
    OBVIOUS
  <1>3. Was(r)[id] = Said(id, k) /\ Top(id, k)
    BY <1>1, <1>2, CommittedPlan
  <1>4. revisions[<<id, k>>].lifecycle = "active"
    BY <1>1, <1>3 DEF Said
  <1>5. <<id, k>> \in live /\ Latest1(<<id, k>>)
    BY <1>3, <1>4 DEF Top
  <1>6. latest \in live
    <2> HIDE DEF live, Latest1
    <2> QED
      BY <1>5
  <1>7. LastLiveHash(id) = revisions[latest].hash
    BY DEF LastLiveHash
  <1>8. revisions[latest].hash \in Hash \cup {None}
    <2>1. latest \in DOMAIN revisions
      BY <1>6
    <2> QED
      BY <2>1 DEF Tables, TypeOK, Table, Revision
  <1> QED
    BY <1>7, <1>8

LEMMA CommitKeepsTypes ==
    ASSUME Tables, NEW r, Commits(r)
    PROVE  /\ generation' \in Nat /\ nextSequence' \in Nat \ {0}
           /\ userVersion' \in {0, 1}
           /\ Table(bindings, Source, Binding)'
           /\ Table(imports, ImportId, ImportRow)'
           /\ Table(revisions, StableId \X (Nat \ {0}), Revision)'
           /\ Table(members, Source \X StableId, Membership)'
           /\ Table(events, Nat \ {0}, Event)'
  <1>1. /\ r.import \in ImportId /\ r.source \in Source /\ r.rows \in Workbooks
        /\ r.source \in DOMAIN bindings
        /\ \A id \in Changes(r) : r.events[id] \in EventId
    BY CommittedRequest
  <1>2. /\ Changes(r) \subseteq StableId /\ DOMAIN r.rows \subseteq StableId
        /\ \A id \in Changes(r) : /\ ItemSheet(r.rows, Was(r), id) \in Sheet
                                  /\ NewRev(r, id) \in Nat \ {0}
        /\ \A id \in DOMAIN Was(r) : Was(r)[id].rev \in Nat \ {0}
    BY CommittedPlan
  <1>3. \A id \in Changes(r) : NewHash(r, id) \in Hash \cup {None}
    BY CommittedRows DEF NewHash
  <1>4. generation' \in Nat
    <2>1. generation \in Nat
      BY DEF Tables, TypeOK
    <2>2. generation' = generation + 1
      BY CommitImports
    <2> QED
      BY <2>1, <2>2
  <1>5. nextSequence' \in Nat \ {0}
    BY CommitEvents
  <1>6. userVersion' \in {0, 1}
    BY DEF Tables, TypeOK, Commits, Commit
  <1>7. Table(bindings, Source, Binding)'
    <2>1. bindings[r.source] \in Binding
      BY <1>1 DEF Tables, TypeOK, Table
    <2>2. Latest(bindings[r.source], r) \in Binding
      BY <1>1, <2>1 DEF Latest, Binding
    <2>3. /\ DOMAIN bindings' = DOMAIN bindings
          /\ \A s \in DOMAIN bindings : s # r.source => bindings'[s] = bindings[s]
          /\ bindings'[r.source] = Latest(bindings[r.source], r)
      BY CommitBindings
    <2>4. \A s \in DOMAIN bindings : s \in Source /\ bindings[s] \in Binding
      BY DEF Tables, TypeOK, Table
    <2>5. \A s \in DOMAIN bindings' : s \in Source /\ bindings'[s] \in Binding
      BY <2>2, <2>3, <2>4
    <2> QED
      BY <2>5 DEF Table
  <1>8. Table(imports, ImportId, ImportRow)'
    <2>1. /\ DOMAIN imports' = DOMAIN imports \cup {r.import}
          /\ \A i \in DOMAIN imports : imports'[i] = imports[i]
          /\ imports'[r.import] \in ImportRow
      BY CommitImports, CommitRow
    <2> QED
      BY <1>1, <2>1 DEF Table, Tables, TypeOK
  <1>9. Table(revisions, StableId \X (Nat \ {0}), Revision)'
    <2>1. ASSUME NEW id \in Changes(r) PROVE Written(r, id) \in Revision
      BY <1>1, <1>2, <1>3, <2>1, PredecessorIsEvent DEF Written, Revision, Lifecycle
    <2>2. /\ DOMAIN revisions' =
               DOMAIN revisions \cup {<<id, NewRev(r, id)>> : id \in Changes(r)}
          /\ \A k \in DOMAIN revisions : revisions'[k] = revisions[k]
          /\ \A id \in Changes(r) : revisions'[<<id, NewRev(r, id)>>] = Written(r, id)
      BY CommitRevisions
    <2>3. \A k \in DOMAIN revisions : k \in StableId \X (Nat \ {0}) /\ revisions[k] \in Revision
      BY DEF Table, Tables, TypeOK
    <2>4. ASSUME NEW k \in DOMAIN revisions'
          PROVE  k \in StableId \X (Nat \ {0}) /\ revisions'[k] \in Revision
      <3>1. CASE k \in DOMAIN revisions
        BY <2>2, <2>3, <3>1
      <3>2. CASE k \notin DOMAIN revisions
        <4>1. PICK id \in Changes(r) : k = <<id, NewRev(r, id)>>
          BY <2>2, <3>2
        <4> QED
          BY <1>2, <2>1, <2>2, <4>1
      <3> QED
        BY <3>1, <3>2
    <2> QED
      BY <2>4 DEF Table
  <1>10. Table(members, Source \X StableId, Membership)'
    <2> DEFINE new == NewMembers(r, Was(r))
    <2>1. members' = Overlay(members, new)
      BY DEF Commits, Commit, WriteImport, Was
    <2>2. \A k \in DOMAIN members : k \in Source \X StableId /\ members[k] \in Membership
      BY DEF Table, Tables, TypeOK
    <2>3. DOMAIN new = {r.source} \X (DOMAIN r.rows \cup Voided(r.rows, Was(r)))
      BY DEF NewMembers
    <2>4. /\ Voided(r.rows, Was(r)) \subseteq DOMAIN Was(r)
          /\ DOMAIN r.rows \ DOMAIN Was(r) \subseteq Changes(r)
          /\ DOMAIN Was(r) \subseteq StableId
      BY CommittedPlan DEF Voided, Changes, Changed, Inserted
    <2>5. ASSUME NEW k \in DOMAIN new
          PROVE  k \in Source \X StableId /\ new[k] \in Membership
      <3>1. /\ k \in Source \X StableId
            /\ k[2] \in Changes(r) \cup DOMAIN Was(r)
        BY <1>1, <1>2, <2>3, <2>4
      <3>2. new[k] =
              [rev   |-> IF k[2] \in Changes(r) THEN NewRev(r, k[2]) ELSE Was(r)[k[2]].rev,
               first |-> IF k \in DOMAIN members THEN members[k].first ELSE r.import,
               last  |-> r.import]
        BY DEF NewMembers, Changes, NewRev
      <3>3. (IF k[2] \in Changes(r) THEN NewRev(r, k[2]) ELSE Was(r)[k[2]].rev) \in Nat \ {0}
        BY <1>2, <3>1
      <3>4. (IF k \in DOMAIN members THEN members[k].first ELSE r.import) \in ImportId
        BY <1>1, <2>2 DEF Membership
      <3> QED
        BY <1>1, <3>1, <3>2, <3>3, <3>4 DEF Membership
    <2> HIDE DEF new
    <2>6. \A k \in DOMAIN members' : k \in Source \X StableId /\ members'[k] \in Membership
      BY <2>1, <2>2, <2>5 DEF Overlay
    <2> QED
      BY <2>6 DEF Table
  <1>11. Table(events, Nat \ {0}, Event)'
    <2>1. /\ DOMAIN events' = 1..(nextSequence' - 1) /\ nextSequence' \in Nat
          /\ \A q \in DOMAIN events : events'[q] = events[q]
          /\ \A q \in DOMAIN events' \ DOMAIN events : \E id \in Changes(r) : q = Slot(r, id)
          /\ \A id \in Changes(r) : events'[Slot(r, id)] = NewEvent(r, Was(r), id)
      BY CommitEvents
    <2>2. ASSUME NEW id \in Changes(r) PROVE NewEvent(r, Was(r), id) \in Event
      <3> DEFINE date == FinancialDate(ItemSheet(r.rows, Was(r), id),
                            IF id \in DOMAIN r.rows THEN r.rows[id].hash
                                                    ELSE LastLiveHash(id))
      <3>1. date \in Hash \cup {None}
        BY CommittedRows, VoidHasDate DEF FinancialDate
      <3>2. NewEvent(r, Was(r), id) =
              [event    |-> r.events[id],
               import   |-> r.import,
               source   |-> r.source,
               id       |-> id,
               rev      |-> NewRev(r, id),
               op       |-> IF id \in DOMAIN r.rows THEN "upsert" ELSE "void",
               sheet    |-> ItemSheet(r.rows, Was(r), id),
               hash     |-> NewHash(r, id),
               date     |-> date,
               previous |-> Predecessor(id, NewRev(r, id))]
        BY DEF NewEvent, NewRev
      <3> HIDE DEF date
      <3> QED
        BY <1>1, <1>2, <1>3, <3>1, <3>2, PredecessorIsEvent DEF Event
    <2>3. \A q \in DOMAIN events : events[q] \in Event
      BY DEF Table, Tables, TypeOK
    <2>4. \A q \in DOMAIN events' : q \in Nat \ {0} /\ events'[q] \in Event
      BY <2>1, <2>2, <2>3
    <2> QED
      BY <2>4 DEF Table
  <1> QED
    BY <1>4, <1>5, <1>6, <1>7, <1>8, <1>9, <1>10, <1>11

\* The tables and the callers, each with its shape.
TableTypes ==
    /\ userVersion \in {0, 1} /\ generation \in Nat /\ nextSequence \in Nat \ {0}
    /\ Table(bindings, Source, Binding)
    /\ Table(imports, ImportId, ImportRow)
    /\ Table(revisions, StableId \X (Nat \ {0}), Revision)
    /\ Table(members, Source \X StableId, Membership)
    /\ Table(events, Nat \ {0}, Event)

CallerTypes ==
    /\ writer \in Client \cup {None} /\ leftOpen \subseteq Client
    /\ pc \in [Client -> InWrite \cup {"closed", "creating", "open", "sent", "answered"}]
    /\ \A c \in Client : /\ request[c] \in Request \cup {None}
                         /\ receipt[c] \in Receipt \cup {None}
    /\ reply \in [Client -> Outcome]

LEMMA TablesStep ==
    ASSUME Tables, [Next]_vars
    PROVE  TableTypes'
  <1>1. TableTypes
    BY DEF Tables, TypeOK, TableTypes
  <1>2. CASE \E r : Commits(r)
    BY <1>2, CommitKeepsTypes DEF TableTypes
  <1>3. CASE \E c \in Client : Create(c)
    <2>1. PICK c \in Client : Create(c)
      BY <1>3
    <2>2. UNCHANGED <<generation, nextSequence, imports, revisions, members, events>>
      BY <2>1 DEF Create
    <2>3. /\ userVersion' \in {0, 1}
          /\ bindings' \in {bindings, [s \in {FirstSource} |-> NewBinding]}
      BY <1>1, <2>1 DEF Create, TableTypes
    <2>4. NewBinding \in Binding
      BY DEF NewBinding, Binding
    <2>5. Table(bindings, Source, Binding)'
      BY <1>1, <2>3, <2>4, StoreAssumption DEF Table, TableTypes
    <2> QED
      BY <1>1, <2>2, <2>3, <2>5 DEF TableTypes, Table
  <1>4. CASE \E s, t \in Source : Rollover(s, t)
    <2>1. PICK s, t \in Source : Rollover(s, t)
      BY <1>4
    <2>2. UNCHANGED <<userVersion, generation, nextSequence, imports, revisions, members, events>>
      BY <2>1 DEF Rollover
    <2>3. /\ s \in DOMAIN bindings
          /\ DOMAIN bindings' = DOMAIN bindings \cup {t}
          /\ bindings'[t] = NewBinding /\ bindings'[s] = Archived(bindings[s])
          /\ \A x \in DOMAIN bindings \ {s} : bindings'[x] = bindings[x]
      BY <2>1, RolloverBindings
    <2>4. \A x \in DOMAIN bindings : x \in Source /\ bindings[x] \in Binding
      BY <1>1 DEF Table, TableTypes
    <2>5. NewBinding \in Binding
      BY DEF NewBinding, Binding
    <2>6. Archived(bindings[s]) \in Binding
      BY <2>3, <2>4 DEF Archived, Binding
    <2>7. \A x \in DOMAIN bindings' : x \in Source /\ bindings'[x] \in Binding
      BY <2>3, <2>4, <2>5, <2>6
    <2> QED
      BY <1>1, <2>2, <2>7 DEF TableTypes, Table
  <1>5. CASE /\ ~\E r : Commits(r)
             /\ ~\E c \in Client : Create(c)
             /\ ~\E s, t \in Source : Rollover(s, t)
    <2>1. UNCHANGED tables
      BY <1>5, QuietSteps
    <2> QED
      BY <1>1, <2>1 DEF TableTypes, Table, tables
  <1> QED
    BY <1>2, <1>3, <1>4, <1>5

\* A call answers with one of the outcomes.
LEMMA VerdictIsOutcome ==
    \A r : Verdict(r) \in Refusals \cup {"REPLAYED", "COMMITTED"}
  BY DEF Verdict, Refusals

\* Whatever a caller prepares is a request.
LEMMA PreparedRequest ==
    ASSUME Tables, CallerInv, NEW c \in Client, NEW i \in ImportId, NEW s \in Source,
           NEW rows \in Workbooks, Prepare(c, i, s, rows)
    PROVE  /\ request'[c] \in Request
           /\ \A d \in Client \ {c} : request'[d] = request[d]
  <1> DEFINE changed == IF IsActive(s) THEN Changed(rows, Prior(s, rows)) ELSE {}
  <1>1. PICK minted \in {i} \cup StrayImports,
             forgotten \in {{}} \cup IF ForgetsEvents THEN {StableId} ELSE {} :
          request' = [request EXCEPT ![c] =
                [import |-> i, source |-> s, expected |-> generation, rows |-> rows,
                 events |-> [id \in changed \ forgotten |-> <<minted, id>>]]]
    BY DEF Prepare
  <1>2. rows \in Snapshot
    BY StoreAssumption
  <1>3. changed \in SUBSET StableId
    <2>1. CASE IsActive(s)
      <3>1. s \in DOMAIN bindings
        BY <2>1 DEF IsActive
      <3>2. Changed(rows, Prior(s, rows)) \subseteq StableId
        BY <1>2, <2>1, <3>1, ChangesAreRows DEF Tables, FeedInv
      <3> QED
        BY <2>1, <3>2
    <2>2. CASE ~IsActive(s)
      BY <2>2
    <2> QED
      BY <2>1, <2>2
  <1> HIDE DEF changed
  <1>4. minted \in ImportId
    BY StoreAssumption
  <1> DEFINE minting == [id \in changed \ forgotten |-> <<minted, id>>]
  <1>5. minting \in [changed \ forgotten -> EventId]
    BY <1>3, <1>4 DEF EventId
  <1>6. changed \ forgotten \in SUBSET StableId
    BY <1>3
  <1>7. minting \in UNION {[ids -> EventId] : ids \in SUBSET StableId}
    BY <1>5, <1>6
  <1>8. generation \in Nat
    BY DEF Tables, TypeOK
  <1>9. request'[c] = [import |-> i, source |-> s, expected |-> generation,
                       rows |-> rows, events |-> minting]
    BY <1>1 DEF CallerInv, IsOfCallers
  <1>10. \A d \in Client \ {c} : request'[d] = request[d]
    BY <1>1 DEF CallerInv, IsOfCallers
  <1> HIDE DEF minting
  <1> QED
    BY <1>7, <1>8, <1>9, <1>10 DEF Request

\* A request stays with its caller until the caller prepares another one, and
\* whoever is in a call has one.
LEMMA SentStep ==
    ASSUME Tables, CallerInv, [Next]_vars
    PROVE  SentInv' /\ \A c \in Client : request'[c] \in Request \cup {None}
  <1> DEFINE Goal == SentInv' /\ \A c \in Client : request'[c] \in Request \cup {None}
  <1>1. SentInv /\ \A c \in Client : request[c] \in Request \cup {None}
    BY DEF Tables, TypeOK
  <1> USE DEF SentInv, CallerInv, IsOfCallers, Answer
  <1>2. CASE UNCHANGED vars
    BY <1>1, <1>2 DEF vars, callers
  <1>3. ASSUME NEW c \in Client, FindEmpty(c) \/ Create(c) PROVE Goal
    BY <1>1, <1>3 DEF FindEmpty, Create
  <1>4. ASSUME NEW c \in Client, Retry(c) PROVE Goal
    BY <1>1, <1>4 DEF Retry
  <1>5. ASSUME NEW c \in Client, Begin(c) PROVE Goal
    BY <1>1, <1>5 DEF Begin, WantsToWrite
  <1>6. ASSUME NEW c \in Client, Reject(c) \/ Busy(c) \/ RefuseNested(c) PROVE Goal
    BY <1>1, <1>6 DEF Reject, Busy, RefuseNested, Fails
  <1>7. ASSUME NEW c \in Client, Refuse(c) \/ Replay(c) PROVE Goal
    BY <1>1, <1>7 DEF Refuse, Replay
  <1>12. ASSUME NEW c \in Client, RollBack(c) \/ RollBackRaises(c) PROVE Goal
    BY <1>1, <1>12 DEF RollBack, RollBackRaises, Fails
  <1>13. ASSUME NEW c \in Client, ReadRollBackRaises(c) \/ Disconnect(c) PROVE Goal
    BY <1>1, <1>13 DEF ReadRollBackRaises, Disconnect, Fails, callers
  <1>8. ASSUME NEW c \in Client, Commit(c) PROVE Goal
    BY <1>1, <1>8 DEF Commit
  <1>9. ASSUME NEW c \in Client, NEW s \in Source, OpenExisting(c, s) PROVE Goal
    BY <1>1, <1>9 DEF OpenExisting
  <1>10. ASSUME NEW c \in Client, NEW i \in ImportId, NEW s \in Source,
                NEW rows \in Workbooks, Prepare(c, i, s, rows)
         PROVE  Goal
    <2>1. /\ request'[c] \in Request
          /\ \A d \in Client \ {c} : request'[d] = request[d]
      BY <1>10, PreparedRequest
    <2>2. pc' = [pc EXCEPT ![c] = "sent"]
      BY <1>10 DEF Prepare
    <2> QED
      BY <1>1, <2>1, <2>2
  <1>11. ASSUME NEW s \in Source, NEW t \in Source, Rollover(s, t) PROVE Goal
    BY <1>1, <1>11 DEF Rollover, callers
  <1> QED
    BY <1>2, <1>3, <1>4, <1>5, <1>6, <1>7, <1>8, <1>9, <1>10, <1>11, <1>12, <1>13
    DEF Next

\* Replies and receipts.
LEMMA AnswersStep ==
    ASSUME Tables, CallerInv, ReceiptIsOfMyRequest', [Next]_vars
    PROVE  /\ reply' \in [Client -> Outcome]
           /\ \A c \in Client : receipt'[c] \in Receipt \cup {None}
  <1>1. \A i \in DOMAIN imports' : imports'[i] \in ImportRow
    BY TablesStep DEF TableTypes, Table
  <1>2. \A c \in Client : receipt'[c] \in Receipt \cup {None}
    <2> SUFFICES ASSUME NEW c \in Client, receipt'[c] # None
                 PROVE  receipt'[c] \in Receipt
      OBVIOUS
    <2>1. PICK row \in ImportRow : receipt'[c] = ReceiptOf(row)
      BY <1>1 DEF ReceiptIsOfMyRequest, ReceiptOf
    <2> QED
      BY <2>1, ReceiptHasItsShape
  <1>3. reply \in [Client -> Outcome]
    BY DEF Tables, TypeOK
  <1>4. reply' \in [Client -> Outcome]
    <2> USE <1>3 DEF Answer, Outcome, Refusals
    <2>1. CASE UNCHANGED vars
      BY <2>1 DEF vars, callers
    <2>2. ASSUME NEW c \in Client, FindEmpty(c) \/ Create(c) \/ Retry(c) \/ Begin(c)
          PROVE  reply' \in [Client -> Outcome]
      BY <2>2 DEF FindEmpty, Create, Retry, Begin
    <2>3. ASSUME NEW c \in Client, Reject(c) \/ Busy(c) \/ RefuseNested(c) \/ Replay(c)
          PROVE  reply' \in [Client -> Outcome]
      BY <2>3 DEF Reject, Busy, RefuseNested, Replay, Fails
    <2>9. ASSUME NEW c \in Client, RollBack(c) \/ RollBackRaises(c)
                  \/ ReadRollBackRaises(c) \/ Disconnect(c)
          PROVE  reply' \in [Client -> Outcome]
      BY <2>9 DEF RollBack, RollBackRaises, ReadRollBackRaises, Disconnect, Fails, callers
    <2>4. ASSUME NEW c \in Client, Refuse(c) PROVE reply' \in [Client -> Outcome]
      <3>1. reply' = [reply EXCEPT ![c] = Verdict(request[c])]
        BY <2>4 DEF Refuse
      <3>2. Verdict(request[c]) \in Outcome
        BY VerdictIsOutcome
      <3> QED
        BY <3>1, <3>2
    <2>5. ASSUME NEW c \in Client, Commit(c) PROVE reply' \in [Client -> Outcome]
      BY <2>5 DEF Commit
    <2>6. ASSUME NEW c \in Client, NEW s \in Source, OpenExisting(c, s)
          PROVE  reply' \in [Client -> Outcome]
      BY <2>6 DEF OpenExisting
    <2>7. ASSUME NEW c \in Client, NEW i \in ImportId, NEW s \in Source,
                 NEW rows \in Workbooks, Prepare(c, i, s, rows)
          PROVE  reply' \in [Client -> Outcome]
      BY <2>7 DEF Prepare
    <2>8. ASSUME NEW s \in Source, NEW t \in Source, Rollover(s, t)
          PROVE  reply' \in [Client -> Outcome]
      BY <2>8 DEF Rollover, callers
    <2> QED
      BY <2>1, <2>2, <2>3, <2>4, <2>5, <2>6, <2>7, <2>8, <2>9 DEF Next
  <1> QED
    BY <1>2, <1>4

LEMMA TypeStep ==
    ASSUME Tables, IInv, [Next]_vars
    PROVE  TypeOK' /\ SentInv'
  <1>1. CallerInv' /\ ReceiptIsOfMyRequest'
    BY CallerStep, RepliesStep DEF IInv
  <1>2. TableTypes'
    BY TablesStep
  <1>3. SentInv' /\ \A c \in Client : request'[c] \in Request \cup {None}
    BY SentStep DEF IInv
  <1>4. /\ reply' \in [Client -> Outcome]
        /\ \A c \in Client : receipt'[c] \in Receipt \cup {None}
    BY <1>1, AnswersStep DEF IInv
  <1>5. /\ writer' \in Client \cup {None} /\ pc' \in [Client -> Place]
        /\ leftOpen' \subseteq Client
    BY <1>1 DEF CallerInv, LockInv
  <1>6. CallerTypes'
    BY <1>3, <1>4, <1>5 DEF CallerTypes, Place, InWrite
  <1> QED
    BY <1>2, <1>3, <1>6 DEF TypeOK, TableTypes, CallerTypes

-----------------------------------------------------------------------------
(* What the events say. *)

\* The last event of a row announces its last revision.
LEMMA LastSays ==
    ASSUME Tables, NEW id, NEW k, Top(id, k)
    PROVE  LET q == LastSequence(id)
           IN  /\ q \in DOMAIN events /\ events[q].id = id /\ events[q].rev = k
               /\ \A p \in DOMAIN events : events[p].id = id => p <= q
  <1> DEFINE Last(q) == /\ events[q].id = id
                        /\ \A p \in DOMAIN events : events[p].id = id => p <= q
  <1>0. \A p \in DOMAIN events : p \in Nat
    BY DEF Tables, TypeOK, Table
  <1>1. PICK q \in DOMAIN events : events[q].id = id /\ events[q].rev = k
    BY DEF Top, Tables, FeedInv, RevisionInv
  <1>2. \A p \in DOMAIN events : events[p].id = id =>
          /\ <<id, events[p].rev>> \in DOMAIN revisions
          /\ p \in Nat /\ events[p].rev \in Nat
    BY DEF Tables, TypeOK, Table, Event, FeedInv, EventInv
  <1>3. \A p \in DOMAIN events : events[p].id = id => events[p].rev <= k
    BY <1>2 DEF Top
  <1>4. ASSUME NEW p \in DOMAIN events, events[p].id = id PROVE p <= q
    <2> SUFFICES ASSUME q < p PROVE FALSE
      BY <1>0
    <2>1. events[q].rev < events[p].rev
      BY <1>1, <1>4 DEF Tables, FeedInv, OrderInv
    <2>2. k \in Nat /\ events[p].rev \in Nat
      BY <1>1, <1>2, <1>4
    <2> QED
      BY <1>1, <1>3, <1>4, <2>1, <2>2
  <1>5. Last(q)
    BY <1>1, <1>4
  <1>6. \A p \in DOMAIN events : Last(p) => p = q
    <2> SUFFICES ASSUME NEW p \in DOMAIN events, Last(p) PROVE p = q
      OBVIOUS
    <2>1. p <= q /\ q <= p
      BY <1>1, <1>4
    <2> QED
      BY <1>0, <2>1
  <1> HIDE DEF Last
  <1>7. (CHOOSE p \in DOMAIN events : Last(p)) = q
    BY <1>1, <1>5, <1>6
  <1>8. LastSequence(id) = q
    BY <1>7 DEF LastSequence, Last
  <1> QED
    BY <1>1, <1>4, <1>8

\* The last event of a row its active source points at is about the revision
\* pointed at.
LEMMA LastOfMember ==
    ASSUME Tables, NEW s \in DOMAIN bindings, IsActive(s),
           NEW id, <<s, id>> \in DOMAIN members
    PROVE  LET e == events[LastSequence(id)]
           IN  /\ id \in Announced
               /\ e.op = IF HeadOf(s, id).lifecycle = "active" THEN "upsert" ELSE "void"
               /\ e.hash = HeadOf(s, id).hash /\ e.sheet = HeadOf(s, id).sheet
  <1> DEFINE k == members[<<s, id>>].rev
             q == LastSequence(id)
  <1>1. Top(id, k)
    BY DEF Tables, FeedInv, MemberInv
  <1>2. q \in DOMAIN events /\ events[q].id = id /\ events[q].rev = k
    BY <1>1, LastSays
  <1> HIDE DEF q, k
  <1>3. /\ revisions[<<id, k>>].sheet = events[q].sheet
        /\ revisions[<<id, k>>].hash = events[q].hash
        /\ revisions[<<id, k>>].lifecycle =
             IF events[q].op = "upsert" THEN "active" ELSE "voided"
    BY <1>2 DEF Tables, FeedInv, EventInv
  <1>4. events[q].op \in {"upsert", "void"}
    BY <1>2 DEF Tables, TypeOK, Table, Event
  <1>5. id \in Announced
    BY <1>2 DEF Announced
  <1> QED
    BY <1>3, <1>4, <1>5 DEF HeadOf, q, k

\* The last event of a row is its last revision, which the live workbook holds.
LEMMA FeedRebuilt == Tables => FeedRebuildsWorkbook
  <1> SUFFICES ASSUME Tables, NEW s \in DOMAIN bindings, IsActive(s),
                      bindings[s].lastImport # None
               PROVE  LET rows == bindings[s].lastFile
                      IN  /\ \A id \in DOMAIN rows :
                              /\ id \in Announced
                              /\ events[LastSequence(id)].op = "upsert"
                              /\ events[LastSequence(id)].hash = rows[id].hash
                              /\ events[LastSequence(id)].sheet = rows[id].sheet
                          /\ \A i \in DOMAIN imports : imports[i].source = s =>
                              \A id \in DOMAIN imports[i].file \ DOMAIN rows :
                                  events[LastSequence(id)].op = "void"
    BY DEF FeedRebuildsWorkbook
  <1> DEFINE rows == bindings[s].lastFile
  <1>1. /\ \A id \in DOMAIN rows :
            /\ <<s, id>> \in DOMAIN members
            /\ HeadOf(s, id).lifecycle = "active"
            /\ HeadOf(s, id).hash = rows[id].hash
            /\ HeadOf(s, id).sheet = rows[id].sheet
        /\ \A id \in MemberIds(s) \ DOMAIN rows : HeadOf(s, id).lifecycle = "voided"
    BY DEF Tables, FeedInv, LiveInv
  <1> HIDE DEF rows
  <1>2. ASSUME NEW id \in DOMAIN rows
        PROVE  /\ id \in Announced
               /\ events[LastSequence(id)].op = "upsert"
               /\ events[LastSequence(id)].hash = rows[id].hash
               /\ events[LastSequence(id)].sheet = rows[id].sheet
    BY <1>1, LastOfMember
  <1>3. ASSUME NEW i \in DOMAIN imports, imports[i].source = s,
               NEW id \in DOMAIN imports[i].file \ DOMAIN rows
        PROVE  events[LastSequence(id)].op = "void"
    <2>1. <<s, id>> \in DOMAIN members
      BY <1>3 DEF Tables, FeedInv, FileInv
    <2>2. id \in MemberIds(s)
      BY <2>1 DEF MemberIds, Tables, TypeOK, Table
    <2>3. HeadOf(s, id).lifecycle = "voided"
      BY <1>1, <2>2
    <2> QED
      BY <2>1, <2>3, LastOfMember
  <1> QED
    BY <1>2, <1>3 DEF rows

\* A commit voids rows its source holds, and what a source holds it was given
\* by an earlier import.
LEMMA CommitVoidsOwn ==
    ASSUME Tables, HistoryInv, NoFalseVoid, NEW r, Commits(r)
    PROVE  NoFalseVoid'
  <1>1. /\ DOMAIN imports' = DOMAIN imports \cup {r.import}
        /\ \A i \in DOMAIN imports : imports'[i] = imports[i]
        /\ imports'[r.import].committed = generation + 1
    BY CommitImports
  <1>2. /\ \A q \in DOMAIN events : events'[q] = events[q]
        /\ \A q \in DOMAIN events' \ DOMAIN events : \E id \in Changes(r) : q = Slot(r, id)
    BY CommitEvents
  <1> SUFFICES ASSUME NEW q \in DOMAIN events', events'[q].op = "void"
               PROVE  \E i \in DOMAIN imports' :
                        /\ imports'[i].source = events'[q].source
                        /\ imports'[i].committed < imports'[events'[q].import].committed
                        /\ events'[q].id \in DOMAIN imports'[i].file
    BY DEF NoFalseVoid
  <1>3. CASE q \in DOMAIN events
    <2>1. PICK i \in DOMAIN imports :
            /\ imports[i].source = events[q].source
            /\ imports[i].committed < imports[events[q].import].committed
            /\ events[q].id \in DOMAIN imports[i].file
      BY <1>2, <1>3 DEF NoFalseVoid
    <2>2. events[q].import \in DOMAIN imports
      BY <1>3 DEF Tables, FeedInv, EventInv
    <2>3. /\ events'[q] = events[q] /\ imports'[i] = imports[i] /\ i \in DOMAIN imports'
          /\ imports'[events[q].import] = imports[events[q].import]
      BY <1>1, <1>2, <1>3, <2>2
    <2> QED
      BY <2>1, <2>3
  <1>4. CASE q \notin DOMAIN events
    <2>1. PICK id \in Changes(r) : q = Slot(r, id)
      BY <1>2, <1>4
    <2>2. /\ events'[q].id = id /\ events'[q].import = r.import
          /\ events'[q].source = r.source
          /\ events'[q].op = IF id \in DOMAIN r.rows THEN "upsert" ELSE "void"
      BY <2>1, NewEventSays
    <2>3. id \in MemberIds(r.source)
      BY <2>2, PlanCases
    <2>4. <<r.source, id>> \in DOMAIN members
      BY <2>3 DEF MemberIds
    <2>5. PICK i \in DOMAIN imports :
            imports[i].source = r.source /\ id \in DOMAIN imports[i].file
      BY <2>4 DEF Tables, FeedInv, MemberInv
    <2>6. imports[i].committed < generation + 1
      BY <2>5 DEF HistoryInv
    <2> QED
      BY <1>1, <2>2, <2>5, <2>6
  <1> QED
    BY <1>3, <1>4

\* What is known of a row that has been announced.
LEMMA AnnouncedBefore ==
    ASSUME Tables, NEW r, Commits(r), NEW id \in Changes(r),
           NEW p \in DOMAIN events, events[p].id = id
    PROVE  id \in DOMAIN Was(r)
  <1>1. <<id, events[p].rev>> \in DOMAIN revisions /\ events[p].rev \in Nat
    BY DEF Tables, TypeOK, Table, Event, FeedInv, EventInv
  <1>2. id \in DOMAIN r.rows \/ id \in DOMAIN Was(r)
    BY DEF Changes, Changed, Inserted, Edited, Voided
  <1> QED
    BY <1>1, <1>2, CommittedPlan

\* An event and the ones of its row before it, as ChangeChain has them.
Earlier(q) == {p \in DOMAIN events : events[p].id = events[q].id /\ p < q}

Continues(q) ==
    /\ events[q].rev = Cardinality(Earlier(q)) + 1
    /\ events[q].rev = 1 => events[q].previous = None /\ events[q].op = "upsert"
    /\ \A p \in Earlier(q) : events[p].rev = events[q].rev - 1 =>
        /\ events[q].previous = events[p].event
        /\ <<events[q].op, events[q].hash>> # <<events[p].op, events[p].hash>>

AllContinue == \A q \in DOMAIN events : Continues(q)

\* The chain, said of one event and the one it follows.
LEMMA ChainIsContinued == ChangeChain <=> AllContinue
  <1>1. ASSUME NEW id, NEW q \in DOMAIN events, events[q].id = id
        PROVE  {p \in {x \in DOMAIN events : events[x].id = id} : p < q} = Earlier(q)
    BY <1>1 DEF Earlier
  <1>2. ASSUME ChangeChain, NEW q \in DOMAIN events PROVE Continues(q)
    <2> DEFINE mine == {p \in DOMAIN events : events[p].id = events[q].id}
               before == {p \in mine : p < q}
    <2>1. events[q].id \in Announced /\ q \in mine
      BY DEF Announced
    <2>2. before = Earlier(q)
      BY <1>1
    <2>3. /\ events[q].rev = Cardinality(before) + 1
          /\ events[q].rev = 1 => events[q].previous = None /\ events[q].op = "upsert"
          /\ \A p \in before : events[p].rev = events[q].rev - 1 =>
              /\ events[q].previous = events[p].event
              /\ <<events[q].op, events[q].hash>> # <<events[p].op, events[p].hash>>
      BY <1>2, <2>1 DEF ChangeChain
    <2> HIDE DEF before
    <2> QED
      BY <2>2, <2>3 DEF Continues
  <1>3. ASSUME \A q \in DOMAIN events : Continues(q) PROVE ChangeChain
    <2> SUFFICES ASSUME NEW id \in Announced,
                        NEW q \in {x \in DOMAIN events : events[x].id = id}
                 PROVE  LET before == {p \in {x \in DOMAIN events : events[x].id = id} : p < q}
                            e == events[q]
                        IN  /\ e.rev = Cardinality(before) + 1
                            /\ e.rev = 1 => e.previous = None /\ e.op = "upsert"
                            /\ \A p \in before : events[p].rev = e.rev - 1 =>
                                /\ e.previous = events[p].event
                                /\ <<e.op, e.hash>> # <<events[p].op, events[p].hash>>
      BY DEF ChangeChain
    <2> DEFINE before == {p \in {x \in DOMAIN events : events[x].id = id} : p < q}
    <2>1. before = Earlier(q)
      BY <1>1
    <2>2. Continues(q)
      BY <1>3
    <2> HIDE DEF before
    <2> QED
      BY <2>1, <2>2 DEF Continues, before
  <1> QED
    BY <1>2, <1>3 DEF AllContinue

\* The events before an old one stay the same over a commit.
LEMMA EarlierStays ==
    ASSUME Tables, NEW r, Commits(r), NEW q \in DOMAIN events
    PROVE  Earlier(q)' = Earlier(q)
  <1>1. /\ DOMAIN events' = 1..(nextSequence' - 1)
        /\ DOMAIN events = 1..(nextSequence - 1)
        /\ nextSequence \in Nat /\ nextSequence' \in Nat
        /\ \A p \in DOMAIN events : p \in DOMAIN events' /\ events'[p] = events[p]
    BY CommitEvents
  <1>2. \A p \in DOMAIN events' : p < q => p \in DOMAIN events
    BY <1>1
  <1>3. Earlier(q)' = {p \in DOMAIN events' : events'[p].id = events'[q].id /\ p < q}
    BY DEF Earlier
  <1> QED
    BY <1>1, <1>2, <1>3 DEF Earlier

\* The events before a new one are all the old ones of its row.
LEMMA EarlierOfNew ==
    ASSUME Tables, NEW r, Commits(r), NEW id \in Changes(r)
    PROVE  {p \in DOMAIN events' : events'[p].id = id /\ p < Slot(r, id)}
           = {p \in DOMAIN events : events[p].id = id}
  <1>1. /\ DOMAIN events = 1..(nextSequence - 1) /\ nextSequence \in Nat
        /\ \A p \in DOMAIN events : p \in DOMAIN events' /\ events'[p] = events[p]
        /\ \A p \in DOMAIN events' \ DOMAIN events : \E b \in Changes(r) : p = Slot(r, b)
        /\ Slot(r, id) \in DOMAIN events' /\ Slot(r, id) >= nextSequence
        /\ DOMAIN events' = 1..(nextSequence' - 1) /\ nextSequence' \in Nat
    BY CommitEvents
  <1>2. \A b \in Changes(r) : events'[Slot(r, b)].id = b
    BY NewEventSays
  <1>3. \A p \in DOMAIN events' : events'[p].id = id /\ p \notin DOMAIN events => p = Slot(r, id)
    BY <1>1, <1>2
  <1> DEFINE slot == Slot(r, id)
  <1> HIDE DEF slot
  <1>4. \A p \in DOMAIN events : p < slot
    BY <1>1 DEF slot
  <1>5. ~(slot < slot)
    BY <1>1 DEF slot
  <1> QED
    BY <1>1, <1>3, <1>4, <1>5 DEF slot

\* The events of a row, counted: as many as its last revision says.
LEMMA EventsCounted ==
    ASSUME Tables, ChangeChain, NEW id, NEW k, Top(id, k)
    PROVE  k = Cardinality({p \in DOMAIN events : events[p].id = id})
  <1> DEFINE mine == {p \in DOMAIN events : events[p].id = id}
             last == LastSequence(id)
  <1>1. /\ last \in DOMAIN events /\ events[last].id = id /\ events[last].rev = k
        /\ \A p \in DOMAIN events : events[p].id = id => p <= last
    BY LastSays
  <1>2. \A p \in DOMAIN events : p \in Nat
    BY DEF Tables, TypeOK, Table
  <1> HIDE DEF last
  <1>3. Earlier(last) = mine \ {last}
    BY <1>1, <1>2 DEF Earlier
  <1>4. k = Cardinality(Earlier(last)) + 1
    BY <1>1, ChainIsContinued DEF AllContinue, Continues
  <1>5. IsFiniteSet(mine)
    <2>1. DOMAIN events = 1..(nextSequence - 1) /\ nextSequence \in Nat
      BY DEF Tables, FeedInv, SequenceInv, TypeOK
    <2>2. IsFiniteSet(DOMAIN events)
      BY <2>1, FS_Interval
    <2>3. mine \in SUBSET DOMAIN events
      OBVIOUS
    <2> QED
      BY <2>2, <2>3, FS_Subset
  <1>6. last \in mine
    BY <1>1
  <1> HIDE DEF mine
  <1>7. Cardinality(mine \ {last}) = Cardinality(mine) - 1 /\ Cardinality(mine) \in Nat
    BY <1>5, <1>6, FS_RemoveElement, FS_CardinalityType
  <1> QED
    BY <1>3, <1>4, <1>7 DEF mine

\* A new event continues the chain of its row.
LEMMA NewContinues ==
    ASSUME Tables, ChangeChain, NEW r, Commits(r), NEW id \in Changes(r)
    PROVE  LET e == events'[Slot(r, id)]
               old == {p \in DOMAIN events : events[p].id = id}
           IN  /\ e.rev = Cardinality(old) + 1
               /\ e.rev = 1 => e.previous = None /\ e.op = "upsert"
               /\ \A p \in old : events[p].rev = e.rev - 1 =>
                   /\ e.previous = events[p].event
                   /\ <<e.op, e.hash>> # <<events[p].op, events[p].hash>>
  <1> DEFINE e == events'[Slot(r, id)]
             old == {p \in DOMAIN events : events[p].id = id}
  <1>1. /\ e.rev = NewRev(r, id) /\ e.hash = NewHash(r, id)
        /\ e.op = IF id \in DOMAIN r.rows THEN "upsert" ELSE "void"
        /\ e.previous = Predecessor(id, NewRev(r, id))
    BY NewEventSays
  <1> HIDE DEF e
  <1>2. CASE id \notin DOMAIN Was(r)
    <2>1. old = {}
      BY <1>2, AnnouncedBefore
    <2>2. /\ NewRev(r, id) = 1 /\ Predecessor(id, NewRev(r, id)) = None
          /\ id \in DOMAIN r.rows
      BY <1>2, PredecessorExists
    <2>3. Cardinality(old) = 0
      BY <2>1, FS_EmptySet
    <2> HIDE DEF old
    <2> QED
      BY <1>1, <2>1, <2>2, <2>3 DEF e, old
  <1>3. CASE id \in DOMAIN Was(r)
    <2>1. PICK k : k = Was(r)[id].rev
      OBVIOUS
    <2>2. k \in Nat \ {0} /\ Was(r)[id] = Said(id, k) /\ Top(id, k)
      BY <1>3, <2>1, CommittedPlan
    <2>3. /\ NewRev(r, id) = k + 1
          /\ Predecessor(id, NewRev(r, id)) = revisions[<<id, k>>].version
      BY <1>3, <2>1, PredecessorExists
    <2>4. k = Cardinality(old)
      BY <2>2, EventsCounted
    <2>5. /\ Was(r)[id].lifecycle = revisions[<<id, k>>].lifecycle
          /\ Was(r)[id].hash = revisions[<<id, k>>].hash
      BY <2>2 DEF Said
    <2>6. ASSUME NEW p \in DOMAIN events, events[p].id = id, events[p].rev = k
          PROVE  /\ e.previous = events[p].event
                 /\ <<e.op, e.hash>> # <<events[p].op, events[p].hash>>
      <3>1. /\ revisions[<<id, k>>].version = events[p].event
            /\ revisions[<<id, k>>].hash = events[p].hash
            /\ revisions[<<id, k>>].lifecycle =
                 IF events[p].op = "upsert" THEN "active" ELSE "voided"
        BY <2>6 DEF Tables, FeedInv, EventInv
      <3>2. CASE id \in DOMAIN r.rows
        <4>1. Was(r)[id].lifecycle # "active" \/ Was(r)[id].hash # r.rows[id].hash
          BY <1>3, <3>2, PlanCases
        <4>2. e.op = "upsert" /\ e.hash = r.rows[id].hash
          BY <1>1, <3>2 DEF NewHash
        <4> QED
          BY <1>1, <2>3, <2>5, <3>1, <4>1, <4>2
      <3>3. CASE id \notin DOMAIN r.rows
        <4>1. Was(r)[id].lifecycle = "active"
          BY <3>3, PlanCases
        <4>2. e.op = "void"
          BY <1>1, <3>3
        <4> QED
          BY <1>1, <2>3, <2>5, <3>1, <4>1, <4>2
      <3> QED
        BY <3>2, <3>3
    <2>7. e.rev = k + 1 /\ e.rev - 1 = k /\ e.rev # 1
      BY <1>1, <2>2, <2>3
    <2>8. \A p \in old : events[p].rev = e.rev - 1 =>
            /\ e.previous = events[p].event
            /\ <<e.op, e.hash>> # <<events[p].op, events[p].hash>>
      BY <2>6, <2>7
    <2> HIDE DEF old
    <2> QED
      BY <2>4, <2>7, <2>8 DEF e, old
  <1> QED
    BY <1>2, <1>3

\* The new event of a row names the event its head was announced by.
LEMMA CommitContinuesChain ==
    ASSUME Tables, ChangeChain, NEW r, Commits(r)
    PROVE  ChangeChain'
  <1>1. /\ \A q \in DOMAIN events : events'[q] = events[q]
        /\ \A q \in DOMAIN events' \ DOMAIN events : \E id \in Changes(r) : q = Slot(r, id)
    BY CommitEvents
  <1>2. ASSUME NEW q \in DOMAIN events PROVE Continues(q)'
    <2>1. Earlier(q)' = Earlier(q)
      BY EarlierStays
    <2>2. Continues(q)
      BY ChainIsContinued DEF AllContinue
    <2>3. Earlier(q) \subseteq DOMAIN events
      BY DEF Earlier
    <2>4. \A p \in Earlier(q) : events'[p] = events[p]
      BY <1>1, <2>3
    <2> QED
      BY <1>1, <2>1, <2>2, <2>4 DEF Continues
  <1>3. ASSUME NEW q \in DOMAIN events' \ DOMAIN events PROVE Continues(q)'
    <2>1. PICK id \in Changes(r) : q = Slot(r, id)
      BY <1>1, <1>3
    <2> DEFINE old == {p \in DOMAIN events : events[p].id = id}
    <2>2. events'[q].id = id
      BY <2>1, NewEventSays
    <2>3. Earlier(q)' = {p \in DOMAIN events' : events'[p].id = id /\ p < q}
      BY <2>2 DEF Earlier
    <2>4. Earlier(q)' = old
      BY <2>1, <2>3, EarlierOfNew
    <2>5. \A p \in old : events'[p] = events[p]
      BY <1>1
    <2>6. /\ events'[q].rev = Cardinality(old) + 1
          /\ events'[q].rev = 1 => events'[q].previous = None /\ events'[q].op = "upsert"
          /\ \A p \in old : events[p].rev = events'[q].rev - 1 =>
              /\ events'[q].previous = events[p].event
              /\ <<events'[q].op, events'[q].hash>> # <<events[p].op, events[p].hash>>
      BY <2>1, NewContinues
    <2> HIDE DEF old
    <2> QED
      BY <2>4, <2>5, <2>6 DEF Continues
  <1>4. AllContinue'
    BY <1>2, <1>3 DEF AllContinue
  <1>5. ChangeChain' <=> AllContinue'
    BY ChainIsContinued, PTL
  <1> QED
    BY <1>4, <1>5

\* A commit announces a row on the sheet it always had, and a transaction from
\* the source it always had.
LEMMA CommitStaysHome ==
    ASSUME Tables, IdentitiesStayHome, NEW r, Commits(r)
    PROVE  IdentitiesStayHome'
  <1> DEFINE Home(d, e) == /\ d.sheet = e.sheet
                           /\ d.sheet # PartySheet => d.source = e.source
  <1>1. /\ \A q \in DOMAIN events : events'[q] = events[q]
        /\ \A q \in DOMAIN events' \ DOMAIN events : \E id \in Changes(r) : q = Slot(r, id)
    BY CommitEvents
  <1>2. ASSUME NEW p \in DOMAIN events, NEW id \in Changes(r), events[p].id = id
        PROVE  Home(events[p], events'[Slot(r, id)])
    <2>1. id \in DOMAIN Was(r)
      BY <1>2, AnnouncedBefore
    <2>2. PICK k : k = Was(r)[id].rev
      OBVIOUS
    <2>3. Was(r)[id] = Said(id, k) /\ Top(id, k)
      BY <2>1, <2>2, CommittedPlan
    <2>4. PICK q \in DOMAIN events : events[q].id = id /\ events[q].rev = k
      BY <2>3, LastSays
    <2>5. revisions[<<id, k>>].sheet = events[q].sheet
      BY <2>4 DEF Tables, FeedInv, EventInv
    <2>6. Was(r)[id].sheet = events[p].sheet
      BY <1>2, <2>3, <2>4, <2>5 DEF Said, IdentitiesStayHome
    <2>7. ItemSheet(r.rows, Was(r), id) = Was(r)[id].sheet
      BY <2>1, CommittedPlan DEF ItemSheet
    <2>8. /\ events'[Slot(r, id)].sheet = ItemSheet(r.rows, Was(r), id)
          /\ events'[Slot(r, id)].source = r.source
      BY NewEventSays
    <2>9. <<events[p].source, id>> \in DOMAIN members
      BY <1>2 DEF Tables, FeedInv, EventInv
    <2>10. events[p].source \in DOMAIN bindings /\ id \in MemberIds(events[p].source)
      BY <2>9 DEF Tables, TypeOK, Table, FeedInv, MemberInv, MemberIds
    <2>11. Was(r)[id].sheet # PartySheet => events[p].source = r.source
      BY <2>1, <2>10, CommittedPlan
    <2> QED
      BY <2>6, <2>7, <2>8, <2>11
  <1>3. \A id \in Changes(r) : events'[Slot(r, id)].id = id
    BY NewEventSays
  <1> SUFFICES ASSUME NEW p \in DOMAIN events', NEW q \in DOMAIN events',
                      events'[p].id = events'[q].id
               PROVE  Home(events'[p], events'[q])
    BY DEF IdentitiesStayHome
  <1>4. CASE p \in DOMAIN events /\ q \in DOMAIN events
    BY <1>1, <1>4 DEF IdentitiesStayHome
  <1>5. CASE p \in DOMAIN events /\ q \notin DOMAIN events
    BY <1>1, <1>2, <1>3, <1>5
  <1>6. CASE p \notin DOMAIN events /\ q \in DOMAIN events
    BY <1>1, <1>2, <1>3, <1>6
  <1>7. CASE p \notin DOMAIN events /\ q \notin DOMAIN events
    BY <1>1, <1>3, <1>7
  <1> QED
    BY <1>4, <1>5, <1>6, <1>7

-----------------------------------------------------------------------------
(* Nothing is taken back. *)

\* What StoreOnlyGrows says of a step.
Grows ==
    /\ userVersion' >= userVersion
    /\ generation' >= generation /\ nextSequence' >= nextSequence
    /\ Keeps(imports, imports') /\ Keeps(revisions, revisions')
    /\ Keeps(events, events')
    /\ \A k \in DOMAIN members :
         /\ k \in DOMAIN members'
         /\ members'[k].first = members[k].first /\ members'[k].rev >= members[k].rev
    /\ \A s \in DOMAIN bindings :
         /\ s \in DOMAIN bindings'
         /\ bindings[s].lastImport # None => bindings'[s].lastImport # None

\* What the numbers and the memberships are compared with.
LEMMA GrowingThings ==
    ASSUME Tables
    PROVE  /\ userVersion \in {0, 1} /\ generation \in Nat /\ nextSequence \in Nat
           /\ \A k \in DOMAIN members :
                /\ k = <<k[1], k[2]>> /\ k[1] \in DOMAIN bindings
                /\ members[k].rev \in Nat /\ <<k[2], members[k].rev>> \in DOMAIN revisions
  <1>1. /\ userVersion \in {0, 1} /\ generation \in Nat /\ nextSequence \in Nat
        /\ \A k \in DOMAIN members : k \in Source \X StableId /\ members[k] \in Membership
    BY DEF Tables, TypeOK, Table
  <1>2. \A k \in DOMAIN members :
          k[1] \in DOMAIN bindings /\ <<k[2], members[k].rev>> \in DOMAIN revisions
    BY DEF Tables, FeedInv, MemberInv
  <1>3. \A k \in DOMAIN members : members[k].rev \in Nat
    BY <1>1 DEF Membership
  <1> QED
    BY <1>1, <1>2, <1>3

\* The row of a membership goes on to the planned revision or stays where the
\* prior registry saw it: no earlier one, and its first import is kept.
LEMMA CommitKeepsMembership ==
    ASSUME Tables, NEW r, Commits(r), NEW k \in DOMAIN members
    PROVE  /\ k \in DOMAIN members'
           /\ members'[k].first = members[k].first /\ members'[k].rev >= members[k].rev
  <1>1. /\ k = <<k[1], k[2]>> /\ members[k].rev \in Nat
        /\ <<k[2], members[k].rev>> \in DOMAIN revisions
    BY GrowingThings
  <1>2. k \in DOMAIN members' /\ (k[1] # r.source => members'[k] = members[k])
    BY CommitMembers
  <1>3. members'[k].first = members[k].first
    <2> DEFINE new == NewMembers(r, Was(r))
    <2>1. members' = Overlay(members, new)
      BY DEF Commits, Commit, WriteImport, Was
    <2>2. \A x \in DOMAIN new : x \in DOMAIN members => new[x].first = members[x].first
      BY DEF NewMembers
    <2> HIDE DEF new
    <2>3. members'[k] = IF k \in DOMAIN new THEN new[k] ELSE members[k]
      BY <2>1 DEF Overlay
    <2> QED
      BY <2>2, <2>3
  <1>4. ASSUME k[1] = r.source PROVE members'[k].rev >= members[k].rev
    <2> DEFINE id == k[2]
    <2>1. k = <<r.source, id>>
      BY <1>1, <1>4
    <2>2. members'[<<r.source, id>>].rev =
            IF id \in Changes(r) THEN NewRev(r, id) ELSE Was(r)[id].rev
      <3>1. <<r.source, id>> \in DOMAIN members'
        BY <1>2, <2>1
      <3> HIDE DEF id
      <3> QED
        BY <3>1, CommitMembers
    <2>3. id \in DOMAIN Was(r)
      <3>1. id \in StableId
        <4>1. k \in Source \X StableId
          BY DEF Tables, TypeOK, Table
        <4> QED
          BY <4>1
      <3>2. id \in MemberIds(r.source)
        BY <2>1, <3>1 DEF MemberIds
      <3> QED
        BY <3>2, CommittedPlan
    <2>4. Was(r)[id].rev \in Nat /\ Top(id, Was(r)[id].rev)
      BY <2>3, CommittedPlan
    <2>5. members[k].rev <= Was(r)[id].rev
      BY <1>1, <2>4 DEF Top
    <2>6. id \in Changes(r) => NewRev(r, id) = Was(r)[id].rev + 1
      BY <2>3, PredecessorExists
    <2> HIDE DEF id
    <2> QED
      BY <1>1, <2>1, <2>2, <2>4, <2>5, <2>6
  <1>5. CASE k[1] # r.source
    BY <1>1, <1>2, <1>5
  <1> QED
    BY <1>2, <1>3, <1>4, <1>5

LEMMA CommitGrows ==
    ASSUME Tables, NEW r, Commits(r)
    PROVE  Grows
  <1>1. userVersion' = userVersion
    BY DEF Commits, Commit
  <1>2. generation' = generation + 1 /\ Keeps(imports, imports')
    BY CommitImports DEF Keeps
  <1>3. nextSequence' >= nextSequence /\ Keeps(events, events')
    BY CommitEvents DEF Keeps
  <1>4. Keeps(revisions, revisions')
    BY CommitRevisions DEF Keeps
  <1>5. \A s \in DOMAIN bindings :
          /\ s \in DOMAIN bindings'
          /\ bindings[s].lastImport # None => bindings'[s].lastImport # None
    <2>1. r.import # None
      BY CommittedRequest, StoreAssumption
    <2> QED
      BY <2>1, CommitBindings
  <1>6. userVersion' >= userVersion /\ generation' >= generation
    BY <1>1, <1>2, GrowingThings
  <1> QED
    BY <1>2, <1>3, <1>4, <1>5, <1>6, CommitKeepsMembership DEF Grows

\* The file is created while it is empty, a rollover keeps what its source has.
LEMMA GrowStep ==
    ASSUME Tables, FreshInv, [Next]_vars
    PROVE  Grows
  <1>1. CASE \E r : Commits(r)
    BY <1>1, CommitGrows
  <1>2. CASE \E c \in Client : Create(c)
    <2>1. /\ userVersion = 0 /\ userVersion' = 1 /\ DOMAIN bindings = {}
          /\ UNCHANGED <<generation, nextSequence, imports, revisions, members, events>>
      BY <1>2 DEF Create, FreshInv
    <2>2. DOMAIN members = {}
      BY <2>1, GrowingThings
    <2> QED
      BY <2>1, <2>2, GrowingThings DEF Grows, Keeps
  <1>3. CASE \E s, t \in Source : Rollover(s, t)
    <2>1. PICK s, t \in Source : Rollover(s, t)
      BY <1>3
    <2>2. UNCHANGED <<userVersion, generation, nextSequence, imports, revisions,
                      members, events>>
      BY <2>1 DEF Rollover
    <2>3. /\ s \in DOMAIN bindings /\ DOMAIN bindings' = DOMAIN bindings \cup {t}
          /\ bindings'[s] = Archived(bindings[s])
          /\ \A x \in DOMAIN bindings \ {s} : bindings'[x] = bindings[x]
      BY <2>1, RolloverBindings
    <2>4. Archived(bindings[s]).lastImport = bindings[s].lastImport
      <3>1. bindings[s] \in Binding
        BY <2>3 DEF Tables, TypeOK, Table
      <3> QED
        BY <3>1 DEF Archived, Binding
    <2>5. \A x \in DOMAIN bindings :
            /\ x \in DOMAIN bindings'
            /\ bindings[x].lastImport # None => bindings'[x].lastImport # None
      BY <2>3, <2>4
    <2>6. \A k \in DOMAIN members :
            /\ k \in DOMAIN members'
            /\ members'[k].first = members[k].first /\ members'[k].rev >= members[k].rev
      <3>1. \A k \in DOMAIN members : members[k].rev \in Nat
        BY GrowingThings
      <3> QED
        BY <2>2, <3>1
    <2>7. /\ userVersion' >= userVersion
          /\ generation' >= generation /\ nextSequence' >= nextSequence
      BY <2>2, GrowingThings
    <2>8. Keeps(imports, imports') /\ Keeps(revisions, revisions') /\ Keeps(events, events')
      BY <2>2 DEF Keeps
    <2> QED
      BY <2>5, <2>6, <2>7, <2>8 DEF Grows
  <1>4. CASE /\ ~\E r : Commits(r)
             /\ ~\E c \in Client : Create(c)
             /\ ~\E s, t \in Source : Rollover(s, t)
    <2>1. UNCHANGED tables
      BY <1>4, QuietSteps
    <2>2. \A k \in DOMAIN members :
            /\ k \in DOMAIN members'
            /\ members'[k].first = members[k].first /\ members'[k].rev >= members[k].rev
      <3>1. \A k \in DOMAIN members : members[k].rev \in Nat
        BY GrowingThings
      <3> QED
        BY <2>1, <3>1 DEF tables
    <2>3. /\ userVersion' >= userVersion
          /\ generation' >= generation /\ nextSequence' >= nextSequence
      BY <2>1, GrowingThings DEF tables
    <2>4. Keeps(imports, imports') /\ Keeps(revisions, revisions') /\ Keeps(events, events')
      BY <2>1 DEF Keeps, tables
    <2> QED
      BY <2>1, <2>2, <2>3, <2>4 DEF Grows, tables
  <1> QED
    BY <1>1, <1>2, <1>3, <1>4

-----------------------------------------------------------------------------
(* The theorems. *)

\* Together these are inductive.
AllInv == IInv /\ Tables /\ NoFalseVoid /\ ChangeChain /\ IdentitiesStayHome

LEMMA InitAllInv == Init => AllInv
  <1> SUFFICES ASSUME Init PROVE AllInv
    OBVIOUS
  <1>1. IInv
    BY InitIInv
  <1>2. /\ \A t \in {bindings, imports, revisions, members, events} : DOMAIN t = {}
        /\ nextSequence = 1
    BY DEF Init, EmptyTable
  <1>3. TypeOK
    <2>1. TableTypes
      BY <1>2 DEF Init, TableTypes, Table
    <2>2. CallerTypes
      BY DEF Init, CallerTypes, Outcome
    <2> QED
      BY <2>1, <2>2 DEF TypeOK, TableTypes, CallerTypes
  <1>4. SentInv
    BY DEF Init, SentInv
  <1>5. FeedInv
    BY <1>2 DEF FeedInv, SequenceInv, EventInv, RevisionInv, OrderInv, MemberInv,
                FileInv, LiveInv
  <1>6. NoFalseVoid /\ IdentitiesStayHome
    BY <1>2 DEF NoFalseVoid, IdentitiesStayHome
  <1>7. ChangeChain
    BY <1>2, ChainIsContinued DEF AllContinue
  <1> QED
    BY <1>1, <1>3, <1>4, <1>5, <1>6, <1>7 DEF AllInv, Tables

\* Steps other than a commit leave the outbox and the history alone.
LEMMA OnlyCommitsAnnounce ==
    ASSUME [Next]_vars, ~\E r : Commits(r)
    PROVE  UNCHANGED <<imports, events>>
  <1>1. CASE \E c \in Client : Create(c)
    BY <1>1 DEF Create
  <1>2. CASE \E s, t \in Source : Rollover(s, t)
    BY <1>2 DEF Rollover
  <1>3. CASE /\ ~\E c \in Client : Create(c)
             /\ ~\E s, t \in Source : Rollover(s, t)
    BY <1>3, QuietSteps DEF tables
  <1> QED
    BY <1>1, <1>2, <1>3

LEMMA AllInvStep == AllInv /\ [Next]_vars => AllInv'
  <1> SUFFICES ASSUME AllInv, [Next]_vars PROVE AllInv'
    OBVIOUS
  <1>1. IInv /\ Tables /\ NoFalseVoid /\ ChangeChain /\ IdentitiesStayHome
    BY DEF AllInv
  <1>2. IInv'
    BY <1>1, CallerStep, HistoryStep, RepliesStep, OneCommitStep, FreshStep DEF IInv
  <1>3. TypeOK' /\ SentInv'
    BY <1>1, TypeStep
  <1>4. FeedInv'
    BY <1>1, FeedStep DEF IInv
  <1>5. CASE \E r : Commits(r)
    <2>1. NoFalseVoid' /\ ChangeChain' /\ IdentitiesStayHome'
      BY <1>1, <1>5, CommitVoidsOwn, CommitContinuesChain, CommitStaysHome DEF IInv
    <2> QED
      BY <1>2, <1>3, <1>4, <2>1 DEF AllInv, Tables
  <1>6. CASE ~\E r : Commits(r)
    <2>1. imports' = imports /\ events' = events
      BY <1>6, OnlyCommitsAnnounce
    <2>2. NoFalseVoid' /\ IdentitiesStayHome'
      BY <1>1, <2>1 DEF NoFalseVoid, IdentitiesStayHome
    <2>3. ChangeChain'
      <3>1. AllContinue
        BY <1>1, ChainIsContinued
      <3>2. AllContinue'
        BY <2>1, <3>1 DEF AllContinue, Continues, Earlier
      <3>3. ChangeChain' <=> AllContinue'
        BY ChainIsContinued, PTL
      <3> QED
        BY <3>2, <3>3
    <2> QED
      BY <1>2, <1>3, <1>4, <2>2, <2>3 DEF AllInv, Tables
  <1> QED
    BY <1>5, <1>6

\* The strengthened invariant holds always (initialize, read, commit and
\* rollover).
THEOREM FeedInvariance == Spec => []AllInv
  <1> QED
    BY InitAllInv, AllInvStep, PTL DEF Spec

\* Every table and every caller's state keeps its shape, whatever is committed.
THEOREM TypesHold == Spec => []TypeOK
  <1>1. AllInv => TypeOK
    BY DEF AllInv, Tables
  <1> QED
    BY <1>1, FeedInvariance, PTL

\* What the store has it keeps: no import that fails half way, no second creator
\* and no rollover takes a row away, changes it or sets a number back.
THEOREM NothingIsTakenBack == Spec => StoreOnlyGrows
  <1>1. AllInv /\ [Next]_vars => Grows
    BY GrowStep DEF AllInv, IInv
  <1>2. StoreOnlyGrows <=> [][Grows]_vars
    BY DEF StoreOnlyGrows, Grows
  <1> QED
    BY <1>1, <1>2, FeedInvariance, PTL DEF Spec

\* Reading the outbox to its end gives the workbook last committed for the
\* active source, and a void for every row that source once held and lost.
THEOREM FeedRebuilds == Spec => []FeedRebuildsWorkbook
  <1>1. AllInv => FeedRebuildsWorkbook
    BY FeedRebuilt DEF AllInv
  <1> QED
    BY <1>1, FeedInvariance, PTL

\* No commit voids a row that its own source was not given before.
THEOREM NoVoidIsFalse == Spec => []NoFalseVoid
  <1>1. AllInv => NoFalseVoid
    BY DEF AllInv
  <1> QED
    BY <1>1, FeedInvariance, PTL

\* The events of each row form one unbroken chain over all imports and sources.
THEOREM ChangesChain == Spec => []ChangeChain
  <1>1. AllInv => ChangeChain
    BY DEF AllInv
  <1> QED
    BY <1>1, FeedInvariance, PTL

\* No row changes its sheet, and no transaction its source.
THEOREM RowsStayHome == Spec => []IdentitiesStayHome
  <1>1. AllInv => IdentitiesStayHome
    BY DEF AllInv
  <1> QED
    BY <1>1, FeedInvariance, PTL
=============================================================================
