----------------------------- MODULE ImportStore -----------------------------
(***************************************************************************)
(* The local import store: packages/persistence source_import_store.py.    *)
(*                                                                         *)
(* One SQLite file, used by several callers (`Client'), each through a     *)
(* connection of its own.  The tables are the variables of the first       *)
(* group.  A call of commit_source_import begins by taking SQLite's write  *)
(* lock (BEGIN IMMEDIATE) and ends by COMMIT, ROLLBACK, or the death of    *)
(* the caller, which SQLite turns into a rollback; in between nobody else  *)
(* writes and nothing written is visible, so the writes are one step, that *)
(* of COMMIT.  Where the ROLLBACK raises, the transaction outlives the     *)
(* call: the connection is then refused until it is closed.                *)
(*                                                                         *)
(* SHA-256 is injective here: a request is its own digest, a workbook      *)
(* (the rows it holds) its own file digest, and an event UUID, which the   *)
(* event payload contains, stands for the payload's hash.                  *)
(***************************************************************************)
EXTENDS SourceChangePlan

CONSTANTS
    Client,         \* callers, each with a connection of its own
    Source,         \* annual workbooks that may be enrolled
    FirstSource,    \* the workbook the store is initialised for
    ImportId,       \* import identities callers may use
    Workbooks,      \* the snapshots callers may present
    Incomplete,     \* those of them that lack a required value
    StrayImports,   \* imports whose event UUIDs a caller may present again
    ForgetsEvents,  \* whether a caller may leave out event UUIDs
    MaxGeneration   \* bound: callers present nothing beyond this generation

ASSUME StoreAssumption ==
    /\ FirstSource \in Source
    /\ Workbooks \subseteq Snapshot /\ Incomplete \subseteq Workbooks
    /\ StrayImports \subseteq ImportId
    /\ ForgetsEvents \in BOOLEAN
    /\ MaxGeneration \in Nat
    /\ None \notin Client \cup Source \cup Workbooks
    /\ None \notin ImportId \cup (ImportId \X StableId)

VARIABLES
    userVersion,    \* PRAGMA user_version: 0 empty file, 1 schema created
    generation,     \* source_store_meta
    nextSequence,   \* source_store_meta
    bindings,       \* source_bindings, by source
    imports,        \* source_imports, by import identity
    revisions,      \* source_revisions, by <<row, revision>>
    members,        \* source_memberships, by <<source, row>>
    events,         \* change_events, by sequence number
    writer,         \* the caller with the write lock, or None
    leftOpen,       \* connections in a transaction though no call is under way
    pc,             \* where each caller is
    request,        \* the request each caller holds, kept for a retry
    reply,          \* how each caller's last call ended
    receipt         \* the receipt each caller last got

tables == <<userVersion, generation, nextSequence, bindings, imports,
            revisions, members, events>>
callers == <<pc, request, reply, receipt>>
locks == <<writer, leftOpen>>
vars == <<tables, locks, callers>>

EventId == ImportId \X StableId

Request == [import : ImportId, source : Source, expected : Nat,
            rows : Workbooks,
            events : UNION {[ids -> EventId] : ids \in SUBSET StableId}]

Receipt == [import : ImportId, source : Source, base : Nat, committed : Nat,
            file : Workbooks, total : Nat, inserted : Nat, edited : Nat,
            voided : Nat, unchanged : Nat, first : Nat, last : Nat]

Refusals == {"VALIDATION_FAILED", "SOURCE_NOT_ACTIVE", "IDEMPOTENCY_CONFLICT", "STALE_STATE",
             "INVALID_INPUT", "INVALID_SCHEMA", "INCONSISTENT_STATE",
             "STORAGE_FAILURE"}

\* UNKNOWN: the caller saw COMMIT raise, or died before the call returned.
\* ROLLBACK_FAILED: it saw a group, of the failure and that of the ROLLBACK.
Outcome == Refusals \cup {"NONE", "OPENED", "COMMITTED", "REPLAYED", "UNKNOWN",
                         "ROLLBACK_FAILED"}

\* Where a caller is inside a write transaction of a call.
InWrite == {"building", "writing"}

\* The entries of g on top of those of f: INSERT, or INSERT ... ON CONFLICT.
Overlay(f, g) ==
    [x \in DOMAIN f \cup DOMAIN g |-> IF x \in DOMAIN g THEN g[x] ELSE f[x]]

EmptyTable == [x \in {} |-> None]

-----------------------------------------------------------------------------
(* What the reader makes of the tables. *)

IsActive(s) == s \in DOMAIN bindings /\ bindings[s].state = "active"

MemberIds(s) == {id \in StableId : <<s, id>> \in DOMAIN members}

HeadOf(s, id) == revisions[<<id, members[<<s, id>>].rev>>]

\* The prior registry of every binding: each membership with its revision.
Registries ==
    [s \in DOMAIN bindings |->
        [id \in MemberIds(s) |->
            [sheet     |-> HeadOf(s, id).sheet,
             rev       |-> members[<<s, id>>].rev,
             lifecycle |-> HeadOf(s, id).lifecycle,
             hash      |-> HeadOf(s, id).hash]]]

Prior(s, rows) == ProjectSourcePrior(s, rows, Registries)

\* Parties have no financial date; a transaction's is parsed from its row.
FinancialDate(sheet, hash) == IF sheet = PartySheet THEN None ELSE hash

\* The payload a void event takes its date from: SELECT ... lifecycle =
\* 'active' ORDER BY revision DESC LIMIT 1.
LastLiveHash(id) ==
    LET live == {k \in DOMAIN revisions :
                    k[1] = id /\ revisions[k].lifecycle = "active"}
        latest == CHOOSE k \in live : \A other \in live : other[2] <= k[2]
    IN  revisions[latest].hash

EventsOf(i) == {q \in DOMAIN events : events[q].import = i}

ImportsReadable ==
    /\ Cardinality(DOMAIN imports) = generation
    /\ {imports[i].committed : i \in DOMAIN imports} = 1..generation
    /\ \A i \in DOMAIN imports :
        LET imp == imports[i]
            count == imp.inserted + imp.edited + imp.voided
        IN  /\ imp.committed = imp.base + 1
            /\ imp.source \in DOMAIN bindings
            /\ imp.total = imp.inserted + imp.edited + imp.unchanged
            /\ IF count = 0 THEN imp.first = 0 /\ imp.last = 0
               ELSE imp.first > 0 /\ imp.last = imp.first + count - 1
            /\ EventsOf(i) \in {{}, imp.first..imp.last}
            /\ \A q \in EventsOf(i) : events[q].source = imp.source

EventsReadable ==
    /\ DOMAIN events = 1..(nextSequence - 1)
    /\ \A p, q \in DOMAIN events : events[p].event = events[q].event => p = q

BindingsReadable ==
    /\ \A s, t \in DOMAIN bindings : IsActive(s) /\ IsActive(t) => s = t
    /\ \A s \in DOMAIN bindings :
        LET b == bindings[s]
        IN  /\ b.lastImport # None =>
                /\ b.lastImport \in DOMAIN imports
                /\ imports[b.lastImport].source = s
                /\ imports[b.lastImport].file = b.lastFile
            /\ IF b.state = "active" THEN b.final = None
               ELSE b.final # None /\ (b.lastFile # None => b.final = b.lastFile)

\* The event that created a revision says what the revision row says, and the
\* revision continues the chain of version hashes.
RevisionReadable(id, rev) ==
    LET head == revisions[<<id, rev>>]
        created == {q \in DOMAIN events :
                        events[q].id = id /\ events[q].rev = rev}
    IN  /\ IF rev = 1 THEN head.previous = None
           ELSE /\ <<id, rev - 1>> \in DOMAIN revisions
                /\ head.previous = revisions[<<id, rev - 1>>].version
        /\ \E q \in created :
            LET e == events[q]
            IN  /\ created = {q}
                /\ e.import = head.import
                /\ e.source = imports[head.import].source
                /\ e.sheet = head.sheet /\ e.hash = head.hash
                /\ e.event = head.version /\ e.previous = head.previous
                /\ e.op = IF head.lifecycle = "active" THEN "upsert" ELSE "void"
                /\ (head.hash = None) = (head.lifecycle = "voided")
                /\ e.date = FinancialDate(head.sheet,
                                IF head.lifecycle = "active" THEN head.hash
                                ELSE LastLiveHash(id))

MembershipReadable(s, id) ==
    LET m == members[<<s, id>>]
        head == HeadOf(s, id)
        lastGeneration == imports[m.last].committed
    IN  /\ {m.first, m.last} \subseteq DOMAIN imports
        /\ <<id, m.rev>> \in DOMAIN revisions /\ head.import \in DOMAIN imports
        /\ imports[m.first].committed <= lastGeneration
        /\ imports[head.import].committed <= lastGeneration
        /\ bindings[s].lastImport # None =>
            m.last = IF head.lifecycle = "active"
                     THEN bindings[s].lastImport ELSE head.import
        /\ RevisionReadable(id, m.rev)

\* The whole of _read_source_import_store_internal: TRUE iff it returns a view.
ReaderAccepts ==
    /\ userVersion = 1
    /\ IF generation = 0
       THEN /\ nextSequence = 1
            /\ \A t \in {imports, revisions, members, events} : DOMAIN t = {}
       ELSE ImportsReadable /\ EventsReadable
    /\ BindingsReadable
    /\ \A s \in DOMAIN bindings : \A id \in MemberIds(s) : MembershipReadable(s, id)
    /\ CatalogConsistent(Registries, {s \in DOMAIN bindings : IsActive(s)})

-----------------------------------------------------------------------------
(* What one import writes. *)

\* UNIQUE event_id and the primary key of source_revisions.
WriteClashes(r, prior) ==
    \E id \in Changed(r.rows, prior) :
        \/ \E q \in DOMAIN events : events[q].event = r.events[id]
        \/ <<id, PlannedRevision(prior, id)>> \in DOMAIN revisions

\* Fault: a source need only be registered.
Unregistered(r) == r.source \notin DOMAIN bindings

\* SOURCE_NOT_ACTIVE
NotActive(r) == ~IsActive(r.source)

Committed(r) == r.import \in DOMAIN imports

\* Fault: requests are compared by the workbook they carry.
ConflictsByFile(r) == Committed(r) /\ imports[r.import].file # r.rows

\* IDEMPOTENCY_CONFLICT: the identity was used for another request.
Conflicts(r) == Committed(r) /\ imports[r.import].digest # r

\* Fault: only a caller ahead of the store is refused.
Ahead(r) == ~Committed(r) /\ r.expected > generation

\* STALE_STATE: the caller planned against another generation.
Stale(r) == ~Committed(r) /\ r.expected # generation

\* The early returns of commit_source_import, in their order.
Verdict(r) ==
    LET prior == Prior(r.source, r.rows)
    IN  IF NotActive(r) THEN "SOURCE_NOT_ACTIVE"
        ELSE IF Conflicts(r) THEN "IDEMPOTENCY_CONFLICT"
        ELSE IF Stale(r) THEN "STALE_STATE"
        ELSE IF ~ReaderAccepts THEN "INCONSISTENT_STATE"
        ELSE IF Committed(r) THEN "REPLAYED"
        ELSE IF \/ Relocates(r.rows, Registries)
                \/ TakesTransaction(r.source, r.rows, Registries)
                \/ DOMAIN r.events # Changed(r.rows, prior)
             THEN "INVALID_INPUT"
        ELSE IF WriteClashes(r, prior) THEN "STORAGE_FAILURE"
        ELSE "COMMITTED"

\* Fault: voided rows are taken off the rows of the snapshot too.
UnchangedByDifference(r, prior) ==
    Cardinality(DOMAIN r.rows) - Cardinality(Changed(r.rows, prior))

UnchangedCount(r, prior) == Cardinality(Unchanged(r.rows, prior))

NewImport(r, prior) ==
    LET count == Cardinality(Changed(r.rows, prior))
    IN  [digest    |-> r,
         import    |-> r.import,
         source    |-> r.source,
         base      |-> generation,
         committed |-> generation + 1,
         file      |-> r.rows,
         total     |-> Cardinality(DOMAIN r.rows),
         inserted  |-> Cardinality(Inserted(r.rows, prior)),
         edited    |-> Cardinality(Edited(r.rows, prior)),
         voided    |-> Cardinality(Voided(r.rows, prior)),
         unchanged |-> UnchangedCount(r, prior),
         first     |-> IF count = 0 THEN 0 ELSE nextSequence,
         last      |-> IF count = 0 THEN 0 ELSE nextSequence + count - 1]

NewHash(r, id) == IF id \in DOMAIN r.rows THEN r.rows[id].hash ELSE None

\* Fault: the chain is tied to the first version instead of the last.
FirstVersion(id, rev) ==
    IF rev = 1 THEN None ELSE revisions[<<id, 1>>].version

Predecessor(id, rev) ==
    IF rev = 1 THEN None ELSE revisions[<<id, rev - 1>>].version

NewRevisions(r, prior) ==
    [k \in {<<id, PlannedRevision(prior, id)>> : id \in Changed(r.rows, prior)} |->
        [sheet     |-> ItemSheet(r.rows, prior, k[1]),
         lifecycle |-> IF k[1] \in DOMAIN r.rows THEN "active" ELSE "voided",
         hash      |-> NewHash(r, k[1]),
         import    |-> r.import,
         version   |-> r.events[k[1]],
         previous  |-> Predecessor(k[1], k[2])]]

\* A void takes its financial date from the last live revision.
NewEvent(r, prior, id) ==
    LET sheet == ItemSheet(r.rows, prior, id)
        rev == PlannedRevision(prior, id)
        present == id \in DOMAIN r.rows
    IN  [event    |-> r.events[id],
         import   |-> r.import,
         source   |-> r.source,
         id       |-> id,
         rev      |-> rev,
         op       |-> IF present THEN "upsert" ELSE "void",
         sheet    |-> sheet,
         hash     |-> NewHash(r, id),
         date     |-> FinancialDate(sheet, IF present THEN r.rows[id].hash
                                           ELSE LastLiveHash(id)),
         previous |-> Predecessor(id, rev)]

\* One sequence number per changed item, in plan order, without a gap.
NewEvents(r, prior) ==
    LET changed == Changed(r.rows, prior)
    IN  [q \in nextSequence..(nextSequence + Cardinality(changed) - 1) |->
            NewEvent(r, prior, CHOOSE id \in changed :
                nextSequence + Position(r.rows, prior, id) = q)]

\* Fault: only changed rows are marked as seen by the import.
MembersOfChanged(r, prior) ==
    [k \in {r.source} \X Changed(r.rows, prior) |->
        [rev   |-> PlannedRevision(prior, k[2]),
         first |-> IF k \in DOMAIN members THEN members[k].first ELSE r.import,
         last  |-> r.import]]

\* Every row of the snapshot and every voided row; a revision never goes
\* back, so the MAX of the upsert is the new revision.
NewMembers(r, prior) ==
    [k \in {r.source} \X (DOMAIN r.rows \cup Voided(r.rows, prior)) |->
        [rev   |-> IF k[2] \in Changed(r.rows, prior)
                   THEN PlannedRevision(prior, k[2]) ELSE prior[k[2]].rev,
         first |-> IF k \in DOMAIN members THEN members[k].first ELSE r.import,
         last  |-> r.import]]

\* The binding of the source names its last import.
Latest(binding, r) ==
    [binding EXCEPT !.lastImport = r.import, !.lastFile = r.rows]

WriteImport(r) ==
    LET prior == Prior(r.source, r.rows)
    IN  /\ imports' = Overlay(imports, [i \in {r.import} |-> NewImport(r, prior)])
        /\ revisions' = Overlay(revisions, NewRevisions(r, prior))
        /\ events' = Overlay(events, NewEvents(r, prior))
        /\ members' = Overlay(members, NewMembers(r, prior))
        /\ bindings' = [bindings EXCEPT ![r.source] = Latest(@, r)]
        /\ generation' = generation + 1
        /\ nextSequence' = nextSequence + Cardinality(Changed(r.rows, prior))

\* A receipt is the import row but for the digest.
ReceiptOf(imp) == [field \in DOMAIN imp \ {"digest"} |-> imp[field]]

-----------------------------------------------------------------------------
(* The actions of a caller. *)

Init ==
    /\ userVersion = 0 /\ generation = 0 /\ nextSequence = 1
    /\ bindings = EmptyTable /\ imports = EmptyTable /\ revisions = EmptyTable
    /\ members = EmptyTable /\ events = EmptyTable
    /\ writer = None /\ leftOpen = {}
    /\ pc = [c \in Client |-> "closed"]
    /\ request = [c \in Client |-> None]
    /\ reply = [c \in Client |-> "NONE"]
    /\ receipt = [c \in Client |-> None]

Answer(c, outcome, rec) ==
    /\ pc' = [pc EXCEPT ![c] = "answered"]
    /\ reply' = [reply EXCEPT ![c] = outcome]
    /\ receipt' = [receipt EXCEPT ![c] = rec]
    /\ UNCHANGED request

\* A call to create or to import ends without its result.
Fails(c, outcome) ==
    /\ pc' = [pc EXCEPT ![c] = IF @ \in {"sent", "writing"} THEN "answered" ELSE "closed"]
    /\ reply' = [reply EXCEPT ![c] = outcome]
    /\ receipt' = [receipt EXCEPT ![c] = None]
    /\ UNCHANGED request

NewBinding == [state |-> "active", final |-> None,
               lastImport |-> None, lastFile |-> None]

\* initialize_source_import_store, first transaction: the file is empty, and
\* the read transaction that saw it ends before the write transaction begins.
FindEmpty(c) ==
    /\ pc[c] = "closed" /\ c \notin leftOpen /\ userVersion = 0
    /\ pc' = [pc EXCEPT ![c] = "creating"]
    /\ UNCHANGED <<tables, locks, request, reply, receipt>>

\* First transaction, when the schema is there: a repeated call returns the
\* view if it names the active source and everything can be read.
OpenExisting(c, s) ==
    LET accepted == ReaderAccepts /\ IsActive(s)
    IN  /\ pc[c] = "closed" /\ c \notin leftOpen /\ userVersion = 1
        /\ pc' = [pc EXCEPT ![c] = IF accepted THEN "open" ELSE "closed"]
        /\ reply' = [reply EXCEPT ![c] = IF accepted THEN "OPENED"
                                         ELSE "INVALID_SCHEMA"]
        /\ UNCHANGED <<tables, locks, request, receipt>>

\* A caller reads the store, plans the workbook it has against that view and
\* mints one event UUID per changed row (or makes one of two mistakes).
Prepare(c, i, s, rows) ==
    /\ pc[c] \in {"open", "answered"} /\ c \notin leftOpen
    /\ generation < MaxGeneration
    /\ ReaderAccepts
    /\ \E minted \in {i} \cup StrayImports,
          forgotten \in {{}} \cup IF ForgetsEvents THEN {StableId} ELSE {} :
        LET changed == IF IsActive(s) THEN Changed(rows, Prior(s, rows)) ELSE {}
        IN  request' = [request EXCEPT ![c] =
                [import |-> i, source |-> s, expected |-> generation, rows |-> rows,
                 events |-> [id \in changed \ forgotten |-> <<minted, id>>]]]
    /\ pc' = [pc EXCEPT ![c] = "sent"]
    /\ reply' = [reply EXCEPT ![c] = "NONE"]
    /\ receipt' = [receipt EXCEPT ![c] = None]
    /\ UNCHANGED <<tables, locks>>

\* The caller kept the request and presents it again, identical.
Retry(c) ==
    /\ pc[c] = "answered" /\ request[c] # None
    /\ pc' = [pc EXCEPT ![c] = "sent"]
    /\ UNCHANGED <<tables, locks, request, reply, receipt>>

\* The requiredness rules refuse a workbook before any transaction.
Reject(c) ==
    /\ pc[c] = "sent" /\ request[c].rows \in Incomplete
    /\ Answer(c, "VALIDATION_FAILED", None)
    /\ UNCHANGED <<tables, locks>>

\* A complete request, or the second transaction of a creation.
WantsToWrite(c) ==
    pc[c] = "creating" \/ (pc[c] = "sent" /\ request[c].rows \notin Incomplete)

\* BEGIN IMMEDIATE takes the write lock, or gives up waiting for it.
Begin(c) ==
    /\ WantsToWrite(c) /\ c \notin leftOpen
    /\ writer = None
    /\ writer' = c
    /\ pc' = [pc EXCEPT ![c] = IF @ = "creating" THEN "building" ELSE "writing"]
    /\ UNCHANGED <<tables, leftOpen, request, reply, receipt>>

Busy(c) ==
    /\ WantsToWrite(c) /\ c \notin leftOpen
    /\ writer # None
    /\ Fails(c, "STORAGE_FAILURE")
    /\ UNCHANGED <<tables, locks>>

\* connection.in_transaction: the call is refused before it begins a
\* transaction inside the one left open.
RefuseNested(c) ==
    /\ c \in leftOpen
    /\ pc[c] = "closed" \/ WantsToWrite(c)
    /\ Fails(c, "STORAGE_FAILURE")
    /\ UNCHANGED <<tables, locks>>

\* Fault: tables are created if they do not exist, and rows replaced.
CreateAgain(c) ==
    /\ pc[c] = "building"
    /\ userVersion' = 1 /\ generation' = 0 /\ nextSequence' = 1
    /\ bindings' = Overlay(bindings, [s \in {FirstSource} |-> NewBinding])
    /\ pc' = [pc EXCEPT ![c] = "open"] /\ reply' = [reply EXCEPT ![c] = "OPENED"]
    /\ writer' = None
    /\ UNCHANGED <<imports, revisions, members, events, leftOpen, request, receipt>>

\* The caller may not learn that it created the store.  Whoever comes second
\* finds the tables there: CREATE TABLE fails, and with it the transaction
\* (RollBack).
Create(c) ==
    /\ pc[c] = "building" /\ userVersion = 0
    /\ userVersion' = 1
    /\ bindings' = [s \in {FirstSource} |-> NewBinding]
    /\ \E outcome \in {"OPENED", "UNKNOWN"} :
        /\ pc' = [pc EXCEPT ![c] = IF outcome = "OPENED" THEN "open" ELSE "closed"]
        /\ reply' = [reply EXCEPT ![c] = outcome]
    /\ writer' = None
    /\ UNCHANGED <<generation, nextSequence, imports, revisions, members,
                   events, leftOpen, request, receipt>>

\* Every refusal raises, and the handler rolls back.
Refuse(c) ==
    /\ pc[c] = "writing"
    /\ Verdict(request[c]) \notin {"COMMITTED", "REPLAYED"}
    /\ Answer(c, Verdict(request[c]), None)
    /\ writer' = None
    /\ UNCHANGED <<tables, leftOpen>>

\* Fault: the rebuilt receipt carries the disposition of a fresh commit.
ReplayAsCommit(c) ==
    /\ pc[c] = "writing" /\ Verdict(request[c]) = "REPLAYED"
    /\ Answer(c, "COMMITTED", ReceiptOf(imports[request[c].import]))
    /\ writer' = None
    /\ UNCHANGED <<tables, leftOpen>>

\* Fault: as nothing is written, the transaction is not ended.
ReplayKeepsOpen(c) ==
    /\ pc[c] = "writing" /\ Verdict(request[c]) = "REPLAYED"
    /\ Answer(c, "REPLAYED", ReceiptOf(imports[request[c].import]))
    /\ leftOpen' = leftOpen \cup {c}
    /\ UNCHANGED <<tables, writer>>

\* The request was committed before: the receipt is rebuilt, nothing written.
Replay(c) ==
    /\ pc[c] = "writing" /\ Verdict(request[c]) = "REPLAYED"
    /\ Answer(c, "REPLAYED", ReceiptOf(imports[request[c].import]))
    /\ writer' = None
    /\ UNCHANGED <<tables, leftOpen>>

\* COMMIT succeeds; the caller learns it, or dies or sees an error first.
Commit(c) ==
    LET r == request[c]
    IN  /\ pc[c] = "writing" /\ Verdict(r) = "COMMITTED"
        /\ WriteImport(r)
        /\ \/ Answer(c, "COMMITTED", ReceiptOf(imports'[r.import]))
           \/ Answer(c, "UNKNOWN", None)
        /\ writer' = None
        /\ UNCHANGED <<userVersion, leftOpen>>

\* A statement fails, or the caller dies, before COMMIT: nothing is kept.
RollBack(c) ==
    /\ pc[c] \in InWrite
    /\ \E outcome \in {"STORAGE_FAILURE", "UNKNOWN"} : Fails(c, outcome)
    /\ writer' = None
    /\ UNCHANGED <<tables, leftOpen>>

\* _handle_transaction_failure, after a failure or a refusal: its ROLLBACK
\* raises.  The transaction may be over for all that, or it stays.
RollBackRaises(c) ==
    /\ pc[c] \in InWrite
    /\ Fails(c, "ROLLBACK_FAILED")
    /\ \/ writer' = None /\ leftOpen' = leftOpen
       \/ writer' = writer /\ leftOpen' = leftOpen \cup {c}
    /\ UNCHANGED tables

\* The same of a read, in the first transaction of a creation or later: its
\* transaction has no write lock.
ReadRollBackRaises(c) ==
    /\ pc[c] \in {"closed", "open", "answered"} /\ c \notin leftOpen
    /\ leftOpen' = leftOpen \cup {c}
    /\ IF pc[c] = "closed" THEN Fails(c, "ROLLBACK_FAILED") ELSE UNCHANGED callers
    /\ UNCHANGED <<tables, writer>>

\* External: the caller closes the connection, or dies, and goes on with
\* another; SQLite rolls back.
Disconnect(c) ==
    /\ c \in leftOpen
    /\ leftOpen' = leftOpen \ {c}
    /\ writer' = IF writer = c THEN None ELSE writer
    /\ UNCHANGED <<tables, callers>>

Archived(binding) ==
    [binding EXCEPT !.state = "archived", !.final = binding.lastFile]

\* Enrolment of the next year's workbook, done by hand in SQL: the active
\* source is archived with the digest of its last file.
Rollover(s, t) ==
    /\ writer = None
    /\ IsActive(s) /\ bindings[s].lastImport # None
    /\ t \notin DOMAIN bindings
    /\ bindings' = Overlay([bindings EXCEPT ![s] = Archived(@)],
                           [x \in {t} |-> NewBinding])
    /\ UNCHANGED <<userVersion, generation, nextSequence, imports, revisions,
                   members, events, locks, callers>>

Next ==
    \/ \E c \in Client :
        \/ FindEmpty(c) \/ Create(c) \/ Retry(c) \/ Reject(c)
        \/ Begin(c) \/ Busy(c) \/ RefuseNested(c)
        \/ Refuse(c) \/ Replay(c) \/ Commit(c)
        \/ RollBack(c) \/ RollBackRaises(c) \/ ReadRollBackRaises(c) \/ Disconnect(c)
        \/ \E s \in Source : OpenExisting(c, s)
        \/ \E i \in ImportId, s \in Source, rows \in Workbooks : Prepare(c, i, s, rows)
    \/ \E s, t \in Source : Rollover(s, t)

Spec == Init /\ [][Next]_vars

-----------------------------------------------------------------------------
(* Properties. *)

Binding == [state : {"active", "archived"}, final : Workbooks \cup {None},
            lastImport : ImportId \cup {None}, lastFile : Workbooks \cup {None}]

ImportRow == [digest : Request, import : ImportId, source : Source,
              base : Nat, committed : Nat, file : Workbooks, total : Nat,
              inserted : Nat, edited : Nat, voided : Nat, unchanged : Nat,
              first : Nat, last : Nat]

Revision == [sheet : Sheet, lifecycle : Lifecycle, hash : Hash \cup {None},
             import : ImportId, version : EventId, previous : EventId \cup {None}]

Event == [event : EventId, import : ImportId, source : Source, id : StableId,
          rev : Nat \ {0}, op : {"upsert", "void"}, sheet : Sheet,
          hash : Hash \cup {None}, date : Hash \cup {None},
          previous : EventId \cup {None}]

Membership == [rev : Nat \ {0}, first : ImportId, last : ImportId]

\* f is a table with these keys and rows.
Table(f, keys, row) == DOMAIN f \subseteq keys /\ \A x \in DOMAIN f : f[x] \in row

\* Every table and every caller's state has its shape (the CHECKs of the
\* schema and the dataclasses of the store).
TypeOK ==
    /\ userVersion \in {0, 1} /\ generation \in Nat /\ nextSequence \in Nat \ {0}
    /\ Table(bindings, Source, Binding)
    /\ Table(imports, ImportId, ImportRow)
    /\ Table(revisions, StableId \X (Nat \ {0}), Revision)
    /\ Table(members, Source \X StableId, Membership)
    /\ Table(events, Nat \ {0}, Event)
    /\ writer \in Client \cup {None} /\ leftOpen \subseteq Client
    /\ pc \in [Client -> InWrite \cup {"closed", "creating", "open", "sent", "answered"}]
    /\ \A c \in Client : /\ request[c] \in Request \cup {None}
                         /\ receipt[c] \in Receipt \cup {None}
    /\ reply \in [Client -> Outcome]

\* The store never writes what its own reader refuses: a single inconsistent
\* row would turn every later call into INCONSISTENT_STATE, for good.
StoreReadable == userVersion = 1 => ReaderAccepts

LastSequence(id) ==
    CHOOSE q \in DOMAIN events :
        events[q].id = id /\ \A p \in DOMAIN events : events[p].id = id => p <= q

Announced == {events[q].id : q \in DOMAIN events}

\* Replaying the outbox gives the active workbook: the last event of every row
\* in it says what the row says, and every row the source ever held and lost
\* has a void as its last event.
FeedRebuildsWorkbook ==
    \A s \in DOMAIN bindings : IsActive(s) /\ bindings[s].lastImport # None =>
        LET rows == bindings[s].lastFile
        IN  /\ \A id \in DOMAIN rows :
                /\ id \in Announced
                /\ events[LastSequence(id)].op = "upsert"
                /\ events[LastSequence(id)].hash = rows[id].hash
                /\ events[LastSequence(id)].sheet = rows[id].sheet
            /\ \A i \in DOMAIN imports : imports[i].source = s =>
                \A id \in DOMAIN imports[i].file \ DOMAIN rows :
                    events[LastSequence(id)].op = "void"

\* A source voids only what an earlier import of that same source held: a
\* party known from an archived workbook alone is never voided by its absence.
NoFalseVoid ==
    \A q \in DOMAIN events : events[q].op = "void" =>
        \E i \in DOMAIN imports :
            /\ imports[i].source = events[q].source
            /\ imports[i].committed < imports[events[q].import].committed
            /\ events[q].id \in DOMAIN imports[i].file

\* The events of one row form one chain over all imports and sources: their
\* revisions are 1, 2, ... in sequence order, each names the one before, none
\* repeats it, and no two voids follow each other.
ChangeChain ==
    \A id \in Announced :
        LET mine == {q \in DOMAIN events : events[q].id = id}
        IN  \A q \in mine :
                LET before == {p \in mine : p < q}
                    e == events[q]
                IN  /\ e.rev = Cardinality(before) + 1
                    /\ e.rev = 1 => e.previous = None /\ e.op = "upsert"
                    /\ \A p \in before : events[p].rev = e.rev - 1 =>
                        /\ e.previous = events[p].event
                        /\ <<e.op, e.hash>> # <<events[p].op, events[p].hash>>

\* A transaction belongs to the workbook that first carried it, and no row
\* ever changes its sheet, however workbooks overlap and years roll over.
IdentitiesStayHome ==
    \A p, q \in DOMAIN events : events[p].id = events[q].id =>
        /\ events[p].sheet = events[q].sheet
        /\ events[p].sheet # PartySheet => events[p].source = events[q].source

\* A receipt in a caller's hands, whether of the commit or of a replay long
\* after, is what the store keeps of the very request it sent.
ReceiptIsOfMyRequest ==
    \A c \in Client : receipt[c] # None =>
        /\ request[c].import \in DOMAIN imports
        /\ imports[request[c].import].digest = request[c]
        /\ receipt[c] = ReceiptOf(imports[request[c].import])

\* Once archived, a source's binding and memberships are never touched again.
ArchivedFrozen ==
    [][\A s \in DOMAIN bindings : ~IsActive(s) =>
        /\ bindings'[s] = bindings[s]
        /\ \A id \in StableId :
            /\ (<<s, id>> \in DOMAIN members') = (<<s, id>> \in DOMAIN members)
            /\ <<s, id>> \in DOMAIN members =>
                members'[<<s, id>>] = members[<<s, id>>]]_vars

\* Of callers that race with one request, or retry it, at most one is told
\* COMMITTED; the others learn that it had been committed before.
OneCommitPerImport ==
    \A c, d \in Client :
        /\ reply[c] = "COMMITTED" /\ reply[d] = "COMMITTED"
        /\ request[c].import = request[d].import
        => c = d

\* Every import was applied to the very generation its caller had read and
\* planned against, though callers read outside the write transaction.
NoStaleImport ==
    \A i \in DOMAIN imports : imports[i].base = imports[i].digest.expected

\* Whoever is inside a write transaction has the lock, callers that create and
\* callers that import.  Past the end of its call a caller has it only on a
\* connection that refuses every call until it is closed, and it was told of a
\* failed ROLLBACK and has been refused since: no receipt, no refusal of its
\* request and no lost reply leaves the store locked.
NoSilentLock ==
    /\ \A c \in Client : pc[c] \in InWrite => writer = c
    /\ writer # None /\ pc[writer] \notin InWrite =>
        /\ writer \in leftOpen
        /\ reply[writer] \in {"ROLLBACK_FAILED", "STORAGE_FAILURE"}

\* The rows of f are in g, unchanged.
Keeps(f, g) == \A x \in DOMAIN f : x \in DOMAIN g /\ g[x] = f[x]

\* Nothing the store has is taken back, by an import that fails half way, by a
\* second caller that found the file empty and creates it when the first has
\* imported already, or by a rollover: imports, revisions and events stay as
\* they are, numbers do not go down, a membership does not go back to an older
\* revision and a source does not forget its last import.
StoreOnlyGrows ==
    [][/\ userVersion' >= userVersion
       /\ generation' >= generation /\ nextSequence' >= nextSequence
       /\ Keeps(imports, imports') /\ Keeps(revisions, revisions')
       /\ Keeps(events, events')
       /\ \A k \in DOMAIN members :
            /\ k \in DOMAIN members'
            /\ members'[k].first = members[k].first /\ members'[k].rev >= members[k].rev
       /\ \A s \in DOMAIN bindings :
            /\ s \in DOMAIN bindings'
            /\ bindings[s].lastImport # None => bindings'[s].lastImport # None]_vars

ImportOf(g) == CHOOSE i \in DOMAIN imports : imports[i].committed = g

\* The tables keep the promise of module ImportLedger: whatever callers lose,
\* repeat or race for, each import enters the history once, and the outbox
\* receives exactly the differences it makes, in plan order.
Ledger == INSTANCE ImportLedger WITH
    active  <- IF \E s \in DOMAIN bindings : IsActive(s)
               THEN CHOOSE s \in DOMAIN bindings : IsActive(s) ELSE None,
    retired <- {s \in DOMAIN bindings : ~IsActive(s)},
    history <- [g \in 1..generation |->
                    LET imp == imports[ImportOf(g)]
                    IN  [import |-> imp.import, source |-> imp.source,
                         rows |-> imp.file]],
    feed    <- [q \in 1..(nextSequence - 1) |->
                    [id |-> events[q].id, sheet |-> events[q].sheet,
                     hash |-> events[q].hash, source |-> events[q].source]]

LedgerSpec == Ledger!Spec

\* persistence/README.md says that an exact retry of a committed import with a
\* matching digest returns REPLAYED.
ExactRetryReplays ==
    [][\A c \in Client : pc[c] = "writing" /\ pc'[c] = "answered"
            /\ request[c].import \in DOMAIN imports
            /\ imports[request[c].import].digest = request[c]
            => reply'[c] \notin Refusals \ {"STORAGE_FAILURE"}]_vars
=============================================================================
