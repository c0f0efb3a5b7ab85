# Formal models of the accounting bot

The accounting bot turns an accountant's Excel workbook into a durable, ordered feed of
changes. A local agent watches the workbook, waits until a save has settled, takes a
private stable copy, reads and validates it, compares it with what was imported before, and
commits the differences to a local SQLite store with an outbox for the server.

This directory holds TLA+ modules of the parts of that path where order, failure and
repetition matter, TLC configurations that check them on small instances, and proofs that
TLAPS checks for every value of the constants. `PROJECT.json` maps each definition to the
source lines it models.

Abbreviations for source files below: *store* is
`packages/persistence/.../source_import_store.py`, *plan* and *projection* are
`packages/contracts/.../source_change_plan.py` and `source_identity_projection.py`, and
*coordinator*, *runtime*, *snapshot* are `apps/local_agent/.../save_import_coordinator.py`,
`source_watch_runtime.py` and `xlsx_snapshot_acquisition.py`; *identity* and *reader* are
`xlsx_source_identity.py` and `xlsx_source_reader.py` beside them.

## 1. The system

```
  Excel saves ──> watchdog observer ──(adapter)──> SaveImportCoordinator
                     2 threads                        ^  take_due / finish
                                                      |
                  SourceWatchRuntime.run  ── driver ──┘
                                              |
                                   open_stable_xlsx_snapshot  (lease)
                                              |  identify, read
                                        consumer callback
                              - - - - - - - - | - - - - - - -   documented, not in the code
                                   builder -> planner -> commit_source_import -> outbox
```

The arrow below the dashed line (ADR-0026, WP-18: the bridge from a delivered read to an
import) is documented but does not exist in the source, so the watch half and the store half
are modelled separately and nothing here speaks of the whole way.

| Component | State it keeps | Operations | What is hard | What makes it correct |
|---|---|---|---|---|
| Local import store (*store*) | seven tables of schema version 1: meta (generation, next sequence), bindings, imports, their per-sheet counts, revisions, memberships, change events | initialise, read, commit (with replay), receipts | callers plan outside the write transaction; lost replies and retries; failures inside a transaction; a reader so strict that one bad row disables the store | one commit per import identity; no import against a stale generation; the reader accepts everything the writer writes; the outbox is exactly the differences |
| Change planner (*plan*) | none | compare a snapshot with the prior registry | reactivation, voids, ordering | see the store: the feed rebuilds the workbook |
| Identity projection (*projection*) and bindings | none | decide which known identities a snapshot is compared with | parties shared between years; an archived year's old revision | a party is never voided by a workbook that never had it; a row keeps its sheet, a transaction its workbook |
| Save coordinator (*coordinator*) | state, notice and due times, follow-up flag, active attempt, last clock | `notify`, `take_due`, `finish`, `resume_after_fault`; the drivers and their guard | notices during reads, failing clock, attempts given back twice | no save lost, one read at a time, reads a pause apart, faults keep the work |
| Watch runtime (*runtime*) | lifecycle state, stop and admission flags, first asynchronous error, running cycle | `run`, event adapter, `request_stop`, teardown | three kinds of thread, stop at any moment, start and teardown failing half way | a clean end leaves nothing behind; nothing is admitted after a stop; a stop ends the run; a save is read |
| Stable snapshot (*snapshot*) | files and a directory with ownership tokens, kinds of errors met | observe, copy, re-read, promote, lend, verify, clean up | Excel writes during the copy; clock too coarse to tell; other programs in the lease; every call may fail | what is lent existed; a wrong read is reported; cleanup removes only its own |
| Identity marker (*identity*) | stage, open archive, errors met | open, find the marker, read the sheets, close, leave the lease | each stage may fail, then the close, then the lease; the file may change under the open archive | a result or a rejection is about one save; what lets the watch go on has left nothing behind |
| Streaming reader (*reader*) | coverage, needed and loaded shared strings, rows read | resolve the package, discover, load strings twice, read | the first pass must know what the second will need; a formula below covers cells above | the same rows, and the same refusals, as a reader that has everything in memory |
| Raw contracts | none | tables | – | no column has two uses |
| Hashing, dates, codec, requiredness, fiscal evidence | none | pure functions of rows | many spellings of one value; the store keeps an old one | equal hash iff equal meaning; reports do not depend on spelling |
| Server API, worker, domain, reporting | — | empty scaffolds | — | — |

### Interactions

* The observer's dispatcher calls the adapter, which takes the runtime's lifecycle lock and,
  inside it, the coordinator's lock.
* The run thread takes the same two locks in the same order. It gives up the lifecycle lock
  before it calls the driver and before it calls the consumer.
* The driver calls the acquisition between `take_due` and `finish`, outside both locks.
* Callers of the store share the SQLite file and nothing else.
* The planner, the projection and the binding registry are called by the store's reader and
  writer inside a transaction; they keep no state.

## 2. Modules

| Module | Models | Checked by | Proved in |
|---|---|---|---|
| `SourceChangePlan` | planner and projection, as operators | the runs of `ImportStore` | – |
| `ImportStore` (extends it) | the store, its callers, the rollover | `store_*` | `ImportFeedProofs` (callers, tables and feed), `ImportReaderProofs` (the reader) |
| `ImportLedger` | abstract specification: a history of imports and a feed | `store_ledger` (refinement) | `ImportReaderProofs` |
| `SaveImportCoordinator` | the coordinator and any number of drivers | `coordinator` | `SaveImportCoordinatorProofs` |
| `SourceWatchRuntime` (instantiates it) | the run thread, the observer's threads, stop requests | `watch_*` | `SourceWatchRuntimeProofs` |
| `SnapshotAcquisition` | one use of `open_stable_xlsx_snapshot` against a saver and a visitor | `snapshot_*` | `SnapshotAcquisitionProofs` |
| `IdentifiedRead` (instantiates it) | `read_identified_xlsx_source` and the driver's verdict | `identified_read` | `IdentifiedReadProofs` |
| `RawContract` | the approved sheets and columns | an assumption, in the two runs below | – |
| `SourceReader` (extends it) | `_read_xlsx_from_zip`, and an abstract read to compare it with | `source_reader` | `SourceReaderProofs` |
| `RowValues` (extends it) | canonical values, source hash, payload codec, reports, over a history of imports | `row_values` | `RowValuesProofs` |

Modules whose name begins with `MC` only give TLC its instances. Definitions whose comment
begins with `Fault:` belong to no behaviour: each is the form a neighbouring definition would
have after a plausible mistake in the code, and shows that a property notices it.

### 2.1 ImportStore and SourceChangePlan

*State.* Every table is a function from its primary key to its row; `userVersion`,
`generation` and `nextSequence` are the pragma and the meta row. `writer` is SQLite's write
lock; `leftOpen` are the callers whose connection is still in a transaction although their call
is over. `pc`, `request`, `reply` and `receipt` are what each caller knows.

*Actions.* `FindEmpty` and `OpenExisting` are the first transaction of
`initialize_source_import_store`, which only reads. The second is `Begin` or `Busy`, then
`Create`, which finds the tables absent, or a rollback. A read and the planning that follows are
`Prepare`. A call of `commit_source_import` is `Reject` (requiredness, before any transaction), or
`RefuseNested` (the connection is in a transaction already), or `Begin` / `Busy`, followed by
exactly one of `Refuse`, `Replay`, `Commit`, `RollBack`, `RollBackRaises`. `Verdict` lists the
early returns in the order of the code: not active, conflict, stale, unreadable store, replay,
identity refusals, event coverage, constraint clashes, commit.

*A ROLLBACK that raises* (*store* 1101-1117). The handler tries once and puts both errors in an
`ExceptionGroup`. `RollBackRaises` leaves the transaction ended or open, as SQLite has it; when
it is open the write lock stays with that caller, every further call on its connection is
`RefuseNested`, and everybody else is `Busy`, until the connection is closed (`Disconnect`, which
is the caller's). `ReadRollBackRaises` is the same of a reading transaction. While one of
those is open, COMMIT of another connection may fail, depending on the journal mode; the model lets any COMMIT
succeed or fail.

Between BEGIN IMMEDIATE and COMMIT nobody else writes and nothing is visible, so all
statements of an import are the one step `Commit`; that a failure part way keeps nothing is
SQLite's rollback, which `RollBack` is. `Commit` may answer `UNKNOWN`: the caller dies or
sees an error after the commit took place, and knows no more than after `RollBack`.

`ReaderAccepts` is the reader with its cross-table checks, translated check by check. It is
part of the model's control, not only a property: commit and open are refused when it fails.

*Abstractions.* SHA-256 is injective, so a request is its own digest and a workbook is its own file
digest; an event UUID, which the payload contains, stands for the payload's hash. A row is a
sheet and a source hash; its financial date is a function of both. A UUID is a natural number
in byte order. The per-sheet counts of an import (`source_import_sheets`), which sum up the
workbook, are left out, with the statements that write and re-read them. Checks on the form of a column (lengths, hex digits, timestamps) are left out:
they hold of every value the writer's dataclasses admit.

*External.* `Prepare` and `Retry` are a caller's, and make two mistakes on purpose: presenting
event UUIDs of another import, and leaving some out. `Disconnect` is a caller that closes a connection on
which a transaction was left open, or dies. `Rollover` is the enrolment of the next
year's workbook. The source has no function for it; the model does what the SQL in the store's
tests does.

### 2.2 SaveImportCoordinator

Each method runs under the coordinator's lock and is one step. The clock is read once per
method; any reading not before the last is possible, up to `MaxClock`. A clock that fails
raises before anything is changed, which is no step except inside `finish`: there
`FinishRaises` and `ForceFault` are the driver's guard. `FinishAgain` gives an attempt back a
second time. `file`, `heard` and `handled` are history: the version of the workbook, the
version at the last accepted notice, the version the last concluded read saw.

`read_due_source` and `read_due_identified_source` differ in what they return and in nothing
the model sees.

### 2.3 SourceWatchRuntime

It instantiates the coordinator with one driver, the run thread, and conjoins its actions with
the runtime's own, so every coordinator step of this module is a coordinator step there.

A step is what a thread does while it holds the lifecycle lock, or outside it between two
calls. `rpc` is the run thread's place, from `ready` through start, announcement, loop, cycle and
delivery to teardown and `done`. `failure` is which of start, run and teardown error are set.
`polled` is the clock as the loop saw it: the driver reads it again, and it may not go back.

What a thread does under the lifecycle lock, calls of the coordinator under its own lock included,
is one step. The order of the two locks can therefore not be got wrong in the model. In the code
every thread takes the lifecycle lock first, the coordinator calls nothing back under its own,
and the joins are outside both. The joins are in the model.

Waiting on the condition has a timeout of at most a second and is followed by a fresh look at
everything. A waiting run thread is therefore a thread at the head of its loop, and a look that
finds nothing is a stutter.

*External.* watchdog's dispatcher and emitter. The native queue is a flag: events of one path
are interchangeable for the adapter. The dispatcher looks at its stop flag before every event.
Either thread may die at any moment (`WorkerDies`).

### 2.4 SnapshotAcquisition

*Source.* A file is a sequence of blocks and a modification time. Between any two system calls
of the acquisition the saver may overwrite or append a block, cut the file, rename another file
to the path (an inode may come back) or remove it. After each, the modification time may stay
as it was. The acquisition reads the source block by block, twice. It never sees versions: it
compares inode, size and modification time, the number of bytes, and the two digests.

*Lease.* The visitor is any other program that looks into the lease: it touches, spoils,
replaces or removes a file, puts one of its own there, or swaps the directory. Each entry of a directory is our
file as verified (`own`), with another modification time (`touched`), with other bytes
(`spoiled`), somebody else's (`foreign`), or `nothing`. Every system call may fail
(`CallFails`, `CleanupFails`).

*Cleanup.* `Take`, `Look`, `LookAgain`, `RemoveCaught` and `Restore` run for the candidate, the
final file and the directory in turn.

*Abstractions and what they exclude.*
* A block value is never written twice. The two passes compare bytes, so a saver that wrote
  other bytes and then, within the acquisition and in every affected place, the very bytes of before
  would leave no trace; that is outside the model.
* The private copy is one value and a pass over it is one step. The consumer reads it in one go.
* The candidate is a valid container or not, as a choice. The empty file is never one.
* Between `mkdir` and the opening of its descriptor the directory may be swapped; the
  acquisition then owns the directory it opened, and the properties say `dirToken`, not
  "the directory it made".
* Between the second look of the cleanup and the `unlink` a visitor may still come. `unlink` goes by the
  name, so the code can only narrow that interval: the model has this visitor, and
  `ForeignSurvives` is about everybody who came before the second look.
* The process does not die in the middle: ADR-0009 leaves orphaned leases to a startup recovery
  that is not in the code.
* Permissions, argument checks, the Windows handle calls and the nesting of exception groups are left out; `errors` is the set of kinds met.

### 2.5 IdentifiedRead

The module of 2.4 lends the copy to a consumer that reads it in one step. Here the consumer is
the identified read: it opens the copy as an archive (`OpenZip`), reads the marker (`ReadKey`),
the sheets (`ReadRows`) and closes (`CloseZip`), while saver and visitor go on between any two of
these. `LeaseStep` is every step of the lease that is not the consumer's. `raised` is what the
reader leaves the lease with; `Together` is what arrives at the driver and `Outcome` how
`read_due_identified_source` sorts it: by its class if it comes alone, else as a fault.

`seen` is history: whether bytes read through the handle were those of the snapshot. When the
name no longer leads to the file that was opened, nobody knows what has become of that file, and
both are possible.

A system call that fails while sheets are parsed comes out as an `OSError` or, when the parser's
handler caught it, as malformed XML (*reader* 1107, 1929). The second is a rejected
workbook to the driver, which is not retried until the next save. `RaisedBy` has both. As in 2.4 the visitor
never puts back what it took away or changed.

### 2.6 RawContract and SourceReader

A workbook is a package (part names, content types, relationships, declared sheets, parts that
cannot be parsed), a table of shared strings, and the rows of each worksheet in document order.
A row has a number and cells; a cell has its address, type, value and formula. `"broken"`
stands for whatever cannot be decoded, an index without a string is `"missing"`.

`Discover` is the first pass over one sheet: the rectangles of array formulas, merged per
column, and the strings needed for sure, or perhaps. `LoadStrings` loads the first kind.
`LoadMore` decides with them which rows are active and loads what else these need. The second
pass is `ReadHeader`, `SkipRow`, `ReadRow` and `EndSheet`, with the early returns in the guards.
Every refusal is an action of its own that ends the parse, and of its reason nothing is kept.

The abstract read (`IsReadable`, `Answer`) has all strings at hand, asks of every rectangle
whether it holds a cell, and looks at no row twice.

`ReaderAssumption` says which workbooks there are: `IsWorkbook` is what the parser can deliver,
whether the workbook is then accepted or not. Rows and strings may be any number. `Merged`, the
spans of a column joined from the first to the last, is a recursive function over `Sorted` spans.

*Abstractions.* XML: namespaces, rich text, escapes, comments, nested elements and the parser's
limits make a part or a cell broken or not. A cell type with blanks around it (`" s "`), which
the two passes treat differently, is not allowed by the schema of the file and not modelled. The code
sorts the spans of a column by their first row alone; the joined spans are the same in whichever
order those of one first row come.
Text is a few spellings, among them a blank. `IdentityOf` and `Valid` are the parsers of
identities and values, the latter modelled in 2.7.

### 2.7 RowValues

`source` is what the user wrote, `stored` the payload of each row's current version, `kept` the values it
was made of. `Import` is the planner's comparison of hashes: a row whose hash is equal keeps its
payload. A number is sign, coefficient and exponent, as `Decimal` has them, negative zero
included; `Canonical` is `canonicalize_value`, `EncodeScalar` and `DecodeScalar` the codec digit
by digit. `DateOf` and `NumberOf` say which texts are dates and numbers, with several spellings
of one; `WholeText` are the texts an amount in toman may be (`5` is, `5.` and `5.0` are not). Hashes are injective.

`ValuesAssumption` says what a row can be (`IsRow`): each field of its sheet has `None`, a text, an
int, which has only one zero, or a Decimal; a text that is a date has a year. Coefficients are
any naturals, exponents any integers. It does not ask that a row be valid: `Import` does.

## 3. What the runs check

| Run | Instance | Question |
|---|---|---|
| `store_history` | one caller, two sources, three import identities, seven workbooks over a party and a transaction, three generations | do all legal histories leave a readable store and a true feed? |
| `store_callers` | two callers, two identities, two workbooks, two generations | races between reading and committing, and to create the store; transactions a failed ROLLBACK leaves open |
| `store_ledger` | one caller, three identities, stray and forgotten event UUIDs | do the tables implement `ImportLedger`? |
| `store_retry_after_rollover` | one import | a documented promise the code does not keep, see 6 |
| `coordinator` | two drivers, pause 2, clock to 7, two saves | every interleaving of notices, polls, reads, faults |
| `watch_runtime` | pause 1, clock to 3, two saves | safety of the whole life of a runtime |
| `watch_liveness` | the same, one save, with fairness | does a stop end the run, is a save read? |
| `snapshot_source` | two inodes, two blocks, three writes | copies against a saver |
| `snapshot_lease` | one block, four troubles | lease and cleanup against a visitor and failing calls |
| `identified_read` | one block, one write, three troubles | what reaches the driver when the stages of a read fail |
| `source_reader` | 2686 workbooks of up to five rows in the first sheet | do two passes with partial knowledge read what one would? |
| `row_values` | a purchase in 30 spellings, a receipt in three, a party | do equal hashes mean equal rows, and old spellings equal reports? |

`store_history` checks `TypeOK` and:
* `StoreReadable` — the writer never writes what the reader refuses. The reader guards every
  later call, so one wrong row would disable the store for good.
* `FeedRebuildsWorkbook` — the last event of every row says what the active workbook says, and rows the source
  lost end with a void.
* `NoFalseVoid` — a void only follows an earlier import of the same source that held the row.
* `ChangeChain` — the events of one row are one chain over all imports and years: revisions
  without gap, each naming its predecessor, none repeating it.
* `IdentitiesStayHome` — no row ever changes sheet and no transaction changes workbook.
* `ArchivedFrozen` — an archived source is never touched again.

`store_callers`: `OneCommitPerImport`, `ReceiptIsOfMyRequest` (of a replay long after too),
`NoStaleImport`, and
* `NoSilentLock` — whoever writes has the lock, and past the end of a call the lock is held only
  on a connection whose owner was told of a failed ROLLBACK and is refused since;
* `StoreOnlyGrows` — no step takes back an import, a revision, an event, a number or a membership;
  above all not the second of two callers that both found the file empty, when the first has
  imported already.

`store_ledger`: `LedgerSpec`, the refinement.

`coordinator`: `NoLostSave`, `OneReadAtATime`, `QuietBeforeRead`, `FaultKeepsWork`.

`watch_runtime`: `StoppedIsClean`, `QuietMeansRead` (no save slips between start and initial
notice), `ResultReachesConsumer` (a stop does not take a result back, a fault does),
`FaultEndsRun`, `EndIsFinal`. `watch_liveness`: `StopEnds`, `SaveIsRead`.

`snapshot_source`: `SnapshotHappened` (what is lent was the whole file at one moment),
`BlameIsRight` (a save is never reported as anything but *not ready*, which the watch survives).
`snapshot_lease`: `WrongReadIsReported`, `SilentMeansGone`, `ForeignSurvives`.

`identified_read`: `VerdictIsOfOneSave` (what is delivered, and what is rejected for good, was
judged from one content the workbook had), `GoingOnMeansGone` (an outcome after which the watch
goes on left neither directory nor file behind, and is no interrupt in disguise).

`source_reader`: `ReadAgrees`, in both directions: accepted with the rows, values and places of the
abstract read, and once the package has been resolved refused only if that refuses (which packages
are refused, `Resolves`, is not judged); `OnlyNeededStrings`: the strings loaded are exactly
those the answer depends on, so that damage nobody looks at refuses no workbook.

`row_values`: `StoredMeansSource` (a payload gives back what it was made of to the last zero,
always decodes, and counts as unchanged exactly when the row means the same), `EvidenceAddsUp`
(requiredness and fiscal years of the stored rows, in their old spellings, are those of the workbook).

### Bounds, and why they are enough

* Store: two rows are the least that tell a party from a transaction and give the order of the
  plan something to sort; two hashes are the least that make an edit. Three generations reach
  insert, void and reactivate of one row, and import, rollover, import with the shared party. Seven
  workbooks contain each combination that the verdicts and plan actions distinguish, a
  misplaced row and an incomplete one among them. `store_callers` needs only two of them: its
  questions are about identities and generations, not rows.
* `MaxGeneration` stops callers from preparing requests beyond it; it stops no call under way.
  Imports are symmetric, since nothing compares their identities but by equality.
* Coordinator: two drivers are the least that could read at once. A clock to 7 with pause 2
  has room for three pauses: a read, its retry and a follow-up. Two saves allow one before and
  one during a read.
* Runtime: pause 1 and clock to 3 for the same three pauses. Two saves: one may be missed at
  the start, one may fall into the read of the first.
* Snapshot: two blocks are the least that can be torn; two inodes the least for replacing and
  coming back; with three writes one can fall before, one into and one after the first pass.
  Four troubles allow, for one file, to spoil it, to defeat the cleanup and two failures more.
  The two runs separate the saver from the visitor, because the private copy shares nothing
  with the source once the last observation is made.

* Identified read: one block and one write, since tearing is the matter of `snapshot_source`.
  Three troubles: a stage, the close and the cleanup may fail in one attempt, or the visitor
  may spoil the file, defeat the verification and defeat the cleanup.
* Reader: the first sheet varies in full (two rows below the header in every combination of
  literal, shared, blank, missing, damaged and covered cells), the others only where sheets meet: a
  package that leads to the wrong part, an identity that occurs twice. Four rows are enough for
  a span within a span, spans that touch, and a row below both.
* Row values: one row of each kind of sheet the reports tell apart. The purchase has a field of
  every kind; its spellings are the zeros, signs, exponents and digits in which equal values differ, and
  values that are no value of their kind.

`Done`, `Ended` and `Terminated` are the ends of an acquisition, a read and a runtime. No configuration turns
deadlock checking off.

### Fairness

Only `watch_liveness` assumes fairness:
* weak fairness of the run thread's own steps: the operating system schedules it, and the
  acquisition and the consumer return. A consumer that never returns stops the watch, as in the
  code;
* weak fairness of the dispatcher taking an event and finishing a callback;
* weak fairness of an observer thread ending once it was told to.

Nobody is obliged to call `run`, to save or to stop, and no failure is obliged to happen.
`StopEnds` excludes runs in which tearing down the observer raised (ADR-0011 gives shutdown no
time limit: a join may then wait for a thread nobody told to stop). `SaveIsRead` holds while
the watch goes on; `OutOfTime` names the only way in which the bound on the clock, rather than
the code, ends a chain of retries.

## 4. What is proved

The proofs hold for every value of the constants, under the named assumptions of the modules
(`PlanAssumption`, `StoreAssumption`, `CoordinatorAssumption`, `RuntimeAssumption`,
`SnapshotAssumption`, `ReadAssumption`, `ContractAssumption`, `ReaderAssumption`,
`ValuesAssumption`): sizes are naturals, the pause and the longest workbook are not zero, `None` is
none of the values it stands beside, no column of the contract has two uses, and workbooks, rows and
values have the form of 2.6 and 2.7. Each proof module states first
the invariant, then a lemma per group of steps, then the theorems.

| Theorems | Of which definitions |
|---|---|
| `ImportFeedProofs` | `NoSilentLock`, `StoreOnlyGrows`, `NoStaleImport`, `ReceiptIsOfMyRequest`, `OneCommitPerImport`, `ArchivedFrozen`, and that the history is contiguous; `TypeOK`, `FeedRebuildsWorkbook`, `NoFalseVoid`, `ChangeChain`, `IdentitiesStayHome` |
| `ImportReaderProofs` | `StoreReadable`, `LedgerSpec` |
| `SaveImportCoordinatorProofs` | `TypeOK`, `NoLostSave`, `OneReadAtATime`, `FaultKeepsWork`, `QuietBeforeRead` |
| `SourceWatchRuntimeProofs` | `SaveCoordinator!Spec`, `TypeOK`, `StoppedIsClean`, `QuietMeansRead`, `ResultReachesConsumer`, `FaultEndsRun`, `NoCycleAfterStop`, `EndIsFinal` |
| `SnapshotAcquisitionProofs` | `SnapshotHappened`, `WrongReadIsReported`, `SilentMeansGone`, `ForeignSurvives`, `BlameIsRight`, `TypeOK` |
| `IdentifiedReadProofs` | `VerdictIsOfOneSave`, `GoingOnMeansGone`, `TypeOK` |
| `SourceReaderProofs` | `ReadAgrees`, `OnlyNeededStrings`, `TypeOK` |
| `RowValuesProofs` | `StoredMeansSource`, `EvidenceAddsUp`; `CanonicalNumbers`, `ScalarRoundTrip` |

### Coordinator

For any number of drivers, any pause, any clock. None of the properties is inductive alone.
`IInv` adds
* `ViewInv`, what each state says of the due time and the notice;
* `TokenInv`, that the driver at work holds the active attempt and that token numbers are
  unique. Without uniqueness an old token could end somebody else's read;
* `TimeInv`, that due times lie a pause after the last notice *and* after every attempt taken
  so far. `finish` computes the due time after a follow-up from the notice alone, so the
  proof needs the fact that such a notice is not older than the attempt;
* `SaveInv`, that the read under way will see what was last heard of, unless a follow-up is noted.

### Runtime

`ImplementsCoordinator`: every step of the runtime is a step of the coordinator with one driver
or leaves it alone. The coordinator's lemmas are used as they stand, by instantiation, and the
runtime's `IInv` contains the coordinator's. It adds `LifeInv` (phase, flags and the place of
the run thread), `CycleInv` (the driver works only inside a cycle), `ObserverInv` (no thread
before the start, none after a teardown that did not fail) and `WatchInv`: while both threads
watch and admission is open, a save not yet heard of is in the queue or in a callback. The last,
with the coordinator's `NoLostSave`, is `QuietMeansRead`.

### Store: callers

For any number of callers, sources, identities and workbooks. COMMITTED is reached only if the
identity is in no row, and nothing else writes the table, so rows are never overwritten
(`CommitAddsRow`); a receipt is therefore always the stored row of the caller's request.
`CallerInv` ties the lock to the program counters, `ReplyInv` ties a COMMITTED reply to a row,
`HistoryInv` numbers the rows.

`LockIsAccountedFor` is `NoSilentLock`. It needs `LockInv`: nobody on a connection left open is
inside a call, and a caller whose lock was left behind cannot come to a place where its reply is
replaced by one that hides it. `NothingIsTakenBack` is `StoreOnlyGrows`: of the three actions that write
tables, `Create` finds them absent and then everything is empty, `Commit` writes under keys no row has, or
raises a revision (from the invariants of the tables, below), and `Rollover` only archives.

### Store: tables and feed

`FeedInv` says how the tables belong together: sequence numbers have no gap (`SequenceInv`), an
event and its revision say the same (`EventInv`), every revision was announced and the last one
of a row is what some source points at (`RevisionInv`), in order (`OrderInv`), memberships are of
rows an import of the source held (`MemberInv`, `FileInv`), and the heads of the active source
are its last workbook (`LiveInv`). Two lemmas carry the commit:
* `PositionsNumber`: the changed rows, in plan order, get the positions 0, 1, ..., each once. It
  is an argument about cardinalities of finite sets, since the model counts predecessors;
* `PriorSays`: the state a snapshot is compared with is the last revisions of the rows the
  active source knows *and* of the parties other years know. From it come `NoFalseVoid`
  (only a row of the own registry can be voided) and the chain over year ends.

### Store: the reader

`StoreReadable` is proved check by check: the reader's conjuncts are each shown after a commit,
a creation and a rollover, on top of `AllInv` (all of the above) and `HeadInv`, `MintedInv`,
`VoidInv`. The property is a guard of the model as well: a commit is refused when the store is
unreadable. The theorem shows that this never happens.

### The ledger

`ImplementsLedger`: the store implements `ImportLedger` under the mapping of `ImportStore`. The
last word of the ledger on a row is the row's last revision (`LastWordSays`); the plan of an
admitted request is then the ledger's `Differences` (`CommitMakesDifferences`), its refusals imply
`Admissible` (`CommitIsAdmissible`), and the events follow the earlier ones in plan order
(`NewsComeInOrder`, `CommitAppendsNews`). Registration and rollover are `Enrol`, everything else,
replays and refusals included, is a stutter.

### Snapshot

*The copy.* What is lent was the whole workbook at one moment after the second observation, for
any length, any number of saves and replacements, and with modification times that never
change. The argument does not use time at all. A block that has left its place in the workbook
stays away (`GoneStaysGone`). At the end of the first pass either the copy equals the workbook
of that instant, or one of its blocks has left its place; call it betrayed. It stays betrayed,
so the second pass finds another block there and the digests differ. `DetachedInv` covers the
handle that goes on reading a file that was replaced at its path: nothing of that file is left
in the workbook.

*The lease.* For any number of visits and failing calls. `GoneInv`: while no cleanup error is
recorded, quarantine holds at most the one thing the cleanup is at. `ReadInv`: a wrong read is
recorded, or the copy is not intact and the lease not yet verified. `SpoiltStays`: nobody makes
a spoilt copy intact again, so the last look must find it. `RemoveInv`: what was looked at last
is what is removed, unless somebody came since.

*Blame.* `NamesInv`, `DirectoryInv` and `MildInv` follow an undisturbed lease step by step; they
hold as long as neither a visitor nor a failing call occurred, whatever the saver does.
`QuietInv` says that with no save both passes are beginnings of the same sequence.

### Identified read

The reader changes nothing of the lease but its budget (`ReadingIsBeside`), so the invariants
of the lease hold inside it, by instantiation. `SeenInv` ties what the reader saw to the lease:
bytes that are not the snapshot's mean a copy that is not intact or an integrity error. `KeptInv`:
while nobody but the reader failed, what was lent is a content the workbook had.

### Reader of the workbook

For any workbook, with any number of rows, strings and spans.
* *Spans.* Merging the sorted spans of a column keeps what they cover together, by induction
  over the spans. The last merged span that begins above a cell then decides alone whether some
  rectangle covers it.
* *Strings.* In a workbook that can be read, what the first pass asks for and what the second
  load adds are together what the answer depends on: a row is active by a literal, or by a
  string that was loaded first. This is `OnlyNeededStrings`.
* *Values.* With some of the strings a value is the right one or a bad one, never another. So what the
  second pass accepts is what is meant, of any workbook; and where it stops, the workbook
  cannot be read, since with the strings in use every value it asks for is the right one.

The invariant has a part per phase: `OpenInv`, `DiscoverInv` (the sheets gone over have what the
first pass should find), `StringsInv`, `RowsInv` (the rows before this one are in their places
and delivered), `FreshInv` (under identities that are all different), `EndInv`; `Shape` types them.

### Row values

For any texts, dates and numbers. `CanonicalNumbers`: a canonical form has no zero to spare, and at a
common scale numbers are compared as integers, so there is one form per number. `ScalarRoundTrip`:
digits are read as they were spelled, by induction over the number. The invariant says that a payload is
of a valid row, kept since, and that after an import `source` and `kept` hash alike.
`StoredMeansSource` is then field by field; for `EvidenceAddsUp`, what hashes alike is
alike for both reports, and the sum over the years is by induction on their number.

### Induction

The library's induction theorems take an operator as a parameter, which no installed prover can
instantiate. Both proof modules of the data path prove their own instead: a set of naturals that is
not empty has a least member (`LeastNat`, from the library's theorem that inclusion of finite
sets is well-founded), and the numbers for which a fact is wrong are such a set.

### Only model-checked

* Liveness (`StopEnds`, `SaveIsRead`): outside what TLAPS 1.4 can do.
* `RawContract` is a table: TLC evaluates that it fulfils `ContractAssumption`, the proofs use that it does.
* `ExactRetryReplays`, which does not hold.

Every other property of the runs is proved. `NoCycleAfterStop` (a stop or a fault that comes before the
admission of a cycle prevents it) is proved and in no run.

## 5. Hazards

`PROJECT.json` lists what in this code is hard to test, each at its line. Four of them no
property covers:
* a teardown whose `observer.stop` raised before it told anybody (no time limit promised);
* the process dying inside a lease (no recovery in the code);
* a visitor after the second look of the cleanup, and a lease directory that is swapped before it is opened: the
  model has both, the code cannot notice either, see 2.4.

The order of the lifecycle lock and the coordinator's is not among them, see 2.3.

## 6. A disagreement between code and documents

`store_retry_after_rollover` shows that after a source has been archived, the exact retry of an
import that was committed but whose reply was lost is refused with `SOURCE_NOT_ACTIVE`: the
source is resolved (*store* line 2129) before the import identity is looked up (line 2135).
`packages/persistence/README.md` line 22 and ADR-0018 lines 219-222 promise a replay. WP-18
does describe the precedence the code has, so the documents disagree among themselves.
No data is lost: the import is in the store, but this caller cannot learn it by its retry.

## 7. Plan

Done:
1. `SourceChangePlan`, `ImportStore`, `ImportLedger`: the store, its refinement, the caller-side theorems.
2. `SaveImportCoordinator` and its theorems.
3. `SourceWatchRuntime` with liveness.
4. `SnapshotAcquisition` and the theorem about the copy.
5. `IdentifiedRead`, on top of the lease.
6. `RawContract`, `SourceReader`, `RowValues`: the data path from cells to stored payloads.
7. The theorems of runtime, lease, identified read, feed and reader, and the refinement of the ledger.

8. The theorems of the data path: `SourceReaderProofs` and `RowValuesProofs`.

Next: the end-to-end pipeline, once the bridge of ADR-0026 is in the source.

### Not modelled

Reader: what makes XML malformed, see 2.6. Store: per-sheet counts and column formats. Registry
and planner: validation of dataclasses that the callers in the source never violate. The digests
of a sheet and a workbook (sorted pairs of identity and hash) are injective by assumption.

Also not planned: generated schema details and column formats (checked by SQLite itself and without
control), the empty scaffolds, development scripts, and startup recovery, which does not exist.
