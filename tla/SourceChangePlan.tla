-------------------------- MODULE SourceChangePlan --------------------------
(***************************************************************************)
(* The pure functions that turn a workbook snapshot and the identities     *)
(* already known into a change plan:                                       *)
(*   - packages/contracts source_identity_projection.py, which decides     *)
(*     which known identities a snapshot of one source is compared with;   *)
(*   - packages/contracts source_change_plan.py, which compares them.      *)
(*                                                                         *)
(* A row UUID is a natural number (its byte order), a sheet is its index   *)
(* in the registry of approved sheets, and a source hash stands for the    *)
(* row's raw content.  A snapshot is a function from the row UUIDs present *)
(* to their rows, which is what the builder's uniqueness checks leave of a *)
(* workbook.                                                               *)
(***************************************************************************)
EXTENDS Integers, FiniteSets

CONSTANTS
    StableId,     \* row UUIDs, by byte order
    Sheet,        \* approved sheets, by registry order
    PartySheet,   \* the sheet of business parties, shared between sources
    Hash,         \* source hashes of rows
    None          \* the null of a column that may be empty

ASSUME PlanAssumption ==
    /\ IsFiniteSet(StableId) /\ StableId \subseteq Nat
    /\ Sheet \subseteq Nat /\ PartySheet \in Sheet
    /\ None \notin Hash

Row == [sheet : Sheet, hash : Hash]

Snapshot == UNION {[ids -> Row] : ids \in SUBSET StableId}

Lifecycle == {"active", "voided"}

\* PriorIdentityState: an identity as a membership of one source sees it.
Identity == [sheet : Sheet, rev : Nat \ {0},
             lifecycle : Lifecycle, hash : Hash \cup {None}]

Registry == UNION {[ids -> Identity] : ids \in SUBSET StableId}

-----------------------------------------------------------------------------
(* The plan: one action per row, from the snapshot and the prior registry. *)

Inserted(rows, prior) == DOMAIN rows \ DOMAIN prior

Unchanged(rows, prior) ==
    {id \in DOMAIN rows \cap DOMAIN prior :
        prior[id].lifecycle = "active" /\ prior[id].hash = rows[id].hash}

\* Fault: a row that comes back after its void is not noticed.
EditedWithoutReactivation(rows, prior) ==
    {id \in (DOMAIN rows \cap DOMAIN prior) \ Unchanged(rows, prior) :
        prior[id].lifecycle = "active"}

\* A new hash of a live row, or any row of a voided one (a reactivation).
Edited(rows, prior) ==
    (DOMAIN rows \cap DOMAIN prior) \ Unchanged(rows, prior)

\* A live identity absent from the snapshot; a voided one stays settled.
Voided(rows, prior) ==
    {id \in DOMAIN prior \ DOMAIN rows : prior[id].lifecycle = "active"}

Changed(rows, prior) ==
    Inserted(rows, prior) \cup Edited(rows, prior) \cup Voided(rows, prior)

PlannedRevision(prior, id) ==
    IF id \in DOMAIN prior THEN prior[id].rev + 1 ELSE 1

ItemSheet(rows, prior, id) ==
    IF id \in DOMAIN rows THEN rows[id].sheet ELSE prior[id].sheet

\* Fault: the sort key forgets the sheet.
PrecedesById(rows, prior, a, b) == a < b

\* Items are sorted by sheet order, then by UUID bytes.
Precedes(rows, prior, a, b) ==
    LET sheetA == ItemSheet(rows, prior, a)
        sheetB == ItemSheet(rows, prior, b)
    IN  sheetA < sheetB \/ (sheetA = sheetB /\ a < b)

\* How many changed items come before id in the sorted plan.
Position(rows, prior, id) ==
    Cardinality({other \in Changed(rows, prior) :
                    Precedes(rows, prior, other, id)})

-----------------------------------------------------------------------------
(* The projection: `registries' maps every registered source to the        *)
(* identities its memberships point at.                                    *)

Holders(registries, id) ==
    {s \in DOMAIN registries : id \in DOMAIN registries[s]}

Known(registries) == UNION {DOMAIN registries[s] : s \in DOMAIN registries}

\* The latest state of an identity over all sources.
GlobalHead(registries, id) ==
    CHOOSE state \in {registries[s][id] : s \in Holders(registries, id)} :
        \A s \in Holders(registries, id) : registries[s][id].rev <= state.rev

\* SourceIdentityCatalog refuses registries that disagree: an identity has one
\* sheet, a transaction one source, a revision one state, and the active
\* source sees the latest state of all it holds.
CatalogConsistent(registries, active) ==
    \A s, t \in DOMAIN registries :
        \A id \in DOMAIN registries[s] \cap DOMAIN registries[t] :
            LET mine == registries[s][id]
                other == registries[t][id]
            IN  /\ mine.sheet = other.sheet
                /\ mine.sheet # PartySheet => s = t
                /\ mine.rev = other.rev => mine = other
                /\ s \in active => other.rev <= mine.rev

\* IDENTITY_RELOCATION: a known identity turns up in another sheet.
Relocates(rows, registries) ==
    \E id \in DOMAIN rows \cap Known(registries) :
        GlobalHead(registries, id).sheet # rows[id].sheet

\* Fault: only registration is looked at, not which source holds the row.
TakesUnknownOnly(source, rows, registries) ==
    \E id \in DOMAIN rows \cap Known(registries) : Holders(registries, id) = {}

\* TRANSACTION_SOURCE_CONFLICT: a transaction of another source turns up.
TakesTransaction(source, rows, registries) ==
    \E id \in DOMAIN rows \cap Known(registries) :
        /\ GlobalHead(registries, id).sheet # PartySheet
        /\ Holders(registries, id) # {source}

\* Fault: every party known anywhere is compared with the snapshot.
BorrowedAll(source, rows, registries) ==
    Known(registries) \ DOMAIN registries[source]

\* Parties of other sources are compared with their latest state, but only
\* when the snapshot holds them: an absent one is nobody's to void.
Borrowed(source, rows, registries) ==
    (DOMAIN rows \cap Known(registries)) \ DOMAIN registries[source]

ProjectSourcePrior(source, rows, registries) ==
    [id \in DOMAIN registries[source] \cup Borrowed(source, rows, registries) |->
        IF id \in DOMAIN registries[source]
        THEN registries[source][id]
        ELSE GlobalHead(registries, id)]
=============================================================================
