-------------------------- MODULE ImportReaderProofs --------------------------
(***************************************************************************)
(* Reading the store back never fails: what the reader checks when it      *)
(* loads the head of a source holds whatever was written, by whoever, in   *)
(* any order that the store let through.                                   *)
(*                                                                         *)
(* The argument adds to AllInv what a later read depends on: every import  *)
(* left its mark on its binding (HeadInv), a request mints one event per   *)
(* row it changes (MintedInv), and a voided revision follows a live one    *)
(* (VoidInv). Under these a commit that was admitted writes over nothing,  *)
(* and each conjunct of the reader's checks survives it.                   *)
(*                                                                         *)
(* The store implements the ledger: a feed to which imports are appended   *)
(* one after the other, each as the difference between the workbook and    *)
(* the last word on its rows.                                              *)
(*                                                                         *)
(* The argument: the feed of the ledger is the outbox, its history the     *)
(* imports by their generations. A commit finds the last word on a row     *)
(* where the row's last revision is (LastWordSays), so the plan of the     *)
(* request is the difference of the ledger (CommitMakesDifferences), and   *)
(* the events come in the order of the plan, behind all earlier ones       *)
(* (NewsComeInOrder, CommitAppendsNews). Registering and succeeding enrol  *)
(* a source; every other step of the store leaves the ledger alone.        *)
(***************************************************************************)
EXTENDS ImportFeedProofs, SequenceTheorems

\* Imports are finitely many, and every one of them left its mark on the
\* binding of its source.
HeadInv ==
    /\ IsFiniteSet(DOMAIN imports)
    /\ \A i \in DOMAIN imports :
        /\ imports[i].import = i
        /\ imports[i].source \in DOMAIN bindings
        /\ bindings[imports[i].source].lastImport # None

\* The event UUIDs of one request name one row each.
MintedInv ==
    \A c \in Client : (request[c] # None \/ pc[c] \in {"sent", "writing"}) =>
        \A id \in DOMAIN request[c].events : request[c].events[id][2] = id

\* A void follows a live revision.
VoidInv ==
    \A k \in DOMAIN revisions : revisions[k].lifecycle = "voided" =>
        /\ <<k[1], k[2] - 1>> \in DOMAIN revisions
        /\ revisions[<<k[1], k[2] - 1>>].lifecycle = "active"

Records == AllInv /\ HeadInv /\ MintedInv /\ VoidInv

-----------------------------------------------------------------------------
(* What a commit finds and leaves. *)

LEMMA FoundReadable ==
    ASSUME Records, NEW r, Commits(r)
    PROVE  Tables /\ ReaderAccepts /\ ~WriteClashes(r, Was(r)) /\ DOMAIN r.events = Changes(r)
  <1>1. Tables
    BY DEF Records, AllInv
  <1>2. Verdict(r) = "COMMITTED"
    BY <1>1, CommittedRequest
  <1> QED
    BY <1>1, <1>2, CommittedMeans

\* In the first import everything is still empty.
LEMMA FoundImports ==
    ASSUME Records, NEW r, Commits(r)
    PROVE  /\ Cardinality(DOMAIN imports) = generation
           /\ \A i \in DOMAIN imports :
                LET imp == imports[i]
                    count == imp.inserted + imp.edited + imp.voided
                IN  /\ imp.source \in DOMAIN bindings
                    /\ imp.total = imp.inserted + imp.edited + imp.unchanged
                    /\ IF count = 0 THEN imp.first = 0 /\ imp.last = 0
                       ELSE imp.first > 0 /\ imp.last = imp.first + count - 1
                    /\ EventsOf(i) \in {{}, imp.first..imp.last}
                    /\ \A q \in EventsOf(i) : events[q].source = imp.source
           /\ \A p, q \in DOMAIN events : events[p].event = events[q].event => p = q
  <1>1. ReaderAccepts
    BY FoundReadable
  <1>2. CASE generation = 0
    <2>1. DOMAIN imports = {} /\ DOMAIN events = {}
      BY <1>1, <1>2 DEF ReaderAccepts
    <2>2. Cardinality(DOMAIN imports) = 0
      BY <2>1, FS_EmptySet
    <2> QED
      BY <1>2, <2>1, <2>2
  <1>3. CASE generation # 0
    BY <1>1, <1>3 DEF ReaderAccepts, ImportsReadable, EventsReadable
  <1> QED
    BY <1>2, <1>3

\* The counts of a plan add up.
LEMMA PlanCounts ==
    ASSUME Tables, NEW r, Commits(r)
    PROVE  LET inserted == Cardinality(Inserted(r.rows, Was(r)))
               edited == Cardinality(Edited(r.rows, Was(r)))
               voided == Cardinality(Voided(r.rows, Was(r)))
               unchanged == Cardinality(Unchanged(r.rows, Was(r)))
           IN  /\ inserted \in Nat /\ edited \in Nat /\ voided \in Nat /\ unchanged \in Nat
               /\ Cardinality(DOMAIN r.rows) = inserted + edited + unchanged
               /\ Cardinality(Changes(r)) = inserted + edited + voided
  <1> DEFINE I == Inserted(r.rows, Was(r))
             E == Edited(r.rows, Was(r))
             V == Voided(r.rows, Was(r))
             U == Unchanged(r.rows, Was(r))
  <1>1. DOMAIN r.rows \in SUBSET StableId /\ DOMAIN Was(r) \in SUBSET StableId
    BY CommittedPlan
  <1>2. \A S \in SUBSET StableId : IsFiniteSet(S) /\ Cardinality(S) \in Nat
    BY PlanAssumption, FS_Subset, FS_CardinalityType
  <1>3. I \in SUBSET StableId /\ E \in SUBSET StableId /\ V \in SUBSET StableId
        /\ U \in SUBSET StableId
    BY <1>1 DEF Inserted, Edited, Voided, Unchanged
  <1>4. /\ I \cap E = {} /\ (I \cup E) \cap V = {} /\ (I \cup E) \cap U = {}
        /\ Changes(r) = (I \cup E) \cup V /\ DOMAIN r.rows = (I \cup E) \cup U
    BY DEF Inserted, Edited, Voided, Unchanged, Changes, Changed
  <1> HIDE DEF I, E, V, U
  <1>5. I \cup E \in SUBSET StableId
    BY <1>3
  <1>6. \A S, T \in SUBSET StableId :
          S \cap T = {} => Cardinality(S \cup T) = Cardinality(S) + Cardinality(T)
    <2> SUFFICES ASSUME NEW S \in SUBSET StableId, NEW T \in SUBSET StableId, S \cap T = {}
                 PROVE  Cardinality(S \cup T) = Cardinality(S) + Cardinality(T)
      OBVIOUS
    <2>1. Cardinality(S \cup T) = Cardinality(S) + Cardinality(T) - Cardinality(S \cap T)
      BY <1>2, FS_Union
    <2>2. Cardinality(S \cap T) = 0
      BY FS_EmptySet
    <2> QED
      BY <1>2, <2>1, <2>2
  <1>7. /\ Cardinality(I \cup E) = Cardinality(I) + Cardinality(E)
        /\ Cardinality(Changes(r)) = Cardinality(I \cup E) + Cardinality(V)
        /\ Cardinality(DOMAIN r.rows) = Cardinality(I \cup E) + Cardinality(U)
    BY <1>3, <1>4, <1>5, <1>6
  <1>8. /\ Cardinality(I) \in Nat /\ Cardinality(E) \in Nat /\ Cardinality(V) \in Nat
        /\ Cardinality(U) \in Nat
    BY <1>2, <1>3
  <1> QED
    BY <1>7, <1>8 DEF I, E, V, U

\* The imports after a commit: finitely many, and one more.
LEMMA LeavesImports ==
    ASSUME Records, NEW r, Commits(r)
    PROVE  /\ IsFiniteSet(DOMAIN imports')
           /\ Cardinality(DOMAIN imports') = generation + 1
  <1>1. Cardinality(DOMAIN imports) = generation /\ IsFiniteSet(DOMAIN imports)
    BY FoundImports DEF Records, HeadInv
  <1>2. r.import \notin DOMAIN imports /\ DOMAIN imports' = DOMAIN imports \cup {r.import}
    BY FoundReadable, CommitImports
  <1> QED
    BY <1>1, <1>2, FS_AddElement

\* The events of an import, after the commit.
LEMMA LeavesEventsOf ==
    ASSUME Records, NEW r, Commits(r)
    PROVE  /\ \A i \in DOMAIN imports : EventsOf(i)' = EventsOf(i)
           /\ EventsOf(r.import)' = nextSequence..(nextSequence' - 1)
  <1>1. /\ DOMAIN events = 1..(nextSequence - 1) /\ DOMAIN events' = 1..(nextSequence' - 1)
        /\ nextSequence \in Nat \ {0} /\ nextSequence' \in Nat \ {0}
        /\ nextSequence <= nextSequence'
        /\ \A q \in DOMAIN events : q \in DOMAIN events' /\ events'[q] = events[q]
        /\ \A q \in DOMAIN events' \ DOMAIN events : \E id \in Changes(r) : q = Slot(r, id)
    BY FoundReadable, CommitEvents
  <1>2. \A id \in Changes(r) : events'[Slot(r, id)].import = r.import
    BY FoundReadable, NewEventSays
  <1>3. r.import \notin DOMAIN imports
    BY FoundReadable, CommitImports
  <1>4. \A q \in DOMAIN events : events[q].import \in DOMAIN imports
    BY FoundReadable DEF Tables, FeedInv, EventInv
  <1>5. \A q \in DOMAIN events' \ DOMAIN events : events'[q].import = r.import
    BY <1>1, <1>2
  <1>6. DOMAIN events' \ DOMAIN events = nextSequence..(nextSequence' - 1)
    BY <1>1
  <1>7. ASSUME NEW i \in DOMAIN imports PROVE EventsOf(i)' = EventsOf(i)
    <2>1. EventsOf(i)' = {q \in DOMAIN events' : events'[q].import = i}
      BY DEF EventsOf
    <2> QED
      BY <1>1, <1>3, <1>5, <2>1 DEF EventsOf
  <1>8. {q \in DOMAIN events' : events'[q].import = r.import} = DOMAIN events' \ DOMAIN events
    BY <1>1, <1>3, <1>4, <1>5
  <1> QED
    BY <1>6, <1>7, <1>8 DEF EventsOf

LEMMA CommitKeepsImportsReadable ==
    ASSUME Records, HistoryInv', NEW r, Commits(r)
    PROVE  ImportsReadable'
  <1> DEFINE Fine(i) ==
        LET imp == imports'[i]
            count == imp.inserted + imp.edited + imp.voided
        IN  /\ imp.committed = imp.base + 1
            /\ imp.source \in DOMAIN bindings'
            /\ imp.total = imp.inserted + imp.edited + imp.unchanged
            /\ IF count = 0 THEN imp.first = 0 /\ imp.last = 0
               ELSE imp.first > 0 /\ imp.last = imp.first + count - 1
            /\ EventsOf(i)' \in {{}, imp.first..imp.last}
            /\ \A q \in EventsOf(i)' : events'[q].source = imp.source
  <1>1. /\ DOMAIN imports' = DOMAIN imports \cup {r.import}
        /\ \A i \in DOMAIN imports : imports'[i] = imports[i]
        /\ imports'[r.import] = NewImport(r, Was(r))
        /\ imports'[r.import].source = r.source
        /\ generation' = generation + 1
    BY FoundReadable, CommitImports
  <1>2. Cardinality(DOMAIN imports') = generation'
    BY <1>1, LeavesImports
  <1>3. {imports'[i].committed : i \in DOMAIN imports'} = 1..generation'
    BY DEF HistoryInv
  <1>4. DOMAIN bindings' = DOMAIN bindings /\ r.source \in DOMAIN bindings
    BY FoundReadable, CommitBindings, CommittedRequest
  <1>5. /\ DOMAIN events = 1..(nextSequence - 1) /\ DOMAIN events' = 1..(nextSequence' - 1)
        /\ nextSequence \in Nat \ {0} /\ nextSequence' = nextSequence + Cardinality(Changes(r))
        /\ Cardinality(Changes(r)) \in Nat
        /\ \A q \in DOMAIN events : q \in DOMAIN events' /\ events'[q] = events[q]
        /\ \A q \in DOMAIN events' \ DOMAIN events : \E id \in Changes(r) : q = Slot(r, id)
    BY FoundReadable, CommitEvents
  <1>6. ASSUME NEW i \in DOMAIN imports PROVE Fine(i)
    <2>1. EventsOf(i)' = EventsOf(i) /\ imports'[i] = imports[i]
      BY <1>1, LeavesEventsOf
    <2>2. LET imp == imports[i]
              count == imp.inserted + imp.edited + imp.voided
          IN  /\ imp.source \in DOMAIN bindings
              /\ imp.total = imp.inserted + imp.edited + imp.unchanged
              /\ IF count = 0 THEN imp.first = 0 /\ imp.last = 0
                 ELSE imp.first > 0 /\ imp.last = imp.first + count - 1
              /\ EventsOf(i) \in {{}, imp.first..imp.last}
              /\ \A q \in EventsOf(i) : events[q].source = imp.source
      BY FoundImports
    <2>3. imports'[i].committed = imports'[i].base + 1
      BY <1>1 DEF HistoryInv
    <2>4. \A q \in EventsOf(i) : events'[q] = events[q]
      BY <1>5 DEF EventsOf
    <2> QED
      BY <1>4, <2>1, <2>2, <2>3, <2>4
  <1>7. Fine(r.import)
    <2> DEFINE imp == imports'[r.import]
               n == Cardinality(Changes(r))
    <2>1. /\ imp.total = Cardinality(DOMAIN r.rows)
          /\ imp.inserted = Cardinality(Inserted(r.rows, Was(r)))
          /\ imp.edited = Cardinality(Edited(r.rows, Was(r)))
          /\ imp.voided = Cardinality(Voided(r.rows, Was(r)))
          /\ imp.unchanged = Cardinality(Unchanged(r.rows, Was(r)))
          /\ imp.first = IF n = 0 THEN 0 ELSE nextSequence
          /\ imp.last = IF n = 0 THEN 0 ELSE nextSequence + n - 1
      <3> HIDE DEF imp
      <3>1. imp = NewImport(r, Was(r))
        BY <1>1 DEF imp
      <3> QED
        BY <3>1 DEF NewImport, UnchangedCount, Changes
    <2>2. imp.committed = imp.base + 1 /\ imp.source = r.source
      BY <1>1 DEF HistoryInv
    <2>3. /\ imp.total = imp.inserted + imp.edited + imp.unchanged
          /\ n = imp.inserted + imp.edited + imp.voided
      BY <2>1, FoundReadable, PlanCounts
    <2>4. EventsOf(r.import)' = nextSequence..(nextSequence + n - 1)
      BY <1>5, LeavesEventsOf
    <2>5. n \in Nat /\ nextSequence \in Nat \ {0}
      BY <1>5
    <2>6. \A q \in EventsOf(r.import)' : events'[q].source = r.source
      <3> SUFFICES ASSUME NEW q \in EventsOf(r.import)' PROVE events'[q].source = r.source
        OBVIOUS
      <3>1. q \in DOMAIN events' \ DOMAIN events
        BY <1>5, <2>4
      <3>2. PICK id \in Changes(r) : q = Slot(r, id)
        BY <1>5, <3>1
      <3> QED
        BY <3>2, FoundReadable, NewEventSays
    <2> HIDE DEF imp, n
    <2>7. n = 0 => EventsOf(r.import)' = {}
      BY <2>4, <2>5
    <2>8. n # 0 => EventsOf(r.import)' = imp.first..imp.last
      BY <2>1, <2>4
    <2>9. EventsOf(r.import)' \in {{}, imp.first..imp.last}
      BY <2>7, <2>8
    <2>10. IF n = 0 THEN imp.first = 0 /\ imp.last = 0
           ELSE imp.first > 0 /\ imp.last = imp.first + n - 1
      BY <2>1, <2>5
    <2> QED
      BY <1>4, <2>2, <2>3, <2>6, <2>9, <2>10 DEF imp
  <1> HIDE DEF Fine
  <1>8. \A i \in DOMAIN imports' : Fine(i)
    BY <1>1, <1>6, <1>7
  <1> QED
    BY <1>2, <1>3, <1>8 DEF ImportsReadable, Fine

LEMMA CommitKeepsEventsReadable ==
    ASSUME Records, NEW r, Commits(r)
    PROVE  EventsReadable'
  <1>1. /\ DOMAIN events' = 1..(nextSequence' - 1)
        /\ \A q \in DOMAIN events : q \in DOMAIN events' /\ events'[q] = events[q]
        /\ \A q \in DOMAIN events' \ DOMAIN events : \E id \in Changes(r) : q = Slot(r, id)
    BY FoundReadable, CommitEvents
  <1>2. \A id \in Changes(r) : events'[Slot(r, id)].event = r.events[id]
    BY FoundReadable, NewEventSays
  <1>3. \A id \in Changes(r), q \in DOMAIN events : events[q].event # r.events[id]
    BY FoundReadable DEF WriteClashes, Changes
  <1>4. \A id \in Changes(r) : r.events[id][2] = id
    <2>1. PICK c \in Client : Commit(c) /\ r = request[c]
      BY DEF Commits
    <2>2. DOMAIN r.events = Changes(r)
      BY FoundReadable
    <2> QED
      BY <2>1, <2>2 DEF Commit, Records, MintedInv
  <1>5. \A p, q \in DOMAIN events : events[p].event = events[q].event => p = q
    BY FoundImports
  <1>6. \A p, q \in DOMAIN events' : events'[p].event = events'[q].event => p = q
    <2> SUFFICES ASSUME NEW p \in DOMAIN events', NEW q \in DOMAIN events',
                        events'[p].event = events'[q].event
                 PROVE  p = q
      OBVIOUS
    <2>1. CASE p \in DOMAIN events /\ q \in DOMAIN events
      BY <1>1, <1>5, <2>1
    <2>2. CASE p \notin DOMAIN events /\ q \notin DOMAIN events
      <3>1. PICK a, b \in Changes(r) : p = Slot(r, a) /\ q = Slot(r, b)
        BY <1>1, <2>2
      <3>2. a = b
        BY <1>2, <1>4, <3>1
      <3> QED
        BY <3>1, <3>2
    <2>3. CASE p \in DOMAIN events /\ q \notin DOMAIN events
      BY <1>1, <1>2, <1>3, <2>3
    <2>4. CASE p \notin DOMAIN events /\ q \in DOMAIN events
      BY <1>1, <1>2, <1>3, <2>4
    <2> QED
      BY <2>1, <2>2, <2>3, <2>4
  <1> QED
    BY <1>1, <1>6 DEF EventsReadable

LEMMA CommitKeepsBindingsReadable ==
    ASSUME Records, NEW r, Commits(r)
    PROVE  BindingsReadable'
  <1>1. BindingsReadable /\ Tables
    BY FoundReadable DEF ReaderAccepts
  <1>2. /\ DOMAIN bindings' = DOMAIN bindings
        /\ \A s \in DOMAIN bindings : s # r.source => bindings'[s] = bindings[s]
        /\ bindings'[r.source] = Latest(bindings[r.source], r)
        /\ \A s : IsActive(s)' <=> IsActive(s)
    BY FoundReadable, CommitBindings
  <1>3. /\ DOMAIN imports' = DOMAIN imports \cup {r.import}
        /\ \A i \in DOMAIN imports : imports'[i] = imports[i]
        /\ imports'[r.import].source = r.source /\ imports'[r.import].file = r.rows
    BY FoundReadable, CommitImports
  <1>4. r.source \in DOMAIN bindings /\ IsActive(r.source)
    BY FoundReadable, CommittedRequest
  <1> DEFINE Fine(s, b) ==
        /\ b.lastImport # None =>
             /\ b.lastImport \in DOMAIN imports'
             /\ imports'[b.lastImport].source = s
             /\ imports'[b.lastImport].file = b.lastFile
        /\ IF b.state = "active" THEN b.final = None
           ELSE b.final # None /\ (b.lastFile # None => b.final = b.lastFile)
  <1>5. Fine(r.source, bindings'[r.source])
    <2> DEFINE b == bindings[r.source]
    <2>1. b \in Binding /\ b.state = "active" /\ b.final = None
      BY <1>1, <1>4 DEF Tables, TypeOK, Table, IsActive, BindingsReadable
    <2>2. /\ Latest(b, r).state = "active" /\ Latest(b, r).final = None
          /\ Latest(b, r).lastImport = r.import /\ Latest(b, r).lastFile = r.rows
      BY <2>1 DEF Latest, Binding
    <2> QED
      BY <1>2, <1>3, <2>2
  <1>6. ASSUME NEW s \in DOMAIN bindings, s # r.source PROVE Fine(s, bindings'[s])
    BY <1>1, <1>2, <1>3, <1>6 DEF BindingsReadable
  <1> HIDE DEF Fine
  <1>7. \A s \in DOMAIN bindings' : Fine(s, bindings'[s])
    BY <1>2, <1>5, <1>6
  <1>8. \A s, t \in DOMAIN bindings' : IsActive(s)' /\ IsActive(t)' => s = t
    BY <1>1, <1>2 DEF BindingsReadable
  <1> QED
    BY <1>7, <1>8 DEF BindingsReadable, Fine

-----------------------------------------------------------------------------
(* The revisions. *)

\* A row has one sheet in all its revisions.
OneSheet ==
    \A a, b \in DOMAIN revisions :
        a[1] = b[1] => revisions[a].sheet = revisions[b].sheet

\* The revisions of a row are all of one sheet.
LEMMA RowsHaveOneSheet == AllInv => OneSheet
  <1> SUFFICES ASSUME AllInv, NEW a \in DOMAIN revisions, NEW b \in DOMAIN revisions,
                      a[1] = b[1]
               PROVE  revisions[a].sheet = revisions[b].sheet
    BY DEF OneSheet
  <1>1. Tables /\ IdentitiesStayHome
    BY DEF AllInv
  <1>2. \A k \in DOMAIN revisions : k = <<k[1], k[2]>>
    BY <1>1 DEF Tables, TypeOK, Table
  <1>3. \A k \in DOMAIN revisions : \E q \in DOMAIN events :
          events[q].id = k[1] /\ revisions[k].sheet = events[q].sheet
    <2> SUFFICES ASSUME NEW k \in DOMAIN revisions
                 PROVE  \E q \in DOMAIN events :
                          events[q].id = k[1] /\ revisions[k].sheet = events[q].sheet
      OBVIOUS
    <2>1. PICK q \in DOMAIN events : events[q].id = k[1] /\ events[q].rev = k[2]
      BY <1>1 DEF Tables, FeedInv, RevisionInv
    <2>2. k = <<events[q].id, events[q].rev>>
      BY <1>2, <2>1
    <2>3. revisions[<<events[q].id, events[q].rev>>].sheet = events[q].sheet
      BY <1>1 DEF Tables, FeedInv, EventInv
    <2> QED
      BY <2>1, <2>2, <2>3
  <1>4. PICK p \in DOMAIN events : events[p].id = a[1] /\ revisions[a].sheet = events[p].sheet
    BY <1>3
  <1>5. PICK q \in DOMAIN events : events[q].id = b[1] /\ revisions[b].sheet = events[q].sheet
    BY <1>3
  <1> QED
    BY <1>1, <1>4, <1>5 DEF IdentitiesStayHome

\* Every known row has a last live revision: its last one or the one before.
LEMMA LiveExists ==
    ASSUME Tables, VoidInv, NEW id, NEW k, Top(id, k)
    PROVE  \E j \in DOMAIN revisions :
             /\ j[1] = id /\ revisions[j].lifecycle = "active"
             /\ \A x \in DOMAIN revisions :
                  x[1] = id /\ revisions[x].lifecycle = "active" => x[2] <= j[2]
  <1>1. <<id, k>> \in DOMAIN revisions /\ \A x \in DOMAIN revisions : x[1] = id => x[2] <= k
    BY DEF Top
  <1>2. /\ \A x \in DOMAIN revisions : x = <<x[1], x[2]>> /\ x[2] \in Nat
        /\ k \in Nat
        /\ revisions[<<id, k>>].lifecycle \in {"active", "voided"}
    BY <1>1 DEF Tables, TypeOK, Table, Revision, Lifecycle
  <1>3. CASE revisions[<<id, k>>].lifecycle = "active"
    BY <1>1, <1>3
  <1>4. CASE revisions[<<id, k>>].lifecycle = "voided"
    <2>1. /\ <<id, k - 1>> \in DOMAIN revisions
          /\ revisions[<<id, k - 1>>].lifecycle = "active"
      BY <1>1, <1>4 DEF VoidInv
    <2>2. ASSUME NEW x \in DOMAIN revisions, x[1] = id, revisions[x].lifecycle = "active"
          PROVE  x[2] <= k - 1
      <3>1. x[2] <= k /\ x[2] \in Nat
        BY <1>1, <1>2, <2>2
      <3>2. x[2] # k
        BY <1>2, <1>4, <2>2
      <3> QED
        BY <1>2, <3>1, <3>2
    <2> QED
      BY <2>1, <2>2
  <1> QED
    BY <1>2, <1>3, <1>4

\* A row that does not come or come back keeps its last live revision.
LEMMA LastLiveStays ==
    ASSUME Records, NEW r, Commits(r), NEW id, NEW k, Top(id, k),
           id \notin Changes(r) \/ id \notin DOMAIN r.rows
    PROVE  LastLiveHash(id)' = LastLiveHash(id)
  <1> DEFINE live == {x \in DOMAIN revisions :
                        x[1] = id /\ revisions[x].lifecycle = "active"}
             next == {x \in DOMAIN revisions' :
                        x[1] = id /\ revisions'[x].lifecycle = "active"}
             Best(x) == \A other \in live : other[2] <= x[2]
             latest == CHOOSE x \in live : Best(x)
  <1>1. /\ DOMAIN revisions' =
             DOMAIN revisions \cup {<<b, NewRev(r, b)>> : b \in Changes(r)}
        /\ \A x \in DOMAIN revisions : revisions'[x] = revisions[x]
        /\ \A b \in Changes(r) : revisions'[<<b, NewRev(r, b)>>] = Written(r, b)
    BY FoundReadable, CommitRevisions
  <1>2. ASSUME NEW x \in next PROVE x \in live
    <2>1. x \in DOMAIN revisions
      <3> SUFFICES ASSUME x \notin DOMAIN revisions PROVE FALSE
        OBVIOUS
      <3>1. PICK b \in Changes(r) : x = <<b, NewRev(r, b)>>
        BY <1>1
      <3>2. b = id /\ revisions'[x] = Written(r, id)
        BY <1>1, <3>1
      <3>3. Written(r, id).lifecycle = "voided"
        BY <3>1, <3>2 DEF Written
      <3> QED
        BY <3>2, <3>3
    <2> QED
      BY <1>1, <2>1
  <1>3. next = live
    BY <1>1, <1>2
  <1>4. \E j \in live : Best(j)
    BY FoundReadable, LiveExists DEF Records
  <1>5. latest \in live
    <2> HIDE DEF live, Best
    <2> QED
      BY <1>4
  <1>6. revisions'[latest] = revisions[latest]
    BY <1>1, <1>5
  <1>7. LastLiveHash(id) = revisions[latest].hash
    BY DEF LastLiveHash
  <1>8. LastLiveHash(id)' =
          revisions'[CHOOSE x \in next : \A other \in next : other[2] <= x[2]].hash
    BY DEF LastLiveHash
  <1> HIDE DEF next
  <1> QED
    BY <1>3, <1>6, <1>7, <1>8

\* RevisionReadable after the step.
NextReadable(id, rev) ==
    LET head == revisions'[<<id, rev>>]
        created == {q \in DOMAIN events' : events'[q].id = id /\ events'[q].rev = rev}
    IN  /\ IF rev = 1 THEN head.previous = None
           ELSE /\ <<id, rev - 1>> \in DOMAIN revisions'
                /\ head.previous = revisions'[<<id, rev - 1>>].version
        /\ \E q \in created :
            LET e == events'[q]
            IN  /\ created = {q}
                /\ e.import = head.import
                /\ e.source = imports'[head.import].source
                /\ e.sheet = head.sheet /\ e.hash = head.hash
                /\ e.event = head.version /\ e.previous = head.previous
                /\ e.op = IF head.lifecycle = "active" THEN "upsert" ELSE "void"
                /\ (head.hash = None) = (head.lifecycle = "voided")
                /\ e.date = FinancialDate(head.sheet,
                                IF head.lifecycle = "active" THEN head.hash
                                ELSE LastLiveHash(id)')

\* An old revision can be read as before, if nobody moved the date of its void:
\* its row was not changed, or has no dates.
LEMMA KeptRevision ==
    ASSUME Records, NEW r, Commits(r), NEW id, NEW k,
           <<id, k>> \in DOMAIN revisions, RevisionReadable(id, k),
           id \notin Changes(r) \/ revisions[<<id, k>>].sheet = PartySheet
    PROVE  NextReadable(id, k)
  <1> DEFINE head == revisions[<<id, k>>]
             created == {q \in DOMAIN events : events[q].id = id /\ events[q].rev = k}
             createdNext == {q \in DOMAIN events' : events'[q].id = id /\ events'[q].rev = k}
             date == FinancialDate(head.sheet, IF head.lifecycle = "active" THEN head.hash
                                               ELSE LastLiveHash(id))
             dateNext == FinancialDate(head.sheet, IF head.lifecycle = "active" THEN head.hash
                                                   ELSE LastLiveHash(id)')
  <1>1. /\ \A x \in DOMAIN revisions : x \in DOMAIN revisions' /\ revisions'[x] = revisions[x]
        /\ \A b \in Changes(r) : <<b, NewRev(r, b)>> \notin DOMAIN revisions
    BY FoundReadable, CommitRevisions, CommittedPlan
  <1>2. /\ \A q \in DOMAIN events : q \in DOMAIN events' /\ events'[q] = events[q]
        /\ \A q \in DOMAIN events' \ DOMAIN events : \E b \in Changes(r) : q = Slot(r, b)
    BY FoundReadable, CommitEvents
  <1>3. \A b \in Changes(r) :
          events'[Slot(r, b)].id = b /\ events'[Slot(r, b)].rev = NewRev(r, b)
    BY FoundReadable, NewEventSays
  <1>4. \A i \in DOMAIN imports : imports'[i] = imports[i]
    BY FoundReadable, CommitImports
  <1>5. createdNext = created
    <2>1. \A q \in createdNext : q \in DOMAIN events
      BY <1>1, <1>2, <1>3
    <2> QED
      BY <1>2, <2>1
  <1>6. dateNext = date
    <2>1. CASE head.sheet = PartySheet
      BY <2>1 DEF FinancialDate
    <2>2. CASE id \notin Changes(r)
      <3>1. PICK j : Top(id, j)
        BY FoundReadable DEF Tables, FeedInv, RevisionInv
      <3>2. LastLiveHash(id)' = LastLiveHash(id)
        BY <2>2, <3>1, LastLiveStays
      <3> QED
        BY <3>2
    <2> QED
      BY <2>1, <2>2
  <1> HIDE DEF date, dateNext
  <1>7. /\ IF k = 1 THEN head.previous = None
           ELSE /\ <<id, k - 1>> \in DOMAIN revisions
                /\ head.previous = revisions[<<id, k - 1>>].version
        /\ \E q \in created :
             /\ created = {q}
             /\ events[q].import = head.import
             /\ events[q].source = imports[head.import].source
             /\ events[q].sheet = head.sheet /\ events[q].hash = head.hash
             /\ events[q].event = head.version /\ events[q].previous = head.previous
             /\ events[q].op = IF head.lifecycle = "active" THEN "upsert" ELSE "void"
             /\ (head.hash = None) = (head.lifecycle = "voided")
             /\ events[q].date = date
    BY DEF RevisionReadable, date
  <1>8. PICK q \in created :
             /\ created = {q}
             /\ events[q].import = head.import
             /\ events[q].source = imports[head.import].source
             /\ events[q].sheet = head.sheet /\ events[q].hash = head.hash
             /\ events[q].event = head.version /\ events[q].previous = head.previous
             /\ events[q].op = IF head.lifecycle = "active" THEN "upsert" ELSE "void"
             /\ (head.hash = None) = (head.lifecycle = "voided")
             /\ events[q].date = date
    BY <1>7
  <1>9. /\ events'[q] = events[q] /\ revisions'[<<id, k>>] = head
        /\ events[q].import \in DOMAIN imports
    BY <1>1, <1>2, FoundReadable DEF Tables, FeedInv, EventInv
  <1>10. imports'[head.import] = imports[head.import]
    BY <1>4, <1>8, <1>9
  <1>11. IF k = 1 THEN head.previous = None
         ELSE /\ <<id, k - 1>> \in DOMAIN revisions'
              /\ head.previous = revisions'[<<id, k - 1>>].version
    BY <1>1, <1>7
  <1>12. q \in createdNext /\ createdNext = {q}
    BY <1>5, <1>8
  <1> HIDE DEF created, createdNext, head
  <1> QED
    BY <1>6, <1>8, <1>9, <1>10, <1>11, <1>12 DEF NextReadable, createdNext, dateNext

\* A new revision can be read: its event was written with it.
LEMMA MadeRevision ==
    ASSUME Records, NEW r, Commits(r), NEW id \in Changes(r)
    PROVE  NextReadable(id, NewRev(r, id))
  <1> DEFINE k == NewRev(r, id)
             q == Slot(r, id)
             head == revisions'[<<id, k>>]
             e == events'[q]
             created == {p \in DOMAIN events' : events'[p].id = id /\ events'[p].rev = k}
             present == id \in DOMAIN r.rows
             date == FinancialDate(head.sheet, IF head.lifecycle = "active" THEN head.hash
                                               ELSE LastLiveHash(id)')
  <1>1. /\ head = Written(r, id)
        /\ \A x \in DOMAIN revisions : x \in DOMAIN revisions' /\ revisions'[x] = revisions[x]
    BY FoundReadable, CommitRevisions
  <1>2. /\ head.sheet = ItemSheet(r.rows, Was(r), id) /\ head.hash = NewHash(r, id)
        /\ head.import = r.import /\ head.version = r.events[id]
        /\ head.previous = Predecessor(id, k)
        /\ head.lifecycle = IF present THEN "active" ELSE "voided"
    <2> HIDE DEF head
    <2> QED
      BY <1>1 DEF Written
  <1>3. /\ e.id = id /\ e.rev = k /\ e.event = r.events[id]
        /\ e.import = r.import /\ e.source = r.source
        /\ e.op = IF present THEN "upsert" ELSE "void"
        /\ e.sheet = ItemSheet(r.rows, Was(r), id) /\ e.hash = NewHash(r, id)
        /\ e.previous = Predecessor(id, k)
        /\ q \in DOMAIN events'
    BY FoundReadable, NewEventSays
  <1>4. e.date = FinancialDate(ItemSheet(r.rows, Was(r), id),
                               IF present THEN r.rows[id].hash ELSE LastLiveHash(id))
    <2>1. e = NewEvent(r, Was(r), id)
      BY FoundReadable, CommitEvents
    <2> HIDE DEF e
    <2> QED
      BY <2>1 DEF NewEvent
  <1>5. created = {q}
    <2>1. /\ \A p \in DOMAIN events : events'[p] = events[p]
          /\ \A p \in DOMAIN events' \ DOMAIN events : \E b \in Changes(r) : p = Slot(r, b)
      BY FoundReadable, CommitEvents
    <2>2. \A b \in Changes(r) : events'[Slot(r, b)].id = b
      BY FoundReadable, NewEventSays
    <2>3. \A p \in DOMAIN events : <<events[p].id, events[p].rev>> \in DOMAIN revisions
      BY FoundReadable DEF Tables, FeedInv, EventInv
    <2>4. <<id, k>> \notin DOMAIN revisions
      BY FoundReadable, CommittedPlan
    <2>5. \A p \in created : p = q
      BY <2>1, <2>2, <2>3, <2>4
    <2>6. q \in created
      BY <1>3
    <2> HIDE DEF q
    <2> QED
      BY <2>5, <2>6
  <1>6. IF k = 1 THEN head.previous = None
        ELSE /\ <<id, k - 1>> \in DOMAIN revisions'
             /\ head.previous = revisions'[<<id, k - 1>>].version
    <2>1. CASE id \notin DOMAIN Was(r)
      <3>1. k = 1 /\ Predecessor(id, k) = None
        BY <2>1, FoundReadable, PredecessorExists
      <3> HIDE DEF head, k
      <3> QED
        BY <1>2, <3>1
    <2>2. CASE id \in DOMAIN Was(r)
      <3>1. PICK j : j = Was(r)[id].rev
        OBVIOUS
      <3>2. j \in Nat
        BY <2>2, <3>1, FoundReadable, CommittedPlan
      <3>3. /\ k = j + 1 /\ k # 1 /\ <<id, j>> \in DOMAIN revisions
            /\ Predecessor(id, k) = revisions[<<id, j>>].version
        BY <2>2, <3>1, FoundReadable, PredecessorExists
      <3>4. k - 1 = j
        BY <3>2, <3>3
      <3>5. <<id, j>> \in DOMAIN revisions' /\ revisions'[<<id, j>>] = revisions[<<id, j>>]
        BY <1>1, <3>3
      <3> HIDE DEF head, k
      <3> QED
        BY <1>2, <3>3, <3>4, <3>5
    <2> QED
      BY <2>1, <2>2
  <1>7. (head.hash = None) = (head.lifecycle = "voided")
    <2>1. CASE present
      <3>1. r.rows[id].hash \in Hash
        BY <2>1, FoundReadable, CommittedRows
      <3> QED
        BY <1>2, <2>1, <3>1, PlanAssumption DEF NewHash
    <2>2. CASE ~present
      BY <1>2, <2>2 DEF NewHash
    <2> QED
      BY <2>1, <2>2
  <1>8. e.date = date
    <2>1. CASE present
      BY <1>2, <1>4, <2>1 DEF NewHash
    <2>2. CASE ~present
      <3>1. id \in DOMAIN Was(r)
        BY <2>2, FoundReadable, PlanCases
      <3>2. Top(id, Was(r)[id].rev)
        BY <3>1, FoundReadable, CommittedPlan
      <3>3. LastLiveHash(id)' = LastLiveHash(id)
        BY <2>2, <3>2, LastLiveStays
      <3> QED
        BY <1>2, <1>4, <2>2, <3>3
    <2> QED
      BY <2>1, <2>2
  <1>9. e.source = imports'[head.import].source
    <2>1. imports'[r.import].source = r.source
      BY FoundReadable, CommitImports
    <2> QED
      BY <1>2, <1>3, <2>1
  <1>10. e.op = IF head.lifecycle = "active" THEN "upsert" ELSE "void"
    BY <1>2, <1>3
  <1>11. q \in created
    BY <1>5
  <1> HIDE DEF created, date, head, e, q, k, present
  <1>12. /\ created = {q}
         /\ e.import = head.import
         /\ e.source = imports'[head.import].source
         /\ e.sheet = head.sheet /\ e.hash = head.hash
         /\ e.event = head.version /\ e.previous = head.previous
         /\ e.op = IF head.lifecycle = "active" THEN "upsert" ELSE "void"
         /\ (head.hash = None) = (head.lifecycle = "voided")
         /\ e.date = date
    BY <1>2, <1>3, <1>5, <1>7, <1>8, <1>9, <1>10
  <1> QED
    BY <1>6, <1>11, <1>12 DEF NextReadable, created, date, head, e, k

-----------------------------------------------------------------------------
(* The memberships. *)

\* What a commit does to the marks of a membership.
LEMMA CommitMarks ==
    ASSUME Tables, NEW r, Commits(r), NEW k \in DOMAIN members'
    PROVE  \/ /\ k \in DOMAIN members /\ members'[k] = members[k]
              /\ k[1] # r.source \/ (k[2] \notin DOMAIN r.rows /\ k[2] \notin Changes(r))
           \/ /\ k[1] = r.source /\ members'[k].last = r.import
              /\ \/ members'[k].first = r.import
                 \/ k \in DOMAIN members /\ members'[k].first = members[k].first
              /\ k[2] \in DOMAIN r.rows \cup Changes(r)
  <1> DEFINE new == NewMembers(r, Was(r))
             marked == DOMAIN r.rows \cup Voided(r.rows, Was(r))
  <1>1. members' = Overlay(members, new)
    BY DEF Commits, Commit, WriteImport, Was
  <1>2. DOMAIN new = {r.source} \X marked
    BY DEF NewMembers
  <1>3. \A x \in DOMAIN new :
          /\ new[x].last = r.import
          /\ new[x].first = IF x \in DOMAIN members THEN members[x].first ELSE r.import
    BY DEF NewMembers
  <1>4. Changes(r) \cup DOMAIN r.rows = marked
    BY DEF Changes, Changed, Inserted, Edited
  <1> HIDE DEF new, marked
  <1>5. /\ DOMAIN members' = DOMAIN members \cup DOMAIN new
        /\ \A x \in DOMAIN new : members'[x] = new[x]
        /\ \A x \in DOMAIN members \ DOMAIN new : members'[x] = members[x]
    BY <1>1 DEF Overlay
  <1>6. CASE k \in DOMAIN new
    <2>1. k[1] = r.source /\ k[2] \in DOMAIN r.rows \cup Changes(r)
      BY <1>2, <1>4, <1>6
    <2> QED
      BY <1>3, <1>5, <1>6, <2>1
  <1>7. CASE k \notin DOMAIN new
    <2>1. k \in DOMAIN members /\ members'[k] = members[k]
      BY <1>5, <1>7
    <2>2. k = <<k[1], k[2]>>
      BY <2>1 DEF Tables, TypeOK, Table
    <2>3. k[1] # r.source \/ k[2] \notin marked
      BY <1>2, <1>7, <2>2
    <2> QED
      BY <1>4, <2>1, <2>3
  <1> QED
    BY <1>6, <1>7

\* What the reader found of a membership, and of the last revision of a row.
LEMMA FoundMember ==
    ASSUME Records, NEW r, Commits(r), NEW s, NEW id, <<s, id>> \in DOMAIN members
    PROVE  /\ s \in DOMAIN bindings /\ id \in MemberIds(s) /\ MembershipReadable(s, id)
           /\ RevisionReadable(id, members[<<s, id>>].rev)
  <1>1. s \in DOMAIN bindings /\ id \in MemberIds(s)
    BY FoundReadable DEF Tables, TypeOK, Table, FeedInv, MemberInv, MemberIds
  <1>2. MembershipReadable(s, id)
    BY <1>1, FoundReadable DEF ReaderAccepts
  <1> QED
    BY <1>1, <1>2 DEF MembershipReadable

\* The last revision of a row is one the reader accepts.
LEMMA FoundTop ==
    ASSUME Records, NEW r, Commits(r), NEW id, NEW k, Top(id, k)
    PROVE  RevisionReadable(id, k)
  <1>1. PICK t \in DOMAIN bindings :
          <<t, id>> \in DOMAIN members /\ Top(id, members[<<t, id>>].rev)
    BY FoundReadable DEF Top, Tables, FeedInv, RevisionInv
  <1>2. members[<<t, id>>].rev \in Nat /\ k \in Nat
    BY <1>1, FoundReadable DEF Tables, TypeOK, Table, Membership, Top
  <1>3. members[<<t, id>>].rev = k
    BY <1>1, <1>2, TopIsUnique
  <1> QED
    BY <1>1, <1>3, FoundMember

\* The revision a membership points at can be read after the commit.
LEMMA PointsAtReadable ==
    ASSUME Records, NEW r, Commits(r), NEW s, NEW id, <<s, id>> \in DOMAIN members'
    PROVE  NextReadable(id, members'[<<s, id>>].rev)
  <1>1. /\ \A k \in DOMAIN members : k[1] # r.source => members'[k] = members[k]
        /\ DOMAIN members' = DOMAIN members \cup {<<r.source, b>> : b \in DOMAIN r.rows}
        /\ \A b : <<r.source, b>> \in DOMAIN members' =>
             /\ b \in Changes(r) \cup DOMAIN Was(r)
             /\ members'[<<r.source, b>>].rev =
                  IF b \in Changes(r) THEN NewRev(r, b) ELSE Was(r)[b].rev
    <2>1. Tables
      BY FoundReadable
    <2> QED
      BY <2>1, CommitMembers
  <1>2. CASE s = r.source /\ id \in Changes(r)
    <2>1. members'[<<s, id>>].rev = NewRev(r, id)
      BY <1>1, <1>2
    <2> QED
      BY <1>2, <2>1, MadeRevision
  <1>3. CASE s = r.source /\ id \notin Changes(r)
    <2>1. PICK k : id \in DOMAIN Was(r) /\ k = Was(r)[id].rev
                   /\ members'[<<s, id>>].rev = k
      BY <1>1, <1>3
    <2>2. Top(id, k)
      <3>1. \A b \in DOMAIN Was(r) : Top(b, Was(r)[b].rev)
        BY FoundReadable, CommittedPlan
      <3> QED
        BY <2>1, <3>1
    <2>3. <<id, k>> \in DOMAIN revisions /\ RevisionReadable(id, k)
      BY <2>2, FoundTop DEF Top
    <2>4. NextReadable(id, k)
      BY <1>3, <2>3, KeptRevision
    <2> QED
      BY <2>1, <2>4
  <1>4. CASE s # r.source
    <2>1. <<s, id>> \in DOMAIN members /\ members'[<<s, id>>] = members[<<s, id>>]
      BY <1>1, <1>4
    <2>2. PICK k : k = members[<<s, id>>].rev
      OBVIOUS
    <2>3. RevisionReadable(id, k) /\ s \in DOMAIN bindings /\ id \in MemberIds(s)
      BY <2>1, <2>2, FoundMember
    <2>4. <<id, k>> \in DOMAIN revisions
      BY <2>1, <2>2, FoundReadable DEF Tables, FeedInv, MemberInv
    <2>5. id \notin Changes(r) \/ revisions[<<id, k>>].sheet = PartySheet
      <3> SUFFICES ASSUME id \in Changes(r) PROVE revisions[<<id, k>>].sheet = PartySheet
        OBVIOUS
      <3>1. id \in Known(Registries)
        BY <2>3, RegistriesSay DEF Known
      <3>2. id \in DOMAIN Was(r)
        BY <3>1, FoundReadable, PlanCases, CommittedPlan
      <3>3. Was(r)[id].sheet = PartySheet
        BY <1>4, <2>3, <3>2, FoundReadable, CommittedPlan
      <3>4. PICK j : Was(r)[id] = Said(id, j) /\ Top(id, j)
        BY <3>2, FoundReadable, CommittedPlan
      <3>5. revisions[<<id, j>>].sheet = PartySheet /\ <<id, j>> \in DOMAIN revisions
        BY <3>3, <3>4 DEF Said, Top
      <3> QED
        BY <2>4, <3>5, RowsHaveOneSheet DEF OneSheet, Records
    <2>6. NextReadable(id, k)
      BY <2>3, <2>4, <2>5, KeptRevision
    <2> QED
      BY <2>1, <2>2, <2>6
  <1> QED
    BY <1>2, <1>3, <1>4

\* A commit leaves every membership as the reader wants it.
LEMMA CommitKeepsMembershipReadable ==
    ASSUME Records, HistoryInv', FeedInv', NEW r, Commits(r),
           NEW s, NEW id, <<s, id>> \in DOMAIN members'
    PROVE  MembershipReadable(s, id)'
  <1> DEFINE m == members'[<<s, id>>]
             head == revisions'[<<id, m.rev>>]
             marked == DOMAIN r.rows \cup Changes(r)
  <1>1. /\ DOMAIN imports' = DOMAIN imports \cup {r.import}
        /\ \A i \in DOMAIN imports : imports'[i] = imports[i]
        /\ imports'[r.import].committed = generation + 1
        /\ generation' = generation + 1
    BY FoundReadable, CommitImports
  <1>2. \A i \in DOMAIN imports' : imports'[i].committed <= imports'[r.import].committed
    BY <1>1 DEF HistoryInv
  <1>3. \/ /\ <<s, id>> \in DOMAIN members /\ m = members[<<s, id>>]
           /\ s # r.source \/ id \notin marked
        \/ /\ s = r.source /\ m.last = r.import /\ id \in marked
           /\ \/ m.first = r.import
              \/ <<s, id>> \in DOMAIN members /\ m.first = members[<<s, id>>].first
    <2>1. Tables
      BY FoundReadable
    <2> QED
      BY <2>1, CommitMarks
  <1>4. /\ <<id, m.rev>> \in DOMAIN revisions' /\ s \in DOMAIN bindings'
        /\ head.import \in DOMAIN imports'
    <2>1. <<id, m.rev>> \in DOMAIN revisions' /\ s \in DOMAIN bindings'
      BY DEF FeedInv, MemberInv
    <2>2. PICK q \in DOMAIN events' : events'[q].id = id /\ events'[q].rev = m.rev
      BY <2>1 DEF FeedInv, RevisionInv
    <2> HIDE DEF m
    <2>3. head.import = events'[q].import /\ events'[q].import \in DOMAIN imports'
      BY <2>2 DEF FeedInv, EventInv
    <2> QED
      BY <2>1, <2>3
  <1>5. ASSUME <<s, id>> \in DOMAIN members, m = members[<<s, id>>]
        PROVE  /\ s \in DOMAIN bindings /\ id \in MemberIds(s)
               /\ {m.first, m.last} \subseteq DOMAIN imports
               /\ head.import \in DOMAIN imports
               /\ imports[m.first].committed <= imports[m.last].committed
               /\ imports[head.import].committed <= imports[m.last].committed
               /\ bindings[s].lastImport # None =>
                    m.last = IF head.lifecycle = "active"
                             THEN bindings[s].lastImport ELSE head.import
    <2>1. s \in DOMAIN bindings /\ id \in MemberIds(s) /\ MembershipReadable(s, id)
      BY <1>5, FoundMember
    <2>2. <<id, members[<<s, id>>].rev>> \in DOMAIN revisions
      BY <2>1 DEF MembershipReadable
    <2>3. head = HeadOf(s, id)
      <3>1. \A k \in DOMAIN revisions : revisions'[k] = revisions[k]
        BY FoundReadable, CommitRevisions
      <3> QED
        BY <1>5, <2>2, <3>1 DEF HeadOf
    <2> HIDE DEF m, head
    <2> QED
      BY <1>5, <2>1, <2>3 DEF MembershipReadable
  <1>6. /\ {m.first, m.last} \subseteq DOMAIN imports'
        /\ imports'[m.first].committed <= imports'[m.last].committed
        /\ imports'[head.import].committed <= imports'[m.last].committed
    <2> HIDE DEF m, head, marked
    <2>1. CASE <<s, id>> \in DOMAIN members /\ m = members[<<s, id>>]
      BY <1>1, <1>5, <2>1
    <2>2. CASE m.last = r.import /\ m.first = r.import
      BY <1>1, <1>2, <1>4, <2>2
    <2>3. CASE /\ m.last = r.import
               /\ <<s, id>> \in DOMAIN members /\ m.first = members[<<s, id>>].first
      <3>1. members[<<s, id>>].first \in DOMAIN imports
        BY <2>3, FoundMember DEF MembershipReadable
      <3> QED
        BY <1>1, <1>2, <1>4, <2>3, <3>1
    <2> QED
      BY <1>3, <2>1, <2>2, <2>3
  <1>7. bindings'[s].lastImport # None =>
          m.last = IF head.lifecycle = "active" THEN bindings'[s].lastImport ELSE head.import
    <2>1. /\ \A t \in DOMAIN bindings : t # r.source => bindings'[t] = bindings[t]
          /\ DOMAIN bindings' = DOMAIN bindings
          /\ bindings'[r.source].lastImport = r.import
          /\ bindings'[r.source].lastFile = r.rows
          /\ \A t : IsActive(t)' <=> IsActive(t)
      BY FoundReadable, CommitBindings
    <2>2. ASSUME s = r.source
          PROVE  /\ id \in DOMAIN r.rows => head.lifecycle = "active"
                 /\ id \notin DOMAIN r.rows => head.lifecycle = "voided"
      <3>1. /\ r.source \in DOMAIN bindings' /\ IsActive(r.source)'
            /\ r.import # None /\ id \in StableId
        <4>1. r.source \in DOMAIN bindings /\ IsActive(r.source) /\ r.import \in ImportId
          BY FoundReadable, CommittedRequest
        <4>2. id \in StableId
          <5>1. Tables
            BY FoundReadable
          <5> QED
            BY <2>2, <5>1, CommitMembers
        <4> QED
          BY <2>1, <4>1, <4>2, StoreAssumption
      <3>2. id \in MemberIds(s)'
        BY <3>1 DEF MemberIds
      <3>3. HeadOf(s, id)' = head
        BY DEF HeadOf
      <3> HIDE DEF head, m
      <3> QED
        BY <2>1, <2>2, <3>1, <3>2, <3>3 DEF FeedInv, LiveInv
    <2>3. CASE s # r.source
      <3>1. <<s, id>> \in DOMAIN members /\ m = members[<<s, id>>]
        BY <1>3, <2>3
      <3> HIDE DEF m, head
      <3> QED
        BY <1>5, <2>1, <2>3, <3>1
    <2>4. CASE s = r.source /\ id \in marked
      <3>1. m.last = r.import
        BY <1>3, <2>4
      <3>2. id \notin DOMAIN r.rows => head.import = r.import
        <4> SUFFICES ASSUME id \notin DOMAIN r.rows PROVE head.import = r.import
          OBVIOUS
        <4>1. id \in Changes(r)
          BY <2>4
        <4>2. m.rev = NewRev(r, id)
          <5>1. Tables
            BY FoundReadable
          <5> QED
            BY <2>4, <4>1, <5>1, CommitMembers
        <4>3. revisions'[<<id, NewRev(r, id)>>] = Written(r, id)
          BY <4>1, FoundReadable, CommitRevisions
        <4>4. head = Written(r, id)
          BY <4>2, <4>3
        <4> HIDE DEF head
        <4> QED
          BY <4>4 DEF Written
      <3> HIDE DEF m, head
      <3> QED
        BY <2>1, <2>2, <2>4, <3>1, <3>2
    <2>5. CASE s = r.source /\ id \notin marked
      <3>1. <<s, id>> \in DOMAIN members /\ m = members[<<s, id>>]
        BY <1>3, <2>5
      <3>2. bindings[s].lastImport # None
        <4>1. PICK i \in DOMAIN imports : imports[i].source = s
          BY <3>1, FoundReadable DEF Tables, FeedInv, MemberInv
        <4> QED
          BY <4>1 DEF Records, HeadInv
      <3>3. head.lifecycle = "voided"
        BY <2>2, <2>5
      <3> HIDE DEF m, head
      <3> QED
        BY <1>5, <3>1, <3>2, <3>3
    <2> QED
      BY <2>3, <2>4, <2>5
  <1>8. NextReadable(id, m.rev)
    BY PointsAtReadable
  <1>9. RevisionReadable(id, members[<<s, id>>].rev)'
    BY <1>8 DEF NextReadable, RevisionReadable
  <1>10. HeadOf(s, id)' = head
    BY DEF HeadOf
  <1> HIDE DEF head
  <1> QED
    BY <1>4, <1>6, <1>7, <1>9, <1>10 DEF MembershipReadable

-----------------------------------------------------------------------------
(* The catalog. *)

\* A row its source shares with another one is a party.
LEMMA SharedIsParty ==
    ASSUME Records, OneSheet', NEW r, Commits(r), NEW t, t # r.source, NEW id,
           <<r.source, id>> \in DOMAIN members', <<t, id>> \in DOMAIN members'
    PROVE  \A k \in DOMAIN revisions' : k[1] = id => revisions'[k].sheet = PartySheet
  <1>1. <<t, id>> \in DOMAIN members /\ id \in Changes(r) \cup DOMAIN Was(r)
    <2>1. Tables
      BY FoundReadable
    <2>2. /\ DOMAIN members' = DOMAIN members \cup {<<r.source, b>> : b \in DOMAIN r.rows}
          /\ id \in Changes(r) \cup DOMAIN Was(r)
      BY <2>1, CommitMembers
    <2> QED
      BY <2>2
  <1>2. t \in DOMAIN bindings /\ id \in MemberIds(t)
    BY <1>1, FoundMember
  <1>3. id \in DOMAIN Was(r)
    <2>1. id \in Known(Registries)
      BY <1>2, RegistriesSay DEF Known
    <2> QED
      BY <1>1, <2>1, FoundReadable, PlanCases, CommittedPlan
  <1>4. Was(r)[id].sheet = PartySheet
    BY <1>2, <1>3, FoundReadable, CommittedPlan
  <1>5. PICK j : Was(r)[id] = Said(id, j) /\ Top(id, j)
    BY <1>3, FoundReadable, CommittedPlan
  <1>6. <<id, j>> \in DOMAIN revisions /\ revisions[<<id, j>>].sheet = PartySheet
    BY <1>4, <1>5 DEF Said, Top
  <1>7. <<id, j>> \in DOMAIN revisions' /\ revisions'[<<id, j>>].sheet = PartySheet
    BY <1>6, FoundReadable, CommitRevisions
  <1> QED
    BY <1>7 DEF OneSheet

\* The catalog after the step.
NextSaid(id, k) ==
    [sheet     |-> revisions'[<<id, k>>].sheet,
     rev       |-> k,
     lifecycle |-> revisions'[<<id, k>>].lifecycle,
     hash      |-> revisions'[<<id, k>>].hash]

LEMMA NextRegistriesSay ==
    /\ DOMAIN Registries' = DOMAIN bindings'
    /\ \A s \in DOMAIN bindings' :
        /\ \A id : id \in DOMAIN Registries'[s] <=> id \in StableId /\ <<s, id>> \in DOMAIN members'
        /\ \A id \in DOMAIN Registries'[s] :
             Registries'[s][id] = NextSaid(id, members'[<<s, id>>].rev)
  BY DEF Registries, HeadOf, NextSaid, MemberIds

LEMMA CommitKeepsCatalog ==
    ASSUME Records, OneSheet', MemberInv', NEW r, Commits(r)
    PROVE  CatalogConsistent(Registries, {s \in DOMAIN bindings : IsActive(s)})'
  <1>1. ASSUME NEW s \in DOMAIN bindings', NEW t \in DOMAIN bindings', NEW id \in StableId,
               <<s, id>> \in DOMAIN members', <<t, id>> \in DOMAIN members'
        PROVE  LET mine == NextSaid(id, members'[<<s, id>>].rev)
                   other == NextSaid(id, members'[<<t, id>>].rev)
               IN  /\ mine.sheet = other.sheet
                   /\ mine.sheet # PartySheet => s = t
                   /\ mine.rev = other.rev => mine = other
                   /\ IsActive(s)' => other.rev <= mine.rev
    <2>1. PICK a, b : a = members'[<<s, id>>].rev /\ b = members'[<<t, id>>].rev
      OBVIOUS
    <2>2. /\ <<id, a>> \in DOMAIN revisions' /\ <<id, b>> \in DOMAIN revisions'
          /\ IsActive(s)' => b <= a
      BY <1>1, <2>1 DEF MemberInv, Top
    <2>3. revisions'[<<id, a>>].sheet = revisions'[<<id, b>>].sheet
      BY <2>2 DEF OneSheet
    <2>4. ASSUME s # t PROVE revisions'[<<id, a>>].sheet = PartySheet
      <3>1. CASE s = r.source
        BY <1>1, <2>2, <2>4, <3>1, SharedIsParty
      <3>2. CASE t = r.source
        BY <1>1, <2>2, <2>4, <3>2, SharedIsParty
      <3>3. CASE s # r.source /\ t # r.source
        <4>1. /\ <<s, id>> \in DOMAIN members /\ a = members[<<s, id>>].rev
              /\ <<t, id>> \in DOMAIN members
          <5>1. Tables
            BY FoundReadable
          <5>2. /\ DOMAIN members' = DOMAIN members \cup {<<r.source, x>> : x \in DOMAIN r.rows}
                /\ \A k \in DOMAIN members : k[1] # r.source => members'[k] = members[k]
            BY <5>1, CommitMembers
          <5>3. <<s, id>> \in DOMAIN members /\ <<t, id>> \in DOMAIN members
            BY <1>1, <3>3, <5>2
          <5> QED
            BY <2>1, <3>3, <5>2, <5>3
        <4>2. s \in DOMAIN bindings /\ t \in DOMAIN bindings
              /\ id \in MemberIds(s) /\ id \in MemberIds(t)
          BY <4>1, FoundMember
        <4>3. Registries[s][id] = Said(id, a)
          BY <4>1, <4>2, RegistriesSay
        <4>4. Registries[s][id].sheet # PartySheet => s = t
          <5>1. CatalogConsistent(Registries, {x \in DOMAIN bindings : IsActive(x)})
            BY FoundReadable DEF ReaderAccepts
          <5> QED
            BY <4>2, <5>1, RegistriesSay DEF CatalogConsistent
        <4>5. revisions[<<id, a>>].sheet = PartySheet
          BY <2>4, <4>3, <4>4 DEF Said
        <4>6. <<id, a>> \in DOMAIN revisions
          BY <4>1, FoundReadable DEF Tables, FeedInv, MemberInv
        <4> QED
          BY <4>5, <4>6, FoundReadable, CommitRevisions
      <3> QED
        BY <3>1, <3>2, <3>3
    <2> QED
      BY <2>1, <2>2, <2>3, <2>4 DEF NextSaid
  <1> DEFINE catalog == Registries'
             live == {s \in DOMAIN bindings' : IsActive(s)'}
  <1>2. ASSUME NEW s \in DOMAIN catalog, NEW t \in DOMAIN catalog,
               NEW id \in DOMAIN catalog[s] \cap DOMAIN catalog[t]
        PROVE  /\ catalog[s][id].sheet = catalog[t][id].sheet
               /\ catalog[s][id].sheet # PartySheet => s = t
               /\ catalog[s][id].rev = catalog[t][id].rev => catalog[s][id] = catalog[t][id]
               /\ s \in live => catalog[t][id].rev <= catalog[s][id].rev
    <2>1. /\ s \in DOMAIN bindings' /\ t \in DOMAIN bindings' /\ id \in StableId
          /\ <<s, id>> \in DOMAIN members' /\ <<t, id>> \in DOMAIN members'
          /\ catalog[s][id] = NextSaid(id, members'[<<s, id>>].rev)
          /\ catalog[t][id] = NextSaid(id, members'[<<t, id>>].rev)
      BY <1>2, NextRegistriesSay
    <2>2. s \in live => IsActive(s)'
      OBVIOUS
    <2> HIDE DEF catalog, live
    <2> QED
      BY <1>1, <2>1, <2>2
  <1> HIDE DEF catalog, live
  <1>3. /\ CatalogConsistent(Registries, {s \in DOMAIN bindings : IsActive(s)})'
           <=> CatalogConsistent(catalog, live)
    BY DEF catalog, live, CatalogConsistent
  <1> QED
    BY <1>2, <1>3 DEF CatalogConsistent

\* The reader accepts what a commit leaves.
LEMMA CommitKeepsReadable ==
    ASSUME Records, AllInv', NEW r, Commits(r)
    PROVE  ReaderAccepts'
  <1>1. userVersion' = 1 /\ generation' # 0
    <2>1. userVersion' = userVersion
      BY DEF Commits, Commit
    <2>2. generation' = generation + 1 /\ generation \in Nat
      BY FoundReadable, CommitImports DEF Tables, TypeOK
    <2>3. userVersion = 1
      BY FoundReadable DEF ReaderAccepts
    <2> QED
      BY <2>1, <2>2, <2>3
  <1>2. HistoryInv' /\ FeedInv' /\ MemberInv'
    BY DEF AllInv, IInv, Tables, FeedInv
  <1>3. OneSheet'
    <2>1. AllInv' => OneSheet'
      BY RowsHaveOneSheet, PTL
    <2> QED
      BY <2>1
  <1>4. ImportsReadable' /\ EventsReadable' /\ BindingsReadable'
    BY <1>2, CommitKeepsImportsReadable, CommitKeepsEventsReadable, CommitKeepsBindingsReadable
  <1>5. ASSUME NEW s \in DOMAIN bindings', NEW id \in MemberIds(s)'
        PROVE  MembershipReadable(s, id)'
    <2>1. <<s, id>> \in DOMAIN members'
      BY <1>5 DEF MemberIds
    <2> QED
      BY <1>2, <2>1, CommitKeepsMembershipReadable
  <1>6. CatalogConsistent(Registries, {s \in DOMAIN bindings : IsActive(s)})'
    BY <1>2, <1>3, CommitKeepsCatalog
  <1> QED
    BY <1>1, <1>4, <1>5, <1>6 DEF ReaderAccepts

-----------------------------------------------------------------------------
(* The other steps. *)

LEMMA QuietKeepsReadable ==
    ASSUME StoreReadable, UNCHANGED tables
    PROVE  StoreReadable'
  <1>1. /\ userVersion' = userVersion /\ generation' = generation
        /\ nextSequence' = nextSequence /\ bindings' = bindings /\ imports' = imports
        /\ revisions' = revisions /\ members' = members /\ events' = events
    BY DEF tables
  <1> SUFFICES ASSUME userVersion' = 1 PROVE ReaderAccepts'
    BY DEF StoreReadable
  <1>2. ReaderAccepts
    BY <1>1 DEF StoreReadable
  <1>3. ImportsReadable' = ImportsReadable
    BY <1>1 DEF ImportsReadable, EventsOf
  <1>4. EventsReadable' = EventsReadable
    BY <1>1 DEF EventsReadable
  <1>5. BindingsReadable' = BindingsReadable
    BY <1>1 DEF BindingsReadable, IsActive
  <1>6. ASSUME NEW s \in DOMAIN bindings, NEW id \in MemberIds(s)
        PROVE  MembershipReadable(s, id)'
    <2>1. MembershipReadable(s, id)
      BY <1>2 DEF ReaderAccepts
    <2>2. PICK m : m = members[<<s, id>>]
      OBVIOUS
    <2>3. members'[<<s, id>>] = m /\ HeadOf(s, id)' = HeadOf(s, id)
      BY <1>1, <2>2 DEF HeadOf
    <2>4. RevisionReadable(id, m.rev)
      BY <2>1, <2>2 DEF MembershipReadable
    <2>5. LastLiveHash(id)' = LastLiveHash(id)
      BY <1>1 DEF LastLiveHash
    <2>6. RevisionReadable(id, m.rev)'
      BY <1>1, <2>4, <2>5 DEF RevisionReadable
    <2>7. RevisionReadable(id, members[<<s, id>>].rev)'
      BY <2>3, <2>6 DEF RevisionReadable
    <2> QED
      BY <1>1, <2>1, <2>2, <2>3, <2>7 DEF MembershipReadable
  <1>7. CatalogConsistent(Registries, {s \in DOMAIN bindings : IsActive(s)})'
    <2>1. CatalogConsistent(Registries, {s \in DOMAIN bindings : IsActive(s)})
      BY <1>2 DEF ReaderAccepts
    <2>2. Registries' = Registries
      BY <1>1 DEF Registries, HeadOf, MemberIds
    <2>3. {s \in DOMAIN bindings' : IsActive(s)'} = {s \in DOMAIN bindings : IsActive(s)}
      BY <1>1 DEF IsActive
    <2> QED
      BY <2>1, <2>2, <2>3 DEF CatalogConsistent
  <1>8. \A s \in DOMAIN bindings' : MemberIds(s)' = MemberIds(s)
    BY <1>1 DEF MemberIds
  <1>9. IF generation' = 0
        THEN /\ nextSequence' = 1
             /\ \A t \in {imports', revisions', members', events'} : DOMAIN t = {}
        ELSE ImportsReadable' /\ EventsReadable'
    BY <1>1, <1>2, <1>3, <1>4 DEF ReaderAccepts
  <1> QED
    BY <1>1, <1>2, <1>5, <1>6, <1>7, <1>8, <1>9 DEF ReaderAccepts

\* Before the first binding there is nothing.
LEMMA NothingYet ==
    ASSUME Records, DOMAIN bindings = {}
    PROVE  /\ generation = 0 /\ nextSequence = 1
           /\ DOMAIN imports = {} /\ DOMAIN revisions = {}
           /\ DOMAIN members = {} /\ DOMAIN events = {}
  <1>1. Tables /\ HistoryInv
    BY DEF Records, AllInv, IInv
  <1>2. DOMAIN imports = {} /\ DOMAIN revisions = {} /\ DOMAIN members = {}
    BY <1>1 DEF Records, HeadInv, Tables, FeedInv, MemberInv, RevisionInv
  <1>3. DOMAIN events = {}
    BY <1>1, <1>2 DEF Tables, FeedInv, EventInv
  <1>4. generation = 0
    BY <1>1, <1>2 DEF HistoryInv
  <1>5. nextSequence = 1
    <2>1. DOMAIN events = 1..(nextSequence - 1) /\ nextSequence \in Nat \ {0}
      BY <1>1 DEF Tables, TypeOK, FeedInv, SequenceInv
    <2> QED
      BY <1>3, <2>1
  <1> QED
    BY <1>2, <1>3, <1>4, <1>5

LEMMA CreateKeepsReadable ==
    ASSUME Records, StoreReadable, NEW c \in Client, Create(c)
    PROVE  StoreReadable'
  <1>1. DOMAIN bindings = {}
    BY DEF Create, Records, AllInv, IInv, FreshInv
  <1>2. /\ userVersion' = 1 /\ generation' = generation /\ nextSequence' = nextSequence
        /\ imports' = imports /\ revisions' = revisions /\ members' = members
        /\ events' = events /\ bindings' = [s \in {FirstSource} |-> NewBinding]
    BY DEF Create
  <1>3. /\ generation' = 0 /\ nextSequence' = 1
        /\ \A t \in {imports', revisions', members', events'} : DOMAIN t = {}
    BY <1>1, <1>2, NothingYet
  <1>4. BindingsReadable'
    BY <1>2 DEF BindingsReadable, NewBinding, IsActive
  <1>5. \A s : MemberIds(s)' = {}
    BY <1>3 DEF MemberIds
  <1>6. CatalogConsistent(Registries, {s \in DOMAIN bindings : IsActive(s)})'
    BY <1>5 DEF CatalogConsistent, Registries
  <1> QED
    BY <1>2, <1>3, <1>4, <1>5, <1>6 DEF StoreReadable, ReaderAccepts

LEMMA RolloverKeepsReadable ==
    ASSUME Records, StoreReadable, NEW s \in Source, NEW t \in Source, Rollover(s, t)
    PROVE  StoreReadable'
  <1>1. /\ userVersion' = userVersion /\ generation' = generation
        /\ nextSequence' = nextSequence /\ imports' = imports
        /\ revisions' = revisions /\ members' = members /\ events' = events
        /\ IsActive(s) /\ bindings[s].lastImport # None
    BY DEF Rollover
  <1>2. /\ s \in DOMAIN bindings /\ t \notin DOMAIN bindings /\ s # t
        /\ DOMAIN bindings' = DOMAIN bindings \cup {t}
        /\ bindings'[t] = NewBinding /\ bindings'[s] = Archived(bindings[s])
        /\ \A x \in DOMAIN bindings \ {s} : bindings'[x] = bindings[x]
    BY RolloverBindings
  <1>3. Tables
    BY DEF Records, AllInv
  <1> SUFFICES ASSUME userVersion' = 1 PROVE ReaderAccepts'
    BY DEF StoreReadable
  <1>4. ReaderAccepts
    BY <1>1 DEF StoreReadable
  <1>5. /\ bindings'[s].lastImport = bindings[s].lastImport
        /\ bindings'[s].lastFile = bindings[s].lastFile
        /\ bindings'[s].state = "archived" /\ bindings'[s].final = bindings[s].lastFile
    <2>1. bindings[s] \in Binding
      BY <1>2, <1>3 DEF Tables, TypeOK, Table
    <2>2. PICK b \in Binding : b = bindings[s]
      BY <2>1
    <2>3. bindings'[s] = [b EXCEPT !.state = "archived", !.final = b.lastFile]
      BY <1>2, <2>2 DEF Archived
    <2> QED
      BY <2>2, <2>3 DEF Binding
  <1>6. /\ ~IsActive(s)' /\ IsActive(t)'
        /\ \A x \in DOMAIN bindings \ {s} : ~IsActive(x) /\ ~IsActive(x)'
    <2>1. \A x \in DOMAIN bindings \ {s} : ~IsActive(x)
      BY <1>1, <1>2, <1>4 DEF ReaderAccepts, BindingsReadable
    <2> QED
      BY <1>2, <1>5, <2>1 DEF IsActive, NewBinding
  <1>7. bindings[s].lastFile # None
    <2>1. /\ bindings[s].lastImport \in DOMAIN imports
          /\ imports[bindings[s].lastImport].file = bindings[s].lastFile
      BY <1>1, <1>2, <1>4 DEF ReaderAccepts, BindingsReadable
    <2>2. bindings[s].lastFile \in Workbooks
      BY <1>3, <2>1 DEF Tables, TypeOK, Table, ImportRow
    <2> QED
      BY <2>2, StoreAssumption
  <1>8. BindingsReadable'
    <2> DEFINE Fine(x, b) ==
          /\ b.lastImport # None =>
               /\ b.lastImport \in DOMAIN imports
               /\ imports[b.lastImport].source = x
               /\ imports[b.lastImport].file = b.lastFile
          /\ IF b.state = "active" THEN b.final = None
             ELSE b.final # None /\ (b.lastFile # None => b.final = b.lastFile)
    <2>1. \A x \in DOMAIN bindings : Fine(x, bindings[x])
      BY <1>4 DEF ReaderAccepts, BindingsReadable
    <2>2. Fine(s, bindings'[s])
      BY <1>2, <1>5, <1>7, <2>1
    <2>3. Fine(t, bindings'[t])
      BY <1>2 DEF NewBinding
    <2> HIDE DEF Fine
    <2>4. \A x \in DOMAIN bindings' : Fine(x, bindings'[x])
      BY <1>2, <2>1, <2>2, <2>3
    <2>5. \A x, y \in DOMAIN bindings' : IsActive(x)' /\ IsActive(y)' => x = y
      BY <1>2, <1>6
    <2> QED
      BY <1>1, <2>4, <2>5 DEF BindingsReadable, Fine
  <1>9. \A x : MemberIds(x)' = MemberIds(x)
    BY <1>1 DEF MemberIds
  <1>10. MemberIds(t) = {}
    BY <1>2, <1>3 DEF Tables, FeedInv, MemberInv, MemberIds
  <1>11. ASSUME NEW x \in DOMAIN bindings, NEW id \in MemberIds(x)
         PROVE  MembershipReadable(x, id)'
    <2>1. MembershipReadable(x, id)
      BY <1>4 DEF ReaderAccepts
    <2>2. PICK m : m = members[<<x, id>>]
      OBVIOUS
    <2>3. members'[<<x, id>>] = m /\ HeadOf(x, id)' = HeadOf(x, id)
      BY <1>1, <2>2 DEF HeadOf
    <2>4. RevisionReadable(id, m.rev)
      BY <2>1, <2>2 DEF MembershipReadable
    <2>5. LastLiveHash(id)' = LastLiveHash(id)
      BY <1>1 DEF LastLiveHash
    <2>6. RevisionReadable(id, m.rev)'
      BY <1>1, <2>4, <2>5 DEF RevisionReadable
    <2>7. RevisionReadable(id, members[<<x, id>>].rev)'
      BY <2>3, <2>6 DEF RevisionReadable
    <2>8. bindings'[x].lastImport = bindings[x].lastImport
      BY <1>2, <1>5
    <2> QED
      BY <1>1, <2>1, <2>2, <2>3, <2>7, <2>8 DEF MembershipReadable
  <1>12. \A x \in DOMAIN bindings', id \in StableId :
           id \in MemberIds(x)' => x \in DOMAIN bindings /\ id \in MemberIds(x)
    BY <1>2, <1>9, <1>10
  <1>13. CatalogConsistent(Registries, {x \in DOMAIN bindings : IsActive(x)})'
    <2> DEFINE old == Registries
               new == Registries'
               live == {x \in DOMAIN bindings : IsActive(x)}
               next == {x \in DOMAIN bindings' : IsActive(x)'}
    <2>1. CatalogConsistent(old, live)
      BY <1>4 DEF ReaderAccepts
    <2>2. /\ DOMAIN new = DOMAIN old \cup {t} /\ DOMAIN new[t] = {} /\ t \notin DOMAIN old
          /\ \A x \in DOMAIN old : new[x] = old[x]
      BY <1>1, <1>2, <1>9, <1>10 DEF Registries, HeadOf
    <2>3. \A x \in next : x = t
      BY <1>2, <1>6
    <2>4. CatalogConsistent(Registries, {x \in DOMAIN bindings : IsActive(x)})'
            <=> CatalogConsistent(new, next)
      BY DEF CatalogConsistent
    <2> HIDE DEF old, new, live, next
    <2>5. CatalogConsistent(new, next)
      BY <2>1, <2>2, <2>3 DEF CatalogConsistent
    <2> QED
      BY <2>4, <2>5
  <1>14. IF generation' = 0
         THEN /\ nextSequence' = 1
              /\ \A x \in {imports', revisions', members', events'} : DOMAIN x = {}
         ELSE ImportsReadable' /\ EventsReadable'
    <2>1. IF generation = 0
          THEN /\ nextSequence = 1
               /\ \A x \in {imports, revisions, members, events} : DOMAIN x = {}
          ELSE ImportsReadable /\ EventsReadable
      BY <1>4 DEF ReaderAccepts
    <2>2. ImportsReadable => ImportsReadable'
      BY <1>1, <1>2 DEF ImportsReadable, EventsOf
    <2>3. EventsReadable => EventsReadable'
      BY <1>1 DEF EventsReadable
    <2> QED
      BY <1>1, <2>1, <2>2, <2>3
  <1>15. \A x \in DOMAIN bindings' : \A id \in MemberIds(x)' : MembershipReadable(x, id)'
    <2>1. \A x : MemberIds(x) \subseteq StableId
      BY DEF MemberIds
    <2> QED
      BY <1>9, <1>11, <1>12, <2>1
  <1> QED
    BY <1>8, <1>13, <1>14, <1>15 DEF ReaderAccepts

-----------------------------------------------------------------------------
(* The invariant. *)

LEMMA HeadStep ==
    ASSUME Records, [Next]_vars
    PROVE  HeadInv'
  <1>1. Tables /\ HeadInv
    BY DEF Records, AllInv
  <1>2. CASE \E r : Commits(r)
    <2>1. PICK r : Commits(r)
      BY <1>2
    <2>2. IsFiniteSet(DOMAIN imports')
      BY <2>1, LeavesImports
    <2>3. /\ DOMAIN imports' = DOMAIN imports \cup {r.import}
          /\ \A i \in DOMAIN imports : imports'[i] = imports[i]
          /\ imports'[r.import].source = r.source
          /\ imports'[r.import] = NewImport(r, Was(r))
      BY <1>1, <2>1, CommitImports
    <2>4. /\ DOMAIN bindings' = DOMAIN bindings
          /\ \A s \in DOMAIN bindings : s # r.source => bindings'[s] = bindings[s]
          /\ bindings'[r.source].lastImport = r.import
      BY <1>1, <2>1, CommitBindings
    <2>5. r.source \in DOMAIN bindings /\ r.import # None
      BY <1>1, <2>1, CommittedRequest, StoreAssumption
    <2>6. imports'[r.import].import = r.import
      BY <2>3 DEF NewImport
    <2> QED
      BY <1>1, <2>2, <2>3, <2>4, <2>5, <2>6 DEF HeadInv
  <1>3. CASE \E c \in Client : Create(c)
    <2>1. PICK c \in Client : Create(c)
      BY <1>3
    <2>2. imports' = imports /\ (bindings' = bindings \/ userVersion = 0)
      BY <2>1 DEF Create
    <2>3. userVersion = 0 => DOMAIN imports = {}
      BY NothingYet DEF Records, AllInv, IInv, FreshInv
    <2> QED
      BY <1>1, <2>2, <2>3 DEF HeadInv
  <1>4. CASE \E s, t \in Source : Rollover(s, t)
    <2>1. PICK s \in Source, t \in Source : Rollover(s, t)
      BY <1>4
    <2>2. /\ s \in DOMAIN bindings /\ t \notin DOMAIN bindings
          /\ DOMAIN bindings' = DOMAIN bindings \cup {t}
          /\ bindings'[s] = Archived(bindings[s])
          /\ \A x \in DOMAIN bindings \ {s} : bindings'[x] = bindings[x]
      BY <2>1, RolloverBindings
    <2>3. bindings'[s].lastImport = bindings[s].lastImport
      <3>1. PICK b \in Binding : b = bindings[s]
        BY <1>1, <2>2 DEF Tables, TypeOK, Table
      <3>2. bindings'[s] = [b EXCEPT !.state = "archived", !.final = b.lastFile]
        BY <2>2, <3>1 DEF Archived
      <3> QED
        BY <3>1, <3>2 DEF Binding
    <2>4. imports' = imports
      BY <2>1 DEF Rollover
    <2> QED
      BY <1>1, <2>2, <2>3, <2>4 DEF HeadInv
  <1>5. CASE /\ ~\E r : Commits(r)
             /\ ~\E c \in Client : Create(c)
             /\ ~\E s, t \in Source : Rollover(s, t)
    <2>1. imports' = imports /\ bindings' = bindings
      BY <1>5, QuietSteps DEF tables
    <2> QED
      BY <1>1, <2>1 DEF HeadInv
  <1> QED
    BY <1>2, <1>3, <1>4, <1>5

LEMMA VoidStep ==
    ASSUME Records, [Next]_vars
    PROVE  VoidInv'
  <1>1. Tables /\ VoidInv
    BY DEF Records, AllInv
  <1>2. CASE \E r : Commits(r)
    <2>1. PICK r : Commits(r)
      BY <1>2
    <2>2. /\ DOMAIN revisions' =
               DOMAIN revisions \cup {<<id, NewRev(r, id)>> : id \in Changes(r)}
          /\ \A k \in DOMAIN revisions : revisions'[k] = revisions[k]
          /\ \A id \in Changes(r) : revisions'[<<id, NewRev(r, id)>>] = Written(r, id)
      BY <1>1, <2>1, CommitRevisions
    <2>3. ASSUME NEW id \in Changes(r), revisions'[<<id, NewRev(r, id)>>].lifecycle = "voided"
          PROVE  /\ <<id, NewRev(r, id) - 1>> \in DOMAIN revisions
                 /\ revisions[<<id, NewRev(r, id) - 1>>].lifecycle = "active"
      <3>1. revisions'[<<id, NewRev(r, id)>>] = Written(r, id)
        BY <2>2
      <3>2. Written(r, id).lifecycle = "voided"
        BY <2>3, <3>1
      <3>3. id \notin DOMAIN r.rows
        BY <3>2 DEF Written
      <3>4. id \in DOMAIN Was(r) /\ Was(r)[id].lifecycle = "active"
        BY <1>1, <2>1, <3>3, PlanCases
      <3>5. PICK k : k = Was(r)[id].rev
        OBVIOUS
      <3>6. k \in Nat /\ Was(r)[id] = Said(id, k)
        BY <1>1, <2>1, <3>4, <3>5, CommittedPlan
      <3>7. NewRev(r, id) = k + 1 /\ <<id, k>> \in DOMAIN revisions
        BY <1>1, <2>1, <3>4, <3>5, PredecessorExists
      <3>8. NewRev(r, id) - 1 = k
        BY <3>6, <3>7
      <3>9. revisions[<<id, k>>].lifecycle = "active"
        BY <3>4, <3>6 DEF Said
      <3> QED
        BY <3>7, <3>8, <3>9
    <2> SUFFICES ASSUME NEW k \in DOMAIN revisions', revisions'[k].lifecycle = "voided"
                 PROVE  /\ <<k[1], k[2] - 1>> \in DOMAIN revisions'
                        /\ revisions'[<<k[1], k[2] - 1>>].lifecycle = "active"
      BY DEF VoidInv
    <2>4. CASE k \in DOMAIN revisions
      BY <1>1, <2>2, <2>4 DEF VoidInv
    <2>5. CASE k \notin DOMAIN revisions
      <3>1. PICK id \in Changes(r) : k = <<id, NewRev(r, id)>>
        BY <2>2, <2>5
      <3>2. k[1] = id /\ k[2] = NewRev(r, id)
        BY <3>1
      <3> QED
        BY <2>2, <2>3, <3>1, <3>2
    <2> QED
      BY <2>4, <2>5
  <1>3. CASE ~\E r : Commits(r)
    <2>1. revisions' = revisions
      <3>1. CASE \E c \in Client : Create(c)
        BY <3>1 DEF Create
      <3>2. CASE \E s, t \in Source : Rollover(s, t)
        BY <3>2 DEF Rollover
      <3>3. CASE /\ ~\E c \in Client : Create(c)
                 /\ ~\E s, t \in Source : Rollover(s, t)
        BY <1>3, <3>3, QuietSteps DEF tables
      <3> QED
        BY <3>1, <3>2, <3>3
    <2> QED
      BY <1>1, <2>1 DEF VoidInv
  <1> QED
    BY <1>2, <1>3

\* Only Prepare makes a request; every other step hands on the one there is.
LEMMA MintedStep ==
    ASSUME Records, [Next]_vars
    PROVE  MintedInv'
  <1> DEFINE Held(d) == request[d] # None \/ pc[d] \in {"sent", "writing"}
             Clean(req) == \A id \in DOMAIN req.events : req.events[id][2] = id
  <1>1. CallerInv /\ MintedInv
    BY DEF Records, AllInv, IInv
  <1>2. IsOfCallers(request) /\ pc \in [Client -> Place]
    BY <1>1 DEF CallerInv
  <1>3. ASSUME request' = request, \A d \in Client : Held(d)' => Held(d)
        PROVE  MintedInv'
    BY <1>1, <1>3 DEF MintedInv
  <1>4. ASSUME NEW c \in Client, NEW i \in ImportId, NEW s \in Source, NEW rows \in Workbooks,
               Prepare(c, i, s, rows)
        PROVE  MintedInv'
    <2> DEFINE changed == IF IsActive(s) THEN Changed(rows, Prior(s, rows)) ELSE {}
    <2>1. PICK minted \in {i} \cup StrayImports,
               forgotten \in {{}} \cup IF ForgetsEvents THEN {StableId} ELSE {} :
            request' = [request EXCEPT ![c] =
                  [import |-> i, source |-> s, expected |-> generation, rows |-> rows,
                   events |-> [id \in changed \ forgotten |-> <<minted, id>>]]]
      BY <1>4 DEF Prepare
    <2> HIDE DEF changed
    <2>2. DOMAIN request = Client
      BY <1>2 DEF IsOfCallers
    <2>3. request'[c].events =
            [id \in changed \ forgotten |-> <<minted, id>>]
      BY <2>1, <2>2
    <2>4. Clean(request'[c])
      BY <2>3
    <2>5. \A d \in Client \ {c} : request'[d] = request[d] /\ pc'[d] = pc[d]
      BY <1>2, <1>4, <2>1, <2>2 DEF Prepare
    <2> HIDE DEF Clean
    <2>6. \A d \in Client : Held(d)' => Clean(request'[d])
      BY <1>1, <2>4, <2>5 DEF MintedInv, Clean
    <2> QED
      BY <2>6 DEF MintedInv, Clean
  <1>5. ASSUME NEW c \in Client,
               FindEmpty(c) \/ Create(c) \/ Retry(c) \/ Reject(c) \/ Begin(c) \/ Busy(c)
                 \/ Refuse(c) \/ Replay(c) \/ Commit(c) \/ RollBack(c)
                 \/ RefuseNested(c) \/ RollBackRaises(c) \/ ReadRollBackRaises(c) \/ Disconnect(c)
                 \/ \E s \in Source : OpenExisting(c, s)
        PROVE  MintedInv'
    <2>1. request' = request
      BY <1>5 DEF FindEmpty, Create, Retry, Reject, Begin, Busy, Refuse, Replay, Commit,
                  RollBack, RefuseNested, RollBackRaises, ReadRollBackRaises, Disconnect,
                  WantsToWrite, OpenExisting, Answer, Fails, callers
    <2>2. \A d \in Client \ {c} : pc'[d] = pc[d]
      BY <1>2, <1>5 DEF FindEmpty, Create, Retry, Reject, Begin, Busy, Refuse, Replay, Commit,
                  RollBack, RefuseNested, RollBackRaises, ReadRollBackRaises, Disconnect,
                  WantsToWrite, OpenExisting, Answer, Fails, callers
    <2>3. pc'[c] \in {"sent", "writing"} => request[c] # None \/ pc[c] \in {"sent", "writing"}
      BY <1>2, <1>5 DEF FindEmpty, Create, Retry, Reject, Begin, Busy, Refuse, Replay, Commit,
                  RollBack, RefuseNested, RollBackRaises, ReadRollBackRaises, Disconnect,
                  WantsToWrite, OpenExisting, Answer, Fails, callers
    <2> QED
      BY <1>3, <2>1, <2>2, <2>3
  <1>6. ASSUME NEW s \in Source, NEW t \in Source, Rollover(s, t)
        PROVE  MintedInv'
    BY <1>3, <1>6 DEF Rollover, callers
  <1>7. ASSUME UNCHANGED vars PROVE MintedInv'
    BY <1>3, <1>7 DEF vars, callers
  <1> QED
    BY <1>4, <1>5, <1>6, <1>7 DEF Next

LEMMA RecordsStep == Records /\ [Next]_vars => Records'
  <1> SUFFICES ASSUME Records, [Next]_vars PROVE Records'
    OBVIOUS
  <1>1. AllInv'
    BY AllInvStep DEF Records
  <1> QED
    BY <1>1, HeadStep, VoidStep, MintedStep DEF Records

LEMMA ReadableStep == Records /\ StoreReadable /\ [Next]_vars => StoreReadable'
  <1> SUFFICES ASSUME Records, StoreReadable, [Next]_vars PROVE StoreReadable'
    OBVIOUS
  <1>1. CASE \E r : Commits(r)
    <2>1. AllInv'
      BY AllInvStep DEF Records
    <2>2. ReaderAccepts'
      BY <1>1, <2>1, CommitKeepsReadable
    <2> QED
      BY <2>2 DEF StoreReadable
  <1>2. CASE \E c \in Client : Create(c)
    BY <1>2, CreateKeepsReadable
  <1>3. CASE \E s, t \in Source : Rollover(s, t)
    BY <1>3, RolloverKeepsReadable
  <1>4. CASE /\ ~\E r : Commits(r)
             /\ ~\E c \in Client : Create(c)
             /\ ~\E s, t \in Source : Rollover(s, t)
    BY <1>4, QuietSteps, QuietKeepsReadable
  <1> QED
    BY <1>1, <1>2, <1>3, <1>4

LEMMA InitReadable == Init => Records /\ StoreReadable
  <1> SUFFICES ASSUME Init PROVE Records /\ StoreReadable
    OBVIOUS
  <1>1. DOMAIN imports = {} /\ DOMAIN revisions = {} /\ userVersion = 0
    BY DEF Init, EmptyTable
  <1>2. HeadInv
    BY <1>1, FS_EmptySet DEF HeadInv
  <1>3. VoidInv /\ StoreReadable
    BY <1>1 DEF VoidInv, StoreReadable
  <1>4. MintedInv
    BY DEF Init, MintedInv
  <1> QED
    BY <1>2, <1>3, <1>4, InitAllInv DEF Records

-----------------------------------------------------------------------------
(* The theorems. *)

\* What the reader's checks rest on holds always (initialize, read, commit and
\* rollover).
THEOREM ReaderInvariance == Spec => [](Records /\ StoreReadable)
  <1> QED
    BY InitReadable, RecordsStep, ReadableStep, PTL DEF Spec

\* Whatever callers commit, retry, lose and roll over, the reader's checks,
\* all of them, pass: no call ever ends in INCONSISTENT_STATE.
THEOREM StoreStaysReadable == Spec => []StoreReadable
  <1> QED
    BY ReaderInvariance, PTL

-----------------------------------------------------------------------------
(* The store implements the ledger. *)

\* The feed and the history of the ledger, as the refinement mapping defines them.
Change(q) == [id |-> events[q].id, sheet |-> events[q].sheet,
              hash |-> events[q].hash, source |-> events[q].source]
Feed == [q \in 1..(nextSequence - 1) |-> Change(q)]
Entry(i) == [import |-> imports[i].import, source |-> imports[i].source,
             rows |-> imports[i].file]
History == [g \in 1..generation |-> Entry(ImportOf(g))]

\* The feed is a sequence.
LEMMA FeedIsSequence ==
    ASSUME Tables
    PROVE  /\ Len(Feed) = nextSequence - 1 /\ DOMAIN Feed = DOMAIN events
           /\ DOMAIN events = 1..(nextSequence - 1) /\ nextSequence \in Nat \ {0}
           /\ \A q \in DOMAIN events : Feed[q] = Change(q)
  <1>1. DOMAIN events = 1..(nextSequence - 1) /\ nextSequence \in Nat \ {0}
    BY DEF Tables, TypeOK, FeedInv, SequenceInv
  <1>2. PICK n \in Nat : n = nextSequence - 1
    BY <1>1
  <1>3. DOMAIN Feed = 1..n
    BY <1>2 DEF Feed
  <1>4. Len(Feed) = n
    BY <1>3, <1>2
  <1> QED
    BY <1>1, <1>2, <1>3, <1>4 DEF Feed

\* The ledger has heard of a row when the outbox has an event of it.
LEMMA SpokenMeans ==
    ASSUME Tables, NEW id
    PROVE  Ledger!Spoken(id) <=> \E q \in DOMAIN events : events[q].id = id
  <1>1. Ledger!Spoken(id) <=> \E q \in 1..Len(Feed) : Feed[q].id = id
    BY DEF Ledger!Spoken, Feed, Change
  <1> QED
    BY <1>1, FeedIsSequence DEF Change

\* The last word on a row is what its last revision says, and comes from a
\* source that knows the row.
LEMMA LastWordSays ==
    ASSUME Tables, NEW id, NEW k, Top(id, k)
    PROVE  /\ Ledger!Spoken(id)
           /\ Ledger!LastWord(id).sheet = revisions[<<id, k>>].sheet
           /\ Ledger!LastWord(id).hash = revisions[<<id, k>>].hash
           /\ <<Ledger!LastWord(id).source, id>> \in DOMAIN members
  <1> DEFINE IsLast(q) == /\ Feed[q].id = id
                          /\ \A p \in (q + 1)..Len(Feed) : Feed[p].id # id
  <1>1. PICK last : last = LastSequence(id)
    OBVIOUS
  <1>2. /\ last \in DOMAIN events /\ events[last].id = id /\ events[last].rev = k
        /\ \A p \in DOMAIN events : events[p].id = id => p <= last
    BY <1>1, LastSays
  <1>3. Ledger!LastWord(id) = Feed[CHOOSE q \in 1..Len(Feed) : IsLast(q)]
    BY DEF Ledger!LastWord, Feed, Change
  <1>4. \A q \in 1..Len(Feed) : IsLast(q) <=> q = last
    <2>1. /\ DOMAIN events = 1..Len(Feed) /\ Len(Feed) \in Nat
          /\ \A q \in 1..Len(Feed) : Feed[q].id = events[q].id
      BY FeedIsSequence DEF Change
    <2>2. last \in 1..Len(Feed)
      BY <1>2, <2>1
    <2>3. IsLast(last)
      <3>1. \A p \in (last + 1)..Len(Feed) : p \in 1..Len(Feed) /\ p > last
        BY <2>1, <2>2
      <3>2. \A p \in 1..Len(Feed) : p > last => Feed[p].id # id
        BY <1>2, <2>1
      <3> QED
        BY <1>2, <2>1, <2>2, <3>1, <3>2
    <2>4. ASSUME NEW q \in 1..Len(Feed), IsLast(q) PROVE q = last
      <3>1. q <= last
        BY <1>2, <2>1, <2>4
      <3>2. ~(last \in (q + 1)..Len(Feed))
        BY <1>2, <2>1, <2>2, <2>4
      <3> QED
        BY <2>1, <2>2, <3>1, <3>2
    <2> HIDE DEF IsLast
    <2> QED
      BY <2>3, <2>4
  <1>5. last \in 1..Len(Feed)
    BY <1>2, FeedIsSequence
  <1> HIDE DEF IsLast
  <1>6. Ledger!LastWord(id) = Feed[last]
    BY <1>3, <1>4, <1>5
  <1>7. Ledger!LastWord(id) = Change(last)
    BY <1>2, <1>6, FeedIsSequence
  <1>8. /\ revisions[<<id, k>>].sheet = events[last].sheet
        /\ revisions[<<id, k>>].hash = events[last].hash
        /\ <<events[last].source, id>> \in DOMAIN members
    BY <1>2 DEF Tables, FeedInv, EventInv
  <1>9. Ledger!Spoken(id)
    BY <1>2, SpokenMeans
  <1> QED
    BY <1>7, <1>8, <1>9 DEF Change

\* The imports by generation.
LEMMA ImportsInOrder ==
    ASSUME HistoryInv
    PROVE  /\ \A g \in 1..generation :
                ImportOf(g) \in DOMAIN imports /\ imports[ImportOf(g)].committed = g
           /\ \A i \in DOMAIN imports :
                imports[i].committed \in 1..generation /\ ImportOf(imports[i].committed) = i
  <1>1. ASSUME NEW g \in 1..generation
        PROVE  ImportOf(g) \in DOMAIN imports /\ imports[ImportOf(g)].committed = g
    BY DEF HistoryInv, ImportOf
  <1> QED
    BY <1>1 DEF HistoryInv

\* The history is a sequence, one entry per generation.
LEMMA HistoryIsSequence ==
    ASSUME HistoryInv
    PROVE  /\ Len(History) = generation /\ DOMAIN History = 1..generation
           /\ \A g \in 1..generation : History[g] = Entry(ImportOf(g))
  BY DEF HistoryInv, History

\* A source ever held a row when it has a membership for it.
LEMMA EverHeldMeans ==
    ASSUME HistoryInv, NEW s, NEW id
    PROVE  Ledger!EverHeld(s, id) <=>
             \E i \in DOMAIN imports : imports[i].source = s /\ id \in DOMAIN imports[i].file
  <1>1. Ledger!EverHeld(s, id) <=>
          \E n \in 1..Len(History) : History[n].source = s /\ id \in DOMAIN History[n].rows
    BY DEF Ledger!EverHeld, History, Entry
  <1>2. Ledger!EverHeld(s, id) <=>
          \E n \in 1..generation : LET i == ImportOf(n)
                                   IN imports[i].source = s /\ id \in DOMAIN imports[i].file
    BY <1>1, HistoryIsSequence DEF Entry
  <1> QED
    BY <1>2, ImportsInOrder

-----------------------------------------------------------------------------
(* What a commit adds to the ledger. *)

\* The last word on a row the plan knows is what the plan compares it with.
LEMMA WordOfKnown ==
    ASSUME Records, NEW r, Commits(r), NEW id \in DOMAIN Was(r)
    PROVE  /\ Ledger!Spoken(id)
           /\ Ledger!LastWord(id).sheet = Was(r)[id].sheet
           /\ Ledger!LastWord(id).hash = Was(r)[id].hash
           /\ Ledger!Live(id) <=> Was(r)[id].lifecycle = "active"
           /\ <<Ledger!LastWord(id).source, id>> \in DOMAIN members
  <1>1. PICK k : Was(r)[id] = Said(id, k) /\ Top(id, k)
    BY FoundReadable, CommittedPlan
  <1>2. /\ Ledger!Spoken(id)
        /\ Ledger!LastWord(id).sheet = Was(r)[id].sheet
        /\ Ledger!LastWord(id).hash = Was(r)[id].hash
        /\ <<Ledger!LastWord(id).source, id>> \in DOMAIN members
    BY <1>1, FoundReadable, LastWordSays DEF Said
  <1>3. /\ Was(r)[id].lifecycle = revisions[<<id, k>>].lifecycle
        /\ Was(r)[id].hash = revisions[<<id, k>>].hash
    BY <1>1 DEF Said
  <1>4. revisions[<<id, k>>].hash = None <=> revisions[<<id, k>>].lifecycle = "voided"
    <2>1. RevisionReadable(id, k)
      BY <1>1, FoundTop
    <2>2. PICK head : head = revisions[<<id, k>>]
      OBVIOUS
    <2>3. (head.hash = None) = (head.lifecycle = "voided")
      BY <2>1, <2>2, Zenon DEF RevisionReadable
    <2> QED
      BY <2>2, <2>3
  <1>5. revisions[<<id, k>>].lifecycle \in {"active", "voided"}
    BY <1>1, FoundReadable DEF Top, Tables, TypeOK, Table, Revision, Lifecycle
  <1>6. Ledger!Live(id) <=> Ledger!Spoken(id) /\ Ledger!LastWord(id).hash # None
    BY DEF Ledger!Live
  <1> QED
    BY <1>2, <1>3, <1>4, <1>5, <1>6

\* A row that is new to the store was never spoken of.
LEMMA UnknownIsUnspoken ==
    ASSUME Records, NEW r, Commits(r), NEW id \in DOMAIN r.rows \ DOMAIN Was(r)
    PROVE  ~Ledger!Spoken(id)
  <1> SUFFICES ASSUME NEW q \in DOMAIN events, events[q].id = id PROVE FALSE
    BY FoundReadable, SpokenMeans
  <1>1. <<id, events[q].rev>> \in DOMAIN revisions
    BY FoundReadable DEF Tables, FeedInv, EventInv
  <1>2. events[q].rev \in Nat
    BY FoundReadable DEF Tables, TypeOK, Table, Event
  <1> QED
    BY <1>1, <1>2, FoundReadable, CommittedPlan

\* An admitted request asks for an import the ledger admits.
LEMMA CommitIsAdmissible ==
    ASSUME Records, NEW r, Commits(r)
    PROVE  Ledger!Admissible(r.source, r.rows)
  <1>1. ASSUME NEW id \in DOMAIN r.rows, Ledger!Spoken(id)
        PROVE  /\ Ledger!LastWord(id).sheet = r.rows[id].sheet
               /\ r.rows[id].sheet # PartySheet => Ledger!LastWord(id).source = r.source
    <2>1. id \in DOMAIN Was(r)
      BY <1>1, UnknownIsUnspoken
    <2>2. PICK t : t = Ledger!LastWord(id).source /\ <<t, id>> \in DOMAIN members
      BY <2>1, WordOfKnown
    <2>3. t \in DOMAIN bindings /\ id \in MemberIds(t)
      BY <2>2, FoundMember
    <2>4. r.rows[id].sheet = Was(r)[id].sheet
      BY <2>1, FoundReadable, CommittedPlan
    <2>5. Was(r)[id].sheet # PartySheet => t = r.source
      BY <2>1, <2>3, FoundReadable, CommittedPlan
    <2> QED
      BY <2>1, <2>2, <2>4, <2>5, WordOfKnown
  <1> QED
    BY <1>1 DEF Ledger!Admissible

\* What a changed row puts into the feed.
News(r, id) == [id |-> id, sheet |-> ItemSheet(r.rows, Was(r), id),
                hash |-> NewHash(r, id), source |-> r.source]

\* The rows a commit changes are those on which the workbook and the last word differ.
LEMMA CommitMakesDifferences ==
    ASSUME Records, NEW r, Commits(r)
    PROVE  Ledger!Differences(r.source, r.rows) = {News(r, id) : id \in Changes(r)}
  <1> DEFINE said == {x \in DOMAIN r.rows : ~Ledger!Live(x)
                                            \/ Ledger!LastWord(x).hash # r.rows[x].hash}
             gone == {x \in StableId \ DOMAIN r.rows :
                        Ledger!EverHeld(r.source, x) /\ Ledger!Live(x)}
  <1>1. \A x \in DOMAIN r.rows : x \in said <=> x \in Changes(r)
    <2> SUFFICES ASSUME NEW x \in DOMAIN r.rows PROVE x \in said <=> x \in Changes(r)
      OBVIOUS
    <2>1. CASE x \notin DOMAIN Was(r)
      <3>1. ~Ledger!Live(x)
        BY <2>1, UnknownIsUnspoken DEF Ledger!Live
      <3>2. x \in Changes(r)
        BY <2>1 DEF Changes, Changed, Inserted
      <3> QED
        BY <3>1, <3>2
    <2>2. CASE x \in DOMAIN Was(r)
      <3>1. /\ Ledger!Live(x) <=> Was(r)[x].lifecycle = "active"
            /\ Ledger!LastWord(x).hash = Was(r)[x].hash
        BY <2>2, WordOfKnown
      <3>2. x \in Changes(r) <=> Was(r)[x].lifecycle # "active" \/ Was(r)[x].hash # r.rows[x].hash
        BY <2>2 DEF Changes, Changed, Inserted, Edited, Voided, Unchanged
      <3> QED
        BY <3>1, <3>2
    <2> QED
      BY <2>1, <2>2
  <1>2. \A x : x \in gone <=> x \in Changes(r) /\ x \notin DOMAIN r.rows
    <2>1. \A x \in DOMAIN Was(r) \ DOMAIN r.rows : x \in MemberIds(r.source)
      BY FoundReadable, CommittedPlan
    <2>2. HistoryInv
      BY DEF Records, AllInv, IInv
    <2>3. ASSUME NEW x \in gone PROVE x \in Changes(r) /\ x \notin DOMAIN r.rows
      <3>1. PICK i \in DOMAIN imports : imports[i].source = r.source /\ x \in DOMAIN imports[i].file
        BY <2>2, EverHeldMeans
      <3>2. <<r.source, x>> \in DOMAIN members
        BY <3>1, FoundReadable DEF Tables, FeedInv, FileInv
      <3>3. x \in DOMAIN Was(r)
        BY <3>2, FoundReadable, CommittedPlan DEF MemberIds
      <3>4. Was(r)[x].lifecycle = "active"
        BY <3>3, WordOfKnown
      <3> QED
        BY <3>3, <3>4 DEF Changes, Changed, Voided
    <2>4. ASSUME NEW x \in Changes(r), x \notin DOMAIN r.rows PROVE x \in gone
      <3>1. /\ x \in MemberIds(r.source) /\ x \in DOMAIN Was(r)
            /\ Was(r)[x].lifecycle = "active" /\ x \in StableId
        BY <2>4, FoundReadable, PlanCases DEF MemberIds
      <3>2. Ledger!Live(x)
        BY <3>1, WordOfKnown
      <3>3. <<r.source, x>> \in DOMAIN members
        BY <3>1 DEF MemberIds
      <3>4. \E i \in DOMAIN imports : imports[i].source = r.source /\ x \in DOMAIN imports[i].file
        BY <3>3, FoundReadable DEF Tables, FeedInv, MemberInv
      <3>5. Ledger!EverHeld(r.source, x)
        BY <2>2, <3>4, EverHeldMeans
      <3> QED
        BY <2>4, <3>1, <3>2, <3>5
    <2> HIDE DEF gone
    <2> QED
      BY <2>3, <2>4
  <1>3. \A x \in gone : Ledger!LastWord(x).sheet = Was(r)[x].sheet
    <2>1. \A x \in gone : x \in DOMAIN Was(r)
      BY <1>2, FoundReadable, PlanCases
    <2> QED
      BY <2>1, WordOfKnown
  <1>4. Ledger!Differences(r.source, r.rows) =
          {[id |-> id, sheet |-> r.rows[id].sheet, hash |-> r.rows[id].hash,
            source |-> r.source] : id \in said}
          \cup
          {[id |-> id, sheet |-> Ledger!LastWord(id).sheet, hash |-> None,
            source |-> r.source] : id \in gone}
    BY DEF Ledger!Differences
  <1>5. said \subseteq DOMAIN r.rows
    OBVIOUS
  <1> HIDE DEF said, gone
  <1>6. \A x \in said : News(r, x) = [id |-> x, sheet |-> r.rows[x].sheet,
                                      hash |-> r.rows[x].hash, source |-> r.source]
    BY <1>5 DEF News, ItemSheet, NewHash
  <1>7. \A x \in gone : News(r, x) = [id |-> x, sheet |-> Ledger!LastWord(x).sheet,
                                      hash |-> None, source |-> r.source]
    BY <1>2, <1>3 DEF News, ItemSheet, NewHash
  <1>8. Changes(r) = said \cup gone
    <2>1. \A x : x \in Changes(r) <=> x \in said \/ x \in gone
      BY <1>1, <1>2, <1>5
    <2> QED
      BY <2>1
  <1>9. Ledger!Differences(r.source, r.rows) =
          {News(r, x) : x \in said} \cup {News(r, x) : x \in gone}
    BY <1>4, <1>6, <1>7
  <1> QED
    BY <1>8, <1>9

\* Of two changed rows the one with the lower position precedes.
LEMMA PositionsFollowOrder ==
    ASSUME NEW rows, NEW prior, IsFiniteSet(Changed(rows, prior)),
           \A id \in Changed(rows, prior) : id \in Nat /\ ItemSheet(rows, prior, id) \in Nat,
           NEW a \in Changed(rows, prior), NEW b \in Changed(rows, prior),
           Position(rows, prior, a) < Position(rows, prior, b)
    PROVE  Precedes(rows, prior, a, b)
  <1> DEFINE changed == Changed(rows, prior)
             Before(id) == {other \in changed : Precedes(rows, prior, other, id)}
  <1>1. Precedes(rows, prior, a, b) \/ Precedes(rows, prior, b, a)
    <2>1. a # b
      <3>1. Position(rows, prior, a) \in Int
        BY PositionsNumber
      <3> QED
        BY <3>1
    <2> QED
      BY <2>1 DEF Precedes
  <1>2. ASSUME Precedes(rows, prior, b, a) PROVE FALSE
    <2>1. Before(b) \in SUBSET Before(a)
      BY <1>2 DEF Precedes
    <2>2. IsFiniteSet(Before(a))
      <3>1. Before(a) \in SUBSET changed
        OBVIOUS
      <3> HIDE DEF Before
      <3> QED
        BY <3>1, FS_Subset
    <2> HIDE DEF Before
    <2>3. Cardinality(Before(b)) <= Cardinality(Before(a))
      BY <2>1, <2>2, FS_Subset
    <2>4. /\ Cardinality(Before(a)) \in Nat /\ Cardinality(Before(b)) \in Nat
      BY <2>1, <2>2, FS_Subset, FS_CardinalityType
    <2>5. /\ Position(rows, prior, a) = Cardinality(Before(a))
          /\ Position(rows, prior, b) = Cardinality(Before(b))
      BY DEF Position, Before
    <2> QED
      BY <2>3, <2>4, <2>5
  <1> QED
    BY <1>1, <1>2

\* As many differences as changed rows.
LEMMA NewsAreMany ==
    ASSUME Tables, NEW r, Commits(r)
    PROVE  Cardinality({News(r, id) : id \in Changes(r)}) = Cardinality(Changes(r))
  <1> DEFINE news == {News(r, id) : id \in Changes(r)}
             f == [id \in Changes(r) |-> News(r, id)]
  <1>1. IsFiniteSet(Changes(r))
    BY CommittedPlan
  <1>2. f \in [Changes(r) -> news]
    OBVIOUS
  <1>3. \A t \in news : \E id \in Changes(r) : f[id] = t
    OBVIOUS
  <1>4. \A a, b \in Changes(r) : f[a] = f[b] => a = b
    BY DEF News
  <1> HIDE DEF f, news
  <1>5. f \in Surjection(Changes(r), news)
    BY <1>2, <1>3 DEF Surjection
  <1>6. f \in Injection(Changes(r), news)
    BY <1>2, <1>4 DEF Injection, IsInjective
  <1> QED
    BY <1>1, <1>5, <1>6, FS_Surjection DEF news

\* The ledger counts as the store does.
LEMMA LedgerCounts == \A S : Ledger!Cardinality(S) = Cardinality(S)
  BY DEF Ledger!Cardinality, Cardinality

\* An entry of the feed after a step.
NextChange(q) == [id |-> events'[q].id, sheet |-> events'[q].sheet,
                  hash |-> events'[q].hash, source |-> events'[q].source]

\* The new events, in their order, are the differences in plan order.
LEMMA NewsComeInOrder ==
    ASSUME Tables, NEW r, Commits(r)
    PROVE  LET n == Cardinality(Changes(r))
               news == [p \in 1..n |-> NextChange(nextSequence - 1 + p)]
           IN  news \in Ledger!InPlanOrder({News(r, id) : id \in Changes(r)})
  <1> DEFINE n == Cardinality(Changes(r))
             made == {News(r, id) : id \in Changes(r)}
             news == [p \in 1..n |-> NextChange(nextSequence - 1 + p)]
             Pos(id) == Position(r.rows, Was(r), id)
  <1>1. /\ n \in Nat /\ nextSequence' = nextSequence + n /\ nextSequence \in Nat \ {0}
        /\ DOMAIN events = 1..(nextSequence - 1) /\ DOMAIN events' = 1..(nextSequence' - 1)
        /\ \A q \in DOMAIN events' \ DOMAIN events : \E id \in Changes(r) : q = Slot(r, id)
    BY CommitEvents
  <1>2. ASSUME NEW id \in Changes(r) PROVE NextChange(Slot(r, id)) = News(r, id)
    BY NewEventSays DEF NextChange, News
  <1>3. /\ IsFiniteSet(Changes(r))
        /\ \A id \in Changes(r) : id \in Nat /\ ItemSheet(r.rows, Was(r), id) \in Nat
    BY CommittedPlan, PlanAssumption
  <1>4. \A id \in Changes(r) : Pos(id) \in 0..(n - 1)
    <2>1. LET changed == Changed(r.rows, Was(r))
          IN  \A id \in changed : Position(r.rows, Was(r), id) \in 0..(Cardinality(changed) - 1)
      BY <1>3, PositionsNumber DEF Changes
    <2> QED
      BY <2>1 DEF Changes
  <1>5. ASSUME NEW p \in 1..n
        PROVE  \E id \in Changes(r) : Pos(id) = p - 1 /\ news[p] = News(r, id)
    <2>1. nextSequence - 1 + p \in DOMAIN events' \ DOMAIN events
      BY <1>1
    <2>2. PICK id \in Changes(r) : nextSequence - 1 + p = Slot(r, id)
      BY <1>1, <2>1
    <2>3. news[p] = News(r, id)
      BY <1>2, <2>2
    <2>4. Pos(id) = p - 1
      BY <1>1, <1>4, <2>2 DEF Slot
    <2> QED
      BY <2>3, <2>4
  <1>6. Cardinality(made) = n
    BY NewsAreMany
  <1>7. DOMAIN news = 1..n
    OBVIOUS
  <1>8. ASSUME NEW p \in 1..n, NEW q \in 1..n, p < q
        PROVE  \/ news[p].sheet < news[q].sheet
               \/ news[p].sheet = news[q].sheet /\ news[p].id < news[q].id
    <2>1. PICK a \in Changes(r) : Pos(a) = p - 1 /\ news[p] = News(r, a)
      BY <1>5
    <2>2. PICK b \in Changes(r) : Pos(b) = q - 1 /\ news[q] = News(r, b)
      BY <1>5
    <2>3. Pos(a) < Pos(b)
      BY <1>1, <1>8, <2>1, <2>2
    <2>4. Precedes(r.rows, Was(r), a, b)
      BY <1>3, <2>3, PositionsFollowOrder DEF Changes
    <2> HIDE DEF news
    <2> QED
      BY <2>1, <2>2, <2>4 DEF Precedes, News
  <1>9. news \in [1..n -> made]
    BY <1>5
  <1> HIDE DEF news, made, n
  <1>10. /\ news \in [1..Cardinality(made) -> made]
         /\ \A p, q \in DOMAIN news : p < q =>
              \/ news[p].sheet < news[q].sheet
              \/ news[p].sheet = news[q].sheet /\ news[p].id < news[q].id
    BY <1>6, <1>7, <1>8, <1>9
  <1>11. news \in Ledger!InPlanOrder(made)
    BY <1>10, LedgerCounts, Zenon DEF Ledger!InPlanOrder
  <1> QED
    BY <1>11 DEF news, made, n

\* A commit appends its events to the feed, one place each, in the order of the plan.
LEMMA CommitAppendsNews ==
    ASSUME Tables, NEW r, Commits(r)
    PROVE  LET n == Cardinality(Changes(r))
           IN  Feed' = Feed \o [p \in 1..n |-> NextChange(nextSequence - 1 + p)]
  <1> DEFINE n == Cardinality(Changes(r))
             m == nextSequence - 1
             news == [p \in 1..n |-> NextChange(m + p)]
             S == {Change(q) : q \in 1..m} \cup {NextChange(q) : q \in 1..(m + n)}
  <1>1. /\ n \in Nat /\ nextSequence' = nextSequence + n /\ nextSequence \in Nat \ {0}
        /\ DOMAIN events = 1..(nextSequence - 1)
        /\ \A q \in DOMAIN events : events'[q] = events[q]
    BY CommitEvents
  <1>2. m \in Nat /\ nextSequence' - 1 = m + n
    BY <1>1
  <1>3. Feed' = [q \in 1..(m + n) |-> NextChange(q)]
    <2>1. Feed' = [q \in 1..(nextSequence' - 1) |-> NextChange(q)]
      BY DEF Feed, Change, NextChange
    <2> QED
      BY <1>2, <2>1
  <1>4. Feed = [q \in 1..m |-> Change(q)]
    BY DEF Feed
  <1>5. \A q \in 1..m : NextChange(q) = Change(q)
    BY <1>1 DEF NextChange, Change
  <1> HIDE DEF m, n
  <1> DEFINE old == [q \in 1..m |-> Change(q)]
             all == [q \in 1..(m + n) |-> NextChange(q)]
  <1>6. \A p \in 1..n : m + p \in 1..(m + n)
    BY <1>1, <1>2
  <1>7. old \in Seq(S) /\ news \in Seq(S) /\ all \in Seq(S)
    <2>1. old \in [1..m -> S] /\ news \in [1..n -> S] /\ all \in [1..(m + n) -> S]
      BY <1>6
    <2>2. m \in Nat /\ n \in Nat /\ m + n \in Nat
      BY <1>1, <1>2
    <2> HIDE DEF old, news, all, S
    <2> QED
      BY <2>1, <2>2
  <1>8. Len(old) = m /\ Len(news) = n /\ Len(all) = m + n
    BY <1>1, <1>2
  <1>9. \A q \in 1..(m + n) : all[q] = IF q <= m THEN old[q] ELSE news[q - m]
    <2> SUFFICES ASSUME NEW q \in 1..(m + n)
                 PROVE  all[q] = IF q <= m THEN old[q] ELSE news[q - m]
      OBVIOUS
    <2>1. CASE q <= m
      <3>1. q \in 1..m
        BY <1>1, <1>2, <2>1
      <3> QED
        BY <1>5, <2>1, <3>1
    <2>2. CASE ~(q <= m)
      <3>1. q - m \in 1..n /\ m + (q - m) = q
        BY <1>1, <1>2, <2>2
      <3> QED
        BY <2>2, <3>1
    <2> QED
      BY <2>1, <2>2
  <1> HIDE DEF old, news, all, S
  <1>10. all = old \o news
    <2>1. /\ old \o news \in Seq(S) /\ Len(old \o news) = m + n
          /\ \A q \in 1..(m + n) : (old \o news)[q] = IF q <= m THEN old[q] ELSE news[q - m]
      BY <1>7, <1>8, ConcatProperties
    <2> QED
      BY <1>7, <1>8, <1>9, <2>1, SeqEqual
  <1> QED
    BY <1>3, <1>4, <1>10 DEF old, news, all, m, n

\* A commit is the next entry of the history.
LEMMA CommitEntersHistory ==
    ASSUME Tables, HistoryInv, HistoryInv', NEW r, Commits(r)
    PROVE  History' = Append(History, [import |-> r.import, source |-> r.source,
                                       rows |-> r.rows])
  <1> DEFINE entry == [import |-> r.import, source |-> r.source, rows |-> r.rows]
             NextEntry(i) == [import |-> imports'[i].import, source |-> imports'[i].source,
                              rows |-> imports'[i].file]
  <1>1. /\ r.import \notin DOMAIN imports
        /\ DOMAIN imports' = DOMAIN imports \cup {r.import}
        /\ \A i \in DOMAIN imports : imports'[i] = imports[i]
        /\ imports'[r.import] = NewImport(r, Was(r))
        /\ imports'[r.import].source = r.source /\ imports'[r.import].file = r.rows
        /\ imports'[r.import].committed = generation + 1
        /\ generation' = generation + 1
    BY CommitImports
  <1>2. imports'[r.import].import = r.import
    BY <1>1 DEF NewImport
  <1>3. /\ \A g \in 1..generation :
              ImportOf(g) \in DOMAIN imports /\ imports[ImportOf(g)].committed = g
        /\ generation \in Nat
    BY ImportsInOrder DEF HistoryInv
  <1>4. \A i, j \in DOMAIN imports' : imports'[i].committed = imports'[j].committed => i = j
    BY DEF HistoryInv
  <1>5. ASSUME NEW g \in 1..generation PROVE ImportOf(g)' = ImportOf(g)
    <2>1. ImportOf(g) \in DOMAIN imports' /\ imports'[ImportOf(g)].committed = g
      BY <1>1, <1>3
    <2>2. \A i \in DOMAIN imports' : imports'[i].committed = g <=> i = ImportOf(g)
      BY <1>4, <2>1
    <2>3. ImportOf(g)' = CHOOSE i \in DOMAIN imports' : imports'[i].committed = g
      BY DEF ImportOf
    <2> QED
      BY <2>1, <2>2, <2>3
  <1>6. (CHOOSE i \in DOMAIN imports' : imports'[i].committed = generation + 1) = r.import
    BY <1>1, <1>4
  <1>7. History' = [g \in 1..(generation + 1) |->
                      IF g = generation + 1 THEN entry ELSE Entry(ImportOf(g))]
    <2>1. History' = [g \in 1..(generation + 1) |->
                        NextEntry(CHOOSE i \in DOMAIN imports' : imports'[i].committed = g)]
      BY <1>1 DEF History, Entry, ImportOf
    <2>2. \A g \in 1..generation :
            NextEntry(CHOOSE i \in DOMAIN imports' : imports'[i].committed = g)
              = Entry(ImportOf(g))
      <3> SUFFICES ASSUME NEW g \in 1..generation
                   PROVE  NextEntry(CHOOSE i \in DOMAIN imports' : imports'[i].committed = g)
                            = Entry(ImportOf(g))
        OBVIOUS
      <3>1. (CHOOSE i \in DOMAIN imports' : imports'[i].committed = g) = ImportOf(g)
        BY <1>5 DEF ImportOf
      <3>2. NextEntry(ImportOf(g)) = Entry(ImportOf(g))
        BY <1>1, <1>3 DEF Entry
      <3> QED
        BY <3>1, <3>2
    <2>3. NextEntry(r.import) = entry
      BY <1>1, <1>2
    <2>4. \A g \in 1..(generation + 1) : g = generation + 1 \/ g \in 1..generation
      BY <1>3
    <2> HIDE DEF NextEntry, entry
    <2> QED
      BY <1>6, <2>1, <2>2, <2>3, <2>4
  <1>8. History \in Seq({Entry(i) : i \in DOMAIN imports} \cup {entry}) /\ Len(History) = generation
    <2>1. History \in [1..generation -> {Entry(i) : i \in DOMAIN imports} \cup {entry}]
      BY <1>3 DEF History
    <2> HIDE DEF entry
    <2> QED
      BY <1>3, <2>1, HistoryIsSequence
  <1>9. \A g \in 1..generation : History[g] = Entry(ImportOf(g)) /\ g # generation + 1
    BY <1>3 DEF History
  <1> HIDE DEF entry
  <1> QED
    <2>1. PICK S : History \in Seq(S) /\ entry \in S
      BY <1>8
    <2>2. /\ Append(History, entry) \in Seq(S) /\ Len(Append(History, entry)) = generation + 1
          /\ \A g \in 1..generation : Append(History, entry)[g] = History[g]
          /\ Append(History, entry)[generation + 1] = entry
      BY <1>8, <2>1, AppendProperties
    <2>3. DOMAIN Append(History, entry) = 1..(generation + 1)
      BY <2>2, LenProperties
    <2>4. Append(History, entry) = [g \in 1..(generation + 1) |->
                                      IF g = generation + 1 THEN entry ELSE Entry(ImportOf(g))]
      <3>1. Append(History, entry) = [g \in 1..(generation + 1) |-> Append(History, entry)[g]]
        BY <2>2, <2>3, LenProperties
      <3>2. \A g \in 1..(generation + 1) : g = generation + 1 \/ g \in 1..generation
        BY <1>3
      <3> QED
        BY <1>9, <2>2, <3>1, <3>2
    <2> QED
      BY <1>7, <2>4 DEF entry

-----------------------------------------------------------------------------
(* The refinement. *)

Active == IF \E s \in DOMAIN bindings : IsActive(s)
          THEN CHOOSE s \in DOMAIN bindings : IsActive(s) ELSE None
Retired == {s \in DOMAIN bindings : ~IsActive(s)}

\* A commit is an import of the ledger.
LEMMA CommitIsImport ==
    ASSUME Records, AllInv', NEW r, Commits(r)
    PROVE  Ledger!Next
  <1>1. HistoryInv /\ HistoryInv'
    BY DEF Records, AllInv, IInv
  <1>2. /\ r.source \in DOMAIN bindings /\ IsActive(r.source)
        /\ \A t \in DOMAIN bindings : IsActive(t) => t = r.source
        /\ r.rows \in Workbooks /\ r.import \in ImportId /\ r.source \in Source
    BY FoundReadable, CommittedRequest
  <1>3. r.source = Active
    BY <1>2 DEF Active
  <1>4. \A n \in DOMAIN History : History[n].import # r.import
    <2>1. r.import \notin DOMAIN imports
      BY FoundReadable, CommitImports
    <2>2. \A n \in 1..generation : ImportOf(n) \in DOMAIN imports
      BY <1>1, ImportsInOrder
    <2>3. \A i \in DOMAIN imports : Entry(i).import = i
      BY DEF Records, HeadInv, Entry
    <2> QED
      BY <1>1, <2>1, <2>2, <2>3, HistoryIsSequence
  <1>5. Ledger!Admissible(r.source, r.rows)
    BY CommitIsAdmissible
  <1>6. History' = Append(History, [import |-> r.import, source |-> r.source,
                                    rows |-> r.rows])
    BY <1>1, FoundReadable, CommitEntersHistory
  <1>7. \E news \in Ledger!InPlanOrder(Ledger!Differences(r.source, r.rows)) :
          Feed' = Feed \o news
    <2> DEFINE new == [p \in 1..Cardinality(Changes(r)) |-> NextChange(nextSequence - 1 + p)]
    <2>1. new \in Ledger!InPlanOrder({News(r, id) : id \in Changes(r)})
      BY FoundReadable, NewsComeInOrder
    <2>2. Feed' = Feed \o new
      BY FoundReadable, CommitAppendsNews
    <2> HIDE DEF new
    <2> QED
      BY <2>1, <2>2, CommitMakesDifferences
  <1>8. Active' = Active /\ Retired' = Retired
    <2>1. DOMAIN bindings' = DOMAIN bindings /\ \A s : IsActive(s)' <=> IsActive(s)
      BY FoundReadable, CommitBindings
    <2>2. Retired' = Retired
      BY <2>1 DEF Retired
    <2>3. Active' = Active
      BY <1>2, <2>1 DEF Active
    <2> QED
      BY <2>2, <2>3
  <1>9. Ledger!Import(r.import, r.source, r.rows)
    BY <1>3, <1>4, <1>5, <1>6, <1>7, <1>8
       DEF Ledger!Import, Feed, Change, History, Entry, Active, Retired
  <1> QED
    BY <1>2, <1>9 DEF Ledger!Next

\* A step that leaves the imports alone leaves the history alone.
LEMMA SameHistory ==
    ASSUME UNCHANGED <<generation, nextSequence, imports, events>>
    PROVE  History' = History /\ Feed' = Feed
  BY DEF History, Feed, Change, Entry, ImportOf

\* Registering a first source enrols it.
LEMMA CreateEnrols ==
    ASSUME Records, NEW c \in Client, Create(c)
    PROVE  [Ledger!Next]_Ledger!vars
  <1>1. History' = History /\ Feed' = Feed
    BY SameHistory DEF Create
  <1>2. DOMAIN bindings = {}
    BY DEF Create, Records, AllInv, IInv, FreshInv
  <1>3. bindings' = [s \in {FirstSource} |-> NewBinding]
    BY DEF Create
  <1>4. Active = None /\ Retired = {}
    BY <1>2 DEF Active, Retired
  <1>5. DOMAIN bindings' = {FirstSource} /\ IsActive(FirstSource)'
    BY <1>3 DEF IsActive, NewBinding
  <1>6. Active' = FirstSource /\ Retired' = {}
    BY <1>5 DEF Active, Retired
  <1>7. FirstSource \in Source /\ FirstSource # None
    BY StoreAssumption
  <1>8. /\ FirstSource \notin Retired \cup {Active}
        /\ Retired' = (Retired \cup {Active}) \ {None}
    BY <1>4, <1>6, <1>7
  <1>9. Ledger!Enrol(FirstSource)
    BY <1>1, <1>6, <1>8 DEF Ledger!Enrol, Feed, Change, History, Entry, Active, Retired
  <1> QED
    BY <1>7, <1>9 DEF Ledger!Next

\* Succeeding a source enrols its successor.
LEMMA RolloverEnrols ==
    ASSUME Records, StoreReadable, NEW s \in Source, NEW t \in Source, Rollover(s, t)
    PROVE  Ledger!Next
  <1>1. History' = History /\ Feed' = Feed
    BY SameHistory DEF Rollover
  <1>2. /\ s \in DOMAIN bindings /\ t \notin DOMAIN bindings /\ s # t
        /\ DOMAIN bindings' = DOMAIN bindings \cup {t}
        /\ bindings'[t] = NewBinding /\ bindings'[s] = Archived(bindings[s])
        /\ \A x \in DOMAIN bindings \ {s} : bindings'[x] = bindings[x]
    BY RolloverBindings
  <1>3. IsActive(s) /\ Tables
    BY DEF Rollover, Records, AllInv
  <1>4. \A x, y \in DOMAIN bindings : IsActive(x) /\ IsActive(y) => x = y
    <2>1. userVersion = 1
      BY <1>2, <1>3 DEF Records, AllInv, IInv, FreshInv, Tables, TypeOK
    <2> QED
      BY <2>1 DEF StoreReadable, ReaderAccepts, BindingsReadable
  <1>5. ~IsActive(s)' /\ IsActive(t)' /\ \A x \in DOMAIN bindings \ {s} : ~IsActive(x)'
    <2>1. \A x \in DOMAIN bindings \ {s} : ~IsActive(x)
      BY <1>2, <1>3, <1>4
    <2>2. bindings'[s].state = "archived"
      <3>1. PICK b \in Binding : b = bindings[s]
        BY <1>2, <1>3 DEF Tables, TypeOK, Table
      <3>2. bindings'[s] = [b EXCEPT !.state = "archived", !.final = b.lastFile]
        BY <1>2, <3>1 DEF Archived
      <3> QED
        BY <3>1, <3>2 DEF Binding
    <2> QED
      BY <1>2, <2>1, <2>2 DEF IsActive, NewBinding
  <1>6. Active = s /\ Retired = DOMAIN bindings \ {s}
    BY <1>2, <1>3, <1>4 DEF Active, Retired
  <1>7. Active' = t /\ Retired' = DOMAIN bindings
    BY <1>2, <1>5 DEF Active, Retired
  <1>8. None \notin DOMAIN bindings /\ s # None
    BY <1>3, StoreAssumption DEF Tables, TypeOK, Table
  <1>9. t \notin Retired \cup {Active} /\ Retired' = (Retired \cup {Active}) \ {None}
    BY <1>2, <1>6, <1>7, <1>8
  <1>10. Active # None
    BY <1>6, <1>8
  <1>11. Ledger!Enrol(t)
    BY <1>1, <1>7, <1>9, <1>10 DEF Ledger!Enrol, Feed, Change, History, Entry, Active, Retired
  <1> QED
    BY <1>11 DEF Ledger!Next

LEMMA InitIsEmpty == Init => Ledger!Init
  <1> SUFFICES ASSUME Init PROVE Ledger!Init
    OBVIOUS
  <1>1. generation = 0 /\ nextSequence = 1 /\ DOMAIN bindings = {}
    BY DEF Init, EmptyTable
  <1>2. Active = None /\ Retired = {}
    BY <1>1 DEF Active, Retired
  <1>3. History = <<>> /\ Feed = <<>>
    BY <1>1 DEF History, Feed
  <1> QED
    BY <1>2, <1>3 DEF Ledger!Init, Feed, Change, History, Entry, Active, Retired

LEMMA LedgerStep ==
    Records /\ StoreReadable /\ [Next]_vars => [Ledger!Next]_Ledger!vars
  <1> SUFFICES ASSUME Records, StoreReadable, [Next]_vars
               PROVE  [Ledger!Next]_Ledger!vars
    OBVIOUS
  <1>1. CASE \E r : Commits(r)
    <2>1. AllInv'
      BY AllInvStep DEF Records
    <2> QED
      BY <1>1, <2>1, CommitIsImport
  <1>2. CASE \E c \in Client : Create(c)
    BY <1>2, CreateEnrols
  <1>3. CASE \E s, t \in Source : Rollover(s, t)
    BY <1>3, RolloverEnrols
  <1>4. CASE /\ ~\E r : Commits(r)
             /\ ~\E c \in Client : Create(c)
             /\ ~\E s, t \in Source : Rollover(s, t)
    <2>1. UNCHANGED tables
      BY <1>4, QuietSteps
    <2>2. UNCHANGED <<generation, nextSequence, imports, events, bindings>>
      BY <2>1 DEF tables
    <2>3. History' = History /\ Feed' = Feed
      BY <2>2, SameHistory
    <2>4. Active' = Active /\ Retired' = Retired
      BY <2>2 DEF Active, Retired, IsActive
    <2> QED
      BY <2>3, <2>4 DEF Ledger!vars, Feed, Change, History, Entry, Active, Retired
  <1> QED
    BY <1>1, <1>2, <1>3, <1>4

\* Whatever callers lose, repeat or race for, the tables are at every moment a
\* ledger: each import enters the history once, and the feed receives exactly
\* its differences, in plan order.
THEOREM ImplementsLedger == Spec => LedgerSpec
  <1>1. Spec => Ledger!Spec
    BY InitIsEmpty, LedgerStep, ReaderInvariance, PTL DEF Spec, Ledger!Spec
  <1> QED
    BY <1>1 DEF LedgerSpec
=============================================================================
