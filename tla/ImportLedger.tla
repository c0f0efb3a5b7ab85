---------------------------- MODULE ImportLedger ----------------------------
(***************************************************************************)
(* What the import store promises, without tables: a sequence of imports   *)
(* and a feed of change events.                                            *)
(*                                                                         *)
(* An import gives the complete contents of the active source's workbook.  *)
(* It enters the history once, whatever its caller lost or repeated, and   *)
(* in the same step the feed receives what changed: a row whose last word  *)
(* in the feed is not what the workbook now says, and a row this source    *)
(* once held, not in the workbook any more, and not yet voided.  Whoever   *)
(* replays the feed knows the workbook.                                    *)
(***************************************************************************)
EXTENDS Integers, Sequences, FiniteSets

CONSTANTS StableId, Sheet, PartySheet, Hash, None,
          Source, FirstSource, ImportId, Workbooks

VARIABLES
    active,     \* the source imports are taken from, None before the first
    retired,    \* the sources archived so far
    history,    \* committed imports: which, of which source, what rows
    feed        \* change events

vars == <<active, retired, history, feed>>

Entry == [import : ImportId, source : Source, rows : Workbooks]

Change == [id : StableId, sheet : Sheet, hash : Hash \cup {None}, source : Source]

-----------------------------------------------------------------------------
\* The last event of a row in the feed, and the void hash if it has none.
Spoken(id) == \E q \in 1..Len(feed) : feed[q].id = id

LastWord(id) ==
    feed[CHOOSE q \in 1..Len(feed) :
            feed[q].id = id /\ \A p \in (q + 1)..Len(feed) : feed[p].id # id]

Live(id) == Spoken(id) /\ LastWord(id).hash # None

EverHeld(s, id) ==
    \E n \in 1..Len(history) : history[n].source = s /\ id \in DOMAIN history[n].rows

\* What the rows of a workbook of source s change.
Differences(s, rows) ==
    {[id |-> id, sheet |-> rows[id].sheet, hash |-> rows[id].hash, source |-> s] :
        id \in {x \in DOMAIN rows : ~Live(x) \/ LastWord(x).hash # rows[x].hash}}
    \cup
    {[id |-> id, sheet |-> LastWord(id).sheet, hash |-> None, source |-> s] :
        id \in {x \in StableId \ DOMAIN rows : EverHeld(s, x) /\ Live(x)}}

\* A row keeps its sheet for ever, and a transaction its source.
Admissible(s, rows) ==
    \A id \in {x \in DOMAIN rows : Spoken(x)} :
        /\ LastWord(id).sheet = rows[id].sheet
        /\ rows[id].sheet # PartySheet => LastWord(id).source = s

\* A set of changes as a sequence, by sheet, then by row.
InPlanOrder(changes) ==
    {list \in [1..Cardinality(changes) -> changes] :
        \A p, q \in DOMAIN list : p < q =>
            \/ list[p].sheet < list[q].sheet
            \/ list[p].sheet = list[q].sheet /\ list[p].id < list[q].id}

-----------------------------------------------------------------------------
Init == active = None /\ retired = {} /\ history = <<>> /\ feed = <<>>

Enrol(t) ==
    /\ active = None => t = FirstSource
    /\ t \notin retired \cup {active}
    /\ active' = t
    /\ retired' = (retired \cup {active}) \ {None}
    /\ UNCHANGED <<history, feed>>

Import(i, s, rows) ==
    /\ s = active
    /\ \A n \in DOMAIN history : history[n].import # i
    /\ Admissible(s, rows)
    /\ history' = Append(history, [import |-> i, source |-> s, rows |-> rows])
    /\ \E news \in InPlanOrder(Differences(s, rows)) : feed' = feed \o news
    /\ UNCHANGED <<active, retired>>

Next ==
    \/ \E t \in Source : Enrol(t)
    \/ \E i \in ImportId, s \in Source, rows \in Workbooks : Import(i, s, rows)

Spec == Init /\ [][Next]_vars
=============================================================================
