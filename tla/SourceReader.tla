------------------------------ MODULE SourceReader ------------------------------
(***************************************************************************)
(* The streaming reader of one workbook, _read_xlsx_from_zip.  It resolves *)
(* the package to the parts of the approved sheets and goes over them      *)
(* twice.  The first pass learns which cells an array formula covers and   *)
(* which shared strings will be needed; the strings are loaded in two      *)
(* steps, as only the first tells which rows are active.  The second pass  *)
(* checks the headers and reads the rows.                                  *)
(*                                                                         *)
(* One abstract read of the whole workbook, with every string at hand,     *)
(* says what the result must be.                                           *)
(*                                                                         *)
(* A workbook is a package, a table of shared strings, and the rows of     *)
(* every worksheet part in document order; text is one of a few spellings. *)
(* Of a refusal it matters that there is one, not its reason.              *)
(***************************************************************************)
EXTENDS RawContract, SequencesExt

CONSTANTS
    Workbook,    \* the workbooks there may be
    LastRow,     \* MAX_PHYSICAL_ROW
    IdentityOf,  \* the spellings of a UUIDv7, each with what it identifies
    Valid        \* per kind but "text": the values canonicalize_value accepts

\* What the parser makes of a package: rows and cells have their coordinates,
\* or no number where theirs is not one, and a number is never blank.  Every part
\* of a sheet's type has its rows; "broken" is nobody's index.
IsCell(c) ==
    /\ c.col \in Nat \ {0} /\ c.row \in Nat \ {0}
    /\ c.formula \in {"no", "plain", "array"} /\ c.type \in {"s", "text", "number", "other"}
    /\ c.type = "number" => c.value \notin {"", " "}
    /\ c.covers # None =>
         /\ c.covers.left \in Nat /\ c.covers.right \in Nat
         /\ c.covers.top \in Nat \ {0} /\ c.covers.bottom \in Nat \ {0}

IsRow(row) ==
    /\ row.num \in {None} \cup (Nat \ {0})
    /\ row.cells \in Seq(Range(row.cells))
    /\ \A i \in DOMAIN row.cells : IsCell(row.cells[i])

IsWorkbook(w) ==
    /\ \A name \in DOMAIN w.sheets :
         /\ w.sheets[name] \in Seq(Range(w.sheets[name]))
         /\ \A i \in DOMAIN w.sheets[name] : IsRow(w.sheets[name][i])
    /\ \A name \in DOMAIN w.package.types :
         w.package.types[name] = "sheet" => name \in DOMAIN w.sheets
    /\ "broken" \notin DOMAIN w.strings

ASSUME ReaderAssumption ==
    /\ LastRow \in Nat \ {0}
    /\ None \notin Nat \cup {"broken"}
    /\ \A kind \in {"date", "integer", "decimal"} :
         kind \in DOMAIN Valid /\ \A v \in Valid[kind] : v[1] \in {"text", "number"}
    /\ \A w \in Workbook : IsWorkbook(w)

VARIABLES
    workbook,
    pc,
    parts,      \* per approved sheet: its part
    at,         \* which of the approved sheets the pass is at
    cover,      \* per sheet done: per column, the merged spans of its formulas
    wanted,     \* initial_sst_consumers
    candidates, \* candidate_sst_rows_by_sheet, of all sheets
    strings,    \* shared_strings_map
    line,       \* the next row of the sheet, in document order
    headed,     \* header_checked
    rows,       \* what was read of the sheet
    result      \* what was read of the sheets before it

vars == <<workbook, pc, parts, at, cover, wanted, candidates, strings, line, headed,
          rows, result>>

Init ==
    /\ workbook \in Workbook
    /\ pc = "package" /\ parts = <<>> /\ at = 1
    /\ cover = <<>> /\ wanted = {} /\ candidates = {} /\ strings = <<>>
    /\ line = 1 /\ headed = FALSE /\ rows = <<>> /\ result = {}

Refuse ==
    /\ pc' = "refused"
    /\ UNCHANGED <<workbook, parts, at, cover, wanted, candidates, strings, line,
                   headed, rows, result>>

-----------------------------------------------------------------------------
(* The package.  A relationship to the outside, or out of the package, has no *)
(* target.                                                                    *)

Is(p, name, type) ==
    name \in Range(p.names) /\ name \in DOMAIN p.types /\ p.types[name] = type

UniqueIds(rels) == \A i, j \in DOMAIN rels : rels[i].id = rels[j].id => i = j

OfType(rels, type) == {r \in Range(rels) : r.target # None /\ r.type = type}

\* What the declaration of a sheet leads to, by the map the relationships are
\* kept in.
PartsOf(p, sheet) ==
    {p.rels[i].target : i \in
       {j \in DOMAIN p.rels :
          /\ p.rels[j].target # None /\ p.rels[j].type = "sheet"
          /\ Is(p, p.rels[j].target, "sheet")
          /\ [name |-> sheet, id |-> p.rels[j].id] \in Range(p.declared)
          /\ \A k \in DOMAIN p.rels : k > j => p.rels[k].id # p.rels[j].id}}

Resolves(p) ==
    /\ IsInjective(p.names)
    /\ "forbidden" \notin Range(p.types)
    /\ UniqueIds(p.root) /\ UniqueIds(p.rels)
    /\ Cardinality(OfType(p.root, "workbook")) = 1
    /\ \A r \in OfType(p.root, "workbook") :
         Is(p, r.target, "workbook") /\ r.target \notin p.broken
    /\ Cardinality(OfType(p.rels, "strings")) <= 1
    /\ \A i, j \in DOMAIN p.declared : p.declared[i].name = p.declared[j].name => i = j
    /\ \A sheet \in Sheet : PartsOf(p, sheet) # {}
    /\ \A s, t \in Sheet : PartsOf(p, s) \cap PartsOf(p, t) # {} => s = t

\* shared_strings_path
Table == {r.target : r \in OfType(workbook.package.rels, "strings")}
HasTable == Table # {}

OpenPackage ==
    /\ pc = "package"
    /\ Resolves(workbook.package)
    /\ parts' = [sheet \in Sheet |-> CHOOSE n \in PartsOf(workbook.package, sheet) : TRUE]
    /\ pc' = "discover"
    /\ UNCHANGED <<workbook, at, cover, wanted, candidates, strings, line, headed,
                   rows, result>>

RefusePackage ==
    /\ pc = "package"
    /\ ~Resolves(workbook.package)
    /\ Refuse

SheetNow == ApprovedSheets[at]
RowsNow == workbook.sheets[parts[SheetNow]]
Broken == parts[SheetNow] \in workbook.package.broken

-----------------------------------------------------------------------------
(* Coverage.  The cells under an array formula or a data table are its output. *)

Cells(sheetRows) ==
    UNION {Range(sheetRows[i].cells) : i \in {j \in DOMAIN sheetRows : sheetRows[j].num # None}}

Arrays(sheetRows) == {c \in Cells(sheetRows) : c.formula = "array"}

\* The rectangle is there, within the sheet, not reversed, and holds its anchor.
Fits(c) ==
    /\ c.covers # None
    /\ c.covers.left <= c.col /\ c.col <= c.covers.right
    /\ c.covers.top <= c.row /\ c.row <= c.covers.bottom
    /\ c.covers.bottom <= LastRow

Spans(arrays, col) ==
    {<<c.covers.top, c.covers.bottom>> :
       c \in {d \in arrays : d.covers.left <= col /\ col <= d.covers.right}}

\* Fault: a span within the one before it cuts that one.
JoinShort(merged, span) ==
    IF merged = <<>> \/ span[1] > Last(merged)[2] + 1
    THEN Append(merged, span)
    ELSE Append(Front(merged), <<Last(merged)[1], span[2]>>)

Join(merged, span) ==
    IF merged = <<>> \/ span[1] > Last(merged)[2] + 1
    THEN Append(merged, span)
    ELSE Append(Front(merged), <<Last(merged)[1], Max({Last(merged)[2], span[2]})>>)

Earlier(s, t) == s[1] < t[1] \/ (s[1] = t[1] /\ s[2] < t[2])

\* The spans in their order: before the one at i there are i - 1.
Sorted(spans) ==
    [i \in 1..Cardinality(spans) |->
       CHOOSE s \in spans : Cardinality({t \in spans : Earlier(t, s)}) = i - 1]

Merged(arrays, col) ==
    LET sorted == Sorted(Spans(arrays, col))
        upTo[n \in 0..Len(sorted)] ==
            IF n = 0 THEN <<>> ELSE Join(upTo[n - 1], sorted[n])
    IN  upTo[Len(sorted)]

CoverOf(sheet, sheetRows) ==
    [col \in Retained(sheet) |-> Merged(Arrays(sheetRows), col)]

\* _is_cell_covered: of the spans that begin above, the last one decides.
Covered(cov, col, num) ==
    LET above == {i \in DOMAIN cov[col] : cov[col][i][1] <= num}
    IN  above # {} /\ num <= cov[col][Max(above)][2]

-----------------------------------------------------------------------------
(* The first pass. *)

Blank == {"", " "}

\* The places of the literals of a row in these columns and under no formula.
Literals(row, cols, cov) ==
    {i \in DOMAIN row.cells :
       LET c == row.cells[i]
       IN  /\ c.formula = "no" /\ c.row = row.num
           /\ c.col \in cols /\ ~Covered(cov, c.col, row.num)}

Shared(row, places) == {i \in places : row.cells[i].type = "s"}
Indices(row, places) == {row.cells[i].value : i \in Shared(row, places)}

ActivityCells(sheet, row, cov) == Literals(row, ActivityColumns(sheet), cov)
SecondaryCells(sheet, row, cov) ==
    Literals(row, Retained(sheet) \ ActivityColumns(sheet), cov)
HeaderCells(sheet, row, cov) == Literals(row, Headed(sheet), cov)

\* A literal value that makes the row active without a look at the strings.
Tells(c) ==
    \/ c.type = "text" /\ c.value # None /\ c.value \notin Blank
    \/ c.type = "number" /\ c.value \notin {None, "broken"}

ActsLiterally(sheet, row, cov) ==
    \E i \in ActivityCells(sheet, row, cov) : Tells(row.cells[i])

\* Rows without a shared string are left to the second pass.
Examined(row) ==
    /\ HasTable
    /\ row.num # None /\ row.num >= 2
    /\ Shared(row, DOMAIN row.cells) # {}

HeaderRow(row) == HasTable /\ row.num = 1

FaultIn(sheet, row, cov) ==
    \/ HeaderRow(row) /\ "broken" \in Indices(row, HeaderCells(sheet, row, cov))
    \/ /\ Examined(row)
       /\ \/ \E i \in ActivityCells(sheet, row, cov) :
               row.cells[i].type \in {"s", "text"} /\ row.cells[i].value = "broken"
          \/ /\ ActsLiterally(sheet, row, cov)
             /\ "broken" \in Indices(row, SecondaryCells(sheet, row, cov))

\* header_sst_consumers and data_sst_consumers
Needs(sheet, row, cov) ==
    (IF HeaderRow(row) THEN Indices(row, HeaderCells(sheet, row, cov)) ELSE {})
    \cup (IF Examined(row) THEN Indices(row, ActivityCells(sheet, row, cov)) ELSE {})
    \cup (IF Examined(row) /\ ActsLiterally(sheet, row, cov)
          THEN Indices(row, SecondaryCells(sheet, row, cov)) ELSE {})

\* Only the strings can tell whether such a row is active.
IsCandidate(sheet, row, cov) ==
    /\ Examined(row)
    /\ ~ActsLiterally(sheet, row, cov)
    /\ Shared(row, ActivityCells(sheet, row, cov)) # {}

\* act_sst_cells, by their places, and the indices in the rest of the row
Candidate(sheet, row, cov) ==
    [act |-> [i \in Shared(row, ActivityCells(sheet, row, cov)) |-> row.cells[i].value],
     sec |-> Indices(row, SecondaryCells(sheet, row, cov))]

CandidatesOf(sheet, sheetRows, cov) ==
    {Candidate(sheet, row, cov) :
       row \in {r \in Range(sheetRows) : IsCandidate(sheet, r, cov)}}

DiscoveryFails ==
    \/ Broken
    \/ \E c \in Arrays(RowsNow) : ~Fits(c)
    \/ /\ \A c \in Arrays(RowsNow) : Fits(c)
       /\ \E row \in Range(RowsNow) : FaultIn(SheetNow, row, CoverOf(SheetNow, RowsNow))

\* _discover_sheet_metadata_and_needed_sst
Discover ==
    /\ pc = "discover"
    /\ ~DiscoveryFails
    /\ LET cov == CoverOf(SheetNow, RowsNow)
       IN  /\ cover' = Append(cover, cov)
           /\ wanted' = wanted \cup UNION {Needs(SheetNow, row, cov) : row \in Range(RowsNow)}
           /\ candidates' = candidates \cup CandidatesOf(SheetNow, RowsNow, cov)
    /\ IF at = Len(ApprovedSheets) THEN pc' = "strings" /\ at' = 1
                                   ELSE pc' = pc /\ at' = at + 1
    /\ UNCHANGED <<workbook, parts, strings, line, headed, rows, result>>

DiscoveryRefuses ==
    /\ pc = "discover"
    /\ DiscoveryFails
    /\ Refuse

-----------------------------------------------------------------------------
(* The shared strings. *)

\* What a table holds under the indices.  It is gone through to its end, but only
\* the strings asked for are decoded.
Unreadable(indices) ==
    \/ Table \ Range(workbook.package.names) # {}
    \/ Table \cap workbook.package.broken # {}
    \/ \E i \in indices \cap DOMAIN workbook.strings : workbook.strings[i] = "broken"

Load(indices) == [i \in indices \cap DOMAIN workbook.strings |-> workbook.strings[i]]

\* _parse_shared_strings_table for what the first pass wants
LoadStrings ==
    /\ pc = "strings"
    /\ wanted # {} => ~Unreadable(wanted)
    /\ strings' = Load(wanted)
    /\ pc' = "decide"
    /\ UNCHANGED <<workbook, parts, at, cover, wanted, candidates, line, headed, rows,
                   result>>

StringsRefused ==
    /\ pc = "strings"
    /\ wanted # {} /\ Unreadable(wanted)
    /\ Refuse

\* The activity cells of a candidate are looked at until one is active.
Looked(cand, i) ==
    \A j \in DOMAIN cand.act :
        j < i => cand.act[j] \in DOMAIN strings /\ strings[cand.act[j]] \in Blank

IsActive(cand) ==
    \E i \in DOMAIN cand.act :
        /\ Looked(cand, i)
        /\ cand.act[i] \in DOMAIN strings
        /\ strings[cand.act[i]] \notin Blank

OutOfRange(cand) ==
    \E i \in DOMAIN cand.act : Looked(cand, i) /\ cand.act[i] \notin DOMAIN strings

\* Fault: the strings of every candidate are loaded.
AllCandidates == candidates

Chosen == {cand \in candidates : IsActive(cand)}

More == (UNION {cand.sec : cand \in Chosen}) \ DOMAIN strings

DecisionFails ==
    \/ \E cand \in candidates : OutOfRange(cand)
    \/ \E cand \in Chosen : "broken" \in cand.sec
    \/ More # {} /\ Unreadable(More)

\* Which candidates are active, and the strings the others of their cells need.
LoadMore ==
    /\ pc = "decide"
    /\ ~DecisionFails
    /\ strings' = [i \in DOMAIN strings \cup DOMAIN Load(More) |->
                     IF i \in DOMAIN strings THEN strings[i] ELSE Load(More)[i]]
    /\ pc' = "rows"
    /\ UNCHANGED <<workbook, parts, at, cover, wanted, candidates, line, headed, rows,
                   result>>

DecisionRefuses ==
    /\ pc = "decide"
    /\ DecisionFails
    /\ Refuse

-----------------------------------------------------------------------------
(* Decoding. *)

Bad == <<"bad", "">>
Nothing == <<"none", "">>

\* _decode_cell_literal_value.  The kind is that of the column, or "id", or
\* "header".
Decode(c, kind, known) ==
    CASE c.type = "s" ->
           IF c.value \in DOMAIN known THEN <<"text", known[c.value]>> ELSE Bad
      [] c.type = "other" \/ (c.type # "s" /\ c.value = "broken") -> Bad
      [] c.type \in {"text", "number"} /\ c.value = None -> Nothing
      [] c.type = "text" /\ c.value \notin {None, "broken"} -> <<"text", c.value>>
      [] c.type = "number" /\ c.value \notin {None, "broken"} ->
           IF kind \in {"id", "date"} THEN Bad
           ELSE <<IF kind = "text" THEN "text" ELSE "number", c.value>>

At(row, col) == {c \in Range(row.cells) : c.col = col}

KindAt(sheet, col) == IF col = Contract[sheet].id THEN "id" ELSE ColumnAt(sheet, col).kind

\* _decode_row_column_value: a formula, and what it covers, is no value.
ValueAt(sheet, row, col, covered, known) ==
    IF \/ At(row, col) = {}
       \/ \E c \in At(row, col) : c.formula # "no"
       \/ covered
    THEN Nothing
    ELSE Decode(CHOOSE c \in At(row, col) : TRUE, KindAt(sheet, col), known)

\* A value that makes its row active.
Acts(v) == v[1] = "number" \/ (v[1] = "text" /\ v[2] \notin Blank)

\* A value that has its place in the column.
Accepted(sheet, col, v) ==
    \/ v = Nothing
    \/ KindAt(sheet, col) = "text" /\ v[1] = "text"
    \/ KindAt(sheet, col) # "text" /\ v \in Valid[KindAt(sheet, col)]

\* A header is a literal under no formula with the text its column asks for.
HeaderText(sheet, col) ==
    IF col = Contract[sheet].id THEN Contract[sheet].identity ELSE ColumnAt(sheet, col).header

HeaderHolds(sheet, row, col, covered, known) ==
    \E c \in At(row, col) :
        /\ c.formula = "no" /\ ~covered
        /\ Decode(c, "header", known) = <<"text", HeaderText(sheet, col)>>

-----------------------------------------------------------------------------
(* The second pass. *)

Row == RowsNow[line]

Value(col) == ValueAt(SheetNow, Row, col, Covered(cover[at], col, Row.num), strings)

\* The number is one, new in the sheet, the cells are the row's, one per column.
Placed ==
    /\ Row.num # None /\ Row.num <= LastRow
    /\ \A i \in 1..(line - 1) : RowsNow[i].num # Row.num
    /\ \A c \in Range(Row.cells) : c.row = Row.num
    /\ \A i, j \in DOMAIN Row.cells : Row.cells[i].col = Row.cells[j].col => i = j

\* Activity is looked for in the order of the contract, until it is found.
Until(i) == \A j \in 1..(i - 1) :
    Value(Contract[SheetNow].activity[j]) # Bad /\ ~Acts(Value(Contract[SheetNow].activity[j]))

\* What the places at which the search stops hold.
Sought == {Value(Contract[SheetNow].activity[i]) :
             i \in {j \in DOMAIN Contract[SheetNow].activity : Until(j)}}

Active == \E v \in Sought : Acts(v)
Undecided == Bad \in Sought

Identified ==
    /\ Value(Contract[SheetNow].id)[1] = "text"
    /\ Value(Contract[SheetNow].id)[2] \in DOMAIN IdentityOf

Identity == IdentityOf[Value(Contract[SheetNow].id)[2]]

\* SourceRowInput with its SourceRowLocation
ReadAs(sheet, num, id, values) == [sheet |-> sheet, num |-> num, id |-> id, values |-> values]

\* Fault: a row is placed by the part it is in.
NewByPart ==
    ReadAs(parts[SheetNow], Row.num, Identity,
           [col \in RawColumns(SheetNow) |-> Value(col)])

New == ReadAs(SheetNow, Row.num, Identity, [col \in RawColumns(SheetNow) |-> Value(col)])

Reading == pc = "rows" /\ line \in DOMAIN RowsNow

UnchangedByRow == <<workbook, pc, parts, at, cover, wanted, candidates, strings, result>>

IsHeader ==
    /\ Placed /\ Row.num = 1
    /\ \A col \in Headed(SheetNow) :
         HeaderHolds(SheetNow, Row, col, Covered(cover[at], col, 1), strings)

IsPassive == Placed /\ Row.num # 1 /\ headed /\ ~Undecided /\ ~Active

IsComplete ==
    /\ Placed /\ Row.num # 1 /\ headed
    /\ Active /\ Identified
    /\ \A i \in DOMAIN rows : rows[i].id # Identity
    /\ \A col \in RawColumns(SheetNow) : Accepted(SheetNow, col, Value(col))

ReadHeader ==
    /\ Reading /\ IsHeader
    /\ headed' = TRUE
    /\ line' = line + 1
    /\ UNCHANGED <<UnchangedByRow, rows>>

SkipRow ==
    /\ Reading /\ IsPassive
    /\ line' = line + 1
    /\ UNCHANGED <<UnchangedByRow, headed, rows>>

ReadRow ==
    /\ Reading /\ IsComplete
    /\ rows' = Append(rows, New)
    /\ line' = line + 1
    /\ UNCHANGED <<UnchangedByRow, headed>>

RefuseRow ==
    /\ Reading
    /\ ~IsHeader /\ ~IsPassive /\ ~IsComplete
    /\ Refuse

\* No header, or an identity of another sheet.
SheetFails ==
    \/ ~headed
    \/ \E r \in Range(rows), q \in result : r.id = q.id

EndSheet ==
    /\ pc = "rows" /\ line \notin DOMAIN RowsNow
    /\ ~SheetFails
    /\ result' = result \cup Range(rows)
    /\ line' = 1 /\ headed' = FALSE /\ rows' = <<>>
    /\ IF at = Len(ApprovedSheets) THEN pc' = "done" /\ at' = at
                                   ELSE pc' = pc /\ at' = at + 1
    /\ UNCHANGED <<workbook, parts, cover, wanted, candidates, strings>>

RefuseSheet ==
    /\ pc = "rows" /\ line \notin DOMAIN RowsNow
    /\ SheetFails
    /\ Refuse

Ended == pc \in {"done", "refused"} /\ UNCHANGED vars

Next ==
    \/ OpenPackage \/ RefusePackage
    \/ Discover \/ DiscoveryRefuses
    \/ LoadStrings \/ StringsRefused \/ LoadMore \/ DecisionRefuses
    \/ ReadHeader \/ SkipRow \/ ReadRow \/ RefuseRow
    \/ EndSheet \/ RefuseSheet
    \/ Ended

Spec == Init /\ [][Next]_vars

-----------------------------------------------------------------------------
(* The abstract read: the whole workbook in one go, with all strings at hand   *)
(* and a cell covered if any of the rectangles holds it.                       *)

RowsOf(sheet) == workbook.sheets[parts[sheet]]

Known ==
    IF Unreadable({}) \/ ~HasTable THEN <<>>
    ELSE [i \in {j \in DOMAIN workbook.strings : workbook.strings[j] # "broken"} |->
            workbook.strings[i]]

Under(sheet, col, num) ==
    \E c \in Arrays(RowsOf(sheet)) :
        /\ c.covers.left <= col /\ col <= c.covers.right
        /\ c.covers.top <= num /\ num <= c.covers.bottom

Meant(sheet, row, col) ==
    ValueAt(sheet, row, col, Under(sheet, col, row.num), Known)

IsActiveRow(sheet, row) ==
    \E col \in ActivityColumns(sheet) : Acts(Meant(sheet, row, col))

\* Every cell is where it says, once, and the header is the first row.
Regular(sheet) ==
    LET here == RowsOf(sheet)
    IN  /\ parts[sheet] \notin workbook.package.broken
        /\ \A c \in Arrays(here) : Fits(c)
        /\ here # <<>> /\ here[1].num = 1
        /\ \A i \in DOMAIN here :
             /\ here[i].num # None /\ here[i].num <= LastRow
             /\ \A j \in DOMAIN here : here[i].num = here[j].num => i = j
             /\ \A c \in Range(here[i].cells) : c.row = here[i].num
             /\ \A j, k \in DOMAIN here[i].cells :
                  here[i].cells[j].col = here[i].cells[k].col => j = k
        /\ \A col \in Headed(sheet) :
             HeaderHolds(sheet, here[1], col, Under(sheet, col, 1), Known)

DataRows(sheet) == {row \in Range(RowsOf(sheet)) : row.num # 1}

\* Every value that matters can be read: activity in all rows, and all that is
\* kept in the active ones.
Readable(sheet, row) ==
    IF IsActiveRow(sheet, row)
    THEN /\ \A col \in RawColumns(sheet) : Accepted(sheet, col, Meant(sheet, row, col))
         /\ \E spelling \in DOMAIN IdentityOf :
              Meant(sheet, row, Contract[sheet].id) = <<"text", spelling>>
    ELSE \A col \in ActivityColumns(sheet) : Meant(sheet, row, col) # Bad

ActiveRows == {a \in UNION {{sheet} \X DataRows(sheet) : sheet \in Sheet} :
                 IsActiveRow(a[1], a[2])}

IdOf(sheet, row) == IdentityOf[Meant(sheet, row, Contract[sheet].id)[2]]

IsReadable ==
    /\ \A sheet \in Sheet :
         Regular(sheet) /\ \A row \in DataRows(sheet) : Readable(sheet, row)
    /\ \A a, b \in ActiveRows : IdOf(a[1], a[2]) = IdOf(b[1], b[2]) => a = b

\* No other reader of the package can take another part for a sheet.
Unambiguous ==
    LET p == workbook.package
    IN  \A sheet \in Sheet :
          {r.target : r \in {q \in Range(p.rels) :
                               [name |-> sheet, id |-> q.id] \in Range(p.declared)}}
          = {parts[sheet]}

Answer ==
    {ReadAs(a[1], a[2].num, IdOf(a[1], a[2]),
            [col \in RawColumns(a[1]) |-> Meant(a[1], a[2], col)]) : a \in ActiveRows}

\* The strings on which the answer depends: those of the headers, those that tell
\* whether a row is active, and all that is kept of the active rows.
Reads(sheet, row) ==
    CASE row.num = 1 -> Headed(sheet)
      [] row.num # 1 /\ IsActiveRow(sheet, row) -> Retained(sheet)
      [] row.num # 1 /\ ~IsActiveRow(sheet, row) -> ActivityColumns(sheet)

Used ==
    UNION {{c.value : c \in {d \in Range(a[2].cells) :
                /\ d.type = "s" /\ d.formula = "no"
                /\ d.col \in Reads(a[1], a[2])
                /\ ~Under(a[1], d.col, a[2].num)}} :
             a \in UNION {{sheet} \X Range(RowsOf(sheet)) : sheet \in Sheet}}

-----------------------------------------------------------------------------
(* Properties *)

Columns == UNION {Retained(sheet) : sheet \in Sheet}

\* Every variable has its type, and the map of strings grows to what was wanted.
TypeOK ==
    /\ pc \in {"package", "discover", "strings", "decide", "rows", "done", "refused"}
    /\ pc \notin {"package", "refused"} => DOMAIN parts = Sheet
    /\ at \in DOMAIN ApprovedSheets /\ Len(cover) <= Len(ApprovedSheets)
    /\ pc \in {"strings", "decide", "rows", "done"} => Len(cover) = Len(ApprovedSheets)
    /\ line \in Nat \ {0} /\ headed \in BOOLEAN
    /\ DOMAIN strings \subseteq DOMAIN workbook.strings
    /\ \A i \in DOMAIN rows : rows[i].sheet = ApprovedSheets[at]
    /\ \A r \in result : r.sheet \in Sheet /\ r.id \in Range(IdentityOf)

\* The two passes with their partial maps of strings and merged spans accept
\* exactly the workbooks that can be read, and deliver for them the rows, values
\* and places of the abstract read: no row is lost or gained because a string was
\* not loaded or a formula of a later row covers it.
ReadAgrees ==
    /\ pc = "done" => IsReadable /\ Unambiguous /\ result = Answer
    /\ pc = "refused" /\ parts # <<>> => ~IsReadable

\* When the second pass begins over a workbook that can be read, the strings
\* loaded are exactly those the answer depends on: a damaged string nobody looks
\* at refuses no workbook, and none is decoded in vain.
OnlyNeededStrings ==
    pc = "rows" /\ at = 1 /\ line = 1 /\ IsReadable => DOMAIN strings = Used
================================================================================
