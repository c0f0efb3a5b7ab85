------------------------------- MODULE RowValues -------------------------------
(***************************************************************************)
(* What the spelling of a value does on its way through the program.  A    *)
(* user writes the same number or date in several ways; a row's            *)
(* source_hash is made of canonical values, so that an import stores a new *)
(* payload only where the hash differs, and the store goes on holding the  *)
(* older spelling of an equal row.  The payload keeps the spelling it was  *)
(* made from.  Reports on requiredness and fiscal years are computed from  *)
(* spelled values.                                                         *)
(*                                                                         *)
(* Hashes are injective: a hash is what it is computed from.               *)
(***************************************************************************)
EXTENDS RawContract, FiniteSetsExt, Functions

CONSTANTS
    Row,       \* identities
    SheetOf,   \* where they are
    Spelled,   \* per sheet: the rows a user may write, as functions of the fields
    DateOf,    \* external: the texts that are a Jalali date, with year, month, day
    NumberOf,  \* the texts that match DECIMAL_REGEX, with their number
    WholeText, \* the texts that match INTEGER_TOMAN_REGEX
    Blank,     \* the texts that strip to nothing
    Rejected   \* in place of the canonical form a value does not have

VARIABLES
    source,   \* the workbook: per row its values, or None
    stored,   \* the payload of the row's current version, or None
    kept,     \* history: the values that version was made of
    imported  \* the workbook was imported since it was edited last

vars == <<source, stored, kept, imported>>

-----------------------------------------------------------------------------
(* Values: None, a text, an int, a Decimal.  A number is n * 10^e, with its sign *)
(* apart, as there is a negative zero.                                           *)

Numeral == [negative : BOOLEAN, n : Nat, e : Int]

Text(t) == [type |-> "text", text |-> t]
Number(negative, n, e) == [negative |-> negative, n |-> n, e |-> e]
Whole(number) == [type |-> "int", number |-> number]
Decimal(number) == [type |-> "decimal", number |-> number]

TenTo[k \in Nat] == IF k = 0 THEN 1 ELSE 10 * TenTo[k - 1]

\* format(value, "f") without trailing zeros of the fraction.  Zero has no sign.
Fixed(x) ==
    LET zeros == IF x.e >= 0 THEN 0
                 ELSE Max({k \in 0..(-x.e) : x.n % TenTo[k] = 0})
    IN  CASE x.n = 0 -> Number(FALSE, 0, 0)
          [] x.n # 0 /\ x.e >= 0 -> Number(x.negative, x.n * TenTo[x.e], 0)
          [] x.n # 0 /\ x.e < 0 -> Number(x.negative, x.n \div TenTo[zeros], x.e + zeros)

\* Fault: the fraction is cut off.
Truncated(x) ==
    IF x.e >= 0 THEN Fixed(x) ELSE Fixed(Number(x.negative, x.n \div TenTo[-x.e], 0))

CanonicalDecimal(x) == Fixed(x)

NumberIn(v) == IF v.type = "text" THEN NumberOf[v.text] ELSE v.number

IsNumber(v) == v.type = "text" => v.text \in DOMAIN NumberOf

\* A text must match INTEGER_TOMAN_REGEX, which has no point; a Decimal may have
\* a fraction of zeros.
IsInteger(v) ==
    IF v.type = "text" THEN v.text \in WholeText ELSE Fixed(NumberIn(v)).e = 0

\* Fault: a blank text is taken for none.
BlankIsNone(v) ==
    IF v.type # "text" THEN Rejected ELSE IF v.text \in Blank THEN None ELSE v.text

CanonicalText(v) == IF v.type = "text" THEN v.text ELSE Rejected

\* canonicalize_value
Canonical(kind, v) ==
    CASE v = None -> None
      [] v # None /\ kind = "text" -> CanonicalText(v)
      [] v # None /\ kind = "date" ->
           IF v.type = "text" /\ v.text \in DOMAIN DateOf THEN DateOf[v.text] ELSE Rejected
      [] v # None /\ kind = "integer" -> IF IsInteger(v) THEN Fixed(NumberIn(v)) ELSE Rejected
      [] v # None /\ kind = "decimal" ->
           IF IsNumber(v) THEN CanonicalDecimal(NumberIn(v)) ELSE Rejected

-----------------------------------------------------------------------------
(* Rows. *)

Fields(sheet) == {Contract[sheet].raw[i].field : i \in DOMAIN Contract[sheet].raw}

KindOf(sheet, field) ==
    (CHOOSE c \in {Contract[sheet].raw[i] : i \in DOMAIN Contract[sheet].raw} :
        c.field = field).kind

\* compute_source_hash
SourceHash(sheet, values) ==
    <<sheet, [field \in Fields(sheet) |->
                <<KindOf(sheet, field), Canonical(KindOf(sheet, field), values[field])>>]>>

\* The reader, and build_source_workbook_snapshot, let no other row through.
IsValid(sheet, values) ==
    \A field \in Fields(sheet) : Canonical(KindOf(sheet, field), values[field]) # Rejected

\* _encode_scalar spells numbers with digits, a Decimal as sign, coefficient and
\* exponent.
Digits(n) ==
    LET of[m \in 0..n] == IF m < 10 THEN <<m>> ELSE Append(of[m \div 10], m % 10)
    IN  of[n]

NumberFrom(digits) ==
    LET from[i \in 0..Len(digits)] == IF i = 0 THEN 0 ELSE 10 * from[i - 1] + digits[i]
    IN  from[Len(digits)]

\* A minus is written for a number below zero, and read for one.
Minus(x) == x.negative /\ x.n # 0

EncodeScalar(v) ==
    CASE v = None -> <<"null", None>>
      [] v # None /\ v.type = "text" -> <<"text", v.text>>
      [] v # None /\ v.type = "int" -> <<"int", Minus(v.number), Digits(v.number.n)>>
      [] v # None /\ v.type = "decimal" ->
           <<"decimal", v.number.negative, Digits(v.number.n), v.number.e>>

DecodeScalar(p) ==
    CASE p[1] = "null" -> None
      [] p[1] = "text" -> Text(p[2])
      [] p[1] = "int" -> Whole(Number(p[2], NumberFrom(p[3]), 0))
      [] p[1] = "decimal" -> Decimal(Number(p[2], NumberFrom(p[3]), p[4]))

\* encode_source_raw_row
Encode(sheet, row, values) ==
    [sheet |-> sheet, row |-> row, hash |-> SourceHash(sheet, values),
     fields |-> [field \in Fields(sheet) |-> EncodeScalar(values[field])]]

DecodedValues(p) == [field \in Fields(p.sheet) |-> DecodeScalar(p.fields[field])]

\* decode_source_raw_row: the values give the hash, and the same payload again.
Decodes(p) ==
    /\ SourceHash(p.sheet, DecodedValues(p)) = p.hash
    /\ Encode(p.sheet, p.row, DecodedValues(p)) = p

-----------------------------------------------------------------------------
(* What the constants are. *)

\* What the reader makes of a cell, and a caller may pass: a text, an int, which has
\* one zero, or a Decimal.
IsValue(v) ==
    \/ v.type = "text" /\ v = Text(v.text) /\ v.text \notin {None, Rejected}
    \/ /\ v.type = "int" /\ v = Whole(v.number) /\ v.number \in Numeral
       /\ v.number.e = 0 /\ (v.number.negative => v.number.n # 0)
    \/ v.type = "decimal" /\ v = Decimal(v.number) /\ v.number \in Numeral

IsRow(sheet, values) ==
    /\ values = [field \in Fields(sheet) |-> values[field]]
    /\ \A field \in Fields(sheet) : values[field] # None => IsValue(values[field])

\* The last: None is no row and no payload.
ASSUME ValuesAssumption ==
    /\ IsFiniteSet(Row) /\ SheetOf \in [Row -> Sheet]
    /\ DOMAIN DateOf \cap Blank = {} /\ DOMAIN NumberOf \cap Blank = {}
    /\ \A t \in DOMAIN NumberOf : NumberOf[t] \in Numeral
    /\ \A t \in WholeText : t \in DOMAIN NumberOf /\ NumberOf[t].e = 0
    /\ \A t \in DOMAIN DateOf : DateOf[t] \notin {None, Rejected} /\ DateOf[t][1] # None
    /\ None # Rejected /\ None \notin Numeral /\ Rejected \notin Numeral
    /\ \A r \in Row : \A values \in Spelled[SheetOf[r]] :
         /\ IsRow(SheetOf[r], values)
         /\ None \notin {values, Encode(SheetOf[r], r, values)}

-----------------------------------------------------------------------------
(* Reports on a set of rows, given as a function with None for a row not there. *)

Present(rows) == {r \in Row : rows[r] # None}

\* SourceRequirednessReport
Issues(rows) ==
    {i \in UNION {{r} \X Required[SheetOf[r]] \X {"missing", "blank"} : r \in Present(rows)} :
       LET v == rows[i[1]][i[2]]
       IN  IF i[3] = "missing" THEN v = None
           ELSE /\ v # None /\ KindOf(SheetOf[i[1]], i[2]) \in {"text", "date"}
                /\ v.type = "text" /\ v.text \in Blank}

PassesRequiredness(rows) == Issues(rows) = {}

\* SourceFiscalEvidenceReport
Transactions(rows) == {r \in Present(rows) : SheetOf[r] # "parties"}
YearOf(rows, r) ==
    IF rows[r]["date"] = None THEN None ELSE DateOf[rows[r]["date"].text][1]
Years(rows) == {YearOf(rows, r) : r \in Transactions(rows)} \ {None}

Evidence(rows) ==
    [counts |-> [y \in Years(rows) |->
                   Cardinality({r \in Transactions(rows) : YearOf(rows, r) = y})],
     transactions |-> Cardinality(Transactions(rows)),
     others |-> Cardinality(Present(rows) \ Transactions(rows))]

Dated(rows) == SumFunction(Evidence(rows).counts)
Undated(rows) == Evidence(rows).transactions - Dated(rows)

-----------------------------------------------------------------------------
Init ==
    /\ source = [r \in Row |-> None] /\ stored = [r \in Row |-> None]
    /\ kept = [r \in Row |-> None]
    /\ imported = FALSE

\* External: the user writes a row, or clears it.
Write(r) ==
    /\ source' = [source EXCEPT ![r] = None]
       \/ \E values \in Spelled[SheetOf[r]] : source' = [source EXCEPT ![r] = values]
    /\ source' # source
    /\ imported' = FALSE
    /\ UNCHANGED <<stored, kept>>

\* plan_source_changes compares hashes; the payload of an unchanged row stays.
IsUnchanged(r) ==
    /\ source[r] # None /\ stored[r] # None
    /\ stored[r].hash = SourceHash(SheetOf[r], source[r])

Import ==
    /\ \A r \in Present(source) : IsValid(SheetOf[r], source[r])
    /\ stored' = [r \in Row |->
                    IF IsUnchanged(r) THEN stored[r]
                    ELSE IF source[r] = None THEN None
                    ELSE Encode(SheetOf[r], r, source[r])]
    /\ kept' = [r \in Row |-> IF IsUnchanged(r) THEN kept[r] ELSE source[r]]
    /\ imported' = TRUE
    /\ source' = source

Next == Import \/ \E r \in Row : Write(r)

Spec == Init /\ [][Next]_vars

-----------------------------------------------------------------------------
(* Properties *)

\* What two values of a kind mean is compared as numbers, as days, as texts.
SameNumber(x, y) ==
    LET low == Min({x.e, y.e})
        At(z) == (IF z.negative THEN -z.n ELSE z.n) * TenTo[z.e - low]
    IN  At(x) = At(y)

SameValue(kind, v, w) ==
    IF v = None \/ w = None THEN v = w
    ELSE CASE kind = "text" -> v.text = w.text
           [] kind = "date" -> DateOf[v.text] = DateOf[w.text]
           [] kind \in {"integer", "decimal"} -> SameNumber(NumberIn(v), NumberIn(w))

SameRow(sheet, v, w) ==
    \A field \in Fields(sheet) : SameValue(KindOf(sheet, field), v[field], w[field])

\* A payload can always be read, and gives back the values it was made of to the
\* last zero.  A row counts as unchanged exactly when it means what the stored
\* one means: no edit is lost to an equal hash, and spelling alone makes no
\* version.  After an import the store holds the rows of the workbook.
StoredMeansSource ==
    \A r \in Row :
        /\ stored[r] # None => Decodes(stored[r]) /\ DecodedValues(stored[r]) = kept[r]
        /\ stored[r] # None /\ source[r] # None /\ IsValid(SheetOf[r], source[r]) =>
             (IsUnchanged(r) <=> SameRow(SheetOf[r], source[r], kept[r]))
        /\ imported => (stored[r] = None <=> source[r] = None)

Held == [r \in Row |-> IF stored[r] = None THEN None ELSE DecodedValues(stored[r])]

\* The reports give the same result on the rows the store holds, with their older
\* spellings, as on the workbook that was imported last.  Their counts add up,
\* and where nothing required is missing every transaction has a fiscal year.
EvidenceAddsUp ==
    imported =>
        /\ Evidence(Held) = Evidence(source) /\ Issues(Held) = Issues(source)
        /\ Undated(source) = Cardinality({r \in Transactions(source) : source[r]["date"] = None})
        /\ PassesRequiredness(source) => Undated(source) = 0
================================================================================
