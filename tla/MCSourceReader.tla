---------------------------- MODULE MCSourceReader ----------------------------
(***************************************************************************)
(* The reader for TLC: workbooks that differ from a plain one in the first *)
(* rows of the first sheet, in a header, in a second sheet, in the strings *)
(* or in the package.                                                      *)
(***************************************************************************)
EXTENDS SourceReader

Literal(col, row, type, value) ==
    [col |-> col, row |-> row, formula |-> "no", covers |-> None, type |-> type, value |-> value]
Text(col, row, value) == Literal(col, row, "text", value)
Number(col, row, value) == Literal(col, row, "number", value)
SharedAt(col, row, index) == Literal(col, row, "s", index)
Formula(col, row) == [Literal(col, row, "number", "5") EXCEPT !.formula = "plain"]
Array(col, row, left, right, top, bottom) ==
    [Literal(col, row, "s", "word") EXCEPT !.formula = "array",
        !.covers = [left |-> left, right |-> right, top |-> top, bottom |-> bottom]]

RowAt(num, cells) == [num |-> num, cells |-> cells]

MCLastRow == 4
MCIdentityOf == ("u1" :> "u1") @@ ("U1" :> "u1") @@ ("u2" :> "u2")
MCValid ==
    [date |-> {<<"text", "day">>},
     integer |-> {<<"text", "5">>, <<"number", "5">>},
     decimal |-> {<<"text", "5">>, <<"number", "5">>, <<"number", "half">>}]

\* The indices are named after their strings.
Strings == ("word" :> "word") @@ ("blank" :> " ") @@ ("u1" :> "u1") @@ ("day" :> "day")
           @@ ("party" :> "party") @@ ("damaged" :> "broken")

-----------------------------------------------------------------------------
(* Sheets. *)

HeadedRaw(sheet) == SelectSeq(Contract[sheet].raw, LAMBDA c : c.header # None)
Header(sheet) ==
    RowAt(1, [i \in DOMAIN HeadedRaw(sheet) |->
                Text(HeadedRaw(sheet)[i].at, 1, HeadedRaw(sheet)[i].header)]
             \o <<Text(Contract[sheet].id, 1, Contract[sheet].identity)>>)

\* The header with the cell of the party replaced.
HeaderWith(cell) ==
    [Header("buySell") EXCEPT !.cells =
        [i \in DOMAIN @ |-> IF @[i].col = 3 THEN cell ELSE @[i]]]

Optional(cells) == {<<>>} \cup {<<c>> : c \in cells}

\* Party, transaction, date and identity of the second row.
SecondRows ==
    {RowAt(2, b \o c \o d \o z) :
       b \in Optional({SharedAt(2, 2, "day"), SharedAt(2, 2, "damaged"), Number(2, 2, "5"),
                       Text(2, 2, "day")}),
       c \in Optional({SharedAt(3, 2, "word"), SharedAt(3, 2, "blank"),
                       SharedAt(3, 2, "missing"), Text(3, 2, "word"), Text(3, 2, " "),
                       Formula(3, 2)}),
       d \in Optional({SharedAt(4, 2, "word"), SharedAt(4, 2, "blank"), Number(4, 2, "5"),
                       SharedAt(4, 2, "damaged")}),
       z \in Optional({Text(26, 2, "u1"), SharedAt(26, 2, "u1")})}

\* What follows: nothing, other rows, a formula that covers the row before.
Rests ==
    { <<>>,
      <<RowAt(3, <<Text(3, 3, "word"), Text(26, 3, "u2")>>)>>,
      <<RowAt(3, <<Text(3, 3, "word"), Text(26, 3, "U1")>>)>>,
      <<RowAt(3, <<Array(3, 3, 3, 3, 2, 3)>>)>>,
      <<RowAt(3, <<Array(2, 3, 2, 4, 2, 3)>>)>> }

ActiveRow == RowAt(2, <<SharedAt(2, 2, "day"), SharedAt(3, 2, "word"), SharedAt(26, 2, "u1")>>)

OddRests ==
    { \* spans within and next to each other
      <<RowAt(2, <<Array(3, 2, 3, 3, 2, 4)>>), RowAt(3, <<Array(3, 3, 3, 3, 3, 3)>>),
        RowAt(4, <<SharedAt(3, 4, "word")>>)>>,
      <<RowAt(2, <<Array(3, 2, 3, 3, 2, 2)>>), RowAt(3, <<Array(3, 3, 3, 3, 3, 3)>>),
        RowAt(4, <<Text(3, 4, "word"), SharedAt(26, 4, "u1")>>)>>,
      \* rectangles that do not fit
      <<RowAt(2, <<[Array(3, 2, 3, 3, 2, 2) EXCEPT !.covers = None]>>)>>,
      <<RowAt(2, <<Array(3, 2, 3, 3, 3, 4)>>)>>,
      <<RowAt(2, <<Array(3, 2, 3, 3, 4, 2)>>)>>,
      <<RowAt(2, <<Array(3, 2, 3, 3, 2, 5)>>)>>,
      \* a formula over a header
      <<RowAt(2, <<Array(3, 2, 3, 3, 1, 2)>>)>>,
      \* rows and cells that are not where they should be
      <<ActiveRow, ActiveRow>>,
      <<[ActiveRow EXCEPT !.num = None]>>,
      <<[ActiveRow EXCEPT !.num = 5]>>,
      <<RowAt(2, <<SharedAt(3, 3, "word"), SharedAt(26, 2, "u1")>>)>>,
      <<RowAt(2, <<SharedAt(3, 2, "word"), SharedAt(3, 2, "damaged"), SharedAt(26, 2, "u1")>>)>>,
      \* values that are refused in some column
      <<RowAt(2, <<Text(3, 2, "word"), Number(7, 2, "half"), Text(26, 2, "u1")>>)>>,
      <<RowAt(2, <<Number(7, 2, "5"), Text(6, 2, "5"), Text(26, 2, "u1")>>)>>,
      <<RowAt(2, <<Number(7, 2, "broken"), Text(26, 2, "u1")>>)>>,
      <<RowAt(2, <<Text(3, 2, "broken"), SharedAt(4, 2, "blank")>>)>>,
      <<RowAt(2, <<Literal(3, 2, "other", None), Text(26, 2, "u1")>>)>>,
      <<RowAt(2, <<SharedAt(3, 2, "broken")>>)>>,
      <<RowAt(2, <<Text(3, 2, "word"), SharedAt(2, 2, "broken"), Text(26, 2, "u1")>>)>>,
      <<RowAt(2, <<SharedAt(3, 2, "word"), SharedAt(2, 2, "broken"), Text(26, 2, "u1")>>)>>,
      <<RowAt(2, <<SharedAt(9, 2, "damaged"), Text(3, 2, "word"), Text(26, 2, "u1")>>)>>,
      <<RowAt(2, <<Text(3, 2, "word"), Text(26, 2, "v4")>>)>> }

OddHeaders ==
    { HeaderWith(SharedAt(3, 1, "party")), HeaderWith(SharedAt(3, 1, "word")),
      HeaderWith(SharedAt(3, 1, "damaged")), HeaderWith(SharedAt(3, 1, "missing")),
      HeaderWith(SharedAt(3, 1, "broken")), HeaderWith(Formula(3, 1)),
      HeaderWith(Text(9, 1, "party")), HeaderWith(Number(3, 1, "5")) }

FirstSheets ==
    {<<Header("buySell"), second>> \o rest : second \in SecondRows, rest \in Rests}
    \cup {<<Header("buySell")>> \o rest : rest \in OddRests}
    \cup {<<header, ActiveRow>> : header \in OddHeaders}
    \cup { <<>>, <<ActiveRow>>, <<ActiveRow, Header("buySell")>> }

Party(spelling) == RowAt(3, <<SharedAt(2, 3, "word"), Text(4, 3, spelling)>>)

-----------------------------------------------------------------------------
(* Packages. *)

Rel(id, type, target) == [id |-> id, type |-> type, target |-> target]

TypeFor == ("wb" :> "workbook") @@ ("sst" :> "strings") @@ ("p1" :> "sheet")
           @@ ("p2" :> "sheet") @@ ("p3" :> "sheet") @@ ("p4" :> "sheet")

Plain ==
    [names |-> <<"wb", "sst", "p1", "p2", "p3", "p4">>,
     types |-> TypeFor, broken |-> {},
     root |-> <<Rel("r1", "workbook", "wb")>>,
     rels |-> <<Rel("r1", "sheet", "p1"), Rel("r2", "sheet", "p2"), Rel("r3", "sheet", "p3"),
                Rel("r4", "sheet", "p4"), Rel("r5", "strings", "sst")>>,
     declared |-> <<[name |-> "buySell", id |-> "r1"], [name |-> "receipts", id |-> "r2"],
                    [name |-> "inventory", id |-> "r3"], [name |-> "parties", id |-> "r4"]>>]

NoTable == [Plain EXCEPT !.rels = SubSeq(@, 1, 4)]

OddPackages ==
    { [Plain EXCEPT !.names = Append(@, "p1")],
      [Plain EXCEPT !.names = SubSeq(@, 1, 5)],
      [Plain EXCEPT !.names = <<"wb", "p1", "p2", "p3", "p4">>],
      [Plain EXCEPT !.types = @ @@ ("macro" :> "forbidden")],
      [Plain EXCEPT !.types["p4"] = "other"],
      [Plain EXCEPT !.types["wb"] = "other"],
      [Plain EXCEPT !.broken = {"wb"}], [Plain EXCEPT !.broken = {"sst"}],
      [Plain EXCEPT !.broken = {"p3"}],
      [Plain EXCEPT !.root = <<>>],
      [Plain EXCEPT !.root = Append(@, Rel("r1", "other", "p9"))],
      [Plain EXCEPT !.root = Append(@, Rel("r2", "workbook", "wb"))],
      [Plain EXCEPT !.root = Append(@, Rel("r2", "workbook", None))],
      [Plain EXCEPT !.rels = Append(@, Rel("r1", "sheet", "p2"))],
      [Plain EXCEPT !.rels = Append(@, Rel("r1", "sheet", None))],
      [Plain EXCEPT !.rels = Append(@, Rel("r6", "strings", "sst"))],
      [Plain EXCEPT !.rels[2].target = "p1"],
      [Plain EXCEPT !.rels[2].target = None],
      [Plain EXCEPT !.rels[2].type = "other"],
      [Plain EXCEPT !.declared = SubSeq(@, 1, 3)],
      [Plain EXCEPT !.declared = Append(@, [name |-> "buySell", id |-> "r2"])],
      [Plain EXCEPT !.declared = Append(@, [name |-> "extra", id |-> "r2"])] }

Book(package, first, last) ==
    [package |-> package, strings |-> Strings,
     sheets |-> ("p1" :> first) @@ ("p2" :> <<Header("receipts")>>)
                @@ ("p3" :> <<Header("inventory")>>)
                @@ ("p4" :> <<Header("parties")>> \o last)]

PlainFirst == <<Header("buySell"), ActiveRow>>

MCWorkbook ==
    {Book(Plain, first, <<>>) : first \in FirstSheets}
    \cup {Book(NoTable, first, <<>>) : first \in {PlainFirst, <<Header("buySell")>>}}
    \cup {Book(package, PlainFirst, <<>>) : package \in OddPackages}
    \cup {Book([Plain EXCEPT !.broken = {"sst"}], <<Header("buySell")>>, <<>>)}
    \cup {Book(Plain, PlainFirst, <<Party(s)>>) : s \in {"u1", "U1", "u2"}}
================================================================================
