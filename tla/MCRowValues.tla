------------------------------ MODULE MCRowValues ------------------------------
(* Row values for TLC: a purchase, a receipt and a party. *)
EXTENDS RowValues, TLC

MCRow == {"r1", "r2", "r3"}
MCSheetOf == ("r1" :> "buySell") @@ ("r2" :> "receipts") @@ ("r3" :> "parties")

MCDateOf ==
    ("1403/01/09" :> <<1403, 1, 9>>) @@ ("1403-1-9" :> <<1403, 1, 9>>)
    @@ ("1404/01/09" :> <<1404, 1, 9>>)
MCNumberOf ==
    ("1.50" :> Number(FALSE, 150, -2)) @@ ("5" :> Number(FALSE, 5, 0))
    @@ ("005" :> Number(FALSE, 5, 0)) @@ ("-0" :> Number(TRUE, 0, 0))
    @@ ("5." :> Number(FALSE, 5, 0))
MCWholeText == {"5", "005", "-0"}
MCBlank == {"", " "}

\* A complete row and what may stand in its fields instead.
Purchase ==
    [date |-> Text("1403/01/09"), party |-> Text("ali"), transaction |-> Text("buy"),
     item |-> Text("gold"), quantity |-> Decimal(Number(FALSE, 15, -1)),
     price |-> Whole(Number(FALSE, 5, 0)), discount |-> None, notes |-> None]
Receipt ==
    [date |-> Text("1403/01/09"), party |-> Text("ali"), entry |-> Text("c"),
     amount |-> Decimal(Number(FALSE, 5, 0)), notes |-> None, account |-> None,
     customer |-> None]
Merchant == [party |-> Text("ali"), phone |-> None]

Quantities ==
    { None, Decimal(Number(FALSE, 150, -2)), Text("1.50"), Decimal(Number(FALSE, 1, 0)),
      Decimal(Number(TRUE, 15, -1)), Decimal(Number(FALSE, 0, -2)), Text("-0"), Text("5."),
      Decimal(Number(TRUE, 0, 0)), Decimal(Number(FALSE, 1, 1)), Whole(Number(FALSE, 10, 0)),
      Text("gold") }
Prices ==
    { Text("5"), Text("005"), Decimal(Number(FALSE, 50, -1)), Decimal(Number(FALSE, 5, 1)),
      Decimal(Number(FALSE, 55, -1)), Text("5."), Whole(Number(TRUE, 5, 0)) }
Dates == {None, Text("1403-1-9"), Text("1404/01/09"), Text(" ")}
Names == {None, Text("sara"), Text(" ")}

With(row, field, values) == {[row EXCEPT ![field] = v] : v \in values}

MCSpelled ==
    [buySell |-> {Purchase} \cup With(Purchase, "quantity", Quantities)
                 \cup With(Purchase, "price", Prices) \cup With(Purchase, "date", Dates)
                 \cup With(Purchase, "party", Names),
     receipts |-> {Receipt} \cup With(Receipt, "date", {None, Text("1404/01/09")}),
     parties |-> {Merchant}]
================================================================================
