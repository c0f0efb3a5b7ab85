------------------------------ MODULE RawContract ------------------------------
(***************************************************************************)
(* The raw input contract: which sheets are read, and for each sheet which *)
(* column holds the identity, which hold the user's raw values and of what *)
(* kind, which of these make a row active, and which must be there for a   *)
(* row to be complete.                                                     *)
(*                                                                         *)
(* Columns are numbers, A being 1.  A header's text is represented by the  *)
(* name of the field it announces, and None where none is required.  The   *)
(* kind "date" is raw text of a date_raw field.                            *)
(***************************************************************************)
EXTENDS Integers, Sequences, FiniteSets

CONSTANT None

\* A raw column, with the header it must have.
Raw(at, field, kind) == [at |-> at, field |-> field, kind |-> kind, header |-> field]

\* An auxiliary one, without a mandatory header.
Unheaded(column) == [column EXCEPT !.header = None]

BuySell ==
    [id |-> 26, identity |-> "record_id",
     activity |-> <<3, 4, 5, 6, 7, 8, 10>>, derived |-> {1, 9},
     raw |-> <<Raw(2, "date", "date"), Raw(3, "party", "text"),
               Raw(4, "transaction", "text"), Raw(5, "item", "text"),
               Raw(6, "quantity", "decimal"), Raw(7, "price", "integer"),
               Raw(8, "discount", "integer"), Raw(10, "notes", "text")>>]

ReceiptsPayments ==
    [id |-> 16, identity |-> "record_id",
     activity |-> <<3, 4, 5, 6, 7, 8>>, derived |-> {1},
     raw |-> <<Raw(2, "date", "date"), Raw(3, "party", "text"),
               Raw(4, "entry", "text"), Raw(5, "amount", "integer"),
               Raw(6, "notes", "text"), Unheaded(Raw(7, "account", "text")),
               Unheaded(Raw(8, "customer", "text"))>>]

InventoryMovements ==
    [id |-> 16, identity |-> "record_id",
     activity |-> <<3, 4, 5, 6, 7, 9, 11>>, derived |-> {1, 8, 10},
     raw |-> <<Raw(2, "date", "date"), Raw(3, "party", "text"),
               Raw(4, "movement", "text"), Raw(5, "item", "text"),
               Raw(6, "quantity", "decimal"), Raw(7, "purity", "decimal"),
               Raw(9, "notes", "text"), Unheaded(Raw(11, "customer", "text"))>>]

BusinessParties ==
    [id |-> 4, identity |-> "party_id",
     activity |-> <<2, 3>>, derived |-> {1},
     raw |-> <<Raw(2, "party", "text"), Raw(3, "phone", "text")>>]

\* The approved sheets, in the order of the registry.
ApprovedSheets == <<"buySell", "receipts", "inventory", "parties">>

Contract ==
    [buySell |-> BuySell, receipts |-> ReceiptsPayments,
     inventory |-> InventoryMovements, parties |-> BusinessParties]

Sheet == DOMAIN Contract

\* REQUIRED_FIELDS_BY_SHEET: what must be there for a row to be complete.
Required ==
    [buySell |-> {"date", "party", "transaction", "item", "quantity", "price"},
     receipts |-> {"date", "party", "entry", "amount"},
     inventory |-> {"date", "party", "movement", "item", "quantity"},
     parties |-> {"party"}]

RawColumns(sheet) == {Contract[sheet].raw[i].at : i \in DOMAIN Contract[sheet].raw}
ActivityColumns(sheet) ==
    {Contract[sheet].activity[i] : i \in DOMAIN Contract[sheet].activity}
Retained(sheet) == RawColumns(sheet) \cup {Contract[sheet].id}

\* The contract of the column a value is in.
ColumnAt(sheet, at) ==
    CHOOSE c \in {Contract[sheet].raw[i] : i \in DOMAIN Contract[sheet].raw} : c.at = at

\* The columns with a mandatory header, that of the identity among them.
Headed(sheet) ==
    {at \in RawColumns(sheet) : ColumnAt(sheet, at).header # None} \cup {Contract[sheet].id}

\* _validate_invariants, which every contract passes before it is used: what a
\* column is for is never in doubt, and activity is told from raw values only.
WellFormed(c) ==
    LET raw == {c.raw[i].at : i \in DOMAIN c.raw}
    IN  /\ \A i, j \in DOMAIN c.raw : c.raw[i].at = c.raw[j].at => i = j
        /\ \A i, j \in DOMAIN c.raw : c.raw[i].field = c.raw[j].field => i = j
        /\ c.id \notin raw \cup c.derived
        /\ raw \cap c.derived = {}
        /\ c.activity # <<>>
        /\ \A i \in DOMAIN c.activity : c.activity[i] \in raw

ASSUME ContractAssumption ==
    /\ \A sheet \in Sheet : WellFormed(Contract[sheet])
    /\ \A sheet \in Sheet : \A i \in DOMAIN Contract[sheet].raw :
         None # Contract[sheet].raw[i].field
================================================================================
