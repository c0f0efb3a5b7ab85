--------------------------- MODULE MCImportStore ---------------------------
(* Instances of ImportStore for TLC: one party (row 1) and one transaction
   (row 2), two contents each, and workbooks that insert, edit, void,
   reactivate, share and misplace them. *)
EXTENDS ImportStore, TLC

CONSTANTS h1, h2

MCRows == {1, 2}
MCSheets == {0, 3}

PartyRow(h) == [sheet |-> 3, hash |-> h]
TransactionRow(h) == [sheet |-> 0, hash |-> h]

OnlyParty(h) == [id \in {1} |-> PartyRow(h)]
Both(h, k) == [id \in {1, 2} |-> IF id = 1 THEN PartyRow(h) ELSE TransactionRow(k)]
Misplaced == [id \in {1} |-> TransactionRow(h1)]

OnlyTransaction == [id \in {2} |-> TransactionRow(h1)]

AllWorkbooks ==
    {EmptyTable, OnlyParty(h1), OnlyTransaction, Both(h1, h1), Both(h2, h1),
     Both(h1, h2), Misplaced}

NoneIncomplete == {}
OneIncomplete == {OnlyTransaction}

FewWorkbooks == {OnlyParty(h1), Both(h2, h1)}

ImportSymmetry == Permutations(ImportId)

CallerSymmetry == Permutations(ImportId) \cup Permutations(Client)
=============================================================================
