SPECIFICATION Spec
CONSTANTS
    None = None
    Workbook <- MCWorkbook
    LastRow <- MCLastRow
    IdentityOf <- MCIdentityOf
    Valid <- MCValid
INVARIANTS
    TypeOK
    ReadAgrees
    OnlyNeededStrings
