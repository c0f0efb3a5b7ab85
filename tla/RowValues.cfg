SPECIFICATION Spec
CONSTANTS
    None = None
    Rejected = Rejected
    Row <- MCRow
    SheetOf <- MCSheetOf
    Spelled <- MCSpelled
    DateOf <- MCDateOf
    NumberOf <- MCNumberOf
    WholeText <- MCWholeText
    Blank <- MCBlank
INVARIANTS
    StoredMeansSource
    EvidenceAddsUp
