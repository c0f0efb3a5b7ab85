SPECIFICATION Spec
CONSTANTS
    None = None
    h1 = h1
    h2 = h2
    Hash = {h1, h2}
    StableId <- MCRows
    Sheet <- MCSheets
    PartySheet = 3
    Client = {c1, c2}
    Source = {sA, sB}
    FirstSource = sA
    ImportId = {i1, i2}
    Workbooks <- FewWorkbooks
    Incomplete <- NoneIncomplete
    StrayImports = {}
    ForgetsEvents = FALSE
    MaxGeneration = 2
SYMMETRY CallerSymmetry
INVARIANTS
    ReceiptIsOfMyRequest
    OneCommitPerImport
    NoStaleImport
    NoSilentLock
PROPERTIES
    StoreOnlyGrows
