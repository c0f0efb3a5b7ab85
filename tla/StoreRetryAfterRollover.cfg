SPECIFICATION Spec
CONSTANTS
    None = None
    h1 = h1
    h2 = h2
    Hash = {h1, h2}
    StableId <- MCRows
    Sheet <- MCSheets
    PartySheet = 3
    Client = {c1}
    Source = {sA, sB}
    FirstSource = sA
    ImportId = {i1}
    Workbooks <- FewWorkbooks
    Incomplete <- NoneIncomplete
    StrayImports = {}
    ForgetsEvents = FALSE
    MaxGeneration = 1
PROPERTY
    ExactRetryReplays
