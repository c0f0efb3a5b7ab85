SPECIFICATION Spec
CONSTANTS
    None = None
    h1 = h1
    h2 = h2
    Hash = {h1, h2}
    StableId <- MCRows
    Sheet <- MCSheets
    PartySheet = 3
    Client = {c1}
    Source = {sA, sB}
    FirstSource = sA
    ImportId = {i1, i2, i3}
    Workbooks <- AllWorkbooks
    Incomplete <- OneIncomplete
    StrayImports = {}
    ForgetsEvents = FALSE
    MaxGeneration = 3
SYMMETRY ImportSymmetry
INVARIANTS
    TypeOK
    StoreReadable
    FeedRebuildsWorkbook
    NoFalseVoid
    ChangeChain
    IdentitiesStayHome
PROPERTIES
    ArchivedFrozen
