SPECIFICATION Spec
CONSTANTS
    None = None
    Inode = {i1}
    MaxBlocks = 1
    MaxWrites = 0
    MaxTrouble = 4
INVARIANTS
    TypeOK
    WrongReadIsReported
    SilentMeansGone
PROPERTIES
    ForeignSurvives
