SPECIFICATION Spec
CONSTANTS
    None = None
    Inode = {i1}
    MaxBlocks = 1
    MaxWrites = 1
    MaxTrouble = 3
INVARIANTS
    TypeOK
    VerdictIsOfOneSave
    GoingOnMeansGone
