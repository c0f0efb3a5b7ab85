SPECIFICATION Spec
CONSTANTS
    None = None
    Inode = {i1, i2}
    MaxBlocks = 2
    MaxWrites = 3
    MaxTrouble = 0
INVARIANTS
    SnapshotHappened
    BlameIsRight
