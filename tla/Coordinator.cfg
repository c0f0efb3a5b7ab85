SPECIFICATION Spec
CONSTANTS
    None = None
    Driver = {d1, d2}
    Debounce = 2
    MaxClock = 7
    MaxSaves = 2
SYMMETRY DriverSymmetry
INVARIANTS
    TypeOK
    NoLostSave
    OneReadAtATime
    FaultKeepsWork
PROPERTIES
    QuietBeforeRead
