SPECIFICATION FairSpec
CONSTANTS
    None = None
    Main = main
    Debounce = 1
    MaxClock = 3
    MaxSaves = 1
PROPERTIES
    StopEnds
    SaveIsRead
