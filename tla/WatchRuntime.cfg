SPECIFICATION Spec
CONSTANTS
    None = None
    Main = main
    Debounce = 1
    MaxClock = 3
    MaxSaves = 2
INVARIANTS
    TypeOK
    StoppedIsClean
    QuietMeansRead
    ResultReachesConsumer
    FaultEndsRun
PROPERTIES
    EndIsFinal
