CONSTANTS
    Interactive = TRUE
    Spurious = TRUE
    MaxSignals = 3
SPECIFICATION FairSpec
CHECK_DEADLOCK FALSE
INVARIANTS
    ExitIsClean
    HandlersOutlived
    NotBeforeStop
PROPERTIES
    StopCommandEnds
