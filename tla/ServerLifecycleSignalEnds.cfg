CONSTANTS
    Interactive = FALSE
    Spurious = FALSE
    MaxSignals = 1
SPECIFICATION FairSpec
CHECK_DEADLOCK FALSE
PROPERTIES
    SignalEnds
