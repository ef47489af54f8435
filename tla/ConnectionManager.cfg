CONSTANTS
    Flows = {f1, f2, f3}
    NoFlow = NoFlow
    ServiceLimit = 1
    NumContexts = 2
SPECIFICATION FairSpec
CHECK_DEADLOCK FALSE
INVARIANTS
    NoIdleSlot
    Ownership
    HandlersAlive
PROPERTIES
    EventuallyServed
    ShutdownTerminates
    ImplementsPool
