CONSTANTS
    Threads = {t1}
    NoThread = NoThread
    Hosts = {2, 3}
    Wildcard = 1
    MaxCerts = 1
    MaxIssued = 4
    MaxFaults = 0
SPECIFICATION Spec
CHECK_DEADLOCK FALSE
INVARIANTS
    TopIsNextToDelete
