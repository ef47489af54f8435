CONSTANTS
    Threads = {t1, t2}
    NoThread = NoThread
    Hosts = {2, 3}
    Wildcard = 1
    MaxCerts = 1
    MaxIssued = 5
    MaxFaults = 1
SPECIFICATION Spec
CHECK_DEADLOCK FALSE
SYMMETRY ThreadSymmetry
INVARIANTS
    CoversServer
    QueueCovers
    UniqueSerials
    AuthorityPersists
