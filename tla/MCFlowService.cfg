CONSTANTS
    client = client
    server = server
    Conns = {client, server}
    Hosts = {h1, h2}
    NoHost = NoHost
    MaxBody = 1
    PassTlsThrough = FALSE
    ClientsExpect = TRUE
SPECIFICATION FairSpec
CHECK_DEADLOCK FALSE
INVARIANTS
    TypeOK
    OneOperation
    StopsOnceAndQuiet
    HandsOverAtRest
    RightServer
    NoDowngrade
    NoStaleExpiry
PROPERTIES
    FlowEnds
