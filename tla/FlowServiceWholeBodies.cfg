CONSTANTS
    client = client
    server = server
    Conns = {client, server}
    Hosts = {h1}
    NoHost = NoHost
    MaxBody = 1
    PassTlsThrough = FALSE
    ClientsExpect = FALSE
SPECIFICATION Spec
CHECK_DEADLOCK FALSE
INVARIANTS
    WholeBodies
