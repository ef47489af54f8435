CONSTANTS
    client = client
    server = server
    Conns = {client, server}
    MaxChunks = 2
    Batches <- FewBatches
    Meddling = {}
SPECIFICATION MCFairSpec
CHECK_DEADLOCK FALSE
PROPERTIES
    RelayEnds
