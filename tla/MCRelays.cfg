CONSTANTS
    client = client
    server = server
    Conns = {client, server}
    MaxChunks = 2
    Batches <- SomeBatches
    Meddling = {"message", "close", "switch"}
SPECIFICATION MCSpec
CHECK_DEADLOCK FALSE
INVARIANTS
    TypeOK
    StopsOnceAndQuiet
    OneOperationPerLoop
    CloseSentOnce
    MessagesIntact
PROPERTIES
    FirstCloseKept
