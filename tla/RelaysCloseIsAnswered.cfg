CONSTANTS
    client = client
    server = server
    Conns = {client, server}
    MaxChunks = 2
    Batches <- CloseFrames
    Meddling = {}
SPECIFICATION MCSpec
CHECK_DEADLOCK FALSE
INVARIANT
    CloseIsAnswered
