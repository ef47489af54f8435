SPECIFICATION LibrarySpec
CONSTANTS
    Parts = {"invocable", "result", "optional", "pointers", "uuids", "interceptors", "bodies", "hello", "options", "websocket", "targets"}
    Holders = {h1, h2, tmp}
    Temporary = tmp
    Functions = {f1, f2}
    Boxes = {box}
    Nothing = nothing
    Slots = {r1, r2, r3}
    Values = {"v", "w"}
    Optionals = {o1, o2}
    Targets = {r1}
    Pointers = {p1, p2, tmp1, u1, u2}
    Scoped = {p1, p2, tmp1}
    Natives = {n1, n2}
    Null = null
    MaxLibrary = 1
    Callers = {c1, c2}
    MaxTime = 1
    PerTick = 2
    SaveInterval = 2
    Sequences = 2
    UsedSequences = 2
    MaxNodes = 2
    MaxIds = 4
    Events = {e1, e2}
    Runners = {t1, t2}
    Hubs <- LibraryHubs
    MaxInterceptors = 3
    Data <- LibraryData
    Digits <- LibraryDigits
    Chunkings <- LibraryChunkings
    BodyLimit = 3
    HeaderLength = 3
    Records = {1, 4}
    Declared <- LibraryOptions
    CommandLines <- LibraryCommandLines
    MaxFrames = 3
    Ports = {"80", "443", "8080"}
    Requests <- LibraryRequests
SYMMETRY LibrarySymmetry
INVARIANTS
    LibraryTypeOK
    OneOwner
    ResultsHold
    ReferencesCounted
    SoundIdsUnique
    RunsWhatIsAttached
    ReadAsSent
    ParsedAsMeant
    OutputLegal
    ArrivesAsSent
    TargetUnderstood
CHECK_DEADLOCK FALSE
