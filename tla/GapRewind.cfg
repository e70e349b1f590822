\* both are violated: keep one at a time, or run with -continue
CONSTANTS
    Notes = {a, w}
    AgentNotes = {a}
    Streams = {s}
    Buffer = 1
    RingSize = 1
    Files = {f, g}
    Workers = {a}
    Background = {}
    Servers = {y, z}
    Lists <- Orders
    MaxActs = 8
    MaxEditActs = 4
    MaxWrites = 3
    MaxCheckpoints = 2
    Windows = {0, 10}
    DefaultWindow = 10
    Sizes = {1, 3}
    KeepRecent = 2
    MaxRounds = 1
    MaxMessages = 4
    Clients = {c}
    Free = {w}
    Sessions = {s}
    MaxCalls = 0
    MaxCrashes = 0
    Daemons = {d}
    Stoppers = {k}
    Nobody = Nobody
    Turns = {t}
    Touches = {c}
    Names = {n}
    Processes = {p}
    NoProcess = NoProcess
    Askers = {c}
    MaxContents = 2
    MaxAsks = 1
    Keys <- TwoPlaces
    Requests <- Asked
    KeyOf <- PlaceOf
    Within <- Inside
    Setups <- BothSetups
    Callers = {"session"}
    Checkers = {c}
    MaxChecks = 1
    MaxToggles = 0
    MaxRestarts = 0
    Lives = 1
    Numbers = 1
    MaxPrompts = 1
    MaxTries = 1
    DedupCap = 3
    SubBuffer = 1
    MaxRecords = 2
    MaxStreams = 1
    Configured = {m}
    ToolCalls = {x}
    MaxIds = 2
    MaxLines = 0
SPECIFICATION ServicesSpec
INVARIANTS
    RewindReachesStart
    RollbackIsWhole
CHECK_DEADLOCK FALSE
