CONSTANTS
    Notes = {a, w, x}
    AgentNotes = {a}
    Streams = {s, t}
    Buffer = 2
    RingSize = 2
    Files = {f, g}
    Workers = {a, b}
    Background = {b}
    Servers = {z}
    Lists <- Orders
    MaxActs = 5
    MaxEditActs = 3
    MaxWrites = 3
    MaxCheckpoints = 2
    Windows = {0, 5, 10}
    DefaultWindow = 10
    Sizes = {1, 3}
    KeepRecent = 2
    MaxRounds = 3
    MaxMessages = 7
    Clients = {c}
    Free = {w}
    Sessions = {s, t}
    MaxCalls = 4
    MaxCrashes = 1
    Daemons = {d, e}
    Stoppers = {k}
    Nobody = Nobody
    Turns = {t}
    Touches = {c, d}
    Names = {n}
    Processes = {p, q, r}
    NoProcess = NoProcess
    Askers = {c}
    MaxContents = 3
    MaxAsks = 4
    Keys <- TwoPlaces
    Requests <- Asked
    KeyOf <- PlaceOf
    Within <- Inside
    Setups <- BothSetups
    Callers = {"session"}
    Checkers = {c, d}
    MaxChecks = 3
    MaxToggles = 1
    MaxRestarts = 1
    Lives = 2
    Numbers = 2
    MaxPrompts = 2
    MaxTries = 2
    DedupCap = 3
    SubBuffer = 1
    MaxRecords = 5
    MaxStreams = 3
    Configured = {m, o}
    ToolCalls = {x, y}
    MaxIds = 4
    MaxLines = 0
SPECIFICATION ServicesSpec
INVARIANTS
    ServicesTypeOK
    FramesInOrder
    NoneOutlives
PROPERTIES
    PresentedOnce
CHECK_DEADLOCK FALSE
