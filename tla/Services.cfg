CONSTANTS
    Notes = {a, w, x}
    AgentNotes = {a}
    Streams = {s, t}
    Buffer = 2
    RingSize = 2
    Files = {f, g}
    Workers = {a, b}
    Background = {b}
    Servers = {z}
    Lists <- Orders
    MaxActs = 5
    MaxEditActs = 3
    MaxWrites = 3
    MaxCheckpoints = 2
    Windows = {0, 5, 10}
    DefaultWindow = 10
    Sizes = {1, 3}
    KeepRecent = 2
    MaxRounds = 3
    MaxMessages = 7
    Clients = {c}
    Free = {w}
    Sessions = {s, t}
    MaxCalls = 4
    MaxCrashes = 1
    Daemons = {d, e}
    Stoppers = {k}
    Nobody = Nobody
    Turns = {t}
    Touches = {c, d}
    Names = {n}
    Processes = {p, q, r}
    NoProcess = NoProcess
    Askers = {c}
    MaxContents = 3
    MaxAsks = 4
    Keys <- TwoPlaces
    Requests <- Asked
    KeyOf <- PlaceOf
    Within <- Inside
    Setups <- BothSetups
    Callers = {"session"}
    Checkers = {c, d}
    MaxChecks = 2
    MaxToggles = 1
    MaxRestarts = 1
    Lives = 2
    Numbers = 2
    MaxPrompts = 2
    MaxTries = 1
    DedupCap = 3
    SubBuffer = 1
    MaxRecords = 4
    MaxStreams = 2
    Configured = {m}
    ToolCalls = {x, y}
    MaxIds = 5
    MaxLines = 2
SPECIFICATION ServicesSpec
INVARIANTS
    UndoRestoresStart
    TranscriptWhole
    ScheduledAsDefined
    OneSideServes
    OneOwner
    EveryProcessOwned
    ViewIsCurrent
    DecidedForCause
    ModalNotLost
    ShownOnce
    AwaitedReplyKept
PROPERTIES
    ImplementsFeed
CHECK_DEADLOCK FALSE
