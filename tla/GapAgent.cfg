\* with -continue, both are violated
SPECIFICATION FairSpec
CONSTANTS
    AgentKinds <- RootOnly
    Responses <- CutOrPlain
    MaxSteps = 0
    MaxNudges = 1
    MaxRetries = 1
    MaxRaises = 1
    Notes = {n1}
    Results = {}
    NoNote = NoNote
    RateLimited = FALSE
    InjectNotes = TRUE
    MaxTurns = 1
INVARIANTS
    IdleNoteDrained
PROPERTIES
    TruncatingModelStops
CHECK_DEADLOCK FALSE
