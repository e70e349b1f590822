SPECIFICATION FairSpec
CONSTANTS
    AgentKinds <- BothKinds
    Responses <- EveryReply
    MaxSteps = 3
    MaxNudges = 1
    MaxRetries = 1
    MaxRaises = 1
    Notes = {n1}
    Results = {b1, b2}
    NoNote = NoNote
    RateLimited = TRUE
    InjectNotes = TRUE
    MaxTurns = 2
INVARIANTS
    TruncatedNeverFinal
    TypeOK
    AnswerSurfaced
    SplicedOnce
CHECK_DEADLOCK FALSE
