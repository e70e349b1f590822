\* every one is violated: keep one at a time
CONSTANTS
    Configured = {m}
    ToolCalls = {x, y}
    MaxIds = 5
    MaxLines = 2
SPECIFICATION FairSpec
INVARIANTS
    SourceReleased
    ExitReleases
PROPERTIES
    StartReturns
    ReleaseReturns
CHECK_DEADLOCK FALSE
