CONSTANTS
    r1 = r1
    r2 = r2
    k1 = k1
    k2 = k2
    Runners = {r1, r2}
    Keys <- MCKeys
    Id <- MCDistinctId
    Name <- MCSameKey
    Attached <- MCAttached
    Sessions <- MCSessions
    Owner <- MCOwner
    Suppressed = {}
    SkipIfRunning = TRUE
    MaxConcurrent = 1
    Loops = {l1, l2}
    Fires = {f1, f2}
    NoLoop = NoLoop
    NoFire = NoFire
    DeadLoop = DeadLoop
SPECIFICATION SmallSpec
INVARIANTS
    NoOverlap
    OneArmedLoop
    EnabledIsArmed
    StopQuiesces
PROPERTIES
    StopTerminates
    QueuedFireProceeds
