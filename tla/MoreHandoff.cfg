CONSTANTS
    Daemons = {d, e}
    Stoppers = {k}
    Nobody = Nobody
    Turns = {t, u}
SPECIFICATION HandoffSpec
INVARIANTS
    HandoffTypeOK
    OneSideServes
PROPERTIES
    HandoffEnds
CHECK_DEADLOCK FALSE
