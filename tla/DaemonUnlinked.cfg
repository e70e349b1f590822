CONSTANTS
    Daemons = {d, e}
    Stoppers = {k}
    Nobody = Nobody
SPECIFICATION Spec
INVARIANTS
    NeverUnlinked
CHECK_DEADLOCK FALSE
