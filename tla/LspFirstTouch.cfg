CONSTANTS
    Callers = {c, d}
    MaxContents = 1
    MaxCalls = 2
SPECIFICATION Spec
INVARIANT RequestFindsDocument
CHECK_DEADLOCK FALSE
