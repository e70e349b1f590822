SPECIFICATION FairSpec
CONSTANTS
  MaxActs = 3
  MaxOther = 1
  MaxLosses = 1
  MaxSpawns = 2
  Buffer = 1
  MaxNudges = 1
  Goal = TRUE
INVARIANTS
    GateSpansTurn
    QueueNotStranded
PROPERTIES
    TurnFreesGate
    BusyEnds
CHECK_DEADLOCK FALSE
