SPECIFICATION FairSpec
CONSTANTS
  MaxActs = 2
  MaxOther = 0
  MaxLosses = 0
  MaxSpawns = 0
  Buffer = 1
  MaxNudges = 0
  Goal = FALSE
INVARIANTS QueuedBecomesTurn
CHECK_DEADLOCK FALSE
