SPECIFICATION FairSpec
CONSTANTS
  MaxActs = 2
  MaxOther = 0
  MaxLosses = 1
  MaxSpawns = 0
  Buffer = 1
  MaxNudges = 0
  Goal = FALSE
PROPERTIES ReconnectedIdles
CHECK_DEADLOCK FALSE
