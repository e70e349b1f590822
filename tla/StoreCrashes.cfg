\* a sub-agent, two goroutines that persist, one crash, shards of one record
SPECIFICATION Spec
CONSTANTS
  Root = root
  Subs = {sub}
  Threads = {turn, ui}
  None = None
  ShardMax = 1
  MaxMessages = 2
  MaxCrashes = 1
INVARIANTS
    FrontierExact
    SavedSurvives
    ListedInOrder
    ClosedStaysClosed
CHECK_DEADLOCK FALSE
