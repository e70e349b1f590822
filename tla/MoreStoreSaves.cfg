\* two goroutines that persist, no crash, three messages over shards of two
SPECIFICATION FairSpec
CONSTANTS
  Root = root
  Subs = {}
  Threads = {turn, ui}
  None = None
  ShardMax = 2
  MaxMessages = 3
  MaxCrashes = 0
INVARIANT FrontierExact
PROPERTY SavesReturn
CHECK_DEADLOCK FALSE
