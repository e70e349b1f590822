\* one goroutine that persists, one crash in a rewrite
SPECIFICATION Spec
CONSTANTS
  Root = root
  Subs = {}
  Threads = {turn}
  None = None
  ShardMax = 2
  MaxMessages = 2
  MaxCrashes = 1
INVARIANT NoHalfWrittenShard
CHECK_DEADLOCK FALSE
