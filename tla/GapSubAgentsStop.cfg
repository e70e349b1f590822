\* one interactive worker
SPECIFICATION FairSpec
CONSTANTS
  Root = root
  OneShot = {o1}
  Interactive = {i1}
  Background = {}
  None = None
  MaxConcurrent = 2
  MaxSubAgents = 2
  MaxDepth = 2
  EventCap = 1
  InboxCap = 1
  BatchMax = 2
  MaxWorkers = 1
  MaxAsks = 1
PROPERTIES StopEndsAll
CHECK_DEADLOCK FALSE
