\* three workers in all, of an interactive, a background and three one-shot ones; two places
SPECIFICATION FairSpec
CONSTANTS
  Root = root
  OneShot = {o1, o2, o3}
  Interactive = {i1}
  Background = {b1}
  None = None
  MaxConcurrent = 2
  MaxSubAgents = 2
  MaxDepth = 2
  EventCap = 1
  InboxCap = 1
  BatchMax = 2
  MaxWorkers = 3
  MaxAsks = 1
INVARIANTS SlotsExact EndReportedOnce
PROPERTIES EndIsHeard DoomedEnds BatchesEnd
CHECK_DEADLOCK FALSE
