SPECIFICATION EndSpec
CONSTANTS
  w1 = w1
  w2 = w2
  t1 = t1
  Workers = {w1, w2}
  Tasks = {t1}
  PoolQueueDepth = 1
  EventQueueDepth = 1
  CommandQueueDepth = 1
  MaxRuns = 2
INVARIANTS
  EndDrains
  PoolPostsToLiveQueue
  NoUseOfDeadExecutor
PROPERTIES
  EndReturns
CHECK_DEADLOCK FALSE
