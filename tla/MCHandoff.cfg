SPECIFICATION LiveSpec
CONSTANTS
  c1 = c1
  c2 = c2
  Commands = {c1, c2}
  Wake = Wake
  CommandQueueDepth = 2
INVARIANTS
  TypeOK
  NoUseAfterFree
  OneOwnerFrees
  AnswerIsTrue
  LeaksOnlyOnTimeout
PROPERTIES
  CallsReturn
  AcceptedIsExecuted
  AbandonedIsFreed
CHECK_DEADLOCK FALSE
