SPECIFICATION Spec
CONSTANTS
  s1 = s1
  s2 = s2
  Slots = {s1, s2}
  EveryMinute = EveryMinute
  Once = Once
  Recurring = {EveryMinute}
  OneShots = {Once}
  DefaultSpec = EveryMinute
  Occurrences <- MCOccurrences
  OnceAt <- MCOnceAt
  MinuteLen = 2
  SearchLen = 4
  Options <- InlineOptions
  Executors = {0, 1}
  EventQueueDepth = 1
  DayLen = 2
  Shift = 1
  SummerStart = 1
  SummerEnd = 2
  MinValids = {1}
  SyncTimes = {}
  AllocFails = TRUE
  SubmitFails = FALSE
  MaxId = 2
  MaxTime = 2
  MaxOutstanding = 2
  MaxNesting = 2
SYMMETRY Symmetry
INVARIANTS
  PrimedIsDispatchable
  TableConsistent
PROPERTIES
  DeadStaysDead
