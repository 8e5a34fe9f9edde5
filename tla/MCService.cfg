SPECIFICATION ServiceSpec
CONSTANTS
  s1 = s1
  Slots = {s1}
  EveryMinute = EveryMinute
  Once = Once
  Recurring = {EveryMinute}
  OneShots = {}
  DefaultSpec = EveryMinute
  Occurrences <- MCOccurrences
  OnceAt <- MCOnceAt
  MinuteLen = 2
  SearchLen = 4
  Options <- MCOptions
  Executors = {0, 1}
  EventQueueDepth = 1
  DayLen = 4
  Shift = 2
  SummerStart = 5
  SummerEnd = 8
  MinValids = {1}
  SyncTimes = {2, 5, 6}
  AllocFails = FALSE
  SubmitFails = FALSE
  MaxId = 1
  MaxTime = 4
  MaxOutstanding = 1
  MaxNesting = 1
  CommandQueueDepth = 1
  TickWrap = 4
  MaxCalls = 2
INVARIANTS
  SleepsOnlyWhenDrained
  RefreshIsNotSleptThrough
  NeverOversleeps
PROPERTIES
  DueIsServedInBackground
CHECK_DEADLOCK FALSE
