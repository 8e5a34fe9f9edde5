SPECIFICATION Spec
CONSTANTS
  s1 = s1
  s2 = s2
  Slots = {s1}
  EveryMinute = EveryMinute
  Once = Once
  Recurring = {EveryMinute}
  OneShots = {Once}
  DefaultSpec = EveryMinute
  Occurrences <- MCOccurrences
  OnceAt <- MCOnceAt
  MinuteLen = 2
  SearchLen = 4
  Options <- InlineOptions
  Executors = {0, 1}
  EventQueueDepth = 1
  DayLen = 4
  Shift = 0
  SummerStart = 0
  SummerEnd = 0
  MinValids = {3}
  SyncTimes = {}
  AllocFails = FALSE
  SubmitFails = FALSE
  MaxId = 1
  MaxTime = 4
  MaxOutstanding = 2
  MaxNesting = 1
PROPERTIES
  NoCatchUpRun
