SPECIFICATION HistorySpec
CONSTANTS
  s1 = s1
  Slots = {s1}
  EveryMinute = EveryMinute
  Recurring = {EveryMinute}
  OneShots = {}
  DefaultSpec = EveryMinute
  Occurrences <- MCOccurrences
  OnceAt <- MCOnceAt
  MinuteLen = 2
  SearchLen = 4
  Options <- SkipOptions
  Executors = {0, 1}
  EventQueueDepth = 1
  DayLen = 100
  Shift = 0
  SummerStart = 0
  SummerEnd = 0
  MinValids = {0}
  SyncTimes = {}
  AllocFails = FALSE
  SubmitFails = FALSE
  MaxId = 1
  MaxTime = 4
  MaxOutstanding = 1
  MaxNesting = 1
PROPERTIES
  SkippedStaysSkipped
