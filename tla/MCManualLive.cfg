SPECIFICATION LiveSpec
CONSTANTS
  s1 = s1
  s2 = s2
  Slots = {s1}
  EveryMinute = EveryMinute
  Once = Once
  Recurring = {EveryMinute}
  OneShots = {Once}
  DefaultSpec = EveryMinute
  Occurrences <- MCOccurrences
  OnceAt <- MCOnceAt
  MinuteLen = 2
  SearchLen = 4
  Options <- SerialOptions
  Executors = {0, 1}
  EventQueueDepth = 2
  DayLen = 2
  Shift = 1
  SummerStart = 1
  SummerEnd = 2
  MinValids = {0, 2}
  SyncTimes = {}
  AllocFails = FALSE
  SubmitFails = FALSE
  MaxId = 1
  MaxTime = 3
  MaxOutstanding = 2
  MaxNesting = 1
PROPERTIES
  TickReturns
  JobGetsPrimed
  RunsComplete
  DueIsServed
