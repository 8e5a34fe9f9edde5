SPECIFICATION Spec
CONSTANTS
  Ids = {1, 7, 9, 15}
  SlotIndexes = {0, 1}
  FirstCapacity = 4
  MaxCapacity = 16
  Entries <- MCEntries
  FirstArrayLength = 2
  MaxLength = 6
  MinuteLen = 2
  HourMinutes = 2
  DayHours = 4
  WeekDays = 3
  MonthDays = 4
  YearMonths = 2
  SummerStart = 68
  SummerEnd = 148
  MaxBit = 6
  SunTimes <- MCSunTimes
  Circle = 8
  MaxTolerance = 2
  MaxSunOffset = 8
  MoonPaths <- MCMoonPaths
  SearchMinutes = 64
  SunSearchDays = 4
  MoonSearchMinutes = 10
  Specs <- MCSpecs
  MaxFrom = 160
  taskA = taskA
  taskB = taskB
  TaskConfigs = {taskA, taskB}
  NoConfig = NoConfig
  WorkerRegistered = TRUE
  MaxJobs = 3
  MaxFaults = 2
CHECK_DEADLOCK FALSE
INVARIANTS
  CountsExact
  ProbesStayShort
  CronRunsEveryMatch
  SunRunsEveryDay
  MoonRunsAtCrossing
  LookupNamesTheIndexed
  JobsAreAsRequested
PROPERTIES
  ImplementsIdMap
  ImplementsDueQueue
