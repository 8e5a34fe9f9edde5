SPECIFICATION CalcSpec
CONSTANTS
  MinuteLen = 2
  HourMinutes = 2
  DayHours = 4
  WeekDays = 3
  MonthDays = 4
  YearMonths = 2
  SummerStart = 68
  SummerEnd = 148
  MaxBit = 6
  SunTimes <- MCSunTimes
  Circle = 8
  MaxTolerance = 2
  MaxSunOffset = 8
  MoonPaths <- MCMoonPaths
  SearchMinutes = 64
  SunSearchDays = 4
  MoonSearchMinutes = 10
  Specs <- DailySpecs
  MaxFrom = 160
CHECK_DEADLOCK FALSE
INVARIANTS
  EvaluatedInLocalTime
