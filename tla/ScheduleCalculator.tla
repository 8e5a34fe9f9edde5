-------------------------- MODULE ScheduleCalculator --------------------------
(***************************************************************************)
(* ScheduleCalculator and ScheduleField: what computeNext finds for a      *)
(* ScheduleSpec, and the chain of runs SchedulerCore makes of it, in which *)
(* every search starts a minute after the occurrence before.               *)
(*                                                                         *)
(* The calendar, the sun and the moon are ESPDate's.  Here a minute, an    *)
(* hour, a day, a week, a month and a year are as short as the constants   *)
(* make them, local time is ahead of UTC by an hour while daylight saving  *)
(* lasts, and angles are whole parts of a Circle.                          *)
(***************************************************************************)
EXTENDS Integers, Sequences, FiniteSetsExt

CONSTANTS
  MinuteLen,    \* seconds in a minute
  HourMinutes, DayHours, WeekDays, MonthDays, YearMonths,
  SummerStart,  \* UTC second at which local clocks go forward by an hour,
  SummerEnd,    \* and at which they go back
  MaxBit,       \* highest bit of a field's mask, 63 in the code
  SunTimes,     \* seconds after local midnight of the sunrises (or sunsets), by
                \* day in turn; -1 on a day without one
  Circle,       \* parts of a full turn, 360 in the code
  MaxTolerance, \* kMaxMoonPhaseTolerance
  MaxSunOffset, \* kMaxSunOffsetMinutes
  MoonPaths,    \* what date.moonPhase reports, by minute in turn; -1 when it fails
  SearchMinutes, SunSearchDays, MoonSearchMinutes,  \* kMaxSearchMinutes, ...
  Specs,        \* the ScheduleSpecs given to addJob
  MaxFrom       \* bound: the time up to which searches start

HourLen == MinuteLen * HourMinutes
DayLen  == HourLen * DayHours

ASSUME CalendarAssumption ==
  /\ {MinuteLen, HourMinutes, DayHours, WeekDays, MonthDays, YearMonths} \subseteq Nat \ {0}
  /\ {MaxBit, MaxSunOffset, MaxTolerance, MaxFrom} \subseteq Nat
  /\ {SearchMinutes, SunSearchDays, MoonSearchMinutes} \subseteq Nat
  /\ {SummerStart, SummerEnd} \subseteq Nat
  /\ SummerStart % MinuteLen = 0 /\ SummerEnd % MinuteLen = 0
  /\ SunTimes \in Seq((-1)..(DayLen - 1)) /\ SunTimes # <<>>
  /\ Circle \in Nat \ {0}
  /\ \A path \in MoonPaths : path \in Seq((-1)..(Circle - 1)) /\ path # <<>>

VARIABLES
  moon,   \* one of MoonPaths
  spec,   \* the ScheduleSpec of the job, NoSpec before it is added
  from,   \* the time computeNext is called with
  next    \* what it finds: a set of at most one time

calcVars == <<moon, spec, from, next>>

NoSpec == [kind |-> "None"]

(* i-th of a sequence that starts again at its end. *)
InTurn(seq, i) == seq[(i % Len(seq)) + 1]

--------------------------------------------------------------------------------
(* ESPDate *)

INSTANCE LocalTime WITH Shift <- HourLen

MonthLocal(t)   == ((LocalDay(t) \div MonthDays) % YearMonths) + 1
DayLocal(t)     == (LocalDay(t) % MonthDays) + 1
WeekdayLocal(t) == LocalDay(t) % WeekDays

SetTimeOfDayLocal(t, hour, minute) ==
  TimeOfLocal(LocalDay(t) * DayLen + hour * HourLen + minute * MinuteLen)

(* The sunrise or sunset of the local day of t. *)
SunOf(t) ==
  LET second == InTurn(SunTimes, LocalDay(t)) IN
  IF second = -1 THEN {} ELSE {TimeOfLocal(LocalDay(t) * DayLen + second)}

MoonAt(t) == InTurn(moon, t \div MinuteLen)

--------------------------------------------------------------------------------
(* ScheduleField: isAny_ and mask_ *)

Bits == 0..MaxBit

AnyField == [any |-> TRUE, mask |-> {}]
Masked(values) == [any |-> FALSE, mask |-> values]

(* Arguments out of range make an empty field, which validate rejects. *)
Only(v)  == Masked({v} \cap Bits)
Every(step) == Masked(IF step <= 0 THEN {} ELSE {v \in Bits : v % step = 0})
RangeEvery(a, b, step) ==
  Masked(IF step <= 0 \/ a < 0 \/ b > MaxBit THEN {} ELSE {v \in a..b : (v - a) % step = 0})
ListOf(values) == Masked(IF values \subseteq Bits THEN values ELSE {})

Matches(field, v) == field.any \/ v \in field.mask

FieldWithinRange(field, min, max) == field.any \/ field.mask \cap (min..max) # {}

Cron(minute, hour, dom, month, dow) ==
  [kind |-> "Cron", minute |-> minute, hour |-> hour, dayOfMonth |-> dom,
   month |-> month, dayOfWeek |-> dow]
OnceUtc(t) == [kind |-> "OneShotUtc", onceAtUtc |-> t]
Sun(offset) == [kind |-> "Sun", offset |-> offset]
MoonPhase(angle, tolerance) == [kind |-> "MoonPhase", center |-> angle, tolerance |-> tolerance]
MoonIllumination(target, tolerance) ==
  [kind |-> "MoonIllumination", center |-> target, tolerance |-> tolerance]

Validate(s) ==
  CASE s.kind = "OneShotUtc" -> TRUE
    [] s.kind = "Cron" ->
         /\ FieldWithinRange(s.minute, 0, HourMinutes - 1)
         /\ FieldWithinRange(s.hour, 0, DayHours - 1)
         /\ FieldWithinRange(s.dayOfMonth, 1, MonthDays)
         /\ FieldWithinRange(s.month, 1, YearMonths)
         /\ FieldWithinRange(s.dayOfWeek, 0, WeekDays - 1)
    [] s.kind = "Sun" -> s.offset \in (-MaxSunOffset)..MaxSunOffset
    [] s.kind = "MoonPhase" -> s.center \in 0..(Circle - 1) /\ s.tolerance \in 0..MaxTolerance
    [] s.kind = "MoonIllumination" -> s.center \in 0..100 /\ s.tolerance \in 1..50

--------------------------------------------------------------------------------
(* The searches *)

RoundToNextMinute(t) == ((t + MinuteLen - 1) \div MinuteLen) * MinuteLen

MinutesIntoDay(t) == (t - StartOfDayLocal(t)) \div MinuteLen

(* Mutant: both day fields have to match. *)
DayMatchesBoth(s, t) ==
  Matches(s.dayOfMonth, DayLocal(t)) /\ Matches(s.dayOfWeek, WeekdayLocal(t))

DayMatches(s, t) ==
  LET domOk == Matches(s.dayOfMonth, DayLocal(t))
      dowOk == Matches(s.dayOfWeek, WeekdayLocal(t))
  IN CASE s.dayOfMonth.any /\ s.dayOfWeek.any -> TRUE
       [] s.dayOfMonth.any /\ ~s.dayOfWeek.any -> dowOk
       [] ~s.dayOfMonth.any /\ s.dayOfWeek.any -> domOk
       [] OTHER -> domOk \/ dowOk

(* The test of one minute: hour and minute are counted from local midnight. *)
CronMatches(s, t) ==
  /\ MinutesIntoDay(t) >= 0
  /\ Matches(s.month, MonthLocal(t)) /\ DayMatches(s, t)
  /\ Matches(s.hour, MinutesIntoDay(t) \div HourMinutes)
  /\ Matches(s.minute, MinutesIntoDay(t) % HourMinutes)

NextCron(s, f) ==
  LET cursor(k) == RoundToNextMinute(f) + k * MinuteLen
      hits == {k \in 0..(SearchMinutes - 1) : CronMatches(s, cursor(k))}
      at(t) == SetTimeOfDayLocal(t, MinutesIntoDay(t) \div HourMinutes,
                                    MinutesIntoDay(t) % HourMinutes)
  IN IF hits = {} THEN {} ELSE {at(cursor(Min(hits)))}

(* Mutant: the search starts with the day after. *)
NextSunTomorrow(s, f) ==
  LET rounded == RoundToNextMinute(f)
      candidates(d) == {t + s.offset * MinuteLen : t \in SunOf(StartOfDayLocal(rounded) + d * DayLen)}
      days == {d \in 1..(SunSearchDays - 1) : \E t \in candidates(d) : t >= rounded}
  IN IF days = {} THEN {} ELSE candidates(Min(days))

NextSun(s, f) ==
  LET rounded == RoundToNextMinute(f)
      candidates(d) == {t + s.offset * MinuteLen : t \in SunOf(StartOfDayLocal(rounded) + d * DayLen)}
      days == {d \in 0..(SunSearchDays - 1) : \E t \in candidates(d) : t >= rounded}
  IN IF days = {} THEN {} ELSE candidates(Min(days))

(* Mutant: the jump over the end of the circle is taken for a long way back. *)
UnwrapNot(previous, current) == previous + (current - (previous % Circle))

(* The angle that continues previous, which goes on counting past a turn. *)
UnwrapAngle(previous, current) ==
  LET delta == current - (previous % Circle) IN
  previous + (IF 2 * delta > Circle THEN delta - Circle
              ELSE IF 2 * delta < -Circle THEN delta + Circle ELSE delta)

WithinPeriodicWindow(value, s) ==
  LET wrapped == (IF value > s.center THEN value - s.center ELSE s.center - value) % Circle IN
  Min({wrapped, Circle - wrapped}) <= s.tolerance

SegmentIntersectsRange(a, b, min, max) == Max({a, b}) >= min /\ Min({a, b}) <= max

SegmentIntersectsPeriodicWindow(a, b, s) ==
  LET firstPeriod == (Min({a, b}) - (s.center + s.tolerance)) \div Circle - 1
      lastPeriod  == -((s.center - s.tolerance - Max({a, b})) \div Circle) + 1
  IN \E p \in firstPeriod..lastPeriod :
       SegmentIntersectsRange(a, b, s.center - s.tolerance + p * Circle,
                                    s.center + s.tolerance + p * Circle)

(* Whether the moon comes into the window from value a to value b. *)
Crosses(s, a, b) ==
  IF s.kind = "MoonPhase"
  THEN ~WithinPeriodicWindow(a, s) /\ SegmentIntersectsPeriodicWindow(a, b, s)
  ELSE ~(a \in (s.center - s.tolerance)..(s.center + s.tolerance)) /\
       SegmentIntersectsRange(a, b, s.center - s.tolerance, s.center + s.tolerance)

(* Both moon searches: reading[k] is the value of minute k - 1 after the    *)
(* rounded time, counted on from the one before.                            *)
NextMoon(s, f) ==
  LET minute(k) == RoundToNextMinute(f) + (k - 1) * MinuteLen
      follow(a, b) == IF s.kind = "MoonPhase" THEN UnwrapAngle(a, b) ELSE b
      reading[k \in 0..MoonSearchMinutes] ==
        IF k = 0 THEN MoonAt(minute(0)) ELSE follow(reading[k - 1], MoonAt(minute(k)))
      hits == {k \in 1..MoonSearchMinutes : Crosses(s, reading[k - 1], reading[k])}
      fails == {k \in 0..MoonSearchMinutes : MoonAt(minute(k)) = -1}
  IN IF hits = {} \/ (\E k \in fails : k <= Min(hits)) THEN {} ELSE {minute(Min(hits))}

Compute(s, f) ==
  CASE s.kind = "OneShotUtc" -> {s.onceAtUtc}
    [] s.kind = "Cron" -> NextCron(s, f)
    [] s.kind = "Sun" -> NextSun(s, f)
    [] OTHER -> NextMoon(s, f)

--------------------------------------------------------------------------------
(* A job: it is added at some time, and rescheduled whenever it is run *)

CalcInit == moon \in MoonPaths /\ spec = NoSpec /\ from = 0 /\ next = {}

AddToCalendar ==
  /\ spec = NoSpec
  /\ \E s \in Specs, f \in 0..MaxFrom :
       Validate(s) /\ spec' = s /\ from' = f /\ next' = Compute(s, f)
  /\ UNCHANGED moon

(* dispatchOne: the next run is searched from a minute after this one; a    *)
(* one-shot is not searched again.                                          *)
RunAndReschedule ==
  /\ spec # NoSpec /\ spec.kind # "OneShotUtc"
  /\ \E t \in next : /\ t <= MaxFrom
                     /\ from' = t + MinuteLen
                     /\ next' = Compute(spec, t + MinuteLen)
  /\ UNCHANGED <<moon, spec>>

CalcNext == AddToCalendar \/ RunAndReschedule

CalcSpec == CalcInit /\ [][CalcNext]_calcVars

--------------------------------------------------------------------------------
(* Properties *)

(* The searched minutes from a to b. *)
MinutesOf(a, b) == {t \in RoundToNextMinute(a)..b : t % MinuteLen = 0}

(* What a cron spec says of the time t, as read off the local calendar and  *)
(* the local clock; a day matches if either restricted day field does.      *)
ClockMatches(s, t) ==
  LET restricted == {d \in {"dom", "dow"} :
                       ~(IF d = "dom" THEN s.dayOfMonth ELSE s.dayOfWeek).any}
      ok(d) == IF d = "dom" THEN DayLocal(t) \in s.dayOfMonth.mask
                            ELSE WeekdayLocal(t) \in s.dayOfWeek.mask
  IN /\ restricted = {} \/ \E d \in restricted : ok(d)
     /\ Matches(s.month, MonthLocal(t))
     /\ Matches(s.hour, (LocalClock(t) % DayLen) \div HourLen)
     /\ Matches(s.minute, (LocalClock(t) % HourLen) \div MinuteLen)

(* The first time from f on at which a cron spec is due by the local clock. *)
FirstByClock(s, f) ==
  LET due == {t \in MinutesOf(f, RoundToNextMinute(f) + (SearchMinutes - 1) * MinuteLen) :
                ClockMatches(s, t)}
  IN IF due = {} THEN {} ELSE {Min(due)}

(* Neither the day of f nor that of t nor one between has a clock change. *)
NoChange(f, t) ==
  \A d \in Min({LocalDay(f), LocalDay(t)})..Max({LocalDay(f), LocalDay(t)}) :
    \A c \in {SummerStart, SummerEnd} : LocalDay(c) # d /\ LocalDay(c - 1) # d

(* While the local clock is not changed, a cron job is run at every minute  *)
(* its fields select and at no other: from one run to the next none is      *)
(* left out and none comes twice.                                           *)
CronRunsEveryMatch ==
  spec.kind = "Cron" =>
    LET due == FirstByClock(spec, from) IN
    (\A t \in due \cup next : NoChange(from, t)) => next = due

(* A sun job is run at the offset to every sunrise (or sunset) there is: no *)
(* day is left out, days without one are passed over.  Only where a         *)
(* positive offset carries the run past midnight is this not so.            *)
SunRunsEveryDay ==
  spec.kind = "Sun" =>
    LET days == LocalDay(from - DayLen)..(LocalDay(from) + SunSearchDays - 2)
        runs == {t + spec.offset * MinuteLen : t \in UNION {SunOf(TimeOfLocal(d * DayLen)) : d \in days}}
        due  == {t \in runs : t >= RoundToNextMinute(from)}
        sameDay == \A i \in DOMAIN SunTimes : SunTimes[i] + spec.offset * MinuteLen < DayLen
    IN sameDay /\ due # {} => next = {Min(due)}

(* A point of the circle is in the window. *)
InWindow(s, v) ==
  IF s.kind = "MoonPhase"
  THEN \E d \in (-s.tolerance)..s.tolerance : (v + d) % Circle = s.center
  ELSE \E d \in (-s.tolerance)..s.tolerance : v + d = s.center

(* The values the moon passes from one reading to the next: the short way   *)
(* round for an angle, and not over the end of the circle if both ways are  *)
(* as long.                                                                 *)
Passed(s, a, b) ==
  LET turns == IF s.kind = "MoonPhase" THEN {-Circle, 0, Circle} ELSE {0}
      way(n) == Max({b + n - a, a - b - n})
      short == {n \in turns : \A m \in turns : way(n) <= way(m)}
      near == b + (IF 0 \in short THEN 0 ELSE CHOOSE n \in short : TRUE)
  IN Min({a, near})..Max({a, near})

(* A moon job is run in the first minute in which the moon comes into the   *)
(* window, also over the end of the circle and also when it passes the      *)
(* window between two readings; inside the window it waits for the moon to  *)
(* leave it.                                                                *)
MoonRunsAtCrossing ==
  spec.kind \in {"MoonPhase", "MoonIllumination"} =>
    LET start == RoundToNextMinute(from)
        searched == MinutesOf(start, start + (MoonSearchMinutes - 1) * MinuteLen)
        enters(t) == LET a == MoonAt(t - MinuteLen) IN
                     ~InWindow(spec, a) /\ \E v \in Passed(spec, a, MoonAt(t)) : InWindow(spec, v)
        first == {t \in searched : enters(t) /\ \A u \in searched : enters(u) => t <= u}
        known == \A t \in first : \A u \in MinutesOf(start - MinuteLen, t) : MoonAt(u) # -1
    IN known => next = first

--------------------------------------------------------------------------------
(* Documented behaviour *)

(* "Recurring schedules are evaluated in local time." (README.md:195): a    *)
(* search finds the first time from then on at which the local clock shows  *)
(* what the fields say.                                                     *)
EvaluatedInLocalTime ==
  spec.kind = "Cron" /\ next # {} => next = FirstByClock(spec, from)
================================================================================
