------------------------------- MODULE MCCalendar -------------------------------
(***************************************************************************)
(* A year of eight days for ScheduleCalculator: a minute of two seconds,   *)
(* an hour of two minutes, a day of four hours, a week of three days and   *)
(* two months of four days.  Clocks go forward in the second hour of the   *)
(* fifth day and back five days later.                                     *)
(***************************************************************************)
EXTENDS ScheduleCalculator

(* A sunrise in the second hour, one in the first, and a day without one. *)
MCSunTimes == <<5, 3, -1>>

(* A waxing and a waning moon, and one that is read too seldom, with a      *)
(* reading that fails.                                                      *)
MCMoonPaths == {<<0, 1, 2, 4, 5, 7>>, <<7, 6, 4, 2, 1, 0>>, <<0, 3, 6, 1, 4, -1, 7, 2>>}

(* Every kind of schedule; some have a field without a legal value. *)
MCSpecs ==
  {Cron(minute, hour, dom, month, dow) :
     minute \in {AnyField, Only(1)},
     hour \in {AnyField, Only(2), RangeEvery(1, 3, 2), Every(0)},
     dom \in {AnyField, Only(4), Only(6)},
     month \in {AnyField, Only(2)},
     dow \in {AnyField, ListOf({0, 2})}}
  \cup {Sun(offset) : offset \in {-8, -3, 0, 2, 9}}
  \cup {MoonPhase(angle, tolerance) : angle \in {0, 1, 5}, tolerance \in {0, 1}}
  \cup {MoonIllumination(target, tolerance) : target \in {0, 3}, tolerance \in {0, 1, 2}}
  \cup {OnceUtc(3)}

(* Every day at the start of the last hour, which no clock change touches. *)
DailySpecs == {Cron(Only(0), Only(3), AnyField, AnyField, AnyField)}
================================================================================
