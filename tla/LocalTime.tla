------------------------------- MODULE LocalTime -------------------------------
(***************************************************************************)
(* The local time of ESPDate.  Local clocks are ahead of UTC by Shift from *)
(* SummerStart until SummerEnd: the local day in which they go forward is  *)
(* shorter by Shift, the day in which they go back is longer.              *)
(***************************************************************************)
EXTENDS Integers

CONSTANTS
  DayLen,       \* seconds in a local day without a change
  Shift,        \* seconds by which local clocks are changed
  SummerStart,  \* UTC second at which they go forward,
  SummerEnd     \* and at which they go back

Offset(t)     == IF SummerStart <= t /\ t < SummerEnd THEN Shift ELSE 0
LocalClock(t) == t + Offset(t)
LocalDay(t)   == LocalClock(t) \div DayLen

(* The time at which local clocks show l: the first when they do so twice,  *)
(* by winter time when they skip l.                                         *)
TimeOfLocal(l) == IF LocalClock(l - Shift) = l THEN l - Shift ELSE l

(* Mutant: the start of the day before. *)
StartOfDayOff(t) == TimeOfLocal((LocalDay(t) - 1) * DayLen)

StartOfDayLocal(t) == TimeOfLocal(LocalDay(t) * DayLen)

(* The same number of seconds on every day, whatever local clocks do. *)
AddDays(t, n) == t + n * DayLen
================================================================================
