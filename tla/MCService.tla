-------------------------------- MODULE MCService --------------------------------
(***************************************************************************)
(* A small instance of ServiceLoop: a minute of two seconds, a day of two  *)
(* minutes, one job that occurs every minute and one that occurs once.     *)
(***************************************************************************)
EXTENDS ServiceLoop

CONSTANTS EveryMinute, Once, s1

MCOccurrences == [r \in {EveryMinute} |-> {2 * k : k \in 0..(MaxTime + 4)}]
MCOnceAt == <<>>

Option(dispatch, overlap) ==
  [dispatch |-> dispatch, overlap |-> overlap, executorId |-> 0,
   dedicatedTask |-> FALSE, startPaused |-> FALSE]

MCOptions == {Option("Async", "QueueOne"), Option("Inline", "SkipIfRunning")}
================================================================================
