--------------------------------- MODULE MCSkip ---------------------------------
(***************************************************************************)
(* One asynchronous SkipIfRunning job, two-second minutes.                 *)
(***************************************************************************)
EXTENDS SkipHistory

CONSTANTS EveryMinute, s1

MCOccurrences == [r \in {EveryMinute} |-> {2 * k : k \in 0..(MaxTime + 4)}]
MCOnceAt == [o \in {} |-> 0]

SkipOptions ==
  {[dispatch |-> "Async", overlap |-> "SkipIfRunning", executorId |-> 0,
    dedicatedTask |-> FALSE, startPaused |-> FALSE]}
================================================================================
