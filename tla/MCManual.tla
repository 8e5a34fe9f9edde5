-------------------------------- MODULE MCManual --------------------------------
(***************************************************************************)
(* Small instances of ManualScheduler for TLC.  A minute has two seconds,  *)
(* so that a call, a completion or a retry can fall on a full minute or    *)
(* between two.  EveryMinute occurs on each of them up to past MaxTime, so *)
(* that within the bounds there always is a next occurrence.               *)
(***************************************************************************)
EXTENDS ManualScheduler

CONSTANTS EveryMinute, Once, s1, s2

MCOccurrences == [r \in {EveryMinute} |-> {2 * k : k \in 0..(MaxTime + 4)}]
MCOnceAt == [o \in {Once} |-> 1]

Symmetry == Permutations({s1, s2})

Option(dispatch, overlap) ==
  [dispatch |-> dispatch, overlap |-> overlap, executorId |-> 0,
   dedicatedTask |-> FALSE, startPaused |-> FALSE]

(* One of each way an overlap is resolved, asynchronous and inline. *)
MixedOptions ==
  {Option("Async", "SkipIfRunning"), Option("Async", "QueueOne"),
   Option("Async", "AllowParallel"), Option("Inline", "QueueOne")}

(* Without AllowParallel. *)
SerialOptions == {o \in MixedOptions : o.overlap # "AllowParallel"}

InlineOptions == {Option("Inline", "QueueOne")}

PausedOptions == {[o EXCEPT !.startPaused = TRUE] : o \in InlineOptions}
================================================================================
