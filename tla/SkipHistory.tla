------------------------------ MODULE SkipHistory ------------------------------
(***************************************************************************)
(* ManualScheduler with a history of the occurrences that dispatchDue has  *)
(* skipped because the job was running.                                    *)
(***************************************************************************)
EXTENDS ManualScheduler

VARIABLE skipped    \* the pairs <<jobId, epoch>> skipped so far

Skips(s) ==
  /\ DispatchDue
  /\ core.jobs[s].hasNext /\ ~core'.jobs[s].hasNext
  /\ core'.jobs[s].runningCount = core.jobs[s].runningCount

HistoryInit == Init /\ skipped = {}

HistoryNext ==
  /\ Next
  /\ skipped' = skipped \cup {<<core.jobs[s].id, core.jobs[s].nextRunUtc>> :
                                s \in {x \in Slots : Skips(x)}}

HistorySpec == HistoryInit /\ [][HistoryNext]_<<vars, skipped>>

(* test_skip_if_running_behavior expects that the occurrence a job skipped  *)
(* while it was running is not run when the completion is handled:          *)
(* "TEST_ASSERT_EQUAL(static_cast<size_t>(0), executor.queued())"           *)
(* (test_esp_scheduler.cpp:508).                                            *)
SkippedStaysSkipped ==
  [][\A s \in Slots : LET r == core.jobs[s] IN
       DispatchDue /\ core'.jobs[s].runningCount > r.runningCount
         => <<r.id, r.nextRunUtc>> \notin skipped]_<<vars, skipped>>
================================================================================
