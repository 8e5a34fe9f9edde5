-------------------------------- MODULE V1Compat --------------------------------
(***************************************************************************)
(* ESPSchedulerV1Compat (v1_compat.cpp): the old API, with its index-based *)
(* getJobInfo, on top of a background scheduler.  The wrapper keeps the    *)
(* list of the ids it handed out and learns which jobs are gone by asking  *)
(* for each; jobs end, and calls time out or find the queue full, while it *)
(* asks.  One application task uses the wrapper.                           *)
(***************************************************************************)
EXTENDS Integers, Sequences, FiniteSets

CONSTANTS
  TaskConfigs,      \* the SchedulerTaskConfigs the application passes
  NoConfig,         \* nullptr
  WorkerRegistered, \* an ESPWorker was given and its executor registered
  MaxJobs,          \* bound: jobs added
  MaxFaults         \* bound: calls that fail with Timeout or QueueFull

ASSUME CompatAssumption ==
  /\ NoConfig \notin TaskConfigs /\ WorkerRegistered \in BOOLEAN
  /\ MaxJobs \in Nat /\ MaxFaults \in Nat

VARIABLES
  up,       \* scheduler_.running()
  jobs,     \* the scheduler's jobs: id |-> what addJob stored
  nextId,
  late,     \* commands whose callers timed out, still in the command queue
  faults,
  tracked,  \* trackedJobIds_
  scratch,  \* dedicatedTaskScratch_
  scan,     \* where pruneTrackedJobs or getJobInfo(index) is
  known     \* history: ids the application was given and no failed call dropped

compatVars == <<up, jobs, nextId, late, faults, tracked, scratch, scan, known>>

NoScan  == [at |-> "None", todo |-> <<>>, active |-> <<>>, index |-> 0, current |-> 0,
            before |-> {}, found |-> 0]
Cleanup == -1  \* a prune that no lookup follows

CompatInit ==
  /\ up = TRUE
  /\ jobs = <<>> /\ nextId = 1 /\ late = <<>> /\ faults = 0
  /\ tracked = <<>> /\ scratch = NoConfig /\ scan = NoScan
  /\ known = {}

--------------------------------------------------------------------------------
(* The scheduler behind the wrapper *)

(* What a command makes of the jobs.  Pausing and resuming is no concern of *)
(* the wrapper's.                                                           *)
JobsAfter(command) ==
  CASE command.op = "Add" -> [id \in DOMAIN jobs \cup {nextId} |->
                                IF id = nextId THEN command.job ELSE jobs[id]]
    [] command.op = "Cancel" -> [id \in DOMAIN jobs \ {command.id} |-> jobs[id]]
    [] command.op = "PauseOrResume" -> jobs
    [] command.op = "CancelAll" -> <<>>

Executed(command) ==
  /\ jobs' = JobsAfter(command)
  /\ nextId' = IF command.op = "Add" THEN nextId + 1 ELSE nextId

(* The command queue is first in, first out. *)
Answered(command) ==
  /\ up /\ late = <<>>
  /\ Executed(command)
  /\ UNCHANGED <<late, faults>>

(* QueueFull: the command is not sent.  Timeout: it is executed later. *)
Failed(command) ==
  /\ up /\ faults < MaxFaults
  /\ faults' = faults + 1
  /\ late' \in {late, Append(late, command)}
  /\ UNCHANGED <<jobs, nextId>>

(* Mutant: the command keeps the pointer to the wrapper's options. *)
ExecuteLateSharesOptions ==
  /\ late # <<>>
  /\ LET c == Head(late) IN
       Executed(IF c.op = "Add" /\ c.job.dedicatedTask # NoConfig
                THEN [c EXCEPT !.job.dedicatedTask = scratch] ELSE c)
  /\ late' = Tail(late)
  /\ UNCHANGED <<up, faults, tracked, scratch, scan, known>>

(* The service gets round to a command whose caller has given up; an Add    *)
(* has its own copy of the task options (dedicatedTaskCopy).                *)
ExecuteLate ==
  /\ late # <<>>
  /\ Executed(Head(late))
  /\ late' = Tail(late)
  /\ UNCHANGED <<up, faults, tracked, scratch, scan, known>>

(* A one-shot completes. *)
JobEnds ==
  /\ \E id \in DOMAIN jobs : jobs' = [i \in DOMAIN jobs \ {id} |-> jobs[i]]
  /\ UNCHANGED <<up, nextId, late, faults, tracked, scratch, scan, known>>

--------------------------------------------------------------------------------
(* The wrapper's calls *)

Requests == {<<"Inline", NoConfig>>} \cup {<<"WorkerTask", cfg>> : cfg \in TaskConfigs \cup {NoConfig}}

(* A task configuration wins over the ESPWorker, that over the pool. *)
JobOptionsForMode(mode, cfg) ==
  [dispatch |-> IF mode = "Inline" THEN "Inline" ELSE "Async",
   executorId |-> CASE mode = "WorkerTask" /\ cfg # NoConfig -> 1
                    [] mode = "WorkerTask" /\ cfg = NoConfig /\ WorkerRegistered -> 2
                    [] OTHER -> 0,
   dedicatedTask |-> cfg, request |-> <<mode, cfg>>]

Idle == scan.at = "None"

(* The six overloads of addJob and addJobOnceUtc, with trackJob. *)
AddCompatJob ==
  /\ Idle /\ nextId + Len(late) <= MaxJobs
  /\ \E r \in Requests :
     LET command == [op |-> "Add", job |-> JobOptionsForMode(r[1], r[2])] IN
     /\ scratch' = IF r[2] # NoConfig THEN r[2] ELSE scratch
     /\ \/ Answered(command) /\ tracked' = Append(tracked, nextId) /\ known' = known \cup {nextId}
        \/ Failed(command) /\ UNCHANGED <<tracked, known>>
  /\ UNCHANGED <<up, scan>>

(* cancelJob leaves the id on the list; pauseJob and resumeJob pass on. *)
PassOn ==
  /\ Idle
  /\ \E id \in known, op \in {"Cancel", "PauseOrResume"} :
     LET command == [op |-> op, id |-> id] IN
     \/ id \in DOMAIN jobs /\ Answered(command)
     \/ Failed(command)
  /\ UNCHANGED <<up, tracked, scratch, scan, known>>

(* The list is cleared whether or not the call succeeded. *)
CancelAllCompat ==
  /\ Idle
  /\ Answered([op |-> "CancelAll"]) \/ Failed([op |-> "CancelAll"])
  /\ tracked' = <<>> /\ known' = {}
  /\ UNCHANGED <<up, scratch, scan>>

(* end(true): the service goes, and what it had not executed. *)
Deinit ==
  /\ Idle /\ up
  /\ up' = FALSE
  /\ jobs' = <<>> /\ late' = <<>>
  /\ tracked' = <<>> /\ known' = {}
  /\ UNCHANGED <<nextId, faults, scratch, scan>>

--------------------------------------------------------------------------------
(* cleanup() and getJobInfo(index): pruneTrackedJobs, then a second pass    *)

StartScan ==
  /\ Idle /\ up
  /\ \E index \in {Cleanup} \cup 0..(MaxJobs - 1) :
       scan' = [NoScan EXCEPT !.at = "Prune", !.todo = tracked, !.index = index,
                              !.before = known \cap DOMAIN jobs]
  /\ UNCHANGED <<up, jobs, nextId, late, faults, tracked, scratch, known>>

(* One getJobInfo of the scheduler: found, NotFound, or failed. *)
Asked(id, answer) ==
  \/ answer = "Found" /\ late = <<>> /\ id \in DOMAIN jobs /\ UNCHANGED faults
  \/ answer = "NotFound" /\ late = <<>> /\ id \notin DOMAIN jobs /\ UNCHANGED faults
  \/ answer = "Failed" /\ faults < MaxFaults /\ faults' = faults + 1

(* Any failure drops the id from the list, Timeout and QueueFull too. *)
PruneStep ==
  /\ scan.at = "Prune" /\ scan.todo # <<>>
  /\ LET id == Head(scan.todo) IN
     \E answer \in {"Found", "NotFound", "Failed"} :
       /\ Asked(id, answer)
       /\ scan' = [scan EXCEPT !.todo = Tail(@),
                               !.active = IF answer = "Found" THEN Append(@, id) ELSE @,
                               !.before = IF answer = "Failed" THEN @ \ {id} ELSE @]
       /\ known' = IF answer = "Failed" THEN known \ {id} ELSE known
  /\ UNCHANGED <<up, jobs, nextId, late, tracked, scratch>>

PruneEnd ==
  /\ scan.at = "Prune" /\ scan.todo = <<>>
  /\ tracked' = scan.active
  /\ scan' = IF scan.index = Cleanup THEN NoScan
             ELSE [scan EXCEPT !.at = "List", !.todo = scan.active, !.active = <<>>]
  /\ UNCHANGED <<up, jobs, nextId, late, faults, scratch, known>>

(* Mutant: the index is a position in the list. *)
ListStepByPosition ==
  /\ scan.at = "List" /\ scan.todo # <<>>
  /\ LET id == Head(scan.todo) IN
     \E answer \in {"Found", "NotFound", "Failed"} :
       /\ Asked(id, answer)
       /\ scan' = [scan EXCEPT !.todo = Tail(@),
                               !.current = @ + 1,
                               !.found = IF answer = "Found" /\ scan.current = scan.index THEN id ELSE @,
                               !.at = IF answer = "Found" /\ scan.current = scan.index THEN "Done" ELSE @,
                               !.before = IF answer = "Failed" THEN @ \ {id} ELSE @]
  /\ UNCHANGED <<up, jobs, nextId, late, tracked, scratch, known>>

(* Jobs that ended since the prune, and calls that fail, are not counted. *)
ListStep ==
  /\ scan.at = "List" /\ scan.todo # <<>>
  /\ LET id == Head(scan.todo) IN
     \E answer \in {"Found", "NotFound", "Failed"} :
       LET hit == answer = "Found" /\ scan.current = scan.index IN
       /\ Asked(id, answer)
       /\ scan' = [scan EXCEPT !.todo = Tail(@),
                               !.current = IF answer = "Found" THEN @ + 1 ELSE @,
                               !.found = IF hit THEN id ELSE @,
                               !.at = IF hit THEN "Done" ELSE @,
                               !.before = IF answer = "Failed" THEN @ \ {id} ELSE @]
  /\ UNCHANGED <<up, jobs, nextId, late, tracked, scratch, known>>

ListEnd ==
  /\ scan.at = "List" /\ scan.todo = <<>>
  /\ scan' = [scan EXCEPT !.at = "Done"]
  /\ UNCHANGED <<up, jobs, nextId, late, faults, tracked, scratch, known>>

LookupReturns ==
  /\ scan.at = "Done"
  /\ scan' = NoScan
  /\ UNCHANGED <<up, jobs, nextId, late, faults, tracked, scratch, known>>

CompatNext ==
  \/ ExecuteLate \/ JobEnds
  \/ AddCompatJob \/ PassOn \/ CancelAllCompat \/ Deinit
  \/ StartScan \/ PruneStep \/ PruneEnd \/ ListStep \/ ListEnd \/ LookupReturns

CompatSpec == CompatInit /\ [][CompatNext]_compatVars

--------------------------------------------------------------------------------
(* Properties *)

(* getJobInfo(index) names the index-th of the application's jobs although  *)
(* jobs end between its many calls: the jobs before the one it names that   *)
(* are still there number at most index, those that were there when it was  *)
(* called at least index; and it finds nothing only if no more than index   *)
(* jobs are left.  Jobs for which a call failed are left out.               *)
LookupNamesTheIndexed ==
  scan.at = "Done" =>
    LET still == scan.before \cap DOMAIN jobs
    IN IF scan.found = 0 THEN Cardinality(still) <= scan.index
       ELSE /\ scan.found \in scan.before
            /\ Cardinality({id \in still : id < scan.found}) <= scan.index
            /\ scan.index <= Cardinality({id \in scan.before : id < scan.found})

(* Every job runs where and with the task configuration its addJob asked    *)
(* for, also when that call timed out and the wrapper's options were        *)
(* overwritten by the next call before the service got round to it.         *)
JobsAreAsRequested ==
  \A id \in DOMAIN jobs :
    LET job == jobs[id]
        cfg == job.request[2]
    IN /\ job.dispatch = "Inline" <=> job.request[1] = "Inline"
       /\ job.executorId = 1 <=> cfg # NoConfig
       /\ job.executorId = 1 => job.dedicatedTask = cfg
================================================================================
