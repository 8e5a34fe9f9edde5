------------------------------ MODULE BackgroundEnd ------------------------------
(***************************************************************************)
(* ESPScheduler::end() in background mode (scheduler.cpp), with the        *)
(* shutdown of the worker pool (worker_pool_executor.cpp) and of the       *)
(* service (SchedulerService::stop), against the tasks it ends: the        *)
(* service task, the pool's workers, the tasks that run one callback each  *)
(* (DedicatedTaskExecutor, ESPWorkerExecutorAdapter) and a task that calls *)
(* addJob meanwhile.  postCompletion is split into its memory accesses,    *)
(* because runtime->eventQueue is not atomic.                              *)
(*                                                                         *)
(* The job table is reduced to whether there are jobs, whether a run is    *)
(* kept back (QueueOne) and how many invocations are out.                  *)
(***************************************************************************)
EXTENDS Integers, Sequences, FiniteSets

CONSTANTS
  Workers,            \* the pool's worker tasks
  Tasks,              \* dedicated tasks that may exist at a time
  PoolQueueDepth,     \* config.workerPool.queueDepth
  EventQueueDepth,    \* config.service.eventQueueDepth
  CommandQueueDepth,  \* config.service.commandQueueDepth
  MaxRuns             \* bound: invocations

ASSUME EndAssumption ==
  /\ Workers \cap Tasks = {}
  /\ IsFiniteSet(Workers) /\ IsFiniteSet(Tasks)
  /\ {PoolQueueDepth, EventQueueDepth, CommandQueueDepth} \subseteq Nat \ {0}
  /\ MaxRuns \in Nat

VARIABLES
  ender,     \* where end() is
  drain,     \* its waitForRunningJobs
  posted,    \* sentinels it has tried to post
  commands,  \* commandQueue_
  signaled,  \* end()'s CancelAll was executed and signaled
  adder,     \* the other task's addJob: "Out", "Checked", "Done"
  service,   \* where the service task is; back: where its dispatch returns
  jobs,      \* a job may be due
  deferred,  \* a job has queuedWhileRunning set
  active,    \* core_.activeInvocationCount()
  published, \* activeInvocationCount_
  runs,
  events,    \* messages in the event queue
  poolQueue, \* the pool's queue_: "Item" or "Sentinel"
  at,        \* where the workers and the dedicated tasks are
  executors, \* the executors exist
  accepting, \* runtime->accepting
  handle,    \* runtime->eventQueue is not nullptr
  queueLive, \* the event queue exists
  stopRequested,
  answered,  \* history: end()'s CancelAll returned success
  drained,   \* history: end() saw activeInvocationCount() at 0
  late       \* history: addJob was executed after end()'s CancelAll

enderVars   == <<ender, drain, posted, answered, drained>>
coreVars    == <<jobs, deferred, active, published, runs>>
runtimeVars == <<executors, accepting, handle, queueLive, stopRequested>>
endVars     == <<enderVars, coreVars, runtimeVars, commands, signaled, adder, service,
                 events, poolQueue, at, late>>

EndInit ==
  /\ ender = "Up" /\ drain = FALSE /\ posted = 0
  /\ commands = <<>> /\ signaled = FALSE
  /\ adder = "Out"
  /\ service = [at |-> "Commands", back |-> "None"]
  /\ jobs = TRUE /\ deferred = FALSE /\ active = 0 /\ published = 0 /\ runs = 0
  /\ events = 0 /\ poolQueue = <<>>
  /\ at = [t \in Workers \cup Tasks |-> "Idle"]
  /\ executors = TRUE /\ accepting = TRUE /\ handle = TRUE /\ queueLive = TRUE
  /\ stopRequested = FALSE
  /\ answered = FALSE /\ drained = FALSE /\ late = FALSE

ServiceAt(p) == service.at = p
GoTo(p)      == service' = [service EXCEPT !.at = p]

--------------------------------------------------------------------------------
(* The service task: SchedulerService::run *)

(* Mutant: cancelAll leaves the jobs that are running. *)
CancelAllIdle ==
  IF active > 0 THEN UNCHANGED <<jobs, deferred>> ELSE jobs' = FALSE /\ deferred' = FALSE

(* No job is left that could be dispatched. *)
CancelAllJobs == jobs' = FALSE /\ deferred' = FALSE

DrainCommand ==
  /\ ServiceAt("Commands") /\ commands # <<>>
  /\ commands' = Tail(commands)
  /\ LET command == Head(commands) IN
     /\ \/ command = "CancelAll" /\ CancelAllJobs
        \/ command = "Add" /\ jobs' = TRUE /\ UNCHANGED deferred
        \/ command = "Wake" /\ UNCHANGED <<jobs, deferred>>
     /\ signaled' = (signaled \/ command = "CancelAll")
     /\ late' = (late \/ (command = "Add" /\ signaled))
  /\ UNCHANGED <<enderVars, runtimeVars, adder, service, active, published, runs, events,
                 poolQueue, at>>

NoMoreCommands ==
  /\ ServiceAt("Commands") /\ commands = <<>>
  /\ GoTo("Events")
  /\ UNCHANGED <<enderVars, coreVars, runtimeVars, commands, signaled, adder, events,
                 poolQueue, at, late>>

(* A completion; the run that was kept back is dispatched at once. *)
DrainEvent ==
  /\ ServiceAt("Events") /\ events > 0
  /\ events' = events - 1
  /\ active' = active - 1
  /\ IF jobs /\ deferred
     THEN deferred' = FALSE /\ service' = [at |-> "Resolve", back |-> "Events"]
     ELSE UNCHANGED <<deferred, service>>
  /\ UNCHANGED <<enderVars, runtimeVars, commands, signaled, adder, jobs, published, runs,
                 poolQueue, at, late>>

NoMoreEvents ==
  /\ ServiceAt("Events") /\ events = 0
  /\ GoTo("Dispatch")
  /\ UNCHANGED <<enderVars, coreVars, runtimeVars, commands, signaled, adder, events,
                 poolQueue, at, late>>

(* A due job is dispatched, or kept back because it is running. *)
DispatchJob ==
  /\ ServiceAt("Dispatch") /\ jobs
  /\ \/ service' = [at |-> "Resolve", back |-> "Dispatch"] /\ UNCHANGED deferred
     \/ active > 0 /\ ~deferred /\ deferred' = TRUE /\ UNCHANGED service
  /\ UNCHANGED <<enderVars, runtimeVars, commands, signaled, adder, jobs, active, published,
                 runs, events, poolQueue, at, late>>

(* executorFor, inlineExecutor: nullptr once the executors are gone. *)
ResolveExecutor ==
  /\ ServiceAt("Resolve")
  /\ IF executors /\ runs < MaxRuns THEN GoTo("Submit") ELSE GoTo(service.back)
  /\ UNCHANGED <<enderVars, coreVars, runtimeVars, commands, signaled, adder, events,
                 poolQueue, at, late>>

Submitted ==
  /\ active' = active + 1
  /\ runs' = runs + 1
  /\ UNCHANGED <<jobs, deferred, published>>

SubmitToPool ==
  /\ ServiceAt("Submit")
  /\ Len(poolQueue) < PoolQueueDepth
  /\ poolQueue' = Append(poolQueue, "Item")
  /\ Submitted
  /\ GoTo(service.back)
  /\ UNCHANGED <<enderVars, runtimeVars, commands, signaled, adder, events, at, late>>

SubmitToTask ==
  /\ ServiceAt("Submit")
  /\ \E t \in Tasks : at[t] = "Idle" /\ at' = [at EXCEPT ![t] = "Callback"]
  /\ Submitted
  /\ GoTo(service.back)
  /\ UNCHANGED <<enderVars, runtimeVars, commands, signaled, adder, events, poolQueue, late>>

(* A full queue or a failed allocation. *)
SubmitRefused ==
  /\ ServiceAt("Submit")
  /\ GoTo(service.back)
  /\ UNCHANGED <<enderVars, coreVars, runtimeVars, commands, signaled, adder, events,
                 poolQueue, at, late>>

SubmitInline ==
  /\ ServiceAt("Submit")
  /\ Submitted
  /\ GoTo("Inline")
  /\ UNCHANGED <<enderVars, runtimeVars, commands, signaled, adder, events, poolQueue, at, late>>

InlineReturns ==
  /\ ServiceAt("Inline")
  /\ active' = active - 1
  /\ GoTo(service.back)
  /\ UNCHANGED <<enderVars, runtimeVars, commands, signaled, adder, jobs, deferred, published,
                 runs, events, poolQueue, at, late>>

(* Mutant: the count is stored only when it has fallen. *)
PublishLower ==
  /\ ServiceAt("Dispatch")
  /\ published' = IF active < published THEN active ELSE published
  /\ GoTo("Sleep")
  /\ UNCHANGED <<enderVars, runtimeVars, commands, signaled, adder, jobs, deferred, active, runs,
                 events, poolQueue, at, late>>

(* No job is due any more: the count is stored and the task sleeps. *)
PublishActive ==
  /\ ServiceAt("Dispatch")
  /\ published' = active
  /\ GoTo("Sleep")
  /\ UNCHANGED <<enderVars, runtimeVars, commands, signaled, adder, jobs, deferred, active, runs,
                 events, poolQueue, at, late>>

(* It wakes up for a message or for the time. *)
LoopAgain ==
  /\ ServiceAt("Sleep")
  /\ GoTo(IF stopRequested THEN "Exited" ELSE "Commands")
  /\ UNCHANGED <<enderVars, coreVars, runtimeVars, commands, signaled, adder, events,
                 poolQueue, at, late>>

ServiceTask ==
  \/ DrainCommand \/ NoMoreCommands \/ DrainEvent \/ NoMoreEvents
  \/ DispatchJob \/ ResolveExecutor
  \/ SubmitToPool \/ SubmitToTask \/ SubmitRefused \/ SubmitInline \/ InlineReturns
  \/ PublishActive \/ LoopAgain

--------------------------------------------------------------------------------
(* The workers and the dedicated tasks *)

Move(t, p) == at' = [at EXCEPT ![t] = p]

othersOfWorker == <<enderVars, coreVars, runtimeVars, commands, signaled, adder, service, late>>

WorkerReceives(w) ==
  /\ at[w] = "Idle" /\ poolQueue # <<>>
  /\ poolQueue' = Tail(poolQueue)
  /\ Move(w, IF Head(poolQueue) = "Sentinel" THEN "Gone" ELSE "Callback")
  /\ UNCHANGED <<othersOfWorker, events>>

CallbackReturns(t) ==
  /\ at[t] = "Callback"
  /\ Move(t, "Accepting")
  /\ UNCHANGED <<othersOfWorker, events, poolQueue>>

(* postCompletion reads accepting, then eventQueue, then eventQueue again. *)
ReadsAccepting(t) ==
  /\ at[t] = "Accepting"
  /\ Move(t, IF accepting THEN "Handle" ELSE "Idle")
  /\ UNCHANGED <<othersOfWorker, events, poolQueue>>

ReadsHandle(t) ==
  /\ at[t] = "Handle"
  /\ Move(t, IF handle THEN "Send" ELSE "Idle")
  /\ UNCHANGED <<othersOfWorker, events, poolQueue>>

(* A full queue drops the message; a queue that is gone takes none. *)
SendsCompletion(t) ==
  /\ at[t] = "Send"
  /\ events' = IF queueLive /\ events < EventQueueDepth THEN events + 1 ELSE events
  /\ Move(t, "Idle")
  /\ UNCHANGED <<othersOfWorker, poolQueue>>

RunsCallbacks ==
  \/ \E w \in Workers : WorkerReceives(w)
  \/ \E t \in Workers \cup Tasks :
       CallbackReturns(t) \/ ReadsAccepting(t) \/ ReadsHandle(t) \/ SendsCompletion(t)

--------------------------------------------------------------------------------
(* A task that adds a job *)

(* It has found the scheduler started and not draining. *)
AdderChecks ==
  /\ adder = "Out" /\ ender = "Up"
  /\ adder' = "Checked"
  /\ UNCHANGED <<enderVars, coreVars, runtimeVars, commands, signaled, service, events,
                 poolQueue, at, late>>

AdderSends ==
  /\ adder = "Checked" /\ queueLive
  /\ adder' = "Done"
  /\ commands' = IF Len(commands) < CommandQueueDepth THEN Append(commands, "Add") ELSE commands
  /\ UNCHANGED <<enderVars, coreVars, runtimeVars, signaled, service, events, poolQueue, at, late>>

--------------------------------------------------------------------------------
(* end() *)

EnderGoes(from, to) == ender = from /\ ender' = to

AfterCancel == IF drain THEN "WaitJobs" ELSE "Detach"

(* draining is set and the CancelAll sent; QueueFull is ignored. *)
CallEnd ==
  /\ ender = "Up"
  /\ drain' \in BOOLEAN
  /\ IF Len(commands) < CommandQueueDepth
     THEN commands' = Append(commands, "CancelAll") /\ ender' = "WaitCancel"
     ELSE ender' = (IF drain' THEN "WaitJobs" ELSE "Detach") /\ UNCHANGED commands
  /\ UNCHANGED <<posted, answered, drained, coreVars, runtimeVars, signaled, adder, service,
                 events, poolQueue, at, late>>

(* The answer of CancelAll, or the control timeout, which is ignored. *)
CancelReturns ==
  /\ EnderGoes("WaitCancel", AfterCancel)
  /\ answered' = signaled
  /\ UNCHANGED <<drain, posted, drained, coreVars, runtimeVars, commands, signaled, adder, service,
                 events, poolQueue, at, late>>

(* activeInvocationCount() is 0, or the timeout is over. *)
JobsWaitEnds ==
  /\ EnderGoes("WaitJobs", "Detach")
  /\ drained' = (published = 0)
  /\ UNCHANGED <<drain, posted, answered, coreVars, runtimeVars, commands, signaled, adder, service,
                 events, poolQueue, at, late>>

(* Mutant: the service is stopped before the executors. *)
DetachServiceFirst ==
  /\ EnderGoes("Detach", IF drain THEN "StopService" ELSE "ClearHandle")
  /\ accepting' = drain
  /\ UNCHANGED <<drain, posted, answered, drained, coreVars, executors, handle, queueLive,
                 stopRequested, commands, signaled, adder, service, events, poolQueue, at, late>>

(* accepting.store(waitForRunningJobs) *)
DetachRuntime ==
  /\ EnderGoes("Detach", IF drain THEN "Sentinels" ELSE "ClearHandle")
  /\ accepting' = drain
  /\ UNCHANGED <<drain, posted, answered, drained, coreVars, executors, handle, queueLive,
                 stopRequested, commands, signaled, adder, service, events, poolQueue, at, late>>

ClearHandle ==
  /\ EnderGoes("ClearHandle", "Purge")
  /\ handle' = FALSE
  /\ UNCHANGED <<drain, posted, answered, drained, coreVars, executors, accepting, queueLive,
                 stopRequested, commands, signaled, adder, service, events, poolQueue, at, late>>

(* end(false) of the pool takes what no worker has taken yet. *)
PurgePool ==
  /\ ender = "Purge"
  /\ IF poolQueue # <<>> THEN poolQueue' = Tail(poolQueue) /\ UNCHANGED ender
     ELSE ender' = "Sentinels" /\ UNCHANGED poolQueue
  /\ UNCHANGED <<drain, posted, answered, drained, coreVars, runtimeVars, commands, signaled,
                 adder, service, events, at, late>>

(* One per worker, dropped when the queue is full. *)
PostSentinel ==
  /\ ender = "Sentinels"
  /\ IF posted < Cardinality(Workers)
     THEN /\ posted' = posted + 1
          /\ poolQueue' = IF Len(poolQueue) < PoolQueueDepth THEN Append(poolQueue, "Sentinel")
                          ELSE poolQueue
          /\ UNCHANGED ender
     ELSE ender' = "WaitWorkers" /\ UNCHANGED <<posted, poolQueue>>
  /\ UNCHANGED <<drain, answered, drained, coreVars, runtimeVars, commands, signaled,
                 adder, service, events, at, late>>

(* Mutant: the wait for the workers has no deadline. *)
WorkersExited ==
  /\ EnderGoes("WaitWorkers", "DestroyExecutors")
  /\ \A w \in Workers : at[w] = "Gone"
  /\ UNCHANGED <<drain, posted, answered, drained, coreVars, runtimeVars, commands, signaled,
                 adder, service, events, poolQueue, at, late>>

(* The workers have left, or the deadline is over: then they are deleted,   *)
(* those too that have left.                                                *)
WorkersWaitEnds ==
  /\ EnderGoes("WaitWorkers", "DestroyExecutors")
  /\ at' = [t \in DOMAIN at |-> IF t \in Workers THEN "Gone" ELSE at[t]]
  /\ UNCHANGED <<drain, posted, answered, drained, coreVars, runtimeVars, commands, signaled,
                 adder, service, events, poolQueue, late>>

(* The pool's queue is deleted, the list of executors cleared and the       *)
(* executors destroyed.  Dedicated tasks are not waited for.                *)
DestroyExecutors ==
  /\ EnderGoes("DestroyExecutors", "StopService")
  /\ executors' = FALSE
  /\ poolQueue' = <<>>
  /\ UNCHANGED <<drain, posted, answered, drained, coreVars, accepting, handle, queueLive,
                 stopRequested, commands, signaled, adder, service, events, at, late>>

StopService ==
  /\ EnderGoes("StopService", "WaitService")
  /\ stopRequested' = TRUE
  /\ commands' = IF Len(commands) < CommandQueueDepth THEN Append(commands, "Wake") ELSE commands
  /\ UNCHANGED <<drain, posted, answered, drained, coreVars, executors, accepting, handle,
                 queueLive, signaled, adder, service, events, poolQueue, at, late>>

(* The service task has left run(), or the deadline is over and it is       *)
(* deleted wherever it is.                                                  *)
ServiceWaitEnds ==
  /\ EnderGoes("WaitService", "DeleteQueues")
  /\ GoTo("Exited")
  /\ UNCHANGED <<drain, posted, answered, drained, coreVars, runtimeVars, commands, signaled,
                 adder, events, poolQueue, at, late>>

DeleteQueues ==
  /\ EnderGoes("DeleteQueues", "ClearRuntime")
  /\ queueLive' = FALSE
  /\ commands' = <<>> /\ events' = 0
  /\ UNCHANGED <<drain, posted, answered, drained, coreVars, executors, accepting, handle,
                 stopRequested, signaled, adder, service, poolQueue, at, late>>

ClearRuntime ==
  /\ EnderGoes("ClearRuntime", "Down")
  /\ handle' = FALSE /\ accepting' = FALSE
  /\ UNCHANGED <<drain, posted, answered, drained, coreVars, executors, queueLive,
                 stopRequested, commands, signaled, adder, service, events, poolQueue, at, late>>

Ender ==
  \/ CallEnd \/ CancelReturns \/ JobsWaitEnds
  \/ DetachRuntime \/ ClearHandle
  \/ PurgePool \/ PostSentinel \/ WorkersWaitEnds \/ DestroyExecutors
  \/ StopService \/ ServiceWaitEnds \/ DeleteQueues \/ ClearRuntime

EndNext == ServiceTask \/ RunsCallbacks \/ AdderChecks \/ AdderSends \/ Ender

(* Only the task that calls end() has to be scheduled. *)
EndSpec == EndInit /\ [][EndNext]_endVars /\ WF_endVars(Ender /\ ender # "Up")

--------------------------------------------------------------------------------
(* Properties *)

(* end(true) that saw no active invocation, and no addJob slipped in after  *)
(* its cancelAll: from then on no callback runs or waits to run anywhere    *)
(* and no completion is under way, although activeInvocationCount_ is a     *)
(* copy that the service task stores once per loop.                         *)
EndDrains ==
  drained /\ answered /\ ~late =>
    /\ active = 0 /\ events = 0
    /\ \A i \in DOMAIN poolQueue : poolQueue[i] # "Item"
    /\ \A t \in DOMAIN at : at[t] \in {"Idle", "Gone"}
    /\ ~ServiceAt("Submit") /\ ~ServiceAt("Inline")

(* A pool worker that passed postCompletion's checks finds the event queue  *)
(* there when it sends, in end(true) under its handle too: the queue        *)
(* outlives the workers, however long their callbacks take and whether or   *)
(* not they saw their sentinels.                                            *)
PoolPostsToLiveQueue ==
  \A w \in Workers : at[w] = "Send" => queueLive /\ (drain => handle)

(* The service task uses no executor that end() has destroyed if cancelAll  *)
(* succeeded and no addJob slipped in after it, although the executors go   *)
(* before the service: what it had resolved it submitted before it answered.*)
NoUseOfDeadExecutor ==
  answered /\ ~late /\ ServiceAt("Submit") => executors

(* end() returns although callbacks may never return, sentinels are dropped *)
(* when the pool's queue is full, and no other task runs again.             *)
EndReturns == (ender # "Up") ~> (ender = "Down")
================================================================================
