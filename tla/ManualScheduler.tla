---------------------------- MODULE ManualScheduler ----------------------------
(***************************************************************************)
(* ESPScheduler in manual mode: the public API and tick() on the caller's  *)
(* thread, the job table (SchedulerCore) they drive, the executors that    *)
(* run callbacks on other tasks, the event queue that brings completions   *)
(* back, and the wall clock.                                               *)
(*                                                                         *)
(* An inline callback runs inside tick() and may call the API again, so    *)
(* the caller's thread is a stack of frames, innermost last.  Between two  *)
(* actions of the thread the worker tasks and the clock may move: a loop   *)
(* that receives from the event queue, or submits to an executor, is one   *)
(* action per iteration.                                                   *)
(***************************************************************************)
EXTENDS SchedulerCore, SequencesExt, LocalTime

CONSTANTS
  Options,          \* the JobOptions the application passes to addJob
  Executors,        \* executor ids: 0 default async, 1 dedicated task, 2.. external
  EventQueueDepth,  \* config.service.eventQueueDepth
  MinValids,        \* values of minValidEpochSeconds
  SyncTimes,        \* epochs an NTP sync may set the clock to
  AllocFails,       \* whether allocations in handlers may fail
  SubmitFails,      \* whether an executor with room may refuse an invocation
  MaxId,            \* bound: ids handed out
  MaxTime,          \* bound: the clock
  MaxOutstanding,   \* bound: invocations submitted and not yet accounted for
  MaxNesting        \* bound: tick or refresh calls active on the stack

ASSUME ManualAssumption ==
  /\ Options \subseteq JobOptions
  /\ Executors \subseteq Nat
  /\ EventQueueDepth \in Nat \ {0}
  /\ DayLen \in Nat \ {0} /\ {Shift, SummerStart, SummerEnd} \subseteq Nat
  /\ MinValids \subseteq Time
  /\ SyncTimes \subseteq Time
  /\ AllocFails \in BOOLEAN
  /\ SubmitFails \in BOOLEAN
  /\ MaxId \in Nat /\ MaxTime \in Nat /\ MaxOutstanding \in Nat /\ MaxNesting \in Nat

VARIABLES
  core,              \* manualCore
  started,           \* impl_->started
  clock,             \* date.now()
  refreshRequested,  \* timeContextRefreshRequested
  lastDay,           \* lastObservedLocalDayStartUtc, NoDay when there is none
  stack,             \* active calls of the caller's thread, innermost last
  inflight,          \* bag of invocations an executor holds or runs
  events,            \* eventQueue
  lost               \* bag of invocations whose completion will not be handled

vars == <<core, started, clock, refreshRequested, lastDay, stack, inflight, events, lost>>

NoDay == -1

(* A loop position of tick(), refreshAllSchedules() or end(true). *)
LoopFrame == [at : {"Drain", "Dispatch", "Settle", "RefreshDrain", "EndWait"}, now : Time]

(* An inline callback, called by dispatchOne at the tick time now. *)
CallbackFrame == [at : {"Callback"}, now : Time, inv : JobInvocation]

Grants == IF AllocFails THEN SUBSET Slots ELSE {Slots}

Top      == Last(stack)
Below    == Front(stack)
At(l)    == stack # <<>> /\ Top.at = l
Goto(l)  == stack' = Append(Below, [Top EXCEPT !.at = l])

(* The application runs when no call is active or in an inline callback. *)
InUserCode == stack = <<>> \/ At("Callback")

Nesting == Cardinality({i \in 1..Len(stack) : stack[i].at # "Callback"})

Outstanding == BagCardinality(inflight) + Len(events) + BagCardinality(lost)

Init ==
  /\ \E m \in MinValids : core = EmptyCore(m)
  /\ started = FALSE
  /\ clock = 0
  /\ refreshRequested = FALSE
  /\ lastDay = NoDay
  /\ stack = <<>>
  /\ inflight = EmptyBag
  /\ events = <<>>
  /\ lost = EmptyBag

--------------------------------------------------------------------------------
(* The clock and the executors *)

AdvanceClock ==
  /\ clock < MaxTime
  /\ clock' = clock + 1
  /\ UNCHANGED <<core, started, refreshRequested, lastDay, stack, inflight, events, lost>>

(* The listener is registered while the scheduler is started. *)
NtpSync ==
  /\ \E t \in SyncTimes : clock' = t
  /\ refreshRequested' = (refreshRequested \/ started)
  /\ UNCHANGED <<core, started, lastDay, stack, inflight, events, lost>>

(* A callback on another task returns; postCompletion does not wait for     *)
(* room in the event queue.                                                 *)
WorkerDone ==
  /\ \E inv \in BagToSet(inflight) :
       /\ inflight' = inflight (-) SetToBag({inv})
       /\ IF Len(events) < EventQueueDepth
          THEN events' = Append(events, inv) /\ lost' = lost
          ELSE events' = events /\ lost' = lost (+) SetToBag({inv})
  /\ UNCHANGED <<core, started, clock, refreshRequested, lastDay, stack>>

--------------------------------------------------------------------------------
(* Dispatch *)

(* dispatchOne(s, now, deferred) on the job table c, called from frames. *)
DispatchOne(c, s, now, deferred, g, frames) ==
  LET r == c.jobs[s]
      inv == Invocation(c, s)
      usable == IF r.dispatch = "Inline" THEN started
                ELSE /\ started /\ r.executorId \in Executors
                     /\ r.hasDedicatedTaskOptions => r.executorId = DedicatedId
      room == r.dispatch = "Async" => Outstanding < MaxOutstanding
      refusable == r.dispatch = "Async" /\ SubmitFails
  IN
  \/ /\ ~Runnable(r)
     /\ core' = c /\ stack' = frames /\ UNCHANGED inflight
  \/ /\ Runnable(r) /\ (~usable \/ ~room \/ refusable)
     /\ core' = RetryLater(c, s, now, g) /\ stack' = frames /\ UNCHANGED inflight
  \/ /\ Runnable(r) /\ usable /\ room
     /\ core' = StartInvocation(c, s, deferred, g)
     /\ IF r.dispatch = "Inline"
        THEN /\ stack' = Append(frames, [at |-> "Callback", now |-> now, inv |-> inv])
             /\ UNCHANGED inflight
        ELSE stack' = frames /\ inflight' = inflight (+) SetToBag({inv})

HandleCompletion(s, now, g, frames) ==
  LET c == Finished(core, s) IN
  IF DeferredDue(c, s)
  THEN DispatchOne(TakeDeferred(c, s), s, now, TRUE, g, frames)
  ELSE /\ core' = SettleCompletion(c, s, now, g)
       /\ stack' = frames
       /\ UNCHANGED inflight

(* One iteration of drainManualEvents. *)
DrainEvent ==
  /\ At("Drain") \/ At("Settle") \/ At("RefreshDrain") \/ At("EndWait")
  /\ events # <<>>
  /\ events' = Tail(events)
  /\ LET inv == Head(events)
         now == IF At("EndWait") THEN clock ELSE Top.now
     IN IF Current(core, inv)
        THEN \E g \in Grants : HandleCompletion(inv.slotIndex, now, g, stack)
        ELSE UNCHANGED <<core, stack, inflight>>
  /\ UNCHANGED <<started, clock, refreshRequested, lastDay, lost>>

(* The inline executor's submit returns: dispatchOne completes the job. *)
CallbackReturn ==
  /\ At("Callback")
  /\ \E g \in Grants : HandleCompletion(Top.inv.slotIndex, Top.now, g, Below)
  /\ UNCHANGED <<started, clock, refreshRequested, lastDay, events, lost>>

--------------------------------------------------------------------------------
(* tick() *)

Tick ==
  /\ started /\ InUserCode
  /\ Nesting < MaxNesting
  /\ stack' = Append(stack, [at |-> "Drain", now |-> clock])
  /\ UNCHANGED <<core, started, clock, refreshRequested, lastDay, inflight, events, lost>>

(* refreshTimeContextIfNeeded, then dispatchDue up to its loop. *)
TickDispatch ==
  /\ At("Drain") /\ events = <<>>
  /\ LET now == Top.now
         day == StartOfDayLocal(now)
         refresh == refreshRequested \/ (lastDay # NoDay /\ lastDay # day)
     IN /\ refreshRequested' = FALSE
        /\ lastDay' = day
        /\ \E g \in Grants, h \in Grants :
           \E c \in {IF refresh THEN RefreshAllSchedules(core, now, g) ELSE core} :
             core' = DrainPendingSchedules(c, now, h)
        /\ IF ClockValid(core, now) THEN Goto("Dispatch") ELSE Goto("Settle")
  /\ UNCHANGED <<started, clock, inflight, events, lost>>

(* One iteration of dispatchDue's loop. *)
DispatchDue ==
  /\ At("Dispatch")
  /\ LET c == PruneInvalidDueEntries(core)
         due == {e \in TopEntries(c) : e.nextEpoch <= Top.now}
     IN \/ /\ due = {}
           /\ core' = c /\ Goto("Settle") /\ UNCHANGED inflight
        \/ \E e \in due, g \in Grants :
             LET s == e.slotIndex
                 p == PopDue(c, e)
             IN IF p.jobs[s].paused \/ Busy(p.jobs[s])
                THEN core' = SkipDue(p, s) /\ UNCHANGED <<stack, inflight>>
                ELSE DispatchOne(p, s, Top.now, FALSE, g, stack)
  /\ UNCHANGED <<started, clock, refreshRequested, lastDay, events, lost>>

TickReturn ==
  /\ At("Settle") /\ events = <<>>
  /\ stack' = Below
  /\ UNCHANGED <<core, started, clock, refreshRequested, lastDay, inflight, events, lost>>

--------------------------------------------------------------------------------
(* The rest of the API; a call that fails with NotFound changes nothing *)

APICall(c) ==
  /\ started /\ InUserCode
  /\ core' = c
  /\ UNCHANGED <<started, clock, refreshRequested, lastDay, stack, inflight, events, lost>>

AddJobCall ==
  \E spec \in Schedules, options \in Options, s \in AddSlots(core), g \in Grants :
    /\ core.nextId <= MaxId
    /\ options.dispatch = "Async" => options.executorId \in Executors
    /\ \/ APICall(AddJob(core, s, spec, options, clock, g))
       \/ AllocFails /\ APICall(AddJobNoMemory(core))

CancelJobCall ==
  \E id \in 1..MaxId : \E s \in FindJobSlot(core, id), g \in Grants :
    APICall(CancelJob(core, s, g))

PauseJobCall ==
  \E id \in 1..MaxId : \E s \in FindJobSlot(core, id) : APICall(PauseJob(core, s))

ResumeJobCall ==
  \E id \in 1..MaxId : \E s \in FindJobSlot(core, id), g \in Grants :
    APICall(ResumeJob(core, s, clock, g))

CancelAllCall == \E g \in Grants : APICall(CancelAll(core, g))

(* setMinValidUnixSeconds is accepted before begin() as well. *)
SetMinValidUnixSeconds ==
  /\ InUserCode
  /\ \E m \in MinValids : core' = [core EXCEPT !.minValid = m]
  /\ UNCHANGED <<started, clock, refreshRequested, lastDay, stack, inflight, events, lost>>

RefreshCall ==
  /\ started /\ InUserCode
  /\ Nesting < MaxNesting
  /\ stack' = Append(stack, [at |-> "RefreshDrain", now |-> clock])
  /\ UNCHANGED <<core, started, clock, refreshRequested, lastDay, inflight, events, lost>>

RefreshReturn ==
  /\ At("RefreshDrain") /\ events = <<>>
  /\ \E g \in Grants : core' = RefreshAllSchedules(core, Top.now, g)
  /\ stack' = Below
  /\ UNCHANGED <<started, clock, refreshRequested, lastDay, inflight, events, lost>>

--------------------------------------------------------------------------------
(* Lifecycle *)

Begin ==
  /\ ~started /\ InUserCode
  /\ started' = TRUE
  /\ UNCHANGED <<core, clock, refreshRequested, lastDay, stack, inflight, events, lost>>

(* The executors stop and the event queue is deleted: completions that were *)
(* not handled by now never will be.                                        *)
Detach(frames) ==
  /\ started' = FALSE
  /\ stack' = frames
  /\ lost' = (lost (+) inflight) (+) ToBag(events)
  /\ inflight' = EmptyBag
  /\ events' = <<>>

(* end(false), and end(true) up to its wait for running jobs. *)
End ==
  /\ started /\ InUserCode
  /\ \E g \in Grants : core' = CancelAll(core, g)
  /\ refreshRequested' = FALSE
  /\ lastDay' = NoDay
  /\ \/ Detach(stack)
     \/ /\ stack' = Append(stack, [at |-> "EndWait", now |-> clock])
        /\ UNCHANGED <<started, inflight, events, lost>>
  /\ UNCHANGED clock

(* The wait is over: no invocation is active, or the timeout has passed. *)
EndReturn ==
  /\ At("EndWait")
  /\ Detach(Below)
  /\ UNCHANGED <<core, clock, refreshRequested, lastDay>>

Environment == AdvanceClock \/ NtpSync \/ WorkerDone

Loops ==
  \/ DrainEvent \/ CallbackReturn
  \/ TickDispatch \/ DispatchDue \/ TickReturn
  \/ RefreshReturn \/ EndReturn

Application ==
  \/ Tick \/ RefreshCall
  \/ AddJobCall \/ CancelJobCall \/ PauseJobCall \/ ResumeJobCall \/ CancelAllCall
  \/ SetMinValidUnixSeconds
  \/ Begin \/ End

Next == Environment \/ Loops \/ Application

Spec == Init /\ [][Next]_vars

--------------------------------------------------------------------------------
(* Properties *)

(* The state of manualCore and of ESPScheduler::Impl is well formed. *)
TypeOK ==
  /\ core \in CoreState
  /\ started \in BOOLEAN
  /\ clock \in Time
  /\ refreshRequested \in BOOLEAN
  /\ lastDay \in Time \cup {NoDay}
  /\ stack \in Seq(LoopFrame \cup CallbackFrame)
  /\ IsABag(inflight) /\ BagToSet(inflight) \subseteq JobInvocation
  /\ events \in Seq(JobInvocation)
  /\ IsABag(lost) /\ BagToSet(lost) \subseteq JobInvocation

(* The inductive invariant behind the next two: VacantIsBlank is what keeps *)
(* ids unique when a slot is reused.                                        *)
IInv == TypeOK /\ CoreInv(core)

(* A job that getJobInfo reports as having a next run has an entry in the   *)
(* due heap that dispatchDue will accept for it: no job is primed but       *)
(* undispatchable, and a job that may not run is not primed.                *)
PrimedIsDispatchable == Primed(core)

(* jobIndex_, freeSlots_ and jobs_ describe the same jobs: the index holds  *)
(* exactly the occupied slots, no two under one id, every id was handed out *)
(* by addJob, and the free list holds only vacant slots.                    *)
TableConsistent == Consistent(core)

(* Without allocation failures retireJob gives every slot back. *)
NoSlotLeak ==
  ~AllocFails => \A s \in core.allocated : core.jobs[s].occupied <=> s \notin core.freeSlots

Callbacks == {i \in 1..Len(stack) : stack[i].at = "Callback"}

(* The elements of a bag, the copies of each told apart by a number. *)
Copies(bag) == UNION {{inv} \X (1..bag[inv]) : inv \in DOMAIN bag}

CopiesOf(id, bag) == Cardinality({p \in Copies(bag) : p[1].jobId = id})

(* Callbacks of a job that an executor or the caller's thread still has. *)
Running(id) ==
  CopiesOf(id, inflight) + Cardinality({i \in Callbacks : stack[i].inv.jobId = id})

(* runningCount is the number of invocations whose completion the core has  *)
(* not handled, over every interleaving of dispatch, nested calls, workers, *)
(* cancellation and shutdown.                                               *)
RunningCountExact ==
  \A s \in Slots : LET id == core.jobs[s].id IN
    core.jobs[s].runningCount =
      Running(id) + CopiesOf(id, lost) + CopiesOf(id, ToBag(events))

(* No completion is stale: the slot an invocation was dispatched from is    *)
(* not vacated or reused while its callback runs or its completion is on    *)
(* the way, so the inline path, which does not check, may trust slotIndex.  *)
NoStaleInvocation ==
  /\ \A inv \in BagToSet(inflight) \cup ToSet(events) : Current(core, inv)
  /\ \A i \in Callbacks : Current(core, stack[i].inv)

(* Unless its policy is AllowParallel, two callbacks of a job never run at  *)
(* the same time.                                                           *)
NoOverlap ==
  \A s \in Slots : LET r == core.jobs[s] IN
    r.occupied /\ r.overlap # "AllowParallel" => Running(r.id) <= 1

(* A runnable job that is idle is primed, or is listed for the next         *)
(* dispatch pass to schedule.                                               *)
Attended(s) ==
  LET r == core.jobs[s] IN
  Runnable(r) /\ r.runningCount = 0 =>
    r.hasNext \/ (r.pendingSchedule /\ s \in core.pendingSchedules)

(* Without allocation failures no order of calls, skips, refreshes, clock   *)
(* changes and completions leaves a runnable job waiting for nothing.       *)
NotStranded == ~AllocFails => \A s \in Slots : Attended(s)

(* The run that QueueOne keeps back belongs to a runnable job and waits for *)
(* an invocation that is out: it is neither forgotten nor run after a pause *)
(* or a cancellation.                                                       *)
QueuedRunIsOwed ==
  \A s \in Slots : LET r == core.jobs[s] IN
    r.queuedWhileRunning => Runnable(r) /\ r.overlap = "QueueOne" /\ r.runningCount > 0

Dead(id) == id < core.nextId /\ FindJobSlot(core, id) = {}

(* Once cancelJob has returned, a one-shot has completed, or end() was      *)
(* called, the id stays NotFound and the core never dispatches it again.    *)
DeadStaysDead ==
  [][\A id \in 1..MaxId : Dead(id) =>
       /\ Dead(id)'
       /\ Running(id)' <= Running(id)
       /\ (CallbackReturn /\ Top.inv.jobId = id) => stack' = Below]_vars

(* A one-shot is dispatched at most once: while its invocation is out it is *)
(* neither primed nor dispatched again, and it leaves the table with it.    *)
OneShotRunsOnce ==
  [][\A s \in Slots : LET r == core.jobs[s] IN
       IsOneShot(r) /\ r.runningCount > 0 =>
         \/ /\ core'.jobs[s].id = r.id /\ core'.jobs[s].runningCount = 1
            /\ ~core'.jobs[s].hasNext
         \/ core'.jobs[s].id # r.id]_vars

--------------------------------------------------------------------------------
(* Liveness.  The caller's thread keeps executing the call it is in; an     *)
(* inline callback calls the API a finite number of times and returns; the  *)
(* application's loop() keeps coming back to tick(); callbacks on workers   *)
(* return; time passes.                                                     *)
LoopTick == Tick /\ stack = <<>>

Fairness ==
  /\ WF_vars(Loops)
  /\ SF_vars(CallbackReturn)
  /\ SF_vars(LoopTick)
  /\ WF_vars(WorkerDone)
  /\ WF_vars(AdvanceClock)

LiveSpec == Spec /\ Fairness

(* tick() returns: the catch-up loop of dispatchDue, which runs a job once  *)
(* for every occurrence it is behind, ends.                                 *)
TickReturns == (stack # <<>>) ~> (stack = <<>>)

(* A job that is added or resumed, also before the clock is valid, is       *)
(* primed sooner or later unless it is stopped first.                       *)
JobGetsPrimed ==
  \A s \in Slots :
    (Runnable(core.jobs[s]) /\ core.jobs[s].runningCount = 0) ~>
      (core.jobs[s].hasNext \/ core.jobs[s].runningCount > 0 \/ ~Runnable(core.jobs[s]))

(* A job that is running becomes idle: every completion that was not lost   *)
(* reaches the core.                                                        *)
RunsComplete ==
  \A s \in Slots :
    (core.jobs[s].runningCount > 0) ~> (core.jobs[s].runningCount = 0 \/ lost # EmptyBag)

(* A due job does not stay due: some tick() dispatches or skips it. *)
DueIsServed ==
  \A s \in Slots :
    (core.jobs[s].hasNext /\ core.jobs[s].nextRunUtc <= clock /\ ClockValid(core, clock)) ~>
      (~core.jobs[s].hasNext \/ core.jobs[s].nextRunUtc > clock)

--------------------------------------------------------------------------------
(* Documented behaviour *)

(* "inline and worker jobs stay idle until the wall clock reaches a         *)
(* configurable minimum [...] to prevent catch-up storms when SNTP sets     *)
(* time after boot" (CHANGELOG.md:53): tick() runs no recurring job for an  *)
(* occurrence that lies before that minimum.                                *)
NoCatchUpRun ==
  [][\A s \in Slots : LET r == core.jobs[s] IN
       DispatchDue /\ core'.jobs[s].runningCount > r.runningCount /\ ~IsOneShot(r) =>
         r.nextRunUtc >= core.minValid]_vars

(* "Scheduler reschedule paths now clear `hasNext` if a due-heap insertion  *)
(* fails, so jobs are retried on the next dispatch pass instead of getting  *)
(* stuck" (CHANGELOG.md:21): a dispatch pass that cannot push a job leaves  *)
(* it where the next pass looks for jobs to schedule.                       *)
FailedPushIsRetried ==
  [][TickDispatch => \A s \in Slots : Attended(s) => Attended(s)']_vars

(* "Recurring jobs auto-refresh on NTP sync and after local midnight. In    *)
(* manual mode that refresh happens on the next `tick()`." (README.md:198): *)
(* when no sync and no new day is left to be looked at, no recurring job    *)
(* waits for a later time than its first occurrence a minute from now.      *)
RefreshedOnSync ==
  stack = <<>> /\ started /\ ~refreshRequested /\ lastDay = StartOfDayLocal(clock) =>
    \A s \in Slots : LET r == core.jobs[s] IN
      r.hasNext /\ ~IsOneShot(r) =>
        \E t \in FirstOccurrence(r.schedule, clock + MinuteLen) : r.nextRunUtc <= t
================================================================================
