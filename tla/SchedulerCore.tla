----------------------------- MODULE SchedulerCore -----------------------------
(***************************************************************************)
(* The job table of esp_scheduler/core: one operator per method of class   *)
(* SchedulerCore, each a function from the core's state (a record c of     *)
(* CoreState) to the state the method leaves.  The module has no variables *)
(* of its own: ManualScheduler drives it from the caller's thread.         *)
(*                                                                         *)
(* Abstractions.  Times are epoch seconds and a minute has MinuteLen of    *)
(* them.  A ScheduleSpec is a name; what ScheduleCalculator finds for it   *)
(* is given by the set of its occurrences.  pendingSchedules_ and the due  *)
(* heap are sets: draining a slot twice, or pruning an entry that is there *)
(* twice, has no further effect.  An allocation inside a handler may fail: *)
(* g is the set of slots for which the handler's pushes succeed.           *)
(***************************************************************************)
EXTENDS Integers

CONSTANTS
  Slots,        \* the positions of jobs_ that an instance may fill
  Recurring,    \* recurring ScheduleSpecs
  OneShots,     \* one-shot UTC ScheduleSpecs
  DefaultSpec,  \* ScheduleSpec{}: every minute
  Occurrences,  \* for a recurring spec, the epochs at which it occurs
  OnceAt,       \* for a one-shot spec, its onceAtUtc
  MinuteLen,    \* seconds in a minute
  SearchLen     \* how far ScheduleCalculator looks ahead, in seconds

Schedules == Recurring \cup OneShots
Time      == Nat

ASSUME ScheduleAssumption ==
  /\ Recurring \cap OneShots = {}
  /\ DefaultSpec \in Recurring
  /\ Occurrences \in [Recurring -> SUBSET Time]
  /\ OnceAt \in [OneShots -> Time]

ASSUME TimeAssumption ==
  /\ MinuteLen \in Nat \ {0}
  /\ SearchLen \in Nat

NullTime == 0        \* DateTime{}
RetryDelay == 1      \* kRetryDelaySeconds
DedicatedId == 1     \* the executor id of DedicatedTaskExecutor

Dispatches == {"Inline", "Async"}
Overlaps   == {"SkipIfRunning", "QueueOne", "AllowParallel"}

JobOptions ==
  [dispatch : Dispatches, overlap : Overlaps, executorId : Nat,
   dedicatedTask : BOOLEAN, startPaused : BOOLEAN]

JobRecord ==
  [id : Nat, generation : Nat, occupied : BOOLEAN,
   schedule : Schedules, dispatch : Dispatches, overlap : Overlaps,
   executorId : Nat, hasDedicatedTaskOptions : BOOLEAN,
   paused : BOOLEAN, canceled : BOOLEAN, queuedWhileRunning : BOOLEAN,
   hasNext : BOOLEAN, pendingSchedule : BOOLEAN, refreshPending : BOOLEAN,
   runningCount : Nat, nextRunUtc : Time, scheduleFromUtc : Time]

DueHeapEntry == [nextEpoch : Time, slotIndex : Slots, generation : Nat]

JobInvocation == [jobId : Nat, generation : Nat, slotIndex : Slots]

CoreState ==
  [jobs : [Slots -> JobRecord],
   allocated : SUBSET Slots,          \* positions below jobs_.size()
   freeSlots : SUBSET Slots,
   pendingSchedules : SUBSET Slots,
   jobIndex : SUBSET (Nat \X Slots),  \* the pairs <<id, slot>>
   dueHeap : SUBSET DueHeapEntry,
   nextId : Nat \ {0},
   minValid : Time]

EmptyRecord ==
  [id |-> 0, generation |-> 1, occupied |-> FALSE,
   schedule |-> DefaultSpec, dispatch |-> "Inline", overlap |-> "SkipIfRunning",
   executorId |-> 0, hasDedicatedTaskOptions |-> FALSE,
   paused |-> FALSE, canceled |-> FALSE, queuedWhileRunning |-> FALSE,
   hasNext |-> FALSE, pendingSchedule |-> FALSE, refreshPending |-> FALSE,
   runningCount |-> 0, nextRunUtc |-> NullTime, scheduleFromUtc |-> NullTime]

EmptyCore(minValid) ==
  [jobs |-> [s \in Slots |-> EmptyRecord], allocated |-> {}, freeSlots |-> {},
   pendingSchedules |-> {}, jobIndex |-> {}, dueHeap |-> {},
   nextId |-> 1, minValid |-> minValid]

IsOneShot(r) == r.schedule \in OneShots
Live(r)      == r.occupied /\ ~r.canceled
Runnable(r)  == Live(r) /\ ~r.paused
(* Mutant: QueueOne is not told apart from AllowParallel. *)
BusyUnlessQueued(r) == r.runningCount > 0 /\ r.overlap = "SkipIfRunning"
Busy(r)      == r.runningCount > 0 /\ r.overlap # "AllowParallel"

ClockValid(c, now) == now >= c.minValid

(* The slot of a job that still exists for the API: empty or a singleton. *)
FindJobSlot(c, id) ==
  {s \in c.allocated : /\ <<id, s>> \in c.jobIndex
                       /\ Live(c.jobs[s])
                       /\ c.jobs[s].id = id}

--------------------------------------------------------------------------------
(* Next occurrence *)

RoundToNextMinute(t) == ((t + MinuteLen - 1) \div MinuteLen) * MinuteLen

(* The searches of ScheduleCalculator: empty, or the first occurrence at or  *)
(* after the next full minute, when there is one within the search limit.   *)
FirstOccurrence(spec, from) ==
  LET start == RoundToNextMinute(from) IN
  {t \in Occurrences[spec] :
     /\ start <= t /\ t < start + SearchLen
     /\ \A u \in Occurrences[spec] : start <= u => t <= u}

ComputeNext(spec, from) ==
  IF spec \in OneShots THEN {OnceAt[spec]} ELSE FirstOccurrence(spec, from)

ComputeNextForJob(r, from) ==
  IF r.canceled \/ r.paused THEN [r EXCEPT !.hasNext = FALSE]
  ELSE LET next == ComputeNext(r.schedule, from) IN
       [r EXCEPT !.refreshPending = FALSE,
                 !.hasNext = next # {},
                 !.nextRunUtc = IF next # {} THEN CHOOSE t \in next : TRUE ELSE @]

--------------------------------------------------------------------------------
(* Priming: records that the caller rewrote, and their pushes to the heap *)

DueEntry(s, r) ==
  [nextEpoch |-> r.nextRunUtc, slotIndex |-> s, generation |-> r.generation]

Pushable(r) == Live(r) /\ r.hasNext

(* Mutant: a failed push leaves hasNext set. *)
PushDueKeepsNext(c, recs, g) ==
  [c EXCEPT
     !.jobs = [s \in Slots |-> IF s \in DOMAIN recs THEN recs[s] ELSE c.jobs[s]],
     !.dueHeap = @ \cup {DueEntry(s, recs[s]) :
                           s \in {x \in DOMAIN recs : Pushable(recs[x]) /\ x \in g}}]

(* Stores the rewritten records recs and pushes each on the due heap; where *)
(* the push fails every caller of pushDue clears hasNext.                   *)
PushDue(c, recs, g) ==
  LET fails(s) == Pushable(recs[s]) /\ s \notin g IN
  [c EXCEPT
     !.jobs = [s \in Slots |->
                 IF s \notin DOMAIN recs THEN c.jobs[s]
                 ELSE IF fails(s) THEN [recs[s] EXCEPT !.hasNext = FALSE]
                 ELSE recs[s]],
     !.dueHeap = @ \cup {DueEntry(s, recs[s]) :
                           s \in {x \in DOMAIN recs : Pushable(recs[x]) /\ x \in g}}]

Unscheduled(r) ==
  [r EXCEPT !.pendingSchedule = FALSE, !.hasNext = FALSE, !.refreshPending = FALSE]

(* Mutant: the flag is set but the slot is not listed. *)
QueueSchedulingUnlisted(c, s, from, g) ==
  [c EXCEPT !.jobs[s] = [@ EXCEPT !.scheduleFromUtc = from, !.hasNext = FALSE,
                                  !.pendingSchedule = TRUE]]

QueueScheduling(c, s, from, g) ==
  LET r == c.jobs[s] IN
  IF ~Runnable(r) THEN [c EXCEPT !.jobs[s] = Unscheduled(r)]
  ELSE [c EXCEPT
          !.jobs[s] = [r EXCEPT !.scheduleFromUtc = from,
                                !.hasNext = FALSE,
                                !.pendingSchedule = @ \/ s \in g],
          !.pendingSchedules = IF r.pendingSchedule \/ s \notin g THEN @ ELSE @ \cup {s}]

(* Mutant: the list is emptied before the clock is looked at. *)
DrainBeforeClockCheck(c, now, g) ==
  [c EXCEPT !.pendingSchedules = {},
            !.jobs = [s \in Slots |-> [c.jobs[s] EXCEPT !.pendingSchedule = FALSE]]]

(* Every listed slot is recomputed from the time it was queued with. *)
DrainPendingSchedules(c, now, g) ==
  IF ~ClockValid(c, now) THEN c
  ELSE LET drained(s) ==
             LET r == [c.jobs[s] EXCEPT !.pendingSchedule = FALSE] IN
             IF ~Runnable(r) \/ r.runningCount > 0 THEN [r EXCEPT !.hasNext = FALSE]
             ELSE ComputeNextForJob(r, r.scheduleFromUtc)
       IN PushDue([c EXCEPT !.pendingSchedules = {}],
                  [s \in c.pendingSchedules |-> drained(s)], g)

--------------------------------------------------------------------------------
(* The due heap *)

ValidDueEntry(c, e) ==
  LET r == c.jobs[e.slotIndex] IN
  /\ Live(r) /\ r.hasNext
  /\ r.generation = e.generation
  /\ r.nextRunUtc = e.nextEpoch

(* Mutant: the first valid entry goes with the invalid ones before it. *)
PruneOneMore(c) ==
  [c EXCEPT !.dueHeap = {e \in @ : \E v \in @ : /\ ValidDueEntry(c, v)
                                                /\ v.nextEpoch < e.nextEpoch}]

(* Entries that are not valid are dropped from the top until one is. *)
PruneInvalidDueEntries(c) ==
  [c EXCEPT !.dueHeap = {e \in @ : \E v \in @ : /\ ValidDueEntry(c, v)
                                                /\ v.nextEpoch <= e.nextEpoch}]

(* What may be on top of the pruned heap: equal epochs have no order. *)
TopEntries(c) ==
  {e \in c.dueHeap :
     /\ ValidDueEntry(c, e)
     /\ \A v \in c.dueHeap : ValidDueEntry(c, v) => e.nextEpoch <= v.nextEpoch}

PopDue(c, e) == [c EXCEPT !.dueHeap = @ \ {e}]

--------------------------------------------------------------------------------
(* Life of a job *)

(* Mutants: the slot is not given back; the id stays in the index; the      *)
(* flags are reset but the record is not vacated.                           *)
RetireWithoutFree(c, R, g) ==
  [c EXCEPT
     !.jobs = [s \in Slots |->
                 IF s \in R
                 THEN [EmptyRecord EXCEPT !.generation = c.jobs[s].generation + 1]
                 ELSE c.jobs[s]],
     !.jobIndex = {p \in @ : \A s \in R : p[1] # c.jobs[s].id}]

RetireKeepsIndex(c, R, g) ==
  [c EXCEPT
     !.jobs = [s \in Slots |->
                 IF s \in R
                 THEN [EmptyRecord EXCEPT !.generation = c.jobs[s].generation + 1]
                 ELSE c.jobs[s]],
     !.freeSlots = @ \cup (R \cap g)]

RetireKeepsRecord(c, R, g) ==
  [c EXCEPT !.jobs = [s \in Slots |-> IF s \in R THEN [c.jobs[s] EXCEPT !.canceled = FALSE]
                                                 ELSE c.jobs[s]]]

(* The data of a vacant record is blanked: addJob overwrites all of it but  *)
(* the generation.  The slot is lost when freeSlots_ cannot grow.           *)
RetireJobs(c, R, g) ==
  [c EXCEPT
     !.jobs = [s \in Slots |->
                 IF s \in R
                 THEN [EmptyRecord EXCEPT !.generation = c.jobs[s].generation + 1]
                 ELSE c.jobs[s]],
     !.jobIndex = {p \in @ : \A s \in R : p[1] # c.jobs[s].id},
     !.freeSlots = @ \cup (R \cap g)]

(* Mutant: the job is retired although an invocation of it is out. *)
CancelRunning(c, S, g) == RetireJobs(c, S, g)

(* cancelJob for one slot, cancelAll for all of them. *)
CancelSlots(c, S, g) ==
  LET canceled(r) == [Unscheduled(r) EXCEPT !.canceled = TRUE, !.paused = FALSE,
                                            !.queuedWhileRunning = FALSE]
      marked == [c EXCEPT !.jobs = [s \in Slots |-> IF s \in S THEN canceled(c.jobs[s])
                                                               ELSE c.jobs[s]]]
  IN RetireJobs(marked, {s \in S : c.jobs[s].runningCount = 0}, g)

CancelJob(c, s, g) == CancelSlots(c, {s}, g)

CancelAll(c, g) == CancelSlots(c, {s \in Slots : Live(c.jobs[s])}, g)

(* Mutant: the run that was kept back stays queued. *)
PauseKeepsQueued(c, s) ==
  [c EXCEPT !.jobs[s] = [Unscheduled(@) EXCEPT !.paused = TRUE]]

PauseJob(c, s) ==
  [c EXCEPT !.jobs[s] = [Unscheduled(@) EXCEPT !.paused = TRUE,
                                               !.queuedWhileRunning = FALSE]]

(* While an invocation is out the job is left for handleCompletion to queue. *)
ResumeJob(c, s, now, g) ==
  LET r == [c.jobs[s] EXCEPT !.paused = FALSE, !.queuedWhileRunning = FALSE]
      d == [c EXCEPT !.jobs[s] = r]
  IN IF r.runningCount = 0 THEN QueueScheduling(d, s, now, g) ELSE d

NewRecord(c, s, spec, options) ==
  [EmptyRecord EXCEPT
     !.id = c.nextId, !.generation = c.jobs[s].generation, !.occupied = TRUE,
     !.schedule = spec, !.dispatch = options.dispatch, !.overlap = options.overlap,
     !.executorId = options.executorId, !.paused = options.startPaused,
     !.hasDedicatedTaskOptions = options.dedicatedTask]

(* The slots addJob may take: one of the free list, else the next of jobs_. *)
AddSlots(c) ==
  IF c.freeSlots # {} THEN c.freeSlots ELSE Slots \ c.allocated

(* Every NoMemory exit of addJob is rolled back, but for the id it took. *)
AddJobNoMemory(c) == [c EXCEPT !.nextId = @ + 1]

(* The new record is put into its slot and indexed. *)
EnterJob(c, s, r) ==
  [c EXCEPT !.jobs[s] = r, !.allocated = @ \cup {s}, !.freeSlots = @ \ {s},
            !.jobIndex = @ \cup {<<r.id, s>>}, !.nextId = @ + 1]

AddJob(c, s, spec, options, now, g) ==
  LET r == NewRecord(c, s, spec, options)
      d == EnterJob(c, s, r)
  IN CASE options.startPaused -> d
       [] ~options.startPaused /\ ClockValid(c, now) ->
            PushDue(d, [x \in {s} |-> ComputeNextForJob(r, now)], g)
       [] OTHER -> IF s \in g THEN QueueScheduling(d, s, now, g) ELSE AddJobNoMemory(c)

RefreshAllSchedules(c, now, g) ==
  LET touched == {s \in Slots : Runnable(c.jobs[s]) /\ ~IsOneShot(c.jobs[s])}
      cleared(s) == [Unscheduled(c.jobs[s]) EXCEPT !.nextRunUtc = NullTime]
      refreshed(s) ==
        IF Busy(c.jobs[s])
        THEN [cleared(s) EXCEPT !.refreshPending = TRUE, !.queuedWhileRunning = FALSE]
        ELSE ComputeNextForJob(cleared(s), now)
  IN PushDue(c, [s \in touched |-> refreshed(s)], g)

--------------------------------------------------------------------------------
(* Dispatch and completion *)

Invocation(c, s) ==
  [jobId |-> c.jobs[s].id, generation |-> c.jobs[s].generation, slotIndex |-> s]

(* The due entry of a job that is paused, or busy and may not overlap. *)
SkipDue(c, s) ==
  LET r == c.jobs[s]
      keep == ~r.paused /\ r.overlap = "QueueOne"
  IN [c EXCEPT !.jobs[s] = [r EXCEPT !.hasNext = FALSE,
                                     !.queuedWhileRunning = r.queuedWhileRunning \/ keep]]

(* Mutants: a one-shot is primed like any other job; the next run is        *)
(* searched from the occurrence that is being run.                          *)
StartPrimesOneShot(c, s, deferred, g) ==
  LET r == [c.jobs[s] EXCEPT !.runningCount = @ + 1] IN
  PushDue(c, [x \in {s} |-> ComputeNextForJob(r, r.nextRunUtc + MinuteLen)], g)

StartFromSameMinute(c, s, deferred, g) ==
  LET r == [c.jobs[s] EXCEPT !.runningCount = @ + 1]
      next == IF IsOneShot(r) THEN [r EXCEPT !.hasNext = FALSE]
                              ELSE ComputeNextForJob(r, r.nextRunUtc)
  IN PushDue(c, [x \in {s} |-> next], g)

(* dispatchOne once an executor takes the invocation. *)
StartInvocation(c, s, deferred, g) ==
  LET r == [c.jobs[s] EXCEPT !.runningCount = @ + 1]
      last == IsOneShot(r) \/ (deferred /\ r.dispatch = "Async")
      next == IF last THEN [r EXCEPT !.hasNext = FALSE]
                      ELSE ComputeNextForJob(r, r.nextRunUtc + MinuteLen)
  IN PushDue(c, [x \in {s} |-> next], g)

(* dispatchOne when no executor takes it. *)
RetryLater(c, s, now, g) ==
  PushDue(c, [x \in {s} |-> [c.jobs[s] EXCEPT !.hasNext = TRUE,
                                              !.nextRunUtc = now + RetryDelay]], g)

(* Mutant: compares with the generation the slot will have next. *)
CurrentOffByOne(c, inv) ==
  LET r == c.jobs[inv.slotIndex] IN
  r.occupied /\ r.id = inv.jobId /\ r.generation = inv.generation + 1

(* handleEvent's test that a completion belongs to the job now in the slot. *)
Current(c, inv) ==
  LET r == c.jobs[inv.slotIndex] IN
  r.occupied /\ r.id = inv.jobId /\ r.generation = inv.generation

(* Mutant: the count is not taken back when a run is queued. *)
FinishedUnlessQueued(c, s) ==
  [c EXCEPT !.jobs[s].runningCount =
     IF @ > 0 /\ ~c.jobs[s].queuedWhileRunning THEN @ - 1 ELSE @]

(* The first half of handleCompletion. *)
Finished(c, s) ==
  [c EXCEPT !.jobs[s].runningCount = IF @ > 0 THEN @ - 1 ELSE @]

(* Whether handleCompletion goes on to the run that QueueOne kept back. *)
DeferredDue(c, s) ==
  LET r == c.jobs[s] IN
  Runnable(r) /\ r.queuedWhileRunning /\ r.runningCount = 0 /\ ~r.refreshPending

(* dispatchDeferredIfNeeded, up to its call of dispatchOne. *)
TakeDeferred(c, s) == [c EXCEPT !.jobs[s].queuedWhileRunning = FALSE]

(* The rest of handleCompletion when there is no such run. *)
SettleCompletion(c, s, now, g) ==
  LET r == c.jobs[s]
      idle == r.runningCount = 0
      unowed == ~r.refreshPending /\ ~r.queuedWhileRunning
  IN CASE ~r.occupied -> c
       [] r.occupied /\ r.canceled -> IF idle THEN RetireJobs(c, {s}, g) ELSE c
       [] Live(r) /\ idle /\ r.refreshPending ->
            QueueScheduling(
              [c EXCEPT !.jobs[s] = [@ EXCEPT !.refreshPending = FALSE, !.hasNext = FALSE,
                                              !.queuedWhileRunning = FALSE]], s, now, g)
       [] Live(r) /\ idle /\ unowed /\ ~r.hasNext /\ IsOneShot(r) ->
            RetireJobs(c, {s}, g)
       [] Live(r) /\ idle /\ unowed /\ ~r.hasNext /\ ~IsOneShot(r) /\ ~r.paused ->
            QueueScheduling(c, s, now, g)
       [] OTHER -> c

--------------------------------------------------------------------------------
(* Consistency of a job table *)

(* What is primed can be dispatched: the job may run, and the heap has the  *)
(* entry that validateDueEntry accepts for it.                              *)
PrimedSlot(c, s) ==
  LET r == c.jobs[s] IN r.hasNext => Runnable(r) /\ DueEntry(s, r) \in c.dueHeap

Primed(c) == \A s \in Slots : PrimedSlot(c, s)

Occupied(c) == {s \in Slots : c.jobs[s].occupied}

(* The index holds exactly the occupied slots, no two under one id, every   *)
(* id was handed out by addJob, and the free list holds only vacant slots.  *)
Consistent(c) ==
  /\ c.jobIndex = {<<c.jobs[s].id, s>> : s \in Occupied(c)}
  /\ \A s \in Occupied(c) :
       /\ c.jobs[s].id \in 1..(c.nextId - 1)
       /\ s \in c.allocated \ c.freeSlots
       /\ \A t \in Slots \ {s} : c.jobs[t].id # c.jobs[s].id
  /\ c.freeSlots \subseteq c.allocated

(* A vacant record carries no id: with the two above, and the type, what    *)
(* every method of the core preserves.                                      *)
VacantIsBlank(c) == \A s \in Slots \ Occupied(c) : c.jobs[s].id = 0

CoreInv(c) == c \in CoreState /\ Primed(c) /\ Consistent(c) /\ VacantIsBlank(c)
================================================================================
