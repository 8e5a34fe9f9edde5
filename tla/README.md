# A formal model of esp-scheduler

TLA+ modules that model ESPScheduler v2 (`src/src/esp_scheduler/`), the TLC runs that
check them on small instances, and theorems that TLAPS proves for every instance.

## 1. The system

ESPScheduler runs callbacks on an ESP32 at times given by schedules: cron-like fields in
local time, sun and moon events, or one UTC instant. It runs in *manual* mode, where the
application calls `tick()`, or in *background* mode, where a FreeRTOS task (the service)
does the work and API calls are commands sent to it.

| Component | State | Operations | Talks to |
|---|---|---|---|
| Scheduler core (`core/scheduler_core.cpp`) | `jobs_`, `freeSlots_`, `pendingSchedules_`, `jobIndex_`, `dueHeap_`, `nextId_`, the minimal valid time | addJob, cancelJob, pauseJob, resumeJob, cancelAll, refreshAllSchedules, dispatchDue, handleEvent | called by the API (manual) or the service; calls executors and the calculator |
| API (`scheduler.cpp`) | `started`, `draining`, `timeContextRefreshRequested`, last local day, executors, event queue | begin, end, tick and the job calls | core, executors, service, ESPDate (clock, NTP listener) |
| Commands (`service/scheduler_commands.*`, `executeBackgroundCommand`) | a heap object with a semaphore, an `abandoned_` flag and a result | send, wait with a timeout, abandon, execute, signal, delete | caller's task and service task share the object |
| Service (`service/scheduler_service.cpp`) | command queue, event queue, queue set, `stopRequested_`, `taskExited_` | run, drainCommands, drainEvents, stop | core, executors, callers |
| Executors (`executors/`) | worker queue, worker tasks, the shared runtime (`accepting`, `eventQueue`) | begin, submit, end, postCompletion | event queue |
| Due heap, containers (`core/due_heap.h`, `core/runtime_containers.h`) | array heap, open-addressing index, growing arrays | push, pop, set, get, remove | core |
| Calculator (`schedule/`) | none | validate, computeNext | ESPDate |
| v1 layer (`compat/`) | `trackedJobIds_`, `dedicatedTaskScratch_`, `workerExecutorId_` | the old API, with jobs looked up by index | API |

What is hard here:

- *re-entrancy*: an inline callback runs inside `dispatchOne` and may cancel its own job,
  add jobs, tick again or end the scheduler; `dispatchOne` then goes on with the slot number;
- *late results*: completions arrive through a bounded queue that drops what does not
  fit, after jobs were cancelled, paused, refreshed or replaced in their slot;
- *time*: the clock is invalid until SNTP sets it, then jumps; a full minute is its own
  next minute;
- *failing allocations* in the middle of every handler;
- *ownership* of a command between a caller that may time out and a service task that
  may be stopped or deleted at any point;
- *sleeping*: the service task sleeps on a queue set, of which it takes one handle while it
  empties both queues, until a time computed from a clock that may be set meanwhile;
- *shutdown*: `end()` destroys executors before the service that dispatches to them and an event
  queue that callbacks still post to, after waits that may all time out.

For the core the properties that make it correct are: the table, the index, the free list and
the heap describe the same jobs; `runningCount` counts exactly the invocations that are out;
the overlap policy holds; no runnable job waits for nothing; a cancelled id never runs again;
`tick()` returns. For commands: nobody touches a freed command, nobody frees it twice,
every call returns with a truthful answer. For the service: it wakes up in time and for every
message, and `end()` returns without pulling queues and executors from under the tasks that use them.
For heap, index and calculator: they implement their contracts. For the v1 layer: its index
names the right job although jobs end while it counts them.

## 2. Modules

| Module | Models |
|---|---|
| `SchedulerCore` | class `SchedulerCore`: one operator per method, from a state record to a state record; no variables |
| `ManualScheduler` | the API in manual mode, re-entrant callbacks, executors, event queue and clock, driving `SchedulerCore` |
| `SkipHistory` | `ManualScheduler` with a history of skipped occurrences |
| `CommandHandoff` | `executeBackgroundCommand`, `drainCommands` and `stop()`: who owns a command |
| `ServiceLoop` | the API in background mode: `run()` with its queues, its sleep, NTP syncs, calls from callbacks; composed of `ManualScheduler`'s dispatch and the command queue |
| `BackgroundEnd` | `end()` in background mode against service task, pool workers, dedicated tasks and a racing `addJob` |
| `IdMap`, `IdIndex` | what the core relies on in its job index, and the open-addressing table that implements it |
| `DueQueue`, `DueHeap` | what the core relies on in its due heap, and the array heap that implements it |
| `LocalTime` | ESPDate's local clock and calendar day, with one change forward and one back |
| `ScheduleCalculator` | field masks, validation and the searches for cron, sun and moon schedules |
| `V1Compat` | the v1 wrapper over a background scheduler |
| `SchedulerCore_proofs` | lemmas on the core's methods: what each does to the tables and to the runs of the jobs |
| `ManualScheduler_proofs` | theorems on `ManualScheduler`: the tables, then the runs |
| `CommandHandoff_proofs`, `ServiceLoop_proofs`, `BackgroundEnd_proofs`, `ScheduleCalculator_proofs` | theorems on the module they are named after |
| `Sequential_proofs` | theorems on `IdIndex`, `DueHeap` and `V1Compat` |
| `Counting` | lemmas on counting the places of a queue, or the tasks, that hold a value, and on least elements |
| `MCManual`, `MCSkip`, `MCHandoff`, `MCService`, `MCEnd`, `MCCalendar`, `MCSequential` | instances for TLC |

Operators under a comment that starts with "Mutant" are plausible bugs: replacing the definition
they stand above by one of them makes the named property fail. They are used nowhere else.

### SchedulerCore

The record `c` holds the fields of the class under their names. Some methods are one
operator with their common helper: `cancelJob` and `cancelAll` are `CancelSlots` on one
slot or all. A method that ends in `pushDue` rewrites records and gives them to `PushDue`, which
does what every caller does when a push fails. Dispatch is cut where the code hands control to
an executor: `StartInvocation` is what `dispatchOne` does when it is accepted,
`RetryLater` when it is not; `handleCompletion` is `Finished` followed by
`TakeDeferred` and a dispatch, or by `SettleCompletion`.

Abstractions: a schedule is a name with a set of occurrences (`Occurrences`), so that
the calculator is its contract, the first occurrence at or after the next full minute within
the search limit. `pendingSchedules_` and the heap are sets; entries of equal time come in any order.
The free list is a set, so a reused slot is any free one. `g` is the set of slots for which the
allocations of one handler succeed. Integers are unbounded (a `uint32_t` id or generation
and a `uint16_t` count would take years, or 65 536 parallel runs, to wrap).

### ManualScheduler

The caller's thread is a stack of frames. A loop frame is a position in `tick()`
(`Drain`, `Dispatch`, `Settle`), `refreshAllSchedules()` (`RefreshDrain`) or
`end(true)` (`EndWait`); a `Callback` frame is an inline callback with its invocation and the
tick's time. The application acts when the stack is empty or a callback is on top. One
iteration of a loop is one action, since a worker may post or the clock may move between two;
straight-line code is one action. `inflight` holds what executors have,
`events` the event queue, `lost` the invocations whose completion was dropped by a full queue or by `end()`.
External: the clock and `LocalTime` (ESPDate's local day).
`addJob`'s rollback after a failed allocation is its net effect (`AddJobNoMemory`): what it took is given back.

Not in the model: `tick(nowUtc)` with an arbitrary time (the clock's time is used, and the
clock may be set back by `SyncTimes`), a `begin()` that fails half-way, and
calls from two application threads at once (manual mode has no locking, so they are
the application's error).

### CommandHandoff

One call, one command. `pc` follows the caller through `executeBackgroundCommand`,
`step` the service through one command; in mode `stop` the same loop is `stop()`, which answers but does
not execute. The timeout may strike at any time; the step between the timed-out
`xSemaphoreTake` and `abandon()` is where the service may signal in vain. `ForceDelete` is the task
deleted by `stop()` in any state. `execute()` only sets the result: what it does to the core
is in `ServiceLoop`. A failed `new` is a stutter.

### ServiceLoop

The variables of `ManualScheduler` with the service's queues. `stack` is now the stack of the
service task: its bottom frame is the position in `run()` (`Commands`, `Events`, `Refresh`,
`Dispatch`, `Settle`, `Sleep`), above it an inline callback, above that `SelfWait`, a callback that
waits for the command it has sent to its own task. `ExecuteCommand` is one
command with the effect of its `execute()`; `HandleEvent` one event; the clock is
read (`ReadClock`) in a step of its own before the refresh flag is, as in the code. The queue set is
the number of its handles: `xQueueSelectFromSet` takes one, and the loop does not look at
which. `wait` is what is left of the sleep, the result of `nextWakeTicks`, whose conversion to ticks wraps
(`% TickWrap`). Its cap is `startOfDayLocal(addDays(now, 1))`, where `addDays` adds the same number
of seconds on every day and a local day is as long as the clock changes make it. A unit of time is a second, and so is `kIdlePollMs`.
An NTP sync is three steps: ESPDate sets the clock, the listener stores the flag, the listener
sends the wake-up (external: the first of them and the clock).

Left to the other modules: who frees a command (`CommandHandoff`), `activeInvocationCount_` and
the end (`BackgroundEnd`). `begin()` is the initial state.

### BackgroundEnd

`ender` follows `end()` from `draining = true` through `cancelAll`, the wait for running
jobs, the detachment of the runtime, `WorkerPoolExecutor::end`, the destruction of the executors and
`SchedulerService::stop` to the cleared runtime; every wait ends when its condition
holds or at any time before, as a timeout. `at` says where pool workers and dedicated tasks are:
`postCompletion` is split into the read of `accepting`, the test of `eventQueue` and the send, since
`eventQueue` is not atomic. `service` is the position of the service task in one turn of `run()`, with
`Resolve` (the executor is looked up) and `Submit` (it is used) apart. The job table is reduced to
`jobs` (something may be due), `deferred` (a QueueOne run is kept back) and `active`, the
invocations that are out; `published` is `activeInvocationCount_`, the copy that `end()` reads. An
`adder` task passes `addJob`'s check of `draining` at one time and sends its command at another.

Execution and signal of a command are one step here (`CommandHandoff` has them apart). Not modelled: a
call on a service that `stop()` has already destroyed, and `end()` called by an inline
callback on the service task itself.

### IdIndex and DueHeap

`IdIndex` is the table `entries_` with its probe sequence; the loops of `get`, `remove` and
`insertOrAssign` are "the first probe that ends the search", which is what they compute. The hash
keeps the low 16 bits of the factor, which decide for every capacity up to 2^16. Its contract
`IdMap` is a partial function. Each step of it names its call: `get` and `remove` of an id that is there find it,
`get` answers with the slot the last `set` gave to that id, and only a `set` that was refused memory may answer no.
The mapping reads the function off the occupied entries without probing and carries call and answer over, so that
a probe that stops too early or at another id's entry is no step of the contract. `DueHeap` has the sift loops of
`push` and `pop` as recursive functions and the array's growth, which may fail; its contract `DueQueue` is
a bag whose top is an entry that is due first and whose `push` fails only if it was refused memory, the mapping the
bag of the array's elements. These are the
contracts that `SchedulerCore` uses as a function and as a set with a minimum.

### ScheduleCalculator

Pure operators under their names in the code, and a job that is added at any time and then
run and rescheduled from a minute after its run, as `dispatchOne` does. External: the
calendar (on `LocalTime`), the times of sunrise, and the moon's
position, given as tables with gaps where ESPDate reports none. Angles and percentages are whole numbers, so that
floating-point rounding is left out. The two moon searches share one
operator, as they differ only in how a reading continues the one before and in the window.

### V1Compat

The scheduler behind the wrapper is a map of jobs that can end at any time, with a queue `late` of
commands whose callers timed out. A call of the wrapper is one action, but
`pruneTrackedJobs` and the indexed `getJobInfo` are one action per job they ask for, since jobs end
in between. `known` is a history of the ids the application was given. The wrapper has no
lock, so one application task uses it; `tick`, `setMinValid` and `computeNextOccurrence` pass on
and have no state.

## 3. Runs

| Run | Question | Result |
|---|---|---|
| `manual_calls` | one slot, two jobs after each other, all policies, async and inline, refused submits, full event queue, nested ticks, the clock set back, restarts | eight properties hold, 2.0 million states |
| `manual_nested` | two inline jobs, callbacks that call everything, any allocation failing | three properties hold, 0.4 million states |
| `manual_live` | does it all terminate and make progress | four liveness properties hold |
| `handoff` | two commands, two places, timeouts, stop, forced deletion | five invariants and three liveness properties hold |
| `service` | the service loop with async and inline jobs, full queues, NTP syncs at any point, calls from callbacks | three invariants and one liveness property hold, 79 thousand states |
| `shutdown` | `end(true)` and `end(false)`, every wait timing out or not, queues of one place | three invariants and one liveness property hold, 0.8 million states |
| `sequential` | index, heap, calculator and v1 wrapper, each by itself | two refinements and seven invariants hold, 0.6 million states |
| `clock_catch_up` | is a job added before the clock is valid run only for valid times | **violated** |
| `push_retry` | is a job whose push failed tried again on the next pass | **violated** |
| `skip_replay` | does a skipped occurrence stay skipped | **violated** |
| `daylight` | are cron fields compared with the local clock | **violated** |
| `stale_refresh` | does the tick after an NTP sync refresh from the new time | **violated** |

What the properties say:

- `RunningCountExact`, `NoOverlap`, `QueuedRunIsOwed`, `OneShotRunsOnce`: the number of
  invocations, how they overlap, when a queued run may be pending, that a one-shot runs once;
- `NoStaleInvocation`, `DeadStaysDead`: the slot of a running callback is not vacated or
  reused, so the inline path is right not to check; a cancelled id never comes back;
- `PrimedIsDispatchable`, `TableConsistent`, `NoSlotLeak`, `NotStranded`: the tables agree,
  what has a next run will be dispatched, slots come back, and no idle runnable job is forgotten;
- `TickReturns`, `JobGetsPrimed`, `RunsComplete`, `DueIsServed`: liveness;
- `NoUseAfterFree`, `OneOwnerFrees`, `AnswerIsTrue`, `LeaksOnlyOnTimeout`, `CallsReturn`,
  `AcceptedIsExecuted`, `AbandonedIsFreed`: the life of a command. The hand-off is *not* leak-free: a
  caller that calls `abandon()` after the service has looked at `abandoned()` leaves a command
  that nobody frees. `LeaksOnlyOnTimeout` says that no other answer leaks, `AbandonedIsFreed` that an
  abandonment the service can see does not either;
- `SleepsOnlyWhenDrained`, `RefreshIsNotSleptThrough`, `NeverOversleeps`,
  `DueIsServedInBackground`: the task is woken for every message although handles and messages are
  taken separately and a full set drops handles; for every refresh although the wake-up is given
  up on a full queue; for every due time and local midnight, late by at most the time since it read the
  clock (midnight with an exception, see below); and a callback that waits for its own task delays due jobs, but no more;
- `EndDrains`, `NoUseOfDeadExecutor`, `PoolPostsToLiveQueue`, `EndReturns`: what `end()` may rely on.
  The first two have the condition that `cancelAll` succeeded and that no `addJob` which passed the
  `draining` check earlier was executed after it; see the gaps below;
- `ImplementsIdMap`, `CountsExact`, `ProbesStayShort`, `ImplementsDueQueue`: index and heap do
  what `SchedulerCore` takes for granted, and tombstones never fill the table;
- `CronRunsEveryMatch`, `SunRunsEveryDay`, `MoonRunsAtCrossing`: from one run to the next no
  occurrence is left out or repeated, compared with a definition by the calendar and the moon's
  path rather than by a search. `CronRunsEveryMatch` leaves out searches with a clock change on a day between the
  time searched from and the run, for which the `daylight` run shows that it fails; `SunRunsEveryDay` leaves out positive offsets that carry a run past
  local midnight: the search begins with the day of the time searched from, so such a run, which belongs to the day
  before, is missed by a search that starts after midnight;
- `LookupNamesTheIndexed`, `JobsAreAsRequested`: the v1 index lookup counts correctly while jobs end, and
  a job has the task configuration of its own `addJob` even if that call timed out and the shared scratch
  object was overwritten.

What the five violations show:

1. **Catch-up** (`scheduler_core.cpp:114`). A recurring job added while the clock is
   invalid is queued with that time. When the clock becomes valid, `drainPendingSchedules` computes
   its next run from there and `dispatchDue` runs it for every occurrence since, the
   storm the guard is documented to prevent (CHANGELOG.md:53). A refresh in the same tick does not
   help: it clears the flag, but the slot stays listed.
2. **Failed push** (`scheduler_core.cpp:115`). A failed push clears `hasNext`, but the slot
   is off the list: nothing retries it "on the next dispatch pass" (CHANGELOG.md:21).
3. **Skip** (`scheduler_core.cpp:523`). A completion handled in the full minute of a skipped
   occurrence schedules that same occurrence; the test at test_esp_scheduler.cpp:508 expects it
   not to run.
4. **Daylight saving** (`schedule_calculator.cpp:122`). Hour and minute are the minutes since local
   midnight, not what the local clock shows. On the day the clocks go forward a daily job in
   the last hour is not run, although "recurring schedules are evaluated in local time"
   (README.md:195).
5. **Stale refresh** (`scheduler.cpp:163`). `tick()` reads the clock, then takes the refresh flag.
   A sync in between is used up with the time from before it; after a backward sync the
   job waits for the old time to come again (README.md:198 promises the refresh on the next `tick()`). The
   same outcome has a second cause: a job still listed in `pendingSchedules_` with its old
   `scheduleFromUtc` is recomputed from it right after the refresh. The service loop has the same order.

One more disagreement has no run of its own; the condition `ShortDayAhead` of `NeverOversleeps` stands for it. The
service "caps sleep to the next local midnight" (README.md:198), but `startOfDayLocal(addDays(now, 1))`
(`scheduler_service.cpp:26`) is the midnight before the time 24 hours from now. In the last hour before a day of 23
hours that time is already in the day after, and the task sleeps past the midnight it should wake at; without the
condition TLC finds this in the `service` run (clock at 3, next midnight at 4, a sleep until 6). In the first hour of a day of 25
hours the midnight is the one just past: the task then does not sleep but polls the whole
hour with a wait of 0. No property excludes that: it costs only the time of tasks of lower priority, which the
fairness below takes to run nevertheless.

Gaps that the conditions of the shutdown properties stand for (each was seen to be needed: without it
TLC finds a counterexample). None of these contradicts a promise of the repository:

- when `cancelAll` timed out, or an `addJob` that had passed the `draining` check is executed after it,
  the service can dispatch again: `end(true)` may then go on with callbacks active, and the service task
  may submit to an executor that `stopExecutors` has destroyed;
- nobody waits for dedicated tasks (and an ESPWorker's): one that outlasts `end()` can send to a deleted event
  queue;
- in `end(false)` a pool worker may find `eventQueue` set in its test and `nullptr` in its send.

### Bounds

A minute has two seconds (`MinuteLen = 2`) and a local day one minute (`DayLen = 2`), so that every call can
fall on a full minute or between two, and midnight passes within a run. In `manual_calls`, `manual_nested` and `manual_live`
clocks go forward by a second (`Shift = 1`) at 1 and back at 2: a day of one second and a day of three. The
other manual runs have no change.
`MaxTime` 2 or 3 gives two occurrences, which is what overlap, skip, retry and
rescheduling need; `EveryMinute` has occurrences beyond it, so that jobs stay primed. In
`manual_live` it is 3: when the bounded clock stops for ever on a full minute, a
job refreshed in that minute would be due again for ever, which is an effect of the bound.
`MaxId = 2` lets a slot be reused by another job. `MaxOutstanding = 2` allows
parallel runs; an executor at that bound refuses, like one with a full queue.
`MaxNesting = 2` allows a `tick()` inside a callback inside a `tick()`. `EventQueueDepth = 1` makes the queue
overflow. `SearchLen` is longer than the distance of two occurrences.

`service`: a day of four seconds, of which clocks skip two at 5 and repeat two at 8, so that the next day, from 4, lasts two
seconds and the one after it, from 6, lasts six. The clock ticks to `MaxTime = 4` and syncs set it to 2, 5 or 6: before the
short day, in it, and in the first hour of the long one. One slot, one
job that is async with QueueOne or inline; command and event queues of one place, so that the set holds
two handles and every queue overflows; `MaxCalls = 2` API calls or syncs, enough for a call (the job) and a
sync, or a call from its callback; `TickWrap = 4` is no more than a day, so that the
conversion wraps. `shutdown`: two workers (one may take the other's sentinel or
starve), one dedicated task, all queues of one place, `MaxRuns = 2` invocations: one
out and one kept back. `sequential`: four ids that collide in tables of 4 and of 8 entries and whose probes wrap round, capacities 4 to 16; six heap
entries, three levels, with equal times; a year of eight days with two clock changes, 114 schedules (some invalid)
searched from every second; three jobs and two failing calls for the wrapper. `stale_refresh` has one
inline job and one sync to second 1.

`manual_nested` uses symmetry over its two slots: no slot is named anywhere, and its
properties quantify over all of them. It is not used with liveness.

Deadlock is checked in the manual runs. `handoff` stops when every call has returned and the queue is
closed, `shutdown` when `end()` has returned and the callbacks are done, and in
`sequential` a search can find nothing; `service` comes to rest when the bounded clock has stopped and no wait is left.
There it is not checked.

### Fairness

`ManualScheduler!Fairness`: the thread goes on with the call it is in (`WF` of `Loops`);
an inline callback returns even if it could call the API for ever (`SF` of `CallbackReturn`);
the application's `loop()` comes back to `tick()` (`SF` of `LoopTick`: strong, since other calls disable
it from time to time), which manual mode asks of its user; callbacks on workers return
(`WF` of `WorkerDone`); time passes. Nothing is assumed of the other API calls.
`RunsComplete` excludes completions that were lost: a job whose completion
was dropped stays "running" for ever.

`CommandHandoff!Fairness`: the service task is scheduled, a caller that has started goes
on, and a wait ends in a signal or a timeout, as `xSemaphoreTake` guarantees.

`ServiceLoop!ServiceFairness`: the service task is scheduled (`WF` of `Run`, in which an inline
callback returns and a wait times out), callbacks on workers return, time passes, and
an NTP listener that has begun finishes. For workers of a lower priority on the same core this is an assumption
in the hour in which the service polls. API calls and syncs need not happen.

`BackgroundEnd!EndSpec`: only the task inside `end()` is scheduled. `EndReturns` holds without
any fairness of the service, the workers or the callbacks, because every wait of `end()` has a deadline.

## 4. Theorems

All hold for every value of the constants that satisfies the modules' `ASSUME`s (any
number of slots, jobs, calls, queue places; with or without failing allocations). The assumptions
are types and bounds: a queue has at least one place, a day has a positive length, the
workers and tasks of `BackgroundEnd` are finitely many, occurrences and sync times are times, the first
capacity of the index is at least 2 (it is 8), in the calculator clocks change on a full minute, in the service loop clocks that go
forward skip no time of two days, a sunrise falls on its day and a
reading of the moon on the circle.

| Theorem | Property | Module of the proof |
|---|---|---|
| `TypeCorrect`, `PrimedCorrect`, `TableCorrect` | `TypeOK`, `PrimedIsDispatchable`, `TableConsistent` | `ManualScheduler_proofs` |
| `CountsCorrect`, `InvocationsCurrent`, `OverlapExcluded`, `QueuedRunsOwed` | `RunningCountExact`, `NoStaleInvocation`, `NoOverlap`, `QueuedRunIsOwed` | `ManualScheduler_proofs` |
| `SlotsReturned`, `NoJobStranded` | `NoSlotLeak`, `NotStranded` | `ManualScheduler_proofs` |
| `OneShotsRunOnce`, `DeadIsFinal` (action properties) | `OneShotRunsOnce`, `DeadStaysDead` | `ManualScheduler_proofs` |
| `TypeCorrect`, `MemorySafe`, `SingleOwner`, `AnswerHonest`, `LeaksBounded` | `TypeOK`, `NoUseAfterFree`, `OneOwnerFrees`, `AnswerIsTrue`, `LeaksOnlyOnTimeout` | `CommandHandoff_proofs` |
| `SleepCorrect`, `RefreshCorrect`, `WakeUpCorrect` | `SleepsOnlyWhenDrained`, `RefreshIsNotSleptThrough`, `NeverOversleeps` | `ServiceLoop_proofs` |
| `EndDrainsCorrect`, `PoolPostsToLiveQueueCorrect`, `NoUseOfDeadExecutorCorrect` | `EndDrains`, `PoolPostsToLiveQueue`, `NoUseOfDeadExecutor` | `BackgroundEnd_proofs` |
| `LookupCorrect`, `RequestsHonoured` | `LookupNamesTheIndexed`, `JobsAreAsRequested` | `Sequential_proofs` |
| `IndexCounts`, `IndexProbes`, `SetFindsRoom` | `CountsExact`, `ProbesStayShort`, no run's property | `Sequential_proofs` |
| `IndexRefinesMap`, `HeapRefinesQueue` (refinements) | `ImplementsIdMap`, `ImplementsDueQueue` | `Sequential_proofs` |
| `CronSearches`, `SunSearches`, `MoonSearches` | `CronRunsEveryMatch`, `SunRunsEveryDay` (under `Calm`), `MoonRunsAtCrossing` | `ScheduleCalculator_proofs` |

*ManualScheduler* - `TypeCorrect`, `PrimedCorrect`, `TableCorrect`: the state is well formed,
what is primed is runnable and in the heap, and table, index and free list
agree. The inductive invariant is `IInv == TypeOK /\ CoreInv(core)`. `CoreInv` adds one fact to the two
properties, `VacantIsBlank`: a vacant record has no id. Without it `retireJob`, which
removes an id from the index, could remove another job's entry. `SchedulerCore_proofs` shows that
each method of the core preserves `CoreInv`. Between `popDue` and the
record's rewrite the invariant is broken for one slot; the lemmas on dispatch
start from `CoreInvBut(c, s)`, the invariant but for slot `s`. `ManualScheduler_proofs` then
has one step per action: the frames and bags are typed, and the job table follows from the lemmas.

*The runs of the jobs*. None of these properties is inductive. The invariant
`RInv` adds to `IInv`:

- `Steady`, about records alone: `RunsInv` (a deferred run belongs to a runnable QueueOne job that
  has a run out, a one-shot that runs is not primed, only AllowParallel runs twice at a time, a vacant
  record runs nothing, a pending flag has its slot listed) and, when allocations succeed, no leaked
  slot and, if `EverOccurring` holds, no idle runnable job that is neither primed nor listed;
- `AccountedWorld`, which ties records to what is out: for every job `runningCount` is the number of
  its invocations in executors, on the stack, in the event queue and lost, and every
  invocation that is out names the generation its slot has.

Each method of the core is shown once to be `Quiet` (it starts and completes nothing), to start one
invocation or to complete one; each action is then quiet or moves one invocation from
one place to another. The number of invocations in a bag is the cardinality of its copies
(`CopiesOf`), in a stack or queue that of its places: cardinalities can be reasoned about by
bijections, for which no induction is needed. That `runningCount` is exact is
what makes the rest true: a slot is reused only at count 0, so an inline callback's slot is still its own
after the callback whatever that called.

`NoJobStranded` has one hypothesis, `EverOccurring`: every recurring schedule has an occurrence within
the search limit after any time. Without it a job rightly has no next run. The schedules of the
runs occur beyond `MaxTime`, so that it holds for every time they reach. `NotStranded` itself is
about executions without failing allocations: with them a job can be stranded, as `push_retry` shows.

*CommandHandoff* - `TypeCorrect`, `MemorySafe`, `SingleOwner`, `AnswerHonest`, `LeaksBounded`.
The inductive invariant adds to the types: `ServiceInv` (what the service holds is not in the
queue, no command is queued twice, a decision to delete was taken on a command that
*is* abandoned, which stays so), `CallerInv` (before the send, the service does not have the command;
while the caller waits it is alive) and `OwnerInv` (what the service has is alive and
unsignaled; what it left is signaled, unless the service was stopped). The argument
for safety is the comment in the code, "must decide before signal()": before the signal
the caller cannot free the command, and after it the service touches it only if it saw `abandoned_`,
after which the caller never does.

*ServiceLoop* - `SleepCorrect`, `RefreshCorrect`, `WakeUpCorrect` from
`SInv == ServiceTypeOK /\ Notified /\ OnTime`. `Notified` says for each place of `run()` which queues the loop has passed:
what is in one of those now came after the pass and has left a handle. It speaks of the loop's place,
the bottom frame, and not of the top of the stack, since inline callbacks wait and call above
it. A request to refresh is covered the same way from the moment the flag is taken; a listener that finds the
command queue full relies on the messages in it, which is why the first two parts are needed for the third.
`OnTime` says that a task with no handle left and no sync under way goes by a clock that was read at or before the
present time. A clock set back in between breaks that, but then the refresh was
requested and the wake-up either left a handle or found one. `WaitTicksBounds` is the lemma on
`nextWakeTicks`: the top valid heap entry is no later than any primed job's next run (by `CoreInv`), a conversion to ticks
that wraps round only shortens the sleep. For midnight, `NextMidnight` shows that `startOfDayLocal(addDays(now, 1))` is no later than
any time of a later local day, if the time a day from now is in today or tomorrow (`~ShortDayAhead`): a day cannot be
reached before its start (`DayReached`), and that needs clocks that, in going forward, skip no midnight. `ServiceTypeOK` contains `CoreInv(core)`, so the tables are in order
in background mode too, by the same lemmas.

*BackgroundEnd* - the invariant `EndInv` needs the balance `Accounted`: items in the pool's queue, callbacks that
run or are being posted, events and the inline callback together are no more than `active` (less after a dropped completion). With
`CountStored` (after `end()`'s `cancelAll` the published count is never too low) a 0 that `end()` reads is a
0. `Cancelled` says that nothing is left to dispatch once `cancelAll` is answered and no late `addJob` came; `QueueOutlives` where the
event queue and its handle are still there.

*V1Compat* - `CompatInv`: the list is ascending and complete (`ListIsComplete`), a prune has every job that is left in
what it has taken over or has still to ask for (`PruneIsComplete`), and in the second pass `currentIndex` is at
least the number of passed jobs that are still there and at most the number of earlier jobs that were
(`CountIsBetween`). It rests on ids never being given twice. `RequestsHonoured` needs that queued commands, too, hold what was asked for.

*IdIndex* - `IndexCounts`, `IndexProbes`, `IndexRefinesMap`, `SetFindsRoom` from
`IndexInv == TableOK(index) /\ Sparse(index) /\ index.capacity # 1`. `TableOK` says that no id has two entries, that the
probes for an id that is in the table meet no empty entry before its own, so that the search for it does not end early (`remove` keeps this since it leaves a
tombstone, `insertOrAssign` since it reuses the first one), and that the counters are exact. `Sparse` is
`ProbesStayShort` on the counters; with capacity 1 it could not hold. `rehash` is a loop of insertions: after `n` rounds
the new table has what the first `n` entries of the old one held (`Carried`). Of the hash the proofs use only that it
lies in the table. `SetFindsRoom` says that both insertions of `set()`, that of a rehash
and its own, find an entry: only the allocation can fail, and the branch of `rehash` that restores the old table
(`runtime_containers.h:444`) is never taken.

*DueHeap* - `HeapRefinesQueue` from `HeapInv`: no parent is due after its children (`InOrder`), and the last
`top()` answered with the root. Both sift loops are one idea, an entry that moves along a
path of positions and shifts those on it by one: such a move keeps the number of copies of every entry (`Kept`),
whichever way it goes. Upwards the heap is in order afterwards because what lies below a position the entry may
take is due no earlier (`MayRise`); downwards because what is moved up was the earlier child (`Sunk`). That the
root is due first is the chain of parents of any place.

*ScheduleCalculator* - `CronSearches`, `MoonSearches`, `SunSearches`. The invariants (`Searched`, `MoonSearched`,
`SunSearched`) say that `next` is what the search from `from` finds; the work is to show that this is the
first time the calendar or the moon's path names. For cron: the minutes since midnight are what the clock shows on a
day without a change, and `setTimeOfDayLocal` gives the minute back that was tested. For the moon: the readings that `unwrapAngle`
continues are those of the path plus full turns, and these cancel in the comparison with the window. For the sun: adding
whole days to the first midnight names every day once, and a run of an earlier day is not due after one of a later.
`SunSearches` has the hypothesis `Calm`: no clock change near the
time searched from, nor until the day after the first day with a due run. Without it `SunRunsEveryDay` is false for
odd values of the constants (a change within an offset of midnight, a summer of less than an hour);
the run has clock changes in the middle of days, and there TLC finds it true on the days of a change as well.

*Recursion.* The loop of `rehash`, the sifts and the moon's readings are recursive functions. They are shown to exist first, on
a domain where each value depends on smaller ones, and what they compute is then proved by the least
counterexample: a set of natural numbers that is not empty has a least element (`LeastOf` in `Counting`).

Only model-checked:

- all liveness (`TickReturns`, `JobGetsPrimed`, `RunsComplete`, `DueIsServed`, `CallsReturn`,
  `AcceptedIsExecuted`, `AbandonedIsFreed`, `DueIsServedInBackground`, `EndReturns`): out of the
  prover's reach, as is `ENABLED`;
- `SunRunsEveryDay` on days near a clock change.

## 5. Not modelled, and what is left

Not modelled:

- the astronomy of sun and moon (floating point, in ESPDate) and time zones other than one change
  forward and back (ESPDate);
- task creation and PSRAM placement (`task_support.h`, `scheduler_allocator.h`) and strings and moves
  of the containers: calls into the platform, without a state of the scheduler;
- a `begin()` that fails half-way, `registerExecutor` (the executors are a constant) and the
  pool's `begin()`, which writes to a context its worker may have freed; nothing in the code orders the
  two, so there is no property to state;
- the last instructions of a task after it has announced its exit, and a caller's `JobInfo` that a late
  `getJobInfo` command writes to: both are windows every run of the code has;
- calls from two application threads in manual mode or through the v1 wrapper, neither of which has a lock.

Every safety property that a passing run checks is stated by a theorem; what is left to TLC is listed in section 4.
