------------------------------ MODULE ServiceLoop ------------------------------
(***************************************************************************)
(* ESPScheduler in background mode while it is started: the loop of the    *)
(* service task (SchedulerService::run), which owns the job table, the     *)
(* command queue that API calls go through, the event queue, the queue set *)
(* on which the task sleeps, and the NTP listener.                         *)
(*                                                                         *)
(* The job table and its dispatch are those of ManualScheduler; stack is   *)
(* here the stack of the service task, whose bottom frame is the loop.     *)
(* How a command is handed over and freed is CommandHandoff's subject, how *)
(* the service is stopped BackgroundEnd's.  A unit of time is a second.    *)
(***************************************************************************)
EXTENDS ManualScheduler

CONSTANTS
  CommandQueueDepth,  \* config.service.commandQueueDepth
  TickWrap,           \* seconds after which pdMS_TO_TICKS wraps round
  MaxCalls            \* bound: API calls and NTP syncs

(* Clocks that go forward skip no time of two days. *)
ASSUME ServiceAssumption ==
  /\ CommandQueueDepth \in Nat \ {0} /\ TickWrap \in Nat \ {0} /\ MaxCalls \in Nat
  /\ (SummerStart % DayLen) + Shift <= DayLen

VARIABLES
  commands,  \* commandQueue_
  handles,   \* entries of queueSet_
  wait,      \* what is left of the sleep
  lag,       \* time from reading the clock to going to sleep
  sync,      \* what an NTP sync has done: "Idle", "ClockSet", "Requested"
  calls      \* API calls and syncs so far

serviceVars == <<commands, handles, wait, lag, sync, calls>>
allVars     == <<vars, serviceVars>>

IdlePoll == 1  \* kIdlePollMs
Wake     == [op |-> "Wake"]

ServiceInit ==
  /\ \E m \in MinValids : core = EmptyCore(m)
  /\ started = TRUE
  /\ clock = 0
  /\ refreshRequested = FALSE
  /\ lastDay = NoDay
  /\ stack = <<[at |-> "Commands", now |-> 0]>>
  /\ inflight = EmptyBag /\ events = <<>> /\ lost = EmptyBag
  /\ commands = <<>> /\ handles = 0
  /\ wait = 0 /\ lag = 0
  /\ sync = "Idle"
  /\ calls = 0

(* A queue that belongs to the set adds its handle with every send; a full  *)
(* set takes no more.                                                       *)
Notify == handles' = Min({handles + 1, CommandQueueDepth + EventQueueDepth})

--------------------------------------------------------------------------------
(* The other tasks *)

(* The calls that change something; jobCount and getJobInfo do not. *)
AppCommands ==
  {[op |-> "Add", spec |-> spec, options |-> options] :
     spec \in Schedules, options \in {o \in Options : o.dispatch = "Async" => o.executorId \in Executors}}
  \cup [op : {"Cancel", "Pause", "Resume"}, id : 1..MaxId]
  \cup [op : {"CancelAll", "Refresh"}]
  \cup [op : {"SetMinValid"}, min : MinValids]

Enqueue(command) ==
  /\ Len(commands) < CommandQueueDepth
  /\ commands' = Append(commands, command)
  /\ Notify

(* An application task makes a call; with the queue full it gets QueueFull. *)
ApiCall ==
  /\ calls < MaxCalls
  /\ calls' = calls + 1
  /\ \E command \in AppCommands : Enqueue(command)
  /\ UNCHANGED <<vars, wait, lag, sync>>

WorkerPosts ==
  /\ WorkerDone
  /\ IF events' # events THEN Notify ELSE UNCHANGED handles
  /\ UNCHANGED <<commands, wait, lag, sync, calls>>

(* The clock goes on, and with it the sleep. *)
TimePasses ==
  /\ clock < MaxTime \/ wait > 0
  /\ clock' = IF clock < MaxTime THEN clock + 1 ELSE clock
  /\ wait' = IF wait > 0 THEN wait - 1 ELSE 0
  /\ UNCHANGED <<core, started, refreshRequested, lastDay, stack, inflight, events, lost>>
  /\ UNCHANGED <<commands, handles, lag, sync, calls>>

(* ESPDate sets the clock, then calls the listener: first the request, then *)
(* the wake-up, which is given up when the queue is full.                   *)
NtpSetsClock ==
  /\ sync = "Idle"
  /\ calls < MaxCalls
  /\ calls' = calls + 1
  /\ \E t \in SyncTimes : t # clock /\ clock' = t
  /\ sync' = "ClockSet"
  /\ UNCHANGED <<core, started, refreshRequested, lastDay, stack, inflight, events, lost>>
  /\ UNCHANGED <<commands, handles, wait, lag>>

NtpRequests ==
  /\ sync = "ClockSet"
  /\ refreshRequested' = TRUE
  /\ sync' = "Requested"
  /\ UNCHANGED <<core, started, clock, lastDay, stack, inflight, events, lost>>
  /\ UNCHANGED <<commands, handles, wait, lag, calls>>

(* Mutant: the service is not woken. *)
NtpWakesNobody ==
  /\ sync = "Requested"
  /\ sync' = "Idle"
  /\ UNCHANGED <<vars, commands, handles, wait, lag, calls>>

NtpWakes ==
  /\ sync = "Requested"
  /\ IF Len(commands) < CommandQueueDepth THEN Enqueue(Wake) ELSE UNCHANGED <<commands, handles>>
  /\ sync' = "Idle"
  /\ UNCHANGED <<vars, wait, lag, calls>>

--------------------------------------------------------------------------------
(* drainCommands and drainEvents *)

(* execute() of the command on the job table; NotFound changes nothing. *)
Execute(command, g) ==
  CASE command.op = "Add" ->
         IF core.nextId > MaxId \/ AddSlots(core) = {} THEN {core}
         ELSE {AddJob(core, s, command.spec, command.options, clock, g) : s \in AddSlots(core)}
    [] command.op = "Cancel" -> {CancelJob(core, s, g) : s \in FindJobSlot(core, command.id)}
    [] command.op = "Pause" -> {PauseJob(core, s) : s \in FindJobSlot(core, command.id)}
    [] command.op = "Resume" -> {ResumeJob(core, s, clock, g) : s \in FindJobSlot(core, command.id)}
    [] command.op = "CancelAll" -> {CancelAll(core, g)}
    [] command.op = "Refresh" -> {RefreshAllSchedules(core, clock, g)}
    [] command.op = "SetMinValid" -> {[core EXCEPT !.minValid = command.min]}
    [] command.op = "Wake" -> {core}

ExecuteCommand ==
  /\ At("Commands") /\ commands # <<>>
  /\ commands' = Tail(commands)
  /\ \E g \in Grants : core' \in IF Execute(Head(commands), g) = {} THEN {core}
                                 ELSE Execute(Head(commands), g)
  /\ UNCHANGED <<started, clock, refreshRequested, lastDay, stack, inflight, events, lost>>
  /\ UNCHANGED <<handles, wait, lag, sync, calls>>

CommandsDrained ==
  /\ At("Commands") /\ commands = <<>>
  /\ Goto("Events")
  /\ UNCHANGED <<core, started, clock, refreshRequested, lastDay, inflight, events, lost>>
  /\ UNCHANGED serviceVars

HandleEvent ==
  /\ At("Events") /\ events # <<>>
  /\ events' = Tail(events)
  /\ LET inv == Head(events) IN
     IF Current(core, inv)
     THEN \E g \in Grants : HandleCompletion(inv.slotIndex, clock, g, stack)
     ELSE UNCHANGED <<core, stack, inflight>>
  /\ UNCHANGED <<started, clock, refreshRequested, lastDay, lost>>
  /\ UNCHANGED serviceVars

--------------------------------------------------------------------------------
(* The rest of the loop *)

ReadClock ==
  /\ At("Events") /\ events = <<>>
  /\ stack' = Append(Below, [at |-> "Refresh", now |-> clock])
  /\ UNCHANGED <<core, started, clock, refreshRequested, lastDay, inflight, events, lost>>
  /\ UNCHANGED serviceVars

(* refreshTimeContextIfNeeded, then dispatchDue up to its loop. *)
RefreshTimeContextIfNeeded ==
  /\ At("Refresh")
  /\ LET now == Top.now
         refresh == refreshRequested \/ (lastDay # NoDay /\ lastDay # StartOfDayLocal(now))
     IN /\ refreshRequested' = FALSE
        /\ lastDay' = StartOfDayLocal(now)
        /\ \E g \in Grants, h \in Grants :
           \E c \in {IF refresh THEN RefreshAllSchedules(core, now, g) ELSE core} :
             core' = DrainPendingSchedules(c, now, h)
        /\ IF ClockValid(core, now) THEN Goto("Dispatch") ELSE Goto("Settle")
  /\ UNCHANGED <<started, clock, inflight, events, lost>>
  /\ UNCHANGED serviceVars

(* The loop of dispatchDue, and the inline callbacks it calls. *)
Dispatching == (DispatchDue \/ CallbackReturn) /\ UNCHANGED serviceVars

(* Mutant: until midnight by winter time, all the year round. *)
WaitTicksWinterTime(c, now) ==
  IF ~ClockValid(c, now) THEN IdlePoll
  ELSE LET dues == {e.nextEpoch : e \in TopEntries(c)}
           wake == Min(dues \cup {(AddDays(now, 1) \div DayLen) * DayLen})
       IN IF wake <= now THEN 0 ELSE (wake - now) % TickWrap

(* nextWakeTicks: until the next due job or the next local midnight. *)
WaitTicks(c, now) ==
  IF ~ClockValid(c, now) THEN IdlePoll
  ELSE LET dues == {e.nextEpoch : e \in TopEntries(c)}
           wake == Min(dues \cup {StartOfDayLocal(AddDays(now, 1))})
       IN IF wake <= now THEN 0 ELSE (wake - now) % TickWrap

(* nextDueEpoch drops the stale entries on top of the heap. *)
GoToSleep ==
  /\ At("Settle")
  /\ core' = IF ClockValid(core, Top.now) THEN PruneInvalidDueEntries(core) ELSE core
  /\ wait' = WaitTicks(core', Top.now)
  /\ lag' = IF clock > Top.now THEN clock - Top.now ELSE 0
  /\ Goto("Sleep")
  /\ UNCHANGED <<started, clock, refreshRequested, lastDay, inflight, events, lost>>
  /\ UNCHANGED <<commands, handles, sync, calls>>

(* Mutant: only the event queue is drained after a wake-up. *)
WakeUpToEvents ==
  /\ At("Sleep")
  /\ handles > 0 \/ wait = 0
  /\ handles' = IF handles > 0 THEN handles - 1 ELSE 0
  /\ wait' = 0 /\ lag' = 0
  /\ stack' = <<[at |-> "Events", now |-> 0]>>
  /\ UNCHANGED <<core, started, clock, refreshRequested, lastDay, inflight, events, lost>>
  /\ UNCHANGED <<commands, sync, calls>>

(* xQueueSelectFromSet takes one handle, or times out; the queue it names   *)
(* is not looked at.                                                        *)
WakeUp ==
  /\ At("Sleep")
  /\ handles > 0 \/ wait = 0
  /\ handles' = IF handles > 0 THEN handles - 1 ELSE 0
  /\ wait' = 0 /\ lag' = 0
  /\ stack' = <<[at |-> "Commands", now |-> 0]>>
  /\ UNCHANGED <<core, started, clock, refreshRequested, lastDay, inflight, events, lost>>
  /\ UNCHANGED <<commands, sync, calls>>

--------------------------------------------------------------------------------
(* An inline callback makes an API call: it waits for the task it runs on,  *)
(* until the control timeout.                                               *)

CallFromCallback ==
  /\ At("Callback")
  /\ calls < MaxCalls
  /\ calls' = calls + 1
  /\ \E command \in AppCommands : Enqueue(command)
  /\ stack' = Append(stack, [at |-> "SelfWait", now |-> 0])
  /\ UNCHANGED <<core, started, clock, refreshRequested, lastDay, inflight, events, lost>>
  /\ UNCHANGED <<wait, lag, sync>>

(* Mutant: the wait has no timeout. *)
CallAnswered ==
  /\ At("SelfWait") /\ commands = <<>>
  /\ stack' = Below
  /\ UNCHANGED <<core, started, clock, refreshRequested, lastDay, inflight, events, lost>>
  /\ UNCHANGED serviceVars

CallTimesOut ==
  /\ At("SelfWait")
  /\ stack' = Below
  /\ UNCHANGED <<core, started, clock, refreshRequested, lastDay, inflight, events, lost>>
  /\ UNCHANGED serviceVars

OtherTasks == ApiCall \/ WorkerPosts \/ TimePasses \/ NtpSetsClock \/ NtpRequests \/ NtpWakes

Run ==
  \/ ExecuteCommand \/ CommandsDrained \/ HandleEvent
  \/ ReadClock \/ RefreshTimeContextIfNeeded \/ Dispatching
  \/ GoToSleep \/ WakeUp
  \/ CallTimesOut

ServiceNext == OtherTasks \/ Run \/ CallFromCallback

(* The service task is scheduled, callbacks return, time passes, and a sync *)
(* that has begun is finished.                                              *)
ServiceFairness ==
  /\ WF_allVars(Run)
  /\ WF_allVars(WorkerPosts)
  /\ WF_allVars(TimePasses)
  /\ WF_allVars(NtpRequests \/ NtpWakes)

ServiceSpec == ServiceInit /\ [][ServiceNext]_allVars /\ ServiceFairness

--------------------------------------------------------------------------------
(* Properties *)

(* The task is asleep and nothing is about to wake it but the time. *)
Asleep == At("Sleep") /\ handles = 0

(* The task never sleeps on a message: although drainCommands and           *)
(* drainEvents take messages without their handles, and a full set drops    *)
(* handles, a queue that is not empty always has the task woken.            *)
SleepsOnlyWhenDrained == Asleep => commands = <<>> /\ events = <<>>

(* A refresh that an NTP sync asked for is not slept through, whatever the  *)
(* task was doing when the listener ran and even if the wake-up found the   *)
(* queue full.                                                              *)
RefreshIsNotSleptThrough == Asleep /\ sync = "Idle" => ~refreshRequested

(* Before a day that is shortened by a clock change, within Shift seconds   *)
(* of its start, the time a day later is already in the day after it.       *)
ShortDayAhead(t) == LocalDay(AddDays(t, 1)) > LocalDay(t) + 1

(* The task wakes up in time for every job it has to dispatch, and before   *)
(* the local day has changed: late by no more than the time that went by,   *)
(* in callbacks and handlers, since it read the clock.  In the last hour    *)
(* before a day of 23 hours nextWakeTicks misses that day's start: it looks *)
(* for the midnight before the time a day from now.                         *)
NeverOversleeps ==
  Asleep /\ sync = "Idle" /\ ClockValid(core, clock) =>
    /\ \A s \in Slots : LET r == core.jobs[s] IN
         r.hasNext => wait <= lag + (IF r.nextRunUtc > clock THEN r.nextRunUtc - clock ELSE 0)
    /\ ~ShortDayAhead(Top.now) =>
         \A t \in (clock + 1)..(clock + 2 * DayLen) :
           LocalDay(t) > LocalDay(Top.now) => wait <= lag + t - clock

(* In background mode too a due job is dispatched or skipped sooner or      *)
(* later, also when an inline callback calls the API of the scheduler that  *)
(* runs it and waits for itself.                                            *)
DueIsServedInBackground ==
  \A s \in Slots : LET r == core.jobs[s] IN
    (r.hasNext /\ r.nextRunUtc <= clock /\ ClockValid(core, clock)) ~>
      (~r.hasNext \/ r.nextRunUtc > clock \/ ~ClockValid(core, clock))
================================================================================
