--------------------------- MODULE ServiceLoop_proofs ---------------------------
(***************************************************************************)
(* Proofs about ServiceLoop, for any queue depths, slots, schedules and    *)
(* lengths of the day, and any number of calls and NTP syncs: the service  *)
(* task never sleeps on a message or on a refresh that was asked for, and  *)
(* wakes up in time for every job and for midnight.                        *)
(***************************************************************************)
EXTENDS ServiceLoop, ManualScheduler_proofs, WellFoundedInduction

--------------------------------------------------------------------------------
(* The inductive invariant *)

LoopPlaces == {"Commands", "Events", "Refresh", "Dispatch", "Settle", "Sleep"}

(* The loop of run(), and the calls that are active in it. *)
BottomFrame == [at : LoopPlaces, now : Time]
CalledFrame == CallbackFrame \cup [at : {"SelfWait"}, now : Time]

ThreadOK(st) ==
  /\ st \in Seq(BottomFrame \cup CalledFrame) /\ Len(st) > 0
  /\ st[1] \in BottomFrame
  /\ \A i \in 2..Len(st) : st[i] \in CalledFrame /\ st[1].at # "Sleep"

Place == stack[1].at

AllCommands == AppCommands \cup {Wake}

ServiceTypeOK ==
  /\ CoreInv(core) /\ ThreadOK(stack)
  /\ clock \in Time /\ refreshRequested \in BOOLEAN
  /\ IsBagOf(inflight, JobInvocation) /\ events \in Seq(JobInvocation)
  /\ commands \in Seq(AllCommands)
  /\ handles \in Nat /\ wait \in Nat /\ lag \in Nat

(* From the point of the loop at which a queue was found empty, a message   *)
(* in it has left a handle in the set; likewise for a request to refresh,   *)
(* unless the listener is still to wake the task.                           *)
Notified ==
  /\ Place # "Commands" /\ commands # <<>> => handles > 0
  /\ Place \notin {"Commands", "Events"} /\ events # <<>> => handles > 0
  /\ Place \in {"Dispatch", "Settle", "Sleep"} /\ refreshRequested /\ sync # "Requested"
       => handles > 0

(* Time left until t. *)
Until(t, now) == IF t > now THEN t - now ELSE 0

(* A sleep of w is short enough at time now, if the loop read the clock at  *)
(* time n and that was l ago.                                               *)
Timely(c, n, now, w, l) ==
  IF ClockValid(c, now)
  THEN /\ \A s \in Slots : c.jobs[s].hasNext => w <= l + Until(c.jobs[s].nextRunUtc, now)
       /\ ~ShortDayAhead(n) =>
            \A t \in Nat : t > now /\ LocalDay(t) > LocalDay(n) => w <= l + t - now
  ELSE w <= IdlePoll

(* A clock that was set since the loop read it leaves a handle as well, so  *)
(* a task that nothing will wake goes by a time that has not been reached   *)
(* but by passing.                                                          *)
OnTime ==
  sync = "Idle" /\ handles = 0 =>
    /\ Place \in {"Refresh", "Dispatch", "Settle"} => stack[1].now <= clock
    /\ Place = "Sleep" => Timely(core, stack[1].now, clock, wait, lag)

SInv == ServiceTypeOK /\ Notified /\ OnTime

--------------------------------------------------------------------------------
(* Numbers and times *)

(* Min is what it says, whichever elements it is given. *)
LEMMA MinIs ==
  ASSUME NEW S, S \subseteq Int, NEW x \in S, \A y \in S : x <= y
  PROVE  Min(S) = x
<1>1. Min(S) \in S /\ \A y \in S : Min(S) <= y
  BY DEF Min
<1>2. Min(S) \in Int /\ x \in Int /\ x <= Min(S) /\ Min(S) <= x
  BY <1>1
<1> QED
  BY ONLY <1>2

(* A nonempty set of times has a first one. *)
LEMMA FirstTime ==
  ASSUME NEW S, S \subseteq Nat, S # {}
  PROVE  \E x \in S : \A y \in S : x <= y
<1>1. PICK x \in S : \A y \in S : ~(<<y, x>> \in OpToRel(<, Nat))
  BY NatLessThanWellFounded, WFMin
<1>2. ASSUME NEW y \in S PROVE x <= y
  <2>1. x \in Nat /\ y \in Nat
    OBVIOUS
  <2>2. ~(y < x)
    BY <1>1, <2>1 DEF OpToRel
  <2> QED
    BY ONLY <2>1, <2>2
<1> QED
  BY <1>2

(* A local day has started when local clocks first show a time of it or of  *)
(* a later day.                                                             *)
LEMMA DayReached ==
  ASSUME NEW j \in Nat, NEW t \in Nat, LocalDay(t) >= j
  PROVE  TimeOfLocal(j * DayLen) <= t
<1> DEFINE l == j * DayLen
           q == LocalClock(t) \div DayLen
           m == SummerStart % DayLen
           k == SummerStart \div DayLen
<1>1. /\ DayLen \in Nat /\ DayLen > 0 /\ Shift \in Nat /\ SummerStart \in Nat /\ SummerEnd \in Nat
      /\ m + Shift <= DayLen
  BY ManualAssumption, ServiceAssumption
<1>2. l \in Nat /\ m \in Nat /\ k \in Nat /\ SummerStart = k * DayLen + m
  BY <1>1
<1>3. LocalClock(t) \in Nat /\ (LocalClock(t) = t \/ LocalClock(t) = t + Shift)
  BY <1>1 DEF LocalClock, Offset
<1>4. LocalClock(t) >= l
  <2>1. q \in Nat /\ q >= j /\ q * DayLen <= LocalClock(t)
    BY <1>1, <1>3 DEF LocalDay
  <2> HIDE DEF q
  <2>2. j * DayLen <= q * DayLen
    BY <1>1, <2>1
  <2> QED
    BY <1>1, <1>2, <1>3, <2>1, <2>2
<1> HIDE DEF l, m, k
<1>5. CASE LocalClock(l - Shift) = l
  BY <1>1, <1>2, <1>3, <1>4, <1>5 DEF TimeOfLocal, l
<1>6. CASE LocalClock(l - Shift) # l
  <2>1. TimeOfLocal(l) = l
    BY <1>6 DEF TimeOfLocal
  <2>2. Shift > 0 /\ ~(SummerStart <= l - Shift /\ l - Shift < SummerEnd)
    BY <1>1, <1>2, <1>6 DEF LocalClock, Offset
  <2>3. ASSUME t < l PROVE FALSE
    <3>1. SummerStart <= t /\ t < SummerEnd /\ t + Shift >= l
      BY <1>1, <1>2, <1>4, <2>3 DEF LocalClock, Offset
    <3>2. l - Shift < SummerStart /\ SummerStart < l
      BY <1>1, <1>2, <2>2, <2>3, <3>1
    <3>3. k < j
      <4> SUFFICES ASSUME j <= k PROVE FALSE
        BY <1>2
      <4>1. j * DayLen <= k * DayLen
        BY <1>1, <1>2
      <4> QED
        BY <1>1, <1>2, <3>2, <4>1 DEF l
    <3>4. (k + 1) * DayLen <= l
      <4>1. k + 1 <= j
        BY <1>2, <3>3
      <4> QED
        BY <1>1, <1>2, <4>1 DEF l
    <3>5. (k + 1) * DayLen = k * DayLen + DayLen /\ k * DayLen \in Nat
      BY <1>1, <1>2
    <3> QED
      BY <1>1, <1>2, <3>2, <3>4, <3>5
  <2> QED
    BY <1>2, <2>1, <2>3 DEF l
<1> QED
  BY <1>5, <1>6

(* The midnight that nextWakeTicks looks for, and all but the case it       *)
(* misses: no time of a later day comes before it.                          *)
LEMMA NextMidnight ==
  ASSUME NEW n \in Nat
  PROVE  /\ StartOfDayLocal(AddDays(n, 1)) \in Nat
         /\ ~ShortDayAhead(n) =>
              \A t \in Nat : LocalDay(t) > LocalDay(n) => StartOfDayLocal(AddDays(n, 1)) <= t
<1>1. AddDays(n, 1) \in Nat
  BY ManualAssumption DEF AddDays
<1> DEFINE j == LocalDay(AddDays(n, 1))
<1>2. j \in Nat /\ LocalDay(n) \in Nat /\ StartOfDayLocal(AddDays(n, 1)) \in Nat
  BY <1>1, DayStarts
<1>3. ASSUME ~ShortDayAhead(n), NEW t \in Nat, LocalDay(t) > LocalDay(n)
      PROVE  StartOfDayLocal(AddDays(n, 1)) <= t
  <2>1. j <= LocalDay(n) + 1
    BY <1>2, <1>3 DEF ShortDayAhead
  <2>2. LocalDay(t) \in Nat
    BY DayStarts
  <2>3. LocalDay(t) >= j
    BY <1>2, <1>3, <2>1, <2>2
  <2> HIDE DEF j
  <2>4. TimeOfLocal(j * DayLen) <= t
    BY <1>2, <2>3, DayReached
  <2> QED
    BY <2>4 DEF StartOfDayLocal, j
<1> QED
  BY <1>2, <1>3

(* A send leaves a handle in the queue set. *)
LEMMA NotifySets ==
  ASSUME handles \in Nat, Notify
  PROVE  handles' \in Nat /\ handles' > 0
<1> DEFINE a == handles + 1
           b == CommandQueueDepth + EventQueueDepth
<1>1. a \in Nat /\ b \in Nat /\ a > 0 /\ b > 0
  BY ServiceAssumption, ManualAssumption
<1>2. handles' = Min({a, b})
  BY DEF Notify
<1> HIDE DEF a, b
<1>3. CASE a <= b
  BY <1>1, <1>2, <1>3, MinIs
<1>4. CASE b <= a
  BY <1>1, <1>2, <1>4, MinIs
<1> QED
  BY <1>1, <1>3, <1>4

(* nextWakeTicks never asks for more than there is until the next due job   *)
(* or until the midnight it looks for.                                      *)
LEMMA WaitTicksBounds ==
  ASSUME NEW c, CoreInv(c), NEW now \in Time
  PROVE  /\ WaitTicks(c, now) \in Nat
         /\ ClockValid(c, now) =>
              /\ \A s \in Slots :
                   c.jobs[s].hasNext => WaitTicks(c, now) <= Until(c.jobs[s].nextRunUtc, now)
              /\ WaitTicks(c, now) <= Until(StartOfDayLocal(AddDays(now, 1)), now)
         /\ ~ClockValid(c, now) => WaitTicks(c, now) = IdlePoll
<1>1. CASE ~ClockValid(c, now)
  BY <1>1 DEF WaitTicks, IdlePoll
<1>2. CASE ClockValid(c, now)
  <2> DEFINE valid == {e \in c.dueHeap : ValidDueEntry(c, e)}
             epochs == {e.nextEpoch : e \in valid}
             dues == {e.nextEpoch : e \in TopEntries(c)}
             day == StartOfDayLocal(AddDays(now, 1))
             wake == Min(dues \cup {day})
  <2>1. now \in Nat /\ day \in Nat
    BY NextMidnight DEF Time
  <2>2. epochs \subseteq Nat
    <3>1. \A e \in c.dueHeap : e.nextEpoch \in Nat
      BY DEF CoreInv, CoreState, DueHeapEntry, Time
    <3> QED
      BY <3>1
  <2>3. \/ dues = {} /\ epochs = {}
        \/ \E x \in epochs : dues = {x} /\ \A y \in epochs : x <= y
    <3>1. CASE epochs = {}
      BY <3>1 DEF TopEntries
    <3>2. CASE epochs # {}
      <4>1. PICK x \in epochs : \A y \in epochs : x <= y
        BY <2>2, <3>2, FirstTime
      <4>2. PICK e \in valid : e.nextEpoch = x
        BY <4>1
      <4>3. e \in TopEntries(c)
        BY <4>1, <4>2 DEF TopEntries
      <4>4. ASSUME NEW f \in TopEntries(c) PROVE f.nextEpoch = x
        <5>1. f \in valid /\ f.nextEpoch <= e.nextEpoch
          BY <4>2 DEF TopEntries
        <5>2. f.nextEpoch \in epochs
          BY <5>1
        <5>3. x <= f.nextEpoch /\ f.nextEpoch <= x /\ x \in Nat /\ f.nextEpoch \in Nat
          BY <2>2, <4>1, <4>2, <5>1, <5>2
        <5> QED
          BY ONLY <5>3
      <4>5. dues = {x}
        BY <4>2, <4>3, <4>4
      <4> QED
        BY <4>1, <4>5
    <3> QED
      BY <3>1, <3>2
  <2> HIDE DEF dues, day
  <2>4. wake \in Nat /\ wake <= day /\ \A y \in epochs : wake <= y
    <3> HIDE DEF epochs
    <3>1. CASE dues = {} /\ epochs = {}
      <4>1. wake = day
        BY <2>1, <3>1, MinIs
      <4> QED
        BY <2>1, <3>1, <4>1
    <3>2. ASSUME NEW x \in epochs, dues = {x}, \A y \in epochs : x <= y
          PROVE  wake \in Nat /\ wake <= day /\ \A y \in epochs : wake <= y
      <4>1. x \in Nat /\ dues \cup {day} = {x, day}
        BY <2>2, <3>2
      <4>2. CASE x <= day
        <5>1. wake = x
          BY <2>1, <4>1, <4>2, MinIs
        <5> QED
          BY <2>1, <3>2, <4>1, <4>2, <5>1
      <4>3. CASE day <= x
        <5>1. wake = day
          BY <2>1, <4>1, <4>3, MinIs
        <5> QED
          BY <2>1, <2>2, <3>2, <4>1, <4>3, <5>1
      <4> QED
        BY <2>1, <4>1, <4>2, <4>3
    <3> QED
      BY <2>3, <3>1, <3>2
  <2>5. WaitTicks(c, now) = IF wake <= now THEN 0 ELSE (wake - now) % TickWrap
    BY <1>2 DEF WaitTicks, dues, day
  <2> HIDE DEF wake
  <2>6. WaitTicks(c, now) \in Nat /\ WaitTicks(c, now) <= Until(wake, now)
    <3>1. CASE wake <= now
      BY <2>1, <2>4, <2>5, <3>1 DEF Until
    <3>2. CASE ~(wake <= now)
      <4>1. wake - now \in Nat /\ TickWrap \in Nat /\ TickWrap > 0
        BY <2>1, <2>4, <3>2, ServiceAssumption
      <4>2. (wake - now) % TickWrap \in Nat /\ (wake - now) % TickWrap <= wake - now
        BY <4>1
      <4> QED
        BY <2>1, <2>4, <2>5, <3>2, <4>2 DEF Until
    <3> QED
      BY <3>1, <3>2
  <2>7. ASSUME NEW y \in Nat, wake <= y
        PROVE  WaitTicks(c, now) <= Until(y, now)
    BY <2>1, <2>4, <2>6, <2>7 DEF Until
  <2>8. ASSUME NEW s \in Slots, c.jobs[s].hasNext
        PROVE  WaitTicks(c, now) <= Until(c.jobs[s].nextRunUtc, now)
    <3> DEFINE r == c.jobs[s]
    <3>1. Runnable(r) /\ DueEntry(s, r) \in c.dueHeap
      BY <2>8 DEF CoreInv, Primed, PrimedSlot
    <3>2. ValidDueEntry(c, DueEntry(s, r)) /\ DueEntry(s, r).nextEpoch = r.nextRunUtc
      BY <2>8, <3>1 DEF ValidDueEntry, DueEntry, Runnable
    <3>3. r.nextRunUtc \in epochs
      BY <3>1, <3>2
    <3> QED
      BY <2>2, <2>4, <2>7, <3>3
  <2>9. WaitTicks(c, now) <= Until(day, now)
    BY <2>1, <2>4, <2>7
  <2> QED
    BY <1>2, <2>6, <2>8, <2>9 DEF day
<1> QED
  BY <1>1, <1>2

--------------------------------------------------------------------------------
(* The stack of the service task *)

(* The loop is at its place only when no call is active in it. *)
LEMMA AtLoop ==
  ASSUME ThreadOK(stack), NEW l \in LoopPlaces, At(l)
  PROVE  /\ stack = <<stack[1]>> /\ Top = stack[1] /\ Below = <<>> /\ Place = l
         /\ Top \in BottomFrame /\ Top.now \in Time
<1>1. /\ Len(stack) \in Nat /\ Len(stack) > 0 /\ Top = stack[Len(stack)] /\ Top.at = l
      /\ stack \in Seq(BottomFrame \cup CalledFrame)
  BY DEF ThreadOK, At, Top, Last
<1>2. Len(stack) = 1
  <2> SUFFICES ASSUME ~(Len(stack) = 1) PROVE FALSE
    OBVIOUS
  <2> DEFINE n == Len(stack)
  <2>0. n \in Nat /\ n > 0 /\ ~(n = 1)
    BY <1>1
  <2> HIDE DEF n
  <2>1. n \in 2..n
    BY ONLY <2>0
  <2> USE DEF n
  <2>2. Top \in CalledFrame
    BY <1>1, <2>1 DEF ThreadOK
  <2>3. Top.at \in {"Callback", "SelfWait"}
    BY <2>2 DEF CalledFrame, CallbackFrame
  <2> QED
    BY <1>1, <2>3 DEF LoopPlaces
<1>3. stack = <<stack[1]>> /\ Top = stack[1]
  BY <1>1, <1>2
<1>4. Below = <<>>
  BY <1>1, <1>2 DEF Below, Front
<1> QED
  BY <1>1, <1>3, <1>4 DEF Place, ThreadOK, BottomFrame

(* A call that is active has the loop somewhere below it. *)
LEMMA InCall ==
  ASSUME ThreadOK(stack), NEW l \in {"Callback", "SelfWait"}, At(l)
  PROVE  /\ ThreadOK(Below) /\ Below[1] = stack[1] /\ Top.now \in Time /\ Place # "Sleep"
         /\ l = "Callback" => Top.inv \in JobInvocation
<1>1. /\ Len(stack) \in Nat /\ Len(stack) > 0 /\ Top = stack[Len(stack)] /\ Top.at = l
      /\ stack \in Seq(BottomFrame \cup CalledFrame) /\ stack[1] \in BottomFrame
  BY DEF ThreadOK, At, Top, Last
<1>2. Len(stack) > 1
  BY <1>1 DEF BottomFrame, LoopPlaces
<1>3. Top \in CalledFrame
  BY <1>1, <1>2 DEF ThreadOK
<1>4. Top.now \in Time /\ (l = "Callback" => Top.inv \in JobInvocation)
  BY <1>1, <1>3 DEF CalledFrame, CallbackFrame
<1>5. /\ Below \in Seq(BottomFrame \cup CalledFrame) /\ Len(Below) = Len(stack) - 1
      /\ \A i \in 1..Len(Below) : Below[i] = stack[i]
  BY <1>1, <1>2 DEF Below, Front
<1> QED
  BY <1>1, <1>2, <1>4, <1>5 DEF ThreadOK, Place

(* Calls leave the loop where it is. *)
LEMMA CallPushed ==
  ASSUME NEW st, ThreadOK(st), st[1].at # "Sleep", NEW f \in CalledFrame
  PROVE  ThreadOK(Append(st, f)) /\ Append(st, f)[1] = st[1]
BY DEF ThreadOK

(* Nor does a dispatch move it, with an inline callback or without. *)
LEMMA CalledThread ==
  ASSUME NEW st, ThreadOK(st), st[1].at # "Sleep", Called(st)
  PROVE  ThreadOK(stack') /\ stack'[1] = st[1]
<1>1. CASE stack' = st
  BY <1>1
<1>2. CASE \E f \in CallbackFrame : stack' = Append(st, f)
  <2>1. PICK f \in CallbackFrame : stack' = Append(st, f)
    BY <1>2
  <2>2. f \in CalledFrame
    BY DEF CalledFrame
  <2>3. ThreadOK(Append(st, f)) /\ Append(st, f)[1] = st[1]
    BY <2>2, CallPushed
  <2> QED
    BY <2>1, <2>3
<1> QED
  BY <1>1, <1>2 DEF Called

(* The loop goes on. *)
LEMMA LoopMoves ==
  ASSUME NEW f \in BottomFrame
  PROVE  ThreadOK(<<f>>) /\ <<f>>[1] = f
BY DEF ThreadOK

(* The loop takes its clock along to its next place. *)
LEMMA GotoPlace ==
  ASSUME ThreadOK(stack), NEW l \in LoopPlaces, At(l), NEW m \in LoopPlaces, Goto(m)
  PROVE  /\ ThreadOK(stack') /\ stack'[1].at = m /\ stack'[1].now = stack[1].now
         /\ Place = l
<1>1. Top \in BottomFrame /\ Below = <<>> /\ Top = stack[1] /\ Place = l
  BY AtLoop
<1>2. stack' = <<[Top EXCEPT !.at = m]>>
  BY <1>1 DEF Goto
<1>3. [Top EXCEPT !.at = m] \in BottomFrame
  BY <1>1 DEF BottomFrame
<1> QED
  BY <1>1, <1>2, <1>3, LoopMoves DEF BottomFrame

--------------------------------------------------------------------------------
(* Every step *)

(* A sleep that gets shorter as time passes stays short enough. *)
LEMMA TimelyPasses ==
  ASSUME NEW c, CoreInv(c), NEW t \in Time, NEW u \in Time, u = t \/ u = t + 1,
         NEW n \in Time, NEW w \in Nat, NEW l \in Nat, Timely(c, n, t, w, l)
  PROVE  Timely(c, n, u, IF w > 0 THEN w - 1 ELSE 0, l)
<1> DEFINE v == IF w > 0 THEN w - 1 ELSE 0
<1>1. /\ t \in Nat /\ u \in Nat /\ t <= u /\ u <= t + 1 /\ c.minValid \in Nat
      /\ \A s \in Slots : c.jobs[s].nextRunUtc \in Nat
  BY DEF Time, CoreInv, CoreState, JobRecord
<1>2. CASE v = 0
  <2>1. \A s \in Slots : Until(c.jobs[s].nextRunUtc, u) \in Nat
    <3>1. ASSUME NEW a \in Nat PROVE Until(a, u) \in Nat
      BY <1>1 DEF Until
    <3> QED
      BY <1>1, <3>1
  <2> QED
    BY <1>1, <1>2, <2>1 DEF Timely, IdlePoll
<1>3. CASE v # 0
  <2>1. v = w - 1 /\ w > 1
    BY <1>3
  <2>2. ClockValid(c, t) /\ ClockValid(c, u)
    BY <1>1, <2>1 DEF Timely, ClockValid, IdlePoll
  <2>3. ASSUME NEW s \in Slots, c.jobs[s].hasNext
        PROVE  w - 1 <= l + Until(c.jobs[s].nextRunUtc, u)
    BY <1>1, <2>2, <2>3 DEF Timely, Until
  <2>4. ASSUME ~ShortDayAhead(n), NEW x \in Nat, x > u, LocalDay(x) > LocalDay(n)
        PROVE  w - 1 <= l + x - u
    <3>1. w <= l + x - t
      BY <1>1, <2>2, <2>4 DEF Timely
    <3> QED
      BY <1>1, <3>1
  <2> QED
    BY <2>1, <2>2, <2>3, <2>4 DEF Timely
<1> QED
  BY <1>2, <1>3

(* The application, the workers, the clock and the NTP listener. *)
LEMMA OtherTasksStep == SInv /\ OtherTasks => SInv'
<1> SUFFICES ASSUME SInv, OtherTasks PROVE SInv'
  OBVIOUS
<1>0. ServiceTypeOK /\ Notified /\ OnTime /\ handles \in Nat
  BY DEF SInv, ServiceTypeOK
<1>1. ASSUME handles' \in Nat, handles' > 0, ServiceTypeOK' PROVE SInv'
  BY <1>1 DEF SInv, Notified, OnTime
<1>2. CASE ApiCall
  <2>1. PICK command \in AppCommands : Enqueue(command)
    BY <1>2 DEF ApiCall
  <2>2. handles' \in Nat /\ handles' > 0
    BY <1>0, <2>1, NotifySets DEF Enqueue
  <2>3. commands' \in Seq(AllCommands)
    BY <1>0, <2>1 DEF Enqueue, ServiceTypeOK, AllCommands
  <2>4. ServiceTypeOK'
    BY <1>0, <1>2, <2>2, <2>3 DEF ApiCall, vars, ServiceTypeOK
  <2> QED
    BY <1>1, <2>2, <2>4
<1>3. CASE WorkerPosts
  <2>1. PICK inv \in BagToSet(inflight) :
          /\ inflight' = inflight (-) SetToBag({inv})
          /\ events' = Append(events, inv) \/ events' = events
    BY <1>3 DEF WorkerPosts, WorkerDone
  <2>2. inv \in JobInvocation /\ IsBagOf(inflight, JobInvocation) /\ events \in Seq(JobInvocation)
    BY <1>0, <2>1 DEF IsBagOf, ServiceTypeOK
  <2>3. IsBagOf(inflight', JobInvocation)
    BY <2>1, <2>2, SetToBagType, BagDifferenceType
  <2>4. events' \in Seq(JobInvocation)
    BY <2>1, <2>2
  <2>5. /\ UNCHANGED <<core, clock, refreshRequested, stack>>
        /\ UNCHANGED <<commands, wait, lag, sync>>
        /\ IF events' # events THEN Notify ELSE UNCHANGED handles
    BY <1>3 DEF WorkerPosts, WorkerDone
  <2>6. CASE events' # events
    <3>1. handles' \in Nat /\ handles' > 0
      BY <1>0, <2>5, <2>6, NotifySets
    <3>2. ServiceTypeOK'
      BY <1>0, <2>3, <2>4, <2>5, <3>1 DEF ServiceTypeOK
    <3> QED
      BY <1>1, <3>1, <3>2
  <2>7. CASE events' = events
    <3>1. handles' = handles
      BY <2>5, <2>7
    <3>2. ServiceTypeOK'
      BY <1>0, <2>3, <2>5, <2>7, <3>1 DEF ServiceTypeOK
    <3> QED
      BY <1>0, <2>5, <2>7, <3>1, <3>2 DEF SInv, Notified, OnTime, Place
  <2> QED
    BY <2>6, <2>7
<1>4. CASE TimePasses
  <2>1. /\ UNCHANGED <<core, refreshRequested, stack, inflight, events, commands, handles, lag, sync>>
        /\ clock' = clock \/ clock' = clock + 1
        /\ wait' = IF wait > 0 THEN wait - 1 ELSE 0
    BY <1>4 DEF TimePasses
  <2>2. clock \in Time /\ clock' \in Time /\ clock <= clock' /\ wait \in Nat /\ wait' \in Nat
    BY <1>0, <2>1 DEF ServiceTypeOK, Time
  <2>3. ServiceTypeOK'
    BY <1>0, <2>1, <2>2 DEF ServiceTypeOK
  <2>4. Notified'
    BY <1>0, <2>1 DEF Notified, Place
  <2>5. ASSUME Timely(core, stack[1].now, clock, wait, lag)
        PROVE  Timely(core, stack[1].now, clock', wait', lag)
    BY <1>0, <2>1, <2>2, <2>5, TimelyPasses DEF ServiceTypeOK, ThreadOK, BottomFrame
  <2>6. ThreadOK(stack) /\ stack[1].now \in Nat /\ clock \in Nat /\ clock' \in Nat
    BY <1>0, <2>2 DEF ServiceTypeOK, ThreadOK, BottomFrame, Time
  <2>7. OnTime'
    BY <1>0, <2>1, <2>2, <2>5, <2>6 DEF OnTime, Place
  <2> QED
    BY <2>3, <2>4, <2>7 DEF SInv
<1>5. CASE NtpSetsClock
  <2>1. /\ UNCHANGED <<core, refreshRequested, stack, inflight, events, commands, handles, wait, lag>>
        /\ sync = "Idle" /\ sync' = "ClockSet" /\ clock' \in Time
    BY <1>5, ManualAssumption DEF NtpSetsClock
  <2>2. ServiceTypeOK'
    BY <1>0, <2>1 DEF ServiceTypeOK
  <2> QED
    BY <1>0, <2>1, <2>2 DEF SInv, Notified, OnTime, Place
<1>6. CASE NtpRequests
  <2>1. /\ UNCHANGED <<core, clock, stack, inflight, events, commands, handles, wait, lag>>
        /\ refreshRequested' = TRUE /\ sync' = "Requested"
    BY <1>6 DEF NtpRequests
  <2>2. ServiceTypeOK'
    BY <1>0, <2>1 DEF ServiceTypeOK
  <2> QED
    BY <1>0, <2>1, <2>2 DEF SInv, Notified, OnTime, Place
<1>7. CASE NtpWakes
  <2>1. /\ UNCHANGED <<core, clock, refreshRequested, stack, inflight, events, wait, lag>>
        /\ sync = "Requested" /\ sync' = "Idle"
        /\ Enqueue(Wake) \/ (commands # <<>> /\ UNCHANGED <<commands, handles>>)
    <3>1. Len(<<>>) = 0 /\ CommandQueueDepth > 0
      BY ServiceAssumption
    <3> QED
      BY <1>7, <3>1 DEF NtpWakes, vars
  <2>2. CASE Enqueue(Wake)
    <3>1. handles' \in Nat /\ handles' > 0
      BY <1>0, <2>2, NotifySets DEF Enqueue
    <3>2. commands' \in Seq(AllCommands)
      BY <1>0, <2>2 DEF Enqueue, ServiceTypeOK, AllCommands
    <3>3. ServiceTypeOK'
      BY <1>0, <2>1, <3>1, <3>2 DEF ServiceTypeOK
    <3> QED
      BY <1>1, <3>1, <3>3
  <2>3. CASE commands # <<>> /\ UNCHANGED <<commands, handles>>
    <3>1. ServiceTypeOK'
      BY <1>0, <2>1, <2>3 DEF ServiceTypeOK
    <3>2. Place # "Commands" => handles' > 0
      BY <1>0, <2>3 DEF Notified
    <3>3. CASE Place = "Commands"
      BY <1>0, <2>1, <2>3, <3>1, <3>3 DEF SInv, Notified, OnTime, Place
    <3> QED
      BY <1>0, <1>1, <2>3, <3>1, <3>2, <3>3
  <2> QED
    BY <2>1, <2>2, <2>3
<1> QED
  BY <1>2, <1>3, <1>4, <1>5, <1>6, <1>7 DEF OtherTasks

(* execute() keeps the job table in order, whatever the command. *)
LEMMA ExecuteInv ==
  ASSUME CoreInv(core), clock \in Time, NEW command \in AllCommands, NEW g,
         NEW c \in Execute(command, g)
  PROVE  CoreInv(c)
<1>1. CASE command.op = "Add"
  <2>1. command.spec \in Schedules /\ command.options \in JobOptions
    <3>1. command \in {[op |-> "Add", spec |-> spec, options |-> options] :
                         spec \in Schedules, options \in {o \in Options :
                           o.dispatch = "Async" => o.executorId \in Executors}}
      BY <1>1 DEF AllCommands, AppCommands, Wake
    <3> QED
      BY <3>1, ManualAssumption
  <2>2. \/ c = core
        \/ \E s \in AddSlots(core) : c = AddJob(core, s, command.spec, command.options, clock, g)
    BY <1>1 DEF Execute
  <2> QED
    BY <2>1, <2>2, AddJobInv
<1>2. CASE command.op = "Cancel"
  <2>1. PICK s \in FindJobSlot(core, command.id) : c = CancelSlots(core, {s}, g)
    BY <1>2 DEF Execute, CancelJob
  <2>2. {s} \subseteq Occupied(core)
    BY FoundSlot
  <2> QED
    BY <2>1, <2>2, CancelInv
<1>3. CASE command.op = "Pause"
  <2>1. PICK s \in FindJobSlot(core, command.id) : c = PauseJob(core, s)
    BY <1>3 DEF Execute
  <2> QED
    BY <2>1, FoundSlot, PauseInv
<1>4. CASE command.op = "Resume"
  <2>1. PICK s \in FindJobSlot(core, command.id) : c = ResumeJob(core, s, clock, g)
    BY <1>4 DEF Execute
  <2> QED
    BY <2>1, FoundSlot, ResumeInv
<1>5. CASE command.op = "CancelAll"
  <2>1. c = CancelSlots(core, {s \in Slots : Live(core.jobs[s])}, g)
    BY <1>5 DEF Execute, CancelAll
  <2>2. {s \in Slots : Live(core.jobs[s])} \subseteq Occupied(core)
    BY DEF Occupied, Live
  <2> QED
    BY <2>1, <2>2, CancelInv
<1>6. CASE command.op = "Refresh"
  BY <1>6, RefreshInv DEF Execute
<1>7. CASE command.op = "SetMinValid"
  <2>1. command.min \in Time
    BY <1>7, ManualAssumption DEF AllCommands, AppCommands, Wake
  <2>2. c = [core EXCEPT !.minValid = command.min]
    BY <1>7 DEF Execute
  <2> QED
    BY <2>1, <2>2, MinValidInv
<1>8. CASE command.op = "Wake"
  BY <1>8 DEF Execute
<1>9. command.op \in {"Add", "Cancel", "Pause", "Resume", "CancelAll", "Refresh",
                      "SetMinValid", "Wake"}
  BY DEF AllCommands, AppCommands, Wake
<1> QED
  BY <1>1, <1>2, <1>3, <1>4, <1>5, <1>6, <1>7, <1>8, <1>9

(* The steps of run() that handle commands and events. *)
LEMMA DrainStep ==
  ASSUME SInv, ExecuteCommand \/ CommandsDrained \/ HandleEvent \/ ReadClock
  PROVE  SInv'
<1>0. /\ ServiceTypeOK /\ Notified /\ OnTime /\ ThreadOK(stack) /\ CoreInv(core) /\ clock \in Time
      /\ events \in Seq(JobInvocation) /\ commands \in Seq(AllCommands)
      /\ IsBagOf(inflight, JobInvocation)
  BY DEF SInv, ServiceTypeOK
<1>1. ASSUME NEW l \in LoopPlaces, At(l) PROVE Place = l
  BY <1>0, <1>1, AtLoop
<1>2. CASE ExecuteCommand
  <2>1. /\ Place = "Commands" /\ commands # <<>> /\ commands' = Tail(commands)
        /\ UNCHANGED <<clock, refreshRequested, stack, inflight, events>>
        /\ UNCHANGED <<handles, wait, lag, sync>>
    BY <1>1, <1>2 DEF ExecuteCommand, LoopPlaces
  <2>2. Head(commands) \in AllCommands /\ commands' \in Seq(AllCommands)
    BY <1>0, <2>1
  <2>3. CoreInv(core')
    <3>1. PICK g \in Grants : core' = core \/ core' \in Execute(Head(commands), g)
      BY <1>2 DEF ExecuteCommand
    <3> QED
      BY <1>0, <2>2, <3>1, ExecuteInv
  <2>4. ServiceTypeOK'
    BY <1>0, <2>1, <2>2, <2>3 DEF ServiceTypeOK
  <2> QED
    BY <2>1, <2>4 DEF SInv, Notified, OnTime, Place
<1>3. CASE CommandsDrained
  <2>1. /\ commands = <<>> /\ UNCHANGED <<core, clock, refreshRequested, inflight, events>>
        /\ UNCHANGED serviceVars
    BY <1>3 DEF CommandsDrained
  <2>2. ThreadOK(stack') /\ stack'[1].at = "Events"
    BY <1>0, <1>3, GotoPlace DEF CommandsDrained, LoopPlaces
  <2>3. ServiceTypeOK'
    BY <1>0, <2>1, <2>2 DEF ServiceTypeOK, serviceVars
  <2> QED
    BY <2>1, <2>2, <2>3 DEF SInv, Notified, OnTime, Place, serviceVars
<1>4. CASE HandleEvent
  <2>1. /\ Place = "Events" /\ events # <<>> /\ events' = Tail(events)
        /\ UNCHANGED <<clock, refreshRequested>> /\ UNCHANGED serviceVars
    BY <1>1, <1>4 DEF HandleEvent, LoopPlaces
  <2>2. Head(events) \in JobInvocation /\ events' \in Seq(JobInvocation)
    BY <1>0, <2>1
  <2>3. Head(events).slotIndex \in Slots
    BY <2>2 DEF JobInvocation
  <2>4. CoreInv(core') /\ Called(stack) /\ IsBagOf(inflight', JobInvocation)
    <3>1. \/ \E g \in Grants : HandleCompletion(Head(events).slotIndex, clock, g, stack)
          \/ UNCHANGED <<core, stack, inflight>>
      BY <1>4 DEF HandleEvent
    <3>2. CASE UNCHANGED <<core, stack, inflight>>
      BY <1>0, <3>2 DEF Called
    <3> QED
      BY <1>0, <2>3, <3>1, <3>2, HandleCompletionInv
  <2>5. ThreadOK(stack') /\ stack'[1] = stack[1]
    BY <1>0, <2>1, <2>4, CalledThread DEF Place
  <2>6. ServiceTypeOK'
    BY <1>0, <2>1, <2>2, <2>4, <2>5 DEF ServiceTypeOK, serviceVars
  <2> QED
    BY <1>0, <2>1, <2>5, <2>6 DEF SInv, Notified, OnTime, Place, serviceVars
<1>5. CASE ReadClock
  <2>1. /\ Place = "Events" /\ events = <<>> /\ At("Events")
        /\ UNCHANGED <<core, clock, refreshRequested, inflight, events>> /\ UNCHANGED serviceVars
        /\ stack' = Append(Below, [at |-> "Refresh", now |-> clock])
    BY <1>1, <1>5 DEF ReadClock, LoopPlaces
  <2>2. Below = <<>>
    BY <1>0, <2>1, AtLoop DEF LoopPlaces
  <2>3. [at |-> "Refresh", now |-> clock] \in BottomFrame
    BY <1>0 DEF BottomFrame, LoopPlaces
  <2>4. ThreadOK(stack') /\ stack'[1].at = "Refresh" /\ stack'[1].now = clock
    BY <2>1, <2>2, <2>3, LoopMoves
  <2>5. ServiceTypeOK' /\ clock <= clock'
    BY <1>0, <2>1, <2>4 DEF ServiceTypeOK, serviceVars, Time
  <2> QED
    BY <1>0, <2>1, <2>4, <2>5 DEF SInv, Notified, OnTime, Place, serviceVars
<1> QED
  BY <1>2, <1>3, <1>4, <1>5

(* The sleep that nextWakeTicks asks for, from a clock read at now. *)
LEMMA SleepTimely ==
  ASSUME NEW c, CoreInv(c), NEW now \in Time, NEW t \in Time, now <= t
  PROVE  Timely(c, now, t, WaitTicks(c, now), t - now)
<1> DEFINE w == WaitTicks(c, now)
<1>1. /\ now \in Nat /\ t \in Nat /\ t - now \in Nat /\ c.minValid \in Nat
      /\ \A s \in Slots : c.jobs[s].nextRunUtc \in Nat
  BY DEF Time, CoreInv, CoreState, JobRecord
<1> DEFINE day == StartOfDayLocal(AddDays(now, 1))
<1>2. /\ day \in Nat
      /\ ~ShortDayAhead(now) => \A x \in Nat : LocalDay(x) > LocalDay(now) => day <= x
  BY <1>1, NextMidnight
<1>3. CASE ClockValid(c, now)
  <2>1. ClockValid(c, t)
    BY <1>1, <1>3 DEF ClockValid
  <2>2. /\ w \in Nat
        /\ \A s \in Slots : c.jobs[s].hasNext => w <= Until(c.jobs[s].nextRunUtc, now)
        /\ w <= Until(day, now)
    BY <1>3, WaitTicksBounds
  <2> HIDE DEF w, day
  <2>3. ASSUME NEW a \in Nat PROVE Until(a, now) <= t - now + Until(a, t)
    BY <1>1, <2>3 DEF Until
  <2>4. ASSUME NEW s \in Slots, c.jobs[s].hasNext
        PROVE  w <= t - now + Until(c.jobs[s].nextRunUtc, t)
    <3>1. ASSUME NEW a \in Nat, w <= Until(a, now) PROVE w <= t - now + Until(a, t)
      BY <1>1, <2>2, <3>1 DEF Until
    <3> QED
      BY <1>1, <2>2, <2>4, <3>1
  <2>5. ASSUME ~ShortDayAhead(now), NEW x \in Nat, x > t, LocalDay(x) > LocalDay(now)
        PROVE  w <= t - now + x - t
    <3>1. day <= x
      BY <1>2, <2>5
    <3> QED
      BY <1>1, <1>2, <2>2, <2>5, <3>1 DEF Until
  <2> QED
    BY <2>1, <2>4, <2>5 DEF Timely, w
<1>4. CASE ~ClockValid(c, now)
  <2>1. w = 1
    BY <1>4, WaitTicksBounds DEF IdlePoll
  <2> HIDE DEF w
  <2>2. CASE ClockValid(c, t)
    <3>1. t - now >= 1
      BY <1>1, <1>4, <2>2 DEF ClockValid
    <3>2. ASSUME NEW a \in Nat PROVE w <= t - now + Until(a, t)
      BY <1>1, <2>1, <3>1 DEF Until
    <3>3. \A s \in Slots : w <= t - now + Until(c.jobs[s].nextRunUtc, t)
      BY <1>1, <3>2
    <3>4. \A x \in Nat : x > t => w <= t - now + x - t
      BY <1>1, <2>1, <3>1
    <3> QED
      BY <2>2, <3>3, <3>4 DEF Timely, w
  <2>3. CASE ~ClockValid(c, t)
    BY <2>1, <2>3 DEF Timely, IdlePoll, w
  <2> QED
    BY <2>2, <2>3
<1> QED
  BY <1>3, <1>4

(* The steps of run() from the refresh to the wake-up. *)
LEMMA ServeStep ==
  ASSUME SInv,
         \/ RefreshTimeContextIfNeeded \/ Dispatching \/ GoToSleep \/ WakeUp
         \/ CallTimesOut \/ CallFromCallback
  PROVE  SInv'
<1>0. /\ ServiceTypeOK /\ Notified /\ OnTime /\ ThreadOK(stack) /\ CoreInv(core) /\ clock \in Time
      /\ IsBagOf(inflight, JobInvocation) /\ handles \in Nat
  BY DEF SInv, ServiceTypeOK
<1>1. ASSUME NEW l \in LoopPlaces, At(l)
      PROVE  Place = l /\ Top = stack[1] /\ Top.now \in Time
  BY <1>0, <1>1, AtLoop
<1>2. CASE RefreshTimeContextIfNeeded
  <2>1. /\ At("Refresh") /\ refreshRequested' = FALSE
        /\ UNCHANGED <<clock, inflight, events>> /\ UNCHANGED serviceVars
        /\ Goto("Dispatch") \/ Goto("Settle")
    BY <1>2 DEF RefreshTimeContextIfNeeded
  <2>2. Place = "Refresh" /\ Top.now \in Time
    BY <1>1, <2>1 DEF LoopPlaces
  <2>3. /\ ThreadOK(stack') /\ stack'[1].at \in {"Dispatch", "Settle"}
        /\ stack'[1].now = stack[1].now
    BY <1>0, <2>1, GotoPlace DEF LoopPlaces
  <2>4. CoreInv(core')
    <3>1. PICK g \in Grants, h \in Grants :
            \/ core' = DrainPendingSchedules(core, Top.now, h)
            \/ core' = DrainPendingSchedules(RefreshAllSchedules(core, Top.now, g), Top.now, h)
      BY <1>2 DEF RefreshTimeContextIfNeeded
    <3> QED
      BY <1>0, <3>1, DrainInv, RefreshInv
  <2>5. ServiceTypeOK'
    BY <1>0, <2>1, <2>3, <2>4 DEF ServiceTypeOK, serviceVars
  <2> QED
    BY <1>0, <2>1, <2>2, <2>3, <2>5 DEF SInv, Notified, OnTime, Place, serviceVars
<1>3. CASE CallbackReturn /\ UNCHANGED serviceVars
  <2>1. At("Callback") /\ UNCHANGED <<clock, refreshRequested, events>> /\ UNCHANGED serviceVars
    BY <1>3 DEF CallbackReturn
  <2>2. /\ ThreadOK(Below) /\ Below[1] = stack[1] /\ Top.now \in Time /\ Place # "Sleep"
        /\ Top.inv \in JobInvocation
    BY <1>0, <2>1, InCall
  <2>3. Top.inv.slotIndex \in Slots
    BY <2>2 DEF JobInvocation
  <2>4. PICK g \in Grants : HandleCompletion(Top.inv.slotIndex, Top.now, g, Below)
    BY <1>3 DEF CallbackReturn
  <2>5. CoreInv(core') /\ Called(Below) /\ IsBagOf(inflight', JobInvocation)
    BY <1>0, <2>2, <2>3, <2>4, HandleCompletionInv
  <2>6. ThreadOK(stack') /\ stack'[1] = stack[1]
    BY <2>2, <2>5, CalledThread DEF Place
  <2>7. ServiceTypeOK'
    BY <1>0, <2>1, <2>5, <2>6 DEF ServiceTypeOK, serviceVars
  <2> QED
    BY <1>0, <2>1, <2>2, <2>6, <2>7 DEF SInv, Notified, OnTime, Place, serviceVars
<1>4. CASE DispatchDue /\ UNCHANGED serviceVars
  <2> DEFINE c == PruneInvalidDueEntries(core)
  <2>1. /\ At("Dispatch") /\ UNCHANGED <<clock, refreshRequested, events>>
        /\ UNCHANGED serviceVars
    BY <1>4 DEF DispatchDue
  <2>2. Place = "Dispatch" /\ Top.now \in Time /\ CoreInv(c)
    BY <1>0, <1>1, <2>1, PruneInv DEF LoopPlaces
  <2>3. /\ CoreInv(core') /\ IsBagOf(inflight', JobInvocation)
        /\ ThreadOK(stack') /\ stack'[1].at \in {"Dispatch", "Settle"}
        /\ stack'[1].now = stack[1].now
    <3>1. CASE core' = c /\ Goto("Settle") /\ UNCHANGED inflight
      BY <1>0, <2>1, <2>2, <3>1, GotoPlace DEF LoopPlaces
    <3>2. CASE ~(core' = c /\ Goto("Settle") /\ UNCHANGED inflight)
      <4>1. PICK e \in TopEntries(c), g \in Grants :
              LET s == e.slotIndex
                  p == PopDue(c, e)
              IN IF p.jobs[s].paused \/ Busy(p.jobs[s])
                 THEN core' = SkipDue(p, s) /\ UNCHANGED <<stack, inflight>>
                 ELSE DispatchOne(p, s, Top.now, FALSE, g, stack)
        BY <1>4, <3>2 DEF DispatchDue
      <4> DEFINE s == e.slotIndex
                 p == PopDue(c, e)
      <4> HIDE DEF c
      <4>2. /\ s \in Slots /\ CoreInvBut(p, s)
            /\ p.jobs[s] \in JobRecord /\ Live(p.jobs[s])
        BY <2>2, PopInv
      <4>3. CoreInv(core') /\ Called(stack) /\ IsBagOf(inflight', JobInvocation)
        <5>1. CASE p.jobs[s].paused \/ Busy(p.jobs[s])
          BY <1>0, <4>1, <4>2, <5>1, SkipDueInv DEF Called
        <5>2. CASE ~(p.jobs[s].paused \/ Busy(p.jobs[s]))
          <6>1. Runnable(p.jobs[s]) /\ DispatchOne(p, s, Top.now, FALSE, g, stack)
            BY <4>1, <4>2, <5>2 DEF Runnable
          <6> HIDE DEF s, p
          <6> QED
            BY <1>0, <2>2, <4>2, <6>1, DispatchOneInv
        <5> QED
          BY <5>1, <5>2
      <4>4. ThreadOK(stack') /\ stack'[1] = stack[1]
        BY <1>0, <2>2, <4>3, CalledThread DEF Place
      <4> QED
        BY <2>2, <4>3, <4>4 DEF Place
    <3> QED
      BY <3>1, <3>2
  <2>4. ServiceTypeOK'
    BY <1>0, <2>1, <2>3 DEF ServiceTypeOK, serviceVars
  <2> QED
    BY <1>0, <2>1, <2>2, <2>3, <2>4 DEF SInv, Notified, OnTime, Place, serviceVars
<1>5. CASE GoToSleep
  <2>1. /\ At("Settle") /\ Goto("Sleep")
        /\ core' = IF ClockValid(core, Top.now) THEN PruneInvalidDueEntries(core) ELSE core
        /\ wait' = WaitTicks(core', Top.now)
        /\ lag' = IF clock > Top.now THEN clock - Top.now ELSE 0
        /\ UNCHANGED <<clock, refreshRequested, inflight, events, commands, handles, sync>>
    BY <1>5 DEF GoToSleep
  <2>2. Place = "Settle" /\ Top = stack[1] /\ Top.now \in Time
    BY <1>1, <2>1 DEF LoopPlaces
  <2>3. ThreadOK(stack') /\ stack'[1].at = "Sleep" /\ stack'[1].now = stack[1].now
    BY <1>0, <2>1, GotoPlace DEF LoopPlaces
  <2>4. CoreInv(core')
    BY <1>0, <2>1, PruneInv
  <2>5. wait' \in Nat /\ lag' \in Nat
    BY <1>0, <2>1, <2>2, <2>4, WaitTicksBounds DEF Time
  <2>6. ServiceTypeOK'
    BY <1>0, <2>1, <2>3, <2>4, <2>5 DEF ServiceTypeOK
  <2>7. ASSUME Top.now <= clock PROVE Timely(core', Top.now, clock', wait', lag')
    <3>1. lag' = clock - Top.now
      BY <1>0, <2>1, <2>2, <2>7 DEF Time
    <3> QED
      BY <1>0, <2>1, <2>2, <2>4, <2>7, <3>1, SleepTimely
  <2>8. OnTime'
    BY <1>0, <2>1, <2>2, <2>3, <2>7 DEF OnTime, Place
  <2>9. Notified'
    BY <1>0, <2>1, <2>2, <2>3 DEF Notified, Place
  <2> QED
    BY <2>6, <2>8, <2>9 DEF SInv
<1>6. CASE WakeUp
  <2>1. /\ handles' = IF handles > 0 THEN handles - 1 ELSE 0
        /\ wait' = 0 /\ lag' = 0 /\ stack' = <<[at |-> "Commands", now |-> 0]>>
        /\ UNCHANGED <<core, clock, refreshRequested, inflight, events, commands, sync>>
    BY <1>6 DEF WakeUp
  <2>2. [at |-> "Commands", now |-> 0] \in BottomFrame
    BY DEF BottomFrame, LoopPlaces, Time
  <2>3. ThreadOK(stack') /\ stack'[1].at = "Commands"
    BY <2>1, <2>2, LoopMoves
  <2>4. ServiceTypeOK'
    BY <1>0, <2>1, <2>3 DEF ServiceTypeOK
  <2> QED
    BY <2>3, <2>4 DEF SInv, Notified, OnTime, Place
<1>7. CASE CallTimesOut
  <2>1. /\ At("SelfWait") /\ stack' = Below
        /\ UNCHANGED <<core, clock, refreshRequested, inflight, events>> /\ UNCHANGED serviceVars
    BY <1>7 DEF CallTimesOut
  <2>2. ThreadOK(Below) /\ Below[1] = stack[1] /\ Place # "Sleep"
    BY <1>0, <2>1, InCall
  <2>3. ServiceTypeOK'
    BY <1>0, <2>1, <2>2 DEF ServiceTypeOK, serviceVars
  <2> QED
    BY <1>0, <2>1, <2>2, <2>3 DEF SInv, Notified, OnTime, Place, serviceVars
<1>8. CASE CallFromCallback
  <2>1. /\ At("Callback") /\ stack' = Append(stack, [at |-> "SelfWait", now |-> 0])
        /\ UNCHANGED <<core, clock, refreshRequested, inflight, events, wait, lag, sync>>
    BY <1>8 DEF CallFromCallback
  <2>2. PICK command \in AppCommands : Enqueue(command)
    BY <1>8 DEF CallFromCallback
  <2>3. handles' \in Nat /\ handles' > 0
    BY <1>0, <2>2, NotifySets DEF Enqueue
  <2>4. commands' \in Seq(AllCommands)
    BY <1>0, <2>2 DEF Enqueue, ServiceTypeOK, AllCommands
  <2>5. [at |-> "SelfWait", now |-> 0] \in CalledFrame
    BY DEF CalledFrame, Time
  <2>6. ThreadOK(stack')
    <3>1. stack[1].at # "Sleep"
      BY <1>0, <2>1, InCall DEF Place
    <3> QED
      BY <1>0, <2>1, <2>5, <3>1, CallPushed
  <2>7. ServiceTypeOK'
    BY <1>0, <2>1, <2>3, <2>4, <2>6 DEF ServiceTypeOK
  <2> QED
    BY <2>3, <2>7 DEF SInv, Notified, OnTime
<1> QED
  BY <1>2, <1>3, <1>4, <1>5, <1>6, <1>7, <1>8 DEF Dispatching

--------------------------------------------------------------------------------
(* The theorems *)

(* The service starts at the top of its loop, with nothing to do. *)
LEMMA ServiceInitInv == ServiceInit => SInv
<1> SUFFICES ASSUME ServiceInit PROVE SInv
  OBVIOUS
<1>1. CoreInv(core)
  <2>1. PICK m \in MinValids : core = EmptyCore(m)
    BY DEF ServiceInit
  <2>2. m \in Time
    BY ManualAssumption
  <2> QED
    BY <2>1, <2>2, EmptyCoreInv
<1>2. ThreadOK(stack) /\ stack[1].at = "Commands"
  <2>1. [at |-> "Commands", now |-> 0] \in BottomFrame
    BY DEF BottomFrame, LoopPlaces, Time
  <2> QED
    BY <2>1, LoopMoves DEF ServiceInit
<1>3. IsBagOf(inflight, JobInvocation)
  BY DEF ServiceInit, IsBagOf, EmptyBag, SetToBag, IsABag, BagToSet
<1>4. commands \in Seq(AllCommands) /\ events \in Seq(JobInvocation)
  BY DEF ServiceInit
<1>5. ServiceTypeOK
  BY <1>1, <1>2, <1>3, <1>4 DEF ServiceInit, ServiceTypeOK, Time
<1> QED
  BY <1>2, <1>5 DEF SInv, Notified, OnTime, Place, ServiceInit

(* Neither the loop nor the other tasks break the invariant. *)
LEMMA ServiceStep == SInv /\ [ServiceNext]_allVars => SInv'
<1> SUFFICES ASSUME SInv, [ServiceNext]_allVars PROVE SInv'
  OBVIOUS
<1>1. CASE OtherTasks
  BY <1>1, OtherTasksStep
<1>2. CASE Run \/ CallFromCallback
  BY <1>2, DrainStep, ServeStep DEF Run
<1>3. CASE UNCHANGED allVars
  BY <1>3 DEF allVars, vars, serviceVars, SInv, ServiceTypeOK, Notified, OnTime, Place
<1> QED
  BY <1>1, <1>2, <1>3 DEF ServiceNext

(* The invariant of run() and of the tasks that talk to it: the job table   *)
(* is in order, whatever was put into a queue that the loop has passed has  *)
(* left a handle, and a task that nothing will wake has read a clock that   *)
(* has only gone on since.                                                  *)
THEOREM ServiceInductive == ServiceSpec => []SInv
<1> QED
  BY ServiceInitInv, ServiceStep, PTL DEF ServiceSpec

(* A task that is asleep is at the bottom of its stack. *)
LEMMA AsleepPlace ==
  ASSUME SInv, Asleep
  PROVE  Place = "Sleep" /\ handles = 0 /\ Top = stack[1]
<1>1. ThreadOK(stack) /\ "Sleep" \in LoopPlaces /\ At("Sleep") /\ handles = 0
  BY DEF SInv, ServiceTypeOK, LoopPlaces, Asleep
<1> QED
  BY <1>1, AtLoop

(* The service task never sleeps on a command or an event: the loop of      *)
(* run() takes messages without their handles and the set drops handles     *)
(* when it is full, but a queue that is not empty has the task woken.       *)
THEOREM SleepCorrect == ServiceSpec => []SleepsOnlyWhenDrained
<1>1. SInv => SleepsOnlyWhenDrained
  BY AsleepPlace DEF SleepsOnlyWhenDrained, SInv, Notified
<1> QED
  BY <1>1, ServiceInductive, PTL

(* A refresh that the NTP listener asked for is not slept through, even     *)
(* when the listener found the command queue full and gave up its wake-up.  *)
THEOREM RefreshCorrect == ServiceSpec => []RefreshIsNotSleptThrough
<1>1. SInv => RefreshIsNotSleptThrough
  BY AsleepPlace DEF RefreshIsNotSleptThrough, SInv, Notified
<1> QED
  BY <1>1, ServiceInductive, PTL

(* The sleep that nextWakeTicks asks for ends in time for every job, and    *)
(* before the local day changes unless the day to come is shortened by a    *)
(* change of the clocks and about to start: late by no more than the time   *)
(* since the loop read the clock, although a conversion to ticks may wrap   *)
(* round.                                                                   *)
THEOREM WakeUpCorrect == ServiceSpec => []NeverOversleeps
<1>1. SInv => NeverOversleeps
  <2> SUFFICES ASSUME SInv, Asleep, sync = "Idle", ClockValid(core, clock)
               PROVE  /\ \A s \in Slots : LET r == core.jobs[s] IN
                           r.hasNext => wait <= lag + (IF r.nextRunUtc > clock
                                                       THEN r.nextRunUtc - clock ELSE 0)
                      /\ ~ShortDayAhead(Top.now) =>
                           \A t \in (clock + 1)..(clock + 2 * DayLen) :
                             LocalDay(t) > LocalDay(Top.now) => wait <= lag + t - clock
    BY DEF NeverOversleeps
  <2>1. Place = "Sleep" /\ handles = 0 /\ Top = stack[1]
    BY AsleepPlace
  <2>2. Timely(core, Top.now, clock, wait, lag)
    BY <2>1 DEF SInv, OnTime
  <2>3. clock \in Nat /\ DayLen \in Nat
    BY ManualAssumption DEF SInv, ServiceTypeOK, Time
  <2>4. \A t \in (clock + 1)..(clock + 2 * DayLen) : t \in Nat /\ t > clock
    BY <2>3
  <2> QED
    BY <2>2, <2>4 DEF Timely, Until
<1> QED
  BY <1>1, ServiceInductive, PTL
================================================================================
