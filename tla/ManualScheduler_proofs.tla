------------------------- MODULE ManualScheduler_proofs -------------------------
(***************************************************************************)
(* Proofs about ManualScheduler, for any slots, schedules, options, queue  *)
(* depths and bounds, with or without allocation failures: the state is    *)
(* well formed, and the job table stays consistent whatever the order of   *)
(* calls, nested calls, worker completions and clock changes.              *)
(*                                                                         *)
(* Then the runs of the jobs: every run that is counted is one callback or *)
(* completion that is still out, a run that is kept back waits for one     *)
(* that is out, no job is forgotten, no slot is lost, a one-shot runs once *)
(* and what is dead stays dead.                                            *)
(***************************************************************************)
EXTENDS ManualScheduler, SchedulerCore_proofs, Counting, FunctionTheorems

Frame == LoopFrame \cup CallbackFrame

IsBagOf(B, S) == IsABag(B) /\ BagToSet(B) \subseteq S

--------------------------------------------------------------------------------
(* Stacks and bags *)

(* The innermost frame of the stack, and the frames below it. *)
LEMMA StackParts ==
  ASSUME NEW S, NEW q \in Seq(S), q # <<>>
  PROVE  Last(q) \in S /\ Front(q) \in Seq(S)
<1>1. Len(q) \in Nat \ {0} /\ q \in [1..Len(q) -> S]
  OBVIOUS
<1>2. Last(q) \in S
  BY <1>1 DEF Last
<1>3. SubSeq(q, 1, Len(q) - 1) \in Seq(S)
  BY <1>1
<1> QED
  BY <1>2, <1>3 DEF Front

(* A bag that holds one invocation. *)
LEMMA SetToBagType ==
  ASSUME NEW S, NEW T \in SUBSET S
  PROVE  IsBagOf(SetToBag(T), S)
BY DEF IsBagOf, IsABag, BagToSet, SetToBag

(* Taking an invocation out of a bag leaves a bag of invocations. *)
LEMMA BagDifferenceType ==
  ASSUME NEW S, NEW A, IsBagOf(A, S), NEW B, IsBagOf(B, S)
  PROVE  IsBagOf(A (-) B, S)
<1> DEFINE left(e) == IF e \in DOMAIN B THEN A[e] - B[e] ELSE A[e]
           C == [e \in DOMAIN A |-> left(e)]
           D == {e \in DOMAIN C : C[e] > 0}
<1>1. /\ A \in [DOMAIN A -> {n \in Nat : n > 0}] /\ DOMAIN A \subseteq S
      /\ B \in [DOMAIN B -> {n \in Nat : n > 0}]
  BY DEF IsBagOf, IsABag, BagToSet
<1>2. A (-) B = [e \in D |-> C[e]]
  BY DEF (-)
<1>3. \A e \in DOMAIN A : left(e) \in Int
  BY <1>1
<1> HIDE DEF left
<1>4. [e \in D |-> C[e]] \in [D -> {n \in Nat : n > 0}] /\ D \subseteq S
  BY <1>1, <1>3
<1> HIDE DEF C, D
<1> QED
  BY <1>2, <1>4 DEF IsBagOf, IsABag, BagToSet

(* Two bags of invocations together are one. *)
LEMMA BagSumType ==
  ASSUME NEW S, NEW A, IsBagOf(A, S), NEW B, IsBagOf(B, S)
  PROVE  IsBagOf(A (+) B, S)
<1>1. /\ A \in [DOMAIN A -> {n \in Nat : n > 0}] /\ DOMAIN A \subseteq S
      /\ B \in [DOMAIN B -> {n \in Nat : n > 0}] /\ DOMAIN B \subseteq S
  BY DEF IsBagOf, IsABag, BagToSet
<1> QED
  BY <1>1 DEF IsBagOf, IsABag, BagToSet, (+)

(* The completions of the event queue as a bag. *)
LEMMA ToBagType ==
  ASSUME NEW S, NEW q \in Seq(S)
  PROVE  IsBagOf(ToBag(q), S)
<1>1. DOMAIN q = 1..Len(q) /\ Len(q) \in Nat
  OBVIOUS
<1>2. Range(q) \subseteq S
  BY <1>1 DEF Range
<1>3. ASSUME NEW x \in Range(q)
      PROVE  Cardinality({i \in DOMAIN q : q[i] = x}) \in {n \in Nat : n > 0}
  <2> DEFINE I == {i \in DOMAIN q : q[i] = x}
  <2>1. IsFiniteSet(1..Len(q))
    BY <1>1, FS_Interval
  <2>2. IsFiniteSet(I)
    BY <1>1, <2>1, FS_Subset
  <2>3. I # {}
    BY DEF Range
  <2> HIDE DEF I
  <2>4. Cardinality(I) \in Nat /\ Cardinality(I) # 0
    BY <2>2, <2>3, FS_CardinalityType, FS_EmptySet
  <2> QED
    BY <2>4 DEF I
<1> QED
  BY <1>2, <1>3 DEF ToBag, IsBagOf, IsABag, BagToSet

--------------------------------------------------------------------------------
(* The caller's thread *)

(* A loop frame carries a time, a callback frame its invocation too. *)
LEMMA TopFrame ==
  ASSUME TypeOK, NEW l, At(l)
  PROVE  /\ Top \in Frame /\ Below \in Seq(Frame) /\ Top.now \in Time
         /\ l = "Callback" => Top.inv \in JobInvocation
         /\ l # "Callback" => Top \in LoopFrame
<1>1. stack \in Seq(Frame) /\ stack # <<>> /\ Top.at = l
  BY DEF TypeOK, At, Frame
<1>2. Top \in Frame /\ Below \in Seq(Frame)
  BY <1>1, StackParts DEF Top, Below
<1> QED
  BY <1>1, <1>2 DEF Frame, LoopFrame, CallbackFrame

(* Moving the innermost loop on leaves a well-formed stack. *)
LEMMA GotoType ==
  ASSUME TypeOK, NEW l, At(l), l # "Callback", NEW m,
         m \in {"Drain", "Dispatch", "Settle", "RefreshDrain", "EndWait"}, Goto(m)
  PROVE  stack' \in Seq(Frame)
<1>1. Top \in LoopFrame /\ Below \in Seq(Frame)
  BY TopFrame
<1>2. [Top EXCEPT !.at = m] \in Frame
  BY <1>1 DEF LoopFrame, Frame
<1> QED
  BY <1>1, <1>2 DEF Goto

(* The thread is where it was, or has called an inline callback. *)
Called(frames) == stack' = frames \/ \E f \in CallbackFrame : stack' = Append(frames, f)

(* Either way the stack is one of frames. *)
LEMMA CalledType ==
  ASSUME NEW frames \in Seq(Frame), Called(frames)
  PROVE  stack' \in Seq(Frame)
BY DEF Called, Frame

(* dispatchOne, from the slot of an entry that was popped, or from a        *)
(* completion whose run was kept back.                                      *)
LEMMA DispatchOneInv ==
  ASSUME NEW c, NEW s \in Slots, CoreInvBut(c, s), Runnable(c.jobs[s]),
         NEW now \in Time, NEW deferred, NEW g, NEW frames,
         IsBagOf(inflight, JobInvocation),
         DispatchOne(c, s, now, deferred, g, frames)
  PROVE  CoreInv(core') /\ Called(frames) /\ IsBagOf(inflight', JobInvocation)
<1> DEFINE inv == Invocation(c, s)
           frame == [at |-> "Callback", now |-> now, inv |-> inv]
<1>1. inv \in JobInvocation
  <2>1. c.jobs[s] \in JobRecord
    BY DEF CoreInvBut, CoreState
  <2> QED
    BY <2>1 DEF Invocation, JobInvocation, JobRecord
<1>2. /\ core' = RetryLater(c, s, now, g) \/ core' = StartInvocation(c, s, deferred, g)
      /\ stack' = frames \/ stack' = Append(frames, frame)
      /\ inflight' = inflight \/ inflight' = inflight (+) SetToBag({inv})
  BY DEF DispatchOne
<1>3. frame \in CallbackFrame
  BY <1>1 DEF CallbackFrame
<1>4. CoreInv(core')
  BY <1>2, StartInv, RetryInv
<1>5. Called(frames)
  BY <1>2, <1>3 DEF Called
<1>6. IsBagOf(inflight', JobInvocation)
  BY <1>1, <1>2, SetToBagType, BagSumType
<1> QED
  BY <1>4, <1>5, <1>6

(* handleCompletion, with the dispatch of a run that was kept back. *)
LEMMA HandleCompletionInv ==
  ASSUME CoreInv(core), NEW s \in Slots, NEW now \in Time, NEW g, NEW frames,
         IsBagOf(inflight, JobInvocation),
         HandleCompletion(s, now, g, frames)
  PROVE  CoreInv(core') /\ Called(frames) /\ IsBagOf(inflight', JobInvocation)
<1> DEFINE c == Finished(core, s)
           d == TakeDeferred(c, s)
<1>1. CoreInv(c)
  BY FinishedInv
<1>2. CASE DeferredDue(c, s)
  <2>1. Runnable(c.jobs[s])
    BY <1>2 DEF DeferredDue
  <2>2. DispatchOne(d, s, now, TRUE, g, frames)
    BY <1>2 DEF HandleCompletion
  <2> HIDE DEF c
  <2>3. CoreInv(d) /\ Runnable(d.jobs[s])
    BY <1>1, <2>1, TakeDeferredInv
  <2> HIDE DEF d
  <2>4. CoreInvBut(d, s)
    BY <2>3, CoreInvImpliesBut
  <2> QED
    BY <2>2, <2>3, <2>4, DispatchOneInv
<1>3. CASE ~DeferredDue(c, s)
  <2>1. core' = SettleCompletion(c, s, now, g) /\ stack' = frames /\ inflight' = inflight
    BY <1>3 DEF HandleCompletion
  <2> HIDE DEF c
  <2> QED
    BY <1>1, <2>1, SettleInv DEF Called
<1> QED
  BY <1>2, <1>3

(* Local clocks show every time but the skipped ones; a local day starts at *)
(* a time.                                                                  *)
LEMMA DayStarts ==
  ASSUME NEW t \in Nat
  PROVE  LocalDay(t) \in Nat /\ StartOfDayLocal(t) \in Nat
<1>1. /\ DayLen \in Nat /\ DayLen > 0 /\ Shift \in Nat /\ SummerStart \in Nat /\ SummerEnd \in Nat
  BY ManualAssumption
<1>2. LocalClock(t) \in Nat
  BY <1>1 DEF LocalClock, Offset
<1>3. LocalDay(t) \in Nat
  BY <1>1, <1>2 DEF LocalDay
<1> DEFINE l == LocalDay(t) * DayLen
<1>4. l \in Nat
  BY <1>1, <1>3
<1> HIDE DEF l
<1>5. TimeOfLocal(l) \in Nat
  BY <1>1, <1>4 DEF TimeOfLocal, LocalClock, Offset
<1> QED
  BY <1>3, <1>5 DEF StartOfDayLocal, l

(* What an action needs to show for the parts of the state it changes. *)
LEMMA Assemble ==
  ASSUME CoreInv(core'), started' \in BOOLEAN, clock' \in Time,
         refreshRequested' \in BOOLEAN, lastDay' \in Time \cup {NoDay},
         stack' \in Seq(Frame), IsBagOf(inflight', JobInvocation),
         events' \in Seq(JobInvocation), IsBagOf(lost', JobInvocation)
  PROVE  IInv'
BY DEF IInv, TypeOK, CoreInv, Frame, IsBagOf

(* What an action may use of the invariant. *)
LEMMA Parts ==
  ASSUME IInv
  PROVE  /\ TypeOK /\ CoreInv(core)
         /\ started \in BOOLEAN /\ clock \in Time /\ refreshRequested \in BOOLEAN
         /\ lastDay \in Time \cup {NoDay}
         /\ stack \in Seq(Frame) /\ IsBagOf(inflight, JobInvocation)
         /\ events \in Seq(JobInvocation) /\ IsBagOf(lost, JobInvocation)
BY DEF IInv, TypeOK, Frame, IsBagOf

(* A loop frame that a call of the API pushes. *)
LEMMA PushFrame ==
  ASSUME IInv, NEW l \in {"Drain", "RefreshDrain", "EndWait"},
         stack' = Append(stack, [at |-> l, now |-> clock])
  PROVE  stack' \in Seq(Frame)
<1>1. [at |-> l, now |-> clock] \in Frame /\ stack \in Seq(Frame)
  BY Parts DEF Frame, LoopFrame
<1> QED
  BY <1>1

(* What end() leaves behind. *)
LEMMA DetachType ==
  ASSUME IInv, NEW frames \in Seq(Frame), Detach(frames)
  PROVE  /\ stack' \in Seq(Frame) /\ IsBagOf(lost', JobInvocation)
         /\ IsBagOf(inflight', JobInvocation) /\ events' \in Seq(JobInvocation)
         /\ started' \in BOOLEAN
<1>1. IsBagOf((lost (+) inflight) (+) ToBag(events), JobInvocation)
  BY Parts, BagSumType, ToBagType
<1>2. IsBagOf(EmptyBag, JobInvocation)
  BY SetToBagType DEF EmptyBag
<1>3. <<>> \in Seq(JobInvocation)
  OBVIOUS
<1> QED
  BY <1>1, <1>2, <1>3 DEF Detach

(* The slot that the API finds for an id. *)
LEMMA FoundSlot ==
  ASSUME CoreInv(core), NEW id, NEW s \in FindJobSlot(core, id)
  PROVE  s \in Slots /\ Live(core.jobs[s]) /\ s \in Occupied(core)
BY DEF FindJobSlot, CoreInv, CoreState, Occupied, Live

(* A scheduler that was just constructed. *)
LEMMA InitInductive == Init => IInv
<1> SUFFICES ASSUME Init PROVE IInv
  OBVIOUS
<1>1. CoreInv(core)
  BY ManualAssumption, EmptyCoreInv DEF Init
<1>2. IsBagOf(EmptyBag, JobInvocation)
  BY SetToBagType DEF EmptyBag
<1>3. stack \in Seq(LoopFrame \cup CallbackFrame) /\ events \in Seq(JobInvocation)
  BY DEF Init
<1>4. /\ started \in BOOLEAN /\ clock \in Time /\ refreshRequested \in BOOLEAN
      /\ lastDay \in Time \cup {NoDay}
  BY DEF Init, Time
<1> QED
  BY <1>1, <1>2, <1>3, <1>4 DEF Init, IInv, TypeOK, CoreInv, IsBagOf

--------------------------------------------------------------------------------
(* Every action preserves the invariant *)

(* The clock and the worker tasks do not touch the job table. *)
LEMMA EnvironmentStep == IInv /\ Environment => IInv'
<1> SUFFICES ASSUME IInv, Environment PROVE IInv'
  OBVIOUS
<1> USE Parts
<1>1. CASE AdvanceClock
  <2>1. clock' \in Time
    BY <1>1 DEF AdvanceClock, Time
  <2> QED
    BY <1>1, <2>1, Assemble DEF AdvanceClock
<1>2. CASE NtpSync
  <2>1. clock' \in Time /\ refreshRequested' \in BOOLEAN
    BY <1>2, ManualAssumption DEF NtpSync
  <2> QED
    BY <1>2, <2>1, Assemble DEF NtpSync
<1>3. CASE WorkerDone
  <2>1. PICK inv \in BagToSet(inflight) :
          /\ inflight' = inflight (-) SetToBag({inv})
          /\ \/ events' = Append(events, inv) /\ lost' = lost
             \/ events' = events /\ lost' = lost (+) SetToBag({inv})
    BY <1>3 DEF WorkerDone
  <2>2. inv \in JobInvocation
    BY <2>1 DEF IsBagOf
  <2>3. IsBagOf(SetToBag({inv}), JobInvocation)
    BY <2>2, SetToBagType
  <2>4. IsBagOf(inflight', JobInvocation)
    BY <2>1, <2>3, BagDifferenceType
  <2>5. IsBagOf(lost', JobInvocation)
    BY <2>1, <2>3, BagSumType
  <2>6. events' \in Seq(JobInvocation)
    BY <2>1, <2>2
  <2> QED
    BY <1>3, <2>4, <2>5, <2>6, Assemble DEF WorkerDone
<1> QED
  BY <1>1, <1>2, <1>3 DEF Environment

(* Every loop iteration of tick(), refreshAllSchedules() and end(true). *)
LEMMA LoopsStep == IInv /\ Loops => IInv'
<1> SUFFICES ASSUME IInv, Loops PROVE IInv'
  OBVIOUS
<1> USE Parts
<1>1. CASE DrainEvent
  <2> DEFINE inv == Head(events)
             now == IF At("EndWait") THEN clock ELSE Top.now
  <2>1. events # <<>> /\ events' = Tail(events)
    BY <1>1 DEF DrainEvent
  <2>2. inv \in JobInvocation /\ events' \in Seq(JobInvocation)
    BY <2>1
  <2>3. inv.slotIndex \in Slots
    BY <2>2 DEF JobInvocation
  <2>4. now \in Time
    BY <1>1, TopFrame DEF DrainEvent
  <2>5. \/ \E g \in Grants : HandleCompletion(inv.slotIndex, now, g, stack)
        \/ UNCHANGED <<core, stack, inflight>>
    BY <1>1 DEF DrainEvent
  <2> HIDE DEF inv, now
  <2>6. CoreInv(core') /\ stack' \in Seq(Frame) /\ IsBagOf(inflight', JobInvocation)
    BY <2>3, <2>4, <2>5, HandleCompletionInv, CalledType
  <2> QED
    BY <1>1, <2>2, <2>6, Assemble DEF DrainEvent
<1>2. CASE CallbackReturn
  <2>1. Top.inv \in JobInvocation /\ Below \in Seq(Frame) /\ Top.now \in Time
    BY <1>2, TopFrame DEF CallbackReturn
  <2>2. Top.inv.slotIndex \in Slots
    BY <2>1 DEF JobInvocation
  <2>3. PICK g \in Grants : HandleCompletion(Top.inv.slotIndex, Top.now, g, Below)
    BY <1>2 DEF CallbackReturn
  <2>4. CoreInv(core') /\ stack' \in Seq(Frame) /\ IsBagOf(inflight', JobInvocation)
    BY <2>1, <2>2, <2>3, HandleCompletionInv, CalledType
  <2> QED
    BY <1>2, <2>4, Assemble DEF CallbackReturn
<1>3. CASE TickDispatch
  <2>1. Top.now \in Time
    BY <1>3, TopFrame DEF TickDispatch
  <2>2. lastDay' \in Time \cup {NoDay}
    <3>1. lastDay' = StartOfDayLocal(Top.now)
      BY <1>3 DEF TickDispatch
    <3> QED
      BY <2>1, <3>1, DayStarts DEF Time
  <2>3. CoreInv(core')
    <3>1. PICK g \in Grants, h \in Grants :
            \/ core' = DrainPendingSchedules(core, Top.now, h)
            \/ core' = DrainPendingSchedules(RefreshAllSchedules(core, Top.now, g), Top.now, h)
      BY <1>3 DEF TickDispatch
    <3> QED
      BY <3>1, DrainInv, RefreshInv
  <2>4. stack' \in Seq(Frame)
    BY <1>3, GotoType DEF TickDispatch
  <2> QED
    BY <1>3, <2>2, <2>3, <2>4, Assemble DEF TickDispatch
<1>4. CASE DispatchDue
  <2> DEFINE c == PruneInvalidDueEntries(core)
  <2>1. CoreInv(c) /\ At("Dispatch") /\ Top.now \in Time
    BY <1>4, PruneInv, TopFrame DEF DispatchDue
  <2>2. CoreInv(core') /\ stack' \in Seq(Frame) /\ IsBagOf(inflight', JobInvocation)
    <3>1. CASE core' = c /\ Goto("Settle") /\ UNCHANGED inflight
      BY <2>1, <3>1, GotoType
    <3>2. CASE ~(core' = c /\ Goto("Settle") /\ UNCHANGED inflight)
      <4>1. PICK e \in TopEntries(c), g \in Grants :
              LET s == e.slotIndex
                  p == PopDue(c, e)
              IN IF p.jobs[s].paused \/ Busy(p.jobs[s])
                 THEN core' = SkipDue(p, s) /\ UNCHANGED <<stack, inflight>>
                 ELSE DispatchOne(p, s, Top.now, FALSE, g, stack)
        BY <1>4, <3>2 DEF DispatchDue
      <4> DEFINE s == e.slotIndex
                 p == PopDue(c, e)
      <4> HIDE DEF c
      <4>2. /\ s \in Slots /\ CoreInvBut(p, s)
            /\ p.jobs[s] \in JobRecord /\ Live(p.jobs[s])
        BY <2>1, PopInv
      <4>3. CASE p.jobs[s].paused \/ Busy(p.jobs[s])
        BY <4>1, <4>2, <4>3, SkipDueInv
      <4>4. CASE ~(p.jobs[s].paused \/ Busy(p.jobs[s]))
        <5>1. Runnable(p.jobs[s]) /\ DispatchOne(p, s, Top.now, FALSE, g, stack)
          BY <4>1, <4>2, <4>4 DEF Runnable
        <5> HIDE DEF s, p
        <5> QED
          BY <2>1, <4>2, <5>1, DispatchOneInv, CalledType
      <4> QED
        BY <4>3, <4>4
    <3> QED
      BY <3>1, <3>2
  <2> QED
    BY <1>4, <2>2, Assemble DEF DispatchDue
<1>5. CASE TickReturn
  <2>1. stack' \in Seq(Frame)
    BY <1>5, TopFrame DEF TickReturn
  <2> QED
    BY <1>5, <2>1, Assemble DEF TickReturn
<1>6. CASE RefreshReturn
  <2>1. stack' \in Seq(Frame) /\ Top.now \in Time
    BY <1>6, TopFrame DEF RefreshReturn
  <2>2. CoreInv(core')
    BY <1>6, RefreshInv DEF RefreshReturn
  <2> QED
    BY <1>6, <2>1, <2>2, Assemble DEF RefreshReturn
<1>7. CASE EndReturn
  <2>1. Below \in Seq(Frame)
    BY <1>7, TopFrame DEF EndReturn
  <2>2. /\ stack' \in Seq(Frame) /\ IsBagOf(lost', JobInvocation)
        /\ IsBagOf(inflight', JobInvocation) /\ events' \in Seq(JobInvocation)
        /\ started' \in BOOLEAN
    BY <1>7, <2>1, DetachType DEF EndReturn
  <2> QED
    BY <1>7, <2>2, Assemble DEF EndReturn
<1> QED
  BY <1>1, <1>2, <1>3, <1>4, <1>5, <1>6, <1>7 DEF Loops

(* A call of the API that changes only the job table. *)
LEMMA APICallStep ==
  ASSUME IInv, NEW c, CoreInv(c), APICall(c)
  PROVE  IInv'
BY Parts, Assemble DEF APICall

(* Every call of the API, up to its first loop. *)
LEMMA ApplicationStep == IInv /\ Application => IInv'
<1> SUFFICES ASSUME IInv, Application PROVE IInv'
  OBVIOUS
<1> USE Parts
<1>1. CASE Tick
  <2>1. stack' \in Seq(Frame)
    BY <1>1, PushFrame DEF Tick
  <2> QED
    BY <1>1, <2>1, Assemble DEF Tick
<1>2. CASE RefreshCall
  <2>1. stack' \in Seq(Frame)
    BY <1>2, PushFrame DEF RefreshCall
  <2> QED
    BY <1>2, <2>1, Assemble DEF RefreshCall
<1>3. CASE AddJobCall
  <2>1. PICK spec \in Schedules, options \in Options, s \in AddSlots(core), g \in Grants :
          \/ APICall(AddJob(core, s, spec, options, clock, g))
          \/ APICall(AddJobNoMemory(core))
    BY <1>3 DEF AddJobCall
  <2>2. options \in JobOptions
    BY ManualAssumption
  <2>3. CoreInv(AddJob(core, s, spec, options, clock, g)) /\ CoreInv(AddJobNoMemory(core))
    BY <2>2, AddJobInv, NoMemoryInv
  <2> QED
    BY <2>1, <2>3, APICallStep
<1>4. CASE CancelJobCall
  <2>1. PICK id \in 1..MaxId : \E s \in FindJobSlot(core, id), g \in Grants :
          APICall(CancelSlots(core, {s}, g))
    BY <1>4 DEF CancelJobCall, CancelJob
  <2>2. PICK s \in FindJobSlot(core, id), g \in Grants : APICall(CancelSlots(core, {s}, g))
    BY <2>1
  <2>3. {s} \subseteq Occupied(core)
    BY FoundSlot
  <2>4. CoreInv(CancelSlots(core, {s}, g))
    BY <2>3, CancelInv
  <2> QED
    BY <2>2, <2>4, APICallStep
<1>5. CASE PauseJobCall
  <2>1. PICK id \in 1..MaxId : \E s \in FindJobSlot(core, id) : APICall(PauseJob(core, s))
    BY <1>5 DEF PauseJobCall
  <2>2. PICK s \in FindJobSlot(core, id) : APICall(PauseJob(core, s))
    BY <2>1
  <2>3. CoreInv(PauseJob(core, s))
    BY FoundSlot, PauseInv
  <2> QED
    BY <2>2, <2>3, APICallStep
<1>6. CASE ResumeJobCall
  <2>1. PICK id \in 1..MaxId : \E s \in FindJobSlot(core, id), g \in Grants :
          APICall(ResumeJob(core, s, clock, g))
    BY <1>6 DEF ResumeJobCall
  <2>2. PICK s \in FindJobSlot(core, id), g \in Grants : APICall(ResumeJob(core, s, clock, g))
    BY <2>1
  <2>3. CoreInv(ResumeJob(core, s, clock, g))
    BY FoundSlot, ResumeInv
  <2> QED
    BY <2>2, <2>3, APICallStep
<1>7. ASSUME NEW g PROVE CoreInv(CancelAll(core, g))
  <2>1. {s \in Slots : Live(core.jobs[s])} \subseteq Occupied(core)
    BY DEF Occupied, Live
  <2> QED
    BY <2>1, CancelInv DEF CancelAll
<1>8. CASE CancelAllCall
  BY <1>7, <1>8, APICallStep DEF CancelAllCall
<1>9. CASE SetMinValidUnixSeconds
  <2>1. PICK m \in MinValids : core' = [core EXCEPT !.minValid = m]
    BY <1>9 DEF SetMinValidUnixSeconds
  <2>2. CoreInv(core')
    BY <2>1, ManualAssumption, MinValidInv
  <2> QED
    BY <1>9, <2>2, Assemble DEF SetMinValidUnixSeconds
<1>10. CASE Begin
  BY <1>10, Assemble DEF Begin
<1>11. CASE End
  <2>1. CoreInv(core')
    BY <1>7, <1>11 DEF End
  <2>2. refreshRequested' = FALSE /\ lastDay' = NoDay /\ clock' = clock
    BY <1>11 DEF End
  <2>3. CASE Detach(stack)
    <3>1. /\ stack' \in Seq(Frame) /\ IsBagOf(lost', JobInvocation)
          /\ IsBagOf(inflight', JobInvocation) /\ events' \in Seq(JobInvocation)
          /\ started' \in BOOLEAN
      BY <2>3, DetachType
    <3> QED
      BY <2>1, <2>2, <3>1, Assemble
  <2>4. CASE /\ stack' = Append(stack, [at |-> "EndWait", now |-> clock])
             /\ UNCHANGED <<started, inflight, events, lost>>
    <3>1. stack' \in Seq(Frame)
      BY <2>4, PushFrame
    <3> QED
      BY <2>1, <2>2, <2>4, <3>1, Assemble
  <2> QED
    BY <1>11, <2>3, <2>4 DEF End
<1> QED
  BY <1>1, <1>2, <1>3, <1>4, <1>5, <1>6, <1>8, <1>9, <1>10, <1>11 DEF Application

(* Every step of the scheduler preserves the invariant. *)
LEMMA NextInductive == IInv /\ [Next]_vars => IInv'
<1> SUFFICES ASSUME IInv, [Next]_vars PROVE IInv'
  OBVIOUS
<1>1. CASE UNCHANGED vars
  BY <1>1, Parts, Assemble DEF vars
<1> QED
  BY <1>1, EnvironmentStep, LoopsStep, ApplicationStep DEF Next

--------------------------------------------------------------------------------
(* Theorems *)

(* The invariant holds of the scheduler in manual mode. *)
THEOREM Inductive == Spec => []IInv
BY InitInductive, NextInductive, PTL DEF Spec

(* The scheduler's state is always well formed: no handler writes a slot    *)
(* out of range, a negative count or a frame of the wrong kind.             *)
THEOREM TypeCorrect == Spec => []TypeOK
<1>1. IInv => TypeOK
  BY DEF IInv
<1> QED
  BY <1>1, Inductive, PTL

(* No job is primed but undispatchable, also when pushes to the due heap    *)
(* fail: what getJobInfo shows as the next run will be found by dispatchDue.*)
THEOREM PrimedCorrect == Spec => []PrimedIsDispatchable
<1>1. IInv => PrimedIsDispatchable
  BY DEF IInv, CoreInv, PrimedIsDispatchable
<1> QED
  BY <1>1, Inductive, PTL

(* Index, free list and job table agree: no two jobs share an id and no     *)
(* slot is both free and occupied, for any number of jobs and reuses.       *)
THEOREM TableCorrect == Spec => []TableConsistent
<1>1. IInv => TableConsistent
  BY DEF IInv, CoreInv, TableConsistent
<1> QED
  BY <1>1, Inductive, PTL

--------------------------------------------------------------------------------
(* Copies in a bag *)

Picked(A, P) == {p \in Copies(A) : p[1] \in P}

(* The copies are the pairs of an element and a number up to its count. *)
LEMMA InPicked ==
  ASSUME NEW A, NEW P, NEW p
  PROVE  p \in Picked(A, P)
           <=> \E x \in DOMAIN A, k \in Nat : k \in 1..A[x] /\ p = <<x, k>> /\ x \in P
BY DEF Picked, Copies

(* The copies in two bags that are put together are as many as in both. *)
LEMMA PickedSum ==
  ASSUME NEW A, IsABag(A), NEW B, IsABag(B), NEW P,
         IsFiniteSet(Picked(A, P)), IsFiniteSet(Picked(B, P))
  PROVE  /\ IsFiniteSet(Picked(A (+) B, P))
         /\ Cardinality(Picked(A (+) B, P))
              = Cardinality(Picked(A, P)) + Cardinality(Picked(B, P))
<1> DEFINE n(x) == IF x \in DOMAIN A THEN A[x] ELSE 0
           m(x) == IF x \in DOMAIN B THEN B[x] ELSE 0
           C == A (+) B
           T == Picked(C, P) \ Picked(A, P)
           f == [p \in Picked(B, P) |-> <<p[1], n(p[1]) + p[2]>>]
<1>1. /\ \A x \in DOMAIN A : A[x] \in Nat /\ A[x] > 0
      /\ \A x \in DOMAIN B : B[x] \in Nat /\ B[x] > 0
  BY DEF IsABag
<1>2. /\ DOMAIN C = DOMAIN A \cup DOMAIN B
      /\ \A x \in DOMAIN C : C[x] = n(x) + m(x)
      /\ \A x : n(x) \in Nat /\ m(x) \in Nat
  BY <1>1 DEF (+)
<1>3. \A x \in DOMAIN A : n(x) = A[x]
  OBVIOUS
<1>4. \A x \in DOMAIN B : m(x) = B[x]
  OBVIOUS
<1>5. \A x : x \notin DOMAIN A => n(x) = 0
  OBVIOUS
<1>6. \A x : x \notin DOMAIN B => m(x) = 0
  OBVIOUS
<1> HIDE DEF n, m, C
<1>7. Picked(A, P) \subseteq Picked(C, P)
  <2> SUFFICES ASSUME NEW p \in Picked(A, P) PROVE p \in Picked(C, P)
    OBVIOUS
  <2>1. PICK x \in DOMAIN A, k \in Nat : k \in 1..A[x] /\ p = <<x, k>> /\ x \in P
    BY InPicked
  <2>2. x \in DOMAIN C /\ k \in 1..C[x]
    BY <1>1, <1>2, <1>3, <2>1
  <2> QED
    BY <2>1, <2>2, InPicked
<1>8. f \in [Picked(B, P) -> T]
  <2> SUFFICES ASSUME NEW p \in Picked(B, P) PROVE <<p[1], n(p[1]) + p[2]>> \in T
    OBVIOUS
  <2>1. PICK x \in DOMAIN B, k \in Nat : k \in 1..B[x] /\ p = <<x, k>> /\ x \in P
    BY InPicked
  <2>2. x \in DOMAIN C /\ n(x) + k \in 1..C[x] /\ n(x) + k > n(x)
    BY <1>1, <1>2, <1>4, <2>1
  <2>3. <<x, n(x) + k>> \in Picked(C, P)
    BY <2>1, <2>2, InPicked
  <2>4. <<x, n(x) + k>> \notin Picked(A, P)
    <3> SUFFICES ASSUME NEW y \in DOMAIN A, NEW j \in Nat, j \in 1..A[y], <<x, n(x) + k>> = <<y, j>>
                 PROVE  FALSE
      BY InPicked
    <3>1. y = x /\ j = n(x) + k
      OBVIOUS
    <3> QED
      BY <1>1, <1>3, <2>2, <3>1
  <2> QED
    BY <2>1, <2>3, <2>4
<1>9. \A p, q \in Picked(B, P) : f[p] = f[q] => p = q
  <2> SUFFICES ASSUME NEW p \in Picked(B, P), NEW q \in Picked(B, P),
                      <<p[1], n(p[1]) + p[2]>> = <<q[1], n(q[1]) + q[2]>>
               PROVE  p = q
    OBVIOUS
  <2>1. PICK x \in DOMAIN B, k \in Nat : k \in 1..B[x] /\ p = <<x, k>>
    BY InPicked
  <2>2. PICK y \in DOMAIN B, j \in Nat : j \in 1..B[y] /\ q = <<y, j>>
    BY InPicked
  <2>3. x = y /\ n(x) + k = n(y) + j
    BY <2>1, <2>2
  <2> QED
    BY <1>2, <2>1, <2>2, <2>3
<1>10. \A t \in T : \E p \in Picked(B, P) : f[p] = t
  <2> SUFFICES ASSUME NEW t \in T PROVE \E p \in Picked(B, P) : f[p] = t
    OBVIOUS
  <2>1. PICK x \in DOMAIN C, k \in Nat : k \in 1..C[x] /\ t = <<x, k>> /\ x \in P
    BY InPicked
  <2>2. ~(x \in DOMAIN A /\ k \in 1..A[x])
    BY <2>1, InPicked
  <2>3. k > n(x) /\ k \in Nat /\ n(x) \in Nat
    BY <1>2, <1>3, <1>5, <2>1, <2>2
  <2>4. x \in DOMAIN B /\ k - n(x) \in 1..B[x]
    BY <1>2, <1>4, <1>6, <2>1, <2>3
  <2>5. <<x, k - n(x)>> \in Picked(B, P)
    BY <2>1, <2>4, InPicked
  <2>6. f[<<x, k - n(x)>>] = t
    BY <2>1, <2>3, <2>5
  <2> QED
    BY <2>5, <2>6
<1>11. ExistsBijection(Picked(B, P), T)
  <2>1. f \in Bijection(Picked(B, P), T)
    BY <1>8, <1>9, <1>10 DEF Bijection, Injection, Surjection, IsInjective
  <2> QED
    BY <2>1 DEF ExistsBijection
<1>12. IsFiniteSet(T) /\ Cardinality(T) = Cardinality(Picked(B, P))
  BY <1>11, FS_Bijection
<1>13. Picked(C, P) = Picked(A, P) \cup T /\ Picked(A, P) \cap T = {}
  BY <1>7
<1> HIDE DEF T, f
<1>14. Cardinality({}) = 0 /\ Cardinality(Picked(A, P)) \in Nat /\ Cardinality(T) \in Nat
  BY <1>12, FS_EmptySet, FS_CardinalityType
<1>15. /\ IsFiniteSet(Picked(A, P) \cup T)
       /\ Cardinality(Picked(A, P) \cup T)
            = Cardinality(Picked(A, P)) + Cardinality(T) - Cardinality(Picked(A, P) \cap T)
  BY <1>12, FS_Union
<1>16. /\ IsFiniteSet(Picked(C, P))
       /\ Cardinality(Picked(C, P)) = Cardinality(Picked(A, P)) + Cardinality(Picked(B, P))
  <2>1. Cardinality(Picked(A, P) \cap T) = 0
    BY <1>13, <1>14
  <2>2. Cardinality(Picked(A, P) \cup T) = Cardinality(Picked(A, P)) + Cardinality(Picked(B, P))
    BY ONLY <1>12, <1>14, <1>15, <2>1
  <2> QED
    BY <1>13, <1>15, <2>2
<1> QED
  BY <1>16 DEF C

(* Invocations of one job, and of all. *)
InvocationsOf(id) == {inv \in JobInvocation : inv.jobId = id}

(* A bag of finitely many invocations. *)
Holds(A) == IsBagOf(A, JobInvocation) /\ IsFiniteSet(Copies(A))

(* What CopiesOf counts in such a bag. *)
LEMMA CopiesPicked ==
  ASSUME NEW A, IsBagOf(A, JobInvocation), NEW id
  PROVE  /\ CopiesOf(id, A) = Cardinality(Picked(A, InvocationsOf(id)))
         /\ Copies(A) = Picked(A, JobInvocation)
<1>1. \A p \in Copies(A) : p[1] \in JobInvocation
  BY DEF Copies, IsBagOf, BagToSet
<1> QED
  BY <1>1 DEF Picked, CopiesOf, InvocationsOf

(* The count is a number, and zero when no invocation of the job is there. *)
LEMMA CopiesCount ==
  ASSUME NEW A, Holds(A), NEW id
  PROVE  /\ IsFiniteSet(Picked(A, InvocationsOf(id)))
         /\ CopiesOf(id, A) \in Nat
         /\ CopiesOf(id, A) > 0 <=> \E inv \in BagToSet(A) : inv.jobId = id
<1> DEFINE S == Picked(A, InvocationsOf(id))
<1>1. IsBagOf(A, JobInvocation) /\ IsFiniteSet(Copies(A))
  BY DEF Holds
<1>2. S \in SUBSET Copies(A)
  BY DEF Picked
<1>3. IsFiniteSet(S)
  BY <1>1, <1>2, FS_Subset
<1>4. Cardinality(S) \in Nat /\ (Cardinality(S) = 0 <=> S = {})
  BY <1>3, FS_CardinalityType, FS_EmptySet
<1>5. CopiesOf(id, A) = Cardinality(S)
  BY <1>1, CopiesPicked
<1>6. S # {} <=> \E inv \in BagToSet(A) : inv.jobId = id
  <2>1. ASSUME NEW p \in S
        PROVE  \E inv \in BagToSet(A) : inv.jobId = id
    <3>1. PICK x \in DOMAIN A, k \in Nat : k \in 1..A[x] /\ p = <<x, k>> /\ x \in InvocationsOf(id)
      BY InPicked
    <3> QED
      BY <3>1 DEF InvocationsOf, BagToSet
  <2>2. ASSUME NEW inv \in BagToSet(A), inv.jobId = id
        PROVE  S # {}
    <3>1. inv \in DOMAIN A /\ 1 \in 1..A[inv] /\ inv \in InvocationsOf(id)
      BY <1>1, <2>2 DEF IsBagOf, IsABag, BagToSet, InvocationsOf
    <3>2. <<inv, 1>> \in S
      BY <3>1, InPicked
    <3> QED
      BY <3>2
  <2> QED
    BY <2>1, <2>2
<1> HIDE DEF S
<1> QED
  BY <1>3, <1>4, <1>5, <1>6 DEF S

(* Two bags put together hold the invocations of both. *)
LEMMA CopiesSum ==
  ASSUME NEW A, Holds(A), NEW B, Holds(B)
  PROVE  /\ Holds(A (+) B) /\ BagToSet(A (+) B) = BagToSet(A) \cup BagToSet(B)
         /\ \A id : CopiesOf(id, A (+) B) = CopiesOf(id, A) + CopiesOf(id, B)
<1>1. IsBagOf(A (+) B, JobInvocation) /\ IsABag(A) /\ IsABag(B)
  BY BagSumType DEF Holds, IsBagOf
<1>2. IsFiniteSet(Copies(A (+) B))
  <2>1. IsFiniteSet(Picked(A, JobInvocation)) /\ IsFiniteSet(Picked(B, JobInvocation))
    BY CopiesPicked DEF Holds
  <2>2. IsFiniteSet(Picked(A (+) B, JobInvocation))
    BY <1>1, <2>1, PickedSum
  <2> QED
    BY <1>1, <2>2, CopiesPicked
<1>3. ASSUME NEW id
      PROVE  CopiesOf(id, A (+) B) = CopiesOf(id, A) + CopiesOf(id, B)
  <2>1. /\ IsFiniteSet(Picked(A, InvocationsOf(id)))
        /\ IsFiniteSet(Picked(B, InvocationsOf(id)))
    BY CopiesCount
  <2>2. Cardinality(Picked(A (+) B, InvocationsOf(id)))
          = Cardinality(Picked(A, InvocationsOf(id))) + Cardinality(Picked(B, InvocationsOf(id)))
    BY <1>1, <2>1, PickedSum
  <2> QED
    BY <1>1, <2>2, CopiesPicked DEF Holds
<1>4. BagToSet(A (+) B) = BagToSet(A) \cup BagToSet(B)
  BY DEF BagToSet, (+)
<1> QED
  BY <1>1, <1>2, <1>3, <1>4 DEF Holds

One(b) == IF b THEN 1 ELSE 0

(* One invocation on its own, and none. *)
LEMMA CopiesSingle ==
  ASSUME NEW inv \in JobInvocation
  PROVE  /\ Holds(SetToBag({inv})) /\ BagToSet(SetToBag({inv})) = {inv}
         /\ \A id : CopiesOf(id, SetToBag({inv})) = One(inv.jobId = id)
<1> DEFINE A == SetToBag({inv})
<1>1. IsBagOf(A, JobInvocation) /\ DOMAIN A = {inv} /\ A[inv] = 1
  BY SetToBagType DEF SetToBag
<1>2. Copies(A) = {<<inv, 1>>}
  <2>1. \A p : p \in Picked(A, JobInvocation) <=> p = <<inv, 1>>
    BY <1>1, InPicked
  <2>2. Copies(A) = Picked(A, JobInvocation)
    BY <1>1, CopiesPicked
  <2> QED
    BY <2>1, <2>2
<1>3. IsFiniteSet({<<inv, 1>>}) /\ Cardinality({<<inv, 1>>}) = 1 /\ Cardinality({}) = 0
  BY FS_Singleton, FS_EmptySet
<1> HIDE DEF A
<1>4. ASSUME NEW id
      PROVE  CopiesOf(id, A) = One(inv.jobId = id)
  <2>1. CASE inv.jobId = id
    <3>1. {p \in Copies(A) : p[1].jobId = id} = {<<inv, 1>>}
      BY <1>2, <2>1
    <3> QED
      BY <1>3, <2>1, <3>1 DEF CopiesOf, One
  <2>2. CASE inv.jobId # id
    <3>1. {p \in Copies(A) : p[1].jobId = id} = {}
      BY <1>2, <2>2
    <3> QED
      BY <1>3, <2>2, <3>1 DEF CopiesOf, One
  <2> QED
    BY <2>1, <2>2
<1> QED
  BY <1>1, <1>2, <1>3, <1>4 DEF Holds, BagToSet, A

(* One invocation more. *)
LEMMA CopiesAdded ==
  ASSUME NEW A, Holds(A), NEW inv \in JobInvocation
  PROVE  LET B == A (+) SetToBag({inv}) IN
         /\ Holds(B) /\ BagToSet(B) = BagToSet(A) \cup {inv}
         /\ \A id : CopiesOf(id, B) = CopiesOf(id, A) + One(inv.jobId = id)
<1> DEFINE U == SetToBag({inv})
<1>1. /\ Holds(U) /\ BagToSet(U) = {inv}
      /\ \A id : CopiesOf(id, U) = One(inv.jobId = id)
  BY CopiesSingle
<1> HIDE DEF U
<1>2. /\ Holds(A (+) U) /\ BagToSet(A (+) U) = BagToSet(A) \cup BagToSet(U)
      /\ \A id : CopiesOf(id, A (+) U) = CopiesOf(id, A) + CopiesOf(id, U)
  BY <1>1, CopiesSum
<1>3. \A id : CopiesOf(id, A (+) U) = CopiesOf(id, A) + One(inv.jobId = id)
  BY <1>1, <1>2
<1> QED
  BY <1>1, <1>2, <1>3 DEF U

(* An empty bag holds nothing. *)
LEMMA CopiesNone ==
  /\ Holds(EmptyBag) /\ BagToSet(EmptyBag) = {}
  /\ \A id : CopiesOf(id, EmptyBag) = 0
<1>1. DOMAIN EmptyBag = {} /\ IsBagOf(EmptyBag, JobInvocation)
  BY SetToBagType DEF EmptyBag, SetToBag
<1>2. Copies(EmptyBag) = {}
  BY <1>1 DEF Copies
<1> QED
  BY <1>1, <1>2, FS_EmptySet DEF Holds, CopiesOf, BagToSet

(* Taking one invocation out of a bag. *)
LEMMA CopiesTaken ==
  ASSUME NEW A, Holds(A), NEW inv \in BagToSet(A)
  PROVE  LET B == A (-) SetToBag({inv}) IN
         /\ Holds(B) /\ BagToSet(B) \subseteq BagToSet(A)
         /\ \A id : CopiesOf(id, B) = CopiesOf(id, A) - One(inv.jobId = id)
<1> DEFINE U == SetToBag({inv})
           B == A (-) U
<1>1. /\ inv \in JobInvocation /\ inv \in DOMAIN A
      /\ \A x \in DOMAIN A : A[x] \in Nat /\ A[x] > 0
      /\ A = [x \in DOMAIN A |-> A[x]]
  BY DEF Holds, IsBagOf, IsABag, BagToSet
<1>2. DOMAIN U = {inv} /\ U[inv] = 1 /\ IsBagOf(U, JobInvocation)
  BY <1>1, SetToBagType DEF SetToBag
<1>3. IsBagOf(B, JobInvocation)
  BY <1>2, BagDifferenceType DEF Holds
<1>4. /\ DOMAIN B = {x \in DOMAIN A : x # inv \/ A[inv] > 1}
      /\ \A x \in DOMAIN B : B[x] = IF x = inv THEN A[inv] - 1 ELSE A[x]
  <2> DEFINE D == [x \in DOMAIN A |-> IF x \in DOMAIN U THEN A[x] - U[x] ELSE A[x]]
  <2>1. B = [x \in {y \in DOMAIN D : D[y] > 0} |-> D[x]]
    BY DEF (-)
  <2>2. \A x \in DOMAIN A : D[x] = IF x = inv THEN A[inv] - 1 ELSE A[x]
    BY <1>2
  <2>3. DOMAIN D = DOMAIN A
    OBVIOUS
  <2> HIDE DEF D, U
  <2> QED
    BY <1>1, <2>1, <2>2, <2>3
<1> HIDE DEF U, B
<1>5. Copies(B) \in SUBSET Copies(A)
  <2> SUFFICES ASSUME NEW p \in Picked(B, JobInvocation) PROVE p \in Picked(A, JobInvocation)
    BY <1>3, CopiesPicked DEF Holds
  <2>1. PICK x \in DOMAIN B, k \in Nat : k \in 1..B[x] /\ p = <<x, k>> /\ x \in JobInvocation
    BY InPicked
  <2>2. x \in DOMAIN A /\ k \in 1..A[x]
    BY <1>1, <1>4, <2>1
  <2> QED
    BY <2>1, <2>2, InPicked
<1>6. Holds(B)
  BY <1>3, <1>5, FS_Subset DEF Holds
<1>7. B (+) U = A
  <2> DEFINE C == [x \in DOMAIN B \cup DOMAIN U |->
                     (IF x \in DOMAIN B THEN B[x] ELSE 0) + (IF x \in DOMAIN U THEN U[x] ELSE 0)]
  <2>1. B (+) U = C
    BY DEF (+)
  <2>2. DOMAIN C = DOMAIN A
    BY <1>1, <1>2, <1>4, <2>1
  <2>3. ASSUME NEW x \in DOMAIN A PROVE C[x] = A[x]
    <3>1. CASE x = inv
      BY <1>1, <1>2, <1>4, <3>1
    <3>2. CASE x # inv
      BY <1>1, <1>2, <1>4, <3>2
    <3> QED
      BY <3>1, <3>2
  <2> QED
    BY <1>1, <2>1, <2>2, <2>3
<1>8. ASSUME NEW id
      PROVE  CopiesOf(id, B) = CopiesOf(id, A) - One(inv.jobId = id)
  <2>1. Holds(U) /\ CopiesOf(id, U) = One(inv.jobId = id)
    BY <1>1, CopiesSingle DEF U
  <2>2. CopiesOf(id, A) = CopiesOf(id, B) + CopiesOf(id, U)
    BY <1>6, <1>7, <2>1, CopiesSum
  <2>3. CopiesOf(id, B) \in Nat /\ One(inv.jobId = id) \in Nat
    BY <1>6, CopiesCount DEF One
  <2> QED
    BY <2>1, <2>2, <2>3
<1> QED
  BY <1>4, <1>6, <1>8 DEF B, U, BagToSet

(* The copies in the bag of a queue are the places of the queue. *)
LEMMA PickedQueue ==
  ASSUME NEW S, NEW q \in Seq(S), NEW P
  PROVE  ExistsBijection(Places(q, P), Picked(ToBag(q), P))
<1> DEFINE I(x) == {i \in DOMAIN q : q[i] = x}
           n(x) == Cardinality(I(x))
           A == ToBag(q)
           G == [x \in Range(q) |-> CHOOSE h : h \in Bijection(I(x), 1..n(x))]
           f == [i \in Places(q, P) |-> <<q[i], G[q[i]][i]>>]
<1>1. DOMAIN A = Range(q) /\ \A x \in Range(q) : A[x] = n(x)
  BY DEF ToBag
<1>2. \A i \in DOMAIN q : q[i] \in Range(q) /\ i \in I(q[i])
  BY DEF Range
<1>3. ASSUME NEW x \in Range(q)
      PROVE  G[x] \in Bijection(I(x), 1..n(x))
  <2>1. I(x) \in SUBSET DOMAIN q /\ IsFiniteSet(DOMAIN q)
    BY QueuePlaces
  <2>2. IsFiniteSet(I(x))
    BY <2>1, FS_Subset
  <2> HIDE DEF I
  <2>3. ExistsBijection(1..n(x), I(x))
    BY <2>2, FS_CardinalityType
  <2>4. ExistsBijection(I(x), 1..n(x))
    BY <2>3, Fun_ExistsBijSymmetric
  <2>5. \E h : h \in Bijection(I(x), 1..n(x))
    BY <2>4 DEF ExistsBijection
  <2> HIDE DEF n
  <2> QED
    BY <2>5
<1>4. \A x, i : i \in I(x) <=> i \in DOMAIN q /\ q[i] = x
  OBVIOUS
<1> HIDE DEF I, n, A, G
<1>5. ASSUME NEW x \in Range(q)
      PROVE  /\ G[x] \in [I(x) -> 1..n(x)]
             /\ \A i, j \in I(x) : G[x][i] = G[x][j] => i = j
             /\ \A k \in 1..n(x) : \E i \in I(x) : G[x][i] = k
  BY <1>3 DEF Bijection, Injection, Surjection, IsInjective
<1>6. f \in [Places(q, P) -> Picked(A, P)]
  <2> SUFFICES ASSUME NEW i \in Places(q, P) PROVE <<q[i], G[q[i]][i]>> \in Picked(A, P)
    OBVIOUS
  <2>1. i \in DOMAIN q /\ q[i] \in P /\ q[i] \in DOMAIN A /\ q[i] \in Range(q)
    BY <1>1, <1>2 DEF Places
  <2>2. G[q[i]][i] \in 1..A[q[i]]
    BY <1>1, <1>2, <1>5, <2>1
  <2>3. G[q[i]][i] \in Nat
    BY <2>2
  <2> QED
    BY <2>1, <2>2, <2>3, InPicked
<1>7. \A i, j \in Places(q, P) : f[i] = f[j] => i = j
  <2> SUFFICES ASSUME NEW i \in Places(q, P), NEW j \in Places(q, P),
                      <<q[i], G[q[i]][i]>> = <<q[j], G[q[j]][j]>>
               PROVE  i = j
    OBVIOUS
  <2>1. q[i] \in Range(q) /\ i \in I(q[i]) /\ j \in I(q[j]) /\ q[i] = q[j]
    BY <1>2 DEF Places
  <2>2. G[q[i]][i] = G[q[i]][j]
    BY <2>1
  <2> QED
    BY <1>5, <2>1, <2>2
<1>8. \A p \in Picked(A, P) : \E i \in Places(q, P) : f[i] = p
  <2> SUFFICES ASSUME NEW p \in Picked(A, P) PROVE \E i \in Places(q, P) : f[i] = p
    OBVIOUS
  <2>1. PICK x \in DOMAIN A, k \in Nat : k \in 1..A[x] /\ p = <<x, k>> /\ x \in P
    BY InPicked
  <2>2. x \in Range(q) /\ k \in 1..n(x)
    BY <1>1, <2>1
  <2>3. PICK i \in I(x) : G[x][i] = k
    BY <1>5, <2>2
  <2>4. i \in Places(q, P) /\ q[i] = x
    BY <1>4, <2>1 DEF Places
  <2> QED
    BY <2>1, <2>3, <2>4
<1>9. f \in Bijection(Places(q, P), Picked(A, P))
  BY <1>6, <1>7, <1>8 DEF Bijection, Injection, Surjection, IsInjective
<1> QED
  BY <1>9 DEF ExistsBijection, A

(* A queue of invocations as a bag. *)
LEMMA CopiesQueue ==
  ASSUME NEW q \in Seq(JobInvocation)
  PROVE  /\ Holds(ToBag(q)) /\ BagToSet(ToBag(q)) = Range(q)
         /\ \A id : CopiesOf(id, ToBag(q)) = HowMany(q, InvocationsOf(id))
<1>1. IsBagOf(ToBag(q), JobInvocation) /\ BagToSet(ToBag(q)) = Range(q)
  BY ToBagType DEF ToBag, BagToSet
<1>2. ASSUME NEW P
      PROVE  /\ IsFiniteSet(Picked(ToBag(q), P))
             /\ Cardinality(Picked(ToBag(q), P)) = HowMany(q, P)
  <2>1. IsFiniteSet(Places(q, P))
    BY QueuePlaces, PlacesFinite
  <2> QED
    BY <2>1, PickedQueue, FS_Bijection DEF HowMany
<1>3. IsFiniteSet(Copies(ToBag(q)))
  BY <1>1, <1>2, CopiesPicked
<1>4. ASSUME NEW id
      PROVE  CopiesOf(id, ToBag(q)) = HowMany(q, InvocationsOf(id))
  BY <1>1, <1>2, CopiesPicked
<1> QED
  BY <1>1, <1>3, <1>4 DEF Holds

--------------------------------------------------------------------------------
(* What is out: invocations with an executor, on the stack, in the event    *)
(* queue, and lost                                                          *)

CallbacksOf(id) == {f \in CallbackFrame : f.inv.jobId = id}

Calls(st) == {f.inv : f \in Range(st) \cap CallbackFrame}

World(fl, st, ev, lo) ==
  Holds(fl) /\ st \in Seq(Frame) /\ ev \in Seq(JobInvocation) /\ Holds(lo)

(* The invocations that are out, and how many there are of every job. *)
Out(fl, st, ev, lo) == BagToSet(fl) \cup Calls(st) \cup Range(ev) \cup BagToSet(lo)

Active(id, fl, st) == CopiesOf(id, fl) + HowMany(st, CallbacksOf(id))

Tally(fl, st, ev, lo) ==
  [id \in Nat |-> Active(id, fl, st) + CopiesOf(id, lo) + HowMany(ev, InvocationsOf(id))]

(* T counts the invocations of O. *)
Counts(T, O) ==
  /\ T \in [Nat -> Nat] /\ O \subseteq JobInvocation
  /\ \A id \in Nat : T[id] > 0 <=> \E inv \in O : inv.jobId = id

Plus(T, id) == [T EXCEPT ![id] = @ + 1]

(* The counts of the parts of what is out. *)
LEMMA PartCounts ==
  ASSUME NEW fl, NEW st, NEW ev, NEW lo, World(fl, st, ev, lo), NEW id
  PROVE  /\ CopiesOf(id, fl) \in Nat /\ CopiesOf(id, lo) \in Nat
         /\ HowMany(st, CallbacksOf(id)) \in Nat /\ HowMany(ev, InvocationsOf(id)) \in Nat
         /\ CopiesOf(id, fl) > 0 <=> \E inv \in BagToSet(fl) : inv.jobId = id
         /\ CopiesOf(id, lo) > 0 <=> \E inv \in BagToSet(lo) : inv.jobId = id
         /\ HowMany(st, CallbacksOf(id)) > 0 <=> \E inv \in Calls(st) : inv.jobId = id
         /\ HowMany(ev, InvocationsOf(id)) > 0 <=> \E inv \in Range(ev) : inv.jobId = id
<1>1. /\ CopiesOf(id, fl) \in Nat /\ CopiesOf(id, lo) \in Nat
      /\ CopiesOf(id, fl) > 0 <=> \E inv \in BagToSet(fl) : inv.jobId = id
      /\ CopiesOf(id, lo) > 0 <=> \E inv \in BagToSet(lo) : inv.jobId = id
  BY CopiesCount DEF World
<1>2. /\ st \in Seq(Frame) /\ ev \in Seq(JobInvocation)
      /\ IsFiniteSet(DOMAIN st) /\ IsFiniteSet(DOMAIN ev)
  BY QueuePlaces DEF World
<1>3. /\ HowMany(st, CallbacksOf(id)) \in Nat
      /\ HowMany(st, CallbacksOf(id)) = 0 <=> \A i \in DOMAIN st : st[i] \notin CallbacksOf(id)
  BY <1>2, PlacesFinite
<1>4. /\ HowMany(ev, InvocationsOf(id)) \in Nat
      /\ HowMany(ev, InvocationsOf(id)) = 0
           <=> \A i \in DOMAIN ev : ev[i] \notin InvocationsOf(id)
  BY <1>2, PlacesFinite
<1>5. (\E i \in DOMAIN st : st[i] \in CallbacksOf(id)) <=> \E inv \in Calls(st) : inv.jobId = id
  BY DEF CallbacksOf, Calls, Range
<1>6. (\E i \in DOMAIN ev : ev[i] \in InvocationsOf(id)) <=> \E inv \in Range(ev) : inv.jobId = id
  <2>1. \A i \in DOMAIN ev : ev[i] \in JobInvocation
    BY <1>2
  <2> QED
    BY <2>1 DEF InvocationsOf, Range
<1>7. HowMany(st, CallbacksOf(id)) > 0 <=> \E inv \in Calls(st) : inv.jobId = id
  BY <1>3, <1>5
<1>8. HowMany(ev, InvocationsOf(id)) > 0 <=> \E inv \in Range(ev) : inv.jobId = id
  BY <1>4, <1>6
<1> QED
  BY <1>1, <1>3, <1>4, <1>7, <1>8

(* The tally counts what is out. *)
LEMMA TallyCounts ==
  ASSUME NEW fl, NEW st, NEW ev, NEW lo, World(fl, st, ev, lo)
  PROVE  Counts(Tally(fl, st, ev, lo), Out(fl, st, ev, lo))
<1> DEFINE T == Tally(fl, st, ev, lo)
           O == Out(fl, st, ev, lo)
<1>1. ASSUME NEW id \in Nat
      PROVE  T[id] \in Nat /\ (T[id] > 0 <=> \E inv \in O : inv.jobId = id)
  <2> DEFINE a == CopiesOf(id, fl)
             b == HowMany(st, CallbacksOf(id))
             e == CopiesOf(id, lo)
             h == HowMany(ev, InvocationsOf(id))
  <2>1. T[id] = a + b + e + h
    BY DEF Tally, Active
  <2>2. /\ a \in Nat /\ b \in Nat /\ e \in Nat /\ h \in Nat
        /\ a > 0 <=> \E inv \in BagToSet(fl) : inv.jobId = id
        /\ e > 0 <=> \E inv \in BagToSet(lo) : inv.jobId = id
        /\ b > 0 <=> \E inv \in Calls(st) : inv.jobId = id
        /\ h > 0 <=> \E inv \in Range(ev) : inv.jobId = id
    BY PartCounts
  <2> HIDE DEF a, b, e, h, T
  <2>3. T[id] \in Nat /\ (T[id] > 0 <=> a > 0 \/ b > 0 \/ e > 0 \/ h > 0)
    BY <2>1, <2>2
  <2> QED
    BY <2>2, <2>3 DEF Out
<1>2. O \subseteq JobInvocation
  <2>1. BagToSet(fl) \subseteq JobInvocation /\ BagToSet(lo) \subseteq JobInvocation
    BY DEF World, Holds, IsBagOf
  <2>2. Calls(st) \subseteq JobInvocation
    BY DEF Calls, CallbackFrame
  <2>3. Range(ev) \subseteq JobInvocation
    <3>1. \A i \in DOMAIN ev : ev[i] \in JobInvocation
      BY DEF World
    <3> QED
      BY <3>1 DEF Range
  <2> QED
    BY <2>1, <2>2, <2>3 DEF Out
<1>3. T \in [Nat -> Nat]
  <2>1. T = [id \in Nat |-> T[id]]
    BY DEF Tally
  <2> HIDE DEF T
  <2> QED
    BY <1>1, <2>1
<1> HIDE DEF T, O
<1> QED
  BY <1>1, <1>2, <1>3 DEF Counts, T, O

(* A tally that differs by one for one job. *)
LEMMA TallyPlus ==
  ASSUME NEW fl, NEW st, NEW ev, NEW lo, World(fl, st, ev, lo),
         NEW gl, NEW tt, NEW vv, NEW mo, World(gl, tt, vv, mo), NEW k \in Nat,
         \A id : Active(id, gl, tt) + CopiesOf(id, mo) + HowMany(vv, InvocationsOf(id))
                 = Active(id, fl, st) + CopiesOf(id, lo) + HowMany(ev, InvocationsOf(id))
                   + One(k = id)
  PROVE  Tally(gl, tt, vv, mo) = Plus(Tally(fl, st, ev, lo), k)
<1> DEFINE T == Tally(fl, st, ev, lo)
           U == Tally(gl, tt, vv, mo)
<1>1. T \in [Nat -> Nat] /\ U \in [Nat -> Nat]
  BY TallyCounts DEF Counts
<1>2. \A id \in Nat : U[id] = T[id] + One(k = id)
  BY DEF Tally
<1> HIDE DEF T, U
<1>3. U = Plus(T, k)
  BY <1>1, <1>2 DEF Plus, One
<1> QED
  BY <1>3 DEF T, U

(* A frame that is pushed on the stack. *)
LEMMA StackPushed ==
  ASSUME NEW st \in Seq(Frame), NEW f \in Frame
  PROVE  /\ Append(st, f) \in Seq(Frame)
         /\ f \in CallbackFrame => /\ Calls(Append(st, f)) = Calls(st) \cup {f.inv}
                                   /\ \A id : HowMany(Append(st, f), CallbacksOf(id))
                                               = HowMany(st, CallbacksOf(id)) + One(f.inv.jobId = id)
         /\ f \in LoopFrame => /\ Calls(Append(st, f)) = Calls(st)
                               /\ \A id : HowMany(Append(st, f), CallbacksOf(id))
                                           = HowMany(st, CallbacksOf(id))
<1>1. Append(st, f) \in Seq(Frame)
  OBVIOUS
<1>2. Range(Append(st, f)) = Range(st) \cup {f}
  <2>1. /\ DOMAIN st = 1..Len(st) /\ Len(st) \in Nat
        /\ DOMAIN Append(st, f) = 1..(Len(st) + 1)
        /\ \A i \in 1..Len(st) : Append(st, f)[i] = st[i]
        /\ Append(st, f)[Len(st) + 1] = f
    OBVIOUS
  <2> HIDE DEF Frame
  <2>2. \A i \in 1..(Len(st) + 1) : i \in 1..Len(st) \/ i = Len(st) + 1
    BY <2>1
  <2>3. 1..Len(st) \subseteq 1..(Len(st) + 1) /\ Len(st) + 1 \in 1..(Len(st) + 1)
    BY <2>1
  <2> QED
    BY <2>1, <2>2, <2>3 DEF Range
<1>3. ASSUME NEW id
      PROVE  HowMany(Append(st, f), CallbacksOf(id))
               = HowMany(st, CallbacksOf(id)) + One(f \in CallbacksOf(id))
  BY HowManyAppend DEF One
<1>4. \A id : HowMany(st, CallbacksOf(id)) \in Nat
  BY QueuePlaces, PlacesFinite
<1>5. ASSUME f \in CallbackFrame
      PROVE  /\ Calls(Append(st, f)) = Calls(st) \cup {f.inv}
             /\ \A id : One(f \in CallbacksOf(id)) = One(f.inv.jobId = id)
  <2>1. Calls(Append(st, f)) = Calls(st) \cup {f.inv}
    BY <1>2, <1>5 DEF Calls
  <2>2. \A id : f \in CallbacksOf(id) <=> f.inv.jobId = id
    BY <1>5 DEF CallbacksOf
  <2> QED
    BY <2>1, <2>2 DEF One
<1>6. ASSUME f \in LoopFrame
      PROVE  /\ Calls(Append(st, f)) = Calls(st)
             /\ \A id : One(f \in CallbacksOf(id)) = 0
  <2>1. f \notin CallbackFrame
    BY <1>6 DEF LoopFrame, CallbackFrame
  <2> QED
    BY <1>2, <2>1 DEF Calls, CallbacksOf, One
<1>7. f \in CallbackFrame => /\ Calls(Append(st, f)) = Calls(st) \cup {f.inv}
                             /\ \A id : HowMany(Append(st, f), CallbacksOf(id))
                                         = HowMany(st, CallbacksOf(id)) + One(f.inv.jobId = id)
  BY <1>3, <1>5
<1>8. f \in LoopFrame => /\ Calls(Append(st, f)) = Calls(st)
                         /\ \A id : HowMany(Append(st, f), CallbacksOf(id))
                                     = HowMany(st, CallbacksOf(id))
  BY <1>3, <1>4, <1>6
<1> QED
  BY <1>1, <1>7, <1>8

(* The stack is what is below its innermost frame, and that frame. *)
LEMMA StackSplit ==
  ASSUME NEW S, NEW q \in Seq(S), q # <<>>
  PROVE  q = Append(Front(q), Last(q)) /\ Front(q) \in Seq(S) /\ Last(q) \in S
<1>1. Len(q) \in Nat \ {0} /\ q \in [1..Len(q) -> S]
  OBVIOUS
<1>2. Last(q) \in S /\ Front(q) \in Seq(S)
  BY StackParts
<1>3. Front(q) = SubSeq(q, 1, Len(q) - 1) /\ Last(q) = q[Len(q)]
  BY DEF Front, Last
<1>4. Len(Front(q)) = Len(q) - 1 /\ \A i \in 1..(Len(q) - 1) : Front(q)[i] = q[i]
  BY <1>1, <1>3
<1> QED
  BY <1>1, <1>2, <1>3, <1>4

(* An invocation that an executor takes. *)
LEMMA OutSubmitted ==
  ASSUME NEW fl, NEW st, NEW ev, NEW lo, World(fl, st, ev, lo), NEW inv \in JobInvocation
  PROVE  LET gl == fl (+) SetToBag({inv}) IN
         /\ World(gl, st, ev, lo)
         /\ Tally(gl, st, ev, lo) = Plus(Tally(fl, st, ev, lo), inv.jobId)
         /\ Out(gl, st, ev, lo) = Out(fl, st, ev, lo) \cup {inv}
         /\ \A id : id # inv.jobId => Active(id, gl, st) = Active(id, fl, st)
<1> DEFINE gl == fl (+) SetToBag({inv})
<1>1. /\ Holds(gl) /\ BagToSet(gl) = BagToSet(fl) \cup {inv}
      /\ \A id : CopiesOf(id, gl) = CopiesOf(id, fl) + One(inv.jobId = id)
  BY CopiesAdded DEF World
<1> HIDE DEF gl
<1>2. World(gl, st, ev, lo) /\ inv.jobId \in Nat
  BY <1>1 DEF World, JobInvocation
<1>3. Out(gl, st, ev, lo) = Out(fl, st, ev, lo) \cup {inv}
  BY <1>1 DEF Out
<1>4. ASSUME NEW id
      PROVE  Active(id, gl, st) = Active(id, fl, st) + One(inv.jobId = id)
             /\ Active(id, fl, st) \in Nat /\ CopiesOf(id, lo) \in Nat
             /\ HowMany(ev, InvocationsOf(id)) \in Nat /\ One(inv.jobId = id) \in Nat
  <2>1. /\ CopiesOf(id, fl) \in Nat /\ CopiesOf(id, lo) \in Nat
        /\ HowMany(st, CallbacksOf(id)) \in Nat /\ HowMany(ev, InvocationsOf(id)) \in Nat
    BY PartCounts
  <2>2. One(inv.jobId = id) \in Nat
    BY DEF One
  <2> QED
    BY <1>1, <2>1, <2>2 DEF Active
<1>5. Tally(gl, st, ev, lo) = Plus(Tally(fl, st, ev, lo), inv.jobId)
  <2>1. \A id : Active(id, gl, st) + CopiesOf(id, lo) + HowMany(ev, InvocationsOf(id))
                = Active(id, fl, st) + CopiesOf(id, lo) + HowMany(ev, InvocationsOf(id))
                  + One(inv.jobId = id)
    BY <1>4
  <2> QED
    BY <1>2, <2>1, TallyPlus
<1>6. \A id : id # inv.jobId => Active(id, gl, st) = Active(id, fl, st)
  BY <1>4 DEF One
<1> QED
  BY <1>2, <1>3, <1>5, <1>6 DEF gl

(* A frame that is pushed: a callback is out until it returns. *)
LEMMA OutPushed ==
  ASSUME NEW fl, NEW st, NEW ev, NEW lo, World(fl, st, ev, lo), NEW f \in Frame
  PROVE  LET tt == Append(st, f) IN
         /\ World(fl, tt, ev, lo)
         /\ f \in LoopFrame => /\ Tally(fl, tt, ev, lo) = Tally(fl, st, ev, lo)
                               /\ Out(fl, tt, ev, lo) = Out(fl, st, ev, lo)
                               /\ \A id : Active(id, fl, tt) = Active(id, fl, st)
         /\ f \in CallbackFrame => /\ Tally(fl, tt, ev, lo) = Plus(Tally(fl, st, ev, lo), f.inv.jobId)
                                   /\ Out(fl, tt, ev, lo) = Out(fl, st, ev, lo) \cup {f.inv}
                                   /\ \A id : Active(id, fl, tt)
                                               = Active(id, fl, st) + One(f.inv.jobId = id)
<1> DEFINE tt == Append(st, f)
<1>1. st \in Seq(Frame)
  BY DEF World
<1>2. /\ tt \in Seq(Frame)
      /\ f \in CallbackFrame => /\ Calls(tt) = Calls(st) \cup {f.inv}
                                /\ \A id : HowMany(tt, CallbacksOf(id))
                                            = HowMany(st, CallbacksOf(id)) + One(f.inv.jobId = id)
      /\ f \in LoopFrame => /\ Calls(tt) = Calls(st)
                            /\ \A id : HowMany(tt, CallbacksOf(id)) = HowMany(st, CallbacksOf(id))
  BY <1>1, StackPushed
<1> HIDE DEF tt
<1>3. World(fl, tt, ev, lo)
  BY <1>2 DEF World
<1>4. ASSUME f \in LoopFrame
      PROVE  /\ Tally(fl, tt, ev, lo) = Tally(fl, st, ev, lo)
             /\ Out(fl, tt, ev, lo) = Out(fl, st, ev, lo)
             /\ \A id : Active(id, fl, tt) = Active(id, fl, st)
  <2>1. \A id : Active(id, fl, tt) = Active(id, fl, st)
    BY <1>2, <1>4 DEF Active
  <2> QED
    BY <1>2, <1>4, <2>1 DEF Tally, Out
<1>5. ASSUME f \in CallbackFrame
      PROVE  /\ Tally(fl, tt, ev, lo) = Plus(Tally(fl, st, ev, lo), f.inv.jobId)
             /\ Out(fl, tt, ev, lo) = Out(fl, st, ev, lo) \cup {f.inv}
             /\ \A id : Active(id, fl, tt) = Active(id, fl, st) + One(f.inv.jobId = id)
  <2>1. f.inv.jobId \in Nat
    BY <1>5 DEF CallbackFrame, JobInvocation
  <2>2. ASSUME NEW id
        PROVE  /\ Active(id, fl, tt) = Active(id, fl, st) + One(f.inv.jobId = id)
               /\ Active(id, fl, st) \in Nat /\ CopiesOf(id, lo) \in Nat
               /\ HowMany(ev, InvocationsOf(id)) \in Nat /\ One(f.inv.jobId = id) \in Nat
    <3>1. /\ CopiesOf(id, fl) \in Nat /\ CopiesOf(id, lo) \in Nat
          /\ HowMany(st, CallbacksOf(id)) \in Nat /\ HowMany(ev, InvocationsOf(id)) \in Nat
      BY PartCounts
    <3>2. One(f.inv.jobId = id) \in Nat
      BY DEF One
    <3> QED
      BY <1>2, <1>5, <3>1, <3>2 DEF Active
  <2>3. \A id : Active(id, fl, tt) + CopiesOf(id, lo) + HowMany(ev, InvocationsOf(id))
                = Active(id, fl, st) + CopiesOf(id, lo) + HowMany(ev, InvocationsOf(id))
                  + One(f.inv.jobId = id)
    BY <2>2
  <2>4. Tally(fl, tt, ev, lo) = Plus(Tally(fl, st, ev, lo), f.inv.jobId)
    BY <1>3, <2>1, <2>3, TallyPlus
  <2>5. Out(fl, tt, ev, lo) = Out(fl, st, ev, lo) \cup {f.inv}
    BY <1>2, <1>5 DEF Out
  <2> QED
    BY <2>2, <2>4, <2>5
<1> QED
  BY <1>3, <1>4, <1>5 DEF tt

(* A completion that is taken off the event queue. *)
LEMMA OutReceived ==
  ASSUME NEW fl, NEW st, NEW ev, NEW lo, World(fl, st, ev, lo), ev # <<>>
  PROVE  LET vv == Tail(ev) IN
         /\ World(fl, st, vv, lo) /\ Head(ev) \in Out(fl, st, ev, lo)
         /\ Tally(fl, st, ev, lo) = Plus(Tally(fl, st, vv, lo), Head(ev).jobId)
         /\ Out(fl, st, vv, lo) \subseteq Out(fl, st, ev, lo)
<1> DEFINE vv == Tail(ev)
           inv == Head(ev)
<1>1. ev \in Seq(JobInvocation)
  BY DEF World
<1>2. vv \in Seq(JobInvocation) /\ inv \in JobInvocation
  BY <1>1
<1>3. Range(vv) \subseteq Range(ev) /\ inv \in Range(ev)
  <2>1. /\ Len(ev) \in Nat \ {0} /\ DOMAIN ev = 1..Len(ev) /\ inv = ev[1]
        /\ Len(vv) = Len(ev) - 1 /\ DOMAIN vv = 1..(Len(ev) - 1)
        /\ \A i \in 1..(Len(ev) - 1) : vv[i] = ev[i + 1]
    BY <1>1
  <2> HIDE DEF vv, inv
  <2>2. \A i \in 1..(Len(ev) - 1) : i + 1 \in 1..Len(ev)
    BY <2>1
  <2> QED
    BY <2>1, <2>2 DEF Range
<1>4. ASSUME NEW id
      PROVE  HowMany(vv, InvocationsOf(id)) = HowMany(ev, InvocationsOf(id)) - One(inv.jobId = id)
  <2>1. inv \in InvocationsOf(id) <=> inv.jobId = id
    BY <1>2 DEF InvocationsOf
  <2> QED
    BY <1>1, <2>1, HowManyTail DEF One
<1> HIDE DEF vv, inv
<1>5. World(fl, st, vv, lo) /\ inv.jobId \in Nat
  BY <1>2 DEF World, JobInvocation
<1>6. inv \in Out(fl, st, ev, lo) /\ Out(fl, st, vv, lo) \subseteq Out(fl, st, ev, lo)
  BY <1>3 DEF Out
<1>7. ASSUME NEW id
      PROVE  Active(id, fl, st) + CopiesOf(id, lo) + HowMany(ev, InvocationsOf(id))
               = Active(id, fl, st) + CopiesOf(id, lo) + HowMany(vv, InvocationsOf(id))
                 + One(inv.jobId = id)
  <2>1. /\ CopiesOf(id, fl) \in Nat /\ CopiesOf(id, lo) \in Nat
        /\ HowMany(st, CallbacksOf(id)) \in Nat /\ HowMany(ev, InvocationsOf(id)) \in Nat
    BY PartCounts
  <2>2. One(inv.jobId = id) \in Nat /\ Active(id, fl, st) \in Nat
    BY <2>1 DEF One, Active
  <2> QED
    BY <1>4, <2>1, <2>2
<1>8. Tally(fl, st, ev, lo) = Plus(Tally(fl, st, vv, lo), inv.jobId)
  BY <1>5, <1>7, TallyPlus
<1> QED
  BY <1>5, <1>6, <1>8 DEF vv, inv

(* An invocation whose callback returns on a worker task: its completion is *)
(* queued, or lost.                                                         *)
LEMMA OutPosted ==
  ASSUME NEW fl, NEW st, NEW ev, NEW lo, World(fl, st, ev, lo), NEW inv \in BagToSet(fl),
         NEW vv, NEW mo,
         \/ vv = Append(ev, inv) /\ mo = lo
         \/ vv = ev /\ mo = lo (+) SetToBag({inv})
  PROVE  LET gl == fl (-) SetToBag({inv}) IN
         /\ World(gl, st, vv, mo)
         /\ Tally(gl, st, vv, mo) = Tally(fl, st, ev, lo)
         /\ Out(gl, st, vv, mo) \subseteq Out(fl, st, ev, lo)
         /\ \A id : Active(id, gl, st) <= Active(id, fl, st)
<1> DEFINE gl == fl (-) SetToBag({inv})
<1>1. inv \in JobInvocation /\ ev \in Seq(JobInvocation) /\ Holds(lo) /\ Holds(fl)
  BY DEF World, Holds, IsBagOf
<1>2. /\ Holds(gl) /\ BagToSet(gl) \subseteq BagToSet(fl)
      /\ \A id : CopiesOf(id, gl) = CopiesOf(id, fl) - One(inv.jobId = id)
  BY <1>1, CopiesTaken
<1> HIDE DEF gl
<1>3. CASE vv = Append(ev, inv) /\ mo = lo
  <2>1. vv \in Seq(JobInvocation)
    BY <1>1, <1>3
  <2>2. Range(vv) = Range(ev) \cup {inv}
    <3>1. /\ DOMAIN ev = 1..Len(ev) /\ Len(ev) \in Nat
          /\ DOMAIN vv = 1..(Len(ev) + 1)
          /\ \A i \in 1..Len(ev) : vv[i] = ev[i]
          /\ vv[Len(ev) + 1] = inv
      BY <1>1, <1>3
    <3>2. \A i \in 1..(Len(ev) + 1) : i \in 1..Len(ev) \/ i = Len(ev) + 1
      BY <3>1
    <3>3. 1..Len(ev) \subseteq 1..(Len(ev) + 1) /\ Len(ev) + 1 \in 1..(Len(ev) + 1)
      BY <3>1
    <3> QED
      BY <3>1, <3>2, <3>3 DEF Range
  <2>3. ASSUME NEW id
        PROVE  HowMany(vv, InvocationsOf(id)) = HowMany(ev, InvocationsOf(id)) + One(inv.jobId = id)
    <3>1. inv \in InvocationsOf(id) <=> inv.jobId = id
      BY <1>1 DEF InvocationsOf
    <3> QED
      BY <1>1, <1>3, <3>1, HowManyAppend DEF One
  <2>4. World(gl, st, vv, mo)
    BY <1>2, <1>3, <2>1 DEF World
  <2>5. Out(gl, st, vv, mo) \subseteq Out(fl, st, ev, lo)
    BY <1>2, <1>3, <2>2 DEF Out
  <2>6. ASSUME NEW id
        PROVE  /\ Active(id, gl, st) <= Active(id, fl, st)
               /\ Active(id, gl, st) + CopiesOf(id, mo) + HowMany(vv, InvocationsOf(id))
                    = Active(id, fl, st) + CopiesOf(id, lo) + HowMany(ev, InvocationsOf(id))
    <3>1. /\ CopiesOf(id, fl) \in Nat /\ CopiesOf(id, lo) \in Nat
          /\ HowMany(st, CallbacksOf(id)) \in Nat /\ HowMany(ev, InvocationsOf(id)) \in Nat
      BY PartCounts
    <3>2. One(inv.jobId = id) \in Nat
      BY DEF One
    <3> QED
      BY <1>2, <1>3, <2>3, <3>1, <3>2 DEF Active
  <2> QED
    BY <2>4, <2>5, <2>6 DEF Tally, gl
<1>4. CASE vv = ev /\ mo = lo (+) SetToBag({inv})
  <2>1. /\ Holds(mo) /\ BagToSet(mo) = BagToSet(lo) \cup {inv}
        /\ \A id : CopiesOf(id, mo) = CopiesOf(id, lo) + One(inv.jobId = id)
    <3> DEFINE no == lo (+) SetToBag({inv})
    <3>1. /\ Holds(no) /\ BagToSet(no) = BagToSet(lo) \cup {inv}
          /\ \A id : CopiesOf(id, no) = CopiesOf(id, lo) + One(inv.jobId = id)
      BY <1>1, CopiesAdded
    <3> HIDE DEF no
    <3>2. mo = no
      BY <1>4 DEF no
    <3> QED
      BY <3>1, <3>2
  <2>2. World(gl, st, vv, mo)
    BY <1>2, <1>4, <2>1 DEF World
  <2>3. Out(gl, st, vv, mo) \subseteq Out(fl, st, ev, lo)
    BY <1>2, <1>4, <2>1 DEF Out
  <2>4. ASSUME NEW id
        PROVE  /\ Active(id, gl, st) <= Active(id, fl, st)
               /\ Active(id, gl, st) + CopiesOf(id, mo) + HowMany(vv, InvocationsOf(id))
                    = Active(id, fl, st) + CopiesOf(id, lo) + HowMany(ev, InvocationsOf(id))
    <3>1. /\ CopiesOf(id, fl) \in Nat /\ CopiesOf(id, lo) \in Nat
          /\ HowMany(st, CallbacksOf(id)) \in Nat /\ HowMany(ev, InvocationsOf(id)) \in Nat
      BY PartCounts
    <3>2. One(inv.jobId = id) \in Nat
      BY DEF One
    <3>3. /\ CopiesOf(id, gl) = CopiesOf(id, fl) - One(inv.jobId = id)
          /\ CopiesOf(id, mo) = CopiesOf(id, lo) + One(inv.jobId = id)
          /\ vv = ev
      BY <1>2, <1>4, <2>1
    <3> QED
      BY ONLY <3>1, <3>2, <3>3 DEF Active
  <2> QED
    BY <2>2, <2>3, <2>4 DEF Tally, gl
<1> QED
  BY <1>3, <1>4

(* What end() leaves behind: everything but the callbacks on the stack is   *)
(* lost.                                                                    *)
LEMMA OutDetached ==
  ASSUME NEW fl, NEW st, NEW ev, NEW lo, World(fl, st, ev, lo)
  PROVE  LET mo == (lo (+) fl) (+) ToBag(ev) IN
         /\ World(EmptyBag, st, <<>>, mo)
         /\ Tally(EmptyBag, st, <<>>, mo) = Tally(fl, st, ev, lo)
         /\ Out(EmptyBag, st, <<>>, mo) \subseteq Out(fl, st, ev, lo)
         /\ \A id : Active(id, EmptyBag, st) <= Active(id, fl, st)
<1> DEFINE mo == (lo (+) fl) (+) ToBag(ev)
<1>1. Holds(fl) /\ Holds(lo) /\ ev \in Seq(JobInvocation) /\ st \in Seq(Frame)
  BY DEF World
<1>2. /\ Holds(lo (+) fl) /\ BagToSet(lo (+) fl) = BagToSet(lo) \cup BagToSet(fl)
      /\ \A id : CopiesOf(id, lo (+) fl) = CopiesOf(id, lo) + CopiesOf(id, fl)
  BY <1>1, CopiesSum
<1>3. /\ Holds(ToBag(ev)) /\ BagToSet(ToBag(ev)) = Range(ev)
      /\ \A id : CopiesOf(id, ToBag(ev)) = HowMany(ev, InvocationsOf(id))
  BY <1>1, CopiesQueue
<1>4. /\ Holds(mo) /\ BagToSet(mo) = BagToSet(lo (+) fl) \cup BagToSet(ToBag(ev))
      /\ \A id : CopiesOf(id, mo) = CopiesOf(id, lo (+) fl) + CopiesOf(id, ToBag(ev))
  BY <1>2, <1>3, CopiesSum
<1> HIDE DEF mo
<1>5. /\ Holds(EmptyBag) /\ BagToSet(EmptyBag) = {}
      /\ \A id : CopiesOf(id, EmptyBag) = 0
  BY CopiesNone
<1>6. <<>> \in Seq(JobInvocation) /\ Range(<<>>) = {}
  BY DEF Range
<1>7. World(EmptyBag, st, <<>>, mo)
  BY <1>1, <1>4, <1>5, <1>6 DEF World
<1>8. Out(EmptyBag, st, <<>>, mo) \subseteq Out(fl, st, ev, lo)
  BY <1>2, <1>3, <1>4, <1>5, <1>6 DEF Out
<1>9. ASSUME NEW id
      PROVE  /\ Active(id, EmptyBag, st) <= Active(id, fl, st)
             /\ Active(id, EmptyBag, st) + CopiesOf(id, mo) + HowMany(<<>>, InvocationsOf(id))
                  = Active(id, fl, st) + CopiesOf(id, lo) + HowMany(ev, InvocationsOf(id))
  <2>1. /\ CopiesOf(id, fl) \in Nat /\ CopiesOf(id, lo) \in Nat
        /\ HowMany(st, CallbacksOf(id)) \in Nat /\ HowMany(ev, InvocationsOf(id)) \in Nat
    BY PartCounts
  <2>2. HowMany(<<>>, InvocationsOf(id)) = 0
    <3>1. Places(<<>>, InvocationsOf(id)) = {}
      BY DEF Places
    <3> QED
      BY <3>1, FS_EmptySet DEF HowMany
  <2>3. CopiesOf(id, mo) = CopiesOf(id, lo) + CopiesOf(id, fl) + HowMany(ev, InvocationsOf(id))
    BY <1>2, <1>3, <1>4
  <2>4. CopiesOf(id, EmptyBag) = 0
    BY <1>5
  <2> QED
    BY <2>1, <2>2, <2>3, <2>4 DEF Active
<1> QED
  BY <1>7, <1>8, <1>9 DEF Tally, mo

--------------------------------------------------------------------------------
(* The job table accounts for what is out *)

(* Every invocation that is out belongs to the job in its slot, and every   *)
(* job counts as many runs as there are invocations of it.                  *)
Accounted(c, T, O) ==
  /\ \A inv \in O : Current(c, inv)
  /\ \A s \in Slots : c.jobs[s].runningCount = T[c.jobs[s].id]

(* An invocation that is out belongs to an occupied slot, under an id that  *)
(* was handed out.                                                          *)
LEMMA OutIds ==
  ASSUME NEW c \in CoreState, Consistent(c), NEW O, O \subseteq JobInvocation,
         NEW T, Accounted(c, T, O), NEW inv \in O
  PROVE  /\ inv.slotIndex \in Slots /\ c.jobs[inv.slotIndex].occupied
         /\ inv.jobId = c.jobs[inv.slotIndex].id
         /\ inv.jobId \in Nat /\ 0 < inv.jobId /\ inv.jobId < c.nextId
<1>1. inv.slotIndex \in Slots
  BY DEF JobInvocation
<1>2. c.jobs[inv.slotIndex].occupied /\ inv.jobId = c.jobs[inv.slotIndex].id
  BY DEF Accounted, Current
<1>3. c.jobs[inv.slotIndex].id \in 1..(c.nextId - 1) /\ c.nextId \in Nat
  BY <1>1, <1>2 DEF Consistent, Occupied, CoreState
<1> QED
  BY <1>1, <1>2, <1>3

(* No job leaves while an invocation of it is out, and none enters under    *)
(* the id of one.                                                           *)
LEMMA AccountedMoves ==
  ASSUME NEW c, CoreInv(c), NEW d \in CoreState, Moves(c, d),
         NEW T, NEW O, Counts(T, O), Accounted(c, T, O)
  PROVE  Accounted(d, T, O)
<1>1. /\ c \in CoreState /\ Consistent(c) /\ O \subseteq JobInvocation
      /\ T \in [Nat -> Nat] /\ c.nextId \in Nat
      /\ \A id \in Nat : T[id] > 0 <=> \E inv \in O : inv.jobId = id
  BY DEF CoreInv, CoreState, Counts
<1>2. \A inv \in O : /\ inv.slotIndex \in Slots /\ c.jobs[inv.slotIndex].occupied
                     /\ inv.jobId = c.jobs[inv.slotIndex].id
                     /\ inv.jobId \in Nat /\ 0 < inv.jobId /\ inv.jobId < c.nextId
  BY <1>1, OutIds
<1>3. \A id \in Nat : id = 0 \/ id >= c.nextId => T[id] = 0
  BY <1>1, <1>2
<1>4. ASSUME NEW s \in Slots
      PROVE  /\ \/ Kept(d.jobs[s], c.jobs[s])
                \/ c.jobs[s].occupied /\ c.jobs[s].runningCount = 0 /\ Vacant(d.jobs[s])
                \/ /\ ~c.jobs[s].occupied /\ d.jobs[s].runningCount = 0
                   /\ d.jobs[s].id >= c.nextId
             /\ c.jobs[s].runningCount = T[c.jobs[s].id] /\ d.jobs[s].id \in Nat
  BY DEF Moves, Accounted, CoreState, JobRecord
<1>5. ASSUME NEW inv \in O
      PROVE  Current(d, inv)
  <2> DEFINE s == inv.slotIndex
  <2>1. s \in Slots /\ c.jobs[s].occupied /\ inv.jobId = c.jobs[s].id /\ inv.jobId \in Nat
    BY <1>2
  <2>2. T[inv.jobId] > 0
    BY <1>1, <2>1
  <2>3. Kept(d.jobs[s], c.jobs[s])
    BY <1>4, <2>1, <2>2
  <2>4. c.jobs[s].generation = inv.generation
    BY DEF Accounted, Current
  <2> QED
    BY <2>1, <2>3, <2>4 DEF Current, Kept, SameJob
<1>6. ASSUME NEW s \in Slots
      PROVE  d.jobs[s].runningCount = T[d.jobs[s].id]
  <2>1. CASE Kept(d.jobs[s], c.jobs[s])
    BY <1>4, <2>1 DEF Kept, SameJob
  <2>2. CASE Vacant(d.jobs[s])
    BY <1>3, <2>2 DEF Vacant
  <2>3. CASE d.jobs[s].runningCount = 0 /\ d.jobs[s].id >= c.nextId
    BY <1>3, <1>4, <2>3
  <2> QED
    BY <1>4, <2>1, <2>2, <2>3
<1> QED
  BY <1>5, <1>6 DEF Accounted

(* A run that starts is counted. *)
LEMMA AccountedStart ==
  ASSUME NEW c \in CoreState, Consistent(c), NEW d \in CoreState,
         NEW s \in Slots, c.jobs[s].occupied, SameJob(d.jobs[s], c.jobs[s]),
         d.jobs[s].runningCount = c.jobs[s].runningCount + 1,
         \A t \in Slots \ {s} : d.jobs[t] = c.jobs[t],
         NEW T \in [Nat -> Nat], NEW O, O \subseteq JobInvocation, Accounted(c, T, O)
  PROVE  Accounted(d, Plus(T, c.jobs[s].id), O \cup {Invocation(c, s)})
<1> DEFINE k == c.jobs[s].id
           U == Plus(T, k)
<1>1. k \in Nat /\ \A t \in Slots \ {s} : c.jobs[t].id # k /\ c.jobs[t].id \in Nat
  BY DEF Consistent, Occupied, CoreState, JobRecord
<1>2. U[k] = T[k] + 1 /\ \A id \in Nat : id # k => U[id] = T[id]
  BY <1>1 DEF Plus
<1> HIDE DEF U
<1>3. \A t \in Slots : SameJob(d.jobs[t], c.jobs[t])
  BY DEF SameJob
<1>4. ASSUME NEW inv \in O \cup {Invocation(c, s)}
      PROVE  Current(d, inv)
  <2>1. CASE inv \in O
    <3>1. inv.slotIndex \in Slots /\ Current(c, inv)
      BY <2>1 DEF JobInvocation, Accounted
    <3> QED
      BY <1>3, <3>1 DEF Current, SameJob
  <2>2. CASE inv = Invocation(c, s)
    BY <1>3, <2>2 DEF Current, Invocation, SameJob
  <2> QED
    BY <2>1, <2>2
<1>5. ASSUME NEW t \in Slots
      PROVE  d.jobs[t].runningCount = U[d.jobs[t].id]
  <2>1. c.jobs[t].runningCount = T[c.jobs[t].id]
    BY DEF Accounted
  <2>2. CASE t = s
    BY <1>2, <2>1, <2>2 DEF SameJob
  <2>3. CASE t # s
    BY <1>1, <1>2, <2>1, <2>3
  <2> QED
    BY <2>2, <2>3
<1> QED
  BY <1>4, <1>5 DEF Accounted, U

(* A run that completes is not counted any more; the last one lets the job  *)
(* leave.                                                                   *)
LEMMA AccountedEnd ==
  ASSUME NEW c \in CoreState, Consistent(c), NEW d \in CoreState,
         NEW T, NEW O, Counts(T, O), Accounted(c, T, O),
         NEW U, NEW P, Counts(U, P), P \subseteq O,
         NEW inv \in O, T = Plus(U, inv.jobId),
         \A t \in Slots \ {inv.slotIndex} : Kept(d.jobs[t], c.jobs[t]),
         \/ Ended(d.jobs[inv.slotIndex], c.jobs[inv.slotIndex])
         \/ /\ Less(c.jobs[inv.slotIndex].runningCount) = 0
            /\ Vacant(d.jobs[inv.slotIndex])
  PROVE  Accounted(d, U, P)
<1> DEFINE s == inv.slotIndex
           k == inv.jobId
<1>1. /\ O \subseteq JobInvocation /\ T \in [Nat -> Nat] /\ U \in [Nat -> Nat]
      /\ \A id \in Nat : U[id] > 0 <=> \E x \in P : x.jobId = id
  BY DEF Counts
<1>2. \A x \in O : /\ x.slotIndex \in Slots /\ c.jobs[x.slotIndex].occupied
                   /\ x.jobId = c.jobs[x.slotIndex].id
                   /\ x.jobId \in Nat /\ 0 < x.jobId /\ x.jobId < c.nextId
  BY <1>1, OutIds
<1>3. /\ s \in Slots /\ c.jobs[s].occupied /\ k = c.jobs[s].id /\ k \in Nat
      /\ \A t \in Slots \ {s} : c.jobs[t].id # k /\ c.jobs[t].id \in Nat
  BY <1>2 DEF Consistent, Occupied, CoreState, JobRecord
<1>4. T[k] = U[k] + 1 /\ \A id \in Nat : id # k => T[id] = U[id]
  BY <1>1, <1>3 DEF Plus
<1>5. \A t \in Slots : c.jobs[t].runningCount = T[c.jobs[t].id]
  BY DEF Accounted
<1>6. Less(c.jobs[s].runningCount) = U[k] /\ U[k] \in Nat /\ U[0] = 0
  <2>1. c.jobs[s].runningCount = U[k] + 1 /\ U[k] \in Nat
    <3>1. c.jobs[s].runningCount = T[k]
      BY ONLY <1>3, <1>5
    <3>2. U[k] \in Nat
      BY ONLY <1>1, <1>3
    <3> QED
      BY ONLY <1>4, <3>1, <3>2
  <2>2. U[0] = 0
    BY <1>1, <1>2
  <2> QED
    BY <2>1, <2>2 DEF Less
<1> HIDE DEF s, k
<1>7. ASSUME NEW x \in P
      PROVE  Current(d, x)
  <2>1. /\ x.slotIndex \in Slots /\ Current(c, x) /\ x.jobId \in Nat
        /\ x.jobId = c.jobs[x.slotIndex].id
    BY <1>2 DEF Accounted
  <2>2. CASE x.slotIndex # s
    BY <2>1, <2>2 DEF Current, Kept, SameJob, s
  <2>3. CASE x.slotIndex = s
    <3>1. U[k] > 0
      BY <1>1, <1>3, <2>1, <2>3
    <3>2. Ended(d.jobs[s], c.jobs[s])
      BY <1>6, <3>1 DEF s
    <3> QED
      BY <2>1, <2>3, <3>2 DEF Current, Ended, SameJob
  <2> QED
    BY <2>2, <2>3
<1>8. ASSUME NEW t \in Slots
      PROVE  d.jobs[t].runningCount = U[d.jobs[t].id]
  <2>1. CASE t # s
    <3>1. Kept(d.jobs[t], c.jobs[t])
      BY <2>1 DEF s
    <3> QED
      BY <1>3, <1>4, <1>5, <2>1, <3>1 DEF Kept, SameJob
  <2>2. CASE t = s /\ Ended(d.jobs[s], c.jobs[s])
    BY <1>3, <1>6, <2>2 DEF Ended, SameJob
  <2>3. CASE t = s /\ Vacant(d.jobs[s])
    BY <1>6, <2>3 DEF Vacant
  <2> QED
    BY <2>1, <2>2, <2>3 DEF s
<1> QED
  BY <1>7, <1>8 DEF Accounted

--------------------------------------------------------------------------------
(* Dispatch and completion *)

AccountedWorld(c, fl, st, ev, lo) ==
  World(fl, st, ev, lo) /\ Accounted(c, Tally(fl, st, ev, lo), Out(fl, st, ev, lo))

(* dispatchOne: a run that starts is put on the stack or with an executor.  *)
LEMMA DispatchRuns ==
  ASSUME NEW c, NEW s \in Slots, CoreInvBut(c, s), RunsInv(c), Ready(c.jobs[s]),
         NEW now \in Time, NEW deferred, NEW g, NEW frames, NEW ev, NEW lo,
         AccountedWorld(c, inflight, frames, ev, lo), CoreInv(core'),
         DispatchOne(c, s, now, deferred, g, frames)
  PROVE  /\ RunsInv(core') /\ AccountedWorld(core', inflight', stack', ev, lo)
         /\ core'.nextId = c.nextId
         /\ \A t \in Slots : /\ SameJob(core'.jobs[t], c.jobs[t])
                             /\ c.jobs[t].canceled => core'.jobs[t].canceled
         /\ \A t \in Slots \ {s} : Kept(core'.jobs[t], c.jobs[t])
         /\ g = Slots /\ AttendedBut(c, s) => AllAttended(core')
         /\ NoLeak(c) => NoLeak(core')
         /\ \A id : id # c.jobs[s].id => Active(id, inflight', stack') = Active(id, inflight, frames)
<1> DEFINE inv == Invocation(c, s)
           frame == [at |-> "Callback", now |-> now, inv |-> inv]
           T == Tally(inflight, frames, ev, lo)
           O == Out(inflight, frames, ev, lo)
<1>1. /\ c \in CoreState /\ Consistent(c) /\ c.jobs[s] \in JobRecord /\ Runnable(c.jobs[s])
      /\ core' \in CoreState
  BY DEF CoreInvBut, CoreState, Ready, CoreInv
<1>2. inv \in JobInvocation /\ inv.jobId = c.jobs[s].id
  BY <1>1 DEF Invocation, JobInvocation, JobRecord
<1>3. /\ World(inflight, frames, ev, lo) /\ Accounted(c, T, O) /\ Counts(T, O)
      /\ T \in [Nat -> Nat] /\ O \subseteq JobInvocation
  BY TallyCounts DEF AccountedWorld, Counts
<1>4. \/ core' = RetryLater(c, s, now, g) /\ stack' = frames /\ inflight' = inflight
      \/ /\ core' = StartInvocation(c, s, deferred, g)
         /\ \/ stack' = Append(frames, frame) /\ inflight' = inflight
            \/ stack' = frames /\ inflight' = inflight (+) SetToBag({inv})
  BY <1>1 DEF DispatchOne
<1>5. CASE core' = RetryLater(c, s, now, g) /\ stack' = frames /\ inflight' = inflight
  <2>1. /\ Quiet(c, core') /\ RunsInv(core')
        /\ g = Slots /\ AttendedBut(c, s) => AllAttended(core')
    BY <1>1, <1>5, RetryRuns
  <2>2. Accounted(core', T, O)
    <3>1. \A t \in Slots : Kept(core'.jobs[t], c.jobs[t])
      BY <2>1 DEF Quiet
    <3>2. \A x \in O : x.slotIndex \in Slots
      BY <1>3 DEF JobInvocation
    <3> QED
      BY <1>3, <3>1, <3>2 DEF Accounted, Current, Kept, SameJob
  <2>3. NoLeak(c) => NoLeak(core')
    BY <1>1, <2>1, QuietNoLeak
  <2> QED
    BY <1>3, <1>5, <2>1, <2>2, <2>3 DEF Quiet, Kept, AccountedWorld
<1>6. ASSUME core' = StartInvocation(c, s, deferred, g)
      PROVE  /\ RunsInv(core') /\ core'.nextId = c.nextId
             /\ \A t \in Slots : /\ SameJob(core'.jobs[t], c.jobs[t])
                                 /\ c.jobs[t].canceled => core'.jobs[t].canceled
             /\ \A t \in Slots \ {s} : Kept(core'.jobs[t], c.jobs[t])
             /\ AttendedBut(c, s) => AllAttended(core')
             /\ NoLeak(c) => NoLeak(core')
             /\ Accounted(core', Plus(T, c.jobs[s].id), O \cup {inv})
  <2>1. /\ RunsInv(core') /\ core'.nextId = c.nextId
        /\ SameJob(core'.jobs[s], c.jobs[s])
        /\ core'.jobs[s].runningCount = c.jobs[s].runningCount + 1
        /\ \A t \in Slots \ {s} : core'.jobs[t] = c.jobs[t]
        /\ AttendedBut(c, s) => AllAttended(core')
        /\ NoLeak(c) => NoLeak(core')
    BY <1>1, <1>6, StartRuns
  <2>2. c.jobs[s].occupied /\ ~c.jobs[s].canceled
    BY <1>1 DEF Runnable, Live
  <2> HIDE DEF T, O, inv
  <2>3. Accounted(core', Plus(T, c.jobs[s].id), O \cup {inv})
    BY <1>1, <1>3, <2>1, <2>2, AccountedStart DEF inv
  <2>4. \A t \in Slots : /\ SameJob(core'.jobs[t], c.jobs[t])
                         /\ c.jobs[t].canceled => core'.jobs[t].canceled
    BY <2>1, <2>2 DEF SameJob
  <2>5. \A t \in Slots \ {s} : Kept(core'.jobs[t], c.jobs[t])
    BY <2>1 DEF Kept, SameJob
  <2> QED
    BY <2>1, <2>3, <2>4, <2>5
<1>7. CASE /\ core' = StartInvocation(c, s, deferred, g)
           /\ stack' = Append(frames, frame) /\ inflight' = inflight
  <2>1. frame \in Frame /\ frame \in CallbackFrame /\ frame.inv = inv
    BY <1>2 DEF Frame, CallbackFrame
  <2> HIDE DEF frame
  <2>2. /\ World(inflight, stack', ev, lo)
        /\ Tally(inflight, stack', ev, lo) = Plus(T, inv.jobId)
        /\ Out(inflight, stack', ev, lo) = O \cup {inv}
        /\ \A id : Active(id, inflight, stack') = Active(id, inflight, frames) + One(inv.jobId = id)
    BY <1>3, <1>7, <2>1, OutPushed
  <2>3. \A id : Active(id, inflight, frames) \in Nat
    BY <1>3, PartCounts DEF Active
  <2>4. \A id : id # inv.jobId => Active(id, inflight, stack') = Active(id, inflight, frames)
    BY <2>2, <2>3 DEF One
  <2> HIDE DEF T, O, inv
  <2> QED
    BY <1>2, <1>6, <1>7, <2>2, <2>4 DEF AccountedWorld
<1>8. CASE /\ core' = StartInvocation(c, s, deferred, g)
           /\ stack' = frames /\ inflight' = inflight (+) SetToBag({inv})
  <2>1. /\ World(inflight', frames, ev, lo)
        /\ Tally(inflight', frames, ev, lo) = Plus(T, inv.jobId)
        /\ Out(inflight', frames, ev, lo) = O \cup {inv}
        /\ \A id : id # inv.jobId => Active(id, inflight', frames) = Active(id, inflight, frames)
    BY <1>2, <1>3, <1>8, OutSubmitted
  <2> HIDE DEF T, O, inv
  <2> QED
    BY <1>2, <1>6, <1>8, <2>1 DEF AccountedWorld
<1> QED
  BY <1>4, <1>5, <1>7, <1>8

(* A one-shot whose run is out neither starts nor is primed again. *)
OneShotKept(c, d) ==
  \A s \in Slots : LET r == c.jobs[s] IN
    IsOneShot(r) /\ r.runningCount > 0 =>
      \/ d.jobs[s].id = r.id /\ d.jobs[s].runningCount = 1 /\ ~d.jobs[s].hasNext
      \/ d.jobs[s].id # r.id

(* No slot holds a live job under the id. *)
Gone(c, id) == \A s \in Slots : Live(c.jobs[s]) => c.jobs[s].id # id

NoRevival(c, d) ==
  d.nextId >= c.nextId /\ \A id \in Nat : id < c.nextId /\ Gone(c, id) => Gone(d, id)

(* A job that is kept is neither revived nor, as a one-shot, run again. *)
LEMMA MovesSteps ==
  ASSUME NEW c \in CoreState, NEW d \in CoreState, RunsInv(c), RunsInv(d), Moves(c, d)
  PROVE  OneShotKept(c, d) /\ NoRevival(c, d)
<1>1. ASSUME NEW s \in Slots
      PROVE  /\ \/ Kept(d.jobs[s], c.jobs[s])
                \/ c.jobs[s].occupied /\ c.jobs[s].runningCount = 0 /\ Vacant(d.jobs[s])
                \/ /\ ~c.jobs[s].occupied /\ d.jobs[s].runningCount = 0
                   /\ d.jobs[s].id >= c.nextId
             /\ RecordOK(c.jobs[s], s \in c.pendingSchedules)
             /\ RecordOK(d.jobs[s], s \in d.pendingSchedules)
             /\ c.jobs[s].runningCount \in Nat /\ d.jobs[s].id \in Nat /\ c.nextId \in Nat
  BY DEF Moves, RunsInv, CoreState, JobRecord
<1>2. ASSUME NEW s \in Slots, IsOneShot(c.jobs[s]), c.jobs[s].runningCount > 0
      PROVE  d.jobs[s].id = c.jobs[s].id /\ d.jobs[s].runningCount = 1 /\ ~d.jobs[s].hasNext
  <2>1. Kept(d.jobs[s], c.jobs[s])
    BY <1>1, <1>2 DEF RecordOK
  <2>2. IsOneShot(d.jobs[s]) /\ d.jobs[s].runningCount > 0 /\ d.jobs[s].id = c.jobs[s].id
    BY <1>2, <2>1 DEF IsOneShot, Kept, SameJob
  <2> QED
    BY <1>1, <2>2 DEF RecordOK
<1>3. ASSUME NEW id \in Nat, id < c.nextId, Gone(c, id)
      PROVE  Gone(d, id)
  <2> SUFFICES ASSUME NEW s \in Slots, Live(d.jobs[s]) PROVE d.jobs[s].id # id
    BY DEF Gone
  <2>1. CASE Kept(d.jobs[s], c.jobs[s])
    <3>1. Live(c.jobs[s]) /\ d.jobs[s].id = c.jobs[s].id
      BY <2>1 DEF Kept, SameJob, Live
    <3> QED
      BY <1>3, <3>1 DEF Gone
  <2>2. CASE Vacant(d.jobs[s])
    BY <2>2 DEF Vacant, Live
  <2>3. CASE d.jobs[s].id >= c.nextId
    BY <1>1, <1>3, <2>3
  <2> QED
    BY <1>1, <2>1, <2>2, <2>3
<1> QED
  BY <1>2, <1>3 DEF OneShotKept, NoRevival, Moves

(* handleCompletion of an invocation that is out: fl, frames and ev are     *)
(* what is left without it.                                                 *)
LEMMA CompletionRuns ==
  ASSUME CoreInv(core), RunsInv(core), NEW T, NEW O, Counts(T, O), Accounted(core, T, O),
         NEW inv \in O, NEW frames, NEW ev, NEW lo, World(inflight, frames, ev, lo),
         T = Plus(Tally(inflight, frames, ev, lo), inv.jobId),
         Out(inflight, frames, ev, lo) \subseteq O,
         NEW now \in Time, NEW g, CoreInv(core'),
         HandleCompletion(inv.slotIndex, now, g, frames)
  PROVE  /\ RunsInv(core') /\ AccountedWorld(core', inflight', stack', ev, lo)
         /\ OneShotKept(core, core') /\ NoRevival(core, core')
         /\ g = Slots /\ AllAttended(core) => AllAttended(core')
         /\ g = Slots /\ NoLeak(core) => NoLeak(core')
         /\ \A id : Gone(core, id) => /\ Active(id, inflight', stack') = Active(id, inflight, frames)
                                      /\ inv.jobId = id => stack' = frames
<1> DEFINE s == inv.slotIndex
           r == core.jobs[s]
           c == Finished(core, s)
           U == Tally(inflight, frames, ev, lo)
           P == Out(inflight, frames, ev, lo)
<1>1. /\ core \in CoreState /\ Consistent(core) /\ core' \in CoreState
      /\ Counts(U, P) /\ O \subseteq JobInvocation
  BY TallyCounts DEF CoreInv, Counts
<1>2. /\ s \in Slots /\ r.occupied /\ inv.jobId = r.id /\ r \in JobRecord
      /\ inv.jobId \in Nat /\ 0 < inv.jobId
  BY <1>1, OutIds DEF CoreState
<1>3. CoreInv(c) /\ c \in CoreState /\ Consistent(c)
  BY <1>2, FinishedInv DEF CoreInv
<1>4. /\ Ended(c.jobs[s], r) /\ c.jobs[s].canceled = r.canceled /\ c.jobs[s].hasNext = r.hasNext
      /\ RecordFreed(c.jobs[s], s \in c.pendingSchedules) /\ RunsInvBut(c, s)
      /\ IsOneShot(c.jobs[s]) /\ r.runningCount > 0 => ~c.jobs[s].hasNext /\ c.jobs[s].occupied
      /\ \A t \in Slots \ {s} : c.jobs[t] = core.jobs[t]
      /\ c.pendingSchedules = core.pendingSchedules /\ c.nextId = core.nextId
      /\ AttendedBut(core, s) => AttendedBut(c, s)
      /\ NoLeak(core) => NoLeak(c)
  BY <1>2, FinishedRuns
<1>5. /\ IsOneShot(c.jobs[s]) = IsOneShot(r) /\ Live(c.jobs[s]) = Live(r)
      /\ c.jobs[s].id = r.id
  BY <1>4 DEF Ended, SameJob, IsOneShot, Live
<1>6. /\ \A t \in Slots : RecordOK(core.jobs[t], t \in core.pendingSchedules)
      /\ \A t \in Slots : core.jobs[t].runningCount \in Nat /\ core.jobs[t].id \in Nat
      /\ core.nextId \in Nat
  BY <1>1 DEF RunsInv, CoreState, JobRecord
<1>7. AllAttended(core) => AttendedBut(c, s)
  BY <1>2, <1>4, RunsBut
<1>8. ASSUME RunsInv(core'), NEW t \in Slots, Kept(core'.jobs[t], core.jobs[t]),
             IsOneShot(core.jobs[t]), core.jobs[t].runningCount > 0
      PROVE  /\ core'.jobs[t].id = core.jobs[t].id
             /\ core'.jobs[t].runningCount = 1 /\ ~core'.jobs[t].hasNext
  <2>1. RecordOK(core'.jobs[t], t \in core'.pendingSchedules)
    BY <1>8 DEF RunsInv
  <2> QED
    BY <1>8, <2>1 DEF RecordOK, Kept, SameJob, IsOneShot
<1>9. CASE DeferredDue(c, s)
  <2> DEFINE d == TakeDeferred(c, s)
  <2>1. DispatchOne(d, s, now, TRUE, g, frames)
    BY <1>9 DEF HandleCompletion
  <2>2. CoreInv(d) /\ d \in CoreState /\ Consistent(d)
    BY <1>2, <1>3, TakeDeferredInv DEF CoreInv
  <2>3. /\ RunsInv(d) /\ Quiet(c, d) /\ Ready(d.jobs[s])
        /\ AttendedBut(c, s) => AttendedBut(d, s)
    BY <1>2, <1>3, <1>4, <1>9, TakeDeferredRuns
  <2>4. Runnable(c.jobs[s]) /\ c.jobs[s].queuedWhileRunning /\ Live(r)
    BY <1>5, <1>9 DEF DeferredDue, Runnable
  <2> HIDE DEF c, d
  <2>5. /\ \A t \in Slots : Kept(d.jobs[t], c.jobs[t])
        /\ d.nextId = c.nextId /\ d.jobs[s].id = r.id
    BY <1>2, <1>5, <2>3 DEF Quiet, Kept, SameJob
  <2>6. Ended(d.jobs[s], r) /\ \A t \in Slots \ {s} : Kept(d.jobs[t], core.jobs[t])
    <3>1. Ended(d.jobs[s], r)
      BY <1>2, <1>4, <2>5 DEF Ended, Kept, SameJob
    <3>2. ASSUME NEW t \in Slots \ {s} PROVE Kept(d.jobs[t], core.jobs[t])
      BY <1>4, <2>5
    <3> QED
      BY <3>1, <3>2
  <2>7. Accounted(d, U, P)
    <3> HIDE DEF U, P
    <3> QED
      BY <1>1, <2>2, <2>6, AccountedEnd DEF U, P
  <2>8. CoreInvBut(d, s) /\ AccountedWorld(d, inflight, frames, ev, lo)
    BY <1>2, <2>2, <2>7, CoreInvImpliesBut DEF AccountedWorld
  <2> HIDE DEF s, r, U, P
  <2>9. /\ RunsInv(core') /\ AccountedWorld(core', inflight', stack', ev, lo)
        /\ core'.nextId = d.nextId
        /\ \A t \in Slots : /\ SameJob(core'.jobs[t], d.jobs[t])
                            /\ d.jobs[t].canceled => core'.jobs[t].canceled
        /\ \A t \in Slots \ {s} : Kept(core'.jobs[t], d.jobs[t])
        /\ g = Slots /\ AttendedBut(d, s) => AllAttended(core')
        /\ NoLeak(d) => NoLeak(core')
        /\ \A id : id # d.jobs[s].id => Active(id, inflight', stack') = Active(id, inflight, frames)
    <3>1. s \in Slots /\ CoreInv(core')
      BY <1>2
    <3>2. PICK x, y, b : x = d /\ y = s /\ b = TRUE
      OBVIOUS
    <3>3. DispatchOne(x, y, now, b, g, frames)
      BY ONLY <2>1, <3>2
    <3>4. /\ y \in Slots /\ CoreInvBut(x, y) /\ RunsInv(x) /\ Ready(x.jobs[y])
          /\ AccountedWorld(x, inflight, frames, ev, lo)
      BY ONLY <3>1, <3>2, <2>3, <2>8
    <3>5. /\ RunsInv(core') /\ AccountedWorld(core', inflight', stack', ev, lo)
          /\ core'.nextId = x.nextId
          /\ \A t \in Slots : /\ SameJob(core'.jobs[t], x.jobs[t])
                              /\ x.jobs[t].canceled => core'.jobs[t].canceled
          /\ \A t \in Slots \ {y} : Kept(core'.jobs[t], x.jobs[t])
          /\ g = Slots /\ AttendedBut(x, y) => AllAttended(core')
          /\ NoLeak(x) => NoLeak(core')
          /\ \A id : id # x.jobs[y].id => Active(id, inflight', stack') = Active(id, inflight, frames)
      BY ONLY <3>1, <3>3, <3>4, now \in Time, DispatchRuns
    <3> QED
      BY ONLY <3>2, <3>5
  <2>10. \A t \in Slots \ {s} : Kept(core'.jobs[t], core.jobs[t])
    BY <2>6, <2>9 DEF Kept, SameJob
  <2>11. OneShotKept(core, core')
    <3>1. ~IsOneShot(r)
      BY <1>4, <1>5, <2>4 DEF RecordFreed
    <3> QED
      BY <1>8, <2>9, <2>10, <3>1 DEF OneShotKept, r
  <2>12. NoRevival(core, core')
    <3>1. core'.nextId = core.nextId
      BY <1>4, <2>5, <2>9
    <3>2. ASSUME NEW id, Gone(core, id), NEW t \in Slots, Live(core'.jobs[t])
          PROVE  core'.jobs[t].id # id
      <4>1. CASE t = s
        <5>1. core'.jobs[t].id = r.id /\ r.id # id
          BY <1>2, <2>4, <2>5, <2>9, <3>2, <4>1 DEF SameJob, Gone, r
        <5> QED
          BY <5>1
      <4>2. CASE t # s
        <5>1. Kept(core'.jobs[t], core.jobs[t])
          BY <2>10, <4>2
        <5> QED
          BY <3>2, <5>1 DEF Kept, SameJob, Live, Gone
      <4> QED
        BY <4>1, <4>2
    <3> QED
      BY <1>6, <3>1, <3>2 DEF NoRevival, Gone
  <2>13. NoLeak(core) => NoLeak(core')
    BY <1>3, <1>4, <2>3, <2>9, QuietNoLeak
  <2>14. ASSUME NEW id, Gone(core, id)
         PROVE  id # r.id
    BY <1>2, <2>4, <2>14 DEF Gone, r
  <2>15. \A id : Gone(core, id) => /\ Active(id, inflight', stack') = Active(id, inflight, frames)
                                   /\ inv.jobId = id => stack' = frames
    BY <1>2, <2>5, <2>9, <2>14
  <2> QED
    BY <1>7, <2>3, <2>9, <2>11, <2>12, <2>13, <2>15
<1>10. CASE ~DeferredDue(c, s)
  <2>1. core' = SettleCompletion(c, s, now, g) /\ stack' = frames /\ inflight' = inflight
    BY <1>10 DEF HandleCompletion
  <2>2. /\ RunsInv(core') /\ core'.nextId = c.nextId
        /\ \A t \in Slots \ {s} : Kept(core'.jobs[t], c.jobs[t])
        /\ \/ Kept(core'.jobs[s], c.jobs[s])
           \/ c.jobs[s].occupied /\ c.jobs[s].runningCount = 0 /\ Vacant(core'.jobs[s])
        /\ IsOneShot(c.jobs[s]) /\ c.jobs[s].occupied /\ ~c.jobs[s].hasNext
              => Vacant(core'.jobs[s])
        /\ s \in g /\ AttendedBut(c, s) => AllAttended(core')
        /\ g = Slots /\ NoLeak(c) => NoLeak(core')
    BY <1>2, <1>3, <1>4, <1>10, <2>1, SettleRuns
  <2> HIDE DEF c
  <2>3. \A t \in Slots \ {s} : Kept(core'.jobs[t], core.jobs[t])
    BY <1>4, <2>2
  <2>4. \/ Ended(core'.jobs[s], r)
        \/ Less(r.runningCount) = 0 /\ Vacant(core'.jobs[s])
    BY <1>4, <2>2 DEF Kept, Ended, SameJob
  <2>5. Accounted(core', U, P)
    <3> HIDE DEF U, P
    <3> QED
      BY <1>1, <2>3, <2>4, AccountedEnd DEF U, P
  <2>6. AccountedWorld(core', inflight', stack', ev, lo)
    BY <2>1, <2>5 DEF AccountedWorld
  <2> HIDE DEF U, P
  <2>7. OneShotKept(core, core')
    <3>1. IsOneShot(r) /\ r.runningCount > 0 => core'.jobs[s].id # r.id
      BY <1>2, <1>4, <1>5, <2>2, SMTT(30) DEF Vacant
    <3> HIDE DEF s
    <3> QED
      BY <1>8, <2>2, <2>3, <3>1 DEF OneShotKept
  <2>8. NoRevival(core, core')
    <3>1. core'.nextId = core.nextId
      BY <1>4, <2>2
    <3>2. ASSUME NEW id, Gone(core, id), NEW t \in Slots, Live(core'.jobs[t])
          PROVE  core'.jobs[t].id # id
      <4>1. CASE t = s
        <5>1. Ended(core'.jobs[t], r)
          BY <2>4, <3>2, <4>1 DEF Vacant, Live
        <5> HIDE DEF s
        <5> QED
          BY <1>2, <3>2, <5>1 DEF Ended, SameJob, Live, Gone
      <4>2. CASE t # s
        <5>1. Kept(core'.jobs[t], core.jobs[t])
          BY <2>3, <4>2
        <5> QED
          BY <3>2, <5>1 DEF Kept, SameJob, Live, Gone
      <4> QED
        BY <4>1, <4>2
    <3> QED
      BY <1>6, <3>1, <3>2 DEF NoRevival, Gone
  <2> QED
    BY <1>2, <1>4, <1>7, <2>1, <2>2, <2>6, <2>7, <2>8
<1> QED
  BY <1>9, <1>10

--------------------------------------------------------------------------------
(* The inductive invariant *)

Steady(c) ==
  /\ RunsInv(c)
  /\ ~AllocFails => NoLeak(c)
  /\ ~AllocFails /\ EverOccurring => AllAttended(c)

(* Beside the well-formed table: every job's flags agree with its count, no *)
(* slot leaks, no job is stranded, and every invocation that is out is      *)
(* current and counted once.                                                *)
RInv == IInv /\ Steady(core) /\ AccountedWorld(core, inflight, stack, events, lost)

(* What every step shows: the invariant again, and what it may not do to a  *)
(* one-shot that runs or to a job that is gone.                             *)
RunsStep ==
  /\ Steady(core') /\ AccountedWorld(core', inflight', stack', events', lost')
  /\ OneShotKept(core, core') /\ NoRevival(core, core')
  /\ \A id : Gone(core, id) => Active(id, inflight', stack') <= Active(id, inflight, stack)

(* No invocation comes into being and none is forgotten. *)
OutKept ==
  /\ World(inflight', stack', events', lost')
  /\ Tally(inflight', stack', events', lost') = Tally(inflight, stack, events, lost)
  /\ Out(inflight', stack', events', lost') \subseteq Out(inflight, stack, events, lost)
  /\ \A id : Active(id, inflight', stack') <= Active(id, inflight, stack)

(* Without failing allocations every slot gets what it asks for. *)
LEMMA GrantsAll ==
  ASSUME NEW g \in Grants
  PROVE  ~AllocFails => g = Slots
BY DEF Grants

(* The callbacks of a job that are out. *)
LEMMA ActiveType ==
  ASSUME RInv, NEW id
  PROVE  Active(id, inflight, stack) \in Nat
BY PartCounts DEF RInv, AccountedWorld, Active

(* A step of the job table that leaves the invocations where they are. *)
LEMMA TableRuns ==
  ASSUME RInv, CoreInv(core'), NEW g \in Grants, TableStep(core, core', g), OutKept
  PROVE  RunsStep
<1> DEFINE T == Tally(inflight, stack, events, lost)
           O == Out(inflight, stack, events, lost)
<1>1. /\ CoreInv(core) /\ core \in CoreState /\ core' \in CoreState /\ RunsInv(core)
      /\ Moves(core, core') /\ RunsInv(core')
  BY DEF RInv, IInv, CoreInv, Steady, TableStep
<1>2. Steady(core')
  BY GrantsAll DEF RInv, Steady, TableStep
<1>3. OneShotKept(core, core') /\ NoRevival(core, core')
  BY <1>1, MovesSteps
<1>4. Counts(T, O) /\ Accounted(core, T, O)
  BY TallyCounts DEF RInv, AccountedWorld
<1> HIDE DEF T, O
<1>5. Accounted(core', T, O)
  BY <1>1, <1>4, AccountedMoves
<1>6. AccountedWorld(core', inflight', stack', events', lost')
  <2> DEFINE T1 == Tally(inflight', stack', events', lost')
             O1 == Out(inflight', stack', events', lost')
  <2>1. World(inflight', stack', events', lost') /\ T1 = T /\ O1 \subseteq O
    BY DEF OutKept, T, O
  <2> HIDE DEF T1, O1
  <2>2. Accounted(core', T1, O1)
    BY <1>5, <2>1 DEF Accounted
  <2> QED
    BY <2>1, <2>2 DEF AccountedWorld, T1, O1
<1> QED
  BY <1>2, <1>3, <1>6 DEF RunsStep, OutKept

(* A table that is left alone. *)
LEMMA SameTable ==
  ASSUME NEW c \in CoreState, RunsInv(c), NEW d, d.jobs = c.jobs, NEW g,
         d.allocated = c.allocated, d.freeSlots = c.freeSlots, d.jobIndex = c.jobIndex,
         d.nextId = c.nextId, d.pendingSchedules = c.pendingSchedules
  PROVE  QuietStep(c, d, g)
<1>1. Quiet(c, d)
  BY DEF Quiet, Kept, SameJob
<1>2. RunsInv(d) /\ (AllAttended(c) => AllAttended(d))
  BY DEF RunsInv, AllAttended
<1> QED
  BY <1>1, <1>2 DEF QuietStep

(* Steps that only move loop frames. *)
LEMMA LoopFrames ==
  ASSUME RInv, inflight' = inflight, events' = events, lost' = lost,
         \/ stack' = stack
         \/ \E f \in LoopFrame : stack' = Append(stack, f)
         \/ stack # <<>> /\ Top \in LoopFrame /\ stack' = Below
         \/ /\ stack # <<>> /\ Top \in LoopFrame
            /\ \E f \in LoopFrame : stack' = Append(Below, f)
  PROVE  OutKept
<1>1. World(inflight, stack, events, lost) /\ stack \in Seq(Frame) /\ LoopFrame \subseteq Frame
  BY DEF RInv, AccountedWorld, World, Frame
<1>2. \A id : Active(id, inflight, stack) \in Nat
  BY ActiveType
<1>3. CASE stack' = stack
  BY <1>1, <1>2, <1>3 DEF OutKept
<1>4. ASSUME NEW st, World(inflight, st, events, lost), NEW f \in LoopFrame
      PROVE  /\ World(inflight, Append(st, f), events, lost)
             /\ Tally(inflight, Append(st, f), events, lost) = Tally(inflight, st, events, lost)
             /\ Out(inflight, Append(st, f), events, lost) = Out(inflight, st, events, lost)
             /\ \A id : Active(id, inflight, Append(st, f)) = Active(id, inflight, st)
  BY <1>1, <1>4, OutPushed
<1>5. CASE \E f \in LoopFrame : stack' = Append(stack, f)
  <2>1. PICK f \in LoopFrame : stack' = Append(stack, f)
    BY <1>5
  <2> QED
    BY <1>1, <1>2, <1>4, <2>1 DEF OutKept
<1>6. ASSUME stack # <<>>, Top \in LoopFrame
      PROVE  /\ World(inflight, Below, events, lost)
             /\ Tally(inflight, stack, events, lost) = Tally(inflight, Below, events, lost)
             /\ Out(inflight, stack, events, lost) = Out(inflight, Below, events, lost)
             /\ \A id : Active(id, inflight, stack) = Active(id, inflight, Below)
  <2>1. stack = Append(Below, Top) /\ Below \in Seq(Frame)
    BY <1>1, <1>6, StackSplit DEF Top, Below
  <2>2. World(inflight, Below, events, lost)
    BY <1>1, <2>1 DEF World
  <2> HIDE DEF Top, Below
  <2> QED
    BY <1>4, <1>6, <2>1, <2>2
<1>7. CASE stack # <<>> /\ Top \in LoopFrame /\ stack' = Below
  BY <1>2, <1>6, <1>7 DEF OutKept
<1>8. CASE /\ stack # <<>> /\ Top \in LoopFrame
           /\ \E f \in LoopFrame : stack' = Append(Below, f)
  <2>1. PICK f \in LoopFrame : stack' = Append(Below, f)
    BY <1>8
  <2> HIDE DEF Top, Below
  <2> QED
    BY <1>2, <1>4, <1>6, <1>8, <2>1 DEF OutKept
<1> QED
  BY <1>3, <1>5, <1>7, <1>8

(* The executors stop: what they held is lost, and counted as such. *)
LEMMA DetachedFrames ==
  ASSUME RInv, NEW frames, Detach(frames),
         frames = stack \/ (stack # <<>> /\ Top \in LoopFrame /\ frames = Below)
  PROVE  OutKept
<1>1. World(inflight, stack, events, lost) /\ stack \in Seq(Frame) /\ LoopFrame \subseteq Frame
  BY DEF RInv, AccountedWorld, World, Frame
<1>2. \A id : Active(id, inflight, stack) \in Nat
  BY ActiveType
<1>3. /\ World(inflight, frames, events, lost)
      /\ Tally(inflight, stack, events, lost) = Tally(inflight, frames, events, lost)
      /\ Out(inflight, stack, events, lost) = Out(inflight, frames, events, lost)
      /\ \A id : Active(id, inflight, stack) = Active(id, inflight, frames)
  <2>1. CASE stack # <<>> /\ Top \in LoopFrame /\ frames = Below
    <3>1. stack = Append(Below, Top) /\ Below \in Seq(Frame)
      BY <1>1, <2>1, StackSplit DEF Top, Below
    <3>2. World(inflight, Below, events, lost)
      BY <1>1, <3>1 DEF World
    <3> HIDE DEF Top, Below
    <3> QED
      BY <1>1, <2>1, <3>1, <3>2, OutPushed
  <2> QED
    BY <1>1, <2>1
<1>4. /\ stack' = frames /\ lost' = (lost (+) inflight) (+) ToBag(events)
      /\ inflight' = EmptyBag /\ events' = <<>>
  BY DEF Detach
<1> QED
  BY <1>2, <1>3, <1>4, OutDetached DEF OutKept

(* Every set of allocations that succeed contains, without failures, all.   *)
LEMMA GrantsMeet ==
  ASSUME NEW g \in Grants, NEW h \in Grants
  PROVE  /\ g \cap h \in Grants /\ (g \cap h = Slots => g = Slots /\ h = Slots)
         /\ Slots \in Grants
BY DEF Grants

(* Two quiet steps make one. *)
LEMMA QuietChain ==
  ASSUME NEW c, NEW d, NEW e, NEW g, NEW h, NEW k, QuietStep(c, d, g), QuietStep(d, e, h),
         k = Slots => g = Slots /\ h = Slots
  PROVE  QuietStep(c, e, k)
<1>1. Quiet(c, e)
  BY DEF QuietStep, Quiet, Kept, SameJob
<1> QED
  BY <1>1 DEF QuietStep

(* Only the jobs of a table matter to the invocations that are out. *)
LEMMA AccountedJobs ==
  ASSUME NEW c, NEW d, d.jobs = c.jobs, NEW fl, NEW st, NEW ev, NEW lo,
         AccountedWorld(c, fl, st, ev, lo)
  PROVE  AccountedWorld(d, fl, st, ev, lo)
BY DEF AccountedWorld, Accounted, Current

--------------------------------------------------------------------------------
(* Every step *)

(* drainManualEvents: the completion it receives is current. *)
LEMMA DrainEventRuns ==
  ASSUME RInv, IInv', DrainEvent
  PROVE  RunsStep
<1> DEFINE T == Tally(inflight, stack, events, lost)
           O == Out(inflight, stack, events, lost)
           inv == Head(events)
           time == IF At("EndWait") THEN clock ELSE Top.now
<1>1. /\ CoreInv(core) /\ RunsInv(core) /\ CoreInv(core') /\ TypeOK
      /\ World(inflight, stack, events, lost) /\ Accounted(core, T, O) /\ Counts(T, O)
  BY TallyCounts DEF RInv, IInv, Steady, AccountedWorld
<1>2. /\ events # <<>> /\ events' = Tail(events) /\ lost' = lost
      /\ At("Drain") \/ At("Settle") \/ At("RefreshDrain") \/ At("EndWait")
  BY DEF DrainEvent
<1>3. /\ World(inflight, stack, events', lost) /\ inv \in O
      /\ T = Plus(Tally(inflight, stack, events', lost), inv.jobId)
      /\ Out(inflight, stack, events', lost) \subseteq O
  BY <1>1, <1>2, OutReceived
<1>4. time \in Time
  BY <1>1, <1>2, TopFrame DEF TypeOK
<1>5. Current(core, inv)
  BY <1>1, <1>3 DEF Accounted
<1>6. PICK g \in Grants : HandleCompletion(inv.slotIndex, time, g, stack)
  BY <1>5 DEF DrainEvent
<1> HIDE DEF T, O, inv, time
<1>7. /\ RunsInv(core') /\ AccountedWorld(core', inflight', stack', events', lost)
      /\ OneShotKept(core, core') /\ NoRevival(core, core')
      /\ g = Slots /\ AllAttended(core) => AllAttended(core')
      /\ g = Slots /\ NoLeak(core) => NoLeak(core')
      /\ \A id : Gone(core, id) => Active(id, inflight', stack') = Active(id, inflight, stack)
  BY <1>1, <1>3, <1>4, <1>6, CompletionRuns
<1>8. Steady(core')
  BY <1>7, GrantsAll DEF RInv, Steady
<1> QED
  BY <1>2, <1>7, <1>8, ActiveType DEF RunsStep

(* The completion of an inline callback; a job that is gone is not          *)
(* dispatched from it.                                                      *)
LEMMA CallbackReturnRuns ==
  ASSUME RInv, IInv', CallbackReturn
  PROVE  RunsStep /\ (Gone(core, Top.inv.jobId) => stack' = Below)
<1> DEFINE T == Tally(inflight, stack, events, lost)
           O == Out(inflight, stack, events, lost)
<1>1. /\ CoreInv(core) /\ RunsInv(core) /\ CoreInv(core') /\ TypeOK
      /\ World(inflight, stack, events, lost) /\ Accounted(core, T, O) /\ Counts(T, O)
      /\ stack \in Seq(Frame)
  BY TallyCounts DEF RInv, IInv, Steady, AccountedWorld, World
<1>2. At("Callback") /\ stack # <<>> /\ events' = events /\ lost' = lost
  BY DEF CallbackReturn, At
<1>3. /\ Top \in CallbackFrame /\ Top \in Frame /\ Below \in Seq(Frame) /\ Top.now \in Time
      /\ Top.inv \in JobInvocation
  BY <1>1, <1>2, TopFrame DEF At, Frame, LoopFrame
<1>4. stack = Append(Below, Top)
  BY <1>1, <1>2, StackSplit DEF Top, Below
<1>5. PICK g \in Grants : HandleCompletion(Top.inv.slotIndex, Top.now, g, Below)
  BY DEF CallbackReturn
<1> HIDE DEF Top, Below
<1>6. World(inflight, Below, events, lost)
  BY <1>1, <1>3 DEF World
<1>7. /\ T = Plus(Tally(inflight, Below, events, lost), Top.inv.jobId)
      /\ O = Out(inflight, Below, events, lost) \cup {Top.inv}
      /\ \A id : Active(id, inflight, stack) = Active(id, inflight, Below) + One(Top.inv.jobId = id)
  BY <1>3, <1>4, <1>6, OutPushed
<1> HIDE DEF T, O
<1>8. PICK i, t : i = Top.inv /\ t = Top.now
  OBVIOUS
<1>9. /\ i \in O /\ t \in Time /\ T = Plus(Tally(inflight, Below, events, lost), i.jobId)
      /\ Out(inflight, Below, events, lost) \subseteq O
      /\ HandleCompletion(i.slotIndex, t, g, Below)
  BY <1>3, <1>5, <1>7, <1>8
<1>10. /\ RunsInv(core') /\ AccountedWorld(core', inflight', stack', events, lost)
       /\ OneShotKept(core, core') /\ NoRevival(core, core')
       /\ g = Slots /\ AllAttended(core) => AllAttended(core')
       /\ g = Slots /\ NoLeak(core) => NoLeak(core')
       /\ \A id : Gone(core, id) => /\ Active(id, inflight', stack') = Active(id, inflight, Below)
                                    /\ i.jobId = id => stack' = Below
  BY <1>1, <1>6, <1>9, CompletionRuns
<1>11. Steady(core')
  BY <1>10, GrantsAll DEF RInv, Steady
<1>12. \A id : Active(id, inflight, Below) <= Active(id, inflight, stack)
  <2>1. \A id : Active(id, inflight, Below) \in Nat
    BY <1>6, PartCounts DEF Active
  <2> QED
    BY <1>7, <2>1 DEF One
<1> QED
  BY <1>2, <1>8, <1>10, <1>11, <1>12 DEF RunsStep

(* dispatchOne for a due job starts no job that is gone. *)
LEMMA DueRuns ==
  ASSUME RInv, NEW p, p.jobs = core.jobs, NEW s \in Slots, CoreInvBut(p, s), RunsInv(p),
         p.nextId = core.nextId, NoLeak(core) => NoLeak(p), AllAttended(core) => AttendedBut(p, s),
         Ready(p.jobs[s]), NEW now \in Time, NEW deferred, NEW g \in Grants, CoreInv(core'),
         events' = events, lost' = lost, DispatchOne(p, s, now, deferred, g, stack)
  PROVE  RunsStep
<1>1. AccountedWorld(p, inflight, stack, events, lost)
  BY AccountedJobs DEF RInv
<1>2. /\ RunsInv(core') /\ AccountedWorld(core', inflight', stack', events, lost)
      /\ core'.nextId = core.nextId
      /\ \A t \in Slots : /\ SameJob(core'.jobs[t], core.jobs[t])
                          /\ core.jobs[t].canceled => core'.jobs[t].canceled
      /\ \A t \in Slots \ {s} : Kept(core'.jobs[t], core.jobs[t])
      /\ g = Slots /\ AttendedBut(p, s) => AllAttended(core')
      /\ NoLeak(p) => NoLeak(core')
      /\ \A id : id # core.jobs[s].id => Active(id, inflight', stack') = Active(id, inflight, stack)
  BY <1>1, DispatchRuns
<1>3. Steady(core')
  BY <1>2, GrantsAll DEF RInv, Steady
<1>4. OneShotKept(core, core')
  <2> SUFFICES ASSUME NEW t \in Slots, IsOneShot(core.jobs[t]), core.jobs[t].runningCount > 0
               PROVE  /\ core'.jobs[t].id = core.jobs[t].id /\ core'.jobs[t].runningCount = 1
                      /\ ~core'.jobs[t].hasNext
    BY DEF OneShotKept
  <2>1. t # s
    BY DEF Ready
  <2>2. Kept(core'.jobs[t], core.jobs[t]) /\ RecordOK(core'.jobs[t], t \in core'.pendingSchedules)
    BY <1>2, <2>1 DEF RunsInv
  <2> QED
    BY <2>2 DEF Kept, SameJob, RecordOK, IsOneShot
<1>5. ASSUME NEW id, Gone(core, id)
      PROVE  Gone(core', id) /\ id # core.jobs[s].id
  <2>1. id # core.jobs[s].id
    BY <1>5 DEF Gone, Ready, Runnable
  <2>2. ASSUME NEW t \in Slots, Live(core'.jobs[t])
        PROVE  core'.jobs[t].id # id
    <3>1. Live(core.jobs[t]) /\ core'.jobs[t].id = core.jobs[t].id
      BY <1>2, <2>2 DEF SameJob, Live
    <3> QED
      BY <1>5, <3>1 DEF Gone
  <2> QED
    BY <2>1, <2>2 DEF Gone
<1>6. NoRevival(core, core')
  <2>1. core.nextId \in Nat
    BY DEF RInv, IInv, CoreInv, CoreState
  <2> QED
    BY <1>2, <1>5, <2>1 DEF NoRevival
<1> QED
  BY <1>2, <1>3, <1>4, <1>5, <1>6, ActiveType DEF RunsStep

(* One iteration of dispatchDue. *)
LEMMA DispatchDueRuns ==
  ASSUME RInv, IInv', DispatchDue
  PROVE  RunsStep
<1> DEFINE c == PruneInvalidDueEntries(core)
<1>1. /\ CoreInv(core) /\ core \in CoreState /\ RunsInv(core) /\ CoreInv(core') /\ TypeOK
      /\ At("Dispatch") /\ events' = events /\ lost' = lost
  BY DEF RInv, IInv, Steady, CoreInv, DispatchDue
<1>2. stack # <<>> /\ Top \in LoopFrame /\ Top.now \in Time
  BY <1>1, TopFrame DEF At
<1>3. CoreInv(c)
  BY <1>1, PruneInv
<1>4. /\ c.jobs = core.jobs /\ c.allocated = core.allocated /\ c.freeSlots = core.freeSlots
      /\ c.jobIndex = core.jobIndex /\ c.nextId = core.nextId
      /\ c.pendingSchedules = core.pendingSchedules /\ c \in CoreState
  BY <1>1, <1>3 DEF PruneInvalidDueEntries, CoreState, CoreInv
<1>5. CASE core' = c /\ Goto("Settle") /\ UNCHANGED inflight
  <2>1. [Top EXCEPT !.at = "Settle"] \in LoopFrame
    BY <1>2 DEF LoopFrame
  <2>2. OutKept
    <3>1. \E f \in LoopFrame : stack' = Append(Below, f)
      BY <1>5, <2>1 DEF Goto
    <3> QED
      BY <1>1, <1>2, <1>5, <3>1, LoopFrames
  <2> HIDE DEF c
  <2>3. Slots \in Grants /\ TableStep(core, core', Slots)
    BY <1>1, <1>4, <1>5, SameTable, QuietIsTableStep DEF Grants
  <2> QED
    BY <1>1, <2>2, <2>3, TableRuns
<1>6. CASE ~(core' = c /\ Goto("Settle") /\ UNCHANGED inflight)
  <2>1. PICK e \in TopEntries(c), g \in Grants :
          LET s == e.slotIndex
              p == PopDue(c, e)
          IN IF p.jobs[s].paused \/ Busy(p.jobs[s])
             THEN core' = SkipDue(p, s) /\ UNCHANGED <<stack, inflight>>
             ELSE DispatchOne(p, s, Top.now, FALSE, g, stack)
    BY <1>6 DEF DispatchDue
  <2> DEFINE s == e.slotIndex
             p == PopDue(c, e)
  <2> HIDE DEF c
  <2>2. /\ s \in Slots /\ CoreInvBut(p, s)
        /\ p.jobs[s] \in JobRecord /\ Live(p.jobs[s])
    BY <1>3, <2>1, PopInv
  <2>3. c.jobs[s].hasNext
    BY <2>1 DEF TopEntries, ValidDueEntry
  <2>4. /\ p.jobs = core.jobs /\ p.allocated = core.allocated /\ p.freeSlots = core.freeSlots
        /\ p.jobIndex = core.jobIndex /\ p.nextId = core.nextId
        /\ p.pendingSchedules = core.pendingSchedules
    BY <1>4 DEF PopDue, CoreState
  <2>5. p \in CoreState
    BY <2>2 DEF CoreInvBut
  <2> HIDE DEF s, p
  <2>6. QuietStep(core, p, g) /\ RunsInv(p)
    BY <1>1, <2>4, SameTable DEF QuietStep
  <2>7. CASE p.jobs[s].paused \/ Busy(p.jobs[s])
    <3>1. core' = SkipDue(p, s) /\ stack' = stack /\ inflight' = inflight
      BY <2>1, <2>7 DEF s, p
    <3>2. QuietStep(p, core', g)
      BY <1>4, <2>2, <2>3, <2>4, <2>5, <2>6, <2>7, <3>1, SkipDueRuns
    <3>3. TableStep(core, core', g)
      BY <1>1, <2>6, <3>2, QuietChain, QuietIsTableStep
    <3>4. OutKept
      BY <1>1, <3>1, LoopFrames
    <3> QED
      BY <1>1, <2>1, <3>3, <3>4, TableRuns
  <2>8. CASE ~(p.jobs[s].paused \/ Busy(p.jobs[s]))
    <3>1. DispatchOne(p, s, Top.now, FALSE, g, stack)
      BY <2>1, <2>8 DEF s, p
    <3>2. Ready(p.jobs[s])
      <4>1. RecordOK(p.jobs[s], s \in p.pendingSchedules) /\ p.jobs[s].runningCount \in Nat
        BY <2>2, <2>6 DEF RunsInv, JobRecord
      <4> QED
        BY <1>4, <2>2, <2>3, <2>4, <2>8, <4>1 DEF Ready, Runnable, Busy, RecordOK
    <3>3. NoLeak(core) => NoLeak(p)
      BY <2>4 DEF NoLeak
    <3>4. AllAttended(core) => AttendedBut(p, s)
      BY <2>4 DEF AllAttended, AttendedBut
    <3>5. PICK b, t : b = FALSE /\ t = Top.now
      OBVIOUS
    <3>6. DispatchOne(p, s, t, b, g, stack) /\ t \in Time
      BY ONLY <3>1, <3>5, <1>2
    <3> QED
      BY <1>1, <2>1, <2>2, <2>4, <2>6, <3>2, <3>3, <3>4, <3>6, DueRuns
  <2> QED
    BY <2>7, <2>8
<1> QED
  BY <1>5, <1>6

(* refreshTimeContextIfNeeded and drainPendingSchedules. *)
LEMMA TickDispatchRuns ==
  ASSUME RInv, IInv', TickDispatch
  PROVE  RunsStep
<1>1. /\ CoreInv(core) /\ core \in CoreState /\ RunsInv(core) /\ CoreInv(core') /\ TypeOK
      /\ At("Drain") /\ events' = events /\ lost' = lost /\ inflight' = inflight
  BY DEF RInv, IInv, Steady, CoreInv, TickDispatch
<1>2. stack # <<>> /\ Top \in LoopFrame /\ Top.now \in Time
  BY <1>1, TopFrame DEF At
<1>3. OutKept
  <2>1. PICK m \in {"Dispatch", "Settle"} : Goto(m)
    BY DEF TickDispatch
  <2>2. [Top EXCEPT !.at = m] \in LoopFrame
    BY <1>2, <2>1 DEF LoopFrame
  <2>3. \E f \in LoopFrame : stack' = Append(Below, f)
    BY <2>1, <2>2 DEF Goto
  <2> QED
    BY <1>1, <1>2, <2>3, LoopFrames
<1>4. PICK g \in Grants, h \in Grants :
        \/ core' = DrainPendingSchedules(core, Top.now, h)
        \/ core' = DrainPendingSchedules(RefreshAllSchedules(core, Top.now, g), Top.now, h)
  BY DEF TickDispatch
<1> HIDE DEF Top
<1>5. CASE core' = DrainPendingSchedules(core, Top.now, h)
  <2>1. TableStep(core, core', h)
    BY <1>1, <1>5, DrainRuns, QuietIsTableStep
  <2> QED
    BY <1>1, <1>3, <1>4, <2>1, TableRuns
<1>6. CASE core' = DrainPendingSchedules(RefreshAllSchedules(core, Top.now, g), Top.now, h)
  <2> DEFINE c == RefreshAllSchedules(core, Top.now, g)
  <2>1. CoreInv(c) /\ c \in CoreState /\ QuietStep(core, c, g) /\ RunsInv(c)
    BY <1>1, <1>2, RefreshInv, RefreshRuns DEF CoreInv, QuietStep
  <2> HIDE DEF c
  <2>2. QuietStep(c, core', h)
    BY <1>6, <2>1, DrainRuns DEF c
  <2>3. TableStep(core, core', g \cap h) /\ g \cap h \in Grants
    BY <1>1, <1>4, <2>1, <2>2, GrantsMeet, QuietChain, QuietIsTableStep
  <2> QED
    BY <1>1, <1>3, <2>3, TableRuns
<1> QED
  BY <1>4, <1>5, <1>6

(* A step that leaves the job table alone. *)
LEMMA IdleTableRuns ==
  ASSUME RInv, core' = core, OutKept
  PROVE  RunsStep
<1>1. CoreInv(core) /\ core \in CoreState /\ RunsInv(core)
  BY DEF RInv, IInv, Steady, CoreInv
<1>2. Slots \in Grants /\ TableStep(core, core', Slots)
  BY <1>1, SameTable, QuietIsTableStep DEF Grants
<1> QED
  BY <1>1, <1>2, TableRuns

(* A call of the API that changes only the job table. *)
LEMMA APICallRuns ==
  ASSUME RInv, IInv', NEW c, NEW g \in Grants, TableStep(core, c, g), APICall(c)
  PROVE  RunsStep
<1>1. /\ core' = c /\ CoreInv(core') /\ stack' = stack /\ inflight' = inflight
      /\ events' = events /\ lost' = lost
  BY DEF APICall, IInv
<1> QED
  BY <1>1, LoopFrames, TableRuns

(* Time passes, and worker tasks finish callbacks. *)
LEMMA EnvironmentRuns ==
  ASSUME RInv, Environment
  PROVE  RunsStep
<1>1. CASE AdvanceClock \/ NtpSync
  <2>1. UNCHANGED <<core, stack, inflight, events, lost>>
    BY <1>1 DEF AdvanceClock, NtpSync
  <2> QED
    BY <2>1, LoopFrames, IdleTableRuns
<1>2. CASE WorkerDone
  <2>1. PICK inv \in BagToSet(inflight) :
          /\ inflight' = inflight (-) SetToBag({inv})
          /\ \/ events' = Append(events, inv) /\ lost' = lost
             \/ events' = events /\ lost' = lost (+) SetToBag({inv})
    BY <1>2 DEF WorkerDone
  <2>2. World(inflight, stack, events, lost) /\ core' = core /\ stack' = stack
    BY <1>2 DEF RInv, AccountedWorld, WorkerDone
  <2>3. OutKept
    BY <2>1, <2>2, OutPosted DEF OutKept
  <2> QED
    BY <2>2, <2>3, IdleTableRuns
<1> QED
  BY <1>1, <1>2 DEF Environment

(* Every loop iteration of tick(), refreshAllSchedules() and end(true). *)
LEMMA LoopsRuns ==
  ASSUME RInv, IInv', Loops
  PROVE  RunsStep
<1>1. /\ CoreInv(core) /\ core \in CoreState /\ RunsInv(core) /\ CoreInv(core') /\ TypeOK
  BY DEF RInv, IInv, Steady, CoreInv
<1>2. ASSUME NEW l, At(l), l # "Callback"
      PROVE  stack # <<>> /\ Top \in LoopFrame /\ Top.now \in Time
  BY <1>1, <1>2, TopFrame DEF At
<1>3. CASE TickReturn
  <2>1. /\ stack # <<>> /\ Top \in LoopFrame /\ stack' = Below
        /\ UNCHANGED <<core, inflight, events, lost>>
    BY <1>2, <1>3 DEF TickReturn
  <2> QED
    BY <2>1, LoopFrames, IdleTableRuns
<1>4. CASE RefreshReturn
  <2>1. /\ stack # <<>> /\ Top \in LoopFrame /\ Top.now \in Time /\ stack' = Below
        /\ UNCHANGED <<inflight, events, lost>>
    BY <1>2, <1>4 DEF RefreshReturn
  <2>2. PICK g \in Grants : core' = RefreshAllSchedules(core, Top.now, g)
    BY <1>4 DEF RefreshReturn
  <2>3. TableStep(core, core', g)
    BY <1>1, <2>1, <2>2, RefreshRuns, QuietIsTableStep
  <2> QED
    BY <1>1, <2>1, <2>3, LoopFrames, TableRuns
<1>5. CASE EndReturn
  <2>1. stack # <<>> /\ Top \in LoopFrame /\ Detach(Below) /\ core' = core
    BY <1>2, <1>5 DEF EndReturn
  <2> QED
    BY <2>1, DetachedFrames, IdleTableRuns
<1> QED
  BY <1>3, <1>4, <1>5, DrainEventRuns, CallbackReturnRuns, TickDispatchRuns, DispatchDueRuns
     DEF Loops

(* Every call of the API, up to its first loop. *)
LEMMA ApplicationRuns ==
  ASSUME RInv, IInv', Application
  PROVE  RunsStep
<1>1. /\ CoreInv(core) /\ core \in CoreState /\ RunsInv(core) /\ CoreInv(core')
      /\ clock \in Time
  BY DEF RInv, IInv, TypeOK, Steady, CoreInv
<1>2. CASE Tick \/ RefreshCall
  <2>1. /\ \/ stack' = Append(stack, [at |-> "Drain", now |-> clock])
           \/ stack' = Append(stack, [at |-> "RefreshDrain", now |-> clock])
        /\ UNCHANGED <<core, inflight, events, lost>>
    BY <1>2 DEF Tick, RefreshCall
  <2>2. /\ [at |-> "Drain", now |-> clock] \in LoopFrame
        /\ [at |-> "RefreshDrain", now |-> clock] \in LoopFrame
    BY <1>1 DEF LoopFrame
  <2> QED
    BY <2>1, <2>2, LoopFrames, IdleTableRuns
<1>3. CASE AddJobCall
  <2>1. PICK spec \in Schedules, options \in Options, s \in AddSlots(core), g \in Grants :
          \/ APICall(AddJob(core, s, spec, options, clock, g))
          \/ APICall(AddJobNoMemory(core))
    BY <1>3 DEF AddJobCall
  <2>2. options \in JobOptions
    BY <2>1, ManualAssumption
  <2>3. /\ TableStep(core, AddJob(core, s, spec, options, clock, g), g)
        /\ TableStep(core, AddJobNoMemory(core), g)
    BY <1>1, <2>1, <2>2, AddJobRuns, NoMemoryRuns
  <2> QED
    BY <2>1, <2>3, APICallRuns
<1>4. CASE CancelJobCall
  <2>1. PICK id \in 1..MaxId : \E s \in FindJobSlot(core, id), g \in Grants :
          APICall(CancelSlots(core, {s}, g))
    BY <1>4 DEF CancelJobCall, CancelJob
  <2>2. PICK s \in FindJobSlot(core, id), g \in Grants : APICall(CancelSlots(core, {s}, g))
    BY <2>1
  <2>3. {s} \subseteq Occupied(core)
    BY <1>1, FoundSlot
  <2>4. TableStep(core, CancelSlots(core, {s}, g), g)
    BY <1>1, <2>3, CancelRuns
  <2> QED
    BY <2>2, <2>4, APICallRuns
<1>5. CASE PauseJobCall
  <2>1. PICK id \in 1..MaxId : \E s \in FindJobSlot(core, id) : APICall(PauseJob(core, s))
    BY <1>5 DEF PauseJobCall
  <2>2. PICK s \in FindJobSlot(core, id) : APICall(PauseJob(core, s))
    BY <2>1
  <2>3. TableStep(core, PauseJob(core, s), Slots) /\ Slots \in Grants
    BY <1>1, FoundSlot, PauseRuns, QuietIsTableStep DEF Grants
  <2> QED
    BY <2>2, <2>3, APICallRuns
<1>6. CASE ResumeJobCall
  <2>1. PICK id \in 1..MaxId : \E s \in FindJobSlot(core, id), g \in Grants :
          APICall(ResumeJob(core, s, clock, g))
    BY <1>6 DEF ResumeJobCall
  <2>2. PICK s \in FindJobSlot(core, id), g \in Grants : APICall(ResumeJob(core, s, clock, g))
    BY <2>1
  <2>3. TableStep(core, ResumeJob(core, s, clock, g), g)
    BY <1>1, FoundSlot, ResumeRuns, QuietIsTableStep
  <2> QED
    BY <2>2, <2>3, APICallRuns
<1>7. ASSUME NEW g PROVE TableStep(core, CancelAll(core, g), g)
  <2>1. {s \in Slots : Live(core.jobs[s])} \subseteq Occupied(core)
    BY DEF Occupied, Live
  <2> QED
    BY <1>1, <2>1, CancelRuns DEF CancelAll
<1>8. CASE CancelAllCall
  BY <1>7, <1>8, APICallRuns DEF CancelAllCall
<1>9. CASE SetMinValidUnixSeconds
  <2>1. PICK m \in MinValids : core' = [core EXCEPT !.minValid = m]
    BY <1>9 DEF SetMinValidUnixSeconds
  <2>2. UNCHANGED <<stack, inflight, events, lost>>
    BY <1>9 DEF SetMinValidUnixSeconds
  <2>3. /\ core'.jobs = core.jobs /\ core'.allocated = core.allocated
        /\ core'.freeSlots = core.freeSlots /\ core'.jobIndex = core.jobIndex
        /\ core'.nextId = core.nextId /\ core'.pendingSchedules = core.pendingSchedules
    BY <1>1, <2>1 DEF CoreState
  <2>4. TableStep(core, core', Slots) /\ Slots \in Grants
    BY <1>1, <2>3, SameTable, QuietIsTableStep DEF Grants
  <2> QED
    BY <1>1, <2>2, <2>4, LoopFrames, TableRuns
<1>10. CASE Begin
  <2>1. UNCHANGED <<core, stack, inflight, events, lost>>
    BY <1>10 DEF Begin
  <2> QED
    BY <2>1, LoopFrames, IdleTableRuns
<1>11. CASE End
  <2>1. PICK g \in Grants : core' = CancelAll(core, g)
    BY <1>11 DEF End
  <2>2. TableStep(core, core', g)
    BY <1>7, <2>1
  <2>3. CASE Detach(stack)
    BY <1>1, <2>1, <2>2, <2>3, DetachedFrames, TableRuns
  <2>4. CASE /\ stack' = Append(stack, [at |-> "EndWait", now |-> clock])
             /\ UNCHANGED <<started, inflight, events, lost>>
    <3>1. [at |-> "EndWait", now |-> clock] \in LoopFrame
      BY <1>1 DEF LoopFrame
    <3>2. OutKept
      BY <2>4, <3>1, LoopFrames
    <3> QED
      BY <1>1, <2>1, <2>2, <3>2, TableRuns
  <2> QED
    BY <1>11, <2>3, <2>4 DEF End
<1> QED
  BY <1>2, <1>3, <1>4, <1>5, <1>6, <1>8, <1>9, <1>10, <1>11 DEF Application

(* Every step preserves the invariant. *)
LEMMA NextRuns ==
  ASSUME RInv, [Next]_vars
  PROVE  RInv' /\ RunsStep
<1>1. IInv'
  BY NextInductive DEF RInv
<1>2. RunsStep
  <2>1. CASE UNCHANGED vars
    <3>1. UNCHANGED <<core, stack, inflight, events, lost>>
      BY <2>1 DEF vars
    <3> QED
      BY <3>1, LoopFrames, IdleTableRuns
  <2> QED
    BY <1>1, <2>1, EnvironmentRuns, LoopsRuns, ApplicationRuns DEF Next
<1> QED
  BY <1>1, <1>2 DEF RInv, RunsStep

(* A scheduler that was just constructed runs nothing. *)
LEMMA InitRuns == Init => RInv
<1> SUFFICES ASSUME Init PROVE RInv
  OBVIOUS
<1>1. PICK m \in MinValids : core = EmptyCore(m)
  BY DEF Init
<1>2. /\ stack = <<>> /\ inflight = EmptyBag /\ events = <<>> /\ lost = EmptyBag
  BY DEF Init
<1>3. /\ \A s \in Slots : core.jobs[s] = EmptyRecord
      /\ core.allocated = {} /\ core.pendingSchedules = {}
  BY <1>1 DEF EmptyCore
<1>4. Steady(core)
  BY <1>3 DEF Steady, RunsInv, NoLeak, AllAttended, RecordOK, RecordAttended, EmptyRecord,
              Runnable, Live
<1>5. World(EmptyBag, <<>>, <<>>, EmptyBag) /\ Calls(<<>>) = {} /\ Range(<<>>) = {}
  BY CopiesNone DEF World, Calls, Range
<1>6. Out(EmptyBag, <<>>, <<>>, EmptyBag) = {}
  BY <1>5, CopiesNone DEF Out
<1>7. Tally(EmptyBag, <<>>, <<>>, EmptyBag)[0] = 0
  <2> DEFINE T == Tally(EmptyBag, <<>>, <<>>, EmptyBag)
  <2>1. Counts(T, {})
    BY <1>5, <1>6, TallyCounts
  <2> HIDE DEF T
  <2>2. T[0] \in Nat /\ ~(T[0] > 0)
    BY <2>1 DEF Counts
  <2>3. T[0] = 0
    BY <2>2
  <2> QED
    BY <2>3 DEF T
<1>8. Accounted(core, Tally(EmptyBag, <<>>, <<>>, EmptyBag), {})
  BY <1>3, <1>7 DEF Accounted, EmptyRecord
<1> QED
  BY <1>2, <1>4, <1>5, <1>6, <1>8, InitInductive DEF RInv, AccountedWorld

--------------------------------------------------------------------------------
(* The invariant in the words of the properties *)

(* The callbacks on the stack, counted by frame or by place. *)
LEMMA RunningActive ==
  ASSUME IInv, NEW id
  PROVE  Running(id) = Active(id, inflight, stack)
<1>1. stack \in Seq(Frame) /\ DOMAIN stack = 1..Len(stack)
  BY Parts, QueuePlaces
<1>2. ASSUME NEW i \in 1..Len(stack)
      PROVE  stack[i].at = "Callback" <=> stack[i] \in CallbackFrame
  <2>1. stack[i] \in Frame
    BY <1>1
  <2> QED
    BY <2>1 DEF Frame, LoopFrame, CallbackFrame
<1>3. {i \in Callbacks : stack[i].inv.jobId = id} = Places(stack, CallbacksOf(id))
  BY <1>1, <1>2 DEF Callbacks, Places, CallbacksOf
<1> QED
  BY <1>3 DEF Running, Active, HowMany

(* An id that the API no longer finds belongs to no live job. *)
LEMMA DeadIsGone ==
  ASSUME NEW c, CoreInv(c), NEW id
  PROVE  FindJobSlot(c, id) = {} <=> Gone(c, id)
<1>1. /\ c.allocated \subseteq Slots
      /\ c.jobIndex = {<<c.jobs[s].id, s>> : s \in Occupied(c)}
      /\ \A s \in Occupied(c) : s \in c.allocated
  BY DEF CoreInv, CoreState, Consistent
<1>2. ASSUME NEW s \in Slots, Live(c.jobs[s]), c.jobs[s].id = id
      PROVE  s \in FindJobSlot(c, id)
  <2>1. s \in Occupied(c)
    BY <1>2 DEF Occupied, Live
  <2> QED
    BY <1>1, <1>2, <2>1 DEF FindJobSlot
<1>3. ASSUME NEW s \in FindJobSlot(c, id)
      PROVE  s \in Slots /\ Live(c.jobs[s]) /\ c.jobs[s].id = id
  BY <1>1, <1>3 DEF FindJobSlot
<1> QED
  BY <1>2, <1>3 DEF Gone

(* What the invariant says in every state. *)
LEMMA RunsProperties ==
  ASSUME RInv
  PROVE  /\ QueuedRunIsOwed /\ NoSlotLeak /\ RunningCountExact /\ NoStaleInvocation
         /\ NoOverlap /\ (EverOccurring => NotStranded)
<1> DEFINE T == Tally(inflight, stack, events, lost)
           O == Out(inflight, stack, events, lost)
<1>1. /\ IInv /\ CoreInv(core) /\ RunsInv(core) /\ Steady(core)
      /\ World(inflight, stack, events, lost) /\ Accounted(core, T, O)
      /\ \A s \in Slots : core.jobs[s] \in JobRecord
      /\ stack \in Seq(Frame) /\ events \in Seq(JobInvocation)
  BY DEF RInv, IInv, CoreInv, CoreState, Steady, AccountedWorld, World
<1>2. \A s \in Slots : RecordOK(core.jobs[s], s \in core.pendingSchedules)
  BY <1>1 DEF RunsInv
<1>3. QueuedRunIsOwed
  BY <1>2 DEF QueuedRunIsOwed, RecordOK
<1>4. NoSlotLeak
  BY <1>1 DEF NoSlotLeak, NoLeak, Steady
<1>5. ASSUME EverOccurring PROVE NotStranded
  <2> SUFFICES ASSUME ~AllocFails, NEW s \in Slots PROVE Attended(s)
    BY DEF NotStranded
  <2>1. RecordAttended(core.jobs[s], s \in core.pendingSchedules)
    BY <1>1, <1>5 DEF Steady, AllAttended
  <2> QED
    BY <2>1 DEF RecordAttended, Attended
<1>6. ASSUME NEW s \in Slots
      PROVE  core.jobs[s].runningCount
               = Running(core.jobs[s].id) + CopiesOf(core.jobs[s].id, lost)
                 + CopiesOf(core.jobs[s].id, ToBag(events))
  <2> DEFINE id == core.jobs[s].id
  <2>1. id \in Nat /\ core.jobs[s].runningCount = T[id]
    BY <1>1 DEF JobRecord, Accounted
  <2> HIDE DEF id
  <2>2. T[id] = Active(id, inflight, stack) + CopiesOf(id, lost) + HowMany(events, InvocationsOf(id))
    BY <2>1 DEF Tally
  <2>3. CopiesOf(id, ToBag(events)) = HowMany(events, InvocationsOf(id))
    BY <1>1, CopiesQueue
  <2>4. Running(id) = Active(id, inflight, stack)
    BY <1>1, RunningActive
  <2>5. core.jobs[s].runningCount = Running(id) + CopiesOf(id, lost) + CopiesOf(id, ToBag(events))
    BY <2>1, <2>2, <2>3, <2>4
  <2> QED
    BY <2>5 DEF id
<1>7. RunningCountExact
  BY <1>6 DEF RunningCountExact
<1>8. NoStaleInvocation
  <2>1. \A inv \in O : Current(core, inv)
    BY <1>1 DEF Accounted
  <2>2. ToSet(events) = Range(events)
    BY <1>1, QueuePlaces DEF ToSet, Range
  <2>3. ASSUME NEW i \in Callbacks PROVE stack[i].inv \in Calls(stack)
    <3>1. i \in DOMAIN stack /\ stack[i] \in Frame /\ stack[i].at = "Callback"
      BY <1>1, <2>3, QueuePlaces DEF Callbacks
    <3>2. stack[i] \in CallbackFrame /\ stack[i] \in Range(stack)
      BY <3>1 DEF Frame, LoopFrame, CallbackFrame, Range
    <3> QED
      BY <3>2 DEF Calls
  <2> QED
    BY <2>1, <2>2, <2>3 DEF NoStaleInvocation, Out
<1>9. NoOverlap
  <2> SUFFICES ASSUME NEW s \in Slots, core.jobs[s].occupied,
                      core.jobs[s].overlap # "AllowParallel"
               PROVE  Running(core.jobs[s].id) <= 1
    BY DEF NoOverlap
  <2> DEFINE id == core.jobs[s].id
  <2>1. core.jobs[s].runningCount <= 1
    BY <1>2 DEF RecordOK
  <2>2. core.jobs[s].runningCount
          = Running(id) + CopiesOf(id, lost) + CopiesOf(id, ToBag(events))
    BY <1>6
  <2> HIDE DEF id
  <2>3. /\ Running(id) \in Nat /\ CopiesOf(id, lost) \in Nat
        /\ CopiesOf(id, ToBag(events)) \in Nat
    BY <1>1, RunningActive, ActiveType, PartCounts, CopiesQueue
  <2>4. Running(id) <= 1
    BY <2>1, <2>2, <2>3
  <2> QED
    BY <2>4 DEF id
<1> QED
  BY <1>3, <1>4, <1>5, <1>7, <1>8, <1>9

(* What every step keeps of a job that is gone. *)
LEMMA GoneStays ==
  ASSUME RInv, [Next]_vars, NEW id \in 1..MaxId, Dead(id)
  PROVE  /\ Dead(id)' /\ Running(id)' <= Running(id)
         /\ (CallbackReturn /\ Top.inv.jobId = id) => stack' = Below
<1>1. RInv' /\ RunsStep /\ IInv' /\ IInv /\ CoreInv(core) /\ CoreInv(core')
  BY NextRuns DEF RInv, IInv
<1>2. /\ id < core.nextId /\ Gone(core, id) /\ id \in Nat
      /\ core.nextId \in Nat /\ core'.nextId \in Nat
  BY <1>1, DeadIsGone DEF Dead, CoreInv, CoreState
<1>3. id < core'.nextId /\ Gone(core', id)
  BY <1>1, <1>2 DEF RunsStep, NoRevival
<1>4. Dead(id)'
  BY <1>1, <1>3, DeadIsGone DEF Dead
<1>5. Running(id)' = Active(id, inflight', stack') /\ Running(id) = Active(id, inflight, stack)
  <2>1. (IInv => Running(id) = Active(id, inflight, stack))'
    BY RunningActive, PTL
  <2> QED
    BY <1>1, <2>1, RunningActive
<1>6. Running(id)' <= Running(id)
  BY <1>1, <1>2, <1>5 DEF RunsStep
<1>7. ASSUME CallbackReturn, Top.inv.jobId = id PROVE stack' = Below
  BY <1>1, <1>2, <1>7, CallbackReturnRuns
<1> QED
  BY <1>4, <1>6, <1>7

--------------------------------------------------------------------------------
(* Theorems *)

(* The invariant holds of the scheduler in manual mode. *)
THEOREM RunsInductive == Spec => []RInv
<1>1. RInv /\ [Next]_vars => RInv'
  BY NextRuns
<1> QED
  BY <1>1, InitRuns, PTL DEF Spec

(* runningCount is exact for any number of jobs, workers, nested calls and  *)
(* shutdowns: each invocation that is out is counted once, and none that    *)
(* has been handled is counted still.                                       *)
THEOREM CountsCorrect == Spec => []RunningCountExact
<1>1. RInv => RunningCountExact
  BY RunsProperties
<1> QED
  BY <1>1, RunsInductive, PTL

(* No completion is stale: dispatchOne may complete an inline job by its    *)
(* slot without looking at the generation.                                  *)
THEOREM InvocationsCurrent == Spec => []NoStaleInvocation
<1>1. RInv => NoStaleInvocation
  BY RunsProperties
<1> QED
  BY <1>1, RunsInductive, PTL

(* SkipIfRunning and QueueOne never let two callbacks of a job run at once, *)
(* whichever thread runs them and however the calls nest.                   *)
THEOREM OverlapExcluded == Spec => []NoOverlap
<1>1. RInv => NoOverlap
  BY RunsProperties
<1> QED
  BY <1>1, RunsInductive, PTL

(* A run that QueueOne keeps back is owed to a runnable job with an         *)
(* invocation out, whose completion will start it.                          *)
THEOREM QueuedRunsOwed == Spec => []QueuedRunIsOwed
<1>1. RInv => QueuedRunIsOwed
  BY RunsProperties
<1> QED
  BY <1>1, RunsInductive, PTL

(* While allocations succeed, retireJob gives every slot back. *)
THEOREM SlotsReturned == Spec => []NoSlotLeak
<1>1. RInv => NoSlotLeak
  BY RunsProperties
<1> QED
  BY <1>1, RunsInductive, PTL

(* If every recurring schedule has an occurrence after every time, and      *)
(* allocations succeed, no order of calls leaves a runnable idle job        *)
(* neither primed nor listed to be scheduled.                               *)
THEOREM NoJobStranded == EverOccurring => (Spec => []NotStranded)
<1> SUFFICES ASSUME EverOccurring PROVE Spec => []NotStranded
  OBVIOUS
<1>1. RInv => NotStranded
  BY RunsProperties
<1> QED
  BY <1>1, RunsInductive, PTL

(* A one-shot whose invocation is out is neither primed nor dispatched a    *)
(* second time.                                                             *)
THEOREM OneShotsRunOnce == Spec => OneShotRunsOnce
<1>1. RInv /\ [Next]_vars
        => [\A s \in Slots : LET r == core.jobs[s] IN
              IsOneShot(r) /\ r.runningCount > 0 =>
                \/ /\ core'.jobs[s].id = r.id /\ core'.jobs[s].runningCount = 1
                   /\ ~core'.jobs[s].hasNext
                \/ core'.jobs[s].id # r.id]_vars
  BY NextRuns DEF RunsStep, OneShotKept
<1> QED
  BY <1>1, RunsInductive, PTL DEF Spec, OneShotRunsOnce

(* Once cancelJob or end() has returned, or a one-shot has completed, its   *)
(* id stays NotFound, no callback of it starts, and an inline callback that *)
(* is still running returns to its caller without a further run.            *)
THEOREM DeadIsFinal == Spec => DeadStaysDead
<1>1. RInv /\ [Next]_vars
        => [\A id \in 1..MaxId : Dead(id) =>
              /\ Dead(id)'
              /\ Running(id)' <= Running(id)
              /\ (CallbackReturn /\ Top.inv.jobId = id) => stack' = Below]_vars
  BY GoneStays
<1> QED
  BY <1>1, RunsInductive, PTL DEF Spec, DeadStaysDead
================================================================================
