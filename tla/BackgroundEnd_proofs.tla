--------------------------- MODULE BackgroundEnd_proofs ---------------------------
(***************************************************************************)
(* Proofs about BackgroundEnd, for any number of workers and tasks and any *)
(* queue depths: EndInv is an inductive invariant, and what end() promises *)
(* follows.                                                                *)
(***************************************************************************)
EXTENDS BackgroundEnd, Counting

EnderPlaces ==
  {"Up", "WaitCancel", "WaitJobs", "Detach", "ClearHandle", "Purge", "Sentinels",
   "WaitWorkers", "DestroyExecutors", "StopService", "WaitService", "DeleteQueues",
   "ClearRuntime", "Down"}

(* Where end() is once the workers have left or were deleted. *)
AfterWorkers ==
  {"DestroyExecutors", "StopService", "WaitService", "DeleteQueues", "ClearRuntime", "Down"}

Dispatching == {"Resolve", "Submit", "Inline"}
Running     == {"Callback", "Accepting", "Handle", "Send"}

ServiceStates ==
  [at : {"Commands", "Events", "Dispatch", "Sleep", "Exited"} \cup Dispatching,
   back : {"None", "Events", "Dispatch"}]

EndTypeOK ==
  /\ ender \in EnderPlaces /\ posted \in Nat
  /\ commands \in Seq({"CancelAll", "Add", "Wake"})
  /\ adder \in {"Out", "Checked", "Done"}
  /\ service \in ServiceStates
  /\ service.at \in Dispatching => service.back # "None"
  /\ active \in Nat /\ published \in Nat /\ runs \in Nat /\ events \in Nat
  /\ poolQueue \in Seq({"Item", "Sentinel"})
  /\ at \in [Workers \cup Tasks -> Running \cup {"Idle", "Gone"}]

(* Every invocation that waits in the pool, runs, is being posted or waits  *)
(* for the service is counted: a completion that was dropped leaves the     *)
(* count too high, and nothing makes it too low.                            *)
Accounted ==
  HowMany(poolQueue, {"Item"}) + HowMany(at, Running) + events
    + (IF service.at = "Inline" THEN 1 ELSE 0) <= active

(* The event queue and, in end(true), its handle outlive the workers. *)
QueueOutlives ==
  /\ ender \in AfterWorkers => \A w \in Workers : at[w] = "Gone"
  /\ ender \notin AfterWorkers => queueLive
  /\ ender = "ClearHandle" => ~drain
  /\ handle \/ ender = "Down" \/ (ender # "Up" /\ ~drain)

(* The stored count is exact from where it is stored to where commands are  *)
(* executed; after end()'s cancelAll it is never too low.                   *)
CountStored ==
  /\ service.at \in {"Commands", "Sleep"} => published = active
  /\ signaled /\ ~late => active <= published

(* After cancelAll nothing is left to dispatch. *)
Cancelled ==
  /\ answered => signaled
  /\ signaled /\ ~late => ~jobs /\ ~deferred /\ service.at \notin Dispatching

(* What end() saw at 0 is 0. *)
SawNone ==
  /\ drained => ender \notin {"Up", "WaitCancel", "WaitJobs"}
  /\ drained /\ answered /\ ~late => active = 0

EndInv ==
  EndTypeOK /\ Accounted /\ QueueOutlives /\ CountStored /\ Cancelled /\ SawNone

(* The counts are numbers. *)
LEMMA CountsType ==
  ASSUME EndTypeOK
  PROVE  /\ HowMany(poolQueue, {"Item"}) \in Nat
         /\ HowMany(at, Running) \in Nat
         /\ DOMAIN at = Workers \cup Tasks /\ IsFiniteSet(DOMAIN at)
<1>1. DOMAIN at = Workers \cup Tasks /\ IsFiniteSet(Workers \cup Tasks)
  BY EndAssumption, FS_Union DEF EndTypeOK
<1>2. HowMany(at, Running) \in Nat
  BY <1>1, PlacesFinite
<1>3. HowMany(poolQueue, {"Item"}) \in Nat
  BY QueuePlaces, PlacesFinite DEF EndTypeOK
<1> QED
  BY <1>1, <1>2, <1>3

(* A task that moves changes the count by itself. *)
LEMMA MoveCounts ==
  ASSUME EndTypeOK, NEW t \in Workers \cup Tasks, NEW p, Move(t, p)
  PROVE  HowMany(at', Running) = HowMany(at, Running) - (IF at[t] \in Running THEN 1 ELSE 0)
                                                      + (IF p \in Running THEN 1 ELSE 0)
<1>1. DOMAIN at = Workers \cup Tasks /\ IsFiniteSet(DOMAIN at)
  BY CountsType
<1>2. DOMAIN at' = DOMAIN at /\ at'[t] = p /\ \A y \in DOMAIN at : y # t => at'[y] = at[y]
  BY <1>1 DEF Move, EndTypeOK
<1>3. HowMany(at', Running) = HowMany(at, Running) - (IF at[t] \in Running THEN 1 ELSE 0)
                                                   + (IF at'[t] \in Running THEN 1 ELSE 0)
  BY <1>1, <1>2, HowManyExcept
<1> QED
  BY <1>2, <1>3

(* The parts hold in the initial state. *)
LEMMA EndInitInv ==
  ASSUME EndInit
  PROVE  EndInv
<1>1. EndTypeOK
  BY DEF EndInit, EndTypeOK, EnderPlaces, ServiceStates, Dispatching, Running
<1>2. HowMany(poolQueue, {"Item"}) = 0
  <2>1. poolQueue \in Seq({"Item"}) /\ DOMAIN poolQueue = {}
    BY DEF EndInit
  <2> QED
    BY <2>1, QueuePlaces, PlacesFinite
<1>3. HowMany(at, Running) = 0
  BY <1>1, CountsType, PlacesFinite DEF EndInit, Running
<1> QED
  BY <1>1, <1>2, <1>3
  DEF EndInv, EndInit, Accounted, QueueOutlives, CountStored, Cancelled, SawNone, AfterWorkers,
      Dispatching

(* The service task keeps the invariant. *)
LEMMA ServiceTaskInv ==
  ASSUME EndInv, ServiceTask
  PROVE  EndInv'
<1> USE DEF EndInv, enderVars, coreVars, runtimeVars, ServiceAt, GoTo, ServiceStates, Dispatching
<1>0. /\ HowMany(poolQueue, {"Item"}) \in Nat /\ HowMany(at, Running) \in Nat
      /\ DOMAIN at = Workers \cup Tasks /\ IsFiniteSet(DOMAIN at)
  BY CountsType
<1>1. CASE DrainCommand
  <2>1. EndTypeOK'
    BY <1>1, <1>0
    DEF DrainCommand, CancelAllJobs, EndTypeOK, Accounted, Dispatching, ServiceStates
  <2>2. Accounted'
    BY <1>1, <1>0 DEF DrainCommand, CancelAllJobs, Accounted, EndTypeOK
  <2>3. QueueOutlives'
    BY <1>1 DEF DrainCommand, QueueOutlives
  <2>4. active' = active /\ published' = published /\ service' = service /\ published = active
    BY <1>1 DEF DrainCommand, CountStored
  <2>5. CountStored'
    BY <2>4 DEF CountStored, EndTypeOK
  <2>6. service.at \notin Dispatching
    BY <1>1 DEF DrainCommand
  <2>7. Cancelled'
    <3>1. CASE Head(commands) = "CancelAll"
      BY <1>1, <2>4, <2>6, <3>1 DEF DrainCommand, CancelAllJobs, Cancelled
    <3>2. CASE Head(commands) # "CancelAll"
      <4>1. (signaled' => signaled) /\ (signaled => signaled') /\ (late => late')
        BY <1>1, <3>2 DEF DrainCommand
      <4>2. (jobs' = jobs /\ deferred' = deferred) \/ (signaled => late')
        BY <1>1, <3>2 DEF DrainCommand
      <4>3. answered' = answered
        BY <1>1 DEF DrainCommand
      <4> QED
        BY <4>1, <4>2, <4>3, <2>4, <2>6 DEF Cancelled
    <3> QED
      BY <3>1, <3>2
  <2>8. SawNone'
    BY <1>1, <2>4 DEF DrainCommand, SawNone
  <2> QED
    BY <2>1, <2>2, <2>3, <2>5, <2>7, <2>8
<1>2. CASE NoMoreCommands
  <2>1. EndTypeOK'
    BY <1>2, <1>0 DEF NoMoreCommands, EndTypeOK, Accounted, Dispatching, ServiceStates
  <2>2. Accounted'
    BY <1>2, <1>0 DEF NoMoreCommands, Accounted, EndTypeOK
  <2> QED
    BY <1>2, <1>0, <2>1, <2>2
    DEF NoMoreCommands, EndTypeOK, Accounted, QueueOutlives, CountStored, Cancelled,
        SawNone, Dispatching
<1>3. CASE DrainEvent
  <2>1. EndTypeOK'
    BY <1>3, <1>0 DEF DrainEvent, EndTypeOK, Accounted, Dispatching, ServiceStates
  <2>2. Accounted'
    BY <1>3, <1>0 DEF DrainEvent, Accounted, EndTypeOK
  <2> QED
    BY <1>3, <1>0, <2>1, <2>2
    DEF DrainEvent, EndTypeOK, Accounted, QueueOutlives, CountStored, Cancelled, SawNone,
        Dispatching
<1>4. CASE NoMoreEvents
  <2>1. EndTypeOK'
    BY <1>4, <1>0 DEF NoMoreEvents, EndTypeOK, Accounted, Dispatching, ServiceStates
  <2>2. Accounted'
    BY <1>4, <1>0 DEF NoMoreEvents, Accounted, EndTypeOK
  <2> QED
    BY <1>4, <1>0, <2>1, <2>2
    DEF NoMoreEvents, EndTypeOK, Accounted, QueueOutlives, CountStored, Cancelled, SawNone,
        Dispatching
<1>5. CASE DispatchJob
  <2>1. EndTypeOK'
    BY <1>5, <1>0 DEF DispatchJob, EndTypeOK, Accounted, Dispatching, ServiceStates
  <2>2. Accounted'
    BY <1>5, <1>0 DEF DispatchJob, Accounted, EndTypeOK
  <2> QED
    BY <1>5, <1>0, <2>1, <2>2
    DEF DispatchJob, EndTypeOK, Accounted, QueueOutlives, CountStored, Cancelled, SawNone,
        Dispatching
<1>6. CASE ResolveExecutor
  <2>1. EndTypeOK'
    BY <1>6, <1>0 DEF ResolveExecutor, EndTypeOK, Accounted, Dispatching, ServiceStates
  <2>2. Accounted'
    BY <1>6, <1>0 DEF ResolveExecutor, Accounted, EndTypeOK
  <2> QED
    BY <1>6, <1>0, <2>1, <2>2
    DEF ResolveExecutor, EndTypeOK, Accounted, QueueOutlives, CountStored, Cancelled,
        SawNone, Dispatching
<1>7. CASE SubmitToPool
  <2>1. HowMany(poolQueue', {"Item"}) = HowMany(poolQueue, {"Item"}) + 1
    BY <1>7, HowManyAppend DEF SubmitToPool, EndTypeOK
  <2>2. EndTypeOK'
    BY <1>7 DEF SubmitToPool, Submitted, EndTypeOK, ServiceStates, Dispatching
  <2>3. Accounted'
    BY <1>7, <1>0, <2>1, SMTT(30) DEF SubmitToPool, Submitted, Accounted, EndTypeOK
  <2> QED
    BY <1>7, <2>2, <2>3
    DEF SubmitToPool, Submitted, EndTypeOK, QueueOutlives, CountStored, Cancelled, SawNone,
        Dispatching
<1>8. CASE SubmitToTask
  <2>1. PICK t \in Tasks : at[t] = "Idle" /\ at' = [at EXCEPT ![t] = "Callback"]
    BY <1>8 DEF SubmitToTask
  <2>2. HowMany(at', Running) = HowMany(at, Running) + 1
    <3>1. Move(t, "Callback") /\ at[t] \notin Running /\ "Callback" \in Running
      BY <2>1 DEF Move, Running
    <3> QED
      BY <3>1, <1>0, MoveCounts
  <2>3. EndTypeOK'
    BY <1>8, <2>1
    DEF SubmitToTask, Submitted, EndTypeOK, ServiceStates, Dispatching, Running
  <2>4. Accounted'
    BY <1>8, <1>0, <2>2 DEF SubmitToTask, Submitted, Accounted, EndTypeOK
  <2>5. \A w \in Workers : at'[w] = at[w]
    BY <2>1, EndAssumption DEF EndTypeOK
  <2> QED
    BY <1>8, <2>3, <2>4, <2>5
    DEF SubmitToTask, Submitted, EndTypeOK, QueueOutlives, CountStored, Cancelled, SawNone,
        Dispatching
<1>9. CASE SubmitRefused
  <2>1. EndTypeOK'
    BY <1>9, <1>0 DEF SubmitRefused, EndTypeOK, Accounted, Dispatching, ServiceStates
  <2>2. Accounted'
    BY <1>9, <1>0 DEF SubmitRefused, Accounted, EndTypeOK
  <2> QED
    BY <1>9, <1>0, <2>1, <2>2
    DEF SubmitRefused, EndTypeOK, Accounted, QueueOutlives, CountStored, Cancelled, SawNone,
        Dispatching
<1>10. CASE SubmitInline
  <2>1. EndTypeOK'
    BY <1>10, <1>0, SMTT(30)
    DEF SubmitInline, Submitted, EndTypeOK, Accounted, Dispatching, ServiceStates
  <2>2. Accounted'
    BY <1>10, <1>0 DEF SubmitInline, Submitted, Accounted, EndTypeOK
  <2> QED
    BY <1>10, <1>0, <2>1, <2>2
    DEF SubmitInline, Submitted, EndTypeOK, Accounted, QueueOutlives, CountStored,
        Cancelled, SawNone, Dispatching
<1>11. CASE InlineReturns
  <2>0. active - 1 \in Nat
    BY <1>11, <1>0 DEF InlineReturns, EndTypeOK, Accounted
  <2>1. EndTypeOK'
    BY <1>11, <2>0 DEF InlineReturns, EndTypeOK
  <2>2. Accounted'
    BY <1>11, <1>0 DEF InlineReturns, Accounted, EndTypeOK
  <2> QED
    BY <1>11, <1>0, <2>1, <2>2
    DEF InlineReturns, EndTypeOK, Accounted, QueueOutlives, CountStored, Cancelled, SawNone,
        Dispatching
<1>12. CASE PublishActive
  <2>1. EndTypeOK'
    BY <1>12, <1>0 DEF PublishActive, EndTypeOK, Accounted, Dispatching, ServiceStates
  <2>2. Accounted'
    BY <1>12, <1>0 DEF PublishActive, Accounted, EndTypeOK
  <2> QED
    BY <1>12, <1>0, <2>1, <2>2
    DEF PublishActive, EndTypeOK, Accounted, QueueOutlives, CountStored, Cancelled, SawNone,
        Dispatching
<1>13. CASE LoopAgain
  <2>1. EndTypeOK'
    BY <1>13, <1>0 DEF LoopAgain, EndTypeOK, Accounted, Dispatching, ServiceStates
  <2>2. Accounted'
    BY <1>13, <1>0 DEF LoopAgain, Accounted, EndTypeOK
  <2> QED
    BY <1>13, <1>0, <2>1, <2>2
    DEF LoopAgain, EndTypeOK, Accounted, QueueOutlives, CountStored, Cancelled, SawNone,
        Dispatching
<1> QED
  BY <1>1, <1>2, <1>3, <1>4, <1>5, <1>6, <1>7, <1>8, <1>9, <1>10, <1>11, <1>12, <1>13
  DEF ServiceTask

(* The workers and the dedicated tasks keep it. *)
LEMMA RunsCallbacksInv ==
  ASSUME EndInv, RunsCallbacks
  PROVE  EndInv'
<1> USE DEF EndInv, othersOfWorker, enderVars, coreVars, runtimeVars
<1>0. /\ HowMany(poolQueue, {"Item"}) \in Nat /\ HowMany(at, Running) \in Nat
      /\ DOMAIN at = Workers \cup Tasks /\ IsFiniteSet(DOMAIN at)
  BY CountsType
<1>1. ASSUME NEW w \in Workers, WorkerReceives(w)
      PROVE  EndInv'
  <2> DEFINE item == IF Head(poolQueue) = "Item" THEN 1 ELSE 0
  <2>1. HowMany(poolQueue', {"Item"}) = HowMany(poolQueue, {"Item"}) - item
    BY <1>1, HowManyTail DEF WorkerReceives, EndTypeOK
  <2>2. Head(poolQueue) \in {"Item", "Sentinel"} /\ poolQueue' \in Seq({"Item", "Sentinel"})
    BY <1>1 DEF WorkerReceives, EndTypeOK
  <2>3. HowMany(at', Running) = HowMany(at, Running) + item
    <3>1. /\ at[w] \notin Running /\ "Callback" \in Running /\ "Gone" \notin Running
          /\ Move(w, IF Head(poolQueue) = "Item" THEN "Callback" ELSE "Gone")
      BY <1>1, <2>2 DEF WorkerReceives, Running
    <3> QED
      BY <3>1, <1>0, MoveCounts
  <2>4. EndTypeOK'
    BY <1>1, <2>2 DEF WorkerReceives, EndTypeOK, Running, Move
  <2>5. Accounted'
    BY <1>1, <1>0, <2>1, <2>3 DEF WorkerReceives, Accounted, EndTypeOK
  <2>6. ender \notin AfterWorkers
    BY <1>1 DEF WorkerReceives, QueueOutlives
  <2> QED
    BY <1>1, <2>4, <2>5, <2>6
    DEF WorkerReceives, QueueOutlives, CountStored, Cancelled, SawNone
<1>2. ASSUME NEW t \in Workers \cup Tasks, CallbackReturns(t)
      PROVE  EndInv'
  <2>1. HowMany(at', Running) <= HowMany(at, Running) /\ HowMany(at', Running) \in Int
    <3>1. PICK p : Move(t, p) /\ at[t] \in Running
      BY <1>2 DEF CallbackReturns, Running
    <3> QED
      BY <3>1, <1>0, MoveCounts
  <2>2. EndTypeOK'
    BY <1>2, <1>0 DEF CallbackReturns, EndTypeOK, Running, Move
  <2>3. Accounted'
    BY <1>2, <1>0, <2>1 DEF CallbackReturns, Accounted, EndTypeOK
  <2>4. t \in Workers => ender \notin AfterWorkers
    BY <1>2 DEF CallbackReturns, QueueOutlives
  <2>5. \A w \in Workers : w # t => at'[w] = at[w]
    BY <1>2 DEF CallbackReturns, EndTypeOK, Move
  <2> QED
    BY <1>2, <2>2, <2>3, <2>4, <2>5
    DEF CallbackReturns, QueueOutlives, CountStored, Cancelled, SawNone
<1>3. ASSUME NEW t \in Workers \cup Tasks, ReadsAccepting(t)
      PROVE  EndInv'
  <2>1. HowMany(at', Running) <= HowMany(at, Running) /\ HowMany(at', Running) \in Int
    <3>1. PICK p : Move(t, p) /\ at[t] \in Running
      BY <1>3 DEF ReadsAccepting, Running
    <3> QED
      BY <3>1, <1>0, MoveCounts
  <2>2. EndTypeOK'
    BY <1>3, <1>0 DEF ReadsAccepting, EndTypeOK, Running, Move
  <2>3. Accounted'
    BY <1>3, <1>0, <2>1 DEF ReadsAccepting, Accounted, EndTypeOK
  <2>4. t \in Workers => ender \notin AfterWorkers
    BY <1>3 DEF ReadsAccepting, QueueOutlives
  <2>5. \A w \in Workers : w # t => at'[w] = at[w]
    BY <1>3 DEF ReadsAccepting, EndTypeOK, Move
  <2> QED
    BY <1>3, <2>2, <2>3, <2>4, <2>5
    DEF ReadsAccepting, QueueOutlives, CountStored, Cancelled, SawNone
<1>4. ASSUME NEW t \in Workers \cup Tasks, ReadsHandle(t)
      PROVE  EndInv'
  <2>1. HowMany(at', Running) <= HowMany(at, Running) /\ HowMany(at', Running) \in Int
    <3>1. PICK p : Move(t, p) /\ at[t] \in Running
      BY <1>4 DEF ReadsHandle, Running
    <3> QED
      BY <3>1, <1>0, MoveCounts
  <2>2. EndTypeOK'
    BY <1>4, <1>0 DEF ReadsHandle, EndTypeOK, Running, Move
  <2>3. Accounted'
    BY <1>4, <1>0, <2>1 DEF ReadsHandle, Accounted, EndTypeOK
  <2>4. t \in Workers => ender \notin AfterWorkers
    BY <1>4 DEF ReadsHandle, QueueOutlives
  <2>5. \A w \in Workers : w # t => at'[w] = at[w]
    BY <1>4 DEF ReadsHandle, EndTypeOK, Move
  <2> QED
    BY <1>4, <2>2, <2>3, <2>4, <2>5
    DEF ReadsHandle, QueueOutlives, CountStored, Cancelled, SawNone
<1>5. ASSUME NEW t \in Workers \cup Tasks, SendsCompletion(t)
      PROVE  EndInv'
  <2>1. HowMany(at', Running) <= HowMany(at, Running) - 1 /\ HowMany(at', Running) \in Int
    <3>1. PICK p : Move(t, p) /\ at[t] \in Running /\ p \notin Running
      BY <1>5 DEF SendsCompletion, Running
    <3> QED
      BY <3>1, <1>0, MoveCounts
  <2>2. EndTypeOK'
    BY <1>5, <1>0 DEF SendsCompletion, EndTypeOK, Running, Move
  <2>3. Accounted'
    BY <1>5, <1>0, <2>1, SMTT(30) DEF SendsCompletion, Accounted, EndTypeOK
  <2>4. t \in Workers => ender \notin AfterWorkers
    BY <1>5 DEF SendsCompletion, QueueOutlives
  <2>5. \A w \in Workers : w # t => at'[w] = at[w]
    BY <1>5 DEF SendsCompletion, EndTypeOK, Move
  <2> QED
    BY <1>5, <2>2, <2>3, <2>4, <2>5
    DEF SendsCompletion, QueueOutlives, CountStored, Cancelled, SawNone
<1> QED
  BY <1>1, <1>2, <1>3, <1>4, <1>5 DEF RunsCallbacks

(* end() keeps it. *)
LEMMA EnderInv ==
  ASSUME EndInv, Ender
  PROVE  EndInv'
<1> USE DEF EndInv, enderVars, coreVars, runtimeVars, EnderGoes
<1>0. /\ HowMany(poolQueue, {"Item"}) \in Nat /\ HowMany(at, Running) \in Nat
      /\ DOMAIN at = Workers \cup Tasks /\ IsFiniteSet(DOMAIN at)
  BY CountsType
<1>1. CASE CallEnd
  <2>1. /\ commands' \in Seq({"CancelAll", "Add", "Wake"})
        /\ ender' \in {"WaitCancel", "WaitJobs", "Detach"}
    <3>1. Append(commands, "CancelAll") \in Seq({"CancelAll", "Add", "Wake"})
      BY DEF EndTypeOK
    <3>2. CASE Len(commands) < CommandQueueDepth
      BY <1>1, <3>1, <3>2 DEF CallEnd
    <3>3. CASE ~(Len(commands) < CommandQueueDepth)
      BY <1>1, <3>3 DEF CallEnd, EndTypeOK
    <3> QED
      BY <3>2, <3>3
  <2>2. EndTypeOK'
    BY <1>1, <2>1 DEF CallEnd, EndTypeOK, EnderPlaces
  <2>3. Accounted'
    BY <1>1, <1>0 DEF CallEnd, Accounted, EndTypeOK
  <2> QED
    BY <1>1, <1>0, <2>2, <2>3
    DEF CallEnd, EndTypeOK, QueueOutlives, CountStored, Cancelled, SawNone, AfterWorkers
<1>2. CASE CancelReturns
  <2>2. EndTypeOK'
    BY <1>2 DEF CancelReturns, AfterCancel, EndTypeOK, EnderPlaces
  <2>3. Accounted'
    BY <1>2, <1>0 DEF CancelReturns, AfterCancel, Accounted, EndTypeOK
  <2> QED
    BY <1>2, <1>0, <2>2, <2>3
    DEF CancelReturns, AfterCancel, EndTypeOK, QueueOutlives, CountStored, Cancelled,
        SawNone, AfterWorkers
<1>3. CASE JobsWaitEnds
  <2>1. ender' = "Detach" /\ (drained' => published = 0)
    BY <1>3 DEF JobsWaitEnds
  <2>2. EndTypeOK'
    BY <1>3, <2>1 DEF JobsWaitEnds, EndTypeOK, EnderPlaces
  <2>3. Accounted'
    BY <1>3 DEF JobsWaitEnds, Accounted
  <2>4. QueueOutlives' /\ CountStored' /\ Cancelled'
    BY <1>3 DEF JobsWaitEnds, QueueOutlives, CountStored, Cancelled, AfterWorkers
  <2>5. SawNone'
    BY <1>3, <2>1 DEF JobsWaitEnds, SawNone, Cancelled, CountStored, EndTypeOK
  <2> QED
    BY <2>2, <2>3, <2>4, <2>5
<1>4. CASE DetachRuntime
  <2>2. EndTypeOK'
    BY <1>4 DEF DetachRuntime, EndTypeOK, EnderPlaces
  <2>3. Accounted'
    BY <1>4, <1>0 DEF DetachRuntime, Accounted, EndTypeOK
  <2> QED
    BY <1>4, <1>0, <2>2, <2>3
    DEF DetachRuntime, EndTypeOK, QueueOutlives, CountStored, Cancelled, SawNone,
        AfterWorkers
<1>5. CASE ClearHandle
  <2>2. EndTypeOK'
    BY <1>5 DEF ClearHandle, EndTypeOK, EnderPlaces
  <2>3. Accounted'
    BY <1>5, <1>0 DEF ClearHandle, Accounted, EndTypeOK
  <2> QED
    BY <1>5, <1>0, <2>2, <2>3
    DEF ClearHandle, EndTypeOK, QueueOutlives, CountStored, Cancelled, SawNone, AfterWorkers
<1>6. CASE PurgePool
  <2>1. HowMany(poolQueue', {"Item"}) <= HowMany(poolQueue, {"Item"}) /\ HowMany(poolQueue', {"Item"}) \in Nat
    <3>1. poolQueue' \in Seq({"Item", "Sentinel"})
      BY <1>6 DEF PurgePool, EndTypeOK
    <3>2. HowMany(poolQueue', {"Item"}) \in Nat
      BY <3>1, QueuePlaces, PlacesFinite
    <3>3. CASE poolQueue # <<>>
      <4>1. poolQueue' = Tail(poolQueue)
        BY <1>6, <3>3 DEF PurgePool
      <4>2. HowMany(poolQueue', {"Item"})
              = HowMany(poolQueue, {"Item"}) - (IF Head(poolQueue) \in {"Item"} THEN 1 ELSE 0)
        BY <4>1, <3>3, HowManyTail DEF EndTypeOK
      <4> QED
        BY <4>2, <1>0, <3>2
    <3>4. CASE poolQueue = <<>>
      BY <1>6, <1>0, <3>4 DEF PurgePool
    <3> QED
      BY <3>2, <3>3, <3>4
  <2>2. EndTypeOK'
    BY <1>6, SMTT(30) DEF PurgePool, EndTypeOK, EnderPlaces
  <2>3. Accounted'
    BY <1>6, <1>0, <2>1 DEF PurgePool, Accounted, EndTypeOK
  <2> QED
    BY <1>6, <1>0, <2>2, <2>3
    DEF PurgePool, EndTypeOK, QueueOutlives, CountStored, Cancelled, SawNone, AfterWorkers
<1>7. CASE PostSentinel
  <2>1. HowMany(poolQueue', {"Item"}) = HowMany(poolQueue, {"Item"})
    <3>1. "Sentinel" \in {"Item", "Sentinel"} /\ "Sentinel" \notin {"Item"}
      OBVIOUS
    <3>2. HowMany(Append(poolQueue, "Sentinel"), {"Item"}) = HowMany(poolQueue, {"Item"})
      BY <1>0, <3>1, HowManyAppend DEF EndTypeOK
    <3> QED
      BY <1>7, <3>2 DEF PostSentinel
  <2>2. EndTypeOK'
    <3>1. poolQueue' \in Seq({"Item", "Sentinel"})
      <4>1. Append(poolQueue, "Sentinel") \in Seq({"Item", "Sentinel"})
        BY DEF EndTypeOK
      <4> QED
        BY <1>7, <4>1 DEF PostSentinel, EndTypeOK
    <3> QED
      BY <1>7, <3>1 DEF PostSentinel, EndTypeOK, EnderPlaces
  <2>3. Accounted'
    BY <1>7, <1>0, <2>1 DEF PostSentinel, Accounted, EndTypeOK
  <2> QED
    BY <1>7, <1>0, <2>2, <2>3
    DEF PostSentinel, EndTypeOK, QueueOutlives, CountStored, Cancelled, SawNone,
        AfterWorkers
<1>8. CASE WorkersWaitEnds
  <2>1. HowMany(at', Running) <= HowMany(at, Running) /\ HowMany(at', Running) \in Nat
    <3>1. Places(at', Running) \in SUBSET Places(at, Running)
      BY <1>8, <1>0 DEF WorkersWaitEnds, Places, Running
    <3> QED
      BY <3>1, <1>0, PlacesFinite, FS_Subset, FS_CardinalityType DEF HowMany
  <2>2. EndTypeOK'
    BY <1>8 DEF WorkersWaitEnds, EndTypeOK, EnderPlaces, Running
  <2>3. Accounted'
    BY <1>8, <1>0, <2>1 DEF WorkersWaitEnds, Accounted, EndTypeOK
  <2> QED
    BY <1>8, <1>0, <2>2, <2>3
    DEF WorkersWaitEnds, EndTypeOK, QueueOutlives, CountStored, Cancelled, SawNone,
        AfterWorkers
<1>9. CASE DestroyExecutors
  <2>1. HowMany(poolQueue', {"Item"}) = 0
    <3>1. poolQueue' \in Seq({"Item"}) /\ DOMAIN poolQueue' = {}
      BY <1>9 DEF DestroyExecutors
    <3> QED
      BY <3>1, QueuePlaces, PlacesFinite
  <2>2. EndTypeOK'
    BY <1>9 DEF DestroyExecutors, EndTypeOK, EnderPlaces
  <2>3. Accounted'
    BY <1>9, <1>0, <2>1 DEF DestroyExecutors, Accounted, EndTypeOK
  <2> QED
    BY <1>9, <1>0, <2>2, <2>3
    DEF DestroyExecutors, EndTypeOK, QueueOutlives, CountStored, Cancelled, SawNone,
        AfterWorkers
<1>10. CASE StopService
  <2>2. EndTypeOK'
    BY <1>10 DEF StopService, EndTypeOK, EnderPlaces
  <2>3. Accounted'
    BY <1>10, <1>0 DEF StopService, Accounted, EndTypeOK
  <2> QED
    BY <1>10, <1>0, <2>2, <2>3
    DEF StopService, EndTypeOK, QueueOutlives, CountStored, Cancelled, SawNone, AfterWorkers
<1>11. CASE ServiceWaitEnds
  <2>2. EndTypeOK'
    BY <1>11 DEF ServiceWaitEnds, GoTo, EndTypeOK, EnderPlaces, ServiceStates, Dispatching
  <2>3. Accounted'
    BY <1>11, <1>0 DEF ServiceWaitEnds, GoTo, Accounted, EndTypeOK
  <2> QED
    BY <1>11, <1>0, <2>2, <2>3
    DEF ServiceWaitEnds, GoTo, EndTypeOK, QueueOutlives, CountStored, Cancelled, SawNone,
        AfterWorkers, ServiceStates, Dispatching
<1>12. CASE DeleteQueues
  <2>2. EndTypeOK'
    BY <1>12 DEF DeleteQueues, EndTypeOK, EnderPlaces
  <2>3. Accounted'
    BY <1>12, <1>0 DEF DeleteQueues, Accounted, EndTypeOK
  <2> QED
    BY <1>12, <1>0, <2>2, <2>3
    DEF DeleteQueues, EndTypeOK, QueueOutlives, CountStored, Cancelled, SawNone,
        AfterWorkers
<1>13. CASE ClearRuntime
  <2>2. EndTypeOK'
    BY <1>13 DEF ClearRuntime, EndTypeOK, EnderPlaces
  <2>3. Accounted'
    BY <1>13, <1>0 DEF ClearRuntime, Accounted, EndTypeOK
  <2> QED
    BY <1>13, <1>0, <2>2, <2>3
    DEF ClearRuntime, EndTypeOK, QueueOutlives, CountStored, Cancelled, SawNone,
        AfterWorkers
<1> QED
  BY <1>1, <1>2, <1>3, <1>4, <1>5, <1>6, <1>7, <1>8, <1>9, <1>10, <1>11, <1>12, <1>13
  DEF Ender

(* Every step keeps the invariant. *)
LEMMA EndNextInv ==
  ASSUME EndInv, [EndNext]_endVars
  PROVE  EndInv'
<1>1. CASE AdderChecks
  BY <1>1
  DEF AdderChecks, EndInv, EndTypeOK, Accounted, QueueOutlives, CountStored, Cancelled,
              SawNone, enderVars, coreVars, runtimeVars
<1>2. CASE AdderSends
  BY <1>2
  DEF AdderSends, EndInv, EndTypeOK, Accounted, QueueOutlives, CountStored, Cancelled,
              SawNone, enderVars, coreVars, runtimeVars
<1>3. CASE UNCHANGED endVars
  BY <1>3 DEF endVars, EndInv, EndTypeOK, Accounted, QueueOutlives, CountStored, Cancelled,
              SawNone, enderVars, coreVars, runtimeVars
<1> QED
  BY <1>1, <1>2, <1>3, ServiceTaskInv, RunsCallbacksInv, EnderInv DEF EndNext

(* The inductive invariant of end() and of the tasks it ends: the types,    *)
(* the count of the invocations that are out, the order in which queues and *)
(* tasks go, and what cancelAll leaves.                                     *)
THEOREM EndInductive == EndSpec => []EndInv
<1>1. EndInit => EndInv
  BY EndInitInv
<1>2. EndInv /\ [EndNext]_endVars => EndInv'
  BY EndNextInv
<1> QED
  BY <1>1, <1>2, PTL DEF EndSpec

(* end(true) that saw no active invocation leaves no callback and no        *)
(* completion anywhere: the count end() reads is a copy, but a copy that is *)
(* never too low once cancelAll was answered.                               *)
THEOREM EndDrainsCorrect == EndSpec => []EndDrains
<1>1. ASSUME EndInv
      PROVE  EndDrains
  <2> SUFFICES ASSUME drained, answered, ~late
               PROVE  /\ active = 0 /\ events = 0
                      /\ \A i \in DOMAIN poolQueue : poolQueue[i] # "Item"
                      /\ \A t \in DOMAIN at : at[t] \in {"Idle", "Gone"}
                      /\ ~ServiceAt("Submit") /\ ~ServiceAt("Inline")
    BY DEF EndDrains
  <2>1. active = 0
    BY <1>1 DEF EndInv, SawNone
  <2>2. /\ HowMany(poolQueue, {"Item"}) \in Nat /\ HowMany(at, Running) \in Nat
        /\ IsFiniteSet(DOMAIN at)
    BY <1>1, CountsType DEF EndInv
  <2>3. HowMany(poolQueue, {"Item"}) = 0 /\ HowMany(at, Running) = 0 /\ events = 0
    BY <1>1, <2>1, <2>2 DEF EndInv, Accounted, EndTypeOK
  <2>4. \A i \in DOMAIN poolQueue : poolQueue[i] # "Item"
    BY <1>1, <2>3, QueuePlaces, PlacesFinite DEF EndInv, EndTypeOK
  <2>5. \A t \in DOMAIN at : at[t] \notin Running
    BY <2>2, <2>3, PlacesFinite
  <2>6. \A t \in DOMAIN at : at[t] \in {"Idle", "Gone"}
    BY <1>1, <2>5 DEF EndInv, EndTypeOK
  <2> QED
    BY <1>1, <2>1, <2>3, <2>4, <2>6 DEF EndInv, Cancelled, ServiceAt, Dispatching
<1> QED
  BY <1>1, EndInductive, PTL

(* A pool worker posts its completion to an event queue that exists.        *)
THEOREM PoolPostsToLiveQueueCorrect == EndSpec => []PoolPostsToLiveQueue
<1>1. EndInv => PoolPostsToLiveQueue
  BY DEF EndInv, QueueOutlives, PoolPostsToLiveQueue, AfterWorkers
<1> QED
  BY <1>1, EndInductive, PTL

(* After a successful cancelAll the service submits to no executor, so that *)
(* end() may destroy them before it stops the service.                      *)
THEOREM NoUseOfDeadExecutorCorrect == EndSpec => []NoUseOfDeadExecutor
<1>1. EndInv => NoUseOfDeadExecutor
  BY DEF EndInv, Cancelled, NoUseOfDeadExecutor, ServiceAt, Dispatching
<1> QED
  BY <1>1, EndInductive, PTL
================================================================================
