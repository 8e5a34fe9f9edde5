---------------------------- MODULE CommandHandoff -----------------------------
(***************************************************************************)
(* How a control command of background mode changes hands.  The caller of  *)
(* executeBackgroundCommand (scheduler.cpp) allocates it, sends it and     *)
(* waits for its semaphore with a timeout; the service task (drainCommands *)
(* in scheduler_service.cpp) executes it, decides whether the caller has   *)
(* abandoned it, signals, and frees it if so.  stop() ends the task, by    *)
(* force after a timeout, and answers what is left in the queue.           *)
(*                                                                         *)
(* A command is one call of the API with its own caller: a thread that     *)
(* makes several calls makes them one after the other, which is one of     *)
(* their interleavings.                                                    *)
(***************************************************************************)
EXTENDS Integers, Sequences

CONSTANTS
  Commands,           \* the calls, each with the object it allocates
  Wake,               \* the nullptr that only wakes the service task
  CommandQueueDepth   \* config.commandQueueDepth

ASSUME HandoffAssumption ==
  /\ Wake \notin Commands
  /\ CommandQueueDepth \in Nat \ {0}

VARIABLES
  pc,            \* where the caller is in executeBackgroundCommand
  answer,        \* what the call returned
  memory,        \* the command object: "none", "live" or "freed"
  result,        \* command->result
  signaled,      \* its semaphore completion_
  abandoned,     \* its abandoned_ flag
  queue,         \* commandQueue_
  mode,          \* "run": the service task; "stop": stop() drains; "closed"
  step,          \* where the task, or stop(), is in its loop
  cur,           \* the command in its hands, Wake if none
  shouldDelete,  \* its snapshot of abandoned()
  stopRequested

caller  == <<pc, answer>>
object  == <<memory, result, signaled, abandoned>>
service == <<mode, step, cur, shouldDelete>>
vars    == <<pc, answer, memory, result, signaled, abandoned, queue,
             mode, step, cur, shouldDelete, stopRequested>>

Init ==
  /\ pc = [c \in Commands |-> "idle"]
  /\ answer = [c \in Commands |-> "none"]
  /\ memory = [c \in Commands |-> "none"]
  /\ result = [c \in Commands |-> "NotInitialized"]
  /\ signaled = [c \in Commands |-> FALSE]
  /\ abandoned = [c \in Commands |-> FALSE]
  /\ queue = <<>>
  /\ mode = "run" /\ step = "top" /\ cur = Wake /\ shouldDelete = FALSE
  /\ stopRequested = FALSE

--------------------------------------------------------------------------------
(* The caller *)

(* A failed allocation returns NoMemory and leaves no trace: a stutter. *)
Allocate(c) ==
  /\ pc[c] = "idle"
  /\ pc' = [pc EXCEPT ![c] = "send"]
  /\ memory' = [memory EXCEPT ![c] = "live"]
  /\ UNCHANGED <<answer, result, signaled, abandoned, queue, service, stopRequested>>

Room == mode # "closed" /\ Len(queue) < CommandQueueDepth

(* Mutant: the last place of the queue is reported as QueueFull. *)
SendTakesLastPlace(c) ==
  /\ pc[c] = "send" /\ Room
  /\ queue' = Append(queue, c)
  /\ IF Len(queue) + 1 = CommandQueueDepth
     THEN /\ pc' = [pc EXCEPT ![c] = "done"]
          /\ answer' = [answer EXCEPT ![c] = "QueueFull"]
     ELSE pc' = [pc EXCEPT ![c] = "wait"] /\ UNCHANGED answer
  /\ UNCHANGED <<object, service, stopRequested>>

SendAccepted(c) ==
  /\ pc[c] = "send" /\ Room
  /\ queue' = Append(queue, c)
  /\ pc' = [pc EXCEPT ![c] = "wait"]
  /\ UNCHANGED <<answer, object, service, stopRequested>>

(* Mutant: the refused command is not freed. *)
SendRefusedKeeps(c) ==
  /\ pc[c] = "send" /\ ~Room
  /\ pc' = [pc EXCEPT ![c] = "done"]
  /\ answer' = [answer EXCEPT ![c] = "QueueFull"]
  /\ UNCHANGED <<object, queue, service, stopRequested>>

SendRefused(c) ==
  /\ pc[c] = "send" /\ ~Room
  /\ pc' = [pc EXCEPT ![c] = "done"]
  /\ answer' = [answer EXCEPT ![c] = "QueueFull"]
  /\ memory' = [memory EXCEPT ![c] = "freed"]
  /\ UNCHANGED <<result, signaled, abandoned, queue, service, stopRequested>>

WaitSignaled(c) ==
  /\ pc[c] = "wait" /\ signaled[c]
  /\ signaled' = [signaled EXCEPT ![c] = FALSE]
  /\ pc' = [pc EXCEPT ![c] = "read"]
  /\ UNCHANGED <<answer, memory, result, abandoned, queue, service, stopRequested>>

(* Mutant: wait() has no timeout. *)
WaitForever(c) == FALSE /\ UNCHANGED vars

(* From here the caller will abandon, whatever the service does meanwhile. *)
WaitTimeout(c) ==
  /\ pc[c] = "wait" /\ ~signaled[c]
  /\ pc' = [pc EXCEPT ![c] = "timedOut"]
  /\ UNCHANGED <<answer, object, queue, service, stopRequested>>

(* Mutant: the caller frees the command when it gives up. *)
AbandonAndFree(c) ==
  /\ pc[c] = "timedOut"
  /\ abandoned' = [abandoned EXCEPT ![c] = TRUE]
  /\ pc' = [pc EXCEPT ![c] = "done"]
  /\ answer' = [answer EXCEPT ![c] = "Timeout"]
  /\ memory' = [memory EXCEPT ![c] = "freed"]
  /\ UNCHANGED <<result, signaled, queue, service, stopRequested>>

Abandon(c) ==
  /\ pc[c] = "timedOut"
  /\ abandoned' = [abandoned EXCEPT ![c] = TRUE]
  /\ pc' = [pc EXCEPT ![c] = "done"]
  /\ answer' = [answer EXCEPT ![c] = "Timeout"]
  /\ UNCHANGED <<memory, result, signaled, queue, service, stopRequested>>

(* Mutant: the result is read after the command is freed. *)
ReadFreed(c) ==
  /\ pc[c] = "read"
  /\ pc' = [pc EXCEPT ![c] = "done"]
  /\ memory' = [memory EXCEPT ![c] = "freed"]
  /\ answer' = [answer EXCEPT ![c] = memory'[c]]
  /\ UNCHANGED <<result, signaled, abandoned, queue, service, stopRequested>>

ReadResult(c) ==
  /\ pc[c] = "read"
  /\ pc' = [pc EXCEPT ![c] = "done"]
  /\ answer' = [answer EXCEPT ![c] = result[c]]
  /\ memory' = [memory EXCEPT ![c] = "freed"]
  /\ UNCHANGED <<result, signaled, abandoned, queue, service, stopRequested>>

--------------------------------------------------------------------------------
(* The service task, and stop() once the task is gone *)

(* The loop condition of run(). *)
LoopTop ==
  /\ mode = "run" /\ step = "top"
  /\ IF stopRequested THEN mode' = "stop" /\ step' = "receive"
                      ELSE mode' = mode /\ step' = "receive"
  /\ UNCHANGED <<caller, object, queue, cur, shouldDelete, stopRequested>>

(* Mutant: an abandoned command is not executed. *)
ReceiveSkipsAbandoned ==
  /\ mode # "closed" /\ step = "receive" /\ queue # <<>>
  /\ cur' = Head(queue)
  /\ queue' = Tail(queue)
  /\ step' = CASE Head(queue) = Wake -> "receive"
               [] Head(queue) # Wake /\ mode = "run" /\ ~abandoned[Head(queue)] -> "execute"
               [] OTHER -> "decide"
  /\ UNCHANGED <<caller, object, mode, shouldDelete, stopRequested>>

(* stop() does not execute what it receives. *)
Receive ==
  /\ mode # "closed" /\ step = "receive" /\ queue # <<>>
  /\ cur' = Head(queue)
  /\ queue' = Tail(queue)
  /\ step' = CASE Head(queue) = Wake -> "receive"
               [] Head(queue) # Wake /\ mode = "run" -> "execute"
               [] OTHER -> "decide"
  /\ UNCHANGED <<caller, object, mode, shouldDelete, stopRequested>>

(* The task goes on to events and dispatch and waits on the queue set;      *)
(* stop() deletes the queue.                                                *)
ReceiveEmpty ==
  /\ mode # "closed" /\ step = "receive" /\ queue = <<>>
  /\ step' = IF mode = "run" THEN "top" ELSE "close"
  /\ UNCHANGED <<caller, object, queue, mode, cur, shouldDelete, stopRequested>>

Execute ==
  /\ step = "execute"
  /\ result' = [result EXCEPT ![cur] = "Executed"]
  /\ step' = "decide"
  /\ UNCHANGED <<caller, memory, signaled, abandoned, queue, mode, cur, shouldDelete,
                 stopRequested>>

(* Mutants: the service always frees the command; it never does. *)
DecideAlways ==
  /\ step = "decide"
  /\ shouldDelete' = TRUE
  /\ step' = "signal"
  /\ UNCHANGED <<caller, object, queue, mode, cur, stopRequested>>

DecideNever ==
  /\ step = "decide"
  /\ shouldDelete' = FALSE
  /\ step' = "signal"
  /\ UNCHANGED <<caller, object, queue, mode, cur, stopRequested>>

Decide ==
  /\ step = "decide"
  /\ shouldDelete' = abandoned[cur]
  /\ step' = "signal"
  /\ UNCHANGED <<caller, object, queue, mode, cur, stopRequested>>

Signal ==
  /\ step = "signal"
  /\ signaled' = [signaled EXCEPT ![cur] = TRUE]
  /\ step' = "delete"
  /\ UNCHANGED <<caller, memory, result, abandoned, queue, mode, cur, shouldDelete,
                 stopRequested>>

DeleteAbandoned ==
  /\ step = "delete"
  /\ memory' = IF shouldDelete THEN [memory EXCEPT ![cur] = "freed"] ELSE memory
  /\ cur' = Wake
  /\ step' = "receive"
  /\ UNCHANGED <<caller, result, signaled, abandoned, queue, mode, shouldDelete,
                 stopRequested>>

RequestStop ==
  /\ mode = "run" /\ ~stopRequested
  /\ stopRequested' = TRUE
  /\ queue' = IF Room THEN Append(queue, Wake) ELSE queue
  /\ UNCHANGED <<caller, object, service>>

(* The NTP listener wakes the service task. *)
NotifySync ==
  /\ Room
  /\ queue' = Append(queue, Wake)
  /\ UNCHANGED <<caller, object, service, stopRequested>>

(* The task has not left run() when stop()'s timeout ends: it is deleted    *)
(* with whatever it holds.                                                  *)
ForceDelete ==
  /\ mode = "run" /\ stopRequested
  /\ mode' = "stop" /\ step' = "receive" /\ cur' = Wake
  /\ UNCHANGED <<caller, object, queue, shouldDelete, stopRequested>>

(* What was sent after the last receive goes with the queue. *)
CloseQueue ==
  /\ step = "close"
  /\ mode' = "closed" /\ step' = "top"
  /\ queue' = <<>>
  /\ UNCHANGED <<caller, object, cur, shouldDelete, stopRequested>>

Caller(c) ==
  \/ Allocate(c) \/ SendAccepted(c) \/ SendRefused(c)
  \/ WaitSignaled(c) \/ WaitTimeout(c) \/ Abandon(c) \/ ReadResult(c)

Service ==
  \/ LoopTop \/ Receive \/ ReceiveEmpty
  \/ Execute \/ Decide \/ Signal \/ DeleteAbandoned \/ CloseQueue

Next ==
  \/ \E c \in Commands : Caller(c)
  \/ Service
  \/ RequestStop \/ NotifySync \/ ForceDelete

Spec == Init /\ [][Next]_vars

(* The service task is scheduled, a caller takes a signal that is there,    *)
(* and xSemaphoreTake returns when its time is over.                        *)
Fairness ==
  /\ WF_vars(Service)
  /\ \A c \in Commands : WF_vars(Caller(c) /\ pc[c] # "idle")

LiveSpec == Spec /\ Fairness

--------------------------------------------------------------------------------
(* Properties *)

TypeOK ==
  /\ pc \in [Commands -> {"idle", "send", "wait", "timedOut", "read", "done"}]
  /\ answer \in [Commands -> {"none", "QueueFull", "Timeout", "NotInitialized", "Executed"}]
  /\ memory \in [Commands -> {"none", "live", "freed"}]
  /\ result \in [Commands -> {"NotInitialized", "Executed"}]
  /\ signaled \in [Commands -> BOOLEAN]
  /\ abandoned \in [Commands -> BOOLEAN]
  /\ queue \in Seq(Commands \cup {Wake})
  /\ mode \in {"run", "stop", "closed"}
  /\ step \in {"top", "receive", "execute", "decide", "signal", "delete", "close"}
  /\ cur \in Commands \cup {Wake}
  /\ shouldDelete \in BOOLEAN
  /\ stopRequested \in BOOLEAN

Queued(c) == \E i \in 1..Len(queue) : queue[i] = c

(* The service is about to touch its command; it still owns a reference.    *)
InHands(c) == cur = c /\ step \in {"execute", "decide", "signal"}

(* The service frees its command in its next step. *)
WillDelete(c) == cur = c /\ step = "delete" /\ shouldDelete

(* Nobody touches or frees a command that has been freed: whoever will use  *)
(* it next, caller or service, finds it alive.                              *)
NoUseAfterFree ==
  \A c \in Commands :
    (pc[c] \in {"send", "wait", "timedOut", "read"} \/ Queued(c) \/ InHands(c) \/ WillDelete(c))
      => memory[c] = "live"

(* Caller and service never both hold the duty to free a command. *)
OneOwnerFrees ==
  \A c \in Commands : WillDelete(c) => pc[c] = "done" /\ abandoned[c]

(* A call that returned QueueFull had no effect and gets none; a call that  *)
(* returned a result returned what execute() left.                          *)
AnswerIsTrue ==
  \A c \in Commands :
    /\ answer[c] = "QueueFull" => result[c] = "NotInitialized" /\ ~Queued(c) /\ ~InHands(c)
    /\ answer[c] \in {"NotInitialized", "Executed"} => answer[c] = result[c]

(* A call leaks its command only if it returned Timeout: when caller and    *)
(* service are both done with a command that is still alive, it was         *)
(* abandoned, and the service had signaled it or was being stopped.         *)
LeaksOnlyOnTimeout ==
  \A c \in Commands :
    pc[c] = "done" /\ memory[c] = "live" /\ ~Queued(c) /\ cur # c
      => abandoned[c] /\ (signaled[c] \/ mode # "run")

(* The inductive invariant behind these properties.  The service's part:    *)
(* what it holds it took out of the queue, in which no command is twice.    *)
ServiceInv ==
  /\ step \in {"top", "receive", "close"} <=> cur = Wake
  /\ \A i, j \in 1..Len(queue) : queue[i] = queue[j] /\ queue[i] # Wake => i = j
  /\ \A c \in Commands : cur = c => ~Queued(c)
  /\ step = "signal" /\ shouldDelete => abandoned[cur]

(* The caller's part: before the send, and once it has its answer, a        *)
(* command is not with the service; while it waits the command is alive.    *)
CallerInv ==
  \A c \in Commands :
    /\ pc[c] \in {"idle", "send"} => ~Queued(c) /\ cur # c
    /\ pc[c] = "idle" => memory[c] = "none"
    /\ pc[c] \in {"idle", "send", "wait", "timedOut", "read"} =>
         ~abandoned[c] /\ answer[c] = "none"
    /\ pc[c] \in {"send", "wait", "timedOut", "read"} => memory[c] = "live"
    /\ pc[c] \in {"idle", "send"} => result[c] = "NotInitialized" /\ ~signaled[c]

(* Who answers for a command: with the service it is alive, unsignaled and  *)
(* not yet read; left by the service it is signaled.                        *)
OwnerInv ==
  \A c \in Commands :
    /\ Queued(c) \/ InHands(c) =>
         /\ memory[c] = "live" /\ ~signaled[c]
         /\ pc[c] \in {"wait", "timedOut", "done"}
    /\ WillDelete(c) => memory[c] = "live" /\ abandoned[c]
    /\ pc[c] = "done" /\ memory[c] = "live" => abandoned[c]
    /\ abandoned[c] => answer[c] = "Timeout"
    /\ mode = "run" /\ memory[c] = "live" /\ pc[c] \in {"wait", "timedOut", "done"} =>
         Queued(c) \/ InHands(c) \/ signaled[c]
    /\ answer[c] = "QueueFull" => result[c] = "NotInitialized" /\ cur # c
    /\ answer[c] \in {"NotInitialized", "Executed"} => answer[c] = result[c]
    /\ pc[c] = "done" => memory[c] # "none"

IInv == TypeOK /\ ServiceInv /\ CallerInv /\ OwnerInv

(* Every call returns, also when the service task is stopped or deleted     *)
(* while the call waits.                                                    *)
CallsReturn == \A c \in Commands : (pc[c] # "idle") ~> (pc[c] = "done")

(* A command that was accepted is executed unless the service stops. *)
AcceptedIsExecuted ==
  \A c \in Commands : Queued(c) ~> (result[c] = "Executed" \/ stopRequested)

(* A command that was abandoned before the service took it is freed by the  *)
(* service unless that stops: only the window between abandoned() and       *)
(* abandon() leaks.                                                         *)
AbandonedIsFreed ==
  \A c \in Commands : (Queued(c) /\ abandoned[c]) ~> (memory[c] = "freed" \/ stopRequested)
================================================================================
