------------------------- MODULE CommandHandoff_proofs -------------------------
(***************************************************************************)
(* Proofs about CommandHandoff, for any set of calls and any queue depth:  *)
(* IInv is an inductive invariant, and the ownership properties follow.    *)
(***************************************************************************)
EXTENDS CommandHandoff, TLAPS

(* What a send and a receive do to the commands in the queue. *)
LEMMA QueueAppend ==
  ASSUME NEW S, NEW q \in Seq(S), NEW x \in S
  PROVE  /\ Append(q, x) \in Seq(S)
         /\ Len(Append(q, x)) = Len(q) + 1
         /\ \A i \in 1..Len(q) : Append(q, x)[i] = q[i]
         /\ Append(q, x)[Len(q) + 1] = x
OBVIOUS

(* The places of the queue after its head is received. *)
LEMMA QueueTail ==
  ASSUME NEW S, NEW q \in Seq(S), q # <<>>
  PROVE  /\ Tail(q) \in Seq(S)
         /\ Head(q) \in S
         /\ Len(q) \in Nat \ {0}
         /\ Len(Tail(q)) = Len(q) - 1
         /\ Head(q) = q[1]
         /\ \A i \in 1..(Len(q) - 1) : Tail(q)[i] = q[i + 1]
OBVIOUS

(* Commands are where they were after Append, but for the new entry. *)
LEMMA QueuedAfterAppend ==
  ASSUME NEW x \in Commands \cup {Wake}, queue \in Seq(Commands \cup {Wake}),
         queue' = Append(queue, x)
  PROVE  /\ queue' \in Seq(Commands \cup {Wake})
         /\ \A c \in Commands : Queued(c)' <=> Queued(c) \/ c = x
<1>1. /\ queue' \in Seq(Commands \cup {Wake})
      /\ Len(queue') = Len(queue) + 1
      /\ \A i \in 1..Len(queue) : queue'[i] = queue[i]
      /\ queue'[Len(queue) + 1] = x
  BY QueueAppend
<1>2. Len(queue) \in Nat
  OBVIOUS
<1>3. ASSUME NEW c \in Commands
      PROVE  Queued(c)' <=> Queued(c) \/ c = x
  BY <1>1, <1>2 DEF Queued
<1> QED
  BY <1>1, <1>3

(* After Tail they are where they were, but for the head. *)
LEMMA QueuedAfterTail ==
  ASSUME queue \in Seq(Commands \cup {Wake}), queue # <<>>, queue' = Tail(queue),
         \A i, j \in 1..Len(queue) : queue[i] = queue[j] /\ queue[i] # Wake => i = j,
         Wake \notin Commands
  PROVE  /\ queue' \in Seq(Commands \cup {Wake})
         /\ Head(queue) \in Commands \cup {Wake}
         /\ Head(queue) \in Commands => Queued(Head(queue))
         /\ \A c \in Commands : Queued(c)' <=> Queued(c) /\ c # Head(queue)
         /\ \A i, j \in 1..Len(queue') : queue'[i] = queue'[j] /\ queue'[i] # Wake => i = j
<1>1. /\ queue' \in Seq(Commands \cup {Wake})
      /\ Head(queue) \in Commands \cup {Wake}
      /\ Len(queue) \in Nat \ {0}
      /\ Len(queue') = Len(queue) - 1
      /\ Head(queue) = queue[1]
      /\ \A i \in 1..(Len(queue) - 1) : queue'[i] = queue[i + 1]
  BY QueueTail
<1>2. ASSUME NEW c \in Commands
      PROVE  Queued(c)' <=> Queued(c) /\ c # Head(queue)
  <2>1. ASSUME Queued(c)' PROVE Queued(c) /\ c # Head(queue)
    <3>1. PICK i \in 1..Len(queue') : queue'[i] = c
      BY <2>1 DEF Queued
    <3>2. i + 1 \in 1..Len(queue) /\ queue[i + 1] = c /\ i + 1 # 1
      BY <1>1, <3>1
    <3> QED
      BY <1>1, <3>2 DEF Queued
  <2>2. ASSUME Queued(c), c # Head(queue) PROVE Queued(c)'
    <3>1. PICK i \in 1..Len(queue) : queue[i] = c
      BY <2>2 DEF Queued
    <3>2. i # 1
      BY <1>1, <2>2, <3>1
    <3>3. i - 1 \in 1..(Len(queue) - 1) /\ queue'[i - 1] = queue[(i - 1) + 1] /\ (i - 1) + 1 = i
      BY <1>1, <3>1, <3>2
    <3> QED
      BY <1>1, <3>1, <3>3 DEF Queued
  <2> QED
    BY <2>1, <2>2
<1>3. \A i, j \in 1..Len(queue') : queue'[i] = queue'[j] /\ queue'[i] # Wake => i = j
  <2> SUFFICES ASSUME NEW i \in 1..Len(queue'), NEW j \in 1..Len(queue'),
                      queue'[i] = queue'[j], queue'[i] # Wake
               PROVE  i = j
    OBVIOUS
  <2>1. i + 1 \in 1..Len(queue) /\ j + 1 \in 1..Len(queue)
    BY <1>1
  <2>2. queue[i + 1] = queue[j + 1] /\ queue[i + 1] # Wake
    BY <1>1
  <2>3. i + 1 = j + 1
    BY <2>1, <2>2
  <2> QED
    BY <1>1, <2>3
<1>4. Head(queue) \in Commands => Queued(Head(queue))
  BY <1>1 DEF Queued
<1> QED
  BY <1>1, <1>2, <1>3, <1>4

(* No two places of the queue hold the same command after Append, when the  *)
(* new entry is a wake-up or a command that was not there.                  *)
LEMMA DistinctAfterAppend ==
  ASSUME NEW x \in Commands \cup {Wake}, queue \in Seq(Commands \cup {Wake}),
         queue' = Append(queue, x), x # Wake => ~Queued(x),
         \A i, j \in 1..Len(queue) : queue[i] = queue[j] /\ queue[i] # Wake => i = j
  PROVE  \A i, j \in 1..Len(queue') : queue'[i] = queue'[j] /\ queue'[i] # Wake => i = j
<1>1. /\ Len(queue) \in Nat
      /\ Len(queue') = Len(queue) + 1
      /\ \A i \in 1..Len(queue) : queue'[i] = queue[i]
      /\ queue'[Len(queue) + 1] = x
  BY QueueAppend
<1>2. x # Wake => \A i \in 1..Len(queue) : queue[i] # x
  BY DEF Queued
<1> QED
  BY <1>1, <1>2

(* The initial states satisfy the inductive invariant. *)
LEMMA InitInductive == Init => IInv
<1> SUFFICES ASSUME Init PROVE IInv
  OBVIOUS
<1>0. <<>> \in Seq(Commands \cup {Wake}) /\ Len(<<>>) = 0
  OBVIOUS
<1>1. TypeOK
  BY <1>0 DEF Init, TypeOK
<1>2. \A c \in Commands : ~Queued(c)
  <2>1. Len(queue) = 0
    BY <1>0 DEF Init
  <2>2. \A i \in 1..Len(queue) : FALSE
    BY <2>1
  <2> QED
    BY <2>2 DEF Queued
<1>3. ServiceInv
  BY <1>2, HandoffAssumption DEF Init, ServiceInv
<1>4. CallerInv
  BY <1>2, HandoffAssumption DEF Init, CallerInv
<1>5. OwnerInv
  BY <1>2 DEF Init, OwnerInv, InHands, WillDelete
<1> QED
  BY <1>1, <1>3, <1>4, <1>5 DEF IInv

(* Every step of a caller, the service task or stop() preserves it. *)
LEMMA NextInductive == IInv /\ [Next]_vars => IInv'
<1> SUFFICES ASSUME IInv, [Next]_vars PROVE IInv'
  OBVIOUS
<1> USE HandoffAssumption
<1>1. ASSUME NEW c \in Commands, Allocate(c) PROVE IInv'
  <2>1. /\ queue' = queue
        /\ \A d \in Commands : Queued(d)' <=> Queued(d)
    BY <1>1 DEF Allocate, Queued
  <2>2. TypeOK'
    BY <1>1, <2>1 DEF Allocate, caller, object, service, IInv, TypeOK
  <2>3. ServiceInv'
    BY <1>1, <2>1 DEF Allocate, caller, object, service, IInv, TypeOK,
       ServiceInv, CallerInv, OwnerInv, InHands
  <2>4. CallerInv'
    BY <1>1, <2>1 DEF Allocate, caller, object, service, IInv, TypeOK,
       ServiceInv, CallerInv, OwnerInv, InHands
  <2>5. OwnerInv'
    BY <1>1, <2>1 DEF Allocate, caller, object, service, IInv, TypeOK,
       ServiceInv, CallerInv, OwnerInv, InHands, WillDelete
  <2> QED
    BY <2>2, <2>3, <2>4, <2>5 DEF IInv
<1>2. ASSUME NEW c \in Commands, SendAccepted(c) PROVE IInv'
  <2>0. /\ queue \in Seq(Commands \cup {Wake}) /\ queue' = Append(queue, c)
        /\ c # Wake => ~Queued(c)
        /\ \A i, j \in 1..Len(queue) : queue[i] = queue[j] /\ queue[i] # Wake => i = j
    BY <1>2 DEF SendAccepted, IInv, TypeOK, ServiceInv, CallerInv
  <2>1. /\ queue' \in Seq(Commands \cup {Wake})
        /\ \A d \in Commands : Queued(d)' <=> Queued(d) \/ d = c
        /\ \A i, j \in 1..Len(queue') : queue'[i] = queue'[j] /\ queue'[i] # Wake => i = j
    BY <2>0, QueuedAfterAppend, DistinctAfterAppend
  <2>2. TypeOK'
    BY <1>2, <2>1 DEF SendAccepted, caller, object, service, IInv, TypeOK
  <2>3. ServiceInv'
    BY <1>2, <2>1 DEF SendAccepted, caller, object, service, IInv, TypeOK,
       ServiceInv, CallerInv, OwnerInv, InHands
  <2>4. CallerInv'
    BY <1>2, <2>1 DEF SendAccepted, caller, object, service, IInv, TypeOK,
       ServiceInv, CallerInv, OwnerInv, InHands
  <2>5. OwnerInv'
    BY <1>2, <2>1 DEF SendAccepted, caller, object, service, IInv, TypeOK,
       ServiceInv, CallerInv, OwnerInv, InHands, WillDelete
  <2> QED
    BY <2>2, <2>3, <2>4, <2>5 DEF IInv
<1>3. ASSUME NEW c \in Commands, SendRefused(c) PROVE IInv'
  <2>1. /\ queue' = queue
        /\ \A d \in Commands : Queued(d)' <=> Queued(d)
    BY <1>3 DEF SendRefused, Queued
  <2>2. TypeOK'
    BY <1>3, <2>1 DEF SendRefused, caller, object, service, IInv, TypeOK
  <2>3. ServiceInv'
    BY <1>3, <2>1 DEF SendRefused, caller, object, service, IInv, TypeOK,
       ServiceInv, CallerInv, OwnerInv, InHands
  <2>4. CallerInv'
    BY <1>3, <2>1 DEF SendRefused, caller, object, service, IInv, TypeOK,
       ServiceInv, CallerInv, OwnerInv, InHands
  <2>5. OwnerInv'
    BY <1>3, <2>1 DEF SendRefused, caller, object, service, IInv, TypeOK,
       ServiceInv, CallerInv, OwnerInv, InHands, WillDelete
  <2> QED
    BY <2>2, <2>3, <2>4, <2>5 DEF IInv
<1>4. ASSUME NEW c \in Commands, WaitSignaled(c) PROVE IInv'
  <2>1. /\ queue' = queue
        /\ \A d \in Commands : Queued(d)' <=> Queued(d)
    BY <1>4 DEF WaitSignaled, Queued
  <2>2. TypeOK'
    BY <1>4, <2>1 DEF WaitSignaled, caller, object, service, IInv, TypeOK
  <2>3. ServiceInv'
    BY <1>4, <2>1 DEF WaitSignaled, caller, object, service, IInv, TypeOK,
       ServiceInv, CallerInv, OwnerInv, InHands
  <2>4. CallerInv'
    BY <1>4, <2>1 DEF WaitSignaled, caller, object, service, IInv, TypeOK,
       ServiceInv, CallerInv, OwnerInv, InHands
  <2>5. OwnerInv'
    BY <1>4, <2>1 DEF WaitSignaled, caller, object, service, IInv, TypeOK,
       ServiceInv, CallerInv, OwnerInv, InHands, WillDelete
  <2> QED
    BY <2>2, <2>3, <2>4, <2>5 DEF IInv
<1>5. ASSUME NEW c \in Commands, WaitTimeout(c) PROVE IInv'
  <2>1. /\ queue' = queue
        /\ \A d \in Commands : Queued(d)' <=> Queued(d)
    BY <1>5 DEF WaitTimeout, Queued
  <2>2. TypeOK'
    BY <1>5, <2>1 DEF WaitTimeout, caller, object, service, IInv, TypeOK
  <2>3. ServiceInv'
    BY <1>5, <2>1 DEF WaitTimeout, caller, object, service, IInv, TypeOK,
       ServiceInv, CallerInv, OwnerInv, InHands
  <2>4. CallerInv'
    BY <1>5, <2>1 DEF WaitTimeout, caller, object, service, IInv, TypeOK,
       ServiceInv, CallerInv, OwnerInv, InHands
  <2>5. OwnerInv'
    BY <1>5, <2>1 DEF WaitTimeout, caller, object, service, IInv, TypeOK,
       ServiceInv, CallerInv, OwnerInv, InHands, WillDelete
  <2> QED
    BY <2>2, <2>3, <2>4, <2>5 DEF IInv
<1>6. ASSUME NEW c \in Commands, Abandon(c) PROVE IInv'
  <2>1. /\ queue' = queue
        /\ \A d \in Commands : Queued(d)' <=> Queued(d)
    BY <1>6 DEF Abandon, Queued
  <2>2. TypeOK'
    BY <1>6, <2>1 DEF Abandon, caller, object, service, IInv, TypeOK
  <2>3. ServiceInv'
    BY <1>6, <2>1 DEF Abandon, caller, object, service, IInv, TypeOK,
       ServiceInv, CallerInv, OwnerInv, InHands
  <2>4. CallerInv'
    BY <1>6, <2>1 DEF Abandon, caller, object, service, IInv, TypeOK,
       ServiceInv, CallerInv, OwnerInv, InHands
  <2>5. OwnerInv'
    BY <1>6, <2>1 DEF Abandon, caller, object, service, IInv, TypeOK,
       ServiceInv, CallerInv, OwnerInv, InHands, WillDelete
  <2> QED
    BY <2>2, <2>3, <2>4, <2>5 DEF IInv
<1>7. ASSUME NEW c \in Commands, ReadResult(c) PROVE IInv'
  <2>1. /\ queue' = queue
        /\ \A d \in Commands : Queued(d)' <=> Queued(d)
    BY <1>7 DEF ReadResult, Queued
  <2>2. TypeOK'
    BY <1>7, <2>1 DEF ReadResult, caller, object, service, IInv, TypeOK
  <2>3. ServiceInv'
    BY <1>7, <2>1 DEF ReadResult, caller, object, service, IInv, TypeOK,
       ServiceInv, CallerInv, OwnerInv, InHands
  <2>4. CallerInv'
    BY <1>7, <2>1 DEF ReadResult, caller, object, service, IInv, TypeOK,
       ServiceInv, CallerInv, OwnerInv, InHands
  <2>5. OwnerInv'
    BY <1>7, <2>1 DEF ReadResult, caller, object, service, IInv, TypeOK,
       ServiceInv, CallerInv, OwnerInv, InHands, WillDelete
  <2> QED
    BY <2>2, <2>3, <2>4, <2>5 DEF IInv
<1>8. ASSUME LoopTop PROVE IInv'
  <2>1. /\ queue' = queue
        /\ \A d \in Commands : Queued(d)' <=> Queued(d)
    BY <1>8 DEF LoopTop, Queued
  <2>2. TypeOK'
    BY <1>8, <2>1 DEF LoopTop, caller, object, service, IInv, TypeOK
  <2>3. ServiceInv'
    BY <1>8, <2>1 DEF LoopTop, caller, object, service, IInv, TypeOK,
       ServiceInv, CallerInv, OwnerInv, InHands
  <2>4. CallerInv'
    BY <1>8, <2>1 DEF LoopTop, caller, object, service, IInv, TypeOK,
       ServiceInv, CallerInv, OwnerInv, InHands
  <2>5. OwnerInv'
    BY <1>8, <2>1 DEF LoopTop, caller, object, service, IInv, TypeOK,
       ServiceInv, CallerInv, OwnerInv, InHands, WillDelete
  <2> QED
    BY <2>2, <2>3, <2>4, <2>5 DEF IInv
<1>9. ASSUME Receive PROVE IInv'
  <2>0. /\ queue \in Seq(Commands \cup {Wake}) /\ queue # <<>> /\ queue' = Tail(queue)
        /\ \A i, j \in 1..Len(queue) : queue[i] = queue[j] /\ queue[i] # Wake => i = j
    BY <1>9 DEF Receive, IInv, TypeOK, ServiceInv
  <2>1. /\ queue' \in Seq(Commands \cup {Wake})
        /\ Head(queue) \in Commands \cup {Wake}
        /\ Head(queue) \in Commands => Queued(Head(queue))
        /\ \A d \in Commands : Queued(d)' <=> Queued(d) /\ d # Head(queue)
        /\ \A i, j \in 1..Len(queue') : queue'[i] = queue'[j] /\ queue'[i] # Wake => i = j
    BY <2>0, QueuedAfterTail
  <2>2. TypeOK'
    BY <1>9, <2>1 DEF Receive, caller, object, service, IInv, TypeOK
  <2>3. ServiceInv'
    BY <1>9, <2>1 DEF Receive, caller, object, service, IInv, TypeOK,
       ServiceInv, CallerInv, OwnerInv, InHands
  <2>4. CallerInv'
    BY <1>9, <2>1 DEF Receive, caller, object, service, IInv, TypeOK,
       ServiceInv, CallerInv, OwnerInv, InHands
  <2>5. OwnerInv'
    BY <1>9, <2>1 DEF Receive, caller, object, service, IInv, TypeOK,
       ServiceInv, CallerInv, OwnerInv, InHands, WillDelete
  <2> QED
    BY <2>2, <2>3, <2>4, <2>5 DEF IInv
<1>10. ASSUME ReceiveEmpty PROVE IInv'
  <2>1. /\ queue' = queue
        /\ \A d \in Commands : Queued(d)' <=> Queued(d)
    BY <1>10 DEF ReceiveEmpty, Queued
  <2>2. TypeOK'
    BY <1>10, <2>1 DEF ReceiveEmpty, caller, object, service, IInv, TypeOK
  <2>3. ServiceInv'
    BY <1>10, <2>1 DEF ReceiveEmpty, caller, object, service, IInv, TypeOK,
       ServiceInv, CallerInv, OwnerInv, InHands
  <2>4. CallerInv'
    BY <1>10, <2>1 DEF ReceiveEmpty, caller, object, service, IInv, TypeOK,
       ServiceInv, CallerInv, OwnerInv, InHands
  <2>5. OwnerInv'
    BY <1>10, <2>1 DEF ReceiveEmpty, caller, object, service, IInv, TypeOK,
       ServiceInv, CallerInv, OwnerInv, InHands, WillDelete
  <2> QED
    BY <2>2, <2>3, <2>4, <2>5 DEF IInv
<1>11. ASSUME Execute PROVE IInv'
  <2>1. /\ queue' = queue
        /\ \A d \in Commands : Queued(d)' <=> Queued(d)
    BY <1>11 DEF Execute, Queued
  <2>2. TypeOK'
    BY <1>11, <2>1 DEF Execute, caller, object, service, IInv, TypeOK
  <2>3. ServiceInv'
    BY <1>11, <2>1 DEF Execute, caller, object, service, IInv, TypeOK,
       ServiceInv, CallerInv, OwnerInv, InHands
  <2>4. CallerInv'
    BY <1>11, <2>1 DEF Execute, caller, object, service, IInv, TypeOK,
       ServiceInv, CallerInv, OwnerInv, InHands
  <2>5. OwnerInv'
    BY <1>11, <2>1 DEF Execute, caller, object, service, IInv, TypeOK,
       ServiceInv, CallerInv, OwnerInv, InHands, WillDelete
  <2> QED
    BY <2>2, <2>3, <2>4, <2>5 DEF IInv
<1>12. ASSUME Decide PROVE IInv'
  <2>1. /\ queue' = queue
        /\ \A d \in Commands : Queued(d)' <=> Queued(d)
    BY <1>12 DEF Decide, Queued
  <2>2. TypeOK'
    <3>1. cur \in Commands
      BY <1>12 DEF Decide, IInv, TypeOK, ServiceInv
    <3>2. shouldDelete' \in BOOLEAN
      BY <1>12, <3>1 DEF Decide, IInv, TypeOK
    <3> QED
      BY <1>12, <2>1, <3>2 DEF Decide, caller, object, service, IInv, TypeOK
  <2>3. ServiceInv'
    BY <1>12, <2>1 DEF Decide, caller, object, service, IInv, TypeOK,
       ServiceInv, CallerInv, OwnerInv, InHands
  <2>4. CallerInv'
    BY <1>12, <2>1 DEF Decide, caller, object, service, IInv, TypeOK,
       ServiceInv, CallerInv, OwnerInv, InHands
  <2>5. OwnerInv'
    BY <1>12, <2>1 DEF Decide, caller, object, service, IInv, TypeOK,
       ServiceInv, CallerInv, OwnerInv, InHands, WillDelete
  <2> QED
    BY <2>2, <2>3, <2>4, <2>5 DEF IInv
<1>13. ASSUME Signal PROVE IInv'
  <2>1. /\ queue' = queue
        /\ \A d \in Commands : Queued(d)' <=> Queued(d)
    BY <1>13 DEF Signal, Queued
  <2>2. TypeOK'
    BY <1>13, <2>1 DEF Signal, caller, object, service, IInv, TypeOK
  <2>3. ServiceInv'
    BY <1>13, <2>1 DEF Signal, caller, object, service, IInv, TypeOK,
       ServiceInv, CallerInv, OwnerInv, InHands
  <2>4. CallerInv'
    BY <1>13, <2>1 DEF Signal, caller, object, service, IInv, TypeOK,
       ServiceInv, CallerInv, OwnerInv, InHands
  <2>5. OwnerInv'
    BY <1>13, <2>1 DEF Signal, caller, object, service, IInv, TypeOK,
       ServiceInv, CallerInv, OwnerInv, InHands, WillDelete
  <2> QED
    BY <2>2, <2>3, <2>4, <2>5 DEF IInv
<1>14. ASSUME DeleteAbandoned PROVE IInv'
  <2>1. /\ queue' = queue
        /\ \A d \in Commands : Queued(d)' <=> Queued(d)
    BY <1>14 DEF DeleteAbandoned, Queued
  <2>2. TypeOK'
    BY <1>14, <2>1 DEF DeleteAbandoned, caller, object, service, IInv, TypeOK
  <2>3. ServiceInv'
    BY <1>14, <2>1 DEF DeleteAbandoned, caller, object, service, IInv, TypeOK,
       ServiceInv, CallerInv, OwnerInv, InHands
  <2>4. CallerInv'
    BY <1>14, <2>1 DEF DeleteAbandoned, caller, object, service, IInv, TypeOK,
       ServiceInv, CallerInv, OwnerInv, InHands, WillDelete
  <2>5. OwnerInv'
    BY <1>14, <2>1 DEF DeleteAbandoned, caller, object, service, IInv, TypeOK,
       ServiceInv, CallerInv, OwnerInv, InHands, WillDelete
  <2> QED
    BY <2>2, <2>3, <2>4, <2>5 DEF IInv
<1>15. ASSUME CloseQueue PROVE IInv'
  <2>1. /\ queue' = <<>>
        /\ \A d \in Commands : ~Queued(d)'
    BY <1>15 DEF CloseQueue, Queued
  <2>2. TypeOK'
    BY <1>15, <2>1 DEF CloseQueue, caller, object, service, IInv, TypeOK
  <2>3. ServiceInv'
    BY <1>15, <2>1 DEF CloseQueue, caller, object, service, IInv, TypeOK,
       ServiceInv, CallerInv, OwnerInv, InHands
  <2>4. CallerInv'
    BY <1>15, <2>1 DEF CloseQueue, caller, object, service, IInv, TypeOK,
       ServiceInv, CallerInv, OwnerInv, InHands
  <2>5. OwnerInv'
    BY <1>15, <2>1 DEF CloseQueue, caller, object, service, IInv, TypeOK,
       ServiceInv, CallerInv, OwnerInv, InHands, WillDelete
  <2> QED
    BY <2>2, <2>3, <2>4, <2>5 DEF IInv
<1>16. ASSUME RequestStop PROVE IInv'
  <2>1. /\ queue' \in Seq(Commands \cup {Wake})
        /\ \A d \in Commands : Queued(d)' <=> Queued(d)
        /\ \A i, j \in 1..Len(queue') : queue'[i] = queue'[j] /\ queue'[i] # Wake => i = j
    <3>1. /\ queue \in Seq(Commands \cup {Wake})
          /\ queue' = Append(queue, Wake) \/ queue' = queue
          /\ \A i, j \in 1..Len(queue) : queue[i] = queue[j] /\ queue[i] # Wake => i = j
      BY <1>16 DEF RequestStop, IInv, TypeOK, ServiceInv
    <3>2. CASE queue' = Append(queue, Wake)
      BY <3>1, <3>2, QueuedAfterAppend, DistinctAfterAppend
    <3>3. CASE queue' = queue
      BY <3>1, <3>3 DEF Queued
    <3> QED
      BY <3>1, <3>2, <3>3
  <2>2. TypeOK'
    BY <1>16, <2>1 DEF RequestStop, caller, object, service, IInv, TypeOK
  <2>3. ServiceInv'
    BY <1>16, <2>1 DEF RequestStop, caller, object, service, IInv, TypeOK,
       ServiceInv, CallerInv, OwnerInv, InHands
  <2>4. CallerInv'
    BY <1>16, <2>1 DEF RequestStop, caller, object, service, IInv, TypeOK,
       ServiceInv, CallerInv, OwnerInv, InHands
  <2>5. OwnerInv'
    BY <1>16, <2>1 DEF RequestStop, caller, object, service, IInv, TypeOK,
       ServiceInv, CallerInv, OwnerInv, InHands, WillDelete
  <2> QED
    BY <2>2, <2>3, <2>4, <2>5 DEF IInv
<1>17. ASSUME NotifySync PROVE IInv'
  <2>0. /\ queue \in Seq(Commands \cup {Wake}) /\ queue' = Append(queue, Wake)
        /\ Wake # Wake => ~Queued(Wake)
        /\ \A i, j \in 1..Len(queue) : queue[i] = queue[j] /\ queue[i] # Wake => i = j
    BY <1>17 DEF NotifySync, IInv, TypeOK, ServiceInv, CallerInv
  <2>1. /\ queue' \in Seq(Commands \cup {Wake})
        /\ \A d \in Commands : Queued(d)' <=> Queued(d) \/ d = Wake
        /\ \A i, j \in 1..Len(queue') : queue'[i] = queue'[j] /\ queue'[i] # Wake => i = j
    BY <2>0, QueuedAfterAppend, DistinctAfterAppend
  <2>2. TypeOK'
    BY <1>17, <2>1 DEF NotifySync, caller, object, service, IInv, TypeOK
  <2>3. ServiceInv'
    BY <1>17, <2>1 DEF NotifySync, caller, object, service, IInv, TypeOK,
       ServiceInv, CallerInv, OwnerInv, InHands
  <2>4. CallerInv'
    BY <1>17, <2>1 DEF NotifySync, caller, object, service, IInv, TypeOK,
       ServiceInv, CallerInv, OwnerInv, InHands
  <2>5. OwnerInv'
    BY <1>17, <2>1 DEF NotifySync, caller, object, service, IInv, TypeOK,
       ServiceInv, CallerInv, OwnerInv, InHands, WillDelete
  <2> QED
    BY <2>2, <2>3, <2>4, <2>5 DEF IInv
<1>18. ASSUME ForceDelete PROVE IInv'
  <2>1. /\ queue' = queue
        /\ \A d \in Commands : Queued(d)' <=> Queued(d)
    BY <1>18 DEF ForceDelete, Queued
  <2>2. TypeOK'
    BY <1>18, <2>1 DEF ForceDelete, caller, object, service, IInv, TypeOK
  <2>3. ServiceInv'
    BY <1>18, <2>1 DEF ForceDelete, caller, object, service, IInv, TypeOK,
       ServiceInv, CallerInv, OwnerInv, InHands
  <2>4. CallerInv'
    BY <1>18, <2>1 DEF ForceDelete, caller, object, service, IInv, TypeOK,
       ServiceInv, CallerInv, OwnerInv, InHands
  <2>5. OwnerInv'
    BY <1>18, <2>1 DEF ForceDelete, caller, object, service, IInv, TypeOK,
       ServiceInv, CallerInv, OwnerInv, InHands, WillDelete
  <2> QED
    BY <2>2, <2>3, <2>4, <2>5 DEF IInv
<1>19. CASE UNCHANGED vars
  BY <1>19, SMTT(30) DEF vars, IInv, TypeOK, ServiceInv, CallerInv, OwnerInv, Queued, InHands, WillDelete
<1> QED
  BY <1>1, <1>2, <1>3, <1>4, <1>5, <1>6, <1>7, <1>8, <1>9, <1>10, <1>11, <1>12, <1>13, <1>14, <1>15, <1>16, <1>17, <1>18, <1>19 DEF Next, Caller, Service

(* The program keeps the inductive invariant, for any number of calls and   *)
(* any depth of the command queue.                                          *)
THEOREM Inductive == Spec => []IInv
BY InitInductive, NextInductive, PTL DEF Spec

(* The state of the hand-off is always well formed. *)
THEOREM TypeCorrect == Spec => []TypeOK
<1>1. IInv => TypeOK
  BY DEF IInv
<1> QED
  BY <1>1, Inductive, PTL

(* Neither the caller nor the service task ever touches a command that has  *)
(* been freed, whenever the caller times out or the task is stopped.        *)
THEOREM MemorySafe == Spec => []NoUseAfterFree
<1>1. IInv => NoUseAfterFree
  BY DEF IInv, CallerInv, OwnerInv, NoUseAfterFree
<1> QED
  BY <1>1, Inductive, PTL

(* The service frees only a command whose caller has abandoned it: a        *)
(* command is never freed from both sides.                                  *)
THEOREM SingleOwner == Spec => []OneOwnerFrees
<1>1. IInv => OneOwnerFrees
  BY DEF IInv, TypeOK, CallerInv, OwnerInv, OneOwnerFrees
<1> QED
  BY <1>1, Inductive, PTL

(* What a call returns is what happened to its command. *)
THEOREM AnswerHonest == Spec => []AnswerIsTrue
<1>1. IInv => AnswerIsTrue
  BY DEF IInv, TypeOK, CallerInv, OwnerInv, InHands, AnswerIsTrue
<1> QED
  BY <1>1, Inductive, PTL

(* A call that returned anything but Timeout leaves no command behind, and  *)
(* one that timed out leaves only what the service signaled or stop() lost. *)
THEOREM LeaksBounded == Spec => []LeaksOnlyOnTimeout
<1>1. IInv => LeaksOnlyOnTimeout
  BY DEF IInv, TypeOK, CallerInv, OwnerInv, InHands, LeaksOnlyOnTimeout
<1> QED
  BY <1>1, Inductive, PTL
================================================================================
