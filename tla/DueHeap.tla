-------------------------------- MODULE DueHeap --------------------------------
(***************************************************************************)
(* DueHeap (due_heap.h) on its SchedulerArray: a binary heap of entries    *)
(* <<nextEpoch, payload>>, the payload standing for slot and generation.   *)
(* Positions count from 1, the code's from 0.  It implements DueQueue.     *)
(***************************************************************************)
EXTENDS Integers, SequencesExt, Bags

CONSTANTS
  Entries,          \* due entries
  FirstArrayLength, \* capacity of the first allocation, 4 in the code
  MaxLength         \* bound: entries in the heap

ASSUME HeapAssumption ==
  /\ \A e \in Entries : e[1] \in Nat
  /\ FirstArrayLength \in Nat \ {0} /\ MaxLength \in Nat

VARIABLES
  heap,         \* entries_
  arrayLength,  \* entries_.capacity_
  asked,        \* the last call with its arguments; memory: whether it could allocate
  answer        \* what the last call returned

heapVars == <<heap, arrayLength, asked, answer>>

Refused  == [ok |-> FALSE]
Done     == [ok |-> TRUE]
Found(e) == [ok |-> TRUE, entry |-> e]

HeapInit == heap = <<>> /\ arrayLength = 0 /\ asked = [op |-> "none"] /\ answer = Refused

(* Compare: x is due later than y. *)
LaterThan(x, y) == x[1] > y[1]

(* The loop of push: the last entry rises past every parent that is due     *)
(* later; rise[k] is the heap when it has come to position k.               *)
SiftUp(h) ==
  LET x == Last(h)
      rise[k \in 1..Len(h)] ==
        IF k = 1 \/ ~LaterThan(h[k \div 2], x) THEN [h EXCEPT ![k] = x]
        ELSE [rise[k \div 2] EXCEPT ![k] = h[k \div 2]]
  IN rise[Len(h)]

(* Mutant: the right child is compared with the parent, not with the left. *)
SiftDownSlack(h) ==
  LET x == h[1]
      sink[k \in 1..Len(h)] ==
        LET left == IF 2 * k <= Len(h) /\ LaterThan(x, h[2 * k]) THEN 2 * k ELSE k
            candidate == IF 2 * k < Len(h) /\ LaterThan(x, h[2 * k + 1]) THEN 2 * k + 1 ELSE left
        IN IF candidate = k THEN [h EXCEPT ![k] = x]
           ELSE [sink[candidate] EXCEPT ![k] = h[candidate]]
  IN sink[1]

(* The loop of pop: the entry that was moved to the root sinks below the    *)
(* child that is due first; sink[k] is the heap once it is at position k.   *)
SiftDown(h) ==
  LET x == h[1]
      at(k, i) == IF i = k THEN x ELSE h[i]
      sink[k \in 1..Len(h)] ==
        LET left == IF 2 * k <= Len(h) /\ LaterThan(x, h[2 * k]) THEN 2 * k ELSE k
            candidate == IF 2 * k < Len(h) /\ LaterThan(at(k, left), h[2 * k + 1])
                         THEN 2 * k + 1 ELSE left
        IN IF candidate = k THEN [h EXCEPT ![k] = x]
           ELSE [sink[candidate] EXCEPT ![k] = h[candidate]]
  IN sink[1]

--------------------------------------------------------------------------------
(* SchedulerArray::emplaceBack doubles a full array. *)
GrownLength ==
  CASE Len(heap) < arrayLength -> arrayLength
    [] Len(heap) = arrayLength /\ arrayLength = 0 -> FirstArrayLength
    [] OTHER -> 2 * arrayLength

(* reserve() fails if it needs a longer array and cannot allocate it. *)
HeapPush(e, memory) ==
  /\ Len(heap) < MaxLength
  /\ asked' = [op |-> "push", entry |-> e, memory |-> memory]
  /\ IF GrownLength > arrayLength /\ ~memory
     THEN answer' = Refused /\ UNCHANGED <<heap, arrayLength>>
     ELSE /\ heap' = SiftUp(Append(heap, e))
          /\ arrayLength' = GrownLength
          /\ answer' = Done

(* The callers of top() and pop() have seen that the heap is not empty. *)
HeapTop ==
  /\ heap # <<>>
  /\ asked' = [op |-> "top"]
  /\ answer' = Found(heap[1])
  /\ UNCHANGED <<heap, arrayLength>>

HeapPop ==
  /\ heap # <<>>
  /\ asked' = [op |-> "pop"]
  /\ heap' = IF Len(heap) = 1 THEN <<>> ELSE SiftDown(<<Last(heap)>> \o SubSeq(heap, 2, Len(heap) - 1))
  /\ answer' = Done
  /\ UNCHANGED arrayLength

HeapClear ==
  /\ asked' = [op |-> "clear"]
  /\ heap' = <<>>
  /\ answer' = Done
  /\ UNCHANGED arrayLength

HeapNext ==
  \/ \E e \in Entries, memory \in BOOLEAN : HeapPush(e, memory)
  \/ HeapTop \/ HeapPop \/ HeapClear

HeapSpec == HeapInit /\ [][HeapNext]_heapVars

--------------------------------------------------------------------------------
(* Properties *)

Queue == INSTANCE DueQueue WITH queue <- ToBag(heap)

(* Over every order of pushes and pops, and through pushes that fail, which *)
(* they do for want of memory only, every entry that was pushed is there    *)
(* until it is popped, once, and the top is always one that is due first:   *)
(* dispatchDue, which stops at the first entry in the future, and           *)
(* nextDueEpoch, which the service sleeps by, never miss a due job.         *)
ImplementsDueQueue == Queue!Spec
================================================================================
