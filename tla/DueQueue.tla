-------------------------------- MODULE DueQueue --------------------------------
(***************************************************************************)
(* What SchedulerCore relies on in its due heap: a bag of entries <<epoch, *)
(* payload>> whose top is one that is due first.  asked is the last call   *)
(* with its arguments, answer the entry it returned and whether it         *)
(* succeeded.                                                              *)
(***************************************************************************)
EXTENDS Integers, Bags

CONSTANTS Entries

VARIABLES queue, asked, answer

Refused  == [ok |-> FALSE]
Done     == [ok |-> TRUE]
Found(e) == [ok |-> TRUE, entry |-> e]

First(q) == {e \in BagToSet(q) : \A x \in BagToSet(q) : e[1] <= x[1]}

Init == queue = EmptyBag /\ asked = [op |-> "none"] /\ answer = Refused

(* Only a push that is refused memory may fail, and then it changes nothing. *)
Push(e, memory) ==
  /\ asked' = [op |-> "push", entry |-> e, memory |-> memory]
  /\ \/ queue' = queue (+) SetToBag({e}) /\ answer' = Done
     \/ ~memory /\ answer' = Refused /\ UNCHANGED queue

Top ==
  /\ asked' = [op |-> "top"]
  /\ \E e \in First(queue) : answer' = Found(e)
  /\ UNCHANGED queue

(* pop() returns the entry that top() has shown. *)
Pop ==
  /\ asked' = [op |-> "pop"]
  /\ \E e \in First(queue) :
       /\ "entry" \in DOMAIN answer => e = answer.entry
       /\ queue' = queue (-) SetToBag({e})
  /\ answer' = Done

Clear == asked' = [op |-> "clear"] /\ queue' = EmptyBag /\ answer' = Done

Next ==
  \/ \E e \in Entries, memory \in BOOLEAN : Push(e, memory)
  \/ Top \/ Pop \/ Clear

Spec == Init /\ [][Next]_<<queue, asked, answer>>
================================================================================
