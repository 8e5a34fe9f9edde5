--------------------------------- MODULE IdMap ---------------------------------
(***************************************************************************)
(* What SchedulerCore relies on in its job index: a partial function from  *)
(* job ids to slots.  call is the last call with its arguments, reply what *)
(* it returned: whether it succeeded, and the slot a get() found.          *)
(***************************************************************************)
EXTENDS Naturals

CONSTANTS Ids, SlotIndexes

VARIABLES slotOf, call, reply

No    == [ok |-> FALSE, slot |-> 0]
Yes   == [ok |-> TRUE, slot |-> 0]
At(s) == [ok |-> TRUE, slot |-> s]

Init == slotOf = <<>> /\ call = [op |-> "none"] /\ reply = No

(* Only a call that is refused memory may fail, and then it changes nothing. *)
Set(id, s, memory) ==
  /\ call' = [op |-> "set", id |-> id, slot |-> s, memory |-> memory]
  /\ \/ /\ slotOf' = [x \in DOMAIN slotOf \cup {id} |-> IF x = id THEN s ELSE slotOf[x]]
        /\ reply' = Yes
     \/ ~memory /\ reply' = No /\ UNCHANGED slotOf

Get(id) ==
  /\ call' = [op |-> "get", id |-> id]
  /\ reply' = IF id \in DOMAIN slotOf THEN At(slotOf[id]) ELSE No
  /\ UNCHANGED slotOf

Remove(id) ==
  /\ call' = [op |-> "remove", id |-> id]
  /\ slotOf' = [x \in DOMAIN slotOf \ {id} |-> slotOf[x]]
  /\ reply' = IF id \in DOMAIN slotOf THEN Yes ELSE No

Clear == call' = [op |-> "clear"] /\ slotOf' = <<>> /\ reply' = No

Next ==
  \/ \E id \in Ids, s \in SlotIndexes, memory \in BOOLEAN : Set(id, s, memory)
  \/ \E id \in Ids : Get(id) \/ Remove(id)
  \/ Clear

Spec == Init /\ [][Next]_<<slotOf, call, reply>>
================================================================================
