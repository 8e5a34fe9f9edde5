-------------------------------- MODULE IdIndex --------------------------------
(***************************************************************************)
(* SchedulerIdIndex (runtime_containers.h): open addressing with linear    *)
(* probing and tombstones, from job ids to slots.  It implements IdMap.    *)
(***************************************************************************)
EXTENDS Naturals, FiniteSetsExt

CONSTANTS
  Ids,           \* job ids, none of them 0
  SlotIndexes,   \* slots
  FirstCapacity, \* nextCapacity(0)
  MaxCapacity    \* bound: an allocation of more entries fails

ASSUME IndexAssumption ==
  /\ Ids \subseteq Nat \ {0}
  /\ SlotIndexes \subseteq Nat
  /\ FirstCapacity \in Nat \ {0, 1} /\ MaxCapacity \in Nat

VARIABLES
  index,  \* entries_ (a function on 0..capacity_-1), capacity_, size_, deletedCount_
  call,   \* the last call with its arguments; memory: whether it could allocate
  reply   \* what the last call returned, and the slot a get() found

indexVars == <<index, call, reply>>

Empty    == [state |-> "Empty", jobId |-> 0, slotIndex |-> 0]
Deleted  == [state |-> "Deleted", jobId |-> 0, slotIndex |-> 0]
Occupied(id, s) == [state |-> "Occupied", jobId |-> id, slotIndex |-> s]

NewTable(cap) ==
  [entries |-> [i \in 0..(cap - 1) |-> Empty], capacity |-> cap,
   size |-> 0, deletedCount |-> 0]

No    == [ok |-> FALSE, slot |-> 0]
Yes   == [ok |-> TRUE, slot |-> 0]
At(s) == [ok |-> TRUE, slot |-> s]

IndexInit == index = NewTable(0) /\ call = [op |-> "none"] /\ reply = No

(* jobId * 2654435761u, masked with capacity - 1: for capacities up to 2^16 *)
(* only the low 16 bits of the factor, 0x79b1, matter.                      *)
Hash(id, cap) == (id * 31153) % cap

ProbeAt(t, id, k) == (Hash(id, t.capacity) + k) % t.capacity
Probed(t, id, k)  == t.entries[ProbeAt(t, id, k)]

(* The probes at which the loop over the table ends. *)
ProbesEnd(t, id) ==
  {k \in 0..(t.capacity - 1) : Probed(t, id, k).state = "Empty" \/ Probed(t, id, k).jobId = id}

(* Mutant: a tombstone ends the search like an empty entry.                 *)
FindStopsAtTombstone(t, id) ==
  LET ends == {k \in 0..(t.capacity - 1) : Probed(t, id, k).state # "Occupied" \/ Probed(t, id, k).jobId = id}
  IN IF ends = {} \/ Probed(t, id, Min(ends)).jobId # id THEN {} ELSE {ProbeAt(t, id, Min(ends))}

(* The entry of an id: empty when a probe runs into an empty entry first,   *)
(* or round the whole table.                                                *)
Find(t, id) ==
  LET ends == ProbesEnd(t, id) IN
  IF ends = {} \/ Probed(t, id, Min(ends)).jobId # id THEN {} ELSE {ProbeAt(t, id, Min(ends))}

(* insertOrAssign: an empty set stands for false, the table is full.  The   *)
(* first tombstone on the way is reused, but only once the id is not found. *)
InsertOrAssign(t, id, s) ==
  LET ends  == ProbesEnd(t, id)
      end   == IF ends = {} THEN t.capacity ELSE Min(ends)
      found == ends # {} /\ Probed(t, id, end).jobId = id
      tombs == {k \in 0..(end - 1) : Probed(t, id, k).state = "Deleted"}
      put(k) == [t EXCEPT !.entries[ProbeAt(t, id, k)] = Occupied(id, s)]
  IN CASE found -> {put(end)}
       [] ~found /\ tombs # {} ->
            {[put(Min(tombs)) EXCEPT !.size = @ + 1, !.deletedCount = @ - 1]}
       [] ~found /\ tombs = {} /\ ends # {} -> {[put(end) EXCEPT !.size = @ + 1]}
       [] OTHER -> {}

(* One round of rehash: an occupied entry is inserted into the new table. *)
Reinserted(e, u) == IF e.state = "Occupied" THEN InsertOrAssign(u, e.jobId, e.slotIndex) ELSE {u}

(* Mutant: only the table is replaced, the tombstones stay counted. *)
RehashKeepsCount(t, cap) ==
  LET into[n \in 0..t.capacity] ==
        IF n = 0 THEN {NewTable(cap)} ELSE UNION {Reinserted(t.entries[n - 1], u) : u \in into[n - 1]}
  IN {[u EXCEPT !.deletedCount = t.deletedCount] : u \in into[t.capacity]}

(* rehash: the occupied entries are inserted, in order, into a new table;   *)
(* an empty set stands for false, and the old table is kept.                *)
Rehash(t, cap) ==
  LET into[n \in 0..t.capacity] ==
        IF n = 0 THEN {NewTable(cap)} ELSE UNION {Reinserted(t.entries[n - 1], u) : u \in into[n - 1]}
  IN into[t.capacity]

NextCapacity(cap) == IF cap = 0 THEN FirstCapacity ELSE 2 * cap

(* Mutant: tombstones do not count towards the load. *)
WantedIgnoresDeleted(t) ==
  IF t.capacity = 0 \/ (t.size + 1) * 10 >= t.capacity * 7 THEN NextCapacity(t.capacity) ELSE 0

(* The capacity ensureCapacityForInsert rehashes to, 0 if it does not. *)
WantedCapacity(t) ==
  CASE t.capacity = 0 \/ (t.size + t.deletedCount + 1) * 10 >= t.capacity * 7 -> NextCapacity(t.capacity)
    [] ~(t.capacity = 0 \/ (t.size + t.deletedCount + 1) * 10 >= t.capacity * 7) ->
         IF t.deletedCount > t.size THEN t.capacity ELSE 0

(* An empty set stands for false: the new table cannot be allocated, or     *)
(* rehash fails.                                                            *)
EnsureCapacityForInsert(t, memory) ==
  CASE WantedCapacity(t) = 0             -> {t}
    [] WantedCapacity(t) # 0 /\ memory  -> Rehash(t, WantedCapacity(t))
    [] WantedCapacity(t) # 0 /\ ~memory -> {}

--------------------------------------------------------------------------------
(* The operations; every one of them refuses id 0 without an effect *)

IndexSet(id, s, memory) ==
  LET made == EnsureCapacityForInsert(index, memory) IN
  /\ memory => WantedCapacity(index) <= MaxCapacity
  /\ call' = [op |-> "set", id |-> id, slot |-> s, memory |-> memory]
  /\ IF made = {} THEN reply' = No /\ UNCHANGED index
     ELSE \E t \in made :
            IF InsertOrAssign(t, id, s) = {} THEN reply' = No /\ index' = t
            ELSE reply' = Yes /\ index' \in InsertOrAssign(t, id, s)

IndexGet(id) ==
  /\ call' = [op |-> "get", id |-> id]
  /\ IF Find(index, id) = {} THEN reply' = No
     ELSE \E i \in Find(index, id) : reply' = At(index.entries[i].slotIndex)
  /\ UNCHANGED index

IndexRemove(id) ==
  /\ call' = [op |-> "remove", id |-> id]
  /\ IF Find(index, id) = {} THEN reply' = No /\ UNCHANGED index
     ELSE \E i \in Find(index, id) :
            /\ index' = [index EXCEPT !.entries[i] = Deleted, !.size = @ - 1,
                                      !.deletedCount = @ + 1]
            /\ reply' = Yes

IndexClear ==
  /\ call' = [op |-> "clear"]
  /\ index' = NewTable(index.capacity)
  /\ reply' = No

IndexNext ==
  \/ \E id \in Ids, s \in SlotIndexes, memory \in BOOLEAN : IndexSet(id, s, memory)
  \/ \E id \in Ids : IndexGet(id) \/ IndexRemove(id)
  \/ IndexClear

IndexSpec == IndexInit /\ [][IndexNext]_indexVars

--------------------------------------------------------------------------------
(* Properties *)

OccupiedAt(t) == {i \in DOMAIN t.entries : t.entries[i].state = "Occupied"}

(* The function an index stands for, read off its entries without probing. *)
SlotOf(t) ==
  [id \in {t.entries[i].jobId : i \in OccupiedAt(t)} |->
     t.entries[CHOOSE i \in OccupiedAt(t) : t.entries[i].jobId = id].slotIndex]

Contract == INSTANCE IdMap WITH slotOf <- SlotOf(index)

(* get(), set() and remove() behave like a partial function, over every     *)
(* order of insertions, removals, rehashes and refused allocations: get()   *)
(* answers for the id it is asked with the slot of the last set(), and it   *)
(* and remove() find every id that is present, also behind tombstones; a    *)
(* set() fails only for want of memory and then changes nothing; no id is   *)
(* entered twice.                                                           *)
ImplementsIdMap == Contract!Spec

(* size_ and deletedCount_ count the entries, through reuse of tombstones   *)
(* and rehashes; ensureCapacityForInsert decides by them.                   *)
CountsExact ==
  /\ index.size = Cardinality(OccupiedAt(index))
  /\ index.deletedCount = Cardinality({i \in DOMAIN index.entries : index.entries[i] = Deleted})

(* Tombstones never crowd out the empty entries: fewer than seven tenths of *)
(* the table are in use, so that a probe for an absent id ends early and    *)
(* insertOrAssign always finds room.                                        *)
ProbesStayShort ==
  index.capacity > 0 =>
    10 * Cardinality({i \in DOMAIN index.entries : index.entries[i] # Empty}) < 7 * index.capacity
================================================================================
