--------------------------- MODULE Sequential_proofs ----------------------------
(***************************************************************************)
(* Proofs about the parts whose calls run one after the other, for tables, *)
(* queues and job lists of any size.                                       *)
(*                                                                         *)
(* The job index (IdIndex) keeps its counters exact and its table sparse,  *)
(* and it is a partial function, whatever is inserted, removed and         *)
(* rehashed.  The binary heap (DueHeap) is a queue by due time: it loses   *)
(* and doubles no entry, and its root is always due first.  With the v1    *)
(* wrapper (V1Compat) every job is as its addJob asked for, and the lookup *)
(* by index counts right while jobs end, for any number of failing calls.  *)
(***************************************************************************)
EXTENDS IdIndex, DueHeap, V1Compat, Counting

--------------------------------------------------------------------------------
(* The job index: its inductive invariant and the probes *)

EntryType == {Empty, Deleted} \cup {Occupied(id, s) : id \in Ids, s \in SlotIndexes}

TableTyped(t) ==
  /\ t = [entries |-> t.entries, capacity |-> t.capacity, size |-> t.size,
          deletedCount |-> t.deletedCount]
  /\ t.capacity \in Nat
  /\ t.entries \in [0..(t.capacity - 1) -> EntryType]

(* No id has two entries. *)
NoIdTwice(t) == \A i, j \in OccupiedAt(t) : t.entries[i].jobId = t.entries[j].jobId => i = j

(* A probe for id that stops at its k-th entry has met no empty one before. *)
Unbroken(t, id, k) == \A m \in 0..(k - 1) : Probed(t, id, m).state # "Empty"

(* Every entry lies on an unbroken probe for its id. *)
Reachable(t) ==
  \A i \in OccupiedAt(t) :
    \E k \in 0..(t.capacity - 1) :
      ProbeAt(t, t.entries[i].jobId, k) = i /\ Unbroken(t, t.entries[i].jobId, k)

DeletedAt(t) == {i \in DOMAIN t.entries : t.entries[i] = Deleted}

Counted(t) == t.size = Cardinality(OccupiedAt(t)) /\ t.deletedCount = Cardinality(DeletedAt(t))

TableOK(t) == TableTyped(t) /\ NoIdTwice(t) /\ Reachable(t) /\ Counted(t)

(* The remainder by a positive number lies below it. *)
LEMMA ModRange ==
  ASSUME NEW a \in Nat, NEW c \in Nat, c > 0
  PROVE  a % c \in 0..(c - 1)
  BY SMT

(* Every probe looks at an entry of the table. *)
LEMMA ProbeInTable ==
  ASSUME NEW t, t.capacity \in Nat, NEW id \in Nat, NEW k \in 0..(t.capacity - 1)
  PROVE  ProbeAt(t, id, k) \in 0..(t.capacity - 1)
<1> DEFINE c == t.capacity
<1>1. c \in Nat /\ c > 0 /\ k \in Nat
  OBVIOUS
<1>2. id * 31153 \in Nat
  OBVIOUS
<1>3. (id * 31153) % c \in 0..(c - 1)
  BY <1>1, <1>2, ModRange
<1>4. ((id * 31153) % c) + k \in Nat
  BY <1>1, <1>3
<1> QED
  BY <1>1, <1>4, ModRange DEF ProbeAt, Hash

(* What an entry can be. *)
LEMMA EntryKinds ==
  ASSUME NEW e \in EntryType
  PROVE  /\ e.state \in {"Empty", "Deleted", "Occupied"}
         /\ e.state = "Empty" <=> e = Empty
         /\ e.state = "Deleted" <=> e = Deleted
         /\ e.state = "Occupied" => e.jobId \in Ids /\ e.slotIndex \in SlotIndexes
                                      /\ e = Occupied(e.jobId, e.slotIndex)
         /\ e.state # "Occupied" => e.jobId = 0
  BY DEF EntryType, Empty, Deleted, Occupied

(* A nonempty set of numbers has a least one, and Min names it. *)
LEMMA MinIn ==
  ASSUME NEW S, S \subseteq Nat, S # {}
  PROVE  Min(S) \in S /\ \A y \in S : Min(S) <= y
  BY LeastOf DEF Min

(* The ids that have an entry. *)
Held(t) == {t.entries[i].jobId : i \in OccupiedAt(t)}

(* The entry a probe looks at has one of the three forms, and is occupied   *)
(* by an id exactly when it carries that id.                                *)
LEMMA ProbedKinds ==
  ASSUME NEW t, TableTyped(t), NEW id \in Ids, NEW k \in 0..(t.capacity - 1)
  PROVE  /\ ProbeAt(t, id, k) \in DOMAIN t.entries
         /\ DOMAIN t.entries = 0..(t.capacity - 1)
         /\ Probed(t, id, k) \in EntryType
         /\ Probed(t, id, k).jobId = id <=>
              ProbeAt(t, id, k) \in OccupiedAt(t) /\ t.entries[ProbeAt(t, id, k)].jobId = id
<1>1. id \in Nat \ {0} /\ t.capacity \in Nat /\ t.entries \in [0..(t.capacity - 1) -> EntryType]
  BY IndexAssumption DEF TableTyped
<1>2. ProbeAt(t, id, k) \in 0..(t.capacity - 1)
  BY <1>1, ProbeInTable
<1>3. t.entries[ProbeAt(t, id, k)] \in EntryType
  BY <1>1, <1>2
<1>4. t.entries[ProbeAt(t, id, k)].jobId = id => t.entries[ProbeAt(t, id, k)].state = "Occupied"
  BY <1>1, <1>3, EntryKinds
<1> QED
  BY <1>1, <1>2, <1>3, <1>4 DEF Probed, OccupiedAt

(* Where a probe ends: it has met no empty entry before, and it has found   *)
(* the id if the table holds it.                                            *)
LEMMA ProbeEnds ==
  ASSUME NEW t, TableTyped(t), Reachable(t), NEW id \in Ids, ProbesEnd(t, id) # {}
  PROVE  /\ Min(ProbesEnd(t, id)) \in 0..(t.capacity - 1)
         /\ Unbroken(t, id, Min(ProbesEnd(t, id)))
         /\ Probed(t, id, Min(ProbesEnd(t, id))).jobId = id <=> id \in Held(t)
         /\ id \notin Held(t) => Probed(t, id, Min(ProbesEnd(t, id))).state = "Empty"
<1> DEFINE ends == ProbesEnd(t, id)
           end  == Min(ends)
<1>1. ends \subseteq 0..(t.capacity - 1) /\ ends \subseteq Nat /\ t.capacity \in Nat
  BY DEF ProbesEnd, TableTyped
<1>2. end \in ends /\ \A y \in ends : end <= y
  BY <1>1, MinIn
<1>3. end \in 0..(t.capacity - 1) /\ end \in Nat
  BY <1>1, <1>2
<1>4. Probed(t, id, end).state = "Empty" \/ Probed(t, id, end).jobId = id
  BY <1>2 DEF ProbesEnd
<1>5. ASSUME NEW m \in 0..(end - 1) PROVE m \in 0..(t.capacity - 1) /\ m \notin ends
  BY <1>1, <1>2, <1>3
<1>6. Unbroken(t, id, end)
  BY <1>5 DEF Unbroken, ProbesEnd
<1>7. ASSUME Probed(t, id, end).jobId = id PROVE id \in Held(t)
  BY <1>3, <1>7, ProbedKinds DEF Held
<1>8. ASSUME id \in Held(t) PROVE Probed(t, id, end).jobId = id
  <2>1. PICK i \in OccupiedAt(t) : t.entries[i].jobId = id
    BY <1>8 DEF Held
  <2>2. PICK k \in 0..(t.capacity - 1) : ProbeAt(t, id, k) = i /\ Unbroken(t, id, k)
    BY <2>1 DEF Reachable
  <2>3. Probed(t, id, k).jobId = id
    BY <2>1, <2>2 DEF Probed
  <2>4. k \in ends
    BY <2>2, <2>3 DEF ProbesEnd
  <2>5. end <= k /\ k \in Nat
    BY <1>1, <1>2, <2>4
  <2>6. CASE end = k
    BY <2>3, <2>6
  <2>7. CASE end # k
    <3>1. end \in 0..(k - 1)
      BY <1>3, <2>5, <2>7
    <3>2. Probed(t, id, end).state # "Empty"
      BY <2>2, <3>1 DEF Unbroken
    <3> QED
      BY <1>4, <3>2
  <2> QED
    BY <2>6, <2>7
<1> QED
  BY <1>3, <1>4, <1>6, <1>7, <1>8

(* A probe that goes round the table has met no empty entry, and the table  *)
(* does not hold the id.                                                    *)
LEMMA ProbeRound ==
  ASSUME NEW t, TableTyped(t), Reachable(t), NEW id \in Ids, ProbesEnd(t, id) = {}
  PROVE  Unbroken(t, id, t.capacity) /\ id \notin Held(t)
<1>1. Unbroken(t, id, t.capacity)
  BY DEF Unbroken, ProbesEnd
<1>2. ASSUME id \in Held(t) PROVE FALSE
  <2>1. PICK i \in OccupiedAt(t) : t.entries[i].jobId = id
    BY <1>2 DEF Held
  <2>2. PICK k \in 0..(t.capacity - 1) : ProbeAt(t, id, k) = i
    BY <2>1 DEF Reachable
  <2>3. Probed(t, id, k).jobId = id
    BY <2>1, <2>2 DEF Probed
  <2> QED
    BY <2>2, <2>3 DEF ProbesEnd
<1> QED
  BY <1>1, <1>2

(* find() answers with the entry of the id exactly when there is one.       *)
LEMMA FindIs ==
  ASSUME NEW t, TableTyped(t), Reachable(t), NEW id \in Ids
  PROVE  /\ Find(t, id) = {} <=> id \notin Held(t)
         /\ \A i \in Find(t, id) : i \in OccupiedAt(t) /\ t.entries[i].jobId = id
<1>1. CASE ProbesEnd(t, id) = {}
  BY <1>1, ProbeRound DEF Find
<1>2. CASE ProbesEnd(t, id) # {}
  <2>1. /\ Min(ProbesEnd(t, id)) \in 0..(t.capacity - 1)
        /\ Probed(t, id, Min(ProbesEnd(t, id))).jobId = id <=> id \in Held(t)
    BY <1>2, ProbeEnds
  <2>2. CASE id \notin Held(t)
    BY <1>2, <2>1, <2>2 DEF Find
  <2>3. CASE id \in Held(t)
    <3>1. Find(t, id) = {ProbeAt(t, id, Min(ProbesEnd(t, id)))}
      BY <1>2, <2>1, <2>3 DEF Find
    <3> QED
      BY <2>1, <2>3, <3>1, ProbedKinds
  <2> QED
    BY <2>2, <2>3
<1> QED
  BY <1>1, <1>2

(* u is t with the id entered at its k-th probe: over its own entry, over a *)
(* tombstone or in an empty entry.                                          *)
Entered(t, id, s, k, u) ==
  LET j == ProbeAt(t, id, k) IN
  /\ k \in 0..(t.capacity - 1) /\ Unbroken(t, id, k)
  /\ u.entries = [t.entries EXCEPT ![j] = Occupied(id, s)]
  /\ u = [entries |-> u.entries, capacity |-> t.capacity, size |-> u.size,
          deletedCount |-> u.deletedCount]
  /\ \/ /\ j \in OccupiedAt(t) /\ t.entries[j].jobId = id
        /\ u.size = t.size /\ u.deletedCount = t.deletedCount
     \/ /\ id \notin Held(t) /\ t.entries[j] = Deleted
        /\ u.size = t.size + 1 /\ u.deletedCount = t.deletedCount - 1
     \/ /\ id \notin Held(t) /\ t.entries[j] = Empty
        /\ u.size = t.size + 1 /\ u.deletedCount = t.deletedCount

(* insertOrAssign enters the id, if it does anything.                       *)
LEMMA InsertIs ==
  ASSUME NEW t, TableTyped(t), Reachable(t), NEW id \in Ids, NEW s,
         NEW u \in InsertOrAssign(t, id, s)
  PROVE  \E k : Entered(t, id, s, k, u)
<1> DEFINE ends  == ProbesEnd(t, id)
           end   == IF ends = {} THEN t.capacity ELSE Min(ends)
           found == ends # {} /\ Probed(t, id, end).jobId = id
           tombs == {k \in 0..(end - 1) : Probed(t, id, k).state = "Deleted"}
           put(k) == [t EXCEPT !.entries[ProbeAt(t, id, k)] = Occupied(id, s)]
<1>0. /\ t = [entries |-> t.entries, capacity |-> t.capacity, size |-> t.size,
              deletedCount |-> t.deletedCount]
      /\ t.capacity \in Nat
  BY DEF TableTyped
<1>1. /\ end \in Nat /\ end <= t.capacity
      /\ ends # {} => end \in 0..(t.capacity - 1)
      /\ Unbroken(t, id, end)
      /\ found <=> id \in Held(t)
      /\ ends # {} /\ id \notin Held(t) => Probed(t, id, end).state = "Empty"
  <2>1. CASE ends = {}
    BY <1>0, <2>1, ProbeRound
  <2>2. CASE ends # {}
    BY <1>0, <2>2, ProbeEnds
  <2> QED
    BY <2>1, <2>2
<1>2. \/ found /\ u = put(end)
      \/ /\ ~found /\ tombs # {}
         /\ u = [put(Min(tombs)) EXCEPT !.size = @ + 1, !.deletedCount = @ - 1]
      \/ ~found /\ tombs = {} /\ ends # {} /\ u = [put(end) EXCEPT !.size = @ + 1]
  BY DEF InsertOrAssign
<1>3. CASE found /\ u = put(end)
  <2>1. end \in 0..(t.capacity - 1)
    BY <1>1, <1>3
  <2>2. ProbeAt(t, id, end) \in OccupiedAt(t) /\ t.entries[ProbeAt(t, id, end)].jobId = id
    BY <1>3, <2>1, ProbedKinds
  <2>3. /\ u.entries = [t.entries EXCEPT ![ProbeAt(t, id, end)] = Occupied(id, s)]
        /\ u.size = t.size /\ u.deletedCount = t.deletedCount
        /\ u = [entries |-> u.entries, capacity |-> t.capacity, size |-> u.size,
                deletedCount |-> u.deletedCount]
    BY <1>0, <1>3
  <2>4. Entered(t, id, s, end, u)
    BY <1>1, <2>1, <2>2, <2>3 DEF Entered
  <2> QED
    BY <2>4
<1>4. CASE /\ ~found /\ tombs # {}
           /\ u = [put(Min(tombs)) EXCEPT !.size = @ + 1, !.deletedCount = @ - 1]
  <2> DEFINE k == Min(tombs)
  <2>1. tombs \subseteq 0..(end - 1) /\ tombs \subseteq Nat
    BY <1>1
  <2>2. k \in tombs
    BY <1>4, <2>1, MinIn
  <2>3. k \in 0..(t.capacity - 1) /\ k \in Nat /\ k < end /\ Probed(t, id, k).state = "Deleted"
    BY <1>0, <1>1, <2>1, <2>2
  <2> HIDE DEF k
  <2>4. Unbroken(t, id, k)
    BY <1>1, <2>3 DEF Unbroken
  <2>5. t.entries[ProbeAt(t, id, k)] = Deleted
    BY <2>3, ProbedKinds, EntryKinds DEF Probed
  <2>6. /\ u.entries = [t.entries EXCEPT ![ProbeAt(t, id, k)] = Occupied(id, s)]
        /\ u.size = t.size + 1 /\ u.deletedCount = t.deletedCount - 1
        /\ u = [entries |-> u.entries, capacity |-> t.capacity, size |-> u.size,
                deletedCount |-> u.deletedCount]
    BY <1>0, <1>4 DEF k
  <2>7. Entered(t, id, s, k, u)
    BY <1>1, <1>4, <2>3, <2>4, <2>5, <2>6 DEF Entered
  <2> QED
    BY <2>7
<1>5. CASE ~found /\ tombs = {} /\ ends # {} /\ u = [put(end) EXCEPT !.size = @ + 1]
  <2>1. end \in 0..(t.capacity - 1) /\ Probed(t, id, end).state = "Empty"
    BY <1>1, <1>5
  <2>2. t.entries[ProbeAt(t, id, end)] = Empty
    BY <2>1, ProbedKinds, EntryKinds DEF Probed
  <2>3. /\ u.entries = [t.entries EXCEPT ![ProbeAt(t, id, end)] = Occupied(id, s)]
        /\ u.size = t.size + 1 /\ u.deletedCount = t.deletedCount
        /\ u = [entries |-> u.entries, capacity |-> t.capacity, size |-> u.size,
                deletedCount |-> u.deletedCount]
    BY <1>0, <1>5
  <2>4. Entered(t, id, s, end, u)
    BY <1>1, <1>5, <2>1, <2>2, <2>3 DEF Entered
  <2> QED
    BY <2>4
<1> QED
  BY <1>2, <1>3, <1>4, <1>5

(* Filling or deleting an entry breaks no probe.                            *)
LEMMA StaysUnbroken ==
  ASSUME NEW t, NEW u, TableTyped(t), u.capacity = t.capacity, NEW j, NEW e, e.state # "Empty",
         u.entries = [t.entries EXCEPT ![j] = e],
         NEW id \in Ids, NEW k \in 0..(t.capacity - 1), Unbroken(t, id, k)
  PROVE  ProbeAt(u, id, k) = ProbeAt(t, id, k) /\ Unbroken(u, id, k)
<1>1. ASSUME NEW m PROVE ProbeAt(u, id, m) = ProbeAt(t, id, m)
  BY DEF ProbeAt
<1>2. ASSUME NEW m \in 0..(k - 1) PROVE Probed(u, id, m).state # "Empty"
  <2>1. m \in 0..(t.capacity - 1)
    BY DEF TableTyped
  <2>2. ProbeAt(t, id, m) \in DOMAIN t.entries
    BY <2>1, ProbedKinds
  <2>3. t.entries[ProbeAt(t, id, m)].state # "Empty"
    BY DEF Unbroken, Probed
  <2> QED
    BY <1>1, <2>2, <2>3 DEF Probed
<1> QED
  BY <1>1, <1>2 DEF Unbroken

(* The occupied and the deleted entries of a table are finitely many.       *)
LEMMA TableFinite ==
  ASSUME NEW t, TableTyped(t)
  PROVE  /\ IsFiniteSet(OccupiedAt(t)) /\ IsFiniteSet(DeletedAt(t))
         /\ Cardinality(OccupiedAt(t)) \in Nat /\ Cardinality(DeletedAt(t)) \in Nat
<1>1. DOMAIN t.entries = 0..(t.capacity - 1) /\ 0 \in Int /\ t.capacity - 1 \in Int
  BY DEF TableTyped
<1>2. IsFiniteSet(DOMAIN t.entries)
  BY <1>1, FS_Interval
<1>3. IsFiniteSet(OccupiedAt(t)) /\ IsFiniteSet(DeletedAt(t))
  BY <1>2, FS_Subset DEF OccupiedAt, DeletedAt
<1> QED
  BY <1>3, FS_CardinalityType

(* What entering an id does to the entries: its own place is occupied by it *)
(* and every other one is as it was.                                        *)
LEMMA EnteredShape ==
  ASSUME NEW t, TableTyped(t), NEW id \in Ids, NEW s \in SlotIndexes, NEW k, NEW u,
         Entered(t, id, s, k, u)
  PROVE  /\ TableTyped(u) /\ u.capacity = t.capacity
         /\ ProbeAt(t, id, k) \in DOMAIN t.entries /\ DOMAIN u.entries = DOMAIN t.entries
         /\ u.entries[ProbeAt(t, id, k)] = Occupied(id, s)
         /\ \A i \in DOMAIN t.entries : i # ProbeAt(t, id, k) => u.entries[i] = t.entries[i]
         /\ OccupiedAt(u) = OccupiedAt(t) \cup {ProbeAt(t, id, k)}
         /\ DeletedAt(u) = DeletedAt(t) \ {ProbeAt(t, id, k)}
<1> DEFINE j == ProbeAt(t, id, k)
<1>1. /\ k \in 0..(t.capacity - 1)
      /\ u.entries = [t.entries EXCEPT ![j] = Occupied(id, s)]
      /\ u = [entries |-> u.entries, capacity |-> t.capacity, size |-> u.size,
              deletedCount |-> u.deletedCount]
  BY DEF Entered
<1>2. j \in DOMAIN t.entries /\ DOMAIN t.entries = 0..(t.capacity - 1)
  BY <1>1, ProbedKinds
<1> HIDE DEF j
<1>3. u.capacity = t.capacity
  BY <1>1
<1>4. Occupied(id, s) \in EntryType
  BY DEF EntryType
<1>5. /\ t.entries \in [0..(t.capacity - 1) -> EntryType] /\ t.capacity \in Nat
  BY DEF TableTyped
<1>6. u.entries \in [0..(t.capacity - 1) -> EntryType]
  BY <1>1, <1>4, <1>5
<1>7. TableTyped(u)
  BY <1>1, <1>3, <1>5, <1>6 DEF TableTyped
<1>8. u.entries[j] = Occupied(id, s) /\ \A i \in DOMAIN t.entries : i # j => u.entries[i] = t.entries[i]
  BY <1>1, <1>2, <1>5
<1>9. Occupied(id, s).state = "Occupied" /\ Occupied(id, s) # Deleted
  BY DEF Occupied, Deleted
<1>10. DOMAIN u.entries = DOMAIN t.entries
  BY <1>5, <1>6
<1>11. OccupiedAt(u) = OccupiedAt(t) \cup {j}
  BY <1>2, <1>8, <1>9, <1>10 DEF OccupiedAt
<1>12. DeletedAt(u) = DeletedAt(t) \ {j}
  BY <1>2, <1>8, <1>9, <1>10 DEF DeletedAt
<1> QED
  BY <1>2, <1>3, <1>7, <1>8, <1>10, <1>11, <1>12 DEF j

(* Entering an id keeps the table in order and uses at most one more entry. *)
LEMMA EnteredOK ==
  ASSUME NEW t, TableOK(t), NEW id \in Ids, NEW s \in SlotIndexes, NEW k, NEW u,
         Entered(t, id, s, k, u)
  PROVE  TableOK(u) /\ u.size + u.deletedCount <= t.size + t.deletedCount + 1
<1> DEFINE j == ProbeAt(t, id, k)
<1>0. TableTyped(t) /\ NoIdTwice(t) /\ Reachable(t) /\ Counted(t)
  BY DEF TableOK
<1>1. /\ TableTyped(u) /\ u.capacity = t.capacity
      /\ j \in DOMAIN t.entries /\ DOMAIN u.entries = DOMAIN t.entries
      /\ u.entries[j] = Occupied(id, s)
      /\ \A i \in DOMAIN t.entries : i # j => u.entries[i] = t.entries[i]
      /\ OccupiedAt(u) = OccupiedAt(t) \cup {j}
      /\ DeletedAt(u) = DeletedAt(t) \ {j}
  BY <1>0, EnteredShape
<1>2. /\ k \in 0..(t.capacity - 1) /\ Unbroken(t, id, k)
      /\ u.entries = [t.entries EXCEPT ![j] = Occupied(id, s)]
      /\ \/ /\ j \in OccupiedAt(t) /\ t.entries[j].jobId = id
            /\ u.size = t.size /\ u.deletedCount = t.deletedCount
         \/ /\ id \notin Held(t) /\ t.entries[j] = Deleted
            /\ u.size = t.size + 1 /\ u.deletedCount = t.deletedCount - 1
         \/ /\ id \notin Held(t) /\ t.entries[j] = Empty
            /\ u.size = t.size + 1 /\ u.deletedCount = t.deletedCount
  BY DEF Entered
<1>3. j = ProbeAt(t, id, k)
  OBVIOUS
<1> HIDE DEF j
<1>4. OccupiedAt(t) \subseteq DOMAIN t.entries /\ DeletedAt(t) \subseteq DOMAIN t.entries
  BY DEF OccupiedAt, DeletedAt
<1>5. Occupied(id, s).jobId = id /\ Occupied(id, s).state # "Empty"
  BY DEF Occupied
<1>6. ASSUME NEW i \in OccupiedAt(t), i # j PROVE t.entries[i].jobId # id
  <2>1. CASE id \notin Held(t)
    BY <2>1 DEF Held
  <2>2. CASE j \in OccupiedAt(t) /\ t.entries[j].jobId = id
    BY <1>0, <1>6, <2>2 DEF NoIdTwice
  <2> QED
    BY <1>2, <2>1, <2>2
<1>7. NoIdTwice(u)
  <2>1. ASSUME NEW i1 \in OccupiedAt(u), NEW i2 \in OccupiedAt(u),
               u.entries[i1].jobId = u.entries[i2].jobId
        PROVE  i1 = i2
    <3>1. CASE i1 = j
      BY <1>1, <1>4, <1>5, <1>6, <2>1, <3>1
    <3>2. CASE i2 = j
      BY <1>1, <1>4, <1>5, <1>6, <2>1, <3>2
    <3>3. CASE i1 # j /\ i2 # j
      BY <1>0, <1>1, <1>4, <2>1, <3>3 DEF NoIdTwice
    <3> QED
      BY <3>1, <3>2, <3>3
  <2> QED
    BY <2>1 DEF NoIdTwice
<1>8. Reachable(u)
  <2>1. ASSUME NEW i \in OccupiedAt(u)
        PROVE  \E m \in 0..(u.capacity - 1) :
                 ProbeAt(u, u.entries[i].jobId, m) = i /\ Unbroken(u, u.entries[i].jobId, m)
    <3>1. CASE i = j
      <4>1. u.entries[i].jobId = id
        BY <1>1, <1>5, <3>1
      <4>2. ProbeAt(u, id, k) = j /\ Unbroken(u, id, k)
        BY <1>0, <1>1, <1>2, <1>3, <1>5, StaysUnbroken
      <4> QED
        BY <1>1, <1>2, <3>1, <4>1, <4>2
    <3>2. CASE i # j
      <4>1. i \in OccupiedAt(t) /\ u.entries[i] = t.entries[i]
        BY <1>1, <1>4, <2>1, <3>2
      <4>2. t.entries[i] \in EntryType /\ t.entries[i].state = "Occupied"
        BY <1>0, <4>1 DEF TableTyped, OccupiedAt
      <4>3. t.entries[i].jobId \in Ids
        BY <4>2, EntryKinds
      <4>4. PICK m \in 0..(t.capacity - 1) :
              ProbeAt(t, t.entries[i].jobId, m) = i /\ Unbroken(t, t.entries[i].jobId, m)
        BY <1>0, <4>1 DEF Reachable
      <4>5. ProbeAt(u, t.entries[i].jobId, m) = i /\ Unbroken(u, t.entries[i].jobId, m)
        BY <1>0, <1>1, <1>2, <1>5, <4>3, <4>4, StaysUnbroken
      <4> QED
        BY <1>1, <4>1, <4>5
    <3> QED
      BY <3>1, <3>2
  <2> QED
    BY <2>1 DEF Reachable
<1>9. Counted(u) /\ u.size + u.deletedCount <= t.size + t.deletedCount + 1
  <2>1. /\ IsFiniteSet(OccupiedAt(t)) /\ IsFiniteSet(DeletedAt(t))
        /\ Cardinality(OccupiedAt(t)) \in Nat /\ Cardinality(DeletedAt(t)) \in Nat
    BY <1>0, TableFinite
  <2>2. t.size = Cardinality(OccupiedAt(t)) /\ t.deletedCount = Cardinality(DeletedAt(t))
    BY <1>0 DEF Counted
  <2>3. CASE /\ j \in OccupiedAt(t) /\ t.entries[j].jobId = id
             /\ u.size = t.size /\ u.deletedCount = t.deletedCount
    <3>1. j \notin DeletedAt(t)
      BY <2>3 DEF OccupiedAt, DeletedAt, Deleted
    <3>2. OccupiedAt(u) = OccupiedAt(t) /\ DeletedAt(u) = DeletedAt(t)
      BY <1>1, <2>3, <3>1
    <3> QED
      BY <2>1, <2>2, <2>3, <3>2 DEF Counted
  <2>4. CASE /\ id \notin Held(t) /\ t.entries[j] = Deleted
             /\ u.size = t.size + 1 /\ u.deletedCount = t.deletedCount - 1
    <3>1. j \notin OccupiedAt(t) /\ j \in DeletedAt(t)
      BY <1>1, <2>4 DEF OccupiedAt, DeletedAt, Deleted
    <3>2. Cardinality(OccupiedAt(u)) = Cardinality(OccupiedAt(t)) + 1
      BY <1>1, <2>1, <3>1, FS_AddElement
    <3>3. Cardinality(DeletedAt(u)) = Cardinality(DeletedAt(t)) - 1
      BY <1>1, <2>1, <3>1, FS_RemoveElement
    <3> QED
      BY <2>1, <2>2, <2>4, <3>2, <3>3 DEF Counted
  <2>5. CASE /\ id \notin Held(t) /\ t.entries[j] = Empty
             /\ u.size = t.size + 1 /\ u.deletedCount = t.deletedCount
    <3>1. j \notin OccupiedAt(t) /\ j \notin DeletedAt(t)
      BY <1>1, <2>5 DEF OccupiedAt, DeletedAt, Deleted, Empty
    <3>2. Cardinality(OccupiedAt(u)) = Cardinality(OccupiedAt(t)) + 1
      BY <1>1, <2>1, <3>1, FS_AddElement
    <3>3. DeletedAt(u) = DeletedAt(t)
      BY <1>1, <3>1
    <3> QED
      BY <2>1, <2>2, <2>5, <3>2, <3>3 DEF Counted
  <2> QED
    BY <1>2, <2>3, <2>4, <2>5
<1> QED
  BY <1>1, <1>7, <1>8, <1>9 DEF TableOK

(* A new table is in order, and empty.                                      *)
LEMMA NewTableOK ==
  ASSUME NEW cap \in Nat
  PROVE  /\ TableOK(NewTable(cap)) /\ NewTable(cap).capacity = cap
         /\ OccupiedAt(NewTable(cap)) = {} /\ DeletedAt(NewTable(cap)) = {}
         /\ NewTable(cap).size = 0 /\ NewTable(cap).deletedCount = 0
<1> DEFINE t == NewTable(cap)
<1>1. /\ t = [entries |-> t.entries, capacity |-> t.capacity, size |-> t.size,
              deletedCount |-> t.deletedCount]
      /\ t.capacity = cap /\ t.size = 0 /\ t.deletedCount = 0
      /\ t.entries = [i \in 0..(cap - 1) |-> Empty]
  BY DEF NewTable
<1> HIDE DEF t
<1>2. OccupiedAt(t) = {} /\ DeletedAt(t) = {}
  BY <1>1 DEF OccupiedAt, DeletedAt, Empty, Deleted
<1>3. TableTyped(t)
  <2>1. Empty \in EntryType
    BY DEF EntryType
  <2> QED
    BY <1>1, <2>1 DEF TableTyped
<1>4. NoIdTwice(t) /\ Reachable(t)
  BY <1>2 DEF NoIdTwice, Reachable
<1>5. Counted(t)
  BY <1>1, <1>2, FS_EmptySet DEF Counted
<1>6. TableOK(t)
  BY <1>3, <1>4, <1>5 DEF TableOK
<1> QED
  BY <1>1, <1>2, <1>6 DEF t

(* The new tables after the entries below n, from those before: one round   *)
(* of the loop of rehash.                                                   *)
Round(t, n, tables) == UNION {Reinserted(t.entries[n - 1], u) : u \in tables}

(* The loop of rehash is well defined: round n builds on round n - 1.       *)
LEMMA RehashRounds ==
  ASSUME NEW t, t.capacity \in Nat, NEW cap
  PROVE  \E g : /\ g = [n \in 0..t.capacity |->
                         IF n = 0 THEN {NewTable(cap)} ELSE Round(t, n, g[n - 1])]
                /\ Rehash(t, cap) = g[t.capacity]
<1> DEFINE Built(n, g) == g = [i \in 0..n |-> IF i = 0 THEN {NewTable(cap)} ELSE Round(t, i, g[i - 1])]
           Bad == {n \in Nat : ~ \E g : Built(n, g)}
<1>1. ASSUME Bad # {} PROVE FALSE
  <2>1. PICK n \in Bad : \A m \in Bad : n <= m
    BY <1>1, MinIn
  <2>2. n \in Nat /\ ~ \E g : Built(n, g)
    OBVIOUS
  <2>3. CASE n = 0
    <3> DEFINE g == [i \in 0..0 |-> {NewTable(cap)}]
    <3>1. Built(0, g)
      OBVIOUS
    <3> QED
      BY <2>2, <2>3, <3>1
  <2>4. CASE n # 0
    <3>1. n - 1 \in Nat /\ ~(n <= n - 1)
      BY <2>2, <2>4
    <3>a. n - 1 \notin Bad
      BY <2>1, <3>1
    <3>2. PICK g : Built(n - 1, g)
      BY <3>1, <3>a
    <3> DEFINE h == [i \in 0..n |-> IF i = n THEN Round(t, n, g[n - 1]) ELSE g[i]]
    <3>3. ASSUME NEW i \in 0..n
          PROVE  h[i] = IF i = 0 THEN {NewTable(cap)} ELSE Round(t, i, h[i - 1])
      <4>1. CASE i = n
        <5>1. h[n] = Round(t, n, g[n - 1]) /\ h[n - 1] = g[n - 1]
          BY <2>2, <2>4
        <5> QED
          BY <2>4, <4>1, <5>1
      <4>2. CASE i # n
        <5>1. i \in 0..(n - 1) /\ h[i] = g[i]
          BY <2>2, <4>2
        <5>2. g[i] = IF i = 0 THEN {NewTable(cap)} ELSE Round(t, i, g[i - 1])
          BY <3>2, <5>1
        <5>3. i # 0 => h[i - 1] = g[i - 1]
          BY <2>2, <5>1
        <5> QED
          BY <5>1, <5>2, <5>3
      <4> QED
        BY <4>1, <4>2
    <3>4. Built(n, h)
      <4>1. h = [i \in 0..n |-> h[i]]
        OBVIOUS
      <4> HIDE DEF h
      <4> QED
        BY <3>3, <4>1
    <3> QED
      BY <2>2, <3>4
  <2> QED
    BY <2>3, <2>4
<1>2. PICK g : Built(t.capacity, g)
  BY <1>1
<1> DEFINE into == CHOOSE f : Built(t.capacity, f)
<1>3. Built(t.capacity, into)
  BY <1>2, Zenon
<1>4. Rehash(t, cap) = into[t.capacity]
  BY DEF Rehash, Round
<1> HIDE DEF into
<1> QED
  BY <1>3, <1>4

(* What rehash has carried over from the entries of t below n: exactly the  *)
(* occupied ones.                                                           *)
Below(t, n) == OccupiedAt(t) \cap 0..(n - 1)

Carried(t, n, u) ==
  /\ TableOK(u) /\ u.deletedCount = 0 /\ u.size <= Cardinality(Below(t, n))
  /\ \A i \in OccupiedAt(u) : \E m \in Below(t, n) : t.entries[m] = u.entries[i]
  /\ \A m \in Below(t, n) : \E i \in OccupiedAt(u) : u.entries[i] = t.entries[m]

(* Before the first round the new table holds nothing.                      *)
LEMMA NothingCarried ==
  ASSUME NEW t, NEW cap \in Nat
  PROVE  Carried(t, 0, NewTable(cap))
<1> DEFINE u == NewTable(cap)
<1>1. Below(t, 0) = {} /\ Cardinality(Below(t, 0)) = 0
  BY FS_EmptySet DEF Below
<1>2. TableOK(u) /\ u.deletedCount = 0 /\ u.size = 0 /\ OccupiedAt(u) = {}
  BY NewTableOK
<1> HIDE DEF u
<1>3. Carried(t, 0, u)
  BY <1>1, <1>2 DEF Carried
<1> QED
  BY <1>3 DEF u

(* One round carries one entry over: its id is not in the new table yet.    *)
LEMMA RoundCarries ==
  ASSUME NEW t, TableOK(t), NEW n \in 1..t.capacity, NEW u, Carried(t, n - 1, u),
         NEW v \in Reinserted(t.entries[n - 1], u)
  PROVE  Carried(t, n, v) /\ v.capacity = u.capacity
<1>0. /\ TableTyped(t) /\ NoIdTwice(t) /\ t.capacity \in Nat
      /\ t.entries \in [0..(t.capacity - 1) -> EntryType]
  BY DEF TableOK, TableTyped
<1>1. /\ TableOK(u) /\ u.deletedCount = 0 /\ u.size <= Cardinality(Below(t, n - 1))
      /\ \A i \in OccupiedAt(u) : \E m \in Below(t, n - 1) : t.entries[m] = u.entries[i]
      /\ \A m \in Below(t, n - 1) : \E i \in OccupiedAt(u) : u.entries[i] = t.entries[m]
  BY DEF Carried
<1>2. n \in Nat /\ n - 1 \in 0..(t.capacity - 1) /\ n - 1 \in DOMAIN t.entries
  BY <1>0
<1> DEFINE e == t.entries[n - 1]
<1>3. CASE e.state # "Occupied"
  <2>1. v = u
    BY <1>3 DEF Reinserted
  <2>2. n - 1 \notin OccupiedAt(t)
    BY <1>3 DEF OccupiedAt
  <2>3. Below(t, n) = Below(t, n - 1)
    BY <1>0, <1>2, <2>2 DEF Below, OccupiedAt
  <2> QED
    BY <2>1, <2>3 DEF Carried
<1>4. CASE e.state = "Occupied"
  <2>1. e.jobId \in Ids /\ e.slotIndex \in SlotIndexes /\ e = Occupied(e.jobId, e.slotIndex)
    BY <1>0, <1>2, <1>4, EntryKinds
  <2>2. TableTyped(u) /\ Reachable(u)
    BY <1>1 DEF TableOK
  <2>3. v \in InsertOrAssign(u, e.jobId, e.slotIndex)
    BY <1>4 DEF Reinserted
  <2>4. PICK k : Entered(u, e.jobId, e.slotIndex, k, v)
    BY <2>1, <2>2, <2>3, InsertIs
  <2> DEFINE j == ProbeAt(u, e.jobId, k)
  <2>5. TableOK(v)
    BY <1>1, <2>1, <2>4, EnteredOK
  <2>6. /\ v.capacity = u.capacity
        /\ j \in DOMAIN u.entries /\ DOMAIN v.entries = DOMAIN u.entries
        /\ v.entries[j] = e
        /\ \A i \in DOMAIN u.entries : i # j => v.entries[i] = u.entries[i]
        /\ OccupiedAt(v) = OccupiedAt(u) \cup {j}
    BY <2>1, <2>2, <2>4, EnteredShape
  <2>7. n - 1 \in OccupiedAt(t)
    BY <1>2, <1>4 DEF OccupiedAt
  <2>8. Below(t, n) = Below(t, n - 1) \cup {n - 1} /\ n - 1 \notin Below(t, n - 1)
    BY <1>0, <1>2, <2>7 DEF Below, OccupiedAt
  <2>9. Below(t, n - 1) \subseteq OccupiedAt(t)
    BY DEF Below
  <2>10. ASSUME NEW i \in OccupiedAt(u) PROVE u.entries[i].jobId # e.jobId
    <3>1. PICK m \in Below(t, n - 1) : t.entries[m] = u.entries[i]
      BY <1>1
    <3>2. m # n - 1 /\ m \in OccupiedAt(t)
      BY <2>8, <2>9
    <3> QED
      BY <1>0, <2>7, <3>1, <3>2 DEF NoIdTwice
  <2>11. e.jobId \notin Held(u) /\ j \notin OccupiedAt(u)
    <3>1. e.jobId \notin Held(u)
      BY <2>10 DEF Held
    <3>2. ~(j \in OccupiedAt(u) /\ u.entries[j].jobId = e.jobId)
      BY <2>10
    <3>3. u.entries[j] = Deleted \/ u.entries[j] = Empty
      BY <2>4, <3>2 DEF Entered
    <3> QED
      BY <3>1, <3>3 DEF OccupiedAt, Deleted, Empty
  <2>12. v.size = u.size + 1 /\ v.deletedCount = 0
    <3>1. DeletedAt(u) = {}
      <4>1. Cardinality(DeletedAt(u)) = 0 /\ IsFiniteSet(DeletedAt(u))
        BY <1>1, <2>2, TableFinite DEF TableOK, Counted
      <4> QED
        BY <4>1, FS_EmptySet
    <3>2. u.entries[j] # Deleted
      BY <2>6, <3>1 DEF DeletedAt
    <3> QED
      BY <1>1, <2>4, <2>11, <3>2 DEF Entered
  <2>13. v.size <= Cardinality(Below(t, n))
    <3>1. IsFiniteSet(OccupiedAt(t))
      BY <1>0, TableFinite
    <3>2. IsFiniteSet(Below(t, n - 1))
      BY <2>9, <3>1, FS_Subset
    <3>3. Cardinality(Below(t, n)) = Cardinality(Below(t, n - 1)) + 1
      BY <2>8, <3>2, FS_AddElement
    <3>4. Cardinality(Below(t, n - 1)) \in Nat
      BY <3>2, FS_CardinalityType
    <3>5. u.size \in Nat
      BY <1>1, <2>2, TableFinite DEF TableOK, Counted
    <3> QED
      BY <1>1, <2>12, <3>3, <3>4, <3>5
  <2>14. OccupiedAt(u) \subseteq DOMAIN u.entries
    BY DEF OccupiedAt
  <2> HIDE DEF j, e
  <2>15. ASSUME NEW i \in OccupiedAt(v) PROVE \E m \in Below(t, n) : t.entries[m] = v.entries[i]
    <3>1. CASE i = j
      BY <2>6, <2>8, <3>1 DEF e
    <3>2. CASE i # j
      BY <1>1, <2>6, <2>8, <2>14, <2>15, <3>2
    <3> QED
      BY <3>1, <3>2
  <2>16. ASSUME NEW m \in Below(t, n) PROVE \E i \in OccupiedAt(v) : v.entries[i] = t.entries[m]
    <3>1. CASE m = n - 1
      BY <2>6, <3>1 DEF e
    <3>2. CASE m # n - 1
      <4>1. PICK i \in OccupiedAt(u) : u.entries[i] = t.entries[m]
        BY <1>1, <2>8, <2>16, <3>2
      <4> QED
        BY <2>6, <2>11, <2>14, <4>1
    <3> QED
      BY <3>1, <3>2
  <2> QED
    BY <2>5, <2>6, <2>12, <2>13, <2>15, <2>16 DEF Carried
<1> QED
  BY <1>3, <1>4

(* rehash carries every entry over, and nothing else.                       *)
LEMMA RehashCarries ==
  ASSUME NEW t, TableOK(t), NEW cap \in Nat, NEW u \in Rehash(t, cap)
  PROVE  Carried(t, t.capacity, u) /\ u.capacity = cap
<1>0. t.capacity \in Nat
  BY DEF TableOK, TableTyped
<1>1. PICK g : /\ g = [n \in 0..t.capacity |->
                        IF n = 0 THEN {NewTable(cap)} ELSE Round(t, n, g[n - 1])]
               /\ Rehash(t, cap) = g[t.capacity]
  BY <1>0, RehashRounds
<1> DEFINE Good(n) == \A v \in g[n] : Carried(t, n, v) /\ v.capacity = cap
           Bad == {n \in 0..t.capacity : ~Good(n)}
<1>2. ASSUME Bad # {} PROVE FALSE
  <2>0. Bad \subseteq Nat
    BY <1>0
  <2> HIDE DEF Bad
  <2>1. PICK n \in Bad : \A m \in Bad : n <= m
    BY <1>2, <2>0, MinIn
  <2> USE DEF Bad
  <2>2. n \in 0..t.capacity /\ ~Good(n)
    OBVIOUS
  <2>3. CASE n = 0
    <3>1. g[0] = {NewTable(cap)}
      BY <1>0, <1>1
    <3>2. Carried(t, 0, NewTable(cap))
      BY NothingCarried
    <3> QED
      BY <2>2, <2>3, <3>1, <3>2, NewTableOK
  <2>4. CASE n # 0
    <3>1. n - 1 \in 0..t.capacity /\ ~(n <= n - 1) /\ n \in 1..t.capacity
      BY <1>0, <2>2, <2>4
    <3>2. n - 1 \notin Bad
      BY <2>1, <3>1
    <3>3. Good(n - 1)
      BY <3>1, <3>2
    <3>4. g[n] = Round(t, n, g[n - 1])
      BY <1>1, <2>2, <2>4
    <3>5. ASSUME NEW v \in g[n] PROVE Carried(t, n, v) /\ v.capacity = cap
      <4>1. PICK w \in g[n - 1] : v \in Reinserted(t.entries[n - 1], w)
        BY <3>4, <3>5 DEF Round
      <4>2. Carried(t, n - 1, w) /\ w.capacity = cap
        BY <3>3
      <4> QED
        BY <3>1, <4>1, <4>2, RoundCarries
    <3> QED
      BY <2>2, <3>5
  <2> QED
    BY <2>3, <2>4
<1>3. Good(t.capacity)
  BY <1>0, <1>2
<1> QED
  BY <1>1, <1>3

(* The function with the slot of an id set, and without the id.             *)
Updated(f, id, s) == [x \in DOMAIN f \cup {id} |-> IF x = id THEN s ELSE f[x]]
Without(f, id)    == [x \in DOMAIN f \ {id} |-> f[x]]

(* What SlotOf reads off the entries, when no id has two of them.           *)
LEMMA SlotOfIs ==
  ASSUME NEW t, NoIdTwice(t)
  PROVE  /\ SlotOf(t) = [id \in Held(t) |-> SlotOf(t)[id]] /\ DOMAIN SlotOf(t) = Held(t)
         /\ \A i \in OccupiedAt(t) : SlotOf(t)[t.entries[i].jobId] = t.entries[i].slotIndex
<1>1. SlotOf(t) = [id \in Held(t) |-> SlotOf(t)[id]] /\ DOMAIN SlotOf(t) = Held(t)
  BY DEF SlotOf, Held
<1>2. ASSUME NEW i \in OccupiedAt(t)
      PROVE  SlotOf(t)[t.entries[i].jobId] = t.entries[i].slotIndex
  <2> DEFINE id == t.entries[i].jobId
             c  == CHOOSE n \in OccupiedAt(t) : t.entries[n].jobId = id
  <2>1. c \in OccupiedAt(t) /\ t.entries[c].jobId = id
    OBVIOUS
  <2>2. c = i
    BY <2>1 DEF NoIdTwice
  <2>3. id \in Held(t)
    BY DEF Held
  <2>4. SlotOf(t)[id] = t.entries[c].slotIndex
    BY <2>3 DEF SlotOf, Held
  <2> QED
    BY <2>2, <2>4
<1> QED
  BY <1>1, <1>2

(* A rehashed table stands for the same function.                           *)
LEMMA CarriedSlots ==
  ASSUME NEW t, TableOK(t), NEW u, Carried(t, t.capacity, u)
  PROVE  SlotOf(u) = SlotOf(t)
<1>0. NoIdTwice(t) /\ NoIdTwice(u) /\ DOMAIN t.entries = 0..(t.capacity - 1)
  BY DEF Carried, TableOK, TableTyped
<1>1. Below(t, t.capacity) = OccupiedAt(t)
  BY <1>0 DEF Below, OccupiedAt
<1>2. /\ \A i \in OccupiedAt(u) : \E m \in OccupiedAt(t) : t.entries[m] = u.entries[i]
      /\ \A m \in OccupiedAt(t) : \E i \in OccupiedAt(u) : u.entries[i] = t.entries[m]
  BY <1>1 DEF Carried
<1>3. Held(u) = Held(t)
  BY <1>2 DEF Held
<1>4. ASSUME NEW id \in Held(t) PROVE SlotOf(u)[id] = SlotOf(t)[id]
  <2>1. PICK m \in OccupiedAt(t) : t.entries[m].jobId = id
    BY DEF Held
  <2>2. PICK i \in OccupiedAt(u) : u.entries[i] = t.entries[m]
    BY <1>2
  <2>3. SlotOf(t)[t.entries[m].jobId] = t.entries[m].slotIndex
    BY <1>0, SlotOfIs
  <2>4. SlotOf(u)[u.entries[i].jobId] = u.entries[i].slotIndex
    BY <1>0, SlotOfIs
  <2> QED
    BY <2>1, <2>2, <2>3, <2>4
<1>5. /\ SlotOf(u) = [id \in Held(u) |-> SlotOf(u)[id]]
      /\ SlotOf(t) = [id \in Held(t) |-> SlotOf(t)[id]]
  BY <1>0, SlotOfIs
<1>6. [id \in Held(t) |-> SlotOf(u)[id]] = [id \in Held(t) |-> SlotOf(t)[id]]
  BY <1>4
<1> QED
  BY <1>3, <1>5, <1>6

(* Entering an id updates the function at that id alone.                    *)
LEMMA EnteredSlots ==
  ASSUME NEW t, TableOK(t), NEW id \in Ids, NEW s \in SlotIndexes, NEW k, NEW u,
         Entered(t, id, s, k, u)
  PROVE  SlotOf(u) = Updated(SlotOf(t), id, s)
<1> DEFINE j == ProbeAt(t, id, k)
<1>0. TableTyped(t) /\ NoIdTwice(t) /\ NoIdTwice(u)
  BY EnteredOK DEF TableOK
<1>1. /\ j \in DOMAIN t.entries /\ DOMAIN u.entries = DOMAIN t.entries
      /\ u.entries[j] = Occupied(id, s)
      /\ \A i \in DOMAIN t.entries : i # j => u.entries[i] = t.entries[i]
      /\ OccupiedAt(u) = OccupiedAt(t) \cup {j}
  BY <1>0, EnteredShape
<1>2. \/ j \in OccupiedAt(t) /\ t.entries[j].jobId = id
      \/ j \notin OccupiedAt(t)
  <2>1. \/ j \in OccupiedAt(t) /\ t.entries[j].jobId = id
        \/ t.entries[j] = Deleted \/ t.entries[j] = Empty
    BY DEF Entered
  <2> QED
    BY <2>1 DEF OccupiedAt, Deleted, Empty
<1>3. Occupied(id, s).jobId = id /\ Occupied(id, s).slotIndex = s
  BY DEF Occupied
<1>4. OccupiedAt(t) \subseteq DOMAIN t.entries
  BY DEF OccupiedAt
<1> HIDE DEF j
<1>5. ASSUME NEW x PROVE x \in Held(u) <=> x \in Held(t) \cup {id}
  <2>1. ASSUME x \in Held(u) PROVE x \in Held(t) \cup {id}
    <3>1. PICK i \in OccupiedAt(u) : u.entries[i].jobId = x
      BY <2>1 DEF Held
    <3>2. CASE i = j
      BY <1>1, <1>3, <3>1, <3>2
    <3>3. CASE i # j
      BY <1>1, <1>4, <3>1, <3>3 DEF Held
    <3> QED
      BY <3>2, <3>3
  <2>2. id \in Held(u)
    BY <1>1, <1>3 DEF Held
  <2>3. ASSUME x \in Held(t), x # id PROVE x \in Held(u)
    <3>1. PICK i \in OccupiedAt(t) : t.entries[i].jobId = x
      BY <2>3 DEF Held
    <3>2. i # j
      BY <1>2, <2>3, <3>1
    <3> QED
      BY <1>1, <1>4, <3>1, <3>2 DEF Held
  <2> QED
    BY <2>1, <2>2, <2>3
<1>6. Held(u) = Held(t) \cup {id}
  BY <1>5
<1>7. SlotOf(u)[id] = s
  <2>1. j \in OccupiedAt(u)
    BY <1>1
  <2>2. SlotOf(u)[u.entries[j].jobId] = u.entries[j].slotIndex
    BY <1>0, <2>1, SlotOfIs
  <2> QED
    BY <1>1, <1>3, <2>2
<1>8. ASSUME NEW x \in Held(t), x # id PROVE SlotOf(u)[x] = SlotOf(t)[x]
  <2>1. PICK i \in OccupiedAt(t) : t.entries[i].jobId = x
    BY DEF Held
  <2>2. i # j
    BY <1>2, <1>8, <2>1
  <2>3. u.entries[i] = t.entries[i] /\ i \in OccupiedAt(u)
    BY <1>1, <1>4, <2>2
  <2>4. SlotOf(t)[t.entries[i].jobId] = t.entries[i].slotIndex
    BY <1>0, SlotOfIs
  <2>5. SlotOf(u)[u.entries[i].jobId] = u.entries[i].slotIndex
    BY <1>0, <2>3, SlotOfIs
  <2> QED
    BY <2>1, <2>3, <2>4, <2>5
<1>9. SlotOf(u) = [x \in Held(u) |-> SlotOf(u)[x]] /\ DOMAIN SlotOf(t) = Held(t)
  BY <1>0, SlotOfIs
<1>10. [x \in Held(t) \cup {id} |-> SlotOf(u)[x]]
         = [x \in Held(t) \cup {id} |-> IF x = id THEN s ELSE SlotOf(t)[x]]
  BY <1>7, <1>8
<1> QED
  BY <1>6, <1>9, <1>10 DEF Updated

Tombstoned(t, j) == [t EXCEPT !.entries[j] = Deleted, !.size = @ - 1, !.deletedCount = @ + 1]

(* Replacing the entry of an id by a tombstone keeps the table in order and *)
(* takes that id, and no other, out of the function.                        *)
LEMMA RemovedOK ==
  ASSUME NEW t, TableOK(t), NEW id \in Ids, NEW j \in OccupiedAt(t), t.entries[j].jobId = id,
         NEW u, u = Tombstoned(t, j)
  PROVE  /\ TableOK(u) /\ u.capacity = t.capacity
         /\ u.size + u.deletedCount = t.size + t.deletedCount
         /\ SlotOf(u) = Without(SlotOf(t), id)
<1>0. TableTyped(t) /\ NoIdTwice(t) /\ Reachable(t) /\ Counted(t)
  BY DEF TableOK
<1>1. /\ t = [entries |-> t.entries, capacity |-> t.capacity, size |-> t.size,
              deletedCount |-> t.deletedCount]
      /\ t.capacity \in Nat /\ t.entries \in [0..(t.capacity - 1) -> EntryType]
  BY <1>0 DEF TableTyped
<1>2. /\ u.entries = [t.entries EXCEPT ![j] = Deleted] /\ u.capacity = t.capacity
      /\ u.size = t.size - 1 /\ u.deletedCount = t.deletedCount + 1
      /\ u = [entries |-> u.entries, capacity |-> u.capacity, size |-> u.size,
              deletedCount |-> u.deletedCount]
  BY <1>1 DEF Tombstoned
<1>3. OccupiedAt(t) \subseteq DOMAIN t.entries /\ DOMAIN t.entries = 0..(t.capacity - 1)
  BY <1>1 DEF OccupiedAt
<1>4. /\ u.entries[j] = Deleted /\ DOMAIN u.entries = DOMAIN t.entries
      /\ \A i \in DOMAIN t.entries : i # j => u.entries[i] = t.entries[i]
  BY <1>1, <1>2, <1>3
<1>5. TableTyped(u)
  <2>1. Deleted \in EntryType
    BY DEF EntryType
  <2>2. u.entries \in [0..(t.capacity - 1) -> EntryType]
    BY <1>1, <1>2, <2>1
  <2> QED
    BY <1>1, <1>2, <2>2 DEF TableTyped
<1>6. OccupiedAt(u) = OccupiedAt(t) \ {j} /\ DeletedAt(u) = DeletedAt(t) \cup {j} /\ j \notin DeletedAt(t)
  <2>1. Deleted.state # "Occupied" /\ Deleted.state # "Empty" /\ t.entries[j].state = "Occupied"
    BY DEF Deleted, OccupiedAt
  <2> QED
    BY <1>3, <1>4, <2>1 DEF OccupiedAt, DeletedAt
<1>7. NoIdTwice(u)
  BY <1>0, <1>3, <1>4, <1>6 DEF NoIdTwice
<1>8. Reachable(u)
  <2>1. ASSUME NEW i \in OccupiedAt(u)
        PROVE  \E m \in 0..(u.capacity - 1) :
                 ProbeAt(u, u.entries[i].jobId, m) = i /\ Unbroken(u, u.entries[i].jobId, m)
    <3>1. i \in OccupiedAt(t) /\ u.entries[i] = t.entries[i]
      BY <1>3, <1>4, <1>6
    <3>2. t.entries[i] \in EntryType /\ t.entries[i].state = "Occupied"
      BY <1>1, <3>1 DEF OccupiedAt
    <3>3. t.entries[i].jobId \in Ids
      BY <3>2, EntryKinds
    <3>4. PICK m \in 0..(t.capacity - 1) :
            ProbeAt(t, t.entries[i].jobId, m) = i /\ Unbroken(t, t.entries[i].jobId, m)
      BY <1>0, <3>1 DEF Reachable
    <3>5. Deleted.state # "Empty"
      BY DEF Deleted
    <3>6. ProbeAt(u, t.entries[i].jobId, m) = i /\ Unbroken(u, t.entries[i].jobId, m)
      BY <1>0, <1>2, <3>3, <3>4, <3>5, StaysUnbroken
    <3> QED
      BY <1>2, <3>1, <3>6
  <2> QED
    BY <2>1 DEF Reachable
<1>9. Counted(u) /\ u.size + u.deletedCount = t.size + t.deletedCount
  <2>1. /\ IsFiniteSet(OccupiedAt(t)) /\ IsFiniteSet(DeletedAt(t))
        /\ Cardinality(OccupiedAt(t)) \in Nat /\ Cardinality(DeletedAt(t)) \in Nat
    BY <1>0, TableFinite
  <2>2. t.size = Cardinality(OccupiedAt(t)) /\ t.deletedCount = Cardinality(DeletedAt(t))
    BY <1>0 DEF Counted
  <2>3. Cardinality(OccupiedAt(u)) = Cardinality(OccupiedAt(t)) - 1
    BY <1>6, <2>1, FS_RemoveElement
  <2>4. Cardinality(DeletedAt(u)) = Cardinality(DeletedAt(t)) + 1
    BY <1>6, <2>1, FS_AddElement
  <2> QED
    BY <1>2, <2>1, <2>2, <2>3, <2>4 DEF Counted
<1>10. SlotOf(u) = Without(SlotOf(t), id)
  <2>1. ASSUME NEW i \in OccupiedAt(t)
        PROVE  t.entries[i].jobId # id <=> i \in OccupiedAt(u)
    BY <1>0, <1>6 DEF NoIdTwice
  <2>2. \A i \in OccupiedAt(u) : i \in OccupiedAt(t) /\ u.entries[i] = t.entries[i]
    BY <1>3, <1>4, <1>6
  <2>3. Held(u) = Held(t) \ {id}
    BY <2>1, <2>2 DEF Held
  <2>4. ASSUME NEW x \in Held(u) PROVE SlotOf(u)[x] = SlotOf(t)[x]
    <3>1. PICK i \in OccupiedAt(u) : u.entries[i].jobId = x
      BY DEF Held
    <3>2. SlotOf(u)[u.entries[i].jobId] = u.entries[i].slotIndex
      BY <1>7, SlotOfIs
    <3>3. SlotOf(t)[t.entries[i].jobId] = t.entries[i].slotIndex
      BY <1>0, <2>2, SlotOfIs
    <3> QED
      BY <2>2, <3>1, <3>2, <3>3
  <2>5. SlotOf(u) = [x \in Held(u) |-> SlotOf(u)[x]] /\ DOMAIN SlotOf(t) = Held(t)
    BY <1>0, <1>7, SlotOfIs
  <2>6. [x \in Held(u) |-> SlotOf(u)[x]] = [x \in Held(u) |-> SlotOf(t)[x]]
    BY <2>4
  <2> QED
    BY <2>3, <2>5, <2>6 DEF Without
<1> QED
  BY <1>2, <1>5, <1>7, <1>8, <1>9, <1>10 DEF TableOK

(* Less than seven tenths of a table are in use, with room to spare for one *)
(* more entry when a set() is about to make it.                             *)
Sparse(t) == t.capacity > 0 => 10 * (t.size + t.deletedCount) < 7 * t.capacity
Roomy(t)  == t.capacity > 1 /\ 10 * (t.size + t.deletedCount + 1) < 7 * t.capacity

IndexInv == TableOK(index) /\ Sparse(index) /\ index.capacity # 1

(* The counters of a table are numbers.                                     *)
LEMMA CountersNat ==
  ASSUME NEW t, TableOK(t)
  PROVE  t.size \in Nat /\ t.deletedCount \in Nat /\ t.capacity \in Nat
  BY TableFinite DEF TableOK, Counted, TableTyped

(* ensureCapacityForInsert makes room and keeps the function.               *)
LEMMA EnsureRoom ==
  ASSUME NEW t, TableOK(t), Sparse(t), t.capacity # 1,
         NEW memory, NEW v \in EnsureCapacityForInsert(t, memory)
  PROVE  TableOK(v) /\ Roomy(v) /\ SlotOf(v) = SlotOf(t)
<1> DEFINE full == t.capacity = 0 \/ (t.size + t.deletedCount + 1) * 10 >= t.capacity * 7
<1>0. t.size \in Nat /\ t.deletedCount \in Nat /\ t.capacity \in Nat
  BY CountersNat
<1>1. ASSUME NEW cap \in Nat, v \in Rehash(t, cap)
      PROVE  /\ TableOK(v) /\ v.capacity = cap /\ SlotOf(v) = SlotOf(t)
             /\ v.size \in Nat /\ v.size <= t.size /\ v.deletedCount = 0
  <2>1. Carried(t, t.capacity, v) /\ v.capacity = cap
    BY <1>1, RehashCarries
  <2>2. TableOK(v) /\ v.deletedCount = 0 /\ v.size <= Cardinality(Below(t, t.capacity))
    BY <2>1 DEF Carried
  <2>3. Below(t, t.capacity) = OccupiedAt(t)
    <3>1. DOMAIN t.entries = 0..(t.capacity - 1)
      BY DEF TableOK, TableTyped
    <3> QED
      BY <3>1 DEF Below, OccupiedAt
  <2>4. t.size = Cardinality(OccupiedAt(t))
    BY DEF TableOK, Counted
  <2>5. SlotOf(v) = SlotOf(t)
    BY <2>1, CarriedSlots
  <2> QED
    BY CountersNat, <2>2, <2>3, <2>4, <2>1, <2>5
<1>2. CASE full
  <2>1. WantedCapacity(t) = NextCapacity(t.capacity)
    BY <1>2 DEF WantedCapacity
  <2>2. FirstCapacity \in Nat /\ FirstCapacity > 1
    BY IndexAssumption
  <2>3. CASE t.capacity = 0
    <3>1. WantedCapacity(t) = FirstCapacity
      BY <2>1, <2>3 DEF NextCapacity
    <3>2. v \in Rehash(t, FirstCapacity)
      BY <2>2, <3>1 DEF EnsureCapacityForInsert
    <3>3. /\ TableOK(v) /\ v.capacity = FirstCapacity /\ SlotOf(v) = SlotOf(t)
          /\ v.size \in Nat /\ v.size <= t.size /\ v.deletedCount = 0
      BY <1>1, <2>2, <3>2
    <3>4. t.size = 0
      <4>1. OccupiedAt(t) = {}
        BY <2>3 DEF OccupiedAt, TableOK, TableTyped
      <4> QED
        BY <4>1, FS_EmptySet DEF TableOK, Counted
    <3>5. v.size = 0
      BY <1>0, <3>3, <3>4
    <3> QED
      BY <2>2, <3>3, <3>5 DEF Roomy
  <2>4. CASE t.capacity # 0
    <3>1. WantedCapacity(t) = 2 * t.capacity /\ 2 * t.capacity \in Nat /\ 2 * t.capacity # 0
      BY <1>0, <2>1, <2>4 DEF NextCapacity
    <3>2. v \in Rehash(t, 2 * t.capacity)
      BY <3>1 DEF EnsureCapacityForInsert
    <3>3. /\ TableOK(v) /\ v.capacity = 2 * t.capacity /\ SlotOf(v) = SlotOf(t)
          /\ v.size \in Nat /\ v.size <= t.size /\ v.deletedCount = 0
      BY <1>1, <3>1, <3>2
    <3>4. 10 * (t.size + t.deletedCount) < 7 * t.capacity /\ t.capacity > 1
      BY <1>0, <2>4 DEF Sparse
    <3>5. 10 * (v.size + v.deletedCount + 1) < 7 * v.capacity /\ v.capacity > 1
      BY <1>0, <3>3, <3>4
    <3> QED
      BY <3>3, <3>5 DEF Roomy
  <2> QED
    BY <2>3, <2>4
<1>3. CASE ~full
  <2>1. /\ t.capacity > 1
        /\ 10 * (t.size + t.deletedCount + 1) < 7 * t.capacity
    BY <1>0, <1>3
  <2>2. CASE t.deletedCount > t.size
    <3>1. WantedCapacity(t) = t.capacity /\ t.capacity # 0
      BY <1>0, <1>3, <2>2 DEF WantedCapacity
    <3>2. v \in Rehash(t, t.capacity)
      BY <3>1 DEF EnsureCapacityForInsert
    <3>3. /\ TableOK(v) /\ v.capacity = t.capacity /\ SlotOf(v) = SlotOf(t)
          /\ v.size \in Nat /\ v.size <= t.size /\ v.deletedCount = 0
      BY <1>0, <1>1, <3>2
    <3>4. 10 * (v.size + v.deletedCount + 1) < 7 * v.capacity /\ v.capacity > 1
      BY <1>0, <2>1, <3>3
    <3> QED
      BY <3>3, <3>4 DEF Roomy
  <2>3. CASE ~(t.deletedCount > t.size)
    <3>1. WantedCapacity(t) = 0
      BY <1>3, <2>3 DEF WantedCapacity
    <3>2. v = t
      BY <3>1 DEF EnsureCapacityForInsert
    <3> QED
      BY <2>1, <3>2 DEF Roomy
  <2> QED
    BY <2>2, <2>3
<1> QED
  BY <1>2, <1>3

(* The entries in use are the occupied and the deleted ones.                *)
LEMMA UsedCount ==
  ASSUME NEW t, TableOK(t)
  PROVE  Cardinality({i \in DOMAIN t.entries : t.entries[i] # Empty}) = t.size + t.deletedCount
<1>1. TableTyped(t) /\ Counted(t)
  BY DEF TableOK
<1> DEFINE used == {i \in DOMAIN t.entries : t.entries[i] # Empty}
<1>2. used = OccupiedAt(t) \cup DeletedAt(t)
  <2>1. ASSUME NEW i \in DOMAIN t.entries
        PROVE  i \in used <=> i \in OccupiedAt(t) \cup DeletedAt(t)
    <3>1. t.entries[i] \in EntryType
      BY <1>1 DEF TableTyped
    <3> QED
      BY <3>1, EntryKinds DEF OccupiedAt, DeletedAt
  <2> QED
    BY <2>1 DEF OccupiedAt, DeletedAt
<1> HIDE DEF used
<1>3. OccupiedAt(t) \cap DeletedAt(t) = {}
  BY DEF OccupiedAt, DeletedAt, Deleted
<1>4. /\ IsFiniteSet(OccupiedAt(t)) /\ IsFiniteSet(DeletedAt(t))
      /\ Cardinality(OccupiedAt(t)) \in Nat /\ Cardinality(DeletedAt(t)) \in Nat
  BY <1>1, TableFinite
<1>5. Cardinality(OccupiedAt(t) \cup DeletedAt(t))
        = Cardinality(OccupiedAt(t)) + Cardinality(DeletedAt(t))
            - Cardinality(OccupiedAt(t) \cap DeletedAt(t))
  BY <1>4, FS_Union
<1>6. Cardinality(OccupiedAt(t) \cap DeletedAt(t)) = 0
  BY <1>3, FS_EmptySet
<1>7. Cardinality(used) = Cardinality(OccupiedAt(t)) + Cardinality(DeletedAt(t))
  BY <1>2, <1>4, <1>5, <1>6
<1> QED
  BY <1>1, <1>7 DEF Counted, used

(* A table with fewer entries in use than it has, has an empty one.         *)
LEMMA EmptyEntry ==
  ASSUME NEW t, TableOK(t), t.size + t.deletedCount < t.capacity
  PROVE  \E i \in 0..(t.capacity - 1) : t.entries[i] = Empty
<1>0. t.size \in Nat /\ t.deletedCount \in Nat /\ t.capacity \in Nat
  BY CountersNat
<1>1. DOMAIN t.entries = 0..(t.capacity - 1)
  BY DEF TableOK, TableTyped
<1>2. ASSUME \A i \in 0..(t.capacity - 1) : t.entries[i] # Empty PROVE FALSE
  <2>1. {i \in DOMAIN t.entries : t.entries[i] # Empty} = 0..(t.capacity - 1)
    BY <1>1, <1>2
  <2>2. Cardinality(0..(t.capacity - 1)) = t.capacity
    <3>1. 0 \in Int /\ t.capacity - 1 \in Int /\ ~(0 > t.capacity - 1)
      BY <1>0
    <3>2. Cardinality(0..(t.capacity - 1)) = (t.capacity - 1) - 0 + 1
      BY <3>1, FS_Interval
    <3> QED
      BY <1>0, <3>2
  <2>3. Cardinality(0..(t.capacity - 1)) = t.size + t.deletedCount
    BY <2>1, UsedCount
  <2> QED
    BY <1>0, <2>2, <2>3
<1> QED
  BY <1>2

(* Linear probing comes to every entry.                                     *)
LEMMA ProbesEverywhere ==
  ASSUME NEW c \in Nat, NEW h \in 0..(c - 1), NEW i \in 0..(c - 1)
  PROVE  \E k \in 0..(c - 1) : (h + k) % c = i
<1>1. CASE h <= i
  <2>1. i - h \in 0..(c - 1) /\ h + (i - h) = i
    BY <1>1
  <2>2. i % c = i
    OBVIOUS
  <2> QED
    BY <2>1, <2>2
<1>2. CASE i < h
  <2>1. i - h + c \in 0..(c - 1) /\ h + (i - h + c) = i + c
    BY <1>2
  <2>2. (i + c) % c = i
    OBVIOUS
  <2> QED
    BY <2>1, <2>2
<1> QED
  BY <1>1, <1>2

(* insertOrAssign does not fail on a table with an empty entry.             *)
LEMMA InsertSucceeds ==
  ASSUME NEW t, TableOK(t), t.size + t.deletedCount < t.capacity, NEW id \in Ids, NEW s
  PROVE  InsertOrAssign(t, id, s) # {}
<1>0. t.size \in Nat /\ t.deletedCount \in Nat /\ t.capacity \in Nat /\ t.capacity > 0
  BY CountersNat
<1>1. PICK i \in 0..(t.capacity - 1) : t.entries[i] = Empty
  BY EmptyEntry
<1>2. Hash(id, t.capacity) \in 0..(t.capacity - 1)
  <2>1. id * 31153 \in Nat
    BY IndexAssumption
  <2> QED
    BY <1>0, <2>1, ModRange DEF Hash
<1>3. PICK k \in 0..(t.capacity - 1) : ProbeAt(t, id, k) = i
  BY <1>0, <1>2, ProbesEverywhere DEF ProbeAt
<1>4. k \in ProbesEnd(t, id)
  BY <1>1, <1>3 DEF ProbesEnd, Probed, Empty
<1> QED
  BY <1>4 DEF InsertOrAssign

(* rehash into a table with more room than there are entries does not fail. *)
LEMMA RehashSucceeds ==
  ASSUME NEW t, TableOK(t), NEW cap \in Nat, t.size < cap
  PROVE  Rehash(t, cap) # {}
<1>0. t.capacity \in Nat /\ t.size \in Nat /\ TableTyped(t)
  BY CountersNat DEF TableOK
<1>1. PICK g : /\ g = [n \in 0..t.capacity |->
                        IF n = 0 THEN {NewTable(cap)} ELSE Round(t, n, g[n - 1])]
               /\ Rehash(t, cap) = g[t.capacity]
  BY <1>0, RehashRounds
<1> DEFINE Good(n) == \E v \in g[n] : Carried(t, n, v) /\ v.capacity = cap
           Bad == {n \in 0..t.capacity : ~Good(n)}
<1>2. ASSUME Bad # {} PROVE FALSE
  <2>0. Bad \subseteq Nat
    BY <1>0
  <2> HIDE DEF Bad
  <2>1. PICK n \in Bad : \A m \in Bad : n <= m
    BY <1>2, <2>0, MinIn
  <2> USE DEF Bad
  <2>2. n \in 0..t.capacity /\ ~Good(n)
    OBVIOUS
  <2>3. CASE n = 0
    <3>1. g[0] = {NewTable(cap)}
      BY <1>0, <1>1
    <3>2. Carried(t, 0, NewTable(cap))
      BY NothingCarried
    <3> QED
      BY <2>2, <2>3, <3>1, <3>2, NewTableOK
  <2>4. CASE n # 0
    <3>1. n - 1 \in 0..t.capacity /\ ~(n <= n - 1) /\ n \in 1..t.capacity
      BY <1>0, <2>2, <2>4
    <3>2. n - 1 \notin Bad
      BY <2>1, <3>1
    <3>3. PICK w \in g[n - 1] : Carried(t, n - 1, w) /\ w.capacity = cap
      BY <3>1, <3>2
    <3>4. g[n] = Round(t, n, g[n - 1])
      BY <1>1, <2>2, <2>4
    <3>5. w.size + w.deletedCount < w.capacity /\ TableOK(w)
      <4>1. IsFiniteSet(OccupiedAt(t)) /\ Below(t, n - 1) \subseteq OccupiedAt(t)
        BY <1>0, TableFinite DEF Below
      <4>2. Cardinality(Below(t, n - 1)) <= Cardinality(OccupiedAt(t))
        BY <4>1, FS_Subset
      <4>3. t.size = Cardinality(OccupiedAt(t))
        BY DEF TableOK, Counted
      <4>4. TableOK(w) /\ w.deletedCount = 0 /\ w.size <= Cardinality(Below(t, n - 1))
        BY <3>3 DEF Carried
      <4>5. Cardinality(Below(t, n - 1)) \in Nat /\ w.size \in Nat
        BY <4>1, <4>4, FS_Subset, FS_CardinalityType, CountersNat
      <4> QED
        BY <1>0, <3>3, <4>2, <4>3, <4>4, <4>5
    <3>6. Reinserted(t.entries[n - 1], w) # {}
      <4>1. t.entries[n - 1] \in EntryType
        BY <1>0, <3>1 DEF TableTyped
      <4>2. CASE t.entries[n - 1].state = "Occupied"
        BY <3>5, <4>1, <4>2, EntryKinds, InsertSucceeds DEF Reinserted
      <4>3. CASE t.entries[n - 1].state # "Occupied"
        BY <4>3 DEF Reinserted
      <4> QED
        BY <4>2, <4>3
    <3>7. PICK v : v \in Reinserted(t.entries[n - 1], w)
      BY <3>6
    <3>8. v \in g[n]
      BY <3>4, <3>7 DEF Round
    <3>9. Carried(t, n, v) /\ v.capacity = cap
      BY <3>1, <3>3, <3>7, RoundCarries
    <3> QED
      BY <2>2, <3>8, <3>9
  <2> QED
    BY <2>3, <2>4
<1>3. Good(t.capacity)
  BY <1>0, <1>2
<1> QED
  BY <1>1, <1>3

(* set() finds an entry for every id: the rehash it may need carries every  *)
(* entry over and the table it then inserts into is not full, so that the   *)
(* allocation of a new table is all that can fail.                          *)
OnlyMemoryFails ==
  /\ EnsureCapacityForInsert(index, TRUE) # {}
  /\ \A memory \in BOOLEAN : \A t \in EnsureCapacityForInsert(index, memory) :
       \A id \in Ids, s \in SlotIndexes : InsertOrAssign(t, id, s) # {}

(* The invariant leaves set() nothing but an allocation to fail by.         *)
LEMMA MemoryAloneFails ==
  ASSUME IndexInv
  PROVE  OnlyMemoryFails
<1>0. /\ TableOK(index) /\ Sparse(index) /\ index.capacity # 1
      /\ index.size \in Nat /\ index.deletedCount \in Nat /\ index.capacity \in Nat
  BY CountersNat DEF IndexInv
<1>1. EnsureCapacityForInsert(index, TRUE) # {}
  <2>1. CASE WantedCapacity(index) = 0
    BY <2>1 DEF EnsureCapacityForInsert
  <2>2. CASE WantedCapacity(index) # 0
    <3>2. index.capacity = 0 => WantedCapacity(index) = FirstCapacity /\ index.size = 0
      <4>1. ASSUME index.capacity = 0 PROVE index.size = 0
        <5>1. OccupiedAt(index) = {}
          BY <1>0, <4>1 DEF OccupiedAt, TableOK, TableTyped
        <5> QED
          BY <1>0, <5>1, FS_EmptySet DEF TableOK, Counted
      <4> QED
        BY <4>1 DEF WantedCapacity, NextCapacity
    <3>3. index.capacity # 0 => WantedCapacity(index) \in {2 * index.capacity, index.capacity}
      BY <2>2 DEF WantedCapacity, NextCapacity
    <3>4. WantedCapacity(index) \in Nat /\ index.size < WantedCapacity(index)
      <4>1. FirstCapacity \in Nat /\ FirstCapacity > 1
        BY IndexAssumption
      <4>2. CASE index.capacity = 0
        BY <3>2, <4>1, <4>2
      <4>3. CASE index.capacity # 0
        <5>1. 10 * (index.size + index.deletedCount) < 7 * index.capacity
          BY <1>0, <4>3 DEF Sparse
        <5>2. index.size < index.capacity /\ index.size < 2 * index.capacity
          BY <1>0, <5>1
        <5> QED
          BY <1>0, <3>3, <4>3, <5>2
      <4> QED
        BY <4>2, <4>3
    <3>5. Rehash(index, WantedCapacity(index)) # {}
      BY <1>0, <3>4, RehashSucceeds
    <3> QED
      BY <2>2, <3>5 DEF EnsureCapacityForInsert
  <2> QED
    BY <2>1, <2>2
<1>2. ASSUME NEW memory \in BOOLEAN,
             NEW t \in EnsureCapacityForInsert(index, memory),
             NEW id \in Ids, NEW s \in SlotIndexes
      PROVE  InsertOrAssign(t, id, s) # {}
  <2>1. TableOK(t) /\ Roomy(t)
    BY <1>0, EnsureRoom
  <2>2. t.size \in Nat /\ t.deletedCount \in Nat /\ t.capacity \in Nat
    BY <2>1, CountersNat
  <2>3. t.size + t.deletedCount < t.capacity
    BY <2>1, <2>2 DEF Roomy
  <2> QED
    BY <2>1, <2>3, InsertSucceeds
<1> QED
  BY <1>1, <1>2 DEF OnlyMemoryFails

(* set() keeps the invariant and updates the function at its id alone; it   *)
(* fails only if it is refused memory, and then it has changed nothing.     *)
LEMMA SetStep ==
  ASSUME IndexInv, NEW id \in Ids, NEW s \in SlotIndexes, NEW memory \in BOOLEAN,
         IndexSet(id, s, memory)
  PROVE  /\ IndexInv'
         /\ \/ SlotOf(index') = Updated(SlotOf(index), id, s) /\ reply' = Yes
            \/ ~memory /\ index' = index /\ reply' = No
<1>0. OnlyMemoryFails
  BY MemoryAloneFails
<1>1. CASE EnsureCapacityForInsert(index, memory) = {}
  <2>1. index' = index /\ reply' = No
    BY <1>1 DEF IndexSet
  <2>2. ~memory
    BY <1>0, <1>1 DEF OnlyMemoryFails
  <2> QED
    BY <2>1, <2>2 DEF IndexInv
<1>2. CASE EnsureCapacityForInsert(index, memory) # {}
  <2>1. PICK t \in EnsureCapacityForInsert(index, memory) :
          IF InsertOrAssign(t, id, s) = {} THEN reply' = No /\ index' = t
          ELSE reply' = Yes /\ index' \in InsertOrAssign(t, id, s)
    BY <1>2 DEF IndexSet
  <2>2. InsertOrAssign(t, id, s) # {}
    BY <1>0 DEF OnlyMemoryFails
  <2>3. reply' = Yes /\ index' \in InsertOrAssign(t, id, s)
    BY <2>1, <2>2
  <2>4. TableOK(t) /\ Roomy(t) /\ SlotOf(t) = SlotOf(index)
    BY EnsureRoom DEF IndexInv
  <2>5. TableTyped(t) /\ Reachable(t)
    BY <2>4 DEF TableOK
  <2>6. PICK k : Entered(t, id, s, k, index')
    BY <2>3, <2>5, InsertIs
  <2>7. TableOK(index') /\ index'.size + index'.deletedCount <= t.size + t.deletedCount + 1
    BY <2>4, <2>6, EnteredOK
  <2>8. index'.capacity = t.capacity
    BY <2>5, <2>6, EnteredShape
  <2>9. /\ t.size \in Nat /\ t.deletedCount \in Nat /\ t.capacity \in Nat
        /\ index'.size \in Nat /\ index'.deletedCount \in Nat
    BY <2>4, <2>7, CountersNat
  <2>10. 10 * (index'.size + index'.deletedCount) < 7 * index'.capacity /\ index'.capacity # 1
    BY <2>4, <2>7, <2>8, <2>9 DEF Roomy
  <2>11. SlotOf(index') = Updated(SlotOf(t), id, s)
    BY <2>4, <2>6, EnteredSlots
  <2> QED
    BY <2>3, <2>4, <2>7, <2>10, <2>11 DEF IndexInv, Sparse
<1> QED
  BY <1>1, <1>2

(* remove() keeps the invariant and takes its id out of the function.       *)
LEMMA RemoveStep ==
  ASSUME IndexInv, NEW id \in Ids, IndexRemove(id)
  PROVE  /\ IndexInv'
         /\ SlotOf(index') = Without(SlotOf(index), id)
         /\ reply' = IF id \in DOMAIN SlotOf(index) THEN Yes ELSE No
<1>0. TableOK(index) /\ TableTyped(index) /\ Reachable(index) /\ NoIdTwice(index)
  BY DEF IndexInv, TableOK
<1>1. /\ Find(index, id) = {} <=> id \notin Held(index)
      /\ \A i \in Find(index, id) : i \in OccupiedAt(index) /\ index.entries[i].jobId = id
  BY <1>0, FindIs
<1>2. /\ SlotOf(index) = [x \in Held(index) |-> SlotOf(index)[x]]
      /\ DOMAIN SlotOf(index) = Held(index)
  BY <1>0, SlotOfIs
<1>3. CASE Find(index, id) = {}
  <2>1. index' = index /\ reply' = No
    BY <1>3 DEF IndexRemove
  <2>2. Held(index) \ {id} = Held(index) /\ id \notin Held(index)
    BY <1>1, <1>3
  <2> QED
    BY <1>2, <2>1, <2>2 DEF IndexInv, Without
<1>4. CASE Find(index, id) # {}
  <2>1. PICK i \in Find(index, id) : index' = Tombstoned(index, i) /\ reply' = Yes
    BY <1>4 DEF IndexRemove, Tombstoned
  <2>2. i \in OccupiedAt(index) /\ index.entries[i].jobId = id
    BY <1>1
  <2>3. /\ TableOK(index') /\ index'.capacity = index.capacity
        /\ index'.size + index'.deletedCount = index.size + index.deletedCount
        /\ SlotOf(index') = Without(SlotOf(index), id)
    BY <1>0, <2>1, <2>2, RemovedOK
  <2>4. Sparse(index') /\ index'.capacity # 1
    BY ONLY <2>3, IndexInv DEF IndexInv, Sparse
  <2>5. id \in Held(index)
    BY <1>1, <1>4
  <2> QED
    BY <1>2, <2>1, <2>3, <2>4, <2>5 DEF IndexInv
<1> QED
  BY <1>3, <1>4

(* clear() empties the function.                                            *)
LEMMA ClearStep ==
  ASSUME NEW cap \in Nat, NEW t, t = NewTable(cap), cap # 1
  PROVE  TableOK(t) /\ Sparse(t) /\ t.capacity # 1 /\ SlotOf(t) = <<>>
<1>1. TableOK(t) /\ t.capacity = cap /\ OccupiedAt(t) = {} /\ t.size = 0 /\ t.deletedCount = 0
  BY NewTableOK
<1>2. NoIdTwice(t)
  BY <1>1 DEF TableOK
<1>3. SlotOf(t) = [x \in Held(t) |-> SlotOf(t)[x]] /\ Held(t) = {}
  BY <1>1, <1>2, SlotOfIs DEF Held
<1>4. SlotOf(t) = <<>>
  BY <1>3
<1> QED
  BY <1>1, <1>4 DEF Sparse

(* The invariant holds initially, when the function is empty.               *)
LEMMA IndexInvInit ==
  ASSUME IndexInit
  PROVE  IndexInv /\ Contract!Init
<1>1. TableOK(index) /\ Sparse(index) /\ index.capacity # 1 /\ SlotOf(index) = <<>>
  BY ClearStep DEF IndexInit
<1> QED
  BY <1>1 DEF IndexInv, Contract!Init, IndexInit, No, Contract!No

(* Every step keeps the invariant and is a step of the partial function.    *)
LEMMA IndexInvNext ==
  ASSUME IndexInv, [IndexNext]_indexVars
  PROVE  IndexInv' /\ [Contract!Next]_<<SlotOf(index), call, reply>>
<1> USE DEF No, Yes, At, Contract!No, Contract!Yes, Contract!At
<1>1. ASSUME NEW id \in Ids, NEW s \in SlotIndexes, NEW memory \in BOOLEAN, IndexSet(id, s, memory)
      PROVE  IndexInv' /\ Contract!Set(id, s, memory)
  <2>1. /\ IndexInv'
        /\ \/ SlotOf(index') = Updated(SlotOf(index), id, s) /\ reply' = Yes
           \/ ~memory /\ index' = index /\ reply' = No
    BY <1>1, SetStep
  <2>2. call' = [op |-> "set", id |-> id, slot |-> s, memory |-> memory]
    BY <1>1 DEF IndexSet
  <2> QED
    BY <2>1, <2>2 DEF Contract!Set, Updated
<1>2. ASSUME NEW id \in Ids, IndexGet(id) PROVE IndexInv' /\ Contract!Get(id)
  <2>0. TableTyped(index) /\ Reachable(index) /\ NoIdTwice(index)
    BY DEF IndexInv, TableOK
  <2>1. /\ Find(index, id) = {} <=> id \notin Held(index)
        /\ \A i \in Find(index, id) : i \in OccupiedAt(index) /\ index.entries[i].jobId = id
    BY <2>0, FindIs
  <2>2. /\ DOMAIN SlotOf(index) = Held(index)
        /\ \A i \in OccupiedAt(index) :
             SlotOf(index)[index.entries[i].jobId] = index.entries[i].slotIndex
    BY <2>0, SlotOfIs
  <2>3. index' = index /\ call' = [op |-> "get", id |-> id]
    BY <1>2 DEF IndexGet
  <2>4. reply' = IF id \in DOMAIN SlotOf(index) THEN At(SlotOf(index)[id]) ELSE No
    BY <1>2, <2>1, <2>2 DEF IndexGet
  <2>5. IndexInv'
    BY <2>3 DEF IndexInv
  <2> QED
    BY <2>3, <2>4, <2>5 DEF Contract!Get
<1>3. ASSUME NEW id \in Ids, IndexRemove(id) PROVE IndexInv' /\ Contract!Remove(id)
  <2>1. call' = [op |-> "remove", id |-> id]
    BY <1>3 DEF IndexRemove
  <2> QED
    BY <1>3, <2>1, RemoveStep DEF Contract!Remove, Without
<1>4. ASSUME IndexClear PROVE IndexInv' /\ Contract!Clear
  <2>1. index.capacity \in Nat /\ index.capacity # 1
    BY CountersNat DEF IndexInv
  <2>2. index' = NewTable(index.capacity) /\ call' = [op |-> "clear"] /\ reply' = No
    BY <1>4 DEF IndexClear
  <2>3. TableOK(index') /\ Sparse(index') /\ index'.capacity # 1 /\ SlotOf(index') = <<>>
    BY <2>1, <2>2, ClearStep
  <2> QED
    BY <2>2, <2>3 DEF IndexInv, Contract!Clear
<1>5. CASE UNCHANGED indexVars
  BY <1>5 DEF indexVars, IndexInv
<1> QED
  BY <1>1, <1>2, <1>3, <1>4, <1>5 DEF IndexNext, Contract!Next

(* The counters and the share of used entries, from the invariant.          *)
LEMMA IndexInvMeans ==
  ASSUME IndexInv
  PROVE  CountsExact /\ ProbesStayShort
<1>1. CountsExact
  BY DEF IndexInv, TableOK, CountsExact, Counted, DeletedAt
<1>2. ProbesStayShort
  BY UsedCount DEF ProbesStayShort, IndexInv, Sparse
<1> QED
  BY <1>1, <1>2

(* The invariant of the job index: every entry is reached by the probes for *)
(* its id, no id has two, the counters are exact and the table is sparse.   *)
THEOREM IndexInductive == IndexSpec => []IndexInv
<1>1. IndexInit => IndexInv
  BY IndexInvInit
<1>2. IndexInv /\ [IndexNext]_indexVars => IndexInv'
  BY IndexInvNext
<1> QED
  BY <1>1, <1>2, PTL DEF IndexSpec

(* The counters size_ and deletedCount_, by which the index decides when to *)
(* rehash, are exact through reused tombstones, rehashes to double and to   *)
(* equal capacity, failed allocations and clear(), whatever the ids, the    *)
(* slots and the capacities.                                                *)
THEOREM IndexCounts == IndexSpec => []CountsExact
<1>1. IndexInv => CountsExact
  BY IndexInvMeans
<1> QED
  BY IndexInductive, <1>1, PTL

(* Fewer than seven tenths of the entries are occupied or tombstones, so    *)
(* that every probe ends at an empty one, however often ids come and go.    *)
THEOREM IndexProbes == IndexSpec => []ProbesStayShort
<1>1. IndexInv => ProbesStayShort
  BY IndexInvMeans
<1> QED
  BY IndexInductive, <1>1, PTL

(* The job index implements the partial function that SchedulerCore relies  *)
(* on: get() and remove() find the id they are given whenever it is there,  *)
(* however many tombstones lie before it, get() answers with the slot of    *)
(* the last set() of that id, and set() fails only if it is refused memory, *)
(* without an effect.                                                       *)
THEOREM IndexRefinesMap == IndexSpec => ImplementsIdMap
<1>1. IndexInit => IndexInv /\ Contract!Init
  BY IndexInvInit
<1>2. IndexInv /\ [IndexNext]_indexVars => IndexInv' /\ [Contract!Next]_<<SlotOf(index), call, reply>>
  BY IndexInvNext
<1> QED
  BY <1>1, <1>2, PTL DEF IndexSpec, ImplementsIdMap, Contract!Spec

(* The two places where set() could return false besides an allocation, the *)
(* insertions of rehash and its own, always find an entry.                  *)
THEOREM SetFindsRoom == IndexSpec => []OnlyMemoryFails
<1>1. IndexInv => OnlyMemoryFails
  BY MemoryAloneFails
<1> QED
  BY IndexInductive, <1>1, PTL

--------------------------------------------------------------------------------
(* The due heap: entries that move along a path *)

(* An entry x moves through the positions of h along next, and each entry   *)
(* it passes moves the other way; the move ends where next stays.           *)
Placed(h, k, x) == [h EXCEPT ![k] = x]

Moved(h, x, next, g, k) ==
  IF next[k] = k THEN Placed(h, k, x) ELSE Placed(g[next[k]], k, h[next[k]])

(* g[k] is what h becomes when x starts from position k.                    *)
Traced(n, h, x, next, g) == g = [k \in 1..n |-> Moved(h, x, next, g, k)]

(* next leads down a rank, so that the move ends.                           *)
Descends(n, next, rank) ==
  /\ next \in [1..n -> 1..n] /\ rank \in [1..n -> 0..n]
  /\ \A k \in 1..n : next[k] = k \/ rank[next[k]] < rank[k]

(* The recursion that follows next is well defined.                         *)
LEMMA MoveExists ==
  ASSUME NEW n \in Nat, NEW h, NEW x, NEW next, NEW rank, Descends(n, next, rank)
  PROVE  \E g : Traced(n, h, x, next, g)
<1> DEFINE Upto(r, g) == \A k \in 1..n : rank[k] < r => g[k] = Moved(h, x, next, g, k)
           Bad == {r \in Nat : ~ \E g : Upto(r, g)}
<1>0. /\ next \in [1..n -> 1..n] /\ rank \in [1..n -> 0..n]
      /\ \A k \in 1..n : next[k] = k \/ rank[next[k]] < rank[k]
  BY DEF Descends
<1>1. ASSUME Bad # {} PROVE FALSE
  <2>0. Bad \subseteq Nat
    OBVIOUS
  <2> HIDE DEF Bad
  <2>1. PICK r \in Bad : \A m \in Bad : r <= m
    BY <1>1, <2>0, LeastOf
  <2> USE DEF Bad
  <2>2. r \in Nat /\ ~ \E g : Upto(r, g)
    OBVIOUS
  <2>3. r # 0
    <3>1. Upto(0, <<>>)
      BY <1>0
    <3> QED
      BY <2>2, <3>1
  <2>4. r - 1 \in Nat /\ ~(r <= r - 1)
    BY <2>2, <2>3
  <2>5. r - 1 \notin Bad
    BY <2>1, <2>4
  <2>6. PICK g : Upto(r - 1, g)
    BY <2>4, <2>5
  <2> DEFINE f == [k \in 1..n |-> IF rank[k] = r - 1 THEN Moved(h, x, next, g, k) ELSE g[k]]
  <2>7. ASSUME NEW k \in 1..n, rank[k] < r PROVE f[k] = Moved(h, x, next, f, k)
    <3>1. rank[k] \in Nat
      BY <1>0
    <3>2. f[k] = Moved(h, x, next, g, k)
      BY <2>2, <2>6, <2>7, <3>1
    <3>3. next[k] # k => f[next[k]] = g[next[k]]
      <4>1. ASSUME next[k] # k PROVE next[k] \in 1..n /\ rank[next[k]] # r - 1
        BY <1>0, <2>2, <2>7, <3>1, <4>1
      <4> QED
        BY <4>1
    <3> HIDE DEF f
    <3> QED
      BY <3>2, <3>3 DEF Moved
  <2>8. Upto(r, f)
    BY <2>7
  <2> QED
    BY <2>2, <2>8
<1>b. n + 1 \notin Bad
  <2> HIDE DEF Bad
  <2> QED
    BY <1>1
<1>c. n + 1 \in Nat
  OBVIOUS
<1>2. PICK g : Upto(n + 1, g)
  BY <1>b, <1>c
<1> DEFINE f == [k \in 1..n |-> g[k]]
<1>3. ASSUME NEW k \in 1..n PROVE f[k] = Moved(h, x, next, f, k)
  <2>1. rank[k] < n + 1 /\ next[k] \in 1..n
    BY <1>0
  <2>2. g[k] = Moved(h, x, next, g, k)
    BY <1>2, <2>1
  <2>3. f[next[k]] = g[next[k]] /\ f[k] = g[k]
    BY <2>1
  <2> HIDE DEF f
  <2> QED
    BY <2>2, <2>3 DEF Moved
<1>4. f = [k \in 1..n |-> f[k]]
  OBVIOUS
<1> HIDE DEF f
<1>5. Traced(n, h, x, next, f)
  BY <1>3, <1>4 DEF Traced
<1> QED
  BY <1>5

(* Whatever has its rank above the entry is where it was, and the entries   *)
(* are those of h with x put where the move began.                          *)
Kept(n, h, x, rank, k, f) ==
  /\ f \in [1..n -> Entries]
  /\ \A i \in 1..n : rank[i] > rank[k] => f[i] = h[i]
  /\ \A P : HowMany(f, P) = HowMany(Placed(h, k, x), P)

(* A move loses and doubles no entry.                                       *)
LEMMA MoveKeeps ==
  ASSUME NEW n \in Nat, NEW h \in [1..n -> Entries], NEW x \in Entries, NEW next, NEW rank,
         Descends(n, next, rank), NEW g, Traced(n, h, x, next, g),
         NEW k0 \in 1..n
  PROVE  Kept(n, h, x, rank, k0, g[k0])
<1> DEFINE Bad == {rank[k] : k \in {i \in 1..n : ~Kept(n, h, x, rank, i, g[i])}}
<1>0. /\ next \in [1..n -> 1..n] /\ rank \in [1..n -> 0..n]
      /\ \A k \in 1..n : next[k] = k \/ rank[next[k]] < rank[k]
  BY DEF Descends
<1>a. IsFiniteSet(1..n)
  BY FS_Interval
<1>1. ASSUME Bad # {} PROVE FALSE
  <2>0. ASSUME NEW r \in Bad PROVE r \in Nat
    <3>1. PICK k \in 1..n : r = rank[k]
      OBVIOUS
    <3> QED
      BY <1>0, <3>1
  <2> HIDE DEF Bad
  <2>1. PICK r \in Bad : \A m \in Bad : r <= m
    BY <1>1, <2>0, LeastOf
  <2> USE DEF Bad
  <2>2. PICK k \in 1..n : rank[k] = r /\ ~Kept(n, h, x, rank, k, g[k])
    BY <2>1
  <2>3. g[k] = Moved(h, x, next, g, k)
    BY DEF Traced
  <2>4. CASE next[k] = k
    <3>1. g[k] = Placed(h, k, x)
      BY <2>3, <2>4 DEF Moved
    <3>2. Placed(h, k, x) \in [1..n -> Entries]
      BY DEF Placed
    <3>3. ASSUME NEW i \in 1..n, rank[i] > rank[k] PROVE Placed(h, k, x)[i] = h[i]
      <4>0. rank[i] \in Nat /\ rank[k] \in Nat
        BY <1>0
      <4>1. i # k
        BY <3>3, <4>0
      <4> QED
        BY <4>1 DEF Placed
    <3> QED
      BY <2>2, <3>1, <3>2, <3>3 DEF Kept
  <2>5. CASE next[k] # k
    <3> DEFINE m == next[k]
    <3>1. m \in 1..n /\ rank[m] < rank[k] /\ rank[m] \in Nat /\ rank[k] \in Nat
      BY <1>0, <2>5
    <3> HIDE DEF m
    <3>a. r \in Nat /\ ~(r <= rank[m])
      BY <2>2, <3>1
    <3>2. rank[m] \notin Bad
      BY <2>1, <3>a
    <3>3. Kept(n, h, x, rank, m, g[m])
      BY <3>1, <3>2
    <3>4. g[k] = Placed(g[m], k, h[m])
      BY <2>3, <2>5 DEF Moved, m
    <3> DEFINE f == g[m]
               e == Placed(f, k, h[m])
    <3>5. /\ f \in [1..n -> Entries]
          /\ \A i \in 1..n : rank[i] > rank[m] => f[i] = h[i]
          /\ \A P : HowMany(f, P) = HowMany(Placed(h, m, x), P)
      BY <3>3 DEF Kept
    <3> HIDE DEF f
    <3>6. h[m] \in Entries /\ e \in [1..n -> Entries] /\ e[k] = h[m]
          /\ \A i \in 1..n : i # k => e[i] = f[i]
      BY <3>1, <3>5 DEF Placed
    <3>7. ASSUME NEW i \in 1..n, rank[i] > rank[k] PROVE e[i] = h[i]
      <4>0. rank[i] \in Nat
        BY <1>0
      <4>1. rank[i] > rank[m] /\ i # k
        BY <3>1, <3>7, <4>0
      <4> QED
        BY <3>5, <3>6, <4>1
    <3> HIDE DEF e
    <3>8. ASSUME NEW P PROVE HowMany(e, P) = HowMany(Placed(h, k, x), P)
      <4>0. DOMAIN f = 1..n /\ DOMAIN e = 1..n
        BY <3>5, <3>6
      <4>1. HowMany(e, P) = HowMany(f, P) - (IF f[k] \in P THEN 1 ELSE 0) + (IF e[k] \in P THEN 1 ELSE 0)
        BY <1>a, <3>6, <4>0, HowManyExcept
      <4>2. f[k] = h[k]
        BY <3>1, <3>5
      <4>3. ASSUME NEW i \in 1..n
            PROVE  HowMany(Placed(h, i, x), P)
                     = HowMany(h, P) - (IF h[i] \in P THEN 1 ELSE 0) + (IF x \in P THEN 1 ELSE 0)
        <5>1. /\ DOMAIN Placed(h, i, x) = DOMAIN h /\ DOMAIN h = 1..n /\ Placed(h, i, x)[i] = x
              /\ \A j \in 1..n : j # i => Placed(h, i, x)[j] = h[j]
          BY DEF Placed
        <5> QED
          BY <1>a, <5>1, HowManyExcept
      <4>4. HowMany(f, P) = HowMany(h, P) - (IF h[m] \in P THEN 1 ELSE 0) + (IF x \in P THEN 1 ELSE 0)
        BY <3>1, <3>5, <4>3
      <4>5. HowMany(h, P) \in Nat
        BY <1>a, PlacesFinite
      <4>6. HowMany(e, P) = HowMany(h, P) - (IF h[k] \in P THEN 1 ELSE 0) + (IF x \in P THEN 1 ELSE 0)
        BY <3>6, <4>1, <4>2, <4>4, <4>5
      <4> QED
        BY <4>3, <4>6
    <3>9. Kept(n, h, x, rank, k, e)
      BY <3>6, <3>7, <3>8 DEF Kept
    <3> QED
      BY <2>2, <3>4, <3>9 DEF e, f
  <2> QED
    BY <2>4, <2>5
<1> QED
  BY <1>1

(* Halving leads to a smaller position, and two positions lead to each.     *)
LEMMA Halves ==
  ASSUME NEW j \in Nat, j >= 2
  PROVE  /\ j \div 2 \in Nat /\ j \div 2 >= 1 /\ j \div 2 < j
         /\ j = 2 * (j \div 2) \/ j = 2 * (j \div 2) + 1
  OBVIOUS

(* a is due no later than b.                                                *)
NoLater(a, b) == a[1] <= b[1]

(* Due times are compared like numbers.                                     *)
LEMMA DueOrder ==
  ASSUME NEW a \in Entries, NEW b \in Entries
  PROVE  /\ ~LaterThan(a, b) <=> NoLater(a, b)
         /\ LaterThan(a, b) => NoLater(b, a)
         /\ NoLater(a, a) /\ (NoLater(a, b) \/ NoLater(b, a))
         /\ \A c \in Entries : NoLater(a, b) /\ NoLater(b, c) => NoLater(a, c)
<1>1. \A e \in Entries : e[1] \in Nat
  BY HeapAssumption
<1> QED
  BY <1>1 DEF NoLater, LaterThan

(* Where the entry that push has appended goes from position k.             *)
UpFrom(h, n) == [k \in 1..n |-> IF k = 1 \/ ~LaterThan(h[k \div 2], h[n]) THEN k ELSE k \div 2]

(* The loop of push is a move towards the root.                             *)
LEMMA SiftUpMoves ==
  ASSUME NEW n \in Nat \ {0}, NEW h \in [1..n -> Entries], Len(h) = n
  PROVE  /\ Descends(n, UpFrom(h, n), [k \in 1..n |-> k])
         /\ \E g : Traced(n, h, h[n], UpFrom(h, n), g) /\ SiftUp(h) = g[n]
<1> DEFINE x == h[n]
           next == UpFrom(h, n)
           Body(g, k) == IF k = 1 \/ ~LaterThan(h[k \div 2], x) THEN [h EXCEPT ![k] = x]
                         ELSE [g[k \div 2] EXCEPT ![k] = h[k \div 2]]
           rise == CHOOSE g : g = [k \in 1..n |-> Body(g, k)]
<1>1. ASSUME NEW k \in 1..n, k # 1 PROVE k \div 2 \in 1..n /\ k \div 2 < k
  BY <1>1, Halves
<1>2. Descends(n, next, [k \in 1..n |-> k])
  <2>1. next \in [1..n -> 1..n]
    BY <1>1 DEF UpFrom
  <2>2. \A k \in 1..n : next[k] = k \/ next[k] < k
    BY <1>1 DEF UpFrom
  <2> HIDE DEF next
  <2> QED
    BY <2>1, <2>2 DEF Descends
<1>3. ASSUME NEW g, NEW k \in 1..n PROVE Body(g, k) = Moved(h, x, next, g, k)
  <2>1. CASE k = 1 \/ ~LaterThan(h[k \div 2], x)
    <3>1. next[k] = k
      BY <2>1 DEF UpFrom
    <3> QED
      BY <2>1, <3>1 DEF Moved, Placed
  <2>2. CASE ~(k = 1 \/ ~LaterThan(h[k \div 2], x))
    <3>1. next[k] = k \div 2 /\ k \div 2 # k
      BY <1>1, <2>2 DEF UpFrom
    <3> HIDE DEF next
    <3> QED
      BY <2>2, <3>1 DEF Moved, Placed
  <2> QED
    BY <2>1, <2>2
<1>4. SiftUp(h) = rise[n]
  BY DEF SiftUp, Last
<1> HIDE DEF Body, next
<1>5. ASSUME NEW g
      PROVE  Traced(n, h, x, next, g) <=> g = [k \in 1..n |-> Body(g, k)]
  BY <1>3 DEF Traced
<1>6. PICK g : Traced(n, h, x, next, g)
  BY <1>2, MoveExists
<1>7. g = [k \in 1..n |-> Body(g, k)]
  BY <1>5, <1>6
<1>8. rise = [k \in 1..n |-> Body(rise, k)]
  BY <1>7, Zenon
<1> HIDE DEF rise
<1>9. Traced(n, h, x, next, rise)
  BY <1>5, <1>8
<1> QED
  BY <1>2, <1>4, <1>9 DEF next

(* What the entry x has made of h when it rises from position k: every      *)
(* entry is due no earlier than its parent.  The place x came from, n,      *)
(* counts when the move began there.                                        *)
Risen(n, h, x, k, f) ==
  /\ \A j \in 2..n : j < n \/ k = n => NoLater(f[j \div 2], f[j])
  /\ f[k] = x \/ (k > 1 /\ f[k] = h[k \div 2])

(* x may rise from k: the entries below k are due no earlier.               *)
MayRise(n, h, x, k) == \A c \in 2..n : c \div 2 = k /\ c < n => NoLater(x, h[c])

(* When the last entry has risen, the heap is in order again.               *)
LEMMA SiftUpOrders ==
  ASSUME NEW n \in Nat \ {0}, NEW h \in [1..n -> Entries],
         \A j \in 2..(n - 1) : NoLater(h[j \div 2], h[j]),
         NEW g, Traced(n, h, h[n], UpFrom(h, n), g),
         Descends(n, UpFrom(h, n), [k \in 1..n |-> k])
  PROVE  Risen(n, h, h[n], n, g[n]) /\ Kept(n, h, h[n], [k \in 1..n |-> k], n, g[n])
<1> DEFINE x == h[n]
           next == UpFrom(h, n)
           rank == [k \in 1..n |-> k]
           Bad == {k \in 1..n : MayRise(n, h, x, k) /\ ~Risen(n, h, x, k, g[k])}
<1>0. x \in Entries /\ n \in 1..n
  OBVIOUS
<1>1. ASSUME NEW k \in 1..n
      PROVE  /\ g[k] \in [1..n -> Entries] /\ \A i \in 1..n : i > k => g[k][i] = h[i]
             /\ Kept(n, h, x, rank, k, g[k])
  <2>1. Kept(n, h, x, rank, k, g[k])
    BY <1>0, MoveKeeps
  <2> QED
    BY <2>1 DEF Kept
<1>2. ASSUME NEW j \in 2..n PROVE j \div 2 \in 1..n /\ j \div 2 < j /\ j \in 1..n
  BY Halves
<1>3. ASSUME Bad # {} PROVE FALSE
  <2>0. Bad \subseteq Nat
    OBVIOUS
  <2> HIDE DEF Bad
  <2>1. PICK k \in Bad : \A m \in Bad : k <= m
    BY <1>3, <2>0, LeastOf
  <2> USE DEF Bad
  <2>2. k \in 1..n /\ MayRise(n, h, x, k) /\ ~Risen(n, h, x, k, g[k])
    OBVIOUS
  <2>3. g[k] = Moved(h, x, next, g, k)
    BY <2>2 DEF Traced
  <2> HIDE DEF Bad, x
  <2>4. CASE k = 1 \/ ~LaterThan(h[k \div 2], x)
    <3>1. g[k] = Placed(h, k, x)
      <4>1. next[k] = k
        BY <2>2, <2>4 DEF UpFrom, x
      <4> QED
        BY <2>3, <4>1 DEF Moved
    <3> DEFINE f == g[k]
    <3>2. f[k] = x /\ \A i \in 1..n : i # k => f[i] = h[i]
      BY <2>2, <3>1 DEF Placed
    <3> HIDE DEF f
    <3>3. ASSUME NEW j \in 2..n, j < n \/ k = n PROVE NoLater(f[j \div 2], f[j])
      <4>1. CASE j = k
        <5>1. f[j \div 2] = h[j \div 2] /\ f[j] = x /\ ~LaterThan(h[j \div 2], x)
          BY <1>2, <2>4, <3>2, <4>1
        <5>2. h[j \div 2] \in Entries
          BY <1>2
        <5> QED
          BY <1>0, <5>1, <5>2, DueOrder
      <4>2. CASE j # k /\ j \div 2 = k
        <5>1. j < n
          BY <1>2, <2>2, <3>3, <4>2
        <5> QED
          BY <1>2, <2>2, <3>2, <4>2, <5>1 DEF MayRise
      <4>3. CASE j # k /\ j \div 2 # k
        <5>1. j \in 2..(n - 1)
          BY <2>2, <3>3, <4>3
        <5> QED
          BY <1>2, <3>2, <4>3, <5>1
      <4> QED
        BY <4>1, <4>2, <4>3
    <3>4. Risen(n, h, x, k, f)
      BY <3>2, <3>3 DEF Risen
    <3> QED
      BY <2>2, <3>4 DEF f
  <2>5. CASE ~(k = 1 \/ ~LaterThan(h[k \div 2], x))
    <3> DEFINE p == k \div 2
               e == g[p]
               f == g[k]
    <3>1. k \in 2..n /\ p \in 1..n /\ p < k /\ p \in Nat
      BY <1>2, <2>2, <2>5
    <3>2. LaterThan(h[p], x)
      BY <2>5
    <3>3. f = Placed(e, k, h[p])
      <4>1. next[k] = p /\ p # k
        BY <2>2, <2>5, <3>1 DEF UpFrom, x
      <4> QED
        BY <2>3, <4>1 DEF Moved
    <3>4. e \in [1..n -> Entries] /\ \A i \in 1..n : i > p => e[i] = h[i]
      BY <1>1, <3>1
    <3>5. h[p] \in Entries /\ NoLater(x, h[p])
      BY <1>0, <3>1, <3>2, DueOrder
    <3> HIDE DEF p, e, f
    <3>6. MayRise(n, h, x, p)
      <4>1. ASSUME NEW c \in 2..n, c \div 2 = p, c < n PROVE NoLater(x, h[c])
        <5>1. NoLater(h[p], h[c]) /\ h[c] \in Entries
          BY <1>2, <4>1
        <5> QED
          BY <1>0, <3>5, <5>1, DueOrder
      <4> QED
        BY <4>1 DEF MayRise
    <3>7. Risen(n, h, x, p, e)
      <4>1. ~(k <= p)
        BY <2>2, <3>1
      <4>2. p \notin Bad
        BY <2>1, <4>1
      <4> QED
        BY <3>1, <3>6, <4>2 DEF Bad, e
    <3>8. f[k] = h[p] /\ \A i \in 1..n : i # k => f[i] = e[i]
      BY <2>2, <3>3, <3>4 DEF Placed
    <3>9. p < n /\ ~(p = n)
      BY <2>2, <3>1
    <3>10. NoLater(e[p], h[p])
      <4>1. CASE e[p] = x
        BY <3>5, <4>1
      <4>2. CASE p > 1 /\ e[p] = h[p \div 2]
        <5>1. p \in 2..(n - 1)
          BY <3>1, <3>9, <4>2
        <5> QED
          BY <4>2, <5>1
      <4> QED
        BY <3>7, <4>1, <4>2 DEF Risen
    <3>11. ASSUME NEW j \in 2..n, j < n \/ k = n PROVE NoLater(f[j \div 2], f[j])
      <4>1. CASE j = k
        <5>1. f[j \div 2] = e[p] /\ f[j] = h[p]
          BY <3>1, <3>8, <4>1 DEF p
        <5> QED
          BY <3>10, <5>1
      <4>2. CASE j # k /\ j \div 2 = k
        <5>1. k \in 2..(n - 1) /\ j \in 2..(n - 1) /\ j > p
          BY <1>2, <2>2, <3>1, <3>11, <4>2
        <5>2. NoLater(h[p], h[k]) /\ NoLater(h[k], h[j]) /\ h[k] \in Entries /\ h[j] \in Entries
          BY <4>2, <5>1 DEF p
        <5>3. f[j \div 2] = h[p] /\ f[j] = h[j]
          BY <1>2, <3>4, <3>8, <4>2, <5>1
        <5> QED
          BY <3>5, <5>2, <5>3, DueOrder
      <4>3. CASE j # k /\ j \div 2 # k
        <5>1. f[j \div 2] = e[j \div 2] /\ f[j] = e[j]
          BY <1>2, <3>8, <4>3
        <5>2. j < n
          BY <2>2, <3>11, <4>3
        <5> QED
          BY <3>7, <5>1, <5>2 DEF Risen
      <4> QED
        BY <4>1, <4>2, <4>3
    <3>12. f[k] = x \/ (k > 1 /\ f[k] = h[k \div 2])
      BY <2>2, <2>5, <3>8 DEF p
    <3>13. Risen(n, h, x, k, f)
      BY <3>11, <3>12 DEF Risen
    <3> QED
      BY <2>2, <3>13 DEF f
  <2> QED
    BY <2>4, <2>5
<1>4. MayRise(n, h, x, n)
  BY Halves DEF MayRise
<1>5. n \notin Bad
  <2> HIDE DEF Bad
  <2> QED
    BY <1>3
<1> QED
  BY <1>0, <1>1, <1>4, <1>5

(* Where the entry that pop has put at the root goes from position k.       *)
LeftOf(h, n, k) == IF 2 * k <= n /\ LaterThan(h[1], h[2 * k]) THEN 2 * k ELSE k

DownFrom(h, n) ==
  [k \in 1..n |->
     IF 2 * k < n /\ LaterThan(IF LeftOf(h, n, k) = k THEN h[1] ELSE h[LeftOf(h, n, k)], h[2 * k + 1])
     THEN 2 * k + 1 ELSE LeftOf(h, n, k)]

(* The candidate is the child that is due first, if one is due before x.    *)
LEMMA CandidateIs ==
  ASSUME NEW n \in Nat \ {0}, NEW h \in [1..n -> Entries], NEW k \in 1..n,
         NEW c, c = DownFrom(h, n)[k]
  PROVE  \/ c = k /\ \A j \in 2..n : j \div 2 = k => NoLater(h[1], h[j])
         \/ /\ c \in 2..n /\ c \div 2 = k /\ k < c /\ NoLater(h[c], h[1])
            /\ \A j \in 2..n : j \div 2 = k => NoLater(h[c], h[j])
<1>0. h[1] \in Entries /\ k \in Nat /\ k >= 1 /\ n \in Nat
  OBVIOUS
<1>1. /\ 2 * k <= n => 2 * k \in 2..n /\ (2 * k) \div 2 = k /\ k < 2 * k /\ h[2 * k] \in Entries
      /\ 2 * k < n => /\ 2 * k + 1 \in 2..n /\ (2 * k + 1) \div 2 = k /\ k < 2 * k + 1
                      /\ h[2 * k + 1] \in Entries
  BY <1>0
<1>2. ASSUME NEW j \in 2..n, j \div 2 = k
      PROVE  (j = 2 * k /\ 2 * k <= n) \/ (j = 2 * k + 1 /\ 2 * k < n)
  <2>1. j \in Nat /\ j >= 2 /\ j <= n
    OBVIOUS
  <2>2. j = 2 * k \/ j = 2 * k + 1
    BY <1>2, <2>1, Halves
  <2> QED
    BY <1>0, <2>1, <2>2
<1> DEFINE l == LeftOf(h, n, k)
           a == IF l = k THEN h[1] ELSE h[l]
<1>3. \/ l = k /\ a = h[1] /\ (2 * k <= n => NoLater(h[1], h[2 * k]))
      \/ l = 2 * k /\ 2 * k <= n /\ a = h[2 * k] /\ NoLater(h[2 * k], h[1])
  BY <1>0, <1>1, DueOrder DEF LeftOf
<1>4. \/ c = l /\ (2 * k < n => ~LaterThan(a, h[2 * k + 1]))
      \/ c = 2 * k + 1 /\ 2 * k < n /\ LaterThan(a, h[2 * k + 1])
  BY DEF DownFrom
<1> HIDE DEF l, a
<1>5. CASE c = l /\ (2 * k < n => ~LaterThan(a, h[2 * k + 1]))
  <2>1. CASE l = k /\ a = h[1] /\ (2 * k <= n => NoLater(h[1], h[2 * k]))
    <3>1. 2 * k < n => NoLater(h[1], h[2 * k + 1])
      BY <1>0, <1>1, <1>5, <2>1, DueOrder
    <3> QED
      BY <1>2, <1>5, <2>1, <3>1
  <2>2. CASE l = 2 * k /\ 2 * k <= n /\ a = h[2 * k] /\ NoLater(h[2 * k], h[1])
    <3>1. 2 * k < n => NoLater(h[2 * k], h[2 * k + 1])
      BY <1>1, <1>5, <2>2, DueOrder
    <3>2. NoLater(h[2 * k], h[2 * k])
      BY <1>1, <2>2, DueOrder
    <3>3. c = 2 * k
      BY <1>5, <2>2
    <3>4. ASSUME NEW j \in 2..n, j \div 2 = k PROVE NoLater(h[c], h[j])
      BY <1>2, <3>1, <3>2, <3>3, <3>4
    <3> QED
      BY <1>1, <2>2, <3>3, <3>4
  <2> QED
    BY <1>3, <2>1, <2>2
<1>6. CASE c = 2 * k + 1 /\ 2 * k < n /\ LaterThan(a, h[2 * k + 1])
  <2>0. h[c] \in Entries /\ 2 * k <= n /\ h[2 * k] \in Entries
    BY <1>0, <1>1, <1>6
  <2>1. a \in Entries /\ NoLater(a, h[1]) /\ NoLater(a, h[2 * k])
    BY <1>0, <1>3, <2>0, DueOrder
  <2>2. NoLater(h[c], a)
    BY <1>6, <2>0, <2>1, DueOrder
  <2>3. NoLater(h[c], h[1]) /\ NoLater(h[c], h[2 * k]) /\ NoLater(h[c], h[c])
    BY <1>0, <2>0, <2>1, <2>2, DueOrder
  <2>4. ASSUME NEW j \in 2..n, j \div 2 = k PROVE NoLater(h[c], h[j])
    BY <1>2, <1>6, <2>3, <2>4
  <2> QED
    BY <1>1, <1>6, <2>3, <2>4
<1> QED
  BY <1>4, <1>5, <1>6

(* The loop of pop is a move away from the root.                            *)
LEMMA SiftDownMoves ==
  ASSUME NEW n \in Nat \ {0}, NEW h \in [1..n -> Entries], Len(h) = n
  PROVE  /\ Descends(n, DownFrom(h, n), [k \in 1..n |-> n - k])
         /\ \E g : Traced(n, h, h[1], DownFrom(h, n), g) /\ SiftDown(h) = g[1]
<1> DEFINE x == h[1]
           next == DownFrom(h, n)
           Entry(k, i) == IF i = k THEN x ELSE h[i]
           L(k) == IF 2 * k <= n /\ LaterThan(x, h[2 * k]) THEN 2 * k ELSE k
           C(k) == IF 2 * k < n /\ LaterThan(Entry(k, L(k)), h[2 * k + 1]) THEN 2 * k + 1 ELSE L(k)
           Body(g, k) == IF C(k) = k THEN [h EXCEPT ![k] = x] ELSE [g[C(k)] EXCEPT ![k] = h[C(k)]]
           sink == CHOOSE g : g = [k \in 1..n |-> Body(g, k)]
<1>1. ASSUME NEW k \in 1..n PROVE next[k] = C(k)
  BY DEF DownFrom, LeftOf
<1>2. SiftDown(h) = sink[1]
  BY DEF SiftDown
<1> HIDE DEF C
<1>3. ASSUME NEW g, NEW k \in 1..n PROVE Body(g, k) = Moved(h, x, next, g, k)
  BY <1>1 DEF Moved, Placed
<1> HIDE DEF next, Body
<1>4. Descends(n, next, [k \in 1..n |-> n - k])
  <2>1. ASSUME NEW k \in 1..n PROVE next[k] = k \/ (next[k] \in 1..n /\ k < next[k])
    <3>1. \/ next[k] = k
          \/ next[k] \in 2..n /\ k < next[k]
      BY CandidateIs DEF next
    <3> QED
      BY <3>1
  <2>2. next \in [1..n -> 1..n]
    <3>1. next = [k \in 1..n |-> next[k]]
      BY DEF next, DownFrom
    <3> QED
      BY <2>1, <3>1
  <2>3. [k \in 1..n |-> n - k] \in [1..n -> 0..n]
    OBVIOUS
  <2>4. ASSUME NEW k \in 1..n
        PROVE  next[k] = k \/ [i \in 1..n |-> n - i][next[k]] < [i \in 1..n |-> n - i][k]
    BY <2>1
  <2> QED
    BY <2>2, <2>3, <2>4 DEF Descends
<1>5. ASSUME NEW g
      PROVE  Traced(n, h, x, next, g) <=> g = [k \in 1..n |-> Body(g, k)]
  BY <1>3 DEF Traced
<1>6. PICK g : Traced(n, h, x, next, g)
  BY <1>4, MoveExists
<1>7. g = [k \in 1..n |-> Body(g, k)]
  BY <1>5, <1>6
<1>8. sink = [k \in 1..n |-> Body(sink, k)]
  BY <1>7, Zenon
<1> HIDE DEF sink
<1>9. Traced(n, h, x, next, sink)
  BY <1>5, <1>8
<1> QED
  BY <1>2, <1>4, <1>9 DEF next

(* What the entry x has made of h when it sinks from position k: every      *)
(* entry is due no earlier than its parent, if not the root, or the root    *)
(* when the move began there; and what is at a position comes from there,   *)
(* from one of its children, or is x.                                       *)
Sunk(n, h, x, k, f) ==
  /\ \A j \in 2..n : j \div 2 >= 2 \/ k = 1 => NoLater(f[j \div 2], f[j])
  /\ \A i \in 1..n : f[i] = h[i] \/ f[i] = x \/ \E c \in 2..n : c \div 2 = i /\ f[i] = h[c]

(* When the entry at the root has sunk, the heap is in order again.         *)
LEMMA SiftDownOrders ==
  ASSUME NEW n \in Nat \ {0}, NEW h \in [1..n -> Entries],
         \A j \in 2..n : j \div 2 >= 2 => NoLater(h[j \div 2], h[j]),
         NEW g, Traced(n, h, h[1], DownFrom(h, n), g),
         Descends(n, DownFrom(h, n), [k \in 1..n |-> n - k])
  PROVE  Sunk(n, h, h[1], 1, g[1]) /\ Kept(n, h, h[1], [k \in 1..n |-> n - k], 1, g[1])
<1> DEFINE x == h[1]
           next == DownFrom(h, n)
           rank == [k \in 1..n |-> n - k]
           MaySink(k) == k = 1 \/ NoLater(h[k], x)
           Bad == {r \in 0..(n - 1) : MaySink(n - r) /\ ~Sunk(n, h, x, n - r, g[n - r])}
<1>0. x \in Entries /\ 1 \in 1..n
  OBVIOUS
<1>1. ASSUME NEW k \in 1..n
      PROVE  /\ g[k] \in [1..n -> Entries] /\ \A i \in 1..n : i < k => g[k][i] = h[i]
             /\ Kept(n, h, x, rank, k, g[k])
  <2>1. Kept(n, h, x, rank, k, g[k])
    BY <1>0, MoveKeeps
  <2>2. \A i \in 1..n : i < k => rank[i] > rank[k]
    OBVIOUS
  <2> QED
    BY <2>1, <2>2 DEF Kept
<1>2. ASSUME NEW j \in 2..n PROVE j \div 2 \in 1..n /\ j \div 2 < j /\ j \in 1..n /\ j \div 2 \in Nat
  BY Halves
<1>3. ASSUME Bad # {} PROVE FALSE
  <2>0. Bad \subseteq Nat
    OBVIOUS
  <2> HIDE DEF Bad
  <2>1. PICK r \in Bad : \A m \in Bad : r <= m
    BY <1>3, <2>0, LeastOf
  <2> USE DEF Bad
  <2> DEFINE k == n - r
  <2>2. k \in 1..n /\ k \in Nat /\ r = n - k /\ r \in Nat
    OBVIOUS
  <2>a. MaySink(k) /\ ~Sunk(n, h, x, k, g[k])
    OBVIOUS
  <2> HIDE DEF k
  <2>3. g[k] = Moved(h, x, next, g, k)
    BY <2>2 DEF Traced
  <2> HIDE DEF Bad, x
  <2> DEFINE c == next[k]
             f == g[k]
  <2>b. \/ c = k /\ \A j \in 2..n : j \div 2 = k => NoLater(x, h[j])
        \/ /\ c \in 2..n /\ c \div 2 = k /\ k < c /\ NoLater(h[c], x)
           /\ \A j \in 2..n : j \div 2 = k => NoLater(h[c], h[j])
    BY <2>2, CandidateIs DEF x
  <2> HIDE DEF next
  <2>4. CASE c = k /\ \A j \in 2..n : j \div 2 = k => NoLater(x, h[j])
    <3>1. f = Placed(h, k, x)
      BY <2>3, <2>4 DEF Moved
    <3>2. f[k] = x /\ \A i \in 1..n : i # k => f[i] = h[i]
      BY <2>2, <3>1 DEF Placed
    <3> HIDE DEF f, c
    <3>3. ASSUME NEW j \in 2..n, j \div 2 >= 2 \/ k = 1 PROVE NoLater(f[j \div 2], f[j])
      <4>1. CASE j = k
        <5>1. j \div 2 >= 2 /\ NoLater(h[k], x)
          BY <2>a, <3>3, <4>1
        <5>2. f[j \div 2] = h[j \div 2] /\ f[j] = x
          BY <1>2, <3>2, <4>1
        <5>3. NoLater(h[j \div 2], h[j]) /\ h[j \div 2] \in Entries /\ h[j] \in Entries
          BY <1>2, <5>1
        <5> QED
          BY <1>0, <4>1, <5>1, <5>2, <5>3, DueOrder
      <4>2. CASE j # k /\ j \div 2 = k
        BY <1>2, <2>4, <3>2, <4>2
      <4>3. CASE j # k /\ j \div 2 # k
        <5>1. j \div 2 >= 2
          BY <1>2, <3>3, <4>3
        <5> QED
          BY <1>2, <3>2, <4>3, <5>1
      <4> QED
        BY <4>1, <4>2, <4>3
    <3>4. Sunk(n, h, x, k, f)
      BY <3>2, <3>3 DEF Sunk
    <3> QED
      BY <2>a, <3>4 DEF f
  <2>5. CASE /\ c \in 2..n /\ c \div 2 = k /\ k < c /\ NoLater(h[c], x)
             /\ \A j \in 2..n : j \div 2 = k => NoLater(h[c], h[j])
    <3> DEFINE e == g[c]
    <3>1. c \in 1..n /\ c \in Nat /\ c # k /\ h[c] \in Entries
      BY <2>2, <2>5
    <3>2. f = Placed(e, k, h[c])
      BY <2>3, <3>1 DEF Moved
    <3>3. e \in [1..n -> Entries] /\ \A i \in 1..n : i < c => e[i] = h[i]
      BY <1>1, <3>1
    <3>4. Sunk(n, h, x, c, e)
      <4>1. n - c \in 0..(n - 1) /\ ~(r <= n - c) /\ n - (n - c) = c
        BY <2>2, <2>5, <3>1
      <4> HIDE DEF c, f
      <4>2. n - c \notin Bad
        BY <2>1, <4>1
      <4> QED
        BY <2>5, <4>1, <4>2 DEF Bad
    <3> HIDE DEF e, f, c
    <3>5. f[k] = h[c] /\ \A i \in 1..n : i # k => f[i] = e[i]
      BY <2>2, <3>2, <3>3 DEF Placed
    <3>6. ASSUME NEW j \in 2..n, j \div 2 >= 2 \/ k = 1 PROVE NoLater(f[j \div 2], f[j])
      <4>1. CASE j = k
        <5>1. j \div 2 >= 2 /\ k >= 2
          BY <3>6, <4>1
        <5>2. f[j \div 2] = h[j \div 2] /\ f[j] = h[c]
          <6>1. j \div 2 \in 1..n /\ j \div 2 # k /\ j \div 2 < c
            BY <1>2, <2>2, <2>5, <3>1, <4>1
          <6> QED
            BY <3>3, <3>5, <4>1, <6>1
        <5>3. NoLater(h[j \div 2], h[j]) /\ h[j \div 2] \in Entries /\ h[j] \in Entries
          BY <1>2, <5>1
        <5>4. NoLater(h[k], h[c])
          BY <2>5, <5>1
        <5> QED
          BY <3>1, <4>1, <5>2, <5>3, <5>4, DueOrder
      <4>2. CASE j # k /\ j \div 2 = k
        <5>1. f[j \div 2] = h[c] /\ f[j] = e[j] /\ NoLater(h[c], h[j]) /\ h[j] \in Entries
          BY <1>2, <2>5, <3>5, <4>2
        <5>2. e[j] = h[j] \/ e[j] = x \/ \E b \in 2..n : b \div 2 = j /\ e[j] = h[b]
          BY <1>2, <3>4 DEF Sunk
        <5>3. ASSUME NEW b \in 2..n, b \div 2 = j PROVE NoLater(h[c], h[b])
          <6>1. NoLater(h[j], h[b]) /\ h[b] \in Entries
            BY <1>2, <5>3
          <6> QED
            BY <3>1, <5>1, <6>1, DueOrder
        <5> QED
          BY <2>5, <5>1, <5>2, <5>3
      <4>3. CASE j # k /\ j \div 2 # k
        <5>1. j \div 2 >= 2
          BY <1>2, <3>6, <4>3
        <5>2. f[j \div 2] = e[j \div 2] /\ f[j] = e[j]
          BY <1>2, <3>5, <4>3
        <5> QED
          BY <3>4, <5>1, <5>2 DEF Sunk
      <4> QED
        BY <4>1, <4>2, <4>3
    <3>7. ASSUME NEW i \in 1..n
          PROVE  f[i] = h[i] \/ f[i] = x \/ \E b \in 2..n : b \div 2 = i /\ f[i] = h[b]
      <4>1. CASE i = k
        BY <2>5, <3>5, <4>1
      <4>2. CASE i # k
        BY <3>4, <3>5, <4>2 DEF Sunk
      <4> QED
        BY <4>1, <4>2
    <3>8. Sunk(n, h, x, k, f)
      BY <3>6, <3>7 DEF Sunk
    <3> QED
      BY <2>a, <3>8 DEF f
  <2> QED
    BY <2>b, <2>4, <2>5
<1>4. n - 1 \notin Bad
  <2> HIDE DEF Bad
  <2> QED
    BY <1>3
<1>5. n - 1 \in 0..(n - 1) /\ n - (n - 1) = 1
  OBVIOUS
<1>6. Sunk(n, h, x, 1, g[1])
  BY <1>4, <1>5
<1> QED
  BY <1>0, <1>1, <1>6

(* The bag of a heap counts each entry.                                     *)
LEMMA ToBagCounts ==
  ASSUME NEW h, IsFiniteSet(DOMAIN h)
  PROVE  /\ ToBag(h) = [x \in DOMAIN ToBag(h) |-> HowMany(h, {x})]
         /\ \A x \in DOMAIN ToBag(h) : ToBag(h)[x] = HowMany(h, {x})
         /\ \A x : x \in DOMAIN ToBag(h) <=> HowMany(h, {x}) > 0
         /\ \A x : x \in DOMAIN ToBag(h) <=> \E i \in DOMAIN h : h[i] = x
         /\ \A x : HowMany(h, {x}) \in Nat
<1>1. ASSUME NEW x PROVE Cardinality({i \in DOMAIN h : h[i] = x}) = HowMany(h, {x})
  <2>1. {i \in DOMAIN h : h[i] = x} = Places(h, {x})
    BY DEF Places
  <2> QED
    BY <2>1 DEF HowMany
<1>2. ToBag(h) = [x \in DOMAIN ToBag(h) |-> HowMany(h, {x})]
  BY <1>1 DEF ToBag
<1>3. ASSUME NEW x PROVE x \in DOMAIN ToBag(h) <=> \E i \in DOMAIN h : h[i] = x
  BY DEF ToBag, Range
<1>4. ASSUME NEW x PROVE HowMany(h, {x}) \in Nat /\ (HowMany(h, {x}) = 0 <=> ~ \E i \in DOMAIN h : h[i] = x)
  BY PlacesFinite
<1>5. ASSUME NEW x PROVE x \in DOMAIN ToBag(h) <=> HowMany(h, {x}) > 0
  <2>1. HowMany(h, {x}) \in Nat /\ (HowMany(h, {x}) = 0 <=> ~ \E i \in DOMAIN h : h[i] = x)
    BY <1>4
  <2>2. HowMany(h, {x}) > 0 <=> HowMany(h, {x}) # 0
    BY <2>1
  <2> QED
    BY <1>3, <2>1, <2>2
<1>6. \A x \in DOMAIN ToBag(h) : ToBag(h)[x] = HowMany(h, {x})
  BY <1>1 DEF ToBag
<1> QED
  BY <1>2, <1>3, <1>4, <1>5, <1>6

(* f holds one e more, or one less, than h.                                 *)
OneMore(f, h, e) == \A P : HowMany(f, P) = HowMany(h, P) + (IF e \in P THEN 1 ELSE 0)
OneLess(f, h, e) == \A P : HowMany(f, P) = HowMany(h, P) - (IF e \in P THEN 1 ELSE 0)

(* A heap with one more entry is a bag with one more.                       *)
LEMMA BagPushed ==
  ASSUME NEW h, IsFiniteSet(DOMAIN h), NEW f, IsFiniteSet(DOMAIN f), NEW e,
         OneMore(f, h, e)
  PROVE  ToBag(f) = ToBag(h) (+) SetToBag({e})
<1> DEFINE B == ToBag(h)
           S == SetToBag({e})
           U == B (+) S
<1>1. DOMAIN S = {e} /\ S[e] = 1
  BY DEF SetToBag
<1>2. /\ U = [x \in DOMAIN B \cup {e} |-> U[x]]
      /\ \A x \in DOMAIN B \cup {e} : U[x] = (IF x \in DOMAIN B THEN B[x] ELSE 0) + (IF x \in {e} THEN S[x] ELSE 0)
  BY <1>1 DEF (+)
<1>3. \A x : (x \in DOMAIN B <=> HowMany(h, {x}) > 0) /\ HowMany(h, {x}) \in Nat
  BY ToBagCounts
<1>4. \A x \in DOMAIN B : B[x] = HowMany(h, {x})
  BY ToBagCounts
<1>5. ToBag(f) = [x \in DOMAIN ToBag(f) |-> HowMany(f, {x})]
  BY ToBagCounts
<1>6. \A x : x \in DOMAIN ToBag(f) <=> HowMany(f, {x}) > 0
  BY ToBagCounts
<1> HIDE DEF B, S, U
<1>7. ASSUME NEW x PROVE HowMany(f, {x}) = HowMany(h, {x}) + (IF x = e THEN 1 ELSE 0)
  <2>1. e \in {x} <=> x = e
    OBVIOUS
  <2> QED
    BY <2>1 DEF OneMore
<1>8. ASSUME NEW x PROVE x \in DOMAIN ToBag(f) <=> x \in DOMAIN B \cup {e}
  <2>1. HowMany(h, {x}) \in Nat /\ (x \in DOMAIN B <=> HowMany(h, {x}) > 0)
    BY <1>3
  <2>2. x \in DOMAIN ToBag(f) <=> HowMany(f, {x}) > 0
    BY <1>6
  <2>3. CASE x = e
    <3>1. HowMany(f, {x}) = HowMany(h, {x}) + 1
      BY <1>7, <2>3
    <3> QED
      BY <2>1, <2>2, <2>3, <3>1
  <2>4. CASE x # e
    <3>1. HowMany(f, {x}) = HowMany(h, {x}) + 0
      BY <1>7, <2>4
    <3> QED
      BY <2>1, <2>2, <2>4, <3>1
  <2> QED
    BY <2>3, <2>4
<1>9. ASSUME NEW x \in DOMAIN B \cup {e} PROVE U[x] = HowMany(f, {x})
  <2>1. HowMany(h, {x}) \in Nat
    BY <1>3
  <2>2. (IF x \in DOMAIN B THEN B[x] ELSE 0) = HowMany(h, {x})
    BY <1>3, <1>4, <2>1
  <2>3. (IF x \in {e} THEN S[x] ELSE 0) = IF x = e THEN 1 ELSE 0
    BY <1>1
  <2> QED
    BY <1>2, <1>7, <2>2, <2>3
<1>10. DOMAIN ToBag(f) = DOMAIN B \cup {e}
  BY <1>8
<1>11. U = ToBag(f)
  BY <1>2, <1>5, <1>9, <1>10
<1> QED
  BY <1>11 DEF U, B, S

(* A heap with one entry less is a bag with one less.                       *)
LEMMA BagPopped ==
  ASSUME NEW h, IsFiniteSet(DOMAIN h), NEW f, IsFiniteSet(DOMAIN f), NEW e,
         OneLess(f, h, e)
  PROVE  ToBag(f) = ToBag(h) (-) SetToBag({e})
<1> DEFINE B == ToBag(h)
           S == SetToBag({e})
           D == [x \in DOMAIN B |-> IF x \in DOMAIN S THEN B[x] - S[x] ELSE B[x]]
           U == B (-) S
<1>1. DOMAIN S = {e} /\ S[e] = 1
  BY DEF SetToBag
<1>2. U = [x \in {d \in DOMAIN D : D[d] > 0} |-> D[x]]
  BY DEF (-)
<1>3. \A x : (x \in DOMAIN B <=> HowMany(h, {x}) > 0) /\ HowMany(h, {x}) \in Nat
  BY ToBagCounts
<1>4. \A x \in DOMAIN B : B[x] = HowMany(h, {x})
  BY ToBagCounts
<1>5. ToBag(f) = [x \in DOMAIN ToBag(f) |-> HowMany(f, {x})]
  BY ToBagCounts
<1>6. \A x : (x \in DOMAIN ToBag(f) <=> HowMany(f, {x}) > 0) /\ HowMany(f, {x}) \in Nat
  BY ToBagCounts
<1>7. DOMAIN D = DOMAIN B /\ \A x \in DOMAIN B : D[x] = IF x \in DOMAIN S THEN B[x] - S[x] ELSE B[x]
  OBVIOUS
<1> HIDE DEF B, S, D, U
<1>8. ASSUME NEW x PROVE HowMany(f, {x}) = HowMany(h, {x}) - (IF x = e THEN 1 ELSE 0)
  <2>1. e \in {x} <=> x = e
    OBVIOUS
  <2> QED
    BY <2>1 DEF OneLess
<1>9. ASSUME NEW x \in DOMAIN B PROVE D[x] = HowMany(f, {x})
  <2>1. B[x] = HowMany(h, {x})
    BY <1>4
  <2>2. CASE x = e
    BY <1>1, <1>7, <1>8, <2>1, <2>2
  <2>3. CASE x # e
    <3>1. HowMany(h, {x}) \in Nat /\ x \notin DOMAIN S
      BY <1>1, <1>3, <2>3
    <3>2. HowMany(f, {x}) = HowMany(h, {x}) - 0
      BY <1>8, <2>3
    <3>3. D[x] = B[x]
      BY <1>7, <3>1
    <3> QED
      BY <2>1, <3>1, <3>2, <3>3
  <2> QED
    BY <2>2, <2>3
<1>10. ASSUME NEW x PROVE x \in DOMAIN ToBag(f) <=> x \in DOMAIN B /\ D[x] > 0
  <2>1. ASSUME x \notin DOMAIN B PROVE x \notin DOMAIN ToBag(f)
    <3>1. HowMany(h, {x}) = 0
      BY <1>3, <2>1
    <3>a. HowMany(f, {x}) = HowMany(h, {x}) - 0 \/ HowMany(f, {x}) = HowMany(h, {x}) - 1
      BY <1>8
    <3>2. ~(HowMany(f, {x}) > 0)
      BY <3>1, <3>a
    <3> QED
      BY <1>6, <3>2
  <2> QED
    BY <1>6, <1>9, <2>1
<1>11. DOMAIN ToBag(f) = {d \in DOMAIN D : D[d] > 0}
  BY <1>7, <1>10
<1>12. U = ToBag(f)
  BY <1>2, <1>5, <1>7, <1>9, <1>11
<1> QED
  BY <1>12 DEF U, B, S

(* A function on 1..n is a sequence of length n.                            *)
LEMMA EntrySeq ==
  ASSUME NEW n \in Nat, NEW f \in [1..n -> Entries]
  PROVE  f \in Seq(Entries) /\ Len(f) = n
  OBVIOUS

(* Every entry of h is due no earlier than its parent.                      *)
InOrder(h) == \A j \in 2..Len(h) : NoLater(h[j \div 2], h[j])

(* The root of an ordered heap is due first.                                *)
LEMMA RootFirst ==
  ASSUME NEW h \in Seq(Entries), InOrder(h), NEW i \in 1..Len(h)
  PROVE  NoLater(h[1], h[i])
<1> DEFINE n == Len(h)
           Bad == {k \in 1..n : ~NoLater(h[1], h[k])}
<1>0. n \in Nat /\ \A k \in 1..n : h[k] \in Entries
  OBVIOUS
<1>1. ASSUME Bad # {} PROVE FALSE
  <2>0. Bad \subseteq Nat
    OBVIOUS
  <2> HIDE DEF Bad
  <2>1. PICK k \in Bad : \A m \in Bad : k <= m
    BY <1>1, <2>0, LeastOf
  <2>2. k \in 1..n /\ ~NoLater(h[1], h[k])
    BY DEF Bad
  <2>3. 1 \in 1..n /\ h[1] \in Entries /\ h[k] \in Entries
    BY <1>0, <2>2
  <2>4. k # 1
    BY <2>2, <2>3, DueOrder
  <2>5. k \in 2..n /\ k \in Nat /\ k >= 2
    BY <1>0, <2>2, <2>4
  <2>6. k \div 2 \in 1..n /\ ~(k <= k \div 2)
    BY <1>0, <2>5, Halves
  <2>7. NoLater(h[1], h[k \div 2])
    BY <2>1, <2>6 DEF Bad
  <2>8. NoLater(h[k \div 2], h[k]) /\ h[k \div 2] \in Entries
    BY <1>0, <2>5, <2>6 DEF InOrder
  <2> QED
    BY <2>2, <2>3, <2>7, <2>8, DueOrder
<1> QED
  BY <1>1

(* push adds its entry and keeps the heap in order.                         *)
LEMMA Pushed ==
  ASSUME NEW q \in Seq(Entries), InOrder(q), NEW e \in Entries,
         NEW r, r = SiftUp(Append(q, e))
  PROVE  /\ r \in Seq(Entries) /\ InOrder(r)
         /\ ToBag(r) = ToBag(q) (+) SetToBag({e})
<1> DEFINE h == Append(q, e)
           n == Len(q) + 1
<1>0. Len(q) \in Nat /\ n \in Nat \ {0} /\ Len(q) = n - 1
  OBVIOUS
<1>a. h \in Seq(Entries) /\ Len(h) = n /\ h[n] = e /\ \A i \in 1..Len(q) : h[i] = q[i]
  OBVIOUS
<1>1. /\ n \in Nat \ {0} /\ h \in Seq(Entries) /\ Len(h) = n /\ h \in [1..n -> Entries]
      /\ h[n] = e /\ \A i \in 1..(n - 1) : h[i] = q[i]
      /\ Len(q) = n - 1
  <2> HIDE DEF h, n
  <2>1. h \in [1..n -> Entries]
    BY <1>0, <1>a
  <2> QED
    BY <1>0, <1>a, <2>1
<1>2. \A j \in 2..(n - 1) : NoLater(h[j \div 2], h[j])
  <2>1. ASSUME NEW j \in 2..(n - 1) PROVE NoLater(h[j \div 2], h[j])
    <3>1. j \in 1..(n - 1) /\ j \div 2 \in 1..(n - 1) /\ j \in 2..Len(q)
      BY <1>1, Halves
    <3> QED
      BY <1>1, <3>1 DEF InOrder
  <2> QED
    BY <2>1
<1>3. \A P : HowMany(h, P) = HowMany(q, P) + (IF e \in P THEN 1 ELSE 0)
  BY HowManyAppend
<1>4. r = SiftUp(h)
  OBVIOUS
<1> HIDE DEF h, n
<1>5. Descends(n, UpFrom(h, n), [k \in 1..n |-> k])
  BY <1>1, SiftUpMoves
<1>6. PICK g : Traced(n, h, h[n], UpFrom(h, n), g) /\ SiftUp(h) = g[n]
  BY <1>1, SiftUpMoves
<1>7. Risen(n, h, h[n], n, r) /\ Kept(n, h, h[n], [k \in 1..n |-> k], n, r)
  BY <1>1, <1>2, <1>4, <1>5, <1>6, SiftUpOrders
<1>8. r \in [1..n -> Entries] /\ \A P : HowMany(r, P) = HowMany(Placed(h, n, h[n]), P)
  BY <1>7 DEF Kept
<1>9. Placed(h, n, h[n]) = h
  BY <1>1 DEF Placed
<1>10. r \in Seq(Entries) /\ Len(r) = n
  <2>1. n \in Nat /\ r \in [1..n -> Entries]
    BY <1>1, <1>8
  <2> QED
    BY ONLY <2>1, EntrySeq
<1>11. InOrder(r)
  BY <1>7, <1>10 DEF InOrder, Risen
<1>12. OneMore(r, q, e)
  BY <1>3, <1>8, <1>9 DEF OneMore
<1>13. IsFiniteSet(DOMAIN q) /\ IsFiniteSet(DOMAIN r)
  BY <1>10, QueuePlaces
<1>14. ToBag(r) = ToBag(q) (+) SetToBag({e})
  BY <1>12, <1>13, BagPushed
<1> QED
  BY <1>10, <1>11, <1>14

(* What pop makes of a heap.                                                *)
Rest(q) == IF Len(q) = 1 THEN <<>> ELSE SiftDown(<<Last(q)>> \o SubSeq(q, 2, Len(q) - 1))

(* pop takes the root and keeps the heap in order.                          *)
LEMMA Popped ==
  ASSUME NEW q \in Seq(Entries), InOrder(q), q # <<>>, NEW r, r = Rest(q)
  PROVE  /\ r \in Seq(Entries) /\ InOrder(r)
         /\ ToBag(r) = ToBag(q) (-) SetToBag({q[1]})
<1> DEFINE n == Len(q) - 1
           front == [i \in 1..n |-> q[i]]
           h == [i \in 1..n |-> IF i = 1 THEN q[n + 1] ELSE q[i]]
<1>1. Len(q) \in Nat /\ Len(q) >= 1 /\ n \in Nat /\ Len(q) = n + 1 /\ \A i \in 1..(n + 1) : q[i] \in Entries
  OBVIOUS
<1>2. front \in [1..n -> Entries] /\ h \in [1..n -> Entries] /\ q[n + 1] \in Entries
  BY <1>1
<1>3. front \in Seq(Entries) /\ Len(front) = n /\ h \in Seq(Entries) /\ Len(h) = n
  <2> HIDE DEF front, h, n
  <2> QED
    BY ONLY <1>1, <1>2, EntrySeq
<1>4. q = Append(front, q[n + 1])
  BY <1>1, <1>2, <1>3
<1>5. ASSUME NEW P PROVE HowMany(q, P) = HowMany(front, P) + (IF q[n + 1] \in P THEN 1 ELSE 0)
  <2> HIDE DEF front
  <2>1. HowMany(Append(front, q[n + 1]), P) = HowMany(front, P) + (IF q[n + 1] \in P THEN 1 ELSE 0)
    BY <1>2, <1>3, HowManyAppend
  <2> QED
    BY <1>4, <2>1
<1>6. IsFiniteSet(DOMAIN q) /\ IsFiniteSet(1..n) /\ DOMAIN front = 1..n /\ DOMAIN h = 1..n
  <2>1. IsFiniteSet(DOMAIN q)
    BY QueuePlaces
  <2>2. IsFiniteSet(1..n)
    BY <1>1, FS_Interval
  <2> QED
    BY <2>1, <2>2
<1>7. CASE n = 0
  <2>1. r = <<>>
    BY <1>1, <1>7 DEF Rest
  <2>2. <<>> \in Seq(Entries) /\ InOrder(<<>>) /\ DOMAIN <<>> = {} /\ IsFiniteSet(DOMAIN <<>>)
    BY FS_EmptySet DEF InOrder
  <2>3. ASSUME NEW P PROVE HowMany(<<>>, P) = HowMany(q, P) - (IF q[1] \in P THEN 1 ELSE 0)
    <3>1. HowMany(<<>>, P) = 0
      BY <2>2, PlacesFinite
    <3>2. HowMany(front, P) = 0
      BY <1>6, <1>7, PlacesFinite
    <3>3. HowMany(q, P) = (IF q[1] \in P THEN 1 ELSE 0)
      BY <1>5, <1>7, <3>2
    <3> QED
      BY <3>1, <3>3
  <2>4. ToBag(<<>>) = ToBag(q) (-) SetToBag({q[1]})
    BY <1>6, <2>2, <2>3, BagPopped DEF OneLess
  <2> QED
    BY <2>1, <2>2, <2>4
<1>8. CASE n # 0
  <2>0. n \in Nat \ {0} /\ 1 \in 1..n
    BY <1>1, <1>8
  <2>1. r = SiftDown(h)
    <3>1. <<Last(q)>> \o SubSeq(q, 2, Len(q) - 1) = h
      BY <1>1, <2>0 DEF Last
    <3>2. Len(q) # 1
      BY <1>1, <2>0
    <3> HIDE DEF h
    <3> QED
      BY <3>1, <3>2 DEF Rest
  <2>2. \A j \in 2..n : j \div 2 >= 2 => NoLater(h[j \div 2], h[j])
    <3>1. ASSUME NEW j \in 2..n, j \div 2 >= 2 PROVE NoLater(h[j \div 2], h[j])
      <4>1. j \in 2..Len(q) /\ j \in 1..n /\ j # 1 /\ j \div 2 \in 1..n /\ j \div 2 # 1
        BY <1>1, <3>1, Halves
      <4>2. h[j] = q[j] /\ h[j \div 2] = q[j \div 2]
        BY <4>1
      <4> QED
        BY <4>1, <4>2 DEF InOrder
    <3> QED
      BY <3>1
  <2>3. ASSUME NEW P PROVE HowMany(h, P) = HowMany(q, P) - (IF q[1] \in P THEN 1 ELSE 0)
    <3>1. front[1] = q[1] /\ h[1] = q[n + 1] /\ \A i \in 1..n : i # 1 => h[i] = front[i]
      BY <2>0
    <3> HIDE DEF front, h
    <3>2. HowMany(h, P) = HowMany(front, P) - (IF q[1] \in P THEN 1 ELSE 0) + (IF q[n + 1] \in P THEN 1 ELSE 0)
      BY <1>6, <2>0, <3>1, HowManyExcept
    <3>3. HowMany(front, P) \in Nat
      BY <1>6, PlacesFinite
    <3> QED
      BY <1>5, <3>2, <3>3
  <2> HIDE DEF h, n
  <2>4. Descends(n, DownFrom(h, n), [k \in 1..n |-> n - k])
    BY <1>2, <1>3, <2>0, SiftDownMoves
  <2>5. PICK g : Traced(n, h, h[1], DownFrom(h, n), g) /\ SiftDown(h) = g[1]
    BY <1>2, <1>3, <2>0, SiftDownMoves
  <2>6. Sunk(n, h, h[1], 1, r) /\ Kept(n, h, h[1], [k \in 1..n |-> n - k], 1, r)
    BY <1>2, <2>0, <2>1, <2>2, <2>4, <2>5, SiftDownOrders
  <2>7. r \in [1..n -> Entries] /\ \A P : HowMany(r, P) = HowMany(Placed(h, 1, h[1]), P)
    BY <2>6 DEF Kept
  <2>8. Placed(h, 1, h[1]) = h
    BY <1>2, <2>0 DEF Placed
  <2>9. r \in Seq(Entries) /\ Len(r) = n
    BY ONLY <1>1, <2>7, EntrySeq
  <2>10. InOrder(r)
    BY <2>6, <2>9 DEF InOrder, Sunk
  <2>11. OneLess(r, q, q[1])
    BY <2>3, <2>7, <2>8 DEF OneLess
  <2>12. IsFiniteSet(DOMAIN r)
    BY <2>9, QueuePlaces
  <2>13. ToBag(r) = ToBag(q) (-) SetToBag({q[1]})
    BY <1>6, <2>11, <2>12, BagPopped
  <2> QED
    BY <2>9, <2>10, <2>13
<1> QED
  BY <1>7, <1>8

(* The heap is in order, and what top() has shown is still its root.        *)
HeapInv ==
  /\ heap \in Seq(Entries) /\ InOrder(heap)
  /\ answer = Refused \/ answer = Done \/ (heap # <<>> /\ answer = Found(heap[1]))

(* The root is one of the entries that are due first.                       *)
LEMMA RootIsFirst ==
  ASSUME NEW q \in Seq(Entries), InOrder(q), q # <<>>
  PROVE  q[1] \in Queue!First(ToBag(q))
<1>1. DOMAIN q = 1..Len(q) /\ IsFiniteSet(DOMAIN q) /\ 1 \in 1..Len(q)
  BY QueuePlaces
<1>2. \A x : x \in DOMAIN ToBag(q) <=> \E i \in DOMAIN q : q[i] = x
  BY <1>1, ToBagCounts
<1>3. \A i \in 1..Len(q) : q[1][1] <= q[i][1]
  BY RootFirst DEF NoLater
<1> QED
  BY <1>1, <1>2, <1>3 DEF Queue!First, Queue!BagToSet

(* An empty heap is an empty bag.                                           *)
LEMMA EmptyHeap == ToBag(<<>>) = Queue!EmptyBag /\ <<>> \in Seq(Entries) /\ InOrder(<<>>)
<1>1. Range(<<>>) = {}
  BY DEF Range
<1>2. ToBag(<<>>) = Queue!EmptyBag
  BY <1>1 DEF ToBag, Queue!EmptyBag, Queue!SetToBag
<1> QED
  BY <1>2 DEF InOrder

(* The heap is in order initially, when the queue is empty.                 *)
LEMMA HeapInvInit ==
  ASSUME HeapInit
  PROVE  HeapInv /\ Queue!Init
  BY EmptyHeap DEF HeapInit, HeapInv, Queue!Init, Refused, Queue!Refused

(* Every step keeps the heap in order and is a step of the queue.           *)
LEMMA HeapInvNext ==
  ASSUME HeapInv, [HeapNext]_heapVars
  PROVE  HeapInv' /\ [Queue!Next]_<<ToBag(heap), asked, answer>>
<1>0. heap \in Seq(Entries) /\ InOrder(heap)
  BY DEF HeapInv
<1>a. Done = Queue!Done /\ Refused = Queue!Refused /\ \A e : Found(e) = Queue!Found(e)
  BY DEF Done, Queue!Done, Refused, Queue!Refused, Found, Queue!Found
<1>1. ASSUME NEW e \in Entries, NEW memory \in BOOLEAN, HeapPush(e, memory),
             ~(GrownLength > arrayLength /\ ~memory)
      PROVE  HeapInv' /\ Queue!Push(e, memory)
  <2>1. /\ heap' = SiftUp(Append(heap, e)) /\ answer' = Done
        /\ asked' = [op |-> "push", entry |-> e, memory |-> memory]
    BY <1>1 DEF HeapPush
  <2>2. /\ heap' \in Seq(Entries) /\ InOrder(heap')
        /\ ToBag(heap') = ToBag(heap) (+) SetToBag({e})
    BY <1>0, <2>1, Pushed
  <2>3. ToBag(heap') = Queue!(+)(ToBag(heap), Queue!SetToBag({e}))
    BY <2>2 DEF (+), SetToBag, Queue!(+), Queue!SetToBag
  <2> QED
    BY <1>a, <2>1, <2>2, <2>3 DEF HeapInv, Queue!Push
<1>2. ASSUME NEW e \in Entries, NEW memory \in BOOLEAN, HeapPush(e, memory),
             GrownLength > arrayLength /\ ~memory
      PROVE  HeapInv' /\ Queue!Push(e, memory)
  BY <1>0, <1>2, <1>a DEF HeapPush, HeapInv, Queue!Push
<1>3. ASSUME HeapTop PROVE HeapInv' /\ Queue!Top
  <2>1. heap # <<>> /\ asked' = [op |-> "top"] /\ answer' = Found(heap[1]) /\ heap' = heap
    BY <1>3 DEF HeapTop
  <2>2. heap[1] \in Queue!First(ToBag(heap))
    BY <1>0, <2>1, RootIsFirst
  <2> QED
    BY <1>0, <1>a, <2>1, <2>2 DEF HeapInv, Queue!Top
<1>4. ASSUME HeapPop PROVE HeapInv' /\ Queue!Pop
  <2>1. heap # <<>> /\ asked' = [op |-> "pop"] /\ heap' = Rest(heap) /\ answer' = Done
    BY <1>4 DEF HeapPop, Rest
  <2>2. /\ heap' \in Seq(Entries) /\ InOrder(heap')
        /\ ToBag(heap') = ToBag(heap) (-) SetToBag({heap[1]})
    BY <1>0, <2>1, Popped
  <2>3. ToBag(heap') = Queue!(-)(ToBag(heap), Queue!SetToBag({heap[1]}))
    BY <2>2 DEF (-), SetToBag, Queue!(-), Queue!SetToBag
  <2>4. heap[1] \in Queue!First(ToBag(heap))
    BY <1>0, <2>1, RootIsFirst
  <2>5. "entry" \in DOMAIN answer => heap[1] = answer.entry
    <3>1. answer = Refused \/ answer = Done \/ answer = Found(heap[1])
      BY DEF HeapInv
    <3> QED
      BY <3>1 DEF Refused, Done, Found
  <2> QED
    BY <1>a, <2>1, <2>2, <2>3, <2>4, <2>5 DEF HeapInv, Queue!Pop
<1>5. ASSUME HeapClear PROVE HeapInv' /\ Queue!Clear
  BY <1>5, <1>a, EmptyHeap DEF HeapClear, HeapInv, Queue!Clear
<1>6. CASE UNCHANGED heapVars
  BY <1>0, <1>6 DEF heapVars, HeapInv
<1> QED
  BY <1>1, <1>2, <1>3, <1>4, <1>5, <1>6 DEF HeapNext, Queue!Next

(* The due heap implements the queue that SchedulerCore relies on: over     *)
(* every order of pushes, pops and refused allocations the entries that     *)
(* were pushed are there once each until they are popped, a push fails for  *)
(* want of memory only, top() shows one that is due first, and pop() takes  *)
(* that one, whatever the due times and however long the heap.              *)
THEOREM HeapRefinesQueue == HeapSpec => ImplementsDueQueue
<1>1. HeapInit => HeapInv /\ Queue!Init
  BY HeapInvInit
<1>2. HeapInv /\ [HeapNext]_heapVars => HeapInv' /\ [Queue!Next]_<<ToBag(heap), asked, answer>>
  BY HeapInvNext
<1> QED
  BY <1>1, <1>2, PTL DEF HeapSpec, ImplementsDueQueue, Queue!Spec

--------------------------------------------------------------------------------
(* The v1 wrapper: its inductive invariant *)

(* What addJob can have stored. *)
StoredJobs == {JobOptionsForMode(r[1], r[2]) : r \in Requests}

Commands ==
  [op : {"Add"}, job : StoredJobs] \cup [op : {"Cancel", "PauseOrResume"}, id : Nat]
    \cup [op : {"CancelAll"}]

(* The ids given so far. *)
Given == 1..(nextId - 1)

CompatTypeOK ==
  /\ nextId \in Nat \ {0}
  /\ DOMAIN jobs \subseteq Given /\ \A id \in DOMAIN jobs : jobs[id] \in StoredJobs
  /\ late \in Seq(Commands)
  /\ known \subseteq Given /\ tracked \in Seq(Nat)
  /\ scan \in [at : {"None", "Prune", "List", "Done"}, todo : Seq(Nat), active : Seq(Nat),
               index : Int, current : Nat, before : SUBSET Nat, found : Nat]
  /\ scan.before \subseteq Given

Elements(s)  == {s[i] : i \in 1..Len(s)}
Ascending(s) == \A i, j \in 1..Len(s) : i < j => s[i] < s[j]

(* The list has the application's jobs in the order in which they were      *)
(* added, those that have ended perhaps among them.                         *)
ListIsComplete ==
  scan.at # "Prune" =>
    /\ Ascending(tracked) /\ Elements(tracked) \subseteq known
    /\ known \cap DOMAIN jobs \subseteq Elements(tracked)

(* pruneTrackedJobs has taken over, or has still to ask for, every job that *)
(* is left.                                                                 *)
PruneIsComplete ==
  scan.at = "Prune" =>
    /\ Ascending(scan.todo) /\ Ascending(scan.active)
    /\ \A a \in Elements(scan.active), b \in Elements(scan.todo) : a < b
    /\ Elements(scan.active) \subseteq known /\ Elements(scan.todo) \subseteq known
    /\ Elements(scan.active) \subseteq scan.before
    /\ known \cap DOMAIN jobs \subseteq scan.before
    /\ scan.before \cap DOMAIN jobs \subseteq Elements(scan.active) \cup Elements(scan.todo)
    /\ scan.current = 0 /\ scan.found = 0 /\ scan.index \in {Cleanup} \cup Nat

(* Jobs the second pass is through with that are still there, and jobs that *)
(* were there and come before those it has still to ask for.                *)
Passed  == (scan.before \cap DOMAIN jobs) \ Elements(scan.todo)
Earlier == {id \in scan.before : \A b \in Elements(scan.todo) : id < b}

(* currentIndex counts no fewer than the former and no more than the latter. *)
CountIsBetween ==
  scan.at = "List" =>
    /\ Ascending(scan.todo) /\ Elements(scan.todo) \subseteq scan.before
    /\ scan.found = 0 /\ scan.index \in Nat /\ scan.current <= scan.index
    /\ Cardinality(Passed) <= scan.current /\ scan.current <= Cardinality(Earlier)

CompatInv ==
  /\ CompatTypeOK /\ ListIsComplete /\ PruneIsComplete /\ CountIsBetween
  /\ LookupNamesTheIndexed

--------------------------------------------------------------------------------
(* Lists of ids *)

(* An id that is greater than all keeps a list in order. *)
LEMMA AppendList ==
  ASSUME NEW s \in Seq(Nat), NEW x \in Nat
  PROVE  /\ Append(s, x) \in Seq(Nat) /\ Elements(Append(s, x)) = Elements(s) \cup {x}
         /\ Ascending(s) /\ (\A y \in Elements(s) : y < x) => Ascending(Append(s, x))
<1> DEFINE t == Append(s, x)
<1>1. /\ t \in Seq(Nat) /\ Len(s) \in Nat /\ Len(t) = Len(s) + 1 /\ t[Len(s) + 1] = x
      /\ \A i \in 1..Len(s) : t[i] = s[i]
  OBVIOUS
<1> HIDE DEF t
<1>2. 1..Len(t) = 1..Len(s) \cup {Len(s) + 1}
  BY <1>1
<1>3. Elements(t) = Elements(s) \cup {x}
  <2>1. \A y : y \in Elements(t) <=> \E i \in 1..Len(t) : y = t[i]
    BY DEF Elements
  <2>2. \A y : y \in Elements(s) <=> \E i \in 1..Len(s) : y = s[i]
    BY DEF Elements
  <2>3. ASSUME NEW y PROVE (\E i \in 1..Len(t) : y = t[i]) <=> (\E i \in 1..Len(s) : y = s[i]) \/ y = x
    BY <1>1, <1>2
  <2> QED
    BY <2>1, <2>2, <2>3
<1>4. ASSUME Ascending(s), \A y \in Elements(s) : y < x
      PROVE  Ascending(t)
  <2> SUFFICES ASSUME NEW i \in 1..Len(t), NEW j \in 1..Len(t), i < j PROVE t[i] < t[j]
    BY DEF Ascending
  <2>1. i \in 1..Len(s) /\ (j \in 1..Len(s) \/ j = Len(s) + 1)
    BY <1>1
  <2>2. s[i] \in Elements(s)
    BY <2>1 DEF Elements
  <2> QED
    BY <1>1, <1>4, <2>1, <2>2 DEF Ascending
<1> QED
  BY <1>1, <1>3, <1>4 DEF t

(* An ascending list has its first id nowhere else, and others after it. *)
LEMMA HeadAndTail ==
  ASSUME NEW s \in Seq(Nat), s # <<>>
  PROVE  /\ Head(s) \in Nat /\ Tail(s) \in Seq(Nat)
         /\ Elements(s) = {Head(s)} \cup Elements(Tail(s))
         /\ Ascending(s) => Ascending(Tail(s)) /\ \A y \in Elements(Tail(s)) : Head(s) < y
<1> DEFINE t == Tail(s)
           n == Len(s)
<1>1. /\ t \in Seq(Nat) /\ n \in Nat /\ n > 0 /\ Len(t) = n - 1 /\ Head(s) = s[1] /\ s[1] \in Nat
      /\ \A i \in 1..(n - 1) : t[i] = s[i + 1]
  OBVIOUS
<1> HIDE DEF t, n
<1>2. ASSUME NEW y PROVE y \in Elements(t) <=> \E k \in 2..n : y = s[k]
  <2>1. ASSUME NEW i \in 1..(n - 1) PROVE i + 1 \in 2..n /\ t[i] = s[i + 1]
    BY <1>1
  <2>2. ASSUME NEW k \in 2..n PROVE k - 1 \in 1..(n - 1) /\ t[k - 1] = s[k]
    BY <1>1
  <2>3. y \in Elements(t) <=> \E i \in 1..(n - 1) : y = t[i]
    BY <1>1 DEF Elements
  <2>4. ASSUME NEW i \in 1..(n - 1), y = t[i] PROVE \E k \in 2..n : y = s[k]
    BY <2>1, <2>4
  <2>5. ASSUME NEW k \in 2..n, y = s[k] PROVE \E i \in 1..(n - 1) : y = t[i]
    BY <2>2, <2>5
  <2> QED
    BY <2>3, <2>4, <2>5
<1>3. 1..n = {1} \cup 2..n
  BY <1>1
<1>4. Elements(s) = {s[1]} \cup Elements(t)
  <2>1. \A y : y \in Elements(s) <=> \E k \in 1..n : y = s[k]
    BY DEF Elements, n
  <2> QED
    BY <1>2, <1>3, <2>1
<1>5. ASSUME Ascending(s) PROVE Ascending(t) /\ \A y \in Elements(t) : s[1] < y
  <2>1. \A i, j \in 1..n : i < j => s[i] < s[j]
    BY <1>5 DEF Ascending, n
  <2>2. ASSUME NEW i \in 1..Len(t), NEW j \in 1..Len(t), i < j PROVE t[i] < t[j]
    <3>1. i + 1 \in 1..n /\ j + 1 \in 1..n /\ i + 1 < j + 1 /\ t[i] = s[i + 1] /\ t[j] = s[j + 1]
      BY <1>1, <2>2
    <3> QED
      BY <2>1, <3>1
  <2>3. \A k \in 2..n : s[1] < s[k]
    BY <1>1, <1>3, <2>1
  <2> QED
    BY <1>2, <2>2, <2>3 DEF Ascending
<1> QED
  BY <1>1, <1>4, <1>5 DEF t

(* The empty list is in order. *)
LEMMA EmptyList == <<>> \in Seq(Nat) /\ Elements(<<>>) = {} /\ Ascending(<<>>)
BY DEF Elements, Ascending

(* What was given stays given. *)
LEMMA GivenGrows ==
  ASSUME NEW m \in Nat, NEW n \in Nat, m <= n
  PROVE  1..(m - 1) \subseteq 1..(n - 1)
OBVIOUS

(* Sets of ids that were given are finite. *)
LEMMA GivenFinite ==
  ASSUME NEW m \in Nat, NEW S, S \subseteq 1..m
  PROVE  /\ IsFiniteSet(S) /\ Cardinality(S) \in Nat
         /\ \A T \in SUBSET S : IsFiniteSet(T) /\ Cardinality(T) \in Nat
                                  /\ Cardinality(T) <= Cardinality(S)
<1>1. IsFiniteSet(1..m)
  BY FS_Interval
<1>2. IsFiniteSet(S)
  BY <1>1, FS_Subset
<1> QED
  BY <1>2, FS_Subset, FS_CardinalityType

--------------------------------------------------------------------------------
(* The scheduler behind the wrapper *)

(* No id is given twice: what is new among the jobs is new among the ids. *)
JobsGoOn ==
  /\ nextId' \in Nat \ {0} /\ nextId <= nextId'
  /\ DOMAIN jobs' \subseteq 1..(nextId' - 1)
  /\ DOMAIN jobs' \cap Given \subseteq DOMAIN jobs
  /\ \A id \in DOMAIN jobs' : jobs'[id] \in StoredJobs

(* No command that is executed brings an id back. *)
LEMMA ExecutedGoesOn ==
  ASSUME CompatTypeOK, NEW command \in Commands, Executed(command)
  PROVE  JobsGoOn
<1>1. nextId \in Nat \ {0} /\ DOMAIN jobs \subseteq Given /\ \A id \in DOMAIN jobs : jobs[id] \in StoredJobs
  BY DEF CompatTypeOK
<1>2. CASE command.op = "Add"
  <2>1. command.job \in StoredJobs
    BY <1>2 DEF Commands
  <2>2. nextId' = nextId + 1 /\ DOMAIN jobs' = DOMAIN jobs \cup {nextId}
        /\ \A id \in DOMAIN jobs' : jobs'[id] = IF id = nextId THEN command.job ELSE jobs[id]
    BY <1>2 DEF Executed, JobsAfter
  <2> QED
    BY <1>1, <2>1, <2>2 DEF JobsGoOn, Given
<1>3. CASE command.op = "Cancel"
  <2>1. nextId' = nextId /\ jobs' = [id \in DOMAIN jobs \ {command.id} |-> jobs[id]]
    BY <1>3 DEF Executed, JobsAfter
  <2> QED
    BY <1>1, <2>1 DEF JobsGoOn, Given
<1>4. CASE command.op = "PauseOrResume"
  <2>1. nextId' = nextId /\ jobs' = jobs
    BY <1>4 DEF Executed, JobsAfter
  <2> QED
    BY <1>1, <2>1 DEF JobsGoOn, Given
<1>5. CASE command.op = "CancelAll"
  <2>1. nextId' = nextId /\ jobs' = <<>> /\ DOMAIN <<>> = {}
    BY <1>5 DEF Executed, JobsAfter
  <2> QED
    BY <1>1, <2>1 DEF JobsGoOn, Given
<1> QED
  BY <1>2, <1>3, <1>4, <1>5 DEF Commands

(* A call that fails leaves the jobs alone, one that is answered is         *)
(* executed; what is left in the queue are commands.                        *)
LEMMA CallGoesOn ==
  ASSUME CompatTypeOK, NEW command \in Commands, Answered(command) \/ Failed(command)
  PROVE  JobsGoOn /\ late' \in Seq(Commands)
<1>1. /\ nextId \in Nat \ {0} /\ DOMAIN jobs \subseteq Given
      /\ \A id \in DOMAIN jobs : jobs[id] \in StoredJobs
      /\ late \in Seq(Commands)
  BY DEF CompatTypeOK
<1>2. CASE Answered(command)
  BY <1>1, <1>2, ExecutedGoesOn DEF Answered
<1>3. CASE Failed(command)
  <2>1. nextId' = nextId /\ jobs' = jobs /\ late' \in {late, Append(late, command)}
    BY <1>3 DEF Failed
  <2> QED
    BY <1>1, <2>1 DEF JobsGoOn, Given
<1> QED
  BY <1>2, <1>3

(* Whatever becomes of the jobs, the lists and the lookup stay right. *)
LEMMA ScanGoesOn ==
  ASSUME CompatInv, JobsGoOn, late' \in Seq(Commands), UNCHANGED <<tracked, scan, known>>
  PROVE  CompatInv'
<1>1. /\ nextId \in Nat \ {0} /\ nextId' \in Nat \ {0} /\ nextId <= nextId'
      /\ known \subseteq Given /\ scan.before \subseteq Given /\ Given \subseteq Given'
      /\ DOMAIN jobs' \cap Given \subseteq DOMAIN jobs
  <2>1. nextId \in Nat \ {0} /\ known \subseteq Given /\ scan.before \subseteq Given
    BY DEF CompatInv, CompatTypeOK
  <2>2. /\ nextId' \in Nat \ {0} /\ nextId <= nextId'
        /\ DOMAIN jobs' \cap Given \subseteq DOMAIN jobs
    BY DEF JobsGoOn
  <2>3. Given \subseteq Given'
    BY <2>1, <2>2, GivenGrows DEF Given
  <2> QED
    BY <2>1, <2>2, <2>3
<1>2. /\ known \cap DOMAIN jobs' \subseteq known \cap DOMAIN jobs
      /\ scan.before \cap DOMAIN jobs' \subseteq scan.before \cap DOMAIN jobs
  BY <1>1
<1>3. CompatTypeOK'
  BY <1>1 DEF CompatInv, CompatTypeOK, JobsGoOn, Given
<1>4. ListIsComplete' /\ PruneIsComplete'
  BY <1>2 DEF CompatInv, ListIsComplete, PruneIsComplete
<1>5. ASSUME NEW S, NEW T, S \subseteq T, T \subseteq Given
      PROVE  Cardinality(S) \in Nat /\ Cardinality(T) \in Nat /\ Cardinality(S) <= Cardinality(T)
  <2> DEFINE m == nextId - 1
  <2>1. m \in Nat /\ T \subseteq 1..m
    BY <1>1, <1>5 DEF Given
  <2> HIDE DEF m
  <2> QED
    BY <1>5, <2>1, GivenFinite
<1>6. CountIsBetween'
  <2> SUFFICES ASSUME scan.at = "List" PROVE CountIsBetween'
    BY DEF CountIsBetween
  <2>1. Earlier' = Earlier /\ Passed' \subseteq Passed /\ Passed \subseteq Given
    BY <1>1, <1>2 DEF Earlier, Passed
  <2>2. Cardinality(Passed') \in Nat /\ Cardinality(Passed) \in Nat
          /\ Cardinality(Passed') <= Cardinality(Passed)
    BY <1>5, <2>1
  <2>3. scan.current \in Nat /\ Cardinality(Passed) <= scan.current
    BY DEF CompatInv, CountIsBetween, CompatTypeOK
  <2>4. Cardinality(Passed') <= scan.current
    BY <2>2, <2>3
  <2> QED
    BY <2>1, <2>4 DEF CompatInv, CountIsBetween
<1>7. LookupNamesTheIndexed'
  <2> SUFFICES ASSUME scan.at = "Done" PROVE LookupNamesTheIndexed'
    BY DEF LookupNamesTheIndexed
  <2> DEFINE still == scan.before \cap DOMAIN jobs
             left == scan.before \cap DOMAIN jobs'
  <2>1. left \subseteq still /\ still \subseteq Given
    BY <1>1, <1>2
  <2>2. scan.index \in Int /\ LookupNamesTheIndexed
    BY DEF CompatInv, CompatTypeOK
  <2>3. CASE scan.found = 0
    <3>1. Cardinality(still) <= scan.index
      BY <2>2, <2>3 DEF LookupNamesTheIndexed
    <3>2. Cardinality(left) <= scan.index
      <4> HIDE DEF still, left
      <4> QED
        BY <1>5, <2>1, <2>2, <3>1
    <3> QED
      BY <2>3, <3>2 DEF LookupNamesTheIndexed
  <2>4. CASE scan.found # 0
    <3>1. /\ scan.found \in scan.before
          /\ Cardinality({id \in still : id < scan.found}) <= scan.index
          /\ scan.index <= Cardinality({id \in scan.before : id < scan.found})
      BY <2>2, <2>4 DEF LookupNamesTheIndexed
    <3>2. Cardinality({id \in left : id < scan.found}) <= scan.index
      <4> DEFINE a == {id \in left : id < scan.found}
                 b == {id \in still : id < scan.found}
      <4>1. a \subseteq b /\ b \subseteq Given /\ Cardinality(b) <= scan.index
        BY <2>1, <3>1
      <4> HIDE DEF a, b
      <4>2. Cardinality(a) <= scan.index
        BY <1>5, <2>2, <4>1
      <4> QED
        BY <4>2 DEF a
    <3> QED
      BY <2>4, <3>1, <3>2 DEF LookupNamesTheIndexed
  <2> QED
    BY <2>3, <2>4
<1> QED
  BY <1>3, <1>4, <1>6, <1>7 DEF CompatInv


(* The calls that need the wrapper idle, and the steps of the scheduler. *)
LEMMA CallStep ==
  ASSUME CompatInv, ExecuteLate \/ JobEnds \/ AddCompatJob \/ PassOn \/ CancelAllCompat \/ Deinit
  PROVE  CompatInv'
<1>0. /\ CompatTypeOK /\ nextId \in Nat \ {0} /\ late \in Seq(Commands)
      /\ DOMAIN jobs \subseteq Given /\ \A id \in DOMAIN jobs : jobs[id] \in StoredJobs
      /\ known \subseteq Given /\ tracked \in Seq(Nat) /\ Given \subseteq Nat
  BY DEF CompatInv, CompatTypeOK, Given
<1>1. CASE ExecuteLate
  <2>1. /\ Head(late) \in Commands /\ late' \in Seq(Commands) /\ Executed(Head(late))
        /\ UNCHANGED <<tracked, scan, known>>
    BY <1>0, <1>1 DEF ExecuteLate
  <2> QED
    BY <1>0, <2>1, ExecutedGoesOn, ScanGoesOn
<1>2. CASE JobEnds
  <2>1. PICK id \in DOMAIN jobs : jobs' = [i \in DOMAIN jobs \ {id} |-> jobs[i]]
    BY <1>2 DEF JobEnds
  <2>2. UNCHANGED <<nextId, late, tracked, scan, known>>
    BY <1>2 DEF JobEnds
  <2>3. JobsGoOn
    BY <1>0, <2>1, <2>2 DEF JobsGoOn, Given
  <2> QED
    BY <1>0, <2>2, <2>3, ScanGoesOn
<1>3. CASE PassOn
  <2>1. PICK id \in known, op \in {"Cancel", "PauseOrResume"} :
          Answered([op |-> op, id |-> id]) \/ Failed([op |-> op, id |-> id])
    BY <1>3 DEF PassOn
  <2>2. [op |-> op, id |-> id] \in Commands
    BY <1>0 DEF Commands
  <2>3. UNCHANGED <<tracked, scan, known>>
    BY <1>3 DEF PassOn
  <2> QED
    BY <1>0, <2>1, <2>2, <2>3, CallGoesOn, ScanGoesOn
<1>4. CASE AddCompatJob
  <2>1. PICK r \in Requests :
          LET command == [op |-> "Add", job |-> JobOptionsForMode(r[1], r[2])] IN
          \/ Answered(command) /\ tracked' = Append(tracked, nextId) /\ known' = known \cup {nextId}
          \/ Failed(command) /\ UNCHANGED <<tracked, known>>
    BY <1>4 DEF AddCompatJob
  <2> DEFINE command == [op |-> "Add", job |-> JobOptionsForMode(r[1], r[2])]
  <2>2. command \in Commands /\ command.op = "Add"
    <3>1. JobOptionsForMode(r[1], r[2]) \in StoredJobs
      BY DEF StoredJobs
    <3> QED
      BY <3>1 DEF Commands
  <2>3. scan' = scan /\ scan.at = "None"
    BY <1>4 DEF AddCompatJob, Idle
  <2> HIDE DEF command
  <2>4. CASE Failed(command) /\ UNCHANGED <<tracked, known>>
    BY <1>0, <2>2, <2>3, <2>4, CallGoesOn, ScanGoesOn
  <2>5. CASE Answered(command) /\ tracked' = Append(tracked, nextId) /\ known' = known \cup {nextId}
    <3>1. JobsGoOn /\ late' \in Seq(Commands)
      BY <1>0, <2>2, <2>5, CallGoesOn
    <3>2. nextId' = nextId + 1 /\ DOMAIN jobs' = DOMAIN jobs \cup {nextId}
      BY <2>2, <2>5 DEF Answered, Executed, JobsAfter
    <3>3. /\ Ascending(tracked) /\ Elements(tracked) \subseteq known
          /\ known \cap DOMAIN jobs \subseteq Elements(tracked)
      BY <2>3 DEF CompatInv, ListIsComplete
    <3>4. \A y \in Elements(tracked) : y < nextId
      <4>1. \A y \in 1..(nextId - 1) : y < nextId
        BY <1>0
      <4> QED
        BY <1>0, <3>3, <4>1 DEF Given
    <3>5. /\ Ascending(tracked') /\ tracked' \in Seq(Nat)
          /\ Elements(tracked') = Elements(tracked) \cup {nextId}
      BY <1>0, <2>5, <3>3, <3>4, AppendList
    <3>6. ListIsComplete'
      BY <2>5, <3>2, <3>3, <3>5 DEF ListIsComplete
    <3>7. CompatTypeOK'
      <4>1. Given \subseteq Given'
        BY <1>0, <3>1, GivenGrows DEF JobsGoOn, Given
      <4>2. nextId \in 1..(nextId' - 1)
        BY <1>0, <3>2
      <4>3. Given \subseteq Given' /\ known' \subseteq Given' /\ scan.before \subseteq Given'
        BY <1>0, <2>5, <4>1, <4>2 DEF Given, CompatTypeOK
      <4> QED
        BY <1>0, <2>3, <3>1, <3>5, <4>3 DEF CompatTypeOK, JobsGoOn, Given
    <3> QED
      BY <2>3, <3>6, <3>7
         DEF CompatInv, PruneIsComplete, CountIsBetween, LookupNamesTheIndexed
  <2> QED
    BY <2>1, <2>4, <2>5 DEF command
<1>5. CASE CancelAllCompat \/ Deinit
  <2>1. /\ scan' = scan /\ scan.at = "None" /\ tracked' = <<>> /\ known' = {}
    BY <1>5 DEF CancelAllCompat, Deinit, Idle
  <2>2. JobsGoOn /\ late' \in Seq(Commands)
    <3>1. CASE CancelAllCompat
      <4>1. [op |-> "CancelAll"] \in Commands
        BY DEF Commands
      <4> QED
        BY <1>0, <3>1, <4>1, CallGoesOn DEF CancelAllCompat
    <3>2. CASE Deinit
      <4>1. nextId' = nextId /\ jobs' = <<>> /\ DOMAIN <<>> = {} /\ late' = <<>>
        BY <3>2 DEF Deinit
      <4> QED
        BY <1>0, <4>1 DEF JobsGoOn
    <3> QED
      BY <1>5, <3>1, <3>2
  <2>3. ListIsComplete'
    BY <2>1, EmptyList DEF ListIsComplete
  <2>4. CompatTypeOK'
    <3>1. Given \subseteq Given'
      BY <1>0, <2>2, GivenGrows DEF JobsGoOn, Given
    <3> QED
      BY <1>0, <2>1, <2>2, <3>1, EmptyList DEF CompatTypeOK, JobsGoOn, Given
  <2> QED
    BY <2>1, <2>3, <2>4 DEF CompatInv, PruneIsComplete, CountIsBetween, LookupNamesTheIndexed
<1> QED
  BY <1>1, <1>2, <1>3, <1>4, <1>5

--------------------------------------------------------------------------------
(* cleanup() and getJobInfo(index) *)

(* pruneTrackedJobs, from its start to its end. *)
LEMMA PruneScan ==
  ASSUME CompatInv, StartScan \/ PruneStep \/ PruneEnd
  PROVE  CompatInv'
<1>0. /\ CompatTypeOK /\ scan.todo \in Seq(Nat) /\ scan.active \in Seq(Nat)
      /\ scan.before \subseteq Given /\ known \subseteq Given /\ tracked \in Seq(Nat)
      /\ scan \in [at : {"None", "Prune", "List", "Done"}, todo : Seq(Nat), active : Seq(Nat),
                   index : Int, current : Nat, before : SUBSET Nat, found : Nat]
      /\ Given \subseteq Nat
  BY DEF CompatInv, CompatTypeOK, Given
<1>1. UNCHANGED <<jobs, nextId, late>> /\ Given' = Given
  BY DEF StartScan, PruneStep, PruneEnd, Given
<1>2. CASE StartScan
  <2>1. PICK place \in {Cleanup} \cup 0..(MaxJobs - 1) :
          scan' = [NoScan EXCEPT !.at = "Prune", !.todo = tracked, !.index = place,
                                 !.before = known \cap DOMAIN jobs]
    BY <1>2 DEF StartScan
  <2>2. scan.at = "None" /\ UNCHANGED <<tracked, known>>
    BY <1>2 DEF StartScan, Idle
  <2>3. /\ scan'.at = "Prune" /\ scan'.todo = tracked /\ scan'.active = <<>>
        /\ scan'.index = place /\ scan'.current = 0 /\ scan'.found = 0
        /\ scan'.before = known \cap DOMAIN jobs
    BY <2>1 DEF NoScan
  <2>4. place \in Int /\ place \in {Cleanup} \cup Nat
    BY CompatAssumption DEF Cleanup
  <2>5. CompatTypeOK'
    BY <1>0, <1>1, <2>1, <2>2, <2>4, EmptyList DEF CompatTypeOK, NoScan
  <2>6. /\ Ascending(tracked) /\ Elements(tracked) \subseteq known
        /\ known \cap DOMAIN jobs \subseteq Elements(tracked)
    BY <2>2 DEF CompatInv, ListIsComplete
  <2>7. PruneIsComplete'
    BY <1>1, <2>2, <2>3, <2>4, <2>6, EmptyList DEF PruneIsComplete
  <2> QED
    BY <2>3, <2>5, <2>7 DEF CompatInv, ListIsComplete, CountIsBetween, LookupNamesTheIndexed
<1>3. CASE PruneStep
  <2> DEFINE id == Head(scan.todo)
  <2>1. PICK told \in {"Found", "NotFound", "Failed"} :
          /\ Asked(id, told)
          /\ scan' = [scan EXCEPT !.todo = Tail(@),
                                  !.active = IF told = "Found" THEN Append(@, id) ELSE @,
                                  !.before = IF told = "Failed" THEN @ \ {id} ELSE @]
          /\ known' = IF told = "Failed" THEN known \ {id} ELSE known
    BY <1>3 DEF PruneStep
  <2>2. scan.at = "Prune" /\ scan.todo # <<>> /\ UNCHANGED tracked
    BY <1>3 DEF PruneStep
  <2>3. /\ Ascending(scan.todo) /\ Ascending(scan.active)
        /\ \A a \in Elements(scan.active), b \in Elements(scan.todo) : a < b
        /\ Elements(scan.active) \subseteq known /\ Elements(scan.todo) \subseteq known
        /\ Elements(scan.active) \subseteq scan.before
        /\ known \cap DOMAIN jobs \subseteq scan.before
        /\ scan.before \cap DOMAIN jobs \subseteq Elements(scan.active) \cup Elements(scan.todo)
        /\ scan.current = 0 /\ scan.found = 0 /\ scan.index \in {Cleanup} \cup Nat
    BY <2>2 DEF CompatInv, PruneIsComplete
  <2>4. /\ id \in Nat /\ Tail(scan.todo) \in Seq(Nat)
        /\ Elements(scan.todo) = {id} \cup Elements(Tail(scan.todo))
        /\ Ascending(Tail(scan.todo)) /\ \A y \in Elements(Tail(scan.todo)) : id < y
    BY <1>0, <2>2, <2>3, HeadAndTail
  <2>5. /\ \A a \in Elements(scan.active) : a < id /\ a \in Nat
        /\ \A b \in Elements(Tail(scan.todo)) : b \in Nat
    BY <1>0, <2>3, <2>4
  <2>6. /\ Append(scan.active, id) \in Seq(Nat) /\ Ascending(Append(scan.active, id))
        /\ Elements(Append(scan.active, id)) = Elements(scan.active) \cup {id}
    BY <1>0, <2>3, <2>4, <2>5, AppendList
  <2>7. id \notin Elements(scan.active) /\ id \notin Elements(Tail(scan.todo)) /\ id \in known
    BY <2>3, <2>4, <2>5
  <2>8. /\ scan'.at = "Prune" /\ scan'.todo = Tail(scan.todo)
        /\ scan'.active = (IF told = "Found" THEN Append(scan.active, id) ELSE scan.active)
        /\ scan'.before = (IF told = "Failed" THEN scan.before \ {id} ELSE scan.before)
        /\ scan'.index = scan.index /\ scan'.current = 0 /\ scan'.found = 0
    BY <1>0, <2>1, <2>2, <2>3
  <2>9. CompatTypeOK'
    BY <1>0, <1>1, <2>1, <2>2, <2>4, <2>6 DEF CompatTypeOK
  <2>10. /\ told = "Found" => id \in DOMAIN jobs
         /\ told = "NotFound" => id \notin DOMAIN jobs
    BY <2>1 DEF Asked
  <2> HIDE DEF id
  <2>11. CASE told = "Found"
    <3>1. /\ scan'.active = Append(scan.active, id) /\ scan'.before = scan.before /\ known' = known
      BY <2>1, <2>8, <2>11
    <3>2. \A a \in Elements(scan'.active), b \in Elements(scan'.todo) : a < b
      BY <2>3, <2>4, <2>6, <2>8, <3>1
    <3> QED
      BY <1>1, <2>3, <2>4, <2>6, <2>7, <2>8, <2>9, <2>10, <2>11, <3>1, <3>2
         DEF CompatInv, PruneIsComplete, ListIsComplete, CountIsBetween, LookupNamesTheIndexed
  <2>12. CASE told = "NotFound"
    <3>1. /\ scan'.active = scan.active /\ scan'.before = scan.before /\ known' = known
      BY <2>1, <2>8, <2>12
    <3> QED
      BY <1>1, <2>3, <2>4, <2>7, <2>8, <2>9, <2>10, <2>12, <3>1
         DEF CompatInv, PruneIsComplete, ListIsComplete, CountIsBetween, LookupNamesTheIndexed
  <2>13. CASE told = "Failed"
    <3>1. /\ scan'.active = scan.active /\ scan'.before = scan.before \ {id}
          /\ known' = known \ {id}
      BY <2>1, <2>8, <2>13
    <3> QED
      BY <1>1, <2>3, <2>4, <2>7, <2>8, <2>9, <3>1
         DEF CompatInv, PruneIsComplete, ListIsComplete, CountIsBetween, LookupNamesTheIndexed
  <2> QED
    BY <2>11, <2>12, <2>13
<1>4. CASE PruneEnd
  <2>1. /\ scan.at = "Prune" /\ scan.todo = <<>> /\ tracked' = scan.active /\ known' = known
        /\ scan' = IF scan.index = Cleanup THEN NoScan
                   ELSE [scan EXCEPT !.at = "List", !.todo = scan.active, !.active = <<>>]
    BY <1>4 DEF PruneEnd
  <2>2. /\ Ascending(scan.active)
        /\ Elements(scan.active) \subseteq known
        /\ Elements(scan.active) \subseteq scan.before
        /\ known \cap DOMAIN jobs \subseteq scan.before
        /\ scan.before \cap DOMAIN jobs \subseteq Elements(scan.active)
        /\ scan.current = 0 /\ scan.found = 0 /\ scan.index \in {Cleanup} \cup Nat
    BY <2>1, EmptyList DEF CompatInv, PruneIsComplete
  <2>3. CASE scan.index = Cleanup
    <3>1. scan' = NoScan
      BY <2>1, <2>3
    <3>2. CompatTypeOK'
      BY <1>0, <1>1, <2>1, <3>1, EmptyList DEF CompatTypeOK, NoScan
    <3>3. scan'.at = "None"
      BY <3>1 DEF NoScan
    <3>4. ListIsComplete'
      BY <1>1, <2>1, <2>2 DEF ListIsComplete
    <3> QED
      BY <3>2, <3>3, <3>4 DEF CompatInv, PruneIsComplete, CountIsBetween, LookupNamesTheIndexed
  <2>4. CASE scan.index # Cleanup
    <3>1. scan' = [scan EXCEPT !.at = "List", !.todo = scan.active, !.active = <<>>]
      BY <2>1, <2>4
    <3>2. /\ scan'.at = "List" /\ scan'.todo = scan.active /\ scan'.before = scan.before
          /\ scan'.found = 0 /\ scan'.current = 0 /\ scan'.index = scan.index
          /\ scan.index \in Nat
      BY <1>0, <2>2, <2>4, <3>1
    <3>3. CompatTypeOK'
      BY <1>0, <1>1, <2>1, <3>1, EmptyList DEF CompatTypeOK
    <3>4. Passed' = {} /\ Earlier' \subseteq Given
      BY <1>0, <1>1, <2>2, <3>2 DEF Passed, Earlier
    <3>5. Cardinality(Passed') = 0 /\ Cardinality(Earlier') \in Nat
      <4>1. nextId - 1 \in Nat /\ Earlier' \subseteq 1..(nextId - 1)
        BY <1>0, <3>4 DEF CompatTypeOK, Given
      <4> QED
        BY <3>4, <4>1, GivenFinite, FS_EmptySet
    <3>6. CountIsBetween'
      BY <2>2, <3>2, <3>5 DEF CountIsBetween
    <3> QED
      BY <1>1, <2>1, <2>2, <3>2, <3>3, <3>6
         DEF CompatInv, PruneIsComplete, ListIsComplete, LookupNamesTheIndexed
  <2> QED
    BY <2>3, <2>4
<1> QED
  BY <1>2, <1>3, <1>4


(* The second pass of getJobInfo(index), and its return. *)
LEMMA ListScan ==
  ASSUME CompatInv, ListStep \/ ListEnd \/ LookupReturns
  PROVE  CompatInv'
<1>0. /\ CompatTypeOK /\ scan.todo \in Seq(Nat) /\ scan.before \subseteq Given
      /\ scan \in [at : {"None", "Prune", "List", "Done"}, todo : Seq(Nat), active : Seq(Nat),
                   index : Int, current : Nat, before : SUBSET Nat, found : Nat]
      /\ Given \subseteq Nat /\ scan.current \in Nat /\ scan.index \in Int
  BY DEF CompatInv, CompatTypeOK, Given
<1>1. UNCHANGED <<jobs, nextId, late, tracked, known>> /\ Given' = Given /\ scan.at # "Prune"
  BY DEF ListStep, ListEnd, LookupReturns, Given
<1>2. ASSUME scan'.at # "Prune" PROVE ListIsComplete' /\ PruneIsComplete'
  BY <1>1, <1>2 DEF CompatInv, ListIsComplete, PruneIsComplete
<1>3. ASSUME NEW S, NEW T, S \subseteq T, T \subseteq Given
      PROVE  /\ IsFiniteSet(S) /\ Cardinality(S) \in Nat /\ Cardinality(T) \in Nat
             /\ Cardinality(S) <= Cardinality(T)
  <2> DEFINE m == nextId - 1
  <2>1. m \in Nat /\ T \subseteq 1..m
    BY <1>0, <1>3 DEF Given, CompatTypeOK
  <2> HIDE DEF m
  <2> QED
    BY <1>3, <2>1, GivenFinite
<1>4. CASE LookupReturns
  <2>1. scan' = NoScan /\ scan'.at = "None"
    BY <1>4 DEF LookupReturns, NoScan
  <2>2. CompatTypeOK'
    BY <1>0, <1>1, <2>1, EmptyList DEF CompatTypeOK, NoScan
  <2> QED
    BY <1>2, <2>1, <2>2 DEF CompatInv, CountIsBetween, LookupNamesTheIndexed
<1>5. ASSUME scan.at = "List"
      PROVE  /\ Ascending(scan.todo) /\ Elements(scan.todo) \subseteq scan.before
             /\ scan.found = 0 /\ scan.index \in Nat /\ scan.current <= scan.index
             /\ Cardinality(Passed) <= scan.current /\ scan.current <= Cardinality(Earlier)
             /\ IsFiniteSet(Passed) /\ IsFiniteSet(Earlier)
             /\ Cardinality(Passed) \in Nat /\ Cardinality(Earlier) \in Nat
  <2>1. Passed \subseteq Given /\ Earlier \subseteq Given
    BY <1>0 DEF Passed, Earlier
  <2> QED
    BY <1>3, <1>5, <2>1 DEF CompatInv, CountIsBetween
<1>6. CASE ListEnd
  <2>1. scan.at = "List" /\ scan.todo = <<>> /\ scan' = [scan EXCEPT !.at = "Done"]
    BY <1>6 DEF ListEnd
  <2>2. /\ scan'.at = "Done" /\ scan'.found = 0 /\ scan'.index = scan.index
        /\ scan'.before = scan.before
    BY <1>0, <1>5, <2>1
  <2>3. CompatTypeOK'
    BY <1>0, <1>1, <2>1 DEF CompatTypeOK
  <2>4. Passed = scan.before \cap DOMAIN jobs
    BY <2>1, EmptyList DEF Passed
  <2>5. Cardinality(Passed) <= scan.index
    BY <1>0, <1>5, <2>1
  <2>6. LookupNamesTheIndexed'
    BY <1>1, <2>2, <2>4, <2>5 DEF LookupNamesTheIndexed
  <2> QED
    BY <1>2, <2>2, <2>3, <2>6 DEF CompatInv, CountIsBetween
<1>7. CASE ListStep
  <2> DEFINE id == Head(scan.todo)
             rest == Tail(scan.todo)
  <2>1. PICK told \in {"Found", "NotFound", "Failed"} :
          LET hit == told = "Found" /\ scan.current = scan.index IN
          /\ Asked(id, told)
          /\ scan' = [scan EXCEPT !.todo = Tail(@),
                                  !.current = IF told = "Found" THEN @ + 1 ELSE @,
                                  !.found = IF hit THEN id ELSE @,
                                  !.at = IF hit THEN "Done" ELSE @,
                                  !.before = IF told = "Failed" THEN @ \ {id} ELSE @]
    BY <1>7 DEF ListStep
  <2>2. scan.at = "List" /\ scan.todo # <<>>
    BY <1>7 DEF ListStep
  <2>3. /\ id \in Nat /\ rest \in Seq(Nat) /\ Elements(scan.todo) = {id} \cup Elements(rest)
        /\ Ascending(rest) /\ \A y \in Elements(rest) : id < y
    BY <1>0, <1>5, <2>2, HeadAndTail
  <2>4. /\ id \in scan.before /\ Elements(rest) \subseteq scan.before
        /\ id \notin Elements(rest) /\ Elements(rest) \subseteq Nat /\ id # 0
    <3>1. id \in scan.before /\ Elements(rest) \subseteq scan.before
      BY <1>5, <2>2, <2>3
    <3>2. \A x \in 1..(nextId - 1) : x # 0
      BY <1>0 DEF CompatTypeOK
    <3> QED
      BY <1>0, <2>3, <3>1, <3>2 DEF Given
  <2>5. CompatTypeOK'
    <3> DEFINE n == IF told = "Found" THEN scan.current + 1 ELSE scan.current
               f == IF told = "Found" /\ scan.current = scan.index THEN id ELSE scan.found
               p == IF told = "Found" /\ scan.current = scan.index THEN "Done" ELSE scan.at
               w == IF told = "Failed" THEN scan.before \ {id} ELSE scan.before
    <3>1. scan' = [scan EXCEPT !.todo = rest, !.current = n, !.found = f, !.at = p, !.before = w]
      BY <2>1
    <3>2. /\ n \in Nat /\ f \in Nat /\ p \in {"None", "Prune", "List", "Done"}
          /\ w \subseteq Given /\ w \in SUBSET Nat
      BY <1>0, <2>3
    <3> HIDE DEF n, f, p, w, rest
    <3>3. /\ scan' \in [at : {"None", "Prune", "List", "Done"}, todo : Seq(Nat), active : Seq(Nat),
                         index : Int, current : Nat, before : SUBSET Nat, found : Nat]
          /\ scan'.before \subseteq Given
      BY <1>0, <2>3, <3>1, <3>2
    <3> QED
      BY <1>0, <1>1, <3>3 DEF CompatTypeOK
  <2>6. /\ told = "Found" => id \in DOMAIN jobs
        /\ told = "NotFound" => id \notin DOMAIN jobs
    BY <2>1 DEF Asked
  <2>7. \A x \in Earlier : x \in scan.before /\ x < id /\ \A b \in Elements(rest) : x < b
    BY <2>3 DEF Earlier
  <2>8. CASE told = "Found" /\ scan.current = scan.index
    <3>1. /\ scan'.at = "Done" /\ scan'.found = id /\ scan'.index = scan.index
          /\ scan'.before = scan.before
      BY <1>0, <2>1, <2>8
    <3> DEFINE a == {x \in scan.before \cap DOMAIN jobs : x < id}
               b == {x \in scan.before : x < id}
    <3>2. a \subseteq Passed /\ Passed \subseteq Given
      <4>1. \A x \in a : x \notin Elements(scan.todo)
        BY <1>0, <2>3, <2>4
      <4> QED
        BY <1>0, <4>1 DEF Passed
    <3>3. Earlier \subseteq b /\ b \subseteq Given
      BY <1>0, <2>7
    <3>4. Cardinality(a) <= scan.index /\ scan.index <= Cardinality(b)
      <4> HIDE DEF a, b
      <4>1. Cardinality(a) \in Nat /\ Cardinality(a) <= Cardinality(Passed)
        BY <1>3, <3>2
      <4>2. Cardinality(b) \in Nat /\ Cardinality(Earlier) <= Cardinality(b)
        BY <1>3, <3>3
      <4> QED
        BY <1>0, <1>5, <2>2, <2>8, <4>1, <4>2
    <3>5. LookupNamesTheIndexed'
      BY <1>1, <2>4, <3>1, <3>4 DEF LookupNamesTheIndexed
    <3> QED
      BY <1>2, <2>5, <3>1, <3>5 DEF CompatInv, CountIsBetween
  <2>9. CASE ~(told = "Found" /\ scan.current = scan.index)
    <3>1. /\ scan'.at = "List" /\ scan'.found = 0 /\ scan'.index = scan.index /\ scan'.todo = rest
          /\ scan'.current = (IF told = "Found" THEN scan.current + 1 ELSE scan.current)
          /\ scan'.before = (IF told = "Failed" THEN scan.before \ {id} ELSE scan.before)
      BY <1>0, <1>5, <2>1, <2>2, <2>9
    <3> HIDE DEF id, rest
    <3>2. Elements(scan'.todo) \subseteq scan'.before
      BY <2>4, <3>1
    <3>3. Passed' \subseteq Given /\ Earlier' \subseteq Given
      BY <1>0, <1>1, <3>1 DEF Passed, Earlier
    <3>4. CASE told = "Found"
      <4>1. scan'.current = scan.current + 1 /\ scan'.before = scan.before
        BY <3>1, <3>4
      <4>2. Passed' = Passed \cup {id}
        BY <1>1, <2>3, <2>4, <2>6, <3>1, <3>4, <4>1 DEF Passed
      <4>3. Cardinality(Passed') <= scan.current + 1
        <5>1. /\ IsFiniteSet(Passed) /\ Cardinality(Passed) \in Nat
              /\ Cardinality(Passed) <= scan.current
          BY <1>5, <2>2
        <5>2. \/ Cardinality(Passed \cup {id}) = Cardinality(Passed)
              \/ Cardinality(Passed \cup {id}) = Cardinality(Passed) + 1
          BY <5>1, FS_AddElement
        <5> QED
          BY <1>0, <4>2, <5>1, <5>2
      <4>4. Earlier \cup {id} \subseteq Earlier' /\ id \notin Earlier
        <5>1. id \notin Earlier
          BY <2>3, <2>7
        <5>2. \A x \in Earlier : x \in Earlier'
          BY <2>7, <3>1, <4>1 DEF Earlier
        <5>3. id \in Earlier'
          BY <2>3, <2>4, <3>1, <4>1 DEF Earlier
        <5> QED
          BY <5>1, <5>2, <5>3
      <4>5. Cardinality(Earlier \cup {id}) = Cardinality(Earlier) + 1
        BY <1>5, <2>2, <4>4, FS_AddElement
      <4>6. Cardinality(Earlier \cup {id}) <= Cardinality(Earlier') /\ Cardinality(Earlier') \in Nat
        BY <1>3, <3>3, <4>4
      <4>7. scan.current + 1 <= Cardinality(Earlier')
        BY <1>0, <1>5, <2>2, <4>5, <4>6
      <4>8. scan.current + 1 <= scan.index
        BY <1>0, <1>5, <2>2, <2>9, <3>4
      <4>9. CountIsBetween'
        BY <1>5, <2>2, <2>3, <3>1, <3>2, <4>1, <4>3, <4>7, <4>8 DEF CountIsBetween
      <4> QED
        BY <1>2, <2>5, <3>1, <4>9 DEF CompatInv, LookupNamesTheIndexed
    <3>5. CASE told # "Found"
      <4>1. scan'.current = scan.current
        BY <3>1, <3>5
      <4>2. Passed' = Passed
        BY <1>1, <2>3, <2>4, <2>6, <3>1, <3>5 DEF Passed
      <4>3. Earlier \subseteq Earlier'
        <5>1. \A x \in Earlier : x # id /\ x \in scan'.before
          BY <1>0, <2>3, <2>7, <3>1
        <5> QED
          BY <2>7, <3>1, <5>1 DEF Earlier
      <4>4. Cardinality(Earlier) <= Cardinality(Earlier') /\ Cardinality(Earlier') \in Nat
        BY <1>3, <3>3, <4>3
      <4>5. scan.current <= Cardinality(Earlier')
        BY <1>0, <1>5, <2>2, <4>4
      <4>6. CountIsBetween'
        BY <1>5, <2>2, <2>3, <3>1, <3>2, <4>1, <4>2, <4>5 DEF CountIsBetween
      <4> QED
        BY <1>2, <2>5, <3>1, <4>6 DEF CompatInv, LookupNamesTheIndexed
    <3> QED
      BY <3>4, <3>5
  <2> QED
    BY <2>8, <2>9
<1> QED
  BY <1>4, <1>6, <1>7

--------------------------------------------------------------------------------
(* The theorems *)

(* The wrapper starts with no jobs. *)
LEMMA CompatInitInv == CompatInit => CompatInv
<1> SUFFICES ASSUME CompatInit PROVE CompatInv
  OBVIOUS
<1>1. DOMAIN jobs = {} /\ late \in Seq(Commands) /\ scan.at = "None"
  BY DEF CompatInit, NoScan
<1>2. CompatTypeOK
  BY <1>1, EmptyList DEF CompatInit, CompatTypeOK, NoScan
<1>3. ListIsComplete
  BY EmptyList DEF CompatInit, ListIsComplete
<1> QED
  BY <1>1, <1>2, <1>3
     DEF CompatInv, PruneIsComplete, CountIsBetween, LookupNamesTheIndexed

(* No call, and nothing the scheduler does meanwhile, breaks the invariant. *)
LEMMA CompatStep == CompatInv /\ [CompatNext]_compatVars => CompatInv'
<1>1. CompatInv /\ CompatNext => CompatInv'
  BY CallStep, PruneScan, ListScan DEF CompatNext
<1>2. CompatInv /\ UNCHANGED compatVars => CompatInv'
  BY DEF compatVars, CompatInv, CompatTypeOK, Given, ListIsComplete, PruneIsComplete,
         CountIsBetween, Passed, Earlier, LookupNamesTheIndexed
<1> QED
  BY <1>1, <1>2

(* The invariant of the v1 wrapper: its list is complete and in order, and  *)
(* a lookup under way counts between the jobs that are still there and      *)
(* those that were there.                                                   *)
THEOREM CompatInductive == CompatSpec => []CompatInv
<1> QED
  BY CompatInitInv, CompatStep, PTL DEF CompatSpec

(* getJobInfo(index) names the index-th job, although jobs end, and calls   *)
(* fail, between the many calls it consists of.                             *)
THEOREM LookupCorrect == CompatSpec => []LookupNamesTheIndexed
<1>1. CompatInv => LookupNamesTheIndexed
  BY DEF CompatInv
<1> QED
  BY <1>1, CompatInductive, PTL

(* A job is stored with the dispatch, the executor and the task             *)
(* configuration that its addJob asked for, also when that call timed out   *)
(* and the service executes it after others have used the same options.     *)
THEOREM RequestsHonoured == CompatSpec => []JobsAreAsRequested
<1>1. ASSUME NEW job \in StoredJobs
      PROVE  /\ job.dispatch = "Inline" <=> job.request[1] = "Inline"
             /\ job.executorId = 1 <=> job.request[2] # NoConfig
             /\ job.executorId = 1 => job.dedicatedTask = job.request[2]
  <2>1. PICK r \in Requests : job = JobOptionsForMode(r[1], r[2])
    BY DEF StoredJobs
  <2>2. \/ r[1] = "Inline" /\ r[2] = NoConfig
        \/ r[1] = "WorkerTask"
    BY DEF Requests
  <2> QED
    BY <2>1, <2>2 DEF JobOptionsForMode
<1>2. CompatInv => JobsAreAsRequested
  BY <1>1 DEF CompatInv, CompatTypeOK, JobsAreAsRequested
<1> QED
  BY <1>2, CompatInductive, PTL
================================================================================
