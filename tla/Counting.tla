--------------------------------- MODULE Counting ---------------------------------
(***************************************************************************)
(* How many places of a queue, or how many tasks, hold a value of a set,   *)
(* and how the number changes when one place does.  The counts are         *)
(* cardinalities, so that they can be reasoned about without induction.    *)
(***************************************************************************)
EXTENDS Integers, Sequences, FiniteSets, FiniteSetTheorems, WellFoundedInduction, TLAPS

(* The places of a queue, or of any function, that hold a value of P. *)
Places(f, P) == {i \in DOMAIN f : f[i] \in P}

HowMany(f, P) == Cardinality(Places(f, P))

(* A function with a finite domain has finitely many places. *)
LEMMA PlacesFinite ==
  ASSUME NEW f, NEW P, IsFiniteSet(DOMAIN f)
  PROVE  /\ IsFiniteSet(Places(f, P))
         /\ HowMany(f, P) \in Nat
         /\ HowMany(f, P) = 0 <=> \A i \in DOMAIN f : f[i] \notin P
<1>1. Places(f, P) \in SUBSET (DOMAIN f)
  BY DEF Places
<1>2. IsFiniteSet(Places(f, P))
  BY <1>1, FS_Subset
<1>3. HowMany(f, P) \in Nat
  BY <1>2, FS_CardinalityType DEF HowMany
<1>4. HowMany(f, P) = 0 <=> Places(f, P) = {}
  BY <1>2, FS_EmptySet DEF HowMany
<1> QED
  BY <1>2, <1>3, <1>4 DEF Places

(* The places of a queue. *)
LEMMA QueuePlaces ==
  ASSUME NEW S, NEW q \in Seq(S)
  PROVE  DOMAIN q = 1..Len(q) /\ Len(q) \in Nat /\ IsFiniteSet(DOMAIN q)
<1>1. DOMAIN q = 1..Len(q) /\ Len(q) \in Nat
  OBVIOUS
<1>2. IsFiniteSet(1..Len(q))
  BY <1>1, FS_Interval
<1> QED
  BY <1>1, <1>2

(* A value that is queued counts once. *)
LEMMA HowManyAppend ==
  ASSUME NEW S, NEW q \in Seq(S), NEW x \in S, NEW P
  PROVE  HowMany(Append(q, x), P) = HowMany(q, P) + (IF x \in P THEN 1 ELSE 0)
<1> DEFINE n == Len(q) + 1
<1>1. /\ Append(q, x) \in Seq(S) /\ Len(q) \in Nat /\ DOMAIN q = 1..Len(q)
      /\ DOMAIN Append(q, x) = 1..n
      /\ \A i \in 1..Len(q) : Append(q, x)[i] = q[i]
      /\ Append(q, x)[n] = x
  OBVIOUS
<1>2. IsFiniteSet(Places(q, P)) /\ HowMany(q, P) \in Nat
  BY QueuePlaces, PlacesFinite
<1>3. n \notin Places(q, P)
  BY <1>1 DEF Places
<1>4. CASE x \in P
  <2>1. Places(Append(q, x), P) = Places(q, P) \cup {n}
    BY <1>1, <1>4 DEF Places
  <2> QED
    BY <2>1, <1>2, <1>3, <1>4, FS_AddElement DEF HowMany
<1>5. CASE x \notin P
  <2>1. Places(Append(q, x), P) = Places(q, P)
    BY <1>1, <1>5 DEF Places
  <2> QED
    BY <2>1, <1>2, <1>5 DEF HowMany
<1> QED
  BY <1>4, <1>5

(* Places that are all moved by one are as many. *)
LEMMA ShiftedPlaces ==
  ASSUME NEW A \in SUBSET Int, IsFiniteSet(A), NEW B \in SUBSET Int,
         \A i \in Int : i \in B <=> i + 1 \in A
  PROVE  IsFiniteSet(B) /\ Cardinality(B) = Cardinality(A)
<1> DEFINE f == [i \in A |-> i - 1]
<1>1. f \in [A -> B]
  OBVIOUS
<1>2. \A i, j \in A : f[i] = f[j] => i = j
  OBVIOUS
<1>3. \A b \in B : \E i \in A : f[i] = b
  <2>1. TAKE b \in B
  <2>2. b + 1 \in A /\ f[b + 1] = b
    OBVIOUS
  <2> QED
    BY <2>2
<1>4. f \in Bijection(A, B)
  <2> HIDE DEF f
  <2> QED
    BY <1>1, <1>2, <1>3 DEF Bijection, Injection, Surjection, IsInjective
<1> QED
  BY <1>4, FS_Bijection DEF ExistsBijection

(* The value that is taken off a queue was counted once. *)
LEMMA HowManyTail ==
  ASSUME NEW S, NEW q \in Seq(S), q # <<>>, NEW P
  PROVE  HowMany(Tail(q), P) = HowMany(q, P) - (IF Head(q) \in P THEN 1 ELSE 0)
<1> DEFINE A == Places(q, P) \ {1}
           B == Places(Tail(q), P)
<1>1. /\ Tail(q) \in Seq(S) /\ Len(q) \in Nat \ {0} /\ DOMAIN q = 1..Len(q)
      /\ DOMAIN Tail(q) = 1..(Len(q) - 1)
      /\ \A i \in 1..(Len(q) - 1) : Tail(q)[i] = q[i + 1]
      /\ Head(q) = q[1]
  OBVIOUS
<1>2. IsFiniteSet(Places(q, P)) /\ HowMany(q, P) \in Nat
  BY QueuePlaces, PlacesFinite
<1>3. /\ IsFiniteSet(A)
      /\ Cardinality(A) = HowMany(q, P) - (IF 1 \in Places(q, P) THEN 1 ELSE 0)
  BY <1>2, FS_RemoveElement DEF HowMany
<1>4. 1 \in Places(q, P) <=> Head(q) \in P
  BY <1>1 DEF Places
<1>5. A \in SUBSET Int /\ B \in SUBSET Int
  BY <1>1 DEF Places
<1>6. ASSUME NEW i \in Int
      PROVE  i \in B <=> i + 1 \in A
  BY <1>1 DEF Places
<1>7. Cardinality(B) = Cardinality(A)
  <2> HIDE DEF A, B
  <2> QED
    BY <1>3, <1>5, <1>6, ShiftedPlaces
<1> QED
  BY <1>3, <1>4, <1>7 DEF HowMany

(* One place that changes adds one, takes one away, or changes nothing. *)
LEMMA HowManyExcept ==
  ASSUME NEW f, NEW g, NEW x \in DOMAIN f, NEW P, IsFiniteSet(DOMAIN f),
         DOMAIN g = DOMAIN f, \A y \in DOMAIN f : y # x => g[y] = f[y]
  PROVE  HowMany(g, P)
           = HowMany(f, P) - (IF f[x] \in P THEN 1 ELSE 0) + (IF g[x] \in P THEN 1 ELSE 0)
<1> DEFINE A == Places(f, P)
<1>1. IsFiniteSet(A) /\ Cardinality(A) \in Nat
  BY PlacesFinite DEF HowMany
<1>2. x \in A <=> f[x] \in P
  BY DEF Places
<1>3. CASE g[x] \in P
  <2>1. Places(g, P) = A \cup {x}
    BY <1>3 DEF Places
  <2> HIDE DEF A
  <2>2. Cardinality(Places(g, P)) = IF x \in A THEN Cardinality(A) ELSE Cardinality(A) + 1
    BY <2>1, <1>1, FS_AddElement
  <2> QED
    BY <2>2, <1>1, <1>2, <1>3 DEF HowMany, A
<1>4. CASE g[x] \notin P
  <2>1. Places(g, P) = A \ {x}
    BY <1>4 DEF Places
  <2> HIDE DEF A
  <2>2. Cardinality(Places(g, P)) = IF x \in A THEN Cardinality(A) - 1 ELSE Cardinality(A)
    BY <2>1, <1>1, FS_RemoveElement
  <2> QED
    BY <2>2, <1>1, <1>2, <1>4 DEF HowMany, A
<1> QED
  BY <1>3, <1>4

(* A nonempty set of numbers has a least one. *)
LEMMA LeastOf ==
  ASSUME NEW S, S \subseteq Nat, S # {}
  PROVE  \E x \in S : \A y \in S : x <= y
<1>1. PICK x \in S : \A y \in S : ~(<<y, x>> \in OpToRel(<, Nat))
  BY NatLessThanWellFounded, WFMin
<1>2. ASSUME NEW y \in S PROVE x <= y
  <2>1. x \in Nat /\ y \in Nat
    OBVIOUS
  <2>2. ~(y < x)
    BY <1>1, <2>1 DEF OpToRel
  <2> QED
    BY ONLY <2>1, <2>2
<1> QED
  BY <1>2
================================================================================
