-------------------------- MODULE SchedulerCore_proofs --------------------------
(***************************************************************************)
(* What the methods of SchedulerCore preserve, for any schedules, slots    *)
(* and times: each takes a table that satisfies CoreInv to one that does,  *)
(* and keeps what goes with the runs of the jobs in order: which flags go  *)
(* with a run that is out, what waits for it, and what is left of a job    *)
(* when it is over.                                                        *)
(***************************************************************************)
EXTENDS SchedulerCore, TLAPS

(* r is d with other flags, times and counts: it is still the same job. *)
SameJob(r, d) ==
  /\ r.id = d.id /\ r.generation = d.generation /\ r.occupied = d.occupied

(* A computation of the next run keeps the record well formed, changes      *)
(* neither the job nor its state, and primes only what may run.             *)
LEMMA ComputeNextResult ==
  ASSUME NEW r \in JobRecord, NEW from
  PROVE  LET n == ComputeNextForJob(r, from) IN
         /\ n \in JobRecord
         /\ SameJob(n, r) /\ n.paused = r.paused /\ n.canceled = r.canceled
         /\ n.runningCount = r.runningCount
         /\ n.hasNext => ~r.paused /\ ~r.canceled
<1>1. ComputeNext(r.schedule, from) \subseteq Time
  <2>1. r.schedule \in Schedules
    BY DEF JobRecord
  <2>2. CASE r.schedule \in OneShots
    BY <2>2, ScheduleAssumption DEF ComputeNext
  <2>3. CASE r.schedule \notin OneShots
    <3>1. Occurrences[r.schedule] \subseteq Time
      BY <2>1, <2>3, ScheduleAssumption DEF Schedules
    <3> QED
      BY <2>3, <3>1 DEF ComputeNext, FirstOccurrence
  <2> QED
    BY <2>2, <2>3
<1>2. CASE r.canceled \/ r.paused
  BY <1>2 DEF ComputeNextForJob, JobRecord, SameJob
<1>3. CASE ~(r.canceled \/ r.paused)
  <2> DEFINE next == ComputeNext(r.schedule, from)
             time == IF next # {} THEN CHOOSE t \in next : TRUE ELSE r.nextRunUtc
  <2>1. time \in Time
    BY <1>1 DEF JobRecord
  <2>2. ComputeNextForJob(r, from) =
          [r EXCEPT !.refreshPending = FALSE, !.hasNext = (next # {}), !.nextRunUtc = time]
    BY <1>3 DEF ComputeNextForJob
  <2> HIDE DEF next, time
  <2> QED
    BY <1>3, <2>1, <2>2 DEF JobRecord, SameJob
<1> QED
  BY <1>2, <1>3

(* A method that changes neither which jobs there are nor the tables that   *)
(* list them leaves these tables consistent.                                *)
LEMMA SameTables ==
  ASSUME NEW c \in CoreState, NEW d \in CoreState,
         Consistent(c), VacantIsBlank(c),
         \A s \in Slots : SameJob(d.jobs[s], c.jobs[s]),
         d.jobIndex = c.jobIndex, d.freeSlots = c.freeSlots,
         d.allocated = c.allocated, d.nextId = c.nextId
  PROVE  Consistent(d) /\ VacantIsBlank(d)
<1>1. Occupied(d) = Occupied(c)
  BY DEF Occupied, SameJob
<1>2. \A s \in Slots : d.jobs[s].id = c.jobs[s].id
  BY DEF SameJob
<1>3. Occupied(c) \subseteq Slots
  BY DEF Occupied
<1> QED
  BY <1>1, <1>2, <1>3 DEF Consistent, VacantIsBlank

(* The records that pushDue's callers rewrote are primed with their entry.  *)
LEMMA PushDueInv ==
  ASSUME NEW c \in CoreState, Consistent(c), VacantIsBlank(c),
         NEW D \in SUBSET Slots, NEW recs \in [D -> JobRecord], NEW g,
         \A s \in D : SameJob(recs[s], c.jobs[s]) /\ (recs[s].hasNext => Runnable(recs[s])),
         \A s \in Slots \ D : PrimedSlot(c, s)
  PROVE  CoreInv(PushDue(c, recs, g))
<1> DEFINE d == PushDue(c, recs, g)
           entries == {DueEntry(s, recs[s]) : s \in {x \in D : Pushable(recs[x]) /\ x \in g}}
<1>1. DOMAIN recs = D
  OBVIOUS
<1>2. /\ d = [c EXCEPT !.jobs = d.jobs, !.dueHeap = d.dueHeap]
      /\ d.dueHeap = c.dueHeap \cup entries
      /\ d.jobs = [s \in Slots |->
                     IF s \notin D THEN c.jobs[s]
                     ELSE IF Pushable(recs[s]) /\ s \notin g THEN [recs[s] EXCEPT !.hasNext = FALSE]
                     ELSE recs[s]]
  BY <1>1 DEF PushDue, CoreState
<1>3. entries \subseteq DueHeapEntry
  BY DEF DueEntry, DueHeapEntry, JobRecord
<1> HIDE DEF d, entries
<1>4. ASSUME NEW s \in Slots
      PROVE  d.jobs[s] \in JobRecord /\ SameJob(d.jobs[s], c.jobs[s])
  <2>1. CASE s \notin D
    BY <1>2, <2>1 DEF CoreState, SameJob
  <2>2. CASE s \in D
    <3>1. recs[s] \in JobRecord /\ SameJob(recs[s], c.jobs[s])
      BY <2>2
    <3>2. d.jobs[s] = recs[s] \/ d.jobs[s] = [recs[s] EXCEPT !.hasNext = FALSE]
      BY <1>2, <2>2
    <3> QED
      BY <3>1, <3>2 DEF JobRecord, SameJob
  <2> QED
    BY <2>1, <2>2
<1>5. d \in CoreState
  <2>1. d.jobs \in [Slots -> JobRecord]
    BY <1>2, <1>4
  <2>2. d.dueHeap \in SUBSET DueHeapEntry
    BY <1>2, <1>3 DEF CoreState
  <2> QED
    BY <1>2, <2>1, <2>2 DEF CoreState
<1>6. Consistent(d) /\ VacantIsBlank(d)
  <2>1. /\ d.jobIndex = c.jobIndex /\ d.freeSlots = c.freeSlots
        /\ d.allocated = c.allocated /\ d.nextId = c.nextId
    BY <1>2 DEF CoreState
  <2> QED
    BY <1>4, <1>5, <2>1, SameTables
<1>7. ASSUME NEW s \in Slots PROVE PrimedSlot(d, s)
  <2>1. CASE s \notin D
    BY <1>2, <2>1 DEF PrimedSlot
  <2>2. CASE s \in D /\ Pushable(recs[s]) /\ s \in g
    <3>1. d.jobs[s] = recs[s]
      BY <1>2, <2>2
    <3>2. DueEntry(s, recs[s]) \in entries
      BY <2>2 DEF entries
    <3> QED
      BY <1>2, <2>2, <3>1, <3>2 DEF PrimedSlot
  <2>3. CASE s \in D /\ Pushable(recs[s]) /\ s \notin g
    <3>1. d.jobs[s] = [recs[s] EXCEPT !.hasNext = FALSE]
      BY <1>2, <2>3
    <3> QED
      BY <2>3, <3>1 DEF PrimedSlot, JobRecord
  <2>4. CASE s \in D /\ ~Pushable(recs[s])
    <3>1. d.jobs[s] = recs[s]
      BY <1>2, <2>4
    <3> QED
      BY <2>4, <3>1 DEF PrimedSlot, Pushable, Runnable
  <2> QED
    BY <2>1, <2>2, <2>3, <2>4
<1> QED
  BY <1>5, <1>6, <1>7 DEF CoreInv, Primed, d

(* A method that rewrites one record and queues its slot, without a push:   *)
(* the job stays the same and is primed no further than it was.             *)
LEMMA RewriteInv ==
  ASSUME NEW c, CoreInv(c), NEW s \in Slots, NEW r \in JobRecord,
         SameJob(r, c.jobs[s]),
         r.hasNext => /\ c.jobs[s].hasNext /\ Runnable(r)
                      /\ r.nextRunUtc = c.jobs[s].nextRunUtc,
         NEW P \in SUBSET Slots
  PROVE  CoreInv([c EXCEPT !.jobs[s] = r, !.pendingSchedules = P])
<1> DEFINE d == [c EXCEPT !.jobs[s] = r, !.pendingSchedules = P]
<1>1. c \in CoreState /\ Primed(c) /\ Consistent(c) /\ VacantIsBlank(c)
  BY DEF CoreInv
<1>2. /\ d \in CoreState
      /\ d.jobs = [c.jobs EXCEPT ![s] = r] /\ d.dueHeap = c.dueHeap
      /\ d.jobIndex = c.jobIndex /\ d.freeSlots = c.freeSlots
      /\ d.allocated = c.allocated /\ d.nextId = c.nextId
  BY <1>1 DEF CoreState
<1> HIDE DEF d
<1>3. \A t \in Slots : d.jobs[t] = IF t = s THEN r ELSE c.jobs[t]
  BY <1>1, <1>2 DEF CoreState
<1>4. Consistent(d) /\ VacantIsBlank(d)
  <2>1. \A t \in Slots : SameJob(d.jobs[t], c.jobs[t])
    BY <1>3 DEF SameJob
  <2> QED
    BY <1>1, <1>2, <2>1, SameTables
<1>5. ASSUME NEW t \in Slots PROVE PrimedSlot(d, t)
  <2>1. PrimedSlot(c, t) /\ PrimedSlot(c, s)
    BY <1>1 DEF Primed
  <2>2. CASE t = s
    <3>1. DueEntry(s, r) = DueEntry(s, c.jobs[s]) \/ ~r.hasNext
      BY DEF DueEntry, SameJob
    <3> QED
      BY <1>2, <1>3, <2>1, <2>2, <3>1 DEF PrimedSlot
  <2>3. CASE t # s
    BY <1>2, <1>3, <2>1, <2>3 DEF PrimedSlot
  <2> QED
    BY <2>2, <2>3
<1> QED
  BY <1>2, <1>4, <1>5 DEF CoreInv, Primed, d

(* Between popDue and the rewrite of the popped job its slot may be primed  *)
(* without an entry; all else holds.                                        *)
CoreInvBut(c, s) ==
  /\ c \in CoreState /\ Consistent(c) /\ VacantIsBlank(c)
  /\ \A t \in Slots \ {s} : PrimedSlot(c, t)

(* A consistent table is consistent but for any one slot. *)
LEMMA CoreInvImpliesBut ==
  ASSUME NEW c, CoreInv(c), NEW s \in Slots
  PROVE  CoreInvBut(c, s) /\ c.jobs[s] \in JobRecord
BY DEF CoreInv, CoreInvBut, Primed, CoreState

(* A push that rewrites only the excepted slot restores the invariant. *)
LEMMA PushOneInv ==
  ASSUME NEW c, NEW s \in Slots, CoreInvBut(c, s), NEW r \in JobRecord, NEW g,
         SameJob(r, c.jobs[s]), r.hasNext => Runnable(r)
  PROVE  CoreInv(PushDue(c, [x \in {s} |-> r], g))
<1> DEFINE recs == [x \in {s} |-> r]
<1>1. recs \in [{s} -> JobRecord] /\ recs[s] = r
  OBVIOUS
<1> HIDE DEF recs
<1> QED
  BY <1>1, PushDueInv DEF CoreInvBut, recs

(* The same for a record that is left unprimed. *)
LEMMA UnprimeInv ==
  ASSUME NEW c, NEW s \in Slots, CoreInvBut(c, s), NEW r \in JobRecord,
         SameJob(r, c.jobs[s]), ~r.hasNext
  PROVE  CoreInv([c EXCEPT !.jobs[s] = r])
<1>1. CoreInv(PushDue(c, [x \in {s} |-> r], {}))
  BY PushOneInv
<1>2. PushDue(c, [x \in {s} |-> r], {}) = [c EXCEPT !.jobs[s] = r]
  <2>1. {DueEntry(x, [y \in {s} |-> r][x]) :
           x \in {y \in {s} : Pushable([z \in {s} |-> r][y]) /\ y \in {}}} = {}
    OBVIOUS
  <2>2. c.jobs \in [Slots -> JobRecord] /\ c \in CoreState
    BY DEF CoreInvBut, CoreState
  <2>3. [t \in Slots |-> IF t \notin {s} THEN c.jobs[t] ELSE r] = [c.jobs EXCEPT ![s] = r]
    BY <2>2
  <2>4. PushDue(c, [x \in {s} |-> r], {}) =
          [c EXCEPT !.jobs = [t \in Slots |-> IF t \notin {s} THEN c.jobs[t] ELSE r]]
    BY <2>1, <2>2 DEF PushDue, Pushable, CoreState
  <2> QED
    BY <2>2, <2>3, <2>4 DEF CoreState
<1> QED
  BY <1>1, <1>2

(* A rewrite that leaves the heap and the list of pending slots alone. *)
LEMMA RewriteOnlyInv ==
  ASSUME NEW c, CoreInv(c), NEW s \in Slots, NEW r \in JobRecord,
         SameJob(r, c.jobs[s]),
         r.hasNext => /\ c.jobs[s].hasNext /\ Runnable(r)
                      /\ r.nextRunUtc = c.jobs[s].nextRunUtc
  PROVE  CoreInv([c EXCEPT !.jobs[s] = r])
<1>1. c \in CoreState /\ c.pendingSchedules \in SUBSET Slots
  BY DEF CoreInv, CoreState
<1>2. [c EXCEPT !.jobs[s] = r, !.pendingSchedules = c.pendingSchedules] = [c EXCEPT !.jobs[s] = r]
  BY <1>1 DEF CoreState
<1>3. CoreInv([c EXCEPT !.jobs[s] = r, !.pendingSchedules = c.pendingSchedules])
  BY <1>1, RewriteInv
<1> QED
  BY <1>2, <1>3

(* queueScheduling unprimes the job, and lists it or gives up. *)
LEMMA QueueSchedulingInv ==
  ASSUME NEW c, CoreInv(c), NEW s \in Slots, NEW from \in Time, NEW g
  PROVE  CoreInv(QueueScheduling(c, s, from, g))
<1>1. c \in CoreState /\ c.jobs[s] \in JobRecord /\ c.pendingSchedules \in SUBSET Slots
  BY DEF CoreInv, CoreState
<1>2. CASE ~Runnable(c.jobs[s])
  <2>1. /\ Unscheduled(c.jobs[s]) \in JobRecord /\ ~Unscheduled(c.jobs[s]).hasNext
        /\ SameJob(Unscheduled(c.jobs[s]), c.jobs[s])
    BY <1>1 DEF Unscheduled, JobRecord, SameJob
  <2>2. QueueScheduling(c, s, from, g) = [c EXCEPT !.jobs[s] = Unscheduled(c.jobs[s])]
    BY <1>2 DEF QueueScheduling
  <2> QED
    BY <2>1, <2>2, RewriteOnlyInv
<1>3. CASE Runnable(c.jobs[s])
  <2> DEFINE flag == c.jobs[s].pendingSchedule \/ s \in g
             r == [c.jobs[s] EXCEPT !.scheduleFromUtc = from, !.hasNext = FALSE,
                                    !.pendingSchedule = flag]
             P == IF c.jobs[s].pendingSchedule \/ s \notin g
                  THEN c.pendingSchedules ELSE c.pendingSchedules \cup {s}
  <2>1. flag \in BOOLEAN
    BY <1>1 DEF JobRecord
  <2>2. QueueScheduling(c, s, from, g) = [c EXCEPT !.jobs[s] = r, !.pendingSchedules = P]
    BY <1>1, <1>3 DEF QueueScheduling, CoreState, JobRecord
  <2>3. P \in SUBSET Slots
    BY <1>1
  <2> HIDE DEF flag, P
  <2>4. r \in JobRecord /\ SameJob(r, c.jobs[s]) /\ ~r.hasNext
    BY <1>1, <2>1 DEF JobRecord, SameJob
  <2> HIDE DEF r
  <2>5. CoreInv([c EXCEPT !.jobs[s] = r, !.pendingSchedules = P])
    BY <2>3, <2>4, RewriteInv
  <2> QED
    BY <2>2, <2>5
<1> QED
  BY <1>2, <1>3

(* drainPendingSchedules primes what may run and is idle. *)
LEMMA DrainInv ==
  ASSUME NEW c, CoreInv(c), NEW now, NEW g
  PROVE  CoreInv(DrainPendingSchedules(c, now, g))
<1>1. CASE ~ClockValid(c, now)
  BY <1>1 DEF DrainPendingSchedules
<1>2. CASE ClockValid(c, now)
  <2> DEFINE base == [c EXCEPT !.pendingSchedules = {}]
             start(s) == [c.jobs[s] EXCEPT !.pendingSchedule = FALSE]
             drained(s) == IF ~Runnable(start(s)) \/ start(s).runningCount > 0
                           THEN [start(s) EXCEPT !.hasNext = FALSE]
                           ELSE ComputeNextForJob(start(s), start(s).scheduleFromUtc)
             recs == [s \in c.pendingSchedules |-> drained(s)]
  <2>1. DrainPendingSchedules(c, now, g) = PushDue(base, recs, g)
    BY <1>2 DEF DrainPendingSchedules
  <2>2. c \in CoreState /\ Primed(c) /\ Consistent(c) /\ VacantIsBlank(c)
    BY DEF CoreInv
  <2>3. /\ base \in CoreState /\ base.jobs = c.jobs /\ base.dueHeap = c.dueHeap
        /\ base.jobIndex = c.jobIndex /\ base.freeSlots = c.freeSlots
        /\ base.allocated = c.allocated /\ base.nextId = c.nextId
    BY <2>2 DEF CoreState
  <2>4. ASSUME NEW s \in Slots
        PROVE  /\ drained(s) \in JobRecord /\ SameJob(drained(s), c.jobs[s])
               /\ drained(s).hasNext => Runnable(drained(s))
    <3>0. c.jobs[s] \in JobRecord
      BY <2>2 DEF CoreState
    <3>1. start(s) \in JobRecord /\ SameJob(start(s), c.jobs[s])
      BY <3>0 DEF JobRecord, SameJob
    <3> HIDE DEF start
    <3>2. CASE ~Runnable(start(s)) \/ start(s).runningCount > 0
      BY <3>1, <3>2 DEF JobRecord, SameJob
    <3>3. CASE ~(~Runnable(start(s)) \/ start(s).runningCount > 0)
      <4> DEFINE n == ComputeNextForJob(start(s), start(s).scheduleFromUtc)
      <4>1. /\ n \in JobRecord /\ SameJob(n, start(s))
            /\ n.paused = start(s).paused /\ n.canceled = start(s).canceled
        BY <3>1, ComputeNextResult
      <4>2. drained(s) = n
        BY <3>3
      <4> HIDE DEF n, drained
      <4> QED
        BY <3>1, <3>3, <4>1, <4>2 DEF SameJob, Runnable, Live
    <3> QED
      BY <3>2, <3>3
  <2> HIDE DEF drained, base
  <2>5. recs \in [c.pendingSchedules -> JobRecord] /\ c.pendingSchedules \in SUBSET Slots
    BY <2>2, <2>4 DEF CoreState
  <2>6. \A s \in c.pendingSchedules : /\ SameJob(recs[s], base.jobs[s])
                                      /\ recs[s].hasNext => Runnable(recs[s])
    BY <2>3, <2>4, <2>5
  <2> HIDE DEF recs
  <2>7. Consistent(base) /\ VacantIsBlank(base)
    BY <2>2, <2>3, SameTables DEF SameJob
  <2>8. \A s \in Slots : PrimedSlot(base, s)
    BY <2>2, <2>3 DEF Primed, PrimedSlot
  <2>9. CoreInv(PushDue(base, recs, g))
    BY <2>3, <2>5, <2>6, <2>7, <2>8, PushDueInv
  <2> QED
    BY <2>1, <2>9
<1> QED
  BY <1>1, <1>2

(* refreshAllSchedules recomputes, or leaves unprimed, what may run. *)
LEMMA RefreshInv ==
  ASSUME NEW c, CoreInv(c), NEW now, NEW g
  PROVE  CoreInv(RefreshAllSchedules(c, now, g))
<1> DEFINE touched == {s \in Slots : Runnable(c.jobs[s]) /\ ~IsOneShot(c.jobs[s])}
           cleared(s) == [Unscheduled(c.jobs[s]) EXCEPT !.nextRunUtc = NullTime]
           refreshed(s) ==
             IF Busy(c.jobs[s])
             THEN [cleared(s) EXCEPT !.refreshPending = TRUE, !.queuedWhileRunning = FALSE]
             ELSE ComputeNextForJob(cleared(s), now)
           recs == [s \in touched |-> refreshed(s)]
<1>1. RefreshAllSchedules(c, now, g) = PushDue(c, recs, g)
  BY DEF RefreshAllSchedules
<1>2. c \in CoreState /\ Primed(c) /\ Consistent(c) /\ VacantIsBlank(c)
  BY DEF CoreInv
<1>3. ASSUME NEW s \in touched
      PROVE  /\ refreshed(s) \in JobRecord /\ SameJob(refreshed(s), c.jobs[s])
             /\ refreshed(s).hasNext => Runnable(refreshed(s))
  <2>1. s \in Slots /\ Runnable(c.jobs[s]) /\ c.jobs[s] \in JobRecord
    BY <1>2 DEF CoreState
  <2>2. /\ cleared(s) \in JobRecord /\ SameJob(cleared(s), c.jobs[s]) /\ ~cleared(s).hasNext
        /\ cleared(s).paused = c.jobs[s].paused /\ cleared(s).canceled = c.jobs[s].canceled
    BY <2>1 DEF Unscheduled, JobRecord, SameJob, NullTime, Time
  <2> HIDE DEF cleared
  <2>3. CASE Busy(c.jobs[s])
    BY <2>2, <2>3 DEF JobRecord, SameJob
  <2>4. CASE ~Busy(c.jobs[s])
    <3> DEFINE n == ComputeNextForJob(cleared(s), now)
    <3>1. /\ n \in JobRecord /\ SameJob(n, cleared(s))
          /\ n.paused = cleared(s).paused /\ n.canceled = cleared(s).canceled
      BY <2>2, ComputeNextResult
    <3>2. refreshed(s) = n
      BY <2>4
    <3> HIDE DEF n, refreshed
    <3> QED
      BY <2>1, <2>2, <3>1, <3>2 DEF SameJob, Runnable, Live
  <2> QED
    BY <2>3, <2>4
<1> HIDE DEF refreshed
<1>4. recs \in [touched -> JobRecord] /\ touched \in SUBSET Slots
  BY <1>3
<1>5. \A s \in touched : SameJob(recs[s], c.jobs[s]) /\ (recs[s].hasNext => Runnable(recs[s]))
  BY <1>3
<1> HIDE DEF recs, touched
<1>6. CoreInv(PushDue(c, recs, g))
  BY <1>2, <1>4, <1>5, PushDueInv DEF Primed
<1> QED
  BY <1>1, <1>6

(* Retiring jobs takes exactly their slots out of the table. *)
LEMMA RetireInv ==
  ASSUME NEW c, CoreInv(c), NEW R, R \subseteq Occupied(c), NEW g
  PROVE  CoreInv(RetireJobs(c, R, g))
<1> DEFINE d == RetireJobs(c, R, g)
           blank(s) == [EmptyRecord EXCEPT !.generation = c.jobs[s].generation + 1]
<1>1. c \in CoreState /\ Primed(c) /\ Consistent(c) /\ VacantIsBlank(c)
  BY DEF CoreInv
<1>2. R \subseteq Slots
  BY DEF Occupied
<1>3. /\ d = [c EXCEPT !.jobs = d.jobs, !.jobIndex = d.jobIndex, !.freeSlots = d.freeSlots]
      /\ d.jobs = [s \in Slots |-> IF s \in R THEN blank(s) ELSE c.jobs[s]]
      /\ d.jobIndex = {p \in c.jobIndex : \A s \in R : p[1] # c.jobs[s].id}
      /\ d.freeSlots = c.freeSlots \cup (R \cap g)
  BY <1>1 DEF RetireJobs, CoreState
<1>4. ASSUME NEW s \in Slots
      PROVE  /\ blank(s) \in JobRecord
             /\ ~blank(s).occupied /\ ~blank(s).hasNext /\ blank(s).id = 0
  <2>1. c.jobs[s].generation + 1 \in Nat
    BY <1>1 DEF CoreState, JobRecord
  <2> QED
    BY <2>1, ScheduleAssumption
       DEF EmptyRecord, JobRecord, Schedules, Dispatches, Overlaps, Time, NullTime
<1> HIDE DEF d, blank
<1>5. /\ d.allocated = c.allocated /\ d.nextId = c.nextId /\ d.dueHeap = c.dueHeap
      /\ \A s \in Slots : d.jobs[s] = IF s \in R THEN blank(s) ELSE c.jobs[s]
  BY <1>1, <1>3 DEF CoreState
<1>6. d \in CoreState
  <2>1. d.jobs \in [Slots -> JobRecord]
    BY <1>1, <1>3, <1>4 DEF CoreState
  <2>2. d.jobIndex \in SUBSET (Nat \X Slots) /\ d.freeSlots \in SUBSET Slots
    BY <1>1, <1>2, <1>3 DEF CoreState
  <2> QED
    BY <1>1, <1>3, <2>1, <2>2 DEF CoreState
<1>7. Occupied(d) = Occupied(c) \ R
  BY <1>4, <1>5 DEF Occupied
<1>8. VacantIsBlank(d)
  BY <1>1, <1>4, <1>5, <1>7 DEF VacantIsBlank, Occupied
<1>9. Consistent(d)
  <2>1. \A s \in Occupied(c) : \A t \in Slots \ {s} : c.jobs[t].id # c.jobs[s].id
    BY <1>1 DEF Consistent
  <2>2. d.jobIndex = {<<d.jobs[s].id, s>> : s \in Occupied(d)}
    <3>1. ASSUME NEW p \in d.jobIndex PROVE p \in {<<d.jobs[s].id, s>> : s \in Occupied(d)}
      <4>1. p \in c.jobIndex /\ \A s \in R : p[1] # c.jobs[s].id
        BY <1>3, <3>1
      <4>2. PICK s \in Occupied(c) : p = <<c.jobs[s].id, s>>
        BY <1>1, <4>1 DEF Consistent
      <4>3. s \notin R
        BY <4>1, <4>2
      <4> QED
        BY <1>5, <1>7, <4>2, <4>3 DEF Occupied
    <3>2. ASSUME NEW s \in Occupied(d) PROVE <<d.jobs[s].id, s>> \in d.jobIndex
      <4>1. s \in Occupied(c) /\ s \notin R /\ s \in Slots /\ d.jobs[s] = c.jobs[s]
        BY <1>5, <1>7, <3>2 DEF Occupied
      <4>2. <<c.jobs[s].id, s>> \in c.jobIndex
        BY <1>1, <4>1 DEF Consistent
      <4>3. \A t \in R : c.jobs[s].id # c.jobs[t].id
        BY <1>2, <2>1, <4>1
      <4> QED
        BY <1>3, <4>1, <4>2, <4>3
    <3> QED
      BY <3>1, <3>2
  <2>3. ASSUME NEW s \in Occupied(d)
        PROVE  /\ d.jobs[s].id \in 1..(d.nextId - 1)
               /\ s \in d.allocated \ d.freeSlots
    <3>1. s \in Occupied(c) /\ s \notin R /\ d.jobs[s] = c.jobs[s]
      BY <1>5, <1>7 DEF Occupied
    <3>2. c.jobs[s].id \in 1..(c.nextId - 1) /\ s \in c.allocated \ c.freeSlots
      BY <1>1, <3>1 DEF Consistent
    <3> QED
      BY <1>3, <1>5, <3>1, <3>2
  <2>4. ASSUME NEW s \in Occupied(d), NEW t \in Slots \ {s}
        PROVE  d.jobs[t].id # d.jobs[s].id
    <3>1. s \in Occupied(c) /\ s \in Slots /\ s \notin R /\ d.jobs[s] = c.jobs[s]
      BY <1>5, <1>7 DEF Occupied
    <3>2. CASE t \in R
      <4>1. d.jobs[t].id = 0
        BY <1>4, <1>5, <3>2
      <4>2. d.jobs[s].id # 0
        BY <1>1, <3>1 DEF Consistent, CoreState
      <4> QED
        BY <4>1, <4>2
    <3>3. CASE t \notin R
      BY <1>5, <2>1, <3>1, <3>3
    <3> QED
      BY <3>2, <3>3
  <2>5. d.freeSlots \subseteq d.allocated
    BY <1>1, <1>3, <1>5 DEF Consistent
  <2> QED
    BY <2>2, <2>3, <2>4, <2>5 DEF Consistent
<1>10. ASSUME NEW s \in Slots PROVE PrimedSlot(d, s)
  <2>1. PrimedSlot(c, s)
    BY <1>1 DEF Primed
  <2> QED
    BY <1>4, <1>5, <2>1 DEF PrimedSlot
<1> QED
  BY <1>6, <1>8, <1>9, <1>10 DEF CoreInv, Primed, d

(* cancelJob and cancelAll mark their jobs and retire the idle ones. *)
LEMMA CancelInv ==
  ASSUME NEW c, CoreInv(c), NEW S, S \subseteq Occupied(c), NEW g
  PROVE  CoreInv(CancelSlots(c, S, g))
<1> DEFINE canceled(r) == [Unscheduled(r) EXCEPT !.canceled = TRUE, !.paused = FALSE,
                                                 !.queuedWhileRunning = FALSE]
           marked == [c EXCEPT !.jobs = [s \in Slots |-> IF s \in S THEN canceled(c.jobs[s])
                                                                    ELSE c.jobs[s]]]
           idle == {s \in S : c.jobs[s].runningCount = 0}
           recs == [s \in S |-> canceled(c.jobs[s])]
<1>1. CancelSlots(c, S, g) = RetireJobs(marked, idle, g)
  BY DEF CancelSlots
<1>2. c \in CoreState /\ Primed(c) /\ Consistent(c) /\ VacantIsBlank(c)
  BY DEF CoreInv
<1>3. S \in SUBSET Slots
  BY DEF Occupied
<1>4. ASSUME NEW s \in S
      PROVE  LET n == canceled(c.jobs[s]) IN
             n \in JobRecord /\ SameJob(n, c.jobs[s]) /\ ~n.hasNext
  <2>1. c.jobs[s] \in JobRecord
    BY <1>2, <1>3 DEF CoreState
  <2> QED
    BY <2>1 DEF Unscheduled, JobRecord, SameJob
<1> HIDE DEF canceled
<1>5. /\ recs \in [S -> JobRecord]
      /\ \A s \in S : SameJob(recs[s], c.jobs[s]) /\ ~recs[s].hasNext
      /\ \A s \in S : recs[s] = canceled(c.jobs[s])
  BY <1>4
<1> HIDE DEF recs
<1>6. CoreInv(PushDue(c, recs, {}))
  BY <1>2, <1>3, <1>5, PushDueInv DEF Primed
<1>7. marked = PushDue(c, recs, {})
  <2>1. {DueEntry(s, recs[s]) : s \in {x \in DOMAIN recs : Pushable(recs[x]) /\ x \in {}}} = {}
    OBVIOUS
  <2>2. DOMAIN recs = S /\ \A s \in S : ~Pushable(recs[s])
    BY <1>5 DEF Pushable
  <2>3. [s \in Slots |-> IF s \in S THEN canceled(c.jobs[s]) ELSE c.jobs[s]] =
        [s \in Slots |-> IF s \notin DOMAIN recs THEN c.jobs[s]
                         ELSE IF Pushable(recs[s]) /\ s \notin {}
                              THEN [recs[s] EXCEPT !.hasNext = FALSE] ELSE recs[s]]
    BY <1>5, <2>2
  <2> QED
    BY <1>2, <2>1, <2>3 DEF PushDue, CoreState
<1>8. idle \subseteq Occupied(marked)
  <2>1. \A s \in S : marked.jobs[s].occupied
    BY <1>2, <1>3, <1>4 DEF CoreState, Occupied, SameJob
  <2> QED
    BY <1>3, <2>1 DEF Occupied
<1> HIDE DEF marked, idle
<1>9. CoreInv(RetireJobs(marked, idle, g))
  BY <1>6, <1>7, <1>8, RetireInv
<1> QED
  BY <1>1, <1>9

(* pauseJob unprimes the job. *)
LEMMA PauseInv ==
  ASSUME NEW c, CoreInv(c), NEW s \in Slots
  PROVE  CoreInv(PauseJob(c, s))
<1> DEFINE r == [Unscheduled(c.jobs[s]) EXCEPT !.paused = TRUE, !.queuedWhileRunning = FALSE]
<1>1. c \in CoreState /\ c.jobs[s] \in JobRecord
  BY DEF CoreInv, CoreState
<1>2. r \in JobRecord /\ SameJob(r, c.jobs[s]) /\ ~r.hasNext
  BY <1>1 DEF Unscheduled, JobRecord, SameJob
<1>3. PauseJob(c, s) = [c EXCEPT !.jobs[s] = r]
  BY <1>1 DEF PauseJob, CoreState
<1> HIDE DEF r
<1> QED
  BY <1>2, <1>3, RewriteOnlyInv

(* resumeJob queues the job, or leaves it to its completion. *)
LEMMA ResumeInv ==
  ASSUME NEW c, CoreInv(c), NEW s \in Slots, Live(c.jobs[s]), NEW now \in Time, NEW g
  PROVE  CoreInv(ResumeJob(c, s, now, g))
<1> DEFINE r == [c.jobs[s] EXCEPT !.paused = FALSE, !.queuedWhileRunning = FALSE]
           d == [c EXCEPT !.jobs[s] = r]
<1>1. c \in CoreState /\ c.jobs[s] \in JobRecord /\ PrimedSlot(c, s)
  BY DEF CoreInv, CoreState, Primed
<1>2. /\ r \in JobRecord /\ SameJob(r, c.jobs[s])
      /\ r.hasNext = c.jobs[s].hasNext /\ r.nextRunUtc = c.jobs[s].nextRunUtc
      /\ Runnable(r)
  BY <1>1 DEF JobRecord, SameJob, Live, Runnable
<1>3. ResumeJob(c, s, now, g) = IF r.runningCount = 0 THEN QueueScheduling(d, s, now, g) ELSE d
  BY DEF ResumeJob
<1> HIDE DEF r
<1>4. CoreInv(d)
  BY <1>2, RewriteOnlyInv
<1> HIDE DEF d
<1>5. CoreInv(QueueScheduling(d, s, now, g))
  BY <1>4, QueueSchedulingInv
<1> QED
  BY <1>3, <1>4, <1>5

(* The id that a failed addJob took is skipped. *)
LEMMA NoMemoryInv ==
  ASSUME NEW c, CoreInv(c)
  PROVE  CoreInv(AddJobNoMemory(c))
<1> DEFINE d == AddJobNoMemory(c)
<1>1. c \in CoreState /\ Primed(c) /\ Consistent(c) /\ VacantIsBlank(c)
  BY DEF CoreInv
<1>2. /\ d \in CoreState /\ d.jobs = c.jobs /\ d.dueHeap = c.dueHeap
      /\ d.jobIndex = c.jobIndex /\ d.freeSlots = c.freeSlots
      /\ d.allocated = c.allocated /\ d.nextId = c.nextId + 1 /\ c.nextId \in Nat
  BY <1>1 DEF AddJobNoMemory, CoreState
<1> HIDE DEF d
<1>3. Occupied(d) = Occupied(c)
  BY <1>2 DEF Occupied
<1>4. \A s \in Occupied(c) : c.jobs[s].id \in 1..((c.nextId + 1) - 1)
  BY <1>1, <1>2 DEF Consistent
<1>5. Consistent(d) /\ VacantIsBlank(d)
  BY <1>1, <1>2, <1>3, <1>4 DEF Consistent, VacantIsBlank
<1>6. Primed(d)
  BY <1>1, <1>2 DEF Primed, PrimedSlot
<1> QED
  BY <1>2, <1>5, <1>6 DEF CoreInv, d

(* addJob up to the point where the record is in the table and indexed. *)
LEMMA EnterJobInv ==
  ASSUME NEW c, CoreInv(c), NEW s \in AddSlots(c), NEW spec \in Schedules,
         NEW options \in JobOptions
  PROVE  LET r == NewRecord(c, s, spec, options)
             d == EnterJob(c, s, r)
         IN /\ s \in Slots /\ r \in JobRecord /\ ~r.hasNext /\ Live(r)
            /\ r.paused = options.startPaused
            /\ CoreInv(d) /\ d.jobs[s] = r
<1> DEFINE r == NewRecord(c, s, spec, options)
           d == EnterJob(c, s, r)
<1>1. c \in CoreState /\ Primed(c) /\ Consistent(c) /\ VacantIsBlank(c)
  BY DEF CoreInv
<1>2. s \in Slots /\ s \notin Occupied(c)
  BY <1>1 DEF AddSlots, Consistent, CoreState
<1>3. c.nextId \in Nat /\ c.jobs[s] \in JobRecord
  BY <1>1, <1>2 DEF CoreState
<1>4. /\ r \in JobRecord /\ ~r.hasNext /\ r.occupied /\ ~r.canceled /\ r.id = c.nextId
      /\ r.paused = options.startPaused
  <2>1. /\ options.dispatch \in Dispatches /\ options.overlap \in Overlaps
        /\ options.executorId \in Nat
        /\ options.dedicatedTask \in BOOLEAN /\ options.startPaused \in BOOLEAN
    BY DEF JobOptions
  <2>2. c.jobs[s].generation \in Nat
    BY <1>3 DEF JobRecord
  <2>3. /\ EmptyRecord \in JobRecord /\ ~EmptyRecord.hasNext /\ ~EmptyRecord.canceled
    BY ScheduleAssumption
       DEF EmptyRecord, JobRecord, Schedules, Dispatches, Overlaps, Time, NullTime
  <2> QED
    BY <1>3, <2>1, <2>2, <2>3 DEF NewRecord, JobRecord
<1> HIDE DEF r
<1>5. /\ d \in CoreState
      /\ d.jobs = [c.jobs EXCEPT ![s] = r] /\ d.dueHeap = c.dueHeap
      /\ d.allocated = c.allocated \cup {s} /\ d.freeSlots = c.freeSlots \ {s}
      /\ d.jobIndex = c.jobIndex \cup {<<c.nextId, s>>} /\ d.nextId = c.nextId + 1
  <2>1. /\ d.jobs = [c.jobs EXCEPT ![s] = r] /\ d.dueHeap = c.dueHeap
        /\ d.allocated = c.allocated \cup {s} /\ d.freeSlots = c.freeSlots \ {s}
        /\ d.jobIndex = c.jobIndex \cup {<<c.nextId, s>>} /\ d.nextId = c.nextId + 1
    BY <1>1, <1>4 DEF EnterJob, CoreState
  <2>2. /\ [c.jobs EXCEPT ![s] = r] \in [Slots -> JobRecord]
        /\ c.allocated \cup {s} \in SUBSET Slots /\ c.freeSlots \ {s} \in SUBSET Slots
        /\ c.jobIndex \cup {<<c.nextId, s>>} \in SUBSET (Nat \X Slots)
        /\ c.nextId + 1 \in Nat \ {0}
    BY <1>1, <1>2, <1>3, <1>4 DEF CoreState
  <2>3. d = [c EXCEPT !.jobs = d.jobs, !.allocated = d.allocated, !.freeSlots = d.freeSlots,
                      !.jobIndex = d.jobIndex, !.nextId = d.nextId]
    BY <1>1 DEF EnterJob, CoreState
  <2> HIDE DEF d
  <2>4. d \in CoreState
    BY <1>1, <2>1, <2>2, <2>3 DEF CoreState
  <2> QED
    BY <2>1, <2>4
<1> HIDE DEF d
<1>6. \A t \in Slots : d.jobs[t] = IF t = s THEN r ELSE c.jobs[t]
  BY <1>1, <1>5 DEF CoreState
<1>7. Occupied(d) = Occupied(c) \cup {s}
  BY <1>2, <1>4, <1>6 DEF Occupied
<1>8. VacantIsBlank(d)
  BY <1>1, <1>6, <1>7 DEF VacantIsBlank
<1>9. \A t \in Slots : c.jobs[t].id \in Nat /\ (c.jobs[t].id = 0 \/ c.jobs[t].id < c.nextId)
  BY <1>1, <1>3 DEF Consistent, VacantIsBlank, CoreState
<1>10. c.nextId # 0
  BY <1>1 DEF CoreState
<1>11. Consistent(d)
  <2>1. d.jobIndex = {<<d.jobs[t].id, t>> : t \in Occupied(d)}
    <3>1. \A t \in Occupied(c) : t # s /\ t \in Slots /\ d.jobs[t] = c.jobs[t]
      BY <1>2, <1>6 DEF Occupied
    <3>2. d.jobs[s].id = c.nextId
      BY <1>2, <1>4, <1>6
    <3> QED
      BY <1>1, <1>5, <1>7, <3>1, <3>2 DEF Consistent
  <2>2. ASSUME NEW t \in Occupied(d)
        PROVE  /\ d.jobs[t].id \in 1..(d.nextId - 1)
               /\ t \in d.allocated \ d.freeSlots
    <3>1. CASE t = s
      BY <1>2, <1>3, <1>4, <1>5, <1>6, <1>10, <3>1
    <3>2. CASE t # s
      <4>1. t \in Occupied(c) /\ d.jobs[t] = c.jobs[t]
        BY <1>6, <1>7, <3>2 DEF Occupied
      <4>2. c.jobs[t].id \in 1..(c.nextId - 1) /\ t \in c.allocated \ c.freeSlots
        BY <1>1, <4>1 DEF Consistent
      <4> QED
        BY <1>3, <1>5, <3>2, <4>1, <4>2
    <3> QED
      BY <3>1, <3>2
  <2>3. ASSUME NEW t \in Occupied(d), NEW u \in Slots \ {t}
        PROVE  d.jobs[u].id # d.jobs[t].id
    <3>1. CASE t = s
      BY <1>2, <1>3, <1>4, <1>6, <1>9, <1>10, <3>1
    <3>2. CASE u = s
      <4>1. t \in Slots /\ t # s
        BY <3>2 DEF Occupied
      <4> QED
        BY <1>3, <1>4, <1>6, <1>9, <1>10, <3>2, <4>1
    <3>3. CASE t # s /\ u # s
      <4>1. t \in Occupied(c) /\ d.jobs[t] = c.jobs[t] /\ d.jobs[u] = c.jobs[u]
        BY <1>6, <1>7, <3>3 DEF Occupied
      <4> QED
        BY <1>1, <4>1 DEF Consistent
    <3> QED
      BY <3>1, <3>2, <3>3
  <2>4. d.freeSlots \subseteq d.allocated
    BY <1>1, <1>5 DEF Consistent
  <2> QED
    BY <2>1, <2>2, <2>3, <2>4 DEF Consistent
<1>12. \A t \in Slots : PrimedSlot(d, t)
  BY <1>1, <1>4, <1>5, <1>6 DEF Primed, PrimedSlot
<1> QED
  BY <1>2, <1>4, <1>5, <1>6, <1>8, <1>11, <1>12 DEF CoreInv, Primed, Live, r, d

(* addJob: the job is entered and primed, or queued, or rolled back. *)
LEMMA AddJobInv ==
  ASSUME NEW c, CoreInv(c), NEW s \in AddSlots(c), NEW spec \in Schedules,
         NEW options \in JobOptions, NEW now \in Time, NEW g
  PROVE  CoreInv(AddJob(c, s, spec, options, now, g))
<1> DEFINE r == NewRecord(c, s, spec, options)
           d == EnterJob(c, s, r)
           n == ComputeNextForJob(r, now)
<1>1. /\ s \in Slots /\ r \in JobRecord /\ ~r.hasNext /\ Live(r)
      /\ r.paused = options.startPaused
      /\ CoreInv(d) /\ d.jobs[s] = r
  BY EnterJobInv
<1>2. AddJob(c, s, spec, options, now, g) =
        CASE options.startPaused -> d
          [] ~options.startPaused /\ ClockValid(c, now) -> PushDue(d, [x \in {s} |-> n], g)
          [] OTHER -> IF s \in g THEN QueueScheduling(d, s, now, g) ELSE AddJobNoMemory(c)
  BY DEF AddJob
<1> HIDE DEF r, d
<1>3. CoreInv(PushDue(d, [x \in {s} |-> n], g))
  <2>1. /\ n \in JobRecord /\ SameJob(n, r) /\ n.paused = r.paused /\ n.canceled = r.canceled
        /\ n.hasNext => ~r.paused /\ ~r.canceled
    BY <1>1, ComputeNextResult
  <2> HIDE DEF n
  <2>2. n.hasNext => Runnable(n)
    BY <1>1, <2>1 DEF Runnable, Live, SameJob
  <2> QED
    BY <1>1, <2>1, <2>2, CoreInvImpliesBut, PushOneInv
<1>4. CoreInv(QueueScheduling(d, s, now, g))
  BY <1>1, QueueSchedulingInv
<1>5. CoreInv(AddJobNoMemory(c))
  BY NoMemoryInv
<1>6. options.startPaused \in BOOLEAN
  BY DEF JobOptions
<1> HIDE DEF n
<1>7. \/ AddJob(c, s, spec, options, now, g) = d
      \/ AddJob(c, s, spec, options, now, g) = PushDue(d, [x \in {s} |-> n], g)
      \/ AddJob(c, s, spec, options, now, g) = QueueScheduling(d, s, now, g)
      \/ AddJob(c, s, spec, options, now, g) = AddJobNoMemory(c)
  BY <1>2, <1>6
<1> QED
  BY <1>1, <1>3, <1>4, <1>5, <1>7

(* Pruning keeps every entry that would be accepted. *)
LEMMA PruneInv ==
  ASSUME NEW c, CoreInv(c)
  PROVE  CoreInv(PruneInvalidDueEntries(c))
<1> DEFINE d == PruneInvalidDueEntries(c)
<1>1. c \in CoreState /\ Primed(c) /\ Consistent(c) /\ VacantIsBlank(c)
  BY DEF CoreInv
<1>2. /\ d \in CoreState /\ d.jobs = c.jobs
      /\ d.dueHeap = {e \in c.dueHeap : \E v \in c.dueHeap : /\ ValidDueEntry(c, v)
                                                           /\ v.nextEpoch <= e.nextEpoch}
      /\ d.jobIndex = c.jobIndex /\ d.freeSlots = c.freeSlots
      /\ d.allocated = c.allocated /\ d.nextId = c.nextId
  BY <1>1 DEF PruneInvalidDueEntries, CoreState
<1> HIDE DEF d
<1>3. Consistent(d) /\ VacantIsBlank(d)
  BY <1>1, <1>2, SameTables DEF SameJob
<1>4. ASSUME NEW s \in Slots PROVE PrimedSlot(d, s)
  <2> SUFFICES ASSUME c.jobs[s].hasNext
               PROVE  Runnable(c.jobs[s]) /\ DueEntry(s, c.jobs[s]) \in d.dueHeap
    BY <1>2 DEF PrimedSlot
  <2> DEFINE e == DueEntry(s, c.jobs[s])
  <2>1. Runnable(c.jobs[s]) /\ e \in c.dueHeap
    BY <1>1 DEF Primed, PrimedSlot
  <2>2. ValidDueEntry(c, e)
    BY <2>1 DEF ValidDueEntry, DueEntry, Runnable
  <2>3. e.nextEpoch <= e.nextEpoch
    BY <1>1 DEF DueEntry, CoreState, JobRecord, Time
  <2> HIDE DEF e
  <2> QED
    BY <1>2, <2>1, <2>2, <2>3 DEF e
<1> QED
  BY <1>2, <1>3, <1>4 DEF CoreInv, Primed, d

(* What dispatchDue pops belongs to a job that lives; only its own slot is  *)
(* left without an entry.                                                   *)
LEMMA PopInv ==
  ASSUME NEW c, CoreInv(c), NEW e \in TopEntries(c)
  PROVE  LET s == e.slotIndex
             p == PopDue(c, e)
         IN /\ s \in Slots /\ CoreInvBut(p, s) /\ p.jobs = c.jobs
            /\ p.jobs[s] \in JobRecord /\ Live(p.jobs[s])
<1> DEFINE s == e.slotIndex
           p == PopDue(c, e)
<1>1. c \in CoreState /\ Primed(c) /\ Consistent(c) /\ VacantIsBlank(c)
  BY DEF CoreInv
<1>2. e \in c.dueHeap /\ s \in Slots /\ Live(c.jobs[s])
  BY <1>1 DEF TopEntries, ValidDueEntry, CoreState, DueHeapEntry
<1>3. /\ p \in CoreState /\ p.jobs = c.jobs /\ p.dueHeap = c.dueHeap \ {e}
      /\ p.jobIndex = c.jobIndex /\ p.freeSlots = c.freeSlots
      /\ p.allocated = c.allocated /\ p.nextId = c.nextId
  BY <1>1 DEF PopDue, CoreState
<1> HIDE DEF p
<1>4. Consistent(p) /\ VacantIsBlank(p)
  BY <1>1, <1>3, SameTables DEF SameJob
<1>5. ASSUME NEW t \in Slots \ {s} PROVE PrimedSlot(p, t)
  <2>1. PrimedSlot(c, t)
    BY <1>1 DEF Primed
  <2>2. DueEntry(t, c.jobs[t]).slotIndex = t
    BY DEF DueEntry
  <2>3. DueEntry(t, c.jobs[t]) # e
    BY <2>2
  <2> QED
    BY <1>3, <2>1, <2>3 DEF PrimedSlot
<1>6. p.jobs[s] \in JobRecord
  BY <1>2, <1>3 DEF CoreState
<1> QED
  BY <1>2, <1>3, <1>4, <1>5, <1>6 DEF CoreInvBut, p

(* A due entry that is skipped leaves its job unprimed. *)
LEMMA SkipDueInv ==
  ASSUME NEW c, NEW s \in Slots, CoreInvBut(c, s)
  PROVE  CoreInv(SkipDue(c, s))
<1> DEFINE flag == \/ c.jobs[s].queuedWhileRunning
                   \/ ~c.jobs[s].paused /\ c.jobs[s].overlap = "QueueOne"
           r == [c.jobs[s] EXCEPT !.hasNext = FALSE, !.queuedWhileRunning = flag]
<1>1. c \in CoreState /\ c.jobs[s] \in JobRecord
  BY DEF CoreInvBut, CoreState
<1>2. flag \in BOOLEAN
  BY <1>1 DEF JobRecord
<1>3. SkipDue(c, s) = [c EXCEPT !.jobs[s] = r]
  BY <1>1 DEF SkipDue, CoreState, JobRecord
<1> HIDE DEF flag
<1>4. r \in JobRecord /\ SameJob(r, c.jobs[s]) /\ ~r.hasNext
  BY <1>1, <1>2 DEF JobRecord, SameJob
<1> HIDE DEF r
<1> QED
  BY <1>3, <1>4, UnprimeInv

(* Both outcomes of dispatchOne rewrite and push the record again. *)
LEMMA StartInv ==
  ASSUME NEW c, NEW s \in Slots, CoreInvBut(c, s), Runnable(c.jobs[s]),
         NEW deferred, NEW g
  PROVE  CoreInv(StartInvocation(c, s, deferred, g))
<1> DEFINE k == c.jobs[s].runningCount + 1
           r == [c.jobs[s] EXCEPT !.runningCount = k]
           last == IsOneShot(r) \/ (deferred /\ r.dispatch = "Async")
           found == ComputeNextForJob(r, r.nextRunUtc + MinuteLen)
           next == IF last THEN [r EXCEPT !.hasNext = FALSE] ELSE found
<1>1. c \in CoreState /\ c.jobs[s] \in JobRecord
  BY DEF CoreInvBut, CoreState
<1>2. StartInvocation(c, s, deferred, g) = PushDue(c, [x \in {s} |-> next], g)
  BY DEF StartInvocation
<1>3. r \in JobRecord /\ SameJob(r, c.jobs[s]) /\ Runnable(r)
  <2>1. k \in Nat
    BY <1>1 DEF JobRecord
  <2> HIDE DEF k
  <2> QED
    BY <1>1, <2>1 DEF JobRecord, SameJob, Runnable, Live
<1> HIDE DEF r
<1>4. /\ found \in JobRecord /\ SameJob(found, r)
      /\ found.paused = r.paused /\ found.canceled = r.canceled
  BY <1>3, ComputeNextResult
<1> HIDE DEF found, last
<1>5. next \in JobRecord /\ SameJob(next, c.jobs[s]) /\ (next.hasNext => Runnable(next))
  <2>1. CASE last
    BY <1>3, <2>1 DEF JobRecord, SameJob
  <2>2. CASE ~last
    BY <1>3, <1>4, <2>2 DEF SameJob, Runnable, Live
  <2> QED
    BY <2>1, <2>2
<1> HIDE DEF next
<1>6. CoreInv(PushDue(c, [x \in {s} |-> next], g))
  BY <1>5, PushOneInv
<1> QED
  BY <1>2, <1>6

(* An invocation that no executor takes is primed for a retry. *)
LEMMA RetryInv ==
  ASSUME NEW c, NEW s \in Slots, CoreInvBut(c, s), Runnable(c.jobs[s]),
         NEW now \in Time, NEW g
  PROVE  CoreInv(RetryLater(c, s, now, g))
<1> DEFINE r == [c.jobs[s] EXCEPT !.hasNext = TRUE, !.nextRunUtc = now + RetryDelay]
<1>1. c \in CoreState /\ c.jobs[s] \in JobRecord /\ now + RetryDelay \in Time
  BY DEF CoreInvBut, CoreState, RetryDelay, Time
<1>2. r \in JobRecord /\ SameJob(r, c.jobs[s]) /\ Runnable(r)
  BY <1>1 DEF JobRecord, SameJob, Runnable, Live
<1>3. RetryLater(c, s, now, g) = PushDue(c, [x \in {s} |-> r], g)
  BY DEF RetryLater
<1> HIDE DEF r
<1>4. CoreInv(PushDue(c, [x \in {s} |-> r], g))
  BY <1>2, PushOneInv
<1> QED
  BY <1>3, <1>4

(* The parts of handleCompletion. *)
LEMMA FinishedInv ==
  ASSUME NEW c, CoreInv(c), NEW s \in Slots
  PROVE  CoreInv(Finished(c, s))
<1> DEFINE k == IF c.jobs[s].runningCount > 0 THEN c.jobs[s].runningCount - 1
                                              ELSE c.jobs[s].runningCount
           r == [c.jobs[s] EXCEPT !.runningCount = k]
<1>1. c \in CoreState /\ c.jobs[s] \in JobRecord /\ PrimedSlot(c, s)
  BY DEF CoreInv, CoreState, Primed
<1>2. k \in Nat
  BY <1>1 DEF JobRecord
<1>3. Finished(c, s) = [c EXCEPT !.jobs[s] = r]
  BY <1>1 DEF Finished, CoreState, JobRecord
<1> HIDE DEF k
<1>4. /\ r \in JobRecord /\ SameJob(r, c.jobs[s])
      /\ r.hasNext = c.jobs[s].hasNext /\ r.nextRunUtc = c.jobs[s].nextRunUtc
      /\ Runnable(r) = Runnable(c.jobs[s])
  BY <1>1, <1>2 DEF JobRecord, SameJob, Runnable, Live
<1> HIDE DEF r
<1>5. r.hasNext => c.jobs[s].hasNext /\ Runnable(r) /\ r.nextRunUtc = c.jobs[s].nextRunUtc
  BY <1>1, <1>4 DEF PrimedSlot
<1> QED
  BY <1>3, <1>4, <1>5, RewriteOnlyInv

(* The job whose kept-back run is dispatched may run. *)
LEMMA TakeDeferredInv ==
  ASSUME NEW c, CoreInv(c), NEW s \in Slots
  PROVE  CoreInv(TakeDeferred(c, s)) /\ Runnable(TakeDeferred(c, s).jobs[s]) = Runnable(c.jobs[s])
<1> DEFINE r == [c.jobs[s] EXCEPT !.queuedWhileRunning = FALSE]
<1>1. c \in CoreState /\ c.jobs[s] \in JobRecord /\ PrimedSlot(c, s)
  BY DEF CoreInv, CoreState, Primed
<1>2. TakeDeferred(c, s) = [c EXCEPT !.jobs[s] = r] /\ TakeDeferred(c, s).jobs[s] = r
  BY <1>1 DEF TakeDeferred, CoreState, JobRecord
<1>3. /\ r \in JobRecord /\ SameJob(r, c.jobs[s])
      /\ r.hasNext = c.jobs[s].hasNext /\ r.nextRunUtc = c.jobs[s].nextRunUtc
      /\ Runnable(r) = Runnable(c.jobs[s])
  BY <1>1 DEF JobRecord, SameJob, Runnable, Live
<1> HIDE DEF r
<1>4. r.hasNext => c.jobs[s].hasNext /\ Runnable(r) /\ r.nextRunUtc = c.jobs[s].nextRunUtc
  BY <1>1, <1>3 DEF PrimedSlot
<1>5. CoreInv([c EXCEPT !.jobs[s] = r])
  BY <1>3, <1>4, RewriteOnlyInv
<1> QED
  BY <1>2, <1>3, <1>5

(* The end of handleCompletion: retire, queue or leave the job. *)
LEMMA SettleInv ==
  ASSUME NEW c, CoreInv(c), NEW s \in Slots, NEW now \in Time, NEW g
  PROVE  CoreInv(SettleCompletion(c, s, now, g))
<1> DEFINE r == [c.jobs[s] EXCEPT !.refreshPending = FALSE, !.hasNext = FALSE,
                                  !.queuedWhileRunning = FALSE]
           d == [c EXCEPT !.jobs[s] = r]
<1>1. c \in CoreState /\ c.jobs[s] \in JobRecord
  BY DEF CoreInv, CoreState
<1>2. r \in JobRecord /\ SameJob(r, c.jobs[s]) /\ ~r.hasNext
  BY <1>1 DEF JobRecord, SameJob
<1>3. d = [c EXCEPT !.jobs[s] = [@ EXCEPT !.refreshPending = FALSE, !.hasNext = FALSE,
                                          !.queuedWhileRunning = FALSE]]
  BY <1>1 DEF CoreState
<1>4. \/ SettleCompletion(c, s, now, g) = c
      \/ c.jobs[s].occupied /\ SettleCompletion(c, s, now, g) = RetireJobs(c, {s}, g)
      \/ SettleCompletion(c, s, now, g) = QueueScheduling(d, s, now, g)
      \/ SettleCompletion(c, s, now, g) = QueueScheduling(c, s, now, g)
  <2> HIDE DEF d
  <2> QED
    BY <1>3 DEF SettleCompletion, Live
<1> HIDE DEF r
<1>5. CoreInv(d)
  BY <1>2, RewriteOnlyInv
<1> HIDE DEF d
<1>6. CoreInv(QueueScheduling(d, s, now, g)) /\ CoreInv(QueueScheduling(c, s, now, g))
  BY <1>5, QueueSchedulingInv
<1>7. c.jobs[s].occupied => CoreInv(RetireJobs(c, {s}, g))
  BY RetireInv DEF Occupied
<1> QED
  BY <1>4, <1>6, <1>7

(* A table without jobs, and a new minimum for the clock. *)
LEMMA EmptyCoreInv ==
  ASSUME NEW m \in Time
  PROVE  CoreInv(EmptyCore(m))
<1>1. EmptyRecord \in JobRecord /\ ~EmptyRecord.occupied /\ ~EmptyRecord.hasNext /\ EmptyRecord.id = 0
  BY ScheduleAssumption
     DEF EmptyRecord, JobRecord, Schedules, Dispatches, Overlaps, Time, NullTime
<1>2. EmptyCore(m) \in CoreState
  BY <1>1 DEF EmptyCore, CoreState
<1>3. Occupied(EmptyCore(m)) = {} /\ \A s \in Slots : EmptyCore(m).jobs[s] = EmptyRecord
  BY <1>1 DEF EmptyCore, Occupied
<1>4. Consistent(EmptyCore(m))
  BY <1>3 DEF EmptyCore, Consistent
<1>5. VacantIsBlank(EmptyCore(m)) /\ Primed(EmptyCore(m))
  BY <1>1, <1>3 DEF VacantIsBlank, Primed, PrimedSlot
<1> QED
  BY <1>2, <1>4, <1>5 DEF CoreInv

(* setMinValidUnixSeconds changes no job. *)
LEMMA MinValidInv ==
  ASSUME NEW c, CoreInv(c), NEW m \in Time
  PROVE  CoreInv([c EXCEPT !.minValid = m])
<1> DEFINE d == [c EXCEPT !.minValid = m]
<1>1. c \in CoreState /\ Primed(c) /\ Consistent(c) /\ VacantIsBlank(c)
  BY DEF CoreInv
<1>2. /\ d \in CoreState /\ d.jobs = c.jobs /\ d.dueHeap = c.dueHeap
      /\ d.jobIndex = c.jobIndex /\ d.freeSlots = c.freeSlots
      /\ d.allocated = c.allocated /\ d.nextId = c.nextId
  BY <1>1 DEF CoreState
<1> HIDE DEF d
<1>3. Consistent(d) /\ VacantIsBlank(d)
  BY <1>1, <1>2, SameTables DEF SameJob
<1>4. Primed(d)
  BY <1>1, <1>2 DEF Primed, PrimedSlot
<1> QED
  BY <1>2, <1>3, <1>4 DEF CoreInv, d

--------------------------------------------------------------------------------
(* The runs of the jobs *)

(* A record that is sound as to its runs; listed: its slot is in            *)
(* pendingSchedules_.  The run that QueueOne keeps back waits for one that  *)
(* is out; a one-shot runs once; only AllowParallel runs twice at a time.   *)
RecordOK(r, listed) ==
  /\ r.pendingSchedule => listed
  /\ r.queuedWhileRunning => Runnable(r) /\ r.overlap = "QueueOne" /\ r.runningCount > 0
  /\ IsOneShot(r) => /\ ~r.refreshPending /\ ~r.queuedWhileRunning
                     /\ r.runningCount > 0 => r.runningCount = 1 /\ ~r.hasNext
  /\ r.overlap # "AllowParallel" => r.runningCount <= 1
  /\ ~r.occupied => r.runningCount = 0

RunsInv(c) == \A s \in Slots : RecordOK(c.jobs[s], s \in c.pendingSchedules)

RunsInvBut(c, s) == \A t \in Slots \ {s} : RecordOK(c.jobs[t], t \in c.pendingSchedules)

(* An idle job that may run is primed or listed. *)
RecordAttended(r, listed) ==
  Runnable(r) /\ r.runningCount = 0 => r.hasNext \/ (r.pendingSchedule /\ listed)

AllAttended(c) == \A s \in Slots : RecordAttended(c.jobs[s], s \in c.pendingSchedules)

AttendedBut(c, s) ==
  \A t \in Slots \ {s} : RecordAttended(c.jobs[t], t \in c.pendingSchedules)

(* Every vacant slot of jobs_ is in the free list. *)
NoLeak(c) == \A s \in c.allocated : c.jobs[s].occupied <=> s \notin c.freeSlots

(* Every recurring schedule has an occurrence within the search limit. *)
EverOccurring == \A spec \in Recurring, t \in Time : FirstOccurrence(spec, t) # {}

(* q is what is left of r when its job neither starts, completes, enters    *)
(* nor leaves; what is canceled stays canceled.                             *)
Kept(q, r) ==
  /\ SameJob(q, r) /\ q.schedule = r.schedule /\ q.overlap = r.overlap
  /\ q.runningCount = r.runningCount
  /\ r.canceled => q.canceled

Quiet(c, d) ==
  /\ \A s \in Slots : Kept(d.jobs[s], c.jobs[s])
  /\ d.allocated = c.allocated /\ d.freeSlots = c.freeSlots
  /\ d.jobIndex = c.jobIndex /\ d.nextId = c.nextId

(* A method that keeps the runs as they are, and forgets no job when its    *)
(* allocations succeed.                                                     *)
QuietStep(c, d, g) ==
  /\ Quiet(c, d) /\ RunsInv(d)
  /\ g = Slots /\ EverOccurring /\ AllAttended(c) => AllAttended(d)

--------------------------------------------------------------------------------
(* Records and pushes *)

(* What a computation of the next run leaves of the other flags. *)
LEMMA ComputeNextRuns ==
  ASSUME NEW r \in JobRecord, NEW from
  PROVE  LET n == ComputeNextForJob(r, from) IN
         /\ n \in JobRecord /\ Kept(n, r) /\ n.paused = r.paused /\ n.canceled = r.canceled
         /\ n.queuedWhileRunning = r.queuedWhileRunning
         /\ n.pendingSchedule = r.pendingSchedule
         /\ r.refreshPending = FALSE => n.refreshPending = FALSE
         /\ EverOccurring /\ from \in Time /\ ~r.paused /\ ~r.canceled => n.hasNext
<1> DEFINE n == ComputeNextForJob(r, from)
<1>1. n \in JobRecord
  BY ComputeNextResult
<1>2. CASE r.canceled \/ r.paused
  BY <1>1, <1>2 DEF ComputeNextForJob, JobRecord, SameJob, Kept
<1>3. CASE ~(r.canceled \/ r.paused)
  <2> DEFINE next == ComputeNext(r.schedule, from)
             time == IF next # {} THEN CHOOSE t \in next : TRUE ELSE r.nextRunUtc
  <2>1. n = [r EXCEPT !.refreshPending = FALSE, !.hasNext = (next # {}), !.nextRunUtc = time]
    BY <1>3 DEF ComputeNextForJob
  <2>2. EverOccurring /\ from \in Time => next # {}
    <3>1. r.schedule \in OneShots \/ r.schedule \in Recurring
      BY DEF JobRecord, Schedules
    <3> QED
      BY <3>1, ScheduleAssumption DEF EverOccurring, ComputeNext
  <2> HIDE DEF next, time
  <2> QED
    BY <1>1, <1>3, <2>1, <2>2 DEF JobRecord, SameJob, Kept
<1> QED
  BY <1>2, <1>3

Unprimed(r) == [r EXCEPT !.hasNext = FALSE]

(* Of a record that could not be pushed only hasNext is cleared. *)
LEMMA PushDueJobs ==
  ASSUME NEW c \in CoreState, NEW D \in SUBSET Slots, NEW recs \in [D -> JobRecord], NEW g
  PROVE  LET d == PushDue(c, recs, g) IN
         /\ d.allocated = c.allocated /\ d.freeSlots = c.freeSlots
         /\ d.jobIndex = c.jobIndex /\ d.nextId = c.nextId
         /\ d.pendingSchedules = c.pendingSchedules
         /\ \A s \in Slots \ D : d.jobs[s] = c.jobs[s]
         /\ \A s \in D : \/ d.jobs[s] = recs[s]
                         \/ s \notin g /\ d.jobs[s] = Unprimed(recs[s])
<1> DEFINE d == PushDue(c, recs, g)
<1>1. DOMAIN recs = D
  OBVIOUS
<1>2. d.jobs = [s \in Slots |->
                 IF s \notin D THEN c.jobs[s]
                 ELSE IF Pushable(recs[s]) /\ s \notin g THEN [recs[s] EXCEPT !.hasNext = FALSE]
                 ELSE recs[s]]
  BY <1>1 DEF PushDue, CoreState
<1>3. /\ d.allocated = c.allocated /\ d.freeSlots = c.freeSlots
      /\ d.jobIndex = c.jobIndex /\ d.nextId = c.nextId
      /\ d.pendingSchedules = c.pendingSchedules
  BY DEF PushDue, CoreState
<1> HIDE DEF d
<1> QED
  BY <1>2, <1>3 DEF d, Unprimed

(* Clearing hasNext leaves a record sound. *)
LEMMA UnprimedRecord ==
  ASSUME NEW r \in JobRecord, NEW listed
  PROVE  Kept(Unprimed(r), r) /\ (RecordOK(r, listed) => RecordOK(Unprimed(r), listed))
BY DEF Unprimed, JobRecord, Kept, SameJob, RecordOK, Runnable, Live, IsOneShot

(* A push of sound records leaves a table that is sound. *)
LEMMA PushDueRuns ==
  ASSUME NEW c \in CoreState, NEW D \in SUBSET Slots, NEW recs \in [D -> JobRecord], NEW g,
         \A s \in D : RecordOK(recs[s], s \in c.pendingSchedules),
         \A s \in Slots \ D : RecordOK(c.jobs[s], s \in c.pendingSchedules)
  PROVE  LET d == PushDue(c, recs, g) IN
         /\ RunsInv(d)
         /\ (\A s \in D : Kept(recs[s], c.jobs[s])) => Quiet(c, d)
         /\ (/\ g = Slots
             /\ \A s \in D : RecordAttended(recs[s], s \in c.pendingSchedules)
             /\ \A s \in Slots \ D : RecordAttended(c.jobs[s], s \in c.pendingSchedules))
            => AllAttended(d)
<1> DEFINE d == PushDue(c, recs, g)
<1>1. /\ d.allocated = c.allocated /\ d.freeSlots = c.freeSlots
      /\ d.jobIndex = c.jobIndex /\ d.nextId = c.nextId
      /\ d.pendingSchedules = c.pendingSchedules
      /\ \A s \in Slots \ D : d.jobs[s] = c.jobs[s]
      /\ \A s \in D : \/ d.jobs[s] = recs[s]
                      \/ s \notin g /\ d.jobs[s] = Unprimed(recs[s])
  BY ONLY PushDueJobs, c \in CoreState, D \in SUBSET Slots, recs \in [D -> JobRecord]
<1> HIDE DEF d
<1>2. RunsInv(d)
  <2> SUFFICES ASSUME NEW s \in Slots PROVE RecordOK(d.jobs[s], s \in c.pendingSchedules)
    BY <1>1 DEF RunsInv
  <2>1. CASE s \in D
    BY <2>1, <1>1, UnprimedRecord
  <2>2. CASE s \notin D
    BY <2>2, <1>1
  <2> QED
    BY <2>1, <2>2
<1>3. ASSUME \A s \in D : Kept(recs[s], c.jobs[s])
      PROVE  Quiet(c, d)
  <2> SUFFICES ASSUME NEW s \in Slots PROVE Kept(d.jobs[s], c.jobs[s])
    BY <1>1 DEF Quiet
  <2>1. CASE s \in D
    <3>1. Kept(recs[s], c.jobs[s]) /\ Kept(d.jobs[s], recs[s])
      BY <1>1, <1>3, <2>1, UnprimedRecord DEF Kept, SameJob
    <3> QED
      BY <3>1 DEF Kept, SameJob
  <2>2. CASE s \notin D
    BY <2>2, <1>1 DEF Kept, SameJob
  <2> QED
    BY <2>1, <2>2
<1>4. ASSUME g = Slots,
             \A s \in D : RecordAttended(recs[s], s \in c.pendingSchedules),
             \A s \in Slots \ D : RecordAttended(c.jobs[s], s \in c.pendingSchedules)
      PROVE  AllAttended(d)
  BY <1>1, <1>4 DEF AllAttended
<1> QED
  BY <1>2, <1>3, <1>4 DEF d

(* A method that rewrites one record and perhaps lists its slot. *)
LEMMA RewriteRuns ==
  ASSUME NEW c \in CoreState, NEW s \in Slots, NEW r, NEW P,
         RunsInvBut(c, s), RecordOK(r, s \in P),
         \A t \in Slots \ {s} : t \in P <=> t \in c.pendingSchedules
  PROVE  LET d == [c EXCEPT !.jobs[s] = r, !.pendingSchedules = P] IN
         /\ RunsInv(d)
         /\ Kept(r, c.jobs[s]) => Quiet(c, d)
         /\ AttendedBut(c, s) /\ RecordAttended(r, s \in P) => AllAttended(d)
<1> DEFINE d == [c EXCEPT !.jobs[s] = r, !.pendingSchedules = P]
<1>1. /\ d.allocated = c.allocated /\ d.freeSlots = c.freeSlots
      /\ d.jobIndex = c.jobIndex /\ d.nextId = c.nextId
      /\ d.pendingSchedules = P
      /\ d.jobs[s] = r /\ \A t \in Slots \ {s} : d.jobs[t] = c.jobs[t]
  BY DEF CoreState
<1> HIDE DEF d
<1>2. ASSUME NEW t \in Slots
      PROVE  RecordOK(d.jobs[t], t \in P)
  <2>1. CASE t # s
    BY <2>1, <1>1 DEF RunsInvBut, RecordOK
  <2> QED
    BY <2>1, <1>1
<1>3. ASSUME Kept(r, c.jobs[s])
      PROVE  Quiet(c, d)
  BY <1>1, <1>3 DEF Quiet, Kept, SameJob
<1>4. ASSUME AttendedBut(c, s), RecordAttended(r, s \in P)
      PROVE  AllAttended(d)
  <2> SUFFICES ASSUME NEW t \in Slots PROVE RecordAttended(d.jobs[t], t \in P)
    BY <1>1 DEF AllAttended
  <2>1. CASE t # s
    BY <2>1, <1>1, <1>4 DEF AttendedBut, RecordAttended
  <2> QED
    BY <2>1, <1>1, <1>4
<1> QED
  BY <1>1, <1>2, <1>3, <1>4 DEF d, RunsInv

(* The same without the list. *)
LEMMA RewriteOnlyRuns ==
  ASSUME NEW c \in CoreState, NEW s \in Slots, NEW r,
         RunsInvBut(c, s), RecordOK(r, s \in c.pendingSchedules)
  PROVE  LET d == [c EXCEPT !.jobs[s] = r] IN
         /\ RunsInv(d)
         /\ Kept(r, c.jobs[s]) => Quiet(c, d)
         /\ AttendedBut(c, s) /\ RecordAttended(r, s \in c.pendingSchedules) => AllAttended(d)
<1>1. [c EXCEPT !.jobs[s] = r, !.pendingSchedules = c.pendingSchedules] = [c EXCEPT !.jobs[s] = r]
  BY DEF CoreState
<1> QED
  BY <1>1, RewriteRuns, ZenonT(40)

(* What holds of every slot holds of every slot but one. *)
LEMMA RunsBut ==
  ASSUME NEW c, NEW s \in Slots
  PROVE  /\ RunsInv(c) => RunsInvBut(c, s) /\ RecordOK(c.jobs[s], s \in c.pendingSchedules)
         /\ AllAttended(c) => /\ AttendedBut(c, s)
                              /\ RecordAttended(c.jobs[s], s \in c.pendingSchedules)
BY DEF RunsInv, RunsInvBut, AllAttended, AttendedBut

--------------------------------------------------------------------------------
(* Scheduling *)

(* queueScheduling lists the job or leaves it unprimed. *)
LEMMA QueueSchedulingRuns ==
  ASSUME NEW c \in CoreState, NEW s \in Slots, RunsInv(c), NEW from, NEW g
  PROVE  LET d == QueueScheduling(c, s, from, g) IN
         Quiet(c, d) /\ RunsInv(d) /\ (s \in g /\ AttendedBut(c, s) => AllAttended(d))
<1>1. /\ c.jobs[s] \in JobRecord /\ RunsInvBut(c, s)
      /\ RecordOK(c.jobs[s], s \in c.pendingSchedules)
  BY RunsBut DEF CoreState
<1>2. CASE ~Runnable(c.jobs[s])
  <2> DEFINE r == Unscheduled(c.jobs[s])
  <2>1. QueueScheduling(c, s, from, g) = [c EXCEPT !.jobs[s] = r]
    BY <1>2 DEF QueueScheduling
  <2>2. Kept(r, c.jobs[s]) /\ ~Runnable(r)
    BY <1>1, <1>2 DEF Unscheduled, JobRecord, Kept, SameJob, Runnable, Live
  <2>3. RecordOK(r, s \in c.pendingSchedules)
    BY <1>1, <1>2 DEF Unscheduled, JobRecord, RecordOK, Runnable, Live, IsOneShot
  <2>4. RecordAttended(r, s \in c.pendingSchedules)
    BY <2>2 DEF RecordAttended
  <2> HIDE DEF r
  <2> QED
    BY <1>1, <2>1, <2>2, <2>3, <2>4, RewriteOnlyRuns
<1>3. CASE Runnable(c.jobs[s])
  <2> DEFINE flag == c.jobs[s].pendingSchedule \/ s \in g
             r == [c.jobs[s] EXCEPT !.scheduleFromUtc = from, !.hasNext = FALSE,
                                    !.pendingSchedule = flag]
             P == IF c.jobs[s].pendingSchedule \/ s \notin g
                  THEN c.pendingSchedules ELSE c.pendingSchedules \cup {s}
  <2>1. flag \in BOOLEAN
    BY <1>1 DEF JobRecord
  <2>2. QueueScheduling(c, s, from, g) = [c EXCEPT !.jobs[s] = r, !.pendingSchedules = P]
    BY <1>1, <1>3 DEF QueueScheduling, CoreState, JobRecord
  <2>3. \A t \in Slots \ {s} : t \in P <=> t \in c.pendingSchedules
    OBVIOUS
  <2>4. (flag => s \in P) /\ (s \in g => flag)
    BY <1>1 DEF RecordOK
  <2> HIDE DEF flag, P
  <2>5. Kept(r, c.jobs[s])
    BY <1>1, <2>1 DEF JobRecord, Kept, SameJob
  <2>6. RecordOK(r, s \in P) /\ (s \in g => RecordAttended(r, s \in P))
    BY <1>1, <2>1, <2>4 DEF JobRecord, RecordOK, RecordAttended, Runnable, Live, IsOneShot
  <2> HIDE DEF r
  <2> DEFINE d == [c EXCEPT !.jobs[s] = r, !.pendingSchedules = P]
  <2>7. /\ RunsInv(d) /\ (Kept(r, c.jobs[s]) => Quiet(c, d))
        /\ AttendedBut(c, s) /\ RecordAttended(r, s \in P) => AllAttended(d)
    BY <1>1, <2>3, <2>6, RewriteRuns
  <2> HIDE DEF d
  <2>8. QueueScheduling(c, s, from, g) = d
    BY <2>2 DEF d
  <2> QED
    BY <2>5, <2>6, <2>7, <2>8
<1> QED
  BY <1>2, <1>3

(* drainPendingSchedules primes every idle job that was listed. *)
LEMMA DrainRuns ==
  ASSUME NEW c \in CoreState, RunsInv(c), NEW now, NEW g
  PROVE  QuietStep(c, DrainPendingSchedules(c, now, g), g)
<1>1. CASE ~ClockValid(c, now)
  BY <1>1 DEF DrainPendingSchedules, QuietStep, Quiet, Kept, SameJob
<1>2. CASE ClockValid(c, now)
  <2> DEFINE base == [c EXCEPT !.pendingSchedules = {}]
             start(s) == [c.jobs[s] EXCEPT !.pendingSchedule = FALSE]
             drained(s) == IF ~Runnable(start(s)) \/ start(s).runningCount > 0
                           THEN [start(s) EXCEPT !.hasNext = FALSE]
                           ELSE ComputeNextForJob(start(s), start(s).scheduleFromUtc)
             D == c.pendingSchedules
             recs == [s \in D |-> drained(s)]
             d == PushDue(base, recs, g)
  <2>1. DrainPendingSchedules(c, now, g) = d
    BY <1>2 DEF DrainPendingSchedules
  <2>2. /\ base \in CoreState /\ base.jobs = c.jobs /\ base.pendingSchedules = {}
        /\ base.jobIndex = c.jobIndex /\ base.freeSlots = c.freeSlots
        /\ base.allocated = c.allocated /\ base.nextId = c.nextId
    BY DEF CoreState
  <2>3. ASSUME NEW s \in Slots
        PROVE  /\ drained(s) \in JobRecord /\ Kept(drained(s), c.jobs[s])
               /\ RecordOK(drained(s), s \in {})
               /\ EverOccurring => RecordAttended(drained(s), s \in {})
    <3>0. c.jobs[s] \in JobRecord /\ RecordOK(c.jobs[s], s \in c.pendingSchedules)
      BY DEF CoreState, RunsInv
    <3>1. /\ start(s) \in JobRecord /\ Kept(start(s), c.jobs[s])
          /\ start(s).pendingSchedule = FALSE
      BY <3>0 DEF JobRecord, Kept, SameJob
    <3>2. RecordOK(start(s), s \in {})
      BY <3>0 DEF JobRecord, RecordOK, Runnable, Live, IsOneShot
    <3> HIDE DEF start
    <3>3. CASE ~Runnable(start(s)) \/ start(s).runningCount > 0
      <4>1. drained(s) = Unprimed(start(s))
        BY <3>3 DEF Unprimed
      <4>2. drained(s) \in JobRecord
        BY <3>1, <4>1 DEF Unprimed, JobRecord
      <4>3. ~(Runnable(drained(s)) /\ drained(s).runningCount = 0)
        BY <3>1, <3>3, <4>1 DEF Unprimed, JobRecord, Runnable, Live
      <4> HIDE DEF drained
      <4> QED
        BY <3>1, <3>2, <4>1, <4>2, <4>3, UnprimedRecord DEF Kept, SameJob, RecordAttended
    <3>4. CASE ~(~Runnable(start(s)) \/ start(s).runningCount > 0)
      <4> DEFINE n == ComputeNextForJob(start(s), start(s).scheduleFromUtc)
      <4>1. /\ n \in JobRecord /\ Kept(n, start(s))
            /\ n.paused = start(s).paused /\ n.canceled = start(s).canceled
            /\ n.queuedWhileRunning = start(s).queuedWhileRunning
            /\ n.pendingSchedule = start(s).pendingSchedule
            /\ start(s).refreshPending = FALSE => n.refreshPending = FALSE
            /\ (/\ EverOccurring /\ start(s).scheduleFromUtc \in Time
                /\ ~start(s).paused /\ ~start(s).canceled) => n.hasNext
        BY <3>1, ComputeNextRuns
      <4>2. drained(s) = n
        BY <3>4
      <4>3. start(s).scheduleFromUtc \in Time /\ start(s).runningCount = 0
        BY <3>1, <3>4 DEF JobRecord
      <4> HIDE DEF n, drained
      <4>4. Kept(n, c.jobs[s])
        BY <3>1, <4>1 DEF Kept, SameJob
      <4>5. RecordOK(n, s \in {})
        BY <3>1, <3>2, <4>1, <4>3
           DEF RecordOK, Kept, SameJob, Runnable, Live, IsOneShot, JobRecord
      <4>6. EverOccurring => RecordAttended(n, s \in {})
        BY <4>1, <4>3, <3>4 DEF RecordAttended, Runnable, Live
      <4> QED
        BY <4>1, <4>2, <4>4, <4>5, <4>6
    <3> QED
      BY <3>3, <3>4
  <2>4. D \in SUBSET Slots
    BY DEF CoreState
  <2> HIDE DEF drained, base, D
  <2>5. recs \in [D -> JobRecord] /\ \A s \in D : recs[s] = drained(s)
    BY <2>3, <2>4
  <2> HIDE DEF recs
  <2>6. \A s \in D : RecordOK(recs[s], s \in base.pendingSchedules)
    BY <2>2, <2>3, <2>4, <2>5
  <2>7. ASSUME NEW s \in Slots \ D
        PROVE  RecordOK(base.jobs[s], s \in base.pendingSchedules)
    BY <2>2 DEF RunsInv, RecordOK, D
  <2>8. \A s \in D : Kept(recs[s], base.jobs[s])
    BY <2>2, <2>3, <2>4, <2>5
  <2>9. RunsInv(d) /\ Quiet(base, d)
    BY <2>2, <2>4, <2>5, <2>6, <2>7, <2>8, PushDueRuns
  <2>10. Quiet(c, d)
    BY <2>2, <2>9 DEF Quiet
  <2>11. ASSUME g = Slots, EverOccurring, AllAttended(c)
         PROVE  AllAttended(d)
    <3>1. \A s \in D : RecordAttended(recs[s], s \in base.pendingSchedules)
      BY <2>2, <2>3, <2>4, <2>5, <2>11
    <3>2. ASSUME NEW s \in Slots \ D
          PROVE  RecordAttended(base.jobs[s], s \in base.pendingSchedules)
      BY <2>2, <2>11 DEF AllAttended, RecordAttended, D
    <3> QED
      BY <2>2, <2>4, <2>5, <2>6, <2>7, <2>11, <3>1, <3>2, PushDueRuns
  <2> QED
    BY <2>1, <2>9, <2>10, <2>11 DEF QuietStep
<1> QED
  BY <1>1, <1>2

(* refreshAllSchedules recomputes what may run, or leaves it to its         *)
(* completion.                                                              *)
LEMMA RefreshRuns ==
  ASSUME NEW c \in CoreState, RunsInv(c), NEW now \in Time, NEW g
  PROVE  QuietStep(c, RefreshAllSchedules(c, now, g), g)
<1> DEFINE D == {s \in Slots : Runnable(c.jobs[s]) /\ ~IsOneShot(c.jobs[s])}
           cleared(s) == [Unscheduled(c.jobs[s]) EXCEPT !.nextRunUtc = NullTime]
           refreshed(s) ==
             IF Busy(c.jobs[s])
             THEN [cleared(s) EXCEPT !.refreshPending = TRUE, !.queuedWhileRunning = FALSE]
             ELSE ComputeNextForJob(cleared(s), now)
           recs == [s \in D |-> refreshed(s)]
           d == PushDue(c, recs, g)
<1>1. RefreshAllSchedules(c, now, g) = d
  BY DEF RefreshAllSchedules
<1>2. ASSUME NEW s \in D
      PROVE  /\ refreshed(s) \in JobRecord /\ Kept(refreshed(s), c.jobs[s])
             /\ RecordOK(refreshed(s), s \in c.pendingSchedules)
             /\ EverOccurring => RecordAttended(refreshed(s), s \in c.pendingSchedules)
  <2>0. /\ c.jobs[s] \in JobRecord /\ RecordOK(c.jobs[s], s \in c.pendingSchedules)
        /\ Runnable(c.jobs[s]) /\ ~IsOneShot(c.jobs[s])
    BY DEF CoreState, RunsInv
  <2>1. cleared(s) \in JobRecord /\ Kept(cleared(s), c.jobs[s]) /\ Runnable(cleared(s))
    BY <2>0 DEF Unscheduled, JobRecord, Kept, SameJob, NullTime, Time, Runnable, Live
  <2>2. /\ cleared(s).pendingSchedule = FALSE /\ cleared(s).refreshPending = FALSE
        /\ cleared(s).queuedWhileRunning = c.jobs[s].queuedWhileRunning
    BY <2>0 DEF Unscheduled, JobRecord
  <2> HIDE DEF cleared
  <2>3. CASE Busy(c.jobs[s])
    <3> DEFINE q == [cleared(s) EXCEPT !.refreshPending = TRUE, !.queuedWhileRunning = FALSE]
    <3>1. refreshed(s) = q
      BY <2>3
    <3>2. q \in JobRecord /\ Kept(q, cleared(s))
      BY <2>1 DEF JobRecord, Kept, SameJob
    <3>3. RecordOK(q, s \in c.pendingSchedules)
      BY <2>0, <2>1, <2>2 DEF JobRecord, RecordOK, Kept, SameJob, IsOneShot
    <3>4. RecordAttended(q, s \in c.pendingSchedules)
      BY <2>0, <2>1, <2>3 DEF Busy, Kept, RecordAttended, JobRecord
    <3> HIDE DEF q, refreshed
    <3> QED
      BY <2>1, <3>1, <3>2, <3>3, <3>4 DEF Kept, SameJob
  <2>4. CASE ~Busy(c.jobs[s])
    <3> DEFINE n == ComputeNextForJob(cleared(s), now)
    <3>1. refreshed(s) = n
      BY <2>4
    <3>2. /\ n \in JobRecord /\ Kept(n, cleared(s))
          /\ n.paused = cleared(s).paused /\ n.canceled = cleared(s).canceled
          /\ n.queuedWhileRunning = cleared(s).queuedWhileRunning
          /\ n.pendingSchedule = cleared(s).pendingSchedule
          /\ (EverOccurring /\ now \in Time /\ ~cleared(s).paused /\ ~cleared(s).canceled)
               => n.hasNext
      BY <2>1, ComputeNextRuns
    <3> HIDE DEF n, refreshed
    <3>3. Kept(n, c.jobs[s])
      BY <2>1, <3>2 DEF Kept, SameJob
    <3>4. RecordOK(n, s \in c.pendingSchedules)
      BY <2>0, <2>1, <2>2, <3>2, <3>3 DEF RecordOK, Kept, SameJob, Runnable, Live, IsOneShot
    <3>5. EverOccurring => RecordAttended(n, s \in c.pendingSchedules)
      BY <2>1, <3>2 DEF RecordAttended, Runnable, Live
    <3> QED
      BY <3>1, <3>2, <3>3, <3>4, <3>5
  <2> QED
    BY <2>3, <2>4
<1>3. D \in SUBSET Slots
  OBVIOUS
<1> HIDE DEF refreshed, D
<1>4. recs \in [D -> JobRecord] /\ \A s \in D : recs[s] = refreshed(s)
  BY <1>2, <1>3
<1> HIDE DEF recs
<1>5. \A s \in D : RecordOK(recs[s], s \in c.pendingSchedules) /\ Kept(recs[s], c.jobs[s])
  BY <1>2, <1>4
<1>6. \A s \in Slots \ D : RecordOK(c.jobs[s], s \in c.pendingSchedules)
  BY DEF RunsInv
<1>7. RunsInv(d) /\ Quiet(c, d)
  BY <1>3, <1>4, <1>5, <1>6, PushDueRuns
<1>8. ASSUME g = Slots, EverOccurring, AllAttended(c)
      PROVE  AllAttended(d)
  <2>1. \A s \in D : RecordAttended(recs[s], s \in c.pendingSchedules)
    BY <1>2, <1>4, <1>8
  <2>2. \A s \in Slots \ D : RecordAttended(c.jobs[s], s \in c.pendingSchedules)
    BY <1>8 DEF AllAttended
  <2> QED
    BY <1>3, <1>4, <1>5, <1>6, <1>8, <2>1, <2>2, PushDueRuns
<1> QED
  BY <1>1, <1>7, <1>8 DEF QuietStep

--------------------------------------------------------------------------------
(* Jobs that enter and leave *)

Vacant(q) == ~q.occupied /\ q.id = 0 /\ q.runningCount = 0

(* A job leaves only when no run of it is out, and enters under a new id. *)
Moves(c, d) ==
  /\ d.nextId >= c.nextId
  /\ \A s \in Slots :
       \/ Kept(d.jobs[s], c.jobs[s])
       \/ c.jobs[s].occupied /\ c.jobs[s].runningCount = 0 /\ Vacant(d.jobs[s])
       \/ /\ ~c.jobs[s].occupied /\ d.jobs[s].runningCount = 0
          /\ d.jobs[s].id >= c.nextId

(* What a method that starts and completes no run does to the table. *)
TableStep(c, d, g) ==
  /\ Moves(c, d) /\ RunsInv(d)
  /\ g = Slots /\ EverOccurring /\ AllAttended(c) => AllAttended(d)
  /\ g = Slots /\ NoLeak(c) => NoLeak(d)

(* The tables of the slots do not change when no job enters or leaves. *)
LEMMA QuietNoLeak ==
  ASSUME NEW c \in CoreState, NEW d, Quiet(c, d)
  PROVE  NoLeak(c) => NoLeak(d)
<1>1. c.allocated \in SUBSET Slots
  BY DEF CoreState
<1> QED
  BY <1>1 DEF Quiet, Kept, SameJob, NoLeak

(* A method that keeps the runs as they are is such a method. *)
LEMMA QuietIsTableStep ==
  ASSUME NEW c \in CoreState, NEW d, NEW g, QuietStep(c, d, g)
  PROVE  TableStep(c, d, g)
<1>1. Moves(c, d)
  BY DEF QuietStep, Quiet, Moves, CoreState
<1>2. NoLeak(c) => NoLeak(d)
  BY QuietNoLeak DEF QuietStep
<1> QED
  BY <1>1, <1>2 DEF QuietStep, TableStep

(* pauseJob *)
LEMMA PauseRuns ==
  ASSUME NEW c \in CoreState, RunsInv(c), NEW s \in Slots, NEW g
  PROVE  QuietStep(c, PauseJob(c, s), g)
<1> DEFINE r == [Unscheduled(c.jobs[s]) EXCEPT !.paused = TRUE, !.queuedWhileRunning = FALSE]
           d == [c EXCEPT !.jobs[s] = r]
<1>1. /\ c.jobs[s] \in JobRecord /\ RunsInvBut(c, s)
      /\ RecordOK(c.jobs[s], s \in c.pendingSchedules)
  BY RunsBut DEF CoreState
<1>2. PauseJob(c, s) = d
  BY <1>1 DEF PauseJob, CoreState
<1>3. Kept(r, c.jobs[s]) /\ ~Runnable(r)
  BY <1>1 DEF Unscheduled, JobRecord, Kept, SameJob, Runnable
<1>4. RecordOK(r, s \in c.pendingSchedules)
  BY <1>1 DEF Unscheduled, JobRecord, RecordOK, IsOneShot
<1>5. RecordAttended(r, s \in c.pendingSchedules)
  BY <1>3 DEF RecordAttended
<1> HIDE DEF r
<1>6. /\ RunsInv(d) /\ (Kept(r, c.jobs[s]) => Quiet(c, d))
      /\ AttendedBut(c, s) /\ RecordAttended(r, s \in c.pendingSchedules) => AllAttended(d)
  BY <1>1, <1>4, RewriteOnlyRuns
<1> HIDE DEF d
<1> QED
  BY <1>2, <1>3, <1>5, <1>6, RunsBut DEF QuietStep

(* resumeJob *)
LEMMA ResumeRuns ==
  ASSUME NEW c, CoreInv(c), RunsInv(c), NEW s \in Slots, Live(c.jobs[s]), NEW now \in Time, NEW g
  PROVE  QuietStep(c, ResumeJob(c, s, now, g), g)
<1> DEFINE r == [c.jobs[s] EXCEPT !.paused = FALSE, !.queuedWhileRunning = FALSE]
           d == [c EXCEPT !.jobs[s] = r]
<1>1. /\ c \in CoreState /\ c.jobs[s] \in JobRecord /\ RunsInvBut(c, s)
      /\ RecordOK(c.jobs[s], s \in c.pendingSchedules)
  BY RunsBut DEF CoreInv, CoreState
<1>2. ResumeJob(c, s, now, g) = IF r.runningCount = 0 THEN QueueScheduling(d, s, now, g) ELSE d
  BY DEF ResumeJob
<1>3. r \in JobRecord /\ Kept(r, c.jobs[s])
  BY <1>1 DEF JobRecord, Kept, SameJob
<1>4. RecordOK(r, s \in c.pendingSchedules)
  BY <1>1 DEF JobRecord, RecordOK, IsOneShot
<1>5. r.runningCount # 0 => RecordAttended(r, s \in c.pendingSchedules)
  BY DEF RecordAttended
<1> HIDE DEF r
<1>6. /\ RunsInv(d) /\ Quiet(c, d)
      /\ AttendedBut(c, s) /\ RecordAttended(r, s \in c.pendingSchedules) => AllAttended(d)
  BY <1>1, <1>3, <1>4, RewriteOnlyRuns
<1>7. /\ d \in CoreState /\ d.pendingSchedules = c.pendingSchedules
      /\ \A t \in Slots \ {s} : d.jobs[t] = c.jobs[t]
  BY <1>1, <1>3 DEF CoreState
<1>8. AttendedBut(c, s) => AttendedBut(d, s)
  BY <1>7 DEF AttendedBut
<1> HIDE DEF d
<1>9. CASE r.runningCount = 0
  <2> DEFINE e == QueueScheduling(d, s, now, g)
  <2>1. Quiet(d, e) /\ RunsInv(e) /\ (s \in g /\ AttendedBut(d, s) => AllAttended(e))
    BY <1>6, <1>7, QueueSchedulingRuns
  <2>2. ResumeJob(c, s, now, g) = e
    BY <1>2, <1>9
  <2> HIDE DEF e
  <2>3. Quiet(c, e)
    BY <1>6, <2>1 DEF Quiet, Kept, SameJob
  <2> QED
    BY <1>8, <2>1, <2>2, <2>3, RunsBut DEF QuietStep
<1>10. CASE r.runningCount # 0
  BY <1>2, <1>5, <1>6, <1>10, RunsBut DEF QuietStep
<1> QED
  BY <1>9, <1>10

Blank(n) == [EmptyRecord EXCEPT !.generation = n]

(* The record that retireJob leaves. *)
LEMMA BlankRecord ==
  ASSUME NEW n, NEW listed
  PROVE  /\ Vacant(Blank(n)) /\ RecordOK(Blank(n), listed)
         /\ RecordAttended(Blank(n), listed)
<1>1. EmptyRecord.schedule \notin OneShots
  BY ScheduleAssumption DEF EmptyRecord
<1> QED
  BY <1>1 DEF Blank, EmptyRecord, Vacant, RecordOK, RecordAttended, Runnable, Live, IsOneShot

(* retireJob, for a job of which no run is out. *)
LEMMA RetireRuns ==
  ASSUME NEW c, CoreInv(c), NEW s \in Occupied(c), c.jobs[s].runningCount = 0,
         RunsInvBut(c, s), NEW g
  PROVE  LET d == RetireJobs(c, {s}, g) IN
         /\ Vacant(d.jobs[s]) /\ \A t \in Slots \ {s} : d.jobs[t] = c.jobs[t]
         /\ Moves(c, d) /\ RunsInv(d) /\ d.nextId = c.nextId
         /\ AttendedBut(c, s) => AllAttended(d)
         /\ g = Slots /\ NoLeak(c) => NoLeak(d)
<1> DEFINE d == RetireJobs(c, {s}, g)
           q == Blank(c.jobs[s].generation + 1)
<1>1. c \in CoreState /\ s \in Slots /\ c.jobs[s].occupied /\ c.nextId \in Nat
  BY DEF CoreInv, CoreState, Occupied
<1>2. /\ d.jobs[s] = q /\ \A t \in Slots \ {s} : d.jobs[t] = c.jobs[t]
      /\ d.pendingSchedules = c.pendingSchedules /\ d.nextId = c.nextId
      /\ d.allocated = c.allocated /\ d.freeSlots = c.freeSlots \cup ({s} \cap g)
  BY <1>1 DEF RetireJobs, CoreState, Blank
<1>3. /\ Vacant(q) /\ RecordOK(q, s \in c.pendingSchedules)
      /\ RecordAttended(q, s \in c.pendingSchedules)
  BY BlankRecord
<1> HIDE DEF d, q
<1>4. RunsInv(d)
  BY <1>2, <1>3 DEF RunsInv, RunsInvBut
<1>5. AttendedBut(c, s) => AllAttended(d)
  BY <1>2, <1>3 DEF AllAttended, AttendedBut
<1>6. Moves(c, d)
  BY <1>1, <1>2, <1>3 DEF Moves, Kept, SameJob
<1>7. ASSUME g = Slots, NoLeak(c)
      PROVE  NoLeak(d)
  <2>1. c.allocated \in SUBSET Slots
    BY <1>1 DEF CoreState
  <2> QED
    BY <1>1, <1>2, <1>3, <1>7, <2>1 DEF NoLeak, Vacant
<1> QED
  BY <1>2, <1>3, <1>4, <1>5, <1>6, <1>7 DEF d

(* The tables after retireJob. *)
LEMMA RetireTables ==
  ASSUME NEW c \in CoreState, NEW R, NEW g
  PROVE  LET d == RetireJobs(c, R, g) IN
         /\ d.nextId = c.nextId /\ d.allocated = c.allocated
         /\ d.freeSlots = c.freeSlots \cup (R \cap g)
         /\ d.pendingSchedules = c.pendingSchedules
         /\ \A s \in Slots :
              d.jobs[s] = IF s \in R THEN Blank(c.jobs[s].generation + 1) ELSE c.jobs[s]
BY DEF RetireJobs, CoreState, Blank

(* cancelJob, cancelAll and end(): what is running is left to its           *)
(* completion.                                                              *)
LEMMA CancelRuns ==
  ASSUME NEW c, CoreInv(c), RunsInv(c), NEW S, S \subseteq Occupied(c), NEW g
  PROVE  TableStep(c, CancelSlots(c, S, g), g)
<1> DEFINE canceled(r) == [Unscheduled(r) EXCEPT !.canceled = TRUE, !.paused = FALSE,
                                                 !.queuedWhileRunning = FALSE]
           marked == [c EXCEPT !.jobs = [s \in Slots |-> IF s \in S THEN canceled(c.jobs[s])
                                                                    ELSE c.jobs[s]]]
           R == {s \in S : c.jobs[s].runningCount = 0}
           blank(s) == Blank(marked.jobs[s].generation + 1)
           d == CancelSlots(c, S, g)
<1>1. c \in CoreState /\ S \subseteq Slots /\ c.nextId \in Nat
  BY DEF CoreInv, CoreState, Occupied
<1>2. d = RetireJobs(marked, R, g)
  BY DEF CancelSlots
<1>3. /\ marked.nextId = c.nextId /\ marked.allocated = c.allocated
      /\ marked.freeSlots = c.freeSlots /\ marked.pendingSchedules = c.pendingSchedules
      /\ \A s \in Slots : marked.jobs[s] = IF s \in S THEN canceled(c.jobs[s]) ELSE c.jobs[s]
  BY <1>1 DEF CoreState
<1>4. /\ d.nextId = c.nextId /\ d.allocated = c.allocated
      /\ d.freeSlots = c.freeSlots \cup (R \cap g)
      /\ d.pendingSchedules = c.pendingSchedules
      /\ \A s \in Slots : d.jobs[s] = IF s \in R THEN blank(s) ELSE marked.jobs[s]
  <2>1. ASSUME NEW s \in Slots PROVE canceled(c.jobs[s]) \in JobRecord
    <3>1. c.jobs[s] \in JobRecord
      BY <1>1 DEF CoreState
    <3> QED
      BY <3>1 DEF Unscheduled, JobRecord
  <2> HIDE DEF canceled
  <2>2. marked \in CoreState
    BY <1>1, <2>1 DEF CoreState
  <2> HIDE DEF marked, R
  <2>3. /\ d.nextId = marked.nextId /\ d.allocated = marked.allocated
        /\ d.freeSlots = marked.freeSlots \cup (R \cap g)
        /\ d.pendingSchedules = marked.pendingSchedules
        /\ \A s \in Slots : d.jobs[s] = IF s \in R THEN blank(s) ELSE marked.jobs[s]
    BY <1>2, <2>2, RetireTables
  <2> HIDE DEF d
  <2> QED
    BY <1>3, <2>3
<1> HIDE DEF marked, d
<1>5. ASSUME NEW s \in Slots
      PROVE  /\ \/ Kept(d.jobs[s], c.jobs[s]) /\ s \notin R
                \/ /\ c.jobs[s].occupied /\ c.jobs[s].runningCount = 0 /\ Vacant(d.jobs[s])
                   /\ s \in R
             /\ RecordOK(d.jobs[s], s \in c.pendingSchedules)
             /\ \/ RecordAttended(d.jobs[s], s \in c.pendingSchedules)
                \/ d.jobs[s] = c.jobs[s]
  <2>1. c.jobs[s] \in JobRecord /\ RecordOK(c.jobs[s], s \in c.pendingSchedules)
    BY <1>1 DEF CoreState, RunsInv
  <2>2. CASE s \in R
    <3>1. c.jobs[s].occupied /\ c.jobs[s].runningCount = 0
      BY <2>2 DEF Occupied
    <3>2. d.jobs[s] = blank(s)
      BY <1>4, <2>2
    <3>3. /\ Vacant(blank(s)) /\ RecordOK(blank(s), s \in c.pendingSchedules)
          /\ RecordAttended(blank(s), s \in c.pendingSchedules)
      BY BlankRecord
    <3> HIDE DEF blank
    <3> QED
      BY <2>2, <3>1, <3>2, <3>3
  <2>3. CASE s \in S \ R
    <3> DEFINE q == canceled(c.jobs[s])
    <3>1. d.jobs[s] = q
      BY <1>3, <1>4, <2>3
    <3>2. Kept(q, c.jobs[s]) /\ ~Runnable(q)
      BY <2>1 DEF Unscheduled, JobRecord, Kept, SameJob, Runnable, Live
    <3>3. RecordOK(q, s \in c.pendingSchedules)
      BY <2>1 DEF Unscheduled, JobRecord, RecordOK, IsOneShot
    <3> HIDE DEF q
    <3> QED
      BY <2>3, <3>1, <3>2, <3>3 DEF RecordAttended
  <2>4. CASE s \notin S
    <3>1. d.jobs[s] = c.jobs[s]
      BY <1>3, <1>4, <2>4
    <3> QED
      BY <2>1, <2>4, <3>1 DEF Kept, SameJob
  <2> QED
    BY <2>2, <2>3, <2>4
<1> HIDE DEF R, canceled, blank
<1>6. Moves(c, d)
  BY <1>1, <1>4, <1>5 DEF Moves
<1>7. RunsInv(d)
  BY <1>4, <1>5 DEF RunsInv
<1>8. AllAttended(c) => AllAttended(d)
  BY <1>4, <1>5 DEF AllAttended
<1>9. ASSUME g = Slots, NoLeak(c)
      PROVE  NoLeak(d)
  <2>1. c.allocated \in SUBSET Slots
    BY <1>1 DEF CoreState
  <2> QED
    BY <1>4, <1>5, <1>9, <2>1 DEF NoLeak, Vacant, Kept, SameJob
<1> QED
  BY <1>6, <1>7, <1>8, <1>9 DEF TableStep, d

(* addJob that fails gives nothing but its id away. *)
LEMMA NoMemoryRuns ==
  ASSUME NEW c \in CoreState, RunsInv(c), NEW g
  PROVE  TableStep(c, AddJobNoMemory(c), g)
<1> DEFINE d == AddJobNoMemory(c)
<1>1. /\ d.jobs = c.jobs /\ d.pendingSchedules = c.pendingSchedules
      /\ d.allocated = c.allocated /\ d.freeSlots = c.freeSlots
      /\ d.nextId = c.nextId + 1 /\ c.nextId \in Nat
  BY DEF AddJobNoMemory, CoreState
<1> HIDE DEF d
<1>2. Moves(c, d)
  BY <1>1 DEF Moves, Kept, SameJob
<1> QED
  BY <1>1, <1>2 DEF TableStep, RunsInv, AllAttended, NoLeak, d

(* addJob puts the job into a vacant slot, and primes or lists it unless it *)
(* starts paused.                                                           *)
LEMMA AddJobRuns ==
  ASSUME NEW c, CoreInv(c), RunsInv(c), NEW s \in AddSlots(c), NEW spec \in Schedules,
         NEW options \in JobOptions, NEW now \in Time, NEW g
  PROVE  TableStep(c, AddJob(c, s, spec, options, now, g), g)
<1> DEFINE r == NewRecord(c, s, spec, options)
           d == EnterJob(c, s, r)
           n == ComputeNextForJob(r, now)
           recs == [x \in {s} |-> n]
           e == AddJob(c, s, spec, options, now, g)
<1>1. /\ s \in Slots /\ r \in JobRecord /\ ~r.hasNext /\ Live(r)
      /\ r.paused = options.startPaused
      /\ CoreInv(d) /\ d.jobs[s] = r
  BY EnterJobInv
<1>2. c \in CoreState /\ d \in CoreState /\ c.nextId \in Nat
  BY <1>1 DEF CoreInv, CoreState
<1>3. ~c.jobs[s].occupied
  BY <1>1, <1>2 DEF CoreInv, AddSlots, Consistent, Occupied
<1>4. e = CASE options.startPaused -> d
            [] ~options.startPaused /\ ClockValid(c, now) -> PushDue(d, recs, g)
            [] OTHER -> IF s \in g THEN QueueScheduling(d, s, now, g) ELSE AddJobNoMemory(c)
  BY DEF AddJob
<1>5. /\ r.id = c.nextId /\ r.runningCount = 0 /\ r.pendingSchedule = FALSE
      /\ r.queuedWhileRunning = FALSE /\ r.refreshPending = FALSE
  BY DEF NewRecord, EmptyRecord
<1>6. /\ \A t \in Slots \ {s} : d.jobs[t] = c.jobs[t]
      /\ d.pendingSchedules = c.pendingSchedules /\ d.nextId = c.nextId + 1
      /\ d.allocated = c.allocated \cup {s} /\ d.freeSlots = c.freeSlots \ {s}
  BY <1>2 DEF EnterJob, CoreState
<1> HIDE DEF r, d, e
<1>7. Moves(c, d)
  BY <1>1, <1>2, <1>3, <1>5, <1>6 DEF Moves, Kept, SameJob
<1>8. ASSUME NoLeak(c)
      PROVE  NoLeak(d)
  <2> SUFFICES ASSUME NEW t \in d.allocated
               PROVE  d.jobs[t].occupied <=> t \notin d.freeSlots
    BY DEF NoLeak
  <2>1. CASE t = s
    BY <1>1, <1>6, <2>1 DEF Live
  <2>2. CASE t # s
    <3>1. t \in c.allocated /\ c.allocated \in SUBSET Slots
      BY <1>2, <1>6, <2>2 DEF CoreState
    <3> QED
      BY <1>6, <1>8, <2>2, <3>1 DEF NoLeak
  <2> QED
    BY <2>1, <2>2
<1>9. RunsInv(d)
  <2>1. RecordOK(r, s \in c.pendingSchedules)
    BY <1>1, <1>5 DEF RecordOK, Live
  <2> QED
    BY <1>1, <1>6, <2>1 DEF RunsInv
<1>10. AllAttended(c) => AttendedBut(d, s)
  BY <1>6 DEF AllAttended, AttendedBut
<1>11. ASSUME NEW x, Quiet(d, x)
       PROVE  Moves(c, x) /\ (NoLeak(c) => NoLeak(x))
  <2>1. \A t \in Slots : Kept(x.jobs[t], d.jobs[t])
    BY <1>11 DEF Quiet
  <2>2. Moves(c, x)
    <3> SUFFICES ASSUME NEW t \in Slots
                 PROVE  \/ Kept(x.jobs[t], c.jobs[t])
                        \/ ~c.jobs[t].occupied /\ x.jobs[t].runningCount = 0
                           /\ x.jobs[t].id >= c.nextId
      BY <1>2, <1>6, <1>11 DEF Moves, Quiet
    <3>1. CASE t = s
      BY <3>1, <2>1, <1>1, <1>2, <1>3, <1>5 DEF Kept, SameJob
    <3>2. CASE t # s
      BY <3>2, <2>1, <1>6
    <3> QED
      BY <3>1, <3>2
  <2> QED
    BY <1>2, <1>8, <1>11, <2>2, QuietNoLeak
<1>12. CASE options.startPaused
  <2>1. e = d
    BY <1>4, <1>12
  <2>2. ~Runnable(r)
    BY <1>1, <1>12 DEF Runnable
  <2>3. AllAttended(c) => AllAttended(d)
    BY <1>1, <1>10, <2>2 DEF AllAttended, AttendedBut, RecordAttended
  <2> QED
    BY <1>7, <1>8, <1>9, <2>1, <2>3 DEF TableStep, e
<1>13. CASE ~options.startPaused /\ ClockValid(c, now)
  <2> DEFINE x == PushDue(d, recs, g)
  <2>1. e = x
    BY <1>4, <1>13
  <2>2. /\ n \in JobRecord /\ Kept(n, r) /\ n.paused = r.paused /\ n.canceled = r.canceled
        /\ n.queuedWhileRunning = r.queuedWhileRunning
        /\ n.pendingSchedule = r.pendingSchedule
        /\ r.refreshPending = FALSE => n.refreshPending = FALSE
        /\ EverOccurring /\ now \in Time /\ ~r.paused /\ ~r.canceled => n.hasNext
    BY <1>1, ComputeNextRuns
  <2> HIDE DEF n
  <2>3. {s} \in SUBSET Slots /\ recs \in [{s} -> JobRecord] /\ recs[s] = n
    BY <1>1, <2>2
  <2> HIDE DEF recs
  <2>4. RecordOK(n, s \in d.pendingSchedules)
    BY <1>1, <1>5, <2>2 DEF RecordOK, Kept, SameJob, Live
  <2>5. EverOccurring => RecordAttended(n, s \in d.pendingSchedules)
    BY <1>1, <1>13, <2>2 DEF RecordAttended, Live
  <2>6. \A t \in Slots \ {s} : RecordOK(d.jobs[t], t \in d.pendingSchedules)
    BY <1>9 DEF RunsInv
  <2>7. \A t \in {s} : RecordOK(recs[t], t \in d.pendingSchedules) /\ Kept(recs[t], d.jobs[t])
    BY <1>1, <2>2, <2>3, <2>4
  <2>8. RunsInv(x) /\ Quiet(d, x)
    BY <1>2, <2>3, <2>6, <2>7, PushDueRuns
  <2>9. ASSUME g = Slots, EverOccurring, AllAttended(c)
        PROVE  AllAttended(x)
    <3>1. \A t \in {s} : RecordAttended(recs[t], t \in d.pendingSchedules)
      BY <2>3, <2>5, <2>9
    <3>2. \A t \in Slots \ {s} : RecordAttended(d.jobs[t], t \in d.pendingSchedules)
      BY <1>10, <2>9 DEF AttendedBut
    <3> QED
      BY <1>2, <2>3, <2>6, <2>7, <2>9, <3>1, <3>2, PushDueRuns
  <2> HIDE DEF x
  <2> QED
    BY <1>11, <2>1, <2>8, <2>9 DEF TableStep, e
<1>14. CASE ~options.startPaused /\ ~ClockValid(c, now)
  <2>1. CASE s \in g
    <3> DEFINE x == QueueScheduling(d, s, now, g)
    <3>1. e = x
      BY <1>4, <1>14, <2>1
    <3>2. Quiet(d, x) /\ RunsInv(x) /\ (s \in g /\ AttendedBut(d, s) => AllAttended(x))
      BY <1>1, <1>2, <1>9, QueueSchedulingRuns
    <3> HIDE DEF x
    <3> QED
      BY <1>10, <1>11, <2>1, <3>1, <3>2 DEF TableStep, e
  <2>2. CASE s \notin g
    <3>1. e = AddJobNoMemory(c)
      BY <1>4, <1>14, <2>2
    <3> QED
      BY <1>2, <3>1, NoMemoryRuns DEF e
  <2> QED
    BY <2>1, <2>2
<1> QED
  BY <1>12, <1>13, <1>14

--------------------------------------------------------------------------------
(* Dispatch and completion *)

(* A due entry that is skipped: the run is kept back only behind another.   *)
LEMMA SkipDueRuns ==
  ASSUME NEW c \in CoreState, RunsInv(c), NEW s \in Slots, Live(c.jobs[s]), c.jobs[s].hasNext,
         c.jobs[s].paused \/ Busy(c.jobs[s]), NEW g
  PROVE  QuietStep(c, SkipDue(c, s), g)
<1> DEFINE flag == \/ c.jobs[s].queuedWhileRunning
                   \/ ~c.jobs[s].paused /\ c.jobs[s].overlap = "QueueOne"
           r == [c.jobs[s] EXCEPT !.hasNext = FALSE, !.queuedWhileRunning = flag]
           d == [c EXCEPT !.jobs[s] = r]
<1>1. /\ c.jobs[s] \in JobRecord /\ RunsInvBut(c, s)
      /\ RecordOK(c.jobs[s], s \in c.pendingSchedules)
  BY RunsBut DEF CoreState
<1>2. SkipDue(c, s) = d
  BY <1>1 DEF SkipDue, CoreState, JobRecord
<1>3. flag \in BOOLEAN
  BY <1>1 DEF JobRecord
<1>4. flag => /\ Runnable(c.jobs[s]) /\ c.jobs[s].overlap = "QueueOne"
              /\ c.jobs[s].runningCount > 0 /\ ~IsOneShot(c.jobs[s])
  BY <1>1 DEF RecordOK, Runnable, Busy, IsOneShot, JobRecord
<1> HIDE DEF flag
<1>5. Kept(r, c.jobs[s])
  BY <1>1, <1>3 DEF JobRecord, Kept, SameJob
<1>6. RecordOK(r, s \in c.pendingSchedules)
  BY <1>1, <1>3, <1>4 DEF JobRecord, RecordOK, IsOneShot, Runnable, Live
<1>7. RecordAttended(r, s \in c.pendingSchedules)
  BY <1>1, <1>3 DEF JobRecord, RecordAttended, Runnable, Live, Busy
<1> HIDE DEF r
<1>8. /\ RunsInv(d) /\ (Kept(r, c.jobs[s]) => Quiet(c, d))
      /\ AttendedBut(c, s) /\ RecordAttended(r, s \in c.pendingSchedules) => AllAttended(d)
  BY <1>1, <1>6, RewriteOnlyRuns
<1> HIDE DEF d
<1> QED
  BY <1>2, <1>5, <1>7, <1>8, RunsBut DEF QuietStep

(* A job may be dispatched when it is runnable and does not overlap. *)
Ready(r) == Runnable(r) /\ (r.overlap # "AllowParallel" \/ IsOneShot(r) => r.runningCount = 0)

(* dispatchOne counts the run that it starts. *)
LEMMA StartRuns ==
  ASSUME NEW c \in CoreState, RunsInv(c), NEW s \in Slots, Ready(c.jobs[s]),
         NEW deferred, NEW g
  PROVE  LET d == StartInvocation(c, s, deferred, g)
             r == c.jobs[s]
             q == d.jobs[s]
         IN /\ RunsInv(d) /\ d.nextId = c.nextId
            /\ SameJob(q, r) /\ q.schedule = r.schedule
            /\ q.runningCount = r.runningCount + 1 /\ ~q.canceled
            /\ \A t \in Slots \ {s} : d.jobs[t] = c.jobs[t]
            /\ AttendedBut(c, s) => AllAttended(d)
            /\ NoLeak(c) => NoLeak(d)
<1> DEFINE k == c.jobs[s].runningCount + 1
           r == [c.jobs[s] EXCEPT !.runningCount = k]
           last == IsOneShot(r) \/ (deferred /\ r.dispatch = "Async")
           found == ComputeNextForJob(r, r.nextRunUtc + MinuteLen)
           next == IF last THEN [r EXCEPT !.hasNext = FALSE] ELSE found
           recs == [x \in {s} |-> next]
           d == PushDue(c, recs, g)
<1>1. /\ c.jobs[s] \in JobRecord /\ RunsInvBut(c, s)
      /\ RecordOK(c.jobs[s], s \in c.pendingSchedules)
  BY RunsBut DEF CoreState
<1>2. StartInvocation(c, s, deferred, g) = d
  BY DEF StartInvocation
<1>3. k \in Nat /\ k > 0
  BY <1>1 DEF JobRecord
<1> HIDE DEF k
<1>4. /\ r \in JobRecord /\ SameJob(r, c.jobs[s]) /\ r.schedule = c.jobs[s].schedule
      /\ r.overlap = c.jobs[s].overlap /\ r.runningCount = k /\ Runnable(r)
      /\ r.canceled = c.jobs[s].canceled
      /\ r.queuedWhileRunning = c.jobs[s].queuedWhileRunning
      /\ r.pendingSchedule = c.jobs[s].pendingSchedule
      /\ r.refreshPending = c.jobs[s].refreshPending
  BY <1>1, <1>3 DEF JobRecord, SameJob, Ready, Runnable, Live
<1> HIDE DEF r
<1>5. /\ found \in JobRecord /\ Kept(found, r)
      /\ found.paused = r.paused /\ found.canceled = r.canceled
      /\ found.queuedWhileRunning = r.queuedWhileRunning
      /\ found.pendingSchedule = r.pendingSchedule
      /\ r.refreshPending = FALSE => found.refreshPending = FALSE
  BY <1>4, ComputeNextRuns
<1>6. /\ Unprimed(r) \in JobRecord /\ Kept(Unprimed(r), r)
      /\ Unprimed(r).paused = r.paused /\ Unprimed(r).canceled = r.canceled
      /\ Unprimed(r).queuedWhileRunning = r.queuedWhileRunning
      /\ Unprimed(r).pendingSchedule = r.pendingSchedule
      /\ Unprimed(r).refreshPending = r.refreshPending
      /\ Unprimed(r).hasNext = FALSE
  BY <1>4 DEF Unprimed, JobRecord, Kept, SameJob
<1> HIDE DEF found
<1>7. /\ next \in JobRecord /\ Kept(next, r)
      /\ next.paused = r.paused /\ next.canceled = r.canceled
      /\ next.queuedWhileRunning = r.queuedWhileRunning
      /\ next.pendingSchedule = r.pendingSchedule
      /\ r.refreshPending = FALSE => next.refreshPending = FALSE
      /\ IsOneShot(r) => next.hasNext = FALSE
  <2>1. next = Unprimed(r) \/ (next = found /\ ~IsOneShot(r))
    BY DEF Unprimed
  <2> HIDE DEF next
  <2> QED
    BY <1>5, <1>6, <2>1
<1> HIDE DEF next
<1>8. RecordOK(next, s \in c.pendingSchedules)
  <2>1. IsOneShot(r) => /\ c.jobs[s].refreshPending = FALSE /\ c.jobs[s].queuedWhileRunning = FALSE
                        /\ k = 1
    BY <1>1, <1>4 DEF RecordOK, IsOneShot, Ready, JobRecord, k
  <2>2. r.overlap # "AllowParallel" => k = 1
    BY <1>1, <1>4 DEF Ready, k
  <2>3. r.occupied /\ next.occupied
    BY <1>4, <1>7 DEF Runnable, Live, Kept, SameJob
  <2>4. next.schedule = r.schedule /\ next.overlap = r.overlap /\ next.runningCount = k
    BY <1>4, <1>7 DEF Kept
  <2>5. next.pendingSchedule => s \in c.pendingSchedules
    BY <1>1, <1>4, <1>7 DEF RecordOK
  <2>6. next.queuedWhileRunning => next.overlap = "QueueOne"
    BY <1>1, <1>4, <1>7, <2>4 DEF RecordOK
  <2>7. Runnable(next)
    BY <1>4, <1>7, <2>3 DEF Runnable, Live
  <2>8. IsOneShot(next) => /\ ~next.refreshPending /\ ~next.queuedWhileRunning
                           /\ next.runningCount = 1 /\ ~next.hasNext
    BY <1>4, <1>7, <2>1, <2>4 DEF IsOneShot
  <2> QED
    BY <1>3, <2>2, <2>3, <2>4, <2>5, <2>6, <2>7, <2>8 DEF RecordOK
<1>9. RecordAttended(next, s \in c.pendingSchedules)
  BY <1>3, <1>4, <1>7 DEF RecordAttended, Kept
<1>10. {s} \in SUBSET Slots /\ recs \in [{s} -> JobRecord] /\ recs[s] = next
  BY <1>7
<1> HIDE DEF recs
<1>11. /\ d.allocated = c.allocated /\ d.freeSlots = c.freeSlots
       /\ d.jobIndex = c.jobIndex /\ d.nextId = c.nextId
       /\ d.pendingSchedules = c.pendingSchedules
       /\ \A t \in Slots \ {s} : d.jobs[t] = c.jobs[t]
       /\ \A t \in {s} : \/ d.jobs[t] = recs[t]
                         \/ t \notin g /\ d.jobs[t] = Unprimed(recs[t])
  <2> DEFINE D == {s}
  <2>1. D \in SUBSET Slots /\ recs \in [D -> JobRecord]
    BY <1>10
  <2>2. D = {s}
    OBVIOUS
  <2> HIDE DEF D
  <2>3. /\ d.allocated = c.allocated /\ d.freeSlots = c.freeSlots
        /\ d.jobIndex = c.jobIndex /\ d.nextId = c.nextId
        /\ d.pendingSchedules = c.pendingSchedules
        /\ \A t \in Slots \ D : d.jobs[t] = c.jobs[t]
        /\ \A t \in D : \/ d.jobs[t] = recs[t]
                        \/ t \notin g /\ d.jobs[t] = Unprimed(recs[t])
    BY ONLY PushDueJobs, c \in CoreState, <2>1, SMTT(40)
  <2> QED
    BY <2>2, <2>3
<1>12. RunsInv(d)
  <2>1. \A t \in {s} : RecordOK(recs[t], t \in c.pendingSchedules)
    BY <1>8, <1>10
  <2>2. \A t \in Slots \ {s} : RecordOK(c.jobs[t], t \in c.pendingSchedules)
    BY <1>1 DEF RunsInvBut
  <2> QED
    BY <1>10, <2>1, <2>2, PushDueRuns
<1> HIDE DEF d
<1>13. Kept(d.jobs[s], next) /\ d.jobs[s].canceled = next.canceled
  <2>1. d.jobs[s] = next \/ d.jobs[s] = Unprimed(next)
    BY <1>10, <1>11
  <2> QED
    BY <1>7, <2>1, UnprimedRecord DEF Unprimed, JobRecord, Kept, SameJob
<1>14. /\ SameJob(d.jobs[s], c.jobs[s]) /\ d.jobs[s].schedule = c.jobs[s].schedule
       /\ d.jobs[s].runningCount = k /\ ~d.jobs[s].canceled
  BY <1>4, <1>7, <1>13 DEF Kept, SameJob, Runnable, Live
<1>15. AttendedBut(c, s) => AllAttended(d)
  BY <1>3, <1>11, <1>14 DEF AttendedBut, AllAttended, RecordAttended
<1>16. NoLeak(c) => NoLeak(d)
  <2>1. c.allocated \in SUBSET Slots /\ \A t \in Slots : d.jobs[t].occupied = c.jobs[t].occupied
    BY <1>11, <1>14 DEF CoreState, SameJob
  <2> QED
    BY <1>11, <2>1 DEF NoLeak
<1> QED
  BY <1>2, <1>11, <1>12, <1>14, <1>15, <1>16 DEF k

(* dispatchOne that no executor takes keeps the job primed. *)
LEMMA RetryRuns ==
  ASSUME NEW c \in CoreState, RunsInv(c), NEW s \in Slots, Ready(c.jobs[s]),
         NEW now \in Time, NEW g
  PROVE  LET d == RetryLater(c, s, now, g) IN
         Quiet(c, d) /\ RunsInv(d) /\ (g = Slots /\ AttendedBut(c, s) => AllAttended(d))
<1> DEFINE r == [c.jobs[s] EXCEPT !.hasNext = TRUE, !.nextRunUtc = now + RetryDelay]
           recs == [x \in {s} |-> r]
           d == PushDue(c, recs, g)
<1>1. /\ c.jobs[s] \in JobRecord /\ RunsInvBut(c, s) /\ now + RetryDelay \in Time
      /\ RecordOK(c.jobs[s], s \in c.pendingSchedules)
  BY RunsBut DEF CoreState, RetryDelay, Time
<1>2. RetryLater(c, s, now, g) = d
  BY DEF RetryLater
<1>3. r \in JobRecord /\ Kept(r, c.jobs[s]) /\ r.hasNext
  BY <1>1 DEF JobRecord, Kept, SameJob
<1>4. RecordOK(r, s \in c.pendingSchedules)
  BY <1>1 DEF JobRecord, RecordOK, Ready, Runnable, Live, IsOneShot
<1>5. RecordAttended(r, s \in c.pendingSchedules)
  BY <1>3 DEF RecordAttended
<1> HIDE DEF r
<1>6. {s} \in SUBSET Slots /\ recs \in [{s} -> JobRecord] /\ recs[s] = r
  BY <1>3
<1> HIDE DEF recs
<1>7. /\ \A t \in {s} : RecordOK(recs[t], t \in c.pendingSchedules) /\ Kept(recs[t], c.jobs[t])
      /\ \A t \in {s} : RecordAttended(recs[t], t \in c.pendingSchedules)
  BY <1>3, <1>4, <1>5, <1>6
<1>8. \A t \in Slots \ {s} : RecordOK(c.jobs[t], t \in c.pendingSchedules)
  BY <1>1 DEF RunsInvBut
<1>9. RunsInv(d) /\ Quiet(c, d)
  BY <1>6, <1>7, <1>8, PushDueRuns
<1>10. ASSUME g = Slots, AttendedBut(c, s)
       PROVE  AllAttended(d)
  <2>1. \A t \in Slots \ {s} : RecordAttended(c.jobs[t], t \in c.pendingSchedules)
    BY <1>10 DEF AttendedBut
  <2> QED
    BY <1>6, <1>7, <1>8, <1>10, <2>1, PushDueRuns
<1> QED
  BY <1>2, <1>9, <1>10

(* What a completion does to the number of runs. *)
Less(n) == IF n > 0 THEN n - 1 ELSE n

(* q is the job of r with one run less. *)
Ended(q, r) ==
  /\ SameJob(q, r) /\ q.schedule = r.schedule /\ q.overlap = r.overlap
  /\ q.runningCount = Less(r.runningCount)
  /\ r.canceled => q.canceled

(* RecordOK, but for a kept-back run that has nothing to wait for any more. *)
RecordFreed(r, listed) ==
  /\ r.pendingSchedule => listed
  /\ r.queuedWhileRunning => Runnable(r) /\ r.overlap = "QueueOne" /\ ~IsOneShot(r)
  /\ IsOneShot(r) => ~r.refreshPending /\ r.runningCount = 0
  /\ r.overlap # "AllowParallel" => r.runningCount = 0
  /\ ~r.occupied => r.runningCount = 0

(* The first half of handleCompletion. *)
LEMMA FinishedRuns ==
  ASSUME NEW c, CoreInv(c), RunsInv(c), NEW s \in Slots
  PROVE  LET d == Finished(c, s)
             q == d.jobs[s]
             r == c.jobs[s]
         IN /\ Ended(q, r) /\ q.canceled = r.canceled /\ q.hasNext = r.hasNext
            /\ RecordFreed(q, s \in d.pendingSchedules) /\ RunsInvBut(d, s)
            /\ IsOneShot(q) /\ r.runningCount > 0 => ~q.hasNext /\ q.occupied
            /\ \A t \in Slots \ {s} : d.jobs[t] = c.jobs[t]
            /\ d.pendingSchedules = c.pendingSchedules /\ d.nextId = c.nextId
            /\ AttendedBut(c, s) => AttendedBut(d, s)
            /\ NoLeak(c) => NoLeak(d)
<1> DEFINE k == Less(c.jobs[s].runningCount)
           r == [c.jobs[s] EXCEPT !.runningCount = k]
           d == [c EXCEPT !.jobs[s] = r]
<1>1. /\ c \in CoreState /\ c.jobs[s] \in JobRecord /\ RunsInvBut(c, s)
      /\ RecordOK(c.jobs[s], s \in c.pendingSchedules)
  BY RunsBut DEF CoreInv, CoreState
<1>2. Finished(c, s) = d
  BY <1>1 DEF Finished, CoreState, JobRecord, Less
<1>3. /\ k \in Nat /\ c.jobs[s].runningCount \in Nat
      /\ k <= c.jobs[s].runningCount /\ (c.jobs[s].runningCount <= 1 => k = 0)
  BY <1>1 DEF JobRecord, Less
<1>4. k = Less(c.jobs[s].runningCount)
  OBVIOUS
<1> HIDE DEF k
<1>5. /\ r \in JobRecord /\ Ended(r, c.jobs[s]) /\ r.canceled = c.jobs[s].canceled
      /\ r.hasNext = c.jobs[s].hasNext /\ r.paused = c.jobs[s].paused
      /\ r.queuedWhileRunning = c.jobs[s].queuedWhileRunning
      /\ r.pendingSchedule = c.jobs[s].pendingSchedule
      /\ r.refreshPending = c.jobs[s].refreshPending
      /\ r.runningCount = k
  BY <1>1, <1>3, <1>4 DEF JobRecord, Ended, SameJob
<1>6. /\ d.jobs[s] = r /\ \A t \in Slots \ {s} : d.jobs[t] = c.jobs[t]
      /\ d.pendingSchedules = c.pendingSchedules /\ d.nextId = c.nextId
      /\ d.allocated = c.allocated /\ d.freeSlots = c.freeSlots
  BY <1>1 DEF CoreState
<1> HIDE DEF r, d
<1>7. RecordFreed(r, s \in c.pendingSchedules)
  <2>1. /\ r.overlap = c.jobs[s].overlap /\ r.occupied = c.jobs[s].occupied
        /\ IsOneShot(r) = IsOneShot(c.jobs[s]) /\ Runnable(r) = Runnable(c.jobs[s])
    BY <1>5 DEF Ended, SameJob, IsOneShot, Runnable, Live
  <2>2. r.overlap # "AllowParallel" \/ IsOneShot(r) \/ ~r.occupied => k = 0
    BY <1>1, <1>3, <2>1 DEF RecordOK
  <2> QED
    BY <1>1, <1>5, <2>1, <2>2 DEF RecordOK, RecordFreed
<1>8. IsOneShot(r) /\ c.jobs[s].runningCount > 0 => ~r.hasNext /\ r.occupied
  BY <1>1, <1>3, <1>5 DEF RecordOK, IsOneShot, Ended, SameJob
<1>9. RunsInvBut(d, s) /\ (AttendedBut(c, s) => AttendedBut(d, s))
  BY <1>1, <1>6 DEF RunsInvBut, AttendedBut
<1>10. NoLeak(c) => NoLeak(d)
  <2>1. c.allocated \in SUBSET Slots /\ \A t \in Slots : d.jobs[t].occupied = c.jobs[t].occupied
    BY <1>1, <1>5, <1>6 DEF CoreState, Ended, SameJob
  <2> QED
    BY <1>6, <2>1 DEF NoLeak
<1> QED
  BY <1>2, <1>5, <1>6, <1>7, <1>8, <1>9, <1>10

(* The run that was kept back is taken: its job may be dispatched. *)
LEMMA TakeDeferredRuns ==
  ASSUME NEW c, CoreInv(c), NEW s \in Slots, RecordFreed(c.jobs[s], s \in c.pendingSchedules),
         RunsInvBut(c, s), DeferredDue(c, s)
  PROVE  LET d == TakeDeferred(c, s) IN
         /\ RunsInv(d) /\ Quiet(c, d) /\ Ready(d.jobs[s])
         /\ AttendedBut(c, s) => AttendedBut(d, s)
<1> DEFINE r == [c.jobs[s] EXCEPT !.queuedWhileRunning = FALSE]
           d == [c EXCEPT !.jobs[s] = r]
<1>1. c \in CoreState /\ c.jobs[s] \in JobRecord
  BY DEF CoreInv, CoreState
<1>2. TakeDeferred(c, s) = d
  BY <1>1 DEF TakeDeferred, CoreState, JobRecord
<1>3. Kept(r, c.jobs[s])
  BY <1>1 DEF JobRecord, Kept, SameJob
<1>4. RecordOK(r, s \in c.pendingSchedules) /\ Ready(r)
  BY <1>1 DEF JobRecord, RecordFreed, RecordOK, DeferredDue, Ready, Runnable, Live, IsOneShot
<1>5. d.jobs[s] = r /\ d.pendingSchedules = c.pendingSchedules
      /\ \A t \in Slots \ {s} : d.jobs[t] = c.jobs[t]
  BY <1>1 DEF CoreState
<1> HIDE DEF r
<1>6. RunsInv(d) /\ Quiet(c, d)
  BY <1>1, <1>3, <1>4, RewriteOnlyRuns
<1> HIDE DEF d
<1>7. AttendedBut(c, s) => AttendedBut(d, s)
  BY <1>5 DEF AttendedBut
<1> QED
  BY <1>2, <1>4, <1>5, <1>6, <1>7

(* The end of handleCompletion: the job is vacated when its last run is     *)
(* over and nothing more is to come, else it is queued, primed or out.      *)
LEMMA SettleRuns ==
  ASSUME NEW c, CoreInv(c), NEW s \in Slots, RecordFreed(c.jobs[s], s \in c.pendingSchedules),
         RunsInvBut(c, s), ~DeferredDue(c, s), NEW now \in Time, NEW g
  PROVE  LET d == SettleCompletion(c, s, now, g) IN
         /\ RunsInv(d) /\ d.nextId = c.nextId
         /\ \A t \in Slots \ {s} : Kept(d.jobs[t], c.jobs[t])
         /\ \/ Kept(d.jobs[s], c.jobs[s])
            \/ c.jobs[s].occupied /\ c.jobs[s].runningCount = 0 /\ Vacant(d.jobs[s])
         /\ IsOneShot(c.jobs[s]) /\ c.jobs[s].occupied /\ ~c.jobs[s].hasNext
               => Vacant(d.jobs[s])
         /\ s \in g /\ AttendedBut(c, s) => AllAttended(d)
         /\ g = Slots /\ NoLeak(c) => NoLeak(d)
<1> DEFINE r == c.jobs[s]
           d == SettleCompletion(c, s, now, g)
           p == [r EXCEPT !.refreshPending = FALSE, !.hasNext = FALSE,
                          !.queuedWhileRunning = FALSE]
           b == [c EXCEPT !.jobs[s] = p]
<1>1. c \in CoreState /\ r \in JobRecord /\ r.runningCount \in Nat
  BY DEF CoreInv, CoreState, JobRecord
<1>2. b = [c EXCEPT !.jobs[s] = [@ EXCEPT !.refreshPending = FALSE, !.hasNext = FALSE,
                                          !.queuedWhileRunning = FALSE]]
  BY <1>1 DEF CoreState
<1>3. b \in CoreState /\ RunsInv(b) /\ Quiet(c, b) /\ (AttendedBut(c, s) => AttendedBut(b, s))
  <2>1. p \in JobRecord /\ Kept(p, r)
    BY <1>1 DEF JobRecord, Kept, SameJob
  <2>2. RecordOK(p, s \in c.pendingSchedules)
    BY <1>1 DEF JobRecord, RecordFreed, RecordOK, IsOneShot
  <2>3. /\ \A t \in Slots \ {s} : b.jobs[t] = c.jobs[t]
        /\ b.pendingSchedules = c.pendingSchedules
    BY <1>1 DEF CoreState
  <2> HIDE DEF p
  <2>4. b \in CoreState
    BY <1>1, <2>1 DEF CoreState
  <2>5. RunsInv(b) /\ Quiet(c, b)
    BY <1>1, <2>1, <2>2, RewriteOnlyRuns
  <2> HIDE DEF b
  <2> QED
    BY <2>3, <2>4, <2>5 DEF AttendedBut
<1>4. ~r.queuedWhileRunning \/ r.runningCount > 0 => RunsInv(c)
  BY <1>1 DEF RunsInv, RunsInvBut, RecordFreed, RecordOK, IsOneShot
<1>5. \A t \in Slots : Kept(c.jobs[t], c.jobs[t])
  BY DEF Kept, SameJob
<1>6. CASE /\ d = c /\ (~r.queuedWhileRunning \/ r.runningCount > 0)
           /\ Runnable(r) /\ r.runningCount = 0 => r.hasNext
           /\ IsOneShot(r) /\ r.occupied => r.hasNext
  BY <1>4, <1>5, <1>6 DEF AllAttended, AttendedBut, RecordAttended
<1>7. CASE d = RetireJobs(c, {s}, g) /\ r.occupied /\ r.runningCount = 0
  <2> DEFINE x == RetireJobs(c, {s}, g)
  <2>1. s \in Occupied(c)
    BY <1>7 DEF Occupied
  <2>2. /\ Vacant(x.jobs[s]) /\ \A t \in Slots \ {s} : x.jobs[t] = c.jobs[t]
        /\ Moves(c, x) /\ RunsInv(x) /\ x.nextId = c.nextId
        /\ AttendedBut(c, s) => AllAttended(x)
        /\ g = Slots /\ NoLeak(c) => NoLeak(x)
    BY <1>7, <2>1, RetireRuns
  <2> HIDE DEF x, d
  <2> QED
    BY <1>5, <1>7, <2>2 DEF x, d
<1>8. ASSUME NEW a \in CoreState, RunsInv(a), Quiet(c, a), AttendedBut(c, s) => AttendedBut(a, s),
             d = QueueScheduling(a, s, now, g), ~IsOneShot(r)
      PROVE  /\ RunsInv(d) /\ d.nextId = c.nextId
             /\ \A t \in Slots : Kept(d.jobs[t], c.jobs[t])
             /\ s \in g /\ AttendedBut(c, s) => AllAttended(d)
             /\ NoLeak(c) => NoLeak(d)
  <2>1. Quiet(a, d) /\ RunsInv(d) /\ (s \in g /\ AttendedBut(a, s) => AllAttended(d))
    BY <1>8, QueueSchedulingRuns
  <2> HIDE DEF d
  <2>2. Quiet(c, d)
    BY <1>8, <2>1 DEF Quiet, Kept, SameJob
  <2> QED
    BY <1>1, <1>8, <2>1, <2>2, QuietNoLeak DEF Quiet
<1>9. CASE d = QueueScheduling(b, s, now, g) /\ ~IsOneShot(r)
  <2> HIDE DEF b, d, p
  <2> QED
    BY <1>3, <1>8, <1>9 DEF d
<1>10. CASE d = QueueScheduling(c, s, now, g) /\ ~IsOneShot(r) /\ ~r.queuedWhileRunning
  <2>1. Quiet(c, c)
    BY <1>5 DEF Quiet
  <2> HIDE DEF d
  <2> QED
    BY <1>1, <1>4, <1>8, <1>10, <2>1 DEF d
<1> HIDE DEF b, p
<1>11. RecordFreed(r, s \in c.pendingSchedules) /\ (r.occupied <=> r.occupied = TRUE)
  BY <1>1 DEF JobRecord
<1>12. CASE ~Live(r)
  <2>1. ~r.queuedWhileRunning
    BY <1>11, <1>12 DEF RecordFreed, Runnable
  <2>2. CASE ~r.occupied
    <3>1. d = c
      BY <1>11, <2>2 DEF SettleCompletion, Live
    <3> QED
      BY <1>6, <1>12, <2>1, <2>2, <3>1 DEF Runnable
  <2>3. CASE r.occupied
    <3>1. d = IF r.runningCount = 0 THEN RetireJobs(c, {s}, g) ELSE c
      BY <1>12, <2>3 DEF SettleCompletion, Live
    <3>2. CASE r.runningCount = 0
      BY <1>7, <2>3, <3>1, <3>2
    <3>3. CASE r.runningCount # 0
      <4>1. ~IsOneShot(r)
        BY <1>11, <3>3 DEF RecordFreed
      <4> QED
        BY <1>6, <1>12, <2>1, <3>1, <3>3, <4>1 DEF Runnable
    <3> QED
      BY <3>2, <3>3
  <2> QED
    BY <2>2, <2>3
<1>13. CASE Live(r)
  <2>1. CASE r.runningCount = 0 /\ r.refreshPending
    <3>1. d = QueueScheduling(b, s, now, g)
      BY <1>2, <1>13, <2>1 DEF SettleCompletion, Live
    <3>2. ~IsOneShot(r)
      BY <1>11, <2>1 DEF RecordFreed
    <3> QED
      BY <1>9, <3>1, <3>2
  <2>2. CASE r.runningCount = 0 /\ ~r.refreshPending
    <3>1. ~r.queuedWhileRunning
      BY <1>11, <2>2 DEF RecordFreed, DeferredDue
    <3>2. CASE r.hasNext
      <4>1. d = c
        BY <1>13, <2>2, <3>2 DEF SettleCompletion, Live
      <4> QED
        BY <1>6, <1>13, <3>1, <3>2, <4>1
    <3>3. CASE ~r.hasNext /\ IsOneShot(r)
      <4>1. d = RetireJobs(c, {s}, g)
        BY <1>13, <2>2, <3>1, <3>3 DEF SettleCompletion, Live
      <4> QED
        BY <1>7, <1>13, <2>2, <4>1 DEF Live
    <3>4. CASE ~r.hasNext /\ ~IsOneShot(r) /\ ~r.paused
      <4>1. d = QueueScheduling(c, s, now, g)
        BY <1>13, <2>2, <3>1, <3>4 DEF SettleCompletion, Live
      <4> QED
        BY <1>10, <3>1, <3>4, <4>1
    <3>5. CASE ~r.hasNext /\ ~IsOneShot(r) /\ r.paused
      <4>1. d = c
        BY <1>13, <2>2, <3>5 DEF SettleCompletion, Live
      <4> QED
        BY <1>6, <3>1, <3>5, <4>1 DEF Runnable
    <3> QED
      BY <3>2, <3>3, <3>4, <3>5
  <2>3. CASE r.runningCount # 0
    <3>1. d = c
      BY <1>13, <2>3 DEF SettleCompletion, Live
    <3>2. ~IsOneShot(r) /\ r.runningCount > 0
      BY <1>1, <1>11, <2>3 DEF RecordFreed
    <3> QED
      BY <1>6, <2>3, <3>1, <3>2
  <2> QED
    BY <2>1, <2>2, <2>3
<1> QED
  BY <1>12, <1>13
================================================================================
