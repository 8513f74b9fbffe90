--------------------------- MODULE Scheduler_proofs ---------------------------
(***************************************************************************)
(* Machine-checked proofs about the scheduler, for any jobs, schedules,    *)
(* time zones, late results and crashes: a planned run fires again only    *)
(* when its schedule had no next run, and when a task id belongs to one    *)
(* plugin the engine and the table agree and what was removed stays away.  *)
(*                                                                         *)
(* A mutation writes the table before the map, and the tick loop works on  *)
(* copies.  The invariant compares the table with the job as it will be    *)
(* once the mutation under way is published, and a copy with the job it    *)
(* was taken from as long as both have the same revision.                  *)
(***************************************************************************)
EXTENDS Scheduler, FiniteSetTheorems, TLAPS

\* Every task id is used by one plugin.
OneCreator == \A id \in Ids : \A p, q \in Creators[id] : p = q

Job == [owner : Plugins, period : Periods, next : Nat, count : Nat, revision : Nat]
Record == [owner : Plugins, period : Periods, next : Nat, count : Nat]
DueJob == [id : Ids, job : Job]

Mutations ==
  [kind : {"upsert", "record"}, id : Ids, job : Job]
  \cup [kind : {"remove"}, ids : SUBSET Ids]
  \cup [kind : {"schedule"}, id : Ids, next : Nat]
Loops ==
  {Idle, Down, [at |-> "exited"]}
  \cup [at : {"tick"}, clock : Nat, due : SUBSET DueJob]
  \cup [at : {"fired"}, clock : Nat, due : SUBSET DueJob, one : DueJob]

Typed ==
  /\ now \in 0..MaxTime /\ zone \in Zones /\ revision \in 0..MaxRevision
  /\ jobs \in [Ids -> Job \cup {None}]
  /\ table \in [Ids -> Record \cup {None}]
  /\ mutation \in Mutations \cup {None}
  /\ loop \in Loops
  /\ runs \in [Ids -> [1..MaxRevision -> Nat]]
  /\ stopped \in BOOLEAN /\ stops \in 0..MaxStops
  /\ removed \subseteq Ids /\ saved \in [Ids -> Periods \cup {0}]

\* The revisions in use; an upsert that is not published has one of its own.
Issued == IF mutation.kind = "upsert" THEN revision - 1 ELSE revision

\* The fired job that was not moved to its next time yet.
Firing == loop.at = "fired" /\ mutation.kind # "schedule"
Copies == IF loop.at \notin {"tick", "fired"} THEN {}
          ELSE loop.due \cup IF Firing THEN {loop.one} ELSE {}

Revisions ==
  /\ \A id \in Ids : Exists(jobs[id]) => jobs[id].revision \in 1..Issued
  /\ \A i, k \in Ids : i # k /\ Exists(jobs[i]) /\ Exists(jobs[k]) =>
       jobs[i].revision # jobs[k].revision
  /\ mutation.kind = "upsert" => mutation.job.revision = revision /\ revision # 0
  /\ mutation.kind = "remove" => revision < MaxRevision
  /\ mutation.kind = "record" =>
       /\ Exists(jobs[mutation.id])
       /\ mutation.job = Counted(jobs[mutation.id])
  /\ mutation.kind = "schedule" =>
       /\ loop.at = "fired" /\ Exists(jobs[mutation.id])
       /\ mutation.next = jobs[mutation.id].next
  /\ ~Up => mutation = None /\ fired = {} /\ \A id \in Ids : ~Exists(jobs[id])

\* A copy in the loop was due, and is the job itself while that has its revision.
CopiesSound ==
  /\ \A d \in Copies :
       /\ d.job.revision <= Issued /\ d.job.next <= loop.clock
       /\ Current(d.id, d.job.revision) =>
            jobs[d.id].next = d.job.next /\ jobs[d.id].period = d.job.period
  /\ loop.at \in {"tick", "fired"} => \A d, e \in loop.due : d.id = e.id => d = e
  /\ loop.at = "fired" => \A d \in loop.due : d.id # loop.one.id

\* What fired lies behind the job, but for the one whose turn it is and for the
\* schedules that had no next run then.
FiredBehind ==
  /\ \A f \in fired : f[1] \in Ids /\ f[2] \in 0..Issued /\ f[3] \in Nat
  /\ \A f \in fired :
       Current(f[1], f[2]) =>
         \/ f[3] < jobs[f[1]].next
         \/ ~HasNext(jobs[f[1]].period, zone, f[4])
         \/ /\ Firing /\ f[1] = loop.one.id /\ f[2] = loop.one.job.revision
            /\ f[3] <= loop.clock /\ f[4] = loop.clock
  /\ loop.at \in {"tick", "fired"} =>
       \A d \in loop.due, f \in fired :
         f[1] = d.id /\ f[2] = d.job.revision /\ f[3] = d.job.next =>
           ~HasNext(d.job.period, zone, f[4])

FInv == Typed /\ Revisions /\ CopiesSound /\ FiredBehind

\* The job as it will be when the mutation under way is published.
Pending(id) ==
  CASE mutation.kind \in {"upsert", "record"} /\ mutation.id = id -> mutation.job
    [] mutation.kind = "remove" /\ id \in mutation.ids -> None
    [] OTHER -> jobs[id]

Matches(row, j) ==
  /\ Exists(j) <=> Exists(row)
  /\ Exists(j) => /\ j.owner = row.owner /\ j.period = row.period /\ j.count = row.count
                  /\ row.next <= j.next

TableMatches ==
  /\ Up => \A id \in Ids : Matches(table[id], Pending(id))
  /\ \A id \in Ids : Exists(table[id]) => table[id].owner \in Creators[id]

RemovalsKept ==
  /\ \A id \in removed : ~Exists(jobs[id]) /\ ~Exists(table[id])
  /\ mutation.kind \in {"upsert", "record", "schedule"} => mutation.id \notin removed
  /\ \A id \in Ids : saved[id] # 0 => Exists(table[id]) /\ table[id].period = saved[id]

MInv == FInv /\ TableMatches /\ RemovalsKept

-----------------------------------------------------------------------------
(* The shapes of the records. *)

LEMMA JobShape ==
  /\ \A j \in Job : /\ Exists(j) /\ j.owner \in Plugins /\ j.period \in Periods
                    /\ j.next \in Nat /\ j.count \in Nat /\ j.revision \in Nat
  /\ \A j \in Record : /\ Exists(j) /\ j.owner \in Plugins /\ j.period \in Periods
                       /\ j.next \in Nat /\ j.count \in Nat
<1>1. \A j \in Job \cup Record : Exists(j)
  <2> SUFFICES ASSUME NEW j \in Job \cup Record, j = None PROVE FALSE
    BY DEF Exists
  <2>1. "owner" \in DOMAIN j
    BY DEF Job, Record
  <2>2. DOMAIN None = {"kind"}
    BY DEF None
  <2> QED
    BY <2>1, <2>2
<1> QED
  BY <1>1 DEF Job, Record

LEMMA MutationShape ==
  ASSUME mutation \in Mutations \cup {None}
  PROVE  /\ mutation.kind \in {"none", "upsert", "record", "remove", "schedule"}
         /\ mutation.kind \in {"upsert", "record"} => mutation.id \in Ids /\ mutation.job \in Job
         /\ mutation.kind = "remove" => mutation.ids \subseteq Ids
         /\ mutation.kind = "schedule" => mutation.id \in Ids /\ mutation.next \in Nat
         /\ mutation = None <=> mutation.kind = "none"
  BY DEF Mutations, None

LEMMA LoopShape ==
  ASSUME loop \in Loops
  PROVE  /\ loop.at \in {"idle", "down", "exited", "tick", "fired"}
         /\ loop.at \in {"tick", "fired"} => loop.clock \in Nat /\ loop.due \subseteq DueJob
         /\ loop.at = "fired" => loop.one \in DueJob
         /\ loop = Idle <=> loop.at = "idle"
         /\ loop = Down <=> loop.at = "down"
  BY DEF Loops, Idle, Down

(* The next time of a schedule. *)

LEMMA DivMod ==
  ASSUME NEW p \in Nat \ {0}, NEW x \in Nat
  PROVE  x % p \in 0..(p - 1) /\ x \div p \in Nat /\ x = (x \div p) * p + (x % p)
  OBVIOUS

\* The remainder of a number is unique.
LEMMA ModUnique ==
  ASSUME NEW p \in Nat \ {0}, NEW q \in Nat, NEW r \in 0..(p - 1)
  PROVE  (q * p + r) % p = r
<1> DEFINE x == q * p + r
           m == (x \div p) - q
<1>1. q * p \in Nat
  OBVIOUS
<1>2. x \in Nat
  BY <1>1
<1>3. x % p \in 0..(p - 1) /\ x \div p \in Nat /\ x = (x \div p) * p + (x % p)
  <2> HIDE DEF x
  <2> QED
    BY <1>2, DivMod
<1>4. p * m = r - (x % p)
  BY <1>1, <1>2, <1>3
<1>5. m \in Int /\ p * m < p /\ p * m > 0 - p
  BY <1>3, <1>4
<1> HIDE DEF m
<1>6. m = 0
  <2>1. CASE m >= 1
    <3>1. p * m >= p
      BY <1>5, <2>1
    <3> QED
      BY <1>5, <3>1
  <2>2. CASE m <= -1
    <3>1. p * m <= 0 - p
      BY <1>5, <2>2
    <3> QED
      BY <1>5, <3>1
  <2> QED
    BY <1>5, <2>1, <2>2
<1> QED
  BY <1>3, <1>4, <1>6

\* A schedule has a next time, after the moment asked for.
LEMMA NextRunLater ==
  ASSUME NEW p \in Nat \ {0}, NEW z \in Nat, NEW t \in Nat
  PROVE  NextRun(p, z, t) \in Nat /\ NextRun(p, z, t) > t
<1> DEFINE r == (t + 1) % p
           q == (t + 1) \div p
           w == z % p
<1>1. r \in 0..(p - 1) /\ w \in 0..(p - 1) /\ q \in Nat /\ t + 1 = q * p + r
  OBVIOUS
<1> HIDE DEF r, q
<1>2. \E u \in (t + 1)..(t + p) : u % p = w
  <2> HIDE DEF w
  <2>1. CASE r <= w
    <3>1. q * p + w \in (t + 1)..(t + p)
      BY <1>1, <2>1
    <3> QED
      BY <1>1, <3>1, ModUnique
  <2>2. CASE r > w
    <3>1. (q + 1) * p = q * p + p /\ q * p \in Nat
      BY <1>1
    <3>2. (q + 1) * p + w \in (t + 1)..(t + p)
      BY <1>1, <2>2, <3>1
    <3>3. q + 1 \in Nat
      BY <1>1
    <3>4. ((q + 1) * p + w) % p = w
      BY <1>1, <3>3, ModUnique
    <3> QED
      BY <3>2, <3>4
  <2> QED
    BY <1>1, <2>1, <2>2
<1>3. NextRun(p, z, t) \in (t + 1)..(t + p)
  BY <1>2 DEF NextRun
<1> QED
  BY <1>3

-----------------------------------------------------------------------------
(* The types. *)

LEMMA RowsTyped ==
  /\ \A j \in Job : /\ Row(j) \in Record
                    /\ Counted(j) \in Job
                    /\ \A n \in Nat : [j EXCEPT !.next = n] \in Job
  /\ \A j \in Record : /\ Counted(j) \in Record
                       /\ \A n \in Nat : [j EXCEPT !.next = n] \in Record
                       /\ \A n \in Nat, x \in Periods :
                            [j EXCEPT !.period = x, !.next = n] \in Record
<1>1. \A j \in Job : Row(j) \in Record
  BY DEF Row, Job, Record
<1>2. \A j \in Job : Counted(j) \in Job
  BY DEF Counted, Job
<1>3. \A j \in Job, n \in Nat : [j EXCEPT !.next = n] \in Job
  BY DEF Job
<1>4. \A j \in Record : Counted(j) \in Record
  BY DEF Counted, Record
<1>5. \A j \in Record, n \in Nat : [j EXCEPT !.next = n] \in Record
  BY DEF Record
<1>6. \A j \in Record, n \in Nat, x \in Periods :
        [j EXCEPT !.period = x, !.next = n] \in Record
  BY DEF Record
<1> QED
  BY <1>1, <1>2, <1>3, <1>4, <1>5, <1>6

LEMMA NewJobTyped ==
  ASSUME Typed, NEW id \in Ids, NEW p \in Creators[id], NEW x \in Periods
  PROVE  NewJob(p, id, x) \in Job
<1>1. p \in Plugins /\ x \in Nat \ {0} /\ zone \in Nat /\ now \in Nat /\ revision \in Nat
  BY SchedulerAssumption DEF SchedulerAssumption, Typed
<1>2. NextRun(x, zone, now) \in Nat
  BY <1>1, NextRunLater
<1>3. Exists(jobs[id]) => jobs[id].count \in Nat
  BY JobShape DEF Typed, Exists
<1> QED
  BY <1>1, <1>2, <1>3 DEF NewJob, Job

LEMMA SavedTyped ==
  ASSUME Typed, NEW id \in Ids, NEW j \in Job, SaveJob(id, j)
  PROVE  table' \in [Ids -> Record \cup {None}]
<1>1. j.period \in Periods /\ j.next \in Nat
  BY JobShape
<1>2. (IF Exists(table[id]) THEN [table[id] EXCEPT !.period = j.period, !.next = j.next]
       ELSE Row(j)) \in Record
  BY <1>1, RowsTyped DEF Typed, Exists
<1> QED
  BY <1>2 DEF SaveJob, Typed

\* The next time of the job that fired, which is still there.
LEMMA AdvancedTyped ==
  ASSUME Typed, loop.at = "fired", Current(loop.one.id, loop.one.job.revision)
  PROVE  LET id == loop.one.id
         IN  /\ id \in Ids /\ jobs[id] \in Job /\ Advanced(loop.one) \in Job
             /\ \E n \in Nat : /\ n > loop.clock
                               /\ Advanced(loop.one) = [jobs[id] EXCEPT !.next = n]
<1>1. loop.clock \in Nat /\ loop.one.id \in Ids /\ loop.one.job \in Job
  BY LoopShape DEF Typed, DueJob
<1>2. jobs[loop.one.id] \in Job
  BY <1>1 DEF Typed, Current, Exists
<1>3. loop.one.job.period \in Nat \ {0} /\ zone \in Nat
  BY <1>1, JobShape, SchedulerAssumption DEF SchedulerAssumption, Typed
<1> DEFINE n == NextRun(loop.one.job.period, zone, loop.clock)
<1>4. n \in Nat /\ n > loop.clock
  BY <1>1, <1>3, NextRunLater
<1>5. Advanced(loop.one) = [jobs[loop.one.id] EXCEPT !.next = n]
  BY DEF Advanced
<1> HIDE DEF n
<1> QED
  BY <1>1, <1>2, <1>4, <1>5, RowsTyped

\* A row that Hydrate may move to another time.
LEMMA RestoredTyped ==
  ASSUME Typed, NEW z \in Zones, NEW id \in Ids, Exists(table[id])
  PROVE  /\ Restored(table[id], z) \in Record
         /\ Restored(table[id], z).owner = table[id].owner
         /\ Restored(table[id], z).period = table[id].period
<1> DEFINE row == table[id]
<1>1. row \in Record /\ Exists(row)
  BY DEF Typed, Exists
<1>2. row.period \in Nat \ {0} /\ z \in Nat /\ now \in Nat
  <2>1. Periods \subseteq Nat \ {0} /\ Zones \subseteq Nat /\ MaxTime \in Nat
    BY SchedulerAssumption DEF SchedulerAssumption
  <2>2. row.period \in Periods
    BY <1>1, JobShape
  <2>3. now \in Nat
    BY <2>1 DEF Typed
  <2> QED
    BY <2>1, <2>2, <2>3
<1>3. NextRun(row.period, z, now) \in Nat
  BY <1>2, NextRunLater
<1> HIDE DEF row
<1>4. [row EXCEPT !.next = NextRun(row.period, z, now)] \in Record
  BY <1>1, <1>3, RowsTyped
<1>5. Restored(row, z) \in {row, [row EXCEPT !.next = NextRun(row.period, z, now)]}
  BY DEF Restored
<1>6. Restored(row, z) \in Record /\ Restored(row, z).owner = row.owner
      /\ Restored(row, z).period = row.period
  BY <1>1, <1>4, <1>5 DEF Record
<1> QED
  BY <1>6 DEF row

\* What a start that failed leaves in the table.
LEMMA HydrateLeaves ==
  ASSUME Typed, HydrateFails
  PROVE  /\ table' \in [Ids -> Record \cup {None}]
         /\ \A id \in Ids : /\ Exists(table'[id]) <=> Exists(table[id])
                            /\ Exists(table[id]) => /\ table'[id].owner = table[id].owner
                                                    /\ table'[id].period = table[id].period
<1>1. PICK z \in Zones, done \in SUBSET Ids :
        table' = [id \in Ids |-> IF id \in done THEN Restored(table[id], z) ELSE table[id]]
  BY DEF HydrateFails
<1>2. \A id \in Ids : table'[id] = Restored(table[id], z) \/ table'[id] = table[id]
  BY <1>1
<1>3. ASSUME NEW id \in Ids, Exists(table[id])
      PROVE  /\ table'[id] \in Record /\ Exists(table'[id])
             /\ table'[id].owner = table[id].owner /\ table'[id].period = table[id].period
  <2>1. table[id] \in Record
    BY <1>3 DEF Typed, Exists
  <2>2. table'[id] \in Record
        /\ table'[id].owner = table[id].owner /\ table'[id].period = table[id].period
    BY <1>2, <1>3, <2>1, RestoredTyped
  <2> QED
    BY <2>2, JobShape
<1>4. ASSUME NEW id \in Ids, ~Exists(table[id]) PROVE table'[id] = None
  BY <1>2, <1>4 DEF Restored, Exists
<1>5. table' = [id \in Ids |-> table'[id]]
  BY <1>1
<1> QED
  BY <1>3, <1>4, <1>5 DEF Exists

\* What Hydrate reads.
LEMMA HydrateLoads ==
  ASSUME Typed, Hydrate
  PROVE  LET rows == {id \in Ids : Exists(table[id])}
         IN  /\ Cardinality(rows) \in 0..MaxRevision /\ revision' = Cardinality(rows)
             /\ zone' \in Zones
             /\ \A id \in Ids : /\ table'[id] \in Record \cup {None}
                                /\ Exists(table'[id]) <=> id \in rows
                                /\ id \in rows => /\ table'[id].owner = table[id].owner
                                                  /\ table'[id].period = table[id].period
             /\ table' \in [Ids -> Record \cup {None}]
             /\ jobs' \in [Ids -> Job \cup {None}]
             /\ \A id \in Ids : /\ Exists(jobs'[id]) <=> id \in rows
                                /\ id \in rows => /\ jobs'[id].revision \in 1..revision'
                                                  /\ Row(jobs'[id]) = table'[id]
             /\ \A i, k \in rows : i # k => jobs'[i].revision # jobs'[k].revision
<1> DEFINE rows == {id \in Ids : Exists(table[id])}
<1>1. PICK z \in Zones :
        /\ table' = [id \in Ids |-> Restored(table[id], z)]
        /\ \E order \in Bijection(rows, 1..Cardinality(rows)) :
             jobs' = [id \in Ids |-> IF id \in rows THEN Loaded(table'[id], order[id]) ELSE None]
        /\ revision' = Cardinality(rows)
        /\ zone' = z
  BY DEF Hydrate
<1>2. Cardinality(rows) \in 0..MaxRevision
  <2>1. rows \subseteq Ids /\ IsFiniteSet(Ids) /\ Cardinality(Ids) <= MaxRevision
    BY SchedulerAssumption DEF SchedulerAssumption
  <2>2. IsFiniteSet(rows) /\ Cardinality(rows) <= Cardinality(Ids)
    BY <2>1, FS_Subset
  <2>3. Cardinality(rows) \in Nat /\ Cardinality(Ids) \in Nat /\ MaxRevision \in Nat
    BY <2>1, <2>2, FS_CardinalityType, SchedulerAssumption DEF SchedulerAssumption
  <2> QED
    BY <2>1, <2>2, <2>3
<1>3. PICK order \in Bijection(rows, 1..Cardinality(rows)) :
        jobs' = [id \in Ids |-> IF id \in rows THEN Loaded(table'[id], order[id]) ELSE None]
  BY <1>1
<1>4. /\ \A id \in rows : order[id] \in 1..Cardinality(rows)
      /\ \A i, k \in rows : i # k => order[i] # order[k]
  BY DEF Bijection, Injection, Surjection, IsInjective
<1>5. \A id \in rows : /\ Restored(table[id], z) \in Record
                       /\ Restored(table[id], z).owner = table[id].owner
                       /\ Restored(table[id], z).period = table[id].period
  BY RestoredTyped
<1>6. \A id \in Ids \ rows : Restored(table[id], z) = None
  BY DEF Restored, Exists
<1>7. /\ \A id \in Ids : /\ table'[id] \in Record \cup {None}
                         /\ Exists(table'[id]) <=> id \in rows
                         /\ id \in rows => /\ table'[id] \in Record
                                           /\ table'[id].owner = table[id].owner
                                           /\ table'[id].period = table[id].period
      /\ table' \in [Ids -> Record \cup {None}]
  <2>1. \A id \in Ids : table'[id] = Restored(table[id], z)
    BY <1>1
  <2>2. \A id \in Ids \ rows : table'[id] = None
    BY <1>6, <2>1
  <2>3. \A id \in rows : table'[id] \in Record /\ Exists(table'[id])
                         /\ table'[id].owner = table[id].owner
                         /\ table'[id].period = table[id].period
    BY <1>5, <2>1, JobShape
  <2>4. DOMAIN table' = Ids /\ table' = [id \in Ids |-> table'[id]]
    BY <1>1
  <2> HIDE DEF rows
  <2>5. rows \subseteq Ids
    BY DEF rows
  <2>6. \A id \in Ids : id \in rows \/ table'[id] = None
    BY <2>2
  <2> QED
    BY <2>3, <2>4, <2>5, <2>6 DEF Exists
<1>8. \A id \in rows : /\ jobs'[id] \in Job
                       /\ jobs'[id].revision = order[id] /\ Row(jobs'[id]) = table'[id]
  <2> SUFFICES ASSUME NEW id \in rows
               PROVE  /\ jobs'[id] \in Job
                      /\ jobs'[id].revision = order[id] /\ Row(jobs'[id]) = table'[id]
    OBVIOUS
  <2>1. jobs'[id] = Loaded(table'[id], order[id]) /\ table'[id] \in Record
    BY <1>3, <1>7
  <2>2. order[id] \in Nat
    BY <1>4
  <2> QED
    BY <2>1, <2>2 DEF Loaded, Row, Job, Record
<1>9. \A id \in Ids \ rows : jobs'[id] = None
  BY <1>3
<1>10. DOMAIN jobs' = Ids /\ jobs' = [id \in Ids |-> jobs'[id]]
  BY <1>3
<1>11. /\ \A id \in Ids : Exists(jobs'[id]) <=> id \in rows
       /\ jobs' \in [Ids -> Job \cup {None}]
  <2>1. \A id \in Ids : id \in rows \/ jobs'[id] = None
    BY <1>9
  <2>2. \A id \in rows : Exists(jobs'[id]) /\ jobs'[id] \in Job
    BY <1>8, JobShape
  <2> HIDE DEF rows
  <2> QED
    BY <1>10, <2>1, <2>2 DEF Exists
<1> QED
  BY <1>1, <1>2, <1>4, <1>7, <1>8, <1>11

-----------------------------------------------------------------------------
LEMMA TypedStep ==
  ASSUME Typed, Revisions, Next
  PROVE  Typed'
<1> USE SchedulerAssumption DEF SchedulerAssumption
<1>1. ASSUME NEW p \in Plugins, NEW id \in Ids, NEW x \in Periods, UpsertSave(p, id, x)
      PROVE  Typed'
  <2>1. NewJob(p, id, x) \in Job
    BY <1>1, NewJobTyped DEF UpsertSave
  <2>2. mutation' \in Mutations
    BY <1>1, <2>1 DEF UpsertSave, Mutations
  <2>3. table' \in [Ids -> Record \cup {None}]
    BY <1>1, <2>1, SavedTyped DEF UpsertSave
  <2>4. revision' \in 0..MaxRevision /\ removed' \subseteq Ids
        /\ saved' \in [Ids -> Periods \cup {0}]
    BY <1>1 DEF UpsertSave, Typed
  <2> QED
    BY <1>1, <2>2, <2>3, <2>4 DEF UpsertSave, Typed
<1>2. CASE UpsertFails
  BY <1>2 DEF UpsertFails, Typed
<1>3. ASSUME NEW p \in Plugins, UnregisterRows(p) PROVE Typed'
  <2>1. mutation' \in Mutations
    BY <1>3 DEF UnregisterRows, Mutations, Owned
  <2>2. table' \in [Ids -> Record \cup {None}] /\ saved' \in [Ids -> Periods \cup {0}]
    BY <1>3 DEF UnregisterRows, Typed
  <2> QED
    BY <1>3, <2>1, <2>2 DEF UnregisterRows, Typed
<1>4. ASSUME NEW p \in Plugins, NEW id \in Ids, DeleteRow(p, id) PROVE Typed'
  <2>1. mutation' \in Mutations
    BY <1>4 DEF DeleteRow, Mutations
  <2>2. table' \in [Ids -> Record \cup {None}] /\ saved' \in [Ids -> Periods \cup {0}]
    BY <1>4 DEF DeleteRow, Typed
  <2> QED
    BY <1>4, <2>1, <2>2 DEF DeleteRow, Typed
<1>5. CASE UpsertPublish
  <2>1. mutation.id \in Ids /\ mutation.job \in Job /\ mutation.job.period \in Periods
    BY <1>5, MutationShape, JobShape DEF UpsertPublish, Typed
  <2>2. jobs' \in [Ids -> Job \cup {None}] /\ saved' \in [Ids -> Periods \cup {0}]
    BY <1>5, <2>1 DEF UpsertPublish, Typed
  <2> QED
    BY <1>5, <2>2 DEF UpsertPublish, Typed
<1>6. CASE RemovePublish
  <2>1. mutation.ids \subseteq Ids /\ revision < MaxRevision
    BY <1>6, MutationShape DEF RemovePublish, Typed, Revisions
  <2>2. jobs' \in [Ids -> Job \cup {None}] /\ removed' \subseteq Ids /\ revision' \in 0..MaxRevision
    BY <1>6, <2>1 DEF RemovePublish, Typed
  <2> QED
    BY <1>6, <2>2 DEF RemovePublish, Typed
<1>7. CASE RecordPublish
  <2>1. mutation.id \in Ids /\ mutation.job \in Job
    BY <1>7, MutationShape DEF RecordPublish, Typed
  <2>2. jobs' \in [Ids -> Job \cup {None}]
    BY <1>7, <2>1 DEF RecordPublish, Typed
  <2> QED
    BY <1>7, <2>2 DEF RecordPublish, Typed
<1>8. CASE SaveSchedule
  <2>1. mutation.id \in Ids /\ mutation.next \in Nat
    BY <1>8, MutationShape DEF SaveSchedule, Typed
  <2>2. table' \in [Ids -> Record \cup {None}]
    <3>1. CASE UNCHANGED table
      BY <3>1 DEF Typed
    <3>2. CASE ScheduleRow
      <4>1. (IF Exists(table[mutation.id]) THEN [table[mutation.id] EXCEPT !.next = mutation.next]
             ELSE table[mutation.id]) \in Record \cup {None}
        BY <2>1, RowsTyped DEF Typed, Exists
      <4> QED
        BY <2>1, <3>2, <4>1 DEF ScheduleRow, Typed
    <3> QED
      BY <1>8, <3>1, <3>2 DEF SaveSchedule
  <2>3. loop' \in Loops
    BY <1>8, LoopShape DEF SaveSchedule, Typed, Revisions, Loops
  <2> QED
    BY <1>8, <2>2, <2>3 DEF SaveSchedule, Typed
<1>9. ASSUME NEW id \in Ids, NEW r \in 1..MaxRevision, Result(id, r) PROVE Typed'
  <2>1. runs' \in [Ids -> [1..MaxRevision -> Nat]]
    <3>1. runs[id] \in [1..MaxRevision -> Nat] /\ runs[id][r] \in Nat /\ runs[id][r] > 0
      BY <1>9 DEF Result, ResultDropped, RecordRow, Typed
    <3>2. runs' = [runs EXCEPT ![id][r] = @ - 1]
      BY <1>9 DEF Result, ResultDropped, RecordRow
    <3>3. [runs[id] EXCEPT ![r] = @ - 1] \in [1..MaxRevision -> Nat]
      BY <3>1
    <3> QED
      BY <3>2, <3>3 DEF Typed
  <2>2. CASE ResultDropped(id, r)
    BY <2>1, <2>2 DEF ResultDropped, Typed
  <2>3. CASE RecordRow(id, r)
    <3>1. jobs[id] \in Job
      BY <2>3 DEF RecordRow, Current, Exists, Typed
    <3>2. mutation' \in Mutations
      BY <2>3, <3>1, RowsTyped DEF RecordRow, Mutations
    <3>3. table' \in [Ids -> Record \cup {None}]
      <4>1. (IF Exists(table[id]) THEN Counted(table[id]) ELSE table[id])
              \in Record \cup {None}
        BY RowsTyped DEF Typed, Exists
      <4> QED
        BY <2>3, <4>1 DEF RecordRow, Typed
    <3> QED
      BY <2>1, <2>3, <3>2, <3>3 DEF RecordRow, Typed
  <2> QED
    BY <1>9, <2>2, <2>3 DEF Result
<1>10. ASSUME NEW id \in Ids, NEW r, Start(id, r) PROVE runs' \in [Ids -> [1..MaxRevision -> Nat]]
  <2>1. runs' \in {runs, [runs EXCEPT ![id] = [runs[id] EXCEPT ![r] = @ + 1]]}
    BY <1>10 DEF Start
  <2>2. [runs[id] EXCEPT ![r] = @ + 1] \in [1..MaxRevision -> Nat]
    <3>1. runs[id] \in [1..MaxRevision -> Nat]
      BY DEF Typed
    <3>2. CASE r \in 1..MaxRevision
      BY <3>1, <3>2
    <3>3. CASE r \notin 1..MaxRevision
      BY <3>1, <3>3
    <3> QED
      BY <3>2, <3>3
  <2> QED
    BY <2>1, <2>2 DEF Typed
<1>11. ASSUME NEW id \in Ids, Trigger(id) PROVE Typed'
  BY <1>10, <1>11 DEF Trigger, Typed
<1>12. CASE Tick
  <2>1. loop' \in Loops
    <3>1. \A id \in Ids : Due(id) => jobs[id] \in Job
      BY DEF Due, Exists, Typed
    <3>2. {[id |-> id, job |-> jobs[id]] : id \in {i \in Ids : Due(i)}} \subseteq DueJob
      BY <3>1 DEF DueJob
    <3> QED
      BY <1>12, <3>2 DEF Tick, Loops, Typed
  <2> QED
    BY <1>12, <2>1 DEF Tick, Typed
<1>13. CASE FireDue
  <2>1. PICK d \in loop.due : Fire(d) /\ loop.at = "tick"
    BY <1>13 DEF FireDue
  <2>2. d \in DueJob /\ d.id \in Ids /\ loop.clock \in Nat /\ loop.due \subseteq DueJob
    BY <2>1, LoopShape DEF Typed, DueJob
  <2>3. loop' \in Loops
    BY <2>1, <2>2 DEF Fire, Loops
  <2>4. runs' \in [Ids -> [1..MaxRevision -> Nat]]
    BY <1>10, <2>1, <2>2 DEF Fire
  <2> QED
    BY <2>1, <2>3, <2>4 DEF Fire, Typed
<1>14. CASE AdvanceChanged \/ AdvanceFails
  BY <1>14, LoopShape DEF AdvanceChanged, AdvanceFails, Typed, Loops
<1>15. CASE Advance
  <2>1. /\ loop.one.id \in Ids /\ Advanced(loop.one) \in Job /\ Advanced(loop.one).next \in Nat
    BY <1>15, AdvancedTyped, JobShape DEF Advance
  <2>2. jobs' \in [Ids -> Job \cup {None}] /\ mutation' \in Mutations
    BY <1>15, <2>1 DEF Advance, Mutations, Typed
  <2> QED
    BY <1>15, <2>2 DEF Advance, Typed
<1>16. CASE TickDone \/ LoopExit
  BY <1>16 DEF TickDone, LoopExit, Typed, Loops
<1>17. CASE Time \/ Stop
  <2>1. now' \in 0..MaxTime /\ stopped' \in BOOLEAN
    <3>1. CASE Time
      <4>1. now \in 0..MaxTime /\ now < MaxTime /\ now' = now + 1 /\ MaxTime \in Nat
        BY <3>1 DEF Time, Typed
      <4>2. now' \in 0..MaxTime
        BY <4>1
      <4> QED
        BY <3>1, <4>2 DEF Time, Typed
    <3>2. CASE Stop
      BY <3>2 DEF Stop, Typed
    <3> QED
      BY <1>17, <3>1, <3>2
  <2> QED
    BY <1>17, <2>1 DEF Time, Stop, Typed
<1>18. CASE Exit
  <2>1. loop' \in Loops /\ stops' \in 0..MaxStops /\ revision' \in 0..MaxRevision
    BY <1>18 DEF Exit, Typed, Loops
  <2>2. jobs' \in [Ids -> Job \cup {None}] /\ runs' \in [Ids -> [1..MaxRevision -> Nat]]
    BY <1>18 DEF Exit
  <2> QED
    BY <1>18, <2>1, <2>2 DEF Exit, Typed
<1>19. CASE Hydrate
  BY <1>19, HydrateLoads DEF Hydrate, Typed, Loops
<1>20. CASE HydrateFails
  BY <1>20, HydrateLeaves DEF HydrateFails, Typed, Loops
<1> QED
  BY <1>1, <1>2, <1>3, <1>4, <1>5, <1>6, <1>7, <1>8, <1>9, <1>11, <1>12, <1>13, <1>14, <1>15,
     <1>16, <1>17, <1>18, <1>19, <1>20
  DEF Next, Publish, LoopStep

-----------------------------------------------------------------------------
(* Revisions, copies and what fired. *)

\* The counter of revisions and what was given out are numbers.
LEMMA IssuedTyped ==
  ASSUME Typed, Revisions
  PROVE  revision \in Nat /\ Issued \in Nat /\ Issued <= revision
  BY SchedulerAssumption DEF SchedulerAssumption, Typed, Revisions, Issued

\* A step of a mutation: the loop stays, and a job with a revision that was
\* given out before keeps its schedule and its time or is gone.
LEMMA LoopKeeps ==
  ASSUME Typed, CopiesSound, FiredBehind, UNCHANGED <<loop, fired, zone>>,
         Issued \in Nat, Issued' \in Nat, Issued <= Issued',
         mutation'.kind = "schedule" <=> mutation.kind = "schedule",
         \A id \in Ids, r \in 0..Issued :
           Current(id, r)' => /\ Current(id, r) /\ jobs'[id].next = jobs[id].next
                              /\ jobs'[id].period = jobs[id].period
  PROVE  CopiesSound' /\ FiredBehind'
<1>1. Copies' = Copies /\ Firing' = Firing
  BY DEF Copies, Firing
<1>2. \A d \in Copies : d.id \in Ids /\ d.job.revision \in Nat
  BY LoopShape, JobShape DEF Typed, Copies, Firing, DueJob
<1>3. CopiesSound'
  <2>1. ASSUME NEW d \in Copies
        PROVE  /\ d.job.revision <= Issued' /\ d.job.next <= loop'.clock
               /\ Current(d.id, d.job.revision)' =>
                    jobs'[d.id].next = d.job.next /\ jobs'[d.id].period = d.job.period
    <3>1. d.job.revision \in 0..Issued /\ d.job.next <= loop.clock /\ d.id \in Ids
      BY <1>2 DEF CopiesSound
    <3>2. Current(d.id, d.job.revision) =>
            jobs[d.id].next = d.job.next /\ jobs[d.id].period = d.job.period
      BY DEF CopiesSound
    <3>3. Current(d.id, d.job.revision)' =>
            /\ Current(d.id, d.job.revision) /\ jobs'[d.id].next = jobs[d.id].next
            /\ jobs'[d.id].period = jobs[d.id].period
      BY <3>1
    <3> QED
      BY <3>1, <3>2, <3>3
  <2> QED
    BY <1>1, <2>1 DEF CopiesSound
<1>4. FiredBehind'
  <2>1. ASSUME NEW f \in fired
        PROVE  /\ f[1] \in Ids /\ f[2] \in 0..Issued' /\ f[3] \in Nat
               /\ Current(f[1], f[2])' =>
                    \/ f[3] < jobs'[f[1]].next
                    \/ ~HasNext(jobs'[f[1]].period, zone, f[4])
                    \/ /\ Firing /\ f[1] = loop.one.id /\ f[2] = loop.one.job.revision
                       /\ f[3] <= loop.clock /\ f[4] = loop.clock
    <3>1. f[1] \in Ids /\ f[2] \in 0..Issued /\ f[3] \in Nat
      BY DEF FiredBehind
    <3>2. Current(f[1], f[2]) =>
            \/ f[3] < jobs[f[1]].next
            \/ ~HasNext(jobs[f[1]].period, zone, f[4])
            \/ /\ Firing /\ f[1] = loop.one.id /\ f[2] = loop.one.job.revision
               /\ f[3] <= loop.clock /\ f[4] = loop.clock
      BY DEF FiredBehind
    <3>3. Current(f[1], f[2])' => /\ Current(f[1], f[2]) /\ jobs'[f[1]].next = jobs[f[1]].next
                                  /\ jobs'[f[1]].period = jobs[f[1]].period
      BY <3>1
    <3> QED
      BY <3>1, <3>2, <3>3
  <2> QED
    BY <1>1, <2>1 DEF FiredBehind
<1> QED
  BY <1>3, <1>4

LEMMA MutationStep ==
  ASSUME FInv, Typed',
         \/ \E p \in Plugins, id \in Ids, x \in Periods : UpsertSave(p, id, x)
         \/ UpsertFails
         \/ \E p \in Plugins : UnregisterRows(p) \/ \E id \in Ids : DeleteRow(p, id)
         \/ UpsertPublish \/ RemovePublish
  PROVE  FInv'
<1>0. Typed /\ Revisions /\ CopiesSound /\ FiredBehind /\ Issued \in Nat /\ Issued <= revision
      /\ revision \in Nat /\ MaxRevision \in Nat
  BY IssuedTyped, SchedulerAssumption DEF FInv, SchedulerAssumption
<1>1. ASSUME NEW p \in Plugins, NEW id \in Ids, NEW x \in Periods, UpsertSave(p, id, x)
      PROVE  FInv'
  <2>1. /\ mutation.kind = "none" /\ mutation'.kind = "upsert"
        /\ mutation'.job.revision = revision + 1 /\ revision' = revision + 1
        /\ UNCHANGED <<jobs, loop, fired, zone>> /\ Up
    BY <1>1 DEF UpsertSave, NewJob, Free, None
  <2>2. Issued = revision /\ Issued' = revision
    BY <1>0, <2>1 DEF Issued
  <2>3. CopiesSound' /\ FiredBehind'
    BY <1>0, <2>1, <2>2, LoopKeeps DEF Current
  <2>4. Revisions'
    BY <1>0, <2>1, <2>2 DEF Revisions, Up
  <2> QED
    BY <2>3, <2>4 DEF FInv
<1>2. CASE UpsertFails
  <2>1. /\ mutation.kind = "none" /\ revision' = revision + 1
        /\ UNCHANGED <<jobs, loop, fired, mutation, zone>> /\ Up
    BY <1>2 DEF UpsertFails, Free, None
  <2>2. Issued = revision /\ Issued' = revision + 1
    BY <1>0, <2>1 DEF Issued
  <2>3. CopiesSound' /\ FiredBehind'
    BY <1>0, <2>1, <2>2, LoopKeeps DEF Current
  <2>4. Revisions'
    <3>1. \A id \in Ids : Exists(jobs'[id]) => jobs'[id].revision \in 1..Issued'
      BY <1>0, <2>1, <2>2 DEF Revisions
    <3> QED
      BY <1>0, <2>1, <2>2, <3>1 DEF Revisions, Up
  <2> QED
    BY <2>3, <2>4 DEF FInv
<1>3. ASSUME NEW p \in Plugins, UnregisterRows(p) \/ \E id \in Ids : DeleteRow(p, id)
      PROVE  FInv'
  <2>1. /\ mutation.kind = "none" /\ mutation'.kind = "remove" /\ revision < MaxRevision
        /\ UNCHANGED <<jobs, loop, fired, revision, zone>> /\ Up
    BY <1>3 DEF UnregisterRows, DeleteRow, Free, None
  <2>2. Issued = revision /\ Issued' = revision
    BY <1>0, <2>1 DEF Issued
  <2>3. CopiesSound' /\ FiredBehind'
    BY <1>0, <2>1, <2>2, LoopKeeps DEF Current
  <2>4. Revisions'
    BY <1>0, <2>1, <2>2 DEF Revisions, Up
  <2> QED
    BY <2>3, <2>4 DEF FInv
<1>4. CASE UpsertPublish
  <2>1. /\ mutation.kind = "upsert" /\ mutation'.kind = "none" /\ mutation.job.revision = revision
        /\ mutation.id \in Ids /\ mutation.job \in Job /\ Exists(mutation.job)
        /\ UNCHANGED <<loop, fired, revision, zone>> /\ Up /\ revision # 0
    BY <1>0, <1>4, MutationShape, JobShape DEF UpsertPublish, None, Typed, Revisions
  <2>2. Issued = revision - 1 /\ Issued' = revision
    BY <1>0, <2>1 DEF Issued
  <2>3. /\ jobs'[mutation.id] = mutation.job
        /\ \A id \in Ids : id # mutation.id => jobs'[id] = jobs[id]
    BY <1>0, <1>4, <2>1 DEF UpsertPublish, Typed
  <2>4. \A id \in Ids, r \in 0..Issued :
          Current(id, r)' => /\ Current(id, r) /\ jobs'[id].next = jobs[id].next
                             /\ jobs'[id].period = jobs[id].period
    BY <1>0, <2>1, <2>2, <2>3 DEF Current
  <2>5. CopiesSound' /\ FiredBehind'
    BY <1>0, <2>1, <2>2, <2>4, LoopKeeps
  <2>6. /\ \A id \in Ids : Exists(jobs'[id]) => jobs'[id].revision \in 1..revision
        /\ \A id \in Ids : Exists(jobs'[id]) /\ id # mutation.id => jobs'[id].revision # revision
    BY <1>0, <2>1, <2>2, <2>3 DEF Revisions
  <2>7. Revisions'
    BY <1>0, <2>1, <2>2, <2>3, <2>6 DEF Revisions, Up
  <2> QED
    BY <2>5, <2>7 DEF FInv
<1>5. CASE RemovePublish
  <2>1. /\ mutation.kind = "remove" /\ mutation'.kind = "none"
        /\ UNCHANGED <<loop, fired, zone>> /\ Up /\ revision' \in {revision, revision + 1}
    BY <1>0, <1>5 DEF RemovePublish, None, Revisions
  <2>2. Issued = revision /\ Issued' = revision'
    BY <1>0, <2>1 DEF Issued
  <2>3. \A id \in Ids : jobs'[id] = jobs[id] \/ ~Exists(jobs'[id])
    BY <1>5 DEF RemovePublish, Exists
  <2>4. \A id \in Ids, r \in 0..Issued :
          Current(id, r)' => /\ Current(id, r) /\ jobs'[id].next = jobs[id].next
                             /\ jobs'[id].period = jobs[id].period
    BY <2>3 DEF Current
  <2>5. CopiesSound' /\ FiredBehind'
    BY <1>0, <2>1, <2>2, <2>4, LoopKeeps
  <2>6. \A id \in Ids : Exists(jobs'[id]) => jobs'[id].revision \in 1..Issued'
    BY <1>0, <2>1, <2>2, <2>3 DEF Revisions
  <2>7. Revisions'
    BY <1>0, <2>1, <2>2, <2>3, <2>6 DEF Revisions, Up
  <2> QED
    BY <2>5, <2>7 DEF FInv
<1> QED
  BY <1>1, <1>2, <1>3, <1>4, <1>5

LEMMA ResultStep ==
  ASSUME FInv, Typed',
         \/ \E id \in Ids : Trigger(id) \/ \E r \in 1..MaxRevision : Result(id, r)
         \/ RecordPublish \/ Time \/ Stop \/ UNCHANGED vars
  PROVE  FInv'
<1>0. Typed /\ Revisions /\ CopiesSound /\ FiredBehind /\ Issued \in Nat /\ revision \in Nat
  BY IssuedTyped DEF FInv
<1>1. ASSUME UNCHANGED <<jobs, loop, fired, mutation, revision, zone>> PROVE FInv'
  <2>1. CopiesSound' /\ FiredBehind'
    BY <1>0, <1>1 DEF CopiesSound, FiredBehind, Copies, Firing, Issued, Current
  <2>2. Revisions'
    BY <1>0, <1>1 DEF Revisions, Issued, Up
  <2> QED
    BY <2>1, <2>2 DEF FInv
<1>2. ASSUME NEW id \in Ids, NEW r \in 1..MaxRevision, RecordRow(id, r) PROVE FInv'
  <2>1. /\ mutation.kind = "none" /\ mutation'.kind = "record" /\ mutation'.id = id
        /\ Exists(jobs[id]) /\ mutation'.job = Counted(jobs[id])
        /\ UNCHANGED <<jobs, loop, fired, revision, zone>> /\ Up
    BY <1>2 DEF RecordRow, Current, Free, None
  <2>2. Issued' = Issued
    BY <2>1 DEF Issued
  <2>3. CopiesSound' /\ FiredBehind'
    BY <1>0, <2>1, <2>2, LoopKeeps DEF Current
  <2>4. Revisions'
    BY <1>0, <2>1, <2>2 DEF Revisions, Up
  <2> QED
    BY <2>3, <2>4 DEF FInv
<1>3. CASE RecordPublish
  <2>1. /\ mutation.kind = "record" /\ mutation'.kind = "none"
        /\ mutation.id \in Ids /\ Exists(jobs[mutation.id]) /\ mutation.job \in Job
        /\ mutation.job = Counted(jobs[mutation.id]) /\ jobs[mutation.id] \in Job
        /\ UNCHANGED <<loop, fired, revision, zone>> /\ Up
    BY <1>0, <1>3, MutationShape DEF RecordPublish, None, Typed, Revisions, Exists
  <2>2. Issued' = Issued
    BY <2>1 DEF Issued
  <2>3. /\ jobs'[mutation.id] = mutation.job
        /\ \A id \in Ids : id # mutation.id => jobs'[id] = jobs[id]
    BY <1>0, <1>3, <2>1 DEF RecordPublish, Typed
  <2>4. /\ Exists(mutation.job)
        /\ mutation.job.revision = jobs[mutation.id].revision
        /\ mutation.job.next = jobs[mutation.id].next
        /\ mutation.job.period = jobs[mutation.id].period
    BY <2>1, JobShape DEF Counted, Job
  <2>5. \A id \in Ids : /\ Exists(jobs'[id]) <=> Exists(jobs[id])
                        /\ Exists(jobs[id]) => /\ jobs'[id].revision = jobs[id].revision
                                               /\ jobs'[id].next = jobs[id].next
                                               /\ jobs'[id].period = jobs[id].period
    BY <2>1, <2>3, <2>4
  <2>6. CopiesSound' /\ FiredBehind'
    BY <1>0, <2>1, <2>2, <2>5, LoopKeeps DEF Current
  <2>7. Revisions'
    BY <1>0, <2>1, <2>2, <2>5 DEF Revisions, Up
  <2> QED
    BY <2>6, <2>7 DEF FInv
<1> QED
  BY <1>1, <1>2, <1>3 DEF Result, ResultDropped, Trigger, Time, Stop, vars

LEMMA LoopStepKeeps ==
  ASSUME FInv, Typed', LoopStep \/ SaveSchedule
  PROVE  FInv'
<1>0. /\ Typed /\ Revisions /\ CopiesSound /\ FiredBehind /\ Issued \in Nat /\ revision \in Nat
      /\ now \in Nat
  BY IssuedTyped, SchedulerAssumption DEF FInv, SchedulerAssumption, Typed
<1>1. CASE Tick
  <2>1. /\ loop.at = "idle" /\ loop'.at = "tick" /\ loop'.clock = now
        /\ UNCHANGED <<jobs, fired, mutation, revision, zone>> /\ Up /\ Up'
        /\ \A d \in loop'.due : /\ d.id \in Ids /\ Due(d.id) /\ d.job = jobs[d.id]
                                /\ d = [id |-> d.id, job |-> jobs[d.id]]
    BY <1>1 DEF Tick, Idle, Down, Up
  <2>2. Copies' = loop'.due /\ Issued' = Issued /\ ~Firing /\ ~Firing'
    BY <2>1 DEF Copies, Firing, Issued
  <2>3. mutation.kind # "schedule"
    BY <1>0, <2>1 DEF Revisions
  <2>4. ASSUME NEW d \in loop'.due
        PROVE  /\ d.job.revision \in 1..Issued /\ d.job.next <= now
               /\ Current(d.id, d.job.revision)
               /\ jobs[d.id].next = d.job.next /\ jobs[d.id].period = d.job.period
               /\ \A f \in fired :
                    f[1] = d.id /\ f[2] = d.job.revision /\ f[3] = d.job.next =>
                      ~HasNext(d.job.period, zone, f[4])
    <3>1. d.id \in Ids /\ Exists(jobs[d.id]) /\ jobs[d.id].next <= now /\ d.job = jobs[d.id]
          /\ jobs[d.id] \in Job
      BY <1>0, <2>1 DEF Due, Typed, Exists
    <3>2. Current(d.id, d.job.revision)
      BY <3>1 DEF Current
    <3>3. d.job.next \in Nat
      BY <3>1, JobShape
    <3>4. ASSUME NEW f \in fired, f[1] = d.id, f[2] = d.job.revision, f[3] = d.job.next
          PROVE  ~HasNext(d.job.period, zone, f[4])
      <4>1. f[3] < jobs[f[1]].next \/ ~HasNext(jobs[f[1]].period, zone, f[4])
        BY <1>0, <2>2, <3>2, <3>4 DEF FiredBehind
      <4> QED
        BY <3>1, <3>3, <3>4, <4>1
    <3> QED
      BY <1>0, <3>1, <3>2, <3>4 DEF Revisions
  <2>5. CopiesSound'
    <3>1. \A d, e \in loop'.due : d.id = e.id => d = e
      BY <2>1
    <3>2. \A d \in Copies' : /\ d.job.revision <= Issued' /\ d.job.next <= loop'.clock
                             /\ Current(d.id, d.job.revision)' =>
                                  /\ jobs'[d.id].next = d.job.next
                                  /\ jobs'[d.id].period = d.job.period
      <4> SUFFICES ASSUME NEW d \in loop'.due
                   PROVE  /\ d.job.revision <= Issued' /\ d.job.next <= loop'.clock
                          /\ jobs'[d.id].next = d.job.next /\ jobs'[d.id].period = d.job.period
        BY <2>2
      <4>1. /\ d.job.revision \in 1..Issued /\ d.job.next <= now
            /\ jobs[d.id].next = d.job.next /\ jobs[d.id].period = d.job.period
        BY <2>4
      <4>2. jobs' = jobs /\ Issued' = Issued /\ loop'.clock = now
        BY <2>1, <2>2
      <4> QED
        BY <1>0, <4>1, <4>2
    <3> QED
      BY <2>1, <3>1, <3>2 DEF CopiesSound
  <2>6. FiredBehind'
    <3>1. \A f \in fired : Current(f[1], f[2])' =>
            f[3] < jobs'[f[1]].next \/ ~HasNext(jobs'[f[1]].period, zone', f[4])
      BY <1>0, <2>1, <2>2 DEF FiredBehind, Current
    <3>2. \A f \in fired : f[1] \in Ids /\ f[2] \in 0..Issued' /\ f[3] \in Nat
      BY <1>0, <2>2 DEF FiredBehind
    <3> QED
      BY <2>1, <2>4, <3>1, <3>2 DEF FiredBehind
  <2>7. Revisions'
    BY <1>0, <2>1, <2>2, <2>3 DEF Revisions
  <2> QED
    BY <2>5, <2>6, <2>7 DEF FInv
<1>2. CASE FireDue
  <2>1. PICK d \in loop.due : Fire(d) /\ loop.at = "tick"
    BY <1>2 DEF FireDue
  <2>2. /\ loop'.at = "fired" /\ loop'.clock = loop.clock /\ loop'.due = loop.due \ {d}
        /\ loop'.one = d
        /\ UNCHANGED <<jobs, mutation, revision, zone>> /\ Up /\ Up'
        /\ fired' = fired \cup {<<d.id, d.job.revision, d.job.next, loop.clock>>}
    BY <2>1 DEF Fire, Up, Down
  <2>3. mutation.kind # "schedule"
    BY <1>0, <2>1 DEF Revisions
  <2>4. Copies = loop.due /\ Copies' = loop.due /\ Issued' = Issued /\ ~Firing /\ Firing'
    BY <2>1, <2>2, <2>3 DEF Copies, Firing, Issued
  <2>5. CopiesSound'
    <3>1. \A e, g \in loop.due : e.id = g.id => e = g
      BY <1>0, <2>1 DEF CopiesSound
    <3> QED
      BY <1>0, <2>1, <2>2, <2>4, <3>1 DEF CopiesSound, Current
  <2>6. /\ d.id \in Ids /\ d.job.revision \in 0..Issued /\ d.job.next \in Nat
        /\ d.job.next <= loop.clock
    <3>1. d \in DueJob
      BY <1>0, <2>1, LoopShape DEF Typed
    <3>2. d.id \in Ids /\ d.job \in Job
      BY <3>1 DEF DueJob
    <3>3. d.job.revision <= Issued /\ d.job.next <= loop.clock
      BY <1>0, <2>4 DEF CopiesSound
    <3> QED
      BY <1>0, <3>2, <3>3, JobShape
  <2> DEFINE g == <<d.id, d.job.revision, d.job.next, loop.clock>>
  <2>7. /\ g[1] = d.id /\ g[2] = d.job.revision /\ g[3] = d.job.next /\ g[4] = loop.clock
        /\ fired' = fired \cup {g}
    BY <2>2
  <2> HIDE DEF g
  <2>8. \A f \in fired' : f[1] \in Ids /\ f[2] \in 0..Issued' /\ f[3] \in Nat
    BY <1>0, <2>4, <2>6, <2>7 DEF FiredBehind
  <2>9. \A f \in fired' : Current(f[1], f[2])' =>
          \/ f[3] < jobs'[f[1]].next
          \/ ~HasNext(jobs'[f[1]].period, zone', f[4])
          \/ /\ Firing' /\ f[1] = loop'.one.id /\ f[2] = loop'.one.job.revision
             /\ f[3] <= loop'.clock /\ f[4] = loop'.clock
    <3>1. ASSUME NEW f \in fired, Current(f[1], f[2])'
          PROVE  f[3] < jobs'[f[1]].next \/ ~HasNext(jobs'[f[1]].period, zone', f[4])
      BY <1>0, <2>2, <2>4, <3>1 DEF FiredBehind, Current
    <3> QED
      BY <2>2, <2>4, <2>6, <2>7, <3>1
  <2>10. \A e \in loop'.due, f \in fired' :
           f[1] = e.id /\ f[2] = e.job.revision /\ f[3] = e.job.next =>
             ~HasNext(e.job.period, zone', f[4])
    <3> SUFFICES ASSUME NEW e \in loop.due, e # d, NEW f \in fired',
                        f[1] = e.id, f[2] = e.job.revision, f[3] = e.job.next
                 PROVE  ~HasNext(e.job.period, zone, f[4])
      BY <2>2
    <3>1. e.id # d.id
      BY <1>0, <2>1 DEF CopiesSound
    <3>2. f \in fired
      BY <2>7, <3>1
    <3> QED
      BY <1>0, <2>1, <3>2 DEF FiredBehind
  <2>11. Revisions'
    BY <1>0, <2>2, <2>3, <2>4 DEF Revisions
  <2> QED
    BY <2>5, <2>8, <2>9, <2>10, <2>11 DEF FInv, FiredBehind
<1>3. CASE AdvanceChanged
  <2>1. /\ loop.at = "fired" /\ ~Current(loop.one.id, loop.one.job.revision)
        /\ mutation.kind = "none" /\ loop'.at = "tick" /\ loop'.clock = loop.clock
        /\ loop'.due = loop.due
        /\ UNCHANGED <<jobs, fired, mutation, revision, zone>> /\ Up /\ Up'
    BY <1>3 DEF AdvanceChanged, Free, None, Up, Down
  <2>2. Copies' = loop.due /\ loop.due \subseteq Copies /\ Issued' = Issued /\ Firing /\ ~Firing'
    BY <2>1 DEF Copies, Firing, Issued
  <2>3. CopiesSound'
    BY <1>0, <2>1, <2>2 DEF CopiesSound, Current
  <2>4. FiredBehind'
    BY <1>0, <2>1, <2>2 DEF FiredBehind, Current
  <2>5. Revisions'
    BY <1>0, <2>1, <2>2 DEF Revisions
  <2> QED
    BY <2>3, <2>4, <2>5 DEF FInv
<1>7. CASE AdvanceFails
  <2>1. /\ loop.at = "fired" /\ mutation.kind # "schedule"
        /\ ~HasNext(loop.one.job.period, zone, loop.clock)
        /\ loop'.at = "tick" /\ loop'.clock = loop.clock /\ loop'.due = loop.due
        /\ UNCHANGED <<jobs, fired, mutation, revision, zone>> /\ Up /\ Up'
    BY <1>7 DEF AdvanceFails, Dated, Up, Down
  <2>2. /\ Copies = loop.due \cup {loop.one} /\ Copies' = loop.due
        /\ Issued' = Issued /\ Firing /\ ~Firing'
    BY <2>1 DEF Copies, Firing, Issued
  <2>3. CopiesSound'
    BY <1>0, <2>1, <2>2 DEF CopiesSound, Current
  <2>4. ASSUME NEW f \in fired, Current(f[1], f[2])'
        PROVE  f[3] < jobs'[f[1]].next \/ ~HasNext(jobs'[f[1]].period, zone', f[4])
    <3>1. Current(f[1], f[2])
      BY <2>1, <2>4 DEF Current
    <3>2. CASE f[1] = loop.one.id /\ f[2] = loop.one.job.revision /\ f[4] = loop.clock
      <4>1. jobs[f[1]].period = loop.one.job.period
        BY <1>0, <2>2, <3>1, <3>2 DEF CopiesSound
      <4> QED
        BY <2>1, <3>2, <4>1
    <3>3. \/ f[3] < jobs[f[1]].next \/ ~HasNext(jobs[f[1]].period, zone, f[4])
          \/ f[1] = loop.one.id /\ f[2] = loop.one.job.revision /\ f[4] = loop.clock
      BY <1>0, <3>1 DEF FiredBehind
    <3>4. jobs' = jobs /\ zone' = zone
      BY <2>1
    <3> QED
      BY <3>2, <3>3, <3>4
  <2>5. FiredBehind'
    BY <1>0, <2>1, <2>2, <2>4 DEF FiredBehind
  <2>6. Revisions'
    BY <1>0, <2>1, <2>2 DEF Revisions
  <2> QED
    BY <2>3, <2>5, <2>6 DEF FInv
<1>4. CASE Advance
  <2> DEFINE id == loop.one.id
  <2>1. /\ loop.at = "fired" /\ Current(id, loop.one.job.revision)
        /\ mutation.kind = "none" /\ mutation'.kind = "schedule" /\ mutation'.id = id
        /\ mutation'.next = Advanced(loop.one).next
        /\ UNCHANGED <<loop, fired, revision, zone>> /\ Up /\ Up'
        /\ jobs' = [jobs EXCEPT ![id] = Advanced(loop.one)]
    BY <1>4 DEF Advance, Free, None, Up, Down
  <2>2. PICK n \in Nat : n > loop.clock /\ Advanced(loop.one) = [jobs[id] EXCEPT !.next = n]
    BY <1>0, <2>1, AdvancedTyped
  <2>3. id \in Ids /\ jobs[id] \in Job /\ Advanced(loop.one) \in Job
    BY <1>0, <2>1, AdvancedTyped
  <2>4. /\ Exists(jobs[id]) /\ Exists(Advanced(loop.one))
        /\ Advanced(loop.one).revision = jobs[id].revision /\ Advanced(loop.one).next = n
        /\ Advanced(loop.one).period = jobs[id].period
    BY <2>2, <2>3, JobShape DEF Job
  <2> HIDE DEF id
  <2>5. /\ jobs'[id] = Advanced(loop.one)
        /\ \A i \in Ids : i # id => jobs'[i] = jobs[i]
    BY <1>0, <2>1, <2>3 DEF Typed
  <2>6. /\ Copies = loop.due \cup {loop.one} /\ Copies' = loop.due
        /\ Issued' = Issued /\ Firing /\ ~Firing'
    BY <2>1 DEF Copies, Firing, Issued
  <2>7. \A i \in Ids, r \in Nat : i # id => (Current(i, r)' <=> Current(i, r))
    BY <2>5 DEF Current
  <2>8. \A d \in loop.due : d \in DueJob /\ d.id \in Ids /\ d.id # id /\ d.job.revision \in Nat
    BY <1>0, <2>1, LoopShape, JobShape DEF CopiesSound, Typed, DueJob, id
  <2>9. CopiesSound'
    <3>1. ASSUME NEW d \in loop.due
          PROVE  /\ d.job.revision <= Issued' /\ d.job.next <= loop'.clock
                 /\ Current(d.id, d.job.revision)' =>
                      jobs'[d.id].next = d.job.next /\ jobs'[d.id].period = d.job.period
      BY <1>0, <2>1, <2>5, <2>6, <2>7, <2>8 DEF CopiesSound
    <3> QED
      BY <1>0, <2>1, <2>6, <3>1 DEF CopiesSound
  <2>10. loop.clock \in Nat
    BY <1>0, <2>1, LoopShape DEF Typed
  <2>11. FiredBehind'
    <3>1. ASSUME NEW f \in fired, Current(f[1], f[2])'
          PROVE  f[3] < jobs'[f[1]].next \/ ~HasNext(jobs'[f[1]].period, zone', f[4])
      <4>1. f[1] \in Ids /\ f[2] \in Nat /\ f[3] \in Nat
        BY <1>0 DEF FiredBehind
      <4>2. CASE f[1] # id
        <5>1. Current(f[1], f[2])
          BY <2>7, <3>1, <4>1, <4>2
        <5>2. f[3] < jobs[f[1]].next \/ ~HasNext(jobs[f[1]].period, zone, f[4])
          BY <1>0, <4>2, <5>1 DEF FiredBehind, id
        <5>3. jobs'[f[1]] = jobs[f[1]] /\ zone' = zone
          BY <2>1, <2>5, <4>1, <4>2
        <5> QED
          BY <5>2, <5>3
      <4>3. CASE f[1] = id
        <5>1. Current(f[1], f[2]) /\ f[2] = loop.one.job.revision
          BY <2>1, <2>4, <2>5, <3>1, <4>3 DEF Current
        <5>2. jobs[id].next = loop.one.job.next /\ loop.one.job.next <= loop.clock
          BY <1>0, <2>1, <2>6 DEF CopiesSound, id
        <5>3. jobs[id].next \in Nat
          BY <2>3, JobShape
        <5>4. \/ f[3] < jobs[f[1]].next \/ f[3] <= loop.clock
              \/ ~HasNext(jobs[f[1]].period, zone, f[4])
          BY <1>0, <5>1 DEF FiredBehind
        <5>5. f[3] <= loop.clock \/ ~HasNext(jobs[f[1]].period, zone, f[4])
          BY <2>10, <4>1, <4>3, <5>2, <5>3, <5>4
        <5>6. jobs'[f[1]].next = n /\ jobs'[f[1]].period = jobs[f[1]].period
          BY <2>4, <2>5, <4>3
        <5> QED
          BY <2>1, <2>2, <2>10, <4>1, <5>5, <5>6
      <4> QED
        BY <4>2, <4>3
    <3>2. \A f \in fired : f[1] \in Ids /\ f[2] \in 0..Issued' /\ f[3] \in Nat
      BY <1>0, <2>6 DEF FiredBehind
    <3> QED
      BY <1>0, <2>1, <3>1, <3>2 DEF FiredBehind
  <2>12. Revisions'
    <3>1. \A i \in Ids : /\ Exists(jobs'[i]) <=> Exists(jobs[i])
                         /\ Exists(jobs[i]) => jobs'[i].revision = jobs[i].revision
      BY <2>4, <2>5
    <3> QED
      BY <1>0, <2>1, <2>3, <2>4, <2>5, <2>6, <3>1 DEF Revisions
  <2> QED
    BY <2>9, <2>11, <2>12 DEF FInv
<1>5. CASE SaveSchedule
  <2>1. /\ mutation.kind = "schedule" /\ mutation'.kind = "none" /\ loop.at = "fired"
        /\ loop'.at = "tick" /\ loop'.clock = loop.clock /\ loop'.due = loop.due
        /\ UNCHANGED <<jobs, fired, revision, zone>> /\ Up /\ Up'
    BY <1>0, <1>5 DEF SaveSchedule, None, Revisions, Up, Down
  <2>2. Copies = loop.due /\ Copies' = loop.due /\ Issued' = Issued /\ ~Firing /\ ~Firing'
    BY <2>1 DEF Copies, Firing, Issued
  <2>3. CopiesSound'
    BY <1>0, <2>1, <2>2 DEF CopiesSound, Current
  <2>4. FiredBehind'
    BY <1>0, <2>1, <2>2 DEF FiredBehind, Current
  <2>5. Revisions'
    BY <1>0, <2>1, <2>2 DEF Revisions
  <2> QED
    BY <2>3, <2>4, <2>5 DEF FInv
<1>6. CASE TickDone \/ LoopExit
  <2>1. /\ loop'.at \in {"idle", "exited"} /\ UNCHANGED <<jobs, fired, mutation, revision, zone>>
        /\ Up /\ Up' /\ loop.at \in {"tick", "idle"}
    BY <1>6 DEF TickDone, LoopExit, Idle, Up, Down
  <2>2. Copies' = {} /\ Issued' = Issued /\ ~Firing
    BY <2>1 DEF Copies, Firing, Issued
  <2>3. CopiesSound' /\ FiredBehind'
    BY <1>0, <2>1, <2>2 DEF CopiesSound, FiredBehind, Current
  <2>4. Revisions'
    BY <1>0, <2>1, <2>2 DEF Revisions
  <2> QED
    BY <2>3, <2>4 DEF FInv
<1> QED
  BY <1>1, <1>2, <1>3, <1>4, <1>5, <1>6, <1>7 DEF LoopStep

LEMMA RestartKeeps ==
  ASSUME FInv, Typed', Exit \/ Hydrate \/ HydrateFails
  PROVE  FInv'
<1>0. Typed /\ Revisions
  BY DEF FInv
<1>1. CASE Exit
  <2>1. /\ loop' = Down /\ mutation' = None /\ fired' = {}
        /\ \A id \in Ids : ~Exists(jobs'[id])
    BY <1>1 DEF Exit, Exists
  <2>2. loop'.at = "down" /\ mutation'.kind = "none" /\ Copies' = {}
    BY <2>1 DEF Down, None, Copies
  <2>3. CopiesSound' /\ FiredBehind'
    BY <2>1, <2>2 DEF CopiesSound, FiredBehind
  <2>4. Revisions'
    BY <2>1, <2>2 DEF Revisions
  <2> QED
    BY <2>3, <2>4 DEF FInv
<1>2. CASE Hydrate
  <2>1. /\ loop' = Idle /\ mutation' = None /\ fired' = {} /\ mutation = None
    BY <1>0, <1>2 DEF Hydrate, Revisions
  <2>2. loop'.at = "idle" /\ mutation'.kind = "none" /\ Copies' = {} /\ Up' /\ Issued' = revision'
    BY <2>1 DEF Idle, Down, Up, None, Copies, Issued
  <2>3. CopiesSound' /\ FiredBehind'
    BY <2>1, <2>2 DEF CopiesSound, FiredBehind
  <2>4. Revisions'
    BY <1>0, <1>2, <2>2, HydrateLoads DEF Revisions
  <2> QED
    BY <2>3, <2>4 DEF FInv
<1>3. CASE HydrateFails
  <2>1. ~Up /\ UNCHANGED <<jobs, revision, mutation, loop, fired>>
    BY <1>3 DEF HydrateFails
  <2>2. mutation = None /\ fired = {} /\ loop.at = "down" /\ ~Up' /\ Copies' = {}
        /\ Issued' = Issued
    BY <1>0, <2>1 DEF Revisions, Up, Down, Copies, Issued
  <2>3. CopiesSound' /\ FiredBehind'
    BY <2>1, <2>2 DEF CopiesSound, FiredBehind
  <2>4. Revisions'
    BY <1>0, <2>1, <2>2 DEF Revisions, None
  <2> QED
    BY <2>3, <2>4 DEF FInv
<1> QED
  BY <1>1, <1>2, <1>3

LEMMA FInit == Init => FInv
<1> SUFFICES ASSUME Init PROVE FInv
  OBVIOUS
<1>1. loop.at = "idle" /\ mutation.kind = "none" /\ Copies = {} /\ Up
  BY DEF Init, Idle, Down, Up, None, Copies
<1>2. \A id \in Ids : ~Exists(jobs[id])
  BY DEF Init, Exists
<1>3. Typed
  <2>1. now \in 0..MaxTime /\ revision \in 0..MaxRevision /\ stops \in 0..MaxStops
    BY SchedulerAssumption DEF Init, SchedulerAssumption
  <2> QED
    BY <2>1 DEF Init, Typed, Loops
<1>4. Revisions /\ CopiesSound /\ FiredBehind
  BY <1>1, <1>2 DEF Init, Revisions, CopiesSound, FiredBehind
<1> QED
  BY <1>3, <1>4 DEF FInv

LEMMA FStep == FInv /\ [Next]_vars => FInv'
<1> SUFFICES ASSUME FInv, [Next]_vars PROVE FInv'
  OBVIOUS
<1>1. CASE UNCHANGED vars
  <2>1. Typed'
    BY <1>1 DEF FInv, Typed, vars
  <2> QED
    BY <1>1, <2>1, ResultStep
<1>2. CASE Next
  <2>1. Typed'
    BY <1>2, TypedStep DEF FInv
  <2> QED
    BY <1>2, <2>1, MutationStep, ResultStep, LoopStepKeeps, RestartKeeps DEF Next, Publish
<1> QED
  BY <1>1, <1>2

LEMMA FInvariant == Spec => []FInv
  BY FInit, FStep, PTL DEF Spec

(* Every reachable state of the scheduler is well typed, and the jobs in   *)
(* memory have revisions of their own (scheduler.go:22-39, :104-123).      *)
THEOREM SchedulerTyped == Spec => []TypeOK
<1>1. FInv => TypeOK
  <2> SUFFICES ASSUME FInv PROVE TypeOK
    OBVIOUS
  <2>0. Typed /\ Revisions /\ Issued \in Nat /\ Issued <= revision /\ revision \in Nat
    BY IssuedTyped DEF FInv
  <2>1. ASSUME NEW id \in Ids, Exists(jobs[id])
        PROVE  jobs[id] \in [owner : Plugins, period : Periods, next : Nat, count : Nat,
                             revision : 1..revision]
    <3>1. jobs[id] \in Job
      BY <2>0, <2>1 DEF Typed, Exists
    <3>2. jobs[id].revision \in 1..Issued
      BY <2>0, <2>1 DEF Revisions
    <3>3. jobs[id].revision \in 1..revision
      BY <2>0, <3>2
    <3> QED
      BY <3>1, <3>3 DEF Job
  <2>2. \A id \in Ids : Exists(table[id]) => table[id] \in Record
    BY <2>0 DEF Typed, Exists
  <2> QED
    BY <2>0, <2>1, <2>2 DEF Typed, Revisions, TypeOK, Record
<1> QED
  BY FInvariant, <1>1, PTL

(* The tick loop fires a planned run of a job a second time in one process *)
(* only when its schedule had no next run at the time of every earlier     *)
(* firing, whatever is created, replaced, removed or recorded while it     *)
(* works on its copies (scheduler.go:254-295): for any jobs, schedules and *)
(* search limit, also when two plugins use one task id.                    *)
THEOREM RunsFireOnceIfDated == Spec => FiredOnceIfDated
<1>1. FInv /\ [Next]_vars =>
        [loop.at = "tick" /\ loop'.at = "fired" =>
           \A f \in fired :
             /\ f[1] = loop'.one.id /\ f[2] = loop'.one.job.revision
             /\ f[3] = loop'.one.job.next
             => ~HasNext(loop'.one.job.period, zone, f[4])]_vars
  <2> SUFFICES ASSUME FInv, [Next]_vars, loop.at = "tick", loop'.at = "fired",
                      NEW f \in fired,
                      f[1] = loop'.one.id, f[2] = loop'.one.job.revision,
                      f[3] = loop'.one.job.next
               PROVE  ~HasNext(loop'.one.job.period, zone, f[4])
    OBVIOUS
  <2>1. loop' # loop
    OBVIOUS
  <2>2. FireDue
    <3>1. Next
      BY <2>1 DEF vars
    <3>2. ~(\E p \in Plugins, id \in Ids, x \in Periods : UpsertSave(p, id, x)) /\ ~UpsertFails
          /\ ~(\E p \in Plugins : UnregisterRows(p) \/ \E id \in Ids : DeleteRow(p, id))
      BY <2>1 DEF UpsertSave, UpsertFails, UnregisterRows, DeleteRow
    <3>3. ~(\E id \in Ids : Trigger(id) \/ \E r \in 1..MaxRevision : Result(id, r))
      BY <2>1 DEF Trigger, Result, ResultDropped, RecordRow
    <3>4. ~Publish
      BY <2>1 DEF Publish, UpsertPublish, RemovePublish, RecordPublish, SaveSchedule
    <3>5. ~Time /\ ~Stop /\ ~Exit /\ ~Hydrate /\ ~HydrateFails
      <4>1. ~Time /\ ~Stop /\ ~HydrateFails
        BY <2>1 DEF Time, Stop, HydrateFails
      <4>2. ~Exit
        BY DEF Exit, Down
      <4>3. Hydrate => loop'.at = "idle"
        BY DEF Hydrate, Idle
      <4> QED
        BY <4>1, <4>2, <4>3
    <3>6. LoopStep
      BY <3>1, <3>2, <3>3, <3>4, <3>5 DEF Next
    <3> QED
      BY <2>1, <3>6 DEF LoopStep, Tick, AdvanceFails, AdvanceChanged, Advance, TickDone, LoopExit, Idle
  <2>3. PICK d \in loop.due : loop'.one = d
    BY <2>2 DEF FireDue, Fire
  <2> QED
    BY <2>3 DEF FInv, FiredBehind
<1> QED
  BY FInvariant, <1>1, PTL DEF Spec, FiredOnceIfDated

-----------------------------------------------------------------------------
(* The engine and the table. *)

\* Between mutations, and while a schedule is saved, nothing is pending.
LEMMA NothingPending ==
  ASSUME NEW id, mutation.kind \in {"none", "schedule"}
  PROVE  Pending(id) = jobs[id]
  BY DEF Pending

\* A mutation publishes what was pending.
LEMMA PublishMatches ==
  ASSUME TableMatches, UNCHANGED table, Up, mutation'.kind = "none",
         \A id \in Ids : jobs'[id] = Pending(id)
  PROVE  TableMatches'
<1>1. \A id \in Ids : Pending(id)' = Pending(id)
  BY DEF Pending
<1> QED
  BY <1>1 DEF TableMatches

LEMMA CreateMatches ==
  ASSUME OneCreator, FInv, FInv', TableMatches, RemovalsKept,
         NEW p \in Plugins, NEW id \in Ids, NEW x \in Periods, UpsertSave(p, id, x)
  PROVE  TableMatches' /\ RemovalsKept'
<1> DEFINE j == NewJob(p, id, x)
<1>0. Typed /\ Typed'
  BY DEF FInv
<1>1. /\ mutation.kind = "none" /\ mutation'.kind = "upsert" /\ mutation'.id = id
      /\ mutation'.job = j /\ p \in Creators[id]
      /\ UNCHANGED <<jobs, loop>> /\ Up /\ Up'
      /\ removed' = removed \ {id} /\ saved' = [saved EXCEPT ![id] = 0]
  BY DEF UpsertSave, Free, None, Up
<1>2. j \in Job /\ Exists(j)
  BY <1>0, <1>1, NewJobTyped, JobShape
<1>3. j.owner = p /\ j.count = IF Exists(jobs[id]) THEN jobs[id].count ELSE 0
  BY DEF NewJob
<1>4. SaveJob(id, j)
  BY DEF UpsertSave
<1> HIDE DEF j
<1>5. /\ table'[id] = IF Exists(table[id])
                      THEN [table[id] EXCEPT !.period = j.period, !.next = j.next]
                      ELSE Row(j)
      /\ \A i \in Ids : i # id => table'[i] = table[i]
  BY <1>0, <1>4 DEF SaveJob, Typed
<1>6. \A i \in Ids : Matches(table[i], jobs[i])
  BY <1>1, NothingPending DEF TableMatches
<1>7. Matches(table'[id], j) /\ table'[id].owner \in Creators[id] /\ Exists(table'[id])
  <2>1. CASE Exists(table[id])
    <3>1. /\ table[id] \in Record /\ table[id].owner \in Creators[id]
          /\ table'[id] = [table[id] EXCEPT !.period = j.period, !.next = j.next]
      BY <1>0, <1>5, <2>1 DEF Typed, TableMatches, Exists
    <3>2. table[id].owner = p
      BY <1>1, <3>1 DEF OneCreator
    <3>3. Exists(jobs[id]) /\ jobs[id].count = table[id].count
      BY <1>6, <2>1 DEF Matches
    <3>4. /\ table'[id] \in Record
          /\ table'[id].owner = p /\ table'[id].count = table[id].count
          /\ table'[id].period = j.period /\ table'[id].next = j.next
      BY <1>2, <3>1, <3>2, JobShape, RowsTyped DEF Record
    <3> QED
      BY <1>1, <1>2, <1>3, <3>3, <3>4, JobShape DEF Matches
  <2>2. CASE ~Exists(table[id])
    <3>1. ~Exists(jobs[id]) /\ table'[id] = Row(j)
      BY <1>5, <1>6, <2>2 DEF Matches
    <3>2. /\ table'[id] \in Record /\ table'[id].owner = j.owner /\ table'[id].count = j.count
          /\ table'[id].period = j.period /\ table'[id].next = j.next
      <4>1. Row(j) \in Record
        BY <1>2, RowsTyped
      <4>2. /\ Row(j).owner = j.owner /\ Row(j).count = j.count
            /\ Row(j).period = j.period /\ Row(j).next = j.next
        BY DEF Row
      <4> QED
        BY <3>1, <4>1, <4>2
    <3> QED
      BY <1>1, <1>2, <1>3, <3>1, <3>2, JobShape DEF Matches
  <2> QED
    BY <2>1, <2>2
<1>8. /\ Pending(id)' = j
      /\ \A i \in Ids : i # id => Pending(i)' = jobs[i]
  BY <1>1 DEF Pending
<1>9. TableMatches'
  BY <1>1, <1>5, <1>6, <1>7, <1>8 DEF TableMatches
<1>10. RemovalsKept'
  <2>1. \A i \in Ids : i # id => saved'[i] = saved[i]
    BY <1>0, <1>1 DEF Typed
  <2>2. saved'[id] = 0
    BY <1>0, <1>1 DEF Typed
  <2>3. \A i \in removed' : i \in Ids /\ i # id
    BY <1>0, <1>1 DEF Typed
  <2> QED
    BY <1>1, <1>5, <2>1, <2>2, <2>3 DEF RemovalsKept
<1> QED
  BY <1>9, <1>10

LEMMA RemoveMatches ==
  ASSUME FInv, TableMatches, RemovalsKept, NEW p \in Plugins,
         UnregisterRows(p) \/ \E id \in Ids : DeleteRow(p, id)
  PROVE  TableMatches' /\ RemovalsKept'
<1>0. Typed
  BY DEF FInv
<1>1. /\ mutation.kind = "none" /\ mutation'.kind = "remove"
      /\ UNCHANGED <<jobs, loop, removed>> /\ Up /\ Up'
  BY DEF UnregisterRows, DeleteRow, Free, None, Up
<1>2. \A i \in Ids : Matches(table[i], jobs[i])
  BY <1>1, NothingPending DEF TableMatches
<1>3. /\ mutation'.ids \subseteq Ids
      /\ \A i \in Ids : /\ table'[i] = IF i \in mutation'.ids THEN None ELSE table[i]
                        /\ saved'[i] = IF i \in mutation'.ids THEN 0 ELSE saved[i]
  <2>1. CASE UnregisterRows(p)
    <3>1. \A i \in Ids : Exists(table[i]) /\ table[i].owner = p <=> i \in Owned(p)
      BY <1>2 DEF Matches, Owned
    <3>2. mutation'.ids = Owned(p) /\ Owned(p) \subseteq Ids
      BY <2>1 DEF UnregisterRows, Owned
    <3>3. \A i \in Ids : /\ table'[i] = IF Exists(table[i]) /\ table[i].owner = p THEN None
                                        ELSE table[i]
                         /\ saved'[i] = IF i \in Owned(p) THEN 0 ELSE saved[i]
      BY <2>1 DEF UnregisterRows
    <3> QED
      BY <3>1, <3>2, <3>3
  <2>2. CASE \E id \in Ids : DeleteRow(p, id)
    BY <1>0, <2>2 DEF DeleteRow, Typed
  <2> QED
    BY <2>1, <2>2
<1>4. \A i \in Ids : Pending(i)' = IF i \in mutation'.ids THEN None ELSE jobs[i]
  BY <1>1 DEF Pending
<1>5. TableMatches'
  BY <1>1, <1>2, <1>3, <1>4 DEF TableMatches, Matches, Exists
<1>6. RemovalsKept'
  <2>1. \A i \in removed : i \in Ids
    BY <1>0 DEF Typed
  <2> QED
    BY <1>1, <1>3, <2>1 DEF RemovalsKept, Exists
<1> QED
  BY <1>5, <1>6

LEMMA PublishesMatch ==
  ASSUME FInv, TableMatches, RemovalsKept, UpsertPublish \/ RemovePublish \/ RecordPublish
  PROVE  TableMatches' /\ RemovalsKept'
<1>0. Typed /\ Revisions
  BY DEF FInv
<1>1. mutation'.kind = "none" /\ UNCHANGED <<table, loop>> /\ mutation # None
  BY DEF UpsertPublish, RemovePublish, RecordPublish, None
<1>2. Up
  BY <1>0, <1>1 DEF Revisions
<1>3. \A id \in Ids : jobs'[id] = Pending(id)
  BY <1>0, MutationShape
  DEF UpsertPublish, RemovePublish, RecordPublish, Pending, Typed
<1>4. TableMatches'
  BY <1>1, <1>2, <1>3, PublishMatches
<1>5. \A id \in removed : id \in Ids
  BY <1>0 DEF Typed
<1>6. \A id \in Ids : Matches(table[id], Pending(id))
  BY <1>2 DEF TableMatches
<1>7. CASE UpsertPublish
  <2>1. /\ mutation.kind = "upsert" /\ UNCHANGED removed
        /\ saved' = [saved EXCEPT ![mutation.id] = mutation.job.period]
        /\ mutation.id \in Ids /\ Exists(mutation.job)
    BY <1>0, <1>7, MutationShape, JobShape DEF UpsertPublish, Typed
  <2>2. Pending(mutation.id) = mutation.job
    BY <2>1 DEF Pending
  <2>3. Exists(table[mutation.id]) /\ table[mutation.id].period = mutation.job.period
    BY <1>6, <2>1, <2>2 DEF Matches
  <2>4. \A id \in Ids : id # mutation.id => Pending(id) = jobs[id] /\ saved'[id] = saved[id]
    BY <1>0, <2>1 DEF Pending, Typed
  <2>5. saved'[mutation.id] = mutation.job.period
    BY <1>0, <2>1 DEF Typed
  <2> QED
    BY <1>1, <1>3, <1>4, <1>5, <2>1, <2>3, <2>4, <2>5 DEF RemovalsKept
<1>8. CASE RemovePublish
  <2>1. /\ mutation.kind = "remove" /\ UNCHANGED saved /\ removed' = removed \cup mutation.ids
        /\ mutation.ids \subseteq Ids
    BY <1>0, <1>8, MutationShape DEF RemovePublish, Typed
  <2>2. \A id \in mutation.ids : Pending(id) = None
    BY <2>1 DEF Pending
  <2>3. \A id \in Ids : Pending(id) \in {None, jobs[id]}
    BY <2>1 DEF Pending
  <2>4. \A id \in mutation.ids : ~Exists(jobs'[id]) /\ ~Exists(table[id])
    BY <1>3, <1>6, <2>1, <2>2 DEF Matches, Exists
  <2>5. \A id \in removed : ~Exists(jobs'[id])
    BY <1>3, <1>5, <2>3 DEF RemovalsKept, Exists
  <2> QED
    BY <1>1, <1>4, <2>1, <2>4, <2>5 DEF RemovalsKept
<1>9. CASE RecordPublish
  <2>1. mutation.kind = "record" /\ UNCHANGED <<removed, saved>>
    BY <1>9 DEF RecordPublish
  <2>2. \A id \in Ids : id # mutation.id => Pending(id) = jobs[id]
    BY <2>1 DEF Pending
  <2> QED
    BY <1>1, <1>3, <1>4, <1>5, <2>1, <2>2 DEF RemovalsKept
<1> QED
  BY <1>7, <1>8, <1>9

LEMMA RecordMatches ==
  ASSUME FInv, TableMatches, RemovalsKept, NEW id \in Ids, NEW r, RecordRow(id, r)
  PROVE  TableMatches' /\ RemovalsKept'
<1>0. Typed
  BY DEF FInv
<1>1. /\ mutation.kind = "none" /\ mutation'.kind = "record" /\ mutation'.id = id
      /\ mutation'.job = Counted(jobs[id]) /\ Exists(jobs[id])
      /\ UNCHANGED <<jobs, loop, removed, saved>> /\ Up /\ Up'
  BY DEF RecordRow, Current, Free, None, Up
<1>2. \A i \in Ids : Matches(table[i], jobs[i])
  BY <1>1, NothingPending DEF TableMatches
<1>3. jobs[id] \in Job /\ table[id] \in Record /\ Exists(table[id])
  BY <1>0, <1>1, <1>2 DEF Typed, Exists, Matches
<1>4. /\ table'[id] = Counted(table[id])
      /\ \A i \in Ids : i # id => table'[i] = table[i]
  BY <1>0, <1>3 DEF RecordRow, Typed
<1>5. /\ Counted(jobs[id]) \in Job /\ Counted(table[id]) \in Record
      /\ Counted(jobs[id]).owner = jobs[id].owner /\ Counted(table[id]).owner = table[id].owner
      /\ Counted(jobs[id]).period = jobs[id].period /\ Counted(table[id]).period = table[id].period
      /\ Counted(jobs[id]).count = jobs[id].count + 1
      /\ Counted(table[id]).count = table[id].count + 1
      /\ Counted(jobs[id]).next = jobs[id].next /\ Counted(table[id]).next = table[id].next
  BY <1>3, RowsTyped DEF Counted, Job, Record
<1>6. Matches(table'[id], Counted(jobs[id]))
  BY <1>1, <1>2, <1>4, <1>5, JobShape DEF Matches
<1>7. Pending(id)' = Counted(jobs[id]) /\ \A i \in Ids : i # id => Pending(i)' = jobs[i]
  BY <1>1 DEF Pending
<1>8. TableMatches'
  BY <1>1, <1>2, <1>3, <1>4, <1>5, <1>6, <1>7 DEF TableMatches
<1>9. RemovalsKept'
  <2>1. Exists(table'[id]) /\ table'[id].period = table[id].period
    BY <1>4, <1>5, JobShape
  <2>2. id \notin removed /\ \A i \in removed : i \in Ids
    BY <1>0, <1>1 DEF RemovalsKept, Typed
  <2> QED
    BY <1>1, <1>4, <2>1, <2>2 DEF RemovalsKept
<1> QED
  BY <1>8, <1>9

LEMMA AdvanceMatches ==
  ASSUME FInv, TableMatches, RemovalsKept, Advance
  PROVE  TableMatches' /\ RemovalsKept'
<1> DEFINE id == loop.one.id
<1>0. Typed /\ CopiesSound
  BY DEF FInv
<1>1. /\ loop.at = "fired" /\ Current(id, loop.one.job.revision)
      /\ mutation.kind = "none" /\ mutation'.kind = "schedule" /\ mutation'.id = id
      /\ UNCHANGED <<table, loop, removed, saved>> /\ Up /\ Up'
      /\ jobs' = [jobs EXCEPT ![id] = Advanced(loop.one)]
  BY DEF Advance, Free, None, Up, Down
<1>2. PICK n \in Nat : n > loop.clock /\ Advanced(loop.one) = [jobs[id] EXCEPT !.next = n]
  BY <1>0, <1>1, AdvancedTyped
<1>3. id \in Ids /\ jobs[id] \in Job /\ Advanced(loop.one) \in Job /\ loop.clock \in Nat
  BY <1>0, <1>1, AdvancedTyped, LoopShape DEF Typed
<1>4. jobs[id].next <= loop.clock
  <2>1. loop.one \in Copies
    BY <1>1 DEF Copies, Firing
  <2> QED
    BY <1>0, <1>1, <2>1 DEF CopiesSound
<1>5. /\ Exists(jobs[id]) /\ Exists(Advanced(loop.one))
      /\ Advanced(loop.one).owner = jobs[id].owner /\ Advanced(loop.one).count = jobs[id].count
      /\ Advanced(loop.one).period = jobs[id].period /\ Advanced(loop.one).next = n
  BY <1>2, <1>3, JobShape DEF Job
<1> HIDE DEF id
<1>6. jobs'[id] = Advanced(loop.one) /\ \A i \in Ids : i # id => jobs'[i] = jobs[i]
  BY <1>0, <1>1, <1>3 DEF Typed
<1>7. \A i \in Ids : Matches(table[i], jobs[i])
  BY <1>1, NothingPending DEF TableMatches
<1>8. Matches(table[id], jobs'[id])
  <2>1. table[id] \in Record
    BY <1>0, <1>3, <1>5, <1>7 DEF Matches, Exists, Typed
  <2>2. table[id].next \in Nat /\ jobs[id].next \in Nat
    BY <1>3, <2>1, JobShape
  <2> QED
    BY <1>2, <1>3, <1>4, <1>5, <1>6, <1>7, <2>2 DEF Matches
<1>9. \A i \in Ids : Pending(i)' = jobs'[i]
  BY <1>1 DEF Pending
<1>10. TableMatches'
  BY <1>1, <1>6, <1>7, <1>8, <1>9 DEF TableMatches
<1>11. RemovalsKept'
  <2>1. id \notin removed /\ \A i \in removed : i \in Ids
    BY <1>0, <1>5 DEF RemovalsKept, Typed
  <2> QED
    BY <1>1, <1>6, <2>1 DEF RemovalsKept
<1> QED
  BY <1>10, <1>11

LEMMA ScheduleMatches ==
  ASSUME FInv, TableMatches, RemovalsKept, SaveSchedule
  PROVE  TableMatches' /\ RemovalsKept'
<1> DEFINE id == mutation.id
<1>0. Typed /\ Revisions
  BY DEF FInv
<1>1. /\ mutation.kind = "schedule" /\ mutation'.kind = "none"
      /\ UNCHANGED <<jobs, removed, saved>> /\ loop'.at = "tick" /\ Up
      /\ id \in Ids /\ Exists(jobs[id]) /\ mutation.next = jobs[id].next
  BY <1>0, MutationShape, LoopShape DEF SaveSchedule, None, Revisions, Typed, Up
<1>2. Up'
  BY <1>1 DEF Up, Down
<1>3. \A i \in Ids : Matches(table[i], jobs[i]) /\ Pending(i)' = jobs[i]
  BY <1>1, NothingPending DEF TableMatches, Pending
<1>4. jobs[id] \in Job /\ table[id] \in Record /\ Exists(table[id])
  BY <1>0, <1>1, <1>3 DEF Typed, Exists, Matches
<1>5. CASE UNCHANGED table
  BY <1>1, <1>2, <1>3, <1>5 DEF TableMatches, RemovalsKept
<1>6. CASE ScheduleRow
  <2>1. /\ table'[id] = [table[id] EXCEPT !.next = jobs[id].next]
        /\ \A i \in Ids : i # id => table'[i] = table[i]
    BY <1>0, <1>1, <1>4, <1>6 DEF ScheduleRow, Typed
  <2>2. jobs[id].next \in Nat
    BY <1>4, JobShape
  <2>3. /\ table'[id] \in Record /\ table'[id].owner = table[id].owner
        /\ table'[id].period = table[id].period /\ table'[id].count = table[id].count
        /\ table'[id].next = jobs[id].next
    BY <1>4, <2>1, <2>2, RowsTyped DEF Record
  <2>4. Exists(table'[id]) /\ Matches(table'[id], jobs[id])
    BY <1>1, <1>3, <2>2, <2>3, JobShape DEF Matches
  <2>5. TableMatches'
    BY <1>1, <1>2, <1>3, <1>4, <2>1, <2>3, <2>4 DEF TableMatches
  <2>6. RemovalsKept'
    <3>1. id \notin removed /\ \A i \in removed : i \in Ids
      BY <1>0, <1>1 DEF RemovalsKept, Typed
    <3> QED
      BY <1>1, <1>4, <2>1, <2>3, <2>4, <3>1 DEF RemovalsKept
  <2> QED
    BY <2>5, <2>6
<1> QED
  BY <1>5, <1>6 DEF SaveSchedule

LEMMA RestartMatches ==
  ASSUME FInv, TableMatches, RemovalsKept, Exit \/ Hydrate \/ HydrateFails
  PROVE  TableMatches' /\ RemovalsKept'
<1>0. Typed /\ Revisions
  BY DEF FInv
<1>1. CASE Exit
  <2>1. /\ ~Up' /\ mutation'.kind = "none" /\ UNCHANGED <<table, removed, saved>>
        /\ \A id \in Ids : ~Exists(jobs'[id])
    BY <1>1 DEF Exit, Up, Down, None, Exists
  <2>2. \A id \in removed : id \in Ids
    BY <1>0 DEF Typed
  <2> QED
    BY <2>1, <2>2 DEF TableMatches, RemovalsKept
<1>2. CASE Hydrate
  <2> DEFINE rows == {id \in Ids : Exists(table[id])}
  <2>1. /\ mutation'.kind = "none" /\ UNCHANGED <<removed, saved>>
    BY <1>0, <1>2 DEF Hydrate, Revisions, None
  <2>2. /\ \A id \in Ids : /\ Exists(table'[id]) <=> id \in rows
                           /\ id \in rows => /\ table'[id].owner = table[id].owner
                                             /\ table'[id].period = table[id].period
        /\ \A id \in Ids : /\ Exists(jobs'[id]) <=> id \in rows
                           /\ id \in rows => Row(jobs'[id]) = table'[id]
        /\ table' \in [Ids -> Record \cup {None}]
    BY <1>0, <1>2, HydrateLoads
  <2>3. \A id \in rows : Exists(table[id]) /\ id \in Ids
    OBVIOUS
  <2>4. \A id \in Ids \ rows : ~Exists(table[id])
    OBVIOUS
  <2> HIDE DEF rows
  <2>5. \A id \in Ids : Pending(id)' = jobs'[id]
    BY <2>1 DEF Pending
  <2>6. \A id \in Ids : Matches(table'[id], jobs'[id])
    <3> SUFFICES ASSUME NEW id \in Ids, id \in rows PROVE Matches(table'[id], jobs'[id])
      BY <2>2 DEF Matches
    <3>1. table'[id] \in Record
      BY <2>2 DEF Exists
    <3>2. /\ table'[id].owner = jobs'[id].owner /\ table'[id].period = jobs'[id].period
          /\ table'[id].count = jobs'[id].count /\ table'[id].next = jobs'[id].next
      BY <2>2 DEF Row
    <3> QED
      BY <2>2, <3>1, <3>2, JobShape DEF Matches
  <2>7. TableMatches'
    BY <2>2, <2>3, <2>5, <2>6 DEF TableMatches
  <2>8. RemovalsKept'
    <3>1. \A id \in removed : id \in Ids /\ id \notin rows
      BY <1>0, <2>3 DEF Typed, RemovalsKept
    <3>2. \A id \in Ids : saved[id] # 0 => id \in rows
      BY <2>4 DEF RemovalsKept
    <3> QED
      BY <2>1, <2>2, <3>1, <3>2 DEF RemovalsKept
  <2> QED
    BY <2>7, <2>8
<1>3. CASE HydrateFails
  <2>1. ~Up' /\ UNCHANGED <<jobs, mutation, removed, saved>> /\ mutation.kind = "none"
    BY <1>0, <1>3 DEF HydrateFails, Revisions, Up, None
  <2>2. \A id \in Ids : /\ Exists(table'[id]) <=> Exists(table[id])
                        /\ Exists(table[id]) => /\ table'[id].owner = table[id].owner
                                                /\ table'[id].period = table[id].period
    BY <1>0, <1>3, HydrateLeaves
  <2>3. \A id \in removed : id \in Ids
    BY <1>0 DEF Typed
  <2> QED
    BY <2>1, <2>2, <2>3 DEF TableMatches, RemovalsKept
<1> QED
  BY <1>1, <1>2, <1>3

LEMMA OthersMatch ==
  ASSUME FInv, TableMatches, RemovalsKept,
         \/ UpsertFails \/ Time \/ Stop \/ UNCHANGED vars
         \/ Tick \/ FireDue \/ AdvanceFails \/ AdvanceChanged \/ TickDone \/ LoopExit
         \/ \E id \in Ids : Trigger(id) \/ \E r \in 1..MaxRevision : ResultDropped(id, r)
  PROVE  TableMatches' /\ RemovalsKept'
<1>1. UNCHANGED <<jobs, table, mutation, removed, saved>>
  BY DEF UpsertFails, Time, Stop, vars, Tick, FireDue, Fire, AdvanceFails, AdvanceChanged, TickDone,
         LoopExit,
         Trigger, ResultDropped
<1>2. Up' => Up
  BY DEF UpsertFails, Time, Stop, vars, Tick, FireDue, Fire, AdvanceFails, AdvanceChanged, TickDone,
         LoopExit,
         Trigger, ResultDropped, Up, Idle, Down
<1>3. \A id \in Ids : Pending(id)' = Pending(id)
  BY <1>1 DEF Pending
<1> QED
  BY <1>1, <1>2, <1>3 DEF TableMatches, RemovalsKept

LEMMA MInit == Init => TableMatches /\ RemovalsKept
<1> SUFFICES ASSUME Init PROVE TableMatches /\ RemovalsKept
  OBVIOUS
<1>1. mutation.kind = "none" /\ \A id \in Ids : ~Exists(jobs[id]) /\ ~Exists(table[id])
  BY DEF Init, None, Exists
<1> QED
  BY <1>1 DEF Init, TableMatches, RemovalsKept, Matches, Pending

LEMMA MStep == OneCreator /\ MInv /\ FInv' /\ [Next]_vars => (TableMatches /\ RemovalsKept)'
<1> SUFFICES ASSUME OneCreator, MInv, FInv', [Next]_vars PROVE (TableMatches /\ RemovalsKept)'
  OBVIOUS
<1>0. FInv /\ TableMatches /\ RemovalsKept
  BY DEF MInv
<1> QED
  BY <1>0, CreateMatches, RemoveMatches, PublishesMatch, RecordMatches, AdvanceMatches,
     ScheduleMatches, RestartMatches, OthersMatch
  DEF Next, Publish, LoopStep, Result

LEMMA MInvariant == ASSUME OneCreator PROVE Spec => []MInv
<1>1. FInv /\ FInv' /\ MInv /\ [Next]_vars => MInv'
  BY MStep DEF MInv
<1>2. Init => MInv
  BY FInit, MInit DEF MInv
<1> QED
  BY FInvariant, <1>1, <1>2, PTL DEF Spec

(* Between mutations the engine and the table hold the same jobs with the  *)
(* same owner, schedule and statistics, and the table is never ahead of    *)
(* the engine, when every task id is used by one plugin: the code does not *)
(* see to that itself, and the run with a shared id shows what happens     *)
(* otherwise (scheduler.go:291-294, :345-366, :480-509).                   *)
THEOREM TableFollowsEngine == ASSUME OneCreator PROVE Spec => []EngineMatchesTable
<1>1. MInv => EngineMatchesTable
  <2> SUFFICES ASSUME MInv, Up, Free, NEW id \in Ids
               PROVE  /\ Exists(jobs[id]) <=> Exists(table[id])
                      /\ Exists(jobs[id]) =>
                           /\ Row(jobs[id]) = [table[id] EXCEPT !.next = jobs[id].next]
                           /\ table[id].next <= jobs[id].next
    BY DEF EngineMatchesTable
  <2>1. Matches(table[id], jobs[id]) /\ Typed
    <3>1. mutation.kind = "none"
      BY DEF Free, None
    <3> QED
      BY <3>1, NothingPending DEF MInv, FInv, TableMatches
  <2>2. ASSUME Exists(jobs[id])
        PROVE  Row(jobs[id]) = [table[id] EXCEPT !.next = jobs[id].next]
    <3>1. jobs[id] \in Job /\ table[id] \in Record
      BY <2>1, <2>2 DEF Matches, Typed, Exists
    <3> QED
      BY <2>1, <2>2, <3>1 DEF Matches, Row, Record, Job
  <2> QED
    BY <2>1, <2>2 DEF Matches
<1> QED
  BY MInvariant, <1>1, PTL

(* What was removed stays away and what was acknowledged stays, from       *)
(* whatever point of a mutation the process is killed and however late the *)
(* results and ticks of a job are, when every task id is used by one       *)
(* plugin (scheduler.go:285-290, :357-368, :371-419).                      *)
THEOREM RemovalsStand == ASSUME OneCreator PROVE Spec => []RemovedStaysRemoved
<1>1. MInv => RemovedStaysRemoved
  <2> SUFFICES ASSUME MInv PROVE RemovedStaysRemoved
    OBVIOUS
  <2>1. RemovalsKept
    BY DEF MInv
  <2>2. ASSUME NEW id \in Ids, saved[id] # 0, Up, Free
        PROVE  Exists(jobs[id]) /\ jobs[id].period = saved[id]
    <3>1. mutation.kind = "none"
      BY <2>2 DEF Free, None
    <3>2. Matches(table[id], jobs[id])
      BY <2>2, <3>1, NothingPending DEF MInv, TableMatches
    <3> QED
      BY <2>1, <2>2, <3>2 DEF RemovalsKept, Matches
  <2> QED
    BY <2>1, <2>2 DEF RemovalsKept, RemovedStaysRemoved
<1> QED
  BY MInvariant, <1>1, PTL

=============================================================================
