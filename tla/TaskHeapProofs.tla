--------------------------- MODULE TaskHeapProofs ---------------------------
(***************************************************************************)
(* Theorems about the priority queue, for heaps of any size: the heap      *)
(* algorithms lose and duplicate nothing, and what they do to the order of *)
(* the entries, although their comparator is not a strict weak order.      *)
(***************************************************************************)
EXTENDS TaskHeap, SequenceTheorems, WellFoundedInduction, TLAPS

-----------------------------------------------------------------------------
(* The inductive invariant. *)

\* The loops have passed one position before they come to the other.
Before(o, p) ==
    \/ o.job < p.job
    \/ o.job = p.job /\ o.task < p.task

\* Each entry is that of a task the loops have passed.
EntriesInv ==
    \A i \in DOMAIN heap :
        /\ heap[i].object.job \in DOMAIN jobs_
        /\ heap[i].object.task \in 1..NumTasks
        /\ heap[i] = Entry(jobs_, heap[i].object)
        /\ Before(heap[i].object, next)

\* The loops stay within the jobs, and SQLite numbers jobs and tasks in order.
LoopInv ==
    /\ next.task <= NumTasks
    /\ next.job <= Len(jobs_) + 1
    /\ AllQueued => next.task = 1
    /\ ~dry_run => RestoredJobs <= Len(jobs_)
    /\ ~dry_run => \A j \in DOMAIN jobs_ :
                     jobs_[j] = SQLiteJob(j, jobs_[j].priority)

\* "upper" may stay above "lower": the comparator does not say that it is to
\* leave after it, or says so both ways.
MayPrecede(upper, lower) ==
    PriorityCompare(upper, lower) => PriorityCompare(lower, upper)

\* But for the hole the vector is a heap.
HeapInv ==
    \A i \in 2..Len(heap) :
        i # hole /\ i \div 2 # hole => MayPrecede(heap[i \div 2], heap[i])

\* A sinking hole has a child to exchange places with.
SinkInv == sinking => 2 * hole \in 2..Len(heap)

\* What the hole separates is in order, and what rises in it may precede
\* what is below it.
HoleInv ==
    /\ hole > 1 => \A c \in 2..Len(heap) :
                     c \div 2 = hole => MayPrecede(heap[hole \div 2], heap[c])
    /\ hole > 0 /\ ~sinking =>
         \A c \in 2..Len(heap) :
           c \div 2 = hole => MayPrecede(heap[hole], heap[c])

\* The path from the root to the hole: an entry beside it may be preceded by
\* its grandparent, which a rising value makes its parent.
Path(path) ==
    /\ hole \in path
    /\ \A i \in path : i > 1 => i \div 2 \in path
    /\ \A i \in path : ~ (2 * i \in path /\ 2 * i + 1 \in path)
    /\ ~ (2 * hole \in path) /\ ~ (2 * hole + 1 \in path)
    /\ \A i \in path, c \in 2..Len(heap) :
         i > 1 /\ c \div 2 = i /\ ~ (c \in path) =>
             MayPrecede(heap[i \div 2], heap[c])

\* The value in the hole is to leave after all others, so it will not rise.
Newest ==
    /\ ~sinking
    /\ \A i \in DOMAIN heap : i # hole => ~PriorityCompare(heap[i], heap[hole])

\* Why a rising value keeps the heap: the comparator is a total preorder of
\* the entries, or the value was pushed last, or it sank before.
RiseInv ==
    \/ hole = 0
    \/ OnePriority
    \/ Newest
    \/ \E path \in SUBSET (1..Len(heap)) : Path(path)

OrderInv == Ordered => HeapInv /\ HoleInv /\ RiseInv

\* No two places hold the same entry, which is why a pair of entries that moved
\* can be told apart.
NoEntryTwice ==
    \A i, j \in DOMAIN heap : i # j => heap[i].object # heap[j].object

IInv ==
    TypeOK /\ LoopInv /\ EntriesInv /\ NoEntryTwice /\ SinkInv /\ OrderInv

-----------------------------------------------------------------------------
(* The comparator. *)

LEMMA Halves ==
    ASSUME NEW i \in Nat \ {0}
    PROVE  /\ i \div 2 \in Nat
           /\ i \div 2 < i
           /\ i > 1 => i \div 2 >= 1
           /\ i = 2 * (i \div 2) \/ i = 2 * (i \div 2) + 1
  BY SMT

\* Each inner node of a vector is the parent of 2 * i and 2 * i + 1 only.
LEMMA Children ==
    ASSUME NEW i \in Nat \ {0}
    PROVE  /\ (2 * i) \div 2 = i /\ (2 * i + 1) \div 2 = i
           /\ \A c \in Nat : c \div 2 = i => c = 2 * i \/ c = 2 * i + 1
<1>1. ASSUME NEW c \in Nat \ {0}, c = 2 * i \/ c = 2 * i + 1
      PROVE  c \div 2 = i
  BY <1>1, Halves
<1>2. 2 * i \in Nat \ {0} /\ 2 * i + 1 \in Nat \ {0}
  OBVIOUS
<1>3. (2 * i) \div 2 = i
  BY <1>1, <1>2
<1>4. (2 * i + 1) \div 2 = i
  BY <1>1, <1>2
<1>5. ASSUME NEW c \in Nat, c \div 2 = i PROVE c = 2 * i \/ c = 2 * i + 1
  BY <1>5, SMT
<1> QED
  BY <1>3, <1>4, <1>5

LEMMA ChildrenBelow ==
    ASSUME NEW i \in Nat \ {0}
    PROVE  /\ 2 * i \in Nat /\ 2 * i + 1 \in Nat
           /\ 2 * i >= 2 /\ 2 * i + 1 >= 2
           /\ 2 * i > i /\ 2 * i + 1 > i
  BY SMT

LEMMA EntryFields ==
    ASSUME NEW a \in QueueEntry
    PROVE  a.priority \in Int /\ a.job \in Int /\ a.task \in Int
<1>1. a.priority \in JobPriorities /\ a.job \in Int /\ a.task \in Int
  BY DEF QueueEntry
<1>2. \A p \in JobPriorities : p \in Int
  BY TypesAssumption
<1> QED
  BY <1>1, <1>2

LEMMA PriorityCompareTransitive ==
    ASSUME NEW a \in QueueEntry, NEW b \in QueueEntry, NEW c \in QueueEntry,
           PriorityCompare(a, b), PriorityCompare(b, c)
    PROVE  PriorityCompare(a, c)
<1>1. /\ a.priority \in Int /\ b.priority \in Int /\ c.priority \in Int
      /\ a.job \in Int /\ b.job \in Int /\ c.job \in Int
      /\ a.task \in Int /\ b.task \in Int /\ c.task \in Int
  BY EntryFields
<1> QED
  BY <1>1 DEF PriorityCompare

\* Of two entries the comparator lets at least one be first.
LEMMA MayPrecedeTotal ==
    ASSUME NEW a \in QueueEntry, NEW b \in QueueEntry,
           ~MayPrecede(a, b)
    PROVE  MayPrecede(b, a)
  BY DEF MayPrecede

\* Between entries of one priority there is a total preorder: by job, then by
\* task.
LEMMA OfOnePriority ==
    ASSUME NEW a \in QueueEntry, NEW b \in QueueEntry,
           a.priority = b.priority
    PROVE  MayPrecede(a, b) <=> \/ a.job < b.job
                                \/ a.job = b.job /\ a.task <= b.task
  BY EntryFields DEF PriorityCompare, MayPrecede

LEMMA MayPrecedeTransitive ==
    ASSUME NEW a \in QueueEntry, NEW b \in QueueEntry, NEW c \in QueueEntry,
           a.priority = b.priority, b.priority = c.priority,
           MayPrecede(a, b), MayPrecede(b, c)
    PROVE  MayPrecede(a, c)
<1>1. MayPrecede(a, b) <=> a.job < b.job \/ (a.job = b.job /\ a.task <= b.task)
  BY OfOnePriority
<1>2. MayPrecede(b, c) <=> b.job < c.job \/ (b.job = c.job /\ b.task <= c.task)
  BY OfOnePriority
<1>3. MayPrecede(a, c) <=> a.job < c.job \/ (a.job = c.job /\ a.task <= c.task)
  BY OfOnePriority
<1> QED
  BY <1>1, <1>2, <1>3, EntryFields

\* A value that is to leave before the entry above it may precede all that
\* this entry may precede.
LEMMA RisingPrecedes ==
    ASSUME NEW v \in QueueEntry, NEW p \in QueueEntry, NEW s \in QueueEntry,
           PriorityCompare(p, v), MayPrecede(p, s)
    PROVE  MayPrecede(v, s)
<1> SUFFICES ASSUME PriorityCompare(v, s) PROVE PriorityCompare(s, v)
  BY DEF MayPrecede
<1>1. PriorityCompare(p, s)
  BY PriorityCompareTransitive
<1>2. PriorityCompare(s, p)
  BY <1>1 DEF MayPrecede
<1> QED
  BY <1>2, PriorityCompareTransitive

-----------------------------------------------------------------------------
(* Exchanges. *)

LEMMA ExchangeEntries ==
    ASSUME TypeOK, NEW i \in DOMAIN heap, NEW j \in DOMAIN heap, i # j,
           heap' = Exchange(i, j)
    PROVE  /\ heap' \in Seq(QueueEntry)
           /\ Len(heap') = Len(heap)
           /\ heap'[i] = heap[j]
           /\ heap'[j] = heap[i]
           /\ \A k \in DOMAIN heap : k # i /\ k # j => heap'[k] = heap[k]
  BY DEF Exchange, TypeOK

\* An exchange keeps what does not depend on the places of entries.
LEMMA ExchangeKeeps ==
    ASSUME IInv, NEW i \in DOMAIN heap, NEW j \in DOMAIN heap, i # j,
           heap' = Exchange(i, j), UNCHANGED <<dry_run, jobs_, next>>
    PROVE  LoopInv' /\ EntriesInv' /\ NoEntryTwice' /\ ToSet(heap') = ToSet(heap)
<1>1. /\ heap' \in Seq(QueueEntry)
      /\ Len(heap') = Len(heap)
      /\ heap'[i] = heap[j]
      /\ heap'[j] = heap[i]
      /\ \A k \in DOMAIN heap : k # i /\ k # j => heap'[k] = heap[k]
  BY ExchangeEntries DEF IInv
<1>2. DOMAIN heap' = DOMAIN heap
  BY <1>1 DEF IInv, TypeOK
<1>3. LoopInv'
  BY DEF IInv, LoopInv, AllQueued, SQLiteJob
<1>4. EntriesInv'
  <2> SUFFICES ASSUME NEW k \in DOMAIN heap'
               PROVE  /\ heap'[k].object.job \in DOMAIN jobs_
                      /\ heap'[k].object.task \in 1..NumTasks
                      /\ heap'[k] = Entry(jobs_, heap'[k].object)
                      /\ Before(heap'[k].object, next)
    BY DEF EntriesInv
  <2>1. \E l \in DOMAIN heap : heap'[k] = heap[l]
    BY <1>1, <1>2
  <2> QED
    BY <2>1 DEF IInv, EntriesInv
<1>5. NoEntryTwice'
  BY <1>1, <1>2 DEF IInv, NoEntryTwice
<1>6. ToSet(heap') = ToSet(heap)
  BY <1>1, <1>2 DEF ToSet
<1> QED
  BY <1>3, <1>4, <1>5, <1>6

-----------------------------------------------------------------------------
(* Loops over jobs and tasks. *)

LEMMA NextTaskIsLater ==
    ASSUME TypeOK, LoopInv, ~AllQueued
    PROVE  /\ next.job \in DOMAIN jobs_ /\ next.task \in 1..NumTasks
           /\ NextTask(next) \in QueueObject
           /\ NextTask(next).task <= NumTasks
           /\ NextTask(next).job <= Len(jobs_) + 1
           /\ NextTask(next).job > Len(jobs_) => NextTask(next).task = 1
           /\ Before(next, NextTask(next))
           /\ \A o \in QueueObject : Before(o, next) => Before(o, NextTask(next))
<1>1. /\ next.job \in Nat \ {0} /\ next.task \in Nat \ {0}
      /\ next.job <= Len(jobs_) /\ next.task <= NumTasks
      /\ jobs_ \in Seq(JobObject)
  BY DEF TypeOK, QueueObject, LoopInv, AllQueued
<1>2. \A o \in QueueObject : o.job \in Nat \ {0} /\ o.task \in Nat \ {0}
  BY DEF QueueObject
<1>3. NumTasks \in Nat /\ NumTasks > 0
  BY TypesAssumption, HeapAssumption
<1>4. CASE next.task < NumTasks
  <2>1. NextTask(next) = [job |-> next.job, task |-> next.task + 1]
    BY <1>4 DEF NextTask
  <2> QED
    BY <1>1, <1>2, <1>3, <1>4, <2>1 DEF QueueObject, Before
<1>5. CASE ~(next.task < NumTasks)
  <2>1. NextTask(next) = [job |-> next.job + 1, task |-> 1]
    BY <1>5 DEF NextTask
  <2> QED
    BY <1>1, <1>2, <1>3, <1>5, <2>1 DEF QueueObject, Before
<1> QED
  BY <1>4, <1>5

\* What a job or an entry is made of has the types it should have.
LEMMA EntryType ==
    ASSUME TypeOK, NEW o \in QueueObject, o.job \in DOMAIN jobs_,
           o.task \in 1..NumTasks
    PROVE  Entry(jobs_, o) \in QueueEntry
<1>1. jobs_[o.job] \in JobObject
  BY DEF TypeOK
<1> QED
  BY <1>1 DEF Entry, JobObject, QueueEntry

LEMMA SQLiteJobType ==
    ASSUME NEW j \in Nat, NEW p \in JobPriorities
    PROVE  /\ SQLiteJob(j, p) \in JobObject
           /\ SQLiteJob(j, p) = SQLiteJob(j, SQLiteJob(j, p).priority)
<1>1. \A i \in 1..NumTasks : (j - 1) * NumTasks + i \in Int
  BY TypesAssumption
<1> QED
  BY <1>1 DEF SQLiteJob, JobObject

\* Entries are told apart by their objects, so a new object is a new entry.
LEMMA PassedEntries ==
    ASSUME TypeOK, EntriesInv, NEW i \in DOMAIN heap
    PROVE  /\ heap[i] \in QueueEntry
           /\ heap[i].object \in QueueObject
           /\ heap[i].object # next
<1>1. heap[i] \in QueueEntry /\ next \in QueueObject
  BY DEF TypeOK
<1>2. heap[i].object \in QueueObject
  BY <1>1 DEF QueueEntry
<1>3. next.job \in Int /\ next.task \in Int
  BY <1>1 DEF QueueObject
<1>4. ~Before(next, next)
  BY <1>3 DEF Before
<1> QED
  BY <1>1, <1>2, <1>4 DEF EntriesInv

-----------------------------------------------------------------------------
(* What each step does to entries and types. *)

LEMMA InitEntries ==
    ASSUME Init
    PROVE  TypeOK /\ LoopInv /\ EntriesInv /\ NoEntryTwice
<1> DEFINE Jobs ==
             /\ jobs_ \in Seq(JobObject)
             /\ ~dry_run => RestoredJobs <= Len(jobs_)
             /\ ~dry_run => \A j \in DOMAIN jobs_ :
                              jobs_[j] = SQLiteJob(j, jobs_[j].priority)
<1>1. ASSUME dry_run PROVE Jobs
  <2>1. jobs_ = [i \in 1..NumDummyJobs |->
                   [id |-> i - 1, priority |-> 50, status |-> "WAITING",
                    tasks |-> [k \in 1..NumTasks |-> (i - 1) * NumTasks + k - 1]]]
    BY <1>1 DEF Init, DryRun!RetrieveAllJobs, DryRun!RetrieveAllTasks
  <2>2. \A i \in 1..NumDummyJobs, k \in 1..NumTasks :
          (i - 1) * NumTasks + k - 1 \in Int
    BY HeapAssumption, TypesAssumption
  <2>3. \A i \in 1..NumDummyJobs :
          [id |-> i - 1, priority |-> 50, status |-> "WAITING",
           tasks |-> [k \in 1..NumTasks |-> (i - 1) * NumTasks + k - 1]]
            \in JobObject
    BY <2>2, HeapAssumption DEF JobObject
  <2>4. jobs_ \in Seq(JobObject)
    BY <2>1, <2>3, HeapAssumption
  <2> QED
    BY <1>1, <2>4
<1>2. ASSUME ~dry_run PROVE Jobs
  <2>1. PICK priorities \in [1..RestoredJobs -> JobPriorities] :
          jobs_ = [j \in 1..RestoredJobs |-> SQLiteJob(j, priorities[j])]
    BY <1>2 DEF Init
  <2>2. /\ jobs_ \in Seq(JobObject)
        /\ Len(jobs_) = RestoredJobs
    BY <2>1, SQLiteJobType, HeapAssumption
  <2>3. \A j \in DOMAIN jobs_ : jobs_[j] = SQLiteJob(j, jobs_[j].priority)
    BY <2>1, SQLiteJobType, HeapAssumption
  <2> QED
    BY <1>2, <2>2, <2>3
<1>3. Jobs
  BY <1>1, <1>2
<1> HIDE DEF Jobs
<1>4. /\ next = [job |-> 1, task |-> 1] /\ heap = <<>>
      /\ hole = 0 /\ sinking = FALSE /\ dry_run \in BOOLEAN
  BY DEF Init
<1>5. next \in QueueObject /\ next.job = 1 /\ next.task = 1
  BY <1>4 DEF QueueObject
<1>6. heap \in Seq(QueueEntry) /\ DOMAIN heap = {} /\ Len(heap) = 0
  BY <1>4
<1>7. hole \in 0..Len(heap)
  BY <1>4, <1>6
<1>8. TypeOK
  BY <1>3, <1>4, <1>5, <1>6, <1>7, Zenon DEF TypeOK, Jobs
<1>9. LoopInv
  BY <1>3, <1>5, <1>8, HeapAssumption, TypesAssumption
  DEF LoopInv, Jobs, TypeOK
<1> QED
  BY <1>6, <1>8, <1>9 DEF EntriesInv, NoEntryTwice

LEMMA InsertJobEntries ==
    ASSUME IInv, NEW priority \in JobPriorities, InsertJob(priority)
    PROVE  TypeOK' /\ LoopInv' /\ EntriesInv' /\ NoEntryTwice'
<1> DEFINE job == IF dry_run THEN NewJob(priority)
                  ELSE SQLiteJob(Len(jobs_) + 1, priority)
<1>1. jobs_ \in Seq(JobObject) /\ Len(jobs_) \in Nat
  BY DEF IInv, TypeOK
<1>2. job \in JobObject
  BY <1>1, SQLiteJobType DEF NewJob, JobObject
<1>3. jobs_' = Append(jobs_, job)
  BY DEF InsertJob, DryRun!InsertJob
<1>4. ~dry_run => job = SQLiteJob(Len(jobs_) + 1, job.priority)
  BY <1>1, SQLiteJobType
<1> HIDE DEF job
<1>5. /\ jobs_' \in Seq(JobObject) /\ Len(jobs_') = Len(jobs_) + 1
      /\ \A j \in DOMAIN jobs_ : j \in DOMAIN jobs_' /\ jobs_'[j] = jobs_[j]
      /\ jobs_'[Len(jobs_) + 1] = job
      /\ DOMAIN jobs_' = 1..(Len(jobs_) + 1) /\ DOMAIN jobs_ = 1..Len(jobs_)
  BY <1>1, <1>2, <1>3
<1>6. TypeOK'
  BY <1>5 DEF IInv, TypeOK, InsertJob
<1>7. LoopInv'
  <2>1. next \in QueueObject /\ next.job \in Nat
    BY DEF IInv, TypeOK, QueueObject
  <2>2. /\ next.job <= Len(jobs_) + 1 /\ next.task <= NumTasks
        /\ AllQueued => next.task = 1
        /\ ~dry_run => RestoredJobs <= Len(jobs_)
    BY DEF IInv, LoopInv
  <2>3. ASSUME ~dry_run, NEW j \in DOMAIN jobs_'
        PROVE  jobs_'[j] = SQLiteJob(j, jobs_'[j].priority)
    BY <1>1, <1>4, <1>5, <2>3 DEF IInv, LoopInv
  <2> QED
    BY <1>1, <1>5, <2>1, <2>2, <2>3, HeapAssumption
    DEF InsertJob, LoopInv, AllQueued, SQLiteJob
<1>8. EntriesInv'
  <2> SUFFICES ASSUME NEW i \in DOMAIN heap
               PROVE  /\ heap[i].object.job \in DOMAIN jobs_'
                      /\ heap[i] = Entry(jobs_', heap[i].object)
    BY DEF InsertJob, IInv, EntriesInv
  <2>1. /\ heap[i].object.job \in DOMAIN jobs_
        /\ heap[i] = Entry(jobs_, heap[i].object)
    BY DEF IInv, EntriesInv
  <2> QED
    BY <1>5, <2>1 DEF Entry
<1>9. NoEntryTwice'
  BY DEF InsertJob, IInv, NoEntryTwice
<1> QED
  BY <1>6, <1>7, <1>8, <1>9

LEMMA PushTaskEntries ==
    ASSUME IInv, PushTask
    PROVE  /\ TypeOK' /\ LoopInv' /\ EntriesInv' /\ NoEntryTwice'
           /\ Len(heap') = Len(heap) + 1
           /\ hole' = Len(heap) + 1
           /\ \A i \in DOMAIN heap : i \in DOMAIN heap' /\ heap'[i] = heap[i]
           /\ heap'[Len(heap) + 1] = Entry(jobs_, next)
<1> DEFINE e == Entry(jobs_, next)
<1>1. /\ jobs_ \in Seq(JobObject) /\ heap \in Seq(QueueEntry)
      /\ next \in QueueObject /\ Len(heap) \in Nat /\ Len(jobs_) \in Nat
  BY DEF IInv, TypeOK
<1>2. /\ next.job \in DOMAIN jobs_ /\ next.task \in 1..NumTasks
      /\ NextTask(next) \in QueueObject
      /\ NextTask(next).task <= NumTasks
      /\ NextTask(next).job <= Len(jobs_) + 1
      /\ NextTask(next).job > Len(jobs_) => NextTask(next).task = 1
      /\ Before(next, NextTask(next))
      /\ \A o \in QueueObject : Before(o, next) => Before(o, NextTask(next))
  BY NextTaskIsLater DEF IInv, PushTask
<1>3. e \in QueueEntry /\ e.object = next
  BY <1>1, <1>2, EntryType DEF IInv, Entry
<1>4. heap' = Append(heap, e) /\ hole' = Len(heap) + 1 /\ next' = NextTask(next)
  BY DEF PushTask
<1>5. UNCHANGED <<dry_run, jobs_, sinking>>
  BY DEF PushTask
<1> HIDE DEF e
<1>6. /\ heap' \in Seq(QueueEntry)
      /\ Len(heap') = Len(heap) + 1
      /\ \A i \in DOMAIN heap : i \in DOMAIN heap' /\ heap'[i] = heap[i]
      /\ heap'[Len(heap) + 1] = e
      /\ \A i \in DOMAIN heap' : i \in DOMAIN heap \/ i = Len(heap) + 1
  BY <1>1, <1>3, <1>4
<1>7. TypeOK'
  <2>1. hole' \in 0..Len(heap')
    BY <1>1, <1>4, <1>6
  <2> QED
    BY <1>2, <1>4, <1>5, <1>6, <2>1 DEF IInv, TypeOK
<1>8. LoopInv'
  BY <1>2, <1>4, <1>5 DEF IInv, LoopInv, AllQueued, SQLiteJob
<1>9. EntriesInv'
  <2> SUFFICES ASSUME NEW i \in DOMAIN heap'
               PROVE  /\ heap'[i].object.job \in DOMAIN jobs_
                      /\ heap'[i].object.task \in 1..NumTasks
                      /\ heap'[i] = Entry(jobs_, heap'[i].object)
                      /\ Before(heap'[i].object, next')
    BY <1>5 DEF EntriesInv
  <2>1. CASE i \in DOMAIN heap
    <3>1. heap[i].object \in QueueObject
      BY <2>1, PassedEntries DEF IInv
    <3> QED
      BY <1>2, <1>4, <1>6, <2>1, <3>1 DEF IInv, EntriesInv
  <2>2. CASE i = Len(heap) + 1
    <3>1. e = Entry(jobs_, e.object)
      BY <1>3 DEF e
    <3> QED
      BY <1>2, <1>3, <1>4, <1>6, <2>2, <3>1
  <2> QED
    BY <1>6, <2>1, <2>2
<1>10. NoEntryTwice'
  <2>1. \A i \in DOMAIN heap : heap[i].object # next
    BY PassedEntries DEF IInv
  <2> QED
    BY <1>3, <1>6, <2>1 DEF IInv, NoEntryTwice
<1> QED
  BY <1>4, <1>6, <1>7, <1>8, <1>9, <1>10 DEF e

LEMMA SkipTaskEntries ==
    ASSUME IInv, SkipTask
    PROVE  TypeOK' /\ LoopInv' /\ EntriesInv' /\ NoEntryTwice'
<1>1. /\ Len(jobs_) \in Nat /\ next \in QueueObject /\ next.job \in Nat
      /\ next.job <= RestoredJobs
  BY DEF IInv, TypeOK, QueueObject, SkipTask
<1>2. RestoredJobs <= Len(jobs_)
  BY DEF IInv, LoopInv, SkipTask
<1>3. ~AllQueued
  BY <1>1, <1>2, HeapAssumption DEF AllQueued
<1>4. /\ NextTask(next) \in QueueObject
      /\ NextTask(next).task <= NumTasks
      /\ NextTask(next).job <= Len(jobs_) + 1
      /\ NextTask(next).job > Len(jobs_) => NextTask(next).task = 1
      /\ \A o \in QueueObject : Before(o, next) => Before(o, NextTask(next))
  BY <1>3, NextTaskIsLater DEF IInv
<1>5. next' = NextTask(next) /\ UNCHANGED <<dry_run, jobs_, heap, hole, sinking>>
  BY DEF SkipTask
<1>6. TypeOK'
  BY <1>4, <1>5 DEF IInv, TypeOK
<1>7. LoopInv'
  BY <1>4, <1>5 DEF IInv, LoopInv, AllQueued, SQLiteJob
<1>8. EntriesInv'
  <2>1. \A i \in DOMAIN heap : heap[i].object \in QueueObject
    BY PassedEntries DEF IInv
  <2> QED
    BY <1>4, <1>5, <2>1 DEF IInv, EntriesInv
<1>9. NoEntryTwice'
  BY <1>5 DEF IInv, NoEntryTwice
<1> QED
  BY <1>6, <1>7, <1>8, <1>9

\* What a pop does before the loops: the root leaves, the last entry moves.
LEMMA DispatchTaskEntries ==
    ASSUME IInv, DispatchTask
    PROVE  /\ TypeOK' /\ LoopInv' /\ EntriesInv' /\ NoEntryTwice'
           /\ ToSet(heap') = ToSet(heap) \ {heap[1]}
           /\ Len(heap') = Len(heap) - 1
           /\ \A i \in 2..Len(heap') : heap'[i] = heap[i]
<1>1. heap \in Seq(QueueEntry) /\ heap # <<>> /\ Len(heap) \in Nat /\ Len(heap) > 0
  BY DEF IInv, TypeOK, DispatchTask
<1>2. UNCHANGED <<dry_run, jobs_, next>>
  BY DEF DispatchTask
<1>3. \A i, j \in DOMAIN heap : i # j => heap[i] # heap[j]
  BY DEF IInv, NoEntryTwice
<1>4. /\ heap' \in Seq(QueueEntry)
      /\ Len(heap') = Len(heap) - 1
      /\ \A i \in 2..Len(heap') : heap'[i] = heap[i]
      /\ Len(heap) > 1 => heap'[1] = heap[Len(heap)]
  <2>1. CASE ~(Len(heap) > 1)
    <3>1. heap' = <<>>
      BY <2>1 DEF DispatchTask
    <3>2. PICK n \in Nat : n = Len(heap)
      BY <1>1
    <3>3. n - 1 = 0
      BY <1>1, <2>1, <3>2
    <3> QED
      BY <2>1, <3>1, <3>2, <3>3
  <2>2. CASE Len(heap) > 1
    <3> DEFINE n == Len(heap) - 1
    <3>1. heap' = [Front(heap) EXCEPT ![1] = Last(heap)]
      BY <2>2 DEF DispatchTask
    <3>2. n \in Int /\ 1 <= n /\ (n - 1) + 1 = n
      BY <1>1, <2>2
    <3>3. \A i \in 1..n : heap[i] \in QueueEntry
      BY <1>1
    <3>4. Front(heap) = SubSeq(heap, 1, n)
      BY DEF Front
    <3> HIDE DEF n
    <3>5. Front(heap) \in Seq(QueueEntry)
      BY <3>2, <3>3, <3>4, SubSeqProperties
    <3>6. Len(Front(heap)) = n
      BY <3>2, <3>3, <3>4, SubSeqProperties
    <3>7. \A i \in 1..n : Front(heap)[i] = heap[i]
      BY <3>2, <3>3, <3>4, SubSeqProperties
    <3>8. Last(heap) = heap[Len(heap)] /\ heap[Len(heap)] \in QueueEntry
      BY <1>1 DEF Last
    <3>9. n = Len(heap) - 1
      BY DEF n
    <3>10. heap' \in Seq(QueueEntry) /\ Len(heap') = n
      BY <3>1, <3>2, <3>5, <3>6, <3>8
    <3>11. heap'[1] = heap[Len(heap)] /\ \A i \in 2..n : heap'[i] = heap[i]
      BY <3>1, <3>2, <3>5, <3>6, <3>7, <3>8
    <3> QED
      BY <1>1, <3>9, <3>10, <3>11
  <2> QED
    BY <2>1, <2>2
<1>5. \A i \in DOMAIN heap' : \E k \in DOMAIN heap :
        /\ heap'[i] = heap[k] /\ k # 1
        /\ IF i = 1 THEN k = Len(heap) ELSE k = i
  BY <1>1, <1>4
<1>6. \A k \in DOMAIN heap : k # 1 => \E i \in DOMAIN heap' : heap'[i] = heap[k]
  <2> SUFFICES ASSUME NEW k \in DOMAIN heap, k # 1
               PROVE  \E i \in DOMAIN heap' : heap'[i] = heap[k]
    OBVIOUS
  <2>1. CASE k = Len(heap)
    BY <1>1, <1>4, <2>1
  <2>2. CASE k # Len(heap)
    <3>1. k \in 2..Len(heap') /\ k \in DOMAIN heap'
      BY <1>1, <1>4, <2>2
    <3> QED
      BY <1>4, <3>1
  <2> QED
    BY <2>1, <2>2
<1>7. TypeOK'
  <2>1. hole' \in 0..Len(heap')
    BY <1>1, <1>4 DEF IInv, TypeOK, DispatchTask
  <2>2. sinking' \in BOOLEAN
    <3>1. CASE ~(Len(heap) > 1)
      BY <3>1, Zenon DEF IInv, TypeOK, DispatchTask
    <3>2. CASE Len(heap) > 1
      <4>1. sinking' = (Len(heap') > 1)
        BY <3>2, Zenon DEF DispatchTask
      <4> QED
        BY <4>1
    <3> QED
      BY <3>1, <3>2
  <2> QED
    BY <1>2, <1>4, <2>1, <2>2 DEF IInv, TypeOK
<1>8. LoopInv'
  BY <1>2 DEF IInv, LoopInv, AllQueued, SQLiteJob
<1>9. EntriesInv'
  <2> SUFFICES ASSUME NEW i \in DOMAIN heap'
               PROVE  /\ heap'[i].object.job \in DOMAIN jobs_
                      /\ heap'[i].object.task \in 1..NumTasks
                      /\ heap'[i] = Entry(jobs_, heap'[i].object)
                      /\ Before(heap'[i].object, next)
    BY <1>2 DEF EntriesInv
  <2>1. PICK k \in DOMAIN heap : heap'[i] = heap[k]
    BY <1>5
  <2> QED
    BY <2>1 DEF IInv, EntriesInv
<1>10. NoEntryTwice'
  <2> SUFFICES ASSUME NEW i \in DOMAIN heap', NEW j \in DOMAIN heap', i # j
               PROVE  heap'[i].object # heap'[j].object
    BY DEF NoEntryTwice
  <2>1. PICK k \in DOMAIN heap :
          heap'[i] = heap[k] /\ IF i = 1 THEN k = Len(heap) ELSE k = i
    BY <1>5
  <2>2. PICK l \in DOMAIN heap :
          heap'[j] = heap[l] /\ IF j = 1 THEN l = Len(heap) ELSE l = j
    BY <1>5
  <2>3. k # l
    BY <1>1, <1>4, <2>1, <2>2
  <2> QED
    BY <2>1, <2>2, <2>3 DEF IInv, NoEntryTwice
<1>11. ToSet(heap') = ToSet(heap) \ {heap[1]}
  <2>1. ToSet(heap') \subseteq ToSet(heap) \ {heap[1]}
    BY <1>1, <1>3, <1>5 DEF ToSet
  <2>2. ToSet(heap) \ {heap[1]} \subseteq ToSet(heap')
    BY <1>6 DEF ToSet
  <2> QED
    BY <2>1, <2>2
<1> QED
  BY <1>4, <1>7, <1>8, <1>9, <1>10, <1>11

-----------------------------------------------------------------------------
(* What each step does to the order. *)

LEMMA GreaterChildIsChild ==
    ASSUME TypeOK, NEW i \in Nat \ {0}, 2 * i \in 2..Len(heap)
    PROVE  /\ GreaterChild(i) \in 2..Len(heap)
           /\ GreaterChild(i) \div 2 = i
           /\ GreaterChild(i) > i
           /\ \A s \in 2..Len(heap) :
                s \div 2 = i /\ s # GreaterChild(i) =>
                    MayPrecede(heap[GreaterChild(i)], heap[s])
<1>1. /\ (2 * i) \div 2 = i /\ (2 * i + 1) \div 2 = i
      /\ \A c \in Nat : c \div 2 = i => c = 2 * i \/ c = 2 * i + 1
  BY Children
<1>2. /\ GreaterChild(i) \in 2..Len(heap)
      /\ GreaterChild(i) = 2 * i \/ GreaterChild(i) = 2 * i + 1
  BY DEF GreaterChild, TypeOK
<1>3. ASSUME NEW s \in 2..Len(heap), s \div 2 = i, s # GreaterChild(i)
      PROVE  MayPrecede(heap[GreaterChild(i)], heap[s])
  <2>1. s = 2 * i \/ s = 2 * i + 1
    BY <1>1, <1>3
  <2>2. CASE s = 2 * i
    <3>1. /\ GreaterChild(i) = 2 * i + 1
          /\ ~PriorityCompare(heap[2 * i + 1], heap[2 * i])
      BY <1>2, <1>3, <2>2 DEF GreaterChild
    <3> QED
      BY <2>2, <3>1 DEF MayPrecede
  <2>3. CASE s = 2 * i + 1
    <3>1. /\ GreaterChild(i) = 2 * i
          /\ PriorityCompare(heap[2 * i + 1], heap[2 * i])
      BY <1>2, <1>3, <2>3 DEF GreaterChild
    <3> QED
      BY <2>3, <3>1 DEF MayPrecede
  <2> QED
    BY <2>1, <2>2, <2>3
<1> QED
  BY <1>1, <1>2, <1>3

\* The hole and the greater child change places.
LEMMA SinkMoves ==
    ASSUME IInv, Sink
    PROVE  /\ hole \in DOMAIN heap /\ hole' \in 2..Len(heap)
           /\ hole' \div 2 = hole /\ hole' > hole
           /\ heap' = Exchange(hole, hole')
           /\ \A s \in 2..Len(heap) :
                s \div 2 = hole /\ s # hole' => MayPrecede(heap[hole'], heap[s])
<1>1. hole \in Nat \ {0} /\ 2 * hole \in 2..Len(heap) /\ Len(heap) \in Nat
  BY DEF IInv, TypeOK, Sink, SinkInv
<1>2. hole \in DOMAIN heap
  BY <1>1 DEF IInv, TypeOK
<1>3. hole' = GreaterChild(hole) /\ heap' = Exchange(hole, hole')
  BY DEF Sink
<1> QED
  BY <1>1, <1>2, <1>3, GreaterChildIsChild DEF IInv

LEMMA SinkEntries ==
    ASSUME IInv, Sink
    PROVE  /\ TypeOK' /\ LoopInv' /\ EntriesInv' /\ NoEntryTwice' /\ SinkInv'
           /\ ToSet(heap') = ToSet(heap)
<1>1. /\ hole \in DOMAIN heap /\ hole' \in 2..Len(heap) /\ hole' > hole
      /\ heap' = Exchange(hole, hole')
  BY SinkMoves
<1>2. UNCHANGED <<dry_run, jobs_, next>>
  BY DEF Sink
<1>3. /\ Len(heap) \in Nat /\ hole' \in Nat \ {0} /\ hole' >= 2
      /\ hole' \in DOMAIN heap /\ hole # hole'
  BY <1>1 DEF IInv, TypeOK
<1>4. LoopInv' /\ EntriesInv' /\ NoEntryTwice' /\ ToSet(heap') = ToSet(heap)
  BY <1>1, <1>2, <1>3, ExchangeKeeps
<1>5. heap' \in Seq(QueueEntry) /\ Len(heap') = Len(heap)
  BY <1>1, <1>3, ExchangeEntries DEF IInv
<1>6. ASSUME sinking' PROVE 2 * hole' \in 2..Len(heap')
  <2> DEFINE c == 2 * hole'
  <2>1. c \in Nat /\ c >= 2
    BY <1>3, ChildrenBelow
  <2>2. c <= Len(heap)
    BY <1>6, Zenon DEF Sink
  <2> HIDE DEF c
  <2>3. c \in 2..Len(heap)
    BY <1>3, <2>1, <2>2
  <2> QED
    BY <1>5, <2>3, Zenon DEF c
<1>7. sinking' \in BOOLEAN
  <2>1. sinking' = (2 * hole' <= Len(heap))
    BY Zenon DEF Sink
  <2> QED
    BY <2>1
<1>8. hole' \in 0..Len(heap')
  BY <1>1, <1>3, <1>5
<1>9. TypeOK'
  BY <1>2, <1>5, <1>7, <1>8 DEF IInv, TypeOK
<1> QED
  BY <1>4, <1>6, <1>9 DEF SinkInv

LEMMA SinkOrder ==
    ASSUME IInv, Sink, Ordered
    PROVE  HeapInv' /\ HoleInv' /\ RiseInv'
<1>1. HeapInv /\ HoleInv /\ RiseInv /\ TypeOK
  BY DEF IInv, OrderInv
<1>2. /\ hole \in DOMAIN heap /\ hole' \in 2..Len(heap)
      /\ hole' \div 2 = hole /\ hole' > hole
      /\ heap' = Exchange(hole, hole')
      /\ \A s \in 2..Len(heap) :
           s \div 2 = hole /\ s # hole' => MayPrecede(heap[hole'], heap[s])
  BY SinkMoves
<1>3. /\ Len(heap) \in Nat /\ DOMAIN heap = 1..Len(heap)
      /\ hole \in 1..Len(heap) /\ hole' \in 1..Len(heap)
  BY <1>1, <1>2 DEF TypeOK
<1>typed. /\ Len(heap) \in Nat /\ hole \in Nat \ {0} /\ hole' \in Nat \ {0}
      /\ hole' >= 2
  BY <1>2, <1>3
<1>4. /\ Len(heap') = Len(heap)
      /\ heap'[hole] = heap[hole']
      /\ \A k \in 1..Len(heap) : k # hole /\ k # hole' => heap'[k] = heap[k]
  BY <1>1, <1>2, <1>3, ExchangeEntries
<1>5. \A i \in 2..Len(heap) : i \div 2 \in 1..Len(heap) /\ i \div 2 < i
  BY <1>3, Halves
<1>6. HeapInv'
  <2> SUFFICES ASSUME NEW i \in 2..Len(heap), i # hole', i \div 2 # hole'
               PROVE  MayPrecede(heap'[i \div 2], heap'[i])
    BY <1>4 DEF HeapInv
  <2>1. CASE i = hole
    <3>1. hole > 1 /\ heap'[hole \div 2] = heap[hole \div 2]
      BY <1>3, <1>4, <1>5, <2>1
    <3> QED
      BY <1>1, <1>2, <1>4, <2>1, <3>1 DEF HoleInv
  <2>2. CASE i \div 2 = hole
    <3>1. heap'[i] = heap[i]
      BY <1>3, <1>4, <1>5, <2>2
    <3> QED
      BY <1>2, <1>4, <2>2, <3>1
  <2>3. CASE i # hole /\ i \div 2 # hole
    <3>1. heap'[i] = heap[i] /\ heap'[i \div 2] = heap[i \div 2]
      BY <1>3, <1>4, <1>5, <2>3
    <3> QED
      BY <1>1, <2>3, <3>1 DEF HeapInv
  <2> QED
    BY <2>1, <2>2, <2>3
<1>7. ASSUME NEW c \in 2..Len(heap), c \div 2 = hole'
      PROVE  MayPrecede(heap'[hole' \div 2], heap'[c])
  <2>1. c # hole /\ c # hole'
    BY <1>2, <1>3, <1>5, <1>7
  <2>2. heap'[c] = heap[c] /\ heap'[hole' \div 2] = heap[c \div 2]
    BY <1>2, <1>3, <1>4, <1>7, <2>1
  <2>3. c \div 2 # hole
    BY <1>2, <1>3, <1>7
  <2> QED
    BY <1>1, <2>1, <2>2, <2>3 DEF HeapInv
<1>8. HoleInv'
  <2>1. ASSUME ~sinking', NEW c \in 2..Len(heap) PROVE c \div 2 # hole'
    <3>1. ~ (2 * hole' <= Len(heap))
      BY <2>1, Zenon DEF Sink
    <3>2. c \in Nat /\ c <= Len(heap)
      BY <1>typed
    <3>3. c \div 2 = hole' => c = 2 * hole' \/ c = 2 * hole' + 1
      BY <1>typed, <3>2, Children, Zenon
    <3> QED
      BY <1>typed, <3>1, <3>2, <3>3
  <2> QED
    BY <1>4, <1>7, <2>1 DEF HoleInv
<1>9. RiseInv'
  <2>1. CASE OnePriority
    BY <2>1 DEF RiseInv, OnePriority, Sink
  <2>2. CASE ~OnePriority
    <3>1. sinking /\ hole # 0
      BY DEF Sink
    <3>2. PICK path \in SUBSET (1..Len(heap)) : Path(path)
      BY <1>1, <2>2, <3>1 DEF RiseInv, Newest
    <3>3. PICK path2 \in SUBSET (1..Len(heap')) : path2 = path \cup {hole'}
      BY <1>3, <1>4
    <3>4. hole' \in path2 /\ hole \in path
      BY <3>2, <3>3 DEF Path
    <3>5. \A i \in path2 : i > 1 => i \div 2 \in path2
      BY <1>2, <3>2, <3>3, <3>4 DEF Path
    <3>6. (2 * hole = hole' \/ 2 * hole + 1 = hole') /\ ~ (hole' \in path)
      <4>1. hole' = 2 * hole \/ hole' = 2 * hole + 1
        BY <1>typed, <1>2, Children
      <4> QED
        BY <3>2, <4>1 DEF Path
    <3>7. \A i \in path2 : ~ (2 * i \in path2 /\ 2 * i + 1 \in path2)
      <4> SUFFICES ASSUME NEW i \in path2, 2 * i \in path2, 2 * i + 1 \in path2
                   PROVE  FALSE
        OBVIOUS
      <4>1. i \in Nat \ {0} /\ hole \in Nat \ {0}
        BY <1>3, <3>3, <1>4
      <4>2. i = hole
        <5>1. i = (2 * i) \div 2 /\ i = (2 * i + 1) \div 2
          BY <4>1, Children
        <5>2. CASE 2 * i = hole' \/ 2 * i + 1 = hole'
          BY <1>2, <5>1, <5>2
        <5>3. CASE 2 * i \in path /\ 2 * i + 1 \in path
          <6>1. i \in path
            BY <3>2, <4>1, <5>1, <5>3 DEF Path
          <6> QED
            BY <3>2, <5>3, <6>1 DEF Path
        <5> QED
          BY <3>3, <5>2, <5>3
      <4> QED
        BY <3>2, <3>3, <3>6, <4>1, <4>2 DEF Path
    <3>8. ~ (2 * hole' \in path2) /\ ~ (2 * hole' + 1 \in path2)
      <4> SUFFICES ASSUME NEW c \in path2, c = 2 * hole' \/ c = 2 * hole' + 1
                   PROVE  FALSE
        OBVIOUS
      <4>1. hole' \in Nat \ {0} /\ c > hole' /\ c \div 2 = hole'
        <5>1. (2 * hole') \div 2 = hole' /\ (2 * hole' + 1) \div 2 = hole'
          BY <1>typed, Children, Zenon
        <5> QED
          BY <1>typed, <5>1, ChildrenBelow
      <4>2. c \in path /\ c > 1
        BY <1>3, <3>3, <4>1
      <4> QED
        BY <3>2, <3>6, <4>1, <4>2 DEF Path
    <3>9. ASSUME NEW i \in path2, NEW c \in 2..Len(heap),
                 i > 1, c \div 2 = i, ~ (c \in path2)
          PROVE  MayPrecede(heap'[i \div 2], heap'[c])
      <4>1. c # hole /\ c # hole' /\ heap'[c] = heap[c]
        BY <1>3, <1>4, <3>3, <3>4, <3>9
      <4>2. i \in 2..Len(heap) /\ i \div 2 \in 1..Len(heap)
        BY <1>3, <1>4, <1>5, <3>3, <3>9
      <4>3. CASE i = hole'
        BY <1>7, <3>9, <4>3
      <4>4. CASE i # hole'
        <5>1. i \in path
          BY <3>3, <4>4
        <5>2. i \div 2 # hole'
          <6> SUFFICES ASSUME i \div 2 = hole' PROVE FALSE
            OBVIOUS
          <6> QED
            BY <3>2, <3>6, <4>2, <5>1 DEF Path
        <5>3. i \div 2 # hole
          <6> SUFFICES ASSUME i \div 2 = hole PROVE FALSE
            OBVIOUS
          <6>1. i = 2 * hole \/ i = 2 * hole + 1
            BY <1>3, <4>2, Children
          <6> QED
            BY <3>2, <5>1, <6>1 DEF Path
        <5>4. heap'[i \div 2] = heap[i \div 2]
          BY <1>4, <4>2, <5>2, <5>3
        <5> QED
          BY <3>2, <3>3, <3>9, <4>1, <5>1, <5>4 DEF Path
      <4> QED
        BY <4>3, <4>4
    <3>10. Path(path2)'
      BY <1>4, <3>4, <3>5, <3>7, <3>8, <3>9 DEF Path
    <3> QED
      BY <3>3, <3>10 DEF RiseInv
  <2> QED
    BY <2>1, <2>2
<1> QED
  BY <1>6, <1>8, <1>9

LEMMA OnePriorityInHeap ==
    ASSUME IInv, OnePriority, NEW i \in DOMAIN heap, NEW j \in DOMAIN heap
    PROVE  heap[i].priority = heap[j].priority
<1>1. \A k \in DOMAIN heap :
        /\ heap[k].object.job \in DOMAIN jobs_
        /\ heap[k].priority = jobs_[heap[k].object.job].priority
  BY DEF IInv, EntriesInv, Entry
<1> QED
  BY <1>1 DEF OnePriority

\* The value may rise: what was its sibling finds an ancestor it may follow.
LEMMA GrandparentMayPrecede ==
    ASSUME IInv, Rise, Ordered, NEW c \in 2..Len(heap),
           c \div 2 = hole \div 2, c # hole, hole \div 2 > 1
    PROVE  MayPrecede(heap[(hole \div 2) \div 2], heap[c])
<1> DEFINE p == hole \div 2
<1>1. HeapInv /\ HoleInv /\ RiseInv /\ TypeOK
  BY DEF IInv, OrderInv
<1>2. /\ Len(heap) \in Nat /\ DOMAIN heap = 1..Len(heap)
      /\ hole \in 2..Len(heap) /\ PriorityCompare(heap[p], heap[hole])
  BY <1>1 DEF TypeOK, Rise
<1>3. /\ p \in 2..Len(heap) /\ p < hole /\ c \div 2 = p
      /\ p \div 2 \in 1..Len(heap) /\ p \div 2 < p
  BY <1>2, Halves
<1> HIDE DEF p
<1>4. CASE OnePriority
  <2>1. MayPrecede(heap[p \div 2], heap[p])
    BY <1>1, <1>2, <1>3 DEF HeapInv
  <2>2. MayPrecede(heap[c \div 2], heap[c])
    BY <1>1, <1>2, <1>3 DEF HeapInv
  <2>3. /\ heap[p \div 2] \in QueueEntry /\ heap[p] \in QueueEntry
        /\ heap[c] \in QueueEntry
    BY <1>1, <1>2, <1>3 DEF TypeOK
  <2>4. /\ heap[p \div 2].priority = heap[p].priority
        /\ heap[p].priority = heap[c].priority
    BY <1>2, <1>3, <1>4, OnePriorityInHeap
  <2>5. MayPrecede(heap[p \div 2], heap[c])
    BY <1>3, <2>1, <2>2, <2>3, <2>4, MayPrecedeTransitive
  <2> QED
    BY <2>5 DEF p
<1>5. ASSUME NEW path \in SUBSET (1..Len(heap)), Path(path)
      PROVE  MayPrecede(heap[p \div 2], heap[c])
  <2>1. p \in path
    BY <1>2, <1>5 DEF Path, p
  <2>2. ~ (c \in path)
    <3>1. hole = 2 * p \/ hole = 2 * p + 1
      BY <1>2, Halves DEF p
    <3>2. c = 2 * p \/ c = 2 * p + 1
      BY <1>2, <1>3, Halves
    <3> QED
      BY <1>5, <2>1, <3>1, <3>2 DEF Path
  <2> QED
    BY <1>3, <1>5, <2>1, <2>2 DEF Path
<1>6. ~Newest
  BY <1>2, <1>3 DEF Newest
<1>7. hole # 0
  BY <1>2
<1> QED
  BY <1>1, <1>4, <1>5, <1>6, <1>7 DEF RiseInv, p

LEMMA RiseOrder ==
    ASSUME IInv, Rise, Ordered
    PROVE  HeapInv' /\ HoleInv' /\ RiseInv'
<1> DEFINE p == hole \div 2
<1>1. HeapInv /\ HoleInv /\ RiseInv /\ TypeOK
  BY DEF IInv, OrderInv
<1>2. /\ Len(heap) \in Nat /\ DOMAIN heap = 1..Len(heap)
      /\ hole \in 2..Len(heap) /\ PriorityCompare(heap[p], heap[hole])
      /\ hole' = p /\ heap' = Exchange(hole, p)
      /\ ~sinking /\ ~sinking' /\ jobs_' = jobs_
  BY <1>1 DEF TypeOK, Rise
<1>3. p \in 1..Len(heap) /\ p < hole
  BY <1>2, Halves
<1>4. /\ Len(heap') = Len(heap)
      /\ heap'[hole] = heap[p] /\ heap'[p] = heap[hole]
      /\ \A k \in 1..Len(heap) : k # hole /\ k # p => heap'[k] = heap[k]
  BY <1>1, <1>2, <1>3, ExchangeEntries
<1>5. \A i \in 2..Len(heap) : i \div 2 \in 1..Len(heap) /\ i \div 2 < i
  BY <1>2, Halves
<1>6. \A i \in 1..Len(heap) : heap[i] \in QueueEntry
  BY <1>1 DEF TypeOK
<1>7. hole = 2 * p \/ hole = 2 * p + 1
  BY <1>2, Halves
<1>8. \A c \in 2..Len(heap) : c \div 2 = p => c # p /\ (c = 2 * p \/ c = 2 * p + 1)
  BY <1>2, <1>3, Halves
<1>9. p > 1 => \A c \in 2..Len(heap) :
                 c \div 2 = p /\ c # hole => MayPrecede(heap[p \div 2], heap[c])
  BY GrandparentMayPrecede
<1>10. hole \div 2 = p
  OBVIOUS
<1> HIDE DEF p
<1>11. HeapInv'
  <2> SUFFICES ASSUME NEW i \in 2..Len(heap), i # p, i \div 2 # p
               PROVE  MayPrecede(heap'[i \div 2], heap'[i])
    BY <1>2, <1>4 DEF HeapInv
  <2>1. i # hole /\ heap'[i] = heap[i]
    BY <1>2, <1>4, <1>10
  <2>2. CASE i \div 2 = hole
    BY <1>1, <1>2, <1>4, <1>10, <2>1, <2>2 DEF HoleInv
  <2>3. CASE i \div 2 # hole
    <3>1. heap'[i \div 2] = heap[i \div 2]
      BY <1>4, <1>5, <2>3
    <3> QED
      BY <1>1, <2>1, <2>3, <3>1 DEF HeapInv
  <2> QED
    BY <2>2, <2>3
<1>12. ASSUME p > 1, NEW c \in 2..Len(heap), c \div 2 = p
       PROVE  MayPrecede(heap'[p \div 2], heap'[c])
  <2>1. p \in 2..Len(heap) /\ p \div 2 < p
    BY <1>2, <1>3, <1>5, <1>12
  <2>2. heap'[p \div 2] = heap[p \div 2] /\ p \div 2 # hole
    BY <1>2, <1>3, <1>4, <1>5, <2>1
  <2>3. CASE c = hole
    <3>1. MayPrecede(heap[p \div 2], heap[p])
      BY <1>1, <1>2, <1>3, <2>1, <2>2 DEF HeapInv
    <3> QED
      BY <1>4, <2>2, <2>3, <3>1
  <2>4. CASE c # hole
    <3>1. heap'[c] = heap[c]
      BY <1>4, <1>8, <1>12, <2>4
    <3> QED
      BY <1>9, <1>12, <2>2, <2>4, <3>1
  <2> QED
    BY <2>3, <2>4
<1>13. ASSUME NEW c \in 2..Len(heap), c \div 2 = p
       PROVE  MayPrecede(heap'[p], heap'[c])
  <2>1. CASE c = hole
    BY <1>2, <1>4, <2>1 DEF MayPrecede
  <2>2. CASE c # hole
    <3>1. heap'[c] = heap[c]
      BY <1>4, <1>8, <1>13, <2>2
    <3>2. MayPrecede(heap[p], heap[c])
      BY <1>1, <1>2, <1>3, <1>13, <2>2 DEF HeapInv
    <3>3. MayPrecede(heap[hole], heap[c])
      BY <1>2, <1>3, <1>6, <3>2, RisingPrecedes
    <3> QED
      BY <1>4, <3>1, <3>3
  <2> QED
    BY <2>1, <2>2
<1>14. HoleInv'
  BY <1>2, <1>4, <1>12, <1>13 DEF HoleInv
<1>15. RiseInv'
  <2>1. CASE OnePriority
    BY <1>2, <2>1 DEF RiseInv, OnePriority
  <2>2. CASE ~OnePriority
    <3>1. ~Newest /\ hole # 0
      BY <1>2, <1>3 DEF Newest
    <3>2. PICK path \in SUBSET (1..Len(heap)) : Path(path)
      BY <1>1, <2>2, <3>1 DEF RiseInv
    <3>3. PICK path2 \in SUBSET (1..Len(heap')) : path2 = path \ {hole}
      BY <1>4
    <3>4. hole \in path /\ p \in path /\ p \in path2
      BY <1>2, <1>3, <1>10, <3>2, <3>3 DEF Path
    <3>5. \A i \in path2 : i > 1 => i \div 2 \in path2
      <4> SUFFICES ASSUME NEW i \in path2, i > 1, i \div 2 = hole PROVE FALSE
        BY <3>2, <3>3 DEF Path
      <4>1. i = 2 * hole \/ i = 2 * hole + 1
        BY <1>2, <3>3, Halves
      <4> QED
        BY <3>2, <3>3, <4>1 DEF Path
    <3>6. \A i \in path2 : ~ (2 * i \in path2 /\ 2 * i + 1 \in path2)
      BY <3>2, <3>3 DEF Path
    <3>7. ~ (2 * p \in path2) /\ ~ (2 * p + 1 \in path2)
      BY <1>7, <3>2, <3>3, <3>4 DEF Path
    <3>8. ASSUME NEW i \in path2, NEW c \in 2..Len(heap),
                 i > 1, c \div 2 = i, ~ (c \in path2)
          PROVE  MayPrecede(heap'[i \div 2], heap'[c])
      <4>1. CASE i = p
        BY <1>12, <3>8, <4>1
      <4>2. CASE i # p
        <5>1. i \in path /\ i # hole /\ i \div 2 # hole
          BY <3>3, <3>4, <3>5, <3>8
        <5>2. c # hole /\ c # p
          <6>1. c # hole
            BY <1>10, <3>8, <4>2
          <6> QED
            BY <3>4, <3>8, <6>1
        <5>3. i \div 2 # p
          <6> SUFFICES ASSUME i \div 2 = p PROVE FALSE
            OBVIOUS
          <6>1. i = 2 * p \/ i = 2 * p + 1
            BY <1>2, <3>3, <3>8, Halves
          <6> QED
            BY <3>7, <3>8, <6>1
        <5>4. i \in 2..Len(heap)
          BY <1>2, <3>2, <3>3, <3>8
        <5>5. heap'[c] = heap[c] /\ heap'[i \div 2] = heap[i \div 2]
          BY <1>4, <1>5, <5>1, <5>2, <5>3, <5>4
        <5>6. ~ (c \in path)
          BY <3>3, <3>8, <5>2
        <5> QED
          BY <3>2, <3>8, <5>1, <5>5, <5>6 DEF Path
      <4> QED
        BY <4>1, <4>2
    <3>9. Path(path2)'
      BY <1>2, <1>4, <3>4, <3>5, <3>6, <3>7, <3>8 DEF Path
    <3> QED
      BY <3>3, <3>9 DEF RiseInv
  <2> QED
    BY <2>1, <2>2
<1> QED
  BY <1>11, <1>14, <1>15

LEMMA SettleOrder ==
    ASSUME IInv, Settle, Ordered
    PROVE  HeapInv' /\ HoleInv' /\ RiseInv'
<1>1. HeapInv /\ HoleInv /\ TypeOK
  BY DEF IInv, OrderInv
<1>2. /\ hole > 0 /\ ~sinking /\ ~sinking'
      /\ hole > 1 => ~PriorityCompare(heap[hole \div 2], heap[hole])
      /\ hole' = 0 /\ heap' = heap
  BY DEF Settle
<1>3. ASSUME NEW i \in 2..Len(heap) PROVE MayPrecede(heap[i \div 2], heap[i])
  <2>1. CASE i = hole
    BY <1>2, <2>1 DEF MayPrecede
  <2>2. CASE i \div 2 = hole
    BY <1>1, <1>2, <2>2 DEF HoleInv
  <2>3. CASE i # hole /\ i \div 2 # hole
    BY <1>1, <2>3 DEF HeapInv
  <2> QED
    BY <2>1, <2>2, <2>3
<1>4. HeapInv'
  BY <1>2, <1>3 DEF HeapInv
<1>5. HoleInv'
  BY <1>2 DEF HoleInv
<1>6. RiseInv'
  BY <1>2 DEF RiseInv
<1> QED
  BY <1>4, <1>5, <1>6

\* With SQLite tasks are pushed in the order of their ids, and jobs in theirs:
\* whatever their priorities, the last one is not to leave before another.
LEMMA PushedInOrder ==
    ASSUME IInv, ~dry_run, ~AllQueued, NEW i \in DOMAIN heap
    PROVE  ~PriorityCompare(heap[i], Entry(jobs_, next))
<1> DEFINE o == heap[i].object
           base == (next.job - 1) * NumTasks
           e == Entry(jobs_, next)
<1>1. /\ o \in QueueObject /\ next \in QueueObject
      /\ heap[i] = Entry(jobs_, o)
      /\ o.job \in DOMAIN jobs_ /\ o.task \in 1..NumTasks
      /\ Before(o, next)
  BY PassedEntries DEF IInv, TypeOK, EntriesInv
<1>2. next.job \in DOMAIN jobs_ /\ next.task \in 1..NumTasks
  BY NextTaskIsLater DEF IInv
<1>3. \A j \in DOMAIN jobs_ : jobs_[j] = SQLiteJob(j, jobs_[j].priority)
  BY DEF IInv, LoopInv
<1>4. \A j \in DOMAIN jobs_ :
        /\ jobs_[j].id = j
        /\ \A t \in 1..NumTasks : jobs_[j].tasks[t] = (j - 1) * NumTasks + t
  <2> SUFFICES ASSUME NEW j \in DOMAIN jobs_
               PROVE  /\ jobs_[j].id = j
                      /\ \A t \in 1..NumTasks :
                           jobs_[j].tasks[t] = (j - 1) * NumTasks + t
    OBVIOUS
  <2> DEFINE p == jobs_[j].priority
  <2>1. jobs_[j] = SQLiteJob(j, p)
    BY <1>3
  <2> HIDE DEF p
  <2>2. /\ SQLiteJob(j, p).id = j
        /\ SQLiteJob(j, p).tasks = [i_ \in 1..NumTasks |-> (j - 1) * NumTasks + i_]
    BY DEF SQLiteJob
  <2> QED
    BY <2>1, <2>2
<1>5. heap[i].job = o.job /\ e.job = next.job
  BY <1>1, <1>2, <1>4 DEF Entry
<1>6. e.task = base + next.task
  BY <1>2, <1>4 DEF Entry
<1>7. o.job \in Nat /\ next.job \in Nat /\ o.task \in Nat /\ next.task \in Nat
  BY <1>1 DEF QueueObject
<1>8. base \in Int
  BY <1>7, TypesAssumption
<1>9. o.job = next.job => /\ heap[i].task = base + o.task
                          /\ heap[i].priority = e.priority
  BY <1>1, <1>4 DEF Entry
<1>10. \/ o.job < next.job
       \/ o.job = next.job /\ o.task < next.task
  BY <1>1 DEF Before
<1> HIDE DEF o, base, e
<1>11. CASE o.job < next.job
  BY <1>5, <1>7, <1>11 DEF PriorityCompare, e
<1>12. CASE o.job = next.job /\ o.task < next.task
  <2>1. heap[i].task < e.task
    BY <1>6, <1>7, <1>8, <1>9, <1>12
  <2> QED
    BY <1>5, <1>9, <1>12, <2>1 DEF PriorityCompare, e
<1> QED
  BY <1>10, <1>11, <1>12

LEMMA PushTaskOrder ==
    ASSUME IInv, PushTask, Ordered
    PROVE  HeapInv' /\ HoleInv' /\ RiseInv'
<1>1. HeapInv /\ HoleInv /\ TypeOK
  BY DEF IInv, OrderInv
<1>2. hole = 0 /\ ~AllQueued /\ UNCHANGED <<dry_run, jobs_, sinking>>
  BY DEF PushTask
<1>3. /\ Len(heap') = Len(heap) + 1
      /\ hole' = Len(heap) + 1
      /\ \A i \in DOMAIN heap : heap'[i] = heap[i]
      /\ heap'[Len(heap) + 1] = Entry(jobs_, next)
      /\ TypeOK'
  BY PushTaskEntries
<1>4. /\ Len(heap) \in Nat /\ DOMAIN heap = 1..Len(heap)
      /\ DOMAIN heap' = 1..(Len(heap) + 1)
  BY <1>1, <1>3 DEF TypeOK
<1>5. ~sinking
  BY <1>2 DEF IInv, SinkInv
<1>6. HeapInv'
  <2> SUFFICES ASSUME NEW i \in 2..(Len(heap) + 1), i # Len(heap) + 1
               PROVE  MayPrecede(heap'[i \div 2], heap'[i])
    BY <1>3 DEF HeapInv
  <2>1. i \in 2..Len(heap)
    BY <1>4
  <2>2. i \div 2 \in 1..Len(heap)
    BY <1>4, <2>1, Halves
  <2>3. MayPrecede(heap[i \div 2], heap[i])
    BY <1>1, <1>2, <2>1, <2>2 DEF HeapInv
  <2> QED
    BY <1>3, <1>4, <2>1, <2>2, <2>3
<1>7. \A c \in 2..(Len(heap) + 1) : c \div 2 # Len(heap) + 1
  BY <1>4, Halves
<1>8. HoleInv'
  BY <1>2, <1>3, <1>5, <1>7 DEF HoleInv
<1>9. RiseInv'
  <2>1. CASE OnePriority
    BY <1>2, <2>1 DEF RiseInv, OnePriority
  <2>2. CASE ~dry_run
    <3>1. \A i \in DOMAIN heap : ~PriorityCompare(heap[i], Entry(jobs_, next))
      BY <1>2, <2>2, PushedInOrder
    <3>2. Newest'
      BY <1>2, <1>3, <1>4, <1>5, <3>1 DEF Newest
    <3> QED
      BY <3>2 DEF RiseInv
  <2> QED
    BY <2>1, <2>2 DEF Ordered
<1> QED
  BY <1>6, <1>8, <1>9

LEMMA DispatchTaskOrder ==
    ASSUME IInv, DispatchTask, Ordered
    PROVE  HeapInv' /\ HoleInv' /\ RiseInv'
<1>1. HeapInv /\ HoleInv /\ TypeOK
  BY DEF IInv, OrderInv
<1>2. /\ Len(heap') = Len(heap) - 1
      /\ \A i \in 2..Len(heap') : heap'[i] = heap[i]
      /\ TypeOK'
  BY DispatchTaskEntries
<1>3. Len(heap) \in Nat /\ Len(heap') \in Nat
  BY <1>1, <1>2 DEF TypeOK
<1>4. hole = 0 /\ ~sinking
  BY DEF IInv, SinkInv, DispatchTask
<1>5. CASE Len(heap) > 1
  <2>1. hole' = 1
    BY <1>5, Zenon DEF DispatchTask
  <2>2. HeapInv'
    <3> SUFFICES ASSUME NEW i \in 2..Len(heap'), i \div 2 # 1
                 PROVE  MayPrecede(heap'[i \div 2], heap'[i])
      BY <2>1 DEF HeapInv
    <3>1. i \in 2..Len(heap) /\ i \div 2 \in 2..Len(heap')
      BY <1>2, <1>3, Halves
    <3>2. MayPrecede(heap[i \div 2], heap[i])
      BY <1>1, <1>4, <3>1 DEF HeapInv
    <3> QED
      BY <1>2, <3>1, <3>2
  <2>3. HoleInv'
    <3>1. ASSUME ~sinking' PROVE 2..Len(heap') = {}
      <4>1. ~ (Len(heap') > 1)
        BY <1>5, <3>1, Zenon DEF DispatchTask
      <4> QED
        BY <1>3, <4>1
    <3> QED
      BY <2>1, <3>1 DEF HoleInv
  <2>4. RiseInv'
    <3>1. Len(heap') >= 1
      BY <1>2, <1>3, <1>5
    <3>2. 1 \in 1..Len(heap')
      BY <1>3, <3>1
    <3>3. PICK path \in SUBSET (1..Len(heap')) : path = {1}
      BY <3>2
    <3>4. Path(path)'
      BY <2>1, <3>3 DEF Path
    <3> QED
      BY <3>3, <3>4 DEF RiseInv
  <2> QED
    BY <2>2, <2>3, <2>4
<1>6. CASE ~(Len(heap) > 1)
  <2>1. hole' = 0 /\ sinking' = sinking
    BY <1>4, <1>6, Zenon DEF DispatchTask
  <2>2. 2..Len(heap') = {}
    BY <1>2, <1>3, <1>6
  <2>3. HeapInv'
    BY <2>2 DEF HeapInv
  <2>4. HoleInv'
    BY <1>4, <2>1 DEF HoleInv
  <2>5. RiseInv'
    BY <2>1 DEF RiseInv
  <2> QED
    BY <2>3, <2>4, <2>5
<1> QED
  BY <1>5, <1>6

LEMMA InsertJobOrder ==
    ASSUME IInv, NEW priority \in JobPriorities, InsertJob(priority)
    PROVE  /\ Ordered' => Ordered
           /\ OrderInv'
<1>1. /\ hole = 0 /\ UNCHANGED <<dry_run, next, heap, hole, sinking>>
      /\ jobs_ \in Seq(JobObject)
      /\ \E job : jobs_' = Append(jobs_, job)
  BY DEF IInv, TypeOK, InsertJob
<1>2. \A j \in DOMAIN jobs_ : j \in DOMAIN jobs_' /\ jobs_'[j] = jobs_[j]
  BY <1>1
<1>3. Ordered' => Ordered
  BY <1>1, <1>2 DEF Ordered, OnePriority
<1>4. ASSUME Ordered PROVE HeapInv' /\ HoleInv' /\ RiseInv'
  BY <1>1, <1>4 DEF IInv, OrderInv, HeapInv, HoleInv, RiseInv
<1> QED
  BY <1>3, <1>4 DEF OrderInv

LEMMA DispatchTaskSinks ==
    ASSUME IInv, DispatchTask
    PROVE  SinkInv'
<1>1. TypeOK' /\ Len(heap') \in Nat
  BY DispatchTaskEntries DEF TypeOK
<1>2. hole = 0 /\ ~sinking
  BY DEF IInv, SinkInv, DispatchTask
<1> SUFFICES ASSUME sinking' PROVE 2 * hole' \in 2..Len(heap')
  BY DEF SinkInv
<1>3. hole' = 1 /\ Len(heap') > 1
  BY <1>2, Zenon DEF DispatchTask
<1> QED
  BY <1>1, <1>3

-----------------------------------------------------------------------------
(* The invariant is inductive. *)

LEMMA InitIInv ==
    ASSUME Init
    PROVE  IInv
<1>1. TypeOK /\ LoopInv /\ EntriesInv /\ NoEntryTwice
  BY InitEntries
<1>2. heap = <<>> /\ hole = 0 /\ ~sinking
  BY DEF Init
<1>3. 2..Len(heap) = {}
  BY <1>2
<1>4. OrderInv
  BY <1>2, <1>3 DEF OrderInv, HeapInv, HoleInv, RiseInv
<1> QED
  BY <1>1, <1>2, <1>4 DEF IInv, SinkInv

\* Only InsertJob changes what Ordered depends on.
LEMMA OrderedUnchanged ==
    ASSUME UNCHANGED <<dry_run, jobs_>>
    PROVE  Ordered' <=> Ordered
  BY DEF Ordered, OnePriority

LEMMA RiseEntries ==
    ASSUME IInv, Rise
    PROVE  /\ TypeOK' /\ LoopInv' /\ EntriesInv' /\ NoEntryTwice' /\ SinkInv'
           /\ ToSet(heap') = ToSet(heap)
<1>1. /\ hole > 1 /\ ~sinking /\ heap' = Exchange(hole, hole \div 2)
      /\ hole' = hole \div 2 /\ UNCHANGED <<dry_run, jobs_, next, sinking>>
  BY DEF Rise
<1>2. Len(heap) \in Nat /\ hole \in 2..Len(heap) /\ DOMAIN heap = 1..Len(heap)
  BY <1>1 DEF IInv, TypeOK
<1>3. /\ hole \in DOMAIN heap /\ hole \div 2 \in DOMAIN heap
      /\ hole # hole \div 2 /\ hole \div 2 \in 0..Len(heap)
  BY <1>2, Halves
<1>4. LoopInv' /\ EntriesInv' /\ NoEntryTwice' /\ ToSet(heap') = ToSet(heap)
  BY <1>1, <1>3, ExchangeKeeps
<1>5. heap' \in Seq(QueueEntry) /\ Len(heap') = Len(heap)
  BY <1>1, <1>3, ExchangeEntries DEF IInv
<1>6. TypeOK'
  BY <1>1, <1>3, <1>5 DEF IInv, TypeOK
<1> QED
  BY <1>1, <1>4, <1>6 DEF SinkInv

LEMMA SettleEntries ==
    ASSUME IInv, Settle
    PROVE  /\ TypeOK' /\ LoopInv' /\ EntriesInv' /\ NoEntryTwice' /\ SinkInv'
           /\ ToSet(heap') = ToSet(heap)
<1>1. ~sinking /\ hole' = 0 /\ UNCHANGED <<dry_run, jobs_, next, heap, sinking>>
  BY DEF Settle
<1>2. TypeOK'
  BY <1>1 DEF IInv, TypeOK
<1>3. LoopInv'
  BY <1>1 DEF IInv, LoopInv, AllQueued, SQLiteJob
<1>4. EntriesInv' /\ NoEntryTwice' /\ SinkInv'
  BY <1>1 DEF IInv, EntriesInv, NoEntryTwice, SinkInv
<1> QED
  BY <1>1, <1>2, <1>3, <1>4

LEMMA NextIInv ==
    ASSUME IInv, [Next]_vars
    PROVE  IInv'
<1> DEFINE Kept == TypeOK' /\ LoopInv' /\ EntriesInv' /\ NoEntryTwice' /\ SinkInv'
<1>1. ASSUME NEW priority \in JobPriorities, InsertJob(priority)
      PROVE  Kept /\ OrderInv'
  <2>1. SinkInv'
    BY <1>1 DEF IInv, SinkInv, InsertJob
  <2> QED
    BY <1>1, <2>1, InsertJobEntries, InsertJobOrder
<1>2. ASSUME PushTask PROVE Kept /\ OrderInv'
  <2>1. SinkInv'
    BY <1>2 DEF IInv, SinkInv, PushTask
  <2>2. UNCHANGED <<dry_run, jobs_>>
    BY <1>2 DEF PushTask
  <2>3. OrderInv'
    BY <1>2, <2>2, OrderedUnchanged, PushTaskOrder DEF OrderInv
  <2> QED
    BY <1>2, <2>1, <2>3, PushTaskEntries
<1>3. ASSUME SkipTask PROVE Kept /\ OrderInv'
  <2>1. UNCHANGED <<dry_run, jobs_, heap, hole, sinking>>
    BY <1>3 DEF SkipTask
  <2>2. SinkInv'
    BY <2>1 DEF IInv, SinkInv
  <2>3. OrderInv'
    BY <2>1 DEF IInv, OrderInv, Ordered, OnePriority, HeapInv, HoleInv,
                RiseInv, Newest, Path
  <2> QED
    BY <1>3, <2>2, <2>3, SkipTaskEntries
<1>4. ASSUME DispatchTask PROVE Kept /\ OrderInv'
  <2>1. UNCHANGED <<dry_run, jobs_>>
    BY <1>4 DEF DispatchTask
  <2>2. OrderInv'
    BY <1>4, <2>1, OrderedUnchanged, DispatchTaskOrder DEF OrderInv
  <2>3. SinkInv'
    BY <1>4, DispatchTaskSinks
  <2> QED
    BY <1>4, <2>2, <2>3, DispatchTaskEntries
<1>5. ASSUME Sink PROVE Kept /\ OrderInv'
  <2>1. UNCHANGED <<dry_run, jobs_>>
    BY <1>5 DEF Sink
  <2>2. OrderInv'
    BY <1>5, <2>1, OrderedUnchanged, SinkOrder DEF OrderInv
  <2> QED
    BY <1>5, <2>2, SinkEntries
<1>6. ASSUME Rise PROVE Kept /\ OrderInv'
  <2>1. UNCHANGED <<dry_run, jobs_>>
    BY <1>6 DEF Rise
  <2>2. OrderInv'
    BY <1>6, <2>1, OrderedUnchanged, RiseOrder DEF OrderInv
  <2> QED
    BY <1>6, <2>2, RiseEntries
<1>7. ASSUME Settle PROVE Kept /\ OrderInv'
  <2>1. UNCHANGED <<dry_run, jobs_>>
    BY <1>7 DEF Settle
  <2>2. OrderInv'
    BY <1>7, <2>1, OrderedUnchanged, SettleOrder DEF OrderInv
  <2> QED
    BY <1>7, <2>2, SettleEntries
<1>8. ASSUME UNCHANGED vars PROVE Kept /\ OrderInv'
  BY <1>8 DEF vars, IInv, TypeOK, LoopInv, AllQueued, SQLiteJob, EntriesInv,
              NoEntryTwice, SinkInv, OrderInv, Ordered, OnePriority, HeapInv,
              HoleInv, RiseInv, Newest, Path
<1> HIDE DEF Kept
<1>9. Kept /\ OrderInv'
  BY <1>1, <1>2, <1>3, <1>4, <1>5, <1>6, <1>7, <1>8 DEF Next
<1> QED
  BY <1>9 DEF IInv, Kept

-----------------------------------------------------------------------------
(* What is at the root. *)

LEMMA LeastElement ==
    ASSUME NEW S \in SUBSET Nat, S # {}
    PROVE  \E n \in S : \A m \in S : n <= m
<1> DEFINE R == OpToRel(<, Nat)
<1>1. IsWellFoundedOn(R, Nat)
  BY NatLessThanWellFounded
<1>2. \A m, n \in Nat : <<m, n>> \in R <=> m < n
  BY DEF OpToRel
<1> HIDE DEF R
<1>3. PICK n \in S : \A m \in S : ~ (<<m, n>> \in R)
  BY <1>1, WFMin
<1>4. \A m \in S : n <= m
  <2> TAKE m \in S
  <2>1. m \in Nat /\ n \in Nat /\ ~ (<<m, n>> \in R)
    BY <1>3
  <2>2. ~ (m < n)
    BY <1>2, <2>1
  <2> QED
    BY <2>1, <2>2
<1> QED
  BY <1>4

\* Induction over a vector, from each parent to its children.
LEMMA HeapInduction ==
    ASSUME NEW n \in Nat, NEW Good \in SUBSET (1..n),
           1 \in 1..n => 1 \in Good,
           \A i \in 2..n : i \div 2 \in Good => i \in Good
    PROVE  Good = 1..n
<1> SUFFICES ASSUME NEW k \in 1..n, ~ (k \in Good) PROVE FALSE
  OBVIOUS
<1> DEFINE Bad == {i \in 1..n : ~ (i \in Good)}
<1>1. Bad \in SUBSET Nat /\ Bad # {}
  OBVIOUS
<1>2. PICK i \in Bad : \A j \in Bad : i <= j
  BY <1>1, LeastElement
<1>3. i \in 1..n /\ i \in Nat \ {0} /\ ~ (i \in Good)
  BY <1>2
<1>4. i > 1
  BY <1>3
<1>5. i \in 2..n
  BY <1>3, <1>4
<1>6. i \div 2 \in 1..n /\ i \div 2 < i
  BY <1>5, Halves
<1>7. i \div 2 \in Good
  <2> SUFFICES ASSUME ~ (i \div 2 \in Good) PROVE FALSE
    OBVIOUS
  <2>1. i \div 2 \in Bad
    BY <1>6
  <2>2. i <= i \div 2
    BY <1>2, <2>1
  <2> QED
    BY <1>3, <1>6, <2>2
<1> QED
  BY <1>3, <1>5, <1>7

\* Between algorithms the vector is a heap.
LEMMA SettledHeap ==
    ASSUME IInv, Ordered, hole = 0
    PROVE  \A i \in 2..Len(heap) : MayPrecede(heap[i \div 2], heap[i])
<1>1. \A i \in 2..Len(heap) : i # 0 /\ i \div 2 # 0
  BY Halves DEF IInv, TypeOK
<1> QED
  BY <1>1 DEF IInv, OrderInv, HeapInv

LEMMA RootByIds ==
    ASSUME IInv
    PROVE  EqualPrioritiesByIds
<1> DEFINE Before1(i) == \/ heap[1].job < heap[i].job
                         \/ heap[1].job = heap[i].job /\ heap[1].task <= heap[i].task
<1> SUFFICES ASSUME hole = 0, Ordered,
                    \A i, j \in DOMAIN heap : heap[i].priority = heap[j].priority
             PROVE  \A i \in DOMAIN heap : Before1(i)
  BY DEF EqualPrioritiesByIds
<1>1. /\ Len(heap) \in Nat /\ DOMAIN heap = 1..Len(heap)
      /\ \A i \in 1..Len(heap) : heap[i] \in QueueEntry
  BY DEF IInv, TypeOK
<1>2. \A i \in 2..Len(heap) : MayPrecede(heap[i \div 2], heap[i])
  BY SettledHeap
<1> DEFINE Good == {i \in 1..Len(heap) : MayPrecede(heap[1], heap[i])}
<1>3. 1 \in 1..Len(heap) => 1 \in Good
  BY DEF MayPrecede
<1>4. ASSUME NEW i \in 2..Len(heap), i \div 2 \in Good PROVE i \in Good
  <2>1. i \div 2 \in 1..Len(heap) /\ MayPrecede(heap[1], heap[i \div 2])
    BY <1>4
  <2>2. MayPrecede(heap[1], heap[i])
    BY <1>1, <1>2, <2>1, MayPrecedeTransitive
  <2> QED
    BY <2>2
<1>5. Good \in SUBSET (1..Len(heap))
  OBVIOUS
<1> HIDE DEF Good
<1>6. Good = 1..Len(heap)
  BY <1>1, <1>3, <1>4, <1>5, HeapInduction
<1>7. ASSUME NEW i \in 1..Len(heap) PROVE Before1(i)
  <2>1. MayPrecede(heap[1], heap[i])
    BY <1>6 DEF Good
  <2>2. 1 \in 1..Len(heap)
    BY <1>1
  <2> QED
    BY <1>1, <2>1, <2>2, OfOnePriority
<1> QED
  BY <1>1, <1>7

\* In a strict weak order, to follow only what may be followed is transitive.
LEMMA MayPrecedeInStrictWeakOrder ==
    ASSUME NEW entries, IsStrictWeakOrder(entries),
           entries \subseteq QueueEntry,
           NEW a \in entries, NEW b \in entries, NEW c \in entries,
           a # c, b # c,
           ~PriorityCompare(a, b), MayPrecede(b, c)
    PROVE  ~PriorityCompare(a, c)
<1>1. a \in QueueEntry /\ b \in QueueEntry /\ c \in QueueEntry
  OBVIOUS
<1>2. ~ (PriorityCompare(b, c) /\ PriorityCompare(c, b))
  BY DEF IsStrictWeakOrder
<1>3. ~PriorityCompare(b, c)
  BY <1>2 DEF MayPrecede
<1> SUFFICES ASSUME PriorityCompare(a, c) PROVE FALSE
  OBVIOUS
<1>4. ~PriorityCompare(b, a)
  BY <1>1, <1>3, PriorityCompareTransitive
<1>5. ~PriorityCompare(c, b)
  BY <1>1, PriorityCompareTransitive
<1>6. Incomparable(a, b) /\ Incomparable(b, c)
  BY <1>3, <1>4, <1>5 DEF Incomparable
<1>7. Incomparable(a, c)
  BY <1>6 DEF IsStrictWeakOrder
<1> QED
  BY <1>7 DEF Incomparable

LEMMA RootIsTop ==
    ASSUME IInv, Ordered, hole = 0, heap # <<>>
    PROVE  heap[1] \in TopEntries(ToSet(heap))
<1>1. /\ Len(heap) \in Nat /\ DOMAIN heap = 1..Len(heap) /\ 1 \in 1..Len(heap)
      /\ \A i \in 1..Len(heap) : heap[i] \in QueueEntry
  BY DEF IInv, TypeOK
<1>2. /\ \A i \in 1..Len(heap) : heap[i] \in ToSet(heap)
      /\ \A e \in ToSet(heap) : \E i \in 1..Len(heap) : e = heap[i]
      /\ ToSet(heap) \subseteq QueueEntry
  BY <1>1 DEF ToSet
<1>3. \A i, j \in 1..Len(heap) : i # j => heap[i] # heap[j]
  BY <1>1 DEF IInv, NoEntryTwice
<1>4. \A i \in 2..Len(heap) : MayPrecede(heap[i \div 2], heap[i])
  BY SettledHeap
<1>5. ASSUME IsStrictWeakOrder(ToSet(heap)), NEW f \in ToSet(heap) \ {heap[1]}
      PROVE  ~PriorityCompare(heap[1], f)
  <2> DEFINE Good == {i \in 1..Len(heap) :
                        i = 1 \/ ~PriorityCompare(heap[1], heap[i])}
  <2>1. 1 \in 1..Len(heap) => 1 \in Good
    OBVIOUS
  <2>2. ASSUME NEW i \in 2..Len(heap), i \div 2 \in Good PROVE i \in Good
    <3>1. i \in 1..Len(heap) /\ i # 1 /\ i \div 2 \in 1..Len(heap) /\ i # i \div 2
      BY <1>1, <2>2, Halves
    <3>2. heap[1] # heap[i] /\ heap[i \div 2] # heap[i]
      BY <1>1, <1>3, <3>1
    <3>3. MayPrecede(heap[i \div 2], heap[i])
      BY <1>4
    <3>4. CASE i \div 2 = 1
      <4>1. MayPrecede(heap[1], heap[i])
        BY <3>3, <3>4
      <4>2. ~ (/\ PriorityCompare(heap[1], heap[i])
               /\ PriorityCompare(heap[i], heap[1]))
        BY <1>1, <1>2, <1>5, <3>1, <3>2 DEF IsStrictWeakOrder
      <4> QED
        BY <3>1, <4>1, <4>2 DEF MayPrecede
    <3>5. CASE i \div 2 # 1
      <4>1. ~PriorityCompare(heap[1], heap[i \div 2])
        BY <2>2, <3>5
      <4>2. ~PriorityCompare(heap[1], heap[i])
        BY <1>1, <1>2, <1>5, <3>1, <3>2, <3>3, <4>1, MayPrecedeInStrictWeakOrder
      <4> QED
        BY <3>1, <4>2
    <3> QED
      BY <3>4, <3>5
  <2>3. Good \in SUBSET (1..Len(heap))
    OBVIOUS
  <2> HIDE DEF Good
  <2>4. Good = 1..Len(heap)
    BY <1>1, <2>1, <2>2, <2>3, HeapInduction
  <2>5. PICK i \in 1..Len(heap) : f = heap[i]
    BY <1>2, <1>5
  <2> QED
    BY <1>5, <2>4, <2>5 DEF Good
<1> QED
  BY <1>1, <1>2, <1>5 DEF TopEntries

-----------------------------------------------------------------------------
(* Theorems. *)

\* The parts of the state have the types of TypeOK.
THEOREM HeapTypeCorrect == Spec => []TypeOK
<1>1. Init => IInv
  BY InitIInv
<1>2. IInv /\ [Next]_vars => IInv'
  BY NextIInv
<1>3. IInv => TypeOK
  BY DEF IInv
<1> QED
  BY <1>1, <1>2, <1>3, PTL DEF Spec

\* Tasks of jobs of one priority leave by the ids of jobs and tasks.
THEOREM TasksLeaveByIds == Spec => []EqualPrioritiesByIds
<1>1. Init => IInv
  BY InitIInv
<1>2. IInv /\ [Next]_vars => IInv'
  BY NextIInv
<1>3. IInv => EqualPrioritiesByIds
  BY RootByIds
<1> QED
  BY <1>1, <1>2, <1>3, PTL DEF Spec

LEMMA StepIsPoolStep ==
    ASSUME IInv, IInv', [Next]_vars
    PROVE  [Pool!Next]_<<ToSet(heap), Ordered>>
<1>1. ToSet(heap) \in SUBSET QueueEntry /\ ToSet(heap') \in SUBSET QueueEntry
  BY DEF IInv, TypeOK, ToSet
<1>2. ASSUME UNCHANGED <<dry_run, jobs_>>, ToSet(heap') = ToSet(heap)
      PROVE  UNCHANGED <<ToSet(heap), Ordered>>
  BY <1>2 DEF Ordered, OnePriority
<1>3. ASSUME NEW priority \in JobPriorities, InsertJob(priority)
      PROVE  Pool!Push
  <2>1. Ordered' => Ordered
    BY <1>3, InsertJobOrder
  <2>2. heap' = heap
    BY <1>3 DEF InsertJob
  <2> QED
    BY <1>1, <2>1, <2>2
    DEF Pool!Push, Pool!QueueEntry, Pool!QueueObject, QueueEntry, QueueObject
<1>4. ASSUME PushTask PROVE Pool!Push
  <2>1. \A i \in DOMAIN heap : i \in DOMAIN heap' /\ heap'[i] = heap[i]
    BY <1>4, PushTaskEntries
  <2>2. ToSet(heap) \subseteq ToSet(heap')
    BY <2>1 DEF ToSet
  <2>3. Ordered' => Ordered
    BY <1>4, OrderedUnchanged DEF PushTask
  <2> QED
    BY <1>1, <2>2, <2>3
    DEF Pool!Push, Pool!QueueEntry, Pool!QueueObject, QueueEntry, QueueObject
<1>5. ASSUME DispatchTask PROVE \E e \in ToSet(heap) : Pool!Pop(e)
  <2>1. /\ hole = 0 /\ heap # <<>> /\ UNCHANGED <<dry_run, jobs_>>
    BY <1>5 DEF DispatchTask
  <2>2. ToSet(heap') = ToSet(heap) \ {heap[1]}
    BY <1>5, DispatchTaskEntries
  <2>3. heap[1] \in ToSet(heap)
    BY <2>1 DEF IInv, TypeOK, ToSet
  <2>4. Ordered => heap[1] \in TopEntries(ToSet(heap))
    BY <2>1, RootIsTop
  <2>5. Ordered' = Ordered
    BY <2>1 DEF Ordered, OnePriority
  <2>6. Pool!TopEntries(ToSet(heap)) = TopEntries(ToSet(heap))
    BY DEF TopEntries, IsStrictWeakOrder, Incomparable, PriorityCompare,
           Pool!TopEntries, Pool!IsStrictWeakOrder, Pool!Incomparable,
           Pool!PriorityCompare
  <2> QED
    BY <2>2, <2>3, <2>4, <2>5, <2>6 DEF Pool!Pop
<1>6. ASSUME SkipTask PROVE UNCHANGED <<ToSet(heap), Ordered>>
  BY <1>6, <1>2 DEF SkipTask
<1>7. ASSUME Sink PROVE UNCHANGED <<ToSet(heap), Ordered>>
  BY <1>7, <1>2, SinkEntries DEF Sink
<1>8. ASSUME Rise PROVE UNCHANGED <<ToSet(heap), Ordered>>
  BY <1>8, <1>2, RiseEntries DEF Rise
<1>9. ASSUME Settle PROVE UNCHANGED <<ToSet(heap), Ordered>>
  BY <1>9, <1>2, SettleEntries DEF Settle
<1>10. ASSUME UNCHANGED vars PROVE UNCHANGED <<ToSet(heap), Ordered>>
  BY <1>10, <1>2 DEF vars
<1> QED
  BY <1>3, <1>4, <1>5, <1>6, <1>7, <1>8, <1>9, <1>10 DEF Next, Pool!Next

\* The heap algorithms implement the queue that Farm relies on, for any jobs,
\* tasks and priorities, although their comparator is not a strict weak order.
THEOREM HeapIsAPool == Spec => PoolSpec
<1>1. Init => IInv
  BY InitIInv
<1>2. IInv /\ [Next]_vars => IInv'
  BY NextIInv
<1>3. Init => Pool!Init
  <2>1. Init => ToSet(heap) = {}
    BY DEF Init, ToSet
  <2>2. Ordered \in BOOLEAN
    BY DEF Ordered, OnePriority
  <2> QED
    BY <2>1, <2>2 DEF Pool!Init
<1>4. IInv /\ IInv' /\ [Next]_vars => [Pool!Next]_<<ToSet(heap), Ordered>>
  BY StepIsPoolStep
<1> QED
  BY <1>1, <1>2, <1>3, <1>4, PTL DEF Spec, PoolSpec, Pool!Spec

=============================================================================
