------------------------------ MODULE TaskHeap ------------------------------
(***************************************************************************)
(* The priority queue itself: std::priority_queue over a vector, with the  *)
(* heap algorithms of libstdc++ and the comparator of the farm.  The       *)
(* library is told that the comparator is a strict weak order, which it is *)
(* not, so what it does is spelled out here instead of assumed.            *)
(*                                                                         *)
(* The vector is a sequence with its root at 1; the parent of i is i \div  *)
(* 2.  Each round of a loop is an action.  The value that an algorithm     *)
(* holds in a variable is shown in the hole, so that a move into the hole, *)
(* which leaves another hole, is an exchange.                              *)
(*                                                                         *)
(* The ids of jobs and tasks come from SQLite or, in a dry run, from       *)
(* DryRunStorage, which gives the jobs inserted later none.                *)
(***************************************************************************)
EXTENDS DispatchOrder, SequencesExt

CONSTANTS
    RestoredJobs,  \* the number of jobs that SQLite restored
    NumDummyJobs,  \* the number of jobs that a dry run restores
    MaxJobs        \* bound: the number of jobs, restored or inserted

ASSUME HeapAssumption ==
    /\ {RestoredJobs, NumDummyJobs, MaxJobs} \subseteq Nat
    /\ NumTasks > 0
    /\ 50 \in JobPriorities  \* that of the jobs of DryRunStorage

VARIABLES
    dry_run,  \* the program was built with DRY_RUN_STORAGE
    jobs_,    \* the jobs in memory, with the ids of their tasks
    next,     \* the task that the loops over jobs and tasks come to
    heap,     \* the vector inside tasks_queue_
    hole,     \* the hole of the heap algorithm under way, or 0
    sinking   \* the hole is on its way down, in __adjust_heap

vars == <<dry_run, jobs_, next, heap, hole, sinking>>

DryRun == INSTANCE DryRunStorage

-----------------------------------------------------------------------------
(* Jobs, and the entries of their tasks. *)

\* The j-th job when SQLite has assigned row ids to it and to its tasks.
SQLiteJob(j, priority) ==
    [id |-> j, priority |-> priority, status |-> "WAITING",
     tasks |-> [i \in 1..NumTasks |-> (j - 1) * NumTasks + i]]

\* A job as insert_job creates it, with generate_tasks(1).
NewJob(priority) ==
    [id |-> -1, priority |-> priority, status |-> "WAITING",
     tasks |-> [i \in 1..NumTasks |-> 1]]

\* What either storage makes of a job.
JobObject == [id : Int, priority : JobPriorities, status : {"WAITING"},
              tasks : [1..NumTasks -> Int]]

Entry(jobs, object) ==
    [priority |-> jobs[object.job].priority, job |-> jobs[object.job].id,
     task |-> jobs[object.job].tasks[object.task], object |-> object]

\* Mutant of the next definition: the tasks of further jobs are counted from 0.
NextTaskFromZero(object) ==
    IF object.task < NumTasks
    THEN [job |-> object.job, task |-> object.task + 1]
    ELSE [job |-> object.job + 1, task |-> 0]

NextTask(object) ==
    IF object.task < NumTasks
    THEN [job |-> object.job, task |-> object.task + 1]
    ELSE [job |-> object.job + 1, task |-> 1]

\* The loops have come to their end, or not yet.
AllQueued == next.job > Len(jobs_)

-----------------------------------------------------------------------------

\* restore comes to rebuild_priority_queue.
Init ==
    /\ dry_run \in BOOLEAN
    /\ IF dry_run
       THEN jobs_ = DryRun!RetrieveAllJobs
       ELSE \E priorities \in [1..RestoredJobs -> JobPriorities] :
              jobs_ = [j \in 1..RestoredJobs |-> SQLiteJob(j, priorities[j])]
    /\ next = [job |-> 1, task |-> 1]
    /\ heap = <<>>
    /\ hole = 0
    /\ sinking = FALSE

\* insert_job comes to its loop, under the ids the storage assigned.
InsertJob(priority) ==
    /\ hole = 0
    /\ AllQueued
    /\ Len(jobs_) < MaxJobs
    /\ jobs_' = Append(jobs_, IF dry_run
                              THEN DryRun!InsertJob(NewJob(priority))
                              ELSE SQLiteJob(Len(jobs_) + 1, priority))
    /\ UNCHANGED <<dry_run, next, heap, hole, sinking>>

\* push: the vector grows by the entry, and push_heap is called.
PushTask ==
    /\ hole = 0
    /\ ~AllQueued
    /\ heap' = Append(heap, Entry(jobs_, next))
    /\ hole' = Len(heap) + 1
    /\ next' = NextTask(next)
    /\ UNCHANGED <<dry_run, jobs_, sinking>>

\* rebuild_priority_queue passes by a task of a restored job when it or its
\* job is not waiting.  In a dry run they all are.
SkipTask ==
    /\ hole = 0
    /\ ~dry_run
    /\ next.job <= RestoredJobs
    /\ next' = NextTask(next)
    /\ UNCHANGED <<dry_run, jobs_, heap, hole, sinking>>

\* top and pop in dispatch_task, up to the loop of __adjust_heap: the root
\* is the hole for the last entry.
DispatchTask ==
    /\ hole = 0
    /\ AllQueued
    /\ heap # <<>>
    /\ IF Len(heap) > 1
       THEN /\ heap' = [Front(heap) EXCEPT ![1] = Last(heap)]
            /\ hole' = 1
            /\ sinking' = (Len(heap') > 1)
       ELSE heap' = <<>> /\ UNCHANGED <<hole, sinking>>
    /\ UNCHANGED <<dry_run, jobs_, next>>

-----------------------------------------------------------------------------
(* The heap algorithms. *)

Exchange(i, j) == [heap EXCEPT ![i] = heap[j], ![j] = heap[i]]

\* Mutant of the next definition: the lesser child.
LesserChild(i) ==
    IF 2 * i + 1 > Len(heap) \/ ~PriorityCompare(heap[2 * i + 1], heap[2 * i])
    THEN 2 * i
    ELSE 2 * i + 1

\* The child __adjust_heap moves into the hole at i: the right one, unless
\* it is missing or compares less than the left one.
GreaterChild(i) ==
    IF 2 * i + 1 > Len(heap) \/ PriorityCompare(heap[2 * i + 1], heap[2 * i])
    THEN 2 * i
    ELSE 2 * i + 1

\* A round of __adjust_heap, which calls __push_heap when it is at a leaf.
Sink ==
    /\ hole > 0
    /\ sinking
    /\ hole' = GreaterChild(hole)
    /\ heap' = Exchange(hole, hole')
    /\ sinking' = (2 * hole' <= Len(heap))
    /\ UNCHANGED <<dry_run, jobs_, next>>

\* A round of __push_heap: the value is to leave before the parent of the hole.
Rise ==
    /\ hole > 1
    /\ ~sinking
    /\ PriorityCompare(heap[hole \div 2], heap[hole])
    /\ heap' = Exchange(hole, hole \div 2)
    /\ hole' = hole \div 2
    /\ UNCHANGED <<dry_run, jobs_, next, sinking>>

\* The end of __push_heap: the value stays where the hole is.
Settle ==
    /\ hole > 0
    /\ ~sinking
    /\ hole > 1 => ~PriorityCompare(heap[hole \div 2], heap[hole])
    /\ hole' = 0
    /\ UNCHANGED <<dry_run, jobs_, next, heap, sinking>>

Next ==
    \/ \E priority \in JobPriorities : InsertJob(priority)
    \/ PushTask
    \/ SkipTask
    \/ DispatchTask
    \/ Sink
    \/ Rise
    \/ Settle

Spec == Init /\ [][Next]_vars

-----------------------------------------------------------------------------
(* Properties. *)

TypeOK ==
    /\ dry_run \in BOOLEAN
    /\ jobs_ \in Seq(JobObject)
    /\ next \in QueueObject
    /\ heap \in Seq(QueueEntry)
    /\ hole \in 0..Len(heap)
    /\ sinking \in BOOLEAN

\* Where the queue can be relied on: with SQLite, whose ids only grow, and in
\* a dry run as long as all jobs have one priority, as those main inserts do.
\* In a dry run with jobs of several priorities the vector may stop being a
\* heap, and stays so after the entries that disturbed it have left.
OnePriority == \A j, k \in DOMAIN jobs_ : jobs_[j].priority = jobs_[k].priority
Ordered == ~dry_run \/ OnePriority

\* The heap algorithms, run with this comparator, implement the queue that
\* Farm relies on: nothing is lost, and whenever the comparator happens to be
\* a strict weak order on what is queued, even in a heap built when it was
\* not, the entry that leaves is one that no other one is to precede.
Pool == INSTANCE TaskPool WITH queued <- ToSet(heap), ordered <- Ordered
PoolSpec == Pool!Spec

\* As long as all queued jobs have one priority, tasks leave by the id of their
\* job and then by their own, however pushes and pops mix.  With SQLite that is
\* the order in which they were created; in a dry run inserted jobs come first.
EqualPrioritiesByIds ==
    (/\ hole = 0
     /\ Ordered
     /\ \A i, j \in DOMAIN heap : heap[i].priority = heap[j].priority)
    => \A i \in DOMAIN heap :
         \/ heap[1].job < heap[i].job
         \/ heap[1].job = heap[i].job /\ heap[1].task <= heap[i].task

\* The queue is a priority queue: whether the small values or the great ones
\* are meant to be urgent, the next task has the most urgent value queued.
DispatchedByPriority ==
    hole = 0 =>
        \/ \A i \in DOMAIN heap : heap[1].priority <= heap[i].priority
        \/ \A i \in DOMAIN heap : heap[1].priority >= heap[i].priority

=============================================================================
