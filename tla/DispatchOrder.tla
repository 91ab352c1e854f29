---------------------------- MODULE DispatchOrder ----------------------------
(***************************************************************************)
(* The order in which queued tasks are handed out.  A queue entry stands   *)
(* for a QueueTask: a pointer to a job and one to a task, from which the   *)
(* comparator reads the priority of the job and the two ids.  The pointers *)
(* are "object": ids need not be unique, unless SQLite assigns them.       *)
(***************************************************************************)
EXTENDS FarmTypes

\* The objects pointed to: a job, and a task of it.
QueueObject == [job : Nat \ {0}, task : Nat \ {0}]

QueueEntry == [priority : JobPriorities, job : Int, task : Int,
               object : QueueObject]

\* Mutant of the next definition: the ids of the tasks are not compared.
PriorityCompareJobs(left, right) ==
    /\ left.priority >= right.priority
    /\ left.job >= right.job

\* QueueTaskPriorityCompare, the "less than" of the priority queue: TRUE
\* when "left" is to leave the queue after "right".
PriorityCompare(left, right) ==
    /\ left.priority >= right.priority
    /\ left.job >= right.job
    /\ ~ /\ left.priority = right.priority
         /\ left.job = right.job
         /\ left.task < right.task

Incomparable(a, b) == ~PriorityCompare(a, b) /\ ~PriorityCompare(b, a)

\* Between entries with distinct keys the comparator is always a partial order;
\* of two with equal keys it says that each leaves after the other.  The queue
\* also needs incomparability to be transitive, which it is not when a later
\* job has the smaller priority value.
IsStrictWeakOrder(entries) ==
    \A a, b, c \in entries :
        /\ a # b => ~(PriorityCompare(a, b) /\ PriorityCompare(b, a))
        /\ Incomparable(a, b) /\ Incomparable(b, c) /\ a # c => Incomparable(a, c)

\* The entries the queue may have at its top.  std::priority_queue promises
\* an entry that no other one is to precede, provided that the comparator is
\* a strict weak order on its contents; otherwise it promises nothing.
TopEntries(entries) ==
    IF IsStrictWeakOrder(entries)
    THEN {e \in entries : \A f \in entries \ {e} : ~PriorityCompare(e, f)}
    ELSE entries

=============================================================================
