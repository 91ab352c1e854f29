-------------------------------- MODULE Farm --------------------------------
(***************************************************************************)
(* The farm: the jobs and tasks a server process keeps in memory, the      *)
(* queue it dispatches tasks from, and the storage it writes through.      *)
(*                                                                         *)
(* All of Farm runs on the thread of the main loop, one call at a time.    *)
(* The process may die between any two SQL statements, so the calls that   *)
(* execute several of them take several steps; "call" says which one is    *)
(* under way.  A process that died or was shut down is started again and   *)
(* restores its state from the file, or from what it can read of it: a     *)
(* read that fails looks like the end of the rows.                         *)
(***************************************************************************)
EXTENDS DispatchOrder, SQLiteStorage

CONSTANTS
    InsertStatuses,  \* the statuses insert_job is called with
    Times,           \* the readings of the clock
    MaxJobs          \* bound: the number of jobs ever inserted

ASSUME FarmAssumption ==
    /\ InsertStatuses \subseteq JobStatus
    /\ Times \subseteq Int
    /\ MaxJobs \in Nat

VARIABLES
    phase,         \* "up" while a process runs, between restore and the end
    storage_,      \* its connection, or the file alone while phase is "down"
    jobs_,         \* the jobs in memory, by id
    tasks_,        \* the tasks in memory, by id: the tasks_ of every job
    unread,        \* history: the ids of the rows that restore did not get
    tasks_queue_,  \* the ids of the queued tasks
    call,          \* the call under way
    handed         \* history: the tasks dispatch_task returned, less those
                   \* whose dispatch a crash undid

vars == <<phase, storage_, jobs_, tasks_, unread, tasks_queue_, call, handed>>

NoCall == [op |-> "none"]
InsertCall == [op : {"insert"}, job : Nat \ {0}, left : 0..NumTasks]
DispatchCall == [op : {"dispatch"}, job : Nat \ {0}, task : Nat \ {0}]

NothingUnread == [jobs |-> {}, tasks |-> {}]

\* The rows of a table that are in memory, when those with some ids are not.
Loaded(rows, missing) == [id \in DOMAIN rows \ missing |-> rows[id]]

\* A function with one more element in its domain.
With(f, x, value) == [y \in DOMAIN f \cup {x} |-> IF y = x THEN value ELSE f[y]]

TypeOK ==
    /\ phase \in {"down", "up"}
    /\ storage_ \in Connection
    /\ jobs_ \in [DOMAIN jobs_ -> JobRow]
    /\ tasks_ \in [DOMAIN tasks_ -> TaskRow]
    /\ unread \in [jobs : SUBSET (DOMAIN storage_.db.jobs),
                   tasks : SUBSET (DOMAIN storage_.db.tasks)]
    /\ tasks_queue_ \subseteq DOMAIN tasks_
    /\ call \in {NoCall} \cup InsertCall \cup DispatchCall
    /\ handed \subseteq Nat

Init ==
    /\ phase = "down"
    /\ storage_ = SqlOpen(EmptyDatabase)
    /\ jobs_ = <<>>
    /\ tasks_ = <<>>
    /\ unread = NothingUnread
    /\ tasks_queue_ = {}
    /\ call = NoCall
    /\ handed = {}

-----------------------------------------------------------------------------
(* Start-up. *)

\* Mutants of the next definition: the status of the task is not looked at,
\* a job that waits is not taken for a running one.
RestoredQueueAnyTask(rows) ==
    {t \in DOMAIN rows.tasks : IsRunning(rows.jobs[rows.tasks[t].job])}

RestoredQueueActiveJobs(rows) ==
    {t \in DOMAIN rows.tasks :
        /\ rows.jobs[rows.tasks[t].job].status = "ACTIVE"
        /\ rows.tasks[t].status = "WAITING"}

\* rebuild_priority_queue on rows that have just been read.
RestoredQueue(rows) ==
    {t \in DOMAIN rows.tasks :
        /\ IsRunning(rows.jobs[rows.tasks[t].job])
        /\ rows.tasks[t].status = "WAITING"}

\* main up to the HTTP server: connect, create_schema, restore.
Start ==
    /\ phase = "down"
    /\ phase' = "up"
    /\ storage_' = Connect(storage_.disk)
    /\ \E jobs \in RetrieveAllJobs(storage_') :
       \E tasks \in RetrieveAllTasks(storage_', jobs) :
         unread' = [jobs  |-> DOMAIN storage_'.db.jobs \ jobs,
                    tasks |-> DOMAIN storage_'.db.tasks \ tasks]
    /\ jobs_' = Loaded(storage_'.db.jobs, unread'.jobs)
    /\ tasks_' = Loaded(storage_'.db.tasks, unread'.tasks)
    /\ tasks_queue_' =
         tasks_queue_ \cup RestoredQueue([jobs |-> jobs_', tasks |-> tasks_'])
    /\ UNCHANGED <<call, handed>>

-----------------------------------------------------------------------------
(* insert_job. *)

InsertJob(priority, status, now) ==
    /\ phase = "up"
    /\ call = NoCall
    /\ Len(storage_.db.jobs) < MaxJobs
    /\ storage_' = InsertJobRow(storage_, now, priority, status)
    /\ call' = [op |-> "insert", job |-> Len(storage_'.db.jobs),
                left |-> NumTasks]
    /\ jobs_' = With(jobs_, call'.job, [priority |-> priority, status |-> status])
    /\ UNCHANGED <<phase, tasks_, unread, tasks_queue_, handed>>

\* Mutant: one round too many.
InsertTaskOneMore ==
    /\ call.op = "insert"
    /\ call.left >= 0
    /\ storage_' = InsertTaskRow(storage_, call.job, "WAITING")
    /\ tasks_' = With(tasks_, Len(storage_'.db.tasks),
                      [job |-> call.job, status |-> "WAITING"])
    /\ call' = [call EXCEPT !.left = @ - 1]
    /\ UNCHANGED <<phase, jobs_, unread, tasks_queue_, handed>>

\* A task enters "tasks_" when it gets its id.
InsertTask ==
    /\ call.op = "insert"
    /\ call.left > 0
    /\ storage_' = InsertTaskRow(storage_, call.job, "WAITING")
    /\ tasks_' = With(tasks_, Len(storage_'.db.tasks),
                      [job |-> call.job, status |-> "WAITING"])
    /\ call' = [call EXCEPT !.left = @ - 1]
    /\ UNCHANGED <<phase, jobs_, unread, tasks_queue_, handed>>

\* Mutant: the tasks are not queued.
InsertReturnUnqueued ==
    /\ call.op = "insert"
    /\ call.left = 0
    /\ storage_' = InsertJobCommit(storage_)
    /\ call' = NoCall
    /\ UNCHANGED <<phase, jobs_, tasks_, unread, tasks_queue_, handed>>

InsertReturn ==
    /\ call.op = "insert"
    /\ call.left = 0
    /\ storage_' = InsertJobCommit(storage_)
    /\ tasks_queue_' =
         tasks_queue_ \cup {t \in DOMAIN tasks_ : tasks_[t].job = call.job}
    /\ call' = NoCall
    /\ UNCHANGED <<phase, jobs_, tasks_, unread, handed>>

-----------------------------------------------------------------------------
(* dispatch_task. *)

Entry(t) == [priority |-> jobs_[tasks_[t].job].priority,
             job |-> tasks_[t].job, task |-> t,
             object |-> [job |-> tasks_[t].job, task |-> t]]

\* The tasks the queue may give next.
FrontTasks ==
    LET top == TopEntries({Entry(t) : t \in tasks_queue_})
    IN  {t \in tasks_queue_ : Entry(t) \in top}

DispatchTask(t, now) ==
    /\ phase = "up"
    /\ call = NoCall
    /\ t \in FrontTasks
    /\ tasks_queue_' = tasks_queue_ \ {t}
    /\ tasks_' = [tasks_ EXCEPT ![t].status = "ACTIVE"]
    /\ storage_' = UpdateTask(storage_, now, t, "ACTIVE")
    /\ call' = [op |-> "dispatch", job |-> tasks_[t].job, task |-> t]
    /\ UNCHANGED <<phase, jobs_, unread, handed>>

\* Mutant: the job is not updated in the storage.
DispatchReturnMemoryOnly ==
    /\ call.op = "dispatch"
    /\ jobs_' = [jobs_ EXCEPT ![call.job].status = "ACTIVE"]
    /\ handed' = handed \cup {call.task}
    /\ call' = NoCall
    /\ UNCHANGED <<phase, storage_, tasks_, unread, tasks_queue_>>

DispatchReturn ==
    /\ call.op = "dispatch"
    /\ IF jobs_[call.job].status # "ACTIVE"
       THEN /\ jobs_' = [jobs_ EXCEPT ![call.job].status = "ACTIVE"]
            /\ storage_' = UpdateJob(storage_, call.job, jobs_'[call.job])
       ELSE UNCHANGED <<jobs_, storage_>>
    /\ handed' = handed \cup {call.task}
    /\ call' = NoCall
    /\ UNCHANGED <<phase, tasks_, unread, tasks_queue_>>

-----------------------------------------------------------------------------
(* idle_handler and the end of the process. *)

IdleHandler(now) ==
    /\ phase = "up"
    /\ call = NoCall
    /\ storage_' = FlushCaches(storage_, now, FALSE)
    /\ UNCHANGED <<phase, jobs_, tasks_, unread, tasks_queue_, call, handed>>

\* The memory of the process is gone.
Exit ==
    /\ phase = "up"
    /\ phase' = "down"
    /\ jobs_' = <<>>
    /\ tasks_' = <<>>
    /\ unread' = NothingUnread
    /\ tasks_queue_' = {}
    /\ call' = NoCall

\* main after the main loop was quit: store does nothing, then disconnect.
Shutdown(now) ==
    /\ call = NoCall
    /\ storage_' = Disconnect(storage_, now)
    /\ Exit
    /\ UNCHANGED handed

Crash ==
    /\ Exit
    /\ storage_' = SqlOpen(storage_.disk)
    /\ handed' = {t \in handed \cap DOMAIN storage_.disk.tasks :
                    storage_.disk.tasks[t].status = "ACTIVE"}

\* The calls that read the clock, and those that do not.
TimedNext(now) ==
    \/ \E priority \in JobPriorities, status \in InsertStatuses :
         InsertJob(priority, status, now)
    \/ \E t \in tasks_queue_ : DispatchTask(t, now)
    \/ IdleHandler(now)
    \/ Shutdown(now)

UntimedNext ==
    \/ Start
    \/ InsertTask
    \/ InsertReturn
    \/ DispatchReturn
    \/ Crash

Next ==
    \/ \E now \in Times : TimedNext(now)
    \/ UntimedNext

Spec == Init /\ [][Next]_vars

-----------------------------------------------------------------------------
(* Properties. *)

\* Transactions nest properly: no assert of transaction_begin and
\* transaction_commit fails, SQLite refuses no BEGIN and no END, whatever
\* calls leave a bulked transaction open for the next one.
NoFatal == ~storage_.fatal

\* Memory is the database less the rows that restore failed to read: each call
\* changes both, so that it never falls behind any further nor gets ahead, and
\* what is missing stays missing until the next restart.
MemoryMatchesDatabase ==
    phase = "up" =>
        /\ jobs_ = Loaded(storage_.db.jobs, unread.jobs)
        /\ tasks_ = Loaded(storage_.db.tasks, unread.tasks)

\* A restart does not change what is dispatched, as far as running jobs go:
\* restore would queue exactly their tasks that are queued now, and those it
\* could not read the last time.  (insert_job queues the tasks of a job of any
\* status; restore forgets those of a job that does not run.)
RestartKeepsQueue ==
    phase = "up" /\ call.op # "insert" =>
        RestoredQueue(storage_.db) \ unread.tasks =
            {t \in tasks_queue_ : IsRunning(jobs_[tasks_[t].job])}

\* A task that was handed out is not handed out again, neither by the same
\* process nor by one started later, unless a crash undid its dispatch.
HandedOnce == tasks_queue_ \cap handed = {}

\* What dispatch_task returned is on disk once no transaction is open, and
\* without bulked transactions as soon as it returned: disconnect and the
\* forced commit of insert_job leave nothing behind.
HandedIsDurable ==
    ~UseBulkedTransactions \/ ~storage_.has_open_transaction =>
        \A t \in handed :
            /\ t \in DOMAIN storage_.disk.tasks
            /\ storage_.disk.tasks[t].status = "ACTIVE"

\* A crash never leaves a job with a part of its tasks: in the file every
\* job has its NumTasks tasks, under consecutive ids, and no task is an orphan.
WholeJobsOnDisk ==
    /\ Len(storage_.disk.tasks) = NumTasks * Len(storage_.disk.jobs)
    /\ \A t \in DOMAIN storage_.disk.tasks :
         LET j == storage_.disk.tasks[t].job
         IN  /\ j \in DOMAIN storage_.disk.jobs
             /\ (j - 1) * NumTasks < t /\ t <= j * NumTasks

\* With bulked transactions a crash never leaves an active task in a job that
\* is not active: the two updates of dispatch_task reach the file together.
StatusesAgreeOnDisk ==
    \A t \in DOMAIN storage_.disk.tasks :
        storage_.disk.tasks[t].status = "ACTIVE" =>
            storage_.disk.jobs[storage_.disk.tasks[t].job].status = "ACTIVE"

\* With bulked transactions no end of a process strands a task.  One that is
\* active in the file was returned by dispatch_task, for nothing commits half
\* a call; otherwise nobody would ever get it, as restore skips active tasks.
NothingStranded ==
    phase = "down" =>
        \A t \in DOMAIN storage_.disk.tasks :
            storage_.disk.tasks[t].status = "ACTIVE" => t \in handed

=============================================================================
