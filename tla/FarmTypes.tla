------------------------------ MODULE FarmTypes ------------------------------
(***************************************************************************)
(* The data the farm keeps: jobs, their tasks, and the two tables they are *)
(* stored in.  A job is identified by its row id in the table "jobs", a    *)
(* task by its row id in "tasks".  Rows are only ever appended, so a table *)
(* is a sequence indexed by row id.  Names of jobs are left out: nothing   *)
(* but the JSON of a reply depends on them.                                *)
(***************************************************************************)
EXTENDS Integers, Sequences

CONSTANTS
    JobPriorities,  \* the priorities in use (Job::Priority, an unsigned char)
    NumTasks        \* how many tasks generate_tasks makes (1024 in the code)

ASSUME TypesAssumption ==
    /\ JobPriorities \subseteq 0..255
    /\ NumTasks \in Nat

JobStatus  == {"WAITING", "ACTIVE", "COMPLETED", "CANCELLED", "PAUSED"}
TaskStatus == {"WAITING", "PROCESSING", "ACTIVE", "COMPLETED", "FAILED"}

\* The columns of table "jobs" that matter, and those of table "tasks".
JobRow   == [priority : JobPriorities, status : JobStatus]
TaskRow  == [job : Nat \ {0}, status : TaskStatus]
Database == [jobs : Seq(JobRow), tasks : Seq(TaskRow)]

EmptyDatabase == [jobs |-> <<>>, tasks |-> <<>>]

\* Job::is_running
IsRunning(job) == job.status \in {"WAITING", "ACTIVE"}

=============================================================================
