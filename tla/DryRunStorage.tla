---------------------------- MODULE DryRunStorage ----------------------------
(***************************************************************************)
(* DryRunStorage, which a build with DRY_RUN_STORAGE uses instead of       *)
(* SQLiteStorage: it invents jobs when it is asked for them and forgets    *)
(* what it is told: connect, disconnect, update_job, update_task and       *)
(* flush_caches do nothing and return true, so they have no operator here. *)
(* Jobs are records with the ids of their tasks.                           *)
(***************************************************************************)
EXTENDS FarmTypes

CONSTANT NumDummyJobs  \* NUM_DUMMY_JOBS (512 in the code)

\* retrieve_all_tasks: all of them wait, whatever became of them before.
\* NUM_DUMMY_TASKS is 1024, like the bound of the loop in generate_tasks.
RetrieveAllTasks(id) == [i \in 1..NumTasks |-> id * NumTasks + i - 1]

RetrieveAllJobs ==
    [i \in 1..NumDummyJobs |->
        [id |-> i - 1, priority |-> 50, status |-> "WAITING",
         tasks |-> RetrieveAllTasks(i - 1)]]

\* insert_job assigns no ids, neither to the job nor to its tasks.
InsertJob(job) == job

=============================================================================
