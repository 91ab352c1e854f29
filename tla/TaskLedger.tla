----------------------------- MODULE TaskLedger -----------------------------
(***************************************************************************)
(* What the farm promises about its records.  Callers see "visible", in    *)
(* which every call is one atomic step; what outlives the process is       *)
(* "durable", which is always a state that callers could see.              *)
(*                                                                         *)
(*   - a job appears with all of its tasks, and is durable at once;        *)
(*   - a dispatch takes a waiting task and activates it and its job        *)
(*     together; it may become durable later, but never by half;           *)
(*   - a crash takes "visible" back to "durable".                          *)
(***************************************************************************)
EXTENDS FarmTypes

VARIABLES visible, durable

vars == <<visible, durable>>

Init ==
    /\ visible = EmptyDatabase
    /\ durable = EmptyDatabase

WithJob(rows, job) ==
    [jobs  |-> Append(rows.jobs, job),
     tasks |-> rows.tasks \o
               [i \in 1..NumTasks |-> [job |-> Len(rows.jobs) + 1,
                                       status |-> "WAITING"]]]

WithDispatch(rows, t) ==
    [rows EXCEPT !.tasks[t].status = "ACTIVE",
                 !.jobs[rows.tasks[t].job].status = "ACTIVE"]

InsertJob(job) ==
    /\ visible' = WithJob(visible, job)
    /\ durable' = visible'

DispatchTask(t) ==
    /\ visible.tasks[t].status = "WAITING"
    /\ visible' = WithDispatch(visible, t)
    /\ UNCHANGED durable

Sync ==
    /\ durable' = visible
    /\ UNCHANGED visible

Crash ==
    /\ visible' = durable
    /\ UNCHANGED durable

Next ==
    \/ \E job \in JobRow : InsertJob(job)
    \/ \E t \in DOMAIN visible.tasks : DispatchTask(t)
    \/ Sync
    \/ Crash

Spec == Init /\ [][Next]_vars

=============================================================================
