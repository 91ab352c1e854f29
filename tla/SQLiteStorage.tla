---------------------------- MODULE SQLiteStorage ----------------------------
(***************************************************************************)
(* SQLiteStorage as operators on the state of one connection:              *)
(*                                                                         *)
(*   disk    what the database file recovers to after a crash;             *)
(*   db      what the connection reads: disk and the open transaction;     *)
(*   in_transaction         SQLite's own flag (set by BEGIN, reset by END) *)
(*   has_open_transaction   has_open_transaction_, the program's idea of it*)
(*   timestamp              transaction_open_timestamp_, declared bool     *)
(*   fatal   a misplaced BEGIN or END, which SQLite refuses and sql_exec   *)
(*           turns into LOG(FATAL), or an assert that does not hold.       *)
(*                                                                         *)
(* Every statement that fails for another reason (a full disk, say) ends   *)
(* in LOG(FATAL) as well: the process aborts, which is a crash.  Not so    *)
(* the two that read: their loops take an error for the end of the rows.   *)
(* The readings of the clock come in as "now", in seconds since 1970.      *)
(***************************************************************************)
EXTENDS FarmTypes

CONSTANTS
    UseBulkedTransactions,  \* use_bulked_transactions
    CommitInterval          \* transaction_commit_interval

ASSUME StorageAssumption ==
    /\ UseBulkedTransactions \in BOOLEAN
    /\ CommitInterval \in Nat

Connection == [disk : Database, db : Database,
               in_transaction : BOOLEAN, has_open_transaction : BOOLEAN,
               timestamp : BOOLEAN, fatal : BOOLEAN]

-----------------------------------------------------------------------------
(* What SQLite does. *)

\* Open the file, rolling back the transaction a dead process left in it.
SqlOpen(disk) ==
    [disk |-> disk, db |-> disk,
     in_transaction |-> FALSE, has_open_transaction |-> FALSE,
     timestamp |-> FALSE, fatal |-> FALSE]

\* Close the connection: what is still in a transaction is rolled back.
SqlClose(c) == [c EXCEPT !.db = c.disk, !.in_transaction = FALSE]

SqlBegin(c) ==
    [c EXCEPT !.fatal = @ \/ c.in_transaction, !.in_transaction = TRUE]

SqlEnd(c) ==
    [c EXCEPT !.fatal = @ \/ ~c.in_transaction, !.in_transaction = FALSE,
              !.disk = c.db]

\* A statement that leaves the tables as "rows".  Outside a transaction it
\* is committed on its own.
SqlWrite(c, rows) ==
    [c EXCEPT !.db = rows, !.disk = IF c.in_transaction THEN @ ELSE rows]

-----------------------------------------------------------------------------
(* Transactions. *)

TransactionBegin(c, now) ==
    [SqlBegin(c) EXCEPT !.fatal = @ \/ c.has_open_transaction,
                        !.has_open_transaction = TRUE,
                        !.timestamp = (now # 0)]

TransactionCommit(c) ==
    [SqlEnd(c) EXCEPT !.fatal = @ \/ ~c.has_open_transaction,
                      !.has_open_transaction = FALSE]

\* Mutant: the test of the flag inverted.
TransactionBeginPendingIfOpen(c, now) ==
    IF UseBulkedTransactions /\ c.has_open_transaction
    THEN TransactionBegin(c, now)
    ELSE c

TransactionBeginPending(c, now) ==
    IF UseBulkedTransactions /\ ~c.has_open_transaction
    THEN TransactionBegin(c, now)
    ELSE c

\* The age of the open transaction: the bool is read back as 0 or 1.
TimeDt(c, now) == now - (IF c.timestamp THEN 1 ELSE 0)

\* Mutant: the age of the transaction is not looked at.
TransactionCommitPendingForced(c, now, force) ==
    IF UseBulkedTransactions /\ c.has_open_transaction /\ force
    THEN TransactionCommit(c)
    ELSE c

TransactionCommitPending(c, now, force) ==
    IF /\ UseBulkedTransactions
       /\ c.has_open_transaction
       /\ force \/ TimeDt(c, now) >= CommitInterval
    THEN TransactionCommit(c)
    ELSE c

-----------------------------------------------------------------------------
(* The operations of Storage. *)

\* connect and create_schema: the tables exist afterwards, with their rows.
Connect(disk) == SqlOpen(disk)

\* What a loop over sqlite3_step may get to see of the rows with these ids: it
\* ends at the first result that is no row, be it SQLITE_DONE or an error.
Retrieved(ids) == {ids} \cup {{i \in ids : i < failed} : failed \in ids}

\* The ids of the jobs ...
RetrieveAllJobs(c) == Retrieved(DOMAIN c.db.jobs)

\* ... and those of the tasks of each of these jobs.
RetrieveAllTasks(c, jobs) ==
    LET TasksOf(j) == {t \in DOMAIN c.db.tasks : c.db.tasks[t].job = j}
    IN  {tasks \in SUBSET (UNION {TasksOf(j) : j \in jobs}) :
            \A j \in jobs : tasks \cap TasksOf(j) \in Retrieved(TasksOf(j))}

\* Mutants of the next definition: the pending transaction is not committed,
\* it is not committed but joined, no transaction is begun.
InsertJobRowNested(c, now, priority, status) ==
    LET begun == TransactionBegin(c, now)
        job   == [priority |-> priority, status |-> status]
    IN  SqlWrite(begun, [jobs  |-> Append(begun.db.jobs, job),
                         tasks |-> begun.db.tasks])

InsertJobRowJoined(c, now, priority, status) ==
    LET begun == IF c.has_open_transaction THEN c ELSE TransactionBegin(c, now)
        job   == [priority |-> priority, status |-> status]
    IN  SqlWrite(begun, [jobs  |-> Append(begun.db.jobs, job),
                         tasks |-> begun.db.tasks])

InsertJobRowUnprotected(c, now, priority, status) ==
    LET flushed == TransactionCommitPending(c, now, TRUE)
        job     == [priority |-> priority, status |-> status]
    IN  SqlWrite(flushed, [jobs  |-> Append(flushed.db.jobs, job),
                           tasks |-> flushed.db.tasks])

\* insert_job up to the row of the job ...
InsertJobRow(c, now, priority, status) ==
    LET begun == TransactionBegin(TransactionCommitPending(c, now, TRUE), now)
        job   == [priority |-> priority, status |-> status]
    IN  SqlWrite(begun, [jobs  |-> Append(begun.db.jobs, job),
                         tasks |-> begun.db.tasks])

\* ... one round of its loop over the tasks ...
InsertTaskRow(c, id, status) ==
    SqlWrite(c, [jobs  |-> c.db.jobs,
                 tasks |-> Append(c.db.tasks, [job |-> id, status |-> status])])

\* Mutant of the next definition: the transaction stays open.
InsertJobCommitDeferred(c) == c

\* ... and its end.
InsertJobCommit(c) == TransactionCommit(c)

UpdateJob(c, id, job) ==
    SqlWrite(c, [jobs  |-> [c.db.jobs EXCEPT ![id] = job],
                 tasks |-> c.db.tasks])

\* Mutant: the last line of update_task before its return.
UpdateTaskCommitting(c, now, id, status) ==
    LET begun == TransactionBeginPending(c, now)
    IN  TransactionCommitPending(
            SqlWrite(begun, [jobs  |-> begun.db.jobs,
                             tasks |-> [begun.db.tasks EXCEPT ![id].status = status]]),
            now, FALSE)

\* The call of transaction_commit_pending in update_task follows its return.
UpdateTask(c, now, id, status) ==
    LET begun == TransactionBeginPending(c, now)
    IN  SqlWrite(begun, [jobs  |-> begun.db.jobs,
                         tasks |-> [begun.db.tasks EXCEPT ![id].status = status]])

FlushCaches(c, now, force) == TransactionCommitPending(c, now, force)

\* Mutant: the pending transaction is forgotten.
DisconnectUncommitted(c, now) == SqlClose(c)

Disconnect(c, now) == SqlClose(TransactionCommitPending(c, now, TRUE))

=============================================================================
