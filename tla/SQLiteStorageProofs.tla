------------------------- MODULE SQLiteStorageProofs -------------------------
(***************************************************************************)
(* What the operations of SQLiteStorage do to a connection, stated field   *)
(* by field for the proofs about the components that call them.            *)
(***************************************************************************)
EXTENDS SQLiteStorage, TLAPS

\* The flag of the program and that of SQLite agree, and outside of a
\* transaction everything written is in the file.
Consistent(c) ==
    /\ ~c.fatal
    /\ c.in_transaction = c.has_open_transaction
    /\ ~c.in_transaction => c.disk = c.db

\* A connection that was just opened is consistent and shows the file.
LEMMA SqlOpenConsistent ==
    ASSUME NEW disk \in Database
    PROVE  LET d == SqlOpen(disk)
           IN  /\ d \in Connection /\ Consistent(d)
               /\ d.disk = disk /\ d.db = disk
               /\ ~d.in_transaction
BY DEF SqlOpen, Connection, Consistent

\* A statement changes what the connection reads, and the file as well when
\* no transaction is open.
LEMMA SqlWriteConsistent ==
    ASSUME NEW c \in Connection, Consistent(c), NEW rows \in Database
    PROVE  LET d == SqlWrite(c, rows)
           IN  /\ d \in Connection /\ Consistent(d)
               /\ d.db = rows
               /\ d.disk = IF c.in_transaction THEN c.disk ELSE rows
               /\ d.in_transaction = c.in_transaction
BY DEF SqlWrite, Connection, Consistent

\* transaction_begin keeps a consistent connection so, if none is open.
LEMMA TransactionBeginConsistent ==
    ASSUME NEW c \in Connection, Consistent(c), ~c.in_transaction, NEW now \in Int
    PROVE  LET d == TransactionBegin(c, now)
           IN  /\ d \in Connection /\ Consistent(d)
               /\ d.db = c.db /\ d.disk = c.disk
               /\ d.in_transaction
BY DEF TransactionBegin, SqlBegin, Connection, Consistent

\* transaction_commit brings everything written to the file.
LEMMA TransactionCommitConsistent ==
    ASSUME NEW c \in Connection, Consistent(c), c.in_transaction
    PROVE  LET d == TransactionCommit(c)
           IN  /\ d \in Connection /\ Consistent(d)
               /\ d.db = c.db /\ d.disk = c.db
               /\ ~d.in_transaction
BY DEF TransactionCommit, SqlEnd, Connection, Consistent

\* transaction_begin_pending leaves a transaction open exactly in bulked mode,
\* or when there was one.
LEMMA TransactionBeginPendingConsistent ==
    ASSUME NEW c \in Connection, Consistent(c), NEW now \in Int
    PROVE  LET d == TransactionBeginPending(c, now)
           IN  /\ d \in Connection /\ Consistent(d)
               /\ d.db = c.db /\ d.disk = c.disk
               /\ d.in_transaction = (UseBulkedTransactions \/ c.in_transaction)
<1>1. CASE UseBulkedTransactions /\ ~c.has_open_transaction
  BY <1>1, TransactionBeginConsistent DEF TransactionBeginPending, Consistent
<1>2. CASE ~(UseBulkedTransactions /\ ~c.has_open_transaction)
  BY <1>2, StorageAssumption DEF TransactionBeginPending, Consistent, Connection
<1> QED
  BY <1>1, <1>2

\* transaction_commit_pending either does nothing or commits everything; when
\* forced, it leaves no transaction open in bulked mode.
LEMMA TransactionCommitPendingConsistent ==
    ASSUME NEW c \in Connection, Consistent(c), NEW now \in Int,
           NEW force \in BOOLEAN
    PROVE  LET d == TransactionCommitPending(c, now, force)
           IN  /\ d \in Connection /\ Consistent(d)
               /\ d.db = c.db
               /\ \/ d = c
                  \/ ~d.in_transaction /\ d.disk = c.db
               /\ force /\ UseBulkedTransactions => ~d.in_transaction
<1>1. CASE /\ UseBulkedTransactions
           /\ c.has_open_transaction
           /\ force \/ TimeDt(c, now) >= CommitInterval
  BY <1>1, TransactionCommitConsistent DEF TransactionCommitPending, Consistent
<1>2. CASE ~ /\ UseBulkedTransactions
             /\ c.has_open_transaction
             /\ force \/ TimeDt(c, now) >= CommitInterval
  BY <1>2 DEF TransactionCommitPending, Consistent, Connection
<1> QED
  BY <1>1, <1>2

-----------------------------------------------------------------------------
(* The operations of Storage. *)

\* Setting the status of a task leaves a table of tasks.
LEMMA TaskStatusInTasks ==
    ASSUME NEW rows \in Seq(TaskRow), NEW id \in DOMAIN rows,
           NEW status \in TaskStatus
    PROVE  [rows EXCEPT ![id].status = status] \in Seq(TaskRow)
<1>1. rows[id] \in TaskRow
  OBVIOUS
<1>2. [rows[id] EXCEPT !.status = status] = [job |-> rows[id].job, status |-> status]
  BY <1>1 DEF TaskRow
<1>3. [rows[id] EXCEPT !.status = status] \in TaskRow
  BY <1>1, <1>2 DEF TaskRow
<1>4. ASSUME NEW task \in TaskRow
      PROVE  [rows EXCEPT ![id] = task] \in Seq(TaskRow)
  OBVIOUS
<1>5. [rows EXCEPT ![id].status = status] =
        [rows EXCEPT ![id] = [rows[id] EXCEPT !.status = status]]
  OBVIOUS
<1> QED
  BY <1>3, <1>4, <1>5

\* insert_job first commits what was pending, so that the file holds every
\* row but those of the new job until it returns.
LEMMA InsertJobRowConsistent ==
    ASSUME NEW c \in Connection, Consistent(c),
           UseBulkedTransactions \/ ~c.in_transaction,
           NEW now \in Int, NEW priority \in JobPriorities, NEW status \in JobStatus
    PROVE  LET d == InsertJobRow(c, now, priority, status)
           IN  /\ d \in Connection /\ Consistent(d)
               /\ d.in_transaction
               /\ d.disk = c.db
               /\ d.db.jobs = Append(c.db.jobs, [priority |-> priority, status |-> status])
               /\ d.db.tasks = c.db.tasks
<1> DEFINE e == TransactionCommitPending(c, now, TRUE)
           begun == TransactionBegin(e, now)
           rows == [jobs  |-> Append(begun.db.jobs, [priority |-> priority, status |-> status]),
                    tasks |-> begun.db.tasks]
<1>1. e \in Connection /\ Consistent(e) /\ e.db = c.db /\ ~e.in_transaction
  BY TransactionCommitPendingConsistent
<1>2. e.disk = c.db
  BY <1>1 DEF Consistent
<1> HIDE DEF e
<1>3. /\ begun \in Connection /\ Consistent(begun)
      /\ begun.db = c.db /\ begun.disk = c.db /\ begun.in_transaction
  BY <1>1, <1>2, TransactionBeginConsistent
<1> HIDE DEF begun
<1>4. begun.db \in Database
  BY <1>3 DEF Connection
<1>5. [priority |-> priority, status |-> status] \in JobRow
  BY DEF JobRow
<1>6. rows \in Database
  BY <1>4, <1>5 DEF Database
<1>7. /\ rows.jobs = Append(c.db.jobs, [priority |-> priority, status |-> status])
      /\ rows.tasks = c.db.tasks
  BY <1>3
<1> HIDE DEF rows
<1>8. LET d == SqlWrite(begun, rows)
      IN  /\ d \in Connection /\ Consistent(d)
          /\ d.db = rows /\ d.disk = c.db /\ d.in_transaction
  BY <1>3, <1>6, SqlWriteConsistent
<1>9. InsertJobRow(c, now, priority, status) = SqlWrite(begun, rows)
  BY DEF InsertJobRow, rows, begun, e
<1> QED
  BY <1>7, <1>8, <1>9

\* A row for a task joins the open transaction.
LEMMA InsertTaskRowConsistent ==
    ASSUME NEW c \in Connection, Consistent(c), c.in_transaction,
           NEW id \in Nat \ {0}, NEW status \in TaskStatus
    PROVE  LET d == InsertTaskRow(c, id, status)
           IN  /\ d \in Connection /\ Consistent(d)
               /\ d.in_transaction
               /\ d.disk = c.disk
               /\ d.db.jobs = c.db.jobs
               /\ d.db.tasks = Append(c.db.tasks, [job |-> id, status |-> status])
<1> DEFINE task == [job |-> id, status |-> status]
           rows == [jobs |-> c.db.jobs, tasks |-> Append(c.db.tasks, task)]
<1>1. c.db \in Database
  BY DEF Connection
<1>2. task \in TaskRow
  BY DEF TaskRow
<1>3. rows \in Database
  BY <1>1, <1>2 DEF Database
<1>4. rows.jobs = c.db.jobs /\ rows.tasks = Append(c.db.tasks, task)
  OBVIOUS
<1> HIDE DEF rows
<1>5. LET d == SqlWrite(c, rows)
      IN  /\ d \in Connection /\ Consistent(d)
          /\ d.db = rows /\ d.disk = c.disk /\ d.in_transaction
  BY <1>3, SqlWriteConsistent
<1>6. InsertTaskRow(c, id, status) = SqlWrite(c, rows)
  BY DEF InsertTaskRow, rows
<1> QED
  BY <1>4, <1>5, <1>6

\* update_job writes into the open transaction, or straight to the file.
LEMMA UpdateJobConsistent ==
    ASSUME NEW c \in Connection, Consistent(c),
           NEW id \in DOMAIN c.db.jobs, NEW job \in JobRow
    PROVE  LET d == UpdateJob(c, id, job)
           IN  /\ d \in Connection /\ Consistent(d)
               /\ d.in_transaction = c.in_transaction
               /\ d.disk = IF c.in_transaction THEN c.disk ELSE d.db
               /\ d.db.jobs = [c.db.jobs EXCEPT ![id] = job]
               /\ d.db.tasks = c.db.tasks
<1> DEFINE rows == [jobs |-> [c.db.jobs EXCEPT ![id] = job], tasks |-> c.db.tasks]
<1>1. c.db \in Database
  BY DEF Connection
<1>2. rows \in Database
  BY <1>1 DEF Database
<1>3. rows.jobs = [c.db.jobs EXCEPT ![id] = job] /\ rows.tasks = c.db.tasks
  OBVIOUS
<1> HIDE DEF rows
<1>4. LET d == SqlWrite(c, rows)
      IN  /\ d \in Connection /\ Consistent(d)
          /\ d.db = rows /\ d.in_transaction = c.in_transaction
          /\ d.disk = IF c.in_transaction THEN c.disk ELSE rows
  BY <1>2, SqlWriteConsistent
<1>5. UpdateJob(c, id, job) = SqlWrite(c, rows)
  BY DEF UpdateJob, rows
<1> QED
  BY <1>3, <1>4, <1>5

\* In bulked mode update_task leaves a transaction open; otherwise its row
\* goes straight to the file, unless a transaction was open.
LEMMA UpdateTaskConsistent ==
    ASSUME NEW c \in Connection, Consistent(c), NEW now \in Int,
           NEW id \in DOMAIN c.db.tasks, NEW status \in TaskStatus
    PROVE  LET d == UpdateTask(c, now, id, status)
           IN  /\ d \in Connection /\ Consistent(d)
               /\ d.in_transaction = (UseBulkedTransactions \/ c.in_transaction)
               /\ d.disk = IF d.in_transaction THEN c.disk ELSE d.db
               /\ d.db.jobs = c.db.jobs
               /\ d.db.tasks = [c.db.tasks EXCEPT ![id].status = status]
<1> DEFINE begun == TransactionBeginPending(c, now)
           rows == [jobs  |-> begun.db.jobs,
                    tasks |-> [begun.db.tasks EXCEPT ![id].status = status]]
<1>1. /\ begun \in Connection /\ Consistent(begun)
      /\ begun.db = c.db /\ begun.disk = c.disk
      /\ begun.in_transaction = (UseBulkedTransactions \/ c.in_transaction)
  BY TransactionBeginPendingConsistent
<1> HIDE DEF begun
<1>2. begun.db \in Database
  BY <1>1 DEF Connection
<1>3. /\ begun.db.tasks \in Seq(TaskRow)
      /\ begun.db.jobs \in Seq(JobRow)
  BY <1>2 DEF Database
<1>4. [begun.db.tasks EXCEPT ![id].status = status] \in Seq(TaskRow)
  BY <1>1, <1>3, TaskStatusInTasks
<1>5. rows \in Database
  BY <1>3, <1>4 DEF Database
<1>6. /\ rows.jobs = c.db.jobs
      /\ rows.tasks = [c.db.tasks EXCEPT ![id].status = status]
  BY <1>1
<1> HIDE DEF rows
<1>7. LET d == SqlWrite(begun, rows)
      IN  /\ d \in Connection /\ Consistent(d)
          /\ d.db = rows /\ d.in_transaction = begun.in_transaction
          /\ d.disk = IF begun.in_transaction THEN begun.disk ELSE rows
  BY <1>1, <1>5, SqlWriteConsistent
<1>8. UpdateTask(c, now, id, status) = SqlWrite(begun, rows)
  BY DEF UpdateTask, rows, begun
<1> QED
  BY <1>1, <1>6, <1>7, <1>8

\* disconnect leaves nothing behind: after it the file is what was read
\* before, given that a transaction can only be open in bulked mode.
LEMMA DisconnectConsistent ==
    ASSUME NEW c \in Connection, Consistent(c),
           UseBulkedTransactions \/ ~c.in_transaction, NEW now \in Int
    PROVE  LET d == Disconnect(c, now)
           IN  /\ d \in Connection /\ Consistent(d)
               /\ ~d.in_transaction
               /\ d.db = c.db /\ d.disk = c.db
<1> DEFINE e == TransactionCommitPending(c, now, TRUE)
<1>1. e \in Connection /\ Consistent(e) /\ e.db = c.db /\ ~e.in_transaction
  BY TransactionCommitPendingConsistent
<1>2. e.disk = c.db
  BY <1>1 DEF Consistent
<1> HIDE DEF e
<1>3. LET d == SqlClose(e)
      IN  /\ d \in Connection /\ Consistent(d)
          /\ ~d.in_transaction
          /\ d.db = c.db /\ d.disk = c.db
  BY <1>1, <1>2 DEF SqlClose, Connection, Consistent
<1> QED
  BY <1>3 DEF Disconnect, e

=============================================================================
