----------------------------- MODULE FarmProofs -----------------------------
(***************************************************************************)
(* Safety of the farm, for all priorities, numbers of tasks and of jobs,   *)
(* readings of the clock, and with or without bulked transactions.         *)
(***************************************************************************)
EXTENDS Farm, SQLiteStorageProofs

\* A transaction is open during insert_job, with bulked transactions perhaps
\* between calls too, and never while no process runs.
TransactionDiscipline ==
    /\ Consistent(storage_)
    /\ call.op = "insert" => storage_.in_transaction
    /\ storage_.in_transaction => UseBulkedTransactions \/ call.op = "insert"
    /\ phase = "down" => ~storage_.in_transaction

\* A process that is not there has no memory and no call under way.
DownIsEmpty ==
    phase = "down" => /\ call = NoCall
                      /\ jobs_ = <<>> /\ tasks_ = <<>> /\ tasks_queue_ = {}
                      /\ unread = NothingUnread

\* Tasks belong to jobs that exist, in the file, through the connection, and
\* in memory too, however little restore could read.
HaveJobs(rows) ==
    \A t \in DOMAIN rows.tasks : rows.tasks[t].job \in DOMAIN rows.jobs
TasksHaveJobs == HaveJobs(storage_.disk) /\ HaveJobs(storage_.db)
TasksHaveJobsInMemory ==
    \A t \in DOMAIN tasks_ : tasks_[t].job \in DOMAIN jobs_

\* What waits in the queue, and what insert_job will add to it, is waiting.
QueuedAreWaiting ==
    \A t \in tasks_queue_ : tasks_[t].status = "WAITING"
InsertedAreWaiting ==
    call.op = "insert" =>
        /\ call.job \in DOMAIN jobs_
        /\ \A t \in DOMAIN tasks_ :
             tasks_[t].job = call.job => tasks_[t].status = "WAITING"

\* The task on its way out of dispatch_task is active.
DispatchedIsActive ==
    call.op = "dispatch" =>
        /\ call.job \in DOMAIN jobs_
        /\ call.task \in DOMAIN tasks_
        /\ tasks_[call.task].status = "ACTIVE"

\* What was handed out is active for those who read through the connection,
\* and during insert_job in the file too.
HandedAreActive ==
    /\ \A t \in handed : /\ t \in DOMAIN storage_.db.tasks
                         /\ storage_.db.tasks[t].status = "ACTIVE"
    /\ call.op = "insert" =>
         \A t \in handed : /\ t \in DOMAIN storage_.disk.tasks
                           /\ storage_.disk.tasks[t].status = "ACTIVE"

IInv ==
    /\ TypeOK
    /\ TransactionDiscipline
    /\ DownIsEmpty
    /\ MemoryMatchesDatabase
    /\ TasksHaveJobs
    /\ TasksHaveJobsInMemory
    /\ QueuedAreWaiting
    /\ InsertedAreWaiting
    /\ DispatchedIsActive
    /\ HandedAreActive

-----------------------------------------------------------------------------
(* The invariant holds initially, and each action keeps it. *)

LEMMA EmptyDatabaseType == EmptyDatabase \in Database
BY DEF EmptyDatabase, Database

\* A table with one more row, which has the next id.
LEMMA AppendRow ==
    ASSUME NEW S, NEW rows \in Seq(S), NEW row \in S
    PROVE  \E n \in Nat \ {0} :
             /\ n = Len(Append(rows, row)) /\ n = Len(rows) + 1
             /\ DOMAIN Append(rows, row) = DOMAIN rows \cup {n}
             /\ n \notin DOMAIN rows
             /\ Append(rows, row)[n] = row
             /\ \A id \in DOMAIN rows : Append(rows, row)[id] = rows[id]
<1> DEFINE n == Len(rows) + 1
<1>1. /\ DOMAIN rows = 1..Len(rows) /\ Len(rows) \in Nat
      /\ Len(Append(rows, row)) = n /\ DOMAIN Append(rows, row) = 1..n
      /\ Append(rows, row)[n] = row
      /\ \A id \in DOMAIN rows : Append(rows, row)[id] = rows[id]
  OBVIOUS
<1>2. /\ n \in Nat \ {0} /\ n \notin DOMAIN rows /\ 1..n = DOMAIN rows \cup {n}
  BY <1>1
<1>3. n = Len(rows) + 1
  OBVIOUS
<1> HIDE DEF n
<1> QED
  BY <1>1, <1>2, <1>3, Zenon

\* What is retrieved is a part of what there is.
LEMMA RetrievedIsPart ==
    ASSUME NEW ids, NEW some \in Retrieved(ids)
    PROVE  some \subseteq ids
BY DEF Retrieved

\* What a running process has in memory, read off the database.
LEMMA MemoryIsPart ==
    ASSUME TypeOK, MemoryMatchesDatabase, phase = "up"
    PROVE  /\ storage_.db.jobs \in Seq(JobRow) /\ storage_.db.tasks \in Seq(TaskRow)
           /\ unread.jobs \subseteq DOMAIN storage_.db.jobs
           /\ unread.tasks \subseteq DOMAIN storage_.db.tasks
           /\ jobs_ = Loaded(storage_.db.jobs, unread.jobs)
           /\ tasks_ = Loaded(storage_.db.tasks, unread.tasks)
           /\ DOMAIN jobs_ = DOMAIN storage_.db.jobs \ unread.jobs
           /\ DOMAIN tasks_ = DOMAIN storage_.db.tasks \ unread.tasks
           /\ \A j \in DOMAIN jobs_ : jobs_[j] = storage_.db.jobs[j]
           /\ \A t \in DOMAIN tasks_ : tasks_[t] = storage_.db.tasks[t]
           /\ \A j \in DOMAIN jobs_ : jobs_[j] \in JobRow
           /\ \A t \in DOMAIN tasks_ : tasks_[t] \in TaskRow
<1>1. storage_.db.jobs \in Seq(JobRow) /\ storage_.db.tasks \in Seq(TaskRow)
  BY DEF TypeOK, Connection, Database
<1>2. /\ unread.jobs \subseteq DOMAIN storage_.db.jobs
      /\ unread.tasks \subseteq DOMAIN storage_.db.tasks
  BY DEF TypeOK
<1>3. /\ jobs_ = Loaded(storage_.db.jobs, unread.jobs)
      /\ tasks_ = Loaded(storage_.db.tasks, unread.tasks)
  BY DEF MemoryMatchesDatabase
<1>4. /\ DOMAIN jobs_ = DOMAIN storage_.db.jobs \ unread.jobs
      /\ \A j \in DOMAIN storage_.db.jobs \ unread.jobs : jobs_[j] = storage_.db.jobs[j]
  BY <1>3 DEF Loaded
<1>5. /\ DOMAIN tasks_ = DOMAIN storage_.db.tasks \ unread.tasks
      /\ \A t \in DOMAIN storage_.db.tasks \ unread.tasks : tasks_[t] = storage_.db.tasks[t]
  BY <1>3 DEF Loaded
<1>6. /\ \A j \in DOMAIN storage_.db.jobs : storage_.db.jobs[j] \in JobRow
      /\ \A t \in DOMAIN storage_.db.tasks : storage_.db.tasks[t] \in TaskRow
  BY <1>1
<1> QED
  BY <1>1, <1>2, <1>3, <1>4, <1>5, <1>6

LEMMA InitIInv ==
    Init => IInv
<1> SUFFICES ASSUME Init
             PROVE  IInv
  OBVIOUS
<1>1. /\ storage_ \in Connection /\ Consistent(storage_)
      /\ storage_.disk = EmptyDatabase /\ storage_.db = EmptyDatabase
      /\ ~storage_.in_transaction
  BY SqlOpenConsistent, EmptyDatabaseType DEF Init
<1>2. unread.jobs = {} /\ unread.tasks = {} /\ unread = [jobs |-> {}, tasks |-> {}]
  BY DEF Init, NothingUnread
<1>3. TypeOK
  BY <1>1, <1>2 DEF Init, TypeOK
<1>4. DOMAIN EmptyDatabase.tasks = {}
  BY DEF EmptyDatabase
<1>5. call.op = "none"
  BY DEF Init, NoCall
<1> QED
  BY <1>1, <1>3, <1>4, <1>5 DEF Init, IInv, TransactionDiscipline, DownIsEmpty,
     MemoryMatchesDatabase, TasksHaveJobs, HaveJobs, TasksHaveJobsInMemory,
     QueuedAreWaiting, InsertedAreWaiting, DispatchedIsActive, HandedAreActive

\* The kinds of calls, apart.
LEMMA CallKinds ==
    ASSUME TypeOK
    PROVE  /\ call = NoCall => call.op = "none"
           /\ call.op = "insert" => call \in InsertCall
           /\ call.op = "dispatch" => call \in DispatchCall
BY DEF TypeOK, NoCall, InsertCall, DispatchCall

\* What restore reads of a database, whole or cut short by an error.
LEMMA StartReads ==
    ASSUME IInv, Start
    PROVE  /\ storage_' \in Connection /\ Consistent(storage_')
           /\ storage_'.disk = storage_.disk /\ storage_'.db = storage_.disk
           /\ ~storage_'.in_transaction
           /\ storage_.db = storage_.disk
           /\ phase = "down" /\ phase' = "up"
           /\ call = NoCall /\ call' = NoCall /\ call.op = "none" /\ call'.op = "none"
           /\ tasks_queue_ = {} /\ handed' = handed
           /\ jobs_' = Loaded(storage_'.db.jobs, unread'.jobs)
           /\ tasks_' = Loaded(storage_'.db.tasks, unread'.tasks)
           /\ tasks_queue_' = RestoredQueue([jobs |-> jobs_', tasks |-> tasks_'])
           /\ unread' \in [jobs : SUBSET (DOMAIN storage_'.db.jobs),
                           tasks : SUBSET (DOMAIN storage_'.db.tasks)]
           /\ \A t \in DOMAIN storage_'.db.tasks \ unread'.tasks :
                storage_'.db.tasks[t].job \in DOMAIN storage_'.db.jobs \ unread'.jobs
<1> USE DEF IInv
<1>1. storage_.disk \in Database
  BY DEF TypeOK, Connection
<1>2. /\ storage_' \in Connection /\ Consistent(storage_')
      /\ storage_'.disk = storage_.disk /\ storage_'.db = storage_.disk
      /\ ~storage_'.in_transaction
  BY <1>1, SqlOpenConsistent DEF Start, Connect
<1>3. storage_.db = storage_.disk
  BY DEF Start, TransactionDiscipline, Consistent
<1>4. /\ call = NoCall /\ call' = NoCall /\ call.op = "none" /\ call'.op = "none"
      /\ tasks_queue_ = {} /\ handed' = handed /\ phase = "down" /\ phase' = "up"
  BY DEF Start, DownIsEmpty, NoCall
<1>5. /\ jobs_' = Loaded(storage_'.db.jobs, unread'.jobs)
      /\ tasks_' = Loaded(storage_'.db.tasks, unread'.tasks)
      /\ tasks_queue_' = RestoredQueue([jobs |-> jobs_', tasks |-> tasks_'])
  BY <1>4 DEF Start
<1>6. PICK jobs \in RetrieveAllJobs(storage_') :
        \E tasks \in RetrieveAllTasks(storage_', jobs) :
          unread' = [jobs  |-> DOMAIN storage_'.db.jobs \ jobs,
                     tasks |-> DOMAIN storage_'.db.tasks \ tasks]
  BY DEF Start
<1>7. PICK tasks \in RetrieveAllTasks(storage_', jobs) :
        unread' = [jobs  |-> DOMAIN storage_'.db.jobs \ jobs,
                   tasks |-> DOMAIN storage_'.db.tasks \ tasks]
  BY <1>6
<1>8. jobs \subseteq DOMAIN storage_'.db.jobs
  BY RetrievedIsPart DEF RetrieveAllJobs
<1>9. \A t \in tasks : t \in DOMAIN storage_'.db.tasks /\ storage_'.db.tasks[t].job \in jobs
  BY DEF RetrieveAllTasks
<1>10. unread' \in [jobs : SUBSET (DOMAIN storage_'.db.jobs),
                    tasks : SUBSET (DOMAIN storage_'.db.tasks)]
  BY <1>7
<1>11. ASSUME NEW t \in DOMAIN storage_'.db.tasks \ unread'.tasks
       PROVE  storage_'.db.tasks[t].job \in DOMAIN storage_'.db.jobs \ unread'.jobs
  <2>1. t \in tasks
    BY <1>7
  <2>2. storage_'.db.tasks[t].job \in jobs
    BY <1>9, <2>1
  <2> QED
    BY <1>7, <1>8, <2>2
<1> QED
  BY <1>2, <1>3, <1>4, <1>5, <1>10, <1>11

LEMMA StartIInv ==
    ASSUME IInv, Start
    PROVE  IInv'
<1> USE DEF IInv
<1>1. /\ storage_' \in Connection /\ Consistent(storage_')
      /\ storage_'.disk = storage_.disk /\ storage_'.db = storage_.disk
      /\ ~storage_'.in_transaction /\ storage_.db = storage_.disk
      /\ phase' = "up" /\ call = NoCall /\ call' = NoCall /\ call.op = "none" /\ call'.op = "none"
      /\ tasks_queue_ = {} /\ handed' = handed
  BY StartReads
<1>2. /\ jobs_' = Loaded(storage_'.db.jobs, unread'.jobs)
      /\ tasks_' = Loaded(storage_'.db.tasks, unread'.tasks)
      /\ tasks_queue_' = RestoredQueue([jobs |-> jobs_', tasks |-> tasks_'])
      /\ unread' \in [jobs : SUBSET (DOMAIN storage_'.db.jobs),
                      tasks : SUBSET (DOMAIN storage_'.db.tasks)]
      /\ \A t \in DOMAIN storage_'.db.tasks \ unread'.tasks :
           storage_'.db.tasks[t].job \in DOMAIN storage_'.db.jobs \ unread'.jobs
  BY StartReads
<1>3. storage_'.db.jobs \in Seq(JobRow) /\ storage_'.db.tasks \in Seq(TaskRow)
  BY <1>1 DEF Connection, Database
<1>4. /\ jobs_' \in [DOMAIN storage_'.db.jobs \ unread'.jobs -> JobRow]
      /\ tasks_' \in [DOMAIN storage_'.db.tasks \ unread'.tasks -> TaskRow]
      /\ DOMAIN jobs_' = DOMAIN storage_'.db.jobs \ unread'.jobs
      /\ DOMAIN tasks_' = DOMAIN storage_'.db.tasks \ unread'.tasks
      /\ \A t \in DOMAIN tasks_' : tasks_'[t] = storage_'.db.tasks[t]
  <2>1. /\ DOMAIN jobs_' = DOMAIN storage_'.db.jobs \ unread'.jobs
        /\ \A j \in DOMAIN storage_'.db.jobs \ unread'.jobs : jobs_'[j] = storage_'.db.jobs[j]
        /\ jobs_' = [j \in DOMAIN jobs_' |-> jobs_'[j]]
    BY <1>2 DEF Loaded
  <2>2. /\ DOMAIN tasks_' = DOMAIN storage_'.db.tasks \ unread'.tasks
        /\ \A t \in DOMAIN storage_'.db.tasks \ unread'.tasks :
             tasks_'[t] = storage_'.db.tasks[t]
        /\ tasks_' = [t \in DOMAIN tasks_' |-> tasks_'[t]]
    BY <1>2 DEF Loaded
  <2>3. /\ \A j \in DOMAIN storage_'.db.jobs : storage_'.db.jobs[j] \in JobRow
        /\ \A t \in DOMAIN storage_'.db.tasks : storage_'.db.tasks[t] \in TaskRow
    BY <1>3
  <2> QED
    BY <2>1, <2>2, <2>3
<1>5. \A t \in tasks_queue_' : t \in DOMAIN tasks_' /\ tasks_'[t].status = "WAITING"
  BY <1>2 DEF RestoredQueue
<1>6. TypeOK'
  BY <1>1, <1>2, <1>4, <1>5 DEF TypeOK
<1>7. TransactionDiscipline' /\ DownIsEmpty' /\ MemoryMatchesDatabase'
  BY <1>1, <1>2 DEF TransactionDiscipline, DownIsEmpty, MemoryMatchesDatabase
<1>8. TasksHaveJobs'
  BY <1>1 DEF TasksHaveJobs, HaveJobs
<1>9. TasksHaveJobsInMemory'
  BY <1>2, <1>4 DEF TasksHaveJobsInMemory
<1>10. QueuedAreWaiting' /\ InsertedAreWaiting' /\ DispatchedIsActive'
  BY <1>1, <1>5 DEF QueuedAreWaiting, InsertedAreWaiting, DispatchedIsActive
<1>11. HandedAreActive'
  BY <1>1 DEF HandedAreActive
<1> QED
  BY <1>6, <1>7, <1>8, <1>9, <1>10, <1>11

\* The first step of insert_job: a row in the table and a job in memory.
LEMMA InsertJobWrites ==
    ASSUME IInv,
           NEW priority \in JobPriorities, NEW status \in InsertStatuses,
           NEW now \in Times, InsertJob(priority, status, now)
    PROVE  /\ phase = "up" /\ phase' = "up" /\ call = NoCall /\ call.op = "none"
           /\ UNCHANGED <<tasks_, unread, tasks_queue_, handed>>
           /\ call' \in InsertCall /\ call'.op = "insert" /\ call'.left = NumTasks
           /\ storage_' \in Connection /\ Consistent(storage_')
           /\ storage_'.in_transaction /\ storage_'.disk = storage_.db
           /\ storage_'.db.tasks = storage_.db.tasks
           /\ call'.job = Len(storage_'.db.jobs)
           /\ call'.job = Len(storage_.db.jobs) + 1
           /\ call'.job \notin DOMAIN storage_.db.jobs
           /\ DOMAIN storage_'.db.jobs = DOMAIN storage_.db.jobs \cup {call'.job}
           /\ storage_'.db.jobs[call'.job] = [priority |-> priority, status |-> status]
           /\ \A j \in DOMAIN storage_.db.jobs : storage_'.db.jobs[j] = storage_.db.jobs[j]
           /\ jobs_' = Loaded(storage_'.db.jobs, unread.jobs)
           /\ jobs_' \in [DOMAIN jobs_' -> JobRow]
           /\ DOMAIN jobs_' = DOMAIN jobs_ \cup {call'.job} /\ call'.job \notin DOMAIN jobs_
           /\ jobs_'[call'.job] = [priority |-> priority, status |-> status]
           /\ \A j \in DOMAIN jobs_ : jobs_'[j] = jobs_[j]
<1> USE DEF IInv
<1> DEFINE job == [priority |-> priority, status |-> status]
<1>1. storage_' = InsertJobRow(storage_, now, priority, status)
  BY DEF InsertJob
<1>2. /\ now \in Int /\ status \in JobStatus
      /\ call = NoCall /\ call.op = "none" /\ storage_ \in Connection /\ phase = "up"
  BY FarmAssumption, CallKinds DEF InsertJob, TypeOK
<1>3. /\ storage_' \in Connection /\ Consistent(storage_')
      /\ storage_'.in_transaction
      /\ storage_'.disk = storage_.db
      /\ storage_'.db.jobs = Append(storage_.db.jobs, job)
      /\ storage_'.db.tasks = storage_.db.tasks
  BY <1>1, <1>2, InsertJobRowConsistent DEF TransactionDiscipline
<1>4. job \in JobRow
  BY <1>2 DEF JobRow
<1>5. /\ call' = [op |-> "insert", job |-> Len(storage_'.db.jobs), left |-> NumTasks]
      /\ jobs_' = With(jobs_, call'.job, job)
      /\ UNCHANGED <<tasks_, unread, tasks_queue_, handed>> /\ phase' = "up"
  BY <1>2 DEF InsertJob
<1> HIDE DEF job
<1>6. /\ storage_.db.jobs \in Seq(JobRow)
      /\ unread.jobs \subseteq DOMAIN storage_.db.jobs
      /\ jobs_ = Loaded(storage_.db.jobs, unread.jobs)
      /\ DOMAIN jobs_ = DOMAIN storage_.db.jobs \ unread.jobs
      /\ jobs_ \in [DOMAIN jobs_ -> JobRow]
  BY <1>2, MemoryIsPart DEF TypeOK
<1>7. PICK n \in Nat \ {0} :
        /\ n = Len(storage_'.db.jobs) /\ n = Len(storage_.db.jobs) + 1
        /\ DOMAIN storage_'.db.jobs = DOMAIN storage_.db.jobs \cup {n}
        /\ n \notin DOMAIN storage_.db.jobs
        /\ storage_'.db.jobs[n] = job
        /\ \A j \in DOMAIN storage_.db.jobs : storage_'.db.jobs[j] = storage_.db.jobs[j]
  BY <1>3, <1>4, <1>6, AppendRow
<1>8. /\ call'.op = "insert" /\ call'.job = n /\ call'.left = NumTasks
      /\ call' \in InsertCall
  BY <1>5, <1>7, TypesAssumption DEF InsertCall
<1>9. jobs_' = With(jobs_, n, job)
  BY <1>5, <1>8
<1>10. jobs_' = Loaded(storage_'.db.jobs, unread.jobs)
  BY <1>6, <1>7, <1>9 DEF Loaded, With
<1>11. /\ DOMAIN jobs_' = DOMAIN jobs_ \cup {n} /\ jobs_'[n] = job
       /\ n \notin DOMAIN jobs_
       /\ \A j \in DOMAIN jobs_ : jobs_'[j] = jobs_[j]
       /\ jobs_' \in [DOMAIN jobs_' -> JobRow]
  BY <1>4, <1>6, <1>7, <1>9 DEF With
<1> QED
  BY <1>2, <1>3, <1>5, <1>7, <1>8, <1>10, <1>11 DEF job

LEMMA InsertJobIInv ==
    ASSUME IInv,
           NEW priority \in JobPriorities, NEW status \in InsertStatuses,
           NEW now \in Times, InsertJob(priority, status, now)
    PROVE  IInv'
<1> USE DEF IInv
<1>1. /\ phase = "up" /\ phase' = "up"
      /\ UNCHANGED <<tasks_, unread, tasks_queue_, handed>>
      /\ call' \in InsertCall /\ call'.op = "insert"
      /\ storage_' \in Connection /\ Consistent(storage_')
      /\ storage_'.in_transaction /\ storage_'.disk = storage_.db
      /\ storage_'.db.tasks = storage_.db.tasks
      /\ call'.job \notin DOMAIN storage_.db.jobs
      /\ DOMAIN storage_'.db.jobs = DOMAIN storage_.db.jobs \cup {call'.job}
      /\ jobs_' = Loaded(storage_'.db.jobs, unread.jobs)
      /\ jobs_' \in [DOMAIN jobs_' -> JobRow]
      /\ DOMAIN jobs_' = DOMAIN jobs_ \cup {call'.job} /\ call'.job \notin DOMAIN jobs_
  BY InsertJobWrites
<1>2. TypeOK'
  <2>1. unread' \in [jobs : SUBSET (DOMAIN storage_'.db.jobs),
                     tasks : SUBSET (DOMAIN storage_'.db.tasks)]
    BY <1>1 DEF TypeOK
  <2> QED
    BY <1>1, <2>1 DEF TypeOK
<1>3. tasks_' = Loaded(storage_'.db.tasks, unread'.tasks)
  BY <1>1 DEF MemoryMatchesDatabase
<1>4. call' # NoCall
  BY <1>1 DEF NoCall
<1>5. TransactionDiscipline' /\ DownIsEmpty' /\ MemoryMatchesDatabase'
  BY <1>1, <1>3, <1>4 DEF TransactionDiscipline, DownIsEmpty, MemoryMatchesDatabase
<1>6. TasksHaveJobs' /\ TasksHaveJobsInMemory'
  BY <1>1 DEF TasksHaveJobs, HaveJobs, TasksHaveJobsInMemory
<1>7. QueuedAreWaiting' /\ DispatchedIsActive' /\ HandedAreActive'
  BY <1>1 DEF QueuedAreWaiting, DispatchedIsActive, HandedAreActive
<1>8. InsertedAreWaiting'
  BY <1>1 DEF InsertedAreWaiting, TasksHaveJobsInMemory
<1> QED
  BY <1>2, <1>5, <1>6, <1>7, <1>8

\* A round of the loop of insert_job: a row in the table, a task in memory.
LEMMA InsertTaskWrites ==
    ASSUME IInv, InsertTask
    PROVE  /\ phase = "up" /\ phase' = "up" /\ UNCHANGED <<jobs_, unread, tasks_queue_, handed>>
           /\ call \in InsertCall /\ call.op = "insert" /\ call.left \in 1..NumTasks
           /\ call' \in InsertCall /\ call'.op = "insert" /\ call'.job = call.job
           /\ call'.left = call.left - 1
           /\ storage_' \in Connection /\ Consistent(storage_')
           /\ storage_'.in_transaction /\ storage_'.disk = storage_.disk
           /\ storage_'.db.jobs = storage_.db.jobs
           /\ call.job \in DOMAIN jobs_
           /\ \E n \in Nat \ {0} :
                /\ n = Len(storage_'.db.tasks) /\ n = Len(storage_.db.tasks) + 1
                /\ n \notin DOMAIN storage_.db.tasks
                /\ DOMAIN storage_'.db.tasks = DOMAIN storage_.db.tasks \cup {n}
                /\ storage_'.db.tasks[n] = [job |-> call.job, status |-> "WAITING"]
                /\ \A t \in DOMAIN storage_.db.tasks :
                     storage_'.db.tasks[t] = storage_.db.tasks[t]
                /\ tasks_' = Loaded(storage_'.db.tasks, unread.tasks)
                /\ tasks_' \in [DOMAIN tasks_' -> TaskRow]
                /\ DOMAIN tasks_' = DOMAIN tasks_ \cup {n} /\ n \notin DOMAIN tasks_
                /\ tasks_'[n] = [job |-> call.job, status |-> "WAITING"]
                /\ \A t \in DOMAIN tasks_ : tasks_'[t] = tasks_[t]
<1> USE DEF IInv
<1> DEFINE task == [job |-> call.job, status |-> "WAITING"]
<1>1. /\ call \in InsertCall /\ call.op = "insert" /\ call.left \in 1..NumTasks
      /\ call.job \in Nat \ {0}
  BY CallKinds, TypesAssumption DEF InsertTask, InsertCall
<1>2. storage_ \in Connection /\ phase = "up" /\ call # NoCall
  BY <1>1 DEF TypeOK, DownIsEmpty, NoCall
<1>3. /\ storage_' \in Connection /\ Consistent(storage_')
      /\ storage_'.in_transaction
      /\ storage_'.disk = storage_.disk
      /\ storage_'.db.jobs = storage_.db.jobs
      /\ storage_'.db.tasks = Append(storage_.db.tasks, task)
  BY <1>1, <1>2, InsertTaskRowConsistent DEF InsertTask, TransactionDiscipline, TaskStatus
<1>4. task \in TaskRow
  BY <1>1 DEF TaskRow, TaskStatus
<1>5. /\ tasks_' = With(tasks_, Len(storage_'.db.tasks), task)
      /\ UNCHANGED <<jobs_, unread, tasks_queue_, handed>> /\ phase' = "up"
  BY <1>2 DEF InsertTask
<1> HIDE DEF task
<1>6. /\ storage_.db.tasks \in Seq(TaskRow)
      /\ unread.tasks \subseteq DOMAIN storage_.db.tasks
      /\ tasks_ = Loaded(storage_.db.tasks, unread.tasks)
      /\ DOMAIN tasks_ = DOMAIN storage_.db.tasks \ unread.tasks
      /\ tasks_ \in [DOMAIN tasks_ -> TaskRow]
  BY <1>2, MemoryIsPart DEF TypeOK
<1>7. /\ call' \in InsertCall /\ call'.op = "insert" /\ call'.job = call.job
      /\ call'.left = call.left - 1 /\ call.job \in DOMAIN jobs_
  BY <1>1, TypesAssumption DEF InsertTask, InsertCall, InsertedAreWaiting
<1>8. PICK n \in Nat \ {0} :
        /\ n = Len(storage_'.db.tasks) /\ n = Len(storage_.db.tasks) + 1
        /\ DOMAIN storage_'.db.tasks = DOMAIN storage_.db.tasks \cup {n}
        /\ n \notin DOMAIN storage_.db.tasks
        /\ storage_'.db.tasks[n] = task
        /\ \A t \in DOMAIN storage_.db.tasks : storage_'.db.tasks[t] = storage_.db.tasks[t]
  BY <1>3, <1>4, <1>6, AppendRow
<1>9. tasks_' = With(tasks_, n, task)
  BY <1>5, <1>8
<1>10. tasks_' = Loaded(storage_'.db.tasks, unread.tasks)
  BY <1>6, <1>8, <1>9 DEF Loaded, With
<1>11. /\ DOMAIN tasks_' = DOMAIN tasks_ \cup {n} /\ tasks_'[n] = task
       /\ n \notin DOMAIN tasks_
       /\ \A t \in DOMAIN tasks_ : tasks_'[t] = tasks_[t]
       /\ tasks_' \in [DOMAIN tasks_' -> TaskRow]
  BY <1>4, <1>6, <1>8, <1>9 DEF With
<1>12. \E m \in Nat \ {0} :
         /\ m = Len(storage_'.db.tasks) /\ m = Len(storage_.db.tasks) + 1
         /\ m \notin DOMAIN storage_.db.tasks
         /\ DOMAIN storage_'.db.tasks = DOMAIN storage_.db.tasks \cup {m}
         /\ storage_'.db.tasks[m] = task
         /\ \A t \in DOMAIN storage_.db.tasks :
              storage_'.db.tasks[t] = storage_.db.tasks[t]
         /\ tasks_' = Loaded(storage_'.db.tasks, unread.tasks)
         /\ tasks_' \in [DOMAIN tasks_' -> TaskRow]
         /\ DOMAIN tasks_' = DOMAIN tasks_ \cup {m} /\ m \notin DOMAIN tasks_
         /\ tasks_'[m] = task
         /\ \A t \in DOMAIN tasks_ : tasks_'[t] = tasks_[t]
  BY <1>8, <1>10, <1>11, Zenon
<1> QED
  BY <1>1, <1>2, <1>3, <1>5, <1>7, <1>12, Zenon DEF task

LEMMA InsertTaskIInv ==
    ASSUME IInv, InsertTask
    PROVE  IInv'
<1> USE DEF IInv
<1>1. /\ phase = "up" /\ phase' = "up" /\ UNCHANGED <<jobs_, unread, tasks_queue_, handed>>
      /\ call.op = "insert"
      /\ call' \in InsertCall /\ call'.op = "insert" /\ call'.job = call.job
      /\ storage_' \in Connection /\ Consistent(storage_')
      /\ storage_'.in_transaction /\ storage_'.disk = storage_.disk
      /\ storage_'.db.jobs = storage_.db.jobs
      /\ call.job \in DOMAIN jobs_
  BY InsertTaskWrites
<1>2. PICK n \in Nat \ {0} :
        /\ n \notin DOMAIN storage_.db.tasks
        /\ DOMAIN storage_'.db.tasks = DOMAIN storage_.db.tasks \cup {n}
        /\ storage_'.db.tasks[n] = [job |-> call.job, status |-> "WAITING"]
        /\ \A t \in DOMAIN storage_.db.tasks : storage_'.db.tasks[t] = storage_.db.tasks[t]
        /\ tasks_' = Loaded(storage_'.db.tasks, unread.tasks)
        /\ tasks_' \in [DOMAIN tasks_' -> TaskRow]
        /\ DOMAIN tasks_' = DOMAIN tasks_ \cup {n} /\ n \notin DOMAIN tasks_
        /\ tasks_'[n] = [job |-> call.job, status |-> "WAITING"]
        /\ \A t \in DOMAIN tasks_ : tasks_'[t] = tasks_[t]
  BY InsertTaskWrites, Zenon
<1>3. TypeOK'
  <2>1. unread' \in [jobs : SUBSET (DOMAIN storage_'.db.jobs),
                     tasks : SUBSET (DOMAIN storage_'.db.tasks)]
    BY <1>1, <1>2 DEF TypeOK
  <2> QED
    BY <1>1, <1>2, <2>1 DEF TypeOK
<1>4. jobs_' = Loaded(storage_'.db.jobs, unread'.jobs)
  BY <1>1 DEF MemoryMatchesDatabase
<1>5. TransactionDiscipline' /\ DownIsEmpty' /\ MemoryMatchesDatabase'
  BY <1>1, <1>2, <1>4 DEF TransactionDiscipline, DownIsEmpty, MemoryMatchesDatabase
<1>6. TasksHaveJobs'
  <2>1. call.job \in DOMAIN storage_.db.jobs
    BY <1>1, MemoryIsPart
  <2> QED
    BY <1>1, <1>2, <2>1 DEF TasksHaveJobs, HaveJobs
<1>7. TasksHaveJobsInMemory'
  BY <1>1, <1>2 DEF TasksHaveJobsInMemory
<1>8. QueuedAreWaiting' /\ DispatchedIsActive'
  BY <1>1, <1>2 DEF QueuedAreWaiting, DispatchedIsActive, TypeOK
<1>9. HandedAreActive'
  BY <1>1, <1>2 DEF HandedAreActive
<1>10. InsertedAreWaiting'
  BY <1>1, <1>2 DEF InsertedAreWaiting
<1> QED
  BY <1>3, <1>5, <1>6, <1>7, <1>8, <1>9, <1>10

\* The end of insert_job: its rows reach the file, its tasks the queue.
LEMMA InsertReturnWrites ==
    ASSUME IInv, InsertReturn
    PROVE  /\ phase = "up" /\ phase' = "up" /\ UNCHANGED <<tasks_, jobs_, unread, handed>>
           /\ call \in InsertCall /\ call.op = "insert" /\ call.left = 0
           /\ call' = NoCall /\ call'.op = "none"
           /\ tasks_queue_' =
                tasks_queue_ \cup {t \in DOMAIN tasks_ : tasks_[t].job = call.job}
           /\ storage_' \in Connection /\ Consistent(storage_')
           /\ ~storage_'.in_transaction
           /\ storage_'.disk = storage_.db /\ storage_'.db = storage_.db
<1> USE DEF IInv
<1>1. call \in InsertCall /\ call.op = "insert"
  BY CallKinds DEF InsertReturn
<1>2. storage_ \in Connection /\ phase = "up" /\ call # NoCall
  BY <1>1 DEF TypeOK, DownIsEmpty, NoCall
<1>3. /\ storage_' \in Connection /\ Consistent(storage_')
      /\ ~storage_'.in_transaction
      /\ storage_'.disk = storage_.db
      /\ storage_'.db = storage_.db
  BY <1>1, <1>2, TransactionCommitConsistent
     DEF InsertReturn, InsertJobCommit, TransactionDiscipline
<1>4. /\ UNCHANGED <<tasks_, jobs_, unread, handed>> /\ phase' = "up" /\ call.left = 0
      /\ tasks_queue_' = tasks_queue_ \cup {t \in DOMAIN tasks_ : tasks_[t].job = call.job}
      /\ call' = NoCall /\ call'.op = "none"
  BY <1>2 DEF InsertReturn, NoCall
<1> QED
  BY <1>1, <1>2, <1>3, <1>4

LEMMA InsertReturnIInv ==
    ASSUME IInv, InsertReturn
    PROVE  IInv'
<1> USE DEF IInv
<1>1. call.op = "insert" /\ phase = "up"
  BY InsertReturnWrites
<1>2. /\ storage_' \in Connection /\ Consistent(storage_')
      /\ ~storage_'.in_transaction
      /\ storage_'.disk = storage_.db
      /\ storage_'.db = storage_.db
  BY InsertReturnWrites
<1>3. /\ UNCHANGED <<tasks_, jobs_, unread, handed>> /\ phase' = "up"
      /\ tasks_queue_' = tasks_queue_ \cup {t \in DOMAIN tasks_ : tasks_[t].job = call.job}
      /\ call' = NoCall /\ call'.op = "none"
  BY InsertReturnWrites
<1>4. TypeOK'
  BY <1>2, <1>3 DEF TypeOK
<1>5. TransactionDiscipline' /\ DownIsEmpty' /\ MemoryMatchesDatabase'
  BY <1>1, <1>2, <1>3 DEF TransactionDiscipline, DownIsEmpty, MemoryMatchesDatabase
<1>6. TasksHaveJobs' /\ TasksHaveJobsInMemory'
  BY <1>2, <1>3 DEF TasksHaveJobs, HaveJobs, TasksHaveJobsInMemory
<1>7. QueuedAreWaiting' /\ InsertedAreWaiting' /\ DispatchedIsActive'
  BY <1>1, <1>3 DEF QueuedAreWaiting, InsertedAreWaiting, DispatchedIsActive
<1>8. HandedAreActive'
  BY <1>2, <1>3 DEF HandedAreActive
<1> QED
  BY <1>4, <1>5, <1>6, <1>7, <1>8

\* The first step of dispatch_task: one task turns active in the table and in
\* memory, nothing else changes but the queue.
LEMMA DispatchTaskWrites ==
    ASSUME IInv, NEW t \in tasks_queue_, NEW now \in Times, DispatchTask(t, now)
    PROVE  /\ phase = "up" /\ phase' = "up" /\ call = NoCall /\ call.op = "none"
           /\ UNCHANGED <<jobs_, unread, handed>>
           /\ tasks_queue_' = tasks_queue_ \ {t}
           /\ call' \in DispatchCall /\ call'.op = "dispatch"
           /\ call'.job = tasks_[t].job /\ call'.task = t
           /\ storage_' \in Connection /\ Consistent(storage_')
           /\ storage_'.in_transaction = (UseBulkedTransactions \/ storage_.in_transaction)
           /\ storage_'.disk = IF storage_'.in_transaction THEN storage_.disk ELSE storage_'.db
           /\ storage_'.db.jobs = storage_.db.jobs
           /\ t \in DOMAIN storage_.db.tasks /\ t \in DOMAIN tasks_
           /\ DOMAIN storage_'.db.tasks = DOMAIN storage_.db.tasks
           /\ Len(storage_'.db.tasks) = Len(storage_.db.tasks)
           /\ storage_'.db.tasks[t] = [job |-> tasks_[t].job, status |-> "ACTIVE"]
           /\ storage_.db.tasks[t].job = tasks_[t].job
           /\ \A u \in DOMAIN storage_.db.tasks :
                u # t => storage_'.db.tasks[u] = storage_.db.tasks[u]
           /\ tasks_' = Loaded(storage_'.db.tasks, unread.tasks)
           /\ tasks_' \in [DOMAIN tasks_' -> TaskRow] /\ DOMAIN tasks_' = DOMAIN tasks_
           /\ tasks_'[t] = [job |-> tasks_[t].job, status |-> "ACTIVE"]
           /\ \A u \in DOMAIN tasks_ : u # t => tasks_'[u] = tasks_[u]
<1> USE DEF IInv
<1>1. storage_' = UpdateTask(storage_, now, t, "ACTIVE")
  BY DEF DispatchTask
<1>2. /\ now \in Int /\ call = NoCall /\ call.op = "none" /\ phase = "up"
      /\ storage_ \in Connection
  BY FarmAssumption, CallKinds DEF DispatchTask, TypeOK
<1>3. /\ storage_.db.tasks \in Seq(TaskRow)
      /\ tasks_ = Loaded(storage_.db.tasks, unread.tasks)
      /\ tasks_[t] = storage_.db.tasks[t] /\ tasks_ \in [DOMAIN tasks_ -> TaskRow]
      /\ t \in DOMAIN tasks_ /\ t \in DOMAIN storage_.db.tasks \ unread.tasks
  BY <1>2, MemoryIsPart DEF TypeOK
<1>4. /\ storage_' \in Connection /\ Consistent(storage_')
      /\ storage_'.in_transaction = (UseBulkedTransactions \/ storage_.in_transaction)
      /\ storage_'.disk = IF storage_'.in_transaction THEN storage_.disk ELSE storage_'.db
      /\ storage_'.db.jobs = storage_.db.jobs
      /\ storage_'.db.tasks = [storage_.db.tasks EXCEPT ![t].status = "ACTIVE"]
  <2>1. /\ Consistent(storage_) /\ t \in DOMAIN storage_.db.tasks
        /\ "ACTIVE" \in TaskStatus
    BY <1>3 DEF TransactionDiscipline, TaskStatus
  <2> QED
    BY <1>1, <1>2, <2>1, UpdateTaskConsistent
<1>5. /\ tasks_' = [tasks_ EXCEPT ![t].status = "ACTIVE"]
      /\ tasks_queue_' = tasks_queue_ \ {t}
      /\ UNCHANGED <<jobs_, unread, handed>> /\ phase' = "up"
      /\ call' = [op |-> "dispatch", job |-> tasks_[t].job, task |-> t]
      /\ call'.op = "dispatch" /\ call'.job = tasks_[t].job /\ call'.task = t
  BY <1>2 DEF DispatchTask
<1> DEFINE row == [job |-> tasks_[t].job, status |-> "ACTIVE"]
<1>6. tasks_[t] \in TaskRow /\ t \in Nat \ {0} /\ tasks_[t].job \in Nat \ {0}
  <2>1. tasks_[t] \in TaskRow
    BY <1>3
  <2>2. t \in 1..Len(storage_.db.tasks) /\ Len(storage_.db.tasks) \in Nat
    BY <1>3
  <2> QED
    BY <2>1, <2>2 DEF TaskRow
<1>7. row \in TaskRow
  BY <1>6 DEF TaskRow, TaskStatus
<1>8. /\ tasks_' = [tasks_ EXCEPT ![t] = row]
      /\ storage_'.db.tasks = [storage_.db.tasks EXCEPT ![t] = row]
  <2>1. [tasks_[t] EXCEPT !.status = "ACTIVE"] = row
    BY <1>6 DEF TaskRow
  <2> QED
    BY <1>3, <1>4, <1>5, <2>1
<1> HIDE DEF row
<1>9. /\ tasks_' \in [DOMAIN tasks_' -> TaskRow] /\ DOMAIN tasks_' = DOMAIN tasks_
      /\ tasks_'[t] = row
      /\ \A u \in DOMAIN tasks_ : u # t => tasks_'[u] = tasks_[u]
  BY <1>3, <1>7, <1>8
<1>10. /\ DOMAIN storage_'.db.tasks = DOMAIN storage_.db.tasks
       /\ Len(storage_'.db.tasks) = Len(storage_.db.tasks)
       /\ storage_'.db.tasks[t] = row
       /\ \A u \in DOMAIN storage_.db.tasks :
            u # t => storage_'.db.tasks[u] = storage_.db.tasks[u]
  BY <1>3, <1>7, <1>8
<1>11. tasks_' = Loaded(storage_'.db.tasks, unread.tasks)
  BY <1>3, <1>8 DEF Loaded
<1>12. call' \in DispatchCall
  BY <1>5, <1>6 DEF DispatchCall
<1> QED
  BY <1>2, <1>3, <1>4, <1>5, <1>9, <1>10, <1>11, <1>12 DEF row

LEMMA DispatchTaskIInv ==
    ASSUME IInv, NEW t \in tasks_queue_, NEW now \in Times, DispatchTask(t, now)
    PROVE  IInv'
<1> USE DEF IInv
<1>1. /\ phase = "up" /\ phase' = "up" /\ call.op = "none"
      /\ UNCHANGED <<jobs_, unread, handed>>
      /\ tasks_queue_' = tasks_queue_ \ {t}
      /\ call' \in DispatchCall /\ call'.op = "dispatch"
      /\ call'.job = tasks_[t].job /\ call'.task = t
      /\ storage_' \in Connection /\ Consistent(storage_')
      /\ storage_'.in_transaction = (UseBulkedTransactions \/ storage_.in_transaction)
      /\ storage_'.disk = IF storage_'.in_transaction THEN storage_.disk ELSE storage_'.db
      /\ storage_'.db.jobs = storage_.db.jobs
  BY DispatchTaskWrites
<1>2. /\ t \in DOMAIN storage_.db.tasks
      /\ DOMAIN storage_'.db.tasks = DOMAIN storage_.db.tasks
      /\ storage_'.db.tasks[t] = [job |-> tasks_[t].job, status |-> "ACTIVE"]
      /\ storage_.db.tasks[t].job = tasks_[t].job
      /\ \A u \in DOMAIN storage_.db.tasks :
           u # t => storage_'.db.tasks[u] = storage_.db.tasks[u]
  BY DispatchTaskWrites
<1>3. /\ t \in DOMAIN tasks_ /\ tasks_' = Loaded(storage_'.db.tasks, unread.tasks)
      /\ tasks_' \in [DOMAIN tasks_' -> TaskRow] /\ DOMAIN tasks_' = DOMAIN tasks_
      /\ tasks_'[t] = [job |-> tasks_[t].job, status |-> "ACTIVE"]
      /\ \A u \in DOMAIN tasks_ : u # t => tasks_'[u] = tasks_[u]
  BY DispatchTaskWrites
<1>4. TypeOK'
  <2>1. unread' \in [jobs : SUBSET (DOMAIN storage_'.db.jobs),
                     tasks : SUBSET (DOMAIN storage_'.db.tasks)]
    BY <1>1, <1>2 DEF TypeOK
  <2> QED
    BY <1>1, <1>3, <2>1 DEF TypeOK
<1>5. jobs_' = Loaded(storage_'.db.jobs, unread'.jobs)
  BY <1>1 DEF MemoryMatchesDatabase
<1>6. TransactionDiscipline' /\ DownIsEmpty' /\ MemoryMatchesDatabase'
  BY <1>1, <1>3, <1>5 DEF TransactionDiscipline, DownIsEmpty, MemoryMatchesDatabase
<1>7. TasksHaveJobsInMemory'
  BY <1>1, <1>3 DEF TasksHaveJobsInMemory
<1>8. TasksHaveJobs'
  <2>1. HaveJobs(storage_'.db)
    BY <1>1, <1>2 DEF TasksHaveJobs, HaveJobs
  <2>2. HaveJobs(storage_'.disk)
    BY <1>1, <2>1 DEF TasksHaveJobs
  <2> QED
    BY <2>1, <2>2 DEF TasksHaveJobs
<1>9. QueuedAreWaiting' /\ InsertedAreWaiting' /\ DispatchedIsActive'
  BY <1>1, <1>3 DEF QueuedAreWaiting, InsertedAreWaiting, DispatchedIsActive,
     TasksHaveJobsInMemory, TypeOK
<1>10. HandedAreActive'
  BY <1>1, <1>2 DEF HandedAreActive
<1> QED
  BY <1>4, <1>6, <1>7, <1>8, <1>9, <1>10

\* The end of dispatch_task, with or without an update of the job.
LEMMA DispatchReturnWrites ==
    ASSUME IInv, DispatchReturn
    PROVE  /\ phase = "up" /\ phase' = "up"
           /\ call \in DispatchCall /\ call.op = "dispatch"
           /\ call' = NoCall /\ call'.op = "none"
           /\ UNCHANGED <<tasks_, unread, tasks_queue_>>
           /\ handed' = handed \cup {call.task}
           /\ call.job \in DOMAIN jobs_ /\ call.job \in DOMAIN storage_.db.jobs
           /\ storage_' \in Connection /\ Consistent(storage_')
           /\ storage_'.in_transaction = storage_.in_transaction
           /\ storage_'.disk = IF storage_.in_transaction THEN storage_.disk ELSE storage_'.db
           /\ storage_'.db.tasks = storage_.db.tasks
           /\ DOMAIN storage_'.db.jobs = DOMAIN storage_.db.jobs
           /\ Len(storage_'.db.jobs) = Len(storage_.db.jobs)
           /\ jobs_' = Loaded(storage_'.db.jobs, unread.jobs)
           /\ jobs_' \in [DOMAIN jobs_ -> JobRow] /\ DOMAIN jobs_' = DOMAIN jobs_
           /\ storage_'.db.jobs[call.job].status = "ACTIVE"
           /\ storage_'.db.jobs[call.job].priority = storage_.db.jobs[call.job].priority
           /\ jobs_'[call.job] = storage_'.db.jobs[call.job]
           /\ \A j \in DOMAIN storage_.db.jobs :
                j # call.job => storage_'.db.jobs[j] = storage_.db.jobs[j]
           /\ \A j \in DOMAIN jobs_ : j # call.job => jobs_'[j] = jobs_[j]
<1> USE DEF IInv
<1>1. call.op = "dispatch" /\ call.job \in DOMAIN jobs_ /\ call \in DispatchCall
  BY CallKinds DEF DispatchReturn, DispatchedIsActive
<1>2. storage_ \in Connection /\ phase = "up" /\ Consistent(storage_)
  BY <1>1 DEF TypeOK, DownIsEmpty, NoCall, TransactionDiscipline
<1>3. /\ storage_.db.jobs \in Seq(JobRow)
      /\ jobs_ = Loaded(storage_.db.jobs, unread.jobs)
      /\ DOMAIN jobs_ = DOMAIN storage_.db.jobs \ unread.jobs
      /\ jobs_[call.job] = storage_.db.jobs[call.job]
      /\ jobs_[call.job] \in JobRow
      /\ jobs_ \in [DOMAIN jobs_ -> JobRow]
      /\ call.job \in DOMAIN storage_.db.jobs \ unread.jobs
  BY <1>1, <1>2, MemoryIsPart DEF TypeOK
<1>4. /\ phase' = "up" /\ call' = NoCall /\ call'.op = "none"
      /\ UNCHANGED <<tasks_, unread, tasks_queue_>>
      /\ handed' = handed \cup {call.task}
  BY <1>2 DEF DispatchReturn, NoCall
<1>5. CASE jobs_[call.job].status # "ACTIVE"
  <2> DEFINE job == [priority |-> jobs_[call.job].priority, status |-> "ACTIVE"]
  <2>1. [jobs_[call.job] EXCEPT !.status = "ACTIVE"] = job
    BY <1>3 DEF JobRow
  <2>2. job \in JobRow
    BY <1>3 DEF JobRow, JobStatus
  <2>3. jobs_' = [jobs_ EXCEPT ![call.job] = job]
    BY <1>5, <2>1 DEF DispatchReturn
  <2>4. job.status = "ACTIVE" /\ job.priority = jobs_[call.job].priority
    OBVIOUS
  <2> HIDE DEF job
  <2>5. storage_' = UpdateJob(storage_, call.job, job)
    BY <1>1, <1>3, <1>5, <2>3 DEF DispatchReturn
  <2>6. /\ storage_' \in Connection /\ Consistent(storage_')
        /\ storage_'.in_transaction = storage_.in_transaction
        /\ storage_'.disk = IF storage_.in_transaction THEN storage_.disk ELSE storage_'.db
        /\ storage_'.db.jobs = [storage_.db.jobs EXCEPT ![call.job] = job]
        /\ storage_'.db.tasks = storage_.db.tasks
    BY <1>2, <1>3, <2>2, <2>5, UpdateJobConsistent
  <2>7. jobs_' = Loaded(storage_'.db.jobs, unread.jobs)
    BY <1>3, <2>3, <2>6 DEF Loaded
  <2>8. /\ jobs_' \in [DOMAIN jobs_ -> JobRow] /\ DOMAIN jobs_' = DOMAIN jobs_
        /\ jobs_'[call.job] = job
        /\ \A j \in DOMAIN jobs_ : j # call.job => jobs_'[j] = jobs_[j]
    BY <1>1, <1>3, <2>2, <2>3
  <2>9. /\ DOMAIN storage_'.db.jobs = DOMAIN storage_.db.jobs
        /\ Len(storage_'.db.jobs) = Len(storage_.db.jobs)
        /\ storage_'.db.jobs[call.job] = job
        /\ \A j \in DOMAIN storage_.db.jobs :
             j # call.job => storage_'.db.jobs[j] = storage_.db.jobs[j]
    BY <1>3, <2>6
  <2> QED
    BY <1>1, <1>2, <1>3, <1>4, <2>4, <2>6, <2>7, <2>8, <2>9
<1>6. CASE ~(jobs_[call.job].status # "ACTIVE")
  <2>1. storage_' = storage_ /\ jobs_' = jobs_
    BY <1>6 DEF DispatchReturn
  <2> QED
    BY <1>1, <1>2, <1>3, <1>4, <1>6, <2>1 DEF Consistent
<1> QED
  BY <1>5, <1>6

LEMMA DispatchReturnIInv ==
    ASSUME IInv, DispatchReturn
    PROVE  IInv'
<1> USE DEF IInv
<1>1. /\ call.task \in Nat \ {0} /\ call.task \in DOMAIN tasks_
      /\ tasks_[call.task].status = "ACTIVE"
  BY DispatchReturnWrites DEF DispatchedIsActive, DispatchCall
<1>2. phase = "up" /\ call.op = "dispatch"
  BY DispatchReturnWrites
<1>3. /\ tasks_ = Loaded(storage_.db.tasks, unread.tasks)
      /\ DOMAIN tasks_ = DOMAIN storage_.db.tasks \ unread.tasks
      /\ tasks_[call.task] = storage_.db.tasks[call.task]
  BY <1>1, <1>2, MemoryIsPart
<1>4. /\ UNCHANGED <<tasks_, unread, tasks_queue_>> /\ phase' = "up"
      /\ call' = NoCall /\ call'.op = "none"
      /\ handed' = handed \cup {call.task}
  BY DispatchReturnWrites
<1>5. /\ storage_' \in Connection /\ Consistent(storage_')
      /\ storage_'.in_transaction = storage_.in_transaction
      /\ storage_'.disk = IF storage_.in_transaction THEN storage_.disk ELSE storage_'.db
      /\ storage_'.db.tasks = storage_.db.tasks
      /\ DOMAIN storage_'.db.jobs = DOMAIN storage_.db.jobs
      /\ jobs_' = Loaded(storage_'.db.jobs, unread.jobs)
      /\ jobs_' \in [DOMAIN jobs_ -> JobRow] /\ DOMAIN jobs_' = DOMAIN jobs_
  BY DispatchReturnWrites
<1>6. TypeOK'
  <2>1. unread' \in [jobs : SUBSET (DOMAIN storage_'.db.jobs),
                     tasks : SUBSET (DOMAIN storage_'.db.tasks)]
    BY <1>4, <1>5 DEF TypeOK
  <2> QED
    BY <1>1, <1>4, <1>5, <2>1 DEF TypeOK
<1>7. TransactionDiscipline' /\ DownIsEmpty' /\ MemoryMatchesDatabase'
  BY <1>1, <1>2, <1>3, <1>4, <1>5 DEF TransactionDiscipline, DownIsEmpty, MemoryMatchesDatabase
<1>8. TasksHaveJobsInMemory'
  BY <1>4, <1>5 DEF TasksHaveJobsInMemory
<1>9. TasksHaveJobs'
  <2>1. HaveJobs(storage_'.db)
    BY <1>5 DEF TasksHaveJobs, HaveJobs
  <2> QED
    BY <1>5, <2>1 DEF TasksHaveJobs
<1>10. QueuedAreWaiting' /\ InsertedAreWaiting' /\ DispatchedIsActive'
  BY <1>4 DEF QueuedAreWaiting, InsertedAreWaiting, DispatchedIsActive
<1>11. HandedAreActive'
  BY <1>1, <1>3, <1>4, <1>5 DEF HandedAreActive
<1> QED
  BY <1>6, <1>7, <1>8, <1>9, <1>10, <1>11

\* The idle handler commits or does nothing: what is read stays the same.
LEMMA IdleHandlerWrites ==
    ASSUME IInv, NEW now \in Times, IdleHandler(now)
    PROVE  /\ phase = "up" /\ phase' = "up" /\ call = NoCall /\ call.op = "none"
           /\ UNCHANGED <<phase, jobs_, tasks_, unread, tasks_queue_, call, handed>>
           /\ storage_' \in Connection /\ Consistent(storage_')
           /\ storage_'.db = storage_.db
           /\ \/ storage_' = storage_
              \/ ~storage_'.in_transaction /\ storage_'.disk = storage_.db
<1>1. storage_' = FlushCaches(storage_, now, FALSE)
  BY DEF IdleHandler
<1>2. /\ now \in Int /\ call = NoCall /\ call.op = "none" /\ phase = "up"
      /\ storage_ \in Connection /\ Consistent(storage_)
  BY FarmAssumption, CallKinds DEF IdleHandler, IInv, TypeOK, TransactionDiscipline
<1>3. UNCHANGED <<phase, jobs_, tasks_, unread, tasks_queue_, call, handed>>
  BY DEF IdleHandler
<1> QED
  BY <1>1, <1>2, <1>3, TransactionCommitPendingConsistent DEF FlushCaches

LEMMA IdleHandlerIInv ==
    ASSUME IInv, NEW now \in Times, IdleHandler(now)
    PROVE  IInv'
<1> USE DEF IInv
<1>2. call.op = "none" /\ phase = "up"
  BY IdleHandlerWrites
<1>3. /\ storage_' \in Connection /\ Consistent(storage_')
      /\ storage_'.db = storage_.db
      /\ \/ storage_' = storage_
         \/ ~storage_'.in_transaction /\ storage_'.disk = storage_.db
  BY IdleHandlerWrites
<1>4. UNCHANGED <<phase, jobs_, tasks_, unread, tasks_queue_, call, handed>>
  BY IdleHandlerWrites
<1>5. TypeOK'
  BY <1>3, <1>4 DEF TypeOK
<1>6. TransactionDiscipline' /\ DownIsEmpty' /\ MemoryMatchesDatabase'
  BY <1>2, <1>3, <1>4 DEF TransactionDiscipline, DownIsEmpty, MemoryMatchesDatabase
<1>7. TasksHaveJobs' /\ TasksHaveJobsInMemory'
  BY <1>2, <1>3, <1>4 DEF TasksHaveJobs, HaveJobs, TasksHaveJobsInMemory
<1>8. QueuedAreWaiting' /\ InsertedAreWaiting' /\ DispatchedIsActive'
  BY <1>4 DEF QueuedAreWaiting, InsertedAreWaiting, DispatchedIsActive
<1>9. HandedAreActive'
  BY <1>2, <1>3, <1>4 DEF HandedAreActive
<1> QED
  BY <1>5, <1>6, <1>7, <1>8, <1>9

\* After the end of a process only its file and the history matter.
LEMMA ExitIInv ==
    ASSUME IInv, Exit,
           storage_' \in Connection, Consistent(storage_'),
           ~storage_'.in_transaction, storage_'.disk \in {storage_.disk, storage_.db},
           handed' \subseteq handed,
           \A t \in handed' : /\ t \in DOMAIN storage_'.db.tasks
                              /\ storage_'.db.tasks[t].status = "ACTIVE"
    PROVE  IInv'
<1> USE DEF IInv
<1>1. /\ phase = "up" /\ phase' = "down"
      /\ jobs_' = <<>> /\ tasks_' = <<>> /\ tasks_queue_' = {}
      /\ unread' = NothingUnread
      /\ call' = NoCall /\ call'.op = "none"
  BY DEF Exit, NoCall
<1>2. TypeOK'
  <2>1. unread' \in [jobs : SUBSET (DOMAIN storage_'.db.jobs),
                     tasks : SUBSET (DOMAIN storage_'.db.tasks)]
    BY <1>1 DEF NothingUnread
  <2> QED
    BY <1>1, <2>1 DEF TypeOK
<1>3. TransactionDiscipline' /\ DownIsEmpty' /\ MemoryMatchesDatabase'
  BY <1>1 DEF TransactionDiscipline, DownIsEmpty, MemoryMatchesDatabase
<1>4. TasksHaveJobs'
  <2>1. storage_'.db = storage_'.disk
    BY DEF Consistent
  <2> QED
    BY <2>1 DEF TasksHaveJobs
<1>5. TasksHaveJobsInMemory'
  BY <1>1 DEF TasksHaveJobsInMemory
<1>6. QueuedAreWaiting' /\ InsertedAreWaiting' /\ DispatchedIsActive'
  BY <1>1 DEF QueuedAreWaiting, InsertedAreWaiting, DispatchedIsActive
<1>7. HandedAreActive'
  BY <1>1 DEF HandedAreActive
<1> QED
  BY <1>2, <1>3, <1>4, <1>5, <1>6, <1>7

\* disconnect brings everything to the file, and the process is gone.
LEMMA ShutdownWrites ==
    ASSUME IInv, NEW now \in Times, Shutdown(now)
    PROVE  /\ phase = "up" /\ call = NoCall /\ call.op = "none" /\ call'.op = "none"
           /\ handed' = handed /\ Exit
           /\ storage_' \in Connection /\ Consistent(storage_')
           /\ ~storage_'.in_transaction
           /\ storage_'.db = storage_.db /\ storage_'.disk = storage_.db
<1>1. storage_' = Disconnect(storage_, now)
  BY DEF Shutdown
<1>2. /\ now \in Int /\ call = NoCall /\ call.op = "none"
      /\ storage_ \in Connection /\ Consistent(storage_)
      /\ UseBulkedTransactions \/ ~storage_.in_transaction
  BY FarmAssumption, CallKinds DEF Shutdown, IInv, TypeOK, TransactionDiscipline
<1>3. /\ storage_' \in Connection /\ Consistent(storage_')
      /\ ~storage_'.in_transaction
      /\ storage_'.db = storage_.db /\ storage_'.disk = storage_.db
  BY <1>1, <1>2, DisconnectConsistent
<1>4. handed' = handed /\ Exit /\ phase = "up" /\ call'.op = "none"
  BY DEF Shutdown, Exit, NoCall
<1> QED
  BY <1>2, <1>3, <1>4

LEMMA ShutdownIInv ==
    ASSUME IInv, NEW now \in Times, Shutdown(now)
    PROVE  IInv'
BY ShutdownWrites, ExitIInv DEF IInv, HandedAreActive

LEMMA CrashIInv ==
    ASSUME IInv, Crash
    PROVE  IInv'
<1>1. storage_.disk \in Database /\ storage_' = SqlOpen(storage_.disk)
  BY DEF Crash, IInv, TypeOK, Connection
<1>2. /\ storage_' \in Connection /\ Consistent(storage_')
      /\ ~storage_'.in_transaction
      /\ storage_'.db = storage_.disk /\ storage_'.disk = storage_.disk
  BY <1>1, SqlOpenConsistent
<1> QED
  BY <1>2, ExitIInv DEF Crash

-----------------------------------------------------------------------------
(* Theorems. *)

LEMMA NextIInv ==
    IInv /\ [Next]_vars => IInv'
<1> SUFFICES ASSUME IInv, [Next]_vars
             PROVE  IInv'
  OBVIOUS
<1>1. CASE Start
  BY <1>1, StartIInv
<1>2. ASSUME NEW priority \in JobPriorities, NEW status \in InsertStatuses,
             NEW now \in Times, InsertJob(priority, status, now)
      PROVE  IInv'
  BY <1>2, InsertJobIInv
<1>3. CASE InsertTask
  BY <1>3, InsertTaskIInv
<1>4. CASE InsertReturn
  BY <1>4, InsertReturnIInv
<1>5. ASSUME NEW t \in tasks_queue_, NEW now \in Times, DispatchTask(t, now)
      PROVE  IInv'
  BY <1>5, DispatchTaskIInv
<1>6. CASE DispatchReturn
  BY <1>6, DispatchReturnIInv
<1>7. ASSUME NEW now \in Times, IdleHandler(now)
      PROVE  IInv'
  BY <1>7, IdleHandlerIInv
<1>8. ASSUME NEW now \in Times, Shutdown(now)
      PROVE  IInv'
  BY <1>8, ShutdownIInv
<1>9. CASE Crash
  BY <1>9, CrashIInv
<1>10. CASE UNCHANGED vars
  BY <1>10 DEF vars, IInv, TypeOK, TransactionDiscipline, DownIsEmpty,
     MemoryMatchesDatabase, TasksHaveJobs, HaveJobs, TasksHaveJobsInMemory,
     QueuedAreWaiting, InsertedAreWaiting, DispatchedIsActive, HandedAreActive
<1> QED
  BY <1>1, <1>2, <1>3, <1>4, <1>5, <1>6, <1>7, <1>8, <1>9, <1>10
     DEF Next, TimedNext, UntimedNext

\* IInv is an invariant of every farm.
LEMMA IInvInvariant == Spec => []IInv
<1> QED
  BY InitIInv, NextIInv, PTL DEF Spec

\* The variables keep their types: in particular everything in the queue
\* points to a task that is in memory.
THEOREM TypeCorrect == Spec => []TypeOK
<1>1. IInv => TypeOK
  BY DEF IInv
<1> QED
  BY <1>1, IInvInvariant, PTL

\* No assert of transaction_begin and transaction_commit ever fails, and
\* SQLite refuses no BEGIN and no END.
THEOREM TransactionsNest == Spec => []NoFatal
<1>1. IInv => NoFatal
  BY DEF IInv, TransactionDiscipline, Consistent, NoFatal
<1> QED
  BY <1>1, IInvInvariant, PTL

\* Whatever part of the rows restore could read, no statement of a call brings
\* memory and database further apart: memory is the database less those rows.
THEOREM MemoryIsTheDatabase == Spec => []MemoryMatchesDatabase
<1>1. IInv => MemoryMatchesDatabase
  BY DEF IInv
<1> QED
  BY <1>1, IInvInvariant, PTL

\* dispatch_task never returns a task that it, or a process before this one,
\* returned already, save those whose dispatch a crash undid.
THEOREM NoTaskTwice == Spec => []HandedOnce
<1>1. IInv => HandedOnce
  <2> SUFFICES ASSUME IInv, NEW t \in tasks_queue_, t \in handed
               PROVE  FALSE
    BY DEF HandedOnce
  <2>1. phase = "up"
    BY DEF IInv, TypeOK, DownIsEmpty
  <2>2. tasks_[t].status = "WAITING" /\ tasks_[t].status = "ACTIVE"
    BY <2>1, MemoryIsPart DEF IInv, TypeOK, QueuedAreWaiting, HandedAreActive
  <2> QED
    BY <2>2
<1> QED
  BY <1>1, IInvInvariant, PTL

\* What dispatch_task returned survives any crash once no transaction is
\* open, and without bulked transactions at once.
THEOREM HandedSurvive == Spec => []HandedIsDurable
<1>1. IInv => HandedIsDurable
  <2> SUFFICES ASSUME IInv,
                      ~UseBulkedTransactions \/ ~storage_.has_open_transaction,
                      NEW t \in handed
               PROVE  /\ t \in DOMAIN storage_.disk.tasks
                      /\ storage_.disk.tasks[t].status = "ACTIVE"
    BY DEF HandedIsDurable
  <2>1. CASE call.op = "insert"
    BY <2>1 DEF IInv, HandedAreActive
  <2>2. CASE call.op # "insert"
    <3>1. storage_.disk = storage_.db
      BY <2>2 DEF IInv, TransactionDiscipline, Consistent
    <3> QED
      BY <3>1 DEF IInv, HandedAreActive
  <2> QED
    BY <2>1, <2>2
<1> QED
  BY <1>1, IInvInvariant, PTL

=============================================================================
