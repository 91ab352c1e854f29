------------------------- MODULE FarmRecoveryProofs -------------------------
(***************************************************************************)
(* What a restart finds: the jobs and statuses in the file after any crash *)
(* or shutdown, and the queue that is rebuilt from them.  From this, that  *)
(* Farm with bulked transactions implements TaskLedger: calls that take    *)
(* several statements look like one, to callers and to those who read the  *)
(* file after a crash.                                                     *)
(***************************************************************************)
EXTENDS FarmProofs, FarmRefinement, SequenceTheorems

\* How many tasks the call under way is still to insert.
Left == IF call.op = "insert" THEN call.left ELSE 0

\* The tasks of each job are a block of ids; "left" of the last are missing.
Blocks(rows, left) ==
    /\ Len(rows.tasks) + left = NumTasks * Len(rows.jobs)
    /\ \A t \in DOMAIN rows.tasks :
         LET j == rows.tasks[t].job
         IN  /\ j \in DOMAIN rows.jobs
             /\ (j - 1) * NumTasks < t /\ t <= j * NumTasks

BlocksInv ==
    /\ Blocks(storage_.disk, 0)
    /\ Blocks(storage_.db, Left)
    /\ call.op = "insert" => call.job = Len(storage_.db.jobs)

-----------------------------------------------------------------------------
(* Whole jobs. *)

\* A step that leaves a transaction open does not write to the file, but for
\* the start of insert_job, which first commits what was pending.
LEMMA DiskInTransaction ==
    ASSUME IInv, [Next]_vars, storage_'.in_transaction
    PROVE  \/ storage_'.disk = storage_.disk
           \/ call.op = "none" /\ storage_'.disk = storage_.db
<1> USE DEF IInv
<1>1. storage_ \in Connection /\ Consistent(storage_) /\ storage_.disk \in Database
  BY DEF TypeOK, TransactionDiscipline, Connection
<1>2. CASE Start
  BY <1>1, <1>2, SqlOpenConsistent DEF Start, Connect
<1>3. ASSUME NEW priority \in JobPriorities, NEW status \in InsertStatuses,
             NEW now \in Times, InsertJob(priority, status, now)
      PROVE  call.op = "none" /\ storage_'.disk = storage_.db
  <2>1. /\ now \in Int /\ status \in JobStatus /\ call.op = "none"
        /\ storage_' = InsertJobRow(storage_, now, priority, status)
        /\ UseBulkedTransactions \/ ~storage_.in_transaction
    BY <1>3, FarmAssumption, CallKinds DEF InsertJob, TransactionDiscipline
  <2> QED
    BY <1>1, <2>1, InsertJobRowConsistent
<1>4. CASE InsertTask
  <2>1. /\ storage_.in_transaction /\ call.job \in Nat \ {0}
        /\ storage_' = InsertTaskRow(storage_, call.job, "WAITING")
    BY <1>4, CallKinds DEF InsertTask, InsertCall, TransactionDiscipline
  <2>2. "WAITING" \in TaskStatus
    BY DEF TaskStatus
  <2> QED
    BY <1>1, <2>1, <2>2, InsertTaskRowConsistent
<1>5. CASE InsertReturn
  BY <1>1, <1>5, TransactionCommitConsistent
     DEF InsertReturn, InsertJobCommit, TransactionDiscipline
<1>6. ASSUME NEW t \in tasks_queue_, NEW now \in Times, DispatchTask(t, now)
      PROVE  storage_'.disk = storage_.disk
  <2>1. storage_'.disk = IF storage_'.in_transaction THEN storage_.disk ELSE storage_'.db
    BY <1>6, DispatchTaskWrites
  <2> QED
    BY <2>1
<1>7. CASE DispatchReturn
  <2>1. /\ storage_'.in_transaction = storage_.in_transaction
        /\ storage_'.disk = IF storage_.in_transaction THEN storage_.disk ELSE storage_'.db
    BY <1>7, DispatchReturnWrites
  <2> QED
    BY <2>1
<1>8. ASSUME NEW now \in Times, IdleHandler(now)
      PROVE  storage_'.disk = storage_.disk
  <2>1. now \in Int /\ storage_' = TransactionCommitPending(storage_, now, FALSE)
    BY <1>8, FarmAssumption DEF IdleHandler, FlushCaches
  <2> QED
    BY <1>1, <2>1, TransactionCommitPendingConsistent
<1>9. ASSUME NEW now \in Times, Shutdown(now)
      PROVE  FALSE
  <2>1. /\ now \in Int /\ call.op = "none" /\ storage_' = Disconnect(storage_, now)
        /\ UseBulkedTransactions \/ ~storage_.in_transaction
    BY <1>9, FarmAssumption, CallKinds DEF Shutdown, TransactionDiscipline
  <2> QED
    BY <1>1, <2>1, DisconnectConsistent
<1>10. CASE Crash
  BY <1>1, <1>10, SqlOpenConsistent DEF Crash
<1>11. CASE UNCHANGED vars
  BY <1>11 DEF vars
<1> QED
  BY <1>2, <1>3, <1>4, <1>5, <1>6, <1>7, <1>8, <1>9, <1>10, <1>11
     DEF Next, TimedNext, UntimedNext

LEMMA InitBlocks ==
    Init => BlocksInv
<1> SUFFICES ASSUME Init
             PROVE  BlocksInv
  OBVIOUS
<1>1. call.op = "none" /\ storage_.disk = EmptyDatabase /\ storage_.db = EmptyDatabase
  BY DEF Init, NoCall, SqlOpen
<1>2. /\ DOMAIN EmptyDatabase.tasks = {}
      /\ Len(EmptyDatabase.tasks) = 0 /\ Len(EmptyDatabase.jobs) = 0
  BY DEF EmptyDatabase
<1> QED
  BY <1>1, <1>2, TypesAssumption DEF BlocksInv, Blocks, Left

\* What the connection reads stays made of blocks.
LEMMA BlocksInDatabase ==
    ASSUME IInv, IInv', BlocksInv, [Next]_vars
    PROVE  /\ Blocks(storage_.db, Left)'
           /\ call'.op = "insert" => call'.job = Len(storage_'.db.jobs)
<1> DEFINE Goal == /\ Blocks(storage_.db, Left)'
                   /\ call'.op = "insert" => call'.job = Len(storage_'.db.jobs)
<1>1. /\ storage_.db.jobs \in Seq(JobRow) /\ storage_.db.tasks \in Seq(TaskRow)
      /\ Len(storage_.db.jobs) \in Nat /\ Len(storage_.db.tasks) \in Nat
      /\ DOMAIN storage_.db.jobs = 1..Len(storage_.db.jobs)
      /\ NumTasks \in Nat
  BY TypesAssumption DEF IInv, TypeOK, Connection, Database
<1>2. /\ Len(storage_.db.tasks) + Left = NumTasks * Len(storage_.db.jobs)
      /\ \A t \in DOMAIN storage_.db.tasks :
           LET j == storage_.db.tasks[t].job
           IN  /\ j \in DOMAIN storage_.db.jobs
               /\ (j - 1) * NumTasks < t /\ t <= j * NumTasks
      /\ call.op = "insert" => call.job = Len(storage_.db.jobs)
  BY DEF BlocksInv, Blocks
<1>3. CASE Start
  <2>1. storage_'.db = storage_.disk /\ call'.op = "none" /\ call.op = "none"
    BY <1>3, StartReads
  <2> QED
    BY <2>1 DEF BlocksInv, Left
<1>4. ASSUME NEW priority \in JobPriorities, NEW status \in InsertStatuses,
             NEW now \in Times, InsertJob(priority, status, now)
      PROVE  Goal
  <2>1. /\ call.op = "none" /\ call'.op = "insert" /\ call'.left = NumTasks
        /\ call'.job = Len(storage_'.db.jobs)
        /\ call'.job = Len(storage_.db.jobs) + 1
        /\ DOMAIN storage_'.db.jobs = DOMAIN storage_.db.jobs \cup {call'.job}
        /\ storage_'.db.tasks = storage_.db.tasks
    BY <1>4, InsertJobWrites
  <2>2. Left = 0 /\ Left' = NumTasks
    BY <2>1 DEF Left
  <2>3. Len(storage_'.db.tasks) + Left' = NumTasks * Len(storage_'.db.jobs)
    <3>1. Len(storage_.db.tasks) = NumTasks * Len(storage_.db.jobs)
      BY <1>1, <1>2, <2>2
    <3>2. Len(storage_.db.tasks) + NumTasks = NumTasks * (Len(storage_.db.jobs) + 1)
      BY <1>1, <3>1
    <3> QED
      BY <2>1, <2>2, <3>2
  <2> QED
    BY <1>2, <2>1, <2>3 DEF Blocks
<1>5. CASE InsertTask
  <2>1. /\ call.op = "insert" /\ call.left \in 1..NumTasks
        /\ call'.op = "insert" /\ call'.job = call.job /\ call'.left = call.left - 1
        /\ storage_'.db.jobs = storage_.db.jobs
        /\ call.job \in DOMAIN storage_.db.jobs
    BY <1>5, InsertTaskWrites, MemoryIsPart DEF IInv
  <2>2. PICK n \in Nat \ {0} :
          /\ n = Len(storage_'.db.tasks) /\ n = Len(storage_.db.tasks) + 1
          /\ DOMAIN storage_'.db.tasks = DOMAIN storage_.db.tasks \cup {n}
          /\ storage_'.db.tasks[n] = [job |-> call.job, status |-> "WAITING"]
          /\ \A t \in DOMAIN storage_.db.tasks :
               storage_'.db.tasks[t] = storage_.db.tasks[t]
    BY <1>5, InsertTaskWrites, Zenon
  <2>3. Left = call.left /\ Left' = call.left - 1 /\ call.left \in Nat
    BY <1>1, <2>1 DEF Left
  <2> DEFINE jobs == Len(storage_.db.jobs)
             product == NumTasks * jobs
  <2>4. /\ Len(storage_.db.tasks) + call.left = product
        /\ call.job = jobs /\ jobs \in Nat /\ product \in Nat
        /\ (jobs - 1) * NumTasks = product - NumTasks /\ jobs * NumTasks = product
    <3>1. Len(storage_.db.tasks) + call.left = product
      BY <1>2, <2>3, Zenon
    <3>2. call.job = jobs /\ jobs \in Nat
      BY <1>1, <1>2, <2>1
    <3> HIDE DEF jobs
    <3>3. /\ product \in Nat
          /\ (jobs - 1) * NumTasks = product - NumTasks /\ jobs * NumTasks = product
      BY <1>1, <3>2
    <3> HIDE DEF product
    <3> QED
      BY <3>1, <3>2, <3>3, Zenon
  <2>5. Len(storage_'.db.tasks) + Left' = NumTasks * Len(storage_'.db.jobs)
    <3> HIDE DEF product, jobs
    <3>1. n + (call.left - 1) = product
      <4>1. \A a, b \in Nat : (a + 1) + (b - 1) = a + b
        OBVIOUS
      <4>2. n + (call.left - 1) = (Len(storage_.db.tasks) + 1) + (call.left - 1)
        BY <2>2, Zenon
      <4>3. n + (call.left - 1) = Len(storage_.db.tasks) + call.left
        BY <1>1, <2>3, <4>1, <4>2, Zenon
      <4> QED
        BY <2>4, <4>3, Zenon
    <3>2. Len(storage_'.db.tasks) + Left' = n + (call.left - 1)
      BY <2>2, <2>3, Zenon
    <3>3. NumTasks * Len(storage_'.db.jobs) = product
      BY <2>1, Zenon DEF product, jobs
    <3> QED
      BY <3>1, <3>2, <3>3, Zenon
  <2>6. (call.job - 1) * NumTasks < n /\ n <= call.job * NumTasks
    <3> HIDE DEF product, jobs
    <3>1. product - NumTasks < n /\ n <= product
      <4> DEFINE tasks == Len(storage_.db.tasks)
      <4>1. /\ n = tasks + 1 /\ tasks + call.left = product
            /\ tasks \in Nat /\ call.left \in 1..NumTasks /\ product \in Nat
        BY <1>1, <2>1, <2>2, <2>4, Zenon
      <4> HIDE DEF tasks
      <4> QED
        BY <1>1, <4>1
    <3> QED
      BY <2>4, <3>1
  <2>7. \A t \in DOMAIN storage_'.db.tasks :
          LET j == storage_'.db.tasks[t].job
          IN  /\ j \in DOMAIN storage_'.db.jobs
              /\ (j - 1) * NumTasks < t /\ t <= j * NumTasks
    BY <1>2, <2>1, <2>2, <2>6
  <2> QED
    BY <1>2, <2>1, <2>5, <2>7 DEF Blocks
<1>6. CASE InsertReturn
  <2>1. /\ call.op = "insert" /\ call.left = 0 /\ call'.op = "none"
        /\ storage_'.db = storage_.db
    BY <1>6, InsertReturnWrites
  <2>2. Left = 0 /\ Left' = 0
    BY <2>1 DEF Left
  <2> QED
    BY <2>1, <2>2 DEF BlocksInv, Blocks
<1>7. ASSUME NEW t \in tasks_queue_, NEW now \in Times, DispatchTask(t, now)
      PROVE  Goal
  <2>1. /\ call.op = "none" /\ call'.op = "dispatch"
        /\ storage_'.db.jobs = storage_.db.jobs
        /\ DOMAIN storage_'.db.tasks = DOMAIN storage_.db.tasks
        /\ Len(storage_'.db.tasks) = Len(storage_.db.tasks)
        /\ storage_'.db.tasks[t] = [job |-> tasks_[t].job, status |-> "ACTIVE"]
        /\ storage_.db.tasks[t].job = tasks_[t].job
        /\ \A u \in DOMAIN storage_.db.tasks :
             u # t => storage_'.db.tasks[u] = storage_.db.tasks[u]
    BY <1>7, DispatchTaskWrites
  <2>2. Left' = Left
    BY <2>1 DEF Left
  <2>3. \A u \in DOMAIN storage_.db.tasks :
          storage_'.db.tasks[u].job = storage_.db.tasks[u].job
    BY <2>1
  <2> QED
    BY <1>2, <2>1, <2>2, <2>3 DEF Blocks
<1>8. CASE DispatchReturn
  <2>1. /\ call.op = "dispatch" /\ call'.op = "none"
        /\ storage_'.db.tasks = storage_.db.tasks
        /\ Len(storage_'.db.jobs) = Len(storage_.db.jobs)
        /\ DOMAIN storage_'.db.jobs = DOMAIN storage_.db.jobs
    BY <1>8, DispatchReturnWrites
  <2>2. Left' = Left
    BY <2>1 DEF Left
  <2> QED
    BY <1>2, <2>1, <2>2 DEF Blocks
<1>9. ASSUME NEW now \in Times, IdleHandler(now)
      PROVE  Goal
  <2>1. storage_'.db = storage_.db /\ call' = call
    BY <1>9, IdleHandlerWrites
  <2> QED
    BY <2>1 DEF BlocksInv, Blocks, Left
<1>10. ASSUME NEW now \in Times, Shutdown(now)
      PROVE  Goal
  <2>1. storage_'.db = storage_.db /\ call.op = "none" /\ call'.op = "none"
    BY <1>10, ShutdownWrites
  <2> QED
    BY <2>1 DEF BlocksInv, Blocks, Left
<1>11. CASE Crash
  BY <1>11 DEF Crash, Exit, NoCall, SqlOpen, BlocksInv, Blocks, Left
<1>12. CASE UNCHANGED vars
  BY <1>12 DEF vars, BlocksInv, Blocks, Left
<1> QED
  BY <1>3, <1>4, <1>5, <1>6, <1>7, <1>8, <1>9, <1>10, <1>11, <1>12
     DEF Next, TimedNext, UntimedNext

LEMMA NextBlocks ==
    IInv /\ IInv' /\ BlocksInv /\ [Next]_vars => BlocksInv'
<1> SUFFICES ASSUME IInv, IInv', BlocksInv, [Next]_vars
             PROVE  BlocksInv'
  OBVIOUS
<1>1. /\ Blocks(storage_.db, Left)'
      /\ call'.op = "insert" => call'.job = Len(storage_'.db.jobs)
  BY BlocksInDatabase
<1>2. CASE storage_'.in_transaction
  BY <1>1, <1>2, DiskInTransaction DEF BlocksInv, Left
<1>3. CASE ~storage_'.in_transaction
  <2>1. storage_'.disk = storage_'.db /\ call'.op # "insert"
    BY <1>3 DEF IInv, TransactionDiscipline, Consistent
  <2> QED
    BY <1>1, <2>1 DEF BlocksInv, Left
<1> QED
  BY <1>2, <1>3

\* A crash at any moment, in either mode, leaves whole jobs in the file.
THEOREM JobsSurviveWhole == Spec => []WholeJobsOnDisk
<1>1. Spec => []BlocksInv
  BY IInvInvariant, InitBlocks, NextBlocks, PTL DEF Spec
<1>2. IInv /\ BlocksInv => WholeJobsOnDisk
  <2> SUFFICES ASSUME IInv, BlocksInv
               PROVE  WholeJobsOnDisk
    OBVIOUS
  <2>1. Len(storage_.disk.tasks) \in Nat
    BY DEF IInv, TypeOK, Connection, Database
  <2> QED
    BY <2>1 DEF BlocksInv, Blocks, WholeJobsOnDisk
<1> QED
  BY <1>1, <1>2, IInvInvariant, PTL

-----------------------------------------------------------------------------
(* The queue. *)

Waiting(t) == tasks_[t].status = "WAITING"

\* Either all waiting tasks of a job are queued or none is, and none is only
\* while the job is inserted or if it does not run.
QueueInv ==
    /\ \A t \in DOMAIN tasks_ :
         Waiting(t) /\ IsRunning(jobs_[tasks_[t].job]) =>
             \/ t \in tasks_queue_
             \/ call.op = "insert" /\ tasks_[t].job = call.job
    /\ \A t \in tasks_queue_, u \in DOMAIN tasks_ :
         Waiting(u) /\ tasks_[u].job = tasks_[t].job => u \in tasks_queue_
    /\ call.op = "insert" =>
         \A t \in tasks_queue_ : tasks_[t].job # call.job
    /\ call.op = "dispatch" =>
         \A t \in DOMAIN tasks_ :
             Waiting(t) /\ tasks_[t].job = call.job => t \in tasks_queue_

LEMMA EmptyQueueInv ==
    ASSUME tasks_ = <<>>, tasks_queue_ = {}
    PROVE  QueueInv
BY DEF QueueInv

LEMMA NextQueueInv ==
    IInv /\ IInv' /\ QueueInv /\ [Next]_vars => QueueInv'
<1> SUFFICES ASSUME IInv, IInv', QueueInv, [Next]_vars
             PROVE  QueueInv'
  OBVIOUS
<1>1. /\ tasks_queue_ \subseteq DOMAIN tasks_
      /\ \A t \in DOMAIN tasks_ : tasks_[t].job \in DOMAIN jobs_
  BY DEF IInv, TypeOK, TasksHaveJobsInMemory
<1>2. CASE Start
  <2>1. /\ call'.op = "none"
        /\ tasks_queue_' = RestoredQueue([jobs |-> jobs_', tasks |-> tasks_'])
    BY <1>2, StartReads
  <2> QED
    BY <2>1 DEF QueueInv, Waiting, RestoredQueue
<1>3. ASSUME NEW priority \in JobPriorities, NEW status \in InsertStatuses,
             NEW now \in Times, InsertJob(priority, status, now)
      PROVE  QueueInv'
  <2>1. /\ call.op = "none" /\ call'.op = "insert"
        /\ UNCHANGED <<tasks_, tasks_queue_>>
        /\ call'.job \notin DOMAIN jobs_
        /\ \A j \in DOMAIN jobs_ : jobs_'[j] = jobs_[j]
    BY <1>3, InsertJobWrites
  <2> QED
    BY <1>1, <2>1 DEF QueueInv, Waiting
<1>4. CASE InsertTask
  <2>1. /\ call.op = "insert" /\ call'.op = "insert" /\ call'.job = call.job
        /\ tasks_queue_' = tasks_queue_ /\ jobs_' = jobs_
    BY <1>4, InsertTaskWrites
  <2>2. PICK n \in Nat \ {0} :
          /\ DOMAIN tasks_' = DOMAIN tasks_ \cup {n}
          /\ tasks_'[n] = [job |-> call.job, status |-> "WAITING"]
          /\ \A t \in DOMAIN tasks_ : tasks_'[t] = tasks_[t]
    BY <1>4, InsertTaskWrites, Zenon
  <2> QED
    BY <1>1, <2>1, <2>2 DEF QueueInv, Waiting
<1>5. CASE InsertReturn
  <2>1. /\ call.op = "insert" /\ call'.op = "none" /\ jobs_' = jobs_ /\ tasks_' = tasks_
        /\ tasks_queue_' = tasks_queue_ \cup {t \in DOMAIN tasks_ : tasks_[t].job = call.job}
    BY <1>5, InsertReturnWrites
  <2> QED
    BY <1>1, <2>1 DEF QueueInv, Waiting
<1>6. ASSUME NEW t \in tasks_queue_, NEW now \in Times, DispatchTask(t, now)
      PROVE  QueueInv'
  <2>1. /\ call.op = "none" /\ call'.op = "dispatch" /\ call'.job = tasks_[t].job
        /\ tasks_queue_' = tasks_queue_ \ {t} /\ jobs_' = jobs_
        /\ DOMAIN tasks_' = DOMAIN tasks_
        /\ tasks_'[t] = [job |-> tasks_[t].job, status |-> "ACTIVE"]
        /\ \A u \in DOMAIN tasks_ : u # t => tasks_'[u] = tasks_[u]
    BY <1>6, DispatchTaskWrites
  <2>2. tasks_'[t].status # "WAITING"
    BY <2>1
  <2> QED
    BY <1>1, <2>1, <2>2 DEF QueueInv, Waiting
<1>7. CASE DispatchReturn
  <2>1. /\ call.op = "dispatch" /\ call'.op = "none"
        /\ tasks_' = tasks_ /\ tasks_queue_' = tasks_queue_
        /\ \A j \in DOMAIN jobs_ : j # call.job => jobs_'[j] = jobs_[j]
    BY <1>7, DispatchReturnWrites
  <2> QED
    BY <1>1, <2>1 DEF QueueInv, Waiting
<1>8. ASSUME NEW now \in Times, IdleHandler(now)
      PROVE  QueueInv'
  BY <1>8 DEF IdleHandler, QueueInv, Waiting
<1>9. CASE Exit
  BY <1>9 DEF Exit, QueueInv
<1>10. CASE UNCHANGED vars
  BY <1>10 DEF vars, QueueInv, Waiting
<1> QED
  BY <1>2, <1>3, <1>4, <1>5, <1>6, <1>7, <1>8, <1>9, <1>10
     DEF Next, TimedNext, UntimedNext, Shutdown, Crash

\* For jobs that run, stopping and starting the server is the same as letting
\* it run: it forgets no task of theirs and does not bring one back, but those
\* that the running server failed to read when it was started.
THEOREM RestartIsHarmless == Spec => []RestartKeepsQueue
<1>1. Init => QueueInv
  BY EmptyQueueInv DEF Init
<1>2. Spec => []QueueInv
  BY <1>1, IInvInvariant, NextQueueInv, PTL DEF Spec
<1>3. IInv /\ QueueInv => RestartKeepsQueue
  <2> SUFFICES ASSUME IInv, QueueInv, phase = "up", call.op # "insert"
               PROVE  RestoredQueue(storage_.db) \ unread.tasks =
                        {t \in tasks_queue_ : IsRunning(jobs_[tasks_[t].job])}
    BY DEF RestartKeepsQueue
  <2>1. /\ DOMAIN tasks_ = DOMAIN storage_.db.tasks \ unread.tasks
        /\ \A j \in DOMAIN jobs_ : jobs_[j] = storage_.db.jobs[j]
        /\ \A t \in DOMAIN tasks_ : tasks_[t] = storage_.db.tasks[t]
    BY MemoryIsPart DEF IInv
  <2>2. /\ tasks_queue_ \subseteq DOMAIN tasks_
        /\ \A t \in tasks_queue_ : tasks_[t].status = "WAITING"
        /\ \A t \in DOMAIN tasks_ : tasks_[t].job \in DOMAIN jobs_
    BY DEF IInv, TypeOK, QueuedAreWaiting, TasksHaveJobsInMemory
  <2>3. ASSUME NEW t
        PROVE  t \in RestoredQueue(storage_.db) \ unread.tasks
                 <=> t \in tasks_queue_ /\ IsRunning(jobs_[tasks_[t].job])
    BY <2>1, <2>2 DEF QueueInv, Waiting, RestoredQueue
  <2> QED
    BY <2>3
<1> QED
  BY <1>2, <1>3, IInvInvariant, PTL

-----------------------------------------------------------------------------
(* With bulked transactions: no half of a dispatch. *)

\* A task that is active in "rows" was handed out, and its job is active.
Settled(rows, t) ==
    rows.tasks[t].status = "ACTIVE" =>
        /\ t \in handed
        /\ rows.jobs[rows.tasks[t].job].status = "ACTIVE"

\* The file holds no half of a dispatch; the connection may show one, which
\* then is part of the open transaction.
SettledInv ==
    /\ \A t \in DOMAIN storage_.disk.tasks : Settled(storage_.disk, t)
    /\ \A t \in DOMAIN storage_.db.tasks :
         Settled(storage_.db, t) \/ (call.op = "dispatch" /\ t = call.task)
    /\ call.op = "dispatch" => /\ storage_.in_transaction
                               /\ call.task \in DOMAIN storage_.db.tasks
                               /\ call.job = storage_.db.tasks[call.task].job

BulkedInv == UseBulkedTransactions => SettledInv

\* A step that touches neither tables nor calls, in memory or in storage.
LEMMA SettledStays ==
    ASSUME SettledInv, storage_'.db = storage_.db, handed \subseteq handed',
           call.op # "dispatch"
    PROVE  \A t \in DOMAIN storage_'.db.tasks : Settled(storage_.db, t)'
BY DEF SettledInv, Settled

LEMMA SettledInDatabase ==
    ASSUME IInv, IInv', SettledInv, [Next]_vars, UseBulkedTransactions
    PROVE  /\ \A t \in DOMAIN storage_'.db.tasks :
                Settled(storage_.db, t)' \/ (call'.op = "dispatch" /\ t = call'.task)
           /\ call'.op = "dispatch" => /\ storage_'.in_transaction
                                       /\ call'.task \in DOMAIN storage_'.db.tasks
                                       /\ call'.job = storage_'.db.tasks[call'.task].job
<1> DEFINE Goal == /\ \A t \in DOMAIN storage_'.db.tasks :
                        Settled(storage_.db, t)' \/ (call'.op = "dispatch" /\ t = call'.task)
                   /\ call'.op = "dispatch" =>
                        /\ storage_'.in_transaction
                        /\ call'.task \in DOMAIN storage_'.db.tasks
                        /\ call'.job = storage_'.db.tasks[call'.task].job
<1>1. \A t \in DOMAIN storage_.db.tasks : storage_.db.tasks[t].job \in DOMAIN storage_.db.jobs
  BY DEF IInv, TasksHaveJobs, HaveJobs
<1>2. CASE Start
  <2>1. /\ storage_'.db = storage_.disk /\ call'.op = "none" /\ handed' = handed
        /\ call.op = "none"
    BY <1>2, StartReads
  <2> QED
    BY <2>1 DEF SettledInv, Settled
<1>3. ASSUME NEW priority \in JobPriorities, NEW status \in InsertStatuses,
             NEW now \in Times, InsertJob(priority, status, now)
      PROVE  Goal
  <2>1. /\ call.op = "none" /\ call'.op = "insert" /\ handed' = handed
        /\ storage_'.db.tasks = storage_.db.tasks
        /\ \A j \in DOMAIN storage_.db.jobs : storage_'.db.jobs[j] = storage_.db.jobs[j]
    BY <1>3, InsertJobWrites
  <2> QED
    BY <1>1, <2>1 DEF SettledInv, Settled
<1>4. CASE InsertTask
  <2>1. /\ call.op = "insert" /\ call'.op = "insert" /\ handed' = handed
        /\ storage_'.db.jobs = storage_.db.jobs
    BY <1>4, InsertTaskWrites
  <2>2. PICK n \in Nat \ {0} :
          /\ DOMAIN storage_'.db.tasks = DOMAIN storage_.db.tasks \cup {n}
          /\ storage_'.db.tasks[n] = [job |-> call.job, status |-> "WAITING"]
          /\ \A t \in DOMAIN storage_.db.tasks :
               storage_'.db.tasks[t] = storage_.db.tasks[t]
    BY <1>4, InsertTaskWrites, Zenon
  <2>3. storage_'.db.tasks[n].status # "ACTIVE"
    BY <2>2
  <2> QED
    BY <2>1, <2>2, <2>3 DEF SettledInv, Settled
<1>5. CASE InsertReturn
  <2>1. /\ call.op = "insert" /\ call'.op = "none" /\ handed' = handed
        /\ storage_'.db = storage_.db
    BY <1>5, InsertReturnWrites
  <2> QED
    BY <2>1, SettledStays
<1>6. ASSUME NEW t \in tasks_queue_, NEW now \in Times, DispatchTask(t, now)
      PROVE  Goal
  <2>1. /\ call.op = "none" /\ call'.op = "dispatch" /\ handed' = handed
        /\ call'.job = tasks_[t].job /\ call'.task = t
        /\ storage_'.in_transaction = (UseBulkedTransactions \/ storage_.in_transaction)
        /\ storage_'.db.jobs = storage_.db.jobs
        /\ t \in DOMAIN storage_.db.tasks
        /\ DOMAIN storage_'.db.tasks = DOMAIN storage_.db.tasks
        /\ storage_'.db.tasks[t] = [job |-> tasks_[t].job, status |-> "ACTIVE"]
        /\ \A u \in DOMAIN storage_.db.tasks :
             u # t => storage_'.db.tasks[u] = storage_.db.tasks[u]
    BY <1>6, DispatchTaskWrites
  <2>2. storage_'.in_transaction
    BY <2>1
  <2>3. storage_'.db.tasks[t].job = tasks_[t].job
    BY <2>1
  <2> QED
    BY <2>1, <2>2, <2>3 DEF SettledInv, Settled
<1>7. CASE DispatchReturn
  <2>1. /\ call.op = "dispatch" /\ call'.op = "none"
        /\ handed' = handed \cup {call.task}
        /\ storage_'.db.tasks = storage_.db.tasks
        /\ storage_'.db.jobs[call.job].status = "ACTIVE"
        /\ \A j \in DOMAIN storage_.db.jobs :
             j # call.job => storage_'.db.jobs[j] = storage_.db.jobs[j]
    BY <1>7, DispatchReturnWrites
  <2>2. call.job = storage_.db.tasks[call.task].job
    BY <2>1 DEF SettledInv
  <2> QED
    BY <1>1, <2>1, <2>2 DEF SettledInv, Settled
<1>8. ASSUME NEW now \in Times, IdleHandler(now)
      PROVE  Goal
  <2>1. /\ call.op = "none" /\ call'.op = "none" /\ handed' = handed
        /\ storage_'.db = storage_.db
    BY <1>8, IdleHandlerWrites
  <2> QED
    BY <2>1, SettledStays
<1>9. ASSUME NEW now \in Times, Shutdown(now)
      PROVE  Goal
  <2>1. /\ call.op = "none" /\ call'.op = "none" /\ handed' = handed
        /\ storage_'.db = storage_.db
    BY <1>9, ShutdownWrites
  <2> QED
    BY <2>1, SettledStays
<1>10. CASE Crash
  <2>1. storage_'.db = storage_.disk /\ call'.op = "none"
    BY <1>10 DEF Crash, Exit, SqlOpen, NoCall
  <2> QED
    BY <1>10, <2>1 DEF Crash, SettledInv, Settled
<1>11. CASE UNCHANGED vars
  BY <1>11 DEF vars, SettledInv, Settled
<1> QED
  BY <1>2, <1>3, <1>4, <1>5, <1>6, <1>7, <1>8, <1>9, <1>10, <1>11
     DEF Next, TimedNext, UntimedNext

LEMMA NextSettled ==
    IInv /\ IInv' /\ BulkedInv /\ [Next]_vars => BulkedInv'
<1> SUFFICES ASSUME IInv, IInv', SettledInv, [Next]_vars, UseBulkedTransactions
             PROVE  SettledInv'
  BY DEF BulkedInv
<1>1. /\ \A t \in DOMAIN storage_'.db.tasks :
           Settled(storage_.db, t)' \/ (call'.op = "dispatch" /\ t = call'.task)
      /\ call'.op = "dispatch" => /\ storage_'.in_transaction
                                  /\ call'.task \in DOMAIN storage_'.db.tasks
                                  /\ call'.job = storage_'.db.tasks[call'.task].job
  BY SettledInDatabase
<1>2. \A t \in DOMAIN storage_'.disk.tasks : Settled(storage_.disk, t)'
  <2>1. CASE ~storage_'.in_transaction
    <3>1. storage_'.disk = storage_'.db
      BY <2>1 DEF IInv, TransactionDiscipline, Consistent
    <3> QED
      BY <1>1, <2>1, <3>1 DEF Settled
  <2>2. CASE storage_'.in_transaction
    <3>1. handed \subseteq handed'
      <4>1. Crash => ~storage_'.in_transaction
        BY DEF Crash, SqlOpen
      <4> QED
        BY <2>2, <4>1 DEF Next, TimedNext, UntimedNext, Start, InsertJob, InsertTask,
           InsertReturn, DispatchTask, DispatchReturn, IdleHandler, Shutdown, vars
    <3>2. \/ storage_'.disk = storage_.disk
          \/ call.op = "none" /\ storage_'.disk = storage_.db
      BY <2>2, DiskInTransaction
    <3> QED
      BY <3>1, <3>2 DEF SettledInv, Settled
  <2> QED
    BY <2>1, <2>2
<1> QED
  BY <1>1, <1>2 DEF SettledInv

LEMMA SettledInvariant == Spec => []BulkedInv
<1>1. Init => BulkedInv
  <2> SUFFICES ASSUME Init PROVE SettledInv
    BY DEF BulkedInv
  <2>1. call.op = "none" /\ storage_.disk = EmptyDatabase /\ storage_.db = EmptyDatabase
    BY DEF Init, NoCall, SqlOpen
  <2>2. DOMAIN EmptyDatabase.tasks = {}
    BY DEF EmptyDatabase
  <2> QED
    BY <2>1, <2>2 DEF SettledInv
<1> QED
  BY <1>1, IInvInvariant, NextSettled, PTL DEF Spec

\* With bulked transactions the two updates of dispatch_task reach the file
\* together, whenever the process dies.
THEOREM StatusesAgree == Spec => [](UseBulkedTransactions => StatusesAgreeOnDisk)
<1>1. BulkedInv => (UseBulkedTransactions => StatusesAgreeOnDisk)
  BY DEF BulkedInv, SettledInv, Settled, StatusesAgreeOnDisk
<1> QED
  BY <1>1, SettledInvariant, PTL

\* With bulked transactions no crash leaves a task active that nobody got.
THEOREM NobodyStranded == Spec => [](UseBulkedTransactions => NothingStranded)
<1>1. BulkedInv => (UseBulkedTransactions => NothingStranded)
  BY DEF BulkedInv, SettledInv, Settled, NothingStranded
<1> QED
  BY <1>1, SettledInvariant, PTL

-----------------------------------------------------------------------------
(* Jobs keep their ids and priorities. *)

Remembers(old, new) ==
    \A j \in DOMAIN old.jobs :
        /\ j \in DOMAIN new.jobs
        /\ new.jobs[j].priority = old.jobs[j].priority

\* Only insert_job makes the connection read jobs that the file has not.
JobsInv ==
    /\ Remembers(storage_.disk, storage_.db)
    /\ call.op # "insert" => Remembers(storage_.db, storage_.disk)

\* What the connection reads never forgets a job, unless the process ends.
LEMMA DatabaseRemembers ==
    ASSUME IInv, IInv', [Next]_vars
    PROVE  \/ storage_'.db = storage_.disk
           \/ /\ Remembers(storage_.db, storage_'.db)
              /\ call'.op # "insert" =>
                   /\ Remembers(storage_'.db, storage_.db)
                   /\ call.op = "insert" => ~storage_'.in_transaction
<1>1. CASE storage_'.db.jobs = storage_.db.jobs /\ (call.op = "insert" => call'.op = "insert")
  BY <1>1 DEF Remembers
<1>2. CASE Start
  BY <1>2, StartReads
<1>3. ASSUME NEW priority \in JobPriorities, NEW status \in InsertStatuses,
             NEW now \in Times, InsertJob(priority, status, now)
      PROVE  Remembers(storage_.db, storage_'.db) /\ call'.op = "insert"
  BY <1>3, InsertJobWrites DEF Remembers
<1>4. CASE InsertTask
  BY <1>1, <1>4, InsertTaskWrites
<1>5. CASE InsertReturn
  BY <1>5, InsertReturnWrites DEF Remembers
<1>6. ASSUME NEW t \in tasks_queue_, NEW now \in Times, DispatchTask(t, now)
      PROVE  storage_'.db.jobs = storage_.db.jobs /\ call.op # "insert"
  BY <1>6, DispatchTaskWrites
<1>7. CASE DispatchReturn
  <2>1. /\ call.op = "dispatch"
        /\ DOMAIN storage_'.db.jobs = DOMAIN storage_.db.jobs
        /\ \A j \in DOMAIN storage_.db.jobs :
             storage_'.db.jobs[j].priority = storage_.db.jobs[j].priority
    BY <1>7, DispatchReturnWrites
  <2> QED
    BY <2>1 DEF Remembers
<1>8. ASSUME NEW now \in Times, IdleHandler(now)
      PROVE  storage_'.db.jobs = storage_.db.jobs /\ call.op # "insert"
  BY <1>8, IdleHandlerWrites
<1>9. ASSUME NEW now \in Times, Shutdown(now)
      PROVE  storage_'.db.jobs = storage_.db.jobs /\ call.op # "insert"
  BY <1>9, ShutdownWrites
<1>10. CASE Crash
  BY <1>10 DEF Crash, SqlOpen
<1>11. CASE UNCHANGED vars
  BY <1>1, <1>11 DEF vars
<1> QED
  BY <1>1, <1>2, <1>3, <1>4, <1>5, <1>6, <1>7, <1>8, <1>9, <1>10, <1>11
     DEF Next, TimedNext, UntimedNext

LEMMA RemembersTransitive ==
    ASSUME NEW a, NEW b, NEW c, Remembers(a, b), Remembers(b, c)
    PROVE  Remembers(a, c)
BY DEF Remembers

LEMMA RemembersItself ==
    ASSUME NEW a
    PROVE  Remembers(a, a)
BY DEF Remembers

\* No step makes the file forget a job or change its priority.
LEMMA FileRemembers ==
    ASSUME IInv, IInv', JobsInv, [Next]_vars
    PROVE  JobsInv' /\ Remembers(storage_.disk, storage_'.disk)
<1>1. /\ Remembers(storage_.disk, storage_.db)
      /\ call.op # "insert" => Remembers(storage_.db, storage_.disk)
  BY DEF JobsInv
<1>2. Remembers(storage_.disk, storage_'.db)
  BY <1>1, DatabaseRemembers, RemembersTransitive, RemembersItself
<1>3. CASE ~storage_'.in_transaction
  <2>1. storage_'.disk = storage_'.db
    BY <1>3 DEF IInv, TransactionDiscipline, Consistent
  <2> QED
    BY <1>2, <2>1, RemembersItself DEF JobsInv
<1>4. CASE storage_'.in_transaction /\ storage_'.disk = storage_.disk
  <2>1. call'.op # "insert" => Remembers(storage_'.db, storage_.disk)
    BY <1>1, <1>4, DatabaseRemembers, RemembersTransitive, RemembersItself
  <2> QED
    BY <1>2, <1>4, <2>1, RemembersItself DEF JobsInv
<1>5. CASE storage_'.in_transaction /\ call.op = "none" /\ storage_'.disk = storage_.db
  <2>1. Remembers(storage_.db, storage_.disk)
    BY <1>1, <1>5
  <2>2. Remembers(storage_.db, storage_'.db)
    BY <1>2, <2>1, RemembersTransitive
  <2>3. call'.op # "insert" => Remembers(storage_'.db, storage_.db)
    BY <1>1, DatabaseRemembers
  <2> QED
    BY <1>1, <1>5, <2>2, <2>3 DEF JobsInv
<1> QED
  BY <1>3, <1>4, <1>5, DiskInTransaction

LEMMA InitJobs ==
    Init => JobsInv
BY RemembersItself DEF Init, JobsInv, SqlOpen

LEMMA JobsInvInvariant == Spec => []JobsInv
<1>1. IInv /\ IInv' /\ JobsInv /\ [Next]_vars => JobsInv'
  BY FileRemembers
<1> QED
  BY <1>1, InitJobs, IInvInvariant, PTL DEF Spec

-----------------------------------------------------------------------------
(* Tables. *)

\* n new tasks of a job.
NewTasks(job, n) == [i \in 1..n |-> [job |-> job, status |-> "WAITING"]]

LEMMA NoNewTasks ==
    ASSUME NEW rows \in Seq(TaskRow), NEW job
    PROVE  rows \o NewTasks(job, 0) = rows
BY DEF NewTasks

LEMMA OneMoreTask ==
    ASSUME NEW rows \in Seq(TaskRow), NEW job \in Nat \ {0}, NEW n \in Nat
    PROVE  Append(rows \o NewTasks(job, n), [job |-> job, status |-> "WAITING"])
             = rows \o NewTasks(job, n + 1)
<1> DEFINE task == [job |-> job, status |-> "WAITING"]
           old == NewTasks(job, n)
           new == NewTasks(job, n + 1)
<1>1. task \in TaskRow
  BY DEF TaskRow, TaskStatus
<1>2. /\ old \in Seq(TaskRow) /\ Len(old) = n /\ \A i \in 1..n : old[i] = task
      /\ new \in Seq(TaskRow) /\ Len(new) = n + 1 /\ \A i \in 1..(n + 1) : new[i] = task
  BY <1>1 DEF NewTasks
<1> HIDE DEF task, old, new
<1>3. Append(rows \o old, task) = rows \o new
  <2> DEFINE c == rows \o old
             a == Append(c, task)
             b == rows \o new
             n1 == Len(rows) + n
  <2>1. /\ c \in Seq(TaskRow) /\ Len(c) = n1
        /\ \A i \in 1..n1 : c[i] = IF i <= Len(rows) THEN rows[i] ELSE old[i - Len(rows)]
    BY <1>2, ConcatProperties
  <2>2. n1 \in Nat /\ n1 + 1 = Len(rows) + (n + 1) /\ Len(rows) \in Nat
    OBVIOUS
  <2>3. /\ b \in Seq(TaskRow) /\ Len(b) = Len(rows) + Len(new)
        /\ \A i \in 1..(Len(rows) + Len(new)) :
             b[i] = IF i <= Len(rows) THEN rows[i] ELSE new[i - Len(rows)]
    <3>1. new \in Seq(TaskRow)
      BY <1>2
    <3> QED
      BY <3>1, ConcatProperties
  <2> HIDE DEF c, b
  <2>4. /\ a \in Seq(TaskRow) /\ Len(a) = n1 + 1
        /\ \A i \in 1..n1 : a[i] = c[i]
        /\ a[n1 + 1] = task
    BY <1>1, <2>1, AppendProperties
  <2> HIDE DEF a
  <2>5. \A i \in 1..(n1 + 1) : a[i] = b[i]
    <3>1. Len(rows) + Len(new) = n1 + 1
      BY <1>2, <2>2
    <3>2. ASSUME NEW i \in 1..n1, i <= Len(rows) PROVE a[i] = b[i]
      <4>1. i \in 1..(n1 + 1)
        BY <2>2
      <4>2. a[i] = rows[i]
        BY <2>1, <2>4, <3>2
      <4>3. b[i] = rows[i]
        BY <2>3, <3>1, <3>2, <4>1
      <4> QED
        BY <4>2, <4>3
    <3>3. ASSUME NEW i \in 1..n1, ~(i <= Len(rows)) PROVE a[i] = b[i]
      <4>1. i \in 1..(n1 + 1) /\ i - Len(rows) \in 1..n /\ i - Len(rows) \in 1..(n + 1)
        BY <2>2, <3>3
      <4>2. a[i] = old[i - Len(rows)]
        BY <2>1, <2>4, <3>3
      <4>3. b[i] = new[i - Len(rows)]
        BY <2>3, <3>1, <3>3, <4>1
      <4> QED
        BY <1>2, <4>1, <4>2, <4>3
    <3>4. a[n1 + 1] = b[n1 + 1]
      <4>1. /\ n1 + 1 \in 1..(n1 + 1) /\ ~(n1 + 1 <= Len(rows))
            /\ (n1 + 1) - Len(rows) = n + 1 /\ n + 1 \in 1..(n + 1)
        BY <2>2
      <4>2. b[n1 + 1] = new[(n1 + 1) - Len(rows)]
        BY <2>3, <3>1, <4>1
      <4> QED
        BY <1>2, <2>4, <4>1, <4>2
    <3> QED
      <4>1. \A i \in 1..(n1 + 1) : i \in 1..n1 \/ i = n1 + 1
        BY <2>2
      <4> QED
        BY <3>2, <3>3, <3>4, <4>1
  <2>6. Len(a) = Len(b) /\ Len(a) = n1 + 1
    BY <1>2, <2>2, <2>3, <2>4
  <2>7. a = b
    BY <2>3, <2>4, <2>5, <2>6, SeqEqual
  <2> QED
    BY <2>7 DEF a, b, c
<1> QED
  BY <1>3 DEF task, old, new

\* Making a job active, and making an active one active.
LEMMA ActiveJob ==
    ASSUME NEW rows \in Database, NEW j \in DOMAIN rows.jobs
    PROVE  LET active == [rows EXCEPT !.jobs[j].status = "ACTIVE"]
               job == [priority |-> rows.jobs[j].priority, status |-> "ACTIVE"]
           IN  /\ active = [jobs |-> [rows.jobs EXCEPT ![j] = job], tasks |-> rows.tasks]
               /\ rows.jobs[j].status = "ACTIVE" => active = rows
<1> DEFINE job == [priority |-> rows.jobs[j].priority, status |-> "ACTIVE"]
           row == rows.jobs[j]
<1>1. /\ rows.jobs \in Seq(JobRow) /\ row \in JobRow
      /\ rows = [jobs |-> rows.jobs, tasks |-> rows.tasks]
  BY DEF Database
<1>2. [row EXCEPT !.status = "ACTIVE"] = job
  BY <1>1 DEF JobRow
<1>3. [rows EXCEPT !.jobs[j].status = "ACTIVE"]
        = [rows EXCEPT !.jobs = [rows.jobs EXCEPT ![j] = [row EXCEPT !.status = "ACTIVE"]]]
  OBVIOUS
<1>4. \A s : [rows EXCEPT !.jobs = s] = [jobs |-> s, tasks |-> rows.tasks]
  BY <1>1
<1>5. row.status = "ACTIVE" => job = row
  BY <1>1 DEF JobRow
<1>6. [rows.jobs EXCEPT ![j] = row] = rows.jobs
  BY <1>1
<1> HIDE DEF job, row
<1>7. [rows EXCEPT !.jobs[j].status = "ACTIVE"]
        = [jobs |-> [rows.jobs EXCEPT ![j] = job], tasks |-> rows.tasks]
  BY <1>2, <1>3, <1>4, Zenon
<1>8. row.status = "ACTIVE" =>
        [jobs |-> [rows.jobs EXCEPT ![j] = job], tasks |-> rows.tasks] = rows
  BY <1>1, <1>5, <1>6, Zenon
<1> QED
  BY <1>7, <1>8, Zenon DEF job, row

\* Making a task and its job active.
LEMMA ActiveTaskAndJob ==
    ASSUME NEW rows \in Database, NEW t \in DOMAIN rows.tasks,
           rows.tasks[t].job \in DOMAIN rows.jobs
    PROVE  LET j == rows.tasks[t].job
               job == [priority |-> rows.jobs[j].priority, status |-> "ACTIVE"]
           IN  Ledger!WithDispatch(rows, t)
                 = [jobs |-> [rows.jobs EXCEPT ![j] = job],
                    tasks |-> [rows.tasks EXCEPT ![t].status = "ACTIVE"]]
<1> DEFINE j == rows.tasks[t].job
           tasks == [rows.tasks EXCEPT ![t].status = "ACTIVE"]
           half == [jobs |-> rows.jobs, tasks |-> tasks]
<1>1. [rows EXCEPT !.tasks[t].status = "ACTIVE"] = half
  <2>1. rows = [jobs |-> rows.jobs, tasks |-> rows.tasks]
    BY DEF Database
  <2>2. [rows EXCEPT !.tasks[t].status = "ACTIVE"] = [rows EXCEPT !.tasks = tasks]
    OBVIOUS
  <2> HIDE DEF tasks
  <2>3. [rows EXCEPT !.tasks = tasks] = half
    BY <2>1
  <2> QED
    BY <2>2, <2>3, Zenon
<1>2. half \in Database
  <2>1. tasks \in Seq(TaskRow)
    BY TaskStatusInTasks DEF Database, TaskStatus
  <2> HIDE DEF tasks
  <2> QED
    BY <2>1 DEF Database
<1>3. half.jobs = rows.jobs /\ half.tasks = tasks
  OBVIOUS
<1>4. Ledger!WithDispatch(rows, t) = [half EXCEPT !.jobs[j].status = "ACTIVE"]
  BY <1>1, Zenon DEF Ledger!WithDispatch
<1> HIDE DEF tasks, half, j
<1>5. [half EXCEPT !.jobs[j].status = "ACTIVE"]
        = [jobs |-> [rows.jobs EXCEPT ![j] = [priority |-> rows.jobs[j].priority,
                                              status |-> "ACTIVE"]],
           tasks |-> tasks]
  <2>1. j \in DOMAIN half.jobs
    BY <1>3 DEF j
  <2> QED
    BY <1>2, <1>3, <2>1, ActiveJob, Zenon
<1> QED
  BY <1>4, <1>5, Zenon DEF j, tasks

-----------------------------------------------------------------------------
(* What the connection has, and the file has not, while a job is inserted. *)

Inserting ==
    call.op = "insert" =>
        /\ call.job = Len(storage_.disk.jobs) + 1
        /\ \E job \in JobRow : storage_.db.jobs = Append(storage_.disk.jobs, job)
        /\ storage_.db.tasks
             = storage_.disk.tasks \o NewTasks(call.job, NumTasks - call.left)

LEMMA NextInserting ==
    ASSUME IInv, IInv', Inserting, [Next]_vars
    PROVE  Inserting'
<1>1. /\ storage_ \in Connection /\ Consistent(storage_)
      /\ storage_.disk \in Database /\ storage_.db \in Database
      /\ NoCall.op = "none" /\ NumTasks \in Nat
  BY TypesAssumption DEF IInv, TypeOK, TransactionDiscipline, Connection, NoCall
<1>2. CASE UNCHANGED vars
  BY <1>2 DEF vars, Inserting
<1>3. CASE Start
  BY <1>1, <1>3 DEF Start, IInv, DownIsEmpty, Inserting
<1>4. ASSUME NEW priority \in JobPriorities, NEW status \in InsertStatuses,
             NEW now \in Times, InsertJob(priority, status, now)
      PROVE  Inserting'
  <2> DEFINE job == [priority |-> priority, status |-> status]
  <2>1. /\ now \in Int /\ status \in JobStatus /\ call.op = "none"
        /\ storage_' = InsertJobRow(storage_, now, priority, status)
        /\ UseBulkedTransactions \/ ~storage_.in_transaction
        /\ call' = [op |-> "insert", job |-> Len(storage_'.db.jobs), left |-> NumTasks]
    BY <1>1, <1>4, FarmAssumption DEF InsertJob, IInv, TransactionDiscipline
  <2>2. job \in JobRow
    BY <2>1 DEF JobRow
  <2>3. /\ storage_'.disk = storage_.db
        /\ storage_'.db.jobs = Append(storage_.db.jobs, job)
        /\ storage_'.db.tasks = storage_.db.tasks
    <3>1. /\ storage_ \in Connection /\ Consistent(storage_)
          /\ UseBulkedTransactions \/ ~storage_.in_transaction
          /\ now \in Int /\ status \in JobStatus
      BY <1>1, <2>1, Zenon
    <3>2. LET d == InsertJobRow(storage_, now, priority, status)
          IN  /\ d \in Connection /\ Consistent(d)
              /\ d.in_transaction
              /\ d.disk = storage_.db
              /\ d.db.jobs = Append(storage_.db.jobs, [priority |-> priority, status |-> status])
              /\ d.db.tasks = storage_.db.tasks
      BY <3>1, InsertJobRowConsistent, Zenon
    <3> QED
      BY <2>1, <3>2, Zenon
  <2>4. storage_.db.jobs \in Seq(JobRow) /\ storage_.db.tasks \in Seq(TaskRow)
    BY <1>1 DEF Database
  <2> HIDE DEF job
  <2>5. /\ call'.job = Len(storage_'.disk.jobs) + 1
        /\ NumTasks - call'.left = 0
    BY <1>1, <2>1, <2>2, <2>3, <2>4
  <2>6. storage_'.db.tasks
          = storage_'.disk.tasks \o NewTasks(call'.job, NumTasks - call'.left)
    BY <2>3, <2>4, <2>5, NoNewTasks
  <2> QED
    BY <2>2, <2>3, <2>5, <2>6 DEF Inserting
<1>5. CASE InsertTask
  <2> DEFINE task == [job |-> call.job, status |-> "WAITING"]
             n == NumTasks - call.left
  <2>1. /\ call.op = "insert" /\ call.left > 0 /\ call.job \in Nat \ {0}
        /\ call.left \in 0..NumTasks /\ storage_.in_transaction
        /\ storage_' = InsertTaskRow(storage_, call.job, "WAITING")
        /\ call'.op = "insert" /\ call'.job = call.job /\ call'.left = call.left - 1
    BY <1>5, CallKinds DEF InsertTask, InsertCall, IInv, TransactionDiscipline
  <2>2. "WAITING" \in TaskStatus
    BY DEF TaskStatus
  <2>3. /\ storage_'.disk = storage_.disk
        /\ storage_'.db.jobs = storage_.db.jobs
        /\ storage_'.db.tasks = Append(storage_.db.tasks, task)
    BY <1>1, <2>1, <2>2, InsertTaskRowConsistent
  <2>4. n \in Nat /\ NumTasks - call'.left = n + 1
    BY <1>1, <2>1
  <2>5. storage_.disk.tasks \in Seq(TaskRow)
    BY <1>1 DEF Database
  <2> HIDE DEF n
  <2>6. Append(storage_.disk.tasks \o NewTasks(call.job, n), task)
          = storage_.disk.tasks \o NewTasks(call.job, n + 1)
    BY <2>1, <2>4, <2>5, OneMoreTask
  <2>7. storage_.db.tasks = storage_.disk.tasks \o NewTasks(call.job, n)
    BY <2>1 DEF Inserting, n
  <2> HIDE DEF task
  <2>8. storage_'.db.tasks
          = storage_'.disk.tasks \o NewTasks(call'.job, NumTasks - call'.left)
    BY <2>1, <2>3, <2>4, <2>6, <2>7, Zenon
  <2> QED
    BY <2>1, <2>3, <2>8 DEF Inserting
<1>6. InsertReturn \/ DispatchReturn \/ Crash => call'.op # "insert"
  BY <1>1 DEF InsertReturn, DispatchReturn, Crash, Exit
<1>7. ASSUME NEW now \in Times
      PROVE  /\ \A t \in tasks_queue_ : DispatchTask(t, now) => call'.op # "insert"
             /\ IdleHandler(now) \/ Shutdown(now) => call'.op # "insert"
  <2>1. \A t \in tasks_queue_ : DispatchTask(t, now) => call'.op # "insert"
    BY DEF DispatchTask
  <2>2. IdleHandler(now) \/ Shutdown(now) => call' = NoCall
    BY DEF IdleHandler, Shutdown, Exit
  <2> QED
    BY <1>1, <2>1, <2>2
<1> QED
  BY <1>2, <1>3, <1>4, <1>5, <1>6, <1>7 DEF Next, TimedNext, UntimedNext, Inserting

-----------------------------------------------------------------------------
(* Each step of the farm is one of the ledger or none. *)

LEMMA Visible ==
    /\ call.op = "insert" => VisibleRows = storage_.disk
    /\ call.op = "dispatch" =>
         VisibleRows = [storage_.db EXCEPT !.jobs[call.job].status = "ACTIVE"]
    /\ call.op = "none" => VisibleRows = storage_.db
BY DEF VisibleRows

LEMMA VisibleNext ==
    /\ call'.op = "insert" => VisibleRows' = storage_'.disk
    /\ call'.op = "dispatch" =>
         VisibleRows' = [storage_'.db EXCEPT !.jobs[call'.job].status = "ACTIVE"]
    /\ call'.op = "none" => VisibleRows' = storage_'.db
BY DEF VisibleRows

LEMMA LedgerStutters ==
    ASSUME VisibleRows' = VisibleRows, storage_'.disk = storage_.disk
    PROVE  [Ledger!Next]_(Ledger!vars)
BY DEF Ledger!vars

LEMMA LedgerSyncs ==
    ASSUME VisibleRows' = VisibleRows, storage_'.disk = VisibleRows
    PROVE  [Ledger!Next]_(Ledger!vars)
BY DEF Ledger!Next, Ledger!Sync

LEMMA LedgerCrashes ==
    ASSUME VisibleRows' = storage_.disk, storage_'.disk = storage_.disk
    PROVE  [Ledger!Next]_(Ledger!vars)
BY DEF Ledger!Next, Ledger!Crash

LEMMA LedgerInserts ==
    ASSUME NEW job \in JobRow, VisibleRows' = Ledger!WithJob(VisibleRows, job),
           storage_'.disk = VisibleRows'
    PROVE  [Ledger!Next]_(Ledger!vars)
BY DEF Ledger!Next, Ledger!InsertJob, Ledger!JobRow, Ledger!JobStatus, JobRow, JobStatus

LEMMA LedgerDispatches ==
    ASSUME NEW t \in DOMAIN VisibleRows.tasks, VisibleRows.tasks[t].status = "WAITING",
           VisibleRows' = Ledger!WithDispatch(VisibleRows, t),
           storage_'.disk = storage_.disk
    PROVE  [Ledger!Next]_(Ledger!vars)
BY DEF Ledger!Next, Ledger!DispatchTask

\* insert_job takes effect when it commits.
LEMMA InsertReturnInserts ==
    ASSUME IInv, IInv', Inserting, InsertReturn
    PROVE  [Ledger!Next]_(Ledger!vars)
<1>1. /\ storage_ \in Connection /\ Consistent(storage_) /\ storage_.in_transaction
      /\ storage_.db \in Database /\ NumTasks \in Nat
  BY TypesAssumption DEF IInv, TypeOK, TransactionDiscipline, Connection, InsertReturn
<1>2. /\ call.op = "insert" /\ call.left = 0 /\ call' = NoCall
      /\ storage_' = TransactionCommit(storage_)
  BY DEF InsertReturn, InsertJobCommit
<1>3. storage_'.db = storage_.db /\ storage_'.disk = storage_.db
  BY <1>1, <1>2, TransactionCommitConsistent
<1>4. VisibleRows = storage_.disk /\ VisibleRows' = storage_.db
  BY <1>2, <1>3, Visible, VisibleNext DEF NoCall
<1>5. PICK job \in JobRow : storage_.db.jobs = Append(storage_.disk.jobs, job)
  BY <1>2 DEF Inserting
<1>6. storage_.db.tasks = storage_.disk.tasks \o
        [i \in 1..NumTasks |-> [job |-> Len(storage_.disk.jobs) + 1, status |-> "WAITING"]]
  <2>1. NumTasks - call.left = NumTasks
    BY <1>1, <1>2
  <2>2. /\ call.job = Len(storage_.disk.jobs) + 1
        /\ storage_.db.tasks = storage_.disk.tasks \o NewTasks(call.job, NumTasks)
    BY <1>2, <2>1 DEF Inserting
  <2> QED
    BY <2>2, Zenon DEF NewTasks
<1>7. storage_.db = [jobs |-> storage_.db.jobs, tasks |-> storage_.db.tasks]
  BY <1>1 DEF Database
<1>8. storage_.db = Ledger!WithJob(storage_.disk, job)
  BY <1>5, <1>6, <1>7, Zenon DEF Ledger!WithJob
<1> QED
  BY <1>3, <1>4, <1>8, LedgerInserts

\* dispatch_task takes effect with its first statement.
LEMMA DispatchTaskDispatches ==
    ASSUME IInv, UseBulkedTransactions, NEW t \in tasks_queue_, NEW now \in Times,
           DispatchTask(t, now)
    PROVE  [Ledger!Next]_(Ledger!vars)
<1> DEFINE j == tasks_[t].job
           active == [priority |-> storage_.db.jobs[j].priority, status |-> "ACTIVE"]
<1>1. /\ storage_ \in Connection /\ Consistent(storage_) /\ storage_.db \in Database
      /\ phase = "up" /\ now \in Int /\ "ACTIVE" \in TaskStatus
  BY FarmAssumption DEF IInv, TypeOK, TransactionDiscipline, Connection, DispatchTask,
     TaskStatus
<1>2. /\ t \in DOMAIN storage_.db.tasks /\ j \in DOMAIN storage_.db.jobs
      /\ storage_.db.tasks[t].status = "WAITING"
      /\ storage_.db.tasks[t].job = j
  <2>1. /\ t \in DOMAIN tasks_ /\ tasks_[t].status = "WAITING" /\ j \in DOMAIN jobs_
    BY DEF IInv, TypeOK, TasksHaveJobsInMemory, QueuedAreWaiting
  <2>2. /\ t \in DOMAIN storage_.db.tasks /\ tasks_[t] = storage_.db.tasks[t]
        /\ DOMAIN jobs_ \subseteq DOMAIN storage_.db.jobs
    BY <1>1, <2>1, MemoryIsPart DEF IInv
  <2> QED
    BY <2>1, <2>2
<1>3. /\ call.op = "none" /\ call'.op = "dispatch" /\ call'.job = j
      /\ storage_' = UpdateTask(storage_, now, t, "ACTIVE")
  BY DEF DispatchTask, NoCall
<1>4. /\ storage_'.db \in Database /\ storage_'.disk = storage_.disk
      /\ storage_'.db.jobs = storage_.db.jobs
      /\ storage_'.db.tasks = [storage_.db.tasks EXCEPT ![t].status = "ACTIVE"]
  <2> DEFINE d == UpdateTask(storage_, now, t, "ACTIVE")
  <2>1. /\ storage_ \in Connection /\ Consistent(storage_) /\ now \in Int
        /\ t \in DOMAIN storage_.db.tasks /\ "ACTIVE" \in TaskStatus
    BY <1>1, <1>2, Zenon
  <2>2. /\ d \in Connection
        /\ d.db.jobs = storage_.db.jobs
        /\ d.db.tasks = [storage_.db.tasks EXCEPT ![t].status = "ACTIVE"]
    BY <2>1, UpdateTaskConsistent
  <2>3. d.in_transaction = (UseBulkedTransactions \/ storage_.in_transaction)
    BY <2>1, UpdateTaskConsistent, Zenon
  <2>4. d.disk = IF d.in_transaction THEN storage_.disk ELSE d.db
    BY <2>1, UpdateTaskConsistent, Zenon
  <2> HIDE DEF d
  <2>5. d.disk = storage_.disk
    BY <2>3, <2>4
  <2>6. d.db \in Database
    BY <2>2 DEF Connection
  <2>7. storage_' = d
    BY <1>3 DEF d
  <2> QED
    BY <2>2, <2>5, <2>6, <2>7, Zenon
<1> HIDE DEF j
<1>5. VisibleRows = storage_.db
      /\ VisibleRows' = [storage_'.db EXCEPT !.jobs[j].status = "ACTIVE"]
  BY <1>3, Visible, VisibleNext
<1>6. VisibleRows' = [jobs  |-> [storage_.db.jobs EXCEPT ![j] = active],
                      tasks |-> [storage_.db.tasks EXCEPT ![t].status = "ACTIVE"]]
  <2> DEFINE rows == storage_'.db
  <2>1. rows \in Database /\ rows.jobs = storage_.db.jobs /\ j \in DOMAIN rows.jobs
    BY <1>2, <1>4, Zenon DEF j
  <2>2. /\ rows.tasks = [storage_.db.tasks EXCEPT ![t].status = "ACTIVE"]
        /\ VisibleRows' = [rows EXCEPT !.jobs[j].status = "ACTIVE"]
    BY <1>4, <1>5, Zenon
  <2> HIDE DEF rows, active
  <2>3. [rows EXCEPT !.jobs[j].status = "ACTIVE"]
          = [jobs |-> [rows.jobs EXCEPT ![j] = [priority |-> rows.jobs[j].priority,
                                                status |-> "ACTIVE"]],
             tasks |-> rows.tasks]
    BY <2>1, ActiveJob, Zenon
  <2> QED
    BY <2>1, <2>2, <2>3, Zenon DEF active
<1>7. Ledger!WithDispatch(storage_.db, t)
        = [jobs  |-> [storage_.db.jobs EXCEPT ![j] = active],
           tasks |-> [storage_.db.tasks EXCEPT ![t].status = "ACTIVE"]]
  BY <1>1, <1>2, ActiveTaskAndJob, Zenon
<1> QED
  BY <1>2, <1>4, <1>5, <1>6, <1>7, LedgerDispatches, Zenon

\* Its second statement was already counted as done.
LEMMA DispatchReturnStutters ==
    ASSUME IInv, IInv', SettledInv, DispatchReturn
    PROVE  [Ledger!Next]_(Ledger!vars)
<1> DEFINE j == call.job
           active == [priority |-> storage_.db.jobs[j].priority, status |-> "ACTIVE"]
           rows == storage_.db
           new == storage_'.db
<1>1. /\ rows \in Database /\ new \in Database /\ j \in DOMAIN rows.jobs
      /\ call.op = "dispatch" /\ call'.op = "none"
      /\ storage_.in_transaction
  BY DispatchReturnWrites DEF IInv, TypeOK, Connection, SettledInv
<1>2. /\ storage_'.disk = storage_.disk
      /\ new.tasks = rows.tasks
      /\ DOMAIN new.jobs = DOMAIN rows.jobs /\ Len(new.jobs) = Len(rows.jobs)
      /\ new.jobs[j].status = "ACTIVE"
      /\ new.jobs[j].priority = rows.jobs[j].priority
      /\ \A k \in DOMAIN rows.jobs : k # j => new.jobs[k] = rows.jobs[k]
  BY <1>1, DispatchReturnWrites
<1>3. /\ VisibleRows = [rows EXCEPT !.jobs[j].status = "ACTIVE"]
      /\ VisibleRows' = new
  BY <1>1, Visible, VisibleNext
<1> HIDE DEF j, rows, new
<1>4. VisibleRows = [jobs  |-> [rows.jobs EXCEPT ![j] = active], tasks |-> rows.tasks]
  BY <1>1, <1>3, ActiveJob, Zenon DEF rows
<1>5. new.jobs[j] = active
  <2>1. new.jobs[j] \in JobRow
    BY <1>1, <1>2 DEF Database
  <2> QED
    BY <1>2, <2>1 DEF JobRow, rows
<1> HIDE DEF active
<1>6. new.jobs = [rows.jobs EXCEPT ![j] = active]
  <2>1. rows.jobs \in Seq(JobRow) /\ new.jobs \in Seq(JobRow)
    BY <1>1 DEF Database
  <2> QED
    BY <1>1, <1>2, <1>5, <2>1
<1>7. new = [jobs |-> new.jobs, tasks |-> new.tasks]
  BY <1>1 DEF Database
<1>8. VisibleRows' = VisibleRows
  BY <1>2, <1>3, <1>4, <1>6, <1>7, Zenon
<1> QED
  BY <1>2, <1>8, LedgerStutters

LEMMA NextLedger ==
    ASSUME UseBulkedTransactions, IInv, IInv', Inserting, SettledInv, [Next]_vars
    PROVE  [Ledger!Next]_(Ledger!vars)
<1>1. /\ storage_ \in Connection /\ Consistent(storage_)
      /\ storage_.disk \in Database /\ storage_.db \in Database /\ NoCall.op = "none"
  BY DEF IInv, TypeOK, TransactionDiscipline, Connection, NoCall
<1>2. CASE UNCHANGED vars
  <2>1. storage_' = storage_ /\ call' = call
    BY <1>2 DEF vars
  <2>2. VisibleRows' = VisibleRows
    BY <2>1 DEF VisibleRows
  <2> QED
    BY <2>1, <2>2, LedgerStutters
<1>3. CASE Start
  <2>1. /\ call.op = "none" /\ call'.op = "none" /\ storage_.disk = storage_.db
        /\ storage_' = SqlOpen(storage_.disk)
    BY <1>1, <1>3 DEF Start, IInv, DownIsEmpty, TransactionDiscipline, Consistent, Connect
  <2>2. storage_'.db = storage_.disk /\ storage_'.disk = storage_.disk
    BY <1>1, <2>1, SqlOpenConsistent
  <2>3. VisibleRows' = VisibleRows
    BY <2>1, <2>2, Visible, VisibleNext
  <2> QED
    BY <2>2, <2>3, LedgerStutters
<1>4. ASSUME NEW priority \in JobPriorities, NEW status \in InsertStatuses,
             NEW now \in Times, InsertJob(priority, status, now)
      PROVE  [Ledger!Next]_(Ledger!vars)
  <2>1. /\ call.op = "none" /\ call'.op = "insert" /\ now \in Int /\ status \in JobStatus
        /\ storage_' = InsertJobRow(storage_, now, priority, status)
    BY <1>1, <1>4, FarmAssumption DEF InsertJob
  <2>2. storage_'.disk = storage_.db
    <3>1. /\ storage_ \in Connection /\ Consistent(storage_)
          /\ UseBulkedTransactions \/ ~storage_.in_transaction
          /\ now \in Int /\ status \in JobStatus
      BY <1>1, <2>1, Zenon
    <3>2. LET d == InsertJobRow(storage_, now, priority, status)
          IN  /\ d \in Connection /\ Consistent(d)
              /\ d.in_transaction
              /\ d.disk = storage_.db
              /\ d.db.jobs = Append(storage_.db.jobs, [priority |-> priority, status |-> status])
              /\ d.db.tasks = storage_.db.tasks
      BY <3>1, InsertJobRowConsistent, Zenon
    <3> QED
      BY <2>1, <3>2, Zenon
  <2>3. VisibleRows = storage_.db /\ VisibleRows' = storage_.db
    BY <2>1, <2>2, Visible, VisibleNext
  <2> QED
    BY <2>2, <2>3, LedgerSyncs
<1>5. CASE InsertTask
  <2>1. /\ call.op = "insert" /\ call.job \in Nat \ {0} /\ storage_.in_transaction
        /\ storage_' = InsertTaskRow(storage_, call.job, "WAITING")
        /\ call'.op = "insert" /\ "WAITING" \in TaskStatus
    BY <1>5, CallKinds
       DEF InsertTask, InsertCall, IInv, TransactionDiscipline, TaskStatus
  <2>2. storage_'.disk = storage_.disk
    BY <1>1, <2>1, InsertTaskRowConsistent
  <2>3. VisibleRows = storage_.disk /\ VisibleRows' = storage_.disk
    BY <2>1, <2>2, Visible, VisibleNext
  <2> QED
    BY <2>2, <2>3, LedgerStutters
<1>6. CASE InsertReturn
  BY <1>6, InsertReturnInserts
<1>7. CASE DispatchReturn
  BY <1>7, DispatchReturnStutters
<1>8. CASE Crash
  <2>1. call'.op = "none" /\ storage_' = SqlOpen(storage_.disk)
    BY <1>1, <1>8 DEF Crash, Exit
  <2>2. storage_'.db = storage_.disk /\ storage_'.disk = storage_.disk
    BY <1>1, <2>1, SqlOpenConsistent
  <2> QED
    BY <2>1, <2>2, VisibleNext, LedgerCrashes
<1>9. ASSUME NEW now \in Times, IdleHandler(now)
      PROVE  [Ledger!Next]_(Ledger!vars)
  <2>1. /\ call.op = "none" /\ call'.op = "none" /\ now \in Int /\ FALSE \in BOOLEAN
        /\ storage_' = TransactionCommitPending(storage_, now, FALSE)
    BY <1>1, <1>9, FarmAssumption DEF IdleHandler, FlushCaches
  <2>2. /\ storage_'.db = storage_.db
        /\ storage_'.disk = storage_.disk \/ storage_'.disk = storage_.db
    BY <1>1, <2>1, TransactionCommitPendingConsistent
  <2>3. VisibleRows = storage_.db /\ VisibleRows' = storage_.db
    BY <2>1, <2>2, Visible, VisibleNext
  <2> QED
    BY <2>2, <2>3, LedgerSyncs, LedgerStutters
<1>10. ASSUME NEW now \in Times, Shutdown(now)
       PROVE  [Ledger!Next]_(Ledger!vars)
  <2>1. /\ call.op = "none" /\ call'.op = "none" /\ now \in Int
        /\ storage_' = Disconnect(storage_, now)
    BY <1>1, <1>10, FarmAssumption DEF Shutdown, Exit
  <2>2. storage_'.db = storage_.db /\ storage_'.disk = storage_.db
    BY <1>1, <2>1, DisconnectConsistent
  <2>3. VisibleRows = storage_.db /\ VisibleRows' = storage_.db
    BY <2>1, <2>2, Visible, VisibleNext
  <2> QED
    BY <2>2, <2>3, LedgerSyncs
<1>11. ASSUME NEW now \in Times, NEW t \in tasks_queue_, DispatchTask(t, now)
       PROVE  [Ledger!Next]_(Ledger!vars)
  BY <1>11, DispatchTaskDispatches
<1> QED
  BY <1>2, <1>3, <1>4, <1>5, <1>6, <1>7, <1>8, <1>9, <1>10, <1>11
     DEF Next, TimedNext, UntimedNext

-----------------------------------------------------------------------------

\* With bulked transactions the farm over SQLiteStorage is a TaskLedger: jobs
\* appear whole and durable when insert_job returns, a dispatch activates task
\* and job at once for callers and in the file, and a crash takes back whole
\* dispatches, whichever statement of insert_job or update_task it hits.
THEOREM FarmIsALedger ==
    ASSUME UseBulkedTransactions
    PROVE  Spec => LedgerSpec
<1>1. Init => Inserting
  BY DEF Init, NoCall, Inserting
<1>2. IInv /\ IInv' /\ Inserting /\ [Next]_vars => Inserting'
  BY NextInserting
<1>3. Spec => []Inserting
  BY <1>1, <1>2, IInvInvariant, PTL DEF Spec
<1>4. Init => Ledger!Init
  <2> SUFFICES ASSUME Init
               PROVE  Ledger!Init
    OBVIOUS
  <2>1. call.op = "none" /\ storage_.disk = EmptyDatabase /\ storage_.db = EmptyDatabase
    BY DEF Init, NoCall, SqlOpen
  <2> QED
    BY <2>1, Visible DEF Ledger!Init, Ledger!EmptyDatabase, EmptyDatabase
<1>5. BulkedInv => SettledInv
  BY DEF BulkedInv
<1>6. IInv /\ IInv' /\ Inserting /\ SettledInv /\ [Next]_vars => [Ledger!Next]_(Ledger!vars)
  BY NextLedger
<1> QED
  BY <1>3, <1>4, <1>5, <1>6, IInvInvariant, SettledInvariant, PTL
     DEF Spec, LedgerSpec, Ledger!Spec

=============================================================================
