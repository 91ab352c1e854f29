--------------------------- MODULE FarmClockProofs ---------------------------
(***************************************************************************)
(* How long a bulked transaction stays open, for any readings of a clock   *)
(* that starts in 1970 or later, any commit interval and any idle period.  *)
(***************************************************************************)
EXTENDS FarmClock, FarmProofs

Readings == Times \cap Nat

\* The bool that stands for the time of the last begin tells whether that was
\* 0, and what idle_handler left open was no older than the commit interval.
YoungInv ==
    /\ {clock, opened, idled} \subseteq Readings
    /\ opened <= clock /\ idled <= clock
    /\ phase = "up" => clock - idled <= IdlePeriod
    /\ storage_.has_open_transaction =>
         /\ storage_.timestamp = (opened # 0)
         /\ idled - opened <= CommitInterval
    /\ commit_age \in Int

\* A call that leaves the transaction open as it was.
Keeps ==
    /\ storage_.has_open_transaction
    /\ storage_'.timestamp = storage_.timestamp
    /\ ~Begins

\* Beginning a transaction notes whether the clock reads 0.
LEMMA BeginNotes ==
    ASSUME NEW c \in Connection, NEW now
    PROVE  LET d == TransactionBegin(c, now)
           IN  d.has_open_transaction = TRUE /\ d.timestamp = (now # 0)
BY DEF TransactionBegin, SqlBegin, Connection

LEMMA WriteKeeps ==
    ASSUME NEW c \in Connection, NEW rows
    PROVE  LET d == SqlWrite(c, rows)
           IN  /\ d.has_open_transaction = c.has_open_transaction
               /\ d.timestamp = c.timestamp
BY DEF SqlWrite, Connection

LEMMA FarmConnection ==
    ASSUME IInv
    PROVE  /\ storage_ \in Connection /\ Consistent(storage_)
           /\ storage_.has_open_transaction = storage_.in_transaction
           /\ call = NoCall /\ storage_.has_open_transaction => UseBulkedTransactions
BY CallKinds DEF IInv, TypeOK, TransactionDiscipline, Consistent

\* The transaction that is open after a call was begun by it, or is the one
\* that was open before.
LEMMA OpenIsNewOrKept ==
    ASSUME IInv, IInv', clock \in Readings,
           TimedNext(clock) \/ UntimedNext, storage_'.has_open_transaction
    PROVE  \/ Begins /\ storage_'.timestamp = (clock # 0)
           \/ Keeps
<1>1. /\ storage_ \in Connection /\ Consistent(storage_) /\ clock \in Int
      /\ NoCall.op = "none"
  BY FarmConnection DEF Readings, NoCall
<1>2. phase' = "up"
  BY FarmConnection DEF IInv, TypeOK, TransactionDiscipline, Consistent
<1>3. ~Start
  BY DEF Start, Connect, SqlOpen
<1>4. ASSUME NEW priority \in JobPriorities, NEW status \in InsertStatuses,
             InsertJob(priority, status, clock)
      PROVE  Begins /\ storage_'.timestamp = (clock # 0)
  <2> DEFINE flushed == TransactionCommitPending(storage_, clock, TRUE)
             begun == TransactionBegin(flushed, clock)
             job == [priority |-> priority, status |-> status]
             rows == [jobs |-> Append(begun.db.jobs, job), tasks |-> begun.db.tasks]
  <2>1. flushed \in Connection /\ Consistent(flushed) /\ ~flushed.in_transaction
    <3>1. call = NoCall
      BY <1>4 DEF InsertJob
    <3> QED
      BY <1>1, <3>1, FarmConnection, TransactionCommitPendingConsistent DEF Consistent
  <2>2. begun \in Connection
    BY <1>1, <2>1, TransactionBeginConsistent
  <2>3. begun.timestamp = (clock # 0)
    BY <2>1, BeginNotes
  <2>4. storage_' = SqlWrite(begun, rows)
    BY <1>4 DEF InsertJob, InsertJobRow
  <2>5. call = NoCall /\ call'.op = "insert"
    BY <1>4 DEF InsertJob
  <2> HIDE DEF flushed, begun, rows
  <2>6. storage_'.timestamp = begun.timestamp
    BY <2>2, <2>4, WriteKeeps
  <2> QED
    BY <2>3, <2>5, <2>6 DEF Begins
<1>5. CASE InsertTask
  <2>1. storage_'.timestamp = storage_.timestamp
        /\ storage_.has_open_transaction = storage_'.has_open_transaction
    BY <1>1, <1>5, WriteKeeps DEF InsertTask, InsertTaskRow
  <2>2. call # NoCall
    BY <1>1, <1>5 DEF InsertTask
  <2> QED
    BY <2>1, <2>2 DEF Keeps, Begins
<1>6. CASE InsertReturn
  <2>1. storage_' = TransactionCommit(storage_)
    BY <1>6 DEF InsertReturn, InsertJobCommit
  <2>2. storage_.in_transaction
    BY <1>6 DEF InsertReturn, IInv, TransactionDiscipline
  <2>3. Consistent(storage_') /\ ~storage_'.in_transaction
    BY <1>1, <2>1, <2>2, TransactionCommitConsistent
  <2> QED
    BY <2>3 DEF Consistent
<1>7. ASSUME NEW t \in tasks_queue_, DispatchTask(t, clock)
      PROVE  \/ Begins /\ storage_'.timestamp = (clock # 0)
             \/ Keeps
  <2> DEFINE begun == TransactionBeginPending(storage_, clock)
             rows == [jobs  |-> begun.db.jobs,
                      tasks |-> [begun.db.tasks EXCEPT ![t].status = "ACTIVE"]]
  <2>1. begun \in Connection
    BY <1>1, TransactionBeginPendingConsistent
  <2>2. storage_' = SqlWrite(begun, rows) /\ call'.op = "dispatch"
    BY <1>7 DEF DispatchTask, UpdateTask
  <2>3. CASE UseBulkedTransactions /\ ~storage_.has_open_transaction
    <3>1. begun = TransactionBegin(storage_, clock)
      BY <2>3 DEF TransactionBeginPending
    <3>2. begun.timestamp = (clock # 0)
      BY <1>1, <3>1, BeginNotes
    <3> HIDE DEF begun, rows
    <3>3. storage_'.timestamp = begun.timestamp
      BY <2>1, <2>2, WriteKeeps
    <3> QED
      BY <2>3, <3>2, <3>3 DEF Begins
  <2>4. CASE ~(UseBulkedTransactions /\ ~storage_.has_open_transaction)
    <3>1. begun = storage_
      BY <2>4 DEF TransactionBeginPending
    <3> HIDE DEF begun, rows
    <3>2. /\ storage_'.timestamp = storage_.timestamp
          /\ storage_.has_open_transaction = storage_'.has_open_transaction
      BY <2>1, <2>2, <3>1, WriteKeeps
    <3> QED
      BY <2>2, <3>2 DEF Keeps, Begins
  <2> QED
    BY <2>3, <2>4
<1>8. CASE DispatchReturn
  <2>1. call.op = "dispatch" /\ call # NoCall
    BY <1>1, <1>8 DEF DispatchReturn
  <2>2. UNCHANGED storage_ \/ \E job : storage_' = UpdateJob(storage_, call.job, job)
    BY <1>8 DEF DispatchReturn
  <2>3. /\ storage_'.timestamp = storage_.timestamp
        /\ storage_.has_open_transaction = storage_'.has_open_transaction
    BY <1>1, <2>2, WriteKeeps DEF UpdateJob
  <2> QED
    BY <2>1, <2>3 DEF Keeps, Begins
<1>9. CASE IdleHandler(clock)
  <2>1. storage_' = TransactionCommitPending(storage_, clock, FALSE)
    BY <1>9 DEF IdleHandler, FlushCaches
  <2>2. storage_' = storage_ \/ ~storage_'.in_transaction
    BY <1>1, <2>1, TransactionCommitPendingConsistent
  <2>3. storage_' = storage_
    BY <2>2, FarmConnection DEF IInv, TransactionDiscipline, Consistent
  <2>4. call'.op = "none"
    BY <1>1, <1>9 DEF IdleHandler
  <2> QED
    BY <2>3, <2>4 DEF Keeps, Begins
<1>10. ~Shutdown(clock) /\ ~Crash
  BY <1>2 DEF Shutdown, Crash, Exit
<1> QED
  BY <1>3, <1>4, <1>5, <1>6, <1>7, <1>8, <1>9, <1>10 DEF TimedNext, UntimedNext

\* What idle_handler leaves open is no older than the commit interval: the
\* bool makes every transaction look older than it is, unless the clock read 0.
LEMMA IdleLeavesYoung ==
    ASSUME IInv, YoungInv, IdleHandler(clock), storage_'.has_open_transaction, Keeps
    PROVE  clock - opened <= CommitInterval
<1>1. /\ storage_.has_open_transaction /\ UseBulkedTransactions
      /\ storage_ \in Connection /\ storage_.timestamp = (opened # 0)
  BY FarmConnection DEF Keeps, IdleHandler, YoungInv
<1>2. storage_' = TransactionCommitPending(storage_, clock, FALSE)
  BY DEF IdleHandler, FlushCaches
<1>3. ~(TimeDt(storage_, clock) >= CommitInterval)
  <2>1. ASSUME TimeDt(storage_, clock) >= CommitInterval PROVE FALSE
    <3>1. storage_' = TransactionCommit(storage_)
      BY <1>1, <1>2, <2>1 DEF TransactionCommitPending
    <3>2. storage_'.has_open_transaction = FALSE
      BY <1>1, <3>1 DEF TransactionCommit, SqlEnd, Connection
    <3> QED
      BY <3>2
  <2> QED
    BY <2>1
<1>4. TimeDt(storage_, clock) = clock - (IF opened # 0 THEN 1 ELSE 0)
  BY <1>1 DEF TimeDt
<1>5. clock \in Nat /\ opened \in Nat /\ CommitInterval \in Nat
  BY StorageAssumption DEF YoungInv, Readings
<1> QED
  BY <1>3, <1>4, <1>5

LEMMA ClockStepIsFarmStep ==
    ASSUME clock \in Readings, [ClockNext]_clockVars
    PROVE  [Next]_vars
<1>1. TimedNext(clock) \/ UntimedNext => Next
  BY DEF Next, Readings
<1> QED
  BY <1>1 DEF clockVars, ClockNext, Tick

LEMMA NextYoung ==
    ASSUME IInv, IInv', YoungInv, [ClockNext]_clockVars
    PROVE  YoungInv'
<1>1. /\ clock \in Nat /\ opened \in Nat /\ idled \in Nat
      /\ CommitInterval \in Nat /\ IdlePeriod \in Nat
  BY StorageAssumption, ClockAssumption DEF YoungInv, Readings
<1>2. CASE UNCHANGED clockVars
  BY <1>2 DEF clockVars, vars, YoungInv
<1>3. CASE Tick
  <2>1. /\ clock + 1 \in Times /\ clock' = clock + 1
        /\ phase = "up" => clock - idled < IdlePeriod
        /\ UNCHANGED <<phase, storage_, opened, idled, commit_age>>
    BY <1>3 DEF Tick, vars
  <2> QED
    BY <1>1, <2>1 DEF YoungInv, Readings
<1>4. CASE (TimedNext(clock) \/ UntimedNext) /\ Record /\ UNCHANGED clock
  <2>1. /\ opened' = IF Begins THEN clock ELSE opened
        /\ idled' = IF IdleHandler(clock) \/ Start THEN clock ELSE idled
        /\ commit_age' = IF IdleCommit THEN clock - opened ELSE commit_age
        /\ clock' = clock
    BY <1>4 DEF Record
  <2>2. /\ {clock', opened', idled'} \subseteq Readings
        /\ opened' <= clock' /\ idled' <= clock' /\ commit_age' \in Int
    BY <1>1, <2>1 DEF YoungInv
  <2>3. phase' = "up" => clock' - idled' <= IdlePeriod
    <3>1. Start \/ phase' = phase \/ phase' = "down"
      BY <1>4 DEF TimedNext, UntimedNext, InsertJob, InsertTask, InsertReturn,
                  DispatchTask, DispatchReturn, IdleHandler, Shutdown, Crash, Exit
    <3> QED
      BY <1>1, <2>1, <3>1 DEF YoungInv
  <2>4. ASSUME storage_'.has_open_transaction
        PROVE  /\ storage_'.timestamp = (opened' # 0)
               /\ idled' - opened' <= CommitInterval
    <3>1. clock \in Readings
      BY DEF YoungInv
    <3>2. CASE Begins /\ storage_'.timestamp = (clock # 0)
      <4>1. opened' = clock /\ idled' <= clock /\ idled' \in Nat
        BY <1>1, <2>1, <2>2, <3>2
      <4>2. storage_'.timestamp = (opened' # 0)
        BY <3>2, <4>1, Zenon
      <4>3. \A i, c, n \in Nat : i <= c => i - c <= n
        OBVIOUS
      <4>4. idled' - clock <= CommitInterval
        BY <1>1, <4>1, <4>3, Zenon
      <4>5. idled' - opened' <= CommitInterval
        BY <4>1, <4>4, Zenon
      <4> QED
        BY <4>2, <4>5
    <3>3. CASE Keeps
      <4>1. opened' = opened
        BY <2>1, <3>3 DEF Keeps
      <4>2. /\ storage_'.timestamp = (opened' # 0)
            /\ idled - opened <= CommitInterval
        <5>1. storage_.has_open_transaction /\ storage_'.timestamp = storage_.timestamp
          BY <3>3 DEF Keeps
        <5>2. storage_.timestamp = (opened # 0) /\ idled - opened <= CommitInterval
          BY <5>1 DEF YoungInv
        <5> QED
          BY <4>1, <5>1, <5>2
      <4>3. ~Start
        BY <2>4 DEF Start, Connect, SqlOpen
      <4>4. IdleHandler(clock) => clock - opened <= CommitInterval
        BY <2>4, <3>3, IdleLeavesYoung
      <4> QED
        BY <2>1, <4>1, <4>2, <4>3, <4>4
    <3> QED
      BY <1>4, <2>4, <3>1, <3>2, <3>3, OpenIsNewOrKept
  <2> QED
    BY <2>2, <2>3, <2>4 DEF YoungInv
<1> QED
  BY <1>2, <1>3, <1>4 DEF ClockNext

LEMMA ClockInvariant == ClockSpec => [](IInv /\ YoungInv)
<1>1. ClockInit => IInv /\ YoungInv
  <2> SUFFICES ASSUME ClockInit PROVE YoungInv
    BY InitIInv DEF ClockInit
  <2>1. /\ clock = StartTime /\ opened = StartTime /\ idled = StartTime
        /\ commit_age = CommitInterval /\ phase = "down"
        /\ storage_.has_open_transaction = FALSE
    BY DEF ClockInit, Init, SqlOpen
  <2> QED
    BY <2>1, ClockAssumption, StorageAssumption DEF YoungInv, Readings
<1>2. IInv /\ YoungInv /\ [ClockNext]_clockVars => (IInv /\ YoungInv)'
  <2> SUFFICES ASSUME IInv, YoungInv, [ClockNext]_clockVars PROVE IInv' /\ YoungInv'
    OBVIOUS
  <2>1. IInv'
    BY ClockStepIsFarmStep, NextIInv DEF YoungInv
  <2> QED
    BY <2>1, NextYoung
<1> QED
  BY <1>1, <1>2, PTL DEF ClockSpec

\* The readings of the clock that are remembered are readings it can give.
THEOREM ClockTypeCorrect == ClockSpec => []ClockTypeOK
<1>1. IInv /\ YoungInv => ClockTypeOK
  BY DEF IInv, YoungInv, ClockTypeOK, Readings
<1> QED
  BY <1>1, ClockInvariant, PTL

\* No transaction is open longer than the commit interval and the time until
\* the next call of idle_handler, whenever calls come and whoever crashes.
THEOREM TransactionsStayYoung == ClockSpec => []OpenTransactionIsYoung
<1>1. YoungInv => OpenTransactionIsYoung
  <2> SUFFICES ASSUME YoungInv, phase = "up", storage_.has_open_transaction
               PROVE  clock - opened <= CommitInterval + IdlePeriod
    BY DEF OpenTransactionIsYoung
  <2>1. /\ clock \in Nat /\ opened \in Nat /\ idled \in Nat
        /\ CommitInterval \in Nat /\ IdlePeriod \in Nat
    BY StorageAssumption, ClockAssumption DEF YoungInv, Readings
  <2>2. clock - idled <= IdlePeriod /\ idled - opened <= CommitInterval
    BY DEF YoungInv
  <2> QED
    BY <2>1, <2>2
<1> QED
  BY <1>1, ClockInvariant, PTL

=============================================================================
