------------------------------ MODULE FarmClock ------------------------------
(***************************************************************************)
(* The farm in real time: every call reads one clock, and the idle handler *)
(* is called at least once in IdlePeriod seconds, which is what the main   *)
(* loop does while its clients leave it idle now and then.  Calls take no  *)
(* time.  The question is how long a bulked transaction stays open.        *)
(***************************************************************************)
EXTENDS Farm

CONSTANTS
    StartTime,   \* the first reading of the clock
    IdlePeriod   \* the longest time without a call of idle_handler

ASSUME ClockAssumption == StartTime \in Times \cap Nat /\ IdlePeriod \in Nat

VARIABLES
    clock,       \* util_time_dt, in whole seconds
    opened,      \* history: when the transaction that is open was begun
    idled,       \* history: when idle_handler was called, or the farm started
    commit_age   \* history: how old the transaction was that idle_handler
                 \* committed last; CommitInterval before there was any

clockVars == <<vars, clock, opened, idled, commit_age>>

ClockInit ==
    /\ Init
    /\ clock = StartTime
    /\ opened = StartTime
    /\ idled = StartTime
    /\ commit_age = CommitInterval

\* insert_job commits the open transaction and begins one of its own.
Begins ==
    /\ storage_'.has_open_transaction
    /\ ~storage_.has_open_transaction \/ (call = NoCall /\ call'.op = "insert")

IdleCommit ==
    /\ IdleHandler(clock)
    /\ storage_.has_open_transaction
    /\ ~storage_'.has_open_transaction

Record ==
    /\ opened' = IF Begins THEN clock ELSE opened
    /\ idled' = IF IdleHandler(clock) \/ Start THEN clock ELSE idled
    /\ commit_age' = IF IdleCommit THEN clock - opened ELSE commit_age

Tick ==
    /\ call = NoCall
    /\ clock + 1 \in Times
    /\ phase = "up" => clock - idled < IdlePeriod
    /\ clock' = clock + 1
    /\ UNCHANGED <<vars, opened, idled, commit_age>>

ClockNext ==
    \/ TimedNext(clock) /\ Record /\ UNCHANGED clock
    \/ UntimedNext /\ Record /\ UNCHANGED clock
    \/ Tick

ClockSpec == ClockInit /\ [][ClockNext]_clockVars

-----------------------------------------------------------------------------
(* Properties. *)

ClockTypeOK ==
    /\ TypeOK
    /\ {clock, opened, idled} \subseteq Times
    /\ commit_age \in Int

\* What a crash can take back is young: no transaction outlives its commit
\* interval by more than the time until the next call of idle_handler.
OpenTransactionIsYoung ==
    phase = "up" /\ storage_.has_open_transaction =>
        clock - opened <= CommitInterval + IdlePeriod

\* Updates are combined: idle_handler lets a transaction grow until it is
\* CommitInterval old.
UpdatesAreCombined == commit_age >= CommitInterval

=============================================================================
