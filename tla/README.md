# farm-proto in TLA+

farm-proto is the prototype of a render farm: a server keeps jobs, each made of
tasks, in a SQLite file, and hands tasks to workers over HTTP.  This directory
holds a model of it in TLA+, the configurations that check the model with TLC,
and proofs checked by TLAPS.  All paths below are relative to `src/src/`.

## The system

| Part | Source | State | Operations |
|---|---|---|---|
| `Farm` | `model/model_farm.*` | `jobs_` and the tasks of each, `tasks_queue_` | `restore`, `insert_job`, `dispatch_task`, `idle_handler`, `store` |
| Dispatch queue | `model/model_farm.*` | a `std::priority_queue` of (job, task) pointers | `push`, `top`, `pop`, with `QueueTaskPriorityCompare` |
| `Job`, `Task` | `model/model_job.*`, `model/model_task.*` | id, priority, status | `generate_tasks`, `restore_tasks`, JSON |
| `SQLiteStorage` | `storage/storage_database_sqlite.*` | the file, the transaction, `has_open_transaction_`, `transaction_open_timestamp_` | inserts, updates, retrieval, bulked transactions |
| `DryRunStorage` | `storage/storage_dryrun.*` | none | the same interface, nothing stored; a build-time choice of `main` |
| HTTP server | `http/http_server_soup.*` | the main loop | pages and `/get_task`, `idle_function`, `start_serve`, `stop_serve` |
| Server process | `app/farm_server.cc` | three global pointers | `main`, `signal_quit` |
| Dummy worker | `app/farm_worker_dummy.cc` | a count | polls `/get_task` |
| JSON | `util/util_json.*` | maps of values that own nested maps | constructors, destructors, assignments, `serialize` |
| Other utilities | `util/*` | none | URI queries, strings, paths, clock, logging |

`main` opens the storage, restores the farm from it, and runs the main loop of
glib.  A request `GET /get_task` calls `Farm::dispatch_task` from that loop; when
no request is pending the loop calls `idle_function`, which calls
`Farm::idle_handler`, which lets the storage commit.  `SIGINT` quits the loop;
`main` then disconnects from the storage.  There is one thread.  What makes the
system hard is therefore not threads but

* crashes: an SQL statement that fails to write is a `LOG(FATAL)`, i.e. an abort,
  the machine may stop, and each operation of `Farm` is several SQL statements;
* reads that fail: the loops of `retrieve_all_jobs` and `retrieve_all_tasks`
  (`storage/storage_database_sqlite.cc:130` and `:151`) go on while they get
  `SQLITE_ROW`, take an error for the end of the rows, and report success, so that
  a server may run with a part of its jobs and tasks;
* the bulked transactions: updates of several calls share one transaction that
  some later call, or nobody, commits;
* two copies of everything, in memory and in the database, and a queue derived
  from both, all kept in agreement only by the order of calls;
* a priority queue whose comparator does not meet the requirements of the
  library, so that the order of dispatch depends on the history of the heap;
* replies that get lost after their task was marked active.

What makes it correct, part by part:

* `Farm` — no task is lost and none is handed out twice, across restarts;
  memory, database and queue agree, but for rows that `restore` did not get.
* Queue — it gives what was put into it, in the order that priorities promise.
* `SQLiteStorage` — transactions nest properly; what must be durable is; calls
  reach the file whole or not at all; the age of uncommitted work is bounded.
* Server and workers — a task reaches one worker, workers end, what was dispatched
  is eventually committed, and what a page said of a job stays true.
* JSON — documents are values: copies share nothing, nothing leaks or dangles.
* Process — `SIGINT` leads to an orderly end at whatever moment it comes.

`PROJECT.json` lists the components, and under `hazards` what is hard to test in
each, at its line.

## The modules

| Module | Models |
|---|---|
| `FarmTypes` | statuses, rows of the two tables, `Job::is_running` |
| `DispatchOrder` | `QueueTaskPriorityCompare`, and what a priority queue may have at its top |
| `SQLiteStorage` | the connection to the file, as operators: SQLite's part, the transactions, the operations of `Storage` |
| `Farm` | the state machine of a server process over its storage, its crashes and restarts, and the properties of both |
| `FarmClock` | `Farm` with a clock that moves, and with idle calls at least every `IdlePeriod` seconds |
| `TaskLedger` | abstract specification: atomic calls, and a durable copy that is always a state callers could see |
| `FarmRefinement` | the refinement mapping from `Farm` to `TaskLedger` |
| `TaskPool` | abstract specification of the queue as `Farm` uses it |
| `TaskHeap` | the heap algorithms of libstdc++ with the comparator of the farm; implements `TaskPool` |
| `DryRunStorage` | what `DryRunStorage` restores, and the ids it does not assign, as operators |
| `HttpPages` | what each callback answers except `/get_task`: `Job::serialize_json`, `job_by_id`, `URIQuery`, job commands, files |
| `FarmServer` | `Farm` behind the main loop of the HTTP server, with workers, other clients and a network that fails |
| `JsonDocuments` | abstract specification: json variables hold documents, which are values |
| `JsonObjects` | `json` and `json_value` as objects with pointers, one call of a constructor or destructor at a time |
| `JsonRefinement` | the refinement mapping from `JsonObjects` to `JsonDocuments` |
| `ServerLife` | `main` around `Farm`, statement by statement, interrupted by `SIGINT` |
| `SQLiteStorageProofs`, `FarmProofs`, `FarmRecoveryProofs` | lemmas on the storage; theorems on the farm: safety, restarts and the refinement |
| `FarmClockProofs`, `FarmServerProofs`, `ServerLifeProofs` | theorems on the modules that compose `Farm` with something else |
| `TaskHeapProofs`, `JsonObjectsProofs` | theorems on the heap algorithms and on who owns a json |
| `MCFarm`, `MCFarmClock`, `MCTaskHeap`, `MCFarmServer`, `MCServerLife`, `MCJson` | constants and symmetry for TLC |

`DispatchOrder`, `SQLiteStorage`, `DryRunStorage` and `HttpPages` are operators;
`Farm` EXTENDS the first two, `TaskHeap` instantiates the third, and
`FarmClock`, `FarmRefinement`, `FarmServer` and `ServerLife` each EXTEND `Farm` and
wrap its actions in theirs.

### Farm and SQLiteStorage

`jobs_[j]` is the job with row id `j`, `tasks_[t]` the task with row id `t`,
`storage_.db` what the connection reads and `storage_.disk` what the file recovers
to if the process stops now.  Rows are only appended, so in the file ids are
positions; in memory some may be missing.
SQLite's atomic commit is taken as given: `disk` changes at `END`, or at each
statement outside a transaction, as a whole.

| Action | Code |
|---|---|
| `Start` | `main` up to the HTTP server: `connect`, `create_schema`, `restore`, `rebuild_priority_queue` |
| `InsertJob`, `InsertTask`, `InsertReturn` | `insert_job`: forced commit, `BEGIN` and the row of the job; one row per task; `END` and the queue |
| `DispatchTask`, `DispatchReturn` | `dispatch_task`: `pop`, `update_task`; `update_job` if the job was not active, and the return |
| `IdleHandler` | `idle_handler`: `flush_caches` without force |
| `Shutdown` | the end of `main`: `store`, which does nothing, and `disconnect` |
| `Crash` | the end of the process at any point, also between the steps of a call |

A call of several statements takes several steps because a crash may come
between two of them; no other call may, as all run on one thread (`call` says
which one is under way).  Two statements are one step where the file cannot tell
the difference: a crash between the forced commit and the `BEGIN` of
`insert_job` is the crash after an idle commit.  The records left in memory
after a crash are not modelled; the process is gone.

`Start` reads what `RetrieveAllJobs` and `RetrieveAllTasks` offer: all rows, or as
many as come before an error (`Retrieved`), and no tasks of a job that was not read.
`unread` is a history variable with the ids of the rows that a process did not get;
what is in memory is the database less these (`Loaded`).

`FrontTasks` leaves open which of several admissible tasks `dispatch_task` takes:
where the comparator is a strict weak order on what is queued, any entry no other
one precedes; where it is not, any entry, as the library promises nothing.  That
this is what the library really does is checked separately, by `TaskHeap`.

`SQLiteStorage` keeps both SQLite's flag (`in_transaction`) and the program's
(`has_open_transaction`); `fatal` records that they ever disagreed, which would
be a failing assert or an abort.  `timestamp` is a Boolean since
`transaction_open_timestamp_` is declared `bool`.

`handed` is a history variable: the tasks that `dispatch_task` returned, less
those whose dispatch a crash undid.

### FarmServer

A worker asks (`Ask`), and its request stays in `requests` until the main loop
serves it: `ServeGetTask` and `ServeFound` are `serve_get_task_callback` before
and after the crash point inside `dispatch_task`, `ServeNotFound` the answer 404.
What is sent waits in `replies` until the worker reads it (`Receive`): it counts a
task and asks again, or ends on 404; anything else makes it pause (`Fail`,
`Wake`).  libsoup may send a request again by itself on a connection that was
closed; that is an `Ask` after a pause of no length.  `Idle` is `idle_function`: glib
calls it only when no source of a higher priority is ready, so its guard is that
`requests` is empty.

Requests to the other routes are one action, `ServePage`, since none of them
changes the farm: the answer is any that `HttpPages` gives to some method, path
and body.  `Jobs` is `jobs_` as these callbacks see it, records with ids in the order
of a vector, possibly with gaps: `job_by_id` searches it from the front while `/jobs`
keeps the last job of each id; that the two agree is a fact about ids, not about
the pages.  The history variable `shown` collects the JSON of jobs that clients were sent.

Faults, of which there are at most `MaxFaults`: a connection breaks, a worker dies,
the server crashes or is shut down; with the server all requests are gone, while
replies that were sent may still arrive or not.  `outages` counts the faults that
ended a server, and `cut` the requests and replies that faults took away: the clients
that were `Connected` and are not any more.  A worker whose connection broke has no
request left; the real server may still serve one it had read, which here is the
fault coming after `ServeGetTask`.  The listening port is free when a server
starts, as there is one at a time.

### ServerLife

`pc` is where `main` is.  The handler of `SIGINT` runs on the thread it interrupts,
so it is one step, at any `pc` in `SignalsAt`: `StopServe` if there is a server,
`StopNoServer` if the global pointer is null or dangling, and `SelfDeadlock` where
`main` may hold a lock of glog, glib, libsoup or malloc that the handler needs;
these locks are taken and released all over `main`, so every place except
`util_time_sleep` counts as one.  A call through the null pointer ends the process;
one through the dangling pointer, whose behaviour is undefined, does that or
nothing.  `g_main_loop_run` sets `is_running` when it starts: `Run` overwrites what
a handler did before it.  `soup_server_listen_all` may fail, which nobody looks at.

### TaskHeap and the dry run

`TaskHeap` works on entries as the library does: it cannot tell two entries apart
but by the comparator.  The pointers of an entry are its `object`, so that the model
can.

Each round of a loop is a step.  `PushTask` is the `push_back` of `push`, `DispatchTask`
is `top` and `pop` up to the loop of `__adjust_heap`; `Sink` is a round of that
loop, `Rise` one of `__push_heap`, and `Settle` its end.  The library moves entries
into a hole and keeps the one to be placed in a variable; here the hole shows that
one, so that a move is an `Exchange` and entries come and go only at the end of the
vector.  `next` is the task to which the loops of `rebuild_priority_queue` and
`insert_job` come; `SkipTask` is the condition in the first, for a task that is not
waiting or whose job is not running.  Nothing interrupts these loops in the program,
and the next operation waits for their end (`hole = 0`).

`dry_run` says which storage the program was built with.  SQLite assigns row
ids, so ids are positions; `DryRunStorage` restores jobs 0 to `NumDummyJobs - 1`,
with all tasks waiting, and leaves to jobs inserted later the id -1 and to each of
their tasks the id 1, as `insert_job` and `generate_tasks(1)` set them.

`Ordered` delimits where the order of the queue can be relied on.  With SQLite it
always can, because ids only grow: by the comparator a new entry never precedes
one that is queued, so a push never moves anything.  In a dry run a new entry has
the id -1 and does rise.  If the jobs have several priorities it may then rise past
an ancestor of which it cannot say that it precedes all that is below it, and the
vector is no heap any more, not even after the entries that caused this have left
(four dummy jobs of two tasks, and priorities between 45 and 55 inserted after
them, show it).  `main` inserts jobs of priority 50 only (`app/farm_server.cc:83`),
and `DryRunStorage` restores that priority, so the program as it is stays
`Ordered`.  `TaskPool` has a variable `ordered` for this: once it is false, the pool
promises only that no entry is lost.

### JsonObjects

A `json` is a number in the domain of `memory`; `local` says which one a variable
of the program is.  A copy constructor copies values, which copies what they point
to, and a destructor destroys values, which deletes what they point to.  Each of
these calls is a step: `CopyValue` copies one value, and puts the copy of the json
that it points to, if any, into the set `copying`; `CopyEnd` is the return from one
copy; `DeleteJson` is one destructor, which puts the objects its values point to
into the set `deleting`.  The sets have no order, where the program has one.
`AssignJson` is the assignment up to the end of `reset`, `AssignNew` the rest of it.
An operation on a variable begins when the last one has returned (`Idle`).
`CopyValue` looks at the pointer of the value it copies; `Freed`, which is what
destructor and `reset` delete, looks at the type, as the code does.

`JsonRefinement` maps this to `JsonDocuments`.  `Serialize` is what a reader would see
once all calls have returned: a copy under way stands for its original, and a
value under assignment for what is being assigned to it, so that an operation takes
effect with its first step and the other steps are stutters.

`json_value::operator=(const json_value&)` is declared and never defined, so there
is no action for it; `x[k] = x` is excluded, as nothing in the repository does it.

### Mutants

The definitions marked "Mutant" are slips one could make in the definition
beneath them.  Nothing uses them; each one, put in the place of its original,
makes TLC report a property as violated (`mutants` in `PROJECT.json`), so that no
property holds whatever the code does.

## What is checked

`farm_bulked` (`MCFarmBulked.cfg`) is the configuration of `farm_server.cc`:
bulked transactions, interval of two seconds.  Its invariants: transactions nest
(`NoFatal`), memory is the database less the rows that `restore` failed to read, and
gets neither further behind nor ahead (`MemoryMatchesDatabase`), a restart would
queue exactly the tasks of running jobs that are queued now and those that could not
be read (`RestartKeepsQueue`; `insert_job` also queues those of paused jobs, which a
restart forgets, and of which this property says nothing), no task is handed out twice (`HandedOnce`), what was handed out is on disk when no
transaction is open (`HandedIsDurable`), a crash leaves no partial job
(`WholeJobsOnDisk`), no active task in a job that is not (`StatusesAgreeOnDisk`),
and strands no task (`NothingStranded`).  Its property `LedgerSpec` is the
refinement of `TaskLedger`, with calls atomic and crashes that undo whole calls.

With the defaults of `SQLiteStorage` there is one transaction per statement outside
`insert_job`.  What remains then is proved for both modes (below) and has no run of
its own: `NoFatal`, `MemoryMatchesDatabase`, `RestartKeepsQueue`, `HandedOnce`,
`HandedIsDurable` and `WholeJobsOnDisk`.  The ledger is not implemented:
`dispatch_task` reaches the file in two halves.  `farm_stranded` shows the
consequence, see Findings.

`farm_clock` bounds the age of what a crash can take back.  `farm_clock_interval`
shows that the interval is not respected.

`task_heap` runs the heap itself on every subset of the tasks of four restored
jobs, of every assignment of three priorities, followed by pops and the pushes of
a fifth job; and on three jobs of a dry run and two inserted after them.  `PoolSpec`
says that no entry is lost and that whenever the comparator is a strict weak order
on the entries present, the one that leaves is one no other precedes: even in a heap
that was built while it was not.  `EqualPrioritiesByIds` is the case the server lives in, as it inserts all
its jobs with priority 50: tasks leave in the order of their creation with SQLite,
and inserted jobs first in a dry run, where -1 is less than any restored id.
`task_heap_order` shows that the queue is not a priority
queue otherwise.

`farm_server` checks the whole circle with faults.  `ReceivedOnce` allows a second
delivery only where a crash undid a dispatch.  A task that was dispatched and never
received is not handed out again; `LossIsBounded` says that there are at most as
many of these as requests and replies of workers were cut: a server that ends while
no worker is connected, or a worker that dies between two tasks, loses none.  `AllDoneIsTrue` is the claim the
worker logs: while no server went away, at most that many tasks are not done when it
says so, whatever became of workers and connections (an outage can make it false
altogether, as the next process may not read all of its rows).  `ShownJobsStay`
says that a job once shown to a client is what its details page shows ever after,
unless its row could not be read: row ids are given again after a crash undid an
insert, so nothing may be shown before it is durable.  `WorkersEnd` and
`DispatchesAreCommitted` are liveness properties, the second under the assumption
that clients leave pauses; `farm_server_busy` shows that it fails without.

`json` runs every sequence of operations on two variables, and within an operation
every order of the calls it makes.  `OneOwner` says that each object has one pointer
to it, in a variable, a value or a pending `delete`, and that no pointer dangles,
hence that nothing is leaked or freed twice; `PointerMatchesType` is what makes the copy constructor, which
looks at pointers, agree with the destructor, which looks at types; `DocumentsSpec`
is the refinement: no assignment is seen through another variable.

`server_life` lets `SIGINT` come anywhere: an orderly end loses nothing, leaves no
socket open, the handler finds its server wherever `main` is between the construction
and the deletion of it, and a signal while the main loop runs, be it in the middle of
a request or in the sleep of the idle source, does end the server, unless a handler
waits for a lock of the code it interrupted and never returns (`StopIsObeyed`).
`server_life_wild` and `server_life_lost` are two of the ways in which a signal may
not do so, elsewhere.

Bounds, and why they suffice:

* `MaxJobs = 3`, `NumTasks = 2`: a job with some of its tasks dispatched, one that
  is complete and one under insertion exist at a time, a job can be inserted in
  part, and with two priorities three jobs are enough to make the comparator
  intransitive.  1024 tasks per job add nothing that the model tells apart.
* Priorities `{40, 50}`, statuses `WAITING` and `PAUSED`: running or not is all
  the code asks of a job.
* `Times` has one reading in `MCFarm`: the code compares times with a bool only.
  `MCFarmClock` has seven consecutive seconds, more than `CommitInterval +
  IdlePeriod`.
* The number of restarts and crashes is not bounded: states repeat.
* `TaskHeap` is a heap of up to ten entries in four levels; three jobs already
  show intransitivity.  It may run empty when all jobs were inserted, so deadlock
  is not checked there.
* `JsonObjects`: five objects are two documents of which one holds a copy of the
  other with what is nested in that one, or a document with two nested ones and a
  copy under way; variables and keys are symmetric, as nothing depends on a name; `MaxObjects` may leave no
  operation enabled but ends of scopes, and deadlock is not checked.  Two keys are
  those under which `serialize_json` nests documents, one scalar is enough to tell
  an assigned value from a missing one.
* `FarmServer`: two workers compete for the two tasks of a job, so that one worker
  can get both, lose one, or find none; two priorities, so that a job inserted after
  a crash can differ from the one that was lost; one fault at any place.  A broken
  connection or a dead worker then cuts one of two tasks at most, and a crash or a
  shutdown none, one or both, so that `LossIsBounded` and `AllDoneIsTrue` can fail
  with one fault.  `MaxFaults = 0` suffices for the busy client.
* `ServerLife`: two signals, so that one can come before the loop and one during or
  after it; one job, so that a signal meets a call of each kind.

Fairness is assumed in three runs.  In `FarmServer`: weak fairness of the main loop
and of each worker, which are running processes; of `ServerStart`, as the worker
counts on a server that comes back; and strong fairness of serving each worker,
because each turn of glib's loop dispatches every source it found ready, so
that a request is not passed over for ever.  Strong fairness of `Idle` is no
property of the code and is a conjunct of its own, `CalmClients`: glib runs idle
sources only when nothing else is ready.  In `ServerLife`: weak fairness of `main`
only; no signal, no launch and no kill has to happen.

The real-time bound of `FarmClock` rests on the assumption written into `Tick`: the main loop
is idle at least once in `IdlePeriod` seconds.  glib runs idle sources only when no
source of higher priority is ready, so clients that never pause can break it.

## What is proved

`SQLiteStorageProofs` states for each operation of the storage what it does to
the connection, field by field, given that the connection is `Consistent`: nothing
fatal happened, the two flags agree, and outside a transaction the file is what
the connection reads.

`FarmProofs` proves, for every set of priorities, number of tasks, number of jobs,
set of clock readings and both modes:

| Theorem | Property |
|---|---|
| `TypeCorrect` | `TypeOK` |
| `TransactionsNest` | `NoFatal` |
| `MemoryIsTheDatabase` | `MemoryMatchesDatabase` |
| `NoTaskTwice` | `HandedOnce` |
| `HandedSurvive` | `HandedIsDurable` |

and `FarmRecoveryProofs`, in the same generality except where noted:

| Theorem | Property |
|---|---|
| `JobsSurviveWhole` | `WholeJobsOnDisk` |
| `RestartIsHarmless` | `RestartKeepsQueue` |
| `StatusesAgree` | `StatusesAgreeOnDisk`, with bulked transactions |
| `NobodyStranded` | `NothingStranded`, with bulked transactions |

`MemoryIsTheDatabase` does not assume that `restore` reads all rows: whatever it got,
what is missing is fixed by `Start`, and no call makes memory and file differ in
anything else.  All follow from the assumptions `TypesAssumption`, `StorageAssumption` and `FarmAssumption`,
which only give the constants their types.  None of these properties is inductive.
`HandedOnce` needs to know that queued tasks are waiting while handed ones are
active, which after a restart is a fact about the file, so it needs
`MemoryMatchesDatabase`, and that what waits to be queued by `insert_job` is new.
`HandedIsDurable` needs to know when `disk` and `db` are the same, which is when no
transaction is open, and that during `insert_job` the file already has every
dispatch.  The inductive invariant `IInv` conjoins these parts, each under a name;
one lemma per action shows that it is kept, and `ExitIInv` serves both ways a
process can end.  TLC confirms `IInv` on the instances of the runs.

`FarmRecoveryProofs` adds four invariants to it.  `BlocksInv`: the tasks of job `j`
are the ids from `(j - 1) * NumTasks + 1` to `j * NumTasks`, all of them on disk, and
all but those the call under way has still to insert in the database; that a job
is whole is arithmetic then.  `QueueInv`: of a job, all waiting tasks are queued
or none is.  A task alone would not do: a paused job becomes active with its first
dispatch, and then its other tasks have to be in the queue already.  `BulkedInv`:
a dispatch half done is in an open transaction, so that no statement commits it.
`JobsInv`: the file and the database have the same jobs, except during
`insert_job`.

In `FarmServerProofs`, for any sets of clients and any number of faults, each step of
`FarmServer` is one step of `Farm` or none, by the way it is composed, so that every
theorem above holds of the server; `ServerHandsOnce` is the one a client cares for.
The other theorems are about what the server adds.  `EachReceivedOnce`
(`ReceivedOnce`) counts: deliveries received and on their way are at most the
dispatches that stand and those that a crash undid (`DeliveryInv`), which every
lost reply only lowers.  `ShownJobsAreKept` (`ShownJobsStay`) rests on `JobsInv`: a
page is served between calls, when each job in memory is in the file, files do not
forget, and what a later process has of a job, if it read it, is what the file has.
`ServerLifeProofs` uses the theorems on `Farm` in the same way for `main` and its
signals, and proves `NoSocketWithoutLoop` and `OrderlyEndLosesNothing` for any number
of signals.  Their inductive invariant,
`LifeInv`, says where in `main` the farm is down, and that a loop which ran and is
stopped has lost its sockets; with `HandedIsDurable` from `FarmProofs`, and no
transaction open while the farm is down, an orderly end is durable.  The same
invariant knows when the global pointer of the handler is null or dangling, hence
`HandlerFindsServer` (`WildOnlyWithoutServer`) and `LifeTypeCorrect`.

`FarmRecoveryProofs` also proves the refinement, `FarmIsALedger`: with bulked transactions
`Spec => LedgerSpec`.  Besides `BulkedInv` it needs one more invariant, `Inserting`:
while a job is inserted, the connection has that job and as many of its tasks as
were written, and the file has everything else.  The commit of `insert_job` then is
the ledger's `InsertJob`, the first statement of `dispatch_task` its `DispatchTask`,
and the second a stutter.

`FarmClockProofs` proves `TransactionsStayYoung` (`OpenTransactionIsYoung`) and
`ClockTypeCorrect`.  The invariant `YoungInv` says what the bool remembers, namely
whether the clock read 0 when the transaction was begun, and that a transaction
which the last idle call left open was at most `CommitInterval` old then: a bool of
1 makes a transaction look at least as old as it is, a bool of 0 gives its true age.  It assumes
that the clock starts at 1970 or later (`ClockAssumption`).

In `FarmServerProofs` there are also `LossesAreBounded` (`LossIsBounded`), `AllDone`
(`AllDoneIsTrue`) and `ServerTypeCorrect` (`ServerTypeOK`), for any finite set of
workers that is disjoint from the other clients (`ServerAssumption`).  `TalkInv`: a
worker has a request or a reply on its way only while it waits, and never both.
`LossInv` counts tasks that were handed out and that nobody received or will, with
the dispatch under way if its requester is gone; a fault adds at most one for each
request or reply that it takes away (`CutTasks`, `CutsAreFew`), and nothing else
does.  `CleanInv` describes a run without an outage: the process is the first one,
started on an empty file, so that nothing is unread; each task is still to be queued
or given, or was handed out; and once anybody was told 404 the queue is empty and
stays so, as all jobs are inserted before the server listens.  With `LossInv` this
bounds what is not done by `cut`.

`TaskHeapProofs` is about the heap algorithms, for any number of jobs and tasks, any
priorities and either storage; TLC's heap has at most ten entries.

| Theorem | Property |
|---|---|
| `HeapTypeCorrect` | `TypeOK` |
| `TasksLeaveByIds` | `EqualPrioritiesByIds` |
| `HeapIsAPool` | `PoolSpec` |

That the vector holds each entry once is a part of the inductive invariant, and no
result: it follows from the moves being exchanges.

No theorem about binary heaps can be cited, since the comparator is no strict weak
order.  What the vector does satisfy is weaker: `MayPrecede(upper, lower)` for each
entry and its parent, that is, the comparator does not say that the upper one is to
leave after the lower one, or it says so of both.  `MayPrecede` is not transitive,
which the usual argument needs twice: when a hole is filled by a child, whose
sibling gets a new parent, and when a value rises past an entry, which gets a new
child.  `HoleInv` and `RiseInv` say why it works all the same.  A value that sinks
and then rises comes back on the path it left, and what hangs beside that path may
be preceded by the grandparent as well as by the parent, because the grandparent
was its parent before the hole passed (`Path`).  A value that is pushed does not
rise at all with SQLite (`Newest`), since its ids are the greatest.  In a dry run of
one priority `MayPrecede` is transitive (`OnePriority`).  `OrderInv` is the
conjunction, under `Ordered`, and outside of it the vector may really stop being a
heap.  That the root then may precede every entry (`RootByIds`, `RootIsTop`) is an
induction along the path from an entry to the root, in a form the provers accept: a
least counterexample exists because `<` is well-founded on `Nat` (`LeastElement`,
`HeapInduction`).  It uses that `MayPrecede` is transitive on what is queued, which
holds for entries of one priority, and wherever the comparator is a strict weak
order.

`JsonObjectsProofs` proves `JsonTypeCorrect` (`JsonTypeOK`), `EveryObjectHasOneOwner`
(`OneOwner`) and `PointersMatchTypes` (`PointerMatchesType`), for any variables, keys,
scalars and number of objects.  `OneOwner` is split into `Alive`, `Exclusive` and
`Owned`: no pointer dangles, no two pointers are equal, each object has one.  They
need `PointerMatchesType`, since a destructor that goes by the type frees what is
pointed to only if the two agree, and `CallsInv`: nothing is deleted while something
is copied, and the value under assignment points to nothing after its reset.  Since
every call is a step, the theorems hold between any two of them, also in the middle
of a destructor.

## Model-checked only

* Liveness, which needs fairness: `WorkersEnd`, `DispatchesAreCommitted`,
  `StopIsObeyed`.
* `DocumentsSpec`: `Serialize` is a RECURSIVE operator, as documents nest, which the
  prover does not accept.
* The six runs that expect a violation: each is one counterexample.

## Findings

* `model/model_farm.cc:145`: the comparator is not a strict weak order, and the
  queue is not ordered by priority (`task_heap_order`).  Priorities 50, 40, 60 in
  order of insertion: the job with 50 is served first.
* `storage/storage_database_sqlite.h:120`: `transaction_open_timestamp_` is a
  `bool`; the commit interval has no effect (`farm_clock_interval`).  The harm is
  throughput, not safety.
* `model/model_farm.cc:115`: with the defaults of the storage, "maximum
  reliability", a crash inside `dispatch_task` strands a task (`farm_stranded`).
* `storage/storage_database_sqlite.cc:211`: the commit in `update_task` follows its
  return; only the idle source commits, which a busy server never runs
  (`farm_server_busy`).  A crash then undoes any number of dispatches.
* `app/farm_server.cc:50`: `SIGINT` while the farm is being restored calls a method
  of a null pointer, and after the server was deleted one of a dangling pointer
  (`server_life_wild`).
* `http/http_server_soup.cc:347`: `SIGINT` while `start_serve` prepares the loop is
  lost (`server_life_lost`).

One observation has no run, since it is a matter of what the file system does: a row
that `restore` does not get is neither reported nor missed.  The comments speak of
all rows ("Retrieve all jobs", `storage/storage_database_sqlite.cc:126`; "we always
keep all tasks in memory", `model/model_job.cc:60`).  `Start` has the case, and every
property holds with it, stated for the rows that were read; a task that was not read
waits for the next restart.

## Not modelled, and the plan

Order of work, the most important first:

1. done: `FarmTypes`, `DispatchOrder`, `SQLiteStorage`, `Farm`, `TaskPool`,
   `TaskHeap`, `TaskLedger`, `FarmRefinement`, `FarmClock`, first proofs.
2. done: `FarmServer` and `ServerLife`, each composed with `Farm`.
3. done: `HttpPages` and what clients are shown; `DryRunStorage` under the queue;
   `JsonObjects` and its abstract specification.
4. done: proofs of the four recovery properties, of the refinement of `TaskLedger`
   with bulked transactions, of every safety property of `FarmServer`, `FarmClock`
   and `ServerLife`.
5. done: the loops of the heap and the calls inside copies and destructors as steps,
   and with that the proofs of every safety property of `TaskHeap`, of its refinement
   of `TaskPool`, and of every invariant of `JsonObjects`.
6. open: a mapping from `JsonObjects` to `JsonDocuments` that needs no recursive
   operator, for instance by the paths from a variable to its scalars, and with it a
   proof of `DocumentsSpec`.

Left out for good, and why:

* `string_printf`, `string_escape` and `path_join` work on the characters of one
  string and keep no state.  The growth loop of `string_printf` is that of any such
  wrapper.  `string_escape` is never called.
* The bytes of static files and the wording of JSON and logs.  That `serialize` does
  not escape the name of a job is a matter of wording in this sense.
* The constructors of `json_value` from a string, a number or a json: never called.
* `transaction_rollback`: called only after `LOG(FATAL)` has ended the process.
* libsoup's parsing of HTTP, the vendored SQLite (its commit is assumed atomic),
  and build files.

The mutex of `Farm` is never locked (`thread_scoped_lock(lock)` declares a variable);
with one thread this has no effect, and no second thread is invented to show one.
