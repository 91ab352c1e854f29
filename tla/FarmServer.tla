----------------------------- MODULE FarmServer -----------------------------
(***************************************************************************)
(* The farm behind its HTTP server, and the workers that poll it.          *)
(*                                                                         *)
(* The main loop of the server handles one request at a time, and calls    *)
(* idle_handler only when no request is pending.  A worker asks for a task *)
(* and waits for the reply, which the loss of its connection, the death of *)
(* either process or a shutdown may take away; it then pauses and asks     *)
(* again.  Other clients, the readers, ask for any other page, and keep    *)
(* what they were shown of the jobs.                                       *)
(***************************************************************************)
EXTENDS Farm, HttpPages, FiniteSets

CONSTANTS
    Workers,    \* instances of farm_worker_dummy
    Readers,    \* clients that request other pages
    MaxFaults   \* bound: crashes, shutdowns, broken connections, dead workers

ASSUME ServerAssumption ==
    /\ IsFiniteSet(Workers)
    /\ Workers \cap Readers = {}
    /\ MaxFaults \in Nat

VARIABLES
    listening,  \* start_serve runs its main loop
    requests,   \* the clients whose requests have arrived
    serving,    \* the worker whose request made the call under way, if any
    replies,    \* what is on its way to each worker
    workers,    \* what each worker does
    shown,      \* history: the JSON of the jobs that readers have seen
    received,   \* history: how often each task was received by a worker
    undone,     \* history: how often a crash undid the dispatch of each task
    faults,     \* how many faults there were
    outages,    \* how many of them were the end of a server
    cut         \* history: how many requests or replies of workers they took away

httpVars == <<listening, requests, serving, replies>>
workerVars == <<workers, received>>
faultVars == <<faults, outages, cut>>
serverVars == <<vars, httpVars, workerVars, shown, undone, faultVars>>

TaskIds == 1..(MaxJobs * NumTasks)

NoReply  == [status |-> "none"]
NotFound == [status |-> "404"]
Found(t) == [status |-> "200", task |-> t]

WorkerState == {"asking", "waiting", "pausing", "done", "dead"}

ServerTypeOK ==
    /\ TypeOK
    /\ listening \in BOOLEAN
    /\ requests \subseteq Workers \cup Readers
    /\ serving \subseteq Workers
    /\ replies \in [Workers -> {NoReply, NotFound} \cup {Found(t) : t \in TaskIds}]
    /\ workers \in [Workers -> WorkerState]
    /\ shown \subseteq [id : Nat, priority : JobPriorities, status : {"waiting"}]
    /\ received \in [TaskIds -> Nat]
    /\ undone \in [TaskIds -> Nat]
    /\ {faults, outages} \subseteq 0..MaxFaults
    /\ cut \in Nat

ServerInit ==
    /\ Init
    /\ listening = FALSE
    /\ requests = {}
    /\ serving = {}
    /\ replies = [w \in Workers |-> NoReply]
    /\ workers = [w \in Workers |-> "asking"]
    /\ shown = {}
    /\ received = [t \in TaskIds |-> 0]
    /\ undone = [t \in TaskIds |-> 0]
    /\ faults = 0
    /\ outages = 0
    /\ cut = 0

-----------------------------------------------------------------------------
(* main up to the main loop: new jobs are inserted before it listens. *)

ServerStart ==
    /\ Start
    /\ UNCHANGED <<httpVars, workerVars, shown, undone, faultVars>>

Populate(now) ==
    /\ ~listening
    /\ \E priority \in JobPriorities, status \in InsertStatuses :
         InsertJob(priority, status, now)
    /\ UNCHANGED <<httpVars, workerVars, shown, undone, faultVars>>

PopulateStep ==
    /\ InsertTask \/ InsertReturn
    /\ UNCHANGED <<httpVars, workerVars, shown, undone, faultVars>>

Listen ==
    /\ phase = "up"
    /\ call = NoCall
    /\ ~listening
    /\ listening' = TRUE
    /\ UNCHANGED <<vars, requests, serving, replies, workerVars, shown, undone, faultVars>>

-----------------------------------------------------------------------------
(* The main loop. *)

\* serve_get_task_callback when dispatch_task returns a task: up to the
\* statement in the middle of dispatch_task, and from there on.
ServeGetTask(w, now) ==
    /\ listening
    /\ w \in requests
    /\ \E t \in tasks_queue_ : DispatchTask(t, now)
    /\ requests' = requests \ {w}
    /\ serving' = {w}
    /\ UNCHANGED <<listening, replies, workerVars, shown, undone, faultVars>>

\* Mutant: the response is never set.
ServeFoundSilently ==
    /\ DispatchReturn
    /\ serving' = {}
    /\ UNCHANGED <<listening, requests, replies, workerVars, shown, undone, faultVars>>

ServeFound ==
    /\ DispatchReturn
    /\ replies' = [w \in Workers |-> IF w \in serving THEN Found(call.task)
                                                      ELSE replies[w]]
    /\ serving' = {}
    /\ UNCHANGED <<listening, requests, workerVars, shown, undone, faultVars>>

\* serve_get_task_callback when dispatch_task returns NULL.
ServeNotFound(w) ==
    /\ listening
    /\ call = NoCall
    /\ w \in requests
    /\ tasks_queue_ = {}
    /\ replies' = [replies EXCEPT ![w] = NotFound]
    /\ requests' = requests \ {w}
    /\ UNCHANGED <<vars, listening, serving, workerVars, shown, undone, faultVars>>

\* The jobs as the other callbacks see them.
Jobs == [j \in DOMAIN jobs_ |-> [id |-> j, priority |-> jobs_[j].priority]]

\* Ids and bodies readers send: numbers that are no id, repeated and missing
\* keys, a command that exists and one that does not.
RequestedIds == 0..(MaxJobs + 1)
RequestBodies ==
    {<<>>,
     <<<<"id", "1">>, <<"command", "rese6">>>>,
     <<<<"command", "stop">>, <<"command", "reset">>>>}

\* Every other callback: none of them changes the farm.
ServePage(r) ==
    /\ listening
    /\ call = NoCall
    /\ r \in requests
    /\ requests' = requests \ {r}
    /\ shown' \in {shown \cup answer.shown :
                     answer \in Answers(Jobs, RequestedIds, RequestBodies)}
    /\ UNCHANGED <<vars, listening, serving, replies, workerVars, undone, faultVars>>

\* idle_function, at a lower priority than any request.
Idle(now) ==
    /\ listening
    /\ requests = {}
    /\ IdleHandler(now)
    /\ UNCHANGED <<httpVars, workerVars, shown, undone, faultVars>>

-----------------------------------------------------------------------------
(* Workers and other clients. *)

Ask(w) ==
    /\ workers[w] = "asking"
    /\ listening
    /\ requests' = requests \cup {w}
    /\ workers' = [workers EXCEPT ![w] = "waiting"]
    /\ UNCHANGED <<vars, listening, serving, replies, received, shown, undone, faultVars>>

\* Mutant: the worker does not stop when there is no task.
ReceiveAndRetry(w) ==
    /\ workers[w] = "waiting"
    /\ replies[w] # NoReply
    /\ replies' = [replies EXCEPT ![w] = NoReply]
    /\ IF replies[w].status = "200"
       THEN received' = [received EXCEPT ![replies[w].task] = @ + 1]
       ELSE UNCHANGED received
    /\ workers' = [workers EXCEPT ![w] = "asking"]
    /\ UNCHANGED <<vars, listening, requests, serving, shown, undone, faultVars>>

\* A task is counted and the next one asked for; without one, all is done.
Receive(w) ==
    /\ workers[w] = "waiting"
    /\ replies[w] # NoReply
    /\ replies' = [replies EXCEPT ![w] = NoReply]
    /\ IF replies[w].status = "200"
       THEN /\ received' = [received EXCEPT ![replies[w].task] = @ + 1]
            /\ workers' = [workers EXCEPT ![w] = "asking"]
       ELSE /\ workers' = [workers EXCEPT ![w] = "done"]
            /\ UNCHANGED received
    /\ UNCHANGED <<vars, listening, requests, serving, shown, undone, faultVars>>

\* The workers with a request or a reply on its way.
Connected == {w \in Workers : w \in requests \cup serving \/ replies[w] # NoReply}

\* Any other status, here of a connection that is refused or was lost.
Fail(w) ==
    /\ \/ workers[w] = "asking" /\ ~listening
       \/ workers[w] = "waiting" /\ w \notin Connected
    /\ workers' = [workers EXCEPT ![w] = "pausing"]
    /\ UNCHANGED <<vars, httpVars, received, shown, undone, faultVars>>

\* The end of the two seconds.
Wake(w) ==
    /\ workers[w] = "pausing"
    /\ workers' = [workers EXCEPT ![w] = "asking"]
    /\ UNCHANGED <<vars, httpVars, received, shown, undone, faultVars>>

Read(r) ==
    /\ listening
    /\ requests' = requests \cup {r}
    /\ UNCHANGED <<vars, listening, serving, replies, workerVars, shown, undone, faultVars>>

-----------------------------------------------------------------------------
(* Faults. *)

Fault ==
    /\ faults < MaxFaults
    /\ faults' = faults + 1
    /\ cut' = cut + Cardinality(Connected \ Connected')

\* The connection of a worker breaks: nobody can answer it any more.
Disconnected(w) ==
    /\ requests' = requests \ {w}
    /\ serving' = serving \ {w}
    /\ replies' = [replies EXCEPT ![w] = NoReply]
    /\ Fault
    /\ UNCHANGED <<vars, listening, received, shown, undone, outages>>

BreakConnection(w) ==
    /\ w \in Connected
    /\ Disconnected(w)
    /\ UNCHANGED workers

Die(w) ==
    /\ workers[w] \in {"asking", "waiting", "pausing"}
    /\ workers' = [workers EXCEPT ![w] = "dead"]
    /\ Disconnected(w)

\* With the server its connections are gone.  Replies that were sent arrive.
ServerGone ==
    /\ listening' = FALSE
    /\ requests' = {}
    /\ serving' = {}
    /\ \E sent \in SUBSET Workers :
         replies' = [w \in Workers |-> IF w \in sent THEN replies[w] ELSE NoReply]
    /\ Fault
    /\ outages' = outages + 1
    /\ UNCHANGED <<workerVars, shown>>

ServerCrash ==
    /\ Crash
    /\ ServerGone
    /\ undone' = [t \in TaskIds |-> IF t \in handed \ handed' THEN undone[t] + 1
                                                               ELSE undone[t]]

\* SIGINT while the main loop runs: stop_serve, then the end of main.
ServerShutdown(now) ==
    /\ listening
    /\ Shutdown(now)
    /\ ServerGone
    /\ UNCHANGED undone

-----------------------------------------------------------------------------

WorkerStep(w) == Ask(w) \/ Receive(w) \/ Fail(w) \/ Wake(w)

LoopStep ==
    \/ PopulateStep
    \/ Listen
    \/ \E w \in Workers, now \in Times : ServeGetTask(w, now)
    \/ ServeFound
    \/ \E w \in Workers : ServeNotFound(w)
    \/ \E r \in Readers : ServePage(r)
    \/ \E now \in Times : Idle(now)

ServerNext ==
    \/ ServerStart
    \/ \E now \in Times : Populate(now)
    \/ LoopStep
    \/ \E w \in Workers : WorkerStep(w)
    \/ \E r \in Readers : Read(r)
    \/ \E w \in Workers : BreakConnection(w)
    \/ \E w \in Workers : Die(w)
    \/ ServerCrash
    \/ \E now \in Times : ServerShutdown(now)

ServerSpec == ServerInit /\ [][ServerNext]_serverVars

ServeWorker(w) == (\E now \in Times : ServeGetTask(w, now)) \/ ServeNotFound(w)

\* Processes run: the loop goes on, workers too, and someone starts a server
\* that is down.  Each turn of the loop serves every request it has found, so
\* that no client can keep another one waiting.
Fairness ==
    /\ WF_serverVars(LoopStep)
    /\ WF_serverVars(ServerStart)
    /\ \A w \in Workers : WF_serverVars(WorkerStep(w)) /\ SF_serverVars(ServeWorker(w))

\* Clients leave pauses: when the loop finds no request again and again, it is
\* idle at some of these times.
CalmClients == SF_serverVars(\E now \in Times : Idle(now))

FairSpec == ServerSpec /\ Fairness
CalmSpec == FairSpec /\ CalmClients

-----------------------------------------------------------------------------
(* Properties. *)

InFlight(t) == \E w \in Workers : replies[w] = Found(t)

\* serve_get_task_callback gives a task to one worker, and to that one once,
\* but for each time that a crash undid the dispatch in between.
ReceivedOnce ==
    \A t \in TaskIds : received[t] <= 1 + undone[t]

\* The tasks in a set that no worker has received, nor is about to.
Missed(tasks) == {t \in tasks : received[t] = 0 /\ ~InFlight(t)}

\* A dispatched task that nobody receives is lost, for dispatch_task does not
\* return it again.  It takes a fault to lose one, and a fault loses at most one
\* for each request or reply of a worker that it takes away.
LossIsBounded == Cardinality(Missed(handed)) <= cut

\* "All done!", as long as the server stays up: once a worker says so, every
\* task there is was received or is about to be, but for one at most for each
\* request or reply that got lost with a worker or its connection.  No task is
\* left to be dispatched.
AllDoneIsTrue ==
    outages = 0 /\ (\E w \in Workers : workers[w] = "done") =>
        Cardinality(Missed(DOMAIN storage_.db.tasks)) <= cut

\* What a reader has seen of a job stays true: whichever server process listens,
\* the details page of its id shows the same job, unless this process could not
\* read its row.  Ids are those of rows, which a crash before the commit would
\* give to another job.
ShownJobsStay ==
    listening =>
        \A json \in shown :
            JobDetails(Jobs, json.id) =
                IF json.id \in unread.jobs THEN Refused(Missing)
                                           ELSE Answer(OK, {json})

\* Every worker comes to an end: servers that went away come back, and the
\* tasks run out.
WorkersEnd ==
    \A w \in Workers : <>(workers[w] \in {"done", "dead"})

\* Every dispatch reaches the file, unless a crash undoes it: idle_function is
\* called when there is something to commit.
DispatchesAreCommitted ==
    \A t \in TaskIds :
        t \in handed ~>
            \/ t \notin handed
            \/ /\ t \in DOMAIN storage_.disk.tasks
               /\ storage_.disk.tasks[t].status = "ACTIVE"

=============================================================================
