----------------------------- MODULE ServerLife -----------------------------
(***************************************************************************)
(* The life of a server process: main, statement by statement where it     *)
(* matters, and the handler of SIGINT, which interrupts it anywhere.       *)
(*                                                                         *)
(* The handler runs on the thread it interrupts, so main does not move     *)
(* meanwhile.  It follows a global pointer that main sets late and never   *)
(* resets, and calls functions of glog, glib and libsoup that take locks:  *)
(* where main may hold one of them, the handler may wait for it forever.   *)
(***************************************************************************)
EXTENDS Farm

CONSTANTS
    SignalsAt,   \* the places of main at which SIGINT may arrive
    MaxSignals   \* bound: the number of SIGINTs

VARIABLES
    pc,           \* where main is; "none" when there is no process
    http_server,  \* what the global pointer is worth
    main_loop_,   \* the main loop: whether it exists and its is_running
    listening,    \* the server has listening sockets
    signals,      \* how many SIGINTs there were
    stopping,     \* history: the places at which this process took SIGINT
    wild          \* history: its handler followed a pointer to no server

mainVars == <<pc, http_server, main_loop_, listening>>
signalVars == <<signals, stopping, wild>>
lifeVars == <<vars, mainVars, signalVars>>

\* "sleep" is util_time_sleep in idle_function: the only place of the main
\* loop, and of main, where no lock is held.
Places == {"connect", "create_jobs", "listen", "new_loop", "run", "iterate",
           "request", "sleep", "store", "delete_server", "delete_farm"}

ASSUME LifeAssumption == SignalsAt \subseteq Places /\ MaxSignals \in Nat

LifeTypeOK ==
    /\ TypeOK
    /\ pc \in Places \cup {"none", "stuck"}
    /\ http_server \in {"null", "live", "deleted"}
    /\ main_loop_ \in {"null", "stopped", "running"}
    /\ listening \in BOOLEAN
    /\ signals \in 0..MaxSignals
    /\ stopping \subseteq Places
    /\ wild \in BOOLEAN

NoProcess ==
    /\ pc' = "none"
    /\ http_server' = "null"
    /\ main_loop_' = "null"
    /\ listening' = FALSE

LifeInit ==
    /\ Init
    /\ pc = "none"
    /\ http_server = "null"
    /\ main_loop_ = "null"
    /\ listening = FALSE
    /\ signals = 0
    /\ stopping = {}
    /\ wild = FALSE

-----------------------------------------------------------------------------
(* main. *)

Go(from, to) == pc = from /\ pc' = to

\* From here on SIGINT has its handler.
Launch ==
    /\ Go("none", "connect")
    /\ stopping' = {}
    /\ wild' = FALSE
    /\ UNCHANGED <<vars, http_server, main_loop_, listening, signals>>

Restore ==
    /\ Go("connect", "create_jobs")
    /\ Start
    /\ UNCHANGED <<http_server, main_loop_, listening, signalVars>>

CreateJobs(now) ==
    /\ pc = "create_jobs"
    /\ \/ \E priority \in JobPriorities, status \in InsertStatuses :
            InsertJob(priority, status, now)
       \/ InsertTask
       \/ InsertReturn
    /\ UNCHANGED <<mainVars, signalVars>>

\* Mutant: the new server is kept in a local variable.
ConstructLocally ==
    /\ Go("create_jobs", "listen")
    /\ call = NoCall
    /\ UNCHANGED <<vars, http_server, main_loop_, listening, signalVars>>

Construct ==
    /\ Go("create_jobs", "listen")
    /\ call = NoCall
    /\ http_server' = "live"
    /\ UNCHANGED <<vars, main_loop_, listening, signalVars>>

\* start_serve: soup_server_listen_all, which may fail unnoticed ...
Listen ==
    /\ Go("listen", "new_loop")
    /\ listening' \in BOOLEAN
    /\ UNCHANGED <<vars, http_server, main_loop_, signalVars>>

\* ... g_main_loop_new ...
NewLoop ==
    /\ Go("new_loop", "run")
    /\ main_loop_' = "stopped"
    /\ UNCHANGED <<vars, http_server, listening, signalVars>>

\* ... and g_main_loop_run, which starts by setting is_running.
Run ==
    /\ Go("run", "iterate")
    /\ main_loop_' = "running"
    /\ UNCHANGED <<vars, http_server, listening, signalVars>>

Request(now) ==
    /\ Go("iterate", "request")
    /\ main_loop_ = "running"
    /\ listening
    /\ \E t \in tasks_queue_ : DispatchTask(t, now)
    /\ UNCHANGED <<http_server, main_loop_, listening, signalVars>>

RequestEnd ==
    /\ Go("request", "iterate")
    /\ DispatchReturn
    /\ UNCHANGED <<http_server, main_loop_, listening, signalVars>>

Idle(now) ==
    /\ Go("iterate", "sleep")
    /\ main_loop_ = "running"
    /\ IdleHandler(now)
    /\ UNCHANGED <<http_server, main_loop_, listening, signalVars>>

WakeUp ==
    /\ Go("sleep", "iterate")
    /\ UNCHANGED <<vars, http_server, main_loop_, listening, signalVars>>

LoopExit ==
    /\ Go("iterate", "store")
    /\ main_loop_ = "stopped"
    /\ UNCHANGED <<vars, http_server, main_loop_, listening, signalVars>>

StoreAndDisconnect(now) ==
    /\ Go("store", "delete_server")
    /\ Shutdown(now)
    /\ UNCHANGED <<http_server, main_loop_, listening, signalVars>>

\* delete http_server: the global pointer stays as it is.
DeleteServer ==
    /\ Go("delete_server", "delete_farm")
    /\ http_server' = "deleted"
    /\ main_loop_' = "null"
    /\ UNCHANGED <<vars, listening, signalVars>>

Return ==
    /\ pc = "delete_farm"
    /\ NoProcess
    /\ UNCHANGED <<vars, signalVars>>

-----------------------------------------------------------------------------
(* SIGINT, and the end of a process by other means. *)

\* The process is gone, whether or not it is connected to the storage.
Abort ==
    /\ IF phase = "up" THEN Crash ELSE UNCHANGED vars
    /\ NoProcess

Interrupted ==
    /\ pc \in SignalsAt
    /\ signals < MaxSignals
    /\ signals' = signals + 1
    /\ stopping' = stopping \cup {pc}

\* Mutants: the loop is not told to quit, the sockets are left open.
StopServeWithoutQuit ==
    /\ Interrupted
    /\ http_server = "live"
    /\ listening' = FALSE
    /\ UNCHANGED <<vars, pc, http_server, main_loop_, wild>>

StopServeListening ==
    /\ Interrupted
    /\ http_server = "live"
    /\ main_loop_' = IF main_loop_ = "running" THEN "stopped" ELSE main_loop_
    /\ UNCHANGED <<vars, pc, http_server, listening, wild>>

\* g_main_loop_quit refuses a loop that does not exist, and on one that does
\* not run yet it has no effect.
StopServe ==
    /\ Interrupted
    /\ http_server = "live"
    /\ main_loop_' = IF main_loop_ = "running" THEN "stopped" ELSE main_loop_
    /\ listening' = FALSE
    /\ UNCHANGED <<vars, pc, http_server, wild>>

\* A virtual call through the null pointer ends the process.  One through the
\* dangling pointer may do that, or by luck nothing.
StopNoServer ==
    /\ Interrupted
    /\ http_server # "live"
    /\ wild' = TRUE
    /\ \/ Abort
       \/ http_server = "deleted" /\ UNCHANGED <<vars, mainVars>>

\* The handler waits for a lock of the code it interrupted.
SelfDeadlock ==
    /\ Interrupted
    /\ pc # "sleep"
    /\ pc' = "stuck"
    /\ UNCHANGED <<vars, http_server, main_loop_, listening, wild>>

Kill ==
    /\ pc # "none"
    /\ Abort
    /\ UNCHANGED signalVars

-----------------------------------------------------------------------------

MainStep ==
    \/ Restore
    \/ \E now \in Times : CreateJobs(now)
    \/ Construct
    \/ Listen
    \/ NewLoop
    \/ Run
    \/ \E now \in Times : Request(now)
    \/ RequestEnd
    \/ \E now \in Times : Idle(now)
    \/ WakeUp
    \/ LoopExit
    \/ \E now \in Times : StoreAndDisconnect(now)
    \/ DeleteServer
    \/ Return

SignalStep == StopServe \/ StopNoServer \/ SelfDeadlock

LifeNext == Launch \/ MainStep \/ SignalStep \/ Kill

LifeSpec == LifeInit /\ [][LifeNext]_lifeVars

\* The thread of main is scheduled; nobody has to launch or kill a server.
FairLifeSpec == LifeSpec /\ WF_lifeVars(MainStep)

-----------------------------------------------------------------------------
(* Properties. *)

\* "Performing shutdown sequence...": a process that took SIGINT while its main
\* loop ran, be it in the middle of a request, comes to its end, whatever other
\* signals it took before or later, unless a handler does not return.
StopIsObeyed ==
    stopping \cap {"iterate", "request", "sleep"} # {} /\ pc # "none"
        ~> pc \in {"none", "stuck"}

\* "Stop serving HTTP.": a process whose stop_serve was called ends, unless
\* the call does not return.
StopIsNotLost == stopping # {} /\ pc # "none" ~> pc \in {"none", "stuck"}

\* The places at which the global pointer is good for a call.
ServerPlaces == Places \ {"connect", "create_jobs", "delete_farm"}

\* The handler finds a server to stop: signal_quit calls stop_serve neither
\* before there is one nor after its deletion.
NoWildCall == ~wild

\* ... at least when no signal came before start_serve or after the delete.
WildOnlyWithoutServer == stopping \subseteq ServerPlaces => ~wild

\* An orderly end leaves no dispatch behind, wherever in a call the signal
\* came, and however many came.
OrderlyEndLosesNothing ==
    pc \in {"delete_server", "delete_farm"} =>
        \A t \in handed :
            /\ t \in DOMAIN storage_.disk.tasks
            /\ storage_.disk.tasks[t].status = "ACTIVE"

\* Once main has left its loop no socket listens any more: clients are refused
\* rather than left waiting for a loop that is gone.
NoSocketWithoutLoop ==
    pc \in {"store", "delete_server", "delete_farm"} => ~listening

=============================================================================
