-------------------------- MODULE ServerLifeProofs --------------------------
(***************************************************************************)
(* What the life of a server process, with SIGINT at any place of main,    *)
(* means to the farm and to its clients: no more than a shutdown or a      *)
(* crash, no lost dispatch after an orderly end, no socket without a loop. *)
(***************************************************************************)
EXTENDS ServerLife, FarmProofs

-----------------------------------------------------------------------------
(* Each step is a step of the farm, or leaves it alone. *)

LEMMA AbortIsFarmStep ==
    Abort => Crash \/ UNCHANGED vars
BY DEF Abort

LEMMA MainStepIsFarmStep ==
    MainStep => [Next]_vars
<1>1. UntimedNext => Next
  BY DEF Next
<1>2. \A now \in Times : TimedNext(now) => Next
  BY DEF Next
<1>3. Restore \/ RequestEnd => UntimedNext
  BY DEF Restore, RequestEnd, UntimedNext
<1>4. ASSUME NEW now \in Times, CreateJobs(now)
      PROVE  TimedNext(now) \/ UntimedNext
  BY <1>4 DEF CreateJobs, TimedNext, UntimedNext
<1>5. ASSUME NEW now \in Times, Request(now) \/ Idle(now) \/ StoreAndDisconnect(now)
      PROVE  TimedNext(now)
  BY <1>5 DEF Request, Idle, StoreAndDisconnect, TimedNext
<1>6. Construct \/ Listen \/ NewLoop \/ Run \/ WakeUp \/ LoopExit
        \/ DeleteServer \/ Return => UNCHANGED vars
  BY DEF Construct, Listen, NewLoop, Run, WakeUp, LoopExit, DeleteServer, Return
<1> QED
  BY <1>1, <1>2, <1>3, <1>4, <1>5, <1>6 DEF MainStep

LEMMA LifeStepIsFarmStep ==
    [LifeNext]_lifeVars => [Next]_vars
<1> SUFFICES ASSUME [LifeNext]_lifeVars PROVE [Next]_vars
  OBVIOUS
<1>1. UNCHANGED lifeVars => UNCHANGED vars
  BY DEF lifeVars
<1>2. Launch \/ StopServe \/ SelfDeadlock => UNCHANGED vars
  BY DEF Launch, StopServe, SelfDeadlock
<1>3. StopNoServer \/ Kill => Crash \/ UNCHANGED vars
  BY AbortIsFarmStep DEF StopNoServer, Kill
<1>4. Crash => Next
  BY DEF Next, UntimedNext
<1> QED
  BY <1>1, <1>2, <1>3, <1>4, MainStepIsFarmStep DEF LifeNext, SignalStep

\* SIGINT at any place of main, the death of the process in its handler and
\* a handler that never returns are to the farm a shutdown, a crash or nothing.
LEMMA LifeImplementsFarm == LifeSpec => Spec
<1>1. LifeInit => Init
  BY DEF LifeInit
<1> QED
  BY <1>1, LifeStepIsFarmStep, PTL DEF LifeSpec, Spec

-----------------------------------------------------------------------------
(* Where main is, and what that says of the farm and of the sockets. *)

InLoop == {"iterate", "request", "sleep"}
AfterLoop == {"store", "delete_server", "delete_farm"}

FarmIsDown ==
    pc \in {"none", "connect", "delete_server", "delete_farm"} => phase = "down"

\* Only the handler makes a loop that ran a stopped one, and it closes the
\* sockets too.
StoppedLoopIsDeaf ==
    /\ pc \in InLoop /\ main_loop_ = "stopped" => ~listening
    /\ pc \in AfterLoop => ~listening

LifeInv == FarmIsDown /\ StoppedLoopIsDeaf

LEMMA AbortLifeInv ==
    ASSUME TypeOK, Abort
    PROVE  LifeInv'
<1>1. phase' = "down"
  BY DEF TypeOK, Abort, Crash, Exit, vars
<1>2. pc' = "none"
  BY DEF Abort, NoProcess
<1> QED
  BY <1>1, <1>2 DEF LifeInv, FarmIsDown, StoppedLoopIsDeaf, InLoop, AfterLoop

LEMMA MainStepLifeInv ==
    ASSUME TypeOK, LifeInv, MainStep
    PROVE  LifeInv'
<1> USE DEF LifeInv, FarmIsDown, StoppedLoopIsDeaf, InLoop, AfterLoop, Go, vars
<1>1. CASE Restore
  BY <1>1 DEF Restore
<1>2. ASSUME NEW now \in Times, CreateJobs(now) PROVE LifeInv'
  BY <1>2 DEF CreateJobs, mainVars
<1>3. CASE Construct \/ Listen \/ NewLoop
  BY <1>3 DEF Construct, Listen, NewLoop
<1>4. CASE Run
  BY <1>4 DEF Run
<1>5. ASSUME NEW now \in Times, Request(now) \/ Idle(now) PROVE LifeInv'
  BY <1>5 DEF Request, Idle
<1>6. CASE RequestEnd \/ WakeUp
  BY <1>6 DEF RequestEnd, WakeUp
<1>7. CASE LoopExit
  BY <1>7 DEF LoopExit
<1>8. ASSUME NEW now \in Times, StoreAndDisconnect(now) PROVE LifeInv'
  BY <1>8 DEF StoreAndDisconnect, Shutdown, Exit
<1>9. CASE DeleteServer
  BY <1>9 DEF DeleteServer
<1>10. CASE Return
  BY <1>10 DEF Return, NoProcess
<1> QED
  BY <1>1, <1>2, <1>3, <1>4, <1>5, <1>6, <1>7, <1>8, <1>9, <1>10 DEF MainStep

LEMMA LifeStepLifeInv ==
    ASSUME TypeOK, LifeInv, [LifeNext]_lifeVars
    PROVE  LifeInv'
<1> USE DEF LifeInv, FarmIsDown, StoppedLoopIsDeaf, InLoop, AfterLoop
<1>1. CASE Launch
  BY <1>1 DEF Launch, Go, vars
<1>2. CASE MainStep
  BY <1>2, MainStepLifeInv
<1>3. CASE StopServe
  BY <1>3 DEF StopServe, vars
<1>4. CASE StopNoServer
  <2>1. CASE Abort
    BY <2>1, AbortLifeInv
  <2>2. CASE UNCHANGED <<vars, mainVars>>
    BY <2>2 DEF vars, mainVars
  <2> QED
    BY <1>4, <2>1, <2>2 DEF StopNoServer
<1>5. CASE SelfDeadlock
  BY <1>5 DEF SelfDeadlock, vars
<1>6. CASE Kill
  BY <1>6, AbortLifeInv DEF Kill
<1>7. CASE UNCHANGED lifeVars
  BY <1>7 DEF lifeVars, mainVars, vars
<1> QED
  BY <1>1, <1>2, <1>3, <1>4, <1>5, <1>6, <1>7 DEF LifeNext, SignalStep

LEMMA LifeInvInvariant == LifeSpec => [](IInv /\ LifeInv)
<1>1. LifeInit => LifeInv
  BY DEF LifeInit, Init, LifeInv, FarmIsDown, StoppedLoopIsDeaf, InLoop, AfterLoop
<1>2. IInv => TypeOK
  BY DEF IInv
<1>3. LifeSpec => []IInv
  BY LifeImplementsFarm, IInvInvariant, PTL
<1> QED
  BY <1>1, <1>2, <1>3, LifeStepLifeInv, PTL DEF LifeSpec

\* No client connects to a server whose main loop has ended.
THEOREM SocketsNeedTheLoop == LifeSpec => []NoSocketWithoutLoop
<1>1. LifeInv => NoSocketWithoutLoop
  BY DEF LifeInv, StoppedLoopIsDeaf, AfterLoop, NoSocketWithoutLoop
<1> QED
  BY <1>1, LifeInvInvariant, PTL

\* After an orderly end every dispatch is in the file, wherever in a call of
\* the farm the signal came.
THEOREM OrderlyEndIsDurable == LifeSpec => []OrderlyEndLosesNothing
<1>1. IInv /\ LifeInv /\ HandedIsDurable => OrderlyEndLosesNothing
  <2> SUFFICES ASSUME IInv, LifeInv, HandedIsDurable,
                      pc \in {"delete_server", "delete_farm"}
               PROVE  \A t \in handed :
                        /\ t \in DOMAIN storage_.disk.tasks
                        /\ storage_.disk.tasks[t].status = "ACTIVE"
    BY DEF OrderlyEndLosesNothing
  <2>1. phase = "down"
    BY DEF LifeInv, FarmIsDown
  <2>2. ~storage_.has_open_transaction
    BY <2>1 DEF IInv, TransactionDiscipline, Consistent
  <2> QED
    BY <2>2 DEF HandedIsDurable
<1>2. LifeSpec => []HandedIsDurable
  BY LifeImplementsFarm, HandedSurvive, PTL
<1> QED
  BY <1>1, <1>2, LifeInvInvariant, PTL

-----------------------------------------------------------------------------
(* The variables of main and of its handler. *)

MainTypeOK ==
    /\ pc \in Places \cup {"none", "stuck"}
    /\ http_server \in {"null", "live", "deleted"}
    /\ main_loop_ \in {"null", "stopped", "running"}
    /\ listening \in BOOLEAN

SignalTypeOK ==
    /\ signals \in 0..MaxSignals
    /\ stopping \subseteq Places
    /\ wild \in BOOLEAN

\* The global pointer is good from the construction to the deletion.
PointerInv == pc \in ServerPlaces => http_server = "live"

LEMMA MainStepPointer ==
    ASSUME MainTypeOK, PointerInv, MainStep
    PROVE  MainTypeOK' /\ PointerInv' /\ UNCHANGED signalVars
<1> DEFINE Goal == MainTypeOK' /\ PointerInv' /\ UNCHANGED signalVars
<1> USE DEF MainTypeOK, PointerInv, ServerPlaces, Places, Go
<1>1. Restore => Goal
  BY DEF Restore
<1>2. ASSUME NEW now \in Times, CreateJobs(now) PROVE Goal
  BY <1>2 DEF CreateJobs, mainVars
<1>3. Construct => Goal
  BY DEF Construct
<1>4. Listen => Goal
  BY DEF Listen
<1>5. NewLoop => Goal
  BY DEF NewLoop
<1>6. Run => Goal
  BY DEF Run
<1>7. ASSUME NEW now \in Times, Request(now) PROVE Goal
  BY <1>7 DEF Request
<1>8. RequestEnd => Goal
  BY DEF RequestEnd
<1>9. ASSUME NEW now \in Times, Idle(now) PROVE Goal
  BY <1>9 DEF Idle
<1>10. WakeUp => Goal
  BY DEF WakeUp
<1>11. LoopExit => Goal
  BY DEF LoopExit
<1>12. ASSUME NEW now \in Times, StoreAndDisconnect(now) PROVE Goal
  BY <1>12 DEF StoreAndDisconnect
<1>13. DeleteServer => Goal
  BY DEF DeleteServer
<1>14. Return => Goal
  BY DEF Return, NoProcess
<1> HIDE DEF Goal
<1>15. Goal
  BY <1>1, <1>2, <1>3, <1>4, <1>5, <1>6, <1>7, <1>8, <1>9, <1>10, <1>11, <1>12, <1>13,
     <1>14 DEF MainStep
<1> QED
  BY <1>15 DEF Goal

LEMMA InterruptedSignals ==
    ASSUME SignalTypeOK, Interrupted
    PROVE  /\ signals' \in 0..MaxSignals
           /\ stopping' \subseteq Places
           /\ stopping' \subseteq ServerPlaces =>
                stopping \subseteq ServerPlaces /\ pc \in ServerPlaces
BY LifeAssumption DEF SignalTypeOK, Interrupted

HandlerInv == MainTypeOK /\ SignalTypeOK /\ PointerInv /\ WildOnlyWithoutServer

LEMMA NoProcessPointer ==
    ASSUME NoProcess
    PROVE  MainTypeOK' /\ PointerInv'
BY DEF NoProcess, MainTypeOK, PointerInv, ServerPlaces, Places

LEMMA LifeStepHandler ==
    ASSUME HandlerInv, [LifeNext]_lifeVars
    PROVE  HandlerInv'
<1>1. ASSUME UNCHANGED signalVars PROVE SignalTypeOK' /\ WildOnlyWithoutServer'
  BY <1>1 DEF HandlerInv, SignalTypeOK, WildOnlyWithoutServer, signalVars
<1>2. CASE Launch
  <2>1. MainTypeOK' /\ PointerInv'
    BY <1>2 DEF Launch, Go, HandlerInv, MainTypeOK, PointerInv, ServerPlaces, Places
  <2>2. SignalTypeOK' /\ WildOnlyWithoutServer'
    BY <1>2 DEF Launch, HandlerInv, SignalTypeOK, WildOnlyWithoutServer
  <2> QED
    BY <2>1, <2>2 DEF HandlerInv
<1>3. CASE MainStep
  BY <1>1, <1>3, MainStepPointer DEF HandlerInv
<1>4. CASE SignalStep
  <2>1. Interrupted
    BY <1>4 DEF SignalStep, StopServe, StopNoServer, SelfDeadlock
  <2>2. wild' = wild \/ (wild' = TRUE /\ http_server # "live")
    BY <1>4, Zenon DEF SignalStep, StopServe, StopNoServer, SelfDeadlock
  <2>3. SignalTypeOK' /\ WildOnlyWithoutServer'
    <3>1. wild' \in BOOLEAN
      BY <2>2, Zenon DEF HandlerInv, SignalTypeOK
    <3>2. CASE wild' = wild
      BY <2>1, <3>1, <3>2, InterruptedSignals
      DEF HandlerInv, SignalTypeOK, WildOnlyWithoutServer
    <3>3. CASE http_server # "live"
      BY <2>1, <3>1, <3>3, InterruptedSignals
      DEF HandlerInv, PointerInv, SignalTypeOK, WildOnlyWithoutServer
    <3> QED
      BY <2>2, <3>2, <3>3
  <2>4. MainTypeOK' /\ PointerInv'
    <3>1. CASE NoProcess
      BY <3>1, NoProcessPointer
    <3>2. CASE ~NoProcess
      <4>1. pc' = pc \/ pc' = "stuck"
        BY <1>4, <3>2 DEF SignalStep, StopServe, StopNoServer, SelfDeadlock, Abort,
                          mainVars
      <4>2. /\ http_server' = http_server /\ listening' \in BOOLEAN
            /\ main_loop_' \in {"null", "stopped", "running"}
        BY <1>4, <3>2 DEF SignalStep, StopServe, StopNoServer, SelfDeadlock, Abort,
                          mainVars, HandlerInv, MainTypeOK
      <4> QED
        BY <4>1, <4>2 DEF HandlerInv, MainTypeOK, PointerInv, ServerPlaces, Places
    <3> QED
      BY <3>1, <3>2
  <2> QED
    BY <2>3, <2>4 DEF HandlerInv
<1>5. CASE Kill
  BY <1>1, <1>5, NoProcessPointer DEF Kill, Abort, HandlerInv
<1>6. CASE UNCHANGED lifeVars
  BY <1>6 DEF lifeVars, mainVars, signalVars, HandlerInv, MainTypeOK, SignalTypeOK,
              PointerInv, WildOnlyWithoutServer
<1> QED
  BY <1>2, <1>3, <1>4, <1>5, <1>6 DEF LifeNext

LEMMA HandlerInvariant == LifeSpec => []HandlerInv
<1>1. LifeInit => HandlerInv
  <2> SUFFICES ASSUME LifeInit PROVE HandlerInv
    OBVIOUS
  <2>1. MainTypeOK /\ PointerInv
    BY DEF LifeInit, MainTypeOK, PointerInv, ServerPlaces, Places
  <2>2. signals \in 0..MaxSignals
    BY LifeAssumption DEF LifeInit
  <2>3. stopping \subseteq Places /\ wild = FALSE
    BY DEF LifeInit
  <2> QED
    BY <2>1, <2>2, <2>3 DEF HandlerInv, SignalTypeOK, WildOnlyWithoutServer
<1> QED
  BY <1>1, LifeStepHandler, PTL DEF LifeSpec

\* main, its handler and the farm stay in the states the model is about.
THEOREM LifeTypeCorrect == LifeSpec => []LifeTypeOK
<1>1. HandlerInv /\ TypeOK => LifeTypeOK
  BY DEF HandlerInv, MainTypeOK, SignalTypeOK, LifeTypeOK
<1>2. LifeSpec => []TypeOK
  BY LifeImplementsFarm, TypeCorrect, PTL
<1> QED
  BY <1>1, <1>2, HandlerInvariant, PTL

\* As long as signals come while there is a server, however many come, the
\* handler calls stop_serve of that server.
THEOREM HandlerFindsServer == LifeSpec => []WildOnlyWithoutServer
<1>1. HandlerInv => WildOnlyWithoutServer
  BY DEF HandlerInv
<1> QED
  BY <1>1, HandlerInvariant, PTL

=============================================================================
