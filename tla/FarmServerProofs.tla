-------------------------- MODULE FarmServerProofs --------------------------
(***************************************************************************)
(* The farm behind its HTTP server is the farm: each step of FarmServer is *)
(* a step of Farm or leaves it alone, so that what is proved of Farm holds *)
(* whatever workers, readers, the network and the main loop do.  What can  *)
(* get lost between the server and its workers is bounded: faults lose at  *)
(* most one task for each request or reply they take away, and while the   *)
(* server stays up the worker that says "All done!" is right.              *)
(***************************************************************************)
EXTENDS FarmServer, FarmRecoveryProofs, FiniteSetTheorems

\* Steps of clients and of the network do not touch the farm.
LEMMA ClientsLeaveTheFarm ==
    ASSUME \/ \E w \in Workers : WorkerStep(w) \/ BreakConnection(w) \/ Die(w)
           \/ \E w \in Workers : ServeNotFound(w)
           \/ \E r \in Readers : Read(r) \/ ServePage(r)
           \/ Listen
    PROVE  UNCHANGED vars
<1>1. ASSUME NEW w \in Workers, WorkerStep(w) PROVE UNCHANGED vars
  BY <1>1 DEF WorkerStep, Ask, Receive, Fail, Wake
<1>2. ASSUME NEW w \in Workers, BreakConnection(w) \/ Die(w) PROVE UNCHANGED vars
  BY <1>2 DEF BreakConnection, Die, Disconnected
<1>3. ASSUME NEW w \in Workers, ServeNotFound(w) PROVE UNCHANGED vars
  BY <1>3 DEF ServeNotFound
<1>4. ASSUME NEW r \in Readers, Read(r) \/ ServePage(r) PROVE UNCHANGED vars
  BY <1>4 DEF Read, ServePage
<1>5. Listen => UNCHANGED vars
  BY DEF Listen
<1> QED
  BY <1>1, <1>2, <1>3, <1>4, <1>5

\* The steps of the server that call the farm make exactly one of its steps.
LEMMA ServerCallsTheFarm ==
    /\ ServerStart => Next
    /\ \A now \in Times : Populate(now) => Next
    /\ PopulateStep => Next
    /\ \A w \in Workers, now \in Times : ServeGetTask(w, now) => Next
    /\ ServeFound => Next
    /\ \A now \in Times : Idle(now) => Next
    /\ ServerCrash => Next
    /\ \A now \in Times : ServerShutdown(now) => Next
<1>1. UntimedNext => Next
  BY DEF Next
<1>2. \A now \in Times : TimedNext(now) => Next
  BY DEF Next
<1>3. /\ ServerStart => UntimedNext
      /\ PopulateStep => UntimedNext
      /\ ServeFound => UntimedNext
      /\ ServerCrash => UntimedNext
  BY DEF ServerStart, PopulateStep, ServeFound, ServerCrash, UntimedNext
<1>4. \A now \in Times :
        /\ Populate(now) => TimedNext(now)
        /\ \A w \in Workers : ServeGetTask(w, now) => TimedNext(now)
        /\ Idle(now) => TimedNext(now)
        /\ ServerShutdown(now) => TimedNext(now)
  BY DEF Populate, ServeGetTask, Idle, ServerShutdown, TimedNext
<1> QED
  BY <1>1, <1>2, <1>3, <1>4

LEMMA ServerStepIsFarmStep ==
    [ServerNext]_serverVars => [Next]_vars
<1> SUFFICES ASSUME [ServerNext]_serverVars PROVE [Next]_vars
  OBVIOUS
<1>1. UNCHANGED serverVars => UNCHANGED vars
  BY DEF serverVars
<1>2. LoopStep => [Next]_vars
  BY ClientsLeaveTheFarm, ServerCallsTheFarm DEF LoopStep
<1> QED
  BY <1>1, <1>2, ClientsLeaveTheFarm, ServerCallsTheFarm DEF ServerNext

\* The server, with any number of clients and any faults of theirs, of the
\* network and of its own, implements the specification of the farm.
LEMMA ServerImplementsFarm == ServerSpec => Spec
<1>1. ServerInit => Init
  BY DEF ServerInit
<1> QED
  BY <1>1, ServerStepIsFarmStep, PTL DEF ServerSpec, Spec

\* No two requests are answered with the same task, unless a crash undid its
\* dispatch in between.
THEOREM ServerHandsOnce == ServerSpec => []HandedOnce
  BY ServerImplementsFarm, NoTaskTwice, PTL

-----------------------------------------------------------------------------
(* What readers were shown. *)

\* The main loop runs only while no job is being inserted, and what it has
\* shown of a job is in the file.
ShownInv ==
    /\ listening => phase = "up" /\ call.op # "insert"
    /\ \A json \in shown :
         /\ json.id \in DOMAIN storage_.disk.jobs
         /\ json = [id |-> json.id,
                    priority |-> storage_.disk.jobs[json.id].priority,
                    status |-> "waiting"]

\* Only the pages about jobs show any, and those only jobs of the farm.
LEMMA PagesShowJobs ==
    ASSUME NEW ids, NEW bodies, NEW answer \in Answers(Jobs, ids, bodies),
           NEW json \in answer.shown
    PROVE  \E j \in DOMAIN jobs_ :
             json = [id |-> j, priority |-> jobs_[j].priority, status |-> "waiting"]
<1>1. \A j \in DOMAIN Jobs :
        /\ j \in DOMAIN jobs_
        /\ JobJson(Jobs[j]) = [id |-> j, priority |-> jobs_[j].priority,
                               status |-> "waiting"]
  BY DEF Jobs, JobJson
<1>2. \/ answer.shown = {}
      \/ answer = JobsList(Jobs)
      \/ \E id \in ids : answer = JobDetails(Jobs, id)
  BY DEF Answers, JobsCallback, JobCommand, JobsDeleteCallback, StaticCallback,
         PerformFileServe, WelcomeCallback, OtherAnswers, Refused, Answer
<1>3. ASSUME answer = JobsList(Jobs)
      PROVE  \E j \in DOMAIN Jobs : json = JobJson(Jobs[j])
  BY <1>3 DEF JobsList, Answer
<1>4. ASSUME NEW id, answer = JobDetails(Jobs, id)
      PROVE  \E j \in DOMAIN Jobs : json = JobJson(Jobs[j])
  BY <1>4 DEF JobDetails, JobById, Refused, Answer
<1> QED
  BY <1>1, <1>2, <1>3, <1>4

\* Each step of the server keeps both parts.
LEMMA NextShown ==
    ASSUME IInv, IInv', JobsInv, ShownInv, [ServerNext]_serverVars
    PROVE  ShownInv'
<1>1. [Next]_vars
  BY ServerStepIsFarmStep
<1>2. Remembers(storage_.disk, storage_'.disk)
  BY <1>1, FileRemembers
<1>3. listening' => phase' = "up" /\ call'.op # "insert"
  <2>1. CASE UNCHANGED serverVars
    BY <2>1 DEF serverVars, vars, httpVars, ShownInv
  <2>2. CASE listening' = FALSE
    BY <2>2
  <2>3. CASE UNCHANGED <<vars, listening>>
    BY <2>3 DEF ShownInv, vars
  <2>4. CASE ServerStart
    BY <2>4 DEF ServerStart, Start, httpVars, ShownInv
  <2>5. ASSUME NEW now \in Times, Populate(now) PROVE listening' = listening /\ ~listening
    BY <2>5 DEF Populate, httpVars
  <2>6. CASE PopulateStep
    BY <2>6 DEF PopulateStep, InsertTask, InsertReturn, httpVars, ShownInv
  <2>7. CASE Listen
    BY <2>7 DEF Listen, vars, NoCall
  <2>8. ASSUME NEW w \in Workers, NEW now \in Times, ServeGetTask(w, now)
        PROVE  phase' = "up" /\ call'.op # "insert"
    BY <2>8 DEF ServeGetTask, DispatchTask
  <2>9. CASE ServeFound
    BY <2>9 DEF ServeFound, DispatchReturn, NoCall, ShownInv
  <2>10. ASSUME NEW w \in Workers, ServeNotFound(w) PROVE UNCHANGED <<vars, listening>>
    BY <2>10 DEF ServeNotFound
  <2>11. ASSUME NEW r \in Readers, ServePage(r) \/ Read(r) PROVE UNCHANGED <<vars, listening>>
    BY <2>11 DEF ServePage, Read
  <2>12. ASSUME NEW now \in Times, Idle(now) PROVE phase' = "up" /\ call'.op # "insert"
    BY <2>12 DEF Idle, IdleHandler, NoCall
  <2>13. ASSUME NEW w \in Workers, WorkerStep(w) PROVE UNCHANGED <<vars, listening>>
    BY <2>13 DEF WorkerStep, Ask, Receive, Fail, Wake, httpVars
  <2>14. ASSUME NEW w \in Workers, BreakConnection(w) \/ Die(w)
         PROVE  UNCHANGED <<vars, listening>>
    BY <2>14 DEF BreakConnection, Die, Disconnected
  <2>15. ServerCrash \/ (\E now \in Times : ServerShutdown(now)) => listening' = FALSE
    BY DEF ServerCrash, ServerShutdown, ServerGone
  <2> QED
    BY <2>1, <2>2, <2>3, <2>4, <2>5, <2>6, <2>7, <2>8, <2>9, <2>10, <2>11, <2>12,
       <2>13, <2>14, <2>15 DEF ServerNext, LoopStep
<1>4. ASSUME NEW json \in shown'
      PROVE  /\ json.id \in DOMAIN storage_'.disk.jobs
             /\ json = [id |-> json.id,
                        priority |-> storage_'.disk.jobs[json.id].priority,
                        status |-> "waiting"]
  <2>1. CASE json \in shown
    BY <1>2, <2>1 DEF ShownInv, Remembers
  <2>2. ASSUME NEW r \in Readers, ServePage(r), json \notin shown
        PROVE  /\ json.id \in DOMAIN storage_.disk.jobs
               /\ json = [id |-> json.id,
                          priority |-> storage_.disk.jobs[json.id].priority,
                          status |-> "waiting"]
    <3>1. PICK answer \in Answers(Jobs, RequestedIds, RequestBodies) :
            shown' = shown \cup answer.shown
      BY <2>2 DEF ServePage
    <3>2. PICK j \in DOMAIN jobs_ :
            json = [id |-> j, priority |-> jobs_[j].priority, status |-> "waiting"]
      BY <1>4, <2>2, <3>1, PagesShowJobs
    <3>3. phase = "up" /\ Remembers(storage_.db, storage_.disk)
      BY <2>2 DEF ServePage, ShownInv, JobsInv
    <3>4. j \in DOMAIN storage_.db.jobs /\ jobs_[j] = storage_.db.jobs[j]
      BY <3>3, MemoryIsPart DEF IInv
    <3> QED
      BY <3>2, <3>3, <3>4 DEF Remembers
  <2>3. CASE UNCHANGED shown
    BY <1>4, <2>1, <2>3
  <2>4. UNCHANGED shown \/ \E r \in Readers : ServePage(r)
    BY DEF ServerNext, LoopStep, serverVars, ServerStart, Populate, PopulateStep, Listen,
           ServeGetTask, ServeFound, ServeNotFound, Idle, WorkerStep, Ask, Receive, Fail,
           Wake, Read, BreakConnection, Die, Disconnected, ServerCrash, ServerShutdown,
           ServerGone
  <2>5. ASSUME NEW r \in Readers, ServePage(r) PROVE storage_' = storage_
    BY <2>5 DEF ServePage, vars
  <2> QED
    BY <2>1, <2>2, <2>3, <2>4, <2>5
<1> QED
  BY <1>3, <1>4 DEF ShownInv

LEMMA ShownInvariant == ServerSpec => []ShownInv
<1>1. ServerInit => ShownInv
  BY DEF ServerInit, ShownInv
<1>2. ServerSpec => [](IInv /\ JobsInv)
  BY ServerImplementsFarm, IInvInvariant, JobsInvInvariant, PTL
<1>3. IInv /\ IInv' /\ JobsInv /\ ShownInv /\ [ServerNext]_serverVars => ShownInv'
  BY NextShown
<1> QED
  BY <1>1, <1>2, <1>3, PTL DEF ServerSpec

\* A job that a reader has seen keeps its id and its priority, through crashes
\* and restarts, whatever else is inserted and dispatched; a server that could
\* not read its row answers that there is no such job, never with another one.
THEOREM ShownJobsAreKept == ServerSpec => []ShownJobsStay
<1>1. ServerSpec => [](IInv /\ JobsInv)
  BY ServerImplementsFarm, IInvInvariant, JobsInvInvariant, PTL
<1>2. IInv /\ JobsInv /\ ShownInv => ShownJobsStay
  <2> SUFFICES ASSUME IInv, JobsInv, ShownInv, listening, NEW json \in shown
               PROVE  JobDetails(Jobs, json.id) =
                        IF json.id \in unread.jobs THEN Refused(Missing)
                                                   ELSE Answer(OK, {json})
    BY DEF ShownJobsStay
  <2>1. phase = "up" /\ Remembers(storage_.disk, storage_.db)
    BY DEF ShownInv, JobsInv
  <2>2. /\ DOMAIN jobs_ = DOMAIN storage_.db.jobs \ unread.jobs
        /\ \A j \in DOMAIN jobs_ : jobs_[j] = storage_.db.jobs[j]
    BY <2>1, MemoryIsPart DEF IInv
  <2>3. /\ json.id \in DOMAIN storage_.db.jobs
        /\ json = [id |-> json.id, priority |-> storage_.db.jobs[json.id].priority,
                   status |-> "waiting"]
    BY <2>1 DEF ShownInv, Remembers
  <2>4. DOMAIN Jobs = DOMAIN jobs_ /\ \A j \in DOMAIN Jobs : Jobs[j].id = j
    BY DEF Jobs
  <2>5. CASE json.id \in unread.jobs
    <3>1. JobById(Jobs, json.id) = {}
      BY <2>2, <2>4, <2>5 DEF JobById
    <3> QED
      BY <2>5, <3>1 DEF JobDetails
  <2>6. CASE json.id \notin unread.jobs
    <3>1. json.id \in DOMAIN Jobs
      BY <2>2, <2>3, <2>4, <2>6
    <3>2. JobById(Jobs, json.id) = {Jobs[json.id]}
      <4> DEFINE first == {i \in DOMAIN Jobs :
                            /\ Jobs[i].id = json.id
                            /\ \A j \in DOMAIN Jobs : j < i => Jobs[j].id # json.id}
      <4>1. DOMAIN Jobs \subseteq Nat
        BY <2>1, <2>2, <2>4, MemoryIsPart DEF IInv
      <4>2. \A i, j \in Nat : j < i => j # i
        OBVIOUS
      <4>3. first = {json.id}
        BY <2>4, <3>1, <4>1, <4>2
      <4> QED
        BY <4>3 DEF JobById
    <3>3. Jobs[json.id] = [id |-> json.id, priority |-> jobs_[json.id].priority]
      BY <2>4, <3>1 DEF Jobs
    <3>4. JobJson(Jobs[json.id]) = json
      BY <2>2, <2>3, <2>4, <3>1, <3>3 DEF JobJson
    <3> QED
      BY <2>6, <3>2, <3>4 DEF JobDetails
  <2> QED
    BY <2>5, <2>6
<1> QED
  BY <1>1, <1>2, ShownInvariant, PTL

-----------------------------------------------------------------------------
(* Deliveries. *)

\* The workers that a reply with task t is on its way to.
OnTheWay(t) == {w \in Workers : replies[w] = Found(t)}

\* Each dispatch of a task is on its way once, was received once or got lost;
\* a task is dispatched once, and once more for each dispatch a crash undid.
DeliveryInv ==
    /\ received \in [TaskIds -> Nat] /\ undone \in [TaskIds -> Nat]
    /\ replies \in [Workers -> {NoReply, NotFound} \cup {Found(t) : t \in Nat}]
    /\ serving \subseteq Workers /\ \A v, w \in serving : v = w
    /\ call.op = "dispatch" => call.task \notin handed
    /\ \A t \in TaskIds :
         received[t] + Cardinality(OnTheWay(t))
             <= undone[t] + (IF t \in handed THEN 1 ELSE 0)

LEMMA RepliesDiffer ==
    ASSUME NEW t, NEW u
    PROVE  /\ Found(t) # NoReply /\ Found(t) # NotFound
           /\ Found(t) = Found(u) => t = u
<1>1. Found(t).status = "200" /\ NoReply.status = "none" /\ NotFound.status = "404"
  BY DEF Found, NoReply, NotFound
<1>2. Found(t).task = t /\ Found(u).task = u
  BY DEF Found
<1> QED
  BY <1>1, <1>2

LEMMA OnTheWayFinite ==
    ASSUME NEW t
    PROVE  IsFiniteSet(OnTheWay(t)) /\ Cardinality(OnTheWay(t)) \in Nat
<1>1. IsFiniteSet(OnTheWay(t))
  BY ServerAssumption, FS_Subset DEF OnTheWay
<1> QED
  BY <1>1, FS_CardinalityType

\* A step that sends nothing and that the history does not tell from a stutter.
LEMMA FewerOnTheWay ==
    ASSUME DeliveryInv, UNCHANGED <<received, undone, handed>>,
           replies' \in [Workers -> {NoReply, NotFound} \cup {Found(t) : t \in Nat}],
           \A w \in Workers : replies'[w] \in {replies[w], NoReply, NotFound},
           serving' \subseteq Workers, \A v, w \in serving' : v = w,
           call'.op = "dispatch" => call'.task \notin handed
    PROVE  DeliveryInv'
<1>1. ASSUME NEW t \in TaskIds
      PROVE  received[t] + Cardinality(OnTheWay(t)')
                 <= undone[t] + (IF t \in handed THEN 1 ELSE 0)
  <2>1. OnTheWay(t)' \subseteq OnTheWay(t)
    BY RepliesDiffer DEF OnTheWay
  <2>2. /\ Cardinality(OnTheWay(t)') <= Cardinality(OnTheWay(t))
        /\ Cardinality(OnTheWay(t)') \in Nat
    BY <2>1, OnTheWayFinite, FS_Subset, FS_CardinalityType
  <2>3. /\ received[t] \in Nat /\ undone[t] \in Nat
        /\ Cardinality(OnTheWay(t)) \in Nat
        /\ received[t] + Cardinality(OnTheWay(t))
               <= undone[t] + (IF t \in handed THEN 1 ELSE 0)
    BY OnTheWayFinite DEF DeliveryInv
  <2> QED
    BY <2>2, <2>3
<1> QED
  BY <1>1 DEF DeliveryInv

\* The steps that neither answer a request nor lose an answer.
LEMMA QuietDelivery ==
    ASSUME DeliveryInv, UNCHANGED <<received, undone, handed, replies, serving>>,
           call' = call \/ call'.op # "dispatch"
    PROVE  DeliveryInv'
BY FewerOnTheWay DEF DeliveryInv

LEMMA ServeFoundDelivery ==
    ASSUME TypeOK, DeliveryInv, ServeFound
    PROVE  DeliveryInv'
<1>1. /\ call.op = "dispatch" /\ call.task \notin handed
      /\ handed' = handed \cup {call.task} /\ call'.op = "none"
      /\ replies' = [w \in Workers |-> IF w \in serving THEN Found(call.task)
                                                        ELSE replies[w]]
      /\ serving' = {} /\ UNCHANGED <<received, undone>>
  BY DEF ServeFound, DispatchReturn, DeliveryInv, NoCall, workerVars
<1>2. ASSUME NEW t \in TaskIds
      PROVE  received[t] + Cardinality(OnTheWay(t)')
                 <= undone[t] + (IF t \in handed' THEN 1 ELSE 0)
  <2>1. /\ received[t] \in Nat /\ undone[t] \in Nat
        /\ Cardinality(OnTheWay(t)) \in Nat
        /\ received[t] + Cardinality(OnTheWay(t))
               <= undone[t] + (IF t \in handed THEN 1 ELSE 0)
    BY OnTheWayFinite DEF DeliveryInv
  <2>2. CASE t # call.task
    <3>1. OnTheWay(t)' \subseteq OnTheWay(t)
      BY <1>1, <2>2, RepliesDiffer DEF OnTheWay
    <3>2. /\ Cardinality(OnTheWay(t)') <= Cardinality(OnTheWay(t))
          /\ Cardinality(OnTheWay(t)') \in Nat
      BY <3>1, OnTheWayFinite, FS_Subset, FS_CardinalityType
    <3> QED
      BY <1>1, <2>1, <2>2, <3>2
  <2>3. CASE t = call.task
    <3>1. PICK w : serving \subseteq {w}
      BY DEF DeliveryInv
    <3>2. OnTheWay(t)' \subseteq OnTheWay(t) \cup {w}
      BY <1>1, <2>3, <3>1 DEF OnTheWay
    <3>3. /\ IsFiniteSet(OnTheWay(t) \cup {w})
          /\ Cardinality(OnTheWay(t) \cup {w}) <= Cardinality(OnTheWay(t)) + 1
          /\ Cardinality(OnTheWay(t) \cup {w}) \in Nat
      <4>1. IsFiniteSet(OnTheWay(t))
        BY OnTheWayFinite
      <4>2. /\ IsFiniteSet(OnTheWay(t) \cup {w})
            /\ Cardinality(OnTheWay(t) \cup {w}) =
                 IF w \in OnTheWay(t) THEN Cardinality(OnTheWay(t))
                                      ELSE Cardinality(OnTheWay(t)) + 1
        BY <4>1, FS_AddElement
      <4> QED
        BY <2>1, <4>2
    <3>4. /\ Cardinality(OnTheWay(t)') <= Cardinality(OnTheWay(t)) + 1
          /\ Cardinality(OnTheWay(t)') \in Nat
      <4>1. IsFiniteSet(OnTheWay(t)')
        BY <3>2, <3>3, FS_Subset
      <4>2. Cardinality(OnTheWay(t)') <= Cardinality(OnTheWay(t) \cup {w})
        BY <3>2, <3>3, FS_Subset
      <4>3. Cardinality(OnTheWay(t)') \in Nat
        BY <4>1, FS_CardinalityType
      <4> QED
        BY <2>1, <3>3, <4>2, <4>3
    <3> QED
      BY <1>1, <2>1, <2>3, <3>4
  <2> QED
    BY <2>2, <2>3
<1>3. replies' \in [Workers -> {NoReply, NotFound} \cup {Found(t) : t \in Nat}]
  BY <1>1, CallKinds DEF DeliveryInv, DispatchCall
<1> QED
  BY <1>1, <1>2, <1>3 DEF DeliveryInv

LEMMA ReceiveDelivery ==
    ASSUME DeliveryInv, NEW w \in Workers, Receive(w)
    PROVE  DeliveryInv'
<1>1. /\ UNCHANGED <<undone, handed, serving, call>>
      /\ replies[w] # NoReply
      /\ replies' = [replies EXCEPT ![w] = NoReply]
  BY DEF Receive, vars
<1>2. /\ replies' \in [Workers -> {NoReply, NotFound} \cup {Found(t) : t \in Nat}]
      /\ \A v \in Workers : replies'[v] = IF v = w THEN NoReply ELSE replies[v]
  BY <1>1 DEF DeliveryInv
<1>3. CASE replies[w].status # "200"
  <2>1. UNCHANGED received
    BY <1>3 DEF Receive
  <2> QED
    BY <1>1, <1>2, <2>1, FewerOnTheWay DEF DeliveryInv
<1>4. CASE replies[w].status = "200"
  <2>1. PICK u \in Nat : replies[w] = Found(u)
    BY <1>1, <1>4 DEF DeliveryInv, NoReply, NotFound
  <2>2. received' = [received EXCEPT ![u] = @ + 1]
    BY <1>4, <2>1 DEF Receive, Found
  <2>3. received' \in [TaskIds -> Nat]
    <3>1. received \in [TaskIds -> Nat] /\ \A t \in TaskIds : received[t] + 1 \in Nat
      BY DEF DeliveryInv
    <3> QED
      BY <2>2, <3>1
  <2>4. ASSUME NEW t \in TaskIds
        PROVE  received'[t] + Cardinality(OnTheWay(t)')
                   <= undone[t] + (IF t \in handed THEN 1 ELSE 0)
    <3>1. /\ received[t] \in Nat /\ undone[t] \in Nat
          /\ Cardinality(OnTheWay(t)) \in Nat /\ IsFiniteSet(OnTheWay(t))
          /\ received[t] + Cardinality(OnTheWay(t))
                 <= undone[t] + (IF t \in handed THEN 1 ELSE 0)
      BY OnTheWayFinite DEF DeliveryInv
    <3>2. OnTheWay(t)' = OnTheWay(t) \ {w}
      BY <1>2, RepliesDiffer DEF OnTheWay
    <3>3. Cardinality(OnTheWay(t)') =
            IF w \in OnTheWay(t) THEN Cardinality(OnTheWay(t)) - 1
                                 ELSE Cardinality(OnTheWay(t))
      BY <3>1, <3>2, FS_RemoveElement
    <3>4. w \in OnTheWay(t) <=> t = u
      BY <2>1, RepliesDiffer DEF OnTheWay
    <3>5. received'[t] = IF t = u THEN received[t] + 1 ELSE received[t]
      BY <2>2 DEF DeliveryInv
    <3> QED
      BY <3>1, <3>3, <3>4, <3>5
  <2> QED
    BY <1>1, <1>2, <2>3, <2>4 DEF DeliveryInv
<1> QED
  BY <1>3, <1>4

\* A crash that undoes a dispatch allows for another delivery.
LEMMA ServerCrashDelivery ==
    ASSUME DeliveryInv, ServerCrash
    PROVE  DeliveryInv'
<1>1. /\ serving' = {} /\ call'.op = "none" /\ handed' \subseteq handed
      /\ undone' = [t \in TaskIds |-> IF t \in handed \ handed' THEN undone[t] + 1
                                                                ELSE undone[t]]
      /\ UNCHANGED received
  BY DEF ServerCrash, ServerGone, Crash, Exit, NoCall, workerVars
<1>2. PICK sent \in SUBSET Workers :
        replies' = [w \in Workers |-> IF w \in sent THEN replies[w] ELSE NoReply]
  BY DEF ServerCrash, ServerGone
<1>3. replies' \in [Workers -> {NoReply, NotFound} \cup {Found(t) : t \in Nat}]
  BY <1>2 DEF DeliveryInv
<1>4. undone' \in [TaskIds -> Nat]
  BY <1>1 DEF DeliveryInv
<1>5. ASSUME NEW t \in TaskIds
      PROVE  received[t] + Cardinality(OnTheWay(t)')
                 <= undone'[t] + (IF t \in handed' THEN 1 ELSE 0)
  <2>1. /\ received[t] \in Nat /\ undone[t] \in Nat
        /\ Cardinality(OnTheWay(t)) \in Nat /\ IsFiniteSet(OnTheWay(t))
        /\ received[t] + Cardinality(OnTheWay(t))
               <= undone[t] + (IF t \in handed THEN 1 ELSE 0)
    BY OnTheWayFinite DEF DeliveryInv
  <2>2. OnTheWay(t)' \subseteq OnTheWay(t)
    BY <1>2, RepliesDiffer DEF OnTheWay
  <2>3. /\ Cardinality(OnTheWay(t)') <= Cardinality(OnTheWay(t))
        /\ Cardinality(OnTheWay(t)') \in Nat
    BY <2>1, <2>2, FS_Subset, FS_CardinalityType
  <2>4. undone'[t] + (IF t \in handed' THEN 1 ELSE 0)
          = undone[t] + (IF t \in handed THEN 1 ELSE 0)
    BY <1>1, <2>1
  <2> QED
    BY <2>1, <2>3, <2>4
<1> QED
  BY <1>1, <1>3, <1>4, <1>5 DEF DeliveryInv

LEMMA NextDelivery ==
    ASSUME IInv, HandedOnce, DeliveryInv, [ServerNext]_serverVars
    PROVE  DeliveryInv'
<1> DEFINE Quiet == /\ UNCHANGED <<received, undone, handed, replies, serving>>
                    /\ call' = call \/ call'.op # "dispatch"
<1>0. Quiet => DeliveryInv'
  BY QuietDelivery
<1>1. UNCHANGED serverVars => Quiet
  BY DEF serverVars, vars, httpVars, workerVars
<1>2. ServerStart \/ PopulateStep => Quiet
  <2>1. InsertTask => call'.op = "insert"
    BY CallKinds DEF InsertTask, InsertCall, IInv
  <2> QED
    BY <2>1 DEF ServerStart, Start, PopulateStep, InsertTask, InsertReturn, NoCall,
                httpVars, workerVars
<1>3. ASSUME NEW now \in Times, Populate(now) \/ Idle(now) PROVE Quiet
  <2>1. CASE Idle(now)
    BY <2>1 DEF Idle, IdleHandler, httpVars, workerVars
  <2>2. CASE Populate(now)
    <3>1. PICK priority \in JobPriorities, status \in InsertStatuses :
            InsertJob(priority, status, now)
      BY <2>2 DEF Populate
    <3>2. call'.op = "insert" /\ UNCHANGED handed
      BY <3>1 DEF InsertJob
    <3> QED
      BY <2>2, <3>2 DEF Populate, httpVars, workerVars
  <2> QED
    BY <1>3, <2>1, <2>2
<1>4. Listen => Quiet
  BY DEF Listen, vars, workerVars
<1>5. ASSUME NEW r \in Readers, ServePage(r) \/ Read(r) PROVE Quiet
  BY <1>5 DEF ServePage, Read, vars, workerVars
<1>6. ASSUME NEW w \in Workers, Ask(w) \/ Fail(w) \/ Wake(w) PROVE Quiet
  BY <1>6 DEF Ask, Fail, Wake, vars, httpVars
<1> HIDE DEF Quiet
<1>7. ASSUME NEW w \in Workers, NEW now \in Times, ServeGetTask(w, now)
      PROVE  DeliveryInv'
  <2>1. PICK t \in tasks_queue_ : DispatchTask(t, now)
    BY <1>7 DEF ServeGetTask
  <2>2. call'.task = t /\ t \notin handed
    BY <2>1 DEF DispatchTask, HandedOnce
  <2>3. UNCHANGED <<received, undone, handed, replies>> /\ serving' = {w}
    BY <1>7, <2>1 DEF ServeGetTask, DispatchTask, workerVars
  <2> QED
    BY <2>2, <2>3, FewerOnTheWay DEF DeliveryInv
<1>8. ASSUME NEW w \in Workers, ServeNotFound(w) PROVE DeliveryInv'
  <2>1. /\ UNCHANGED <<received, undone, handed, serving, call>>
        /\ replies' = [replies EXCEPT ![w] = NotFound]
    BY <1>8 DEF ServeNotFound, vars, workerVars
  <2> QED
    BY <2>1, FewerOnTheWay DEF DeliveryInv
<1>9. ASSUME NEW w \in Workers, BreakConnection(w) \/ Die(w) PROVE DeliveryInv'
  <2>1. /\ UNCHANGED <<received, undone, handed, call>> /\ serving' = serving \ {w}
        /\ replies' = [replies EXCEPT ![w] = NoReply]
    BY <1>9 DEF BreakConnection, Die, Disconnected, vars
  <2> QED
    BY <2>1, FewerOnTheWay DEF DeliveryInv
<1>10. ASSUME NEW now \in Times, ServerShutdown(now) PROVE DeliveryInv'
  <2>1. /\ UNCHANGED <<received, undone, handed>> /\ serving' = {} /\ call'.op = "none"
    BY <1>10 DEF ServerShutdown, ServerGone, Shutdown, Exit, NoCall, workerVars
  <2>2. PICK sent \in SUBSET Workers :
          replies' = [w \in Workers |-> IF w \in sent THEN replies[w] ELSE NoReply]
    BY <1>10 DEF ServerShutdown, ServerGone
  <2> QED
    BY <2>1, <2>2, FewerOnTheWay DEF DeliveryInv
<1>11. ServeFound => DeliveryInv'
  BY ServeFoundDelivery DEF IInv
<1>12. ASSUME NEW w \in Workers, Receive(w) PROVE DeliveryInv'
  BY <1>12, ReceiveDelivery
<1>13. ServerCrash => DeliveryInv'
  BY ServerCrashDelivery
<1> QED
  BY <1>0, <1>1, <1>2, <1>3, <1>4, <1>5, <1>6, <1>7, <1>8, <1>9, <1>10, <1>11, <1>12,
     <1>13 DEF ServerNext, LoopStep, WorkerStep

LEMMA DeliveryInvariant == ServerSpec => []DeliveryInv
<1>1. ServerInit => DeliveryInv
  <2> SUFFICES ASSUME ServerInit
               PROVE  DeliveryInv
    OBVIOUS
  <2>1. /\ received = [t \in TaskIds |-> 0] /\ undone = [t \in TaskIds |-> 0]
        /\ replies = [w \in Workers |-> NoReply] /\ serving = {}
        /\ call.op = "none" /\ handed = {}
    BY DEF ServerInit, Init, NoCall
  <2>2. \A t \in TaskIds : OnTheWay(t) = {}
    BY <2>1, RepliesDiffer DEF OnTheWay
  <2> QED
    BY <2>1, <2>2, FS_EmptySet DEF DeliveryInv
<1>2. ServerSpec => [](IInv /\ HandedOnce)
  BY ServerImplementsFarm, IInvInvariant, NoTaskTwice, PTL
<1>3. IInv /\ HandedOnce /\ DeliveryInv /\ [ServerNext]_serverVars => DeliveryInv'
  BY NextDelivery
<1> QED
  BY <1>1, <1>2, <1>3, PTL DEF ServerSpec

\* Whatever gets lost and whoever dies, no task reaches workers more often
\* than crashes made it wait again, plus one.
THEOREM EachReceivedOnce == ServerSpec => []ReceivedOnce
<1>1. DeliveryInv => ReceivedOnce
  <2> SUFFICES ASSUME DeliveryInv, NEW t \in TaskIds
               PROVE  received[t] <= 1 + undone[t]
    BY DEF ReceivedOnce
  <2>1. /\ received[t] \in Nat /\ undone[t] \in Nat
        /\ Cardinality(OnTheWay(t)) \in Nat
        /\ received[t] + Cardinality(OnTheWay(t))
               <= undone[t] + (IF t \in handed THEN 1 ELSE 0)
    BY OnTheWayFinite DEF DeliveryInv
  <2> QED
    BY <2>1
<1> QED
  BY <1>1, DeliveryInvariant, PTL

-----------------------------------------------------------------------------
(* Ids. *)

BoundInv == DOMAIN storage_.db.jobs \subseteq 1..MaxJobs

\* The only step that adds a job asks for room first.
LEMMA NextBound ==
    ASSUME IInv, IInv', JobsInv, BoundInv, [Next]_vars
    PROVE  BoundInv'
<1>1. DOMAIN storage_.disk.jobs \subseteq 1..MaxJobs
  BY DEF JobsInv, Remembers, BoundInv
<1>2. CASE call'.op # "insert"
  BY <1>1, <1>2, DatabaseRemembers DEF Remembers, BoundInv
<1>3. CASE call'.op = "insert"
  <2>1. ASSUME NEW now \in Times, NEW priority \in JobPriorities,
               NEW status \in InsertStatuses, InsertJob(priority, status, now)
        PROVE  BoundInv'
    <3>1. /\ DOMAIN storage_'.db.jobs = DOMAIN storage_.db.jobs \cup {call'.job}
          /\ call'.job = Len(storage_.db.jobs) + 1
      BY <2>1, InsertJobWrites
    <3>2. Len(storage_.db.jobs) < MaxJobs /\ Len(storage_.db.jobs) \in Nat
      BY <2>1 DEF InsertJob, IInv, TypeOK, Connection, Database
    <3>3. call'.job \in 1..MaxJobs
      BY <3>1, <3>2, FarmAssumption
    <3> QED
      BY <3>1, <3>3 DEF BoundInv
  <2>2. CASE InsertTask
    <3>1. storage_'.db.jobs = storage_.db.jobs
      BY <2>2, InsertTaskWrites
    <3> QED
      BY <3>1 DEF BoundInv
  <2>3. CASE UNCHANGED vars
    BY <2>3 DEF vars, BoundInv
  <2>4. ~Start
    BY <1>3, StartReads
  <2>5. ~InsertReturn /\ ~DispatchReturn /\ ~Crash
    BY <1>3 DEF InsertReturn, DispatchReturn, Crash, Exit, NoCall
  <2>6. ASSUME NEW now \in Times
        PROVE  /\ \A t \in tasks_queue_ : ~DispatchTask(t, now)
               /\ ~IdleHandler(now) /\ ~Shutdown(now)
    <3>1. NoCall.op = "none"
      BY DEF NoCall
    <3>2. ~IdleHandler(now)
      BY <1>3, <3>1 DEF IdleHandler
    <3>3. ~Shutdown(now)
      BY <1>3, <3>1 DEF Shutdown, Exit
    <3>4. ASSUME NEW t \in tasks_queue_ PROVE ~DispatchTask(t, now)
      BY <1>3 DEF DispatchTask
    <3> QED
      BY <3>2, <3>3, <3>4
  <2> QED
    BY <2>1, <2>2, <2>3, <2>4, <2>5, <2>6 DEF Next, TimedNext, UntimedNext
<1> QED
  BY <1>2, <1>3

LEMMA BlocksAreBounded ==
    ASSUME NEW rows, NEW left, Blocks(rows, left),
           DOMAIN rows.jobs \subseteq 1..MaxJobs,
           DOMAIN rows.tasks \subseteq Nat \ {0}
    PROVE  DOMAIN rows.tasks \subseteq TaskIds
<1> SUFFICES ASSUME NEW t \in DOMAIN rows.tasks
             PROVE  t \in TaskIds
  OBVIOUS
<1> DEFINE j == rows.tasks[t].job
<1>1. j \in 1..MaxJobs /\ t <= j * NumTasks /\ t \in Nat \ {0}
  BY DEF Blocks
<1>2. MaxJobs \in Nat /\ NumTasks \in Nat /\ j \in Nat
  BY <1>1, FarmAssumption, TypesAssumption
<1>3. MaxJobs * NumTasks = j * NumTasks + (MaxJobs - j) * NumTasks
  BY <1>1, <1>2
<1>4. (MaxJobs - j) * NumTasks \in Nat
  BY <1>1, <1>2
<1>5. j * NumTasks \in Nat /\ MaxJobs * NumTasks \in Nat
  BY <1>2
<1> HIDE DEF j
<1>6. t <= MaxJobs * NumTasks
  BY <1>1, <1>3, <1>4, <1>5
<1> QED
  BY <1>1, <1>5, <1>6 DEF TaskIds

\* What the server can answer with.
LEMMA TasksAreBounded ==
    ASSUME IInv, BlocksInv, BoundInv
    PROVE  DOMAIN tasks_ \subseteq TaskIds /\ handed \subseteq TaskIds
<1>1. storage_.db.tasks \in Seq(TaskRow)
  BY DEF IInv, TypeOK, Connection, Database
<1>2. DOMAIN storage_.db.tasks \subseteq TaskIds
  BY <1>1, BlocksAreBounded DEF BlocksInv, BoundInv
<1>3. DOMAIN tasks_ \subseteq DOMAIN storage_.db.tasks
  <2>1. CASE phase = "up"
    BY <2>1, MemoryIsPart DEF IInv
  <2>2. CASE phase = "down"
    BY <2>2 DEF IInv, DownIsEmpty
  <2> QED
    BY <2>1, <2>2 DEF IInv, TypeOK
<1> QED
  BY <1>2, <1>3 DEF IInv, HandedAreActive

BoundedIds == DOMAIN tasks_ \subseteq TaskIds /\ handed \subseteq TaskIds

LEMMA BoundedInvariant == Spec => []BoundedIds
<1>1. Init => BoundInv
  BY DEF Init, BoundInv, SqlOpen, EmptyDatabase
<1>2. IInv /\ IInv' /\ JobsInv /\ BoundInv /\ [Next]_vars => BoundInv'
  BY NextBound
<1>3. IInv /\ BlocksInv /\ BoundInv => BoundedIds
  BY TasksAreBounded DEF BoundedIds
<1>4. Spec => []BlocksInv
  BY IInvInvariant, InitBlocks, NextBlocks, PTL DEF Spec
<1> QED
  BY <1>1, <1>2, <1>3, <1>4, IInvInvariant, JobsInvInvariant, PTL DEF Spec

-----------------------------------------------------------------------------
(* Requests and replies. *)

\* A worker has a request or a reply only while it waits, and at most one.
TalkInv ==
    /\ listening \in BOOLEAN
    /\ requests \subseteq Workers \cup Readers
    /\ replies \in [Workers -> {NoReply, NotFound} \cup {Found(t) : t \in TaskIds}]
    /\ workers \in [Workers -> WorkerState]
    /\ faults \in 0..MaxFaults /\ outages \in 0..faults /\ cut \in Nat
    /\ serving \subseteq Workers /\ requests \cap serving = {}
    /\ serving # {} => call.op = "dispatch"
    /\ \A w \in Workers :
         /\ w \in requests \cup serving => workers[w] = "waiting" /\ replies[w] = NoReply
         /\ workers[w] # "waiting" => replies[w] = NoReply

LEMMA InitTalk == ServerInit => TalkInv
<1> SUFFICES ASSUME ServerInit PROVE TalkInv
  OBVIOUS
<1>1. /\ listening = FALSE /\ requests = {} /\ serving = {}
      /\ faults = 0 /\ outages = 0 /\ cut = 0
      /\ replies = [w \in Workers |-> NoReply]
      /\ workers = [w \in Workers |-> "asking"]
  BY DEF ServerInit
<1>2. faults \in 0..MaxFaults /\ outages \in 0..faults /\ cut \in Nat
  BY <1>1, ServerAssumption
<1>3. workers \in [Workers -> WorkerState]
  BY <1>1 DEF WorkerState
<1>4. replies \in [Workers -> {NoReply, NotFound} \cup {Found(t) : t \in TaskIds}]
  BY <1>1
<1> QED
  BY <1>1, <1>2, <1>3, <1>4 DEF TalkInv

\* The steps that only the farm and the readers take part in.
LEMMA QuietTalk ==
    ASSUME TalkInv, UNCHANGED <<serving, replies, workers, faultVars>>,
           listening' \in BOOLEAN, requests' \subseteq requests \cup Readers,
           serving # {} => call'.op = "dispatch"
    PROVE  TalkInv'
<1>1. requests' \cap serving' = {}
  BY ServerAssumption DEF TalkInv
<1>2. \A w \in Workers : w \in requests' => w \in requests
  BY ServerAssumption
<1> QED
  BY <1>1, <1>2 DEF TalkInv, faultVars

\* A fault takes away no more than there was.
LEMMA FaultCounts ==
    ASSUME TalkInv, Fault
    PROVE  /\ faults' = faults + 1 /\ faults' \in 0..MaxFaults
           /\ cut' = cut + Cardinality(Connected \ Connected') /\ cut' \in Nat
           /\ IsFiniteSet(Connected \ Connected')
           /\ Cardinality(Connected \ Connected') \in Nat
<1>1. IsFiniteSet(Connected \ Connected')
  BY ServerAssumption, FS_Subset DEF Connected
<1>2. Cardinality(Connected \ Connected') \in Nat
  BY <1>1, FS_CardinalityType
<1>3. /\ faults' = faults + 1 /\ faults < MaxFaults
      /\ cut' = cut + Cardinality(Connected \ Connected')
  BY DEF Fault
<1>4. faults' \in 0..MaxFaults /\ cut' \in Nat
  BY <1>2, <1>3, ServerAssumption DEF TalkInv
<1> QED
  BY <1>1, <1>2, <1>3, <1>4

LEMMA NextTalk ==
    ASSUME TypeOK, BoundedIds, BoundedIds', TalkInv, [ServerNext]_serverVars
    PROVE  TalkInv'
<1> DEFINE Quiet == /\ UNCHANGED <<serving, replies, workers, faultVars>>
                    /\ listening' \in BOOLEAN /\ requests' \subseteq requests \cup Readers
                    /\ serving # {} => call'.op = "dispatch"
<1>0. Quiet => TalkInv'
  BY QuietTalk
<1>1. UNCHANGED serverVars => Quiet
  BY DEF serverVars, vars, httpVars, workerVars, TalkInv
<1>2. ASSUME call.op # "dispatch", UNCHANGED <<httpVars, workerVars, faultVars>> PROVE Quiet
  BY <1>2 DEF httpVars, workerVars, TalkInv
<1>3. ServerStart \/ PopulateStep \/ (\E now \in Times : Populate(now) \/ Idle(now)) => Quiet
  <2>1. InsertTask \/ InsertReturn => call.op # "dispatch"
    BY DEF InsertTask, InsertReturn
  <2>2. \A now \in Times : IdleHandler(now) => call.op # "dispatch"
    BY DEF IdleHandler, NoCall
  <2>3. \A priority \in JobPriorities, status \in InsertStatuses, now \in Times :
           InsertJob(priority, status, now) => call.op # "dispatch"
    BY DEF InsertJob, NoCall
  <2>4. ServerStart => Quiet
    BY DEF ServerStart, Start, httpVars, workerVars, TalkInv
  <2> QED
    BY <1>2, <2>1, <2>2, <2>3, <2>4 DEF PopulateStep, Populate, Idle
<1>4. Listen => Quiet
  BY DEF Listen, NoCall, vars, workerVars, TalkInv
<1>5. ASSUME NEW r \in Readers, ServePage(r) \/ Read(r) PROVE Quiet
  BY <1>5 DEF ServePage, Read, vars, workerVars, TalkInv
<1> HIDE DEF Quiet
<1>6. ASSUME NEW w \in Workers, NEW now \in Times, ServeGetTask(w, now)
      PROVE  TalkInv'
  <2>1. /\ w \in requests /\ requests' = requests \ {w} /\ serving' = {w}
        /\ UNCHANGED <<listening, replies, workers, faultVars>>
    BY <1>6 DEF ServeGetTask, workerVars
  <2>2. call'.op = "dispatch"
    BY <1>6 DEF ServeGetTask, DispatchTask
  <2> QED
    BY <2>1, <2>2 DEF TalkInv, faultVars
<1>7. ASSUME ServeFound PROVE TalkInv'
  <2>1. /\ replies' = [w \in Workers |-> IF w \in serving THEN Found(call.task)
                                                          ELSE replies[w]]
        /\ serving' = {} /\ UNCHANGED <<listening, requests, workers, faultVars>>
    BY <1>7 DEF ServeFound, workerVars
  <2>2. call.task \in TaskIds
    BY <1>7 DEF ServeFound, DispatchReturn, BoundedIds
  <2>3. replies' \in [Workers -> {NoReply, NotFound} \cup {Found(t) : t \in TaskIds}]
    BY <2>1, <2>2 DEF TalkInv
  <2>4. \A w \in Workers \ serving : replies'[w] = replies[w]
    BY <2>1
  <2>5. \A w \in Workers : w \in serving => w \notin requests /\ workers[w] = "waiting"
    BY DEF TalkInv
  <2> QED
    BY <2>1, <2>3, <2>4, <2>5 DEF TalkInv, faultVars
<1>8. ASSUME NEW w \in Workers, ServeNotFound(w) PROVE TalkInv'
  <2>1. /\ w \in requests /\ requests' = requests \ {w} /\ serving = {}
        /\ replies' = [replies EXCEPT ![w] = NotFound]
        /\ UNCHANGED <<listening, serving, workers, faultVars, call>>
    BY <1>8 DEF ServeNotFound, vars, workerVars, TalkInv, NoCall
  <2> QED
    BY <2>1 DEF TalkInv, faultVars
<1>9. ASSUME NEW w \in Workers, WorkerStep(w) PROVE TalkInv'
  <2>1. CASE Ask(w)
    <3>1. /\ workers[w] = "asking" /\ requests' = requests \cup {w}
          /\ workers' = [workers EXCEPT ![w] = "waiting"]
          /\ UNCHANGED <<listening, serving, replies, faultVars, call>>
      BY <2>1 DEF Ask, vars
    <3> QED
      BY <3>1 DEF TalkInv, faultVars, WorkerState
  <2>2. ASSUME NEW state \in WorkerState, workers' = [workers EXCEPT ![w] = state],
               replies' = [replies EXCEPT ![w] = NoReply],
               w \notin requests \cup serving,
               UNCHANGED <<listening, requests, serving, faultVars, call>>
        PROVE  TalkInv'
    BY <2>2 DEF TalkInv, faultVars
  <2>3. CASE Receive(w)
    <3>1. /\ replies[w] # NoReply /\ replies' = [replies EXCEPT ![w] = NoReply]
          /\ UNCHANGED <<listening, requests, serving, faultVars, call>>
          /\ \/ workers' = [workers EXCEPT ![w] = "asking"]
             \/ workers' = [workers EXCEPT ![w] = "done"]
      BY <2>3 DEF Receive, vars
    <3>2. w \notin requests \cup serving
      BY <3>1 DEF TalkInv
    <3> QED
      BY <2>2, <3>1, <3>2 DEF WorkerState
  <2>4. CASE Fail(w) \/ Wake(w)
    <3>1. /\ UNCHANGED <<listening, requests, serving, replies, faultVars, call>>
          /\ \/ workers' = [workers EXCEPT ![w] = "asking"]
             \/ workers' = [workers EXCEPT ![w] = "pausing"]
      BY <2>4 DEF Fail, Wake, vars, httpVars
    <3>2. w \notin requests \cup serving /\ replies[w] = NoReply
      BY <2>4 DEF Fail, Wake, TalkInv, Connected
    <3>3. replies' = [replies EXCEPT ![w] = NoReply]
      BY <3>1, <3>2 DEF TalkInv
    <3> QED
      BY <2>2, <3>1, <3>2, <3>3 DEF WorkerState
  <2> QED
    BY <1>9, <2>1, <2>3, <2>4 DEF WorkerStep
<1>10. Fault /\ outages' \in {outages, outages + 1}
         => faults' \in 0..MaxFaults /\ outages' \in 0..faults' /\ cut' \in Nat
  <2> SUFFICES ASSUME Fault, outages' \in {outages, outages + 1}
               PROVE  faults' \in 0..MaxFaults /\ outages' \in 0..faults' /\ cut' \in Nat
    OBVIOUS
  <2>1. faults' = faults + 1 /\ faults' \in 0..MaxFaults /\ cut' \in Nat
    BY FaultCounts
  <2> QED
    BY <2>1, ServerAssumption DEF TalkInv
<1>11. ASSUME NEW w \in Workers, BreakConnection(w) \/ Die(w) PROVE TalkInv'
  <2>1. /\ requests' = requests \ {w} /\ serving' = serving \ {w}
        /\ replies' = [replies EXCEPT ![w] = NoReply] /\ UNCHANGED <<listening, call>>
        /\ UNCHANGED workers \/ workers' = [workers EXCEPT ![w] = "dead"]
        /\ Fault /\ outages' = outages
    BY <1>11 DEF BreakConnection, Die, Disconnected, vars
  <2> QED
    BY <1>10, <2>1 DEF TalkInv, WorkerState
<1>12. ServerGone => TalkInv'
  <2> SUFFICES ASSUME ServerGone PROVE TalkInv'
    OBVIOUS
  <2>1. /\ listening' = FALSE /\ requests' = {} /\ serving' = {}
        /\ Fault /\ outages' = outages + 1 /\ UNCHANGED workers
    BY DEF ServerGone, workerVars
  <2>2. PICK sent \in SUBSET Workers :
          replies' = [w \in Workers |-> IF w \in sent THEN replies[w] ELSE NoReply]
    BY DEF ServerGone
  <2> QED
    BY <1>10, <2>1, <2>2 DEF TalkInv
<1> QED
  BY <1>0, <1>1, <1>3, <1>4, <1>5, <1>6, <1>7, <1>8, <1>9, <1>11, <1>12
     DEF ServerNext, LoopStep, ServerCrash, ServerShutdown

-----------------------------------------------------------------------------
(* Losses. *)

\* The dispatched tasks nobody has received nor will, and whether the task
\* under dispatch is about to become one.
Lost == Missed(handed)
Pending == IF call.op = "dispatch" /\ serving = {} THEN 1 ELSE 0

LossInv == Cardinality(Lost) + Pending <= cut

LEMMA CountingLosses ==
    ASSUME handed \subseteq TaskIds
    PROVE  IsFiniteSet(Lost) /\ Cardinality(Lost) \in Nat
<1>1. MaxJobs * NumTasks \in Nat
  BY FarmAssumption, TypesAssumption
<1>2. IsFiniteSet(TaskIds)
  BY <1>1, FS_Interval DEF TaskIds
<1> QED
  BY <1>2, FS_Subset, FS_CardinalityType DEF Lost, Missed

\* A step that loses at most the tasks of S.
LEMMA LossStep ==
    ASSUME TalkInv, handed \subseteq TaskIds, handed' \subseteq TaskIds, LossInv,
           NEW S, IsFiniteSet(S), Lost' \subseteq Lost \cup S,
           NEW n \in Nat, cut' = cut + n, Cardinality(S) + Pending' <= Pending + n
    PROVE  LossInv'
<1>1. cut \in Nat /\ Cardinality(Lost) \in Nat /\ IsFiniteSet(Lost)
  BY CountingLosses DEF TalkInv
<1>2. Cardinality(S) \in Nat /\ Pending \in Nat /\ Pending' \in Nat
  BY FS_CardinalityType DEF Pending
<1>3. Cardinality(Lost') <= Cardinality(Lost) + Cardinality(S) /\ Cardinality(Lost') \in Nat
  <2>1. /\ IsFiniteSet(Lost \cup S)
        /\ Cardinality(Lost \cup S) =
             Cardinality(Lost) + Cardinality(S) - Cardinality(Lost \cap S)
    BY <1>1, FS_Union
  <2>2. Cardinality(Lost \cap S) \in Nat
    BY <1>1, FS_Intersection, FS_CardinalityType
  <2>3. Cardinality(Lost') <= Cardinality(Lost \cup S) /\ IsFiniteSet(Lost')
    BY <2>1, FS_Subset
  <2>4. Cardinality(Lost') \in Nat
    BY <2>3, FS_CardinalityType
  <2> QED
    BY <1>1, <1>2, <2>1, <2>2, <2>3, <2>4
<1>4. Cardinality(Lost) + Pending <= cut
  BY DEF LossInv
<1>5. Cardinality(Lost') + Pending' <= cut'
  BY <1>1, <1>2, <1>3, <1>4
<1> QED
  BY <1>5 DEF LossInv

\* A step that loses nothing.
LEMMA NoLoss ==
    ASSUME TalkInv, handed \subseteq TaskIds, handed' \subseteq TaskIds, LossInv,
           Lost' \subseteq Lost, cut' = cut, Pending' <= Pending
    PROVE  LossInv'
<1>1. IsFiniteSet({}) /\ Cardinality({}) = 0
  BY FS_EmptySet
<1>2. Pending \in Nat /\ Pending' \in Nat /\ cut \in Nat
  BY DEF Pending, TalkInv
<1>3. Cardinality({}) + Pending' <= Pending + 0 /\ cut' = cut + 0
  BY <1>1, <1>2
<1> QED
  BY <1>1, <1>3, LossStep

\* The tasks of the replies that are taken away are at most as many as these.
CutTasks == {t \in TaskIds : \E w \in Connected \ Connected' : replies[w] = Found(t)}

LEMMA CutsAreFew ==
    /\ IsFiniteSet(CutTasks) /\ Cardinality(CutTasks) \in Nat
    /\ Cardinality(CutTasks) <= Cardinality(Connected \ Connected')
    /\ Cardinality(Connected \ Connected') \in Nat
<1> DEFINE gone == Connected \ Connected'
           busy == {w \in gone : \E t \in TaskIds : replies[w] = Found(t)}
           task == [w \in busy |-> replies[w].task]
<1>1. \A w \in busy, t \in TaskIds : replies[w] = Found(t) => task[w] = t
  BY DEF Found
<1>2. task \in Surjection(busy, CutTasks)
  <2>1. task \in [busy -> CutTasks]
    BY <1>1 DEF CutTasks
  <2>2. ASSUME NEW t \in CutTasks PROVE \E w \in busy : task[w] = t
    <3>1. PICK w \in gone : replies[w] = Found(t)
      BY DEF CutTasks
    <3>2. w \in busy
      BY <3>1 DEF CutTasks
    <3> QED
      BY <1>1, <3>1, <3>2 DEF CutTasks
  <2> QED
    BY <2>1, <2>2 DEF Surjection
<1>3. IsFiniteSet(gone)
  BY ServerAssumption, FS_Subset DEF Connected
<1>4. IsFiniteSet(busy) /\ Cardinality(busy) <= Cardinality(gone)
  BY <1>3, FS_Subset
<1> HIDE DEF busy, task, gone
<1>5. IsFiniteSet(CutTasks) /\ Cardinality(CutTasks) <= Cardinality(busy)
  BY <1>2, <1>4, FS_Surjection
<1>6. /\ Cardinality(CutTasks) \in Nat /\ Cardinality(busy) \in Nat
      /\ Cardinality(gone) \in Nat
  BY <1>3, <1>4, <1>5, FS_CardinalityType
<1>7. Cardinality(CutTasks) <= Cardinality(gone)
  BY <1>4, <1>5, <1>6
<1> QED
  BY <1>5, <1>6, <1>7 DEF gone

\* What a fault takes away of the replies, it counts.
LEMMA FaultTakesReplies ==
    ASSUME TalkInv, BoundedIds, UNCHANGED received, handed' \subseteq handed,
           \A w \in Workers : replies'[w] \in {replies[w], NoReply},
           requests' \subseteq requests, serving' \subseteq serving
    PROVE  Lost' \subseteq Lost \cup CutTasks
<1> SUFFICES ASSUME NEW t \in handed', received'[t] = 0, ~InFlight(t)', t \notin Lost
             PROVE  t \in CutTasks
  BY DEF Lost, Missed
<1>1. t \in handed /\ t \in TaskIds /\ received[t] = 0
  BY DEF BoundedIds
<1>2. PICK w \in Workers : replies[w] = Found(t)
  BY <1>1 DEF Lost, Missed, InFlight
<1>3. replies'[w] = NoReply
  BY <1>2 DEF InFlight
<1>4. w \in Connected
  BY <1>2, RepliesDiffer DEF Connected
<1>5. w \notin Connected'
  <2>1. w \notin requests \cup serving
    BY <1>2, RepliesDiffer DEF TalkInv
  <2> QED
    BY <1>3, <2>1 DEF Connected
<1> QED
  BY <1>1, <1>2, <1>4, <1>5 DEF CutTasks

LEMMA LossServeFound ==
    ASSUME TypeOK, TalkInv, BoundedIds, BoundedIds', LossInv, ServeFound
    PROVE  LossInv'
<1>1. /\ replies' = [w \in Workers |-> IF w \in serving THEN Found(call.task)
                                                        ELSE replies[w]]
      /\ serving' = {} /\ UNCHANGED <<received, cut>>
      /\ handed' = handed \cup {call.task}
      /\ call.op = "dispatch" /\ call'.op = "none"
  BY DEF ServeFound, DispatchReturn, NoCall, workerVars, faultVars
<1>2. handed \subseteq TaskIds /\ handed' \subseteq TaskIds
  BY DEF BoundedIds
<1>3. \A t : InFlight(t) => InFlight(t)'
  BY <1>1, RepliesDiffer DEF TalkInv, InFlight
<1>4. Lost' \subseteq Lost \cup {call.task}
  BY <1>1, <1>3 DEF Lost, Missed
<1>5. Pending' = 0
  BY <1>1 DEF Pending
<1>6. CASE serving = {}
  <2>1. IsFiniteSet({call.task}) /\ Cardinality({call.task}) = 1
    BY FS_Singleton
  <2>2. Pending = 1 /\ cut' = cut + 0
    BY <1>1, <1>6 DEF Pending, TalkInv
  <2>3. Cardinality({call.task}) + Pending' <= Pending + 0
    BY <1>5, <2>1, <2>2
  <2> QED
    BY <1>1, <1>2, <1>4, <2>1, <2>2, <2>3, LossStep
<1>7. CASE serving # {}
  <2>1. \A t : t = call.task => InFlight(t)'
    <3>1. PICK w \in serving : replies'[w] = Found(call.task)
      BY <1>1, <1>7 DEF TalkInv
    <3> QED
      BY <3>1 DEF TalkInv, InFlight
  <2>2. Lost' \subseteq Lost
    BY <1>4, <2>1 DEF Lost, Missed
  <2>3. Pending' <= Pending
    BY <1>5 DEF Pending
  <2> QED
    BY <1>1, <1>2, <2>2, <2>3, NoLoss
<1> QED
  BY <1>6, <1>7

\* An answer a worker has got is not lost any more.
LEMMA LossReceive ==
    ASSUME TalkInv, DeliveryInv, BoundedIds, LossInv, NEW w \in Workers, Receive(w)
    PROVE  LossInv'
<1>1. /\ replies' = [replies EXCEPT ![w] = NoReply] /\ replies[w] # NoReply
      /\ UNCHANGED <<serving, cut, handed, call>>
  BY DEF Receive, vars, faultVars
<1>2. ASSUME NEW t \in handed, received'[t] = 0
      PROVE  received[t] = 0 /\ (InFlight(t) => InFlight(t)')
  <2>1. t \in TaskIds /\ received \in [TaskIds -> Nat]
    BY DEF BoundedIds, DeliveryInv
  <2>2. CASE replies[w] = NotFound
    <3>1. UNCHANGED received
      BY <2>2 DEF Receive, NotFound
    <3>2. \A v \in Workers : replies[v] = Found(t) => v # w
      BY <2>2, RepliesDiffer
    <3> QED
      BY <1>1, <1>2, <3>1, <3>2 DEF TalkInv, InFlight
  <2>3. ASSUME NEW u \in TaskIds, replies[w] = Found(u)
        PROVE  received[t] = 0 /\ (InFlight(t) => InFlight(t)')
    <3>1. received' = [received EXCEPT ![u] = @ + 1]
      BY <2>3 DEF Receive, Found
    <3>2. t # u /\ received[t] = 0
      BY <1>2, <2>1, <3>1
    <3>3. \A v \in Workers : replies[v] = Found(t) => v # w
      BY <2>3, <3>2, RepliesDiffer
    <3> QED
      BY <1>1, <3>2, <3>3 DEF TalkInv, InFlight
  <2> QED
    BY <1>1, <2>2, <2>3 DEF TalkInv
<1>3. Lost' \subseteq Lost
  BY <1>1, <1>2 DEF Lost, Missed
<1>4. Pending' = Pending
  BY <1>1 DEF Pending
<1>5. Pending' <= Pending
  BY <1>4 DEF Pending
<1> QED
  BY <1>1, <1>3, <1>5, NoLoss DEF BoundedIds

\* A connection that breaks, or a worker that dies, takes one answer along, or
\* the place the answer under way would have gone to.
LEMMA LossOfOne ==
    ASSUME TalkInv, BoundedIds, LossInv, NEW w \in Workers, BreakConnection(w) \/ Die(w)
    PROVE  LossInv'
<1> DEFINE gone == Connected \ Connected'
           n == Cardinality(gone)
<1>1. /\ replies' = [replies EXCEPT ![w] = NoReply] /\ serving' = serving \ {w}
      /\ requests' = requests \ {w}
      /\ UNCHANGED <<received, handed, call>> /\ Fault
  BY DEF BreakConnection, Die, Disconnected, vars
<1>2. cut' = cut + n /\ n \in Nat /\ IsFiniteSet(gone)
  BY <1>1, FaultCounts
<1>3. Lost' \subseteq Lost \cup CutTasks
  BY <1>1, FaultTakesReplies DEF TalkInv
<1>4. IsFiniteSet(CutTasks) /\ Cardinality(CutTasks) \in Nat /\ Cardinality(CutTasks) <= n
  BY CutsAreFew
<1>5. Pending \in Nat /\ Pending' \in Nat /\ Pending' <= 1
  BY DEF Pending
<1>6. Cardinality(CutTasks) + Pending' <= Pending + n
  <2>1. CASE w \in serving
    <3>1. w \in gone
      BY <1>1, <2>1 DEF Connected, TalkInv
    <3>2. n >= 1
      <4>1. IsFiniteSet({w}) /\ Cardinality({w}) = 1
        BY FS_Singleton
      <4>2. Cardinality({w}) <= n
        BY <1>2, <3>1, FS_Subset
      <4> QED
        BY <4>1, <4>2
    <3>3. CutTasks = {}
      <4>1. gone \subseteq {w}
        BY <1>1 DEF Connected, TalkInv
      <4>2. replies[w] = NoReply
        BY <2>1 DEF TalkInv
      <4> QED
        BY <4>1, <4>2, RepliesDiffer DEF CutTasks
    <3>4. Cardinality(CutTasks) = 0
      BY <3>3, FS_EmptySet
    <3>5. n \in Nat
      BY <1>2
    <3>6. \A a, b, c \in Nat : b >= 1 /\ c <= 1 => 0 + c <= a + b
      OBVIOUS
    <3> HIDE DEF n, gone
    <3> QED
      BY <1>5, <3>2, <3>4, <3>5, <3>6, Zenon
  <2>2. CASE w \notin serving
    <3>1. serving' = serving /\ call' = call
      <4>1. \A S : w \notin S => S \ {w} = S
        OBVIOUS
      <4> QED
        BY <1>1, <2>2, <4>1, Zenon
    <3>2. Pending' = Pending
      BY <3>1 DEF Pending
    <3> HIDE DEF n
    <3> QED
      BY <1>2, <1>4, <1>5, <3>2
  <2> QED
    BY <2>1, <2>2
<1> HIDE DEF n
<1> QED
  BY <1>1, <1>2, <1>3, <1>4, <1>6, LossStep DEF BoundedIds

\* The end of the server may take every answer along.
LEMMA LossOfAll ==
    ASSUME TalkInv, BoundedIds, BoundedIds', LossInv,
           ServerGone, handed' \subseteq handed, call' = NoCall
    PROVE  LossInv'
<1> DEFINE n == Cardinality(Connected \ Connected')
<1>1. /\ UNCHANGED received /\ Fault /\ requests' = {} /\ serving' = {}
      /\ Pending' = 0 /\ Pending \in Nat
  BY DEF ServerGone, workerVars, Pending, NoCall
<1>2. handed \subseteq TaskIds /\ handed' \subseteq TaskIds
  BY DEF BoundedIds
<1>3. cut' = cut + n /\ n \in Nat
  BY <1>1, FaultCounts
<1>4. \A w \in Workers : replies'[w] \in {replies[w], NoReply}
  BY DEF ServerGone
<1>5. Lost' \subseteq Lost \cup CutTasks
  BY <1>1, <1>4, FaultTakesReplies
<1>6. IsFiniteSet(CutTasks) /\ Cardinality(CutTasks) \in Nat /\ Cardinality(CutTasks) <= n
  BY CutsAreFew
<1> HIDE DEF n
<1>7. Cardinality(CutTasks) + Pending' <= Pending + n
  BY <1>1, <1>3, <1>6
<1> QED
  BY <1>2, <1>3, <1>5, <1>6, <1>7, LossStep

LEMMA NextLoss ==
    ASSUME TypeOK, TalkInv, DeliveryInv, BoundedIds, BoundedIds', LossInv,
           [ServerNext]_serverVars
    PROVE  LossInv'
<1> DEFINE Quiet == /\ UNCHANGED <<handed, received, cut>>
                    /\ \A w \in Workers, t \in handed : replies[w] = Found(t) =>
                                                        replies'[w] = Found(t)
                    /\ Pending' <= Pending
<1>0. Quiet => LossInv'
  <2> SUFFICES ASSUME Quiet PROVE LossInv'
    OBVIOUS
  <2>1. Lost' \subseteq Lost
    BY DEF Lost, Missed, InFlight
  <2> QED
    BY <2>1, NoLoss DEF BoundedIds
<1>1. ASSUME UNCHANGED <<handed, received, cut, replies>>,
             UNCHANGED <<call, serving>> \/ call'.op # "dispatch"
      PROVE  Quiet
  BY <1>1 DEF Pending
<1>2. UNCHANGED serverVars => Quiet
  BY <1>1 DEF serverVars, vars, httpVars, workerVars, faultVars
<1>3. ServerStart \/ PopulateStep => Quiet
  <2>1. InsertTask => call'.op = "insert"
    BY CallKinds DEF InsertTask, InsertCall
  <2> QED
    BY <1>1, <2>1 DEF ServerStart, Start, PopulateStep, InsertTask, InsertReturn, NoCall,
                      httpVars, workerVars, faultVars
<1>4. ASSUME NEW now \in Times, Populate(now) \/ Idle(now) PROVE Quiet
  <2>1. CASE Idle(now)
    BY <1>1, <2>1 DEF Idle, IdleHandler, httpVars, workerVars, faultVars
  <2>2. CASE Populate(now)
    <3>1. PICK priority \in JobPriorities, status \in InsertStatuses :
            InsertJob(priority, status, now)
      BY <2>2 DEF Populate
    <3>2. call'.op = "insert" /\ UNCHANGED handed
      BY <3>1 DEF InsertJob
    <3> QED
      BY <1>1, <2>2, <3>2 DEF Populate, httpVars, workerVars, faultVars
  <2> QED
    BY <1>4, <2>1, <2>2
<1>5. Listen => Quiet
  BY <1>1 DEF Listen, vars, workerVars, faultVars
<1>6. ASSUME NEW r \in Readers, ServePage(r) \/ Read(r) PROVE Quiet
  BY <1>1, <1>6 DEF ServePage, Read, vars, workerVars, faultVars
<1>7. ASSUME NEW w \in Workers, Ask(w) \/ Fail(w) \/ Wake(w) PROVE Quiet
  BY <1>1, <1>7 DEF Ask, Fail, Wake, vars, httpVars, faultVars
<1>8. ASSUME NEW w \in Workers, NEW now \in Times, ServeGetTask(w, now) PROVE Quiet
  <2>1. UNCHANGED <<handed, received, cut, replies>> /\ serving' = {w}
    BY <1>8 DEF ServeGetTask, DispatchTask, workerVars, faultVars
  <2>2. Pending' <= Pending
    BY <2>1 DEF Pending
  <2> QED
    BY <2>1, <2>2
<1>9. ASSUME NEW w \in Workers, ServeNotFound(w) PROVE Quiet
  <2>1. /\ UNCHANGED <<handed, received, cut, serving, call>>
        /\ replies' = [replies EXCEPT ![w] = NotFound] /\ w \in requests
    BY <1>9 DEF ServeNotFound, vars, workerVars, faultVars
  <2>2. \A v \in Workers, t \in handed : replies[v] = Found(t) => replies'[v] = Found(t)
    BY <2>1, RepliesDiffer DEF TalkInv
  <2>3. Pending' <= Pending
    BY <2>1 DEF Pending
  <2> QED
    BY <2>1, <2>2, <2>3
<1> HIDE DEF Quiet
<1>10. ServeFound => LossInv'
  BY LossServeFound
<1>11. ASSUME NEW w \in Workers, Receive(w) PROVE LossInv'
  BY <1>11, LossReceive
<1>12. ASSUME NEW w \in Workers, BreakConnection(w) \/ Die(w) PROVE LossInv'
  BY <1>12, LossOfOne
<1>13. ServerCrash => LossInv'
  <2>1. ServerCrash => ServerGone /\ handed' \subseteq handed /\ call' = NoCall
    BY DEF ServerCrash, Crash, Exit
  <2> QED
    BY <2>1, LossOfAll
<1>14. ASSUME NEW now \in Times, ServerShutdown(now) PROVE LossInv'
  <2>1. ServerGone /\ handed' \subseteq handed /\ call' = NoCall
    BY <1>14 DEF ServerShutdown, Shutdown, Exit
  <2> QED
    BY <2>1, LossOfAll
<1> QED
  BY <1>0, <1>2, <1>3, <1>4, <1>5, <1>6, <1>7, <1>8, <1>9, <1>10, <1>11, <1>12, <1>13,
     <1>14 DEF ServerNext, LoopStep, WorkerStep

-----------------------------------------------------------------------------
(* The invariants of the server. *)

LEMMA FarmInvariant == ServerSpec => [](IInv /\ TypeOK /\ BoundedIds)
<1>1. IInv => TypeOK
  BY DEF IInv
<1> QED
  BY <1>1, ServerImplementsFarm, IInvInvariant, BoundedInvariant, PTL

LEMMA TalkInvariant == ServerSpec => []TalkInv
<1>1. TypeOK /\ BoundedIds /\ BoundedIds' /\ TalkInv /\ [ServerNext]_serverVars => TalkInv'
  BY NextTalk
<1> QED
  BY <1>1, InitTalk, FarmInvariant, PTL DEF ServerSpec

LEMMA LossInvariant == ServerSpec => []LossInv
<1>1. ServerInit => LossInv
  <2> SUFFICES ASSUME ServerInit PROVE LossInv
    OBVIOUS
  <2>1. Lost = {} /\ Pending = 0 /\ cut = 0
    BY DEF ServerInit, Init, Lost, Missed, Pending, NoCall
  <2>2. Cardinality(Lost) = 0
    BY <2>1, FS_EmptySet
  <2> QED
    BY <2>1, <2>2 DEF LossInv
<1>2. TypeOK /\ TalkInv /\ DeliveryInv /\ BoundedIds /\ BoundedIds' /\ LossInv
        /\ [ServerNext]_serverVars => LossInv'
  BY NextLoss
<1> QED
  BY <1>1, <1>2, FarmInvariant, TalkInvariant, DeliveryInvariant, PTL DEF ServerSpec

\* Crashes, shutdowns, broken connections and dead workers lose at most one
\* dispatched task for each request or reply of a worker they take away.
THEOREM LossesAreBounded == ServerSpec => []LossIsBounded
<1>1. TalkInv /\ BoundedIds /\ LossInv => LossIsBounded
  <2> SUFFICES ASSUME TalkInv, BoundedIds, LossInv PROVE LossIsBounded
    OBVIOUS
  <2>1. Cardinality(Lost) \in Nat /\ cut \in Nat
    BY CountingLosses DEF TalkInv, BoundedIds
  <2>2. Cardinality(Lost) + Pending <= cut /\ Pending \in Nat
    BY DEF LossInv, Pending
  <2>3. Cardinality(Lost) <= cut
    BY <2>1, <2>2
  <2> QED
    BY <2>3 DEF Lost, LossIsBounded
<1> QED
  BY <1>1, FarmInvariant, TalkInvariant, LossInvariant, PTL

-----------------------------------------------------------------------------
(* All done. *)

\* Where a task is that was not handed out yet.
Ahead(t) ==
    \/ t \in tasks_queue_
    \/ call.op = "insert" /\ tasks_[t].job = call.job
    \/ call.op = "dispatch" /\ t = call.task

\* Who has said, or is about to say, that all is done.
Finished == \E w \in Workers : workers[w] = "done" \/ replies[w] = NotFound

\* While the server stays up there is but one process, which starts with no
\* task, so that it reads all there is, queues all that it inserts before it
\* listens, and says 404 when the queue is empty.
CleanInv ==
    /\ phase = "down" => storage_.disk.tasks = <<>>
    /\ unread.tasks = {}
    /\ \A t \in DOMAIN tasks_ : Ahead(t) \/ t \in handed
    /\ Finished => listening /\ call = NoCall /\ tasks_queue_ = {}

DoneInv == outages = 0 => CleanInv

\* Each step of the farm leaves a task ahead or hands it out.
LEMMA NextAhead ==
    ASSUME IInv, IInv', CleanInv, [Next]_vars, ~Crash, ~(\E now \in Times : Shutdown(now))
    PROVE  /\ unread'.tasks = {}
           /\ \A t \in DOMAIN tasks_' : Ahead(t)' \/ t \in handed'
<1> DEFINE Goal == /\ unread'.tasks = {}
                   /\ \A t \in DOMAIN tasks_' : Ahead(t)' \/ t \in handed'
<1>1. CASE UNCHANGED vars
  BY <1>1 DEF vars, CleanInv, Ahead
<1>2. CASE Start
  <2>1. storage_'.db.tasks = <<>>
    BY <1>2, StartReads DEF CleanInv
  <2>2. DOMAIN storage_'.db.tasks = {}
    BY <2>1
  <2>3. /\ tasks_' = Loaded(storage_'.db.tasks, unread'.tasks)
        /\ unread' \in [jobs : SUBSET (DOMAIN storage_'.db.jobs),
                        tasks : SUBSET (DOMAIN storage_'.db.tasks)]
    BY <1>2, StartReads
  <2> QED
    BY <2>2, <2>3 DEF Loaded
<1>3. ASSUME NEW priority \in JobPriorities, NEW status \in InsertStatuses,
             NEW now \in Times, InsertJob(priority, status, now)
      PROVE  Goal
  <2>1. call.op = "none" /\ UNCHANGED <<tasks_, unread, tasks_queue_, handed>>
    BY <1>3, InsertJobWrites
  <2> QED
    BY <2>1 DEF CleanInv, Ahead
<1>4. CASE InsertTask
  <2>1. /\ UNCHANGED <<jobs_, unread, tasks_queue_, handed>>
        /\ call.op = "insert" /\ call'.op = "insert" /\ call'.job = call.job
    BY <1>4, InsertTaskWrites
  <2>2. tasks_' = With(tasks_, Len(storage_'.db.tasks),
                      [job |-> call.job, status |-> "WAITING"])
    BY <1>4 DEF InsertTask
  <2>3. ASSUME NEW t \in DOMAIN tasks_'
        PROVE  \/ t \in DOMAIN tasks_ /\ tasks_'[t] = tasks_[t]
               \/ tasks_'[t].job = call.job
    BY <2>2 DEF With
  <2> QED
    BY <2>1, <2>3 DEF CleanInv, Ahead
<1>5. CASE InsertReturn
  <2>1. /\ call.op = "insert" /\ UNCHANGED <<tasks_, unread, handed>>
        /\ tasks_queue_' =
             tasks_queue_ \cup {t \in DOMAIN tasks_ : tasks_[t].job = call.job}
    BY <1>5 DEF InsertReturn
  <2> QED
    BY <2>1 DEF CleanInv, Ahead
<1>6. ASSUME NEW t \in tasks_queue_, NEW now \in Times, DispatchTask(t, now)
      PROVE  Goal
  <2>1. /\ call.op = "none" /\ call'.op = "dispatch" /\ call'.task = t
        /\ tasks_queue_' = tasks_queue_ \ {t} /\ UNCHANGED <<unread, handed>>
        /\ DOMAIN tasks_' = DOMAIN tasks_
    BY <1>6, DispatchTaskWrites
  <2> QED
    BY <2>1 DEF CleanInv, Ahead
<1>7. CASE DispatchReturn
  <2>1. /\ call.op = "dispatch" /\ handed' = handed \cup {call.task}
        /\ UNCHANGED <<tasks_, unread, tasks_queue_>>
    BY <1>7 DEF DispatchReturn
  <2> QED
    BY <2>1 DEF CleanInv, Ahead
<1>8. ASSUME NEW now \in Times, IdleHandler(now)
      PROVE  Goal
  <2>1. UNCHANGED <<tasks_, unread, tasks_queue_, call, handed>>
    BY <1>8 DEF IdleHandler
  <2> QED
    BY <2>1 DEF CleanInv, Ahead
<1> QED
  BY <1>1, <1>2, <1>3, <1>4, <1>5, <1>6, <1>7, <1>8 DEF Next, TimedNext, UntimedNext

\* Nobody who has said that all is done is proved wrong.
LEMMA NextFinished ==
    ASSUME IInv, TalkInv, ShownInv, CleanInv, [ServerNext]_serverVars,
           outages' = outages
    PROVE  Finished' => listening' /\ call' = NoCall /\ tasks_queue_' = {}
<1> DEFINE Same == UNCHANGED <<workers, replies, listening, call, tasks_queue_>>
<1>0. /\ listening => phase = "up" /\ call.op # "insert"
      /\ Finished => listening /\ call = NoCall /\ tasks_queue_ = {}
      /\ NoCall.op = "none"
  BY DEF ShownInv, CleanInv, NoCall
<1>1. UNCHANGED <<workers, replies>> => (Finished' <=> Finished)
  BY DEF Finished
<1>2. Same => (Finished' => listening' /\ call' = NoCall /\ tasks_queue_' = {})
  BY <1>0, <1>1
<1>3. UNCHANGED serverVars => Same
  BY DEF serverVars, vars, httpVars, workerVars
<1>4. ServerStart => ~Finished /\ UNCHANGED <<workers, replies>>
  BY <1>0 DEF ServerStart, Start, httpVars, workerVars
<1>5. \A now \in Times : Populate(now) => ~Finished /\ UNCHANGED <<workers, replies>>
  BY <1>0 DEF Populate, httpVars, workerVars
<1>6. PopulateStep => ~Finished /\ UNCHANGED <<workers, replies>>
  BY <1>0 DEF PopulateStep, InsertTask, InsertReturn, httpVars, workerVars
<1>7. Listen => ~Finished /\ UNCHANGED <<workers, replies>>
  BY <1>0 DEF Listen, workerVars
<1>8. \A w \in Workers, now \in Times :
        ServeGetTask(w, now) => ~Finished /\ UNCHANGED <<workers, replies>>
  BY <1>0 DEF ServeGetTask, workerVars
<1>9. ASSUME ServeFound PROVE ~Finished'
  <2>1. /\ replies' = [w \in Workers |-> IF w \in serving THEN Found(call.task)
                                                          ELSE replies[w]]
        /\ UNCHANGED workers /\ call.op = "dispatch"
    BY <1>9 DEF ServeFound, DispatchReturn, workerVars
  <2>2. ~Finished
    BY <1>0, <2>1
  <2>3. \A w \in Workers : replies'[w] # NotFound
    BY <2>1, <2>2, RepliesDiffer DEF Finished
  <2> QED
    BY <2>1, <2>2, <2>3 DEF Finished
<1>10. ASSUME NEW w \in Workers, ServeNotFound(w)
       PROVE  listening' /\ call' = NoCall /\ tasks_queue_' = {}
  BY <1>10 DEF ServeNotFound, vars
<1>11. ASSUME NEW r \in Readers, ServePage(r) \/ Read(r) PROVE Same
  BY <1>11 DEF ServePage, Read, vars, workerVars
<1>12. ASSUME NEW now \in Times, Idle(now) PROVE Same
  BY <1>12 DEF Idle, IdleHandler, httpVars, workerVars
<1>13. ASSUME NEW w \in Workers, WorkerStep(w)
       PROVE  UNCHANGED <<listening, call, tasks_queue_>> /\ (Finished' => Finished)
  <2>1. UNCHANGED <<listening, call, tasks_queue_>>
    BY <1>13 DEF WorkerStep, Ask, Receive, Fail, Wake, vars, httpVars
  <2>2. CASE Ask(w) \/ Fail(w) \/ Wake(w)
    <3>1. UNCHANGED replies /\ \E state \in WorkerState \ {"done"} :
                                 workers' = [workers EXCEPT ![w] = state]
      BY <2>2 DEF Ask, Fail, Wake, httpVars, WorkerState
    <3> QED
      BY <2>1, <3>1 DEF Finished, TalkInv
  <2>3. CASE Receive(w)
    <3>1. replies' = [replies EXCEPT ![w] = NoReply] /\ replies[w] # NoReply
      BY <2>3 DEF Receive
    <3>2. CASE replies[w].status = "200"
      <4>1. workers' = [workers EXCEPT ![w] = "asking"]
        BY <2>3, <3>2 DEF Receive
      <4>2. NoReply # NotFound
        BY DEF NoReply, NotFound
      <4> QED
        BY <2>1, <3>1, <4>1, <4>2 DEF Finished, TalkInv
    <3>3. CASE replies[w].status # "200"
      <4>1. replies[w] = NotFound
        BY <3>1, <3>3 DEF TalkInv, Found
      <4> QED
        BY <2>1, <4>1 DEF Finished
    <3> QED
      BY <3>2, <3>3
  <2> QED
    BY <1>13, <2>1, <2>2, <2>3 DEF WorkerStep
<1>14. ASSUME NEW w \in Workers, BreakConnection(w) \/ Die(w)
       PROVE  UNCHANGED <<listening, call, tasks_queue_>> /\ (Finished' => Finished)
  <2>1. /\ UNCHANGED <<listening, call, tasks_queue_>>
        /\ replies' = [replies EXCEPT ![w] = NoReply]
        /\ UNCHANGED workers \/ workers' = [workers EXCEPT ![w] = "dead"]
    BY <1>14 DEF BreakConnection, Die, Disconnected, vars
  <2>2. NoReply # NotFound
    BY DEF NoReply, NotFound
  <2> QED
    BY <2>1, <2>2 DEF Finished, TalkInv
<1>15. ~ServerCrash /\ \A now \in Times : ~ServerShutdown(now)
  BY DEF ServerCrash, ServerShutdown, ServerGone, TalkInv
<1> HIDE DEF Same
<1>16. LoopStep => (Finished' => listening' /\ call' = NoCall /\ tasks_queue_' = {})
  BY <1>1, <1>2, <1>6, <1>7, <1>8, <1>9, <1>10, <1>11, <1>12 DEF LoopStep
<1> QED
  BY <1>0, <1>1, <1>2, <1>3, <1>4, <1>5, <1>11, <1>13, <1>14, <1>15, <1>16 DEF ServerNext

LEMMA NextDone ==
    ASSUME IInv, IInv', TalkInv, TalkInv', ShownInv, DoneInv, [ServerNext]_serverVars
    PROVE  DoneInv'
<1> SUFFICES ASSUME outages' = 0 PROVE CleanInv'
  BY DEF DoneInv
<1>1. ~ServerGone
  BY DEF ServerGone, TalkInv
<1>2. outages' = outages
  BY <1>1 DEF ServerNext, LoopStep, WorkerStep, serverVars, faultVars, ServerStart, Populate,
         PopulateStep, Listen, ServeGetTask, ServeFound, ServeNotFound, ServePage, Idle,
         Ask, Receive, Fail, Wake, Read, BreakConnection, Die, Disconnected, ServerCrash,
         ServerShutdown
<1>3. CleanInv
  BY <1>2 DEF DoneInv
<1>4. ~ServerCrash /\ \A now \in Times : ~ServerShutdown(now)
  BY <1>1 DEF ServerCrash, ServerShutdown
<1>5. [Next]_vars
  BY ServerStepIsFarmStep
<1>6. UNCHANGED vars \/ phase' = "up"
  <2>1. /\ ServerStart => phase' = "up"
        /\ \A now \in Times : Populate(now) => phase' = "up"
        /\ \A now \in Times : Idle(now) => phase' = "up"
    BY DEF ServerStart, Start, Populate, InsertJob, Idle, IdleHandler
  <2>2. \A w \in Workers, now \in Times : ServeGetTask(w, now) => phase' = "up"
    BY DEF ServeGetTask, DispatchTask
  <2>3. PopulateStep \/ ServeFound => phase' = "up"
    <3>1. call.op = "insert" \/ call.op = "dispatch" => phase = "up"
      BY DEF IInv, TypeOK, DownIsEmpty, NoCall
    <3> QED
      BY <3>1 DEF PopulateStep, InsertTask, InsertReturn, ServeFound, DispatchReturn
  <2>4. UNCHANGED serverVars => UNCHANGED vars
    BY DEF serverVars
  <2> QED
    BY <1>4, <2>1, <2>2, <2>3, <2>4, ClientsLeaveTheFarm DEF ServerNext, LoopStep
<1>7. /\ unread'.tasks = {}
      /\ \A t \in DOMAIN tasks_' : Ahead(t)' \/ t \in handed'
  <2>1. CASE UNCHANGED vars
    BY <1>3, <2>1 DEF vars, CleanInv, Ahead
  <2>2. CASE phase' = "up"
    <3>1. ~Crash /\ \A now \in Times : ~Shutdown(now)
      BY <2>2 DEF Crash, Shutdown, Exit
    <3> QED
      BY <1>3, <1>5, <3>1, NextAhead
  <2> QED
    BY <1>6, <2>1, <2>2
<1>8. phase' = "down" => storage_'.disk.tasks = <<>>
  BY <1>3, <1>6 DEF vars, CleanInv
<1>9. Finished' => listening' /\ call' = NoCall /\ tasks_queue_' = {}
  BY <1>2, <1>3, NextFinished
<1> QED
  BY <1>7, <1>8, <1>9 DEF CleanInv

\* When a worker says "All done!" and the server has not gone away, each task
\* of the farm was received or is on its way to another worker, but for as many
\* as broken connections and dead workers took along.
THEOREM AllDone == ServerSpec => []AllDoneIsTrue
<1>1. ServerInit => DoneInv
  <2> SUFFICES ASSUME ServerInit PROVE CleanInv
    BY DEF DoneInv
  <2>1. /\ storage_ = SqlOpen(EmptyDatabase) /\ tasks_ = <<>>
        /\ unread = NothingUnread
        /\ replies = [w \in Workers |-> NoReply]
        /\ workers = [w \in Workers |-> "asking"]
    BY DEF ServerInit, Init
  <2>2. storage_.disk.tasks = <<>> /\ unread.tasks = {}
    BY <2>1 DEF SqlOpen, EmptyDatabase, NothingUnread
  <2>3. ~Finished
    BY <2>1 DEF Finished, NoReply, NotFound
  <2> QED
    BY <2>1, <2>2, <2>3 DEF CleanInv
<1>2. IInv /\ IInv' /\ TalkInv /\ TalkInv' /\ ShownInv /\ DoneInv
        /\ [ServerNext]_serverVars => DoneInv'
  BY NextDone
<1>3. ServerSpec => []DoneInv
  BY <1>1, <1>2, FarmInvariant, TalkInvariant, ShownInvariant, PTL DEF ServerSpec
<1>4. IInv /\ BoundedIds /\ TalkInv /\ ShownInv /\ LossInv /\ DoneInv => AllDoneIsTrue
  <2> SUFFICES ASSUME IInv, BoundedIds, TalkInv, ShownInv, LossInv, CleanInv, Finished
               PROVE  Cardinality(Missed(DOMAIN storage_.db.tasks)) <= cut
    BY DEF AllDoneIsTrue, DoneInv, Finished
  <2>1. phase = "up" /\ call.op = "none" /\ tasks_queue_ = {} /\ unread.tasks = {}
    BY DEF CleanInv, ShownInv, NoCall
  <2>2. DOMAIN storage_.db.tasks = DOMAIN tasks_
    BY <2>1, MemoryIsPart DEF IInv
  <2>3. DOMAIN tasks_ \subseteq handed
    BY <2>1 DEF CleanInv, Ahead
  <2>4. Missed(DOMAIN storage_.db.tasks) \subseteq Lost
    BY <2>2, <2>3 DEF Lost, Missed
  <2> DEFINE missed == Missed(DOMAIN storage_.db.tasks)
  <2>5. IsFiniteSet(Lost) /\ Cardinality(Lost) \in Nat
    BY CountingLosses DEF BoundedIds
  <2>6. Cardinality(missed) <= Cardinality(Lost) /\ Cardinality(missed) \in Nat
    BY <2>4, <2>5, FS_Subset, FS_CardinalityType
  <2>7. Cardinality(Lost) + Pending <= cut /\ Pending \in Nat /\ cut \in Nat
    BY DEF LossInv, Pending, TalkInv
  <2> HIDE DEF missed
  <2>8. Cardinality(missed) <= cut
    BY <2>5, <2>6, <2>7
  <2> QED
    BY <2>8 DEF missed
<1> QED
  BY <1>3, <1>4, FarmInvariant, TalkInvariant, ShownInvariant, LossInvariant, PTL

-----------------------------------------------------------------------------

\* The variables of the server and of its clients keep their types: every
\* answer names a task there is.
THEOREM ServerTypeCorrect == ServerSpec => []ServerTypeOK
<1>1. IInv /\ TypeOK /\ TalkInv /\ DeliveryInv /\ ShownInv => ServerTypeOK
  <2> SUFFICES ASSUME IInv, TypeOK, TalkInv, DeliveryInv, ShownInv PROVE ServerTypeOK
    OBVIOUS
  <2>1. shown \subseteq [id : Nat, priority : JobPriorities, status : {"waiting"}]
    <3>1. storage_.disk.jobs \in Seq(JobRow)
      BY DEF TypeOK, Connection, Database
    <3>2. \A j \in DOMAIN storage_.disk.jobs :
            j \in Nat /\ storage_.disk.jobs[j].priority \in JobPriorities
      <4> SUFFICES ASSUME NEW rows \in Seq(JobRow), NEW j \in DOMAIN rows
                   PROVE  j \in Nat /\ rows[j].priority \in JobPriorities
        BY <3>1
      <4>1. rows[j] \in JobRow
        OBVIOUS
      <4> QED
        BY <4>1 DEF JobRow
    <3>3. ASSUME NEW json \in shown
          PROVE  json \in [id : Nat, priority : JobPriorities, status : {"waiting"}]
      <4> DEFINE j == json.id
      <4>1. /\ j \in DOMAIN storage_.disk.jobs
            /\ json = [id |-> j, priority |-> storage_.disk.jobs[j].priority,
                       status |-> "waiting"]
        BY DEF ShownInv
      <4> HIDE DEF j
      <4> QED
        BY <3>2, <4>1
    <3> QED
      BY <3>3
  <2>2. {faults, outages} \subseteq 0..MaxFaults
    BY ServerAssumption DEF TalkInv
  <2> QED
    BY <2>1, <2>2 DEF ServerTypeOK, TalkInv, DeliveryInv
<1> QED
  BY <1>1, FarmInvariant, TalkInvariant, DeliveryInvariant, ShownInvariant, PTL

=============================================================================
