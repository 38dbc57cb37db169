--------------------------- MODULE RegistryProofs ---------------------------
(* Proofs about Registry, for every value of the constants.                 *)
EXTENDS Registry, DeliveryRefinement

(***************************************************************************)
(* The composition adds no step to the pipeline: what is proved of Delivery *)
(* holds beside the handler that registers endpoints.                       *)
(***************************************************************************)

LEMMA RegistryStep == [RegistryNext]_<<vars, registry>> => [Next]_vars
<1> SUFFICES ASSUME [RegistryNext]_<<vars, registry>> PROVE [Next]_vars
  OBVIOUS
<1>1. CASE PipelineStep
  BY <1>1 DEF PipelineStep
<1>2. ASSUME NEW ep \in Endpoint, Registering(ep) PROVE [Next]_vars
  BY <1>2 DEF Registering, Flush, Respond, CommitSession, RollBack, Next, AdminStep
<1> QED BY <1>1, <1>2 DEF RegistryNext

\* The pipeline behind the handler keeps the promises of Delivery.
THEOREM RegistryIsDelivery == RegistrySpec => Spec
  BY RegistryStep, PTL DEF RegistrySpec, Spec

(***************************************************************************)
(* What was promised is active until an operator deactivates it, so that a  *)
(* dispatcher that reads the endpoints, or dies before it does, accounts    *)
(* for all of it.                                                           *)
(***************************************************************************)

ReadOrOwed(e, ep) ==
  Undispatched(e) \/ ep \in owed[e] \/ ep \in dropped[e] \/ "api" \in lost[e]

PromisedActive ==
  /\ promised \in [Event -> SUBSET Endpoint]
  /\ \A e \in Event : promised[e] \subseteq active

\* A registration stutters for the pipeline, or makes one more endpoint active.
LEMMA RegisteringKeeps ==
  ASSUME NEW ep \in Endpoint, Registering(ep)
  PROVE  /\ UNCHANGED <<promised, api, broker, workers, owed, dropped, lost>>
         /\ active \subseteq active'
<1>1. CASE CommitSession(ep)
  BY <1>1 DEF CommitSession, Register, history
<1>2. CASE ~CommitSession(ep)
  BY <1>2 DEF Registering, Flush, Respond, RollBack, vars, db, history
<1> QED BY <1>1, <1>2

\* Nothing but an operator makes an endpoint inactive.
LEMMA PromisedActiveNext ==
  TypeOK /\ PromisedActive /\ [RegistryNext]_<<vars, registry>> => PromisedActive'
<1> SUFFICES ASSUME TypeOK, PromisedActive, [RegistryNext]_<<vars, registry>> PROVE PromisedActive'
  OBVIOUS
<1>1. CASE PipelineStep
  <2>2. promised' = [e \in Event |->
          IF status[e] = "ABSENT" /\ status'[e] # "ABSENT" THEN Answered201 \cap active
          ELSE promised[e] \ (active \ active')]
    BY <1>1 DEF PipelineStep, Remember
  <2>3. ASSUME NEW e \in Event, status[e] = "ABSENT", status'[e] # "ABSENT" PROVE active' = active
    BY <1>1, <2>3 DEF PipelineStep, Next, ApiStep, Ingest, ReplayRead, ReplayCommit, Enqueue, ApiFails,
         AdminStep, Register, Deactivate, WindowExpires, CountdownElapses, WorkerStep, Take,
         DispatchToNobody, Dispatch, FanOut, Admit, FailOpen, Throttle, ThrottleOut, Post, Record,
         Retry, Ack, TaskDies, WorkerCrash, db
  <2>4. promised' \in [Event -> SUBSET Endpoint]
    BY <2>2 DEF PromisedActive, Answered201
  <2> QED BY <2>2, <2>3, <2>4 DEF PromisedActive
<1>2. ASSUME NEW ep \in Endpoint, Registering(ep) PROVE PromisedActive'
  BY <1>2, RegisteringKeeps DEF PromisedActive
<1>3. CASE UNCHANGED <<vars, registry>>
  BY <1>3 DEF PromisedActive, vars, registry, db
<1> QED BY <1>1, <1>2, <1>3 DEF RegistryNext

\* What a step leaves alone stays read, owed, given up or unread.
LEMMA ReadKept ==
  ASSUME NEW e \in Event, NEW ep \in Endpoint, ReadOrOwed(e, ep),
         unqueued[e] > 0 => unqueued'[e] > 0,
         queue[Dispatcher(e)] > 0 => queue'[Dispatcher(e)] > 0,
         \A w \in Worker : pc[w] = "dispatch" /\ task[w].ev = e =>
                             pc'[w] = "dispatch" /\ task'[w].ev = e,
         ep \in owed[e] => ep \in owed'[e],
         dropped[e] \subseteq dropped'[e], lost[e] \subseteq lost'[e]
  PROVE  ReadOrOwed(e, ep)'
  BY DEF ReadOrOwed, Undispatched

\* An event is posted by Ingest, whose request then pushes its dispatcher.
LEMMA PostedUnread ==
  ASSUME TypeOK, KnownEvents, Next, NEW e \in Event,
         status[e] = "ABSENT", status'[e] # "ABSENT"
  PROVE  unqueued'[e] > 0
<1>1. Unknown(e)
  BY DEF KnownEvents
<1>2. ASSUME NEW x \in Event, ApiStep(x) PROVE unqueued'[e] > 0
  BY <1>2 DEF ApiStep, Ingest, ReplayRead, ReplayCommit, Enqueue, ApiFails, TypeOK, db
<1>3. ASSUME NEW w \in Worker, WorkerStep(w) PROVE FALSE
  <2>1. pc[w] # "idle" => task[w].ev # e
    BY <1>1 DEF Unknown
  <2>2. CASE Record(w) \/ DispatchToNobody(w)
    BY <2>1, <2>2 DEF Record, DispatchToNobody, TypeOK
  <2>3. CASE ~(Record(w) \/ DispatchToNobody(w))
    BY <1>3, <2>3 DEF WorkerStep, Take, Dispatch, FanOut, Admit, FailOpen, Throttle,
                      ThrottleOut, Post, Retry, Ack, db
  <2> QED BY <2>2, <2>3
<1> QED BY <1>2, <1>3 DEF Next, AdminStep, Register, Deactivate, WindowExpires, CountdownElapses,
                          TaskDies, WorkerCrash, db

\* The steps of the pipeline, for an endpoint that was promised before.
LEMMA ReadNext ==
  ASSUME TypeOK, Next, NEW e \in Event, NEW ep \in active, ep \in active', ReadOrOwed(e, ep)
  PROVE  ReadOrOwed(e, ep)'
<1>0. TypeOK' /\ ep \in Endpoint
  BY TypeNext DEF TypeOK
<1>d. Dispatcher(e) \in Task /\ Dispatcher(e).ev = e /\ Dispatcher(e) \notin DeliverTask
  BY DispatcherType DEF Dispatcher, DeliverTask
<1>e. dropped[e] \subseteq dropped'[e] /\ dropped'[e] \subseteq Endpoint
  <2>1. \A x \in Endpoint : x \in dropped[e] => x \in dropped'[e]
    BY ClosedKept
  <2> QED BY <1>0, <2>1 DEF TypeOK
<1>1. ASSUME NEW x \in Event, ApiStep(x) PROVE ReadOrOwed(e, ep)'
  <2>1. UNCHANGED <<workers, owed>>
    BY <1>1 DEF ApiStep, Ingest, ReplayRead, ReplayCommit, Enqueue, ApiFails, history
  <2>2. CASE Enqueue(x)
    <3>1. queue' = [queue EXCEPT ![Dispatcher(x)] = @ + 1] /\ UNCHANGED lost
      BY <2>2 DEF Enqueue, history
    <3>2. PICK m \in Task : m = Dispatcher(x)
      BY DispatcherType
    <3>3. \A t \in Task : queue[t] > 0 => queue'[t] > 0
      BY <3>1, <3>2 DEF TypeOK
    <3>4. CASE x = e
      <4>1. queue'[Dispatcher(e)] > 0
        BY <1>d, <3>1, <3>4 DEF TypeOK
      <4> QED BY <4>1 DEF ReadOrOwed, Undispatched
    <3>5. CASE x # e
      <4>1. unqueued'[e] = unqueued[e]
        BY <2>2, <3>5 DEF Enqueue, TypeOK
      <4> QED BY <1>0, <1>d, <1>e, <2>1, <3>1, <3>3, <4>1, ReadKept DEF workers
    <3> QED BY <3>4, <3>5
  <2>3. CASE ApiFails(x)
    <3>1. CASE x = e
      BY <2>3, <3>1 DEF ApiFails, ReadOrOwed, TypeOK
    <3>2. CASE x # e
      BY <1>0, <1>e, <2>1, <2>3, <3>2, ReadKept DEF ApiFails, broker, workers, TypeOK
    <3> QED BY <3>1, <3>2
  <2>4. CASE Ingest(x) \/ ReplayRead(x) \/ ReplayCommit(x)
    <3>1. UNCHANGED <<queue, lost>>
      BY <2>4 DEF Ingest, ReplayRead, ReplayCommit, broker, history
    <3>2. unqueued[e] > 0 => unqueued'[e] > 0
      <4>1. unqueued \in [Event -> Nat]
        BY DEF TypeOK
      <4>2. unqueued' = unqueued \/ unqueued' = [unqueued EXCEPT ![x] = @ + 1]
        BY <2>4 DEF Ingest, ReplayRead, ReplayCommit
      <4> QED BY <4>1, <4>2
    <3> QED BY <1>0, <1>e, <2>1, <3>1, <3>2, ReadKept DEF workers
  <2> QED BY <1>1, <2>2, <2>3, <2>4 DEF ApiStep
<1>2. ASSUME NEW x \in Endpoint, AdminStep(x) \/ WindowExpires(x) PROVE ReadOrOwed(e, ep)'
  <2>1. UNCHANGED <<api, broker, workers, lost>>
    BY <1>2 DEF AdminStep, Register, Deactivate, WindowExpires, history
  <2>2. ep \in owed[e] => ep \in owed'[e]
    BY <1>2 DEF AdminStep, Register, Deactivate, WindowExpires, history, db, TypeOK
  <2> QED BY <1>0, <1>e, <2>1, <2>2, ReadKept DEF api, broker, workers
<1>3. ASSUME NEW t \in DeliverTask, CountdownElapses(t) PROVE ReadOrOwed(e, ep)'
  <2>1. UNCHANGED <<api, workers, history>>
    BY <1>3 DEF CountdownElapses
  <2>2. queue'[Dispatcher(e)] = queue[Dispatcher(e)]
    BY <1>3, <1>d, TaskFields DEF CountdownElapses, TypeOK
  <2> QED BY <1>0, <1>e, <2>1, <2>2, ReadKept DEF api, workers, history
<1>4. ASSUME NEW w \in Worker, WorkerStep(w) PROVE ReadOrOwed(e, ep)'
  <2>0. UNCHANGED api
    BY <1>4 DEF WorkerStep, Take, DispatchToNobody, Dispatch, FanOut, Admit, FailOpen, Throttle,
                ThrottleOut, Post, Record, Retry, Ack
  <2>1. ASSUME NEW t \in Task, Take(w, t) PROVE ReadOrOwed(e, ep)'
    <3>1. /\ \A v \in Worker \ {w} : pc'[v] = pc[v] /\ task'[v] = task[v]
          /\ pc[w] = "idle" /\ UNCHANGED history
      BY <2>1 DEF Take, TypeOK
    <3>2. CASE t = Dispatcher(e)
      <4>1. pc'[w] = "dispatch" /\ task'[w].ev = e
        BY <1>d, <2>1, <3>2 DEF Take, TypeOK, Dispatcher
      <4> QED BY <4>1 DEF ReadOrOwed, Undispatched
    <3>3. CASE t # Dispatcher(e)
      <4>1. queue'[Dispatcher(e)] = queue[Dispatcher(e)]
        BY <1>d, <2>1, <3>3 DEF Take, TypeOK
      <4> QED BY <1>0, <1>e, <2>0, <3>1, <4>1, ReadKept DEF api, history
    <3> QED BY <3>2, <3>3
  <2>2. CASE DispatchToNobody(w)
    BY <2>2 DEF DispatchToNobody
  <2>3. CASE Dispatch(w)
    <3>1. \A v \in Worker \ {w} : pc'[v] = pc[v] /\ task'[v] = task[v]
      BY <2>3 DEF Dispatch, TypeOK
    <3>2. task[w] \in DispatchTask /\ task[w].ev \in Event
      BY <2>3, TaskFields DEF Dispatch, TypeOK
    <3>3. CASE task[w].ev = e
      BY <2>3, <3>3 DEF Dispatch, ReadOrOwed, TypeOK
    <3>4. CASE task[w].ev # e
      BY <1>0, <1>e, <2>0, <2>3, <3>1, <3>2, <3>4, ReadKept DEF Dispatch, broker, api, TypeOK
    <3> QED BY <3>3, <3>4
  <2>4. CASE Throttle(w) \/ Retry(w) \/ \E x \in Endpoint : FanOut(w, x)
    <3>1. PICK m \in Task : queue' = [queue EXCEPT ![m] = @ + 1] \/ queue' = queue
      <4>1. CASE Retry(w)
        BY <4>1, NextTryType DEF Retry, TypeOK
      <4>2. CASE Throttle(w)
        BY <4>2, <1>d DEF Throttle
      <4>3. ASSUME NEW x \in Endpoint, FanOut(w, x)
            PROVE  \E m \in Task : queue' = [queue EXCEPT ![m] = @ + 1]
        BY <4>3, TaskFields, DeliveryType DEF FanOut, TypeOK
      <4> QED BY <2>4, <4>1, <4>2, <4>3
    <3>2. \A u \in Task : queue[u] > 0 => queue'[u] > 0
      <4>1. queue \in [Task -> Nat]
        BY DEF TypeOK
      <4> QED BY <3>1, <4>1
    <3>3. /\ UNCHANGED <<task, owed, lost>> /\ pc[w] # "dispatch"
          /\ \A v \in Worker \ {w} : pc'[v] = pc[v]
      BY <2>4 DEF Throttle, Retry, FanOut, TypeOK, history
    <3> QED BY <1>0, <1>d, <1>e, <2>0, <3>2, <3>3, ReadKept DEF api
  <2>5. CASE Admit(w) \/ FailOpen(w) \/ ThrottleOut(w) \/ Record(w) \/ \E o \in Outcome : Post(w, o)
    <3>1. /\ UNCHANGED <<queue, task, owed>> /\ pc[w] # "dispatch"
          /\ \A v \in Worker \ {w} : pc'[v] = pc[v]
      BY <2>5 DEF Admit, FailOpen, ThrottleOut, Record, Post, TypeOK, history, broker
    <3>2. lost[e] \subseteq lost'[e]
      <4>1. CASE ThrottleOut(w)
        BY <4>1 DEF ThrottleOut, TypeOK
      <4>2. CASE ~ThrottleOut(w)
        BY <2>5, <4>2 DEF Admit, FailOpen, Record, Post, history
      <4> QED BY <4>1, <4>2
    <3> QED BY <1>0, <1>e, <2>0, <3>1, <3>2, ReadKept DEF api
  <2>6. CASE Ack(w)
    <3>1. /\ UNCHANGED <<broker, history>> /\ pc[w] # "dispatch"
          /\ \A v \in Worker \ {w} : pc'[v] = pc[v] /\ task'[v] = task[v]
      BY <2>6 DEF Ack, Free, TypeOK
    <3> QED BY <1>0, <1>e, <2>0, <3>1, ReadKept DEF api, broker, history
  <2> QED BY <1>4, <2>1, <2>2, <2>3, <2>4, <2>5, <2>6 DEF WorkerStep
<1>5. ASSUME NEW w \in Worker, TaskDies(w) PROVE ReadOrOwed(e, ep)'
  <2>1. /\ UNCHANGED <<broker, api, owed>>
        /\ \A v \in Worker \ {w} : pc'[v] = pc[v] /\ task'[v] = task[v]
    BY <1>5 DEF TaskDies, Free, TypeOK
  <2>2. lost[e] \subseteq lost'[e]
    BY <1>5 DEF TaskDies, TypeOK
  <2>3. CASE pc[w] = "dispatch" /\ task[w].ev = e
    BY <1>5, <2>3 DEF TaskDies, Undone, ReadOrOwed, TypeOK
  <2>4. CASE ~(pc[w] = "dispatch" /\ task[w].ev = e)
    BY <1>0, <1>e, <2>1, <2>2, <2>4, ReadKept DEF api, broker
  <2> QED BY <2>3, <2>4
<1>6. ASSUME NEW w \in Worker, WorkerCrash(w) PROVE ReadOrOwed(e, ep)'
  <2>0. PICK t \in Task : t = task[w]
    BY <1>6 DEF WorkerCrash, TypeOK
  <2>1. /\ UNCHANGED <<api, history>>
        /\ \A v \in Worker \ {w} : pc'[v] = pc[v] /\ task'[v] = task[v]
    BY <1>6 DEF WorkerCrash, Free, TypeOK
  <2>2. queue'[t] > 0 /\ \A u \in Task : queue[u] > 0 => queue'[u] > 0
    BY <1>6, <2>0 DEF WorkerCrash, TypeOK
  <2>3. CASE pc[w] = "dispatch" /\ task[w].ev = e
    <3>1. t = Dispatcher(e)
      BY <2>0, <2>3, DispatcherOnly DEF TypeOK
    <3> QED BY <2>2, <3>1 DEF ReadOrOwed, Undispatched
  <2>4. CASE ~(pc[w] = "dispatch" /\ task[w].ev = e)
    BY <1>0, <1>d, <1>e, <2>1, <2>2, <2>4, ReadKept DEF api, history
  <2> QED BY <2>3, <2>4
<1> QED BY <1>1, <1>2, <1>3, <1>4, <1>5, <1>6 DEF Next

LEMMA RegisteredNext ==
  TypeOK /\ KnownEvents /\ PromisedActive /\ RegisteredIsRead /\ [RegistryNext]_<<vars, registry>>
    => RegisteredIsRead'
<1> SUFFICES ASSUME TypeOK, KnownEvents, PromisedActive, RegisteredIsRead,
                    [RegistryNext]_<<vars, registry>>,
                    NEW e \in Event, NEW ep \in promised'[e]
             PROVE  ReadOrOwed(e, ep)'
  BY DEF RegisteredIsRead, ReadOrOwed
<1>0. ep \in promised[e] => ReadOrOwed(e, ep) /\ ep \in active
  BY DEF RegisteredIsRead, ReadOrOwed, PromisedActive
<1>1. CASE PipelineStep
  <2>1. CASE status[e] = "ABSENT" /\ status'[e] # "ABSENT"
    BY <1>1, <2>1, PostedUnread DEF PipelineStep, ReadOrOwed, Undispatched
  <2>2. CASE ~(status[e] = "ABSENT" /\ status'[e] # "ABSENT")
    <3>1. ep \in promised[e] /\ ep \in active'
      <4>1. promised'[e] = promised[e] \ (active \ active')
        BY <1>1, <2>2 DEF PipelineStep, Remember
      <4> QED BY <1>0, <4>1
    <3> QED BY <1>0, <1>1, <3>1, ReadNext DEF PipelineStep
  <2> QED BY <2>1, <2>2
<1>2. ASSUME NEW x \in Endpoint, Registering(x) PROVE ReadOrOwed(e, ep)'
  BY <1>0, <1>2, RegisteringKeeps DEF ReadOrOwed, Undispatched, api, broker, workers
<1>3. CASE UNCHANGED <<vars, registry>>
  BY <1>0, <1>3 DEF ReadOrOwed, Undispatched, vars, registry, api, broker, workers, history
<1> QED BY <1>1, <1>2, <1>3 DEF RegistryNext

\* An endpoint whose registration was answered and committed when an event was
\* posted is read by the dispatcher of the event, or the event's work was given
\* up: no other registration, retry, replay or redelivery makes it miss one.
THEOREM Registered == RegistrySpec => []RegisteredIsRead
<1>1. Init /\ RegistryInit => TypeOK /\ KnownEvents /\ PromisedActive /\ RegisteredIsRead
  <2> SUFFICES ASSUME Init, RegistryInit
               PROVE  TypeOK /\ KnownEvents /\ PromisedActive /\ RegisteredIsRead
    OBVIOUS
  <2>1. \A t \in Task : ~Waiting(t)
    BY TaskFields DEF Init, Waiting
  <2>2. KnownEvents
    BY <2>1 DEF Init, KnownEvents, Unknown
  <2>3. PromisedActive /\ RegisteredIsRead
    BY DEF RegistryInit, PromisedActive, RegisteredIsRead
  <2> QED BY <2>2, <2>3, TypeInit
<1> QED BY <1>1, RegistryStep, TypeNext, KnownNext, PromisedActiveNext, RegisteredNext, PTL
        DEF RegistrySpec
=============================================================================
