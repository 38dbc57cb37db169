--------------------------- MODULE DeliveryProofs ---------------------------
(* Proofs about Delivery, for every value of its constants.                 *)
EXTENDS Delivery, FiniteSetTheorems, TLAPS

(***************************************************************************)
(* Messages.                                                                *)
(***************************************************************************)

\* The dispatcher message the API pushes is a message of the broker.
LEMMA DispatcherType ==
  \A e \in Event : /\ Dispatcher(e) \in DispatchTask /\ Dispatcher(e) \in Task
                   /\ Dispatcher(e).ev = e
  BY DEF Dispatcher, DispatchTask, Task

\* So is the message the dispatcher pushes for an endpoint.
LEMMA DeliveryType ==
  \A e \in Event, ep \in Endpoint :
    /\ Delivery(e, ep) \in DeliverTask /\ Delivery(e, ep) \in Task
    /\ Delivery(e, ep).ev = e /\ Delivery(e, ep).ep = ep /\ Delivery(e, ep).retries = 0
  BY RetriesAssumption DEF Delivery, DeliverTask, Task

\* A retry pushed while retries are left goes to the same event and endpoint.
LEMMA NextTryType ==
  ASSUME NEW t \in DeliverTask, t.retries < MaxRetries
  PROVE  /\ NextTry(t) \in DeliverTask
         /\ NextTry(t) \in Task
         /\ NextTry(t).ev = t.ev
         /\ NextTry(t).ep = t.ep
         /\ NextTry(t).retries = t.retries + 1
  BY RetriesAssumption DEF NextTry, DeliverTask, Task

\* What a message names.
LEMMA TaskFields ==
  /\ \A t \in Task : t.ev \in Event
  /\ \A t \in DeliverTask : /\ t \in Task /\ t.ev \in Event /\ t.ep \in Endpoint
                            /\ t.retries \in 0 .. MaxRetries
                            /\ t.kind = "deliver"
  /\ \A t \in DispatchTask : t \in Task /\ t.ev \in Event /\ t.kind = "dispatch"
  /\ \A t \in Task : t.kind = "dispatch" => t \in DispatchTask
  /\ \A t \in Task : t.kind # "dispatch" => t \in DeliverTask
  BY DEF Task, DeliverTask, DispatchTask

\* The row a worker records is a delivery_attempt row.
LEMMA RowType ==
  ASSUME NEW w \in Worker, TypeOK, task[w] \in DeliverTask
  PROVE  Row(w) \in Attempt
  BY TaskFields, RetriesAssumption DEF Row, Attempt, TypeOK

(***************************************************************************)
(* Type correctness.                                                        *)
(***************************************************************************)

LEMMA TypeInit == Init => TypeOK
  BY RetriesAssumption, LimitAssumption, BoundsAssumption, NoTaskAssumption
  DEF Init, TypeOK, Outcome, EventStatus

LEMMA TypeNext == TypeOK /\ [Next]_vars => TypeOK'
<1> SUFFICES ASSUME TypeOK, [Next]_vars PROVE TypeOK'
  OBVIOUS
<1> USE RetriesAssumption, LimitAssumption, BoundsAssumption, NoTaskAssumption
<1>1. ASSUME NEW e \in Event, ApiStep(e) PROVE TypeOK'
  <2>1. CASE Ingest(e)
    BY <2>1 DEF Ingest, TypeOK, EventStatus, broker, workers, history, bounds
  <2>2. CASE ReplayRead(e)
    BY <2>2 DEF ReplayRead, TypeOK, db, broker, workers, history
  <2>3. CASE ReplayCommit(e)
    BY <2>3 DEF ReplayCommit, TypeOK, EventStatus, broker, workers, history, bounds
  <2>4. CASE Enqueue(e)
    BY <2>4, DispatcherType DEF Enqueue, TypeOK, db, workers, history, bounds
  <2>5. CASE ApiFails(e)
    BY <2>5 DEF ApiFails, TypeOK, LossCause, db, broker, workers, bounds
  <2> QED BY <1>1, <2>1, <2>2, <2>3, <2>4, <2>5 DEF ApiStep
<1>2. ASSUME NEW ep \in Endpoint, AdminStep(ep) \/ WindowExpires(ep) PROVE TypeOK'
  <2>1. CASE Register(ep)
    BY <2>1 DEF Register, TypeOK, broker, api, workers, history
  <2>2. CASE Deactivate(ep)
    BY <2>2 DEF Deactivate, TypeOK, broker, api, workers, history
  <2>3. CASE WindowExpires(ep)
    BY <2>3 DEF WindowExpires, TypeOK, db, broker, api, workers, history, bounds
  <2> QED BY <1>2, <2>1, <2>2, <2>3 DEF AdminStep
<1>3. ASSUME NEW t \in DeliverTask, CountdownElapses(t) PROVE TypeOK'
  BY <1>3, TaskFields DEF CountdownElapses, TypeOK, db, api, workers, history, bounds
<1>4. ASSUME NEW w \in Worker, WorkerStep(w) PROVE TypeOK'
  <2>1. ASSUME NEW t \in Task, Take(w, t) PROVE TypeOK'
    BY <2>1, TaskFields DEF Take, TypeOK, Working, db, api, history, bounds
  <2>2. CASE DispatchToNobody(w)
    BY <2>2, TaskFields DEF DispatchToNobody, TypeOK, EventStatus, broker, api, history, bounds
  <2>3. CASE Dispatch(w)
    BY <2>3, TaskFields DEF Dispatch, TypeOK, Working, db, broker, api, bounds
  <2>4. ASSUME NEW ep \in Endpoint, FanOut(w, ep) PROVE TypeOK'
    BY <2>4, TaskFields, DeliveryType DEF FanOut, TypeOK, Working, db, api, history, bounds
  <2>5. CASE Admit(w)
    BY <2>5, TaskFields DEF Admit, TypeOK, Working, db, broker, api, history, bounds
  <2>6. CASE FailOpen(w)
    BY <2>6, TaskFields DEF FailOpen, TypeOK, Working, db, broker, api, history, bounds
  <2>7. CASE Throttle(w)
    BY <2>7, TaskFields, NextTryType DEF Throttle, TypeOK, db, api, bounds
  <2>8. CASE ThrottleOut(w)
    BY <2>8, TaskFields DEF ThrottleOut, TypeOK, LossCause, db, broker, api, bounds
  <2>9. ASSUME NEW o \in Outcome, Post(w, o) PROVE TypeOK'
    BY <2>9, TaskFields DEF Post, TypeOK, Working, db, broker, api, bounds
  <2>10. CASE Record(w)
    <3>1. task[w] \in DeliverTask /\ Row(w) \in Attempt
      BY <2>10, RowType DEF Record, TypeOK
    <3>2. pc'[w] = "retry" => task[w].retries < MaxRetries
      BY <2>10, <3>1, TaskFields DEF Record, RetriesExhausted, TypeOK
    <3>3. FinalStatus(w) \in EventStatus
      BY DEF FinalStatus, EventStatus
    <3>4. pc'[w] \in {"ack", "retry"} /\ \A v \in Worker \ {w} : pc'[v] = pc[v]
      BY <2>10 DEF Record, TypeOK
    <3>5. status' \in [Event -> EventStatus \cup {"ABSENT"}]
      BY <2>10, <3>3 DEF Record, TypeOK
    <3>6. pc' \in [Worker -> Working \cup {"idle", "ack"}]
      BY <2>10 DEF Record, TypeOK, Working
    <3>7. attempts' \in [Attempt -> Nat]
      BY <2>10, <3>1 DEF Record, TypeOK
    <3>8. UNCHANGED <<active, broker, used, api, task, todo, outcome, history, bounds>>
      BY <2>10 DEF Record
    <3> QED BY <2>10, <3>1, <3>2, <3>4, <3>5, <3>6, <3>7, <3>8
            DEF Record, TypeOK, broker, api, history, bounds
  <2>11. CASE Retry(w)
    BY <2>11, TaskFields, NextTryType DEF Retry, TypeOK, db, api, history, bounds
  <2>12. CASE Ack(w)
    BY <2>12 DEF Ack, Free, TypeOK, Outcome, Working, db, broker, api, history, bounds
  <2> QED BY <1>4, <2>1, <2>2, <2>3, <2>4, <2>5, <2>6, <2>7, <2>8, <2>9, <2>10, <2>11, <2>12
          DEF WorkerStep
<1>5. ASSUME NEW w \in Worker, TaskDies(w) PROVE TypeOK'
  <2>1. task[w] \in Task /\ task[w].ev \in Event
    BY <1>5, TaskFields DEF TaskDies, TypeOK, Working
  <2>2. Undone(w) \subseteq Endpoint
    BY <1>5, TaskFields DEF TaskDies, Undone, TypeOK, Working
  <2>3. /\ lost' \in [Event -> SUBSET LossCause]
        /\ dropped' \in [Event -> SUBSET Endpoint]
    BY <1>5, <2>1, <2>2 DEF TaskDies, TypeOK, LossCause
  <2> QED BY <1>5, <2>3 DEF TaskDies, Free, TypeOK, Outcome, Working, db, broker, api, bounds
<1>6. ASSUME NEW w \in Worker, WorkerCrash(w) PROVE TypeOK'
  BY <1>6 DEF WorkerCrash, Free, TypeOK, Outcome, Working, db, api, history
<1>7. CASE UNCHANGED vars
  BY <1>7 DEF TypeOK, vars, db, broker, api, workers, history, bounds
<1> QED BY <1>1, <1>2, <1>3, <1>4, <1>5, <1>6, <1>7 DEF Next

\* Every variable keeps its type; a busy slot holds a message of its phase.
THEOREM TypeCorrect == Spec => []TypeOK
  BY TypeInit, TypeNext, PTL DEF Spec

(***************************************************************************)
(* No event is stranded silently. The invariant is inductive once the types *)
(* are known: each step that consumes the last work of a PENDING event       *)
(* hands it on, gives the event a final status, or records the loss.        *)
(***************************************************************************)

\* Work that a step does not touch stays in flight.
LEMMA InFlightKept ==
  ASSUME NEW e \in Event, InFlight(e),
         unqueued[e] > 0 => unqueued'[e] > 0,
         \A t \in Task : t.ev = e /\ Waiting(t) => Waiting(t)',
         \A w \in Worker : pc[w] \in Working /\ task[w].ev = e =>
                             pc'[w] \in Working /\ task'[w].ev = e
  PROVE  InFlight(e)'
  BY DEF InFlight

LEMMA StrandingNext == TypeOK /\ NoSilentStranding /\ [Next]_vars => NoSilentStranding'
<1> SUFFICES ASSUME TypeOK, TypeOK', NoSilentStranding, [Next]_vars,
                    NEW e \in Event, status'[e] = "PENDING", lost'[e] = {}
             PROVE  InFlight(e)'
  BY TypeNext DEF NoSilentStranding
<1> DEFINE Before == status[e] = "PENDING" /\ lost[e] = {}
<1>0. Before => InFlight(e)
  BY DEF NoSilentStranding
<1>1. ASSUME NEW x \in Event, ApiStep(x) PROVE InFlight(e)'
  <2>1. CASE Ingest(x) \/ ReplayCommit(x)
    <3>1. CASE x = e
      BY <2>1, <3>1 DEF Ingest, ReplayCommit, TypeOK, InFlight
    <3>2. CASE x # e
      <4>1. Before
        BY <2>1, <3>2 DEF Ingest, ReplayCommit, TypeOK, history
      <4> QED BY <1>0, <2>1, <3>2, <4>1, InFlightKept
              DEF Ingest, ReplayCommit, TypeOK, Waiting, broker, workers
    <3> QED BY <3>1, <3>2
  <2>2. CASE ReplayRead(x)
    <3>1. Before
      BY <2>2 DEF ReplayRead, db, history
    <3> QED BY <1>0, <2>2, <3>1, InFlightKept DEF ReplayRead, Waiting, broker, workers
  <2>3. CASE Enqueue(x)
    <3>1. Before
      BY <2>3 DEF Enqueue, db, history
    <3>2. CASE x = e
      <4>1. Dispatcher(e) \in Task /\ Dispatcher(e).ev = e
        BY DispatcherType
      <4>2. queue'[Dispatcher(e)] > 0
        BY <2>3, <3>2, <4>1 DEF Enqueue, TypeOK
      <4> QED BY <4>1, <4>2 DEF InFlight, Waiting
    <3>3. CASE x # e
      <4>1. \A t \in Task : queue[t] > 0 => queue'[t] > 0
        BY <2>3, DispatcherType DEF Enqueue, TypeOK
      <4> QED BY <1>0, <2>3, <3>1, <3>3, <4>1, InFlightKept
              DEF Enqueue, TypeOK, Waiting, workers
    <3> QED BY <3>2, <3>3
  <2>4. CASE ApiFails(x)
    <3>1. x # e
      BY <2>4 DEF ApiFails, TypeOK
    <3>2. Before
      BY <2>4, <3>1 DEF ApiFails, TypeOK, db
    <3> QED BY <1>0, <2>4, <3>1, <3>2, InFlightKept DEF ApiFails, TypeOK, Waiting, broker, workers
  <2> QED BY <1>1, <2>1, <2>2, <2>3, <2>4 DEF ApiStep
<1>2. ASSUME NEW ep \in Endpoint, AdminStep(ep) \/ WindowExpires(ep) PROVE InFlight(e)'
  <2>1. Before
    BY <1>2 DEF AdminStep, Register, Deactivate, WindowExpires, db, history
  <2> QED BY <1>0, <1>2, <2>1, InFlightKept
          DEF AdminStep, Register, Deactivate, WindowExpires, Waiting, api, broker, workers
<1>3. ASSUME NEW t \in DeliverTask, CountdownElapses(t) PROVE InFlight(e)'
  <2>1. Before
    BY <1>3 DEF CountdownElapses, db, history
  <2>2. t \in Task /\ queue'[t] > 0
    BY <1>3, TaskFields DEF CountdownElapses, TypeOK
  <2>3. \A u \in Task : Waiting(u) => Waiting(u)'
    BY <1>3, <2>2, TaskFields DEF CountdownElapses, TypeOK, Waiting
  <2> QED BY <1>0, <1>3, <2>1, <2>3, InFlightKept DEF CountdownElapses, api, workers
<1>4. ASSUME NEW w \in Worker, WorkerStep(w) PROVE InFlight(e)'
  <2>1. ASSUME NEW t \in Task, Take(w, t) PROVE InFlight(e)'
    <3>1. Before
      BY <2>1 DEF Take, db, history
    <3>2. CASE t.ev = e
      <4>1. pc'[w] \in Working /\ task'[w].ev = e
        BY <2>1, <3>2 DEF Take, TypeOK, Working
      <4> QED BY <4>1 DEF InFlight
    <3>3. CASE t.ev # e
      <4>1. \A u \in Task : u.ev = e /\ Waiting(u) => Waiting(u)'
        BY <2>1, <3>3 DEF Take, TypeOK, Waiting
      <4>2. \A v \in Worker : pc[v] \in Working => pc'[v] = pc[v] /\ task'[v] = task[v]
        BY <2>1 DEF Take, TypeOK, Working
      <4> QED BY <1>0, <2>1, <3>1, <4>1, <4>2, InFlightKept DEF Take, api
    <3> QED BY <3>2, <3>3
  <2>2. CASE DispatchToNobody(w)
    <3>1. task[w].ev # e /\ Before
      BY <2>2, TaskFields DEF DispatchToNobody, TypeOK, history
    <3>2. \A v \in Worker : v # w => pc'[v] = pc[v]
      BY <2>2 DEF DispatchToNobody, TypeOK
    <3> QED BY <1>0, <2>2, <3>1, <3>2, InFlightKept DEF DispatchToNobody, Waiting, broker, api
  <2>3. CASE Dispatch(w) \/ Admit(w) \/ FailOpen(w) \/ \E o \in Outcome : Post(w, o)
    <3>1. Before
      BY <2>3 DEF Dispatch, Admit, FailOpen, Post, db, history
    <3>2. \A v \in Worker : pc[v] \in Working => pc'[v] \in Working /\ task'[v] = task[v]
      BY <2>3 DEF Dispatch, Admit, FailOpen, Post, TypeOK, Working
    <3> QED BY <1>0, <2>3, <3>1, <3>2, InFlightKept
            DEF Dispatch, Admit, FailOpen, Post, Waiting, broker, api
  <2>4. ASSUME NEW ep \in Endpoint, FanOut(w, ep) PROVE InFlight(e)'
    <3> DEFINE m == Delivery(task[w].ev, ep)
    <3>1. Before
      BY <2>4 DEF FanOut, db, history
    <3>2. m \in Task /\ m.ev = task[w].ev
      BY <2>4, TaskFields, DeliveryType DEF FanOut, TypeOK
    <3>3. queue' = [queue EXCEPT ![m] = @ + 1]
      BY <2>4 DEF FanOut
    <3> HIDE DEF m
    <3>4. queue'[m] > 0 /\ \A u \in Task : queue[u] > 0 => queue'[u] > 0
      BY <3>2, <3>3 DEF TypeOK
    <3>5. CASE task[w].ev = e
      BY <3>2, <3>4, <3>5 DEF InFlight, Waiting
    <3>6. CASE task[w].ev # e
      <4>1. \A v \in Worker : v # w => pc'[v] = pc[v] /\ task'[v] = task[v]
        BY <2>4 DEF FanOut, TypeOK
      <4> QED BY <1>0, <2>4, <3>1, <3>4, <3>6, <4>1, InFlightKept DEF FanOut, Waiting, api
    <3> QED BY <3>5, <3>6
  <2>5. CASE Throttle(w)
    <3> DEFINE m == NextTry(task[w])
    <3>1. Before
      BY <2>5 DEF Throttle, db, history
    <3>2. m \in DeliverTask /\ m \in Task /\ m.ev = task[w].ev
      BY <2>5, TaskFields, NextTryType DEF Throttle, TypeOK
    <3>3. parked' = [parked EXCEPT ![m] = @ + 1]
      BY <2>5 DEF Throttle
    <3> HIDE DEF m
    <3>4. parked'[m] > 0 /\ \A u \in DeliverTask : parked[u] > 0 => parked'[u] > 0
      BY <3>2, <3>3 DEF TypeOK
    <3>5. CASE task[w].ev = e
      BY <3>2, <3>4, <3>5 DEF InFlight, Waiting
    <3>6. CASE task[w].ev # e
      <4>1. \A v \in Worker : v # w => pc'[v] = pc[v] /\ task'[v] = task[v]
        BY <2>5 DEF Throttle, TypeOK
      <4> QED BY <1>0, <2>5, <3>1, <3>4, <3>6, <4>1, InFlightKept DEF Throttle, Waiting, api
    <3> QED BY <3>5, <3>6
  <2>6. CASE ThrottleOut(w)
    <3>a. task[w].ev \in Event /\ lost'[task[w].ev] = lost[task[w].ev] \cup {"throttle"}
      BY <2>6, TaskFields DEF ThrottleOut, TypeOK
    <3>1. task[w].ev # e /\ Before
      BY <2>6, <3>a DEF ThrottleOut, TypeOK, db
    <3>2. \A v \in Worker : v # w => pc'[v] = pc[v]
      BY <2>6 DEF ThrottleOut, TypeOK
    <3> QED BY <1>0, <2>6, <3>1, <3>2, InFlightKept DEF ThrottleOut, Waiting, broker, api
  <2>7. CASE Record(w)
    <3>1. \A v \in Worker : v # w => pc'[v] = pc[v] /\ task'[v] = task[v]
      BY <2>7 DEF Record, TypeOK
    <3>2. CASE task[w].ev = e
      <4>1. pc'[w] \in Working
        <5>1. FinalStatus(w) # "PENDING"
          BY DEF FinalStatus
        <5> QED BY <2>7, <3>2, <5>1 DEF Record, TypeOK, Working
      <4> QED BY <2>7, <3>2, <4>1 DEF Record, InFlight
    <3>3. CASE task[w].ev # e
      <4>1. Before
        BY <2>7, <3>3, TaskFields DEF Record, TypeOK, history
      <4> QED BY <1>0, <2>7, <3>1, <3>3, <4>1, InFlightKept DEF Record, Waiting, broker, api
    <3> QED BY <3>2, <3>3
  <2>8. CASE Retry(w)
    <3> DEFINE m == NextTry(task[w])
    <3>1. Before
      BY <2>8 DEF Retry, db, history
    <3>2. m \in Task /\ m.ev = task[w].ev
      BY <2>8, TaskFields, NextTryType DEF Retry, TypeOK
    <3>3. queue' = [queue EXCEPT ![m] = @ + 1]
      BY <2>8 DEF Retry
    <3> HIDE DEF m
    <3>4. queue'[m] > 0 /\ \A u \in Task : queue[u] > 0 => queue'[u] > 0
      BY <3>2, <3>3 DEF TypeOK
    <3>5. CASE task[w].ev = e
      BY <3>2, <3>4, <3>5 DEF InFlight, Waiting
    <3>6. CASE task[w].ev # e
      <4>1. \A v \in Worker : v # w => pc'[v] = pc[v] /\ task'[v] = task[v]
        BY <2>8 DEF Retry, TypeOK
      <4> QED BY <1>0, <2>8, <3>1, <3>4, <3>6, <4>1, InFlightKept DEF Retry, Waiting, api
    <3> QED BY <3>5, <3>6
  <2>9. CASE Ack(w)
    <3>1. Before
      BY <2>9 DEF Ack, db, history
    <3>2. \A v \in Worker : pc[v] \in Working => pc'[v] = pc[v] /\ task'[v] = task[v]
      BY <2>9 DEF Ack, Free, TypeOK, Working
    <3> QED BY <1>0, <2>9, <3>1, <3>2, InFlightKept DEF Ack, Waiting, broker, api
  <2> QED BY <1>4, <2>1, <2>2, <2>3, <2>4, <2>5, <2>6, <2>7, <2>8, <2>9 DEF WorkerStep
<1>5. ASSUME NEW w \in Worker, TaskDies(w) PROVE InFlight(e)'
  <2>1. task[w].ev # e /\ Before
    BY <1>5, TaskFields DEF TaskDies, TypeOK, Working, db
  <2>2. \A v \in Worker : v # w => pc'[v] = pc[v] /\ task'[v] = task[v]
    BY <1>5 DEF TaskDies, Free, TypeOK
  <2> QED BY <1>0, <1>5, <2>1, <2>2, InFlightKept DEF TaskDies, Waiting, broker, api
<1>6. ASSUME NEW w \in Worker, WorkerCrash(w) PROVE InFlight(e)'
  <2>1. Before
    BY <1>6 DEF WorkerCrash, db, history
  <2>2. task[w] \in Task
    BY <1>6 DEF WorkerCrash, TypeOK
  <2>3. queue'[task[w]] > 0 /\ \A u \in Task : queue[u] > 0 => queue'[u] > 0
    BY <1>6, <2>2 DEF WorkerCrash, TypeOK
  <2>4. CASE task[w].ev = e
    BY <2>2, <2>3, <2>4 DEF InFlight, Waiting
  <2>5. CASE task[w].ev # e
    <3>1. \A v \in Worker : v # w => pc'[v] = pc[v] /\ task'[v] = task[v]
      BY <1>6 DEF WorkerCrash, Free, TypeOK
    <3> QED BY <1>0, <1>6, <2>1, <2>3, <2>5, <3>1, InFlightKept DEF WorkerCrash, Waiting, api
  <2> QED BY <2>4, <2>5
<1>7. CASE UNCHANGED vars
  <2>1. Before
    BY <1>7 DEF vars, db, history
  <2> QED BY <1>0, <1>7, <2>1, InFlightKept DEF vars, Waiting, broker, api, workers
<1> QED BY <1>1, <1>2, <1>3, <1>4, <1>5, <1>6, <1>7 DEF Next

\* A PENDING event is in flight or its loss is on record: no interleaving of
\* fan-out, retries, deferrals, crashes and replays leaves it with nobody.
THEOREM Stranding == Spec => []NoSilentStranding
<1>1. Init => NoSilentStranding
  BY DEF Init, NoSilentStranding
<1> QED BY <1>1, TypeInit, TypeNext, StrandingNext, PTL DEF Spec

(***************************************************************************)
(* The audit trail. Rows are never deleted, a failure status is written     *)
(* together with its row, and a message carries no retry that was not spent *)
(* on a row or on a deferral.                                               *)
(***************************************************************************)

\* Only Record touches the attempt rows, and it adds one.
LEMMA AttemptsStep ==
  ASSUME TypeOK, [Next]_vars
  PROVE  \/ UNCHANGED attempts
         \/ \E w \in Worker :
              /\ Record(w)
              /\ Row(w) \in Attempt
              /\ attempts'[Row(w)] > 0
              /\ \A a \in Attempt : attempts[a] > 0 => attempts'[a] > 0
              /\ \A a \in Attempt : attempts'[a] > 0 => attempts[a] > 0 \/ a = Row(w)
<1>1. ASSUME NEW w \in Worker, Record(w)
      PROVE  /\ Row(w) \in Attempt
             /\ attempts'[Row(w)] > 0
             /\ \A a \in Attempt : attempts[a] > 0 => attempts'[a] > 0
             /\ \A a \in Attempt : attempts'[a] > 0 => attempts[a] > 0 \/ a = Row(w)
  <2>1. Row(w) \in Attempt
    BY <1>1, RowType DEF Record, TypeOK
  <2>2. attempts' = [attempts EXCEPT ![Row(w)] = @ + 1]
    BY <1>1 DEF Record
  <2>3. attempts \in [Attempt -> Nat]
    BY DEF TypeOK
  <2> QED BY <2>1, <2>2, <2>3
<1>2. CASE \E w \in Worker : Record(w)
  BY <1>1, <1>2
<1>3. CASE ~ \E w \in Worker : Record(w)
  <2>1. ASSUME NEW e \in Event, ApiStep(e) PROVE UNCHANGED attempts
    BY <2>1 DEF ApiStep, Ingest, ReplayRead, ReplayCommit, Enqueue, ApiFails, db
  <2>2. ASSUME NEW ep \in Endpoint, AdminStep(ep) \/ WindowExpires(ep) PROVE UNCHANGED attempts
    BY <2>2 DEF AdminStep, Register, Deactivate, WindowExpires, db
  <2>3. ASSUME NEW t \in DeliverTask, CountdownElapses(t) PROVE UNCHANGED attempts
    BY <2>3 DEF CountdownElapses, db
  <2>4. ASSUME NEW w \in Worker, WorkerStep(w) PROVE UNCHANGED attempts
    BY <1>3, <2>4 DEF WorkerStep, Take, DispatchToNobody, Dispatch, FanOut, Admit, FailOpen,
                      Throttle, ThrottleOut, Post, Retry, Ack, db
  <2>5. ASSUME NEW w \in Worker, TaskDies(w) \/ WorkerCrash(w) PROVE UNCHANGED attempts
    BY <2>5 DEF TaskDies, WorkerCrash, db
  <2>6. CASE UNCHANGED vars
    BY <2>6 DEF vars, db
  <2> QED BY <2>1, <2>2, <2>3, <2>4, <2>5, <2>6 DEF Next
<1> QED BY <1>2, <1>3

\* A failure status is kept, or written by the terminal Record of its event.
LEMMA FailureStep ==
  ASSUME TypeOK, [Next]_vars, NEW e \in Event, status'[e] \in {"FAILED", "DEAD_LETTER"}
  PROVE  \/ status'[e] = status[e]
         \/ \E w \in Worker : /\ Record(w)
                              /\ task[w].ev = e
                              /\ status'[e] = FinalStatus(w)
                              /\ outcome[w] # "transient_error" \/ RetriesExhausted(w)
<1>1. ASSUME NEW x \in Event, ApiStep(x) PROVE status'[e] = status[e]
  BY <1>1 DEF ApiStep, Ingest, ReplayRead, ReplayCommit, Enqueue, ApiFails, db, TypeOK
<1>2. ASSUME NEW ep \in Endpoint, AdminStep(ep) \/ WindowExpires(ep) PROVE status'[e] = status[e]
  BY <1>2 DEF AdminStep, Register, Deactivate, WindowExpires, db
<1>3. ASSUME NEW t \in DeliverTask, CountdownElapses(t) PROVE status'[e] = status[e]
  BY <1>3 DEF CountdownElapses, db
<1>4. ASSUME NEW w \in Worker, WorkerStep(w), ~Record(w) PROVE status'[e] = status[e]
  BY <1>4 DEF WorkerStep, Take, DispatchToNobody, Dispatch, FanOut, Admit, FailOpen,
              Throttle, ThrottleOut, Post, Retry, Ack, db, TypeOK
<1>5. ASSUME NEW w \in Worker, Record(w), status'[e] # status[e]
      PROVE  /\ task[w].ev = e
             /\ status'[e] = FinalStatus(w)
             /\ outcome[w] # "transient_error" \/ RetriesExhausted(w)
  BY <1>5 DEF Record, TypeOK
<1>6. ASSUME NEW w \in Worker, TaskDies(w) \/ WorkerCrash(w) PROVE status'[e] = status[e]
  BY <1>6 DEF TaskDies, WorkerCrash, db
<1>7. CASE UNCHANGED vars
  BY <1>7 DEF vars, db
<1> QED BY <1>1, <1>2, <1>3, <1>4, <1>5, <1>6, <1>7 DEF Next

LEMMA EvidenceNext == TypeOK /\ StatusHasEvidence /\ [Next]_vars => StatusHasEvidence'
<1> SUFFICES ASSUME TypeOK, StatusHasEvidence, [Next]_vars, NEW e \in Event,
                    status'[e] \in {"FAILED", "DEAD_LETTER"}
             PROVE  \E a \in Attempt :
                      /\ a.ev = e /\ attempts'[a] > 0
                      /\ status'[e] = "FAILED" => a.outcome = "client_error"
                      /\ status'[e] = "DEAD_LETTER" =>
                           a.outcome = "transient_error" /\ a.number = MaxRetries + 1
  BY DEF StatusHasEvidence
<1>1. CASE status'[e] = status[e]
  <2>1. \A a \in Attempt : attempts[a] > 0 => attempts'[a] > 0
    BY AttemptsStep
  <2> QED BY <1>1, <2>1 DEF StatusHasEvidence
<1>2. CASE status'[e] # status[e]
  <2>1. PICK w \in Worker : /\ Record(w)
                            /\ task[w].ev = e
                            /\ status'[e] = FinalStatus(w)
                            /\ outcome[w] # "transient_error" \/ RetriesExhausted(w)
    BY <1>2, FailureStep
  <2>2. Row(w) \in Attempt
    BY <2>1, RowType DEF Record, TypeOK
  <2>3. attempts'[Row(w)] > 0
    BY <2>1, <2>2 DEF Record, TypeOK
  <2>4. /\ Row(w).ev = e /\ Row(w).outcome = outcome[w]
        /\ Row(w).number = task[w].retries + 1
    BY <2>1 DEF Row
  <2>5. status'[e] = "FAILED" => outcome[w] = "client_error"
    BY <2>1 DEF FinalStatus
  <2>6. status'[e] = "DEAD_LETTER" => outcome[w] = "transient_error" /\ RetriesExhausted(w)
    BY <2>1 DEF FinalStatus, TypeOK, Outcome
  <2>7. task[w].retries \in 0 .. MaxRetries
    BY <2>1, TaskFields DEF Record, TypeOK
  <2>8. RetriesExhausted(w) => task[w].retries = MaxRetries
    BY <2>7, RetriesAssumption DEF RetriesExhausted
  <2> QED BY <2>2, <2>3, <2>4, <2>5, <2>6, <2>8
<1> QED BY <1>1, <1>2

\* FAILED and DEAD_LETTER are backed by the attempt row that caused them.
THEOREM Evidence == Spec => []StatusHasEvidence
<1>1. Init => StatusHasEvidence
  BY DEF Init, StatusHasEvidence
<1> QED BY <1>1, TypeInit, TypeNext, EvidenceNext, PTL DEF Spec

\* Every retry a message carries was spent before it was pushed.
Spent(t) == \A n \in 1 .. t.retries : Tried(t.ev, t.ep, n)

\* The strengthening of NoGapInAttempts: it holds of the messages too, and a
\* worker that is about to retry has spent the attempt it is making.
SpentInv ==
  /\ NoGapInAttempts
  /\ \A t \in DeliverTask : Waiting(t) => Spent(t)
  /\ \A w \in Worker : task[w] \in DeliverTask => Spent(task[w])
  /\ \A w \in Worker : pc[w] = "retry" =>
       Tried(task[w].ev, task[w].ep, task[w].retries + 1)

\* What was deferred stays on record.
LEMMA DeferredKept == ASSUME TypeOK, [Next]_vars PROVE deferred \subseteq deferred'
<1>1. ASSUME NEW x \in Event, ApiStep(x) PROVE UNCHANGED deferred
  BY <1>1 DEF ApiStep, Ingest, ReplayRead, ReplayCommit, Enqueue, ApiFails, history
<1>2. ASSUME NEW x \in Endpoint, AdminStep(x) \/ WindowExpires(x) PROVE UNCHANGED deferred
  BY <1>2 DEF AdminStep, Register, Deactivate, WindowExpires, history
<1>3. ASSUME NEW t \in DeliverTask, CountdownElapses(t) PROVE UNCHANGED deferred
  BY <1>3 DEF CountdownElapses, history
<1>4. ASSUME NEW w \in Worker, WorkerStep(w) PROVE deferred \subseteq deferred'
  BY <1>4 DEF WorkerStep, Take, DispatchToNobody, Dispatch, FanOut, Admit, FailOpen,
              Throttle, ThrottleOut, Post, Record, Retry, Ack, history
<1>5. ASSUME NEW w \in Worker, TaskDies(w) \/ WorkerCrash(w) PROVE UNCHANGED deferred
  BY <1>5 DEF TaskDies, WorkerCrash, history
<1>6. CASE UNCHANGED vars
  BY <1>6 DEF vars, history
<1> QED BY <1>1, <1>2, <1>3, <1>4, <1>5, <1>6 DEF Next

\* What was tried stays tried.
LEMMA TriedKept ==
  ASSUME TypeOK, [Next]_vars,
         NEW e \in Event, NEW ep \in Endpoint, NEW n \in Nat, Tried(e, ep, n)
  PROVE  Tried(e, ep, n)'
<1>1. \A a \in Attempt : attempts[a] > 0 => attempts'[a] > 0
  BY AttemptsStep
<1>2. deferred \subseteq deferred'
  BY DeferredKept
<1> QED BY <1>1, <1>2 DEF Tried

\* What was spent stays spent.
LEMMA SpentKept ==
  ASSUME TypeOK, [Next]_vars, NEW t \in DeliverTask, Spent(t)
  PROVE  Spent(t)'
<1> SUFFICES ASSUME NEW n \in 1 .. t.retries PROVE Tried(t.ev, t.ep, n)'
  BY DEF Spent
<1>1. t.ev \in Event /\ t.ep \in Endpoint /\ n \in Nat /\ Tried(t.ev, t.ep, n)
  BY TaskFields, RetriesAssumption DEF Spent
<1> QED BY <1>1, TriedKept

\* One more try, spent, makes the next message spent.
LEMMA NextTrySpent ==
  ASSUME TypeOK, [Next]_vars, NEW t \in DeliverTask, t.retries < MaxRetries,
         Spent(t), Tried(t.ev, t.ep, t.retries + 1)'
  PROVE  Spent(NextTry(t))'
<1>1. Spent(t)'
  BY SpentKept
<1>2. /\ NextTry(t).ev = t.ev /\ NextTry(t).ep = t.ep
      /\ NextTry(t).retries = t.retries + 1
  BY NextTryType
<1> SUFFICES ASSUME NEW n \in 1 .. t.retries + 1 PROVE Tried(t.ev, t.ep, n)'
  BY <1>2 DEF Spent
<1>3. n \in 1 .. t.retries \/ n = t.retries + 1
  BY TaskFields, RetriesAssumption
<1> QED BY <1>1, <1>3 DEF Spent

\* It is enough that new messages, newly taken tasks and new retries are spent.
LEMMA SpentByMessages ==
  ASSUME TypeOK, TypeOK', SpentInv, [Next]_vars,
         \A t \in DeliverTask : Waiting(t)' => Waiting(t) \/ Spent(t)',
         \A w \in Worker : task'[w] \in DeliverTask => task'[w] = task[w] \/ Spent(task[w])',
         \A w \in Worker : pc'[w] = "retry" =>
           \/ pc[w] = "retry" /\ task'[w] = task[w]
           \/ Tried(task[w].ev, task[w].ep, task[w].retries + 1)'
  PROVE  SpentInv'
<1>1. \A t \in DeliverTask : Waiting(t)' => Spent(t)'
  BY SpentKept DEF SpentInv
<1>2. \A w \in Worker : task'[w] \in DeliverTask => Spent(task[w])'
  BY SpentKept DEF SpentInv
<1>3. ASSUME NEW w \in Worker, pc'[w] = "retry"
      PROVE  Tried(task[w].ev, task[w].ep, task[w].retries + 1)'
  <2>1. CASE pc[w] = "retry" /\ task'[w] = task[w]
    <3>1. task[w] \in DeliverTask /\ Tried(task[w].ev, task[w].ep, task[w].retries + 1)
      BY <2>1 DEF SpentInv, TypeOK
    <3>2. /\ task[w].ev \in Event /\ task[w].ep \in Endpoint
          /\ task[w].retries + 1 \in Nat
      BY <3>1, TaskFields
    <3>3. \A e \in Event, ep \in Endpoint, n \in Nat : Tried(e, ep, n) => Tried(e, ep, n)'
      BY TriedKept
    <3> QED BY <2>1, <3>1, <3>2, <3>3 DEF Tried
  <2> QED BY <1>3, <2>1
<1>4. NoGapInAttempts'
  <2> SUFFICES ASSUME NEW a \in Attempt, attempts'[a] > 0, NEW n \in 1 .. a.number - 1
               PROVE  Tried(a.ev, a.ep, n)'
    BY DEF NoGapInAttempts
  <2>0. a.ev \in Event /\ a.ep \in Endpoint /\ n \in Nat
    BY RetriesAssumption DEF Attempt
  <2>1. CASE attempts[a] > 0
    BY <2>0, <2>1, TriedKept DEF SpentInv, NoGapInAttempts
  <2>2. CASE ~(attempts[a] > 0)
    <3>1. PICK w \in Worker : Record(w) /\ a = Row(w)
      BY <2>2, AttemptsStep
    <3>2. task[w] \in DeliverTask
      BY <3>1 DEF Record, TypeOK
    <3>3. a.ev = task[w].ev /\ a.ep = task[w].ep /\ a.number - 1 = task[w].retries
      BY <3>1, <3>2, TaskFields DEF Row
    <3> QED BY <2>0, <3>2, <3>3, TriedKept DEF SpentInv, Spent
  <2> QED BY <2>1, <2>2
<1> QED BY <1>1, <1>2, <1>3, <1>4 DEF SpentInv

LEMMA SpentNext == TypeOK /\ SpentInv /\ [Next]_vars => SpentInv'
<1> SUFFICES ASSUME TypeOK, TypeOK', SpentInv, [Next]_vars PROVE SpentInv'
  BY TypeNext
<1> DEFINE Messages == \A t \in DeliverTask : Waiting(t)' => Waiting(t) \/ Spent(t)'
           Held     == \A w \in Worker : task'[w] \in DeliverTask =>
                                           task'[w] = task[w] \/ Spent(task[w])'
           Retrying == \A w \in Worker : pc'[w] = "retry" =>
                         \/ pc[w] = "retry" /\ task'[w] = task[w]
                         \/ Tried(task[w].ev, task[w].ep, task[w].retries + 1)'
<1> SUFFICES Messages /\ Held /\ Retrying
  BY SpentByMessages
<1>1. ASSUME NEW e \in Event, ApiStep(e) PROVE Messages /\ Held /\ Retrying
  <2>1. UNCHANGED workers
    BY <1>1 DEF ApiStep, Ingest, ReplayRead, ReplayCommit, Enqueue, ApiFails
  <2>2. \A t \in DeliverTask : t # Dispatcher(e)
    BY DEF DeliverTask, Dispatcher
  <2>3. /\ queue' = queue \/ queue' = [queue EXCEPT ![Dispatcher(e)] = @ + 1]
        /\ UNCHANGED parked
    BY <1>1 DEF ApiStep, Ingest, ReplayRead, ReplayCommit, Enqueue, ApiFails, broker
  <2>4. \A t \in DeliverTask : queue'[t] = queue[t]
    BY <2>2, <2>3, TaskFields DEF TypeOK
  <2>5. Messages
    BY <2>3, <2>4 DEF Waiting
  <2> QED BY <2>1, <2>5 DEF workers
<1>2. ASSUME NEW ep \in Endpoint, AdminStep(ep) \/ WindowExpires(ep)
      PROVE  Messages /\ Held /\ Retrying
  BY <1>2 DEF AdminStep, Register, Deactivate, WindowExpires, Waiting, broker, workers
<1>3. ASSUME NEW u \in DeliverTask, CountdownElapses(u) PROVE Messages /\ Held /\ Retrying
  <2>1. Messages
    BY <1>3, TaskFields DEF CountdownElapses, Waiting, TypeOK
  <2> QED BY <1>3, <2>1 DEF CountdownElapses, workers
<1>4. ASSUME NEW w \in Worker, WorkerStep(w) PROVE Messages /\ Held /\ Retrying
  <2>1. ASSUME NEW u \in Task, Take(w, u) PROVE Messages /\ Held /\ Retrying
    <3>1. Messages
      BY <2>1, TaskFields DEF Take, Waiting, TypeOK
    <3>2. ASSUME u \in DeliverTask PROVE Spent(u)'
      BY <2>1, <3>2, SpentKept DEF Take, SpentInv, Waiting
    <3>3. \A v \in Worker : task'[v] = IF v = w THEN u ELSE task[v]
      BY <2>1 DEF Take, TypeOK
    <3>4. Held
      BY <3>2, <3>3 DEF Spent, Tried
    <3>5. Retrying
      BY <2>1 DEF Take, TypeOK
    <3> QED BY <3>1, <3>4, <3>5
  <2>2. CASE \/ DispatchToNobody(w) \/ Dispatch(w) \/ Admit(w) \/ FailOpen(w) \/ ThrottleOut(w)
             \/ \E o \in Outcome : Post(w, o)
    <3>1. UNCHANGED <<queue, parked, task>>
      BY <2>2 DEF DispatchToNobody, Dispatch, Admit, FailOpen, ThrottleOut, Post, broker
    <3>2. \A v \in Worker : pc'[v] = "retry" => pc[v] = "retry"
      BY <2>2 DEF DispatchToNobody, Dispatch, Admit, FailOpen, ThrottleOut, Post, TypeOK
    <3> QED BY <3>1, <3>2 DEF Waiting
  <2>3. ASSUME NEW ep \in Endpoint, FanOut(w, ep) PROVE Messages /\ Held /\ Retrying
    <3>0. PICK m \in DeliverTask : m = Delivery(task[w].ev, ep) /\ m \in Task /\ m.retries = 0
      BY <2>3, TaskFields, DeliveryType DEF FanOut, TypeOK
    <3>1. queue' = [queue EXCEPT ![m] = @ + 1] /\ UNCHANGED <<parked, task>>
      BY <2>3, <3>0 DEF FanOut
    <3>2. \A t \in DeliverTask : Waiting(t)' => Waiting(t) \/ t = m
      BY <3>0, <3>1, TaskFields DEF Waiting, TypeOK
    <3>3. Spent(m)'
      BY <3>0 DEF Spent
    <3>4. Retrying
      BY <2>3 DEF FanOut, TypeOK
    <3> QED BY <3>1, <3>2, <3>3, <3>4
  <2>4. CASE Throttle(w) \/ Retry(w)
    <3>0. PICK t \in DeliverTask : t = task[w] /\ t.retries < MaxRetries
      BY <2>4 DEF Throttle, Retry, TypeOK
    <3>1. PICK m \in DeliverTask : m = NextTry(t) /\ m \in Task
      BY <3>0, NextTryType
    <3>2. /\ \/ queue' = [queue EXCEPT ![m] = @ + 1] /\ UNCHANGED parked
             \/ parked' = [parked EXCEPT ![m] = @ + 1] /\ UNCHANGED queue
          /\ UNCHANGED task
      BY <2>4, <3>0, <3>1 DEF Throttle, Retry
    <3>3. \A u \in DeliverTask : Waiting(u)' => Waiting(u) \/ u = m
      BY <3>1, <3>2, TaskFields DEF Waiting, TypeOK
    <3>4. Tried(t.ev, t.ep, t.retries + 1)'
      <4>1. CASE Throttle(w)
        BY <4>1, <3>0 DEF Throttle, Tried
      <4>2. CASE Retry(w)
        <5>1. Tried(t.ev, t.ep, t.retries + 1)
          BY <4>2, <3>0 DEF Retry, SpentInv
        <5> QED BY <5>1, <3>0, TaskFields, TriedKept
      <4> QED BY <2>4, <4>1, <4>2
    <3>5. Spent(t)
      BY <3>0 DEF SpentInv
    <3>6. Spent(m)'
      BY <3>0, <3>1, <3>4, <3>5, NextTrySpent DEF Spent, Tried
    <3>7. Retrying
      BY <2>4 DEF Throttle, Retry, TypeOK
    <3> QED BY <3>2, <3>3, <3>6, <3>7
  <2>5. CASE Record(w)
    <3>0. PICK t \in DeliverTask : t = task[w]
      BY <2>5 DEF Record, TypeOK
    <3>1. UNCHANGED <<queue, parked, task>>
      BY <2>5 DEF Record, broker
    <3>2. /\ Row(w) \in Attempt /\ attempts'[Row(w)] > 0
          /\ Row(w).ev = t.ev /\ Row(w).ep = t.ep /\ Row(w).number = t.retries + 1
      <4>1. Row(w) \in Attempt
        BY <3>0, RowType
      <4>2. attempts' = [attempts EXCEPT ![Row(w)] = @ + 1] /\ attempts \in [Attempt -> Nat]
        BY <2>5 DEF Record, TypeOK
      <4> QED BY <3>0, <4>1, <4>2 DEF Row
    <3>3. Tried(t.ev, t.ep, t.retries + 1)'
      BY <3>2 DEF Tried
    <3>4. \A v \in Worker \ {w} : pc'[v] = pc[v]
      BY <2>5 DEF Record, TypeOK
    <3> QED BY <3>0, <3>1, <3>3, <3>4 DEF Waiting, Tried
  <2>6. CASE Ack(w)
    BY <2>6, NoTaskAssumption DEF Ack, Free, TypeOK, Waiting, broker, Task
  <2> QED BY <1>4, <2>1, <2>2, <2>3, <2>4, <2>5, <2>6 DEF WorkerStep
<1>5. ASSUME NEW w \in Worker, TaskDies(w) PROVE Messages /\ Held /\ Retrying
  BY <1>5, NoTaskAssumption DEF TaskDies, Free, TypeOK, Waiting, broker, Task
<1>6. ASSUME NEW w \in Worker, WorkerCrash(w) PROVE Messages /\ Held /\ Retrying
  <2>1. PICK t \in Task : t = task[w]
    BY <1>6 DEF WorkerCrash, TypeOK
  <2>2. queue' = [queue EXCEPT ![t] = @ + 1] /\ UNCHANGED parked
    BY <1>6, <2>1 DEF WorkerCrash
  <2>3. \A u \in DeliverTask : Waiting(u)' => Waiting(u) \/ u = t
    BY <2>1, <2>2, TaskFields DEF Waiting, TypeOK
  <2>4. t \in DeliverTask => Spent(t)'
    BY <2>1, SpentKept DEF SpentInv
  <2>5. Messages
    BY <2>3, <2>4
  <2> QED BY <1>6, <2>5, NoTaskAssumption DEF WorkerCrash, Free, TypeOK, Task
<1>7. CASE UNCHANGED vars
  BY <1>7 DEF vars, Waiting, broker, workers
<1> QED BY <1>1, <1>2, <1>3, <1>4, <1>5, <1>6, <1>7 DEF Next

LEMMA SpentInit == Init => SpentInv
<1> SUFFICES ASSUME Init PROVE SpentInv
  OBVIOUS
<1>1. \A t \in DeliverTask : ~Waiting(t)
  BY TaskFields DEF Init, Waiting
<1> QED BY <1>1, NoTaskAssumption DEF Init, SpentInv, NoGapInAttempts, Task

\* The attempt numbers of an event at an endpoint have no gap but the numbers
\* the rate limiter spent, whatever was retried, replayed or redelivered.
THEOREM NoGap == Spec => []NoGapInAttempts
<1>1. SpentInv => NoGapInAttempts
  BY DEF SpentInv
<1> QED BY <1>1, SpentInit, TypeInit, TypeNext, SpentNext, PTL DEF Spec

(***************************************************************************)
(* Every target is answered. The property is inductive: a message moves     *)
(* between the queue, the parked ones and the workers, and what a step       *)
(* takes from one of them it hands on, records or gives up.                  *)
(***************************************************************************)

\* A worker has work to do for an endpoint.
Serves(w, e, ep) ==
  /\ pc[w] \in Working
  /\ task[w].ev = e
  /\ \/ pc[w] = "dispatch"
     \/ pc[w] = "fanout" /\ ep \in todo[w]
     \/ pc[w] \in {"gate", "post", "write", "retry"} /\ task[w].ep = ep

\* A dispatcher message is determined by its event.
LEMMA DispatcherOnly == \A t \in DispatchTask : t = Dispatcher(t.ev)
  BY DEF DispatchTask, Dispatcher

\* A delivery that a step does not touch stays under way.
LEMMA TargetKept ==
  ASSUME NEW e \in Event, NEW ep \in Endpoint, InFlightTo(e, ep),
         queue[Dispatcher(e)] > 0 => queue'[Dispatcher(e)] > 0,
         \A t \in DeliverTask : t.ev = e /\ t.ep = ep /\ Waiting(t) => Waiting(t)',
         \A w \in Worker : Serves(w, e, ep) => Serves(w, e, ep)'
  PROVE  InFlightTo(e, ep)'
  BY DEF InFlightTo, Serves

\* What is answered stays answered, and what is dropped stays dropped.
LEMMA ClosedKept ==
  ASSUME TypeOK, [Next]_vars, NEW e \in Event, NEW ep \in Endpoint
  PROVE  /\ Answered(e, ep) => Answered(e, ep)'
         /\ ep \in dropped[e] => ep \in dropped'[e]
<1>1. Answered(e, ep) => Answered(e, ep)'
  <2>1. \A a \in Attempt : attempts[a] > 0 => attempts'[a] > 0
    BY AttemptsStep
  <2> QED BY <2>1 DEF Answered, Terminal
<1>2. ep \in dropped[e] => ep \in dropped'[e]
  <2>1. ASSUME NEW x \in Event, ApiStep(x) PROVE UNCHANGED dropped
    BY <2>1 DEF ApiStep, Ingest, ReplayRead, ReplayCommit, Enqueue, ApiFails, history
  <2>2. ASSUME NEW x \in Endpoint, AdminStep(x) \/ WindowExpires(x) PROVE UNCHANGED dropped
    BY <2>2 DEF AdminStep, Register, Deactivate, WindowExpires, history
  <2>3. ASSUME NEW t \in DeliverTask, CountdownElapses(t) PROVE UNCHANGED dropped
    BY <2>3 DEF CountdownElapses, history
  <2>4. ASSUME NEW w \in Worker, WorkerStep(w) PROVE dropped[e] \subseteq dropped'[e]
    <3>1. CASE ThrottleOut(w) \/ DispatchToNobody(w) \/ Dispatch(w)
      BY <3>1 DEF ThrottleOut, DispatchToNobody, Dispatch, TypeOK
    <3>2. CASE ~(ThrottleOut(w) \/ DispatchToNobody(w) \/ Dispatch(w))
      BY <2>4, <3>2 DEF WorkerStep, Take, FanOut, Admit, FailOpen, Throttle, Post, Record,
                        Retry, Ack, history
    <3> QED BY <3>1, <3>2
  <2>5. ASSUME NEW w \in Worker, TaskDies(w) \/ WorkerCrash(w) PROVE dropped[e] \subseteq dropped'[e]
    BY <2>5 DEF TaskDies, WorkerCrash, history, TypeOK
  <2>6. CASE UNCHANGED vars
    BY <2>6 DEF vars, history
  <2> QED BY <2>1, <2>2, <2>3, <2>4, <2>5, <2>6 DEF Next
<1> QED BY <1>1, <1>2

LEMMA TargetsNext == TypeOK /\ EveryTargetAnswered /\ [Next]_vars => EveryTargetAnswered'
<1> SUFFICES ASSUME TypeOK, TypeOK', EveryTargetAnswered, [Next]_vars,
                    NEW e \in Event, NEW ep \in Endpoint, ep \in owed'[e],
                    ~(Answered(e, ep)'), ep \notin dropped'[e]
             PROVE  InFlightTo(e, ep)'
  BY TypeNext DEF EveryTargetAnswered, TypeOK
<1>0. ep \in owed[e] => InFlightTo(e, ep)
  BY ClosedKept DEF EveryTargetAnswered
<1>d. Dispatcher(e) \in Task /\ Dispatcher(e).ev = e /\ Dispatcher(e) \notin DeliverTask
  BY DispatcherType DEF Dispatcher, DeliverTask
<1>1. ASSUME NEW x \in Event, ApiStep(x) PROVE InFlightTo(e, ep)'
  <2>1. owed' = owed /\ UNCHANGED <<workers, parked>>
    BY <1>1 DEF ApiStep, Ingest, ReplayRead, ReplayCommit, Enqueue, ApiFails, history, broker
  <2>2. queue' = queue \/ queue' = [queue EXCEPT ![Dispatcher(x)] = @ + 1]
    BY <1>1 DEF ApiStep, Ingest, ReplayRead, ReplayCommit, Enqueue, ApiFails, broker
  <2>3. \A t \in Task : queue[t] > 0 => queue'[t] > 0
    <3>1. PICK m \in Task : m = Dispatcher(x)
      BY DispatcherType
    <3>2. queue' = queue \/ queue' = [queue EXCEPT ![m] = @ + 1]
      BY <2>2, <3>1
    <3>3. queue \in [Task -> Nat]
      BY DEF TypeOK
    <3> QED BY <3>2, <3>3
  <2>4. \A t \in DeliverTask : Waiting(t) => Waiting(t)'
    BY <2>1, <2>3, TaskFields DEF Waiting
  <2>5. \A w \in Worker : Serves(w, e, ep) => Serves(w, e, ep)'
    BY <2>1 DEF Serves, workers
  <2> QED BY <1>0, <1>d, <2>1, <2>3, <2>4, <2>5, TargetKept
<1>2. ASSUME NEW x \in Endpoint, AdminStep(x) \/ WindowExpires(x) PROVE InFlightTo(e, ep)'
  <2>1. ep \in owed[e]
    BY <1>2 DEF AdminStep, Register, Deactivate, WindowExpires, history, TypeOK
  <2>2. UNCHANGED <<broker, workers>>
    BY <1>2 DEF AdminStep, Register, Deactivate, WindowExpires
  <2> QED BY <1>0, <2>1, <2>2, TargetKept DEF Waiting, Serves, broker, workers
<1>3. ASSUME NEW t \in DeliverTask, CountdownElapses(t) PROVE InFlightTo(e, ep)'
  <2>1. ep \in owed[e] /\ UNCHANGED workers
    BY <1>3 DEF CountdownElapses, history
  <2>2. \A u \in Task : queue[u] > 0 => queue'[u] > 0
    BY <1>3, TaskFields DEF CountdownElapses, TypeOK
  <2>3. \A u \in DeliverTask : Waiting(u) => Waiting(u)'
    BY <1>3, <2>2, TaskFields DEF CountdownElapses, TypeOK, Waiting
  <2> QED BY <1>0, <1>d, <2>1, <2>2, <2>3, TargetKept DEF Serves, workers
<1>4. ASSUME NEW w \in Worker, WorkerStep(w) PROVE InFlightTo(e, ep)'
  <2>1. ASSUME NEW t \in Task, Take(w, t) PROVE InFlightTo(e, ep)'
    <3>1. ep \in owed[e]
      BY <2>1 DEF Take, history
    <3>2. \A v \in Worker \ {w} : pc'[v] = pc[v] /\ task'[v] = task[v] /\ todo'[v] = todo[v]
      BY <2>1 DEF Take, TypeOK
    <3>3. task'[w] = t /\ pc'[w] = IF t.kind = "dispatch" THEN "dispatch" ELSE "gate"
      BY <2>1 DEF Take, TypeOK
    <3>4. /\ \A u \in Task : u # t => queue'[u] = queue[u]
          /\ UNCHANGED parked
      BY <2>1 DEF Take, TypeOK
    <3>5. ~Serves(w, e, ep)
      BY <2>1 DEF Take, Serves, Working
    <3>6. CASE t = Dispatcher(e) \/ (t \in DeliverTask /\ t.ev = e /\ t.ep = ep)
      <4>1. Serves(w, e, ep)'
        BY <1>d, <3>3, <3>6, TaskFields DEF Serves, Working, Dispatcher
      <4> QED BY <4>1 DEF InFlightTo, Serves
    <3>7. CASE ~(t = Dispatcher(e) \/ (t \in DeliverTask /\ t.ev = e /\ t.ep = ep))
      BY <1>0, <1>d, <3>1, <3>2, <3>4, <3>5, <3>7, TargetKept, TaskFields DEF Waiting, Serves
    <3> QED BY <3>6, <3>7
  <2>2. CASE DispatchToNobody(w)
    <3>1. ep \in owed[e] /\ task[w].ev # e
      BY <2>2 DEF DispatchToNobody, TypeOK
    <3>2. UNCHANGED <<broker, task, todo>> /\ \A v \in Worker \ {w} : pc'[v] = pc[v]
      BY <2>2 DEF DispatchToNobody, TypeOK
    <3> QED BY <1>0, <3>1, <3>2, TargetKept DEF Serves, Waiting, broker
  <2>3. CASE Dispatch(w)
    <3>1. \A v \in Worker \ {w} : pc'[v] = pc[v] /\ task'[v] = task[v] /\ todo'[v] = todo[v]
      BY <2>3 DEF Dispatch, TypeOK
    <3>2. pc'[w] = "fanout" /\ task'[w] = task[w] /\ todo'[w] = active
      BY <2>3 DEF Dispatch, TypeOK
    <3>3. CASE task[w].ev = e
      <4>1. ep \in active
        BY <2>3, <3>3 DEF Dispatch, TypeOK
      <4>2. Serves(w, e, ep)'
        BY <3>2, <3>3, <4>1 DEF Serves, Working
      <4> QED BY <4>2 DEF InFlightTo, Serves
    <3>4. CASE task[w].ev # e
      <4>1. ep \in owed[e]
        BY <2>3, <3>4 DEF Dispatch, TypeOK
      <4> QED BY <1>0, <2>3, <3>1, <3>4, <4>1, TargetKept DEF Dispatch, Serves, Waiting, broker
    <3> QED BY <3>3, <3>4
  <2>4. ASSUME NEW x \in Endpoint, FanOut(w, x) PROVE InFlightTo(e, ep)'
    <3>0. PICK m \in DeliverTask : /\ m = Delivery(task[w].ev, x) /\ m \in Task
                                   /\ m.ev = task[w].ev /\ m.ep = x
      BY <2>4, TaskFields, DeliveryType DEF FanOut, TypeOK
    <3>1. ep \in owed[e] /\ UNCHANGED parked
      BY <2>4 DEF FanOut, history
    <3>2. queue' = [queue EXCEPT ![m] = @ + 1]
      BY <2>4, <3>0 DEF FanOut
    <3>3. queue'[m] > 0 /\ \A u \in Task : queue[u] > 0 => queue'[u] > 0
      BY <3>0, <3>2 DEF TypeOK
    <3>4. \A v \in Worker \ {w} : pc'[v] = pc[v] /\ task'[v] = task[v] /\ todo'[v] = todo[v]
      BY <2>4 DEF FanOut, TypeOK
    <3>5. CASE task[w].ev = e /\ x = ep
      BY <3>0, <3>3, <3>5 DEF InFlightTo, Waiting
    <3>6. CASE task[w].ev # e \/ x # ep
      <4>1. Serves(w, e, ep) => Serves(w, e, ep)'
        BY <2>4, <3>6 DEF FanOut, Serves, Working, TypeOK
      <4> QED BY <1>0, <1>d, <3>1, <3>3, <3>4, <4>1, TargetKept, TaskFields DEF Waiting, Serves
    <3> QED BY <3>5, <3>6
  <2>5. CASE Admit(w) \/ FailOpen(w) \/ \E o \in Outcome : Post(w, o)
    <3>1. ep \in owed[e] /\ UNCHANGED <<broker, task, todo>>
      BY <2>5 DEF Admit, FailOpen, Post, history
    <3>2. \A v \in Worker : Serves(v, e, ep) => Serves(v, e, ep)'
      BY <2>5, <3>1 DEF Admit, FailOpen, Post, Serves, Working, TypeOK
    <3> QED BY <1>0, <3>1, <3>2, TargetKept DEF Waiting, broker
  <2>6. CASE Throttle(w) \/ Retry(w)
    <3>0. PICK t \in DeliverTask : t = task[w] /\ t.retries < MaxRetries
      BY <2>6 DEF Throttle, Retry, TypeOK
    <3>1. PICK m \in DeliverTask : m = NextTry(t) /\ m \in Task /\ m.ev = t.ev /\ m.ep = t.ep
      BY <3>0, NextTryType
    <3>2. /\ \/ queue' = [queue EXCEPT ![m] = @ + 1] /\ UNCHANGED parked
             \/ parked' = [parked EXCEPT ![m] = @ + 1] /\ UNCHANGED queue
          /\ UNCHANGED <<task, todo>>
          /\ ep \in owed[e]
      BY <2>6, <3>0, <3>1 DEF Throttle, Retry, history
    <3>3. /\ Waiting(m)'
          /\ \A u \in Task : queue[u] > 0 => queue'[u] > 0
          /\ \A u \in DeliverTask : Waiting(u) => Waiting(u)'
      <4>1. CASE queue' = [queue EXCEPT ![m] = @ + 1] /\ UNCHANGED parked
        <5>1. queue'[m] > 0 /\ \A u \in Task : queue[u] > 0 => queue'[u] > 0
          BY <3>1, <4>1 DEF TypeOK
        <5> QED BY <4>1, <5>1, TaskFields DEF Waiting
      <4>2. CASE parked' = [parked EXCEPT ![m] = @ + 1] /\ UNCHANGED queue
        <5>1. parked'[m] > 0 /\ \A u \in DeliverTask : parked[u] > 0 => parked'[u] > 0
          BY <4>2 DEF TypeOK
        <5> QED BY <4>2, <5>1 DEF Waiting
      <4> QED BY <3>2, <4>1, <4>2
    <3>4. \A v \in Worker \ {w} : pc'[v] = pc[v]
      BY <2>6 DEF Throttle, Retry, TypeOK
    <3>5. CASE t.ev = e /\ t.ep = ep
      BY <3>1, <3>3, <3>5 DEF InFlightTo
    <3>6. CASE ~(t.ev = e /\ t.ep = ep)
      <4>1. ~Serves(w, e, ep)
        BY <2>6, <3>0, <3>6 DEF Throttle, Retry, Serves
      <4> QED BY <1>0, <1>d, <3>2, <3>3, <3>4, <4>1, TargetKept DEF Serves
    <3> QED BY <3>5, <3>6
  <2>7. CASE ThrottleOut(w)
    <3>0. PICK t \in DeliverTask : t = task[w]
      BY <2>7 DEF ThrottleOut, TypeOK
    <3>1. ~(t.ev = e /\ t.ep = ep)
      BY <2>7, <3>0 DEF ThrottleOut, TypeOK
    <3>2. ~Serves(w, e, ep)
      BY <2>7, <3>0, <3>1 DEF ThrottleOut, Serves
    <3>3. ep \in owed[e] /\ UNCHANGED <<broker, task, todo>> /\ \A v \in Worker \ {w} : pc'[v] = pc[v]
      BY <2>7 DEF ThrottleOut, TypeOK
    <3> QED BY <1>0, <3>2, <3>3, TargetKept DEF Serves, Waiting, broker
  <2>8. CASE Record(w)
    <3>0. PICK t \in DeliverTask : t = task[w]
      BY <2>8 DEF Record, TypeOK
    <3>1. ep \in owed[e] /\ UNCHANGED <<broker, task, todo>> /\ \A v \in Worker \ {w} : pc'[v] = pc[v]
      BY <2>8 DEF Record, TypeOK, history
    <3>2. pc'[w] = "retry" \/ ~(t.ev = e /\ t.ep = ep)
      <4> SUFFICES ASSUME pc'[w] # "retry", t.ev = e, t.ep = ep PROVE FALSE
        OBVIOUS
      <4>1. outcome[w] # "transient_error" \/ RetriesExhausted(w)
        BY <2>8 DEF Record, TypeOK
      <4>2. Row(w) \in Attempt /\ attempts'[Row(w)] > 0
        <5>1. Row(w) \in Attempt
          BY <3>0, RowType
        <5> QED BY <2>8, <5>1 DEF Record, TypeOK
      <4>3. /\ Row(w).ev = e /\ Row(w).ep = ep /\ Row(w).number = t.retries + 1
            /\ Row(w).outcome = outcome[w]
        BY <3>0 DEF Row
      <4>4. RetriesExhausted(w) => t.retries = MaxRetries
        BY <3>0, TaskFields, RetriesAssumption DEF RetriesExhausted
      <4> QED BY <4>1, <4>2, <4>3, <4>4 DEF Answered, Terminal
    <3>3. Serves(w, e, ep) => Serves(w, e, ep)'
      BY <2>8, <3>0, <3>1, <3>2 DEF Record, Serves, Working
    <3> QED BY <1>0, <3>1, <3>3, TargetKept DEF Serves, Waiting, broker
  <2>9. CASE Ack(w)
    <3>1. ep \in owed[e] /\ UNCHANGED broker /\ ~Serves(w, e, ep)
      BY <2>9 DEF Ack, Serves, Working, history
    <3>2. \A v \in Worker \ {w} : pc'[v] = pc[v] /\ task'[v] = task[v] /\ todo'[v] = todo[v]
      BY <2>9 DEF Ack, Free, TypeOK
    <3> QED BY <1>0, <3>1, <3>2, TargetKept DEF Serves, Waiting, broker
  <2> QED BY <1>4, <2>1, <2>2, <2>3, <2>4, <2>5, <2>6, <2>7, <2>8, <2>9 DEF WorkerStep
<1>5. ASSUME NEW w \in Worker, TaskDies(w) PROVE InFlightTo(e, ep)'
  <2>1. ep \in owed[e] /\ UNCHANGED broker
    BY <1>5 DEF TaskDies
  <2>2. \A v \in Worker \ {w} : pc'[v] = pc[v] /\ task'[v] = task[v] /\ todo'[v] = todo[v]
    BY <1>5 DEF TaskDies, Free, TypeOK
  <2>3. task[w].ev = e => ep \notin Undone(w)
    BY <1>5 DEF TaskDies, TypeOK
  <2>4. ~Serves(w, e, ep)
    BY <1>5, <2>1, <2>3 DEF Serves, Undone, TaskDies, Working
  <2> QED BY <1>0, <2>1, <2>2, <2>4, TargetKept DEF Serves, Waiting, broker
<1>6. ASSUME NEW w \in Worker, WorkerCrash(w) PROVE InFlightTo(e, ep)'
  <2>0. PICK t \in Task : t = task[w]
    BY <1>6 DEF WorkerCrash, TypeOK
  <2>1. ep \in owed[e] /\ UNCHANGED parked
    BY <1>6 DEF WorkerCrash, history
  <2>2. queue'[t] > 0 /\ \A u \in Task : queue[u] > 0 => queue'[u] > 0
    BY <1>6, <2>0 DEF WorkerCrash, TypeOK
  <2>3. \A v \in Worker \ {w} : pc'[v] = pc[v] /\ task'[v] = task[v] /\ todo'[v] = todo[v]
    BY <1>6 DEF WorkerCrash, Free, TypeOK
  <2>4. CASE Serves(w, e, ep)
    <3>1. t = Dispatcher(e) \/ (t \in DeliverTask /\ t.ev = e /\ t.ep = ep)
      BY <2>0, <2>4, DispatcherOnly DEF Serves, TypeOK
    <3> QED BY <2>2, <3>1 DEF InFlightTo, Waiting
  <2>5. CASE ~Serves(w, e, ep)
    BY <1>0, <1>d, <2>1, <2>2, <2>3, <2>5, TargetKept, TaskFields DEF Serves, Waiting
  <2> QED BY <2>4, <2>5
<1>7. CASE UNCHANGED vars
  BY <1>0, <1>7, TargetKept DEF vars, history, broker, workers, Waiting, Serves
<1> QED BY <1>1, <1>2, <1>3, <1>4, <1>5, <1>6, <1>7 DEF Next

\* Every endpoint a dispatcher read as active is answered, being served, or
\* was itself given up: fan-out, retries and redeliveries lose none of them.
THEOREM Targets == Spec => []EveryTargetAnswered
<1>1. Init => EveryTargetAnswered
  BY DEF Init, EveryTargetAnswered
<1> QED BY <1>1, TypeInit, TypeNext, TargetsNext, PTL DEF Spec

(***************************************************************************)
(* What is at rest stays so: whoever writes a status or a row, or pushes a  *)
(* message, holds a message of that event or carries out a replay of it.     *)
(***************************************************************************)

LEMMA SettledStep ==
  ASSUME TypeOK, [Next]_vars, NEW e \in Event, AtRest(e)
  PROVE  status'[e] = status[e] /\ \A a \in Attempt : a.ev = e => attempts'[a] = attempts[a]
<1>1. ASSUME NEW x \in Event, ApiStep(x) PROVE status'[e] = status[e]
  BY <1>1 DEF ApiStep, Ingest, ReplayRead, ReplayCommit, Enqueue, ApiFails, db, TypeOK, AtRest
<1>2. ASSUME NEW ep \in Endpoint, AdminStep(ep) \/ WindowExpires(ep) PROVE status'[e] = status[e]
  BY <1>2 DEF AdminStep, Register, Deactivate, WindowExpires, db
<1>3. ASSUME NEW t \in DeliverTask, CountdownElapses(t) PROVE status'[e] = status[e]
  BY <1>3 DEF CountdownElapses, db
<1>4. ASSUME NEW w \in Worker, WorkerStep(w) PROVE status'[e] = status[e]
  <2>1. pc[w] \in Working => task[w].ev # e
    BY DEF AtRest, InFlight
  <2>2. CASE Record(w) \/ DispatchToNobody(w)
    BY <2>1, <2>2 DEF Record, DispatchToNobody, Working, TypeOK
  <2>3. CASE ~(Record(w) \/ DispatchToNobody(w))
    BY <1>4, <2>3 DEF WorkerStep, Take, Dispatch, FanOut, Admit, FailOpen, Throttle,
                      ThrottleOut, Post, Retry, Ack, db
  <2> QED BY <2>2, <2>3
<1>5. ASSUME NEW w \in Worker, TaskDies(w) \/ WorkerCrash(w) PROVE status'[e] = status[e]
  BY <1>5 DEF TaskDies, WorkerCrash, db
<1>6. CASE UNCHANGED vars
  BY <1>6 DEF vars, db
<1>7. status'[e] = status[e]
  BY <1>1, <1>2, <1>3, <1>4, <1>5, <1>6 DEF Next
<1>8. ASSUME NEW a \in Attempt, a.ev = e PROVE attempts'[a] = attempts[a]
  <2>1. CASE UNCHANGED attempts
    BY <2>1
  <2>2. ASSUME NEW w \in Worker, Record(w) PROVE attempts'[a] = attempts[a]
    <3>1. a # Row(w)
      BY <1>8, <2>2 DEF Record, AtRest, InFlight, Working, Row
    <3>2. attempts' = [attempts EXCEPT ![Row(w)] = @ + 1] /\ attempts \in [Attempt -> Nat]
      BY <2>2 DEF Record, TypeOK
    <3> QED BY <3>1, <3>2
  <2> QED BY <2>1, <2>2, AttemptsStep
<1> QED BY <1>7, <1>8

\* No message, request or worker comes to serve an event at rest.
LEMMA RestStep ==
  ASSUME TypeOK, [Next]_vars, NEW e \in Event, AtRest(e), replays'[e] = replays[e]
  PROVE  /\ unqueued'[e] = 0 /\ replaying'[e] = 0
         /\ \A t \in Task : t.ev = e => ~Waiting(t)'
         /\ \A w \in Worker : pc'[w] = "idle" \/ task'[w].ev # e
<1> DEFINE Rest == /\ unqueued'[e] = 0 /\ replaying'[e] = 0
                   /\ \A t \in Task : t.ev = e => ~Waiting(t)'
                   /\ \A w \in Worker : pc'[w] = "idle" \/ task'[w].ev # e
<1>0. /\ unqueued[e] = 0 /\ replaying[e] = 0
      /\ \A t \in Task : t.ev = e => ~Waiting(t)
      /\ \A w \in Worker : pc[w] = "idle" \/ task[w].ev # e
  BY DEF AtRest, InFlight, TypeOK
<1>1. ASSUME NEW x \in Event, ApiStep(x) PROVE Rest
  <2>1. CASE x = e
    BY <1>0, <1>1, <2>1 DEF ApiStep, Ingest, ReplayRead, ReplayCommit, Enqueue, ApiFails, AtRest, TypeOK
  <2>2. CASE x # e
    <3>1. UNCHANGED <<workers, parked>> /\ unqueued'[e] = unqueued[e] /\ replaying'[e] = replaying[e]
      BY <1>1, <2>2 DEF ApiStep, Ingest, ReplayRead, ReplayCommit, Enqueue, ApiFails, TypeOK, broker
    <3>2. queue' = queue \/ queue' = [queue EXCEPT ![Dispatcher(x)] = @ + 1]
      BY <1>1 DEF ApiStep, Ingest, ReplayRead, ReplayCommit, Enqueue, ApiFails, broker
    <3>3. \A t \in Task : t.ev = e => queue'[t] = queue[t]
      BY <2>2, <3>2 DEF Dispatcher, TypeOK
    <3> QED BY <1>0, <3>1, <3>3, TaskFields DEF Waiting, workers
  <2> QED BY <2>1, <2>2
<1>2. ASSUME NEW ep \in Endpoint, AdminStep(ep) \/ WindowExpires(ep) PROVE Rest
  BY <1>0, <1>2 DEF AdminStep, Register, Deactivate, WindowExpires, Waiting, api, broker, workers
<1>3. ASSUME NEW t \in DeliverTask, CountdownElapses(t) PROVE Rest
  <2>1. t.ev # e /\ UNCHANGED <<api, workers>>
    BY <1>0, <1>3, TaskFields DEF CountdownElapses, Waiting
  <2>2. \A u \in Task : u # t => queue'[u] = queue[u] /\ (u \in DeliverTask => parked'[u] = parked[u])
    BY <1>3 DEF CountdownElapses, TypeOK
  <2> QED BY <1>0, <2>1, <2>2 DEF Waiting, api, workers
<1>4. ASSUME NEW w \in Worker, WorkerStep(w) PROVE Rest
  <2>0. UNCHANGED api
    BY <1>4 DEF WorkerStep, Take, DispatchToNobody, Dispatch, FanOut, Admit, FailOpen, Throttle,
                ThrottleOut, Post, Record, Retry, Ack
  <2>1. ASSUME NEW t \in Task, Take(w, t) PROVE Rest
    <3>1. t.ev # e
      BY <1>0, <2>1 DEF Take, Waiting
    <3>2. /\ \A u \in Task : u # t => queue'[u] = queue[u]
          /\ UNCHANGED parked
          /\ task'[w] = t /\ \A v \in Worker \ {w} : pc'[v] = pc[v] /\ task'[v] = task[v]
      BY <2>1 DEF Take, TypeOK
    <3> QED BY <1>0, <2>0, <3>1, <3>2 DEF Waiting, api
  <2>2. CASE pc[w] # "idle" /\ task' = task
    <3>0. \A v \in Worker \ {w} : pc'[v] = pc[v]
      BY <1>4 DEF WorkerStep, Take, DispatchToNobody, Dispatch, FanOut, Admit, FailOpen, Throttle,
                  ThrottleOut, Post, Record, Retry, Ack, Free, TypeOK
    <3>1. task[w].ev # e
      BY <1>0, <2>2
    <3>2. \A v \in Worker : pc'[v] = "idle" \/ task'[v].ev # e
      BY <1>0, <2>2, <3>0, <3>1
    <3>3. ASSUME NEW x \in Endpoint, FanOut(w, x) PROVE Rest
      <4>1. queue' = [queue EXCEPT ![Delivery(task[w].ev, x)] = @ + 1] /\ UNCHANGED parked
        BY <3>3 DEF FanOut
      <4>2. \A t \in Task : t.ev = e => queue'[t] = queue[t]
        BY <3>1, <4>1 DEF Delivery, TypeOK
      <4> QED BY <1>0, <2>0, <3>2, <4>1, <4>2, TaskFields DEF Waiting, api
    <3>4. CASE Throttle(w) \/ Retry(w)
      <4>1. PICK m \in DeliverTask : m = NextTry(task[w]) /\ m.ev = task[w].ev
        BY <3>4, NextTryType DEF Throttle, Retry, TypeOK
      <4>2. \/ queue' = [queue EXCEPT ![m] = @ + 1] /\ UNCHANGED parked
            \/ parked' = [parked EXCEPT ![m] = @ + 1] /\ UNCHANGED queue
        BY <3>4, <4>1 DEF Throttle, Retry
      <4>3. \A t \in Task : t # m => queue'[t] = queue[t] /\ (t \in DeliverTask => parked'[t] = parked[t])
        BY <4>2 DEF TypeOK
      <4> QED BY <1>0, <2>0, <3>1, <3>2, <4>1, <4>3 DEF Waiting, api
    <3>5. CASE UNCHANGED broker
      BY <1>0, <2>0, <3>2, <3>5 DEF Waiting, broker, api
    <3> QED BY <1>4, <2>2, <3>3, <3>4, <3>5
            DEF WorkerStep, Take, DispatchToNobody, Dispatch, Admit, FailOpen, ThrottleOut, Post, Record,
                Ack, broker
  <2>3. CASE Ack(w)
    BY <1>0, <2>0, <2>3 DEF Ack, Free, Waiting, broker, api, TypeOK
  <2> QED BY <1>4, <2>1, <2>2, <2>3
          DEF WorkerStep, DispatchToNobody, Dispatch, FanOut, Admit, FailOpen, Throttle, ThrottleOut,
              Post, Record, Retry
<1>5. ASSUME NEW w \in Worker, TaskDies(w) \/ WorkerCrash(w) PROVE Rest
  <2>1. UNCHANGED <<api, parked>> /\ pc'[w] = "idle"
        /\ \A v \in Worker \ {w} : pc'[v] = pc[v] /\ task'[v] = task[v]
    BY <1>5 DEF TaskDies, WorkerCrash, Free, broker, TypeOK
  <2>2. \A t \in Task : t.ev = e => queue'[t] = queue[t]
    BY <1>0, <1>5 DEF TaskDies, WorkerCrash, broker, Working, TypeOK
  <2> QED BY <1>0, <2>1, <2>2, TaskFields DEF Waiting, api
<1>6. CASE UNCHANGED vars
  BY <1>0, <1>6 DEF vars, api, broker, workers, Waiting
<1> QED BY <1>1, <1>2, <1>3, <1>4, <1>5, <1>6 DEF Next

\* An event at rest stays so until it is replayed, with its status and its
\* rows, whatever goes on for other events and however often its own tasks ran.
THEOREM Settled == Spec => SettledIsStable
<1>1. TypeOK /\ [Next]_vars =>
        [\A e \in Event : AtRest(e) /\ replays'[e] = replays[e] =>
           /\ AtRest(e)'
           /\ status'[e] = status[e]
           /\ \A a \in Attempt : a.ev = e => attempts'[a] = attempts[a]]_vars
  <2> SUFFICES ASSUME TypeOK, [Next]_vars, NEW e \in Event, AtRest(e), replays'[e] = replays[e]
               PROVE  /\ AtRest(e)'
                      /\ status'[e] = status[e]
                      /\ \A a \in Attempt : a.ev = e => attempts'[a] = attempts[a]
    OBVIOUS
  <2>1. status'[e] = status[e] /\ \A a \in Attempt : a.ev = e => attempts'[a] = attempts[a]
    BY SettledStep
  <2>2. /\ unqueued'[e] = 0 /\ replaying'[e] = 0
        /\ \A t \in Task : t.ev = e => ~Waiting(t)'
        /\ \A w \in Worker : pc'[w] = "idle" \/ task'[w].ev # e
    BY RestStep
  <2>3. AtRest(e)'
    BY <2>1, <2>2 DEF AtRest, InFlight, Working
  <2> QED BY <2>1, <2>3
<1> QED BY <1>1, TypeInit, TypeNext, PTL DEF Spec, SettledIsStable


(***************************************************************************)
(* Repeated successes are caused. Whatever may still become a 2xx answer of *)
(* an endpoint to an event is a chance: a request to push its dispatcher, a *)
(* copy of a message, a slot that has not posted yet or failed to. A step   *)
(* turns a chance into another one or into an answer; only a replay and a   *)
(* crash make a new one. What is counted are tokens, one for each chance,   *)
(* so that the invariant is about the cardinality of one set.               *)
(***************************************************************************)

\* One token for each copy in a bag f of what S holds.
Copies(tag, S, f) == {x \in {tag} \X S \X (Nat \ {0}) : x[3] <= f[x[2]]}

\* Messages from which the endpoint may be posted to.
For(e, ep) == {t \in Task : t.ev = e /\ (t.kind = "dispatch" \/ (t \in DeliverTask /\ t.ep = ep))}

ParkedFor(e, ep) == {t \in DeliverTask : t.ev = e /\ t.ep = ep}

\* The slot may post to the endpoint, or push a message that may.
MayPost(w, e, ep) == Serves(w, e, ep) /\ ~(pc[w] = "write" /\ outcome[w] = "success")

Slot(w) == <<"slot", w, 1>>

Slots(e, ep) == {x \in {"slot"} \X Worker \X {1} : MayPost(x[2], e, ep)}

Chances(e, ep) ==
  Copies("api", {e}, unqueued) \cup Copies("replay", {e}, replaying)
  \cup Copies("queue", For(e, ep), queue) \cup Copies("parked", ParkedFor(e, ep), parked)
  \cup Slots(e, ep)

\* An event that was not posted yet has one chance to be.
Unposted(e) == IF status[e] = "ABSENT" THEN 1 ELSE 0

ChancesInv ==
  \A e \in Event, ep \in Endpoint :
    /\ IsFiniteSet(Chances(e, ep))
    /\ acked[e][ep] + Cardinality(Chances(e, ep)) + Unposted(e) <= 1 + replays[e] + crashes

\* A copy more, a copy less.
LEMMA CopyAdded ==
  ASSUME NEW tag, NEW S, NEW f, NEW g, NEW t,
         \A u \in S : f[u] \in Nat, \A u \in S : g[u] = IF u = t THEN f[u] + 1 ELSE f[u]
  PROVE  Copies(tag, S, g) \subseteq Copies(tag, S, f) \cup {<<tag, t, f[t] + 1>>}
<1>1. ASSUME NEW x \in Copies(tag, S, g), x \notin Copies(tag, S, f)
      PROVE  x = <<tag, t, f[t] + 1>>
  <2>1. /\ x \in {tag} \X S \X (Nat \ {0}) /\ x[2] \in S /\ x[3] \in Nat
        /\ x = <<tag, x[2], x[3]>>
        /\ x[3] <= g[x[2]] /\ ~(x[3] <= f[x[2]])
    BY <1>1 DEF Copies
  <2>2. x[2] = t
    BY <2>1
  <2>3. g[t] = f[t] + 1 /\ f[t] \in Nat
    BY <2>1, <2>2
  <2> QED BY <2>1, <2>2, <2>3
<1> QED BY <1>1

LEMMA CopyTaken ==
  ASSUME NEW tag, NEW S, NEW f, NEW g, NEW t,
         \A u \in S : f[u] \in Nat, \A u \in S : g[u] = IF u = t THEN f[u] - 1 ELSE f[u],
         t \in S, f[t] > 0
  PROVE  /\ <<tag, t, f[t]>> \in Copies(tag, S, f)
         /\ Copies(tag, S, g) \subseteq Copies(tag, S, f) \ {<<tag, t, f[t]>>}
<1>1. <<tag, t, f[t]>> \in Copies(tag, S, f)
  BY DEF Copies
<1>2. ASSUME NEW x \in Copies(tag, S, g)
      PROVE  x \in Copies(tag, S, f) /\ x # <<tag, t, f[t]>>
  <2>1. /\ x \in {tag} \X S \X (Nat \ {0}) /\ x[2] \in S /\ x[3] \in Nat
        /\ x[3] <= g[x[2]]
    BY <1>2 DEF Copies
  <2>2. g[x[2]] <= f[x[2]] /\ f[x[2]] \in Nat /\ g[x[2]] \in Int
    BY <2>1
  <2>3. x[3] <= f[x[2]]
    BY <2>1, <2>2
  <2>4. x # <<tag, t, f[t]>>
    BY <2>1
  <2> QED BY <2>1, <2>3, <2>4 DEF Copies
<1> QED BY <1>1, <1>2

\* Copies of other messages are as they were.
LEMMA CopiesKept ==
  ASSUME NEW tag, NEW S, NEW f, NEW g, \A u \in S : g[u] = f[u]
  PROVE  Copies(tag, S, g) = Copies(tag, S, f)
  BY DEF Copies

\* What is in one part of the chances is in no other.
LEMMA CopyTags == ASSUME NEW tag, NEW S, NEW f, NEW x \in Copies(tag, S, f) PROVE x[1] = tag
  BY DEF Copies

LEMMA SlotTags == ASSUME NEW e, NEW ep, NEW x \in Slots(e, ep) PROVE x[1] = "slot"
  BY DEF Slots

LEMMA SlotIn ==
  ASSUME NEW e, NEW ep, NEW w \in Worker
  PROVE  MayPost(w, e, ep) <=> Slot(w) \in Slots(e, ep)
  BY DEF Slots, Slot

\* The other slots are as they were.
LEMMA SlotsStep ==
  ASSUME NEW e, NEW ep, NEW w \in Worker,
         \A v \in Worker \ {w} : /\ pc'[v] = pc[v] /\ task'[v] = task[v]
                                 /\ todo'[v] = todo[v] /\ outcome'[v] = outcome[v]
  PROVE  /\ MayPost(w, e, ep)' => Slots(e, ep)' \subseteq Slots(e, ep) \cup {Slot(w)}
         /\ ~(MayPost(w, e, ep)') => Slots(e, ep)' \subseteq Slots(e, ep) \ {Slot(w)}
<1>2. ASSUME NEW x \in Slots(e, ep)'
      PROVE  x \in Slots(e, ep) \/ (x = Slot(w) /\ MayPost(w, e, ep)')
  <2>1. PICK v \in Worker : x = Slot(v) /\ MayPost(v, e, ep)'
    BY DEF Slots, Slot
  <2>2. CASE v = w
    BY <2>1, <2>2
  <2>3. CASE v # w
    <3>1. MayPost(v, e, ep)
      BY <2>1, <2>3 DEF MayPost, Serves
    <3>2. Slot(v) \in Slots(e, ep)
      BY <3>1, SlotIn
    <3> QED BY <2>1, <3>2
  <2> QED BY <2>2, <2>3
<1>3. ~(MayPost(w, e, ep)') => Slot(w) \notin Slots(e, ep)'
  BY DEF Slots, Slot
<1> QED BY <1>2, <1>3

-----------------------------------------------------------------------------
\* The arithmetic of finite sets: one element for another, one more, one less.
LEMMA Swapped ==
  ASSUME NEW C, IsFiniteSet(C), NEW x \in C, NEW y, NEW D, D \subseteq (C \ {x}) \cup {y}
  PROVE  IsFiniteSet(D) /\ Cardinality(D) <= Cardinality(C)
<1>1. /\ IsFiniteSet(C \ {x}) /\ Cardinality(C \ {x}) = Cardinality(C) - 1
      /\ Cardinality(C) \in Nat /\ Cardinality(C \ {x}) \in Nat
  BY FS_RemoveElement, FS_CardinalityType
<1>2. /\ IsFiniteSet((C \ {x}) \cup {y})
      /\ \/ Cardinality((C \ {x}) \cup {y}) = Cardinality(C \ {x}) + 1
         \/ (C \ {x}) \cup {y} = C \ {x}
  BY <1>1, FS_AddElement
<1>3. IsFiniteSet(D) /\ Cardinality(D) <= Cardinality((C \ {x}) \cup {y})
  BY <1>2, FS_Subset
<1>4. Cardinality(D) \in Nat /\ Cardinality((C \ {x}) \cup {y}) \in Nat
  BY <1>2, <1>3, FS_CardinalityType
<1> QED BY <1>1, <1>2, <1>3, <1>4

LEMMA Gained ==
  ASSUME NEW C, IsFiniteSet(C), NEW y, NEW D, D \subseteq C \cup {y}
  PROVE  IsFiniteSet(D) /\ Cardinality(D) <= Cardinality(C) + 1
<1> DEFINE E == C \cup {y}
<1>1. Cardinality(C) \in Nat
  BY FS_CardinalityType
<1>2. IsFiniteSet(E) /\ (y \notin C => Cardinality(E) = Cardinality(C) + 1)
  BY FS_AddElement
<1>3. y \in C => E = C
  OBVIOUS
<1> HIDE DEF E
<1>4. IsFiniteSet(D) /\ Cardinality(D) <= Cardinality(E)
  BY <1>2, FS_Subset DEF E
<1>5. Cardinality(D) \in Nat /\ Cardinality(E) \in Nat
  BY <1>2, <1>4, FS_CardinalityType
<1>6. Cardinality(E) <= Cardinality(C) + 1
  BY <1>1, <1>2, <1>3
<1> QED BY <1>1, <1>4, <1>5, <1>6

LEMMA Spare ==
  ASSUME NEW C, IsFiniteSet(C), NEW x \in C, NEW D, D \subseteq C \ {x}
  PROVE  IsFiniteSet(D) /\ Cardinality(D) + 1 <= Cardinality(C)
<1>1. /\ IsFiniteSet(C \ {x}) /\ Cardinality(C \ {x}) = Cardinality(C) - 1
      /\ Cardinality(C) \in Nat /\ Cardinality(C \ {x}) \in Nat
  BY FS_RemoveElement, FS_CardinalityType
<1>2. IsFiniteSet(D) /\ Cardinality(D) <= Cardinality(C \ {x})
  BY <1>1, FS_Subset
<1>3. Cardinality(D) \in Nat
  BY <1>2, FS_CardinalityType
<1> QED BY <1>1, <1>2, <1>3

-----------------------------------------------------------------------------
\* One chance becomes another, or none.
Moves(C, D) == D \subseteq C \/ \E x \in C : \E y : D \subseteq (C \ {x}) \cup {y}

Grows(C, D) == \E y : D \subseteq C \cup {y}

\* The numbers the chances are compared with.
Same(e, ep) ==
  /\ acked'[e][ep] = acked[e][ep]
  /\ Unposted(e)' <= Unposted(e)
  /\ replays'[e] = replays[e]
  /\ crashes' = crashes

LEMMA UnpostedType == \A e \in Event : Unposted(e) \in Nat /\ Unposted(e)' \in Nat
  BY DEF Unposted

LEMMA ApiChances ==
  ASSUME TypeOK, NEW x \in Event, ApiStep(x), NEW e \in Event, NEW ep \in Endpoint
  PROVE  \/ Moves(Chances(e, ep), Chances(e, ep)') /\ Same(e, ep)
         \/ /\ Grows(Chances(e, ep), Chances(e, ep)')
            /\ acked'[e][ep] = acked[e][ep] /\ crashes' = crashes
            /\ \/ Unposted(e) = 1 /\ Unposted(e)' = 0 /\ replays'[e] = replays[e]
               \/ Unposted(e)' = Unposted(e) /\ replays'[e] = replays[e] + 1
<1> DEFINE psh == Copies("api", {e}, unqueued)  rep == Copies("replay", {e}, replaying)
           que == Copies("queue", For(e, ep), queue)
           prk == Copies("parked", ParkedFor(e, ep), parked)
<1>0. /\ Chances(e, ep) = psh \cup rep \cup que \cup prk \cup Slots(e, ep)
      /\ Chances(e, ep)' = psh' \cup rep' \cup que' \cup prk' \cup Slots(e, ep)'
      /\ acked' = acked /\ crashes' = crashes
  BY DEF ApiStep, Ingest, ReplayRead, ReplayCommit, Enqueue, ApiFails, Chances, history, bounds
<1>1. prk' = prk /\ Slots(e, ep)' = Slots(e, ep)
  BY DEF ApiStep, Ingest, ReplayRead, ReplayCommit, Enqueue, ApiFails, Slots, MayPost, Serves, workers, broker
<1>2. unqueued \in [Event -> Nat] /\ replaying \in [Event -> Nat] /\ queue \in [Task -> Nat]
  BY DEF TypeOK
<1>3. ASSUME unqueued' = [unqueued EXCEPT ![x] = @ + 1]
      PROVE  /\ x # e => psh' = psh
             /\ psh' \subseteq psh \cup {<<"api", x, unqueued[x] + 1>>}
  <2>1. \A u \in {e} : unqueued[u] \in Nat /\ unqueued'[u] = IF u = x THEN unqueued[u] + 1 ELSE unqueued[u]
    BY <1>2, <1>3
  <2>2. psh' \subseteq psh \cup {<<"api", x, unqueued[x] + 1>>}
    BY <2>1, CopyAdded
  <2>3. ASSUME x # e PROVE psh' = psh
    BY <2>1, <2>3, CopiesKept
  <2> QED BY <2>2, <2>3
<1>4. CASE Ingest(x)
  <2>1. rep' = rep /\ que' = que /\ replays' = replays
    BY <1>4 DEF Ingest, broker, bounds
  <2>2. /\ x # e => psh' = psh
        /\ psh' \subseteq psh \cup {<<"api", x, unqueued[x] + 1>>}
    BY <1>3, <1>4 DEF Ingest
  <2>3. CASE x = e
    <3>1. Unposted(e) = 1 /\ Unposted(e)' = 0
      BY <1>4, <2>3 DEF Ingest, TypeOK, Unposted
    <3>2. Grows(Chances(e, ep), Chances(e, ep)')
      BY <1>0, <1>1, <2>1, <2>2, <2>3 DEF Grows
    <3> QED BY <1>0, <2>1, <3>1, <3>2
  <2>4. CASE x # e
    <3>1. Unposted(e)' = Unposted(e)
      BY <1>4, <2>4 DEF Ingest, TypeOK, Unposted
    <3>2. Moves(Chances(e, ep), Chances(e, ep)')
      BY <1>0, <1>1, <2>1, <2>2, <2>4 DEF Moves
    <3> QED BY <1>0, <2>1, <3>1, <3>2, UnpostedType DEF Same
  <2> QED BY <2>3, <2>4
<1>5. CASE ReplayRead(x)
  <2>1. psh' = psh /\ que' = que /\ Unposted(e)' = Unposted(e)
    BY <1>5 DEF ReplayRead, db, broker, Unposted
  <2>2. /\ x # e => rep' = rep
        /\ rep' \subseteq rep \cup {<<"replay", x, replaying[x] + 1>>}
    <3>1. \A u \in {e} : replaying[u] \in Nat /\ replaying'[u] = IF u = x THEN replaying[u] + 1 ELSE replaying[u]
      BY <1>2, <1>5 DEF ReplayRead
    <3>2. rep' \subseteq rep \cup {<<"replay", x, replaying[x] + 1>>}
      BY <3>1, CopyAdded
    <3>3. ASSUME x # e PROVE rep' = rep
      BY <3>1, <3>3, CopiesKept
    <3> QED BY <3>2, <3>3
  <2>3. CASE x = e
    <3>1. replays'[e] = replays[e] + 1
      BY <1>5, <2>3 DEF ReplayRead, TypeOK
    <3>2. Grows(Chances(e, ep), Chances(e, ep)')
      BY <1>0, <1>1, <2>1, <2>2, <2>3 DEF Grows
    <3> QED BY <1>0, <2>1, <3>1, <3>2
  <2>4. CASE x # e
    <3>1. replays'[e] = replays[e]
      BY <1>5, <2>4 DEF ReplayRead, TypeOK
    <3>2. Moves(Chances(e, ep), Chances(e, ep)')
      BY <1>0, <1>1, <2>1, <2>2, <2>4 DEF Moves
    <3> QED BY <1>0, <2>1, <3>1, <3>2, UnpostedType DEF Same
  <2> QED BY <2>3, <2>4
<1>6. CASE ReplayCommit(x)
  <2> DEFINE y == <<"replay", x, replaying[x]>>
  <2>0. que' = que /\ replays' = replays
    BY <1>6 DEF ReplayCommit, broker, bounds
  <2>1. Unposted(e)' <= Unposted(e)
    BY <1>6 DEF ReplayCommit, TypeOK, Unposted
  <2>2. /\ x # e => psh' = psh
        /\ psh' \subseteq psh \cup {<<"api", x, unqueued[x] + 1>>}
    BY <1>3, <1>6 DEF ReplayCommit
  <2>3. \A u \in {e} : replaying[u] \in Nat /\ replaying'[u] = IF u = x THEN replaying[u] - 1 ELSE replaying[u]
    BY <1>2, <1>6 DEF ReplayCommit
  <2>4. Moves(Chances(e, ep), Chances(e, ep)')
    <3>1. CASE x = e
      <4>1. y \in rep /\ rep' \subseteq rep \ {y}
        <5>1. x \in {e} /\ replaying[x] > 0
          BY <1>6, <3>1 DEF ReplayCommit
        <5> QED BY <2>3, <5>1, CopyTaken
      <4>2. y \notin psh /\ y \notin que /\ y \notin prk /\ y \notin Slots(e, ep)
        BY CopyTags, SlotTags
      <4> HIDE DEF y, psh, rep, que, prk
      <4>3. Chances(e, ep)' \subseteq (Chances(e, ep) \ {y}) \cup {<<"api", x, unqueued[x] + 1>>}
        BY <1>0, <1>1, <2>0, <2>2, <4>1, <4>2
      <4> QED BY <1>0, <4>1, <4>3 DEF Moves
    <3>2. CASE x # e
      <4>1. rep' = rep
        BY <2>3, <3>2, CopiesKept
      <4> QED BY <1>0, <1>1, <2>0, <2>2, <3>2, <4>1 DEF Moves
    <3> QED BY <3>1, <3>2
  <2> QED BY <1>0, <2>0, <2>1, <2>4 DEF Same
<1>7. ASSUME Enqueue(x) \/ ApiFails(x)
      PROVE  /\ rep' = rep /\ replays' = replays /\ Unposted(e)' = Unposted(e)
             /\ x # e => psh' = psh
             /\ x = e => /\ <<"api", x, unqueued[x]>> \in psh
                         /\ psh' \subseteq psh \ {<<"api", x, unqueued[x]>>}
  <2>1. rep' = rep /\ replays' = replays /\ Unposted(e)' = Unposted(e)
    BY <1>7 DEF Enqueue, ApiFails, db, bounds, Unposted
  <2>2. unqueued[x] > 0 /\ \A u \in {e} : unqueued[u] \in Nat /\ unqueued'[u] = IF u = x THEN unqueued[u] - 1 ELSE unqueued[u]
    BY <1>2, <1>7 DEF Enqueue, ApiFails
  <2>3. x # e => psh' = psh
    BY <2>2, CopiesKept
  <2>4. ASSUME x = e
        PROVE  /\ <<"api", x, unqueued[x]>> \in psh
               /\ psh' \subseteq psh \ {<<"api", x, unqueued[x]>>}
    <3>1. x \in {e}
      BY <2>4
    <3> QED BY <2>2, <3>1, CopyTaken
  <2> QED BY <2>1, <2>3, <2>4
<1>8. CASE Enqueue(x)
  <2> DEFINE y == <<"api", x, unqueued[x]>>  d == Dispatcher(x)
  <2>0. d \in Task /\ (d \in For(e, ep) => x = e)
    BY DispatcherType DEF For
  <2>1. \A u \in For(e, ep) : queue[u] \in Nat /\ queue'[u] = IF u = d THEN queue[u] + 1 ELSE queue[u]
    BY <1>2, <1>8, <2>0 DEF Enqueue, For
  <2> HIDE DEF d
  <2>2. /\ d \notin For(e, ep) => que' = que
        /\ que' \subseteq que \cup {<<"queue", d, queue[d] + 1>>}
    <3>1. que' \subseteq que \cup {<<"queue", d, queue[d] + 1>>}
      BY <2>1, CopyAdded
    <3>2. ASSUME d \notin For(e, ep) PROVE que' = que
      BY <2>1, <3>2, CopiesKept
    <3> QED BY <3>1, <3>2
  <2>3. Moves(Chances(e, ep), Chances(e, ep)')
    <3>1. CASE x = e
      <4>1. y \in psh /\ psh' \subseteq psh \ {y} /\ rep' = rep
        BY <1>7, <1>8, <3>1
      <4>2. y \notin rep /\ y \notin que /\ y \notin prk /\ y \notin Slots(e, ep)
        BY CopyTags, SlotTags
      <4> HIDE DEF y, psh, rep, que, prk
      <4>3. Chances(e, ep)' \subseteq (Chances(e, ep) \ {y}) \cup {<<"queue", d, queue[d] + 1>>}
        BY <1>0, <1>1, <2>2, <4>1, <4>2
      <4> QED BY <1>0, <4>1, <4>3 DEF Moves
    <3>2. CASE x # e
      BY <1>0, <1>1, <1>7, <1>8, <2>0, <2>2, <3>2 DEF Moves
    <3> QED BY <3>1, <3>2
  <2> QED BY <1>0, <1>7, <1>8, <2>3, UnpostedType DEF Same
<1>9. CASE ApiFails(x)
  <2>1. que' = que
    BY <1>9 DEF ApiFails, broker
  <2>2. Moves(Chances(e, ep), Chances(e, ep)')
    BY <1>0, <1>1, <1>7, <1>9, <2>1 DEF Moves
  <2> QED BY <1>0, <1>7, <1>9, <2>2, UnpostedType DEF Same
<1> QED BY <1>4, <1>5, <1>6, <1>8, <1>9 DEF ApiStep

-----------------------------------------------------------------------------
\* What a step of a worker slot leaves alone.
SlotFrame(w) ==
  /\ api' = api /\ replays' = replays
  /\ \A v \in Worker \ {w} : /\ pc'[v] = pc[v] /\ task'[v] = task[v]
                             /\ todo'[v] = todo[v] /\ outcome'[v] = outcome[v]
  /\ \A e \in Event : status'[e] = "ABSENT" => status[e] = "ABSENT"

LEMMA SlotFrames ==
  ASSUME TypeOK, NEW w \in Worker, WorkerStep(w) \/ TaskDies(w) \/ WorkerCrash(w)
  PROVE  SlotFrame(w)
<1>1. ASSUME NEW t \in Task, Take(w, t) PROVE SlotFrame(w)
  BY <1>1 DEF Take, SlotFrame, TypeOK, db, bounds
<1>2. CASE DispatchToNobody(w)
  BY <1>2 DEF DispatchToNobody, SlotFrame, TypeOK, bounds
<1>3. CASE Dispatch(w)
  BY <1>3 DEF Dispatch, SlotFrame, TypeOK, db, bounds
<1>4. ASSUME NEW ep \in Endpoint, FanOut(w, ep) PROVE SlotFrame(w)
  BY <1>4 DEF FanOut, SlotFrame, TypeOK, db, bounds
<1>5. CASE Admit(w)
  BY <1>5 DEF Admit, SlotFrame, TypeOK, db, bounds
<1>6. CASE FailOpen(w)
  BY <1>6 DEF FailOpen, SlotFrame, TypeOK, db, bounds
<1>7. CASE Throttle(w)
  BY <1>7 DEF Throttle, SlotFrame, TypeOK, db, bounds
<1>8. CASE ThrottleOut(w)
  BY <1>8 DEF ThrottleOut, SlotFrame, TypeOK, db, bounds
<1>9. ASSUME NEW o \in Outcome, Post(w, o) PROVE SlotFrame(w)
  BY <1>9 DEF Post, SlotFrame, TypeOK, db, bounds
<1>10. CASE Record(w)
  <2>1. FinalStatus(w) # "ABSENT"
    BY DEF FinalStatus
  <2>2. \A e \in Event : status'[e] = "ABSENT" => status[e] = "ABSENT"
    BY <1>10, <2>1 DEF Record, TypeOK
  <2> QED BY <1>10, <2>2 DEF Record, SlotFrame, TypeOK, bounds
<1>11. CASE Retry(w)
  BY <1>11 DEF Retry, SlotFrame, TypeOK, db, bounds
<1>12. CASE Ack(w)
  BY <1>12 DEF Ack, Free, SlotFrame, TypeOK, db, bounds
<1>13. CASE TaskDies(w)
  BY <1>13 DEF TaskDies, Free, SlotFrame, TypeOK, db, bounds
<1>14. CASE WorkerCrash(w)
  BY <1>14 DEF WorkerCrash, Free, SlotFrame, TypeOK, db
<1> QED BY <1>1, <1>2, <1>3, <1>4, <1>5, <1>6, <1>7, <1>8, <1>9, <1>10, <1>11, <1>12, <1>13, <1>14
        DEF WorkerStep

\* Under that frame the chances are made of the broker's and of the slots'.
LEMMA SlotParts ==
  ASSUME NEW w \in Worker, SlotFrame(w), NEW e \in Event, NEW ep \in Endpoint
  PROVE  \E R :
    /\ \A x \in R : x[1] \in {"api", "replay"}
    /\ Chances(e, ep) = R \cup Copies("queue", For(e, ep), queue)
                          \cup Copies("parked", ParkedFor(e, ep), parked) \cup Slots(e, ep)
    /\ Chances(e, ep)' = R \cup Copies("queue", For(e, ep), queue')
                          \cup Copies("parked", ParkedFor(e, ep), parked') \cup Slots(e, ep)'
    /\ replays' = replays /\ Unposted(e)' <= Unposted(e)
<1> DEFINE R == Copies("api", {e}, unqueued) \cup Copies("replay", {e}, replaying)
<1>1. \A x \in R : x[1] \in {"api", "replay"}
  BY CopyTags
<1>2. R' = R
  BY DEF SlotFrame, api
<1>3. Unposted(e)' <= Unposted(e)
  BY DEF SlotFrame, Unposted
<1>4. replays' = replays
  BY DEF SlotFrame
<1>5. Chances(e, ep) = R \cup Copies("queue", For(e, ep), queue)
                          \cup Copies("parked", ParkedFor(e, ep), parked) \cup Slots(e, ep)
  BY DEF Chances
<1>6. Chances(e, ep)' = R \cup Copies("queue", For(e, ep), queue')
                          \cup Copies("parked", ParkedFor(e, ep), parked') \cup Slots(e, ep)'
  BY <1>2 DEF Chances
<1> HIDE DEF R
<1> QED BY <1>1, <1>3, <1>4, <1>5, <1>6

\* A step that gives its slot nothing to post.
LEMMA SlotsShrink ==
  ASSUME NEW w \in Worker, SlotFrame(w), NEW e \in Event, NEW ep \in Endpoint,
         MayPost(w, e, ep)' => MayPost(w, e, ep)
  PROVE  Slots(e, ep)' \subseteq Slots(e, ep)
<1>1. /\ MayPost(w, e, ep)' => Slots(e, ep)' \subseteq Slots(e, ep) \cup {Slot(w)}
      /\ ~(MayPost(w, e, ep)') => Slots(e, ep)' \subseteq Slots(e, ep) \ {Slot(w)}
  BY SlotsStep DEF SlotFrame
<1>2. MayPost(w, e, ep) <=> Slot(w) \in Slots(e, ep)
  BY SlotIn
<1> QED BY <1>1, <1>2

\* Such a step that leaves the broker alone.
LEMMA QuietSlot ==
  ASSUME NEW w \in Worker, SlotFrame(w), NEW e \in Event, NEW ep \in Endpoint,
         UNCHANGED broker, MayPost(w, e, ep)' => MayPost(w, e, ep)
  PROVE  Chances(e, ep)' \subseteq Chances(e, ep)
<1>1. Slots(e, ep)' \subseteq Slots(e, ep)
  BY SlotsShrink
<1>2. PICK R :
    /\ Chances(e, ep) = R \cup Copies("queue", For(e, ep), queue)
                          \cup Copies("parked", ParkedFor(e, ep), parked) \cup Slots(e, ep)
    /\ Chances(e, ep)' = R \cup Copies("queue", For(e, ep), queue')
                          \cup Copies("parked", ParkedFor(e, ep), parked') \cup Slots(e, ep)'
  BY SlotParts
<1>3. queue' = queue /\ parked' = parked
  BY DEF broker
<1> QED BY <1>1, <1>2, <1>3

\* A slot pushes a message: if it may still be posted, the slot could post.
LEMMA PushingSlot ==
  ASSUME TypeOK, NEW w \in Worker, SlotFrame(w), NEW e \in Event, NEW ep \in Endpoint,
         NEW d \in Task, queue' = [queue EXCEPT ![d] = @ + 1], parked' = parked,
         MayPost(w, e, ep)' => MayPost(w, e, ep),
         d \in For(e, ep) => MayPost(w, e, ep) /\ ~(MayPost(w, e, ep)')
  PROVE  Moves(Chances(e, ep), Chances(e, ep)')
<1> DEFINE que == Copies("queue", For(e, ep), queue)
           new == Copies("queue", For(e, ep), queue')
           prk == Copies("parked", ParkedFor(e, ep), parked)
           now == Slots(e, ep)
           after == Slots(e, ep)'
           C == Chances(e, ep)
           D == Chances(e, ep)'
           m == <<"queue", d, queue[d] + 1>>
<1>1. PICK R :
    /\ \A x \in R : x[1] \in {"api", "replay"}
    /\ C = R \cup que \cup prk \cup now
    /\ D = R \cup new \cup prk \cup after
  BY SlotParts
<1>2. \A u \in For(e, ep) : queue[u] \in Nat /\ queue'[u] = IF u = d THEN queue[u] + 1 ELSE queue[u]
  BY DEF TypeOK, For
<1>3. new \subseteq que \cup {m}
  BY <1>2, CopyAdded
<1>4. ASSUME d \notin For(e, ep) PROVE new = que
  <2>1. \A u \in For(e, ep) : queue'[u] = queue[u]
    BY <1>2, <1>4
  <2> QED BY <2>1, CopiesKept
<1>5. after \subseteq now
  BY SlotsShrink
<1>6. CASE d \in For(e, ep)
  <2>1. Slot(w) \in now
    BY <1>6, SlotIn
  <2>2. after \subseteq now \ {Slot(w)}
    BY <1>6, SlotsStep DEF SlotFrame
  <2>3. Slot(w) \notin R /\ Slot(w) \notin que /\ Slot(w) \notin prk
    BY <1>1, CopyTags DEF Slot
  <2> HIDE DEF que, new, prk, now, after, m, C, D
  <2>4. Slot(w) \in C /\ D \subseteq (C \ {Slot(w)}) \cup {m}
    BY <1>1, <1>3, <2>1, <2>2, <2>3
  <2>5. Moves(C, D)
    BY <2>4 DEF Moves
  <2> QED BY <2>5 DEF C, D
<1>7. CASE d \notin For(e, ep)
  <2> HIDE DEF que, new, prk, now, after, C, D
  <2>1. D \subseteq C
    BY <1>1, <1>4, <1>5, <1>7
  <2>2. Moves(C, D)
    BY <2>1 DEF Moves
  <2> QED BY <2>2 DEF C, D
<1> QED BY <1>6, <1>7

\* A slot takes a message: what the message may still post is now the slot's.
LEMMA TakingSlot ==
  ASSUME TypeOK, NEW w \in Worker, NEW t \in Task, Take(w, t), SlotFrame(w),
         NEW e \in Event, NEW ep \in Endpoint
  PROVE  Moves(Chances(e, ep), Chances(e, ep)')
<1> DEFINE que == Copies("queue", For(e, ep), queue)
           new == Copies("queue", For(e, ep), queue')
           prk == Copies("parked", ParkedFor(e, ep), parked)
           now == Slots(e, ep)
           after == Slots(e, ep)'
           C == Chances(e, ep)
           D == Chances(e, ep)'
           m == <<"queue", t, queue[t]>>
<1>0. parked' = parked
  BY DEF Take
<1>1. PICK R :
    /\ \A x \in R : x[1] \in {"api", "replay"}
    /\ C = R \cup que \cup prk \cup now
    /\ D = R \cup new \cup prk \cup after
  BY <1>0, SlotParts
<1>2. \A u \in For(e, ep) : queue[u] \in Nat /\ queue'[u] = IF u = t THEN queue[u] - 1 ELSE queue[u]
  BY DEF TypeOK, For, Take
<1>3. MayPost(w, e, ep)' => t \in For(e, ep)
  <2>1. task'[w] = t /\ pc'[w] = IF t.kind = "dispatch" THEN "dispatch" ELSE "gate"
    BY DEF Take, TypeOK
  <2> QED BY <2>1, TaskFields DEF MayPost, Serves, For
<1>4. CASE t \in For(e, ep)
  <2>1. m \in que /\ new \subseteq que \ {m}
    <3>1. queue[t] > 0
      BY DEF Take
    <3> QED BY <1>2, <1>4, <3>1, CopyTaken
  <2>2. after \subseteq now \cup {Slot(w)}
    BY SlotsStep DEF SlotFrame
  <2>3. m \notin R /\ m \notin prk /\ m \notin now
    BY <1>1, CopyTags, SlotTags
  <2> HIDE DEF que, new, prk, now, after, m, C, D
  <2>4. m \in C /\ D \subseteq (C \ {m}) \cup {Slot(w)}
    BY <1>1, <2>1, <2>2, <2>3
  <2>5. Moves(C, D)
    BY <2>4 DEF Moves
  <2> QED BY <2>5 DEF C, D
<1>5. CASE t \notin For(e, ep)
  <2>1. new = que
    <3>1. \A u \in For(e, ep) : queue'[u] = queue[u]
      BY <1>2, <1>5
    <3> QED BY <3>1, CopiesKept
  <2>2. after \subseteq now
    BY <1>3, <1>5, SlotsShrink
  <2> HIDE DEF que, new, prk, now, after, C, D
  <2>3. D \subseteq C
    BY <1>1, <2>1, <2>2
  <2>4. Moves(C, D)
    BY <2>3 DEF Moves
  <2> QED BY <2>4 DEF C, D
<1> QED BY <1>4, <1>5

\* The limiter defers a message: the slot's chance waits with it.
LEMMA ThrottlingSlot ==
  ASSUME TypeOK, NEW w \in Worker, Throttle(w), SlotFrame(w), NEW e \in Event, NEW ep \in Endpoint
  PROVE  Moves(Chances(e, ep), Chances(e, ep)')
<1> DEFINE d == NextTry(task[w])
           que == Copies("queue", For(e, ep), queue)
           prk == Copies("parked", ParkedFor(e, ep), parked)
           new == Copies("parked", ParkedFor(e, ep), parked')
           now == Slots(e, ep)
           after == Slots(e, ep)'
           C == Chances(e, ep)
           D == Chances(e, ep)'
           m == <<"parked", d, parked[d] + 1>>
<1>0. queue' = queue
  BY DEF Throttle
<1>1. PICK R :
    /\ \A x \in R : x[1] \in {"api", "replay"}
    /\ C = R \cup que \cup prk \cup now
    /\ D = R \cup que \cup new \cup after
  BY <1>0, SlotParts
<1>2. task[w] \in DeliverTask /\ task[w].retries < MaxRetries /\ pc[w] = "gate"
  BY DEF Throttle, TypeOK
<1>3. d \in DeliverTask /\ d.ev = task[w].ev /\ d.ep = task[w].ep
  BY <1>2, NextTryType
<1>4. \A u \in ParkedFor(e, ep) : parked[u] \in Nat /\ parked'[u] = IF u = d THEN parked[u] + 1 ELSE parked[u]
  BY <1>3 DEF TypeOK, ParkedFor, Throttle
<1>5. d \in ParkedFor(e, ep) => MayPost(w, e, ep)
  BY <1>2, <1>3 DEF ParkedFor, MayPost, Serves, Working
<1>6. ~(MayPost(w, e, ep)')
  BY DEF Throttle, MayPost, Serves, Working, TypeOK
<1> HIDE DEF d
<1>7. new \subseteq prk \cup {m}
  BY <1>4, CopyAdded
<1>8. after \subseteq now \ {Slot(w)}
  BY <1>6, SlotsStep DEF SlotFrame
<1>9. CASE d \in ParkedFor(e, ep)
  <2>1. Slot(w) \in now
    BY <1>5, <1>9, SlotIn
  <2>2. Slot(w) \notin R /\ Slot(w) \notin que
    BY <1>1, CopyTags DEF Slot
  <2>3. Slot(w) \notin prk
    BY CopyTags DEF Slot
  <2> HIDE DEF que, new, prk, now, after, m, C, D
  <2>4. Slot(w) \in C /\ D \subseteq (C \ {Slot(w)}) \cup {m}
    BY <1>1, <1>7, <1>8, <2>1, <2>2, <2>3
  <2>5. Moves(C, D)
    BY <2>4 DEF Moves
  <2> QED BY <2>5 DEF C, D
<1>10. CASE d \notin ParkedFor(e, ep)
  <2>1. new = prk
    <3>1. \A u \in ParkedFor(e, ep) : parked'[u] = parked[u]
      BY <1>4, <1>10
    <3> QED BY <3>1, CopiesKept
  <2> HIDE DEF que, new, prk, now, after, C, D
  <2>2. D \subseteq C
    BY <1>1, <1>8, <2>1
  <2>3. Moves(C, D)
    BY <2>2 DEF Moves
  <2> QED BY <2>3 DEF C, D
<1> QED BY <1>9, <1>10

\* Its countdown elapses: the chance is in the queue again.
LEMMA CountdownChances ==
  ASSUME TypeOK, NEW t \in DeliverTask, CountdownElapses(t), NEW e \in Event, NEW ep \in Endpoint
  PROVE  Moves(Chances(e, ep), Chances(e, ep)')
<1> DEFINE R == Copies("api", {e}, unqueued) \cup Copies("replay", {e}, replaying)
           que == Copies("queue", For(e, ep), queue)
           newq == Copies("queue", For(e, ep), queue')
           prk == Copies("parked", ParkedFor(e, ep), parked)
           newp == Copies("parked", ParkedFor(e, ep), parked')
           now == Slots(e, ep)
           C == Chances(e, ep)
           D == Chances(e, ep)'
           m == <<"parked", t, parked[t]>>
           n == <<"queue", t, queue[t] + 1>>
<1>1. C = R \cup que \cup prk \cup now
  BY DEF Chances
<1>2. D = R \cup newq \cup newp \cup now
  BY DEF Chances, CountdownElapses, api, workers, Slots, MayPost, Serves
<1>3. t \in Task /\ t.kind = "deliver"
  BY TaskFields
<1>4. \A u \in For(e, ep) : queue[u] \in Nat /\ queue'[u] = IF u = t THEN queue[u] + 1 ELSE queue[u]
  BY <1>3 DEF TypeOK, For, CountdownElapses
<1>5. \A u \in ParkedFor(e, ep) : parked[u] \in Nat /\ parked'[u] = IF u = t THEN parked[u] - 1 ELSE parked[u]
  BY DEF TypeOK, ParkedFor, CountdownElapses
<1>6. t \in For(e, ep) <=> t \in ParkedFor(e, ep)
  BY <1>3 DEF For, ParkedFor
<1>7. CASE t \in ParkedFor(e, ep)
  <2>1. m \in prk /\ newp \subseteq prk \ {m}
    <3>1. parked[t] > 0
      BY DEF CountdownElapses
    <3> QED BY <1>5, <1>7, <3>1, CopyTaken
  <2>2. newq \subseteq que \cup {n}
    BY <1>4, CopyAdded
  <2>3. m \notin R /\ m \notin que /\ m \notin now
    BY CopyTags, SlotTags
  <2> HIDE DEF R, que, newq, prk, newp, now, m, n, C, D
  <2>4. m \in C /\ D \subseteq (C \ {m}) \cup {n}
    BY <1>1, <1>2, <2>1, <2>2, <2>3
  <2>5. Moves(C, D)
    BY <2>4 DEF Moves
  <2> QED BY <2>5 DEF C, D
<1>8. CASE t \notin ParkedFor(e, ep)
  <2>1. newp = prk
    <3>1. \A u \in ParkedFor(e, ep) : parked'[u] = parked[u]
      BY <1>5, <1>8
    <3> QED BY <3>1, CopiesKept
  <2>2. newq = que
    <3>1. \A u \in For(e, ep) : queue'[u] = queue[u]
      BY <1>4, <1>6, <1>8
    <3> QED BY <3>1, CopiesKept
  <2> HIDE DEF R, que, newq, prk, newp, now, C, D
  <2>3. D \subseteq C
    BY <1>1, <1>2, <2>1, <2>2
  <2>4. Moves(C, D)
    BY <2>3 DEF Moves
  <2> QED BY <2>4 DEF C, D
<1> QED BY <1>7, <1>8

\* A worker crashes: the message comes back, whatever its slot had done.
LEMMA CrashingSlot ==
  ASSUME TypeOK, NEW w \in Worker, WorkerCrash(w), SlotFrame(w), NEW e \in Event, NEW ep \in Endpoint
  PROVE  Grows(Chances(e, ep), Chances(e, ep)')
<1> DEFINE d == task[w]
           que == Copies("queue", For(e, ep), queue)
           new == Copies("queue", For(e, ep), queue')
           prk == Copies("parked", ParkedFor(e, ep), parked)
           now == Slots(e, ep)
           after == Slots(e, ep)'
           C == Chances(e, ep)
           D == Chances(e, ep)'
           m == <<"queue", d, queue[d] + 1>>
<1>0. parked' = parked
  BY DEF WorkerCrash
<1>1. PICK R :
    /\ C = R \cup que \cup prk \cup now
    /\ D = R \cup new \cup prk \cup after
  BY <1>0, SlotParts
<1>2. \A u \in For(e, ep) : queue[u] \in Nat /\ queue'[u] = IF u = d THEN queue[u] + 1 ELSE queue[u]
  BY DEF TypeOK, For, WorkerCrash
<1>3. ~(MayPost(w, e, ep)')
  BY DEF WorkerCrash, Free, MayPost, Serves, Working, TypeOK
<1>4. after \subseteq now
  BY <1>3, SlotsShrink
<1> HIDE DEF d
<1>5. new \subseteq que \cup {m}
  BY <1>2, CopyAdded
<1> HIDE DEF que, new, prk, now, after, m, C, D
<1>6. D \subseteq C \cup {m}
  BY <1>1, <1>4, <1>5
<1>7. Grows(C, D)
  BY <1>6 DEF Grows
<1> QED BY <1>7 DEF C, D

-----------------------------------------------------------------------------
\* One chance is used up.
Spends(C, D) == \E x \in C : D \subseteq C \ {x}

\* What a step may do to the chances of an event at an endpoint, and to the
\* numbers they are compared with.
Turns(e, ep) ==
  \/ Moves(Chances(e, ep), Chances(e, ep)') /\ Same(e, ep)
  \/ /\ Spends(Chances(e, ep), Chances(e, ep)')
     /\ acked'[e][ep] = acked[e][ep] + 1 /\ Unposted(e)' <= Unposted(e)
     /\ replays'[e] = replays[e] /\ crashes' = crashes
  \/ /\ Grows(Chances(e, ep), Chances(e, ep)')
     /\ acked'[e][ep] = acked[e][ep]
     /\ \/ /\ Unposted(e) = 1 /\ Unposted(e)' = 0
           /\ replays'[e] = replays[e] /\ crashes' = crashes
        \/ /\ Unposted(e)' <= Unposted(e)
           /\ replays'[e] = replays[e] + 1 /\ crashes' = crashes
        \/ /\ Unposted(e)' <= Unposted(e)
           /\ replays'[e] = replays[e] /\ crashes' = crashes + 1

\* A step of a slot other than a crash makes no chance, and an answer costs one.
LEMMA SlotTurns ==
  ASSUME TypeOK, NEW w \in Worker, WorkerStep(w) \/ TaskDies(w) \/ WorkerCrash(w),
         NEW e \in Event, NEW ep \in Endpoint
  PROVE  Turns(e, ep)
<1>1. SlotFrame(w)
  BY SlotFrames
<1>2. replays' = replays /\ Unposted(e)' <= Unposted(e)
  BY <1>1, SlotParts
<1>3. ASSUME acked' = acked, crashes' = crashes, UNCHANGED broker,
             MayPost(w, e, ep)' => MayPost(w, e, ep)
      PROVE  Turns(e, ep)
  <2>1. Chances(e, ep)' \subseteq Chances(e, ep)
    BY <1>1, <1>3, QuietSlot
  <2> QED BY <1>2, <1>3, <2>1 DEF Turns, Moves, Same
<1>4. ASSUME acked' = acked, crashes' = crashes, Moves(Chances(e, ep), Chances(e, ep)')
      PROVE  Turns(e, ep)
  BY <1>2, <1>4 DEF Turns, Same
<1>5. ASSUME NEW t \in Task, Take(w, t) PROVE Turns(e, ep)
  <2>1. acked' = acked /\ crashes' = crashes
    BY <1>5 DEF Take, history, bounds
  <2>2. Moves(Chances(e, ep), Chances(e, ep)')
    BY <1>1, <1>5, TakingSlot
  <2> QED BY <1>4, <2>1, <2>2
<1>6. CASE DispatchToNobody(w)
  <2>1. acked' = acked /\ crashes' = crashes /\ UNCHANGED broker
    BY <1>6 DEF DispatchToNobody, history, bounds
  <2>2. ~(MayPost(w, e, ep)')
    BY <1>6 DEF DispatchToNobody, MayPost, Serves, Working, TypeOK
  <2> QED BY <1>3, <2>1, <2>2
<1>7. CASE Dispatch(w)
  <2>1. acked' = acked /\ crashes' = crashes /\ UNCHANGED broker
    BY <1>7 DEF Dispatch, bounds
  <2>2. MayPost(w, e, ep)' => MayPost(w, e, ep)
    BY <1>7 DEF Dispatch, MayPost, Serves, Working, TypeOK
  <2> QED BY <1>3, <2>1, <2>2
<1>8. ASSUME NEW ep2 \in Endpoint, FanOut(w, ep2) PROVE Turns(e, ep)
  <2> DEFINE d == Delivery(task[w].ev, ep2)
  <2>1. acked' = acked /\ crashes' = crashes /\ parked' = parked
    BY <1>8 DEF FanOut, history, bounds
  <2>2. queue' = [queue EXCEPT ![d] = @ + 1]
    BY <1>8 DEF FanOut
  <2>3. task[w] \in DispatchTask /\ pc[w] = "fanout" /\ ep2 \in todo[w] /\ task' = task
    BY <1>8 DEF FanOut, TypeOK
  <2>4. todo'[w] = todo[w] \ {ep2} /\ pc'[w] = IF todo[w] = {ep2} THEN "ack" ELSE "fanout"
    BY <1>8 DEF FanOut, TypeOK
  <2>5. d \in Task /\ d.kind = "deliver" /\ d.ev = task[w].ev /\ d.ep = ep2
    BY <2>3, TaskFields, DeliveryType
  <2>6. MayPost(w, e, ep)' => MayPost(w, e, ep)
    BY <2>3, <2>4 DEF MayPost, Serves, Working
  <2> HIDE DEF d
  <2>7. d \in For(e, ep) => MayPost(w, e, ep) /\ ~(MayPost(w, e, ep)')
    BY <2>3, <2>4, <2>5 DEF For, MayPost, Serves, Working
  <2>8. Moves(Chances(e, ep), Chances(e, ep)')
    BY <1>1, <2>1, <2>2, <2>5, <2>6, <2>7, PushingSlot
  <2> QED BY <1>4, <2>1, <2>8
<1>9. CASE Admit(w) \/ FailOpen(w)
  <2>1. acked' = acked /\ crashes' = crashes /\ UNCHANGED broker
    BY <1>9 DEF Admit, FailOpen, history, bounds
  <2>2. MayPost(w, e, ep)' => MayPost(w, e, ep)
    BY <1>9 DEF Admit, FailOpen, MayPost, Serves, Working, TypeOK
  <2> QED BY <1>3, <2>1, <2>2
<1>10. CASE Throttle(w)
  <2>1. acked' = acked /\ crashes' = crashes
    BY <1>10 DEF Throttle, bounds
  <2>2. Moves(Chances(e, ep), Chances(e, ep)')
    BY <1>1, <1>10, ThrottlingSlot
  <2> QED BY <1>4, <2>1, <2>2
<1>11. CASE ThrottleOut(w)
  <2>1. acked' = acked /\ crashes' = crashes /\ UNCHANGED broker
    BY <1>11 DEF ThrottleOut, bounds
  <2>2. ~(MayPost(w, e, ep)')
    BY <1>11 DEF ThrottleOut, MayPost, Serves, Working, TypeOK
  <2> QED BY <1>3, <2>1, <2>2
<1>12. ASSUME NEW o \in Outcome, Post(w, o) PROVE Turns(e, ep)
  <2>1. crashes' = crashes /\ UNCHANGED broker
    BY <1>12 DEF Post, bounds
  <2>2. pc[w] = "post" /\ pc'[w] = "write" /\ outcome'[w] = o /\ task' = task /\ todo' = todo
    BY <1>12 DEF Post, TypeOK
  <2>3. MayPost(w, e, ep)' => MayPost(w, e, ep)
    BY <2>2 DEF MayPost, Serves, Working
  <2>4. CASE o = "success" /\ task[w].ev = e /\ task[w].ep = ep
    <3>1. acked'[e][ep] = acked[e][ep] + 1
      BY <1>12, <2>4 DEF Post, TypeOK
    <3>2. Slot(w) \in Slots(e, ep)
      BY <2>2, <2>4, SlotIn DEF MayPost, Serves, Working
    <3>3. ~(MayPost(w, e, ep)')
      BY <2>2, <2>4 DEF MayPost, Serves
    <3>4. Slots(e, ep)' \subseteq Slots(e, ep) \ {Slot(w)}
      BY <1>1, <3>3, SlotsStep DEF SlotFrame
    <3>5. PICK R :
        /\ \A x \in R : x[1] \in {"api", "replay"}
        /\ Chances(e, ep) = R \cup Copies("queue", For(e, ep), queue)
                              \cup Copies("parked", ParkedFor(e, ep), parked) \cup Slots(e, ep)
        /\ Chances(e, ep)' = R \cup Copies("queue", For(e, ep), queue')
                              \cup Copies("parked", ParkedFor(e, ep), parked') \cup Slots(e, ep)'
      BY <1>1, SlotParts
    <3>6. queue' = queue /\ parked' = parked
      BY <2>1 DEF broker
    <3>7. /\ Slot(w) \notin R /\ Slot(w) \notin Copies("queue", For(e, ep), queue)
          /\ Slot(w) \notin Copies("parked", ParkedFor(e, ep), parked)
      BY <3>5, CopyTags DEF Slot
    <3>8. Slot(w) \in Chances(e, ep) /\ Chances(e, ep)' \subseteq Chances(e, ep) \ {Slot(w)}
      BY <3>2, <3>4, <3>5, <3>6, <3>7
    <3> QED BY <1>2, <2>1, <3>1, <3>8 DEF Turns, Spends
  <2>5. CASE ~(o = "success" /\ task[w].ev = e /\ task[w].ep = ep)
    <3>1. acked'[e][ep] = acked[e][ep]
      BY <1>12, <2>5 DEF Post, TypeOK
    <3>2. Chances(e, ep)' \subseteq Chances(e, ep)
      BY <1>1, <2>1, <2>3, QuietSlot
    <3> QED BY <1>2, <2>1, <3>1, <3>2 DEF Turns, Moves, Same
  <2> QED BY <2>4, <2>5
<1>13. CASE Record(w)
  <2>1. acked' = acked /\ crashes' = crashes /\ UNCHANGED broker
    BY <1>13 DEF Record, history, bounds
  <2>2. MayPost(w, e, ep)' => MayPost(w, e, ep)
    BY <1>13 DEF Record, MayPost, Serves, Working, TypeOK, RetriesExhausted
  <2> QED BY <1>3, <2>1, <2>2
<1>14. CASE Retry(w)
  <2> DEFINE d == NextTry(task[w])
  <2>1. acked' = acked /\ crashes' = crashes /\ parked' = parked
    BY <1>14 DEF Retry, history, bounds
  <2>2. queue' = [queue EXCEPT ![d] = @ + 1]
    BY <1>14 DEF Retry
  <2>3. task[w] \in DeliverTask /\ pc[w] = "retry" /\ task[w].retries < MaxRetries
    BY <1>14 DEF Retry, TypeOK
  <2>4. d \in DeliverTask /\ d \in Task /\ d.kind = "deliver" /\ d.ev = task[w].ev /\ d.ep = task[w].ep
    BY <2>3, NextTryType, TaskFields
  <2>5. ~(MayPost(w, e, ep)')
    BY <1>14 DEF Retry, MayPost, Serves, Working, TypeOK
  <2> HIDE DEF d
  <2>6. d \in For(e, ep) => MayPost(w, e, ep)
    BY <2>3, <2>4 DEF For, MayPost, Serves, Working
  <2>7. Moves(Chances(e, ep), Chances(e, ep)')
    BY <1>1, <2>1, <2>2, <2>4, <2>5, <2>6, PushingSlot
  <2> QED BY <1>4, <2>1, <2>7
<1>15. CASE Ack(w)
  <2>1. acked' = acked /\ crashes' = crashes /\ UNCHANGED broker
    BY <1>15 DEF Ack, history, bounds
  <2>2. ~(MayPost(w, e, ep)')
    BY <1>15 DEF Ack, Free, MayPost, Serves, Working, TypeOK
  <2> QED BY <1>3, <2>1, <2>2
<1>16. CASE TaskDies(w)
  <2>1. acked' = acked /\ crashes' = crashes /\ UNCHANGED broker
    BY <1>16 DEF TaskDies, bounds
  <2>2. ~(MayPost(w, e, ep)')
    BY <1>16 DEF TaskDies, Free, MayPost, Serves, Working, TypeOK
  <2> QED BY <1>3, <2>1, <2>2
<1>17. CASE WorkerCrash(w)
  <2>1. acked' = acked /\ crashes' = crashes + 1
    BY <1>17 DEF WorkerCrash, history
  <2>2. Grows(Chances(e, ep), Chances(e, ep)')
    BY <1>1, <1>17, CrashingSlot
  <2> QED BY <1>2, <2>1, <2>2 DEF Turns
<1> QED BY <1>5, <1>6, <1>7, <1>8, <1>9, <1>10, <1>11, <1>12, <1>13, <1>14, <1>15, <1>16, <1>17
        DEF WorkerStep

\* So does every step.
LEMMA StepTurns ==
  ASSUME TypeOK, [Next]_vars, NEW e \in Event, NEW ep \in Endpoint
  PROVE  Turns(e, ep)
<1>1. ASSUME NEW x \in Event, ApiStep(x) PROVE Turns(e, ep)
  BY <1>1, ApiChances, UnpostedType DEF Turns
<1>2. ASSUME UNCHANGED <<status, broker, api, workers, acked, replays, crashes>> PROVE Turns(e, ep)
  <2>1. Chances(e, ep)' = Chances(e, ep) /\ Unposted(e)' = Unposted(e)
    BY <1>2 DEF Chances, Slots, MayPost, Serves, Unposted, broker, api, workers
  <2> QED BY <1>2, <2>1, UnpostedType DEF Turns, Moves, Same
<1>3. ASSUME NEW ep2 \in Endpoint, AdminStep(ep2) \/ WindowExpires(ep2) PROVE Turns(e, ep)
  BY <1>2, <1>3 DEF AdminStep, Register, Deactivate, WindowExpires, db, history, bounds
<1>4. ASSUME NEW t \in DeliverTask, CountdownElapses(t) PROVE Turns(e, ep)
  <2>1. Unposted(e)' = Unposted(e) /\ UNCHANGED <<acked, replays, crashes>>
    BY <1>4 DEF CountdownElapses, Unposted, db, history, bounds
  <2>2. Moves(Chances(e, ep), Chances(e, ep)')
    BY <1>4, CountdownChances
  <2> QED BY <2>1, <2>2, UnpostedType DEF Turns, Same
<1>5. ASSUME NEW w \in Worker, WorkerStep(w) \/ TaskDies(w) \/ WorkerCrash(w) PROVE Turns(e, ep)
  BY <1>5, SlotTurns
<1>6. CASE UNCHANGED vars
  BY <1>2, <1>6 DEF vars, db, history, bounds
<1> QED BY <1>1, <1>3, <1>4, <1>5, <1>6 DEF Next

LEMMA ChancesInit == Init => ChancesInv
<1> SUFFICES ASSUME Init, NEW e \in Event, NEW ep \in Endpoint
             PROVE  /\ IsFiniteSet(Chances(e, ep))
                    /\ acked[e][ep] + Cardinality(Chances(e, ep)) + Unposted(e)
                         <= 1 + replays[e] + crashes
  BY DEF ChancesInv
<1>1. /\ Copies("api", {e}, unqueued) = {} /\ Copies("replay", {e}, replaying) = {}
      /\ Copies("queue", For(e, ep), queue) = {}
      /\ Copies("parked", ParkedFor(e, ep), parked) = {}
  BY DEF Init, Copies, For, ParkedFor
<1>2. Slots(e, ep) = {}
  BY DEF Init, Slots, MayPost, Serves, Working
<1>3. Chances(e, ep) = {}
  BY <1>1, <1>2 DEF Chances
<1>4. IsFiniteSet(Chances(e, ep)) /\ Cardinality(Chances(e, ep)) = 0
  BY <1>3, FS_EmptySet
<1>5. acked[e][ep] = 0 /\ replays[e] = 0 /\ crashes = 0 /\ Unposted(e) = 1
  BY DEF Init, Unposted
<1> QED BY <1>4, <1>5

LEMMA ChancesNext == TypeOK /\ ChancesInv /\ [Next]_vars => ChancesInv'
<1> SUFFICES ASSUME TypeOK, ChancesInv, [Next]_vars, NEW e \in Event, NEW ep \in Endpoint
             PROVE  /\ IsFiniteSet(Chances(e, ep)')
                    /\ acked'[e][ep] + Cardinality(Chances(e, ep)') + Unposted(e)'
                         <= 1 + replays'[e] + crashes'
  BY DEF ChancesInv
<1> DEFINE C == Chances(e, ep)  D == Chances(e, ep)'
<1>1. IsFiniteSet(C) /\ acked[e][ep] + Cardinality(C) + Unposted(e) <= 1 + replays[e] + crashes
  BY DEF ChancesInv
<1>2. Turns(e, ep)
  BY StepTurns
<1>3. Unposted(e) \in Nat /\ Unposted(e)' \in Nat
  BY UnpostedType
<1>4. acked[e][ep] \in Nat /\ replays[e] \in Nat /\ crashes \in Nat
  BY BoundsAssumption DEF TypeOK
<1>5. Moves(C, D) => IsFiniteSet(D) /\ Cardinality(D) <= Cardinality(C)
  <2>1. ASSUME D \subseteq C PROVE IsFiniteSet(D) /\ Cardinality(D) <= Cardinality(C)
    BY <1>1, <2>1, FS_Subset
  <2>2. ASSUME NEW x \in C, NEW y, D \subseteq (C \ {x}) \cup {y}
        PROVE  IsFiniteSet(D) /\ Cardinality(D) <= Cardinality(C)
    BY <1>1, <2>2, Swapped
  <2> QED BY <2>1, <2>2 DEF Moves
<1>6. Spends(C, D) => IsFiniteSet(D) /\ Cardinality(D) + 1 <= Cardinality(C)
  BY <1>1, Spare DEF Spends
<1>7. Grows(C, D) => IsFiniteSet(D) /\ Cardinality(D) <= Cardinality(C) + 1
  BY <1>1, Gained DEF Grows
<1>8. IsFiniteSet(D)
  BY <1>2, <1>5, <1>6, <1>7 DEF Turns
<1>9. Cardinality(C) \in Nat /\ Cardinality(D) \in Nat
  BY <1>1, <1>8, FS_CardinalityType
<1>10. acked'[e][ep] + Cardinality(D) + Unposted(e)' <= 1 + replays'[e] + crashes'
  BY <1>1, <1>2, <1>3, <1>4, <1>5, <1>6, <1>7, <1>9 DEF Turns, Same
<1> QED BY <1>8, <1>10

\* DuplicatesAreCaused, for any number of events, endpoints, workers, retries,
\* replays and crashes: repeated successes come from replays and crashes only.
THEOREM Duplicates == Spec => []DuplicatesAreCaused
<1>1. TypeOK /\ ChancesInv => DuplicatesAreCaused
  <2> SUFFICES ASSUME TypeOK, ChancesInv, NEW e \in Event, NEW ep \in Endpoint
               PROVE  acked[e][ep] <= 1 + replays[e] + crashes
    BY DEF DuplicatesAreCaused
  <2>1. /\ IsFiniteSet(Chances(e, ep))
        /\ acked[e][ep] + Cardinality(Chances(e, ep)) + Unposted(e) <= 1 + replays[e] + crashes
    BY DEF ChancesInv
  <2>2. Cardinality(Chances(e, ep)) \in Nat /\ Unposted(e) \in Nat
    BY <2>1, FS_CardinalityType, UnpostedType
  <2>3. acked[e][ep] \in Nat /\ replays[e] \in Nat /\ crashes \in Nat
    BY BoundsAssumption DEF TypeOK
  <2> QED BY <2>1, <2>2, <2>3
<1>2. Spec => []TypeOK
  BY TypeCorrect
<1> QED BY <1>1, <1>2, ChancesInit, ChancesNext, PTL DEF Spec

(***************************************************************************)
(* One chain of attempts. As long as an event is not replayed and no worker *)
(* crashed, its only chance at an endpoint is that of its ingestion: the    *)
(* rows of the endpoint number the attempts of one chain of retries, each   *)
(* number once, and whoever holds the chance has the next number to record. *)
(***************************************************************************)

Undisturbed(e) == replays[e] = 0 /\ crashes = 0

\* Answers that were received but not recorded yet were counted.
AnsweredInv ==
  \A e \in Event, ep \in Endpoint, w \in Worker :
    Serves(w, e, ep) /\ ~MayPost(w, e, ep) =>
      /\ acked[e][ep] >= 1
      /\ \A v \in Worker \ {w} :
           Serves(v, e, ep) /\ ~MayPost(v, e, ep) => acked[e][ep] >= 2

ReplayedInv == \A e \in Event : replaying[e] > 0 => replays[e] > 0

\* No row of the event at the endpoint has a number above n.
UpTo(e, ep, n) ==
  \A a \in Attempt : a.ev = e /\ a.ep = ep /\ attempts[a] > 0 => a.number <= n

\* The event has not been dispatched since its commit.
Fresh(e) == status[e] = "ABSENT" \/ unqueued[e] > 0 \/ queue[Dispatcher(e)] > 0

\* The number of attempts that were made before what the slot does now.
Before(w) ==
  CASE pc[w] \in {"gate", "post", "write"} -> task[w].retries
    [] pc[w] = "retry"                     -> task[w].retries + 1
    [] OTHER                               -> 0

RowsOf(e, ep) ==
  /\ Fresh(e) => UpTo(e, ep, 0)
  /\ \A t \in ParkedFor(e, ep) : Waiting(t) => UpTo(e, ep, t.retries)
  /\ \A w \in Worker : Serves(w, e, ep) => UpTo(e, ep, Before(w))
  /\ \A a, b \in Attempt :
       /\ a.ev = e /\ a.ep = ep /\ attempts[a] > 0
       /\ b.ev = e /\ b.ep = ep /\ attempts[b] > 0
       /\ a.number = b.number
       => a = b
  /\ \A a \in Attempt : a.ev = e /\ a.ep = ep => attempts[a] <= 1

RowsInv == \A e \in Event, ep \in Endpoint : Undisturbed(e) => RowsOf(e, ep)

ChainInv == ChancesInv /\ AnsweredInv /\ ReplayedInv /\ RowsInv

\* What is counted of an event only grows.
LEMMA CountsGrow ==
  ASSUME TypeOK, [Next]_vars, NEW e \in Event
  PROVE  /\ Undisturbed(e)' => Undisturbed(e)
         /\ replays[e] > 0 => replays'[e] > 0
         /\ \A ep \in Endpoint : acked'[e][ep] \in {acked[e][ep], acked[e][ep] + 1}
<1>1. replays[e] \in Nat /\ crashes \in Nat /\ \A ep \in Endpoint : acked[e][ep] \in Nat
  BY BoundsAssumption DEF TypeOK
<1>2. ASSUME NEW ep \in Endpoint
      PROVE  /\ acked'[e][ep] \in {acked[e][ep], acked[e][ep] + 1}
             /\ replays'[e] \in {replays[e], replays[e] + 1}
             /\ crashes' \in {crashes, crashes + 1}
  BY StepTurns DEF Turns, Same
<1>3. replays'[e] \in {replays[e], replays[e] + 1} /\ crashes' \in {crashes, crashes + 1}
  <2>1. ASSUME NEW x \in Event, ApiStep(x)
        PROVE  crashes' = crashes /\ replays'[e] \in {replays[e], replays[e] + 1}
    BY <1>1, <2>1 DEF ApiStep, Ingest, ReplayRead, ReplayCommit, Enqueue, ApiFails, bounds, TypeOK
  <2>2. ASSUME NEW x \in Endpoint, AdminStep(x) \/ WindowExpires(x) PROVE UNCHANGED <<replays, crashes>>
    BY <2>2 DEF AdminStep, Register, Deactivate, WindowExpires, bounds
  <2>3. ASSUME NEW t \in DeliverTask, CountdownElapses(t) PROVE UNCHANGED <<replays, crashes>>
    BY <2>3 DEF CountdownElapses, bounds
  <2>4. ASSUME NEW w \in Worker, WorkerStep(w) PROVE UNCHANGED <<replays, crashes>>
    BY <2>4 DEF WorkerStep, Take, DispatchToNobody, Dispatch, FanOut, Admit, FailOpen, Throttle,
                ThrottleOut, Post, Record, Retry, Ack, bounds
  <2>5. ASSUME NEW w \in Worker, TaskDies(w) \/ WorkerCrash(w)
        PROVE  replays' = replays /\ crashes' \in {crashes, crashes + 1}
    BY <2>5 DEF TaskDies, WorkerCrash, bounds
  <2>6. CASE UNCHANGED vars
    BY <2>6 DEF vars, bounds
  <2> QED BY <2>1, <2>2, <2>3, <2>4, <2>5, <2>6 DEF Next
<1> QED BY <1>1, <1>2, <1>3 DEF Undisturbed

LEMMA ReplayedNext == TypeOK /\ ReplayedInv /\ [Next]_vars => ReplayedInv'
<1> SUFFICES ASSUME TypeOK, ReplayedInv, [Next]_vars, NEW e \in Event, replaying'[e] > 0
             PROVE  replays'[e] > 0
  BY DEF ReplayedInv
<1>1. replaying[e] \in Nat /\ replays[e] \in Nat
  BY DEF TypeOK
<1>2. CASE replaying[e] > 0
  BY <1>2, CountsGrow DEF ReplayedInv
<1>3. CASE ~(replaying[e] > 0)
  <2>1. ReplayRead(e)
    <3>1. ASSUME NEW x \in Event, ApiStep(x) PROVE ReplayRead(e)
      <4>1. CASE ReplayRead(x)
        BY <1>3, <4>1 DEF ReplayRead, TypeOK
      <4>2. CASE ReplayCommit(x)
        BY <1>1, <1>3, <4>2 DEF ReplayCommit, TypeOK
      <4> QED BY <1>3, <3>1, <4>1, <4>2 DEF ApiStep, Ingest, Enqueue, ApiFails
    <3>2. CASE UNCHANGED api
      BY <1>3, <3>2 DEF api
    <3>3. ASSUME ~\E x \in Event : ApiStep(x) PROVE UNCHANGED api
      BY <3>3 DEF Next, vars, AdminStep, Register, Deactivate, WindowExpires, CountdownElapses, WorkerStep,
                  Take, DispatchToNobody, Dispatch, FanOut, Admit, FailOpen, Throttle, ThrottleOut,
                  Post, Record, Retry, Ack, TaskDies, WorkerCrash
    <3> QED BY <3>1, <3>2, <3>3
  <2> QED BY <1>1, <2>1 DEF ReplayRead, TypeOK
<1> QED BY <1>2, <1>3

LEMMA AnsweredNext == TypeOK /\ AnsweredInv /\ [Next]_vars => AnsweredInv'
<1> SUFFICES ASSUME TypeOK, AnsweredInv, [Next]_vars, NEW e \in Event, NEW ep \in Endpoint,
                    NEW w \in Worker, (Serves(w, e, ep) /\ ~MayPost(w, e, ep))'
             PROVE  /\ acked'[e][ep] >= 1
                    /\ \A v \in Worker \ {w} :
                         (Serves(v, e, ep) /\ ~MayPost(v, e, ep))' => acked'[e][ep] >= 2
  BY DEF AnsweredInv
<1> DEFINE Done(v) == Serves(v, e, ep) /\ ~MayPost(v, e, ep)
<1>0. acked[e][ep] \in Nat /\ acked'[e][ep] \in {acked[e][ep], acked[e][ep] + 1}
  BY CountsGrow DEF TypeOK
<1>1. ASSUME NEW x \in Worker, NEW o \in Outcome, Post(x, o)
      PROVE  /\ \A v \in Worker \ {x} : Done(v)' <=> Done(v)
             /\ Done(x)' => acked'[e][ep] = acked[e][ep] + 1
  <2>1. /\ pc[x] = "post" /\ pc' = [pc EXCEPT ![x] = "write"] /\ task' = task /\ todo' = todo
        /\ outcome' = [outcome EXCEPT ![x] = o]
    BY <1>1 DEF Post
  <2>2. \A v \in Worker \ {x} : Done(v)' <=> Done(v)
    BY <2>1 DEF TypeOK, MayPost, Serves
  <2>3. ASSUME Done(x)' PROVE acked'[e][ep] = acked[e][ep] + 1
    <3>1. o = "success" /\ task[x].ev = e /\ task[x].ep = ep
      BY <2>1, <2>3 DEF TypeOK, MayPost, Serves
    <3> QED BY <1>1, <3>1 DEF Post, TypeOK
  <2> QED BY <2>2, <2>3
<1>2. ASSUME ~\E x \in Worker, o \in Outcome : Post(x, o)
      PROVE  \A v \in Worker : Done(v)' => Done(v)
  <2>1. ASSUME NEW x \in Event, ApiStep(x) PROVE UNCHANGED workers
    BY <2>1 DEF ApiStep, Ingest, ReplayRead, ReplayCommit, Enqueue, ApiFails
  <2>2. ASSUME NEW x \in Endpoint, AdminStep(x) \/ WindowExpires(x) PROVE UNCHANGED workers
    BY <2>2 DEF AdminStep, Register, Deactivate, WindowExpires
  <2>3. ASSUME NEW t \in DeliverTask, CountdownElapses(t) PROVE UNCHANGED workers
    BY <2>3 DEF CountdownElapses
  <2>4. ASSUME NEW x \in Worker, WorkerStep(x) \/ TaskDies(x) \/ WorkerCrash(x)
        PROVE  pc'[x] # "write"
    BY <1>2, <2>4 DEF WorkerStep, Take, DispatchToNobody, Dispatch, FanOut, Admit, FailOpen,
                      Throttle, ThrottleOut, Record, Retry, Ack, TaskDies, WorkerCrash, Free, TypeOK
  <2>5. ASSUME NEW x \in Worker, WorkerStep(x) \/ TaskDies(x) \/ WorkerCrash(x), NEW v \in Worker, Done(v)'
        PROVE  Done(v)
    <3>1. SlotFrame(x)
      BY <2>5, SlotFrames
    <3>2. v # x
      BY <2>4, <2>5 DEF MayPost
    <3> QED BY <2>5, <3>1, <3>2 DEF SlotFrame, MayPost, Serves
  <2>6. CASE UNCHANGED workers
    BY <2>6 DEF workers, MayPost, Serves
  <2> QED BY <2>1, <2>2, <2>3, <2>5, <2>6 DEF Next, vars
<1>3. CASE \E x \in Worker, o \in Outcome : Post(x, o)
  <2>1. PICK x \in Worker, o \in Outcome : Post(x, o)
    BY <1>3
  <2>2. /\ \A v \in Worker \ {x} : Done(v)' <=> Done(v)
        /\ Done(x)' => acked'[e][ep] = acked[e][ep] + 1
    BY <1>1, <2>1
  <2>3. \A v \in Worker : Done(v) => acked[e][ep] >= 1 /\ \A u \in Worker \ {v} : Done(u) => acked[e][ep] >= 2
    BY DEF AnsweredInv
  <2>4. Done(w)'
    OBVIOUS
  <2> HIDE DEF Done
  <2>5. acked'[e][ep] >= 1 /\ \A v \in Worker \ {w} : Done(v)' => acked'[e][ep] >= 2
    BY <1>0, <2>2, <2>3, <2>4
  <2> QED BY <2>5 DEF Done
<1>4. CASE ~\E x \in Worker, o \in Outcome : Post(x, o)
  <2>1. \A v \in Worker : Done(v)' => Done(v)
    BY <1>2, <1>4
  <2>2. \A v \in Worker : Done(v) => acked[e][ep] >= 1 /\ \A u \in Worker \ {v} : Done(u) => acked[e][ep] >= 2
    BY DEF AnsweredInv
  <2>3. Done(w)'
    OBVIOUS
  <2> HIDE DEF Done
  <2>4. acked'[e][ep] >= 1 /\ \A v \in Worker \ {w} : Done(v)' => acked'[e][ep] >= 2
    BY <1>0, <2>1, <2>2, <2>3
  <2> QED BY <2>4 DEF Done
<1> QED BY <1>3, <1>4

-----------------------------------------------------------------------------
\* Who records an attempt for the only chance there was is alone.
LEMMA SoleServer ==
  ASSUME TypeOK, AnsweredInv, NEW e \in Event, NEW ep \in Endpoint,
         IsFiniteSet(Chances(e, ep)),
         acked[e][ep] + Cardinality(Chances(e, ep)) + Unposted(e) <= 1,
         NEW w \in Worker, pc[w] = "write", task[w].ev = e, task[w].ep = ep
  PROVE  /\ ~Fresh(e)
         /\ \A t \in ParkedFor(e, ep) : ~Waiting(t)
         /\ \A v \in Worker \ {w} : ~Serves(v, e, ep)
<1> DEFINE C == Chances(e, ep)
<1>1. IsFiniteSet(C) /\ acked[e][ep] + Cardinality(C) + Unposted(e) <= 1
  OBVIOUS
<1>2. acked[e][ep] \in Nat /\ Unposted(e) \in Nat /\ Cardinality(C) \in Nat
  BY <1>1, FS_CardinalityType, UnpostedType DEF TypeOK
<1>3. Serves(w, e, ep)
  BY DEF Serves, Working
<1>4. \A v \in Worker : Serves(v, e, ep) /\ ~MayPost(v, e, ep) => acked[e][ep] >= 1
  BY DEF AnsweredInv
<1>5. \A v \in Worker : MayPost(v, e, ep) => Slot(v) \in C
  BY SlotIn DEF Chances
<1>6. \A x \in C : x = Slot(w)
  <2>1. CASE MayPost(w, e, ep)
    <3>1. Slot(w) \in C
      BY <1>5, <2>1
    <3> HIDE DEF C
    <3>2. Cardinality(C) # 0
      BY <1>1, <3>1, FS_EmptySet
    <3>3. Cardinality(C) = 1
      BY <1>1, <1>2, <3>2
    <3> QED BY <1>1, <3>1, <3>3, FS_Singleton
  <2>2. CASE ~MayPost(w, e, ep)
    <3> HIDE DEF C
    <3>1. acked[e][ep] >= 1
      BY <1>3, <1>4, <2>2
    <3>2. Cardinality(C) = 0
      BY <1>1, <1>2, <3>1
    <3> QED BY <1>1, <3>2, FS_EmptySet
  <2> QED BY <2>1, <2>2
<1>7. Unposted(e) = 0
  <2> HIDE DEF C
  <2>1. CASE MayPost(w, e, ep)
    <3>1. Cardinality(C) # 0
      BY <1>1, <1>5, <2>1, FS_EmptySet
    <3> QED BY <1>1, <1>2, <3>1
  <2>2. CASE ~MayPost(w, e, ep)
    <3>1. acked[e][ep] >= 1
      BY <1>3, <1>4, <2>2
    <3> QED BY <1>1, <1>2, <3>1
  <2> QED BY <2>1, <2>2
<1>8. ASSUME NEW tag \in {"api", "queue", "parked"}, NEW S, NEW f, NEW t \in S, f[t] \in Nat, f[t] > 0,
             Copies(tag, S, f) \subseteq C
      PROVE  FALSE
  <2>1. <<tag, t, 1>> \in Copies(tag, S, f)
    BY <1>8 DEF Copies
  <2>2. <<tag, t, 1>> = Slot(w)
    BY <1>6, <1>8, <2>1
  <2> QED BY <1>8, <2>2 DEF Slot
<1>9. ~Fresh(e)
  <2>1. status[e] # "ABSENT"
    BY <1>7 DEF Unposted
  <2>2. ~(unqueued[e] > 0)
    <3>1. Copies("api", {e}, unqueued) \subseteq C /\ unqueued[e] \in Nat
      BY DEF Chances, TypeOK
    <3> HIDE DEF C
    <3> QED BY <1>8, <3>1
  <2>3. ~(queue[Dispatcher(e)] > 0)
    <3>1. Dispatcher(e) \in For(e, ep)
      BY DispatcherType DEF For, Dispatcher
    <3>2. Copies("queue", For(e, ep), queue) \subseteq C /\ queue[Dispatcher(e)] \in Nat
      BY DispatcherType DEF Chances, TypeOK
    <3> HIDE DEF C
    <3> QED BY <1>8, <3>1, <3>2
  <2> QED BY <2>1, <2>2, <2>3 DEF Fresh
<1>10. ASSUME NEW t \in ParkedFor(e, ep) PROVE ~Waiting(t)
  <2>1. t \in DeliverTask /\ t \in Task /\ t \in For(e, ep)
    BY <1>10, TaskFields DEF ParkedFor, For
  <2>2. /\ Copies("queue", For(e, ep), queue) \subseteq C /\ queue[t] \in Nat
        /\ Copies("parked", ParkedFor(e, ep), parked) \subseteq C /\ parked[t] \in Nat
    BY <2>1 DEF Chances, TypeOK
  <2> HIDE DEF C
  <2>3. ~(queue[t] > 0)
    BY <1>8, <2>1, <2>2
  <2>4. ~(parked[t] > 0)
    BY <1>8, <1>10, <2>2
  <2> QED BY <2>3, <2>4 DEF Waiting
<1>11. ASSUME NEW v \in Worker \ {w}, Serves(v, e, ep) PROVE FALSE
  <2>1. CASE MayPost(v, e, ep)
    <3>1. Slot(v) = Slot(w)
      BY <1>5, <1>6, <2>1
    <3> QED BY <3>1 DEF Slot
  <2>2. CASE ~MayPost(v, e, ep)
    <3>1. acked[e][ep] >= 1
      BY <1>4, <1>11, <2>2
    <3>2. CASE MayPost(w, e, ep)
      <4>1. Slot(w) \in C
        BY <1>5, <3>2
      <4> HIDE DEF C
      <4>2. Cardinality(C) # 0
        BY <1>1, <4>1, FS_EmptySet
      <4> QED BY <1>1, <1>2, <3>1, <4>2
    <3>3. CASE ~MayPost(w, e, ep)
      <4>1. acked[e][ep] >= 2
        BY <1>3, <1>11, <2>2, <3>3 DEF AnsweredInv
      <4> HIDE DEF C
      <4> QED BY <1>1, <1>2, <4>1
    <3> QED BY <3>2, <3>3
  <2> QED BY <2>1, <2>2
<1> QED BY <1>9, <1>10, <1>11

\* So is who records an attempt of an undisturbed event.
LEMMA SoleWriter ==
  ASSUME TypeOK, ChancesInv, AnsweredInv, NEW e \in Event, NEW ep \in Endpoint, Undisturbed(e),
         NEW w \in Worker, pc[w] = "write", task[w].ev = e, task[w].ep = ep
  PROVE  /\ ~Fresh(e)
         /\ \A t \in ParkedFor(e, ep) : ~Waiting(t)
         /\ \A v \in Worker \ {w} : ~Serves(v, e, ep)
<1>1. /\ IsFiniteSet(Chances(e, ep))
      /\ acked[e][ep] + Cardinality(Chances(e, ep)) + Unposted(e) <= 1 + replays[e] + crashes
  BY DEF ChancesInv
<1>2. acked[e][ep] + Cardinality(Chances(e, ep)) + Unposted(e) <= 1
  BY <1>1 DEF Undisturbed
<1> QED BY <1>1, <1>2, SoleServer

\* A step that records nothing hands the chance on.
LEMMA HandedOn ==
  ASSUME NEW e \in Event, NEW ep \in Endpoint, RowsOf(e, ep), attempts' = attempts,
         Fresh(e)' => UpTo(e, ep, 0),
         \A t \in ParkedFor(e, ep) : Waiting(t)' => UpTo(e, ep, t.retries),
         \A w \in Worker : Serves(w, e, ep)' => UpTo(e, ep, Before(w)')
  PROVE  RowsOf(e, ep)'
<1>1. \A n : UpTo(e, ep, n)' <=> UpTo(e, ep, n)
  BY DEF UpTo
<1>2. ParkedFor(e, ep)' = ParkedFor(e, ep)
  BY DEF ParkedFor
<1>3. Fresh(e)' => UpTo(e, ep, 0)'
  BY <1>1
<1>4. \A t \in ParkedFor(e, ep) : Waiting(t)' => UpTo(e, ep, t.retries)'
  BY <1>1
<1>5. \A w \in Worker : Serves(w, e, ep)' => (UpTo(e, ep, Before(w)))'
  BY DEF UpTo
<1>6. /\ \A a, b \in Attempt :
           /\ a.ev = e /\ a.ep = ep /\ attempts'[a] > 0
           /\ b.ev = e /\ b.ep = ep /\ attempts'[b] > 0
           /\ a.number = b.number
           => a = b
      /\ \A a \in Attempt : a.ev = e /\ a.ep = ep => attempts'[a] <= 1
  BY DEF RowsOf
<1> QED BY <1>2, <1>3, <1>4, <1>5, <1>6 DEF RowsOf

\* The record of an attempt is the first of its number, and the last so far.
LEMMA RecordedRows ==
  ASSUME TypeOK, ChancesInv, AnsweredInv, NEW e \in Event, NEW ep \in Endpoint, Undisturbed(e),
         RowsOf(e, ep), NEW w \in Worker, Record(w)
  PROVE  RowsOf(e, ep)'
<1> DEFINE r == Row(w)
<1>1. /\ pc[w] = "write" /\ task[w] \in DeliverTask /\ r \in Attempt
      /\ task[w].ev \in Event /\ task[w].ep \in Endpoint /\ task[w].retries \in Nat
  <2>1. pc[w] = "write"
    BY DEF Record
  <2>2. task[w] \in DeliverTask
    BY <2>1 DEF TypeOK
  <2>3. r \in Attempt
    BY <2>2, RowType
  <2>4. /\ task[w].ev \in Event /\ task[w].ep \in Endpoint /\ task[w].retries \in Nat
    BY <2>2, TaskFields, RetriesAssumption
  <2> HIDE DEF r
  <2> QED BY <2>1, <2>2, <2>3, <2>4
<1>2. /\ r.ev = task[w].ev /\ r.ep = task[w].ep /\ r.number = task[w].retries + 1
  BY DEF Row
<1>3. /\ attempts \in [Attempt -> Nat] /\ attempts' = [attempts EXCEPT ![r] = @ + 1]
      /\ UNCHANGED <<queue, parked, unqueued, task, todo, outcome>>
      /\ pc' = [pc EXCEPT ![w] = pc'[w]] /\ pc'[w] \in {"ack", "retry"}
      /\ \A x \in Event : status'[x] = "ABSENT" => status[x] = "ABSENT"
  <2>1. FinalStatus(w) # "ABSENT"
    BY DEF FinalStatus
  <2> QED BY <2>1 DEF Record, TypeOK, broker, api
<1> HIDE DEF r
<1>4. /\ Fresh(e)' => Fresh(e)
      /\ \A t \in ParkedFor(e, ep) : Waiting(t)' => Waiting(t)
      /\ \A v \in Worker \ {w} : /\ Serves(v, e, ep)' => Serves(v, e, ep)
                                 /\ Before(v)' = Before(v)
  BY <1>3 DEF Fresh, Waiting, Serves, Before, TypeOK
<1>5. CASE task[w].ev = e /\ task[w].ep = ep
  <2>1. /\ ~(Fresh(e)') /\ \A t \in ParkedFor(e, ep) : ~(Waiting(t)')
        /\ \A v \in Worker \ {w} : ~(Serves(v, e, ep)')
    BY <1>1, <1>4, <1>5, SoleWriter
  <2>2. Serves(w, e, ep) /\ Before(w) = task[w].retries
    BY <1>1, <1>5 DEF Serves, Working, Before
  <2>3. \A a \in Attempt : a.ev = e /\ a.ep = ep /\ attempts[a] > 0 => a.number <= task[w].retries
    BY <2>2 DEF RowsOf, UpTo
  <2>4. \A a \in Attempt : attempts'[a] > 0 => attempts[a] > 0 \/ a = r
    BY <1>3
  <2>5. attempts[r] = 0
    <3>1. attempts[r] \in Nat
      BY <1>1, <1>3
    <3>2. ~(r.number <= task[w].retries)
      BY <1>1, <1>2
    <3>3. ~(attempts[r] > 0)
      BY <1>1, <1>2, <1>5, <2>3, <3>2
    <3> QED BY <3>1, <3>3
  <2>6. \A a, b \in Attempt :
          /\ a.ev = e /\ a.ep = ep /\ attempts'[a] > 0
          /\ b.ev = e /\ b.ep = ep /\ attempts'[b] > 0
          /\ a.number = b.number
          => a = b
    <3> SUFFICES ASSUME NEW a \in Attempt, NEW b \in Attempt,
                        a.ev = e, a.ep = ep, attempts'[a] > 0,
                        b.ev = e, b.ep = ep, attempts'[b] > 0, a.number = b.number
                 PROVE  a = b
      OBVIOUS
    <3>1. CASE a # r /\ b # r
      <4>1. attempts[a] > 0 /\ attempts[b] > 0
        BY <2>4, <3>1
      <4> QED BY <4>1 DEF RowsOf
    <3>2. CASE a = r /\ b # r
      <4>1. b.number <= task[w].retries
        BY <2>3, <2>4, <3>2
      <4> QED BY <1>1, <1>2, <3>2, <4>1
    <3>3. CASE b = r /\ a # r
      <4>1. a.number <= task[w].retries
        BY <2>3, <2>4, <3>3
      <4> QED BY <1>1, <1>2, <3>3, <4>1
    <3> QED BY <3>1, <3>2, <3>3
  <2>7. \A a \in Attempt : a.ev = e /\ a.ep = ep => attempts'[a] <= 1
    <3> SUFFICES ASSUME NEW a \in Attempt, a.ev = e, a.ep = ep PROVE attempts'[a] <= 1
      OBVIOUS
    <3>1. CASE a = r
      BY <1>1, <1>3, <2>5, <3>1
    <3>2. CASE a # r
      <4>1. attempts'[a] = attempts[a]
        BY <1>3, <3>2
      <4> QED BY <4>1 DEF RowsOf
    <3> QED BY <3>1, <3>2
  <2>8. Serves(w, e, ep)' => UpTo(e, ep, Before(w))'
    <3> SUFFICES ASSUME Serves(w, e, ep)' PROVE UpTo(e, ep, Before(w))'
      OBVIOUS
    <3>1. pc'[w] = "retry"
      BY <1>3 DEF Serves, Working
    <3>2. Before(w)' = task[w].retries + 1
      BY <1>3, <3>1 DEF Before
    <3>3. ASSUME NEW a \in Attempt, a.ev = e, a.ep = ep, attempts'[a] > 0
          PROVE  a.number <= task[w].retries + 1
      <4>1. CASE a = r
        BY <1>1, <1>2, <4>1
      <4>2. CASE a # r
        <5>1. a.number <= task[w].retries /\ a.number \in Nat
          BY <2>3, <2>4, <3>3, <4>2 DEF Attempt
        <5> QED BY <1>1, <5>1
      <4> QED BY <4>1, <4>2
    <3> QED BY <3>2, <3>3 DEF UpTo
  <2>9. ParkedFor(e, ep)' = ParkedFor(e, ep)
    BY DEF ParkedFor
  <2> QED BY <2>1, <2>6, <2>7, <2>8, <2>9 DEF RowsOf
<1>6. CASE ~(task[w].ev = e /\ task[w].ep = ep)
  <2>1. \A a \in Attempt : a.ev = e /\ a.ep = ep => attempts'[a] = attempts[a]
    BY <1>2, <1>3, <1>6
  <2>2. \A n : UpTo(e, ep, n)' <=> UpTo(e, ep, n)
    BY <2>1 DEF UpTo
  <2>3. ~(Serves(w, e, ep)')
    BY <1>3, <1>6 DEF Serves, Working
  <2>4. \A v \in Worker : Serves(v, e, ep)' => UpTo(e, ep, Before(v))'
    <3> SUFFICES ASSUME NEW v \in Worker, Serves(v, e, ep)' PROVE UpTo(e, ep, Before(v))'
      OBVIOUS
    <3>1. Serves(v, e, ep) /\ Before(v)' = Before(v)
      BY <1>4, <2>3
    <3>2. UpTo(e, ep, Before(v))
      BY <3>1 DEF RowsOf
    <3> QED BY <2>1, <3>1, <3>2 DEF UpTo
  <2>5. Fresh(e)' => UpTo(e, ep, 0)'
    BY <1>4, <2>2 DEF RowsOf
  <2>6. \A t \in ParkedFor(e, ep) : Waiting(t)' => UpTo(e, ep, t.retries)'
    BY <1>4, <2>2 DEF RowsOf
  <2>7. /\ \A a, b \in Attempt :
             /\ a.ev = e /\ a.ep = ep /\ attempts'[a] > 0
             /\ b.ev = e /\ b.ep = ep /\ attempts'[b] > 0
             /\ a.number = b.number
             => a = b
        /\ \A a \in Attempt : a.ev = e /\ a.ep = ep => attempts'[a] <= 1
    BY <2>1 DEF RowsOf
  <2>8. ParkedFor(e, ep)' = ParkedFor(e, ep)
    BY DEF ParkedFor
  <2> QED BY <2>4, <2>5, <2>6, <2>7, <2>8 DEF RowsOf
<1> QED BY <1>5, <1>6

LEMMA UpToMore ==
  ASSUME NEW e, NEW ep, NEW m \in Nat, UpTo(e, ep, m)
  PROVE  UpTo(e, ep, m + 1)
<1> SUFFICES ASSUME NEW a \in Attempt, a.ev = e, a.ep = ep, attempts[a] > 0
             PROVE  a.number <= m + 1
  BY DEF UpTo
<1>1. a.number <= m /\ a.number \in 1 .. MaxRetries + 1
  BY DEF UpTo, Attempt
<1> QED BY <1>1, RetriesAssumption

\* A slot that records nothing hands its chance to a message or keeps it.
LEMMA SlotHands ==
  ASSUME NEW w \in Worker, SlotFrame(w), attempts' = attempts,
         NEW e \in Event, NEW ep \in Endpoint, RowsOf(e, ep),
         queue'[Dispatcher(e)] > 0 => Fresh(e),
         \A t \in ParkedFor(e, ep) : Waiting(t)' => Waiting(t) \/ UpTo(e, ep, t.retries),
         Serves(w, e, ep)' => UpTo(e, ep, Before(w)')
  PROVE  RowsOf(e, ep)'
<1>1. Fresh(e)' => Fresh(e)
  BY DEF Fresh, SlotFrame, api, Dispatcher
<1>2. \A v \in Worker \ {w} : (Serves(v, e, ep)' => Serves(v, e, ep)) /\ Before(v)' = Before(v)
  BY DEF SlotFrame, Serves, Before
<1>3. Fresh(e)' => UpTo(e, ep, 0)
  BY <1>1 DEF RowsOf
<1>4. \A t \in ParkedFor(e, ep) : Waiting(t)' => UpTo(e, ep, t.retries)
  BY DEF RowsOf
<1>5. \A v \in Worker : Serves(v, e, ep)' => UpTo(e, ep, Before(v)')
  BY <1>2 DEF RowsOf
<1> QED BY <1>3, <1>4, <1>5, HandedOn

LEMMA ChainRowsNext ==
  ASSUME TypeOK, ChancesInv, AnsweredInv, ReplayedInv, RowsInv, [Next]_vars
  PROVE  RowsInv'
<1> SUFFICES ASSUME NEW e \in Event, NEW ep \in Endpoint, Undisturbed(e)'
             PROVE  RowsOf(e, ep)'
  BY DEF RowsInv
<1>0. Undisturbed(e) /\ RowsOf(e, ep)
  BY CountsGrow DEF RowsInv
<1>1. /\ queue \in [Task -> Nat] /\ parked \in [DeliverTask -> Nat] /\ unqueued \in [Event -> Nat]
      /\ pc \in [Worker -> Working \cup {"idle", "ack"}] /\ task \in [Worker -> Task \cup {NoTask}]
  BY DEF TypeOK
<1>2. /\ Fresh(e) => UpTo(e, ep, 0)
      /\ \A t \in ParkedFor(e, ep) : Waiting(t) => UpTo(e, ep, t.retries)
      /\ \A w \in Worker : Serves(w, e, ep) => UpTo(e, ep, Before(w))
  BY <1>0 DEF RowsOf
<1>3. /\ \A x \in Event : Dispatcher(x) \in Task /\ Dispatcher(x) \notin DeliverTask
      /\ \A x \in Event : Dispatcher(x) = Dispatcher(e) => x = e
      /\ ParkedFor(e, ep) \subseteq DeliverTask /\ DeliverTask \subseteq Task
  BY DispatcherType, TaskFields DEF Dispatcher, ParkedFor
<1>4. ASSUME NEW x \in Event, ApiStep(x) PROVE RowsOf(e, ep)'
  <2>1. attempts' = attempts /\ workers' = workers /\ parked' = parked
    BY <1>4 DEF ApiStep, Ingest, ReplayRead, ReplayCommit, Enqueue, ApiFails, db, broker
  <2>2. \A t \in ParkedFor(e, ep) : Waiting(t)' => Waiting(t)
    <3>1. CASE Enqueue(x)
      BY <1>1, <1>3, <2>1, <3>1 DEF Enqueue, Waiting
    <3>2. CASE ~Enqueue(x)
      BY <1>4, <3>2 DEF ApiStep, Ingest, ReplayRead, ReplayCommit, ApiFails, broker, Waiting
    <3> QED BY <3>1, <3>2
  <2>3. Fresh(e)' => Fresh(e)
    <3>1. CASE Ingest(x)
      BY <3>1, <1>1 DEF Ingest, broker, Fresh, Dispatcher, TypeOK
    <3>2. CASE ReplayRead(x)
      BY <3>2 DEF ReplayRead, broker, db, Fresh, Dispatcher
    <3>3. CASE ReplayCommit(x)
      <4>1. x # e
        BY <1>0, <3>3 DEF ReplayCommit, ReplayedInv, Undisturbed
      <4> QED BY <1>1, <3>3, <4>1 DEF ReplayCommit, broker, Fresh, Dispatcher, TypeOK
    <3>4. CASE Enqueue(x)
      <4>1. CASE x = e
        BY <3>4, <4>1 DEF Enqueue, Fresh
      <4>2. CASE x # e
        <5>1. queue'[Dispatcher(e)] = queue[Dispatcher(e)] /\ unqueued'[e] = unqueued[e] /\ status' = status
          BY <1>1, <1>3, <3>4, <4>2 DEF Enqueue, db
        <5> QED BY <5>1 DEF Fresh, Dispatcher
      <4> QED BY <4>1, <4>2
    <3>5. CASE ApiFails(x)
      BY <1>1, <3>5 DEF ApiFails, broker, db, Fresh, Dispatcher
    <3> QED BY <1>4, <3>1, <3>2, <3>3, <3>4, <3>5 DEF ApiStep
  <2>4. \A w \in Worker : Serves(w, e, ep)' => UpTo(e, ep, Before(w)')
    BY <1>2, <2>1 DEF workers, Serves, Before
  <2> QED BY <1>0, <1>2, <2>1, <2>2, <2>3, <2>4, HandedOn
<1>5. ASSUME UNCHANGED <<attempts, broker, api, workers, status>> PROVE RowsOf(e, ep)'
  <2>1. Fresh(e)' => UpTo(e, ep, 0)
    BY <1>2, <1>5 DEF Fresh, broker, api, Dispatcher
  <2>2. \A t \in ParkedFor(e, ep) : Waiting(t)' => UpTo(e, ep, t.retries)
    BY <1>2, <1>5 DEF Waiting, broker
  <2>3. \A w \in Worker : Serves(w, e, ep)' => UpTo(e, ep, Before(w)')
    BY <1>2, <1>5 DEF workers, Serves, Before
  <2> QED BY <1>0, <1>5, <2>1, <2>2, <2>3, HandedOn
<1>6. ASSUME NEW x \in Endpoint, AdminStep(x) \/ WindowExpires(x) PROVE RowsOf(e, ep)'
  BY <1>5, <1>6 DEF AdminStep, Register, Deactivate, WindowExpires, db
<1>7. ASSUME NEW t \in DeliverTask, CountdownElapses(t) PROVE RowsOf(e, ep)'
  <2>1. /\ attempts' = attempts /\ UNCHANGED <<api, workers, status>>
        /\ parked[t] > 0
        /\ parked' = [parked EXCEPT ![t] = @ - 1] /\ queue' = [queue EXCEPT ![t] = @ + 1]
    BY <1>7 DEF CountdownElapses, db
  <2>2. queue'[Dispatcher(e)] = queue[Dispatcher(e)]
    BY <1>1, <1>3, <2>1
  <2>3. Fresh(e)' => UpTo(e, ep, 0)
    BY <1>2, <2>1, <2>2 DEF Fresh, api, Dispatcher
  <2>4. \A u \in ParkedFor(e, ep) : Waiting(u)' => Waiting(u)
    BY <1>1, <1>3, <2>1 DEF Waiting
  <2>5. \A w \in Worker : Serves(w, e, ep)' => UpTo(e, ep, Before(w)')
    BY <1>2, <2>1 DEF workers, Serves, Before
  <2> QED BY <1>0, <1>2, <2>1, <2>3, <2>4, <2>5, HandedOn
<1>8. ASSUME NEW w \in Worker, WorkerStep(w) \/ TaskDies(w) PROVE RowsOf(e, ep)'
  <2>1. SlotFrame(w)
    BY <1>8, SlotFrames
  <2>2. ASSUME attempts' = attempts, queue'[Dispatcher(e)] > 0 => Fresh(e),
               \A t \in ParkedFor(e, ep) : Waiting(t)' => Waiting(t) \/ UpTo(e, ep, t.retries),
               Serves(w, e, ep)' => UpTo(e, ep, Before(w)')
        PROVE  RowsOf(e, ep)'
    BY <1>0, <2>1, <2>2, SlotHands
  <2>3. ASSUME UNCHANGED <<attempts, broker>>, Serves(w, e, ep)' => UpTo(e, ep, Before(w)')
        PROVE  RowsOf(e, ep)'
    BY <2>2, <2>3 DEF broker, Waiting, Fresh, Dispatcher
  <2>4. ASSUME NEW t \in Task, Take(w, t) PROVE RowsOf(e, ep)'
    <3>1. /\ attempts' = attempts /\ parked' = parked /\ queue[t] > 0
          /\ queue' = [queue EXCEPT ![t] = @ - 1]
          /\ pc'[w] = (IF t.kind = "dispatch" THEN "dispatch" ELSE "gate") /\ task'[w] = t
      BY <1>1, <2>4 DEF Take, db
    <3>2. queue'[Dispatcher(e)] > 0 => Fresh(e)
      BY <1>1, <1>3, <3>1 DEF Fresh
    <3>3. \A u \in ParkedFor(e, ep) : Waiting(u)' => Waiting(u)
      BY <1>1, <1>3, <3>1 DEF Waiting
    <3>4. ASSUME Serves(w, e, ep)' PROVE UpTo(e, ep, Before(w)')
      <4>1. CASE t.kind = "dispatch"
        <5>1. t = Dispatcher(e)
          BY <3>1, <3>4, <4>1, DispatcherOnly, TaskFields DEF Serves
        <5>2. Before(w)' = 0 /\ Fresh(e)
          BY <3>1, <4>1, <5>1 DEF Before, Fresh
        <5> QED BY <1>2, <5>2
      <4>2. CASE t.kind # "dispatch"
        <5>1. t \in DeliverTask /\ t.ev = e /\ t.ep = ep
          BY <3>1, <3>4, <4>2, TaskFields DEF Serves
        <5>2. t \in ParkedFor(e, ep) /\ Waiting(t)
          BY <3>1, <5>1 DEF ParkedFor, Waiting
        <5>3. Before(w)' = t.retries
          BY <3>1, <4>2 DEF Before
        <5> QED BY <1>2, <5>2, <5>3
      <4> QED BY <4>1, <4>2
    <3> QED BY <2>2, <3>1, <3>2, <3>3, <3>4
  <2>5. CASE DispatchToNobody(w) \/ ThrottleOut(w) \/ Ack(w) \/ TaskDies(w)
    <3>1. pc'[w] \in {"idle", "ack"}
      BY <1>1, <2>5 DEF DispatchToNobody, ThrottleOut, Ack, TaskDies, Free
    <3>2. ~(Serves(w, e, ep)')
      BY <3>1 DEF Serves, Working
    <3>3. UNCHANGED <<attempts, broker>>
      BY <2>5 DEF DispatchToNobody, ThrottleOut, Ack, TaskDies, db
    <3> QED BY <2>3, <3>2, <3>3
  <2>6. CASE Dispatch(w)
    <3>1. /\ pc[w] = "dispatch" /\ pc'[w] = "fanout" /\ task' = task /\ UNCHANGED <<attempts, broker>>
      BY <1>1, <2>6 DEF Dispatch, db
    <3>2. Before(w)' = Before(w) /\ (Serves(w, e, ep)' => Serves(w, e, ep))
      BY <3>1 DEF Serves, Before, Working
    <3> QED BY <1>2, <2>3, <3>1, <3>2
  <2>7. ASSUME NEW p \in Endpoint, FanOut(w, p) PROVE RowsOf(e, ep)'
    <3> DEFINE d == Delivery(task[w].ev, p)
    <3>1. /\ pc[w] = "fanout" /\ p \in todo[w] /\ task[w] \in DispatchTask
          /\ attempts' = attempts /\ parked' = parked /\ task' = task
          /\ queue' = [queue EXCEPT ![d] = @ + 1]
          /\ todo'[w] = todo[w] \ {p} /\ pc'[w] \in {"ack", "fanout"}
      BY <1>1, <2>7 DEF FanOut, db, TypeOK
    <3>2. d \in DeliverTask /\ d.ev = task[w].ev /\ d.ep = p /\ d.retries = 0
      BY <3>1, TaskFields, DeliveryType DEF Delivery
    <3> HIDE DEF d
    <3>3. queue'[Dispatcher(e)] > 0 => Fresh(e)
      BY <1>1, <1>3, <3>1, <3>2 DEF Fresh
    <3>4. ASSUME NEW u \in ParkedFor(e, ep), Waiting(u)' PROVE Waiting(u) \/ UpTo(e, ep, u.retries)
      <4>1. CASE u = d
        <5>1. Serves(w, e, ep) /\ Before(w) = 0
          BY <3>1, <3>2, <3>4, <4>1 DEF Serves, Before, ParkedFor, Working
        <5> QED BY <1>2, <3>2, <4>1, <5>1
      <4>2. CASE u # d
        BY <1>1, <1>3, <3>1, <3>4, <4>2 DEF Waiting
      <4> QED BY <4>1, <4>2
    <3>5. ASSUME Serves(w, e, ep)' PROVE UpTo(e, ep, Before(w)')
      <4>1. Serves(w, e, ep) /\ Before(w)' = 0 /\ Before(w) = 0
        BY <3>1, <3>5 DEF Serves, Before, Working
      <4> QED BY <1>2, <4>1
    <3> QED BY <2>2, <3>1, <3>3, <3>4, <3>5
  <2>8. ASSUME Admit(w) \/ FailOpen(w) \/ \E o \in Outcome : Post(w, o) PROVE RowsOf(e, ep)'
    <3>1. /\ pc[w] \in {"gate", "post"} /\ pc'[w] \in {"post", "write"} /\ task' = task
          /\ UNCHANGED <<attempts, broker>>
      BY <1>1, <2>8 DEF Admit, FailOpen, Post, db
    <3>2. Before(w)' = Before(w) /\ (Serves(w, e, ep)' => Serves(w, e, ep))
      BY <3>1 DEF Serves, Before, Working
    <3> QED BY <1>2, <2>3, <3>1, <3>2
  <2>9. ASSUME NEW n \in Nat, task[w] \in DeliverTask, task[w].retries < MaxRetries,
               n = task[w].retries + 1,
               Serves(w, e, ep) => UpTo(e, ep, n),
               task[w].ev = e /\ task[w].ep = ep => Serves(w, e, ep)
        PROVE  /\ NextTry(task[w]) \in DeliverTask
               /\ NextTry(task[w]) \in ParkedFor(e, ep) => UpTo(e, ep, NextTry(task[w]).retries)
    <3>1. /\ NextTry(task[w]) \in DeliverTask /\ NextTry(task[w]).retries = n
          /\ NextTry(task[w]).ev = task[w].ev /\ NextTry(task[w]).ep = task[w].ep
      BY <2>9, NextTryType
    <3> QED BY <2>9, <3>1 DEF ParkedFor
  <2>10. CASE Throttle(w)
    <3> DEFINE u == NextTry(task[w])
    <3>1. /\ pc[w] = "gate" /\ task[w] \in DeliverTask /\ task[w].retries < MaxRetries
          /\ attempts' = attempts /\ queue' = queue /\ parked' = [parked EXCEPT ![u] = @ + 1]
          /\ pc'[w] = "ack"
      BY <1>1, <2>10 DEF Throttle, db, TypeOK
    <3>2. task[w].retries \in Nat
      BY <3>1, TaskFields, RetriesAssumption
    <3>3. task[w].ev = e /\ task[w].ep = ep => Serves(w, e, ep)
      BY <3>1 DEF Serves, Working
    <3>4. Before(w) = task[w].retries
      BY <3>1 DEF Before
    <3>5. Serves(w, e, ep) => UpTo(e, ep, task[w].retries + 1)
      BY <1>2, <3>2, <3>4, UpToMore
    <3>6. u \in DeliverTask /\ (u \in ParkedFor(e, ep) => UpTo(e, ep, u.retries))
      BY <2>9, <3>1, <3>2, <3>3, <3>5
    <3> HIDE DEF u
    <3>7. \A t \in ParkedFor(e, ep) : Waiting(t)' => Waiting(t) \/ UpTo(e, ep, t.retries)
      <4> SUFFICES ASSUME NEW t \in ParkedFor(e, ep), Waiting(t)', t # u PROVE Waiting(t)
        BY <3>6
      <4> QED BY <1>1, <1>3, <3>1, <3>6 DEF Waiting
    <3>8. ~(Serves(w, e, ep)')
      BY <3>1 DEF Serves, Working
    <3>9. queue'[Dispatcher(e)] > 0 => Fresh(e)
      BY <3>1 DEF Fresh
    <3> QED BY <2>2, <3>1, <3>7, <3>8, <3>9
  <2>11. CASE Retry(w)
    <3> DEFINE u == NextTry(task[w])
    <3>1. /\ pc[w] = "retry" /\ task[w] \in DeliverTask /\ task[w].retries < MaxRetries
          /\ attempts' = attempts /\ parked' = parked /\ queue' = [queue EXCEPT ![u] = @ + 1]
          /\ pc'[w] = "ack"
      BY <1>1, <2>11 DEF Retry, db, TypeOK
    <3>2. task[w].retries \in Nat
      BY <3>1, TaskFields, RetriesAssumption
    <3>3. task[w].ev = e /\ task[w].ep = ep => Serves(w, e, ep)
      BY <3>1 DEF Serves, Working
    <3>4. Before(w) = task[w].retries + 1
      BY <3>1 DEF Before
    <3>5. Serves(w, e, ep) => UpTo(e, ep, task[w].retries + 1)
      BY <1>2, <3>4
    <3>6. u \in DeliverTask /\ (u \in ParkedFor(e, ep) => UpTo(e, ep, u.retries))
      BY <2>9, <3>1, <3>2, <3>3, <3>5
    <3> HIDE DEF u
    <3>7. \A t \in ParkedFor(e, ep) : Waiting(t)' => Waiting(t) \/ UpTo(e, ep, t.retries)
      <4> SUFFICES ASSUME NEW t \in ParkedFor(e, ep), Waiting(t)', t # u PROVE Waiting(t)
        BY <3>6
      <4> QED BY <1>1, <1>3, <3>1, <3>6 DEF Waiting
    <3>8. ~(Serves(w, e, ep)')
      BY <3>1 DEF Serves, Working
    <3>9. queue'[Dispatcher(e)] > 0 => Fresh(e)
      BY <1>1, <1>3, <3>1, <3>6 DEF Fresh
    <3> QED BY <2>2, <3>1, <3>7, <3>8, <3>9
  <2>12. CASE Record(w)
    BY <1>0, <2>12, RecordedRows
  <2> QED BY <1>8, <2>4, <2>5, <2>6, <2>7, <2>8, <2>10, <2>11, <2>12 DEF WorkerStep
<1>9. ASSUME NEW w \in Worker, WorkerCrash(w) PROVE RowsOf(e, ep)'
  <2>1. crashes' = crashes + 1 /\ crashes' = 0 /\ crashes = 0
    BY <1>0, <1>9 DEF WorkerCrash, Undisturbed
  <2> QED BY <2>1
<1>10. CASE UNCHANGED vars
  BY <1>5, <1>10 DEF vars, db
<1> QED BY <1>4, <1>6, <1>7, <1>8, <1>9, <1>10 DEF Next

LEMMA ChainInit == Init => ChainInv
<1> SUFFICES ASSUME Init PROVE ChainInv
  OBVIOUS
<1>1. \A w \in Worker, e \in Event, ep \in Endpoint : ~Serves(w, e, ep)
  BY DEF Init, Serves, Working
<1>2. \A a \in Attempt : attempts[a] = 0
  BY DEF Init
<1>3. \A e \in Event, ep \in Endpoint : RowsOf(e, ep)
  BY <1>1, <1>2 DEF RowsOf, UpTo
<1>4. AnsweredInv /\ RowsInv
  BY <1>1, <1>3 DEF AnsweredInv, RowsInv
<1>5. ReplayedInv
  BY DEF Init, ReplayedInv
<1> QED BY <1>4, <1>5, ChancesInit DEF ChainInv

LEMMA ChainNext == TypeOK /\ ChainInv /\ [Next]_vars => ChainInv'
  BY ChancesNext, AnsweredNext, ReplayedNext, ChainRowsNext DEF ChainInv
=============================================================================
