------------------------- MODULE DeliveryRefinement -------------------------
(* Delivery implements EventLifecycle, for every value of the constants.    *)
EXTENDS DeliveryProofs

(***************************************************************************)
(* The refinement mapping, and how a step that concerns one event changes   *)
(* the set of events in flight.                                             *)
(***************************************************************************)

Open   == {e \in Event : InFlight(e)}
GaveUp == {e \in Event : lost[e] # {}}

\* The step changes who is in flight for one event at most.
OnlyIn(x) == \A e \in Event \ {x} : InFlight(e)' <=> InFlight(e)

LEMMA OpenAfter ==
  ASSUME NEW x \in Event, OnlyIn(x)
  PROVE  /\ InFlight(x)' => Open' = Open \cup {x}
         /\ ~(InFlight(x)') => Open' = Open \ {x}
         /\ (InFlight(x)' <=> InFlight(x)) => Open' = Open
<1>1. \A e : e \in Open' <=> e \in Event /\ (InFlight(e)')
  BY DEF Open
<1>2. \A e : e \in Open <=> e \in Event /\ InFlight(e)
  BY DEF Open
<1> QED BY <1>1, <1>2 DEF OnlyIn

\* The steps of the API, which leave the workers alone.
LEMMA ApiLocal ==
  ASSUME NEW x \in Event,
         \A e \in Event \ {x} : unqueued'[e] = unqueued[e],
         \A t \in Task : t.ev # x => (Waiting(t)' <=> Waiting(t)),
         UNCHANGED workers
  PROVE  OnlyIn(x)
  BY DEF OnlyIn, InFlight, workers

\* The steps of one worker, which leave the API alone.
LEMMA WorkerLocal ==
  ASSUME NEW x \in Event, NEW w \in Worker,
         pc[w] \in Working => task[w].ev = x,
         pc'[w] \in Working => task'[w].ev = x,
         \A v \in Worker \ {w} : pc'[v] = pc[v] /\ task'[v] = task[v],
         \A t \in Task : t.ev # x => (Waiting(t)' <=> Waiting(t)),
         UNCHANGED unqueued
  PROVE  OnlyIn(x)
<1> SUFFICES ASSUME NEW e \in Event \ {x} PROVE InFlight(e)' <=> InFlight(e)
  BY DEF OnlyIn
<1>1. \A v \in Worker : pc'[v] \in Working /\ task'[v].ev = e <=>
                        pc[v] \in Working /\ task[v].ev = e
  OBVIOUS
<1> QED BY <1>1 DEF InFlight

\* A push makes its message wait and touches no other.
LEMMA Pushed ==
  ASSUME TypeOK, NEW m \in Task, queue' = [queue EXCEPT ![m] = @ + 1], UNCHANGED parked
  PROVE  /\ Waiting(m)'
         /\ \A t \in Task : t # m => (Waiting(t)' <=> Waiting(t))
  BY DEF Waiting, TypeOK

\* Nothing waits for an event, is owed to it or is held for it before it is
\* accepted; what was acknowledged is of no account.
Unknown(e) ==
  /\ unqueued[e] = 0
  /\ \A t \in Task : t.ev = e => ~Waiting(t)
  /\ \A w \in Worker : pc[w] # "idle" => task[w].ev # e

KnownEvents == \A e \in Event : status[e] = "ABSENT" => Unknown(e)

\* What no step touches stays unknown.
LEMMA UnknownKept ==
  ASSUME NEW e \in Event, Unknown(e),
         unqueued'[e] = unqueued[e],
         \A t \in Task : t.ev = e => (Waiting(t)' <=> Waiting(t)),
         \A w \in Worker : pc'[w] # "idle" /\ task'[w].ev = e => pc[w] # "idle" /\ task[w].ev = e
  PROVE  Unknown(e)'
  BY DEF Unknown

LEMMA KnownNext == TypeOK /\ KnownEvents /\ [Next]_vars => KnownEvents'
<1> SUFFICES ASSUME TypeOK, KnownEvents, [Next]_vars, NEW e \in Event, status'[e] = "ABSENT"
             PROVE  Unknown(e)'
  BY DEF KnownEvents
<1>0. status[e] = "ABSENT" => Unknown(e)
  BY DEF KnownEvents
<1>1. ASSUME NEW x \in Event, ApiStep(x) PROVE Unknown(e)'
  <2>1. status[e] = "ABSENT"
    BY <1>1 DEF ApiStep, Ingest, ReplayRead, ReplayCommit, Enqueue, ApiFails, db, TypeOK
  <2>2. x # e \/ ReplayRead(x)
    BY <1>0, <1>1, <2>1 DEF ApiStep, Ingest, ReplayCommit, Enqueue, ApiFails, Unknown, TypeOK
  <2>3. unqueued'[e] = unqueued[e]
    BY <1>1, <2>2 DEF ApiStep, Ingest, ReplayRead, ReplayCommit, Enqueue, ApiFails, TypeOK
  <2>4. \A t \in Task : t.ev = e => (Waiting(t)' <=> Waiting(t))
    <3>1. CASE Enqueue(x)
      <4>1. PICK m \in Task : m = Dispatcher(x) /\ m.ev = x
        BY DispatcherType
      <4>2. queue' = [queue EXCEPT ![m] = @ + 1] /\ UNCHANGED parked
        BY <3>1, <4>1 DEF Enqueue
      <4>3. x # e
        BY <2>2, <3>1 DEF Enqueue, ReplayRead, TypeOK
      <4> QED BY <4>1, <4>2, <4>3, Pushed
    <3>2. CASE ~Enqueue(x)
      BY <1>1, <3>2 DEF ApiStep, Ingest, ReplayRead, ReplayCommit, ApiFails, Waiting, broker
    <3> QED BY <3>1, <3>2
  <2>5. UNCHANGED workers
    BY <1>1 DEF ApiStep, Ingest, ReplayRead, ReplayCommit, Enqueue, ApiFails
  <2> QED BY <1>0, <2>1, <2>3, <2>4, <2>5, UnknownKept DEF workers
<1>2. ASSUME NEW ep \in Endpoint, AdminStep(ep) \/ WindowExpires(ep) PROVE Unknown(e)'
  <2>1. status' = status /\ UNCHANGED <<api, broker, workers>>
    BY <1>2 DEF AdminStep, Register, Deactivate, WindowExpires, db
  <2> QED BY <1>0, <2>1, UnknownKept DEF Waiting, api, broker, workers
<1>3. ASSUME NEW m \in DeliverTask, CountdownElapses(m) PROVE Unknown(e)'
  <2>1. status' = status /\ UNCHANGED <<api, workers>>
    BY <1>3 DEF CountdownElapses, db
  <2>2. m \in Task /\ Waiting(m)
    BY <1>3, TaskFields DEF CountdownElapses, Waiting
  <2>3. m.ev # e
    BY <1>0, <2>1, <2>2 DEF Unknown
  <2>4. \A t \in Task : t # m => (Waiting(t)' <=> Waiting(t))
    BY <1>3, <2>2 DEF CountdownElapses, Waiting, TypeOK
  <2> QED BY <1>0, <2>1, <2>3, <2>4, UnknownKept DEF api, workers
<1>4. ASSUME NEW w \in Worker, WorkerStep(w) PROVE Unknown(e)'
  <2>1. status[e] = "ABSENT"
    <3>1. CASE Record(w) \/ DispatchToNobody(w)
      BY <3>1 DEF Record, DispatchToNobody, FinalStatus, TypeOK
    <3>2. CASE ~(Record(w) \/ DispatchToNobody(w))
      BY <1>4, <3>2 DEF WorkerStep, Take, Dispatch, FanOut, Admit, FailOpen, Throttle,
                        ThrottleOut, Post, Retry, Ack, db
    <3> QED BY <3>1, <3>2
  <2>2. Unknown(e) /\ UNCHANGED api
    BY <1>0, <1>4, <2>1 DEF WorkerStep, Take, DispatchToNobody, Dispatch, FanOut, Admit, FailOpen,
          Throttle, ThrottleOut, Post, Record, Retry, Ack
  <2>3. ASSUME NEW m \in Task, Take(w, m) PROVE Unknown(e)'
    <3>1. m.ev # e
      BY <2>2, <2>3 DEF Take, Unknown, Waiting
    <3>2. \A t \in Task : t.ev = e => (Waiting(t)' <=> Waiting(t))
      BY <2>3, <3>1 DEF Take, Waiting, TypeOK
    <3>3. \A v \in Worker : v # w => pc'[v] = pc[v] /\ task'[v] = task[v]
      BY <2>3 DEF Take, TypeOK
    <3>4. task'[w].ev # e
      BY <2>3, <3>1 DEF Take, TypeOK
    <3> QED BY <2>2, <3>2, <3>3, <3>4, UnknownKept DEF api
  <2>4. CASE DispatchToNobody(w) \/ Dispatch(w) \/ Admit(w) \/ FailOpen(w) \/ ThrottleOut(w)
             \/ (\E o \in Outcome : Post(w, o)) \/ Record(w) \/ Ack(w)
    <3>1. UNCHANGED broker
      BY <2>4 DEF DispatchToNobody, Dispatch, Admit, FailOpen, ThrottleOut, Post, Record, Ack
    <3>2. \A v \in Worker : pc'[v] # "idle" => pc[v] # "idle" /\ task'[v] = task[v]
      BY <2>4 DEF DispatchToNobody, Dispatch, Admit, FailOpen, ThrottleOut, Post, Record, Ack,
                  Free, TypeOK
    <3> QED BY <2>2, <3>1, <3>2, UnknownKept DEF Waiting, broker, api
  <2>5. CASE (\E ep \in Endpoint : FanOut(w, ep)) \/ Throttle(w) \/ Retry(w)
    <3>1. pc[w] # "idle" /\ task[w].ev # e
      BY <2>2, <2>5 DEF FanOut, Throttle, Retry, Unknown
    <3>2. UNCHANGED task /\ \A v \in Worker \ {w} : pc'[v] = pc[v]
      BY <2>5 DEF FanOut, Throttle, Retry, TypeOK
    <3>3. \A t \in Task : t.ev = e => (Waiting(t)' <=> Waiting(t))
      <4>1. ASSUME NEW ep \in Endpoint, FanOut(w, ep), NEW t \in Task, t.ev = e
            PROVE  Waiting(t)' <=> Waiting(t)
        <5>1. PICK m \in Task : m = Delivery(task[w].ev, ep) /\ m.ev = task[w].ev
          BY <4>1, TaskFields, DeliveryType DEF FanOut, TypeOK
        <5>2. queue' = [queue EXCEPT ![m] = @ + 1] /\ UNCHANGED parked
          BY <4>1, <5>1 DEF FanOut
        <5> QED BY <3>1, <4>1, <5>1, <5>2, Pushed
      <4>2. ASSUME Throttle(w) \/ Retry(w), NEW t \in Task, t.ev = e
            PROVE  Waiting(t)' <=> Waiting(t)
        <5>1. PICK m \in DeliverTask : m = NextTry(task[w]) /\ m \in Task /\ m.ev = task[w].ev
          BY <4>2, NextTryType DEF Throttle, Retry, TypeOK
        <5>2. \/ queue' = [queue EXCEPT ![m] = @ + 1] /\ UNCHANGED parked
              \/ parked' = [parked EXCEPT ![m] = @ + 1] /\ UNCHANGED queue
          BY <4>2, <5>1 DEF Throttle, Retry
        <5> QED BY <3>1, <4>2, <5>1, <5>2 DEF Waiting, TypeOK
      <4> QED BY <2>5, <4>1, <4>2
    <3> QED BY <2>2, <3>1, <3>2, <3>3, UnknownKept DEF api
  <2> QED BY <1>4, <2>3, <2>4, <2>5 DEF WorkerStep
<1>5. ASSUME NEW w \in Worker, TaskDies(w) \/ WorkerCrash(w) PROVE Unknown(e)'
  <2>1. status' = status /\ UNCHANGED api
    BY <1>5 DEF TaskDies, WorkerCrash, db
  <2>2. \A v \in Worker : pc'[v] # "idle" => pc[v] # "idle" /\ task'[v] = task[v]
    BY <1>5 DEF TaskDies, WorkerCrash, Free, TypeOK
  <2>3. \A t \in Task : t.ev = e => (Waiting(t)' <=> Waiting(t))
    <3>1. CASE TaskDies(w)
      BY <3>1 DEF TaskDies, Waiting, broker
    <3>2. CASE WorkerCrash(w)
      <4>1. PICK m \in Task : m = task[w] /\ m.ev # e
        BY <1>0, <2>1, <3>2 DEF WorkerCrash, TypeOK, Unknown
      <4>2. queue' = [queue EXCEPT ![m] = @ + 1] /\ UNCHANGED parked
        BY <3>2, <4>1 DEF WorkerCrash
      <4> QED BY <4>1, <4>2, Pushed
    <3> QED BY <1>5, <3>1, <3>2
  <2> QED BY <1>0, <2>1, <2>2, <2>3, UnknownKept DEF api
<1>6. CASE UNCHANGED vars
  BY <1>0, <1>6, UnknownKept DEF vars, db, api, broker, workers, Waiting
<1> QED BY <1>1, <1>2, <1>3, <1>4, <1>5, <1>6 DEF Next

(***************************************************************************)
(* Each step is a step of EventLifecycle or a stutter.                      *)
(***************************************************************************)

Kept == UNCHANGED <<status, Open, GaveUp, replaying>>

LEMMA KeptStutters == Kept => UNCHANGED Lifecycle!vars
  BY DEF Kept, Lifecycle!vars, Open, GaveUp

\* A loss is recorded for one event.
LEMMA Recorded ==
  ASSUME TypeOK, NEW x \in Event, NEW c, lost' = [lost EXCEPT ![x] = @ \cup {c}]
  PROVE  GaveUp' = GaveUp \cup {x}
  BY DEF GaveUp, TypeOK

LEMMA ApiRefines ==
  ASSUME TypeOK, TypeOK', NEW x \in Event, ApiStep(x)
  PROVE  Lifecycle!Next \/ Kept
<1>1. CASE Ingest(x) \/ ReplayCommit(x)
  <2>1. InFlight(x)'
    BY <1>1 DEF Ingest, ReplayCommit, InFlight, TypeOK
  <2>2. OnlyIn(x)
    BY <1>1, ApiLocal DEF Ingest, ReplayCommit, Waiting, broker, TypeOK
  <2>3. Open' = Open \cup {x} /\ GaveUp' = GaveUp
    BY <1>1, <2>1, <2>2, OpenAfter DEF Ingest, ReplayCommit, history, GaveUp
  <2>4. CASE Ingest(x)
    BY <2>3, <2>4 DEF Ingest, Open, GaveUp, Lifecycle!Accept, Lifecycle!Next
  <2>5. CASE ReplayCommit(x)
    BY <2>3, <2>5 DEF ReplayCommit, Open, GaveUp, Lifecycle!Replay, Lifecycle!Next
  <2> QED BY <1>1, <2>4, <2>5
<1>2. CASE ReplayRead(x)
  <2>1. Open' = Open /\ GaveUp' = GaveUp /\ status' = status
    BY <1>2 DEF ReplayRead, db, broker, workers, history, Open, GaveUp, InFlight, Waiting
  <2> QED BY <1>2, <2>1 DEF ReplayRead, Replayable, Open, GaveUp,
                            Lifecycle!Replayable, Lifecycle!AskReplay, Lifecycle!Next
<1>3. CASE Enqueue(x)
  <2>1. PICK m \in Task : m = Dispatcher(x) /\ m.ev = x
    BY DispatcherType
  <2>2. queue' = [queue EXCEPT ![m] = @ + 1] /\ UNCHANGED parked
    BY <1>3, <2>1 DEF Enqueue
  <2>3. InFlight(x) /\ InFlight(x)'
    BY <1>3, <2>1, <2>2, Pushed DEF Enqueue, InFlight
  <2>4. OnlyIn(x)
    BY <1>3, <2>1, <2>2, Pushed, ApiLocal DEF Enqueue, TypeOK
  <2> QED BY <1>3, <2>3, <2>4, OpenAfter DEF Enqueue, Kept, GaveUp, db, history
<1>4. CASE ApiFails(x)
  <2>1. OnlyIn(x)
    BY <1>4, ApiLocal DEF ApiFails, Waiting, broker, TypeOK
  <2>2. Open' \in {Open, Open \ {x}}
    BY <1>4, <2>1, OpenAfter DEF ApiFails, InFlight
  <2>3. x \in Open /\ GaveUp' = GaveUp \cup {x}
    BY <1>4, Recorded DEF ApiFails, Open, InFlight
  <2> QED BY <1>4, <2>2, <2>3 DEF ApiFails, db, Open, GaveUp, Lifecycle!GiveUp, Lifecycle!Next
<1> QED BY <1>1, <1>2, <1>3, <1>4 DEF ApiStep

\* What a worker that keeps its task leaves alone: every message but those of
\* its own event.
LEMMA TaskLocal ==
  ASSUME TypeOK, NEW w \in Worker, NEW x \in Event, pc[w] # "idle", task[w].ev = x,
         \A v \in Worker \ {w} : pc'[v] = pc[v] /\ task'[v] = task[v],
         task'[w] = task[w] \/ pc'[w] = "idle",
         \A t \in Task : t.ev # x => (Waiting(t)' <=> Waiting(t)),
         UNCHANGED unqueued
  PROVE  OnlyIn(x)
  BY WorkerLocal DEF Working

LEMMA WorkerRefines ==
  ASSUME TypeOK, TypeOK', NEW w \in Worker, WorkerStep(w)
  PROVE  Lifecycle!Next \/ Kept
<1>1. ASSUME NEW m \in Task, Take(w, m) PROVE Kept
  <2>1. PICK x \in Event : x = m.ev
    BY TaskFields
  <2>2. pc'[w] \in Working /\ task'[w] = m /\ pc[w] = "idle"
    BY <1>1 DEF Take, TypeOK, Working
  <2>3. InFlight(x) /\ InFlight(x)'
    BY <1>1, <2>1, <2>2 DEF Take, InFlight, Waiting
  <2>4. \A t \in Task : t # m => (Waiting(t)' <=> Waiting(t))
    BY <1>1 DEF Take, Waiting, TypeOK
  <2>5. OnlyIn(x)
    <3>1. \A t \in Task : t.ev # x => (Waiting(t)' <=> Waiting(t))
      BY <2>1, <2>4
    <3>2. UNCHANGED unqueued /\ \A v \in Worker \ {w} : pc'[v] = pc[v] /\ task'[v] = task[v]
      BY <1>1 DEF Take, TypeOK, api
    <3>3. pc[w] \notin Working /\ task'[w].ev = x
      BY <2>1, <2>2 DEF Working
    <3> QED BY <3>1, <3>2, <3>3, WorkerLocal
  <2> QED BY <1>1, <2>3, <2>5, OpenAfter DEF Take, Kept, GaveUp, db, api, history
<1>2. CASE pc[w] = "idle"
  BY <1>1, <1>2 DEF WorkerStep, DispatchToNobody, Dispatch, FanOut, Admit, FailOpen, Throttle,
                    ThrottleOut, Post, Record, Retry, Ack
<1>3. CASE pc[w] # "idle"
  <2>1. PICK x \in Event : x = task[w].ev
    BY <1>3, TaskFields DEF TypeOK
  <2>2. pc[w] \in Working => InFlight(x)
    BY <2>1 DEF InFlight
  <2>3. CASE DispatchToNobody(w) \/ Record(w)
    <3>1. OnlyIn(x)
      BY <1>3, <2>1, <2>3, TaskLocal DEF DispatchToNobody, Record, Waiting, broker, api, TypeOK
    <3>2. x \in Open /\ Open' \in {Open, Open \ {x}} /\ GaveUp' = GaveUp
      BY <2>2, <2>3, <3>1, OpenAfter DEF DispatchToNobody, Record, Working, Open, GaveUp, history
    <3>3. status' = status \/ \E s \in Lifecycle!Final : status' = [status EXCEPT ![x] = s]
      BY <2>1, <2>3 DEF DispatchToNobody, Record, FinalStatus, Lifecycle!Final
    <3>4. CASE \E s \in Lifecycle!Final : status' = [status EXCEPT ![x] = s]
      BY <2>3, <3>2, <3>4 DEF DispatchToNobody, Record, api, Open, GaveUp,
                              Lifecycle!Settle, Lifecycle!Next
    <3>5. CASE Record(w) /\ pc'[w] = "retry"
      <4>1. InFlight(x)' /\ InFlight(x)
        BY <2>1, <2>2, <3>5 DEF Record, InFlight, Working
      <4>2. status' = status
        BY <3>5 DEF Record, TypeOK
      <4>3. Open' = Open
        BY <3>1, <4>1, OpenAfter
      <4> QED BY <3>2, <3>5, <4>2, <4>3 DEF Record, Kept, api
    <3>6. CASE Record(w) /\ pc'[w] # "retry"
      BY <2>1, <3>4, <3>6 DEF Record, FinalStatus, Lifecycle!Final, TypeOK
    <3>7. CASE DispatchToNobody(w)
      BY <2>1, <3>4, <3>7 DEF DispatchToNobody, Lifecycle!Final
    <3> QED BY <2>3, <3>5, <3>6, <3>7
  <2>4. CASE Dispatch(w) \/ Admit(w) \/ FailOpen(w) \/ \E o \in Outcome : Post(w, o)
    <3>1. OnlyIn(x)
      BY <1>3, <2>1, <2>4, TaskLocal
      DEF Dispatch, Admit, FailOpen, Post, Waiting, broker, api, TypeOK
    <3>2. pc[w] \in Working /\ pc'[w] \in Working /\ task' = task
      BY <2>4 DEF Dispatch, Admit, FailOpen, Post, Working, TypeOK
    <3>3. InFlight(x) /\ InFlight(x)'
      BY <2>1, <2>2, <3>2 DEF InFlight
    <3> QED BY <2>4, <3>1, <3>3, OpenAfter
            DEF Dispatch, Admit, FailOpen, Post, Kept, GaveUp, db, api, history
  <2>5. ASSUME NEW m \in Task, m.ev = x, Waiting(m)', pc[w] \in Working,
               \A t \in Task : t # m => (Waiting(t)' <=> Waiting(t)),
               UNCHANGED <<task, status, lost, api>>,
               \A v \in Worker \ {w} : pc'[v] = pc[v]
        PROVE  Kept
    <3>1. OnlyIn(x)
      BY <1>3, <2>1, <2>5, TaskLocal DEF api
    <3>2. InFlight(x) /\ InFlight(x)'
      BY <2>2, <2>5 DEF InFlight
    <3> QED BY <2>5, <3>1, <3>2, OpenAfter DEF Kept, GaveUp, api
  <2>6. ASSUME NEW ep \in Endpoint, FanOut(w, ep) PROVE Kept
    <3>1. PICK m \in Task : m = Delivery(task[w].ev, ep) /\ m.ev = x
      BY <2>1, DeliveryType
    <3>2. queue' = [queue EXCEPT ![m] = @ + 1] /\ UNCHANGED parked
      BY <2>6, <3>1 DEF FanOut
    <3> QED BY <2>5, <2>6, <3>1, <3>2, Pushed DEF FanOut, Working, TypeOK, db, history
  <2>7. CASE Throttle(w) \/ Retry(w)
    <3>1. PICK m \in DeliverTask : m = NextTry(task[w]) /\ m \in Task /\ m.ev = x
      BY <2>1, <2>7, NextTryType DEF Throttle, Retry, TypeOK
    <3>2. \/ queue' = [queue EXCEPT ![m] = @ + 1] /\ UNCHANGED parked
          \/ parked' = [parked EXCEPT ![m] = @ + 1] /\ UNCHANGED queue
      BY <2>7, <3>1 DEF Throttle, Retry
    <3>3. Waiting(m)' /\ \A t \in Task : t # m => (Waiting(t)' <=> Waiting(t))
      BY <3>1, <3>2 DEF Waiting, TypeOK
    <3> QED BY <2>5, <2>7, <3>1, <3>3 DEF Throttle, Retry, Working, TypeOK, db, history
  <2>8. CASE ThrottleOut(w)
    <3>1. OnlyIn(x)
      BY <1>3, <2>1, <2>8, TaskLocal DEF ThrottleOut, Waiting, broker, api, TypeOK
    <3>2. x \in Open /\ Open' \in {Open, Open \ {x}} /\ GaveUp' = GaveUp \cup {x}
      BY <2>1, <2>2, <2>8, <3>1, OpenAfter, Recorded DEF ThrottleOut, Working, Open
    <3> QED BY <2>8, <3>2 DEF ThrottleOut, db, api, Open, GaveUp, Lifecycle!GiveUp, Lifecycle!Next
  <2>9. CASE Ack(w)
    <3>1. \A v \in Worker : pc'[v] \in Working \/ pc[v] \in Working =>
                             pc'[v] = pc[v] /\ task'[v] = task[v]
      BY <2>9 DEF Ack, Free, TypeOK, Working
    <3>2. \A e \in Event : InFlight(e)' <=> InFlight(e)
      BY <2>9, <3>1 DEF Ack, InFlight, Waiting, broker, api
    <3> QED BY <2>9, <3>2 DEF Ack, Kept, Open, GaveUp, db, api, history
  <2> QED BY <1>1, <2>3, <2>4, <2>6, <2>7, <2>8, <2>9 DEF WorkerStep
<1> QED BY <1>2, <1>3

\* A task that dies gives work up; a crash makes the broker redeliver, also a
\* message whose work was done, of an event that is known.
LEMMA FailureRefines ==
  ASSUME TypeOK, KnownEvents, NEW w \in Worker, TaskDies(w) \/ WorkerCrash(w)
  PROVE  Lifecycle!Next \/ Kept
<1>0. pc[w] # "idle" /\ task[w] \in Task
  BY DEF TaskDies, WorkerCrash, Working, TypeOK
<1>1. PICK x \in Event : x = task[w].ev
  BY <1>0, TaskFields
<1>2. pc'[w] = "idle" /\ (\A v \in Worker \ {w} : pc'[v] = pc[v] /\ task'[v] = task[v])
  BY DEF TaskDies, WorkerCrash, Free, TypeOK
<1>3. CASE TaskDies(w)
  <2>1. OnlyIn(x)
    BY <1>0, <1>1, <1>2, <1>3, TaskLocal DEF TaskDies, Waiting, broker, api
  <2>2. x \in Open /\ Open' \in {Open, Open \ {x}}
    BY <1>1, <1>3, <2>1, OpenAfter DEF TaskDies, InFlight, Open
  <2>3. GaveUp' = GaveUp \cup {x}
    BY <1>1, <1>3, Recorded DEF TaskDies
  <2> QED BY <1>3, <2>2, <2>3 DEF TaskDies, db, api, Open, GaveUp, Lifecycle!GiveUp, Lifecycle!Next
<1>4. CASE WorkerCrash(w)
  <2>1. PICK m \in Task : m = task[w]
    BY <1>0
  <2>2. queue' = [queue EXCEPT ![m] = @ + 1] /\ UNCHANGED parked
    BY <1>4, <2>1 DEF WorkerCrash
  <2>3. Waiting(m)' /\ \A t \in Task : t # m => (Waiting(t)' <=> Waiting(t))
    BY <2>2, Pushed
  <2>4. OnlyIn(x)
    BY <1>0, <1>1, <1>2, <1>4, <2>1, <2>3, TaskLocal DEF WorkerCrash, api
  <2>5. Open' = Open \cup {x}
    BY <1>1, <2>1, <2>3, <2>4, OpenAfter DEF InFlight
  <2>6. status[x] # "ABSENT"
    BY <1>0, <1>1 DEF KnownEvents, Unknown
  <2>7. UNCHANGED <<status, replaying, GaveUp>>
    BY <1>4 DEF WorkerCrash, db, api, history, GaveUp
  <2> QED BY <2>5, <2>6, <2>7 DEF Open, GaveUp, Lifecycle!Redeliver, Lifecycle!Next
<1> QED BY <1>3, <1>4

LEMMA CountdownRefines ==
  ASSUME TypeOK, NEW m \in DeliverTask, CountdownElapses(m)
  PROVE  Kept
<1>1. m \in Task /\ Waiting(m) /\ Waiting(m)'
  BY TaskFields DEF CountdownElapses, Waiting, TypeOK
<1>2. \A t \in Task : Waiting(t)' <=> Waiting(t)
  BY <1>1 DEF CountdownElapses, Waiting, TypeOK
<1>3. \A e \in Event : InFlight(e)' <=> InFlight(e)
  BY <1>2 DEF CountdownElapses, InFlight, api, workers
<1> QED BY <1>3 DEF CountdownElapses, Kept, Open, GaveUp, db, api, history

LEMMA AdminRefines ==
  ASSUME NEW ep \in Endpoint, AdminStep(ep) \/ WindowExpires(ep)
  PROVE  Kept
<1>1. UNCHANGED <<status, lost, broker, api, workers>>
  BY DEF AdminStep, Register, Deactivate, WindowExpires, db, history
<1>2. \A e \in Event : InFlight(e)' <=> InFlight(e)
  BY <1>1 DEF InFlight, Waiting, broker, api, workers
<1> QED BY <1>1, <1>2 DEF Kept, Open, GaveUp, api

LEMMA StepImplements ==
  TypeOK /\ TypeOK' /\ KnownEvents /\ [Next]_vars => [Lifecycle!Next]_(Lifecycle!vars)
<1> SUFFICES ASSUME TypeOK, TypeOK', KnownEvents, [Next]_vars PROVE Lifecycle!Next \/ Kept
  BY KeptStutters
<1>1. CASE UNCHANGED vars
  <2>1. \A e \in Event : InFlight(e)' <=> InFlight(e)
    BY <1>1 DEF vars, InFlight, Waiting, broker, api, workers
  <2> QED BY <1>1, <2>1 DEF vars, Kept, Open, GaveUp, db, api, history
<1> QED BY <1>1, ApiRefines, AdminRefines, CountdownRefines, WorkerRefines, FailureRefines DEF Next

\* The pipeline, with its queues, workers, retries, deferrals, crashes and
\* replays, implements the lifecycle of an event.
THEOREM RefinesLifecycle == Spec => ImplementsLifecycle
<1>1. Init => KnownEvents /\ Lifecycle!Init
  <2> SUFFICES ASSUME Init PROVE KnownEvents /\ Lifecycle!Init
    OBVIOUS
  <2>1. \A t \in Task : ~Waiting(t)
    BY DEF Init, Waiting
  <2>2. \A e \in Event : ~InFlight(e)
    BY <2>1 DEF Init, InFlight, Working
  <2> QED BY <2>1, <2>2 DEF Init, KnownEvents, Unknown, Lifecycle!Init
<1> QED BY <1>1, TypeInit, TypeNext, KnownNext, StepImplements, PTL
        DEF Spec, ImplementsLifecycle, Lifecycle!Spec

=============================================================================
