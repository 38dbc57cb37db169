------------------------------ MODULE Delivery ------------------------------
(***************************************************************************)
(* The delivery pipeline of the webhook engine: the API handlers that       *)
(* commit an event and push its dispatcher task, the Celery broker with     *)
(* acks_late, the dispatcher that fans out one task per active endpoint,    *)
(* the per-endpoint worker (read, rate-limit gate, POST, record, retry),    *)
(* manual replay of failed events, and the failures between any two steps.  *)
(*                                                                          *)
(* Sources: app/tasks/delivery.py, app/api/v1/events.py, app/api/v1/dlq.py, *)
(* app/core/celery_app.py, app/core/rate_limiter.py, app/models/event.py.   *)
(***************************************************************************)
EXTENDS Naturals, FiniteSets

CONSTANTS
  Event,        \* events a client may post
  Endpoint,     \* webhook endpoints that may be registered
  Worker,       \* Celery worker slots (docker-compose: --concurrency=2)
  NoTask,       \* what an idle worker holds
  MaxRetries,   \* max_retries of deliver_to_endpoint_task (4 in the code)
  RateLimit,    \* RATE_LIMIT_MAX
  MaxReplays,   \* bound: replay requests per event
  MaxCrashes,   \* bound: worker crashes that re-queue a task
  MaxAdmin      \* bound: registrations and deactivations of endpoints

ASSUME RetriesAssumption == MaxRetries \in Nat
ASSUME LimitAssumption   == RateLimit \in Nat \ {0}
ASSUME BoundsAssumption  == MaxReplays \in Nat /\ MaxCrashes \in Nat /\ MaxAdmin \in Nat

-----------------------------------------------------------------------------
(* Messages, outcomes and statuses.                                         *)

DispatchTask == [kind : {"dispatch"}, ev : Event]
DeliverTask  == [kind : {"deliver"}, ev : Event, ep : Endpoint,
                 retries : 0 .. MaxRetries]
Task         == DispatchTask \cup DeliverTask

ASSUME NoTaskAssumption == NoTask \notin Task

Dispatcher(e)   == [kind |-> "dispatch", ev |-> e]
Delivery(e, ep) == [kind |-> "deliver", ev |-> e, ep |-> ep, retries |-> 0]

Outcome == {"success", "client_error", "transient_error"}

Attempt == [ev : Event, ep : Endpoint, number : 1 .. MaxRetries + 1, outcome : Outcome]

EventStatus == {"PENDING", "DELIVERED", "FAILED", "DEAD_LETTER"}
Replayable  == {"DEAD_LETTER", "FAILED"}

\* Where a task was given up without its work being done: by the API process
\* between its commit and its push, by a task that raised or whose process
\* died, by a throttled task that had no retry left.
LossCause == {"api", "task", "throttle"}

-----------------------------------------------------------------------------
VARIABLES
  status,     \* event.status; "ABSENT" before the row is committed
  active,     \* endpoints with is_active
  attempts,   \* delivery_attempt rows, a bag
  queue,      \* messages a worker may take now, a bag
  parked,     \* throttled messages waiting for their countdown, a bag
  used,       \* the rate-limit counter of the current window (saturated)
  unqueued,   \* API requests that committed PENDING and did not push yet
  replaying,  \* replay requests that read a replayable status and did not commit yet
  pc, task, todo, outcome,                    \* the worker slots
  \* History, read by the properties and the bounds only.
  owed,       \* endpoints a dispatcher of the event read as active
  dropped,    \* endpoints for which a delivery of the event was given up, or that
              \* were not active any more when a dispatcher read them again
  deferred,   \* messages that were throttled and pushed again
  acked,      \* number of 2xx answers received, per event and endpoint
  lost,       \* causes for which work of the event was given up
  replays, crashes, adminOps

db      == <<status, active, attempts>>
broker  == <<queue, parked>>
api     == <<unqueued, replaying>>
workers == <<pc, task, todo, outcome>>
history == <<owed, dropped, deferred, acked, lost>>
bounds  == <<replays, crashes, adminOps>>
vars    == <<db, broker, used, api, workers, history, bounds>>

\* Phases in which a worker still has something to do for its task.
Working == {"dispatch", "fanout", "gate", "post", "write", "retry"}

TypeOK ==
  /\ status    \in [Event -> EventStatus \cup {"ABSENT"}]
  /\ active    \in SUBSET Endpoint
  /\ attempts  \in [Attempt -> Nat]
  /\ queue     \in [Task -> Nat]
  /\ parked    \in [DeliverTask -> Nat]
  /\ used      \in [Endpoint -> 0 .. RateLimit]
  /\ unqueued  \in [Event -> Nat]
  /\ replaying \in [Event -> Nat]
  /\ pc        \in [Worker -> Working \cup {"idle", "ack"}]
  /\ task      \in [Worker -> Task \cup {NoTask}]
  /\ todo      \in [Worker -> SUBSET Endpoint]
  /\ outcome   \in [Worker -> Outcome]
  /\ owed      \in [Event -> SUBSET Endpoint]
  /\ dropped   \in [Event -> SUBSET Endpoint]
  /\ deferred  \in SUBSET DeliverTask
  /\ acked     \in [Event -> [Endpoint -> Nat]]
  /\ lost      \in [Event -> SUBSET LossCause]
  /\ replays   \in [Event -> 0 .. MaxReplays]
  /\ crashes   \in 0 .. MaxCrashes
  /\ adminOps  \in 0 .. MaxAdmin
  /\ \A w \in Worker :
       /\ pc[w] = "idle" <=> task[w] = NoTask
       /\ pc[w] \in {"dispatch", "fanout"} => task[w] \in DispatchTask
       /\ pc[w] \in {"gate", "post", "write", "retry"} => task[w] \in DeliverTask
       /\ pc[w] = "retry" => task[w].retries < MaxRetries

Init ==
  /\ status    = [e \in Event |-> "ABSENT"]
  /\ active    \in SUBSET Endpoint
  /\ attempts  = [a \in Attempt |-> 0]
  /\ queue     = [t \in Task |-> 0]
  /\ parked    = [t \in DeliverTask |-> 0]
  /\ used      = [ep \in Endpoint |-> 0]
  /\ unqueued  = [e \in Event |-> 0]
  /\ replaying = [e \in Event |-> 0]
  /\ pc        = [w \in Worker |-> "idle"]
  /\ task      = [w \in Worker |-> NoTask]
  /\ todo      = [w \in Worker |-> {}]
  /\ outcome   = [w \in Worker |-> "transient_error"]
  /\ owed      = [e \in Event |-> {}]
  /\ dropped   = [e \in Event |-> {}]
  /\ deferred  = {}
  /\ acked     = [e \in Event |-> [ep \in Endpoint |-> 0]]
  /\ lost      = [e \in Event |-> {}]
  /\ replays   = [e \in Event |-> 0]
  /\ crashes   = 0
  /\ adminOps  = 0

-----------------------------------------------------------------------------
(* The API process.                                                         *)

\* dispatch_event: the insert of a new key and its commit.
Ingest(e) ==
  /\ status[e] = "ABSENT"
  /\ status'   = [status EXCEPT ![e] = "PENDING"]
  /\ unqueued' = [unqueued EXCEPT ![e] = @ + 1]
  /\ UNCHANGED <<active, attempts, broker, used, replaying, workers, history, bounds>>

\* Faulty variant: the eligibility gate is missing.
ReplayReadAny(e) ==
  /\ status[e] # "ABSENT"
  /\ replays[e] < MaxReplays
  /\ replays'   = [replays EXCEPT ![e] = @ + 1]
  /\ replaying' = [replaying EXCEPT ![e] = @ + 1]
  /\ UNCHANGED <<db, broker, used, unqueued, workers, history, crashes, adminOps>>

\* replay_event: db.get and the eligibility gate.
ReplayRead(e) ==
  /\ status[e] \in Replayable
  /\ replays[e] < MaxReplays
  /\ replays'   = [replays EXCEPT ![e] = @ + 1]
  /\ replaying' = [replaying EXCEPT ![e] = @ + 1]
  /\ UNCHANGED <<db, broker, used, unqueued, workers, history, crashes, adminOps>>

\* Faulty variant: the replay pushes no task.
ReplayCommitOnly(e) ==
  /\ replaying[e] > 0
  /\ replaying' = [replaying EXCEPT ![e] = @ - 1]
  /\ status'    = [status EXCEPT ![e] = "PENDING"]
  /\ UNCHANGED <<active, attempts, broker, used, unqueued, workers, history, bounds>>

\* replay_event: the status reset and its commit. Nothing locks the row or
\* reads it again, so the reset overwrites whatever was committed meanwhile.
ReplayCommit(e) ==
  /\ replaying[e] > 0
  /\ replaying' = [replaying EXCEPT ![e] = @ - 1]
  /\ status'    = [status EXCEPT ![e] = "PENDING"]
  /\ unqueued'  = [unqueued EXCEPT ![e] = @ + 1]
  /\ UNCHANGED <<active, attempts, broker, used, workers, history, bounds>>

\* deliver_webhook_task.delay, after either commit.
Enqueue(e) ==
  /\ unqueued[e] > 0
  /\ unqueued' = [unqueued EXCEPT ![e] = @ - 1]
  /\ queue'    = [queue EXCEPT ![Dispatcher(e)] = @ + 1]
  /\ UNCHANGED <<db, parked, used, replaying, workers, history, bounds>>

\* The API process dies, or the broker refuses the push, after the commit.
ApiFails(e) ==
  /\ unqueued[e] > 0
  /\ unqueued' = [unqueued EXCEPT ![e] = @ - 1]
  /\ lost'     = [lost EXCEPT ![e] = @ \cup {"api"}]
  /\ UNCHANGED <<db, broker, used, replaying, workers, owed, dropped, deferred, acked, bounds>>

-----------------------------------------------------------------------------
(* Endpoint administration: POST /endpoints, and the direct SQL the scripts *)
(* use to deactivate one. What a dispatcher read before is delivered.        *)

Register(ep) ==
  /\ ep \notin active
  /\ adminOps < MaxAdmin
  /\ active'   = active \cup {ep}
  /\ adminOps' = adminOps + 1
  /\ UNCHANGED <<status, attempts, broker, used, api, workers, history, replays, crashes>>

Deactivate(ep) ==
  /\ ep \in active
  /\ adminOps < MaxAdmin
  /\ active'   = active \ {ep}
  /\ adminOps' = adminOps + 1
  /\ UNCHANGED <<status, attempts, broker, used, api, workers, history, replays, crashes>>

-----------------------------------------------------------------------------
(* The broker and the worker slots.                                         *)

\* A free slot receives a message; it stays unacknowledged until Ack.
\* Phase A of deliver_to_endpoint_task reads only columns nothing here
\* changes, so it is part of this step.
Take(w, t) ==
  /\ pc[w] = "idle"
  /\ queue[t] > 0
  /\ queue' = [queue EXCEPT ![t] = @ - 1]
  /\ task'  = [task EXCEPT ![w] = t]
  /\ pc'    = [pc EXCEPT ![w] = IF t.kind = "dispatch" THEN "dispatch" ELSE "gate"]
  /\ UNCHANGED <<db, parked, used, api, todo, outcome, history, bounds>>

\* Faulty variant: the endpoints are not asked for.
DispatchToNobodyAlways(w) ==
  /\ pc[w] = "dispatch"
  /\ status' = [status EXCEPT ![task[w].ev] = "DELIVERED"]
  /\ pc'     = [pc EXCEPT ![w] = "ack"]
  /\ UNCHANGED <<active, attempts, broker, used, api, task, todo, outcome, history, bounds>>

\* The dispatcher finds no active endpoint and marks the event DELIVERED.
DispatchToNobody(w) ==
  /\ pc[w] = "dispatch"
  /\ active = {}
  /\ status'  = [status EXCEPT ![task[w].ev] = "DELIVERED"]
  /\ pc'      = [pc EXCEPT ![w] = "ack"]
  /\ dropped' = [dropped EXCEPT ![task[w].ev] = @ \cup owed[task[w].ev]]
  /\ UNCHANGED <<active, attempts, broker, used, api, task, todo, outcome, owed, deferred,
                 acked, lost, bounds>>

\* The dispatcher reads the ids of the active endpoints, once; when its message
\* is delivered again, or the event is replayed, they are read anew.
Dispatch(w) ==
  /\ pc[w] = "dispatch"
  /\ active # {}
  /\ todo' = [todo EXCEPT ![w] = active]
  /\ pc'   = [pc EXCEPT ![w] = "fanout"]
  /\ owed' = [owed EXCEPT ![task[w].ev] = @ \cup active]
  /\ dropped' = [dropped EXCEPT ![task[w].ev] = @ \cup (owed[task[w].ev] \ active)]
  /\ UNCHANGED <<db, broker, used, api, task, outcome, deferred, acked, lost, bounds>>

\* Faulty variant: the loop asks again whether the endpoint is active.
FanOutIfActive(w, ep) ==
  /\ pc[w] = "fanout"
  /\ ep \in todo[w]
  /\ queue' = IF ep \in active THEN [queue EXCEPT ![Delivery(task[w].ev, ep)] = @ + 1]
              ELSE queue
  /\ todo'  = [todo EXCEPT ![w] = @ \ {ep}]
  /\ pc'    = [pc EXCEPT ![w] = IF todo[w] = {ep} THEN "ack" ELSE "fanout"]
  /\ UNCHANGED <<db, parked, used, api, task, outcome, history, bounds>>

\* Faulty variant: the loop returns after its first push.
FanOutFirstOnly(w, ep) ==
  /\ pc[w] = "fanout"
  /\ ep \in todo[w]
  /\ queue' = [queue EXCEPT ![Delivery(task[w].ev, ep)] = @ + 1]
  /\ todo'  = [todo EXCEPT ![w] = {}]
  /\ pc'    = [pc EXCEPT ![w] = "ack"]
  /\ UNCHANGED <<db, parked, used, api, task, outcome, history, bounds>>

\* One iteration of the fan-out loop.
FanOut(w, ep) ==
  /\ pc[w] = "fanout"
  /\ ep \in todo[w]
  /\ queue' = [queue EXCEPT ![Delivery(task[w].ev, ep)] = @ + 1]
  /\ todo'  = [todo EXCEPT ![w] = @ \ {ep}]
  /\ pc'    = [pc EXCEPT ![w] = IF todo[w] = {ep} THEN "ack" ELSE "fanout"]
  /\ UNCHANGED <<db, parked, used, api, task, outcome, history, bounds>>

\* The gate admits: INCR stayed within the limit.
Admit(w) ==
  /\ pc[w] = "gate"
  /\ used[task[w].ep] < RateLimit
  /\ used' = [used EXCEPT ![task[w].ep] = @ + 1]
  /\ pc'   = [pc EXCEPT ![w] = "post"]
  /\ UNCHANGED <<db, broker, api, task, todo, outcome, history, bounds>>

\* The Redis call fails and the limiter fails open.
FailOpen(w) ==
  /\ pc[w] = "gate"
  /\ pc' = [pc EXCEPT ![w] = "post"]
  /\ UNCHANGED <<db, broker, used, api, task, todo, outcome, history, bounds>>

\* What Task.retry pushes: the same message, request.retries one higher.
NextTry(t) == [t EXCEPT !.retries = @ + 1]

\* The gate rejects: self.retry(countdown=window, max_retries=None). To
\* Celery None means the task's own max_retries, and every retry counts.
Throttle(w) ==
  /\ pc[w] = "gate"
  /\ used[task[w].ep] = RateLimit
  /\ task[w].retries < MaxRetries
  /\ parked'   = [parked EXCEPT ![NextTry(task[w])] = @ + 1]
  /\ deferred' = deferred \cup {task[w]}
  /\ pc'       = [pc EXCEPT ![w] = "ack"]
  /\ UNCHANGED <<db, queue, used, api, task, todo, outcome, owed, dropped, acked, lost,
                 bounds>>

\* The same call with no retry left raises RateLimitExceeded: the task fails.
ThrottleOut(w) ==
  /\ pc[w] = "gate"
  /\ used[task[w].ep] = RateLimit
  /\ task[w].retries >= MaxRetries
  /\ lost'    = [lost EXCEPT ![task[w].ev] = @ \cup {"throttle"}]
  /\ dropped' = [dropped EXCEPT ![task[w].ev] = @ \cup {task[w].ep}]
  /\ pc'      = [pc EXCEPT ![w] = "ack"]
  /\ UNCHANGED <<db, broker, used, api, task, todo, outcome, owed, deferred, acked, bounds>>

\* Phase B: the POST and the classification of its answer.
Post(w, o) ==
  /\ pc[w] = "post"
  /\ outcome' = [outcome EXCEPT ![w] = o]
  /\ acked'   = IF o = "success"
                THEN [acked EXCEPT ![task[w].ev][task[w].ep] = @ + 1]
                ELSE acked
  /\ pc'      = [pc EXCEPT ![w] = "write"]
  /\ UNCHANGED <<db, broker, used, api, task, todo, owed, dropped, deferred, lost, bounds>>

RetriesExhausted(w) == outcome[w] = "transient_error" /\ task[w].retries >= MaxRetries

\* Faulty variant: an exhausted delivery is FAILED, as before DEAD_LETTER existed.
FinalStatusTwoWay(w) == IF outcome[w] = "success" THEN "DELIVERED" ELSE "FAILED"

FinalStatus(w) ==
  IF outcome[w] = "success" THEN "DELIVERED"
  ELSE IF outcome[w] = "client_error" THEN "FAILED" ELSE "DEAD_LETTER"

Row(w) == [ev |-> task[w].ev, ep |-> task[w].ep,
           number |-> task[w].retries + 1, outcome |-> outcome[w]]

\* Faulty variant: the row is written for terminal attempts only.
RecordTerminalOnly(w) ==
  LET terminal == outcome[w] # "transient_error" \/ RetriesExhausted(w)
  IN  /\ pc[w] = "write"
      /\ attempts' = IF terminal THEN [attempts EXCEPT ![Row(w)] = @ + 1] ELSE attempts
      /\ status'   = IF terminal
                     THEN [status EXCEPT ![task[w].ev] = FinalStatus(w)]
                     ELSE status
      /\ pc'       = [pc EXCEPT ![w] = IF terminal THEN "ack" ELSE "retry"]
      /\ UNCHANGED <<active, broker, used, api, task, todo, outcome, history, bounds>>

\* Faulty variant: a success is retried like a transient error.
RecordRetriesSuccess(w) ==
  LET terminal == outcome[w] = "client_error" \/ task[w].retries >= MaxRetries
  IN  /\ pc[w] = "write"
      /\ attempts' = [attempts EXCEPT ![Row(w)] = @ + 1]
      /\ status'   = IF terminal
                     THEN [status EXCEPT ![task[w].ev] = FinalStatus(w)]
                     ELSE status
      /\ pc'       = [pc EXCEPT ![w] = IF terminal THEN "ack" ELSE "retry"]
      /\ UNCHANGED <<active, broker, used, api, task, todo, outcome, history, bounds>>

\* Faulty variant: the update of the status names no event.
RecordEverywhere(w) ==
  LET terminal == outcome[w] # "transient_error" \/ RetriesExhausted(w)
  IN  /\ pc[w] = "write"
      /\ attempts' = [attempts EXCEPT ![Row(w)] = @ + 1]
      /\ status'   = [e \in Event |-> IF terminal /\ status[e] # "ABSENT"
                                     THEN FinalStatus(w) ELSE status[e]]
      /\ pc'       = [pc EXCEPT ![w] = IF terminal THEN "ack" ELSE "retry"]
      /\ UNCHANGED <<active, broker, used, api, task, todo, outcome, history, bounds>>

\* Phase C: the attempt row and, when terminal, the status, in one commit.
Record(w) ==
  LET terminal == outcome[w] # "transient_error" \/ RetriesExhausted(w)
  IN  /\ pc[w] = "write"
      /\ attempts' = [attempts EXCEPT ![Row(w)] = @ + 1]
      /\ status'   = IF terminal
                     THEN [status EXCEPT ![task[w].ev] = FinalStatus(w)]
                     ELSE status
      /\ pc'       = [pc EXCEPT ![w] = IF terminal THEN "ack" ELSE "retry"]
      /\ UNCHANGED <<active, broker, used, api, task, todo, outcome, history, bounds>>

\* Faulty variant: the task ends without its retry.
RetryForgotten(w) ==
  /\ pc[w] = "retry"
  /\ pc' = [pc EXCEPT ![w] = "ack"]
  /\ UNCHANGED <<db, broker, used, api, task, todo, outcome, history, bounds>>

\* self.retry(countdown=backoff): pushed while this message is unacknowledged.
Retry(w) ==
  /\ pc[w] = "retry"
  /\ queue' = [queue EXCEPT ![NextTry(task[w])] = @ + 1]
  /\ pc'    = [pc EXCEPT ![w] = "ack"]
  /\ UNCHANGED <<db, parked, used, api, task, todo, outcome, history, bounds>>

\* Faulty variant: the slot keeps the message it acknowledged.
FreeKeepsTask(w) ==
  /\ pc'      = [pc EXCEPT ![w] = "idle"]
  /\ todo'    = [todo EXCEPT ![w] = {}]
  /\ outcome' = [outcome EXCEPT ![w] = "transient_error"]
  /\ UNCHANGED task

Free(w) ==
  /\ pc'      = [pc EXCEPT ![w] = "idle"]
  /\ task'    = [task EXCEPT ![w] = NoTask]
  /\ todo'    = [todo EXCEPT ![w] = {}]
  /\ outcome' = [outcome EXCEPT ![w] = "transient_error"]

\* task_acks_late: the message is acknowledged when the task has ended.
Ack(w) ==
  /\ pc[w] = "ack"
  /\ Free(w)
  /\ UNCHANGED <<db, broker, used, api, history, bounds>>

\* The endpoints that lose a delivery when the task of a worker ends here.
Undone(w) ==
  CASE pc[w] = "dispatch" -> active \cup owed[task[w].ev]
    [] pc[w] = "fanout"   -> todo[w]
    [] OTHER              -> {task[w].ep}

\* An exception other than a retry (database, broker, unexpected) ends the
\* task, or its pool process dies; either way the message is acknowledged.
TaskDies(w) ==
  /\ pc[w] \in Working
  /\ Free(w)
  /\ lost'    = [lost EXCEPT ![task[w].ev] = @ \cup {"task"}]
  /\ dropped' = [dropped EXCEPT ![task[w].ev] = @ \cup Undone(w)]
  /\ UNCHANGED <<db, broker, used, api, owed, deferred, acked, bounds>>

\* Faulty variant: messages are acknowledged when they are received.
WorkerCrashEarlyAck(w) ==
  /\ pc[w] # "idle"
  /\ crashes < MaxCrashes
  /\ crashes' = crashes + 1
  /\ Free(w)
  /\ UNCHANGED <<db, broker, used, api, history, replays, adminOps>>

\* The worker crashes: the broker delivers the unacknowledged message again.
WorkerCrash(w) ==
  /\ pc[w] # "idle"
  /\ crashes < MaxCrashes
  /\ crashes' = crashes + 1
  /\ queue'   = [queue EXCEPT ![task[w]] = @ + 1]
  /\ Free(w)
  /\ UNCHANGED <<db, parked, used, api, history, replays, adminOps>>

\* The countdown of a throttled message is the length of the window, so the
\* window that rejected it is over when it elapses.
CountdownElapses(t) ==
  /\ parked[t] > 0
  /\ used[t.ep] < RateLimit
  /\ parked' = [parked EXCEPT ![t] = @ - 1]
  /\ queue'  = [queue EXCEPT ![t] = @ + 1]
  /\ UNCHANGED <<db, used, api, workers, history, bounds>>

\* The key of the window expires in Redis.
WindowExpires(ep) ==
  /\ used[ep] > 0
  /\ used' = [used EXCEPT ![ep] = 0]
  /\ UNCHANGED <<db, broker, api, workers, history, bounds>>

-----------------------------------------------------------------------------
ApiStep(e) == Ingest(e) \/ ReplayRead(e) \/ ReplayCommit(e) \/ Enqueue(e) \/ ApiFails(e)

AdminStep(ep) == Register(ep) \/ Deactivate(ep)

WorkerStep(w) ==
  \/ \E t \in Task : Take(w, t)
  \/ DispatchToNobody(w)
  \/ Dispatch(w)
  \/ \E ep \in Endpoint : FanOut(w, ep)
  \/ Admit(w)
  \/ FailOpen(w)
  \/ Throttle(w)
  \/ ThrottleOut(w)
  \/ \E o \in Outcome : Post(w, o)
  \/ Record(w)
  \/ Retry(w)
  \/ Ack(w)

Next ==
  \/ \E e \in Event : ApiStep(e)
  \/ \E ep \in Endpoint : AdminStep(ep) \/ WindowExpires(ep)
  \/ \E t \in DeliverTask : CountdownElapses(t)
  \/ \E w \in Worker : WorkerStep(w) \/ TaskDies(w) \/ WorkerCrash(w)

Spec == Init /\ [][Next]_vars

\* The API coroutine goes on after its commit, a worker goes on with what it
\* took and takes more, keys expire and countdowns elapse. Nothing is assumed
\* of clients, operators, endpoints' answers or failures.
Fairness ==
  /\ \A e \in Event : WF_vars(Enqueue(e))
  /\ \A w \in Worker : WF_vars(WorkerStep(w))
  /\ \A ep \in Endpoint : WF_vars(WindowExpires(ep))
  /\ \A t \in DeliverTask : WF_vars(CountdownElapses(t))

FairSpec == Spec /\ Fairness

-----------------------------------------------------------------------------
(* What is still under way.                                                 *)

Waiting(t) == queue[t] > 0 \/ (t \in DeliverTask /\ parked[t] > 0)

\* Some message, worker or API request still has work to do for the event.
InFlight(e) ==
  \/ unqueued[e] > 0
  \/ \E t \in Task : t.ev = e /\ Waiting(t)
  \/ \E w \in Worker : pc[w] \in Working /\ task[w].ev = e

\* The same, for the delivery to one endpoint.
InFlightTo(e, ep) ==
  \/ queue[Dispatcher(e)] > 0
  \/ \E t \in DeliverTask : t.ev = e /\ t.ep = ep /\ Waiting(t)
  \/ \E w \in Worker :
       /\ pc[w] \in Working
       /\ task[w].ev = e
       /\ \/ pc[w] = "dispatch"
          \/ pc[w] = "fanout" /\ ep \in todo[w]
          \/ pc[w] \in {"gate", "post", "write", "retry"} /\ task[w].ep = ep

-----------------------------------------------------------------------------
(* Safety.                                                                  *)

\* A PENDING event is being worked on, unless its work was given up at one of
\* the three places of LossCause: no interleaving of fan-out, retries,
\* deferrals, crashes and replays strands it silently.
NoSilentStranding ==
  \A e \in Event : status[e] = "PENDING" => InFlight(e) \/ lost[e] # {}

Terminal(a) == a.outcome # "transient_error" \/ a.number = MaxRetries + 1

Answered(e, ep) ==
  \E a \in Attempt : a.ev = e /\ a.ep = ep /\ Terminal(a) /\ attempts[a] > 0

\* Fan-out and retry lose no endpoint: each endpoint a dispatcher read as
\* active has a terminal attempt row, or its delivery is under way, or was
\* itself given up. What is given up for one endpoint excuses no other, and
\* one that is deactivated meanwhile gets its delivery all the same, unless
\* the dispatcher had to read the endpoints again.
EveryTargetAnswered ==
  \A e \in Event : \A ep \in owed[e] :
    Answered(e, ep) \/ InFlightTo(e, ep) \/ ep \in dropped[e]

\* The status of an event tells no lie about its audit trail: FAILED needs a
\* rejected attempt, DEAD_LETTER an attempt that failed with the last retry.
StatusHasEvidence ==
  \A e \in Event :
    /\ status[e] = "FAILED" =>
         \E a \in Attempt : a.ev = e /\ a.outcome = "client_error" /\ attempts[a] > 0
    /\ status[e] = "DEAD_LETTER" =>
         \E a \in Attempt : /\ a.ev = e /\ a.outcome = "transient_error"
                            /\ a.number = MaxRetries + 1 /\ attempts[a] > 0

Tried(e, ep, n) ==
  \/ \E a \in Attempt : a.ev = e /\ a.ep = ep /\ a.number = n /\ attempts[a] > 0
  \/ \E t \in deferred : t.ev = e /\ t.ep = ep /\ t.retries + 1 = n

\* Attempt numbers have no gap: below every recorded number each smaller one
\* was recorded or was spent on a deferral by the rate limiter.
NoGapInAttempts ==
  \A a \in Attempt : attempts[a] > 0 =>
    \A n \in 1 .. a.number - 1 : Tried(a.ev, a.ep, n)

\* Repeated successes come from replays and worker crashes only: an endpoint
\* answers 2xx at most once for each fan-out they can cause. Only an answer
\* that reaches the worker counts; one that comes after the HTTP timeout is a
\* transient error to it, and is retried.
DuplicatesAreCaused ==
  \A e \in Event, ep \in Endpoint : acked[e][ep] <= 1 + replays[e] + crashes

-----------------------------------------------------------------------------
(* Action properties.                                                       *)

\* Nothing is left to do for the event, no replay of it was found eligible, and
\* no worker holds a message of it that a crash would bring back.
AtRest(e) ==
  /\ status[e] # "ABSENT"
  /\ ~InFlight(e)
  /\ replaying[e] = 0
  /\ \A w \in Worker : pc[w] = "idle" \/ task[w].ev # e

\* An event at rest stays at rest, with its status and its audit trail, until
\* somebody replays it. No step leads out of that but a replay, so it holds for
\* good: whatever is retried, deferred, crashes or is replayed for the other
\* events, and however often its own tasks were delivered before.
SettledIsStable ==
  [][\A e \in Event : AtRest(e) /\ replays'[e] = replays[e] =>
       /\ AtRest(e)'
       /\ status'[e] = status[e]
       /\ \A a \in Attempt : a.ev = e => attempts'[a] = attempts[a]]_vars

-----------------------------------------------------------------------------
(* Refinement.                                                              *)

Lifecycle == INSTANCE EventLifecycle WITH
  open  <- {e \in Event : InFlight(e)},
  lost  <- {e \in Event : lost[e] # {}},
  asked <- replaying

\* The pipeline implements the lifecycle of an event: every step of a queue,
\* a worker, a handler or a failure is a step of EventLifecycle or a stutter.
ImplementsLifecycle == Lifecycle!Spec

-----------------------------------------------------------------------------
(* Liveness.                                                                *)

\* A PENDING event gets a final status, unless its work was given up.
EventuallySettles ==
  \A e \in Event : status[e] = "PENDING" ~> (status[e] # "PENDING" \/ lost[e] # {})

\* Every endpoint the fan-out reads gets a terminal attempt, also one that is
\* deactivated meanwhile, unless its own delivery was given up.
TargetsEventuallyAnswered ==
  \A e \in Event, ep \in Endpoint :
    ep \in owed[e] ~> (Answered(e, ep) \/ ep \in dropped[e])

-----------------------------------------------------------------------------
(* Statements of the repository's documents that the code contradicts.      *)

\* docs/PHASE_6_DLQ_REPLAY.md, state descriptions: DELIVERED, "At least one
\* endpoint returned 2xx", is terminal.
DeliveredIsTerminal ==
  [][\A e \in Event : status[e] = "DELIVERED" => status'[e] = "DELIVERED"]_vars

\* delivery.py: a throttled event "stays PENDING - it will be retried after the
\* window expires". So an event whose work was given up nowhere else is still
\* under way while it is PENDING.
ThrottledIsNotDropped ==
  \A e \in Event :
    status[e] = "PENDING" /\ lost[e] \subseteq {"throttle"} => InFlight(e)

\* delivery.py: deferrals do "NOT count against the network-failure retry
\* budget", which is "1 initial attempt + 4 retries = 5 total attempts". A
\* dead-lettered event therefore has that many rows for one endpoint.
DeadLetterAfterFullBudget ==
  \A e \in Event : status[e] = "DEAD_LETTER" =>
    \E ep \in Endpoint : \A n \in 1 .. MaxRetries + 1 :
      \E a \in Attempt : a.ev = e /\ a.ep = ep /\ a.number = n /\ attempts[a] > 0
=============================================================================
