# Verification of the webhook engine

TLA+ specifications of the webhook engine, the TLC configurations that check
them on small instances, and TLAPS proofs of their main invariants. Paths are
relative to the root of the repository.

## 1. The system

A client posts an event with an idempotency key. The API stores it, pushes a
dispatcher task to Celery (Redis) and answers 202. The dispatcher pushes one
delivery task per active endpoint. A delivery task reads the event, passes the
rate limiter, posts to the endpoint, records the attempt and the status of the
event, and retries with backoff after a transient error. Events that failed can
be replayed by an operator.

| Component | Keeps | Operations | Talks to |
|---|---|---|---|
| Ingestion, `app/api/v1/events.py` | a row per idempotency key, one transaction per request | select, insert on conflict, fallback select, commit, push | PostgreSQL (unique index), broker |
| Dispatcher, `deliver_webhook_task` | nothing between runs | read endpoints, push per endpoint, mark DELIVERED if there is none | PostgreSQL, broker |
| Delivery task, `deliver_to_endpoint_task` | the retry count in its message | read, gate, POST, record, retry, defer | PostgreSQL, Redis, endpoint, broker |
| Rate limiter, `app/core/rate_limiter.py` | a counter with a time to live per endpoint | Lua script, fail open | Redis |
| Replay, `app/api/v1/dlq.py` | nothing | read and gate, reset and commit, push | PostgreSQL, broker |
| Broker, `app/core/celery_app.py` | queued and unacknowledged messages | deliver, acknowledge late, redeliver after a crash | workers |
| Tables, `app/models` | status of an event, attempt rows, active endpoints | | |
| Endpoint registry, `app/api/v1/endpoints.py` | active endpoints | flush, answer, commit by `get_db`; list | PostgreSQL |
| DLQ listing, `app/api/v1/dlq.py` | nothing | count, page, attempts and last attempt of each event | PostgreSQL |
| Backoff, `app/core/retry.py` | nothing | draw a countdown | delivery task |
| Signing, `app/core/security.py` | nothing | sign, verify | delivery task, secure receiver |
| Mock receivers, `app/api/v1/mock.py` | the counter of the flaky receiver | answer | delivery tasks |
| Verification suites, `scripts/verify_*.py` | the events posted, what was read of them | deactivate, register, post, poll, assert | API, PostgreSQL, Redis |
| Load test and benchmark, `scripts/load_test.py`, `scripts/benchmark_async.py` | the same | post in a burst or one by one, poll, compare | API, PostgreSQL |

**What is hard here.** Several tasks of one event, and tasks of several events,
run in any order and write the same status and the same counter. Nothing is one
step: the API commits and then pushes, a worker posts, then commits, then
pushes its retry, then acknowledges; the process may die or the next call may
fail at each of these points, and with `task_acks_late` a message whose work is
done may come again. A replay reads a status, and later overwrites whatever the
status is by then. Requests with one key race on a unique index. A deferral by
the rate limiter is, to Celery, a retry. The DLQ listing and the polls of the
scripts read related rows in several statements while all this goes on, the
pages of the listing are offsets into a set that changes, and the scripts start
on whatever endpoints and tasks the run before them left.

**What makes it correct.**

- *Ingestion*: one key, one event, one task; tasks and answers name committed
  rows; the loser of a race finds the winner; nobody waits forever.
- *Pipeline*: a PENDING event is being worked on or its work was given up at a
  known place; every endpoint the fan-out read is answered; the status and the
  attempt rows agree; repeated deliveries have a cause; an event at rest stays at
  rest until it is replayed; work ends.
- *Limiter*: at most the limit in a window, at most twice the limit in any
  interval; a deferred task does not come back to the window that rejected it.
- *Registry*: an endpoint that was answered 201 and committed before an event
  was posted is read by the dispatcher of the event.
- *Listing*: each item shows a final attempt, the last of its chain; a scan
  misses only events that another one shifted, or that were created at the
  same time as another.
- *Clocks*: signatures do not go stale between signing and checking, whatever
  the task waited for before.
- *Scripts*: a PASS says something that stays true, a FAIL has a cause.

`PROJECT.json` lists the hazards at their lines, with the properties for each.

## 2. Modules

| Module | Models | Checked by | Proved in |
|---|---|---|---|
| `Delivery` | API handlers after their reads, broker, dispatcher, delivery task, replay, failures | `MCDelivery` | `DeliveryProofs`, `DeliveryRefinement` |
| `EventLifecycle` | abstract: what the pipeline promises of one event | refined by `Delivery` | `DeliveryRefinement` |
| `Registry` | `Delivery` with registration split into flush, answer and commit | `MCAcceptance` | `RegistryProofs` |
| `DlqListing` | `Delivery` with a client that lists the dead-letter queue page by page | `MCDlqListing` | `DlqListingProofs` |
| `Suites` | what the suites and benchmarks register, post, wait for and assert, as data | `MCAcceptance` | |
| `Acceptance` | `Registry` with a script that carries out its suites, and the mock receivers | `MCAcceptance` | `AcceptanceProofs` |
| `RateLimiter` | Lua script, `is_rate_limited`, deferral, discrete time | `MCTimedDelivery` | `RateLimiterProofs` |
| `TimedDelivery` | `RateLimiter` with the tasks that call it: signature, timeout, backoff; or with the threads of a suite | `MCTimedDelivery` | `TimedDeliveryProofs` |
| `Ingestion` | `dispatch_event` per database round trip, `get_db` rollback | `MCIngestion` | `IngestionProofs` |
| `Intake` | abstract: an atomic store of events | refined by `Ingestion` | refinement proved |

### Delivery

`status`, `attempts` and `active` are the tables; `queue` and `parked` the
messages of the broker (bags: order is arbitrary, which covers prefetching,
backoff delays and redelivery order); `unqueued` the API requests between their
commit and their push; `replaying` the replay requests between their gate and
their commit; `pc`, `task`, `todo`, `outcome` the worker slots; `used` the
counter of the current window of an endpoint.

| Phase of a worker | Next action | Code |
|---|---|---|
| `idle` | `Take` | the broker hands over a message; for a delivery task also Phase A, 290-324 |
| `dispatch` | `DispatchToNobody`, `Dispatch` | 206-229 |
| `fanout` | `FanOut`, once per endpoint | 235-240 |
| `gate` | `Admit`, `FailOpen`, `Throttle`, `ThrottleOut` | 339-362 |
| `post` | `Post` | 364-469 |
| `write` | `Record` | 479-516, one transaction |
| `retry` | `Retry` | 527-539 |
| `ack` | `Ack` | the task has returned or raised Retry |
| any of the working ones | `TaskDies` | an exception that is no Retry, e.g. 517-522, or a lost pool process: the message is acknowledged |
| any but `idle` | `WorkerCrash` | the worker dies with the message unacknowledged: redelivered |

Facts about Celery the model relies on: every `Task.retry` increments
`request.retries`; `max_retries=None` stands for the task's own `max_retries`;
with no retry left `retry` raises the given exception; the retry message is
pushed before the old one is acknowledged; with `task_acks_late` and the default
`task_acks_on_failure_or_timeout` a task that raised is acknowledged.

History variables exist for the properties: `owed` (every endpoint a dispatcher
read for the event, whether it was deactivated since or not), `dropped`
(endpoints whose delivery of an event was given up, or that a dispatcher read
once and did not find active any more when its message was delivered again or
the event replayed), `deferred`, `acked` (2xx answers the worker received),
`lost` (where work of an event was given up: between commit and push, by a task
that died, by a throttled task with no retry left), and the counters of the
bounds.

Left out of `Delivery`: payloads, headers and signatures; the difference
between a 5xx, a 3xx, a timeout and a connection error, which the code treats
alike; the early returns for a missing event or endpoint, as nothing deletes
rows; time (see `TimedDelivery`); response bodies and log lines.

### EventLifecycle

Per event: its status, whether work on it is open, whether some was given up,
and replays found eligible and not carried out. Only open work settles a
status; work on a PENDING event ends by settling it or by giving it up; a
replay is found eligible in a failed status and resets whatever the status is
later, which is what the code does. `Delivery` maps `open` to the events with a
message, a working slot or an unfinished push.

### RateLimiter

`count` and `expires` are the Redis key with its time to live. A call is one
step, as Redis runs a script to its end. `epoch` counts windows and `seen`
remembers which window rejected a caller, for `RetryAfterSuffices`. In
`Delivery` a deferred message returns once the counter is below the limit:
`RetryAfter`, proved here, is the reason this abstraction is sound.

### TimedDelivery

A caller of the limiter is a delivery task (`phase`, `retries`, `ready`,
`stamp`, `since`) or, when `threads` holds, a thread of suite B of
`verify_phase8.py` (`left`, `answer` and the two shared counters). Time passes
in ticks between any two steps of anybody. A task takes the timestamp of its
signature when the gate has let it through; its receiver has a clock of its
own (`skew`). A countdown is any number of ticks up to the ceiling of the
backoff, which is what a uniform draw can return. No property depends on how high
that ceiling is; it belongs to the model so that the waits that precede a
signature or a call of the limiter are those of the code. A digest is the triple it was
computed from, so that it matches only for the same key, time and body.
`HttpTimeout` stands for the five seconds of the HTTP client, which httpx
applies to each operation of a request; an answer that comes later is a
`NoAnswer` to the task. A task that is due need not run at once: queues and
busy workers are that delay.

### Registry

`registration` is where the request that registers an endpoint stands. The row
is flushed by the handler and committed by `get_db` when the request ends; as
versions of FastAPI differ in whether that is before or after the answer, both
orders are there. `promised` and `hidden` remember, when an event is posted,
which endpoints with a 201 were committed.

### DlqListing

A client asks for page after page until the total says that there is no more.
Each statement of a request is a step: count, page, and per event its number of
attempts and its last attempt. The pipeline of `Delivery` commits recordings and
replays between them. `created` is `created_at`: it is fixed by the time the
inserting transaction began, so it says nothing of the order of commits, and as
nothing makes it unique, several events may share it. The query orders by it
alone; `Newest` leaves the order of ties to the database and each statement may
choose another, as PostgreSQL promises nothing about it. `event` is the event the
loop of the handler has counted and not finished.
`latest`, `stayed` and `moved` are history.

### Suites and Acceptance

A suite is a record of what it registers, posts, waits for and asserts, derived
from a common one; `Script` lists the suites of each script in order.
`Acceptance` carries them out:

| `step` | Actions | Code (one of its copies) |
|---|---|---|
| `setup` | `Isolate` per endpoint, `IsSetUp` | `deactivate_all_endpoints`, `ensure_active_endpoint` |
| `register` | `RegisterEndpoint`, or `AskToRegister`, `Registry1`, `AllRegistered` over the API | `register_endpoint`, `register_endpoints` |
| `post` | `PostEvent` | `post_event`, `dispatch_events` |
| `fix`, `replay` | `FixEndpoint`, `AskToReplay` | `update_endpoint_url`, suite B of `verify_phase6.py` |
| `answer` | `AllAccepted`, `NotAccepted` | the status checks of the answers |
| `poll`, `wait`, `recheck` | `ReadStatus`, `Sweep`, `ReadRows`, `RoundEnds`, `PollAgain`, `DeadlinePasses` | `poll_for_delivery`, `poll_for_status`, `poll_event`, `poll_all_delivered`, the drain of `load_test.py` |
| `verdict` | `Pass`, `Fail` | the assertions after the poll |

The deadline of a poll passes at any time while it sleeps, which covers every
speed of the workers. The mock receivers answer: `Reply` takes the answer of
the receiver behind the URL and advances the cycle of the flaky one, whoever
called it; `Trouble` is a lost request or a late answer, which may or may not
have reached the counter. The scripts are the only clients, and every step of
the pipeline in between is one of `Delivery`; `AcceptanceIsDelivery` proves it.
`aligned`, `slow` and `troubles` are history. The five attempts of the scripts
are `Budget`, their 10, 15 or 500 events `NumEvents`. A script that raises on
a refused POST is taken to FAIL. The listing that the DLQ suites call is reduced
to whether it holds the event; `DlqListing` has the rest.

### Ingestion and Intake

A handler moves through select, insert, fallback or commit, enqueue. `lock`
is the uncommitted row of a key: an insert waits for it, as PostgreSQL makes a
second insert of a unique key wait. `Fail` is an exception or the death of the
process at any point; an open transaction is rolled back. `Intake` says the
same in three atomic actions, which are the ones `Delivery` uses for the API.

## 3. Runs

| Run | Instance | Question |
|---|---|---|
| `fanout` | 1 event, 2 endpoints, 2 workers, 1 retry, 1 crash | does fan-out with retries, throttling and failures lose an endpoint, or let status and audit trail disagree? |
| `replay` | 1 event, 1 endpoint, 2 workers, 1 retry, 2 replays, 1 crash | do racing replays keep the lifecycle, and repeat deliveries only as often as they may? |
| `shared` | 2 events, 1 endpoint with a window of 1, 1 replay each; pages of 1, scans that begin with 2 dead events | do events that share a counter strand or disturb each other, and what does a client that lists the dead-letter queue meanwhile see? |
| `live` | 1 event, 1 endpoint, 2 workers, 2 replays, 1 registration or deactivation, fairness | does an event settle, also after replays that race each other or fail before their push, and does the endpoint get its terminal attempt, also if it is deactivated meanwhile? |
| `limiter` | 1 endpoint, 2 callers, limit 1, window 2, 5 ticks, 1 failure, 2 retries, clocks one tick apart, a tolerance of 2 | are the limits, the deferrals and the age of a signature right at every boundary, and do the suites that count the limiter's answers tell the truth? |
| `acceptance` | every script or part of one, 2 events, 2 endpoints, 1 worker, 2 retries, 1 crash or lost request | what is a verdict of the scripts worth? |
| `ingestion` | 4 requests, 2 keys, fairness | is ingestion idempotent under races and failures, and does it answer? |
| `terminal`, `throttled`, `budget`, `orphan`, `recent` | smallest instances | expected violations, see section 6 |

**Bounds.** One retry gives a first, a retried and a last attempt, so each
branch of the terminal test is taken; `budget` uses two because one deferral
must leave a retry. Two workers give every pairwise interleaving of tasks, and
two is the concurrency docker-compose sets. Two endpoints are the least for
which tasks disagree on a status. A limit of one makes throttling common.
A crash may hit any phase, and with two replays and a crash three chains of
tasks run for one event. In `limiter` the time of three windows holds every position of an interval
against two window boundaries, and the tolerance is what a timeout and the skew
need at least, so that one tick more in any place shows. In `shared` a page of
one event makes every second dead-lettered event a page of its own, and scans
that begin with less than two are cut (`MinBacklog`); the events are created at
any times, also at the same. In `live` one
endpoint is enough, as deliveries to different ones have messages and
counters of their own; that the fan-out forgets none of two is checked by
`fanout`. In `acceptance` two
retries are the least for which the flaky receiver succeeds at the end of its
cycle and the failing one exhausts the budget; an endpoint of another run is
left where a suite starts without isolating itself, and faults are allowed to
the suites that post one event. Suites that differ from one of another script
in no action are run once. The bounds of
`MaxReplays`, `MaxCrashes`, `MaxAdmin`, `MaxTime` and `MaxFailures` are the only
cuts; what is proved holds for all their values. `CHECK_DEADLOCK FALSE` is
set because requests, crashes, replays and time are used up and the system then
rests. Symmetry is used in runs without liveness only.

**Fairness.** `live` assumes that the API coroutine goes on after its commit
(or fails), that a worker goes on with what it holds and takes more while there
is more, and that Redis keys and countdowns elapse. It assumes nothing of
clients, operators, the answers of endpoints or failures: `TaskDies`, `ApiFails`
and `FailOpen` may happen always or never. Crashes are bounded to none there,
for a worker that crashes on the same message forever makes no progress.
`ingestion` assumes that a handler takes its next step when the database lets
it; a handler waiting for a key is not enabled, so that it is not blocked
forever is a result and not an assumption.

## 4. Proofs

All theorems hold for every value of the constants that meets the named
assumptions of the modules (`MaxRetries` a natural number, `RateLimit`, `Limit`,
`Window` and the page size positive, the null values outside their sets, the
bounds natural). Some say more: the events of `DlqListing`, the endpoints of
`Acceptance` and the callers of `TimedDelivery` are finitely many, because they
are counted; the parts of `Acceptance` are suites of a script; and
`ToleranceAssumption` of `TimedDelivery` states that the timeout of a POST and the skew of the clocks, 5 s
and what NTP leaves, fit the 300 s a receiver accepts.

- `DeliveryProofs!TypeCorrect`, `RateLimiterProofs!TypeCorrect` (a lemma for
  `TimedTypeCorrect`), `IngestionProofs!TypeCorrect`: the type invariants are inductive. That of
  `Delivery` ties the phase of a slot to the kind of its message.
- `Stranding`: `NoSilentStranding` is inductive given the types. Each step that
  consumes the last work for an event hands it on, settles the status in the
  same step, or records the loss. `InFlightKept` covers the steps that do not
  touch the event.
- `Evidence`: rows are never removed (`AttemptsStep`), and a failure status is
  written by the step that adds its row (`FailureStep`).
- `NoGap`: `NoGapInAttempts` is not inductive; nothing in it says that the next
  row continues the last. `SpentInv` adds that each retry a message carries was
  spent on a row or a deferral before the message was pushed, also while a
  worker holds it and between its row and its retry.
- `Targets`: `EveryTargetAnswered` is inductive given the types. A dispatcher that
  works on the event stands for every endpoint that is owed (`Undone`): when it
  reads the active endpoints again it fans out to each of them or puts it on
  record, and a crash in between brings it back.
- `Duplicates`: `ChancesInv` counts the chances of an event at an endpoint to be
  answered again. A chance is a copy of a dispatcher or delivery message, or a
  worker slot that may still post, or a request of the API that was read or
  committed and not pushed yet (`Chances`, a finite set of tagged tokens); an
  event that was not posted yet has one more (`Unposted`). Answers received and
  chances left together are at most one for the ingestion, one for each replay
  and one for each crash. Each step turns a chance into another, uses it up for
  an answer, or is a replay or crash that pays for the new one (`Turns`), which
  `StepTurns` shows slot by slot; the counting is by injections between the sets
  of tokens, so that no sum over messages is needed.
- One chain of attempts (end of `DeliveryProofs`): as long as an event is not
  replayed and no worker crashed, it has one chance at an endpoint. So
  whoever holds it has the next number to record (`RowsOf`): no row of the
  pair has a number above the attempts made before it, each number has one
  row, and each row was written once. `SoleWriter` excludes a second slot by
  `ChancesInv` and `AnsweredInv`. The listing and the benchmark build on this.
- `Settled`: the action property `SettledIsStable`. An event is at rest when it is
  settled or given up and no message, request or slot is left of it (`AtRest`),
  not even one that waits for its acknowledgement and that a crash would bring
  back. `RestStep` shows, by cases on the step, that only a replay ends this
  state; as it is part of the property that the state lasts, the status and the
  rows are those of rest for good.
- `RefinesLifecycle`: each step concerns the work of one event (`OnlyIn`), so
  that the set of open events changes by that event at most. The one strengthening
  is `KnownEvents`: nothing waits or is held for an event that was not accepted;
  a crash after the work is done (`Redeliver`) needs it.
- `RetryAfter`: needs that the window a deferred caller saw ends no later than
  the caller wakes, and that later windows have higher epochs.
- `PerWindow`, `TwiceLimit`: `LimitsInv` bounds what was sent since three times:
  since the key expired, by the failures; since its window began, by the counter
  and the failures; and since the window before that, by the limit more. A new
  window begins only when the last is over, so the bounds move down by one. An
  interval of the length of a window that holds a request of now begins after
  the third of these times, since a key expires at most one window from now
  (`Horizon`). Both hold for the tasks and threads of `TimedDelivery`
  (`TimedPerWindow`, `TimedTwiceLimit`), whose steps are steps of the limiter.
- `Registered`: `PromisedActive` is added: what was promised is active until an
  operator or a script deactivates it. So a dispatcher that reads the active
  endpoints owes all of it, and one that dies before has it dropped on record.
  `RegistryIsDelivery` shows first that every step is one of `Delivery`, so that
  its invariants hold here.
- `Listed`: rests on `Evidence` of `Delivery`: a dead letter has a row made with
  the last retry, rows are never removed, and no row has a
  higher number; so it holds although the event may be replayed after the page
  was read.
- `ListingTypes`: the numbers are cardinalities, and the rows of an event
  (`Written`) stay finitely many because each step writes one at most.
- `ItemTells`: `TellsInv` carries the facts of one chain across the statements of
  a request: what was counted was the whole budget, and what was read last is
  the row with the highest number. The proof showed that the
  property must ask for rows of one endpoint (`OneChain`): with two endpoints one
  of which was deactivated, rows of both chains count, and the item is not that
  of a chain.
- `Scanned`: `ScanInv` says that an event which stayed dead-lettered, was not
  listed, had no newer one move and shares its `created_at` with no other of the
  queue (`Unshifted`), has a position at or after the pages read and before the
  total that was counted; each page then takes the events up to its end
  (`NewestByPosition`, for whatever order the database chose for the ties of the
  others). It holds for every page size and every finite set of events.
- `Genuine`: a request is received within the timeout after it was stamped, so
  its age by the receiver's clock is within the tolerance by
  `ToleranceAssumption`, and the receiver recomputes the digest from what was
  signed. Nothing of the delays before the stamp is used.
- `SuiteExact`: `Made` is the set of the calls that were made, as pairs of a
  thread and its countdown. While Redis answers and the first window is open, its cardinality is
  the counter of the endpoint, and what was allowed and rejected, counted by the
  threads or not yet, adds up to it; what was allowed is the smaller of it and
  the limit. When the threads are joined `Made` is all pairs, which are
  `Total` (`FS_Product`).
- `TimedRetryAfter`, `TimedTypeCorrect`: the invariant of `RateLimiter` is kept by
  every timed step.
- `StaleOnesFail`: no mock receiver answers 4xx to what the scripts send, so that
  no event is FAILED and none is read as such (`NothingRejected`, with `Evidence`;
  that the secure receiver accepts a genuine signature is `Genuine`);
  and `Attempt` has no number above the budget.
- `AcceptanceTypes`: the types of what a suite reads rest on the same facts and
  on the tables of the suites, case by case (`SuitesTyped`). That an active
  endpoint has a receiver needs that one whose registration is still flushed
  or answered has it already.
- `BenchmarkCounts`: the benchmark deactivates no endpoint (`ActiveKept`), so
  every row is of an endpoint that is active at the end (`Addressed`), hence
  of an answered one; it posts at most `NumEvents` events and has at most
  `NumEndpoints` answers, one request at a time (`PostsInv`, `RequestsInv`). By the
  chain above, rows of first attempts map one to one to pairs of an event and an
  answered endpoint (`RowsCoverPairs`); as many rows as there can be pairs
  cover them all.
- `PassHoldsForGood`: `PassIsFinal` rests on five invariants. `One`: the event of
  such a suite has one chance at the only active endpoint, or had it, so that
  what writes its final status is the last work for it, and a 2xx row means
  DELIVERED. `ActiveInv`: a suite that isolates its endpoint has exactly that one
  active, since no script but the benchmark registers over the API.
  `MineInv`: the events were posted, one suite's at a time, and are replayed only
  while the script waits for the answer, so that no second reset overwrites a
  status that was read. `SoleInv` puts these together, and passes from a suite
  to the one that replays its event (`ReplaysFollow`). `PollInv` is about the torn
  reads: a final status that was read is still the status, and rows are those of
  the table if the status was final when they were read: because it was read
  before them, because the script reads again after polling, or because they
  hold a 2xx (`ReadLate`). Each suite has one of the three (`SuitesFinal`). Crashes are
  excluded in the property: a message delivered again adds rows after a PASS.
- `OneTask`, `Durable`, `WinnerFound`: follow from one invariant that relates
  rows, the holder of each key, and the handlers that owe a task.
- `RefinesIntake`: under that invariant each handler step is a step of `Intake`
  or a stutter.

Model-checked only: the liveness properties `EventuallySettles`,
`TargetsEventuallyAnswered` and `EveryRequestAnswered` (TLAPS proves no liveness
or ENABLED here); and `FailIsExplained`, for which no proof has been attempted: it
depends on the assertions of the suites one by one and on the answers of the
receivers.

## 5. Mutants

Each property of a passing run has a faulty variant of an action or helper,
written next to it and named after the mistake (`RetryForgotten`,
`WorkerCrashEarlyAck`, `InsertNoWait` ...), that makes TLC report a violation.

## 6. Where the code and its documents disagree

- `terminal`: DELIVERED is documented as terminal; a slower endpoint's failure
  overwrites it (`delivery.py:510`).
- `throttled`: a throttled event is said to stay under way; with no retry left
  the deferral raises, and the event stays PENDING with nobody working on it
  and without being replayable (`delivery.py:355`).
- `budget`: deferrals are said not to count against the retry budget; they do,
  so a dead letter may have fewer attempts than five (`delivery.py:481`).
- `orphan`: an idempotent replay is said to mean that the delivery happened or
  is in progress; a failure between commit and push leaves neither
  (`events.py:162`).
- `recent`: an item is said to show the most recent attempt; attempt numbers start
  at 1 again after a replay (`delivery.py:294`), so that the
  final attempt of the earlier fan-out has the same number and may be shown
  instead (`dlq.py:119`).

The listing has a weakness that `ScanMissesOnlyShifted` excepts: as it is ordered
by `created_at` alone (`dlq.py:94`), events created at the same time may change
places between two pages, so that even in a queue that does not change one of
them may be listed twice and the other never.

Two suites disagree with the code whatever the timing, which
`StaleNeverPasses` checks and `StaleOnesFail` proves: scenario B of
`verify_phase4.py` (line 318) expects FAILED of an event whose retries are used
up, where the code writes DEAD_LETTER, and suite B of `verify_phase6.py` (line
361) expects an `attempt_number` above 5 after a replay (`verify_master.py:633`
allows for the reset already). The model also shows
how the other suites may fail while the pipeline is right (`Excused`): suite A of
`verify_phase5.py` takes retries, also those of an endpoint another run left,
for a duplicate task; suites that use the flaky receiver need its cycle to
start at its first call and nobody else to call it; and the deferrals of the
limiter leave gaps in the numbers that `verify_phase4.py` compares.

## 7. Not modelled, and what is left

Not modelled:

- schemas, configuration and application wiring, which declare and connect;
- migrations, run once by an operator;
- `benchmark_sync.py`, which measures an interface the API no longer has, and
  `verify_db.py`, which prints what tables exist;
- the unit assertions of the scripts that call one pure function each: suites B
  and C of `verify_phase7.py`, suite C of `verify_phase8.py`, the second half of
  suite 5 of `verify_master.py`; their subjects are in `TimedDelivery`;
- health checks, latencies, percentiles, tables and colours of the scripts;
- the reconnection of `benchmark_async.py` and the mixed clocks of
  `load_test.py`, listed as hazards without a property: each is one loop on its
  own, and the deadline that may pass at any time covers their effect on the
  verdict.

Left for later: a proof of `FailIsExplained`; the
composition of `Ingestion` with `Delivery` through the actions of `Intake`, which
both are already checked against.
