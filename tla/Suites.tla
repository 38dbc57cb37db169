------------------------------- MODULE Suites -------------------------------
(***************************************************************************)
(* The verification suites and benchmarks of scripts/, as data: what each    *)
(* one registers and posts, what it polls for, and what it asserts.  How    *)
(* they are carried out against the pipeline is Acceptance.                 *)
(*                                                                          *)
(* The five attempts of the scripts are Budget here, and their 10, 15 or    *)
(* 500 events are NumEvents.                                                *)
(***************************************************************************)
EXTENDS Delivery, Sequences

CONSTANTS
  NumEvents,      \* events a load or burst suite posts
  NumEndpoints    \* NUM_ENDPOINTS of the benchmarks

ASSUME NumbersAssumption == NumEvents \in Nat \ {0} /\ NumEndpoints \in Nat \ {0}

Budget == MaxRetries + 1

NonPending == EventStatus \ {"PENDING"}

\* Also what a suite that reads no status knows of it.
AnyStatus == EventStatus \cup {"ABSENT"}

AtLeast(n) == {k \in Nat : k >= n}

Times(n, o) == [i \in 1 .. n |-> o]

\* What most suites do: start from no active endpoint, register one with a
\* session of their own, post one event, poll its status and then its rows
\* until it is no longer PENDING and has a row, and ask for a first row of 2xx.
Suite ==
  [isolates  |-> TRUE,             \* deactivates all endpoints first
   registers |-> "session",        \* or "api", "unless active", "no"
   url       |-> "ok",             \* the receiver it registers
   posts     |-> "one",            \* or "serial", "burst", "no": a replay
   replays   |-> FALSE,            \* fixes the endpoint and replays the event
   reads     |-> <<"status", "rows">>,
   until     |-> NonPending,       \* statuses that end the polling
   rows      |-> 1,                \* rows that end the polling
   perActive |-> FALSE,            \* one row for each active endpoint, not more
   lastRead  |-> TRUE,             \* reads once more at the deadline
   recheck   |-> FALSE,            \* reads again after the polling
   status    |-> AnyStatus,        \* asserted of the status
   count     |-> AtLeast(1),       \* asserted of the number of rows
   first     |-> TRUE,             \* the first row is a 2xx
   trail     |-> <<>>,             \* asserted of the outcomes, number by number
   outcomes  |-> Outcome,          \* asserted of each outcome
   beyond    |-> 0,                \* some attempt_number is higher
   dlq       |-> "not asked"]      \* asserted of GET /dlq: "lists" or "omits" it

-----------------------------------------------------------------------------
(* verify_phase3.py, verify_phase4.py                                       *)

\* An active endpoint with the right URL is kept. The rows are read before the
\* status, without a last read at the deadline; both are then read again.
Phase3 ==
  [Suite EXCEPT !.registers = "unless active", !.url = "receiver",
                !.reads = <<"rows", "status">>, !.lastRead = FALSE, !.recheck = TRUE,
                !.status = {"DELIVERED"}, !.first = FALSE]

FlakyTrail == <<"transient_error", "transient_error", "success">>

Scenario(receiver, final, trail) ==
  [Suite EXCEPT !.url = receiver, !.rows = Len(trail), !.status = {final},
                !.count = {Len(trail)}, !.first = FALSE, !.trail = trail]

Phase4Flaky == Scenario("flaky", "DELIVERED", FlakyTrail)

\* Written before DEAD_LETTER existed.
Phase4Failing == Scenario("failing", "FAILED", Times(Budget, "transient_error"))

-----------------------------------------------------------------------------
(* verify_phase5.py, verify_phase6.py, verify_phase7.py                     *)

\* One key posted twice, to the endpoints that happen to be active: more rows
\* than there are endpoints are a "possible duplicate task". The second request
\* finds the row of the first and changes nothing.
Phase5Deduplication ==
  [Suite EXCEPT !.isolates = FALSE, !.registers = "no", !.perActive = TRUE,
                !.count = Nat, !.first = FALSE]

Phase5Headers == [Suite EXCEPT !.url = "echo"]

Phase6Dlq ==
  [Suite EXCEPT !.url = "failing", !.until = {"DEAD_LETTER"}, !.rows = Budget,
                !.status = {"DEAD_LETTER"}, !.count = {Budget}, !.first = FALSE,
                !.outcomes = {"transient_error"}, !.dlq = "lists"]

\* "attempt_number > 5"
Phase6Replay ==
  [Suite EXCEPT !.isolates = FALSE, !.registers = "no", !.url = "receiver",
                !.posts = "no", !.replays = TRUE,
                !.until = {"DELIVERED"}, !.rows = Budget + 1, !.status = {"DELIVERED"},
                !.first = FALSE, !.beyond = Budget, !.dlq = "omits"]

Phase7Signature == [Suite EXCEPT !.url = "secure", !.status = {"DELIVERED"}]

-----------------------------------------------------------------------------
(* verify_phase8.py, verify_master.py                                       *)

\* The statuses only, one statement per event.
Phase8Burst ==
  [Suite EXCEPT !.posts = "burst", !.reads = <<"status">>, !.rows = 0,
                !.status = {"DELIVERED"}, !.count = Nat, !.first = FALSE]

Master1 ==
  [Suite EXCEPT !.url = "receiver", !.until = {"DELIVERED"}, !.status = {"DELIVERED"}]

Master2 == [Phase4Flaky EXCEPT !.until = {"DELIVERED"}]

\* Part A posts one key twice to whatever is active, and polls nothing.
Master3Idempotency ==
  [Suite EXCEPT !.isolates = FALSE, !.registers = "no", !.reads = <<>>,
                !.count = Nat, !.first = FALSE]

\* Part B needs the echoed headers, so a first row with the body of a 2xx.
Master3Headers == Phase5Headers

Master4Dlq == [Phase6Dlq EXCEPT !.outcomes = Outcome]

Master4Replay == [Phase6Replay EXCEPT !.count = AtLeast(Budget + 1), !.beyond = 0]

Master5 == [Suite EXCEPT !.url = "secure", !.status = {"DELIVERED"}]

-----------------------------------------------------------------------------
(* load_test.py, benchmark_async.py                                         *)

\* Whatever is active; one query returns the events that are DELIVERED, and
\* one that was DELIVERED once counts for good.
LoadTest ==
  [Suite EXCEPT !.isolates = FALSE, !.registers = "no", !.posts = "burst",
                !.reads = <<"sweep">>, !.until = {"DELIVERED"}, !.rows = 0,
                !.lastRead = FALSE, !.status = {"DELIVERED"}, !.count = Nat,
                !.first = FALSE]

\* Faulty variant: the rows of one event are enough.
BenchmarkAsyncOneEvent ==
  [Suite EXCEPT !.isolates = FALSE, !.registers = "api", !.url = "receiver",
                !.posts = "serial", !.reads = <<"rows">>, !.until = AnyStatus,
                !.rows = NumEndpoints, !.first = FALSE, !.count = AtLeast(NumEndpoints)]

\* Registers over the API and posts as soon as it has the answers; counts the
\* rows of all events, whatever their outcome or endpoint.
BenchmarkAsync ==
  [Suite EXCEPT !.isolates = FALSE, !.registers = "api", !.url = "receiver",
                !.posts = "serial", !.reads = <<"rows">>, !.until = AnyStatus,
                !.rows = NumEvents * NumEndpoints, !.first = FALSE,
                !.count = AtLeast(NumEvents * NumEndpoints)]

-----------------------------------------------------------------------------
\* The suites each script runs, in their order.
Script ==
  [verify_phase3   |-> <<Phase3>>,
   verify_phase4   |-> <<Phase4Flaky, Phase4Failing>>,
   verify_phase5   |-> <<Phase5Deduplication, Phase5Headers>>,
   verify_phase6   |-> <<Phase6Dlq, Phase6Replay>>,
   verify_phase7   |-> <<Phase7Signature>>,
   verify_phase8   |-> <<Phase8Burst>>,
   verify_master   |-> <<Master1, Master2, Master3Idempotency, Master3Headers,
                         Master4Dlq, Master4Replay, Master5>>,
   load_test       |-> <<LoadTest>>,
   benchmark_async |-> <<BenchmarkAsync>>]

\* Suites that assert what the code does no longer, or never did.
StaleExpectation(s) == s.status = {"FAILED"} \/ s.beyond > 0
=============================================================================
