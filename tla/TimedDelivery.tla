--------------------------- MODULE TimedDelivery ---------------------------
(***************************************************************************)
(* The clocks of a delivery: a task passes the rate limiter, signs its       *)
(* request with the time of the attempt, waits for the answer as long as    *)
(* the HTTP client does, and comes back after a full-jitter backoff or after *)
(* a deferral.  The receiver checks the age and the digest of the signature *)
(* with its own clock.  Or the callers of the limiter are the threads of a  *)
(* verification suite, which count what it lets through.                    *)
(*                                                                          *)
(* Sources: app/tasks/delivery.py, app/core/retry.py, app/core/security.py, *)
(* app/api/v1/mock.py, scripts/verify_phase8.py, scripts/verify_master.py.  *)
(***************************************************************************)
EXTENDS RateLimiter

CONSTANTS
  Target,       \* the endpoint of each caller
  MaxRetries,   \* max_retries of deliver_to_endpoint_task
  BaseDelay,    \* base_delay of calculate_full_jitter_backoff, in ticks
  MaxDelay,     \* its max_delay
  HttpTimeout,  \* how long a POST may take, from _HTTP_TIMEOUT_S
  Tolerance,    \* the age a receiver accepts, 300 s
  Skew,         \* what the receiver's clock may be ahead of the worker's
  Calls         \* CALLS_PER_THREAD

\* The tasks and the threads of a run are finitely many.
ASSUME CallersAssumption == IsFiniteSet(Caller)
ASSUME TargetAssumption  == Target \in [Caller -> Endpoint]
ASSUME RetriesAssumption == MaxRetries \in Nat
ASSUME DelaysAssumption  == BaseDelay \in Nat /\ MaxDelay \in Nat
ASSUME CallsAssumption   == Calls \in Nat \ {0}
\* An answer that is still waited for left within the tolerance: 5 s and the
\* skew of the clocks against 300 s.
ASSUME ToleranceAssumption ==
  /\ HttpTimeout \in Nat /\ Tolerance \in Nat \ {0} /\ Skew \subseteq Int
  /\ \A s \in Skew : s + HttpTimeout <= Tolerance /\ -s <= Tolerance

VARIABLES
  threads,     \* the callers are threads of a suite, else delivery tasks
  secret,      \* what endpoint.secret is to the receiver's: shared, other, none
  skew,
  phase,       \* of each task
  retries,     \* its request.retries
  ready,       \* when the countdown of its backoff elapses
  stamp,       \* unix_ts of its request
  since,       \* when it began to wait for the answer
  result,      \* how it ended
  left, answer,        \* of each thread: calls left, a result it did not count yet
  allowed, rejected    \* their counters, guarded by a lock

clocks    == <<secret, skew>>
tasks     == <<phase, retries, ready, stamp, since, result>>
suite     == <<left, answer, allowed, rejected>>
timedVars == <<vars, threads, clocks, tasks, suite>>

-----------------------------------------------------------------------------
(* Signatures. The digest is what it was computed from.                     *)

NoHeader == [t |-> 0, v1 |-> <<>>]

GenerateSignature(key, timestamp, payload) ==
  [t |-> timestamp, v1 |-> <<key, timestamp, payload>>]

Age(clock, timestamp) == IF clock < timestamp THEN timestamp - clock ELSE clock - timestamp

VerifySignature(key, header, body, tolerance, clock) ==
  /\ header # NoHeader
  /\ tolerance > 0 => Age(clock, header.t) <= tolerance
  /\ header.v1 = <<key, header.t, body>>

\* mock_secure checks the age first, to answer 400, and then the digest only.
MockSecure(header, body, clock) ==
  IF header = NoHeader THEN 401
  ELSE IF Age(clock, header.t) > Tolerance THEN 400
  ELSE IF VerifySignature("shared", header, body, 0, clock) THEN 200 ELSE 401

\* The payload is serialised once, so what is signed is what is sent.
Header(c) ==
  IF secret[Target[c]] = "none" THEN NoHeader
  ELSE GenerateSignature(secret[Target[c]], stamp[c], c)

-----------------------------------------------------------------------------
(* Backoff.                                                                 *)

Cap(n) == Min({MaxDelay, BaseDelay * 2 ^ n})

\* calculate_full_jitter_backoff: a uniform draw from zero to the cap.
Countdowns(n) == 0 .. Cap(n)

-----------------------------------------------------------------------------
TimedTypeOK ==
  /\ TypeOK
  /\ threads \in BOOLEAN
  /\ secret  \in [Endpoint -> {"shared", "other", "none"}]
  /\ skew    \in Skew
  /\ phase   \in [Caller -> {"due", "posting", "ended"}]
  /\ retries \in [Caller -> 0 .. MaxRetries]
  /\ ready   \in [Caller -> Nat]
  /\ stamp   \in [Caller -> Nat]
  /\ since   \in [Caller -> Nat]
  /\ result  \in [Caller -> {"none", "success", "client_error", "transient_error", "dropped"}]
  /\ left    \in [Caller -> 0 .. Calls]
  /\ answer  \in [Caller -> {"none", "allowed", "rejected"}]
  /\ allowed \in Nat /\ rejected \in Nat
  /\ \A c \in Caller : result[c] = "none" <=> phase[c] # "ended"

TimedInit ==
  /\ Init
  /\ threads \in BOOLEAN
  /\ secret  \in [Endpoint -> IF threads THEN {"none"} ELSE {"shared", "other", "none"}]
  /\ skew    \in IF threads THEN Skew \cap {0} ELSE Skew
  /\ phase   = [c \in Caller |-> "due"]
  /\ retries = [c \in Caller |-> 0]
  /\ ready   = [c \in Caller |-> 0]
  /\ stamp   = [c \in Caller |-> 0]
  /\ since   = [c \in Caller |-> 0]
  /\ result  = [c \in Caller |-> "none"]
  /\ left    = [c \in Caller |-> IF threads THEN Calls ELSE 0]
  /\ answer  = [c \in Caller |-> "none"]
  /\ allowed = 0
  /\ rejected = 0

-----------------------------------------------------------------------------
(* A delivery task.                                                         *)

Due(c) == ~threads /\ phase[c] = "due" /\ ready[c] <= now

\* Faulty variant: the retries are sent with the first timestamp.
StampOfFirst(c) == IF retries[c] = 0 THEN now ELSE stamp[c]

\* unix_ts, taken when the gate has been passed.
StampOf(c) == now

\* The gate lets the task through, and it posts.
PostSigned(c) ==
  /\ Due(c)
  /\ Admit(c, Target[c]) \/ FailOpen(c, Target[c])
  /\ phase' = [phase EXCEPT ![c] = "posting"]
  /\ stamp' = [stamp EXCEPT ![c] = StampOf(c)]
  /\ since' = [since EXCEPT ![c] = now]
  /\ UNCHANGED <<threads, clocks, retries, ready, result, suite>>

Ends(c, how) ==
  /\ phase'  = [phase EXCEPT ![c] = "ended"]
  /\ result' = [result EXCEPT ![c] = how]
  /\ retries' = [retries EXCEPT ![c] = 0]
  /\ ready'  = [ready EXCEPT ![c] = 0]
  /\ stamp'  = [stamp EXCEPT ![c] = 0]
  /\ since'  = [since EXCEPT ![c] = 0]

ComesBack(c, countdown) ==
  /\ phase'   = [phase EXCEPT ![c] = "due"]
  /\ retries' = [retries EXCEPT ![c] = @ + 1]
  /\ ready'   = [ready EXCEPT ![c] = now + countdown]
  /\ UNCHANGED <<stamp, since, result>>

\* The gate rejects: self.retry(countdown=retry_after), which counts.
Defer(c) ==
  /\ Due(c)
  /\ Throttle(c, Target[c])
  /\ IF retries[c] < MaxRetries THEN ComesBack(c, Window) ELSE Ends(c, "dropped")
  /\ UNCHANGED <<threads, clocks, suite>>

\* Faulty variant: retries_exhausted is not asked for.
ConcludeForever(c, outcome) ==
  IF outcome = "transient_error"
  THEN \E d \in Countdowns(retries[c]) : ComesBack(c, d)
  ELSE Ends(c, outcome)

\* Phase C and the retry.
Conclude(c, outcome) ==
  IF outcome = "transient_error" /\ retries[c] < MaxRetries
  THEN \E d \in Countdowns(retries[c]) : ComesBack(c, d)
  ELSE Ends(c, outcome)

Classify(code) ==
  CASE code = 200             -> "success"
    [] code \in {400, 401}    -> "client_error"
    [] OTHER                  -> "transient_error"

\* TimeoutException or RequestError.
NoAnswer(c) ==
  /\ phase[c] = "posting"
  /\ Conclude(c, "transient_error")
  /\ UNCHANGED <<vars, threads, clocks, suite>>

\* The request reaches the receiver while the worker waits for the answer. One
\* that comes later is checked as well, and changes nothing.
Receive(c) ==
  /\ phase[c] = "posting"
  /\ now <= since[c] + HttpTimeout
  /\ \E code \in {MockSecure(Header(c), c, now + skew), 500} : Conclude(c, Classify(code))
  /\ UNCHANGED <<vars, threads, clocks, suite>>

-----------------------------------------------------------------------------
(* Suite B of verify_phase8.py and suite 6 of verify_master.py: threads that *)
(* call the limiter at once.                                                *)

ThreadCalls(c) ==
  /\ threads
  /\ left[c] > 0 /\ answer[c] = "none"
  /\ \/ /\ Admit(c, Target[c]) \/ FailOpen(c, Target[c])
        /\ answer' = [answer EXCEPT ![c] = "allowed"]
     \/ /\ Rebuff(Target[c])
        /\ answer' = [answer EXCEPT ![c] = "rejected"]
  /\ left' = [left EXCEPT ![c] = @ - 1]
  /\ UNCHANGED <<threads, clocks, tasks, allowed, rejected>>

\* with lock: the counters.
ThreadCounts(c) ==
  /\ answer[c] # "none"
  /\ answer'   = [answer EXCEPT ![c] = "none"]
  /\ allowed'  = allowed + (IF answer[c] = "allowed" THEN 1 ELSE 0)
  /\ rejected' = rejected + (IF answer[c] = "rejected" THEN 1 ELSE 0)
  /\ UNCHANGED <<vars, threads, clocks, tasks, left>>

\* All threads are joined.
Joined == threads /\ \A c \in Caller : left[c] = 0 /\ answer[c] = "none"

Total == Cardinality(Caller) * Calls

\* The assertions of the suites.
SuitePasses(ep) ==
  /\ allowed + rejected = Total
  /\ allowed = Limit
  /\ rejected = Total - Limit
  /\ Live(ep) /\ count[ep] = Total

-----------------------------------------------------------------------------
TimePasses == Tick /\ UNCHANGED <<threads, clocks, tasks, suite>>

TimedNext ==
  \/ TimePasses
  \/ \E c \in Caller : \/ PostSigned(c) \/ Defer(c) \/ NoAnswer(c) \/ Receive(c)
                       \/ ThreadCalls(c) \/ ThreadCounts(c)

TimedSpec == TimedInit /\ [][TimedNext]_timedVars

-----------------------------------------------------------------------------
(* Properties.                                                              *)

\* A request signed with the receiver's secret is never refused as stale or
\* forged while the worker waits for its answer: however long the backoffs and
\* the deferrals before it, a FAILED delivery means that the secrets differ.
GenuineIsAccepted ==
  \A c \in Caller : secret[Target[c]] = "shared" => result[c] # "client_error"

\* The suites tell the truth about the limiter: if Redis answered every call
\* and the window outlived the threads, exactly Limit calls were allowed, the
\* others were rejected, and no increment was lost.
SuiteFindsExactLimit ==
  Joined /\ failures = 0 /\ Total >= Limit =>
    \A ep \in Endpoint :
      (\A c \in Caller : Target[c] = ep) /\ epoch[ep] = 1 /\ Live(ep) => SuitePasses(ep)
=============================================================================
