---------------------------- MODULE RateLimiter ----------------------------
(***************************************************************************)
(* The per-endpoint rate limiter: the Lua script that counts requests in a  *)
(* fixed window anchored at its first request, is_rate_limited around it    *)
(* (which fails open when Redis cannot be reached), and the delivery tasks   *)
(* that call it and defer themselves by the retry_after it returns.         *)
(*                                                                          *)
(* Sources: app/core/rate_limiter.py, app/tasks/delivery.py. Redis runs a    *)
(* script to completion before any other command, so a call is one step.    *)
(* Time is discrete: a window of window_seconds is Window ticks long.       *)
(***************************************************************************)
EXTENDS Integers, Sequences, FiniteSetsExt

CONSTANTS
  Endpoint,     \* one counter key each, "rate_limit:{endpoint_id}"
  Caller,       \* task slots that call the limiter
  Limit,        \* RATE_LIMIT_MAX
  Window,       \* RATE_LIMIT_WINDOW_S in ticks
  MaxTime,      \* bound: ticks
  MaxFailures,  \* bound: calls for which Redis is unreachable
  NoEndpoint    \* what a caller that is not deferred waits for

ASSUME LimitAssumption  == Limit \in Nat \ {0}
ASSUME WindowAssumption == Window \in Nat \ {0}
ASSUME BoundAssumption  == MaxTime \in Nat /\ MaxFailures \in Nat
ASSUME NoEndpointAssumption == NoEndpoint \notin Endpoint

VARIABLES
  now,
  count,    \* the value of the key; 0 when it was never set
  expires,  \* when the key expires
  waits,    \* the endpoint a deferred caller was throttled for
  wake,     \* when its countdown elapses
  \* History.
  epoch,    \* how many windows of the endpoint were begun
  seen,     \* the window that threw the caller out
  sent,     \* when requests were let through, one after the other
  failures

keys    == <<count, expires>>
callers == <<waits, wake>>
vars    == <<now, keys, callers, epoch, seen, sent, failures>>

Times == 0 .. MaxTime

TypeOK ==
  /\ now      \in Times
  /\ count    \in [Endpoint -> Nat]
  /\ expires  \in [Endpoint -> Nat]
  /\ waits    \in [Caller -> Endpoint \cup {NoEndpoint}]
  /\ wake     \in [Caller -> Nat]
  /\ epoch    \in [Endpoint -> Nat]
  /\ seen     \in [Caller -> Nat]
  /\ sent     \in [Endpoint -> Seq(Times)]
  /\ failures \in 0 .. MaxFailures

Init ==
  /\ now      = 0
  /\ count    = [ep \in Endpoint |-> 0]
  /\ expires  = [ep \in Endpoint |-> 0]
  /\ waits    = [c \in Caller |-> NoEndpoint]
  /\ wake     = [c \in Caller |-> 0]
  /\ epoch    = [ep \in Endpoint |-> 0]
  /\ seen     = [c \in Caller |-> 0]
  /\ sent     = [ep \in Endpoint |-> <<>>]
  /\ failures = 0

-----------------------------------------------------------------------------
\* Faulty variant: the key is deleted when it has rejected a request.
LiveUntilRejection(ep) == count[ep] > 0 /\ now < expires[ep] /\ count[ep] <= Limit

\* The key exists: it was set and its time to live is not over.
Live(ep) == count[ep] > 0 /\ now < expires[ep]

\* A caller may call for an endpoint: it is free, or it was deferred for that
\* endpoint and its countdown has elapsed.
MayCall(c, ep) == waits[c] = NoEndpoint \/ (waits[c] = ep /\ wake[c] <= now)

\* INCR: an absent key counts from zero.
Incremented(ep) == IF Live(ep) THEN count[ep] + 1 ELSE 1

\* Faulty variant: EXPIRE on every increment.
AnchoredAgain(ep) == now + Window

\* EXPIRE, on the first increment of a window only.
Anchored(ep) == IF Live(ep) THEN expires[ep] ELSE now + Window

Script(ep) ==
  /\ count'   = [count EXCEPT ![ep] = Incremented(ep)]
  /\ expires' = [expires EXCEPT ![ep] = Anchored(ep)]
  /\ epoch'   = [epoch EXCEPT ![ep] = IF Live(ep) THEN @ ELSE @ + 1]

\* Faulty variant: one request too many.
RejectedLate(ep) == Incremented(ep) > Limit + 1

Rejected(ep) == Incremented(ep) > Limit

Send(c, ep) ==
  /\ sent'  = [sent EXCEPT ![ep] = Append(@, now)]
  /\ waits' = [waits EXCEPT ![c] = NoEndpoint]
  /\ UNCHANGED <<wake, seen>>

\* is_rate_limited returns (False, 0): the caller goes on to its POST.
Admit(c, ep) ==
  /\ MayCall(c, ep)
  /\ ~Rejected(ep)
  /\ Script(ep)
  /\ Send(c, ep)
  /\ UNCHANGED <<now, failures>>

\* is_rate_limited returns (True, window_seconds): the caller is deferred by
\* the whole window, whatever is left of it.
Throttle(c, ep) ==
  /\ MayCall(c, ep)
  /\ Rejected(ep)
  /\ Script(ep)
  /\ waits' = [waits EXCEPT ![c] = ep]
  /\ wake'  = [wake EXCEPT ![c] = now + Window]
  /\ seen'  = [seen EXCEPT ![c] = epoch'[ep]]
  /\ UNCHANGED <<now, sent, failures>>

\* The same answer to a caller that does not wait: the thread of a suite.
Rebuff(ep) ==
  /\ Rejected(ep)
  /\ Script(ep)
  /\ UNCHANGED <<now, callers, seen, sent, failures>>

\* The script call raises: the limiter fails open.
FailOpen(c, ep) ==
  /\ MayCall(c, ep)
  /\ failures < MaxFailures
  /\ failures' = failures + 1
  /\ Send(c, ep)
  /\ UNCHANGED <<now, keys, epoch>>

Tick ==
  /\ now < MaxTime
  /\ now' = now + 1
  /\ UNCHANGED <<keys, callers, epoch, seen, sent, failures>>

Call(c, ep) == Admit(c, ep) \/ Throttle(c, ep) \/ Rebuff(ep) \/ FailOpen(c, ep)

Next == Tick \/ \E c \in Caller, ep \in Endpoint : Call(c, ep)

Spec == Init /\ [][Next]_vars

-----------------------------------------------------------------------------
(* Properties.                                                              *)

SentIn(ep, from, to) ==
  Cardinality({i \in DOMAIN sent[ep] : from <= sent[ep][i] /\ sent[ep][i] < to})

\* Within one window of the key at most Limit requests reach the endpoint,
\* but for those let through while Redis was unreachable.
LimitPerWindow ==
  \A ep \in Endpoint : count[ep] > 0 =>
    SentIn(ep, expires[ep] - Window, expires[ep]) <= Limit + failures

\* The documented worst case: in any interval of the length of a window, on
\* whatever boundary, at most twice the limit.
TwiceLimitAnywhere ==
  \A ep \in Endpoint, t \in Times : SentIn(ep, t, t + Window) <= 2 * Limit + failures

\* The countdown is long enough: when a deferred caller comes back, the
\* window that threw it out is over.
RetryAfterSuffices ==
  \A c \in Caller : \A ep \in Endpoint :
    waits[c] = ep /\ wake[c] <= now => ~(Live(ep) /\ epoch[ep] = seen[c])
=============================================================================
