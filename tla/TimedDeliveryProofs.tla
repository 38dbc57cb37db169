------------------------ MODULE TimedDeliveryProofs ------------------------
(* Proofs about TimedDelivery, for every value of the constants.            *)
EXTENDS TimedDelivery, RateLimiterProofs

(***************************************************************************)
(* Tasks and threads use the limiter as its callers may: what is proved of  *)
(* RateLimiter holds for them.                                              *)
(***************************************************************************)

LEMMA TimedStep == [TimedNext]_timedVars => [Next]_vars
<1> SUFFICES ASSUME [TimedNext]_timedVars PROVE [Next]_vars
  OBVIOUS
<1>1. CASE TimePasses
  BY <1>1 DEF TimePasses, Next
<1>2. ASSUME NEW c \in Caller, PostSigned(c) \/ Defer(c) \/ ThreadCalls(c) PROVE Next
  <2>1. Target[c] \in Endpoint
    BY TargetAssumption
  <2>2. Call(c, Target[c])
    BY <1>2 DEF PostSigned, Defer, ThreadCalls, Call
  <2> QED BY <2>1, <2>2 DEF Next
<1>3. ASSUME NEW c \in Caller, NoAnswer(c) \/ Receive(c) \/ ThreadCounts(c) PROVE UNCHANGED vars
  BY <1>3 DEF NoAnswer, Receive, ThreadCounts
<1>4. CASE UNCHANGED timedVars
  BY <1>4 DEF timedVars
<1> QED BY <1>1, <1>2, <1>3, <1>4 DEF TimedNext

LEMMA TimedIsLimiter == TimedSpec => Spec
<1>1. TimedInit => Init
  BY DEF TimedInit
<1> QED BY <1>1, TimedStep, PTL DEF TimedSpec, Spec

\* A task that was deferred comes back when the window that rejected it is
\* over, also with its backoffs, its timeouts and the other tasks around it.
THEOREM TimedRetryAfter == TimedSpec => []RetryAfterSuffices
  BY TimedIsLimiter, RetryAfter

\* The limit of a window holds for the tasks and the threads together: neither
\* backoffs nor deferrals bring more to an endpoint than its limiter admits.
THEOREM TimedPerWindow == TimedSpec => []LimitPerWindow
  BY TimedIsLimiter, PerWindow

\* So does the limit on any interval of the length of a window.
THEOREM TimedTwiceLimit == TimedSpec => []TwiceLimitAnywhere
  BY TimedIsLimiter, TwiceLimit

(***************************************************************************)
(* Type correctness.                                                        *)
(***************************************************************************)

LEMMA TimedTypeInit == TimedInit => TimedTypeOK
  BY TypeInit, RetriesAssumption, CallsAssumption DEF TimedInit, TimedTypeOK

\* A task leaves its POST as one that comes back with a retry left, or ends.
LEMMA ConcludeTypes ==
  ASSUME TimedTypeOK, NEW c \in Caller,
         NEW outcome \in {"success", "client_error", "transient_error"}, Conclude(c, outcome)
  PROVE  \/ outcome = "transient_error" /\ retries[c] < MaxRetries /\ \E d \in Nat : ComesBack(c, d)
         \/ Ends(c, outcome)
<1>1. Countdowns(retries[c]) \subseteq Nat
  BY DelaysAssumption DEF Countdowns
<1> QED BY <1>1 DEF Conclude

LEMMA TimedTypeNext == TimedTypeOK /\ [TimedNext]_timedVars => TimedTypeOK'
<1> SUFFICES ASSUME TimedTypeOK, [TimedNext]_timedVars PROVE TimedTypeOK'
  OBVIOUS
<1>0. TypeOK' /\ now \in Nat
  <2>1. TypeOK
    BY DEF TimedTypeOK
  <2>2. TypeOK'
    BY <2>1, TimedStep, TypeNext
  <2>3. now \in Nat
    BY <2>1 DEF TypeOK, Times
  <2> QED BY <2>2, <2>3
<1>a. ASSUME NEW c \in Caller, phase[c] # "ended", NEW d \in Nat, ComesBack(c, d),
             retries[c] < MaxRetries, UNCHANGED <<threads, clocks, suite>>
      PROVE  TimedTypeOK'
  BY <1>0, <1>a, RetriesAssumption DEF ComesBack, TimedTypeOK, clocks, suite
<1>b. ASSUME NEW c \in Caller, NEW how \in {"success", "client_error", "transient_error", "dropped"},
             Ends(c, how), UNCHANGED <<threads, clocks, suite>>
      PROVE  TimedTypeOK'
  BY <1>0, <1>b, RetriesAssumption DEF Ends, TimedTypeOK, clocks, suite
<1>1. CASE TimePasses
  BY <1>0, <1>1 DEF TimePasses, TimedTypeOK, clocks, tasks, suite
<1>2. ASSUME NEW c \in Caller, PostSigned(c) PROVE TimedTypeOK'
  BY <1>0, <1>2 DEF PostSigned, StampOf, Due, TimedTypeOK, clocks, suite
<1>3. ASSUME NEW c \in Caller, Defer(c) PROVE TimedTypeOK'
  <2>1. Window \in Nat /\ phase[c] = "due" /\ UNCHANGED <<threads, clocks, suite>>
    BY <1>3, WindowAssumption DEF Defer, Due
  <2>2. CASE retries[c] < MaxRetries
    BY <1>3, <1>a, <2>1, <2>2 DEF Defer
  <2>3. CASE ~(retries[c] < MaxRetries)
    BY <1>3, <1>b, <2>1, <2>3 DEF Defer
  <2> QED BY <2>2, <2>3
<1>4. ASSUME NEW c \in Caller, NoAnswer(c) \/ Receive(c) PROVE TimedTypeOK'
  <2>1. phase[c] # "ended" /\ UNCHANGED <<threads, clocks, suite>>
    BY <1>4 DEF NoAnswer, Receive
  <2>2. PICK o \in {"success", "client_error", "transient_error"} : Conclude(c, o)
    <3>1. \A code : Classify(code) \in {"success", "client_error", "transient_error"}
      BY DEF Classify
    <3> QED BY <1>4, <3>1 DEF NoAnswer, Receive
  <2> QED BY <1>a, <1>b, <2>1, <2>2, ConcludeTypes
<1>5. ASSUME NEW c \in Caller, ThreadCalls(c) PROVE TimedTypeOK'
  BY <1>0, <1>5, CallsAssumption DEF ThreadCalls, TimedTypeOK, clocks, tasks
<1>6. ASSUME NEW c \in Caller, ThreadCounts(c) PROVE TimedTypeOK'
  BY <1>0, <1>6 DEF ThreadCounts, TimedTypeOK, clocks, tasks
<1>7. CASE UNCHANGED timedVars
  BY <1>0, <1>7 DEF timedVars, TimedTypeOK, clocks, tasks, suite
<1> QED BY <1>1, <1>2, <1>3, <1>4, <1>5, <1>6, <1>7 DEF TimedNext

\* Clocks, tasks and threads keep their types; in particular no backoff and no
\* deferral takes a task beyond its last retry.
THEOREM TimedTypeCorrect == TimedSpec => []TimedTypeOK
  BY TimedTypeInit, TimedTypeNext, PTL DEF TimedSpec

(***************************************************************************)
(* No genuine request is refused. Each attempt is signed with the time at   *)
(* which it begins to wait, so that its age at the receiver is what passed  *)
(* since, and the skew.                                                     *)
(***************************************************************************)

FreshInv ==
  /\ \A c \in Caller : phase[c] = "posting" => stamp[c] = since[c] /\ stamp[c] <= now
  /\ GenuineIsAccepted

\* What the receiver makes of a genuine request while its answer is awaited.
LEMMA GenuineVerifies ==
  ASSUME TimedTypeOK, FreshInv, NEW c \in Caller, phase[c] = "posting",
         now <= since[c] + HttpTimeout, secret[Target[c]] = "shared"
  PROVE  MockSecure(Header(c), c, now + skew) = 200
<1>1. Header(c) = [t |-> stamp[c], v1 |-> <<"shared", stamp[c], c>>]
  BY DEF Header, GenerateSignature
<1>2. Header(c) # NoHeader
  BY <1>1 DEF NoHeader
<1>3. ~(Age(now + skew, Header(c).t) > Tolerance)
  <2>1. stamp[c] \in Nat /\ now \in Nat /\ skew \in Int /\ since[c] \in Nat
    BY ToleranceAssumption, BoundAssumption DEF TimedTypeOK, TypeOK, Times
  <2>2. stamp[c] <= now /\ now <= stamp[c] + HttpTimeout
    BY DEF FreshInv
  <2>3. skew + HttpTimeout <= Tolerance /\ -skew <= Tolerance
    BY ToleranceAssumption DEF TimedTypeOK
  <2> QED BY <1>1, <2>1, <2>2, <2>3, ToleranceAssumption DEF Age
<1>4. VerifySignature("shared", Header(c), c, 0, now + skew)
  BY <1>1, <1>2 DEF VerifySignature
<1> QED BY <1>2, <1>3, <1>4 DEF MockSecure

LEMMA FreshNext == TimedTypeOK /\ FreshInv /\ [TimedNext]_timedVars => FreshInv'
<1> SUFFICES ASSUME TimedTypeOK, FreshInv, [TimedNext]_timedVars PROVE FreshInv'
  OBVIOUS
<1>0. now \in Nat /\ \A c \in Caller : Target[c] \in Endpoint /\ stamp[c] \in Nat
  BY TargetAssumption, BoundAssumption DEF TimedTypeOK, TypeOK, Times
<1>a. ASSUME NEW c \in Caller, NEW d, ComesBack(c, d), now' = now, UNCHANGED clocks
      PROVE  FreshInv'
  BY <1>a DEF ComesBack, FreshInv, GenuineIsAccepted, TimedTypeOK, clocks
<1>b. ASSUME NEW c \in Caller, NEW how, Ends(c, how), now' = now, UNCHANGED clocks,
             how = "client_error" => secret[Target[c]] # "shared"
      PROVE  FreshInv'
  BY <1>b DEF Ends, FreshInv, GenuineIsAccepted, TimedTypeOK, clocks
<1>1. CASE TimePasses
  BY <1>0, <1>1 DEF TimePasses, Tick, FreshInv, GenuineIsAccepted, clocks, tasks
<1>2. ASSUME NEW c \in Caller, PostSigned(c) PROVE FreshInv'
  <2>1. now' = now
    BY <1>2 DEF PostSigned, Admit, FailOpen
  <2> QED BY <1>0, <1>2, <2>1
          DEF PostSigned, StampOf, FreshInv, GenuineIsAccepted, TimedTypeOK, clocks
<1>3. ASSUME NEW c \in Caller, Defer(c) PROVE FreshInv'
  <2>1. now' = now /\ UNCHANGED clocks
    BY <1>3 DEF Defer, Throttle
  <2> QED BY <1>3, <1>a, <1>b, <2>1 DEF Defer
<1>4. ASSUME NEW c \in Caller, NoAnswer(c) \/ Receive(c) PROVE FreshInv'
  <2>1. now' = now /\ UNCHANGED clocks /\ phase[c] = "posting"
    BY <1>4 DEF NoAnswer, Receive, vars
  <2>2. PICK o \in {"success", "client_error", "transient_error"} :
          Conclude(c, o) /\ (o = "client_error" => secret[Target[c]] # "shared")
    <3>1. CASE NoAnswer(c)
      BY <3>1 DEF NoAnswer
    <3>2. CASE Receive(c)
      <4>1. PICK code \in {MockSecure(Header(c), c, now + skew), 500} : Conclude(c, Classify(code))
        BY <3>2 DEF Receive
      <4>2. now <= since[c] + HttpTimeout
        BY <3>2 DEF Receive
      <4>3. secret[Target[c]] = "shared" => code \in {200, 500}
        BY <2>1, <4>1, <4>2, GenuineVerifies
      <4>4. Classify(200) = "success" /\ Classify(500) = "transient_error"
        BY DEF Classify
      <4>5. Classify(code) \in {"success", "client_error", "transient_error"}
        BY DEF Classify
      <4> QED BY <4>1, <4>3, <4>4, <4>5
    <3> QED BY <1>4, <3>1, <3>2
  <2> QED BY <1>a, <1>b, <2>1, <2>2, ConcludeTypes
<1>5. ASSUME NEW c \in Caller, ThreadCalls(c) \/ ThreadCounts(c) PROVE FreshInv'
  <2>1. now' = now /\ UNCHANGED <<clocks, tasks>>
    BY <1>5 DEF ThreadCalls, ThreadCounts, Admit, FailOpen, Rebuff, vars
  <2> QED BY <2>1 DEF FreshInv, GenuineIsAccepted, clocks, tasks
<1>6. CASE UNCHANGED timedVars
  BY <1>6 DEF timedVars, vars, FreshInv, GenuineIsAccepted, clocks, tasks
<1> QED BY <1>1, <1>2, <1>3, <1>4, <1>5, <1>6 DEF TimedNext

\* A request signed with the receiver's secret is never refused while its
\* answer is awaited, whatever the backoffs, the deferrals and, within the
\* tolerance, the clocks: FAILED means that the secrets differ.
THEOREM Genuine == TimedSpec => []GenuineIsAccepted
<1>1. TimedInit => FreshInv
  BY DEF TimedInit, FreshInv, GenuineIsAccepted
<1>2. FreshInv => GenuineIsAccepted
  BY DEF FreshInv
<1> QED BY <1>1, <1>2, TimedTypeInit, TimedTypeNext, FreshNext, PTL DEF TimedSpec


(***************************************************************************)
(* The suites find the exact limit. The calls that were made are counted as *)
(* a set of tokens, thread by thread, so that no increment can hide in the  *)
(* order of calls and counts: what the counters and the results in flight   *)
(* add up to is the size of that set, and in the first window so is the key.*)
(***************************************************************************)

Made == {x \in Caller \X (1 .. Calls) : left[x[1]] < x[2]}

Pending(what) == {c \in Caller : answer[c] = what}

\* All threads call for one endpoint, Redis answered, one window is open.
OneWindow(ep) == (\A c \in Caller : Target[c] = ep) /\ failures = 0 /\ epoch[ep] <= 1

\* Each call is counted once, or its result waits to be.
Conserved ==
  Cardinality(Made) = allowed + rejected
                        + Cardinality(Pending("allowed")) + Cardinality(Pending("rejected"))

\* In the first window the key counts the calls, and the allowed ones stop at
\* the limit.
Exact(ep) ==
  /\ count[ep] = Cardinality(Made)
  /\ epoch[ep] = 0 => count[ep] = 0
  /\ allowed + Cardinality(Pending("allowed")) = Counted(ep)

SuiteInv == threads => Conserved /\ \A ep \in Endpoint : OneWindow(ep) => Exact(ep)

LEMMA MadeFinite == IsFiniteSet(Made) /\ Cardinality(Made) \in Nat
<1>1. IsFiniteSet(1 .. Calls)
  BY FS_Interval, CallsAssumption
<1>2. IsFiniteSet(Caller \X (1 .. Calls))
  BY <1>1, FS_Product, CallersAssumption
<1>3. Made \in SUBSET (Caller \X (1 .. Calls))
  BY DEF Made
<1>4. IsFiniteSet(Made)
  BY <1>2, <1>3, FS_Subset
<1> QED BY <1>4, FS_CardinalityType

LEMMA PendingFinite ==
  ASSUME NEW what
  PROVE  IsFiniteSet(Pending(what)) /\ Cardinality(Pending(what)) \in Nat
<1>1. Pending(what) \in SUBSET Caller
  BY DEF Pending
<1>2. IsFiniteSet(Pending(what))
  BY <1>1, FS_Subset, CallersAssumption
<1> QED BY <1>2, FS_CardinalityType

\* A call is one token more, a result one thread more that has to count it.
LEMMA CallMade ==
  ASSUME TimedTypeOK, NEW c \in Caller, left[c] > 0, left' = [left EXCEPT ![c] = @ - 1]
  PROVE  Cardinality(Made)' = Cardinality(Made) + 1
<1> DEFINE x == <<c, left[c]>>
<1>1. left \in [Caller -> 0 .. Calls] /\ Calls \in Nat
  BY CallsAssumption DEF TimedTypeOK
<1>2. x \notin Made
  BY <1>1 DEF Made
<1>3. Made' = Made \cup {x}
  <2>1. ASSUME NEW d \in Caller, NEW k \in 1 .. Calls
        PROVE  left'[d] < k <=> (left[d] < k \/ (d = c /\ k = left[c]))
    BY <1>1
  <2>2. x \in Caller \X (1 .. Calls)
    BY <1>1
  <2> QED BY <2>1, <2>2 DEF Made
<1> HIDE DEF x
<1>4. Cardinality(Made \cup {x}) = Cardinality(Made) + 1
  BY <1>2, MadeFinite, FS_AddElement
<1> QED BY <1>3, <1>4

LEMMA ResultPending ==
  ASSUME TimedTypeOK, NEW c \in Caller, answer[c] = "none", NEW what \in {"allowed", "rejected"},
         answer' = [answer EXCEPT ![c] = what]
  PROVE  \A w \in {"allowed", "rejected"} :
           Cardinality(Pending(w))' = Cardinality(Pending(w)) + (IF w = what THEN 1 ELSE 0)
<1> TAKE w \in {"allowed", "rejected"}
<1>0. IsFiniteSet(Pending(w)) /\ Cardinality(Pending(w)) \in Nat
  BY PendingFinite
<1>1. CASE w = what
  <2>1. Pending(w)' = Pending(w) \cup {c} /\ c \notin Pending(w)
    BY <1>1 DEF Pending, TimedTypeOK
  <2>2. Cardinality(Pending(w) \cup {c}) = Cardinality(Pending(w)) + 1
    BY <1>0, <2>1, FS_AddElement
  <2> QED BY <1>1, <2>1, <2>2
<1>2. CASE w # what
  <2>1. Pending(w)' = Pending(w)
    BY <1>2 DEF Pending, TimedTypeOK
  <2> QED BY <1>0, <1>2, <2>1
<1> QED BY <1>1, <1>2

LEMMA ResultCounted ==
  ASSUME TimedTypeOK, NEW c \in Caller, answer[c] # "none",
         answer' = [answer EXCEPT ![c] = "none"]
  PROVE  \A w \in {"allowed", "rejected"} :
           /\ Cardinality(Pending(w))' \in Nat
           /\ Cardinality(Pending(w)) = Cardinality(Pending(w))' + (IF w = answer[c] THEN 1 ELSE 0)
<1> TAKE w \in {"allowed", "rejected"}
<1>0. IsFiniteSet(Pending(w)) /\ Cardinality(Pending(w)) \in Nat
  BY PendingFinite
<1>1. CASE w = answer[c]
  <2>1. Pending(w)' = Pending(w) \ {c} /\ c \in Pending(w)
    BY <1>1 DEF Pending, TimedTypeOK
  <2>2. /\ IsFiniteSet(Pending(w) \ {c})
        /\ Cardinality(Pending(w) \ {c}) = Cardinality(Pending(w)) - 1
    BY <1>0, <2>1, FS_RemoveElement
  <2>3. Cardinality(Pending(w) \ {c}) \in Nat
    BY <2>2, FS_CardinalityType
  <2> QED BY <1>0, <1>1, <2>1, <2>2, <2>3
<1>2. CASE w # answer[c]
  <2>1. Pending(w)' = Pending(w)
    BY <1>2 DEF Pending, TimedTypeOK
  <2> QED BY <1>0, <1>2, <2>1
<1> QED BY <1>1, <1>2

LEMMA SuiteInit == TimedInit => SuiteInv
<1> SUFFICES ASSUME TimedInit, threads PROVE Conserved /\ \A ep \in Endpoint : Exact(ep)
  BY DEF SuiteInv
<1>1. Made = {} /\ Pending("allowed") = {} /\ Pending("rejected") = {}
  BY CallsAssumption DEF TimedInit, Made, Pending
<1>2. Cardinality({}) = 0
  BY FS_EmptySet
<1>3. Conserved
  BY <1>1, <1>2 DEF TimedInit, Conserved
<1>4. ASSUME NEW ep \in Endpoint PROVE Exact(ep)
  <2>1. count[ep] = 0 /\ Counted(ep) = 0
    BY LimitAssumption DEF TimedInit, Init, Counted
  <2> QED BY <1>1, <1>2, <2>1 DEF TimedInit, Exact
<1> QED BY <1>3, <1>4

\* What a thread's call does to the key of its endpoint.
LEMMA CallCounts ==
  ASSUME TypeOK, NEW ep \in Endpoint, Script(ep), epoch'[ep] <= 1,
         epoch[ep] = 0 => count[ep] = 0
  PROVE  /\ epoch[ep] <= 1 /\ epoch'[ep] # 0
         /\ Incremented(ep) = count[ep] + 1 /\ count'[ep] = count[ep] + 1
<1>1. epoch[ep] \in Nat /\ count[ep] \in Nat
  BY DEF TypeOK
<1>2. epoch'[ep] = (IF Live(ep) THEN epoch[ep] ELSE epoch[ep] + 1) /\ count'[ep] = Incremented(ep)
  BY DEF Script, TypeOK
<1>3. Live(ep) => count[ep] > 0
  BY DEF Live
<1> QED BY <1>1, <1>2, <1>3 DEF Incremented

LEMMA SuiteNext == TimedTypeOK /\ SuiteInv /\ [TimedNext]_timedVars => SuiteInv'
<1> SUFFICES ASSUME TimedTypeOK, SuiteInv, [TimedNext]_timedVars, threads'
             PROVE  Conserved' /\ \A ep \in Endpoint : OneWindow(ep)' => Exact(ep)'
  BY DEF SuiteInv
<1>0. threads
  BY DEF TimedNext, timedVars, TimePasses, PostSigned, Defer, NoAnswer, Receive, ThreadCalls,
         ThreadCounts
<1> DEFINE m == Cardinality(Made)  n == Cardinality(Made)'
           pa == Cardinality(Pending("allowed"))  qa == Cardinality(Pending("allowed"))'
           pr == Cardinality(Pending("rejected"))  qr == Cardinality(Pending("rejected"))'
<1>1. Conserved /\ \A ep \in Endpoint : OneWindow(ep) => Exact(ep)
  BY <1>0 DEF SuiteInv
<1>2. m \in Nat /\ pa \in Nat /\ pr \in Nat
  BY MadeFinite, PendingFinite
<1>3. /\ TypeOK /\ \A ep \in Endpoint : count[ep] \in Nat /\ epoch[ep] \in Nat
      /\ allowed \in Nat /\ rejected \in Nat /\ failures \in Nat /\ Limit \in Nat \ {0}
  BY LimitAssumption, BoundAssumption DEF TimedTypeOK, TypeOK
<1>4. ASSUME UNCHANGED <<count, epoch, failures, suite>>
      PROVE  Conserved' /\ \A ep \in Endpoint : OneWindow(ep)' => Exact(ep)'
  <2>1. n = m /\ qa = pa /\ qr = pr /\ allowed' = allowed /\ rejected' = rejected
    BY <1>4 DEF suite, Made, Pending
  <2>2. Conserved'
    BY <1>1, <2>1 DEF Conserved
  <2>3. ASSUME NEW ep \in Endpoint, OneWindow(ep)' PROVE Exact(ep)'
    <3>1. Exact(ep)
      BY <1>1, <1>4, <2>3 DEF OneWindow
    <3> QED BY <1>4, <2>1, <3>1 DEF Exact, Counted
  <2> QED BY <2>2, <2>3
<1>5. ASSUME NEW c \in Caller, ThreadCalls(c)
      PROVE  Conserved' /\ \A ep \in Endpoint : OneWindow(ep)' => Exact(ep)'
  <2>1. n = m + 1
    BY <1>5, CallMade DEF ThreadCalls
  <2>2. PICK what \in {"allowed", "rejected"} :
          /\ answer' = [answer EXCEPT ![c] = what]
          /\ what = "allowed" => Admit(c, Target[c]) \/ FailOpen(c, Target[c])
          /\ what = "rejected" => Rebuff(Target[c])
    BY <1>5 DEF ThreadCalls
  <2>3. answer[c] = "none" /\ allowed' = allowed /\ rejected' = rejected
    BY <1>5 DEF ThreadCalls
  <2>4. qa = pa + (IF what = "allowed" THEN 1 ELSE 0) /\ qr = pr + (IF what = "rejected" THEN 1 ELSE 0)
    BY <2>2, <2>3, ResultPending
  <2> HIDE DEF m, n, pa, qa, pr, qr
  <2>5. Conserved'
    <3>1. m = allowed + rejected + pa + pr
      BY <1>1 DEF Conserved, m, pa, pr
    <3>2. n = allowed' + rejected' + qa + qr
      BY <1>2, <1>3, <2>1, <2>2, <2>3, <2>4, <3>1
    <3> QED BY <3>2 DEF Conserved, n, qa, qr
  <2>6. ASSUME NEW ep \in Endpoint, OneWindow(ep)' PROVE Exact(ep)'
    <3>1. Target[c] = ep /\ failures' = 0 /\ epoch'[ep] <= 1
      BY <2>6 DEF OneWindow
    <3>2. ~FailOpen(c, ep)
      BY <1>3, <3>1 DEF FailOpen
    <3>3. /\ what = "allowed" => ~Rejected(ep)
          /\ what = "rejected" => Rejected(ep)
          /\ Script(ep) /\ failures' = failures
      BY <2>2, <3>1, <3>2 DEF Admit, Rebuff
    <3>4. epoch[ep] <= 1
      BY <1>3, <3>1, <3>3 DEF Script, TypeOK
    <3>5. Exact(ep)
      BY <1>1, <2>6, <3>3, <3>4 DEF OneWindow
    <3>6. Incremented(ep) = count[ep] + 1 /\ count'[ep] = count[ep] + 1 /\ epoch'[ep] # 0
      BY <1>3, <3>1, <3>3, <3>5, CallCounts DEF Exact
    <3>7. count[ep] = m /\ allowed + pa = Counted(ep)
      BY <3>5 DEF Exact, m, pa
    <3>8. count'[ep] = n
      BY <2>1, <3>6, <3>7
    <3>9. allowed' + qa = Counted(ep)'
      <4>1. /\ Counted(ep) = IF count[ep] < Limit THEN count[ep] ELSE Limit
            /\ Counted(ep)' = IF count'[ep] < Limit THEN count'[ep] ELSE Limit
        BY DEF Counted
      <4>2. Rejected(ep) <=> count[ep] + 1 > Limit
        BY <3>6 DEF Rejected
      <4>3. count[ep] \in Nat
        BY <1>3
      <4>4. CASE what = "allowed"
        BY <1>2, <1>3, <2>3, <2>4, <3>3, <3>6, <3>7, <4>1, <4>2, <4>3, <4>4
      <4>5. CASE what = "rejected"
        BY <1>2, <1>3, <2>3, <2>4, <3>3, <3>6, <3>7, <4>1, <4>2, <4>3, <4>5
      <4> QED BY <2>2, <4>4, <4>5
    <3> QED BY <3>6, <3>8, <3>9 DEF Exact, n, qa
  <2> QED BY <2>5, <2>6
<1>6. ASSUME NEW c \in Caller, ThreadCounts(c)
      PROVE  Conserved' /\ \A ep \in Endpoint : OneWindow(ep)' => Exact(ep)'
  <2>1. n = m /\ UNCHANGED <<count, epoch, failures>>
    BY <1>6 DEF ThreadCounts, Made, vars, keys
  <2>2. /\ answer[c] \in {"allowed", "rejected"} /\ answer' = [answer EXCEPT ![c] = "none"]
        /\ allowed' = allowed + (IF answer[c] = "allowed" THEN 1 ELSE 0)
        /\ rejected' = rejected + (IF answer[c] = "rejected" THEN 1 ELSE 0)
    BY <1>6 DEF ThreadCounts, TimedTypeOK
  <2>3. pa = qa + (IF "allowed" = answer[c] THEN 1 ELSE 0) /\ pr = qr + (IF "rejected" = answer[c] THEN 1 ELSE 0)
    BY <2>2, ResultCounted
  <2>4. qa \in Nat /\ qr \in Nat
    BY <2>2, ResultCounted
  <2> HIDE DEF m, n, pa, qa, pr, qr
  <2>5. Conserved'
    <3>1. m = allowed + rejected + pa + pr
      BY <1>1 DEF Conserved, m, pa, pr
    <3>2. n = allowed' + rejected' + qa + qr
      BY <1>2, <1>3, <2>1, <2>2, <2>3, <2>4, <3>1
    <3> QED BY <3>2 DEF Conserved, n, qa, qr
  <2>6. ASSUME NEW ep \in Endpoint, OneWindow(ep)' PROVE Exact(ep)'
    <3>1. Exact(ep)
      BY <1>1, <2>1, <2>6 DEF OneWindow
    <3>2. count[ep] = m /\ allowed + pa = Counted(ep)
      BY <3>1 DEF Exact, m, pa
    <3>3. count'[ep] = n /\ (epoch'[ep] = 0 => count'[ep] = 0)
      BY <2>1, <3>1, <3>2 DEF Exact
    <3>4. allowed' + qa = Counted(ep)'
      BY <1>3, <2>1, <2>2, <2>3, <2>4, <3>2 DEF Counted
    <3> QED BY <3>3, <3>4 DEF Exact, n, qa
  <2> QED BY <2>5, <2>6
<1>7. CASE TimePasses
  BY <1>4, <1>7 DEF TimePasses, Tick, keys
<1>8. ASSUME NEW c \in Caller, NoAnswer(c) \/ Receive(c)
      PROVE  Conserved' /\ \A ep \in Endpoint : OneWindow(ep)' => Exact(ep)'
  BY <1>4, <1>8 DEF NoAnswer, Receive, vars, keys
<1>9. CASE UNCHANGED timedVars
  BY <1>4, <1>9 DEF timedVars, vars, keys
<1>10. \A c \in Caller : ~PostSigned(c) /\ ~Defer(c)
  BY <1>0 DEF PostSigned, Defer, Due
<1> QED BY <1>5, <1>6, <1>7, <1>8, <1>9, <1>10 DEF TimedNext

\* When all threads are joined, every call of each was made.
LEMMA JoinedMade == TimedTypeOK /\ Joined => Cardinality(Made) = Total
<1> SUFFICES ASSUME TimedTypeOK, Joined PROVE Cardinality(Made) = Total
  OBVIOUS
<1>1. Made = Caller \X (1 .. Calls)
  BY CallsAssumption DEF Made, Joined
<1>2. IsFiniteSet(1 .. Calls) /\ Cardinality(1 .. Calls) = Calls
  BY FS_Interval, CallsAssumption
<1>3. Cardinality(Caller \X (1 .. Calls)) = Cardinality(Caller) * Cardinality(1 .. Calls)
  BY <1>2, FS_Product, CallersAssumption
<1> QED BY <1>1, <1>2, <1>3 DEF Total

\* SuiteFindsExactLimit for any number of threads, calls and ticks: when the
\* threads are joined, Redis answered all of them and the first window is still
\* open, the assertions of the suites hold, whatever order the calls and the
\* counts of their results came in.
THEOREM SuiteExact == TimedSpec => []SuiteFindsExactLimit
<1>1. TimedTypeOK /\ SuiteInv => SuiteFindsExactLimit
  <2> SUFFICES ASSUME TimedTypeOK, SuiteInv, Joined, failures = 0, Total >= Limit,
                      NEW ep \in Endpoint, \A c \in Caller : Target[c] = ep, epoch[ep] = 1, Live(ep)
               PROVE  SuitePasses(ep)
    BY DEF SuiteFindsExactLimit
  <2>1. Conserved /\ Exact(ep)
    BY DEF SuiteInv, OneWindow, Joined
  <2>2. Cardinality(Made) = Total
    BY JoinedMade
  <2>3. Cardinality(Pending("allowed")) = 0 /\ Cardinality(Pending("rejected")) = 0
    <3>1. Pending("allowed") = {} /\ Pending("rejected") = {}
      BY DEF Pending, Joined
    <3> QED BY <3>1, FS_EmptySet
  <2>4. allowed \in Nat /\ rejected \in Nat /\ count[ep] \in Nat /\ Limit \in Nat
    BY LimitAssumption DEF TimedTypeOK, TypeOK
  <2>5. Total = allowed + rejected /\ count[ep] = Total
    BY <2>1, <2>2, <2>3, <2>4 DEF Conserved, Exact
  <2>6. allowed = Limit
    BY <2>1, <2>3, <2>4, <2>5 DEF Exact, Counted
  <2> QED BY <2>4, <2>5, <2>6 DEF SuitePasses
<1>2. TimedSpec => []TimedTypeOK
  BY TimedTypeCorrect
<1> QED BY <1>1, <1>2, SuiteInit, SuiteNext, PTL DEF TimedSpec
=============================================================================
