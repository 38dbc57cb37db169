------------------------- MODULE RateLimiterProofs -------------------------
(* Proofs about RateLimiter, for every value of its constants.              *)
EXTENDS RateLimiter, FiniteSetTheorems, TLAPS

(***************************************************************************)
(* Type correctness.                                                        *)
(***************************************************************************)

LEMMA TypeInit == Init => TypeOK
  BY BoundAssumption DEF Init, TypeOK, Times

LEMMA TypeNext == TypeOK /\ [Next]_vars => TypeOK'
<1> SUFFICES ASSUME TypeOK, [Next]_vars PROVE TypeOK'
  OBVIOUS
<1> USE LimitAssumption, WindowAssumption, BoundAssumption
<1>1. CASE Tick
  BY <1>1 DEF Tick, TypeOK, Times, keys, callers
<1>2. ASSUME NEW c \in Caller, NEW ep \in Endpoint, Call(c, ep) PROVE TypeOK'
  <2>1. Incremented(ep) \in Nat /\ Anchored(ep) \in Nat
    BY DEF Incremented, Anchored, TypeOK, Times
  <2>a. [sent EXCEPT ![ep] = Append(@, now)] \in [Endpoint -> Seq(Times)]
    <3>1. Append(sent[ep], now) \in Seq(Times)
      BY DEF TypeOK
    <3> QED BY <3>1 DEF TypeOK
  <2>b. ASSUME Script(ep)
        PROVE  /\ count' \in [Endpoint -> Nat]
               /\ expires' \in [Endpoint -> Nat]
               /\ epoch' \in [Endpoint -> Nat]
    BY <2>1, <2>b DEF Script, TypeOK
  <2>2. CASE Admit(c, ep)
    BY <2>a, <2>b, <2>2 DEF Admit, Send, TypeOK
  <2>3. CASE Throttle(c, ep)
    <3>1. epoch'[ep] \in Nat /\ now + Window \in Nat
      BY <2>b, <2>3 DEF Throttle, TypeOK, Times
    <3> QED BY <2>b, <2>3, <3>1 DEF Throttle, TypeOK
  <2>4. CASE FailOpen(c, ep)
    BY <2>a, <2>4 DEF FailOpen, Send, TypeOK, keys
  <2>5. CASE Rebuff(ep)
    BY <2>b, <2>5 DEF Rebuff, TypeOK, callers
  <2> QED BY <1>2, <2>2, <2>3, <2>4, <2>5 DEF Call
<1>3. CASE UNCHANGED vars
  BY <1>3 DEF vars, keys, callers, TypeOK
<1> QED BY <1>1, <1>2, <1>3 DEF Next

\* The clock, the keys and the callers keep their types.
THEOREM TypeCorrect == Spec => []TypeOK
  BY TypeInit, TypeNext, PTL DEF Spec

(***************************************************************************)
(* The countdown outlives the window. A key expires at most one window from *)
(* now, and as long as the window that threw a caller out is the current    *)
(* one, the key expires no later than the caller wakes up.                  *)
(***************************************************************************)

Horizon == \A ep \in Endpoint : expires[ep] <= now + Window

WakesAfterWindow ==
  \A c \in Caller, ep \in Endpoint : waits[c] = ep =>
    /\ seen[c] <= epoch[ep]
    /\ seen[c] = epoch[ep] => expires[ep] <= wake[c]

Inv == TypeOK /\ Horizon /\ WakesAfterWindow

LEMMA InvNext == Inv /\ [Next]_vars => Inv'
<1> SUFFICES ASSUME Inv, [Next]_vars PROVE Horizon' /\ WakesAfterWindow'
  BY TypeNext DEF Inv
<1> USE WindowAssumption DEF Inv
<1>1. CASE Tick
  BY <1>1 DEF Tick, TypeOK, Times, keys, callers, Horizon, WakesAfterWindow
<1>2. ASSUME NEW c \in Caller, NEW ep \in Endpoint, Call(c, ep)
      PROVE  Horizon' /\ WakesAfterWindow'
  <2>1. Anchored(ep) \in Nat /\ Anchored(ep) <= now + Window
    BY DEF Anchored, Horizon, TypeOK, Times
  <2>2. ASSUME Script(ep), now' = now,
               \A d \in Caller \ {c} : waits'[d] = waits[d] /\ wake'[d] = wake[d]
                                       /\ seen'[d] = seen[d]
        PROVE  /\ Horizon'
               /\ \A d \in Caller \ {c}, p \in Endpoint : waits'[d] = p =>
                    /\ seen'[d] <= epoch'[p]
                    /\ seen'[d] = epoch'[p] => expires'[p] <= wake'[d]
    <3>1. Horizon'
      BY <2>1, <2>2 DEF Script, TypeOK, Horizon
    <3>2. ASSUME NEW d \in Caller \ {c}, NEW p \in Endpoint, waits[d] = p
          PROVE  /\ seen[d] <= epoch'[p]
                 /\ seen[d] = epoch'[p] => expires'[p] <= wake[d]
      <4>1. seen[d] <= epoch[p] /\ (seen[d] = epoch[p] => expires[p] <= wake[d])
        BY <3>2 DEF WakesAfterWindow
      <4>2. CASE p # ep
        BY <2>2, <4>1, <4>2 DEF Script, TypeOK
      <4>3. CASE p = ep /\ Live(ep)
        BY <2>2, <4>1, <4>3 DEF Script, Anchored, TypeOK
      <4>4. CASE p = ep /\ ~Live(ep)
        <5>1. epoch'[p] = epoch[p] + 1
          BY <2>2, <4>4 DEF Script, TypeOK
        <5> QED BY <4>1, <5>1 DEF TypeOK
      <4> QED BY <4>2, <4>3, <4>4
    <3> QED BY <2>2, <3>1, <3>2
  <2>3. CASE Admit(c, ep)
    <3>1. waits'[c] = NoEndpoint
      BY <2>3 DEF Admit, Send, TypeOK
    <3> QED BY <2>2, <2>3, <3>1, NoEndpointAssumption
            DEF Admit, Send, TypeOK, WakesAfterWindow
  <2>4. CASE Throttle(c, ep)
    <3>1. waits'[c] = ep /\ wake'[c] = now + Window /\ seen'[c] = epoch'[ep]
      BY <2>4 DEF Throttle, TypeOK
    <3>2. expires'[ep] = Anchored(ep) /\ epoch'[ep] \in Nat
      BY <2>4 DEF Throttle, Script, TypeOK
    <3> QED BY <2>1, <2>2, <2>4, <3>1, <3>2 DEF Throttle, TypeOK, WakesAfterWindow
  <2>5. CASE FailOpen(c, ep)
    BY <2>5, NoEndpointAssumption
    DEF FailOpen, Send, TypeOK, keys, Horizon, WakesAfterWindow
  <2>6. CASE Rebuff(ep)
    <3>1. waits'[c] = waits[c] /\ wake'[c] = wake[c] /\ seen'[c] = seen[c]
      BY <2>6 DEF Rebuff, callers
    <3>2. ASSUME NEW p \in Endpoint, waits[c] = p
          PROVE  /\ seen[c] <= epoch'[p]
                 /\ seen[c] = epoch'[p] => expires'[p] <= wake[c]
      <4>1. seen[c] <= epoch[p] /\ (seen[c] = epoch[p] => expires[p] <= wake[c])
        BY <3>2 DEF WakesAfterWindow
      <4> QED BY <2>6, <4>1 DEF Rebuff, Script, Anchored, TypeOK
    <3> QED BY <2>2, <2>6, <3>1, <3>2 DEF Rebuff, callers, WakesAfterWindow
  <2> QED BY <1>2, <2>3, <2>4, <2>5, <2>6 DEF Call
<1>3. CASE UNCHANGED vars
  BY <1>3 DEF vars, keys, callers, Horizon, WakesAfterWindow
<1> QED BY <1>1, <1>2, <1>3 DEF Next

\* When a throttled task comes back, the window that threw it out is over:
\* returning the whole window as retry_after is never too short.
THEOREM RetryAfter == Spec => []RetryAfterSuffices
<1>1. Init => Inv
  BY TypeInit, WindowAssumption, NoEndpointAssumption DEF Init, Inv, Horizon, WakesAfterWindow
<1>2. Inv => RetryAfterSuffices
  BY DEF Inv, TypeOK, Times, WakesAfterWindow, RetryAfterSuffices, Live
<1> QED BY <1>1, <1>2, InvNext, PTL DEF Spec

(***************************************************************************)
(* The limits. What is counted are the requests sent since a time: they      *)
(* include those of the current window, and those let through uncounted      *)
(* after it. The window before the current one ended when it began, so at    *)
(* most one other window reaches into the Window ticks before it.            *)
(***************************************************************************)

Since(s, t) == {i \in DOMAIN s : t <= s[i]}

LEMMA SinceFinite ==
  ASSUME NEW s \in Seq(Nat), NEW S \in SUBSET DOMAIN s
  PROVE  IsFiniteSet(S) /\ Cardinality(S) \in Nat
<1>1. Len(s) \in Nat /\ DOMAIN s = 1 .. Len(s)
  OBVIOUS
<1>2. IsFiniteSet(DOMAIN s)
  BY <1>1, FS_Interval
<1>3. IsFiniteSet(S)
  BY <1>2, FS_Subset
<1> QED BY <1>3, FS_CardinalityType

\* Less is sent since a later time, and in an interval that ends.
LEMMA SinceLater ==
  ASSUME NEW s \in Seq(Nat), NEW t \in Int, NEW u \in Int, t <= u, NEW S \in SUBSET Since(s, u)
  PROVE  Cardinality(S) <= Cardinality(Since(s, t))
<1>1. IsFiniteSet(Since(s, t))
  BY SinceFinite DEF Since
<1>2. S \subseteq Since(s, t)
  BY DEF Since
<1> QED BY <1>1, <1>2, FS_Subset

LEMMA SinceNone ==
  ASSUME NEW s \in Seq(Nat), NEW t \in Int, \A i \in DOMAIN s : s[i] < t
  PROVE  Cardinality(Since(s, t)) = 0
<1>1. Since(s, t) = {}
  BY DEF Since
<1> QED BY <1>1, FS_EmptySet

\* One more request counts once at most.
LEMMA SinceAppend ==
  ASSUME NEW s \in Seq(Nat), NEW n \in Nat, NEW t \in Int
  PROVE  /\ Cardinality(Since(Append(s, n), t)) <= Cardinality(Since(s, t)) + 1
         /\ Cardinality(Since(s, t)) \in Nat
         /\ Cardinality(Since(Append(s, n), t)) \in Nat
<1>1. /\ Len(s) \in Nat /\ DOMAIN s = 1 .. Len(s)
      /\ DOMAIN Append(s, n) = 1 .. Len(s) + 1
      /\ \A i \in 1 .. Len(s) : Append(s, n)[i] = s[i]
  OBVIOUS
<1>2. Since(Append(s, n), t) \subseteq Since(s, t) \cup {Len(s) + 1}
  BY <1>1 DEF Since
<1>3. Len(s) + 1 \notin Since(s, t)
  BY <1>1 DEF Since
<1>4. IsFiniteSet(Since(s, t)) /\ Cardinality(Since(s, t)) \in Nat
  BY SinceFinite DEF Since
<1>5. /\ IsFiniteSet(Since(s, t) \cup {Len(s) + 1})
      /\ Cardinality(Since(s, t) \cup {Len(s) + 1}) = Cardinality(Since(s, t)) + 1
  BY <1>3, <1>4, FS_AddElement
<1>6. Append(s, n) \in Seq(Nat)
  OBVIOUS
<1>7. Cardinality(Since(Append(s, n), t)) \in Nat
  BY <1>6, SinceFinite DEF Since
<1> QED BY <1>2, <1>4, <1>5, <1>7, FS_Subset

\* What was sent by now, and what is sent now, is sent by now.
LEMMA AppendPast ==
  ASSUME NEW s \in Seq(Nat), NEW n \in Nat, \A i \in DOMAIN s : s[i] <= n
  PROVE  \A i \in DOMAIN Append(s, n) : Append(s, n)[i] <= n
<1>1. /\ Len(s) \in Nat /\ DOMAIN s = 1 .. Len(s)
      /\ DOMAIN Append(s, n) = 1 .. Len(s) + 1
      /\ Append(s, n)[Len(s) + 1] = n
      /\ \A i \in 1 .. Len(s) : Append(s, n)[i] = s[i]
  OBVIOUS
<1> QED BY <1>1

-----------------------------------------------------------------------------
Counted(ep) == IF count[ep] < Limit THEN count[ep] ELSE Limit

SentPast == \A ep \in Endpoint : \A i \in DOMAIN sent[ep] : sent[ep][i] <= now

Bounded(ep) ==
  /\ Cardinality(Since(sent[ep], expires[ep])) <= failures
  /\ Cardinality(Since(sent[ep], expires[ep] - Window)) <= Counted(ep) + failures
  /\ Cardinality(Since(sent[ep], expires[ep] - 2 * Window)) <= Limit + Counted(ep) + failures

LimitsInv ==
  /\ TypeOK
  /\ SentPast
  /\ \A ep \in Endpoint : Bounded(ep) /\ (count[ep] = 0 => expires[ep] = 0)

\* Type facts the arithmetic rests on.
LEMMA LimitsTypes ==
  ASSUME TypeOK, NEW ep \in Endpoint
  PROVE  /\ now \in Nat /\ count[ep] \in Nat /\ expires[ep] \in Nat /\ failures \in Nat
         /\ Counted(ep) \in Nat /\ Counted(ep) <= Limit
<1> QED BY LimitAssumption, BoundAssumption DEF TypeOK, Times, Counted

LEMMA SentType == ASSUME TypeOK, NEW ep \in Endpoint PROVE sent[ep] \in Seq(Nat)
<1>1. sent[ep] \in Seq(Times) /\ Times \subseteq Nat
  BY BoundAssumption DEF TypeOK, Times
<1>2. Len(sent[ep]) \in Nat /\ sent[ep] \in [1 .. Len(sent[ep]) -> Times]
  BY <1>1
<1>3. sent[ep] \in [1 .. Len(sent[ep]) -> Nat]
  BY <1>1, <1>2
<1> QED BY <1>2, <1>3

\* A window is begun only when the last one is over, and it admits at most
\* Limit requests: one more is counted for each that is sent.
LEMMA AdmitBounded ==
  ASSUME LimitsInv, NEW c \in Caller, NEW ep \in Endpoint, Admit(c, ep)
  PROVE  Bounded(ep)'
<1> USE LimitAssumption, WindowAssumption
<1> DEFINE s == sent[ep]  s1 == sent'[ep]  e == expires[ep]  e1 == expires'[ep]
           Sent(t) == Cardinality(Since(s, t))  Sent1(t) == Cardinality(Since(s1, t))
<1>1. /\ now \in Nat /\ count[ep] \in Nat /\ e \in Nat /\ failures \in Nat
      /\ Counted(ep) \in Nat /\ Counted(ep) <= Limit
  BY LimitsTypes DEF LimitsInv
<1>2. s \in Seq(Nat) /\ s1 = Append(s, now) /\ s1 \in Seq(Nat)
  <2>1. s \in Seq(Nat)
    BY SentType DEF LimitsInv
  <2>2. s1 = Append(s, now)
    BY DEF Admit, Send, LimitsInv, TypeOK
  <2> QED BY <1>1, <2>1, <2>2
<1>3. /\ failures' = failures
      /\ count'[ep] = Incremented(ep) /\ e1 = Anchored(ep)
      /\ Incremented(ep) <= Limit
  <2>1. ~(Incremented(ep) > Limit) /\ Incremented(ep) \in Nat
    BY <1>1 DEF Admit, Rejected, Incremented
  <2> QED BY <1>1, <2>1 DEF Admit, Script, LimitsInv, TypeOK
<1>4. \A i \in DOMAIN s1 : s1[i] \in Nat /\ s1[i] <= now
  <2>1. \A i \in DOMAIN s : s[i] <= now
    BY DEF LimitsInv, SentPast
  <2>2. \A i \in DOMAIN s1 : s1[i] <= now
    BY <1>1, <1>2, <2>1, AppendPast
  <2> QED BY <1>2, <2>2
<1>5. ASSUME NEW t \in Int
      PROVE  Sent1(t) <= Sent(t) + 1 /\ Sent(t) \in Nat /\ Sent1(t) \in Nat
  BY <1>1, <1>2, SinceAppend
<1>6. ASSUME NEW t \in Int, now < t PROVE Sent1(t) = 0
  <2>1. \A i \in DOMAIN s1 : s1[i] < t
    BY <1>1, <1>4, <1>6
  <2> QED BY <1>2, <2>1, SinceNone
<1>7. /\ Sent(e) <= failures
      /\ Sent(e - Window) <= Counted(ep) + failures
      /\ Sent(e - 2 * Window) <= Limit + Counted(ep) + failures
  BY DEF LimitsInv, Bounded
<1>8. SUFFICES /\ Sent1(e1) <= failures
               /\ Sent1(e1 - Window) <= Counted(ep)' + failures
               /\ Sent1(e1 - 2 * Window) <= Limit + Counted(ep)' + failures
  BY <1>3 DEF Bounded
<1> HIDE DEF s, s1, e, e1, Sent, Sent1
<1>9. CASE Live(ep)
  <2>1. e1 = e /\ now < e /\ Counted(ep)' = Counted(ep) + 1
    BY <1>1, <1>3, <1>9 DEF Live, Anchored, Incremented, Counted, e
  <2>2. Sent1(e) = 0
    BY <1>1, <1>6, <2>1
  <2>3. Sent1(e - Window) <= Counted(ep) + 1 + failures
    <3>1. e - Window \in Int
      BY <1>1
    <3> QED BY <1>1, <1>5, <1>7, <3>1
  <2>4. Sent1(e - 2 * Window) <= Limit + Counted(ep) + 1 + failures
    <3>1. e - 2 * Window \in Int
      BY <1>1
    <3> QED BY <1>1, <1>5, <1>7, <3>1
  <2> QED BY <1>1, <2>1, <2>2, <2>3, <2>4
<1>10. CASE ~Live(ep)
  <2>1. e1 = now + Window /\ e <= now /\ Counted(ep)' = 1
    BY <1>1, <1>3, <1>10 DEF Live, Anchored, Incremented, Counted, LimitsInv, e
  <2>2. Sent1(e1) = 0
    BY <1>1, <1>6, <2>1
  <2>3. now - Window \in Int /\ e - Window \in Int /\ e - Window <= now - Window
        /\ now + Window - Window = now /\ now + Window - 2 * Window = now - Window
    BY <1>1, <2>1
  <2>4. Sent(now) <= Sent(e)
    BY <1>1, <1>2, <2>1, SinceLater DEF Sent
  <2>5. Sent(now - Window) <= Sent(e - Window)
    BY <1>2, <2>3, SinceLater DEF Sent
  <2>6. Sent1(now) <= 1 + failures
    <3>1. now \in Int /\ e \in Int
      BY <1>1
    <3>2. Sent1(now) <= Sent(now) + 1 /\ Sent(now) \in Nat /\ Sent1(now) \in Nat /\ Sent(e) \in Nat
      BY <1>5, <3>1
    <3> QED BY <1>1, <1>7, <2>4, <3>2
  <2>7. Sent1(now - Window) <= Limit + 1 + failures
    <3>1. Sent1(now - Window) <= Sent(now - Window) + 1 /\ Sent(now - Window) \in Nat
          /\ Sent1(now - Window) \in Nat /\ Sent(e - Window) \in Nat
      BY <1>5, <2>3
    <3> QED BY <1>1, <1>7, <2>5, <3>1
  <2> QED BY <1>1, <2>1, <2>2, <2>3, <2>6, <2>7
<1> QED BY <1>9, <1>10

\* A request let through while Redis is unreachable is one more failure.
LEMMA FailOpenBounded ==
  ASSUME LimitsInv, NEW c \in Caller, NEW ep \in Endpoint, FailOpen(c, ep)
  PROVE  Bounded(ep)'
<1> USE LimitAssumption, WindowAssumption
<1> DEFINE s == sent[ep]  s1 == sent'[ep]  e == expires[ep]
           Sent(t) == Cardinality(Since(s, t))  Sent1(t) == Cardinality(Since(s1, t))
<1>1. now \in Nat /\ e \in Nat /\ failures \in Nat /\ Counted(ep) \in Nat
  BY LimitsTypes DEF LimitsInv
<1>2. s \in Seq(Nat) /\ s1 = Append(s, now)
  <2>1. s \in Seq(Nat)
    BY SentType DEF LimitsInv
  <2>2. s1 = Append(s, now)
    BY DEF FailOpen, Send, LimitsInv, TypeOK
  <2> QED BY <2>1, <2>2
<1>3. failures' = failures + 1 /\ expires'[ep] = e /\ Counted(ep)' = Counted(ep)
  BY DEF FailOpen, keys, Counted
<1>4. ASSUME NEW t \in Int
      PROVE  Sent1(t) <= Sent(t) + 1 /\ Sent(t) \in Nat /\ Sent1(t) \in Nat
  BY <1>1, <1>2, SinceAppend
<1>5. /\ Sent(e) <= failures
      /\ Sent(e - Window) <= Counted(ep) + failures
      /\ Sent(e - 2 * Window) <= Limit + Counted(ep) + failures
  BY DEF LimitsInv, Bounded
<1>6. SUFFICES /\ Sent1(e) <= failures + 1
               /\ Sent1(e - Window) <= Counted(ep) + failures + 1
               /\ Sent1(e - 2 * Window) <= Limit + Counted(ep) + failures + 1
  BY <1>1, <1>3 DEF Bounded
<1> HIDE DEF s, s1, e, Sent, Sent1
<1>7. e \in Int /\ e - Window \in Int /\ e - 2 * Window \in Int
  BY <1>1
<1>8. Sent1(e) <= failures + 1
  BY <1>1, <1>4, <1>5, <1>7
<1>9. Sent1(e - Window) <= Counted(ep) + failures + 1
  BY <1>1, <1>4, <1>5, <1>7
<1>10. Sent1(e - 2 * Window) <= Limit + Counted(ep) + failures + 1
  BY <1>1, <1>4, <1>5, <1>7
<1> QED BY <1>8, <1>9, <1>10

\* An endpoint that is sent nothing keeps its bounds: what is counted in its
\* window and the number of failures only grow.
LEMMA KeptBounded ==
  ASSUME LimitsInv, NEW ep \in Endpoint,
         sent'[ep] = sent[ep], expires'[ep] = expires[ep],
         Counted(ep)' \in Nat, Counted(ep) <= Counted(ep)',
         failures' \in Nat, failures <= failures'
  PROVE  Bounded(ep)'
<1> USE LimitAssumption, WindowAssumption
<1> DEFINE s == sent[ep]  e == expires[ep]  Sent(t) == Cardinality(Since(s, t))
<1>1. e \in Nat /\ failures \in Nat /\ Counted(ep) \in Nat
  BY LimitsTypes DEF LimitsInv
<1>2. ASSUME NEW t \in Int PROVE Sent(t) \in Nat
  <2>1. s \in Seq(Nat)
    BY SentType DEF LimitsInv
  <2> QED BY <2>1, SinceFinite DEF Since
<1>3. /\ Sent(e) <= failures
      /\ Sent(e - Window) <= Counted(ep) + failures
      /\ Sent(e - 2 * Window) <= Limit + Counted(ep) + failures
  BY DEF LimitsInv, Bounded
<1>4. SUFFICES /\ Sent(e) <= failures'
               /\ Sent(e - Window) <= Counted(ep)' + failures'
               /\ Sent(e - 2 * Window) <= Limit + Counted(ep)' + failures'
  BY DEF Bounded
<1> HIDE DEF s, e, Sent
<1>5. Sent(e) \in Nat /\ Sent(e - Window) \in Nat /\ Sent(e - 2 * Window) \in Nat
  <2>1. e \in Int /\ e - Window \in Int /\ e - 2 * Window \in Int
    BY <1>1
  <2> QED BY <1>2, <2>1
<1> QED BY <1>1, <1>3, <1>5

LEMMA SentPastNext == LimitsInv /\ [Next]_vars => SentPast'
<1> SUFFICES ASSUME LimitsInv, [Next]_vars, NEW p \in Endpoint
             PROVE  \A i \in DOMAIN sent'[p] : sent'[p][i] <= now'
  BY DEF SentPast
<1>1. now \in Nat /\ sent[p] \in Seq(Nat)
  BY LimitsTypes, SentType DEF LimitsInv
<1>2. \A i \in DOMAIN sent[p] : sent[p][i] <= now /\ sent[p][i] \in Nat
  BY <1>1 DEF LimitsInv, SentPast
<1>3. CASE sent' = sent
  <2>1. now' \in Nat /\ now <= now'
    BY <1>1 DEF Next, Tick, Call, Admit, Throttle, Rebuff, FailOpen, vars
  <2> QED BY <1>1, <1>2, <1>3, <2>1
<1>4. ASSUME NEW c \in Caller, NEW ep \in Endpoint, Send(c, ep), now' = now
      PROVE  \A i \in DOMAIN sent'[p] : sent'[p][i] <= now'
  <2>1. CASE p = ep
    <3>1. sent'[p] = Append(sent[p], now)
      BY <1>4, <2>1 DEF Send, LimitsInv, TypeOK
    <3>2. \A i \in DOMAIN sent[p] : sent[p][i] <= now
      BY <1>2
    <3> QED BY <1>1, <1>4, <3>1, <3>2, AppendPast
  <2>2. CASE p # ep
    <3>1. sent'[p] = sent[p]
      BY <1>4, <2>2 DEF Send, LimitsInv, TypeOK
    <3> QED BY <1>2, <1>4, <3>1
  <2> QED BY <2>1, <2>2
<1> QED BY <1>3, <1>4 DEF Next, Tick, Call, Admit, Throttle, Rebuff, FailOpen, vars

LEMMA LimitsNext == LimitsInv /\ [Next]_vars => LimitsInv'
<1> SUFFICES ASSUME LimitsInv, [Next]_vars
             PROVE  \A p \in Endpoint : Bounded(p)' /\ (count'[p] = 0 => expires'[p] = 0)
  BY TypeNext, SentPastNext DEF LimitsInv
<1> USE LimitAssumption
<1> TAKE p \in Endpoint
<1>1. /\ now \in Nat /\ count[p] \in Nat /\ expires[p] \in Nat /\ failures \in Nat
      /\ Counted(p) \in Nat
      /\ count[p] = 0 => expires[p] = 0
  BY LimitsTypes DEF LimitsInv
<1>2. CASE UNCHANGED <<keys, sent, failures>>
  <2>1. Counted(p)' = Counted(p)
    BY <1>2 DEF keys, Counted
  <2> QED BY <1>1, <1>2, <2>1, KeptBounded DEF keys
<1>3. ASSUME NEW c \in Caller, NEW ep \in Endpoint, Call(c, ep), p # ep
      PROVE  Bounded(p)' /\ (count'[p] = 0 => expires'[p] = 0)
  <2>1. count'[p] = count[p] /\ expires'[p] = expires[p] /\ sent'[p] = sent[p]
    BY <1>3 DEF Call, Admit, Throttle, Rebuff, FailOpen, Script, Send, keys, LimitsInv, TypeOK
  <2>2. failures' \in Nat /\ failures <= failures'
    BY <1>1, <1>3 DEF Call, Admit, Throttle, Rebuff, FailOpen
  <2>3. Counted(p)' = Counted(p)
    BY <2>1 DEF Counted
  <2> QED BY <1>1, <2>1, <2>2, <2>3, KeptBounded
<1>4. ASSUME NEW c \in Caller, Call(c, p)
      PROVE  Bounded(p)' /\ (count'[p] = 0 => expires'[p] = 0)
  <2>1. ASSUME Script(p) PROVE count'[p] \in Nat \ {0} /\ count'[p] = Incremented(p)
    BY <1>1, <2>1 DEF Script, Incremented, LimitsInv, TypeOK
  <2>2. CASE Admit(c, p)
    BY <2>1, <2>2, AdmitBounded DEF Admit
  <2>3. CASE FailOpen(c, p)
    BY <1>1, <2>3, FailOpenBounded DEF FailOpen, keys
  <2>4. ASSUME Rejected(p), Script(p), UNCHANGED <<sent, failures>>
        PROVE  Bounded(p)' /\ (count'[p] = 0 => expires'[p] = 0)
    <3>1. Live(p)
      BY <1>1, <2>4 DEF Rejected, Incremented
    <3>2. expires'[p] = expires[p] /\ count'[p] = count[p] + 1
      BY <2>4, <3>1 DEF Script, Anchored, Incremented, LimitsInv, TypeOK
    <3>3. Counted(p)' \in Nat /\ Counted(p) <= Counted(p)'
      BY <1>1, <3>2 DEF Counted
    <3> QED BY <1>1, <2>1, <2>4, <3>2, <3>3, KeptBounded
  <2> QED BY <1>4, <2>2, <2>3, <2>4 DEF Call, Throttle, Rebuff
<1> QED BY <1>2, <1>3, <1>4 DEF Next, Tick, vars

\* What is sent within an interval is sent since its beginning.
LEMMA SentInSince ==
  ASSUME TypeOK, NEW ep \in Endpoint, NEW t \in Int, NEW u \in Int
  PROVE  /\ SentIn(ep, t, u) \in Nat
         /\ \A from \in Int : from <= t => SentIn(ep, t, u) <= Cardinality(Since(sent[ep], from))
<1> DEFINE S == {i \in DOMAIN sent[ep] : t <= sent[ep][i] /\ sent[ep][i] < u}
<1>1. sent[ep] \in Seq(Nat)
  BY SentType
<1>2. S \in SUBSET DOMAIN sent[ep] /\ S \in SUBSET Since(sent[ep], t)
  BY DEF Since
<1>3. Cardinality(S) \in Nat
  BY <1>1, <1>2, SinceFinite
<1>4. ASSUME NEW from \in Int, from <= t
      PROVE  Cardinality(S) <= Cardinality(Since(sent[ep], from))
  BY <1>1, <1>2, <1>4, SinceLater
<1> QED BY <1>3, <1>4 DEF SentIn

LEMMA LimitsHold == LimitsInv => LimitPerWindow
<1> SUFFICES ASSUME LimitsInv, NEW ep \in Endpoint
             PROVE  SentIn(ep, expires[ep] - Window, expires[ep]) <= Limit + failures
  BY DEF LimitPerWindow
<1> USE LimitAssumption, WindowAssumption
<1>1. expires[ep] \in Nat /\ failures \in Nat /\ Counted(ep) \in Nat /\ Counted(ep) <= Limit
  BY LimitsTypes DEF LimitsInv
<1>2. expires[ep] - Window \in Int /\ expires[ep] \in Int
  BY <1>1
<1> DEFINE n == SentIn(ep, expires[ep] - Window, expires[ep])
           m == Cardinality(Since(sent[ep], expires[ep] - Window))
<1>3. n \in Nat /\ n <= m
  BY <1>2, SentInSince DEF LimitsInv
<1>4. m \in Nat
  <2>1. sent[ep] \in Seq(Nat)
    BY SentType DEF LimitsInv
  <2> QED BY <1>2, <2>1, SinceFinite DEF Since
<1>5. m <= Counted(ep) + failures
  BY DEF LimitsInv, Bounded
<1> HIDE DEF n, m
<1>6. n <= Limit + failures
  BY <1>1, <1>3, <1>4, <1>5
<1> QED BY <1>6 DEF n

LEMMA LimitsInit == Init => LimitsInv
<1> SUFFICES ASSUME Init PROVE LimitsInv
  OBVIOUS
<1>1. TypeOK
  BY TypeInit
<1>2. ASSUME NEW ep \in Endpoint PROVE Bounded(ep)
  <2>1. sent[ep] = <<>> /\ expires[ep] = 0 /\ count[ep] = 0 /\ failures = 0
    BY DEF Init
  <2>2. \A t \in Int : Since(<<>>, t) = {}
    BY DEF Since
  <2>3. 0 \in Int /\ 0 - Window \in Int /\ 0 - 2 * Window \in Int
    BY WindowAssumption
  <2>4. Counted(ep) = 0
    BY <2>1, LimitAssumption DEF Counted
  <2>5. /\ Cardinality(Since(<<>>, 0)) = 0
        /\ Cardinality(Since(<<>>, 0 - Window)) = 0
        /\ Cardinality(Since(<<>>, 0 - 2 * Window)) = 0
    BY <2>2, <2>3, FS_EmptySet
  <2> QED BY <2>1, <2>4, <2>5, LimitAssumption DEF Bounded
<1>3. SentPast
  BY DEF Init, SentPast
<1> QED BY <1>1, <1>2, <1>3 DEF LimitsInv, Init

\* Within one window of its key an endpoint is sent at most RATE_LIMIT_MAX
\* requests, and those let through while Redis was unreachable.
THEOREM PerWindow == Spec => []LimitPerWindow
  BY LimitsInit, LimitsNext, LimitsHold, PTL DEF Spec

\* The arithmetic of the step: the bound of two windows, and a bound that grows.
LEMMA TwoWindows ==
  \A n, m, k, f \in Nat : n <= m /\ m <= Limit + k + f /\ k <= Limit => n <= 2 * Limit + f
  BY LimitAssumption

LEMMA MoreFailures == \A n, f, g \in Nat : n <= 2 * Limit + f /\ f <= g => n <= 2 * Limit + g
  BY LimitAssumption

\* An interval of the length of a window that holds a request of now begins
\* after the window before the current one, whose bound then covers it; any
\* other interval is as it was.
LEMMA AppendedTwice ==
  ASSUME TypeOK, TwiceLimitAnywhere, LimitsInv', Horizon', NEW ep \in Endpoint,
         sent'[ep] = Append(sent[ep], now), now' = now, failures <= failures',
         NEW t \in Times
  PROVE  SentIn(ep, t, t + Window)' <= 2 * Limit + failures'
<1> USE LimitAssumption, WindowAssumption
<1> DEFINE s == sent[ep]  s1 == sent'[ep]  e1 == expires'[ep]
           n == SentIn(ep, t, t + Window)  n1 == SentIn(ep, t, t + Window)'
<1>1. t \in Nat /\ t \in Int /\ t + Window \in Int
  BY BoundAssumption DEF Times
<1>2. now \in Nat /\ failures \in Nat /\ s \in Seq(Nat)
  BY LimitsTypes, SentType
<1>3. failures' \in Nat /\ e1 \in Nat /\ Counted(ep)' \in Nat /\ Counted(ep)' <= Limit
  <2>1. TypeOK' => expires'[ep] \in Nat /\ failures' \in Nat /\ count'[ep] \in Nat
    BY BoundAssumption DEF TypeOK
  <2> QED BY <2>1 DEF LimitsInv, Counted
<1>4. s1 \in Seq(Nat) /\ s1 = Append(s, now)
  BY <1>2
<1>5. n = Cardinality({i \in DOMAIN s : t <= s[i] /\ s[i] < t + Window})
  BY DEF SentIn
<1>6. n1 = Cardinality({i \in DOMAIN s1 : t <= s1[i] /\ s1[i] < t + Window})
  BY DEF SentIn
<1>7. n <= 2 * Limit + failures
  BY DEF TwiceLimitAnywhere
<1>8. n \in Nat
  BY <1>1, SentInSince
<1>9. Cardinality(Since(s1, e1 - 2 * Window)) <= Limit + Counted(ep)' + failures'
  BY DEF LimitsInv, Bounded
<1>10. e1 <= now + Window
  BY DEF Horizon
<1> HIDE DEF n, n1, s, s1, e1
<1>11. CASE t <= now /\ now < t + Window
  <2>1. e1 - 2 * Window \in Int /\ e1 - 2 * Window <= t
    BY <1>1, <1>2, <1>3, <1>10, <1>11
  <2>2. {i \in DOMAIN s1 : t <= s1[i] /\ s1[i] < t + Window} \in SUBSET Since(s1, t)
    BY DEF Since
  <2>3. n1 <= Cardinality(Since(s1, e1 - 2 * Window))
    BY <1>1, <1>4, <1>6, <2>1, <2>2, SinceLater
  <2>4. n1 \in Nat /\ Cardinality(Since(s1, e1 - 2 * Window)) \in Nat
    <3>1. {i \in DOMAIN s1 : t <= s1[i] /\ s1[i] < t + Window} \in SUBSET DOMAIN s1
      OBVIOUS
    <3>2. Since(s1, e1 - 2 * Window) \in SUBSET DOMAIN s1
      BY DEF Since
    <3> QED BY <1>4, <1>6, <3>1, <3>2, SinceFinite
  <2>5. n1 <= 2 * Limit + failures'
    <3> DEFINE m == Cardinality(Since(s1, e1 - 2 * Window))
    <3>1. m \in Nat /\ n1 \in Nat /\ n1 <= m /\ m <= Limit + Counted(ep)' + failures'
      BY <1>9, <2>3, <2>4
    <3> HIDE DEF m
    <3> QED BY <1>3, <3>1, TwoWindows, Zenon
  <2> QED BY <2>5 DEF n1
<1>12. CASE ~(t <= now /\ now < t + Window)
  <2>1. /\ Len(s) \in Nat /\ DOMAIN s = 1 .. Len(s)
        /\ DOMAIN s1 = 1 .. Len(s) + 1
        /\ s1[Len(s) + 1] = now
        /\ \A i \in 1 .. Len(s) : s1[i] = s[i]
    BY <1>2, <1>4
  <2>2. {i \in DOMAIN s1 : t <= s1[i] /\ s1[i] < t + Window}
          = {i \in DOMAIN s : t <= s[i] /\ s[i] < t + Window}
    BY <1>1, <1>2, <1>12, <2>1
  <2>3. n1 = n
    BY <1>5, <1>6, <2>2
  <2>4. n1 <= 2 * Limit + failures'
    <3>1. n1 \in Nat /\ n1 <= 2 * Limit + failures
      BY <1>7, <1>8, <2>3
    <3> QED BY <1>2, <1>3, <3>1, MoreFailures, Zenon
  <2> QED BY <2>4 DEF n1
<1> QED BY <1>11, <1>12

TwiceInv == Inv /\ LimitsInv /\ TwiceLimitAnywhere

LEMMA TwiceNext == TwiceInv /\ [Next]_vars => TwiceInv'
<1> SUFFICES ASSUME TwiceInv, [Next]_vars, NEW p \in Endpoint, NEW t \in Times
             PROVE  SentIn(p, t, t + Window)' <= 2 * Limit + failures'
  BY InvNext, LimitsNext DEF TwiceInv, TwiceLimitAnywhere
<1> DEFINE n == SentIn(p, t, t + Window)
<1>1. TypeOK /\ LimitsInv' /\ Horizon' /\ TwiceLimitAnywhere
  BY InvNext, LimitsNext DEF TwiceInv, Inv
<1>2. failures \in Nat /\ failures' \in Nat /\ failures <= failures'
  <2>1. failures \in Nat /\ failures' \in Nat
    BY <1>1, BoundAssumption DEF LimitsInv, TypeOK
  <2> QED BY <2>1 DEF Next, Tick, Call, Admit, Throttle, Rebuff, FailOpen, vars
<1>3. CASE sent'[p] = sent[p]
  <2>1. n' = n
    BY <1>3 DEF SentIn
  <2>2. n <= 2 * Limit + failures
    BY <1>1 DEF TwiceLimitAnywhere
  <2>3. n \in Nat
    <3>1. t \in Int /\ t + Window \in Int
      BY BoundAssumption, WindowAssumption DEF Times
    <3> QED BY <1>1, <3>1, SentInSince
  <2>4. (2 * Limit) \in Nat
    BY LimitAssumption
  <2> HIDE DEF n
  <2>5. n' <= 2 * Limit + failures'
    BY <1>2, <2>1, <2>2, <2>3, <2>4
  <2> QED BY <2>5 DEF n
<1>4. ASSUME NEW c \in Caller, NEW ep \in Endpoint, Send(c, ep), now' = now
      PROVE  SentIn(p, t, t + Window)' <= 2 * Limit + failures'
  <2>1. CASE p = ep
    <3>1. sent'[p] = Append(sent[p], now)
      BY <1>1, <1>4, <2>1 DEF Send, TypeOK
    <3> QED BY <1>1, <1>2, <1>4, <3>1, AppendedTwice
  <2>2. CASE p # ep
    <3>1. sent'[p] = sent[p]
      BY <1>1, <1>4, <2>2 DEF Send, TypeOK
    <3> QED BY <1>3, <3>1
  <2> QED BY <2>1, <2>2
<1> QED BY <1>3, <1>4 DEF Next, Tick, Call, Admit, Throttle, Rebuff, FailOpen, vars

\* The documented worst case: on whatever boundary an interval of the length
\* of a window is laid, an endpoint is sent at most twice the limit within it,
\* and what was let through while Redis was unreachable.
THEOREM TwiceLimit == Spec => []TwiceLimitAnywhere
<1>1. Init => TwiceInv
  <2> SUFFICES ASSUME Init PROVE TwiceInv
    OBVIOUS
  <2>1. Inv
    BY TypeInit, WindowAssumption, NoEndpointAssumption
    DEF Init, Inv, Horizon, WakesAfterWindow
  <2>2. ASSUME NEW ep \in Endpoint, NEW t \in Times
        PROVE  SentIn(ep, t, t + Window) <= 2 * Limit + failures
    <3>1. sent[ep] = <<>> /\ failures = 0
      BY DEF Init
    <3>2. {i \in DOMAIN sent[ep] : t <= sent[ep][i] /\ sent[ep][i] < t + Window} = {}
      BY <3>1
    <3>3. SentIn(ep, t, t + Window) = 0
      BY <3>2, FS_EmptySet DEF SentIn
    <3> QED BY <3>1, <3>3, LimitAssumption
  <2> QED BY <2>1, <2>2, LimitsInit DEF TwiceInv, TwiceLimitAnywhere
<1>2. TwiceInv => TwiceLimitAnywhere
  BY DEF TwiceInv
<1> QED BY <1>1, <1>2, TwiceNext, PTL DEF Spec
=============================================================================
