-------------------------- MODULE AcceptanceProofs --------------------------
(* Proofs about Acceptance, for every value of the constants.               *)
EXTENDS Acceptance, DeliveryRefinement

(***************************************************************************)
(* The scripts are clients: whatever they do to the pipeline, the API and   *)
(* the direct SQL of Delivery can do.                                       *)
(***************************************************************************)

LEMMA EndSuiteKeeps == \A v : EndSuite(v) => UNCHANGED <<vars, registry, part, mockVars>>
  BY DEF EndSuite

LEMMA ScriptStutters ==
  ASSUME \/ \E e \in Event : ReadStatus(e)
         \/ IsSetUp \/ AllRegistered \/ FixEndpoint \/ NotAccepted \/ AllAccepted
         \/ Sweep \/ ReadRows \/ RoundEnds \/ PollAgain \/ DeadlinePasses \/ Pass \/ Fail
  PROVE  UNCHANGED vars
  BY EndSuiteKeeps
  DEF ReadStatus, Reads, IsSetUp, AllRegistered, FixEndpoint, NotAccepted, AllAccepted, Sweep,
      ReadRows, RoundEnds, PollAgain, DeadlinePasses, Pass, Fail

LEMMA AcceptanceStep == [AcceptanceNext]_allVars => [Next]_vars
<1> SUFFICES ASSUME [AcceptanceNext]_allVars PROVE [Next]_vars
  OBVIOUS
<1>1. CASE Background
  BY <1>1 DEF Background, Work, Next, ApiStep, AdminStep, WorkerStep
<1>2. ASSUME NEW w \in Worker, Reply(w) \/ Trouble(w) PROVE Next
  <2>1. \A r : Answer(r) \in Outcome
    BY DEF Answer, Outcome
  <2>2. \E o \in Outcome : Post(w, o)
    BY <1>2, <2>1 DEF Reply, Trouble, Outcome
  <2> QED BY <2>2 DEF Next, WorkerStep
<1>3. ASSUME NEW ep \in Endpoint,
             Isolate(ep) \/ RegisterEndpoint(ep) \/ AskToRegister(ep) \/ Registry1(ep)
      PROVE  [Next]_vars
  BY <1>3 DEF Isolate, RegisterEndpoint, AskToRegister, Registry1, Flush, Respond, CommitSession,
              RollBack, Next, AdminStep
<1>4. ASSUME NEW e \in Event, PostEvent(e) \/ AskToReplay(e) PROVE Next
  BY <1>4 DEF PostEvent, AskToReplay, Next, ApiStep
<1>5. CASE UNCHANGED allVars
  BY <1>5 DEF allVars
<1> QED BY <1>1, <1>2, <1>3, <1>4, <1>5, ScriptStutters DEF AcceptanceNext, ScriptStep

\* The pipeline keeps its promises under the scripts, with the mock receivers.
THEOREM AcceptanceIsDelivery == AcceptanceSpec => Spec
<1>1. AcceptanceInit => Init
  BY DEF AcceptanceInit
<1> QED BY <1>1, AcceptanceStep, PTL DEF AcceptanceSpec, Spec

(***************************************************************************)
(* Two suites can only fail. No mock receiver rejects a request, so that no  *)
(* event is FAILED and none is read as such; and no attempt has a number    *)
(* beyond the budget.                                                       *)
(***************************************************************************)

\* The suites of the scripts.
AllSuites ==
  {Phase3, Phase4Flaky, Phase4Failing, Phase5Deduplication, Phase5Headers, Phase6Dlq,
   Phase6Replay, Phase7Signature, Phase8Burst, Master1, Master2, Master3Idempotency,
   Master3Headers, Master4Dlq, Master4Replay, Master5, LoadTest, BenchmarkAsync}

LEMMA SuiteIsOne ==
  ASSUME NEW p \in Parts, NEW s \in p.first .. p.last
  PROVE  /\ Script[p.name][s] \in AllSuites
         /\ Script[p.name][s].registers = "api" => p.name = "benchmark_async"
         /\ p.name = "benchmark_async" => Script[p.name][s] = BenchmarkAsync /\ s = 1 /\ p.last = 1
<1>1. /\ p.name \in DOMAIN Script
      /\ s \in Nat \ {0} /\ s <= Len(Script[p.name])
      /\ p.last \in Nat /\ s <= p.last /\ p.last <= Len(Script[p.name])
  <2>1. /\ p.name \in DOMAIN Script /\ p.first \in Nat \ {0} /\ p.last \in Nat
        /\ p.last <= Len(Script[p.name])
    BY PartsAssumption
  <2>2. Len(Script[p.name]) \in Nat
    BY <2>1 DEF Script
  <2> QED BY <2>1, <2>2
<1>2. /\ \A d \in {Phase3, Phase7Signature, Phase8Burst, LoadTest} : d.registers # "api"
      /\ \A d \in {Phase4Flaky, Phase4Failing, Phase5Deduplication, Phase5Headers, Phase6Dlq,
                   Phase6Replay} : d.registers # "api"
  <2>1. Phase3.registers # "api"
    BY DEF Phase3, Suite
  <2>2. Phase7Signature.registers # "api"
    BY DEF Phase7Signature, Suite
  <2>3. Phase8Burst.registers # "api"
    BY DEF Phase8Burst, Suite
  <2>4. LoadTest.registers # "api"
    BY DEF LoadTest, Suite
  <2>5. Phase5Deduplication.registers # "api"
    BY DEF Phase5Deduplication, Suite
  <2>6. Phase5Headers.registers # "api"
    BY DEF Phase5Headers, Suite
  <2>7. Phase6Dlq.registers # "api"
    BY DEF Phase6Dlq, Suite
  <2>8. Phase6Replay.registers # "api"
    BY DEF Phase6Replay, Suite
  <2>9. Phase4Flaky.registers # "api" /\ Phase4Failing.registers # "api"
    BY DEF Phase4Flaky, Phase4Failing, Scenario, Suite
  <2> QED BY <2>1, <2>2, <2>3, <2>4, <2>5, <2>6, <2>7, <2>8, <2>9
<1>3. \A d \in {Master1, Master2, Master3Idempotency, Master3Headers, Master4Dlq, Master4Replay,
                Master5} : d.registers # "api"
  <2>1. Master1.registers # "api"
    BY DEF Master1, Suite
  <2>2. Master2.registers # "api"
    BY DEF Master2, Phase4Flaky, Scenario, Suite
  <2>3. Master3Headers.registers # "api"
    BY DEF Master3Headers, Phase5Headers, Suite
  <2>4. Master4Dlq.registers # "api"
    BY DEF Master4Dlq, Phase6Dlq, Suite
  <2>5. Master4Replay.registers # "api"
    BY DEF Master4Replay, Phase6Replay, Suite
  <2>6. Master3Idempotency.registers # "api"
    BY DEF Master3Idempotency, Suite
  <2>7. Master5.registers # "api"
    BY DEF Master5, Suite
  <2> QED BY <2>1, <2>2, <2>3, <2>4, <2>5, <2>6, <2>7
<1>4. CASE p.name = "benchmark_async"
  <2>1. s = 1 /\ p.last = 1 /\ Script[p.name][s] = BenchmarkAsync
    BY <1>1, <1>4 DEF Script
  <2> QED BY <1>4, <2>1 DEF AllSuites
<1>5. ASSUME p.name \in {"verify_phase3", "verify_phase7", "verify_phase8", "load_test"}
      PROVE  Script[p.name][s] \in {Phase3, Phase7Signature, Phase8Burst, LoadTest}
  BY <1>1, <1>5 DEF Script
<1>6. ASSUME p.name = "verify_phase4" PROVE Script[p.name][s] \in {Phase4Flaky, Phase4Failing}
  <2>1. Script[p.name] = <<Phase4Flaky, Phase4Failing>> /\ s \in 1 .. 2
    BY <1>1, <1>6 DEF Script
  <2> QED BY <2>1
<1>7. ASSUME p.name = "verify_phase5" PROVE Script[p.name][s] \in {Phase5Deduplication, Phase5Headers}
  <2>1. Script[p.name] = <<Phase5Deduplication, Phase5Headers>> /\ s \in 1 .. 2
    BY <1>1, <1>7 DEF Script
  <2> QED BY <2>1
<1>8. ASSUME p.name = "verify_phase6" PROVE Script[p.name][s] \in {Phase6Dlq, Phase6Replay}
  <2>1. Script[p.name] = <<Phase6Dlq, Phase6Replay>> /\ s \in 1 .. 2
    BY <1>1, <1>8 DEF Script
  <2> QED BY <2>1
<1>9. ASSUME p.name = "verify_master"
      PROVE  Script[p.name][s] \in {Master1, Master2, Master3Idempotency, Master3Headers, Master4Dlq,
                                    Master4Replay, Master5}
  <2>1. /\ Script[p.name] = <<Master1, Master2, Master3Idempotency, Master3Headers, Master4Dlq,
                              Master4Replay, Master5>>
        /\ s \in 1 .. 7
    BY <1>1, <1>9 DEF Script
  <2> QED BY <2>1
<1>10. p.name \in {"verify_phase3", "verify_phase4", "verify_phase5", "verify_phase6", "verify_phase7",
                   "verify_phase8", "verify_master", "load_test", "benchmark_async"}
  BY <1>1 DEF Script
<1>11. p.name # "benchmark_async" => /\ Script[p.name][s] \in AllSuites
                                     /\ Script[p.name][s].registers # "api"
  BY <1>2, <1>3, <1>5, <1>6, <1>7, <1>8, <1>9, <1>10 DEF AllSuites
<1> QED BY <1>4, <1>11

LEMMA StaleSuites ==
  ASSUME NEW p \in Parts, NEW s \in p.first .. p.last, StaleExpectation(Script[p.name][s])
  PROVE  \/ Script[p.name][s].beyond = Budget
         \/ /\ Script[p.name][s].status = {"FAILED"}
            /\ Script[p.name][s].trail = Times(Budget, "transient_error")
<1>1. Script[p.name][s] \in AllSuites
  BY SuiteIsOne
<1>2. Phase4Failing.status = {"FAILED"} /\ Phase4Failing.trail = Times(Budget, "transient_error")
  BY DEF Phase4Failing, Scenario, Suite
<1>3. Phase6Replay.beyond = Budget
  BY DEF Phase6Replay, Suite
<1>4. Suite.beyond = 0 /\ Suite.status = AnyStatus /\ "DELIVERED" \in AnyStatus
  BY DEF Suite, AnyStatus, EventStatus
<1>5. \A c \in {Phase3, Phase7Signature, Master1, Master5, Phase8Burst, LoadTest} :
        c.beyond = 0 /\ c.status = {"DELIVERED"}
  <2>1. Phase3.beyond = 0 /\ Phase3.status = {"DELIVERED"}
    BY DEF Phase3, Suite
  <2>2. Phase7Signature.beyond = 0 /\ Phase7Signature.status = {"DELIVERED"}
    BY DEF Phase7Signature, Suite
  <2>3. Master1.beyond = 0 /\ Master1.status = {"DELIVERED"}
    BY DEF Master1, Suite
  <2>4. Master5.beyond = 0 /\ Master5.status = {"DELIVERED"}
    BY DEF Master5, Suite
  <2>5. Phase8Burst.beyond = 0 /\ Phase8Burst.status = {"DELIVERED"}
    BY DEF Phase8Burst, Suite
  <2>6. LoadTest.beyond = 0 /\ LoadTest.status = {"DELIVERED"}
    BY DEF LoadTest, Suite
  <2> QED BY <2>1, <2>2, <2>3, <2>4, <2>5, <2>6
<1>6. \A c \in {Phase5Deduplication, Phase5Headers, Master3Idempotency, Master3Headers,
                BenchmarkAsync} : c.beyond = 0 /\ c.status = AnyStatus
  <2>1. Phase5Deduplication.beyond = 0 /\ Phase5Deduplication.status = AnyStatus
    BY DEF Phase5Deduplication, Suite
  <2>2. Phase5Headers.beyond = 0 /\ Phase5Headers.status = AnyStatus
    BY DEF Phase5Headers, Suite
  <2>3. Master3Idempotency.beyond = 0 /\ Master3Idempotency.status = AnyStatus
    BY DEF Master3Idempotency, Suite
  <2>4. BenchmarkAsync.beyond = 0 /\ BenchmarkAsync.status = AnyStatus
    BY DEF BenchmarkAsync, Suite
  <2>5. Master3Headers.beyond = 0 /\ Master3Headers.status = AnyStatus
    BY <2>2 DEF Master3Headers
  <2> QED BY <2>1, <2>2, <2>3, <2>4, <2>5
<1>7. \A c \in {Phase4Flaky, Master2} : c.beyond = 0 /\ c.status = {"DELIVERED"}
  BY DEF Phase4Flaky, Master2, Scenario, Suite
<1>8. \A c \in {Phase6Dlq, Master4Dlq} : c.beyond = 0 /\ c.status = {"DEAD_LETTER"}
  BY DEF Phase6Dlq, Master4Dlq, Suite
<1>9. Master4Replay.beyond = 0 /\ Master4Replay.status = {"DELIVERED"}
  BY DEF Master4Replay, Phase6Replay, Suite
<1>10. AnyStatus # {"FAILED"} /\ {"DELIVERED"} # {"FAILED"} /\ {"DEAD_LETTER"} # {"FAILED"}
  BY <1>4
<1>11. \A c \in AllSuites : StaleExpectation(c) => c \in {Phase4Failing, Phase6Replay}
  BY <1>5, <1>6, <1>7, <1>8, <1>9, <1>10 DEF AllSuites, StaleExpectation
<1> QED BY <1>1, <1>2, <1>3, <1>11

\* What can be seen of the events when nothing rejects a request.
NothingRejected ==
  /\ \A w \in Worker : outcome[w] # "client_error"
  /\ \A a \in Attempt : attempts[a] > 0 => a.outcome # "client_error"
  /\ seen \in [Event -> AnyStatus \ {"FAILED"}]

RowsAreMine ==
  /\ rows \in [Attempt -> Nat]
  /\ \A a \in Attempt : rows[a] > 0 => a.ev \in mine
  /\ mine \subseteq Event

IsSuite == part \in Parts /\ stage \in part.first .. part.last

LEMMA OutcomesNext ==
  ASSUME TypeOK, [AcceptanceNext]_allVars, NEW w \in Worker, outcome[w] # "client_error"
  PROVE  outcome'[w] # "client_error"
<1>1. CASE Background
  <2>1. ASSUME NEW v \in Worker, Work(v) PROVE outcome'[w] # "client_error"
    BY <2>1 DEF Work, Take, DispatchToNobody, Dispatch, FanOut, Admit, FailOpen, Throttle,
                ThrottleOut, Record, Retry, Ack, TaskDies, WorkerCrash, Free, TypeOK
  <2>2. CASE UNCHANGED workers
    BY <2>2 DEF workers
  <2> QED BY <1>1, <2>1, <2>2 DEF Background, ReplayCommit, Enqueue, ApiFails, WindowExpires,
                                  CountdownElapses
<1>2. ASSUME NEW v \in Worker, Reply(v) \/ Trouble(v) PROVE outcome'[w] # "client_error"
  <2>1. \A r : Answer(r) # "client_error"
    BY DEF Answer
  <2> QED BY <1>2, <2>1 DEF Reply, Trouble, Post, TypeOK
<1>3. CASE ScriptStep
  <2>1. CASE UNCHANGED vars
    BY <2>1 DEF vars, workers
  <2>2. CASE UNCHANGED workers
    BY <2>2 DEF workers
  <2> QED BY <1>3, <2>1, <2>2, ScriptStutters
          DEF ScriptStep, Isolate, RegisterEndpoint, AskToRegister, Registry1, Flush, Respond,
              CommitSession, RollBack, Register, Deactivate, PostEvent, AskToReplay, Ingest, ReplayRead
<1>4. CASE UNCHANGED allVars
  BY <1>4 DEF allVars, vars, workers
<1> QED BY <1>1, <1>2, <1>3, <1>4 DEF AcceptanceNext

\* A new row has the outcome of the worker that writes it.
LEMMA RowsNext ==
  ASSUME TypeOK, NothingRejected, [Next]_vars, NEW a \in Attempt, attempts'[a] > 0
  PROVE  a.outcome # "client_error"
<1>1. CASE UNCHANGED attempts
  BY <1>1 DEF NothingRejected
<1>2. ASSUME NEW w \in Worker, Record(w) PROVE a.outcome # "client_error"
  <2>1. attempts' = [attempts EXCEPT ![Row(w)] = @ + 1] /\ attempts \in [Attempt -> Nat]
    BY <1>2 DEF Record, TypeOK
  <2>2. Row(w).outcome = outcome[w]
    BY DEF Row
  <2>3. CASE a = Row(w)
    BY <2>2, <2>3 DEF NothingRejected
  <2>4. CASE a # Row(w)
    BY <2>1, <2>4 DEF NothingRejected
  <2> QED BY <2>3, <2>4
<1> QED BY <1>1, <1>2, AttemptsStep

\* Nothing the scripts read is FAILED.
LEMMA SeenNext ==
  ASSUME TypeOK, StatusHasEvidence, NothingRejected, [AcceptanceNext]_allVars
  PROVE  seen' \in [Event -> AnyStatus \ {"FAILED"}]
<1>1. \A e \in Event : status[e] \in AnyStatus \ {"FAILED"}
  BY DEF TypeOK, AnyStatus, StatusHasEvidence, NothingRejected
<1>2. Unseen \in [Event -> AnyStatus \ {"FAILED"}] /\ seen \in [Event -> AnyStatus \ {"FAILED"}]
  BY DEF Unseen, AnyStatus, NothingRejected
<1>3. ASSUME NEW e \in Event, ReadStatus(e) PROVE seen' \in [Event -> AnyStatus \ {"FAILED"}]
  BY <1>1, <1>2, <1>3 DEF ReadStatus
<1>4. CASE Sweep
  BY <1>2, <1>4 DEF Sweep, AnyStatus, EventStatus
<1>5. CASE NewRound
  BY <1>2, <1>5 DEF NewRound
<1>6. ASSUME NEW v, EndSuite(v) PROVE seen' = Unseen
  BY <1>6 DEF EndSuite
<1>7. CASE UNCHANGED seen
  BY <1>2, <1>7
<1>8. UNCHANGED pollVars => UNCHANGED seen
  BY DEF pollVars
<1> QED BY <1>2, <1>3, <1>4, <1>5, <1>6, <1>7, <1>8
        DEF AcceptanceNext, Background, Reply, Trouble, ScriptStep, Isolate, RegisterEndpoint,
            AskToRegister, Registry1, PostEvent, AskToReplay, IsSetUp, AllRegistered, FixEndpoint,
            NotAccepted, AllAccepted, ReadRows, RoundEnds, PollAgain, DeadlinePasses, Pass, Fail,
            allVars

\* The rows a suite has read are those of its events.
LEMMA RowsAreMineNext ==
  ASSUME TypeOK, RowsAreMine, [AcceptanceNext]_allVars
  PROVE  RowsAreMine'
<1>1. CASE rows' = NoRows /\ mine' \subseteq mine
  BY <1>1 DEF NoRows, RowsAreMine
<1>2. CASE rows' = rows /\ mine \subseteq mine' /\ mine' \subseteq Event
  BY <1>2 DEF RowsAreMine
<1>3. CASE ReadRows
  BY <1>3 DEF ReadRows, Reads, suiteVars, RowsAreMine, TypeOK
<1>4. ASSUME NEW v, EndSuite(v) PROVE rows' = NoRows /\ mine' \subseteq mine
  BY <1>4 DEF EndSuite
<1>5. CASE NewRound /\ UNCHANGED mine
  BY <1>1, <1>5 DEF NewRound
<1>6. ASSUME NEW e \in Event, PostEvent(e) PROVE RowsAreMine'
  BY <1>2, <1>6 DEF PostEvent, pollVars, RowsAreMine
<1>7. \A s : Goto(s) => UNCHANGED mine
  BY DEF Goto
<1>8. CASE UNCHANGED <<rows, mine>>
  BY <1>2, <1>8 DEF RowsAreMine
<1>9. /\ UNCHANGED pollVars => UNCHANGED rows
      /\ UNCHANGED suiteVars => UNCHANGED mine
  BY DEF pollVars, suiteVars
<1> QED BY <1>1, <1>3, <1>4, <1>5, <1>6, <1>7, <1>8, <1>9
        DEF AcceptanceNext, Background, Reply, Trouble, ScriptStep, Isolate, RegisterEndpoint,
            AskToRegister, Registry1, AskToReplay, ReadStatus, Reads, Sweep, IsSetUp, AllRegistered,
            FixEndpoint, NotAccepted, AllAccepted, RoundEnds, PollAgain, DeadlinePasses, Pass, Fail,
            allVars

LEMMA IsSuiteNext == IsSuite /\ [AcceptanceNext]_allVars => IsSuite'
<1> SUFFICES ASSUME IsSuite, [AcceptanceNext]_allVars PROVE IsSuite'
  OBVIOUS
<1>1. ASSUME NEW v, EndSuite(v) PROVE IsSuite'
  <2>1. part' = part /\ (stage' = stage \/ stage' \in stage + 1 .. part.last)
    BY <1>1 DEF EndSuite, Following
  <2>2. part.first \in Int /\ part.last \in Int
    BY PartsAssumption DEF IsSuite
  <2> QED BY <2>1, <2>2 DEF IsSuite
<1>2. CASE UNCHANGED <<part, stage>>
  BY <1>2 DEF IsSuite
<1>3. \A s : Goto(s) => UNCHANGED <<part, stage>>
  BY DEF Goto
<1>4. UNCHANGED suiteVars => UNCHANGED <<part, stage>>
  BY DEF suiteVars
<1> QED BY <1>1, <1>2, <1>3, <1>4
        DEF AcceptanceNext, Background, Reply, Trouble, ScriptStep, Isolate, RegisterEndpoint,
            AskToRegister, Registry1, PostEvent, AskToReplay, ReadStatus, Reads, Sweep, ReadRows,
            IsSetUp, AllRegistered, FixEndpoint, NotAccepted, AllAccepted, RoundEnds, PollAgain,
            DeadlinePasses, Pass, Fail, allVars

\* A verdict of PASS is given by Pass.
LEMMA PassesByPass ==
  ASSUME [AcceptanceNext]_allVars, Passes
  PROVE  Pass
<1>1. ~EndSuite("FAIL")
  BY DEF EndSuite, Passes
<1>2. step' # step
  BY DEF Passes
<1>3. UNCHANGED suiteVars => step' = step
  BY DEF suiteVars
<1> QED BY <1>1, <1>2, <1>3
        DEF AcceptanceNext, Background, Reply, Trouble, ScriptStep, Isolate, RegisterEndpoint,
            AskToRegister, Registry1, PostEvent, AskToReplay, ReadStatus, Reads, Sweep, ReadRows,
            IsSetUp, AllRegistered, FixEndpoint, NotAccepted, AllAccepted, RoundEnds, PollAgain,
            DeadlinePasses, Fail, Passes, allVars

LEMMA StaleFails ==
  ASSUME NothingRejected, RowsAreMine, IsSuite, Asserted, StaleExpectation(Current)
  PROVE  FALSE
<1>1. CASE Current.beyond = Budget
  <2>1. PICK a \in RowsRead : a.number > Budget
    BY <1>1, RetriesAssumption DEF Asserted, Budget
  <2>2. a.number \in 1 .. MaxRetries + 1
    BY DEF RowsRead, Attempt
  <2> QED BY <2>1, <2>2, RetriesAssumption DEF Budget
<1>2. CASE Current.status = {"FAILED"} /\ Current.trail = Times(Budget, "transient_error")
  <2>1. 1 \in DOMAIN Current.trail
    BY <1>2, RetriesAssumption DEF Times, Budget
  <2>2. Current.trail # <<>>
    BY <2>1
  <2>3. PICK a \in RowsRead : TRUE
    BY <2>1, <2>2 DEF Asserted, RowsMatchTrail
  <2>4. a.ev \in mine /\ a.ev \in Event
    BY DEF RowsRead, RowsAreMine
  <2>5. seen[a.ev] = "FAILED"
    BY <1>2, <2>4 DEF Asserted
  <2> QED BY <2>4, <2>5 DEF NothingRejected
<1> QED BY <1>1, <1>2, StaleSuites DEF IsSuite, Current

\* What the answers of the mock receivers and the reads of the polls leave true.
Answers == TypeOK /\ StatusHasEvidence /\ NothingRejected /\ RowsAreMine /\ IsSuite

LEMMA AnswersInit == AcceptanceInit => Answers
<1> SUFFICES ASSUME AcceptanceInit PROVE Answers
  OBVIOUS
<1>1. TypeOK /\ StatusHasEvidence
  BY TypeInit DEF AcceptanceInit, Init, StatusHasEvidence
<1>2. NothingRejected /\ RowsAreMine
  BY DEF AcceptanceInit, Init, NothingRejected, RowsAreMine, Unseen, NoRows, AnyStatus
<1>3. IsSuite
  BY PartsAssumption DEF AcceptanceInit, IsSuite
<1> QED BY <1>1, <1>2, <1>3 DEF Answers

LEMMA AnswersNext == Answers /\ [AcceptanceNext]_allVars => Answers'
<1> SUFFICES ASSUME Answers, [AcceptanceNext]_allVars PROVE Answers'
  OBVIOUS
<1> USE DEF Answers
<1>1. (TypeOK /\ StatusHasEvidence)'
  BY AcceptanceStep, TypeNext, EvidenceNext
<1>2. NothingRejected'
  <2>1. \A w \in Worker : outcome'[w] # "client_error"
    BY OutcomesNext DEF NothingRejected
  <2>2. \A a \in Attempt : attempts'[a] > 0 => a.outcome # "client_error"
    BY AcceptanceStep, RowsNext
  <2> QED BY <2>1, <2>2, SeenNext DEF NothingRejected
<1> QED BY <1>1, <1>2, RowsAreMineNext, IsSuiteNext

\* The suites that expect FAILED of exhausted retries, or numbers that go on
\* after a replay, pass under no timing, no fault and no bound.
THEOREM StaleOnesFail == AcceptanceSpec => StaleNeverPasses
<1>1. Answers /\ [AcceptanceNext]_allVars => [Passes => ~StaleExpectation(Current)]_allVars
  BY PassesByPass, StaleFails DEF Pass, Answers
<1> QED BY <1>1, AnswersInit, AnswersNext, PTL DEF AcceptanceSpec, StaleNeverPasses

(***************************************************************************)
(* Type correctness of the scripts. What is read of the events and of the   *)
(* rows has its types by the invariants above; an active endpoint has a     *)
(* receiver because one that a request is registering has it already.       *)
(***************************************************************************)

\* What the types need of the data of the suites.
TypedSuite(c) ==
  Len(c.reads) \in Nat /\ c.rows \in Nat /\ c.url \in Receiver

LEMMA SuitesTyped == \A c \in AllSuites : TypedSuite(c)
<1>1. /\ Budget \in Nat /\ Budget + 1 \in Nat /\ Len(FlakyTrail) = 3
      /\ Len(Times(Budget, "transient_error")) = Budget
  BY RetriesAssumption DEF Budget, FlakyTrail, Times
<1>2. NumEvents * NumEndpoints \in Nat
  BY NumbersAssumption
<1>3. \A c \in {Phase3, Phase7Signature, Phase8Burst, LoadTest, Phase5Deduplication, Phase5Headers,
                Phase6Dlq, Phase6Replay} : TypedSuite(c)
  <2>1. TypedSuite(Phase3)
    BY DEF TypedSuite, Phase3, Suite, Receiver
  <2>2. TypedSuite(Phase7Signature)
    BY DEF TypedSuite, Phase7Signature, Suite, Receiver
  <2>3. TypedSuite(Phase8Burst)
    BY DEF TypedSuite, Phase8Burst, Suite, Receiver
  <2>4. TypedSuite(LoadTest)
    BY DEF TypedSuite, LoadTest, Suite, Receiver
  <2>5. TypedSuite(Phase5Deduplication)
    BY DEF TypedSuite, Phase5Deduplication, Suite, Receiver
  <2>6. TypedSuite(Phase5Headers)
    BY DEF TypedSuite, Phase5Headers, Suite, Receiver
  <2>7. TypedSuite(Phase6Dlq)
    BY <1>1 DEF TypedSuite, Phase6Dlq, Suite, Receiver
  <2>8. TypedSuite(Phase6Replay)
    BY <1>1 DEF TypedSuite, Phase6Replay, Suite, Receiver
  <2> QED BY <2>1, <2>2, <2>3, <2>4, <2>5, <2>6, <2>7, <2>8
<1>4. TypedSuite(Phase4Flaky) /\ TypedSuite(Phase4Failing)
  BY <1>1 DEF TypedSuite, Phase4Flaky, Phase4Failing, Scenario, Suite, Receiver
<1>5. TypedSuite(Master1) /\ TypedSuite(Master3Idempotency) /\ TypedSuite(Master5)
  <2>1. TypedSuite(Master1)
    BY DEF TypedSuite, Master1, Suite, Receiver
  <2>2. TypedSuite(Master3Idempotency)
    BY DEF TypedSuite, Master3Idempotency, Suite, Receiver
  <2>3. TypedSuite(Master5)
    BY DEF TypedSuite, Master5, Suite, Receiver
  <2> QED BY <2>1, <2>2, <2>3
<1>6. TypedSuite(Master2)
  BY <1>1 DEF TypedSuite, Master2, Phase4Flaky, Scenario, Suite, Receiver
<1>7. TypedSuite(Master3Headers)
  BY <1>3 DEF Master3Headers
<1>8. TypedSuite(Master4Dlq) /\ TypedSuite(Master4Replay)
  BY <1>1 DEF TypedSuite, Master4Dlq, Master4Replay, Phase6Dlq, Phase6Replay, Suite, Receiver
<1>9. TypedSuite(BenchmarkAsync)
  BY <1>2 DEF TypedSuite, BenchmarkAsync, Suite, Receiver
<1> QED BY <1>3, <1>4, <1>5, <1>6, <1>7, <1>8, <1>9 DEF AllSuites

LEMMA CurrentTyped == ASSUME IsSuite PROVE TypedSuite(Current)
  BY SuiteIsOne, SuitesTyped DEF IsSuite, Current

\* The conjuncts of the type invariant that the invariants above lack.
ScriptType ==
  /\ step \in {"setup", "register", "post", "fix", "replay", "answer", "poll", "wait",
               "recheck", "verdict", "done"}
  /\ need    \in Nat
  /\ last    \in BOOLEAN
  /\ verdict \in {"NONE", "PASS", "FAIL"}

PollType ==
  /\ pos    \in 1 .. Len(Current.reads) + 1
  /\ unread \in SUBSET mine
  /\ slow   \in BOOLEAN

MockType ==
  /\ url  \in [Endpoint -> Receiver \cup {"none"}]
  /\ turn \in 0 .. Cycle - 1
  /\ aligned \in BOOLEAN
  /\ \A ep \in Endpoint :
       ep \in active \/ registration[ep] \in {"flushed", "answered"} => url[ep] # "none"

FaultType == troubles \in Nat /\ crashes + troubles <= part.faults

LEMMA ScriptTypeNext ==
  ASSUME Answers, ScriptType, [AcceptanceNext]_allVars
  PROVE  ScriptType'
<1>0. TypedSuite(Current)
  BY CurrentTyped DEF Answers
<1>1. Cardinality(active) \in Nat
  <2>1. IsFiniteSet(active)
    BY EndpointAssumption, FS_Subset DEF Answers, TypeOK
  <2> QED BY <2>1, FS_CardinalityType
<1>2. CASE UNCHANGED <<suiteVars, last>>
  BY <1>2 DEF suiteVars, ScriptType
<1>3. ASSUME NEW v \in {"PASS", "FAIL"}, EndSuite(v) PROVE ScriptType'
  BY <1>3 DEF EndSuite, ScriptType
<1>4. CASE AllAccepted
  BY <1>0, <1>1, <1>4 DEF AllAccepted, ScriptType, TypedSuite
<1>5. ASSUME NEW s, Goto(s), last' \in BOOLEAN,
             s \in {"register", "post", "fix", "replay", "answer", "poll", "wait", "recheck",
                    "verdict", "done"}
      PROVE  ScriptType'
  BY <1>5 DEF Goto, ScriptType
<1>6. CASE ScriptStep
  <2>1. ASSUME NEW ep \in Endpoint, Isolate(ep) \/ AskToRegister(ep) PROVE ScriptType'
    BY <1>2, <2>1 DEF Isolate, AskToRegister, pollVars
  <2>2. ASSUME NEW ep \in Endpoint, RegisterEndpoint(ep) \/ Registry1(ep) PROVE ScriptType'
    BY <1>2, <1>5, <2>2 DEF RegisterEndpoint, Registry1, pollVars, ScriptType
  <2>3. ASSUME NEW e \in Event, PostEvent(e) PROVE ScriptType'
    BY <2>3 DEF PostEvent, pollVars, ScriptType
  <2>4. ASSUME NEW e \in Event, AskToReplay(e) PROVE ScriptType'
    BY <1>5, <2>4 DEF AskToReplay, pollVars, ScriptType
  <2>5. ASSUME \/ Sweep \/ ReadRows \/ \E e \in Event : ReadStatus(e) PROVE ScriptType'
    BY <1>2, <2>5 DEF Sweep, ReadRows, ReadStatus, Reads
  <2>6. CASE IsSetUp
    BY <1>5, <2>6 DEF IsSetUp, pollVars, ScriptType
  <2>7. CASE AllRegistered \/ FixEndpoint \/ PollAgain
    BY <1>5, <2>7 DEF AllRegistered, FixEndpoint, PollAgain, pollVars, ScriptType
  <2>8. CASE NotAccepted \/ Pass \/ Fail
    BY <1>3, <2>8 DEF NotAccepted, Pass, Fail
  <2>9. CASE RoundEnds
    <3>1. AfterPolling \in {"recheck", "verdict"}
      BY DEF AfterPolling
    <3>2. PICK s \in {"wait", "recheck", "verdict"} : Goto(s)
      BY <2>9, <3>1 DEF RoundEnds
    <3>3. last' \in BOOLEAN
      BY <2>9 DEF RoundEnds, ScriptType
    <3> QED BY <1>5, <3>2, <3>3
  <2>10. CASE DeadlinePasses
    <3>1. AfterPolling \in {"recheck", "verdict"}
      BY DEF AfterPolling
    <3>2. PICK s \in {"poll", "recheck", "verdict"} : Goto(s)
      BY <2>10, <3>1 DEF DeadlinePasses
    <3>3. last' \in BOOLEAN
      BY <2>10 DEF DeadlinePasses
    <3> QED BY <1>5, <3>2, <3>3
  <2> QED BY <1>4, <1>6, <2>1, <2>2, <2>3, <2>4, <2>5, <2>6, <2>7, <2>8, <2>9, <2>10 DEF ScriptStep
<1>7. CASE Background \/ \E w \in Worker : Reply(w) \/ Trouble(w)
  BY <1>2, <1>7 DEF Background, Reply, Trouble, pollVars
<1>8. CASE UNCHANGED allVars
  BY <1>2, <1>8 DEF allVars, pollVars
<1> QED BY <1>6, <1>7, <1>8 DEF AcceptanceNext

LEMMA PollTypeNext ==
  ASSUME Answers, PollType, [AcceptanceNext]_allVars
  PROVE  PollType'
<1> DEFINE n == Len(Current.reads)
<1>0. n \in Nat /\ n' \in Nat
  <2>1. IsSuite'
    BY AnswersNext DEF Answers
  <2>2. \A p \in Parts : \A s \in p.first .. p.last : TypedSuite(Script[p.name][s])
    BY SuiteIsOne, SuitesTyped
  <2>3. TypedSuite(Current)'
    BY <2>1, <2>2 DEF IsSuite, Current, TypedSuite
  <2> QED BY <2>3, CurrentTyped DEF Answers, TypedSuite
<1>1. UNCHANGED <<part, stage>> => n' = n
  BY DEF Current
<1>2. CASE UNCHANGED <<part, stage, pos, unread, slow>> /\ mine \subseteq mine'
  BY <1>1, <1>2 DEF PollType
<1> HIDE DEF n
<1>3. ASSUME NEW v, EndSuite(v) PROVE PollType'
  <2>1. pos' = 1 /\ unread' = {} /\ slow' = FALSE
    BY <1>3 DEF EndSuite
  <2>2. \A m \in Nat : 1 \in 1 .. m + 1
    OBVIOUS
  <2>3. pos' \in 1 .. n' + 1
    BY <1>0, <2>1, <2>2
  <2> QED BY <2>1, <2>3 DEF PollType, n
<1>4. CASE NewRound /\ UNCHANGED <<part, stage, mine, slow>>
  BY <1>0, <1>4 DEF NewRound, PollType, n
<1>5. ASSUME NEW e \in Event, ReadStatus(e) PROVE PollType'
  BY <1>0, <1>1, <1>5 DEF ReadStatus, Reads, suiteVars, PollType, n
<1>6. CASE Sweep \/ ReadRows
  <2>1. /\ UNCHANGED <<part, stage, mine, unread>> /\ pos' = pos + 1 /\ pos <= n
        /\ slow' \in BOOLEAN
    BY <1>6 DEF Sweep, ReadRows, Reads, suiteVars, n
  <2>2. pos \in 1 .. n + 1 /\ n' = n
    BY <1>1, <2>1 DEF PollType, n
  <2>3. pos' \in 1 .. n' + 1
    BY <1>0, <2>1, <2>2
  <2> QED BY <2>1, <2>3 DEF PollType, n
<1>7. CASE UNCHANGED <<pollVars, part, stage>> /\ mine \subseteq mine'
  BY <1>2, <1>7 DEF pollVars
<1>8. CASE ScriptStep
  <2>1. ASSUME NEW ep \in Endpoint,
               Isolate(ep) \/ AskToRegister(ep) \/ RegisterEndpoint(ep) \/ Registry1(ep)
        PROVE  PollType'
    BY <1>7, <2>1 DEF Isolate, AskToRegister, RegisterEndpoint, Registry1, Goto, suiteVars
  <2>2. ASSUME NEW e \in Event, PostEvent(e) \/ AskToReplay(e) PROVE PollType'
    BY <1>7, <2>2 DEF PostEvent, AskToReplay, Goto
  <2>3. CASE IsSetUp \/ AllRegistered \/ FixEndpoint \/ PollAgain
    BY <1>7, <2>3 DEF IsSetUp, AllRegistered, FixEndpoint, PollAgain, Goto
  <2>4. CASE NotAccepted \/ Pass \/ Fail
    BY <1>3, <2>4 DEF NotAccepted, Pass, Fail
  <2>5. CASE AllAccepted
    BY <1>4, <2>5 DEF AllAccepted
  <2>6. CASE RoundEnds
    <3>1. UNCHANGED <<part, stage, mine, slow>> /\ (NewRound \/ UNCHANGED <<pos, unread>>)
      BY <2>6 DEF RoundEnds, Goto
    <3> QED BY <1>2, <1>4, <3>1
  <2>7. CASE DeadlinePasses
    <3>1. UNCHANGED <<part, stage, mine>>
      BY <2>7 DEF DeadlinePasses, Goto
    <3> QED BY <1>2, <2>7, <3>1 DEF DeadlinePasses
  <2> QED BY <1>5, <1>6, <1>8, <2>1, <2>2, <2>3, <2>4, <2>5, <2>6, <2>7 DEF ScriptStep
<1>9. CASE Background \/ \E w \in Worker : Reply(w) \/ Trouble(w)
  BY <1>7, <1>9 DEF Background, Reply, Trouble, suiteVars
<1>10. CASE UNCHANGED allVars
  BY <1>7, <1>10 DEF allVars, suiteVars
<1> QED BY <1>8, <1>9, <1>10 DEF AcceptanceNext

LEMMA MockTypeNext ==
  ASSUME Answers, RegistryTypeOK, MockType, [AcceptanceNext]_allVars
  PROVE  MockType'
<1>0. Current.url \in Receiver /\ "none" \notin Receiver /\ Cycle = 3
  BY CurrentTyped DEF Answers, TypedSuite, Receiver, Cycle, FlakyTrail
<1>1. CASE UNCHANGED <<url, turn, aligned, registration>> /\ active' \subseteq active
  BY <1>1 DEF MockType
<1>3. ASSUME NEW w \in Worker, Reply(w) \/ Trouble(w) PROVE MockType'
  <2>1. UNCHANGED <<url, registration, active>>
    BY <1>3 DEF Reply, Trouble, Post, registry, db
  <2>2. turn' \in 0 .. Cycle - 1 /\ aligned' \in BOOLEAN
    <3>1. turn \in 0 .. 2 /\ aligned \in BOOLEAN
      BY <1>0 DEF MockType
    <3>2. (turn + 1) % 3 \in 0 .. 2
      BY <3>1
    <3>3. CASE Counted(w)
      <4>1. turn' = (turn + 1) % 3 \/ turn' = turn
        BY <1>0, <3>3 DEF Counted
      <4>2. aligned' \in BOOLEAN
        BY <3>1, <3>3 DEF Counted
      <4>3. Cycle - 1 = 2
        BY <1>0
      <4> HIDE DEF MockType
      <4> QED BY <3>1, <3>2, <4>1, <4>2, <4>3
    <3>4. CASE UNCHANGED <<turn, aligned>>
      BY <1>0, <3>1, <3>4
    <3> QED BY <1>3, <3>3, <3>4 DEF Reply, Trouble
  <2> QED BY <2>1, <2>2 DEF MockType
<1>4. CASE Background
  <2>1. UNCHANGED active
    BY <1>4 DEF Background, ReplayCommit, Enqueue, ApiFails, WindowExpires, CountdownElapses, Work,
                Take, DispatchToNobody, Dispatch, FanOut, Admit, FailOpen, Throttle, ThrottleOut,
                Record, Retry, Ack, TaskDies, WorkerCrash, db
  <2> QED BY <1>1, <1>4, <2>1 DEF Background, registry, mockVars
<1>5. CASE ScriptStep
  <2>1. ASSUME NEW ep \in Endpoint, Isolate(ep) PROVE MockType'
    BY <1>1, <2>1 DEF Isolate, Deactivate, mockVars
  <2>2. ASSUME NEW ep \in Endpoint, RegisterEndpoint(ep) PROVE MockType'
    BY <1>0, <2>2 DEF RegisterEndpoint, Register, MockType
  <2>3. ASSUME NEW ep \in Endpoint, AskToRegister(ep) PROVE MockType'
    <3>1. /\ url' = [url EXCEPT ![ep] = Current.url] /\ UNCHANGED <<active, turn, aligned>>
          /\ registration' = [registration EXCEPT ![ep] = "flushed"]
      BY <2>3 DEF AskToRegister, Flush, Goes, vars, db
    <3> QED BY <1>0, <3>1 DEF MockType, RegistryTypeOK
  <2>4. ASSUME NEW ep \in Endpoint, Registry1(ep) PROVE MockType'
    <3>1. UNCHANGED <<url, turn, aligned>> /\ registration \in [Endpoint -> Registration]
      BY <2>4 DEF Registry1, mockVars, RegistryTypeOK
    <3>2. CASE Respond(ep)
      <4>1. /\ registration' = [registration EXCEPT ![ep] = registration'[ep]] /\ active' = active
            /\ registration'[ep] = "answered" => registration[ep] = "flushed"
        BY <3>1, <3>2 DEF Respond, Goes, vars, db
      <4> QED BY <3>1, <3>2, <4>1 DEF MockType, Respond, Goes
    <3>3. CASE CommitSession(ep)
      <4>1. /\ registration[ep] \in {"flushed", "answered"} /\ active' = active \cup {ep}
            /\ \A q \in Endpoint : registration'[q] \in {"flushed", "answered"} => registration'[q] = registration[q]
        BY <3>1, <3>3 DEF CommitSession, Goes, Register
      <4> QED BY <3>1, <4>1 DEF MockType
    <3>4. CASE RollBack(ep)
      <4>1. /\ active' = active
            /\ \A q \in Endpoint : registration'[q] \in {"flushed", "answered"} => registration'[q] = registration[q]
        BY <3>1, <3>4 DEF RollBack, Goes, vars, db
      <4> QED BY <3>1, <4>1 DEF MockType
    <3> QED BY <2>4, <3>2, <3>3, <3>4 DEF Registry1
  <2>5. ASSUME NEW e \in Event, PostEvent(e) PROVE MockType'
    BY <2>5 DEF PostEvent, Ingest, MockType
  <2>6. ASSUME NEW e \in Event, AskToReplay(e) PROVE MockType'
    BY <1>1, <2>6 DEF AskToReplay, ReplayRead, db, mockVars, registry
  <2>7. CASE FixEndpoint
    <3>1. url' = [ep \in Endpoint |-> IF ep \in active THEN Current.url ELSE url[ep]]
      BY <2>7 DEF FixEndpoint
    <3>2. UNCHANGED <<active, turn, aligned, registration>>
      BY <2>7 DEF FixEndpoint, vars, db, registry
    <3> QED BY <1>0, <3>1, <3>2 DEF MockType
  <2>8. ASSUME \/ \E e \in Event : ReadStatus(e)
               \/ Sweep \/ ReadRows \/ IsSetUp \/ AllRegistered \/ AllAccepted \/ RoundEnds
               \/ PollAgain \/ DeadlinePasses
        PROVE  MockType'
    BY <1>1, <2>8 DEF ReadStatus, Reads, Sweep, ReadRows, IsSetUp, AllRegistered, AllAccepted,
                            RoundEnds, PollAgain, DeadlinePasses, registry, mockVars, vars, db
  <2>9. CASE NotAccepted \/ Pass \/ Fail
    BY <1>1, <2>9, EndSuiteKeeps DEF NotAccepted, Pass, Fail, registry, mockVars, vars, db
  <2> QED BY <1>5, <2>1, <2>2, <2>3, <2>4, <2>5, <2>6, <2>7, <2>8, <2>9 DEF ScriptStep
<1>6. CASE UNCHANGED allVars
  BY <1>1, <1>6 DEF allVars, vars, db, registry, mockVars
<1> QED BY <1>3, <1>4, <1>5, <1>6 DEF AcceptanceNext

\* Only what is registered changes the registry's variables.
LEMMA RegistryTypeNext ==
  ASSUME RegistryTypeOK, [AcceptanceNext]_allVars
  PROVE  RegistryTypeOK'
<1>1. CASE UNCHANGED registry
  BY <1>1 DEF registry, RegistryTypeOK
<1>2. Remember => promised' \in [Event -> SUBSET Endpoint] /\ hidden' \in [Event -> SUBSET Endpoint]
  BY DEF Remember, RegistryTypeOK, Answered201
<1>3. ASSUME NEW ep \in Endpoint,
             Isolate(ep) \/ RegisterEndpoint(ep) \/ AskToRegister(ep) \/ Registry1(ep)
      PROVE  RegistryTypeOK'
  BY <1>2, <1>3 DEF Isolate, RegisterEndpoint, AskToRegister, Registry1, Flush, Respond, CommitSession,
                    RollBack, Goes, RegistryTypeOK, Registration
<1>4. ASSUME NEW e \in Event, PostEvent(e) PROVE RegistryTypeOK'
  BY <1>2, <1>4 DEF PostEvent, RegistryTypeOK
<1>5. \A v : EndSuite(v) => UNCHANGED registry
  BY EndSuiteKeeps
<1> QED BY <1>1, <1>3, <1>4, <1>5
        DEF AcceptanceNext, Background, Reply, Trouble, ScriptStep, AskToReplay, ReadStatus, Reads,
            Sweep, ReadRows, IsSetUp, AllRegistered, FixEndpoint, NotAccepted, AllAccepted, RoundEnds,
            PollAgain, DeadlinePasses, Pass, Fail, allVars

\* A run of a script ends with the script.
LEMMA PartKept == [AcceptanceNext]_allVars => part' = part
<1>1. \A v : EndSuite(v) => part' = part
  BY DEF EndSuite
<1>2. \A s : Goto(s) => part' = part
  BY DEF Goto
<1>3. UNCHANGED suiteVars => part' = part
  BY DEF suiteVars
<1> QED BY <1>1, <1>2, <1>3
        DEF AcceptanceNext, Background, Reply, Trouble, ScriptStep, Isolate, RegisterEndpoint,
            AskToRegister, Registry1, PostEvent, AskToReplay, ReadStatus, Reads, Sweep, ReadRows,
            IsSetUp, AllRegistered, FixEndpoint, NotAccepted, AllAccepted, RoundEnds, PollAgain,
            DeadlinePasses, Pass, Fail, allVars

LEMMA FaultTypeNext ==
  ASSUME Answers, FaultType, [AcceptanceNext]_allVars
  PROVE  FaultType'
<1>0. crashes \in Nat /\ part.faults \in Nat
  BY BoundsAssumption, PartsAssumption DEF Answers, TypeOK, IsSuite
<1>1. part' = part
  BY PartKept
<1>2. CASE UNCHANGED <<crashes, troubles>>
  BY <1>1, <1>2 DEF FaultType
<1>3. ASSUME NEW w \in Worker, Reply(w) \/ Trouble(w) PROVE FaultType'
  BY <1>0, <1>1, <1>3 DEF Reply, Trouble, Post, bounds, FaultType
<1>4. CASE Background
  <2>1. troubles' = troubles
    BY <1>4 DEF Background, mockVars
  <2>2. ASSUME NEW w \in Worker, WorkerCrash(w), crashes + troubles < part.faults PROVE FaultType'
    BY <1>0, <1>1, <2>1, <2>2 DEF WorkerCrash, FaultType
  <2>3. ASSUME NEW w \in Worker, Work(w), ~(crashes + troubles < part.faults /\ WorkerCrash(w))
        PROVE  UNCHANGED crashes
    BY <2>3 DEF Work, Take, DispatchToNobody, Dispatch, FanOut, Admit, FailOpen, Throttle, ThrottleOut,
                Record, Retry, Ack, TaskDies, bounds
  <2>4. ASSUME NEW w \in Worker, Work(w) PROVE FaultType'
    BY <1>2, <2>1, <2>2, <2>3, <2>4
  <2>5. ASSUME ~\E w \in Worker : Work(w) PROVE UNCHANGED crashes
    BY <1>4, <2>5 DEF Background, ReplayCommit, Enqueue, ApiFails, WindowExpires, CountdownElapses, bounds
  <2> QED BY <1>2, <2>1, <2>4, <2>5
<1>5. CASE ScriptStep
  <2>1. \A v : EndSuite(v) => UNCHANGED <<vars, mockVars>>
    BY EndSuiteKeeps
  <2>2. UNCHANGED vars => UNCHANGED crashes
    BY DEF vars, bounds
  <2>3. UNCHANGED mockVars => UNCHANGED troubles
    BY DEF mockVars
  <2>4. UNCHANGED crashes
    BY <1>5, <2>2, ScriptStutters
       DEF ScriptStep, Isolate, RegisterEndpoint, AskToRegister, Registry1, Flush, Respond,
           CommitSession, RollBack, Register, Deactivate, PostEvent, AskToReplay, Ingest, ReplayRead,
           bounds
  <2>5. UNCHANGED troubles
    BY <1>5, <2>1, <2>3
       DEF ScriptStep, Isolate, RegisterEndpoint, AskToRegister, Registry1, PostEvent, AskToReplay,
           ReadStatus, Reads, Sweep, ReadRows, IsSetUp, AllRegistered, FixEndpoint, NotAccepted,
           AllAccepted, RoundEnds, PollAgain, DeadlinePasses, Pass, Fail
  <2> QED BY <1>2, <2>4, <2>5
<1>6. CASE UNCHANGED allVars
  BY <1>2, <1>6 DEF allVars, vars, bounds, mockVars
<1> QED BY <1>3, <1>4, <1>5, <1>6 DEF AcceptanceNext

LEMMA ScriptInit ==
  AcceptanceInit => RegistryTypeOK /\ ScriptType /\ PollType /\ MockType /\ FaultType
<1> SUFFICES ASSUME AcceptanceInit
             PROVE  RegistryTypeOK /\ ScriptType /\ PollType /\ MockType /\ FaultType
  OBVIOUS
<1>1. RegistryTypeOK /\ ScriptType
  BY DEF AcceptanceInit, RegistryInit, RegistryTypeOK, Registration, ScriptType
<1>2. PollType
  <2>1. Len(Current.reads) \in Nat
    BY AnswersInit, CurrentTyped DEF Answers, TypedSuite
  <2>2. pos = 1 /\ unread = {} /\ slow = FALSE
    BY DEF AcceptanceInit
  <2>3. pos \in 1 .. Len(Current.reads) + 1
    BY <2>1, <2>2
  <2> QED BY <2>2, <2>3 DEF PollType
<1>3. MockType
  <2>1. part.left \in Receiver \cup {"none"} /\ Cycle = 3
    BY PartsAssumption DEF AcceptanceInit, Cycle, FlakyTrail
  <2>2. url \in [Endpoint -> Receiver \cup {"none"}] /\ turn \in 0 .. Cycle - 1 /\ aligned \in BOOLEAN
    <3>1. url = [ep \in Endpoint |-> IF ep \in active THEN part.left ELSE "none"]
      BY DEF AcceptanceInit
    <3>2. turn \in 0 .. Cycle - 1 \/ turn = 0
      BY DEF AcceptanceInit
    <3>3. aligned = FALSE
      BY DEF AcceptanceInit
    <3>4. url \in [Endpoint -> Receiver \cup {"none"}]
      BY <2>1, <3>1
    <3>5. turn \in 0 .. Cycle - 1
      BY <2>1, <3>2
    <3> QED BY <3>3, <3>4, <3>5
  <2>3. \A ep \in Endpoint : registration[ep] = "none"
    BY DEF AcceptanceInit, RegistryInit
  <2>4. ASSUME NEW ep \in active PROVE url[ep] # "none"
    <3>1. active \subseteq Endpoint /\ IsFiniteSet(active)
      BY EndpointAssumption, FS_Subset DEF AcceptanceInit, Init
    <3>2. Cardinality(active) # 0
      BY <2>4, <3>1, FS_EmptySet
    <3>3. part.left # "none"
      BY <3>2 DEF AcceptanceInit
    <3> QED BY <3>1, <3>3 DEF AcceptanceInit
  <2> QED BY <2>2, <2>3, <2>4 DEF MockType
<1>4. FaultType
  BY PartsAssumption DEF AcceptanceInit, Init, FaultType
<1> QED BY <1>1, <1>2, <1>3, <1>4

\* Whatever suite is run and whatever fails, what the script holds of the
\* tables has their types, its reads stay within the suite's list, and every
\* active endpoint has a receiver.
THEOREM AcceptanceTypes == AcceptanceSpec => []AcceptanceTypeOK
<1> DEFINE I == Answers /\ RegistryTypeOK /\ ScriptType /\ PollType /\ MockType /\ FaultType
<1>1. AcceptanceInit => I
  BY AnswersInit, ScriptInit
<1>2. I /\ [AcceptanceNext]_allVars => I'
  <2> SUFFICES ASSUME I, [AcceptanceNext]_allVars PROVE I'
    OBVIOUS
  <2>1. Answers' /\ RegistryTypeOK' /\ ScriptType'
    BY AnswersNext, RegistryTypeNext, ScriptTypeNext
  <2>2. PollType' /\ MockType' /\ FaultType'
    BY PollTypeNext, MockTypeNext, FaultTypeNext
  <2> QED BY <2>1, <2>2
<1>3. I => AcceptanceTypeOK
  <2> SUFFICES ASSUME I PROVE AcceptanceTypeOK
    OBVIOUS
  <2>1. /\ part \in Parts /\ stage \in part.first .. part.last /\ mine \in SUBSET Event
        /\ rows \in [Attempt -> Nat] /\ seen \in [Event -> AnyStatus]
    <3>1. part \in Parts /\ stage \in part.first .. part.last /\ mine \subseteq Event
      BY DEF Answers, IsSuite, RowsAreMine
    <3>2. rows \in [Attempt -> Nat]
      BY DEF Answers, RowsAreMine
    <3>3. seen \in [Event -> AnyStatus \ {"FAILED"}]
      BY DEF Answers, NothingRejected
    <3>4. seen \in [Event -> AnyStatus]
      BY <3>3
    <3> QED BY <3>1, <3>2, <3>4
  <2>2. \A ep \in active : url[ep] # "none"
    BY DEF Answers, TypeOK, MockType
  <2> QED BY <2>1, <2>2 DEF AcceptanceTypeOK, ScriptType, PollType, MockType, FaultType
<1> HIDE DEF I
<1> QED BY <1>1, <1>2, <1>3, PTL DEF AcceptanceSpec

(***************************************************************************)
(* What the benchmark's count of rows is worth. It posts NumEvents events    *)
(* at most and has as many answers as NumEndpoints at most; no endpoint is  *)
(* deactivated while it runs, so every row is of an endpoint that is active *)
(* at the end; and without a crash each event has one row of a number at an *)
(* endpoint. Rows of first attempts that are as many as the pairs of an     *)
(* event and an answered endpoint are therefore one for each pair.          *)
(***************************************************************************)

Benchmark == part.name = "benchmark_async"

\* What is under way or was recorded is for endpoints that are still active.
Addressed ==
  /\ \A t \in DeliverTask : Waiting(t) => t.ep \in active
  /\ \A w \in Worker :
       /\ todo[w] \subseteq active
       /\ task[w] \in DeliverTask => task[w].ep \in active
  /\ \A a \in Attempt : attempts[a] > 0 => a.ep \in active

Beginning == {"setup", "register", "post"}

\* The benchmark replays nothing and counts its events before it goes on.
PostsInv ==
  /\ step \notin {"fix", "replay"}
  /\ \A e \in Event : replays[e] = 0
  /\ IsFiniteSet(mine) /\ Cardinality(mine) <= NumEvents
  /\ step \in Beginning => Cardinality(mine) < NumEvents

\* It makes one request after the other, and no more than it wants.
Pending == {ep \in Endpoint : registration[ep] \in {"flushed", "committed"}}

RequestsInv ==
  /\ Cardinality(Answered201) <= NumEndpoints
  /\ \A p, q \in Pending : p = q
  /\ Pending # {} => Cardinality(Answered201) < NumEndpoints

RowsWereRead == \A a \in Attempt : rows[a] <= attempts[a]

BenchmarkInv == RowsWereRead /\ RequestsInv /\ (Benchmark => PostsInv /\ Addressed)

LEMMA BenchmarkSuite ==
  ASSUME IsSuite
  PROVE  /\ Current.registers = "api" => Benchmark
         /\ Benchmark => Current = BenchmarkAsync /\ stage = 1 /\ part.last = 1
  BY SuiteIsOne DEF IsSuite, Current, Benchmark

LEMMA AddressedNext ==
  ASSUME TypeOK, Addressed, [Next]_vars, active \subseteq active'
  PROVE  Addressed'
<1>0. /\ queue \in [Task -> Nat] /\ parked \in [DeliverTask -> Nat] /\ DeliverTask \subseteq Task
      /\ task \in [Worker -> Task \cup {NoTask}] /\ todo \in [Worker -> SUBSET Endpoint]
      /\ pc \in [Worker -> Working \cup {"idle", "ack"}] /\ NoTask \notin DeliverTask
      /\ \A w \in Worker : pc[w] \in {"gate", "post", "write", "retry"} => task[w] \in DeliverTask
  BY NoTaskAssumption DEF TypeOK, Task
<1>1. /\ \A t \in DeliverTask : queue[t] > 0 \/ parked[t] > 0 => t.ep \in active'
      /\ \A w \in Worker : todo[w] \subseteq active'
      /\ \A w \in Worker : task[w] \in DeliverTask => task[w].ep \in active'
      /\ \A a \in Attempt : attempts[a] > 0 => a.ep \in active'
  BY DEF Addressed, Waiting
<1>2. ASSUME UNCHANGED attempts,
             \A t \in DeliverTask : queue'[t] > 0 => queue[t] > 0 \/ t.ep \in active',
             \A t \in DeliverTask : parked'[t] > 0 => parked[t] > 0 \/ t.ep \in active',
             \A w \in Worker : todo'[w] \subseteq active',
             \A w \in Worker : task'[w] \in DeliverTask => task'[w].ep \in active'
      PROVE  Addressed'
  BY <1>1, <1>2 DEF Addressed, Waiting
<1>3. ASSUME UNCHANGED <<attempts, queue, parked>>,
             \A w \in Worker : todo'[w] \subseteq todo[w] \cup active',
             \A w \in Worker : task'[w] = task[w] \/ task'[w] = NoTask
      PROVE  Addressed'
  BY <1>0, <1>1, <1>2, <1>3
<1>4. ASSUME NEW e \in Event, ApiStep(e) PROVE Addressed'
  <2>1. Dispatcher(e) \in Task /\ Dispatcher(e) \notin DeliverTask
    BY DispatcherType, TaskFields DEF Dispatcher
  <2>2. \A t \in DeliverTask : queue'[t] = queue[t]
    BY <1>0, <1>4, <2>1 DEF ApiStep, Ingest, ReplayRead, ReplayCommit, Enqueue, ApiFails, broker
  <2>3. UNCHANGED <<attempts, parked, todo, task>>
    BY <1>4 DEF ApiStep, Ingest, ReplayRead, ReplayCommit, Enqueue, ApiFails, broker, workers, db
  <2> QED BY <1>1, <1>2, <2>2, <2>3
<1>5. ASSUME NEW ep \in Endpoint, AdminStep(ep) \/ WindowExpires(ep) PROVE Addressed'
  BY <1>3, <1>5 DEF AdminStep, Register, Deactivate, WindowExpires, broker, workers, db
<1>6. ASSUME NEW t \in DeliverTask, CountdownElapses(t) PROVE Addressed'
  <2>1. /\ parked[t] > 0 /\ parked' = [parked EXCEPT ![t] = @ - 1]
        /\ queue' = [queue EXCEPT ![t] = @ + 1] /\ UNCHANGED <<attempts, todo, task>>
    BY <1>6 DEF CountdownElapses, workers, db
  <2>2. t.ep \in active'
    BY <1>1, <2>1
  <2> QED BY <1>0, <1>1, <1>2, <2>1, <2>2
<1>7. ASSUME NEW w \in Worker, NEW t \in Task, Take(w, t) PROVE Addressed'
  <2>1. /\ queue[t] > 0 /\ queue' = [queue EXCEPT ![t] = @ - 1]
        /\ task' = [task EXCEPT ![w] = t] /\ UNCHANGED <<attempts, parked, todo>>
    BY <1>7 DEF Take, db
  <2>2. t \in DeliverTask => t.ep \in active'
    BY <1>1, <2>1
  <2>3. \A u \in DeliverTask : queue'[u] > 0 => queue[u] > 0
    BY <1>0, <2>1
  <2>4. \A v \in Worker : task'[v] \in DeliverTask => task'[v].ep \in active'
    BY <1>0, <1>1, <2>1, <2>2
  <2> QED BY <1>1, <1>2, <2>1, <2>3, <2>4
<1>8. ASSUME NEW w \in Worker, Dispatch(w) PROVE Addressed'
  <2>1. todo' = [todo EXCEPT ![w] = active] /\ UNCHANGED <<attempts, queue, parked, task>>
    BY <1>8 DEF Dispatch, broker, db
  <2>2. \A v \in Worker : todo'[v] \subseteq todo[v] \cup active'
    BY <1>0, <2>1
  <2> QED BY <1>3, <2>1, <2>2
<1>9. ASSUME NEW w \in Worker, NEW ep \in Endpoint, FanOut(w, ep) PROVE Addressed'
  <2>1. /\ ep \in todo[w] /\ todo' = [todo EXCEPT ![w] = @ \ {ep}]
        /\ queue' = [queue EXCEPT ![Delivery(task[w].ev, ep)] = @ + 1]
        /\ UNCHANGED <<attempts, parked, task>>
    BY <1>9 DEF FanOut, db
  <2>2. Delivery(task[w].ev, ep).ep = ep /\ ep \in active'
    BY <1>1, <2>1 DEF Delivery
  <2>3. \A t \in DeliverTask : queue'[t] > 0 => queue[t] > 0 \/ t = Delivery(task[w].ev, ep)
    BY <1>0, <2>1
  <2>4. \A v \in Worker : todo'[v] \subseteq todo[v]
    BY <1>0, <2>1
  <2> QED BY <1>1, <1>2, <2>1, <2>2, <2>3, <2>4
<1>10. ASSUME NEW w \in Worker, Throttle(w) \/ Retry(w) PROVE Addressed'
  <2>1. task[w] \in DeliverTask /\ task[w].ep \in active'
    BY <1>0, <1>1, <1>10 DEF Throttle, Retry
  <2>2. NextTry(task[w]).ep = task[w].ep
    BY <2>1 DEF NextTry, DeliverTask
  <2>3. \A t \in DeliverTask : queue'[t] > 0 => queue[t] > 0 \/ t = NextTry(task[w])
    BY <1>0, <1>10 DEF Throttle, Retry
  <2>4. \A t \in DeliverTask : parked'[t] > 0 => parked[t] > 0 \/ t = NextTry(task[w])
    BY <1>0, <1>10 DEF Throttle, Retry
  <2>5. UNCHANGED <<attempts, todo, task>>
    BY <1>10 DEF Throttle, Retry, db
  <2> QED BY <1>1, <1>2, <2>1, <2>2, <2>3, <2>4, <2>5
<1>11. ASSUME NEW w \in Worker, Record(w) PROVE Addressed'
  <2>1. task[w] \in DeliverTask /\ task[w].ep \in active'
    BY <1>0, <1>1, <1>11 DEF Record
  <2>2. /\ attempts' = [attempts EXCEPT ![Row(w)] = @ + 1] /\ UNCHANGED <<queue, parked, task, todo>>
    BY <1>11 DEF Record, broker
  <2>3. \A a \in Attempt : attempts'[a] > 0 => attempts[a] > 0 \/ a = Row(w)
    BY <2>2 DEF TypeOK
  <2>4. Row(w).ep = task[w].ep
    BY DEF Row
  <2>5. \A a \in Attempt : attempts'[a] > 0 => a.ep \in active'
    BY <1>1, <2>1, <2>3, <2>4
  <2> QED BY <1>1, <2>2, <2>5 DEF Addressed, Waiting
<1>12. ASSUME NEW w \in Worker,
              \/ DispatchToNobody(w) \/ Admit(w) \/ FailOpen(w) \/ ThrottleOut(w)
              \/ \E o \in Outcome : Post(w, o)
       PROVE  Addressed'
  BY <1>3, <1>12 DEF DispatchToNobody, Admit, FailOpen, ThrottleOut, Post, broker, db
<1>13. ASSUME NEW w \in Worker, Free(w)
       PROVE  /\ \A v \in Worker : todo'[v] \subseteq todo[v]
              /\ \A v \in Worker : task'[v] = task[v] \/ task'[v] = NoTask
  BY <1>0, <1>13 DEF Free
<1>14. ASSUME NEW w \in Worker, Ack(w) \/ TaskDies(w) PROVE Addressed'
  <2>1. UNCHANGED <<attempts, queue, parked>>
    BY <1>14 DEF Ack, TaskDies, broker, db
  <2> QED BY <1>3, <1>13, <1>14, <2>1 DEF Ack, TaskDies
<1>15. ASSUME NEW w \in Worker, WorkerCrash(w) PROVE Addressed'
  <2>1. queue' = [queue EXCEPT ![task[w]] = @ + 1] /\ UNCHANGED <<attempts, parked>>
    BY <1>15 DEF WorkerCrash, db
  <2>2. \A t \in DeliverTask : queue'[t] > 0 => queue[t] > 0 \/ t = task[w]
    BY <1>0, <2>1
  <2>3. /\ \A v \in Worker : todo'[v] \subseteq todo[v]
        /\ \A v \in Worker : task'[v] = task[v] \/ task'[v] = NoTask
    BY <1>13, <1>15 DEF WorkerCrash
  <2> QED BY <1>0, <1>1, <1>2, <2>1, <2>2, <2>3
<1>16. CASE UNCHANGED vars
  BY <1>3, <1>16 DEF vars, broker, workers, db
<1>17. ASSUME NEW w \in Worker, WorkerStep(w) PROVE Addressed'
  BY <1>7, <1>8, <1>9, <1>10, <1>11, <1>12, <1>14, <1>17 DEF WorkerStep
<1> QED BY <1>4, <1>5, <1>6, <1>14, <1>15, <1>16, <1>17 DEF Next

\* No row is deleted, so what was read once is there.
LEMMA RowsWereReadNext ==
  ASSUME TypeOK, RowsAreMine, RowsWereRead, [AcceptanceNext]_allVars
  PROVE  RowsWereRead'
<1>0. attempts \in [Attempt -> Nat] /\ rows \in [Attempt -> Nat]
  BY DEF TypeOK, RowsAreMine
<1>1. ASSUME NEW a \in Attempt PROVE attempts[a] <= attempts'[a]
  <2>1. ASSUME NEW w \in Worker, Record(w) PROVE attempts[a] <= attempts'[a]
    BY <1>0, <2>1 DEF Record
  <2> QED BY <1>0, <2>1, AcceptanceStep, AttemptsStep
<1>2. ASSUME NEW a \in Attempt, attempts'[a] \in Nat, rows'[a] \in {0, rows[a]}
      PROVE  rows'[a] <= attempts'[a]
  BY <1>0, <1>1, <1>2 DEF RowsWereRead
<1>3. attempts' \in [Attempt -> Nat]
  BY AcceptanceStep, TypeNext DEF TypeOK
<1>4. CASE rows' = rows \/ rows' = NoRows
  BY <1>0, <1>2, <1>3, <1>4 DEF RowsWereRead, NoRows
<1>5. CASE ReadRows
  <2>1. \A a \in Attempt : rows'[a] \in {0, attempts[a]}
    BY <1>5 DEF ReadRows
  <2> QED BY <1>0, <1>1, <1>3, <2>1 DEF RowsWereRead
<1>6. \A v : EndSuite(v) => rows' = NoRows
  BY DEF EndSuite
<1>7. NewRound => rows' = NoRows
  BY DEF NewRound
<1>8. UNCHANGED pollVars => rows' = rows
  BY DEF pollVars
<1> QED BY <1>4, <1>5, <1>6, <1>7, <1>8
        DEF AcceptanceNext, Background, Reply, Trouble, ScriptStep, Isolate, RegisterEndpoint,
            AskToRegister, Registry1, PostEvent, AskToReplay, ReadStatus, Sweep, IsSetUp,
            AllRegistered, FixEndpoint, NotAccepted, AllAccepted, RoundEnds, PollAgain,
            DeadlinePasses, Pass, Fail, allVars

\* Only a request to register changes what is registered.
LEMMA RegistrationStep ==
  ASSUME [AcceptanceNext]_allVars
  PROVE  UNCHANGED registration \/ \E ep \in Endpoint : AskToRegister(ep) \/ Registry1(ep)
<1>1. \A v : EndSuite(v) => UNCHANGED registry
  BY EndSuiteKeeps
<1>2. UNCHANGED registry => UNCHANGED registration
  BY DEF registry
<1> QED BY <1>1, <1>2
        DEF AcceptanceNext, Background, Reply, Trouble, ScriptStep, Isolate, RegisterEndpoint,
            PostEvent, AskToReplay, ReadStatus, Reads, Sweep, ReadRows, IsSetUp, AllRegistered,
            FixEndpoint, NotAccepted, AllAccepted, RoundEnds, PollAgain, DeadlinePasses, Pass, Fail,
            allVars

LEMMA AnsweredFinite ==
  IsFiniteSet(Answered201) /\ Cardinality(Answered201) \in Nat
<1>1. Answered201 \in SUBSET Endpoint
  BY DEF Answered201
<1>2. IsFiniteSet(Answered201)
  BY <1>1, EndpointAssumption, FS_Subset
<1> QED BY <1>2, FS_CardinalityType

LEMMA RequestsNext ==
  ASSUME RegistryTypeOK, RequestsInv, [AcceptanceNext]_allVars
  PROVE  RequestsInv'
<1>0. /\ registration \in [Endpoint -> Registration] /\ NumEndpoints \in Nat
      /\ IsFiniteSet(Answered201) /\ Cardinality(Answered201) \in Nat
  BY AnsweredFinite, NumbersAssumption DEF RegistryTypeOK
<1>1. CASE UNCHANGED registration
  BY <1>1 DEF RequestsInv, Pending, Answered201
<1>2. ASSUME NEW ep \in Endpoint, AskToRegister(ep) PROVE RequestsInv'
  <2>1. /\ registration' = [registration EXCEPT ![ep] = "flushed"] /\ registration[ep] = "none"
        /\ Pending = {} /\ Cardinality(Answered201) < NumEndpoints
    BY <1>2 DEF AskToRegister, Flush, Goes, Pending
  <2>2. Answered201' = Answered201
    BY <1>0, <2>1 DEF Answered201
  <2>3. Pending' = {ep}
    BY <1>0, <2>1 DEF Pending
  <2> QED BY <2>1, <2>2, <2>3 DEF RequestsInv
<1>3. ASSUME NEW ep \in Endpoint, Registry1(ep) PROVE RequestsInv'
  <2>1. CASE Respond(ep)
    <3>1. /\ ep \in Pending /\ ep \notin Answered201
          /\ registration' = [registration EXCEPT ![ep] = registration'[ep]]
          /\ registration'[ep] \in {"answered", "registered"}
      BY <1>0, <2>1 DEF Respond, Goes, Pending, Answered201
    <3>2. Answered201' = Answered201 \cup {ep}
      BY <1>0, <3>1 DEF Answered201
    <3>3. Pending' = Pending \ {ep}
      BY <1>0, <3>1 DEF Pending
    <3>4. Pending' = {}
      BY <3>1, <3>3 DEF RequestsInv
    <3>5. Cardinality(Answered201') = Cardinality(Answered201) + 1
      BY <1>0, <3>1, <3>2, FS_AddElement
    <3>6. Cardinality(Answered201) < NumEndpoints
      BY <3>1 DEF RequestsInv
    <3>7. Cardinality(Answered201') <= NumEndpoints
      BY <1>0, <3>5, <3>6
    <3> QED BY <3>4, <3>7 DEF RequestsInv
  <2>2. CASE CommitSession(ep) \/ RollBack(ep)
    <3>1. /\ registration' = [registration EXCEPT ![ep] = registration'[ep]]
          /\ \/ registration[ep] = "flushed" /\ registration'[ep] \in {"committed", "none"}
             \/ registration[ep] = "answered" /\ registration'[ep] \in {"registered", "void"}
      BY <1>0, <2>2 DEF CommitSession, RollBack, Goes
    <3>2. Answered201' = Answered201
      BY <1>0, <3>1 DEF Answered201
    <3>3. Pending' \subseteq Pending
      BY <1>0, <3>1 DEF Pending
    <3> QED BY <3>2, <3>3 DEF RequestsInv
  <2> QED BY <1>3, <2>1, <2>2 DEF Registry1
<1> QED BY <1>1, <1>2, <1>3, RegistrationStep

\* The benchmark deactivates no endpoint.
LEMMA ActiveKept ==
  ASSUME IsSuite, Benchmark, [AcceptanceNext]_allVars
  PROVE  active \subseteq active'
<1>1. Unwanted = {}
  BY BenchmarkSuite DEF Unwanted, BenchmarkAsync, Suite
<1>2. \A v : EndSuite(v) => UNCHANGED vars
  BY EndSuiteKeeps
<1>3. UNCHANGED vars => UNCHANGED active
  BY DEF vars, db
<1>4. Background => UNCHANGED active
  BY DEF Background, ReplayCommit, Enqueue, ApiFails, WindowExpires, CountdownElapses, Work,
         Take, DispatchToNobody, Dispatch, FanOut, Admit, FailOpen, Throttle, ThrottleOut,
         Record, Retry, Ack, TaskDies, WorkerCrash, db
<1>5. \A w \in Worker : Reply(w) \/ Trouble(w) => UNCHANGED active
  BY DEF Reply, Trouble, Post, db
<1>6. \A ep \in Endpoint : ~Isolate(ep)
  BY <1>1 DEF Isolate
<1>7. \A ep \in Endpoint : RegisterEndpoint(ep) \/ AskToRegister(ep) \/ Registry1(ep)
                           => active \subseteq active'
  BY <1>3 DEF RegisterEndpoint, AskToRegister, Registry1, Flush, Respond, CommitSession, RollBack, Register
<1>8. \A e \in Event : PostEvent(e) \/ AskToReplay(e) => UNCHANGED active
  BY DEF PostEvent, AskToReplay, Ingest, ReplayRead, db
<1>9. UNCHANGED allVars => UNCHANGED active
  BY <1>3 DEF allVars
<1> QED BY <1>3, <1>4, <1>5, <1>6, <1>7, <1>8, <1>9, ScriptStutters DEF AcceptanceNext, ScriptStep

LEMMA ReplaysStep ==
  ASSUME [AcceptanceNext]_allVars
  PROVE  UNCHANGED replays \/ \E e \in Event : AskToReplay(e)
<1>1. UNCHANGED vars => UNCHANGED replays
  BY DEF vars, bounds
<1>2. Background => UNCHANGED replays
  BY DEF Background, ReplayCommit, Enqueue, ApiFails, WindowExpires, CountdownElapses, Work,
         Take, DispatchToNobody, Dispatch, FanOut, Admit, FailOpen, Throttle, ThrottleOut,
         Record, Retry, Ack, TaskDies, WorkerCrash, bounds
<1>3. \A w \in Worker : Reply(w) \/ Trouble(w) => UNCHANGED replays
  BY DEF Reply, Trouble, Post, bounds
<1>4. \A ep \in Endpoint :
        Isolate(ep) \/ RegisterEndpoint(ep) \/ AskToRegister(ep) \/ Registry1(ep) => UNCHANGED replays
  BY <1>1 DEF Isolate, RegisterEndpoint, AskToRegister, Registry1, Flush, Respond, CommitSession,
              RollBack, Register, Deactivate
<1>5. \A e \in Event : PostEvent(e) => UNCHANGED replays
  BY DEF PostEvent, Ingest, bounds
<1>6. UNCHANGED allVars => UNCHANGED replays
  BY <1>1 DEF allVars
<1> QED BY <1>1, <1>2, <1>3, <1>4, <1>5, <1>6, ScriptStutters DEF AcceptanceNext, ScriptStep

LEMMA PostsNext ==
  ASSUME TypeOK, IsSuite, Benchmark, PostsInv, [AcceptanceNext]_allVars
  PROVE  PostsInv'
<1> DEFINE Late == {"answer", "poll", "wait", "recheck", "verdict", "done"}
<1>0. /\ ~Current.isolates /\ ~Current.replays /\ Current.registers = "api"
      /\ Current.posts = "serial" /\ stage = 1 /\ part.last = 1
  BY BenchmarkSuite DEF BenchmarkAsync, Suite
<1>1. /\ IsFiniteSet(mine) /\ Cardinality(mine) \in Nat /\ NumEvents \in Nat /\ NumEvents > 0
      /\ Cardinality(mine) <= NumEvents
      /\ step \in Beginning => Cardinality(mine) < NumEvents
      /\ step \notin {"fix", "replay"}
  BY NumbersAssumption, FS_CardinalityType DEF PostsInv
<1>2. \A e \in Event : replays'[e] = 0
  BY <1>1, ReplaysStep DEF AskToReplay, PostsInv
<1>3. CASE UNCHANGED <<step, mine>>
  BY <1>1, <1>2, <1>3 DEF PostsInv
<1>4. CASE UNCHANGED mine /\ step' \in Late
  BY <1>1, <1>2, <1>4 DEF PostsInv, Beginning
<1>5. CASE UNCHANGED mine /\ step \in Beginning /\ step' \in Beginning
  BY <1>1, <1>2, <1>5 DEF PostsInv, Beginning
<1>6. ASSUME NEW v, EndSuite(v) PROVE PostsInv'
  <2>1. Following(v) = {}
    BY <1>0 DEF Following
  <2>2. step' = "done" /\ mine' = {}
    BY <1>6, <2>1 DEF EndSuite
  <2>3. IsFiniteSet(mine') /\ Cardinality(mine') = 0
    BY <2>2, FS_EmptySet
  <2> QED BY <1>1, <1>2, <2>2, <2>3 DEF PostsInv, Beginning
<1>7. ASSUME NEW e \in Event, PostEvent(e) PROVE PostsInv'
  <2>1. /\ step = "post" /\ mine' = mine \cup {e}
        /\ step' = IF Cardinality(mine') = NumEvents THEN "answer" ELSE "post"
    BY <1>0, <1>7 DEF PostEvent, Expected
  <2>2. IsFiniteSet(mine') /\ Cardinality(mine') \in Nat /\ Cardinality(mine') <= Cardinality(mine) + 1
    <3>1. /\ IsFiniteSet(mine \cup {e})
          /\ Cardinality(mine \cup {e}) = IF e \in mine THEN Cardinality(mine) ELSE Cardinality(mine) + 1
      BY <1>1, FS_AddElement
    <3> QED BY <1>1, <2>1, <3>1
  <2>3. Cardinality(mine') <= NumEvents
    BY <1>1, <2>1, <2>2 DEF Beginning
  <2> QED BY <1>1, <1>2, <2>1, <2>2, <2>3 DEF PostsInv, Beginning
<1>8. UNCHANGED suiteVars => UNCHANGED <<step, mine>>
  BY DEF suiteVars
<1>9. \A s : Goto(s) => step' = s /\ UNCHANGED mine
  BY DEF Goto
<1>10. CASE ScriptStep
  <2>1. ASSUME NEW ep \in Endpoint,
               Isolate(ep) \/ RegisterEndpoint(ep) \/ AskToRegister(ep) \/ Registry1(ep)
        PROVE  PostsInv'
    BY <1>0, <1>3, <1>4, <1>8, <1>9, <2>1 DEF Isolate, RegisterEndpoint, AskToRegister, Registry1
  <2>2. ASSUME NEW e \in Event, AskToReplay(e) \/ ReadStatus(e) PROVE PostsInv'
    BY <1>1, <1>3, <1>8, <2>2 DEF AskToReplay, ReadStatus, Reads
  <2>3. CASE IsSetUp
    <3>1. step = "setup" /\ Goto("register")
      BY <1>0, <2>3 DEF IsSetUp
    <3> QED BY <1>5, <1>9, <3>1 DEF Beginning
  <2>4. CASE AllRegistered
    BY <1>5, <1>9, <2>4 DEF AllRegistered, Beginning
  <2>5. CASE FixEndpoint
    BY <1>1, <2>5 DEF FixEndpoint
  <2>6. CASE NotAccepted \/ Pass \/ Fail
    BY <1>6, <2>6 DEF NotAccepted, Pass, Fail
  <2>7. CASE AllAccepted
    BY <1>4, <2>7 DEF AllAccepted
  <2>8. CASE Sweep \/ ReadRows
    BY <1>3, <1>8, <2>8 DEF Sweep, ReadRows, Reads
  <2>9. CASE RoundEnds \/ PollAgain \/ DeadlinePasses
    <3>1. AfterPolling \in Late
      BY DEF AfterPolling
    <3> QED BY <1>4, <1>9, <2>9, <3>1 DEF RoundEnds, PollAgain, DeadlinePasses
  <2> QED BY <1>7, <1>10, <2>1, <2>2, <2>3, <2>4, <2>5, <2>6, <2>7, <2>8, <2>9 DEF ScriptStep
<1>11. CASE Background \/ \E w \in Worker : Reply(w) \/ Trouble(w)
  BY <1>3, <1>8, <1>11 DEF Background, Reply, Trouble
<1>12. CASE UNCHANGED allVars
  BY <1>3, <1>8, <1>12 DEF allVars
<1> QED BY <1>10, <1>11, <1>12 DEF AcceptanceNext

LEMMA BenchmarkInvInit == AcceptanceInit => BenchmarkInv
<1> SUFFICES ASSUME AcceptanceInit PROVE BenchmarkInv
  OBVIOUS
<1>1. RowsWereRead
  BY DEF AcceptanceInit, Init, NoRows, RowsWereRead
<1>2. RequestsInv
  <2>1. Answered201 = {} /\ Pending = {}
    BY DEF AcceptanceInit, RegistryInit, Answered201, Pending
  <2> QED BY <2>1, FS_EmptySet, NumbersAssumption DEF RequestsInv
<1>3. PostsInv
  <2>1. mine = {} /\ step = "setup" /\ \A e \in Event : replays[e] = 0
    BY DEF AcceptanceInit, Init
  <2> QED BY <2>1, FS_EmptySet, NumbersAssumption DEF PostsInv
<1>4. Addressed
  BY NoTaskAssumption DEF AcceptanceInit, Init, Addressed, Waiting, Task
<1> QED BY <1>1, <1>2, <1>3, <1>4 DEF BenchmarkInv

LEMMA BenchmarkInvNext ==
  ASSUME Answers, RegistryTypeOK, BenchmarkInv, [AcceptanceNext]_allVars
  PROVE  BenchmarkInv'
<1>1. RowsWereRead' /\ RequestsInv'
  BY RowsWereReadNext, RequestsNext DEF Answers, BenchmarkInv
<1>2. Benchmark' => Benchmark
  BY PartKept DEF Benchmark
<1>3. ASSUME Benchmark PROVE PostsInv' /\ Addressed'
  <2>1. PostsInv'
    BY <1>3, PostsNext DEF Answers, BenchmarkInv
  <2>2. active \subseteq active'
    BY <1>3, ActiveKept DEF Answers
  <2>3. Addressed'
    BY <1>3, <2>2, AcceptanceStep, AddressedNext DEF Answers, BenchmarkInv
  <2> QED BY <2>1, <2>3
<1> QED BY <1>1, <1>2, <1>3 DEF BenchmarkInv

LEMMA ProductBound ==
  ASSUME NEW a \in Nat, NEW b \in Nat, NEW m \in Nat, NEW n \in Nat, a <= m, b <= n
  PROVE  a * b <= m * n
<1>1. a * b <= m * b
  OBVIOUS
<1>2. m * b <= m * n
  OBVIOUS
<1> QED BY <1>1, <1>2

\* Rows of first attempts at answered endpoints are one for each pair of an
\* event and an endpoint, so as many of them as there are pairs cover them all.
LEMMA RowsCoverPairs ==
  ASSUME TypeOK, RowsAreMine, RowsWereRead, RowsInv, crashes = 0,
         \A e \in Event : replays[e] = 0,
         \A a \in RowsRead : a.number = 1 /\ a.ep \in Answered201,
         IsFiniteSet(mine), NumberRead >= Cardinality(mine) * Cardinality(Answered201)
  PROVE  \A e \in mine, ep \in Answered201 : \E a \in RowsRead : a.ev = e /\ a.ep = ep
<1> DEFINE P == mine \X Answered201
           W == UNION {{a} \X (1 .. rows[a]) : a \in RowsRead}
           f == [x \in W |-> <<x[1].ev, x[1].ep>>]
<1>1. ASSUME NEW a \in RowsRead
      PROVE  /\ a \in Attempt /\ a.ev \in mine /\ a.ep \in Answered201 /\ rows[a] = 1
             /\ attempts[a] > 0
             /\ \A b \in RowsRead : b.ev = a.ev /\ b.ep = a.ep => b = a
  <2>1. /\ a \in Attempt /\ rows[a] \in Nat /\ rows[a] > 0 /\ a.ev \in mine /\ a.ev \in Event /\ a.ep \in Endpoint
        /\ attempts[a] \in Nat /\ rows[a] <= attempts[a] /\ a.ep \in Answered201
    BY DEF RowsRead, RowsAreMine, TypeOK, RowsWereRead, Answered201
  <2>2. RowsOf(a.ev, a.ep)
    BY <2>1 DEF RowsInv, Undisturbed
  <2>3. attempts[a] <= 1
    BY <2>1, <2>2 DEF RowsOf
  <2>4. ASSUME NEW b \in RowsRead, b.ev = a.ev, b.ep = a.ep PROVE b = a
    <3>1. b \in Attempt /\ rows[b] \in Nat /\ rows[b] > 0 /\ attempts[b] \in Nat /\ rows[b] <= attempts[b]
          /\ b.number = a.number
      BY DEF RowsRead, RowsAreMine, TypeOK, RowsWereRead
    <3> QED BY <2>1, <2>2, <2>4, <3>1 DEF RowsOf
  <2> QED BY <2>1, <2>3, <2>4
<1>2. \A x \in W : x[1] \in RowsRead /\ x = <<x[1], 1>>
  BY <1>1
<1>3. f \in Injection(W, P)
  <2>1. f \in [W -> P]
    BY <1>1, <1>2
  <2>2. ASSUME NEW x \in W, NEW y \in W, f[x] = f[y] PROVE x = y
    <3>1. x[1].ev = y[1].ev /\ x[1].ep = y[1].ep
      BY <2>2
    <3>2. x[1] = y[1]
      BY <1>1, <1>2, <3>1
    <3> QED BY <1>2, <3>2
  <2> QED BY <2>1, <2>2 DEF Injection, IsInjective
<1>4. IsFiniteSet(P) /\ Cardinality(P) = Cardinality(mine) * Cardinality(Answered201)
  BY AnsweredFinite, FS_Product
<1> HIDE DEF W, P, f
<1>5. /\ IsFiniteSet(W) /\ Cardinality(W) <= Cardinality(P)
      /\ Cardinality(W) = Cardinality(P) <=> f \in Surjection(W, P)
  BY <1>3, <1>4, FS_Injection
<1>6. Cardinality(W) = Cardinality(P)
  <2>1. Cardinality(W) \in Nat /\ Cardinality(P) \in Nat
    BY <1>4, <1>5, FS_CardinalityType
  <2>2. Cardinality(W) >= Cardinality(P)
    BY <1>4 DEF NumberRead, W
  <2> QED BY <1>5, <2>1, <2>2
<1>7. \A p \in P : \E x \in W : f[x] = p
  BY <1>5, <1>6 DEF Surjection
<1> QED
  <2> SUFFICES ASSUME NEW e \in mine, NEW ep \in Answered201
               PROVE  \E a \in RowsRead : a.ev = e /\ a.ep = ep
    OBVIOUS
  <2>1. PICK x \in W : f[x] = <<e, ep>>
    BY <1>7 DEF P
  <2>2. x[1].ev = e /\ x[1].ep = ep
    BY <2>1 DEF f
  <2> QED BY <1>2, <2>2

\* With no crash and no endpoint but its own, a PASS of the benchmark on first
\* attempts only means that every event reached every endpoint, whatever was
\* answered before it was committed: a target that is missed is never made up
\* for by a row of another.
THEOREM BenchmarkCounts == AcceptanceSpec => BenchmarkCountsTargets
<1> DEFINE I == Answers /\ RegistryTypeOK /\ ChainInv /\ BenchmarkInv
<1>1. AcceptanceInit => I
  <2> SUFFICES ASSUME AcceptanceInit PROVE I
    OBVIOUS
  <2>1. ChainInv
    BY ChainInit DEF AcceptanceInit
  <2> QED BY <2>1, AnswersInit, ScriptInit, BenchmarkInvInit
<1>2. I /\ [AcceptanceNext]_allVars => I'
  <2> SUFFICES ASSUME I, [AcceptanceNext]_allVars PROVE I'
    OBVIOUS
  <2>1. ChainInv'
    BY AcceptanceStep, ChainNext DEF Answers
  <2> QED BY <2>1, AnswersNext, RegistryTypeNext, BenchmarkInvNext
<1>3. I /\ [AcceptanceNext]_allVars =>
        [Passes /\ Current.registers = "api" /\ active \subseteq Answered201
           /\ (\A a \in RowsRead : a.number = 1) /\ crashes = 0 =>
           \A e \in mine, ep \in Answered201 : \E a \in RowsRead : a.ev = e /\ a.ep = ep]_allVars
  <2> SUFFICES ASSUME I, [AcceptanceNext]_allVars, Passes, Current.registers = "api",
                      active \subseteq Answered201, \A a \in RowsRead : a.number = 1, crashes = 0
               PROVE  \A e \in mine, ep \in Answered201 : \E a \in RowsRead : a.ev = e /\ a.ep = ep
    OBVIOUS
  <2>1. Benchmark /\ Current = BenchmarkAsync
    BY BenchmarkSuite DEF Answers
  <2>2. PostsInv /\ Addressed /\ RowsWereRead /\ RequestsInv
    BY <2>1 DEF BenchmarkInv
  <2>3. NumberRead \in Nat /\ NumberRead >= NumEvents * NumEndpoints
    <3>1. NumberRead \in Current.count
      BY PassesByPass DEF Pass, Asserted
    <3>2. Current.count = AtLeast(NumEvents * NumEndpoints)
      BY <2>1 DEF BenchmarkAsync, Suite
    <3> QED BY <3>1, <3>2 DEF AtLeast
  <2>4. NumberRead >= Cardinality(mine) * Cardinality(Answered201)
    <3>1. /\ Cardinality(mine) \in Nat /\ Cardinality(mine) <= NumEvents
          /\ Cardinality(Answered201) \in Nat /\ Cardinality(Answered201) <= NumEndpoints
      BY <2>2, AnsweredFinite, FS_CardinalityType DEF PostsInv, RequestsInv
    <3>2. NumEvents \in Nat /\ NumEndpoints \in Nat
      BY NumbersAssumption
    <3>3. Cardinality(mine) * Cardinality(Answered201) <= NumEvents * NumEndpoints
      BY <3>1, <3>2, ProductBound
    <3>4. /\ Cardinality(mine) * Cardinality(Answered201) \in Nat
          /\ NumEvents * NumEndpoints \in Nat
      BY <3>1, <3>2
    <3> HIDE DEF PostsInv
    <3> QED BY <2>3, <3>3, <3>4
  <2>5. \A a \in RowsRead : a.number = 1 /\ a.ep \in Answered201
    <3> SUFFICES ASSUME NEW a \in RowsRead PROVE a.ep \in active
      OBVIOUS
    <3>1. a \in Attempt /\ rows[a] \in Nat /\ rows[a] > 0 /\ attempts[a] \in Nat
      BY DEF RowsRead, Answers, RowsAreMine, TypeOK
    <3>2. attempts[a] > 0
      BY <2>2, <3>1 DEF RowsWereRead
    <3> QED BY <2>2, <3>1, <3>2 DEF Addressed
  <2>6. IsFiniteSet(mine) /\ \A e \in Event : replays[e] = 0
    BY <2>2 DEF PostsInv
  <2> QED BY <2>2, <2>4, <2>5, <2>6, RowsCoverPairs DEF Answers, ChainInv
<1> HIDE DEF I
<1> QED BY <1>1, <1>2, <1>3, PTL DEF AcceptanceSpec, BenchmarkCountsTargets

(***************************************************************************)
(* The event of a suite that isolates its endpoint has one chance there     *)
(* while no worker crashes: a message, a request or a slot that may still    *)
(* bring a 2xx. What writes its final status is that chance, so that the    *)
(* work ends with it.                                                       *)
(***************************************************************************)

\* Statuses that end the work for an event.
Final == {"DELIVERED", "FAILED", "DEAD_LETTER"}

\* What is under way for the event is for this endpoint alone.
SlotFor(w, e, ep) ==
  pc[w] \in Working /\ task[w].ev = e =>
    /\ pc[w] = "fanout" => todo[w] = {ep}
    /\ task[w] \in DeliverTask => task[w].ep = ep

Only(e, ep) ==
  /\ \A t \in DeliverTask : t.ev = e /\ Waiting(t) => t.ep = ep
  /\ \A w \in Worker : SlotFor(w, e, ep)

\* The event has one chance at the endpoint, or had it: once its status is
\* final nothing is left of the work, and what was answered was recorded.
One(e, ep) ==
  /\ acked[e][ep] + Cardinality(Chances(e, ep)) + Unposted(e) <= 1
  /\ Only(e, ep)
  /\ status[e] \in Final => ~InFlight(e)
  /\ status[e] \in Replayable => acked[e][ep] = 0
  /\ \A a \in Attempt : a.ev = e /\ a.outcome = "success" /\ attempts[a] > 0 =>
       status[e] = "DELIVERED" /\ acked[e][ep] >= 1

\* A status is written by the API or with the last work of a slot.
LEMMA StatusStep ==
  ASSUME TypeOK, [Next]_vars, NEW e \in Event, status'[e] # status[e]
  PROVE  \/ Ingest(e) \/ ReplayCommit(e)
         \/ \E w \in Worker : DispatchToNobody(w) /\ task[w].ev = e /\ status'[e] = "DELIVERED"
         \/ \E w \in Worker : /\ Record(w) /\ task[w].ev = e
                              /\ status'[e] = FinalStatus(w) /\ pc'[w] = "ack"
<1>1. ASSUME NEW x \in Event, ApiStep(x) PROVE Ingest(e) \/ ReplayCommit(e)
  BY <1>1 DEF ApiStep, Ingest, ReplayRead, ReplayCommit, Enqueue, ApiFails, db, TypeOK
<1>2. ASSUME NEW ep \in Endpoint, AdminStep(ep) \/ WindowExpires(ep) PROVE FALSE
  BY <1>2 DEF AdminStep, Register, Deactivate, WindowExpires, db
<1>3. ASSUME NEW t \in DeliverTask, CountdownElapses(t) PROVE FALSE
  BY <1>3 DEF CountdownElapses, db
<1>4. ASSUME NEW w \in Worker, WorkerStep(w), ~Record(w), ~DispatchToNobody(w) PROVE FALSE
  BY <1>4 DEF WorkerStep, Take, Dispatch, FanOut, Admit, FailOpen, Throttle, ThrottleOut, Post,
              Retry, Ack, db
<1>5. ASSUME NEW w \in Worker, Record(w)
      PROVE  task[w].ev = e /\ status'[e] = FinalStatus(w) /\ pc'[w] = "ack"
  BY <1>5 DEF Record, TypeOK
<1>6. ASSUME NEW w \in Worker, DispatchToNobody(w)
      PROVE  task[w].ev = e /\ status'[e] = "DELIVERED"
  BY <1>6 DEF DispatchToNobody, TypeOK
<1>7. ASSUME NEW w \in Worker, TaskDies(w) \/ WorkerCrash(w) PROVE FALSE
  BY <1>7 DEF TaskDies, WorkerCrash, db
<1>8. CASE UNCHANGED vars
  BY <1>8 DEF vars, db
<1> QED BY <1>1, <1>2, <1>3, <1>4, <1>5, <1>6, <1>7, <1>8 DEF Next

\* A replay is counted when it reads the status.
LEMMA ReplayedBy ==
  ASSUME TypeOK, [Next]_vars, NEW e \in Event, replays'[e] # replays[e]
  PROVE  ReplayRead(e)
<1>1. ASSUME NEW x \in Event, ApiStep(x) PROVE ReplayRead(e)
  BY <1>1 DEF ApiStep, Ingest, ReplayRead, ReplayCommit, Enqueue, ApiFails, bounds, TypeOK
<1>2. UNCHANGED replays \/ \E x \in Event : ApiStep(x)
  BY DEF Next, vars, AdminStep, Register, Deactivate, WindowExpires, CountdownElapses, WorkerStep, Take,
         DispatchToNobody, Dispatch, FanOut, Admit, FailOpen, Throttle, ThrottleOut, Post, Record,
         Retry, Ack, TaskDies, WorkerCrash, bounds
<1> QED BY <1>1, <1>2

\* An answer is counted for the event a slot works for.
LEMMA AckedBy ==
  ASSUME TypeOK, [Next]_vars, NEW e \in Event, NEW ep \in Endpoint, acked'[e][ep] # acked[e][ep]
  PROVE  \E w \in Worker : pc[w] = "post" /\ task[w].ev = e
<1>1. ASSUME NEW w \in Worker, NEW o \in Outcome, Post(w, o)
      PROVE  pc[w] = "post" /\ task[w].ev = e
  BY <1>1 DEF Post, TypeOK
<1>2. UNCHANGED acked \/ \E w \in Worker, o \in Outcome : Post(w, o)
  BY DEF Next, vars, ApiStep, Ingest, ReplayRead, ReplayCommit, Enqueue, ApiFails, AdminStep, Register,
         Deactivate, WindowExpires, CountdownElapses, WorkerStep, Take, DispatchToNobody, Dispatch,
         FanOut, Admit, FailOpen, Throttle, ThrottleOut, Record, Retry, Ack, TaskDies, WorkerCrash,
         history
<1> QED BY <1>1, <1>2

\* Work that ended begins again with a replay or with a crash only.
LEMMA StaysClosed ==
  ASSUME TypeOK, [Next]_vars, NEW e \in Event, ~InFlight(e), status'[e] # "PENDING",
         crashes' = crashes
  PROVE  ~(InFlight(e)')
<1>0. /\ ~(unqueued[e] > 0) /\ unqueued[e] \in Nat
      /\ \A t \in Task : t.ev = e => ~Waiting(t)
      /\ \A w \in Worker : pc[w] \in Working => task[w].ev # e
  BY DEF InFlight, TypeOK
<1>1. ASSUME ~(unqueued'[e] > 0), \A t \in Task : t.ev = e /\ Waiting(t)' => Waiting(t),
             \A w \in Worker : pc'[w] \in Working /\ task'[w].ev = e => pc[w] \in Working /\ task[w].ev = e
      PROVE  ~(InFlight(e)')
  BY <1>0, <1>1 DEF InFlight
<1>2. ASSUME NEW m \in Task, m.ev # e, queue' = [queue EXCEPT ![m] = @ + 1], UNCHANGED parked
      PROVE  \A t \in Task : t.ev = e /\ Waiting(t)' => Waiting(t)
  BY <1>2, Pushed
<1>3. ASSUME UNCHANGED broker PROVE \A t \in Task : t.ev = e /\ Waiting(t)' => Waiting(t)
  BY <1>3 DEF Waiting, broker
<1>4. ASSUME NEW x \in Event, ApiStep(x) PROVE ~(InFlight(e)')
  <2>1. CASE Enqueue(x)
    <3>1. x # e
      BY <1>0, <2>1 DEF Enqueue
    <3>2. PICK m \in Task : m = Dispatcher(x) /\ m.ev = x
      BY DispatcherType
    <3>3. \A t \in Task : t.ev = e /\ Waiting(t)' => Waiting(t)
      BY <1>2, <2>1, <3>1, <3>2 DEF Enqueue
    <3>4. unqueued'[e] = unqueued[e] /\ UNCHANGED workers
      BY <2>1, <3>1 DEF Enqueue, TypeOK
    <3> QED BY <1>0, <1>1, <3>3, <3>4 DEF workers
  <2>2. CASE ~Enqueue(x)
    <3>1. unqueued'[e] = unqueued[e]
      BY <1>0, <1>4, <2>2 DEF ApiStep, Ingest, ReplayRead, ReplayCommit, ApiFails, TypeOK
    <3>2. UNCHANGED <<broker, workers>>
      BY <1>4, <2>2 DEF ApiStep, Ingest, ReplayRead, ReplayCommit, ApiFails
    <3> QED BY <1>0, <1>1, <1>3, <3>1, <3>2 DEF workers
  <2> QED BY <2>1, <2>2
<1>5. ASSUME UNCHANGED <<broker, api, workers>> PROVE ~(InFlight(e)')
  BY <1>0, <1>1, <1>3, <1>5 DEF api, workers
<1>6. ASSUME NEW ep \in Endpoint, AdminStep(ep) \/ WindowExpires(ep) PROVE ~(InFlight(e)')
  BY <1>5, <1>6 DEF AdminStep, Register, Deactivate, WindowExpires
<1>7. ASSUME NEW m \in DeliverTask, CountdownElapses(m) PROVE ~(InFlight(e)')
  <2>1. m \in Task /\ Waiting(m)
    BY <1>7, TaskFields DEF CountdownElapses, Waiting
  <2>2. \A t \in Task : t.ev = e /\ Waiting(t)' => Waiting(t)
    BY <1>0, <1>7, <2>1 DEF CountdownElapses, Waiting, TypeOK
  <2> QED BY <1>0, <1>1, <1>7, <2>2 DEF CountdownElapses, api, workers
<1>8. ASSUME NEW w \in Worker, WorkerStep(w) \/ TaskDies(w) PROVE ~(InFlight(e)')
  <2>0. UNCHANGED unqueued
    BY <1>8 DEF WorkerStep, Take, DispatchToNobody, Dispatch, FanOut, Admit, FailOpen, Throttle,
                ThrottleOut, Post, Record, Retry, Ack, TaskDies, api
  <2>1. ASSUME NEW m \in Task, Take(w, m) PROVE ~(InFlight(e)')
    <3>1. m.ev # e
      BY <1>0, <2>1 DEF Take, Waiting
    <3>2. \A t \in Task : t.ev = e /\ Waiting(t)' => Waiting(t)
      BY <2>1, <3>1 DEF Take, Waiting, TypeOK
    <3>3. \A v \in Worker : pc'[v] \in Working /\ task'[v].ev = e => pc[v] \in Working /\ task[v].ev = e
      BY <2>1, <3>1 DEF Take, TypeOK
    <3> QED BY <1>0, <1>1, <2>0, <3>2, <3>3
  <2>2. CASE \/ DispatchToNobody(w) \/ Dispatch(w) \/ Admit(w) \/ FailOpen(w) \/ ThrottleOut(w)
             \/ (\E o \in Outcome : Post(w, o)) \/ Record(w) \/ Ack(w) \/ TaskDies(w)
    <3>1. UNCHANGED broker
      BY <2>2 DEF DispatchToNobody, Dispatch, Admit, FailOpen, ThrottleOut, Post, Record, Ack, TaskDies
    <3>2. \A v \in Worker : pc'[v] \in Working => pc[v] \in Working /\ task'[v] = task[v]
      BY <2>2 DEF DispatchToNobody, Dispatch, Admit, FailOpen, ThrottleOut, Post, Record, Ack,
                  TaskDies, Free, TypeOK, Working
    <3> QED BY <1>0, <1>1, <1>3, <2>0, <3>1, <3>2
  <2>3. CASE (\E ep \in Endpoint : FanOut(w, ep)) \/ Throttle(w) \/ Retry(w)
    <3>1. pc[w] \in Working /\ task[w].ev # e
      BY <1>0, <2>3 DEF FanOut, Throttle, Retry, Working
    <3>2. UNCHANGED task /\ \A v \in Worker \ {w} : pc'[v] = pc[v]
      BY <2>3 DEF FanOut, Throttle, Retry, TypeOK
    <3>3. \A t \in Task : t.ev = e /\ Waiting(t)' => Waiting(t)
      <4>1. ASSUME NEW ep \in Endpoint, FanOut(w, ep)
            PROVE  \A t \in Task : t.ev = e /\ Waiting(t)' => Waiting(t)
        <5>1. PICK m \in Task : m = Delivery(task[w].ev, ep) /\ m.ev = task[w].ev
          BY <4>1, TaskFields, DeliveryType DEF FanOut, TypeOK
        <5> QED BY <1>2, <3>1, <4>1, <5>1 DEF FanOut
      <4>2. ASSUME Throttle(w) \/ Retry(w), NEW t \in Task, t.ev = e, Waiting(t)' PROVE Waiting(t)
        <5>1. PICK m \in DeliverTask : m = NextTry(task[w]) /\ m \in Task /\ m.ev = task[w].ev
          BY <4>2, NextTryType DEF Throttle, Retry, TypeOK
        <5>2. \/ queue' = [queue EXCEPT ![m] = @ + 1] /\ UNCHANGED parked
              \/ parked' = [parked EXCEPT ![m] = @ + 1] /\ UNCHANGED queue
          BY <4>2, <5>1 DEF Throttle, Retry
        <5> QED BY <3>1, <4>2, <5>1, <5>2 DEF Waiting, TypeOK
      <4> QED BY <2>3, <4>1, <4>2
    <3>4. \A v \in Worker : pc'[v] \in Working /\ task'[v].ev = e => pc[v] \in Working /\ task[v].ev = e
      BY <3>1, <3>2
    <3> QED BY <1>0, <1>1, <2>0, <3>3, <3>4
  <2> QED BY <1>8, <2>1, <2>2, <2>3 DEF WorkerStep
<1>9. ASSUME NEW w \in Worker, WorkerCrash(w) PROVE FALSE
  BY <1>9, BoundsAssumption DEF WorkerCrash, TypeOK
<1>10. CASE UNCHANGED vars
  BY <1>5, <1>10 DEF vars
<1> QED BY <1>4, <1>6, <1>7, <1>8, <1>9, <1>10 DEF Next

\* As long as the endpoint is the only active one.
LEMMA OnlyNext ==
  ASSUME TypeOK, [Next]_vars, NEW e \in Event, NEW ep \in Endpoint, Only(e, ep),
         active = {ep}, crashes' = crashes
  PROVE  Only(e, ep)'
<1>0. /\ queue \in [Task -> Nat] /\ parked \in [DeliverTask -> Nat] /\ DeliverTask \subseteq Task
      /\ task \in [Worker -> Task \cup {NoTask}] /\ todo \in [Worker -> SUBSET Endpoint]
      /\ pc \in [Worker -> Working \cup {"idle", "ack"}]
      /\ \A w \in Worker : pc[w] \in {"gate", "post", "write", "retry"} => task[w] \in DeliverTask
      /\ \A w \in Worker : pc[w] \in {"dispatch", "fanout"} => task[w] \in DispatchTask
      /\ {"idle", "ack"} \cap Working = {}
  BY DEF TypeOK, Task, Working
<1>1. /\ \A t \in DeliverTask : t.ev = e /\ (queue[t] > 0 \/ parked[t] > 0) => t.ep = ep
      /\ \A w \in Worker : SlotFor(w, e, ep)
  BY DEF Only, Waiting
<1>2. ASSUME \A t \in DeliverTask : t.ev = e /\ queue'[t] > 0 => queue[t] > 0 \/ t.ep = ep,
             \A t \in DeliverTask : t.ev = e /\ parked'[t] > 0 => parked[t] > 0 \/ t.ep = ep,
             \A w \in Worker : SlotFor(w, e, ep)'
      PROVE  Only(e, ep)'
  BY <1>1, <1>2 DEF Only, Waiting
<1>3. ASSUME UNCHANGED broker, \A w \in Worker : SlotFor(w, e, ep)' PROVE Only(e, ep)'
  BY <1>2, <1>3 DEF broker
<1>4. ASSUME UNCHANGED workers PROVE \A w \in Worker : SlotFor(w, e, ep)'
  BY <1>1, <1>4 DEF SlotFor, workers
<1>5. ASSUME NEW w \in Worker, SlotFor(w, e, ep)',
             \A v \in Worker \ {w} : pc'[v] = pc[v] /\ task'[v] = task[v] /\ todo'[v] = todo[v]
      PROVE  \A v \in Worker : SlotFor(v, e, ep)'
  BY <1>1, <1>5 DEF SlotFor
<1>6. ASSUME NEW x \in Event, ApiStep(x) PROVE Only(e, ep)'
  <2>1. Dispatcher(x) \in Task /\ Dispatcher(x) \notin DeliverTask
    BY DispatcherType, TaskFields DEF Dispatcher
  <2>2. \A t \in DeliverTask : queue'[t] = queue[t]
    BY <1>0, <1>6, <2>1 DEF ApiStep, Ingest, ReplayRead, ReplayCommit, Enqueue, ApiFails, broker
  <2>3. UNCHANGED parked /\ UNCHANGED workers
    BY <1>6 DEF ApiStep, Ingest, ReplayRead, ReplayCommit, Enqueue, ApiFails, broker
  <2> QED BY <1>2, <1>4, <2>2, <2>3
<1>7. ASSUME NEW q \in Endpoint, AdminStep(q) \/ WindowExpires(q) PROVE Only(e, ep)'
  BY <1>3, <1>4, <1>7 DEF AdminStep, Register, Deactivate, WindowExpires
<1>8. ASSUME NEW t \in DeliverTask, CountdownElapses(t) PROVE Only(e, ep)'
  <2>1. /\ parked[t] > 0 /\ parked' = [parked EXCEPT ![t] = @ - 1]
        /\ queue' = [queue EXCEPT ![t] = @ + 1] /\ UNCHANGED workers
    BY <1>8 DEF CountdownElapses
  <2>2. t.ev = e => t.ep = ep
    BY <1>1, <2>1
  <2> QED BY <1>0, <1>2, <1>4, <2>1, <2>2
<1>9. ASSUME NEW w \in Worker, NEW t \in Task, Take(w, t) PROVE Only(e, ep)'
  <2>1. /\ queue[t] > 0 /\ queue' = [queue EXCEPT ![t] = @ - 1] /\ UNCHANGED <<parked, todo>>
        /\ task' = [task EXCEPT ![w] = t]
        /\ pc' = [pc EXCEPT ![w] = IF t.kind = "dispatch" THEN "dispatch" ELSE "gate"]
    BY <1>9 DEF Take
  <2>2. SlotFor(w, e, ep)'
    BY <1>0, <1>1, <2>1 DEF SlotFor
  <2>3. \A v \in Worker : SlotFor(v, e, ep)'
    BY <1>0, <1>5, <2>1, <2>2
  <2> QED BY <1>0, <1>2, <2>1, <2>3
<1>10. ASSUME NEW w \in Worker, Dispatch(w) PROVE Only(e, ep)'
  <2>1. /\ pc[w] = "dispatch" /\ todo' = [todo EXCEPT ![w] = {ep}] /\ pc' = [pc EXCEPT ![w] = "fanout"]
        /\ UNCHANGED <<broker, task>>
    BY <1>10 DEF Dispatch
  <2>2. task[w] \notin DeliverTask
    BY <1>0, <2>1, TaskFields DEF DispatchTask
  <2>3. SlotFor(w, e, ep)'
    BY <1>0, <2>1, <2>2 DEF SlotFor
  <2>4. \A v \in Worker : SlotFor(v, e, ep)'
    BY <1>0, <1>5, <2>1, <2>3
  <2> QED BY <1>3, <2>1, <2>4
<1>11. ASSUME NEW w \in Worker, NEW x \in Endpoint, FanOut(w, x) PROVE Only(e, ep)'
  <2>1. /\ pc[w] = "fanout" /\ x \in todo[w] /\ todo' = [todo EXCEPT ![w] = @ \ {x}]
        /\ queue' = [queue EXCEPT ![Delivery(task[w].ev, x)] = @ + 1]
        /\ pc' = [pc EXCEPT ![w] = IF todo[w] = {x} THEN "ack" ELSE "fanout"]
        /\ UNCHANGED <<parked, task>>
    BY <1>11 DEF FanOut
  <2>2. task[w].ev = e => todo[w] = {ep} /\ x = ep
    BY <1>1, <2>1 DEF SlotFor, Working
  <2>3. Delivery(task[w].ev, x).ep = x /\ Delivery(task[w].ev, x).ev = task[w].ev
    BY DEF Delivery
  <2>4. \A t \in DeliverTask : t.ev = e /\ queue'[t] > 0 => queue[t] > 0 \/ t.ep = ep
    BY <1>0, <2>1, <2>2, <2>3
  <2>5. SlotFor(w, e, ep)'
    BY <1>0, <2>1, <2>2 DEF SlotFor
  <2>6. \A v \in Worker : SlotFor(v, e, ep)'
    BY <1>0, <1>5, <2>1, <2>5
  <2> QED BY <1>2, <2>1, <2>4, <2>6
<1>12. ASSUME NEW w \in Worker, Throttle(w) \/ Retry(w) PROVE Only(e, ep)'
  <2>1. /\ task[w] \in DeliverTask /\ pc[w] \in Working /\ UNCHANGED <<task, todo>>
        /\ pc' = [pc EXCEPT ![w] = "ack"]
    BY <1>0, <1>12 DEF Throttle, Retry, Working
  <2>2. task[w].ev = e => task[w].ep = ep
    BY <1>1, <2>1 DEF SlotFor
  <2>3. NextTry(task[w]).ep = task[w].ep /\ NextTry(task[w]).ev = task[w].ev
    BY <2>1 DEF NextTry, DeliverTask
  <2>4. \A t \in DeliverTask : queue'[t] > 0 => queue[t] > 0 \/ t = NextTry(task[w])
    BY <1>0, <1>12 DEF Throttle, Retry
  <2>5. \A t \in DeliverTask : parked'[t] > 0 => parked[t] > 0 \/ t = NextTry(task[w])
    BY <1>0, <1>12 DEF Throttle, Retry
  <2>6. SlotFor(w, e, ep)'
    BY <1>0, <2>1 DEF SlotFor
  <2>7. \A v \in Worker : SlotFor(v, e, ep)'
    BY <1>0, <1>5, <2>1, <2>6
  <2> QED BY <1>2, <2>2, <2>3, <2>4, <2>5, <2>7
<1>13. ASSUME NEW w \in Worker,
              \/ DispatchToNobody(w) \/ Admit(w) \/ FailOpen(w) \/ ThrottleOut(w) \/ Record(w)
              \/ \E o \in Outcome : Post(w, o)
       PROVE  Only(e, ep)'
  <2>1. /\ UNCHANGED <<broker, task, todo>> /\ pc[w] \in Working /\ pc'[w] # "fanout"
        /\ \A v \in Worker \ {w} : pc'[v] = pc[v]
    BY <1>0, <1>13 DEF DispatchToNobody, Admit, FailOpen, ThrottleOut, Record, Post, Working
  <2>2. SlotFor(w, e, ep)'
    BY <1>1, <2>1 DEF SlotFor
  <2>3. \A v \in Worker : SlotFor(v, e, ep)'
    BY <1>5, <2>1, <2>2
  <2> QED BY <1>3, <2>1, <2>3
<1>14. ASSUME NEW w \in Worker, Ack(w) \/ TaskDies(w) PROVE Only(e, ep)'
  <2>1. /\ UNCHANGED broker /\ pc'[w] = "idle"
        /\ \A v \in Worker \ {w} : pc'[v] = pc[v] /\ task'[v] = task[v] /\ todo'[v] = todo[v]
    BY <1>0, <1>14 DEF Ack, TaskDies, Free
  <2>2. SlotFor(w, e, ep)'
    BY <1>0, <2>1 DEF SlotFor
  <2>3. \A v \in Worker : SlotFor(v, e, ep)'
    BY <1>5, <2>1, <2>2
  <2> QED BY <1>3, <2>1, <2>3
<1>15. ASSUME NEW w \in Worker, WorkerCrash(w) PROVE FALSE
  BY <1>15, BoundsAssumption DEF WorkerCrash, TypeOK
<1>16. CASE UNCHANGED vars
  BY <1>3, <1>4, <1>16 DEF vars
<1>17. ASSUME NEW w \in Worker, WorkerStep(w) PROVE Only(e, ep)'
  BY <1>9, <1>10, <1>11, <1>12, <1>13, <1>14, <1>17 DEF WorkerStep
<1> QED BY <1>6, <1>7, <1>8, <1>14, <1>15, <1>16, <1>17 DEF Next

-----------------------------------------------------------------------------
\* What the chances are when there are none, or one that is held.
LEMMA ClosedChances ==
  ASSUME TypeOK, NEW e \in Event, NEW ep \in Endpoint, ~InFlight(e), replaying[e] = 0
  PROVE  Chances(e, ep) = {}
<1>1. /\ ~(unqueued[e] > 0)
      /\ \A t \in Task : t.ev = e => ~Waiting(t)
      /\ \A w \in Worker : pc[w] \in Working => task[w].ev # e
  BY DEF InFlight
<1>2. Copies("api", {e}, unqueued) = {} /\ Copies("replay", {e}, replaying) = {}
  BY <1>1 DEF Copies, TypeOK
<1>3. Copies("queue", For(e, ep), queue) = {}
  <2>1. \A t \in For(e, ep) : queue[t] = 0
    BY <1>1 DEF For, Waiting, TypeOK
  <2> QED BY <2>1 DEF Copies
<1>4. Copies("parked", ParkedFor(e, ep), parked) = {}
  <2>1. \A t \in ParkedFor(e, ep) : parked[t] = 0
    BY <1>1, TaskFields DEF ParkedFor, Waiting, TypeOK
  <2> QED BY <2>1 DEF Copies
<1>5. Slots(e, ep) = {}
  BY <1>1 DEF Slots, MayPost, Serves
<1> QED BY <1>2, <1>3, <1>4, <1>5 DEF Chances

LEMMA OneChance ==
  ASSUME TypeOK, ChancesInv, NEW e \in Event, NEW ep \in Endpoint, One(e, ep),
         NEW x \in Chances(e, ep)
  PROVE  acked[e][ep] = 0 /\ Unposted(e) = 0
<1> DEFINE C == Chances(e, ep)
<1>1. IsFiniteSet(C) /\ acked[e][ep] + Cardinality(C) + Unposted(e) <= 1
  BY DEF ChancesInv, One
<1>2. acked[e][ep] \in Nat /\ Unposted(e) \in Nat /\ Cardinality(C) \in Nat
  BY <1>1, FS_CardinalityType, UnpostedType DEF TypeOK
<1>3. x \in C
  OBVIOUS
<1> HIDE DEF C
<1>4. Cardinality(C) # 0
  BY <1>1, <1>3, FS_EmptySet
<1> QED BY <1>1, <1>2, <1>4

LEMMA OneCounts ==
  ASSUME TypeOK, ChancesInv, [Next]_vars, NEW e \in Event, NEW ep \in Endpoint, One(e, ep),
         crashes' = crashes, ReplayRead(e) => replaying[e] = 0
  PROVE  acked'[e][ep] + Cardinality(Chances(e, ep)') + Unposted(e)' <= 1
<1> DEFINE C == Chances(e, ep)  D == Chances(e, ep)'
<1>1. IsFiniteSet(C) /\ acked[e][ep] + Cardinality(C) + Unposted(e) <= 1
  BY DEF ChancesInv, One
<1>2. Turns(e, ep)
  BY StepTurns
<1>3. Unposted(e) \in Nat /\ Unposted(e)' \in Nat
  BY UnpostedType
<1>4. acked[e][ep] \in Nat /\ replays[e] \in Nat /\ crashes \in Nat /\ crashes # crashes + 1
  BY BoundsAssumption DEF TypeOK
<1>5. Moves(C, D) => IsFiniteSet(D) /\ Cardinality(D) <= Cardinality(C)
  <2>1. ASSUME D \subseteq C PROVE IsFiniteSet(D) /\ Cardinality(D) <= Cardinality(C)
    BY <1>1, <2>1, FS_Subset
  <2>2. ASSUME NEW x \in C, NEW y, D \subseteq (C \ {x}) \cup {y}
        PROVE  IsFiniteSet(D) /\ Cardinality(D) <= Cardinality(C)
    BY <1>1, <2>2, Swapped
  <2> QED BY <2>1, <2>2 DEF Moves
<1>6. Spends(C, D) => IsFiniteSet(D) /\ Cardinality(D) + 1 <= Cardinality(C)
  BY <1>1, Spare DEF Spends
<1>7. Grows(C, D) => IsFiniteSet(D) /\ Cardinality(D) <= Cardinality(C) + 1
  BY <1>1, Gained DEF Grows
<1>8. IsFiniteSet(D)
  BY <1>2, <1>5, <1>6, <1>7 DEF Turns
<1>9. Cardinality(C) \in Nat /\ Cardinality(D) \in Nat
  BY <1>1, <1>8, FS_CardinalityType
<1>10. ASSUME replays'[e] = replays[e] + 1
       PROVE  acked[e][ep] = 0 /\ Cardinality(C) = 0 /\ Unposted(e) = 0
  <2>1. ReplayRead(e)
    BY <1>4, <1>10, ReplayedBy
  <2>2. status[e] \in Replayable /\ status[e] \in Final /\ status[e] # "ABSENT"
    BY <2>1 DEF ReplayRead, Replayable, Final
  <2>3. ~InFlight(e) /\ acked[e][ep] = 0
    BY <2>2 DEF One
  <2>4. C = {}
    BY <2>1, <2>3, ClosedChances
  <2> HIDE DEF C
  <2> QED BY <2>2, <2>3, <2>4, FS_EmptySet DEF Unposted
<1> HIDE DEF C, D
<1>11. acked'[e][ep] + Cardinality(D) + Unposted(e)' <= 1
  BY <1>1, <1>2, <1>3, <1>4, <1>5, <1>6, <1>7, <1>9, <1>10 DEF Turns, Same, C, D
<1> QED BY <1>11 DEF D

\* When the status becomes final the last work ends.
LEMMA OneEnds ==
  ASSUME TypeOK, ChancesInv, AnsweredInv, NEW e \in Event, NEW ep \in Endpoint, One(e, ep),
         NEW w \in Worker, Record(w), task[w].ev = e, pc'[w] = "ack"
  PROVE  ~(InFlight(e)')
<1>1. pc[w] = "write" /\ UNCHANGED <<broker, api, task>> /\ pc' = [pc EXCEPT ![w] = "ack"]
  BY DEF Record, TypeOK
<1>2. task[w].ep = ep
  BY <1>1 DEF One, Only, SlotFor, Working, TypeOK
<1>3. /\ IsFiniteSet(Chances(e, ep))
      /\ acked[e][ep] + Cardinality(Chances(e, ep)) + Unposted(e) <= 1
  BY DEF ChancesInv, One
<1>4. /\ ~Fresh(e)
      /\ \A t \in ParkedFor(e, ep) : ~Waiting(t)
      /\ \A v \in Worker \ {w} : ~Serves(v, e, ep)
  BY <1>1, <1>2, <1>3, SoleServer
<1>5. ~(unqueued'[e] > 0)
  BY <1>1, <1>4 DEF Fresh, api
<1>6. \A t \in Task : t.ev = e => ~(Waiting(t)')
  <2> SUFFICES ASSUME NEW t \in Task, t.ev = e, Waiting(t) PROVE FALSE
    BY <1>1 DEF Waiting, broker
  <2>1. CASE t \in DispatchTask
    <3>1. t = Dispatcher(e)
      BY <2>1, DispatcherOnly
    <3>2. t \notin DeliverTask
      BY <2>1, TaskFields DEF DispatchTask
    <3> QED BY <1>4, <3>1, <3>2 DEF Waiting, Fresh
  <2>2. CASE t \in DeliverTask
    BY <1>4, <2>2 DEF One, Only, ParkedFor
  <2> QED BY <2>1, <2>2 DEF Task
<1>7. ASSUME NEW v \in Worker, pc'[v] \in Working, task'[v].ev = e PROVE FALSE
  <2>1. v # w
    BY <1>1, <1>7 DEF Working, TypeOK
  <2>2. pc[v] \in Working /\ task[v].ev = e
    BY <1>1, <1>7, <2>1 DEF TypeOK
  <2>3. SlotFor(v, e, ep) /\ ~Serves(v, e, ep)
    BY <1>4, <2>1 DEF One, Only
  <2> QED BY <2>2, <2>3 DEF SlotFor, Serves, Working, TypeOK
<1> QED BY <1>5, <1>6, <1>7 DEF InFlight

LEMMA OneNext ==
  ASSUME TypeOK, ChancesInv, AnsweredInv, [Next]_vars, NEW e \in Event, NEW ep \in Endpoint,
         One(e, ep), active = {ep}, crashes' = crashes, ReplayRead(e) => replaying[e] = 0
  PROVE  One(e, ep)'
<1>0. \A w \in Worker : ~DispatchToNobody(w)
  BY DEF DispatchToNobody
<1>1. acked'[e][ep] + Cardinality(Chances(e, ep)') + Unposted(e)' <= 1
  BY OneCounts
<1>2. Only(e, ep)'
  BY OnlyNext DEF One
<1>3. ASSUME status'[e] \in Final PROVE ~(InFlight(e)')
  <2>1. CASE status'[e] = status[e]
    BY <1>3, <2>1, StaysClosed DEF One, Final
  <2>2. CASE status'[e] # status[e]
    <3>1. ~Ingest(e) /\ ~ReplayCommit(e)
      BY <1>3 DEF Ingest, ReplayCommit, Final, TypeOK
    <3> QED BY <1>0, <2>2, <3>1, StatusStep, OneEnds
  <2> QED BY <2>1, <2>2
<1>4. ASSUME status'[e] \in Replayable PROVE acked'[e][ep] = 0
  <2>1. CASE status'[e] = status[e]
    <3>1. acked[e][ep] = 0 /\ ~InFlight(e)
      BY <1>4, <2>1 DEF One, Final, Replayable
    <3> QED BY <3>1, AckedBy DEF InFlight, Working
  <2>2. CASE status'[e] # status[e]
    <3>1. PICK w \in Worker : Record(w) /\ task[w].ev = e /\ status'[e] = FinalStatus(w)
      BY <1>0, <1>4, <2>2, StatusStep DEF Ingest, ReplayCommit, Replayable, TypeOK
    <3>2. outcome[w] # "success" /\ pc[w] = "write"
      BY <1>4, <3>1 DEF FinalStatus, Replayable, Record
    <3>3. task[w].ep = ep
      BY <3>1, <3>2 DEF One, Only, SlotFor, Working, TypeOK
    <3>4. MayPost(w, e, ep)
      BY <3>1, <3>2, <3>3 DEF MayPost, Serves, Working
    <3>5. Slot(w) \in Chances(e, ep)
      BY <3>4, SlotIn DEF Chances
    <3>6. acked[e][ep] = 0
      BY <3>5, OneChance
    <3> QED BY <3>1, <3>6 DEF Record, history
  <2> QED BY <2>1, <2>2
<1>5. ASSUME NEW a \in Attempt, a.ev = e, a.outcome = "success", attempts'[a] > 0
      PROVE  status'[e] = "DELIVERED" /\ acked'[e][ep] >= 1
  <2>1. acked[e][ep] \in Nat /\ acked'[e][ep] \in {acked[e][ep], acked[e][ep] + 1}
    BY CountsGrow DEF TypeOK
  <2>2. CASE attempts[a] > 0
    <3>1. status[e] = "DELIVERED" /\ acked[e][ep] >= 1 /\ ~InFlight(e)
      BY <1>5, <2>2 DEF One, Final
    <3>2. ~Ingest(e)
      BY <3>1 DEF Ingest
    <3>3. ~ReplayCommit(e)
      <4>1. SUFFICES ASSUME replaying[e] > 0 PROVE FALSE
        BY DEF ReplayCommit
      <4>2. <<"replay", e, 1>> \in Copies("replay", {e}, replaying)
        BY <4>1 DEF Copies, TypeOK
      <4>3. <<"replay", e, 1>> \in Chances(e, ep)
        BY <4>2 DEF Chances
      <4> QED BY <2>1, <3>1, <4>3, OneChance
    <3>4. ASSUME NEW w \in Worker, Record(w) PROVE task[w].ev # e
      BY <3>1, <3>4 DEF Record, InFlight, Working
    <3>5. status'[e] = status[e]
      BY <1>0, <3>2, <3>3, <3>4, StatusStep
    <3> QED BY <2>1, <3>1, <3>5
  <2>3. CASE ~(attempts[a] > 0)
    <3>1. PICK w \in Worker : Record(w) /\ a = Row(w)
      BY <1>5, <2>3, AttemptsStep
    <3>2. /\ pc[w] = "write" /\ task[w].ev = e /\ outcome[w] = "success"
          /\ status' = [status EXCEPT ![task[w].ev] = FinalStatus(w)] /\ UNCHANGED acked
      BY <1>5, <3>1 DEF Record, Row, history
    <3>3. task[w].ep = ep
      BY <3>2 DEF One, Only, SlotFor, Working, TypeOK
    <3>4. Serves(w, e, ep) /\ ~MayPost(w, e, ep)
      BY <3>2, <3>3 DEF Serves, MayPost, Working
    <3>5. acked[e][ep] >= 1
      BY <3>4 DEF AnsweredInv
    <3>6. status'[e] = "DELIVERED"
      BY <3>2 DEF FinalStatus, TypeOK
    <3> QED BY <3>2, <3>5, <3>6
  <2> QED BY <2>2, <2>3
<1> QED BY <1>1, <1>2, <1>3, <1>4, <1>5 DEF One

-----------------------------------------------------------------------------
\* An event that was not posted yet has the chance of its ingestion.
Blank(e) == replays[e] = 0 /\ \A a \in Attempt : a.ev = e => attempts[a] = 0

BlankInv == \A e \in Event : status[e] = "ABSENT" => Blank(e)

LEMMA StatusKept ==
  ASSUME TypeOK, [Next]_vars, NEW e \in Event, status[e] # "ABSENT"
  PROVE  status'[e] # "ABSENT"
<1> SUFFICES ASSUME status'[e] # status[e] PROVE status'[e] # "ABSENT"
  OBVIOUS
<1>1. \A w \in Worker : FinalStatus(w) # "ABSENT"
  BY DEF FinalStatus
<1>2. ASSUME Ingest(e) \/ ReplayCommit(e) PROVE status'[e] # "ABSENT"
  BY <1>2 DEF Ingest, ReplayCommit, TypeOK
<1> QED BY <1>1, <1>2, StatusStep

LEMMA BlankNext ==
  ASSUME TypeOK, KnownEvents, BlankInv, [Next]_vars
  PROVE  BlankInv'
<1> SUFFICES ASSUME NEW e \in Event, status'[e] = "ABSENT" PROVE Blank(e)'
  BY DEF BlankInv
<1>1. status[e] = "ABSENT"
  BY StatusKept
<1>2. Blank(e) /\ Unknown(e)
  BY <1>1 DEF BlankInv, KnownEvents
<1>3. replays'[e] = 0
  BY <1>1, <1>2, ReplayedBy DEF Blank, ReplayRead, Replayable
<1>4. ASSUME NEW a \in Attempt, a.ev = e PROVE attempts'[a] = 0
  <2>1. CASE UNCHANGED attempts
    BY <1>2, <1>4, <2>1 DEF Blank
  <2>2. ASSUME NEW w \in Worker, Record(w) PROVE attempts'[a] = 0
    <3>1. a # Row(w)
      BY <1>2, <1>4, <2>2 DEF Unknown, Record, Row
    <3> QED BY <1>2, <1>4, <2>2, <3>1 DEF Record, TypeOK, Blank
  <2> QED BY <2>1, <2>2, AttemptsStep
<1> QED BY <1>3, <1>4 DEF Blank

LEMMA OneBlank ==
  ASSUME TypeOK, ChancesInv, KnownEvents, BlankInv, NEW e \in Event, NEW ep \in Endpoint,
         status[e] = "ABSENT", crashes = 0
  PROVE  One(e, ep)
<1>1. Blank(e) /\ Unknown(e)
  BY DEF BlankInv, KnownEvents
<1>2. acked[e][ep] + Cardinality(Chances(e, ep)) + Unposted(e) <= 1
  <2>1. acked[e][ep] + Cardinality(Chances(e, ep)) + Unposted(e) <= 1 + replays[e] + crashes
    BY DEF ChancesInv
  <2> QED BY <1>1, <2>1 DEF Blank
<1>3. Only(e, ep)
  BY <1>1, TaskFields DEF Unknown, Only, SlotFor, Working
<1> QED BY <1>1, <1>2, <1>3 DEF One, Blank, Final, Replayable

(***************************************************************************)
(* A PASS holds for good. The polls are torn: statuses and rows are read    *)
(* one after the other while the workers go on. But what decides a PASS is  *)
(* a final status or a 2xx row, after which nothing changes, and the rows   *)
(* are read after it or read again.                                         *)
(***************************************************************************)

\* What a verdict that is final rests on, of the data of the suites.
FinalSuite(c) ==
  /\ c.isolates <=> c.registers \in {"session", "unless active"}
  /\ c.replays => c.registers = "no"
  /\ c.isolates \/ c.replays =>
       /\ \/ c.reads = <<"status", "rows">>
          \/ c.reads = <<"rows", "status">> /\ c.recheck
          \/ c.reads = <<"status">> /\ c.rows = 0
       /\ c.lastRead \/ c.recheck
       /\ c.recheck => c.until \subseteq Final
       /\ \/ \E s \in Final : c.status = {s}
          \/ c.status = AnyStatus /\ c.first /\ c.isolates /\ c.posts = "one"
             /\ c.reads = <<"status", "rows">>

LEMMA SuitesFinal == \A c \in AllSuites : FinalSuite(c) /\ (c.replays => c \in {Phase6Replay, Master4Replay})
<1> DEFINE P(c) == FinalSuite(c) /\ (c.replays => c \in {Phase6Replay, Master4Replay})
<1>1. P(Phase3)
  BY DEF FinalSuite, Phase3, Suite, Final, NonPending, EventStatus
<1>2. P(Phase4Flaky)
  BY DEF FinalSuite, Phase4Flaky, Scenario, Suite, Final
<1>3. P(Phase4Failing)
  BY DEF FinalSuite, Phase4Failing, Scenario, Suite, Final
<1>4. P(Phase5Deduplication)
  BY DEF FinalSuite, Phase5Deduplication, Suite
<1>5. P(Phase5Headers)
  BY DEF FinalSuite, Phase5Headers, Suite
<1>6. P(Phase6Dlq)
  BY DEF FinalSuite, Phase6Dlq, Suite, Final
<1>7. P(Phase6Replay)
  BY DEF FinalSuite, Phase6Replay, Suite, Final
<1>8. P(Phase7Signature)
  BY DEF FinalSuite, Phase7Signature, Suite, Final
<1>9. P(Phase8Burst)
  BY DEF FinalSuite, Phase8Burst, Suite, Final
<1>10. P(Master1)
  BY DEF FinalSuite, Master1, Suite, Final
<1>11. P(Master2)
  BY DEF FinalSuite, Master2, Phase4Flaky, Scenario, Suite, Final
<1>12. P(Master3Idempotency)
  BY DEF FinalSuite, Master3Idempotency, Suite
<1>13. P(Master3Headers)
  BY <1>5 DEF Master3Headers
<1>14. P(Master4Dlq)
  BY DEF FinalSuite, Master4Dlq, Phase6Dlq, Suite, Final
<1>15. P(Master4Replay)
  BY DEF FinalSuite, Master4Replay, Phase6Replay, Suite, Final
<1>16. P(Master5)
  BY DEF FinalSuite, Master5, Suite, Final
<1>17. P(LoadTest)
  BY DEF FinalSuite, LoadTest, Suite
<1>18. P(BenchmarkAsync)
  BY DEF FinalSuite, BenchmarkAsync, Suite
<1> HIDE DEF P
<1>19. \A c \in AllSuites : P(c)
  BY <1>1, <1>2, <1>3, <1>4, <1>5, <1>6, <1>7, <1>8, <1>9, <1>10, <1>11, <1>12, <1>13, <1>14, <1>15,
     <1>16, <1>17, <1>18 DEF AllSuites
<1> QED BY <1>19 DEF P

\* A suite that replays comes after the one that isolated the endpoint.
LEMMA ReplaysFollow ==
  ASSUME NEW p \in Parts, NEW s \in p.first .. p.last, s + 1 \in p.first .. p.last,
         Script[p.name][s + 1].replays
  PROVE  Script[p.name][s].isolates
<1>1. /\ p.name \in DOMAIN Script /\ p.last \in Nat /\ p.last <= Len(Script[p.name])
      /\ s \in Nat \ {0} /\ s + 1 <= p.last
  BY PartsAssumption
<1>2. Script[p.name][s + 1] \in {Phase6Replay, Master4Replay}
  BY SuiteIsOne, SuitesFinal
<1>3. /\ Phase4Flaky \notin {Phase6Replay, Master4Replay}
      /\ Phase4Failing \notin {Phase6Replay, Master4Replay}
      /\ Phase5Deduplication \notin {Phase6Replay, Master4Replay}
      /\ Phase5Headers \notin {Phase6Replay, Master4Replay}
  <2>1. Phase6Replay.replays /\ Master4Replay.replays
    BY DEF Phase6Replay, Master4Replay, Suite
  <2>2. ~Phase4Flaky.replays /\ ~Phase4Failing.replays
    BY DEF Phase4Flaky, Phase4Failing, Scenario, Suite
  <2>3. ~Phase5Deduplication.replays
    BY DEF Phase5Deduplication, Suite
  <2>4. ~Phase5Headers.replays
    BY DEF Phase5Headers, Suite
  <2> QED BY <2>1, <2>2, <2>3, <2>4
<1>4. p.name \in {"verify_phase3", "verify_phase4", "verify_phase5", "verify_phase6", "verify_phase7",
                  "verify_phase8", "verify_master", "load_test", "benchmark_async"}
  BY <1>1 DEF Script
<1>5. Len(Script[p.name]) \in Nat /\ s + 1 <= Len(Script[p.name])
  <2>1. Len(Script[p.name]) \in Nat
    BY <1>1 DEF Script
  <2> QED BY <1>1, <2>1
<1>6. CASE p.name \in {"verify_phase3", "verify_phase7", "verify_phase8", "load_test", "benchmark_async"}
  <2>1. Len(Script[p.name]) = 1
    BY <1>6 DEF Script
  <2> QED BY <1>1, <1>5, <2>1
<1>7. CASE p.name = "verify_phase4"
  <2>1. Script[p.name] = <<Phase4Flaky, Phase4Failing>>
    BY <1>7 DEF Script
  <2> QED BY <1>1, <1>2, <1>3, <1>5, <2>1
<1>8. CASE p.name = "verify_phase5"
  <2>1. Script[p.name] = <<Phase5Deduplication, Phase5Headers>>
    BY <1>8 DEF Script
  <2> QED BY <1>1, <1>2, <1>3, <1>5, <2>1
<1>9. CASE p.name = "verify_phase6"
  <2>1. Script[p.name] = <<Phase6Dlq, Phase6Replay>>
    BY <1>9 DEF Script
  <2>2. s = 1
    BY <1>1, <1>5, <2>1
  <2>3. Phase6Dlq.isolates
    BY DEF Phase6Dlq, Suite
  <2> QED BY <2>1, <2>2, <2>3
<1>10. CASE p.name = "verify_master"
  <2>1. Script[p.name] = <<Master1, Master2, Master3Idempotency, Master3Headers, Master4Dlq,
                           Master4Replay, Master5>>
    BY <1>10 DEF Script
  <2>2. s \in 1 .. 6
    BY <1>1, <1>5, <2>1
  <2>3. ~Master2.replays
    BY DEF Master2, Phase4Flaky, Scenario, Suite
  <2>4. ~Master3Idempotency.replays
    BY DEF Master3Idempotency, Suite
  <2>5. ~Master3Headers.replays
    BY DEF Master3Headers, Phase5Headers, Suite
  <2>6. ~Master4Dlq.replays /\ Master4Dlq.isolates
    BY DEF Master4Dlq, Phase6Dlq, Suite
  <2>7. ~Master5.replays
    BY DEF Master5, Suite
  <2>8. s = 5
    BY <2>1, <2>2, <2>3, <2>4, <2>5, <2>6, <2>7
  <2> QED BY <2>1, <2>6, <2>8
<1> QED BY <1>4, <1>6, <1>7, <1>8, <1>9, <1>10

\* A suite whose verdict is final, when it is.
Isolated == Current.isolates \/ Current.replays

Settles == Isolated /\ crashes = 0

LEMMA IsolatedSuite ==
  ASSUME IsSuite
  PROVE  /\ FinalSuite(Current)
         /\ Current.registers = "api" => Benchmark
         /\ Isolated => ~Benchmark
<1>1. FinalSuite(Current) /\ (Current.registers = "api" => Benchmark)
  BY SuitesFinal, SuiteIsOne DEF IsSuite, Current, Benchmark
<1>2. ~BenchmarkAsync.isolates /\ ~BenchmarkAsync.replays
  BY DEF BenchmarkAsync, Suite
<1> QED BY <1>1, <1>2, BenchmarkSuite DEF Isolated

\* How a suite goes on.
Ways ==
  [setup    |-> {"register", "post", "fix"},
   register |-> {"post", "done"},
   post     |-> {"post", "answer"},
   fix      |-> {"replay"},
   replay   |-> {"answer"},
   answer   |-> {"poll", "verdict"},
   poll     |-> {"wait", "recheck", "verdict"},
   wait     |-> {"poll", "recheck", "verdict"},
   recheck  |-> {"verdict"}]

LEMMA SuiteMoves ==
  ASSUME IsSuite, [AcceptanceNext]_allVars
  PROVE  \/ UNCHANGED <<stage, step, mine>>
         \/ UNCHANGED <<stage, mine>> /\ step \in DOMAIN Ways /\ step' \in Ways[step]
         \/ \E e \in Event : PostEvent(e)
         \/ \E v : EndSuite(v) /\ step \in {"answer", "post", "replay", "verdict"} /\ (step = "answer" => ~AwaitsApi)
<1> DEFINE Moved == UNCHANGED <<stage, mine>> /\ step \in DOMAIN Ways /\ step' \in Ways[step]
<1>1. ASSUME NEW s, Goto(s) PROVE UNCHANGED <<stage, mine>> /\ step' = s
  BY <1>1 DEF Goto
<1>2. UNCHANGED suiteVars => UNCHANGED <<stage, step, mine>>
  BY DEF suiteVars
<1>3. CASE IsSetUp
  BY <1>1, <1>3 DEF IsSetUp, Ways
<1>4. CASE AllRegistered \/ FixEndpoint \/ PollAgain
  BY <1>1, <1>4 DEF AllRegistered, FixEndpoint, PollAgain, Ways
<1>5. ASSUME NEW ep \in Endpoint, RegisterEndpoint(ep) PROVE Moved
  BY <1>1, <1>5 DEF RegisterEndpoint, Ways
<1>6. ASSUME NEW ep \in Endpoint, Registry1(ep) PROVE Moved \/ UNCHANGED <<stage, step, mine>>
  BY <1>1, <1>2, <1>6 DEF Registry1, Ways
<1>7. ASSUME NEW e \in Event, AskToReplay(e) PROVE Moved
  BY <1>1, <1>7 DEF AskToReplay, Ways
<1>8. CASE AllAccepted
  BY <1>8 DEF AllAccepted, Ways
<1>9. CASE RoundEnds
  <2>1. AfterPolling \in {"recheck", "verdict"}
    BY DEF AfterPolling
  <2>2. \/ step = "poll" /\ (Goto("wait") \/ Goto("recheck") \/ Goto("verdict"))
        \/ step = "recheck" /\ Goto("verdict")
    BY <1>9, <2>1 DEF RoundEnds
  <2> QED BY <1>1, <2>2 DEF Ways
<1>10. CASE DeadlinePasses
  <2>1. AfterPolling \in {"recheck", "verdict"}
    BY DEF AfterPolling
  <2>2. step = "wait" /\ (Goto("poll") \/ Goto("recheck") \/ Goto("verdict"))
    BY <1>10, <2>1 DEF DeadlinePasses
  <2> QED BY <1>1, <2>2 DEF Ways
<1>11. ASSUME \/ \E ep \in Endpoint : Isolate(ep) \/ AskToRegister(ep)
              \/ \E e \in Event : ReadStatus(e)
              \/ Sweep \/ ReadRows \/ Background \/ UNCHANGED allVars
              \/ \E w \in Worker : Reply(w) \/ Trouble(w)
       PROVE  UNCHANGED <<stage, step, mine>>
  BY <1>2, <1>11 DEF Isolate, AskToRegister, ReadStatus, Sweep, ReadRows, Reads, Background, Reply,
                     Trouble, allVars
<1>12. CASE NotAccepted \/ Pass \/ Fail
  BY <1>12 DEF NotAccepted, Pass, Fail
<1> QED BY <1>3, <1>4, <1>5, <1>6, <1>7, <1>8, <1>9, <1>10, <1>11, <1>12 DEF AcceptanceNext, ScriptStep

\* Only setting up changes the endpoints.
LEMMA ActiveStep ==
  ASSUME [AcceptanceNext]_allVars
  PROVE  \/ UNCHANGED active
         \/ \E ep \in Endpoint : Isolate(ep) \/ RegisterEndpoint(ep) \/ (Registry1(ep) /\ CommitSession(ep))
<1>1. UNCHANGED vars => UNCHANGED active
  BY DEF vars, db
<1>2. Background => UNCHANGED active
  BY DEF Background, ReplayCommit, Enqueue, ApiFails, WindowExpires, CountdownElapses, Work,
         Take, DispatchToNobody, Dispatch, FanOut, Admit, FailOpen, Throttle, ThrottleOut,
         Record, Retry, Ack, TaskDies, WorkerCrash, db
<1>3. \A w \in Worker : Reply(w) \/ Trouble(w) => UNCHANGED active
  BY DEF Reply, Trouble, Post, db
<1>4. \A ep \in Endpoint : AskToRegister(ep) \/ (Registry1(ep) /\ ~CommitSession(ep)) => UNCHANGED active
  BY <1>1 DEF AskToRegister, Registry1, Flush, Respond, RollBack
<1>5. \A e \in Event : PostEvent(e) \/ AskToReplay(e) => UNCHANGED active
  BY DEF PostEvent, AskToReplay, Ingest, ReplayRead, db
<1>6. UNCHANGED allVars => UNCHANGED active
  BY <1>1 DEF allVars
<1> QED BY <1>1, <1>2, <1>3, <1>4, <1>5, <1>6, ScriptStutters DEF AcceptanceNext, ScriptStep

\* The events of a suite were posted, and are replayed only while it waits for
\* the answer.
MineInv ==
  /\ \A e \in mine : status[e] # "ABSENT"
  /\ \A e \in Event : replaying[e] > 0 => e \in mine /\ step = "answer"
  /\ step \in {"setup", "register"} /\ ~Current.replays => mine = {}
  /\ Current.replays => step \notin {"register", "post"}
  /\ Current.isolates /\ Current.posts = "one" =>
       (step = "post" => mine = {}) /\ \A x, y \in mine : x = y

\* But for the benchmark there is one active endpoint at most, and the suite
\* that isolates its own has it.
ActiveInv ==
  /\ ~Benchmark =>
       /\ \A ep \in Endpoint : registration[ep] = "none"
       /\ \A p, q \in active : p = q
       /\ step = "register" => active = {} /\ Current.isolates
  /\ Current.isolates /\ step \notin {"setup", "register"} => active # {}

LEMMA ActiveInvInit == AcceptanceInit => ActiveInv
<1> SUFFICES ASSUME AcceptanceInit PROVE ActiveInv
  OBVIOUS
<1>1. step = "setup" /\ \A ep \in Endpoint : registration[ep] = "none"
  BY DEF AcceptanceInit, RegistryInit
<1>2. \A p, q \in active : p = q
  <2>1. active \subseteq Endpoint /\ IsFiniteSet(active) /\ Cardinality(active) \in {0, 1}
    BY EndpointAssumption, FS_Subset DEF AcceptanceInit, Init
  <2> QED BY <2>1, FS_EmptySet, FS_Singleton
<1> QED BY <1>1, <1>2 DEF ActiveInv

LEMMA ActiveInvNext ==
  ASSUME TypeOK, IsSuite, RegistryTypeOK, ActiveInv, [AcceptanceNext]_allVars
  PROVE  ActiveInv'
<1>0. /\ FinalSuite(Current)
      /\ Current.registers = "api" => Benchmark
      /\ Benchmark' = Benchmark /\ active \subseteq Endpoint
      /\ part' = part
      /\ Current.isolates => ~Benchmark
  BY IsolatedSuite, PartKept DEF Benchmark, TypeOK, Isolated
<1>1. CASE UNCHANGED <<active, registration>> /\ \E v : EndSuite(v) /\ step \in {"answer", "post", "replay", "verdict"}
  <2>1. step' = "setup" \/ (step' = "done" /\ UNCHANGED stage)
    BY <1>1 DEF EndSuite
  <2> QED BY <1>0, <1>1, <2>1 DEF ActiveInv, Current
<1>2. CASE UNCHANGED <<active, registration, stage>> /\ (step' = "register" => step = "register")
           /\ (step \in {"setup", "register"} => step' \in {"setup", "register"} \/ active # {} \/ ~Current.isolates)
  <2>1. Current' = Current
    BY <1>0, <1>2 DEF Current
  <2> QED BY <1>0, <1>2, <2>1 DEF ActiveInv
<1>3. CASE IsSetUp
  <2>1. UNCHANGED <<active, registration, stage>> /\ step = "setup" /\ Unwanted = {} /\ Current' = Current
    BY <1>0, <1>3 DEF IsSetUp, Goto, vars, db, registry, Current
  <2>2. /\ step' = IF Current.replays THEN "fix"
                   ELSE IF Current.registers \in {"session", "api"} THEN "register"
                   ELSE IF Current.registers = "unless active" /\ active = {} THEN "register"
                   ELSE "post"
    BY <1>3 DEF IsSetUp, Goto
  <2>3. ~Benchmark /\ step' = "register" => Current.isolates /\ active = {}
    BY <1>0, <2>1, <2>2 DEF FinalSuite, Unwanted
  <2>4. Current.isolates /\ step' # "register" => active # {}
    BY <1>0, <2>2 DEF FinalSuite
  <2> QED BY <1>0, <2>1, <2>3, <2>4 DEF ActiveInv
<1>4. ASSUME NEW ep \in Endpoint, Isolate(ep) PROVE ActiveInv'
  <2>1. /\ step = "setup" /\ UNCHANGED <<registration, stage, step>> /\ active' \subseteq active
    BY <1>4 DEF Isolate, Deactivate, suiteVars
  <2> QED BY <1>0, <2>1 DEF ActiveInv
<1>5. ASSUME NEW ep \in Endpoint, RegisterEndpoint(ep) PROVE ActiveInv'
  <2>1. /\ step = "register" /\ UNCHANGED <<registration, stage>> /\ active' = active \cup {ep} /\ step' = "post"
    BY <1>5 DEF RegisterEndpoint, Register, Goto
  <2> QED BY <1>0, <2>1 DEF ActiveInv
<1>6. ASSUME NEW ep \in Endpoint, AskToRegister(ep) \/ Registry1(ep), ~Benchmark PROVE FALSE
  BY <1>0, <1>6 DEF AskToRegister, Registry1, Respond, CommitSession, RollBack, Goes, ActiveInv
<1>7. ASSUME NEW ep \in Endpoint, AskToRegister(ep) \/ Registry1(ep) PROVE ActiveInv'
  <2>1. Current' = Current
    BY <1>0, <1>7 DEF AskToRegister, Registry1, Goto, suiteVars, Current
  <2> QED BY <1>0, <1>6, <1>7, <2>1 DEF ActiveInv
<1>8. CASE UNCHANGED <<active, registration>> /\ ~IsSetUp
  <2>1. CASE \E v : EndSuite(v) /\ step \in {"answer", "post", "replay", "verdict"}
    BY <1>1, <1>8, <2>1
  <2>2. CASE UNCHANGED <<stage, step, mine>>
    BY <1>2, <1>8, <2>2
  <2>3. CASE AllRegistered
    <3>1. step' = "post" /\ UNCHANGED stage /\ ~Current.isolates
      BY <1>0, <2>3 DEF AllRegistered, Goto
    <3> QED BY <1>2, <1>8, <3>1
  <2>4. CASE /\ UNCHANGED <<stage, mine>> /\ step \in DOMAIN Ways /\ step' \in Ways[step]
             /\ step \notin {"setup", "register"}
    BY <1>2, <1>8, <2>4 DEF Ways
  <2>5. ASSUME NEW e \in Event, PostEvent(e) PROVE ActiveInv'
    <3>1. step = "post" /\ step' \in {"post", "answer"} /\ UNCHANGED stage
      BY <2>5 DEF PostEvent
    <3> QED BY <1>2, <1>8, <3>1
  <2>6. step \in {"setup", "register"} /\ ~UNCHANGED step =>
          \/ IsSetUp \/ AllRegistered
          \/ \E ep \in Endpoint : RegisterEndpoint(ep) \/ Registry1(ep)
    <3>1. UNCHANGED suiteVars => UNCHANGED step
      BY DEF suiteVars
    <3>2. UNCHANGED allVars => UNCHANGED step
      BY <3>1 DEF allVars
    <3> QED BY <3>1, <3>2
         DEF AcceptanceNext, Background, Reply, Trouble, ScriptStep, Isolate, AskToRegister, PostEvent,
             AskToReplay, ReadStatus, Sweep, ReadRows, Reads, FixEndpoint, NotAccepted, AllAccepted,
             RoundEnds, PollAgain, DeadlinePasses, Pass, Fail
  <2>7. CASE \E ep \in Endpoint : RegisterEndpoint(ep) \/ Registry1(ep)
    BY <1>5, <1>7, <2>7
  <2> QED BY <1>8, <2>1, <2>2, <2>3, <2>4, <2>5, <2>6, <2>7, SuiteMoves
<1> QED BY <1>3, <1>4, <1>5, <1>7, <1>8, ActiveStep, RegistrationStep

LEMMA MineInvInit == AcceptanceInit => MineInv
<1> SUFFICES ASSUME AcceptanceInit PROVE MineInv
  OBVIOUS
<1>1. mine = {} /\ step = "setup" /\ \A e \in Event : ~(replaying[e] > 0)
  BY DEF AcceptanceInit, Init
<1> QED BY <1>1 DEF MineInv

LEMMA ReplayingStep ==
  ASSUME TypeOK, [AcceptanceNext]_allVars, NEW e \in Event, replaying'[e] > 0, ~(replaying[e] > 0)
  PROVE  AskToReplay(e)
<1>1. ASSUME UNCHANGED replaying PROVE FALSE
  BY <1>1
<1>2. UNCHANGED vars => UNCHANGED replaying
  BY DEF vars, api
<1>3. ASSUME NEW x \in Event, ReplayCommit(x) \/ Enqueue(x) \/ ApiFails(x) PROVE FALSE
  BY <1>3 DEF ReplayCommit, Enqueue, ApiFails, TypeOK
<1>4. ASSUME NEW w \in Worker, Work(w) PROVE FALSE
  BY <1>1, <1>4 DEF Work, Take, DispatchToNobody, Dispatch, FanOut, Admit, FailOpen, Throttle, ThrottleOut,
                    Record, Retry, Ack, TaskDies, WorkerCrash, api
<1>5. ~Background
  BY <1>1, <1>3, <1>4 DEF Background, WindowExpires, CountdownElapses, api
<1>6. ASSUME NEW w \in Worker, Reply(w) \/ Trouble(w) PROVE FALSE
  BY <1>1, <1>6 DEF Reply, Trouble, Post, api
<1>7. ASSUME NEW ep \in Endpoint,
             Isolate(ep) \/ RegisterEndpoint(ep) \/ AskToRegister(ep) \/ Registry1(ep)
      PROVE  FALSE
  BY <1>1, <1>2, <1>7 DEF Isolate, RegisterEndpoint, AskToRegister, Registry1, Flush, Respond, CommitSession,
                          RollBack, Register, Deactivate, api
<1>8. ASSUME NEW x \in Event, PostEvent(x) PROVE FALSE
  BY <1>1, <1>8 DEF PostEvent, Ingest
<1>9. ASSUME NEW x \in Event, AskToReplay(x) PROVE x = e
  BY <1>9 DEF AskToReplay, ReplayRead, TypeOK
<1>10. ~UNCHANGED allVars
  BY <1>1, <1>2 DEF allVars
<1> QED BY <1>1, <1>2, <1>5, <1>6, <1>7, <1>8, <1>9, <1>10, ScriptStutters DEF AcceptanceNext, ScriptStep

LEMMA MineInvNext ==
  ASSUME TypeOK, IsSuite, RowsAreMine, MineInv, [AcceptanceNext]_allVars
  PROVE  MineInv'
<1>0. /\ FinalSuite(Current)
      /\ part' = part
      /\ mine \subseteq Event
      /\ Current.replays => ~Current.isolates
  BY IsolatedSuite, PartKept DEF RowsAreMine, FinalSuite
<1>1. \A e \in mine : status'[e] # "ABSENT"
  BY <1>0, AcceptanceStep, StatusKept DEF MineInv
<1>2. \A e \in Event : replaying'[e] > 0 => replaying[e] > 0 \/ (AskToReplay(e) /\ step = "replay" /\ e \in mine /\ step' = "answer")
  BY ReplayingStep DEF AskToReplay, Goto
<1>3. CASE UNCHANGED <<stage, step, mine>>
  BY <1>0, <1>1, <1>2, <1>3 DEF MineInv, Current
<1>4. CASE UNCHANGED <<stage, mine>> /\ step \in DOMAIN Ways /\ step' \in Ways[step]
  <2>1. Current' = Current
    BY <1>0, <1>4 DEF Current
  <2>2. \A e \in Event : replaying'[e] > 0 => e \in mine /\ step' = "answer"
    <3> SUFFICES ASSUME NEW e \in Event, replaying'[e] > 0, replaying[e] > 0 PROVE e \in mine /\ step' = "answer"
      BY <1>2
    <3>1. e \in mine /\ step = "answer"
      BY DEF MineInv
    <3>2. AllAccepted
      <4>1. UNCHANGED suiteVars => UNCHANGED step
        BY DEF suiteVars
      <4>2. UNCHANGED allVars => UNCHANGED step
        BY <4>1 DEF allVars
      <4>3. ~UNCHANGED step
        BY <1>4, <3>1 DEF Ways
      <4>4. ~NotAccepted
        BY <3>1 DEF NotAccepted, AwaitsApi
      <4> QED BY <3>1, <4>1, <4>2, <4>3, <4>4
          DEF AcceptanceNext, Background, Reply, Trouble, ScriptStep, Isolate, RegisterEndpoint, AskToRegister,
              Registry1, PostEvent, AskToReplay, ReadStatus, Sweep, ReadRows, Reads, IsSetUp, AllRegistered,
              FixEndpoint, RoundEnds, PollAgain, DeadlinePasses, Pass, Fail, Goto
    <3> QED BY <3>1, <3>2 DEF AllAccepted, AwaitsApi
  <2>3. step' # "setup" /\ (step' = "register" => step = "setup") /\ (step' = "post" => step \in {"setup", "register", "post"})
    BY <1>4 DEF Ways
  <2>4. Current.replays => step' \notin {"register", "post"}
    <3>1. Current.replays /\ step = "setup" => step' = "fix"
      <4>1. UNCHANGED suiteVars => UNCHANGED step
        BY DEF suiteVars
      <4>2. UNCHANGED allVars => UNCHANGED step
        BY <4>1 DEF allVars
      <4>3. step = "setup" => ~UNCHANGED step
        BY <1>4 DEF Ways
      <4> QED BY <4>1, <4>2, <4>3
          DEF AcceptanceNext, Background, Reply, Trouble, ScriptStep, Isolate, RegisterEndpoint, AskToRegister,
              Registry1, PostEvent, AskToReplay, ReadStatus, Sweep, ReadRows, Reads, IsSetUp, AllRegistered,
              FixEndpoint, NotAccepted, AllAccepted, RoundEnds, PollAgain, DeadlinePasses, Pass, Fail, Goto
    <3> QED BY <2>3, <3>1 DEF MineInv
  <2> QED BY <1>0, <1>1, <1>4, <2>1, <2>2, <2>3, <2>4 DEF MineInv
<1>5. ASSUME NEW e \in Event, PostEvent(e) PROVE MineInv'
  <2>1. /\ step = "post" /\ mine' = mine \cup {e} /\ status'[e] # "ABSENT"
        /\ step' = IF Cardinality(mine') = Expected THEN "answer" ELSE "post"
        /\ UNCHANGED <<stage, replaying>>
    BY <1>5 DEF PostEvent, Ingest, TypeOK
  <2>2. Current' = Current
    BY <1>0, <2>1 DEF Current
  <2>3. \A x \in Event : ~(replaying'[x] > 0)
    BY <2>1 DEF MineInv
  <2>4. ASSUME Current.isolates, Current.posts = "one" PROVE mine' = {e} /\ step' # "post"
    <3>1. mine' = {e} /\ Expected = 1
      BY <2>1, <2>4 DEF MineInv, Expected
    <3>2. Cardinality(mine') = 1
      BY <3>1, FS_Singleton
    <3> QED BY <2>1, <3>1, <3>2
  <2> QED BY <1>0, <1>1, <2>1, <2>2, <2>3, <2>4 DEF MineInv
<1>6. ASSUME NEW v, EndSuite(v), step = "answer" => ~AwaitsApi PROVE MineInv'
  <2>1. UNCHANGED replaying
    BY <1>6, EndSuiteKeeps DEF vars, api
  <2>2. \A e \in Event : ~(replaying'[e] > 0)
    BY <1>6, <2>1 DEF MineInv, AwaitsApi
  <2>3. CASE step' = "done" /\ mine' = {} /\ UNCHANGED stage
    BY <1>0, <2>2, <2>3 DEF MineInv, Current
  <2>4. ASSUME NEW s \in Following(v), step' = "setup", stage' = s,
               mine' = IF Script[part.name][s].replays THEN mine ELSE {}
        PROVE  MineInv'
    <3>1. Current' = Script[part.name][s]
      BY <1>0, <2>4 DEF Current
    <3>2. Current'.replays => ~Current'.isolates
      <4>1. IsSuite'
        BY IsSuiteNext
      <4>2. \A p \in Parts : \A i \in p.first .. p.last : FinalSuite(Script[p.name][i])
        BY SuiteIsOne, SuitesFinal
      <4>3. FinalSuite(Script[part.name][s])
        BY <1>0, <2>4, <4>1, <4>2 DEF IsSuite
      <4> QED BY <3>1, <4>3 DEF FinalSuite
    <3>3. mine' \subseteq mine /\ (~Current'.replays => mine' = {})
      BY <2>4, <3>1
    <3> QED BY <1>1, <2>2, <2>4, <3>2, <3>3 DEF MineInv
  <2> QED BY <1>6, <2>3, <2>4 DEF EndSuite
<1> QED BY <1>3, <1>4, <1>5, <1>6, SuiteMoves

\* The events of such a suite have one chance at its endpoint.
SoleInv ==
  Settles => \A e \in mine : \E ep \in Endpoint : active = {ep} /\ One(e, ep)

Pipeline == Answers /\ RegistryTypeOK /\ ChainInv /\ KnownEvents /\ BlankInv

LEMMA CrashesGrow ==
  ASSUME TypeOK, [AcceptanceNext]_allVars, crashes' = 0 PROVE crashes = 0
<1>1. crashes \in Nat
  BY BoundsAssumption DEF TypeOK
<1>2. ASSUME NEW w \in Worker, WorkerCrash(w) PROVE FALSE
  BY <1>1, <1>2 DEF WorkerCrash
<1>3. [Next]_vars
  BY AcceptanceStep
<1>4. UNCHANGED crashes
  BY <1>2, <1>3 DEF Next, vars, ApiStep, Ingest, ReplayRead, ReplayCommit, Enqueue, ApiFails, AdminStep,
       Register, Deactivate, WindowExpires, CountdownElapses, WorkerStep, Take, DispatchToNobody, Dispatch,
       FanOut, Admit, FailOpen, Throttle, ThrottleOut, Post, Record, Retry, Ack, TaskDies, bounds
<1> QED BY <1>4

\* One request at a time replays an event.
LEMMA OneReplay ==
  ASSUME TypeOK, MineInv, [AcceptanceNext]_allVars, NEW e \in Event, ReplayRead(e)
  PROVE  replaying[e] = 0
<1>1. ~UNCHANGED replays
  BY DEF ReplayRead, TypeOK
<1>2. step = "replay"
  BY <1>1, ReplaysStep DEF AskToReplay
<1> QED BY <1>2 DEF MineInv, TypeOK

LEMMA SoleNext ==
  ASSUME Pipeline, MineInv, ActiveInv, SoleInv, [AcceptanceNext]_allVars
  PROVE  SoleInv'
<1> USE DEF Pipeline, Answers
<1> SUFFICES ASSUME Settles', NEW e \in mine'
             PROVE  \E ep \in Endpoint : active' = {ep} /\ One(e, ep)'
  BY DEF SoleInv
<1>0. /\ FinalSuite(Current)
      /\ Isolated => ~Benchmark
      /\ part' = part
      /\ crashes = 0 /\ crashes' = crashes
      /\ mine \subseteq Event /\ active \subseteq Endpoint
      /\ [Next]_vars
      /\ ChancesInv /\ AnsweredInv
  BY IsolatedSuite, PartKept, CrashesGrow, AcceptanceStep DEF Settles, RowsAreMine, TypeOK, ChainInv
<1>1. ASSUME NEW ep \in Endpoint, e \in Event, active = {ep}, One(e, ep) PROVE One(e, ep)'
  BY <1>0, <1>1, OneNext, OneReplay
<1>2. ASSUME stage' = stage, e \in mine PROVE \E ep \in Endpoint : active' = {ep} /\ One(e, ep)'
  <2>1. Current' = Current /\ Settles
    BY <1>0, <1>2 DEF Settles, Current, Isolated
  <2>2. PICK ep \in Endpoint : active = {ep} /\ One(e, ep)
    BY <1>2, <2>1 DEF SoleInv
  <2>3. One(e, ep)'
    BY <1>0, <1>1, <1>2, <2>2
  <2>4. UNCHANGED active
    <3>1. ASSUME NEW q \in Endpoint, Isolate(q) PROVE FALSE
      <4>1. step = "setup" /\ Current.isolates
        BY <3>1 DEF Isolate, Unwanted
      <4> QED BY <1>0, <1>2, <4>1 DEF MineInv, FinalSuite
    <3>2. ASSUME NEW q \in Endpoint, RegisterEndpoint(q) PROVE FALSE
      <4>1. step = "register"
        BY <3>2 DEF RegisterEndpoint
      <4> QED BY <1>2, <4>1 DEF MineInv
    <3>3. ASSUME NEW q \in Endpoint, CommitSession(q) PROVE FALSE
      <4>1. registration[q] # "none"
        BY <3>3 DEF CommitSession, Goes
      <4> QED BY <1>0, <2>1, <4>1 DEF ActiveInv, Settles
    <3> QED BY <3>1, <3>2, <3>3, ActiveStep
  <2> QED BY <2>2, <2>3, <2>4
<1>3. ASSUME PostEvent(e), e \in Event PROVE \E ep \in Endpoint : active' = {ep} /\ One(e, ep)'
  <2>1. step = "post" /\ status[e] = "ABSENT" /\ UNCHANGED <<stage, active>>
    BY <1>3 DEF PostEvent, Ingest
  <2>2. Current' = Current /\ Settles
    BY <1>0, <2>1 DEF Settles, Current, Isolated
  <2>3. Current.isolates /\ ~Benchmark
    BY <1>0, <2>1, <2>2 DEF MineInv, Settles, Isolated
  <2>4. PICK ep \in Endpoint : active = {ep}
    BY <1>0, <2>1, <2>3 DEF ActiveInv
  <2>5. One(e, ep)
    BY <1>0, <1>3, <2>1, OneBlank
  <2> QED BY <1>1, <1>3, <2>1, <2>4, <2>5
<1>4. ASSUME NEW v, EndSuite(v) PROVE \E ep \in Endpoint : active' = {ep} /\ One(e, ep)'
  <2>1. PICK s \in Following(v) : /\ \A r \in Following(v) : s <= r
                                  /\ stage' = s
                                  /\ Script[part.name][s].replays /\ e \in mine
    BY <1>4 DEF EndSuite
  <2>2. /\ part \in Parts /\ part.last \in Nat /\ part.first \in Nat /\ stage \in part.first .. part.last
        /\ s \in stage + 1 .. part.last /\ v # "FAIL"
    BY <2>1, PartsAssumption DEF IsSuite, Following
  <2>3. s = stage + 1 /\ stage + 1 \in part.first .. part.last
    <3>1. stage + 1 \in Following(v)
      BY <2>2 DEF Following
    <3>2. s <= stage + 1
      BY <2>1, <3>1
    <3> QED BY <2>2, <3>2
  <2>4. Current.isolates
    BY <2>1, <2>2, <2>3, ReplaysFollow DEF Current
  <2>5. Settles
    BY <1>0, <2>4 DEF Settles, Isolated
  <2>6. PICK ep \in Endpoint : active = {ep} /\ One(e, ep)
    BY <2>1, <2>5 DEF SoleInv
  <2>7. UNCHANGED active
    BY <1>4, EndSuiteKeeps DEF vars, db
  <2> QED BY <1>0, <1>1, <2>1, <2>6, <2>7
<1>5. ASSUME NEW x \in Event, PostEvent(x) PROVE mine' = mine \cup {x} /\ stage' = stage
  BY <1>5 DEF PostEvent
<1> QED BY <1>0, <1>2, <1>3, <1>4, <1>5, SuiteMoves

LEMMA SoleInit == AcceptanceInit => SoleInv
  BY DEF AcceptanceInit, SoleInv

\* Once the status of an event is final it stays, and so do its rows.
LEMMA Frozen ==
  ASSUME Pipeline, MineInv, SoleInv, Settles, [AcceptanceNext]_allVars, crashes' = 0,
         NEW e \in mine, status[e] \in Final, step # "answer"
  PROVE  /\ status'[e] = status[e]
         /\ \A a \in Attempt : a.ev = e => attempts'[a] = attempts[a]
<1> USE DEF Pipeline, Answers
<1>0. e \in Event /\ [Next]_vars
  BY AcceptanceStep DEF RowsAreMine
<1>1. ~InFlight(e)
  BY DEF SoleInv, One
<1>2. \A w \in Worker : pc[w] \in Working => task[w].ev # e
  BY <1>1 DEF InFlight
<1>3. status'[e] = status[e]
  <2>1. ~Ingest(e)
    BY DEF Ingest, Final
  <2>2. ~ReplayCommit(e)
    BY <1>0 DEF ReplayCommit, MineInv
  <2>3. \A w \in Worker : task[w].ev = e => ~Record(w) /\ ~DispatchToNobody(w)
    BY <1>2 DEF Record, DispatchToNobody, Working
  <2> QED BY <1>0, <2>1, <2>2, <2>3, StatusStep
<1>4. ASSUME NEW a \in Attempt, a.ev = e PROVE attempts'[a] = attempts[a]
  <2>1. ASSUME NEW w \in Worker, Record(w) PROVE attempts'[a] = attempts[a]
    <3>1. task[w].ev # e
      BY <1>2, <2>1 DEF Record, Working
    <3>2. a # Row(w)
      BY <1>4, <3>1 DEF Row
    <3> QED BY <2>1, <3>2 DEF Record, TypeOK
  <2> QED BY <1>0, <2>1, AttemptsStep
<1> QED BY <1>3, <1>4

-----------------------------------------------------------------------------
NothingRead == pos = 1 /\ seen = Unseen /\ rows = NoRows

Reading == {"poll", "recheck", "verdict"}

\* A round that starts has read nothing.
RoundInv == Isolated /\ step \notin Reading => NothingRead

\* The verdict follows a round that is complete.
CompleteInv == Isolated /\ step = "verdict" => pos > Len(Current.reads)

\* A final status that was read is still the status.
SeenInv == Settles => \A e \in mine : seen[e] \in Final => seen[e] = status[e]

\* The reads are repeated when the statuses are final.
RecheckInv ==
  Settles /\ Current.recheck /\ step \in {"recheck", "verdict"} /\ ~last =>
    \A e \in mine : status[e] \in Final

RowsDone == \E k \in 1 .. pos - 1 : Current.reads[k] = "rows"

\* The status of the event was final when its rows were read.
ReadLate(e) ==
  \/ Current.reads = <<"status", "rows">> /\ seen[e] \in Final
  \/ Current.recheck /\ step \in {"recheck", "verdict"} /\ ~last
  \/ \E a \in Attempt : a.ev = e /\ a.outcome = "success" /\ rows[a] > 0

RowsReadInv ==
  Settles /\ RowsDone =>
    \A e \in mine : ReadLate(e) => \A a \in Attempt : a.ev = e => rows[a] = attempts[a]

PollInv == RoundInv /\ CompleteInv /\ SeenInv /\ RecheckInv /\ RowsReadInv

LEMMA IsolatedReads ==
  ASSUME FinalSuite(Current), Isolated
  PROVE  /\ Len(Current.reads) \in {1, 2}
         /\ \A k \in 1 .. Len(Current.reads) : Current.reads[k] \in {"status", "rows"}
         /\ Current.reads # <<"sweep">> /\ Current.reads # <<>>
<1>1. Current.reads = <<"status", "rows">> \/ Current.reads = <<"rows", "status">> \/ Current.reads = <<"status">>
  BY DEF FinalSuite, Isolated
<1>2. ASSUME NEW r, r = <<"status", "rows">> \/ r = <<"rows", "status">> \/ r = <<"status">>
      PROVE  /\ Len(r) \in {1, 2} /\ \A k \in 1 .. Len(r) : r[k] \in {"status", "rows"}
             /\ r # <<"sweep">> /\ r # <<>>
  BY <1>2
<1> QED BY <1>1, <1>2

LEMMA PollMoves ==
  ASSUME IsSuite, PollType, Isolated, RoundInv, [AcceptanceNext]_allVars
  PROVE  \/ UNCHANGED <<pos, seen, rows, last, step, stage, mine>>
         \/ \E e \in Event : ReadStatus(e)
         \/ ReadRows
         \/ RoundEnds /\ step' = "verdict"
         \/ /\ NothingRead' /\ step' # "verdict"
            /\ step' = "recheck" => last' \/ (RoundEnds /\ last' = last)
<1> DEFINE Begins == /\ NothingRead' /\ step' # "verdict"
                     /\ step' = "recheck" => last' \/ (RoundEnds /\ last' = last)
<1>0. /\ FinalSuite(Current)
      /\ Len(Current.reads) \in {1, 2}
      /\ \A k \in 1 .. Len(Current.reads) : Current.reads[k] \in {"status", "rows"}
      /\ Current.reads # <<"sweep">> /\ Current.reads # <<>>
  BY IsolatedSuite, IsolatedReads
<1>1. /\ UNCHANGED pollVars => UNCHANGED <<pos, seen, rows, last>>
      /\ UNCHANGED suiteVars => UNCHANGED <<step, stage, mine>>
  BY DEF pollVars, suiteVars
<1>2. ASSUME UNCHANGED <<pos, seen, rows>>, step \notin Reading, step' \notin {"verdict", "recheck"} PROVE Begins
  BY <1>2 DEF RoundInv, NothingRead
<1>3. NewRound => NothingRead'
  BY <1>0 DEF NewRound, NothingRead, Unseen, NoRows
<1>4. ASSUME NEW v, EndSuite(v) PROVE Begins
  BY <1>4 DEF EndSuite, NothingRead, Unseen, NoRows
<1>5. CASE AllAccepted
  BY <1>0, <1>3, <1>5 DEF AllAccepted
<1>6. CASE Sweep
  <2>1. pos \in 1 .. Len(Current.reads) /\ Current.reads[pos] = "sweep"
    BY <1>0, <1>6 DEF Sweep, Reads, PollType
  <2> QED BY <1>0, <2>1
<1>7. CASE RoundEnds /\ step' # "verdict"
  BY <1>3, <1>7 DEF RoundEnds
<1>8. CASE DeadlinePasses
  <2>1. step = "wait" /\ last' /\ UNCHANGED <<pos, seen, rows>> /\ step' # "verdict"
    BY <1>0, <1>8 DEF DeadlinePasses, Goto, AfterPolling, FinalSuite, Isolated
  <2> QED BY <2>1 DEF RoundInv, NothingRead, Reading
<1>9. CASE IsSetUp \/ AllRegistered \/ FixEndpoint \/ PollAgain
  <2>1. UNCHANGED pollVars /\ step \notin Reading /\ step' \notin {"verdict", "recheck"}
    BY <1>9 DEF IsSetUp, AllRegistered, FixEndpoint, PollAgain, Goto, Reading
  <2> QED BY <1>1, <1>2, <2>1
<1>10. ASSUME NEW e \in Event, PostEvent(e) \/ AskToReplay(e) PROVE Begins
  <2>1. UNCHANGED pollVars /\ step \notin Reading /\ step' \notin {"verdict", "recheck"}
    BY <1>10 DEF PostEvent, AskToReplay, Goto, Reading
  <2> QED BY <1>1, <1>2, <2>1
<1>11. ASSUME NEW ep \in Endpoint, Isolate(ep) \/ RegisterEndpoint(ep) \/ AskToRegister(ep) \/ Registry1(ep)
       PROVE  Begins \/ UNCHANGED <<pos, seen, rows, last, step, stage, mine>>
  <2>1. CASE RegisterEndpoint(ep) \/ (Registry1(ep) /\ registration'[ep] = "none")
    <3>1. UNCHANGED pollVars /\ step \notin Reading /\ step' \notin {"verdict", "recheck"}
      BY <2>1 DEF RegisterEndpoint, Registry1, Goto, Reading
    <3> QED BY <1>1, <1>2, <3>1
  <2> QED BY <1>1, <1>11, <2>1 DEF Isolate, AskToRegister, Registry1
<1>12. CASE Background \/ (\E w \in Worker : Reply(w) \/ Trouble(w)) \/ UNCHANGED allVars
  BY <1>1, <1>12 DEF Background, Reply, Trouble, allVars
<1> HIDE DEF Begins
<1>13. ASSUME NotAccepted \/ Pass \/ Fail PROVE Begins
  BY <1>4, <1>13 DEF NotAccepted, Pass, Fail
<1>14. CASE ScriptStep
  BY <1>5, <1>6, <1>7, <1>8, <1>9, <1>10, <1>11, <1>13, <1>14 DEF ScriptStep, Begins
<1> QED BY <1>12, <1>14 DEF AcceptanceNext

LEMMA PollInvInit == AcceptanceInit => PollInv
<1> SUFFICES ASSUME AcceptanceInit PROVE PollInv
  OBVIOUS
<1>1. NothingRead /\ mine = {} /\ step = "setup"
  BY DEF AcceptanceInit, NothingRead
<1>2. ~RowsDone
  BY <1>1 DEF NothingRead, RowsDone
<1> QED BY <1>1, <1>2 DEF PollInv, RoundInv, CompleteInv, SeenInv, RecheckInv, RowsReadInv

\* An event whose rows were read late enough has a final status.
LEMMA LateIsFinal ==
  ASSUME Pipeline, SoleInv, SeenInv, RecheckInv, RowsWereRead, Settles, NEW e \in mine, ReadLate(e)
  PROVE  status[e] \in Final
<1>1. CASE seen[e] \in Final
  BY <1>1 DEF SeenInv
<1>2. CASE Current.recheck /\ step \in {"recheck", "verdict"} /\ ~last
  BY <1>2 DEF RecheckInv
<1>3. ASSUME NEW a \in Attempt, a.ev = e, a.outcome = "success", rows[a] > 0 PROVE status[e] \in Final
  <2>1. attempts[a] > 0
    BY <1>3 DEF RowsWereRead, Pipeline, Answers, TypeOK, RowsAreMine
  <2> QED BY <1>3, <2>1 DEF SoleInv, One, Final
<1> QED BY <1>1, <1>2, <1>3 DEF ReadLate

LEMMA PollInvNext ==
  ASSUME Pipeline, MineInv, SoleInv, PollType, PollInv, RowsWereRead, [AcceptanceNext]_allVars
  PROVE  PollInv'
<1> USE DEF Pipeline, Answers
<1>0. /\ part' = part
      /\ crashes' = 0 => crashes = 0
      /\ mine \subseteq Event /\ mine' \subseteq Event
      /\ TypeOK
      /\ RoundInv /\ CompleteInv /\ SeenInv /\ RecheckInv /\ RowsReadInv
  BY PartKept, CrashesGrow, RowsAreMineNext DEF RowsAreMine, PollInv
<1>1. ASSUME ~(Isolated') PROVE PollInv'
  BY <1>1 DEF PollInv, RoundInv, CompleteInv, SeenInv, RecheckInv, RowsReadInv, Settles
<1>2. ASSUME NEW v, EndSuite(v) PROVE PollInv'
  <2>1. NothingRead' /\ step' \notin {"recheck", "verdict"}
    BY <1>2 DEF EndSuite, NothingRead, Unseen, NoRows
  <2>2. RecheckInv'
    BY <2>1 DEF RecheckInv
  <2>3. ~(RowsDone') /\ \A e \in mine' : seen'[e] \notin Final
    BY <1>0, <2>1 DEF NothingRead, RowsDone, Unseen, Final
  <2> QED BY <2>1, <2>2, <2>3 DEF PollInv, RoundInv, CompleteInv, SeenInv, RowsReadInv
<1>3. ASSUME UNCHANGED stage, Isolated PROVE PollInv'
  <2>0. Current' = Current /\ (Settles' => Settles)
    BY <1>0, <1>3 DEF Current, Settles, Isolated
  <2>1. ASSUME Settles', NEW e \in mine, status[e] \in Final, step # "answer"
        PROVE  /\ status'[e] = status[e]
               /\ \A a \in Attempt : a.ev = e => attempts'[a] = attempts[a]
    BY <2>0, <2>1, Frozen DEF Settles
  <2>2. \A e \in mine : Settles /\ seen[e] \in Final => status[e] \in Final /\ step # "answer"
    <3>1. Settles /\ step = "answer" => NothingRead
      BY <1>0 DEF Settles, RoundInv, Reading
    <3> QED BY <1>0, <3>1 DEF SeenInv, NothingRead, Unseen, Final
  <2>3. CASE UNCHANGED <<pos, seen, rows, last, step, stage, mine>>
    <3>1. RoundInv' /\ CompleteInv'
      BY <1>0, <2>0, <2>3 DEF RoundInv, CompleteInv, NothingRead, Isolated
    <3>2. SeenInv'
      BY <1>0, <2>0, <2>1, <2>2, <2>3 DEF SeenInv
    <3>3. RecheckInv'
      BY <1>0, <2>0, <2>1, <2>3 DEF RecheckInv
    <3>4. RowsReadInv'
      <4> SUFFICES ASSUME Settles', RowsDone', NEW e \in mine, ReadLate(e)', NEW a \in Attempt, a.ev = e
                   PROVE  rows[a] = attempts'[a]
        BY <2>3 DEF RowsReadInv
      <4>1. RowsDone /\ ReadLate(e)
        BY <2>0, <2>3 DEF RowsDone, ReadLate
      <4>2. rows[a] = attempts[a]
        BY <1>0, <2>0, <4>1 DEF RowsReadInv
      <4>3. status[e] \in Final
        BY <1>0, <2>0, <4>1, LateIsFinal
      <4>4. step # "answer"
        <5>1. pos # 1
          BY <4>1 DEF RowsDone
        <5> QED BY <1>0, <2>0, <5>1 DEF RoundInv, NothingRead, Settles, Reading
      <4> QED BY <2>1, <4>2, <4>3, <4>4
    <3> QED BY <3>1, <3>2, <3>3, <3>4 DEF PollInv
  <2>4. ASSUME NEW x \in Event, ReadStatus(x) PROVE PollInv'
    <3>0. /\ UNCHANGED <<rows, last, step, mine, status, attempts>> /\ step \in {"poll", "recheck"}
          /\ seen' = [seen EXCEPT ![x] = status[x]] /\ seen \in [Event -> AnyStatus \ {"FAILED"}]
          /\ pos <= Len(Current.reads) /\ Current.reads[pos] = "status"
          /\ pos' = pos \/ pos' = pos + 1
          /\ pos \in Nat
      BY <2>4 DEF ReadStatus, Reads, suiteVars, vars, db, NothingRejected, PollType
    <3>1. RoundInv' /\ CompleteInv'
      BY <3>0 DEF RoundInv, CompleteInv, Reading
    <3>2. SeenInv'
      BY <1>0, <2>0, <3>0 DEF SeenInv
    <3>3. RecheckInv'
      BY <1>0, <2>0, <3>0 DEF RecheckInv
    <3>4. RowsReadInv'
      <4> SUFFICES ASSUME Settles', RowsDone', NEW e \in mine, ReadLate(e)', NEW a \in Attempt, a.ev = e
                   PROVE  rows[a] = attempts[a]
        BY <3>0 DEF RowsReadInv
      <4>1. PICK k \in 1 .. pos' - 1 : Current.reads[k] = "rows"
        BY <2>0 DEF RowsDone
      <4>2. k \in 1 .. pos - 1
        <5>1. k # pos
          BY <3>0, <4>1
        <5> QED BY <3>0, <4>1, <5>1
      <4>3. RowsDone
        BY <4>1, <4>2 DEF RowsDone
      <4>4. Current.reads # <<"status", "rows">>
        <5> SUFFICES ASSUME Current.reads = <<"status", "rows">> PROVE FALSE
          OBVIOUS
        <5>1. pos = 1
          BY <3>0
        <5> QED BY <4>2, <5>1
      <4>5. ReadLate(e)
        BY <2>0, <3>0, <4>4 DEF ReadLate
      <4> QED BY <1>0, <2>0, <4>3, <4>5 DEF RowsReadInv
    <3> QED BY <3>1, <3>2, <3>3, <3>4 DEF PollInv
  <2>5. CASE ReadRows
    <3>0. /\ UNCHANGED <<seen, last, step, mine, status, attempts>> /\ step \in {"poll", "recheck"}
          /\ rows' = [a \in Attempt |-> IF a.ev \in mine THEN attempts[a] ELSE 0]
      BY <2>5 DEF ReadRows, Reads, suiteVars, vars, db
    <3>1. RoundInv' /\ CompleteInv'
      BY <3>0 DEF RoundInv, CompleteInv, Reading
    <3>2. SeenInv' /\ RecheckInv'
      BY <1>0, <2>0, <3>0 DEF SeenInv, RecheckInv
    <3>3. RowsReadInv'
      BY <3>0 DEF RowsReadInv
    <3> QED BY <3>1, <3>2, <3>3 DEF PollInv
  <2>6. CASE RoundEnds /\ step' = "verdict"
    <3>0. /\ UNCHANGED <<pos, seen, rows, last, mine, status, attempts>> /\ pos > Len(Current.reads)
          /\ step = "recheck" \/ (step = "poll" /\ ~Current.recheck)
      BY <2>6 DEF RoundEnds, Goto, AfterPolling, vars, db
    <3>1. RoundInv' /\ CompleteInv'
      BY <2>0, <2>6, <3>0 DEF RoundInv, CompleteInv, Reading
    <3>2. SeenInv' /\ RecheckInv'
      BY <1>0, <2>0, <3>0 DEF SeenInv, RecheckInv
    <3>3. RowsReadInv'
      <4>1. RowsDone' = RowsDone
        BY <2>0, <3>0 DEF RowsDone
      <4>2. \A e \in mine : ReadLate(e)' => ReadLate(e)
        BY <2>0, <3>0 DEF ReadLate
      <4> QED BY <1>0, <2>0, <3>0, <4>1, <4>2 DEF RowsReadInv
    <3> QED BY <3>1, <3>2, <3>3 DEF PollInv
  <2>7. CASE /\ NothingRead' /\ step' # "verdict"
             /\ step' = "recheck" => last' \/ (RoundEnds /\ last' = last)
    <3>1. RecheckInv'
      <4> SUFFICES ASSUME Settles', Current.recheck, step' = "recheck", ~(last'), NEW e \in mine'
                   PROVE  status'[e] \in Final
        BY <2>0, <2>7 DEF RecheckInv
      <4>1. RoundEnds /\ ~last
        BY <2>7
      <4>2. Met /\ UNCHANGED <<status, mine>>
        BY <4>1 DEF RoundEnds, Goto, vars, db
      <4>3. FinalSuite(Current)
        BY IsolatedSuite
      <4>4. seen[e] \in Final
        BY <1>3, <4>2, <4>3 DEF Met, FinalSuite, Isolated
      <4> QED BY <1>0, <2>0, <4>2, <4>4 DEF SeenInv
    <3>2. ~(RowsDone') /\ \A e \in mine' : seen'[e] \notin Final
      BY <1>0, <2>7 DEF NothingRead, RowsDone, Unseen, Final
    <3> QED BY <2>7, <3>1, <3>2 DEF PollInv, RoundInv, CompleteInv, SeenInv, RowsReadInv
  <2> QED BY <1>0, <1>3, <2>3, <2>4, <2>5, <2>6, <2>7, PollMoves
<1>4. UNCHANGED stage => (Isolated' <=> Isolated)
  BY <1>0 DEF Isolated, Current
<1>5. \A e \in Event : PostEvent(e) => UNCHANGED stage
  BY DEF PostEvent
<1> QED BY <1>1, <1>2, <1>3, <1>4, <1>5, SuiteMoves

\* What a PASS asserted of an event of such a suite is what the tables have.
LEMMA PassedEvent ==
  ASSUME Pipeline, MineInv, SoleInv, PollType, PollInv, RowsWereRead, Settles, Pass,
         NEW e \in mine
  PROVE  /\ ~InFlight(e)
         /\ Current.status # AnyStatus => seen[e] = status[e]
         /\ Current.rows > 0 => \A a \in Attempt : a.ev = e => rows[a] = attempts[a]
<1> USE DEF Pipeline, Answers
<1>1. FinalSuite(Current) /\ Isolated
  BY IsolatedSuite DEF Settles
<1>2. step = "verdict" /\ pos > Len(Current.reads)
  BY <1>1 DEF Pass, PollInv, CompleteInv
<1>3. ASSUME NEW k \in {1, 2}, k <= Len(Current.reads), Current.reads[k] = "rows" PROVE RowsDone
  <2>1. pos \in Nat /\ Len(Current.reads) \in Nat
    BY <1>1, IsolatedReads DEF PollType
  <2>2. k \in 1 .. pos - 1
    BY <1>2, <1>3, <2>1
  <2> QED BY <1>3, <2>2 DEF RowsDone
<1>4. ~(last /\ Current.recheck) /\ seen[e] \in Current.status
  BY DEF Pass, Asserted
<1>5. CASE \E s \in Final : Current.status = {s}
  <2>1. seen[e] = status[e] /\ status[e] \in Final
    BY <1>4, <1>5 DEF PollInv, SeenInv
  <2>2. ~InFlight(e)
    BY <2>1 DEF SoleInv, One
  <2>3. Current.rows > 0 => RowsDone /\ ReadLate(e)
    <3> SUFFICES ASSUME Current.rows > 0 PROVE RowsDone /\ ReadLate(e)
      OBVIOUS
    <3>1. CASE Current.reads = <<"status", "rows">>
      BY <1>3, <2>1, <3>1 DEF ReadLate
    <3>2. CASE Current.reads = <<"rows", "status">> /\ Current.recheck
      BY <1>2, <1>4, <1>3, <3>2 DEF ReadLate
    <3>3. CASE Current.reads = <<"status">> /\ Current.rows = 0
      BY <3>3
    <3> QED BY <1>1, <3>1, <3>2, <3>3 DEF FinalSuite, Isolated
  <2> QED BY <2>1, <2>2, <2>3 DEF PollInv, RowsReadInv
<1>6. CASE /\ Current.status = AnyStatus /\ Current.first /\ Current.isolates /\ Current.posts = "one"
           /\ Current.reads = <<"status", "rows">>
  <2>1. PICK a \in FirstRows : a.outcome = "success"
    BY <1>6 DEF Pass
  <2>2. a \in Attempt /\ rows[a] > 0 /\ a.ev \in mine
    BY <2>1 DEF FirstRows, RowsRead, RowsAreMine
  <2>3. a.ev = e
    BY <1>6, <2>2 DEF MineInv
  <2>4. attempts[a] > 0
    BY <2>2 DEF RowsWereRead, TypeOK, RowsAreMine
  <2>5. status[e] = "DELIVERED"
    BY <2>1, <2>2, <2>3, <2>4 DEF SoleInv, One
  <2>6. ~InFlight(e)
    BY <2>5 DEF SoleInv, One, Final
  <2>7. RowsDone
    BY <1>6, <1>3
  <2>8. ReadLate(e)
    BY <2>1, <2>2, <2>3 DEF ReadLate
  <2> QED BY <1>6, <2>6, <2>7, <2>8 DEF PollInv, RowsReadInv
<1> QED BY <1>1, <1>5, <1>6 DEF FinalSuite, Isolated

\* A PASS of a suite that isolates its endpoint, or that replays the event of
\* one that did, holds for good while no worker crashed: each of its events
\* has one chance at the only endpoint, so that the final status the polls saw
\* and the rows they read then can change no more.
THEOREM PassHoldsForGood == AcceptanceSpec => PassIsFinal
<1> DEFINE I == /\ Pipeline /\ BenchmarkInv /\ PollType
                /\ MineInv /\ ActiveInv /\ SoleInv /\ PollInv
<1>1. AcceptanceInit => I
  <2> SUFFICES ASSUME AcceptanceInit PROVE I
    OBVIOUS
  <2>1. Init
    BY DEF AcceptanceInit
  <2>2. KnownEvents /\ BlankInv
    BY <2>1, NoTaskAssumption DEF Init, KnownEvents, Unknown, BlankInv, Blank, Waiting, Task
  <2>3. Answers /\ RegistryTypeOK /\ PollType /\ BenchmarkInv
    BY AnswersInit, ScriptInit, BenchmarkInvInit
  <2>4. ChainInv
    BY <2>1, ChainInit
  <2>5. MineInv /\ ActiveInv /\ SoleInv /\ PollInv
    BY MineInvInit, ActiveInvInit, SoleInit, PollInvInit
  <2> QED BY <2>2, <2>3, <2>4, <2>5 DEF Pipeline
<1>2. I /\ [AcceptanceNext]_allVars => I'
  <2> SUFFICES ASSUME I, [AcceptanceNext]_allVars PROVE I'
    OBVIOUS
  <2>0. [Next]_vars /\ TypeOK /\ IsSuite /\ RowsAreMine /\ RowsWereRead
    BY AcceptanceStep DEF Pipeline, Answers, BenchmarkInv
  <2>1. Answers' /\ RegistryTypeOK' /\ BenchmarkInv' /\ PollType'
    BY AnswersNext, RegistryTypeNext, BenchmarkInvNext, PollTypeNext DEF Pipeline
  <2>2. ChainInv' /\ KnownEvents' /\ BlankInv'
    BY <2>0, ChainNext, KnownNext, BlankNext DEF Pipeline
  <2>3. MineInv' /\ ActiveInv'
    BY <2>0, MineInvNext, ActiveInvNext DEF Pipeline
  <2>4. SoleInv' /\ PollInv'
    BY <2>0, SoleNext, PollInvNext
  <2> QED BY <2>1, <2>2, <2>3, <2>4 DEF Pipeline
<1>3. I /\ [AcceptanceNext]_allVars =>
        [Passes /\ (Current.isolates \/ Current.replays) /\ crashes = 0 =>
           \A e \in mine :
             /\ ~InFlight(e)
             /\ Current.status # AnyStatus => seen[e] = status[e]
             /\ Current.rows > 0 => \A a \in Attempt : a.ev = e => rows[a] = attempts[a]]_allVars
  <2> SUFFICES ASSUME I, [AcceptanceNext]_allVars, Passes, Current.isolates \/ Current.replays,
                      crashes = 0, NEW e \in mine
               PROVE  /\ ~InFlight(e)
                      /\ Current.status # AnyStatus => seen[e] = status[e]
                      /\ Current.rows > 0 => \A a \in Attempt : a.ev = e => rows[a] = attempts[a]
    OBVIOUS
  <2>1. Pass
    BY PassesByPass
  <2>2. Settles /\ RowsWereRead
    BY DEF Settles, Isolated, BenchmarkInv
  <2> QED BY <2>1, <2>2, PassedEvent
<1> HIDE DEF I
<1> QED BY <1>1, <1>2, <1>3, PTL DEF AcceptanceSpec, PassIsFinal
=============================================================================
