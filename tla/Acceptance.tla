----------------------------- MODULE Acceptance -----------------------------
(***************************************************************************)
(* The scripts of scripts/ run against the pipeline: each suite deactivates  *)
(* and registers endpoints, posts events, polls the tables with separate    *)
(* statements until it has seen enough or its deadline has passed, and      *)
(* gives a verdict.  The endpoints are the mock receivers, one of which     *)
(* counts its calls for all callers.  The scripts are the only clients.     *)
(*                                                                          *)
(* Sources: scripts/*.py, app/api/v1/mock.py.                               *)
(***************************************************************************)
EXTENDS Registry, Suites

CONSTANTS
  Parts    \* what is run: a script with its first and its last suite, the receiver
           \* of the endpoint an earlier run left active, and a bound of the faults:
           \* workers that crash, requests to a receiver that are lost or late

Receiver == {"ok", "receiver", "echo", "secure", "failing", "flaky"}

ASSUME PartsAssumption ==
  \A p \in Parts : /\ p.name \in DOMAIN Script
                   /\ p.first \in Nat \ {0} /\ p.last \in Nat
                   /\ p.first <= p.last /\ p.last <= Len(Script[p.name])
                   /\ p.left \in Receiver \cup {"none"}
                   /\ p.faults \in Nat
ASSUME EndpointAssumption == IsFiniteSet(Endpoint)

VARIABLES
  part, stage,   \* the suite that is run
  step,          \* where it stands
  mine,          \* the events it posted
  need,          \* the rows it waits for
  pos, unread,   \* the next read of the round, the events not read yet
  seen, rows,    \* what it read of the events and of their rows
  last,          \* the deadline has passed
  verdict,       \* of the suite that ended last
  url,           \* target_url of the endpoints
  turn,          \* calls of the flaky receiver, modulo the length of its cycle
  \* History.
  aligned,       \* the event met the flaky receiver at the start of its cycle, alone
  slow,          \* something was under way for its events when the last round read
  troubles

suiteVars == <<part, stage, step, mine, need, verdict>>
pollVars  == <<pos, unread, seen, rows, last, slow>>
mockVars  == <<url, turn, aligned, troubles>>
allVars   == <<vars, registry, suiteVars, pollVars, mockVars>>

Current == Script[part.name][stage]

Unseen == [e \in Event |-> "ABSENT"]
NoRows == [a \in Attempt |-> 0]

Cycle == Len(FlakyTrail)

AcceptanceTypeOK ==
  /\ part  \in Parts
  /\ stage \in part.first .. part.last
  /\ step  \in {"setup", "register", "post", "fix", "replay", "answer", "poll", "wait",
                "recheck", "verdict", "done"}
  /\ mine   \in SUBSET Event
  /\ need   \in Nat
  /\ pos    \in 1 .. Len(Current.reads) + 1
  /\ unread \in SUBSET mine
  /\ seen   \in [Event -> AnyStatus]
  /\ rows   \in [Attempt -> Nat]
  /\ last   \in BOOLEAN
  /\ verdict \in {"NONE", "PASS", "FAIL"}
  /\ url    \in [Endpoint -> Receiver \cup {"none"}]
  /\ turn   \in 0 .. Cycle - 1
  /\ aligned  \in BOOLEAN
  /\ slow     \in BOOLEAN
  /\ troubles \in Nat
  /\ crashes + troubles <= part.faults
  /\ \A ep \in active : url[ep] # "none"

\* Otherwise the position in the cycle is of no account.
CallsFlaky ==
  \/ \E ep \in active : url[ep] = "flaky"
  \/ \E s \in part.first .. part.last : Script[part.name][s].url = "flaky"

AcceptanceInit ==
  /\ Init /\ RegistryInit
  /\ part \in Parts
  /\ stage  = part.first
  /\ step   = "setup"
  /\ mine   = {}
  /\ need   = 0
  /\ pos    = 1
  /\ unread = {}
  /\ seen   = Unseen
  /\ rows   = NoRows
  /\ last   = FALSE
  /\ verdict = "NONE"
  /\ Cardinality(active) = IF part.left = "none" THEN 0 ELSE 1
  /\ url = [ep \in Endpoint |-> IF ep \in active THEN part.left ELSE "none"]
  /\ turn \in IF CallsFlaky THEN 0 .. Cycle - 1 ELSE {0}
  /\ aligned  = FALSE
  /\ slow     = FALSE
  /\ troubles = 0

-----------------------------------------------------------------------------
(* The mock receivers.                                                      *)

\* What the receiver of a URL answers.
Answer(r) ==
  IF r = "failing" \/ (r = "flaky" /\ turn < Cycle - 1) THEN "transient_error" ELSE "success"

\* mock_flaky counts a call, whoever made it.
Counted(w) ==
  IF url[task[w].ep] = "flaky"
  THEN /\ turn'    = (turn + 1) % Cycle
       /\ aligned' = (aligned /\ task[w].ev \in mine)
  ELSE UNCHANGED <<turn, aligned>>

\* The POST of a worker is answered.
Reply(w) ==
  /\ pc[w] = "post"
  /\ Post(w, Answer(url[task[w].ep]))
  /\ Counted(w)
  /\ UNCHANGED <<registry, suiteVars, pollVars, url, troubles>>

\* The POST is lost on its way, or its answer comes after the HTTP timeout.
Trouble(w) ==
  /\ crashes + troubles < part.faults
  /\ Post(w, "transient_error")
  /\ troubles' = troubles + 1
  /\ Counted(w) \/ UNCHANGED <<turn, aligned>>
  /\ UNCHANGED <<registry, suiteVars, pollVars, url>>

-----------------------------------------------------------------------------
(* The API, the broker and the workers go on meanwhile.                     *)

Work(w) ==
  \/ \E t \in Task : Take(w, t)
  \/ DispatchToNobody(w)
  \/ Dispatch(w)
  \/ \E ep \in Endpoint : FanOut(w, ep)
  \/ Admit(w)
  \/ FailOpen(w)
  \/ Throttle(w)
  \/ ThrottleOut(w)
  \/ Record(w)
  \/ Retry(w)
  \/ Ack(w)
  \/ TaskDies(w)
  \/ crashes + troubles < part.faults /\ WorkerCrash(w)

Background ==
  /\ \/ \E e \in Event : ReplayCommit(e) \/ Enqueue(e) \/ ApiFails(e)
     \/ \E ep \in Endpoint : WindowExpires(ep)
     \/ \E t \in DeliverTask : CountdownElapses(t)
     \/ \E w \in Worker : Work(w)
  /\ UNCHANGED <<registry, suiteVars, pollVars, mockVars>>

-----------------------------------------------------------------------------
(* Setting up a suite.                                                      *)

Goto(s) == step' = s /\ UNCHANGED <<part, stage, mine, need, verdict>>

\* Faulty variant: the endpoint of an earlier run stays active.
UnwantedNone == {}

\* The endpoints a suite deactivates. There is at most one: those of a suite
\* before are deactivated by the next, and the benchmark ends its script.
Unwanted ==
  IF ~Current.isolates THEN {}
  ELSE IF Current.registers = "unless active"
  THEN {ep \in active : url[ep] # Current.url}
  ELSE active

\* deactivate_all_endpoints.
Isolate(ep) ==
  /\ step = "setup"
  /\ ep \in Unwanted
  /\ Deactivate(ep)
  /\ Remember
  /\ UNCHANGED <<registration, suiteVars, pollVars, mockVars>>

IsSetUp ==
  /\ step = "setup"
  /\ Unwanted = {}
  /\ Goto(IF Current.replays THEN "fix"
          ELSE IF Current.registers \in {"session", "api"} THEN "register"
          ELSE IF Current.registers = "unless active" /\ active = {} THEN "register"
          ELSE "post")
  /\ UNCHANGED <<vars, registry, pollVars, mockVars>>

\* Faulty variant: the row is committed before it has its target_url.
RegisterEndpointEarly(ep) ==
  /\ step = "register"
  /\ Current.registers # "api"
  /\ url[ep] = "none"
  /\ Register(ep)
  /\ Goto("post")
  /\ Remember
  /\ UNCHANGED <<registration, pollVars, mockVars>>

\* register_endpoint: flush and commit in a session of the script.
RegisterEndpoint(ep) ==
  /\ step = "register"
  /\ Current.registers # "api"
  /\ url[ep] = "none"
  /\ Register(ep)
  /\ url' = [url EXCEPT ![ep] = Current.url]
  /\ Goto("post")
  /\ Remember
  /\ UNCHANGED <<registration, pollVars, turn, aligned, troubles>>

\* register_endpoints of the benchmarks: one POST /endpoints after the other.
AskToRegister(ep) ==
  /\ step = "register"
  /\ Current.registers = "api"
  /\ url[ep] = "none"
  /\ \A q \in Endpoint : registration[q] \notin {"flushed", "committed"}
  /\ Cardinality(Answered201) < NumEndpoints
  /\ Flush(ep)
  /\ url' = [url EXCEPT ![ep] = Current.url]
  /\ UNCHANGED <<suiteVars, pollVars, turn, aligned, troubles>>

\* get_db and the answer; an error answer ends the script, which awaits it.
Registry1(ep) ==
  /\ Respond(ep) \/ CommitSession(ep) \/ RollBack(ep)
  /\ IF registration'[ep] = "none"
     THEN step = "register" /\ Goto("done")
     ELSE UNCHANGED suiteVars
  /\ UNCHANGED <<pollVars, mockVars>>

AllRegistered ==
  /\ step = "register"
  /\ Current.registers = "api"
  /\ Cardinality(Answered201) = NumEndpoints
  /\ Goto("post")
  /\ UNCHANGED <<vars, registry, pollVars, mockVars>>

-----------------------------------------------------------------------------
(* Posting.                                                                 *)

\* A request that got no 202 or 200: it was given up after its commit.
Refused == \E e \in mine : "api" \in lost[e]

AwaitsApi == \E e \in mine : unqueued[e] > 0 \/ replaying[e] > 0

Expected == IF Current.posts = "one" THEN 1 ELSE NumEvents

\* post_event; dispatch_events of the benchmark awaits each answer, the burst
\* of asyncio.gather does not.
PostEvent(e) ==
  /\ step = "post"
  /\ status[e] = "ABSENT"
  /\ Current.posts = "burst" \/ (~AwaitsApi /\ ~Refused)
  /\ Ingest(e)
  /\ Remember
  /\ mine' = mine \cup {e}
  /\ step' = IF Cardinality(mine') = Expected THEN "answer" ELSE "post"
  /\ aligned' = (Current.url = "flaky" /\ turn = 0)
  /\ UNCHANGED <<registration, part, stage, need, verdict, pollVars, url, turn, troubles>>

\* update_endpoint_url.
FixEndpoint ==
  /\ step = "fix"
  /\ url' = [ep \in Endpoint |-> IF ep \in active THEN Current.url ELSE url[ep]]
  /\ Goto("replay")
  /\ UNCHANGED <<vars, registry, pollVars, turn, aligned, troubles>>

\* POST /events/{id}/replay.
AskToReplay(e) ==
  /\ step = "replay"
  /\ e \in mine
  /\ ReplayRead(e)
  /\ Goto("answer")
  /\ UNCHANGED <<registry, pollVars, mockVars>>

-----------------------------------------------------------------------------
(* The end of a suite: the scripts run the next one whatever the verdict,    *)
(* but have nothing to replay after a FAIL.                                  *)

Following(v) ==
  {s \in stage + 1 .. part.last : v = "FAIL" => ~Script[part.name][s].replays}

EndSuite(v) ==
  /\ verdict' = v
  /\ \/ /\ Following(v) = {}
        /\ step' = "done"
        /\ mine' = {}
        /\ UNCHANGED stage
     \/ \E s \in Following(v) :
        /\ \A r \in Following(v) : s <= r
        /\ step'  = "setup"
        /\ stage' = s
        /\ mine'  = IF Script[part.name][s].replays THEN mine ELSE {}
  /\ need' = 0
  /\ pos' = 1 /\ unread' = {} /\ seen' = Unseen /\ rows' = NoRows
  /\ last' = FALSE /\ slow' = FALSE
  /\ UNCHANGED <<vars, registry, part, mockVars>>

\* A POST without its 202, or a replay that is refused.
NotAccepted ==
  /\ \/ step = "answer" /\ Refused
     \/ step = "post" /\ Refused /\ Current.posts # "burst"
     \/ step = "replay" /\ \E e \in mine : status[e] \notin Replayable
  /\ ~AwaitsApi
  /\ EndSuite("FAIL")

-----------------------------------------------------------------------------
(* Polling. A round is one statement per read, each with what is committed   *)
(* at its time.                                                              *)

Outstanding == \E e \in mine : InFlight(e)

\* The sweep of the load test adds to what it saw.
NewRound ==
  /\ pos'    = 1
  /\ unread' = mine
  /\ seen'   = IF Current.reads = <<"sweep">> THEN seen ELSE Unseen
  /\ rows'   = NoRows

\* All answers have come: the polling begins.
AllAccepted ==
  /\ step = "answer"
  /\ ~AwaitsApi
  /\ ~Refused
  /\ need' = IF Current.perActive THEN Cardinality(active) ELSE Current.rows
  /\ step' = IF Current.reads = <<>> THEN "verdict" ELSE "poll"
  /\ NewRound
  /\ UNCHANGED <<vars, registry, part, stage, mine, verdict, last, slow, mockVars>>

Reads(what) ==
  /\ step \in {"poll", "recheck"}
  /\ pos <= Len(Current.reads)
  /\ Current.reads[pos] = what
  /\ slow' = (Outstanding \/ (slow /\ (pos > 1 \/ unread # mine \/ step = "recheck")))
  /\ UNCHANGED <<vars, registry, suiteVars, last, mockVars>>

\* session.get(Event), one statement per event.
ReadStatus(e) ==
  /\ Reads("status")
  /\ e \in unread
  /\ seen'   = [seen EXCEPT ![e] = status[e]]
  /\ unread' = unread \ {e}
  /\ pos'    = IF unread = {e} THEN pos + 1 ELSE pos
  /\ UNCHANGED rows

\* The events that are DELIVERED, in one statement.
Sweep ==
  /\ Reads("sweep")
  /\ seen' = [e \in Event |-> IF e \in mine /\ status[e] = "DELIVERED"
                              THEN "DELIVERED" ELSE seen[e]]
  /\ pos'  = pos + 1
  /\ UNCHANGED <<unread, rows>>

ReadRows ==
  /\ Reads("rows")
  /\ rows' = [a \in Attempt |-> IF a.ev \in mine THEN attempts[a] ELSE 0]
  /\ pos'  = pos + 1
  /\ UNCHANGED <<unread, seen>>

RowsRead == {a \in Attempt : rows[a] > 0}

\* A row counts once for each time it was written.
NumberRead == Cardinality(UNION {{a} \X (1 .. rows[a]) : a \in RowsRead})

Met ==
  /\ \A e \in mine : seen[e] \in Current.until
  /\ NumberRead >= need

\* What follows the polling: the assertions, on a new reading or not.
AfterPolling == IF Current.recheck THEN "recheck" ELSE "verdict"

RoundEnds ==
  /\ step \in {"poll", "recheck"}
  /\ pos > Len(Current.reads)
  /\ IF step = "poll" /\ ~Met /\ ~last THEN Goto("wait")
     ELSE Goto(IF step = "poll" THEN AfterPolling ELSE "verdict")
  /\ IF step' = "verdict" THEN UNCHANGED <<pos, unread, seen, rows>> ELSE NewRound
  /\ UNCHANGED <<vars, registry, last, slow, mockVars>>

\* asyncio.sleep, and the next round.
PollAgain ==
  /\ step = "wait"
  /\ Goto("poll")
  /\ UNCHANGED <<vars, registry, pollVars, mockVars>>

\* The deadline of the suite passes. There may be one more reading.
DeadlinePasses ==
  /\ step = "wait"
  /\ last' = TRUE
  /\ Goto(IF Current.lastRead THEN "poll" ELSE AfterPolling)
  /\ UNCHANGED <<vars, registry, pos, unread, seen, rows, slow, mockVars>>

-----------------------------------------------------------------------------
(* The assertions.                                                          *)

Dead == {e \in Event : status[e] = "DEAD_LETTER"}

\* The numbers and the outcomes of the rows are those of the trail.
RowsMatchTrail ==
  /\ {a.number : a \in RowsRead} = DOMAIN Current.trail
  /\ \A a \in RowsRead : a.outcome = Current.trail[a.number]

Asserted ==
  /\ ~(last /\ Current.recheck)
  /\ \A e \in mine : seen[e] \in Current.status
  /\ NumberRead \in Current.count
  /\ Current.perActive /\ need > 0 => NumberRead <= need
  /\ \A a \in RowsRead : a.outcome \in Current.outcomes
  /\ Current.trail # <<>> => RowsMatchTrail
  /\ Current.beyond > 0 => \E a \in RowsRead : a.number > Current.beyond
  /\ Current.dlq = "lists" => mine \subseteq Dead
  /\ Current.dlq = "omits" => mine \cap Dead = {}

\* attempts[0], ordered by attempt_number: any of those with the lowest one.
FirstRows == {a \in RowsRead : \A b \in RowsRead : a.number <= b.number}

Pass ==
  /\ step = "verdict"
  /\ Asserted
  /\ Current.first => \E a \in FirstRows : a.outcome = "success"
  /\ EndSuite("PASS")

Fail ==
  /\ step = "verdict"
  /\ \/ ~Asserted
     \/ Current.first /\ \E a \in FirstRows : a.outcome # "success"
  /\ EndSuite("FAIL")

-----------------------------------------------------------------------------
ScriptStep ==
  \/ \E ep \in Endpoint :
       Isolate(ep) \/ RegisterEndpoint(ep) \/ AskToRegister(ep) \/ Registry1(ep)
  \/ \E e \in Event : PostEvent(e) \/ AskToReplay(e) \/ ReadStatus(e)
  \/ IsSetUp \/ AllRegistered \/ FixEndpoint \/ NotAccepted \/ AllAccepted
  \/ Sweep \/ ReadRows \/ RoundEnds \/ PollAgain \/ DeadlinePasses
  \/ Pass \/ Fail

AcceptanceNext ==
  \/ Background
  \/ \E w \in Worker : Reply(w) \/ Trouble(w)
  \/ ScriptStep

AcceptanceSpec == AcceptanceInit /\ [][AcceptanceNext]_allVars

-----------------------------------------------------------------------------
(* What a verdict is worth.                                                 *)

Passes == step = "verdict" /\ step' # "verdict" /\ verdict' = "PASS"
Fails  == step # step' /\ step' \in {"setup", "done"} /\ verdict' = "FAIL"

\* A PASS of a suite that isolates its endpoint is no snapshot: nothing is
\* under way for its events any more, and the status it asserted and the rows
\* it read are those the tables still have. The statements of a round are
\* torn by the workers, and the polls end at the first status or row that
\* fits; only a task that is delivered again can add to it.
PassIsFinal ==
  [][Passes /\ (Current.isolates \/ Current.replays) /\ crashes = 0 =>
       \A e \in mine :
         /\ ~InFlight(e)
         /\ Current.status # AnyStatus => seen[e] = status[e]
         /\ Current.rows > 0 => \A a \in Attempt : a.ev = e => rows[a] = attempts[a]
    ]_allVars

\* Why a suite may fail although the pipeline kept all its promises.
Excused ==
  \/ StaleExpectation(Current)
  \/ slow \/ crashes > 0 \/ troubles > 0
  \/ Current.url = "flaky" /\ ~aligned
  \/ ~Current.isolates /\ \E ep \in active : url[ep] \in {"failing", "flaky"}
  \/ \E t \in deferred : t.ev \in mine
  \/ \E e \in mine : lost[e] # {} \/ hidden[e] # {}

\* A FAIL has a cause: work given up or throttled, a worker or a request lost,
\* a read before the work was done, an endpoint left by another run, a call of
\* somebody else to the flaky receiver, or an expectation the code does not
\* meet. No interleaving of the polls with the pipeline fails a suite alone.
FailIsExplained == [][Fails => Excused]_allVars

\* verify_phase4.py still expects FAILED of an event whose retries are used up,
\* verify_phase6.py an attempt_number above 5 after a replay: whatever the
\* timing, the suites that do can only fail.
StaleNeverPasses == [][Passes => ~StaleExpectation(Current)]_allVars

\* The benchmark counts rows, "each event x each endpoint = one attempt row".
\* Its PASS means that each event reached each of its endpoints if no attempt
\* was repeated and no other endpoint was active.
BenchmarkCountsTargets ==
  [][Passes /\ Current.registers = "api" /\ active \subseteq Answered201
       /\ (\A a \in RowsRead : a.number = 1) /\ crashes = 0 =>
       \A e \in mine, ep \in Answered201 : \E a \in RowsRead : a.ev = e /\ a.ep = ep
    ]_allVars
=============================================================================
