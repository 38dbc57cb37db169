----------------------------- MODULE Ingestion -----------------------------
(***************************************************************************)
(* The idempotent ingestion route: concurrent POST /api/v1/events requests,  *)
(* each a handler of its own database transaction, racing on the unique     *)
(* index of event.idempotency_key, and the failures between their steps.    *)
(*                                                                          *)
(* Sources: app/api/v1/events.py, app/core/database.py, app/models/event.py. *)
(* PostgreSQL runs at READ COMMITTED: a statement sees committed rows, and   *)
(* an insert waits while another open transaction holds the same key.       *)
(***************************************************************************)
EXTENDS Naturals, FiniteSets

CONSTANTS
  Request,    \* POST requests; a client's retry is another request
  Key,        \* idempotency keys
  NoRequest

ASSUME NoRequestAssumption == NoRequest \notin Request

VARIABLES
  rows,     \* keys of committed events
  lock,     \* the open transaction that inserted a key
  tasks,    \* dispatcher tasks pushed for the event of a key
  key,      \* the key a request carries
  pc        \* where the handler of a request is

vars == <<rows, lock, tasks, key, pc>>

Answered == {"accepted", "replayed", "failed", "missing"}

TypeOK ==
  /\ rows  \in SUBSET Key
  /\ lock  \in [Key -> Request \cup {NoRequest}]
  /\ tasks \in [Key -> Nat]
  /\ key   \in [Request -> Key]
  /\ pc    \in [Request -> {"select", "insert", "fallback", "commit", "enqueue"} \cup Answered]

Init ==
  /\ rows  = {}
  /\ lock  = [k \in Key |-> NoRequest]
  /\ tasks = [k \in Key |-> 0]
  /\ key   \in [Request -> Key]
  /\ pc    = [r \in Request |-> "select"]

-----------------------------------------------------------------------------
Goto(r, l) == pc' = [pc EXCEPT ![r] = l]

\* The fast path: a key that is already committed is answered with 200.
Select(r) ==
  /\ pc[r] = "select"
  /\ Goto(r, IF key[r] \in rows THEN "replayed" ELSE "insert")
  /\ UNCHANGED <<rows, lock, tasks, key>>

\* Faulty variant: the conflict is reported while the winner is uncommitted.
InsertNoWait(r) ==
  /\ pc[r] = "insert"
  /\ IF key[r] \in rows \/ lock[key[r]] # NoRequest
     THEN Goto(r, "fallback") /\ UNCHANGED lock
     ELSE Goto(r, "commit") /\ lock' = [lock EXCEPT ![key[r]] = r]
  /\ UNCHANGED <<rows, tasks, key>>

\* Faulty variant: a plain insert without the unique index.
InsertUnchecked(r) ==
  /\ pc[r] = "insert"
  /\ Goto(r, "commit")
  /\ lock' = [lock EXCEPT ![key[r]] = r]
  /\ UNCHANGED <<rows, tasks, key>>

\* INSERT .. ON CONFLICT DO NOTHING RETURNING id. It waits for an open
\* transaction that holds the key, and returns no row if that one committed.
Insert(r) ==
  /\ pc[r] = "insert"
  /\ lock[key[r]] = NoRequest
  /\ IF key[r] \in rows
     THEN Goto(r, "fallback") /\ UNCHANGED lock
     ELSE Goto(r, "commit") /\ lock' = [lock EXCEPT ![key[r]] = r]
  /\ UNCHANGED <<rows, tasks, key>>

\* The rollback and the second SELECT, which raises if it finds no row.
Fallback(r) ==
  /\ pc[r] = "fallback"
  /\ Goto(r, IF key[r] \in rows THEN "replayed" ELSE "missing")
  /\ UNCHANGED <<rows, lock, tasks, key>>

\* Faulty variant: the task is pushed before the commit.
CommitAfterEnqueue(r) ==
  /\ pc[r] = "commit"
  /\ tasks' = [tasks EXCEPT ![key[r]] = @ + 1]
  /\ Goto(r, "enqueue")
  /\ UNCHANGED <<rows, lock, key>>

\* db.commit: the row becomes visible and the key is released.
Commit(r) ==
  /\ pc[r] = "commit"
  /\ rows' = rows \cup {key[r]}
  /\ lock' = [lock EXCEPT ![key[r]] = NoRequest]
  /\ Goto(r, "enqueue")
  /\ UNCHANGED <<tasks, key>>

\* Faulty variant: the handler ends in a state nobody answers from.
EnqueueUnanswered(r) ==
  /\ pc[r] = "enqueue"
  /\ tasks' = [tasks EXCEPT ![key[r]] = @ + 1]
  /\ Goto(r, "enqueued")
  /\ UNCHANGED <<rows, lock, key>>

\* deliver_webhook_task.delay and the 202 answer.
Enqueue(r) ==
  /\ pc[r] = "enqueue"
  /\ tasks' = [tasks EXCEPT ![key[r]] = @ + 1]
  /\ Goto(r, "accepted")
  /\ UNCHANGED <<rows, lock, key>>

\* Faulty variant: the failed transaction is not rolled back.
FailKeepsLock(r) ==
  /\ pc[r] \notin Answered
  /\ Goto(r, "failed")
  /\ UNCHANGED <<rows, lock, tasks, key>>

\* The handler raises (database or broker error) or its process dies: an open
\* transaction is rolled back, what was committed stays.
Fail(r) ==
  /\ pc[r] \notin Answered
  /\ Goto(r, "failed")
  /\ lock' = IF pc[r] = "commit" THEN [lock EXCEPT ![key[r]] = NoRequest] ELSE lock
  /\ UNCHANGED <<rows, tasks, key>>

Step(r) == Select(r) \/ Insert(r) \/ Fallback(r) \/ Commit(r) \/ Enqueue(r)

Next == \E r \in Request : Step(r) \/ Fail(r)

Spec == Init /\ [][Next]_vars

\* A handler that is not blocked by another one's transaction goes on.
FairSpec == Spec /\ \A r \in Request : WF_vars(Step(r))

-----------------------------------------------------------------------------
(* Properties.                                                              *)

\* Two callers sending the same key never produce two deliveries, whatever
\* the interleaving of their handlers and failures.
AtMostOneTask == \A k \in Key : tasks[k] <= 1

\* A worker never looks up an event that is not committed, and an answer that
\* names an event names a committed one.
AnswersAreDurable ==
  /\ \A k \in Key : tasks[k] > 0 => k \in rows
  /\ \A r \in Request : pc[r] \in {"accepted", "replayed"} => key[r] \in rows

\* The loser of the insert race always finds the winner's row.
FallbackFindsWinner == \A r \in Request : pc[r] # "missing"

Store == INSTANCE Intake WITH
  stored   <- rows,
  unqueued <- {key[r] : r \in {s \in Request : pc[s] = "enqueue"}}

\* The handlers together implement one atomic store of events.
ImplementsIntake == Store!Spec

\* No handler waits forever on the key of another one.
EveryRequestAnswered == \A r \in Request : <>(pc[r] \in Answered)

-----------------------------------------------------------------------------
\* events.py: on a replay "the delivery already happened (or is in progress)
\* from the first call".
ReplayMeansDelivery ==
  \A r \in Request : pc[r] = "replayed" =>
    \/ tasks[key[r]] > 0
    \/ \E s \in Request : key[s] = key[r] /\ pc[s] = "enqueue"
=============================================================================
