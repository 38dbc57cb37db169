------------------------------- MODULE Intake -------------------------------
(***************************************************************************)
(* What the ingestion route promises of an idempotency key: its event is    *)
(* stored once; from then on one dispatcher task is owed for it, and is      *)
(* pushed once or given up. Ingestion implements this specification; its     *)
(* three actions are Ingest, Enqueue and ApiFails of Delivery.              *)
(***************************************************************************)
EXTENDS Naturals

CONSTANT Key

VARIABLES
  stored,    \* keys whose event is committed
  unqueued,  \* keys whose task is still to be pushed
  tasks      \* number of tasks pushed for a key

vars == <<stored, unqueued, tasks>>

Init ==
  /\ stored   = {}
  /\ unqueued = {}
  /\ tasks    = [k \in Key |-> 0]

Ingest(k) ==
  /\ k \notin stored
  /\ stored'   = stored \cup {k}
  /\ unqueued' = unqueued \cup {k}
  /\ UNCHANGED tasks

Enqueue(k) ==
  /\ k \in unqueued
  /\ unqueued' = unqueued \ {k}
  /\ tasks'    = [tasks EXCEPT ![k] = @ + 1]
  /\ UNCHANGED stored

ApiFails(k) ==
  /\ k \in unqueued
  /\ unqueued' = unqueued \ {k}
  /\ UNCHANGED <<stored, tasks>>

Next == \E k \in Key : Ingest(k) \/ Enqueue(k) \/ ApiFails(k)

Spec == Init /\ [][Next]_vars
=============================================================================
