------------------------------ MODULE Registry ------------------------------
(***************************************************************************)
(* POST /endpoints, composed with the delivery pipeline.  The handler only  *)
(* flushes the row of the endpoint; the session of get_db commits it when   *)
(* the request ends, and nothing says whether the client has its 201 by     *)
(* then (FastAPI has ended its dependencies before and after the answer,    *)
(* depending on the version).  A client may post events on the answer.      *)
(*                                                                          *)
(* Sources: app/api/v1/endpoints.py, app/core/database.py.                  *)
(***************************************************************************)
EXTENDS Delivery

VARIABLES
  registration,   \* where the request that registers an endpoint stands
  \* History.
  promised,       \* endpoints with a 201 and committed when the event was posted
  hidden          \* endpoints with a 201 and not yet committed then

registry == <<registration, promised, hidden>>

\* "void": answered, and the commit failed.
Registration == {"none", "flushed", "committed", "answered", "registered", "void"}

RegistryTypeOK ==
  /\ registration \in [Endpoint -> Registration]
  /\ promised \in [Event -> SUBSET Endpoint]
  /\ hidden   \in [Event -> SUBSET Endpoint]

RegistryInit ==
  /\ registration = [ep \in Endpoint |-> "none"]
  /\ promised = [e \in Event |-> {}]
  /\ hidden   = [e \in Event |-> {}]

-----------------------------------------------------------------------------
Goes(ep, from, to) ==
  /\ registration[ep] = from
  /\ registration' = [registration EXCEPT ![ep] = to]

\* create_endpoint: add and flush.
Flush(ep) ==
  /\ ep \notin active
  /\ Goes(ep, "none", "flushed")
  /\ UNCHANGED <<vars, promised, hidden>>

\* The client receives the 201.
Respond(ep) ==
  /\ Goes(ep, "flushed", "answered") \/ Goes(ep, "committed", "registered")
  /\ UNCHANGED <<vars, promised, hidden>>

\* get_db commits: dispatchers see the endpoint from here on.
CommitSession(ep) ==
  /\ Goes(ep, "flushed", "committed") \/ Goes(ep, "answered", "registered")
  /\ Register(ep)
  /\ UNCHANGED <<promised, hidden>>

\* get_db rolls back, or its commit fails. A client that has no answer yet gets
\* an error, and the request may be made again.
RollBack(ep) ==
  /\ Goes(ep, "flushed", "none") \/ Goes(ep, "answered", "void")
  /\ UNCHANGED <<vars, promised, hidden>>

Registering(ep) == Flush(ep) \/ Respond(ep) \/ CommitSession(ep) \/ RollBack(ep)

-----------------------------------------------------------------------------
Answered201 == {ep \in Endpoint : registration[ep] \in {"answered", "registered", "void"}}

\* The history: what holds when an event is posted. An endpoint that is
\* deactivated is owed nothing any more.
Remember ==
  LET posted(e) == status[e] = "ABSENT" /\ status'[e] # "ABSENT"
  IN  /\ promised' = [e \in Event |->
           IF posted(e) THEN Answered201 \cap active
           ELSE promised[e] \ (active \ active')]
      /\ hidden' = [e \in Event |->
           IF posted(e) THEN Answered201 \ active ELSE hidden[e]]

\* A step of the pipeline, or of a script that writes with its own session.
PipelineStep == Next /\ Remember /\ UNCHANGED registration

RegistryNext == PipelineStep \/ \E ep \in Endpoint : Registering(ep)

RegistrySpec == Init /\ RegistryInit /\ [][RegistryNext]_<<vars, registry>>

-----------------------------------------------------------------------------
\* The dispatcher of the event has not read the endpoints yet.
Undispatched(e) ==
  \/ unqueued[e] > 0
  \/ queue[Dispatcher(e)] > 0
  \/ \E w \in Worker : pc[w] = "dispatch" /\ task[w].ev = e

\* What a client may rely on: an endpoint that was registered, answered and
\* committed, when an event was posted is read by its dispatcher, whatever is
\* registered, retried or given up meanwhile; EveryTargetAnswered of Delivery
\* goes on from there. Only hidden endpoints may be missed silently.
RegisteredIsRead ==
  \A e \in Event : \A ep \in promised[e] :
    Undispatched(e) \/ ep \in owed[e] \/ ep \in dropped[e] \/ "api" \in lost[e]
=============================================================================
