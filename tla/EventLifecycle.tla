--------------------------- MODULE EventLifecycle ---------------------------
(***************************************************************************)
(* What the engine promises of an event, without queues, workers or         *)
(* attempts: work on it is open or not, its status is settled by open work   *)
(* only, it is reopened by a replay or a redelivery, and work on a PENDING   *)
(* event ends by settling it or by giving it up on record.                  *)
(*                                                                          *)
(* The statuses and the replay rule are those of app/models/event.py and    *)
(* app/api/v1/dlq.py. Delivery implements this specification.               *)
(***************************************************************************)
EXTENDS Naturals

CONSTANT Event

VARIABLES
  status,   \* the status of the event, "ABSENT" before it is accepted
  open,     \* the events somebody has work to do for
  lost,     \* the events some work of which was given up
  asked     \* replays that were found eligible and not carried out yet

vars == <<status, open, lost, asked>>

Final      == {"DELIVERED", "FAILED", "DEAD_LETTER"}
Replayable == {"FAILED", "DEAD_LETTER"}

Init ==
  /\ status = [e \in Event |-> "ABSENT"]
  /\ open   = {}
  /\ lost   = {}
  /\ asked  = [e \in Event |-> 0]

Accept(e) ==
  /\ status[e] = "ABSENT"
  /\ status' = [status EXCEPT ![e] = "PENDING"]
  /\ open'   = open \cup {e}
  /\ UNCHANGED <<lost, asked>>

\* Open work gives the event a final status, and may have been the last.
Settle(e) ==
  /\ e \in open
  /\ \E s \in Final : status' = [status EXCEPT ![e] = s]
  /\ open' \in {open, open \ {e}}
  /\ UNCHANGED <<lost, asked>>

\* Open work is given up, and may have been the last.
GiveUp(e) ==
  /\ e \in open
  /\ lost' = lost \cup {e}
  /\ open' \in {open, open \ {e}}
  /\ UNCHANGED <<status, asked>>

\* The broker delivers a message again whose work was done already.
Redeliver(e) ==
  /\ status[e] # "ABSENT"
  /\ open' = open \cup {e}
  /\ UNCHANGED <<status, lost, asked>>

\* A replay is requested of an event that failed.
AskReplay(e) ==
  /\ status[e] \in Replayable
  /\ asked' = [asked EXCEPT ![e] = @ + 1]
  /\ UNCHANGED <<status, open, lost>>

\* It is carried out, whatever the status is by then.
Replay(e) ==
  /\ asked[e] > 0
  /\ asked'  = [asked EXCEPT ![e] = @ - 1]
  /\ status' = [status EXCEPT ![e] = "PENDING"]
  /\ open'   = open \cup {e}
  /\ UNCHANGED lost

Next == \E e \in Event :
  \/ Accept(e) \/ Settle(e) \/ GiveUp(e) \/ Redeliver(e)
  \/ AskReplay(e) \/ Replay(e)

Spec == Init /\ [][Next]_vars
=============================================================================
