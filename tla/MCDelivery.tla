----------------------------- MODULE MCDelivery -----------------------------
(* Small instances of Delivery for TLC.                                     *)
EXTENDS Delivery, TLC

CONSTANTS e1, e2, ep1, ep2, w1, w2

Symmetry == Permutations(Worker) \cup Permutations(Endpoint) \cup Permutations(Event)
=============================================================================
