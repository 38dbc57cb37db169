---------------------------- MODULE MCDlqListing ----------------------------
(* A small instance of DlqListing for TLC.                                  *)
EXTENDS DlqListing, TLC

CONSTANTS e1, e2, ep1, w1

Symmetry == Permutations(Worker) \cup Permutations(Endpoint) \cup Permutations(Event)
=============================================================================
