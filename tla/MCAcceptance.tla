---------------------------- MODULE MCAcceptance ----------------------------
(* A small instance of Acceptance for TLC.                                  *)
EXTENDS Acceptance, TLC

CONSTANTS e1, e2, ep1, ep2, w1

Run(name, first, to, left, faults) ==
  [name |-> name, first |-> first, last |-> to, left |-> left, faults |-> faults]

\* Every suite of the phases, alone or after the one before, and what differs
\* from them in the others; with an endpoint left where that matters.
MCParts ==
  {Run("verify_phase3", 1, 1, left, 1)   : left \in {"receiver", "flaky"}} \cup
  {Run("verify_phase4", s, s, "none", 1) : s \in 1 .. 2} \cup
  {Run("verify_phase5", 1, 2, left, 0)   : left \in {"receiver", "flaky"}} \cup
  {Run("verify_phase6", 1, 2, "none", 1), Run("verify_phase7", 1, 1, "failing", 1),
   Run("verify_phase8", 1, 1, "none", 0), Run("verify_master", 1, 1, "none", 1),
   Run("verify_master", 2, 3, "none", 0), Run("verify_master", 5, 6, "none", 0),
   Run("load_test", 1, 1, "receiver", 0), Run("load_test", 1, 1, "none", 0),
   Run("benchmark_async", 1, 1, "none", 0)}

Symmetry == Permutations(Worker) \cup Permutations(Endpoint) \cup Permutations(Event)
=============================================================================
