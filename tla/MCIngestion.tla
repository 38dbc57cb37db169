---------------------------- MODULE MCIngestion ----------------------------
(* A small instance of Ingestion for TLC.                                   *)
EXTENDS Ingestion, TLC

CONSTANTS k1, k2, r1, r2, r3, r4

Symmetry == Permutations(Request) \cup Permutations(Key)
=============================================================================
