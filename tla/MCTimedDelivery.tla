-------------------------- MODULE MCTimedDelivery --------------------------
(* A small instance of TimedDelivery for TLC.                               *)
EXTENDS TimedDelivery, TLC

CONSTANTS a, c1, c2

MCTarget == [c \in Caller |-> a]

MCSkew == {-1, 0, 1}

Symmetry == Permutations(Caller)
=============================================================================
