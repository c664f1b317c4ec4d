------------------------------- MODULE MCHub -------------------------------
(* A small instance of Hub: which action ids there are and where they go.  *)
EXTENDS Hub, TLC

CONSTANT n1

OneTarget == [a \in ActionIDs |-> n1]
Symmetry == Permutations(Conns) \cup Permutations(Calls) \cup Permutations(ActionIDs)
============================================================================
