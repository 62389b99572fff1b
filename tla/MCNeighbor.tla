----------------------------- MODULE MCNeighbor -----------------------------
(***************************************************************************)
(* Instances of Neighbor for TLC.                                          *)
(***************************************************************************)
EXTENDS Neighbor, TLC

CONSTANTS a, b

MCNode == {a, b}
BothWays == {<<a, b>>, <<b, a>>}
Symmetry == Permutations(MCNode)
=============================================================================
