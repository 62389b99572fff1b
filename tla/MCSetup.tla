------------------------------- MODULE MCSetup -------------------------------
(***************************************************************************)
(* Three nodes in a row, 1 - 2 - 3: node 3 became active by itself, 2 and  *)
(* 1 join one after the other, and paths between 3 and 1 lead through 2;   *)
(* or node 2 did, 1 and 3 join in any order and find each other.           *)
(***************************************************************************)
EXTENDS Setup

Chain == {1, 2, 3}
ChainAdjacent == [n \in Chain |-> {m \in Chain : m - n \in {-1, 1}}]
SeedEnd == {3}
SeedMiddle == {2}

\* A row is a tree: the run checks a network that NoLoopInTrees is about.
ChainHops == [n \in Chain |-> [m \in Chain |-> IF n < m THEN m - n ELSE n - m]]
ASSUME ChainIsTree == TreeHops(ChainHops)

\* One path for every pair, a node and itself included: a node that is offered
\* itself, or whose request comes back, answers itself.
ChainPaths == {[pid |-> 3 * n + d, src |-> n, dst |-> d] : n, d \in Chain}

JunkId == {1}
=============================================================================
