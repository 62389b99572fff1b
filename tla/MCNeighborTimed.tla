--------------------------- MODULE MCNeighborTimed --------------------------
(***************************************************************************)
(* Instances of NeighborTimed for TLC.                                     *)
(***************************************************************************)
EXTENDS NeighborTimed

CONSTANTS a, b, c

MCNode == {a, b}
BothWays == {<<a, b>>, <<b, a>>}
\* c's hellos reach b between those of a; c hears nobody.
MCNode3 == {a, b, c}
BothWaysAndThird == BothWays \cup {<<c, b>>}
\* What is lost of b by the radio is lost of a by pset_update_handler at b.
BToA == {<<b, a>>}
OneWay == {<<a, b>>}
NobodyDies == {}
AMayDie == {a}
=============================================================================
