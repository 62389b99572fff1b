---------------------------- MODULE MCUpdateList ----------------------------
(***************************************************************************)
(* Memory for three updates, which is used again after it is freed: an     *)
(* update that is lost takes its memory with it.                           *)
(***************************************************************************)
EXTENDS UpdateList

CONSTANTS c1, c2, c3

Cells == {c1, c2, c3}
=============================================================================
