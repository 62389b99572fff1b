------------------------------ MODULE MCSockets -----------------------------
(***************************************************************************)
(* Two sockets of one node, both connected to the same other node or not   *)
(* at all, and two threads that compete for them.                          *)
(***************************************************************************)
EXTENDS Sockets

CONSTANTS s1, s2, t1, t2, x

Socks == {s1, s2}
Threads == {t1, t2}
Addrs == {x}
=============================================================================
