---------------------------- MODULE MCRouteTable ----------------------------
(***************************************************************************)
(* Instances of RouteTable for TLC: identifiers of 3 bits, ME = 4.         *)
(***************************************************************************)
EXTENDS RouteTable

Neighbours == {2, 6}

\* A path that starts here, one that passes through to the identifier 0, which
\* the table takes for no endpoint, and one that starts and ends here.
Paths == {[pid |-> 1, src |-> 4, dst |-> 2], [pid |-> 2, src |-> 6, dst |-> 0],
          [pid |-> 3, src |-> 4, dst |-> 4]}
=============================================================================
