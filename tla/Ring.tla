-------------------------------- MODULE Ring --------------------------------
(***************************************************************************)
(* The circular space of node identifiers, u32 in the code.                *)
(***************************************************************************)
EXTENDS Integers

CONSTANT UINT_MAX   \* largest identifier, 2^32 - 1 in the code

ASSUME RingAssumption == UINT_MAX \in Nat \ {0}

Id == 0 .. UINT_MAX

\* Unsigned arithmetic: the shorter way round from x to y.
get_diff(x, y) ==
    LET i == (x - y) % (UINT_MAX + 1)
        j == (y - x) % (UINT_MAX + 1)
    IN  IF i < j THEN i ELSE j
=============================================================================
