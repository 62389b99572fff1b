------------------------------- MODULE MCVset -------------------------------
(***************************************************************************)
(* Instances of Vset for TLC, with the permutation the heap sort of        *)
(* lib/sort.c (Linux 2.6) applies when the comparison orders addresses:    *)
(* the right child always wins and is always swapped with its parent.      *)
(***************************************************************************)
EXTENDS Vset, TLC

CONSTANTS c1, c2

MCCPU == {c1, c2}
Symmetry == Permutations(MCCPU)

\* Positions are 0 .. n - 1 here, as in lib/sort.c.
Swap(f, i, j) == [f EXCEPT ![i] = f[j], ![j] = f[i]]

\* Sift the element at r down a heap of n elements.
RECURSIVE Sift(_, _, _)
Sift(f, r, n) ==
    LET left == 2 * r + 1
        c == IF left + 1 < n THEN left + 1 ELSE left
    IN  IF left >= n THEN f ELSE Sift(Swap(f, r, c), c, n)

RECURSIVE Heapify(_, _, _)
Heapify(f, r, n) == IF r < 0 THEN f ELSE Heapify(Sift(f, r, n), r - 1, n)

RECURSIVE Extract(_, _)
Extract(f, i) == IF i <= 0 THEN f ELSE Extract(Sift(Swap(f, 0, i), 0, i), i - 1)

KernelSort(n) ==
    LET f == Extract(Heapify([i \in 0 .. n - 1 |-> i], n \div 2 - 1, n), n - 1)
    IN  [i \in 1 .. n |-> f[i - 1] + 1]

KernelSortPos == [n \in 1 .. MaxSize |-> KernelSort(n)]

\* Identifiers of 4 bits, ME = 12: on both sides, two at the same distance
\* (1 past the wrap of the ring, and 7), and ME itself, which a join request
\* that comes back to its sender offers.
Peers == {0, 1, 7, 10, 13}
PeersAndMe == Peers \cup {ME}
OneCPU == {c1}
=============================================================================
