-------------------------------- MODULE Vset --------------------------------
(***************************************************************************)
(* The virtual neighbour set of one node: vset_add, vset_bump,             *)
(* vset_should_add, vset_remove (vrr_data.c) and the check and act of      *)
(* vrr_add (vrr_core.c) that call them.                                    *)
(*                                                                         *)
(* vrr_vset_lock makes vset_add and vset_remove one step each; so is       *)
(* vset_get_all, which only reads.  vset_should_add sizes its arrays before *)
(* it takes the lock and sorts them after it released it, vrr_add calls    *)
(* vset_add in another critical section, and packets are received on       *)
(* several processors at once.  The setup_reqs vrr_add sends for the nodes *)
(* of vset' change nothing here.                                           *)
(*                                                                         *)
(* cmp_diff compares the addresses of the array elements and not the       *)
(* elements, so sort() applies a permutation that depends on the length of *)
(* the array only.  The permutation is a parameter: sort() is code of the  *)
(* kernel.                                                                 *)
(***************************************************************************)
EXTENDS Ring, Sequences, FiniteSets, SequencesExt

CONSTANTS
    ME,              \* the identifier of this node
    VRR_VSET_SIZE,   \* nominal size of the virtual neighbour set
    Peer,            \* identifiers that occur in received packets
    CPU,             \* processors that receive packets
    SortPos,         \* SortPos[n][i]: what sort() of n elements moves to i
    MaxSize          \* bound: value of the counter vset_size

ASSUME VsetAssumption ==
    /\ ME \in Id
    /\ VRR_VSET_SIZE \in Nat /\ VRR_VSET_SIZE >= 2
    /\ Peer \subseteq Id
    /\ MaxSize \in Nat

\* sort() permutes the array.
ASSUME SortAssumption ==
    \A n \in 1 .. MaxSize :
        /\ SortPos[n] \in [1 .. n -> 1 .. n]
        /\ \A i, j \in 1 .. n : SortPos[n][i] = SortPos[n][j] => i = j

NoNode == -1

VARIABLES
    vset,       \* the list, the newest entry first
    vset_size,  \* the counter that sizes every array of vset entries
    asking,     \* asking[c]: the call of vset_should_add in progress on c
    adding,     \* adding[c]: node vrr_add on c found it should add
    bump_ret    \* result of the last vset_bump: 1 bumped, 0 not full, -1 failed

vars == <<vset, vset_size, asking, adding, bump_ret>>

\* A call for node whose arrays have size elements; answer is "none" until the
\* list is copied.
Call == [node : Peer, size : Nat, answer : {"none", "yes", "no"}]

NoCall == <<>>

TypeOK ==
    /\ vset \in Seq(Peer)
    /\ vset_size \in 0 .. MaxSize
    /\ asking \in [CPU -> Call \cup {NoCall}]
    /\ adding \in [CPU -> Peer \cup {NoNode}]
    /\ bump_ret \in {-1, 0, 1}
-----------------------------------------------------------------------------
Members == {vset[i] : i \in 1 .. Len(vset)}

\* The distances of insert_vset_node and vset_should_add.
diff_left(node) ==
    IF node > ME THEN UINT_MAX - get_diff(node, ME) ELSE get_diff(node, ME)

diff_right(node) ==
    IF node < ME THEN UINT_MAX - get_diff(node, ME) ELSE get_diff(node, ME)

radius == VRR_VSET_SIZE \div 2

\* What the arrays of a full vset may answer for node.  They have vset_size
\* elements; those beyond the list are uninitialised and compare either way.
Compare(node) ==
    LET Slots == {SortPos[vset_size][i] : i \in 1 .. radius}
        Garbage(k) == k > Len(vset)
        Farther(k) == \/ diff_left(vset[k]) > diff_left(node)
                      \/ diff_right(vset[k]) > diff_right(node)
    IN  {answer \in {"yes", "no"} :
            IF answer = "yes" THEN \E k \in Slots : Garbage(k) \/ Farther(k)
                              ELSE \A k \in Slots : Garbage(k) \/ ~Farther(k)}

\* Entries i and k of list l have the same two distances.
Alike(l, i, k) ==
    /\ diff_left(l[i]) = diff_left(l[k])
    /\ diff_right(l[i]) = diff_right(l[k])

\* The entry found with the distances of entry k: the first of its like.
FirstAlike(l, k) ==
    CHOOSE i \in 1 .. Len(l) :
        Alike(l, i, k) /\ \A j \in 1 .. i - 1 : ~Alike(l, j, k)

\* Faulty: one node more than VRR_VSET_SIZE is kept.
vset_bump_lax(l, size) ==
    LET k == SortPos[size][radius + 1]
    IN  IF size <= VRR_VSET_SIZE + 1 THEN {0}
        ELSE IF k <= Len(l) THEN {FirstAlike(l, k)}
        ELSE {0} \cup {FirstAlike(l, i) : i \in 1 .. Len(l)}

\* Faulty: the last element of the arrays is used.
vset_bump_last(l, size) ==
    LET k == SortPos[size][size]
    IN  IF size <= VRR_VSET_SIZE THEN {0}
        ELSE IF k <= Len(l) THEN {FirstAlike(l, k)}
        ELSE {0} \cup {FirstAlike(l, i) : i \in 1 .. Len(l)}

\* The positions vset_bump may remove from list l when the counter is size; 0
\* for none.  An uninitialised array element matches any entry or none.
vset_bump(l, size) ==
    LET k == SortPos[size][radius + 1]
    IN  IF size <= VRR_VSET_SIZE THEN {0}
        ELSE IF k <= Len(l) THEN {FirstAlike(l, k)}
        ELSE {0} \cup {FirstAlike(l, i) : i \in 1 .. Len(l)}

Init ==
    /\ vset = <<>>
    /\ vset_size = 0
    /\ asking = [c \in CPU |-> NoCall]
    /\ adding = [c \in CPU |-> NoNode]
    /\ bump_ret = 0

\* vrr_add on processor c calls vset_should_add for src: the arrays are sized.
vrr_add(c, src) ==
    /\ asking[c] = NoCall /\ adding[c] = NoNode
    /\ asking' = [asking EXCEPT ![c] =
                    [node |-> src, size |-> vset_size, answer |-> "none"]]
    /\ UNCHANGED <<vset, vset_size, adding, bump_ret>>

\* The critical section of vset_should_add: a member is not added, a node that
\* finds the set not full is, otherwise the list is copied into the arrays.
vset_should_add(c) ==
    /\ asking[c] # NoCall /\ asking[c].answer = "none"
    /\ LET node == asking[c].node IN
       \/ /\ node \in Members
          /\ asking' = [asking EXCEPT ![c] = NoCall]
          /\ UNCHANGED adding
       \/ /\ node \notin Members /\ vset_size < VRR_VSET_SIZE
          /\ asking' = [asking EXCEPT ![c] = NoCall]
          /\ adding' = [adding EXCEPT ![c] = node]
       \/ /\ node \notin Members /\ vset_size >= VRR_VSET_SIZE
          /\ \E answer \in Compare(node) :
                asking' = [asking EXCEPT ![c].answer = answer]
          /\ UNCHANGED adding
    /\ UNCHANGED <<vset, vset_size, bump_ret>>

\* The rest, without the lock.  The counter may have grown since the arrays
\* were sized: then elements outside the arrays are written or compared, and
\* the result is arbitrary.
vset_should_add_sort(c) ==
    /\ asking[c] # NoCall /\ asking[c].answer # "none"
    /\ \E answer \in {"yes", "no"} :
          /\ asking[c].size = vset_size => answer = asking[c].answer
          /\ adding' = [adding EXCEPT ![c] =
                          IF answer = "yes" THEN asking[c].node ELSE NoNode]
    /\ asking' = [asking EXCEPT ![c] = NoCall]
    /\ UNCHANGED <<vset, vset_size, bump_ret>>

\* Faulty: relies on the membership test of vset_should_add.
vset_add_unchecked(c) ==
    /\ adding[c] # NoNode
    /\ adding' = [adding EXCEPT ![c] = NoNode]
    /\ vset_size < MaxSize
    /\ vset_size' = vset_size + 1
    /\ vset' = <<adding[c]>> \o vset
    /\ UNCHANGED <<asking, bump_ret>>

\* insert_vset_node and vset_bump, unless the node is already there.
vset_add(c) ==
    /\ adding[c] # NoNode
    /\ adding' = [adding EXCEPT ![c] = NoNode]
    /\ IF adding[c] \in Members
       THEN UNCHANGED <<vset, vset_size, bump_ret>>
       ELSE LET l == <<adding[c]>> \o vset IN
            /\ vset_size < MaxSize
            /\ vset_size' = vset_size + 1
            /\ \E i \in vset_bump(l, vset_size + 1) :
                 IF i = 0
                 THEN /\ vset' = l
                      /\ bump_ret' = IF vset_size + 1 <= VRR_VSET_SIZE
                                     THEN 0 ELSE -1
                 ELSE /\ vset' = RemoveAt(l, i)
                      /\ bump_ret' = 1
    /\ UNCHANGED asking

\* Faulty: the counter is decremented although the node was not found.
vset_remove_decrements(node) ==
    /\ vset_size' = vset_size - 1
    /\ UNCHANGED <<vset, asking, adding, bump_ret>>

\* The counter keeps its value.
vset_remove(node) ==
    /\ \E i \in 1 .. Len(vset) :
          vset[i] = node /\ vset' = RemoveAt(vset, i)
    /\ UNCHANGED <<vset_size, asking, adding, bump_ret>>

Next ==
    \/ \E c \in CPU : \/ \E src \in Peer : vrr_add(c, src)
                      \/ vset_should_add(c)
                      \/ vset_should_add_sort(c)
                      \/ vset_add(c)
    \/ \E node \in Peer : vset_remove(node)

Spec == Init /\ [][Next]_vars
-----------------------------------------------------------------------------
\* The list never holds a node twice, although vrr_add checks membership in
\* one critical section and inserts in another.
NoDuplicates ==
    \A i, j \in 1 .. Len(vset) : vset[i] = vset[j] => i = j

\* vset_bump and vset_get_all allocate arrays of vset_size elements and fill
\* them from the list in the same critical section: the list is never longer,
\* so they never write past the end.
ListFitsCounter == Len(vset) <= vset_size

\* As long as nothing left the list unnoticed by the counter, inserting one
\* node too many bumps one node, whatever sort() does with the addresses.
ExactBumpSucceeds ==
    [][vset_size' = vset_size + 1 /\ Len(vset) = vset_size
         => bump_ret' # -1 /\ Len(vset') <= VRR_VSET_SIZE]_vars

\* The list stays within VRR_VSET_SIZE for as long as the array element that
\* sort() leaves at index radius came from one of the first VRR_VSET_SIZE + 1
\* entries, although the counter keeps growing and nodes leave and come back.
\* (In Linux 2.6 that ends when the counter reaches 22.)
VsetBounded ==
    (\A n \in VRR_VSET_SIZE + 1 .. vset_size :
        SortPos[n][radius + 1] <= VRR_VSET_SIZE + 1)
            => Len(vset) <= VRR_VSET_SIZE

\* How far x lies up and down the ring of identifiers from this node.
Up(x) == (x - ME) % (UINT_MAX + 1)
Down(x) == (ME - x) % (UINT_MAX + 1)

\* id is one of the radius nodes that follow or precede ME on the ring of the
\* identifiers of vset, id and ME.
Closest(id) ==
    \/ Cardinality({y \in Members : Up(y) < Up(id)}) < radius
    \/ Cardinality({y \in Members : Down(y) < Down(id)}) < radius

\* vset_should_add answers as the protocol defines ShouldAdd, as long as it
\* reads no uninitialised element.
ShouldAddClosest ==
    Len(vset) = vset_size =>
        \A id \in Peer \ (Members \cup {ME}) :
            IF vset_size < VRR_VSET_SIZE THEN Closest(id)
            ELSE Compare(id) = {IF Closest(id) THEN "yes" ELSE "no"}
=============================================================================
