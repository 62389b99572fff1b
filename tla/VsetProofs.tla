----------------------------- MODULE VsetProofs -----------------------------
(***************************************************************************)
(* Proofs about Vset, for identifiers of any width, any set size and any   *)
(* permutation sort() may apply.                                           *)
(***************************************************************************)
EXTENDS Vset, SequenceTheorems, WellFoundedInduction, TLAPS

\* Every set of naturals that is not empty has a least element.
LEMMA Least ==
    ASSUME NEW T \in SUBSET Nat, T # {}
    PROVE  \E x \in T : \A y \in T : ~(y < x)
<1>1. IsWellFoundedOn(OpToRel(<, Nat), Nat)
  BY NatLessThanWellFounded
<1>2. PICK x \in T : \A y \in T : ~(<<y, x>> \in OpToRel(<, Nat))
  BY <1>1, WFMin
<1>3. \A y \in T : y < x => <<y, x>> \in OpToRel(<, Nat)
  BY DEF OpToRel
<1> QED
  BY <1>2, <1>3

\* list_add at the head.
LEMMA ListAdd ==
    ASSUME NEW S, NEW l \in Seq(S), NEW x \in S
    PROVE  /\ (<<x>> \o l) \in Seq(S)
           /\ Len(<<x>> \o l) = Len(l) + 1
           /\ (<<x>> \o l)[1] = x
           /\ \A j \in 1 .. Len(l) : (<<x>> \o l)[j + 1] = l[j]
OBVIOUS

\* list_del removes one entry and keeps the others in order.
LEMMA RemoveAtProperties ==
    ASSUME NEW S, NEW l \in Seq(S), NEW i \in 1 .. Len(l)
    PROVE  /\ RemoveAt(l, i) \in Seq(S)
           /\ Len(RemoveAt(l, i)) = Len(l) - 1
           /\ \A j \in 1 .. Len(l) - 1 :
                 RemoveAt(l, i)[j] = IF j < i THEN l[j] ELSE l[j + 1]
<1> DEFINE a == SubSeq(l, 1, i - 1)
           b == SubSeq(l, i + 1, Len(l))
<1>1. /\ a \in Seq(S) /\ Len(a) = i - 1
      /\ \A j \in 1 .. i - 1 : a[j] = l[j]
  OBVIOUS
<1>2. /\ b \in Seq(S) /\ Len(b) = Len(l) - i
      /\ \A j \in 1 .. Len(l) - i : b[j] = l[i + j]
  OBVIOUS
<1>3. RemoveAt(l, i) = a \o b
  BY DEF RemoveAt
<1> HIDE DEF a, b
<1>4. /\ a \o b \in Seq(S) /\ Len(a \o b) = Len(l) - 1
      /\ \A j \in 1 .. i - 1 : (a \o b)[j] = a[j]
      /\ \A j \in i .. Len(l) - 1 : (a \o b)[j] = b[j - i + 1]
  <2>1. /\ a \o b \in Seq(S) /\ Len(a \o b) = Len(a) + Len(b)
        /\ \A j \in 1 .. Len(a) + Len(b) :
              (a \o b)[j] = IF j <= Len(a) THEN a[j] ELSE b[j - Len(a)]
    BY <1>1, <1>2, ConcatProperties
  <2>2. Len(a) + Len(b) = Len(l) - 1
    BY <1>1, <1>2
  <2>3. \A j \in i .. Len(l) - 1 : j - Len(a) = j - i + 1 /\ ~(j <= Len(a))
    BY <1>1
  <2>4. \A j \in 1 .. i - 1 : j <= Len(a) /\ j \in 1 .. Len(a) + Len(b)
    BY <1>1, <1>2
  <2>5. \A j \in i .. Len(l) - 1 : j \in 1 .. Len(a) + Len(b)
    BY <1>1, <1>2
  <2> QED
    BY <2>1, <2>2, <2>3, <2>4, <2>5
<1>5. ASSUME NEW j \in 1 .. Len(l) - 1
      PROVE  (a \o b)[j] = IF j < i THEN l[j] ELSE l[j + 1]
  <2>1. CASE j < i
    BY <1>1, <1>4, <2>1
  <2>2. CASE ~(j < i)
    <3>1. j \in i .. Len(l) - 1 /\ j - i + 1 \in 1 .. Len(l) - i
      BY <2>2
    <3>2. b[j - i + 1] = l[i + (j - i + 1)] /\ i + (j - i + 1) = j + 1
      BY <1>2, <3>1
    <3> QED
      BY <1>4, <2>2, <3>1, <3>2
  <2> QED
    BY <2>1, <2>2
<1> QED
  BY <1>3, <1>4, <1>5

\* vset_bump finds an entry whenever the array element it compares with was
\* filled: the entry it came from matches, so there is a first match.
LEMMA FirstAlikeFound ==
    ASSUME NEW l, Len(l) \in Nat, NEW k \in 1 .. Len(l)
    PROVE  FirstAlike(l, k) \in 1 .. Len(l)
<1> DEFINE T == {i \in 1 .. Len(l) : Alike(l, i, k)}
<1>1. k \in T
  BY DEF Alike
<1>2. PICK i \in T : \A j \in T : ~(j < i)
  <2>1. T \in SUBSET Nat /\ T # {}
    BY <1>1
  <2> HIDE DEF T
  <2> QED
    BY <2>1, Least
<1>3. Alike(l, i, k) /\ i \in 1 .. Len(l) /\ \A j \in 1 .. i - 1 : ~Alike(l, j, k)
  BY <1>2
<1> QED
  BY <1>3 DEF FirstAlike
-----------------------------------------------------------------------------
Distinct(l) == \A i, j \in 1 .. Len(l) : l[i] = l[j] => i = j

\* Once the counter has passed VRR_VSET_SIZE it is ahead of the list for good.
GapInv == vset_size > VRR_VSET_SIZE => Len(vset) < vset_size

VsetInv == TypeOK /\ NoDuplicates /\ ListFitsCounter /\ GapInv /\ VsetBounded

\* The sort leaves at index radius an element of the array.
LEMMA SlotInArray ==
    ASSUME NEW size \in 1 .. MaxSize, size > VRR_VSET_SIZE
    PROVE  SortPos[size][radius + 1] \in 1 .. size
<1>1. VRR_VSET_SIZE \in Nat /\ VRR_VSET_SIZE >= 2 /\ MaxSize \in Nat
  BY VsetAssumption
<1>2. radius + 1 \in 1 .. size
  BY <1>1 DEF radius
<1>3. SortPos[size] \in [1 .. size -> 1 .. size]
  BY SortAssumption
<1> QED
  BY <1>2, <1>3

\* The two ways the list changes.
LEMMA DistinctKept ==
    ASSUME NEW l \in Seq(Peer), Distinct(l)
    PROVE  /\ \A i \in 1 .. Len(l) : Distinct(RemoveAt(l, i))
           /\ \A x \in Peer : (\A i \in 1 .. Len(l) : l[i] # x)
                                => Distinct(<<x>> \o l)
<1>1. ASSUME NEW i \in 1 .. Len(l) PROVE Distinct(RemoveAt(l, i))
  <2>1. /\ Len(RemoveAt(l, i)) = Len(l) - 1
        /\ \A j \in 1 .. Len(l) - 1 :
              RemoveAt(l, i)[j] = IF j < i THEN l[j] ELSE l[j + 1]
    BY RemoveAtProperties
  <2> QED
    BY <2>1 DEF Distinct
<1>2. ASSUME NEW x \in Peer, \A i \in 1 .. Len(l) : l[i] # x
      PROVE  Distinct(<<x>> \o l)
  <2> DEFINE m == <<x>> \o l
  <2>1. /\ Len(m) = Len(l) + 1 /\ m[1] = x
        /\ \A j \in 1 .. Len(l) : m[j + 1] = l[j]
    BY ListAdd
  <2>2. \A j \in 2 .. Len(l) + 1 : j - 1 \in 1 .. Len(l) /\ m[j] = l[j - 1]
    <3> HIDE DEF m
    <3> TAKE j \in 2 .. Len(l) + 1
    <3>1. j - 1 \in 1 .. Len(l) /\ (j - 1) + 1 = j
      OBVIOUS
    <3> QED
      BY <2>1, <3>1
  <2> HIDE DEF m
  <2>3. Distinct(m)
    <3> SUFFICES ASSUME NEW i \in 1 .. Len(m), NEW j \in 1 .. Len(m),
                        m[i] = m[j]
                 PROVE  i = j
      BY DEF Distinct
    <3>1. CASE i = 1 \/ j = 1
      BY <1>2, <2>1, <2>2, <3>1
    <3>2. CASE i # 1 /\ j # 1
      BY <2>1, <2>2, <3>2 DEF Distinct
    <3> QED
      BY <3>1, <3>2
  <2> QED
    BY <2>3 DEF m
<1> QED
  BY <1>1, <1>2

\* What vset_add does to a node that is not in the list: it is put in front,
\* then at most one entry leaves, and exactly one when the counter passed
\* VRR_VSET_SIZE and the array element compared with was filled.
LEMMA AddEffect ==
    ASSUME TypeOK, NEW c \in CPU, vset_add(c), adding[c] \notin Members,
           NEW l, l = <<adding[c]>> \o vset
    PROVE  /\ adding[c] \in Peer
           /\ vset_size < MaxSize /\ vset_size' = vset_size + 1
           /\ \/ vset' = l /\ bump_ret' \in {-1, 0}
              \/ \E i \in 1 .. Len(l) : vset' = RemoveAt(l, i) /\ bump_ret' = 1
           /\ (vset_size + 1 > VRR_VSET_SIZE
                 /\ SortPos[vset_size + 1][radius + 1] <= Len(l))
               => bump_ret' = 1
           /\ vset_size + 1 <= VRR_VSET_SIZE => bump_ret' = 0
<1> DEFINE k == SortPos[vset_size + 1][radius + 1]
<1>0. VRR_VSET_SIZE \in Nat /\ MaxSize \in Nat /\ NoNode \notin Peer
  BY VsetAssumption DEF NoNode, Id
<1>1. adding[c] \in Peer /\ adding[c] # NoNode
  BY DEF vset_add, TypeOK
<1>2. /\ vset_size < MaxSize /\ vset_size' = vset_size + 1
      /\ \E i \in vset_bump(l, vset_size + 1) :
            IF i = 0
            THEN /\ vset' = l
                 /\ bump_ret' = IF vset_size + 1 <= VRR_VSET_SIZE THEN 0 ELSE -1
            ELSE vset' = RemoveAt(l, i) /\ bump_ret' = 1
  BY DEF vset_add
<1>3. l \in Seq(Peer) /\ Len(l) = Len(vset) + 1 /\ Len(vset) \in Nat
  BY <1>1, ListAdd DEF TypeOK
<1>4. vset_size \in Nat
  BY <1>0 DEF TypeOK
<1>5. PICK i \in vset_bump(l, vset_size + 1) :
            IF i = 0
            THEN /\ vset' = l
                 /\ bump_ret' = IF vset_size + 1 <= VRR_VSET_SIZE THEN 0 ELSE -1
            ELSE vset' = RemoveAt(l, i) /\ bump_ret' = 1
  BY <1>2
<1>6. CASE vset_size + 1 <= VRR_VSET_SIZE
  <2>1. i = 0
    BY <1>5, <1>6 DEF vset_bump
  <2> QED
    BY <1>0, <1>1, <1>2, <1>4, <1>5, <1>6, <2>1
<1>7. CASE vset_size + 1 > VRR_VSET_SIZE
  <2>0. ~(vset_size + 1 <= VRR_VSET_SIZE)
    BY <1>0, <1>4, <1>7
  <2>1. k \in 1 .. vset_size + 1
    <3>1. vset_size + 1 \in 1 .. MaxSize
      BY <1>0, <1>2, <1>4
    <3> QED
      BY <1>7, <3>1, SlotInArray
  <2>2. \A q \in 1 .. Len(l) : FirstAlike(l, q) \in 1 .. Len(l)
    <3>1. Len(l) \in Nat
      BY <1>3
    <3> QED
      BY <3>1, FirstAlikeFound
  <2> HIDE DEF k
  <2>3. CASE k <= Len(l)
    <3>1. k \in 1 .. Len(l)
      BY <1>3, <1>4, <2>1, <2>3
    <3>2. i \in 1 .. Len(l)
      BY <1>5, <2>0, <2>2, <2>3, <3>1 DEF vset_bump, k
    <3>3. vset' = RemoveAt(l, i) /\ bump_ret' = 1
      BY <1>3, <1>5, <3>2
    <3> QED
      BY <1>1, <1>2, <2>0, <3>2, <3>3 DEF k
  <2>4. CASE ~(k <= Len(l))
    <3>1. i = 0 \/ i \in 1 .. Len(l)
      BY <1>5, <2>0, <2>2, <2>4 DEF vset_bump, k
    <3>2. \/ vset' = l /\ bump_ret' = -1
          \/ i \in 1 .. Len(l) /\ vset' = RemoveAt(l, i) /\ bump_ret' = 1
      BY <1>3, <1>5, <2>0, <3>1
    <3> QED
      BY <1>1, <1>2, <2>0, <2>4, <3>2 DEF k
  <2> QED
    BY <2>3, <2>4
<1> QED
  BY <1>0, <1>4, <1>6, <1>7

\* The empty set.
LEMMA VsetInit == Init => VsetInv
<1> SUFFICES ASSUME Init PROVE VsetInv
  OBVIOUS
<1>1. VRR_VSET_SIZE \in Nat /\ VRR_VSET_SIZE >= 2 /\ MaxSize \in Nat
  BY VsetAssumption
<1>2. vset = <<>> /\ Len(vset) = 0 /\ vset_size = 0
  BY DEF Init
<1>3. TypeOK
  BY <1>1 DEF Init, TypeOK
<1>4. NoDuplicates /\ ListFitsCounter /\ GapInv
  BY <1>1, <1>2 DEF NoDuplicates, ListFitsCounter, GapInv
<1>5. VsetBounded
  BY <1>1, <1>2 DEF VsetBounded
<1> QED
  BY <1>3, <1>4, <1>5 DEF VsetInv

\* An insertion, on top of AddEffect.
LEMMA InsertStep ==
    ASSUME VsetInv, NEW c \in CPU, vset_add(c), adding[c] \notin Members
    PROVE  /\ vset' \in Seq(Peer) /\ vset_size' \in 0 .. MaxSize
           /\ bump_ret' \in {-1, 0, 1}
           /\ NoDuplicates' /\ ListFitsCounter' /\ GapInv' /\ VsetBounded'
           /\ Len(vset) = vset_size
                => bump_ret' # -1 /\ Len(vset') <= VRR_VSET_SIZE
<1>0. /\ VRR_VSET_SIZE \in Nat /\ VRR_VSET_SIZE >= 2 /\ MaxSize \in Nat
      /\ TypeOK
  BY VsetAssumption DEF VsetInv
<1>1. PICK l : l = <<adding[c]>> \o vset
  OBVIOUS
<1>2. /\ adding[c] \in Peer
      /\ vset_size < MaxSize /\ vset_size' = vset_size + 1
      /\ \/ vset' = l /\ bump_ret' \in {-1, 0}
         \/ \E i \in 1 .. Len(l) : vset' = RemoveAt(l, i) /\ bump_ret' = 1
      /\ (vset_size + 1 > VRR_VSET_SIZE
            /\ SortPos[vset_size + 1][radius + 1] <= Len(l))
          => bump_ret' = 1
      /\ vset_size + 1 <= VRR_VSET_SIZE => bump_ret' = 0
  BY <1>0, <1>1, AddEffect
<1>3. l \in Seq(Peer) /\ Len(l) = Len(vset) + 1 /\ Len(vset) \in Nat
  BY <1>0, <1>1, <1>2, ListAdd DEF TypeOK
<1>4. Distinct(l)
  <2>1. Distinct(vset) /\ vset \in Seq(Peer)
    BY <1>0 DEF VsetInv, NoDuplicates, Distinct, TypeOK
  <2>2. \A i \in 1 .. Len(vset) : vset[i] # adding[c]
    BY DEF Members
  <2> QED
    BY <1>1, <1>2, <2>1, <2>2, DistinctKept
<1>5. /\ vset' \in Seq(Peer) /\ Distinct(vset')
      /\ \/ vset' = l /\ bump_ret' \in {-1, 0} /\ Len(vset') = Len(vset) + 1
         \/ bump_ret' = 1 /\ Len(vset') = Len(vset)
  <2>1. CASE vset' = l /\ bump_ret' \in {-1, 0}
    BY <1>3, <1>4, <2>1
  <2>2. ASSUME NEW i \in 1 .. Len(l), vset' = RemoveAt(l, i), bump_ret' = 1
        PROVE  /\ vset' \in Seq(Peer) /\ Distinct(vset')
               /\ bump_ret' = 1 /\ Len(vset') = Len(vset)
    <3>1. RemoveAt(l, i) \in Seq(Peer) /\ Len(RemoveAt(l, i)) = Len(l) - 1
      BY <1>3, RemoveAtProperties
    <3>2. Distinct(RemoveAt(l, i))
      BY <1>3, <1>4, DistinctKept
    <3> QED
      BY <1>3, <2>2, <3>1, <3>2
  <2> QED
    BY <1>2, <2>1, <2>2
<1>6. vset_size \in Nat /\ vset_size + 1 \in 1 .. MaxSize
  BY <1>0, <1>2 DEF TypeOK
<1>7. Len(vset) <= vset_size
      /\ (vset_size > VRR_VSET_SIZE => Len(vset) < vset_size)
  BY DEF VsetInv, ListFitsCounter, GapInv
<1>8. vset_size + 1 > VRR_VSET_SIZE
        => SortPos[vset_size + 1][radius + 1] \in 1 .. vset_size + 1
  BY <1>6, SlotInArray
<1>9. Len(vset) = vset_size => bump_ret' # -1 /\ Len(vset') <= VRR_VSET_SIZE
  <2> SUFFICES ASSUME Len(vset) = vset_size
               PROVE  bump_ret' # -1 /\ Len(vset') <= VRR_VSET_SIZE
    OBVIOUS
  <2>1. vset_size <= VRR_VSET_SIZE
    BY <1>0, <1>6, <1>7
  <2>2. CASE vset_size + 1 <= VRR_VSET_SIZE
    BY <1>2, <1>3, <1>5, <2>2
  <2>3. CASE vset_size + 1 > VRR_VSET_SIZE
    <3>1. SortPos[vset_size + 1][radius + 1] <= Len(l)
      BY <1>3, <1>6, <1>8, <2>3
    <3>2. bump_ret' = 1
      BY <1>2, <2>3, <3>1
    <3> QED
      BY <1>5, <2>1, <3>2
  <2> QED
    BY <1>0, <1>6, <2>2, <2>3
<1>10. ListFitsCounter'
  BY <1>2, <1>3, <1>5, <1>6, <1>7 DEF ListFitsCounter
<1>11. GapInv'
  <2>1. CASE Len(vset) = vset_size
    BY <1>0, <1>2, <1>3, <1>5, <1>6, <1>9, <2>1 DEF GapInv
  <2>2. CASE Len(vset) < vset_size
    BY <1>2, <1>3, <1>5, <1>6, <2>2 DEF GapInv
  <2> QED
    BY <1>3, <1>6, <1>7, <2>1, <2>2
<1>12. VsetBounded'
  <2> SUFFICES ASSUME \A n \in VRR_VSET_SIZE + 1 .. vset_size + 1 :
                         SortPos[n][radius + 1] <= VRR_VSET_SIZE + 1
               PROVE  Len(vset') <= VRR_VSET_SIZE
    BY <1>2 DEF VsetBounded
  <2>1. Len(vset) <= VRR_VSET_SIZE
    BY <1>0, <1>6 DEF VsetInv, VsetBounded
  <2>2. CASE Len(vset) < VRR_VSET_SIZE
    BY <1>0, <1>3, <1>5, <2>2
  <2>3. CASE Len(vset) = VRR_VSET_SIZE
    <3>1. vset_size + 1 \in VRR_VSET_SIZE + 1 .. vset_size + 1
      BY <1>0, <1>6, <1>7, <2>3
    <3>2. SortPos[vset_size + 1][radius + 1] <= Len(l)
      BY <1>3, <2>3, <3>1
    <3>3. vset_size + 1 > VRR_VSET_SIZE
      BY <1>0, <1>6, <3>1
    <3>4. bump_ret' = 1
      BY <1>2, <3>2, <3>3
    <3> QED
      BY <1>5, <2>1, <3>4
  <2> QED
    BY <1>0, <1>3, <2>1, <2>2, <2>3
<1>13. NoDuplicates'
  BY <1>5 DEF Distinct, NoDuplicates
<1>14. vset_size' \in 0 .. MaxSize /\ bump_ret' \in {-1, 0, 1}
  BY <1>0, <1>2, <1>5, <1>6
<1> QED
  BY <1>5, <1>9, <1>10, <1>11, <1>12, <1>13, <1>14

\* The steps of vrr_add before vset_add leave the set alone.
LEMMA AskType ==
    ASSUME TypeOK, NEW c \in CPU,
           \/ \E src \in Peer : vrr_add(c, src)
           \/ vset_should_add(c)
           \/ vset_should_add_sort(c)
    PROVE  TypeOK' /\ UNCHANGED <<vset, vset_size, bump_ret>>
<1>1. vset_size \in Nat
  BY VsetAssumption DEF TypeOK
<1>2. ASSUME NEW src \in Peer, vrr_add(c, src)
      PROVE  asking' \in [CPU -> Call \cup {NoCall}] /\ UNCHANGED adding
  BY <1>1, <1>2 DEF vrr_add, TypeOK, Call
<1>3. ASSUME asking[c] # NoCall
      PROVE  asking[c] \in Call /\ asking[c].node \in Peer
  BY <1>3 DEF TypeOK, Call
<1>4. ASSUME vset_should_add(c)
      PROVE  /\ asking' \in [CPU -> Call \cup {NoCall}]
             /\ adding' \in [CPU -> Peer \cup {NoNode}]
  <2>1. asking[c] \in Call /\ asking[c].node \in Peer
    BY <1>3, <1>4 DEF vset_should_add
  <2>2. CASE asking' = [asking EXCEPT ![c] = NoCall]
    BY <1>4, <2>1, <2>2 DEF vset_should_add, TypeOK
  <2>3. ASSUME NEW answer \in Compare(asking[c].node),
               asking' = [asking EXCEPT ![c].answer = answer],
               UNCHANGED adding
        PROVE  asking' \in [CPU -> Call \cup {NoCall}]
    <3>1. answer \in {"yes", "no"}
      BY DEF Compare
    <3>2. [asking[c] EXCEPT !.answer = answer] \in Call
      BY <2>1, <3>1 DEF Call
    <3> QED
      BY <2>3, <3>2 DEF TypeOK
  <2> QED
    BY <1>4, <2>2, <2>3 DEF vset_should_add, TypeOK
<1>5. ASSUME vset_should_add_sort(c)
      PROVE  /\ asking' \in [CPU -> Call \cup {NoCall}]
             /\ adding' \in [CPU -> Peer \cup {NoNode}]
  BY <1>3, <1>5 DEF vset_should_add_sort, TypeOK
<1> QED
  BY <1>2, <1>4, <1>5 DEF TypeOK, vrr_add, vset_should_add, vset_should_add_sort

\* Every step keeps the invariant.
LEMMA VsetStep == VsetInv /\ [Next]_vars => VsetInv'
<1> SUFFICES ASSUME VsetInv, [Next]_vars PROVE VsetInv'
  OBVIOUS
<1>0. /\ VRR_VSET_SIZE \in Nat /\ VRR_VSET_SIZE >= 2 /\ MaxSize \in Nat
      /\ TypeOK
  BY VsetAssumption DEF VsetInv
<1>a. ASSUME TypeOK', UNCHANGED <<vset, vset_size>> PROVE VsetInv'
  BY <1>a DEF VsetInv, NoDuplicates, ListFitsCounter, GapInv, VsetBounded
<1>1. ASSUME NEW c \in CPU,
             \/ \E src \in Peer : vrr_add(c, src)
             \/ vset_should_add(c)
             \/ vset_should_add_sort(c)
      PROVE  VsetInv'
  BY <1>0, <1>1, <1>a, AskType
<1>2. ASSUME NEW c \in CPU, vset_add(c) PROVE VsetInv'
  <2>1. UNCHANGED asking /\ adding' \in [CPU -> Peer \cup {NoNode}]
    BY <1>0, <1>2 DEF vset_add, TypeOK
  <2>2. CASE adding[c] \in Members
    <3>1. UNCHANGED <<vset, vset_size, bump_ret>>
      BY <1>2, <2>2 DEF vset_add
    <3> QED
      BY <2>1, <3>1 DEF VsetInv, TypeOK, NoDuplicates, ListFitsCounter, GapInv,
                        VsetBounded
  <2>3. CASE adding[c] \notin Members
    BY <1>2, <2>1, <2>3, InsertStep DEF VsetInv, TypeOK
  <2> QED
    BY <2>2, <2>3
<1>3. ASSUME NEW node \in Peer, vset_remove(node) PROVE VsetInv'
  <2>1. PICK i \in 1 .. Len(vset) : vset' = RemoveAt(vset, i)
    BY <1>3 DEF vset_remove
  <2>2. UNCHANGED <<vset_size, asking, adding, bump_ret>>
    BY <1>3 DEF vset_remove
  <2>3. vset \in Seq(Peer) /\ Distinct(vset)
    BY <1>0 DEF VsetInv, NoDuplicates, Distinct, TypeOK
  <2>4. vset' \in Seq(Peer) /\ Len(vset') = Len(vset) - 1 /\ Len(vset) \in Nat
    BY <2>1, <2>3, RemoveAtProperties
  <2>5. Distinct(vset')
    BY <2>1, <2>3, DistinctKept
  <2>6. NoDuplicates'
    BY <2>5 DEF Distinct, NoDuplicates
  <2>7. TypeOK'
    BY <1>0, <2>2, <2>4 DEF TypeOK
  <2>8. ListFitsCounter' /\ GapInv'
    BY <1>0, <2>2, <2>4 DEF VsetInv, ListFitsCounter, GapInv, TypeOK
  <2>9. VsetBounded'
    BY <1>0, <2>2, <2>4 DEF VsetInv, VsetBounded
  <2> QED
    BY <2>6, <2>7, <2>8, <2>9 DEF VsetInv
<1>4. CASE UNCHANGED vars
  BY <1>4 DEF vars, VsetInv, TypeOK, NoDuplicates, ListFitsCounter, GapInv,
              VsetBounded
<1> QED
  BY <1>1, <1>2, <1>3, <1>4 DEF Next

\* The inductive invariant of the virtual neighbour set.
THEOREM VsetInvariance == Spec => []VsetInv
BY VsetInit, VsetStep, PTL DEF Spec

\* Every variable of the set keeps its type for any number of processors, and
\* the counter, which no operation decrements, its range.
THEOREM VsetTypeCorrect == Spec => []TypeOK
BY VsetInvariance, PTL DEF VsetInv

\* vset_add keeps the list free of duplicates although the test of
\* vset_should_add may be out of date, for any number of processors.
THEOREM NoDuplicatesAlways == Spec => []NoDuplicates
BY VsetInvariance, PTL DEF VsetInv

\* vset_bump and vset_get_all never write past the end of their arrays.
THEOREM ListFitsCounterAlways == Spec => []ListFitsCounter
BY VsetInvariance, PTL DEF VsetInv

\* The list stays within VRR_VSET_SIZE while sort() leaves an element of the
\* first VRR_VSET_SIZE + 1 entries at index radius.
THEOREM VsetBoundedAlways == Spec => []VsetBounded
BY VsetInvariance, PTL DEF VsetInv

\* vset_bump is infallible as long as the counter is exact, for every
\* permutation sort() may apply.
THEOREM ExactBumpSucceedsAlways == Spec => ExactBumpSucceeds
<1> DEFINE A == vset_size' = vset_size + 1 /\ Len(vset) = vset_size
                  => bump_ret' # -1 /\ Len(vset') <= VRR_VSET_SIZE
<1>1. VsetInv /\ [Next]_vars => [A]_vars
  <2> SUFFICES ASSUME VsetInv, Next, vset_size' = vset_size + 1,
                      Len(vset) = vset_size
               PROVE  bump_ret' # -1 /\ Len(vset') <= VRR_VSET_SIZE
    OBVIOUS
  <2>0. vset_size \in Nat
    BY VsetAssumption DEF VsetInv, TypeOK
  <2>1. ASSUME NEW c \in CPU,
               \/ \E src \in Peer : vrr_add(c, src)
               \/ vset_should_add(c)
               \/ vset_should_add_sort(c)
        PROVE  FALSE
    BY <2>0, <2>1 DEF vrr_add, vset_should_add, vset_should_add_sort
  <2>2. ASSUME NEW c \in CPU, vset_add(c)
        PROVE  bump_ret' # -1 /\ Len(vset') <= VRR_VSET_SIZE
    <3>1. CASE adding[c] \in Members
      BY <2>0, <2>2, <3>1 DEF vset_add
    <3>2. CASE adding[c] \notin Members
      BY <2>2, <3>2, InsertStep
    <3> QED
      BY <3>1, <3>2
  <2>3. ASSUME NEW node \in Peer, vset_remove(node) PROVE FALSE
    BY <2>0, <2>3 DEF vset_remove
  <2> QED
    BY <2>1, <2>2, <2>3 DEF Next
<1> QED
  BY <1>1, VsetInvariance, PTL DEF Spec, ExactBumpSucceeds
=============================================================================
