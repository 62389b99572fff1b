------------------------- MODULE UpdateListProofs ---------------------------
(***************************************************************************)
(* Proofs about the list of updates for any number of entries and hellos:  *)
(* no freed memory is used, and the list implements UpdateQueue.           *)
(***************************************************************************)
EXTENDS UpdateList, FiniteSetTheorems, WellFoundedInduction, TLAPS

PC == {"idle", "fetch", "apply", "del", "unlink_prev", "unlink_next", "free",
       "init_next", "init_prev"}

ListType ==
    /\ next \in [Address -> Pointer]
    /\ prev \in [Address -> Pointer]
    /\ num \in [Cell -> Nat]
    /\ pc \in PC
    /\ sent \in Nat

\* v is the part of the list that is still to be dealt with: entries that are
\* not freed, each once.  The end of the list that list_add_tail goes to lies
\* nowhere between them.
Rest(v) ==
    /\ v \in Seq(Cell)
    /\ IsChain(next, Ahead, v)
    /\ \A i, j \in DOMAIN v : v[i] = v[j] => i = j
    /\ \A i \in DOMAIN v : num[v[i]] # 0
    /\ \A i \in DOMAIN v : prev[HEAD] = v[i] => i = Len(v)

\* Where the head leads to, backwards, while the worker sleeps and starts.
TailInv(v) ==
    /\ prev[HEAD] \in Live
    /\ pc = "idle" => prev[HEAD] = HEAD \/ (v # <<>> /\ prev[HEAD] = v[Len(v)])
    /\ pc = "init_prev" /\ v # <<>> => prev[HEAD] = v[Len(v)]

\* The first entry leads back to the head, also when it is about to become the
\* first one.
FirstInv(v) ==
    /\ pc \in {"idle", "init_prev"} /\ v # <<>> => prev[v[1]] = HEAD
    /\ pc = "fetch" /\ pos # HEAD => prev[pos] = HEAD
    /\ pc \in {"apply", "del"} => prev[pos] = HEAD
    /\ pc \in {"unlink_prev", "unlink_next"} => before = HEAD
    /\ pc \in {"unlink_next", "free"} /\ q # HEAD => prev[q] = HEAD

\* The entry in hand can be unlinked and freed: what follows it is not freed,
\* and when it is freed the head does not lead to it.
HandInv(v) ==
    /\ pos \in Cell /\ num[pos] # 0
    /\ \A i \in DOMAIN v : v[i] # pos
    /\ q # HEAD => prev[HEAD] # pos
    /\ pc \in {"apply", "del"} =>
          /\ q # HEAD => next[pos] = q
          /\ next[pos] \in Live \ {pos}
          /\ prev[HEAD] = pos => next[pos] = HEAD
    /\ pc \in {"unlink_prev", "unlink_next"} =>
          /\ q # HEAD => after = q
          /\ after \in Live \ {pos}
    /\ pc = "unlink_prev" /\ prev[HEAD] = pos => after = HEAD
    /\ pc \in {"unlink_next", "free"} => prev[HEAD] # pos

Good(v) == Rest(v) /\ TailInv(v) /\ FirstInv(v) /\ (InHand => HandInv(v))

ListInv == ListType /\ \E v \in Seq(Cell) : Good(v)
-----------------------------------------------------------------------------
(***************************************************************************)
(* The entries between an address and the head are determined.             *)
(***************************************************************************)

\* Two chains from the same address agree as far as both go.
LEMMA ChainAgree ==
    ASSUME NEW nx, NEW a, NEW s \in Seq(Cell), NEW t \in Seq(Cell),
           IsChain(nx, a, s), IsChain(nx, a, t), Len(s) <= Len(t)
    PROVE  \A i \in 1 .. Len(s) : s[i] = t[i]
<1> DEFINE B == {i \in 1 .. Len(s) : s[i] # t[i]}
<1> SUFFICES ASSUME B # {} PROVE FALSE
  OBVIOUS
<1>1. IsWellFoundedOn(OpToRel(<, Nat), Nat)
  BY NatLessThanWellFounded
<1>a. B \in SUBSET Nat
  OBVIOUS
<1> HIDE DEF B
<1>2. PICK x \in B : \A y \in B : ~(<<y, x>> \in OpToRel(<, Nat))
  BY <1>1, <1>a, WFMin
<1>3. \A y \in B : y < x => <<y, x>> \in OpToRel(<, Nat)
  BY <1>a DEF OpToRel
<1> USE DEF B
<1>4. \A y \in 1 .. Len(s) : y < x => s[y] = t[y]
  BY <1>2, <1>3
<1>5. x \in 1 .. Len(s) /\ s[x] # t[x] /\ Len(s) \in Nat /\ Len(t) \in Nat
  OBVIOUS
<1>6. CASE x = 1
  BY <1>5, <1>6 DEF IsChain, EntryAt
<1>7. CASE x # 1
  <2> DEFINE y == x - 1
  <2>1. y \in 1 .. Len(s) /\ y < x /\ y + 1 = x /\ y \in 1 .. Len(t)
    BY <1>5, <1>7
  <2>2. nx[s[y]] = s[x] /\ nx[t[y]] = t[x]
    BY <1>5, <2>1 DEF IsChain, EntryAt
  <2> QED
    BY <1>4, <1>5, <2>1, <2>2
<1> QED
  BY <1>6, <1>7

LEMMA ChainUnique ==
    ASSUME NEW nx, NEW a, NEW s \in Seq(Cell), NEW t \in Seq(Cell),
           IsChain(nx, a, s), IsChain(nx, a, t), Len(s) <= Len(t)
    PROVE  s = t
<1>1. \A i \in 1 .. Len(s) : s[i] = t[i]
  BY ChainAgree
<1>2. CASE Len(s) = Len(t)
  BY <1>1, <1>2
<1>3. CASE Len(s) < Len(t)
  <2>1. Len(s) \in Nat /\ Len(t) \in Nat /\ Len(s) + 1 \in 1 .. Len(t)
    BY <1>3
  <2>2. t[Len(s) + 1] \in Cell /\ HEAD \notin Cell
    BY <2>1, ListAssumption
  <2>3. CASE Len(s) = 0
    BY <2>1, <2>2, <2>3 DEF IsChain, EntryAt
  <2>4. CASE Len(s) # 0
    <3>1. nx[s[Len(s)]] = HEAD /\ nx[t[Len(s)]] = t[Len(s) + 1]
      BY <2>1, <2>4 DEF IsChain, EntryAt
    <3>2. s[Len(s)] = t[Len(s)]
      BY <1>1, <2>1, <2>4
    <3> QED
      BY <2>2, <3>1, <3>2
  <2> QED
    BY <2>3, <2>4
<1> QED
  BY <1>2, <1>3

\* Chain finds the entries, since there are no more of them than cells.
LEMMA ChainIs ==
    ASSUME NEW nx, NEW a, NEW s \in Seq(Cell), IsChain(nx, a, s),
           \A i, j \in DOMAIN s : s[i] = s[j] => i = j
    PROVE  Chain(nx, a) = s
<1> DEFINE S == BoundedSeq(Cell, Cardinality(Cell))
<1>1. IsFiniteSet(Cell) /\ Cardinality(Cell) \in Nat
  BY ListAssumption, FS_CardinalityType
<1>2. Len(s) <= Cardinality(Cell)
  <2>0. s \in [1 .. Len(s) -> Cell] /\ DOMAIN s = 1 .. Len(s)
    OBVIOUS
  <2>a. IsInjective(s)
    BY DEF IsInjective
  <2>1. s \in Injection(1 .. Len(s), Cell)
    BY <2>0, <2>a DEF Injection
  <2>2. Cardinality(1 .. Len(s)) <= Cardinality(Cell)
    BY <1>1, <2>1, FS_Injection
  <2>3. Cardinality(1 .. Len(s)) = Len(s)
    <3>1. Len(s) \in Nat
      OBVIOUS
    <3>2. Cardinality(1 .. Len(s)) = IF 1 > Len(s) THEN 0 ELSE Len(s) - 1 + 1
      <4>1. 1 \in Int /\ Len(s) \in Int
        BY <3>1
      <4> QED
        BY <4>1, FS_Interval
    <3> QED
      BY <3>1, <3>2
  <2> QED
    BY <2>2, <2>3
<1>3. s \in S
  <2>1. Len(s) \in 0 .. Cardinality(Cell) /\ s \in [1 .. Len(s) -> Cell]
    BY <1>1, <1>2
  <2> QED
    BY <2>1 DEF BoundedSeq, SeqOf
<1>4. \A t \in S : t \in Seq(Cell)
  BY <1>1 DEF BoundedSeq, SeqOf
<1>5. \A t \in S : IsChain(nx, a, t) => t = s
  <2> SUFFICES ASSUME NEW t \in S, IsChain(nx, a, t) PROVE t = s
    OBVIOUS
  <2>1. t \in Seq(Cell)
    BY <1>4
  <2>2. Len(s) <= Len(t) \/ Len(t) <= Len(s)
    BY <2>1
  <2> QED
    BY <2>1, <2>2, ChainUnique
<1> HIDE DEF S
<1>6. Chain(nx, a) = CHOOSE t \in S : IsChain(nx, a, t)
  BY DEF Chain, S
<1> QED
  BY <1>3, <1>5, <1>6
-----------------------------------------------------------------------------
(***************************************************************************)
(* What each step does to the rest of the list.                            *)
(***************************************************************************)

LEMMA ListInit == Init => ListType /\ Good(<<>>)
<1> SUFFICES ASSUME Init PROVE ListType /\ Good(<<>>)
  OBVIOUS
<1>1. /\ pc = "idle" /\ next[HEAD] = HEAD /\ prev[HEAD] = HEAD
      /\ Ahead = HEAD
  BY DEF Init, Address, Ahead
<1>2. ListType
  BY DEF Init, ListType, Address, Pointer, PC
<1>3. <<>> \in Seq(Cell) /\ Len(<<>>) = 0 /\ DOMAIN <<>> = {}
  OBVIOUS
<1>4. Rest(<<>>)
  BY <1>1, <1>3 DEF Rest, IsChain, EntryAt
<1> QED
  BY <1>1, <1>2, <1>4 DEF Good, TailInv, FirstInv, InHand, Live

\* The worker starts on the whole list.
LEMMA BeginStep ==
    ASSUME ListType, NEW v \in Seq(Cell), Good(v), Begin
    PROVE  ListType' /\ Good(v)'
<1>1. /\ pc = "idle" /\ pc' = "fetch" /\ pos' = next[HEAD]
      /\ UNCHANGED <<next, prev, num, q, before, after, sent>>
  BY DEF Begin
<1>2. Ahead' = Ahead
  BY <1>1 DEF Ahead
<1>3. pos' # HEAD => v # <<>> /\ pos' = v[1]
  BY <1>1 DEF Good, Rest, IsChain, EntryAt, Ahead
<1>4. ListType' /\ Rest(v)'
  BY <1>1, <1>2 DEF ListType, PC, Good, Rest, IsChain
<1> QED
  BY <1>1, <1>3, <1>4 DEF Good, TailInv, FirstInv, InHand, Live

\* The successor is read: the entry in hand is no longer part of the rest.
LEMMA FetchStep ==
    ASSUME ListType, NEW v \in Seq(Cell), Good(v), Fetch
    PROVE  /\ ListType'
           /\ pos = HEAD => v = <<>> /\ Good(v)'
           /\ pos # HEAD => v # <<>> /\ v[1] = pos /\ Good(Tail(v))'
<1>0. HEAD \notin Cell
  BY ListAssumption
<1>1. /\ pc = "fetch" /\ q' = next[pos]
      /\ pc' = IF pos = HEAD THEN "init_next" ELSE "apply"
      /\ UNCHANGED <<next, prev, num, pos, before, after, sent>>
  BY DEF Fetch
<1>2. ListType'
  BY <1>1 DEF ListType, PC
<1>3. Ahead = pos /\ Rest(v) /\ TailInv(v) /\ FirstInv(v)
  BY <1>1 DEF Ahead, Good
<1>4. CASE pos = HEAD
  <2>1. v = <<>>
    BY <1>0, <1>3, <1>4 DEF Rest, IsChain, EntryAt
  <2>2. Ahead' = HEAD
    BY <1>1, <1>4 DEF Ahead
  <2>3. Rest(v)'
    BY <1>1, <1>3, <1>4, <2>1, <2>2 DEF Rest, IsChain
  <2> QED
    BY <1>1, <1>2, <1>3, <1>4, <2>1, <2>3 DEF Good, TailInv, FirstInv, InHand, Live
<1>5. CASE pos # HEAD
  <2>1. v # <<>> /\ v[1] = pos /\ 1 \in DOMAIN v
    BY <1>3, <1>5 DEF Rest, IsChain, EntryAt
  <2> DEFINE w == Tail(v)
  <2>2. /\ w \in Seq(Cell) /\ Len(w) = Len(v) - 1 /\ Len(v) \in Nat
        /\ DOMAIN w = 1 .. Len(w) /\ DOMAIN v = 1 .. Len(v)
        /\ \A i \in DOMAIN w : w[i] = v[i + 1] /\ i + 1 \in DOMAIN v /\ i + 1 # 1 /\ i \in Nat
    BY <2>1
  <2> HIDE DEF w
  <2>3. /\ pc' = "apply" /\ Ahead' = next[pos] /\ InHand'
    BY <1>1, <1>5 DEF Ahead, InHand
  <2>4. next[pos] = EntryAt(w, 1)
    BY <1>3, <2>1, <2>2 DEF Rest, IsChain, EntryAt
  <2>5. \A i \in DOMAIN w : next[w[i]] = EntryAt(w, i + 1)
    <3> SUFFICES ASSUME NEW i \in DOMAIN w PROVE next[w[i]] = EntryAt(w, i + 1)
      OBVIOUS
    <3>1. next[v[i + 1]] = EntryAt(v, (i + 1) + 1)
      BY <1>3, <2>2 DEF Rest, IsChain
    <3>2. CASE i = Len(w)
      BY <2>2, <3>1, <3>2 DEF EntryAt
    <3>3. CASE i # Len(w)
      <4>1. i + 1 \in DOMAIN w
        BY <2>2, <3>3
      <4>2. w[i + 1] = v[(i + 1) + 1] /\ (i + 1) + 1 <= Len(v) /\ i + 1 <= Len(w)
        BY <2>2, <4>1
      <4> QED
        BY <2>2, <3>1, <4>2 DEF EntryAt
    <3> QED
      BY <3>2, <3>3
  <2>6. Rest(w)'
    <3>1. IsChain(next', Ahead', w)
      BY <1>1, <2>3, <2>4, <2>5 DEF IsChain
    <3>2. \A i, j \in DOMAIN w : w[i] = w[j] => i = j
      <4> SUFFICES ASSUME NEW i \in DOMAIN w, NEW j \in DOMAIN w, w[i] = w[j] PROVE i = j
        OBVIOUS
      <4>1. v[i + 1] = v[j + 1]
        BY <2>2
      <4>2. i + 1 = j + 1
        BY <1>3, <2>2, <4>1 DEF Rest
      <4> QED
        BY <2>2, <4>2
    <3>3. \A i \in DOMAIN w : num'[w[i]] # 0
      BY <1>1, <1>3, <2>2 DEF Rest
    <3>4. \A i \in DOMAIN w : prev'[HEAD] = w[i] => i = Len(w)
      <4> SUFFICES ASSUME NEW i \in DOMAIN w, prev'[HEAD] = w[i] PROVE i = Len(w)
        OBVIOUS
      <4>1. i + 1 = Len(v)
        BY <1>1, <1>3, <2>2 DEF Rest
      <4> QED
        BY <2>2, <4>1
    <3> QED
      BY <2>2, <3>1, <3>2, <3>3, <3>4 DEF Rest
  <2>7. /\ pos \in Cell /\ num[pos] # 0 /\ \A i \in DOMAIN w : w[i] # pos
        /\ q' # HEAD => prev[HEAD] # pos
        /\ next[pos] \in Live \ {pos}
    <3>1. pos \in Cell /\ num[pos] # 0
      BY <1>3, <2>1 DEF Rest
    <3>2. \A i \in DOMAIN w : w[i] # pos
      BY <1>3, <2>1, <2>2 DEF Rest
    <3>3. q' # HEAD => prev[HEAD] # pos
      <4> SUFFICES ASSUME q' # HEAD, prev[HEAD] = pos PROVE FALSE
        OBVIOUS
      <4>1. Len(w) # 0
        BY <1>1, <2>2, <2>4 DEF EntryAt
      <4>2. 1 = Len(v)
        BY <1>3, <2>1 DEF Rest
      <4> QED
        BY <2>2, <4>1, <4>2
    <3>4. next[pos] \in Live \ {pos}
      <4>1. CASE Len(w) = 0
        BY <1>0, <2>4, <3>1, <4>1 DEF EntryAt, Live
      <4>2. CASE Len(w) # 0
        <5>1. 1 \in DOMAIN w /\ next[pos] = w[1]
          BY <2>2, <2>4, <4>2 DEF EntryAt
        <5>2. w[1] \in Cell /\ num[w[1]] # 0
          BY <1>3, <2>2, <5>1 DEF Rest
        <5> QED
          BY <3>2, <5>1, <5>2 DEF Live
      <4> QED
        BY <4>1, <4>2
    <3> QED
      BY <3>1, <3>2, <3>3, <3>4
  <2>8. HandInv(w)'
    <3>1. Live' = Live
      BY <1>1 DEF Live
    <3>2. q' = HEAD \/ prev[HEAD] # pos
      BY <2>7
    <3> QED
      BY <1>1, <2>3, <2>7, <3>1, <3>2 DEF HandInv
  <2>9. TailInv(w)' /\ FirstInv(w)'
    BY <1>1, <1>3, <1>5, <2>3 DEF TailInv, FirstInv, Live
  <2> QED
    BY <1>2, <1>5, <2>1, <2>6, <2>8, <2>9 DEF Good, w
<1> QED
  BY <1>4, <1>5

\* The update in hand is applied; only that is recorded.
LEMMA ApplyStep ==
    ASSUME ListType, NEW v \in Seq(Cell), Good(v), ApplyUpdate
    PROVE  ListType' /\ Good(v)'
<1>1. /\ pc = "apply" /\ pc' = "del"
      /\ UNCHANGED <<next, prev, num, pos, q, before, after, sent>>
  BY DEF ApplyUpdate
<1>2. Ahead' = Ahead
  <2>1. Ahead = q
    BY <1>1 DEF Ahead
  <2>2. Ahead' = q'
    BY <1>1 DEF Ahead
  <2> QED
    BY <1>1, <2>1, <2>2
<1>3. ListType' /\ Rest(v)' /\ Live' = Live
  BY <1>1, <1>2 DEF ListType, PC, Good, Rest, Live
<1> QED
  BY <1>1, <1>3 DEF Good, TailInv, FirstInv, InHand, HandInv

\* The entry in hand is unlinked.  Its predecessor is the head; its successor is
\* the one the worker read, or, at the end of the list, one that arrived since.
LEMMA ListDelStep ==
    ASSUME ListType, NEW v \in Seq(Cell), Good(v), ListDel
    PROVE  ListType' /\ Good(v)'
<1>0. HEAD \notin Cell
  BY ListAssumption
<1>1. /\ pc \in {"del", "unlink_prev", "unlink_next"}
      /\ pc' \in {"unlink_prev", "unlink_next", "free"}
      /\ UNCHANGED <<num, pos, q, sent>>
  BY DEF ListDel
<1>2. Ahead = q /\ Ahead' = q
  <2>1. Ahead = q
    BY <1>1 DEF Ahead
  <2>2. Ahead' = q'
    BY <1>1 DEF Ahead
  <2> QED
    BY <1>1, <2>1, <2>2
<1>3. Rest(v) /\ TailInv(v) /\ FirstInv(v) /\ HandInv(v)
  BY <1>1 DEF Good, InHand
<1>4. Live' = Live
  BY <1>1 DEF Live
<1>5. CASE pc = "del"
  <2>1. /\ before' = prev[pos] /\ after' = next[pos] /\ pc' = "unlink_prev"
        /\ UNCHANGED <<next, prev>>
    BY <1>5 DEF ListDel
  <2>2. ListType' /\ Rest(v)'
    BY <1>1, <1>2, <1>3, <2>1 DEF ListType, PC, Rest
  <2>3. HandInv(v)' /\ TailInv(v)' /\ FirstInv(v)'
    BY <1>1, <1>3, <1>4, <1>5, <2>1 DEF HandInv, TailInv, FirstInv
  <2> QED
    BY <2>2, <2>3 DEF Good
<1>6. CASE pc = "unlink_prev"
  <2>1. /\ prev' = [prev EXCEPT ![after] = before] /\ pc' = "unlink_next"
        /\ UNCHANGED <<next, before, after>>
    BY <1>6 DEF ListDel
  <2>2. before = HEAD /\ after \in Live \ {pos} /\ (q # HEAD => after = q)
    BY <1>3, <1>6 DEF FirstInv, HandInv
  <2>3. after \in Address /\ HEAD \in Address /\ before \in Pointer
    BY <2>2 DEF Live, Address, Pointer
  <2>4. /\ prev'[after] = HEAD
        /\ after # HEAD => prev'[HEAD] = prev[HEAD]
    BY <2>1, <2>2, <2>3 DEF ListType
  <2>5. q = HEAD => v = <<>>
    BY <1>0, <1>2, <1>3 DEF Rest, IsChain, EntryAt
  <2>6. Rest(v)'
    <3>1. \A i \in DOMAIN v : prev'[HEAD] = v[i] => i = Len(v)
      <4>1. CASE after = HEAD
        BY <2>2, <2>5, <4>1
      <4>2. CASE after # HEAD
        BY <1>3, <2>4, <4>2 DEF Rest
      <4> QED
        BY <4>1, <4>2
    <3> QED
      BY <1>1, <1>2, <1>3, <2>1, <3>1 DEF Rest
  <2>7. ListType'
    BY <1>1, <2>1, <2>3 DEF ListType, PC
  <2>8. prev'[HEAD] \in Live /\ prev'[HEAD] # pos
    <3>1. CASE after = HEAD
      BY <1>0, <1>3, <2>4, <3>1 DEF Live, HandInv
    <3>2. CASE after # HEAD
      BY <1>3, <1>6, <2>4, <3>2 DEF TailInv, HandInv
    <3> QED
      BY <3>1, <3>2
  <2>9. HandInv(v)' /\ TailInv(v)' /\ FirstInv(v)'
    BY <1>1, <1>3, <1>4, <1>6, <2>1, <2>2, <2>4, <2>8 DEF HandInv, TailInv, FirstInv
  <2> QED
    BY <2>6, <2>7, <2>9 DEF Good
<1>7. CASE pc = "unlink_next"
  <2>1. /\ next' = [next EXCEPT ![before] = after] /\ pc' = "free"
        /\ UNCHANGED <<prev, before, after>>
    BY <1>7 DEF ListDel
  <2>2. before = HEAD /\ after \in Live
    BY <1>3, <1>7 DEF FirstInv, HandInv
  <2>3. \A a \in Cell : next'[a] = next[a]
    BY <1>0, <2>1, <2>2 DEF ListType, Address
  <2>4. ListType'
    <3>1. after \in Pointer
      BY <2>2 DEF Live, Address, Pointer
    <3> QED
      BY <1>1, <2>1, <3>1 DEF ListType, PC
  <2>5. Rest(v)'
    BY <1>1, <1>2, <1>3, <2>1, <2>3 DEF Rest, IsChain
  <2>6. HandInv(v)' /\ TailInv(v)' /\ FirstInv(v)'
    BY <1>1, <1>3, <1>4, <1>7, <2>1 DEF HandInv, TailInv, FirstInv
  <2> QED
    BY <2>4, <2>5, <2>6 DEF Good
<1> QED
  BY <1>1, <1>5, <1>6, <1>7

\* The entry in hand is freed: neither the rest nor the head leads to it.
LEMMA FreeStep ==
    ASSUME ListType, NEW v \in Seq(Cell), Good(v), Free
    PROVE  ListType' /\ Good(v)' /\ \A i \in DOMAIN v : num'[v[i]] = num[v[i]]
<1>0. HEAD \notin Cell
  BY ListAssumption
<1>1. /\ pc = "free" /\ pc' = "fetch"
      /\ next' = [next EXCEPT ![pos] = POISON]
      /\ prev' = [prev EXCEPT ![pos] = POISON]
      /\ num' = [num EXCEPT ![pos] = 0]
      /\ pos' = q
      /\ UNCHANGED <<q, before, after, sent>>
  BY DEF Free
<1>2. Ahead = q /\ Ahead' = q
  <2>1. Ahead = q
    BY <1>1 DEF Ahead
  <2>2. Ahead' = pos'
    BY <1>1 DEF Ahead
  <2> QED
    BY <1>1, <2>1, <2>2
<1>3. Rest(v) /\ TailInv(v) /\ FirstInv(v) /\ HandInv(v)
  BY <1>1 DEF Good, InHand
<1>4. /\ pos \in Cell /\ \A i \in DOMAIN v : v[i] # pos
      /\ prev[HEAD] # pos /\ prev[HEAD] \in Live
      /\ q # HEAD => prev[q] = HEAD
  BY <1>1, <1>3 DEF HandInv, TailInv, FirstInv
<1>5. ListType'
  BY <1>1, <1>4 DEF ListType, PC, Address, Pointer
<1>6. /\ \A c \in Cell \ {pos} : next'[c] = next[c] /\ prev'[c] = prev[c] /\ num'[c] = num[c]
      /\ prev'[HEAD] = prev[HEAD]
  BY <1>0, <1>1, <1>4 DEF ListType, Address
<1>7. \A i \in DOMAIN v : v[i] \in Cell \ {pos}
  BY <1>4
<1>8. Rest(v)'
  <2>1. IsChain(next', Ahead', v)
    BY <1>2, <1>3, <1>6, <1>7 DEF Rest, IsChain
  <2> QED
    BY <1>3, <1>6, <1>7, <2>1 DEF Rest
<1>9. prev'[HEAD] \in Live'
  BY <1>4, <1>6 DEF Live
<1>10. pos' # HEAD => prev'[pos'] = HEAD
  <2> SUFFICES ASSUME q # HEAD PROVE prev'[q] = HEAD
    BY <1>1
  <2>1. 1 \in DOMAIN v /\ q = v[1]
    BY <1>2, <1>3 DEF Rest, IsChain, EntryAt
  <2> QED
    BY <1>4, <1>6, <1>7, <2>1
<1>11. TailInv(v)' /\ FirstInv(v)' /\ ~InHand'
  BY <1>1, <1>9, <1>10 DEF TailInv, FirstInv, InHand
<1> QED
  BY <1>5, <1>6, <1>7, <1>8, <1>11 DEF Good

\* INIT_LIST_HEAD starts a new list; what arrives between its two writes is part
\* of it if the head led to itself.
LEMMA InitStep ==
    ASSUME ListType, NEW v \in Seq(Cell), Good(v), InitListHead
    PROVE  ListType' /\ Good(v)' /\ (pc = "init_next" => v = <<>>)
<1>0. HEAD \notin Cell
  BY ListAssumption
<1>1. /\ pc \in {"init_next", "init_prev"} /\ pc' \in {"init_prev", "idle"}
      /\ UNCHANGED <<num, pos, q, before, after, sent>>
  BY DEF InitListHead
<1>2. Rest(v) /\ TailInv(v) /\ FirstInv(v) /\ Live' = Live
  BY <1>1 DEF Good, Live
<1>3. CASE pc = "init_next"
  <2>1. /\ next' = [next EXCEPT ![HEAD] = HEAD] /\ pc' = "init_prev" /\ UNCHANGED prev
    BY <1>3 DEF InitListHead
  <2>2. Ahead = HEAD
    BY <1>3 DEF Ahead
  <2>3. v = <<>>
    BY <1>0, <1>2, <2>2 DEF Rest, IsChain, EntryAt
  <2>4. next'[HEAD] = HEAD
    BY <2>1 DEF ListType, Address
  <2>5. Ahead' = HEAD
    <3>1. Ahead' = next'[HEAD]
      BY <2>1 DEF Ahead
    <3> QED
      BY <2>4, <3>1
  <2>6. Rest(v)'
    <3>1. DOMAIN v = {} /\ Len(v) = 0
      BY <2>3
    <3> QED
      BY <2>5, <3>1 DEF Rest, IsChain, EntryAt
  <2>7. ListType'
    BY <1>1, <2>1 DEF ListType, PC, Address, Pointer
  <2>8. TailInv(v)' /\ FirstInv(v)' /\ ~InHand'
    BY <1>2, <2>1, <2>3 DEF TailInv, FirstInv, InHand
  <2> QED
    BY <2>3, <2>6, <2>7, <2>8 DEF Good
<1>4. CASE pc = "init_prev"
  <2>1. /\ prev' = [prev EXCEPT ![HEAD] = HEAD] /\ pc' = "idle" /\ UNCHANGED next
    BY <1>4 DEF InitListHead
  <2>2. Ahead' = Ahead
    <3>1. Ahead = next[HEAD]
      BY <1>4 DEF Ahead
    <3>2. Ahead' = next'[HEAD]
      BY <2>1 DEF Ahead
    <3> QED
      BY <2>1, <3>1, <3>2
  <2>3. prev'[HEAD] = HEAD /\ \A c \in Cell : prev'[c] = prev[c]
    BY <1>0, <2>1 DEF ListType, Address
  <2>4. ListType'
    BY <1>1, <2>1 DEF ListType, PC, Address, Pointer
  <2>5. \A i \in DOMAIN v : v[i] \in Cell
    OBVIOUS
  <2>6. Rest(v)'
    BY <1>0, <1>1, <1>2, <2>1, <2>2, <2>3, <2>5 DEF Rest
  <2>7. v # <<>> => 1 \in DOMAIN v
    OBVIOUS
  <2>8. TailInv(v)' /\ FirstInv(v)' /\ ~InHand'
    BY <1>2, <1>4, <2>1, <2>3, <2>5, <2>7 DEF TailInv, FirstInv, InHand, Live
  <2> QED
    BY <1>4, <2>4, <2>6, <2>8 DEF Good
<1> QED
  BY <1>1, <1>3, <1>4

\* A hello arrives.  Its update goes behind the rest if the head leads there; if
\* the head leads to itself while the worker sleeps, it starts the list anew;
\* otherwise the worker will not come to it.
LEMMA RcvStep ==
    ASSUME ListType, NEW v \in Seq(Cell), Good(v), NEW c \in Cell, vrr_rcv_hello(c)
    PROVE  /\ ListType'
           /\ num'[c] = sent' /\ prev'[HEAD] = c
           /\ \A i \in DOMAIN v : v[i] # c /\ num'[v[i]] = num[v[i]]
           /\ InHand => pos # c /\ num'[pos] = num[pos]
           /\ \/ v # <<>> /\ prev[HEAD] = v[Len(v)] /\ Good(Append(v, c))'
              \/ /\ pc \in {"idle", "init_prev"} /\ prev[HEAD] = HEAD
                 /\ pc = "init_prev" => v = <<>>
                 /\ Good(<<c>>)'
              \/ /\ pc # "idle" /\ (pc = "init_prev" => v = <<>>)
                 /\ \A i \in DOMAIN v : prev[HEAD] # v[i]
                 /\ Good(v)'
<1> DEFINE x == prev[HEAD]
<1>0. HEAD \notin Cell /\ HEAD \in Address /\ c \in Address
  BY ListAssumption DEF Address
<1>1. Rest(v) /\ TailInv(v) /\ FirstInv(v) /\ (InHand => HandInv(v))
  BY DEF Good
<1>2. x \in Live /\ x \in Address
  BY <1>1 DEF TailInv, Live, Address
<1>3. /\ num[c] = 0 /\ sent' = sent + 1 /\ num' = [num EXCEPT ![c] = sent']
      /\ next' = [next EXCEPT ![c] = HEAD, ![x] = c]
      /\ prev' = [prev EXCEPT ![c] = x, ![HEAD] = c]
      /\ UNCHANGED <<pc, pos, q, before, after>>
  BY DEF vrr_rcv_hello, list_add_tail
<1>4. x # c
  BY <1>0, <1>2, <1>3 DEF Live
<1> HIDE DEF x
<1>5. /\ next'[c] = HEAD /\ next'[x] = c
      /\ \A a \in Address \ {c, x} : next'[a] = next[a]
  BY <1>0, <1>2, <1>3, <1>4 DEF ListType
<1>6. /\ prev'[c] = x /\ prev'[HEAD] = c
      /\ \A a \in Cell \ {c} : prev'[a] = prev[a]
  BY <1>0, <1>2, <1>3, <1>4 DEF ListType, Address
<1>7. /\ num'[c] = sent' /\ sent' \in Nat /\ sent' # 0
      /\ \A a \in Cell \ {c} : num'[a] = num[a]
  BY <1>3 DEF ListType
<1>8. ListType'
  BY <1>0, <1>2, <1>3, <1>7 DEF ListType, PC, Address, Pointer
<1>9. Live' = Live \cup {c} /\ c \notin Live
  BY <1>0, <1>3, <1>7 DEF Live
<1>10. \A i \in DOMAIN v : v[i] \in Cell /\ v[i] # c /\ num'[v[i]] = num[v[i]]
  BY <1>1, <1>3, <1>7 DEF Rest
<1>11. InHand => pos \in Cell /\ pos # c /\ num'[pos] = num[pos]
  BY <1>1, <1>3, <1>7 DEF HandInv
<1>12. x # HEAD \/ pc \notin {"idle", "init_prev"} => Ahead' = Ahead
  <2>1. CASE x # HEAD
    <3>1. next'[HEAD] = next[HEAD]
      BY <1>0, <1>5, <2>1
    <3> QED
      BY <1>3, <3>1 DEF Ahead
  <2>2. CASE pc \notin {"idle", "init_prev"}
    BY <1>3, <2>2 DEF Ahead
  <2> QED
    BY <2>1, <2>2
\* The entry in hand, whatever becomes of the rest.
<1>13. ASSUME InHand, NEW w, \A i \in DOMAIN w : w[i] # pos
       PROVE  HandInv(w)'
  <2>1. HandInv(v) /\ pos \in Cell /\ pos # c /\ num'[pos] # 0
    BY <1>1, <1>11, <1>13 DEF HandInv
  <2>2. CASE x = pos
    <3>1. next'[pos] = c /\ q = HEAD
      BY <1>5, <2>1, <2>2 DEF HandInv, x
    <3> QED
      BY <1>3, <1>6, <1>9, <1>13, <2>1, <3>1 DEF HandInv
  <2>3. CASE x # pos
    <3>1. next'[pos] = next[pos]
      BY <1>5, <2>1, <2>3 DEF Address
    <3> QED
      BY <1>3, <1>6, <1>9, <1>13, <2>1, <3>1 DEF HandInv
  <2> QED
    BY <2>2, <2>3
<1>14. /\ pc = "fetch" /\ pos # HEAD => prev'[pos] = HEAD
       /\ pc \in {"apply", "del"} => prev'[pos] = HEAD
       /\ pc \in {"unlink_prev", "unlink_next"} => before = HEAD
       /\ pc \in {"unlink_next", "free"} /\ q # HEAD => prev'[q] = HEAD
  <2>1. pc = "fetch" /\ pos # HEAD => prev'[pos] = HEAD
    <3> SUFFICES ASSUME pc = "fetch", pos # HEAD PROVE prev'[pos] = HEAD
      OBVIOUS
    <3>1. Ahead = pos
      BY DEF Ahead
    <3>2. 1 \in DOMAIN v /\ pos = v[1]
      BY <1>1, <3>1 DEF Rest, IsChain, EntryAt
    <3> QED
      BY <1>1, <1>6, <1>10, <3>2 DEF FirstInv
  <2>2. pc \in {"apply", "del"} => prev'[pos] = HEAD
    BY <1>1, <1>6, <1>11 DEF FirstInv, InHand
  <2>3. pc \in {"unlink_next", "free"} /\ q # HEAD => prev'[q] = HEAD
    <3> SUFFICES ASSUME pc \in {"unlink_next", "free"}, q # HEAD PROVE prev'[q] = HEAD
      OBVIOUS
    <3>1. Ahead = q
      BY DEF Ahead
    <3>2. 1 \in DOMAIN v /\ q = v[1]
      BY <1>1, <3>1 DEF Rest, IsChain, EntryAt
    <3> QED
      BY <1>1, <1>6, <1>10, <3>2 DEF FirstInv
  <2> QED
    BY <1>1, <2>1, <2>2, <2>3 DEF FirstInv
<1>15. CASE v # <<>> /\ x = v[Len(v)]
  <2> DEFINE w == Append(v, c)
  <2>1. /\ w \in Seq(Cell) /\ Len(w) = Len(v) + 1 /\ Len(v) \in Nat /\ Len(v) >= 1
        /\ DOMAIN w = 1 .. Len(w) /\ DOMAIN v = 1 .. Len(v)
        /\ \A i \in DOMAIN v : w[i] = v[i]
        /\ w[Len(w)] = c
    BY <1>15
  <2> HIDE DEF w
  <2>2. \A i \in DOMAIN w : i \in DOMAIN v \/ i = Len(w)
    BY <2>1
  <2>3. x \in Cell /\ x # HEAD
    BY <1>0, <1>10, <1>15, <2>1
  <2>4. \A i \in DOMAIN v : i # Len(v) => v[i] # x
    BY <1>1, <1>15, <2>1 DEF Rest
  <2>5. Ahead' = Ahead
    BY <1>12, <2>3
  <2>6. Rest(w)'
    <3>1. EntryAt(w, 1) = Ahead'
      BY <1>1, <2>1, <2>5 DEF Rest, IsChain, EntryAt
    <3>2. \A i \in DOMAIN w : next'[w[i]] = EntryAt(w, i + 1)
      <4> SUFFICES ASSUME NEW i \in DOMAIN w PROVE next'[w[i]] = EntryAt(w, i + 1)
        OBVIOUS
      <4>1. CASE i = Len(w)
        BY <1>5, <2>1, <4>1 DEF EntryAt
      <4>2. CASE i = Len(v)
        BY <1>5, <1>15, <2>1, <4>2 DEF EntryAt
      <4>3. CASE i \in DOMAIN v /\ i # Len(v)
        <5>1. next[v[i]] = v[i + 1]
          BY <1>1, <2>1, <4>3 DEF Rest, IsChain, EntryAt
        <5>2. v[i] \in Address \ {c, x}
          BY <1>10, <2>4, <4>3 DEF Address
        <5>3. next'[v[i]] = v[i + 1]
          BY <1>5, <5>1, <5>2
        <5>4. i + 1 \in DOMAIN v /\ i + 1 <= Len(w)
          BY <2>1, <4>3
        <5> QED
          BY <2>1, <4>3, <5>3, <5>4 DEF EntryAt
      <4> QED
        BY <2>1, <2>2, <4>1, <4>2, <4>3
    <3>3. \A i, j \in DOMAIN w : w[i] = w[j] => i = j
      BY <1>1, <1>10, <2>1, <2>2 DEF Rest
    <3>4. \A i \in DOMAIN w : num'[w[i]] # 0
      BY <1>1, <1>7, <1>10, <2>1, <2>2 DEF Rest
    <3>5. \A i \in DOMAIN w : prev'[HEAD] = w[i] => i = Len(w)
      BY <1>6, <1>10, <2>1, <2>2
    <3> QED
      BY <2>1, <3>1, <3>2, <3>3, <3>4, <3>5 DEF Rest, IsChain
  <2>7. TailInv(w)'
    BY <1>3, <1>6, <1>9, <2>1 DEF TailInv
  <2>8. FirstInv(w)'
    <3>1. pc \in {"idle", "init_prev"} => prev'[w[1]] = HEAD
      BY <1>1, <1>6, <1>10, <1>15, <2>1 DEF FirstInv
    <3> QED
      BY <1>3, <1>14, <3>1 DEF FirstInv
  <2>9. InHand' => HandInv(w)'
    <3>1. InHand' => InHand
      BY <1>3 DEF InHand
    <3>2. InHand => \A i \in DOMAIN w : w[i] # pos
      BY <1>1, <1>11, <2>1, <2>2 DEF HandInv
    <3> QED
      BY <1>13, <3>1, <3>2
  <2>10. Good(Append(v, c))'
    BY <2>6, <2>7, <2>8, <2>9 DEF Good, w
  <2> QED
    BY <1>6, <1>7, <1>8, <1>10, <1>11, <1>15, <2>10 DEF x
<1>16. CASE pc \in {"idle", "init_prev"} /\ x = HEAD
  <2>1. pc = "init_prev" => v = <<>>
    <3>1. v # <<>> => v[Len(v)] \in Cell
      OBVIOUS
    <3> QED
      BY <1>0, <1>1, <1>16, <3>1 DEF TailInv, x
  <2> DEFINE w == <<c>>
  <2>2. w \in Seq(Cell) /\ Len(w) = 1 /\ DOMAIN w = {1} /\ w[1] = c
    OBVIOUS
  <2> HIDE DEF w
  <2>3. Ahead' = c
    <3>1. Ahead' = next'[HEAD]
      BY <1>3, <1>16 DEF Ahead
    <3> QED
      BY <1>5, <1>16, <3>1
  <2>4. Rest(w)'
    BY <1>5, <1>6, <1>7, <2>2, <2>3 DEF Rest, IsChain, EntryAt
  <2>a. w # <<>>
    BY DEF w
  <2>b. TailInv(w)'
    BY <1>3, <1>6, <1>9, <2>2, <2>a DEF TailInv
  <2>5. FirstInv(w)' /\ ~InHand'
    BY <1>3, <1>6, <1>16, <2>2 DEF FirstInv, InHand
  <2>6. Good(<<c>>)'
    BY <2>4, <2>b, <2>5 DEF Good, w
  <2> QED
    BY <1>6, <1>7, <1>8, <1>10, <1>11, <1>16, <2>1, <2>6 DEF x
<1>17. CASE ~(v # <<>> /\ x = v[Len(v)]) /\ ~(pc \in {"idle", "init_prev"} /\ x = HEAD)
  <2>1. pc # "idle" /\ (pc = "init_prev" => v = <<>>)
    BY <1>1, <1>17 DEF TailInv, x
  <2>2. \A i \in DOMAIN v : x # v[i]
    <3> SUFFICES ASSUME NEW i \in DOMAIN v, x = v[i] PROVE FALSE
      OBVIOUS
    <3>1. i = Len(v)
      BY <1>1 DEF Rest, x
    <3> QED
      BY <1>17, <3>1
  <2>3. Ahead' = Ahead
    BY <1>12, <1>17
  <2>4. \A i \in DOMAIN v : next'[v[i]] = next[v[i]]
    BY <1>5, <1>10, <2>2 DEF Address
  <2>5. Rest(v)'
    <3>1. IsChain(next', Ahead', v)
      BY <1>1, <2>3, <2>4 DEF Rest, IsChain
    <3> QED
      BY <1>1, <1>6, <1>10, <3>1 DEF Rest
  <2>6. TailInv(v)'
    BY <1>3, <1>6, <1>9, <2>1 DEF TailInv
  <2>a. FirstInv(v)'
    BY <1>3, <1>14, <2>1 DEF FirstInv
  <2>7. InHand' => HandInv(v)'
    <3>1. InHand' => InHand
      BY <1>3 DEF InHand
    <3>2. InHand => \A i \in DOMAIN v : v[i] # pos
      BY <1>1 DEF HandInv
    <3> QED
      BY <1>13, <3>1, <3>2
  <2>8. Good(v)'
    BY <2>5, <2>6, <2>a, <2>7 DEF Good
  <2> QED
    BY <1>6, <1>7, <1>8, <1>10, <1>11, <2>1, <2>2, <2>8 DEF x
<1> QED
  BY <1>15, <1>16, <1>17

LEMMA ListStep == ListInv /\ [Next]_vars => ListInv'
<1> SUFFICES ASSUME ListInv, [Next]_vars PROVE ListInv'
  OBVIOUS
<1>1. PICK v \in Seq(Cell) : ListType /\ Good(v)
  BY DEF ListInv
<1>a. ASSUME ListType', NEW w \in Seq(Cell), Good(w)' PROVE ListInv'
  BY <1>a DEF ListInv
<1>2. CASE Begin
  BY <1>1, <1>2, <1>a, BeginStep
<1>3. CASE Fetch
  <2>1. CASE pos = HEAD
    BY <1>1, <1>3, <1>a, <2>1, FetchStep
  <2>2. CASE pos # HEAD
    <3>1. ListType' /\ v # <<>> /\ Good(Tail(v))'
      BY <1>1, <1>3, <2>2, FetchStep
    <3>2. Tail(v) \in Seq(Cell)
      BY <3>1
    <3> QED
      BY <1>a, <3>1, <3>2
  <2> QED
    BY <2>1, <2>2
<1>4. CASE ApplyUpdate
  BY <1>1, <1>4, <1>a, ApplyStep
<1>5. CASE ListDel
  BY <1>1, <1>5, <1>a, ListDelStep
<1>6. CASE Free
  BY <1>1, <1>6, <1>a, FreeStep
<1>7. CASE InitListHead
  BY <1>1, <1>7, <1>a, InitStep
<1>8. ASSUME NEW c \in Cell, vrr_rcv_hello(c) PROVE ListInv'
  <2>1. ListType' /\ (Good(Append(v, c))' \/ Good(<<c>>)' \/ Good(v)')
    BY <1>1, <1>8, RcvStep
  <2>2. Append(v, c) \in Seq(Cell) /\ <<c>> \in Seq(Cell)
    OBVIOUS
  <2> QED
    BY <1>a, <2>1, <2>2
<1>9. CASE UNCHANGED vars
  <2>1. UNCHANGED <<next, prev, num, pc, pos, q, before, after, sent>>
    BY <1>9 DEF vars
  <2>2. Ahead' = Ahead /\ Live' = Live /\ InHand' = InHand
    BY <2>1 DEF Ahead, Live, InHand
  <2>3. Rest(v)' /\ TailInv(v)' /\ FirstInv(v)' /\ (InHand => HandInv(v)')
    BY <1>1, <2>1, <2>2 DEF Good, Rest, TailInv, FirstInv, HandInv
  <2>4. ListType'
    BY <1>1, <2>1 DEF ListType
  <2> QED
    BY <1>a, <2>2, <2>3, <2>4 DEF Good
<1> QED
  BY <1>2, <1>3, <1>4, <1>5, <1>6, <1>7, <1>8, <1>9 DEF Next, pset_update_handler

LEMMA ListInvariance == Spec => []ListInv
<1>1. Init => ListInv
  <2>1. <<>> \in Seq(Cell)
    OBVIOUS
  <2> QED
    BY <2>1, ListInit DEF ListInv
<1> QED
  BY <1>1, ListStep, PTL DEF Spec

\* Without a lock, neither the softirq nor the worker follows a pointer to freed
\* memory, for any number of hellos and whenever they arrive.
THEOREM NoUseAfterFreeAlways == Spec => []NoUseAfterFree
<1>1. ListInv => NoUseAfterFree
  <2> SUFFICES ASSUME ListInv PROVE NoUseAfterFree
    OBVIOUS
  <2>1. PICK v \in Seq(Cell) : ListType /\ Good(v)
    BY DEF ListInv
  <2>2. EntryAt(v, 1) \in Live
    <3>1. CASE v = <<>>
      BY <3>1 DEF EntryAt, Live
    <3>2. CASE v # <<>>
      <4>1. 1 \in DOMAIN v /\ 1 <= Len(v) /\ v[1] \in Cell
        BY <3>2
      <4>2. num[v[1]] # 0
        BY <2>1, <4>1 DEF Good, Rest
      <4> QED
        BY <4>1, <4>2 DEF EntryAt, Live
    <3> QED
      BY <3>1, <3>2
  <2>3. Ahead \in Live
    BY <2>1, <2>2 DEF Good, Rest, IsChain
  <2>4. pc = "idle" => next[HEAD] \in Live
    BY <2>3 DEF Ahead
  <2>5. pc = "fetch" => pos \in Live
    BY <2>3 DEF Ahead
  <2>6. InHand => q \in Live
    BY <2>3 DEF Ahead, InHand
  <2>7. InHand => pos \in Live
    BY <2>1 DEF Good, HandInv, Live
  <2>8. pc \in {"unlink_prev", "unlink_next"} => {before, after} \subseteq Live
    BY <2>1 DEF Good, FirstInv, HandInv, InHand, Live
  <2>9. prev[HEAD] \in Live
    BY <2>1 DEF Good, TailInv
  <2>10. pc \notin {"idle", "init_next", "init_prev"} => pc = "fetch" \/ InHand
    BY <2>1 DEF ListType, PC, InHand
  <2> QED
    BY <2>4, <2>5, <2>6, <2>7, <2>8, <2>9, <2>10 DEF NoUseAfterFree
<1> QED
  BY <1>1, ListInvariance, PTL
-----------------------------------------------------------------------------
(***************************************************************************)
(* The list implements UpdateQueue.                                        *)
(***************************************************************************)

\* What the worker still has to apply, and whether it can be lost, in terms of
\* the rest of the list.
View ==
    \A v \in Seq(Cell) :
        Good(v) =>
            /\ Waiting = IF pc = "apply" THEN <<pos>> \o v ELSE v
            /\ Weak <=> ~Closing /\ v # <<>> /\ prev[HEAD] # v[Len(v)]

LEMMA ViewNow == View
<1> SUFFICES ASSUME NEW v \in Seq(Cell), Good(v)
             PROVE  /\ Waiting = IF pc = "apply" THEN <<pos>> \o v ELSE v
                    /\ Weak <=> ~Closing /\ v # <<>> /\ prev[HEAD] # v[Len(v)]
  BY DEF View
<1>1. Chain(next, Ahead) = v
  BY ChainIs DEF Good, Rest
<1>2. Waiting = IF pc = "apply" THEN <<pos>> \o v ELSE v
  <2>1. CASE pc = "apply"
    BY <1>1, <2>1 DEF Waiting
  <2>2. CASE pc # "apply"
    <3>1. Waiting = <<>> \o v
      BY <1>1, <2>2 DEF Waiting
    <3> QED
      BY <2>2, <3>1
  <2> QED
    BY <2>1, <2>2
<1>3. CASE pc = "apply"
  <2>1. Waiting = <<pos>> \o v /\ pos \in Cell
    BY <1>2, <1>3 DEF Good, InHand, HandInv
  <2>2. ~Closing => v # <<>>
    <3>1. Ahead = q
      BY <1>3 DEF Ahead
    <3>2. v = <<>> => q = HEAD
      BY <3>1 DEF Good, Rest, IsChain, EntryAt
    <3> QED
      BY <1>3, <3>2 DEF Closing, InHand
  <2>3. v # <<>> => Waiting # <<>> /\ Last(Waiting) = v[Len(v)]
    <3> SUFFICES ASSUME v # <<>> PROVE Waiting # <<>> /\ Last(Waiting) = v[Len(v)]
      OBVIOUS
    <3>1. /\ Waiting \in Seq(Cell) /\ Len(Waiting) = Len(v) + 1 /\ Len(v) \in Nat
          /\ Waiting[Len(v) + 1] = v[Len(v)]
      BY <2>1
    <3> QED
      BY <3>1 DEF Last
  <2> QED
    BY <1>2, <2>2, <2>3 DEF Weak
<1>4. CASE pc # "apply"
  BY <1>2, <1>4 DEF Weak, Last
<1> QED
  BY <1>2, <1>3, <1>4

LEMMA ViewNext == View'
BY ViewNow, PTL

\* The queue is the same when the entries that wait and their numbers are.
LEMMA SameQueue ==
    ASSUME Waiting' = Waiting, \A i \in DOMAIN Waiting : num'[Waiting[i]] = num[Waiting[i]]
    PROVE  Queue' = Queue
BY Zenon DEF Queue

\* Steps of the worker that the queue does not see, or sees as its end.
LEMMA WorkerRefines ==
    ASSUME ListType, NEW v \in Seq(Cell), Good(v),
           Begin \/ Fetch \/ ListDel \/ Free \/ InitListHead
    PROVE  [Q!Next]_(Q!vars)
<1> USE DEF Closing, InHand
<1>0. HEAD \notin Cell
  BY ListAssumption
<1>a. /\ Waiting = IF pc = "apply" THEN <<pos>> \o v ELSE v
      /\ Weak <=> ~Closing /\ v # <<>> /\ prev[HEAD] # v[Len(v)]
  BY ViewNow DEF View
<1>b. ASSUME NEW w \in Seq(Cell), Good(w)'
      PROVE  /\ Waiting' = IF pc' = "apply" THEN <<pos'>> \o w ELSE w
             /\ Weak' <=> ~Closing' /\ w # <<>> /\ prev'[HEAD] # w[Len(w)]
  BY <1>b, ViewNext DEF View
<1>c. UNCHANGED <<applied, sent>>
  BY DEF Begin, Fetch, ListDel, Free, InitListHead
<1>d. ASSUME Queue' = Queue, Closing' = Closing, Weak' = Weak PROVE [Q!Next]_(Q!vars)
  BY <1>c, <1>d DEF Q!vars
<1>e. ASSUME Queue' = Queue, ~Closing, Closing', ~Weak', Len(Queue) <= 1
      PROVE  [Q!Next]_(Q!vars)
  <2>1. Closing' = TRUE /\ Weak' = FALSE
    BY <1>e DEF Weak
  <2> QED
    BY <1>c, <1>e, <2>1 DEF Q!Next, Q!Close
<1>f. Weak \in BOOLEAN /\ Weak' \in BOOLEAN /\ Closing \in BOOLEAN /\ Closing' \in BOOLEAN
  BY DEF Weak
<1>g. \A w \in Seq(Cell) : Len(w) \in Nat /\ (w = <<>> <=> Len(w) = 0)
  OBVIOUS
<1>h. Len(Queue) = Len(Waiting) /\ Queue \in Seq(Nat)
  <2>1. Waiting \in Seq(Cell)
    <3>1. pc = "apply" => pos \in Cell
      BY DEF Good, HandInv
    <3> QED
      BY <1>a, <3>1
  <2>2. DOMAIN Waiting = 1 .. Len(Waiting) /\ Len(Waiting) \in Nat
    BY <2>1
  <2>3. \A i \in 1 .. Len(Waiting) : Waiting[i] \in Cell
    BY <2>1
  <2>4. Queue = [i \in 1 .. Len(Waiting) |-> num[Waiting[i]]]
    BY <2>2 DEF Queue
  <2> HIDE DEF Queue
  <2>5. Queue \in [1 .. Len(Waiting) -> Nat]
    BY <2>3, <2>4 DEF ListType
  <2> QED
    BY <2>2, <2>5
<1>1. CASE Begin
  <2>1. /\ pc = "idle" /\ pc' = "fetch" /\ pos' = next[HEAD]
        /\ UNCHANGED <<prev, num>> /\ Good(v)'
    BY <1>1, BeginStep DEF Begin
  <2>2. Waiting' = v /\ Waiting = v
    BY <1>a, <1>b, <2>1
  <2>3. Queue' = Queue
    BY <2>1, <2>2, SameQueue
  <2>4. pos' = HEAD <=> v = <<>>
    <3>1. Ahead = next[HEAD]
      BY <2>1 DEF Ahead
    <3>2. v # <<>> => EntryAt(v, 1) \in Cell
      BY DEF EntryAt
    <3> QED
      BY <1>0, <2>1, <3>1, <3>2 DEF Good, Rest, IsChain, EntryAt
  <2>5. CASE v = <<>>
    <3>a. Len(Queue) = 0
      BY <1>h, <2>2, <2>5
    <3>b. ~Closing /\ Closing'
      BY <2>1, <2>4, <2>5
    <3>1. ~Closing /\ Closing' /\ ~Weak' /\ Len(Queue) <= 1
      BY <3>a, <3>b DEF Weak
    <3> QED
      BY <1>e, <2>3, <3>1
  <2>6. CASE v # <<>>
    <3>1. Closing' = Closing
      BY <1>f, <2>1, <2>4, <2>6
    <3>2. Weak' = Weak
      BY <1>a, <1>b, <1>f, <2>1, <3>1
    <3> QED
      BY <1>d, <2>3, <3>1, <3>2
  <2> QED
    BY <2>5, <2>6
<1>2. CASE Fetch
  <2>1. /\ pc = "fetch" /\ q' = next[pos] /\ pc' = IF pos = HEAD THEN "init_next" ELSE "apply"
        /\ UNCHANGED <<prev, num, pos>>
    BY <1>2 DEF Fetch
  <2>2. CASE pos = HEAD
    <3>1. v = <<>> /\ Good(v)'
      BY <1>2, <2>2, FetchStep
    <3>2. Waiting' = v /\ Waiting = v /\ Closing /\ Closing' /\ ~Weak /\ ~Weak'
      BY <1>a, <1>b, <2>1, <2>2, <3>1
    <3>3. Queue' = Queue
      BY <2>1, <3>2, SameQueue
    <3> QED
      BY <1>d, <1>f, <3>2, <3>3
  <2>3. CASE pos # HEAD
    <3>1. v # <<>> /\ v[1] = pos /\ Good(Tail(v))'
      BY <1>2, <2>3, FetchStep
    <3> DEFINE w == Tail(v)
    <3>2. /\ w \in Seq(Cell) /\ <<pos>> \o w = v /\ Len(w) = Len(v) - 1
          /\ w # <<>> => w[Len(w)] = v[Len(v)]
      BY <3>1
    <3> HIDE DEF w
    <3>3. Good(w)'
      BY <3>1 DEF w
    <3>4. Waiting' = v /\ Waiting = v
      BY <1>a, <1>b, <2>1, <2>3, <3>2, <3>3
    <3>5. Queue' = Queue
      BY <2>1, <3>4, SameQueue
    <3>6. ~Closing /\ (Closing' <=> q' = HEAD)
      BY <2>1, <2>3
    <3>7. q' = HEAD <=> w = <<>>
      <4>1. Ahead' = q'
        BY <2>1, <2>3 DEF Ahead
      <4>2. w # <<>> => EntryAt(w, 1) \in Cell
        BY <3>2 DEF EntryAt
      <4>3. EntryAt(w, 1) = q'
        BY <3>3, <4>1 DEF Good, Rest, IsChain
      <4>4. w = <<>> => EntryAt(w, 1) = HEAD
        BY DEF EntryAt
      <4> QED
        BY <1>0, <4>2, <4>3, <4>4
    <3>8. CASE w = <<>>
      <4>a. Len(w) = 0 /\ Len(v) \in Nat
        BY <3>8
      <4>b. Len(Queue) = 1
        <5>1. Len(Queue) = Len(v)
          BY <1>h, <3>4
        <5> QED
          BY <3>2, <4>a, <5>1
      <4>1. Closing' /\ ~Weak' /\ Len(Queue) <= 1
        BY <3>6, <3>7, <3>8, <4>b DEF Weak
      <4> QED
        BY <1>e, <3>5, <3>6, <4>1
    <3>9. CASE w # <<>>
      <4>1. Closing' = Closing
        BY <1>f, <3>6, <3>7, <3>9
      <4>2. Weak' = Weak
        BY <1>a, <1>b, <1>f, <2>1, <3>1, <3>2, <3>3, <3>9, <4>1
      <4> QED
        BY <1>d, <3>5, <4>1, <4>2
    <3> QED
      BY <3>8, <3>9
  <2> QED
    BY <2>2, <2>3
<1>3. CASE ListDel
  <2>1. /\ pc \in {"del", "unlink_prev", "unlink_next"}
        /\ pc' \in {"unlink_prev", "unlink_next", "free"}
        /\ UNCHANGED <<num, q>> /\ Good(v)'
    BY <1>3, ListDelStep DEF ListDel
  <2>2. Waiting' = v /\ Waiting = v
    BY <1>a, <1>b, <2>1
  <2>3. Queue' = Queue
    BY <2>1, <2>2, SameQueue
  <2>4. Closing' = Closing
    BY <1>f, <2>1
  <2>5. q # HEAD => prev'[HEAD] = prev[HEAD]
    <3> SUFFICES ASSUME q # HEAD, pc = "unlink_prev" PROVE prev'[HEAD] = prev[HEAD]
      BY <1>3, <2>1 DEF ListDel
    <3>1. prev' = [prev EXCEPT ![after] = before] /\ after = q
      BY <1>3 DEF ListDel, Good, HandInv
    <3> QED
      BY <3>1 DEF ListType, Address
  <2>6. Weak' = Weak
    BY <1>a, <1>b, <1>f, <2>1, <2>4, <2>5
  <2> QED
    BY <1>d, <2>3, <2>4, <2>6
<1>4. CASE Free
  <2>1. /\ pc = "free" /\ pc' = "fetch" /\ pos' = q /\ q' = q
        /\ prev' = [prev EXCEPT ![pos] = POISON]
    BY <1>4 DEF Free
  <2>2. Good(v)' /\ \A i \in DOMAIN v : num'[v[i]] = num[v[i]]
    BY <1>4, FreeStep
  <2>3. Waiting' = v /\ Waiting = v
    BY <1>a, <1>b, <2>1, <2>2
  <2>4. Queue' = Queue
    BY <2>2, <2>3, SameQueue
  <2>5. Closing' = Closing
    BY <1>f, <2>1
  <2>6. prev'[HEAD] = prev[HEAD]
    BY <1>0, <2>1 DEF ListType, Address, Good, HandInv
  <2>7. Weak' = Weak
    BY <1>a, <1>b, <1>f, <2>2, <2>5, <2>6
  <2> QED
    BY <1>d, <2>4, <2>5, <2>7
<1>5. CASE InitListHead
  <2>1. /\ pc \in {"init_next", "init_prev"} /\ UNCHANGED num
        /\ Good(v)' /\ (pc = "init_next" => v = <<>>)
        /\ pc = "init_next" => pc' = "init_prev"
        /\ pc = "init_prev" => pc' = "idle" /\ prev' = [prev EXCEPT ![HEAD] = HEAD]
    BY <1>5, InitStep DEF InitListHead
  <2>2. Waiting' = v /\ Waiting = v
    BY <1>a, <1>b, <2>1
  <2>3. Queue' = Queue
    BY <2>1, <2>2, SameQueue
  <2>4. Closing /\ ~Weak
    BY <1>a, <2>1
  <2>5. CASE pc = "init_next"
    <3>1. Closing' /\ ~Weak'
      BY <1>b, <2>1, <2>5
    <3> QED
      BY <1>d, <1>f, <2>3, <2>4, <3>1
  <2>6. CASE pc = "init_prev"
    <3>1. ~Closing' /\ prev'[HEAD] = HEAD
      BY <2>1, <2>6 DEF ListType, Address
    <3>2. v # <<>> => v[Len(v)] \in Cell
      OBVIOUS
    <3>3. Weak' <=> v # <<>>
      BY <1>0, <1>b, <2>1, <3>1, <3>2
    <3>4. v # <<>> <=> Queue # <<>>
      BY <1>g, <1>h, <2>2
    <3>5. Weak' = (Queue # <<>>) /\ Closing' = FALSE
      BY <1>f, <3>1, <3>3, <3>4
    <3> QED
      BY <1>c, <2>3, <2>4, <3>5 DEF Q!Next, Q!Open
  <2> QED
    BY <2>1, <2>5, <2>6
<1> QED
  BY <1>1, <1>2, <1>3, <1>4, <1>5

LEMMA SeqEqual ==
    ASSUME NEW S, NEW s \in Seq(S), NEW t \in Seq(S), Len(s) = Len(t),
           \A i \in 1 .. Len(s) : s[i] = t[i]
    PROVE  s = t
OBVIOUS

\* The numbers of a sequence of entries.
LEMMA Numbers ==
    ASSUME NEW w \in Seq(Cell), NEW n \in [Cell -> Nat], NEW u,
           u = [i \in DOMAIN w |-> n[w[i]]]
    PROVE  u \in Seq(Nat) /\ Len(u) = Len(w) /\ \A i \in 1 .. Len(w) : u[i] = n[w[i]]
<1>1. DOMAIN w = 1 .. Len(w) /\ Len(w) \in Nat /\ \A i \in 1 .. Len(w) : w[i] \in Cell
  OBVIOUS
<1>2. u = [i \in 1 .. Len(w) |-> n[w[i]]]
  BY <1>1
<1>3. u \in [1 .. Len(w) -> Nat]
  BY <1>1, <1>2
<1> QED
  BY <1>1, <1>2, <1>3

\* The update that is applied is the first of the queue.
LEMMA ApplyRefines ==
    ASSUME ListType, NEW v \in Seq(Cell), Good(v), ApplyUpdate
    PROVE  [Q!Next]_(Q!vars)
<1> USE DEF Closing, InHand
<1>1. /\ pc = "apply" /\ pc' = "del" /\ applied' = num[pos]
      /\ UNCHANGED <<prev, num, q, sent>> /\ Good(v)' /\ ListType'
  BY ApplyStep DEF ApplyUpdate
<1>2. /\ Waiting = <<pos>> \o v /\ pos \in Cell
      /\ Weak <=> ~Closing /\ v # <<>> /\ prev[HEAD] # v[Len(v)]
  BY <1>1, ViewNow DEF View, Good, HandInv
<1>3. /\ Waiting' = v
      /\ Weak' <=> ~Closing' /\ v # <<>> /\ prev'[HEAD] # v[Len(v)]
  BY <1>1, ViewNext DEF View
<1>4. Closing' = Closing /\ Weak' = Weak
  <2>1. Weak \in BOOLEAN /\ Weak' \in BOOLEAN /\ Closing' = Closing
    BY <1>1 DEF Weak
  <2> QED
    BY <1>1, <1>2, <1>3, <2>1
<1> DEFINE w == <<pos>> \o v
<1>5. /\ w \in Seq(Cell) /\ Len(w) = Len(v) + 1 /\ Len(v) \in Nat /\ w[1] = pos
      /\ \A i \in 1 .. Len(v) : w[i + 1] = v[i]
  BY <1>2
<1> HIDE DEF w
<1>6. Queue \in Seq(Nat) /\ Len(Queue) = Len(w) /\ \A i \in 1 .. Len(w) : Queue[i] = num[w[i]]
  <2>1. Queue = [i \in DOMAIN w |-> num[w[i]]]
    BY <1>2 DEF Queue, w
  <2> QED
    BY <1>5, <2>1, Numbers DEF ListType
<1>7. Queue' \in Seq(Nat) /\ Len(Queue') = Len(v) /\ \A i \in 1 .. Len(v) : Queue'[i] = num[v[i]]
  <2>1. Queue' = [i \in DOMAIN v |-> num[v[i]]]
    BY <1>1, <1>3 DEF Queue
  <2> QED
    BY <2>1, Numbers DEF ListType
<1>8. Queue # <<>> /\ Head(Queue) = num[pos]
  BY <1>5, <1>6
<1>9. Queue' = Tail(Queue)
  <2> DEFINE u == Queue  u1 == Queue'
  <2>1. /\ u \in Seq(Nat) /\ u1 \in Seq(Nat) /\ Len(u) = Len(v) + 1 /\ Len(u1) = Len(v)
        /\ \A i \in 1 .. Len(v) : u1[i] = u[i + 1]
    <3>1. ASSUME NEW i \in 1 .. Len(v) PROVE Queue'[i] = Queue[i + 1]
      <4>1. i + 1 \in 1 .. Len(w)
        BY <1>5
      <4>2. Queue[i + 1] = num[w[i + 1]] /\ w[i + 1] = v[i] /\ Queue'[i] = num[v[i]]
        BY <1>5, <1>6, <1>7, <4>1
      <4> QED
        BY <4>2
    <3> QED
      BY <1>5, <1>6, <1>7, <3>1
  <2> HIDE DEF u, u1
  <2>2. Tail(u) \in Seq(Nat) /\ Len(Tail(u)) = Len(v) /\ \A i \in 1 .. Len(v) : Tail(u)[i] = u[i + 1]
    BY <1>5, <2>1
  <2>3. u1 = Tail(u)
    BY <2>1, <2>2, SeqEqual
  <2> QED
    BY <2>3 DEF u, u1
<1> QED
  BY <1>1, <1>4, <1>8, <1>9 DEF Q!Next, Q!Apply

\* A hello goes to the end of the queue, or is lost while the worker is closing
\* or when it meets what was left over from such a time.
LEMMA RcvRefines ==
    ASSUME ListType, NEW v \in Seq(Cell), Good(v), NEW c \in Cell, vrr_rcv_hello(c)
    PROVE  [Q!Next]_(Q!vars)
<1> USE DEF Closing, InHand
<1>0. HEAD \notin Cell
  BY ListAssumption
<1>1. /\ sent' = sent + 1 /\ UNCHANGED <<pc, pos, q, applied>> /\ ListType'
      /\ num'[c] = sent' /\ prev'[HEAD] = c
      /\ \A i \in DOMAIN v : v[i] # c /\ num'[v[i]] = num[v[i]]
      /\ InHand => pos # c /\ num'[pos] = num[pos]
  BY RcvStep DEF vrr_rcv_hello
<1>2. Closing' = Closing /\ Closing \in BOOLEAN /\ Weak \in BOOLEAN /\ Weak' \in BOOLEAN
  BY <1>1 DEF Weak
<1>3. /\ Waiting = IF pc = "apply" THEN <<pos>> \o v ELSE v
      /\ Weak <=> ~Closing /\ v # <<>> /\ prev[HEAD] # v[Len(v)]
  BY ViewNow DEF View
<1>4. ASSUME NEW w \in Seq(Cell), Good(w)'
      PROVE  /\ Waiting' = IF pc = "apply" THEN <<pos>> \o w ELSE w
             /\ Weak' <=> ~Closing /\ w # <<>> /\ c # w[Len(w)]
  BY <1>1, <1>2, <1>4, ViewNext DEF View
<1>5. pc = "apply" => pos \in Cell /\ InHand
  BY DEF Good, HandInv
<1>6. /\ Waiting \in Seq(Cell)
      /\ \A i \in DOMAIN Waiting : Waiting[i] # c /\ num'[Waiting[i]] = num[Waiting[i]]
  <2>1. CASE pc = "apply"
    <3> DEFINE w == <<pos>> \o v
    <3>1. /\ w \in Seq(Cell)
          /\ \A i \in DOMAIN w : w[i] = pos \/ \E j \in DOMAIN v : w[i] = v[j]
      <4>1. pos \in Cell
        BY <1>5, <2>1
      <4>2. \A i \in DOMAIN w : i = 1 \/ i - 1 \in DOMAIN v
        BY <4>1
      <4>3. \A i \in DOMAIN w : (i = 1 => w[i] = pos) /\ (i - 1 \in DOMAIN v => w[i] = v[i - 1])
        BY <4>1
      <4> QED
        BY <4>1, <4>2, <4>3
    <3> HIDE DEF w
    <3>2. Waiting = w
      BY <1>3, <2>1 DEF w
    <3> QED
      BY <1>1, <1>5, <2>1, <3>1, <3>2
  <2>2. CASE pc # "apply"
    BY <1>1, <1>3, <2>2
  <2> QED
    BY <2>1, <2>2
<1>7. Queue \in Seq(Nat) /\ Len(Queue) = Len(Waiting) /\ \A i \in 1 .. Len(Waiting) : Queue[i] = num[Waiting[i]]
  BY <1>6, Numbers DEF ListType, Queue
\* A hello that the worker will come to.
<1>8. ASSUME Waiting' = Append(Waiting, c) PROVE Queue' = Append(Queue, sent')
  <2> DEFINE w == Append(Waiting, c)
  <2>1. /\ w \in Seq(Cell) /\ Len(w) = Len(Waiting) + 1 /\ w[Len(Waiting) + 1] = c /\ Len(Waiting) \in Nat
        /\ \A i \in 1 .. Len(Waiting) : w[i] = Waiting[i] /\ i \in DOMAIN Waiting
    BY <1>6
  <2> HIDE DEF w
  <2>2. Queue' = [i \in DOMAIN w |-> num'[w[i]]]
    BY <1>8 DEF Queue, w
  <2>3. Queue' \in Seq(Nat) /\ Len(Queue') = Len(w) /\ \A i \in 1 .. Len(w) : Queue'[i] = num'[w[i]]
    BY <1>1, <2>1, <2>2, Numbers DEF ListType
  <2>4. sent' \in Nat
    BY <1>1 DEF ListType
  <2> DEFINE u == Queue  u1 == Queue'  m == sent'  k == Len(Waiting)
  <2>5. /\ u \in Seq(Nat) /\ u1 \in Seq(Nat) /\ m \in Nat /\ k \in Nat
        /\ Len(u) = k /\ Len(u1) = k + 1
        /\ \A i \in 1 .. k : u1[i] = u[i]
        /\ u1[k + 1] = m
    <3>1. ASSUME NEW i \in 1 .. k PROVE Queue'[i] = Queue[i]
      <4>1. Queue'[i] = num'[w[i]] /\ w[i] = Waiting[i]
        BY <2>1, <2>3
      <4>2. num'[Waiting[i]] = num[Waiting[i]] /\ Queue[i] = num[Waiting[i]]
        BY <1>6, <1>7, <2>1
      <4> QED
        BY <4>1, <4>2
    <3> QED
      BY <1>1, <1>7, <2>1, <2>3, <2>4, <3>1
  <2> HIDE DEF u, u1, m, k
  <2>6. u1 = Append(u, m)
    BY <2>5
  <2> QED
    BY <2>6 DEF u, u1, m
<1>9. CASE v # <<>> /\ prev[HEAD] = v[Len(v)] /\ Good(Append(v, c))'
  <2> DEFINE w == Append(v, c)
  <2>1. w \in Seq(Cell) /\ w[Len(w)] = c
    OBVIOUS
  <2> HIDE DEF w
  <2>2. /\ Waiting' = IF pc = "apply" THEN <<pos>> \o w ELSE w
        /\ ~Weak'
    BY <1>4, <1>9, <2>1 DEF w
  <2>3. Waiting' = Append(Waiting, c)
    <3>1. CASE pc = "apply"
      <4>1. pos \in Cell
        BY <1>5, <3>1
      <4>2. <<pos>> \o Append(v, c) = Append(<<pos>> \o v, c)
        BY <4>1
      <4> QED
        BY <1>3, <2>2, <3>1, <4>2 DEF w
    <3>2. CASE pc # "apply"
      BY <1>3, <2>2, <3>2 DEF w
    <3> QED
      BY <3>1, <3>2
  <2>4. ~Weak /\ Weak' = Weak
    BY <1>2, <1>3, <1>9, <2>2
  <2> QED
    BY <1>1, <1>2, <1>8, <2>3, <2>4 DEF Q!Next, Q!Receive
<1>10. CASE pc \in {"idle", "init_prev"} /\ prev[HEAD] = HEAD
            /\ (pc = "init_prev" => v = <<>>) /\ Good(<<c>>)'
  <2> DEFINE w == <<c>>
  <2>1. w \in Seq(Cell) /\ w[Len(w)] = c
    OBVIOUS
  <2> HIDE DEF w
  <2>2. Waiting' = w /\ ~Weak' /\ Waiting = v
    BY <1>3, <1>4, <1>10, <2>1 DEF w
  <2>3. CASE v = <<>>
    <3>1. Waiting' = Append(Waiting, c)
      BY <2>2, <2>3 DEF w
    <3>2. ~Weak /\ Weak' = Weak
      BY <1>2, <1>3, <2>2, <2>3
    <3> QED
      BY <1>1, <1>2, <1>8, <3>1, <3>2 DEF Q!Next, Q!Receive
  <2>4. CASE v # <<>>
    <3>1. v[Len(v)] \in Cell /\ pc = "idle" /\ ~Closing
      BY <1>10, <2>4
    <3>2. Weak
      BY <1>0, <1>3, <1>10, <2>4, <3>1
    <3>3. Queue' = <<sent'>>
      <4>1. Queue' = [i \in DOMAIN w |-> num'[w[i]]]
        BY <2>2 DEF Queue
      <4>2. /\ Queue' \in Seq(Nat) /\ Len(Queue') = Len(w)
            /\ \A i \in 1 .. Len(w) : Queue'[i] = num'[w[i]]
        BY <1>1, <2>1, <4>1, Numbers DEF ListType
      <4>3. Len(w) = 1 /\ w[1] = c
        BY DEF w
      <4>4. Queue' \in Seq(Nat) /\ Len(Queue') = 1 /\ Queue'[1] = sent'
        BY <1>1, <4>2, <4>3
      <4> DEFINE u1 == Queue'  m == sent'
      <4>5. u1 \in Seq(Nat) /\ Len(u1) = 1 /\ u1[1] = m /\ m \in Nat
        BY <1>1, <4>4 DEF ListType
      <4> HIDE DEF u1, m
      <4>6. u1 = <<m>>
        BY <4>5
      <4> QED
        BY <4>6 DEF u1, m
    <3>4. Weak' = FALSE
      BY <1>2, <2>2
    <3> QED
      BY <1>1, <1>2, <3>2, <3>3, <3>4 DEF Q!Next, Q!Receive
  <2> QED
    BY <2>3, <2>4
<1>11. CASE pc # "idle" /\ (pc = "init_prev" => v = <<>>)
            /\ (\A i \in DOMAIN v : prev[HEAD] # v[i]) /\ Good(v)'
  <2>1. Waiting' = Waiting
    BY <1>3, <1>4, <1>11
  <2>2. Queue' = Queue
    BY <1>6, <2>1, SameQueue
  <2>3. v # <<>> => Len(v) \in DOMAIN v
    OBVIOUS
  <2>4. v # <<>> => prev[HEAD] # v[Len(v)] /\ c # v[Len(v)]
    BY <1>1, <1>11, <2>3
  <2>5. Weak' = Weak
    BY <1>2, <1>3, <1>4, <1>11, <2>4
  <2>6. Closing \/ Weak
    <3> SUFFICES ASSUME ~Closing PROVE v # <<>>
      BY <1>3, <2>4
    <3>a. pc = "fetch" \/ InHand
      BY <1>11 DEF ListType, PC
    <3>b. (pc = "fetch" => Ahead = pos) /\ (InHand => Ahead = q)
      BY DEF Ahead
    <3>2. Ahead # HEAD
      BY <3>a, <3>b
    <3>3. v = <<>> => Ahead = HEAD
      BY DEF Good, Rest, IsChain, EntryAt
    <3> QED
      BY <3>2, <3>3
  <2> QED
    BY <1>1, <1>2, <2>2, <2>5, <2>6 DEF Q!Next, Q!Receive
<1> QED
  BY <1>9, <1>10, <1>11, RcvStep

LEMMA QueueRefines == ListInv /\ [Next]_vars => [Q!Next]_(Q!vars)
<1> SUFFICES ASSUME ListInv, [Next]_vars PROVE [Q!Next]_(Q!vars)
  OBVIOUS
<1>1. PICK v \in Seq(Cell) : ListType /\ Good(v)
  BY DEF ListInv
<1>2. CASE Begin \/ Fetch \/ ListDel \/ Free \/ InitListHead
  BY <1>1, <1>2, WorkerRefines
<1>3. CASE ApplyUpdate
  BY <1>1, <1>3, ApplyRefines
<1>4. CASE \E c \in Cell : vrr_rcv_hello(c)
  BY <1>1, <1>4, RcvRefines
<1>5. CASE UNCHANGED vars
  <2>1. UNCHANGED <<next, prev, num, pc, pos, q, sent, applied>>
    BY <1>5 DEF vars
  <2>2. Waiting' = Waiting /\ Closing' = Closing
    <3>1. Ahead' = Ahead
      BY <2>1 DEF Ahead
    <3> QED
      BY <2>1, <3>1 DEF Waiting, Closing, InHand
  <2>3. Queue' = Queue /\ Weak' = Weak
    BY <2>1, <2>2 DEF Queue, Weak
  <2> QED
    BY <2>1, <2>2, <2>3 DEF Q!vars
<1> QED
  BY <1>2, <1>3, <1>4, <1>5 DEF Next, pset_update_handler

\* The unlocked list implements UpdateQueue: between any two pointer writes of
\* the worker hellos may arrive, and still updates are applied once each and in
\* order, and only those are lost that UpdateQueue allows to be lost.
THEOREM ListImplementsQueue == Spec => ImplementsQueue
<1>1. Init => Q!Init
  <2> SUFFICES ASSUME Init PROVE Q!Init
    OBVIOUS
  <2>1. Good(<<>>) /\ pc = "idle" /\ applied = 0 /\ sent = 0
    BY ListInit DEF Init
  <2>2. <<>> \in Seq(Cell)
    OBVIOUS
  <2>3. Waiting = <<>> /\ ~Weak
    BY <2>1, <2>2, ViewNow DEF View
  <2>4. Queue = <<>>
    <3>1. DOMAIN <<>> = {} /\ <<>> = [i \in {} |-> num[<<>>[i]]]
      OBVIOUS
    <3> QED
      BY <2>3, <3>1 DEF Queue
  <2>5. Closing = FALSE /\ Weak = FALSE
    BY <2>1, <2>3 DEF Closing, InHand, Weak
  <2> QED
    BY <2>1, <2>4, <2>5 DEF Q!Init
<1> QED
  BY <1>1, QueueRefines, ListInvariance, PTL DEF Spec, ImplementsQueue, Q!Spec

QP == INSTANCE UpdateQueueProofs
         WITH queue <- Queue, closing <- Closing, weak <- Weak

\* So the promise of UpdateQueue holds of the list: what waits is in the order of
\* the hellos, and no update is applied twice or after a later one.
THEOREM ListInOrder == Spec => []Q!QueueInOrder /\ Q!AppliedOnce
<1>1. Q!Init => QP!Init
  BY DEF Q!Init, QP!Init
<1>2. [Q!Next]_(Q!vars) => [QP!Next]_(QP!vars)
  BY DEF Q!vars, QP!vars, Q!Next, QP!Next, Q!Receive, QP!Receive, Q!Apply, QP!Apply,
         Q!Close, QP!Close, Q!Open, QP!Open
<1>3. Q!Spec => QP!Spec
  BY <1>1, <1>2, PTL DEF Q!Spec, QP!Spec
<1>4. QP!QueueInOrder => Q!QueueInOrder
  BY DEF Q!QueueInOrder, QP!QueueInOrder
<1>5. [applied' # applied => applied' > applied]_(QP!vars)
        => [applied' # applied => applied' > applied]_(Q!vars)
  BY DEF Q!vars, QP!vars
<1>6. Q!Spec => []Q!QueueInOrder
  BY <1>3, <1>4, QP!QueueInOrderAlways, PTL
<1>7. Q!Spec => Q!AppliedOnce
  BY <1>3, <1>5, QP!AppliedOnceAlways, PTL DEF Q!AppliedOnce, QP!AppliedOnce
<1> QED
  BY <1>6, <1>7, ListImplementsQueue, PTL DEF ImplementsQueue
=============================================================================
