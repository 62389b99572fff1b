---------------------------- MODULE SetupProofs ----------------------------
(***************************************************************************)
(* Proofs about Setup, for any network, any paths and any bounds.          *)
(***************************************************************************)
EXTENDS Setup, FiniteSetTheorems, SequenceTheorems, WellFoundedInduction, TLAPS

\* A table that maps endpoints to lists of elements of S.
Table(S, t) == DOMAIN t \subseteq Id /\ t \in [DOMAIN t -> Seq(S)]

\* Table t holds the route e under endpoint k.
Entry(t, k, e) == k \in DOMAIN t /\ \E i \in 1 .. Len(t[k]) : t[k][i] = e

\* The list under endpoint k of table u is r and then l, of entries of table t.
FrontOf(u, t, k, r, l) ==
    /\ k \in DOMAIN u
    /\ u[k] = <<r>> \o l
    /\ \A i \in 1 .. Len(l) : Entry(t, k, l[i])

\* The route that rt_add_route stores for path p.
RouteOf(p, na, nb) ==
    [ea |-> p.src, eb |-> p.dst, na |-> na, nb |-> nb, path_id |-> p.pid]

\* Table u is t with the route r of path p added under both ends of p.
Adds(t, u, p, r) ==
    \A j, e : Entry(u, j, e) <=> Entry(t, j, e) \/ (j \in {p.src, p.dst} /\ e = r)

\* Table u is t without some copies of p under its source.
Drops(t, u, p) ==
    /\ \A j, e : Entry(u, j, e) => Entry(t, j, e)
    /\ \A j, e : Entry(t, j, e) /\ (j # p.src \/ e.path_id # p.pid) => Entry(u, j, e)

\* The teardowns of path p that node n may send.
TornBy(n, p) ==
    {[type |-> "teardown", from |-> n, to |-> x, path |-> p] : x \in pset[n]}
-----------------------------------------------------------------------------
(***************************************************************************)
(* What the operations of RouteTable do to the entries of a table.         *)
(***************************************************************************)

\* Every set of naturals that is not empty has a least element.
LEMMA LeastOfSet ==
    ASSUME NEW B \in SUBSET Nat, B # {}
    PROVE  \E x \in B : \A y \in B : x <= y
<1>1. IsWellFoundedOn(OpToRel(<, Nat), Nat)
  BY NatLessThanWellFounded
<1>2. PICK x \in B : \A y \in B : ~(<<y, x>> \in OpToRel(<, Nat))
  BY <1>1, WFMin
<1>3. \A y \in B : y < x => <<y, x>> \in OpToRel(<, Nat)
  BY DEF OpToRel
<1>4. \A y \in B : ~(y < x)
  BY <1>2, <1>3
<1>5. \A y \in B : x <= y
  BY <1>4
<1> QED
  BY <1>5

\* Find yields 0, or a position of the path in the list of the endpoint; it
\* yields 0 only if the path has none.
LEMMA Found ==
    ASSUME NEW n, NEW S, NEW t, Table(S, t), NEW ea, NEW pid
    PROVE  \/ /\ T(n)!Find(t, ea, pid) = 0
              /\ \A e : Entry(t, ea, e) => e.path_id # pid
           \/ /\ ea \in DOMAIN t
              /\ T(n)!Find(t, ea, pid) \in 1 .. Len(t[ea])
              /\ t[ea][T(n)!Find(t, ea, pid)].path_id = pid
<1> DEFINE f == T(n)!Find(t, ea, pid)
           B == {i \in 1 .. Len(t[ea]) : t[ea][i].path_id = pid}
<1>1. CASE ea \notin DOMAIN t
  BY <1>1 DEF T!Find, Entry
<1>2. CASE ea \in DOMAIN t
  <2>1. f = IF B # {} THEN T(n)!Min(B) ELSE 0
    BY <1>2 DEF T!Find
  <2>2. T(n)!Min(B) = CHOOSE x \in B : \A y \in B : x <= y
    BY DEF T!Min
  <2>3. B \in SUBSET Nat
    BY <1>2 DEF Table
  <2>4. CASE B = {}
    BY <1>2, <2>1, <2>4 DEF Entry
  <2>5. CASE B # {}
    <3>1. T(n)!Min(B) \in B
      <4> HIDE DEF B
      <4> QED
        BY <2>2, <2>3, <2>5, LeastOfSet
    <3> QED
      BY <1>2, <2>1, <2>5, <3>1
  <2> QED
    BY <2>4, <2>5
<1> QED
  BY <1>1, <1>2

\* Find yields 0 for a path that has no entry.
LEMMA NotFound ==
    ASSUME NEW n, NEW S, NEW t, Table(S, t), NEW ea, NEW pid,
           \A e : Entry(t, ea, e) => e.path_id # pid
    PROVE  T(n)!Find(t, ea, pid) = 0
<1>1. ASSUME NEW f \in 1 .. Len(t[ea]), ea \in DOMAIN t, t[ea][f].path_id = pid
      PROVE  FALSE
  BY <1>1 DEF Entry
<1> QED
  BY <1>1, Found

\* rt_find_insert_node adds an endpoint with no routes, and no entry.
LEMMA NewNode ==
    ASSUME NEW n, NEW S, NEW t, Table(S, t), NEW k \in Id
    PROVE  /\ Table(S, T(n)!rt_find_insert_node(t, k))
           /\ k \in DOMAIN T(n)!rt_find_insert_node(t, k)
           /\ \A j, e : Entry(T(n)!rt_find_insert_node(t, k), j, e) <=> Entry(t, j, e)
<1> DEFINE s == T(n)!rt_find_insert_node(t, k)
<1>1. /\ DOMAIN s = DOMAIN t \cup {k} /\ s = [x \in DOMAIN s |-> s[x]]
      /\ \A x \in DOMAIN t : s[x] = t[x]
      /\ k \notin DOMAIN t => s[k] = <<>>
  BY DEF T!rt_find_insert_node
<1>2. <<>> \in Seq(S) /\ Len(<<>>) = 0 /\ \A x \in DOMAIN t : t[x] \in Seq(S)
  BY DEF Table
<1> HIDE DEF s
<1>3. Table(S, s)
  BY <1>1, <1>2 DEF Table
<1>4. ASSUME NEW j, NEW e PROVE Entry(s, j, e) <=> Entry(t, j, e)
  <2>1. CASE j \in DOMAIN t
    BY <1>1, <2>1 DEF Entry
  <2>2. CASE j \notin DOMAIN t
    BY <1>1, <1>2, <2>2 DEF Entry
  <2> QED
    BY <2>1, <2>2
<1> QED
  BY <1>1, <1>3, <1>4 DEF s

\* Insert adds the route r under k, and nothing else.
LEMMA NewCopy ==
    ASSUME NEW n, NEW S, NEW t, Table(S, t), NEW k \in Id \ {0}, NEW r \in S
    PROVE  /\ Table(S, T(n)!Insert(t, k, r))
           /\ \A j, e : Entry(T(n)!Insert(t, k, r), j, e) <=>
                           Entry(t, j, e) \/ (j = k /\ e = r)
<1> DEFINE u == T(n)!rt_find_insert_node(t, k)
           s == T(n)!Insert(t, k, r)
           l == <<r>> \o u[k]
<1>1. /\ Table(S, u) /\ k \in DOMAIN u
      /\ \A j, e : Entry(u, j, e) <=> Entry(t, j, e)
  BY NewNode
<1>2. s = [u EXCEPT ![k] = l]
  BY DEF T!Insert
<1> HIDE DEF u, s
<1>3. u[k] \in Seq(S) /\ Len(u[k]) \in Nat
  BY <1>1 DEF Table
<1>4. /\ l \in Seq(S) /\ Len(l) = Len(u[k]) + 1 /\ l[1] = r
      /\ \A i \in 1 .. Len(u[k]) : l[i + 1] = u[k][i]
  BY <1>3
<1> HIDE DEF l
<1>5. /\ DOMAIN s = DOMAIN u /\ s[k] = l /\ Table(S, s)
      /\ \A x \in DOMAIN u : x # k => s[x] = u[x]
  BY <1>1, <1>2, <1>4 DEF Table
<1>6. ASSUME NEW e PROVE Entry(s, k, e) <=> Entry(u, k, e) \/ e = r
  <2>1. ASSUME NEW i \in 1 .. Len(l), i # 1 PROVE Entry(u, k, l[i])
    <3>1. i - 1 \in 1 .. Len(u[k]) /\ (i - 1) + 1 = i
      BY <1>3, <1>4, <2>1
    <3> QED
      BY <1>1, <1>4, <3>1 DEF Entry
  <2>2. ASSUME NEW i \in 1 .. Len(u[k]) PROVE Entry(s, k, u[k][i])
    <3>1. i + 1 \in 1 .. Len(l)
      BY <1>3, <1>4
    <3> QED
      BY <1>1, <1>4, <1>5, <3>1 DEF Entry
  <2>3. Entry(s, k, r)
    <3>1. 1 \in 1 .. Len(l)
      BY <1>3, <1>4
    <3> QED
      BY <1>1, <1>4, <1>5, <3>1 DEF Entry
  <2>4. Entry(s, k, e) => Entry(u, k, e) \/ e = r
    BY <1>4, <1>5, <2>1 DEF Entry
  <2>5. Entry(u, k, e) => Entry(s, k, e)
    BY <2>2 DEF Entry
  <2> QED
    BY <2>3, <2>4, <2>5
<1>7. ASSUME NEW j, NEW e, j # k PROVE Entry(s, j, e) <=> Entry(u, j, e)
  BY <1>5, <1>7 DEF Entry
<1> QED
  BY <1>1, <1>5, <1>6, <1>7 DEF s

\* The new copy is the first one of the list.
LEMMA FrontCopy ==
    ASSUME NEW n, NEW S, NEW t, Table(S, t), NEW k \in Id \ {0}, NEW r \in S
    PROVE  \E l \in Seq(S) : FrontOf(T(n)!Insert(t, k, r), t, k, r, l)
<1> DEFINE u == T(n)!rt_find_insert_node(t, k)
           s == T(n)!Insert(t, k, r)
<1>1. /\ Table(S, u) /\ k \in DOMAIN u
      /\ \A j, e : Entry(u, j, e) <=> Entry(t, j, e)
  BY NewNode
<1>2. s = [u EXCEPT ![k] = <<r>> \o u[k]]
  BY DEF T!Insert
<1> HIDE DEF u, s
<1>3. u[k] \in Seq(S)
  BY <1>1 DEF Table
<1>4. \A i \in 1 .. Len(u[k]) : Entry(t, k, u[k][i])
  <2>1. \A i \in 1 .. Len(u[k]) : Entry(u, k, u[k][i])
    BY <1>1 DEF Entry
  <2> QED
    BY <1>1, <2>1
<1>5. k \in DOMAIN s /\ s[k] = <<r>> \o u[k]
  BY <1>1, <1>2 DEF Table
<1> QED
  BY <1>3, <1>4, <1>5 DEF s, FrontOf

\* rt_remove_route of a path whose copy comes first removes that copy.
LEMMA FrontRemoved ==
    ASSUME NEW n, NEW S, NEW t, Table(S, t), NEW k, NEW r \in S,
           NEW l \in Seq(S), NEW u, FrontOf(t, u, k, r, l)
    PROVE  \A e : Entry(T(n)!rt_remove_route(t, k, r.path_id), k, e) => Entry(u, k, e)
<1> DEFINE B == {i \in 1 .. Len(t[k]) : t[k][i].path_id = r.path_id}
           f == T(n)!Find(t, k, r.path_id)
<1>1. /\ t[k] \in Seq(S) /\ Len(l) \in Nat /\ Len(t[k]) = Len(l) + 1 /\ t[k][1] = r
      /\ \A i \in 1 .. Len(l) : t[k][i + 1] = l[i]
  BY DEF Table, FrontOf
<1>2. 1 \in B /\ B \in SUBSET Nat /\ \A x \in B : 1 <= x
  BY <1>1
<1>3. f = T(n)!Min(B)
  BY <1>2 DEF T!Find, FrontOf
<1>4. T(n)!Min(B) = CHOOSE x \in B : \A y \in B : x <= y
  BY DEF T!Min
<1>5. f = 1
  <2> HIDE DEF B
  <2>1. \A x \in B : x \in Nat
    BY <1>2
  <2>2. \A x \in B : (\A y \in B : x <= y) => x = 1
    BY <1>2, <2>1
  <2>3. \E x \in B : \A y \in B : x <= y
    BY <1>2
  <2> QED
    BY <1>3, <1>4, <2>2, <2>3
<1>6. SubSeq(t[k], 1, 0) \o SubSeq(t[k], 2, Len(t[k])) = l
  <2> DEFINE a == SubSeq(t[k], 1, 0)
             b == SubSeq(t[k], 2, Len(t[k]))
  <2>1. a = <<>>
    BY <1>1
  <2>2. b \in Seq(S) /\ Len(b) = Len(l)
    BY <1>1
  <2>3. \A i \in 1 .. Len(l) : b[i] = t[k][i + 1]
    BY <1>1
  <2> HIDE DEF a, b
  <2>4. b = l
    BY <1>1, <2>2, <2>3
  <2>5. <<>> \o b = b
    BY <2>2
  <2> QED
    BY <2>1, <2>4, <2>5 DEF a, b
<1> HIDE DEF f, B
<1>7. f # 0 /\ T(n)!list_del(t[k], f) = l
  BY <1>5, <1>6 DEF T!list_del
<1>8. T(n)!rt_remove_route(t, k, r.path_id) = [t EXCEPT ![k] = l]
  BY <1>7 DEF T!rt_remove_route, f
<1> QED
  BY <1>8 DEF Entry, FrontOf

\* rt_remove_route takes entries away, and only those of path pid under ea.
LEMMA Removed ==
    ASSUME NEW n, NEW S, NEW t, Table(S, t), NEW ea, NEW pid
    PROVE  /\ Table(S, T(n)!rt_remove_route(t, ea, pid))
           /\ \A j, e : Entry(T(n)!rt_remove_route(t, ea, pid), j, e) => Entry(t, j, e)
           /\ \A j, e : Entry(t, j, e) /\ (j # ea \/ e.path_id # pid)
                => Entry(T(n)!rt_remove_route(t, ea, pid), j, e)
<1> DEFINE s == T(n)!rt_remove_route(t, ea, pid)
           f == T(n)!Find(t, ea, pid)
<1>1. CASE f = 0
  BY <1>1 DEF T!rt_remove_route
<1>2. CASE f # 0
  <2> DEFINE a == SubSeq(t[ea], 1, f - 1)
             b == SubSeq(t[ea], f + 1, Len(t[ea]))
             l == a \o b
  <2>1. ea \in DOMAIN t /\ f \in 1 .. Len(t[ea]) /\ t[ea][f].path_id = pid
    BY <1>2, Found
  <2>2. s = [t EXCEPT ![ea] = l]
    BY <1>2 DEF T!rt_remove_route, T!list_del
  <2>3. t \in [DOMAIN t -> Seq(S)] /\ t[ea] \in Seq(S) /\ Len(t[ea]) \in Nat
    BY <2>1 DEF Table
  <2> HIDE DEF f, s
  <2>4. /\ a \in Seq(S) /\ Len(a) = f - 1 /\ \A i \in 1 .. f - 1 : a[i] = t[ea][i]
    BY <2>1, <2>3
  <2>5. /\ b \in Seq(S) /\ Len(b) = Len(t[ea]) - f
        /\ \A i \in 1 .. Len(t[ea]) - f : b[i] = t[ea][f + i]
    BY <2>1, <2>3
  <2> HIDE DEF a, b
  <2>6. /\ l \in Seq(S) /\ Len(l) = Len(a) + Len(b)
        /\ \A i \in 1 .. Len(a) + Len(b) :
              l[i] = IF i <= Len(a) THEN a[i] ELSE b[i - Len(a)]
    BY <2>4, <2>5, ConcatProperties
  <2> HIDE DEF l
  <2>a. /\ Len(t[ea]) \in Nat /\ f \in 1 .. Len(t[ea]) /\ Len(a) = f - 1
        /\ Len(b) = Len(t[ea]) - f /\ Len(l) = Len(t[ea]) - 1
    BY <2>1, <2>3, <2>4, <2>5, <2>6
  <2>7. ASSUME NEW i \in 1 .. Len(l) PROVE \E q \in 1 .. Len(t[ea]) : l[i] = t[ea][q]
    <3>1. CASE i < f
      <4>1. i \in 1 .. f - 1 /\ i \in 1 .. Len(t[ea]) /\ i <= Len(a)
        BY <2>a, <3>1
      <4> QED
        BY <2>4, <2>6, <4>1
    <3>2. CASE ~(i < f)
      <4>1. /\ i - Len(a) \in 1 .. Len(t[ea]) - f /\ ~(i <= Len(a))
            /\ f + (i - Len(a)) = i + 1 /\ i + 1 \in 1 .. Len(t[ea])
            /\ i \in 1 .. Len(a) + Len(b)
        BY <2>a, <3>2
      <4>2. l[i] = b[i - Len(a)]
        BY <2>6, <4>1
      <4>3. b[i - Len(a)] = t[ea][i + 1]
        BY <2>5, <4>1
      <4> QED
        BY <4>1, <4>2, <4>3
    <3> QED
      BY <3>1, <3>2
  <2>8. ASSUME NEW q \in 1 .. Len(t[ea]), q # f
        PROVE  \E i \in 1 .. Len(l) : l[i] = t[ea][q]
    <3>1. CASE q < f
      <4>1. q \in 1 .. f - 1 /\ q \in 1 .. Len(a) + Len(b) /\ q <= Len(a)
        BY <2>a, <3>1
      <4> QED
        BY <2>4, <2>6, <4>1
    <3>2. CASE q > f
      <4>1. /\ q - 1 \in 1 .. Len(a) + Len(b) /\ ~(q - 1 <= Len(a))
            /\ (q - 1) - Len(a) \in 1 .. Len(t[ea]) - f
            /\ f + ((q - 1) - Len(a)) = q
        BY <2>a, <3>2
      <4>2. l[q - 1] = b[(q - 1) - Len(a)]
        BY <2>6, <4>1
      <4>3. b[(q - 1) - Len(a)] = t[ea][q]
        BY <2>5, <4>1
      <4>4. q - 1 \in 1 .. Len(l)
        BY <2>6, <4>1
      <4> QED
        BY <4>2, <4>3, <4>4
    <3> QED
      BY <2>1, <2>8, <3>1, <3>2
  <2>9. /\ DOMAIN s = DOMAIN t /\ s[ea] = l /\ Table(S, s)
        /\ \A x \in DOMAIN t : x # ea => s[x] = t[x]
    BY <2>1, <2>2, <2>3, <2>6 DEF Table
  <2>10. ASSUME NEW j, NEW e, j # ea PROVE Entry(s, j, e) <=> Entry(t, j, e)
    BY <2>9, <2>10 DEF Entry
  <2>11. ASSUME NEW e, Entry(s, ea, e) PROVE Entry(t, ea, e)
    BY <2>1, <2>7, <2>9, <2>11 DEF Entry
  <2>12. ASSUME NEW e, Entry(t, ea, e), e.path_id # pid PROVE Entry(s, ea, e)
    <3>1. PICK q \in 1 .. Len(t[ea]) : t[ea][q] = e
      BY <2>12 DEF Entry
    <3>2. q # f
      BY <2>1, <2>12, <3>1
    <3> QED
      BY <2>1, <2>8, <2>9, <3>1, <3>2 DEF Entry
  <2> QED
    BY <2>9, <2>10, <2>11, <2>12 DEF s
<1> QED
  BY <1>1, <1>2

\* rt_add_route stores the route under both ends of its path, or fails: then
\* tear_down_path takes the new copy out again, or an older one.
LEMMA RouteAdded ==
    ASSUME NEW n \in Node, NEW S, Table(S, rt[n]), NEW p \in Path, NEW na, NEW nb,
           RouteOf(p, na, nb) \in S, NEW out \in AddRoute(n, p, na, nb)
    PROVE  /\ out.ok \in BOOLEAN
           /\ Table(S, out.table)
           /\ out.ok => /\ out.msgs = {}
                        /\ Adds(rt[n], out.table, p, RouteOf(p, na, nb))
           /\ ~out.ok => /\ out.msgs \subseteq TornBy(n, p)
                         /\ Drops(rt[n], out.table, p)
<1> DEFINE t == rt[n]
           r == RouteOf(p, na, nb)
           one == T(n)!Insert(t, p.src, r)
           two == T(n)!Insert(one, p.dst, r)
<1>1. p.src \in Id \ {0} /\ p.dst \in Id \ {0}
  BY SetupAssumption
<1>2. PICK o \in T(n)!rt_add_route(t, r) :
         out = [ok |-> o.ret = 1,
                table |-> IF o.ret = 1 THEN o.table
                          ELSE T(n)!tear_down_path(o.table, p.pid, p.src),
                msgs |-> IF o.ret = 1 THEN {} ELSE tear_down_path(n, o.table, p)]
  BY DEF AddRoute, RouteOf
<1>3. \/ o = [table |-> two, ret |-> 1]
      \/ \E s \in T(n)!NoMemory(t, p.src) \cup T(n)!NoMemory(one, p.dst) :
            o = [table |-> s, ret |-> 0]
  BY <1>2 DEF T!rt_add_route, RouteOf
<1>a. r \in S /\ r.path_id = p.pid
  BY DEF RouteOf
<1> HIDE DEF r
<1>4. /\ Table(S, one)
      /\ \A j, e : Entry(one, j, e) <=> Entry(t, j, e) \/ (j = p.src /\ e = r)
  BY <1>1, <1>a, NewCopy
<1>b. \E l \in Seq(S) : FrontOf(one, t, p.src, r, l)
  BY <1>1, <1>a, FrontCopy
<1> HIDE DEF one
<1>5. /\ Table(S, two)
      /\ \A j, e : Entry(two, j, e) <=> Entry(one, j, e) \/ (j = p.dst /\ e = r)
  BY <1>1, <1>4, <1>a, NewCopy
<1> HIDE DEF two
<1>6. CASE o = [table |-> two, ret |-> 1]
  <2>1. out.ok = TRUE /\ out.table = two /\ out.msgs = {}
    BY <1>2, <1>6
  <2>2. Adds(t, two, p, r)
    BY <1>4, <1>5 DEF Adds
  <2> QED
    BY <1>5, <2>1, <2>2 DEF r
<1>7. ASSUME NEW s \in T(n)!NoMemory(t, p.src) \cup T(n)!NoMemory(one, p.dst),
             o = [table |-> s, ret |-> 0]
      PROVE  /\ out.ok = FALSE /\ Table(S, out.table)
             /\ out.msgs \subseteq TornBy(n, p) /\ Drops(t, out.table, p)
  <2>1. /\ out.ok = FALSE /\ out.msgs = tear_down_path(n, s, p)
        /\ out.table = T(n)!rt_remove_route(s, p.src, p.pid)
    <3>1. o.ret # 1 /\ o.table = s
      BY <1>7
    <3> QED
      BY <1>2, <3>1 DEF T!tear_down_path
  <2>2. \/ s \in {t, T(n)!rt_find_insert_node(t, p.src)}
        \/ s \in {one, T(n)!rt_find_insert_node(one, p.dst)}
    BY <1>1, <1>7 DEF T!NoMemory
  <2>3. /\ Table(S, s)
        /\ \A j, e : Entry(s, j, e) => Entry(t, j, e) \/ (j = p.src /\ e = r)
        /\ \A j, e : Entry(t, j, e) => Entry(s, j, e)
    <3>1. CASE s \in {t, T(n)!rt_find_insert_node(t, p.src)}
      BY <1>1, <3>1, NewNode
    <3>2. CASE s \in {one, T(n)!rt_find_insert_node(one, p.dst)}
      <4>1. Table(S, s) /\ \A j, e : Entry(s, j, e) <=> Entry(one, j, e)
        <5> DEFINE u == T(n)!rt_find_insert_node(one, p.dst)
        <5>1. Table(S, u) /\ \A j, e : Entry(u, j, e) <=> Entry(one, j, e)
          BY <1>1, <1>4, NewNode
        <5> QED
          BY <1>4, <3>2, <5>1
      <4> QED
        BY <1>4, <4>1
    <3> QED
      BY <2>2, <3>1, <3>2
  <2>4. /\ Table(S, out.table)
        /\ \A j, e : Entry(out.table, j, e) => Entry(s, j, e)
        /\ \A j, e : Entry(s, j, e) /\ (j # p.src \/ e.path_id # p.pid)
              => Entry(out.table, j, e)
    BY <2>1, <2>3, Removed
  <2>5. out.msgs \subseteq TornBy(n, p)
    BY <2>1 DEF tear_down_path, send_teardown, TornBy
  <2>6. \A j, e : Entry(out.table, j, e) => Entry(t, j, e)
    <3>1. CASE s \in {t, T(n)!rt_find_insert_node(t, p.src)}
      <4>1. \A j, e : Entry(s, j, e) => Entry(t, j, e)
        BY <1>1, <3>1, NewNode
      <4> QED
        BY <2>4, <4>1
    <3>2. CASE s \in {one, T(n)!rt_find_insert_node(one, p.dst)}
      <4>1. PICK l \in Seq(S) : FrontOf(one, t, p.src, r, l)
        BY <1>b
      <4>2. FrontOf(s, t, p.src, r, l)
        BY <3>2, <4>1 DEF FrontOf, T!rt_find_insert_node
      <4>3. \A e : Entry(T(n)!rt_remove_route(s, p.src, r.path_id), p.src, e)
                     => Entry(t, p.src, e)
        BY <1>a, <2>3, <4>2, FrontRemoved
      <4>4. \A e : Entry(out.table, p.src, e) => Entry(t, p.src, e)
        BY <1>a, <2>1, <4>3
      <4> QED
        BY <2>3, <2>4, <4>4
    <3> QED
      BY <2>2, <3>1, <3>2
  <2> QED
    BY <2>1, <2>3, <2>4, <2>5, <2>6 DEF Drops
<1> QED
  BY <1>3, <1>6, <1>7 DEF r
-----------------------------------------------------------------------------
(***************************************************************************)
(* The invariant of the tables and the messages.                           *)
(***************************************************************************)

\* What a route stored under endpoint k of node n looks like: it belongs to a
\* path whose identifier was drawn, the previous hop is a neighbour unless the
\* path starts here, and the next hop is a neighbour or none.
RouteOK(n, k, e) ==
    /\ k \in {e.ea, e.eb}
    /\ e.na \in Adjacent[n] \cup {n}
    /\ e.na = n => e.ea = n
    /\ e.nb \in Adjacent[n] \cup {0}
    /\ \E p \in drawn : p.pid = e.path_id /\ p.src = e.ea /\ p.dst = e.eb

Tabled ==
    /\ rt = [n \in Node |-> rt[n]]
    /\ \A n \in Node :
        /\ Table(T(n)!Route, rt[n])
        /\ \A k \in DOMAIN rt[n] : \A i \in 1 .. Len(rt[n][k]) :
              RouteOK(n, k, rt[n][k][i])

Typed ==
    /\ pset \in [Node -> SUBSET Node]
    /\ \A n \in Node : pset[n] \subseteq Adjacent[n]
    /\ up \in [Node -> BOOLEAN]
    /\ proxies \in [Node -> SUBSET Node]
    /\ \A n \in Node : proxies[n] \subseteq pset[n]
    /\ active \in [Node -> BOOLEAN]
    /\ vset \in [Node -> SUBSET Id]
    /\ vset_size \in [Node -> Nat]
    /\ drawn \subseteq Path
    /\ faults \in 0 .. MaxFaults

\* A setup_req names a neighbour of its source as proxy.
ReqOK == {m \in SetupReq : m.proxy \in Adjacent[m.src]}

\* A setup comes from a neighbour, for a path whose identifier was drawn; its
\* proxy is a neighbour of the destination.
SetupOK ==
    {m \in SetupMsg : /\ m.from \in Adjacent[m.to] /\ m.path \in drawn
                      /\ m.proxy \in Adjacent[m.path.dst]}

Posted == net \subseteq ReqOK \cup SetupOK \cup SetupFail \cup Teardown

SetupInv == Tabled /\ Typed /\ Posted

\* A setup in flight was sent along a route of its sender.
Traced ==
    \A m \in net : m.type = "setup" /\ m.path.src # m.path.dst =>
        Leads(m.from, m.path, m.to)
-----------------------------------------------------------------------------
(***************************************************************************)
(* What the handlers look up and send.                                     *)
(***************************************************************************)

\* The constants, as the proofs use them.
LEMMA Network ==
    /\ Node \subseteq Id /\ 0 \notin Node /\ 0 \in Id
    /\ \A n \in Node : /\ Adjacent[n] \subseteq Node /\ n \notin Adjacent[n]
                       /\ \A m \in Adjacent[n] : n \in Adjacent[m]
    /\ \A p \in Path : p.pid \in Nat /\ p.src \in Node /\ p.dst \in Node
    /\ \A p, q \in Path : p.pid = q.pid => p = q
<1>1. 0 \in Id
  BY RingAssumption DEF Id
<1>2. \A n \in Node : Adjacent[n] \subseteq Node
  BY SetupAssumption
<1> QED
  BY <1>1, <1>2, SetupAssumption

\* Every entry of a table is well formed.
LEMMA Entries ==
    ASSUME Tabled, NEW n \in Node, NEW k, NEW e, Entry(rt[n], k, e)
    PROVE  k \in DOMAIN rt[n] /\ RouteOK(n, k, e)
BY DEF Tabled, Entry

\* The next hop of a lookup is a neighbour, or 0.
LEMMA LookupRange ==
    ASSUME Tabled, NEW n \in Node, NEW dest
    PROVE  T(n)!rt_get_next(rt[n], dest) \in Adjacent[n] \cup {0}
<1> DEFINE l == rt[n][dest]
<1>1. CASE dest \notin DOMAIN rt[n] \/ dest = n
  BY <1>1 DEF T!rt_get_next
<1>2. CASE dest \in DOMAIN rt[n] /\ dest # n
  <2>1. T(n)!rt_get_next(rt[n], dest) = T(n)!route_list_search(l, dest)
    BY <1>2 DEF T!rt_get_next
  <2>2. CASE ~\E i \in 1 .. Len(l) : T(n)!IsMax(l, i)
    BY <2>1, <2>2 DEF T!route_list_search
  <2>3. CASE \E i \in 1 .. Len(l) : T(n)!IsMax(l, i)
    <3> DEFINE j == CHOOSE i \in 1 .. Len(l) : T(n)!IsMax(l, i)
               e == l[j]
    <3>1. j \in 1 .. Len(l)
      BY <2>3
    <3>2. RouteOK(n, dest, e)
      BY <1>2, <3>1 DEF Tabled
    <3>3. l \in Seq(T(n)!Route)
      BY <1>2 DEF Tabled, Table
    <3>4. e \in T(n)!Route
      <4> HIDE DEF j, l
      <4>1. \A i \in 1 .. Len(l) : l[i] \in T(n)!Route
        BY <3>3
      <4> QED
        BY <3>1, <4>1
    <3>5. e.na \in Adjacent[n] \cup {0, n}
      BY <3>4 DEF T!Route, T!Hop
    <3>6. T(n)!route_list_search(l, dest) =
            IF T(n)!get_diff(dest, e.ea) < T(n)!get_diff(dest, e.eb)
            THEN IF e.ea # n THEN e.na ELSE e.nb
            ELSE IF e.eb # n THEN e.nb ELSE e.na
      BY <2>3 DEF T!route_list_search
    <3> HIDE DEF e
    <3>7. e.na = n => e.ea = n /\ e.eb # n
      BY <1>2, <3>2 DEF RouteOK
    <3> QED
      BY <2>1, <3>2, <3>5, <3>6, <3>7 DEF RouteOK
  <2> QED
    BY <2>2, <2>3
<1> QED
  BY <1>1, <1>2

\* So is the next hop of a setup or setup_fail.
LEMMA NextHopRange ==
    ASSUME Tabled, Typed, NEW n \in Node, NEW dst, NEW proxy
    PROVE  /\ NextHop(n, dst, proxy) \in Adjacent[n] \cup {0}
           /\ T(n)!NextHop(dst, proxy) \in Adjacent[n] \cup {0}
<1>1. T(n)!rt_get_next(rt[n], proxy) \in Adjacent[n] \cup {0}
  BY LookupRange
<1>2. pset[n] \subseteq Adjacent[n]
  BY DEF Typed
<1> QED
  BY <1>1, <1>2 DEF NextHop, T!NextHop

\* What vset_get_all returns is an offer.
LEMMA Offers ==
    ASSUME Typed, NEW n \in Node, NEW offer \in vset_get_all(n)
    PROVE  offer \in Offer
<1>1. vset[n] \subseteq Id /\ vset_size[n] \in Nat /\ Junk \subseteq Id
  BY SetupAssumption DEF Typed
<1>2. PICK J \in SUBSET Junk : offer = [ids |-> vset[n] \cup J, size |-> vset_size[n]]
  BY DEF vset_get_all
<1> QED
  BY <1>1, <1>2 DEF Offer

\* What vrr_add sends for the nodes of an offer are setup_reqs.
LEMMA RequestsSent ==
    ASSUME Typed, NEW n \in Node, NEW ids \in SUBSET Id, NEW reqs \in Requests(n, ids)
    PROVE  reqs \subseteq ReqOK
<1>1. CASE proxies[n] = {}
  BY <1>1 DEF Requests
<1>2. CASE proxies[n] # {}
  <2>0. PICK W \in SUBSET (ids \ vset[n]) :
           \E c \in [W -> proxies[n] \X vset_get_all(n)] :
              reqs = {send_setup_req(n, id, c[id][1], c[id][2]) : id \in W}
    BY <1>2 DEF Requests
  <2>1. PICK c \in [W -> proxies[n] \X vset_get_all(n)] :
           reqs = {send_setup_req(n, id, c[id][1], c[id][2]) : id \in W}
    BY <2>0
  <2>2. ASSUME NEW id \in W PROVE send_setup_req(n, id, c[id][1], c[id][2]) \in ReqOK
    <3>1. id \in Id /\ c[id][1] \in Adjacent[n] /\ c[id][2] \in vset_get_all(n)
      BY DEF Typed
    <3>2. c[id][2] \in Offer
      BY <3>1, Offers
    <3> QED
      BY <3>1, <3>2, Network DEF send_setup_req, ReqOK, SetupReq
  <2> QED
    BY <2>1, <2>2
<1> QED
  BY <1>1, <1>2

\* vrr_add takes in at most the node it is called for.
LEMMA VsetAdded ==
    ASSUME NEW S, NEW size \in Nat, NEW src, NEW add \in Added(S, size, src)
    PROVE  /\ add.ret \in BOOLEAN /\ add.size \in Nat
           /\ add.set \subseteq S \cup {src}
<1>1. \/ add = [set |-> S, size |-> size, ret |-> FALSE]
      \/ \E R \in vset_add(S, size, src) :
            add = [set |-> R, size |-> size + 1, ret |-> TRUE]
  BY DEF Added
<1>2. CASE add = [set |-> S, size |-> size, ret |-> FALSE]
  BY <1>2
<1>3. ASSUME NEW R \in vset_add(S, size, src),
             add = [set |-> R, size |-> size + 1, ret |-> TRUE]
      PROVE  add.ret = TRUE /\ add.size \in Nat /\ add.set \subseteq S \cup {src}
  <2>1. R \subseteq S \cup {src}
    BY DEF vset_add
  <2> QED
    BY <1>3, <2>1
<1> QED
  BY <1>1, <1>2, <1>3

\* The type of a message tells its kind.
LEMMA Kinds ==
    ASSUME Posted, NEW m \in net
    PROVE  /\ m.type = "setup_req" => m \in ReqOK
           /\ m.type = "setup" => m \in SetupOK
           /\ m.type = "setup_fail" => m \in SetupFail
           /\ m.type = "teardown" => m \in Teardown
BY DEF Posted, ReqOK, SetupReq, SetupOK, SetupMsg, SetupFail, Teardown
-----------------------------------------------------------------------------
(***************************************************************************)
(* What a step does to the tables and the setups in flight.                *)
(***************************************************************************)

\* A setup like m was in flight before.
Carried(m) ==
    \E o \in net : /\ o.type = "setup" /\ o.from = m.from
                   /\ o.to = m.to /\ o.path = m.path

\* A next hop nb for path p at node n: the destination, or what the table has for
\* a neighbour of the destination.
Aimed(n, p, nb) ==
    /\ nb \in Adjacent[n] \cup {0}
    /\ n = p.dst /\ n # p.src => nb = 0
    /\ \/ nb \in {0, p.dst}
       \/ \E proxy \in Adjacent[p.dst] : nb = T(n)!rt_get_next(rt[n], proxy)

\* No table changes and no setup is new.
Still ==
    /\ rt' = rt
    /\ \A m \in net' : m.type = "setup" => Carried(m)

\* Node n stores a path that starts here or that a setup announced, and may
\* send the setup on to the next hop it stored.
Lays(n, p, na, nb) ==
    /\ Aimed(n, p, nb)
    /\ \A x \in Node \ {n} : rt'[x] = rt[x]
    /\ Adds(rt[n], rt'[n], p, RouteOf(p, na, nb))
    /\ \/ na = n /\ p.src = n
       \/ \E m \in net : m.type = "setup" /\ m.from = na /\ m.to = n /\ m.path = p
    /\ \A m \in net' : m.type = "setup" =>
          Carried(m) \/ (m.from = n /\ m.to = nb /\ m.path = p)

\* Node n removes path p.
Tears(n, p) ==
    /\ \A x \in Node \ {n} : rt'[x] = rt[x]
    /\ Drops(rt[n], rt'[n], p)
    /\ \A m \in net' : m.type = "setup" => Carried(m)

Effect ==
    \/ Still
    \/ \E n, na \in Node, p \in Path, nb \in Node \cup {0} : Lays(n, p, na, nb)
    \/ \E n \in Node, p \in Path : Tears(n, p)

\* The tables stay well formed when one node stores well-formed routes.
LEMMA TabledStep ==
    ASSUME Tabled, drawn \subseteq drawn', NEW n \in Node, NEW u,
           rt' = [rt EXCEPT ![n] = u], Table(T(n)!Route, u),
           \A j, e : Entry(u, j, e) => Entry(rt[n], j, e) \/ RouteOK(n, j, e)'
    PROVE  Tabled' /\ rt'[n] = u /\ \A x \in Node \ {n} : rt'[x] = rt[x]
<1>1. rt'[n] = u /\ \A x \in Node \ {n} : rt'[x] = rt[x]
  BY DEF Tabled
<1>2. rt' = [x \in Node |-> rt'[x]]
  BY DEF Tabled
<1>3. ASSUME NEW x, NEW k, NEW e, RouteOK(x, k, e) PROVE RouteOK(x, k, e)'
  BY <1>3 DEF RouteOK
<1>4. ASSUME NEW x \in Node
      PROVE  /\ Table(T(x)!Route, rt[x])'
             /\ (\A k \in DOMAIN rt[x] : \A i \in 1 .. Len(rt[x][k]) :
                   RouteOK(x, k, rt[x][k][i]))'
  <2>1. CASE x # n
    <3>1. rt'[x] = rt[x]
      BY <1>1, <2>1
    <3>2. Table(T(x)!Route, rt[x])
      BY DEF Tabled
    <3>3. \A k \in DOMAIN rt[x] : \A i \in 1 .. Len(rt[x][k]) :
             RouteOK(x, k, rt[x][k][i])
      BY DEF Tabled
    <3> QED
      BY <3>1, <3>2, <3>3 DEF RouteOK
  <2>2. CASE x = n
    <3>1. ASSUME NEW k \in DOMAIN u, NEW i \in 1 .. Len(u[k]), NEW e, e = u[k][i]
          PROVE  RouteOK(n, k, e)'
      <4>1. Entry(u, k, e)
        BY <3>1 DEF Entry
      <4>2. Entry(rt[n], k, e) \/ RouteOK(n, k, e)'
        BY <4>1
      <4>3. Entry(rt[n], k, e) => RouteOK(n, k, e)
        BY Entries
      <4> QED
        BY <4>2, <4>3, <1>3
    <3> QED
      BY <1>1, <2>2, <3>1 DEF RouteOK
  <2> QED
    BY <2>1, <2>2
<1> QED
  BY <1>1, <1>2, <1>4 DEF Tabled

\* The next hop that a setup takes.
LEMMA AimedHop ==
    ASSUME Tabled, Typed, NEW n \in Node, NEW p \in Path, NEW proxy \in Adjacent[p.dst]
    PROVE  /\ Aimed(n, p, T(n)!NextHop(p.dst, proxy))
           /\ n = p.src => Aimed(n, p, NextHop(n, p.dst, proxy))
<1>1. n \notin pset[n]
  BY Network DEF Typed
<1> QED
  BY <1>1, NextHopRange DEF Aimed, NextHop, T!NextHop

\* The messages stay well formed when well-formed ones are sent.
LEMMA PostedStep ==
    ASSUME Posted, drawn \subseteq drawn', NEW sent,
           net' \subseteq net \cup sent,
           sent \subseteq ReqOK \cup SetupOK' \cup SetupFail \cup Teardown
    PROVE  Posted'
<1>1. SetupOK \subseteq SetupOK'
  BY DEF SetupOK
<1> QED
  BY <1>1 DEF Posted

\* Nothing about the tables changes.
LEMMA TabledSame ==
    ASSUME Tabled, rt' = rt, drawn' = drawn
    PROVE  Tabled'
BY DEF Tabled, RouteOK

\* A hello: the physical set grows, a join request may leave.
LEMMA HelloStep ==
    ASSUME SetupInv, NEW n \in Node, NEW m \in Node, pset_update_handler(n, m)
    PROVE  SetupInv' /\ Effect
<1>0. Tabled /\ Typed /\ Posted
  BY DEF SetupInv
<1>1. /\ m \in Adjacent[n] /\ pset' = [pset EXCEPT ![n] = @ \cup {m}]
      /\ proxies' = [proxies EXCEPT ![n] = IF active[m] THEN @ \cup {m} ELSE @]
      /\ UNCHANGED <<rt, active, vset, vset_size, up, drawn, faults>>
  BY DEF pset_update_handler
<1>2. \E sent \in SUBSET ReqOK : net' = net \cup sent
  <2>1. CASE active[m] /\ ~active[n]
    <3>1. PICK offer \in vset_get_all(n) : net' = net \cup {send_setup_req(n, n, m, offer)}
      BY <2>1 DEF pset_update_handler
    <3>2. send_setup_req(n, n, m, offer) \in ReqOK
      BY <1>0, <1>1, Offers, Network DEF send_setup_req, ReqOK, SetupReq
    <3> QED
      BY <3>1, <3>2
  <2>2. CASE ~(active[m] /\ ~active[n])
    <3>1. net' = net \cup {}
      BY <2>2 DEF pset_update_handler
    <3> QED
      BY <3>1
  <2> QED
    BY <2>1, <2>2
<1>3. PICK sent \in SUBSET ReqOK : net' = net \cup sent
  BY <1>2
<1>4. \A x \in sent : x.type = "setup_req"
  BY DEF ReqOK, SetupReq
<1>5. Typed'
  BY <1>0, <1>1, Network DEF Typed
<1>6. Posted'
  BY <1>0, <1>1, <1>3, PostedStep
<1>8. Still
  BY <1>1, <1>3, <1>4 DEF Still, Carried
<1> QED
  BY <1>0, <1>1, <1>5, <1>6, <1>8, TabledSame DEF SetupInv, Effect

\* A silent neighbour is a fault and no table changes.
LEMMA SilenceStep ==
    ASSUME SetupInv, NEW n \in Node, NEW m \in Node, detect_failures(n, m)
    PROVE  SetupInv' /\ Effect
<1>0. Tabled /\ Typed /\ Posted
  BY DEF SetupInv
<1>1. /\ proxies' = [proxies EXCEPT ![n] = @ \ {m}]
      /\ \/ m \in proxies[n] /\ pset' = pset
         \/ m \in pset[n] \ proxies[n] /\ pset' = [pset EXCEPT ![n] = @ \ {m}]
      /\ UNCHANGED <<rt, active, vset, vset_size, up, net, drawn>>
      /\ faults' = faults + 1 /\ faults' <= MaxFaults
  BY DEF detect_failures, CountFault
<1>2. faults' \in 0 .. MaxFaults
  BY <1>0, <1>1, SetupAssumption DEF Typed
<1>3. Typed'
  BY <1>0, <1>1, <1>2 DEF Typed
<1>4. Posted'
  BY <1>0, <1>1, PostedStep
<1>5. Still
  BY <1>1 DEF Still, Carried
<1> QED
  BY <1>0, <1>1, <1>2, <1>3, <1>4, <1>5, TabledSame DEF SetupInv, Effect

\* A setup_req passes on.
LEMMA ForwardReqStep ==
    ASSUME SetupInv, NEW m \in net, NEW n \in Node, vrr_forward_setup_req(n, m)
    PROVE  SetupInv' /\ Effect
<1>0. Tabled /\ Typed /\ Posted
  BY DEF SetupInv
<1>1. m \in ReqOK
  BY <1>0, Kinds DEF vrr_forward_setup_req, Receives
<1>2. PICK nh : Replace(m, IF nh \in pset[n] THEN {[m EXCEPT !.to = nh]} ELSE {})
  BY DEF vrr_forward_setup_req
<1>3. UNCHANGED <<rt, pset, proxies, active, vset, vset_size, up, drawn, faults>>
  BY DEF vrr_forward_setup_req
<1> DEFINE sent == IF nh \in pset[n] THEN {[m EXCEPT !.to = nh]} ELSE {}
<1>4. sent \subseteq ReqOK
  <2>1. pset[n] \subseteq Node
    BY <1>0 DEF Typed
  <2> QED
    BY <1>1, <2>1 DEF ReqOK, SetupReq
<1>5. \A x \in sent : x.type = "setup_req"
  BY <1>4 DEF ReqOK, SetupReq
<1>6. net' = (net \ {m}) \cup sent
  BY <1>2 DEF Replace
<1> HIDE DEF sent
<1>7. Typed'
  BY <1>0, <1>3 DEF Typed
<1>8. Posted'
  BY <1>0, <1>3, <1>4, <1>6, PostedStep
<1>10. Still
  BY <1>3, <1>5, <1>6 DEF Still, Carried
<1> QED
  BY <1>0, <1>3, <1>7, <1>8, <1>10, TabledSame DEF SetupInv, Effect

\* A setup_fail passes on, or its offer is followed.
LEMMA FailStep ==
    ASSUME SetupInv, NEW m \in net, NEW n \in Node, vrr_rcv_setup_fail(n, m)
    PROVE  SetupInv' /\ Effect
<1>0. Tabled /\ Typed /\ Posted
  BY DEF SetupInv
<1>1. m \in SetupFail
  BY <1>0, Kinds DEF vrr_rcv_setup_fail, Receives
<1>2. UNCHANGED <<rt, pset, proxies, active, vset, vset_size, up, drawn, faults>>
  BY DEF vrr_rcv_setup_fail
<1> DEFINE nh == NextHop(n, m.dst, m.proxy)
<1>3. \E sent \in SUBSET (ReqOK \cup SetupFail) : net' = (net \ {m}) \cup sent
  <2>1. CASE m.offer.size > VRR_VSET_SIZE
    BY <2>1 DEF vrr_rcv_setup_fail, Replace
  <2>2. CASE ~(m.offer.size > VRR_VSET_SIZE) /\ nh # 0
    <3>1. Replace(m, send_setup_fail(n, m.src, m.dst, m.proxy, m.offer, nh))
      BY <2>2 DEF vrr_rcv_setup_fail
    <3>2. pset[n] \subseteq Node
      BY <1>0 DEF Typed
    <3>3. send_setup_fail(n, m.src, m.dst, m.proxy, m.offer, nh) \subseteq SetupFail
      BY <1>1, <3>2 DEF send_setup_fail, SetupFail
    <3> QED
      BY <3>1, <3>3 DEF Replace
  <2>3. CASE ~(m.offer.size > VRR_VSET_SIZE) /\ nh = 0
    <3>1. PICK reqs \in IF m.dst = n THEN Requests(n, m.offer.ids) ELSE {{}} :
             Replace(m, reqs)
      BY <2>3 DEF vrr_rcv_setup_fail
    <3>2. m.offer.ids \in SUBSET Id
      BY <1>1 DEF SetupFail, Offer
    <3>3. reqs \subseteq ReqOK
      BY <1>0, <3>1, <3>2, RequestsSent
    <3> QED
      BY <3>1, <3>3 DEF Replace
  <2> QED
    BY <2>1, <2>2, <2>3
<1>4. PICK sent \in SUBSET (ReqOK \cup SetupFail) : net' = (net \ {m}) \cup sent
  BY <1>3
<1>5. \A x \in sent : x.type \in {"setup_req", "setup_fail"}
  BY DEF ReqOK, SetupReq, SetupFail
<1>6. Typed'
  BY <1>0, <1>2 DEF Typed
<1>7. Posted'
  BY <1>0, <1>2, <1>4, PostedStep
<1>9. Still
  BY <1>2, <1>4, <1>5 DEF Still, Carried
<1> QED
  BY <1>0, <1>2, <1>6, <1>7, <1>9, TabledSame DEF SetupInv, Effect

\* A message is lost or doubled: a fault, and no setup of another path.
LEMMA AirStep ==
    ASSUME SetupInv, NEW m \in net, Lose(m) \/ Repeat(m)
    PROVE  SetupInv' /\ Effect
<1>0. Tabled /\ Typed /\ Posted
  BY DEF SetupInv
<1>1. /\ UNCHANGED <<rt, pset, proxies, active, vset, vset_size, up, drawn>>
      /\ faults' = faults + 1 /\ faults' <= MaxFaults
  BY DEF Lose, Repeat, CountFault
<1>2. faults' \in 0 .. MaxFaults
  BY <1>0, <1>1, SetupAssumption DEF Typed
<1>3. Typed'
  BY <1>0, <1>1, <1>2 DEF Typed
<1>4. Posted' /\ Still
  <2>1. CASE Lose(m)
    <3>1. net' = net \ {m}
      BY <2>1 DEF Lose, Replace
    <3>2. Posted'
      BY <1>0, <1>1, <3>1, PostedStep
    <3> QED
      BY <1>1, <3>1, <3>2 DEF Still, Carried
  <2>2. CASE Repeat(m)
    <3> DEFINE c == [m EXCEPT !.copy = 2]
    <3>1. m.type = "setup" /\ net' = (net \ {m}) \cup {m, c}
      BY <2>2 DEF Repeat, Replace
    <3>2. m \in SetupOK
      BY <1>0, <3>1, Kinds
    <3>3. c \in SetupOK' /\ c.from = m.from /\ c.to = m.to /\ c.path = m.path
      BY <1>1, <3>2 DEF SetupOK, SetupMsg
    <3> HIDE DEF c
    <3>4. Posted'
      BY <1>0, <1>1, <3>1, <3>3, PostedStep
    <3> QED
      BY <1>1, <3>1, <3>3, <3>4, <1>2 DEF Still, Carried
  <2> QED
    BY <2>1, <2>2
<1> QED
  BY <1>0, <1>1, <1>2, <1>3, <1>4, TabledSame DEF SetupInv, Effect

\* Node n stores a path, or fails to.
LEMMA StoreStep ==
    ASSUME Tabled, Typed, drawn \subseteq drawn', NEW n \in Node, NEW p \in Path,
           p \in drawn', NEW na \in Adjacent[n] \cup {n}, na = n => p.src = n,
           NEW nb \in Adjacent[n] \cup {0}, NEW out \in AddRoute(n, p, na, nb),
           rt' = [rt EXCEPT ![n] = out.table]
    PROVE  /\ Tabled'
           /\ \A x \in Node \ {n} : rt'[x] = rt[x]
           /\ out.ok \in BOOLEAN
           /\ out.ok => out.msgs = {} /\ Adds(rt[n], rt'[n], p, RouteOf(p, na, nb))
           /\ ~out.ok => /\ out.msgs \subseteq Teardown
                         /\ Drops(rt[n], rt'[n], p)
<1> DEFINE r == RouteOf(p, na, nb)
<1>1. p.src \in Id /\ p.dst \in Id /\ p.pid \in Nat /\ n # 0 /\ n \notin Adjacent[n]
  BY Network
<1>2. r \in T(n)!Route
  BY <1>1 DEF RouteOf, T!Route, T!Hop, T!Id, Id
<1>3. Table(T(n)!Route, rt[n])
  BY DEF Tabled
<1>4. /\ out.ok \in BOOLEAN
      /\ Table(T(n)!Route, out.table)
      /\ out.ok => out.msgs = {} /\ Adds(rt[n], out.table, p, r)
      /\ ~out.ok => out.msgs \subseteq TornBy(n, p) /\ Drops(rt[n], out.table, p)
  BY <1>2, <1>3, RouteAdded
<1>5. RouteOK(n, p.src, r)' /\ RouteOK(n, p.dst, r)'
  <2>1. /\ r.ea = p.src /\ r.eb = p.dst /\ r.na = na /\ r.nb = nb
        /\ r.path_id = p.pid
    BY DEF RouteOf
  <2> HIDE DEF r
  <2> QED
    BY <2>1 DEF RouteOK
<1> HIDE DEF r
<1>6. \A j, e : Entry(out.table, j, e) => Entry(rt[n], j, e) \/ RouteOK(n, j, e)'
  <2>1. ASSUME NEW j, NEW e, Entry(out.table, j, e)
        PROVE  Entry(rt[n], j, e) \/ (j \in {p.src, p.dst} /\ e = r)
    BY <1>4, <2>1 DEF Adds, Drops
  <2> QED
    BY <1>5, <2>1
<1>7. Tabled' /\ rt'[n] = out.table /\ \A x \in Node \ {n} : rt'[x] = rt[x]
  BY <1>4, <1>6, TabledStep
<1>8. TornBy(n, p) \subseteq Teardown
  <2>1. pset[n] \subseteq Node
    BY DEF Typed
  <2> QED
    BY <2>1 DEF TornBy, Teardown
<1> QED
  BY <1>4, <1>7, <1>8 DEF r

\* The setup that a node sends on after it stored the path.
LEMMA SetupSent ==
    ASSUME Typed, NEW n \in Node, NEW p \in Path, p \in drawn',
           NEW proxy \in Adjacent[p.dst], NEW offer \in Offer, NEW nh
    PROVE  /\ send_setup(n, p, proxy, offer, nh) \subseteq SetupOK'
           /\ \A x \in send_setup(n, p, proxy, offer, nh) :
                 x.type = "setup" /\ x.from = n /\ x.to = nh /\ x.path = p
<1>1. pset[n] \subseteq Adjacent[n] /\ pset[n] \subseteq Node
  BY DEF Typed
<1>2. (nh \in pset[n] => nh \in Node /\ n \in Adjacent[nh]) /\ proxy \in Node
  BY <1>1, Network
<1> QED
  BY <1>2 DEF send_setup, SetupOK, SetupMsg

\* A setup_req ends: a path is stored and its setup sent, or a setup_fail is.
LEMMA ReqStep ==
    ASSUME SetupInv, NEW m \in net, NEW n \in Node, vrr_rcv_setup_req(n, m)
    PROVE  SetupInv' /\ Effect
<1>0. Tabled /\ Typed /\ Posted
  BY DEF SetupInv
<1>1. m \in ReqOK
  BY <1>0, Kinds DEF vrr_rcv_setup_req, Receives
<1>2. UNCHANGED <<pset, proxies, active, up>>
  BY DEF vrr_rcv_setup_req
<1>3. m.src \in Node /\ m.proxy \in Node /\ m.offer.ids \in SUBSET Id
      /\ m.type = "setup_req" /\ m.proxy \in Adjacent[m.src]
  BY <1>1 DEF ReqOK, SetupReq, Offer
<1>4. CASE m.offer.size > VRR_VSET_SIZE
  <2>1. Replace(m, {}) /\ UNCHANGED <<rt, vset, vset_size, drawn, faults>>
    BY <1>4 DEF vrr_rcv_setup_req
  <2>2. net' = net \ {m}
    BY <2>1 DEF Replace
  <2>3. Typed'
    BY <1>0, <1>2, <2>1 DEF Typed
  <2>4. Posted'
    BY <1>0, <2>1, <2>2, PostedStep
  <2>6. Still
    BY <2>1, <2>2 DEF Still, Carried
  <2> QED
    BY <1>0, <2>1, <2>3, <2>4, <2>6, TabledSame DEF SetupInv, Effect
<1>5. CASE ~(m.offer.size > VRR_VSET_SIZE)
  <2>1. PICK offer \in vset_get_all(n), reqs \in Requests(n, m.offer.ids),
             add \in Added(vset[n], vset_size[n], m.src) :
          /\ vset' = [vset EXCEPT ![n] = add.set]
          /\ vset_size' = [vset_size EXCEPT ![n] = add.size]
          /\ IF add.ret THEN vrr_local_rcv_setup(n, m, offer, reqs)
                        ELSE vrr_local_rcv_setup_fail(n, m, offer, reqs)
    BY <1>5 DEF vrr_rcv_setup_req
  <2>2. offer \in Offer /\ reqs \subseteq ReqOK
    BY <1>0, <1>3, Offers, RequestsSent
  <2>3. vset[n] \subseteq Id /\ vset_size[n] \in Nat
    BY <1>0 DEF Typed
  <2>4. /\ add.ret \in BOOLEAN /\ add.size \in Nat
        /\ add.set \subseteq vset[n] \cup {m.src}
    BY <2>3, VsetAdded
  <2>5. vset' \in [Node -> SUBSET Id] /\ vset_size' \in [Node -> Nat]
    BY <1>0, <1>3, <2>1, <2>3, <2>4, Network DEF Typed
  <2>7. CASE add.ret
    <3>1. PICK p \in Path \ drawn :
            /\ p.src = n /\ p.dst = m.src
            /\ drawn' = drawn \cup {p}
            /\ \E out \in AddRoute(n, p, n, NextHop(n, p.dst, m.proxy)) :
                /\ rt' = [rt EXCEPT ![n] = out.table]
                /\ CountFault(out.ok)
                /\ Replace(m, reqs \cup
                      IF out.ok THEN send_setup(n, p, m.proxy, offer,
                                                NextHop(n, p.dst, m.proxy))
                                ELSE out.msgs)
      BY <2>1, <2>7 DEF vrr_local_rcv_setup
    <3>2. PICK nh \in Adjacent[n] \cup {0} : nh = NextHop(n, p.dst, m.proxy)
      BY <1>0, NextHopRange
    <3>a. Aimed(n, p, nh)
      BY <1>0, <1>3, <3>1, <3>2, AimedHop
    <3>3. PICK out \in AddRoute(n, p, n, nh) :
            /\ rt' = [rt EXCEPT ![n] = out.table]
            /\ CountFault(out.ok)
            /\ Replace(m, reqs \cup IF out.ok THEN send_setup(n, p, m.proxy, offer, nh)
                                              ELSE out.msgs)
      BY <3>1, <3>2
    <3>4. drawn \subseteq drawn' /\ p \in drawn' /\ drawn' \subseteq Path
      BY <1>0, <3>1 DEF Typed
    <3>5. /\ Tabled'
          /\ \A x \in Node \ {n} : rt'[x] = rt[x]
          /\ out.ok \in BOOLEAN
          /\ out.ok => out.msgs = {} /\ Adds(rt[n], rt'[n], p, RouteOf(p, n, nh))
          /\ ~out.ok => /\ out.msgs \subseteq Teardown
                        /\ Drops(rt[n], rt'[n], p)
      BY <1>0, <3>1, <3>3, <3>4, StoreStep
    <3>6. nh \in Node \cup {0}
      BY <3>2, Network
    <3>7. CASE out.ok
      <4> DEFINE sent == send_setup(n, p, m.proxy, offer, nh)
      <4>1. /\ sent \subseteq SetupOK'
            /\ \A x \in sent : x.type = "setup" /\ x.from = n /\ x.to = nh /\ x.path = p
        BY <1>0, <1>3, <2>2, <3>1, <3>4, SetupSent
      <4>2. faults' = faults /\ net' = (net \ {m}) \cup (reqs \cup sent)
        BY <3>3, <3>7 DEF CountFault, Replace
      <4> HIDE DEF sent
      <4>3. \A x \in reqs : x.type = "setup_req"
        BY <2>2 DEF ReqOK, SetupReq
      <4>4. Typed'
        BY <1>0, <1>2, <2>5, <3>4, <4>2 DEF Typed
      <4>5. Posted'
        <5> DEFINE all == reqs \cup sent
        <5>1. all \subseteq ReqOK \cup SetupOK' \cup SetupFail \cup Teardown
          BY <2>2, <4>1
        <5>2. net' \subseteq net \cup all
          BY <4>2
        <5> HIDE DEF all
        <5> QED
          BY <1>0, <3>4, <5>1, <5>2, PostedStep
      <4>7. Lays(n, p, n, nh)
        <5>1. \A x \in net' : x.type = "setup" =>
                 Carried(x) \/ (x.from = n /\ x.to = nh /\ x.path = p)
          BY <4>1, <4>2, <4>3 DEF Carried
        <5> QED
          BY <3>1, <3>5, <3>7, <3>a, <5>1 DEF Lays
      <4> QED
        BY <3>5, <3>6, <4>2, <4>4, <4>5, <4>7 DEF SetupInv, Effect
    <3>8. CASE ~out.ok
      <4>1. /\ faults' = faults + 1 /\ faults' <= MaxFaults
            /\ net' = (net \ {m}) \cup (reqs \cup out.msgs)
        BY <3>3, <3>8 DEF CountFault, Replace
      <4>2. faults' \in 0 .. MaxFaults
        BY <1>0, <4>1, SetupAssumption DEF Typed
      <4>3. \A x \in reqs \cup out.msgs : x.type # "setup"
        BY <2>2, <3>5, <3>8 DEF ReqOK, SetupReq, Teardown
      <4>4. Typed'
        BY <1>0, <1>2, <2>5, <3>4, <4>2 DEF Typed
      <4>5. Posted'
        <5> DEFINE all == reqs \cup out.msgs
        <5>1. all \subseteq ReqOK \cup SetupOK' \cup SetupFail \cup Teardown
          BY <2>2, <3>5, <3>8
        <5>2. net' \subseteq net \cup all
          BY <4>1
        <5> HIDE DEF all
        <5> QED
          BY <1>0, <3>4, <5>1, <5>2, PostedStep
      <4>6. Tears(n, p)
        <5>1. \A x \in net' : x.type = "setup" => Carried(x)
          BY <4>1, <4>3 DEF Carried
        <5> QED
          BY <3>5, <3>8, <5>1 DEF Tears
      <4> QED
        BY <3>5, <3>6, <4>2, <4>4, <4>5, <4>6 DEF SetupInv, Effect
    <3> QED
      BY <3>5, <3>7, <3>8
  <2>8. CASE ~add.ret
    <3>1. UNCHANGED <<rt, drawn, faults>>
      BY <2>1, <2>8 DEF vrr_local_rcv_setup_fail
    <3>2. PICK more \in Requests(n, {m.src}) :
             Replace(m, reqs \cup more \cup
                          send_setup_fail(n, n, m.src, m.proxy, offer,
                                          NextHop(n, m.src, m.proxy)))
      BY <2>1, <2>8 DEF vrr_local_rcv_setup_fail
    <3> DEFINE sent == reqs \cup more \cup
                         send_setup_fail(n, n, m.src, m.proxy, offer,
                                         NextHop(n, m.src, m.proxy))
    <3>3. more \subseteq ReqOK
      <4>1. {m.src} \in SUBSET Id
        BY <1>3, Network
      <4> QED
        BY <1>0, <4>1, RequestsSent
    <3>4. send_setup_fail(n, n, m.src, m.proxy, offer, NextHop(n, m.src, m.proxy))
             \subseteq SetupFail
      <4>1. pset[n] \subseteq Node
        BY <1>0 DEF Typed
      <4> QED
        BY <1>3, <2>2, <4>1 DEF send_setup_fail, SetupFail
    <3>5. sent \subseteq ReqOK \cup SetupFail /\ net' = (net \ {m}) \cup sent
      BY <2>2, <3>2, <3>3, <3>4 DEF Replace
    <3> HIDE DEF sent
    <3>6. \A x \in sent : x.type \in {"setup_req", "setup_fail"}
      BY <3>5 DEF ReqOK, SetupReq, SetupFail
    <3>7. Typed'
      BY <1>0, <1>2, <2>5, <3>1 DEF Typed
    <3>8. Posted'
      BY <1>0, <3>1, <3>5, PostedStep
    <3>10. Still
      BY <3>1, <3>5, <3>6 DEF Still, Carried
    <3> QED
      BY <1>0, <3>1, <3>7, <3>8, <3>10, TabledSame DEF SetupInv, Effect
  <2> QED
    BY <2>4, <2>7, <2>8
<1> QED
  BY <1>4, <1>5

\* Node n removes a path.
LEMMA RemoveStep ==
    ASSUME Tabled, drawn' = drawn, NEW n \in Node, NEW p \in Path,
           rt' = [rt EXCEPT ![n] = T(n)!rt_remove_route(rt[n], p.src, p.pid)]
    PROVE  /\ Tabled'
           /\ \A x \in Node \ {n} : rt'[x] = rt[x]
           /\ Drops(rt[n], rt'[n], p)
<1> DEFINE u == T(n)!rt_remove_route(rt[n], p.src, p.pid)
<1>1. Table(T(n)!Route, rt[n])
  BY DEF Tabled
<1>2. /\ Table(T(n)!Route, u)
      /\ \A j, e : Entry(u, j, e) => Entry(rt[n], j, e)
      /\ \A j, e : Entry(rt[n], j, e) /\ (j # p.src \/ e.path_id # p.pid)
            => Entry(u, j, e)
  BY <1>1, Removed
<1>3. rt' = [rt EXCEPT ![n] = u]
  OBVIOUS
<1> HIDE DEF u
<1>4. Tabled' /\ rt'[n] = u /\ \A x \in Node \ {n} : rt'[x] = rt[x]
  BY <1>2, <1>3, TabledStep
<1> QED
  BY <1>2, <1>4 DEF Drops

\* A setup arrives: the path is stored with the sender as previous hop before
\* the setup goes on, or it is torn down.
LEMMA SetupStep ==
    ASSUME SetupInv, NEW m \in net, NEW n \in Node, vrr_rcv_setup(n, m)
    PROVE  SetupInv' /\ Effect
<1>0. Tabled /\ Typed /\ Posted
  BY DEF SetupInv
<1>1. m \in SetupOK /\ m.to = n
  BY <1>0, Kinds DEF vrr_rcv_setup, Receives
<1>2. /\ m.from \in Adjacent[n] /\ m.path \in drawn /\ m.path \in Path
      /\ m.from \in Node /\ m.proxy \in Node /\ m.offer \in Offer
      /\ m.offer.ids \in SUBSET Id /\ m.type = "setup"
      /\ m.proxy \in Adjacent[m.path.dst]
  BY <1>1 DEF SetupOK, SetupMsg, Offer
<1>3. UNCHANGED <<pset, proxies, up, drawn>>
  BY DEF vrr_rcv_setup
<1>4. PICK p \in Path : p = m.path
  BY <1>2
<1>5. p \in drawn' /\ drawn \subseteq drawn' /\ m.from # n
      /\ p.src \in Node /\ p.dst \in Node
  BY <1>2, <1>3, <1>4, Network
<1>6. CASE m.from \notin pset[n] \/ m.copy = 2
  <2>1. /\ rt' = [rt EXCEPT ![n] = T(n)!rt_remove_route(rt[n], p.src, p.pid)]
        /\ net' = (net \ {m}) \cup tear_down_path(n, rt[n], p)
        /\ UNCHANGED <<active, vset, vset_size, faults>>
    BY <1>4, <1>6 DEF vrr_rcv_setup, Replace, T!tear_down_path
  <2>2. /\ Tabled'
        /\ \A x \in Node \ {n} : rt'[x] = rt[x]
        /\ Drops(rt[n], rt'[n], p)
    BY <1>0, <1>3, <2>1, RemoveStep
  <2>4. tear_down_path(n, rt[n], p) \subseteq Teardown
    <3>1. pset[n] \subseteq Node
      BY <1>0 DEF Typed
    <3> QED
      BY <3>1 DEF tear_down_path, send_teardown, Teardown
  <2>5. \A x \in tear_down_path(n, rt[n], p) : x.type # "setup"
    BY <2>4 DEF Teardown
  <2>6. Typed'
    BY <1>0, <1>3, <2>1 DEF Typed
  <2>7. Posted'
    BY <1>0, <1>5, <2>1, <2>4, PostedStep
  <2>8. \A x \in net' : x.type = "setup" => Carried(x)
    BY <2>1, <2>5 DEF Carried
  <2>9. Tears(n, p)
    BY <2>2, <2>8 DEF Tears
  <2> QED
    BY <2>1, <2>2, <2>6, <2>7, <2>9 DEF SetupInv, Effect
<1>7. CASE ~(m.from \notin pset[n] \/ m.copy = 2)
  <2>1. PICK nh \in Adjacent[n] \cup {0} : nh = T(n)!NextHop(m.path.dst, m.proxy)
    BY <1>0, NextHopRange
  <2>a. Aimed(n, p, nh)
    BY <1>0, <1>2, <1>4, <2>1, AimedHop
  <2>2. PICK out \in AddRoute(n, p, m.from, nh), memory \in BOOLEAN :
          /\ rt' = [rt EXCEPT ![n] = out.table]
          /\ CountFault(out.ok /\ memory)
          /\ IF out.ok /\ memory THEN SetupStored(n, m, nh)
             ELSE /\ Replace(m, out.msgs)
                  /\ UNCHANGED <<active, vset, vset_size>>
    BY <1>4, <1>7, <2>1 DEF vrr_rcv_setup
  <2>3. /\ Tabled'
        /\ \A x \in Node \ {n} : rt'[x] = rt[x]
        /\ out.ok \in BOOLEAN
        /\ out.ok => out.msgs = {} /\ Adds(rt[n], rt'[n], p, RouteOf(p, m.from, nh))
        /\ ~out.ok => /\ out.msgs \subseteq Teardown
                      /\ Drops(rt[n], rt'[n], p)
    <3>1. m.from \in Adjacent[n] \cup {n} /\ (m.from = n => p.src = n)
      BY <1>2, <1>5
    <3> QED
      BY <1>0, <1>5, <2>2, <3>1, StoreStep
  <2>4. nh \in Node \cup {0}
    BY <2>1, Network
  <2>5. CASE out.ok /\ memory
    <3>1. faults' = faults /\ SetupStored(n, m, nh)
      BY <2>2, <2>5 DEF CountFault
    <3>2. /\ active' \in [Node -> BOOLEAN] /\ vset' \in [Node -> SUBSET Id]
          /\ vset_size' \in [Node -> Nat]
          /\ \E sent \in SUBSET (ReqOK \cup SetupOK') :
                /\ net' = (net \ {m}) \cup sent
                /\ \A x \in sent : x.type = "setup" =>
                      x.from = n /\ x.to = nh /\ x.path = p
      <4>1. CASE m.offer.size <= VRR_VSET_SIZE /\ nh = 0
        <5>1. PICK reqs \in Requests(n, m.offer.ids),
                   add \in Added(vset[n], vset_size[n], m.path.src) :
                /\ Replace(m, reqs)
                /\ vset' = [vset EXCEPT ![n] = add.set]
                /\ vset_size' = [vset_size EXCEPT ![n] = add.size]
                /\ active' = [active EXCEPT ![n] = @ \/ add.ret]
          BY <3>1, <4>1 DEF SetupStored, SetupEnds
        <5>2. reqs \subseteq ReqOK
          BY <1>0, <1>2, RequestsSent
        <5>3. vset[n] \subseteq Id /\ vset_size[n] \in Nat
          BY <1>0 DEF Typed
        <5>4. /\ add.ret \in BOOLEAN /\ add.size \in Nat
              /\ add.set \subseteq vset[n] \cup {p.src}
          BY <1>4, <5>3, VsetAdded
        <5>5. vset' \in [Node -> SUBSET Id] /\ vset_size' \in [Node -> Nat]
          BY <1>0, <1>5, <5>1, <5>3, <5>4, Network DEF Typed
        <5>6. active' \in [Node -> BOOLEAN]
          BY <1>0, <5>1, <5>4 DEF Typed
        <5>8. \A x \in reqs : x.type # "setup"
          BY <5>2 DEF ReqOK, SetupReq
        <5>9. net' = (net \ {m}) \cup reqs
          BY <5>1 DEF Replace
        <5> QED
          BY <5>2, <5>5, <5>6, <5>8, <5>9
      <4>2. CASE ~(m.offer.size <= VRR_VSET_SIZE /\ nh = 0)
        <5> DEFINE sent == IF m.offer.size > VRR_VSET_SIZE THEN {}
                           ELSE send_setup(n, m.path, m.proxy, m.offer, nh)
        <5>1. Replace(m, sent) /\ UNCHANGED <<active, vset, vset_size>>
          BY <3>1, <4>2 DEF SetupStored
        <5>2. /\ send_setup(n, p, m.proxy, m.offer, nh) \subseteq SetupOK'
              /\ \A x \in send_setup(n, p, m.proxy, m.offer, nh) :
                    x.type = "setup" /\ x.from = n /\ x.to = nh /\ x.path = p
          <6>1. m.proxy \in Adjacent[p.dst] /\ m.offer \in Offer
            BY <1>2, <1>4
          <6> QED
            BY <1>0, <1>5, <6>1, SetupSent
        <5>3. /\ sent \subseteq SetupOK'
              /\ \A x \in sent : x.from = n /\ x.to = nh /\ x.path = p
          BY <1>4, <5>2
        <5>4. net' = (net \ {m}) \cup sent
          BY <5>1 DEF Replace
        <5> HIDE DEF sent
        <5>5. /\ active' \in [Node -> BOOLEAN] /\ vset' \in [Node -> SUBSET Id]
              /\ vset_size' \in [Node -> Nat]
          BY <1>0, <5>1 DEF Typed
        <5> QED
          BY <5>1, <5>3, <5>4, <5>5
      <4> QED
        BY <4>1, <4>2
    <3>3. PICK sent \in SUBSET (ReqOK \cup SetupOK') :
                /\ net' = (net \ {m}) \cup sent
                /\ \A x \in sent : x.type = "setup" =>
                      x.from = n /\ x.to = nh /\ x.path = p
      BY <3>2
    <3>5. Typed'
      BY <1>0, <1>3, <3>1, <3>2 DEF Typed
    <3>6. Posted'
      BY <1>0, <1>5, <3>3, PostedStep
    <3>8. Lays(n, p, m.from, nh)
      <4>1. \A x \in net' : x.type = "setup" =>
               Carried(x) \/ (x.from = n /\ x.to = nh /\ x.path = p)
        BY <3>3 DEF Carried
      <4> QED
        BY <1>1, <1>2, <1>4, <2>a, <2>3, <2>5, <4>1 DEF Lays
    <3> QED
      BY <1>2, <2>3, <2>4, <3>1, <3>5, <3>6, <3>8 DEF SetupInv, Effect
  <2>6. CASE ~(out.ok /\ memory)
    <3>1. /\ faults' = faults + 1 /\ faults' <= MaxFaults
          /\ net' = (net \ {m}) \cup out.msgs
          /\ UNCHANGED <<active, vset, vset_size>>
      BY <2>2, <2>6 DEF CountFault, Replace
    <3>2. faults' \in 0 .. MaxFaults
      BY <1>0, <3>1, SetupAssumption DEF Typed
    <3>3. out.msgs \subseteq Teardown
      BY <2>3
    <3>4. \A x \in net' : x.type = "setup" => Carried(x)
      <4>1. \A x \in out.msgs : x.type # "setup"
        BY <3>3 DEF Teardown
      <4> QED
        BY <3>1, <4>1 DEF Carried
    <3>5. Typed'
      BY <1>0, <1>3, <3>1, <3>2 DEF Typed
    <3>6. Posted'
      BY <1>0, <1>5, <3>1, <3>3, PostedStep
    <3>7. CASE out.ok
      <4>1. Lays(n, p, m.from, nh)
        BY <1>1, <1>2, <1>4, <2>a, <2>3, <3>1, <3>4, <3>7 DEF Lays
      <4> QED
        BY <1>2, <2>3, <2>4, <3>2, <3>5, <3>6, <4>1 DEF SetupInv, Effect
    <3>8. CASE ~out.ok
      <4>1. Tears(n, p)
        BY <2>3, <3>4, <3>8 DEF Tears
      <4> QED
        BY <1>2, <2>3, <2>4, <3>2, <3>5, <3>6, <4>1 DEF SetupInv, Effect
    <3> QED
      BY <2>3, <3>7, <3>8
  <2> QED
    BY <2>5, <2>6
<1> QED
  BY <1>6, <1>7

\* A teardown arrives: the path is removed, or the node crashes.
LEMMA TeardownStep ==
    ASSUME SetupInv, NEW m \in net, NEW n \in Node, vrr_rcv_teardown(n, m)
    PROVE  SetupInv' /\ Effect
<1>0. Tabled /\ Typed /\ Posted
  BY DEF SetupInv
<1>1. m \in Teardown /\ m.type = "teardown"
  BY <1>0, Kinds DEF vrr_rcv_teardown, Receives
<1>2. UNCHANGED <<pset, proxies, active, drawn, faults>>
  BY DEF vrr_rcv_teardown
<1>4. PICK p \in Path : p = m.path
  BY <1>1 DEF Teardown
<1>5. CASE T(n)!Find(rt[n], p.src, p.pid) = 0
  <2>1. /\ up' = [up EXCEPT ![n] = FALSE] /\ net' = net \ {m}
        /\ UNCHANGED <<rt, vset, vset_size>>
    BY <1>4, <1>5 DEF vrr_rcv_teardown, Replace
  <2>2. Typed'
    BY <1>0, <1>2, <2>1 DEF Typed
  <2>3. Posted'
    BY <1>0, <1>2, <2>1, PostedStep
  <2>4. Still
    BY <2>1 DEF Still, Carried
  <2> QED
    BY <1>0, <1>2, <2>1, <2>2, <2>3, <2>4, TabledSame DEF SetupInv, Effect
<1>6. CASE T(n)!Find(rt[n], p.src, p.pid) # 0
  <2>1. /\ rt' = [rt EXCEPT ![n] = T(n)!rt_remove_route(rt[n], p.src, p.pid)]
        /\ up' = up
        /\ \/ /\ \E next : Replace(m, send_teardown(n, p, next))
              /\ UNCHANGED <<vset, vset_size>>
           \/ /\ Replace(m, {})
              /\ \E endpt : \E add \in Added(vset[n] \ {endpt}, vset_size[n], 0) :
                    /\ vset' = [vset EXCEPT ![n] = add.set]
                    /\ vset_size' = [vset_size EXCEPT ![n] = add.size]
    BY <1>4, <1>6 DEF vrr_rcv_teardown
  <2>2. /\ Tabled'
        /\ \A x \in Node \ {n} : rt'[x] = rt[x]
        /\ Drops(rt[n], rt'[n], p)
    BY <1>0, <1>2, <2>1, RemoveStep
  <2>3. /\ vset' \in [Node -> SUBSET Id] /\ vset_size' \in [Node -> Nat]
        /\ \E sent \in SUBSET Teardown : net' = (net \ {m}) \cup sent
    <3>1. vset[n] \subseteq Id /\ vset_size[n] \in Nat /\ pset[n] \subseteq Node
      BY <1>0 DEF Typed
    <3>2. ASSUME NEW next, Replace(m, send_teardown(n, p, next)),
                 UNCHANGED <<vset, vset_size>>
          PROVE  /\ vset' \in [Node -> SUBSET Id] /\ vset_size' \in [Node -> Nat]
                 /\ \E sent \in SUBSET Teardown : net' = (net \ {m}) \cup sent
      <4>1. send_teardown(n, p, next) \subseteq Teardown
        BY <3>1 DEF send_teardown, Teardown
      <4>2. net' = (net \ {m}) \cup send_teardown(n, p, next)
        BY <3>2 DEF Replace
      <4>3. vset' \in [Node -> SUBSET Id] /\ vset_size' \in [Node -> Nat]
        BY <1>0, <3>2 DEF Typed
      <4> QED
        BY <4>1, <4>2, <4>3
    <3>3. ASSUME NEW endpt, NEW add \in Added(vset[n] \ {endpt}, vset_size[n], 0),
                 Replace(m, {}), vset' = [vset EXCEPT ![n] = add.set],
                 vset_size' = [vset_size EXCEPT ![n] = add.size]
          PROVE  /\ vset' \in [Node -> SUBSET Id] /\ vset_size' \in [Node -> Nat]
                 /\ \E sent \in SUBSET Teardown : net' = (net \ {m}) \cup sent
      <4>1. add.size \in Nat /\ add.set \subseteq (vset[n] \ {endpt}) \cup {0}
        BY <3>1, VsetAdded
      <4>2. vset' \in [Node -> SUBSET Id] /\ vset_size' \in [Node -> Nat]
        BY <1>0, <3>1, <3>3, <4>1, Network DEF Typed
      <4>3. net' = (net \ {m}) \cup {}
        BY <3>3 DEF Replace
      <4> QED
        BY <4>2, <4>3
    <3> QED
      BY <2>1, <3>2, <3>3
  <2>4. PICK sent \in SUBSET Teardown : net' = (net \ {m}) \cup sent
    BY <2>3
  <2>5. \A x \in sent : x.type # "setup"
    BY DEF Teardown
  <2>6. Typed'
    BY <1>0, <1>2, <2>1, <2>3 DEF Typed
  <2>7. Posted'
    BY <1>0, <1>2, <2>4, PostedStep
  <2>8. \A x \in net' : x.type = "setup" => Carried(x)
    BY <2>4, <2>5 DEF Carried
  <2>9. Tears(n, p)
    BY <2>2, <2>8 DEF Tears
  <2> QED
    BY <2>2, <2>6, <2>7, <2>9 DEF SetupInv, Effect
<1> QED
  BY <1>5, <1>6
-----------------------------------------------------------------------------
\* Before the first message every table is empty.
LEMMA SetupInit == Init => SetupInv
<1> SUFFICES ASSUME Init PROVE SetupInv
  OBVIOUS
<1>1. /\ rt = [n \in Node |-> [k \in {} |-> <<>>]] /\ pset = Adjacent
      /\ proxies = [n \in Node |-> {}] /\ vset = [n \in Node |-> {}]
      /\ vset_size = [n \in Node |-> 0] /\ net = {} /\ drawn = {} /\ faults = 0
  BY DEF Init
<1>2. active \in [Node -> BOOLEAN] /\ up \in [Node -> BOOLEAN] /\ \A n \in Node : up[n]
  BY DEF Init
<1>3. Tabled
  <2>1. \A n \in Node : DOMAIN rt[n] = {} /\ rt[n] = [k \in {} |-> <<>>]
    BY <1>1
  <2> QED
    BY <1>1, <2>1 DEF Tabled, Table
<1>4. Typed
  BY <1>1, <1>2, SetupAssumption DEF Typed
<1> QED
  BY <1>1, <1>2, <1>3, <1>4 DEF SetupInv, Posted

\* Every step keeps the invariant and does one of three things to the tables.
LEMMA SetupNext ==
    ASSUME SetupInv, Next
    PROVE  SetupInv' /\ Effect
<1>1. CASE \E n, m \in Node : pset_update_handler(n, m) \/ detect_failures(n, m)
  BY <1>1, HelloStep, SilenceStep
<1>2. CASE \E m \in net : Lose(m) \/ Repeat(m)
  BY <1>2, AirStep
<1>3. CASE \E m \in net, n \in Node : \/ vrr_forward_setup_req(n, m)
                                      \/ vrr_rcv_setup_req(n, m)
                                      \/ vrr_rcv_setup(n, m)
                                      \/ vrr_rcv_setup_fail(n, m)
                                      \/ vrr_rcv_teardown(n, m)
  BY <1>3, ForwardReqStep, ReqStep, SetupStep, FailStep, TeardownStep
<1> QED
  BY <1>1, <1>2, <1>3 DEF Next

\* A step that changes nothing is one of them.
LEMMA SetupStutter ==
    ASSUME SetupInv, UNCHANGED vars
    PROVE  SetupInv' /\ Effect
<1>0. Tabled /\ Typed /\ Posted
  BY DEF SetupInv
<1>1. UNCHANGED <<rt, pset, proxies, active, vset, vset_size, up, net, drawn, faults>>
  BY DEF vars
<1>2. Typed'
  BY <1>0, <1>1 DEF Typed
<1>3. Posted'
  BY <1>0, <1>1, PostedStep
<1>5. Still
  BY <1>1 DEF Still, Carried
<1> QED
  BY <1>0, <1>1, <1>2, <1>3, <1>5, TabledSame DEF SetupInv, Effect

\* The inductive invariant of the tables and the messages.
THEOREM SetupInvariance == Spec => []SetupInv
<1>1. SetupInv /\ [Next]_vars => SetupInv'
  BY SetupNext, SetupStutter
<1> QED
  BY <1>1, SetupInit, PTL DEF Spec

\* Every handler keeps the state of every node and every message well typed;
\* routes lead only to physical neighbours, whatever messages arrive.
THEOREM SetupTypeOK == Spec => []TypeOK
<1>1. SetupInv => TypeOK
  <2> SUFFICES ASSUME SetupInv PROVE TypeOK
    OBVIOUS
  <2>0. Tabled /\ Typed /\ Posted
    BY DEF SetupInv
  <2>1. ASSUME NEW n \in Node PROVE T(n)!TypeOK
    <3>1. Table(T(n)!Route, rt[n]) /\ pset[n] \subseteq Adjacent[n] /\ up[n] \in BOOLEAN
      BY <2>0 DEF Tabled, Typed
    <3> QED
      BY <3>1 DEF T!TypeOK, Table, T!Id, Id
  <2>2. net \subseteq SetupReq \cup SetupMsg \cup SetupFail \cup Teardown
    BY <2>0 DEF Posted, SetupOK, ReqOK
  <2>3. rt = [n \in Node |-> rt[n]]
    BY <2>0 DEF Tabled
  <2> QED
    BY <2>0, <2>1, <2>2, <2>3 DEF TypeOK, Typed
<1> QED
  BY <1>1, SetupInvariance, PTL
-----------------------------------------------------------------------------
\* Leads, in terms of entries.
LEMMA LeadsEntry ==
    ASSUME NEW x, NEW p, NEW y
    PROVE  Leads(x, p, y) <=>
              \E e : Entry(rt[x], p.dst, e) /\ e.path_id = p.pid /\ e.nb = y
BY DEF Leads, Entry

\* A copy of a path under its destination is never removed.
LEMMA LeadsKept ==
    ASSUME SetupInv, Effect, NEW x \in Node, NEW p \in Path, p.src # p.dst, NEW y,
           Leads(x, p, y)
    PROVE  Leads(x, p, y)'
<1>1. PICK e : Entry(rt[x], p.dst, e) /\ e.path_id = p.pid /\ e.nb = y
  BY LeadsEntry
<1>2. Entry(rt'[x], p.dst, e)
  <2>1. CASE Still
    BY <1>1, <2>1 DEF Still
  <2>2. ASSUME NEW n \in Node, NEW na \in Node, NEW q \in Path, NEW nb,
               Lays(n, q, na, nb)
        PROVE  Entry(rt'[x], p.dst, e)
    BY <1>1, <2>2 DEF Lays, Adds
  <2>3. ASSUME NEW n \in Node, NEW q \in Path, Tears(n, q)
        PROVE  Entry(rt'[x], p.dst, e)
    <3>1. p.dst # q.src \/ e.path_id # q.pid
      BY <1>1, Network
    <3> QED
      BY <1>1, <2>3, <3>1 DEF Tears, Drops
  <2> QED
    BY <2>1, <2>2, <2>3 DEF Effect
<1>3. Leads(x, p, y)'
  BY <1>1, <1>2 DEF Leads, Entry
<1> QED
  BY <1>3

BacktrackInv == SetupInv /\ Traced /\ Backtrack

\* A step keeps the setups in flight and the stored paths traceable.
LEMMA BacktrackStep ==
    ASSUME BacktrackInv, SetupInv', Effect
    PROVE  BacktrackInv'
<1>0. SetupInv /\ Traced /\ Backtrack /\ Tabled /\ Posted
  BY DEF BacktrackInv, SetupInv
<1>1. ASSUME NEW m, m.type = "setup", m.path \in Path, m.path.src # m.path.dst, Carried(m)
      PROVE  Leads(m.from, m.path, m.to)'
  <2>1. PICK o \in net : /\ o.type = "setup" /\ o.from = m.from
                         /\ o.to = m.to /\ o.path = m.path
    BY <1>1 DEF Carried
  <2>2. o.from \in Node
    BY <1>0, <2>1, Kinds DEF SetupOK, SetupMsg
  <2>3. Leads(m.from, m.path, m.to)
    BY <1>0, <1>1, <2>1 DEF Traced
  <2> QED
    BY <1>0, <1>1, <2>1, <2>2, <2>3, LeadsKept
<1>2. ASSUME NEW m \in net', m.type = "setup" PROVE m.path \in Path
  BY <1>2 DEF SetupInv, Posted, SetupOK, ReqOK, SetupReq, SetupMsg, SetupFail, Teardown
<1>3. ASSUME NEW n \in Node, NEW p \in Path, p.src # p.dst, NEW e,
             Entry(rt[n], p.dst, e), e.path_id = p.pid
      PROVE  IF e.na = n THEN n = p.src ELSE Leads(e.na, p, n)'
  <2>1. IF e.na = n THEN n = p.src ELSE Leads(e.na, p, n)
    BY <1>0, <1>3 DEF Backtrack, Entry
  <2>2. e.na \in Node
    <3>1. RouteOK(n, p.dst, e)
      BY <1>0, <1>3, Entries
    <3> QED
      BY <3>1, Network DEF RouteOK
  <2> QED
    BY <1>0, <1>3, <2>1, <2>2, LeadsKept
<1>4. Traced'
  <2> SUFFICES ASSUME NEW m \in net', m.type = "setup", m.path.src # m.path.dst
               PROVE  Leads(m.from, m.path, m.to)'
    BY DEF Traced
  <2>1. m.path \in Path
    BY <1>2
  <2>2. CASE Carried(m)
    BY <1>1, <2>1, <2>2
  <2>3. ASSUME NEW n \in Node, NEW na \in Node, NEW p \in Path, NEW nb,
               Lays(n, p, na, nb), m.from = n, m.to = nb, m.path = p
        PROVE  Leads(m.from, m.path, m.to)'
    <3> DEFINE e == RouteOf(p, na, nb)
    <3>1. Entry(rt'[n], p.dst, e)
      BY <2>3 DEF Lays, Adds
    <3>2. e.path_id = p.pid /\ e.nb = nb
      BY DEF RouteOf
    <3> HIDE DEF e
    <3>3. Leads(n, p, nb)'
      BY <3>1, <3>2 DEF Leads, Entry
    <3> QED
      BY <2>3, <3>3 DEF Leads
  <2> QED
    BY <2>2, <2>3 DEF Effect, Still, Lays, Tears
<1>5. Backtrack'
  <2>1. ASSUME NEW n \in Node, NEW p \in Path, p.src # p.dst, NEW e,
               Entry(rt'[n], p.dst, e), e.path_id = p.pid
        PROVE  IF e.na = n THEN n = p.src ELSE Leads(e.na, p, n)'
    <3>1. CASE Entry(rt[n], p.dst, e)
      BY <1>3, <2>1, <3>1
    <3>2. CASE ~Entry(rt[n], p.dst, e)
      <4>1. ~Still
        BY <2>1, <3>2 DEF Still
      <4>2. ASSUME NEW x \in Node, NEW q \in Path, Tears(x, q)
            PROVE  FALSE
        BY <2>1, <3>2, <4>2 DEF Tears, Drops
      <4>3. ASSUME NEW x \in Node, NEW na \in Node, NEW q \in Path, NEW nb,
                   Lays(x, q, na, nb)
            PROVE  IF e.na = n THEN n = p.src ELSE Leads(e.na, p, n)'
        <5>1. x = n /\ e = RouteOf(q, na, nb)
          BY <2>1, <3>2, <4>3 DEF Lays, Adds
        <5>2. q.pid = p.pid /\ e.na = na
          BY <2>1, <5>1 DEF RouteOf
        <5>3. q = p
          BY <5>2, Network
        <5>4. \/ na = n /\ p.src = n
              \/ \E m \in net : m.type = "setup" /\ m.from = na /\ m.to = n /\ m.path = p
          BY <4>3, <5>1, <5>3 DEF Lays
        <5>5. CASE na = n /\ p.src = n
          BY <5>2, <5>5
        <5>6. ASSUME NEW m \in net, m.type = "setup", m.from = na, m.to = n, m.path = p
              PROVE  na # n /\ Leads(na, p, n)'
          <6>1. na # n
            BY <1>0, <5>6, Kinds, Network DEF SetupOK
          <6>2. Leads(na, p, n)
            BY <1>0, <2>1, <5>6 DEF Traced
          <6> QED
            BY <1>0, <2>1, <6>1, <6>2, LeadsKept
        <5> QED
          BY <5>2, <5>4, <5>5, <5>6
      <4> QED
        BY <4>1, <4>2, <4>3 DEF Effect
    <3> QED
      BY <3>1, <3>2
  <2>2. ASSUME NEW n \in Node, NEW p \in Path, p.src # p.dst, p.dst \in DOMAIN rt'[n],
               NEW i \in 1 .. Len(rt'[n][p.dst]), NEW e, e = rt'[n][p.dst][i],
               e.path_id = p.pid
        PROVE  IF e.na = n THEN n = p.src ELSE Leads(e.na, p, n)'
    <3>1. Entry(rt'[n], p.dst, e)
      BY <2>2 DEF Entry
    <3> QED
      BY <2>1, <2>2, <3>1
  <2>3. ASSUME NEW n \in Node, NEW p \in Path, p.src # p.dst, p.dst \in DOMAIN rt'[n],
               NEW i \in 1 .. Len(rt'[n][p.dst]), rt'[n][p.dst][i].path_id = p.pid
        PROVE  (IF rt[n][p.dst][i].na = n THEN n = p.src
                ELSE Leads(rt[n][p.dst][i].na, p, n))'
    <3>1. PICK e : e = rt'[n][p.dst][i]
      OBVIOUS
    <3>2. IF e.na = n THEN n = p.src ELSE Leads(e.na, p, n)'
      BY <2>2, <2>3, <3>1
    <3>3. CASE e.na = n
      BY <3>1, <3>2, <3>3
    <3>4. CASE e.na # n
      BY <3>1, <3>2, <3>4 DEF Leads
    <3> QED
      BY <3>3, <3>4
  <2> QED
    BY <2>3 DEF Backtrack
<1> QED
  BY <1>4, <1>5 DEF BacktrackInv

\* The path of every route can be followed back to its source, for every
\* network and any number of faults: a setup is sent only along a route that
\* was stored before, and no handler removes the copy under the destination.
THEOREM BacktrackAlways == Spec => []Backtrack
<1>1. Init => BacktrackInv
  <2> SUFFICES ASSUME Init PROVE BacktrackInv
    OBVIOUS
  <2>1. net = {} /\ \A n \in Node : DOMAIN rt[n] = {}
    BY DEF Init
  <2> QED
    BY <2>1, SetupInit DEF BacktrackInv, Traced, Backtrack
<1>2. BacktrackInv /\ [Next]_vars => BacktrackInv'
  <2> SUFFICES ASSUME BacktrackInv, [Next]_vars PROVE BacktrackInv'
    OBVIOUS
  <2>1. SetupInv' /\ Effect
    BY SetupNext, SetupStutter DEF BacktrackInv
  <2> QED
    BY <2>1, BacktrackStep
<1>3. BacktrackInv => Backtrack
  BY DEF BacktrackInv
<1> QED
  BY <1>1, <1>2, <1>3, PTL DEF Spec

ConnectedInv == BacktrackInv /\ Connected

\* A set as Connected speaks of.
Closed(R, p) ==
    p.src \in R /\ \A x \in R, y \in Node \ R : ~Leads(x, p, y)

\* A step keeps the holders of a path within reach of its source.
LEMMA ConnectedStep ==
    ASSUME ConnectedInv, SetupInv', Effect
    PROVE  Connected'
<1>0. SetupInv /\ Traced /\ Tabled /\ Posted
  BY DEF ConnectedInv, BacktrackInv, SetupInv
<1> SUFFICES ASSUME NEW p \in Path, NEW R \in SUBSET Node, p.src # p.dst,
                    Closed(R, p)', NEW n \in Node, NEW y, Leads(n, p, y)'
             PROVE  n \in R
  <2>1. Connected' <=> \A p \in Path, R \in SUBSET Node : p.src # p.dst /\ Closed(R, p)'
                         => \A n \in Node \ R, y \in Node \cup {0} : ~Leads(n, p, y)'
    BY Zenon DEF Connected, Closed
  <2> QED
    BY <2>1
<1>1. Closed(R, p)
  <2>1. ASSUME NEW x \in R, NEW z \in Node, Leads(x, p, z) PROVE z \in R
    BY <1>0, <2>1, LeadsKept DEF Closed
  <2> QED
    BY <2>1 DEF Closed
<1>2. ASSUME NEW x \in Node, NEW e, Entry(rt[x], p.dst, e), e.path_id = p.pid
      PROVE  x \in R
  <2>1. Leads(x, p, e.nb)
    BY <1>2, LeadsEntry
  <2>2. e.nb \in Node \cup {0}
    <3>1. RouteOK(x, p.dst, e)
      BY <1>0, <1>2, Entries
    <3> QED
      BY <3>1, Network DEF RouteOK
  <2> QED
    BY <1>1, <2>1, <2>2 DEF ConnectedInv, Connected, Closed
<1>3. PICK e : Entry(rt'[n], p.dst, e) /\ e.path_id = p.pid
  BY DEF Leads, Entry
<1>4. CASE Entry(rt[n], p.dst, e)
  BY <1>2, <1>3, <1>4
<1>5. CASE ~Entry(rt[n], p.dst, e)
  <2>1. ~Still
    BY <1>3, <1>5 DEF Still
  <2>2. ASSUME NEW x \in Node, NEW q \in Path, Tears(x, q)
        PROVE  FALSE
    BY <1>3, <1>5, <2>2 DEF Tears, Drops
  <2>3. ASSUME NEW x \in Node, NEW na \in Node, NEW q \in Path, NEW nb,
               Lays(x, q, na, nb)
        PROVE  n \in R
    <3>1. x = n /\ e = RouteOf(q, na, nb)
      BY <1>3, <1>5, <2>3 DEF Lays, Adds
    <3>2. q.pid = p.pid
      BY <1>3, <3>1 DEF RouteOf
    <3>3. q = p
      BY <3>2, Network
    <3>4. CASE na = n /\ p.src = n
      BY <3>4 DEF Closed
    <3>5. ASSUME NEW m \in net, m.type = "setup", m.from = na, m.to = n, m.path = p
          PROVE  n \in R
      <4>1. Leads(na, p, n)
        BY <1>0, <3>5 DEF Traced
      <4>2. PICK f : Entry(rt[na], p.dst, f) /\ f.path_id = p.pid
        BY <4>1, LeadsEntry
      <4>3. na \in R
        BY <1>2, <4>2
      <4> QED
        BY <1>1, <4>1, <4>3 DEF Closed
    <3> QED
      BY <2>3, <3>1, <3>3, <3>4, <3>5 DEF Lays
  <2> QED
    BY <2>1, <2>2, <2>3 DEF Effect
<1> QED
  BY <1>4, <1>5

\* In every network, after any number of faults, each node that holds a path is
\* reached from its source along the next hops that are stored for it, although
\* setups may run in circles.
THEOREM ConnectedAlways == Spec => []Connected
<1>1. Init => ConnectedInv
  <2> SUFFICES ASSUME Init PROVE ConnectedInv
    OBVIOUS
  <2>1. net = {} /\ \A n \in Node : DOMAIN rt[n] = {}
    BY DEF Init
  <2> QED
    BY <2>1, SetupInit
    DEF ConnectedInv, BacktrackInv, Traced, Backtrack, Connected, Leads
<1>2. ConnectedInv /\ [Next]_vars => ConnectedInv'
  <2> SUFFICES ASSUME ConnectedInv, [Next]_vars PROVE ConnectedInv'
    OBVIOUS
  <2>1. SetupInv' /\ Effect
    BY SetupNext, SetupStutter DEF ConnectedInv, BacktrackInv
  <2> QED
    BY <2>1, BacktrackStep, ConnectedStep DEF ConnectedInv
<1>3. ConnectedInv => Connected
  BY DEF ConnectedInv
<1> QED
  BY <1>1, <1>2, <1>3, PTL DEF Spec
-----------------------------------------------------------------------------
(***************************************************************************)
(* Every node's table takes steps of RouteTable only.                      *)
(***************************************************************************)
TableStep == \A n \in Node : UNCHANGED T(n)!vars \/ T(n)!Next

\* A step at node n leaves the other nodes' tables alone.
LEMMA TablesOfOthers ==
    ASSUME NEW n \in Node, UNCHANGED T(n)!vars \/ T(n)!Next,
           \A x \in Node \ {n} : rt'[x] = rt[x] /\ pset'[x] = pset[x] /\ up'[x] = up[x]
    PROVE  TableStep
<1>1. ASSUME NEW x \in Node \ {n} PROVE UNCHANGED T(x)!vars
  BY DEF T!vars
<1> QED
  BY <1>1 DEF TableStep

\* Nor does a step that changes no table, physical set or node.
LEMMA TablesSame ==
    ASSUME UNCHANGED <<rt, pset, up>>
    PROVE  TableStep
BY DEF TableStep, T!vars

\* What AddRoute stores is what SetupPath of the table stores.
LEMMA TableAdds ==
    ASSUME Tabled, Typed, NEW n \in Node, NEW p \in Path, NEW na, NEW nb,
           T(n)!HasRoom, NEW out \in AddRoute(n, p, na, nb),
           rt' = [rt EXCEPT ![n] = out.table], UNCHANGED <<pset, up>>
    PROVE  /\ T(n)!SetupPath(p, na, nb)
           /\ \A x \in Node \ {n} : rt'[x] = rt[x] /\ pset'[x] = pset[x] /\ up'[x] = up[x]
<1>1. PICK o \in T(n)!rt_add_route(rt[n], RouteOf(p, na, nb)) :
         out.table = IF o.ret = 1 THEN o.table
                     ELSE T(n)!tear_down_path(o.table, p.pid, p.src)
  BY DEF AddRoute, RouteOf
<1>2. rt'[n] = out.table /\ \A x \in Node \ {n} : rt'[x] = rt[x]
  BY DEF Tabled
<1>3. o.ret = 1 \/ o.ret = 0
  BY <1>1 DEF T!rt_add_route
<1>4. \/ o.ret = 1 /\ rt'[n] = o.table
      \/ o.ret = 0 /\ rt'[n] = T(n)!tear_down_path(o.table, p.pid, p.src)
  BY <1>1, <1>2, <1>3
<1>5. T(n)!SetupPath(p, na, nb)
  BY <1>1, <1>4 DEF T!SetupPath, RouteOf
<1> QED
  BY <1>2, <1>5

\* A hello adds a neighbour to the physical set, or none.
LEMMA TableHello ==
    ASSUME SetupInv, NEW n \in Node, NEW m \in Node, pset_update_handler(n, m)
    PROVE  TableStep
<1>1. /\ up[n] /\ m \in Adjacent[n] /\ pset' = [pset EXCEPT ![n] = @ \cup {m}]
      /\ UNCHANGED <<rt, up>>
  BY DEF pset_update_handler
<1>2. pset'[n] = pset[n] \cup {m} /\ \A x \in Node \ {n} : pset'[x] = pset[x]
  BY <1>1 DEF SetupInv, Typed
<1>3. CASE m \in pset[n]
  <2>1. UNCHANGED T(n)!vars
    BY <1>1, <1>2, <1>3 DEF T!vars
  <2> QED
    BY <1>1, <1>2, <2>1, TablesOfOthers
<1>4. CASE m \notin pset[n]
  <2>1. T(n)!PsetGain(m)
    BY <1>1, <1>2, <1>4 DEF T!PsetGain
  <2>2. T(n)!Next
    BY <1>1, <2>1 DEF T!Next
  <2> QED
    BY <1>1, <1>2, <2>2, TablesOfOthers
<1> QED
  BY <1>3, <1>4

\* detect_failures takes one away, or none.
LEMMA TableSilence ==
    ASSUME SetupInv, NEW n \in Node, NEW m \in Node, detect_failures(n, m)
    PROVE  TableStep
<1>1. up[n] /\ UNCHANGED <<rt, up>>
  BY DEF detect_failures
<1>2. CASE pset' = pset
  BY <1>1, <1>2, TablesSame
<1>3. CASE m \in pset[n] \ proxies[n] /\ pset' = [pset EXCEPT ![n] = @ \ {m}]
  <2>1. pset'[n] = pset[n] \ {m} /\ \A x \in Node \ {n} : pset'[x] = pset[x]
    BY <1>3 DEF SetupInv, Typed
  <2>2. m \in Adjacent[n]
    BY <1>3 DEF SetupInv, Typed
  <2>3. T(n)!PsetLoss(m)
    BY <1>1, <1>3, <2>1 DEF T!PsetLoss
  <2>4. T(n)!Next
    BY <2>2, <2>3 DEF T!Next
  <2> QED
    BY <1>1, <2>1, <2>4, TablesOfOthers
<1> QED
  BY <1>2, <1>3 DEF detect_failures

\* A path that starts here has an identifier the table does not hold.
LEMMA TableReq ==
    ASSUME SetupInv, NEW m \in net, NEW n \in Node, vrr_rcv_setup_req(n, m)
    PROVE  TableStep
<1>0. Tabled /\ Typed /\ Posted
  BY DEF SetupInv
<1>1. m \in ReqOK /\ up[n] /\ UNCHANGED <<pset, up>>
  BY <1>0, Kinds DEF vrr_rcv_setup_req, Receives
<1>2. CASE rt' = rt
  BY <1>1, <1>2, TablesSame
<1>3. CASE rt' # rt
  <2>1. PICK offer, reqs : vrr_local_rcv_setup(n, m, offer, reqs)
    BY <1>3 DEF vrr_rcv_setup_req, vrr_local_rcv_setup_fail
  <2>2. PICK p \in Path \ drawn :
          /\ p.src = n /\ T(n)!HasRoom
          /\ \E out \in AddRoute(n, p, n, NextHop(n, p.dst, m.proxy)) :
                rt' = [rt EXCEPT ![n] = out.table]
    BY <2>1 DEF vrr_local_rcv_setup
  <2>3. PICK out \in AddRoute(n, p, n, NextHop(n, p.dst, m.proxy)) :
           rt' = [rt EXCEPT ![n] = out.table]
    BY <2>2
  <2>4. /\ T(n)!SetupPath(p, n, NextHop(n, p.dst, m.proxy))
        /\ \A x \in Node \ {n} : rt'[x] = rt[x] /\ pset'[x] = pset[x] /\ up'[x] = up[x]
    BY <1>0, <1>1, <2>2, <2>3, TableAdds
  <2>5. ASSUME NEW k \in DOMAIN rt[n] PROVE T(n)!Find(rt[n], k, p.pid) = 0
    <3>1. Table(T(n)!Route, rt[n])
      BY <1>0 DEF Tabled
    <3>2. ASSUME NEW e, Entry(rt[n], k, e), e.path_id = p.pid PROVE FALSE
      <4>1. RouteOK(n, k, e)
        BY <1>0, <3>2, Entries
      <4>2. PICK q \in drawn : q.pid = e.path_id
        BY <4>1 DEF RouteOK
      <4> QED
        BY <1>0, <3>2, <4>2, Network DEF Typed
    <3>3. \A e : Entry(rt[n], k, e) => e.path_id # p.pid
      BY <3>2
    <3> QED
      BY <3>1, <3>3, NotFound
  <2>6. T(n)!vrr_local_rcv_setup(p, m.proxy)
    BY <1>1, <2>2, <2>4, <2>5 DEF T!vrr_local_rcv_setup, NextHop
  <2>7. m.proxy \in T(n)!Id
    BY <1>1, Network DEF ReqOK, SetupReq, T!Id, Id
  <2>8. T(n)!Next
    BY <2>6, <2>7 DEF T!Next
  <2> QED
    BY <2>4, <2>8, TablesOfOthers
<1> QED
  BY <1>2, <1>3

\* A setup comes from a physical neighbour.
LEMMA TableSetup ==
    ASSUME SetupInv, NEW m \in net, NEW n \in Node, vrr_rcv_setup(n, m)
    PROVE  TableStep
<1>0. Tabled /\ Typed /\ Posted
  BY DEF SetupInv
<1>1. m \in SetupOK /\ m.to = n /\ up[n] /\ UNCHANGED <<pset, up>>
  BY <1>0, Kinds DEF vrr_rcv_setup, Receives
<1>2. PICK p \in Path : p = m.path
  BY <1>1 DEF SetupOK, SetupMsg
<1>3. m.from \in Adjacent[n] /\ m.proxy \in T(n)!Id
  BY <1>1, Network DEF SetupOK, SetupMsg, T!Id, Id
<1>4. /\ T(n)!vrr_rcv_setup(p, m.from, m.proxy)
      /\ \A x \in Node \ {n} : rt'[x] = rt[x] /\ pset'[x] = pset[x] /\ up'[x] = up[x]
  <2>1. CASE m.from \notin pset[n] \/ m.copy = 2
    <3>1. rt' = [rt EXCEPT ![n] = T(n)!tear_down_path(rt[n], p.pid, p.src)]
      BY <1>2, <2>1 DEF vrr_rcv_setup
    <3>2. /\ rt'[n] = T(n)!tear_down_path(rt[n], p.pid, p.src)
          /\ \A x \in Node \ {n} : rt'[x] = rt[x]
      BY <1>0, <3>1 DEF Tabled
    <3> QED
      BY <1>1, <2>1, <3>2 DEF T!vrr_rcv_setup
  <2>2. CASE ~(m.from \notin pset[n] \/ m.copy = 2)
    <3>1. PICK out \in AddRoute(n, p, m.from, T(n)!NextHop(p.dst, m.proxy)) :
             rt' = [rt EXCEPT ![n] = out.table] /\ T(n)!HasRoom
      BY <1>2, <2>2 DEF vrr_rcv_setup
    <3>2. /\ T(n)!SetupPath(p, m.from, T(n)!NextHop(p.dst, m.proxy))
          /\ \A x \in Node \ {n} : rt'[x] = rt[x] /\ pset'[x] = pset[x] /\ up'[x] = up[x]
      BY <1>0, <1>1, <3>1, TableAdds
    <3> QED
      BY <1>1, <2>2, <3>2 DEF T!vrr_rcv_setup
  <2> QED
    BY <2>1, <2>2
<1>5. T(n)!Next
  BY <1>3, <1>4 DEF T!Next
<1> QED
  BY <1>4, <1>5, TablesOfOthers

\* A teardown removes the path or crashes the node, as in RouteTable.
LEMMA TableTeardown ==
    ASSUME SetupInv, NEW m \in net, NEW n \in Node, vrr_rcv_teardown(n, m)
    PROVE  TableStep
<1>0. Tabled /\ Typed /\ Posted
  BY DEF SetupInv
<1>1. m \in Teardown /\ up[n] /\ pset' = pset
  BY <1>0, Kinds DEF vrr_rcv_teardown, Receives
<1>2. PICK p \in Path : p = m.path
  BY <1>1 DEF Teardown
<1>3. /\ T(n)!vrr_rcv_teardown(p)
      /\ \A x \in Node \ {n} : rt'[x] = rt[x] /\ pset'[x] = pset[x] /\ up'[x] = up[x]
  <2>1. CASE T(n)!Find(rt[n], p.src, p.pid) = 0
    <3>1. rt' = rt /\ up' = [up EXCEPT ![n] = FALSE]
      BY <1>2, <2>1 DEF vrr_rcv_teardown
    <3>2. up'[n] = FALSE /\ \A x \in Node \ {n} : up'[x] = up[x]
      BY <1>0, <3>1 DEF Typed
    <3> QED
      BY <1>1, <2>1, <3>1, <3>2 DEF T!vrr_rcv_teardown
  <2>2. CASE T(n)!Find(rt[n], p.src, p.pid) # 0
    <3>1. /\ rt' = [rt EXCEPT ![n] = T(n)!rt_remove_route(rt[n], p.src, p.pid)]
          /\ up' = up
      BY <1>2, <2>2 DEF vrr_rcv_teardown
    <3>2. /\ rt'[n] = T(n)!rt_remove_route(rt[n], p.src, p.pid)
          /\ \A x \in Node \ {n} : rt'[x] = rt[x]
      BY <1>0, <3>1 DEF Tabled
    <3> QED
      BY <1>1, <2>2, <3>1, <3>2 DEF T!vrr_rcv_teardown
  <2> QED
    BY <2>1, <2>2
<1>4. T(n)!Next
  BY <1>3 DEF T!Next
<1> QED
  BY <1>3, <1>4, TablesOfOthers

\* Setup implements RouteTable at every node: what other nodes' messages make a
\* handler do to the table is a step of RouteTable.
THEOREM SetupImplementsTables == Spec => Tables
<1>1. Init => \A n \in Node : T(n)!Init
  <2> SUFFICES ASSUME Init, NEW n \in Node PROVE T(n)!Init
    OBVIOUS
  <2>1. rt[n] = [k \in {} |-> <<>>] /\ pset[n] = Adjacent[n] /\ up[n] = TRUE
    BY DEF Init
  <2> QED
    BY <2>1 DEF T!Init
<1>2. SetupInv /\ [Next]_vars => [TableStep]_vars
  <2> SUFFICES ASSUME SetupInv, Next PROVE TableStep
    OBVIOUS
  <2>1. CASE \E n, m \in Node : pset_update_handler(n, m) \/ detect_failures(n, m)
    BY <2>1, TableHello, TableSilence
  <2>2. CASE \E m \in net : Lose(m) \/ Repeat(m)
    BY <2>2, TablesSame DEF Lose, Repeat
  <2>3. CASE \E m \in net, n \in Node : \/ vrr_forward_setup_req(n, m)
                                        \/ vrr_rcv_setup_fail(n, m)
    BY <2>3, TablesSame DEF vrr_forward_setup_req, vrr_rcv_setup_fail
  <2>4. CASE \E m \in net, n \in Node : \/ vrr_rcv_setup_req(n, m)
                                        \/ vrr_rcv_setup(n, m)
                                        \/ vrr_rcv_teardown(n, m)
    BY <2>4, TableReq, TableSetup, TableTeardown
  <2> QED
    BY <2>1, <2>2, <2>3, <2>4 DEF Next
<1> QED
  BY <1>1, <1>2, SetupInvariance, PTL DEF Spec, Tables, TableStep
-----------------------------------------------------------------------------
(***************************************************************************)
(* What RouteTable promises of one table, at every node of the network.    *)
(***************************************************************************)

\* Stored, in terms of entries.
LEMMA StoredEntry ==
    ASSUME NEW n, NEW k, NEW p
    PROVE  T(n)!Stored(k, p) <=> \E e : Entry(rt[n], k, e) /\ e.path_id = p.pid
BY DEF T!Stored, Entry

\* The next hop that a list of the table yields for any endpoint is this node
\* only when the list holds a path from here to here.
LEMMA SearchSelf ==
    ASSUME Tabled, NEW n \in Node, NEW k \in DOMAIN rt[n], NEW dest,
           T(n)!route_list_search(rt[n][k], dest) = n
    PROVE  \E e : Entry(rt[n], k, e) /\ e.ea = n /\ e.eb = n
<1> DEFINE l == rt[n][k]
           e == l[CHOOSE i \in 1 .. Len(l) : T(n)!IsMax(l, i)]
<1>0. n # 0 /\ n \notin Adjacent[n]
  BY Network
<1>1. \E i \in 1 .. Len(l) : T(n)!IsMax(l, i)
  BY <1>0 DEF T!route_list_search
<1>2. Entry(rt[n], k, e)
  BY <1>1 DEF Entry
<1>3. RouteOK(n, k, e)
  BY <1>2, Entries
<1>4. n = IF T(n)!get_diff(dest, e.ea) < T(n)!get_diff(dest, e.eb)
          THEN IF e.ea # n THEN e.na ELSE e.nb
          ELSE IF e.eb # n THEN e.nb ELSE e.na
  BY <1>1 DEF T!route_list_search
<1> HIDE DEF e
<1>5. e.na = n => e.ea = n
  BY <1>3 DEF RouteOK
<1>6. e.nb # n
  BY <1>0, <1>3 DEF RouteOK
<1>7. e.ea = n /\ e.eb = n
  BY <1>4, <1>5, <1>6
<1> QED
  BY <1>2, <1>7

\* No node forwards to itself.
LEMMA NeverSelf ==
    ASSUME SetupInv, NEW n \in Node
    PROVE  T(n)!NeverForwardToSelf
<1>0. Tabled /\ Typed
  BY DEF SetupInv
<1>1. ASSUME NEW dest PROVE T(n)!rt_get_next(rt[n], dest) # n
  BY <1>0, LookupRange, Network
<1>2. ASSUME NEW dest, NEW src, n \in T(n)!rt_get_next_exclude(rt[n], dest, src)
      PROVE  \E p \in Path : p.src = n /\ p.dst = n /\ T(n)!Stored(n, p)
  <2>1. PICK k \in DOMAIN rt[n] : T(n)!route_list_search(rt[n][k], dest) = n
    BY <1>1, <1>2 DEF T!rt_get_next_exclude, T!Above
  <2>2. PICK e : Entry(rt[n], k, e) /\ e.ea = n /\ e.eb = n
    BY <1>0, <2>1, SearchSelf
  <2>3. RouteOK(n, k, e)
    BY <1>0, <2>2, Entries
  <2>4. PICK p \in drawn : p.pid = e.path_id /\ p.src = e.ea /\ p.dst = e.eb
    BY <2>3 DEF RouteOK
  <2>5. k = n /\ p \in Path
    BY <1>0, <2>2, <2>3 DEF RouteOK, Typed
  <2>6. T(n)!Stored(n, p)
    BY <2>2, <2>4, <2>5, StoredEntry
  <2> QED
    BY <2>2, <2>4, <2>5, <2>6
<1> QED
  BY <1>1, <1>2 DEF T!NeverForwardToSelf

\* The copy under the destination outlives the one under the source.
LEMMA BothEndsStep ==
    ASSUME SetupInv, Effect, NEW n \in Node, T(n)!BothEnds
    PROVE  T(n)!BothEnds'
<1>1. SUFFICES ASSUME NEW p \in Path, NEW e, Entry(rt'[n], p.src, e), e.path_id = p.pid
               PROVE  \E f : Entry(rt'[n], p.dst, f) /\ f.path_id = p.pid
  <2>1. ASSUME NEW p \in Path
        PROVE  T(n)!Stored(p.src, p)' => \E e : Entry(rt'[n], p.src, e) /\ e.path_id = p.pid
    BY DEF T!Stored, Entry
  <2>2. ASSUME NEW p \in Path, NEW f, Entry(rt'[n], p.dst, f), f.path_id = p.pid
        PROVE  T(n)!Stored(p.dst, p)'
    BY <2>2 DEF T!Stored, Entry
  <2> QED
    BY <1>1, <2>1, <2>2 DEF T!BothEnds
<1>2. ASSUME NEW d, Entry(rt[n], p.src, d), d.path_id = p.pid
      PROVE  \E f : Entry(rt[n], p.dst, f) /\ f.path_id = p.pid
  <2>1. p.dst # 0
    BY Network
  <2> QED
    BY <1>2, <2>1, StoredEntry DEF T!BothEnds
<1>3. CASE Still
  BY <1>1, <1>2, <1>3 DEF Still
<1>4. ASSUME NEW x \in Node, NEW na, NEW q \in Path, NEW nb, Lays(x, q, na, nb)
      PROVE  \E f : Entry(rt'[n], p.dst, f) /\ f.path_id = p.pid
  <2>1. CASE x # n
    BY <1>1, <1>2, <1>4, <2>1 DEF Lays
  <2>2. CASE x = n /\ Entry(rt[n], p.src, e)
    BY <1>1, <1>2, <1>4, <2>2 DEF Lays, Adds
  <2>3. CASE x = n /\ ~Entry(rt[n], p.src, e)
    <3> DEFINE r == RouteOf(q, na, nb)
    <3>1. e = r /\ Entry(rt'[n], q.dst, r)
      BY <1>1, <1>4, <2>3 DEF Lays, Adds
    <3>2. r.path_id = q.pid
      BY DEF RouteOf
    <3> HIDE DEF r
    <3>3. q = p
      BY <1>1, <3>1, <3>2, Network
    <3> QED
      BY <3>1, <3>2, <3>3
  <2> QED
    BY <2>1, <2>2, <2>3
<1>5. ASSUME NEW x \in Node, NEW q \in Path, Tears(x, q)
      PROVE  \E f : Entry(rt'[n], p.dst, f) /\ f.path_id = p.pid
  <2>1. CASE x # n
    BY <1>1, <1>2, <1>5, <2>1 DEF Tears
  <2>2. CASE x = n /\ (p # q \/ p.src # p.dst)
    <3>1. Entry(rt[n], p.src, e)
      BY <1>1, <1>5, <2>2 DEF Tears, Drops
    <3>2. PICK f : Entry(rt[n], p.dst, f) /\ f.path_id = p.pid
      BY <1>1, <1>2, <3>1
    <3>3. p.dst # q.src \/ f.path_id # q.pid
      BY <2>2, <3>2, Network
    <3> QED
      BY <1>5, <2>2, <3>2, <3>3 DEF Tears, Drops
  <2>3. CASE p.src = p.dst
    BY <1>1, <2>3
  <2> QED
    BY <2>1, <2>2, <2>3
<1> QED
  BY <1>3, <1>4, <1>5 DEF Effect

TablesInv == SetupInv /\ \A n \in Node : T(n)!BothEnds

\* What is proved of one table holds of the table of every node of the network:
\* a path under its source is under its destination, and no lookup leads back to
\* the node that makes it.
THEOREM EveryTable ==
    Spec => [](\A n \in Node : T(n)!BothEnds /\ T(n)!NeverForwardToSelf)
<1>1. Init => TablesInv
  <2> SUFFICES ASSUME Init PROVE TablesInv
    OBVIOUS
  <2>1. \A n \in Node : DOMAIN rt[n] = {}
    BY DEF Init
  <2> QED
    BY <2>1, SetupInit DEF TablesInv, T!BothEnds, T!Stored
<1>2. TablesInv /\ [Next]_vars => TablesInv'
  <2> SUFFICES ASSUME TablesInv, [Next]_vars PROVE TablesInv'
    OBVIOUS
  <2>1. SetupInv' /\ Effect
    BY SetupNext, SetupStutter DEF TablesInv
  <2> QED
    BY <2>1, BothEndsStep DEF TablesInv
<1>3. TablesInv => \A n \in Node : T(n)!BothEnds /\ T(n)!NeverForwardToSelf
  BY NeverSelf DEF TablesInv
<1> QED
  BY <1>1, <1>2, <1>3, PTL DEF Spec
-----------------------------------------------------------------------------
(***************************************************************************)
(* Packets in networks that are trees: every route points along the only   *)
(* way to its endpoint.                                                    *)
(***************************************************************************)

\* Distances are numbers; of the neighbours of x at most one is closer to d.
LEMMA TreeDistance ==
    ASSUME NEW hops, TreeHops(hops)
    PROVE  /\ Cardinality(Node) \in Nat
           /\ \A n, d \in Node : /\ hops[n][d] \in 0 .. Cardinality(Node)
                                 /\ hops[n][d] = hops[d][n]
                                 /\ hops[n][d] = 0 <=> n = d
           /\ \A n, x, d \in Node : hops[n][d] <= hops[n][x] + hops[x][d]
<1>1. Cardinality(Node) \in Nat
  <2>1. IsFiniteSet(Id)
    BY RingAssumption, FS_Interval DEF Id
  <2>2. IsFiniteSet(Node)
    BY <2>1, Network, FS_Subset
  <2> QED
    BY <2>2, FS_CardinalityType
<1> QED
  BY <1>1 DEF TreeHops

\* Neighbours are one hop apart; a neighbour that is not closer is farther away.
LEMMA TreeNeighbour ==
    ASSUME NEW hops, TreeHops(hops), NEW n \in Node, NEW d \in Node, n # d
    PROVE  /\ \A y \in Adjacent[n] : \/ hops[y][d] = hops[n][d] - 1
                                     \/ hops[y][d] = hops[n][d] + 1
           /\ \E m \in Adjacent[n] : hops[m][d] = hops[n][d] - 1
           /\ \A y, z \in Adjacent[n] :
                 hops[y][d] < hops[n][d] /\ hops[z][d] < hops[n][d] => y = z
           /\ d \in Adjacent[n] => hops[n][d] = 1
<1>1. /\ Adjacent[n] \subseteq Node
      /\ \A x, y \in Node : hops[x][y] \in Nat /\ (hops[x][y] = 0 <=> x = y)
  BY TreeDistance, Network
<1>2. PICK m \in Adjacent[n] :
         /\ hops[m][d] = hops[n][d] - 1
         /\ \A x \in Adjacent[n] \ {m} : hops[x][d] = hops[n][d] + 1
  BY DEF TreeHops
<1>3. hops[n][d] \in Nat /\ \A y \in Adjacent[n] : hops[y][d] \in Nat
  BY <1>1
<1>4. \A y \in Adjacent[n] : hops[y][d] < hops[n][d] => y = m
  BY <1>2, <1>3
<1>5. d \in Adjacent[n] => hops[n][d] = 1
  <2>1. hops[d][d] = 0
    BY <1>1
  <2> QED
    BY <1>2, <1>3, <2>1
<1> QED
  BY <1>2, <1>4, <1>5

\* On the way to a neighbour of d one comes closer to d.
LEMMA TreeAim ==
    ASSUME NEW hops, TreeHops(hops), NEW x \in Node, NEW d \in Node, x # d,
           NEW proxy \in Adjacent[d], NEW y \in Adjacent[x],
           hops[y][proxy] < hops[x][proxy]
    PROVE  hops[y][d] < hops[x][d]
<1>1. proxy \in Node /\ y \in Node /\ d # proxy /\ d \in Adjacent[proxy]
  BY Network
<1>2. /\ \A a, b \in Node : hops[a][b] \in Nat /\ hops[a][b] = hops[b][a]
      /\ \A a, b, c \in Node : hops[a][c] <= hops[a][b] + hops[b][c]
  BY TreeDistance
<1>3. hops[proxy][d] = 1
  BY <1>1, TreeNeighbour
<1>4. hops[x][proxy] = hops[x][d] - 1 \/ hops[x][proxy] = hops[x][d] + 1
  <2>1. hops[proxy][x] = hops[d][x] - 1 \/ hops[proxy][x] = hops[d][x] + 1
    BY TreeNeighbour
  <2> QED
    BY <1>1, <1>2, <2>1
<1>5. CASE hops[x][proxy] = hops[x][d] - 1
  <2>1. hops[y][d] <= hops[y][proxy] + hops[proxy][d]
    BY <1>1, <1>2
  <2>2. hops[y][d] \in Nat /\ hops[y][proxy] \in Nat /\ hops[x][d] \in Nat
    BY <1>1, <1>2
  <2> QED
    BY <1>3, <1>5, <2>1, <2>2
<1>6. CASE hops[x][proxy] = hops[x][d] + 1
  <2>1. PICK m \in Adjacent[x] : hops[m][d] = hops[x][d] - 1
    BY TreeNeighbour
  <2>2. m \in Node
    BY <2>1, Network
  <2>3. hops[m][proxy] <= hops[m][d] + hops[d][proxy] /\ hops[d][proxy] = 1
    BY <1>1, <1>2, <1>3, <2>2
  <2>4. /\ hops[m][proxy] \in Nat /\ hops[m][d] \in Nat /\ hops[x][d] \in Nat
        /\ hops[x][proxy] \in Nat
    BY <1>1, <1>2, <2>2
  <2>5. hops[m][proxy] < hops[x][proxy]
    BY <1>6, <2>1, <2>3, <2>4
  <2>6. x # proxy
    <3>1. hops[x][x] = 0
      BY TreeDistance
    <3> QED
      BY <1>6, <2>4, <3>1
  <2>7. y = m
    BY <1>1, <2>5, <2>6, TreeNeighbour
  <2> QED
    BY <2>1, <2>4, <2>7
<1> QED
  BY <1>4, <1>5, <1>6

\* From between s and d one hop closer to d is still between them, and farther
\* from s.
LEMMA TreeBetween ==
    ASSUME NEW hops, TreeHops(hops), NEW s \in Node, NEW d \in Node, NEW x \in Node,
           x # d, hops[s][x] + hops[x][d] = hops[s][d],
           NEW y \in Adjacent[x], hops[y][d] < hops[x][d]
    PROVE  hops[s][y] + hops[y][d] = hops[s][d] /\ hops[x][s] < hops[y][s]
<1>1. y \in Node /\ x # y /\ x \in Adjacent[y]
  BY Network
<1>2. /\ \A a, b \in Node : hops[a][b] \in Nat /\ hops[a][b] = hops[b][a]
      /\ \A a, b, c \in Node : hops[a][c] <= hops[a][b] + hops[b][c]
  BY TreeDistance
<1>3. hops[y][d] = hops[x][d] - 1
  <2>1. hops[y][d] = hops[x][d] - 1 \/ hops[y][d] = hops[x][d] + 1
    BY TreeNeighbour
  <2>2. hops[y][d] \in Nat /\ hops[x][d] \in Nat
    BY <1>1, <1>2
  <2> QED
    BY <2>1, <2>2
<1>4. hops[x][y] = 1
  BY <1>1, TreeNeighbour
<1>5. /\ hops[s][y] <= hops[s][x] + hops[x][y]
      /\ hops[s][d] <= hops[s][y] + hops[y][d]
  BY <1>1, <1>2
<1>6. /\ hops[s][y] \in Nat /\ hops[s][x] \in Nat /\ hops[x][d] \in Nat
      /\ hops[s][d] \in Nat /\ hops[y][s] = hops[s][y] /\ hops[x][s] = hops[s][x]
  BY <1>1, <1>2
<1> QED
  BY <1>3, <1>4, <1>5, <1>6

\* The route of the table leads from n towards the endpoint k it is stored under.
DirectedRoute(hops, n, k, e) ==
    k # n => /\ e.eb = k => e.nb = 0 \/ hops[e.nb][k] < hops[n][k]
             /\ e.ea = k /\ e.eb # k => hops[e.na][k] < hops[n][k]

DirectedRoutes(hops) ==
    \A n \in Node : \A k, e : Entry(rt[n], k, e) => DirectedRoute(hops, n, k, e)

\* A setup travels away from its source, on the way to its destination.
DirectedSetup(hops, from, to, p) ==
    p.src # p.dst =>
        /\ hops[p.src][to] + hops[to][p.dst] = hops[p.src][p.dst]
        /\ hops[from][p.src] < hops[to][p.src]

DirectedSetups(hops) ==
    \A m \in net : m.type = "setup" => DirectedSetup(hops, m.from, m.to, m.path)

DirectedInv(hops) == SetupInv /\ DirectedRoutes(hops) /\ DirectedSetups(hops)

\* Only a node itself is at distance 0 on the ring.
LEMMA DiffZero ==
    ASSUME NEW n, NEW x \in Id, NEW y \in Id
    PROVE  /\ T(n)!get_diff(x, x) = 0
           /\ x # y => 0 < T(n)!get_diff(x, y)
<1> DEFINE M == UINT_MAX + 1
           i == (x - y) % M
           j == (y - x) % M
<1>1. M \in Nat /\ M > 1 /\ x \in 0 .. M - 1 /\ y \in 0 .. M - 1
  BY RingAssumption DEF Id
<1>2. 0 % M = 0 /\ x - x = 0
  BY <1>1
<1>3. ASSUME x < y PROVE i = M + x - y /\ j = y - x
  BY <1>1, <1>3
<1>4. ASSUME y < x PROVE i = x - y /\ j = M + y - x
  BY <1>1, <1>4
<1>5. T(n)!get_diff(x, x) = 0
  BY <1>1, <1>2 DEF T!get_diff
<1>6. x # y => i > 0 /\ j > 0
  <2> HIDE DEF i, j, M
  <2> QED
    BY <1>1, <1>3, <1>4
<1> QED
  BY <1>5, <1>6 DEF T!get_diff

\* A lookup for d leads to a neighbour that is closer to d.
LEMMA LookupCloser ==
    ASSUME NEW hops, TreeHops(hops), Tabled, Typed, DirectedRoutes(hops),
           NEW n \in Node, NEW d \in Node, NEW y, y = T(n)!rt_get_next(rt[n], d), y # 0
    PROVE  y \in Adjacent[n] /\ n # d /\ hops[y][d] < hops[n][d]
<1> DEFINE l == rt[n][d]
           e == l[CHOOSE i \in 1 .. Len(l) : T(n)!IsMax(l, i)]
<1>1. y \in Adjacent[n]
  BY LookupRange
<1>2. d \in DOMAIN rt[n] /\ d # n /\ y = T(n)!route_list_search(l, d)
  BY DEF T!rt_get_next
<1>3. \E i \in 1 .. Len(l) : T(n)!IsMax(l, i)
  BY <1>2 DEF T!route_list_search
<1>4. Entry(rt[n], d, e)
  BY <1>2, <1>3 DEF Entry
<1>5. y = IF T(n)!get_diff(d, e.ea) < T(n)!get_diff(d, e.eb)
          THEN IF e.ea # n THEN e.na ELSE e.nb
          ELSE IF e.eb # n THEN e.nb ELSE e.na
  BY <1>2, <1>3 DEF T!route_list_search
<1> HIDE DEF e
<1>6. RouteOK(n, d, e) /\ DirectedRoute(hops, n, d, e)
  BY <1>4, Entries DEF DirectedRoutes
<1>7. d \in Id /\ e.ea \in Id /\ e.eb \in Id
  BY <1>6, Network DEF RouteOK, Typed
<1>8. CASE e.eb = d
  <2>1. ~(T(n)!get_diff(d, e.ea) < 0)
    <3>1. d # e.ea => 0 < T(n)!get_diff(d, e.ea)
      BY <1>7, DiffZero
    <3>2. T(n)!get_diff(d, e.ea) \in Int
      BY <1>7, RingAssumption DEF T!get_diff, Id
    <3>3. T(n)!get_diff(d, d) = 0
      BY <1>7, DiffZero
    <3> QED
      BY <3>1, <3>2, <3>3
  <2>2. T(n)!get_diff(d, e.eb) = 0
    BY <1>7, <1>8, DiffZero
  <2>3. y = e.nb
    BY <1>2, <1>5, <1>8, <2>1, <2>2
  <2> QED
    BY <1>1, <1>2, <1>6, <1>8, <2>3 DEF DirectedRoute
<1>9. CASE e.eb # d
  <2>1. e.ea = d
    BY <1>6, <1>9 DEF RouteOK
  <2>2. T(n)!get_diff(d, e.ea) = 0 /\ 0 < T(n)!get_diff(d, e.eb)
    BY <1>7, <1>9, <2>1, DiffZero
  <2>3. y = e.na
    BY <1>2, <1>5, <2>1, <2>2
  <2> QED
    BY <1>1, <1>2, <1>6, <1>9, <2>1, <2>3 DEF DirectedRoute
<1> QED
  BY <1>8, <1>9

\* So does the next hop of a setup for its destination.
LEMMA AimedCloser ==
    ASSUME NEW hops, TreeHops(hops), Tabled, Typed, DirectedRoutes(hops),
           NEW n \in Node, NEW p \in Path, n # p.dst, NEW nb, Aimed(n, p, nb), nb # 0
    PROVE  nb \in Adjacent[n] /\ hops[nb][p.dst] < hops[n][p.dst]
<1>1. nb \in Adjacent[n] /\ p.dst \in Node /\ Adjacent[p.dst] \subseteq Node
  BY Network DEF Aimed
<1>2. CASE nb = p.dst
  <2>1. hops[n][p.dst] = 1 /\ hops[nb][p.dst] = 0
    BY <1>1, <1>2, TreeNeighbour, TreeDistance
  <2> QED
    BY <1>1, <2>1
<1>3. ASSUME NEW proxy \in Adjacent[p.dst], nb = T(n)!rt_get_next(rt[n], proxy)
      PROVE  hops[nb][p.dst] < hops[n][p.dst]
  <2>1. hops[nb][proxy] < hops[n][proxy]
    BY <1>1, <1>3, LookupCloser
  <2> QED
    BY <1>1, <2>1, TreeAim
<1> QED
  BY <1>1, <1>2, <1>3 DEF Aimed

\* A setup that a node sends on travels on the way.
LEMMA DirectedSend ==
    ASSUME NEW hops, TreeHops(hops), DirectedInv(hops), NEW n \in Node, NEW na \in Node,
           NEW p \in Path, NEW nb \in Node, Lays(n, p, na, nb)
    PROVE  DirectedSetup(hops, n, nb, p)
<1>0. Tabled /\ Typed /\ DirectedRoutes(hops) /\ DirectedSetups(hops)
  BY DEF DirectedInv, SetupInv
<1> SUFFICES ASSUME p.src # p.dst PROVE DirectedSetup(hops, n, nb, p)
  BY DEF DirectedSetup
<1>1. Aimed(n, p, nb) /\ nb # 0 /\ p.src \in Node /\ p.dst \in Node
  BY Network DEF Lays
<1>2. n # p.dst
  BY <1>1 DEF Aimed
<1>3. nb \in Adjacent[n] /\ hops[nb][p.dst] < hops[n][p.dst]
  BY <1>0, <1>1, <1>2, AimedCloser
<1>4. hops[p.src][n] + hops[n][p.dst] = hops[p.src][p.dst]
  <2>1. CASE na = n /\ p.src = n
    <3>1. hops[n][n] = 0 /\ hops[n][p.dst] \in Nat
      BY <1>1, TreeDistance
    <3> QED
      BY <2>1, <3>1
  <2>2. CASE \E m \in net : m.type = "setup" /\ m.from = na /\ m.to = n /\ m.path = p
    BY <1>0, <2>2 DEF DirectedSetups, DirectedSetup
  <2> QED
    BY <2>1, <2>2 DEF Lays
<1> QED
  BY <1>1, <1>2, <1>3, <1>4, TreeBetween DEF DirectedSetup

\* The route that a node stores leads towards both ends of its path.
LEMMA DirectedStore ==
    ASSUME NEW hops, TreeHops(hops), DirectedInv(hops), NEW n \in Node, NEW na \in Node,
           NEW p \in Path, NEW nb, Lays(n, p, na, nb), NEW k \in {p.src, p.dst}
    PROVE  DirectedRoute(hops, n, k, RouteOf(p, na, nb))
<1>0. Tabled /\ Typed /\ DirectedRoutes(hops) /\ DirectedSetups(hops)
  BY DEF DirectedInv, SetupInv
<1> SUFFICES ASSUME k # n PROVE DirectedRoute(hops, n, k, RouteOf(p, na, nb))
  BY DEF DirectedRoute
<1> DEFINE e == RouteOf(p, na, nb)
<1>1. e.ea = p.src /\ e.eb = p.dst /\ e.na = na /\ e.nb = nb
  BY DEF RouteOf
<1> HIDE DEF e
<1>2. ASSUME e.eb = k PROVE e.nb = 0 \/ hops[e.nb][k] < hops[n][k]
  <2>1. Aimed(n, p, nb) /\ n # p.dst /\ k = p.dst
    BY <1>1, <1>2 DEF Lays
  <2> QED
    BY <1>0, <1>1, <2>1, AimedCloser
<1>3. ASSUME e.ea = k, e.eb # k PROVE hops[e.na][k] < hops[n][k]
  <2>1. p.src # n /\ p.src # p.dst /\ k = p.src
    BY <1>1, <1>3
  <2>2. \E m \in net : m.type = "setup" /\ m.from = na /\ m.to = n /\ m.path = p
    BY <2>1 DEF Lays
  <2>3. hops[na][p.src] < hops[n][p.src]
    BY <1>0, <2>1, <2>2 DEF DirectedSetups, DirectedSetup
  <2> QED
    BY <1>1, <2>1, <2>3
<1> QED
  BY <1>2, <1>3 DEF DirectedRoute, e

\* A step keeps routes and setups directed.
LEMMA DirectedStep ==
    ASSUME NEW hops, TreeHops(hops), DirectedInv(hops), SetupInv', Effect
    PROVE  DirectedInv(hops)'
<1>0. DirectedRoutes(hops) /\ DirectedSetups(hops)
  BY DEF DirectedInv
<1>1. DirectedRoutes(hops)'
  <2> SUFFICES ASSUME NEW x \in Node, NEW k, NEW e, Entry(rt'[x], k, e)
               PROVE  DirectedRoute(hops, x, k, e)
    BY DEF DirectedRoutes, DirectedRoute
  <2>1. CASE Entry(rt[x], k, e)
    BY <1>0, <2>1 DEF DirectedRoutes
  <2>2. CASE ~Entry(rt[x], k, e)
    <3>1. ~Still
      BY <2>2 DEF Still
    <3>2. ASSUME NEW n \in Node, NEW q \in Path, Tears(n, q)
          PROVE  FALSE
      BY <2>2, <3>2 DEF Tears, Drops
    <3>3. ASSUME NEW n \in Node, NEW na \in Node, NEW p \in Path, NEW nb,
                 Lays(n, p, na, nb)
          PROVE  DirectedRoute(hops, x, k, e)
      <4>1. x = n /\ k \in {p.src, p.dst} /\ e = RouteOf(p, na, nb)
        BY <2>2, <3>3 DEF Lays, Adds
      <4>2. \A j \in {p.src, p.dst} : DirectedRoute(hops, n, j, RouteOf(p, na, nb))
        BY <3>3, DirectedStore
      <4> QED
        BY <4>1, <4>2
    <3> QED
      BY <3>1, <3>2, <3>3 DEF Effect
  <2> QED
    BY <2>1, <2>2
<1>2. DirectedSetups(hops)'
  <2> SUFFICES ASSUME NEW m \in net', m.type = "setup"
               PROVE  DirectedSetup(hops, m.from, m.to, m.path)
    BY DEF DirectedSetups, DirectedSetup
  <2>1. CASE Carried(m)
    BY <1>0, <2>1 DEF Carried, DirectedSetups
  <2>2. ASSUME NEW n \in Node, NEW na \in Node, NEW p \in Path, NEW nb,
               Lays(n, p, na, nb), m.from = n, m.to = nb, m.path = p
        PROVE  DirectedSetup(hops, m.from, m.to, m.path)
    <3>1. m.to \in Node
      BY DEF SetupInv, Posted, SetupOK, ReqOK, SetupReq, SetupMsg, SetupFail, Teardown
    <3> QED
      BY <2>2, <3>1, DirectedSend
  <2> QED
    BY <2>1, <2>2 DEF Effect, Still, Lays, Tears
<1> QED
  BY <1>1, <1>2 DEF DirectedInv

\* The invariant of the routes and setups in a tree.
THEOREM DirectedInvariance ==
    ASSUME NEW hops, TreeHops(hops)
    PROVE  Spec => []DirectedInv(hops)
<1>1. Init => DirectedInv(hops)
  <2> SUFFICES ASSUME Init PROVE DirectedInv(hops)
    OBVIOUS
  <2>1. net = {} /\ \A n \in Node : DOMAIN rt[n] = {}
    BY DEF Init
  <2> QED
    BY <2>1, SetupInit DEF DirectedInv, DirectedRoutes, DirectedSetups, Entry
<1>2. DirectedInv(hops) /\ [Next]_vars => DirectedInv(hops)'
  <2> SUFFICES ASSUME DirectedInv(hops), [Next]_vars PROVE DirectedInv(hops)'
    OBVIOUS
  <2>1. SetupInv' /\ Effect
    BY SetupNext, SetupStutter DEF DirectedInv
  <2> QED
    BY <2>1, DirectedStep
<1> QED
  BY <1>1, <1>2, PTL DEF Spec

\* In a tree a setup is always on the only way from its source to its destination,
\* at a node that is farther from the source than the one that sent it: it never
\* visits a node twice, whatever the tables it is forwarded by went through.
THEOREM SetupsAdvance ==
    ASSUME NEW hops, TreeHops(hops)
    PROVE  Spec => []DirectedSetups(hops)
<1>1. Spec => []DirectedInv(hops)
  BY DirectedInvariance
<1>2. DirectedInv(hops) => DirectedSetups(hops)
  BY DEF DirectedInv
<1> QED
  BY <1>1, <1>2, PTL

\* One hop leads closer to the destination, or the packet is dropped.
LEMMA ForwardCloser ==
    ASSUME NEW hops, TreeHops(hops), DirectedInv(hops), NEW x \in Node, NEW d \in Node
    PROVE  \/ vrr_forward(x, d) = 0
           \/ vrr_forward(x, d) \in Node /\ hops[vrr_forward(x, d)][d] < hops[x][d]
<1>0. Tabled /\ Typed /\ DirectedRoutes(hops)
  BY DEF DirectedInv, SetupInv
<1>1. ASSUME T(x)!rt_get_next(rt[x], d) # 0
      PROVE  LET nh == T(x)!rt_get_next(rt[x], d)
             IN  nh \in Node /\ hops[nh][d] < hops[x][d]
  BY <1>0, <1>1, LookupCloser, Network
<1>2. 0 \notin pset[x]
  BY <1>0, Network DEF Typed
<1> QED
  BY <1>1, <1>2 DEF vrr_forward

\* f starts at a and applies F again and again.
Iterates(f, F, a, C) == f[0] = a /\ \A k \in 1 .. C : f[k] = F[f[k - 1]]

\* A function on S can be applied any number of times.
LEMMA Iterate ==
    ASSUME NEW S, NEW F \in [S -> S], NEW a \in S, NEW C \in Nat
    PROVE  \E f \in [0 .. C -> S] : Iterates(f, F, a, C)
<1> DEFINE Good(c) == {f \in [0 .. c -> S] :
                          f[0] = a /\ \A k \in 1 .. c : f[k] = F[f[k - 1]]}
           B == {c \in 0 .. C : Good(c) = {}}
<1>1. [k \in 0 .. 0 |-> a] \in Good(0)
  OBVIOUS
<1>2. ASSUME NEW c \in Nat, NEW f \in Good(c) PROVE Good(c + 1) # {}
  <2> DEFINE g == [k \in 0 .. c + 1 |-> IF k <= c THEN f[k] ELSE F[f[c]]]
  <2>1. f \in [0 .. c -> S] /\ f[0] = a /\ \A k \in 1 .. c : f[k] = F[f[k - 1]]
    OBVIOUS
  <2>2. g \in [0 .. c + 1 -> S]
    BY <2>1
  <2>3. g[0] = a
    BY <2>1
  <2>4. ASSUME NEW k \in 1 .. c + 1 PROVE g[k] = F[g[k - 1]]
    <3>1. CASE k \in 1 .. c
      BY <2>1, <3>1
    <3>2. CASE k = c + 1
      <4>1. k \in 0 .. c + 1 /\ k - 1 \in 0 .. c + 1 /\ ~(k <= c) /\ k - 1 <= c /\ k - 1 = c
        BY <3>2
      <4> QED
        BY <4>1
    <3> QED
      BY <3>1, <3>2
  <2> HIDE DEF g
  <2>5. g \in Good(c + 1)
    BY <2>2, <2>3, <2>4
  <2> QED
    BY <2>5
<1> SUFFICES Good(C) # {}
  BY DEF Iterates
<1> HIDE DEF Good
<1>3. B = {}
  <2> SUFFICES ASSUME B # {} PROVE FALSE
    OBVIOUS
  <2>1. PICK c \in B : \A b \in B : c <= b
    <3>1. B \in SUBSET Nat
      OBVIOUS
    <3> HIDE DEF B
    <3> QED
      BY <3>1, LeastOfSet
  <2>2. c # 0 /\ c - 1 \in 0 .. C /\ c - 1 \notin B /\ (c - 1) + 1 = c
    BY <1>1, <2>1
  <2>3. PICK f : f \in Good(c - 1)
    BY <2>2
  <2>4. Good((c - 1) + 1) # {}
    BY <1>2, <2>2, <2>3
  <2> QED
    BY <2>1, <2>2, <2>4
<1> QED
  BY <1>3

\* Every packet makes a trip: each hop is what vrr_forward says.
LEMMA Trips ==
    ASSUME SetupInv, NEW n \in Node, NEW d \in Node, Cardinality(Node) \in Nat
    PROVE  /\ Trip(n, d)[0] = n
           /\ \A k \in 1 .. Cardinality(Node) :
                 Trip(n, d)[k] = IF Trip(n, d)[k - 1] \in {0, d} THEN Trip(n, d)[k - 1]
                                 ELSE Forwarding(d)[Trip(n, d)[k - 1]]
<1> DEFINE S == Node \cup {0}
           C == Cardinality(Node)
           G == Forwarding(d)
           F == [x \in S |-> IF x \in {0, d} THEN x ELSE G[x]]
           Is(at) == at = [k \in 0 .. C |->
                             IF k = 0 THEN n
                             ELSE IF at[k - 1] \in {0, d} THEN at[k - 1]
                             ELSE G[at[k - 1]]]
<1>1. F \in [S -> S]
  <2>1. \A x \in Node : G[x] \in S
    BY DEF SetupInv, Typed, vrr_forward, Forwarding
  <2> QED
    BY <2>1
<1>2. \A x \in S : F[x] = IF x \in {0, d} THEN x ELSE G[x]
  OBVIOUS
<1> HIDE DEF F, G
<1>3. PICK f \in [0 .. C -> S] : f[0] = n /\ \A k \in 1 .. C : f[k] = F[f[k - 1]]
  <2>1. n \in S /\ C \in Nat
    OBVIOUS
  <2> HIDE DEF S, C
  <2>2. \E f \in [0 .. C -> S] : Iterates(f, F, n, C)
    BY <1>1, <2>1, Iterate
  <2> QED
    BY <2>2 DEF Iterates
<1>4. Is(f)
  <2>1. ASSUME NEW k \in 0 .. C
        PROVE  f[k] = IF k = 0 THEN n
                      ELSE IF f[k - 1] \in {0, d} THEN f[k - 1]
                      ELSE G[f[k - 1]]
    <3>1. CASE k = 0
      BY <1>3, <3>1
    <3>2. CASE k # 0
      <4>1. k \in 1 .. C /\ k - 1 \in 0 .. C
        BY <3>2
      <4>2. f[k] = F[f[k - 1]] /\ f[k - 1] \in S
        BY <1>3, <4>1
      <4> QED
        BY <1>2, <3>2, <4>2
    <3> QED
      BY <3>1, <3>2
  <2> QED
    BY <2>1
<1>5. Trip(n, d) = CHOOSE at : Is(at)
  BY DEF Trip, G
<1> HIDE DEF Is
<1>6. Is(Trip(n, d))
  BY <1>4, <1>5
<1> QED
  BY <1>6 DEF Is, G

\* A packet is a hop closer to its destination after every hop.
LEMMA TripsEnd ==
    ASSUME NEW hops, TreeHops(hops), DirectedInv(hops), NEW n \in Node, NEW d \in Node
    PROVE  TripEnd(n, d) \in {0, d}
<1> DEFINE C == Cardinality(Node)
           at == Trip(n, d)
           Near(k) == at[k] \in {0, d} \/ (at[k] \in Node /\ hops[at[k]][d] + k <= hops[n][d])
           B == {k \in 0 .. C : ~Near(k)}
<1>1. C \in Nat /\ \A x, y \in Node : hops[x][y] \in 0 .. C /\ (hops[x][y] = 0 => x = y)
  BY TreeDistance
<1>2. /\ at[0] = n
      /\ \A k \in 1 .. C : at[k] = IF at[k - 1] \in {0, d} THEN at[k - 1]
                                   ELSE Forwarding(d)[at[k - 1]]
  BY <1>1, Trips DEF DirectedInv
<1> HIDE DEF at
<1>3. Near(0)
  BY <1>1, <1>2
<1>4. ASSUME NEW k \in 1 .. C, Near(k - 1) PROVE Near(k)
  <2>1. CASE at[k - 1] \in {0, d}
    BY <1>2, <2>1
  <2>2. CASE at[k - 1] \notin {0, d}
    <3>1. at[k - 1] \in Node /\ hops[at[k - 1]][d] + (k - 1) <= hops[n][d]
      BY <1>4, <2>2
    <3>2. at[k] = Forwarding(d)[at[k - 1]]
      BY <1>2, <2>2
    <3>a. \A x \in Node : \/ Forwarding(d)[x] = 0
                          \/ /\ Forwarding(d)[x] \in Node
                             /\ hops[Forwarding(d)[x]][d] < hops[x][d]
      BY ForwardCloser DEF Forwarding
    <3>3. at[k] = 0 \/ (at[k] \in Node /\ hops[at[k]][d] < hops[at[k - 1]][d])
      BY <3>1, <3>2, <3>a
    <3>4. at[k] \in Node => hops[at[k]][d] \in Nat
      BY <1>1
    <3>5. hops[at[k - 1]][d] \in Nat /\ hops[n][d] \in Nat
      BY <1>1, <3>1
    <3> QED
      BY <1>1, <3>1, <3>3, <3>4, <3>5
  <2> QED
    BY <2>1, <2>2
<1> HIDE DEF Near
<1>5. B = {}
  <2> SUFFICES ASSUME B # {} PROVE FALSE
    OBVIOUS
  <2>1. PICK k \in B : \A b \in B : k <= b
    <3>1. B \in SUBSET Nat
      BY <1>1
    <3> HIDE DEF B
    <3> QED
      BY <3>1, LeastOfSet
  <2>2. k # 0 /\ k \in 1 .. C /\ k - 1 \in 0 .. C /\ k - 1 \notin B
    BY <1>1, <1>3, <2>1
  <2>3. Near(k - 1)
    BY <2>2
  <2> QED
    BY <1>4, <2>1, <2>2, <2>3
<1>6. Near(C)
  BY <1>1, <1>5
<1>7. at[C] \in {0, d}
  <2>1. SUFFICES ASSUME at[C] \notin {0, d} PROVE FALSE
    OBVIOUS
  <2>2. at[C] \in Node /\ hops[at[C]][d] + C <= hops[n][d]
    BY <1>6, <2>1 DEF Near
  <2>3. hops[at[C]][d] = 0
    BY <1>1, <2>2
  <2> QED
    BY <1>1, <2>1, <2>2, <2>3
<1> QED
  BY <1>7 DEF TripEnd, at

\* In a network that is a tree no packet goes round in circles, whatever setups,
\* teardowns and faults came before: every route was stored by a setup on the only
\* way between its ends, so each hop of vrr_forward is one hop closer.
THEOREM NoLoopInTrees ==
    ASSUME NEW hops, TreeHops(hops)
    PROVE  Spec => []NoLoop
<1>1. Spec => []DirectedInv(hops)
  BY DirectedInvariance
<1>2. DirectedInv(hops) => NoLoop
  BY TripsEnd DEF NoLoop
<1> QED
  BY <1>1, <1>2, PTL
=============================================================================
