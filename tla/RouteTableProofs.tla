-------------------------- MODULE RouteTableProofs --------------------------
(***************************************************************************)
(* Proofs about RouteTable, for identifiers of any width, any set of paths *)
(* and any shape of the tree.                                              *)
(***************************************************************************)
EXTENDS RouteTable, SequenceTheorems, WellFoundedInduction, TLAPS

\* What a route stored under endpoint k looks like: it belongs to a path, and
\* this node is a next hop only towards itself, as the source of the path.
RouteOK(k, r) ==
    /\ r \in Route
    /\ k \in {r.ea, r.eb}
    /\ r.na = ME => r.ea = ME
    /\ r.nb # ME
    /\ \E p \in Path : p.pid = r.path_id /\ p.src = r.ea /\ p.dst = r.eb

Good(t) ==
    /\ DOMAIN t \subseteq Id
    /\ t \in [DOMAIN t -> Seq(Route)]
    /\ \A k \in DOMAIN t : \A i \in 1 .. Len(t[k]) : RouteOK(k, t[k][i])

\* Path p is stored under k in table t.
Has(t, k, p) ==
    k \in DOMAIN t /\ \E i \in 1 .. Len(t[k]) : t[k][i].path_id = p.pid

Both(t) == \A p \in Path : p.dst # 0 /\ Has(t, p.src, p) => Has(t, p.dst, p)

RouteInv == TypeOK /\ Good(rt) /\ Both(rt)
-----------------------------------------------------------------------------
\* Every set of naturals that is not empty has a least element.
LEMMA LeastNat ==
    ASSUME NEW T \in SUBSET Nat, T # {}
    PROVE  Min(T) \in T /\ \A y \in T : Min(T) <= y
<1>0. IsWellFoundedOn(OpToRel(<, Nat), Nat)
  BY NatLessThanWellFounded
<1>1. PICK x \in T : \A y \in T : ~(<<y, x>> \in OpToRel(<, Nat))
  BY <1>0, WFMin
<1>2. \A y \in T : y < x => <<y, x>> \in OpToRel(<, Nat)
  BY DEF OpToRel
<1>a. \A y \in T : ~(y < x)
  BY <1>1, <1>2
<1>3. x \in T /\ \A y \in T : x <= y
  BY <1>a
<1> QED
  BY <1>3 DEF Min

\* Where rt_remove_route finds a route: at the first position of its path.
LEMMA FindFirst ==
    ASSUME NEW t, NEW ea \in DOMAIN t, NEW pid, Len(t[ea]) \in Nat
    PROVE  /\ \A i \in 1 .. Len(t[ea]) : t[ea][i].path_id # pid
                => Find(t, ea, pid) # i
           /\ Find(t, ea, pid) \in 0 .. Len(t[ea])
           /\ Len(t[ea]) > 0 /\ t[ea][1].path_id = pid => Find(t, ea, pid) = 1
<1> DEFINE l == t[ea]
           I == {i \in 1 .. Len(l) : l[i].path_id = pid}
<1>1. Find(t, ea, pid) = IF I # {} THEN Min(I) ELSE 0
  BY DEF Find
<1>2. I \in SUBSET Nat
  OBVIOUS
<1>3. I # {} => Min(I) \in I /\ \A y \in I : Min(I) <= y
  <2> HIDE DEF I
  <2> QED
    BY <1>2, LeastNat
<1>4. ASSUME Len(l) > 0, l[1].path_id = pid PROVE Find(t, ea, pid) = 1
  <2>1. 1 \in I
    BY <1>4
  <2>2. Min(I) \in 1 .. Len(l) /\ Min(I) <= 1
    BY <1>3, <2>1
  <2> QED
    BY <1>1, <2>1, <2>2
<1>5. Find(t, ea, pid) = 0 \/ Find(t, ea, pid) \in I
  BY <1>1, <1>3
<1>6. \A i \in 1 .. Len(l) : l[i].path_id # pid => Find(t, ea, pid) # i
  BY <1>5
<1>7. Find(t, ea, pid) \in 0 .. Len(l)
  BY <1>5
<1> QED
  BY <1>4, <1>6, <1>7

\* list_add at the head.
LEMMA ListAdd ==
    ASSUME NEW S, NEW l \in Seq(S), NEW x \in S
    PROVE  /\ (<<x>> \o l) \in Seq(S)
           /\ Len((<<x>> \o l)) = Len(l) + 1
           /\ (<<x>> \o l)[1] = x
           /\ \A j \in 1 .. Len(l) : (<<x>> \o l)[j + 1] = l[j]
OBVIOUS

\* list_del of one entry keeps the others in order.
LEMMA ListDel ==
    ASSUME NEW S, NEW l \in Seq(S), NEW i \in 1 .. Len(l)
    PROVE  /\ list_del(l, i) \in Seq(S)
           /\ Len(list_del(l, i)) = Len(l) - 1
           /\ \A j \in 1 .. Len(l) - 1 :
                 list_del(l, i)[j] = IF j < i THEN l[j] ELSE l[j + 1]
<1> DEFINE a == SubSeq(l, 1, i - 1)
           b == SubSeq(l, i + 1, Len(l))
<1>1. /\ a \in Seq(S) /\ Len(a) = i - 1
      /\ \A j \in 1 .. i - 1 : a[j] = l[j]
  OBVIOUS
<1>2. /\ b \in Seq(S) /\ Len(b) = Len(l) - i
      /\ \A j \in 1 .. Len(l) - i : b[j] = l[i + j]
  OBVIOUS
<1>3. list_del(l, i) = a \o b
  BY DEF list_del
<1> HIDE DEF a, b
<1>4. /\ a \o b \in Seq(S) /\ Len(a \o b) = Len(a) + Len(b)
      /\ \A j \in 1 .. Len(a) + Len(b) :
            (a \o b)[j] = IF j <= Len(a) THEN a[j] ELSE b[j - Len(a)]
  BY <1>1, <1>2, ConcatProperties
<1>5. ASSUME NEW j \in 1 .. Len(l) - 1
      PROVE  (a \o b)[j] = IF j < i THEN l[j] ELSE l[j + 1]
  <2>1. j \in 1 .. Len(a) + Len(b)
    BY <1>1, <1>2
  <2>2. CASE j < i
    BY <1>1, <1>4, <2>1, <2>2
  <2>3. CASE ~(j < i)
    <3>1. j - Len(a) \in 1 .. Len(l) - i /\ i + (j - Len(a)) = j + 1
          /\ ~(j <= Len(a))
      BY <1>1, <2>3
    <3> QED
      BY <1>2, <1>4, <2>1, <2>3, <3>1
  <2> QED
    BY <2>2, <2>3
<1> QED
  BY <1>1, <1>2, <1>3, <1>4, <1>5
-----------------------------------------------------------------------------
\* A new tree node has an empty list and changes nothing else.
LEMMA NewNode ==
    ASSUME NEW t, Good(t), NEW k \in Id
    PROVE  /\ Good(rt_find_insert_node(t, k))
           /\ k \in DOMAIN rt_find_insert_node(t, k)
           /\ \A j, p : Has(rt_find_insert_node(t, k), j, p) <=> Has(t, j, p)
<1> DEFINE s == rt_find_insert_node(t, k)
<1>1. /\ DOMAIN s = DOMAIN t \cup {k} /\ s = [x \in DOMAIN s |-> s[x]]
      /\ \A x \in DOMAIN t : s[x] = t[x]
      /\ k \notin DOMAIN t => s[k] = <<>>
  BY DEF rt_find_insert_node
<1>2. \A x \in DOMAIN t : t[x] \in Seq(Route)
  BY DEF Good
<1> HIDE DEF s
<1>3. s \in [DOMAIN s -> Seq(Route)]
  <2>1. <<>> \in Seq(Route)
    OBVIOUS
  <2> QED
    BY <1>1, <1>2, <2>1
<1>4. Good(s)
  <2>1. ASSUME NEW x \in DOMAIN s, NEW i \in 1 .. Len(s[x])
        PROVE  RouteOK(x, s[x][i])
    <3>1. CASE x \in DOMAIN t
      BY <1>1, <2>1, <3>1 DEF Good
    <3>2. CASE x \notin DOMAIN t
      BY <1>1, <2>1, <3>2
    <3> QED
      BY <3>1, <3>2
  <2> QED
    BY <1>1, <1>3, <2>1 DEF Good
<1>5. ASSUME NEW j, NEW p PROVE Has(s, j, p) <=> Has(t, j, p)
  <2>1. CASE j \in DOMAIN t
    BY <1>1, <2>1 DEF Has
  <2>2. CASE j \notin DOMAIN t
    BY <1>1, <2>2 DEF Has
  <2> QED
    BY <2>1, <2>2
<1> QED
  BY <1>1, <1>4, <1>5 DEF s

\* A copy of r stored under k.
LEMMA NewCopy ==
    ASSUME NEW t, Good(t), NEW k \in Id, NEW r, RouteOK(k, r)
    PROVE  /\ Good(Insert(t, k, r))
           /\ \A j, p : p.pid # r.path_id =>
                (Has(Insert(t, k, r), j, p) <=> Has(t, j, p))
           /\ \A j, p : Has(t, j, p) => Has(Insert(t, k, r), j, p)
           /\ \A j, p : j # k /\ Has(Insert(t, k, r), j, p) => Has(t, j, p)
           /\ k # 0 => /\ k \in DOMAIN Insert(t, k, r)
                       /\ \A p : p.pid = r.path_id => Has(Insert(t, k, r), k, p)
<1>1. CASE k = 0
  BY <1>1 DEF Insert
<1>2. CASE k # 0
  <2> DEFINE u == rt_find_insert_node(t, k)
             s == Insert(t, k, r)
  <2>1. /\ Good(u) /\ k \in DOMAIN u
        /\ \A j, p : Has(u, j, p) <=> Has(t, j, p)
    BY NewNode
  <2>2. s = [u EXCEPT ![k] = (<<r>> \o u[k])]
    BY <1>2 DEF Insert
  <2> HIDE DEF u, s
  <2>3. r \in Route /\ u[k] \in Seq(Route)
    BY <2>1 DEF RouteOK, Good
  <2>4. /\ (<<r>> \o u[k]) \in Seq(Route)
        /\ Len((<<r>> \o u[k])) = Len(u[k]) + 1
        /\ (<<r>> \o u[k])[1] = r
        /\ \A j \in 1 .. Len(u[k]) : (<<r>> \o u[k])[j + 1] = u[k][j]
        /\ Len(u[k]) \in Nat
    <3>1. Len(u[k]) \in Nat
      BY <2>3
    <3>2. /\ (<<r>> \o u[k]) \in Seq(Route)
          /\ Len((<<r>> \o u[k])) = Len(u[k]) + 1
          /\ (<<r>> \o u[k])[1] = r
          /\ \A j \in 1 .. Len(u[k]) : (<<r>> \o u[k])[j + 1] = u[k][j]
      BY <2>3, ListAdd
    <3> QED
      BY <3>1, <3>2
  <2>5. /\ DOMAIN s = DOMAIN u /\ s[k] = (<<r>> \o u[k])
        /\ s \in [DOMAIN s -> Seq(Route)]
        /\ \A x \in DOMAIN u : x # k => s[x] = u[x]
    <3>1. u \in [DOMAIN u -> Seq(Route)]
      BY <2>1 DEF Good
    <3>2. (<<r>> \o u[k]) \in Seq(Route)
      BY <2>4
    <3> QED
      BY <2>1, <2>2, <3>1, <3>2
  <2>6. ASSUME NEW i \in 1 .. Len(s[k]), i # 1
        PROVE  i - 1 \in 1 .. Len(u[k]) /\ s[k][i] = u[k][i - 1]
    <3>1. i - 1 \in 1 .. Len(u[k]) /\ (i - 1) + 1 = i
      BY <2>4, <2>5, <2>6
    <3> QED
      BY <2>4, <2>5, <3>1
  <2>7. Good(s)
    <3>1. ASSUME NEW x \in DOMAIN s, NEW i \in 1 .. Len(s[x])
          PROVE  RouteOK(x, s[x][i])
      <4>1. CASE x # k
        BY <2>1, <2>5, <3>1, <4>1 DEF Good
      <4>2. CASE x = k /\ i = 1
        BY <2>4, <2>5, <4>2
      <4>3. CASE x = k /\ i # 1
        BY <2>1, <2>5, <2>6, <3>1, <4>3 DEF Good
      <4> QED
        BY <4>1, <4>2, <4>3
    <3> QED
      BY <2>1, <2>5, <3>1 DEF Good
  <2>8. ASSUME NEW j, NEW p, p.pid # r.path_id, Has(s, j, p) PROVE Has(u, j, p)
    <3>1. CASE j = k
      <4>1. PICK i \in 1 .. Len(s[k]) : s[k][i].path_id = p.pid
        BY <2>8, <3>1 DEF Has
      <4>2. i # 1
        BY <2>4, <2>5, <2>8, <4>1
      <4> QED
        BY <2>1, <2>6, <3>1, <4>1, <4>2 DEF Has
    <3>2. CASE j # k
      BY <2>5, <2>8, <3>2 DEF Has
    <3> QED
      BY <3>1, <3>2
  <2>9. ASSUME NEW j, NEW p, Has(u, j, p) PROVE Has(s, j, p)
    <3>1. CASE j = k
      <4>1. PICK i \in 1 .. Len(u[k]) : u[k][i].path_id = p.pid
        BY <2>9, <3>1 DEF Has
      <4>2. i + 1 \in 1 .. Len(s[k]) /\ s[k][i + 1] = u[k][i]
        BY <2>4, <2>5, <4>1
      <4> QED
        BY <2>1, <2>5, <3>1, <4>1, <4>2 DEF Has
    <3>2. CASE j # k
      BY <2>5, <2>9, <3>2 DEF Has
    <3> QED
      BY <3>1, <3>2
  <2>10. ASSUME NEW j, NEW p, j # k, Has(s, j, p) PROVE Has(u, j, p)
    BY <2>5, <2>10 DEF Has
  <2>11. ASSUME NEW p, p.pid = r.path_id PROVE Has(s, k, p)
    <3>1. 1 \in 1 .. Len(s[k]) /\ s[k][1] = r
      BY <2>4, <2>5
    <3> QED
      BY <2>1, <2>5, <2>11, <3>1 DEF Has
  <2> QED
    BY <2>1, <2>5, <2>7, <2>8, <2>9, <2>10, <2>11 DEF s
<1> QED
  BY <1>1, <1>2

\* rt_remove_route takes away at most one copy, and only of path pid.
LEMMA Removed ==
    ASSUME NEW t, Good(t), NEW ea, NEW pid
    PROVE  /\ Good(rt_remove_route(t, ea, pid))
           /\ \A j, p : Has(rt_remove_route(t, ea, pid), j, p) => Has(t, j, p)
           /\ \A j, p : Has(t, j, p) /\ (j # ea \/ p.pid # pid)
                => Has(rt_remove_route(t, ea, pid), j, p)
<1> DEFINE s == rt_remove_route(t, ea, pid)
           f == Find(t, ea, pid)
<1>1. CASE f = 0
  BY <1>1 DEF rt_remove_route
<1>2. CASE f # 0
  <2>1. ea \in DOMAIN t /\ s = [t EXCEPT ![ea] = list_del(t[ea], f)]
    BY <1>2 DEF rt_remove_route, Find
  <2>2. t \in [DOMAIN t -> Seq(Route)] /\ t[ea] \in Seq(Route) /\ Len(t[ea]) \in Nat
    BY <2>1 DEF Good
  <2>3. f \in 1 .. Len(t[ea]) /\ t[ea][f].path_id = pid
    <3>1. f \in 0 .. Len(t[ea])
      BY <2>1, <2>2, FindFirst
    <3>2. \A i \in 1 .. Len(t[ea]) : t[ea][i].path_id # pid => f # i
      BY <2>1, <2>2, FindFirst
    <3> HIDE DEF f
    <3> QED
      BY <1>2, <2>2, <3>1, <3>2
  <2> HIDE DEF f, s
  <2> DEFINE l == list_del(t[ea], f)
  <2>4. /\ l \in Seq(Route) /\ Len(l) = Len(t[ea]) - 1
        /\ \A j \in 1 .. Len(t[ea]) - 1 :
              l[j] = IF j < f THEN t[ea][j] ELSE t[ea][j + 1]
    BY <2>2, <2>3, ListDel
  <2> HIDE DEF l
  <2>5. /\ DOMAIN s = DOMAIN t /\ s[ea] = l /\ s \in [DOMAIN s -> Seq(Route)]
        /\ \A x \in DOMAIN t : x # ea => s[x] = t[x]
    BY <2>1, <2>2, <2>4 DEF l
  <2>6. \A i \in 1 .. Len(l) : \E q \in 1 .. Len(t[ea]) : l[i] = t[ea][q]
    <3> TAKE i \in 1 .. Len(l)
    <3>1. i \in 1 .. Len(t[ea]) /\ i + 1 \in 1 .. Len(t[ea])
          /\ i \in 1 .. Len(t[ea]) - 1
      BY <2>2, <2>4
    <3> QED
      BY <2>4, <3>1
  <2>7. \A q \in 1 .. Len(t[ea]) : q # f => \E i \in 1 .. Len(l) : l[i] = t[ea][q]
    <3> SUFFICES ASSUME NEW q \in 1 .. Len(t[ea]), q # f
                 PROVE  \E i \in 1 .. Len(l) : l[i] = t[ea][q]
      OBVIOUS
    <3>1. CASE q < f
      <4>1. q \in 1 .. Len(l) /\ q \in 1 .. Len(t[ea]) - 1
        BY <2>2, <2>3, <2>4, <3>1
      <4> QED
        BY <2>4, <3>1, <4>1
    <3>2. CASE q > f
      <4>1. q - 1 \in 1 .. Len(l) /\ q - 1 \in 1 .. Len(t[ea]) - 1
            /\ ~(q - 1 < f) /\ (q - 1) + 1 = q
        BY <2>2, <2>3, <2>4, <3>2
      <4> QED
        BY <2>4, <4>1
    <3> QED
      BY <2>2, <2>3, <3>1, <3>2
  <2>8. Good(s)
    <3>1. ASSUME NEW x \in DOMAIN s, NEW i \in 1 .. Len(s[x])
          PROVE  RouteOK(x, s[x][i])
      <4>1. CASE x # ea
        BY <2>5, <3>1, <4>1 DEF Good
      <4>2. CASE x = ea
        BY <2>1, <2>5, <2>6, <3>1, <4>2 DEF Good
      <4> QED
        BY <4>1, <4>2
    <3> QED
      BY <2>5, <3>1 DEF Good
  <2>9. ASSUME NEW j, NEW p, Has(s, j, p) PROVE Has(t, j, p)
    <3>1. CASE j = ea
      BY <2>1, <2>5, <2>6, <2>9, <3>1 DEF Has
    <3>2. CASE j # ea
      BY <2>5, <2>9, <3>2 DEF Has
    <3> QED
      BY <3>1, <3>2
  <2>10. ASSUME NEW j, NEW p, Has(t, j, p), j # ea \/ p.pid # pid
         PROVE  Has(s, j, p)
    <3>1. CASE j = ea
      <4>1. PICK q \in 1 .. Len(t[ea]) : t[ea][q].path_id = p.pid
        BY <2>10, <3>1 DEF Has
      <4>2. q # f
        BY <2>3, <2>10, <3>1, <4>1
      <4>3. PICK i \in 1 .. Len(l) : l[i] = t[ea][q]
        BY <2>7, <4>2
      <4> QED
        BY <2>1, <2>5, <3>1, <4>1, <4>3 DEF Has
    <3>2. CASE j # ea
      BY <2>5, <2>10, <3>2 DEF Has
    <3> QED
      BY <3>1, <3>2
  <2> QED
    BY <2>8, <2>9, <2>10 DEF s
<1> QED
  BY <1>1, <1>2

\* Removing the copy of r that was just put under k gives back the list.
LEMMA Undone ==
    ASSUME NEW t, Good(t), NEW k \in Id \ {0}, NEW r, RouteOK(k, r), NEW p,
           NEW u, Good(u), k \in DOMAIN u, u[k] = Insert(t, k, r)[k],
           Has(rt_remove_route(u, k, r.path_id), k, p)
    PROVE  Has(t, k, p)
<1> DEFINE v == rt_find_insert_node(t, k)
           l == <<r>> \o v[k]
<1>1. /\ Good(v) /\ k \in DOMAIN v
      /\ \A j, q : Has(v, j, q) <=> Has(t, j, q)
  BY NewNode
<1>2. Insert(t, k, r) = [v EXCEPT ![k] = l]
  BY DEF Insert
<1> HIDE DEF v
<1>3. u[k] = l
  BY <1>1, <1>2 DEF Good
<1>4. v[k] \in Seq(Route) /\ r \in Route /\ Len(v[k]) \in Nat
  BY <1>1 DEF Good, RouteOK
<1>5. /\ l \in Seq(Route) /\ Len(l) = Len(v[k]) + 1 /\ l[1] = r
      /\ \A j \in 1 .. Len(v[k]) : l[j + 1] = v[k][j]
  BY <1>4, ListAdd
<1> HIDE DEF l
<1>6. Find(u, k, r.path_id) = 1
  <2>1. Len(u[k]) \in Nat /\ Len(u[k]) > 0 /\ u[k][1].path_id = r.path_id
    BY <1>3, <1>4, <1>5
  <2> QED
    BY <2>1, FindFirst
<1>7. rt_remove_route(u, k, r.path_id) = [u EXCEPT ![k] = list_del(l, 1)]
  BY <1>3, <1>6 DEF rt_remove_route
<1>8. u \in [DOMAIN u -> Seq(Route)]
  BY DEF Good
<1>9. rt_remove_route(u, k, r.path_id)[k] = list_del(l, 1)
  BY <1>7, <1>8
<1>10. /\ Len(list_del(l, 1)) = Len(v[k])
       /\ \A j \in 1 .. Len(v[k]) : list_del(l, 1)[j] = v[k][j]
  <2>1. 1 \in 1 .. Len(l) /\ Len(l) - 1 = Len(v[k])
    BY <1>4, <1>5
  <2>2. /\ Len(list_del(l, 1)) = Len(l) - 1
        /\ \A j \in 1 .. Len(l) - 1 :
              list_del(l, 1)[j] = IF j < 1 THEN l[j] ELSE l[j + 1]
    BY <1>5, <2>1, ListDel
  <2>3. \A j \in 1 .. Len(v[k]) : ~(j < 1)
    BY <1>4
  <2> QED
    BY <1>5, <2>1, <2>2, <2>3
<1>11. Has(v, k, p)
  BY <1>1, <1>9, <1>10 DEF Has
<1> QED
  BY <1>1, <1>11
-----------------------------------------------------------------------------
\* A search of one list finds a neighbour or nothing, unless the list holds a
\* path from this node to itself.
LEMMA SearchResult ==
    ASSUME NEW t, Good(t), NEW k \in DOMAIN t, NEW endpoint
    PROVE  \/ route_list_search(t[k], endpoint) \in Phys \cup {0}
           \/ /\ k = ME
              /\ \E p \in Path : p.src = ME /\ p.dst = ME /\ Has(t, ME, p)
<1> DEFINE l == t[k]
<1>1. CASE ~\E i \in 1 .. Len(l) : IsMax(l, i)
  BY <1>1 DEF route_list_search
<1>2. CASE \E i \in 1 .. Len(l) : IsMax(l, i)
  <2> DEFINE m == CHOOSE i \in 1 .. Len(l) : IsMax(l, i)
             r == l[m]
  <2>1. m \in 1 .. Len(l)
    BY <1>2
  <2>2. RouteOK(k, r)
    BY <2>1 DEF Good
  <2>3. /\ r.na \in Hop /\ r.nb \in Hop /\ k \in {r.ea, r.eb}
        /\ r.na = ME => r.ea = ME
        /\ r.nb # ME
    BY <2>2 DEF RouteOK, Route
  <2>4. route_list_search(l, endpoint) =
          IF get_diff(endpoint, r.ea) < get_diff(endpoint, r.eb)
          THEN IF r.ea # ME THEN r.na ELSE r.nb
          ELSE IF r.eb # ME THEN r.nb ELSE r.na
    BY <1>2 DEF route_list_search
  <2>5. PICK p \in Path : p.pid = r.path_id /\ p.src = r.ea /\ p.dst = r.eb
    BY <2>2 DEF RouteOK
  <2>6. Has(t, k, p)
    BY <2>1, <2>5 DEF Has
  <2> HIDE DEF r
  <2>7. CASE r.ea = ME /\ r.eb = ME
    BY <2>3, <2>5, <2>6, <2>7
  <2>8. CASE ~(r.ea = ME /\ r.eb = ME)
    <3>1. route_list_search(l, endpoint) \in {r.na, r.nb}
          /\ (route_list_search(l, endpoint) = r.na => r.na # ME \/ r.na = r.nb)
      BY <2>3, <2>4, <2>8
    <3> QED
      BY <2>3, <3>1 DEF Hop
  <2> QED
    BY <2>7, <2>8
<1> QED
  BY <1>1, <1>2

\* rt_get_next yields a neighbour or 0.
LEMMA NextHopRange ==
    ASSUME NEW t, Good(t), NEW dest
    PROVE  rt_get_next(t, dest) \in Phys \cup {0}
<1>1. CASE dest \notin DOMAIN t \/ dest = ME
  BY <1>1 DEF rt_get_next
<1>2. CASE dest \in DOMAIN t /\ dest # ME
  BY <1>2, SearchResult DEF rt_get_next
<1> QED
  BY <1>1, <1>2

\* Removing a path under its source keeps every other path at both ends.
LEMMA BothRemoved ==
    ASSUME NEW t, Good(t), Both(t), NEW p \in Path
    PROVE  Both(rt_remove_route(t, p.src, p.pid))
<1> DEFINE s == rt_remove_route(t, p.src, p.pid)
<1>1. /\ \A j, q : Has(s, j, q) => Has(t, j, q)
      /\ \A j, q : Has(t, j, q) /\ (j # p.src \/ q.pid # p.pid) => Has(s, j, q)
  BY Removed
<1> HIDE DEF s
<1>2. ASSUME NEW q \in Path, q.dst # 0, Has(s, q.src, q) PROVE Has(s, q.dst, q)
  <2>1. Has(t, q.dst, q)
    BY <1>1, <1>2 DEF Both
  <2>2. CASE q.dst # p.src \/ q.pid # p.pid
    BY <1>1, <2>1, <2>2
  <2>3. CASE q.dst = p.src /\ q.pid = p.pid
    <3>1. q = p
      BY <2>3, RouteAssumption
    <3> QED
      BY <1>2, <2>3, <3>1
  <2> QED
    BY <2>2, <2>3
<1> QED
  BY <1>2 DEF Both, s

\* rt_add_route and, when it fails, tear_down_path, whichever allocation fails.
LEMMA SetupStep ==
    ASSUME Good(rt), Both(rt), NEW p \in Path, NEW na \in Hop,
           na = ME => p.src = ME, NEW nb \in Phys \cup {0}, SetupPath(p, na, nb)
    PROVE  Good(rt') /\ Both(rt')
<1> DEFINE r == [ea |-> p.src, eb |-> p.dst, na |-> na, nb |-> nb, path_id |-> p.pid]
           one == Insert(rt, p.src, r)
           two == Insert(one, p.dst, r)
<1>1. /\ p.src \in Id /\ p.dst \in Id /\ p.pid \in Nat
      /\ ME \notin Phys /\ ME # 0
      /\ \A q \in Path : q.pid = p.pid => q = p
  BY RouteAssumption
<1>2. RouteOK(p.src, r) /\ RouteOK(p.dst, r) /\ r.path_id = p.pid
      /\ r.ea = p.src /\ r.eb = p.dst
  BY <1>1 DEF RouteOK, Route, Hop
<1>3. PICK out \in rt_add_route(rt, r) :
        \/ out.ret = 1 /\ rt' = out.table
        \/ out.ret = 0 /\ rt' = rt_remove_route(out.table, p.src, p.pid)
  BY DEF SetupPath, tear_down_path
<1>4. \/ out = [table |-> two, ret |-> 1]
      \/ \E s \in NoMemory(rt, p.src) \cup NoMemory(one, p.dst) :
            out = [table |-> s, ret |-> 0]
  BY <1>2, <1>3 DEF rt_add_route
<1> HIDE DEF r
<1>5. /\ Good(one)
      /\ \A j, q : q.pid # p.pid => (Has(one, j, q) <=> Has(rt, j, q))
      /\ \A j, q : Has(rt, j, q) => Has(one, j, q)
      /\ p.src # 0 => p.src \in DOMAIN one
      /\ p.src = 0 => one = rt
  <2>1. p.src = 0 => one = rt
    BY DEF Insert
  <2>2. p.src # 0 => p.src \in DOMAIN one
    BY <1>1, <1>2, NewCopy
  <2> QED
    BY <1>1, <1>2, <2>1, <2>2, NewCopy
<1> HIDE DEF one
<1>6. /\ Good(two)
      /\ \A j, q : q.pid # p.pid => (Has(two, j, q) <=> Has(one, j, q))
      /\ \A j, q : Has(one, j, q) => Has(two, j, q)
      /\ p.dst # 0 => Has(two, p.dst, p)
  <2>1. p.dst # 0 => Has(two, p.dst, p)
    BY <1>1, <1>2, <1>5, NewCopy
  <2> QED
    BY <1>1, <1>2, <1>5, <2>1, NewCopy
<1> HIDE DEF two
<1>7. CASE out = [table |-> two, ret |-> 1]
  <2>1. rt' = two
    BY <1>3, <1>7
  <2>2. ASSUME NEW q \in Path, q.dst # 0, Has(two, q.src, q)
        PROVE  Has(two, q.dst, q)
    <3>1. CASE q.pid = p.pid
      BY <1>1, <1>6, <2>2, <3>1
    <3>2. CASE q.pid # p.pid
      BY <1>5, <1>6, <2>2, <3>2 DEF Both
    <3> QED
      BY <3>1, <3>2
  <2> QED
    BY <1>6, <2>1, <2>2 DEF Both
<1>8. ASSUME NEW s \in NoMemory(rt, p.src), out = [table |-> s, ret |-> 0]
      PROVE  Good(rt') /\ Both(rt')
  <2>1. rt' = rt_remove_route(s, p.src, p.pid)
    BY <1>3, <1>8
  <2>2. s = rt \/ s = rt_find_insert_node(rt, p.src)
    BY <1>8 DEF NoMemory
  <2>3. Good(s) /\ \A j, q : Has(s, j, q) <=> Has(rt, j, q)
    BY <1>1, <2>2, NewNode
  <2>4. Both(s)
    BY <2>3 DEF Both
  <2> QED
    BY <2>1, <2>3, <2>4, BothRemoved, Removed
<1>9. ASSUME NEW s \in NoMemory(one, p.dst), out = [table |-> s, ret |-> 0]
      PROVE  Good(rt') /\ Both(rt')
  <2>1. rt' = rt_remove_route(s, p.src, p.pid)
    BY <1>3, <1>9
  <2>2. s = one \/ s = rt_find_insert_node(one, p.dst)
    BY <1>9 DEF NoMemory
  <2>3. Good(s) /\ \A j, q : Has(s, j, q) <=> Has(one, j, q)
    BY <1>1, <1>5, <2>2, NewNode
  <2>4. CASE p.src = 0
    <3>1. Both(s)
      BY <1>5, <2>3, <2>4 DEF Both
    <3> QED
      BY <2>1, <2>3, <3>1, BothRemoved, Removed
  <2>5. CASE p.src # 0
    <3>1. p.src \in DOMAIN s /\ s[p.src] = one[p.src]
      BY <1>5, <2>2, <2>5 DEF rt_find_insert_node
    <3>2. Has(rt', p.src, p) => Has(rt, p.src, p)
      <4>1. s[p.src] = Insert(rt, p.src, r)[p.src]
        BY <3>1 DEF one
      <4>2. rt' = rt_remove_route(s, p.src, r.path_id)
        BY <1>2, <2>1
      <4> QED
        BY <1>1, <1>2, <2>3, <2>5, <3>1, <4>1, <4>2, Undone
    <3>3. /\ Good(rt')
          /\ \A j, q : Has(rt', j, q) => Has(s, j, q)
          /\ \A j, q : Has(s, j, q) /\ (j # p.src \/ q.pid # p.pid)
                => Has(rt', j, q)
      BY <2>1, <2>3, Removed
    <3>4. ASSUME NEW q \in Path, q.dst # 0, Has(rt', q.src, q)
          PROVE  Has(rt', q.dst, q)
      <4>1. CASE q.pid # p.pid
        BY <1>5, <2>3, <3>3, <3>4, <4>1 DEF Both
      <4>2. CASE q.pid = p.pid
        <5>1. q = p
          BY <1>1, <4>2
        <5>2. CASE q.dst = p.src
          BY <3>4, <5>1, <5>2
        <5>3. CASE q.dst # p.src
          <6>1. Has(rt, p.src, p)
            BY <3>2, <3>4, <5>1
          <6>2. Has(rt, p.dst, p)
            BY <3>4, <5>1, <6>1 DEF Both
          <6>3. Has(s, p.dst, p)
            BY <1>5, <2>3, <6>2
          <6> QED
            BY <3>3, <5>1, <5>3, <6>3
        <5> QED
          BY <5>2, <5>3
      <4> QED
        BY <4>1, <4>2
    <3> QED
      BY <3>3, <3>4 DEF Both
  <2> QED
    BY <2>4, <2>5
<1> QED
  BY <1>4, <1>7, <1>8, <1>9
-----------------------------------------------------------------------------
\* The empty table.
LEMMA RouteInit == Init => RouteInv
<1> SUFFICES ASSUME Init PROVE RouteInv
  OBVIOUS
<1>1. rt = [k \in {} |-> <<>>] /\ DOMAIN rt = {}
  BY DEF Init
<1>2. Good(rt) /\ Both(rt)
  BY <1>1 DEF Good, Both, Has
<1>3. TypeOK
  BY <1>1, <1>2 DEF Init, TypeOK, Good
<1> QED
  BY <1>2, <1>3 DEF RouteInv

\* Every step keeps the invariant, one case per action.
LEMMA RouteStep == RouteInv /\ [Next]_vars => RouteInv'
<1> SUFFICES ASSUME RouteInv, [Next]_vars PROVE RouteInv'
  OBVIOUS
<1>0. TypeOK /\ Good(rt) /\ Both(rt)
  BY DEF RouteInv
<1>a. ASSUME Good(rt'), Both(rt'), pset' \subseteq Phys,
             up' \in BOOLEAN
      PROVE  RouteInv'
  <2>1. TypeOK'
    BY <1>a DEF TypeOK, Good
  <2> QED
    BY <1>a, <2>1 DEF RouteInv, Good, Both, Has, RouteOK
<1>b. ASSUME NEW p \in Path, NEW na, NEW nb, SetupPath(p, na, nb)
      PROVE  pset' \subseteq Phys /\ up' \in BOOLEAN
  BY <1>0, <1>b DEF SetupPath, TypeOK
<1>1. ASSUME NEW p \in Path, NEW proxy \in Id, vrr_local_rcv_setup(p, proxy)
      PROVE  RouteInv'
  <2> DEFINE nb == IF p.dst \in pset THEN p.dst ELSE rt_get_next(rt, proxy)
  <2>1. p.src = ME /\ SetupPath(p, ME, nb)
    BY <1>1 DEF vrr_local_rcv_setup
  <2>2. nb \in Phys \cup {0} /\ ME \in Hop
    BY <1>0, NextHopRange DEF TypeOK, Hop
  <2> HIDE DEF nb
  <2>3. Good(rt') /\ Both(rt')
    BY <1>0, <2>1, <2>2, SetupStep
  <2> QED
    BY <1>a, <1>b, <2>1, <2>3
<1>2. ASSUME NEW p \in Path, NEW proxy \in Id, NEW sender \in Phys,
             vrr_rcv_setup(p, sender, proxy)
      PROVE  RouteInv'
  <2>1. CASE SetupPath(p, sender, NextHop(p.dst, proxy))
    <3>2. sender \in Hop /\ sender # ME
      BY RouteAssumption DEF Hop
    <3>3. NextHop(p.dst, proxy) \in Phys \cup {0}
      BY <1>0, NextHopRange DEF TypeOK, NextHop
    <3>4. Good(rt') /\ Both(rt')
      BY <1>0, <2>1, <3>2, <3>3, SetupStep
    <3> QED
      BY <1>a, <1>b, <2>1, <3>4
  <2>2. CASE rt' = tear_down_path(rt, p.pid, p.src) /\ UNCHANGED <<pset, up>>
    <3>1. /\ rt' = rt_remove_route(rt, p.src, p.pid)
          /\ UNCHANGED <<pset, up>>
      BY <2>2 DEF tear_down_path
    <3>2. Good(rt') /\ Both(rt')
      BY <1>0, <3>1, Removed, BothRemoved
    <3> QED
      BY <1>0, <1>a, <3>1, <3>2 DEF TypeOK
  <2> QED
    BY <1>2, <2>1, <2>2 DEF vrr_rcv_setup
<1>3. ASSUME NEW p \in Path, vrr_rcv_teardown(p) PROVE RouteInv'
  <2>1. \/ rt' = rt \/ rt' = rt_remove_route(rt, p.src, p.pid)
    BY <1>3 DEF vrr_rcv_teardown
  <2>2. Good(rt') /\ Both(rt')
    BY <1>0, <2>1, Removed, BothRemoved
  <2>3. pset' \subseteq Phys /\ up' \in BOOLEAN
    BY <1>0, <1>3 DEF vrr_rcv_teardown, TypeOK
  <2> QED
    BY <1>a, <2>2, <2>3
<1>4. ASSUME NEW m \in Phys, PsetGain(m) \/ PsetLoss(m) PROVE RouteInv'
  <2>1. pset' \subseteq Phys /\ UNCHANGED <<rt, up>>
    BY <1>0, <1>4 DEF PsetGain, PsetLoss, TypeOK
  <2> QED
    BY <1>0, <1>a, <2>1 DEF TypeOK
<1>5. CASE UNCHANGED vars
  BY <1>0, <1>5, <1>a DEF vars, TypeOK
<1> QED
  BY <1>1, <1>2, <1>3, <1>4, <1>5 DEF Next

\* The inductive invariant of the routing table.
THEOREM RouteInvariance == Spec => []RouteInv
BY RouteInit, RouteStep, PTL DEF Spec

\* The table holds well-formed routes whose next hops are neighbours, this
\* node or 0.
THEOREM RouteTypeCorrect == Spec => []TypeOK
BY RouteInvariance, PTL DEF RouteInv

\* No lookup sends a packet from this node to itself, for every identifier
\* width, every set of paths and every shape of the tree.
THEOREM NeverForwardToSelfAlways == Spec => []NeverForwardToSelf
<1>1. RouteInv => NeverForwardToSelf
  <2> SUFFICES ASSUME RouteInv PROVE NeverForwardToSelf
    OBVIOUS
  <2>1. Good(rt) /\ ME \notin Phys \cup {0}
    BY RouteAssumption DEF RouteInv
  <2>2. \A dest : rt_get_next(rt, dest) # ME
    BY <2>1, NextHopRange
  <2>3. ASSUME \A p \in Path : ~(p.src = ME /\ p.dst = ME /\ Stored(ME, p)),
               NEW dest \in Id, NEW src \in Id,
               ME \in rt_get_next_exclude(rt, dest, src)
        PROVE  FALSE
    <3>1. PICK k \in Above(rt, dest, src) : route_list_search(rt[k], dest) = ME
      BY <2>2, <2>3 DEF rt_get_next_exclude
    <3>2. k \in DOMAIN rt
      BY DEF Above
    <3>3. PICK p \in Path : p.src = ME /\ p.dst = ME /\ Has(rt, ME, p)
      BY <2>1, <3>1, <3>2, SearchResult
    <3> QED
      BY <2>3, <3>3 DEF Has, Stored
  <2> QED
    BY <2>2, <2>3 DEF NeverForwardToSelf
<1> QED
  BY <1>1, RouteInvariance, PTL

\* A path stored under its source is stored under its destination, whichever
\* allocation of rt_add_route fails.
THEOREM BothEndsAlways == Spec => []BothEnds
<1>1. RouteInv => BothEnds
  BY DEF RouteInv, Both, Has, BothEnds, Stored
<1> QED
  BY <1>1, RouteInvariance, PTL
=============================================================================
