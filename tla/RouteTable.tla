----------------------------- MODULE RouteTable -----------------------------
(***************************************************************************)
(* The routing table of one node (vrr_data.c) under the handlers that      *)
(* change it: vrr_local_rcv_setup, vrr_rcv_setup, vrr_rcv_teardown         *)
(* (vrr_input.c) and tear_down_path (vrr_core.c).  What those handlers do  *)
(* to the virtual neighbour set is the subject of Vset.                    *)
(*                                                                         *)
(* The table is a red-black tree of endpoints with a list of routes each;  *)
(* every route is stored twice, under both of its endpoints.  Allocation   *)
(* may fail at every kmalloc.  The shape of the tree is left open.         *)
(***************************************************************************)
EXTENDS Ring, Sequences, FiniteSetsExt

CONSTANTS
    ME,        \* the identifier of this node
    Phys,      \* nodes that are physical neighbours at one time or another
    Path,      \* the paths that are ever set up: [pid, src, dst]
    MaxRoutes  \* bound: copies of routes in the table

\* A path identifier is drawn at random from 2^32 (vrr_new_path_id): no two
\* paths share one.  0 stands for "no next hop", so no neighbour has it.
ASSUME RouteAssumption ==
    /\ ME \in Id \ {0}
    /\ Phys \subseteq Id \ {0, ME}
    /\ Path \subseteq [pid : Nat, src : Id, dst : Id]
    /\ \A p, q \in Path : p.pid = q.pid => p = q
    /\ MaxRoutes \in Nat

VARIABLES
    rt,     \* rt[k]: the list of the tree node k, the newest route first
    pset,   \* nodes that are in the pset list now
    up      \* FALSE once the kernel dereferenced a null route

vars == <<rt, pset, up>>

Hop == Phys \cup {0, ME}

Route == [ea : Id, eb : Id, na : Hop, nb : Hop, path_id : Nat]

TypeOK ==
    /\ DOMAIN rt \subseteq Id
    /\ rt \in [DOMAIN rt -> Seq(Route)]
    /\ pset \subseteq Phys
    /\ up \in BOOLEAN
-----------------------------------------------------------------------------
(***************************************************************************)
(* Lookups.                                                                *)
(***************************************************************************)

\* The route of list l with the highest path_id, the first of several.
IsMax(l, i) ==
    /\ l[i].path_id > 0
    /\ \A j \in 1 .. Len(l) : l[j].path_id <= l[i].path_id
    /\ \A j \in 1 .. i - 1 : l[j].path_id < l[i].path_id

\* Faulty: goes to the closer end even when this node is that end.
route_list_search_blind(l, endpoint) ==
    IF ~\E i \in 1 .. Len(l) : IsMax(l, i) THEN 0
    ELSE LET r == l[CHOOSE i \in 1 .. Len(l) : IsMax(l, i)]
         IN  IF get_diff(endpoint, r.ea) < get_diff(endpoint, r.eb)
             THEN r.na ELSE r.nb

\* Faulty: the distances of the two ends are not compared.
route_list_search_first(l, endpoint) ==
    IF ~\E i \in 1 .. Len(l) : IsMax(l, i) THEN 0
    ELSE LET r == l[CHOOSE i \in 1 .. Len(l) : IsMax(l, i)]
         IN  IF r.ea # ME THEN r.na ELSE r.nb

\* The next hop towards the end of that route that is closer to endpoint,
\* unless this node is that end.
route_list_search(l, endpoint) ==
    IF ~\E i \in 1 .. Len(l) : IsMax(l, i) THEN 0
    ELSE LET r == l[CHOOSE i \in 1 .. Len(l) : IsMax(l, i)]
         IN  IF get_diff(endpoint, r.ea) < get_diff(endpoint, r.eb)
             THEN IF r.ea # ME THEN r.na ELSE r.nb
             ELSE IF r.eb # ME THEN r.nb ELSE r.na

rt_get_next(t, dest) ==
    IF dest \notin DOMAIN t \/ dest = ME THEN 0
    ELSE route_list_search(t[dest], dest)

\* The tree nodes that some shape of the tree puts just above src on the way
\* down to dest.  The tree is balanced: of three nodes the middle one is on top.
Above(t, dest, src) ==
    {k \in DOMAIN t \ {src} :
        /\ \/ k < src /\ k < dest
           \/ k > src /\ k > dest
        /\ Cardinality(DOMAIN t) = 3 => \E i, j \in DOMAIN t : i < k /\ k < j}

\* The results rt_search_exclude may have: when the way down to dest meets src
\* below another node, that node's routes are used instead.
rt_get_next_exclude(t, dest, src) ==
    {rt_get_next(t, dest)} \cup
    IF src \notin DOMAIN t THEN {}
    ELSE {route_list_search(t[k], dest) : k \in Above(t, dest, src)}

(***************************************************************************)
(* Updates.                                                                *)
(***************************************************************************)
rt_find_insert_node(t, k) ==
    [x \in DOMAIN t \cup {k} |-> IF x \in DOMAIN t THEN t[x] ELSE <<>>]

\* The copy of route r that is stored under endpoint k; none for 0.
Insert(t, k, r) ==
    IF k = 0 THEN t
    ELSE [rt_find_insert_node(t, k) EXCEPT ![k] = <<r>> \o @]

\* What is left when an allocation for the copy under k fails.
NoMemory(t, k) == IF k = 0 THEN {} ELSE {t, rt_find_insert_node(t, k)}

\* The possible outcomes: both copies are stored, or an allocation failed.
rt_add_route(t, r) ==
    LET one == Insert(t, r.ea, r)
    IN  {[table |-> Insert(one, r.eb, r), ret |-> 1]} \cup
        {[table |-> s, ret |-> 0] : s \in NoMemory(t, r.ea) \cup NoMemory(one, r.eb)}

\* Position of the first route of path pid under endpoint ea; 0 for none.
Find(t, ea, pid) ==
    IF ea \notin DOMAIN t THEN 0
    ELSE LET I == {i \in 1 .. Len(t[ea]) : t[ea][i].path_id = pid}
         IN  IF I = {} THEN 0 ELSE Min(I)

\* The list without its i-th entry.
list_del(l, i) == SubSeq(l, 1, i - 1) \o SubSeq(l, i + 1, Len(l))

rt_remove_route(t, ea, pid) ==
    IF Find(t, ea, pid) = 0 THEN t
    ELSE [t EXCEPT ![ea] = list_del(@, Find(t, ea, pid))]

\* The teardowns it sends change nothing here.
tear_down_path(t, pid, endpoint) == rt_remove_route(t, endpoint, pid)
-----------------------------------------------------------------------------
Init ==
    /\ rt = [k \in {} |-> <<>>]
    /\ pset \in SUBSET Phys
    /\ up = TRUE

\* Faulty: the proxy itself is stored as next hop.
NextHop_proxy(dst, proxy) ==
    IF dst \in pset THEN dst ELSE IF dst = ME THEN 0 ELSE proxy

\* The next hop of a setup for dst.
NextHop(dst, proxy) ==
    IF dst \in pset THEN dst
    ELSE IF dst = ME THEN 0 ELSE rt_get_next(rt, proxy)

HasRoom == MapThenSumSet(LAMBDA k : Len(rt[k]), DOMAIN rt) + 2 <= MaxRoutes

\* Faulty: a route that was stored under one endpoint only is left there.
SetupPath_half(p, na, nb) ==
    /\ HasRoom
    /\ \E out \in rt_add_route(rt, [ea |-> p.src, eb |-> p.dst, na |-> na,
                                    nb |-> nb, path_id |-> p.pid]) :
          rt' = out.table
    /\ UNCHANGED <<pset, up>>

\* rt_add_route and, when it fails, tear_down_path.
SetupPath(p, na, nb) ==
    /\ HasRoom
    /\ \E out \in rt_add_route(rt, [ea |-> p.src, eb |-> p.dst, na |-> na,
                                    nb |-> nb, path_id |-> p.pid]) :
          \/ /\ out.ret = 1
             /\ rt' = out.table
          \/ /\ out.ret = 0
             /\ rt' = tear_down_path(out.table, p.pid, p.src)
    /\ UNCHANGED <<pset, up>>

\* This node answers a setup_req of p.dst: the path starts here, under an
\* identifier that was never drawn before.
vrr_local_rcv_setup(p, proxy) ==
    /\ up
    /\ p.src = ME
    /\ \A k \in DOMAIN rt : Find(rt, k, p.pid) = 0
    /\ SetupPath(p, ME,
                 IF p.dst \in pset THEN p.dst ELSE rt_get_next(rt, proxy))

\* A setup for p arrives from the neighbour sender, once or several times, or
\* from an address that is not in the physical set: that of a node which is
\* not in it, or of an interface other than the one through which its node was
\* taken in.  A frame never comes back to the interface that sent it, so the
\* branch for the own address is not taken.
vrr_rcv_setup(p, sender, proxy) ==
    /\ up
    /\ \/ /\ sender \in pset
          /\ SetupPath(p, sender, NextHop(p.dst, proxy))
       \/ /\ rt' = tear_down_path(rt, p.pid, p.src)
          /\ UNCHANGED <<pset, up>>

\* A teardown for p arrives.  A route that is not there is dereferenced.
vrr_rcv_teardown(p) ==
    /\ up
    /\ \/ /\ Find(rt, p.src, p.pid) # 0
          /\ rt' = rt_remove_route(rt, p.src, p.pid)
          /\ UNCHANGED <<pset, up>>
       \/ /\ Find(rt, p.src, p.pid) = 0
          /\ up' = FALSE
          /\ UNCHANGED <<rt, pset>>

\* A physical neighbour appears (pset_add) or is forgotten (detect_failures).
PsetGain(m) ==
    /\ up
    /\ m \notin pset
    /\ pset' = pset \cup {m}
    /\ UNCHANGED <<rt, up>>

PsetLoss(m) ==
    /\ up
    /\ m \in pset
    /\ pset' = pset \ {m}
    /\ UNCHANGED <<rt, up>>

Next ==
    \/ \E p \in Path, proxy \in Id :
        \/ vrr_local_rcv_setup(p, proxy)
        \/ \E sender \in Phys : vrr_rcv_setup(p, sender, proxy)
    \/ \E p \in Path : vrr_rcv_teardown(p)
    \/ \E m \in Phys : PsetGain(m) \/ PsetLoss(m)

Spec == Init /\ [][Next]_vars
-----------------------------------------------------------------------------
Stored(k, p) ==
    k \in DOMAIN rt /\ \E i \in 1 .. Len(rt[k]) : rt[k][i].path_id = p.pid

\* No lookup names this node itself as the next hop, although the routes that
\* start here do (na = ME): rt_get_next never does, and rt_get_next_exclude,
\* whatever the shape of the tree, only if a path leads from here to here.
NeverForwardToSelf ==
    /\ \A dest \in Id : rt_get_next(rt, dest) # ME
    /\ (\A p \in Path : ~(p.src = ME /\ p.dst = ME /\ Stored(ME, p)))
         => \A dest, src \in Id : ME \notin rt_get_next_exclude(rt, dest, src)

\* A path that is found under its source is found under its destination too,
\* although rt_add_route may run out of memory between the two copies.
BothEnds ==
    \A p \in Path : p.dst # 0 /\ Stored(p.src, p) => Stored(p.dst, p)

\* rt_remove_route deletes the route from the table: a path that a step takes
\* away from its source is not found under any other endpoint either.
TornIsGone ==
    [][\A p \in Path : Stored(p.src, p) /\ ~Stored(p.src, p)'
          => \A k \in DOMAIN rt' : ~Stored(k, p)']_vars

=============================================================================
