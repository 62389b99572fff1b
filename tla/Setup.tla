-------------------------------- MODULE Setup -------------------------------
(***************************************************************************)
(* Path setup between the nodes of a network: join requests, setup_req,    *)
(* setup, setup_fail and teardown messages in flight (vrr_input.c,         *)
(* vrr_core.c), each node with its routing table, physical and virtual     *)
(* neighbours.                                                             *)
(*                                                                         *)
(* One table is the module RouteTable; T(n) is its instance for node n.    *)
(* Every handler runs in the receive softirq of one processor and is one   *)
(* step.  Messages may overtake each other.  Lost messages, failing        *)
(* allocations and links that fail are counted in faults.                  *)
(***************************************************************************)
EXTENDS Ring, Sequences, FiniteSets

CONSTANTS
    Node,           \* identifiers of the nodes
    Adjacent,       \* Adjacent[n]: the nodes in radio range of n
    Seed,           \* nodes that became active by themselves
    VRR_VSET_SIZE,  \* nominal size of the virtual neighbour set
    Path,           \* the paths that are ever set up: [pid, src, dst]
    Junk,           \* identifiers that uninitialised memory may hold
    MaxRoutes,      \* bound: copies of routes in one table
    MaxMessages,    \* bound: messages in flight while nothing failed
    MaxAfterFault,  \* bound: messages in flight after a fault
    MaxFaults       \* bound: faults

ASSUME SetupAssumption ==
    /\ Node \subseteq Id \ {0}
    /\ Adjacent \in [Node -> SUBSET Node]
    /\ \A n, m \in Node : m \in Adjacent[n] => m # n /\ n \in Adjacent[m]
    /\ Seed \subseteq Node
    /\ VRR_VSET_SIZE \in Nat
    /\ Path \subseteq [pid : Nat, src : Node, dst : Node]
    /\ \A p, q \in Path : p.pid = q.pid => p = q
    /\ Junk \subseteq Id
    /\ MaxRoutes \in Nat
    /\ MaxMessages \in Nat
    /\ MaxAfterFault \in Nat
    /\ MaxFaults \in Nat

VARIABLES
    rt,         \* rt[n]: routing table
    pset,       \* pset[n]: nodes in the pset list
    proxies,    \* proxies[n]: those that are linked and active
    active,     \* active[n]
    vset,       \* vset[n]: members of the virtual set
    vset_size,  \* vset_size[n]: its counter
    up,         \* up[n]: FALSE once the kernel of n dereferenced a null route
    net,        \* messages in flight
    drawn,      \* paths whose identifier was drawn
    faults      \* number of faults so far

vars == <<rt, pset, proxies, active, vset, vset_size, up, net, drawn, faults>>

T(n) == INSTANCE RouteTable
            WITH ME <- n, Phys <- Adjacent[n],
                 rt <- rt[n], pset <- pset[n], up <- up[n]

\* The virtual set a message offers, and the size it says it has.
Offer == [ids : SUBSET Id, size : Nat]

SetupReq == [type : {"setup_req"}, to : Node, src : Node, dst : Id,
             proxy : Node, offer : Offer]
SetupMsg == [type : {"setup"}, from : Node, to : Node, path : Path,
             proxy : Node, offer : Offer, copy : {1, 2}]
SetupFail == [type : {"setup_fail"}, to : Node, src : Node, dst : Node,
              proxy : Node, offer : Offer]
Teardown == [type : {"teardown"}, from : Node, to : Node, path : Path]

TypeOK ==
    /\ rt = [n \in Node |-> rt[n]]
    /\ pset \in [Node -> SUBSET Node]
    /\ up \in [Node -> BOOLEAN]
    /\ \A n \in Node : T(n)!TypeOK
    /\ proxies \in [Node -> SUBSET Node]
    /\ \A n \in Node : proxies[n] \subseteq pset[n]
    /\ active \in [Node -> BOOLEAN]
    /\ vset \in [Node -> SUBSET Id]
    /\ vset_size \in [Node -> Nat]
    /\ net \subseteq SetupReq \cup SetupMsg \cup SetupFail \cup Teardown
    /\ drawn \subseteq Path
    /\ faults \in 0 .. MaxFaults
-----------------------------------------------------------------------------
(***************************************************************************)
(* Sending.  Each operator is the set of messages that leave node n: none  *)
(* when the next hop is not in the physical set.                           *)
(***************************************************************************)

\* What vset_get_all may return: the counter sizes the array, and elements
\* beyond the list are uninitialised.
vset_get_all(n) ==
    {[ids |-> vset[n] \cup J, size |-> vset_size[n]] :
        J \in {J \in SUBSET Junk : Cardinality(J) <= vset_size[n] - Cardinality(vset[n])}}

send_setup_req(n, dst, proxy, offer) ==
    [type |-> "setup_req", to |-> proxy, src |-> n, dst |-> dst,
     proxy |-> proxy, offer |-> offer]

send_setup(n, p, proxy, offer, to) ==
    IF to \notin pset[n] THEN {}
    ELSE {[type |-> "setup", from |-> n, to |-> to, path |-> p,
           proxy |-> proxy, offer |-> offer, copy |-> 1]}

send_setup_fail(n, src, dst, proxy, offer, to) ==
    IF to \notin pset[n] THEN {}
    ELSE {[type |-> "setup_fail", to |-> to, src |-> src, dst |-> dst,
           proxy |-> proxy, offer |-> offer]}

\* Faulty: whether the next hop is in the physical set is not asked.
send_teardown_unchecked(n, p, to) ==
    {[type |-> "teardown", from |-> n, to |-> to, path |-> p]}

send_teardown(n, p, to) ==
    IF to \notin pset[n] THEN {}
    ELSE {[type |-> "teardown", from |-> n, to |-> to, path |-> p]}

\* The teardowns tear_down_path sends when it finds path p in table t of n.
tear_down_path(n, t, p) ==
    LET i == T(n)!Find(t, p.src, p.pid)
    IN  IF i = 0 THEN {}
        ELSE send_teardown(n, p, t[p.src][i].na) \cup
             send_teardown(n, p, t[p.src][i].nb)

(***************************************************************************)
(* The virtual set.  Which nodes a full set prefers is the subject of Vset *)
(* and left open.                                                          *)
(***************************************************************************)
vset_should_add(S, size, id) ==
    IF id \in S THEN {FALSE}
    ELSE IF size < VRR_VSET_SIZE THEN {TRUE} ELSE BOOLEAN

\* What vset_add leaves: an overfull set bumps a node, or fails to.
vset_add(S, size, id) ==
    LET all == S \cup {id}
    IN  IF size < VRR_VSET_SIZE THEN {all}
        ELSE {all} \cup {all \ {x} : x \in all}

\* The outcomes of adding src to a set S with counter size in vrr_add, which
\* takes the identifier -1 for "no node".
Added(S, size, src) ==
    LET should == IF src = UINT_MAX THEN {FALSE} ELSE vset_should_add(S, size, src)
    IN  {[set |-> S, size |-> size, ret |-> FALSE] : b \in {FALSE} \cap should} \cup
        {[set |-> R, size |-> size + 1, ret |-> TRUE] :
            R \in IF TRUE \in should THEN vset_add(S, size, src) ELSE {}}

\* Faulty: the nodes of an offer are not contacted.
Requests_none(n, ids) == {{}}

\* The setup_reqs vrr_add may send for the nodes ids of a received offer: one
\* for each node that should be added, through any active neighbour.
Requests(n, ids) ==
    LET Wanted == {W \in SUBSET (ids \ vset[n]) :
                      vset_size[n] < VRR_VSET_SIZE => W = ids \ vset[n]}
    IN  IF proxies[n] = {} THEN {{}}
        ELSE UNION {{{send_setup_req(n, id, c[id][1], c[id][2]) : id \in W} :
                        c \in [W -> proxies[n] \X vset_get_all(n)]} : W \in Wanted}
-----------------------------------------------------------------------------
\* Neighbour discovery has settled: every node knows the nodes in range.
Init ==
    /\ rt = [n \in Node |-> [k \in {} |-> <<>>]]
    /\ pset = Adjacent
    /\ proxies = [n \in Node |-> {}]
    /\ active = [n \in Node |-> n \in Seed]
    /\ vset = [n \in Node |-> {}]
    /\ vset_size = [n \in Node |-> 0]
    /\ up = [n \in Node |-> TRUE]
    /\ net = {}
    /\ drawn = {}
    /\ faults = 0

\* Message m, one of type, is taken by node n.
Receives(n, m, type) == up[n] /\ m.to = n /\ m.type = type

Room == IF faults = 0 THEN MaxMessages ELSE MaxAfterFault

\* The handler took message m off the air and sent the messages sent.
Replace(m, sent) ==
    /\ net' = (net \ {m}) \cup sent
    /\ sent = {} \/ Cardinality(net') <= Room

\* Faulty: the result of rt_add_route is not looked at.
AddRoute_unchecked(n, p, na, nb) ==
    {[ok |-> TRUE, table |-> out.table, msgs |-> {}] :
        out \in T(n)!rt_add_route(rt[n], [ea |-> p.src, eb |-> p.dst, na |-> na,
                                          nb |-> nb, path_id |-> p.pid])}

\* Faulty: the two next hops are swapped.
AddRoute_swapped(n, p, na, nb) ==
    {[ok |-> out.ret = 1, table |-> out.table, msgs |-> {}] :
        out \in T(n)!rt_add_route(rt[n], [ea |-> p.src, eb |-> p.dst, na |-> nb,
                                          nb |-> na, path_id |-> p.pid])}

\* The outcomes of rt_add_route, tear_down_path included where it fails.
AddRoute(n, p, na, nb) ==
    {[ok    |-> out.ret = 1,
      table |-> IF out.ret = 1 THEN out.table
                ELSE T(n)!tear_down_path(out.table, p.pid, p.src),
      msgs  |-> IF out.ret = 1 THEN {} ELSE tear_down_path(n, out.table, p)] :
        out \in T(n)!rt_add_route(rt[n], [ea |-> p.src, eb |-> p.dst, na |-> na,
                                          nb |-> nb, path_id |-> p.pid])}

\* A failed allocation is a fault.
CountFault(ok) ==
    /\ faults' = IF ok THEN faults ELSE faults + 1
    /\ faults' <= MaxFaults

\* The next hop of a setup or setup_fail that starts here, and of a setup_fail
\* that passes.
NextHop(n, dst, proxy) ==
    IF dst \in pset[n] THEN dst ELSE T(n)!rt_get_next(rt[n], proxy)

\* No join request of n is in flight: hellos are ten seconds apart.
Quiet(n) == \A m \in net : ~(m.type = "setup_req" /\ m.src = n /\ m.dst = n)

\* The hello of m makes it a neighbour of n, active if m is; an inactive node
\* asks an active neighbour to join, once the earlier request has arrived.
pset_update_handler(n, m) ==
    /\ up[n] /\ up[m] /\ m \in Adjacent[n]
    /\ pset' = [pset EXCEPT ![n] = @ \cup {m}]
    /\ proxies' = [proxies EXCEPT ![n] = IF active[m] THEN @ \cup {m} ELSE @]
    /\ IF active[m] /\ ~active[n]
       THEN /\ Quiet(n)
            /\ Cardinality(net) < Room
            /\ \E offer \in vset_get_all(n) :
                  net' = net \cup {send_setup_req(n, n, m, offer)}
       ELSE UNCHANGED net
    /\ UNCHANGED <<rt, active, vset, vset_size, up, drawn, faults>>

\* Node m stays silent: n marks it failed, and later forgets it.
detect_failures(n, m) ==
    /\ up[n]
    /\ CountFault(FALSE)
    /\ proxies' = [proxies EXCEPT ![n] = @ \ {m}]
    /\ \/ m \in proxies[n] /\ UNCHANGED pset
       \/ m \in pset[n] \ proxies[n] /\ pset' = [pset EXCEPT ![n] = @ \ {m}]
    /\ UNCHANGED <<rt, active, vset, vset_size, up, net, drawn>>

\* A setup_req that has a next hop is passed on.
vrr_forward_setup_req(n, m) ==
    /\ Receives(n, m, "setup_req")
    /\ \E nh \in T(n)!rt_get_next_exclude(rt[n], m.dst, m.src) \ {0} :
          Replace(m, IF nh \in pset[n] THEN {[m EXCEPT !.to = nh]} ELSE {})
    /\ UNCHANGED <<rt, pset, proxies, active, vset, vset_size, up, drawn, faults>>

\* vrr_add takes the source in: the setup of a new path starts here.
vrr_local_rcv_setup(n, m, offer, reqs) ==
    \E p \in Path \ drawn :
        /\ p.src = n /\ p.dst = m.src
        /\ drawn' = drawn \cup {p}
        /\ T(n)!HasRoom
        /\ LET nh == NextHop(n, p.dst, m.proxy) IN
           \E out \in AddRoute(n, p, n, nh) :
              /\ rt' = [rt EXCEPT ![n] = out.table]
              /\ CountFault(out.ok)
              /\ Replace(m, reqs \cup
                              IF out.ok THEN send_setup(n, p, m.proxy, offer, nh)
                                        ELSE out.msgs)

\* vrr_add did not take the source in: a setup_fail starts here.
vrr_local_rcv_setup_fail(n, m, offer, reqs) ==
    /\ \E more \in Requests(n, {m.src}) :
          Replace(m, reqs \cup more \cup
                       send_setup_fail(n, n, m.src, m.proxy, offer,
                                       NextHop(n, m.src, m.proxy)))
    /\ UNCHANGED <<rt, drawn, faults>>

\* A setup_req that has no next hop ends here.
vrr_rcv_setup_req(n, m) ==
    /\ Receives(n, m, "setup_req")
    /\ 0 \in T(n)!rt_get_next_exclude(rt[n], m.dst, m.src)
    /\ IF m.offer.size > VRR_VSET_SIZE
       THEN /\ Replace(m, {})
            /\ UNCHANGED <<rt, vset, vset_size, drawn, faults>>
       ELSE \E offer \in vset_get_all(n), reqs \in Requests(n, m.offer.ids),
               add \in Added(vset[n], vset_size[n], m.src) :
              /\ vset' = [vset EXCEPT ![n] = add.set]
              /\ vset_size' = [vset_size EXCEPT ![n] = add.size]
              /\ IF add.ret THEN vrr_local_rcv_setup(n, m, offer, reqs)
                            ELSE vrr_local_rcv_setup_fail(n, m, offer, reqs)
    /\ UNCHANGED <<pset, proxies, active, up>>

\* A setup that has no next hop ends here, at its destination or not: this node
\* becomes active when it takes the source in.
SetupEnds(n, m) ==
    \E reqs \in Requests(n, m.offer.ids),
       add \in Added(vset[n], vset_size[n], m.path.src) :
        /\ Replace(m, reqs)
        /\ vset' = [vset EXCEPT ![n] = add.set]
        /\ vset_size' = [vset_size EXCEPT ![n] = add.size]
        /\ active' = [active EXCEPT ![n] = @ \/ add.ret]

\* A setup of a stored path goes on to nh.  An offer larger than VRR_VSET_SIZE
\* is dropped, with the route left in the table.
SetupStored(n, m, nh) ==
    IF m.offer.size <= VRR_VSET_SIZE /\ nh = 0 THEN SetupEnds(n, m)
    ELSE /\ Replace(m, IF m.offer.size > VRR_VSET_SIZE THEN {}
                       ELSE send_setup(n, m.path, m.proxy, m.offer, nh))
         /\ UNCHANGED <<active, vset, vset_size>>

\* A setup arrives from a neighbour, or with a source address that
\* pset_lookup_mac does not know; the offer is copied to memory that may be
\* missing when the route is stored already.
vrr_rcv_setup(n, m) ==
    /\ Receives(n, m, "setup")
    /\ IF m.from \notin pset[n] \/ m.copy = 2
       THEN /\ rt' = [rt EXCEPT ![n] = T(n)!tear_down_path(@, m.path.pid, m.path.src)]
            /\ Replace(m, tear_down_path(n, rt[n], m.path))
            /\ UNCHANGED <<active, vset, vset_size, faults>>
       ELSE LET nh == T(n)!NextHop(m.path.dst, m.proxy) IN
            /\ T(n)!HasRoom
            /\ \E out \in AddRoute(n, m.path, m.from, nh), memory \in BOOLEAN :
                 /\ rt' = [rt EXCEPT ![n] = out.table]
                 /\ CountFault(out.ok /\ memory)
                 /\ IF out.ok /\ memory THEN SetupStored(n, m, nh)
                    ELSE /\ Replace(m, out.msgs)
                         /\ UNCHANGED <<active, vset, vset_size>>
    /\ UNCHANGED <<pset, proxies, up, drawn>>

\* A setup_fail passes on, or ends here: the nodes it offers are contacted, not
\* the one that sent it, which is written behind the end of the array.  The next
\* hop is looked up before the destination is compared with this
\* node.
vrr_rcv_setup_fail(n, m) ==
    /\ Receives(n, m, "setup_fail")
    /\ LET nh == NextHop(n, m.dst, m.proxy) IN
       IF m.offer.size > VRR_VSET_SIZE THEN Replace(m, {})
       ELSE IF nh # 0
       THEN Replace(m, send_setup_fail(n, m.src, m.dst, m.proxy, m.offer, nh))
       ELSE \E reqs \in IF m.dst = n THEN Requests(n, m.offer.ids) ELSE {{}} :
              Replace(m, reqs)
    /\ UNCHANGED <<rt, pset, proxies, active, vset, vset_size, up, drawn, faults>>

\* A teardown passes on to the other side of the path.  At its end the end
\* that is recorded on that side leaves the virtual set, and vrr_add is called
\* for the identifier 0.  A path that is not stored is dereferenced.
vrr_rcv_teardown(n, m) ==
    /\ Receives(n, m, "teardown")
    /\ LET p == m.path
           i == T(n)!Find(rt[n], p.src, p.pid)
           r == rt[n][p.src][i]
           next == IF r.na = m.from THEN r.nb ELSE r.na
           endpt == IF r.na = m.from THEN r.eb ELSE r.ea
       IN  IF i = 0
           THEN /\ up' = [up EXCEPT ![n] = FALSE]
                /\ Replace(m, {})
                /\ UNCHANGED <<rt, vset, vset_size>>
           ELSE /\ rt' = [rt EXCEPT ![n] = T(n)!rt_remove_route(@, p.src, p.pid)]
                /\ UNCHANGED up
                /\ \/ /\ next # 0
                      /\ Replace(m, send_teardown(n, p, next))
                      /\ UNCHANGED <<vset, vset_size>>
                   \/ /\ next = 0
                      /\ Replace(m, {})
                      /\ \E add \in Added(vset[n] \ {endpt}, vset_size[n], 0) :
                           /\ vset' = [vset EXCEPT ![n] = add.set]
                           /\ vset_size' = [vset_size EXCEPT ![n] = add.size]
    /\ UNCHANGED <<pset, proxies, active, drawn, faults>>

\* A message is lost on the air or for want of memory.
Lose(m) ==
    /\ CountFault(FALSE)
    /\ Replace(m, {})
    /\ UNCHANGED <<rt, pset, proxies, active, vset, vset_size, up, drawn>>

\* A setup that vrr_output sent on two interfaces reaches the same node twice.
\* Each frame carries the address of its own interface, and the physical set
\* keeps one address for a node: the second copy comes from an unknown one.
Repeat(m) ==
    /\ m.type = "setup" /\ m.copy = 1
    /\ CountFault(FALSE)
    /\ Replace(m, {m, [m EXCEPT !.copy = 2]})
    /\ UNCHANGED <<rt, pset, proxies, active, vset, vset_size, up, drawn>>

Next ==
    \/ \E n, m \in Node : pset_update_handler(n, m) \/ detect_failures(n, m)
    \/ \E m \in net :
        \/ Lose(m) \/ Repeat(m)
        \/ \E n \in Node : \/ vrr_forward_setup_req(n, m)
                           \/ vrr_rcv_setup_req(n, m)
                           \/ vrr_rcv_setup(n, m)
                           \/ vrr_rcv_setup_fail(n, m)
                           \/ vrr_rcv_teardown(n, m)

Spec == Init /\ [][Next]_vars

\* While nothing fails, hellos are repeated every period, and of the requests of
\* a node, and of its setups, one is delivered in the end.
Fairness ==
    /\ \A n \in Node : \A m \in Adjacent[n] : WF_vars(faults = 0 /\ pset_update_handler(n, m))
    /\ \A src \in Node :
        /\ WF_vars(faults = 0 /\ \E m \in net :
                      /\ m.type = "setup_req" /\ m.src = src
                      /\ vrr_forward_setup_req(m.to, m) \/ vrr_rcv_setup_req(m.to, m))
        /\ WF_vars(faults = 0 /\ \E m \in net :
                      m.type = "setup" /\ m.path.src = src /\ vrr_rcv_setup(m.to, m))

FairSpec == Spec /\ Fairness
-----------------------------------------------------------------------------
\* The neighbour to which x passes a data packet for dst; 0 if it drops it.
vrr_forward(x, dst) ==
    LET nh == T(x)!rt_get_next(rt[x], dst)
    IN  IF nh \in pset[x] THEN nh ELSE 0

\* What every node chooses for dst.
Forwarding(dst) == [x \in Node |-> vrr_forward(x, dst)]

\* Where a packet for dst that leaves n is after k hops; 0 once it is dropped.
Trip(n, dst) ==
    LET at[k \in 0 .. Cardinality(Node)] ==
            IF k = 0 THEN n
            ELSE LET x == at[k - 1]
                 IN  IF x \in {0, dst} THEN x ELSE Forwarding(dst)[x]
    IN  at

\* Where it ends, unless it still travels after as many hops as there are nodes.
TripEnd(n, dst) == Trip(n, dst)[Cardinality(Node)]

\* Node x holds a copy of path p under its destination whose next hop is y.
Leads(x, p, y) ==
    /\ p.dst \in DOMAIN rt[x]
    /\ \E i \in 1 .. Len(rt[x][p.dst]) :
          rt[x][p.dst][i].path_id = p.pid /\ rt[x][p.dst][i].nb = y

\* A path is laid without a gap: the neighbour that an entry of rt_add_route
\* names as the previous hop holds the path too, with this node as its next
\* hop, back to the source; so it is while setups are lost or half stored,
\* links fail and teardowns overtake them.
Backtrack ==
    \A n \in Node, p \in Path :
        p.src # p.dst /\ p.dst \in DOMAIN rt[n] =>
            \A i \in 1 .. Len(rt[n][p.dst]) :
                LET r == rt[n][p.dst][i]
                IN  r.path_id = p.pid => IF r.na = n THEN n = p.src
                                         ELSE Leads(r.na, p, n)

\* No part of a path is cut off: when no entry of the path leads out of a set of
\* nodes that has its source, no node outside of the set holds the path.
\* Each handler sees one hop only, and setups are stored, lost and repeated apart.
Connected ==
    \A p \in Path, R \in SUBSET Node :
        /\ p.src # p.dst
        /\ p.src \in R
        /\ \A x \in R, y \in Node \ R : ~Leads(x, p, y)
        => \A n \in Node \ R, y \in Node \cup {0} : ~Leads(n, p, y)

\* No packet goes round in circles: vrr_forward at every hop, each with its own
\* table, leads to the destination or drops the packet, at every stage of the
\* setups and teardowns.  The code ensures it in networks that are trees.
NoLoop == \A n, d \in Node : TripEnd(n, d) \in {0, d}

\* The network is a tree, and hops[n][d] the length of the way from n to d: one
\* neighbour of n is closer to d, the others are farther away.
TreeHops(hops) ==
    /\ hops \in [Node -> [Node -> 0 .. Cardinality(Node)]]
    /\ \A n, d \in Node : /\ hops[n][d] = hops[d][n]
                          /\ hops[n][d] = 0 <=> n = d
    /\ \A n, x, d \in Node : hops[n][d] <= hops[n][x] + hops[x][d]
    /\ \A n, d \in Node : n # d =>
          \E m \in Adjacent[n] :
              /\ hops[m][d] = hops[n][d] - 1
              /\ \A x \in Adjacent[n] \ {m} : hops[x][d] = hops[n][d] + 1

\* Every node's table behaves as RouteTable says: what it is told by other
\* nodes' messages is no more than that module allows, so its theorems hold of
\* each node.
Tables ==
    /\ \A n \in Node : T(n)!Init
    /\ [][\A n \in Node : UNCHANGED T(n)!vars \/ T(n)!Next]_vars

\* rt_get_next_exclude leaves the source of a setup_req out of its search: no
\* node passes a request on to the node that made it.
NotBounced ==
    [][\A m \in net' \ net : m.type = "setup_req" => m.to # m.src]_vars

\* A request is on its way back to the node that made it (see NotBounced).
Bounced == \E m \in net : m.type = "setup_req" /\ m.to = m.src

\* A node that is not the end of a path holds it without a next hop: the setup
\* came before one that would have told the node where its proxy is.
DeadEnd ==
    \E n \in Node : \E k \in DOMAIN rt[n] : \E i \in 1 .. Len(rt[n][k]) :
        rt[n][k][i].nb = 0 /\ rt[n][k][i].eb # n

\* All nodes are active, each has every other one in its virtual set, and
\* packets between any two arrive.
Joined ==
    /\ \A n \in Node : active[n]
    /\ \A n \in Node : Node \ {n} \subseteq vset[n]
    /\ \A n, s \in Node : TripEnd(n, s) = s

\* When nothing fails, the nodes come together whatever the order of hellos,
\* requests and setups, from some time on for ever, unless a request is sent
\* back to its origin or a setup stops short of its destination: these two
\* flaws of vrr_forward_setup_req and vrr_rcv_setup are the only ways in which
\* delays alone keep a node out.
Converges == [](faults = 0 /\ ~Bounced /\ ~DeadEnd) => <>[]Joined
=============================================================================
