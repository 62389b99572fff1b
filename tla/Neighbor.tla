------------------------------ MODULE Neighbor ------------------------------
(***************************************************************************)
(* Physical neighbour discovery of the VRR kernel module: the hello        *)
(* handshake, the failure detector, the activation timeout and the join    *)
(* request (vrr_input.c, vrr_core.c, vrr_data.c, vrr_mod.c).               *)
(*                                                                         *)
(* Every node runs three activities that interleave:                       *)
(*   - the receive path (softirq): vrr_rcv;                                *)
(*   - the hello timer (softirq):  vrr_timer_tick;                         *)
(*   - one kernel worker thread, which executes the two work items         *)
(*     vrr_workqueue and pset_updates_wq in the order they were scheduled. *)
(* The pset_updates list is shared by the receive path and the worker      *)
(* without a lock, so the handler of pset_updates_wq is modelled one loop  *)
(* iteration at a time; the other handlers are single steps.               *)
(***************************************************************************)
EXTENDS Naturals, Sequences, FiniteSets

CONSTANTS
    Node,                \* identifiers of the nodes
    Hears,               \* <<s, d>> \in Hears: radio frames of s reach d
    Mortal,              \* nodes that may be switched off or unloaded
    VRR_FAIL_TIMEOUT,    \* periods of silence before a neighbour is failed
    VRR_ACTIVE_TIMEOUT,  \* periods of silence before a node activates itself
    VRR_PSET_SIZE,       \* capacity of the arrays of a hello packet
    ChanCap,             \* bound: hello packets in flight from s to d
    UpdateCap            \* bound: unprocessed entries of pset_updates

\* The worker applies an update at most one period after the packet that
\* caused it, so the timeout has to be longer than one period.  A node has at
\* most VRR_PSET_SIZE physical neighbours: the arrays of struct pset_state
\* are written without a bounds check.
ASSUME NeighborAssumption ==
    /\ Hears \subseteq Node \X Node
    /\ Mortal \subseteq Node
    /\ VRR_FAIL_TIMEOUT \in Nat /\ VRR_FAIL_TIMEOUT >= 2
    /\ VRR_ACTIVE_TIMEOUT \in Nat \ {0}
    /\ VRR_PSET_SIZE \in Nat
    /\ ChanCap \in Nat \ {0}
    /\ UpdateCap \in Nat \ {0}

ASSUME PsetFitsAssumption ==
    IsFiniteSet(Node) /\ Cardinality(Node) <= VRR_PSET_SIZE + 1

VARIABLES
    life,      \* life[n]: "off" before vrr_init, "on", "dead" after vrr_exit
    active,    \* active[n]: vrr->active
    timeout,   \* timeout[n]: vrr->timeout
    pset,      \* pset[n][m]: the pset list entry of m at n
    pstate,    \* pstate[n]: the arrays n advertises in its hellos
    updates,   \* updates[n]: the list pset_updates
    workq,     \* workq[n]: work items scheduled and not yet started
    worker,    \* worker[n]: where n's worker is inside pset_update_handler
    net,       \* net[s][d]: hello packets in flight from s to d
    joins      \* joins[n]: proxies n ever sent a join request (setup_req) to

vars == <<life, active, timeout, pset, pstate, updates, workq, worker, net,
          joins>>
-----------------------------------------------------------------------------
(***************************************************************************)
(* Data.                                                                   *)
(***************************************************************************)
Status == {"linked", "pending", "failed", "unknown"}

Trans == {"linked", "pending", "missing"}

\* A node that is not in the pset list: pset_get_status returns PSET_UNKNOWN
\* and pset_get_active returns 0.
Absent == [status |-> "unknown", active |-> FALSE, fail_count |-> 0]

Entry == [status : Status, active : BOOLEAN, fail_count : Nat]

PsetState == [la : SUBSET Node, lna : SUBSET Node, p : SUBSET Node]

Hello == [active : BOOLEAN, la : SUBSET Node, lna : SUBSET Node,
          p : SUBSET Node]

Update == [node : Node, trans : Trans, active : BOOLEAN]

Work == {"vrr_workqueue", "pset_updates_wq"}

TypeOK ==
    /\ life \in [Node -> {"off", "on", "dead"}]
    /\ active \in [Node -> BOOLEAN]
    /\ timeout \in [Node -> 0 .. VRR_ACTIVE_TIMEOUT]
    /\ pset \in [Node -> [Node -> Entry]]
    /\ pstate \in [Node -> PsetState]
    /\ updates \in [Node -> Seq(Update)]
    /\ workq \in [Node -> Seq(Work)]
    /\ worker \in [Node -> {"idle", "loop", "init"}]
    /\ net \in [Node -> [Node -> Seq(Hello)]]
    /\ joins \in [Node -> SUBSET Node]
-----------------------------------------------------------------------------
(***************************************************************************)
(* Helpers.                                                                *)
(***************************************************************************)

\* Faulty: a pending node that does not list us is linked all the same.
hello_trans_one_way ==
    [linked  |-> [linked |-> "linked", pending |-> "linked",
                  missing |-> "failed"],
     pending |-> [linked |-> "linked", pending |-> "linked",
                  missing |-> "linked"],
     failed  |-> [linked |-> "failed", pending |-> "pending",
                  missing |-> "pending"],
     unknown |-> [linked |-> "failed", pending |-> "linked",
                  missing |-> "pending"]]

\* Faulty: a failed node stays failed until it lists us as pending.
hello_trans_stuck ==
    [linked  |-> [linked |-> "linked", pending |-> "linked",
                  missing |-> "failed"],
     pending |-> [linked |-> "linked", pending |-> "linked",
                  missing |-> "pending"],
     failed  |-> [linked |-> "failed", pending |-> "pending",
                  missing |-> "failed"],
     unknown |-> [linked |-> "failed", pending |-> "linked",
                  missing |-> "pending"]]

\* The transition table: current status of the sender, what its hello says.
hello_trans ==
    [linked  |-> [linked |-> "linked", pending |-> "linked",
                  missing |-> "failed"],
     pending |-> [linked |-> "linked", pending |-> "linked",
                  missing |-> "pending"],
     failed  |-> [linked |-> "failed", pending |-> "pending",
                  missing |-> "pending"],
     unknown |-> [linked |-> "failed", pending |-> "linked",
                  missing |-> "pending"]]

\* What hello h says about its receiver: the later arrays override.
HelloTrans(h, me) ==
    IF me \in h.p THEN "pending"
    ELSE IF me \in h.la \cup h.lna THEN "linked"
    ELSE "missing"

\* The size checks of vrr_rcv_hello.
HelloFits(h) ==
    /\ Cardinality(h.la) <= VRR_PSET_SIZE
    /\ Cardinality(h.lna) <= VRR_PSET_SIZE
    /\ Cardinality(h.p) <= VRR_PSET_SIZE

\* The arrays l_active, l_not_active and pending computed from a pset list.
pset_state_update(ps) ==
    [la  |-> {m \in Node : ps[m].status = "linked" /\ ps[m].active},
     lna |-> {m \in Node : ps[m].status = "linked" /\ ~ps[m].active},
     p   |-> {m \in Node : ps[m].status = "pending"}]

pset_reset_fail_count(e) ==
    [status     |-> e.status,
     active     |-> e.active,
     fail_count |-> IF e.status = "unknown" THEN e.fail_count ELSE 0]

\* Faulty: an entry is forgotten one period late.
DetectFailure_late(e) ==
    LET count == e.fail_count + 1 IN
    IF e.status = "unknown" \/ count > 2 * VRR_FAIL_TIMEOUT
    THEN Absent
    ELSE [status     |-> IF count >= VRR_FAIL_TIMEOUT THEN "failed"
                                                      ELSE e.status,
          active     |-> e.active,
          fail_count |-> count]

\* Faulty: the two timeouts are swapped.
DetectFailure_swapped(e) ==
    LET count == e.fail_count + 1 IN
    IF e.status = "unknown" \/ count >= VRR_FAIL_TIMEOUT
    THEN Absent
    ELSE [status |-> e.status, active |-> e.active, fail_count |-> count]

\* Faulty: an entry that is already failed is skipped.
DetectFailure_skips(e) ==
    LET count == e.fail_count + 1 IN
    IF e.status \in {"unknown", "failed"} THEN e
    ELSE [status     |-> IF count >= VRR_FAIL_TIMEOUT THEN "failed"
                                                      ELSE e.status,
          active     |-> e.active,
          fail_count |-> count]

\* One entry in the loop of detect_failures.
DetectFailure(e) ==
    LET count == e.fail_count + 1 IN
    IF e.status = "unknown" \/ count >= 2 * VRR_FAIL_TIMEOUT
    THEN Absent
    ELSE [status     |-> IF count >= VRR_FAIL_TIMEOUT THEN "failed"
                                                      ELSE e.status,
          active     |-> e.active,
          fail_count |-> count]

detect_failures(ps) == [m \in Node |-> DetectFailure(ps[m])]

\* Faulty: off by one.
MarksFailure_late(ps) ==
    \E m \in Node : /\ ps[m].status \notin {"failed", "unknown"}
                    /\ ps[m].fail_count + 1 > VRR_FAIL_TIMEOUT

\* detect_failures refreshes the advertised arrays when it marks an entry.
MarksFailure(ps) ==
    \E m \in Node : /\ ps[m].status \notin {"failed", "unknown"}
                    /\ ps[m].fail_count + 1 >= VRR_FAIL_TIMEOUT

\* Faulty: the early return of an active node is missing.
active_timeout_always(act, t) ==
    [timeout |-> t + 1, active |-> act \/ t + 1 = VRR_ACTIVE_TIMEOUT]

\* Faulty: the count starts again instead of activating the node.
active_timeout_restarts(act, t) ==
    [timeout |-> (t + 1) % VRR_ACTIVE_TIMEOUT, active |-> act]

active_timeout(act, t) ==
    [timeout |-> IF act THEN t ELSE t + 1,
     active  |-> act \/ t + 1 = VRR_ACTIVE_TIMEOUT]

\* schedule_work: a work item that is already pending is not queued again.
schedule_work(q, w) ==
    IF \E i \in 1 .. Len(q) : q[i] = w THEN q ELSE Append(q, w)

pset_add(status, act) == [status |-> status, active |-> act, fail_count |-> 0]

pset_update_status(e, status, act) ==
    [status |-> status, active |-> act, fail_count |-> e.fail_count]

\* The entry after one iteration of pset_update_handler.
ApplyUpdate(e, u) ==
    LET next_state == hello_trans[e.status][u.trans]
    IN  IF e.status = "unknown" THEN pset_add(next_state, u.active)
        ELSE pset_update_status(e, next_state, u.active)

\* The hello packet built from vrr->active and the arrays ps.
send_hpkt(act, ps) == [active |-> act, la |-> ps.la, lna |-> ps.lna, p |-> ps.p]

\* Faulty: a join request goes to an active node that is not linked yet.
JoinsThrough_unlinked(isActive, u, status) == ~isActive /\ u.active

\* The iteration for update u, which leaves its node in status, ends with a
\* join request.
JoinsThrough(isActive, u, status) ==
    ~isActive /\ u.active /\ status = "linked"
-----------------------------------------------------------------------------
Init ==
    /\ life = [n \in Node |-> "off"]
    /\ active = [n \in Node |-> FALSE]
    /\ timeout = [n \in Node |-> 0]
    /\ pset = [n \in Node |-> [m \in Node |-> Absent]]
    /\ pstate = [n \in Node |-> [la |-> {}, lna |-> {}, p |-> {}]]
    /\ updates = [n \in Node |-> <<>>]
    /\ workq = [n \in Node |-> <<>>]
    /\ worker = [n \in Node |-> "idle"]
    /\ net = [n \in Node |-> [m \in Node |-> <<>>]]
    /\ joins = [n \in Node |-> {}]

\* The module is loaded: its state is the initial one, packets are received
\* and the timer runs from now on.
vrr_init(n) ==
    /\ life[n] = "off"
    /\ life' = [life EXCEPT ![n] = "on"]
    /\ UNCHANGED <<active, timeout, pset, pstate, updates, workq, worker,
                   net, joins>>

\* The module is unloaded or the machine stops, and its memory is gone.  A
\* later start draws a new random identifier: it is another node of the model.
vrr_exit(n) ==
    /\ n \in Mortal
    /\ life[n] = "on"
    /\ life' = [life EXCEPT ![n] = "dead"]
    /\ timeout' = [timeout EXCEPT ![n] = 0]
    /\ pset' = [pset EXCEPT ![n] = [m \in Node |-> Absent]]
    /\ pstate' = [pstate EXCEPT ![n] = [la |-> {}, lna |-> {}, p |-> {}]]
    /\ updates' = [updates EXCEPT ![n] = <<>>]
    /\ workq' = [workq EXCEPT ![n] = <<>>]
    /\ worker' = [worker EXCEPT ![n] = "idle"]
    /\ net' = [s \in Node |-> [net[s] EXCEPT ![n] = <<>>]]
    /\ joins' = [joins EXCEPT ![n] = {}]
    /\ UNCHANGED active

\* The hello timer fires and is re-armed; firing while the work item is
\* still pending changes nothing.
vrr_timer_tick(n) ==
    /\ life[n] = "on"
    /\ workq' = [workq EXCEPT ![n] = schedule_work(@, "vrr_workqueue")]
    /\ workq' # workq
    /\ UNCHANGED <<life, active, timeout, pset, pstate, updates, worker, net,
                   joins>>

\* The nodes a broadcast of n can reach.
InRange(n) == {d \in Node \ {n} : <<n, d>> \in Hears}

\* vrr_output of a hello of n: every running node in range gets a copy, except
\* those in lost and those whose channel is full.
Broadcast(n, h, lost) ==
    net' = [net EXCEPT ![n] =
              [d \in Node |->
                 IF /\ d \in InRange(n) \ lost
                    /\ life[d] = "on" /\ Len(net[n][d]) < ChanCap
                 THEN Append(net[n][d], h) ELSE net[n][d]]]

\* The worker runs vrr_workqueue: detect_failures, active_timeout, send_hpkt.
vrr_workqueue_handler(n, lost) ==
    /\ life[n] = "on"
    /\ worker[n] = "idle"
    /\ workq[n] # <<>> /\ Head(workq[n]) = "vrr_workqueue"
    /\ workq' = [workq EXCEPT ![n] = Tail(@)]
    /\ pset' = [pset EXCEPT ![n] = detect_failures(@)]
    /\ pstate' = [pstate EXCEPT ![n] =
                    IF MarksFailure(pset[n])
                    THEN pset_state_update(pset'[n]) ELSE @]
    /\ timeout' = [timeout EXCEPT ![n] = active_timeout(active[n], @).timeout]
    /\ active' = [active EXCEPT ![n] = active_timeout(@, timeout[n]).active]
    /\ Broadcast(n, send_hpkt(active'[n], pstate'[n]), lost)
    /\ UNCHANGED <<life, updates, worker, joins>>

\* vrr_rcv of a hello of s at n: the timeouts are reset and the change of the
\* physical set is left to the worker, if there is memory (mem) to record it.
vrr_rcv_hello(s, n, mem) ==
    /\ life[n] = "on"
    /\ net[s][n] # <<>>
    /\ Len(updates[n]) < UpdateCap
    /\ LET h == Head(net[s][n]) IN
         /\ net' = [net EXCEPT ![s][n] = Tail(@)]
         /\ timeout' = [timeout EXCEPT ![n] = 0]
         /\ pset' = [pset EXCEPT ![n][s] = pset_reset_fail_count(@)]
         /\ IF HelloFits(h) /\ mem
            THEN /\ updates' = [updates EXCEPT ![n] =
                       Append(@, [node |-> s, trans |-> HelloTrans(h, n),
                                  active |-> h.active])]
                 /\ workq' = [workq EXCEPT ![n] =
                                schedule_work(@, "pset_updates_wq")]
            ELSE UNCHANGED <<updates, workq>>
    /\ UNCHANGED <<life, active, pstate, worker, joins>>

\* vrr_rcv of a packet of another type (data, setup_req, setup, setup_fail,
\* teardown) that src sent, whose last hop is a node in range.  Both timeouts
\* are reset, the fail count of src even when src is several hops away.  A
\* setup whose src n added to its vset activates n (joined): vrr_rcv_setup does
\* so on every node without a next hop, whether the setup is for it or not.
ReceiveOther(n, src, joined) ==
    /\ life[n] = "on"
    /\ src # n /\ life[src] = "on"
    /\ \E s \in Node \ {n} : <<s, n>> \in Hears /\ life[s] = "on"
    /\ timeout' = [timeout EXCEPT ![n] = 0]
    /\ pset' = [pset EXCEPT ![n][src] = pset_reset_fail_count(@)]
    /\ active' = [active EXCEPT ![n] = @ \/ joined]
    /\ UNCHANGED <<life, pstate, updates, workq, worker, net, joins>>

\* pset_update_handler starts: the item is no longer pending.
PsetUpdateBegin(n) ==
    /\ life[n] = "on"
    /\ worker[n] = "idle"
    /\ workq[n] # <<>> /\ Head(workq[n]) = "pset_updates_wq"
    /\ workq' = [workq EXCEPT ![n] = Tail(@)]
    /\ worker' = [worker EXCEPT ![n] =
                    IF updates[n] = <<>> THEN "init" ELSE "loop"]
    /\ UNCHANGED <<life, active, timeout, pset, pstate, updates, net, joins>>

\* One iteration of its loop.  The successor was fetched when the iteration
\* began, so after the last element the loop is over.
PsetUpdateStep(n) ==
    /\ life[n] = "on"
    /\ worker[n] = "loop"
    /\ LET u == Head(updates[n])
           e == pset[n][u.node]
           f == ApplyUpdate(e, u)
       IN /\ pset' = [pset EXCEPT ![n][u.node] = f]
          /\ pstate' = [pstate EXCEPT ![n] =
                          IF e # f THEN pset_state_update(pset'[n]) ELSE @]
          /\ joins' = [joins EXCEPT ![n] =
                         IF JoinsThrough(active[n], u, f.status)
                         THEN @ \cup {u.node} ELSE @]
    /\ updates' = [updates EXCEPT ![n] = Tail(@)]
    /\ worker' = [worker EXCEPT ![n] =
                    IF Len(updates[n]) = 1 THEN "init" ELSE "loop"]
    /\ UNCHANGED <<life, active, timeout, workq, net>>

\* The handler ends with INIT_LIST_HEAD: what arrived since the last
\* iteration is lost.
PsetUpdateEnd(n) ==
    /\ life[n] = "on"
    /\ worker[n] = "init"
    /\ updates' = [updates EXCEPT ![n] = <<>>]
    /\ worker' = [worker EXCEPT ![n] = "idle"]
    /\ UNCHANGED <<life, active, timeout, pset, pstate, workq, net, joins>>

Receive(n) ==
    \/ \E s \in Node, mem \in BOOLEAN : vrr_rcv_hello(s, n, mem)
    \/ \E src \in Node, joined \in BOOLEAN : ReceiveOther(n, src, joined)

pset_update_handler(n) ==
    \/ PsetUpdateBegin(n)
    \/ PsetUpdateStep(n)
    \/ PsetUpdateEnd(n)

Next ==
    \E n \in Node :
        \/ vrr_init(n)
        \/ vrr_exit(n)
        \/ vrr_timer_tick(n)
        \/ \E lost \in SUBSET InRange(n) : vrr_workqueue_handler(n, lost)
        \/ Receive(n)
        \/ pset_update_handler(n)

Spec == Init /\ [][Next]_vars
-----------------------------------------------------------------------------
(***************************************************************************)
(* Properties.                                                             *)
(***************************************************************************)

\* A neighbour is linked only if the radio link works in both directions: the
\* handshake of hello_trans never links a node that does not hear us.
BidirectionalLink ==
    \A n, m \in Node :
        pset[n][m].status = "linked" => {<<n, m>>, <<m, n>>} \subseteq Hears

\* A join request (send_setup_req in pset_update_handler) goes only to a node
\* that is itself active and reachable in both directions.
JoinThroughActiveNeighbor ==
    \A n \in Node : \A m \in joins[n] :
        active[m] /\ {<<n, m>>, <<m, n>>} \subseteq Hears

\* What a node advertises in its hellos is its current physical set, although
\* the arrays are refreshed only by some of the code that changes the set.
PstateFresh == \A n \in Node : pstate[n] = pset_state_update(pset[n])

\* A neighbour that was silent for VRR_FAIL_TIMEOUT periods is failed, and it
\* is forgotten before the count reaches twice that: an update that was
\* waiting for the worker never revives it.
SilentIsFailed ==
    \A n, m \in Node :
        /\ pset[n][m].fail_count >= VRR_FAIL_TIMEOUT
               => pset[n][m].status = "failed"
        /\ pset[n][m].fail_count < 2 * VRR_FAIL_TIMEOUT

\* A running node (detect_failures) forgets a neighbour only after an earlier
\* pass marked it failed: no entry goes from usable to gone in one step.
OnlyFailedForgotten ==
    [][\A n, m \in Node :
         (life'[n] = "on" /\ pset[n][m].status # "unknown"
                          /\ pset'[n][m].status = "unknown")
            => pset[n][m].status = "failed"]_vars
=============================================================================
