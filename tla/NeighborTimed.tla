---------------------------- MODULE NeighborTimed ---------------------------
(***************************************************************************)
(* Neighbor with the timing of the deployed system: every node re-arms its *)
(* hello timer with the same delay VRR_HPKT_DELAY (10 s), which is far     *)
(* longer than the delivery of a packet or the run of a work item.  In one *)
(* period every running timer fires exactly once, in any order, and all    *)
(* packets and work items of the period are gone before the next begins.   *)
(* Packets may be lost, and memory for an update may be missing, until the *)
(* system becomes stable.                                                  *)
(***************************************************************************)
EXTENDS Neighbor

CONSTANT Lossy   \* links that lose packets, or their updates, at first

ASSUME TimedAssumption == Lossy \subseteq Hears

VARIABLES
    ticked,   \* nodes whose timer fired in this period
    lossy     \* packets and updates may still be lost

timedVars == <<vars, ticked, lossy>>

On == {n \in Node : life[n] = "on"}

TimedInit ==
    /\ Init
    /\ ticked = {}
    /\ lossy = TRUE

\* mod_timer(&vrr_timer, jiffies + VRR_HPKT_DELAY * HZ / 1000).
Tick(n) ==
    /\ n \notin ticked
    /\ vrr_timer_tick(n)
    /\ ticked' = ticked \cup {n}
    /\ UNCHANGED lossy

HelloWork(n) ==
    /\ \E lost \in SUBSET {m \in InRange(n) : lossy /\ <<n, m>> \in Lossy} :
          vrr_workqueue_handler(n, lost)
    /\ UNCHANGED <<ticked, lossy>>

HelloArrives(s, n) ==
    /\ \E mem \in BOOLEAN : /\ mem \/ (lossy /\ <<s, n>> \in Lossy)
                            /\ vrr_rcv_hello(s, n, mem)
    /\ UNCHANGED <<ticked, lossy>>

Quiet ==
    \A n \in On : /\ workq[n] = <<>> /\ worker[n] = "idle"
                  /\ \A s \in Node : net[s][n] = <<>>

NewPeriod ==
    /\ On # {} /\ On \subseteq ticked
    /\ Quiet
    /\ ticked' = {}
    /\ UNCHANGED <<vars, lossy>>

Stabilise ==
    /\ lossy
    /\ lossy' = FALSE
    /\ UNCHANGED <<vars, ticked>>

Untimed(A) == A /\ UNCHANGED <<ticked, lossy>>

TimedNext ==
    \/ \E n \in Node :
        \/ Tick(n)
        \/ HelloWork(n)
        \/ Untimed(vrr_init(n))
        \/ Untimed(vrr_exit(n))
        \/ \E s \in Node : HelloArrives(s, n)
        \/ \E src \in Node, joined \in BOOLEAN :
              Untimed(ReceiveOther(n, src, joined))
        \/ Untimed(pset_update_handler(n))
    \/ NewPeriod
    \/ Stabilise

\* Timers keep firing, the worker and the receive path keep running, every
\* node is started at some time, and losses end.  No fairness on
\* vrr_exit and none on the arrival of setup messages.
Fairness ==
    /\ \A n \in Node :
        /\ WF_timedVars(Tick(n))
        /\ WF_timedVars(HelloWork(n))
        /\ WF_timedVars(Untimed(vrr_init(n)))
        /\ WF_timedVars(Untimed(pset_update_handler(n)))
        /\ \A s \in Node : WF_timedVars(HelloArrives(s, n))
    /\ WF_timedVars(NewPeriod)
    /\ WF_timedVars(Stabilise)

TimedSpec == TimedInit /\ [][TimedNext]_timedVars /\ Fairness
-----------------------------------------------------------------------------
\* An update of m waits at n when pset_update_handler is about to run
\* INIT_LIST_HEAD, which discards it: it arrived after the loop saw the list
\* empty.
Discards(n, m) ==
    /\ worker[n] = "init"
    /\ \E i \in 1 .. Len(updates[n]) : updates[n][i].node = m

\* pset_update_handler has an update of m in hand.
Applies(n, m) == worker[n] = "loop" /\ Head(updates[n]).node = m

\* From some time on every update of m that reaches n is discarded.
Starved(n, m) == []<>Discards(n, m) /\ <>[]~Applies(n, m)

\* Two running nodes that hear each other end up linked at both ends and stay
\* linked, whatever losses came before and whoever else sends hellos, unless
\* INIT_LIST_HEAD discards every update of one at the other for ever:
\* hello_trans has no livelock, the failure detector raises no false alarm on a
\* stable radio, and losing some updates to the race of pset_update_handler
\* with pset_update_status does no lasting harm.
LinkStabilises ==
    \A n, m \in Node :
        n # m /\ {<<n, m>>, <<m, n>>} \subseteq Hears =>
            \/ <>[]({n, m} \subseteq On => pset[n][m].status = "linked")
            \/ Starved(n, m) \/ Starved(m, n)

\* A node that stopped is eventually removed from every other node's physical
\* set for good (detect_failures).
StoppedIsForgotten ==
    \A n, m \in Node :
        life[m] = "dead" ~> [](n \in On => pset[n][m] = Absent)

\* A node whose radio hears nobody activates itself (active_timeout).
LonelyActivates ==
    \A n \in Node :
        (\A s \in Node \ {n} : <<s, n>> \notin Hears)
            => <>(active[n] \/ life[n] = "dead")

\* Some node of a network without virtual neighbours eventually becomes
\* active, as the comment on VRR_ACTIVE_TIMEOUT says.
SomebodyActivates == <>(\E n \in Node : active[n] \/ life[n] = "dead")
=============================================================================
