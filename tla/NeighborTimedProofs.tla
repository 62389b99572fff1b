------------------------ MODULE NeighborTimedProofs -------------------------
(***************************************************************************)
(* The timed model only restricts when the steps of Neighbor happen, so    *)
(* what is proved of Neighbor for every schedule holds for it too.         *)
(***************************************************************************)
EXTENDS NeighborTimed, NeighborProofs

\* A step of the timed model is a step of Neighbor, or changes only the clock.
LEMMA TimedStep == [TimedNext]_timedVars => [Next]_vars
<1> SUFFICES ASSUME [TimedNext]_timedVars PROVE [Next]_vars
  OBVIOUS
<1> USE DEF Next, Receive
<1>1. ASSUME NEW n \in Node, Tick(n) PROVE Next
  BY <1>1 DEF Tick
<1>2. ASSUME NEW n \in Node, HelloWork(n) PROVE Next
  <2>1. PICK lost \in SUBSET InRange(n) : vrr_workqueue_handler(n, lost)
    BY <1>2 DEF HelloWork
  <2> QED
    BY <2>1
<1>3. ASSUME NEW n \in Node, NEW s \in Node, HelloArrives(s, n) PROVE Next
  <2>1. PICK mem \in BOOLEAN : vrr_rcv_hello(s, n, mem)
    BY <1>3 DEF HelloArrives
  <2> QED
    BY <2>1
<1>4. ASSUME NEW n \in Node,
             \/ Untimed(vrr_init(n)) \/ Untimed(vrr_exit(n))
             \/ Untimed(pset_update_handler(n))
      PROVE  Next
  BY <1>4 DEF Untimed
<1>5. ASSUME NEW n \in Node, NEW src \in Node, NEW joined \in BOOLEAN,
             Untimed(ReceiveOther(n, src, joined))
      PROVE  Next
  BY <1>5 DEF Untimed
<1>6. CASE NewPeriod \/ Stabilise \/ UNCHANGED timedVars
  BY <1>6 DEF NewPeriod, Stabilise, timedVars
<1> QED
  BY <1>1, <1>2, <1>3, <1>4, <1>5, <1>6 DEF TimedNext

\* The timed model implements Neighbor: a common period, losses that end and
\* fair timers allow no behaviour that the untimed model does not have.
THEOREM TimedImplementsNeighbor == TimedSpec => Spec
<1>1. TimedInit => Init
  BY DEF TimedInit
<1> QED
  BY <1>1, TimedStep, PTL DEF TimedSpec, Spec

\* In the runs with liveness the handshake is as safe as in the others: links
\* in both directions only, and join requests only to active neighbours.
THEOREM TimedSafety ==
    TimedSpec => [](BidirectionalLink /\ JoinThroughActiveNeighbor)
BY TimedImplementsNeighbor, BidirectionalLinkAlways,
   JoinThroughActiveNeighborAlways, PTL
=============================================================================
