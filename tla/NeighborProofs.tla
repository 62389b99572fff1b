--------------------------- MODULE NeighborProofs ---------------------------
(***************************************************************************)
(* Proofs about Neighbor, for any set of nodes, any radio graph and any    *)
(* timeouts that satisfy the assumptions.                                  *)
(***************************************************************************)
EXTENDS Neighbor, SequenceTheorems, TLAPS

-----------------------------------------------------------------------------
(***************************************************************************)
(* Types.                                                                  *)
(***************************************************************************)

\* The count of active_timeout stays below the limit until the node is active.
CountingInv ==
    \A n \in Node : ~active[n] => timeout[n] < VRR_ACTIVE_TIMEOUT

\* Inside the loop of pset_update_handler there is an update to apply.
LoopInv == \A n \in Node : worker[n] = "loop" => updates[n] # <<>>

TypeInv == TypeOK /\ CountingInv /\ LoopInv

\* The head and the tail of a list that is not empty.
LEMMA HeadTail ==
    ASSUME NEW S, NEW q \in Seq(S), q # <<>>
    PROVE  /\ Len(q) \in Nat /\ Len(q) >= 1
           /\ Head(q) \in S /\ Head(q) = q[1]
           /\ Tail(q) \in Seq(S)
           /\ Len(Tail(q)) = Len(q) - 1
           /\ \A i \in 1 .. Len(q) - 1 : Tail(q)[i] = q[i + 1]
OBVIOUS

\* One pass of detect_failures turns an entry into an entry.
LEMMA DetectFailureType ==
    ASSUME NEW e \in Entry
    PROVE  DetectFailure(e) \in Entry
<1>1. e.fail_count + 1 \in Nat /\ e.status \in Status /\ e.active \in BOOLEAN
  BY DEF Entry
<1> QED
  BY <1>1 DEF DetectFailure, Entry, Absent, Status

\* The transition table is total: every status and every trans has a successor.
LEMMA HelloTransType ==
    ASSUME NEW s \in Status, NEW t \in Trans
    PROVE  hello_trans[s][t] \in {"linked", "pending", "failed"}
BY DEF hello_trans, Status, Trans

\* One iteration of pset_update_handler turns an entry into an entry of a node
\* that is in the list.
LEMMA ApplyUpdateType ==
    ASSUME NEW e \in Entry, NEW u \in Update
    PROVE  /\ ApplyUpdate(e, u) \in Entry
           /\ ApplyUpdate(e, u).status # "unknown"
           /\ ApplyUpdate(e, u).status = hello_trans[e.status][u.trans]
           /\ ApplyUpdate(e, u).fail_count
                = IF e.status = "unknown" THEN 0 ELSE e.fail_count
<1>1. e.status \in Status /\ e.fail_count \in Nat
  BY DEF Entry
<1>2. u.trans \in Trans /\ u.active \in BOOLEAN
  BY DEF Update
<1>3. hello_trans[e.status][u.trans] \in {"linked", "pending", "failed"}
  BY <1>1, <1>2, HelloTransType
<1> QED
  BY <1>1, <1>2, <1>3 DEF ApplyUpdate, pset_add, pset_update_status, Entry, Status

\* The advertised arrays are sets of nodes.
LEMMA PsetStateType ==
    ASSUME NEW ps
    PROVE  pset_state_update(ps) \in PsetState
BY DEF pset_state_update, PsetState

\* schedule_work yields a queue of work items.
LEMMA ScheduleWorkType ==
    ASSUME NEW q \in Seq(Work), NEW w \in Work
    PROVE  schedule_work(q, w) \in Seq(Work)
BY DEF schedule_work

\* What a hello says about its receiver is one of the three columns.
LEMMA HelloTransColumn ==
    ASSUME NEW h, NEW n
    PROVE  HelloTrans(h, n) \in Trans
BY DEF HelloTrans, Trans

\* A broadcast of a well-formed hello leaves the channels well-formed.
LEMMA BroadcastType ==
    ASSUME net \in [Node -> [Node -> Seq(Hello)]],
           NEW n \in Node, NEW h \in Hello, NEW lost,
           Broadcast(n, h, lost)
    PROVE  net' \in [Node -> [Node -> Seq(Hello)]]
BY DEF Broadcast

\* The state before any node is started has the right types.
LEMMA TypeInit == Init => TypeInv
<1> SUFFICES ASSUME Init PROVE TypeInv
  OBVIOUS
<1>1. VRR_ACTIVE_TIMEOUT \in Nat \ {0}
  BY NeighborAssumption
<1>2. Absent \in Entry
  BY DEF Absent, Entry, Status
<1>3. [la |-> {}, lna |-> {}, p |-> {}] \in PsetState
  BY DEF PsetState
<1>4. TypeOK
  BY <1>1, <1>2, <1>3 DEF Init, TypeOK
<1>5. CountingInv /\ LoopInv
  BY <1>1 DEF Init, CountingInv, LoopInv
<1> QED
  BY <1>4, <1>5 DEF TypeInv

\* Every step keeps the types, one case per action.
LEMMA TypeStep == TypeInv /\ [Next]_vars => TypeInv'
<1> SUFFICES ASSUME TypeInv, [Next]_vars PROVE TypeInv'
  OBVIOUS
<1> USE DEF TypeInv
<1>0. /\ VRR_ACTIVE_TIMEOUT \in Nat \ {0}
      /\ Absent \in Entry
      /\ [la |-> {}, lna |-> {}, p |-> {}] \in PsetState
  BY NeighborAssumption DEF Absent, Entry, Status, PsetState
<1>1. ASSUME NEW n \in Node, vrr_init(n) PROVE TypeInv'
  BY <1>1 DEF vrr_init, TypeOK, CountingInv, LoopInv
<1>2. ASSUME NEW n \in Node, vrr_exit(n) PROVE TypeInv'
  <2>1. TypeOK'
    BY <1>0, <1>2 DEF vrr_exit, TypeOK
  <2>2. CountingInv'
    <3>1. active' = active /\ timeout' = [timeout EXCEPT ![n] = 0]
      BY <1>2 DEF vrr_exit
    <3> QED
      BY <1>0, <3>1 DEF TypeOK, CountingInv
  <2>3. LoopInv'
    <3>1. /\ updates' = [updates EXCEPT ![n] = <<>>]
          /\ worker' = [worker EXCEPT ![n] = "idle"]
      BY <1>2 DEF vrr_exit
    <3> QED
      BY <3>1 DEF TypeOK, LoopInv
  <2> QED
    BY <2>1, <2>2, <2>3
<1>3. ASSUME NEW n \in Node, vrr_timer_tick(n) PROVE TypeInv'
  <2>1. schedule_work(workq[n], "vrr_workqueue") \in Seq(Work)
    BY ScheduleWorkType DEF TypeOK, Work
  <2> QED
    BY <1>3, <2>1 DEF vrr_timer_tick, TypeOK, CountingInv, LoopInv
<1>4. ASSUME NEW n \in Node, NEW lost, vrr_workqueue_handler(n, lost)
      PROVE  TypeInv'
  <2>1. /\ workq' \in [Node -> Seq(Work)]
        /\ UNCHANGED <<life, updates, worker, joins>>
    BY <1>4 DEF vrr_workqueue_handler, TypeOK
  <2>2. pset' \in [Node -> [Node -> Entry]]
    BY <1>4, DetectFailureType
       DEF vrr_workqueue_handler, detect_failures, TypeOK
  <2>3. pstate' \in [Node -> PsetState]
    BY <1>4, PsetStateType DEF vrr_workqueue_handler, TypeOK
  <2>4. /\ timeout' \in [Node -> 0 .. VRR_ACTIVE_TIMEOUT]
        /\ active' \in [Node -> BOOLEAN]
        /\ CountingInv'
    <3>1. /\ active' = [active EXCEPT ![n] =
                          @ \/ timeout[n] + 1 = VRR_ACTIVE_TIMEOUT]
          /\ timeout' = [timeout EXCEPT ![n] =
                           IF active[n] THEN @ ELSE @ + 1]
      BY <1>4 DEF vrr_workqueue_handler, active_timeout
    <3>2. active' \in [Node -> BOOLEAN]
      BY <3>1, ZenonT(20) DEF TypeOK
    <3>3. timeout' \in [Node -> 0 .. VRR_ACTIVE_TIMEOUT]
      BY <3>1, <1>0 DEF TypeOK, CountingInv
    <3>4. ASSUME NEW m \in Node, ~active'[m]
          PROVE  timeout'[m] < VRR_ACTIVE_TIMEOUT
      <4>1. CASE m = n
        <5>1. ~active[n] /\ timeout[n] + 1 # VRR_ACTIVE_TIMEOUT
          BY <3>1, <3>4, <4>1 DEF TypeOK
        <5>2. timeout'[n] = timeout[n] + 1 /\ timeout[n] < VRR_ACTIVE_TIMEOUT
          BY <3>1, <5>1 DEF TypeOK, CountingInv
        <5> QED
          BY <4>1, <5>1, <5>2, <1>0 DEF TypeOK
      <4>2. CASE m # n
        BY <3>1, <3>4, <4>2 DEF TypeOK, CountingInv
      <4> QED
        BY <4>1, <4>2
    <3> QED
      BY <3>2, <3>3, <3>4 DEF CountingInv
  <2>5. net' \in [Node -> [Node -> Seq(Hello)]]
    <3> DEFINE h == send_hpkt(active'[n], pstate'[n])
    <3>1. h \in Hello
      BY <2>3, <2>4 DEF PsetState, Hello, send_hpkt
    <3>2. Broadcast(n, h, lost)
      BY <1>4 DEF vrr_workqueue_handler
    <3> HIDE DEF h
    <3> QED
      BY <3>1, <3>2, BroadcastType DEF TypeOK
  <2> QED
    BY <2>1, <2>2, <2>3, <2>4, <2>5 DEF TypeOK, LoopInv
<1>5. ASSUME NEW n \in Node, NEW s \in Node, NEW mem \in BOOLEAN,
             vrr_rcv_hello(s, n, mem)
      PROVE  TypeInv'
  <2> DEFINE h == Head(net[s][n])
             u == [node |-> s, trans |-> HelloTrans(h, n),
                   active |-> h.active]
  <2>1. h \in Hello /\ Tail(net[s][n]) \in Seq(Hello)
    BY <1>5 DEF vrr_rcv_hello, TypeOK
  <2>2. u \in Update
    BY <2>1, HelloTransColumn DEF Update, Hello
  <2>3. net' \in [Node -> [Node -> Seq(Hello)]]
    BY <1>5, <2>1 DEF vrr_rcv_hello, TypeOK
  <2>4. pset' \in [Node -> [Node -> Entry]]
    <3>1. pset_reset_fail_count(pset[n][s]) \in Entry
      BY DEF pset_reset_fail_count, TypeOK, Entry
    <3> QED
      BY <1>5, <3>1 DEF vrr_rcv_hello, TypeOK
  <2>5. workq' \in [Node -> Seq(Work)]
    <3>1. schedule_work(workq[n], "pset_updates_wq") \in Seq(Work)
      BY ScheduleWorkType DEF TypeOK, Work
    <3> QED
      BY <1>5, <3>1 DEF vrr_rcv_hello, TypeOK
  <2>6. /\ updates' \in [Node -> Seq(Update)]
        /\ LoopInv'
    <3>1. updates[n] \in Seq(Update)
      BY DEF TypeOK
    <3>2. Append(updates[n], u) \in Seq(Update) /\ Append(updates[n], u) # <<>>
      BY <2>2, <3>1
    <3>3. /\ updates' = updates \/ updates' = [updates EXCEPT ![n] = Append(@, u)]
          /\ worker' = worker
      BY <1>5 DEF vrr_rcv_hello
    <3> HIDE DEF u
    <3> QED
      BY <3>2, <3>3 DEF TypeOK, LoopInv
  <2>7. /\ timeout' \in [Node -> 0 .. VRR_ACTIVE_TIMEOUT]
        /\ UNCHANGED <<life, active, pstate, worker, joins>>
    BY <1>5, <1>0 DEF vrr_rcv_hello, TypeOK
  <2>8. CountingInv'
    BY <1>5, <1>0 DEF vrr_rcv_hello, TypeOK, CountingInv
  <2> QED
    BY <2>3, <2>4, <2>5, <2>6, <2>7, <2>8 DEF TypeOK
<1>6. ASSUME NEW n \in Node, NEW src \in Node, NEW joined \in BOOLEAN,
             ReceiveOther(n, src, joined)
      PROVE  TypeInv'
  <2>1. active' \in [Node -> BOOLEAN]
    BY <1>6, ZenonT(20) DEF ReceiveOther, TypeOK
  <2>2. pset' \in [Node -> [Node -> Entry]]
    <3>1. pset_reset_fail_count(pset[n][src]) \in Entry
      BY DEF pset_reset_fail_count, TypeOK, Entry
    <3> QED
      BY <1>6, <3>1 DEF ReceiveOther, TypeOK
  <2>3. timeout' \in [Node -> 0 .. VRR_ACTIVE_TIMEOUT]
    BY <1>6, <1>0 DEF ReceiveOther, TypeOK
  <2>4. UNCHANGED <<life, pstate, updates, workq, worker, net, joins>>
    BY <1>6 DEF ReceiveOther
  <2>5. CountingInv'
    BY <1>6, <1>0 DEF ReceiveOther, TypeOK, CountingInv
  <2> QED
    BY <2>1, <2>2, <2>3, <2>4, <2>5 DEF TypeOK, LoopInv
<1>7. ASSUME NEW n \in Node, PsetUpdateBegin(n) PROVE TypeInv'
  BY <1>7 DEF PsetUpdateBegin, TypeOK, CountingInv, LoopInv
<1>8. ASSUME NEW n \in Node, PsetUpdateStep(n) PROVE TypeInv'
  <2> DEFINE u == Head(updates[n])
             f == ApplyUpdate(pset[n][u.node], u)
  <2>1. updates[n] # <<>>
    BY <1>8 DEF PsetUpdateStep, LoopInv
  <2>2. u \in Update /\ Tail(updates[n]) \in Seq(Update) /\ u.node \in Node
    <3>1. updates[n] \in Seq(Update)
      BY DEF TypeOK
    <3>2. u \in Update /\ Tail(updates[n]) \in Seq(Update)
      BY <2>1, <3>1, HeadTail
    <3> QED
      BY <3>2 DEF Update
  <2>3. f \in Entry
    BY <2>2, ApplyUpdateType DEF TypeOK
  <2>4. pset' = [pset EXCEPT ![n][u.node] = f]
    BY <1>8 DEF PsetUpdateStep
  <2>5. pset' \in [Node -> [Node -> Entry]]
    <3> HIDE DEF u, f
    <3> QED
      BY <2>2, <2>3, <2>4 DEF TypeOK
  <2>6. pstate' \in [Node -> PsetState]
    BY <1>8, PsetStateType DEF PsetUpdateStep, TypeOK
  <2>7. joins' \in [Node -> SUBSET Node]
    BY <1>8, <2>2 DEF PsetUpdateStep, TypeOK
  <2>8. /\ updates' = [updates EXCEPT ![n] = Tail(@)]
        /\ worker' = [worker EXCEPT ![n] =
                        IF Len(updates[n]) = 1 THEN "init" ELSE "loop"]
        /\ UNCHANGED <<life, active, timeout, workq, net>>
    BY <1>8 DEF PsetUpdateStep
  <2>9. LoopInv'
    <3>1. updates[n] \in Seq(Update)
      BY DEF TypeOK
    <3>2. Len(updates[n]) # 1 => Len(Tail(updates[n])) # 0
      BY <2>1, <3>1, HeadTail
    <3>3. Len(updates[n]) # 1 => Tail(updates[n]) # <<>>
      BY <3>2
    <3> QED
      BY <2>8, <3>3 DEF TypeOK, LoopInv
  <2> QED
    BY <2>2, <2>5, <2>6, <2>7, <2>8, <2>9 DEF TypeOK, CountingInv
<1>9. ASSUME NEW n \in Node, PsetUpdateEnd(n) PROVE TypeInv'
  BY <1>9 DEF PsetUpdateEnd, TypeOK, CountingInv, LoopInv
<1>10. CASE UNCHANGED vars
  BY <1>10 DEF vars, TypeOK, CountingInv, LoopInv
<1> QED
  BY <1>1, <1>2, <1>3, <1>4, <1>5, <1>6, <1>7, <1>8, <1>9, <1>10
     DEF Next, Receive, pset_update_handler

\* The variables keep their types, and the loop of pset_update_handler never
\* reads an empty list.
THEOREM TypeInvariance == Spec => []TypeInv
BY TypeInit, TypeStep, PTL DEF Spec

\* Neighbor is type correct: no status outside the table, and an activation
\* count that never passes VRR_ACTIVE_TIMEOUT.
THEOREM TypeCorrect == Spec => []TypeOK
BY TypeInvariance, PTL DEF TypeInv
-----------------------------------------------------------------------------
(***************************************************************************)
(* The failure detector.  An update that waits for the worker must not     *)
(* bring back a neighbour that has been silent for too long.  It cannot,   *)
(* because the work queue is first in, first out and holds each item once: *)
(* between the packet and its update at most one hello period is processed.*)
(***************************************************************************)
V == "vrr_workqueue"
P == "pset_updates_wq"

Queues == {<<>>, <<V>>, <<P>>, <<V, P>>, <<P, V>>}

\* Each work item is pending at most once.
QueueInv == \A n \in Node : workq[n] \in Queues

\* The neighbour of an update that waits was heard at most one processed
\* period ago, and none ago if a period is processed before the update.
WaitingInv ==
    \A n \in Node : \A i \in 1 .. Len(updates[n]) :
        /\ pset[n][updates[n][i].node].fail_count <= 1
        /\ worker[n] = "idle" =>
             \/ workq[n] \in {<<P>>, <<P, V>>}
             \/ /\ workq[n] = <<V, P>>
                /\ pset[n][updates[n][i].node].fail_count = 0

\* SilentIsFailed for one entry; a node that is not in the list has no count.
SilentEntry(e) ==
    /\ e.fail_count >= VRR_FAIL_TIMEOUT => e.status = "failed"
    /\ e.fail_count < 2 * VRR_FAIL_TIMEOUT
    /\ e.status = "unknown" => e.fail_count = 0

EntryInv == \A n, m \in Node : SilentEntry(pset[n][m])

SilentInv == QueueInv /\ WaitingInv /\ EntryInv

\* Appending to a queue of one element.
LEMMA AppendOne ==
    ASSUME NEW x, NEW y
    PROVE  Append(<<x>>, y) = <<x, y>>
<1> DEFINE S == {x, y}
<1>1. <<x>> \in Seq(S) /\ <<x, y>> \in Seq(S) /\ y \in S
  OBVIOUS
<1>2. /\ Append(<<x>>, y) \in Seq(S) /\ Len(Append(<<x>>, y)) = 2
      /\ Append(<<x>>, y)[1] = x /\ Append(<<x>>, y)[2] = y
  BY <1>1
<1>3. Len(<<x, y>>) = 2 /\ <<x, y>>[1] = x /\ <<x, y>>[2] = y
  OBVIOUS
<1> HIDE DEF S
<1>4. \A i \in 1 .. 2 : Append(<<x>>, y)[i] = <<x, y>>[i]
  BY <1>2, <1>3
<1> QED
  BY <1>1, <1>2, <1>3, <1>4, SeqEqual

\* What the two uses of schedule_work do to the five possible queues.
LEMMA ScheduleShapes ==
    ASSUME NEW q \in Queues
    PROVE  /\ schedule_work(q, V) \in Queues
           /\ schedule_work(q, P) \in {<<P>>, <<P, V>>, <<V, P>>}
           /\ q \in {<<P>>, <<P, V>>, <<V, P>>} => schedule_work(q, P) = q
           /\ q \in {<<P>>, <<P, V>>} => schedule_work(q, V) = <<P, V>>
           /\ q = <<V, P>> => schedule_work(q, V) = q
<1>1. CASE q = <<>>
  <2>1. schedule_work(q, V) = <<V>> /\ schedule_work(q, P) = <<P>>
    BY <1>1 DEF schedule_work
  <2> QED
    BY <1>1, <2>1 DEF Queues, V, P
<1>2. CASE q = <<V>>
  <2>1. Len(q) = 1 /\ q[1] = V /\ Append(q, P) = <<V, P>>
    BY <1>2, AppendOne
  <2>2. schedule_work(q, V) = <<V>> /\ schedule_work(q, P) = <<V, P>>
    BY <1>2, <2>1 DEF schedule_work, V, P
  <2> QED
    BY <1>2, <2>1, <2>2 DEF Queues, V, P
<1>3. CASE q = <<P>>
  <2>1. Len(q) = 1 /\ q[1] = P /\ Append(q, V) = <<P, V>>
    BY <1>3, AppendOne
  <2>2. schedule_work(q, V) = <<P, V>> /\ schedule_work(q, P) = <<P>>
    BY <1>3, <2>1 DEF schedule_work, V, P
  <2> QED
    BY <1>3, <2>1, <2>2 DEF Queues, V, P
<1>4. CASE q = <<V, P>>
  <2>1. Len(q) = 2 /\ q[1] = V /\ q[2] = P
    BY <1>4
  <2>2. schedule_work(q, V) = q /\ schedule_work(q, P) = q
    BY <2>1 DEF schedule_work
  <2> QED
    BY <1>4, <2>2, <2>1 DEF Queues, V, P
<1>5. CASE q = <<P, V>>
  <2>1. Len(q) = 2 /\ q[1] = P /\ q[2] = V
    BY <1>5
  <2>2. schedule_work(q, V) = q /\ schedule_work(q, P) = q
    BY <2>1 DEF schedule_work
  <2> QED
    BY <1>5, <2>2, <2>1 DEF Queues, V, P
<1> QED
  BY <1>1, <1>2, <1>3, <1>4, <1>5 DEF Queues

\* What is left of the queue when the worker takes an item.
LEMMA TakeShapes ==
    ASSUME NEW q \in Queues, q # <<>>
    PROVE  /\ Tail(q) \in Queues
           /\ Head(q) = V => q \in {<<V>>, <<V, P>>}
           /\ Head(q) = P => q \in {<<P>>, <<P, V>>}
           /\ q = <<V, P>> => Tail(q) = <<P>>
<1>1. CASE q = <<V>>
  BY <1>1 DEF Queues, V, P
<1>2. CASE q = <<P>>
  BY <1>2 DEF Queues, V, P
<1>3. CASE q = <<V, P>>
  <2>1. Head(q) = V /\ Tail(q) = <<P>>
    BY <1>3
  <2> QED
    BY <1>3, <2>1 DEF Queues, V, P
<1>4. CASE q = <<P, V>>
  <2>1. Head(q) = P /\ Tail(q) = <<V>>
    BY <1>4
  <2>2. Len(q) = 2 /\ q[2] = V
    BY <1>4
  <2> QED
    BY <1>4, <2>1, <2>2 DEF Queues, V, P
<1> QED
  BY <1>1, <1>2, <1>3, <1>4 DEF Queues

\* One pass of detect_failures over one entry.
LEMMA DetectFailureEffect ==
    ASSUME NEW e \in Entry, SilentEntry(e)
    PROVE  /\ SilentEntry(DetectFailure(e))
           /\ e.fail_count = 0 => DetectFailure(e).fail_count <= 1
           /\ e.status # "unknown" /\ DetectFailure(e).status = "unknown"
                => e.status = "failed"
           /\ e.status \in {"failed", "unknown"}
                => DetectFailure(e).status \in {"failed", "unknown"}
           /\ e.status \notin {"failed", "unknown"}
                 /\ e.fail_count + 1 < VRR_FAIL_TIMEOUT
                => /\ DetectFailure(e).status = e.status
                   /\ DetectFailure(e).active = e.active
<1>1. e.fail_count \in Nat /\ e.status \in Status
  BY DEF Entry
<1>2. VRR_FAIL_TIMEOUT \in Nat /\ VRR_FAIL_TIMEOUT >= 2
  BY NeighborAssumption
<1>3. CASE e.status = "unknown" \/ e.fail_count + 1 >= 2 * VRR_FAIL_TIMEOUT
  <2>1. DetectFailure(e) = Absent
    BY <1>3 DEF DetectFailure
  <2>2. /\ DetectFailure(e).status = "unknown"
        /\ DetectFailure(e).fail_count = 0
    BY <2>1 DEF Absent
  <2> QED
    BY <1>1, <1>2, <1>3, <2>2 DEF SilentEntry
<1>4. CASE e.status # "unknown" /\ e.fail_count + 1 < 2 * VRR_FAIL_TIMEOUT
  <2>1. DetectFailure(e) =
          [status |-> IF e.fail_count + 1 >= VRR_FAIL_TIMEOUT THEN "failed"
                                                              ELSE e.status,
           active |-> e.active, fail_count |-> e.fail_count + 1]
    BY <1>1, <1>2, <1>4 DEF DetectFailure
  <2>2. /\ DetectFailure(e).fail_count = e.fail_count + 1
        /\ DetectFailure(e).active = e.active
        /\ DetectFailure(e).status =
             IF e.fail_count + 1 >= VRR_FAIL_TIMEOUT THEN "failed"
                                                     ELSE e.status
    BY <2>1
  <2> QED
    BY <1>1, <1>2, <1>4, <2>2 DEF SilentEntry
<1> QED
  BY <1>1, <1>2, <1>3, <1>4

\* pset_reset_fail_count on one entry.
LEMMA ResetEffect ==
    ASSUME NEW e \in Entry, SilentEntry(e)
    PROVE  /\ pset_reset_fail_count(e).fail_count = 0
           /\ pset_reset_fail_count(e).status = e.status
           /\ pset_reset_fail_count(e).active = e.active
           /\ SilentEntry(pset_reset_fail_count(e))
<1>1. VRR_FAIL_TIMEOUT \in Nat /\ VRR_FAIL_TIMEOUT >= 2
  BY NeighborAssumption
<1> QED
  BY <1>1 DEF pset_reset_fail_count, SilentEntry, Entry

\* Empty queues and empty physical sets.
LEMMA SilentInit == Init => SilentInv
<1> SUFFICES ASSUME Init PROVE SilentInv
  OBVIOUS
<1>1. QueueInv
  BY DEF Init, QueueInv, Queues
<1>2. WaitingInv
  BY DEF Init, WaitingInv
<1>3. VRR_FAIL_TIMEOUT \in Nat /\ VRR_FAIL_TIMEOUT >= 2
  BY NeighborAssumption
<1>4. \A n, m \in Node : pset[n][m].fail_count = 0
  BY DEF Init, Absent
<1>5. EntryInv
  BY <1>3, <1>4 DEF EntryInv, SilentEntry
<1> QED
  BY <1>1, <1>2, <1>5 DEF SilentInv

\* Every step keeps the order of work items, updates and fail counts, one case
\* per action.
LEMMA SilentStep == TypeInv /\ SilentInv /\ [Next]_vars => SilentInv'
<1> SUFFICES ASSUME TypeInv, SilentInv, [Next]_vars PROVE SilentInv'
  OBVIOUS
<1> USE DEF SilentInv
<1>0. VRR_FAIL_TIMEOUT \in Nat /\ VRR_FAIL_TIMEOUT >= 2
  BY NeighborAssumption
<1>t. TypeOK /\ LoopInv
  BY DEF TypeInv
<1>s. \A n, m \in Node : pset[n][m] \in Entry /\ SilentEntry(pset[n][m])
  BY <1>t DEF TypeOK, EntryInv
<1>u. \A n \in Node : /\ updates[n] \in Seq(Update)
                      /\ \A i \in 1 .. Len(updates[n]) :
                            updates[n][i].node \in Node
  <2>1. \A n \in Node : updates[n] \in Seq(Update)
    BY <1>t DEF TypeOK
  <2>2. \A n \in Node : \A i \in 1 .. Len(updates[n]) : updates[n][i] \in Update
    BY <2>1
  <2>3. \A x \in Update : x.node \in Node
    BY DEF Update
  <2> QED
    BY <2>1, <2>2, <2>3
<1>1. ASSUME NEW n \in Node, vrr_init(n) PROVE SilentInv'
  BY <1>1 DEF vrr_init, QueueInv, WaitingInv, EntryInv
<1>2. ASSUME NEW n \in Node, vrr_exit(n) PROVE SilentInv'
  <2>1. /\ pset' = [pset EXCEPT ![n] = [m \in Node |-> Absent]]
        /\ updates' = [updates EXCEPT ![n] = <<>>]
        /\ workq' = [workq EXCEPT ![n] = <<>>]
        /\ worker' = [worker EXCEPT ![n] = "idle"]
    BY <1>2 DEF vrr_exit
  <2>2. QueueInv'
    BY <1>t, <2>1 DEF TypeOK, QueueInv, Queues
  <2>3. WaitingInv'
    BY <1>t, <2>1 DEF TypeOK, WaitingInv
  <2>4. EntryInv'
    <3>1. SilentEntry(Absent)
      BY <1>0 DEF SilentEntry, Absent
    <3>2. \A k, m \in Node : pset'[k][m] = Absent \/ pset'[k][m] = pset[k][m]
      BY <1>t, <2>1 DEF TypeOK
    <3> QED
      BY <1>s, <3>1, <3>2 DEF EntryInv
  <2> QED
    BY <2>2, <2>3, <2>4
<1>3. ASSUME NEW n \in Node, vrr_timer_tick(n) PROVE SilentInv'
  <2>1. /\ workq' = [workq EXCEPT ![n] = schedule_work(workq[n], V)]
        /\ UNCHANGED <<pset, updates, worker>>
    BY <1>3 DEF vrr_timer_tick, V
  <2>2. workq[n] \in Queues
    BY DEF QueueInv
  <2>3. QueueInv'
    BY <1>t, <2>1, <2>2, ScheduleShapes DEF TypeOK, QueueInv
  <2>4. WaitingInv'
    <3>1. /\ workq[n] \in {<<P>>, <<P, V>>} => workq'[n] \in {<<P>>, <<P, V>>}
          /\ workq[n] = <<V, P>> => workq'[n] = <<V, P>>
          /\ \A m \in Node : m # n => workq'[m] = workq[m]
      <4>1. /\ workq'[n] = schedule_work(workq[n], V)
            /\ \A m \in Node : m # n => workq'[m] = workq[m]
        BY <1>t, <2>1 DEF TypeOK
      <4> QED
        BY <2>2, <4>1, ScheduleShapes
    <3> QED
      BY <2>1, <3>1 DEF WaitingInv
  <2> QED
    BY <2>1, <2>3, <2>4 DEF EntryInv
<1>4. ASSUME NEW n \in Node, NEW lost, vrr_workqueue_handler(n, lost)
      PROVE  SilentInv'
  <2>1. /\ workq[n] # <<>> /\ Head(workq[n]) = V /\ worker[n] = "idle"
        /\ workq' = [workq EXCEPT ![n] = Tail(workq[n])]
        /\ pset' = [pset EXCEPT ![n] = [m \in Node |-> DetectFailure(pset[n][m])]]
        /\ UNCHANGED <<updates, worker>>
    BY <1>4 DEF vrr_workqueue_handler, detect_failures, V
  <2>2. workq[n] \in Queues
    BY DEF QueueInv
  <2>3. QueueInv'
    BY <1>t, <2>1, <2>2, TakeShapes DEF TypeOK, QueueInv
  <2>4. \A m \in Node : pset'[n][m] = DetectFailure(pset[n][m])
    BY <1>t, <2>1 DEF TypeOK
  <2>5. \A k \in Node : k # n => pset'[k] = pset[k] /\ workq'[k] = workq[k]
    BY <1>t, <2>1 DEF TypeOK
  <2>6. EntryInv'
    <3> SUFFICES ASSUME NEW k \in Node, NEW m \in Node
                 PROVE  SilentEntry(pset'[k][m])
      BY DEF EntryInv
    <3>1. CASE k = n
      BY <1>s, <2>4, <3>1, DetectFailureEffect
    <3>2. CASE k # n
      BY <1>s, <2>5, <3>2
    <3> QED
      BY <3>1, <3>2
  <2>7. WaitingInv'
    <3> SUFFICES ASSUME NEW k \in Node, NEW i \in 1 .. Len(updates[k])
                 PROVE  /\ pset'[k][updates[k][i].node].fail_count <= 1
                        /\ worker[k] = "idle" =>
                            \/ workq'[k] \in {<<P>>, <<P, V>>}
                            \/ /\ workq'[k] = <<V, P>>
                               /\ pset'[k][updates[k][i].node].fail_count = 0
      BY <2>1 DEF WaitingInv
    <3>1. CASE k = n
      <4>1. workq[n] = <<V, P>> /\ pset[n][updates[n][i].node].fail_count = 0
        BY <2>1, <2>2, <3>1, TakeShapes DEF WaitingInv, V, P
      <4>2. workq'[n] = <<P>>
        BY <1>t, <2>1, <2>2, <4>1, TakeShapes DEF TypeOK
      <4>3. updates[n][i].node \in Node
        BY <1>u, <3>1
      <4>4. DetectFailure(pset[n][updates[n][i].node]).fail_count <= 1
        BY <1>s, <4>1, <4>3, DetectFailureEffect
      <4> QED
        BY <2>4, <3>1, <4>2, <4>3, <4>4
    <3>2. CASE k # n
      BY <2>5, <3>2 DEF WaitingInv
    <3> QED
      BY <3>1, <3>2
  <2> QED
    BY <2>3, <2>6, <2>7
<1>5. ASSUME NEW n \in Node, NEW s \in Node, NEW mem \in BOOLEAN,
             vrr_rcv_hello(s, n, mem)
      PROVE  SilentInv'
  <2> DEFINE u == [node |-> s, trans |-> HelloTrans(Head(net[s][n]), n),
                   active |-> Head(net[s][n]).active]
  <2>1. /\ pset' = [pset EXCEPT ![n][s] = pset_reset_fail_count(pset[n][s])]
        /\ UNCHANGED worker
        /\ \/ /\ updates' = [updates EXCEPT ![n] = Append(updates[n], u)]
              /\ workq' = [workq EXCEPT ![n] = schedule_work(workq[n], P)]
           \/ UNCHANGED <<updates, workq>>
    BY <1>5 DEF vrr_rcv_hello, P
  <2>2. workq[n] \in Queues
    BY DEF QueueInv
  <2>3. QueueInv'
    <3>1. schedule_work(workq[n], P) \in Queues
      BY <2>2, ScheduleShapes DEF Queues
    <3> QED
      BY <1>t, <2>1, <3>1 DEF TypeOK, QueueInv
  <2>4. pset'[n][s].fail_count = 0 /\ SilentEntry(pset'[n][s])
    BY <1>0, <1>s, <1>t, <2>1, ResetEffect DEF TypeOK
  <2>5. \A k, m \in Node : <<k, m>> # <<n, s>> => pset'[k][m] = pset[k][m]
    BY <1>t, <2>1 DEF TypeOK
  <2>6. EntryInv'
    BY <1>s, <2>4, <2>5 DEF EntryInv
  <2>7. WaitingInv'
    <3> SUFFICES ASSUME NEW k \in Node, NEW i \in 1 .. Len(updates'[k])
                 PROVE  /\ pset'[k][updates'[k][i].node].fail_count <= 1
                        /\ worker[k] = "idle" =>
                            \/ workq'[k] \in {<<P>>, <<P, V>>}
                            \/ /\ workq'[k] = <<V, P>>
                               /\ pset'[k][updates'[k][i].node].fail_count = 0
      BY <2>1 DEF WaitingInv
    <3>1. CASE updates'[k] = updates[k]
      <4>1. updates[k][i].node \in Node
        BY <1>u, <3>1
      <4>2. \/ pset'[k][updates[k][i].node] = pset[k][updates[k][i].node]
            \/ pset'[k][updates[k][i].node].fail_count = 0
        BY <2>4, <2>5, <4>1
      <4>3. worker[k] = "idle" => workq'[k] = workq[k]
        <5>1. CASE k # n
          BY <1>t, <2>1, <5>1 DEF TypeOK
        <5>2. CASE k = n /\ worker[k] = "idle"
          <6>1. workq[n] \in {<<P>>, <<P, V>>, <<V, P>>}
            BY <3>1, <5>2 DEF WaitingInv
          <6>2. schedule_work(workq[n], P) = workq[n]
            BY <2>2, <6>1, ScheduleShapes
          <6> QED
            BY <1>t, <2>1, <5>2, <6>2 DEF TypeOK
        <5> QED
          BY <5>1, <5>2
      <4> QED
        BY <3>1, <4>2, <4>3 DEF WaitingInv
    <3>2. CASE updates'[k] # updates[k]
      <4>1. /\ k = n
            /\ updates'[n] = Append(updates[n], u)
            /\ workq'[n] = schedule_work(workq[n], P)
        <5> HIDE DEF u
        <5> QED
          BY <1>t, <2>1, <3>2 DEF TypeOK
      <4>2. workq'[n] \in {<<P>>, <<P, V>>, <<V, P>>}
        BY <2>2, <4>1, ScheduleShapes
      <4>3. CASE i = Len(updates[n]) + 1
        <5>1. updates'[n][i] = u
          <6> HIDE DEF u
          <6> QED
            BY <1>u, <4>1, <4>3
        <5>2. updates'[n][i].node = s
          BY <5>1
        <5> QED
          BY <2>4, <4>1, <4>2, <5>2
      <4>4. CASE i # Len(updates[n]) + 1
        <5>1. i \in 1 .. Len(updates[n]) /\ updates'[n][i] = updates[n][i]
          <6> HIDE DEF u
          <6> QED
            BY <1>u, <4>1, <4>4
        <5>2. updates[n][i].node \in Node
          BY <1>u, <5>1
        <5>3. \/ pset'[n][updates[n][i].node] = pset[n][updates[n][i].node]
              \/ pset'[n][updates[n][i].node].fail_count = 0
          BY <2>4, <2>5, <5>2
        <5>4. worker[n] = "idle" => workq'[n] = workq[n]
          <6>1. worker[n] = "idle" =>
                  workq[n] \in {<<P>>, <<P, V>>, <<V, P>>}
            BY <5>1 DEF WaitingInv
          <6> QED
            BY <2>2, <4>1, <6>1, ScheduleShapes
        <5>5. /\ pset[n][updates[n][i].node].fail_count <= 1
              /\ worker[n] = "idle" =>
                   \/ workq[n] \in {<<P>>, <<P, V>>}
                   \/ /\ workq[n] = <<V, P>>
                      /\ pset[n][updates[n][i].node].fail_count = 0
          BY <5>1 DEF WaitingInv
        <5>6. k = n
          BY <4>1
        <5>7. /\ pset'[n][updates[n][i].node].fail_count <= 1
              /\ worker[n] = "idle" =>
                   \/ workq'[n] \in {<<P>>, <<P, V>>}
                   \/ /\ workq'[n] = <<V, P>>
                      /\ pset'[n][updates[n][i].node].fail_count = 0
          <6>1. CASE pset'[n][updates[n][i].node] = pset[n][updates[n][i].node]
            BY <5>4, <5>5, <6>1
          <6>2. CASE pset'[n][updates[n][i].node].fail_count = 0
            BY <4>2, <6>2
          <6> QED
            BY <5>3, <6>1, <6>2
        <5> QED
          BY <5>1, <5>6, <5>7
      <4> QED
        BY <4>3, <4>4
    <3> QED
      BY <3>1, <3>2
  <2> QED
    BY <2>3, <2>6, <2>7
<1>6. ASSUME NEW n \in Node, NEW src \in Node, NEW joined \in BOOLEAN,
             ReceiveOther(n, src, joined)
      PROVE  SilentInv'
  <2>1. /\ pset' = [pset EXCEPT ![n][src] = pset_reset_fail_count(pset[n][src])]
        /\ UNCHANGED <<updates, workq, worker>>
    BY <1>6 DEF ReceiveOther
  <2>2. pset'[n][src].fail_count = 0 /\ SilentEntry(pset'[n][src])
    BY <1>0, <1>s, <1>t, <2>1, ResetEffect DEF TypeOK
  <2>3. \A k, m \in Node : <<k, m>> # <<n, src>> => pset'[k][m] = pset[k][m]
    BY <1>t, <2>1 DEF TypeOK
  <2>4. EntryInv'
    BY <1>s, <2>2, <2>3 DEF EntryInv
  <2>5. \A k, m \in Node : \/ pset'[k][m].fail_count = 0
                           \/ pset'[k][m] = pset[k][m]
    BY <2>2, <2>3
  <2>6. WaitingInv'
    BY <1>u, <2>1, <2>5 DEF WaitingInv
  <2> QED
    BY <2>1, <2>4, <2>6 DEF QueueInv
<1>7. ASSUME NEW n \in Node, PsetUpdateBegin(n) PROVE SilentInv'
  <2>1. /\ workq[n] # <<>> /\ Head(workq[n]) = P /\ worker[n] = "idle"
        /\ workq' = [workq EXCEPT ![n] = Tail(workq[n])]
        /\ worker' = [worker EXCEPT ![n] =
                        IF updates[n] = <<>> THEN "init" ELSE "loop"]
        /\ UNCHANGED <<pset, updates>>
    BY <1>7 DEF PsetUpdateBegin, P
  <2>2. workq[n] \in Queues
    BY DEF QueueInv
  <2>3. QueueInv'
    BY <1>t, <2>1, <2>2, TakeShapes DEF TypeOK, QueueInv
  <2>4. WaitingInv'
    BY <1>t, <2>1 DEF TypeOK, WaitingInv
  <2> QED
    BY <2>1, <2>3, <2>4 DEF EntryInv
<1>8. ASSUME NEW n \in Node, PsetUpdateStep(n) PROVE SilentInv'
  <2> DEFINE u == Head(updates[n])
             f == ApplyUpdate(pset[n][u.node], u)
  <2>1. updates[n] \in Seq(Update) /\ updates[n] # <<>>
    BY <1>8, <1>t DEF PsetUpdateStep, LoopInv, TypeOK
  <2>2. u \in Update /\ u.node \in Node /\ u = updates[n][1]
    <3>1. u \in Update /\ u = updates[n][1]
      BY <2>1, HeadTail
    <3> QED
      BY <3>1 DEF Update
  <2>3. /\ pset' = [pset EXCEPT ![n][u.node] = f]
        /\ updates' = [updates EXCEPT ![n] = Tail(updates[n])]
        /\ worker' = [worker EXCEPT ![n] =
                        IF Len(updates[n]) = 1 THEN "init" ELSE "loop"]
        /\ workq' = workq
    BY <1>8 DEF PsetUpdateStep
  <2>4. f.fail_count = pset[n][u.node].fail_count /\ f.status # "unknown"
    <3>1. /\ pset[n][u.node] \in Entry
          /\ pset[n][u.node].status = "unknown"
                => pset[n][u.node].fail_count = 0
      BY <1>s, <2>2 DEF SilentEntry
    <3> QED
      BY <2>2, <3>1, ApplyUpdateType
  <2>5. f.fail_count <= 1
    <3>1. 1 \in 1 .. Len(updates[n])
      BY <2>1, HeadTail
    <3> QED
      BY <2>2, <2>4, <3>1 DEF WaitingInv
  <2>6. /\ pset'[n][u.node] = f
        /\ \A k, m \in Node : <<k, m>> # <<n, u.node>> => pset'[k][m] = pset[k][m]
    <3> HIDE DEF u, f
    <3> QED
      BY <1>t, <2>2, <2>3 DEF TypeOK
  <2>7. \A k, m \in Node : pset'[k][m].fail_count = pset[k][m].fail_count
    BY <2>4, <2>6
  <2>8. EntryInv'
    <3>1. pset[n][u.node].fail_count \in Nat
      BY <1>s, <2>2 DEF Entry
    <3>2. SilentEntry(f)
      <4> HIDE DEF u, f
      <4> QED
        BY <1>0, <2>4, <2>5, <3>1 DEF SilentEntry
    <3> QED
      BY <1>s, <2>6, <3>2 DEF EntryInv
  <2>9. WaitingInv'
    <3> SUFFICES ASSUME NEW k \in Node, NEW i \in 1 .. Len(updates'[k])
                 PROVE  /\ pset'[k][updates'[k][i].node].fail_count <= 1
                        /\ worker'[k] = "idle" =>
                            \/ workq[k] \in {<<P>>, <<P, V>>}
                            \/ /\ workq[k] = <<V, P>>
                               /\ pset'[k][updates'[k][i].node].fail_count = 0
      BY <2>3 DEF WaitingInv
    <3>1. CASE k = n
      <4>1. updates'[n] = Tail(updates[n]) /\ worker'[n] # "idle"
        BY <1>t, <2>3 DEF TypeOK
      <4>2. i + 1 \in 1 .. Len(updates[n]) /\ updates'[n][i] = updates[n][i + 1]
        BY <2>1, <3>1, <4>1, HeadTail
      <4>3. updates[n][i + 1].node \in Node
        BY <1>u, <4>2
      <4>4. pset[n][updates[n][i + 1].node].fail_count <= 1
        BY <4>2 DEF WaitingInv
      <4> QED
        BY <2>7, <3>1, <4>1, <4>2, <4>3, <4>4
    <3>2. CASE k # n
      <4>1. updates'[k] = updates[k] /\ worker'[k] = worker[k]
        BY <1>t, <2>3, <3>2 DEF TypeOK
      <4>2. updates[k][i].node \in Node
        BY <1>u, <4>1
      <4> QED
        BY <2>7, <4>1, <4>2 DEF WaitingInv
    <3> QED
      BY <3>1, <3>2
  <2> QED
    BY <2>3, <2>8, <2>9 DEF QueueInv
<1>9. ASSUME NEW n \in Node, PsetUpdateEnd(n) PROVE SilentInv'
  <2>1. /\ updates' = [updates EXCEPT ![n] = <<>>]
        /\ worker' = [worker EXCEPT ![n] = "idle"]
        /\ UNCHANGED <<pset, workq>>
    BY <1>9 DEF PsetUpdateEnd
  <2>2. WaitingInv'
    BY <1>t, <2>1 DEF TypeOK, WaitingInv
  <2> QED
    BY <2>1, <2>2 DEF QueueInv, EntryInv
<1>10. CASE UNCHANGED vars
  BY <1>10 DEF vars, QueueInv, WaitingInv, EntryInv
<1> QED
  BY <1>1, <1>2, <1>3, <1>4, <1>5, <1>6, <1>7, <1>8, <1>9, <1>10
     DEF Next, Receive, pset_update_handler

\* The failure detector: a neighbour silent for VRR_FAIL_TIMEOUT processed
\* periods is failed and is forgotten before twice that, for every network and
\* every schedule of packets, timer and worker.
THEOREM SilentIsFailedAlways == Spec => []SilentIsFailed
<1>1. SilentInv => SilentIsFailed
  BY DEF SilentInv, EntryInv, SilentEntry, SilentIsFailed
<1> QED
  BY SilentInit, SilentStep, TypeInvariance, <1>1, PTL DEF Spec

\* detect_failures never deletes an entry that was usable before the pass, and
\* nothing else deletes one while the node runs.
THEOREM OnlyFailedForgottenAlways == Spec => OnlyFailedForgotten
<1> DEFINE A == \A n, m \in Node :
                  (life'[n] = "on" /\ pset[n][m].status # "unknown"
                                   /\ pset'[n][m].status = "unknown")
                     => pset[n][m].status = "failed"
<1>1. TypeInv /\ SilentInv /\ [Next]_vars => [A]_vars
  <2> SUFFICES ASSUME TypeInv, SilentInv, Next,
                      NEW k \in Node, NEW m \in Node,
                      life'[k] = "on",
                      pset[k][m].status # "unknown",
                      pset'[k][m].status = "unknown"
               PROVE  pset[k][m].status = "failed"
    OBVIOUS
  <2>t. TypeOK /\ LoopInv
    BY DEF TypeInv
  <2>s. pset[k][m] \in Entry /\ SilentEntry(pset[k][m])
    BY <2>t DEF TypeOK, SilentInv, EntryInv
  <2>1. ASSUME NEW n \in Node, vrr_exit(n) PROVE FALSE
    <3>1. /\ life' = [life EXCEPT ![n] = "dead"]
          /\ pset' = [pset EXCEPT ![n] = [j \in Node |-> Absent]]
      BY <2>1 DEF vrr_exit
    <3> QED
      BY <2>t, <3>1 DEF TypeOK
  <2>2. ASSUME NEW n \in Node, NEW lost, vrr_workqueue_handler(n, lost)
        PROVE  pset[k][m].status = "failed"
    <3>1. pset'[k][m] = DetectFailure(pset[k][m]) \/ pset'[k][m] = pset[k][m]
      BY <2>2, <2>t DEF vrr_workqueue_handler, detect_failures, TypeOK
    <3> QED
      BY <2>s, <3>1, DetectFailureEffect
  <2>3. ASSUME NEW n \in Node, NEW j \in Node,
               pset' = [pset EXCEPT ![n][j] = pset_reset_fail_count(pset[n][j])]
        PROVE  FALSE
    <3>1. \/ pset'[k][m] = pset[k][m]
          \/ pset'[k][m] = pset_reset_fail_count(pset[k][m])
      BY <2>3, <2>t DEF TypeOK
    <3> QED
      BY <2>s, <3>1, ResetEffect
  <2>4. ASSUME NEW n \in Node, PsetUpdateStep(n) PROVE FALSE
    <3> DEFINE u == Head(updates[n])
               f == ApplyUpdate(pset[n][u.node], u)
    <3>1. updates[n] \in Seq(Update) /\ updates[n] # <<>>
      BY <2>4, <2>t DEF PsetUpdateStep, LoopInv, TypeOK
    <3>2. u \in Update
      BY <3>1, HeadTail
    <3>3. u.node \in Node
      BY <3>2 DEF Update
    <3>4. f.status # "unknown"
      BY <2>t, <3>2, <3>3, ApplyUpdateType DEF TypeOK
    <3>5. pset' = [pset EXCEPT ![n][u.node] = f]
      BY <2>4 DEF PsetUpdateStep
    <3> HIDE DEF u, f
    <3>6. pset'[k][m] = pset[k][m] \/ pset'[k][m] = f
      BY <2>t, <3>3, <3>5 DEF TypeOK
    <3> QED
      BY <3>4, <3>6
  <2>5. CASE UNCHANGED pset
    BY <2>5
  <2>6. ASSUME NEW n \in Node,
               vrr_init(n) \/ vrr_timer_tick(n) \/ PsetUpdateBegin(n)
                 \/ PsetUpdateEnd(n)
        PROVE  UNCHANGED pset
    BY <2>6 DEF vrr_init, vrr_timer_tick, PsetUpdateBegin, PsetUpdateEnd
  <2>7. ASSUME NEW n \in Node, Receive(n) PROVE FALSE
    BY <2>3, <2>7 DEF Receive, vrr_rcv_hello, ReceiveOther
  <2> QED
    BY <2>1, <2>2, <2>4, <2>5, <2>6, <2>7 DEF Next, pset_update_handler
<1>2. Spec => []SilentInv
  BY SilentInit, SilentStep, TypeInvariance, PTL DEF Spec
<1> QED
  BY <1>1, <1>2, TypeInvariance, PTL DEF Spec, OnlyFailedForgotten
-----------------------------------------------------------------------------
(***************************************************************************)
(* The advertised arrays.                                                  *)
(***************************************************************************)

\* The arrays depend only on the status and the active flag of usable entries.
LEMMA SameArrays ==
    ASSUME NEW ps, NEW qs,
           \A m \in Node :
              \/ ps[m].status = qs[m].status /\ ps[m].active = qs[m].active
              \/ /\ ps[m].status \notin {"linked", "pending"}
                 /\ qs[m].status \notin {"linked", "pending"}
    PROVE  pset_state_update(ps) = pset_state_update(qs)
<1>1. {m \in Node : ps[m].status = "linked" /\ ps[m].active}
        = {m \in Node : qs[m].status = "linked" /\ qs[m].active}
  OBVIOUS
<1>2. {m \in Node : ps[m].status = "linked" /\ ~ps[m].active}
        = {m \in Node : qs[m].status = "linked" /\ ~qs[m].active}
  OBVIOUS
<1>3. {m \in Node : ps[m].status = "pending"}
        = {m \in Node : qs[m].status = "pending"}
  OBVIOUS
<1> QED
  BY <1>1, <1>2, <1>3 DEF pset_state_update

\* Every step leaves the arrays of node k equal to what its set says: the code
\* that changes a status without refreshing them deletes only failed entries.
LEMMA FreshStep ==
    TypeInv /\ SilentInv /\ PstateFresh /\ [Next]_vars => PstateFresh'
<1> SUFFICES ASSUME TypeInv, SilentInv, PstateFresh, [Next]_vars,
                    NEW k \in Node
             PROVE  pstate'[k] = pset_state_update(pset'[k])
  BY DEF PstateFresh, pset_state_update
<1>0. pstate[k] = pset_state_update(pset[k])
  BY DEF PstateFresh
<1>t. TypeOK /\ LoopInv
  BY DEF TypeInv
<1>s. \A m \in Node : pset[k][m] \in Entry /\ SilentEntry(pset[k][m])
  BY <1>t DEF TypeOK, SilentInv, EntryInv
<1>1. ASSUME NEW n \in Node, vrr_exit(n)
      PROVE  pstate'[k] = pset_state_update(pset'[k])
  <2>1. /\ pset' = [pset EXCEPT ![n] = [m \in Node |-> Absent]]
        /\ pstate' = [pstate EXCEPT ![n] = [la |-> {}, lna |-> {}, p |-> {}]]
    BY <1>1 DEF vrr_exit
  <2>2. CASE k = n
    <3>1. \A m \in Node : pset'[k][m].status = "unknown"
      BY <1>t, <2>1, <2>2 DEF TypeOK, Absent
    <3>2. pset_state_update(pset'[k]) = [la |-> {}, lna |-> {}, p |-> {}]
      BY <3>1 DEF pset_state_update
    <3> QED
      BY <1>t, <2>1, <2>2, <3>2 DEF TypeOK
  <2>3. CASE k # n
    BY <1>0, <1>t, <2>1, <2>3 DEF TypeOK
  <2> QED
    BY <2>2, <2>3
<1>2. ASSUME NEW n \in Node, NEW lost, vrr_workqueue_handler(n, lost)
      PROVE  pstate'[k] = pset_state_update(pset'[k])
  <2>1. /\ pset' = [pset EXCEPT ![n] = [m \in Node |-> DetectFailure(pset[n][m])]]
        /\ pstate' = [pstate EXCEPT ![n] =
                        IF MarksFailure(pset[n])
                        THEN pset_state_update(pset'[n]) ELSE pstate[n]]
    BY <1>2 DEF vrr_workqueue_handler, detect_failures
  <2>2. CASE k = n /\ MarksFailure(pset[n])
    BY <1>t, <2>1, <2>2 DEF TypeOK
  <2>3. CASE k = n /\ ~MarksFailure(pset[n])
    <3>1. pstate'[k] = pstate[k]
      BY <1>t, <2>1, <2>3 DEF TypeOK
    <3>2. \A m \in Node : pset'[k][m] = DetectFailure(pset[k][m])
      BY <1>t, <2>1, <2>3 DEF TypeOK
    <3>3. ASSUME NEW m \in Node
          PROVE  \/ /\ pset[k][m].status = pset'[k][m].status
                    /\ pset[k][m].active = pset'[k][m].active
                 \/ /\ pset[k][m].status \notin {"linked", "pending"}
                    /\ pset'[k][m].status \notin {"linked", "pending"}
      <4>1. CASE pset[k][m].status \in {"failed", "unknown"}
        BY <1>s, <3>2, <4>1, DetectFailureEffect
      <4>2. CASE pset[k][m].status \notin {"failed", "unknown"}
        <5>1. ~(pset[k][m].fail_count + 1 >= VRR_FAIL_TIMEOUT)
          BY <2>3, <4>2 DEF MarksFailure
        <5>2. pset[k][m].fail_count + 1 < VRR_FAIL_TIMEOUT
          BY <1>s, <5>1, NeighborAssumption DEF Entry
        <5> QED
          BY <1>s, <3>2, <4>2, <5>2, DetectFailureEffect
      <4> QED
        BY <4>1, <4>2
    <3> QED
      BY <1>0, <3>1, <3>3, SameArrays
  <2>4. CASE k # n
    BY <1>0, <1>t, <2>1, <2>4 DEF TypeOK
  <2> QED
    BY <2>2, <2>3, <2>4
<1>3. ASSUME NEW n \in Node, NEW j \in Node, pstate' = pstate,
             pset' = [pset EXCEPT ![n][j] = pset_reset_fail_count(pset[n][j])]
      PROVE  pstate'[k] = pset_state_update(pset'[k])
  <2>1. \A m \in Node : \/ pset'[k][m] = pset[k][m]
                        \/ pset'[k][m] = pset_reset_fail_count(pset[k][m])
    BY <1>3, <1>t DEF TypeOK
  <2>2. \A m \in Node : /\ pset'[k][m].status = pset[k][m].status
                        /\ pset'[k][m].active = pset[k][m].active
    BY <1>s, <2>1, ResetEffect
  <2>3. pset_state_update(pset[k]) = pset_state_update(pset'[k])
    BY <2>2, SameArrays
  <2> QED
    BY <1>0, <1>3, <2>3
<1>4. ASSUME NEW n \in Node, PsetUpdateStep(n)
      PROVE  pstate'[k] = pset_state_update(pset'[k])
  <2> DEFINE u == Head(updates[n])
             e == pset[n][u.node]
             f == ApplyUpdate(e, u)
  <2>1. updates[n] \in Seq(Update) /\ updates[n] # <<>>
    BY <1>4, <1>t DEF PsetUpdateStep, LoopInv, TypeOK
  <2>2. u \in Update
    BY <2>1, HeadTail
  <2>3. u.node \in Node
    BY <2>2 DEF Update
  <2>4. /\ pset' = [pset EXCEPT ![n][u.node] = f]
        /\ pstate' = [pstate EXCEPT ![n] =
                        IF e # f THEN pset_state_update(pset'[n]) ELSE pstate[n]]
    BY <1>4 DEF PsetUpdateStep
  <2>5. e = pset[n][u.node]
    OBVIOUS
  <2> HIDE DEF u, e, f
  <2>6. CASE k = n /\ e # f
    BY <1>t, <2>4, <2>6 DEF TypeOK
  <2>7. CASE k = n /\ e = f
    BY <1>0, <1>t, <2>3, <2>4, <2>5, <2>7 DEF TypeOK
  <2>8. CASE k # n
    BY <1>0, <1>t, <2>4, <2>8 DEF TypeOK
  <2> QED
    BY <2>6, <2>7, <2>8
<1>5. CASE UNCHANGED <<pset, pstate>>
  BY <1>0, <1>5
<1>6. ASSUME NEW n \in Node,
             vrr_init(n) \/ vrr_timer_tick(n) \/ PsetUpdateBegin(n)
               \/ PsetUpdateEnd(n)
      PROVE  UNCHANGED <<pset, pstate>>
  BY <1>6 DEF vrr_init, vrr_timer_tick, PsetUpdateBegin, PsetUpdateEnd
<1>7. ASSUME NEW n \in Node, Receive(n)
      PROVE  pstate'[k] = pset_state_update(pset'[k])
  BY <1>3, <1>7 DEF Receive, vrr_rcv_hello, ReceiveOther
<1>8. CASE UNCHANGED vars
  BY <1>5, <1>8 DEF vars
<1> QED
  BY <1>1, <1>2, <1>4, <1>5, <1>6, <1>7, <1>8 DEF Next, pset_update_handler

\* What a node advertises is always its current physical set: detect_failures
\* and pset_update_handler refresh the arrays whenever they have to.
THEOREM PstateFreshAlways == Spec => []PstateFresh
<1>1. Init => PstateFresh
  <2> SUFFICES ASSUME Init, NEW n \in Node
               PROVE  pstate[n] = pset_state_update(pset[n])
    BY DEF PstateFresh
  <2>1. \A m \in Node : pset[n][m].status = "unknown"
    BY DEF Init, Absent
  <2>2. pset_state_update(pset[n]) = [la |-> {}, lna |-> {}, p |-> {}]
    BY <2>1 DEF pset_state_update
  <2> QED
    BY <2>2 DEF Init
<1>2. Spec => []SilentInv
  BY SilentInit, SilentStep, TypeInvariance, PTL DEF Spec
<1> QED
  BY <1>1, <1>2, FreshStep, TypeInvariance, PTL DEF Spec
-----------------------------------------------------------------------------
(***************************************************************************)
(* The handshake.  A link is learned through a chain: n hears m, so n      *)
(* lists m in its hellos; m hears n, finds itself listed, and only then    *)
(* knows that the link works both ways.                                    *)
(***************************************************************************)

\* A hello h of s at d: d is in range, it lists d only if s hears d, and it
\* claims to come from an active node only if s is active.
HelloOK(act, s, d, h) ==
    /\ <<s, d>> \in Hears
    /\ d \in h.la \cup h.lna \cup h.p => <<d, s>> \in Hears
    /\ h.active => act[s]

\* The same for an update u that waits at n.
UpdateOK(act, n, u) ==
    /\ <<u.node, n>> \in Hears
    /\ u.trans # "missing" => <<n, u.node>> \in Hears
    /\ u.active => act[u.node]

ChannelInv ==
    \A s, d \in Node : \A i \in 1 .. Len(net[s][d]) :
        HelloOK(active, s, d, net[s][d][i])

UpdateInv ==
    \A n \in Node : \A i \in 1 .. Len(updates[n]) :
        UpdateOK(active, n, updates[n][i])

HeardEntry(n, m, status) ==
    /\ status # "unknown" => <<m, n>> \in Hears
    /\ status = "linked" => <<n, m>> \in Hears

HeardInv == \A n, m \in Node : HeardEntry(n, m, pset[n][m].status)

LinkInv ==
    ChannelInv /\ UpdateInv /\ HeardInv /\ JoinThroughActiveNeighbor

\* A node that is active stays active.
LEMMA ActiveStays ==
    ASSUME TypeOK, [Next]_vars, NEW m \in Node, active[m]
    PROVE  active'[m]
<1>1. ASSUME NEW n \in Node, NEW lost, vrr_workqueue_handler(n, lost)
      PROVE  active'[m]
  <2>1. active' = [active EXCEPT ![n] =
                     @ \/ timeout[n] + 1 = VRR_ACTIVE_TIMEOUT]
    BY <1>1 DEF vrr_workqueue_handler, active_timeout
  <2> QED
    BY <2>1 DEF TypeOK
<1>2. ASSUME NEW n \in Node, NEW src \in Node, NEW joined \in BOOLEAN,
             ReceiveOther(n, src, joined)
      PROVE  active'[m]
  <2>1. active' = [active EXCEPT ![n] = @ \/ joined]
    BY <1>2 DEF ReceiveOther
  <2> QED
    BY <2>1 DEF TypeOK
<1>3. CASE UNCHANGED active
  BY <1>3
<1>4. ASSUME NEW n \in Node, NEW s \in Node, NEW mem \in BOOLEAN,
             vrr_rcv_hello(s, n, mem)
      PROVE  UNCHANGED active
  BY <1>4 DEF vrr_rcv_hello
<1>5. ASSUME NEW n \in Node,
             vrr_init(n) \/ vrr_exit(n) \/ vrr_timer_tick(n)
               \/ PsetUpdateBegin(n) \/ PsetUpdateStep(n) \/ PsetUpdateEnd(n)
      PROVE  UNCHANGED active
  BY <1>5 DEF vrr_init, vrr_exit, vrr_timer_tick, PsetUpdateBegin,
              PsetUpdateStep, PsetUpdateEnd
<1>6. CASE UNCHANGED vars
  BY <1>3, <1>6 DEF vars
<1> QED
  BY <1>1, <1>2, <1>3, <1>4, <1>5, <1>6 DEF Next, Receive, pset_update_handler

\* The table links only a sender that says it knows us.
LEMMA LinkNeedsListing ==
    ASSUME NEW s \in Status, NEW t \in Trans, hello_trans[s][t] = "linked"
    PROVE  t # "missing"
BY DEF hello_trans, Status, Trans

\* No hello, no update, no neighbour and no join request.
LEMMA LinkInit == Init => LinkInv
<1> SUFFICES ASSUME Init PROVE LinkInv
  OBVIOUS
<1>1. ChannelInv /\ UpdateInv
  BY DEF Init, ChannelInv, UpdateInv
<1>2. \A n, m \in Node : pset[n][m].status = "unknown"
  BY DEF Init, Absent
<1>3. HeardInv
  BY <1>2 DEF HeardInv, HeardEntry
<1>4. JoinThroughActiveNeighbor
  BY DEF Init, JoinThroughActiveNeighbor
<1> QED
  BY <1>1, <1>3, <1>4 DEF LinkInv

\* The messages: a broadcast adds only hellos that are true, a receive or a
\* stop only removes hellos.
LEMMA ChannelStep ==
    TypeInv /\ TypeInv' /\ LinkInv /\ PstateFresh' /\ HeardInv' /\ [Next]_vars
        => ChannelInv'
<1> SUFFICES ASSUME TypeInv, TypeInv', LinkInv, PstateFresh', HeardInv',
                    [Next]_vars,
                    NEW s \in Node, NEW d \in Node,
                    NEW i \in 1 .. Len(net'[s][d])
             PROVE  HelloOK(active', s, d, net'[s][d][i])
  BY DEF ChannelInv
<1>t. TypeOK /\ TypeOK'
  BY DEF TypeInv
<1>q. net[s][d] \in Seq(Hello) /\ net'[s][d] \in Seq(Hello)
  BY <1>t DEF TypeOK
<1>o. ASSUME NEW j \in 1 .. Len(net[s][d])
      PROVE  HelloOK(active', s, d, net[s][d][j])
  <2>1. HelloOK(active, s, d, net[s][d][j])
    BY DEF LinkInv, ChannelInv
  <2> QED
    BY <1>t, <2>1, ActiveStays DEF HelloOK
<1>1. CASE net'[s][d] = net[s][d]
  BY <1>o, <1>1
<1>2. CASE net'[s][d] = <<>>
  BY <1>2
<1>3. CASE net[s][d] # <<>> /\ net'[s][d] = Tail(net[s][d])
  <2>1. i + 1 \in 1 .. Len(net[s][d]) /\ net'[s][d][i] = net[s][d][i + 1]
    BY <1>q, <1>3, HeadTail
  <2> QED
    BY <1>o, <2>1
<1>4. ASSUME NEW n \in Node, NEW lost, vrr_workqueue_handler(n, lost)
      PROVE  HelloOK(active', s, d, net'[s][d][i])
  <2> DEFINE h == send_hpkt(active'[n], pstate'[n])
  <2>1. Broadcast(n, h, lost)
    BY <1>4 DEF vrr_workqueue_handler
  <2>2. CASE s = n /\ d \in InRange(n) /\ net'[s][d] = Append(net[s][d], h)
    <3>1. HelloOK(active', s, d, h)
      <4>1. <<s, d>> \in Hears
        BY <2>2 DEF InRange
      <4>2. d \in h.la \cup h.lna \cup h.p => pset'[n][d].status # "unknown"
        <5>1. pstate'[n] = pset_state_update(pset'[n])
          BY DEF PstateFresh, pset_state_update
        <5>2. /\ h.la = {m \in Node : pset'[n][m].status = "linked" /\ pset'[n][m].active}
              /\ h.lna = {m \in Node : pset'[n][m].status = "linked" /\ ~pset'[n][m].active}
              /\ h.p = {m \in Node : pset'[n][m].status = "pending"}
          BY <5>1 DEF pset_state_update, send_hpkt
        <5> HIDE DEF h
        <5> QED
          BY <5>2
      <4>3. pset'[n][d].status # "unknown" => <<d, n>> \in Hears
        BY DEF HeardInv, HeardEntry
      <4>4. h.active => active'[s]
        BY <2>2 DEF send_hpkt
      <4> HIDE DEF h
      <4> QED
        BY <2>2, <4>1, <4>2, <4>3, <4>4 DEF HelloOK
    <3> HIDE DEF h
    <3>2. CASE i = Len(net[s][d]) + 1
      <4>1. net'[s][d][i] = h
        BY <1>q, <2>2, <3>2
      <4> QED
        BY <3>1, <4>1
    <3>3. CASE i # Len(net[s][d]) + 1
      <4>1. i \in 1 .. Len(net[s][d]) /\ net'[s][d][i] = net[s][d][i]
        BY <1>q, <2>2, <3>3
      <4> QED
        BY <1>o, <4>1
    <3> QED
      BY <3>2, <3>3
  <2>3. \/ net'[s][d] = net[s][d]
        \/ s = n /\ d \in InRange(n) /\ net'[s][d] = Append(net[s][d], h)
    <3> HIDE DEF h
    <3> QED
      BY <1>t, <2>1 DEF Broadcast, TypeOK
  <2> QED
    BY <1>1, <2>2, <2>3
<1>5. ASSUME NEW n \in Node, NEW r \in Node, NEW mem \in BOOLEAN,
             vrr_rcv_hello(r, n, mem)
      PROVE  HelloOK(active', s, d, net'[s][d][i])
  <2>1. net[r][n] # <<>> /\ net' = [net EXCEPT ![r][n] = Tail(net[r][n])]
    BY <1>5 DEF vrr_rcv_hello
  <2>2. \/ net'[s][d] = net[s][d]
        \/ net[s][d] # <<>> /\ net'[s][d] = Tail(net[s][d])
    BY <1>t, <2>1 DEF TypeOK
  <2> QED
    BY <1>1, <1>3, <2>2
<1>6. ASSUME NEW n \in Node, vrr_exit(n)
      PROVE  HelloOK(active', s, d, net'[s][d][i])
  <2>1. net' = [r \in Node |-> [net[r] EXCEPT ![n] = <<>>]]
    BY <1>6 DEF vrr_exit
  <2>2. net'[s][d] = net[s][d] \/ net'[s][d] = <<>>
    BY <1>t, <2>1 DEF TypeOK
  <2> QED
    BY <1>1, <1>2, <2>2
<1>7. ASSUME NEW n \in Node,
             \/ vrr_init(n) \/ vrr_timer_tick(n) \/ PsetUpdateBegin(n)
             \/ PsetUpdateStep(n) \/ PsetUpdateEnd(n)
             \/ \E src \in Node, joined \in BOOLEAN : ReceiveOther(n, src, joined)
      PROVE  UNCHANGED net
  BY <1>7 DEF vrr_init, vrr_timer_tick, PsetUpdateBegin, PsetUpdateStep,
              PsetUpdateEnd, ReceiveOther
<1>8. CASE UNCHANGED net
  BY <1>1, <1>8
<1>9. CASE UNCHANGED vars
  BY <1>8, <1>9 DEF vars
<1> QED
  BY <1>4, <1>5, <1>6, <1>7, <1>8, <1>9 DEF Next, Receive, pset_update_handler

\* The updates: one is added from a hello that is true, others are applied or
\* lost.
LEMMA UpdateStep ==
    TypeInv /\ LinkInv /\ [Next]_vars => UpdateInv'
<1> SUFFICES ASSUME TypeInv, LinkInv, [Next]_vars,
                    NEW k \in Node, NEW i \in 1 .. Len(updates'[k])
             PROVE  UpdateOK(active', k, updates'[k][i])
  BY DEF UpdateInv
<1>t. TypeOK /\ LoopInv
  BY DEF TypeInv
<1>q. updates[k] \in Seq(Update)
  BY <1>t DEF TypeOK
<1>o. ASSUME NEW j \in 1 .. Len(updates[k])
      PROVE  UpdateOK(active', k, updates[k][j])
  <2>1. UpdateOK(active, k, updates[k][j])
    BY DEF LinkInv, UpdateInv
  <2>2. updates[k][j] \in Update
    BY <1>q
  <2>3. updates[k][j].node \in Node
    BY <2>2 DEF Update
  <2> QED
    BY <1>t, <2>1, <2>3, ActiveStays DEF UpdateOK
<1>1. CASE updates'[k] = updates[k]
  BY <1>o, <1>1
<1>2. CASE updates'[k] = <<>>
  BY <1>2
<1>3. ASSUME NEW n \in Node, PsetUpdateStep(n)
      PROVE  UpdateOK(active', k, updates'[k][i])
  <2>1. /\ updates' = [updates EXCEPT ![n] = Tail(updates[n])]
        /\ updates[n] # <<>>
    BY <1>3, <1>t DEF PsetUpdateStep, LoopInv
  <2>2. CASE k = n
    <3>1. updates'[k] = Tail(updates[k]) /\ updates[k] # <<>>
      BY <1>t, <2>1, <2>2 DEF TypeOK
    <3>2. i + 1 \in 1 .. Len(updates[k]) /\ updates'[k][i] = updates[k][i + 1]
      BY <1>q, <3>1, HeadTail
    <3> QED
      BY <1>o, <3>2
  <2>3. CASE k # n
    BY <1>t, <1>1, <2>1, <2>3 DEF TypeOK
  <2> QED
    BY <2>2, <2>3
<1>4. ASSUME NEW n \in Node, NEW s \in Node, NEW mem \in BOOLEAN,
             vrr_rcv_hello(s, n, mem)
      PROVE  UpdateOK(active', k, updates'[k][i])
  <2> DEFINE h == Head(net[s][n])
             u == [node |-> s, trans |-> HelloTrans(h, n), active |-> h.active]
  <2>1. /\ net[s][n] # <<>>
        /\ active' = active
        /\ \/ updates' = [updates EXCEPT ![n] = Append(updates[n], u)]
           \/ updates' = updates
    BY <1>4 DEF vrr_rcv_hello
  <2>2. net[s][n] \in Seq(Hello)
    BY <1>t DEF TypeOK
  <2>3. HelloOK(active, s, n, h)
    <3>1. 1 \in 1 .. Len(net[s][n]) /\ h = net[s][n][1]
      BY <2>1, <2>2, HeadTail
    <3> QED
      BY <3>1 DEF LinkInv, ChannelInv
  <2>4. UpdateOK(active', n, u)
    <3>1. HelloTrans(h, n) # "missing" => n \in h.la \cup h.lna \cup h.p
      BY DEF HelloTrans
    <3>2. u.node = s /\ u.trans = HelloTrans(h, n) /\ u.active = h.active
      OBVIOUS
    <3> HIDE DEF h, u
    <3> QED
      BY <2>1, <2>3, <3>1, <3>2 DEF HelloOK, UpdateOK
  <2> HIDE DEF u
  <2>5. CASE k = n /\ updates'[k] = Append(updates[k], u)
    <3>1. CASE i = Len(updates[k]) + 1
      <4>1. updates'[k][i] = u
        BY <1>q, <2>5, <3>1
      <4> QED
        BY <2>4, <2>5, <4>1
    <3>2. CASE i # Len(updates[k]) + 1
      <4>1. i \in 1 .. Len(updates[k]) /\ updates'[k][i] = updates[k][i]
        BY <1>q, <2>5, <3>2
      <4> QED
        BY <1>o, <4>1
    <3> QED
      BY <3>1, <3>2
  <2>6. \/ updates'[k] = updates[k]
        \/ k = n /\ updates'[k] = Append(updates[k], u)
    BY <1>t, <2>1 DEF TypeOK
  <2> QED
    BY <1>1, <2>5, <2>6
<1>5. ASSUME NEW n \in Node, vrr_exit(n) \/ PsetUpdateEnd(n)
      PROVE  UpdateOK(active', k, updates'[k][i])
  <2>1. updates' = [updates EXCEPT ![n] = <<>>]
    BY <1>5 DEF vrr_exit, PsetUpdateEnd
  <2>2. updates'[k] = updates[k] \/ updates'[k] = <<>>
    BY <1>t, <2>1 DEF TypeOK
  <2> QED
    BY <1>1, <1>2, <2>2
<1>6. ASSUME NEW n \in Node,
             \/ vrr_init(n) \/ vrr_timer_tick(n) \/ PsetUpdateBegin(n)
             \/ \E lost \in SUBSET InRange(n) : vrr_workqueue_handler(n, lost)
             \/ \E src \in Node, joined \in BOOLEAN : ReceiveOther(n, src, joined)
      PROVE  UNCHANGED updates
  BY <1>6 DEF vrr_init, vrr_timer_tick, PsetUpdateBegin,
              vrr_workqueue_handler, ReceiveOther
<1>7. CASE UNCHANGED updates
  BY <1>1, <1>7
<1>8. CASE UNCHANGED vars
  BY <1>7, <1>8 DEF vars
<1> QED
  BY <1>3, <1>4, <1>5, <1>6, <1>7, <1>8 DEF Next, Receive, pset_update_handler

\* The physical set and the join requests: an entry becomes linked only by an
\* update that is true.
LEMMA HeardStep ==
    TypeInv /\ SilentInv /\ LinkInv /\ [Next]_vars
        => HeardInv' /\ JoinThroughActiveNeighbor'
<1> SUFFICES ASSUME TypeInv, SilentInv, LinkInv, [Next]_vars
             PROVE  HeardInv' /\ JoinThroughActiveNeighbor'
  OBVIOUS
<1>t. TypeOK /\ LoopInv
  BY DEF TypeInv
<1>s. \A k, m \in Node : /\ pset[k][m] \in Entry
                         /\ SilentEntry(pset[k][m])
                         /\ HeardEntry(k, m, pset[k][m].status)
  BY <1>t DEF TypeOK, SilentInv, EntryInv, LinkInv, HeardInv
<1>j. ASSUME \A k \in Node : joins'[k] \subseteq joins[k]
      PROVE  JoinThroughActiveNeighbor'
  <2> SUFFICES ASSUME NEW k \in Node, NEW m \in joins'[k]
               PROVE  active'[m] /\ {<<k, m>>, <<m, k>>} \subseteq Hears
    BY DEF JoinThroughActiveNeighbor
  <2>1. m \in joins[k] /\ m \in Node
    BY <1>j, <1>t DEF TypeOK
  <2>2. active[m] /\ {<<k, m>>, <<m, k>>} \subseteq Hears
    BY <2>1 DEF LinkInv, JoinThroughActiveNeighbor
  <2> QED
    BY <1>t, <2>1, <2>2, ActiveStays
<1>1. ASSUME NEW n \in Node, vrr_exit(n)
      PROVE  HeardInv' /\ JoinThroughActiveNeighbor'
  <2>1. /\ pset' = [pset EXCEPT ![n] = [m \in Node |-> Absent]]
        /\ joins' = [joins EXCEPT ![n] = {}]
    BY <1>1 DEF vrr_exit
  <2>2. \A k, m \in Node : \/ pset'[k][m] = pset[k][m]
                           \/ pset'[k][m].status = "unknown"
    BY <1>t, <2>1 DEF TypeOK, Absent
  <2>3. HeardInv'
    BY <1>s, <2>2 DEF HeardInv, HeardEntry
  <2>4. \A k \in Node : joins'[k] \subseteq joins[k]
    BY <1>t, <2>1 DEF TypeOK
  <2>5. JoinThroughActiveNeighbor'
    BY <1>j, <2>4
  <2> QED
    BY <2>3, <2>5
<1>2. ASSUME NEW n \in Node, NEW lost, vrr_workqueue_handler(n, lost)
      PROVE  HeardInv' /\ JoinThroughActiveNeighbor'
  <2>1. /\ pset' = [pset EXCEPT ![n] = [m \in Node |-> DetectFailure(pset[n][m])]]
        /\ joins' = joins
    BY <1>2 DEF vrr_workqueue_handler, detect_failures
  <2>2. \A k, m \in Node : \/ pset'[k][m] = pset[k][m]
                           \/ pset'[k][m] = DetectFailure(pset[k][m])
    BY <1>t, <2>1 DEF TypeOK
  <2>3. \A k, m \in Node : \/ pset'[k][m].status = pset[k][m].status
                           \/ /\ pset'[k][m].status = "failed"
                              /\ pset[k][m].status # "unknown"
                           \/ pset'[k][m].status = "unknown"
    <3>1. ASSUME NEW e
          PROVE  \/ DetectFailure(e).status = e.status
                 \/ DetectFailure(e).status = "failed" /\ e.status # "unknown"
                 \/ DetectFailure(e).status = "unknown"
      BY DEF DetectFailure, Absent
    <3> QED
      BY <2>2, <3>1
  <2>4. HeardInv'
    BY <1>s, <2>3 DEF HeardInv, HeardEntry
  <2> QED
    BY <1>j, <2>1, <2>4
<1>3. ASSUME NEW n \in Node, NEW j \in Node, joins' = joins,
             pset' = [pset EXCEPT ![n][j] = pset_reset_fail_count(pset[n][j])]
      PROVE  HeardInv' /\ JoinThroughActiveNeighbor'
  <2>1. \A k, m \in Node : \/ pset'[k][m] = pset[k][m]
                           \/ pset'[k][m] = pset_reset_fail_count(pset[k][m])
    BY <1>3, <1>t DEF TypeOK
  <2>2. \A k, m \in Node : pset'[k][m].status = pset[k][m].status
    BY <1>s, <2>1, ResetEffect
  <2>3. HeardInv'
    BY <1>s, <2>2 DEF HeardInv
  <2> QED
    BY <1>j, <1>3, <2>3
<1>4. ASSUME NEW n \in Node, PsetUpdateStep(n)
      PROVE  HeardInv' /\ JoinThroughActiveNeighbor'
  <2> DEFINE u == Head(updates[n])
             f == ApplyUpdate(pset[n][u.node], u)
  <2>1. updates[n] \in Seq(Update) /\ updates[n] # <<>>
    BY <1>4, <1>t DEF PsetUpdateStep, LoopInv, TypeOK
  <2>2. u \in Update /\ 1 \in 1 .. Len(updates[n]) /\ u = updates[n][1]
    BY <2>1, HeadTail
  <2>3. u.node \in Node /\ u.trans \in Trans
    BY <2>2 DEF Update
  <2>4. UpdateOK(active, n, u)
    BY <2>2 DEF LinkInv, UpdateInv
  <2>5. HeardEntry(n, u.node, f.status)
    <3>1. pset[n][u.node] \in Entry
      BY <1>s, <2>3
    <3>2. pset[n][u.node].status \in Status
      BY <3>1 DEF Entry
    <3>3. f.status = hello_trans[pset[n][u.node].status][u.trans]
      BY <2>2, <3>1, ApplyUpdateType
    <3>4. f.status = "linked" => u.trans # "missing"
      BY <2>3, <3>2, <3>3, LinkNeedsListing
    <3> HIDE DEF u, f
    <3> QED
      BY <2>4, <3>4 DEF UpdateOK, HeardEntry
  <2>6. /\ pset' = [pset EXCEPT ![n][u.node] = f]
        /\ active' = active
        /\ joins' = [joins EXCEPT ![n] =
                       IF JoinsThrough(active[n], u, f.status)
                       THEN joins[n] \cup {u.node} ELSE joins[n]]
    BY <1>4 DEF PsetUpdateStep
  <2>7. JoinsThrough(active[n], u, f.status) => u.active /\ f.status = "linked"
    BY DEF JoinsThrough
  <2> HIDE DEF u, f
  <2>8. \A k, m \in Node : \/ pset'[k][m] = pset[k][m]
                           \/ k = n /\ m = u.node /\ pset'[k][m] = f
    BY <1>t, <2>3, <2>6 DEF TypeOK
  <2>9. HeardInv'
    BY <1>s, <2>5, <2>8 DEF HeardInv
  <2>10. JoinThroughActiveNeighbor'
    <3> SUFFICES ASSUME NEW k \in Node, NEW m \in joins'[k]
                 PROVE  active'[m] /\ {<<k, m>>, <<m, k>>} \subseteq Hears
      BY DEF JoinThroughActiveNeighbor
    <3>1. CASE m \in joins[k]
      BY <2>6, <3>1 DEF LinkInv, JoinThroughActiveNeighbor
    <3>2. CASE m \notin joins[k]
      <4>1. k = n /\ m = u.node /\ JoinsThrough(active[n], u, f.status)
        BY <1>t, <2>6, <3>2 DEF TypeOK
      <4>2. u.active /\ f.status = "linked"
        BY <2>7, <4>1
      <4>3. active'[m]
        BY <2>4, <2>6, <4>1, <4>2 DEF UpdateOK
      <4>4. {<<k, m>>, <<m, k>>} \subseteq Hears
        BY <2>5, <4>1, <4>2 DEF HeardEntry
      <4> QED
        BY <4>3, <4>4
    <3> QED
      BY <3>1, <3>2
  <2> QED
    BY <2>9, <2>10
<1>5. CASE UNCHANGED <<pset, joins>>
  BY <1>j, <1>s, <1>5 DEF HeardInv
<1>6. ASSUME NEW n \in Node,
             vrr_init(n) \/ vrr_timer_tick(n) \/ PsetUpdateBegin(n)
               \/ PsetUpdateEnd(n)
      PROVE  UNCHANGED <<pset, joins>>
  BY <1>6 DEF vrr_init, vrr_timer_tick, PsetUpdateBegin, PsetUpdateEnd
<1>7. ASSUME NEW n \in Node, Receive(n)
      PROVE  HeardInv' /\ JoinThroughActiveNeighbor'
  BY <1>3, <1>7 DEF Receive, vrr_rcv_hello, ReceiveOther
<1>8. CASE UNCHANGED vars
  BY <1>5, <1>8 DEF vars
<1> QED
  BY <1>1, <1>2, <1>4, <1>5, <1>6, <1>7, <1>8 DEF Next, pset_update_handler

\* What hellos, waiting updates, entries and join requests say stays true.
THEOREM LinkInvariance == Spec => []LinkInv
<1>1. TypeInv /\ TypeInv' /\ SilentInv /\ PstateFresh' /\ LinkInv /\ [Next]_vars
        => LinkInv'
  BY ChannelStep, UpdateStep, HeardStep DEF LinkInv
<1>2. Spec => []SilentInv
  BY SilentInit, SilentStep, TypeInvariance, PTL DEF Spec
<1> QED
  BY <1>1, <1>2, LinkInit, TypeInvariance, PstateFreshAlways, PTL DEF Spec

\* The handshake links two nodes only if the radio works in both directions,
\* for every radio graph and every loss, delay and failure.
THEOREM BidirectionalLinkAlways == Spec => []BidirectionalLink
<1>1. LinkInv => BidirectionalLink
  BY DEF LinkInv, HeardInv, HeardEntry, BidirectionalLink
<1> QED
  BY <1>1, LinkInvariance, PTL

\* A join request goes only to an active node that hears us and that we hear.
THEOREM JoinThroughActiveNeighborAlways == Spec => []JoinThroughActiveNeighbor
<1>1. LinkInv => JoinThroughActiveNeighbor
  BY DEF LinkInv
<1> QED
  BY <1>1, LinkInvariance, PTL
=============================================================================
