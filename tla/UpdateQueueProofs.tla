------------------------- MODULE UpdateQueueProofs --------------------------
(***************************************************************************)
(* The promise of the list of updates, proved for any number of updates.   *)
(* UpdateList implements UpdateQueue, so it holds of the list as well.     *)
(***************************************************************************)
EXTENDS UpdateQueue, TLAPS

QueueType ==
    /\ queue \in Seq(Nat)
    /\ applied \in Nat
    /\ sent \in Nat
    /\ applied <= sent

\* The numbers of the updates are numbers, and the applied one has arrived.
QueueInv == QueueType /\ QueueInOrder

LEMMA QueueInit == Init => QueueInv
BY DEF Init, QueueInv, QueueType, QueueInOrder

LEMMA QueueStep == QueueInv /\ [Next]_vars => QueueInv'
<1> SUFFICES ASSUME QueueInv, [Next]_vars PROVE QueueInv'
  OBVIOUS
<1> USE DEF QueueInv, QueueType, QueueInOrder
<1>1. ASSUME Receive PROVE QueueInv'
  <2>1. sent' = sent + 1 /\ applied' = applied
    BY <1>1 DEF Receive
  <2>2. CASE queue' = queue
    BY <2>1, <2>2
  <2>3. CASE queue' = <<sent'>>
    BY <2>1, <2>3
  <2>4. CASE queue' = Append(queue, sent')
    BY <2>1, <2>4
  <2> QED
    BY <1>1, <2>2, <2>3, <2>4 DEF Receive
<1>2. ASSUME Apply PROVE QueueInv'
  <2>1. applied' = queue[1] /\ queue' = Tail(queue) /\ sent' = sent /\ Len(queue) > 0
    BY <1>2 DEF Apply
  <2>2. /\ queue' \in Seq(Nat) /\ Len(queue') = Len(queue) - 1
        /\ \A i \in 1 .. Len(queue') : queue'[i] = queue[i + 1] /\ i + 1 \in 1 .. Len(queue)
    BY <2>1
  <2>3. 1 \in DOMAIN queue /\ DOMAIN queue' = 1 .. Len(queue')
    BY <2>1, <2>2
  <2>a. \A k \in DOMAIN queue' :
           /\ k \in Nat /\ 1 < k + 1 /\ k + 1 \in DOMAIN queue
           /\ queue'[k] = queue[k + 1]
    BY <2>2, <2>3
  <2>4. ASSUME NEW i \in DOMAIN queue'
        PROVE  applied' < queue'[i] /\ queue'[i] <= sent'
    <3>1. queue[1] < queue[i + 1] /\ queue[i + 1] <= sent
      BY <2>3, <2>a
    <3> QED
      BY <2>1, <2>a, <3>1, ZenonT(10)
  <2>5. ASSUME NEW i \in DOMAIN queue', NEW j \in DOMAIN queue', i < j
        PROVE  queue'[i] < queue'[j]
    <3>1. i \in Nat /\ j \in Nat
      BY <2>a, ZenonT(10)
    <3>2. i + 1 < j + 1
      BY <2>5, <3>1
    <3>3. i + 1 \in DOMAIN queue /\ j + 1 \in DOMAIN queue
      BY <2>a, ZenonT(10)
    <3>4. queue[i + 1] < queue[j + 1]
      BY <3>2, <3>3
    <3> QED
      BY <2>a, <3>4, ZenonT(10)
  <2>6. queue[1] \in Nat /\ queue[1] <= sent
    BY <2>3
  <2> QED
    BY <2>1, <2>2, <2>4, <2>5, <2>6
<1>3. ASSUME Close \/ Open \/ UNCHANGED vars PROVE QueueInv'
  BY <1>3 DEF Close, Open, vars
<1> QED
  BY <1>1, <1>2, <1>3 DEF Next

\* Whatever is lost at the end of pset_update_handler, the updates that wait
\* are in the order of the hellos.
THEOREM QueueInOrderAlways == Spec => []QueueInOrder
<1>1. QueueInv => QueueInOrder
  BY DEF QueueInv
<1> QED
  BY <1>1, QueueInit, QueueStep, PTL DEF Spec

\* No update is applied twice or after a later one.
THEOREM AppliedOnceAlways == Spec => AppliedOnce
<1>1. QueueInv /\ [Next]_vars => [applied' # applied => applied' > applied]_vars
  <2> SUFFICES ASSUME QueueInv, Next, applied' # applied PROVE applied' > applied
    OBVIOUS
  <2>1. Apply
    BY DEF Next, Receive, Close, Open
  <2> QED
    BY <2>1 DEF Apply, QueueInv, QueueType, QueueInOrder
<1> QED
  BY <1>1, QueueInit, QueueStep, PTL DEF Spec, AppliedOnce
=============================================================================
