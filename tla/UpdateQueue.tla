---------------------------- MODULE UpdateQueue -----------------------------
(***************************************************************************)
(* What the list pset_updates promises: the updates of received hellos are *)
(* applied once each and in the order of their arrival.  Once the worker   *)
(* has seen the end of the list, what arrives may be lost, and so may what *)
(* was left over from such a time when the next update arrives.            *)
(***************************************************************************)
EXTENDS Naturals, Sequences

VARIABLES
    queue,    \* numbers of the updates that wait, in order
    applied,  \* number of the update applied last
    sent,     \* number of the update that arrived last
    closing,  \* the worker has seen the end of the list
    weak      \* what waits arrived while the worker was closing

vars == <<queue, applied, sent, closing, weak>>

Init ==
    /\ queue = <<>>
    /\ applied = 0
    /\ sent = 0
    /\ closing = FALSE
    /\ weak = FALSE

\* An update arrives.
Receive ==
    /\ sent' = sent + 1
    /\ \/ /\ ~weak
          /\ queue' = Append(queue, sent')
          /\ UNCHANGED weak
       \/ closing /\ UNCHANGED <<queue, weak>>
       \/ weak /\ UNCHANGED <<queue, weak>>
       \/ weak /\ queue' = <<sent'>> /\ weak' = FALSE
    /\ UNCHANGED <<applied, closing>>

\* The first update is applied.
Apply ==
    /\ queue # <<>>
    /\ applied' = Head(queue)
    /\ queue' = Tail(queue)
    /\ UNCHANGED <<sent, closing, weak>>

\* The worker sees that at most the update in hand is left.
Close ==
    /\ ~closing
    /\ Len(queue) <= 1
    /\ closing' = TRUE
    /\ weak' = FALSE
    /\ UNCHANGED <<queue, applied, sent>>

\* The worker is done.
Open ==
    /\ closing
    /\ closing' = FALSE
    /\ weak' = (queue # <<>>)
    /\ UNCHANGED <<queue, applied, sent>>

Next == Receive \/ Apply \/ Close \/ Open

Spec == Init /\ [][Next]_vars
-----------------------------------------------------------------------------
\* Updates wait in the order of their arrival, behind the one applied last,
\* although some are lost (list_add_tail against INIT_LIST_HEAD at the end of
\* pset_update_handler).
QueueInOrder ==
    /\ \A i \in DOMAIN queue : applied < queue[i] /\ queue[i] <= sent
    /\ \A i, j \in DOMAIN queue : i < j => queue[i] < queue[j]

\* An update is never applied a second time or after a later one.
AppliedOnce == [][applied' # applied => applied' > applied]_vars
=============================================================================
