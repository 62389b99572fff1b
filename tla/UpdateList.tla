----------------------------- MODULE UpdateList -----------------------------
(***************************************************************************)
(* The list pset_updates of one node, pointer by pointer (vrr_input.c).    *)
(* The receive softirq appends to it without a lock (pset_updates_lock is  *)
(* never taken) while the worker walks it in pset_update_handler, unlinks  *)
(* and frees its entries and initialises its head.  On one processor the   *)
(* softirq runs between any two memory accesses of the worker, and is not  *)
(* interrupted by it.                                                      *)
(***************************************************************************)
EXTENDS Naturals, Sequences, FiniteSets, SequencesExt

CONSTANTS
    Cell,       \* addresses kmalloc hands out
    HEAD,       \* address of pset_updates
    POISON,     \* what list_del writes into an entry it unlinked
    MaxUpdates  \* bound: hellos that arrive

ASSUME ListAssumption ==
    /\ IsFiniteSet(Cell)
    /\ HEAD \notin Cell
    /\ POISON \notin Cell \cup {HEAD}
    /\ MaxUpdates \in Nat

VARIABLES
    next,     \* next[a], prev[a]: the pointers of the entry at a
    prev,
    num,      \* num[c]: number of the update at c, 0 if c is free
    work,     \* pset_updates_wq is pending
    pc,       \* what the worker does next
    pos,      \* its loop variables
    q,
    before,   \* neighbours of the entry it unlinks
    after,
    sent,     \* number of the update that arrived last
    applied   \* number of the update applied last

vars == <<next, prev, num, work, pc, pos, q, before, after, sent, applied>>

Address == Cell \cup {HEAD}
Pointer == Address \cup {POISON}

TypeOK ==
    /\ next \in [Address -> Pointer]
    /\ prev \in [Address -> Pointer]
    /\ num \in [Cell -> 0 .. MaxUpdates]
    /\ work \in BOOLEAN
    /\ pc \in {"idle", "fetch", "apply", "del", "unlink_prev", "unlink_next",
               "free", "init_next", "init_prev"}
    /\ {pos, q, before, after} \subseteq Pointer
    /\ sent \in 0 .. MaxUpdates
    /\ applied \in 0 .. MaxUpdates

\* vrr_init_rcv
Init ==
    /\ next = [a \in Address |-> IF a = HEAD THEN HEAD ELSE POISON]
    /\ prev = next
    /\ num = [c \in Cell |-> 0]
    /\ work = FALSE
    /\ pc = "idle"
    /\ pos = HEAD /\ q = HEAD /\ before = HEAD /\ after = HEAD
    /\ sent = 0
    /\ applied = 0
-----------------------------------------------------------------------------
\* Faulty: list_add, at the head.
list_add_tail_head(c) ==
    /\ next' = [next EXCEPT ![HEAD] = c, ![c] = next[HEAD]]
    /\ prev' = [prev EXCEPT ![next[HEAD]] = c, ![c] = HEAD]

list_add_tail(c) ==
    /\ next' = [next EXCEPT ![c] = HEAD, ![prev[HEAD]] = c]
    /\ prev' = [prev EXCEPT ![c] = prev[HEAD], ![HEAD] = c]

\* A hello arrives and its update is appended; without memory it is dropped.
vrr_rcv_hello(c) ==
    /\ sent < MaxUpdates
    /\ num[c] = 0
    /\ sent' = sent + 1
    /\ num' = [num EXCEPT ![c] = sent']
    /\ list_add_tail(c)
    /\ work' = TRUE
    /\ UNCHANGED <<pc, pos, q, before, after, applied>>

\* The worker starts and reads the first entry.
Begin ==
    /\ pc = "idle" /\ work
    /\ work' = FALSE
    /\ pos' = next[HEAD]
    /\ pc' = "fetch"
    /\ UNCHANGED <<next, prev, num, q, before, after, sent, applied>>

\* list_for_each_safe reads the successor before the entry is dealt with.
Fetch ==
    /\ pc = "fetch"
    /\ q' = next[pos]
    /\ pc' = IF pos = HEAD THEN "init_next" ELSE "apply"
    /\ UNCHANGED <<next, prev, num, work, pos, before, after, sent, applied>>

ApplyUpdate ==
    /\ pc = "apply"
    /\ applied' = num[pos]
    /\ pc' = "del"
    /\ UNCHANGED <<next, prev, num, work, pos, q, before, after, sent>>

\* list_del: both neighbours are read, then written one after the other.
ListDel ==
    \/ /\ pc = "del"
       /\ before' = prev[pos] /\ after' = next[pos]
       /\ pc' = "unlink_prev"
       /\ UNCHANGED <<next, prev, num, work, pos, q, sent, applied>>
    \/ /\ pc = "unlink_prev"
       /\ prev' = [prev EXCEPT ![after] = before]
       /\ pc' = "unlink_next"
       /\ UNCHANGED <<next, num, work, pos, q, before, after, sent, applied>>
    \/ /\ pc = "unlink_next"
       /\ next' = [next EXCEPT ![before] = after]
       /\ pc' = "free"
       /\ UNCHANGED <<prev, num, work, pos, q, before, after, sent, applied>>

\* Faulty: list_for_each, which reads the successor from the freed entry.
Free_unsafe ==
    /\ pc = "free"
    /\ next' = [next EXCEPT ![pos] = POISON]
    /\ prev' = [prev EXCEPT ![pos] = POISON]
    /\ num' = [num EXCEPT ![pos] = 0]
    /\ pos' = next'[pos]
    /\ pc' = "fetch"
    /\ UNCHANGED <<work, q, before, after, sent, applied>>

\* Faulty: one update is taken at a time.
Free_one ==
    /\ pc = "free"
    /\ next' = [next EXCEPT ![pos] = POISON]
    /\ prev' = [prev EXCEPT ![pos] = POISON]
    /\ num' = [num EXCEPT ![pos] = 0]
    /\ pos' = HEAD
    /\ pc' = "fetch"
    /\ UNCHANGED <<work, q, before, after, sent, applied>>

\* The entry is poisoned and freed, and the loop goes on.
Free ==
    /\ pc = "free"
    /\ next' = [next EXCEPT ![pos] = POISON]
    /\ prev' = [prev EXCEPT ![pos] = POISON]
    /\ num' = [num EXCEPT ![pos] = 0]
    /\ pos' = q
    /\ pc' = "fetch"
    /\ UNCHANGED <<work, q, before, after, sent, applied>>

\* INIT_LIST_HEAD
InitListHead ==
    \/ /\ pc = "init_next"
       /\ next' = [next EXCEPT ![HEAD] = HEAD]
       /\ pc' = "init_prev"
       /\ UNCHANGED <<prev, num, work, pos, q, before, after, sent, applied>>
    \/ /\ pc = "init_prev"
       /\ prev' = [prev EXCEPT ![HEAD] = HEAD]
       /\ pc' = "idle"
       /\ UNCHANGED <<next, num, work, pos, q, before, after, sent, applied>>

pset_update_handler ==
    Begin \/ Fetch \/ ApplyUpdate \/ ListDel \/ Free \/ InitListHead

Next == pset_update_handler \/ \E c \in Cell : vrr_rcv_hello(c)

\* The kernel's worker thread runs whenever it has work and goes on until it is
\* done.
Spec == Init /\ [][Next]_vars /\ WF_vars(pset_update_handler)
-----------------------------------------------------------------------------
\* The i-th entry of s; behind the last one comes the head.
EntryAt(s, i) == IF i <= Len(s) THEN s[i] ELSE HEAD

\* Following the pointers nx from a leads through the entries s to the head.
IsChain(nx, a, s) ==
    /\ EntryAt(s, 1) = a
    /\ \A i \in DOMAIN s : nx[s[i]] = EntryAt(s, i + 1)

\* The entries that lie on the way from a to the head.
Chain(nx, a) ==
    CHOOSE s \in BoundedSeq(Cell, Cardinality(Cell)) : IsChain(nx, a, s)

\* The entry that the worker reads next, if nothing more arrives.
Ahead ==
    CASE pc \in {"idle", "init_prev"} -> next[HEAD]
      [] pc = "fetch" -> pos
      [] pc = "init_next" -> HEAD
      [] OTHER -> q

\* The updates the worker will still apply, if nothing more arrives.
Waiting == (IF pc = "apply" THEN <<pos>> ELSE <<>>) \o Chain(next, Ahead)

\* The worker deals with the entry pos and has read its successor q.
InHand == pc \in {"apply", "del", "unlink_prev", "unlink_next", "free"}

\* The worker has read the head as the successor of the entry it deals with.
Closing ==
    \/ pc \in {"init_next", "init_prev"}
    \/ pc = "fetch" /\ pos = HEAD
    \/ InHand /\ q = HEAD

\* The head does not lead backwards to the last entry.
Weak == ~Closing /\ Waiting # <<>> /\ prev[HEAD] # Last(Waiting)

\* The numbers of the updates that wait.
Queue == [i \in DOMAIN Waiting |-> num[Waiting[i]]]

Q == INSTANCE UpdateQueue WITH queue <- Queue, closing <- Closing, weak <- Weak

\* Between any two pointer writes of the worker, the softirq included, the list
\* does what UpdateQueue says: updates are applied once each and in order, and
\* only those are lost that arrive after the end was seen or follow such a one.
ImplementsQueue == Q!Spec

\* The head and the entries that are not freed.
Live == {HEAD} \cup {c \in Cell : num[c] # 0}

\* Although the softirq writes to entries the worker is about to free, neither
\* of them ever follows a pointer to an entry that was freed.
NoUseAfterFree ==
    /\ prev[HEAD] \in Live
    /\ pc = "idle" => next[HEAD] \in Live
    /\ pc \notin {"idle", "init_next", "init_prev"} => pos \in Live
    /\ InHand => q \in Live
    /\ pc \in {"unlink_prev", "unlink_next"} => {before, after} \subseteq Live

\* An update that is in the list before the worker sees its end is applied in
\* the end, however many others arrive while it waits: each schedules the work.
WaitingIsApplied ==
    \A u \in 1 .. MaxUpdates :
        (~Closing /\ ~Weak /\ \E i \in DOMAIN Queue : Queue[i] = u)
            ~> (applied >= u)
=============================================================================
