------------------------------ MODULE Sockets -------------------------------
(***************************************************************************)
(* The PF_VRR sockets of one node (af_vrr.c): user threads that open,      *)
(* connect, read and close sockets, while the receive softirq delivers     *)
(* data packets (vrr_rcv_data in vrr_input.c).                             *)
(*                                                                         *)
(* The kernel's part is modelled as the code uses it: lock_sock gives a    *)
(* socket to one thread; packets for a socket that is taken wait in its    *)
(* backlog, which release_sock hands to vrr_backlog_rcv; sk_receive_skb    *)
(* puts back one reference, as sock_put does; the socket is freed with its *)
(* last reference.  Steps on a freed socket are outside the model, and so  *)
(* is what becomes of the memory of a packet: one that finds the receive   *)
(* queue full is freed by vrr_backlog_rcv and, unless it came through the  *)
(* backlog, once more by vrr_rcv, to which vrr_rcv_data returns            *)
(* NET_RX_DROP.  The model drops it, as if it were freed once.             *)
(* Sending changes no state of a socket and is left out.                   *)
(***************************************************************************)
EXTENDS Naturals, Sequences, SequencesExt

CONSTANTS
    Sock,       \* sockets
    Thread,     \* user threads
    Addr,       \* identifiers of other nodes
    RcvBuf,     \* packets the receive queue of a socket has room for
    MaxPackets, \* bound: data packets each node sends
    None        \* no thread, no address

ASSUME SocketAssumption ==
    /\ None \notin Thread \cup Addr
    /\ RcvBuf \in Nat
    /\ MaxPackets \in Nat

VARIABLES
    refs,      \* refs[s]: sk_refcnt; 0 while s does not exist
    open,      \* sockets with a file descriptor
    rem_addr,  \* rem_addr[s]: the node s is connected to
    hash,      \* the sockets of vrr_socks, the newest first
    rcvq,      \* rcvq[s]: sk_receive_queue
    backlog,   \* backlog[s]: packets that came while a thread had s
    owner,     \* owner[s]: the thread that has s
    pc,        \* pc[t]: where thread t is in vrr_recvmsg
    fd,        \* fd[t]: the socket it reads
    got,       \* got[s]: number of the packet that was read last
    sent       \* sent[a]: number of the last packet of node a

vars == <<refs, open, rem_addr, hash, rcvq, backlog, owner, pc, fd, got, sent>>

Packet == [src : Addr, num : 1 .. MaxPackets, data : BOOLEAN]

TypeOK ==
    /\ refs \in [Sock -> Nat]
    /\ open \subseteq Sock
    /\ rem_addr \in [Sock -> Addr \cup {None}]
    /\ hash \in Seq(Sock)
    /\ rcvq \in [Sock -> Seq(Packet)]
    /\ \A s \in Sock : Len(rcvq[s]) <= RcvBuf
    /\ backlog \in [Sock -> Seq(Packet)]
    /\ owner \in [Sock -> Thread \cup {None}]
    /\ pc \in [Thread -> {"idle", "check", "wait"}]
    /\ fd \in [Thread -> Sock]
    /\ got \in [Sock -> 0 .. MaxPackets]
    /\ sent \in [Addr -> 0 .. MaxPackets]

Init ==
    /\ refs = [s \in Sock |-> 0]
    /\ open = {}
    /\ rem_addr = [s \in Sock |-> None]
    /\ hash = <<>>
    /\ rcvq = [s \in Sock |-> <<>>]
    /\ backlog = [s \in Sock |-> <<>>]
    /\ owner = [s \in Sock |-> None]
    /\ pc = [t \in Thread |-> "idle"]
    /\ fd \in [Thread -> Sock]
    /\ got = [s \in Sock |-> 0]
    /\ sent = [a \in Addr |-> 0]
-----------------------------------------------------------------------------
\* sk_alloc and sock_hold.  A socket is used once.
vrr_create(s) ==
    /\ s \notin open /\ refs[s] = 0 /\ got[s] = 0 /\ rem_addr[s] = None
    /\ open' = open \cup {s}
    /\ refs' = [refs EXCEPT ![s] = 2]
    /\ UNCHANGED <<rem_addr, hash, rcvq, backlog, owner, pc, fd, got, sent>>

\* Faulty: vrr_hash_sock relies on the reference of sk_add_node.
vrr_connect_one_hold(s, a) ==
    /\ s \in open /\ refs[s] > 0 /\ owner[s] = None
    /\ rem_addr[s] = None
    /\ rem_addr' = [rem_addr EXCEPT ![s] = a]
    /\ hash' = <<s>> \o hash
    /\ refs' = [refs EXCEPT ![s] = @ + 1]
    /\ UNCHANGED <<open, rcvq, backlog, owner, pc, fd, got, sent>>

\* vrr_hash_sock holds the socket twice, once in sk_add_node.
vrr_connect(s, a) ==
    /\ s \in open /\ refs[s] > 0 /\ owner[s] = None
    /\ rem_addr[s] = None
    /\ rem_addr' = [rem_addr EXCEPT ![s] = a]
    /\ hash' = <<s>> \o hash
    /\ refs' = [refs EXCEPT ![s] = @ + 2]
    /\ UNCHANGED <<open, rcvq, backlog, owner, pc, fd, got, sent>>

\* The packets of pkts that a queue of n packets has room for.
Fitting(n, pkts) ==
    SubSeq(pkts, 1, IF n + Len(pkts) <= RcvBuf THEN Len(pkts) ELSE RcvBuf - n)

\* Faulty: the backlog is put in front of what waits.
vrr_backlog_rcv_front(l, pkts) == Fitting(Len(l), pkts) \o l

\* Faulty: sk_rcvbuf is not looked at.
vrr_backlog_rcv_all(l, pkts) == l \o pkts

\* The queue that vrr_backlog_rcv leaves, called for the packets in turn: what
\* has no room is dropped (and freed here).
vrr_backlog_rcv(l, pkts) == l \o Fitting(Len(l), pkts)

\* Where vrr_find_sock finds a socket for node a; 0 for none.
vrr_find_sock(a) == SelectInSeq(hash, LAMBDA s : rem_addr[s] = a)

\* A data packet for this node.  vrr_find_sock takes a reference, sk_receive_skb
\* and vrr_rcv_data put back one each.  The result NET_RX_DROP of a full queue
\* makes vrr_rcv free the packet a second time, which is outside the model.
vrr_rcv_data(a, data) ==
    /\ sent[a] < MaxPackets
    /\ sent' = [sent EXCEPT ![a] = @ + 1]
    /\ LET p == [src |-> a, num |-> sent'[a], data |-> data]
           s == hash[vrr_find_sock(a)]
       IN  IF vrr_find_sock(a) = 0 THEN UNCHANGED <<refs, rcvq, backlog>>
           ELSE /\ refs[s] > 0
                /\ refs' = [refs EXCEPT ![s] = @ - 1]
                /\ IF owner[s] = None
                   THEN /\ rcvq' = [rcvq EXCEPT ![s] = vrr_backlog_rcv(@, <<p>>)]
                        /\ UNCHANGED backlog
                   ELSE /\ backlog' = [backlog EXCEPT ![s] = Append(@, p)]
                        /\ UNCHANGED rcvq
    /\ UNCHANGED <<open, rem_addr, hash, owner, pc, fd, got>>

(***************************************************************************)
(* vrr_recvmsg.  A thread holds the socket except while it waits.          *)
(***************************************************************************)

\* The queue is l before the backlog is added to it.
release_sock(s, l) ==
    /\ refs[s] > 0
    /\ rcvq' = [rcvq EXCEPT ![s] = vrr_backlog_rcv(l, backlog[s])]
    /\ backlog' = [backlog EXCEPT ![s] = <<>>]
    /\ owner' = [owner EXCEPT ![s] = None]

lock_sock(t, s) ==
    /\ refs[s] > 0 /\ owner[s] = None
    /\ owner' = [owner EXCEPT ![s] = t]

RecvBegin(t, s) ==
    /\ pc[t] = "idle" /\ s \in open
    /\ lock_sock(t, s)
    /\ pc' = [pc EXCEPT ![t] = "check"]
    /\ fd' = [fd EXCEPT ![t] = s]
    /\ UNCHANGED <<refs, open, rem_addr, hash, rcvq, backlog, got, sent>>

\* Faulty: the thread waits with the socket in its hands.
RecvEmpty_holds(t) ==
    /\ pc[t] = "check" /\ rcvq[fd[t]] = <<>>
    /\ rem_addr[fd[t]] # None
    /\ pc' = [pc EXCEPT ![t] = "wait"]
    /\ UNCHANGED <<refs, open, rem_addr, hash, rcvq, backlog, owner, fd, got, sent>>

\* The queue is empty: the call returns if the socket is not connected or the
\* thread does not want to wait; otherwise it waits without the socket.
RecvEmpty(t) ==
    /\ pc[t] = "check" /\ rcvq[fd[t]] = <<>>
    /\ release_sock(fd[t], <<>>)
    /\ \/ pc' = [pc EXCEPT ![t] = "idle"]
       \/ rem_addr[fd[t]] # None /\ pc' = [pc EXCEPT ![t] = "wait"]
    /\ UNCHANGED <<refs, open, rem_addr, hash, fd, got, sent>>

\* wait_event_interruptible ends with a packet or with a signal.
RecvWake(t) ==
    /\ pc[t] = "wait"
    /\ rcvq[fd[t]] # <<>>
    /\ lock_sock(t, fd[t])
    /\ pc' = [pc EXCEPT ![t] = "check"]
    /\ UNCHANGED <<refs, open, rem_addr, hash, rcvq, backlog, fd, got, sent>>

RecvSignal(t) ==
    /\ pc[t] = "wait"
    /\ refs[fd[t]] > 0 /\ owner[fd[t]] = None
    /\ pc' = [pc EXCEPT ![t] = "idle"]
    /\ UNCHANGED <<refs, open, rem_addr, hash, rcvq, backlog, owner, fd, got, sent>>

\* A packet without data is thrown away, and the call starts again.
RecvSkip(t) ==
    LET s == fd[t] IN
    /\ pc[t] = "check" /\ rcvq[s] # <<>> /\ ~Head(rcvq[s]).data
    /\ refs[s] > 0
    /\ rcvq' = [rcvq EXCEPT ![s] = Tail(@)]
    /\ UNCHANGED <<refs, open, rem_addr, hash, backlog, owner, pc, fd, got, sent>>

\* The first packet is copied to the user.  It stays in the queue with MSG_PEEK
\* and when the copy fails.
RecvData(t) ==
    LET s == fd[t] IN
    /\ pc[t] = "check" /\ rcvq[s] # <<>> /\ Head(rcvq[s]).data
    /\ pc' = [pc EXCEPT ![t] = "idle"]
    /\ \/ release_sock(s, rcvq[s]) /\ UNCHANGED got
       \/ /\ release_sock(s, Tail(rcvq[s]))
          /\ got' = [got EXCEPT ![s] = Head(rcvq[s]).num]
    /\ UNCHANGED <<refs, open, rem_addr, hash, fd, sent>>

vrr_recvmsg(t) ==
    RecvEmpty(t) \/ RecvWake(t) \/ RecvSignal(t) \/ RecvSkip(t) \/ RecvData(t)

\* The last descriptor is closed, so no call is under way.  sk_common_release
\* calls vrr_unhash_sock, which takes the socket out and puts back two
\* references, and puts back one more.  Nothing reaches the socket after that,
\* also when packets have already used up references of these.
vrr_release(s) ==
    /\ s \in open /\ refs[s] > 0
    /\ \A t \in Thread : pc[t] # "idle" => fd[t] # s
    /\ open' = open \ {s}
    /\ hash' = RemoveFirst(hash, s)
    /\ LET puts == IF rem_addr[s] = None THEN 2 ELSE 3
       IN  refs' = [refs EXCEPT ![s] = IF @ <= puts THEN 0 ELSE @ - puts]
    /\ UNCHANGED <<rem_addr, rcvq, backlog, owner, pc, fd, got, sent>>

Next ==
    \/ \E s \in Sock : vrr_create(s) \/ vrr_release(s)
    \/ \E s \in Sock, a \in Addr : vrr_connect(s, a)
    \/ \E a \in Addr, data \in BOOLEAN : vrr_rcv_data(a, data)
    \/ \E t \in Thread : vrr_recvmsg(t) \/ \E s \in Sock : RecvBegin(t, s)

\* Threads run.  lock_sock queues those that wait for a socket, so that one
\* that could have it again and again gets it.
Fairness ==
    \A t \in Thread :
        /\ WF_vars(RecvEmpty(t) \/ RecvSkip(t) \/ RecvData(t))
        /\ SF_vars(RecvWake(t))

Spec == Init /\ [][Next]_vars /\ Fairness
-----------------------------------------------------------------------------
\* Packets that wait for the readers of s, in the order they are read.
Waiting(s) == rcvq[s] \o backlog[s]

\* Readers of a socket get the packets of the node it is connected to, once each
\* and in order, although packets take the detour through the backlog while a
\* reader holds the socket, and readers peek, wait and compete.
InOrder ==
    \A s \in Sock :
        /\ \A i \in DOMAIN Waiting(s) :
              Waiting(s)[i].src = rem_addr[s] /\ Waiting(s)[i].num > got[s]
        /\ \A i, j \in DOMAIN Waiting(s) :
              i < j => Waiting(s)[i].num < Waiting(s)[j].num

\* Every packet costs the socket one reference, but a socket that is still open
\* is not freed before its fourth packet.
FourPackets ==
    \A s \in open : refs[s] = 0 => sent[rem_addr[s]] >= 4

\* A thread that waits is served: a packet with data that is there while it
\* waits makes a waiting reader return, unless another took the packet.
Served ==
    \A s \in Sock :
        (/\ refs[s] > 0
         /\ \E t \in Thread : pc[t] = "wait" /\ fd[t] = s
         /\ Waiting(s) # <<>>)
        ~> (\/ refs[s] = 0
            \/ Waiting(s) = <<>>
            \/ \A t \in Thread : pc[t] = "wait" => fd[t] # s)
=============================================================================
