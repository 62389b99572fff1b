--------------------------- MODULE SocketsProofs ----------------------------
(***************************************************************************)
(* Proofs about Sockets for any number of sockets, threads and packets:    *)
(* first the references and the backlog (SockInv), then what the queues    *)
(* hold (QueueInv), which rests on the first.                              *)
(***************************************************************************)
EXTENDS Sockets, WellFoundedInduction, TLAPS

\* The types of the variables that count references and guard the backlog.
SockType ==
    /\ refs \in [Sock -> Nat]
    /\ open \subseteq Sock
    /\ rem_addr \in [Sock -> Addr \cup {None}]
    /\ hash \in Seq(Sock)
    /\ backlog \in [Sock -> Seq(Packet)]
    /\ owner \in [Sock -> Thread \cup {None}]
    /\ fd \in [Thread -> Sock]
    /\ sent \in [Addr -> 0 .. MaxPackets]

\* An open socket has the two references of vrr_create until it is connected;
\* then two more, less at most one for every packet of its node.
RefsPaid ==
    \A s \in open :
        /\ rem_addr[s] = None => refs[s] = 2
        /\ rem_addr[s] # None => refs[s] + sent[rem_addr[s]] >= 4

\* Packets wait in the backlog only while a thread has the socket.
BacklogOwned == \A s \in Sock : owner[s] = None => backlog[s] = <<>>

SockInv == SockType /\ RefsPaid /\ BacklogOwned

\* Every set of naturals that is not empty has its minimum.
LEMMA MinIn ==
    ASSUME NEW I \in SUBSET Nat, I # {}
    PROVE  Min(I) \in I
<1>1. IsWellFoundedOn(OpToRel(<, Nat), Nat)
  BY NatLessThanWellFounded
<1>2. PICK x \in I : \A y \in I : ~(<<y, x>> \in OpToRel(<, Nat))
  BY <1>1, WFMin
<1>3. \A y \in I : y < x => <<y, x>> \in OpToRel(<, Nat)
  BY DEF OpToRel
<1>4. \A y \in I : ~(y < x)
  BY <1>2, <1>3
<1>5. \E z \in I : \A y \in I : z <= y
  BY <1>4
<1> QED
  BY <1>5 DEF Min

\* The socket vrr_find_sock finds is hashed and connected to the node.
LEMMA FoundSock ==
    ASSUME hash \in Seq(Sock), NEW a, vrr_find_sock(a) # 0
    PROVE  /\ hash[vrr_find_sock(a)] \in Sock
           /\ rem_addr[hash[vrr_find_sock(a)]] = a
<1> DEFINE I == {i \in 1 .. Len(hash) : rem_addr[hash[i]] = a}
<1>1. vrr_find_sock(a) = IF I # {} THEN Min(I) ELSE 0
  BY DEF vrr_find_sock, SelectInSeq
<1>2. I # {} /\ vrr_find_sock(a) = Min(I)
  BY <1>1
<1>3. I \in SUBSET Nat
  OBVIOUS
<1>4. Min(I) \in I
  BY <1>2, <1>3, MinIn
<1> QED
  BY <1>2, <1>4

\* Taking a socket out of the list leaves a list of sockets.
LEMMA RemovedSock ==
    ASSUME hash \in Seq(Sock), NEW s
    PROVE  RemoveFirst(hash, s) \in Seq(Sock)
<1> DEFINE I == {i \in 1 .. Len(hash) : hash[i] = s}
           k == IF I # {} THEN Min(I) ELSE 0
<1>1. CASE I = {}
  BY <1>1 DEF RemoveFirst
<1>2. CASE I # {}
  <2>1. RemoveFirst(hash, s) = RemoveAt(hash, k)
    BY <1>2 DEF RemoveFirst, SelectInSeq
  <2>3. I \in SUBSET Nat
    OBVIOUS
  <2>4. Min(I) \in I
    BY <1>2, <2>3, MinIn
  <2>5. k \in 1 .. Len(hash)
    BY <1>2, <2>4
  <2> HIDE DEF k
  <2> QED
    BY <2>1, <2>5 DEF RemoveAt
<1> QED
  BY <1>1, <1>2

LEMMA SockInit == Init => SockInv
BY SocketAssumption
   DEF Init, SockInv, SockType, RefsPaid, BacklogOwned

\* A data packet takes a reference of one socket of its node.
LEMMA DataStep ==
    ASSUME SockInv, NEW a \in Addr, NEW data \in BOOLEAN, vrr_rcv_data(a, data)
    PROVE  SockInv'
<1> DEFINE s == hash[vrr_find_sock(a)]
           p == [src |-> a, num |-> sent'[a], data |-> data]
<1>0. SockType /\ RefsPaid /\ BacklogOwned /\ None \notin Addr /\ MaxPackets \in Nat
  BY SocketAssumption DEF SockInv
<1>1. /\ sent[a] < MaxPackets /\ sent' = [sent EXCEPT ![a] = @ + 1]
      /\ UNCHANGED <<open, rem_addr, hash, owner, pc, fd, got>>
  BY DEF vrr_rcv_data
<1>2. sent' \in [Addr -> 0 .. MaxPackets] /\ sent'[a] = sent[a] + 1
  BY <1>0, <1>1 DEF SockType
<1>3. p \in Packet
  BY <1>0, <1>1, <1>2 DEF Packet, SockType
<1>4. CASE vrr_find_sock(a) = 0
  <2>1. UNCHANGED <<refs, backlog>>
    BY <1>4 DEF vrr_rcv_data
  <2>2. SockType' /\ BacklogOwned'
    BY <1>0, <1>1, <1>2, <2>1 DEF SockType, BacklogOwned
  <2>3. RefsPaid'
    BY <1>0, <1>1, <1>2, <2>1 DEF SockType, RefsPaid
  <2> QED
    BY <2>2, <2>3 DEF SockInv
<1>5. CASE vrr_find_sock(a) # 0
  <2>1. s \in Sock /\ rem_addr[s] = a
    BY <1>0, <1>5, FoundSock DEF SockType
  <2>2. /\ refs[s] > 0
        /\ refs' = [refs EXCEPT ![s] = @ - 1]
        /\ IF owner[s] = None THEN UNCHANGED backlog
           ELSE backlog' = [backlog EXCEPT ![s] = Append(@, p)]
    BY <1>5 DEF vrr_rcv_data
  <2> HIDE DEF s, p
  <2>3. refs' \in [Sock -> Nat]
    BY <1>0, <2>1, <2>2 DEF SockType
  <2>4. backlog' \in [Sock -> Seq(Packet)] /\ BacklogOwned'
    <3>1. CASE owner[s] = None
      BY <1>0, <1>1, <2>2, <3>1 DEF SockType, BacklogOwned
    <3>2. CASE owner[s] # None
      <4>1. backlog[s] \in Seq(Packet)
        BY <1>0, <2>1 DEF SockType
      <4>2. Append(backlog[s], p) \in Seq(Packet)
        BY <1>3, <4>1
      <4>3. backlog' = [backlog EXCEPT ![s] = Append(backlog[s], p)]
        BY <2>2, <3>2
      <4> HIDE DEF SockInv
      <4> QED
        BY <1>0, <1>1, <2>1, <3>2, <4>2, <4>3 DEF SockType, BacklogOwned
    <3> QED
      BY <3>1, <3>2
  <2>5. SockType'
    BY <1>0, <1>1, <1>2, <2>3, <2>4 DEF SockType
  <2>6. RefsPaid'
    <3> SUFFICES ASSUME NEW x \in open
                 PROVE  /\ rem_addr[x] = None => refs'[x] = 2
                        /\ rem_addr[x] # None => refs'[x] + sent'[rem_addr[x]] >= 4
      BY <1>1 DEF RefsPaid
    <3>1. x \in Sock /\ rem_addr[x] \in Addr \cup {None}
      BY <1>0 DEF SockType
    <3>2. CASE x = s
      BY <1>0, <1>2, <2>1, <2>2, <3>2 DEF SockType, RefsPaid
    <3>3. CASE x # s
      BY <1>0, <1>1, <1>2, <2>2, <3>1, <3>3 DEF SockType, RefsPaid
    <3> QED
      BY <3>2, <3>3
  <2> QED
    BY <2>4, <2>5, <2>6 DEF SockInv
<1> QED
  BY <1>4, <1>5

\* The steps of a reader leave the references alone.
LEMMA RecvStep ==
    ASSUME SockInv, NEW t \in Thread,
           vrr_recvmsg(t) \/ \E s \in Sock : RecvBegin(t, s)
    PROVE  SockInv'
<1>0. SockType /\ RefsPaid /\ BacklogOwned /\ fd[t] \in Sock /\ None \notin Thread
  BY SocketAssumption DEF SockInv, SockType
<1>1. /\ UNCHANGED <<refs, open, rem_addr, hash, sent>>
      /\ fd' \in [Thread -> Sock]
  BY <1>0 DEF SockType, vrr_recvmsg, RecvBegin, RecvEmpty, RecvWake, RecvSignal,
              RecvSkip, RecvData
<1>2. CASE \E s \in Sock, l \in {<<>>, rcvq[fd[t]], Tail(rcvq[fd[t]])} : release_sock(s, l)
  <2>1. PICK s \in Sock : /\ backlog' = [backlog EXCEPT ![s] = <<>>]
                          /\ owner' = [owner EXCEPT ![s] = None]
    BY <1>2 DEF release_sock
  <2>2. <<>> \in Seq(Packet)
    OBVIOUS
  <2> QED
    BY <1>0, <1>1, <2>1, <2>2 DEF SockInv, SockType, RefsPaid, BacklogOwned
<1>3. CASE UNCHANGED backlog /\ \E s \in Sock : lock_sock(t, s)
  <2>1. PICK s \in Sock : owner' = [owner EXCEPT ![s] = t]
    BY <1>3 DEF lock_sock
  <2> QED
    BY <1>0, <1>1, <1>3, <2>1 DEF SockInv, SockType, RefsPaid, BacklogOwned
<1>4. CASE UNCHANGED <<backlog, owner>>
  BY <1>0, <1>1, <1>4 DEF SockInv, SockType, RefsPaid, BacklogOwned
<1>5. CASE RecvEmpty(t) \/ RecvData(t)
  BY <1>0, <1>2, <1>5 DEF RecvEmpty, RecvData
<1>6. CASE RecvWake(t) \/ \E s \in Sock : RecvBegin(t, s)
  BY <1>0, <1>3, <1>6 DEF RecvWake, RecvBegin
<1>7. CASE RecvSignal(t) \/ RecvSkip(t)
  BY <1>4, <1>7 DEF RecvSignal, RecvSkip
<1> QED
  BY <1>5, <1>6, <1>7 DEF vrr_recvmsg

LEMMA SockStep == SockInv /\ [Next]_vars => SockInv'
<1> SUFFICES ASSUME SockInv, [Next]_vars PROVE SockInv'
  OBVIOUS
<1>0. SockType /\ RefsPaid /\ BacklogOwned /\ None \notin Addr
  BY SocketAssumption DEF SockInv
<1>1. ASSUME NEW s \in Sock, vrr_create(s) PROVE SockInv'
  BY <1>0, <1>1 DEF vrr_create, SockInv, SockType, RefsPaid, BacklogOwned
<1>2. ASSUME NEW s \in Sock, vrr_release(s) PROVE SockInv'
  <2>1. hash' = RemoveFirst(hash, s) /\ hash \in Seq(Sock)
    BY <1>0, <1>2 DEF vrr_release, SockType
  <2>2. hash' \in Seq(Sock)
    BY <2>1, RemovedSock
  <2>3. /\ open' = open \ {s}
        /\ UNCHANGED <<rem_addr, backlog, owner, fd, sent>>
    BY <1>2 DEF vrr_release
  <2>4. refs' \in [Sock -> Nat] /\ \A x \in Sock \ {s} : refs'[x] = refs[x]
    BY <1>0, <1>2 DEF vrr_release, SockType
  <2> QED
    BY <1>0, <2>2, <2>3, <2>4 DEF SockInv, SockType, RefsPaid, BacklogOwned
<1>3. ASSUME NEW s \in Sock, NEW a \in Addr, vrr_connect(s, a) PROVE SockInv'
  <2>1. /\ s \in open /\ rem_addr[s] = None
        /\ rem_addr' = [rem_addr EXCEPT ![s] = a]
        /\ hash' = <<s>> \o hash
        /\ refs' = [refs EXCEPT ![s] = @ + 2]
        /\ UNCHANGED <<open, backlog, owner, fd, sent>>
    BY <1>3 DEF vrr_connect
  <2>2. refs[s] = 2 /\ sent[a] \in Nat
    BY <1>0, <2>1 DEF RefsPaid, SockType
  <2>3. hash' \in Seq(Sock)
    BY <1>0, <2>1 DEF SockType
  <2>4. SockType' /\ BacklogOwned'
    BY <1>0, <2>1, <2>3 DEF SockType, BacklogOwned
  <2>5. RefsPaid'
    BY <1>0, <2>1, <2>2 DEF SockType, RefsPaid
  <2> QED
    BY <2>4, <2>5 DEF SockInv
<1>4. CASE UNCHANGED vars
  BY <1>0, <1>4 DEF vars, SockInv, SockType, RefsPaid, BacklogOwned
<1> QED
  BY <1>1, <1>2, <1>3, <1>4, DataStep, RecvStep DEF Next

LEMMA SockInvariance == Spec => []SockInv
BY SockInit, SockStep, PTL DEF Spec

\* An open socket outlives its first three packets, however many sockets are
\* connected to the node and however its readers interleave.
THEOREM FourPacketsAlways == Spec => []FourPackets
<1>1. SockInv => FourPackets
  <2> SUFFICES ASSUME SockInv, NEW s \in open, refs[s] = 0
               PROVE  sent[rem_addr[s]] >= 4
    BY DEF FourPackets
  <2>1. rem_addr[s] \in Addr /\ refs[s] + sent[rem_addr[s]] >= 4
    BY DEF SockInv, RefsPaid, SockType
  <2> QED
    BY <2>1 DEF SockInv, SockType
<1> QED
  BY <1>1, SockInvariance, PTL
-----------------------------------------------------------------------------
\* A queue l of packets of node a, numbered upwards, above lo and up to hi.
Ordered(l, a, lo, hi) ==
    /\ \A i \in DOMAIN l : l[i].src = a /\ lo < l[i].num /\ l[i].num <= hi
    /\ \A i, j \in DOMAIN l : i < j => l[i].num < l[j].num

\* The number of the last packet that can be for s.
Newest(s) == IF rem_addr[s] = None THEN 0 ELSE sent[rem_addr[s]]

QueueType ==
    /\ rcvq \in [Sock -> Seq(Packet)]
    /\ \A s \in Sock : Len(rcvq[s]) <= RcvBuf
    /\ pc \in [Thread -> {"idle", "check", "wait"}]
    /\ got \in [Sock -> 0 .. MaxPackets]

\* InOrder, and nothing that waits or was read is newer than what was sent.
QueueInv ==
    /\ QueueType
    /\ \A s \in Sock : /\ Ordered(Waiting(s), rem_addr[s], got[s], Newest(s))
                       /\ got[s] <= Newest(s)

\* A new packet goes behind the others.
LEMMA OrderedAppend ==
    ASSUME NEW l \in Seq(Packet), NEW p \in Packet, NEW lo \in Nat, NEW hi \in Nat,
           lo <= hi, Ordered(l, p.src, lo, hi), p.num = hi + 1
    PROVE  Ordered(Append(l, p), p.src, lo, hi + 1)
<1> DEFINE m == Append(l, p)
<1>1. /\ Len(m) = Len(l) + 1 /\ DOMAIN m = 1 .. Len(m) /\ DOMAIN l = 1 .. Len(l)
      /\ \A i \in DOMAIN l : m[i] = l[i] /\ l[i].num \in Nat
      /\ m[Len(m)] = p /\ Len(l) \in Nat
  <2>1. \A q \in Packet : q.num \in Nat
    BY SocketAssumption DEF Packet
  <2>2. \A i \in DOMAIN l : l[i] \in Packet
    OBVIOUS
  <2>3. \A i \in DOMAIN l : m[i] = l[i]
    OBVIOUS
  <2> QED
    BY <2>1, <2>2, <2>3
<1>2. \A i \in DOMAIN m : i \in DOMAIN l \/ i = Len(m)
  BY <1>1
<1> HIDE DEF m
<1> QED
  <2>1. Ordered(m, p.src, lo, hi + 1)
    BY <1>1, <1>2 DEF Ordered
  <2> QED
    BY <2>1 DEF m

\* Dropping the last packets keeps the order of the others.
LEMMA OrderedPrefix ==
    ASSUME NEW l \in Seq(Packet), NEW m \in Seq(Packet), NEW k \in 0 .. Len(m),
           NEW a, NEW lo, NEW hi, Ordered(l \o m, a, lo, hi)
    PROVE  Ordered(l \o SubSeq(m, 1, k), a, lo, hi)
<1> DEFINE w == l \o m  v == l \o SubSeq(m, 1, k)
<1>1. /\ DOMAIN v \subseteq DOMAIN w
      /\ \A i \in DOMAIN v : v[i] = w[i]
  OBVIOUS
<1>2. Ordered(w, a, lo, hi)
  OBVIOUS
<1> HIDE DEF w, v
<1>3. Ordered(v, a, lo, hi)
  BY <1>1, <1>2 DEF Ordered
<1> QED
  BY <1>3 DEF v

\* Taking the first packet leaves newer ones.
LEMMA OrderedTail ==
    ASSUME NEW l \in Seq(Packet), NEW m \in Seq(Packet), l # <<>>,
           NEW a, NEW lo, NEW hi, Ordered(l \o m, a, lo, hi)
    PROVE  /\ Ordered(Tail(l) \o m, a, lo, hi)
           /\ Ordered(Tail(l) \o m, a, Head(l).num, hi)
           /\ Head(l).num <= hi /\ Head(l) \in Packet
<1> DEFINE w == l \o m  v == Tail(l) \o m
<1>1. /\ \A i \in DOMAIN v : i + 1 \in DOMAIN w /\ v[i] = w[i + 1] /\ i \in Nat /\ i > 0
      /\ 1 \in DOMAIN w /\ Head(l) = w[1] /\ w[1] \in Packet
  <2> DEFINE u == Tail(l)
  <2>1. /\ Len(l) \in Nat \ {0} /\ u \in Seq(Packet) /\ Len(u) = Len(l) - 1
        /\ \A i \in 1 .. Len(u) : u[i] = l[i + 1]
        /\ Head(l) = l[1] /\ l[1] \in Packet
    OBVIOUS
  <2> HIDE DEF u
  <2>2. /\ w \in Seq(Packet) /\ Len(w) = Len(l) + Len(m)
        /\ \A i \in 1 .. Len(l) : w[i] = l[i]
        /\ \A i \in 1 .. Len(m) : w[Len(l) + i] = m[i]
    OBVIOUS
  <2>3. /\ v \in Seq(Packet) /\ Len(v) = Len(u) + Len(m)
        /\ \A i \in 1 .. Len(u) : v[i] = u[i]
        /\ \A i \in 1 .. Len(m) : v[Len(u) + i] = m[i]
    BY <2>1 DEF u
  <2> HIDE DEF v, w
  <2>4. \A i \in 1 .. Len(v) : v[i] = w[i + 1]
    <3> SUFFICES ASSUME NEW i \in 1 .. Len(v) PROVE v[i] = w[i + 1]
      OBVIOUS
    <3>1. CASE i <= Len(u)
      BY <2>1, <2>2, <2>3, <3>1
    <3>2. CASE i > Len(u)
      <4>1. i - Len(u) \in 1 .. Len(m) /\ Len(m) \in Nat /\ Len(u) \in Nat
        BY <2>1, <2>3, <3>2
      <4>2. v[Len(u) + (i - Len(u))] = m[i - Len(u)]
        BY <2>3, <4>1
      <4>3. w[Len(l) + (i - Len(u))] = m[i - Len(u)]
        BY <2>2, <4>1
      <4> QED
        BY <2>1, <4>1, <4>2, <4>3
    <3> QED
      BY <2>1, <3>1, <3>2
  <2> QED
    BY <2>1, <2>2, <2>3, <2>4
<1>2. Ordered(w, a, lo, hi)
  OBVIOUS
<1> HIDE DEF w, v
<1>3. Ordered(v, a, lo, hi)
  <2>1. \A i \in DOMAIN v : v[i].src = a /\ lo < v[i].num /\ v[i].num <= hi
    BY <1>1, <1>2 DEF Ordered
  <2>2. ASSUME NEW i \in DOMAIN v, NEW j \in DOMAIN v, i < j
        PROVE  v[i].num < v[j].num
    <3>1. i + 1 \in DOMAIN w /\ j + 1 \in DOMAIN w /\ i + 1 < j + 1
      BY <1>1, <2>2
    <3>2. w[i + 1].num < w[j + 1].num
      BY <1>2, <3>1 DEF Ordered
    <3> QED
      BY <1>1, <3>2
  <2> QED
    BY <2>1, <2>2 DEF Ordered
<1>4. Ordered(v, a, Head(l).num, hi) /\ Head(l).num <= hi
  <2>1. \A i \in DOMAIN v : w[1].num < v[i].num
    BY <1>1, <1>2 DEF Ordered
  <2> QED
    BY <1>1, <1>2, <1>3, <2>1 DEF Ordered
<1> QED
  BY <1>1, <1>3, <1>4 DEF v

\* vrr_backlog_rcv keeps to sk_rcvbuf and drops packets only at the end.
LEMMA BacklogRcv ==
    ASSUME NEW l \in Seq(Packet), Len(l) <= RcvBuf, NEW m \in Seq(Packet)
    PROVE  /\ vrr_backlog_rcv(l, m) \in Seq(Packet)
           /\ Len(vrr_backlog_rcv(l, m)) <= RcvBuf
           /\ \E k \in 0 .. Len(m) : vrr_backlog_rcv(l, m) = l \o SubSeq(m, 1, k)
<1> DEFINE k == IF Len(l) + Len(m) <= RcvBuf THEN Len(m) ELSE RcvBuf - Len(l)
<1>1. k \in 0 .. Len(m) /\ Len(l) + k <= RcvBuf
  BY SocketAssumption
<1>2. vrr_backlog_rcv(l, m) = l \o SubSeq(m, 1, k)
  BY DEF vrr_backlog_rcv, Fitting
<1> HIDE DEF k
<1>3. SubSeq(m, 1, k) \in Seq(Packet) /\ Len(SubSeq(m, 1, k)) = k
  BY <1>1
<1> QED
  BY <1>1, <1>2, <1>3

LEMMA QueueInit == Init => QueueInv
<1> SUFFICES ASSUME Init PROVE QueueInv
  OBVIOUS
<1>1. QueueType
  BY SocketAssumption DEF Init, QueueType
<1>2. ASSUME NEW s \in Sock
      PROVE  Ordered(Waiting(s), rem_addr[s], got[s], Newest(s)) /\ got[s] <= Newest(s)
  <2>1. rem_addr[s] = None /\ got[s] = 0 /\ rcvq[s] = <<>> /\ backlog[s] = <<>>
    BY DEF Init
  <2>2. Waiting(s) = <<>>
    BY <2>1 DEF Waiting
  <2> QED
    BY <2>1, <2>2 DEF Newest, Ordered
<1> QED
  BY <1>1, <1>2 DEF QueueInv

\* The packets that wait for a socket whose queues and connection do not change
\* stay in order when more packets are sent.
LEMMA QueueFrame ==
    ASSUME SockInv, QueueInv, SockInv', NEW s \in Sock,
           rem_addr'[s] = rem_addr[s], got'[s] = got[s],
           rcvq'[s] = rcvq[s], backlog'[s] = backlog[s],
           \A a \in Addr : sent'[a] >= sent[a]
    PROVE  (Ordered(Waiting(s), rem_addr[s], got[s], Newest(s)) /\ got[s] <= Newest(s))'
<1>1. /\ Ordered(Waiting(s), rem_addr[s], got[s], Newest(s)) /\ got[s] <= Newest(s)
      /\ rcvq[s] \in Seq(Packet) /\ backlog[s] \in Seq(Packet)
      /\ got[s] \in Nat
  BY DEF QueueInv, QueueType, SockInv, SockType
<1>2. Waiting(s) \in Seq(Packet) /\ Waiting(s)' = Waiting(s)
  BY <1>1 DEF Waiting
<1>3. Newest(s) \in Nat /\ Newest(s)' \in Nat /\ Newest(s) <= Newest(s)'
  BY SocketAssumption DEF Newest, SockInv, SockType
<1>4. \A i \in DOMAIN Waiting(s) : Waiting(s)[i].num \in Nat
  <2>1. \A q \in Packet : q.num \in Nat
    BY SocketAssumption DEF Packet
  <2> HIDE DEF Waiting
  <2>2. \A i \in DOMAIN Waiting(s) : Waiting(s)[i] \in Packet
    BY <1>2
  <2> QED
    BY <2>1, <2>2
<1>5. Ordered(Waiting(s), rem_addr[s], got[s], Newest(s)')
  BY <1>1, <1>3, <1>4 DEF Ordered
<1>6. Ordered(Waiting(s)', rem_addr'[s], got'[s], Newest(s)')
  BY <1>2, <1>5
<1> QED
  BY <1>1, <1>3, <1>6

\* A reader gives the socket back: the backlog follows what it left of the queue.
LEMMA ReleaseQueue ==
    ASSUME SockInv, QueueInv, NEW s \in Sock, NEW l \in Seq(Packet),
           Len(l) <= RcvBuf, NEW lo, Ordered(l \o backlog[s], rem_addr[s], lo, Newest(s)),
           release_sock(s, l)
    PROVE  /\ rcvq' \in [Sock -> Seq(Packet)]
           /\ \A x \in Sock : Len(rcvq'[x]) <= RcvBuf
           /\ Ordered(Waiting(s)', rem_addr[s], lo, Newest(s))
           /\ \A x \in Sock \ {s} : rcvq'[x] = rcvq[x] /\ backlog'[x] = backlog[x]
<1>1. /\ rcvq' = [rcvq EXCEPT ![s] = vrr_backlog_rcv(l, backlog[s])]
      /\ backlog' = [backlog EXCEPT ![s] = <<>>]
  BY DEF release_sock
<1>2. /\ rcvq \in [Sock -> Seq(Packet)] /\ backlog \in [Sock -> Seq(Packet)]
      /\ \A x \in Sock : Len(rcvq[x]) <= RcvBuf
  BY DEF SockInv, SockType, QueueInv, QueueType
<1>3. backlog[s] \in Seq(Packet)
  BY <1>2
<1>4. PICK k \in 0 .. Len(backlog[s]) :
        vrr_backlog_rcv(l, backlog[s]) = l \o SubSeq(backlog[s], 1, k)
  BY <1>3, BacklogRcv
<1> DEFINE n == vrr_backlog_rcv(l, backlog[s])
<1>5. n \in Seq(Packet) /\ Len(n) <= RcvBuf
  BY <1>3, BacklogRcv
<1>6. Ordered(n, rem_addr[s], lo, Newest(s))
  <2>1. Ordered(l \o SubSeq(backlog[s], 1, k), rem_addr[s], lo, Newest(s))
    BY <1>3, OrderedPrefix
  <2> QED
    BY <1>4, <2>1
<1> HIDE DEF n
<1>7. rcvq' = [rcvq EXCEPT ![s] = n]
  BY <1>1 DEF n
<1>8. rcvq'[s] = n /\ backlog'[s] = <<>>
  BY <1>1, <1>2, <1>7
<1>9. Waiting(s)' = n
  <2>1. n \o <<>> = n
    BY <1>5
  <2> QED
    BY <1>8, <2>1 DEF Waiting
<1> QED
  BY <1>1, <1>2, <1>5, <1>6, <1>7, <1>9

\* A data packet is the newest of its node and goes behind what waits.
LEMMA QueueData ==
    ASSUME SockInv, QueueInv, SockInv', NEW a \in Addr, NEW data \in BOOLEAN,
           vrr_rcv_data(a, data)
    PROVE  QueueInv'
<1> DEFINE p == [src |-> a, num |-> sent'[a], data |-> data]
<1>0. /\ SockType /\ BacklogOwned /\ QueueType /\ None \notin Addr
      /\ MaxPackets \in Nat /\ RcvBuf \in Nat
  BY SocketAssumption DEF SockInv, QueueInv
<1>1. /\ sent[a] < MaxPackets /\ sent' = [sent EXCEPT ![a] = @ + 1]
      /\ UNCHANGED <<open, rem_addr, hash, owner, pc, fd, got>>
  BY DEF vrr_rcv_data
<1>2. sent[a] \in Nat /\ sent'[a] = sent[a] + 1 /\ \A b \in Addr : sent'[b] >= sent[b]
  BY <1>0, <1>1 DEF SockType
<1>3. p \in Packet /\ p.src = a /\ p.num = sent[a] + 1
  BY <1>0, <1>1, <1>2 DEF Packet, SockType
<1>4. CASE vrr_find_sock(a) = 0
  <2>1. UNCHANGED <<rcvq, backlog>>
    BY <1>4 DEF vrr_rcv_data
  <2>2. QueueType'
    BY <1>0, <1>1, <2>1 DEF QueueType
  <2>3. ASSUME NEW x \in Sock
        PROVE  (Ordered(Waiting(x), rem_addr[x], got[x], Newest(x)) /\ got[x] <= Newest(x))'
    BY <1>1, <1>2, <2>1, QueueFrame
  <2> QED
    BY <2>2, <2>3 DEF QueueInv
<1>5. CASE vrr_find_sock(a) # 0
  <2>1. PICK s \in Sock : s = hash[vrr_find_sock(a)] /\ rem_addr[s] = a
    BY <1>0, <1>5, FoundSock DEF SockType
  <2>2. IF owner[s] = None
        THEN rcvq' = [rcvq EXCEPT ![s] = vrr_backlog_rcv(@, <<p>>)] /\ UNCHANGED backlog
        ELSE backlog' = [backlog EXCEPT ![s] = Append(@, p)] /\ UNCHANGED rcvq
    BY <1>5, <2>1 DEF vrr_rcv_data
  <2> HIDE DEF p
  <2> DEFINE q == rcvq[s]  b == backlog[s]
  <2>3. q \in Seq(Packet) /\ b \in Seq(Packet) /\ Len(q) <= RcvBuf
    BY <1>0, <2>1 DEF QueueType, SockType
  <2>4. /\ Ordered(q \o b, a, got[s], sent[a]) /\ got[s] <= sent[a] /\ got[s] \in Nat
    BY <1>0, <2>1 DEF QueueInv, QueueType, Waiting, Newest
  <2>5. Ordered(Append(q \o b, p), a, got[s], sent[a] + 1)
    <3>1. q \o b \in Seq(Packet)
      BY <2>3
    <3> QED
      BY <1>2, <1>3, <2>4, <3>1, OrderedAppend
  <2>6. \A x \in Sock \ {s} : rcvq'[x] = rcvq[x] /\ backlog'[x] = backlog[x]
    BY <2>2, <1>0 DEF QueueType, SockType
  <2>7. Newest(s)' = sent[a] + 1
    BY <1>0, <1>1, <1>2, <2>1 DEF Newest
  <2>8. QueueType' /\ Ordered(Waiting(s)', a, got[s], sent[a] + 1)
    <3>1. CASE owner[s] # None
      <4>1. backlog'[s] = Append(b, p) /\ UNCHANGED rcvq
        BY <1>0, <2>1, <2>2, <3>1 DEF SockType
      <4> HIDE DEF q, b
      <4>2. q \o Append(b, p) = Append(q \o b, p)
        BY <1>3, <2>3
      <4>3. Waiting(s)' = Append(q \o b, p)
        BY <4>1, <4>2 DEF Waiting, q
      <4>4. QueueType'
        BY <1>0, <1>1, <4>1 DEF QueueType
      <4> QED
        BY <2>5, <4>3, <4>4
    <3>2. CASE owner[s] = None
      <4>1. /\ rcvq' = [rcvq EXCEPT ![s] = vrr_backlog_rcv(q, <<p>>)] /\ UNCHANGED backlog
            /\ b = <<>>
        BY <1>0, <2>1, <2>2, <3>2 DEF BacklogOwned
      <4>2. <<p>> \in Seq(Packet) /\ Len(<<p>>) = 1
        BY <1>3
      <4> DEFINE n == vrr_backlog_rcv(q, <<p>>)
      <4>3. /\ n \in Seq(Packet) /\ Len(n) <= RcvBuf
            /\ \E k \in 0 .. Len(<<p>>) : n = q \o SubSeq(<<p>>, 1, k)
        BY <2>3, <4>2, BacklogRcv
      <4> HIDE DEF n
      <4>5. rcvq'[s] = n /\ backlog'[s] = <<>>
        BY <1>0, <2>1, <4>1 DEF n, QueueType
      <4>6. Waiting(s)' = n
        <5>1. n \o <<>> = n
          BY <4>3
        <5> QED
          BY <4>5, <5>1 DEF Waiting
      <4>7. QueueType'
        <5>1. rcvq' = [rcvq EXCEPT ![s] = n]
          BY <4>1 DEF n
        <5> QED
          BY <1>0, <1>1, <4>3, <5>1 DEF QueueType
      <4>8. Ordered(n, a, got[s], sent[a] + 1)
        <5>1. q \o <<p>> = Append(q \o b, p)
          BY <1>3, <2>3, <4>1
        <5>2. Ordered(q \o <<p>>, a, got[s], sent[a] + 1)
          BY <2>5, <5>1
        <5>3. \A k \in 0 .. Len(<<p>>) :
                Ordered(q \o SubSeq(<<p>>, 1, k), a, got[s], sent[a] + 1)
          BY <2>3, <4>2, <5>2, OrderedPrefix
        <5> QED
          BY <4>3, <5>3
      <4> QED
        BY <4>6, <4>7, <4>8
    <3> QED
      BY <3>1, <3>2
  <2>9. ASSUME NEW x \in Sock
        PROVE  (Ordered(Waiting(x), rem_addr[x], got[x], Newest(x)) /\ got[x] <= Newest(x))'
    <3>1. CASE x = s
      BY <1>1, <1>2, <2>1, <2>4, <2>7, <2>8, <3>1
    <3>2. CASE x # s
      BY <1>1, <1>2, <2>6, <3>2, QueueFrame
    <3> QED
      BY <3>1, <3>2
  <2> QED
    BY <2>8, <2>9 DEF QueueInv
<1> QED
  BY <1>4, <1>5

\* Readers take packets from the front and leave the rest in order.
LEMMA QueueRecv ==
    ASSUME SockInv, QueueInv, SockInv', NEW t \in Thread,
           vrr_recvmsg(t) \/ \E s \in Sock : RecvBegin(t, s)
    PROVE  QueueInv'
<1>a. PICK s \in Sock : s = fd[t]
  BY DEF SockInv, SockType
<1>0. /\ s \in Sock /\ QueueType /\ SockType /\ RcvBuf \in Nat /\ MaxPackets \in Nat
      /\ rcvq[s] \in Seq(Packet) /\ backlog[s] \in Seq(Packet) /\ Len(rcvq[s]) <= RcvBuf
      /\ Ordered(rcvq[s] \o backlog[s], rem_addr[s], got[s], Newest(s)) /\ got[s] <= Newest(s)
  BY SocketAssumption DEF SockInv, SockType, QueueInv, QueueType, Waiting
<1>1. /\ UNCHANGED <<rem_addr, sent>>
      /\ pc' \in [Thread -> {"idle", "check", "wait"}]
      /\ \A x \in Sock : Newest(x)' = Newest(x)
  <2>1. UNCHANGED <<rem_addr, sent>>
    BY DEF vrr_recvmsg, RecvBegin, RecvEmpty, RecvWake, RecvSignal, RecvSkip, RecvData
  <2>2. pc' \in [Thread -> {"idle", "check", "wait"}]
    BY <1>0 DEF QueueType, vrr_recvmsg, RecvBegin, RecvEmpty, RecvWake, RecvSignal,
                RecvSkip, RecvData
  <2> QED
    BY <2>1, <2>2 DEF Newest
<1>2. \A b \in Addr : sent'[b] >= sent[b]
  BY <1>0, <1>1 DEF SockType
<1>3. ASSUME NEW x \in Sock, x # s, got'[x] = got[x], rcvq'[x] = rcvq[x], backlog'[x] = backlog[x]
      PROVE  (Ordered(Waiting(x), rem_addr[x], got[x], Newest(x)) /\ got[x] <= Newest(x))'
  BY <1>1, <1>2, <1>3, QueueFrame
<1>4. CASE UNCHANGED <<rcvq, backlog, got>>
  <2>1. QueueType'
    BY <1>0, <1>1, <1>4 DEF QueueType
  <2>2. \A x \in Sock : (Ordered(Waiting(x), rem_addr[x], got[x], Newest(x)) /\ got[x] <= Newest(x))'
    BY <1>1, <1>2, <1>4, QueueFrame
  <2> QED
    BY <2>1, <2>2 DEF QueueInv
<1>5. ASSUME NEW l \in {rcvq[s], Tail(rcvq[s])}, release_sock(s, l),
             l \in Seq(Packet), Len(l) <= RcvBuf,
             Ordered(l \o backlog[s], rem_addr[s], got'[s], Newest(s)),
             got' \in [Sock -> 0 .. MaxPackets], got'[s] <= Newest(s),
             \A x \in Sock \ {s} : got'[x] = got[x]
      PROVE  QueueInv'
  <2>1. /\ rcvq' \in [Sock -> Seq(Packet)]
        /\ \A x \in Sock : Len(rcvq'[x]) <= RcvBuf
        /\ Ordered(Waiting(s)', rem_addr[s], got'[s], Newest(s))
        /\ \A x \in Sock \ {s} : rcvq'[x] = rcvq[x] /\ backlog'[x] = backlog[x]
    BY <1>0, <1>5, ReleaseQueue
  <2>2. QueueType'
    BY <1>1, <1>5, <2>1 DEF QueueType
  <2>3. \A x \in Sock : (Ordered(Waiting(x), rem_addr[x], got[x], Newest(x)) /\ got[x] <= Newest(x))'
    <3>1. (Ordered(Waiting(s), rem_addr[s], got[s], Newest(s)) /\ got[s] <= Newest(s))'
      BY <1>1, <1>0, <1>5, <2>1
    <3> QED
      BY <1>3, <1>5, <2>1, <3>1
  <2> QED
    BY <2>2, <2>3 DEF QueueInv
<1>6. CASE RecvEmpty(t) \/ RecvData(t)
  <2>1. CASE release_sock(s, rcvq[s]) /\ UNCHANGED got
    BY <1>0, <1>5, <2>1 DEF QueueType
  <2>2. CASE release_sock(s, Tail(rcvq[s])) /\ rcvq[s] # <<>>
             /\ got' = [got EXCEPT ![s] = Head(rcvq[s]).num]
    <3>1. /\ Ordered(Tail(rcvq[s]) \o backlog[s], rem_addr[s], Head(rcvq[s]).num, Newest(s))
          /\ Head(rcvq[s]).num <= Newest(s) /\ Head(rcvq[s]) \in Packet
      BY <1>0, <2>2, OrderedTail
    <3>2. Tail(rcvq[s]) \in Seq(Packet) /\ Len(Tail(rcvq[s])) <= RcvBuf
      BY <1>0, <2>2
    <3>3. Head(rcvq[s]).num \in 0 .. MaxPackets
      BY <1>0, <3>1 DEF Packet
    <3>4. /\ got' \in [Sock -> 0 .. MaxPackets] /\ got'[s] = Head(rcvq[s]).num
          /\ \A x \in Sock \ {s} : got'[x] = got[x]
      BY <1>0, <2>2, <3>3 DEF QueueType
    <3> QED
      BY <1>5, <2>2, <3>1, <3>2, <3>4
  <2>3. CASE RecvEmpty(t)
    BY <1>a, <2>1, <2>3 DEF RecvEmpty
  <2>4. CASE RecvData(t)
    BY <1>a, <2>1, <2>2, <2>4 DEF RecvData
  <2> QED
    BY <1>6, <2>3, <2>4
<1>7. CASE RecvSkip(t)
  <2>1. /\ rcvq[s] # <<>> /\ rcvq' = [rcvq EXCEPT ![s] = Tail(@)]
        /\ UNCHANGED <<backlog, got>>
    BY <1>a, <1>7 DEF RecvSkip
  <2>2. Ordered(Tail(rcvq[s]) \o backlog[s], rem_addr[s], got[s], Newest(s))
    BY <1>0, <2>1, OrderedTail
  <2>3. Tail(rcvq[s]) \in Seq(Packet) /\ Len(Tail(rcvq[s])) <= RcvBuf
    BY <1>0, <2>1
  <2>4. /\ rcvq' \in [Sock -> Seq(Packet)] /\ rcvq'[s] = Tail(rcvq[s])
        /\ \A x \in Sock \ {s} : rcvq'[x] = rcvq[x]
        /\ \A x \in Sock : Len(rcvq'[x]) <= RcvBuf
    BY <1>0, <2>1, <2>3 DEF QueueType
  <2>5. QueueType'
    BY <1>0, <1>1, <2>1, <2>4 DEF QueueType
  <2>6. Waiting(s)' = Tail(rcvq[s]) \o backlog[s]
    BY <2>1, <2>4 DEF Waiting
  <2>7. \A x \in Sock : (Ordered(Waiting(x), rem_addr[x], got[x], Newest(x)) /\ got[x] <= Newest(x))'
    <3>1. (Ordered(Waiting(s), rem_addr[s], got[s], Newest(s)) /\ got[s] <= Newest(s))'
      BY <1>1, <1>0, <2>1, <2>2, <2>6
    <3> QED
      BY <1>3, <2>1, <2>4, <3>1
  <2> QED
    BY <2>5, <2>7 DEF QueueInv
<1>8. CASE RecvWake(t) \/ RecvSignal(t) \/ \E x \in Sock : RecvBegin(t, x)
  BY <1>4, <1>8 DEF RecvWake, RecvSignal, RecvBegin
<1> QED
  BY <1>6, <1>7, <1>8 DEF vrr_recvmsg

LEMMA QueueStep == SockInv /\ SockInv' /\ QueueInv /\ [Next]_vars => QueueInv'
<1> SUFFICES ASSUME SockInv, SockInv', QueueInv, [Next]_vars PROVE QueueInv'
  OBVIOUS
<1>0. SockType /\ QueueType
  BY DEF SockInv, QueueInv
<1>1. ASSUME UNCHANGED <<rem_addr, rcvq, backlog, pc, got, sent>> PROVE QueueInv'
  <2>1. QueueType'
    BY <1>0, <1>1 DEF QueueType
  <2>2. \A a \in Addr : sent'[a] >= sent[a]
    BY <1>0, <1>1 DEF SockType
  <2>3. ASSUME NEW x \in Sock
        PROVE  (Ordered(Waiting(x), rem_addr[x], got[x], Newest(x)) /\ got[x] <= Newest(x))'
    BY <1>1, <2>2, QueueFrame
  <2> QED
    BY <2>1, <2>3 DEF QueueInv
<1>2. ASSUME NEW s \in Sock, NEW a \in Addr, vrr_connect(s, a) PROVE QueueInv'
  <2>1. /\ rem_addr[s] = None /\ rem_addr' = [rem_addr EXCEPT ![s] = a]
        /\ UNCHANGED <<rcvq, backlog, pc, got, sent>>
    BY <1>2 DEF vrr_connect
  <2>2. \A b \in Addr : sent'[b] >= sent[b]
    BY <1>0, <2>1 DEF SockType
  <2>3. ASSUME NEW x \in Sock
        PROVE  (Ordered(Waiting(x), rem_addr[x], got[x], Newest(x)) /\ got[x] <= Newest(x))'
    <3>1. CASE x = s
      <4>1. /\ Ordered(Waiting(s), None, got[s], 0) /\ got[s] <= 0 /\ got[s] \in Nat
            /\ rcvq[s] \in Seq(Packet) /\ backlog[s] \in Seq(Packet)
        BY <1>0, <2>1 DEF QueueInv, Newest, QueueType, SockType
      <4>2. Waiting(s) \in Seq(Packet)
        BY <4>1 DEF Waiting
      <4>3. ~\E i \in DOMAIN Waiting(s) : TRUE
        <5>1. \A q \in Packet : q.num \in Nat /\ q.num > 0
          BY SocketAssumption DEF Packet
        <5> HIDE DEF Waiting
        <5> QED
          BY <4>1, <4>2, <5>1 DEF Ordered
      <4>4. Waiting(s)' = Waiting(s) /\ got'[s] = got[s]
        BY <2>1 DEF Waiting
      <4>5. Newest(s)' \in Nat
        BY SocketAssumption DEF Newest, SockInv, SockType
      <4>6. Ordered(Waiting(s), rem_addr'[s], got[s], Newest(s)')
        BY <4>3 DEF Ordered
      <4> QED
        BY <3>1, <4>1, <4>4, <4>5, <4>6
    <3>2. CASE x # s
      <4>1. rem_addr'[x] = rem_addr[x]
        BY <2>1, <3>2, <1>0 DEF SockType
      <4> QED
        BY <2>1, <2>2, <4>1, QueueFrame
    <3> QED
      BY <3>1, <3>2
  <2>4. QueueType'
    BY <1>0, <2>1 DEF QueueType
  <2> QED
    BY <2>3, <2>4 DEF QueueInv
<1>3. ASSUME NEW s \in Sock, vrr_create(s) \/ vrr_release(s) PROVE QueueInv'
  BY <1>1, <1>3 DEF vrr_create, vrr_release
<1>4. CASE UNCHANGED vars
  BY <1>1, <1>4 DEF vars
<1> QED
  BY <1>2, <1>3, <1>4, QueueData, QueueRecv DEF Next

LEMMA QueueInvariance == Spec => [](SockInv /\ QueueInv)
BY SockInit, SockStep, QueueInit, QueueStep, PTL DEF Spec

\* The types of all variables; no receive queue grows beyond sk_rcvbuf, however
\* long the backlog is that release_sock adds to it.
THEOREM SocketsTypeOK == Spec => []TypeOK
<1>1. SockInv /\ QueueInv => TypeOK
  BY DEF SockInv, SockType, QueueInv, QueueType, TypeOK
<1> QED
  BY <1>1, QueueInvariance, PTL

\* Readers get the packets of the node they are connected to in order, for any
\* number of readers, sockets and packets and any size of the receive queue.
THEOREM InOrderAlways == Spec => []InOrder
<1>1. SockInv /\ QueueInv => InOrder
  BY DEF QueueInv, Ordered, InOrder
<1> QED
  BY <1>1, QueueInvariance, PTL
=============================================================================
