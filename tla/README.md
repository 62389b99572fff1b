# Verification of the Alpaca VRR kernel module

Alpaca VRR is a Linux kernel module that implements Virtual Ring Routing: every
node has a random identifier, the identifiers form a ring, every node keeps
paths to the few nodes closest to it on the ring, and a packet travels along
those paths. This directory holds TLA+ models of the module, the TLC
configurations that check them on small instances, and TLAPS proofs of the
properties that hold for every instance. `PROJECT.json` maps every definition
to the lines it models and lists runs, mutants, findings, hazards and theorems.

## The system

| component | state | operations | talks to |
|---|---|---|---|
| Physical neighbour discovery (`vrr_input.c`, `vrr_core.c`, `vrr_data.c`) | pset list (status, active, fail_count), `pstate` arrays, `pset_updates` list, `vrr->active`, `vrr->timeout` | `vrr_rcv_hello`, `pset_update_handler`, `detect_failures`, `active_timeout`, `send_hpkt` | other nodes by hello broadcasts; setup by the join request |
| Timer, work queue, life cycle (`vrr_mod.c`) | timer, two work items | `vrr_timer_tick`, `vrr_workqueue_handler`, `vrr_init`, `vrr_exit` | runs discovery |
| Virtual neighbour set (`vrr_data.c`, `vrr_core.c`) | vset list, `vset_size` | `vset_add`, `vset_bump`, `vset_should_add`, `vset_remove`, `vset_get_all`, `vrr_add` | called by the setup handlers on every processor |
| Routing table (`vrr_data.c`) | tree of endpoints, a list of routes each | `rt_add_route`, `rt_remove_route`, `rt_get_next`, `rt_get_next_exclude` | called by setup, teardown and forwarding |
| Path setup and teardown (`vrr_input.c`, `vrr_core.c`) | messages in flight | `vrr_rcv_setup_req`, `vrr_rcv_setup`, `vrr_rcv_setup_fail`, `vrr_rcv_teardown`, `tear_down_path` | routing table, vset, pset |
| Data forwarding (`vrr_output.c`, `vrr_input.c`) | none | `vrr_forward`, `vrr_output`, `vrr_rcv_data` | routing table, pset |
| Deferred updates (`vrr_input.c`) | the list `pset_updates`, shared by softirq and worker without a lock | `vrr_rcv_hello`, `pset_update_handler` | discovery |
| Sockets (`af_vrr.c`) | hash of sockets, references, receive queue, backlog, owner | `vrr_create`, `vrr_connect`, `vrr_recvmsg`, `vrr_release`, `vrr_find_sock`, `vrr_rcv_data`, `vrr_sendmsg` | forwarding; user threads |
| sysfs, packet layout, test programs | - | - | - |

What is hard in this code:

- *Concurrency.* Packets are received in softirq context, on several processors
  at once; the timer runs in softirq context too; the worker thread changes the
  physical set later than the packet that asked for it. The lists are partly
  protected by locks, and checks and acts sit in different critical sections.
- *Failure.* Hellos get lost, neighbours stop, allocations fail in the middle of
  an operation.
- *Ordering and timing.* Two ends of a link walk the same state machine out of
  step; timeouts race the packets that reset them.
- *Numbers.* Distances wrap around the ring, 0 doubles as "none", the counter of
  the virtual set and the list drift apart.

What makes the components correct: a link is used only if it works both ways, is
found when it does, and is dropped when the other end is silent; a hello tells
the truth; the virtual set has no duplicates, stays small and never overruns its
arrays; a route leads away from this node, is stored completely or not at all,
and is gone after it was torn down; paths have no gaps, packets do not circle
where the network has no circles, and nodes in range of each other all come into
the ring; updates and data packets are taken once and in order.

## Modules

**`Neighbor`** models discovery for any set of nodes and any radio topology
(`Hears`). A node's `pset` entry, `pstate`, `pset_updates` list, `active` and
`timeout` are functions of the node; a pset entry that does not exist is
`Absent`, what `pset_get_status` and `pset_get_active` report for an unknown
node. The actions are the handlers: `vrr_timer_tick`, `vrr_workqueue_handler`
(all three calls it makes), `vrr_rcv_hello` (with the resets of `vrr_rcv` and a
failing `kmalloc`), `ReceiveOther` for packets of the other types, `vrr_init`,
`vrr_exit`. `pset_update_handler` shares its list with the receive path without
a lock, so it is one action per loop iteration and one for the final
`INIT_LIST_HEAD`, which drops what arrived in between. Work items are executed
by one worker in the order they were scheduled: true on one processor, where the
kernel's event queue has one thread. A restart draws a new random identifier,
and so is another node of the model.

**`NeighborTimed`** adds the timing of the deployed system, for liveness: all
timers have the same period (`VRR_HPKT_DELAY`, 10 s), far longer than the
delivery of a packet, so in every period each running timer fires once, in any
order, and the packets and work of the period are done before the next. Packets
and memory may be lost on the links of `Lossy` until `Stabilise`.

**`Ring`** is the space of identifiers and `get_diff`.

**`Vset`** is the virtual set of one node with several processors. `vrr_add`
sizes the arrays, `vset_should_add` is its critical section,
`vset_should_add_sort` what follows after the unlock, `vset_add` the second
critical section with `vset_bump` inside. Elements of an array beyond the list
are uninitialised and compare in either way. `cmp_diff` compares addresses, so
the effect of `sort()` is a permutation that depends on the length only; it is
the constant `SortPos`, for which `MCVset` computes what the heap sort of
`lib/sort.c` does and for which the proofs assume nothing but that it permutes.

**`RouteTable`** is the routing table of one node: a partial function from
endpoints to lists of routes. The actions are the handlers that change it, with
every allocation that may fail and duplicate setups and teardowns. The shape of
the red-black tree matters to `rt_search_exclude` only, and is left open. The
model stops (`up = FALSE`) where the code dereferences a null route. Messages
come from any neighbour at any time; who sends them is the business of `Setup`.

**`Setup`** composes the nodes: each has an instance `T(n)` of `RouteTable`, a
physical set, the active neighbours in it, and a virtual set, and they exchange
join requests, setup_req, setup, setup_fail and teardown messages. A handler runs
to its end in the receive softirq and is one action, including the setup_reqs
that `vrr_add` sends, the next hops it looks up, the allocations that fail and
the `tear_down_path` that follows. Messages in flight are a set: they overtake
each other, `Lose` loses one and `Repeat` delivers a setup twice, which happens
when two nodes are in range on two interfaces (`vrr_output` sends on each). Each
frame carries the address of its own interface and the physical set keeps one
address for a node, so the second copy is from an unknown sender and makes
`vrr_rcv_setup` tear the path down. Only setups are repeated: the other handlers
do not look at the sender's address. A second request would be answered by a
setup_fail, and a second teardown stops the kernel (`up = FALSE`).
`pset_update_handler` stands for the hello of a neighbour with the join request
it triggers, `detect_failures` for a link that fails. Which member a full virtual
set prefers is left open, and elements of an offer that lie beyond the list are
junk. `vrr_forward` is the hop a node chooses for a data packet (also what
`vrr_sendmsg` looks up); `Trip` follows a packet through the tables of all nodes
for as many hops as there are nodes. `TreeHops` says that the network is a tree,
in terms of the distances of its nodes.

**`UpdateList`** is the list `pset_updates` pointer by pointer. The worker's
`list_for_each_safe`, `list_del`, `kfree` and `INIT_LIST_HEAD` are one action per
memory access, and the softirq, which takes no lock, appends between any two of
them. **`UpdateQueue`** says what the list amounts to: updates are applied once
each and in order; those that arrive after the worker has seen the end may be
lost; and so may be what follows while the head does not point back to the last
entry (`weak`), a state `INIT_LIST_HEAD` can leave. `UpdateList` is shown to
implement it (`ImplementsQueue`), with the entries the worker will still come to
as `queue`. In `Neighbor` the same handler is one action per entry, and may lose
at its end what arrived after the last entry.

**`Sockets`** is the socket layer of one node. The kernel's socket lock, backlog
and reference counts are modelled as the code uses them: a packet for a socket
that a thread has goes to the backlog, which `release_sock` passes to
`vrr_backlog_rcv`; `vrr_find_sock` takes a reference, `sk_receive_skb` puts it
back and `vrr_rcv_data` puts back another. `vrr_recvmsg` is split where it lets
go of the socket. What a freed socket does is undefined and outside the model. So
is the memory of a packet: one that finds the receive queue full, and did not come
through the backlog, is freed by `vrr_backlog_rcv` (`af_vrr.c:296`) and, because
`vrr_rcv_data` returns its `NET_RX_DROP`, again by `vrr_rcv` (`vrr_input.c:550`).
The model drops such a packet as if it were freed once.

`NeighborProofs`, `NeighborTimedProofs`, `VsetProofs`, `RouteTableProofs`,
`SetupProofs`, `UpdateQueueProofs`, `UpdateListProofs` and `SocketsProofs` hold
the theorems; the `MC` modules the instances for TLC.
Definitions whose comment begins with *Faulty* are mutations of the definition
that follows them; `PROJECT.json` says which property each one breaks.

## Runs

| run | instance | checks |
|---|---|---|
| `neighbor` | 2 nodes in range, both may stop, timeouts 2 and 1, one hello in flight each way, 2 waiting updates | `TypeOK`, `PstateFresh`, `SilentIsFailed`, `OnlyFailedForgotten` |
| `oneway` | timed, timeouts 4 and 8, only `a` is heard, `a` may stop | `BidirectionalLink`, `LonelyActivates`, `StoppedIsForgotten` |
| `stabilise` | timed, timeouts 3 and 1; two nodes that hear each other and a third that one of them hears and that hears nobody; losses at first on one link | `JoinThroughActiveNeighbor`, `LinkStabilises` |
| `activation` | timed, timeouts 4 and 8, both heard | `SomebodyActivates` (violated) |
| `vset` | 2 processors, 6 identifiers, ME included, counter up to 6 | `TypeOK`, `NoDuplicates`, `ListFitsCounter`, `VsetBounded`, `ExactBumpSucceeds` |
| `should_add` | 1 processor, counter up to 7 | `ShouldAddClosest` (violated) |
| `routes` | 3-bit identifiers; a path that starts here, one that passes to identifier 0, one from here to here | `TypeOK`, `NeverForwardToSelf`, `BothEnds` |
| `route_torn` | as `routes` | `TornIsGone` (violated) |
| `setup` | chain of 3 nodes, the middle one active by itself, up to 2 messages in flight, 1 fault | `TypeOK`, `Backtrack`, `Connected`, `NoLoop`, `Tables`, `Converges` |
| `setup_bounce` | the chain with an outer node active by itself, up to 4 messages, no faults | `NotBounced` (violated) |
| `update_list` | 3 list entries, 6 hellos | `NoUseAfterFree`, `ImplementsQueue`, `WaitingIsApplied` |
| `sockets` | 2 sockets, 2 readers, 1 remote node, 4 packets, room for 2 | `TypeOK`, `InOrder`, `FourPackets`, `Served` |

*Bounds.* The transition table and the failure detector are pairwise: the entry of
`m` at `n` depends on `n` and `m` only. What a third node adds is the list of
updates, which it shares: with two nodes and one hello per period no update can
arrive while the worker ends, and `INIT_LIST_HEAD` discards nothing. In
`stabilise` the hellos of `c` keep the worker of `b` busy when those of `a`
arrive, and it does. There `b` may even lose every update of `a`, in each period
anew (`Starved`); `LinkStabilises` excepts that case, which the code has, and says
that losing any part of them is harmless. At first the radio loses hellos of `b`
on their way to `a`, so that the two ends get out of step in both directions; with
losses on every link the instance has 735,160 states, too many for the liveness
check. The safety theorems cover any number of nodes. `VRR_FAIL_TIMEOUT = 2` is
the smallest value the assumption allows and lets a waiting update race both
thresholds. For
`stabilise` it is 3: with 2, two timer ticks of one node may fall between two
hellos of the other and raise a false alarm even on a perfect radio, so the code
(4) has a margin of two periods. `ChanCap` and `UpdateCap` bound the hellos in
flight and the updates not yet applied; a full channel loses the packet, which
the protocol must bear anyway, and a full list delays the receive path. An
activation timeout of 1 makes every hello active, which is enough where
activation does not matter. A counter of 6 lets the virtual set bump, shrink and bump again with a gap; the
kernel's sort moves an element beyond the list to index `radius` only from 22
on, and `VsetBounded` says so. `MaxRoutes` is 4 copies,
enough for a path twice or two paths at once.

In `setup` three nodes in a chain are the smallest network with a node that
passes messages on, and a tree, as TLC confirms (`ChainIsTree`); this is what
`NoLoop` needs, see below. `Path` has a path for every pair, nodes paired with
themselves included (a node that is offered itself, or whose request comes back,
answers itself), and the tables have room for all of them; no identifier is
`UINT_MAX`, which `vrr_add` takes for -1. At most `MaxMessages` messages are in
flight while nothing failed and `MaxAfterFault` afterwards: a handler that would
send more waits, which delays it and takes no order of deliveries away from those
that fit. Two in flight are enough for one to overtake another and for a fault to
meet both; the theorems cover any number. A node makes one join request at a time
(`Quiet`): hellos are ten seconds apart. Path identifiers do not collide and each
path of `Path` is drawn once: a pair that a teardown separated is not joined again.
`Junk` is one identifier. The check `vset_size > VRR_VSET_SIZE` on received
messages is in the model but no message of three nodes fails it.

The active node of `setup` is in the middle: the two others join in any order
and learn of each other from it, and a setup between them may overtake the one
that tells the middle node where to send it. `Converges` says that the nodes come
together unless a request is sent back to its origin (`Bounced`, the finding of
`setup_bounce`) or a setup was stored without a next hop short of its destination
(`DeadEnd`). Without either exception TLC finds a network that never comes
together. All properties of the run also hold with the active node at the end of the
chain, and `Converges` there with 3 messages in flight.

In `update_list` three entries let the list be empty,
have one and have an entry in the middle, and are used twice each. In `sockets`
4 packets are what it takes to use up the references of a connected socket, and
room for 2 makes the third be dropped.

Deadlock is not checked where the system may rest: a node that only reacts to
packets may stay idle, `up = FALSE` is a stopped kernel, and in `neighbor` both
nodes may be unloaded.

*Fairness.* `NeighborTimed`: timers re-arm themselves, so ticks keep coming; the
worker and the receive path are eventually scheduled; every node is started;
packet loss and memory shortage eventually end (`Stabilise`). There is none on
`vrr_exit` and none on the arrival of setup messages. `Setup`: as long as nothing
fails, hellos are repeated and, of the setup_reqs a node made and of the setups it
started, one is delivered in the end; nothing is assumed of setup_fails, nor once a message was lost, for the code does not repeat it.
`UpdateList`: the worker runs when it has work. `Sockets`: threads that can run
do, and `lock_sock` queues its waiters, so one that waits for the socket gets it
(strong fairness of `RecvWake`).

*Refinement.* `Tables` shows that each node of `Setup` does to its routing table
only what `RouteTable` allows. `ImplementsQueue` shows the same of `UpdateList`
and `UpdateQueue`. Both are proved as well, see below.

## What the code does not do

The runs expected to fail show where the code departs from what it says of
itself (details and quotations in `PROJECT.json`):

- `activation`: every packet resets the activation timeout, hellos of inactive
  neighbours included, so a network that starts with two nodes in range never
  has an active node, and nobody to join through.
- `should_add`: `cmp_diff` compares addresses, so the virtual set is not made of
  the closest nodes.
- `route_torn`: removal deletes one of the two copies of a route.
- `setup_bounce`: `rt_get_next_exclude` leaves out the tree node of the source
  and not the source as a next hop. A node that repeats its join request gets it
  back, and answers it itself.

One failed allocation stops another node's kernel. A node that runs out of memory
between the two copies of a route calls `tear_down_path`, which sends a teardown to
the next hop, to which no setup was ever sent. The neighbour does not hold the path,
`rt_remove_route` returns null there, and `vrr_rcv_teardown` reads through it
(`vrr_input.c:466-472`). In `Setup` the neighbour then has `up = FALSE`, four states
after the start; the other nodes go on, and `Backtrack`, `Connected` and `NoLoop`
hold of what it left.

The reference that `vrr_find_sock` takes is put back twice (`vrr_input.c:103-104`),
so each packet costs the socket one, and the fourth frees it while it is open.
`FourPackets` is the good half: the first three do not.

Packets may circle when the network does, which no document excludes and no run is
spent on. In a ring of five nodes 1-2-3-4-5-1, with no fault, let node 1 ask node 3
to be joined through its neighbour 5, and node 4 through 2. The setup of 3 goes
round by 4, that of 4 round by 3, each because its proxy lies there, and as long as
both are on the way 3 and 4 hold a path to 1 whose next hop is the other. If one of
them is lost the loop may stay.

Two more, seen while modelling: `vset_size` is never
decremented, so after a removal the "infallible" `vset_bump` compares with
elements nobody filled; and `rt_get_next` needs an exact match, there is no
greedy routing to the closest endpoint. A third: `vrr_rcv_setup_fail` looks up the
next hop before it compares the destination with this node, so a node that has a
route to the proxy sends its own setup_fail on, and gets it back, for ever.

## Proofs

Theorems hold for every value of the constants that satisfies the named
assumptions.

*Neighbor* (`NeighborAssumption`: a timeout of at least two periods;
`PsetFitsAssumption`: no more neighbours than the arrays hold).

- `TypeInvariance`: `TypeInv` adds to `TypeOK` that an inactive node's count is
  below the limit (`CountingInv`; otherwise `++timeout` could step over it) and
  that a worker inside the loop has an update to read (`LoopInv`).
- `SilentIsFailedAlways`, `OnlyFailedForgottenAlways`: the property is not
  inductive, because an update that waits in the list overwrites the status.
  `SilentInv` says why that is harmless: the shape of the work queue
  (`QueueInv`) and that the node of a waiting update was heard at most one
  failure check ago, none if another check is queued before the update
  (`WaitingInv`).
- `PstateFreshAlways`: every change of a status or of an active flag is followed
  by a refresh in the same handler; deletion needs none because the entry was
  failed already, which is `SilentIsFailed` again.
- `BidirectionalLinkAlways`, `JoinThroughActiveNeighborAlways`: `LinkInv` traces
  knowledge through the protocol: hellos in flight (`ChannelInv`) and waiting
  updates (`UpdateInv`) come from nodes that are heard, and one that lists the
  receiver comes from a node that heard it (`HeardInv`).

*NeighborTimed.* `TimedImplementsNeighbor`: a step of the timed model is a step of
`Neighbor` or changes only its clock. So the safety theorems above hold for the
specification of the liveness runs too; `TimedSafety` says so of the link and
join properties.

*Vset* (`SortAssumption`: `sort()` permutes). `VsetInv` is `TypeOK`,
`NoDuplicates`, `ListFitsCounter`, `VsetBounded` and `GapInv`, which ties a
counter not above `VRR_VSET_SIZE` to the list. `ExactBumpSucceedsAlways` follows
for any permutation: an exact counter leaves no uninitialised element.

*RouteTable* (`RouteAssumption`: path identifiers do not collide, 0 is nobody's
identifier). `RouteInv` says of every stored route that it names this node only
as the next hop of the end that is this node, and is stored under both ends.

*Setup* (`SetupAssumption`: links work in both directions, path identifiers do not
collide), for any network and any number of messages, paths and faults.

- `SetupInvariance`, `SetupTypeOK`. `SetupInv` has three parts.
  `Tabled`: a stored route belongs to a path whose identifier was drawn, its
  previous hop is a neighbour unless the path starts here, its next hop is a
  neighbour or none. `Typed`: the other variables; the physical set stays within
  radio range. `Posted`: every setup in flight comes from a neighbour of its
  receiver, for a path that was drawn, and names a neighbour of its destination as
  proxy, for a setup_req names a neighbour of its source.
- Each action is described once by what it does to the tables and the setups
  (`Effect`): nothing (`Still`), store one path at one node and pass its setup on
  to the next hop just stored (`Lays`), or remove copies under the source of a path
  (`Tears`). `Aimed` says which next hop is stored:
  the destination, or what the table has for a proxy next to it. When `rt_add_route`
  fails halfway, the copy that `tear_down_path` finds is the new one, which is first
  in its list (`FrontCopy`, `FrontRemoved`): nothing is left of it. All the theorems
  that follow but `SetupImplementsTables` rest on `SetupInv` and `Effect` alone.
- `BacktrackAlways` needs `Traced`: a setup in flight was sent along a route its
  sender holds. The sender may run `rt_remove_route` before the setup arrives;
  the proof shows why that is harmless: removal takes the copy under the source
  only, and the entry under the destination, which `Backtrack` follows, is never
  removed. This is the good side of what the run `route_torn` shows.
- `ConnectedAlways`: `Backtrack` goes back one hop at a time and would allow nodes
  that hold the path and refer to each other in a circle. `Connected` says that each
  can be reached from the source along the next hops stored for the path, in any
  network, whether or not a setup runs in circles. It is stated with closed sets of
  nodes in place of sequences of hops, so that the proof needs no induction.
- `NoLoopInTrees`: in a tree every packet arrives or is dropped within as many hops
  as there are nodes, at every stage of setups and teardowns and after any number of
  faults. Each node chooses the path anew, by the highest `path_id`, so following
  one path is not enough. The inductive invariant (`DirectedInvariance`) is that
  every route, stored under whichever endpoint, points one hop closer to it
  (`DirectedRoutes`), and that a setup in flight is between its source and its
  destination and farther from the source than its sender was (`DirectedSetups`,
  the theorem `SetupsAdvance`). They need each other: the previous hop of a route is
  the sender of a setup, and the next hop of a setup is looked up in the routes
  towards the proxy. Here the tree comes in: whoever goes towards a neighbour of a
  node goes towards that node (`TreeAim`), for only one neighbour is closer. In a
  ring this fails and so does `NoLoop`. That a packet makes its hops at all, and is
  closer after each, is an induction by the least counterexample (`LeastOfSet`,
  `Iterate`, `Trips`, `TripsEnd`).
- `EveryTable`: what is proved of one table in `RouteTableProofs` holds of the table
  of every node: `BothEnds`, from `Effect`, and `NeverForwardToSelf`, from `Tabled`.
- `SetupImplementsTables`: at each node every step is a step of `RouteTable` or
  leaves its table alone; the next hop that `Setup` looks up and the message it
  takes are inputs `RouteTable` allows.

The operators of the table are used through lemmas about which routes are stored
under which endpoint (`Entry`): `Found`, `NewNode`, `NewCopy`, `Removed`,
`RouteAdded`. tlapm has no way to cite a theorem of an instance with a parameter
such as `T(n)`, so they are stated in `SetupProofs`, and the theorems of
`RouteTableProofs` are proved again for every node (`EveryTable`).

The hypothesis `TreeHops(hops)` of `NoLoopInTrees` and `SetupsAdvance` is about the
network alone, and says what the distances of any tree satisfy: they are symmetric,
0 for a node itself only, no longer than a detour, at most the number of nodes,
and of the neighbours of a node one is closer to a given other node and the rest
are farther away.

*UpdateQueue*: `QueueInOrderAlways` and `AppliedOnceAlways`, from `QueueInv`: what
waits is strictly increasing and lies between the update applied last and the one
that arrived last, so losing any part of it keeps the order.

*UpdateList* (`ListAssumption`), for any number of entries and updates.

- `NoUseAfterFreeAlways`. `ListInv` says that the list from the worker's position
  on is a chain of entries, each once and none freed (`Rest`). Around it:
  `TailInv` says where `list_add_tail` will append, `FirstInv` that the first
  entry leads back to the head, so unlinking it writes to the head and to no
  freed entry, and `HandInv` that the head does not lead to the entry in the
  worker's hand by the time it is freed. The softirq may append at each of the
  worker's nine program points.
- `ListImplementsQueue`: the refinement of `UpdateQueue`, action by action, from
  `ListInv`. `View` translates the pointers: the chain is what the queue holds,
  and `weak` is that the head does not lead back to its last entry.
- `ListInOrder`: hence the list applies updates at most once and in order, by the
  theorems of `UpdateQueueProofs`, although it may lose some.

*Sockets* (`SocketAssumption`). `SockInv` is the type of the variables that count,
`BacklogOwned` (what the kernel's `release_sock` leaves), and `RefsPaid`: an open socket has two references until it is
connected and then four, less at most one for each packet of its node. This needs
that `vrr_find_sock` finds only sockets connected to that node (`FoundSock`).
`SocketsTypeOK` and `InOrderAlways` use `QueueInv`: what waits in the receive
queue and the backlog of a socket comes from its peer, in increasing order,
between the packet read last and the one sent last. A full receive buffer drops
the end of the backlog, which keeps the order.

Only model-checked, not proved:

- The liveness properties (`LonelyActivates`, `StoppedIsForgotten`,
  `LinkStabilises`, `Converges`, `WaitingIsApplied`, `Served`): fairness is out of
  the prover's reach.
- `NoLoop` outside trees is neither: it does not hold there.
- That the heap sort of `lib/sort.c` is the permutation that `MCVset` computes:
  it is written with recursive operators. The theorems about `Vset` assume only
  that it permutes.

## Not modelled, and the plan

- Several processors inside one handler: `detect_failures`, `rt_search_rmv` and
  `pset_updates` work without their locks, and two processors corrupt the lists
  themselves. What follows is undefined behaviour, about which nothing can be
  claimed. `Vset` is the component whose locks allow it.
- `vrr_sendmsg`: it changes no state of a socket; that it frees a buffer which
  `vrr_output` already consumed is noted as a hazard.
- Allocations whose result the code does not look at (`send_setup_req`,
  `vset_get_all`, `vrr_local_rcv_setup_fail`).
- For good: sysfs formatting, byte layout of packets, kernel registration and the
  test programs (no logic of the protocol), and `rt_remove_nexts` and
  `pset_remove`, which nothing calls.

Every invariant and every action property that a passing run checks is proved, and
so are the three refinements. What remains to be asked is when packets arrive, and
not only end: a setup that dead-ends leaves entries without a next hop, which a
later lookup may prefer, so it needs an order in which nodes join. `Converges`
checks that for the chain, with the orders that fail as its exceptions.
