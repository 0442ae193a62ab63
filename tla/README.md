# Formal model of the AORGLU routing agent

AORGLU is an AODV-like routing agent for the ns-2 simulator with one idea of
its own: nodes know where their neighbours and their correspondents are, and a
source whose route breaks repairs it by forwarding a repair packet
geographically instead of flooding a new route request.  The repository also
holds the AODV agent AORGLU was made from, changed in places, and the priority
queue below both.  This directory holds TLA+ modules for all three, TLC
configurations that check them on small networks, and TLAPS proofs that hold
for every network.

Sources are quoted relative to the repository (`aorglu/...`, `aodv/...`).

## 1. The system

| Component | State | Operations | Talks to |
|---|---|---|---|
| Route discovery and forwarding (`aorglu/aorglu.cc`) | own sequence number `seqno`, broadcast id `bid`, broadcast id cache, neighbour list, LUDP cache | `recv`, `rt_resolve`, `sendRequest`, `recvRequest`, `sendReply`, `recvReply`, `forward`, `rt_ll_failed`, `sendError`; hello, neighbour, broadcast id and route timers | route table, send buffer, location table; other agents by RREQ, RREP, RERR, HELLO |
| Route repair (same file) | route flag `IN_REPAIR`, scheduled LOC_EXP and REPA_RETX events | `recvError`, `init_route_maintenance`, `sendRepa`, `recvRepa`, `forwardRepa`, `forwardRepc` | location table, repair path; other agents by RERR, REPA, REPC, RREP |
| Location updates (same file) | LUDP cache (destination, active, expiry) | `ludpcache_*`, `sendLudp`, `recvLudp` | location table, route table |
| Route table (`aorglu_rtable.cc`) | entries: sequence number, hop count, next hop, flag, search counters | `rt_lookup`, `rt_add`, `rt_update`, `rt_down` | written by every handler |
| Send buffer (`aorglu_rqueue.cc`) | linked list through the packets, deadlines | `enque`, `deque`, `deque(dst)`, `find`, `purge` | drained by requests, replies, timers |
| Location table and geometry (`aorglu_loctable.cc`) | positions by address | `loc_add`, `greedy_next_node`, `left_hand_node`, `right_hand_node` | repair handlers |
| Repair path (`aorglu_path.cc`) | nodes a REPC has visited | `path_add`, `path_lookup`, `clear` | `forwardRepc` |
| AODV agent (`aodv/`) | as AORGLU plus precursors, local repair | as AORGLU plus `local_rt_repair` | link layer |
| Priority queue (`queue/priqueue.cc`) | interface queue | `recv`, `recvHighPriority`, `filter` | link layer |

The simulator runs one handler at a time, so a handler is atomic.  What makes
the system hard is everything between two handlers: messages that are delayed,
lost, or overtaken by younger ones; links that come and go; timers that
invalidate a route while a request or a reply that describes it is on the air;
timers of one repair that act on the next; and one send buffer that four
different handlers drain.  `PROJECT.json` lists these hazards with the line
where each bites and the properties about it.

What makes each component correct:

- discovery: next hops never form a loop; sequence numbers tell old from new
  and valid from invalid; an invalidated route never comes back; every
  assertion in the handlers holds;
- buffer and forwarding: a packet never waits behind a valid route and is never
  in two places; whatever makes a route valid ends the search for it, with its
  retries and its timeout;
- send buffer: the list is well formed and is a bounded FIFO with a timeout;
- route repair: a route under repair has both its timers running and does not
  stay so; a repair issues no number twice and breaks no assertion discovery
  relies on (it does break two, see section 3);
- geometry: the hand rules pick the first neighbour on their side, the edge
  test is segment intersection, a walk round a local maximum is simple and
  planar, and greedy forwarding arrives where there is no local maximum;
- location updates: a peer that gets every update knows where the node is,
  within the distance the node may move unreported;
- AODV: as discovery, and in addition every buffered packet leaves the buffer,
  and every local repair ends;
- interface queue: routing packets first, never longer than its limit, no
  packet waits for an idle link or leaves twice.

## 2. Modules

| Module | What it is |
|---|---|
| `AorgluDiscovery` | a network of agents: discovery, neighbour sensing, forwarding |
| `AorgluDiscovery_proofs` | its theorems and their proofs |
| `AorgluRepair` | extends `AorgluDiscovery`: route errors, repairs, and their timers |
| `AorgluRepair_proofs` | its theorems and their proofs, with those of discovery |
| `AorgluGeo` | operators: greedy forwarding, the hand rules, the edge test, the path |
| `AorgluPerimeter` | one repair on its way over a network of points, with `AorgluGeo` |
| `AorgluPerimeter_proofs` | its theorems and their proofs |
| `AorgluLudp` | the LUDP cache, its timers, and what the peers know |
| `AorgluLudp_proofs` | its theorems and their proofs |
| `PacketBuffer` | the abstract send buffer |
| `AorgluRqueue` | the linked list, and the mapping under which it implements `PacketBuffer` |
| `AorgluRqueue_proofs` | its theorems and their proofs |
| `Aodv` | a network of AODV agents: discovery, route errors, link failures, local repair |
| `Aodv_proofs` | its theorems and their proofs |
| `RouteOrder` | the abstract specification of loop-free routing, which discovery implements, and AODV until a local repair is begun |
| `RouteOrder_proofs` | that it is loop free |
| `PriQueue` | the interface queue |
| `PriQueue_proofs` | its theorems and their proofs |
| `MC...` | networks, flows, placements and bounds for TLC |

`AorgluRepair` composes discovery, repair and geometry; `AorgluPerimeter` takes
the geometry alone, over placements too many for the whole network.

### AorgluDiscovery

One action per handler; a handler with several outcomes is a disjunction of
named actions (`recvRequest` is `DiscardRequest`, `AnswerRequest` or
`ForwardRequest`), each with everything the handler does on that path.

| Variable | Code |
|---|---|
| `seqno`, `bid` | `AORGLU::seqno`, `AORGLU::bid` |
| `rt[n][d]` | the entry of `n`'s route table for `d`; `"ABSENT"` before `rt_add` |
| `ids`, `nb`, `loc`, `ludp` | broadcast id cache, neighbour list, location table, LUDP cache |
| `queue` | the send buffer, as a set |
| `rreq`, `rrep`, `rerr` | control messages on the air, one copy per receiver |
| `data` | frames with application packets |
| `failed` | the assertions found violated; a failed assertion ends the run |

| Action | Code |
|---|---|
| `Originate`, `Relay`, `Consume` | `recv` for an application packet: the node's own, another's, or one that ends here |
| `rt_resolve` (three cases) | forward, buffer and search, or report an error |
| `sendRequest` (`RateLimited`, `GiveUp`, `Search`) | rate limit, end of the retries, a request with the ring's TTL |
| `recvRequest`, `recvReply` | as named, with `forward` and `sendReply` inside |
| `recvHello`, `nb_delete` | `nb_insert`; `nb_purge` with `handle_link_failure` |
| `rt_purge`, `id_purge`, `rt_ll_failed` | as named |
| `Lose` | the medium |

A search is `reqCnt` and `reqWait` of the route entry (`rt_req_cnt`,
`rt_req_timeout`).  They are what limits requests, not a request under way:
`GiveUp` sets the timeout too, and until it has passed the next packet is
buffered and its request refused (aorglu.cc:1261); the code that would ask
again from `rt_purge` is commented out (656-665).  `SearchOver` is therefore
about how a search ends, and the configuration `GivenUp` shows the packet
nobody asks for.

`recvRequest` and `recvReply` share their first half, which learns a route and
drains the buffer (`LearnReverse`, `LearnForward`); `Fresher` is the one test
both make before they replace a route.

Abstractions, and why they are sound for the properties:

- *Time.*  An expiry test is a choice of what has expired: any valid route may
  expire at any `rt_purge`, any neighbour may time out, a search may be
  repeated at any time.  This includes every timing of the code and more.  One
  timing fact is kept: a broadcast id is forgotten only when no copy of its
  request is on the air (`BCAST_ID_SAVE` is 6 s; a flood lasts a fraction of
  that).  Without it a node may answer the same request twice.
- *Positions.*  Nodes do not move, so the coordinates of a node are the node:
  `loc[n][m]` says whose coordinates `n` has stored under `m`.  Links fail by
  losing any message or by a missed hello.
- *Broadcasts* reach any subset of the neighbours; requests lost are those
  never delivered.  Messages are a set: no order between them.  Two identical
  messages on the air are one, and a unicast frame is delivered or fails, not
  both.
- *Buffer.*  `enque` and `deque` first purge what timed out and `enque` may
  evict the head: the action loses an arbitrary set of buffered packets.
  `AorgluRqueue` has the order and the deadlines.
- *Route errors* are sent and may be lost; the handler that takes them is in
  `AorgluRepair`.  Hence no route is `IN_REPAIR` in a behaviour of this module
  alone, and the code for that flag in `rt_resolve` is reached from there.
- *Left out* because no AORGLU handler reads it: precursor lists, discovery
  latencies, statistics, logs, and the location cache timer (never started:
  `LOC_CACHE_EXP` is -1).

Bounds: `MaxSeqno[n]` (own sequence numbers; a node at its bound neither
searches, answers nor notices a change of neighbours) and `MaxSent`
(application packets).

### AorgluRqueue and PacketBuffer

`PacketBuffer` is what the agent relies on: a sequence of packets with the
time each has left.  What a call finds (`Fresh`) is everything from the first
packet that has not timed out: packets age in the order they came, and the
code goes through the list in that order.  `AorgluRqueue` has `head_`, `tail_`, `len_` and the
`next_` pointer of every packet, including packets outside the buffer, which
keep the pointer of their former place.  `unlink` is the three-way branch that
`deque(dst)` and `purge` share, `purge_one` the body of its loop; `Chain` walks
the pointers from `head_`, and `Items`, the packets it meets with their time
left, is the mapping to `PacketBuffer`.  Time left replaces `ts_ - CURRENT_TIME`, with
every negative value -1, so the model has no bound on time.  A packet already
in the buffer is not handed to it again: the agent owns a packet only after
`deque` or on arrival.  `aodv/aodv_rqueue.cc` is the same code with other
names, so `PacketBuffer` is the model of AODV's buffer as well: its actions are
mapped to those lines, and the refinement holds for both.  Packets that time
out leave the list in `purge` without being dropped or freed; in the model they
leave without a `result`.

### AorgluRepair

Extends `AorgluDiscovery`: `RepairNext` is `Next`, or one of the handlers and
timers that `Next` does not have.

| Variable | Code |
|---|---|
| `repa` | REPA and REPC packets on the air; a REPC carries its path and its direction |
| `locexp[n][d]`, `reparetx[n][d]` | LOC_EXP and REPA_RETX events `n` has scheduled for `d`: a count, since every route error schedules another pair |

| Action | Code |
|---|---|
| `recvError` (`StartRepair`, `GiveUpRoute`, `ForwardError`) | the source knows a place for the destination, or does not, or the error is passed on |
| `init_route_maintenance` (`StartGreedy`, `StartAround`) | one REPA, or a REPC each way round; called by `recvError` and by the REPA_RETX timer |
| `AnswerRepair`, `PassOnRepair` | `recvRepa` at the destination and at a relay |
| `forwardRepc` | as named: leaves the maximum, or takes the next hand |
| `LocExp`, `RepaRetx` | `handle` of the two timers |

- The TTL of errors and repairs starts at 30 and is read by no handler before
  it has run out; it is left out.  `MaxHops` bounds the hop count instead.
- Nodes do not move and positions do not expire, so no location update is due;
  `AorgluLudp` has them.
- The runs start in the states `MCAorgluRepair` defines: a route has been found
  by a request and used, everybody knows his neighbours, requests are
  forgotten, and then nothing, or the invalidation of one relay's route, has
  happened.  They are states a discovery leads to.  From `RepairInit` the same
  cases need a complete discovery first, and TLC does not get through them.
- A node at the bound `MaxSeqno` can neither repair nor search.  `RepairEnds`
  excuses it, and the source has room for a repair and the search after it
  (6, 8, 10), so the excuse does not empty the property.

### AorgluGeo and AorgluPerimeter

`AorgluGeo` has points with integer coordinates and exact tests.  The code
computes in doubles and compares angles in thousandths of a radian, so three
nodes on a line, or two at one point, hang on rounding: the placements of the
runs exclude them (`GeneralPosition`).  Scans of a neighbour list whose order
the code does not determine return the set of nodes they may end with.

`AorgluPerimeter` follows one copy of a repair: `init_route_maintenance`,
`PassOn` (`recvRepa` at a relay), `Walk` (`forwardRepc`), `ReachDest`.  The two
copies that leave a local maximum do not meet, so either one is followed.  The
state has no hop count, so a repair that comes back to where it has been is in
the state it was in, and a circle is a liveness violation rather than an endless
run.

### AorgluLudp

| Variable | Code |
|---|---|
| `now`, `at`, `last` | the clock, the position of the node, `lastX_` and `lastY_` |
| `cache` | `lchead`: the list of LUDP entries, each with a ghost field `freed` |
| `lutime`, `cctime` | when the location update timer and the cache timer are due |
| `air[p]`, `loc[p]`, `missed` | positions on their way to a peer, what the peer believes, and (ghost) which peers have lost the last one |

The node moves at most `Speed` per time unit on a line; the hops between it
and a peer are a channel that keeps the order and loses anything.
`ludpcache_checkactive` deletes an entry that is still on the list: the
allocator may leave its next pointer as it was or not, and the list goes on or
ends there.

### Aodv

As `AorgluDiscovery` (same names where the code has the same), with what AODV
has in addition: replies of relays (`AnswerFromRoute`), precursor lists (`pc`),
route errors that list destinations (`recvError`), link-layer failures
(`rt_ll_failed`: `BreakLink` or `local_rt_repair`) and the local repair timers
(`repair[n][d]`).  The agent is built with `AODV_LINK_LAYER_DETECTION`
(`aodv.h`): hellos and the neighbour list are not compiled in.
`AODV_LOCAL_REPAIR` is a constant, since the code is there under `#ifdef`;
`aodv.h` (line 49) defines it.

- `rt_purge` is one step per route entry: the entries do not read each other,
  and the handler has no step in between that another could see.
- A message that is lost is one that is never delivered: there is no action
  for it, and no fairness that would force delivery.
- `id_purge` also removes the copies of a forgotten request from the air, which
  is the timing fact of `AorgluDiscovery` in another form.
- `local_rt_repair` copies the packet for its timer (aodv.cc:401) after `enque`
  and `sendRequest`, either of which may have dropped and freed it.  The timer
  reads only the destination of the copy, and the model takes it to be right;
  what a freed packet holds is not modelled.

### RouteOrder

What the two agents have in common once messages, buffers, searches and
assertions are left out: `issued[d]`, the last number `d` has given itself, and
`route[n][d]`, which is valid or not and has a number, a distance and a next
hop.  A step is a handler of one node `n`: it may change any of `n`'s routes,
each by `Adopt` (a better route, with a number its destination has issued, whose
next hop has a better one still, or is the destination) or `Withdraw` (a valid
route goes, and the entry keeps a larger number than the route had), and
destinations may issue numbers.  `Better` is the order the code tests by before
it replaces a route: a larger number, or the same one and fewer hops.

`AorgluDiscovery` and `Aodv` map to it with their `seqno` and with `RouteTable`,
which reads the four fields off `rt` (`Routes == INSTANCE RouteOrder WITH ...`,
property `ImplementsRouteOrder`).  What makes the mapping hold is not visible in
one handler: that the sender of a message still has a better route than the one
the message offers when the message arrives, however late.  Agents that repair
do not implement it: the LOC_EXP timer and `GiveUpRoute` of AORGLU, and the
local repair timer of AODV, take a route down with the number it had (see the
configurations `RepairOdd` and `AodvRepairEven`).

### PriQueue

`q`, the packet on the `link`, and the packets that have left another way
(`out`).  `recv`, `recvHighPriority`, the two `filter` functions and
`Terminate` are the code of `queue/priqueue.cc`; `Queue`, `DropTail` and
`PacketQueue` of ns-2 are not in the repository and are modelled as `priqueue.cc`
uses them (`HandDown`, `QueueRecv`, `resume`).

## 3. Runs

| Run | What it asks | Instance |
|---|---|---|
| `discovery` | no assertion fails, routes sound and loop free, the handlers implement `RouteOrder`, numbers issued, packets in one place and never behind a route, and a search is over, with its timeout, once there is a route | 3 nodes that hear each other, two of which search for each other; two packets in all; diameter 2, `RREQ_RETRIES` 0, numbers for two searches, or a search and an answer, of the one and one of the other |
| `rqueue_list` | the list is well formed, ordered, and implements `PacketBuffer` | 4 packets, room for 3, timeout 2 |
| `aodv` | the same of AODV, and every buffered packet leaves the buffer | 3 nodes that hear each other and one out of reach; one packet, for any of two destinations |
| `aodv_repair` | local repair: only the three assertions that want a route with a distance UP can fail, each only for the very route under repair that it looks at; a packet is sent once and not left behind; the repair ends | line of 4, the source and the relay before the destination both send to it; routes in use, with one packet still to come or two on the last hop |
| `repair` | both timers run while a route is under repair, the repair ends, numbers are issued, packets are in one place and not left behind; of the assertions of discovery only two can fail, each only for the very route under repair that it looks at | line of 3 placed so that a repair from one end starts greedily and from the other at a local maximum, and a fourth node that has moved away |
| `perimeter` | walks are simple, planar and leave before the destination; edge test and hand rules are exact; greedy forwarding arrives without a local maximum | source, destination and four relays: all placements on a grid of 5 x 5 in general position |
| `ludp_track` | a peer with every update knows where the node is | one peer, a field of 9 points, radius 2, 9 time units |
| `pri_queue` | routing first, below the limit, nothing waits for an idle link, once only | 6 packets, limit 4, two next hops |

Why these bounds.  A loop, a stale message or a resurrected route needs a node
that relays, one that is the destination and one that hears both, hence three
nodes; in the triangle every link may lose everything, so that lines and pairs
are among its behaviours, and so are searches that find nothing and give up.  The
fourth node of `aodv` is a destination nobody can find, for a source that may
also look for another.  In `discovery` the packets go both ways, so that the
request of the one meets the search of the other and ends it; one node has
numbers for two searches or a search and an answer, the other for one of either.
Two searches answered twice, with both packets from one node, are the
configuration `DiscoveryAgain`.  In the other runs sequence numbers up to 6 or 8
at the source allow two or three searches, or a search and invalidations.  A
local repair needs a relay that is not next
to the source and nearer to the destination, hence four nodes; a packet that is
lost while the route is under repair, which is when `handle_link_failure` fails,
must be the relay's own or have been on its way before, hence two sources and
the start with two packets on the last hop.  A walk round a
local maximum that is longer than one hop needs three relays; with four, walks
both ways and returns to greedy forwarding occur.  The list of the buffer needs
three packets to have a middle one and a fourth to evict one; the interface
queue two routing packets and two others below its limit, and one of each that
overflows it.  `LUDP_CACHE_SAVE` is longer than the run `ludp_track`: the
property is about active peers, and what happens when entries expire is the run
`ludp_freed`.  The theorems below do not depend on any of these bounds; where
one needs a hypothesis, its row says so.

Deadlock is not checked in the runs with `CHECK_DEADLOCK FALSE`: at the bounds
of the model, with nothing on the air, nothing is left to do, and a failed
assertion ends the program.

Fairness, stated next to each specification, is only that of the scheduler of
ns-2, which handles every event that has been scheduled:

- `Aodv!LiveSpec`: the route cache timer fires every half second for ever, and
  a search that is pending times out in the end; so a packet that is buffered
  is looked at again and again.  No request or reply need arrive.
- `Aodv!RepairFairness` and `AorgluRepair!RepairFairness`: a local repair timer,
  or a LOC_EXP event, that has been scheduled is handled.
- `AorgluPerimeter!FairSpec`: the packet on the air is delivered.  This one
  assumes a link layer that delivers; the property says where geographic
  forwarding leads, not that the medium is good.

The medium has no fairness in any network model.

Four runs show where the code departs from what it says of itself:

| Run | What the code does |
|---|---|
| `wrong_location` | `recvRequest` (aorglu.cc:897) stores the source's coordinates under the address of the relay |
| `perimeter_below` | `left_hand_node` and `right_hand_node` (aorglu_loctable.cc:108) turn the other way when the direction they turn from points straight down |
| `repair_link` | `handle_link_failure` (aorglu.cc:2072) asserts every route with a distance to be UP; a route under repair has one and is not |
| `ludp_freed` | `ludpcache_checkactive` (aorglu.cc:365) frees entries that stay on the list |

More configurations are kept beside these, each but the first with a
counterexample of its own; they are not among the runs of `PROJECT.json`, and
run with the module named.

| Configuration | Module | Violates | What the code does |
|---|---|---|---|
| `DiscoveryAgain` | `MCAorgluDiscovery` | nothing | the properties of `discovery`, with both packets from one node, which may search twice and be answered twice |
| `GivenUp` | `MCAorgluDiscovery` | `BufferedIsAsked` | after a search has been given up, the next packet is buffered and its request refused by the timeout, and nothing asks again until another packet comes (aorglu.cc:1261, 656) |
| `ExtraRetry` | `MCAorgluDiscovery` | `RetriesBounded` | `rt_req_cnt > RREQ_RETRIES` (aorglu.cc:1270) allows one network-wide search more than `RREQ_RETRIES` |
| `FirstQuery` | `MCAorgluDiscovery` | `FirstQueryIsNear` | the TTL_START branch (aorglu.cc:1291) is dead: the first query is network-wide |
| `BufferPeriod` | `MCAorgluRqueue` | `BufferPeriod` | no timer purges the send buffer, so a packet outstays its timeout |
| `RepairGreedy` | `MCAorgluRepair` | `GreedyAssertHolds` | a node without neighbours starts or repeats a repair (aorglu_loctable.cc:57) |
| `RepairForward` | `MCAorgluRepair` | `ForwardAssertHolds` | an error follows a route that is no longer UP (aorglu.cc:1094, 1200) |
| `RepairReply` | `MCAorgluRepair` | `ReplyAssertHolds` | a reply is passed on towards a node whose route is under repair (aorglu.cc:1026) |
| `RepairRelearnt` | `MCAorgluRepair` | `ErrorsAreCurrent` | a route error takes down a route that was learned after the error was sent (aorglu.cc:1086) |
| `RepairOdd` | `MCAorgluRepair` | `DownIsOdd` | the LOC_EXP timer takes a route down with an even number (aorglu.cc:189) |
| `PerimeterReturn` | `MCAorgluPerimeter` | `LeftForGood` | a repair that has left a local maximum comes back to it and goes round for ever (aorglu.cc:1810) |
| `AodvRepairEven` | `MCAodv` | `DownIsOdd` | the local repair timer takes a route down with an even number (aodv.cc:206) |
| `AodvRepairLoop` | `MCAodv` | `NoLoop` | the route that went down with its number is replaced by the answer of an upstream relay, which had the same number through the node itself (aodv.cc:206, 776) |
| `AodvRepairSilent` | `MCAodv` | `RepairFailureReported` | a local repair that fails is not reported upstream (aodv.cc:208) |
| `AodvRepairAssert` | `MCAodv` | `NoAssertFails` | as `repair_link`, in AODV, when the relay has packets of its own for the same destination (aodv.cc:359) |

## 4. Proofs

`AorgluDiscovery_proofs` proves, for every set of nodes, every topology, every
value of the protocol constants allowed by the three named assumptions and
every bound:

| Theorem | Statement | Argument |
|---|---|---|
| `TypeCorrect` | `[]TypeOK` | inductive with the topology assumption; one step per action |
| `Soundness` | `[]Sound` | a valid route has an even number and a hop count within the diameter because every message has, and a message's hops and TTL together never exceed the diameter |
| `NoAssertion` | `[]NoAssertFails` | each assertion follows from `Sound` in the state where it is evaluated |
| `Improvement` | `RoutesImprove` | the only writers of a route are an update that passed `Fresher` and an invalidation that raised the number |
| `Issued` | `[]SeqnosIssued` | a number enters the network only from its destination; an invalidation adds one, and `ReplySeqno` exceeds what was asked for.  Inductive as `Numbered`: an entry may be one ahead only while it has no distance, so that an invalidation never adds a second one |
| `LoopFree` | `[]NextHopCloser` | needs a strengthening: every reply and request on the air is itself closer at its sender (`MessagesCloser`), because its sender passed it on after learning at least as good a route; `Improvement` keeps this true while the message travels |
| `BuffersDrained` | `[]NoneBufferedWhenUp` | whoever makes a route valid drains the buffer in the same step, and nothing is buffered behind a valid route |
| `SearchesEnd` | `[]SearchOver` | inductive with `SearchesSound`: without a timeout there is no count.  `recvRequest` resets the count only where it finds a timeout, so that the count of a search whose timeout is gone would stay |
| `RefinesRouteOrder` | `Spec => ImplementsRouteOrder` | one handler changes one node's table (`OneTable`); each of its entries is kept, learned from a message or dropped (`EntrySteps`).  What is learned is better than the old route (`Fresher`), issued (`MessagesNumbered`) and worse than the sender's (`MessagesCloser`), hence `Adopt`; what is dropped was valid (`Sound`), hence `Withdraw` |
| `NoRoutingLoop` | `[]Routes!NoLoop` | from `RefinesRouteOrder` and `OrderedRoutes` below |
| `PacketIsOnce` | `[]PacketOnce` | strengthened by `IdsSent` (ids in use have been given out); a step loses packets (`Shrinks`), moves some of one buffer to the air (`Dequeues`), or puts one packet that is nowhere else in one place (`Resolves`) |

The assumptions (`NodeAssumption`, `TopologyAssumption`, `ConstantAssumption`)
ask for what the constants of `aorglu.h` satisfy: a diameter below `INFINITY2`
and ring parameters within the diameter.  TLC evaluates them in every
discovery run.

`AorgluRepair_proofs` extends that module and proves, under the same
assumptions and for every placement of the nodes, of `RepairSpec`:

| Theorem | Statement | Argument |
|---|---|---|
| `RepairTypeCorrect` | `[]RepairTypeOK` | every packet of a repair has the fields the handlers teach routes from, wherever it is sent; the steps of discovery keep what they kept, by the lemmas of `TypeCorrect` |
| `TimersRun` | `[]RepairTimed` | only `recvError` puts a route under repair, and it sets both timers in that step (`NotPut`: no step of discovery does); LOC_EXP uses its event up only with the route up or down afterwards, REPA_RETX only when the route is not under repair |
| `RepairPacketIsOnce` | `[]PacketOnce` | as `PacketIsOnce`: a repair that teaches a route is a `Dequeues`, the other new steps are `Shrinks` |
| `RepairIssued` | `[]SeqnosIssued` | a route put under repair while it was down may be one ahead, and then has no distance (`Numbered`), so nothing is learned from it; repairs on the air carry a number their source has issued |
| `RoutesYield` | `[][\A n, d \in Node : Yields(n, d)]_rt` | every step keeps an entry, learns what is `Fresher`, marks it or takes it down: `EntrySteps` of discovery and `RepairSteps` of the repair |
| `RepairDrains` | `[]NoneBufferedWhenUp` | a repair that makes a route valid drains the buffer in that step; a relay buffers only what it has no valid route for.  A repair sent around a local maximum also writes the route of its source to itself (`RouteToSelf`), and drains nothing: no node buffers a packet for itself (`Unsent`) |
| `RepairAborts` | `[]AbortsUnderRepair`, for `MaxHops < INFINITY2` | `RepairSound`: valid routes and repairs on the air have even numbers and a hop count below `INFINITY2`; with that every other assertion of discovery holds, that of `rt_resolve` (aorglu.cc:555) among them, and `handle_link_failure` and `recvReply` fail only for a route under repair through the neighbour given up, or that the reply has to follow.  The hypothesis stands for the width of the code's hop counts: `INFINITY2` is the largest of them, and a repair that had travelled that far would teach a valid route without a distance |

`RouteOrder_proofs` proves, for every set of nodes, finite or not:

| Theorem | Statement | Argument |
|---|---|---|
| `OrderedRoutes` | `[]NoLoop`: of any nodes that have a valid route to `d`, other than `d`, one has its next hop outside | inductive are `Dated` (valid routes have issued numbers) and `Closer` (a next hop is the destination or has a better route).  Numbers that are bounded by an issued one have a largest, and the routes that have it a shortest (`BestRoute`, from the well-foundedness of the naturals); the next hop of that route would have a better one |

`NoLoop` is what loop freedom is about, `NextHopCloser` what makes it so; the
one says nothing about numbers.

`Yields(n, d)`, in the theorems `RoutesYield`, is what agents that repair keep of
that order: the number a node holds never falls, and with the same number the
distance only grows when the route goes down.  It is less than loop freedom:
in AODV with local repair the route to the destination goes down with its own
number, and the answer of a relay upstream closes a circle
(`AodvRepairLoop`).

`Aodv_proofs` proves, for every set of nodes, every topology and every value of
the constants the three named assumptions allow, with and without local repair:

| Theorem | Statement | Argument |
|---|---|---|
| `TypeCorrect` | `[]TypeOK` | inductive; one step per action |
| `SeqnosCome` | `[]SeqnosIssued` | inductive as `NumbersIssued`, which adds that a route under repair still has an issued number, and that route errors are at most one ahead; the answer of a relay carries the number of a valid route |
| `RoutesYield` | `[][\A n, d \in Node : Yields(n, d)]_rt` | a route is kept, marked, learned if `Fresher`, or taken down with a number that is no smaller (`EntrySteps`) |
| `BuffersDrained` | `[]NoneBufferedWhenUp` | whatever makes a route valid drains the buffer in that step, and nothing is buffered behind a valid route |
| `PacketIsOnce` | `[]PacketOnce` | as in discovery; a local repair moves one frame into the buffer |
| `RepairAborts` | `AbortsUnderRepair`, while `[]RepliesNear` | `EvenRoutes`: whatever has a distance has an even number, and so does whatever it is learned from; so every assertion holds but the three that want a route with a distance UP, and those fail only for a route that local repair has marked |

`RepliesNear` says that no reply has come `INFINITY2` hops.  With local repair a
longer route with the same number may be learned again, and nothing in the code
bounds the hop count of a reply; one that had come so far would teach a valid
route without a distance.

And, for as few nodes as `FewNodes` says, while no local repair is begun
(`Spec /\ []NoRepairs => ...`), in the repository's own build as well as in the
one without local repair:

| Theorem | Statement | Argument |
|---|---|---|
| `Soundness` | `[]Sound` | part of `PlainInv == NoRepairs /\ Sound /\ Parity /\ HopsBounded`: numbers of valid routes, requests and replies are even and positive, those of errors odd, and a reply has come no more hops than the diameter and the number of nodes with a better route |
| `Improvement` | `RoutesImprove` | a route is kept, learned if `Fresher`, or taken down with a larger number (`PlainSteps`) |
| `NoAssertion` | `[]NoAssertFails` | each assertion follows from `PlainInv` in the state where it is evaluated |
| `LoopFree` | `[]NextHopCloser` | as in discovery, with `MessagesCloser`; a relay that answers offers one hop more than it has |
| `RefinesRouteOrder` | `Spec => ImplementsRouteOrder` | `OneNode` and `PlainSteps`, with `MessagesCloser` and `NumbersIssued`, as in discovery |
| `NoRoutingLoop` | `[]Routes!NoLoop` | from `RefinesRouteOrder` and `OrderedRoutes` |

`FewNodes` says that there are fewer than `INFINITY2 - NETWORK_DIAMETER` nodes
(225 with the constants of the code).  It is needed because a relay answers
with one hop more than its own route and a TTL that starts anew: in a network
without bound, replies passed on from relay to relay may reach the hop count
that means no route.

`NoRepairs` says that no local repair timer is pending; it holds of every prefix
of a run up to the first link failure that `rt_ll_failed` answers with a local
repair: a packet lost by a relay after more hops than its route says are left.
Losses at the source, and at relays nearer to it, are within the hypothesis, and
so are timeouts, lost messages and route errors.  In the build without line 49 of
`aodv.h` it always holds (`NoRepairsWithout`), and the run `aodv` checks that
build.  Once a repair has begun the statements are false: its timer takes a
route down with the number it had, which is then even (`AodvRepairEven`), so
that a route as old may be learned again, even in a circle (`AodvRepairLoop`),
and a route under repair meets assertions that expect it up
(`AodvRepairAssert`).  What is left then is the first table.

`AorgluPerimeter_proofs` proves, for every set of placements on points with
integer coordinates (`PlacementAssumption`) and any number of nodes:

| Theorem | Statement | Argument |
|---|---|---|
| `TypeCorrect` | `[]TypeOK` | inductive |
| `WalksAreSimple` | `[]WalkSimple` | the walk is the current node, the one before it and the path of the packet; every hop puts one node in front, and `valid_location` has refused those already there |
| `WalksAreShort` | the walk is no longer than there are nodes, for finitely many nodes | a simple walk is an injection |
| `WalksArePlanar` | `[]WalkPlanar`, if the edge test is exact for the placement | `valid_location` has refused every edge that crosses an earlier one |
| `WalksMissDest` | `[]WalkMissesDest`, if no other node stands at the destination's point | to a node that hears the destination it is the one best next hop, so that the repair ends there and no walk goes on from it |

| `EdgesAreTested` | `[]EdgeTestExact`, if `GeneralPosition` | an angle is compared by its cosine, a half plane by the ordinate over a line; `CosLessIs`, `OppositeIs` and `AcrossIs` give each test by the sides the points are on, and `CrossesIs` combines them |
| `HandsTurn` | `[]HandRules`, if `GeneralPosition` | on one side of a direction the smaller cosine is the further turn (`CosLessIs`), and the test by which the code turns the angle round tells the sides apart (`ReflexIs`, `LargerIs`) |
| `WalksArePlanarThere` | `[]WalkPlanar`, if `GeneralPosition` | from `WalksArePlanar` and `EdgesAreTested` |
| `GreedyApproaches` | `[]OnTheAir /\ [][Approaches]_vars`, if no node is a local maximum | `GreedyInv`: the one packet on the air is a REPA; whoever passes it on has a neighbour nearer to the destination and takes the nearest |

`GeneralPosition` says that no three nodes are on a line, which is how the
placements of the run `perimeter` are chosen.  The lemmas about directions are
identities and signs of polynomials in the coordinates: the code squares the
law of cosines and keeps the sign, so that `CosLess` is a comparison of products
of degree six, and `CosineFalls` reduces it to the sign of one cross product.
The vertical directions and edges, whose slopes the code does not guard, are
cases of their own.  `HandRules` excludes the target straight below the node,
where the rule is wrong (run `perimeter_below`).

`GreedyApproaches` is the part of `GreedyArrives` that can be proved: squares of
distances between points with integer coordinates cannot decrease for ever, and
what remains is that a packet on the air is delivered.

`AorgluRqueue_proofs` proves, for every limit of at least one, every timeout and
every finite set of packets (`QueueAssumption`), each coming with the `next_`
pointer it last had:

| Theorem | Statement | Argument |
|---|---|---|
| `ListIsWhole` | `[]VerifyQueue` | `QueueInv`, below |
| `DeadlinesInOrder` | `[]AgedAtHead` | `QueueInv`, below |
| `BelowLimit` | a walk along the list meets at most `Limit` packets | `QueueInv`, below |
| `ImplementsPacketBuffer` | `Spec => ImplementsBuffer` | each call is what `PacketBuffer` does to the packets the pointers thread, in that order: one lemma per call, from the lemmas below |

`QueueInv` says that the pointers thread the packets of the walk along the list
(`Threads(list, Chain(list))`: no packet twice, `head_`, `tail_` and `len_` as
they should be, and each `next_` the packet behind), that their deadlines are in
order and within `Timeout`, and that there are at most `Limit`.  The bare
`verifyQueue()` is not inductive: it looks at the length and the tail, while an
`unlink` in the middle goes by pointers that it does not mention.  `UnlinkThreads`
says that each of the three branches of `unlink` takes one packet off the
sequence, `AppendThreads` that `enque` puts one at its end whatever its pointer
was, and `PurgeIs` that the loop of `purge` leaves what is behind the first
packets, those that have timed out.

The walk and the loop are recursive functions.  The provers cannot use the
induction theorems of the library, which take an operator; `Induction` states
induction for a set of numbers instead and follows from the well-foundedness of
the naturals, and `Loop` gives from it that a function defined by one turn after
another has the values of its turns.

`AorgluLudp_proofs` proves, for every field, speed, period and number of peers:

| Theorem | Statement | Argument |
|---|---|---|
| `TypeCorrect` | `[]TypeOK` | inductive |
| `RecordStaysClose` | for every peer `p`, `[](p \in UpToDate => Distance(loc[p], at) <= 2 * Unreported)`, under `[]StaysActive(p)` | `NearLast` (the node is near the position it reported last) and `OnRecord(p)` (if `p` is in the cache, what it believes, or the last report on its way to it, is within what goes unreported of that position) |
| `RecordsStayClose` | `[]RecordClose`, under `[]AllActive` | the same of all peers |

`StaysActive(p)` says that the entry of `p`, while there is one, is not marked
inactive; the entries of other peers may lapse, be freed and come back, in runs
of any length.  `AllActive` says it of all peers.  It cannot be left out for
`p` itself: with `LUDP_CACHE_SAVE` 2 in the run `ludp_track`, TLC finds
an entry that expires, misses reports and is made active again by
`ludpcache_update` without a report of its own, so that its peer keeps an old
position.

`PriQueue_proofs` proves, for every set of packets, every division into routing
and other packets and every limit of at least one (`LimitAssumption`):

| Theorem | Statement | Argument |
|---|---|---|
| `RoutingIsFirst` | `[]RoutingFirst` | what both filters and the drops leave of the queue keeps its order (`LeftOf`, `LeftIsGood`); a routing packet goes to the head, another one to the end |
| `StaysBelowLimit` | `[]BelowLimit` | a packet that reaches the limit is dropped, or another one for it, in the step that puts it in |
| `LinkIsUsed` | `[]NoneWaitsForNothing` | `recvHighPriority` hands a packet down in the same step; `resume` does when the link is done |
| `PacketIsOnce` | `[]PacketOnce` | all of the above follow from one invariant, `QInv`, which says that the queue, the link and what has gone have no packet in common |

Only model-checked:

- liveness: `RepairEnds` (both agents), `BufferedServed` and `GreedyArrives`
  (but for its safety part, `GreedyApproaches`): fairness is about `ENABLED`,
  which the provers do not handle;
- the violations: a counterexample needs no proof.

## 5. Plan

Done: discovery with its runs and proofs; the send buffer, proved to implement
`PacketBuffer`; route repair with its timers; location updates; the geometry
and the walk of a repair, over all small placements and proved for points of
which no three are on a line; the AODV agent with its local repair; the
interface queue; `RouteOrder`, implemented by discovery and by AODV until a
local repair is begun.  Every safety property of a passing run is stated by a
theorem, under the hypotheses its row names.

Left, in this order:

1. Loop freedom of AORGLU under repair.  `RoutesYield` does not give it, and AODV
   with local repair does not have it; in AORGLU only the source of a packet
   takes a route down with its number, and relays do not answer requests.  In
   the network of the run `repair` TLC finds no loop, but that network is small
   for a question of this kind.
2. The buffer of AODV and AORGLU in order inside the agents, so that `lost` is
   what `PacketBuffer` evicts rather than any set.
3. Nodes that move inside `AorgluRepair`: positions that are out of date at the
   source when a repair starts, which `AorgluLudp` has for one pair of nodes.

Not modelled:

- trace formatting (`trace/cmu-trace.cc`), logs and latency statistics: they
  write what the handlers decided and no handler reads them;
- `common/packet.h`: the packet types and accessors of ns-2;
- the OTcl library and the scenarios (`tcl/`, `aorglu_ex*.tcl`): they
  configure a simulation and hold no protocol state;
- AODV's hellos and neighbour list (`recvHello`, `nb_insert`, `nb_delete`,
  `nb_purge`): compiled out by `AODV_LINK_LAYER_DETECTION`;
- the location cache timer and `loc_delete`: the timer is never started and
  nothing else removes a position.
