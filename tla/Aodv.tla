-------------------------------- MODULE Aodv --------------------------------
(***************************************************************************)
(* A network of AODV agents (src/aodv/aodv.cc), the agent AORGLU was made  *)
(* from: route discovery with replies from intermediate nodes, precursor   *)
(* lists, route errors, link-layer failure reports and local repair.       *)
(*                                                                         *)
(* Time is abstracted: an expiry test is a choice of what has expired.  A  *)
(* message that is never delivered is a lost one.  The agent is built with *)
(* AODV_LINK_LAYER_DETECTION (aodv.h), so it sends no hellos and its       *)
(* neighbour list stays empty.                                             *)
(***************************************************************************)
EXTENDS Integers, FiniteSets

CONSTANTS
  Node,              \* network addresses; 0 is one of them
  Link,              \* pairs <<a, b>> such that b can hear a
  Flow,              \* pairs <<s, d>>: s has application data for d
  AODV_LOCAL_REPAIR, \* aodv.h: whether the agent is built with local repair
  NETWORK_DIAMETER,  \* aodv.h: TTL of a network-wide search
  TTL_START, TTL_THRESHOLD, TTL_INCREMENT,  \* aodv.h: expanding ring
  RREQ_RETRIES,      \* aodv.h: network-wide searches before giving up
  INFINITY2,         \* aodv_rtable.h: the hop count of no route
  MaxSeqno,          \* bound: MaxSeqno[n] is the largest number n takes for itself
  MaxSent            \* bound: application packets sent in the network

ASSUME NodeAssumption == 0 \in Node /\ Node \subseteq Nat
ASSUME TopologyAssumption ==
  /\ Link \subseteq Node \X Node
  /\ Flow \subseteq Node \X Node
  /\ \A n \in Node : <<n, n>> \notin Link /\ <<n, n>> \notin Flow
ASSUME ConstantAssumption ==
  /\ AODV_LOCAL_REPAIR \in BOOLEAN
  /\ NETWORK_DIAMETER \in Nat \ {0} /\ TTL_START \in 1..NETWORK_DIAMETER
  /\ TTL_THRESHOLD \in Nat /\ TTL_INCREMENT \in Nat \ {0}
  /\ TTL_THRESHOLD + TTL_INCREMENT <= NETWORK_DIAMETER + 1
  /\ RREQ_RETRIES \in Nat
  /\ INFINITY2 \in Nat /\ NETWORK_DIAMETER + 1 < INFINITY2
  /\ MaxSeqno \in [Node -> Nat] /\ MaxSent \in Nat

VARIABLES
  seqno,   \* seqno[n]: n's own sequence number
  bid,     \* bid[n]: broadcast id of n's next route request
  rt,      \* rt[n][d]: n's route table entry for d
  ids,     \* ids[n]: route requests <<source, broadcast id>> n remembers
  queue,   \* queue[n]: application packets n buffers for want of a route
  repair,  \* repair[n][d]: local repair timers n has running for d
  rreq, rrep, rerr,  \* control messages on the air, one copy per receiver
  data,    \* application packets handed to the link layer
  nsent,   \* number of application packets sent so far
  failed   \* assertions of the code found violated

vars == <<seqno, bid, rt, ids, queue, repair,
          rreq, rrep, rerr, data, nsent, failed>>

Larger(a, b) == IF a >= b THEN a ELSE b

Entry == [flags   : {"ABSENT", "DOWN", "UP", "IN_REPAIR"},
          seqno   : Nat,
          hops    : Nat,
          nexthop : Node,
          pc      : SUBSET Node,  \* rt_pclist: who routes through n
          lastHops: Nat,          \* rt_last_hop_count
          reqCnt  : Nat,          \* rt_req_cnt
          reqWait : BOOLEAN,      \* rt_req_timeout > 0
          reqTtl  : Nat]          \* rt_req_last_ttl

Packet == [id: Nat, src: Node, dst: Node, ttl: Nat \ {0}]
Frame  == [from: Node, to: Node, pkt: Packet]
RREQ   == [from: Node, to: Node, src: Node, bid: Nat, dst: Node,
           srcSeqno: Nat, dstSeqno: Nat, hops: Nat, ttl: Nat \ {0}]
RREP   == [from: Node, to: Node, ipdst: Node, dst: Node,
           dstSeqno: Nat, hops: Nat, ttl: Nat \ {0}]
\* unreachable: the lost destinations with their sequence numbers.
RERR   == [from: Node, to: Node, unreachable: SUBSET (Node \X Nat)]

(***************************************************************************)
(* The routing table.                                                      *)
(***************************************************************************)
NoEntry == [flags |-> "ABSENT", seqno |-> 0, hops |-> INFINITY2, nexthop |-> 0,
            pc |-> {}, lastHops |-> INFINITY2,
            reqCnt |-> 0, reqWait |-> FALSE, reqTtl |-> 0]

\* rt_lookup, and rt_add when there is no entry.
rt_add(e) == IF e.flags = "ABSENT" THEN [e EXCEPT !.flags = "DOWN"] ELSE e

rt_update(e, s, h, hop) ==
  [e EXCEPT !.seqno = s, !.hops = h, !.flags = "UP", !.nexthop = hop]

\* Mutant: the hop count survives.
rt_downKeepsHops(e) ==
  IF e.flags = "DOWN" THEN e
  ELSE [e EXCEPT !.lastHops = e.hops, !.flags = "DOWN", !.nexthop = 0]

rt_down(e) ==
  IF e.flags = "DOWN" THEN e
  ELSE [e EXCEPT !.lastHops = e.hops, !.hops = INFINITY2,
                 !.flags = "DOWN", !.nexthop = 0]

Usable(e) == e.hops # INFINITY2

\* Mutant: nothing is compared.
FresherAlways(e, s, h) == TRUE

\* The test both requests and replies pass before they replace a route.
Fresher(e, s, h) == s > e.seqno \/ (s = e.seqno /\ h < e.hops)

SearchOver(e, h) == [e EXCEPT !.reqCnt = 0, !.reqWait = FALSE, !.reqTtl = h]

\* The reverse route a request teaches: a search in progress ends.
ReverseRoute(e, m) ==
  IF ~Fresher(e, m.srcSeqno, m.hops) THEN e
  ELSE LET u == rt_update(e, m.srcSeqno, m.hops, m.from)
       IN IF e.reqWait THEN SearchOver(u, m.hops) ELSE u

\* The forward route a reply teaches.
ForwardRoute(e, m) ==
  IF ~Fresher(e, m.dstSeqno, m.hops) THEN e
  ELSE SearchOver(rt_update(e, m.dstSeqno, m.hops, m.from), m.hops)

\* Mutant: the sequence number of an invalidated route stays.
InvalidateSameSeqno(e) == rt_down(e)

Invalidate(e) == rt_down([e EXCEPT !.seqno = @ + 1])

\* pc_insert(h) on the entry for d of one node's routes.
pc_insert(table, d, h) == [table EXCEPT ![d].pc = @ \cup {h}]

(***************************************************************************)
(* The send buffer, as a set (PacketBuffer has its order): enque() and     *)
(* deque() first purge what timed out, enque() also evicts the head of a   *)
(* full queue: "lost" names what went that way.                            *)
(***************************************************************************)
Waiting(n, d, lost) == {p \in queue[n] \ lost : p.dst = d}

\* forward() of packets along a route: the next hop is fixed here.
Frames(n, hop, packets) == {[from |-> n, to |-> hop, pkt |-> p] : p \in packets}

(***************************************************************************)
(* The medium.                                                             *)
(***************************************************************************)
Neighbours(n) == {m \in Node : <<n, m>> \in Link}

Broadcast(m, n) == {[m EXCEPT !.from = n, !.to = r] : r \in Neighbours(n)}

Delivered(m, n) == m.to = n /\ <<m.from, n>> \in Link

\* An assertion of the code at the place named by label.
Assert(cond, label) == IF cond THEN {} ELSE {label}

\* sendError: one route error for every neighbour, or none at all.
sendError(n, unreachable) ==
  IF unreachable = {} THEN {}
  ELSE Broadcast([from |-> n, to |-> n, unreachable |-> unreachable], n)

Init ==
  /\ seqno = [n \in Node |-> 2]
  /\ bid = [n \in Node |-> 1]
  /\ rt = [n \in Node |-> [d \in Node |-> NoEntry]]
  /\ ids = [n \in Node |-> {}]
  /\ queue = [n \in Node |-> {}]
  /\ repair = [n \in Node |-> [d \in Node |-> 0]]
  /\ rreq = {} /\ rrep = {} /\ rerr = {} /\ data = {}
  /\ nsent = 0
  /\ failed = {}

(***************************************************************************)
(* sendRequest(d) at n, for the entry e (not UP) and the buffer content q: *)
(* rate limited while a search is pending; after too many network-wide     *)
(* searches the buffered packets are dropped; otherwise a request goes out *)
(* with the TTL of the expanding ring.                                     *)
(***************************************************************************)
LastTtl(e) == Larger(e.reqTtl, e.lastHops)

RequestTtl(e) ==
  IF LastTtl(e) = 0 THEN TTL_START
  ELSE IF LastTtl(e) < TTL_THRESHOLD THEN LastTtl(e) + TTL_INCREMENT
  ELSE NETWORK_DIAMETER

Searching(e) ==
  [e EXCEPT !.reqTtl = RequestTtl(e), !.reqWait = TRUE,
            !.reqCnt = IF LastTtl(e) >= TTL_THRESHOLD THEN @ + 1 ELSE @]

RateLimited(n, d, e, q) ==
  /\ e.reqWait
  /\ rt' = [rt EXCEPT ![n][d] = e]
  /\ queue' = [queue EXCEPT ![n] = q]
  /\ UNCHANGED <<seqno, bid, rreq, failed>>

GiveUp(n, d, e, q) ==
  /\ e.reqCnt > RREQ_RETRIES
  /\ rt' = [rt EXCEPT ![n][d] = [e EXCEPT !.reqCnt = 0, !.reqWait = TRUE]]
  /\ queue' = [queue EXCEPT ![n] = {p \in q : p.dst # d}]
  /\ UNCHANGED <<seqno, bid, rreq, failed>>

Search(n, d, e, q) ==
  /\ e.reqCnt <= RREQ_RETRIES
  /\ seqno[n] + 2 <= MaxSeqno[n]
  /\ rt' = [rt EXCEPT ![n][d] = Searching(e)]
  /\ queue' = [queue EXCEPT ![n] = q]
  /\ seqno' = [seqno EXCEPT ![n] = @ + 2]
  /\ bid' = [bid EXCEPT ![n] = @ + 1]
  /\ rreq' = rreq \cup
       Broadcast([from |-> n, to |-> n, src |-> n, bid |-> bid[n], dst |-> d,
                  srcSeqno |-> seqno[n] + 2, dstSeqno |-> e.seqno,
                  hops |-> 1, ttl |-> RequestTtl(e)], n)
  /\ failed' = failed \cup Assert(seqno'[n] % 2 = 0, "sendRequest")

sendRequest(n, d, e, q) ==
  \/ RateLimited(n, d, e, q)
  \/ GiveUp(n, d, e, q)
  \/ Search(n, d, e, q)

(***************************************************************************)
(* Application packets.  rt_resolve(p) at n; "arrived" holds the frame p   *)
(* came in, if it came from the air.                                       *)
(***************************************************************************)
ResolveForward(n, p, arrived) ==
  LET e == rt[n][p.dst]
  IN /\ e.flags = "UP"
     /\ data' = (data \ arrived) \cup Frames(n, e.nexthop, {p})
     /\ failed' = failed \cup Assert(Usable(e), "rt_resolve")
     /\ UNCHANGED <<seqno, bid, rt, ids, queue, repair, rreq, rrep, rerr>>

\* No usable route: the source buffers its packet and asks for a route.
ResolveSearch(n, p, arrived) ==
  /\ rt[n][p.dst].flags # "UP"
  /\ p.src = n
  /\ \E lost \in SUBSET queue[n] :
       sendRequest(n, p.dst, rt_add(rt[n][p.dst]), (queue[n] \ lost) \cup {p})
  /\ data' = data \ arrived
  /\ UNCHANGED <<ids, repair, rrep, rerr>>

\* A relay that repairs the route buffers the packet.
ResolveRepair(n, p, arrived) ==
  /\ rt[n][p.dst].flags = "IN_REPAIR"
  /\ p.src # n
  /\ \E lost \in SUBSET queue[n] :
       queue' = [queue EXCEPT ![n] = (@ \ lost) \cup {p}]
  /\ data' = data \ arrived
  /\ UNCHANGED <<seqno, bid, rt, ids, repair, rreq, rrep, rerr, failed>>

\* Another node's packet, and no route for it: the neighbours are told.
ResolveError(n, p, arrived) ==
  LET e == rt_add(rt[n][p.dst])
  IN /\ e.flags \notin {"UP", "IN_REPAIR"}
     /\ p.src # n
     /\ rt' = [rt EXCEPT ![n][p.dst] = e]
     /\ rerr' = rerr \cup sendError(n, {<<p.dst, e.seqno>>})
     /\ data' = data \ arrived
     /\ failed' = failed \cup Assert(e.flags = "DOWN", "rt_resolve")
     /\ UNCHANGED <<seqno, bid, ids, queue, repair, rreq, rrep>>

rt_resolve(n, p, arrived) ==
  \/ ResolveForward(n, p, arrived)
  \/ ResolveSearch(n, p, arrived)
  \/ ResolveRepair(n, p, arrived)
  \/ ResolveError(n, p, arrived)

\* The application at s sends a packet to d.
Originate(s, d) ==
  LET p == [id |-> nsent + 1, src |-> s, dst |-> d, ttl |-> NETWORK_DIAMETER]
  IN /\ <<s, d>> \in Flow /\ nsent < MaxSent
     /\ nsent' = nsent + 1
     /\ rt_resolve(s, p, {})

\* recv() of a packet n relays.
Relay(n, f) ==
  LET p == [f.pkt EXCEPT !.ttl = @ - 1]
  IN /\ f \in data /\ Delivered(f, n)
     /\ p.dst # n /\ p.src # n /\ p.ttl # 0
     /\ rt_resolve(n, p, {f})
     /\ UNCHANGED nsent

\* recv() of a packet n sent itself, or whose TTL has run out: dropped.  A
\* packet for n goes up to the application.
Consume(n, f) ==
  /\ f \in data /\ Delivered(f, n)
  /\ n \in {f.pkt.src, f.pkt.dst} \/ f.pkt.ttl = 1
  /\ data' = data \ {f}
  /\ UNCHANGED <<seqno, bid, rt, ids, queue, repair, rreq, rrep, rerr,
                 nsent, failed>>

(***************************************************************************)
(* Link failures.  ifqueue->filter(h) drops what is still in the interface *)
(* queue for h: some of the frames and replies under way.                  *)
(***************************************************************************)
filter(n, h) ==
  \E f \in SUBSET {g \in data : g.from = n /\ g.to = h},
     r \in SUBSET {m \in rrep : m.from = n /\ m.to = h} :
    /\ data' = data \ f
    /\ rrep' = rrep \ r

\* handle_link_failure(h): the routes of n through h.
Through(n, h) == {d \in Node : Usable(rt[n][d]) /\ rt[n][d].nexthop = h}

\* What losing the neighbour h does to a route of n.
DropNeighbour(n, h, e) ==
  [(IF Usable(e) /\ e.nexthop = h THEN Invalidate(e) ELSE e) EXCEPT !.pc = @ \ {h}]

\* The link layer could not hand over f, and the packet has not come further
\* than it has to go: n gives up the neighbour and tells the others.
BreakLink(n, f) ==
  LET lost == Through(n, f.to)
  IN /\ seqno[n] + 2 <= MaxSeqno[n]
     /\ seqno' = [seqno EXCEPT ![n] = @ + 2]
     /\ rt' = [rt EXCEPT ![n] = [d \in Node |-> DropNeighbour(n, f.to, @[d])]]
     /\ rerr' = rerr \cup sendError(n, {<<d, rt'[n][d].seqno>> : d \in lost})
     /\ filter(n, f.to) /\ f \notin data'
     /\ failed' = failed
          \cup Assert(seqno'[n] % 2 = 0, "nb_delete")
          \cup Assert(\A d \in lost : rt[n][d].flags = "UP", "handle_link_failure")
          \cup Assert(\A d \in lost : rt[n][d].seqno % 2 = 0, "even")
     /\ UNCHANGED <<bid, ids, queue, repair, rreq, nsent>>

\* Otherwise n keeps the packet and looks for another route to its
\* destination; a timer ends the repair.
local_rt_repair(n, f) ==
  LET d == f.pkt.dst
  IN /\ \E lost \in SUBSET queue[n] :
          sendRequest(n, d, [rt[n][d] EXCEPT !.flags = "IN_REPAIR"],
                      (queue[n] \ lost) \cup {f.pkt})
     /\ repair' = [repair EXCEPT ![n][d] = @ + 1]
     /\ data' = data \ {f}
     /\ UNCHANGED <<ids, rrep, rerr, nsent>>

\* ch->num_forwards(): the hops a packet has behind it.
num_forwards(p) == NETWORK_DIAMETER - p.ttl

\* The packet has more hops behind it than, by n's route, ahead of it.
RepairWorth(n, p) ==
  AODV_LOCAL_REPAIR /\ num_forwards(p) > rt[n][p.dst].hops

rt_ll_failed(n, f) ==
  /\ f \in data /\ f.from = n
  /\ IF RepairWorth(n, f.pkt) THEN local_rt_repair(n, f) ELSE BreakLink(n, f)

\* Mutant: a route that has not been repaired stays as it is.
LocalRepairTimerForgets(n, d) ==
  /\ repair[n][d] > 0
  /\ repair' = [repair EXCEPT ![n][d] = @ - 1]
  /\ UNCHANGED <<seqno, bid, rt, ids, queue, rreq, rrep, rerr, data,
                 nsent, failed>>

\* A local repair has had its time: a route that is not up is taken down.
LocalRepairTimer(n, d) ==
  /\ repair[n][d] > 0
  /\ repair' = [repair EXCEPT ![n][d] = @ - 1]
  /\ rt' = [rt EXCEPT ![n][d] = IF @.flags = "UP" THEN @ ELSE rt_down(@)]
  /\ UNCHANGED <<seqno, bid, ids, queue, rreq, rrep, rerr, data, nsent, failed>>

(***************************************************************************)
(* Route requests.                                                         *)
(***************************************************************************)
DiscardRequest(n, m) ==
  /\ m \in rreq /\ Delivered(m, n)
  /\ m.src = n \/ <<m.src, m.bid>> \in ids[n]
  /\ rreq' = rreq \ {m}
  /\ UNCHANGED <<seqno, bid, rt, ids, queue, repair, rrep, rerr, data,
                 nsent, failed>>

\* What every new request does before it is answered or passed on; "table"
\* is what the whole handler makes of n's routes.
LearnReverse(n, m, table) ==
  /\ m \in rreq /\ Delivered(m, n)
  /\ m.src # n /\ <<m.src, m.bid>> \notin ids[n]
  /\ ids' = [ids EXCEPT ![n] = @ \cup {<<m.src, m.bid>>}]
  /\ rt' = [rt EXCEPT ![n] = table]
  /\ IF Fresher(rt_add(rt[n][m.src]), m.srcSeqno, m.hops)
     THEN \E lost \in SUBSET queue[n] :
            LET ready == Waiting(n, m.src, lost)
            IN /\ queue' = [queue EXCEPT ![n] = @ \ (lost \cup ready)]
               /\ data' = data \cup Frames(n, m.from, ready)
     ELSE UNCHANGED <<queue, data>>

\* n's routes with the reverse route of m.
WithReverse(n, m) == [rt[n] EXCEPT ![m.src] = ReverseRoute(rt_add(@), m)]

\* sendReply at n to the source of m, along the reverse route.
sendReply(n, m, s, h) ==
  {[from |-> n, to |-> WithReverse(n, m)[m.src].nexthop, ipdst |-> m.src,
    dst |-> m.dst, dstSeqno |-> s, hops |-> h, ttl |-> NETWORK_DIAMETER]}

\* seqno = max(seqno, rq_dst_seqno) + 1, made even.
ReplySeqno(own, asked) ==
  LET s == Larger(own, asked) + 1 IN IF s % 2 = 0 THEN s ELSE s + 1

\* Mutant: the number the reply carries is not kept.
AnswerRequestForgets(n, m) ==
  LET s == ReplySeqno(seqno[n], m.dstSeqno)
  IN /\ m.dst = n
     /\ s <= MaxSeqno[n]
     /\ LearnReverse(n, m, WithReverse(n, m))
     /\ rreq' = rreq \ {m}
     /\ rrep' = rrep \cup sendReply(n, m, s, 1)
     /\ UNCHANGED <<seqno, bid, repair, rerr, nsent, failed>>

\* The destination itself answers.
AnswerRequest(n, m) ==
  LET s == ReplySeqno(seqno[n], m.dstSeqno)
  IN /\ m.dst = n
     /\ s <= MaxSeqno[n]
     /\ LearnReverse(n, m, WithReverse(n, m))
     /\ seqno' = [seqno EXCEPT ![n] = s]
     /\ rreq' = rreq \ {m}
     /\ rrep' = rrep \cup sendReply(n, m, s, 1)
     /\ UNCHANGED <<bid, repair, rerr, nsent, failed>>

\* A route the node may answer with: no older than the asker's last one.
FreshEnough(e, m) == Usable(e) /\ e.seqno >= m.dstSeqno

\* A relay answers from its own route; the next hops of the two routes
\* become each other's precursors.
AnswerFromRoute(n, m) ==
  LET back == WithReverse(n, m)[m.src]
      e    == WithReverse(n, m)[m.dst]
  IN /\ m.dst # n /\ FreshEnough(e, m)
     /\ LearnReverse(n, m, pc_insert(pc_insert(WithReverse(n, m),
                                               m.dst, back.nexthop),
                                     m.src, e.nexthop))
     /\ rreq' = rreq \ {m}
     /\ rrep' = rrep \cup sendReply(n, m, e.seqno, e.hops + 1)
     /\ UNCHANGED <<seqno, bid, repair, rerr, nsent, failed>>

\* Mutant: the TTL is not looked at.
ForwardRequestForever(n, m) ==
  LET e == WithReverse(n, m)[m.dst]
  IN /\ m.dst # n /\ ~FreshEnough(e, m)
     /\ LearnReverse(n, m, WithReverse(n, m))
     /\ rreq' = (rreq \ {m}) \cup
          Broadcast([m EXCEPT !.hops = @ + 1, !.ttl = @ - 1,
                              !.dstSeqno = Larger(e.seqno, @)], n)
     /\ UNCHANGED <<seqno, bid, repair, rrep, rerr, nsent, failed>>

ForwardRequest(n, m) ==
  LET e == WithReverse(n, m)[m.dst]
  IN /\ m.dst # n /\ ~FreshEnough(e, m)
     /\ LearnReverse(n, m, WithReverse(n, m))
     /\ rreq' = (rreq \ {m}) \cup
          IF m.ttl = 1 THEN {}
          ELSE Broadcast([m EXCEPT !.hops = @ + 1, !.ttl = @ - 1,
                                   !.dstSeqno = Larger(e.seqno, @)], n)
     /\ UNCHANGED <<seqno, bid, repair, rrep, rerr, nsent, failed>>

recvRequest(n, m) ==
  \/ DiscardRequest(n, m)
  \/ AnswerRequest(n, m)
  \/ AnswerFromRoute(n, m)
  \/ ForwardRequest(n, m)

(***************************************************************************)
(* Route replies.                                                          *)
(***************************************************************************)
\* Mutant: the packets a reply makes deliverable are sent and stay in the buffer.
LearnForwardKeepsPackets(n, m, table) ==
  /\ m \in rrep /\ Delivered(m, n)
  /\ rt' = [rt EXCEPT ![n] = table]
  /\ UNCHANGED queue
  /\ data' = data \cup
       Frames(n, m.from, IF Fresher(rt_add(rt[n][m.dst]), m.dstSeqno, m.hops)
                         THEN Waiting(n, m.dst, {}) ELSE {})

\* Mutant: the packets a reply makes deliverable are not sent.
LearnForwardNoDequeue(n, m, table) ==
  /\ m \in rrep /\ Delivered(m, n)
  /\ rt' = [rt EXCEPT ![n] = table]
  /\ UNCHANGED <<queue, data>>

\* What every reply does first; "table" as above.
LearnForward(n, m, table) ==
  /\ m \in rrep /\ Delivered(m, n)
  /\ rt' = [rt EXCEPT ![n] = table]
  /\ IF Fresher(rt_add(rt[n][m.dst]), m.dstSeqno, m.hops)
     THEN \E lost \in SUBSET queue[n] :
            LET ready == Waiting(n, m.dst, lost)
            IN /\ queue' = [queue EXCEPT ![n] = @ \ (lost \cup ready)]
               /\ data' = data \cup Frames(n, m.from, ready)
     ELSE UNCHANGED <<queue, data>>

\* n's routes with the forward route of m.
WithForward(n, m) == [rt[n] EXCEPT ![m.dst] = ForwardRoute(rt_add(@), m)]

Suppressed(n, m) == ~Fresher(rt_add(rt[n][m.dst]), m.dstSeqno, m.hops)

\* The reply has reached the source of the request, is stale, or cannot be
\* passed on: it stops here.
AcceptReply(n, m) ==
  /\ \/ m.ipdst = n
     \/ Suppressed(n, m)
     \/ ~Usable(WithForward(n, m)[m.ipdst])
  /\ LearnForward(n, m, WithForward(n, m))
  /\ rrep' = rrep \ {m}
  /\ UNCHANGED <<seqno, bid, ids, repair, rreq, rerr, nsent, failed>>

\* Mutant: the hop count of a reply is not increased.
ForwardReplySameHops(n, m) ==
  LET back == WithForward(n, m)[m.ipdst]
  IN /\ m.ipdst # n /\ ~Suppressed(n, m) /\ Usable(back)
     /\ LearnForward(n, m, WithForward(n, m))
     /\ rrep' = (rrep \ {m}) \cup
          {[m EXCEPT !.from = n, !.to = back.nexthop, !.ttl = @ - 1]}
     /\ UNCHANGED <<seqno, bid, ids, repair, rreq, rerr, nsent, failed>>

\* Otherwise it follows the reverse route, whose next hop is a precursor of
\* the new route from now on.
ForwardReply(n, m) ==
  LET back == WithForward(n, m)[m.ipdst]
      next == [m EXCEPT !.from = n, !.to = back.nexthop,
                        !.hops = @ + 1, !.ttl = @ - 1]
  IN /\ m.ipdst # n /\ ~Suppressed(n, m) /\ Usable(back)
     /\ LearnForward(n, m, pc_insert(WithForward(n, m), m.dst, back.nexthop))
     /\ rrep' = (rrep \ {m}) \cup IF next.ttl = 0 THEN {} ELSE {next}
     /\ failed' = failed \cup Assert(back.flags = "UP", "recvReply")
     /\ UNCHANGED <<seqno, bid, ids, repair, rreq, rerr, nsent>>

recvReply(n, m) == AcceptReply(n, m) \/ ForwardReply(n, m)

(***************************************************************************)
(* Route errors.                                                           *)
(***************************************************************************)
\* The unreachable destinations of m that n reaches through its sender, by a
\* route no fresher than the error.
Hit(n, m) ==
  {u \in m.unreachable :
     Usable(rt[n][u[1]]) /\ rt[n][u[1]].nexthop = m.from /\ rt[n][u[1]].seqno <= u[2]}

\* What is reported further: the lost routes somebody uses.
Reported(n, m) == {u \in Hit(n, m) : rt[n][u[1]].pc # {}}

recvError(n, m) ==
  /\ m \in rerr /\ Delivered(m, n)
  /\ rt' = [rt EXCEPT ![n] = [d \in Node |->
       IF \E u \in Hit(n, m) : u[1] = d
       THEN LET u == CHOOSE u \in Hit(n, m) : u[1] = d
            IN [rt_down([@[d] EXCEPT !.seqno = u[2]]) EXCEPT !.pc = {}]
       ELSE @[d]]]
  /\ rerr' = (rerr \ {m}) \cup sendError(n, Reported(n, m))
  /\ IF Hit(n, m) = {} THEN UNCHANGED <<data, rrep>> ELSE filter(n, m.from)
  /\ failed' = failed
       \cup Assert(\A u \in Hit(n, m) : rt[n][u[1]].flags = "UP", "recvError")
       \cup Assert(\A u \in Hit(n, m) : rt[n][u[1]].seqno % 2 = 0, "even")
  /\ UNCHANGED <<seqno, bid, ids, queue, repair, rreq, nsent>>

(***************************************************************************)
(* Timers.  rt_purge() looks at one route after the other: PurgeExpired,   *)
(* PurgeForward and PurgeSearch are what it does to one of them.           *)
(***************************************************************************)
PurgeExpired(n, d) ==
  /\ rt[n][d].flags = "UP"
  /\ rt' = [rt EXCEPT ![n][d] = Invalidate(@)]
  /\ \E lost \in SUBSET queue[n] :
       queue' = [queue EXCEPT ![n] = {p \in @ \ lost : p.dst # d}]
  /\ failed' = failed \cup Assert(/\ Usable(rt[n][d])
                                  /\ rt'[n][d].seqno % 2 = 1, "rt_purge")
  /\ UNCHANGED <<seqno, bid, ids, repair, rreq, rrep, rerr, data, nsent>>

PurgeForward(n, d) ==
  /\ rt[n][d].flags = "UP"
  /\ \E lost \in SUBSET queue[n] :
       LET ready == Waiting(n, d, lost)
       IN /\ queue' = [queue EXCEPT ![n] = @ \ (lost \cup ready)]
          /\ data' = data \cup Frames(n, rt[n][d].nexthop, ready)
  /\ UNCHANGED <<seqno, bid, rt, ids, repair, rreq, rrep, rerr, nsent, failed>>

\* Mutant: a search that is pending is never taken up again.
PurgeSearchIdle(n, d) ==
  /\ rt[n][d].flags # "UP"
  /\ \E p \in queue[n] : p.dst = d
  /\ rt[n][d].reqWait = FALSE
  /\ sendRequest(n, d, rt[n][d], queue[n])
  /\ UNCHANGED <<ids, repair, rrep, rerr, data, nsent>>

PurgeSearch(n, d) ==
  /\ rt[n][d].flags # "UP"
  /\ \E p \in queue[n] : p.dst = d
  /\ sendRequest(n, d, rt[n][d], queue[n])
  /\ UNCHANGED <<ids, repair, rrep, rerr, data, nsent>>

rt_purge(n, d) == PurgeExpired(n, d) \/ PurgeForward(n, d) \/ PurgeSearch(n, d)

\* id_purge(): a request is forgotten BCAST_ID_SAVE seconds after it came in,
\* when no copy of it is on the air any more.
id_purge(n) ==
  \E old \in SUBSET ids[n] :
    /\ old # {}
    /\ ids' = [ids EXCEPT ![n] = @ \ old]
    /\ rreq' = {m \in rreq : <<m.src, m.bid>> \notin old}
    /\ UNCHANGED <<seqno, bid, rt, queue, repair, rrep, rerr, data, nsent, failed>>

\* A failed assertion ends the program.
Next ==
  /\ failed = {}
  /\ \/ \E s, d \in Node : Originate(s, d)
     \/ \E n \in Node : \E f \in data :
          Relay(n, f) \/ Consume(n, f) \/ rt_ll_failed(n, f)
     \/ \E n \in Node : \E m \in rreq : recvRequest(n, m)
     \/ \E n \in Node : \E m \in rrep : recvReply(n, m)
     \/ \E n \in Node : \E m \in rerr : recvError(n, m)
     \/ \E n, d \in Node : LocalRepairTimer(n, d) \/ rt_purge(n, d)
     \/ \E n \in Node : id_purge(n)

Spec == Init /\ [][Next]_vars

\* The route cache timer fires every half second for as long as the
\* simulation runs, and a pending search times out.
LiveSpec == Spec /\ WF_vars(failed = {} /\ \E n, d \in Node : PurgeSearch(n, d))

\* Every local repair timer that is set goes off (only packets of a flow are
\* repaired for).
Destination == {f[2] : f \in Flow}

RepairFairness ==
  \A n \in Node, d \in Destination : WF_vars(failed = {} /\ LocalRepairTimer(n, d))

(***************************************************************************)
(* Properties.                                                             *)
(***************************************************************************)
AssertLabel == {"rt_resolve", "sendRequest", "recvReply", "recvError", "even",
                "nb_delete", "handle_link_failure", "rt_purge"}

\* Every variable holds values of its kind.
TypeOK ==
  /\ seqno \in [Node -> Nat] /\ bid \in [Node -> Nat]
  /\ rt \in [Node -> [Node -> Entry]]
  /\ ids \in [Node -> SUBSET (Node \X Nat)]
  /\ queue \in [Node -> SUBSET Packet]
  /\ repair \in [Node -> [Node -> Nat]]
  /\ rreq \subseteq RREQ /\ rrep \subseteq RREP /\ rerr \subseteq RERR
  /\ data \subseteq Frame
  /\ nsent \in Nat
  /\ failed \subseteq AssertLabel

\* No assertion of the handlers fails.
NoAssertFails == failed = {}

\* A handler that takes a message off the air is at fault with the route it
\* has looked up for it: n's route to d is under local repair.
UnderRepair(n, d) == rt[n][d].flags = "IN_REPAIR" /\ Usable(rt[n][d])

LinkFailureAborts ==
  \E f \in data \ data' : \E d \in Node :
    UnderRepair(f.from, d) /\ rt[f.from][d].nexthop = f.to

ErrorAborts ==
  \E m \in rerr \ rerr' : \E u \in m.unreachable :
    UnderRepair(m.to, u[1]) /\ rt[m.to][u[1]].nexthop = m.from

ReplyAborts == \E m \in rrep \ rrep' : UnderRepair(m.to, m.ipdst)

\* Local repair leaves a route its distance and its next hop while it is not
\* UP.  Of the assertions of the handlers only the three that ask every route
\* with a distance to be UP can fail for it, and each only for the very route
\* it looks at: one through the neighbour given up, one the route error names
\* and that leads to its sender, the one the reply has to follow.
AbortsUnderRepair ==
  [][/\ failed' \subseteq {"handle_link_failure", "recvError", "recvReply"}
     /\ "handle_link_failure" \in failed' => LinkFailureAborts
     /\ "recvError" \in failed' => ErrorAborts
     /\ "recvReply" \in failed' => ReplyAborts]_vars

\* A valid route has an even sequence number and a distance, any other has
\* neither distance nor next hop; every number a node takes for itself, or a
\* request or reply carries, is even.
RouteSound(e) ==
  /\ e.flags # "IN_REPAIR"
  /\ IF e.flags = "UP" THEN e.seqno % 2 = 0 /\ Usable(e)
                       ELSE ~Usable(e) /\ e.nexthop = 0
Sound ==
  /\ \A n, d \in Node : RouteSound(rt[n][d])
  /\ \A n \in Node : seqno[n] % 2 = 0
  /\ \A m \in rreq : m.srcSeqno % 2 = 0
  /\ \A m \in rrep : m.dstSeqno % 2 = 0

\* rt_purge: "This should not be needed": a packet is never left in the
\* buffer while there is a valid route to its destination.
NoneBufferedWhenUp ==
  \A n \in Node : \A p \in queue[n] : rt[n][p.dst].flags # "UP"

\* Nobody believes in a destination sequence number its destination has not
\* issued; only an invalidated route may be one ahead.
SeqnosIssued ==
  /\ \A n, d \in Node : rt[n][d].seqno <=
       IF rt[n][d].flags = "UP" THEN seqno[d] ELSE seqno[d] + 1
  /\ \A m \in rreq : m.srcSeqno <= seqno[m.src] /\ m.dstSeqno <= seqno[m.dst] + 1
  /\ \A m \in rrep : m.dstSeqno <= seqno[m.dst]

\* h knows a route to d that is better than sequence number s and distance k.
Closer(h, d, s, k) ==
  \/ h = d
  \/ rt[h][d].seqno > s
  \/ rt[h][d].seqno = s /\ rt[h][d].hops < k

\* Loop freedom: along every valid route the next hop has a fresher route,
\* or one as fresh and shorter, so that following next hops cannot cycle.
NextHopCloser ==
  \A n, d \in Node :
    rt[n][d].flags = "UP" =>
      Closer(rt[n][d].nexthop, d, rt[n][d].seqno, rt[n][d].hops)

\* A packet is in one place at most: one buffer or one frame.
PacketOnce ==
  /\ \A f, g \in data : f.pkt.id = g.pkt.id => f = g
  /\ \A n \in Node : \A p \in queue[n] :
       /\ \A f \in data : f.pkt.id # p.id
       /\ \A o \in Node : \A q \in queue[o] : p.id = q.id => p = q /\ n = o

\* A route is only ever replaced by a fresher one, or by an equally fresh
\* and shorter one; an invalidated route never comes back as it was.
RoutesImprove ==
  [][\A n, d \in Node :
       \/ rt'[n][d].seqno > rt[n][d].seqno
       \/ rt'[n][d].seqno = rt[n][d].seqno /\ rt'[n][d].hops <= rt[n][d].hops]_rt

\* A route table entry as a route of RouteOrder.
RouteOf(e) ==
  [valid |-> e.flags = "UP", seqno |-> e.seqno, hops |-> e.hops, nexthop |-> e.nexthop]

RouteTable == [n \in Node |-> [d \in Node |-> RouteOf(rt[n][d])]]

Routes == INSTANCE RouteOrder WITH issued <- seqno, route <- RouteTable

\* The handlers keep the discipline of RouteOrder: a node takes a route only if
\* it is better than its own and the next hop has a better one still, and gives
\* one up for a number that only a fresher route exceeds.
ImplementsRouteOrder == Routes!Spec

\* A buffered packet does not stay: it is sent, dropped or evicted, even if
\* every request and reply is lost and the application is silent.
BufferedServed ==
  \A i \in 1..MaxSent :
    LET Buffered == \E n \in Node : \E p \in queue[n] : p.id = i
    IN Buffered ~> ~Buffered

\* A local repair comes to an end: the route is up or down again.
RepairEnds ==
  \A n \in Node, d \in Destination :
    rt[n][d].flags = "IN_REPAIR" ~> rt[n][d].flags # "IN_REPAIR"

\* rt_down, in the assertion that is commented out: the sequence number of a
\* route that goes down is odd ("is the seqno odd?").
DownIsOdd ==
  \A n, d \in Node :
    rt[n][d].flags = "DOWN" /\ rt[n][d].lastHops # INFINITY2
      => rt[n][d].seqno % 2 = 1

\* LocalRepairTimer::handle: a failed repair "will ... send route errors
\* upstream".
RepairFailureReported ==
  [][\A n, d \in Node :
       rt[n][d].flags = "IN_REPAIR" /\ rt'[n][d].flags = "DOWN"
         => \E m \in rerr' : m.from = n /\ \E u \in m.unreachable : u[1] = d]_vars
=============================================================================
