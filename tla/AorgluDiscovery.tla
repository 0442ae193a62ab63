-------------------------- MODULE AorgluDiscovery --------------------------
(***************************************************************************)
(* Route discovery, neighbour sensing and data forwarding of a network of  *)
(* AORGLU agents (src/aorglu/aorglu.cc).  Every handler of the agent that  *)
(* discovers, uses or invalidates a route is one action; the handlers that *)
(* repair a route (RERR, REPA, REPC, LUDP) are not part of this module:    *)
(* the route errors emitted here stay on the air until they are lost.      *)
(*                                                                         *)
(* Time is abstracted: an expiry test is a choice of what has expired.     *)
(* Nodes do not move, so "the coordinates of node m" is just m; links of   *)
(* Link may lose any message at any time.                                  *)
(***************************************************************************)
EXTENDS Integers, FiniteSets

CONSTANTS
  Node,              \* network addresses; 0 is one of them
  Link,              \* pairs <<a, b>> such that b can hear a
  Flow,              \* pairs <<s, d>>: s has application data for d
  NoLoc,             \* "no entry" of the location table
  NETWORK_DIAMETER,  \* aorglu.h: TTL of a network-wide search
  TTL_START, TTL_THRESHOLD, TTL_INCREMENT,  \* aorglu.h: expanding ring
  RREQ_RETRIES,      \* aorglu.h: network-wide searches before giving up
  INFINITY2,         \* aorglu_rtable.h: the hop count of no route
  MaxSeqno,          \* bound: MaxSeqno[n] is the largest number n takes for itself
  MaxSent            \* bound: application packets sent in the network

ASSUME NodeAssumption == 0 \in Node /\ Node \subseteq Nat /\ NoLoc \notin Node
ASSUME TopologyAssumption ==
  /\ Link \subseteq Node \X Node
  /\ Flow \subseteq Node \X Node
  /\ \A n \in Node : <<n, n>> \notin Link /\ <<n, n>> \notin Flow
ASSUME ConstantAssumption ==
  /\ NETWORK_DIAMETER \in Nat \ {0} /\ TTL_START \in 1..NETWORK_DIAMETER
  /\ TTL_THRESHOLD \in Nat /\ TTL_INCREMENT \in Nat \ {0}
  /\ TTL_THRESHOLD + TTL_INCREMENT <= NETWORK_DIAMETER + 1
  /\ RREQ_RETRIES \in Nat
  /\ INFINITY2 \in Nat /\ NETWORK_DIAMETER + 1 < INFINITY2
  /\ MaxSeqno \in [Node -> Nat] /\ MaxSent \in Nat

VARIABLES
  seqno,   \* seqno[n]: n's own sequence number
  bid,     \* bid[n]: broadcast id of n's next route request
  rt,      \* rt[n][d]: n's route table entry for d
  ids,     \* ids[n]: route requests <<source, broadcast id>> n remembers
  nb,      \* nb[n]: n's neighbour list
  loc,     \* loc[n][m]: whose coordinates n has on record for m
  ludp,    \* ludp[n]: the nodes n sends location updates to
  queue,   \* queue[n]: application packets n buffers for want of a route
  rreq, rrep, rerr,  \* control messages on the air, one copy per receiver
  data,    \* application packets on the air
  nsent,   \* number of application packets sent so far
  failed   \* assertions of the code found violated

agent == <<seqno, bid, rt, ids, nb, loc, ludp, queue>>
air   == <<rreq, rrep, rerr, data>>
vars  == <<seqno, bid, rt, ids, nb, loc, ludp, queue,
           rreq, rrep, rerr, data, nsent, failed>>

Larger(a, b) == IF a >= b THEN a ELSE b

Entry == [flags   : {"ABSENT", "DOWN", "UP", "IN_REPAIR"},
          seqno   : Nat,
          hops    : Nat,
          nexthop : Node,
          lastHops: Nat,      \* rt_last_hop_count
          reqCnt  : Nat,      \* rt_req_cnt
          reqWait : BOOLEAN,  \* rt_req_timeout > 0
          reqTtl  : Nat]      \* rt_req_last_ttl

Packet == [id: Nat, src: Node, dst: Node, ttl: Nat \ {0}]
Frame  == [from: Node, to: Node, pkt: Packet]
RREQ   == [from: Node, to: Node, src: Node, bid: Nat, dst: Node,
           srcSeqno: Nat, dstSeqno: Nat, hops: Nat, ttl: Nat \ {0}]
RREP   == [from: Node, to: Node, ipdst: Node, dst: Node,
           dstSeqno: Nat, hops: Nat, ttl: Nat \ {0}]
RERR   == [from: Node, to: Node, origSrc: Node, origDst: Node]

(***************************************************************************)
(* The routing table.                                                      *)
(***************************************************************************)
NoEntry == [flags |-> "ABSENT", seqno |-> 0, hops |-> INFINITY2, nexthop |-> 0,
            lastHops |-> INFINITY2, reqCnt |-> 0, reqWait |-> FALSE, reqTtl |-> 0]

\* rt_lookup, and rt_add when there is no entry.
rt_add(e) == IF e.flags = "ABSENT" THEN [e EXCEPT !.flags = "DOWN"] ELSE e

rt_update(e, s, h, hop) ==
  [e EXCEPT !.seqno = s, !.hops = h, !.flags = "UP", !.nexthop = hop]

\* Mutant: the hop count survives.
rt_downKeepsHops(e) ==
  IF e.flags = "DOWN" THEN e
  ELSE [e EXCEPT !.lastHops = e.hops, !.flags = "DOWN", !.nexthop = 0]

rt_down(e) ==
  IF e.flags = "DOWN" THEN e
  ELSE [e EXCEPT !.lastHops = e.hops, !.hops = INFINITY2,
                 !.flags = "DOWN", !.nexthop = 0]

\* Mutant: nothing is compared.
FresherAlways(e, s, h) == TRUE

\* The test both replies and requests pass before they replace a route.
Fresher(e, s, h) == s > e.seqno \/ (s = e.seqno /\ h < e.hops)

\* Mutant: the route is taken and the search for it goes on.
ReverseRouteKeepsSearch(e, m) ==
  IF ~Fresher(e, m.srcSeqno, m.hops) THEN e
  ELSE rt_update(e, m.srcSeqno, m.hops, m.from)

\* The reverse route a request teaches: a search in progress ends.
ReverseRoute(e, m) ==
  IF ~Fresher(e, m.srcSeqno, m.hops) THEN e
  ELSE LET u == rt_update(e, m.srcSeqno, m.hops, m.from)
       IN IF e.reqWait
          THEN [u EXCEPT !.reqCnt = 0, !.reqWait = FALSE, !.reqTtl = m.hops]
          ELSE u

\* The forward route a reply teaches.
ForwardRoute(e, m) ==
  IF ~Fresher(e, m.dstSeqno, m.hops) THEN e
  ELSE [rt_update(e, m.dstSeqno, m.hops, m.from)
          EXCEPT !.reqCnt = 0, !.reqWait = FALSE, !.reqTtl = m.hops]

(***************************************************************************)
(* The packet buffer, as a set: AorgluRqueue has its order.  enque() and   *)
(* deque() first purge what timed out, enque() also evicts the head of a   *)
(* full queue: "lost" names what went that way.                            *)
(***************************************************************************)
Waiting(n, d, lost) == {p \in queue[n] \ lost : p.dst = d}

\* forward() of packets along a route: the next hop is fixed here.
Frames(n, hop, packets) == {[from |-> n, to |-> hop, pkt |-> p] : p \in packets}

(***************************************************************************)
(* The medium.                                                             *)
(***************************************************************************)
Neighbours(n) == {m \in Node : <<n, m>> \in Link}

Broadcast(m, receivers) == {[m EXCEPT !.to = r] : r \in receivers}

Delivered(m, n) == m.to = n /\ <<m.from, n>> \in Link

\* An assertion of the code at the place named by label.
Assert(cond, label) == IF cond THEN {} ELSE {label}

Init ==
  /\ seqno = [n \in Node |-> 2]
  /\ bid = [n \in Node |-> 1]
  /\ rt = [n \in Node |-> [d \in Node |-> NoEntry]]
  /\ ids = [n \in Node |-> {}]
  /\ nb = [n \in Node |-> {}]
  /\ loc = [n \in Node |-> [m \in Node |-> NoLoc]]
  /\ ludp = [n \in Node |-> {}]
  /\ queue = [n \in Node |-> {}]
  /\ rreq = {} /\ rrep = {} /\ rerr = {} /\ data = {}
  /\ nsent = 0
  /\ failed = {}

(***************************************************************************)
(* sendError(dst, unreachable) at n: to the next hop on record for dst,    *)
(* whatever the state of that route; nothing without an entry.             *)
(***************************************************************************)
ErrorFor(n, dst, unreachable) ==
  {[from |-> n, to |-> rt[n][d].nexthop, origSrc |-> d, origDst |-> unreachable]
     : d \in {d \in {dst} : rt[n][d].flags # "ABSENT"}}

(***************************************************************************)
(* sendRequest(d) at n, for the entry e (not UP) and the buffer content q: *)
(* rate limited while a search is pending; after too many network-wide     *)
(* searches the buffered packets are dropped; otherwise a request goes out *)
(* with the TTL of the expanding ring.                                     *)
(***************************************************************************)
LastTtl(e) == Larger(e.reqTtl, e.lastHops)

RequestTtl(e) ==
  IF LastTtl(e) = 0 THEN TTL_START
  ELSE IF LastTtl(e) < TTL_THRESHOLD THEN LastTtl(e) + TTL_INCREMENT
  ELSE NETWORK_DIAMETER

\* Mutant: the searches are counted down.
SearchingCountsDown(e) ==
  [e EXCEPT !.reqTtl = RequestTtl(e), !.reqWait = TRUE,
            !.reqCnt = IF LastTtl(e) >= TTL_THRESHOLD THEN @ - 1 ELSE @]

Searching(e) ==
  [e EXCEPT !.reqTtl = RequestTtl(e), !.reqWait = TRUE,
            !.reqCnt = IF LastTtl(e) >= TTL_THRESHOLD THEN @ + 1 ELSE @]

RateLimited(n, d, e, q) ==
  /\ e.reqWait
  /\ rt' = [rt EXCEPT ![n][d] = e]
  /\ queue' = [queue EXCEPT ![n] = q]
  /\ UNCHANGED <<seqno, bid, rreq, failed>>

GiveUp(n, d, e, q) ==
  /\ e.reqCnt > RREQ_RETRIES
  /\ rt' = [rt EXCEPT ![n][d] = [e EXCEPT !.reqCnt = 0, !.reqWait = TRUE]]
  /\ queue' = [queue EXCEPT ![n] = {p \in q : p.dst # d}]
  /\ UNCHANGED <<seqno, bid, rreq, failed>>

Search(n, d, e, q) ==
  /\ e.reqCnt <= RREQ_RETRIES
  /\ seqno[n] + 2 <= MaxSeqno[n]
  /\ rt' = [rt EXCEPT ![n][d] = Searching(e)]
  /\ queue' = [queue EXCEPT ![n] = q]
  /\ seqno' = [seqno EXCEPT ![n] = @ + 2]
  /\ bid' = [bid EXCEPT ![n] = @ + 1]
  /\ \E receivers \in SUBSET Neighbours(n) :
       rreq' = rreq \cup
         Broadcast([from |-> n, to |-> n, src |-> n, bid |-> bid[n], dst |-> d,
                    srcSeqno |-> seqno[n] + 2, dstSeqno |-> e.seqno,
                    hops |-> 1, ttl |-> RequestTtl(e)], receivers)
  /\ failed' = failed \cup Assert(seqno'[n] % 2 = 0, "sendRequest")

sendRequest(n, d, e, q) ==
  \/ RateLimited(n, d, e, q)
  \/ GiveUp(n, d, e, q)
  \/ Search(n, d, e, q)

(***************************************************************************)
(* Application packets.  rt_resolve(p) at n; "arrived" holds the frame p   *)
(* came in, if it came from the air.                                       *)
(***************************************************************************)
ResolveForward(n, p, arrived) ==
  LET e == rt[n][p.dst]
  IN /\ e.flags = "UP"
     /\ data' = (data \ arrived) \cup Frames(n, e.nexthop, {p})
     /\ failed' = failed \cup Assert(e.hops # INFINITY2, "rt_resolve")
     /\ UNCHANGED <<agent, rreq, rrep, rerr>>

\* No usable route: the source buffers its packet and asks for a route, and
\* any node buffers while it repairs the route.
ResolveBuffer(n, p, arrived) ==
  LET e == rt_add(rt[n][p.dst])
  IN /\ e.flags # "UP"
     /\ p.src = n \/ e.flags = "IN_REPAIR"
     /\ \E lost \in SUBSET queue[n] :
          LET q == (queue[n] \ lost) \cup {p}
          IN IF e.flags = "IN_REPAIR"
             THEN /\ queue' = [queue EXCEPT ![n] = q]
                  /\ UNCHANGED <<seqno, bid, rt, rreq, failed>>
             ELSE sendRequest(n, p.dst, e, q)
     /\ data' = data \ arrived
     /\ UNCHANGED <<ids, nb, loc, ludp, rrep, rerr>>

\* Another node's packet, and no route for it: its source is told.
ResolveError(n, p, arrived) ==
  /\ rt[n][p.dst].flags \in {"ABSENT", "DOWN"}
  /\ p.src # n
  /\ rt' = [rt EXCEPT ![n][p.dst] = rt_add(@)]
  /\ rerr' = rerr \cup ErrorFor(n, p.src, p.dst)
  /\ data' = data \ arrived
  /\ UNCHANGED <<seqno, bid, ids, nb, loc, ludp, queue, rreq, rrep, failed>>

rt_resolve(n, p, arrived) ==
  \/ ResolveForward(n, p, arrived)
  \/ ResolveBuffer(n, p, arrived)
  \/ ResolveError(n, p, arrived)

\* The application at s sends a packet to d.
Originate(s, d) ==
  LET p == [id |-> nsent + 1, src |-> s, dst |-> d, ttl |-> NETWORK_DIAMETER]
  IN /\ <<s, d>> \in Flow /\ nsent < MaxSent
     /\ nsent' = nsent + 1
     /\ rt_resolve(s, p, {})

\* recv() of a packet n relays.
Relay(n, f) ==
  LET p == [f.pkt EXCEPT !.ttl = @ - 1]
  IN /\ f \in data /\ Delivered(f, n)
     /\ p.dst # n /\ p.src # n /\ p.ttl # 0
     /\ rt_resolve(n, p, {f})
     /\ UNCHANGED nsent

\* recv() of a packet n sent itself, or whose TTL has run out: dropped.  A
\* packet for n goes up to the application.
Consume(n, f) ==
  /\ f \in data /\ Delivered(f, n)
  /\ n \in {f.pkt.src, f.pkt.dst} \/ f.pkt.ttl = 1
  /\ data' = data \ {f}
  /\ UNCHANGED <<agent, rreq, rrep, rerr, nsent, failed>>

\* rt_ll_failed(p): the link layer could not hand the frame over.  Towards a
\* known neighbour the packet is dropped, otherwise its source is told.
rt_ll_failed(n, f) ==
  /\ f \in data /\ f.from = n
  /\ data' = data \ {f}
  /\ rerr' = rerr \cup
       IF f.to \in nb[n] THEN {} ELSE ErrorFor(n, f.pkt.src, f.pkt.dst)
  /\ UNCHANGED <<agent, rreq, rrep, nsent, failed>>

(***************************************************************************)
(* Route requests and replies.                                             *)
(***************************************************************************)
DiscardRequest(n, m) ==
  /\ m \in rreq /\ Delivered(m, n)
  /\ m.src = n \/ <<m.src, m.bid>> \in ids[n]
  /\ rreq' = rreq \ {m}
  /\ UNCHANGED <<agent, rrep, rerr, data, nsent, failed>>

\* Mutant: the packets the reverse route makes deliverable are not sent.
LearnReverseNoDequeue(n, m, lost) ==
  /\ m \in rreq /\ Delivered(m, n)
  /\ m.src # n /\ <<m.src, m.bid>> \notin ids[n]
  /\ lost = {}
  /\ ids' = [ids EXCEPT ![n] = @ \cup {<<m.src, m.bid>>}]
  /\ rt' = [rt EXCEPT ![n][m.src] = ReverseRoute(rt_add(@), m)]
  /\ UNCHANGED <<queue, data>>

\* What every new request does before it is answered or passed on.
LearnReverse(n, m, lost) ==
  LET e     == rt_add(rt[n][m.src])
      fresh == Fresher(e, m.srcSeqno, m.hops)
      ready == IF fresh THEN Waiting(n, m.src, lost) ELSE {}
  IN /\ m \in rreq /\ Delivered(m, n)
     /\ m.src # n /\ <<m.src, m.bid>> \notin ids[n]
     /\ fresh \/ lost = {}
     /\ ids' = [ids EXCEPT ![n] = @ \cup {<<m.src, m.bid>>}]
     /\ rt' = [rt EXCEPT ![n][m.src] = ReverseRoute(e, m)]
     /\ queue' = [queue EXCEPT ![n] = @ \ (lost \cup ready)]
     /\ data' = data \cup Frames(n, m.from, ready)

\* seqno = max(seqno, rq_dst_seqno) + 1, made even.
ReplySeqno(own, asked) ==
  LET s == Larger(own, asked) + 1 IN IF s % 2 = 0 THEN s ELSE s + 1

\* Mutant: the number the reply carries is not kept.
AnswerRequestForgets(n, m) ==
  LET s == ReplySeqno(seqno[n], m.dstSeqno)
  IN /\ m.dst = n
     /\ s <= MaxSeqno[n]
     /\ \E lost \in SUBSET queue[n] : LearnReverse(n, m, lost)
     /\ ludp' = [ludp EXCEPT ![n] = @ \cup {m.src}]
     /\ loc' = [loc EXCEPT ![n][m.from] = m.src]
     /\ rreq' = rreq \ {m}
     /\ rrep' = rrep \cup
          {[from |-> n, to |-> rt'[n][m.src].nexthop, ipdst |-> m.src, dst |-> n,
            dstSeqno |-> s, hops |-> 1, ttl |-> NETWORK_DIAMETER]}
     /\ UNCHANGED <<seqno, bid, nb, rerr, nsent, failed>>

AnswerRequest(n, m) ==
  LET s == ReplySeqno(seqno[n], m.dstSeqno)
  IN /\ m.dst = n
     /\ s <= MaxSeqno[n]
     /\ \E lost \in SUBSET queue[n] : LearnReverse(n, m, lost)
     /\ seqno' = [seqno EXCEPT ![n] = s]
     /\ ludp' = [ludp EXCEPT ![n] = @ \cup {m.src}]
     /\ loc' = [loc EXCEPT ![n][m.from] = m.src]
     /\ rreq' = rreq \ {m}
     /\ rrep' = rrep \cup
          {[from |-> n, to |-> rt'[n][m.src].nexthop, ipdst |-> m.src, dst |-> n,
            dstSeqno |-> s, hops |-> 1, ttl |-> NETWORK_DIAMETER]}
     /\ UNCHANGED <<bid, nb, rerr, nsent, failed>>

ForwardRequest(n, m) ==
  /\ m.dst # n
  /\ \E lost \in SUBSET queue[n] : LearnReverse(n, m, lost)
  /\ \E receivers \in SUBSET Neighbours(n) :
       rreq' = (rreq \ {m}) \cup
         Broadcast([m EXCEPT !.from = n, !.hops = @ + 1, !.ttl = @ - 1,
                      !.dstSeqno = Larger(rt[n][m.dst].seqno, @)],
                   IF m.ttl = 1 THEN {} ELSE receivers)
  /\ UNCHANGED <<seqno, bid, nb, loc, ludp, rrep, rerr, nsent, failed>>

recvRequest(n, m) ==
  \/ DiscardRequest(n, m)
  \/ AnswerRequest(n, m)
  \/ ForwardRequest(n, m)

\* Mutant: the packets a reply makes deliverable are sent and stay in the buffer.
LearnForwardKeepsPackets(n, m, lost) ==
  LET e     == rt_add(rt[n][m.dst])
      ready == IF Fresher(e, m.dstSeqno, m.hops)
               THEN Waiting(n, m.dst, lost) ELSE {}
  IN /\ m \in rrep /\ Delivered(m, n)
     /\ rt' = [rt EXCEPT ![n][m.dst] = ForwardRoute(e, m)]
     /\ queue' = [queue EXCEPT ![n] = @ \ lost]
     /\ data' = data \cup Frames(n, m.from, ready)

\* Mutant: the packets a reply makes deliverable stay in the buffer.
LearnForwardNoDequeue(n, m, lost) ==
  /\ m \in rrep /\ Delivered(m, n)
  /\ lost = {}
  /\ rt' = [rt EXCEPT ![n][m.dst] = ForwardRoute(rt_add(@), m)]
  /\ UNCHANGED <<queue, data>>

\* What every reply does first, and whether it taught n anything.
LearnForward(n, m, lost) ==
  LET e     == rt_add(rt[n][m.dst])
      fresh == Fresher(e, m.dstSeqno, m.hops)
      ready == IF fresh THEN Waiting(n, m.dst, lost) ELSE {}
  IN /\ m \in rrep /\ Delivered(m, n)
     /\ fresh \/ lost = {}
     /\ rt' = [rt EXCEPT ![n][m.dst] = ForwardRoute(e, m)]
     /\ queue' = [queue EXCEPT ![n] = @ \ (lost \cup ready)]
     /\ data' = data \cup Frames(n, m.from, ready)

Suppressed(n, m) == ~Fresher(rt[n][m.dst], m.dstSeqno, m.hops)

\* The reply has reached the source of the request, or is stale: it stops
\* here and leaves its coordinates.
AcceptReply(n, m) ==
  /\ \E lost \in SUBSET queue[n] : LearnForward(n, m, lost)
  /\ m.ipdst = n \/ Suppressed(n, m)
  /\ loc' = [loc EXCEPT ![n][m.dst] = m.dst]
  /\ rrep' = rrep \ {m}
  /\ UNCHANGED <<seqno, bid, ids, nb, ludp, rreq, rerr, nsent, failed>>

\* Mutant: the hop count of a reply is not increased.
ForwardReplySameHops(n, m) ==
  /\ \E lost \in SUBSET queue[n] : LearnForward(n, m, lost)
  /\ m.ipdst # n /\ ~Suppressed(n, m)
  /\ LET back == rt'[n][m.ipdst]
     IN rrep' = (rrep \ {m}) \cup
          IF back.hops = INFINITY2 \/ m.ttl = 1 THEN {}
          ELSE {[m EXCEPT !.from = n, !.to = back.nexthop, !.ttl = @ - 1]}
  /\ UNCHANGED <<seqno, bid, ids, nb, loc, ludp, rreq, rerr, nsent, failed>>

\* Otherwise it follows the reverse route, or is dropped for want of one.
ForwardReply(n, m) ==
  /\ \E lost \in SUBSET queue[n] : LearnForward(n, m, lost)
  /\ m.ipdst # n /\ ~Suppressed(n, m)
  /\ LET back == rt'[n][m.ipdst]
         next == [m EXCEPT !.from = n, !.to = back.nexthop,
                           !.hops = @ + 1, !.ttl = @ - 1]
     IN /\ rrep' = (rrep \ {m}) \cup
                     IF back.hops = INFINITY2 \/ next.ttl = 0 THEN {} ELSE {next}
        /\ failed' = failed \cup
             Assert(back.hops # INFINITY2 => back.flags = "UP", "recvReply")
  /\ UNCHANGED <<seqno, bid, ids, nb, loc, ludp, rreq, rerr, nsent>>

recvReply(n, m) == AcceptReply(n, m) \/ ForwardReply(n, m)

(***************************************************************************)
(* Timers and neighbours.  A hello carries its sender's position and tells *)
(* nothing else that is read, so it is not stored: a neighbour that sends  *)
(* one every HELLO_INTERVAL may be heard at any time, or not.              *)
(***************************************************************************)
recvHello(n, h) ==
  /\ <<h, n>> \in Link
  /\ nb' = [nb EXCEPT ![n] = @ \cup {h}]
  /\ IF h \in nb[n] THEN UNCHANGED <<seqno, failed>>
     ELSE /\ seqno[n] + 2 <= MaxSeqno[n]
          /\ seqno' = [seqno EXCEPT ![n] = @ + 2]
          /\ failed' = failed \cup Assert(seqno'[n] % 2 = 0, "nb_insert")
  /\ loc' = [loc EXCEPT ![n][h] = h]
  /\ UNCHANGED <<bid, rt, ids, ludp, queue, air, nsent>>

\* handle_link_failure(h): the routes of n through h.
Through(n, h) == {d \in Node : rt[n][d].hops # INFINITY2 /\ rt[n][d].nexthop = h}

\* Mutant: the sequence number of an invalidated route stays.
InvalidateSameSeqno(e) == rt_down(e)

Invalidate(e) == rt_down([e EXCEPT !.seqno = @ + 1])

\* nb_purge() finds h silent for too long: nb_delete(h).  A purge that finds
\* several silent neighbours is as many of these steps.
nb_delete(n, h) ==
  /\ h \in nb[n]
  /\ seqno[n] + 2 <= MaxSeqno[n]
  /\ seqno' = [seqno EXCEPT ![n] = @ + 2]
  /\ nb' = [nb EXCEPT ![n] = @ \ {h}]
  /\ rt' = [rt EXCEPT ![n] = [d \in Node |->
              IF d \in Through(n, h) THEN Invalidate(@[d]) ELSE @[d]]]
  /\ failed' = failed
       \cup Assert(seqno'[n] % 2 = 0, "nb_delete")
       \cup Assert(\A d \in Through(n, h) : rt[n][d].flags = "UP"
                                         /\ rt[n][d].seqno % 2 = 0,
                   "handle_link_failure")
  /\ UNCHANGED <<bid, ids, loc, ludp, queue, air, nsent>>

\* rt_purge(): the routes of E have expired; their buffered packets are
\* dropped, those of the other valid routes are sent.
rt_purge(n, E) ==
  LET up == {d \in Node : rt[n][d].flags = "UP"}
  IN /\ up # {} /\ E \subseteq up
     /\ rt' = [rt EXCEPT ![n] = [d \in Node |->
                 IF d \in E THEN Invalidate(@[d]) ELSE @[d]]]
     /\ \E lost \in SUBSET queue[n] :
          /\ queue' = [queue EXCEPT ![n] = {p \in @ \ lost : p.dst \notin up}]
          /\ data' = data \cup UNION
               {Frames(n, rt[n][d].nexthop, Waiting(n, d, lost)) : d \in up \ E}
     /\ ludp' = [ludp EXCEPT ![n] = @ \ E]
     /\ failed' = failed \cup
          Assert(/\ \A d \in up : rt[n][d].hops # INFINITY2
                 /\ \A d \in E : rt'[n][d].seqno % 2 = 1, "rt_purge")
     /\ UNCHANGED <<seqno, bid, ids, nb, loc, rreq, rrep, rerr, nsent>>

\* id_purge(): a request is forgotten BCAST_ID_SAVE seconds after it came in,
\* long after the flood it belongs to has died out.
id_purge(n) ==
  \E old \in SUBSET ids[n] :
    /\ old # {}
    /\ \A m \in rreq : <<m.src, m.bid>> \notin old
    /\ ids' = [ids EXCEPT ![n] = @ \ old]
    /\ UNCHANGED <<seqno, bid, rt, nb, loc, ludp, queue, air, nsent, failed>>

\* The medium loses a reply or a route error.
Lose ==
  /\ \/ /\ \E m \in rrep : rrep' = rrep \ {m}
        /\ UNCHANGED rerr
     \/ /\ \E m \in rerr : rerr' = rerr \ {m}
        /\ UNCHANGED rrep
  /\ UNCHANGED <<agent, rreq, data, nsent, failed>>

\* A failed assertion ends the program.
Next ==
  /\ failed = {}
  /\ \/ \E s, d \in Node : Originate(s, d)
     \/ \E n \in Node : \E f \in data :
          Relay(n, f) \/ Consume(n, f) \/ rt_ll_failed(n, f)
     \/ \E n \in Node : \E m \in rreq : recvRequest(n, m)
     \/ \E n \in Node : \E m \in rrep : recvReply(n, m)
     \/ \E n, h \in Node : recvHello(n, h) \/ nb_delete(n, h)
     \/ \E n \in Node : \E E \in SUBSET Node : rt_purge(n, E)
     \/ \E n \in Node : id_purge(n)
     \/ Lose

Spec == Init /\ [][Next]_vars

(***************************************************************************)
(* Properties.                                                             *)
(***************************************************************************)

\* The assertions of the agent; the last three are those of AorgluRepair.
AssertLabel == {"rt_resolve", "sendRequest", "recvReply", "nb_insert",
                "nb_delete", "handle_link_failure", "rt_purge",
                "forward", "greedy_next_node", "prev_hop"}

\* Every variable holds values of its kind.
TypeOK ==
  /\ seqno \in [Node -> Nat] /\ bid \in [Node -> Nat]
  /\ rt \in [Node -> [Node -> Entry]]
  /\ ids \in [Node -> SUBSET (Node \X Nat)]
  /\ nb \in [Node -> SUBSET Node] /\ ludp \in [Node -> SUBSET Node]
  /\ loc \in [Node -> [Node -> Node \cup {NoLoc}]]
  /\ queue \in [Node -> SUBSET Packet]
  /\ rreq \subseteq RREQ /\ rrep \subseteq RREP /\ rerr \subseteq RERR
  /\ data \subseteq Frame
  /\ nsent \in Nat
  /\ failed \subseteq AssertLabel

\* No assertion of rt_resolve, sendRequest, recvReply, nb_insert, nb_delete,
\* handle_link_failure or rt_purge ever fails.
NoAssertFails == failed = {}

\* The message between the lines of those assertions: a valid route has an
\* even sequence number and a usable distance, any other has none.
RouteSound(e) ==
  /\ e.flags # "IN_REPAIR"
  /\ IF e.flags = "UP" THEN e.seqno % 2 = 0 /\ e.hops <= NETWORK_DIAMETER
                       ELSE e.hops = INFINITY2 /\ e.nexthop = 0

RoutesSound == \A n, d \in Node : RouteSound(rt[n][d])

\* What keeps it so: own sequence numbers and those of requests and replies
\* are even, and a message on the air has not travelled further than its TTL
\* has let it.
MessageSound(s, m) ==
  s % 2 = 0 /\ m.hops \in 1..NETWORK_DIAMETER /\ m.hops + m.ttl <= NETWORK_DIAMETER + 1

Sound ==
  /\ RoutesSound
  /\ \A n \in Node : seqno[n] % 2 = 0
  /\ \A m \in rreq : MessageSound(m.srcSeqno, m)
  /\ \A m \in rrep : MessageSound(m.dstSeqno, m)

\* rt_purge: "This should not be needed": a packet is never left in the
\* buffer while there is a valid route to its destination.
NoneBufferedWhenUp ==
  \A n \in Node : \A p \in queue[n] : rt[n][p.dst].flags # "UP"

\* recvRequest: "Reset the soft state".  A valid route carries nothing of the
\* searches for it, neither the count of network-wide requests nor the time
\* before which none may go out: whichever message makes it valid, a reply in
\* time or too late, or the request of a destination that searches for the
\* node itself, the next break of the route starts a search of its own, with
\* every retry and no wait.
SearchOver ==
  \A n, d \in Node :
    rt[n][d].flags = "UP" => rt[n][d].reqCnt = 0 /\ ~rt[n][d].reqWait

\* Nobody believes in a destination sequence number its destination has not
\* issued; only an invalidated route may be one ahead.
SeqnosIssued ==
  /\ \A n, d \in Node : rt[n][d].seqno <=
       IF rt[n][d].flags = "UP" THEN seqno[d] ELSE seqno[d] + 1
  /\ \A m \in rreq : m.srcSeqno <= seqno[m.src] /\ m.dstSeqno <= seqno[m.dst] + 1
  /\ \A m \in rrep : m.dstSeqno <= seqno[m.dst]

\* h knows a route to d that is better than sequence number s and distance k.
Closer(h, d, s, k) ==
  \/ h = d
  \/ rt[h][d].seqno > s
  \/ rt[h][d].seqno = s /\ rt[h][d].hops < k

\* Loop freedom: along every valid route the next hop has a fresher route,
\* or one as fresh and shorter, so that following next hops cannot cycle.
NextHopCloser ==
  \A n, d \in Node :
    rt[n][d].flags = "UP" =>
      Closer(rt[n][d].nexthop, d, rt[n][d].seqno, rt[n][d].hops)

\* A packet is in one place at most: one buffer or one frame.
PacketOnce ==
  /\ \A f, g \in data : f.pkt.id = g.pkt.id => f = g
  /\ \A n \in Node : \A p \in queue[n] :
       /\ \A f \in data : f.pkt.id # p.id
       /\ \A o \in Node : \A q \in queue[o] : p.id = q.id => p = q /\ n = o

\* A route is only ever replaced by a fresher one, or by an equally fresh
\* and shorter one; an invalidated route never comes back as it was.
RoutesImprove ==
  [][\A n, d \in Node :
       \/ rt'[n][d].seqno > rt[n][d].seqno
       \/ rt'[n][d].seqno = rt[n][d].seqno /\ rt'[n][d].hops <= rt[n][d].hops]_rt

\* A route table entry as a route of RouteOrder.
RouteOf(e) ==
  [valid |-> e.flags = "UP", seqno |-> e.seqno, hops |-> e.hops, nexthop |-> e.nexthop]

RouteTable == [n \in Node |-> [d \in Node |-> RouteOf(rt[n][d])]]

Routes == INSTANCE RouteOrder WITH issued <- seqno, route <- RouteTable

\* The handlers keep the discipline of RouteOrder: a node takes a route only if
\* it is better than its own and the next hop has a better one still, and gives
\* one up for a number that only a fresher route exceeds.
ImplementsRouteOrder == Routes!Spec

\* aorglu_packet.h and sendRequest: the coordinates of a request are those of
\* its source; every location on record is the place of that node.
LocationsTrue == \A n, m \in Node : loc[n][m] \in {NoLoc, m}

\* aorglu.h: RREQ_RETRIES network-wide searches, then a long timeout.
RetriesBounded == \A n, d \in Node : rt[n][d].reqCnt <= RREQ_RETRIES

\* sendRequest: the first query for a destination has the TTL TTL_START.
FirstQueryIsNear ==
  \A m \in rreq : m.from = m.src /\ m.bid = 1 => m.ttl = TTL_START
=============================================================================
