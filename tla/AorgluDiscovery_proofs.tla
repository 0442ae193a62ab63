---------------------- MODULE AorgluDiscovery_proofs ----------------------
(***************************************************************************)
(* Proofs about AorgluDiscovery.                                           *)
(***************************************************************************)
EXTENDS AorgluDiscovery, TLAPS

\* The larger of two numbers is a number.
LEMMA LargerNat == \A a, b \in Nat : Larger(a, b) \in Nat
BY DEF Larger

\* The operators on route table entries return entries.
LEMMA NoEntryType == NoEntry \in Entry
BY NodeAssumption, ConstantAssumption DEF NoEntry, Entry

\* rt_add returns an entry.
LEMMA AddType == \A e \in Entry : rt_add(e) \in Entry
BY DEF rt_add, Entry

\* rt_update returns an entry.
LEMMA UpdateType ==
  \A e \in Entry, s, h \in Nat, hop \in Node : rt_update(e, s, h, hop) \in Entry
BY DEF rt_update, Entry

\* rt_down returns an entry.
LEMMA DownType == \A e \in Entry : rt_down(e) \in Entry
BY NodeAssumption, ConstantAssumption DEF rt_down, Entry

\* Invalidating a route returns an entry.
LEMMA InvalidateType == \A e \in Entry : Invalidate(e) \in Entry
<1> SUFFICES ASSUME NEW e \in Entry PROVE Invalidate(e) \in Entry
  OBVIOUS
<1>1. [e EXCEPT !.seqno = @ + 1] \in Entry
  BY DEF Entry
<1> QED BY <1>1, DownType DEF Invalidate

\* sendRequest computes a positive TTL.
LEMMA RequestTtlType == \A e \in Entry : RequestTtl(e) \in Nat \ {0}
BY ConstantAssumption DEF RequestTtl, LastTtl, Larger, Entry

\* Starting a search returns an entry.
LEMMA SearchingType == \A e \in Entry : Searching(e) \in Entry
<1> SUFFICES ASSUME NEW e \in Entry PROVE Searching(e) \in Entry
  OBVIOUS
<1>1. RequestTtl(e) \in Nat \ {0}
  BY RequestTtlType
<1>2. LastTtl(e) \in Nat
  BY DEF LastTtl, Larger, Entry
<1>3. CASE LastTtl(e) >= TTL_THRESHOLD
  <2>1. Searching(e) = [e EXCEPT !.reqTtl = RequestTtl(e), !.reqWait = TRUE,
                                 !.reqCnt = e.reqCnt + 1]
    BY <1>3, Zenon DEF Searching
  <2>2. e.reqCnt + 1 \in Nat
    BY DEF Entry
  <2> QED BY <1>1, <2>1, <2>2 DEF Entry
<1>4. CASE ~(LastTtl(e) >= TTL_THRESHOLD)
  <2>1. Searching(e) = [e EXCEPT !.reqTtl = RequestTtl(e), !.reqWait = TRUE,
                                 !.reqCnt = e.reqCnt]
    BY <1>4, Zenon DEF Searching
  <2> QED BY <1>1, <2>1 DEF Entry
<1> QED BY <1>3, <1>4

\* Learning a reverse route returns an entry.
LEMMA ReverseType ==
  \A e \in Entry, m \in RREQ : ReverseRoute(e, m) \in Entry
<1> SUFFICES ASSUME NEW e \in Entry, NEW m \in RREQ
             PROVE  ReverseRoute(e, m) \in Entry
  OBVIOUS
<1>1. rt_update(e, m.srcSeqno, m.hops, m.from) \in Entry
  BY UpdateType DEF RREQ
<1> QED BY <1>1 DEF ReverseRoute, Entry, RREQ

\* Learning a forward route returns an entry.
LEMMA ForwardType ==
  \A e \in Entry, m \in RREP : ForwardRoute(e, m) \in Entry
<1> SUFFICES ASSUME NEW e \in Entry, NEW m \in RREP
             PROVE  ForwardRoute(e, m) \in Entry
  OBVIOUS
<1>1. rt_update(e, m.dstSeqno, m.hops, m.from) \in Entry
  BY UpdateType DEF RREP
<1> QED BY <1>1 DEF ForwardRoute, Entry, RREP

\* The number of a reply is a number.
LEMMA ReplySeqnoType ==
  \A a, b \in Nat : /\ ReplySeqno(a, b) \in Nat
                    /\ ReplySeqno(a, b) % 2 = 0
                    /\ ReplySeqno(a, b) > a
                    /\ ReplySeqno(a, b) > b
BY DEF ReplySeqno, Larger

\* forward() of packets makes frames.
LEMMA FramesType ==
  ASSUME NEW n \in Node, NEW hop \in Node, NEW P \in SUBSET Packet
  PROVE  Frames(n, hop, P) \subseteq Frame
BY DEF Frames, Frame

\* A broadcast request makes requests.
LEMMA BroadcastType ==
  ASSUME NEW m \in RREQ, NEW R \in SUBSET Node
  PROVE  Broadcast(m, R) \subseteq RREQ
BY DEF Broadcast, RREQ

\* sendError makes route errors.
LEMMA ErrorType ==
  ASSUME TypeOK, NEW n \in Node, NEW d \in Node, NEW u \in Node
  PROVE  ErrorFor(n, d, u) \subseteq RERR
BY DEF TypeOK, ErrorFor, RERR, Entry

\* A delivered message comes from another node.
LEMMA NextNodes ==
  ASSUME NEW n \in Node, NEW m, Delivered(m, n)
  PROVE  m.to = n /\ m.from \in Node /\ m.from # n
BY TopologyAssumption DEF Delivered

\* What sendRequest may do keeps the types.
LEMMA SendType ==
  ASSUME TypeOK, NEW n \in Node, NEW d \in Node, NEW e \in Entry,
         NEW q \in SUBSET Packet, sendRequest(n, d, e, q),
         UNCHANGED <<ids, nb, loc, ludp, rrep, rerr>>,
         data' \subseteq Frame, nsent' \in Nat
  PROVE  TypeOK'
<1>1. CASE RateLimited(n, d, e, q)
  BY <1>1 DEF RateLimited, TypeOK
<1>2. CASE GiveUp(n, d, e, q)
  <2>1. [e EXCEPT !.reqCnt = 0, !.reqWait = TRUE] \in Entry
    BY DEF Entry
  <2> QED BY <1>2, <2>1 DEF GiveUp, TypeOK
<1>3. CASE Search(n, d, e, q)
  <2>1. Searching(e) \in Entry /\ RequestTtl(e) \in Nat \ {0}
    BY SearchingType, RequestTtlType
  <2>2. rreq' \subseteq RREQ
    <3> DEFINE m == [from |-> n, to |-> n, src |-> n, bid |-> bid[n],
                     dst |-> d, srcSeqno |-> seqno[n] + 2,
                     dstSeqno |-> e.seqno, hops |-> 1, ttl |-> RequestTtl(e)]
    <3>1. PICK R \in SUBSET Neighbours(n) : rreq' = rreq \cup Broadcast(m, R)
      BY <1>3 DEF Search
    <3>2. m \in RREQ
      BY <2>1 DEF TypeOK, RREQ, Entry
    <3> QED BY <3>1, <3>2, BroadcastType DEF TypeOK, Neighbours
  <2>3. /\ seqno' \in [Node -> Nat] /\ bid' \in [Node -> Nat]
        /\ rt' \in [Node -> [Node -> Entry]]
        /\ queue' \in [Node -> SUBSET Packet]
        /\ failed' \subseteq AssertLabel
    BY <1>3, <2>1 DEF Search, TypeOK, Assert, AssertLabel
  <2> QED BY <2>2, <2>3 DEF TypeOK
<1> QED BY <1>1, <1>2, <1>3 DEF sendRequest

\* What rt_resolve may do keeps the types.
LEMMA ResolveType ==
  ASSUME TypeOK, NEW n \in Node, NEW p \in Packet, NEW arrived,
         rt_resolve(n, p, arrived), nsent' \in Nat
  PROVE  TypeOK'
<1> DEFINE d == p.dst
           e == rt_add(rt[n][d])
<1>1. d \in Node /\ p.src \in Node /\ rt[n][d] \in Entry /\ e \in Entry
  BY AddType DEF TypeOK, Packet
<1>2. CASE ResolveForward(n, p, arrived)
  <2>1. Frames(n, rt[n][d].nexthop, {p}) \subseteq Frame
    BY <1>1, FramesType DEF Entry
  <2> QED BY <1>2, <2>1 DEF ResolveForward, agent, TypeOK, Assert, AssertLabel
<1>3. CASE ResolveBuffer(n, p, arrived)
  <2>1. PICK lost \in SUBSET queue[n] :
          \/ /\ e.flags = "IN_REPAIR"
             /\ queue' = [queue EXCEPT ![n] = (queue[n] \ lost) \cup {p}]
             /\ UNCHANGED <<seqno, bid, rt, rreq, failed>>
          \/ sendRequest(n, d, e, (queue[n] \ lost) \cup {p})
    BY <1>3 DEF ResolveBuffer
  <2> DEFINE q == (queue[n] \ lost) \cup {p}
  <2>2. q \in SUBSET Packet
    BY DEF TypeOK
  <2>3. data' \subseteq Frame /\ UNCHANGED <<ids, nb, loc, ludp, rrep, rerr>>
    BY <1>3 DEF ResolveBuffer, TypeOK
  <2>4. CASE /\ queue' = [queue EXCEPT ![n] = q]
             /\ UNCHANGED <<seqno, bid, rt, rreq, failed>>
    BY <2>2, <2>3, <2>4 DEF TypeOK
  <2>5. CASE sendRequest(n, d, e, q)
    BY <1>1, <2>2, <2>3, <2>5, SendType
  <2> QED BY <2>1, <2>4, <2>5
<1>4. CASE ResolveError(n, p, arrived)
  BY <1>1, <1>4, ErrorType DEF ResolveError, TypeOK
<1> QED BY <1>2, <1>3, <1>4 DEF rt_resolve

\* What recvRequest learns keeps the types.
LEMMA LearnReverseType ==
  ASSUME TypeOK, NEW n \in Node, NEW m \in rreq, NEW lost \in SUBSET queue[n],
         LearnReverse(n, m, lost)
  PROVE  /\ ids' \in [Node -> SUBSET (Node \X Nat)]
         /\ rt' \in [Node -> [Node -> Entry]]
         /\ queue' \in [Node -> SUBSET Packet]
         /\ data' \subseteq Frame
<1>1. m \in RREQ /\ m.from \in Node /\ m.src \in Node /\ m.bid \in Nat
  BY DEF TypeOK, RREQ
<1>2. rt_add(rt[n][m.src]) \in Entry
  BY <1>1, AddType DEF TypeOK
<1>3. ReverseRoute(rt_add(rt[n][m.src]), m) \in Entry
  BY <1>1, <1>2, ReverseType
<1>4. Waiting(n, m.src, lost) \subseteq queue[n] /\ queue[n] \subseteq Packet
  BY DEF Waiting, TypeOK
<1>5. Frames(n, m.from, Waiting(n, m.src, lost)) \subseteq Frame
      /\ Frames(n, m.from, {}) \subseteq Frame
  BY <1>1, <1>4, FramesType
<1>6. data' \subseteq Frame
  BY <1>5 DEF LearnReverse, TypeOK
<1> QED BY <1>1, <1>3, <1>4, <1>6 DEF LearnReverse, TypeOK

\* What recvReply learns keeps the types.
LEMMA LearnForwardType ==
  ASSUME TypeOK, NEW n \in Node, NEW m \in rrep, NEW lost \in SUBSET queue[n],
         LearnForward(n, m, lost)
  PROVE  /\ rt' \in [Node -> [Node -> Entry]]
         /\ queue' \in [Node -> SUBSET Packet]
         /\ data' \subseteq Frame
<1>1. m \in RREP /\ m.from \in Node /\ m.dst \in Node
  BY DEF TypeOK, RREP
<1>2. rt_add(rt[n][m.dst]) \in Entry
  BY <1>1, AddType DEF TypeOK
<1>3. ForwardRoute(rt_add(rt[n][m.dst]), m) \in Entry
  BY <1>1, <1>2, ForwardType
<1>4. Waiting(n, m.dst, lost) \subseteq queue[n] /\ queue[n] \subseteq Packet
  BY DEF Waiting, TypeOK
<1>5. Frames(n, m.from, Waiting(n, m.dst, lost)) \subseteq Frame
      /\ Frames(n, m.from, {}) \subseteq Frame
  BY <1>1, <1>4, FramesType
<1>6. data' \subseteq Frame
  BY <1>5 DEF LearnForward, TypeOK
<1> QED BY <1>1, <1>3, <1>4, <1>6 DEF LearnForward, TypeOK

\* recvRequest keeps the types.
LEMMA RequestType ==
  ASSUME TypeOK, NEW n \in Node, NEW m \in rreq, recvRequest(n, m)
  PROVE  TypeOK'
<1>1. m \in RREQ
  BY DEF TypeOK
<1>2. CASE DiscardRequest(n, m)
  BY <1>2 DEF DiscardRequest, agent, TypeOK
<1>3. CASE AnswerRequest(n, m)
  <2>1. PICK lost \in SUBSET queue[n] : LearnReverse(n, m, lost)
    BY <1>3 DEF AnswerRequest
  <2>2. ReplySeqno(seqno[n], m.dstSeqno) \in Nat
    BY <1>1, ReplySeqnoType DEF TypeOK, RREQ
  <2>3. rt'[n][m.src].nexthop \in Node
    BY <1>1, <2>1, LearnReverseType DEF Entry, RREQ
  <2>4. rrep' \subseteq RREP
    BY <1>1, <1>3, <2>2, <2>3, ConstantAssumption
    DEF AnswerRequest, TypeOK, RREP, RREQ
  <2>5. /\ seqno' \in [Node -> Nat] /\ ludp' \in [Node -> SUBSET Node]
        /\ loc' \in [Node -> [Node -> Node \cup {NoLoc}]]
        /\ rreq' \subseteq RREQ
    BY <1>1, <1>3, <2>2 DEF AnswerRequest, TypeOK, RREQ
  <2> QED BY <1>3, <2>1, <2>4, <2>5, LearnReverseType DEF AnswerRequest, TypeOK
<1>4. CASE ForwardRequest(n, m)
  <2>1. PICK lost \in SUBSET queue[n] : LearnReverse(n, m, lost)
    BY <1>4 DEF ForwardRequest
  <2> DEFINE c == [m EXCEPT !.from = n, !.hops = @ + 1, !.ttl = @ - 1,
                            !.dstSeqno = Larger(rt[n][m.dst].seqno, @)]
  <2>2. PICK R \in SUBSET Neighbours(n) :
          rreq' = (rreq \ {m}) \cup Broadcast(c, IF m.ttl = 1 THEN {} ELSE R)
    BY <1>4 DEF ForwardRequest
  <2>3. rreq' \subseteq RREQ
    <3>1. CASE m.ttl = 1
      BY <2>2, <3>1 DEF Broadcast, TypeOK
    <3>2. CASE m.ttl # 1
      <4>1. rt[n][m.dst].seqno \in Nat /\ m.dstSeqno \in Nat
        BY <1>1 DEF TypeOK, Entry, RREQ
      <4>2. Larger(rt[n][m.dst].seqno, m.dstSeqno) \in Nat
        BY <4>1, LargerNat
      <4>3. m.ttl - 1 \in Nat \ {0} /\ m.hops + 1 \in Nat
        BY <1>1, <3>2 DEF RREQ
      <4>4. c \in RREQ
        BY <1>1, <4>2, <4>3 DEF RREQ
      <4> QED BY <2>2, <4>4, BroadcastType DEF TypeOK, Neighbours
    <3> QED BY <3>1, <3>2
  <2> QED BY <1>4, <2>1, <2>3, LearnReverseType DEF ForwardRequest, TypeOK
<1> QED BY <1>2, <1>3, <1>4 DEF recvRequest

\* recvReply keeps the types.
LEMMA ReplyType ==
  ASSUME TypeOK, NEW n \in Node, NEW m \in rrep, recvReply(n, m)
  PROVE  TypeOK'
<1>1. m \in RREP
  BY DEF TypeOK
<1>2. CASE AcceptReply(n, m)
  <2>1. PICK lost \in SUBSET queue[n] : LearnForward(n, m, lost)
    BY <1>2 DEF AcceptReply
  <2>2. loc' \in [Node -> [Node -> Node \cup {NoLoc}]] /\ rrep' \subseteq RREP
    BY <1>1, <1>2 DEF AcceptReply, TypeOK, RREP
  <2> QED BY <1>2, <2>1, <2>2, LearnForwardType DEF AcceptReply, TypeOK
<1>3. CASE ForwardReply(n, m)
  <2>1. PICK lost \in SUBSET queue[n] : LearnForward(n, m, lost)
    BY <1>3 DEF ForwardReply
  <2> DEFINE back == rt'[n][m.ipdst]
             next == [m EXCEPT !.from = n, !.to = back.nexthop,
                               !.hops = @ + 1, !.ttl = @ - 1]
  <2>2. rrep' = (rrep \ {m}) \cup
                  IF back.hops = INFINITY2 \/ next.ttl = 0 THEN {} ELSE {next}
    BY <1>3, Zenon DEF ForwardReply
  <2>3. back \in Entry
    BY <1>1, <2>1, LearnForwardType DEF RREP
  <2>4. next.ttl = 0 \/ next \in RREP
    <3>1. /\ m.hops + 1 \in Nat /\ m.ttl - 1 \in Nat /\ back.nexthop \in Node
          /\ next.ttl = m.ttl - 1
      BY <1>1, <2>3 DEF RREP, Entry
    <3> HIDE DEF back
    <3> QED BY <1>1, <3>1 DEF RREP
  <2>5. rrep' \subseteq RREP
    BY <2>2, <2>4 DEF TypeOK
  <2>6. failed' \subseteq AssertLabel
    BY <1>3 DEF ForwardReply, TypeOK, Assert, AssertLabel
  <2> QED BY <1>3, <2>1, <2>5, <2>6, LearnForwardType DEF ForwardReply, TypeOK
<1> QED BY <1>2, <1>3 DEF recvReply

\* rt_purge keeps the types.
LEMMA PurgeType ==
  ASSUME TypeOK, NEW n \in Node, NEW E \in SUBSET Node, rt_purge(n, E)
  PROVE  TypeOK'
<1> DEFINE up == {d \in Node : rt[n][d].flags = "UP"}
<1>1. PICK lost \in SUBSET queue[n] :
        /\ queue' = [queue EXCEPT ![n] = {p \in @ \ lost : p.dst \notin up}]
        /\ data' = data \cup UNION
             {Frames(n, rt[n][d].nexthop, Waiting(n, d, lost)) : d \in up \ E}
  BY DEF rt_purge
<1>2. data' \subseteq Frame
  <2>1. ASSUME NEW d \in up \ E
        PROVE  Frames(n, rt[n][d].nexthop, Waiting(n, d, lost)) \subseteq Frame
    <3>1. Waiting(n, d, lost) \in SUBSET Packet
      BY DEF Waiting, TypeOK
    <3>2. rt[n][d].nexthop \in Node
      BY DEF TypeOK, Entry
    <3> QED BY <3>1, <3>2, FramesType
  <2> QED BY <1>1, <2>1 DEF TypeOK
<1>3. rt' \in [Node -> [Node -> Entry]]
  BY InvalidateType DEF rt_purge, TypeOK
<1>4. queue' \in [Node -> SUBSET Packet]
  BY <1>1 DEF TypeOK
<1>5. ludp' \in [Node -> SUBSET Node] /\ failed' \subseteq AssertLabel
  BY DEF rt_purge, TypeOK, Assert, AssertLabel
<1> QED BY <1>2, <1>3, <1>4, <1>5 DEF rt_purge, TypeOK

\* nb_delete keeps the types.
LEMMA DeleteType ==
  ASSUME TypeOK, NEW n \in Node, NEW h \in Node, nb_delete(n, h)
  PROVE  TypeOK'
<1>1. rt' \in [Node -> [Node -> Entry]]
  BY InvalidateType DEF nb_delete, TypeOK
<1>2. failed' \subseteq AssertLabel
  BY DEF nb_delete, TypeOK, Assert, AssertLabel
<1>3. seqno' \in [Node -> Nat] /\ nb' \in [Node -> SUBSET Node]
  BY DEF nb_delete, TypeOK
<1> QED BY <1>1, <1>2, <1>3 DEF nb_delete, TypeOK, air

\* Every step keeps the types.
LEMMA TypeStep == TypeOK /\ [Next]_vars => TypeOK'
<1> SUFFICES ASSUME TypeOK, [Next]_vars PROVE TypeOK'
  OBVIOUS
<1>1. ASSUME NEW s \in Node, NEW d \in Node, Originate(s, d) PROVE TypeOK'
  <2> DEFINE p == [id |-> nsent + 1, src |-> s, dst |-> d,
                   ttl |-> NETWORK_DIAMETER]
  <2>1. p \in Packet
    BY ConstantAssumption DEF Packet, TypeOK
  <2>2. rt_resolve(s, p, {}) /\ nsent' \in Nat
    BY <1>1 DEF Originate, TypeOK
  <2> QED BY <2>1, <2>2, ResolveType
<1>2. ASSUME NEW n \in Node, NEW f \in data, Relay(n, f) PROVE TypeOK'
  <2> DEFINE p == [f.pkt EXCEPT !.ttl = @ - 1]
  <2>1. p \in Packet
    <3>1. f.pkt \in Packet
      BY DEF Frame, TypeOK
    <3>2. f.pkt.ttl \in Nat \ {0} /\ p.ttl = f.pkt.ttl - 1
      BY <3>1 DEF Packet
    <3>3. p.ttl # 0
      BY <1>2 DEF Relay
    <3> QED BY <3>1, <3>2, <3>3 DEF Packet
  <2>2. rt_resolve(n, p, {f}) /\ nsent' \in Nat
    BY <1>2 DEF Relay, TypeOK
  <2> QED BY <2>1, <2>2, ResolveType
<1>3. ASSUME NEW n \in Node, NEW f \in data, Consume(n, f) PROVE TypeOK'
  BY <1>3 DEF Consume, TypeOK, agent
<1>4. ASSUME NEW n \in Node, NEW f \in data, rt_ll_failed(n, f) PROVE TypeOK'
  <2>1. ErrorFor(n, f.pkt.src, f.pkt.dst) \subseteq RERR
    BY ErrorType DEF TypeOK, Frame, Packet
  <2> QED BY <1>4, <2>1 DEF rt_ll_failed, TypeOK, agent
<1>5. ASSUME NEW n \in Node, NEW m \in rreq, recvRequest(n, m) PROVE TypeOK'
  BY <1>5, RequestType
<1>6. ASSUME NEW n \in Node, NEW m \in rrep, recvReply(n, m) PROVE TypeOK'
  BY <1>6, ReplyType
<1>7. ASSUME NEW n \in Node, NEW h \in Node, recvHello(n, h) PROVE TypeOK'
  <2>1. seqno' \in [Node -> Nat] /\ failed' \subseteq AssertLabel
    <3>1. CASE h \in nb[n]
      BY <1>7, <3>1 DEF recvHello, TypeOK
    <3>2. CASE h \notin nb[n]
      <4>1. /\ seqno' = [seqno EXCEPT ![n] = @ + 2]
            /\ failed' = failed \cup Assert(seqno'[n] % 2 = 0, "nb_insert")
        BY <1>7, <3>2 DEF recvHello
      <4>2. seqno' \in [Node -> Nat]
        BY <4>1 DEF TypeOK
      <4>3. failed' \subseteq AssertLabel
        BY <4>1 DEF TypeOK, Assert, AssertLabel
      <4> QED BY <4>2, <4>3
    <3> QED BY <3>1, <3>2
  <2>2. /\ nb' \in [Node -> SUBSET Node]
        /\ loc' \in [Node -> [Node -> Node \cup {NoLoc}]]
    BY <1>7 DEF recvHello, TypeOK
  <2> QED BY <1>7, <2>1, <2>2 DEF recvHello, TypeOK, air
<1>8. ASSUME NEW n \in Node, NEW h \in Node, nb_delete(n, h) PROVE TypeOK'
  BY <1>8, DeleteType
<1>9. ASSUME NEW n \in Node, NEW E \in SUBSET Node, rt_purge(n, E) PROVE TypeOK'
  BY <1>9, PurgeType
<1>10. ASSUME NEW n \in Node, id_purge(n) PROVE TypeOK'
  BY <1>10 DEF id_purge, TypeOK, air
<1>11. CASE Lose
  BY <1>11 DEF Lose, TypeOK, agent
<1>12. CASE UNCHANGED vars
  BY <1>12 DEF vars, TypeOK
<1> QED BY <1>1, <1>2, <1>3, <1>4, <1>5, <1>6, <1>7, <1>8, <1>9, <1>10, <1>11,
           <1>12 DEF Next

\* Type correctness.
THEOREM TypeCorrect == Spec => []TypeOK
<1>1. Init => TypeOK
  BY NoEntryType DEF Init, TypeOK, AssertLabel
<1> QED BY <1>1, TypeStep, PTL DEF Spec

-----------------------------------------------------------------------------
(***************************************************************************)
(* What one step can do to a route table entry, to the requests and the    *)
(* replies on the air and to a sequence number.  All later proofs go by    *)
(* these cases and not by the actions.                                     *)
(***************************************************************************)
Kept(n, d) ==
  /\ rt'[n][d].seqno = rt[n][d].seqno
  /\ rt'[n][d].hops = rt[n][d].hops
  /\ rt'[n][d].nexthop = rt[n][d].nexthop
  /\ \/ rt'[n][d].flags = rt[n][d].flags
     \/ /\ rt[n][d].flags = "ABSENT"
        /\ rt'[n][d].flags = "DOWN"

Learned(n, d, s, k, h) ==
  /\ Fresher(rt[n][d], s, k)
  /\ rt'[n][d].seqno = s
  /\ rt'[n][d].hops = k
  /\ rt'[n][d].nexthop = h
  /\ rt'[n][d].flags = "UP"

Dropped(n, d) ==
  /\ rt[n][d].flags = "UP" \/ rt[n][d].hops # INFINITY2
  /\ rt'[n][d].seqno = rt[n][d].seqno + 1
  /\ rt'[n][d].hops = INFINITY2
  /\ rt'[n][d].nexthop = 0
  /\ rt'[n][d].flags = "DOWN"

EntryStep(n, d) ==
  \/ Kept(n, d)
  \/ \E m \in rreq : /\ Delivered(m, n) /\ d = m.src
                     /\ Learned(n, d, m.srcSeqno, m.hops, m.from)
  \/ \E m \in rrep : /\ Delivered(m, n) /\ d = m.dst
                     /\ Learned(n, d, m.dstSeqno, m.hops, m.from)
  \/ Dropped(n, d)

\* rt_add only turns an absent entry into one that is down.
LEMMA AddKeeps ==
  \A e \in Entry :
    /\ rt_add(e).seqno = e.seqno /\ rt_add(e).hops = e.hops
    /\ rt_add(e).nexthop = e.nexthop /\ rt_add(e).reqWait = e.reqWait
    /\ \/ rt_add(e).flags = e.flags
       \/ /\ e.flags = "ABSENT"
          /\ rt_add(e).flags = "DOWN"
BY DEF rt_add, Entry

\* sendRequest leaves the route alone and marks the search.
LEMMA SearchingKeeps ==
  \A e \in Entry :
    /\ Searching(e).seqno = e.seqno /\ Searching(e).hops = e.hops
    /\ Searching(e).nexthop = e.nexthop /\ Searching(e).flags = e.flags
    /\ Searching(e).reqWait = TRUE
<1> SUFFICES ASSUME NEW e \in Entry
             PROVE  /\ Searching(e).seqno = e.seqno
                    /\ Searching(e).hops = e.hops
                    /\ Searching(e).nexthop = e.nexthop
                    /\ Searching(e).flags = e.flags
                    /\ Searching(e).reqWait = TRUE
  OBVIOUS
<1>1. PICK t, c : Searching(e) = [e EXCEPT !.reqTtl = t, !.reqWait = TRUE,
                                           !.reqCnt = c]
  BY DEF Searching
<1> QED BY <1>1 DEF Entry

\* An invalidated route is down, one number ahead, and its search is as before.
LEMMA InvalidateDrops ==
  \A e \in Entry : e.flags # "DOWN" =>
    /\ Invalidate(e).seqno = e.seqno + 1 /\ Invalidate(e).hops = INFINITY2
    /\ Invalidate(e).nexthop = 0 /\ Invalidate(e).flags = "DOWN"
    /\ Invalidate(e).reqWait = e.reqWait
BY DEF Invalidate, rt_down, Entry

\* A reverse route is that of the request if the request is fresher, the old one otherwise.
LEMMA ReverseLearns ==
  \A e \in Entry, m \in RREQ :
    IF Fresher(e, m.srcSeqno, m.hops)
    THEN /\ ReverseRoute(e, m).seqno = m.srcSeqno
         /\ ReverseRoute(e, m).hops = m.hops
         /\ ReverseRoute(e, m).nexthop = m.from
         /\ ReverseRoute(e, m).flags = "UP"
    ELSE ReverseRoute(e, m) = e
BY DEF ReverseRoute, rt_update, Entry, RREQ

\* A forward route is that of the reply if the reply is fresher, the old one otherwise.
LEMMA ForwardLearns ==
  \A e \in Entry, m \in RREP :
    IF Fresher(e, m.dstSeqno, m.hops)
    THEN /\ ForwardRoute(e, m).seqno = m.dstSeqno
         /\ ForwardRoute(e, m).hops = m.hops
         /\ ForwardRoute(e, m).nexthop = m.from
         /\ ForwardRoute(e, m).flags = "UP"
    ELSE ForwardRoute(e, m) = e
BY DEF ForwardRoute, rt_update, Entry, RREP

\* rt_add does not change what counts as fresher.
LEMMA FresherAdd ==
  \A e \in Entry, s, k \in Nat : Fresher(rt_add(e), s, k) <=> Fresher(e, s, k)
BY AddKeeps DEF Fresher

\* recvRequest changes entries in the ways EntryStep lists.
LEMMA ReverseEntryStep ==
  ASSUME TypeOK, NEW n \in Node, NEW m \in rreq, NEW lost,
         LearnReverse(n, m, lost), NEW x \in Node, NEW d \in Node
  PROVE  EntryStep(x, d)
<1> DEFINE e == rt_add(rt[n][m.src])
<1>1. m \in RREQ /\ m.src \in Node /\ m.srcSeqno \in Nat /\ m.hops \in Nat
  BY DEF TypeOK, RREQ
<1>2. rt[n][m.src] \in Entry /\ e \in Entry
  BY <1>1, AddType DEF TypeOK
<1>3. /\ Delivered(m, n)
      /\ rt' = [rt EXCEPT ![n][m.src] = ReverseRoute(e, m)]
  BY DEF LearnReverse
<1>4. CASE ~(x = n /\ d = m.src)
  BY <1>3, <1>4 DEF EntryStep, Kept, TypeOK
<1>5. CASE x = n /\ d = m.src
  <2>1. rt'[x][d] = ReverseRoute(e, m)
    BY <1>1, <1>3, <1>5 DEF TypeOK
  <2>2. CASE Fresher(e, m.srcSeqno, m.hops)
    <3>1. Fresher(rt[n][m.src], m.srcSeqno, m.hops)
      BY <1>1, <1>2, <2>2, FresherAdd
    <3>2. Learned(n, d, m.srcSeqno, m.hops, m.from)
      BY <1>1, <1>2, <1>5, <2>1, <2>2, <3>1, ReverseLearns DEF Learned
    <3> QED BY <1>3, <1>5, <3>2 DEF EntryStep
  <2>3. CASE ~Fresher(e, m.srcSeqno, m.hops)
    <3>1. rt'[x][d] = e
      BY <1>1, <1>2, <2>1, <2>3, ReverseLearns
    <3> QED BY <1>2, <1>5, <3>1, AddKeeps DEF EntryStep, Kept
  <2> QED BY <2>2, <2>3
<1> QED BY <1>4, <1>5

\* recvReply changes entries in the ways EntryStep lists.
LEMMA ForwardEntryStep ==
  ASSUME TypeOK, NEW n \in Node, NEW m \in rrep, NEW lost,
         LearnForward(n, m, lost), NEW x \in Node, NEW d \in Node
  PROVE  EntryStep(x, d)
<1> DEFINE e == rt_add(rt[n][m.dst])
<1>1. m \in RREP /\ m.dst \in Node /\ m.dstSeqno \in Nat /\ m.hops \in Nat
  BY DEF TypeOK, RREP
<1>2. rt[n][m.dst] \in Entry /\ e \in Entry
  BY <1>1, AddType DEF TypeOK
<1>3. /\ Delivered(m, n)
      /\ rt' = [rt EXCEPT ![n][m.dst] = ForwardRoute(e, m)]
  BY DEF LearnForward
<1>4. CASE ~(x = n /\ d = m.dst)
  BY <1>3, <1>4 DEF EntryStep, Kept, TypeOK
<1>5. CASE x = n /\ d = m.dst
  <2>1. rt'[x][d] = ForwardRoute(e, m)
    BY <1>1, <1>3, <1>5 DEF TypeOK
  <2>2. CASE Fresher(e, m.dstSeqno, m.hops)
    <3>1. Fresher(rt[n][m.dst], m.dstSeqno, m.hops)
      BY <1>1, <1>2, <2>2, FresherAdd
    <3>2. Learned(n, d, m.dstSeqno, m.hops, m.from)
      BY <1>1, <1>2, <1>5, <2>1, <2>2, <3>1, ForwardLearns DEF Learned
    <3> QED BY <1>3, <1>5, <3>2 DEF EntryStep
  <2>3. CASE ~Fresher(e, m.dstSeqno, m.hops)
    <3>1. rt'[x][d] = e
      BY <1>1, <1>2, <2>1, <2>3, ForwardLearns
    <3> QED BY <1>2, <1>5, <3>1, AddKeeps DEF EntryStep, Kept
  <2> QED BY <2>2, <2>3
<1> QED BY <1>4, <1>5

\* rt_resolve changes no route.
LEMMA ResolveEntryStep ==
  ASSUME TypeOK, NEW n \in Node, NEW p \in Packet, NEW arrived,
         rt_resolve(n, p, arrived), NEW x \in Node, NEW d \in Node
  PROVE  Kept(x, d)
<1> DEFINE e == rt_add(rt[n][p.dst])
<1>1. p.dst \in Node /\ rt[n][p.dst] \in Entry /\ e \in Entry
  BY AddType DEF TypeOK, Packet
<1>2. CASE rt' = rt
  BY <1>2 DEF Kept
<1>3. ASSUME NEW c, rt' = [rt EXCEPT ![n][p.dst] = c],
             c.seqno = e.seqno, c.hops = e.hops,
             c.nexthop = e.nexthop, c.flags = e.flags
      PROVE  Kept(x, d)
  <2>1. CASE x = n /\ d = p.dst
    <3>1. rt'[x][d] = c /\ rt[x][d] = rt[n][p.dst]
      BY <1>1, <1>3, <2>1 DEF TypeOK
    <3> QED BY <1>1, <1>3, <3>1, AddKeeps DEF Kept
  <2>2. CASE ~(x = n /\ d = p.dst)
    BY <1>3, <2>2 DEF Kept, TypeOK
  <2> QED BY <2>1, <2>2
<1>4. CASE ResolveForward(n, p, arrived)
  BY <1>2, <1>4 DEF ResolveForward, agent
<1>5. CASE ResolveBuffer(n, p, arrived)
  <2>1. \/ rt' = rt
        \/ \E q : sendRequest(n, p.dst, e, q)
    BY <1>5 DEF ResolveBuffer
  <2>2. ASSUME NEW q, sendRequest(n, p.dst, e, q) PROVE Kept(x, d)
    <3>1. CASE RateLimited(n, p.dst, e, q)
      BY <1>3, <3>1 DEF RateLimited
    <3>2. CASE GiveUp(n, p.dst, e, q)
      <4> DEFINE c == [e EXCEPT !.reqCnt = 0, !.reqWait = TRUE]
      <4>1. /\ c.seqno = e.seqno /\ c.hops = e.hops
            /\ c.nexthop = e.nexthop /\ c.flags = e.flags
        BY <1>1 DEF Entry
      <4> QED BY <1>3, <3>2, <4>1 DEF GiveUp
    <3>3. CASE Search(n, p.dst, e, q)
      BY <1>1, <1>3, <3>3, SearchingKeeps DEF Search
    <3> QED BY <2>2, <3>1, <3>2, <3>3 DEF sendRequest
  <2> QED BY <1>2, <2>1, <2>2
<1>6. CASE ResolveError(n, p, arrived)
  BY <1>1, <1>3, <1>6 DEF ResolveError, TypeOK
<1> QED BY <1>4, <1>5, <1>6 DEF rt_resolve

\* A route that is not in use, nor under repair, has no distance.
RoutesFar ==
  \A n, d \in Node : rt[n][d].flags \in {"ABSENT", "DOWN"} => rt[n][d].hops = INFINITY2

LEMMA SoundIsFar == Sound => RoutesFar
BY DEF Sound, RoutesSound, RouteSound, RoutesFar

\* Every step of the network changes entries in the ways EntryStep lists.
LEMMA EntrySteps ==
  ASSUME TypeOK, RoutesFar, Next, NEW x \in Node, NEW d \in Node
  PROVE  EntryStep(x, d)
<1>0. Kept(x, d) => EntryStep(x, d)
  BY DEF EntryStep
<1>1. rt' = rt => EntryStep(x, d)
  BY DEF EntryStep, Kept
<1>2. rt[x][d] \in Entry
  BY DEF TypeOK
<1>3. ASSUME NEW a \in Node, NEW b \in Node, Originate(a, b)
      PROVE  EntryStep(x, d)
  <2> DEFINE p == [id |-> nsent + 1, src |-> a, dst |-> b,
                   ttl |-> NETWORK_DIAMETER]
  <2>1. p \in Packet
    BY ConstantAssumption DEF Packet, TypeOK
  <2>2. rt_resolve(a, p, {})
    BY <1>3 DEF Originate
  <2> QED BY <1>0, <2>1, <2>2, ResolveEntryStep
<1>4. ASSUME NEW n \in Node, NEW f \in data, Relay(n, f)
      PROVE  EntryStep(x, d)
  <2> DEFINE p == [f.pkt EXCEPT !.ttl = @ - 1]
  <2>1. p \in Packet
    <3>1. f.pkt \in Packet /\ p.ttl = f.pkt.ttl - 1 /\ p.ttl # 0
      BY <1>4 DEF Frame, TypeOK, Packet, Relay
    <3> QED BY <3>1 DEF Packet
  <2>2. rt_resolve(n, p, {f})
    BY <1>4 DEF Relay
  <2> QED BY <1>0, <2>1, <2>2, ResolveEntryStep
<1>5. ASSUME NEW n \in Node, NEW f \in data, Consume(n, f) \/ rt_ll_failed(n, f)
      PROVE  EntryStep(x, d)
  BY <1>1, <1>5 DEF Consume, rt_ll_failed, agent
<1>6. ASSUME NEW n \in Node, NEW m \in rreq, recvRequest(n, m)
      PROVE  EntryStep(x, d)
  <2>1. CASE DiscardRequest(n, m)
    BY <1>1, <2>1 DEF DiscardRequest, agent
  <2>2. CASE AnswerRequest(n, m) \/ ForwardRequest(n, m)
    <3>1. PICK lost \in SUBSET queue[n] : LearnReverse(n, m, lost)
      BY <2>2 DEF AnswerRequest, ForwardRequest
    <3> QED BY <3>1, ReverseEntryStep
  <2> QED BY <1>6, <2>1, <2>2 DEF recvRequest
<1>7. ASSUME NEW n \in Node, NEW m \in rrep, recvReply(n, m)
      PROVE  EntryStep(x, d)
  <2>1. PICK lost \in SUBSET queue[n] : LearnForward(n, m, lost)
    BY <1>7 DEF recvReply, AcceptReply, ForwardReply
  <2> QED BY <2>1, ForwardEntryStep
<1>8. ASSUME NEW n \in Node, NEW h \in Node, recvHello(n, h)
      PROVE  EntryStep(x, d)
  BY <1>1, <1>8 DEF recvHello
<1>9. ASSUME NEW n \in Node, NEW h \in Node, nb_delete(n, h)
      PROVE  EntryStep(x, d)
  <2>1. CASE x = n /\ d \in Through(n, h)
    <3>1. rt'[x][d] = Invalidate(rt[x][d])
      BY <1>9, <2>1 DEF nb_delete, TypeOK
    <3>2. rt[x][d].hops # INFINITY2 /\ rt[x][d].flags # "DOWN"
      BY <2>1 DEF Through, RoutesFar
    <3> QED BY <1>2, <3>1, <3>2, InvalidateDrops DEF EntryStep, Dropped
  <2>2. CASE ~(x = n /\ d \in Through(n, h))
    <3>1. rt'[x][d] = rt[x][d]
      BY <1>9, <2>2 DEF nb_delete, TypeOK
    <3> QED BY <1>0, <3>1 DEF Kept
  <2> QED BY <2>1, <2>2
<1>10. ASSUME NEW n \in Node, NEW E \in SUBSET Node, rt_purge(n, E)
       PROVE  EntryStep(x, d)
  <2>1. CASE x = n /\ d \in E
    <3>1. rt'[x][d] = Invalidate(rt[x][d])
      BY <1>10, <2>1 DEF rt_purge, TypeOK
    <3>2. rt[x][d].flags = "UP"
      BY <1>10, <2>1 DEF rt_purge
    <3> QED BY <1>2, <3>1, <3>2, InvalidateDrops DEF EntryStep, Dropped
  <2>2. CASE ~(x = n /\ d \in E)
    <3>1. rt'[x][d] = rt[x][d]
      BY <1>10, <2>2 DEF rt_purge, TypeOK
    <3> QED BY <1>0, <3>1 DEF Kept
  <2> QED BY <2>1, <2>2
<1>11. ASSUME NEW n \in Node, id_purge(n) PROVE EntryStep(x, d)
  BY <1>1, <1>11 DEF id_purge
<1>12. CASE Lose
  BY <1>1, <1>12 DEF Lose, agent
<1> QED BY <1>3, <1>4, <1>5, <1>6, <1>7, <1>8, <1>9, <1>10, <1>11, <1>12 DEF Next

\* Own sequence numbers grow, and stay even once they are.
SeqnoStep(n) ==
  /\ seqno'[n] >= seqno[n]
  /\ seqno[n] % 2 = 0 => seqno'[n] % 2 = 0

\* A request m that was not there before: n has started it ...
Started(m) ==
  /\ m.from = m.src
  /\ m.srcSeqno = seqno[m.src] + 2
  /\ m.srcSeqno = seqno'[m.src]
  /\ m.dstSeqno = rt[m.src][m.dst].seqno
  /\ m.hops = 1
  /\ m.ttl \in 1..NETWORK_DIAMETER

\* n's route to d is as good as sequence number s and distance k.
AsGood(n, d, s, k) ==
  \/ rt'[n][d].seqno > s
  \/ /\ rt'[n][d].seqno = s
     /\ rt'[n][d].hops <= k

\* ... or has passed on the request o.
RequestPassed(m) ==
  \E o \in rreq :
    /\ m.src = o.src /\ m.srcSeqno = o.srcSeqno /\ m.dst = o.dst
    /\ m.hops = o.hops + 1 /\ m.ttl = o.ttl - 1 /\ o.ttl # 1
    /\ m.dstSeqno = Larger(rt[m.from][o.dst].seqno, o.dstSeqno)
    /\ AsGood(m.from, o.src, o.srcSeqno, o.hops)

\* The same for a reply.
Answered(m) ==
  /\ m.from = m.dst
  /\ m.dstSeqno = seqno'[m.dst]
  /\ m.dstSeqno % 2 = 0
  /\ m.hops = 1
  /\ m.ttl = NETWORK_DIAMETER

ReplyPassed(m) ==
  \E o \in rrep :
    /\ m.dst = o.dst /\ m.dstSeqno = o.dstSeqno
    /\ m.hops = o.hops + 1 /\ m.ttl = o.ttl - 1 /\ o.ttl # 1
    /\ AsGood(m.from, o.dst, o.dstSeqno, o.hops)

\* A request never starts with more than NETWORK_DIAMETER hops to go.
LEMMA RequestTtlBound ==
  \A e \in Entry : RequestTtl(e) \in 1..NETWORK_DIAMETER
BY ConstantAssumption DEF RequestTtl, LastTtl, Larger, Entry

\* sendRequest adds its own request and raises its own number by two.
LEMMA SearchSteps ==
  ASSUME TypeOK, NEW n \in Node, NEW d \in Node, NEW e \in Entry, NEW q,
         e.seqno = rt[n][d].seqno, Search(n, d, e, q)
  PROVE  /\ \A x \in Node : SeqnoStep(x)
         /\ \A m \in rreq' : m \in rreq \/ Started(m)
<1> DEFINE m0 == [from |-> n, to |-> n, src |-> n, bid |-> bid[n],
                  dst |-> d, srcSeqno |-> seqno[n] + 2,
                  dstSeqno |-> e.seqno, hops |-> 1, ttl |-> RequestTtl(e)]
<1>1. seqno[n] \in Nat
  BY DEF TypeOK
<1>3. RequestTtl(e) \in 1..NETWORK_DIAMETER
  BY RequestTtlBound
<1>4. seqno' = [seqno EXCEPT ![n] = @ + 2]
  BY DEF Search
<1>5. seqno'[n] = seqno[n] + 2 /\ \A x \in Node : x # n => seqno'[x] = seqno[x]
  BY <1>4 DEF TypeOK
<1>6. ASSUME NEW x \in Node PROVE SeqnoStep(x)
  <2>1. seqno[x] \in Nat /\ seqno'[x] \in {seqno[x], seqno[x] + 2}
    BY <1>5 DEF TypeOK
  <2> QED BY <2>1 DEF SeqnoStep
<1>7. PICK R \in SUBSET Neighbours(n) : rreq' = rreq \cup Broadcast(m0, R)
  BY DEF Search
<1>8. ASSUME NEW m \in Broadcast(m0, R) PROVE Started(m)
  <2>1. PICK r \in R : m = [m0 EXCEPT !.to = r]
    BY DEF Broadcast
  <2>2. /\ m.from = n /\ m.src = n /\ m.srcSeqno = seqno[n] + 2 /\ m.dst = d
        /\ m.dstSeqno = e.seqno /\ m.hops = 1 /\ m.ttl = RequestTtl(e)
    BY <2>1
  <2> QED BY <1>3, <1>5, <2>2 DEF Started
<1> QED BY <1>6, <1>7, <1>8

\* So does rt_resolve, and it leaves replies alone.
LEMMA ResolveSteps ==
  ASSUME TypeOK, NEW n \in Node, NEW p \in Packet, NEW arrived,
         rt_resolve(n, p, arrived)
  PROVE  /\ \A x \in Node : SeqnoStep(x)
         /\ \A m \in rreq' : m \in rreq \/ Started(m)
         /\ rrep' = rrep
<1>1. p.dst \in Node
  BY DEF Packet
<1>2. ASSUME seqno' = seqno, NEW x \in Node PROVE SeqnoStep(x)
  BY <1>2 DEF SeqnoStep, TypeOK
<1>3. CASE ResolveForward(n, p, arrived)
  BY <1>2, <1>3 DEF ResolveForward, agent
<1>4. CASE ResolveBuffer(n, p, arrived)
  <2>1. \/ seqno' = seqno /\ rreq' = rreq
        \/ \E q : Search(n, p.dst, rt_add(rt[n][p.dst]), q)
    BY <1>4 DEF ResolveBuffer, sendRequest, RateLimited, GiveUp
  <2>2. rrep' = rrep
    BY <1>4 DEF ResolveBuffer
  <2> DEFINE e == rt_add(rt[n][p.dst])
  <2>3. e \in Entry /\ e.seqno = rt[n][p.dst].seqno
    BY <1>1, AddType, AddKeeps DEF TypeOK
  <2>4. ASSUME NEW q, Search(n, p.dst, e, q)
        PROVE  /\ \A x \in Node : SeqnoStep(x)
               /\ \A m \in rreq' : m \in rreq \/ Started(m)
    <3> HIDE DEF e
    <3> QED BY <1>1, <2>3, <2>4, SearchSteps
  <2> QED BY <1>2, <2>1, <2>2, <2>4
<1>5. CASE ResolveError(n, p, arrived)
  BY <1>2, <1>5 DEF ResolveError
<1> QED BY <1>3, <1>4, <1>5 DEF rt_resolve

\* After a request or a reply n's route is as good as what it brought.
LEMMA ReverseAsGood ==
  ASSUME TypeOK, NEW n \in Node, NEW m \in rreq, NEW lost,
         LearnReverse(n, m, lost)
  PROVE  AsGood(n, m.src, m.srcSeqno, m.hops)
<1> DEFINE e == rt_add(rt[n][m.src])
<1>1. m \in RREQ /\ m.src \in Node /\ m.srcSeqno \in Nat /\ m.hops \in Nat
  BY DEF TypeOK, RREQ
<1>2. e \in Entry /\ e.seqno \in Nat /\ e.hops \in Nat
  <2>1. e \in Entry
    BY <1>1, AddType DEF TypeOK
  <2> QED BY <2>1 DEF Entry
<1>3. rt'[n][m.src] = ReverseRoute(e, m)
  BY <1>1 DEF LearnReverse, TypeOK
<1>4. CASE Fresher(e, m.srcSeqno, m.hops)
  BY <1>1, <1>2, <1>3, <1>4, ReverseLearns DEF AsGood
<1>5. CASE ~Fresher(e, m.srcSeqno, m.hops)
  <2>1. rt'[n][m.src] = e
    BY <1>1, <1>2, <1>3, <1>5, ReverseLearns
  <2> QED BY <1>1, <1>2, <1>5, <2>1 DEF AsGood, Fresher
<1> QED BY <1>4, <1>5

\* After a reply the node has a route as good as the reply's.
LEMMA ForwardAsGood ==
  ASSUME TypeOK, NEW n \in Node, NEW m \in rrep, NEW lost,
         LearnForward(n, m, lost)
  PROVE  AsGood(n, m.dst, m.dstSeqno, m.hops)
<1> DEFINE e == rt_add(rt[n][m.dst])
<1>1. m \in RREP /\ m.dst \in Node /\ m.dstSeqno \in Nat /\ m.hops \in Nat
  BY DEF TypeOK, RREP
<1>2. e \in Entry /\ e.seqno \in Nat /\ e.hops \in Nat
  <2>1. e \in Entry
    BY <1>1, AddType DEF TypeOK
  <2> QED BY <2>1 DEF Entry
<1>3. rt'[n][m.dst] = ForwardRoute(e, m)
  BY <1>1 DEF LearnForward, TypeOK
<1>4. CASE Fresher(e, m.dstSeqno, m.hops)
  BY <1>1, <1>2, <1>3, <1>4, ForwardLearns DEF AsGood
<1>5. CASE ~Fresher(e, m.dstSeqno, m.hops)
  <2>1. rt'[n][m.dst] = e
    BY <1>1, <1>2, <1>3, <1>5, ForwardLearns
  <2> QED BY <1>1, <1>2, <1>5, <2>1 DEF AsGood, Fresher
<1> QED BY <1>4, <1>5

\* recvRequest passes the request on or answers it, and adds nothing else.
LEMMA RequestSteps ==
  ASSUME TypeOK, NEW n \in Node, NEW o \in rreq, recvRequest(n, o)
  PROVE  /\ \A x \in Node : SeqnoStep(x)
         /\ \A m \in rreq' : m \in rreq \/ RequestPassed(m)
         /\ \A m \in rrep' : m \in rrep \/ Answered(m)
<1>1. o \in RREQ
  BY DEF TypeOK
<1>2. ASSUME seqno' = seqno, NEW x \in Node PROVE SeqnoStep(x)
  BY <1>2 DEF SeqnoStep, TypeOK
<1>3. CASE DiscardRequest(n, o)
  BY <1>2, <1>3 DEF DiscardRequest, agent
<1>4. CASE AnswerRequest(n, o)
  <2> DEFINE s == ReplySeqno(seqno[n], o.dstSeqno)
  <2>1. s \in Nat /\ s % 2 = 0 /\ s > seqno[n]
    BY <1>1, ReplySeqnoType DEF TypeOK, RREQ
  <2>2. seqno' = [seqno EXCEPT ![n] = s] /\ rreq' = rreq \ {o}
    BY <1>4 DEF AnswerRequest
  <2>3. seqno'[n] = s /\ \A x \in Node : x # n => seqno'[x] = seqno[x]
    BY <2>2 DEF TypeOK
  <2>4. ASSUME NEW x \in Node PROVE SeqnoStep(x)
    <3>1. seqno[x] \in Nat
      BY DEF TypeOK
    <3> QED BY <2>1, <2>3, <3>1 DEF SeqnoStep
  <2>5. ASSUME NEW m \in rrep', m \notin rrep PROVE Answered(m)
    <3>1. PICK hop : m = [from |-> n, to |-> hop, ipdst |-> o.src, dst |-> n,
                          dstSeqno |-> s, hops |-> 1, ttl |-> NETWORK_DIAMETER]
      BY <1>4, <2>5 DEF AnswerRequest
    <3> QED BY <2>1, <2>3, <3>1 DEF Answered
  <2> QED BY <2>2, <2>4, <2>5
<1>5. CASE ForwardRequest(n, o)
  <2> DEFINE c == [o EXCEPT !.from = n, !.hops = @ + 1, !.ttl = @ - 1,
                            !.dstSeqno = Larger(rt[n][o.dst].seqno, @)]
  <2>1. PICK R \in SUBSET Neighbours(n) :
          rreq' = (rreq \ {o}) \cup Broadcast(c, IF o.ttl = 1 THEN {} ELSE R)
    BY <1>5 DEF ForwardRequest
  <2>2. PICK lost \in SUBSET queue[n] : LearnReverse(n, o, lost)
    BY <1>5 DEF ForwardRequest
  <2>3. AsGood(n, o.src, o.srcSeqno, o.hops)
    BY <2>2, ReverseAsGood
  <2>4. ASSUME NEW m \in rreq', m \notin rreq PROVE RequestPassed(m)
    <3>1. o.ttl # 1 /\ \E r \in R : m = [c EXCEPT !.to = r]
      BY <2>1, <2>4 DEF Broadcast
    <3>2. PICK r \in R : m = [c EXCEPT !.to = r]
      BY <3>1
    <3>3. /\ m.from = n /\ m.src = o.src /\ m.srcSeqno = o.srcSeqno
          /\ m.dst = o.dst /\ m.hops = o.hops + 1 /\ m.ttl = o.ttl - 1
          /\ m.dstSeqno = Larger(rt[n][o.dst].seqno, o.dstSeqno)
      BY <1>1, <3>2 DEF RREQ
    <3> QED BY <2>3, <3>1, <3>3 DEF RequestPassed
  <2> QED BY <1>2, <1>5, <2>4 DEF ForwardRequest
<1> QED BY <1>3, <1>4, <1>5 DEF recvRequest

\* recvReply passes the reply on, and adds nothing else.
LEMMA ReplySteps ==
  ASSUME TypeOK, NEW n \in Node, NEW o \in rrep, recvReply(n, o)
  PROVE  /\ \A x \in Node : SeqnoStep(x)
         /\ rreq' = rreq
         /\ \A m \in rrep' : m \in rrep \/ ReplyPassed(m)
<1>1. o \in RREP
  BY DEF TypeOK
<1>2. seqno' = seqno /\ rreq' = rreq
  BY DEF recvReply, AcceptReply, ForwardReply
<1>3. ASSUME NEW x \in Node PROVE SeqnoStep(x)
  BY <1>2 DEF SeqnoStep, TypeOK
<1>4. CASE AcceptReply(n, o)
  BY <1>2, <1>3, <1>4 DEF AcceptReply
<1>5. CASE ForwardReply(n, o)
  <2>1. PICK lost \in SUBSET queue[n] : LearnForward(n, o, lost)
    BY <1>5 DEF ForwardReply
  <2>2. AsGood(n, o.dst, o.dstSeqno, o.hops)
    BY <2>1, ForwardAsGood
  <2>3. ASSUME NEW m \in rrep', m \notin rrep PROVE ReplyPassed(m)
    <3> DEFINE back == rt'[n][o.ipdst]
               next == [o EXCEPT !.from = n, !.to = back.nexthop,
                                 !.hops = @ + 1, !.ttl = @ - 1]
    <3>1. rrep' = (rrep \ {o}) \cup
                    IF back.hops = INFINITY2 \/ next.ttl = 0 THEN {} ELSE {next}
      BY <1>5, Zenon DEF ForwardReply
    <3>2. m = next /\ next.ttl # 0
      BY <2>3, <3>1
    <3>3. /\ m.from = n /\ m.dst = o.dst /\ m.dstSeqno = o.dstSeqno
          /\ m.hops = o.hops + 1 /\ m.ttl = o.ttl - 1
      BY <1>1, <3>2 DEF RREP
    <3>4. o.ttl # 1
      BY <1>1, <3>2 DEF RREP
    <3> QED BY <2>2, <3>3, <3>4 DEF ReplyPassed
  <2> QED BY <1>2, <1>3, <2>3
<1> QED BY <1>4, <1>5 DEF recvReply

\* Where every message on the air comes from.
LEMMA MessageSteps ==
  ASSUME TypeOK, Next
  PROVE  /\ \A x \in Node : SeqnoStep(x)
         /\ \A m \in rreq' : m \in rreq \/ Started(m) \/ RequestPassed(m)
         /\ \A m \in rrep' : m \in rrep \/ Answered(m) \/ ReplyPassed(m)
<1>1. ASSUME seqno' = seqno, NEW x \in Node PROVE SeqnoStep(x)
  BY <1>1 DEF SeqnoStep, TypeOK
<1>2. ASSUME NEW s \in Node, NEW d \in Node, Originate(s, d)
      PROVE  /\ \A x \in Node : SeqnoStep(x)
             /\ \A m \in rreq' : m \in rreq \/ Started(m)
             /\ rrep' = rrep
  <2> DEFINE p == [id |-> nsent + 1, src |-> s, dst |-> d,
                   ttl |-> NETWORK_DIAMETER]
  <2>1. p \in Packet
    BY ConstantAssumption DEF Packet, TypeOK
  <2>2. rt_resolve(s, p, {})
    BY <1>2 DEF Originate
  <2> QED BY <2>1, <2>2, ResolveSteps
<1>3. ASSUME NEW n \in Node, NEW f \in data, Relay(n, f)
      PROVE  /\ \A x \in Node : SeqnoStep(x)
             /\ \A m \in rreq' : m \in rreq \/ Started(m)
             /\ rrep' = rrep
  <2> DEFINE p == [f.pkt EXCEPT !.ttl = @ - 1]
  <2>1. p \in Packet
    <3>1. f.pkt \in Packet /\ p.ttl = f.pkt.ttl - 1 /\ p.ttl # 0
      BY <1>3 DEF Frame, TypeOK, Packet, Relay
    <3> QED BY <3>1 DEF Packet
  <2>2. rt_resolve(n, p, {f})
    BY <1>3 DEF Relay
  <2> QED BY <2>1, <2>2, ResolveSteps
<1>4. ASSUME NEW n \in Node, NEW f \in data, Consume(n, f) \/ rt_ll_failed(n, f)
      PROVE  seqno' = seqno /\ rreq' = rreq /\ rrep' = rrep
  BY <1>4 DEF Consume, rt_ll_failed, agent
<1>5. ASSUME NEW n \in Node, NEW h \in Node, recvHello(n, h) \/ nb_delete(n, h)
      PROVE  /\ \A x \in Node : SeqnoStep(x)
             /\ rreq' = rreq /\ rrep' = rrep
  <2>1. rreq' = rreq /\ rrep' = rrep
    BY <1>5 DEF recvHello, nb_delete, air
  <2>2. seqno' = seqno \/ seqno' = [seqno EXCEPT ![n] = @ + 2]
    BY <1>5 DEF recvHello, nb_delete
  <2>3. ASSUME NEW x \in Node PROVE SeqnoStep(x)
    <3>1. seqno[x] \in Nat /\ seqno'[x] \in {seqno[x], seqno[x] + 2}
      BY <2>2 DEF TypeOK
    <3> QED BY <3>1 DEF SeqnoStep
  <2> QED BY <2>1, <2>3
<1>6. ASSUME NEW n \in Node, NEW E \in SUBSET Node, rt_purge(n, E)
      PROVE  seqno' = seqno /\ rreq' = rreq /\ rrep' = rrep
  BY <1>6 DEF rt_purge
<1>7. ASSUME NEW n \in Node, id_purge(n)
      PROVE  seqno' = seqno /\ rreq' = rreq /\ rrep' = rrep
  BY <1>7 DEF id_purge, air
<1>8. CASE Lose
  BY <1>1, <1>8 DEF Lose, agent
<1> QED BY <1>1, <1>2, <1>3, <1>4, <1>5, <1>6, <1>7, <1>8, RequestSteps,
           ReplySteps DEF Next

-----------------------------------------------------------------------------
(***************************************************************************)
(* Soundness of routes and messages, and that no assertion fails.          *)
(***************************************************************************)
LEMMA RouteSoundStep ==
  ASSUME TypeOK, Sound, Next, NEW n \in Node, NEW d \in Node
  PROVE  RouteSound(rt'[n][d])
<1>1. RoutesSound /\ RouteSound(rt[n][d]) /\ rt[n][d] \in Entry
  BY DEF Sound, RoutesSound, TypeOK
<1>2. CASE Kept(n, d)
  BY <1>1, <1>2 DEF Kept, RouteSound
<1>3. ASSUME NEW m \in rreq, Learned(n, d, m.srcSeqno, m.hops, m.from)
      PROVE  RouteSound(rt'[n][d])
  <2>1. m.srcSeqno % 2 = 0 /\ m.hops <= NETWORK_DIAMETER
    BY ConstantAssumption DEF Sound, MessageSound
  <2> QED BY <1>3, <2>1 DEF Learned, RouteSound
<1>4. ASSUME NEW m \in rrep, Learned(n, d, m.dstSeqno, m.hops, m.from)
      PROVE  RouteSound(rt'[n][d])
  <2>1. m.dstSeqno % 2 = 0 /\ m.hops <= NETWORK_DIAMETER
    BY ConstantAssumption DEF Sound, MessageSound
  <2> QED BY <1>4, <2>1 DEF Learned, RouteSound
<1>5. CASE Dropped(n, d)
  BY <1>5 DEF Dropped, RouteSound
<1> QED BY <1>1, <1>2, <1>3, <1>4, <1>5, EntrySteps, SoundIsFar DEF EntryStep

\* A message that is passed on has not gone further than its TTL let it.
LEMMA PassedHops ==
  \A h, t \in Nat :
    h \in 1..NETWORK_DIAMETER /\ t # 0 /\ t # 1 /\ h + t <= NETWORK_DIAMETER + 1
      => /\ h + 1 \in 1..NETWORK_DIAMETER
         /\ (h + 1) + (t - 1) <= NETWORK_DIAMETER + 1
BY ConstantAssumption

\* What Sound says of numbers and messages does not depend on the routes.
MessagesSound ==
  /\ \A n \in Node : seqno[n] % 2 = 0
  /\ \A m \in rreq : MessageSound(m.srcSeqno, m)
  /\ \A m \in rrep : MessageSound(m.dstSeqno, m)

\* Every step of discovery keeps numbers and messages sound.
LEMMA MessagesSoundStep ==
  ASSUME TypeOK, MessagesSound, Next
  PROVE  MessagesSound'
<1>1. ASSUME NEW n \in Node PROVE seqno'[n] % 2 = 0
  BY MessageSteps DEF SeqnoStep, MessagesSound
<1>2. ASSUME NEW m \in rreq' PROVE MessageSound(m.srcSeqno, m)
  <2>1. CASE m \in rreq
    BY <2>1 DEF MessagesSound
  <2>2. CASE Started(m)
    <3>1. m.src \in Node
      BY TypeStep DEF TypeOK, RREQ
    <3>2. m.srcSeqno % 2 = 0
      BY <1>1, <2>2, <3>1 DEF Started
    <3> QED BY <2>2, <3>2, ConstantAssumption DEF Started, MessageSound
  <2>3. CASE RequestPassed(m)
    <3>1. PICK o \in rreq :
            /\ m.srcSeqno = o.srcSeqno
            /\ m.hops = o.hops + 1 /\ m.ttl = o.ttl - 1 /\ o.ttl # 1
      BY <2>3 DEF RequestPassed
    <3>2. o.hops \in Nat /\ o.ttl \in Nat /\ o.ttl # 0
      BY DEF TypeOK, RREQ
    <3>3. MessageSound(o.srcSeqno, o)
      BY DEF MessagesSound
    <3> QED BY <3>1, <3>2, <3>3, PassedHops DEF MessageSound
  <2> QED BY <2>1, <2>2, <2>3, MessageSteps
<1>3. ASSUME NEW m \in rrep' PROVE MessageSound(m.dstSeqno, m)
  <2>1. CASE m \in rrep
    BY <2>1 DEF MessagesSound
  <2>2. CASE Answered(m)
    BY <2>2, ConstantAssumption DEF Answered, MessageSound
  <2>3. CASE ReplyPassed(m)
    <3>1. PICK o \in rrep :
            /\ m.dstSeqno = o.dstSeqno
            /\ m.hops = o.hops + 1 /\ m.ttl = o.ttl - 1 /\ o.ttl # 1
      BY <2>3 DEF ReplyPassed
    <3>2. o.hops \in Nat /\ o.ttl \in Nat /\ o.ttl # 0
      BY DEF TypeOK, RREP
    <3>3. MessageSound(o.dstSeqno, o)
      BY DEF MessagesSound
    <3> QED BY <3>1, <3>2, <3>3, PassedHops DEF MessageSound
  <2> QED BY <2>1, <2>2, <2>3, MessageSteps
<1> QED BY <1>1, <1>2, <1>3 DEF MessagesSound

\* Every step keeps routes and messages sound.
LEMMA SoundStep == TypeOK /\ Sound /\ [Next]_vars => Sound'
<1> SUFFICES ASSUME TypeOK, Sound, [Next]_vars PROVE Sound'
  OBVIOUS
<1>1. CASE UNCHANGED vars
  BY <1>1 DEF vars, Sound, RoutesSound
<1>2. CASE Next
  <2>1. RoutesSound'
    BY <1>2, RouteSoundStep DEF RoutesSound
  <2>2. MessagesSound'
    BY <1>2, MessagesSoundStep DEF MessagesSound, Sound
  <2> QED BY <2>1, <2>2 DEF Sound, MessagesSound
<1> QED BY <1>1, <1>2

\* Valid routes have even sequence numbers and a distance within the network
\* diameter, other routes have none; own sequence numbers are even, and no
\* message has gone further than its TTL let it.
THEOREM Soundness == Spec => []Sound
<1>1. Init => Sound
  <2>1. RouteSound(NoEntry)
    BY DEF RouteSound, NoEntry
  <2> QED BY <2>1 DEF Init, Sound, RoutesSound
<1> QED BY <1>1, SoundStep, TypeCorrect, PTL DEF Spec

\* In a sound state no handler's assertion fails.
LEMMA NoAssertStep ==
  TypeOK /\ Sound /\ NoAssertFails /\ [Next]_vars => NoAssertFails'
<1> SUFFICES ASSUME TypeOK, Sound, NoAssertFails, [Next]_vars
             PROVE  failed' = {}
  BY DEF NoAssertFails
<1>1. TypeOK' /\ Sound'
  BY TypeStep, SoundStep
<1>2. \A n \in Node : seqno[n] % 2 = 0 /\ seqno'[n] % 2 = 0
  BY <1>1 DEF Sound
<1>3. \A n, d \in Node : RouteSound(rt[n][d]) /\ RouteSound(rt'[n][d])
  BY <1>1 DEF Sound, RoutesSound
<1>4. \A n, d \in Node : rt[n][d] \in Entry /\ rt'[n][d] \in Entry
  BY <1>1 DEF TypeOK
<1>5. failed = {}
  BY DEF NoAssertFails
<1>6. ASSUME NEW n \in Node, NEW p \in Packet, NEW arrived,
             rt_resolve(n, p, arrived)
      PROVE  failed' = {}
  <2>1. p.dst \in Node
    BY DEF Packet
  <2>2. rt[n][p.dst].flags = "UP" => rt[n][p.dst].hops # INFINITY2
    BY <1>3, <1>4, <2>1, ConstantAssumption DEF RouteSound, Entry
  <2> QED BY <1>2, <1>5, <1>6, <2>2
          DEF rt_resolve, ResolveForward, ResolveBuffer, ResolveError,
              sendRequest, RateLimited, GiveUp, Search, Assert
<1>7. ASSUME NEW s \in Node, NEW d \in Node, Originate(s, d)
      PROVE  failed' = {}
  <2> DEFINE p == [id |-> nsent + 1, src |-> s, dst |-> d,
                   ttl |-> NETWORK_DIAMETER]
  <2>1. p \in Packet
    BY ConstantAssumption DEF Packet, TypeOK
  <2>2. rt_resolve(s, p, {})
    BY <1>7 DEF Originate
  <2> QED BY <1>6, <2>1, <2>2
<1>8. ASSUME NEW n \in Node, NEW f \in data, Relay(n, f)
      PROVE  failed' = {}
  <2> DEFINE p == [f.pkt EXCEPT !.ttl = @ - 1]
  <2>1. p \in Packet
    <3>1. f.pkt \in Packet /\ p.ttl = f.pkt.ttl - 1 /\ p.ttl # 0
      BY <1>8 DEF Frame, TypeOK, Packet, Relay
    <3> QED BY <3>1 DEF Packet
  <2>2. rt_resolve(n, p, {f})
    BY <1>8 DEF Relay
  <2> QED BY <1>6, <2>1, <2>2
<1>9. ASSUME NEW n \in Node, NEW m \in rrep, recvReply(n, m)
      PROVE  failed' = {}
  <2>1. m.ipdst \in Node
    BY DEF TypeOK, RREP
  <2>2. rt'[n][m.ipdst].hops # INFINITY2 => rt'[n][m.ipdst].flags = "UP"
    BY <1>3, <2>1 DEF RouteSound
  <2> QED BY <1>5, <1>9, <2>2 DEF recvReply, AcceptReply, ForwardReply, Assert
<1>10. ASSUME NEW n \in Node, NEW h \in Node, recvHello(n, h)
       PROVE  failed' = {}
  BY <1>2, <1>5, <1>10 DEF recvHello, Assert
<1>11. ASSUME NEW n \in Node, NEW h \in Node, nb_delete(n, h)
       PROVE  failed' = {}
  <2>1. ASSUME NEW d \in Through(n, h)
        PROVE  rt[n][d].flags = "UP" /\ rt[n][d].seqno % 2 = 0
    BY <1>3 DEF Through, RouteSound
  <2> QED BY <1>2, <1>5, <1>11, <2>1 DEF nb_delete, Assert
<1>12. ASSUME NEW n \in Node, NEW E \in SUBSET Node, rt_purge(n, E)
       PROVE  failed' = {}
  <2> DEFINE up == {d \in Node : rt[n][d].flags = "UP"}
  <2>1. ASSUME NEW d \in up PROVE rt[n][d].hops # INFINITY2
    BY <1>3, <1>4, ConstantAssumption DEF RouteSound, Entry
  <2>2. ASSUME NEW d \in E PROVE rt'[n][d].seqno % 2 = 1
    <3>1. rt[n][d].flags = "UP" /\ rt'[n][d] = Invalidate(rt[n][d])
      BY <1>12 DEF rt_purge, TypeOK
    <3>2. rt'[n][d].seqno = rt[n][d].seqno + 1
      BY <1>4, <3>1, InvalidateDrops
    <3>3. rt[n][d].seqno % 2 = 0 /\ rt[n][d].seqno \in Nat
      BY <1>3, <1>4, <3>1 DEF RouteSound, Entry
    <3> QED BY <3>2, <3>3
  <2> QED BY <1>5, <1>12, <2>1, <2>2 DEF rt_purge, Assert
<1>13. ASSUME NEW n \in Node, NEW m \in rreq, recvRequest(n, m)
       PROVE  failed' = {}
  BY <1>5, <1>13 DEF recvRequest, DiscardRequest, AnswerRequest, ForwardRequest
<1>14. ASSUME NEW n \in Node, NEW f \in data, Consume(n, f) \/ rt_ll_failed(n, f)
       PROVE  failed' = {}
  BY <1>5, <1>14 DEF Consume, rt_ll_failed
<1>15. ASSUME NEW n \in Node, id_purge(n) PROVE failed' = {}
  BY <1>5, <1>15 DEF id_purge
<1>16. CASE Lose
  BY <1>5, <1>16 DEF Lose
<1>17. CASE UNCHANGED vars
  BY <1>5, <1>17 DEF vars
<1> QED BY <1>7, <1>8, <1>9, <1>10, <1>11, <1>12, <1>13, <1>14, <1>15, <1>16,
           <1>17 DEF Next

\* No assertion of the handlers modelled here ever fails.
THEOREM NoAssertion == Spec => []NoAssertFails
<1>1. Init => NoAssertFails
  BY DEF Init, NoAssertFails
<1> QED BY <1>1, NoAssertStep, TypeCorrect, Soundness, PTL DEF Spec

-----------------------------------------------------------------------------
(***************************************************************************)
(* Routes improve, and sequence numbers come from their destination.       *)
(***************************************************************************)
LEMMA ImproveStep ==
  ASSUME TypeOK, Sound, [Next]_vars, NEW n \in Node, NEW d \in Node
  PROVE  \/ rt'[n][d].seqno > rt[n][d].seqno
         \/ /\ rt'[n][d].seqno = rt[n][d].seqno
            /\ rt'[n][d].hops <= rt[n][d].hops
<1>1. rt[n][d].seqno \in Nat /\ rt[n][d].hops \in Nat
  BY DEF TypeOK, Entry
<1>2. CASE UNCHANGED vars
  BY <1>1, <1>2 DEF vars
<1>3. CASE Next
  <2>1. EntryStep(n, d)
    BY <1>3, EntrySteps, SoundIsFar
  <2>2. (\A m \in rreq : m.srcSeqno \in Nat /\ m.hops \in Nat)
        /\ (\A m \in rrep : m.dstSeqno \in Nat /\ m.hops \in Nat)
    BY DEF TypeOK, RREQ, RREP
  <2>3. CASE Kept(n, d)
    BY <1>1, <2>3 DEF Kept
  <2>4. CASE Dropped(n, d)
    BY <1>1, <2>4 DEF Dropped
  <2>5. CASE \E s, k \in Nat : \E h : Learned(n, d, s, k, h)
    BY <1>1, <2>5 DEF Learned, Fresher
  <2> QED BY <2>1, <2>2, <2>3, <2>4, <2>5 DEF EntryStep
<1> QED BY <1>2, <1>3

\* A route is only ever replaced by a fresher one, or by one as fresh and no
\* longer.
THEOREM Improvement == Spec => RoutesImprove
<1>1. TypeOK /\ Sound /\ [Next]_vars =>
        [\A n, d \in Node :
           \/ rt'[n][d].seqno > rt[n][d].seqno
           \/ rt'[n][d].seqno = rt[n][d].seqno
              /\ rt'[n][d].hops <= rt[n][d].hops]_rt
  BY ImproveStep
<1> QED BY <1>1, TypeCorrect, Soundness, PTL DEF Spec, RoutesImprove

\* SeqnosIssued, with a route that is under repair in mind: it may have been
\* one ahead before, and then has no distance.
Numbered(e, s) ==
  e.seqno <= IF e.flags = "UP" \/ e.hops # INFINITY2 THEN s ELSE s + 1

RoutesNumbered == \A n, d \in Node : Numbered(rt[n][d], seqno[d])

MessagesNumbered ==
  /\ \A m \in rreq : m.srcSeqno <= seqno[m.src] /\ m.dstSeqno <= seqno[m.dst] + 1
  /\ \A m \in rrep : m.dstSeqno <= seqno[m.dst]

LEMMA NumberedIsIssued ==
  ASSUME TypeOK, RoutesNumbered, MessagesNumbered
  PROVE  SeqnosIssued
<1>1. ASSUME NEW n \in Node, NEW d \in Node
      PROVE  rt[n][d].seqno <= IF rt[n][d].flags = "UP" THEN seqno[d] ELSE seqno[d] + 1
  <2>1. rt[n][d].seqno \in Nat /\ seqno[d] \in Nat
    BY DEF TypeOK, Entry
  <2> QED BY <2>1 DEF RoutesNumbered, Numbered
<1> QED BY <1>1 DEF MessagesNumbered, SeqnosIssued

\* A handler that changes no route changes no distance either: the routes not
\* in use stay without one.
LEMMA FarStep ==
  ASSUME TypeOK, RoutesFar, Next
  PROVE  RoutesFar'
<1> SUFFICES ASSUME NEW n \in Node, NEW d \in Node, rt'[n][d].flags \in {"ABSENT", "DOWN"}
             PROVE  rt'[n][d].hops = INFINITY2
  BY DEF RoutesFar
<1>1. CASE Kept(n, d)
  BY <1>1 DEF Kept, RoutesFar
<1>2. CASE Dropped(n, d)
  BY <1>2 DEF Dropped
<1>3. ~ \E s, k, h : Learned(n, d, s, k, h)
  BY DEF Learned
<1> QED BY <1>1, <1>2, <1>3, EntrySteps DEF EntryStep

\* Every step of discovery keeps sequence numbers issued.
LEMMA NumberedStep ==
  ASSUME TypeOK, RoutesFar, RoutesNumbered, MessagesNumbered, Next
  PROVE  RoutesNumbered' /\ MessagesNumbered'
<1>1. \A d \in Node : seqno[d] \in Nat /\ seqno'[d] \in Nat /\ seqno'[d] >= seqno[d]
  BY TypeStep, MessageSteps DEF TypeOK, SeqnoStep
<1>2. \A n, d \in Node : /\ rt[n][d].seqno \in Nat
                         /\ Numbered(rt[n][d], seqno[d])
                         /\ rt[n][d].seqno <= seqno[d] + 1
  <2> TAKE n, d \in Node
  <2>1. rt[n][d].seqno \in Nat /\ seqno[d] \in Nat /\ Numbered(rt[n][d], seqno[d])
    BY DEF TypeOK, Entry, RoutesNumbered
  <2> QED BY <2>1 DEF Numbered
<1>3. ASSUME NEW n \in Node, NEW d \in Node PROVE Numbered(rt'[n][d], seqno'[d])
  <2>1. rt[n][d].flags \in {"ABSENT", "DOWN"} => rt[n][d].hops = INFINITY2
    BY DEF RoutesFar
  <2>2. CASE Kept(n, d)
    BY <1>1, <1>2, <2>1, <2>2 DEF Kept, Numbered
  <2>3. ASSUME NEW m \in rreq, d = m.src,
               Learned(n, d, m.srcSeqno, m.hops, m.from)
        PROVE  Numbered(rt'[n][d], seqno'[d])
    <3>1. m.srcSeqno \in Nat /\ m.srcSeqno <= seqno[m.src]
      BY DEF TypeOK, RREQ, MessagesNumbered
    <3> QED BY <1>1, <2>3, <3>1 DEF Learned, Numbered
  <2>4. ASSUME NEW m \in rrep, d = m.dst,
               Learned(n, d, m.dstSeqno, m.hops, m.from)
        PROVE  Numbered(rt'[n][d], seqno'[d])
    <3>1. m.dstSeqno \in Nat /\ m.dstSeqno <= seqno[m.dst]
      BY DEF TypeOK, RREP, MessagesNumbered
    <3> QED BY <1>1, <2>4, <3>1 DEF Learned, Numbered
  <2>5. CASE Dropped(n, d)
    BY <1>1, <1>2, <2>5 DEF Dropped, Numbered
  <2> QED BY <2>2, <2>3, <2>4, <2>5, EntrySteps DEF EntryStep
<1>4. ASSUME NEW m \in rreq'
      PROVE  m.srcSeqno <= seqno'[m.src] /\ m.dstSeqno <= seqno'[m.dst] + 1
  <2>1. /\ m.src \in Node /\ m.dst \in Node /\ m.from \in Node
        /\ m.srcSeqno \in Nat /\ m.dstSeqno \in Nat
    BY TypeStep DEF TypeOK, RREQ
  <2>2. CASE m \in rreq
    <3>1. m.srcSeqno <= seqno[m.src] /\ m.dstSeqno <= seqno[m.dst] + 1
      BY <2>2 DEF MessagesNumbered
    <3> QED BY <1>1, <2>1, <3>1
  <2>3. CASE Started(m)
    BY <1>1, <1>2, <2>1, <2>3 DEF Started
  <2>4. CASE RequestPassed(m)
    <3>1. PICK o \in rreq :
            /\ m.src = o.src /\ m.srcSeqno = o.srcSeqno /\ m.dst = o.dst
            /\ m.dstSeqno = Larger(rt[m.from][o.dst].seqno, o.dstSeqno)
      BY <2>4 DEF RequestPassed
    <3>2. o.srcSeqno <= seqno[o.src] /\ o.dstSeqno <= seqno[o.dst] + 1
      BY DEF MessagesNumbered
    <3>3. o.srcSeqno \in Nat /\ o.dstSeqno \in Nat
      BY DEF TypeOK, RREQ
    <3> QED BY <1>1, <1>2, <2>1, <3>1, <3>2, <3>3 DEF Larger
  <2> QED BY <2>2, <2>3, <2>4, MessageSteps
<1>5. ASSUME NEW m \in rrep' PROVE m.dstSeqno <= seqno'[m.dst]
  <2>1. m.dst \in Node /\ m.dstSeqno \in Nat
    BY TypeStep DEF TypeOK, RREP
  <2>2. CASE m \in rrep
    <3>1. m.dstSeqno <= seqno[m.dst]
      BY <2>2 DEF MessagesNumbered
    <3> QED BY <1>1, <2>1, <3>1
  <2>3. CASE Answered(m)
    BY <2>1, <2>3 DEF Answered
  <2>4. CASE ReplyPassed(m)
    <3>1. PICK o \in rrep : m.dst = o.dst /\ m.dstSeqno = o.dstSeqno
      BY <2>4 DEF ReplyPassed
    <3>2. o.dstSeqno <= seqno[o.dst]
      BY DEF MessagesNumbered
    <3> QED BY <1>1, <2>1, <3>1, <3>2
  <2> QED BY <2>2, <2>3, <2>4, MessageSteps
<1> QED BY <1>3, <1>4, <1>5 DEF RoutesNumbered, MessagesNumbered

\* Nobody believes in a sequence number its destination has not issued.
THEOREM Issued == Spec => []SeqnosIssued
<1>1. Init => RoutesNumbered /\ MessagesNumbered
  BY DEF Init, RoutesNumbered, Numbered, MessagesNumbered, NoEntry
<1>2. TypeOK /\ Sound /\ RoutesNumbered /\ MessagesNumbered /\ [Next]_vars
        => RoutesNumbered' /\ MessagesNumbered'
  <2>1. UNCHANGED vars /\ RoutesNumbered /\ MessagesNumbered
          => RoutesNumbered' /\ MessagesNumbered'
    BY DEF vars, RoutesNumbered, MessagesNumbered
  <2> QED BY <2>1, NumberedStep, SoundIsFar
<1>3. TypeOK /\ RoutesNumbered /\ MessagesNumbered => SeqnosIssued
  BY NumberedIsIssued
<1> QED BY <1>1, <1>2, <1>3, TypeCorrect, Soundness, PTL DEF Spec

-----------------------------------------------------------------------------
(***************************************************************************)
(* Loop freedom.  NextHopCloser is not inductive: what a node will learn   *)
(* from a message must hold of the message's sender while it is on the air.*)
(***************************************************************************)
MessagesCloser ==
  /\ \A m \in rreq : Closer(m.from, m.src, m.srcSeqno, m.hops)
  /\ \A m \in rrep : Closer(m.from, m.dst, m.dstSeqno, m.hops)

\* Closer in the state a step leads to.
CloserNext(h, d, s, k) ==
  \/ h = d
  \/ rt'[h][d].seqno > s
  \/ /\ rt'[h][d].seqno = s
     /\ rt'[h][d].hops < k

\* A node that is closer stays closer.
LEMMA CloserKept ==
  ASSUME TypeOK, Sound, [Next]_vars, NEW h \in Node, NEW d \in Node,
         NEW s \in Nat, NEW k \in Nat, Closer(h, d, s, k)
  PROVE  CloserNext(h, d, s, k)
<1>1. /\ rt[h][d].seqno \in Nat /\ rt[h][d].hops \in Nat
      /\ rt'[h][d].seqno \in Nat /\ rt'[h][d].hops \in Nat
  BY TypeStep DEF TypeOK, Entry
<1> QED BY <1>1, ImproveStep DEF Closer, CloserNext

\* Every step keeps next hops, and the senders of messages, closer.
LEMMA LoopStep ==
  TypeOK /\ Sound /\ NextHopCloser /\ MessagesCloser /\ [Next]_vars
    => NextHopCloser' /\ MessagesCloser'
<1> SUFFICES ASSUME TypeOK, Sound, NextHopCloser, MessagesCloser, [Next]_vars
             PROVE  NextHopCloser' /\ MessagesCloser'
  OBVIOUS
<1>1. CASE UNCHANGED vars
  BY <1>1 DEF vars, NextHopCloser, MessagesCloser, Closer
<1>2. CASE Next
  <2>1. \A m \in rreq : /\ m.from \in Node /\ m.src \in Node
                        /\ m.srcSeqno \in Nat /\ m.hops \in Nat
    BY DEF TypeOK, RREQ
  <2>2. \A m \in rrep : /\ m.from \in Node /\ m.dst \in Node
                        /\ m.dstSeqno \in Nat /\ m.hops \in Nat
    BY DEF TypeOK, RREP
  <2>3. \A m \in rreq : CloserNext(m.from, m.src, m.srcSeqno, m.hops)
    BY <2>1, CloserKept DEF MessagesCloser
  <2>4. \A m \in rrep : CloserNext(m.from, m.dst, m.dstSeqno, m.hops)
    BY <2>2, CloserKept DEF MessagesCloser
  <2>5. ASSUME NEW n \in Node, NEW d \in Node, rt'[n][d].flags = "UP"
        PROVE  CloserNext(rt'[n][d].nexthop, d, rt'[n][d].seqno, rt'[n][d].hops)
    <3>1. CASE Kept(n, d)
      <4>1. Closer(rt[n][d].nexthop, d, rt[n][d].seqno, rt[n][d].hops)
        BY <2>5, <3>1 DEF Kept, NextHopCloser
      <4>2. /\ rt[n][d].nexthop \in Node /\ rt[n][d].seqno \in Nat
            /\ rt[n][d].hops \in Nat
        BY DEF TypeOK, Entry
      <4>3. CloserNext(rt[n][d].nexthop, d, rt[n][d].seqno, rt[n][d].hops)
        BY <4>1, <4>2, CloserKept
      <4> QED BY <3>1, <4>3 DEF Kept
    <3>2. ASSUME NEW m \in rreq, d = m.src,
                 Learned(n, d, m.srcSeqno, m.hops, m.from)
          PROVE  CloserNext(rt'[n][d].nexthop, d, rt'[n][d].seqno,
                            rt'[n][d].hops)
      BY <2>3, <3>2 DEF Learned
    <3>3. ASSUME NEW m \in rrep, d = m.dst,
                 Learned(n, d, m.dstSeqno, m.hops, m.from)
          PROVE  CloserNext(rt'[n][d].nexthop, d, rt'[n][d].seqno,
                            rt'[n][d].hops)
      BY <2>4, <3>3 DEF Learned
    <3>4. ~Dropped(n, d)
      BY <2>5 DEF Dropped
    <3> QED BY <1>2, <3>1, <3>2, <3>3, <3>4, EntrySteps, SoundIsFar DEF EntryStep
  <2>6. ASSUME NEW m \in rreq'
        PROVE  CloserNext(m.from, m.src, m.srcSeqno, m.hops)
    <3>1. CASE m \in rreq
      BY <2>3, <3>1
    <3>2. CASE Started(m)
      BY <3>2 DEF Started, CloserNext
    <3>3. CASE RequestPassed(m)
      <4>1. PICK o \in rreq :
              /\ m.src = o.src /\ m.srcSeqno = o.srcSeqno
              /\ m.hops = o.hops + 1
              /\ AsGood(m.from, o.src, o.srcSeqno, o.hops)
        BY <3>3 DEF RequestPassed
      <4>2. m.from \in Node /\ m.src \in Node
        BY <1>2, TypeStep DEF TypeOK, RREQ
      <4>3. rt'[m.from][m.src].hops \in Nat
        BY <1>2, <4>2, TypeStep DEF TypeOK, Entry
      <4> QED BY <2>1, <4>1, <4>3 DEF AsGood, CloserNext
    <3> QED BY <1>2, <3>1, <3>2, <3>3, MessageSteps
  <2>7. ASSUME NEW m \in rrep'
        PROVE  CloserNext(m.from, m.dst, m.dstSeqno, m.hops)
    <3>1. CASE m \in rrep
      BY <2>4, <3>1
    <3>2. CASE Answered(m)
      BY <3>2 DEF Answered, CloserNext
    <3>3. CASE ReplyPassed(m)
      <4>1. PICK o \in rrep :
              /\ m.dst = o.dst /\ m.dstSeqno = o.dstSeqno
              /\ m.hops = o.hops + 1
              /\ AsGood(m.from, o.dst, o.dstSeqno, o.hops)
        BY <3>3 DEF ReplyPassed
      <4>2. m.from \in Node /\ m.dst \in Node
        BY <1>2, TypeStep DEF TypeOK, RREP
      <4>3. rt'[m.from][m.dst].hops \in Nat
        BY <1>2, <4>2, TypeStep DEF TypeOK, Entry
      <4> QED BY <2>2, <4>1, <4>3 DEF AsGood, CloserNext
    <3> QED BY <1>2, <3>1, <3>2, <3>3, MessageSteps
  <2>8. NextHopCloser'
    BY <2>5 DEF NextHopCloser, Closer, CloserNext
  <2>9. MessagesCloser'
    BY <2>6, <2>7 DEF MessagesCloser, Closer, CloserNext
  <2> QED BY <2>8, <2>9
<1> QED BY <1>1, <1>2

\* Loop freedom: the next hop of a valid route is strictly closer to its
\* destination, in freshness or else in distance.
THEOREM LoopFree == Spec => []NextHopCloser
<1>1. Init => NextHopCloser /\ MessagesCloser
  BY DEF Init, NextHopCloser, MessagesCloser, NoEntry
<1> QED BY <1>1, LoopStep, TypeCorrect, Soundness, PTL DEF Spec

-----------------------------------------------------------------------------
(***************************************************************************)
(* Buffered packets.  The step that validates a route sends what waits for *)
(* it, or drops it; every other step leaves an invalid route invalid.      *)
(***************************************************************************)
Pending(n, p) == rt[n][p.dst].flags # "UP"

PendingNext(n, p) == rt'[n][p.dst].flags # "UP"

\* Packets whose entry is only added to, or not touched, stay pending.
LEMMA PendingKept ==
  ASSUME TypeOK, NoneBufferedWhenUp, NEW n \in Node, NEW p \in queue[n],
         rt'[n][p.dst] \in {rt[n][p.dst], rt_add(rt[n][p.dst]),
                           Invalidate(rt[n][p.dst])}
  PROVE  PendingNext(n, p)
<1>1. rt[n][p.dst] \in Entry /\ Pending(n, p)
  BY DEF TypeOK, Packet, NoneBufferedWhenUp, Pending
<1>2. rt_add(rt[n][p.dst]).flags # "UP"
  BY <1>1, AddKeeps DEF Pending
<1>3. Invalidate(rt[n][p.dst]).flags # "UP"
  BY <1>1 DEF Pending, Invalidate, rt_down, Entry
<1> QED BY <1>1, <1>2, <1>3 DEF Pending, PendingNext

\* rt_resolve buffers a packet only behind an invalid route.
LEMMA ResolvePending ==
  ASSUME TypeOK, Sound, NoneBufferedWhenUp, NEW n \in Node, NEW p \in Packet, NEW arrived,
         rt_resolve(n, p, arrived), NEW x \in Node, NEW c \in queue'[x]
  PROVE  PendingNext(x, c)
<1> DEFINE d == p.dst
           e == rt_add(rt[n][d])
<1>1. d \in Node /\ rt[n][d] \in Entry /\ e \in Entry /\ RouteSound(rt[n][d])
  BY AddType DEF TypeOK, Packet, Sound, RoutesSound
<1>2. \A y \in Node : \A b \in queue[y] : b \in Packet /\ b.dst \in Node
  BY DEF TypeOK, Packet
<1>3. ASSUME c \in queue[x], rt'[x][c.dst] \in {rt[x][c.dst], rt_add(rt[x][c.dst])}
      PROVE  PendingNext(x, c)
  BY <1>3, PendingKept
<1>4. CASE ResolveForward(n, p, arrived)
  BY <1>3, <1>4 DEF ResolveForward, agent
<1>5. CASE ResolveError(n, p, arrived)
  <2>1. /\ queue' = queue
        /\ rt' = [rt EXCEPT ![n][d] = e]
    BY <1>1, <1>5 DEF ResolveError, TypeOK
  <2>2. rt'[x][c.dst] \in {rt[x][c.dst], rt_add(rt[x][c.dst])}
    BY <1>1, <1>2, <2>1 DEF TypeOK
  <2> QED BY <1>3, <2>1, <2>2
<1>6. CASE ResolveBuffer(n, p, arrived)
  <2>1. e.flags # "UP" /\ e.flags # "IN_REPAIR"
    BY <1>1, <1>6, AddKeeps DEF ResolveBuffer, RouteSound
  <2>2. PICK lost \in SUBSET queue[n] :
          sendRequest(n, d, e, (queue[n] \ lost) \cup {p})
    BY <1>6, <2>1 DEF ResolveBuffer
  <2> DEFINE q == (queue[n] \ lost) \cup {p}
  <2>3. ASSUME NEW r, r.flags = e.flags,
               rt' = [rt EXCEPT ![n][d] = r],
               x # n => c \in queue[x],
               x = n => c \in q
        PROVE  PendingNext(x, c)
    <3>1. CASE x = n /\ c = p
      <4>1. rt'[x][c.dst] = r
        BY <1>1, <2>3, <3>1 DEF TypeOK
      <4> QED BY <2>1, <2>3, <3>1, <4>1 DEF PendingNext
    <3>2. CASE c \in queue[x]
      <4>1. CASE x = n /\ c.dst = d
        <5>1. rt'[x][c.dst] = r
          BY <1>1, <2>3, <4>1 DEF TypeOK
        <5> QED BY <2>1, <2>3, <3>2, <5>1 DEF PendingNext, NoneBufferedWhenUp, Pending
      <4>2. CASE ~(x = n /\ c.dst = d)
        <5>1. rt'[x][c.dst] = rt[x][c.dst]
          BY <1>2, <2>3, <3>2, <4>2 DEF TypeOK
        <5> QED BY <1>3, <3>2, <5>1
      <4> QED BY <4>1, <4>2
    <3> QED BY <2>3, <3>1, <3>2
  <2>4. CASE RateLimited(n, d, e, q)
    <3>2. rt' = [rt EXCEPT ![n][d] = e] /\ queue' = [queue EXCEPT ![n] = q]
      BY <2>4 DEF RateLimited
    <3>3. (x # n => c \in queue[x]) /\ (x = n => c \in q)
      BY <3>2 DEF TypeOK
    <3> QED BY <2>3, <3>2, <3>3
  <2>5. CASE GiveUp(n, d, e, q)
    <3> DEFINE r == [e EXCEPT !.reqCnt = 0, !.reqWait = TRUE]
    <3>1. rt' = [rt EXCEPT ![n][d] = r]
          /\ queue' = [queue EXCEPT ![n] = {b \in q : b.dst # d}]
      BY <2>5 DEF GiveUp
    <3>2. r.flags = e.flags
      BY <1>1 DEF Entry
    <3>3. (x # n => c \in queue[x]) /\ (x = n => c \in q)
      BY <3>1 DEF TypeOK
    <3> QED BY <2>3, <3>1, <3>2, <3>3
  <2>6. CASE Search(n, d, e, q)
    <3>1. /\ rt' = [rt EXCEPT ![n][d] = Searching(e)]
          /\ queue' = [queue EXCEPT ![n] = q]
      BY <2>6 DEF Search
    <3>2. Searching(e).flags = e.flags
      BY <1>1, SearchingKeeps
    <3>3. (x # n => c \in queue[x]) /\ (x = n => c \in q)
      BY <3>1 DEF TypeOK
    <3> QED BY <2>3, <3>1, <3>2, <3>3
  <2> QED BY <2>2, <2>4, <2>5, <2>6 DEF sendRequest
<1> QED BY <1>4, <1>5, <1>6 DEF rt_resolve

\* recvRequest sends what its reverse route serves and leaves the rest pending.
LEMMA ReversePending ==
  ASSUME TypeOK, NoneBufferedWhenUp, NEW n \in Node, NEW m \in rreq,
         NEW lost \in SUBSET queue[n], LearnReverse(n, m, lost),
         NEW x \in Node, NEW c \in queue'[x]
  PROVE  PendingNext(x, c)
<1> DEFINE e     == rt_add(rt[n][m.src])
           fresh == Fresher(e, m.srcSeqno, m.hops)
           ready == IF fresh THEN Waiting(n, m.src, lost) ELSE {}
<1>1. m \in RREQ /\ m.src \in Node /\ e \in Entry
  BY AddType DEF TypeOK, RREQ
<1>2. /\ rt' = [rt EXCEPT ![n][m.src] = ReverseRoute(e, m)]
      /\ queue' = [queue EXCEPT ![n] = @ \ (lost \cup ready)]
  BY DEF LearnReverse
<1>3. c \in queue[x] /\ (x = n => c \notin lost /\ c \notin ready)
  BY <1>2 DEF TypeOK
<1>4. c.dst \in Node
  BY <1>3 DEF TypeOK, Packet
<1>5. rt'[x][c.dst] \in {rt[x][c.dst], rt_add(rt[x][c.dst])}
  <2>1. CASE x = n /\ c.dst = m.src
    <3>1. ~fresh
      BY <1>3, <2>1 DEF Waiting
    <3>2. rt'[x][c.dst] = e
      BY <1>1, <1>2, <2>1, <3>1, ReverseLearns DEF TypeOK
    <3> QED BY <2>1, <3>2
  <2>2. CASE ~(x = n /\ c.dst = m.src)
    BY <1>1, <1>2, <1>4, <2>2 DEF TypeOK
  <2> QED BY <2>1, <2>2
<1> QED BY <1>3, <1>5, PendingKept

\* recvReply sends what its forward route serves and leaves the rest pending.
LEMMA ForwardPending ==
  ASSUME TypeOK, NoneBufferedWhenUp, NEW n \in Node, NEW m \in rrep,
         NEW lost \in SUBSET queue[n], LearnForward(n, m, lost),
         NEW x \in Node, NEW c \in queue'[x]
  PROVE  PendingNext(x, c)
<1> DEFINE e     == rt_add(rt[n][m.dst])
           fresh == Fresher(e, m.dstSeqno, m.hops)
           ready == IF fresh THEN Waiting(n, m.dst, lost) ELSE {}
<1>1. m \in RREP /\ m.dst \in Node /\ e \in Entry
  BY AddType DEF TypeOK, RREP
<1>2. /\ rt' = [rt EXCEPT ![n][m.dst] = ForwardRoute(e, m)]
      /\ queue' = [queue EXCEPT ![n] = @ \ (lost \cup ready)]
  BY DEF LearnForward
<1>3. c \in queue[x] /\ (x = n => c \notin lost /\ c \notin ready)
  BY <1>2 DEF TypeOK
<1>4. c.dst \in Node
  BY <1>3 DEF TypeOK, Packet
<1>5. rt'[x][c.dst] \in {rt[x][c.dst], rt_add(rt[x][c.dst])}
  <2>1. CASE x = n /\ c.dst = m.dst
    <3>1. ~fresh
      BY <1>3, <2>1 DEF Waiting
    <3>2. rt'[x][c.dst] = e
      BY <1>1, <1>2, <2>1, <3>1, ForwardLearns DEF TypeOK
    <3> QED BY <2>1, <3>2
  <2>2. CASE ~(x = n /\ c.dst = m.dst)
    BY <1>1, <1>2, <1>4, <2>2 DEF TypeOK
  <2> QED BY <2>1, <2>2
<1> QED BY <1>3, <1>5, PendingKept

\* No step leaves a packet in the buffer behind a valid route.
LEMMA BuffersStep == TypeOK /\ Sound /\ NoneBufferedWhenUp /\ [Next]_vars => NoneBufferedWhenUp'
<1> SUFFICES ASSUME TypeOK, Sound, NoneBufferedWhenUp, [Next]_vars,
                    NEW x \in Node, NEW c \in queue'[x]
             PROVE  PendingNext(x, c)
  BY DEF NoneBufferedWhenUp, PendingNext
<1>1. ASSUME queue' = queue, rt' = rt PROVE PendingNext(x, c)
  BY <1>1, PendingKept
<1>2. ASSUME NEW s \in Node, NEW d \in Node, Originate(s, d)
      PROVE  PendingNext(x, c)
  <2> DEFINE p == [id |-> nsent + 1, src |-> s, dst |-> d,
                   ttl |-> NETWORK_DIAMETER]
  <2>1. p \in Packet
    BY ConstantAssumption DEF Packet, TypeOK
  <2>2. rt_resolve(s, p, {})
    BY <1>2 DEF Originate
  <2> QED BY <2>1, <2>2, ResolvePending
<1>3. ASSUME NEW n \in Node, NEW f \in data, Relay(n, f)
      PROVE  PendingNext(x, c)
  <2> DEFINE p == [f.pkt EXCEPT !.ttl = @ - 1]
  <2>1. p \in Packet
    <3>1. f.pkt \in Packet /\ p.ttl = f.pkt.ttl - 1 /\ p.ttl # 0
      BY <1>3 DEF Frame, TypeOK, Packet, Relay
    <3> QED BY <3>1 DEF Packet
  <2>2. rt_resolve(n, p, {f})
    BY <1>3 DEF Relay
  <2> QED BY <2>1, <2>2, ResolvePending
<1>4. ASSUME NEW n \in Node, NEW f \in data, Consume(n, f) \/ rt_ll_failed(n, f)
      PROVE  PendingNext(x, c)
  BY <1>1, <1>4 DEF Consume, rt_ll_failed, agent
<1>5. ASSUME NEW n \in Node, NEW m \in rreq, recvRequest(n, m)
      PROVE  PendingNext(x, c)
  <2>1. CASE DiscardRequest(n, m)
    BY <1>1, <2>1 DEF DiscardRequest, agent
  <2>2. CASE AnswerRequest(n, m) \/ ForwardRequest(n, m)
    <3>1. PICK lost \in SUBSET queue[n] : LearnReverse(n, m, lost)
      BY <2>2 DEF AnswerRequest, ForwardRequest
    <3> QED BY <3>1, ReversePending
  <2> QED BY <1>5, <2>1, <2>2 DEF recvRequest
<1>6. ASSUME NEW n \in Node, NEW m \in rrep, recvReply(n, m)
      PROVE  PendingNext(x, c)
  <2>1. PICK lost \in SUBSET queue[n] : LearnForward(n, m, lost)
    BY <1>6 DEF recvReply, AcceptReply, ForwardReply
  <2> QED BY <2>1, ForwardPending
<1>7. ASSUME NEW n \in Node, NEW h \in Node, recvHello(n, h)
      PROVE  PendingNext(x, c)
  BY <1>1, <1>7 DEF recvHello
<1>8. ASSUME NEW n \in Node, NEW h \in Node, nb_delete(n, h)
      PROVE  PendingNext(x, c)
  <2>1. c \in queue[x] /\ c.dst \in Node
    BY <1>8 DEF nb_delete, TypeOK, Packet
  <2>2. rt'[x][c.dst] \in {rt[x][c.dst], Invalidate(rt[x][c.dst])}
    BY <1>8, <2>1 DEF nb_delete, TypeOK
  <2> QED BY <2>1, <2>2, PendingKept
<1>9. ASSUME NEW n \in Node, NEW E \in SUBSET Node, rt_purge(n, E)
      PROVE  PendingNext(x, c)
  <2>1. c \in queue[x]
    BY <1>9 DEF rt_purge, TypeOK
  <2>2. c.dst \in Node
    BY <2>1 DEF TypeOK, Packet
  <2>3. rt'[x][c.dst] \in {rt[x][c.dst], Invalidate(rt[x][c.dst])}
    BY <1>9, <2>2 DEF rt_purge, TypeOK
  <2> QED BY <2>1, <2>3, PendingKept
<1>10. ASSUME NEW n \in Node, id_purge(n) PROVE PendingNext(x, c)
  BY <1>1, <1>10 DEF id_purge
<1>11. CASE Lose
  BY <1>1, <1>11 DEF Lose, agent
<1>12. CASE UNCHANGED vars
  BY <1>1, <1>12 DEF vars
<1> QED BY <1>2, <1>3, <1>4, <1>5, <1>6, <1>7, <1>8, <1>9, <1>10, <1>11, <1>12
        DEF Next

\* No packet is left in the buffer while its route is valid: whoever makes a
\* route valid drains the buffer in the same step.
THEOREM BuffersDrained == Spec => []NoneBufferedWhenUp
<1>1. Init => NoneBufferedWhenUp
  BY DEF Init, NoneBufferedWhenUp
<1> QED BY <1>1, BuffersStep, TypeCorrect, Soundness, PTL DEF Spec

-----------------------------------------------------------------------------
(***************************************************************************)
(* Searches.  What makes a route valid resets the search for it, but a     *)
(* request does so only where a search is marked by its time limit: hence  *)
(* the count must be 0 wherever there is no limit.                         *)
(***************************************************************************)
NoSearch(e) == e.reqCnt = 0 /\ ~e.reqWait

SearchSound(e) ==
  /\ e.flags = "UP" => NoSearch(e)
  /\ ~e.reqWait => e.reqCnt = 0

SearchesSound == \A n, d \in Node : SearchSound(rt[n][d])

\* What the operators on route entries make of a sound search.
LEMMA SearchKept ==
  ASSUME NEW e \in Entry, SearchSound(e)
  PROVE  SearchSound(rt_add(e)) /\ SearchSound(Invalidate(e))
BY DEF SearchSound, NoSearch, rt_add, Invalidate, rt_down, Entry

LEMMA SearchStarted ==
  ASSUME NEW e \in Entry, e.flags # "UP"
  PROVE  /\ SearchSound(Searching(e))
         /\ SearchSound([e EXCEPT !.reqCnt = 0, !.reqWait = TRUE])
<1>1. Searching(e).reqWait = TRUE /\ Searching(e).flags = e.flags
  BY SearchingKeeps
<1> QED BY <1>1 DEF SearchSound, NoSearch, Entry

LEMMA SearchEnded ==
  ASSUME NEW e \in Entry, SearchSound(e)
  PROVE  /\ \A m \in RREQ : SearchSound(ReverseRoute(e, m))
         /\ \A m \in RREP : SearchSound(ForwardRoute(e, m))
<1>1. ASSUME NEW m \in RREQ PROVE SearchSound(ReverseRoute(e, m))
  <2> DEFINE u == rt_update(e, m.srcSeqno, m.hops, m.from)
  <2>1. u \in Entry /\ u.reqWait = e.reqWait /\ u.reqCnt = e.reqCnt
    BY UpdateType DEF RREQ, rt_update, Entry
  <2>2. CASE ~Fresher(e, m.srcSeqno, m.hops)
    BY <2>2 DEF ReverseRoute
  <2>3. CASE Fresher(e, m.srcSeqno, m.hops) /\ e.reqWait
    <3>1. ReverseRoute(e, m) =
            [u EXCEPT !.reqCnt = 0, !.reqWait = FALSE, !.reqTtl = m.hops]
      BY <2>3 DEF ReverseRoute
    <3> HIDE DEF u
    <3> QED BY <2>1, <3>1 DEF SearchSound, NoSearch, Entry
  <2>4. CASE Fresher(e, m.srcSeqno, m.hops) /\ ~e.reqWait
    <3>1. ReverseRoute(e, m) = u
      BY <2>4 DEF ReverseRoute
    <3> HIDE DEF u
    <3> QED BY <2>1, <2>4, <3>1 DEF SearchSound, NoSearch
  <2> QED BY <2>2, <2>3, <2>4
<1>2. ASSUME NEW m \in RREP PROVE SearchSound(ForwardRoute(e, m))
  <2> DEFINE u == rt_update(e, m.dstSeqno, m.hops, m.from)
  <2>1. u \in Entry
    BY UpdateType DEF RREP
  <2>2. CASE ~Fresher(e, m.dstSeqno, m.hops)
    BY <2>2 DEF ForwardRoute
  <2>3. CASE Fresher(e, m.dstSeqno, m.hops)
    <3>1. ForwardRoute(e, m) =
            [u EXCEPT !.reqCnt = 0, !.reqWait = FALSE, !.reqTtl = m.hops]
      BY <2>3 DEF ForwardRoute
    <3> HIDE DEF u
    <3> QED BY <2>1, <3>1 DEF SearchSound, NoSearch, Entry
  <2> QED BY <2>2, <2>3
<1> QED BY <1>1, <1>2

\* One entry has changed, and it is sound.
LEMMA SearchOne ==
  ASSUME TypeOK, SearchesSound, NEW n \in Node, NEW d \in Node, NEW r,
         SearchSound(r), rt' = [rt EXCEPT ![n][d] = r]
  PROVE  SearchesSound'
<1>1. ASSUME NEW x \in Node, NEW b \in Node PROVE SearchSound(rt'[x][b])
  <2>1. CASE x = n /\ b = d
    <3>1. rt'[x][b] = r
      BY <2>1 DEF TypeOK
    <3> QED BY <3>1
  <2>2. CASE ~(x = n /\ b = d)
    <3>1. rt'[x][b] = rt[x][b]
      BY <2>2 DEF TypeOK
    <3> QED BY <3>1 DEF SearchesSound
  <2> QED BY <2>1, <2>2
<1> QED BY <1>1 DEF SearchesSound, SearchSound, NoSearch

\* rt_resolve starts a search, gives it up, or leaves the table as it was.
LEMMA ResolveSearch ==
  ASSUME TypeOK, SearchesSound, NEW n \in Node, NEW p \in Packet, NEW arrived,
         rt_resolve(n, p, arrived)
  PROVE  SearchesSound'
<1> DEFINE d == p.dst
           e == rt_add(rt[n][d])
<1>1. d \in Node /\ rt[n][d] \in Entry /\ e \in Entry /\ SearchSound(rt[n][d])
  BY AddType DEF TypeOK, Packet, SearchesSound
<1>2. SearchSound(e)
  BY <1>1, SearchKept
<1>3. ASSUME rt' = rt PROVE SearchesSound'
  BY <1>3 DEF SearchesSound, SearchSound, NoSearch
<1>4. CASE ResolveForward(n, p, arrived)
  BY <1>3, <1>4 DEF ResolveForward, agent
<1>5. CASE ResolveError(n, p, arrived)
  <2>1. rt' = [rt EXCEPT ![n][d] = e]
    BY <1>1, <1>5 DEF ResolveError, TypeOK
  <2> QED BY <1>1, <1>2, <2>1, SearchOne
<1>6. CASE ResolveBuffer(n, p, arrived)
  <2>1. e.flags # "UP"
    BY <1>1, <1>6, AddKeeps DEF ResolveBuffer
  <2>2. CASE e.flags = "IN_REPAIR"
    BY <1>3, <1>6, <2>2 DEF ResolveBuffer
  <2>3. CASE e.flags # "IN_REPAIR"
    <3>1. PICK lost \in SUBSET queue[n] :
            sendRequest(n, d, e, (queue[n] \ lost) \cup {p})
      BY <1>6, <2>3 DEF ResolveBuffer
    <3>2. PICK r : SearchSound(r) /\ rt' = [rt EXCEPT ![n][d] = r]
      <4>1. /\ SearchSound(Searching(e))
            /\ SearchSound([e EXCEPT !.reqCnt = 0, !.reqWait = TRUE])
        BY <1>1, <2>1, SearchStarted
      <4> HIDE DEF e
      <4> QED BY <1>2, <3>1, <4>1 DEF sendRequest, RateLimited, GiveUp, Search
    <3> HIDE DEF e
    <3> QED BY <1>1, <3>2, SearchOne
  <2> QED BY <2>2, <2>3
<1> QED BY <1>4, <1>5, <1>6 DEF rt_resolve

\* Every step keeps the searches of all entries sound.
LEMMA SearchStep == TypeOK /\ SearchesSound /\ [Next]_vars => SearchesSound'
<1> SUFFICES ASSUME TypeOK, SearchesSound, [Next]_vars
             PROVE  SearchesSound'
  OBVIOUS
<1>1. ASSUME rt' = rt PROVE SearchesSound'
  BY <1>1 DEF SearchesSound, SearchSound, NoSearch
<1>2. ASSUME NEW s \in Node, NEW d \in Node, Originate(s, d) PROVE SearchesSound'
  <2> DEFINE p == [id |-> nsent + 1, src |-> s, dst |-> d,
                   ttl |-> NETWORK_DIAMETER]
  <2>1. p \in Packet
    BY ConstantAssumption DEF Packet, TypeOK
  <2>2. rt_resolve(s, p, {})
    BY <1>2 DEF Originate
  <2> QED BY <2>1, <2>2, ResolveSearch
<1>3. ASSUME NEW n \in Node, NEW f \in data, Relay(n, f) PROVE SearchesSound'
  <2> DEFINE p == [f.pkt EXCEPT !.ttl = @ - 1]
  <2>1. p \in Packet
    <3>1. f.pkt \in Packet /\ p.ttl = f.pkt.ttl - 1 /\ p.ttl # 0
      BY <1>3 DEF Frame, TypeOK, Packet, Relay
    <3> QED BY <3>1 DEF Packet
  <2>2. rt_resolve(n, p, {f})
    BY <1>3 DEF Relay
  <2> QED BY <2>1, <2>2, ResolveSearch
<1>4. ASSUME NEW n \in Node, NEW f \in data, Consume(n, f) \/ rt_ll_failed(n, f)
      PROVE  SearchesSound'
  BY <1>1, <1>4 DEF Consume, rt_ll_failed, agent
<1>5. ASSUME NEW n \in Node, NEW m \in rreq, recvRequest(n, m)
      PROVE  SearchesSound'
  <2>1. CASE DiscardRequest(n, m)
    BY <1>1, <2>1 DEF DiscardRequest, agent
  <2>2. CASE AnswerRequest(n, m) \/ ForwardRequest(n, m)
    <3> DEFINE e == rt_add(rt[n][m.src])
    <3>1. m \in RREQ /\ m.src \in Node /\ e \in Entry /\ rt[n][m.src] \in Entry
      BY AddType DEF TypeOK, RREQ
    <3>2. SearchSound(ReverseRoute(e, m))
      BY <3>1, SearchKept, SearchEnded DEF SearchesSound
    <3>3. rt' = [rt EXCEPT ![n][m.src] = ReverseRoute(e, m)]
      BY <2>2 DEF AnswerRequest, ForwardRequest, LearnReverse
    <3> QED BY <3>1, <3>2, <3>3, SearchOne
  <2> QED BY <1>5, <2>1, <2>2 DEF recvRequest
<1>6. ASSUME NEW n \in Node, NEW m \in rrep, recvReply(n, m) PROVE SearchesSound'
  <2> DEFINE e == rt_add(rt[n][m.dst])
  <2>1. m \in RREP /\ m.dst \in Node /\ e \in Entry /\ rt[n][m.dst] \in Entry
    BY AddType DEF TypeOK, RREP
  <2>2. SearchSound(ForwardRoute(e, m))
    BY <2>1, SearchKept, SearchEnded DEF SearchesSound
  <2>3. rt' = [rt EXCEPT ![n][m.dst] = ForwardRoute(e, m)]
    BY <1>6 DEF recvReply, AcceptReply, ForwardReply, LearnForward
  <2> QED BY <2>1, <2>2, <2>3, SearchOne
<1>7. ASSUME NEW n \in Node, NEW h \in Node, recvHello(n, h) PROVE SearchesSound'
  BY <1>1, <1>7 DEF recvHello
<1>8. ASSUME NEW n \in Node, NEW D \in SUBSET Node,
             rt' = [rt EXCEPT ![n] = [d \in Node |->
                      IF d \in D THEN Invalidate(@[d]) ELSE @[d]]]
      PROVE  SearchesSound'
  <2>1. ASSUME NEW x \in Node, NEW d \in Node PROVE SearchSound(rt'[x][d])
    <3>1. rt[x][d] \in Entry /\ SearchSound(rt[x][d])
      BY DEF TypeOK, SearchesSound
    <3>2. rt'[x][d] \in {rt[x][d], Invalidate(rt[x][d])}
      BY <1>8 DEF TypeOK
    <3> QED BY <3>1, <3>2, SearchKept
  <2> QED BY <2>1 DEF SearchesSound, SearchSound, NoSearch
<1>9. ASSUME NEW n \in Node, NEW h \in Node, nb_delete(n, h) PROVE SearchesSound'
  <2>1. Through(n, h) \in SUBSET Node
    BY DEF Through
  <2> QED BY <1>8, <1>9, <2>1 DEF nb_delete
<1>10. ASSUME NEW n \in Node, NEW E \in SUBSET Node, rt_purge(n, E)
       PROVE  SearchesSound'
  BY <1>8, <1>10 DEF rt_purge
<1>11. ASSUME NEW n \in Node, id_purge(n) PROVE SearchesSound'
  BY <1>1, <1>11 DEF id_purge
<1>12. CASE Lose
  BY <1>1, <1>12 DEF Lose, agent
<1>13. CASE UNCHANGED vars
  BY <1>1, <1>13 DEF vars
<1> QED BY <1>2, <1>3, <1>4, <1>5, <1>6, <1>7, <1>9, <1>10, <1>11, <1>12, <1>13
        DEF Next

\* A valid route carries nothing of the searches for it: whoever made it valid
\* has reset their count and their time limit.
THEOREM SearchesEnd == Spec => []SearchOver
<1>1. Init => SearchesSound
  BY DEF Init, SearchesSound, SearchSound, NoSearch, NoEntry
<1>2. SearchesSound => SearchOver
  BY DEF SearchesSound, SearchSound, NoSearch, SearchOver
<1> QED BY <1>1, <1>2, SearchStep, TypeCorrect, PTL DEF Spec

-----------------------------------------------------------------------------
(***************************************************************************)
(* A packet is in one place.  A step loses packets, or moves some of the   *)
(* buffer to the air, or puts one packet somewhere that is nowhere else.   *)
(***************************************************************************)
\* The ids of packets on their way were given out by Originate.
IdsSent ==
  /\ \A f \in data : f.pkt.id <= nsent
  /\ \A n \in Node : \A p \in queue[n] : p.id <= nsent

Once == PacketOnce /\ IdsSent

Shrinks ==
  /\ data' \subseteq data /\ nsent' = nsent
  /\ \A x \in Node : queue'[x] \subseteq queue[x]

Dequeues(n) ==
  \E R \in SUBSET queue[n] : \E hop \in [Node -> Node] :
    /\ data' \subseteq data \cup {[from |-> n, to |-> hop[p.dst], pkt |-> p] : p \in R}
    /\ queue'[n] \subseteq queue[n] \ R
    /\ \A x \in Node : queue'[x] \subseteq queue[x]
    /\ nsent' = nsent

\* Nobody has a packet with the id of p but the frames of arrived.
Nowhere(p, arrived) ==
  /\ \A f \in data \ arrived : f.pkt.id # p.id
  /\ \A x \in Node : \A o \in queue[x] : o.id # p.id

Resolves(n, p, arrived) ==
  /\ \A x \in Node \ {n} : queue'[x] \subseteq queue[x]
  /\ \/ /\ \E hop : data' \subseteq
             (data \ arrived) \cup {[from |-> n, to |-> hop, pkt |-> p]}
        /\ queue'[n] \subseteq queue[n]
     \/ /\ data' \subseteq data \ arrived
        /\ queue'[n] \subseteq queue[n] \cup {p}

\* Losing packets is harmless.
LEMMA ShrinkOnce ==
  ASSUME Once, Shrinks
  PROVE  Once'
BY DEF Once, PacketOnce, IdsSent, Shrinks

\* So is moving packets from the buffer to the air.
LEMMA DequeueOnce ==
  ASSUME TypeOK, Once, NEW n \in Node, Dequeues(n)
  PROVE  Once'
<1>1. PICK R \in SUBSET queue[n], hop \in [Node -> Node] :
        /\ data' \subseteq data \cup {[from |-> n, to |-> hop[p.dst], pkt |-> p] : p \in R}
        /\ queue'[n] \subseteq queue[n] \ R
        /\ \A x \in Node : queue'[x] \subseteq queue[x]
        /\ nsent' = nsent
  BY DEF Dequeues
<1>2. \A f \in data' : f \in data \/ \E p \in R :
                         /\ f = [from |-> n, to |-> hop[p.dst], pkt |-> p]
                         /\ f.pkt = p
  BY <1>1
<1>3. \A f, g \in data' : f.pkt.id = g.pkt.id => f = g
  <2> SUFFICES ASSUME NEW f \in data', NEW g \in data', f.pkt.id = g.pkt.id
               PROVE  f = g
    OBVIOUS
  <2>1. CASE f \in data /\ g \in data
    BY <2>1 DEF Once, PacketOnce
  <2>2. CASE f \in data /\ g \notin data
    BY <1>2, <2>2 DEF Once, PacketOnce
  <2>3. CASE f \notin data /\ g \in data
    BY <1>2, <2>3 DEF Once, PacketOnce
  <2>4. CASE f \notin data /\ g \notin data
    <3>1. PICK p \in R, o \in R :
            /\ f = [from |-> n, to |-> hop[p.dst], pkt |-> p] /\ f.pkt = p
            /\ g = [from |-> n, to |-> hop[o.dst], pkt |-> o] /\ g.pkt = o
      BY <1>2, <2>4
    <3>2. p = o
      BY <3>1 DEF Once, PacketOnce
    <3> QED BY <3>1, <3>2
  <2> QED BY <2>1, <2>2, <2>3, <2>4
<1>4. ASSUME NEW x \in Node, NEW p \in queue'[x]
      PROVE  /\ \A f \in data' : f.pkt.id # p.id
             /\ \A y \in Node : \A o \in queue'[y] : p.id = o.id => p = o /\ x = y
  <2>1. p \in queue[x] /\ (x = n => p \notin R)
    BY <1>1
  <2>2. \A f \in data' : f.pkt.id # p.id
    BY <1>2, <2>1 DEF Once, PacketOnce
  <2>3. \A y \in Node : \A o \in queue'[y] : p.id = o.id => p = o /\ x = y
    BY <1>1, <2>1 DEF Once, PacketOnce
  <2> QED BY <2>2, <2>3
<1>5. IdsSent'
  <2>1. \A f \in data' : f.pkt.id <= nsent'
    BY <1>1, <1>2 DEF Once, IdsSent
  <2> QED BY <1>1, <2>1 DEF Once, IdsSent
<1> QED BY <1>3, <1>4, <1>5 DEF Once, PacketOnce

\* So is putting a packet somewhere that is nowhere else.
LEMMA ResolveOnce ==
  ASSUME TypeOK, Once, NEW n \in Node, NEW p \in Packet, NEW arrived,
         Nowhere(p, arrived), Resolves(n, p, arrived),
         nsent' \in Nat, nsent <= nsent', p.id <= nsent'
  PROVE  Once'
<1>0. ASSUME NEW i \in Nat, i <= nsent PROVE i <= nsent'
  BY <1>0 DEF TypeOK
<1>1. /\ \A f \in data : f.pkt.id \in Nat
      /\ \A x \in Node : \A o \in queue[x] : o.id \in Nat
  BY DEF TypeOK, Frame, Packet
<1>2. CASE /\ \E hop : data' \subseteq
                (data \ arrived) \cup {[from |-> n, to |-> hop, pkt |-> p]}
           /\ queue'[n] \subseteq queue[n]
  <2> PICK hop : data' \subseteq
                   (data \ arrived) \cup {[from |-> n, to |-> hop, pkt |-> p]}
    BY <1>2
  <2> DEFINE g == [from |-> n, to |-> hop, pkt |-> p]
  <2>1. /\ data' \subseteq (data \ arrived) \cup {g}
        /\ g.pkt = p
    OBVIOUS
  <2> HIDE DEF g
  <2>2. \A x \in Node : queue'[x] \subseteq queue[x]
    BY <1>2 DEF Resolves
  <2>3. \A f, h \in data' : f.pkt.id = h.pkt.id => f = h
    BY <2>1 DEF Nowhere, Once, PacketOnce
  <2>4. \A x \in Node : \A o \in queue'[x] :
          /\ \A f \in data' : f.pkt.id # o.id
          /\ \A y \in Node : \A r \in queue'[y] : o.id = r.id => o = r /\ x = y
    BY <2>1, <2>2 DEF Nowhere, Once, PacketOnce
  <2>5. IdsSent'
    BY <1>0, <1>1, <2>1, <2>2 DEF Once, IdsSent
  <2> QED BY <2>3, <2>4, <2>5 DEF Once, PacketOnce
<1>3. CASE data' \subseteq data \ arrived /\ queue'[n] \subseteq queue[n] \cup {p}
  <2>1. \A x \in Node : \A o \in queue'[x] : o \in queue[x] \/ (x = n /\ o = p)
    BY <1>3 DEF Resolves
  <2>2. \A f, h \in data' : f.pkt.id = h.pkt.id => f = h
    BY <1>3 DEF Once, PacketOnce
  <2>3. \A x \in Node : \A o \in queue'[x] : \A f \in data' : f.pkt.id # o.id
    BY <1>3, <2>1 DEF Nowhere, Once, PacketOnce
  <2>4. \A x, y \in Node : \A o \in queue'[x] : \A r \in queue'[y] :
          o.id = r.id => o = r /\ x = y
    BY <2>1 DEF Nowhere, Once, PacketOnce
  <2>5. IdsSent'
    BY <1>0, <1>1, <1>3, <2>1 DEF Once, IdsSent
  <2> QED BY <2>2, <2>3, <2>4, <2>5 DEF Once, PacketOnce
<1> QED BY <1>2, <1>3 DEF Resolves

\* sendRequest only loses packets of the buffer it is called with.
LEMMA SendQueue ==
  ASSUME TypeOK, NEW n \in Node, NEW d, NEW e, NEW q, sendRequest(n, d, e, q)
  PROVE  queue'[n] \subseteq q /\ \A x \in Node \ {n} : queue'[x] = queue[x]
BY DEF sendRequest, RateLimited, GiveUp, Search, TypeOK

\* rt_resolve puts its packet in one place.
LEMMA ResolveResolves ==
  ASSUME TypeOK, NEW n \in Node, NEW p, NEW arrived, rt_resolve(n, p, arrived)
  PROVE  Resolves(n, p, arrived)
<1>1. CASE ResolveForward(n, p, arrived)
  BY <1>1 DEF ResolveForward, Frames, Resolves, agent
<1>2. CASE ResolveBuffer(n, p, arrived)
  <2> DEFINE e == rt_add(rt[n][p.dst])
  <2>1. PICK lost \in SUBSET queue[n] :
          \/ queue' = [queue EXCEPT ![n] = (queue[n] \ lost) \cup {p}]
          \/ sendRequest(n, p.dst, e, (queue[n] \ lost) \cup {p})
    BY <1>2 DEF ResolveBuffer
  <2>2. /\ queue'[n] \subseteq queue[n] \cup {p}
        /\ \A x \in Node \ {n} : queue'[x] = queue[x]
    <3>1. CASE queue' = [queue EXCEPT ![n] = (queue[n] \ lost) \cup {p}]
      BY <3>1 DEF TypeOK
    <3>2. CASE sendRequest(n, p.dst, e, (queue[n] \ lost) \cup {p})
      <4> HIDE DEF e
      <4> QED BY <3>2, SendQueue
    <3> QED BY <2>1, <3>1, <3>2
  <2>3. data' = data \ arrived
    BY <1>2 DEF ResolveBuffer
  <2> QED BY <2>2, <2>3 DEF Resolves
<1>3. CASE ResolveError(n, p, arrived)
  BY <1>3 DEF ResolveError, Resolves
<1> QED BY <1>1, <1>2, <1>3 DEF rt_resolve

\* What a learnt route takes out of the buffer goes to the air.
LEMMA LearnDequeues ==
  ASSUME TypeOK, NEW n \in Node, NEW hop \in Node, NEW lost, NEW ready \in SUBSET queue[n],
         queue' = [queue EXCEPT ![n] = @ \ (lost \cup ready)],
         data' = data \cup Frames(n, hop, ready), nsent' = nsent
  PROVE  Dequeues(n)
<1> DEFINE h == [d \in Node |-> hop]
<1>1. h \in [Node -> Node]
  OBVIOUS
<1>2. \A p \in ready : h[p.dst] = hop
  BY DEF TypeOK, Packet
<1> HIDE DEF h
<1>3. data' \subseteq data \cup {[from |-> n, to |-> h[p.dst], pkt |-> p] : p \in ready}
  BY <1>2 DEF Frames
<1>4. queue'[n] \subseteq queue[n] \ ready /\ \A x \in Node : queue'[x] \subseteq queue[x]
  BY DEF TypeOK
<1> QED BY <1>1, <1>3, <1>4 DEF Dequeues

\* Every step.
LEMMA OnceStep == TypeOK /\ Once /\ [Next]_vars => Once'
<1> SUFFICES ASSUME TypeOK, Once, [Next]_vars PROVE Once'
  OBVIOUS
<1>1. ASSUME NEW s \in Node, NEW d \in Node, Originate(s, d) PROVE Once'
  <2> DEFINE p == [id |-> nsent + 1, src |-> s, dst |-> d, ttl |-> NETWORK_DIAMETER]
  <2>1. p \in Packet
    BY ConstantAssumption DEF Packet, TypeOK
  <2>2. rt_resolve(s, p, {}) /\ nsent' = nsent + 1
    BY <1>1 DEF Originate
  <2>3. p.id = nsent + 1 /\ nsent \in Nat
    BY DEF TypeOK
  <2> HIDE DEF p
  <2>4. Nowhere(p, {})
    <3>1. /\ \A f \in data : f.pkt.id \in Nat /\ f.pkt.id <= nsent
          /\ \A x \in Node : \A o \in queue[x] : o.id \in Nat /\ o.id <= nsent
      BY DEF TypeOK, Frame, Packet, Once, IdsSent
    <3> QED BY <2>3, <3>1 DEF Nowhere
  <2>5. Resolves(s, p, {})
    BY <2>2, ResolveResolves
  <2> QED BY <2>1, <2>2, <2>3, <2>4, <2>5, ResolveOnce
<1>2. ASSUME NEW n \in Node, NEW f \in data, Relay(n, f) PROVE Once'
  <2> DEFINE p == [f.pkt EXCEPT !.ttl = @ - 1]
  <2>1. f.pkt \in Packet
    BY DEF Frame, TypeOK
  <2>2. p.id = f.pkt.id /\ p \in Packet
    <3>1. f.pkt.ttl \in Nat \ {0} /\ p.ttl = f.pkt.ttl - 1
      BY <2>1 DEF Packet
    <3>2. p.ttl # 0
      BY <1>2 DEF Relay
    <3> QED BY <2>1, <3>1, <3>2 DEF Packet
  <2>3. rt_resolve(n, p, {f}) /\ nsent' = nsent
    BY <1>2 DEF Relay
  <2> HIDE DEF p
  <2>4. Nowhere(p, {f})
    BY <2>2 DEF Nowhere, Once, PacketOnce
  <2>5. Resolves(n, p, {f})
    BY <2>3, ResolveResolves
  <2>6. nsent' \in Nat /\ nsent <= nsent' /\ p.id <= nsent'
    BY <2>2, <2>3 DEF TypeOK, Once, IdsSent
  <2> QED BY <2>2, <2>4, <2>5, <2>6, ResolveOnce
<1>3. ASSUME NEW n \in Node, NEW f \in data, Consume(n, f) \/ rt_ll_failed(n, f)
      PROVE  Once'
  BY <1>3, ShrinkOnce DEF Consume, rt_ll_failed, agent, Shrinks
<1>4. ASSUME NEW n \in Node, NEW m \in rreq, recvRequest(n, m) PROVE Once'
  <2>1. CASE DiscardRequest(n, m)
    BY <2>1, ShrinkOnce DEF DiscardRequest, agent, Shrinks
  <2>2. CASE AnswerRequest(n, m) \/ ForwardRequest(n, m)
    <3>1. PICK lost \in SUBSET queue[n] : LearnReverse(n, m, lost)
      BY <2>2 DEF AnswerRequest, ForwardRequest
    <3>2. PICK ready \in SUBSET queue[n] :
            /\ queue' = [queue EXCEPT ![n] = @ \ (lost \cup ready)]
            /\ data' = data \cup Frames(n, m.from, ready)
      BY <3>1 DEF LearnReverse, Waiting
    <3>3. m.from \in Node /\ nsent' = nsent
      BY <2>2 DEF AnswerRequest, ForwardRequest, TypeOK, RREQ
    <3> QED BY <3>2, <3>3, LearnDequeues, DequeueOnce
  <2> QED BY <1>4, <2>1, <2>2 DEF recvRequest
<1>5. ASSUME NEW n \in Node, NEW m \in rrep, recvReply(n, m) PROVE Once'
  <2>1. PICK lost \in SUBSET queue[n] : LearnForward(n, m, lost)
    BY <1>5 DEF recvReply, AcceptReply, ForwardReply
  <2>2. PICK ready \in SUBSET queue[n] :
          /\ queue' = [queue EXCEPT ![n] = @ \ (lost \cup ready)]
          /\ data' = data \cup Frames(n, m.from, ready)
    BY <2>1 DEF LearnForward, Waiting
  <2>3. m.from \in Node /\ nsent' = nsent
    BY <1>5 DEF recvReply, AcceptReply, ForwardReply, TypeOK, RREP
  <2> QED BY <2>2, <2>3, LearnDequeues, DequeueOnce
<1>6. ASSUME NEW n \in Node, NEW h \in Node, recvHello(n, h) \/ nb_delete(n, h)
      PROVE  Once'
  BY <1>6, ShrinkOnce DEF recvHello, nb_delete, air, Shrinks
<1>7. ASSUME NEW n \in Node, NEW E \in SUBSET Node, rt_purge(n, E) PROVE Once'
  <2> DEFINE up == {d \in Node : rt[n][d].flags = "UP"}
             hop == [d \in Node |-> rt[n][d].nexthop]
  <2>1. PICK lost \in SUBSET queue[n] :
          /\ queue' = [queue EXCEPT ![n] = {p \in @ \ lost : p.dst \notin up}]
          /\ data' = data \cup UNION
               {Frames(n, rt[n][d].nexthop, Waiting(n, d, lost)) : d \in up \ E}
    BY <1>7 DEF rt_purge
  <2>2. nsent' = nsent /\ hop \in [Node -> Node]
    BY <1>7 DEF rt_purge, TypeOK, Entry
  <2> DEFINE R == {p \in queue[n] : p.dst \in up}
  <2>3. data' \subseteq data \cup {[from |-> n, to |-> hop[p.dst], pkt |-> p] : p \in R}
    <3> SUFFICES ASSUME NEW f \in data', f \notin data
                 PROVE  \E p \in R : f = [from |-> n, to |-> hop[p.dst], pkt |-> p]
      OBVIOUS
    <3>1. PICK d \in up \ E : f \in Frames(n, rt[n][d].nexthop, Waiting(n, d, lost))
      BY <2>1
    <3>2. PICK p \in Waiting(n, d, lost) :
            f = [from |-> n, to |-> rt[n][d].nexthop, pkt |-> p]
      BY <3>1 DEF Frames
    <3>3. p \in R /\ p.dst = d /\ hop[p.dst] = rt[n][d].nexthop
      BY <3>2 DEF Waiting
    <3> QED BY <3>2, <3>3
  <2>4. queue'[n] \subseteq queue[n] \ R /\ \A x \in Node : queue'[x] \subseteq queue[x]
    BY <2>1 DEF TypeOK
  <2> HIDE DEF hop, R
  <2>5. R \subseteq queue[n]
    BY DEF R
  <2> QED BY <2>2, <2>3, <2>4, <2>5, DequeueOnce DEF Dequeues
<1>8. ASSUME NEW n \in Node, id_purge(n) PROVE Once'
  BY <1>8, ShrinkOnce DEF id_purge, air, Shrinks
<1>9. CASE Lose
  BY <1>9, ShrinkOnce DEF Lose, agent, Shrinks
<1>10. CASE UNCHANGED vars
  BY <1>10, ShrinkOnce DEF vars, Shrinks
<1> QED BY <1>1, <1>2, <1>3, <1>4, <1>5, <1>6, <1>7, <1>8, <1>9, <1>10 DEF Next

\* The request, the reply, the route timer and the application all move packets
\* of one buffer: none of them leaves a copy behind or sends one twice.
THEOREM PacketIsOnce == Spec => []PacketOnce
<1>1. Init => Once
  BY DEF Init, Once, PacketOnce, IdsSent
<1>2. Once => PacketOnce
  BY DEF Once
<1> QED BY <1>1, <1>2, OnceStep, TypeCorrect, PTL DEF Spec

-----------------------------------------------------------------------------
(***************************************************************************)
(* The agents implement RouteOrder.                                        *)
(***************************************************************************)

\* The fields of a route.
LEMMA RouteFields ==
  ASSUME NEW e
  PROVE  /\ RouteOf(e).valid <=> e.flags = "UP"
         /\ RouteOf(e).seqno = e.seqno
         /\ RouteOf(e).hops = e.hops
         /\ RouteOf(e).nexthop = e.nexthop
<1>1. RouteOf(e).valid = (e.flags = "UP")
  BY DEF RouteOf
<1> QED BY <1>1 DEF RouteOf

\* The abstract route is what the entry says.
LEMMA TableEntry ==
  ASSUME NEW n \in Node, NEW d \in Node
  PROVE  RouteTable[n][d] = RouteOf(rt[n][d]) /\ RouteTable'[n][d] = RouteOf(rt'[n][d])
BY DEF RouteTable, RouteOf

\* A table of entries is a table of routes.
LEMMA TableType == TypeOK => RouteTable \in [Node -> [Node -> Routes!Route]]
<1> SUFFICES ASSUME TypeOK PROVE RouteTable \in [Node -> [Node -> Routes!Route]]
  OBVIOUS
<1>1. \A n, d \in Node : RouteOf(rt[n][d]) \in Routes!Route
  BY DEF TypeOK, Entry, RouteOf, Routes!Route
<1> QED BY <1>1 DEF RouteTable

\* A handler works on the tables of one node.
LEMMA OneTable ==
  ASSUME TypeOK, Next
  PROVE  \E n \in Node : \A x \in Node \ {n} : rt'[x] = rt[x]
<1> DEFINE Only(n) == \A x \in Node \ {n} : rt'[x] = rt[x]
<1>1. ASSUME NEW n \in Node, NEW d, NEW e, rt' = [rt EXCEPT ![n][d] = e]
      PROVE  Only(n)
  BY <1>1 DEF TypeOK
<1>2. ASSUME NEW n \in Node, NEW t, rt' = [rt EXCEPT ![n] = t]
      PROVE  Only(n)
  BY <1>2 DEF TypeOK
<1>3. ASSUME NEW n \in Node, NEW p, NEW arrived, rt_resolve(n, p, arrived)
      PROVE  Only(n)
  <2>1. CASE ResolveForward(n, p, arrived)
    BY <2>1 DEF ResolveForward, agent
  <2>2. CASE ResolveBuffer(n, p, arrived)
    <3>1. \/ rt' = rt
          \/ \E e, q : sendRequest(n, p.dst, e, q)
      BY <2>2 DEF ResolveBuffer
    <3>2. ASSUME NEW e, NEW q, sendRequest(n, p.dst, e, q)
          PROVE  \E c : rt' = [rt EXCEPT ![n][p.dst] = c]
      BY <3>2 DEF sendRequest, RateLimited, GiveUp, Search
    <3> QED BY <1>1, <3>1, <3>2
  <2>3. CASE ResolveError(n, p, arrived)
    <3>1. rt' = [rt EXCEPT ![n][p.dst] = rt_add(rt[n][p.dst])]
      BY <2>3 DEF ResolveError
    <3> QED BY <1>1, <3>1
  <2> QED BY <1>3, <2>1, <2>2, <2>3 DEF rt_resolve
<1>4. ASSUME NEW s \in Node, NEW d \in Node, Originate(s, d)
      PROVE  Only(s)
  BY <1>3, <1>4 DEF Originate
<1>5. ASSUME NEW n \in Node, NEW f \in data,
             Relay(n, f) \/ Consume(n, f) \/ rt_ll_failed(n, f)
      PROVE  Only(n)
  BY <1>3, <1>5 DEF Relay, Consume, rt_ll_failed, agent
<1>6. ASSUME NEW n \in Node, NEW m \in rreq, recvRequest(n, m)
      PROVE  Only(n)
  <2>1. \/ rt' = rt
        \/ \E lost : LearnReverse(n, m, lost)
    BY <1>6 DEF recvRequest, DiscardRequest, AnswerRequest, ForwardRequest, agent
  <2>2. ASSUME NEW lost, LearnReverse(n, m, lost) PROVE Only(n)
    BY <1>1, <2>2 DEF LearnReverse
  <2> QED BY <2>1, <2>2
<1>7. ASSUME NEW n \in Node, NEW m \in rrep, recvReply(n, m)
      PROVE  Only(n)
  <2>1. PICK lost : LearnForward(n, m, lost)
    BY <1>7 DEF recvReply, AcceptReply, ForwardReply
  <2> QED BY <1>1, <2>1 DEF LearnForward
<1>8. ASSUME NEW n \in Node, NEW h \in Node, recvHello(n, h) \/ nb_delete(n, h)
      PROVE  Only(n)
  <2>1. \/ rt' = rt
        \/ \E t : rt' = [rt EXCEPT ![n] = t]
    BY <1>8 DEF recvHello, nb_delete
  <2> QED BY <1>2, <2>1
<1>9. ASSUME NEW n \in Node, NEW E \in SUBSET Node, rt_purge(n, E)
      PROVE  Only(n)
  <2>1. \E t : rt' = [rt EXCEPT ![n] = t]
    BY <1>9 DEF rt_purge
  <2> QED BY <1>2, <2>1
<1>10. ASSUME NEW n \in Node, id_purge(n)
       PROVE  Only(n)
  BY <1>10 DEF id_purge
<1>11. CASE Lose
  <2>1. rt' = rt
    BY <1>11 DEF Lose, agent
  <2>2. Only(0)
    BY <2>1
  <2> QED BY <2>2, NodeAssumption
<1> QED BY <1>4, <1>5, <1>6, <1>7, <1>8, <1>9, <1>10, <1>11 DEF Next

\* A node keeps its route, adopts a better one or withdraws it.
LEMMA RouteSteps ==
  ASSUME TypeOK, Sound, MessagesCloser, MessagesNumbered, Next,
         NEW n \in Node, NEW d \in Node
  PROVE  \/ RouteTable'[n][d] = RouteTable[n][d]
         \/ Routes!Adopt(n, d, RouteTable'[n][d])
         \/ Routes!Withdraw(n, d, RouteTable'[n][d])
<1> DEFINE r == RouteTable'[n][d]
<1>1. r = RouteOf(rt'[n][d]) /\ RouteTable[n][d] = RouteOf(rt[n][d])
  BY TableEntry
<1>2. CASE Kept(n, d)
  <2>1. (rt'[n][d].flags = "UP") = (rt[n][d].flags = "UP")
    BY <1>2 DEF Kept
  <2> QED BY <1>1, <1>2, <2>1 DEF Kept, RouteOf
<1>3. ASSUME NEW s \in Nat, NEW k \in Nat, NEW h \in Node,
             Learned(n, d, s, k, h), Closer(h, d, s, k), s <= seqno[d]
      PROVE  Routes!Adopt(n, d, r)
  <2>1. r = [valid |-> TRUE, seqno |-> s, hops |-> k, nexthop |-> h]
    BY <1>1, <1>3 DEF Learned, RouteOf
  <2>2. Routes!Better(r, RouteTable[n][d])
    BY <1>1, <1>3, <2>1 DEF Learned, Fresher, RouteOf, Routes!Better
  <2>3. s <= seqno'[d]
    <3>1. seqno'[d] >= seqno[d]
      BY MessageSteps DEF SeqnoStep
    <3>2. seqno[d] \in Nat /\ seqno'[d] \in Nat
      BY TypeStep DEF TypeOK
    <3> QED BY <1>3, <3>1, <3>2
  <2>4. h = d \/ Routes!Better(RouteTable[h][d], r)
    <3>1. RouteTable[h][d] = RouteOf(rt[h][d])
      BY TableEntry
    <3> QED BY <1>3, <2>1, <3>1 DEF Closer, RouteOf, Routes!Better
  <2> QED BY <2>1, <2>2, <2>3, <2>4 DEF Routes!Adopt
<1>4. ASSUME NEW m \in rreq, d = m.src, Learned(n, d, m.srcSeqno, m.hops, m.from)
      PROVE  Routes!Adopt(n, d, r)
  <2>1. m.srcSeqno \in Nat /\ m.hops \in Nat /\ m.from \in Node
    BY DEF TypeOK, RREQ
  <2>2. Closer(m.from, d, m.srcSeqno, m.hops) /\ m.srcSeqno <= seqno[d]
    BY <1>4 DEF MessagesCloser, MessagesNumbered
  <2> QED BY <1>3, <1>4, <2>1, <2>2
<1>5. ASSUME NEW m \in rrep, d = m.dst, Learned(n, d, m.dstSeqno, m.hops, m.from)
      PROVE  Routes!Adopt(n, d, r)
  <2>1. m.dstSeqno \in Nat /\ m.hops \in Nat /\ m.from \in Node
    BY DEF TypeOK, RREP
  <2>2. Closer(m.from, d, m.dstSeqno, m.hops) /\ m.dstSeqno <= seqno[d]
    BY <1>5 DEF MessagesCloser, MessagesNumbered
  <2> QED BY <1>3, <1>5, <2>1, <2>2
<1>6. CASE Dropped(n, d)
  <2>1. rt[n][d].flags = "UP" /\ rt[n][d].seqno \in Nat
    BY <1>6 DEF Dropped, Sound, RoutesSound, RouteSound, TypeOK, Entry
  <2>2. ~r.valid /\ r.seqno = rt[n][d].seqno + 1
    <3>1. rt'[n][d].flags # "UP" /\ rt'[n][d].seqno = rt[n][d].seqno + 1
      BY <1>6 DEF Dropped
    <3> QED BY <1>1, <3>1, RouteFields
  <2>3. RouteTable[n][d].valid /\ RouteTable[n][d].seqno = rt[n][d].seqno
    BY <1>1, <2>1, RouteFields
  <2> QED BY <2>1, <2>2, <2>3 DEF Routes!Withdraw
<1>7. EntryStep(n, d)
  BY EntrySteps, SoundIsFar
<1> QED BY <1>2, <1>4, <1>5, <1>6, <1>7 DEF EntryStep

\* The initial routes, of which none is valid.
LEMMA RoutesInit == Init => Routes!Init
<1> SUFFICES ASSUME Init PROVE Routes!Init
  OBVIOUS
<1>1. TypeOK
  BY NoEntryType DEF Init, TypeOK, AssertLabel
<1>2. \A n, d \in Node : ~RouteTable[n][d].valid
  <2> TAKE n, d \in Node
  <2>1. rt[n][d] = NoEntry
    BY DEF Init
  <2>2. rt[n][d].flags # "UP"
    BY <2>1 DEF NoEntry
  <2> QED BY <2>2, TableEntry, RouteFields
<1> QED BY <1>1, <1>2, TableType DEF Routes!Init, TypeOK

\* A handler of the agent is a handler of RouteOrder, or changes no route.
LEMMA RoutesStep ==
  TypeOK /\ Sound /\ MessagesCloser /\ MessagesNumbered /\ [Next]_vars
    => [Routes!Next]_<<seqno, RouteTable>>
<1> SUFFICES ASSUME TypeOK, Sound, MessagesCloser, MessagesNumbered, [Next]_vars
             PROVE  [Routes!Next]_<<seqno, RouteTable>>
  OBVIOUS
<1>1. CASE UNCHANGED vars
  BY <1>1 DEF vars, RouteTable
<1>2. CASE Next
  <2>1. PICK n \in Node : \A x \in Node \ {n} : rt'[x] = rt[x]
    BY <1>2, OneTable
  <2>2. TypeOK'
    BY TypeStep
  <2>3. /\ seqno' \in [Node -> Nat]
        /\ RouteTable' \in [Node -> [Node -> Routes!Route]]
    <3>1. (RouteTable \in [Node -> [Node -> Routes!Route]])'
      BY <2>2, TableType, PTL
    <3> QED BY <2>2, <3>1 DEF TypeOK, Routes!Route
  <2>4. \A d \in Node : seqno'[d] >= seqno[d]
    BY <1>2, MessageSteps DEF SeqnoStep
  <2>5. \A x \in Node \ {n} : RouteTable'[x] = RouteTable[x]
    BY <2>1 DEF RouteTable
  <2>6. \A d \in Node : \/ RouteTable'[n][d] = RouteTable[n][d]
                        \/ Routes!Adopt(n, d, RouteTable'[n][d])
                        \/ Routes!Withdraw(n, d, RouteTable'[n][d])
    BY <1>2, RouteSteps
  <2>7. Routes!Handle(n)
    BY <2>3, <2>4, <2>5, <2>6 DEF Routes!Handle
  <2> QED BY <2>7 DEF Routes!Next
<1> QED BY <1>1, <1>2

\* AORGLU discovery implements RouteOrder: every handler keeps, adopts or
\* withdraws the routes of one node, in any network.
THEOREM RefinesRouteOrder == Spec => ImplementsRouteOrder
<1>1. Init => MessagesCloser /\ MessagesNumbered /\ NextHopCloser /\ RoutesNumbered
  BY DEF Init, MessagesCloser, MessagesNumbered, NextHopCloser, RoutesNumbered,
         Numbered, NoEntry
<1>2. TypeOK /\ Sound /\ RoutesNumbered /\ MessagesNumbered /\ [Next]_vars
        => RoutesNumbered' /\ MessagesNumbered'
  <2>1. UNCHANGED vars /\ RoutesNumbered /\ MessagesNumbered
          => RoutesNumbered' /\ MessagesNumbered'
    BY DEF vars, RoutesNumbered, MessagesNumbered
  <2> QED BY <2>1, NumberedStep, SoundIsFar
<1> QED BY <1>1, <1>2, RoutesInit, RoutesStep, LoopStep, TypeCorrect, Soundness, PTL
        DEF Spec, ImplementsRouteOrder, Routes!Spec

Order == INSTANCE RouteOrder_proofs WITH issued <- seqno, route <- RouteTable

\* No routing loop, whatever is lost, delayed or overtaken: of any nodes with
\* valid routes to a destination one has its next hop outside.
THEOREM NoRoutingLoop == Spec => []Routes!NoLoop
<1>1. Routes!Init <=> Order!Init
  BY DEF Routes!Init, Order!Init, Routes!Route, Order!Route
<1>2. Routes!Next <=> Order!Next
  BY DEF Routes!Next, Order!Next, Routes!Handle, Order!Handle, Routes!Adopt, Order!Adopt,
         Routes!Withdraw, Order!Withdraw, Routes!Better, Order!Better,
         Routes!Route, Order!Route
<1>3. Routes!NoLoop <=> Order!NoLoop
  BY DEF Routes!NoLoop, Order!NoLoop
<1> QED BY <1>1, <1>2, <1>3, RefinesRouteOrder, Order!OrderedRoutes, PTL
        DEF ImplementsRouteOrder, Routes!Spec, Order!Spec
=============================================================================
