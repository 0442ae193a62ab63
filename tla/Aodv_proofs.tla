----------------------------- MODULE Aodv_proofs -----------------------------
(***************************************************************************)
(* Proofs about Aodv, built with AODV_LOCAL_REPAIR or without it.  The     *)
(* last part is about behaviours, or the part of one up to some point, in  *)
(* which no local repair is begun, where routes only ever improve.         *)
(***************************************************************************)
EXTENDS Aodv, FiniteSetTheorems, TLAPS

\* The larger of two numbers is a number.
LEMMA LargerNat == \A a, b \in Nat : Larger(a, b) \in Nat
BY DEF Larger

\* The operators on route table entries return entries.
LEMMA NoEntryType == NoEntry \in Entry
BY NodeAssumption, ConstantAssumption DEF NoEntry, Entry

\* rt_add returns an entry.
LEMMA AddType == \A e \in Entry : rt_add(e) \in Entry
BY DEF rt_add, Entry

\* rt_update returns an entry.
LEMMA UpdateType ==
  \A e \in Entry, s, h \in Nat, hop \in Node : rt_update(e, s, h, hop) \in Entry
BY DEF rt_update, Entry

\* rt_down returns an entry.
LEMMA DownType == \A e \in Entry : rt_down(e) \in Entry
BY NodeAssumption, ConstantAssumption DEF rt_down, Entry

\* Invalidating a route returns an entry.
LEMMA InvalidateType == \A e \in Entry : Invalidate(e) \in Entry
<1> SUFFICES ASSUME NEW e \in Entry PROVE Invalidate(e) \in Entry
  OBVIOUS
<1>1. [e EXCEPT !.seqno = @ + 1] \in Entry
  BY DEF Entry
<1> QED BY <1>1, DownType DEF Invalidate

\* Losing a neighbour leaves entries.
LEMMA DropType ==
  ASSUME NEW e \in Entry, NEW n, NEW h PROVE DropNeighbour(n, h, e) \in Entry
<1> DEFINE c == IF Usable(e) /\ e.nexthop = h THEN Invalidate(e) ELSE e
<1>1. c \in Entry
  BY InvalidateType
<1>2. DropNeighbour(n, h, e) = [c EXCEPT !.pc = @ \ {h}]
  BY DEF DropNeighbour
<1> HIDE DEF c
<1> QED BY <1>1, <1>2 DEF Entry

\* sendRequest computes a positive TTL, of NETWORK_DIAMETER at most.
LEMMA RequestTtlType ==
  \A e \in Entry : RequestTtl(e) \in 1..NETWORK_DIAMETER /\ RequestTtl(e) \in Nat \ {0}
BY ConstantAssumption DEF RequestTtl, LastTtl, Larger, Entry

\* Starting a search returns an entry.
LEMMA SearchingType == \A e \in Entry : Searching(e) \in Entry
<1> SUFFICES ASSUME NEW e \in Entry PROVE Searching(e) \in Entry
  OBVIOUS
<1>1. RequestTtl(e) \in Nat
  BY RequestTtlType
<1>2. PICK c \in Nat : Searching(e) =
        [e EXCEPT !.reqTtl = RequestTtl(e), !.reqWait = TRUE, !.reqCnt = c]
  <2>1. e.reqCnt \in Nat /\ e.reqCnt + 1 \in Nat
    BY DEF Entry
  <2>2. CASE LastTtl(e) >= TTL_THRESHOLD
    <3>1. Searching(e) = [e EXCEPT !.reqTtl = RequestTtl(e), !.reqWait = TRUE,
                                   !.reqCnt = e.reqCnt + 1]
      BY <2>2, Zenon DEF Searching
    <3> QED BY <2>1, <3>1
  <2>3. CASE ~(LastTtl(e) >= TTL_THRESHOLD)
    <3>1. Searching(e) = [e EXCEPT !.reqTtl = RequestTtl(e), !.reqWait = TRUE,
                                   !.reqCnt = e.reqCnt]
      BY <2>3, Zenon DEF Searching
    <3> QED BY <2>1, <3>1
  <2> QED BY <2>2, <2>3
<1> QED BY <1>1, <1>2 DEF Entry

\* Learning a reverse route returns an entry.
LEMMA ReverseType == \A e \in Entry, m \in RREQ : ReverseRoute(e, m) \in Entry
<1> SUFFICES ASSUME NEW e \in Entry, NEW m \in RREQ
             PROVE  ReverseRoute(e, m) \in Entry
  OBVIOUS
<1>1. rt_update(e, m.srcSeqno, m.hops, m.from) \in Entry /\ m.hops \in Nat
  BY UpdateType DEF RREQ
<1>2. SearchOver(rt_update(e, m.srcSeqno, m.hops, m.from), m.hops) \in Entry
  BY <1>1 DEF SearchOver, Entry
<1> QED BY <1>1, <1>2 DEF ReverseRoute

\* Learning a forward route returns an entry.
LEMMA ForwardType == \A e \in Entry, m \in RREP : ForwardRoute(e, m) \in Entry
<1> SUFFICES ASSUME NEW e \in Entry, NEW m \in RREP
             PROVE  ForwardRoute(e, m) \in Entry
  OBVIOUS
<1>1. rt_update(e, m.dstSeqno, m.hops, m.from) \in Entry /\ m.hops \in Nat
  BY UpdateType DEF RREP
<1>2. SearchOver(rt_update(e, m.dstSeqno, m.hops, m.from), m.hops) \in Entry
  BY <1>1 DEF SearchOver, Entry
<1> QED BY <1>1, <1>2 DEF ForwardRoute

\* The number of a reply is even, and larger than both it is made from.
LEMMA ReplySeqnoType ==
  \A a, b \in Nat : /\ ReplySeqno(a, b) \in Nat
                    /\ ReplySeqno(a, b) % 2 = 0
                    /\ ReplySeqno(a, b) > a
                    /\ ReplySeqno(a, b) > b
BY DEF ReplySeqno, Larger

\* forward() of packets makes frames.
LEMMA FramesType ==
  ASSUME NEW n \in Node, NEW hop \in Node, NEW P \in SUBSET Packet
  PROVE  Frames(n, hop, P) \subseteq Frame
BY DEF Frames, Frame

\* A broadcast request makes requests.
LEMMA BroadcastType ==
  ASSUME NEW m \in RREQ, NEW n \in Node
  PROVE  Broadcast(m, n) \subseteq RREQ
BY DEF Broadcast, RREQ, Neighbours

\* sendError makes route errors.
LEMMA ErrorType ==
  ASSUME NEW n \in Node, NEW U \in SUBSET (Node \X Nat)
  PROVE  sendError(n, U) \subseteq RERR
BY DEF sendError, Broadcast, RERR, Neighbours

\* What a relayed packet becomes.
LEMMA RelayedType ==
  ASSUME NEW p \in Packet, p.ttl - 1 # 0
  PROVE  /\ [p EXCEPT !.ttl = @ - 1] \in Packet
         /\ [p EXCEPT !.ttl = @ - 1].id = p.id
BY DEF Packet

\* What sendRequest may do keeps the types.
LEMMA SendType ==
  ASSUME TypeOK, NEW n \in Node, NEW d \in Node, NEW e \in Entry,
         NEW q \in SUBSET Packet, sendRequest(n, d, e, q)
  PROVE  /\ seqno' \in [Node -> Nat] /\ bid' \in [Node -> Nat]
         /\ rt' \in [Node -> [Node -> Entry]]
         /\ queue' \in [Node -> SUBSET Packet]
         /\ rreq' \subseteq RREQ
         /\ failed' \subseteq AssertLabel
<1>1. CASE RateLimited(n, d, e, q)
  BY <1>1 DEF RateLimited, TypeOK
<1>2. CASE GiveUp(n, d, e, q)
  <2>1. [e EXCEPT !.reqCnt = 0, !.reqWait = TRUE] \in Entry
    BY DEF Entry
  <2> QED BY <1>2, <2>1 DEF GiveUp, TypeOK
<1>3. CASE Search(n, d, e, q)
  <2>1. Searching(e) \in Entry /\ RequestTtl(e) \in Nat \ {0}
    BY SearchingType, RequestTtlType
  <2>2. rreq' \subseteq RREQ
    <3> DEFINE m == [from |-> n, to |-> n, src |-> n, bid |-> bid[n],
                     dst |-> d, srcSeqno |-> seqno[n] + 2,
                     dstSeqno |-> e.seqno, hops |-> 1, ttl |-> RequestTtl(e)]
    <3>1. rreq' = rreq \cup Broadcast(m, n)
      BY <1>3 DEF Search
    <3>2. m \in RREQ
      BY <2>1 DEF TypeOK, RREQ, Entry
    <3> QED BY <3>1, <3>2, BroadcastType DEF TypeOK
  <2> QED BY <1>3, <2>1, <2>2 DEF Search, TypeOK, Assert, AssertLabel
<1> QED BY <1>1, <1>2, <1>3 DEF sendRequest

\* What rt_resolve may do keeps the types.
LEMMA ResolveType ==
  ASSUME TypeOK, NEW n \in Node, NEW p \in Packet, NEW arrived,
         rt_resolve(n, p, arrived), nsent' \in Nat
  PROVE  TypeOK'
<1> DEFINE d == p.dst
           e == rt_add(rt[n][d])
<1>1. d \in Node /\ p.src \in Node /\ rt[n][d] \in Entry /\ e \in Entry
  BY AddType DEF TypeOK, Packet
<1>2. CASE ResolveForward(n, p, arrived)
  <2>1. Frames(n, rt[n][d].nexthop, {p}) \subseteq Frame
    BY <1>1, FramesType DEF Entry
  <2> QED BY <1>2, <2>1 DEF ResolveForward, TypeOK, Assert, AssertLabel
<1>3. CASE ResolveSearch(n, p, arrived)
  <2>1. PICK lost \in SUBSET queue[n] :
          sendRequest(n, d, e, (queue[n] \ lost) \cup {p})
    BY <1>3 DEF ResolveSearch
  <2>2. (queue[n] \ lost) \cup {p} \in SUBSET Packet
    BY DEF TypeOK
  <2>3. data' \subseteq Frame /\ UNCHANGED <<ids, repair, rrep, rerr>>
    BY <1>3 DEF ResolveSearch, TypeOK
  <2> HIDE DEF e
  <2> QED BY <1>1, <2>1, <2>2, <2>3, SendType DEF TypeOK
<1>4. CASE ResolveRepair(n, p, arrived)
  BY <1>4 DEF ResolveRepair, TypeOK
<1>5. CASE ResolveError(n, p, arrived)
  <2>1. {<<d, e.seqno>>} \in SUBSET (Node \X Nat)
    BY <1>1 DEF Entry
  <2>2. sendError(n, {<<d, e.seqno>>}) \subseteq RERR
    BY <2>1, ErrorType
  <2> QED BY <1>1, <1>5, <2>2 DEF ResolveError, TypeOK, Assert, AssertLabel
<1> QED BY <1>2, <1>3, <1>4, <1>5 DEF rt_resolve

\* The routes a request leaves n with.
LEMMA WithReverseType ==
  ASSUME TypeOK, NEW n \in Node, NEW m \in RREQ
  PROVE  WithReverse(n, m) \in [Node -> Entry]
<1>1. rt_add(rt[n][m.src]) \in Entry /\ m.src \in Node
  BY AddType DEF TypeOK, RREQ
<1>2. ReverseRoute(rt_add(rt[n][m.src]), m) \in Entry
  BY <1>1, ReverseType
<1> QED BY <1>2 DEF WithReverse, TypeOK

\* The routes a reply leaves n with.
LEMMA WithForwardType ==
  ASSUME TypeOK, NEW n \in Node, NEW m \in RREP
  PROVE  WithForward(n, m) \in [Node -> Entry]
<1>1. rt_add(rt[n][m.dst]) \in Entry /\ m.dst \in Node
  BY AddType DEF TypeOK, RREP
<1>2. ForwardRoute(rt_add(rt[n][m.dst]), m) \in Entry
  BY <1>1, ForwardType
<1> QED BY <1>2 DEF WithForward, TypeOK

\* What recvRequest learns keeps the types.
LEMMA LearnReverseType ==
  ASSUME TypeOK, NEW n \in Node, NEW m \in rreq, NEW table \in [Node -> Entry],
         LearnReverse(n, m, table)
  PROVE  /\ ids' \in [Node -> SUBSET (Node \X Nat)]
         /\ rt' \in [Node -> [Node -> Entry]]
         /\ queue' \in [Node -> SUBSET Packet]
         /\ data' \subseteq Frame
<1>1. m.from \in Node /\ m.src \in Node /\ m.bid \in Nat
  BY DEF TypeOK, RREQ
<1>2. /\ ids' = [ids EXCEPT ![n] = @ \cup {<<m.src, m.bid>>}]
      /\ rt' = [rt EXCEPT ![n] = table]
  BY DEF LearnReverse
<1>3. \/ UNCHANGED <<queue, data>>
      \/ \E lost \in SUBSET queue[n] :
            LET ready == Waiting(n, m.src, lost)
            IN /\ queue' = [queue EXCEPT ![n] = @ \ (lost \cup ready)]
               /\ data' = data \cup Frames(n, m.from, ready)
  BY DEF LearnReverse
<1>4. ASSUME NEW lost \in SUBSET queue[n]
      PROVE  Frames(n, m.from, Waiting(n, m.src, lost)) \subseteq Frame
  <2>1. Waiting(n, m.src, lost) \in SUBSET Packet
    BY DEF Waiting, TypeOK
  <2> QED BY <1>1, <2>1, FramesType
<1>5. queue' \in [Node -> SUBSET Packet] /\ data' \subseteq Frame
  BY <1>3, <1>4 DEF TypeOK
<1>6. ids' \in [Node -> SUBSET (Node \X Nat)]
  BY <1>1, <1>2 DEF TypeOK
<1>7. rt' \in [Node -> [Node -> Entry]]
  BY <1>2 DEF TypeOK
<1> QED BY <1>5, <1>6, <1>7

\* What recvReply learns keeps the types.
LEMMA LearnForwardType ==
  ASSUME TypeOK, NEW n \in Node, NEW m \in rrep, NEW table \in [Node -> Entry],
         LearnForward(n, m, table)
  PROVE  /\ rt' \in [Node -> [Node -> Entry]]
         /\ queue' \in [Node -> SUBSET Packet]
         /\ data' \subseteq Frame
<1>1. m.from \in Node /\ m.dst \in Node
  BY DEF TypeOK, RREP
<1>2. rt' = [rt EXCEPT ![n] = table]
  BY DEF LearnForward
<1>3. \/ UNCHANGED <<queue, data>>
      \/ \E lost \in SUBSET queue[n] :
            LET ready == Waiting(n, m.dst, lost)
            IN /\ queue' = [queue EXCEPT ![n] = @ \ (lost \cup ready)]
               /\ data' = data \cup Frames(n, m.from, ready)
  BY DEF LearnForward
<1>4. ASSUME NEW lost \in SUBSET queue[n]
      PROVE  Frames(n, m.from, Waiting(n, m.dst, lost)) \subseteq Frame
  <2>1. Waiting(n, m.dst, lost) \in SUBSET Packet
    BY DEF Waiting, TypeOK
  <2> QED BY <1>1, <2>1, FramesType
<1>5. queue' \in [Node -> SUBSET Packet] /\ data' \subseteq Frame
  BY <1>3, <1>4 DEF TypeOK
<1> QED BY <1>2, <1>5 DEF TypeOK

\* sendReply makes a reply.
LEMMA SendReplyType ==
  ASSUME TypeOK, NEW n \in Node, NEW m \in RREQ, NEW s \in Nat, NEW h \in Nat
  PROVE  sendReply(n, m, s, h) \subseteq RREP
<1>1. WithReverse(n, m)[m.src].nexthop \in Node /\ m.src \in Node /\ m.dst \in Node
  BY WithReverseType DEF Entry, RREQ
<1> QED BY <1>1, ConstantAssumption DEF sendReply, RREP

\* Changing the precursors of an entry leaves an entry.
LEMMA PrecursorType ==
  ASSUME NEW e \in Entry, NEW P \in SUBSET Node
  PROVE  [e EXCEPT !.pc = @ \cup P] \in Entry /\ [e EXCEPT !.pc = {}] \in Entry
BY DEF Entry

\* A new precursor leaves routes.
LEMMA InsertType ==
  ASSUME NEW T \in [Node -> Entry], NEW d \in Node, NEW h \in Node
  PROVE  pc_insert(T, d, h) \in [Node -> Entry]
<1>1. pc_insert(T, d, h) = [T EXCEPT ![d] = [T[d] EXCEPT !.pc = @ \cup {h}]]
  BY DEF pc_insert
<1>2. [T[d] EXCEPT !.pc = @ \cup {h}] \in Entry
  BY PrecursorType
<1> QED BY <1>1, <1>2

\* recvRequest keeps the types.
LEMMA RequestType ==
  ASSUME TypeOK, NEW n \in Node, NEW m \in rreq, recvRequest(n, m)
  PROVE  TypeOK'
<1> DEFINE W == WithReverse(n, m)
<1>1. m \in RREQ /\ m.src \in Node /\ m.dst \in Node /\ m.dstSeqno \in Nat
  BY DEF TypeOK, RREQ
<1>2. W \in [Node -> Entry]
  BY <1>1, WithReverseType
<1> HIDE DEF W
<1>3. CASE DiscardRequest(n, m)
  BY <1>3 DEF DiscardRequest, TypeOK
<1>4. CASE AnswerRequest(n, m)
  <2> DEFINE s == ReplySeqno(seqno[n], m.dstSeqno)
  <2>1. s \in Nat
    BY <1>1, ReplySeqnoType DEF TypeOK
  <2>2. /\ LearnReverse(n, m, W) /\ seqno' = [seqno EXCEPT ![n] = s]
        /\ rreq' = rreq \ {m} /\ rrep' = rrep \cup sendReply(n, m, s, 1)
        /\ UNCHANGED <<bid, repair, rerr, nsent, failed>>
    BY <1>4 DEF AnswerRequest, W
  <2> HIDE DEF s
  <2>3. rrep' \subseteq RREP
    BY <1>1, <2>1, <2>2, SendReplyType DEF TypeOK
  <2> QED BY <1>2, <2>1, <2>2, <2>3, LearnReverseType DEF TypeOK
<1>5. CASE AnswerFromRoute(n, m)
  <2> DEFINE T == pc_insert(pc_insert(W, m.dst, W[m.src].nexthop),
                            m.src, W[m.dst].nexthop)
  <2>1. /\ LearnReverse(n, m, T)
        /\ rreq' = rreq \ {m}
        /\ rrep' = rrep \cup sendReply(n, m, W[m.dst].seqno, W[m.dst].hops + 1)
        /\ UNCHANGED <<seqno, bid, repair, rerr, nsent, failed>>
    BY <1>5 DEF AnswerFromRoute, W
  <2>2. /\ W[m.src].nexthop \in Node /\ W[m.dst].nexthop \in Node
        /\ W[m.dst].seqno \in Nat /\ W[m.dst].hops + 1 \in Nat
    BY <1>1, <1>2 DEF Entry
  <2>3. T \in [Node -> Entry]
    BY <1>1, <1>2, <2>2, InsertType
  <2>4. rrep' \subseteq RREP
    BY <1>1, <2>1, <2>2, SendReplyType DEF TypeOK
  <2> HIDE DEF T
  <2> QED BY <2>1, <2>3, <2>4, LearnReverseType DEF TypeOK
<1>6. CASE ForwardRequest(n, m)
  <2> DEFINE c == [m EXCEPT !.hops = @ + 1, !.ttl = @ - 1,
                            !.dstSeqno = Larger(W[m.dst].seqno, @)]
  <2>1. /\ LearnReverse(n, m, W)
        /\ rreq' = (rreq \ {m}) \cup IF m.ttl = 1 THEN {} ELSE Broadcast(c, n)
        /\ UNCHANGED <<seqno, bid, repair, rrep, rerr, nsent, failed>>
    BY <1>6, Zenon DEF ForwardRequest, W
  <2>2. rreq' \subseteq RREQ
    <3>1. CASE m.ttl = 1
      BY <2>1, <3>1 DEF TypeOK
    <3>2. CASE m.ttl # 1
      <4>1. Larger(W[m.dst].seqno, m.dstSeqno) \in Nat
        BY <1>1, <1>2, LargerNat DEF Entry
      <4>2. m.ttl - 1 \in Nat \ {0} /\ m.hops + 1 \in Nat
        BY <1>1, <3>2 DEF RREQ
      <4>3. c \in RREQ
        BY <1>1, <4>1, <4>2 DEF RREQ
      <4> HIDE DEF c
      <4> QED BY <2>1, <3>2, <4>3, BroadcastType DEF TypeOK
    <3> QED BY <3>1, <3>2
  <2> QED BY <1>2, <2>1, <2>2, LearnReverseType DEF TypeOK
<1> QED BY <1>3, <1>4, <1>5, <1>6 DEF recvRequest

\* recvReply keeps the types.
LEMMA ReplyType ==
  ASSUME TypeOK, NEW n \in Node, NEW m \in rrep, recvReply(n, m)
  PROVE  TypeOK'
<1> DEFINE W == WithForward(n, m)
<1>1. m \in RREP /\ m.dst \in Node /\ m.ipdst \in Node
  BY DEF TypeOK, RREP
<1>2. W \in [Node -> Entry]
  BY <1>1, WithForwardType
<1> HIDE DEF W
<1>3. CASE AcceptReply(n, m)
  <2>1. /\ LearnForward(n, m, W) /\ rrep' = rrep \ {m}
        /\ UNCHANGED <<seqno, bid, ids, repair, rreq, rerr, nsent, failed>>
    BY <1>3 DEF AcceptReply, W
  <2> QED BY <1>2, <2>1, LearnForwardType DEF TypeOK
<1>4. CASE ForwardReply(n, m)
  <2> DEFINE back == W[m.ipdst]
             next == [m EXCEPT !.from = n, !.to = back.nexthop,
                               !.hops = @ + 1, !.ttl = @ - 1]
             T == pc_insert(W, m.dst, back.nexthop)
  <2>1. /\ LearnForward(n, m, T)
        /\ rrep' = (rrep \ {m}) \cup IF next.ttl = 0 THEN {} ELSE {next}
        /\ failed' = failed \cup Assert(back.flags = "UP", "recvReply")
        /\ UNCHANGED <<seqno, bid, ids, repair, rreq, rerr, nsent>>
    BY <1>4, Zenon DEF ForwardReply, W
  <2>2. back.nexthop \in Node
    BY <1>1, <1>2 DEF Entry
  <2>3. T \in [Node -> Entry]
    BY <1>1, <1>2, <2>2, InsertType
  <2> HIDE DEF T, back
  <2>4. next.ttl = 0 \/ next \in RREP
    <3>1. m.hops + 1 \in Nat /\ m.ttl - 1 \in Nat /\ next.ttl = m.ttl - 1
      BY <1>1 DEF RREP
    <3> QED BY <1>1, <2>2, <3>1 DEF RREP
  <2>5. rrep' \subseteq RREP
    BY <2>1, <2>4 DEF TypeOK
  <2>6. failed' \subseteq AssertLabel
    BY <2>1 DEF TypeOK, Assert, AssertLabel
  <2> QED BY <2>1, <2>3, <2>5, <2>6, LearnForwardType DEF TypeOK
<1> QED BY <1>3, <1>4 DEF recvReply

\* Giving up a neighbour keeps the types.
LEMMA BreakType ==
  ASSUME TypeOK, NEW n \in Node, NEW f \in data, BreakLink(n, f)
  PROVE  TypeOK'
<1> DEFINE lost == Through(n, f.to)
           U == {<<d, rt'[n][d].seqno>> : d \in lost}
<1>1. /\ seqno' = [seqno EXCEPT ![n] = @ + 2]
      /\ rt' = [rt EXCEPT ![n] = [d \in Node |-> DropNeighbour(n, f.to, @[d])]]
      /\ rerr' = rerr \cup sendError(n, U)
      /\ filter(n, f.to)
      /\ UNCHANGED <<bid, ids, queue, repair, rreq, nsent>>
  BY DEF BreakLink
<1>2. failed' \subseteq AssertLabel
  BY DEF BreakLink, TypeOK, Assert, AssertLabel
<1>3. rt' \in [Node -> [Node -> Entry]]
  <2>1. \A d \in Node : DropNeighbour(n, f.to, rt[n][d]) \in Entry
    BY DropType DEF TypeOK
  <2> QED BY <1>1, <2>1 DEF TypeOK
<1>4. U \in SUBSET (Node \X Nat)
  BY <1>3 DEF Entry, Through
<1> HIDE DEF U
<1>5. rerr' \subseteq RERR
  BY <1>1, <1>4, ErrorType DEF TypeOK
<1> QED BY <1>1, <1>2, <1>3, <1>5 DEF TypeOK, filter

\* A local repair keeps the types.
LEMMA RepairType ==
  ASSUME TypeOK, NEW n \in Node, NEW f \in data, local_rt_repair(n, f)
  PROVE  TypeOK'
<1> DEFINE d == f.pkt.dst
           e == [rt[n][d] EXCEPT !.flags = "IN_REPAIR"]
<1>1. f.pkt \in Packet /\ d \in Node
  BY DEF TypeOK, Frame, Packet
<1>2. e \in Entry
  <2>1. rt[n][d] \in Entry
    BY <1>1 DEF TypeOK
  <2> QED BY <2>1 DEF Entry
<1>3. PICK lost \in SUBSET queue[n] :
        sendRequest(n, d, e, (queue[n] \ lost) \cup {f.pkt})
  BY DEF local_rt_repair
<1>4. (queue[n] \ lost) \cup {f.pkt} \in SUBSET Packet
  BY <1>1 DEF TypeOK
<1>5. /\ data' \subseteq Frame /\ repair' \in [Node -> [Node -> Nat]]
      /\ UNCHANGED <<ids, rrep, rerr, nsent>>
  BY <1>1 DEF local_rt_repair, TypeOK
<1> HIDE DEF e, d
<1> QED BY <1>1, <1>2, <1>3, <1>4, <1>5, SendType DEF TypeOK

\* What a route error makes of n's route to d.
Errors(n, m, d) ==
  IF \E u \in Hit(n, m) : u[1] = d
  THEN LET u == CHOOSE u \in Hit(n, m) : u[1] = d
       IN [rt_down([rt[n][d] EXCEPT !.seqno = u[2]]) EXCEPT !.pc = {}]
  ELSE rt[n][d]

\* recvError keeps the types.
LEMMA RecvErrorType ==
  ASSUME TypeOK, NEW n \in Node, NEW m \in rerr, recvError(n, m)
  PROVE  TypeOK'
<1>1. m \in RERR /\ m.unreachable \in SUBSET (Node \X Nat)
  BY DEF TypeOK, RERR
<1>2. Hit(n, m) \in SUBSET (Node \X Nat) /\ Reported(n, m) \in SUBSET (Node \X Nat)
  BY <1>1 DEF Hit, Reported
<1>3. rt' = [rt EXCEPT ![n] = [d \in Node |-> Errors(n, m, d)]]
  BY DEF recvError, Errors, TypeOK
<1>4. ASSUME NEW d \in Node PROVE Errors(n, m, d) \in Entry
  <2>1. rt[n][d] \in Entry
    BY DEF TypeOK
  <2>2. CASE \E u \in Hit(n, m) : u[1] = d
    <3> DEFINE u == CHOOSE u \in Hit(n, m) : u[1] = d
    <3>1. u[2] \in Nat
      BY <1>2, <2>2
    <3>2. [rt[n][d] EXCEPT !.seqno = u[2]] \in Entry
      BY <2>1, <3>1 DEF Entry
    <3>3. rt_down([rt[n][d] EXCEPT !.seqno = u[2]]) \in Entry
      BY <3>2, DownType
    <3> QED BY <2>2, <3>3, PrecursorType DEF Errors
  <2> QED BY <2>1, <2>2 DEF Errors
<1>5. rt' \in [Node -> [Node -> Entry]]
  BY <1>3, <1>4 DEF TypeOK
<1>6. rerr' \subseteq RERR
  BY <1>2, ErrorType DEF recvError, TypeOK
<1>7. data' \subseteq Frame /\ rrep' \subseteq RREP
  BY DEF recvError, filter, TypeOK
<1>8. failed' \subseteq AssertLabel
  BY DEF recvError, TypeOK, Assert, AssertLabel
<1> QED BY <1>5, <1>6, <1>7, <1>8 DEF recvError, TypeOK

\* The timers keep the types.
LEMMA TimerType ==
  ASSUME TypeOK, NEW n \in Node, NEW d \in Node,
         LocalRepairTimer(n, d) \/ rt_purge(n, d)
  PROVE  TypeOK'
<1>1. rt[n][d] \in Entry
  BY DEF TypeOK
<1>2. CASE LocalRepairTimer(n, d)
  <2>1. rt' \in [Node -> [Node -> Entry]]
    <3>1. rt_down(rt[n][d]) \in Entry
      BY <1>1, DownType
    <3> QED BY <1>2, <3>1 DEF LocalRepairTimer, TypeOK
  <2>2. repair' \in [Node -> [Node -> Nat]]
    BY <1>2 DEF LocalRepairTimer, TypeOK
  <2> QED BY <1>2, <2>1, <2>2 DEF LocalRepairTimer, TypeOK
<1>3. CASE PurgeExpired(n, d)
  <2>1. Invalidate(rt[n][d]) \in Entry
    BY <1>1, InvalidateType
  <2> QED BY <1>3, <2>1 DEF PurgeExpired, TypeOK, Assert, AssertLabel
<1>4. CASE PurgeForward(n, d)
  <2>1. ASSUME NEW lost \in SUBSET queue[n]
        PROVE  Frames(n, rt[n][d].nexthop, Waiting(n, d, lost)) \subseteq Frame
    <3>1. Waiting(n, d, lost) \in SUBSET Packet /\ rt[n][d].nexthop \in Node
      BY <1>1 DEF Waiting, TypeOK, Entry
    <3> QED BY <3>1, FramesType
  <2>2. data' \subseteq Frame
    BY <1>4, <2>1 DEF PurgeForward, TypeOK
  <2>3. queue' \in [Node -> SUBSET Packet]
    BY <1>4 DEF PurgeForward, TypeOK
  <2> QED BY <1>4, <2>2, <2>3 DEF PurgeForward, TypeOK
<1>5. CASE PurgeSearch(n, d)
  <2>1. sendRequest(n, d, rt[n][d], queue[n]) /\ queue[n] \in SUBSET Packet
        /\ UNCHANGED <<ids, repair, rrep, rerr, data, nsent>>
    BY <1>5 DEF PurgeSearch, TypeOK
  <2> QED BY <1>1, <2>1, SendType DEF TypeOK
<1> QED BY <1>2, <1>3, <1>4, <1>5 DEF rt_purge

\* A packet the application sends.
Fresh(s, d) == [id |-> nsent + 1, src |-> s, dst |-> d, ttl |-> NETWORK_DIAMETER]

\* The application's packet is resolved at its source.
LEMMA OriginateResolves ==
  ASSUME TypeOK, NEW s \in Node, NEW d \in Node, Originate(s, d)
  PROVE  /\ Fresh(s, d) \in Packet /\ Fresh(s, d).id = nsent + 1
         /\ rt_resolve(s, Fresh(s, d), {})
         /\ nsent' = nsent + 1 /\ nsent' \in Nat
BY ConstantAssumption DEF Originate, Fresh, Packet, TypeOK

\* A relayed packet is resolved at the relay.
LEMMA RelayResolves ==
  ASSUME TypeOK, NEW n \in Node, NEW f \in data, Relay(n, f)
  PROVE  \E p \in Packet : /\ rt_resolve(n, p, {f})
                           /\ p.id = f.pkt.id
                           /\ nsent' = nsent
<1>1. f.pkt \in Packet
  BY DEF TypeOK, Frame
<1>2. f.pkt.ttl - 1 # 0
  BY <1>1 DEF Relay, Packet
<1> QED BY <1>1, <1>2, RelayedType DEF Relay

\* Every step keeps the types.
LEMMA TypeStep == TypeOK /\ [Next]_vars => TypeOK'
<1> SUFFICES ASSUME TypeOK, [Next]_vars PROVE TypeOK'
  OBVIOUS
<1>1. ASSUME NEW s \in Node, NEW d \in Node, Originate(s, d) PROVE TypeOK'
  BY <1>1, OriginateResolves, ResolveType
<1>2. ASSUME NEW n \in Node, NEW f \in data, Relay(n, f) PROVE TypeOK'
  BY <1>2, RelayResolves, ResolveType DEF TypeOK
<1>3. ASSUME NEW n \in Node, NEW f \in data, Consume(n, f) PROVE TypeOK'
  BY <1>3 DEF Consume, TypeOK
<1>4. ASSUME NEW n \in Node, NEW f \in data, rt_ll_failed(n, f) PROVE TypeOK'
  BY <1>4, BreakType, RepairType DEF rt_ll_failed
<1>5. ASSUME NEW n \in Node, NEW m \in rreq, recvRequest(n, m) PROVE TypeOK'
  BY <1>5, RequestType
<1>6. ASSUME NEW n \in Node, NEW m \in rrep, recvReply(n, m) PROVE TypeOK'
  BY <1>6, ReplyType
<1>7. ASSUME NEW n \in Node, NEW m \in rerr, recvError(n, m) PROVE TypeOK'
  BY <1>7, RecvErrorType
<1>8. ASSUME NEW n \in Node, NEW d \in Node, LocalRepairTimer(n, d) \/ rt_purge(n, d)
      PROVE  TypeOK'
  BY <1>8, TimerType
<1>9. ASSUME NEW n \in Node, id_purge(n) PROVE TypeOK'
  BY <1>9 DEF id_purge, TypeOK
<1>10. CASE UNCHANGED vars
  BY <1>10 DEF vars, TypeOK
<1> QED BY <1>1, <1>2, <1>3, <1>4, <1>5, <1>6, <1>7, <1>8, <1>9, <1>10 DEF Next

\* Type correctness: every entry, message, frame and buffered packet of every
\* build is of its kind, and only the assertions named can fail.
THEOREM TypeCorrect == Spec => []TypeOK
<1>1. Init => TypeOK
  BY NoEntryType DEF Init, TypeOK, AssertLabel
<1> QED BY <1>1, TypeStep, PTL DEF Spec

-----------------------------------------------------------------------------
(***************************************************************************)
(* What one step can do to a route table entry, to the messages on the air *)
(* and to a sequence number.  All later proofs go by these cases and not   *)
(* by the actions.                                                         *)
(***************************************************************************)
\* Nothing but an entry's precursors and its search may differ.
SameRoute(c, e) ==
  /\ c.seqno = e.seqno /\ c.hops = e.hops
  /\ c.nexthop = e.nexthop /\ c.flags = e.flags

Kept(n, d) ==
  /\ rt'[n][d].seqno = rt[n][d].seqno
  /\ rt'[n][d].hops = rt[n][d].hops
  /\ rt'[n][d].nexthop = rt[n][d].nexthop
  /\ \/ rt'[n][d].flags = rt[n][d].flags
     \/ /\ rt[n][d].flags = "ABSENT"
        /\ rt'[n][d].flags = "DOWN"

\* local_rt_repair: the route stays as it is, but is not used meanwhile.
Marked(n, d) ==
  /\ repair'[n][d] > 0
  /\ Usable(rt[n][d])
  /\ rt'[n][d].seqno = rt[n][d].seqno
  /\ rt'[n][d].hops = rt[n][d].hops
  /\ rt'[n][d].nexthop = rt[n][d].nexthop
  /\ rt'[n][d].flags = "IN_REPAIR"

Learned(n, d, s, k, h) ==
  /\ Fresher(rt[n][d], s, k)
  /\ rt'[n][d].seqno = s
  /\ rt'[n][d].hops = k
  /\ rt'[n][d].nexthop = h
  /\ rt'[n][d].flags = "UP"

IsDown(n, d, s) ==
  /\ rt'[n][d].seqno = s
  /\ rt'[n][d].hops = INFINITY2
  /\ rt'[n][d].nexthop = 0
  /\ rt'[n][d].flags = "DOWN"

Dropped(n, d) ==
  /\ rt[n][d].flags \in {"UP", "IN_REPAIR"}
  /\ IsDown(n, d, rt[n][d].seqno + 1)

\* recvError: the route takes the number the error reports.
Errored(n, d) ==
  \E m \in rerr : \E u \in m.unreachable :
    /\ u[1] = d
    /\ rt[n][d].flags \in {"UP", "IN_REPAIR"}
    /\ rt[n][d].seqno <= u[2]
    /\ IsDown(n, d, u[2])

TimedOut(n, d) ==
  /\ repair[n][d] > 0
  /\ rt[n][d].flags # "UP"
  /\ IsDown(n, d, rt[n][d].seqno)

EntryStep(n, d) ==
  \/ Kept(n, d)
  \/ Marked(n, d)
  \/ \E m \in rreq : /\ Delivered(m, n) /\ d = m.src
                     /\ Learned(n, d, m.srcSeqno, m.hops, m.from)
  \/ \E m \in rrep : /\ Delivered(m, n) /\ d = m.dst
                     /\ Learned(n, d, m.dstSeqno, m.hops, m.from)
  \/ Dropped(n, d)
  \/ Errored(n, d)
  \/ TimedOut(n, d)

\* A route that is not there, or down, has no distance.
RoutesFar ==
  \A n, d \in Node : rt[n][d].flags \in {"ABSENT", "DOWN"} => ~Usable(rt[n][d])

\* rt_add only turns an absent entry into one that is down.
LEMMA AddKeeps ==
  \A e \in Entry :
    /\ rt_add(e).seqno = e.seqno /\ rt_add(e).hops = e.hops
    /\ rt_add(e).nexthop = e.nexthop
    /\ \/ rt_add(e).flags = e.flags
       \/ /\ e.flags = "ABSENT"
          /\ rt_add(e).flags = "DOWN"
BY DEF rt_add, Entry

\* sendRequest leaves the route alone.
LEMMA SearchingKeeps == \A e \in Entry : SameRoute(Searching(e), e)
<1> SUFFICES ASSUME NEW e \in Entry PROVE SameRoute(Searching(e), e)
  OBVIOUS
<1>1. PICK t, c : Searching(e) = [e EXCEPT !.reqTtl = t, !.reqWait = TRUE,
                                           !.reqCnt = c]
  BY DEF Searching
<1> QED BY <1>1 DEF Entry, SameRoute

\* rt_down of an entry that is not down already.
LEMMA DownDrops ==
  \A e \in Entry : e.flags # "DOWN" =>
    /\ rt_down(e).seqno = e.seqno /\ rt_down(e).hops = INFINITY2
    /\ rt_down(e).nexthop = 0 /\ rt_down(e).flags = "DOWN"
BY DEF rt_down, Entry

\* An invalidated route is down and one number ahead.
LEMMA InvalidateDrops ==
  \A e \in Entry : e.flags # "DOWN" =>
    /\ Invalidate(e).seqno = e.seqno + 1 /\ Invalidate(e).hops = INFINITY2
    /\ Invalidate(e).nexthop = 0 /\ Invalidate(e).flags = "DOWN"
BY DEF Invalidate, rt_down, Entry

\* A reverse route is that of the request if the request is fresher, the old one otherwise.
LEMMA ReverseLearns ==
  \A e \in Entry, m \in RREQ :
    IF Fresher(e, m.srcSeqno, m.hops)
    THEN /\ ReverseRoute(e, m).seqno = m.srcSeqno
         /\ ReverseRoute(e, m).hops = m.hops
         /\ ReverseRoute(e, m).nexthop = m.from
         /\ ReverseRoute(e, m).flags = "UP"
    ELSE ReverseRoute(e, m) = e
BY DEF ReverseRoute, rt_update, SearchOver, Entry, RREQ

\* A forward route is that of the reply if the reply is fresher, the old one otherwise.
LEMMA ForwardLearns ==
  \A e \in Entry, m \in RREP :
    IF Fresher(e, m.dstSeqno, m.hops)
    THEN /\ ForwardRoute(e, m).seqno = m.dstSeqno
         /\ ForwardRoute(e, m).hops = m.hops
         /\ ForwardRoute(e, m).nexthop = m.from
         /\ ForwardRoute(e, m).flags = "UP"
    ELSE ForwardRoute(e, m) = e
BY DEF ForwardRoute, rt_update, SearchOver, Entry, RREP

\* rt_add does not change what counts as fresher.
LEMMA FresherAdd ==
  \A e \in Entry, s, k \in Nat : Fresher(rt_add(e), s, k) <=> Fresher(e, s, k)
BY AddKeeps DEF Fresher

\* A new precursor changes no route.
LEMMA InsertKeeps ==
  ASSUME NEW T \in [Node -> Entry], NEW b \in Node, NEW h \in Node, NEW d \in Node
  PROVE  SameRoute(pc_insert(T, b, h)[d], T[d])
<1>1. pc_insert(T, b, h) = [T EXCEPT ![b] = [T[b] EXCEPT !.pc = @ \cup {h}]]
  BY DEF pc_insert
<1>2. SameRoute([T[b] EXCEPT !.pc = @ \cup {h}], T[b])
  <2>1. T[b] \in Entry
    OBVIOUS
  <2> QED BY <2>1 DEF SameRoute, Entry
<1> QED BY <1>1, <1>2 DEF SameRoute

\* A step that writes one entry keeps the others.
LEMMA OneEntry ==
  ASSUME TypeOK, NEW n \in Node, NEW b \in Node,
         NEW c, rt' = [rt EXCEPT ![n][b] = c]
  PROVE  /\ rt'[n][b] = c
         /\ \A x, d \in Node : x # n \/ d # b => rt'[x][d] = rt[x][d]
BY DEF TypeOK

\* A step that writes one node's routes keeps the others.
LEMMA OneTable ==
  ASSUME TypeOK, NEW n \in Node, NEW T, rt' = [rt EXCEPT ![n] = T]
  PROVE  /\ rt'[n] = T
         /\ \A x, d \in Node : x # n => rt'[x][d] = rt[x][d]
BY DEF TypeOK

\* An entry that does not change at all is kept.
LEMMA SameKept ==
  ASSUME NEW x \in Node, NEW d \in Node, rt'[x][d] = rt[x][d]
  PROVE  Kept(x, d)
BY DEF Kept

\* sendRequest writes the entry it is called with.
LEMMA SendEntry ==
  ASSUME NEW n \in Node, NEW d \in Node, NEW e \in Entry, NEW q,
         sendRequest(n, d, e, q)
  PROVE  \E c : rt' = [rt EXCEPT ![n][d] = c] /\ SameRoute(c, e)
<1>1. CASE RateLimited(n, d, e, q)
  BY <1>1 DEF RateLimited, SameRoute
<1>2. CASE GiveUp(n, d, e, q)
  <2>1. SameRoute([e EXCEPT !.reqCnt = 0, !.reqWait = TRUE], e)
    BY DEF SameRoute, Entry
  <2> QED BY <1>2, <2>1 DEF GiveUp
<1>3. CASE Search(n, d, e, q)
  BY <1>3, SearchingKeeps DEF Search
<1> QED BY <1>1, <1>2, <1>3 DEF sendRequest

\* rt_resolve changes no route.
LEMMA ResolveEntryStep ==
  ASSUME TypeOK, NEW n \in Node, NEW p \in Packet, NEW arrived,
         rt_resolve(n, p, arrived), NEW x \in Node, NEW d \in Node
  PROVE  Kept(x, d)
<1> DEFINE e == rt_add(rt[n][p.dst])
<1>1. p.dst \in Node /\ rt[n][p.dst] \in Entry /\ e \in Entry
  BY AddType DEF TypeOK, Packet
<1>2. CASE rt' = rt
  BY <1>2 DEF Kept
<1>3. ASSUME NEW c, rt' = [rt EXCEPT ![n][p.dst] = c], SameRoute(c, e)
      PROVE  Kept(x, d)
  <2>1. CASE x = n /\ d = p.dst
    <3>1. rt'[n][p.dst] = c
      BY <1>1, <1>3, OneEntry
    <3> QED BY <1>1, <1>3, <2>1, <3>1, AddKeeps DEF Kept, SameRoute
  <2>2. CASE ~(x = n /\ d = p.dst)
    BY <1>1, <1>3, <2>2, OneEntry, SameKept
  <2> QED BY <2>1, <2>2
<1>4. CASE ResolveForward(n, p, arrived) \/ ResolveRepair(n, p, arrived)
  BY <1>2, <1>4 DEF ResolveForward, ResolveRepair
<1>5. CASE ResolveSearch(n, p, arrived)
  <2>1. PICK q : sendRequest(n, p.dst, e, q)
    BY <1>5 DEF ResolveSearch
  <2> HIDE DEF e
  <2> QED BY <1>1, <1>3, <2>1, SendEntry
<1>6. CASE ResolveError(n, p, arrived)
  <2>1. rt' = [rt EXCEPT ![n][p.dst] = e]
    BY <1>6 DEF ResolveError
  <2> QED BY <1>3, <2>1 DEF SameRoute
<1> QED BY <1>4, <1>5, <1>6 DEF rt_resolve

\* What a request and what a reply makes of n's routes.
ReverseTable(n, m, T) ==
  /\ T \in [Node -> Entry]
  /\ \A d \in Node : SameRoute(T[d], WithReverse(n, m)[d])

ForwardTable(n, m, T) ==
  /\ T \in [Node -> Entry]
  /\ \A d \in Node : SameRoute(T[d], WithForward(n, m)[d])

\* A request that is not discarded is learnt from.
LEMMA RequestLearns ==
  ASSUME TypeOK, NEW n \in Node, NEW m \in rreq,
         AnswerRequest(n, m) \/ AnswerFromRoute(n, m) \/ ForwardRequest(n, m)
  PROVE  \E T : LearnReverse(n, m, T) /\ ReverseTable(n, m, T)
<1> DEFINE W == WithReverse(n, m)
<1>1. m \in RREQ /\ m.src \in Node /\ m.dst \in Node
  BY DEF TypeOK, RREQ
<1>2. W \in [Node -> Entry]
  BY <1>1, WithReverseType
<1>3. CASE AnswerRequest(n, m) \/ ForwardRequest(n, m)
  BY <1>2, <1>3 DEF AnswerRequest, ForwardRequest, ReverseTable, SameRoute
<1>4. CASE AnswerFromRoute(n, m)
  <2> DEFINE x == W[m.src].nexthop
             y == W[m.dst].nexthop
             U == pc_insert(W, m.dst, x)
             T == pc_insert(U, m.src, y)
  <2>1. LearnReverse(n, m, T)
    BY <1>4 DEF AnswerFromRoute
  <2>2. x \in Node /\ y \in Node
    BY <1>1, <1>2 DEF Entry
  <2> HIDE DEF W, x, y
  <2>3. U \in [Node -> Entry] /\ \A d \in Node : SameRoute(U[d], W[d])
    BY <1>1, <1>2, <2>2, InsertType, InsertKeeps
  <2> HIDE DEF U
  <2>4. T \in [Node -> Entry] /\ \A d \in Node : SameRoute(T[d], U[d])
    BY <1>1, <2>2, <2>3, InsertType, InsertKeeps
  <2> HIDE DEF T
  <2>5. \A d \in Node : SameRoute(T[d], W[d])
    BY <2>3, <2>4 DEF SameRoute
  <2> QED BY <2>1, <2>4, <2>5 DEF ReverseTable, W
<1> QED BY <1>3, <1>4

\* Every reply is learnt from.
LEMMA ReplyLearns ==
  ASSUME TypeOK, NEW n \in Node, NEW m \in rrep, recvReply(n, m)
  PROVE  \E T : LearnForward(n, m, T) /\ ForwardTable(n, m, T)
<1> DEFINE W == WithForward(n, m)
<1>1. m \in RREP /\ m.dst \in Node /\ m.ipdst \in Node
  BY DEF TypeOK, RREP
<1>2. W \in [Node -> Entry]
  BY <1>1, WithForwardType
<1>3. CASE AcceptReply(n, m)
  BY <1>2, <1>3 DEF AcceptReply, ForwardTable, SameRoute
<1>4. CASE ForwardReply(n, m)
  <2> DEFINE x == W[m.ipdst].nexthop
             T == pc_insert(W, m.dst, x)
  <2>1. LearnForward(n, m, T)
    BY <1>4 DEF ForwardReply
  <2>2. x \in Node
    BY <1>1, <1>2 DEF Entry
  <2> HIDE DEF W, x
  <2>3. T \in [Node -> Entry] /\ \A d \in Node : SameRoute(T[d], W[d])
    BY <1>1, <1>2, <2>2, InsertType, InsertKeeps
  <2> HIDE DEF T
  <2> QED BY <2>1, <2>3 DEF ForwardTable, W
<1> QED BY <1>3, <1>4 DEF recvReply

\* recvRequest changes entries in the ways EntryStep lists.
LEMMA ReverseEntryStep ==
  ASSUME TypeOK, NEW n \in Node, NEW m \in rreq, NEW T,
         LearnReverse(n, m, T), ReverseTable(n, m, T),
         NEW x \in Node, NEW d \in Node
  PROVE  \/ Kept(x, d)
         \/ x = n /\ d = m.src /\ Learned(n, d, m.srcSeqno, m.hops, m.from)
<1> DEFINE e == rt_add(rt[n][m.src])
<1>1. m \in RREQ /\ m.src \in Node /\ m.srcSeqno \in Nat /\ m.hops \in Nat
  BY DEF TypeOK, RREQ
<1>2. rt[n][m.src] \in Entry /\ e \in Entry
  BY <1>1, AddType DEF TypeOK
<1>3. rt' = [rt EXCEPT ![n] = T]
  BY DEF LearnReverse
<1>4. CASE x # n
  BY <1>3, <1>4, OneTable, SameKept
<1>5. CASE x = n /\ d # m.src
  <2>1. rt'[x][d] = T[d]
    BY <1>3, <1>5, OneTable
  <2>2. WithReverse(n, m)[d] = rt[n][d]
    BY <1>5 DEF WithReverse, TypeOK
  <2> QED BY <1>5, <2>1, <2>2 DEF ReverseTable, SameRoute, Kept
<1>6. CASE x = n /\ d = m.src
  <2>1. rt'[x][d] = T[d]
    <3>1. rt'[n] = T
      BY <1>3, OneTable
    <3> QED BY <1>6, <3>1
  <2>2. WithReverse(n, m)[d] = ReverseRoute(e, m)
    BY <1>6 DEF WithReverse, TypeOK
  <2>3. SameRoute(rt'[x][d], ReverseRoute(e, m))
    BY <2>1, <2>2 DEF ReverseTable
  <2> HIDE DEF e
  <2>4. CASE Fresher(e, m.srcSeqno, m.hops)
    <3>1. Fresher(rt[n][m.src], m.srcSeqno, m.hops)
      BY <1>1, <1>2, <2>4, FresherAdd DEF e
    <3> QED BY <1>1, <1>2, <1>6, <2>3, <2>4, <3>1, ReverseLearns
            DEF Learned, SameRoute
  <2>5. CASE ~Fresher(e, m.srcSeqno, m.hops)
    <3>1. SameRoute(rt'[x][d], e)
      BY <1>1, <1>2, <2>3, <2>5, ReverseLearns
    <3> QED BY <1>2, <1>6, <3>1, AddKeeps DEF Kept, SameRoute, e
  <2> QED BY <2>4, <2>5
<1> QED BY <1>4, <1>5, <1>6

\* recvReply changes entries in the ways EntryStep lists; a reply that is
\* fresher is learnt.
LEMMA ForwardEntryStep ==
  ASSUME TypeOK, NEW n \in Node, NEW m \in rrep, NEW T,
         LearnForward(n, m, T), ForwardTable(n, m, T),
         NEW x \in Node, NEW d \in Node
  PROVE  /\ \/ Kept(x, d)
            \/ x = n /\ d = m.dst /\ Learned(n, d, m.dstSeqno, m.hops, m.from)
         /\ x = n /\ d = m.dst /\ ~Suppressed(n, m)
              => Learned(n, d, m.dstSeqno, m.hops, m.from)
<1> DEFINE e == rt_add(rt[n][m.dst])
<1>1. m \in RREP /\ m.dst \in Node /\ m.dstSeqno \in Nat /\ m.hops \in Nat
  BY DEF TypeOK, RREP
<1>2. rt[n][m.dst] \in Entry /\ e \in Entry
  BY <1>1, AddType DEF TypeOK
<1>3. rt' = [rt EXCEPT ![n] = T]
  BY DEF LearnForward
<1>4. CASE x # n
  BY <1>3, <1>4, OneTable, SameKept
<1>5. CASE x = n /\ d # m.dst
  <2>1. rt'[x][d] = T[d]
    BY <1>3, <1>5, OneTable
  <2>2. WithForward(n, m)[d] = rt[n][d]
    BY <1>5 DEF WithForward, TypeOK
  <2> QED BY <1>5, <2>1, <2>2 DEF ForwardTable, SameRoute, Kept
<1>6. CASE x = n /\ d = m.dst
  <2>1. rt'[x][d] = T[d]
    <3>1. rt'[n] = T
      BY <1>3, OneTable
    <3> QED BY <1>6, <3>1
  <2>2. WithForward(n, m)[d] = ForwardRoute(e, m)
    BY <1>6 DEF WithForward, TypeOK
  <2>3. SameRoute(rt'[x][d], ForwardRoute(e, m))
    BY <2>1, <2>2 DEF ForwardTable
  <2>4. Suppressed(n, m) <=> ~Fresher(e, m.dstSeqno, m.hops)
    BY DEF Suppressed
  <2> HIDE DEF e
  <2>5. CASE Fresher(e, m.dstSeqno, m.hops)
    <3>1. Fresher(rt[n][m.dst], m.dstSeqno, m.hops)
      BY <1>1, <1>2, <2>5, FresherAdd DEF e
    <3> QED BY <1>1, <1>2, <1>6, <2>3, <2>5, <3>1, ForwardLearns
            DEF Learned, SameRoute
  <2>6. CASE ~Fresher(e, m.dstSeqno, m.hops)
    <3>1. SameRoute(rt'[x][d], e)
      BY <1>1, <1>2, <2>3, <2>6, ForwardLearns
    <3> QED BY <1>2, <1>6, <2>4, <2>6, <3>1, AddKeeps DEF Kept, SameRoute, e
  <2> QED BY <2>5, <2>6
<1> QED BY <1>4, <1>5, <1>6

\* A neighbour that is given up takes the routes through it down.
LEMMA BreakEntryStep ==
  ASSUME TypeOK, RoutesFar, NEW n \in Node, NEW f \in data, BreakLink(n, f),
         NEW x \in Node, NEW d \in Node
  PROVE  IF x = n /\ d \in Through(n, f.to) THEN Dropped(x, d) ELSE Kept(x, d)
<1> DEFINE e == rt[n][d]
           c == IF Usable(e) /\ e.nexthop = f.to THEN Invalidate(e) ELSE e
<1>1. rt' = [rt EXCEPT ![n] = [b \in Node |-> DropNeighbour(n, f.to, @[b])]]
  BY DEF BreakLink
<1>2. e \in Entry /\ c \in Entry
  BY InvalidateType DEF TypeOK
<1>3. CASE x # n
  <2>1. rt'[x][d] = rt[x][d]
    BY <1>1, <1>3 DEF TypeOK
  <2> QED BY <1>3, <2>1, SameKept
<1>4. CASE x = n
  <2>1. rt'[x][d] = [c EXCEPT !.pc = @ \ {f.to}]
    BY <1>1, <1>4 DEF TypeOK, DropNeighbour
  <2> HIDE DEF c
  <2>2. SameRoute(rt'[x][d], c)
    BY <1>2, <2>1 DEF Entry, SameRoute
  <2>3. CASE d \in Through(n, f.to)
    <3>1. Usable(e) /\ c = Invalidate(e)
      BY <2>3 DEF Through, c
    <3>2. e.flags \in {"UP", "IN_REPAIR"}
      BY <1>2, <3>1 DEF RoutesFar, Entry
    <3> QED BY <1>2, <1>4, <2>2, <2>3, <3>1, <3>2, InvalidateDrops
            DEF SameRoute, Dropped, IsDown
  <2>4. CASE d \notin Through(n, f.to)
    <3>1. c = e
      BY <2>4 DEF Through, c
    <3> QED BY <1>4, <2>2, <2>4, <3>1 DEF SameRoute, Kept
  <2> QED BY <2>3, <2>4
<1> QED BY <1>3, <1>4

\* A local repair marks the route it is for.
LEMMA RepairEntryStep ==
  ASSUME TypeOK, NEW n \in Node, NEW f \in data,
         local_rt_repair(n, f), RepairWorth(n, f.pkt),
         NEW x \in Node, NEW d \in Node
  PROVE  Kept(x, d) \/ Marked(x, d)
<1> DEFINE b == f.pkt.dst
           e == [rt[n][b] EXCEPT !.flags = "IN_REPAIR"]
<1>1. f.pkt \in Packet /\ b \in Node
  BY DEF TypeOK, Frame, Packet
<1>2. rt[n][b] \in Entry
  BY <1>1 DEF TypeOK
<1>3. e \in Entry /\ e.flags = "IN_REPAIR" /\ e.seqno = rt[n][b].seqno
      /\ e.hops = rt[n][b].hops /\ e.nexthop = rt[n][b].nexthop
  BY <1>2 DEF Entry
<1>4. PICK q : sendRequest(n, b, e, q)
  BY DEF local_rt_repair
<1> HIDE DEF e
<1>5. PICK c : rt' = [rt EXCEPT ![n][b] = c] /\ SameRoute(c, e)
  BY <1>1, <1>3, <1>4, SendEntry
<1>6. repair'[n][b] > 0 /\ Usable(rt[n][b])
  <2>1. rt[n][b].hops < NETWORK_DIAMETER - f.pkt.ttl
    BY <1>1, <1>2, ConstantAssumption DEF RepairWorth, num_forwards, Packet, Entry
  <2>2. Usable(rt[n][b])
    BY <1>1, <1>2, <2>1, ConstantAssumption DEF Packet, Entry, Usable
  <2>3. repair'[n][b] = repair[n][b] + 1 /\ repair[n][b] \in Nat
    BY <1>1 DEF local_rt_repair, TypeOK
  <2> QED BY <2>2, <2>3
<1>7. CASE x = n /\ d = b
  <2>1. rt'[n][b] = c
    BY <1>1, <1>5 DEF TypeOK
  <2> QED BY <1>3, <1>5, <1>6, <1>7, <2>1 DEF Marked, SameRoute
<1>8. CASE ~(x = n /\ d = b)
  BY <1>1, <1>5, <1>8, OneEntry, SameKept
<1> QED BY <1>7, <1>8

\* A route error takes the routes it hits down.
LEMMA ErrorEntryStep ==
  ASSUME TypeOK, RoutesFar, NEW n \in Node, NEW m \in rerr, recvError(n, m),
         NEW x \in Node, NEW d \in Node
  PROVE  Kept(x, d) \/ Errored(x, d)
<1>1. rt' = [rt EXCEPT ![n] = [b \in Node |-> Errors(n, m, b)]]
  BY DEF recvError, Errors, TypeOK
<1>2. m.unreachable \in SUBSET (Node \X Nat) /\ rt[n][d] \in Entry
  BY DEF TypeOK, RERR
<1>3. CASE x # n
  BY <1>1, <1>3, OneTable, SameKept
<1>4. CASE x = n
  <2>1. rt'[x][d] = Errors(n, m, d)
    BY <1>1, <1>4, OneTable
  <2>2. CASE \E u \in Hit(n, m) : u[1] = d
    <3> DEFINE u == CHOOSE u \in Hit(n, m) : u[1] = d
               e == [rt[n][d] EXCEPT !.seqno = u[2]]
    <3>1. u \in Hit(n, m) /\ u[1] = d
      BY <2>2
    <3>2. rt'[x][d] = [rt_down(e) EXCEPT !.pc = {}]
      BY <2>1, <2>2 DEF Errors
    <3> HIDE DEF u
    <3>3. /\ u \in m.unreachable /\ u[2] \in Nat
          /\ Usable(rt[n][d]) /\ rt[n][d].seqno <= u[2]
      BY <1>2, <3>1 DEF Hit
    <3>4. rt[n][d].flags \in {"UP", "IN_REPAIR"}
      BY <1>2, <3>3 DEF RoutesFar, Entry
    <3>5. e \in Entry /\ e.flags # "DOWN" /\ e.seqno = u[2]
      BY <1>2, <3>3, <3>4 DEF Entry
    <3> HIDE DEF e
    <3>6. SameRoute(rt'[x][d], rt_down(e))
      BY <3>2, <3>5, DownType DEF SameRoute, Entry
    <3>7. IsDown(n, d, u[2])
      BY <1>4, <3>5, <3>6, DownDrops DEF SameRoute, IsDown
    <3> QED BY <1>4, <3>1, <3>3, <3>4, <3>7 DEF Errored
  <2>3. CASE ~\E u \in Hit(n, m) : u[1] = d
    BY <1>4, <2>1, <2>3, SameKept DEF Errors
  <2> QED BY <2>2, <2>3
<1> QED BY <1>3, <1>4

\* The timers take routes down.
LEMMA TimerEntryStep ==
  ASSUME TypeOK, RoutesFar, NEW n \in Node, NEW b \in Node,
         LocalRepairTimer(n, b) \/ rt_purge(n, b),
         NEW x \in Node, NEW d \in Node
  PROVE  Kept(x, d) \/ Dropped(x, d) \/ TimedOut(x, d)
<1>1. rt[n][b] \in Entry /\ rt[x][d] \in Entry
  BY DEF TypeOK
<1>2. CASE LocalRepairTimer(n, b)
  <2> DEFINE c == IF rt[n][b].flags = "UP" THEN rt[n][b] ELSE rt_down(rt[n][b])
  <2>1. rt' = [rt EXCEPT ![n][b] = c] /\ repair[n][b] > 0
    BY <1>2 DEF LocalRepairTimer
  <2>2. CASE x = n /\ d = b /\ rt[n][b].flags \notin {"UP", "DOWN"}
    <3>1. rt'[n][b] = rt_down(rt[n][b])
      <4>1. rt'[n][b] = c
        BY <2>1 DEF TypeOK
      <4> QED BY <2>2, <4>1
    <3> QED BY <1>1, <2>1, <2>2, <3>1, DownDrops DEF TimedOut, IsDown
  <2>3. CASE ~(x = n /\ d = b /\ rt[n][b].flags \notin {"UP", "DOWN"})
    <3>1. rt'[x][d] = rt[x][d]
      BY <2>1, <2>3, OneEntry DEF rt_down
    <3> QED BY <3>1, SameKept
  <2> QED BY <2>2, <2>3
<1>3. CASE PurgeExpired(n, b)
  <2>1. rt' = [rt EXCEPT ![n][b] = Invalidate(rt[n][b])] /\ rt[n][b].flags = "UP"
    BY <1>3 DEF PurgeExpired
  <2>2. CASE x = n /\ d = b
    <3>1. rt'[n][b] = Invalidate(rt[n][b])
      BY <2>1 DEF TypeOK
    <3> QED BY <1>1, <2>1, <2>2, <3>1, InvalidateDrops DEF Dropped, IsDown
  <2>3. CASE ~(x = n /\ d = b)
    BY <2>1, <2>3, OneEntry, SameKept
  <2> QED BY <2>2, <2>3
<1>4. CASE PurgeForward(n, b)
  BY <1>4, SameKept DEF PurgeForward
<1>5. CASE PurgeSearch(n, b)
  <2>1. PICK c : rt' = [rt EXCEPT ![n][b] = c] /\ SameRoute(c, rt[n][b])
    BY <1>1, <1>5, SendEntry DEF PurgeSearch
  <2>2. CASE x = n /\ d = b
    <3>1. rt'[n][b] = c
      BY <2>1 DEF TypeOK
    <3> QED BY <2>1, <2>2, <3>1 DEF Kept, SameRoute
  <2>3. CASE ~(x = n /\ d = b)
    BY <2>1, <2>3, OneEntry, SameKept
  <2> QED BY <2>2, <2>3
<1> QED BY <1>2, <1>3, <1>4, <1>5 DEF rt_purge

\* Every step of the network changes entries in the ways EntryStep lists.
LEMMA EntrySteps ==
  ASSUME TypeOK, RoutesFar, Next, NEW x \in Node, NEW d \in Node
  PROVE  EntryStep(x, d)
<1>1. ASSUME NEW a \in Node, NEW b \in Node, Originate(a, b)
      PROVE  Kept(x, d)
  BY <1>1, OriginateResolves, ResolveEntryStep
<1>2. ASSUME NEW n \in Node, NEW f \in data, Relay(n, f)
      PROVE  Kept(x, d)
  BY <1>2, RelayResolves, ResolveEntryStep
<1>3. ASSUME NEW n \in Node, NEW f \in data, Consume(n, f)
      PROVE  Kept(x, d)
  BY <1>3, SameKept DEF Consume
<1>4. ASSUME NEW n \in Node, NEW f \in data, rt_ll_failed(n, f)
      PROVE  Kept(x, d) \/ Marked(x, d) \/ Dropped(x, d)
  BY <1>4, BreakEntryStep, RepairEntryStep DEF rt_ll_failed
<1>5. ASSUME NEW n \in Node, NEW m \in rreq, recvRequest(n, m)
      PROVE  EntryStep(x, d)
  <2>1. CASE DiscardRequest(n, m)
    BY <2>1, SameKept DEF DiscardRequest, EntryStep
  <2>2. CASE ~DiscardRequest(n, m)
    <3>1. PICK T : LearnReverse(n, m, T) /\ ReverseTable(n, m, T)
      BY <1>5, <2>2, RequestLearns DEF recvRequest
    <3>2. \/ Kept(x, d)
          \/ x = n /\ d = m.src /\ Learned(n, d, m.srcSeqno, m.hops, m.from)
      BY <3>1, ReverseEntryStep
    <3>3. Delivered(m, n)
      BY <3>1 DEF LearnReverse
    <3> QED BY <3>2, <3>3 DEF EntryStep
  <2> QED BY <2>1, <2>2
<1>6. ASSUME NEW n \in Node, NEW m \in rrep, recvReply(n, m)
      PROVE  EntryStep(x, d)
  <2>1. PICK T : LearnForward(n, m, T) /\ ForwardTable(n, m, T)
    BY <1>6, ReplyLearns
  <2>2. \/ Kept(x, d)
        \/ x = n /\ d = m.dst /\ Learned(n, d, m.dstSeqno, m.hops, m.from)
    BY <2>1, ForwardEntryStep
  <2>3. Delivered(m, n)
    BY <2>1 DEF LearnForward
  <2> QED BY <2>2, <2>3 DEF EntryStep
<1>7. ASSUME NEW n \in Node, NEW m \in rerr, recvError(n, m)
      PROVE  Kept(x, d) \/ Errored(x, d)
  BY <1>7, ErrorEntryStep
<1>8. ASSUME NEW n \in Node, NEW b \in Node, LocalRepairTimer(n, b) \/ rt_purge(n, b)
      PROVE  Kept(x, d) \/ Dropped(x, d) \/ TimedOut(x, d)
  BY <1>8, TimerEntryStep
<1>9. ASSUME NEW n \in Node, id_purge(n) PROVE Kept(x, d)
  BY <1>9, SameKept DEF id_purge
<1> QED BY <1>1, <1>2, <1>3, <1>4, <1>5, <1>6, <1>7, <1>8, <1>9 DEF Next, EntryStep

\* Routes that are not there have no distance: neither rt_add nor rt_down
\* leaves one behind.
LEMMA FarStep == TypeOK /\ RoutesFar /\ [Next]_vars => RoutesFar'
<1> SUFFICES ASSUME TypeOK, RoutesFar, [Next]_vars PROVE RoutesFar'
  OBVIOUS
<1>1. CASE UNCHANGED vars
  BY <1>1 DEF vars, RoutesFar, Usable
<1>2. CASE Next
  <2> SUFFICES ASSUME NEW n \in Node, NEW d \in Node,
                      rt'[n][d].flags \in {"ABSENT", "DOWN"}
               PROVE  rt'[n][d].hops = INFINITY2
    BY DEF RoutesFar, Usable
  <2>1. Kept(n, d) => rt'[n][d].hops = INFINITY2
    BY DEF Kept, RoutesFar, Usable
  <2> QED BY <1>2, <2>1, EntrySteps
          DEF EntryStep, Marked, Learned, Dropped, Errored, TimedOut, IsDown
<1> QED BY <1>1, <1>2

LEMMA Far == Spec => []RoutesFar
<1>1. Init => RoutesFar
  BY DEF Init, RoutesFar, Usable, NoEntry
<1> QED BY <1>1, FarStep, TypeCorrect, PTL DEF Spec

\* Own sequence numbers grow, and stay even once they are.
SeqnoStep(n) ==
  /\ seqno'[n] >= seqno[n]
  /\ seqno[n] % 2 = 0 => seqno'[n] % 2 = 0

\* A request m that was not there before: its source has started it ...
Started(m) ==
  /\ m.from = m.src
  /\ m.srcSeqno = seqno[m.src] + 2
  /\ m.srcSeqno = seqno'[m.src]
  /\ m.dstSeqno = rt[m.src][m.dst].seqno
  /\ m.hops = 1
  /\ m.ttl \in 1..NETWORK_DIAMETER

\* n's route to d is as good as sequence number s and distance k.
AsGood(n, d, s, k) ==
  \/ rt'[n][d].seqno > s
  \/ /\ rt'[n][d].seqno = s
     /\ rt'[n][d].hops <= k

\* ... or its sender has passed on the request o.
RequestPassed(m) ==
  \E o \in rreq :
    /\ m.src = o.src /\ m.srcSeqno = o.srcSeqno /\ m.dst = o.dst
    /\ m.hops = o.hops + 1 /\ m.ttl = o.ttl - 1
    /\ \/ m.dstSeqno = o.dstSeqno
       \/ m.dstSeqno = rt'[m.from][m.dst].seqno
    /\ AsGood(m.from, o.src, o.srcSeqno, o.hops)

\* A reply that was not there before: the destination has answered, ...
Answered(m) ==
  /\ m.from = m.dst
  /\ m.dstSeqno = seqno'[m.dst]
  /\ m.dstSeqno % 2 = 0 /\ m.dstSeqno > 0
  /\ m.hops = 1

\* ... or a relay from the route it has, ...
AnsweredFromRoute(m) ==
  /\ rt'[m.from][m.dst].hops # INFINITY2
  /\ m.dstSeqno = rt'[m.from][m.dst].seqno
  /\ m.hops = rt'[m.from][m.dst].hops + 1

\* ... or a node has passed on the reply o, and learnt from it.
ReplyPassed(m) ==
  \E o \in rrep :
    /\ m.dst = o.dst /\ m.dstSeqno = o.dstSeqno
    /\ m.hops = o.hops + 1
    /\ Learned(m.from, o.dst, o.dstSeqno, o.hops, o.from)

\* What a route error that was not there before says of a destination is what
\* its sender's route is now, or what another error said.
Reporting(m) ==
  \A u \in m.unreachable :
    \/ \E o \in rerr : u \in o.unreachable
    \/ /\ rt'[m.from][u[1]].flags = "DOWN"
       /\ u[2] = rt'[m.from][u[1]].seqno

\* sendRequest adds its own request and raises its own number by two.
LEMMA SendSteps ==
  ASSUME TypeOK, NEW n \in Node, NEW d \in Node, NEW e \in Entry,
         e.seqno = rt[n][d].seqno, NEW q, sendRequest(n, d, e, q)
  PROVE  /\ \A x \in Node : SeqnoStep(x)
         /\ \A m \in rreq' : m \in rreq \/ Started(m)
<1>1. CASE RateLimited(n, d, e, q) \/ GiveUp(n, d, e, q)
  BY <1>1 DEF RateLimited, GiveUp, SeqnoStep, TypeOK
<1>2. CASE Search(n, d, e, q)
  <2> DEFINE m0 == [from |-> n, to |-> n, src |-> n, bid |-> bid[n],
                    dst |-> d, srcSeqno |-> seqno[n] + 2,
                    dstSeqno |-> e.seqno, hops |-> 1, ttl |-> RequestTtl(e)]
  <2>1. RequestTtl(e) \in 1..NETWORK_DIAMETER
    BY RequestTtlType
  <2>2. seqno' = [seqno EXCEPT ![n] = @ + 2] /\ rreq' = rreq \cup Broadcast(m0, n)
    BY <1>2 DEF Search
  <2>3. seqno'[n] = seqno[n] + 2 /\ \A x \in Node : x # n => seqno'[x] = seqno[x]
    BY <2>2 DEF TypeOK
  <2>4. ASSUME NEW x \in Node PROVE SeqnoStep(x)
    <3>1. seqno[x] \in Nat /\ seqno'[x] \in {seqno[x], seqno[x] + 2}
      BY <2>3 DEF TypeOK
    <3> QED BY <3>1 DEF SeqnoStep
  <2>5. ASSUME NEW m \in Broadcast(m0, n) PROVE Started(m)
    <3>1. PICK r \in Node : m = [m0 EXCEPT !.from = n, !.to = r]
      BY <2>5 DEF Broadcast, Neighbours
    <3>2. /\ m.from = n /\ m.src = n /\ m.srcSeqno = seqno[n] + 2 /\ m.dst = d
          /\ m.dstSeqno = e.seqno /\ m.hops = 1 /\ m.ttl = RequestTtl(e)
      BY <3>1
    <3> QED BY <2>1, <2>3, <3>2 DEF Started
  <2> HIDE DEF m0
  <2> QED BY <2>2, <2>4, <2>5
<1> QED BY <1>1, <1>2 DEF sendRequest

\* A route error for every neighbour.
LEMMA ErrorFrom ==
  ASSUME NEW n \in Node, NEW U, NEW m \in sendError(n, U)
  PROVE  m.from = n /\ m.unreachable = U
BY DEF sendError, Broadcast, Neighbours

\* What a step makes of the messages, in the words above.
MessageStep ==
  /\ \A x \in Node : SeqnoStep(x)
  /\ \A m \in rreq' : m \in rreq \/ Started(m) \/ RequestPassed(m)
  /\ \A m \in rrep' : m \in rrep \/ Answered(m) \/ AnsweredFromRoute(m) \/ ReplyPassed(m)
  /\ \A m \in rerr' : m \in rerr \/ Reporting(m)

\* A step that changes no own number.
LEMMA SeqnoKept ==
  ASSUME TypeOK, seqno' = seqno PROVE \A x \in Node : SeqnoStep(x)
BY DEF SeqnoStep, TypeOK

\* rt_resolve may start a search, or report its packet's destination.
LEMMA ResolveSteps ==
  ASSUME TypeOK, NEW n \in Node, NEW p \in Packet, NEW arrived,
         rt_resolve(n, p, arrived)
  PROVE  MessageStep
<1> DEFINE e == rt_add(rt[n][p.dst])
<1>1. p.dst \in Node /\ rt[n][p.dst] \in Entry /\ e \in Entry
  BY AddType DEF TypeOK, Packet
<1>2. e.seqno = rt[n][p.dst].seqno
  BY <1>1, AddKeeps
<1>3. CASE ResolveForward(n, p, arrived) \/ ResolveRepair(n, p, arrived)
  BY <1>3, SeqnoKept DEF ResolveForward, ResolveRepair, MessageStep
<1>4. CASE ResolveSearch(n, p, arrived)
  <2>1. PICK q : sendRequest(n, p.dst, e, q)
    BY <1>4 DEF ResolveSearch
  <2>2. rrep' = rrep /\ rerr' = rerr
    BY <1>4 DEF ResolveSearch
  <2> HIDE DEF e
  <2> QED BY <1>1, <1>2, <2>1, <2>2, SendSteps DEF MessageStep
<1>5. CASE ResolveError(n, p, arrived)
  <2>1. /\ rt' = [rt EXCEPT ![n][p.dst] = e]
        /\ rerr' = rerr \cup sendError(n, {<<p.dst, e.seqno>>})
        /\ e.flags \notin {"UP", "IN_REPAIR"}
        /\ UNCHANGED <<seqno, rreq, rrep>>
    BY <1>5 DEF ResolveError
  <2>2. e.flags = "DOWN"
    BY <1>1, <2>1 DEF rt_add, Entry
  <2>3. rt'[n][p.dst] = e
    BY <1>1, <2>1 DEF TypeOK
  <2> HIDE DEF e
  <2>4. ASSUME NEW m \in rerr', m \notin rerr PROVE Reporting(m)
    <3>1. m.from = n /\ m.unreachable = {<<p.dst, e.seqno>>}
      BY <2>1, <2>4, ErrorFrom
    <3> QED BY <2>2, <2>3, <3>1 DEF Reporting
  <2> QED BY <2>1, <2>4, SeqnoKept DEF MessageStep
<1> QED BY <1>3, <1>4, <1>5 DEF rt_resolve

\* After a request the node has a route as good as the request's.
LEMMA ReverseAsGood ==
  ASSUME TypeOK, NEW n \in Node, NEW m \in rreq, NEW T,
         LearnReverse(n, m, T), ReverseTable(n, m, T)
  PROVE  AsGood(n, m.src, m.srcSeqno, m.hops)
<1> DEFINE e == rt_add(rt[n][m.src])
<1>1. m \in RREQ /\ m.src \in Node /\ m.srcSeqno \in Nat /\ m.hops \in Nat
  BY DEF TypeOK, RREQ
<1>2. rt[n][m.src] \in Entry /\ e \in Entry
  BY <1>1, AddType DEF TypeOK
<1>3. rt'[n] = T
  BY OneTable DEF LearnReverse
<1>4. WithReverse(n, m)[m.src] = ReverseRoute(e, m)
  BY <1>1 DEF WithReverse, TypeOK
<1>5. SameRoute(rt'[n][m.src], ReverseRoute(e, m))
  BY <1>1, <1>3, <1>4 DEF ReverseTable
<1> HIDE DEF e
<1>6. e.seqno \in Nat /\ e.hops \in Nat
  BY <1>2 DEF Entry
<1>7. CASE Fresher(e, m.srcSeqno, m.hops)
  BY <1>1, <1>2, <1>5, <1>7, ReverseLearns DEF AsGood, SameRoute
<1>8. CASE ~Fresher(e, m.srcSeqno, m.hops)
  <2>1. SameRoute(rt'[n][m.src], e)
    BY <1>1, <1>2, <1>5, <1>8, ReverseLearns
  <2> QED BY <1>1, <1>6, <1>8, <2>1 DEF AsGood, Fresher, SameRoute
<1> QED BY <1>7, <1>8

\* recvRequest passes the request on or answers it, and adds nothing else.
LEMMA RequestSteps ==
  ASSUME TypeOK, NEW n \in Node, NEW o \in rreq, recvRequest(n, o)
  PROVE  MessageStep
<1> DEFINE W == WithReverse(n, o)
<1>1. o \in RREQ /\ o.dst \in Node /\ o.src \in Node /\ o.dstSeqno \in Nat
  BY DEF TypeOK, RREQ
<1>2. W \in [Node -> Entry]
  BY <1>1, WithReverseType
<1>3. CASE DiscardRequest(n, o)
  BY <1>3, SeqnoKept DEF DiscardRequest, MessageStep
<1>4. ASSUME NEW s, NEW h, NEW m \in sendReply(n, o, s, h)
      PROVE  m.from = n /\ m.dst = o.dst /\ m.dstSeqno = s /\ m.hops = h
  BY DEF sendReply
<1>5. ASSUME ~DiscardRequest(n, o)
      PROVE  /\ AsGood(n, o.src, o.srcSeqno, o.hops)
             /\ SameRoute(rt'[n][o.dst], W[o.dst])
  <2>1. PICK T : LearnReverse(n, o, T) /\ ReverseTable(n, o, T)
    BY <1>5, RequestLearns DEF recvRequest
  <2>2. rt'[n] = T
    BY <2>1, OneTable DEF LearnReverse
  <2> QED BY <1>1, <2>1, <2>2, ReverseAsGood DEF ReverseTable
<1>6. CASE AnswerRequest(n, o)
  <2> DEFINE s == ReplySeqno(seqno[n], o.dstSeqno)
  <2>1. s \in Nat /\ s % 2 = 0 /\ s > seqno[n]
    BY <1>1, ReplySeqnoType DEF TypeOK
  <2>2. /\ seqno' = [seqno EXCEPT ![n] = s] /\ rreq' = rreq \ {o}
        /\ rrep' = rrep \cup sendReply(n, o, s, 1)
        /\ o.dst = n /\ rerr' = rerr
    BY <1>6 DEF AnswerRequest
  <2>3. seqno'[n] = s /\ \A x \in Node : x # n => seqno'[x] = seqno[x]
    BY <2>2 DEF TypeOK
  <2> HIDE DEF s
  <2>4. ASSUME NEW x \in Node PROVE SeqnoStep(x)
    <3>1. seqno[x] \in Nat
      BY DEF TypeOK
    <3> QED BY <2>1, <2>3, <3>1 DEF SeqnoStep
  <2>5. ASSUME NEW m \in rrep', m \notin rrep PROVE Answered(m)
    <3>1. m.from = n /\ m.dst = n /\ m.dstSeqno = s /\ m.hops = 1
      BY <1>4, <2>2, <2>5
    <3>2. seqno[n] \in Nat
      BY DEF TypeOK
    <3> QED BY <2>1, <2>3, <3>1, <3>2 DEF Answered
  <2> QED BY <2>2, <2>4, <2>5 DEF MessageStep
<1>7. CASE AnswerFromRoute(n, o)
  <2>1. /\ Usable(W[o.dst])
        /\ rrep' = rrep \cup sendReply(n, o, W[o.dst].seqno, W[o.dst].hops + 1)
        /\ rreq' = rreq \ {o} /\ rerr' = rerr /\ seqno' = seqno
        /\ ~DiscardRequest(n, o)
    BY <1>7 DEF AnswerFromRoute, FreshEnough, LearnReverse, DiscardRequest
  <2>2. SameRoute(rt'[n][o.dst], W[o.dst])
    BY <1>5, <2>1
  <2> HIDE DEF W
  <2>3. ASSUME NEW m \in rrep', m \notin rrep PROVE AnsweredFromRoute(m)
    <3>1. /\ m.from = n /\ m.dst = o.dst /\ m.dstSeqno = W[o.dst].seqno
          /\ m.hops = W[o.dst].hops + 1
      BY <1>4, <2>1, <2>3
    <3> QED BY <2>1, <2>2, <3>1 DEF AnsweredFromRoute, SameRoute, Usable
  <2> QED BY <2>1, <2>3, SeqnoKept DEF MessageStep
<1>8. CASE ForwardRequest(n, o)
  <2> DEFINE c == [o EXCEPT !.hops = @ + 1, !.ttl = @ - 1,
                            !.dstSeqno = Larger(W[o.dst].seqno, @)]
  <2>1. /\ rreq' = (rreq \ {o}) \cup IF o.ttl = 1 THEN {} ELSE Broadcast(c, n)
        /\ UNCHANGED <<seqno, rrep, rerr>>
        /\ ~DiscardRequest(n, o)
    BY <1>8, Zenon DEF ForwardRequest, LearnReverse, DiscardRequest
  <2>2. AsGood(n, o.src, o.srcSeqno, o.hops) /\ SameRoute(rt'[n][o.dst], W[o.dst])
    BY <1>5, <2>1
  <2> HIDE DEF W
  <2>3. ASSUME NEW m \in rreq', m \notin rreq PROVE RequestPassed(m)
    <3>1. m \in Broadcast(c, n)
      BY <2>1, <2>3
    <3>2. PICK r : m = [c EXCEPT !.from = n, !.to = r]
      BY <3>1 DEF Broadcast
    <3>3. /\ m.from = n /\ m.src = o.src /\ m.srcSeqno = o.srcSeqno
          /\ m.dst = o.dst /\ m.hops = o.hops + 1 /\ m.ttl = o.ttl - 1
          /\ m.dstSeqno = Larger(W[o.dst].seqno, o.dstSeqno)
      BY <1>1, <3>2 DEF RREQ
    <3>4. m.dstSeqno = o.dstSeqno \/ m.dstSeqno = rt'[m.from][m.dst].seqno
      BY <2>2, <3>3 DEF Larger, SameRoute
    <3> QED BY <2>2, <3>3, <3>4 DEF RequestPassed
  <2> QED BY <2>1, <2>3, SeqnoKept DEF MessageStep
<1> QED BY <1>3, <1>6, <1>7, <1>8 DEF recvRequest

\* recvReply passes the reply on, and adds nothing else.
LEMMA ReplySteps ==
  ASSUME TypeOK, NEW n \in Node, NEW o \in rrep, recvReply(n, o)
  PROVE  MessageStep
<1>1. o \in RREP /\ o.dst \in Node
  BY DEF TypeOK, RREP
<1>2. seqno' = seqno /\ rreq' = rreq /\ rerr' = rerr
  BY DEF recvReply, AcceptReply, ForwardReply
<1>3. CASE AcceptReply(n, o)
  BY <1>2, <1>3, SeqnoKept DEF AcceptReply, MessageStep
<1>4. CASE ForwardReply(n, o)
  <2> DEFINE back == WithForward(n, o)[o.ipdst]
             next == [o EXCEPT !.from = n, !.to = back.nexthop,
                               !.hops = @ + 1, !.ttl = @ - 1]
  <2>1. PICK T : LearnForward(n, o, T) /\ ForwardTable(n, o, T)
    BY ReplyLearns
  <2>2. ~Suppressed(n, o)
    BY <1>4 DEF ForwardReply
  <2>3. Learned(n, o.dst, o.dstSeqno, o.hops, o.from)
    BY <1>1, <2>1, <2>2, ForwardEntryStep
  <2>4. rrep' = (rrep \ {o}) \cup IF next.ttl = 0 THEN {} ELSE {next}
    BY <1>4, Zenon DEF ForwardReply
  <2>5. ASSUME NEW m \in rrep', m \notin rrep PROVE ReplyPassed(m)
    <3>1. m = next
      BY <2>4, <2>5
    <3> HIDE DEF back
    <3>2. /\ m.from = n /\ m.dst = o.dst /\ m.dstSeqno = o.dstSeqno
          /\ m.hops = o.hops + 1
      BY <1>1, <3>1 DEF RREP
    <3> QED BY <2>3, <3>2 DEF ReplyPassed
  <2> QED BY <1>2, <2>5, SeqnoKept DEF MessageStep
<1> QED BY <1>3, <1>4 DEF recvReply

\* Giving up a neighbour and a route error report routes that are down now.
LEMMA ErrorSteps ==
  ASSUME TypeOK, RoutesFar, NEW n \in Node
  PROVE  /\ \A f \in data : BreakLink(n, f) => MessageStep
         /\ \A o \in rerr : recvError(n, o) => MessageStep
<1>1. ASSUME NEW f \in data, BreakLink(n, f) PROVE MessageStep
  <2> DEFINE U == {<<d, rt'[n][d].seqno>> : d \in Through(n, f.to)}
  <2>1. /\ rerr' = rerr \cup sendError(n, U)
        /\ rreq' = rreq /\ rrep' \subseteq rrep
        /\ seqno' = [seqno EXCEPT ![n] = @ + 2]
    BY <1>1 DEF BreakLink, filter
  <2>2. \A u \in U : rt'[n][u[1]].flags = "DOWN" /\ u[2] = rt'[n][u[1]].seqno
    <3> SUFFICES ASSUME NEW d \in Through(n, f.to) PROVE rt'[n][d].flags = "DOWN"
      OBVIOUS
    <3>1. d \in Node
      BY DEF Through
    <3> QED BY <1>1, <3>1, BreakEntryStep DEF Dropped, IsDown
  <2> HIDE DEF U
  <2>3. ASSUME NEW m \in rerr', m \notin rerr PROVE Reporting(m)
    BY <2>1, <2>2, <2>3, ErrorFrom DEF Reporting
  <2>4. ASSUME NEW x \in Node PROVE SeqnoStep(x)
    <3>1. seqno[x] \in Nat /\ seqno'[x] \in {seqno[x], seqno[x] + 2}
      BY <2>1 DEF TypeOK
    <3> QED BY <3>1 DEF SeqnoStep
  <2> QED BY <2>1, <2>3, <2>4 DEF MessageStep
<1>2. ASSUME NEW o \in rerr, recvError(n, o) PROVE MessageStep
  <2>1. /\ rerr' = (rerr \ {o}) \cup sendError(n, Reported(n, o))
        /\ rreq' = rreq /\ rrep' \subseteq rrep /\ seqno' = seqno
    BY <1>2 DEF recvError, filter
  <2>2. Reported(n, o) \subseteq o.unreachable
    BY DEF Reported, Hit
  <2>3. ASSUME NEW m \in rerr', m \notin rerr PROVE Reporting(m)
    BY <2>1, <2>2, <2>3, ErrorFrom DEF Reporting
  <2> QED BY <2>1, <2>3, SeqnoKept DEF MessageStep
<1> QED BY <1>1, <1>2

\* A local repair starts a search.
LEMMA RepairSteps ==
  ASSUME TypeOK, NEW n \in Node, NEW f \in data, local_rt_repair(n, f)
  PROVE  MessageStep
<1> DEFINE b == f.pkt.dst
           e == [rt[n][b] EXCEPT !.flags = "IN_REPAIR"]
<1>1. b \in Node /\ rt[n][b] \in Entry
  BY DEF TypeOK, Frame, Packet
<1>2. e \in Entry /\ e.seqno = rt[n][b].seqno
  BY <1>1 DEF Entry
<1>3. /\ \E q : sendRequest(n, b, e, q)
      /\ rrep' = rrep /\ rerr' = rerr
  BY DEF local_rt_repair
<1> HIDE DEF e
<1> QED BY <1>1, <1>2, <1>3, SendSteps DEF MessageStep

\* Where every message on the air comes from.
LEMMA MessageSteps == TypeOK /\ RoutesFar /\ Next => MessageStep
<1> SUFFICES ASSUME TypeOK, RoutesFar, Next PROVE MessageStep
  OBVIOUS
<1>1. ASSUME seqno' = seqno, rreq' \subseteq rreq, rrep' \subseteq rrep, rerr' \subseteq rerr
      PROVE  MessageStep
  BY <1>1, SeqnoKept DEF MessageStep
<1>2. ASSUME NEW s \in Node, NEW d \in Node, Originate(s, d) PROVE MessageStep
  BY <1>2, OriginateResolves, ResolveSteps
<1>3. ASSUME NEW n \in Node, NEW f \in data, Relay(n, f) PROVE MessageStep
  BY <1>3, RelayResolves, ResolveSteps
<1>4. ASSUME NEW n \in Node, NEW f \in data, Consume(n, f) PROVE MessageStep
  BY <1>1, <1>4 DEF Consume
<1>5. ASSUME NEW n \in Node, NEW f \in data, rt_ll_failed(n, f) PROVE MessageStep
  BY <1>5, ErrorSteps, RepairSteps DEF rt_ll_failed
<1>6. ASSUME NEW n \in Node, NEW m \in rerr, recvError(n, m) PROVE MessageStep
  BY <1>6, ErrorSteps
<1>7. ASSUME NEW n \in Node, NEW d \in Node, LocalRepairTimer(n, d) \/ rt_purge(n, d)
      PROVE  MessageStep
  <2>1. CASE LocalRepairTimer(n, d)
    BY <1>1, <2>1 DEF LocalRepairTimer
  <2>2. CASE PurgeExpired(n, d) \/ PurgeForward(n, d)
    BY <1>1, <2>2 DEF PurgeExpired, PurgeForward
  <2>3. CASE PurgeSearch(n, d)
    <3>1. /\ sendRequest(n, d, rt[n][d], queue[n]) /\ rrep' = rrep /\ rerr' = rerr
          /\ rt[n][d] \in Entry
      BY <2>3 DEF PurgeSearch, TypeOK
    <3> QED BY <3>1, SendSteps DEF MessageStep
  <2> QED BY <1>7, <2>1, <2>2, <2>3 DEF rt_purge
<1>8. ASSUME NEW n \in Node, id_purge(n) PROVE MessageStep
  BY <1>1, <1>8 DEF id_purge
<1> QED BY <1>2, <1>3, <1>4, <1>5, <1>6, <1>7, <1>8, RequestSteps, ReplySteps DEF Next

-----------------------------------------------------------------------------
(***************************************************************************)
(* Sequence numbers come from their destination, in every build.  A route  *)
(* under repair still has a number its destination issued; one that is     *)
(* down, and what a route error says of it, may be one ahead.              *)
(***************************************************************************)
Issued(d, e) ==
  e.seqno <= IF e.flags \in {"UP", "IN_REPAIR"} THEN seqno[d] ELSE seqno[d] + 1

NumbersIssued ==
  /\ \A n, d \in Node : Issued(d, rt[n][d])
  /\ \A m \in rreq : m.srcSeqno <= seqno[m.src] /\ m.dstSeqno <= seqno[m.dst] + 1
  /\ \A m \in rrep : m.dstSeqno <= seqno[m.dst]
  /\ \A m \in rerr : \A u \in m.unreachable : u[2] <= seqno[u[1]] + 1

\* Every step leaves routes whose number was issued.
LEMMA RoutesIssuedStep ==
  ASSUME TypeOK, RoutesFar, NumbersIssued, Next, NEW n \in Node, NEW d \in Node
  PROVE  rt'[n][d].seqno <=
           IF rt'[n][d].flags \in {"UP", "IN_REPAIR"} THEN seqno'[d] ELSE seqno'[d] + 1
<1>1. seqno[d] \in Nat /\ seqno'[d] \in Nat /\ seqno'[d] >= seqno[d]
  BY TypeStep, MessageSteps DEF TypeOK, MessageStep, SeqnoStep
<1>2. /\ rt[n][d].seqno \in Nat
      /\ rt[n][d].seqno <=
           IF rt[n][d].flags \in {"UP", "IN_REPAIR"} THEN seqno[d] ELSE seqno[d] + 1
  BY DEF TypeOK, Entry, NumbersIssued, Issued
<1>3. CASE Kept(n, d)
  BY <1>1, <1>2, <1>3 DEF Kept
<1>4. CASE Marked(n, d)
  <2>1. rt[n][d].flags \in {"UP", "IN_REPAIR"}
    BY <1>4 DEF Marked, RoutesFar, TypeOK, Entry
  <2> QED BY <1>1, <1>2, <1>4, <2>1 DEF Marked
<1>5. ASSUME NEW m \in rreq, d = m.src, Learned(n, d, m.srcSeqno, m.hops, m.from)
      PROVE  rt'[n][d].seqno <= seqno'[d] /\ rt'[n][d].flags = "UP"
  <2>1. m.srcSeqno \in Nat /\ m.srcSeqno <= seqno[m.src]
    BY DEF TypeOK, RREQ, NumbersIssued
  <2> QED BY <1>1, <1>5, <2>1 DEF Learned
<1>6. ASSUME NEW m \in rrep, d = m.dst, Learned(n, d, m.dstSeqno, m.hops, m.from)
      PROVE  rt'[n][d].seqno <= seqno'[d] /\ rt'[n][d].flags = "UP"
  <2>1. m.dstSeqno \in Nat /\ m.dstSeqno <= seqno[m.dst]
    BY DEF TypeOK, RREP, NumbersIssued
  <2> QED BY <1>1, <1>6, <2>1 DEF Learned
<1>7. CASE Dropped(n, d)
  BY <1>1, <1>2, <1>7 DEF Dropped, IsDown
<1>8. CASE Errored(n, d)
  <2>1. PICK m \in rerr : \E u \in m.unreachable : u[1] = d /\ IsDown(n, d, u[2])
    BY <1>8 DEF Errored
  <2>2. PICK u \in m.unreachable : u[1] = d /\ IsDown(n, d, u[2])
    BY <2>1
  <2>3. u[2] \in Nat /\ u[2] <= seqno[d] + 1
    BY <2>2 DEF TypeOK, RERR, NumbersIssued
  <2> QED BY <1>1, <2>2, <2>3 DEF IsDown
<1>9. CASE TimedOut(n, d)
  BY <1>1, <1>2, <1>9 DEF TimedOut, IsDown
<1> QED BY <1>3, <1>4, <1>5, <1>6, <1>7, <1>8, <1>9, EntrySteps DEF EntryStep

\* Every step keeps sequence numbers issued.
LEMMA IssuedStep ==
  TypeOK /\ RoutesFar /\ NumbersIssued /\ [Next]_vars => NumbersIssued'
<1> SUFFICES ASSUME TypeOK, RoutesFar, NumbersIssued, [Next]_vars
             PROVE  NumbersIssued'
  OBVIOUS
<1>1. CASE UNCHANGED vars
  BY <1>1 DEF vars, NumbersIssued, Issued
<1>2. CASE Next
  <2>0. TypeOK' /\ RoutesFar' /\ MessageStep
    BY <1>2, TypeStep, FarStep, MessageSteps
  <2>1. \A d \in Node : seqno[d] \in Nat /\ seqno'[d] \in Nat /\ seqno'[d] >= seqno[d]
    BY <2>0 DEF TypeOK, MessageStep, SeqnoStep
  <2>2. \A n, d \in Node :
          rt'[n][d].seqno <=
            IF rt'[n][d].flags \in {"UP", "IN_REPAIR"} THEN seqno'[d] ELSE seqno'[d] + 1
    BY <1>2, RoutesIssuedStep
  <2>3. \A n, d \in Node : /\ rt'[n][d].seqno \in Nat /\ rt[n][d].seqno \in Nat
                           /\ rt'[n][d].seqno <= seqno'[d] + 1
                           /\ rt[n][d].seqno <= seqno[d] + 1
    <3> TAKE n, d \in Node
    <3>1. rt'[n][d].seqno \in Nat /\ rt[n][d].seqno \in Nat
      BY <2>0 DEF TypeOK, Entry
    <3> QED BY <2>1, <2>2, <3>1 DEF NumbersIssued, Issued
  <2>4. ASSUME NEW m \in rreq'
        PROVE  m.srcSeqno <= seqno'[m.src] /\ m.dstSeqno <= seqno'[m.dst] + 1
    <3>1. /\ m.src \in Node /\ m.dst \in Node /\ m.from \in Node
          /\ m.srcSeqno \in Nat /\ m.dstSeqno \in Nat
      BY <2>0 DEF TypeOK, RREQ
    <3>2. CASE m \in rreq
      <4>1. m.srcSeqno <= seqno[m.src] /\ m.dstSeqno <= seqno[m.dst] + 1
        BY <3>2 DEF NumbersIssued
      <4> QED BY <2>1, <3>1, <4>1
    <3>3. CASE Started(m)
      BY <2>1, <2>3, <3>1, <3>3 DEF Started
    <3>4. CASE RequestPassed(m)
      <4>1. PICK o \in rreq :
              /\ m.src = o.src /\ m.srcSeqno = o.srcSeqno /\ m.dst = o.dst
              /\ \/ m.dstSeqno = o.dstSeqno
                 \/ m.dstSeqno = rt'[m.from][m.dst].seqno
        BY <3>4 DEF RequestPassed
      <4>2. o.srcSeqno <= seqno[o.src] /\ o.dstSeqno <= seqno[o.dst] + 1
        BY DEF NumbersIssued
      <4> QED BY <2>1, <2>3, <3>1, <4>1, <4>2
    <3> QED BY <2>0, <3>2, <3>3, <3>4 DEF MessageStep
  <2>5. ASSUME NEW m \in rrep' PROVE m.dstSeqno <= seqno'[m.dst]
    <3>1. m.dst \in Node /\ m.from \in Node /\ m.dstSeqno \in Nat
      BY <2>0 DEF TypeOK, RREP
    <3>2. CASE m \in rrep
      <4>1. m.dstSeqno <= seqno[m.dst]
        BY <3>2 DEF NumbersIssued
      <4> QED BY <2>1, <3>1, <4>1
    <3>3. CASE Answered(m)
      BY <3>1, <3>3 DEF Answered
    <3>4. CASE AnsweredFromRoute(m)
      <4>1. rt'[m.from][m.dst].flags \in {"UP", "IN_REPAIR"}
        BY <2>0, <3>1, <3>4 DEF AnsweredFromRoute, RoutesFar, Usable, TypeOK, Entry
      <4> QED BY <2>2, <3>1, <3>4, <4>1 DEF AnsweredFromRoute
    <3>5. CASE ReplyPassed(m)
      <4>1. PICK o \in rrep : m.dst = o.dst /\ m.dstSeqno = o.dstSeqno
        BY <3>5 DEF ReplyPassed
      <4>2. o.dstSeqno <= seqno[o.dst]
        BY DEF NumbersIssued
      <4> QED BY <2>1, <3>1, <4>1, <4>2
    <3> QED BY <2>0, <3>2, <3>3, <3>4, <3>5 DEF MessageStep
  <2>6. ASSUME NEW m \in rerr', NEW u \in m.unreachable
        PROVE  u[2] <= seqno'[u[1]] + 1
    <3>1. m.from \in Node /\ u[1] \in Node /\ u[2] \in Nat
      BY <2>0 DEF TypeOK, RERR
    <3>2. ASSUME NEW o \in rerr, u \in o.unreachable PROVE u[2] <= seqno'[u[1]] + 1
      <4>1. u[2] <= seqno[u[1]] + 1
        BY <3>2 DEF NumbersIssued
      <4> QED BY <2>1, <3>1, <4>1
    <3>3. CASE Reporting(m)
      BY <2>3, <3>1, <3>2, <3>3 DEF Reporting
    <3> QED BY <2>0, <3>2, <3>3 DEF MessageStep
  <2>7. \A n, d \in Node : Issued(d, rt[n][d])'
    BY <2>2 DEF Issued
  <2> QED BY <2>4, <2>5, <2>6, <2>7 DEF NumbersIssued
<1> QED BY <1>1, <1>2

\* Issued numbers are what SeqnosIssued asks for.
LEMMA IssuedMeaning == TypeOK /\ NumbersIssued => SeqnosIssued
<1> SUFFICES ASSUME TypeOK, NumbersIssued PROVE SeqnosIssued
  OBVIOUS
<1>1. ASSUME NEW n \in Node, NEW d \in Node
      PROVE  rt[n][d].seqno <=
               IF rt[n][d].flags = "UP" THEN seqno[d] ELSE seqno[d] + 1
  <2>1. rt[n][d].seqno \in Nat /\ seqno[d] \in Nat /\ Issued(d, rt[n][d])
    BY DEF TypeOK, Entry, NumbersIssued
  <2> QED BY <2>1 DEF Issued
<1> QED BY <1>1 DEF SeqnosIssued, NumbersIssued

\* Nobody, with or without local repair, believes in a sequence number its
\* destination has not issued; only the owner of a route that is not up may be
\* one ahead.
THEOREM SeqnosCome == Spec => []SeqnosIssued
<1>1. Init => NumbersIssued
  BY DEF Init, NumbersIssued, Issued, NoEntry
<1> QED BY <1>1, IssuedStep, IssuedMeaning, TypeCorrect, Far, PTL DEF Spec

-----------------------------------------------------------------------------
(***************************************************************************)
(* What every build keeps of the order of RouteOrder.                      *)
(***************************************************************************)
\* The route to d gets better or stays as good, or goes down with its number.
Yields(n, d) ==
  \/ rt'[n][d].seqno > rt[n][d].seqno
  \/ /\ rt'[n][d].seqno = rt[n][d].seqno
     /\ rt'[n][d].hops <= rt[n][d].hops \/ rt'[n][d].flags = "DOWN"

LEMMA YieldStep ==
  ASSUME TypeOK, RoutesFar, [Next]_vars, NEW n \in Node, NEW d \in Node
  PROVE  Yields(n, d)
<1>1. rt[n][d].seqno \in Nat /\ rt[n][d].hops \in Nat
  BY DEF TypeOK, Entry
<1>2. CASE UNCHANGED vars
  BY <1>1, <1>2 DEF vars, Yields
<1>3. CASE Kept(n, d) \/ Marked(n, d)
  BY <1>1, <1>3 DEF Kept, Marked, Yields
<1>4. ASSUME NEW s, NEW k, NEW h, s \in Nat, k \in Nat, Learned(n, d, s, k, h)
      PROVE  Yields(n, d)
  BY <1>1, <1>4 DEF Learned, Fresher, Yields
<1>5. CASE Dropped(n, d) \/ TimedOut(n, d)
  BY <1>1, <1>5 DEF Dropped, TimedOut, IsDown, Yields
<1>6. CASE Errored(n, d)
  <2>1. PICK m \in rerr : \E u \in m.unreachable :
          rt[n][d].seqno <= u[2] /\ IsDown(n, d, u[2])
    BY <1>6 DEF Errored
  <2>2. PICK u \in m.unreachable : rt[n][d].seqno <= u[2] /\ IsDown(n, d, u[2])
    BY <2>1
  <2>3. u[2] \in Nat
    BY DEF TypeOK, RERR
  <2> QED BY <1>1, <2>2, <2>3 DEF IsDown, Yields
<1>7. /\ \A m \in rreq : m.srcSeqno \in Nat /\ m.hops \in Nat
      /\ \A m \in rrep : m.dstSeqno \in Nat /\ m.hops \in Nat
  BY DEF TypeOK, RREQ, RREP
<1>8. CASE Next
  BY <1>3, <1>4, <1>5, <1>6, <1>7, <1>8, EntrySteps DEF EntryStep
<1> QED BY <1>2, <1>8

\* rt_update, rt_down and everybody who calls them, with and without local
\* repair: a number a node holds for a destination never falls, and among
\* routes of one number a longer one follows a shorter one only if that has
\* been taken down.
THEOREM RoutesYield == Spec => [][\A n, d \in Node : Yields(n, d)]_rt
<1>1. TypeOK /\ RoutesFar /\ [Next]_vars => [\A n, d \in Node : Yields(n, d)]_rt
  BY YieldStep
<1> QED BY <1>1, TypeCorrect, Far, PTL DEF Spec

-----------------------------------------------------------------------------
(***************************************************************************)
(* The buffer, in every build: what makes a route valid empties it for the *)
(* destination, and nothing is put in it for a destination with a valid    *)
(* route.                                                                  *)
(***************************************************************************)
\* A route that is valid after the step was valid before it.
NoneUp(n, d) == rt'[n][d].flags = "UP" => rt[n][d].flags = "UP"

\* A step that puts nothing in a buffer and makes no route valid.
LEMMA DrainedKept ==
  ASSUME TypeOK, NoneBufferedWhenUp, NEW x \in Node,
         queue'[x] \subseteq queue[x], \A d \in Node : NoneUp(x, d)
  PROVE  \A p \in queue'[x] : rt'[x][p.dst].flags # "UP"
BY DEF NoneBufferedWhenUp, NoneUp, TypeOK, Packet

\* A step that makes n's route to b valid, and leaves no packet for b in its
\* buffer.
LEMMA LearntDrained ==
  ASSUME TypeOK, NoneBufferedWhenUp, NEW n \in Node, NEW b \in Node,
         \A x \in Node : queue'[x] \subseteq queue[x],
         \A p \in queue'[n] : p.dst # b,
         \A x, d \in Node : Kept(x, d) \/ (x = n /\ d = b)
  PROVE  NoneBufferedWhenUp'
<1> SUFFICES ASSUME NEW x \in Node, NEW p \in queue'[x]
             PROVE  rt'[x][p.dst].flags # "UP"
  BY DEF NoneBufferedWhenUp
<1>1. p \in queue[x] /\ p.dst \in Node
  BY DEF TypeOK, Packet
<1>2. rt[x][p.dst].flags # "UP"
  BY <1>1 DEF NoneBufferedWhenUp
<1>3. Kept(x, p.dst)
  BY <1>1
<1> QED BY <1>2, <1>3 DEF Kept

\* sendRequest is only called for a route that is not valid.
LEMMA SendDrained ==
  ASSUME TypeOK, NoneBufferedWhenUp, NEW n \in Node, NEW d \in Node,
         NEW e \in Entry, e.flags # "UP", NEW q,
         \A p \in q : p \in queue[n] \/ p.dst = d,
         sendRequest(n, d, e, q)
  PROVE  NoneBufferedWhenUp'
<1>1. PICK c : rt' = [rt EXCEPT ![n][d] = c] /\ SameRoute(c, e)
  BY SendEntry
<1>2. /\ queue'[n] \subseteq q
      /\ \A x \in Node \ {n} : queue'[x] = queue[x]
  BY DEF sendRequest, RateLimited, GiveUp, Search, TypeOK
<1>3. rt'[n][d] = c /\ c.flags # "UP"
  BY <1>1 DEF TypeOK, SameRoute
<1>4. \A x, b \in Node : x # n \/ b # d => rt'[x][b] = rt[x][b]
  BY <1>1 DEF TypeOK
<1> SUFFICES ASSUME NEW x \in Node, NEW p \in queue'[x]
             PROVE  rt'[x][p.dst].flags # "UP"
  BY DEF NoneBufferedWhenUp
<1>5. CASE x # n
  BY <1>2, <1>4, <1>5 DEF NoneBufferedWhenUp, TypeOK, Packet
<1>6. CASE x = n /\ p.dst = d
  BY <1>3, <1>6
<1>7. CASE x = n /\ p.dst # d
  <2>1. p \in queue[n]
    BY <1>2, <1>7
  <2> QED BY <1>4, <1>7, <2>1 DEF NoneBufferedWhenUp, TypeOK, Packet
<1> QED BY <1>5, <1>6, <1>7

\* rt_resolve buffers a packet only while its route is not valid.
LEMMA ResolveDrained ==
  ASSUME TypeOK, NoneBufferedWhenUp, NEW n \in Node, NEW p \in Packet, NEW arrived,
         rt_resolve(n, p, arrived)
  PROVE  NoneBufferedWhenUp'
<1> DEFINE e == rt_add(rt[n][p.dst])
<1>1. p.dst \in Node /\ rt[n][p.dst] \in Entry /\ e \in Entry
  BY AddType DEF TypeOK, Packet
<1>2. \A x, d \in Node : NoneUp(x, d)
  BY ResolveEntryStep DEF NoneUp, Kept
<1>3. CASE ResolveForward(n, p, arrived) \/ ResolveError(n, p, arrived)
  <2>1. queue' = queue
    BY <1>3 DEF ResolveForward, ResolveError
  <2> QED BY <1>2, <2>1, DrainedKept DEF NoneBufferedWhenUp
<1>4. CASE ResolveSearch(n, p, arrived)
  <2>1. PICK lost \in SUBSET queue[n] :
          sendRequest(n, p.dst, e, (queue[n] \ lost) \cup {p})
    BY <1>4 DEF ResolveSearch
  <2>2. e.flags # "UP"
    BY <1>1, <1>4, AddKeeps DEF ResolveSearch
  <2> HIDE DEF e
  <2>3. \A o \in (queue[n] \ lost) \cup {p} : o \in queue[n] \/ o.dst = p.dst
    OBVIOUS
  <2> QED BY <1>1, <2>1, <2>2, <2>3, SendDrained
<1>5. CASE ResolveRepair(n, p, arrived)
  <2>1. /\ rt[n][p.dst].flags = "IN_REPAIR" /\ rt' = rt
        /\ \E lost : queue' = [queue EXCEPT ![n] = (@ \ lost) \cup {p}]
    BY <1>5 DEF ResolveRepair
  <2>2. \A x \in Node : \A o \in queue'[x] : o \in queue[x] \/ (x = n /\ o = p)
    BY <2>1 DEF TypeOK
  <2> QED BY <2>1, <2>2 DEF NoneBufferedWhenUp
<1> QED BY <1>3, <1>4, <1>5 DEF rt_resolve

\* The packets a request makes deliverable leave the buffer.
LEMMA RequestDrained ==
  ASSUME TypeOK, NoneBufferedWhenUp, NEW n \in Node, NEW m \in rreq, recvRequest(n, m)
  PROVE  NoneBufferedWhenUp'
<1>1. CASE DiscardRequest(n, m)
  BY <1>1 DEF DiscardRequest, NoneBufferedWhenUp
<1>2. CASE ~DiscardRequest(n, m)
  <2>1. PICK T : LearnReverse(n, m, T) /\ ReverseTable(n, m, T)
    BY <1>2, RequestLearns DEF recvRequest
  <2>2. \A x, d \in Node :
          \/ Kept(x, d)
          \/ x = n /\ d = m.src /\ Learned(n, d, m.srcSeqno, m.hops, m.from)
    BY <2>1, ReverseEntryStep
  <2>3. /\ rt[n][m.src] \in Entry /\ m.srcSeqno \in Nat /\ m.hops \in Nat
    BY DEF TypeOK, RREQ
  <2>4. CASE Fresher(rt_add(rt[n][m.src]), m.srcSeqno, m.hops)
    <3>1. PICK lost \in SUBSET queue[n] :
            queue' = [queue EXCEPT ![n] = @ \ (lost \cup Waiting(n, m.src, lost))]
      BY <2>1, <2>4 DEF LearnReverse
    <3>2. /\ \A x \in Node : queue'[x] \subseteq queue[x]
          /\ \A p \in queue'[n] : p.dst # m.src
      BY <3>1 DEF TypeOK, Waiting
    <3>3. m.src \in Node
      BY DEF TypeOK, RREQ
    <3> QED BY <2>2, <3>2, <3>3, LearntDrained
  <2>5. CASE ~Fresher(rt_add(rt[n][m.src]), m.srcSeqno, m.hops)
    <3>1. queue' = queue
      BY <2>1, <2>5 DEF LearnReverse
    <3>2. \A x, d \in Node : Kept(x, d)
      BY <2>2, <2>3, <2>5, FresherAdd DEF Learned
    <3> QED BY <3>1, <3>2, DrainedKept DEF NoneBufferedWhenUp, Kept, NoneUp
  <2> QED BY <2>4, <2>5
<1> QED BY <1>1, <1>2

\* So do those of a reply.
LEMMA ReplyDrained ==
  ASSUME TypeOK, NoneBufferedWhenUp, NEW n \in Node, NEW m \in rrep, recvReply(n, m)
  PROVE  NoneBufferedWhenUp'
<1>1. PICK T : LearnForward(n, m, T) /\ ForwardTable(n, m, T)
  BY ReplyLearns
<1>2. \A x, d \in Node :
        \/ Kept(x, d)
        \/ x = n /\ d = m.dst /\ Learned(n, d, m.dstSeqno, m.hops, m.from)
  BY <1>1, ForwardEntryStep
<1>3. /\ rt[n][m.dst] \in Entry /\ m.dstSeqno \in Nat /\ m.hops \in Nat
  BY DEF TypeOK, RREP
<1>4. CASE Fresher(rt_add(rt[n][m.dst]), m.dstSeqno, m.hops)
  <2>1. PICK lost \in SUBSET queue[n] :
          queue' = [queue EXCEPT ![n] = @ \ (lost \cup Waiting(n, m.dst, lost))]
    BY <1>1, <1>4 DEF LearnForward
  <2>2. /\ \A x \in Node : queue'[x] \subseteq queue[x]
        /\ \A p \in queue'[n] : p.dst # m.dst
    BY <2>1 DEF TypeOK, Waiting
  <2>3. m.dst \in Node
    BY DEF TypeOK, RREP
  <2> QED BY <1>2, <2>2, <2>3, LearntDrained
<1>5. CASE ~Fresher(rt_add(rt[n][m.dst]), m.dstSeqno, m.hops)
  <2>1. queue' = queue
    BY <1>1, <1>5 DEF LearnForward
  <2>2. \A x, d \in Node : Kept(x, d)
    BY <1>2, <1>3, <1>5, FresherAdd DEF Learned
  <2> QED BY <2>1, <2>2, DrainedKept DEF NoneBufferedWhenUp, Kept, NoneUp
<1> QED BY <1>4, <1>5

\* A repair puts its packet in the buffer when the route is marked.
LEMMA RepairDrained ==
  ASSUME TypeOK, NoneBufferedWhenUp, NEW n \in Node, NEW f \in data, local_rt_repair(n, f)
  PROVE  NoneBufferedWhenUp'
<1> DEFINE b == f.pkt.dst
           e == [rt[n][b] EXCEPT !.flags = "IN_REPAIR"]
<1>1. b \in Node /\ rt[n][b] \in Entry
  BY DEF TypeOK, Frame, Packet
<1>2. e \in Entry /\ e.flags # "UP"
  BY <1>1 DEF Entry
<1>3. PICK lost \in SUBSET queue[n] :
        sendRequest(n, b, e, (queue[n] \ lost) \cup {f.pkt})
  BY DEF local_rt_repair
<1> HIDE DEF e
<1>4. \A o \in (queue[n] \ lost) \cup {f.pkt} : o \in queue[n] \/ o.dst = b
  OBVIOUS
<1> QED BY <1>1, <1>2, <1>3, <1>4, SendDrained

\* Every step keeps the buffers drained.
LEMMA DrainedStep ==
  TypeOK /\ RoutesFar /\ NoneBufferedWhenUp /\ [Next]_vars => NoneBufferedWhenUp'
<1> SUFFICES ASSUME TypeOK, RoutesFar, NoneBufferedWhenUp, [Next]_vars
             PROVE  NoneBufferedWhenUp'
  OBVIOUS
<1>1. ASSUME \A x \in Node : queue'[x] \subseteq queue[x],
             \A x, d \in Node : NoneUp(x, d)
      PROVE  NoneBufferedWhenUp'
  BY <1>1, DrainedKept DEF NoneBufferedWhenUp
<1>2. ASSUME NEW s \in Node, NEW d \in Node, Originate(s, d) PROVE NoneBufferedWhenUp'
  BY <1>2, OriginateResolves, ResolveDrained
<1>3. ASSUME NEW n \in Node, NEW f \in data, Relay(n, f) PROVE NoneBufferedWhenUp'
  BY <1>3, RelayResolves, ResolveDrained
<1>4. ASSUME NEW n \in Node, NEW f \in data, Consume(n, f) PROVE NoneBufferedWhenUp'
  BY <1>4 DEF Consume, NoneBufferedWhenUp
<1>5. ASSUME NEW n \in Node, NEW f \in data, rt_ll_failed(n, f)
      PROVE  NoneBufferedWhenUp'
  <2>1. CASE BreakLink(n, f)
    <3>1. \A x, d \in Node : NoneUp(x, d)
      BY <2>1, BreakEntryStep DEF Dropped, IsDown, Kept, NoneUp
    <3> QED BY <1>1, <2>1, <3>1 DEF BreakLink
  <2> QED BY <1>5, <2>1, RepairDrained DEF rt_ll_failed
<1>6. ASSUME NEW n \in Node, NEW m \in rerr, recvError(n, m) PROVE NoneBufferedWhenUp'
  <2>1. \A x, d \in Node : NoneUp(x, d)
    BY <1>6, ErrorEntryStep DEF Errored, IsDown, Kept, NoneUp
  <2> QED BY <1>1, <1>6, <2>1 DEF recvError
<1>7. ASSUME NEW n \in Node, NEW d \in Node, LocalRepairTimer(n, d) \/ rt_purge(n, d)
      PROVE  NoneBufferedWhenUp'
  <2>1. \A x, b \in Node : NoneUp(x, b)
    BY <1>7, TimerEntryStep DEF Dropped, TimedOut, IsDown, Kept, NoneUp
  <2>2. CASE LocalRepairTimer(n, d) \/ PurgeExpired(n, d) \/ PurgeForward(n, d)
    <3>1. \A x \in Node : queue'[x] \subseteq queue[x]
      BY <2>2 DEF LocalRepairTimer, PurgeExpired, PurgeForward, TypeOK
    <3> QED BY <1>1, <2>1, <3>1
  <2>3. CASE PurgeSearch(n, d)
    <3>1. /\ sendRequest(n, d, rt[n][d], queue[n]) /\ rt[n][d].flags # "UP"
          /\ rt[n][d] \in Entry
      BY <2>3 DEF PurgeSearch, TypeOK
    <3> QED BY <3>1, SendDrained
  <2> QED BY <1>7, <2>2, <2>3 DEF rt_purge
<1>8. ASSUME NEW n \in Node, id_purge(n) PROVE NoneBufferedWhenUp'
  BY <1>8 DEF id_purge, NoneBufferedWhenUp
<1>9. CASE UNCHANGED vars
  BY <1>9 DEF vars, NoneBufferedWhenUp
<1> QED BY <1>2, <1>3, <1>4, <1>5, <1>6, <1>7, <1>8, <1>9, RequestDrained, ReplyDrained
        DEF Next

\* A packet is never left in the buffer while there is a valid route to its
\* destination, whichever of a request, a reply or a repair came first.
THEOREM BuffersDrained == Spec => []NoneBufferedWhenUp
<1>1. Init => NoneBufferedWhenUp
  BY DEF Init, NoneBufferedWhenUp
<1> QED BY <1>1, DrainedStep, TypeCorrect, Far, PTL DEF Spec

-----------------------------------------------------------------------------
(***************************************************************************)
(* A packet is in one place.  A step loses packets, or moves some of the   *)
(* buffer to the air, or puts one packet somewhere that is nowhere else.   *)
(***************************************************************************)
\* The ids of packets on their way were given out by Originate.
IdsSent ==
  /\ \A f \in data : f.pkt.id <= nsent
  /\ \A n \in Node : \A p \in queue[n] : p.id <= nsent

Once == PacketOnce /\ IdsSent

Shrinks ==
  /\ data' \subseteq data /\ nsent' = nsent
  /\ \A x \in Node : queue'[x] \subseteq queue[x]

Dequeues(n) ==
  \E R \in SUBSET queue[n] : \E hop \in [Node -> Node] :
    /\ data' \subseteq data \cup {[from |-> n, to |-> hop[p.dst], pkt |-> p] : p \in R}
    /\ queue'[n] \subseteq queue[n] \ R
    /\ \A x \in Node : queue'[x] \subseteq queue[x]
    /\ nsent' = nsent

\* Nobody has a packet with the id of p but the frames of arrived.
Nowhere(p, arrived) ==
  /\ \A f \in data \ arrived : f.pkt.id # p.id
  /\ \A x \in Node : \A o \in queue[x] : o.id # p.id

Resolves(n, p, arrived) ==
  /\ \A x \in Node \ {n} : queue'[x] \subseteq queue[x]
  /\ \/ /\ \E hop : data' \subseteq
             (data \ arrived) \cup {[from |-> n, to |-> hop, pkt |-> p]}
        /\ queue'[n] \subseteq queue[n]
     \/ /\ data' \subseteq data \ arrived
        /\ queue'[n] \subseteq queue[n] \cup {p}

\* Losing packets is harmless.
LEMMA ShrinkOnce ==
  ASSUME Once, Shrinks
  PROVE  Once'
BY DEF Once, PacketOnce, IdsSent, Shrinks

\* So is moving packets from the buffer to the air.
LEMMA DequeueOnce ==
  ASSUME TypeOK, Once, NEW n \in Node, Dequeues(n)
  PROVE  Once'
<1>1. PICK R \in SUBSET queue[n], hop \in [Node -> Node] :
        /\ data' \subseteq data \cup {[from |-> n, to |-> hop[p.dst], pkt |-> p] : p \in R}
        /\ queue'[n] \subseteq queue[n] \ R
        /\ \A x \in Node : queue'[x] \subseteq queue[x]
        /\ nsent' = nsent
  BY DEF Dequeues
<1>2. \A f \in data' : f \in data \/ \E p \in R :
                         /\ f = [from |-> n, to |-> hop[p.dst], pkt |-> p]
                         /\ f.pkt = p
  BY <1>1
<1>3. \A f, g \in data' : f.pkt.id = g.pkt.id => f = g
  <2> SUFFICES ASSUME NEW f \in data', NEW g \in data', f.pkt.id = g.pkt.id
               PROVE  f = g
    OBVIOUS
  <2>1. CASE f \in data /\ g \in data
    BY <2>1 DEF Once, PacketOnce
  <2>2. CASE f \in data /\ g \notin data
    BY <1>2, <2>2 DEF Once, PacketOnce
  <2>3. CASE f \notin data /\ g \in data
    BY <1>2, <2>3 DEF Once, PacketOnce
  <2>4. CASE f \notin data /\ g \notin data
    <3>1. PICK p \in R, o \in R :
            /\ f = [from |-> n, to |-> hop[p.dst], pkt |-> p] /\ f.pkt = p
            /\ g = [from |-> n, to |-> hop[o.dst], pkt |-> o] /\ g.pkt = o
      BY <1>2, <2>4
    <3>2. p = o
      BY <3>1 DEF Once, PacketOnce
    <3> QED BY <3>1, <3>2
  <2> QED BY <2>1, <2>2, <2>3, <2>4
<1>4. ASSUME NEW x \in Node, NEW p \in queue'[x]
      PROVE  /\ \A f \in data' : f.pkt.id # p.id
             /\ \A y \in Node : \A o \in queue'[y] : p.id = o.id => p = o /\ x = y
  <2>1. p \in queue[x] /\ (x = n => p \notin R)
    BY <1>1
  <2>2. \A f \in data' : f.pkt.id # p.id
    BY <1>2, <2>1 DEF Once, PacketOnce
  <2>3. \A y \in Node : \A o \in queue'[y] : p.id = o.id => p = o /\ x = y
    BY <1>1, <2>1 DEF Once, PacketOnce
  <2> QED BY <2>2, <2>3
<1>5. IdsSent'
  <2>1. \A f \in data' : f.pkt.id <= nsent'
    BY <1>1, <1>2 DEF Once, IdsSent
  <2> QED BY <1>1, <2>1 DEF Once, IdsSent
<1> QED BY <1>3, <1>4, <1>5 DEF Once, PacketOnce

\* So is putting a packet somewhere that is nowhere else.
LEMMA ResolveOnce ==
  ASSUME TypeOK, Once, NEW n \in Node, NEW p \in Packet, NEW arrived,
         Nowhere(p, arrived), Resolves(n, p, arrived),
         nsent' \in Nat, nsent <= nsent', p.id <= nsent'
  PROVE  Once'
<1>0. ASSUME NEW i \in Nat, i <= nsent PROVE i <= nsent'
  BY <1>0 DEF TypeOK
<1>1. /\ \A f \in data : f.pkt.id \in Nat
      /\ \A x \in Node : \A o \in queue[x] : o.id \in Nat
  BY DEF TypeOK, Frame, Packet
<1>2. CASE /\ \E hop : data' \subseteq
                (data \ arrived) \cup {[from |-> n, to |-> hop, pkt |-> p]}
           /\ queue'[n] \subseteq queue[n]
  <2> PICK hop : data' \subseteq
                   (data \ arrived) \cup {[from |-> n, to |-> hop, pkt |-> p]}
    BY <1>2
  <2> DEFINE g == [from |-> n, to |-> hop, pkt |-> p]
  <2>1. /\ data' \subseteq (data \ arrived) \cup {g}
        /\ g.pkt = p
    OBVIOUS
  <2> HIDE DEF g
  <2>2. \A x \in Node : queue'[x] \subseteq queue[x]
    BY <1>2 DEF Resolves
  <2>3. \A f, h \in data' : f.pkt.id = h.pkt.id => f = h
    BY <2>1 DEF Nowhere, Once, PacketOnce
  <2>4. \A x \in Node : \A o \in queue'[x] :
          /\ \A f \in data' : f.pkt.id # o.id
          /\ \A y \in Node : \A r \in queue'[y] : o.id = r.id => o = r /\ x = y
    BY <2>1, <2>2 DEF Nowhere, Once, PacketOnce
  <2>5. IdsSent'
    BY <1>0, <1>1, <2>1, <2>2 DEF Once, IdsSent
  <2> QED BY <2>3, <2>4, <2>5 DEF Once, PacketOnce
<1>3. CASE data' \subseteq data \ arrived /\ queue'[n] \subseteq queue[n] \cup {p}
  <2>1. \A x \in Node : \A o \in queue'[x] : o \in queue[x] \/ (x = n /\ o = p)
    BY <1>3 DEF Resolves
  <2>2. \A f, h \in data' : f.pkt.id = h.pkt.id => f = h
    BY <1>3 DEF Once, PacketOnce
  <2>3. \A x \in Node : \A o \in queue'[x] : \A f \in data' : f.pkt.id # o.id
    BY <1>3, <2>1 DEF Nowhere, Once, PacketOnce
  <2>4. \A x, y \in Node : \A o \in queue'[x] : \A r \in queue'[y] :
          o.id = r.id => o = r /\ x = y
    BY <2>1 DEF Nowhere, Once, PacketOnce
  <2>5. IdsSent'
    BY <1>0, <1>1, <1>3, <2>1 DEF Once, IdsSent
  <2> QED BY <2>2, <2>3, <2>4, <2>5 DEF Once, PacketOnce
<1> QED BY <1>2, <1>3 DEF Resolves

\* sendRequest only loses packets of the buffer it is called with.
LEMMA SendQueue ==
  ASSUME TypeOK, NEW n \in Node, NEW d, NEW e, NEW q, sendRequest(n, d, e, q)
  PROVE  queue'[n] \subseteq q /\ \A x \in Node \ {n} : queue'[x] = queue[x]
BY DEF sendRequest, RateLimited, GiveUp, Search, TypeOK

\* rt_resolve puts its packet in one place.
LEMMA ResolveResolves ==
  ASSUME TypeOK, NEW n \in Node, NEW p, NEW arrived, rt_resolve(n, p, arrived)
  PROVE  Resolves(n, p, arrived)
<1>1. CASE ResolveForward(n, p, arrived)
  BY <1>1 DEF ResolveForward, Frames, Resolves
<1>2. CASE ResolveSearch(n, p, arrived)
  <2> DEFINE e == rt_add(rt[n][p.dst])
  <2>1. PICK lost \in SUBSET queue[n] :
          sendRequest(n, p.dst, e, (queue[n] \ lost) \cup {p})
    BY <1>2 DEF ResolveSearch
  <2>2. data' = data \ arrived
    BY <1>2 DEF ResolveSearch
  <2> HIDE DEF e
  <2>3. /\ queue'[n] \subseteq queue[n] \cup {p}
        /\ \A x \in Node \ {n} : queue'[x] = queue[x]
    BY <2>1, SendQueue
  <2> QED BY <2>2, <2>3 DEF Resolves
<1>3. CASE ResolveRepair(n, p, arrived)
  BY <1>3 DEF ResolveRepair, Resolves, TypeOK
<1>4. CASE ResolveError(n, p, arrived)
  BY <1>4 DEF ResolveError, Resolves
<1> QED BY <1>1, <1>2, <1>3, <1>4 DEF rt_resolve

\* What a learnt route takes out of the buffer goes to the air.
LEMMA LearnDequeues ==
  ASSUME TypeOK, NEW n \in Node, NEW hop \in Node, NEW lost, NEW ready \in SUBSET queue[n],
         queue' = [queue EXCEPT ![n] = @ \ (lost \cup ready)],
         data' = data \cup Frames(n, hop, ready), nsent' = nsent
  PROVE  Dequeues(n)
<1> DEFINE h == [d \in Node |-> hop]
<1>1. h \in [Node -> Node]
  OBVIOUS
<1>2. \A p \in ready : h[p.dst] = hop
  BY DEF TypeOK, Packet
<1> HIDE DEF h
<1>3. data' \subseteq data \cup {[from |-> n, to |-> h[p.dst], pkt |-> p] : p \in ready}
  BY <1>2 DEF Frames
<1>4. queue'[n] \subseteq queue[n] \ ready /\ \A x \in Node : queue'[x] \subseteq queue[x]
  BY DEF TypeOK
<1> QED BY <1>1, <1>3, <1>4 DEF Dequeues

\* What a request or a reply for d takes out of the buffer, if anything.
LEMMA LearnOnce ==
  ASSUME TypeOK, Once, NEW n \in Node, NEW hop \in Node, NEW d, nsent' = nsent,
         \/ UNCHANGED <<queue, data>>
         \/ \E lost \in SUBSET queue[n] :
              LET ready == Waiting(n, d, lost)
              IN /\ queue' = [queue EXCEPT ![n] = @ \ (lost \cup ready)]
                 /\ data' = data \cup Frames(n, hop, ready)
  PROVE  Once'
<1>1. CASE UNCHANGED <<queue, data>>
  BY <1>1, ShrinkOnce DEF Shrinks
<1>2. ASSUME NEW lost \in SUBSET queue[n], NEW ready, ready = Waiting(n, d, lost),
             queue' = [queue EXCEPT ![n] = @ \ (lost \cup ready)],
             data' = data \cup Frames(n, hop, ready)
      PROVE  Once'
  <2>1. ready \in SUBSET queue[n]
    BY <1>2 DEF Waiting
  <2> QED BY <1>2, <2>1, LearnDequeues, DequeueOnce
<1> QED BY <1>1, <1>2

\* Every step.
LEMMA OnceStep == TypeOK /\ Once /\ [Next]_vars => Once'
<1> SUFFICES ASSUME TypeOK, Once, [Next]_vars PROVE Once'
  OBVIOUS
<1>1. ASSUME NEW s \in Node, NEW d \in Node, Originate(s, d) PROVE Once'
  <2> DEFINE p == Fresh(s, d)
  <2>1. /\ p \in Packet /\ p.id = nsent + 1 /\ rt_resolve(s, p, {})
        /\ nsent' = nsent + 1 /\ nsent \in Nat
    BY <1>1, OriginateResolves DEF TypeOK
  <2> HIDE DEF p
  <2>2. Nowhere(p, {})
    <3>1. /\ \A f \in data : f.pkt.id \in Nat /\ f.pkt.id <= nsent
          /\ \A x \in Node : \A o \in queue[x] : o.id \in Nat /\ o.id <= nsent
      BY DEF TypeOK, Frame, Packet, Once, IdsSent
    <3> QED BY <2>1, <3>1 DEF Nowhere
  <2>3. Resolves(s, p, {})
    BY <2>1, ResolveResolves
  <2> QED BY <2>1, <2>2, <2>3, ResolveOnce
<1>2. ASSUME NEW n \in Node, NEW f \in data, NEW p \in Packet,
             p.id = f.pkt.id, nsent' = nsent, Resolves(n, p, {f})
      PROVE  Once'
  <2>1. Nowhere(p, {f})
    BY <1>2 DEF Nowhere, Once, PacketOnce
  <2>2. nsent' \in Nat /\ nsent <= nsent' /\ p.id <= nsent'
    BY <1>2 DEF TypeOK, Once, IdsSent
  <2> QED BY <1>2, <2>1, <2>2, ResolveOnce
<1>3. ASSUME NEW n \in Node, NEW f \in data, Relay(n, f) PROVE Once'
  BY <1>2, <1>3, RelayResolves, ResolveResolves
<1>4. ASSUME NEW n \in Node, NEW f \in data, Consume(n, f) PROVE Once'
  BY <1>4, ShrinkOnce DEF Consume, Shrinks
<1>5. ASSUME NEW n \in Node, NEW f \in data, rt_ll_failed(n, f) PROVE Once'
  <2>1. CASE BreakLink(n, f)
    BY <2>1, ShrinkOnce DEF BreakLink, filter, Shrinks
  <2>2. CASE local_rt_repair(n, f)
    <3> DEFINE e == [rt[n][f.pkt.dst] EXCEPT !.flags = "IN_REPAIR"]
    <3>1. /\ \E lost \in SUBSET queue[n] :
               sendRequest(n, f.pkt.dst, e, (queue[n] \ lost) \cup {f.pkt})
          /\ data' = data \ {f} /\ nsent' = nsent
      BY <2>2 DEF local_rt_repair
    <3> HIDE DEF e
    <3>2. /\ queue'[n] \subseteq queue[n] \cup {f.pkt}
          /\ \A x \in Node \ {n} : queue'[x] = queue[x]
      BY <3>1, SendQueue
    <3>3. Resolves(n, f.pkt, {f}) /\ f.pkt \in Packet
      BY <3>1, <3>2 DEF Resolves, TypeOK, Frame
    <3> QED BY <1>2, <3>1, <3>3
  <2> QED BY <1>5, <2>1, <2>2 DEF rt_ll_failed
<1>6. ASSUME NEW n \in Node, NEW m \in rreq, recvRequest(n, m) PROVE Once'
  <2>1. CASE DiscardRequest(n, m)
    BY <2>1, ShrinkOnce DEF DiscardRequest, Shrinks
  <2>2. CASE AnswerRequest(n, m) \/ AnswerFromRoute(n, m) \/ ForwardRequest(n, m)
    <3>1. (\E T : LearnReverse(n, m, T)) /\ nsent' = nsent
      BY <2>2 DEF AnswerRequest, AnswerFromRoute, ForwardRequest
    <3>2. m.from \in Node
      BY DEF TypeOK, RREQ
    <3>3. \/ UNCHANGED <<queue, data>>
          \/ \E lost \in SUBSET queue[n] :
               LET ready == Waiting(n, m.src, lost)
               IN /\ queue' = [queue EXCEPT ![n] = @ \ (lost \cup ready)]
                  /\ data' = data \cup Frames(n, m.from, ready)
      BY <3>1 DEF LearnReverse
    <3> QED BY <3>1, <3>2, <3>3, LearnOnce
  <2> QED BY <1>6, <2>1, <2>2 DEF recvRequest
<1>7. ASSUME NEW n \in Node, NEW m \in rrep, recvReply(n, m) PROVE Once'
  <2>1. (\E T : LearnForward(n, m, T)) /\ nsent' = nsent
    BY <1>7 DEF recvReply, AcceptReply, ForwardReply
  <2>2. m.from \in Node
    BY DEF TypeOK, RREP
  <2>3. \/ UNCHANGED <<queue, data>>
        \/ \E lost \in SUBSET queue[n] :
             LET ready == Waiting(n, m.dst, lost)
             IN /\ queue' = [queue EXCEPT ![n] = @ \ (lost \cup ready)]
                /\ data' = data \cup Frames(n, m.from, ready)
    BY <2>1 DEF LearnForward
  <2> QED BY <2>1, <2>2, <2>3, LearnOnce
<1>8. ASSUME NEW n \in Node, NEW m \in rerr, recvError(n, m) PROVE Once'
  BY <1>8, ShrinkOnce DEF recvError, filter, Shrinks
<1>9. ASSUME NEW n \in Node, NEW d \in Node, LocalRepairTimer(n, d) \/ rt_purge(n, d)
      PROVE  Once'
  <2>1. CASE LocalRepairTimer(n, d)
    BY <2>1, ShrinkOnce DEF LocalRepairTimer, Shrinks
  <2>2. CASE PurgeExpired(n, d)
    <3>1. Shrinks
      BY <2>2 DEF PurgeExpired, Shrinks, TypeOK
    <3> QED BY <3>1, ShrinkOnce
  <2>3. CASE PurgeForward(n, d)
    <3>1. nsent' = nsent /\ rt[n][d].nexthop \in Node
      BY <2>3 DEF PurgeForward, TypeOK, Entry
    <3>2. \E lost \in SUBSET queue[n] :
            LET ready == Waiting(n, d, lost)
            IN /\ queue' = [queue EXCEPT ![n] = @ \ (lost \cup ready)]
               /\ data' = data \cup Frames(n, rt[n][d].nexthop, ready)
      BY <2>3, Zenon DEF PurgeForward
    <3> QED BY <3>1, <3>2, LearnOnce
  <2>4. CASE PurgeSearch(n, d)
    <3> DEFINE e == rt[n][d]
    <3>1. sendRequest(n, d, e, queue[n]) /\ data' = data /\ nsent' = nsent
      BY <2>4 DEF PurgeSearch
    <3> HIDE DEF e
    <3>2. queue'[n] \subseteq queue[n] /\ \A x \in Node \ {n} : queue'[x] = queue[x]
      BY <3>1, SendQueue
    <3>3. Shrinks
      BY <3>1, <3>2 DEF Shrinks
    <3> QED BY <3>3, ShrinkOnce
  <2> QED BY <1>9, <2>1, <2>2, <2>3, <2>4 DEF rt_purge
<1>10. ASSUME NEW n \in Node, id_purge(n) PROVE Once'
  BY <1>10, ShrinkOnce DEF id_purge, Shrinks
<1>11. CASE UNCHANGED vars
  BY <1>11, ShrinkOnce DEF vars, Shrinks
<1> QED BY <1>1, <1>3, <1>4, <1>5, <1>6, <1>7, <1>8, <1>9, <1>10, <1>11 DEF Next

\* The request, the reply, the local repair, the route timer and the
\* application all move packets of one buffer: none of them leaves a copy
\* behind or sends one twice.
THEOREM PacketIsOnce == Spec => []PacketOnce
<1>1. Init => Once
  BY DEF Init, Once, PacketOnce, IdsSent
<1>2. Once => PacketOnce
  BY DEF Once
<1> QED BY <1>1, <1>2, OnceStep, TypeCorrect, PTL DEF Spec

-----------------------------------------------------------------------------
(***************************************************************************)
(* Assertions, with local repair or without it.                            *)
(*                                                                         *)
(* A repair that times out leaves a route its number and takes its         *)
(* distance, so that in a build with local repair a longer route with the  *)
(* same number may be learned again, and nothing in the code bounds the    *)
(* hop count of a reply.  A reply that has come INFINITY2 hops would look  *)
(* like no route: what follows is about behaviours in which none does.     *)
(***************************************************************************)
RepliesNear == \A m \in rrep : m.hops < INFINITY2

\* Routes with a distance, and what they are learnt from, have even numbers;
\* a valid route has a distance.
EvenRoutes ==
  /\ \A n \in Node : seqno[n] % 2 = 0
  /\ \A n, d \in Node : Usable(rt[n][d]) => rt[n][d].seqno % 2 = 0
  /\ \A n, d \in Node : rt[n][d].flags = "UP" => Usable(rt[n][d])
  /\ \A m \in rreq : m.srcSeqno % 2 = 0 /\ m.hops + m.ttl <= NETWORK_DIAMETER + 1
  /\ \A m \in rrep : m.dstSeqno % 2 = 0

\* Every step keeps them so.
LEMMA EvenRoutesStep ==
  ASSUME TypeOK, RoutesFar, EvenRoutes, RepliesNear, [Next]_vars
  PROVE  EvenRoutes'
<1>1. CASE UNCHANGED vars
  BY <1>1 DEF vars, EvenRoutes, Usable
<1>2. CASE Next
  <2>1. TypeOK' /\ MessageStep
    BY <1>2, TypeStep, MessageSteps
  <2>2. \A n \in Node : seqno'[n] % 2 = 0 /\ seqno[n] % 2 = 0 /\ seqno[n] \in Nat
    BY <2>1 DEF MessageStep, SeqnoStep, EvenRoutes, TypeOK
  <2>3. ASSUME NEW n \in Node, NEW d \in Node
        PROVE  /\ rt'[n][d].hops # INFINITY2 => rt'[n][d].seqno % 2 = 0
               /\ rt'[n][d].flags = "UP" => rt'[n][d].hops # INFINITY2
    <3>1. /\ rt[n][d].hops # INFINITY2 => rt[n][d].seqno % 2 = 0
          /\ rt[n][d].flags = "UP" => rt[n][d].hops # INFINITY2
      BY DEF EvenRoutes, Usable
    <3>2. CASE Kept(n, d)
      BY <3>1, <3>2 DEF Kept
    <3>3. CASE Marked(n, d)
      BY <3>1, <3>3 DEF Marked, Usable
    <3>4. ASSUME NEW m \in rreq, Learned(n, d, m.srcSeqno, m.hops, m.from)
          PROVE  rt'[n][d].seqno % 2 = 0 /\ rt'[n][d].hops # INFINITY2
      <4>1. /\ m.hops \in Nat /\ m.ttl \in Nat \ {0}
            /\ m.srcSeqno % 2 = 0 /\ m.hops + m.ttl <= NETWORK_DIAMETER + 1
        BY DEF TypeOK, RREQ, EvenRoutes
      <4>2. m.hops # INFINITY2
        BY <4>1, ConstantAssumption
      <4> QED BY <3>4, <4>1, <4>2 DEF Learned
    <3>5. ASSUME NEW m \in rrep, Learned(n, d, m.dstSeqno, m.hops, m.from)
          PROVE  rt'[n][d].seqno % 2 = 0 /\ rt'[n][d].hops # INFINITY2
      <4>1. m.hops \in Nat /\ m.dstSeqno % 2 = 0 /\ m.hops < INFINITY2
        BY DEF TypeOK, RREP, EvenRoutes, RepliesNear
      <4>2. m.hops # INFINITY2
        BY <4>1, ConstantAssumption
      <4> QED BY <3>5, <4>1, <4>2 DEF Learned
    <3>6. CASE Dropped(n, d) \/ Errored(n, d) \/ TimedOut(n, d)
      BY <3>6 DEF Dropped, Errored, TimedOut, IsDown
    <3> QED BY <1>2, <3>2, <3>3, <3>4, <3>5, <3>6, EntrySteps DEF EntryStep
  <2>4. ASSUME NEW m \in rreq'
        PROVE  m.srcSeqno % 2 = 0 /\ m.hops + m.ttl <= NETWORK_DIAMETER + 1
    <3>1. m.src \in Node
      BY <2>1 DEF TypeOK, RREQ
    <3>2. CASE m \in rreq
      BY <3>2 DEF EvenRoutes
    <3>3. CASE Started(m)
      BY <2>2, <3>1, <3>3, ConstantAssumption DEF Started
    <3>4. CASE RequestPassed(m)
      <4>1. PICK o \in rreq : /\ m.srcSeqno = o.srcSeqno
                              /\ m.hops = o.hops + 1 /\ m.ttl = o.ttl - 1
        BY <3>4 DEF RequestPassed
      <4>2. /\ o.srcSeqno % 2 = 0 /\ o.hops + o.ttl <= NETWORK_DIAMETER + 1
            /\ o.hops \in Nat /\ o.ttl \in Nat
        BY DEF EvenRoutes, TypeOK, RREQ
      <4> QED BY <4>1, <4>2, ConstantAssumption
    <3> QED BY <2>1, <3>2, <3>3, <3>4 DEF MessageStep
  <2>5. ASSUME NEW m \in rrep' PROVE m.dstSeqno % 2 = 0
    <3>1. m.dst \in Node /\ m.from \in Node
      BY <2>1 DEF TypeOK, RREP
    <3>2. CASE m \in rrep
      BY <3>2 DEF EvenRoutes
    <3>3. CASE Answered(m)
      BY <3>3 DEF Answered
    <3>4. CASE AnsweredFromRoute(m)
      BY <2>3, <3>1, <3>4 DEF AnsweredFromRoute
    <3>5. CASE ReplyPassed(m)
      BY <3>5 DEF ReplyPassed, EvenRoutes
    <3> QED BY <2>1, <3>2, <3>3, <3>4, <3>5 DEF MessageStep
  <2> QED BY <2>2, <2>3, <2>4, <2>5 DEF EvenRoutes, Usable
<1> QED BY <1>1, <1>2

\* sendRequest asserts that its node's number is even, and keeps it so.
LEMMA SendAsserts ==
  ASSUME TypeOK, NEW n \in Node, seqno[n] % 2 = 0, NEW d, NEW e, NEW q, failed = {},
         sendRequest(n, d, e, q)
  PROVE  failed' = {}
<1>1. CASE RateLimited(n, d, e, q) \/ GiveUp(n, d, e, q)
  BY <1>1 DEF RateLimited, GiveUp
<1>2. CASE Search(n, d, e, q)
  <2>1. seqno[n] \in Nat
    BY DEF TypeOK
  <2>2. seqno'[n] = seqno[n] + 2
    BY <1>2 DEF Search, TypeOK
  <2>3. seqno'[n] % 2 = 0
    BY <2>1, <2>2
  <2> QED BY <1>2, <2>3 DEF Search, Assert
<1> QED BY <1>1, <1>2 DEF sendRequest

\* rt_resolve does not trip over a valid route without distance.
LEMMA ResolveAsserts ==
  ASSUME TypeOK, NEW n \in Node, NEW p \in Packet, NEW arrived,
         seqno[n] % 2 = 0, rt[n][p.dst].flags = "UP" => Usable(rt[n][p.dst]),
         failed = {}, rt_resolve(n, p, arrived)
  PROVE  failed' = {}
<1> DEFINE e == rt_add(rt[n][p.dst])
<1>1. p.dst \in Node /\ rt[n][p.dst] \in Entry /\ e \in Entry
  BY AddType DEF TypeOK, Packet
<1>2. CASE ResolveForward(n, p, arrived)
  BY <1>1, <1>2 DEF ResolveForward, Assert
<1>3. CASE ResolveSearch(n, p, arrived)
  <2>1. PICK q : sendRequest(n, p.dst, e, q)
    BY <1>3 DEF ResolveSearch
  <2> HIDE DEF e
  <2> QED BY <1>1, <2>1, SendAsserts
<1>4. CASE ResolveRepair(n, p, arrived)
  BY <1>1, <1>4 DEF ResolveRepair
<1>5. CASE ResolveError(n, p, arrived)
  <2>1. e.flags = "DOWN" /\ failed' = failed \cup Assert(e.flags = "DOWN", "rt_resolve")
    BY <1>1, <1>5 DEF ResolveError, rt_add, Entry
  <2> QED BY <1>1, <2>1 DEF Assert
<1> QED BY <1>2, <1>3, <1>4, <1>5 DEF rt_resolve

\* The property of a step.
Aborts ==
  /\ failed' \subseteq {"handle_link_failure", "recvError", "recvReply"}
  /\ "handle_link_failure" \in failed' => LinkFailureAborts
  /\ "recvError" \in failed' => ErrorAborts
  /\ "recvReply" \in failed' => ReplyAborts

\* Every step has it.
LEMMA AbortsStep ==
  ASSUME TypeOK, RoutesFar, EvenRoutes, EvenRoutes', Next
  PROVE  Aborts
<1>0. failed = {} /\ \A n \in Node : seqno[n] % 2 = 0
  BY DEF Next, EvenRoutes
<1>1. ASSUME failed' = {} PROVE Aborts
  BY <1>1 DEF Aborts
<1>2. \A n, d \in Node :
        /\ rt[n][d] \in Entry
        /\ rt[n][d].flags = "UP" => Usable(rt[n][d])
        /\ Usable(rt[n][d]) => /\ rt[n][d].flags \in {"UP", "IN_REPAIR"}
                               /\ rt[n][d].seqno % 2 = 0
  <2>1. \A n, d \in Node : rt[n][d] \in Entry
    BY DEF TypeOK
  <2>2. \A n, d \in Node : Usable(rt[n][d]) => rt[n][d].flags \in {"UP", "IN_REPAIR"}
    BY <2>1 DEF RoutesFar, Entry
  <2> QED BY <2>1, <2>2 DEF EvenRoutes
<1>3. \A p \in Packet : p.dst \in Node
  BY DEF Packet
<1>4. ASSUME NEW s \in Node, NEW d \in Node, Originate(s, d) PROVE Aborts
  BY <1>0, <1>1, <1>2, <1>3, <1>4, OriginateResolves, ResolveAsserts
<1>5. ASSUME NEW n \in Node, NEW f \in data, Relay(n, f) PROVE Aborts
  BY <1>0, <1>1, <1>2, <1>3, <1>5, RelayResolves, ResolveAsserts
<1>6. ASSUME NEW n \in Node, NEW f \in data, Consume(n, f) PROVE Aborts
  BY <1>0, <1>1, <1>6 DEF Consume
<1>7. ASSUME NEW n \in Node, NEW f \in data, rt_ll_failed(n, f) PROVE Aborts
  <2>1. CASE local_rt_repair(n, f)
    BY <1>0, <1>1, <2>1, SendAsserts DEF local_rt_repair
  <2>2. CASE BreakLink(n, f)
    <3> DEFINE up == \A d \in Through(n, f.to) : rt[n][d].flags = "UP"
    <3>1. \A d \in Through(n, f.to) : rt[n][d].seqno % 2 = 0
      BY <1>2 DEF Through
    <3>2. seqno'[n] % 2 = 0
      BY DEF EvenRoutes
    <3>3. failed' = Assert(up, "handle_link_failure")
      BY <1>0, <2>2, <3>1, <3>2 DEF BreakLink, Assert
    <3>4. f \in data \ data' /\ f.from = n
      BY <1>7, <2>2 DEF rt_ll_failed, BreakLink
    <3>5. ~up => \E d \in Node : UnderRepair(n, d) /\ rt[n][d].nexthop = f.to
      BY <1>2 DEF Through, UnderRepair
    <3> HIDE DEF up
    <3>6. ~up => LinkFailureAborts
      BY <3>4, <3>5 DEF LinkFailureAborts
    <3>7. failed' \subseteq {"handle_link_failure"} /\ (failed' # {} => ~up)
      BY <3>3 DEF Assert
    <3> QED BY <3>6, <3>7 DEF Aborts
  <2> QED BY <1>7, <2>1, <2>2 DEF rt_ll_failed
<1>8. ASSUME NEW n \in Node, NEW m \in rreq, recvRequest(n, m) PROVE Aborts
  BY <1>0, <1>1, <1>8 DEF recvRequest, DiscardRequest, AnswerRequest, AnswerFromRoute,
                          ForwardRequest
<1>9. ASSUME NEW n \in Node, NEW m \in rrep, recvReply(n, m) PROVE Aborts
  <2>1. CASE AcceptReply(n, m)
    BY <1>0, <1>1, <2>1 DEF AcceptReply
  <2>2. CASE ForwardReply(n, m)
    <3> DEFINE back == WithForward(n, m)[m.ipdst]
               next == [m EXCEPT !.from = n, !.to = back.nexthop,
                                 !.hops = @ + 1, !.ttl = @ - 1]
    <3>1. /\ Usable(back)
          /\ failed' = Assert(back.flags = "UP", "recvReply")
          /\ rrep' \subseteq (rrep \ {m}) \cup {next}
      BY <1>0, <2>2 DEF ForwardReply
    <3>2. m \in RREP /\ m.ipdst \in Node /\ m.dst \in Node
      BY DEF TypeOK, RREP
    <3>3. m.to = n /\ m.from # n
      BY <2>2, TopologyAssumption DEF ForwardReply, LearnForward, Delivered
    <3>4. next.from = n
      BY <3>2 DEF RREP
    <3>5. m \in rrep \ rrep'
      BY <3>1, <3>3, <3>4
    <3>6. back.flags = "UP" \/ back = rt[n][m.ipdst]
      <4>1. CASE m.ipdst = m.dst
        <5> DEFINE e == rt_add(rt[n][m.dst])
        <5>1. e \in Entry /\ Fresher(e, m.dstSeqno, m.hops)
          BY <1>2, <2>2, <3>2, AddType DEF ForwardReply, Suppressed
        <5>2. back = ForwardRoute(e, m)
          BY <3>2, <4>1 DEF WithForward, TypeOK
        <5> HIDE DEF e, back
        <5>3. back.flags = "UP"
          BY <5>1, <5>2 DEF ForwardRoute, SearchOver, rt_update, Entry
        <5> QED BY <5>3
      <4>2. CASE m.ipdst # m.dst
        BY <3>2, <4>2 DEF WithForward, TypeOK
      <4> QED BY <4>1, <4>2
    <3> HIDE DEF back, next
    <3>7. failed' \subseteq {"recvReply"} /\ (failed' # {} => back.flags # "UP")
      BY <3>1 DEF Assert
    <3>8. failed' # {} => UnderRepair(n, m.ipdst)
      BY <1>2, <3>1, <3>2, <3>6, <3>7 DEF UnderRepair
    <3>9. failed' # {} => ReplyAborts
      BY <3>3, <3>5, <3>8 DEF ReplyAborts
    <3> QED BY <3>7, <3>9 DEF Aborts
  <2> QED BY <1>9, <2>1, <2>2 DEF recvReply
<1>10. ASSUME NEW n \in Node, NEW m \in rerr, recvError(n, m) PROVE Aborts
  <2> DEFINE up == \A u \in Hit(n, m) : rt[n][u[1]].flags = "UP"
  <2>1. \A u \in Hit(n, m) : /\ u \in m.unreachable /\ u[1] \in Node
                             /\ Usable(rt[n][u[1]]) /\ rt[n][u[1]].nexthop = m.from
    BY DEF Hit, TypeOK, RERR
  <2>2. \A u \in Hit(n, m) : rt[n][u[1]].seqno % 2 = 0
    BY <1>2, <2>1
  <2>3. failed' = Assert(up, "recvError")
    BY <1>0, <1>10, <2>2 DEF recvError, Assert
  <2>4. m.to = n /\ m.from # n
    BY <1>10, TopologyAssumption DEF recvError, Delivered
  <2>5. m \in rerr \ rerr'
    <3>1. \A o \in sendError(n, Reported(n, m)) : o.from = n
      BY DEF sendError, Broadcast
    <3>2. rerr' = (rerr \ {m}) \cup sendError(n, Reported(n, m))
      BY <1>10 DEF recvError
    <3> QED BY <2>4, <3>1, <3>2
  <2>6. ~up => ErrorAborts
    BY <1>2, <2>1, <2>4, <2>5 DEF ErrorAborts, UnderRepair
  <2> HIDE DEF up
  <2>7. failed' \subseteq {"recvError"} /\ (failed' # {} => ~up)
    BY <2>3 DEF Assert
  <2> QED BY <2>6, <2>7 DEF Aborts
<1>11. ASSUME NEW n \in Node, NEW d \in Node, LocalRepairTimer(n, d) \/ rt_purge(n, d)
       PROVE  Aborts
  <2>1. CASE LocalRepairTimer(n, d)
    BY <1>0, <1>1, <2>1 DEF LocalRepairTimer
  <2>2. CASE PurgeExpired(n, d)
    <3>1. rt[n][d].flags = "UP" /\ rt'[n][d] = Invalidate(rt[n][d])
      BY <2>2 DEF PurgeExpired, TypeOK
    <3>2. Usable(rt[n][d]) /\ rt[n][d].seqno % 2 = 0 /\ rt[n][d].seqno \in Nat
      BY <1>2, <3>1 DEF Entry
    <3>3. rt'[n][d].seqno = rt[n][d].seqno + 1
      BY <1>2, <3>1, InvalidateDrops
    <3>4. rt'[n][d].seqno % 2 = 1
      BY <3>2, <3>3
    <3> QED BY <1>0, <1>1, <2>2, <3>2, <3>4 DEF PurgeExpired, Assert
  <2>3. CASE PurgeForward(n, d)
    BY <1>0, <1>1, <2>3 DEF PurgeForward
  <2>4. CASE PurgeSearch(n, d)
    <3>1. sendRequest(n, d, rt[n][d], queue[n])
      BY <2>4 DEF PurgeSearch
    <3> QED BY <1>0, <1>1, <3>1, SendAsserts
  <2> QED BY <1>11, <2>1, <2>2, <2>3, <2>4 DEF rt_purge
<1>12. ASSUME NEW n \in Node, id_purge(n) PROVE Aborts
  BY <1>0, <1>1, <1>12 DEF id_purge
<1> QED BY <1>4, <1>5, <1>6, <1>7, <1>8, <1>9, <1>10, <1>11, <1>12 DEF Next

\* With local repair or without it, the only assertions that can fail are those
\* of handle_link_failure, recvError and recvReply that ask every route with a
\* distance to be UP, and each fails only for a route under local repair: one
\* through the neighbour given up, one the route error names and that leads to
\* its sender, the one the reply has to follow.
THEOREM RepairAborts == Spec /\ []RepliesNear => AbortsUnderRepair
<1>1. Init => EvenRoutes
  <2> SUFFICES ASSUME Init PROVE EvenRoutes
    OBVIOUS
  <2>1. \A n, d \in Node : rt[n][d] = NoEntry /\ seqno[n] = 2
    BY DEF Init
  <2>2. rreq = {} /\ rrep = {}
    BY DEF Init
  <2>3. ~Usable(NoEntry) /\ NoEntry.flags # "UP"
    BY DEF NoEntry, Usable
  <2> QED BY <2>1, <2>2, <2>3 DEF EvenRoutes
<1>2. TypeOK /\ RoutesFar /\ EvenRoutes /\ RepliesNear /\ [Next]_vars => EvenRoutes'
  BY EvenRoutesStep
<1>3. TypeOK /\ RoutesFar /\ EvenRoutes /\ EvenRoutes' /\ [Next]_vars => [Aborts]_vars
  BY AbortsStep
<1>4. Spec /\ []RepliesNear => [][Aborts]_vars
  BY <1>1, <1>2, <1>3, TypeCorrect, Far, PTL DEF Spec
<1> QED BY <1>4 DEF AbortsUnderRepair, Aborts

-----------------------------------------------------------------------------
(***************************************************************************)
(* No local repair: what holds of every behaviour, in either build, until  *)
(* a relay begins the first one.                                           *)
(*                                                                         *)
(* A relay answers a request with one more than the hops of its route and  *)
(* a full TTL, so that a reply may come from further away than the network *)
(* diameter, and nothing in the code keeps its hop count below INFINITY2   *)
(* except that every node that passes it on is one that had no route as    *)
(* good.  With fewer than INFINITY2 - NETWORK_DIAMETER nodes (225 with the *)
(* constants of the code) no hop count comes to mean "no route".           *)
(***************************************************************************)
FewNodes == IsFiniteSet(Node) /\ NETWORK_DIAMETER + Cardinality(Node) < INFINITY2

\* No local repair is under way: local_rt_repair sets a timer.
NoRepairs == \A n, d \in Node : repair[n][d] = 0

\* Who has a route to d that is better than sequence number s and distance k.
Better(d, s, k) ==
  {w \in Node : rt[w][d].seqno > s \/ (rt[w][d].seqno = s /\ rt[w][d].hops < k)}

BetterNext(d, s, k) ==
  {w \in Node : rt'[w][d].seqno > s \/ (rt'[w][d].seqno = s /\ rt'[w][d].hops < k)}

\* A hop count grows beyond the diameter by one node that is better at a time.
HopsBounded ==
  /\ \A m \in rreq : m.hops + m.ttl <= NETWORK_DIAMETER + 1
  /\ \A m \in rrep :
       m.hops <= NETWORK_DIAMETER + Cardinality(Better(m.dst, m.dstSeqno, m.hops))
  /\ \A n, d \in Node :
       rt[n][d].flags = "UP" =>
         rt[n][d].hops <= NETWORK_DIAMETER
                            + Cardinality(Better(d, rt[n][d].seqno, rt[n][d].hops))

\* The number of a route that is not up is odd, or that of a new entry, and so
\* is what a route error reports: an error never repeats a valid route's number.
DownNumber(s) == s = 0 \/ s % 2 = 1

Parity ==
  /\ \A n, d \in Node : IF rt[n][d].flags = "UP" THEN rt[n][d].seqno > 0
                                                 ELSE DownNumber(rt[n][d].seqno)
  /\ \A m \in rreq : m.srcSeqno > 0
  /\ \A m \in rrep : m.dstSeqno > 0
  /\ \A m \in rerr : \A u \in m.unreachable : DownNumber(u[2])

PlainInv == NoRepairs /\ Sound /\ Parity /\ HopsBounded

\* The agent built without local repair never sets a repair timer.
LEMMA RepairsStep ==
  ASSUME ~AODV_LOCAL_REPAIR, TypeOK, NoRepairs, [Next]_vars PROVE NoRepairs'
<1>1. ASSUME repair' = repair PROVE NoRepairs'
  BY <1>1 DEF NoRepairs
<1>2. ASSUME NEW n \in Node, NEW p \in Packet, NEW arrived, rt_resolve(n, p, arrived)
      PROVE  repair' = repair
  BY <1>2 DEF rt_resolve, ResolveForward, ResolveSearch, ResolveRepair, ResolveError
<1>3. ASSUME NEW s \in Node, NEW d \in Node, Originate(s, d) PROVE NoRepairs'
  BY <1>1, <1>2, <1>3, OriginateResolves
<1>4. ASSUME NEW n \in Node, NEW f \in data, Relay(n, f) PROVE NoRepairs'
  BY <1>1, <1>2, <1>4, RelayResolves
<1>5. ASSUME NEW n \in Node, NEW f \in data, Consume(n, f) PROVE NoRepairs'
  BY <1>1, <1>5 DEF Consume
<1>6. ASSUME NEW n \in Node, NEW f \in data, rt_ll_failed(n, f) PROVE NoRepairs'
  BY <1>1, <1>6 DEF rt_ll_failed, RepairWorth, BreakLink
<1>7. ASSUME NEW n \in Node, NEW m \in rreq, recvRequest(n, m) PROVE NoRepairs'
  BY <1>1, <1>7 DEF recvRequest, DiscardRequest, AnswerRequest, AnswerFromRoute,
                    ForwardRequest
<1>8. ASSUME NEW n \in Node, NEW m \in rrep, recvReply(n, m) PROVE NoRepairs'
  BY <1>1, <1>8 DEF recvReply, AcceptReply, ForwardReply
<1>9. ASSUME NEW n \in Node, NEW m \in rerr, recvError(n, m) PROVE NoRepairs'
  BY <1>1, <1>9 DEF recvError
<1>10. ASSUME NEW n \in Node, NEW d \in Node, LocalRepairTimer(n, d) \/ rt_purge(n, d)
       PROVE  NoRepairs'
  <2>1. ~LocalRepairTimer(n, d)
    BY DEF LocalRepairTimer, NoRepairs
  <2> QED BY <1>1, <1>10, <2>1 DEF rt_purge, PurgeExpired, PurgeForward, PurgeSearch
<1>11. ASSUME NEW n \in Node, id_purge(n) PROVE NoRepairs'
  BY <1>1, <1>11 DEF id_purge
<1>12. CASE UNCHANGED vars
  BY <1>1, <1>12 DEF vars
<1> QED BY <1>3, <1>4, <1>5, <1>6, <1>7, <1>8, <1>9, <1>10, <1>11, <1>12 DEF Next

LEMMA NoRepairsWithout ==
  ASSUME ~AODV_LOCAL_REPAIR PROVE Spec => []NoRepairs
<1>1. Init => NoRepairs
  BY DEF Init, NoRepairs
<1>2. TypeOK /\ NoRepairs /\ [Next]_vars => NoRepairs'
  BY RepairsStep
<1> QED BY <1>1, <1>2, TypeCorrect, PTL DEF Spec

\* The nodes with a better route are among the nodes.
LEMMA BetterType ==
  ASSUME FewNodes, NEW d, NEW s, NEW k
  PROVE  /\ IsFiniteSet(Better(d, s, k)) /\ IsFiniteSet(BetterNext(d, s, k))
         /\ Cardinality(Better(d, s, k)) \in Nat
         /\ Cardinality(BetterNext(d, s, k)) \in Nat
         /\ NETWORK_DIAMETER + Cardinality(Better(d, s, k)) < INFINITY2
<1>1. Better(d, s, k) \in SUBSET Node /\ BetterNext(d, s, k) \in SUBSET Node
  BY DEF Better, BetterNext
<1>2. /\ IsFiniteSet(Better(d, s, k)) /\ IsFiniteSet(BetterNext(d, s, k))
      /\ Cardinality(Better(d, s, k)) <= Cardinality(Node)
  BY <1>1, FS_Subset DEF FewNodes
<1>3. /\ Cardinality(Better(d, s, k)) \in Nat /\ Cardinality(BetterNext(d, s, k)) \in Nat
      /\ Cardinality(Node) \in Nat
  BY <1>2, FS_CardinalityType DEF FewNodes
<1> QED BY <1>2, <1>3, ConstantAssumption DEF FewNodes

\* n takes its route down, with an odd number larger than the route had.
WentDown(n, d) ==
  /\ rt[n][d].flags = "UP"
  /\ \E s \in Nat : s > rt[n][d].seqno /\ s % 2 = 1 /\ IsDown(n, d, s)

\* n learns a route whose number is even and whose distance is one.
LearntWell(n, d) ==
  \E s, k \in Nat : \E h \in Node :
    /\ s % 2 = 0 /\ s > 0 /\ k < INFINITY2
    /\ Learned(n, d, s, k, h)

\* Three things can happen to a route.
LEMMA PlainSteps ==
  ASSUME FewNodes, TypeOK, PlainInv, NoRepairs', Next,
         NEW n \in Node, NEW d \in Node
  PROVE  Kept(n, d) \/ LearntWell(n, d) \/ WentDown(n, d)
<1>1. RouteSound(rt[n][d]) /\ rt[n][d].seqno \in Nat /\ rt[n][d].flags # "IN_REPAIR"
  BY DEF PlainInv, Sound, RouteSound, TypeOK, Entry
<1>2. RoutesFar
  BY DEF PlainInv, Sound, RouteSound, RoutesFar
<1>3. ASSUME NEW m \in rreq, d = m.src, Learned(n, d, m.srcSeqno, m.hops, m.from)
      PROVE  LearntWell(n, d)
  <2>1. /\ m.srcSeqno \in Nat /\ m.hops \in Nat /\ m.from \in Node
        /\ m.ttl \in Nat \ {0}
    BY DEF TypeOK, RREQ
  <2>2. m.srcSeqno % 2 = 0 /\ m.srcSeqno > 0 /\ m.hops + m.ttl <= NETWORK_DIAMETER + 1
    BY DEF PlainInv, Sound, Parity, HopsBounded
  <2>3. m.hops < INFINITY2
    BY <2>1, <2>2, ConstantAssumption
  <2> QED BY <1>3, <2>1, <2>2, <2>3 DEF LearntWell
<1>4. ASSUME NEW m \in rrep, d = m.dst, Learned(n, d, m.dstSeqno, m.hops, m.from)
      PROVE  LearntWell(n, d)
  <2>1. m.dstSeqno \in Nat /\ m.hops \in Nat /\ m.from \in Node
    BY DEF TypeOK, RREP
  <2>2. /\ m.dstSeqno % 2 = 0 /\ m.dstSeqno > 0
        /\ m.hops <= NETWORK_DIAMETER + Cardinality(Better(m.dst, m.dstSeqno, m.hops))
    BY DEF PlainInv, Sound, Parity, HopsBounded
  <2>3. m.hops < INFINITY2
    BY <2>1, <2>2, BetterType, ConstantAssumption
  <2> QED BY <1>4, <2>1, <2>2, <2>3 DEF LearntWell
<1>5. ASSUME Dropped(n, d) PROVE WentDown(n, d)
  <2>1. rt[n][d].flags = "UP" /\ rt[n][d].seqno % 2 = 0
    BY <1>1, <1>5 DEF Dropped, RouteSound
  <2>2. /\ rt[n][d].seqno + 1 \in Nat /\ rt[n][d].seqno + 1 > rt[n][d].seqno
        /\ (rt[n][d].seqno + 1) % 2 = 1
    BY <1>1, <2>1
  <2> QED BY <1>5, <2>1, <2>2 DEF Dropped, WentDown
<1>6. ASSUME Errored(n, d) PROVE WentDown(n, d)
  <2>1. PICK m \in rerr :
          \E u \in m.unreachable :
            /\ rt[n][d].flags \in {"UP", "IN_REPAIR"}
            /\ rt[n][d].seqno <= u[2] /\ IsDown(n, d, u[2])
    BY <1>6 DEF Errored
  <2>2. PICK u \in m.unreachable :
            /\ rt[n][d].flags \in {"UP", "IN_REPAIR"}
            /\ rt[n][d].seqno <= u[2] /\ IsDown(n, d, u[2])
    BY <2>1
  <2>3. u[2] \in Nat /\ DownNumber(u[2])
    BY DEF TypeOK, RERR, PlainInv, Parity
  <2>4. rt[n][d].flags = "UP" /\ rt[n][d].seqno % 2 = 0 /\ rt[n][d].seqno > 0
    BY <1>1, <2>2 DEF RouteSound, PlainInv, Parity
  <2>5. u[2] > rt[n][d].seqno /\ u[2] % 2 = 1
    BY <1>1, <2>2, <2>3, <2>4 DEF DownNumber
  <2> QED BY <2>2, <2>3, <2>4, <2>5 DEF WentDown
<1>7. ~Marked(n, d) /\ ~TimedOut(n, d)
  <2>1. repair[n][d] = 0 /\ repair'[n][d] = 0
    BY DEF PlainInv, NoRepairs
  <2> QED BY <2>1 DEF Marked, TimedOut
<1> QED BY <1>2, <1>3, <1>4, <1>5, <1>6, <1>7, EntrySteps DEF EntryStep

\* A route is only ever replaced by a better one.
LEMMA ImproveStep ==
  ASSUME FewNodes, TypeOK, PlainInv, NoRepairs', [Next]_vars,
         NEW n \in Node, NEW d \in Node
  PROVE  \/ rt'[n][d].seqno > rt[n][d].seqno
         \/ /\ rt'[n][d].seqno = rt[n][d].seqno
            /\ rt'[n][d].hops <= rt[n][d].hops
<1>1. rt[n][d].seqno \in Nat /\ rt[n][d].hops \in Nat
  BY DEF TypeOK, Entry
<1>2. CASE UNCHANGED vars
  BY <1>1, <1>2 DEF vars
<1>3. CASE Next
  <2>1. CASE Kept(n, d)
    BY <1>1, <2>1 DEF Kept
  <2>2. CASE LearntWell(n, d)
    BY <1>1, <2>2 DEF LearntWell, Learned, Fresher
  <2>3. CASE WentDown(n, d)
    BY <1>1, <2>3 DEF WentDown, IsDown
  <2> QED BY <1>3, <2>1, <2>2, <2>3, PlainSteps
<1> QED BY <1>2, <1>3

\* Routes and numbers stay sound.
LEMMA PlainSoundStep ==
  ASSUME FewNodes, TypeOK, PlainInv, NoRepairs', Next
  PROVE  Sound' /\ Parity'
<1>1. TypeOK' /\ RoutesFar /\ MessageStep
  <2>1. RoutesFar
    BY DEF PlainInv, Sound, RouteSound, RoutesFar
  <2> QED BY <2>1, TypeStep, MessageSteps
<1>2. ASSUME NEW n \in Node, NEW d \in Node
      PROVE  /\ RouteSound(rt'[n][d])
             /\ IF rt'[n][d].flags = "UP" THEN rt'[n][d].seqno > 0
                                          ELSE DownNumber(rt'[n][d].seqno)
  <2>1. /\ RouteSound(rt[n][d])
        /\ IF rt[n][d].flags = "UP" THEN rt[n][d].seqno > 0
                                    ELSE DownNumber(rt[n][d].seqno)
    BY DEF PlainInv, Sound, Parity
  <2>2. CASE Kept(n, d)
    BY <2>1, <2>2 DEF Kept, RouteSound, Usable
  <2>3. CASE LearntWell(n, d)
    BY <2>3, ConstantAssumption DEF LearntWell, Learned, RouteSound, Usable
  <2>4. CASE WentDown(n, d)
    BY <2>4 DEF WentDown, IsDown, RouteSound, Usable, DownNumber
  <2> QED BY <2>2, <2>3, <2>4, PlainSteps
<1>3. \A n \in Node : seqno'[n] % 2 = 0 /\ seqno[n] % 2 = 0 /\ seqno[n] \in Nat
  BY <1>1 DEF MessageStep, SeqnoStep, PlainInv, Sound, TypeOK
<1>4. ASSUME NEW m \in rreq' PROVE m.srcSeqno % 2 = 0 /\ m.srcSeqno > 0
  <2>1. m.src \in Node
    BY <1>1 DEF TypeOK, RREQ
  <2>2. CASE m \in rreq
    BY <2>2 DEF PlainInv, Sound, Parity
  <2>3. CASE Started(m)
    BY <1>3, <2>1, <2>3 DEF Started
  <2>4. CASE RequestPassed(m)
    BY <2>4 DEF RequestPassed, PlainInv, Sound, Parity
  <2> QED BY <1>1, <2>2, <2>3, <2>4 DEF MessageStep
<1>5. ASSUME NEW m \in rrep' PROVE m.dstSeqno % 2 = 0 /\ m.dstSeqno > 0
  <2>1. m.dst \in Node /\ m.from \in Node
    BY <1>1 DEF TypeOK, RREP
  <2>2. CASE m \in rrep
    BY <2>2 DEF PlainInv, Sound, Parity
  <2>3. CASE Answered(m)
    BY <2>3 DEF Answered
  <2>4. CASE AnsweredFromRoute(m)
    <3>1. rt'[m.from][m.dst].flags = "UP"
      BY <1>2, <2>1, <2>4 DEF AnsweredFromRoute, RouteSound, Usable
    <3> QED BY <1>2, <2>1, <2>4, <3>1 DEF AnsweredFromRoute, RouteSound
  <2>5. CASE ReplyPassed(m)
    BY <2>5 DEF ReplyPassed, PlainInv, Sound, Parity
  <2> QED BY <1>1, <2>2, <2>3, <2>4, <2>5 DEF MessageStep
<1>6. ASSUME NEW m \in rerr', NEW u \in m.unreachable PROVE DownNumber(u[2])
  <2>1. m.from \in Node /\ u[1] \in Node
    BY <1>1 DEF TypeOK, RERR
  <2>2. ASSUME NEW o \in rerr, u \in o.unreachable PROVE DownNumber(u[2])
    BY <2>2 DEF PlainInv, Parity
  <2>3. CASE Reporting(m)
    BY <1>2, <2>1, <2>2, <2>3 DEF Reporting
  <2> QED BY <1>1, <2>2, <2>3 DEF MessageStep
<1>7. Sound'
  BY <1>2, <1>3, <1>4, <1>5 DEF Sound, RouteSound, Usable
<1>8. Parity'
  BY <1>2, <1>4, <1>5, <1>6 DEF Parity, DownNumber
<1> QED BY <1>7, <1>8

\* The nodes that are better stay better.
LEMMA BetterGrows ==
  ASSUME FewNodes, TypeOK, PlainInv, NoRepairs', [Next]_vars,
         NEW d \in Node, NEW s \in Nat, NEW k \in Nat
  PROVE  /\ Better(d, s, k) \subseteq BetterNext(d, s, k)
         /\ Cardinality(Better(d, s, k)) <= Cardinality(BetterNext(d, s, k))
<1>1. ASSUME NEW w \in Better(d, s, k) PROVE w \in BetterNext(d, s, k)
  <2>1. /\ w \in Node
        /\ rt[w][d].seqno > s \/ (rt[w][d].seqno = s /\ rt[w][d].hops < k)
    BY DEF Better
  <2>2. /\ rt[w][d].seqno \in Nat /\ rt[w][d].hops \in Nat
        /\ rt'[w][d].seqno \in Nat /\ rt'[w][d].hops \in Nat
    BY <2>1, TypeStep DEF TypeOK, Entry
  <2>3. \/ rt'[w][d].seqno > rt[w][d].seqno
        \/ rt'[w][d].seqno = rt[w][d].seqno /\ rt'[w][d].hops <= rt[w][d].hops
    BY <2>1, ImproveStep
  <2>4. rt'[w][d].seqno > s \/ (rt'[w][d].seqno = s /\ rt'[w][d].hops < k)
    BY <2>1, <2>2, <2>3
  <2> QED BY <2>1, <2>4 DEF BetterNext
<1>2. Better(d, s, k) \in SUBSET BetterNext(d, s, k)
  BY <1>1
<1> QED BY <1>2, BetterType, FS_Subset

\* A node that has just passed on what it learnt is one more that is better.
LEMMA BetterGains ==
  ASSUME FewNodes, TypeOK, PlainInv, NoRepairs', Next,
         NEW n \in Node, NEW d \in Node, NEW s \in Nat, NEW k \in Nat, NEW h,
         Learned(n, d, s, k, h)
  PROVE  Cardinality(Better(d, s, k)) + 1 <= Cardinality(BetterNext(d, s, k + 1))
<1>1. rt[n][d].seqno \in Nat /\ rt[n][d].hops \in Nat
  BY DEF TypeOK, Entry
<1>2. n \notin Better(d, s, k)
  BY <1>1 DEF Better, Learned, Fresher
<1>3. Better(d, s, k) \cup {n} \subseteq BetterNext(d, s, k + 1)
  <2>1. n \in BetterNext(d, s, k + 1)
    BY DEF BetterNext, Learned
  <2>2. ASSUME NEW w \in BetterNext(d, s, k) PROVE w \in BetterNext(d, s, k + 1)
    <3>1. w \in Node
      BY DEF BetterNext
    <3>2. rt'[w][d].seqno \in Nat /\ rt'[w][d].hops \in Nat
      BY <3>1, TypeStep DEF TypeOK, Entry
    <3> QED BY <3>2 DEF BetterNext
  <2> QED BY <2>1, <2>2, BetterGrows
<1>4. Cardinality(Better(d, s, k) \cup {n}) = Cardinality(Better(d, s, k)) + 1
  BY <1>2, BetterType, FS_AddElement
<1>5. Cardinality(Better(d, s, k) \cup {n}) <= Cardinality(BetterNext(d, s, k + 1))
  BY <1>3, BetterType, FS_Subset
<1> QED BY <1>4, <1>5

\* Every step keeps hop counts bounded.
LEMMA BoundedStep ==
  ASSUME FewNodes, TypeOK, PlainInv, NoRepairs', Next PROVE HopsBounded'
<1>1. TypeOK' /\ RoutesFar /\ MessageStep /\ Sound'
  <2>1. RoutesFar
    BY DEF PlainInv, Sound, RouteSound, RoutesFar
  <2> QED BY <2>1, TypeStep, MessageSteps, PlainSoundStep
<1>2. ASSUME NEW m \in rreq' PROVE m.hops + m.ttl <= NETWORK_DIAMETER + 1
  <2>1. CASE m \in rreq
    BY <2>1 DEF PlainInv, HopsBounded
  <2>2. CASE Started(m)
    BY <2>2, ConstantAssumption DEF Started
  <2>3. CASE RequestPassed(m)
    <3>1. PICK o \in rreq : m.hops = o.hops + 1 /\ m.ttl = o.ttl - 1
      BY <2>3 DEF RequestPassed
    <3>2. /\ o.hops + o.ttl <= NETWORK_DIAMETER + 1
          /\ o.hops \in Nat /\ o.ttl \in Nat
      BY DEF PlainInv, HopsBounded, TypeOK, RREQ
    <3> QED BY <3>1, <3>2, ConstantAssumption
  <2> QED BY <1>1, <2>1, <2>2, <2>3 DEF MessageStep
\* Who was bounded stays bounded.
<1>3. ASSUME NEW d \in Node, NEW s \in Nat, NEW k \in Nat,
             k <= NETWORK_DIAMETER + Cardinality(Better(d, s, k))
      PROVE  k <= NETWORK_DIAMETER + Cardinality(BetterNext(d, s, k))
  BY <1>3, BetterType, BetterGrows, ConstantAssumption
<1>4. ASSUME NEW d \in Node, NEW s \in Nat, NEW k \in Nat, k <= NETWORK_DIAMETER
      PROVE  k <= NETWORK_DIAMETER + Cardinality(BetterNext(d, s, k))
  BY <1>4, BetterType, ConstantAssumption
<1>5. ASSUME NEW m \in rrep
      PROVE  /\ m.dst \in Node /\ m.dstSeqno \in Nat /\ m.hops \in Nat
             /\ m.hops <= NETWORK_DIAMETER
                            + Cardinality(Better(m.dst, m.dstSeqno, m.hops))
  BY DEF TypeOK, RREP, PlainInv, HopsBounded
<1>6. ASSUME NEW n \in Node, NEW d \in Node, rt'[n][d].flags = "UP"
      PROVE  rt'[n][d].hops <= NETWORK_DIAMETER
                 + Cardinality(BetterNext(d, rt'[n][d].seqno, rt'[n][d].hops))
  <2>1. CASE Kept(n, d)
    <3>1. rt[n][d].hops <= NETWORK_DIAMETER
                             + Cardinality(Better(d, rt[n][d].seqno, rt[n][d].hops))
      BY <1>6, <2>1 DEF Kept, PlainInv, HopsBounded
    <3>2. rt[n][d].seqno \in Nat /\ rt[n][d].hops \in Nat
      BY DEF TypeOK, Entry
    <3>3. rt'[n][d].seqno = rt[n][d].seqno /\ rt'[n][d].hops = rt[n][d].hops
      BY <2>1 DEF Kept
    <3>4. rt[n][d].hops <= NETWORK_DIAMETER
                             + Cardinality(BetterNext(d, rt[n][d].seqno, rt[n][d].hops))
      BY <1>3, <3>1, <3>2
    <3> QED BY <3>3, <3>4
  <2>2. ASSUME NEW m \in rreq, d = m.src, Learned(n, d, m.srcSeqno, m.hops, m.from)
        PROVE  rt'[n][d].hops <= NETWORK_DIAMETER
                 + Cardinality(BetterNext(d, rt'[n][d].seqno, rt'[n][d].hops))
    <3>1. /\ m.hops + m.ttl <= NETWORK_DIAMETER + 1
          /\ m.hops \in Nat /\ m.ttl \in Nat \ {0} /\ m.srcSeqno \in Nat
      BY DEF PlainInv, HopsBounded, TypeOK, RREQ
    <3>2. m.hops <= NETWORK_DIAMETER
      BY <3>1, ConstantAssumption
    <3>3. rt'[n][d].seqno = m.srcSeqno /\ rt'[n][d].hops = m.hops
      BY <2>2 DEF Learned
    <3> QED BY <1>4, <3>1, <3>2, <3>3
  <2>3. ASSUME NEW m \in rrep, d = m.dst, Learned(n, d, m.dstSeqno, m.hops, m.from)
        PROVE  rt'[n][d].hops <= NETWORK_DIAMETER
                 + Cardinality(BetterNext(d, rt'[n][d].seqno, rt'[n][d].hops))
    <3>1. rt'[n][d].seqno = m.dstSeqno /\ rt'[n][d].hops = m.hops
      BY <2>3 DEF Learned
    <3> QED BY <1>3, <1>5, <2>3, <3>1
  <2>4. ~Marked(n, d) /\ ~Dropped(n, d) /\ ~Errored(n, d) /\ ~TimedOut(n, d)
    BY <1>6 DEF Marked, Dropped, Errored, TimedOut, IsDown
  <2> QED BY <1>1, <2>1, <2>2, <2>3, <2>4, EntrySteps DEF EntryStep
<1>7. ASSUME NEW m \in rrep'
      PROVE  m.hops <= NETWORK_DIAMETER
                         + Cardinality(BetterNext(m.dst, m.dstSeqno, m.hops))
  <2>1. /\ m.dst \in Node /\ m.from \in Node /\ m.dstSeqno \in Nat /\ m.hops \in Nat
    BY <1>1 DEF TypeOK, RREP
  <2>2. CASE m \in rrep
    BY <1>3, <1>5, <2>2
  <2>3. CASE Answered(m)
    BY <1>4, <2>1, <2>3, ConstantAssumption DEF Answered
  <2>4. CASE AnsweredFromRoute(m)
    <3> DEFINE e == rt'[m.from][m.dst]
    <3>1. e.hops \in Nat /\ e.seqno \in Nat
      BY <1>1, <2>1 DEF TypeOK, Entry
    <3>2. e.flags = "UP"
      BY <1>1, <2>1, <2>4 DEF AnsweredFromRoute, Sound, RouteSound, Usable
    <3>3. e.hops <= NETWORK_DIAMETER + Cardinality(BetterNext(m.dst, e.seqno, e.hops))
      BY <1>6, <2>1, <3>2
    <3>4. m.dstSeqno = e.seqno /\ m.hops = e.hops + 1
      BY <2>4 DEF AnsweredFromRoute
    <3>5. /\ m.from \notin BetterNext(m.dst, e.seqno, e.hops)
          /\ m.from \in BetterNext(m.dst, e.seqno, e.hops + 1)
      BY <2>1, <3>1 DEF BetterNext
    <3>6. ASSUME NEW w \in BetterNext(m.dst, e.seqno, e.hops)
          PROVE  w \in BetterNext(m.dst, e.seqno, e.hops + 1)
      <4>1. w \in Node
        BY DEF BetterNext
      <4>2. rt'[w][m.dst].seqno \in Nat /\ rt'[w][m.dst].hops \in Nat
        BY <1>1, <2>1, <4>1 DEF TypeOK, Entry
      <4> QED BY <3>1, <4>2 DEF BetterNext
    <3> HIDE DEF e
    <3> DEFINE B == BetterNext(m.dst, e.seqno, e.hops)
    <3>7. Cardinality(B \cup {m.from}) = Cardinality(B) + 1
      BY <3>5, BetterType, FS_AddElement
    <3>8. B \cup {m.from} \in SUBSET BetterNext(m.dst, e.seqno, e.hops + 1)
      BY <3>5, <3>6
    <3>9. Cardinality(B \cup {m.from}) <= Cardinality(BetterNext(m.dst, e.seqno, e.hops + 1))
      BY <3>8, BetterType, FS_Subset
    <3>10. Cardinality(B) \in Nat
           /\ Cardinality(BetterNext(m.dst, e.seqno, e.hops + 1)) \in Nat
      BY BetterType
    <3>11. e.hops <= NETWORK_DIAMETER + Cardinality(B)
      BY <3>3
    <3> HIDE DEF B
    <3>12. e.hops + 1 <= NETWORK_DIAMETER
                         + Cardinality(BetterNext(m.dst, e.seqno, e.hops + 1))
      BY <3>1, <3>7, <3>9, <3>10, <3>11, ConstantAssumption
    <3> QED BY <3>4, <3>12
  <2>5. CASE ReplyPassed(m)
    <3>1. PICK o \in rrep : /\ m.dst = o.dst /\ m.dstSeqno = o.dstSeqno
                            /\ m.hops = o.hops + 1
                            /\ Learned(m.from, o.dst, o.dstSeqno, o.hops, o.from)
      BY <2>5 DEF ReplyPassed
    <3>2. /\ o.dst \in Node /\ o.dstSeqno \in Nat /\ o.hops \in Nat
          /\ o.hops <= NETWORK_DIAMETER
                         + Cardinality(Better(o.dst, o.dstSeqno, o.hops))
      BY <1>5
    <3>3. Cardinality(Better(o.dst, o.dstSeqno, o.hops)) + 1
            <= Cardinality(BetterNext(o.dst, o.dstSeqno, o.hops + 1))
      BY <2>1, <3>1, <3>2, BetterGains
    <3>4. /\ Cardinality(Better(o.dst, o.dstSeqno, o.hops)) \in Nat
          /\ Cardinality(BetterNext(o.dst, o.dstSeqno, o.hops + 1)) \in Nat
      BY BetterType
    <3>5. o.hops + 1 <= NETWORK_DIAMETER
                          + Cardinality(BetterNext(o.dst, o.dstSeqno, o.hops + 1))
      BY <3>2, <3>3, <3>4, ConstantAssumption
    <3> QED BY <3>1, <3>5
  <2> QED BY <1>1, <2>2, <2>3, <2>4, <2>5 DEF MessageStep
<1> QED BY <1>2, <1>6, <1>7 DEF HopsBounded, Better, BetterNext

\* Every step.
LEMMA PlainStep ==
  ASSUME FewNodes, TypeOK, PlainInv, NoRepairs', [Next]_vars PROVE PlainInv'
<1>1. CASE UNCHANGED vars
  BY <1>1 DEF vars, PlainInv, NoRepairs, Sound, RouteSound, Usable, Parity, HopsBounded,
              Better
<1>2. CASE Next
  BY <1>2, PlainSoundStep, BoundedStep DEF PlainInv
<1> QED BY <1>1, <1>2

LEMMA Plain ==
  ASSUME FewNodes PROVE Spec /\ []NoRepairs => [](TypeOK /\ PlainInv)
<1>1. Init => PlainInv
  <2> SUFFICES ASSUME Init PROVE PlainInv
    OBVIOUS
  <2>1. \A n, d \in Node : rt[n][d] = NoEntry /\ repair[n][d] = 0 /\ seqno[n] = 2
    BY DEF Init
  <2>2. rreq = {} /\ rrep = {} /\ rerr = {}
    BY DEF Init
  <2>3. RouteSound(NoEntry) /\ NoEntry.flags # "UP" /\ NoEntry.seqno = 0
    BY DEF NoEntry, RouteSound, Usable
  <2> QED BY <2>1, <2>2, <2>3
          DEF PlainInv, NoRepairs, Sound, Parity, DownNumber, HopsBounded
<1>2. TypeOK /\ PlainInv /\ NoRepairs' /\ [Next]_vars => PlainInv'
  BY PlainStep
<1> QED BY <1>1, <1>2, TypeCorrect, PTL DEF Spec

\* While no local repair is begun, valid routes have even numbers and a distance, other
\* routes neither distance nor next hop, and every number a node takes for
\* itself, or a request or a reply carries, is even.
THEOREM Soundness ==
  ASSUME FewNodes PROVE Spec /\ []NoRepairs => []Sound
<1>1. PlainInv => Sound
  BY DEF PlainInv
<1> QED BY <1>1, Plain, PTL

\* While no local repair is begun, a route is only ever replaced by a fresher
\* one, or by an equally fresh and no longer one.
THEOREM Improvement ==
  ASSUME FewNodes PROVE Spec /\ []NoRepairs => RoutesImprove
<1>1. TypeOK /\ PlainInv /\ NoRepairs' /\ [Next]_vars =>
        [\A n, d \in Node :
           \/ rt'[n][d].seqno > rt[n][d].seqno
           \/ rt'[n][d].seqno = rt[n][d].seqno
              /\ rt'[n][d].hops <= rt[n][d].hops]_rt
  BY ImproveStep
<1> QED BY <1>1, Plain, PTL DEF Spec, RoutesImprove

-----------------------------------------------------------------------------
(***************************************************************************)
(* Assertions.                                                             *)
(***************************************************************************)
\* Every step that begins no local repair passes its assertions.
LEMMA NoAssertStep ==
  ASSUME FewNodes, TypeOK, PlainInv, NoRepairs', NoAssertFails, [Next]_vars
  PROVE  NoAssertFails'
<1> SUFFICES failed' = {}
  BY DEF NoAssertFails
<1>1. failed = {} /\ Sound
  BY DEF NoAssertFails, PlainInv
<1>0. /\ \A n \in Node : seqno[n] % 2 = 0
      /\ \A n, d \in Node : rt[n][d].flags = "UP" => Usable(rt[n][d])
      /\ \A p \in Packet : p.dst \in Node
  BY <1>1 DEF Sound, RouteSound, Packet
<1>2. TypeOK' /\ Sound'
  BY TypeStep, PlainStep DEF PlainInv
<1>3. ASSUME NEW n \in Node, NEW d \in Node
      PROVE  RouteSound(rt[n][d]) /\ rt[n][d] \in Entry /\ RouteSound(rt'[n][d])
  BY <1>1, <1>2 DEF Sound, TypeOK, RouteSound, Usable
<1>4. ASSUME NEW s \in Node, NEW d \in Node, Originate(s, d) PROVE failed' = {}
  BY <1>0, <1>1, <1>4, OriginateResolves, ResolveAsserts
<1>5. ASSUME NEW n \in Node, NEW f \in data, Relay(n, f) PROVE failed' = {}
  BY <1>0, <1>1, <1>5, RelayResolves, ResolveAsserts
<1>6. ASSUME NEW n \in Node, NEW f \in data, Consume(n, f) PROVE failed' = {}
  BY <1>1, <1>6 DEF Consume
<1>7. ASSUME NEW n \in Node, NEW f \in data, rt_ll_failed(n, f) PROVE failed' = {}
  <2>1. BreakLink(n, f)
    <3>1. f.pkt.dst \in Node
      BY DEF TypeOK, Frame, Packet
    <3>2. repair[n][f.pkt.dst] = 0 /\ repair'[n][f.pkt.dst] = 0
      BY <3>1 DEF PlainInv, NoRepairs
    <3>3. ~local_rt_repair(n, f)
      BY <3>1, <3>2 DEF local_rt_repair, TypeOK
    <3> QED BY <1>7, <3>3 DEF rt_ll_failed
  <2>2. ASSUME NEW d \in Through(n, f.to)
        PROVE  rt[n][d].flags = "UP" /\ rt[n][d].seqno % 2 = 0
    <3>1. d \in Node /\ Usable(rt[n][d])
      BY DEF Through
    <3> QED BY <1>3, <3>1 DEF RouteSound
  <2>3. seqno'[n] % 2 = 0
    BY <1>2 DEF Sound
  <2> QED BY <1>1, <2>1, <2>2, <2>3 DEF BreakLink, Assert
<1>8. ASSUME NEW n \in Node, NEW m \in rreq, recvRequest(n, m) PROVE failed' = {}
  BY <1>1, <1>8 DEF recvRequest, DiscardRequest, AnswerRequest, AnswerFromRoute,
                    ForwardRequest
<1>9. ASSUME NEW n \in Node, NEW m \in rrep, recvReply(n, m) PROVE failed' = {}
  <2>1. CASE AcceptReply(n, m)
    BY <1>1, <2>1 DEF AcceptReply
  <2>2. CASE ForwardReply(n, m)
    <3> DEFINE back == WithForward(n, m)[m.ipdst]
    <3>1. PICK T : LearnForward(n, m, T) /\ ForwardTable(n, m, T)
      BY <1>9, ReplyLearns
    <3>2. m.ipdst \in Node
      BY DEF TypeOK, RREP
    <3>3. rt'[n] = T
      BY <3>1, OneTable DEF LearnForward
    <3>4. SameRoute(rt'[n][m.ipdst], back)
      BY <3>1, <3>2, <3>3 DEF ForwardTable
    <3>5. /\ Usable(back)
          /\ failed' = failed \cup Assert(back.flags = "UP", "recvReply")
      BY <2>2 DEF ForwardReply
    <3> HIDE DEF back
    <3>6. back.flags = "UP"
      BY <1>3, <3>2, <3>4, <3>5 DEF SameRoute, RouteSound, Usable
    <3> QED BY <1>1, <3>5, <3>6 DEF Assert
  <2> QED BY <1>9, <2>1, <2>2 DEF recvReply
<1>10. ASSUME NEW n \in Node, NEW m \in rerr, recvError(n, m) PROVE failed' = {}
  <2>1. ASSUME NEW u \in Hit(n, m)
        PROVE  rt[n][u[1]].flags = "UP" /\ rt[n][u[1]].seqno % 2 = 0
    <3>1. u[1] \in Node /\ Usable(rt[n][u[1]])
      BY DEF Hit, TypeOK, RERR
    <3> QED BY <1>3, <3>1 DEF RouteSound
  <2> QED BY <1>1, <1>10, <2>1 DEF recvError, Assert
<1>11. ASSUME NEW n \in Node, NEW d \in Node, LocalRepairTimer(n, d) \/ rt_purge(n, d)
       PROVE  failed' = {}
  <2>1. CASE LocalRepairTimer(n, d)
    BY <1>1, <2>1 DEF LocalRepairTimer
  <2>2. CASE PurgeExpired(n, d)
    <3>1. rt[n][d].flags = "UP" /\ rt'[n][d] = Invalidate(rt[n][d])
      BY <2>2 DEF PurgeExpired, TypeOK
    <3>2. Usable(rt[n][d]) /\ rt[n][d].seqno % 2 = 0 /\ rt[n][d].seqno \in Nat
      BY <1>3, <3>1 DEF RouteSound, Entry
    <3>3. rt'[n][d].seqno = rt[n][d].seqno + 1
      BY <1>3, <3>1, InvalidateDrops
    <3>4. rt'[n][d].seqno % 2 = 1
      BY <3>2, <3>3
    <3> QED BY <1>1, <2>2, <3>2, <3>4 DEF PurgeExpired, Assert
  <2>3. CASE PurgeForward(n, d)
    BY <1>1, <2>3 DEF PurgeForward
  <2>4. CASE PurgeSearch(n, d)
    <3>1. sendRequest(n, d, rt[n][d], queue[n])
      BY <2>4 DEF PurgeSearch
    <3> QED BY <1>0, <1>1, <3>1, SendAsserts
  <2> QED BY <1>11, <2>1, <2>2, <2>3, <2>4 DEF rt_purge
<1>12. ASSUME NEW n \in Node, id_purge(n) PROVE failed' = {}
  BY <1>1, <1>12 DEF id_purge
<1>13. CASE UNCHANGED vars
  BY <1>1, <1>13 DEF vars
<1> QED BY <1>4, <1>5, <1>6, <1>7, <1>8, <1>9, <1>10, <1>11, <1>12, <1>13 DEF Next

\* While no local repair is begun, none of the agent's assertions fails.
THEOREM NoAssertion ==
  ASSUME FewNodes PROVE Spec /\ []NoRepairs => []NoAssertFails
<1>1. Init => NoAssertFails
  BY DEF Init, NoAssertFails
<1>2. TypeOK /\ PlainInv /\ NoRepairs' /\ NoAssertFails /\ [Next]_vars => NoAssertFails'
  BY NoAssertStep
<1> QED BY <1>1, <1>2, Plain, PTL DEF Spec

-----------------------------------------------------------------------------
(***************************************************************************)
(* Loop freedom while no local repair is begun.  What a node will learn    *)
(* from a message must hold of the message's sender while it is on the     *)
(* air, also if the sender has lost that route in the meantime.            *)
(***************************************************************************)
MessagesCloser ==
  /\ \A m \in rreq : Closer(m.from, m.src, m.srcSeqno, m.hops)
  /\ \A m \in rrep : Closer(m.from, m.dst, m.dstSeqno, m.hops)

\* Closer in the state a step leads to.
CloserNext(h, d, s, k) ==
  \/ h = d
  \/ rt'[h][d].seqno > s
  \/ rt'[h][d].seqno = s /\ rt'[h][d].hops < k

\* A node that is closer stays closer.
LEMMA CloserKept ==
  ASSUME FewNodes, TypeOK, PlainInv, NoRepairs', [Next]_vars,
         NEW h \in Node, NEW d \in Node, NEW s \in Nat, NEW k \in Nat,
         Closer(h, d, s, k)
  PROVE  CloserNext(h, d, s, k)
<1>1. /\ rt[h][d].seqno \in Nat /\ rt[h][d].hops \in Nat
      /\ rt'[h][d].seqno \in Nat /\ rt'[h][d].hops \in Nat
  BY TypeStep DEF TypeOK, Entry
<1> QED BY <1>1, ImproveStep DEF Closer, CloserNext

\* Every step keeps next hops, and the senders of messages, closer.
LEMMA LoopStep ==
  ASSUME FewNodes, TypeOK, PlainInv, NoRepairs',
         NextHopCloser, MessagesCloser, [Next]_vars
  PROVE  NextHopCloser' /\ MessagesCloser'
<1>1. CASE UNCHANGED vars
  BY <1>1 DEF vars, NextHopCloser, MessagesCloser, Closer
<1>2. CASE Next
  <2>1. /\ TypeOK' /\ Sound' /\ RoutesFar
        /\ MessageStep
    <3>1. RoutesFar
      BY DEF PlainInv, Sound, RouteSound, RoutesFar
    <3> QED BY <1>2, <3>1, TypeStep, MessageSteps, PlainSoundStep
  <2>2. ASSUME NEW m \in rreq
        PROVE  /\ m.hops \in Nat
               /\ CloserNext(m.from, m.src, m.srcSeqno, m.hops)
    <3>1. m.from \in Node /\ m.src \in Node /\ m.srcSeqno \in Nat /\ m.hops \in Nat
      BY DEF TypeOK, RREQ
    <3> QED BY <3>1, CloserKept DEF MessagesCloser
  <2>3. ASSUME NEW m \in rrep
        PROVE  /\ m.hops \in Nat
               /\ CloserNext(m.from, m.dst, m.dstSeqno, m.hops)
    <3>1. m.from \in Node /\ m.dst \in Node /\ m.dstSeqno \in Nat /\ m.hops \in Nat
      BY DEF TypeOK, RREP
    <3> QED BY <3>1, CloserKept DEF MessagesCloser
  <2>4. ASSUME NEW n \in Node, NEW d \in Node, rt'[n][d].flags = "UP"
        PROVE  CloserNext(rt'[n][d].nexthop, d, rt'[n][d].seqno, rt'[n][d].hops)
    <3>1. CASE Kept(n, d)
      <4>1. Closer(rt[n][d].nexthop, d, rt[n][d].seqno, rt[n][d].hops)
        BY <2>4, <3>1 DEF Kept, NextHopCloser
      <4>2. /\ rt[n][d].nexthop \in Node /\ rt[n][d].seqno \in Nat
            /\ rt[n][d].hops \in Nat
        BY DEF TypeOK, Entry
      <4>3. CloserNext(rt[n][d].nexthop, d, rt[n][d].seqno, rt[n][d].hops)
        BY <4>1, <4>2, CloserKept
      <4> QED BY <3>1, <4>3 DEF Kept
    <3>2. ASSUME NEW m \in rreq, d = m.src, Learned(n, d, m.srcSeqno, m.hops, m.from)
          PROVE  CloserNext(rt'[n][d].nexthop, d, rt'[n][d].seqno, rt'[n][d].hops)
      BY <2>2, <3>2 DEF Learned
    <3>3. ASSUME NEW m \in rrep, d = m.dst, Learned(n, d, m.dstSeqno, m.hops, m.from)
          PROVE  CloserNext(rt'[n][d].nexthop, d, rt'[n][d].seqno, rt'[n][d].hops)
      BY <2>3, <3>3 DEF Learned
    <3>4. ~Marked(n, d) /\ ~Dropped(n, d) /\ ~Errored(n, d) /\ ~TimedOut(n, d)
      BY <2>4 DEF Marked, Dropped, Errored, TimedOut, IsDown
    <3> QED BY <1>2, <2>1, <3>1, <3>2, <3>3, <3>4, EntrySteps DEF EntryStep
  <2>5. ASSUME NEW m \in rreq'
        PROVE  CloserNext(m.from, m.src, m.srcSeqno, m.hops)
    <3>1. CASE m \in rreq
      BY <2>2, <3>1
    <3>2. CASE Started(m)
      BY <3>2 DEF Started, CloserNext
    <3>3. CASE RequestPassed(m)
      <4>1. PICK o \in rreq :
              /\ m.src = o.src /\ m.srcSeqno = o.srcSeqno /\ m.hops = o.hops + 1
              /\ AsGood(m.from, o.src, o.srcSeqno, o.hops)
        BY <3>3 DEF RequestPassed
      <4>2. m.from \in Node /\ m.src \in Node
        BY <2>1 DEF TypeOK, RREQ
      <4>3. rt'[m.from][m.src].hops \in Nat
        BY <2>1, <4>2 DEF TypeOK, Entry
      <4> QED BY <2>2, <4>1, <4>3 DEF AsGood, CloserNext
    <3> QED BY <2>1, <3>1, <3>2, <3>3 DEF MessageStep
  <2>6. ASSUME NEW m \in rrep'
        PROVE  CloserNext(m.from, m.dst, m.dstSeqno, m.hops)
    <3>1. m.from \in Node /\ m.dst \in Node
      BY <2>1 DEF TypeOK, RREP
    <3>2. CASE m \in rrep
      BY <2>3, <3>2
    <3>3. CASE Answered(m)
      BY <3>3 DEF Answered, CloserNext
    <3>4. CASE AnsweredFromRoute(m)
      <4>1. rt'[m.from][m.dst].hops \in Nat
        BY <2>1, <3>1 DEF TypeOK, Entry
      <4> QED BY <3>4, <4>1 DEF AnsweredFromRoute, CloserNext
    <3>5. CASE ReplyPassed(m)
      <4>1. PICK o \in rrep :
              /\ m.dst = o.dst /\ m.dstSeqno = o.dstSeqno /\ m.hops = o.hops + 1
              /\ Learned(m.from, o.dst, o.dstSeqno, o.hops, o.from)
        BY <3>5 DEF ReplyPassed
      <4> QED BY <2>3, <4>1 DEF Learned, CloserNext
    <3> QED BY <2>1, <3>2, <3>3, <3>4, <3>5 DEF MessageStep
  <2>7. NextHopCloser'
    BY <2>4 DEF NextHopCloser, Closer, CloserNext
  <2>8. MessagesCloser'
    BY <2>5, <2>6 DEF MessagesCloser, Closer, CloserNext
  <2> QED BY <2>7, <2>8
<1> QED BY <1>1, <1>2

\* Loop freedom: while no local repair is begun, the next hop of a valid route
\* is closer to its destination, in freshness or else in distance.
THEOREM LoopFree ==
  ASSUME FewNodes PROVE Spec /\ []NoRepairs => []NextHopCloser
<1>1. Init => NextHopCloser /\ MessagesCloser
  BY DEF Init, NextHopCloser, MessagesCloser, NoEntry
<1>2. TypeOK /\ PlainInv /\ NoRepairs' /\ NextHopCloser /\ MessagesCloser /\ [Next]_vars
        => NextHopCloser' /\ MessagesCloser'
  BY LoopStep
<1> QED BY <1>1, <1>2, Plain, PTL DEF Spec

-----------------------------------------------------------------------------
(***************************************************************************)
(* While no local repair is begun the agents implement RouteOrder.         *)
(***************************************************************************)

\* The fields of a route.
LEMMA RouteFields ==
  ASSUME NEW e
  PROVE  /\ RouteOf(e).valid <=> e.flags = "UP"
         /\ RouteOf(e).seqno = e.seqno
         /\ RouteOf(e).hops = e.hops
         /\ RouteOf(e).nexthop = e.nexthop
<1>1. RouteOf(e).valid = (e.flags = "UP")
  BY DEF RouteOf
<1> QED BY <1>1 DEF RouteOf

\* The abstract route is what the entry says.
LEMMA TableEntry ==
  ASSUME NEW n \in Node, NEW d \in Node
  PROVE  RouteTable[n][d] = RouteOf(rt[n][d]) /\ RouteTable'[n][d] = RouteOf(rt'[n][d])
BY DEF RouteTable, RouteOf

\* A table of entries is a table of routes.
LEMMA TableType == TypeOK => RouteTable \in [Node -> [Node -> Routes!Route]]
<1> SUFFICES ASSUME TypeOK PROVE RouteTable \in [Node -> [Node -> Routes!Route]]
  OBVIOUS
<1>1. \A n, d \in Node : RouteOf(rt[n][d]) \in Routes!Route
  BY DEF TypeOK, Entry, RouteOf, Routes!Route
<1> QED BY <1>1 DEF RouteTable

\* A handler works on the tables of one node.
LEMMA OneNode ==
  ASSUME TypeOK, Next
  PROVE  \E n \in Node : \A x \in Node \ {n} : rt'[x] = rt[x]
<1> DEFINE Only(n) == \A x \in Node \ {n} : rt'[x] = rt[x]
<1>1. ASSUME NEW n \in Node, NEW d, NEW e, rt' = [rt EXCEPT ![n][d] = e]
      PROVE  Only(n)
  BY <1>1 DEF TypeOK
<1>2. ASSUME NEW n \in Node, NEW t, rt' = [rt EXCEPT ![n] = t]
      PROVE  Only(n)
  BY <1>2 DEF TypeOK
<1>3. ASSUME NEW n \in Node, NEW d, NEW e, NEW q, sendRequest(n, d, e, q)
      PROVE  Only(n)
  <2>1. \E c : rt' = [rt EXCEPT ![n][d] = c]
    BY <1>3 DEF sendRequest, RateLimited, GiveUp, Search
  <2> QED BY <1>1, <2>1
<1>4. ASSUME NEW n \in Node, NEW p, NEW arrived, rt_resolve(n, p, arrived)
      PROVE  Only(n)
  <2>1. CASE ResolveForward(n, p, arrived) \/ ResolveRepair(n, p, arrived)
    BY <2>1 DEF ResolveForward, ResolveRepair
  <2>2. CASE ResolveSearch(n, p, arrived)
    BY <1>3, <2>2 DEF ResolveSearch
  <2>3. CASE ResolveError(n, p, arrived)
    BY <1>1, <2>3 DEF ResolveError
  <2> QED BY <1>4, <2>1, <2>2, <2>3 DEF rt_resolve
<1>5. ASSUME NEW s \in Node, NEW d \in Node, Originate(s, d)
      PROVE  Only(s)
  BY <1>4, <1>5 DEF Originate
<1>6. ASSUME NEW n \in Node, NEW f \in data, Relay(n, f) \/ Consume(n, f)
      PROVE  Only(n)
  BY <1>4, <1>6 DEF Relay, Consume
<1>7. ASSUME NEW n \in Node, NEW f \in data, rt_ll_failed(n, f)
      PROVE  Only(n)
  <2>1. CASE local_rt_repair(n, f)
    BY <1>3, <2>1 DEF local_rt_repair
  <2>2. CASE BreakLink(n, f)
    <3>1. \E t : rt' = [rt EXCEPT ![n] = t]
      BY <2>2 DEF BreakLink
    <3> QED BY <1>2, <3>1
  <2> QED BY <1>7, <2>1, <2>2 DEF rt_ll_failed
<1>8. ASSUME NEW n \in Node, NEW m \in rreq, recvRequest(n, m)
      PROVE  Only(n)
  <2>1. \/ rt' = rt
        \/ \E t : rt' = [rt EXCEPT ![n] = t]
    BY <1>8 DEF recvRequest, DiscardRequest, AnswerRequest, AnswerFromRoute,
                ForwardRequest, LearnReverse
  <2> QED BY <1>2, <2>1
<1>9. ASSUME NEW n \in Node, NEW m \in rrep, recvReply(n, m)
      PROVE  Only(n)
  <2>1. \E t : rt' = [rt EXCEPT ![n] = t]
    BY <1>9 DEF recvReply, AcceptReply, ForwardReply, LearnForward
  <2> QED BY <1>2, <2>1
<1>10. ASSUME NEW n \in Node, NEW m \in rerr, recvError(n, m)
       PROVE  Only(n)
  <2>1. \E t : rt' = [rt EXCEPT ![n] = t]
    BY <1>10 DEF recvError
  <2> QED BY <1>2, <2>1
<1>11. ASSUME NEW n \in Node, NEW d \in Node, LocalRepairTimer(n, d)
       PROVE  Only(n)
  <2>1. \E e : rt' = [rt EXCEPT ![n][d] = e]
    BY <1>11 DEF LocalRepairTimer
  <2> QED BY <1>1, <2>1
<1>12. ASSUME NEW n \in Node, NEW d \in Node, rt_purge(n, d)
       PROVE  Only(n)
  <2>1. CASE PurgeExpired(n, d)
    <3>1. rt' = [rt EXCEPT ![n][d] = Invalidate(rt[n][d])]
      BY <2>1 DEF PurgeExpired
    <3> QED BY <1>1, <3>1
  <2>2. CASE PurgeForward(n, d)
    BY <2>2 DEF PurgeForward
  <2>3. CASE PurgeSearch(n, d)
    BY <1>3, <2>3 DEF PurgeSearch
  <2> QED BY <1>12, <2>1, <2>2, <2>3 DEF rt_purge
<1>13. ASSUME NEW n \in Node, id_purge(n)
       PROVE  Only(n)
  BY <1>13 DEF id_purge
<1> QED BY <1>5, <1>6, <1>7, <1>8, <1>9, <1>10, <1>11, <1>12, <1>13 DEF Next

\* A node keeps its route, adopts a better one or withdraws it.
LEMMA RouteSteps ==
  ASSUME FewNodes, TypeOK, PlainInv, NoRepairs', MessagesCloser, NumbersIssued,
         Next, NEW n \in Node, NEW d \in Node
  PROVE  \/ RouteTable'[n][d] = RouteTable[n][d]
         \/ Routes!Adopt(n, d, RouteTable'[n][d])
         \/ Routes!Withdraw(n, d, RouteTable'[n][d])
<1> DEFINE r == RouteTable'[n][d]
<1>0. RoutesFar
  BY DEF PlainInv, Sound, RouteSound, RoutesFar
<1>1. r = RouteOf(rt'[n][d]) /\ RouteTable[n][d] = RouteOf(rt[n][d])
  BY TableEntry
<1>2. CASE Kept(n, d)
  <2>1. (rt'[n][d].flags = "UP") = (rt[n][d].flags = "UP")
    BY <1>2 DEF Kept
  <2> QED BY <1>1, <1>2, <2>1 DEF Kept, RouteOf
<1>3. ASSUME NEW s \in Nat, NEW k \in Nat, NEW h \in Node,
             Learned(n, d, s, k, h), Closer(h, d, s, k), s <= seqno[d]
      PROVE  Routes!Adopt(n, d, r)
  <2>1. r = [valid |-> TRUE, seqno |-> s, hops |-> k, nexthop |-> h]
    BY <1>1, <1>3 DEF Learned, RouteOf
  <2>2. Routes!Better(r, RouteTable[n][d])
    BY <1>1, <1>3, <2>1 DEF Learned, Fresher, RouteOf, Routes!Better
  <2>3. s <= seqno'[d]
    <3>1. seqno'[d] >= seqno[d]
      BY <1>0, MessageSteps DEF MessageStep, SeqnoStep
    <3>2. seqno[d] \in Nat /\ seqno'[d] \in Nat
      BY TypeStep DEF TypeOK
    <3> QED BY <1>3, <3>1, <3>2
  <2>4. h = d \/ Routes!Better(RouteTable[h][d], r)
    <3>1. RouteTable[h][d] = RouteOf(rt[h][d])
      BY TableEntry
    <3> QED BY <1>3, <2>1, <3>1 DEF Closer, RouteOf, Routes!Better
  <2> QED BY <2>1, <2>2, <2>3, <2>4 DEF Routes!Adopt
<1>4. ASSUME NEW m \in rreq, d = m.src, Learned(n, d, m.srcSeqno, m.hops, m.from)
      PROVE  Routes!Adopt(n, d, r)
  <2>1. m.srcSeqno \in Nat /\ m.hops \in Nat /\ m.from \in Node
    BY DEF TypeOK, RREQ
  <2>2. Closer(m.from, d, m.srcSeqno, m.hops) /\ m.srcSeqno <= seqno[d]
    BY <1>4 DEF MessagesCloser, NumbersIssued
  <2> QED BY <1>3, <1>4, <2>1, <2>2
<1>5. ASSUME NEW m \in rrep, d = m.dst, Learned(n, d, m.dstSeqno, m.hops, m.from)
      PROVE  Routes!Adopt(n, d, r)
  <2>1. m.dstSeqno \in Nat /\ m.hops \in Nat /\ m.from \in Node
    BY DEF TypeOK, RREP
  <2>2. Closer(m.from, d, m.dstSeqno, m.hops) /\ m.dstSeqno <= seqno[d]
    BY <1>5 DEF MessagesCloser, NumbersIssued
  <2> QED BY <1>3, <1>5, <2>1, <2>2
<1>6. CASE WentDown(n, d)
  <2>1. ~r.valid /\ r.seqno = rt'[n][d].seqno
    <3>1. rt'[n][d].flags # "UP"
      BY <1>6 DEF WentDown, IsDown
    <3> QED BY <1>1, <3>1, RouteFields
  <2>2. RouteTable[n][d].valid /\ RouteTable[n][d].seqno = rt[n][d].seqno
    <3>1. rt[n][d].flags = "UP"
      BY <1>6 DEF WentDown
    <3> QED BY <1>1, <3>1, RouteFields
  <2>3. rt'[n][d].seqno > rt[n][d].seqno
    BY <1>6 DEF WentDown, IsDown
  <2> QED BY <2>1, <2>2, <2>3 DEF Routes!Withdraw
<1>7. EntryStep(n, d) /\ (Kept(n, d) \/ LearntWell(n, d) \/ WentDown(n, d))
  BY <1>0, EntrySteps, PlainSteps
<1>8. CASE rt'[n][d].flags = "UP" /\ LearntWell(n, d)
  <2>1. \/ Kept(n, d)
        \/ \E m \in rreq : d = m.src /\ Learned(n, d, m.srcSeqno, m.hops, m.from)
        \/ \E m \in rrep : d = m.dst /\ Learned(n, d, m.dstSeqno, m.hops, m.from)
    BY <1>7, <1>8 DEF EntryStep, Marked, Dropped, Errored, TimedOut, IsDown
  <2> QED BY <1>2, <1>4, <1>5, <2>1
<1> QED BY <1>2, <1>6, <1>7, <1>8 DEF LearntWell, Learned

\* The initial routes, of which none is valid.
LEMMA RoutesInit == Init => Routes!Init
<1> SUFFICES ASSUME Init PROVE Routes!Init
  OBVIOUS
<1>1. TypeOK
  BY NoEntryType DEF Init, TypeOK, AssertLabel
<1>2. \A n, d \in Node : ~RouteTable[n][d].valid
  <2> TAKE n, d \in Node
  <2>1. rt[n][d] = NoEntry
    BY DEF Init
  <2>2. rt[n][d].flags # "UP"
    BY <2>1 DEF NoEntry
  <2> QED BY <2>2, TableEntry, RouteFields
<1> QED BY <1>1, <1>2, TableType DEF Routes!Init, TypeOK

\* A handler of the agent is a handler of RouteOrder, or changes no route.
LEMMA RoutesStep ==
  ASSUME FewNodes, TypeOK, PlainInv, NoRepairs', MessagesCloser, NumbersIssued,
         [Next]_vars
  PROVE  [Routes!Next]_<<seqno, RouteTable>>
<1>1. CASE UNCHANGED vars
  BY <1>1 DEF vars, RouteTable
<1>2. CASE Next
  <2>1. PICK n \in Node : \A x \in Node \ {n} : rt'[x] = rt[x]
    BY <1>2, OneNode
  <2>2. TypeOK'
    BY TypeStep
  <2>3. /\ seqno' \in [Node -> Nat]
        /\ RouteTable' \in [Node -> [Node -> Routes!Route]]
    <3>1. (RouteTable \in [Node -> [Node -> Routes!Route]])'
      BY <2>2, TableType, PTL
    <3> QED BY <2>2, <3>1 DEF TypeOK, Routes!Route
  <2>4. \A d \in Node : seqno'[d] >= seqno[d]
    <3>1. RoutesFar
      BY DEF PlainInv, Sound, RouteSound, RoutesFar
    <3> QED BY <1>2, <3>1, MessageSteps DEF MessageStep, SeqnoStep
  <2>5. \A x \in Node \ {n} : RouteTable'[x] = RouteTable[x]
    BY <2>1 DEF RouteTable
  <2>6. \A d \in Node : \/ RouteTable'[n][d] = RouteTable[n][d]
                        \/ Routes!Adopt(n, d, RouteTable'[n][d])
                        \/ Routes!Withdraw(n, d, RouteTable'[n][d])
    BY <1>2, RouteSteps
  <2>7. Routes!Handle(n)
    BY <2>3, <2>4, <2>5, <2>6 DEF Routes!Handle
  <2> QED BY <2>7 DEF Routes!Next
<1> QED BY <1>1, <1>2

\* While no local repair is begun AODV implements RouteOrder, although relays
\* answer requests from their own routes: every handler keeps, adopts or withdraws the
\* routes of one node.
THEOREM RefinesRouteOrder ==
  ASSUME FewNodes PROVE Spec /\ []NoRepairs => ImplementsRouteOrder
<1>1. Init => MessagesCloser /\ NumbersIssued /\ NextHopCloser
  BY DEF Init, MessagesCloser, NumbersIssued, NextHopCloser, Issued, NoEntry
<1>2. TypeOK /\ PlainInv /\ NoRepairs' /\ NextHopCloser /\ MessagesCloser /\ [Next]_vars
        => NextHopCloser' /\ MessagesCloser'
  BY LoopStep
<1>3. TypeOK /\ PlainInv /\ NoRepairs' /\ MessagesCloser /\ NumbersIssued /\ [Next]_vars
        => [Routes!Next]_<<seqno, RouteTable>>
  BY RoutesStep
<1> QED BY <1>1, <1>2, <1>3, RoutesInit, IssuedStep, Far, Plain, TypeCorrect, PTL
        DEF Spec, ImplementsRouteOrder, Routes!Spec

Order == INSTANCE RouteOrder_proofs WITH issued <- seqno, route <- RouteTable

\* While no local repair is begun there is no routing loop, whatever is lost,
\* delayed or overtaken: of any nodes with
\* valid routes to a destination one has its next hop outside.
THEOREM NoRoutingLoop ==
  ASSUME FewNodes PROVE Spec /\ []NoRepairs => []Routes!NoLoop
<1>1. Routes!Init <=> Order!Init
  BY DEF Routes!Init, Order!Init, Routes!Route, Order!Route
<1>2. Routes!Next <=> Order!Next
  BY DEF Routes!Next, Order!Next, Routes!Handle, Order!Handle, Routes!Adopt, Order!Adopt,
         Routes!Withdraw, Order!Withdraw, Routes!Better, Order!Better,
         Routes!Route, Order!Route
<1>3. Routes!NoLoop <=> Order!NoLoop
  BY DEF Routes!NoLoop, Order!NoLoop
<1> QED BY <1>1, <1>2, <1>3, RefinesRouteOrder, Order!OrderedRoutes, PTL
        DEF ImplementsRouteOrder, Routes!Spec, Order!Spec
=============================================================================
