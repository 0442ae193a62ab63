------------------------ MODULE AorgluRepair_proofs ------------------------
(***************************************************************************)
(* Proofs about AorgluRepair: what of discovery survives route repair.     *)
(* Types, both timers of a repair, packets, sequence numbers, buffers, and *)
(* the assertions.                                                         *)
(***************************************************************************)
EXTENDS AorgluRepair, AorgluDiscovery_proofs

(***************************************************************************)
(* Types.                                                                  *)
(***************************************************************************)
\* A REPA or REPC packet: the fields the handlers teach routes from.  Where it
\* goes is a matter of the geometry; who receives it is a node by Delivered.
RepairIn(S) ==
  [from: S, to: S, src: Node, dst: Node, srcSeqno: Nat, dstSeqno: Nat, hops: Nat,
   greedy: S, dir: S, path: S, target: S]

IsRepair(m) == \E S : m \in RepairIn(S)

RepairTypeOK ==
  /\ TypeOK
  /\ \A m \in repa : IsRepair(m)
  /\ locexp \in [Node -> [Node -> Nat]] /\ reparetx \in [Node -> [Node -> Nat]]

\* What the handlers read of a repair.
LEMMA RepairFields ==
  ASSUME NEW m, IsRepair(m)
  PROVE  /\ m.src \in Node /\ m.dst \in Node
         /\ m.srcSeqno \in Nat /\ m.dstSeqno \in Nat /\ m.hops \in Nat
BY DEF IsRepair, RepairIn

\* init_route_maintenance makes repairs.
LEMMA NewRepairType ==
  ASSUME TypeOK, NEW n \in Node, NEW d \in Node, NEW s \in Nat, NEW greedy
  PROVE  IsRepair(NewRepair(n, d, s, greedy))
<1>1. rt[n][d].seqno \in Nat
  BY DEF TypeOK, Entry
<1>2. (IF greedy THEN rt[n][d].seqno ELSE 0) \in Nat
  BY <1>1
<1>3. NewRepair(n, d, s, greedy) \in RepairIn({n, greedy, 0, <<>>, loc[n][d]})
  BY <1>2 DEF NewRepair, RepairIn
<1> QED BY <1>3 DEF IsRepair

\* A repair with another receiver, or sent round another way, is a repair.
LEMMA SameRepairType ==
  ASSUME NEW m, IsRepair(m), NEW to, NEW dir
  PROVE  /\ IsRepair([m EXCEPT !.to = to])
         /\ IsRepair([m EXCEPT !.greedy = FALSE, !.dir = dir])
<1>1. PICK S : m \in RepairIn(S)
  BY DEF IsRepair
<1>2. /\ [m EXCEPT !.to = to] \in RepairIn(S \cup {to, dir, FALSE})
      /\ [m EXCEPT !.greedy = FALSE, !.dir = dir] \in RepairIn(S \cup {to, dir, FALSE})
  BY <1>1 DEF RepairIn
<1> QED BY <1>2 DEF IsRepair

\* forwardRepa makes repairs.
LEMMA ForwardRepaType ==
  ASSUME TypeOK, NEW n \in Node, NEW m, IsRepair(m), NEW next
  PROVE  IsRepair(forwardRepa(n, m, next))
<1>1. PICK S : m \in RepairIn(S)
  BY DEF IsRepair
<1>2. Larger(rt[n][m.dst].seqno, m.dstSeqno) \in Nat /\ m.hops + 1 \in Nat
  <2>1. m.dst \in Node /\ m.dstSeqno \in Nat /\ m.hops \in Nat
    BY RepairFields
  <2>2. rt[n][m.dst].seqno \in Nat
    BY <2>1 DEF TypeOK, Entry
  <2>3. Larger(rt[n][m.dst].seqno, m.dstSeqno) \in Nat
    BY <2>1, <2>2 DEF Larger
  <2> QED BY <2>1, <2>3
<1>3. forwardRepa(n, m, next) \in RepairIn(S \cup {n, next, TRUE, <<>>})
  BY <1>1, <1>2 DEF RepairIn, forwardRepa
<1> QED BY <1>3 DEF IsRepair

\* So does the next step of a walk.
LEMMA WalkOnType ==
  ASSUME NEW n \in Node, NEW m, IsRepair(m), NEW next, NEW path
  PROVE  IsRepair(WalkOn(n, m, next, path))
<1>1. PICK S : m \in RepairIn(S)
  BY DEF IsRepair
<1> DEFINE p == IF m.from = n THEN <<[id |-> n, at |-> Place[n]]>> \o path ELSE path
<1>2. m.hops + 1 \in Nat
  BY RepairFields
<1>3. WalkOn(n, m, next, path) = [m EXCEPT !.from = n, !.to = next, !.greedy = FALSE,
                                           !.hops = @ + 1, !.path = p]
  BY DEF WalkOn
<1> HIDE DEF p
<1>4. WalkOn(n, m, next, path) \in RepairIn(S \cup {n, next, FALSE, p})
  BY <1>1, <1>2, <1>3 DEF RepairIn
<1> QED BY <1>4 DEF IsRepair

\* Whatever forwardRepc sends is a repair.
LEMMA SentType ==
  ASSUME TypeOK, NEW n \in Node, NEW m, IsRepair(m), NEW out \in Sent(n, m)
  PROVE  \A r \in out : IsRepair(r)
<1>1. PICK g \in greedy_next(n, m.target) :
        out \in IF LeavesMaximum(n, m.from, m.path, g) THEN {{forwardRepa(n, m, g)}}
                ELSE IF PreviousKnown(n, m) THEN Turn(n, m) ELSE {{}}
  BY DEF Sent
<1>2. CASE out = {forwardRepa(n, m, g)}
  BY <1>2, ForwardRepaType
<1>3. CASE out \in Turn(n, m)
  <2>1. \E h, path : out \in {{}, {WalkOn(n, m, h, path)}}
    BY <1>3 DEF Turn
  <2> QED BY <2>1, WalkOnType
<1> QED BY <1>1, <1>2, <1>3

\* And both ways round.
LEMMA BothWaysType ==
  ASSUME TypeOK, NEW n \in Node, NEW m, IsRepair(m), NEW out \in BothWays(n, m)
  PROVE  \A r \in out : IsRepair(r)
<1>1. PICK a \in Sent(n, [m EXCEPT !.greedy = FALSE, !.dir = 0]),
           b \in Sent(n, [m EXCEPT !.greedy = FALSE, !.dir = 1]) : out = a \cup b
  BY DEF BothWays
<1>2. /\ IsRepair([m EXCEPT !.greedy = FALSE, !.dir = 0])
      /\ IsRepair([m EXCEPT !.greedy = FALSE, !.dir = 1])
  BY SameRepairType
<1>3. (\A r \in a : IsRepair(r)) /\ (\A r \in b : IsRepair(r))
  BY <1>2, SentType
<1> QED BY <1>1, <1>3

\* A repair teaches a reverse route as a request does, and puts no route under
\* repair.
LEMMA RepairRoute ==
  ASSUME NEW e \in Entry, NEW m, m.srcSeqno \in Nat, m.hops \in Nat, m.from \in Node
  PROVE  /\ ReverseRoute(e, m) \in Entry
         /\ ReverseRoute(e, m).flags \in {e.flags, "UP"}
<1>1. rt_update(e, m.srcSeqno, m.hops, m.from) \in Entry
  BY UpdateType
<1>2. rt_update(e, m.srcSeqno, m.hops, m.from).flags = "UP"
  BY DEF rt_update, Entry
<1> QED BY <1>1, <1>2 DEF ReverseRoute, Entry

\* No other route is put under repair by a step.
NotPut(n, d) == rt'[n][d].flags = "IN_REPAIR" => rt[n][d].flags = "IN_REPAIR"

\* LearnSource keeps the types, and puts no route under repair.
LEMMA LearnSourceType ==
  ASSUME TypeOK, NEW n \in Node, NEW m, IsRepair(m), Delivered(m, n), LearnSource(n, m)
  PROVE  /\ rt' \in [Node -> [Node -> Entry]]
         /\ queue' \in [Node -> SUBSET Packet]
         /\ data' \subseteq Frame
         /\ \A x, d \in Node : NotPut(x, d)
<1> DEFINE e == rt_add(rt[n][m.src])
<1>1. m.from \in Node /\ m.src \in Node /\ m.srcSeqno \in Nat /\ m.hops \in Nat
  BY NextNodes, RepairFields
<1>2. /\ e \in Entry /\ rt[n][m.src] \in Entry
      /\ e.flags = "IN_REPAIR" => rt[n][m.src].flags = "IN_REPAIR"
  BY <1>1, AddType DEF TypeOK, rt_add, Entry
<1>3. rt' = [rt EXCEPT ![n][m.src] = ReverseRoute(e, m)]
  BY DEF LearnSource
<1>4. /\ ReverseRoute(e, m) \in Entry
      /\ ReverseRoute(e, m).flags \in {e.flags, "UP"}
  BY <1>1, <1>2, RepairRoute
<1> HIDE DEF e
<1>5. rt' \in [Node -> [Node -> Entry]]
  BY <1>1, <1>3, <1>4 DEF TypeOK
<1>6. \A x, d \in Node : NotPut(x, d)
  <2> SUFFICES ASSUME NEW x \in Node, NEW d \in Node PROVE NotPut(x, d)
    OBVIOUS
  <2>1. CASE x = n /\ d = m.src
    BY <1>1, <1>2, <1>3, <1>4, <2>1 DEF NotPut, TypeOK
  <2>2. CASE ~(x = n /\ d = m.src)
    BY <1>1, <1>3, <2>2 DEF NotPut, TypeOK
  <2> QED BY <2>1, <2>2
<1>7. queue' \in [Node -> SUBSET Packet] /\ data' \subseteq Frame
  <2>1. CASE Fresher(e, m.srcSeqno, m.hops)
    <3>1. PICK lost \in SUBSET queue[n] :
            /\ queue' = [queue EXCEPT ![n] = @ \ (lost \cup Waiting(n, m.src, lost))]
            /\ data' = data \cup Frames(n, m.from, Waiting(n, m.src, lost))
      BY <2>1 DEF LearnSource, e
    <3>2. Waiting(n, m.src, lost) \in SUBSET Packet
      BY DEF Waiting, TypeOK
    <3>3. Frames(n, m.from, Waiting(n, m.src, lost)) \subseteq Frame
      BY <1>1, <3>2, FramesType
    <3> QED BY <3>1, <3>3 DEF TypeOK
  <2>2. CASE ~Fresher(e, m.srcSeqno, m.hops)
    BY <2>2 DEF LearnSource, e, TypeOK
  <2> QED BY <2>1, <2>2
<1> QED BY <1>5, <1>6, <1>7

\* What init_route_maintenance does, when its caller leaves the entry e for d.
LEMMA MaintenanceType ==
  ASSUME RepairTypeOK, NEW n \in Node, NEW d \in Node, NEW e \in Entry, NEW s \in Nat,
         init_route_maintenance(n, d, e, s)
  PROVE  /\ rt' \in [Node -> [Node -> Entry]]
         /\ \A m \in repa' : IsRepair(m)
         /\ \A x, y \in Node :
              NotPut(x, y) \/ (x = n /\ y = d /\ e.flags = "IN_REPAIR")
<1>0. TypeOK /\ rt[n][n] \in Entry
  BY DEF RepairTypeOK, TypeOK
<1>1. CASE StartGreedy(n, d, s) /\ rt' = [rt EXCEPT ![n][d] = e]
  <2>1. PICK g : repa' = repa \cup {[NewRepair(n, d, s, TRUE) EXCEPT !.to = g]}
    BY <1>1 DEF StartGreedy
  <2>2. IsRepair([NewRepair(n, d, s, TRUE) EXCEPT !.to = g])
    BY <1>0, NewRepairType, SameRepairType
  <2>3. \A m \in repa' : IsRepair(m)
    BY <2>1, <2>2 DEF RepairTypeOK
  <2> QED BY <1>0, <1>1, <2>3 DEF TypeOK, NotPut
<1>2. CASE /\ StartAround(n, d, s)
           /\ rt' = [rt EXCEPT ![n][d] = e, ![n][n] = RouteToSelf(n, s)]
  <2>1. PICK out \in BothWays(n, NewRepair(n, d, s, FALSE)) : repa' = repa \cup out
    BY <1>2 DEF StartAround
  <2>2. \A m \in out : IsRepair(m)
    BY <1>0, NewRepairType, BothWaysType
  <2>3. \A m \in repa' : IsRepair(m)
    BY <2>1, <2>2 DEF RepairTypeOK
  <2>4. /\ RouteToSelf(n, s) \in Entry
        /\ RouteToSelf(n, s).flags = "IN_REPAIR" => rt[n][n].flags = "IN_REPAIR"
    <3> DEFINE o == rt_add(rt[n][n])
               m == [srcSeqno |-> s, hops |-> 1, from |-> n]
    <3>1. o \in Entry /\ (o.flags = "IN_REPAIR" => rt[n][n].flags = "IN_REPAIR")
      BY <1>0, AddType DEF rt_add, Entry
    <3>2. m.srcSeqno \in Nat /\ m.hops \in Nat /\ m.from \in Node
      OBVIOUS
    <3> HIDE DEF o, m
    <3>3. ReverseRoute(o, m) \in Entry /\ ReverseRoute(o, m).flags \in {o.flags, "UP"}
      BY <3>1, <3>2, RepairRoute
    <3>4. RouteToSelf(n, s) = ReverseRoute(o, m)
      BY DEF RouteToSelf, o, m
    <3> QED BY <3>1, <3>3, <3>4
  <2> DEFINE self == RouteToSelf(n, s)
  <2>5. rt' = [rt EXCEPT ![n][d] = e, ![n][n] = self]
    BY <1>2
  <2> HIDE DEF self
  <2>6. rt' \in [Node -> [Node -> Entry]]
    BY <1>0, <2>4, <2>5 DEF TypeOK, self
  <2>7. ASSUME NEW x \in Node, NEW y \in Node
        PROVE  NotPut(x, y) \/ (x = n /\ y = d /\ e.flags = "IN_REPAIR")
    <3>1. CASE x = n /\ y = n
      BY <1>0, <2>4, <2>5, <3>1 DEF TypeOK, NotPut, self
    <3>2. CASE ~(x = n /\ y = n)
      BY <1>0, <2>5, <3>2 DEF TypeOK, NotPut
    <3> QED BY <3>1, <3>2
  <2> QED BY <2>3, <2>6, <2>7
<1> QED BY <1>1, <1>2 DEF init_route_maintenance

(***************************************************************************)
(* Discovery puts no route under repair.                                   *)
(***************************************************************************)
\* The operators on entries.
LEMMA EntriesNotPut ==
  ASSUME NEW e \in Entry
  PROVE  /\ rt_add(e).flags = "IN_REPAIR" => e.flags = "IN_REPAIR"
         /\ rt_down(e).flags = "DOWN"
         /\ Invalidate(e).flags = "DOWN"
         /\ Searching(e).flags = e.flags
         /\ [e EXCEPT !.reqCnt = 0, !.reqWait = TRUE].flags = e.flags
BY DEF rt_add, rt_down, Invalidate, Searching, Entry

\* sendRequest, for an entry e that is not under repair or was before.
LEMMA SendNotPut ==
  ASSUME TypeOK, NEW n \in Node, NEW d \in Node, NEW e \in Entry, NEW q,
         e.flags = "IN_REPAIR" => rt[n][d].flags = "IN_REPAIR",
         sendRequest(n, d, e, q), NEW x \in Node, NEW y \in Node
  PROVE  NotPut(x, y)
<1>1. PICK f \in {e, Searching(e), [e EXCEPT !.reqCnt = 0, !.reqWait = TRUE]} :
        rt' = [rt EXCEPT ![n][d] = f]
  BY DEF sendRequest, RateLimited, GiveUp, Search
<1>2. f.flags = e.flags
  BY <1>1, EntriesNotPut
<1> QED BY <1>1, <1>2 DEF NotPut, TypeOK

\* rt_resolve.
LEMMA ResolveNotPut ==
  ASSUME TypeOK, NEW n \in Node, NEW p \in Packet, NEW arrived,
         rt_resolve(n, p, arrived), NEW x \in Node, NEW y \in Node
  PROVE  NotPut(x, y)
<1> DEFINE e == rt_add(rt[n][p.dst])
<1>1. /\ p.dst \in Node /\ rt[n][p.dst] \in Entry /\ e \in Entry
      /\ e.flags = "IN_REPAIR" => rt[n][p.dst].flags = "IN_REPAIR"
  BY AddType, EntriesNotPut DEF TypeOK, Packet
<1>2. CASE ResolveForward(n, p, arrived)
  BY <1>2 DEF ResolveForward, agent, NotPut
<1>3. CASE ResolveBuffer(n, p, arrived)
  <2>1. PICK q : UNCHANGED rt \/ sendRequest(n, p.dst, e, q)
    BY <1>3 DEF ResolveBuffer
  <2> HIDE DEF e
  <2>2. CASE UNCHANGED rt
    BY <2>2 DEF NotPut
  <2>3. CASE sendRequest(n, p.dst, e, q)
    BY <1>1, <2>3, SendNotPut
  <2> QED BY <2>1, <2>2, <2>3
<1>4. CASE ResolveError(n, p, arrived)
  <2>1. rt' = [rt EXCEPT ![n][p.dst] = e]
    BY <1>4 DEF ResolveError
  <2> HIDE DEF e
  <2> QED BY <1>1, <2>1 DEF NotPut, TypeOK
<1> QED BY <1>2, <1>3, <1>4 DEF rt_resolve

\* recvRequest.
LEMMA RequestNotPut ==
  ASSUME TypeOK, NEW n \in Node, NEW m \in rreq, recvRequest(n, m),
         NEW x \in Node, NEW y \in Node
  PROVE  NotPut(x, y)
<1>1. CASE DiscardRequest(n, m)
  BY <1>1 DEF DiscardRequest, agent, NotPut
<1>2. ASSUME NEW lost, LearnReverse(n, m, lost) PROVE NotPut(x, y)
  <2> DEFINE e == rt_add(rt[n][m.src])
  <2>1. m.src \in Node /\ m.srcSeqno \in Nat /\ m.hops \in Nat /\ m.from \in Node
    BY DEF TypeOK, RREQ
  <2>2. e \in Entry /\ (e.flags = "IN_REPAIR" => rt[n][m.src].flags = "IN_REPAIR")
    BY <2>1, AddType, EntriesNotPut DEF TypeOK
  <2>3. rt' = [rt EXCEPT ![n][m.src] = ReverseRoute(e, m)]
    BY <1>2 DEF LearnReverse
  <2> HIDE DEF e
  <2>4. ReverseRoute(e, m).flags \in {e.flags, "UP"}
    BY <2>1, <2>2, RepairRoute
  <2> QED BY <2>1, <2>2, <2>3, <2>4 DEF NotPut, TypeOK
<1> QED BY <1>1, <1>2 DEF recvRequest, AnswerRequest, ForwardRequest

\* recvReply.
LEMMA ReplyNotPut ==
  ASSUME TypeOK, NEW n \in Node, NEW m \in rrep, recvReply(n, m),
         NEW x \in Node, NEW y \in Node
  PROVE  NotPut(x, y)
<1> DEFINE e == rt_add(rt[n][m.dst])
<1>1. m.dst \in Node /\ m \in RREP
  BY DEF TypeOK, RREP
<1>2. e \in Entry /\ (e.flags = "IN_REPAIR" => rt[n][m.dst].flags = "IN_REPAIR")
  BY <1>1, AddType, EntriesNotPut DEF TypeOK
<1>3. rt' = [rt EXCEPT ![n][m.dst] = ForwardRoute(e, m)]
  BY DEF recvReply, AcceptReply, ForwardReply, LearnForward
<1> HIDE DEF e
<1>4. ForwardRoute(e, m).flags \in {e.flags, "UP"}
  BY <1>1, <1>2 DEF ForwardRoute, rt_update, Entry
<1> QED BY <1>1, <1>2, <1>3, <1>4 DEF NotPut, TypeOK

\* No step of discovery.
LEMMA NextNotPut ==
  ASSUME TypeOK, Next, NEW x \in Node, NEW y \in Node
  PROVE  NotPut(x, y)
<1>1. ASSUME NEW s \in Node, NEW d \in Node, Originate(s, d) PROVE NotPut(x, y)
  <2> DEFINE p == [id |-> nsent + 1, src |-> s, dst |-> d, ttl |-> NETWORK_DIAMETER]
  <2>1. p \in Packet
    BY ConstantAssumption DEF Packet, TypeOK
  <2>2. rt_resolve(s, p, {})
    BY <1>1 DEF Originate
  <2> QED BY <2>1, <2>2, ResolveNotPut
<1>2. ASSUME NEW n \in Node, NEW f \in data, Relay(n, f) PROVE NotPut(x, y)
  <2> DEFINE p == [f.pkt EXCEPT !.ttl = @ - 1]
  <2>1. p \in Packet
    <3>1. f.pkt \in Packet
      BY DEF Frame, TypeOK
    <3>2. f.pkt.ttl \in Nat \ {0} /\ p.ttl = f.pkt.ttl - 1
      BY <3>1 DEF Packet
    <3>3. p.ttl # 0
      BY <1>2 DEF Relay
    <3> QED BY <3>1, <3>2, <3>3 DEF Packet
  <2>2. rt_resolve(n, p, {f})
    BY <1>2 DEF Relay
  <2> QED BY <2>1, <2>2, ResolveNotPut
<1>3. ASSUME NEW n \in Node, NEW f \in data, Consume(n, f) \/ rt_ll_failed(n, f)
      PROVE  NotPut(x, y)
  BY <1>3 DEF Consume, rt_ll_failed, agent, NotPut
<1>4. ASSUME NEW n \in Node, NEW m \in rreq, recvRequest(n, m) PROVE NotPut(x, y)
  BY <1>4, RequestNotPut
<1>5. ASSUME NEW n \in Node, NEW m \in rrep, recvReply(n, m) PROVE NotPut(x, y)
  BY <1>5, ReplyNotPut
<1>6. ASSUME NEW n \in Node, NEW h \in Node, recvHello(n, h) PROVE NotPut(x, y)
  BY <1>6 DEF recvHello, NotPut
<1>7. ASSUME NEW n \in Node, NEW h \in Node, nb_delete(n, h) PROVE NotPut(x, y)
  <2>1. rt' = [rt EXCEPT ![n] = [d \in Node |->
                 IF d \in Through(n, h) THEN Invalidate(rt[n][d]) ELSE rt[n][d]]]
    BY <1>7 DEF nb_delete
  <2>2. rt[n][y] \in Entry /\ Invalidate(rt[n][y]).flags = "DOWN"
    BY EntriesNotPut DEF TypeOK
  <2> QED BY <2>1, <2>2 DEF NotPut, TypeOK
<1>8. ASSUME NEW n \in Node, NEW E \in SUBSET Node, rt_purge(n, E) PROVE NotPut(x, y)
  <2>1. rt' = [rt EXCEPT ![n] = [d \in Node |->
                 IF d \in E THEN Invalidate(rt[n][d]) ELSE rt[n][d]]]
    BY <1>8 DEF rt_purge
  <2>2. rt[n][y] \in Entry /\ Invalidate(rt[n][y]).flags = "DOWN"
    BY EntriesNotPut DEF TypeOK
  <2> QED BY <2>1, <2>2 DEF NotPut, TypeOK
<1>9. ASSUME NEW n \in Node, id_purge(n) PROVE NotPut(x, y)
  BY <1>9 DEF id_purge, NotPut
<1>10. CASE Lose
  BY <1>10 DEF Lose, agent, NotPut
<1> QED BY <1>1, <1>2, <1>3, <1>4, <1>5, <1>6, <1>7, <1>8, <1>9, <1>10 DEF Next

(***************************************************************************)
(* The handlers and timers of a repair.                                    *)
(***************************************************************************)
\* What is proved of a step: the types are kept, and a route is under repair
\* after it only if it was before, with no fewer events than before, or if the
\* step has set both timers.
Timed(x, y) == locexp'[x][y] > 0 /\ reparetx'[x][y] > 0

EventsKept(x, y) == locexp'[x][y] >= locexp[x][y] /\ reparetx'[x][y] >= reparetx[x][y]

TimerStep(x, y) ==
  rt'[x][y].flags = "IN_REPAIR" =>
    \/ rt[x][y].flags = "IN_REPAIR" /\ EventsKept(x, y)
    \/ Timed(x, y)

GoodStep == RepairTypeOK' /\ \A x, y \in Node : TimerStep(x, y)

\* Where the timers are left alone it is enough that no route is put under
\* repair.
LEMMA QuietStep ==
  ASSUME RepairTypeOK, TypeOK', \A m \in repa' : IsRepair(m),
         UNCHANGED <<locexp, reparetx>>, \A x, y \in Node : NotPut(x, y)
  PROVE  GoodStep
<1>1. RepairTypeOK'
  <2>1. (\A m \in repa : IsRepair(m))'
    BY DEF IsRepair, RepairIn
  <2> QED BY <2>1 DEF RepairTypeOK
<1>2. ASSUME NEW x \in Node, NEW y \in Node PROVE TimerStep(x, y)
  BY DEF TimerStep, EventsKept, NotPut, RepairTypeOK
<1> QED BY <1>1, <1>2 DEF GoodStep

\* recvError at the source.
LEMMA StartRepairStep ==
  ASSUME RepairTypeOK, NEW n \in Node, NEW m \in rerr, StartRepair(n, m)
  PROVE  GoodStep
<1> DEFINE d == m.origDst
           e == [rt[n][d] EXCEPT !.flags = "IN_REPAIR"]
           s == seqno[n] + 2
<1>1. TypeOK /\ d \in Node /\ s \in Nat /\ e \in Entry
  <2>1. TypeOK /\ d \in Node /\ s \in Nat
    BY DEF RepairTypeOK, TypeOK, RERR
  <2>2. rt[n][d] \in Entry
    BY <2>1 DEF TypeOK
  <2> QED BY <2>1, <2>2 DEF Entry
<1>2. init_route_maintenance(n, d, e, s)
  BY DEF StartRepair
<1> HIDE DEF e, s
<1>3. /\ rt' \in [Node -> [Node -> Entry]]
      /\ \A r \in repa' : IsRepair(r)
      /\ \A x, y \in Node : NotPut(x, y) \/ (x = n /\ y = d)
  BY <1>1, <1>2, MaintenanceType
<1>4. /\ locexp' = [locexp EXCEPT ![n][d] = @ + 1]
      /\ reparetx' = [reparetx EXCEPT ![n][d] = @ + 1]
      /\ seqno' = [seqno EXCEPT ![n] = @ + 2]
      /\ rerr' \subseteq rerr
      /\ failed' = failed \cup HasNeighbour(n)
      /\ UNCHANGED <<bid, ids, nb, loc, ludp, queue, rreq, rrep, data, nsent>>
  BY DEF StartRepair
<1>5. seqno' \in [Node -> Nat] /\ failed' \subseteq AssertLabel
  BY <1>1, <1>4 DEF TypeOK, HasNeighbour, Assert, AssertLabel
<1>6. TypeOK'
  BY <1>1, <1>3, <1>4, <1>5 DEF TypeOK
<1>7. /\ locexp \in [Node -> [Node -> Nat]] /\ reparetx \in [Node -> [Node -> Nat]]
      /\ locexp' \in [Node -> [Node -> Nat]] /\ reparetx' \in [Node -> [Node -> Nat]]
  BY <1>1, <1>4 DEF RepairTypeOK
<1>8. RepairTypeOK'
  BY <1>3, <1>6, <1>7 DEF RepairTypeOK, IsRepair, RepairIn
<1>9. ASSUME NEW x \in Node, NEW y \in Node PROVE TimerStep(x, y)
  <2>1. EventsKept(x, y)
    BY <1>1, <1>4, <1>7 DEF EventsKept
  <2>2. CASE x = n /\ y = d
    BY <1>1, <1>4, <1>7, <2>2 DEF Timed, TimerStep
  <2>3. CASE ~(x = n /\ y = d)
    BY <1>3, <2>1, <2>3 DEF TimerStep, NotPut
  <2> QED BY <2>2, <2>3
<1> QED BY <1>8, <1>9 DEF GoodStep

\* recvError elsewhere.
LEMMA ErrorStep ==
  ASSUME RepairTypeOK, NEW n \in Node, NEW m \in rerr, recvError(n, m)
  PROVE  GoodStep
<1>1. TypeOK /\ m.origDst \in Node /\ m.origSrc \in Node /\ m \in RERR
  BY DEF RepairTypeOK, TypeOK, RERR
<1>2. CASE StartRepair(n, m)
  BY <1>2, StartRepairStep
<1>3. CASE GiveUpRoute(n, m)
  <2>1. /\ rt[n][m.origDst] \in Entry /\ rt_down(rt[n][m.origDst]) \in Entry
        /\ rt_down(rt[n][m.origDst]).flags = "DOWN"
    BY <1>1, DownType, EntriesNotPut DEF TypeOK
  <2>2. rt' = [rt EXCEPT ![n][m.origDst] = rt_down(rt[n][m.origDst])]
    BY <1>3 DEF GiveUpRoute
  <2>3. TypeOK'
    BY <1>1, <1>3, <2>1, <2>2 DEF GiveUpRoute, TypeOK
  <2>4. \A x, y \in Node : NotPut(x, y)
    BY <1>1, <2>1, <2>2 DEF TypeOK, NotPut
  <2>5. UNCHANGED repair
    BY <1>3 DEF GiveUpRoute
  <2> QED BY <2>3, <2>4, <2>5, QuietStep DEF repair, RepairTypeOK
<1>4. CASE ForwardError(n, m)
  <2>1. rt[n][m.origSrc].nexthop \in Node
    BY <1>1 DEF TypeOK, Entry
  <2>2. [m EXCEPT !.from = n, !.to = rt[n][m.origSrc].nexthop] \in RERR
    BY <1>1, <2>1 DEF RERR
  <2>3. rerr' \subseteq RERR /\ failed' \subseteq AssertLabel
    BY <1>1, <1>4, <2>2 DEF ForwardError, TypeOK, Assert, AssertLabel
  <2>4. UNCHANGED <<agent, rreq, rrep, data, nsent, repair>>
    BY <1>4 DEF ForwardError
  <2>5. TypeOK'
    BY <1>1, <2>3, <2>4 DEF TypeOK, agent
  <2> QED BY <2>4, <2>5, QuietStep DEF repair, agent, NotPut, RepairTypeOK
<1> QED BY <1>2, <1>3, <1>4 DEF recvError

\* recvRepa and forwardRepc.
LEMMA RepairStep ==
  ASSUME RepairTypeOK, NEW n \in Node, NEW m \in repa,
         AnswerRepair(n, m) \/ PassOnRepair(n, m) \/ forwardRepc(n, m)
  PROVE  GoodStep
<1>1. TypeOK /\ IsRepair(m) /\ Delivered(m, n) /\ LearnSource(n, m)
  BY DEF RepairTypeOK, AnswerRepair, PassOnRepair, forwardRepc
<1>2. /\ rt' \in [Node -> [Node -> Entry]]
      /\ queue' \in [Node -> SUBSET Packet]
      /\ data' \subseteq Frame
      /\ \A x, d \in Node : NotPut(x, d)
  BY <1>1, LearnSourceType
<1>3. UNCHANGED <<bid, ids, nb, loc, ludp, rreq, rerr, nsent, locexp, reparetx>>
  BY DEF AnswerRepair, PassOnRepair, forwardRepc
<1>4. failed' \subseteq AssertLabel
  BY <1>1 DEF AnswerRepair, PassOnRepair, forwardRepc, TypeOK, HasNeighbour, Assert,
     AssertLabel
<1>5. CASE AnswerRepair(n, m)
  <2> DEFINE s == ReplySeqno(seqno[n], m.dstSeqno)
  <2>1. m.src \in Node /\ m.dstSeqno \in Nat /\ seqno[n] \in Nat
    BY <1>1, RepairFields DEF TypeOK
  <2>2. s \in Nat
    BY <2>1, ReplySeqnoType
  <2>3. rt'[n][m.src].nexthop \in Node
    BY <1>2, <2>1 DEF Entry
  <2> DEFINE r == [from |-> n, to |-> rt'[n][m.src].nexthop, ipdst |-> m.src, dst |-> n,
                   dstSeqno |-> s, hops |-> 1, ttl |-> NETWORK_DIAMETER]
  <2>4. r \in RREP
    BY <2>1, <2>2, <2>3, ConstantAssumption DEF RREP
  <2>5. rrep' \subseteq rrep \cup {r}
    BY <1>5 DEF AnswerRepair
  <2>6. seqno' = [seqno EXCEPT ![n] = s] /\ repa' \subseteq repa
    BY <1>5 DEF AnswerRepair
  <2> HIDE DEF r, s
  <2>7. TypeOK'
    BY <1>1, <1>2, <1>3, <1>4, <2>2, <2>4, <2>5, <2>6 DEF TypeOK
  <2>8. \A o \in repa' : IsRepair(o)
    BY <2>6 DEF RepairTypeOK
  <2> QED BY <1>2, <1>3, <2>7, <2>8, QuietStep
<1>6. CASE PassOnRepair(n, m) \/ forwardRepc(n, m)
  <2>1. TypeOK'
    BY <1>1, <1>2, <1>3, <1>4, <1>6 DEF PassOnRepair, forwardRepc, TypeOK
  <2>2. \A o \in repa' : IsRepair(o)
    <3>1. CASE PassOnRepair(n, m)
      <4>1. CASE \E out \in BothWays(n, m) : repa' = (repa \ {m}) \cup out
        BY <1>1, <4>1, BothWaysType DEF RepairTypeOK
      <4>2. CASE \E g \in greedy_next(n, m.target) :
                   repa' = (repa \ {m}) \cup {forwardRepa(n, m, g)}
        BY <1>1, <4>2, ForwardRepaType DEF RepairTypeOK
      <4> QED BY <3>1, <4>1, <4>2 DEF PassOnRepair
    <3>2. CASE forwardRepc(n, m)
      <4>1. PICK out \in Sent(n, m) : repa' = (repa \ {m}) \cup out
        BY <3>2 DEF forwardRepc
      <4>2. \A o \in out : IsRepair(o)
        BY <1>1, SentType
      <4> QED BY <4>1, <4>2 DEF RepairTypeOK
    <3> QED BY <1>6, <3>1, <3>2
  <2> QED BY <1>2, <1>3, <2>1, <2>2, QuietStep
<1> QED BY <1>5, <1>6

\* The timer that ends a repair.
LEMMA LocExpStep ==
  ASSUME RepairTypeOK, NEW n \in Node, NEW d \in Node, LocExp(n, d)
  PROVE  GoodStep
<1>1. /\ TypeOK /\ rt[n][d] \in Entry /\ queue[n] \in SUBSET Packet
      /\ locexp \in [Node -> [Node -> Nat]] /\ locexp[n][d] \in Nat \ {0}
  BY DEF RepairTypeOK, TypeOK, LocExp
<1>2. /\ locexp' = [locexp EXCEPT ![n][d] = @ - 1]
      /\ UNCHANGED <<ids, nb, loc, ludp, rrep, rerr, data, nsent, repa, reparetx>>
  BY DEF LocExp
<1>3. TypeOK' /\ (\A x, y \in Node : NotPut(x, y)) /\ rt'[n][d].flags # "IN_REPAIR"
  <2>1. CASE rt[n][d].flags = "UP"
    <3>1. UNCHANGED <<seqno, bid, rt, queue, rreq, failed>>
      BY <2>1 DEF LocExp
    <3> QED BY <1>1, <1>2, <2>1, <3>1 DEF TypeOK, NotPut
  <2>2. CASE rt[n][d].flags # "UP"
    <3> DEFINE e == rt_down(rt[n][d])
    <3>1. e \in Entry /\ e.flags = "DOWN"
      BY <1>1, DownType, EntriesNotPut
    <3>2. sendRequest(n, d, e, queue[n])
      BY <2>2 DEF LocExp
    <3> HIDE DEF e
    <3>3. data' \subseteq Frame /\ nsent' \in Nat
      BY <1>1, <1>2 DEF TypeOK
    <3>4. TypeOK'
      BY <1>1, <1>2, <3>1, <3>2, <3>3, SendType
    <3>5. \A x, y \in Node : NotPut(x, y)
      BY <1>1, <3>1, <3>2, SendNotPut
    <3>6. rt'[n][d].flags # "IN_REPAIR"
      <4>1. PICK f \in {e, Searching(e), [e EXCEPT !.reqCnt = 0, !.reqWait = TRUE]} :
              rt' = [rt EXCEPT ![n][d] = f]
        BY <3>2 DEF sendRequest, RateLimited, GiveUp, Search
      <4>2. f.flags = "DOWN"
        BY <3>1, <4>1, EntriesNotPut
      <4> QED BY <1>1, <4>1, <4>2 DEF TypeOK
    <3> QED BY <3>4, <3>5, <3>6
  <2> QED BY <2>1, <2>2
<1>4. locexp' \in [Node -> [Node -> Nat]]
  <2>1. locexp[n][d] - 1 \in Nat
    BY <1>1
  <2> QED BY <1>1, <1>2, <2>1
<1>5. RepairTypeOK'
  BY <1>2, <1>3, <1>4 DEF RepairTypeOK, IsRepair, RepairIn
<1>6. ASSUME NEW x \in Node, NEW y \in Node PROVE TimerStep(x, y)
  <2>1. CASE x = n /\ y = d
    BY <1>3, <2>1 DEF TimerStep
  <2>2. CASE ~(x = n /\ y = d)
    <3>1. EventsKept(x, y)
      BY <1>1, <1>2, <2>2 DEF EventsKept, RepairTypeOK
    <3> QED BY <1>3, <3>1 DEF TimerStep, NotPut
  <2> QED BY <2>1, <2>2
<1> QED BY <1>5, <1>6 DEF GoodStep

\* The timer that repeats a repair.
LEMMA RepaRetxStep ==
  ASSUME RepairTypeOK, NEW n \in Node, NEW d \in Node, RepaRetx(n, d)
  PROVE  GoodStep
<1>1. /\ TypeOK /\ rt[n][d] \in Entry /\ seqno[n] \in Nat
      /\ reparetx \in [Node -> [Node -> Nat]] /\ reparetx[n][d] \in Nat \ {0}
  BY DEF RepairTypeOK, TypeOK, RepaRetx
<1>2. /\ reparetx' = [reparetx EXCEPT ![n][d] =
                        IF rt[n][d].flags = "IN_REPAIR" THEN @ ELSE @ - 1]
      /\ UNCHANGED <<seqno, bid, ids, nb, loc, ludp, queue, air, nsent, locexp>>
  BY DEF RepaRetx
<1>3. /\ rt' \in [Node -> [Node -> Entry]]
      /\ \A m \in repa' : IsRepair(m)
      /\ \A x, y \in Node : NotPut(x, y)
      /\ failed' \subseteq AssertLabel
  <2>1. CASE /\ rt[n][d].flags = "IN_REPAIR"
             /\ init_route_maintenance(n, d, rt[n][d], seqno[n])
             /\ failed' = failed \cup HasNeighbour(n)
    <3>1. /\ rt' \in [Node -> [Node -> Entry]]
          /\ \A m \in repa' : IsRepair(m)
          /\ \A x, y \in Node : NotPut(x, y) \/ (x = n /\ y = d)
      BY <1>1, <2>1, MaintenanceType
    <3>2. NotPut(n, d)
      BY <2>1 DEF NotPut
    <3>3. failed' \subseteq AssertLabel
      BY <1>1, <2>1 DEF TypeOK, HasNeighbour, Assert, AssertLabel
    <3> QED BY <3>1, <3>2, <3>3
  <2>2. CASE UNCHANGED <<rt, repa, failed>>
    BY <1>1, <2>2 DEF RepairTypeOK, TypeOK, NotPut
  <2> QED BY <2>1, <2>2 DEF RepaRetx
<1>4. TypeOK'
  BY <1>1, <1>2, <1>3 DEF TypeOK, air
<1>5. reparetx' \in [Node -> [Node -> Nat]]
  <2> DEFINE left == IF rt[n][d].flags = "IN_REPAIR" THEN reparetx[n][d]
                     ELSE reparetx[n][d] - 1
  <2>1. left \in Nat
    BY <1>1
  <2>2. reparetx' = [reparetx EXCEPT ![n][d] = left]
    BY <1>2
  <2> HIDE DEF left
  <2> QED BY <1>1, <2>1, <2>2
<1>6. RepairTypeOK'
  BY <1>2, <1>3, <1>4, <1>5 DEF RepairTypeOK, IsRepair, RepairIn
<1>7. ASSUME NEW x \in Node, NEW y \in Node PROVE TimerStep(x, y)
  <2>1. rt'[x][y].flags = "IN_REPAIR" => rt[x][y].flags = "IN_REPAIR"
    BY <1>3 DEF NotPut
  <2>2. rt[x][y].flags = "IN_REPAIR" => EventsKept(x, y)
    BY <1>1, <1>2 DEF EventsKept, RepairTypeOK
  <2> QED BY <2>1, <2>2 DEF TimerStep
<1> QED BY <1>6, <1>7 DEF GoodStep

\* Every step.
LEMMA RepairNextStep ==
  ASSUME RepairTypeOK, [RepairNext]_repairVars
  PROVE  GoodStep
<1>1. CASE Next /\ UNCHANGED repair
  <2>1. TypeOK /\ Next
    BY <1>1 DEF RepairTypeOK
  <2>2. TypeOK'
    BY <2>1, TypeStep
  <2>3. \A x, y \in Node : NotPut(x, y)
    BY <2>1, NextNotPut
  <2> QED BY <1>1, <2>2, <2>3, QuietStep DEF repair, RepairTypeOK
<1>2. ASSUME NEW n \in Node, NEW m \in rerr, recvError(n, m) PROVE GoodStep
  BY <1>2, ErrorStep
<1>3. ASSUME NEW n \in Node, NEW m \in repa,
             AnswerRepair(n, m) \/ PassOnRepair(n, m) \/ forwardRepc(n, m)
      PROVE  GoodStep
  BY <1>3, RepairStep
<1>4. ASSUME NEW n \in Node, NEW d \in Node, LocExp(n, d) PROVE GoodStep
  BY <1>4, LocExpStep
<1>5. ASSUME NEW n \in Node, NEW d \in Node, RepaRetx(n, d) PROVE GoodStep
  BY <1>5, RepaRetxStep
<1>6. CASE UNCHANGED repairVars
  <2>1. UNCHANGED vars /\ UNCHANGED repair
    BY <1>6 DEF repairVars
  <2>2. TypeOK'
    BY <2>1, TypeStep DEF RepairTypeOK
  <2>3. \A x, y \in Node : NotPut(x, y)
    BY <2>1 DEF vars, NotPut
  <2> QED BY <2>1, <2>2, <2>3, QuietStep DEF repair, RepairTypeOK
<1> QED BY <1>1, <1>2, <1>3, <1>4, <1>5, <1>6 DEF RepairNext

(***************************************************************************)
(* The theorems.                                                           *)
(***************************************************************************)
\* Every variable of a network that repairs its routes keeps its type,
\* whatever the placement of the nodes and wherever the repairs go.
THEOREM RepairTypeCorrect == RepairSpec => []RepairTypeOK
<1>1. RepairInit => RepairTypeOK
  <2>1. Init => TypeOK
    BY NoEntryType DEF Init, TypeOK, AssertLabel
  <2> QED BY <2>1 DEF RepairInit, RepairTypeOK
<1>2. RepairTypeOK /\ [RepairNext]_repairVars => RepairTypeOK'
  BY RepairNextStep DEF GoodStep
<1> QED BY <1>1, <1>2, PTL DEF RepairSpec

\* recvError and the two timers: whatever becomes of the route errors, repairs
\* and replies, of earlier repairs of the same route and of their timers, a
\* route under repair has an event of either kind ahead of it.
THEOREM TimersRun == RepairSpec => []RepairTimed
<1>1. RepairInit => RepairTimed
  BY DEF RepairInit, Init, NoEntry, RepairTimed
<1>2. RepairTypeOK /\ RepairTimed /\ [RepairNext]_repairVars => RepairTimed'
  <2> SUFFICES ASSUME RepairTypeOK, RepairTimed, [RepairNext]_repairVars,
                      NEW x \in Node, NEW y \in Node, rt'[x][y].flags = "IN_REPAIR"
               PROVE  Timed(x, y)
    BY DEF RepairTimed, Timed
  <2>1. TimerStep(x, y) /\ RepairTypeOK'
    BY RepairNextStep DEF GoodStep
  <2>2. CASE rt[x][y].flags = "IN_REPAIR" /\ EventsKept(x, y)
    <3>1. /\ locexp[x][y] > 0 /\ reparetx[x][y] > 0
          /\ locexp'[x][y] >= locexp[x][y] /\ reparetx'[x][y] >= reparetx[x][y]
      BY <2>2 DEF RepairTimed, EventsKept
    <3>2. /\ locexp[x][y] \in Nat /\ reparetx[x][y] \in Nat
          /\ locexp'[x][y] \in Nat /\ reparetx'[x][y] \in Nat
      BY <2>1 DEF RepairTypeOK
    <3> QED BY <3>1, <3>2 DEF Timed
  <2>3. CASE Timed(x, y)
    BY <2>3
  <2> QED BY <2>1, <2>2, <2>3 DEF TimerStep
<1> QED BY <1>1, <1>2, RepairTypeCorrect, PTL DEF RepairSpec

(***************************************************************************)
(* A packet is in one place, also when repairs drain the buffer.           *)
(***************************************************************************)
\* A repair that teaches a route moves packets of the buffer to the air.
LEMMA LearnSourceDequeues ==
  ASSUME TypeOK, NEW n \in Node, NEW m, IsRepair(m), Delivered(m, n),
         LearnSource(n, m), nsent' = nsent
  PROVE  Dequeues(n)
<1>1. m.from \in Node
  BY TopologyAssumption DEF Delivered
<1>2. CASE Fresher(rt_add(rt[n][m.src]), m.srcSeqno, m.hops)
  <2>1. PICK lost \in SUBSET queue[n] :
          LET ready == Waiting(n, m.src, lost)
          IN /\ queue' = [queue EXCEPT ![n] = @ \ (lost \cup ready)]
             /\ data' = data \cup Frames(n, m.from, ready)
    BY <1>2 DEF LearnSource
  <2>2. Waiting(n, m.src, lost) \in SUBSET queue[n]
    BY DEF Waiting
  <2> QED BY <1>1, <2>1, <2>2, LearnDequeues
<1>3. CASE ~Fresher(rt_add(rt[n][m.src]), m.srcSeqno, m.hops)
  <2>1. UNCHANGED <<queue, data>>
    BY <1>3 DEF LearnSource
  <2>2. queue' = [queue EXCEPT ![n] = @ \ ({} \cup {})]
    BY <2>1 DEF TypeOK
  <2>3. data' = data \cup Frames(n, m.from, {})
    BY <2>1 DEF Frames
  <2> QED BY <1>1, <2>2, <2>3, LearnDequeues
<1> QED BY <1>2, <1>3

\* Every step.
LEMMA RepairOnceStep ==
  ASSUME RepairTypeOK, Once, [RepairNext]_repairVars
  PROVE  Once'
<1>1. CASE Next
  BY <1>1, OnceStep DEF RepairTypeOK
<1>2. ASSUME NEW n \in Node, NEW m \in rerr, recvError(n, m) PROVE Once'
  BY <1>2, ShrinkOnce
     DEF recvError, StartRepair, GiveUpRoute, ForwardError, agent, Shrinks
<1>3. ASSUME NEW n \in Node, NEW m \in repa,
             AnswerRepair(n, m) \/ PassOnRepair(n, m) \/ forwardRepc(n, m)
      PROVE  Once'
  <2>1. TypeOK /\ IsRepair(m) /\ Delivered(m, n) /\ LearnSource(n, m) /\ nsent' = nsent
    BY <1>3 DEF RepairTypeOK, AnswerRepair, PassOnRepair, forwardRepc
  <2> QED BY <2>1, LearnSourceDequeues, DequeueOnce
<1>4. ASSUME NEW n \in Node, NEW d \in Node, LocExp(n, d) PROVE Once'
  <2>1. TypeOK /\ data' = data /\ nsent' = nsent
    BY <1>4 DEF RepairTypeOK, LocExp
  <2>2. CASE queue' = queue
    BY <2>1, <2>2, ShrinkOnce DEF Shrinks
  <2>3. CASE sendRequest(n, d, rt_down(rt[n][d]), queue[n])
    BY <2>1, <2>3, SendQueue, ShrinkOnce DEF Shrinks
  <2> QED BY <1>4, <2>2, <2>3 DEF LocExp
<1>5. ASSUME NEW n \in Node, NEW d \in Node, RepaRetx(n, d) PROVE Once'
  BY <1>5, ShrinkOnce DEF RepaRetx, air, Shrinks
<1>6. CASE UNCHANGED repairVars
  BY <1>6, ShrinkOnce DEF repairVars, vars, Shrinks
<1> QED BY <1>1, <1>2, <1>3, <1>4, <1>5, <1>6 DEF RepairNext

\* A packet stays in one place when repairs, too, teach routes and drain the
\* buffer, and when a timer gives a repair up and searches again.
THEOREM RepairPacketIsOnce == RepairSpec => []PacketOnce
<1>1. RepairInit => Once
  BY DEF RepairInit, Init, Once, PacketOnce, IdsSent
<1>2. Once => PacketOnce
  BY DEF Once
<1>3. RepairTypeOK /\ Once /\ [RepairNext]_repairVars => Once'
  BY RepairOnceStep
<1> QED BY <1>1, <1>2, <1>3, RepairTypeCorrect, PTL DEF RepairSpec

(***************************************************************************)
(* What a handler or timer of a repair can do to an entry, and where the   *)
(* repairs on the air come from.  The proofs below go by these cases, as   *)
(* those of discovery go by EntryStep.                                     *)
(***************************************************************************)
Repairing(n, d) ==
  /\ rt'[n][d].flags = "IN_REPAIR"
  /\ rt'[n][d].seqno = rt[n][d].seqno
  /\ rt'[n][d].hops = rt[n][d].hops

TakenDown(n, d) ==
  /\ rt'[n][d].flags = "DOWN"
  /\ rt'[n][d].seqno = rt[n][d].seqno
  /\ rt'[n][d].hops = INFINITY2

RepairEntryStep(n, d) ==
  \/ Kept(n, d)
  \/ Repairing(n, d)
  \/ TakenDown(n, d)
  \/ d = n /\ Learned(n, d, seqno'[n], 1, n)
  \/ \E m \in repa : d = m.src /\ Learned(n, d, m.srcSeqno, m.hops, m.from)

\* m is o on its way: only the wanted sequence number may have grown.
OnItsWay(m, o) ==
  /\ m.src = o.src /\ m.dst = o.dst /\ m.srcSeqno = o.srcSeqno
  /\ \/ m.dstSeqno = o.dstSeqno
     \/ \E x \in Node : m.dstSeqno = Larger(rt[x][o.dst].seqno, o.dstSeqno)

\* A repair that was not there before: its source has sent it ...
RepairStarted(m) ==
  /\ m.srcSeqno = seqno'[m.src]
  /\ m.dstSeqno = 0 \/ \E x \in Node : m.dstSeqno = rt[x][m.dst].seqno
  /\ m.hops \in 1..2

\* ... or has passed on the repair o.
RepairPassed(m) ==
  \E o \in repa : OnItsWay(m, o) /\ m.hops = o.hops + 1 /\ o.hops < MaxHops

\* What forwardRepc sends is on its way.
LEMMA SentOnItsWay ==
  ASSUME NEW n \in Node, NEW m, IsRepair(m), NEW out \in Sent(n, m), NEW r \in out
  PROVE  OnItsWay(r, m) /\ r.hops = m.hops + 1
<1>1. PICK S : m \in RepairIn(S)
  BY DEF IsRepair
<1>2. PICK g \in greedy_next(n, m.target) :
        out \in IF LeavesMaximum(n, m.from, m.path, g) THEN {{forwardRepa(n, m, g)}}
                ELSE IF PreviousKnown(n, m) THEN Turn(n, m) ELSE {{}}
  BY DEF Sent
<1>3. CASE r = forwardRepa(n, m, g)
  BY <1>1, <1>3 DEF forwardRepa, RepairIn, OnItsWay
<1>4. ASSUME NEW h, NEW path, r = WalkOn(n, m, h, path)
      PROVE  OnItsWay(r, m) /\ r.hops = m.hops + 1
  <2> DEFINE p == IF m.from = n THEN <<[id |-> n, at |-> Place[n]]>> \o path ELSE path
  <2>1. r = [m EXCEPT !.from = n, !.to = h, !.greedy = FALSE, !.hops = @ + 1, !.path = p]
    BY <1>4 DEF WalkOn
  <2> HIDE DEF p
  <2> QED BY <1>1, <2>1 DEF RepairIn, OnItsWay
<1>5. CASE out \in Turn(n, m)
  <2>1. \E h, path : out \in {{}, {WalkOn(n, m, h, path)}}
    BY <1>5 DEF Turn
  <2> QED BY <1>4, <2>1
<1> QED BY <1>2, <1>3, <1>5

\* So are the two copies that go round a local maximum.
LEMMA BothOnTheirWay ==
  ASSUME NEW n \in Node, NEW m, IsRepair(m), NEW out \in BothWays(n, m), NEW r \in out
  PROVE  OnItsWay(r, m) /\ r.hops = m.hops + 1
<1> DEFINE a(k) == [m EXCEPT !.greedy = FALSE, !.dir = k]
<1>1. PICK S : m \in RepairIn(S)
  BY DEF IsRepair
<1>2. ASSUME NEW k, NEW o \in Sent(n, a(k)), r \in o
      PROVE  OnItsWay(r, m) /\ r.hops = m.hops + 1
  <2>1. IsRepair(a(k))
    BY SameRepairType
  <2>2. /\ a(k).src = m.src /\ a(k).dst = m.dst /\ a(k).srcSeqno = m.srcSeqno
        /\ a(k).dstSeqno = m.dstSeqno /\ a(k).hops = m.hops
    BY <1>1 DEF RepairIn
  <2> HIDE DEF a
  <2>3. OnItsWay(r, a(k)) /\ r.hops = a(k).hops + 1
    BY <1>2, <2>1, SentOnItsWay
  <2> QED BY <2>2, <2>3 DEF OnItsWay
<1>3. PICK x \in Sent(n, a(0)), y \in Sent(n, a(1)) : out = x \cup y
  BY DEF BothWays
<1> HIDE DEF a
<1> QED BY <1>2, <1>3

\* init_route_maintenance: what it leaves of the routes, and what it sends.
LEMMA MaintenanceSteps ==
  ASSUME RepairTypeOK, NEW n \in Node, NEW d \in Node, NEW e \in Entry,
         seqno'[n] \in Nat, init_route_maintenance(n, d, e, seqno'[n])
  PROVE  /\ \A x, y \in Node : \/ rt'[x][y] = rt[x][y]
                               \/ x = n /\ y = d /\ rt'[x][y] = e
                               \/ x = n /\ y = n /\ rt'[x][y] = RouteToSelf(n, seqno'[n])
         /\ \A m \in repa' : m \in repa \/ RepairStarted(m)
<1> DEFINE s == seqno'[n]
<1>0. TypeOK /\ s \in Nat /\ rt[n][d].seqno \in Nat
  BY DEF RepairTypeOK, TypeOK, Entry
<1> HIDE DEF s
<1>1. ASSUME NEW greedy, NEW m, NEW o, o = NewRepair(n, d, s, greedy),
             OnItsWay(m, o) /\ m.hops \in 1..2
      PROVE  RepairStarted(m)
  <2>1. /\ o.src = n /\ o.dst = d /\ o.srcSeqno = s
        /\ o.dstSeqno \in {0, rt[n][d].seqno}
    BY <1>1 DEF NewRepair
  <2>2. \A x \in Node : rt[x][d].seqno \in Nat
    BY <1>0 DEF TypeOK, Entry
  <2>3. m.src = n /\ m.dst = d /\ m.srcSeqno = s
    BY <1>1, <2>1 DEF OnItsWay
  <2>4. m.dstSeqno = 0 \/ \E x \in Node : m.dstSeqno = rt[x][d].seqno
    <3>1. CASE m.dstSeqno = o.dstSeqno
      BY <2>1, <3>1
    <3>2. ASSUME NEW x \in Node, m.dstSeqno = Larger(rt[x][d].seqno, o.dstSeqno)
          PROVE  m.dstSeqno = 0 \/ \E y \in Node : m.dstSeqno = rt[y][d].seqno
      <4>1. m.dstSeqno \in {rt[x][d].seqno, o.dstSeqno}
        BY <3>2 DEF Larger
      <4> QED BY <2>1, <4>1
    <3> QED BY <1>1, <2>1, <3>1, <3>2 DEF OnItsWay
  <2> QED BY <1>1, <2>3, <2>4 DEF RepairStarted, s
<1>2. \A greedy : IsRepair(NewRepair(n, d, s, greedy)) /\ NewRepair(n, d, s, greedy).hops = 1
  BY <1>0, NewRepairType DEF NewRepair
<1>3. CASE StartGreedy(n, d, s) /\ rt' = [rt EXCEPT ![n][d] = e]
  <2>1. PICK g : repa' = repa \cup {[NewRepair(n, d, s, TRUE) EXCEPT !.to = g]}
    BY <1>3 DEF StartGreedy
  <2>2. ASSUME NEW m, m = [NewRepair(n, d, s, TRUE) EXCEPT !.to = g] PROVE RepairStarted(m)
    <3> DEFINE o == NewRepair(n, d, s, TRUE)
    <3>1. PICK S : o \in RepairIn(S)
      BY <1>2 DEF IsRepair
    <3>2. o.hops = 1 /\ m = [o EXCEPT !.to = g]
      BY <1>2, <2>2
    <3> HIDE DEF o
    <3>3. OnItsWay(m, o) /\ m.hops \in 1..2
      BY <3>1, <3>2 DEF RepairIn, OnItsWay
    <3> QED BY <1>1, <3>3 DEF o
  <2>3. \A x, y \in Node : \/ rt'[x][y] = rt[x][y]
                           \/ x = n /\ y = d /\ rt'[x][y] = e
    <3> TAKE x, y \in Node
    <3>1. CASE x = n /\ y = d
      BY <1>0, <1>3, <3>1 DEF TypeOK
    <3>2. CASE ~(x = n /\ y = d)
      <4>1. rt' = [rt EXCEPT ![n][d] = e] /\ rt \in [Node -> [Node -> Entry]]
        BY <1>0, <1>3 DEF TypeOK
      <4>2. rt'[x][y] = rt[x][y]
        BY <3>2, <4>1
      <4> QED BY <4>2
    <3> QED BY <3>1, <3>2
  <2> QED BY <2>1, <2>2, <2>3
<1>4. CASE /\ StartAround(n, d, s)
           /\ rt' = [rt EXCEPT ![n][d] = e, ![n][n] = RouteToSelf(n, s)]
  <2>1. PICK out \in BothWays(n, NewRepair(n, d, s, FALSE)) : repa' = repa \cup out
    BY <1>4 DEF StartAround
  <2>2. ASSUME NEW m \in out PROVE RepairStarted(m)
    <3> DEFINE o == NewRepair(n, d, s, FALSE)
    <3>1. IsRepair(o) /\ o.hops = 1
      BY <1>2
    <3>2. out \in BothWays(n, o)
      BY <2>1
    <3> HIDE DEF o
    <3>3. OnItsWay(m, o) /\ m.hops = o.hops + 1
      BY <2>2, <3>1, <3>2, BothOnTheirWay
    <3>4. m.hops \in 1..2
      BY <3>1, <3>3
    <3> QED BY <1>1, <3>3, <3>4 DEF o
  <2> DEFINE self == RouteToSelf(n, s)
  <2>3. rt' = [rt EXCEPT ![n][d] = e, ![n][n] = self]
    BY <1>4
  <2> HIDE DEF self
  <2>4. \A x, y \in Node : \/ rt'[x][y] = rt[x][y]
                           \/ x = n /\ y = d /\ rt'[x][y] = e
                           \/ x = n /\ y = n /\ rt'[x][y] = self
    BY <1>0, <2>3 DEF TypeOK
  <2> QED BY <2>1, <2>2, <2>4 DEF self, s
<1> QED BY <1>3, <1>4 DEF init_route_maintenance, s

\* A repair teaches the route it came by if that is fresher, and none otherwise.
LEMMA RepairLearns ==
  ASSUME NEW e \in Entry, NEW m
  PROVE  IF Fresher(e, m.srcSeqno, m.hops)
         THEN /\ ReverseRoute(e, m).seqno = m.srcSeqno
              /\ ReverseRoute(e, m).hops = m.hops
              /\ ReverseRoute(e, m).nexthop = m.from
              /\ ReverseRoute(e, m).flags = "UP"
         ELSE ReverseRoute(e, m) = e
BY DEF ReverseRoute, rt_update, Entry

\* What a reverse route is to an entry that may have been absent.
LEMMA ReverseOfAdded ==
  ASSUME TypeOK, NEW x \in Node, NEW d \in Node, NEW m,
         m.srcSeqno \in Nat, m.hops \in Nat,
         rt'[x][d] = ReverseRoute(rt_add(rt[x][d]), m)
  PROVE  Kept(x, d) \/ Learned(x, d, m.srcSeqno, m.hops, m.from)
<1> DEFINE e == rt_add(rt[x][d])
<1>1. rt[x][d] \in Entry /\ e \in Entry
  BY AddType DEF TypeOK
<1>2. Fresher(e, m.srcSeqno, m.hops) <=> Fresher(rt[x][d], m.srcSeqno, m.hops)
  BY <1>1, FresherAdd
<1>3. CASE Fresher(e, m.srcSeqno, m.hops)
  BY <1>1, <1>2, <1>3, RepairLearns DEF Learned
<1>4. CASE ~Fresher(e, m.srcSeqno, m.hops)
  <2>1. rt'[x][d] = e
    BY <1>1, <1>4, RepairLearns
  <2> QED BY <1>1, <2>1, AddKeeps DEF Kept
<1> QED BY <1>3, <1>4

\* The route a repair teaches.
LEMMA LearnSourceSteps ==
  ASSUME RepairTypeOK, NEW n \in Node, NEW m \in repa, LearnSource(n, m),
         NEW x \in Node, NEW d \in Node
  PROVE  RepairEntryStep(x, d)
<1>1. /\ TypeOK /\ IsRepair(m)
      /\ m.src \in Node /\ m.srcSeqno \in Nat /\ m.hops \in Nat
  BY RepairFields DEF RepairTypeOK
<1> DEFINE r == ReverseRoute(rt_add(rt[n][m.src]), m)
<1>2. rt' = [rt EXCEPT ![n][m.src] = r]
  BY DEF LearnSource
<1> HIDE DEF r
<1>3. CASE x = n /\ d = m.src
  <2>1. rt'[x][d] = r
    BY <1>1, <1>2, <1>3 DEF TypeOK
  <2>2. Kept(x, d) \/ Learned(x, d, m.srcSeqno, m.hops, m.from)
    BY <1>1, <1>3, <2>1, ReverseOfAdded DEF r
  <2> QED BY <1>3, <2>2 DEF RepairEntryStep
<1>4. CASE ~(x = n /\ d = m.src)
  <2>1. rt'[x][d] = rt[x][d]
    BY <1>1, <1>2, <1>4 DEF TypeOK
  <2> QED BY <2>1 DEF RepairEntryStep, Kept
<1> QED BY <1>3, <1>4

\* All that is needed of a step of the repair.
RepairStepOK ==
  /\ \A x \in Node : SeqnoStep(x)
  /\ \A x, d \in Node : RepairEntryStep(x, d)
  /\ \A m \in rreq' : m \in rreq \/ Started(m)
  /\ \A m \in rrep' : m \in rrep \/ Answered(m)
  /\ \A m \in repa' : m \in repa \/ RepairStarted(m) \/ RepairPassed(m)

\* The entries when a repair is sent, first or again: e is what the caller
\* leaves for d.
LEMMA MaintenanceEntries ==
  ASSUME RepairTypeOK, NEW n \in Node, NEW d \in Node, NEW e \in Entry,
         seqno'[n] \in Nat, init_route_maintenance(n, d, e, seqno'[n]),
         e \in {rt[n][d], [rt[n][d] EXCEPT !.flags = "IN_REPAIR"]},
         NEW x \in Node, NEW y \in Node
  PROVE  RepairEntryStep(x, y)
<1>1. TypeOK /\ rt[n][d] \in Entry
  BY DEF RepairTypeOK, TypeOK
<1>2. CASE rt'[x][y] = rt[x][y]
  BY <1>2 DEF RepairEntryStep, Kept
<1>3. CASE x = n /\ y = d /\ rt'[x][y] = e
  <2>1. /\ e.seqno = rt[n][d].seqno /\ e.hops = rt[n][d].hops
        /\ e = rt[n][d] \/ e.flags = "IN_REPAIR"
    BY <1>1 DEF Entry
  <2> QED BY <1>3, <2>1 DEF RepairEntryStep, Repairing, Kept
<1>4. CASE x = n /\ y = n /\ rt'[x][y] = RouteToSelf(n, seqno'[n])
  <2> DEFINE m == [srcSeqno |-> seqno'[n], hops |-> 1, from |-> n]
  <2>1. m.srcSeqno = seqno'[n] /\ m.hops = 1 /\ m.from = n
    OBVIOUS
  <2>2. rt'[n][n] = ReverseRoute(rt_add(rt[n][n]), m)
    BY <1>4 DEF RouteToSelf
  <2> HIDE DEF m
  <2>3. Kept(n, n) \/ Learned(n, n, seqno'[n], 1, n)
    BY <1>1, <2>1, <2>2, ReverseOfAdded
  <2> QED BY <1>4, <2>3 DEF RepairEntryStep
<1> QED BY <1>2, <1>3, <1>4, MaintenanceSteps

\* recvError.
LEMMA ErrorSteps ==
  ASSUME RepairTypeOK, RoutesFar, NEW n \in Node, NEW o \in rerr, recvError(n, o)
  PROVE  RepairStepOK
<1>1. TypeOK /\ o.origDst \in Node
  BY DEF RepairTypeOK, TypeOK, RERR
<1>2. ASSUME seqno' = seqno, NEW x \in Node PROVE SeqnoStep(x)
  BY <1>1, <1>2 DEF SeqnoStep, TypeOK
<1>3. CASE StartRepair(n, o)
  <2> DEFINE d == o.origDst
             e == [rt[n][d] EXCEPT !.flags = "IN_REPAIR"]
  <2>1. seqno' = [seqno EXCEPT ![n] = @ + 2] /\ rreq' = rreq /\ rrep' = rrep
    BY <1>3 DEF StartRepair
  <2>2. seqno'[n] = seqno[n] + 2 /\ seqno'[n] \in Nat
    BY <1>1, <2>1 DEF TypeOK
  <2>3. e \in Entry
    <3>1. rt[n][d] \in Entry
      BY <1>1 DEF TypeOK
    <3> QED BY <3>1 DEF Entry
  <2>4. init_route_maintenance(n, d, e, seqno'[n])
    BY <1>3, <2>2 DEF StartRepair
  <2>5. e \in {rt[n][d], [rt[n][d] EXCEPT !.flags = "IN_REPAIR"]}
    OBVIOUS
  <2>6. ASSUME NEW x \in Node PROVE SeqnoStep(x)
    <3>1. seqno[x] \in Nat /\ seqno'[x] \in {seqno[x], seqno[x] + 2}
      BY <1>1, <2>1 DEF TypeOK
    <3> QED BY <3>1 DEF SeqnoStep
  <2> HIDE DEF e
  <2>7. \A m \in repa' : m \in repa \/ RepairStarted(m)
    BY <1>1, <2>2, <2>3, <2>4, MaintenanceSteps
  <2>8. \A x, y \in Node : RepairEntryStep(x, y)
    BY <1>1, <2>2, <2>3, <2>4, <2>5, MaintenanceEntries
  <2> QED BY <2>1, <2>6, <2>7, <2>8 DEF RepairStepOK
<1>4. CASE GiveUpRoute(n, o)
  <2> DEFINE d == o.origDst
  <2>1. rt' = [rt EXCEPT ![n][d] = rt_down(rt[n][d])]
    BY <1>4 DEF GiveUpRoute
  <2>2. rt[n][d] \in Entry /\ (rt[n][d].flags = "DOWN" => rt[n][d].hops = INFINITY2)
    BY <1>1 DEF TypeOK, RoutesFar
  <2>3. /\ rt_down(rt[n][d]).flags = "DOWN" /\ rt_down(rt[n][d]).hops = INFINITY2
        /\ rt_down(rt[n][d]).seqno = rt[n][d].seqno
    BY <2>2 DEF rt_down, Entry
  <2>4. ASSUME NEW x \in Node, NEW y \in Node PROVE RepairEntryStep(x, y)
    <3>1. CASE x = n /\ y = d
      <4>1. rt'[n][d] = rt_down(rt[n][d])
        BY <1>1, <2>1 DEF TypeOK
      <4> QED BY <2>3, <3>1, <4>1 DEF RepairEntryStep, TakenDown
    <3>2. CASE ~(x = n /\ y = d)
      <4>1. rt'[x][y] = rt[x][y]
        BY <1>1, <2>1, <3>2 DEF TypeOK
      <4> QED BY <4>1 DEF RepairEntryStep, Kept
    <3> QED BY <3>1, <3>2
  <2>5. seqno' = seqno /\ rreq' = rreq /\ rrep' = rrep /\ repa' = repa
    BY <1>4 DEF GiveUpRoute, repair
  <2> QED BY <1>2, <2>4, <2>5 DEF RepairStepOK
<1>5. CASE ForwardError(n, o)
  <2>1. seqno' = seqno /\ rreq' = rreq /\ rrep' = rrep /\ repa' = repa /\ rt' = rt
    BY <1>5 DEF ForwardError, repair, agent
  <2> QED BY <1>2, <2>1 DEF RepairStepOK, RepairEntryStep, Kept
<1> QED BY <1>3, <1>4, <1>5 DEF recvError

\* recvRepa and forwardRepc.
LEMMA HandlerSteps ==
  ASSUME RepairTypeOK, NEW n \in Node, NEW o \in repa,
         AnswerRepair(n, o) \/ PassOnRepair(n, o) \/ forwardRepc(n, o)
  PROVE  RepairStepOK
<1>1. /\ TypeOK /\ IsRepair(o) /\ LearnSource(n, o)
      /\ o.dstSeqno \in Nat /\ seqno[n] \in Nat
      /\ rreq' = rreq
  BY RepairFields DEF RepairTypeOK, TypeOK, AnswerRepair, PassOnRepair, forwardRepc
<1>2. \A x, d \in Node : RepairEntryStep(x, d)
  BY <1>1, LearnSourceSteps
<1>3. ASSUME seqno' = seqno, NEW x \in Node PROVE SeqnoStep(x)
  BY <1>1, <1>3 DEF SeqnoStep, TypeOK
<1>4. CASE AnswerRepair(n, o)
  <2> DEFINE s == ReplySeqno(seqno[n], o.dstSeqno)
  <2>1. s \in Nat /\ s % 2 = 0 /\ s > seqno[n]
    BY <1>1, ReplySeqnoType
  <2>2. seqno' = [seqno EXCEPT ![n] = s] /\ repa' = repa \ {o}
    BY <1>4 DEF AnswerRepair
  <2>3. seqno'[n] = s /\ \A x \in Node : x # n => seqno'[x] = seqno[x]
    BY <1>1, <2>2 DEF TypeOK
  <2>4. ASSUME NEW x \in Node PROVE SeqnoStep(x)
    <3>1. seqno[x] \in Nat
      BY <1>1 DEF TypeOK
    <3> QED BY <2>1, <2>3, <3>1 DEF SeqnoStep
  <2>5. ASSUME NEW m \in rrep', m \notin rrep PROVE Answered(m)
    <3>1. PICK hop : m = [from |-> n, to |-> hop, ipdst |-> o.src, dst |-> n,
                          dstSeqno |-> s, hops |-> 1, ttl |-> NETWORK_DIAMETER]
      BY <1>4, <2>5 DEF AnswerRepair
    <3> QED BY <2>1, <2>3, <3>1 DEF Answered
  <2> QED BY <1>1, <1>2, <2>2, <2>4, <2>5 DEF RepairStepOK
<1>5. CASE PassOnRepair(n, o) \/ forwardRepc(n, o)
  <2>1. seqno' = seqno /\ rrep' = rrep /\ o.hops < MaxHops
    BY <1>5 DEF PassOnRepair, forwardRepc
  <2>2. ASSUME NEW m, OnItsWay(m, o), m.hops = o.hops + 1
        PROVE  RepairPassed(m)
    BY <2>1, <2>2 DEF RepairPassed
  <2>3. ASSUME NEW m \in repa', m \notin repa PROVE RepairPassed(m)
    <3>1. ASSUME NEW g, m = forwardRepa(n, o, g) PROVE RepairPassed(m)
      <4>1. PICK S : o \in RepairIn(S)
        BY <1>1 DEF IsRepair
      <4>2. OnItsWay(m, o) /\ m.hops = o.hops + 1
        BY <3>1, <4>1 DEF forwardRepa, RepairIn, OnItsWay
      <4> QED BY <2>2, <4>2
    <3>2. ASSUME NEW out \in BothWays(n, o), m \in out PROVE RepairPassed(m)
      BY <1>1, <2>2, <3>2, BothOnTheirWay
    <3>3. ASSUME NEW out \in Sent(n, o), m \in out PROVE RepairPassed(m)
      BY <1>1, <2>2, <3>3, SentOnItsWay
    <3>4. CASE PassOnRepair(n, o)
      <4>1. \/ \E out \in BothWays(n, o) : m \in out
            \/ \E g \in greedy_next(n, o.target) : m = forwardRepa(n, o, g)
        BY <2>3, <3>4 DEF PassOnRepair
      <4> QED BY <3>1, <3>2, <4>1
    <3>5. CASE forwardRepc(n, o)
      <4>1. \E out \in Sent(n, o) : m \in out
        BY <2>3, <3>5 DEF forwardRepc
      <4> QED BY <3>3, <4>1
    <3> QED BY <1>5, <3>4, <3>5
  <2> QED BY <1>1, <1>2, <1>3, <2>1, <2>3 DEF RepairStepOK
<1> QED BY <1>4, <1>5

\* The timer that ends a repair.
LEMMA LocExpSteps ==
  ASSUME RepairTypeOK, RoutesFar, NEW n \in Node, NEW d \in Node, LocExp(n, d)
  PROVE  RepairStepOK
<1>1. /\ TypeOK /\ rt[n][d] \in Entry
      /\ rt[n][d].flags = "DOWN" => rt[n][d].hops = INFINITY2
      /\ rrep' = rrep /\ repa' = repa
  BY DEF RepairTypeOK, TypeOK, RoutesFar, LocExp
<1>2. ASSUME seqno' = seqno, NEW x \in Node PROVE SeqnoStep(x)
  BY <1>1, <1>2 DEF SeqnoStep, TypeOK
<1>3. CASE rt[n][d].flags = "UP"
  <2>1. seqno' = seqno /\ rt' = rt /\ rreq' = rreq
    BY <1>3 DEF LocExp
  <2> QED BY <1>1, <1>2, <2>1 DEF RepairStepOK, RepairEntryStep, Kept
<1>4. CASE rt[n][d].flags # "UP"
  <2> DEFINE e == rt_down(rt[n][d])
  <2>1. sendRequest(n, d, e, queue[n])
    BY <1>4 DEF LocExp
  <2>2. /\ e \in Entry /\ e.seqno = rt[n][d].seqno
        /\ e.flags = "DOWN" /\ e.hops = INFINITY2
    BY <1>1, DownType DEF rt_down, Entry
  <2> HIDE DEF e
  <2>3. PICK f \in {e, Searching(e), [e EXCEPT !.reqCnt = 0, !.reqWait = TRUE]} :
          rt' = [rt EXCEPT ![n][d] = f]
    BY <2>1 DEF sendRequest, RateLimited, GiveUp, Search
  <2>4. f.flags = "DOWN" /\ f.hops = INFINITY2 /\ f.seqno = rt[n][d].seqno
    <3>1. CASE f = [e EXCEPT !.reqCnt = 0, !.reqWait = TRUE]
      BY <2>2, <3>1 DEF Entry
    <3> QED BY <2>2, <2>3, <3>1, SearchingKeeps
  <2>5. ASSUME NEW x \in Node, NEW y \in Node PROVE RepairEntryStep(x, y)
    <3>1. CASE x = n /\ y = d
      <4>1. rt'[n][d] = f
        BY <1>1, <2>3 DEF TypeOK
      <4> QED BY <2>4, <3>1, <4>1 DEF RepairEntryStep, TakenDown
    <3>2. CASE ~(x = n /\ y = d)
      <4>1. rt'[x][y] = rt[x][y]
        BY <1>1, <2>3, <3>2 DEF TypeOK
      <4> QED BY <4>1 DEF RepairEntryStep, Kept
    <3> QED BY <3>1, <3>2
  <2>6. /\ \A x \in Node : SeqnoStep(x)
        /\ \A m \in rreq' : m \in rreq \/ Started(m)
    <3>1. CASE Search(n, d, e, queue[n])
      BY <1>1, <2>2, <3>1, SearchSteps
    <3>2. CASE RateLimited(n, d, e, queue[n]) \/ GiveUp(n, d, e, queue[n])
      BY <1>2, <3>2 DEF RateLimited, GiveUp
    <3> QED BY <2>1, <3>1, <3>2 DEF sendRequest
  <2> QED BY <1>1, <2>5, <2>6 DEF RepairStepOK
<1> QED BY <1>3, <1>4

\* The timer that repeats a repair.
LEMMA RepaRetxSteps ==
  ASSUME RepairTypeOK, NEW n \in Node, NEW d \in Node, RepaRetx(n, d)
  PROVE  RepairStepOK
<1>1. /\ TypeOK /\ rt[n][d] \in Entry /\ seqno' = seqno /\ seqno'[n] \in Nat
      /\ rreq' = rreq /\ rrep' = rrep
  BY DEF RepairTypeOK, TypeOK, RepaRetx, air
<1>2. ASSUME NEW x \in Node PROVE SeqnoStep(x)
  BY <1>1 DEF SeqnoStep, TypeOK
<1>3. CASE init_route_maintenance(n, d, rt[n][d], seqno[n])
  <2>1. init_route_maintenance(n, d, rt[n][d], seqno'[n])
    BY <1>1, <1>3
  <2>2. \A m \in repa' : m \in repa \/ RepairStarted(m)
    BY <1>1, <2>1, MaintenanceSteps
  <2>3. \A x, y \in Node : RepairEntryStep(x, y)
    BY <1>1, <2>1, MaintenanceEntries
  <2> QED BY <1>1, <1>2, <2>2, <2>3 DEF RepairStepOK
<1>4. CASE UNCHANGED <<rt, repa>>
  BY <1>1, <1>2, <1>4 DEF RepairStepOK, RepairEntryStep, Kept
<1> QED BY <1>3, <1>4 DEF RepaRetx

\* Every step that is not one of discovery.
LEMMA RepairSteps ==
  ASSUME RepairTypeOK, RoutesFar, RepairNext, ~(Next /\ UNCHANGED repair)
  PROVE  RepairStepOK
BY ErrorSteps, HandlerSteps, LocExpSteps, RepaRetxSteps DEF RepairNext

(***************************************************************************)
(* Sequence numbers.                                                       *)
(***************************************************************************)
\* Routes, messages and repairs believe in no number that has not been issued.
RepairNumbered ==
  /\ RoutesFar /\ RoutesNumbered /\ MessagesNumbered
  /\ \A m \in repa : m.srcSeqno <= seqno[m.src] /\ m.dstSeqno <= seqno[m.dst] + 1

\* Every step keeps them so.
LEMMA RepairNumberedStep ==
  ASSUME RepairTypeOK, RepairNumbered, [RepairNext]_repairVars
  PROVE  RepairNumbered'
<1>0. /\ TypeOK /\ RepairTypeOK' /\ TypeOK'
      /\ RoutesFar /\ RoutesNumbered /\ MessagesNumbered
  BY RepairNextStep DEF GoodStep, RepairTypeOK, RepairNumbered
<1>1. \A d \in Node : seqno[d] \in Nat /\ seqno'[d] \in Nat
  BY <1>0 DEF TypeOK
<1>2. ASSUME NEW m \in repa
      PROVE  /\ m.src \in Node /\ m.dst \in Node /\ m.srcSeqno \in Nat /\ m.dstSeqno \in Nat
             /\ m.hops \in Nat
             /\ m.srcSeqno <= seqno[m.src] /\ m.dstSeqno <= seqno[m.dst] + 1
  BY RepairFields DEF RepairTypeOK, RepairNumbered
<1>3. CASE Next /\ UNCHANGED repair
  <2>1. RoutesFar' /\ RoutesNumbered' /\ MessagesNumbered'
    BY <1>0, <1>3, FarStep, NumberedStep
  <2>2. \A d \in Node : seqno'[d] >= seqno[d]
    BY <1>0, <1>3, MessageSteps DEF SeqnoStep
  <2>3. ASSUME NEW m \in repa'
        PROVE  m.srcSeqno <= seqno'[m.src] /\ m.dstSeqno <= seqno'[m.dst] + 1
    <3>1. m \in repa
      BY <1>3 DEF repair
    <3> QED BY <1>1, <1>2, <2>2, <3>1
  <2> QED BY <2>1, <2>3 DEF RepairNumbered
<1>4. CASE UNCHANGED repairVars
  BY <1>4 DEF repairVars, vars, repair, RepairNumbered, RoutesFar, RoutesNumbered,
     MessagesNumbered
<1>5. CASE RepairNext /\ ~(Next /\ UNCHANGED repair)
  <2>0. RepairStepOK
    BY <1>0, <1>5, RepairSteps
  <2>1. \A d \in Node : seqno'[d] >= seqno[d]
    BY <2>0 DEF RepairStepOK, SeqnoStep
  <2>2. \A n, d \in Node : /\ rt[n][d].seqno \in Nat
                           /\ Numbered(rt[n][d], seqno[d])
                           /\ rt[n][d].seqno <= seqno[d] + 1
                           /\ rt[n][d].flags \in {"ABSENT", "DOWN"} => rt[n][d].hops = INFINITY2
    <3> TAKE n, d \in Node
    <3>1. rt[n][d].seqno \in Nat /\ Numbered(rt[n][d], seqno[d])
      BY <1>0 DEF TypeOK, Entry, RoutesNumbered
    <3>2. rt[n][d].flags \in {"ABSENT", "DOWN"} => rt[n][d].hops = INFINITY2
      BY <1>0 DEF RoutesFar
    <3> QED BY <1>1, <3>1, <3>2 DEF Numbered
  <2>3. ASSUME NEW n \in Node, NEW d \in Node
        PROVE  /\ Numbered(rt'[n][d], seqno'[d])
               /\ rt'[n][d].flags \in {"ABSENT", "DOWN"} => rt'[n][d].hops = INFINITY2
    <3>1. CASE Kept(n, d)
      BY <1>1, <2>1, <2>2, <3>1 DEF Kept, Numbered
    <3>2. CASE Repairing(n, d)
      BY <1>1, <2>1, <2>2, <3>2 DEF Repairing, Numbered
    <3>3. CASE TakenDown(n, d)
      BY <1>1, <2>1, <2>2, <3>3 DEF TakenDown, Numbered
    <3>4. CASE d = n /\ Learned(n, d, seqno'[n], 1, n)
      BY <1>1, <3>4 DEF Learned, Numbered
    <3>5. ASSUME NEW m \in repa, d = m.src, Learned(n, d, m.srcSeqno, m.hops, m.from)
          PROVE  /\ Numbered(rt'[n][d], seqno'[d])
                 /\ rt'[n][d].flags \in {"ABSENT", "DOWN"} => rt'[n][d].hops = INFINITY2
      BY <1>1, <1>2, <2>1, <3>5 DEF Learned, Numbered
    <3> QED BY <2>0, <3>1, <3>2, <3>3, <3>4, <3>5 DEF RepairStepOK, RepairEntryStep
  <2>4. ASSUME NEW m \in rreq'
        PROVE  m.srcSeqno <= seqno'[m.src] /\ m.dstSeqno <= seqno'[m.dst] + 1
    <3>1. /\ m.src \in Node /\ m.dst \in Node
          /\ m.srcSeqno \in Nat /\ m.dstSeqno \in Nat
      BY <1>0 DEF TypeOK, RREQ
    <3>2. CASE m \in rreq
      <4>1. m.srcSeqno <= seqno[m.src] /\ m.dstSeqno <= seqno[m.dst] + 1
        BY <1>0, <3>2 DEF MessagesNumbered
      <4> QED BY <1>1, <2>1, <3>1, <4>1
    <3>3. CASE Started(m)
      BY <1>1, <2>1, <2>2, <3>1, <3>3 DEF Started
    <3> QED BY <2>0, <3>2, <3>3 DEF RepairStepOK
  <2>5. ASSUME NEW m \in rrep' PROVE m.dstSeqno <= seqno'[m.dst]
    <3>1. m.dst \in Node /\ m.dstSeqno \in Nat
      BY <1>0 DEF TypeOK, RREP
    <3>2. CASE m \in rrep
      <4>1. m.dstSeqno <= seqno[m.dst]
        BY <1>0, <3>2 DEF MessagesNumbered
      <4> QED BY <1>1, <2>1, <3>1, <4>1
    <3>3. CASE Answered(m)
      BY <3>1, <3>3 DEF Answered
    <3> QED BY <2>0, <3>2, <3>3 DEF RepairStepOK
  <2>6. ASSUME NEW m \in repa'
        PROVE  m.srcSeqno <= seqno'[m.src] /\ m.dstSeqno <= seqno'[m.dst] + 1
    <3>0. IsRepair(m)'
      BY <1>0 DEF RepairTypeOK
    <3>1. m.src \in Node /\ m.dst \in Node /\ m.srcSeqno \in Nat /\ m.dstSeqno \in Nat
      BY <3>0, RepairFields DEF IsRepair, RepairIn
    <3>2. CASE m \in repa
      BY <1>1, <1>2, <2>1, <3>2
    <3>3. CASE RepairStarted(m)
      <4>1. m.dstSeqno <= seqno'[m.dst] + 1
        BY <1>1, <2>1, <2>2, <3>1, <3>3 DEF RepairStarted
      <4> QED BY <1>1, <3>1, <3>3, <4>1 DEF RepairStarted
    <3>4. CASE RepairPassed(m)
      <4>1. PICK o \in repa : OnItsWay(m, o)
        BY <3>4 DEF RepairPassed
      <4>2. /\ m.src = o.src /\ m.dst = o.dst /\ m.srcSeqno = o.srcSeqno
            /\ m.dstSeqno <= seqno[m.dst] + 1
        <5>1. CASE m.dstSeqno = o.dstSeqno
          BY <1>2, <4>1, <5>1 DEF OnItsWay
        <5>2. ASSUME NEW x \in Node, m.dstSeqno = Larger(rt[x][o.dst].seqno, o.dstSeqno)
              PROVE  m.dstSeqno <= seqno[o.dst] + 1
          BY <1>2, <2>2, <5>2 DEF Larger
        <5> QED BY <4>1, <5>1, <5>2 DEF OnItsWay
      <4> QED BY <1>1, <1>2, <2>1, <3>1, <4>2
    <3> QED BY <2>0, <3>2, <3>3, <3>4 DEF RepairStepOK
  <2> QED BY <2>3, <2>4, <2>5, <2>6
          DEF RepairNumbered, RoutesFar, RoutesNumbered, MessagesNumbered
<1> QED BY <1>3, <1>4, <1>5

\* The numbers of a network that repairs its routes.
LEMMA RepairNumbers == RepairSpec => []RepairNumbered
<1>1. RepairInit => RepairNumbered
  BY DEF RepairInit, Init, RepairNumbered, RoutesFar, RoutesNumbered, Numbered,
     MessagesNumbered, NoEntry
<1>2. RepairTypeOK /\ RepairNumbered /\ [RepairNext]_repairVars => RepairNumbered'
  BY RepairNumberedStep
<1> QED BY <1>1, <1>2, RepairTypeCorrect, PTL DEF RepairSpec

\* recvError, both timers, and recvRepa at the destination: although a source
\* raises its number for every repair, a destination for every repair that
\* reaches it, and a route goes down in the timer without a new number, nobody
\* believes in a number its destination has not issued.
THEOREM RepairIssued == RepairSpec => []SeqnosIssued
<1>1. RepairTypeOK /\ RepairNumbered => SeqnosIssued
  BY NumberedIsIssued DEF RepairTypeOK, RepairNumbered
<1> QED BY <1>1, RepairTypeCorrect, RepairNumbers, PTL

(***************************************************************************)
(* What repairs leave of the order in which routes replace each other.     *)
(***************************************************************************)
\* The route to d gets better or stays as good, or goes down with its number.
Yields(n, d) ==
  \/ rt'[n][d].seqno > rt[n][d].seqno
  \/ /\ rt'[n][d].seqno = rt[n][d].seqno
     /\ rt'[n][d].hops <= rt[n][d].hops \/ rt'[n][d].flags = "DOWN"

LEMMA YieldStep ==
  ASSUME RepairTypeOK, RepairNumbered, [RepairNext]_repairVars,
         NEW n \in Node, NEW d \in Node
  PROVE  Yields(n, d)
<1>1. /\ TypeOK /\ RoutesFar
      /\ rt[n][d].seqno \in Nat /\ rt[n][d].hops \in Nat
      /\ \A m \in rreq : m.srcSeqno \in Nat /\ m.hops \in Nat
      /\ \A m \in rrep : m.dstSeqno \in Nat /\ m.hops \in Nat
  BY DEF RepairTypeOK, RepairNumbered, TypeOK, Entry, RREQ, RREP
<1>2. \A m \in repa : m.srcSeqno \in Nat /\ m.hops \in Nat
  BY RepairFields DEF RepairTypeOK
<1>3. seqno'[n] \in Nat
  <2>1. TypeOK'
    BY RepairNextStep DEF GoodStep, RepairTypeOK
  <2> QED BY <2>1 DEF TypeOK
<1>4. CASE Kept(n, d) \/ Repairing(n, d)
  BY <1>1, <1>4 DEF Kept, Repairing, Yields
<1>5. ASSUME NEW s, NEW k, NEW h, s \in Nat, k \in Nat, Learned(n, d, s, k, h)
      PROVE  Yields(n, d)
  BY <1>1, <1>5 DEF Learned, Fresher, Yields
<1>6. CASE Dropped(n, d) \/ TakenDown(n, d)
  BY <1>1, <1>6 DEF Dropped, TakenDown, Yields
<1>7. CASE UNCHANGED repairVars
  <2>1. rt' = rt
    BY <1>7 DEF repairVars, vars
  <2> QED BY <1>4, <2>1 DEF Kept
<1>8. CASE Next /\ UNCHANGED repair
  BY <1>1, <1>4, <1>5, <1>6, <1>8, EntrySteps DEF EntryStep
<1>9. CASE RepairNext /\ ~(Next /\ UNCHANGED repair)
  <2>1. RepairEntryStep(n, d)
    BY <1>1, <1>9, RepairSteps DEF RepairStepOK
  <2> QED BY <1>2, <1>3, <1>4, <1>5, <1>6, <2>1 DEF RepairEntryStep
<1> QED BY <1>7, <1>8, <1>9

\* recvError, recvRepa, forwardRepc and both timers: a number a node holds for
\* a destination never falls, and among routes of one number a longer one
\* follows a shorter one only if that has been taken down, by the timer that
\* ends a repair or by an error for which there is no repair.
THEOREM RoutesYield == RepairSpec => [][\A n, d \in Node : Yields(n, d)]_rt
<1>1. RepairTypeOK /\ RepairNumbered /\ [RepairNext]_repairVars
        => [\A n, d \in Node : Yields(n, d)]_rt
  BY YieldStep
<1> QED BY <1>1, RepairTypeCorrect, RepairNumbers, PTL DEF RepairSpec

(***************************************************************************)
(* No packet is left in the buffer behind a valid route.                   *)
(***************************************************************************)
\* A node has no packet for itself in its buffer: the route to itself that a
\* repair round a maximum gives it makes nothing deliverable.
Unsent ==
  \A n \in Node : \A p \in queue[n] : p.dst # n /\ rt[n][p.dst].flags # "UP"

\* A step that makes no route valid, except to the node itself.
LEMMA UnsentKept ==
  ASSUME TypeOK, Unsent, \A x \in Node : queue'[x] \subseteq queue[x],
         \A x, y \in Node :
           x # y => (rt'[x][y].flags = "UP" => rt[x][y].flags = "UP")
  PROVE  Unsent'
<1> SUFFICES ASSUME NEW x \in Node, NEW c \in queue'[x]
             PROVE  c.dst # x /\ rt'[x][c.dst].flags # "UP"
  BY DEF Unsent
<1>1. c \in queue[x] /\ c.dst \in Node
  BY DEF TypeOK, Packet
<1> QED BY <1>1 DEF Unsent

\* A step that may make a route valid, and then sends what waits for it.
LEMMA LearnUnsent ==
  ASSUME TypeOK, Unsent, NEW n \in Node, NEW d \in Node, NEW r, NEW lost, NEW ready,
         rt' = [rt EXCEPT ![n][d] = r],
         queue' = [queue EXCEPT ![n] = @ \ (lost \cup ready)],
         r = rt_add(rt[n][d]) \/ ready = Waiting(n, d, lost)
  PROVE  Unsent'
<1> SUFFICES ASSUME NEW x \in Node, NEW c \in queue'[x]
             PROVE  c.dst # x /\ rt'[x][c.dst].flags # "UP"
  BY DEF Unsent
<1>1. c \in queue[x] /\ (x = n => c \notin lost /\ c \notin ready)
  BY DEF TypeOK
<1>2. c.dst \in Node /\ c.dst # x /\ rt[x][c.dst].flags # "UP"
  BY <1>1 DEF TypeOK, Packet, Unsent
<1>3. CASE x = n /\ c.dst = d
  <2>1. r = rt_add(rt[n][d])
    BY <1>1, <1>3 DEF Waiting
  <2>2. rt'[x][c.dst] = r /\ rt[n][d] \in Entry
    BY <1>3 DEF TypeOK
  <2>3. r.flags # "UP"
    BY <1>2, <1>3, <2>1, <2>2, AddKeeps
  <2> QED BY <1>2, <2>2, <2>3
<1>4. CASE ~(x = n /\ c.dst = d)
  <2>1. rt'[x][c.dst] = rt[x][c.dst]
    BY <1>2, <1>4 DEF TypeOK
  <2> QED BY <1>2, <2>1
<1> QED BY <1>3, <1>4

\* rt_resolve buffers a packet only for a route that is not valid.
LEMMA ResolveUnsent ==
  ASSUME TypeOK, Unsent, NEW n \in Node, NEW p \in Packet, p.dst # n, NEW arrived,
         rt_resolve(n, p, arrived)
  PROVE  Unsent'
<1>1. p.dst \in Node /\ rt[n][p.dst] \in Entry
  BY DEF TypeOK, Packet
<1>2. \A x, y \in Node : rt'[x][y].flags = "UP" => rt[x][y].flags = "UP"
  BY ResolveEntryStep DEF Kept
<1>3. CASE queue' = queue
  BY <1>2, <1>3, UnsentKept
<1>4. CASE ResolveBuffer(n, p, arrived)
  <2> DEFINE e == rt_add(rt[n][p.dst])
  <2>1. rt[n][p.dst].flags # "UP"
    BY <1>1, <1>4, AddKeeps DEF ResolveBuffer
  <2>2. PICK lost \in SUBSET queue[n] :
          \/ queue' = [queue EXCEPT ![n] = (queue[n] \ lost) \cup {p}]
          \/ sendRequest(n, p.dst, e, (queue[n] \ lost) \cup {p})
    BY <1>4 DEF ResolveBuffer
  <2> HIDE DEF e
  <2>3. queue'[n] \subseteq queue[n] \cup {p} /\ \A x \in Node \ {n} : queue'[x] = queue[x]
    <3>1. CASE queue' = [queue EXCEPT ![n] = (queue[n] \ lost) \cup {p}]
      BY <3>1 DEF TypeOK
    <3>2. CASE sendRequest(n, p.dst, e, (queue[n] \ lost) \cup {p})
      BY <3>2, SendQueue
    <3> QED BY <2>2, <3>1, <3>2
  <2>4. ASSUME NEW x \in Node, NEW c \in queue'[x]
        PROVE  c.dst # x /\ rt'[x][c.dst].flags # "UP"
    <3>1. CASE x = n /\ c = p
      BY <1>1, <1>2, <2>1, <3>1
    <3>2. CASE c \in queue[x]
      <4>1. c.dst \in Node /\ c.dst # x /\ rt[x][c.dst].flags # "UP"
        BY <3>2 DEF TypeOK, Packet, Unsent
      <4> QED BY <1>2, <4>1
    <3> QED BY <2>3, <3>1, <3>2
  <2> QED BY <2>4 DEF Unsent
<1> QED BY <1>3, <1>4 DEF rt_resolve, ResolveForward, ResolveError, agent

\* A request, a reply.
LEMMA LearnersUnsent ==
  ASSUME TypeOK, Unsent, NEW n \in Node,
         \/ \E m \in rreq : recvRequest(n, m)
         \/ \E m \in rrep : recvReply(n, m)
  PROVE  Unsent'
<1>1. ASSUME NEW m \in rreq, recvRequest(n, m) PROVE Unsent'
  <2>1. CASE DiscardRequest(n, m)
    BY <2>1, UnsentKept DEF DiscardRequest, agent
  <2>2. CASE AnswerRequest(n, m) \/ ForwardRequest(n, m)
    <3> DEFINE e     == rt_add(rt[n][m.src])
               fresh == Fresher(e, m.srcSeqno, m.hops)
    <3>1. PICK lost \in SUBSET queue[n] : LearnReverse(n, m, lost)
      BY <2>2 DEF AnswerRequest, ForwardRequest
    <3>2. m \in RREQ /\ m.src \in Node /\ e \in Entry
      BY AddType DEF TypeOK, RREQ
    <3> DEFINE r     == ReverseRoute(e, m)
               ready == IF fresh THEN Waiting(n, m.src, lost) ELSE {}
    <3>3. /\ rt' = [rt EXCEPT ![n][m.src] = r]
          /\ queue' = [queue EXCEPT ![n] = @ \ (lost \cup ready)]
      BY <3>1 DEF LearnReverse
    <3>4. r = e \/ ready = Waiting(n, m.src, lost)
      BY <3>2, ReverseLearns
    <3> HIDE DEF r, ready
    <3> QED BY <3>2, <3>3, <3>4, LearnUnsent
  <2> QED BY <1>1, <2>1, <2>2 DEF recvRequest
<1>2. ASSUME NEW m \in rrep, recvReply(n, m) PROVE Unsent'
  <2> DEFINE e     == rt_add(rt[n][m.dst])
             fresh == Fresher(e, m.dstSeqno, m.hops)
  <2>1. PICK lost \in SUBSET queue[n] : LearnForward(n, m, lost)
    BY <1>2 DEF recvReply, AcceptReply, ForwardReply
  <2>2. m \in RREP /\ m.dst \in Node /\ e \in Entry
    BY AddType DEF TypeOK, RREP
  <2> DEFINE r     == ForwardRoute(e, m)
             ready == IF fresh THEN Waiting(n, m.dst, lost) ELSE {}
  <2>3. /\ rt' = [rt EXCEPT ![n][m.dst] = r]
        /\ queue' = [queue EXCEPT ![n] = @ \ (lost \cup ready)]
    BY <2>1 DEF LearnForward
  <2>4. r = e \/ ready = Waiting(n, m.dst, lost)
    BY <2>2, ForwardLearns
  <2> HIDE DEF r, ready
  <2> QED BY <2>2, <2>3, <2>4, LearnUnsent
<1> QED BY <1>1, <1>2

\* A repair that teaches a route.
LEMMA RepairUnsent ==
  ASSUME TypeOK, Unsent, NEW n \in Node, NEW m, IsRepair(m), LearnSource(n, m)
  PROVE  Unsent'
<1> DEFINE e     == rt_add(rt[n][m.src])
           fresh == Fresher(e, m.srcSeqno, m.hops)
           r     == ReverseRoute(e, m)
<1>1. m.src \in Node /\ e \in Entry
  BY RepairFields, AddType DEF TypeOK
<1>2. rt' = [rt EXCEPT ![n][m.src] = r]
  BY DEF LearnSource
<1>3. PICK lost, ready :
        /\ queue' = [queue EXCEPT ![n] = @ \ (lost \cup ready)]
        /\ fresh => ready = Waiting(n, m.src, lost)
  <2>1. CASE fresh
    BY <2>1 DEF LearnSource
  <2>2. CASE ~fresh
    <3>1. queue' = queue
      BY <2>2 DEF LearnSource
    <3>2. queue' = [queue EXCEPT ![n] = @ \ ({} \cup {})]
      BY <3>1 DEF TypeOK
    <3> QED BY <2>2, <3>2
  <2> QED BY <2>1, <2>2
<1>4. r = e \/ ready = Waiting(n, m.src, lost)
  BY <1>1, <1>3, RepairLearns
<1> HIDE DEF r, fresh
<1> QED BY <1>1, <1>2, <1>3, <1>4, LearnUnsent

\* A repair that starts or is sent again.
LEMMA MaintenanceUnsent ==
  ASSUME RepairTypeOK, Unsent, NEW n \in Node, NEW d \in Node, NEW e \in Entry,
         seqno'[n] \in Nat, init_route_maintenance(n, d, e, seqno'[n]),
         e.flags = "UP" => rt[n][d].flags = "UP", queue' = queue
  PROVE  Unsent'
<1>1. \A x, y \in Node : \/ rt'[x][y] = rt[x][y]
                         \/ x = n /\ y = d /\ rt'[x][y] = e
                         \/ x = n /\ y = n
  BY MaintenanceSteps
<1>2. \A x, y \in Node : x # y => (rt'[x][y].flags = "UP" => rt[x][y].flags = "UP")
  BY <1>1
<1> QED BY <1>2, UnsentKept DEF RepairTypeOK

\* Every step of discovery keeps valid routes and buffers apart.
LEMMA NextUnsent ==
  ASSUME TypeOK, Unsent, Next
  PROVE  Unsent'
<1>1. ASSUME NEW s \in Node, NEW d \in Node, Originate(s, d) PROVE Unsent'
  <2> DEFINE p == [id |-> nsent + 1, src |-> s, dst |-> d, ttl |-> NETWORK_DIAMETER]
  <2>1. p \in Packet /\ p.dst # s
    BY <1>1, ConstantAssumption, TopologyAssumption DEF Packet, TypeOK, Originate
  <2>2. rt_resolve(s, p, {})
    BY <1>1 DEF Originate
  <2> HIDE DEF p
  <2> QED BY <2>1, <2>2, ResolveUnsent
<1>2. ASSUME NEW n \in Node, NEW f \in data, Relay(n, f) PROVE Unsent'
  <2> DEFINE p == [f.pkt EXCEPT !.ttl = @ - 1]
  <2>1. p \in Packet
    <3>1. f.pkt \in Packet
      BY DEF Frame, TypeOK
    <3>2. f.pkt.ttl \in Nat \ {0} /\ p.ttl = f.pkt.ttl - 1
      BY <3>1 DEF Packet
    <3>3. p.ttl # 0
      BY <1>2 DEF Relay
    <3> QED BY <3>1, <3>2, <3>3 DEF Packet
  <2>2. rt_resolve(n, p, {f}) /\ p.dst # n
    BY <1>2 DEF Relay
  <2> HIDE DEF p
  <2> QED BY <2>1, <2>2, ResolveUnsent
<1>3. ASSUME UNCHANGED <<rt, queue>> PROVE Unsent'
  BY <1>3 DEF Unsent
<1>4. ASSUME NEW n \in Node, NEW f \in data, Consume(n, f) \/ rt_ll_failed(n, f)
      PROVE  Unsent'
  BY <1>3, <1>4 DEF Consume, rt_ll_failed, agent
<1>5. ASSUME NEW n \in Node, NEW m \in rreq, recvRequest(n, m) PROVE Unsent'
  BY <1>5, LearnersUnsent
<1>6. ASSUME NEW n \in Node, NEW m \in rrep, recvReply(n, m) PROVE Unsent'
  BY <1>6, LearnersUnsent
<1>7. ASSUME NEW n \in Node, NEW h \in Node, recvHello(n, h) PROVE Unsent'
  BY <1>3, <1>7 DEF recvHello
<1>8. ASSUME NEW n \in Node, NEW S \in SUBSET Node,
             rt' = [rt EXCEPT ![n] = [d \in Node |->
                      IF d \in S THEN Invalidate(rt[n][d]) ELSE rt[n][d]]],
             \A x \in Node : queue'[x] \subseteq queue[x]
      PROVE  Unsent'
  <2>1. ASSUME NEW x \in Node, NEW y \in Node, rt'[x][y].flags = "UP"
        PROVE  rt[x][y].flags = "UP"
    <3>1. rt[x][y] \in Entry /\ Invalidate(rt[x][y]).flags = "DOWN"
      BY EntriesNotPut DEF TypeOK
    <3> QED BY <1>8, <2>1, <3>1 DEF TypeOK
  <2> QED BY <1>8, <2>1, UnsentKept
<1>9. ASSUME NEW n \in Node, NEW h \in Node, nb_delete(n, h) PROVE Unsent'
  <2>1. rt' = [rt EXCEPT ![n] = [d \in Node |->
                 IF d \in Through(n, h) THEN Invalidate(rt[n][d]) ELSE rt[n][d]]]
    BY <1>9 DEF nb_delete
  <2>2. queue' = queue /\ Through(n, h) \in SUBSET Node
    BY <1>9 DEF nb_delete, Through
  <2> QED BY <1>8, <2>1, <2>2
<1>10. ASSUME NEW n \in Node, NEW E \in SUBSET Node, rt_purge(n, E) PROVE Unsent'
  <2>1. rt' = [rt EXCEPT ![n] = [d \in Node |->
                 IF d \in E THEN Invalidate(rt[n][d]) ELSE rt[n][d]]]
    BY <1>10 DEF rt_purge
  <2>2. PICK Q : Q \subseteq queue[n] /\ queue' = [queue EXCEPT ![n] = Q]
    BY <1>10 DEF rt_purge
  <2>3. \A x \in Node : queue'[x] \subseteq queue[x]
    BY <2>2 DEF TypeOK
  <2> QED BY <1>8, <2>1, <2>3
<1>11. ASSUME NEW n \in Node, id_purge(n) PROVE Unsent'
  BY <1>3, <1>11 DEF id_purge
<1>12. CASE Lose
  BY <1>3, <1>12 DEF Lose, agent
<1> QED BY <1>1, <1>2, <1>4, <1>5, <1>6, <1>7, <1>9, <1>10, <1>11, <1>12 DEF Next

\* So does every step of a repair.
LEMMA RepairUnsentStep ==
  ASSUME RepairTypeOK, Unsent, [RepairNext]_repairVars
  PROVE  Unsent'
<1>0. TypeOK
  BY DEF RepairTypeOK
<1>1. CASE Next
  BY <1>0, <1>1, NextUnsent
<1>2. CASE UNCHANGED repairVars
  BY <1>2 DEF repairVars, vars, Unsent
<1>3. ASSUME NEW n \in Node, NEW o \in rerr, recvError(n, o) PROVE Unsent'
  <2> DEFINE d == o.origDst
             e == [rt[n][d] EXCEPT !.flags = "IN_REPAIR"]
  <2>1. d \in Node /\ rt[n][d] \in Entry
    BY <1>0 DEF TypeOK, RERR
  <2>2. CASE StartRepair(n, o)
    <3>1. /\ seqno' = [seqno EXCEPT ![n] = @ + 2] /\ queue' = queue
          /\ init_route_maintenance(n, d, e, seqno[n] + 2)
      BY <2>2 DEF StartRepair
    <3>2. seqno'[n] = seqno[n] + 2 /\ seqno'[n] \in Nat
      BY <1>0, <3>1 DEF TypeOK
    <3>3. e \in Entry /\ e.flags = "IN_REPAIR"
      BY <2>1 DEF Entry
    <3> HIDE DEF d, e
    <3>4. init_route_maintenance(n, d, e, seqno'[n])
      BY <3>1, <3>2
    <3> QED BY <2>1, <3>1, <3>2, <3>3, <3>4, MaintenanceUnsent
  <2>3. CASE GiveUpRoute(n, o)
    <3>1. rt' = [rt EXCEPT ![n][d] = rt_down(rt[n][d])] /\ queue' = queue
      BY <2>3 DEF GiveUpRoute
    <3>2. rt_down(rt[n][d]).flags = "DOWN"
      BY <2>1, EntriesNotPut
    <3>3. \A x, y \in Node : rt'[x][y].flags = "UP" => rt[x][y].flags = "UP"
      BY <1>0, <3>1, <3>2 DEF TypeOK
    <3> QED BY <1>0, <3>1, <3>3, UnsentKept
  <2>4. CASE ForwardError(n, o)
    BY <2>4 DEF ForwardError, agent, Unsent
  <2> QED BY <1>3, <2>2, <2>3, <2>4 DEF recvError
<1>4. ASSUME NEW n \in Node, NEW m \in repa,
             AnswerRepair(n, m) \/ PassOnRepair(n, m) \/ forwardRepc(n, m)
      PROVE  Unsent'
  <2>1. IsRepair(m) /\ LearnSource(n, m)
    BY <1>4 DEF RepairTypeOK, AnswerRepair, PassOnRepair, forwardRepc
  <2> QED BY <1>0, <2>1, RepairUnsent
<1>5. ASSUME NEW n \in Node, NEW d \in Node, LocExp(n, d) PROVE Unsent'
  <2> DEFINE e == rt_down(rt[n][d])
  <2>1. CASE rt[n][d].flags = "UP"
    BY <1>5, <2>1 DEF LocExp, Unsent
  <2>2. CASE rt[n][d].flags # "UP"
    <3>1. e \in Entry /\ e.flags = "DOWN"
      <4>1. rt[n][d] \in Entry
        BY <1>0 DEF TypeOK
      <4> QED BY <4>1, DownType, EntriesNotPut
    <3>2. sendRequest(n, d, e, queue[n])
      BY <1>5, <2>2 DEF LocExp
    <3> HIDE DEF e
    <3>3. \A x \in Node : queue'[x] \subseteq queue[x]
      BY <1>0, <3>2, SendQueue
    <3>4. PICK f \in {e, Searching(e), [e EXCEPT !.reqCnt = 0, !.reqWait = TRUE]} :
            rt' = [rt EXCEPT ![n][d] = f]
      BY <3>2 DEF sendRequest, RateLimited, GiveUp, Search
    <3>5. f.flags = "DOWN"
      BY <3>1, <3>4, EntriesNotPut
    <3>6. \A x, y \in Node : rt'[x][y].flags = "UP" => rt[x][y].flags = "UP"
      BY <1>0, <3>4, <3>5 DEF TypeOK
    <3> QED BY <1>0, <3>3, <3>6, UnsentKept
  <2> QED BY <2>1, <2>2
<1>6. ASSUME NEW n \in Node, NEW d \in Node, RepaRetx(n, d) PROVE Unsent'
  <2>1. queue' = queue /\ seqno' = seqno /\ seqno[n] \in Nat /\ rt[n][d] \in Entry
    BY <1>0, <1>6 DEF RepaRetx, TypeOK
  <2>2. CASE init_route_maintenance(n, d, rt[n][d], seqno[n])
    <3>1. init_route_maintenance(n, d, rt[n][d], seqno'[n])
      BY <2>1, <2>2
    <3> QED BY <2>1, <3>1, MaintenanceUnsent
  <2>3. CASE rt' = rt
    BY <2>1, <2>3 DEF Unsent
  <2> QED BY <1>6, <2>2, <2>3 DEF RepaRetx
<1> QED BY <1>1, <1>2, <1>3, <1>4, <1>5, <1>6 DEF RepairNext

\* rt_purge, "This should not be needed": no packet is left in the buffer
\* behind a valid route, although repairs make routes valid that nobody has
\* asked for, give a node a route to itself, and let relays buffer.
THEOREM RepairDrains == RepairSpec => []NoneBufferedWhenUp
<1>1. RepairInit => Unsent
  BY DEF RepairInit, Init, Unsent
<1>2. RepairTypeOK /\ Unsent /\ [RepairNext]_repairVars => Unsent'
  BY RepairUnsentStep
<1>3. Unsent => NoneBufferedWhenUp
  BY DEF Unsent, NoneBufferedWhenUp
<1> QED BY <1>1, <1>2, <1>3, RepairTypeCorrect, PTL DEF RepairSpec

(***************************************************************************)
(* Which assertions a repair can break.                                    *)
(***************************************************************************)
\* What is left of Sound: valid routes have even numbers and a distance, and
\* repairs on the air would make no others.
RepairSound ==
  /\ MessagesSound
  /\ \A n, d \in Node : rt[n][d].flags = "UP" =>
       rt[n][d].seqno % 2 = 0 /\ rt[n][d].hops # INFINITY2
  /\ \A m \in repa : m.srcSeqno % 2 = 0 /\ m.hops < INFINITY2

\* Every step keeps it so, if no repair goes further than a hop count can say.
LEMMA RepairSoundStep ==
  ASSUME MaxHops < INFINITY2, RepairTypeOK, RoutesFar, RepairSound, [RepairNext]_repairVars
  PROVE  RepairSound'
<1>0. TypeOK /\ RepairTypeOK' /\ TypeOK' /\ MessagesSound
  BY RepairNextStep DEF GoodStep, RepairTypeOK, RepairSound
<1>1. /\ INFINITY2 \in Nat /\ NETWORK_DIAMETER \in Nat /\ MaxHops \in Nat
      /\ NETWORK_DIAMETER < INFINITY2 /\ 2 < INFINITY2
  BY ConstantAssumption, HopsAssumption
<1>2. \A n, d \in Node : rt[n][d].flags = "UP" =>
        rt[n][d].seqno % 2 = 0 /\ rt[n][d].hops # INFINITY2
  BY DEF RepairSound
<1>3. ASSUME NEW m \in repa
      PROVE  m.srcSeqno % 2 = 0 /\ m.hops < INFINITY2 /\ m.hops \in Nat
  BY RepairFields DEF RepairSound, RepairTypeOK
<1>4. ASSUME NEW s, NEW m, MessageSound(s, m)
      PROVE  s % 2 = 0 /\ m.hops # INFINITY2
  BY <1>1, <1>4 DEF MessageSound
<1>5. CASE UNCHANGED repairVars
  BY <1>5 DEF repairVars, vars, repair, RepairSound, MessagesSound
<1>6. CASE Next /\ UNCHANGED repair
  <2>1. MessagesSound'
    BY <1>0, <1>6, MessagesSoundStep
  <2>2. ASSUME NEW n \in Node, NEW d \in Node, rt'[n][d].flags = "UP"
        PROVE  rt'[n][d].seqno % 2 = 0 /\ rt'[n][d].hops # INFINITY2
    <3>1. EntryStep(n, d)
      BY <1>0, <1>6, EntrySteps
    <3>2. CASE Kept(n, d)
      BY <1>2, <2>2, <3>2 DEF Kept
    <3>3. CASE Dropped(n, d)
      BY <2>2, <3>3 DEF Dropped
    <3>4. ASSUME NEW m \in rreq, Learned(n, d, m.srcSeqno, m.hops, m.from)
          PROVE  rt'[n][d].seqno % 2 = 0 /\ rt'[n][d].hops # INFINITY2
      BY <1>0, <1>4, <3>4 DEF MessagesSound, Learned
    <3>5. ASSUME NEW m \in rrep, Learned(n, d, m.dstSeqno, m.hops, m.from)
          PROVE  rt'[n][d].seqno % 2 = 0 /\ rt'[n][d].hops # INFINITY2
      BY <1>0, <1>4, <3>5 DEF MessagesSound, Learned
    <3> QED BY <3>1, <3>2, <3>3, <3>4, <3>5 DEF EntryStep
  <2>3. repa' = repa
    BY <1>6 DEF repair
  <2> QED BY <1>3, <2>1, <2>2, <2>3 DEF RepairSound
<1>7. CASE RepairNext /\ ~(Next /\ UNCHANGED repair)
  <2>0. RepairStepOK
    BY <1>7, RepairSteps
  <2>1. ASSUME NEW n \in Node PROVE seqno'[n] % 2 = 0
    BY <1>0, <2>0 DEF RepairStepOK, SeqnoStep, MessagesSound
  <2>2. ASSUME NEW m \in rreq' PROVE MessageSound(m.srcSeqno, m)
    <3>1. CASE m \in rreq
      BY <1>0, <3>1 DEF MessagesSound
    <3>2. CASE Started(m)
      <4>1. m.src \in Node
        BY <1>0 DEF TypeOK, RREQ
      <4> QED BY <2>1, <3>2, <4>1, ConstantAssumption DEF Started, MessageSound
    <3> QED BY <2>0, <3>1, <3>2 DEF RepairStepOK
  <2>3. ASSUME NEW m \in rrep' PROVE MessageSound(m.dstSeqno, m)
    <3>1. CASE m \in rrep
      BY <1>0, <3>1 DEF MessagesSound
    <3>2. CASE Answered(m)
      BY <3>2, ConstantAssumption DEF Answered, MessageSound
    <3> QED BY <2>0, <3>1, <3>2 DEF RepairStepOK
  <2>4. ASSUME NEW n \in Node, NEW d \in Node, rt'[n][d].flags = "UP"
        PROVE  rt'[n][d].seqno % 2 = 0 /\ rt'[n][d].hops # INFINITY2
    <3>1. CASE Kept(n, d)
      BY <1>2, <2>4, <3>1 DEF Kept
    <3>2. CASE Repairing(n, d) \/ TakenDown(n, d)
      BY <2>4, <3>2 DEF Repairing, TakenDown
    <3>3. CASE d = n /\ Learned(n, d, seqno'[n], 1, n)
      BY <1>1, <2>1, <3>3 DEF Learned
    <3>4. ASSUME NEW m \in repa, Learned(n, d, m.srcSeqno, m.hops, m.from)
          PROVE  rt'[n][d].seqno % 2 = 0 /\ rt'[n][d].hops # INFINITY2
      BY <1>1, <1>3, <3>4 DEF Learned
    <3> QED BY <2>0, <3>1, <3>2, <3>3, <3>4 DEF RepairStepOK, RepairEntryStep
  <2>5. ASSUME NEW m \in repa' PROVE m.srcSeqno % 2 = 0 /\ m.hops < INFINITY2
    <3>1. IsRepair(m)'
      BY <1>0 DEF RepairTypeOK
    <3>2. m.src \in Node
      BY <3>1, RepairFields DEF IsRepair, RepairIn
    <3>3. CASE RepairStarted(m)
      BY <1>1, <2>1, <3>2, <3>3 DEF RepairStarted
    <3>4. CASE RepairPassed(m)
      BY <1>1, <1>3, <3>4 DEF RepairPassed, OnItsWay
    <3> QED BY <1>3, <2>0, <3>3, <3>4 DEF RepairStepOK
  <2> QED BY <2>1, <2>2, <2>3, <2>4, <2>5 DEF RepairSound, MessagesSound
<1> QED BY <1>5, <1>6, <1>7

\* sendRequest has an even number to send.
LEMMA SendAsserts ==
  ASSUME NEW n \in Node, NEW d, NEW e, NEW q, sendRequest(n, d, e, q),
         seqno'[n] % 2 = 0, failed = {}
  PROVE  failed' = {}
BY DEF sendRequest, RateLimited, GiveUp, Search, Assert

\* rt_resolve, along a valid route or in search of one.
LEMMA ResolveAsserts ==
  ASSUME TypeOK, \A x \in Node : seqno'[x] % 2 = 0, failed = {},
         \A x, y \in Node : rt[x][y].flags = "UP" => rt[x][y].hops # INFINITY2,
         NEW n \in Node, NEW p \in Packet, NEW arrived, rt_resolve(n, p, arrived)
  PROVE  failed' = {}
<1>1. p.dst \in Node
  BY DEF Packet
<1>2. CASE ResolveForward(n, p, arrived)
  BY <1>1, <1>2 DEF ResolveForward, Assert
<1>3. CASE ResolveBuffer(n, p, arrived)
  <2> DEFINE e == rt_add(rt[n][p.dst])
  <2>1. PICK q : failed' = failed \/ sendRequest(n, p.dst, e, q)
    BY <1>3 DEF ResolveBuffer
  <2> HIDE DEF e
  <2> QED BY <2>1, SendAsserts
<1>4. CASE ResolveError(n, p, arrived)
  BY <1>4 DEF ResolveError
<1> QED BY <1>2, <1>3, <1>4 DEF rt_resolve

\* The property of a step.
Aborts ==
  /\ failed' \subseteq {"handle_link_failure", "recvReply",
                         "forward", "greedy_next_node", "prev_hop"}
  /\ "handle_link_failure" \in failed' => LinkFailureAborts
  /\ "recvReply" \in failed' => ReplyAborts

\* A step of discovery breaks an assertion only over the route under repair
\* that it looks at.
LEMMA NextAborts ==
  ASSUME TypeOK, RoutesFar, RoutesFar', Next,
         \A n, d \in Node : rt[n][d].flags = "UP" =>
           rt[n][d].seqno % 2 = 0 /\ rt[n][d].hops # INFINITY2,
         \A n \in Node : seqno'[n] % 2 = 0
  PROVE  Aborts
<1>0. failed = {}
  BY DEF Next
<1>1. ASSUME failed' = {} PROVE Aborts
  BY <1>1 DEF Aborts
<1>2. \A n, d \in Node : rt[n][d] \in Entry /\ rt'[n][d] \in Entry
  BY TypeStep DEF TypeOK
<1>3. \A n, d \in Node :
        /\ rt[n][d].hops # INFINITY2 => rt[n][d].flags \in {"UP", "IN_REPAIR"}
        /\ rt'[n][d].hops # INFINITY2 => rt'[n][d].flags \in {"UP", "IN_REPAIR"}
  BY <1>2 DEF RoutesFar, Entry
<1>4. ASSUME NEW s \in Node, NEW d \in Node, Originate(s, d) PROVE Aborts
  <2> DEFINE p == [id |-> nsent + 1, src |-> s, dst |-> d, ttl |-> NETWORK_DIAMETER]
  <2>1. p \in Packet
    BY ConstantAssumption DEF Packet, TypeOK
  <2>2. rt_resolve(s, p, {})
    BY <1>4 DEF Originate
  <2> HIDE DEF p
  <2> QED BY <1>0, <1>1, <2>1, <2>2, ResolveAsserts
<1>5. ASSUME NEW n \in Node, NEW f \in data, Relay(n, f) PROVE Aborts
  <2> DEFINE p == [f.pkt EXCEPT !.ttl = @ - 1]
  <2>1. p \in Packet
    <3>1. f.pkt \in Packet
      BY DEF Frame, TypeOK
    <3>2. f.pkt.ttl \in Nat \ {0} /\ p.ttl = f.pkt.ttl - 1
      BY <3>1 DEF Packet
    <3>3. p.ttl # 0
      BY <1>5 DEF Relay
    <3> QED BY <3>1, <3>2, <3>3 DEF Packet
  <2>2. rt_resolve(n, p, {f})
    BY <1>5 DEF Relay
  <2> HIDE DEF p
  <2> QED BY <1>0, <1>1, <2>1, <2>2, ResolveAsserts
<1>6. ASSUME NEW n \in Node, NEW f \in data, Consume(n, f) \/ rt_ll_failed(n, f)
      PROVE  Aborts
  BY <1>0, <1>1, <1>6 DEF Consume, rt_ll_failed
<1>7. ASSUME NEW n \in Node, NEW m \in rreq, recvRequest(n, m) PROVE Aborts
  BY <1>0, <1>1, <1>7 DEF recvRequest, DiscardRequest, AnswerRequest, ForwardRequest
<1>8. ASSUME NEW n \in Node, NEW m \in rrep, recvReply(n, m) PROVE Aborts
  <2>1. CASE AcceptReply(n, m)
    BY <1>0, <1>1, <2>1 DEF AcceptReply
  <2>2. CASE ForwardReply(n, m)
    <3> DEFINE back == rt'[n][m.ipdst]
               next == [m EXCEPT !.from = n, !.to = back.nexthop,
                                 !.hops = @ + 1, !.ttl = @ - 1]
    <3>1. /\ failed' = Assert(back.hops # INFINITY2 => back.flags = "UP", "recvReply")
          /\ rrep' \subseteq (rrep \ {m}) \cup {next}
      BY <1>0, <2>2 DEF ForwardReply
    <3>2. m \in RREP /\ m.ipdst \in Node /\ m.dst \in Node
      BY DEF TypeOK, RREP
    <3>3. m.to = n /\ m.from # n
      BY <2>2, NextNodes DEF ForwardReply, LearnForward
    <3>4. next.from = n
      BY <3>2 DEF RREP
    <3>5. m \in rrep \ rrep'
      BY <3>1, <3>3, <3>4
    <3>6. back.hops # INFINITY2 => back.flags \in {"UP", "IN_REPAIR"}
      BY <1>3, <3>2
    <3>7. back.flags = "IN_REPAIR" => back = rt[n][m.ipdst]
      <4> DEFINE e == rt_add(rt[n][m.dst])
      <4>1. rt' = [rt EXCEPT ![n][m.dst] = ForwardRoute(e, m)]
        BY <2>2 DEF ForwardReply, LearnForward
      <4>2. e \in Entry /\ (e.flags = "IN_REPAIR" => e = rt[n][m.dst])
        BY <1>2, <3>2 DEF rt_add, Entry
      <4> HIDE DEF e
      <4>3. ForwardRoute(e, m).flags = "IN_REPAIR" => ForwardRoute(e, m) = e
        BY <4>2 DEF ForwardRoute, rt_update, Entry
      <4>4. CASE m.ipdst = m.dst
        BY <3>2, <4>1, <4>2, <4>3, <4>4 DEF TypeOK
      <4>5. CASE m.ipdst # m.dst
        BY <3>2, <4>1, <4>5 DEF TypeOK
      <4> QED BY <4>4, <4>5
    <3> HIDE DEF back, next
    <3>8. failed' \subseteq {"recvReply"}
      BY <3>1 DEF Assert
    <3>9. failed' # {} => UnderRepair(n, m.ipdst)
      BY <3>1, <3>6, <3>7 DEF Assert, UnderRepair
    <3>10. failed' # {} => ReplyAborts
      BY <3>3, <3>5, <3>9 DEF ReplyAborts
    <3> QED BY <3>8, <3>10 DEF Aborts
  <2> QED BY <1>8, <2>1, <2>2 DEF recvReply
<1>9. ASSUME NEW n \in Node, NEW h \in Node, recvHello(n, h) PROVE Aborts
  BY <1>0, <1>1, <1>9 DEF recvHello, Assert
<1>10. ASSUME NEW n \in Node, NEW h \in Node, nb_delete(n, h) PROVE Aborts
  <2> DEFINE sound == \A d \in Through(n, h) : rt[n][d].flags = "UP"
                                            /\ rt[n][d].seqno % 2 = 0
  <2>1. failed' = Assert(sound, "handle_link_failure")
    BY <1>0, <1>10 DEF nb_delete, Assert
  <2>2. h \in nb[n] \ nb'[n]
    BY <1>10 DEF nb_delete, TypeOK
  <2>3. ~sound => \E d \in Node : UnderRepair(n, d) /\ rt[n][d].nexthop = h
    BY <1>3 DEF Through, UnderRepair
  <2> HIDE DEF sound
  <2>4. ~sound => LinkFailureAborts
    BY <2>2, <2>3 DEF LinkFailureAborts
  <2>5. failed' \subseteq {"handle_link_failure"} /\ (failed' # {} => ~sound)
    BY <2>1 DEF Assert
  <2> QED BY <2>4, <2>5 DEF Aborts
<1>11. ASSUME NEW n \in Node, NEW E \in SUBSET Node, rt_purge(n, E) PROVE Aborts
  <2>1. ASSUME NEW d \in Node, rt[n][d].flags = "UP" PROVE rt[n][d].hops # INFINITY2
    BY <2>1
  <2>2. ASSUME NEW d \in E PROVE rt'[n][d].seqno % 2 = 1
    <3>1. rt[n][d].flags = "UP" /\ rt'[n][d] = Invalidate(rt[n][d])
      BY <1>11 DEF rt_purge, TypeOK
    <3>2. rt'[n][d].seqno = rt[n][d].seqno + 1
      BY <1>2, <3>1, InvalidateDrops
    <3>3. rt[n][d].seqno % 2 = 0 /\ rt[n][d].seqno \in Nat
      BY <1>2, <3>1 DEF Entry
    <3> QED BY <3>2, <3>3
  <2>3. failed' = {}
    BY <1>0, <1>11, <2>1, <2>2 DEF rt_purge, Assert
  <2> QED BY <1>1, <2>3
<1>12. ASSUME NEW n \in Node, id_purge(n) PROVE Aborts
  BY <1>0, <1>1, <1>12 DEF id_purge
<1>13. CASE Lose
  BY <1>0, <1>1, <1>13 DEF Lose
<1> QED BY <1>4, <1>5, <1>6, <1>7, <1>8, <1>9, <1>10, <1>11, <1>12, <1>13 DEF Next

\* A step of a repair breaks no assertion but its own.
LEMMA RepairStepAborts ==
  ASSUME RepairNext, ~(Next /\ UNCHANGED repair), \A n \in Node : seqno'[n] % 2 = 0
  PROVE  Aborts
<1>0. failed = {}
  BY DEF RepairNext
<1>1. ASSUME failed' \subseteq {"greedy_next_node", "prev_hop", "forward"} PROVE Aborts
  BY <1>1 DEF Aborts
<1>2. ASSUME NEW n \in Node, NEW m \in rerr, recvError(n, m) PROVE Aborts
  <2>1. failed' \subseteq {"greedy_next_node", "forward"}
    BY <1>0, <1>2 DEF recvError, StartRepair, GiveUpRoute, ForwardError, HasNeighbour, Assert
  <2> QED BY <1>1, <2>1
<1>3. ASSUME NEW n \in Node, NEW m \in repa,
             AnswerRepair(n, m) \/ PassOnRepair(n, m) \/ forwardRepc(n, m)
      PROVE  Aborts
  <2>1. CASE AnswerRepair(n, m)
    BY <1>0, <1>1, <2>1 DEF AnswerRepair
  <2>2. ASSUME NEW c, failed' = failed \cup HasNeighbour(n) \cup Assert(c, "prev_hop")
        PROVE  Aborts
    BY <1>0, <1>1, <2>2 DEF HasNeighbour, Assert
  <2>3. CASE PassOnRepair(n, m) \/ forwardRepc(n, m)
    BY <2>2, <2>3 DEF PassOnRepair, forwardRepc
  <2> QED BY <1>3, <2>1, <2>3
<1>4. ASSUME NEW n \in Node, NEW d \in Node, LocExp(n, d) PROVE Aborts
  <2>1. failed' = failed \/ sendRequest(n, d, rt_down(rt[n][d]), queue[n])
    BY <1>4 DEF LocExp
  <2>2. failed' = {}
    BY <1>0, <2>1, SendAsserts
  <2> QED BY <1>1, <2>2
<1>5. ASSUME NEW n \in Node, NEW d \in Node, RepaRetx(n, d) PROVE Aborts
  BY <1>0, <1>1, <1>5 DEF RepaRetx, HasNeighbour, Assert
<1> QED BY <1>2, <1>3, <1>4, <1>5 DEF RepairNext

\* Of the assertions of discovery those of rt_resolve, sendRequest, nb_insert,
\* nb_delete and rt_purge never fail however routes are repaired; that of
\* handle_link_failure fails only for a route under repair through the neighbour
\* that is given up, and that of recvReply only for a route under repair that
\* the reply has to follow.  The hypothesis is that no repair is passed on over
\* INFINITY2 hops, which rt_hops could not tell from no route.
THEOREM RepairAborts ==
  ASSUME MaxHops < INFINITY2
  PROVE  RepairSpec => AbortsUnderRepair
<1>1. RepairInit => RepairSound
  <2>1. \A n, d \in Node : NoEntry.flags # "UP"
    BY DEF NoEntry
  <2> QED BY <2>1 DEF RepairInit, Init, RepairSound, MessagesSound
<1>2. RepairTypeOK /\ RepairNumbered /\ RepairSound /\ [RepairNext]_repairVars => RepairSound'
  BY RepairSoundStep DEF RepairNumbered
<1>3. ASSUME RepairTypeOK, RepairNumbered, RepairSound, RepairNext PROVE Aborts
  <2>1. TypeOK /\ RoutesFar
    BY <1>3 DEF RepairTypeOK, RepairNumbered
  <2>2. RepairNumbered' /\ RepairSound'
    BY <1>2, <1>3, RepairNumberedStep
  <2>3. \A n \in Node : seqno'[n] % 2 = 0
    BY <2>2 DEF RepairSound, MessagesSound
  <2>4. CASE Next /\ UNCHANGED repair
    <3>1. RoutesFar'
      BY <2>2 DEF RepairNumbered
    <3>2. \A n, d \in Node : rt[n][d].flags = "UP" =>
            rt[n][d].seqno % 2 = 0 /\ rt[n][d].hops # INFINITY2
      BY <1>3 DEF RepairSound
    <3> QED BY <2>1, <2>3, <2>4, <3>1, <3>2, NextAborts
  <2>5. CASE ~(Next /\ UNCHANGED repair)
    BY <1>3, <2>3, <2>5, RepairStepAborts
  <2> QED BY <2>4, <2>5
<1>4. RepairTypeOK /\ RepairNumbered /\ RepairSound /\ [RepairNext]_repairVars
        => [Aborts]_repairVars
  BY <1>3
<1>5. RepairSpec => []RepairSound
  BY <1>1, <1>2, RepairTypeCorrect, RepairNumbers, PTL DEF RepairSpec
<1>6. RepairSpec => [][Aborts]_repairVars
  BY <1>4, <1>5, RepairTypeCorrect, RepairNumbers, PTL DEF RepairSpec
<1> QED BY <1>6 DEF AbortsUnderRepair, Aborts
=============================================================================
