--------------------------- MODULE AorgluRepair ---------------------------
(***************************************************************************)
(* A network of AORGLU agents (src/aorglu/aorglu.cc) with route repair: on *)
(* top of AorgluDiscovery, the source that receives a route error sends a  *)
(* repair towards the place where it believes the destination to be, and   *)
(* two timers watch over it.                                               *)
(*                                                                         *)
(* Nodes do not move, so no location update is due, and locations do not   *)
(* expire (LOC_CACHE_EXP is -1).  The TTL of errors and repairs is never   *)
(* tested before it has run through 30 hops, and is left out.              *)
(***************************************************************************)
EXTENDS AorgluDiscovery, AorgluGeo, Sequences

CONSTANTS
  Place,    \* Place[n]: the point where n is
  MaxHops   \* bound: the hop count a repair is passed on with

ASSUME PlaceAssumption == Place \in [Node -> Int \X Int]
ASSUME HopsAssumption == MaxHops \in 1..255

VARIABLES
  repa,     \* REPA and REPC packets on the air
  locexp,   \* locexp[n][d]: LOC_EXP events n has scheduled for d
  reparetx  \* reparetx[n][d]: REPA_RETX events n has scheduled for d

repair     == <<repa, locexp, reparetx>>
repairVars == <<vars, repair>>

\* The neighbours of n whose location n knows, and where it believes them.
At(n) == [m \in {m \in nb[n] : loc[n][m] # NoLoc} |-> Place[loc[n][m]]]

\* "target" is the node whose coordinates the packet carries for dst.
greedy_next(n, target) == greedy_next_node(n, Place[n], At(n), Place[target])

\* greedy_next_node asserts that there is a neighbour.
HasNeighbour(n) == Assert(nb[n] # {}, "greedy_next_node")

(***************************************************************************)
(* Sending and passing on.                                                 *)
(***************************************************************************)
\* The repair n starts for d with the sequence number s.  A REPC is sent with
\* a destination sequence number that nobody sets: the zero of a new packet.
NewRepair(n, d, s, greedy) ==
  [from |-> n, to |-> n, src |-> n, dst |-> d, srcSeqno |-> s,
   dstSeqno |-> IF greedy THEN rt[n][d].seqno ELSE 0, hops |-> 1,
   greedy |-> greedy, dir |-> 0, path |-> <<>>, target |-> loc[n][d]]

forwardRepa(n, m, next) ==
  [m EXCEPT !.from = n, !.to = next, !.greedy = TRUE, !.path = <<>>,
            !.hops = @ + 1, !.dstSeqno = Larger(rt[n][m.dst].seqno, @)]

\* The REPC that leaves n for next, once the previous hop is on its path.
WalkOn(n, m, next, path) ==
  [m EXCEPT !.from = n, !.to = next, !.greedy = FALSE, !.hops = @ + 1,
            !.path = IF m.from = n THEN <<[id |-> n, at |-> Place[n]]>> \o path
                                   ELSE path]

\* Whether forwardRepc at n finds the location of the previous hop when it
\* needs it: the code does not look.
PreviousKnown(n, m) == m.from = n \/ loc[n][m.from] # NoLoc

Turn(n, m) ==
  LET prevAt == Place[IF m.from = n THEN n ELSE loc[n][m.from]]
      path   == WithPrevious(n, m.from, prevAt, m.path)
  IN {IF h = n THEN {} ELSE {WalkOn(n, m, h, path)} :
        h \in hand_node(m.dir, n, Place[n], At(n),
                        Towards(m.path, prevAt, Place[m.target]), path)}

\* What forwardRepc at n may send for m: one packet or none.
Sent(n, m) ==
  UNION {IF LeavesMaximum(n, m.from, m.path, g) THEN {{forwardRepa(n, m, g)}}
         ELSE IF PreviousKnown(n, m) THEN Turn(n, m) ELSE {{}}
           : g \in greedy_next(n, m.target)}

\* The walk needs the location of a previous hop it does not have.
Lost(n, m) ==
  ~PreviousKnown(n, m) /\
  \E g \in greedy_next(n, m.target) : ~LeavesMaximum(n, m.from, m.path, g)

\* A repair at a local maximum goes both ways round.
BothWays(n, m) ==
  {a \cup b : a \in Sent(n, [m EXCEPT !.greedy = FALSE, !.dir = 0]),
              b \in Sent(n, [m EXCEPT !.greedy = FALSE, !.dir = 1])}

\* Every repair, in recvRepa and forwardRepc, teaches the reverse route.
LearnSource(n, m) ==
  LET e == rt_add(rt[n][m.src])
  IN /\ rt' = [rt EXCEPT ![n][m.src] = ReverseRoute(e, m)]
     /\ IF Fresher(e, m.srcSeqno, m.hops)
        THEN \E lost \in SUBSET queue[n] :
               LET ready == Waiting(n, m.src, lost)
               IN /\ queue' = [queue EXCEPT ![n] = @ \ (lost \cup ready)]
                  /\ data' = data \cup Frames(n, m.from, ready)
        ELSE UNCHANGED <<queue, data>>

\* init_route_maintenance: greedily, or both ways round from a local maximum,
\* where forwardRepc gives n a route to itself.
StartGreedy(n, d, s) ==
  \E g \in greedy_next(n, loc[n][d]) :
    /\ g # n
    /\ repa' = repa \cup {[NewRepair(n, d, s, TRUE) EXCEPT !.to = g]}

StartAround(n, d, s) ==
  /\ greedy_next(n, loc[n][d]) = {n}
  /\ \E out \in BothWays(n, NewRepair(n, d, s, FALSE)) : repa' = repa \cup out

RouteToSelf(n, s) ==
  ReverseRoute(rt_add(rt[n][n]), [srcSeqno |-> s, hops |-> 1, from |-> n])

\* init_route_maintenance(d) at n, and the entry e the caller leaves for d.
init_route_maintenance(n, d, e, s) ==
  \/ /\ StartGreedy(n, d, s)
     /\ rt' = [rt EXCEPT ![n][d] = e]
  \/ /\ StartAround(n, d, s)
     /\ rt' = [rt EXCEPT ![n][d] = e, ![n][n] = RouteToSelf(n, s)]

(***************************************************************************)
(* Route errors.                                                           *)
(***************************************************************************)
\* Mutant: the timer that ends the repair is not set.
StartRepairUntimed(n, m) ==
  LET d == m.origDst
  IN /\ m \in rerr /\ Delivered(m, n)
     /\ m.origSrc = n /\ loc[n][d] # NoLoc
     /\ seqno[n] + 2 <= MaxSeqno[n]
     /\ seqno' = [seqno EXCEPT ![n] = @ + 2]
     /\ init_route_maintenance(n, d, [rt[n][d] EXCEPT !.flags = "IN_REPAIR"], seqno[n] + 2)
     /\ reparetx' = [reparetx EXCEPT ![n][d] = @ + 1]
     /\ rerr' = rerr \ {m}
     /\ failed' = failed \cup HasNeighbour(n)
     /\ UNCHANGED <<bid, ids, nb, loc, ludp, queue, rreq, rrep, data, nsent, locexp>>

\* The source of the packet knows a place for the destination: the route is
\* under repair, whatever it was, and both timers are set.
StartRepair(n, m) ==
  LET d == m.origDst
  IN /\ m \in rerr /\ Delivered(m, n)
     /\ m.origSrc = n /\ loc[n][d] # NoLoc
     /\ seqno[n] + 2 <= MaxSeqno[n]
     /\ seqno' = [seqno EXCEPT ![n] = @ + 2]
     /\ init_route_maintenance(n, d, [rt[n][d] EXCEPT !.flags = "IN_REPAIR"], seqno[n] + 2)
     /\ locexp' = [locexp EXCEPT ![n][d] = @ + 1]
     /\ reparetx' = [reparetx EXCEPT ![n][d] = @ + 1]
     /\ rerr' = rerr \ {m}
     /\ failed' = failed \cup HasNeighbour(n)
     /\ UNCHANGED <<bid, ids, nb, loc, ludp, queue, rreq, rrep, data, nsent>>

\* It does not: the route goes down.
GiveUpRoute(n, m) ==
  /\ m \in rerr /\ Delivered(m, n)
  /\ m.origSrc = n /\ loc[n][m.origDst] = NoLoc
  /\ rt' = [rt EXCEPT ![n][m.origDst] = rt_down(@)]
  /\ rerr' = rerr \ {m}
  /\ UNCHANGED <<seqno, bid, ids, nb, loc, ludp, queue, rreq, rrep, data, nsent,
                 failed, repair>>

\* Another node's packet: the error follows the route to its source, which
\* forward() asserts to be UP, or to be none for a broadcast.
ForwardError(n, m) ==
  LET e == rt[n][m.origSrc]
  IN /\ m \in rerr /\ Delivered(m, n) /\ m.origSrc # n
     /\ rerr' = (rerr \ {m}) \cup {[m EXCEPT !.from = n, !.to = e.nexthop]}
     /\ failed' = failed \cup Assert(e.flags = "UP", "forward")
     /\ UNCHANGED <<agent, rreq, rrep, data, nsent, repair>>

recvError(n, m) == StartRepair(n, m) \/ GiveUpRoute(n, m) \/ ForwardError(n, m)

(***************************************************************************)
(* Repairs.                                                                *)
(***************************************************************************)
\* Mutant: the number the reply carries is not kept.
AnswerRepairForgets(n, m) ==
  LET s == ReplySeqno(seqno[n], m.dstSeqno)
  IN /\ m \in repa /\ Delivered(m, n)
     /\ m.greedy /\ m.dst = n
     /\ s <= MaxSeqno[n]
     /\ LearnSource(n, m)
     /\ repa' = repa \ {m}
     /\ rrep' = rrep \cup
          IF Fresher(rt[n][m.src], m.srcSeqno, m.hops)
          THEN {[from |-> n, to |-> rt'[n][m.src].nexthop, ipdst |-> m.src, dst |-> n,
                 dstSeqno |-> s, hops |-> 1, ttl |-> NETWORK_DIAMETER]}
          ELSE {}
     /\ UNCHANGED <<seqno, bid, ids, nb, loc, ludp, rreq, rerr, nsent, failed,
                    locexp, reparetx>>

\* recvRepa at the destination: it takes a new number in any case, and
\* replies if the repair has taught it a route.
AnswerRepair(n, m) ==
  LET s == ReplySeqno(seqno[n], m.dstSeqno)
  IN /\ m \in repa /\ Delivered(m, n)
     /\ m.greedy /\ m.dst = n
     /\ s <= MaxSeqno[n]
     /\ LearnSource(n, m)
     /\ seqno' = [seqno EXCEPT ![n] = s]
     /\ repa' = repa \ {m}
     /\ rrep' = rrep \cup
          IF Fresher(rt[n][m.src], m.srcSeqno, m.hops)
          THEN {[from |-> n, to |-> rt'[n][m.src].nexthop, ipdst |-> m.src, dst |-> n,
                 dstSeqno |-> s, hops |-> 1, ttl |-> NETWORK_DIAMETER]}
          ELSE {}
     /\ UNCHANGED <<bid, ids, nb, loc, ludp, rreq, rerr, nsent, failed,
                    locexp, reparetx>>

\* recvRepa at a relay: on towards the destination, or round the maximum.
PassOnRepair(n, m) ==
  /\ m \in repa /\ Delivered(m, n)
  /\ m.greedy /\ m.dst # n /\ m.hops < MaxHops
  /\ LearnSource(n, m)
  /\ IF greedy_next(n, m.target) = {n}
     THEN \E out \in BothWays(n, m) : repa' = (repa \ {m}) \cup out
     ELSE \E g \in greedy_next(n, m.target) :
            repa' = (repa \ {m}) \cup {forwardRepa(n, m, g)}
  /\ failed' = failed \cup HasNeighbour(n) \cup
       Assert(greedy_next(n, m.target) = {n} => ~Lost(n, m), "prev_hop")
  /\ UNCHANGED <<seqno, bid, ids, nb, loc, ludp, rreq, rrep, rerr, nsent,
                 locexp, reparetx>>

\* A REPC is always forwarded.
forwardRepc(n, m) ==
  /\ m \in repa /\ Delivered(m, n)
  /\ ~m.greedy /\ m.hops < MaxHops
  /\ LearnSource(n, m)
  /\ \E out \in Sent(n, m) : repa' = (repa \ {m}) \cup out
  /\ failed' = failed \cup HasNeighbour(n) \cup Assert(~Lost(n, m), "prev_hop")
  /\ UNCHANGED <<seqno, bid, ids, nb, loc, ludp, rreq, rrep, rerr, nsent,
                 locexp, reparetx>>

(***************************************************************************)
(* The timers of a repair.                                                 *)
(***************************************************************************)
\* AORGLU_LOC_EXP_Timer: a route that has not come back goes down, and is
\* searched for.
LocExp(n, d) ==
  /\ locexp[n][d] > 0
  /\ locexp' = [locexp EXCEPT ![n][d] = @ - 1]
  /\ IF rt[n][d].flags = "UP" THEN UNCHANGED <<seqno, bid, rt, queue, rreq, failed>>
     ELSE sendRequest(n, d, rt_down(rt[n][d]), queue[n])
  /\ UNCHANGED <<ids, nb, loc, ludp, rrep, rerr, data, nsent, repa, reparetx>>

\* Mutant: the timer is not set again.
RepaRetxOnce(n, d) ==
  /\ reparetx[n][d] > 0
  /\ reparetx' = [reparetx EXCEPT ![n][d] = @ - 1]
  /\ IF rt[n][d].flags = "IN_REPAIR" /\ loc[n][d] # NoLoc
     THEN /\ init_route_maintenance(n, d, rt[n][d], seqno[n])
          /\ failed' = failed \cup HasNeighbour(n)
     ELSE UNCHANGED <<rt, repa, failed>>
  /\ UNCHANGED <<seqno, bid, ids, nb, loc, ludp, queue, air, nsent, locexp>>

\* AORGLU_REPA_RETX_Timer: while the route is under repair the repair is sent
\* again, with the source sequence number of the moment, and the timer set
\* again; the event of a route that is down is never looked at any more.
RepaRetx(n, d) ==
  /\ reparetx[n][d] > 0
  /\ reparetx' = [reparetx EXCEPT ![n][d] =
                    IF rt[n][d].flags = "IN_REPAIR" THEN @ ELSE @ - 1]
  /\ IF rt[n][d].flags = "IN_REPAIR" /\ loc[n][d] # NoLoc
     THEN /\ init_route_maintenance(n, d, rt[n][d], seqno[n])
          /\ failed' = failed \cup HasNeighbour(n)
     ELSE UNCHANGED <<rt, repa, failed>>
  /\ UNCHANGED <<seqno, bid, ids, nb, loc, ludp, queue, air, nsent, locexp>>

RepairInit ==
  /\ Init
  /\ repa = {}
  /\ locexp = [n \in Node |-> [d \in Node |-> 0]]
  /\ reparetx = [n \in Node |-> [d \in Node |-> 0]]

RepairNext ==
  \/ Next /\ UNCHANGED repair
  \/ /\ failed = {}
     /\ \/ \E n \in Node : \E m \in rerr : recvError(n, m)
        \/ \E n \in Node : \E m \in repa :
             AnswerRepair(n, m) \/ PassOnRepair(n, m) \/ forwardRepc(n, m)
        \/ \E n, d \in Node : LocExp(n, d) \/ RepaRetx(n, d)

RepairSpec == RepairInit /\ [][RepairNext]_repairVars

\* Every LOC_EXP event that is scheduled is handled (only the source of a
\* packet repairs the route to its destination).
RepairFairness == \A f \in Flow : WF_repairVars(failed = {} /\ LocExp(f[1], f[2]))

(***************************************************************************)
(* Properties.                                                             *)
(***************************************************************************)
\* A route under repair has both its timers running.
RepairTimed ==
  \A n, d \in Node :
    rt[n][d].flags = "IN_REPAIR" => locexp[n][d] > 0 /\ reparetx[n][d] > 0

\* A repair comes to an end: the route is up or down again (unless n has come
\* to the bound of its sequence numbers, without which it cannot search, or a
\* failed assertion has ended the program).
RepairEnds ==
  \A f \in Flow :
    LET n == f[1]
    IN rt[n][f[2]].flags = "IN_REPAIR" ~>
         \/ rt[n][f[2]].flags # "IN_REPAIR"
         \/ seqno[n] + 2 > MaxSeqno[n] \/ failed # {}

\* n's route to d is under repair, with the distance it had.
UnderRepair(n, d) == rt[n][d].flags = "IN_REPAIR" /\ rt[n][d].hops # INFINITY2

LinkFailureAborts ==
  \E n, d \in Node : UnderRepair(n, d) /\ rt[n][d].nexthop \in nb[n] \ nb'[n]

ReplyAborts == \E m \in rrep \ rrep' : UnderRepair(m.to, m.ipdst)

\* A route under repair keeps its distance and next hop without being UP.  Of
\* the assertions of discovery only the two that ask every route with a
\* distance to be UP can fail for it, and each only for the very route it looks
\* at: one through the neighbour given up, the one the reply has to follow.
\* The other three labels are the assertions of the repair itself.
AbortsUnderRepair ==
  [][/\ failed' \subseteq {"handle_link_failure", "recvReply",
                           "forward", "greedy_next_node", "prev_hop"}
     /\ "handle_link_failure" \in failed' => LinkFailureAborts
     /\ "recvReply" \in failed' => ReplyAborts]_repairVars

\* handle_link_failure: assert(rt->rt_flags == RTF_UP) for every route through
\* a neighbour that has fallen silent.
LinkFailureAssertHolds == "handle_link_failure" \notin failed

\* recvReply: assert(rt0->rt_flags == RTF_UP) for the route a reply follows.
ReplyAssertHolds == "recvReply" \notin failed

\* forward: assert(rt->rt_flags == RTF_UP) for the route an error follows.
ForwardAssertHolds == "forward" \notin failed

\* greedy_next_node: assert(nb): a node that repairs a route has a neighbour.
GreedyAssertHolds == "greedy_next_node" \notin failed

\* rt_down, in the assertion that is commented out: the sequence number of a
\* route that goes down is odd ("is the seqno odd?").
DownIsOdd ==
  \A n, d \in Node :
    rt[n][d].flags = "DOWN" /\ rt[n][d].lastHops # INFINITY2
      => rt[n][d].seqno % 2 = 1
=============================================================================
