-------------------------- MODULE MCAorgluRepair --------------------------
(***************************************************************************)
(* Small networks for AorgluRepair, from states in which a route is in     *)
(* use: where a repair can begin.  Each is a state in which one end of a   *)
(* line, the asker, has found the other one by a request.                  *)
(***************************************************************************)
EXTENDS AorgluRepair

Both(S) == S \cup {<<l[2], l[1]>> : l \in S}

\* 0 - 1 - 2, and 3 out of reach.
LineLink == Both({<<0, 1>>, <<1, 2>>})
LineFlow == {<<0, 2>>}
\* 0 - 1 - 2 - 3
LongLink == Both({<<0, 1>>, <<1, 2>>, <<2, 3>>})
LongFlow == {<<0, 3>>}
\* 2 has data for 0 as well.
CrossFlow == {<<0, 3>>, <<2, 0>>}

StraightPlace == [n \in Node |-> <<2 * n, 0>>]
\* 1 is farther from 0 than 2 is, and nearer to 2 than 0 is: a repair from 2
\* starts at a local maximum, one from 0 does not.
BendPlace == [StraightPlace EXCEPT ![1] = <<5, 2>>]

Route(s, h, hop, ttl) == [rt_update(NoEntry, s, h, hop) EXCEPT !.reqTtl = ttl]

\* The routes along the line from 0 to z once "asked", one of the two, has
\* answered the request of the other one.
RoutesTo(z, asked) ==
  LET \* what is known of an end h hops away through hop
      Learnt(end, h, hop) == Route(6, h, hop, IF end = asked THEN h ELSE 0)
  IN [n \in Node |-> [d \in Node |->
       CASE n < z /\ d = z -> Learnt(z, z - n, n + 1)
         [] n \in 1..z /\ d = 0 -> Learnt(0, n, n - 1)
         [] OTHER -> NoEntry]]

\* No repair under way, no request remembered, no assertion failed.
Nothing ==
  /\ ids = [n \in Node |-> {}]
  /\ failed = {}
  /\ repa = {}
  /\ locexp = [n \in Node |-> [d \in Node |-> 0]]
  /\ reparetx = [n \in Node |-> [d \in Node |-> 0]]

\* Nothing has happened since, but that the node "cut" has invalidated its
\* route to z: cut = z for none.  Everybody knows his neighbours and where
\* they are; only the asker knows where the other end is.
Found(z, asker, cut) ==
  LET asked == IF asker = 0 THEN z ELSE 0
  IN /\ bid = [n \in Node |-> IF n = asker THEN 2 ELSE 1]
     /\ rt = IF cut = z THEN RoutesTo(z, asked)
             ELSE [RoutesTo(z, asked) EXCEPT ![cut][z] = Invalidate(@)]
     /\ nb = [n \in Node |-> Neighbours(n)]
     /\ loc = [n \in Node |-> [m \in Node |->
          IF m \in nb[n] \/ <<n, m>> = <<asker, asked>> THEN m ELSE NoLoc]]
     /\ ludp = [n \in Node |-> IF n = asked THEN {asker} ELSE {}]
     /\ queue = [n \in Node |-> {}]
     /\ rreq = {} /\ rrep = {}
     /\ Nothing

\* n has taken one more number than the route to it carries.
Since(n) == seqno = [m \in Node |-> IF m = n THEN 8 ELSE 6]
Numbers  == seqno = [m \in Node |-> 6]

\* Packet i, from s to d, is on its first hop.
Sending(i, s, hop, d) ==
  /\ data = {[from |-> s, to |-> hop,
              pkt |-> [id |-> i, src |-> s, dst |-> d, ttl |-> NETWORK_DIAMETER]]}
  /\ nsent = i /\ rerr = {}

\* Packet 1 has arrived.
Idle == data = {} /\ nsent = 1 /\ rerr = {}

\* Packet 1, from 0 to z, has been dropped at 1, and 0 is being told.
Dropped(z) ==
  /\ data = {} /\ nsent = 1
  /\ rerr = {[from |-> 1, to |-> 0, origSrc |-> 0, origDst |-> z]}

\* 0 has one more packet for 2, and can repair the route and then search for
\* 2; or is being told that the first one was dropped, and can only repair; or
\* the last packet of 2 is on its way to 0; or the last packet of 0 is on its
\* way to 3, which has moved out of reach and whose place 0 does not know.
RepairsInit ==
  \/ Found(2, 0, 2) /\ Numbers /\ Idle
  \/ Found(2, 0, 1) /\ Since(0) /\ Dropped(2)
  \/ Found(2, 2, 2) /\ Since(0) /\ Sending(MaxSent, 2, 1, 0)
  \/ Found(3, 3, 2) /\ Since(2) /\ Sending(MaxSent, 0, 1, 3)

RepairsSpec == RepairsInit /\ [][RepairNext]_repairVars /\ RepairFairness

\* 0 has data for 2, and knows its place.
LineSpec == Found(2, 0, 2) /\ Numbers /\ Idle /\ [][RepairNext]_repairVars
\* 0 has data for 3, and does not know its place.
LongSpec == Found(3, 3, 3) /\ Numbers /\ Idle /\ [][RepairNext]_repairVars

\* 2, which had found 0 before, has just passed on the request of 0 for 3, and
\* 3 has answered it.
Answered ==
  /\ seqno = [n \in Node |-> IF n = 2 THEN 8 ELSE 6]
  /\ bid = [n \in Node |-> IF n \in {0, 2} THEN 2 ELSE 1]
  /\ rt = [n \in Node |-> [d \in Node |->
       CASE n = 0 /\ d = 3 -> Searching(rt_add(NoEntry))
         [] d = 0 /\ n > 0 -> Route(6, n, n - 1, IF n = 2 THEN 2 ELSE 0)
         [] d = 2 /\ n < 2 -> Route(8, 2 - n, n + 1, 0)
         [] OTHER -> NoEntry]]
  /\ nb = [n \in Node |-> Neighbours(n)]
  /\ loc = [n \in Node |-> [m \in Node |->
       IF m \in nb[n] \/ <<n, m>> = <<2, 0>> THEN m ELSE NoLoc]]
  /\ ludp = [n \in Node |-> IF n = 3 THEN {0} ELSE IF n = 0 THEN {2} ELSE {}]
  /\ queue = [n \in Node |->
       IF n = 0 THEN {[id |-> 1, src |-> 0, dst |-> 3, ttl |-> NETWORK_DIAMETER]} ELSE {}]
  /\ rrep = {[from |-> 3, to |-> 2, ipdst |-> 0, dst |-> 3, dstSeqno |-> 6,
               hops |-> 1, ttl |-> NETWORK_DIAMETER]}
  /\ rreq = {} /\ rerr = {} /\ data = {} /\ nsent = 1
  /\ Nothing

AnsweredSpec == Answered /\ [][RepairNext]_repairVars

\* A route error takes no route out of use that leads to its destination: with
\* two hops, one whose relay has a valid route as well.
ErrorsAreCurrent ==
  [][\A m \in rerr \ rerr' :
       rt[m.to][m.origDst].flags = "UP" /\ rt'[m.to][m.origDst].flags # "UP"
         => rt[rt[m.to][m.origDst].nexthop][m.origDst].flags # "UP"]_repairVars

LineSeqno == [n \in Node |-> IF n = 0 THEN 10 ELSE IF n = 2 THEN 8 ELSE 6]
LongSeqno == [n \in Node |-> IF n \in {0, 3} THEN 8 ELSE 6]
CrossSeqno == [n \in Node |-> IF n = 2 THEN 10 ELSE 6]
=============================================================================
