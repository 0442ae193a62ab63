----------------------------- MODULE RouteOrder -----------------------------
(***************************************************************************)
(* What the routing tables of distance vector agents owe each other so     *)
(* that following next hops never leads round in a circle, whatever the    *)
(* messages are by which they keep it.  AorgluDiscovery, and Aodv without  *)
(* local repair, implement it.                                             *)
(***************************************************************************)
EXTENDS Integers

CONSTANT Node  \* network addresses

VARIABLES
  issued,  \* issued[d]: the last sequence number d has given itself
  route    \* route[n][d]: n's route to d, in use or as it last was

Route == [valid: BOOLEAN, seqno: Nat, hops: Nat, nexthop: Node]

\* A larger number is fresher; of two routes as fresh the shorter one is better.
Better(a, b) == a.seqno > b.seqno \/ (a.seqno = b.seqno /\ a.hops < b.hops)

Init ==
  /\ issued \in [Node -> Nat]
  /\ route \in [Node -> [Node -> Route]]
  /\ \A n, d \in Node : ~route[n][d].valid

\* n takes a better route, with a number d has issued, and the next hop is d
\* or has a better route still.
Adopt(n, d, r) ==
  /\ Better(r, route[n][d])
  /\ r.valid /\ r.seqno <= issued'[d]
  /\ r.nexthop = d \/ Better(route[r.nexthop][d], r)

\* n gives its route up, for a number that only a fresher route exceeds.
Withdraw(n, d, r) ==
  /\ route[n][d].valid
  /\ ~r.valid /\ r.seqno > route[n][d].seqno

\* A handler of n changes any of n's routes, and d may issue a number.
Handle(n) ==
  /\ \A x \in Node \ {n} : route'[x] = route[x]
  /\ \A d \in Node : issued'[d] >= issued[d]
  /\ \A d \in Node :
       \/ route'[n][d] = route[n][d]
       \/ Adopt(n, d, route'[n][d])
       \/ Withdraw(n, d, route'[n][d])
  /\ issued' \in [Node -> Nat] /\ route' \in [Node -> [Node -> Route]]

Next == \E n \in Node : Handle(n)

Spec == Init /\ [][Next]_<<issued, route>>

\* No circle: of any nodes that all have a route to d, other than d itself, one
\* has its next hop outside; so a packet for d cannot stay among them.
NoLoop ==
  \A d \in Node : \A S \in SUBSET (Node \ {d}) :
    S # {} => \E n \in S : route[n][d].valid => route[n][d].nexthop \notin S
=============================================================================
