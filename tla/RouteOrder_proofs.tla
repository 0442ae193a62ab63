------------------------- MODULE RouteOrder_proofs -------------------------
(***************************************************************************)
(* Proofs about RouteOrder: agents that keep its discipline have no        *)
(* routing loops, in a network of any size, finite or not.                 *)
(***************************************************************************)
EXTENDS RouteOrder, WellFoundedInduction, TLAPS

TypeOK ==
  /\ issued \in [Node -> Nat]
  /\ route \in [Node -> [Node -> Route]]

\* A valid route carries a number its destination has issued.
Dated == \A n, d \in Node : route[n][d].valid => route[n][d].seqno <= issued[d]

\* The next hop of a valid route is its destination or has a better route.
Closer ==
  \A n, d \in Node :
    route[n][d].valid =>
      \/ route[n][d].nexthop = d
      \/ Better(route[route[n][d].nexthop][d], route[n][d])

\* A set of numbers that is not empty has a least element.
LEMMA Least ==
  ASSUME NEW T \in SUBSET Nat, T # {}
  PROVE  \E m \in T : \A k \in T : m <= k
<1>1. PICK m \in T : \A k \in T : ~(<<k, m>> \in OpToRel(<, Nat))
  BY WFMin, NatLessThanWellFounded, Zenon
<1>2. \A k \in T : ~(k < m)
  <2> TAKE k \in T
  <2>1. k \in Nat /\ m \in Nat
    OBVIOUS
  <2> QED BY <1>1, <2>1, Zenon DEF OpToRel
<1> QED BY <1>2

\* Among routes whose numbers are bounded there is one that no other is better
\* than.
LEMMA BestRoute ==
  ASSUME NEW S, S # {}, NEW f \in [S -> Route], NEW b \in Nat,
         \A n \in S : f[n].seqno <= b
  PROVE  \E n \in S : \A m \in S : ~Better(f[m], f[n])
<1> DEFINE Ages == {b - f[n].seqno : n \in S}
<1>1. \A n \in S : f[n].seqno \in Nat /\ f[n].hops \in Nat
  BY DEF Route
<1>2. Ages \in SUBSET Nat /\ Ages # {}
  BY <1>1
<1>3. PICK a \in Ages : \A k \in Ages : a <= k
  BY <1>2, Least
<1> DEFINE Youngest == {n \in S : b - f[n].seqno = a}
           Hops == {f[n].hops : n \in Youngest}
<1>4. Hops \in SUBSET Nat /\ Hops # {}
  BY <1>1, <1>3
<1>5. PICK h \in Hops : \A k \in Hops : h <= k
  BY <1>4, Least
<1>6. PICK n \in Youngest : f[n].hops = h
  BY <1>5
<1>7. ASSUME NEW m \in S, Better(f[m], f[n])
      PROVE  FALSE
  <2>1. b - f[m].seqno \in Ages
    OBVIOUS
  <2>2. a <= b - f[m].seqno
    BY <1>3, <2>1
  <2>3. b - f[n].seqno = a
    BY <1>6
  <2>4. f[m].seqno <= f[n].seqno
    BY <1>1, <2>2, <2>3
  <2>5. f[m].seqno = f[n].seqno /\ f[m].hops < f[n].hops
    BY <1>1, <1>7, <2>4 DEF Better
  <2>6. m \in Youngest
    BY <2>3, <2>5
  <2>7. h <= f[m].hops
    BY <1>5, <2>6
  <2> QED BY <1>1, <1>6, <2>5, <2>7
<1> QED BY <1>7

-----------------------------------------------------------------------------
(***************************************************************************)
(* The discipline is kept.                                                 *)
(***************************************************************************)

\* Better is a strict order of routes.
LEMMA BetterOrder ==
  \A a, b, c \in Route :
    /\ Better(a, b) /\ Better(b, c) => Better(a, c)
    /\ ~Better(a, a)
BY DEF Better, Route

\* What a handler leaves in place of a route is the route, a better one that is
\* valid, or one that is not.
LEMMA ChangeBetter ==
  ASSUME TypeOK, NEW n \in Node, Handle(n), NEW x \in Node, NEW d \in Node
  PROVE  route'[x][d] = route[x][d] \/ Better(route'[x][d], route[x][d])
<1>1. CASE x = n
  <2>1. route[n][d] \in Route /\ route'[n][d] \in Route
    BY DEF TypeOK, Handle
  <2> QED BY <1>1, <2>1 DEF Handle, Adopt, Withdraw, Better, Route
<1>2. CASE x # n
  BY <1>2 DEF Handle
<1> QED BY <1>1, <1>2

\* A step keeps the discipline.
LEMMA OrderStep ==
  TypeOK /\ Dated /\ Closer /\ [Next]_<<issued, route>> => (TypeOK /\ Dated /\ Closer)'
<1> SUFFICES ASSUME TypeOK, Dated, Closer, [Next]_<<issued, route>>
             PROVE  (TypeOK /\ Dated /\ Closer)'
  OBVIOUS
<1>1. CASE UNCHANGED <<issued, route>>
  BY <1>1 DEF TypeOK, Dated, Closer
<1>2. ASSUME NEW n \in Node, Handle(n)
      PROVE  (TypeOK /\ Dated /\ Closer)'
  <2>1. TypeOK'
    BY <1>2 DEF Handle, TypeOK
  <2>2. ASSUME NEW x \in Node, NEW d \in Node, route'[x][d].valid
        PROVE  /\ route'[x][d].seqno <= issued'[d]
               /\ \/ route'[x][d].nexthop = d
                  \/ Better(route'[route'[x][d].nexthop][d], route'[x][d])
    <3> DEFINE r == route'[x][d]
               m == r.nexthop
    <3>1. r \in Route /\ route[x][d] \in Route /\ m \in Node
      BY <2>1 DEF TypeOK, Route
    <3>2. /\ route[m][d] \in Route /\ route'[m][d] \in Route
          /\ issued[d] \in Nat /\ issued'[d] \in Nat /\ issued[d] <= issued'[d]
      BY <1>2, <2>1, <3>1 DEF TypeOK, Handle
    <3>3. route'[m][d] = route[m][d] \/ Better(route'[m][d], route[m][d])
      BY <1>2, <3>1, ChangeBetter
    <3>4. CASE r = route[x][d]
      <4>1. r.seqno <= issued[d] /\ (m = d \/ Better(route[m][d], r))
        BY <2>2, <3>4 DEF Dated, Closer
      <4>2. m = d \/ Better(route'[m][d], r)
        BY <3>1, <3>2, <3>3, <4>1, BetterOrder
      <4>3. r.seqno <= issued'[d]
        BY <3>1, <3>2, <4>1 DEF Route
      <4> QED BY <4>2, <4>3
    <3>5. CASE r # route[x][d]
      <4>1. x = n
        BY <1>2, <3>5 DEF Handle
      <4>2. Adopt(n, d, r)
        BY <1>2, <2>2, <3>5, <4>1 DEF Handle, Withdraw
      <4>3. r.seqno <= issued'[d] /\ (m = d \/ Better(route[m][d], r))
        BY <4>2 DEF Adopt
      <4>4. m = d \/ Better(route'[m][d], r)
        BY <3>1, <3>2, <3>3, <4>3, BetterOrder
      <4> QED BY <4>3, <4>4
    <3> QED BY <3>4, <3>5
  <2> QED BY <2>1, <2>2 DEF Dated, Closer
<1> QED BY <1>1, <1>2 DEF Next

\* In a state that keeps the discipline no nodes pass packets round.
LEMMA OrderNoLoop == TypeOK /\ Dated /\ Closer => NoLoop
<1> SUFFICES ASSUME TypeOK, Dated, Closer,
                    NEW d \in Node, NEW S \in SUBSET (Node \ {d}), S # {},
                    \A n \in S : route[n][d].valid /\ route[n][d].nexthop \in S
             PROVE  FALSE
  BY DEF NoLoop
<1> DEFINE f == [n \in S |-> route[n][d]]
<1>1. f \in [S -> Route] /\ issued[d] \in Nat
  BY DEF TypeOK
<1>2. \A n \in S : f[n].seqno <= issued[d]
  BY DEF Dated
<1>3. PICK n \in S : \A m \in S : ~Better(f[m], f[n])
  <2> HIDE DEF f
  <2> QED BY <1>1, <1>2, BestRoute
<1>4. route[n][d].nexthop \in S /\ route[n][d].nexthop # d
  OBVIOUS
<1>5. Better(route[route[n][d].nexthop][d], route[n][d])
  BY <1>4 DEF Closer
<1> QED BY <1>3, <1>4, <1>5

\* No routing loop: whatever the messages by which nodes come to know of routes,
\* a set of nodes that all have a route to d has a next hop outside.
THEOREM OrderedRoutes == Spec => []NoLoop
<1>1. Init => TypeOK /\ Dated /\ Closer
  BY DEF Init, TypeOK, Dated, Closer
<1> QED BY <1>1, OrderStep, OrderNoLoop, PTL DEF Spec
=============================================================================
