-------------------------- MODULE AorgluPerimeter --------------------------
(***************************************************************************)
(* The journey of one route repair of AORGLU (src/aorglu/aorglu.cc) over a *)
(* network that stands still: greedy forwarding as a REPA, and from a      *)
(* local maximum two walks, one per direction, as REPCs.  The copies of a  *)
(* repair do not meet: the module follows one of them, either of the two   *)
(* at each local maximum.                                                  *)
(*                                                                         *)
(* Every node has heard its neighbours, knows where they are, and the link *)
(* layer delivers.  What a repair teaches the routing tables is the        *)
(* subject of AorgluRepair.  Hop counts and the TTL, which no handler of a *)
(* repair looks at, are left out, so that a repair that returns to where   *)
(* it has been is in the state it was in.                                  *)
(***************************************************************************)
EXTENDS Integers, Sequences, FiniteSets, AorgluGeo

CONSTANTS
  Node,       \* network addresses
  Source,     \* the node that starts the repair
  Dest,       \* the node it looks for
  Placement,  \* the placements [Node -> points] to consider
  Range2      \* the square of the radio range

ASSUME NodeAssumption == Source \in Node /\ Dest \in Node /\ Source # Dest
ASSUME RangeAssumption == Range2 \in Nat
ASSUME PlacementAssumption == Placement \subseteq [Node -> Int \X Int]

VARIABLES
  place,    \* where the nodes are
  started,  \* the source has started the repair
  repa,     \* the REPA or REPC on the air, if any
  arrived   \* the destination has received the repair

vars == <<place, started, repa, arrived>>

\* The neighbours of n and their points.
At(n) == [m \in {m \in Node \ {n} : Distance2(place[n], place[m]) <= Range2} |-> place[m]]

\* A packet has the fields rpr_greedy, rpr_dir and path of its header; its
\* "maxima" are not in the header: where this repair has met a local maximum.
greedy_next(n) == greedy_next_node(n, place[n], At(n), place[Dest])

forwardRepa(n, m, next) ==
  [m EXCEPT !.to = next, !.prev = n, !.greedy = TRUE, !.path = <<>>]

\* Where the walk may go from n; back to n itself means nowhere.
Turns(n, m) ==
  hand_node(m.dir, n, place[n], At(n),
            Towards(m.path, place[m.prev], place[Dest]),
            WithPrevious(n, m.prev, place[m.prev], m.path))

\* The REPC that leaves n for next.
WalkOn(n, m, next) ==
  LET path == WithPrevious(n, m.prev, place[m.prev], m.path)
  IN [m EXCEPT !.to = next, !.prev = n, !.greedy = FALSE,
               !.path = IF m.prev = n THEN <<[id |-> n, at |-> place[n]]>> \o path
                                      ELSE path]

\* forwardRepc at n, of a packet m: the possible sets of packets it sends, of
\* which there is one or none.
forwardRepc(n, m) ==
  {{forwardRepa(n, m, g)} : g \in {g \in greedy_next(n) : LeavesMaximum(n, m.prev, m.path, g)}}
  \cup
  {IF h = n THEN {} ELSE {WalkOn(n, m, h)} :
     h \in IF \E g \in greedy_next(n) : ~LeavesMaximum(n, m.prev, m.path, g) THEN Turns(n, m) ELSE {}}

\* From a local maximum the repair goes both ways round: one of them.
BothWays(n, m) ==
  \E dir \in {0, 1} :
    repa' \in forwardRepc(n, [m EXCEPT !.dir = dir, !.maxima = @ \cup {n}])

Init ==
  /\ place \in Placement
  /\ started = FALSE /\ repa = {} /\ arrived = FALSE

\* init_route_maintenance and sendRepa at the source; greedy_next_node asserts
\* that it has a neighbour.
init_route_maintenance ==
  LET m == [to |-> Source, prev |-> Source, greedy |-> TRUE, dir |-> 0,
            path |-> <<>>, maxima |-> {}]
  IN /\ ~started /\ DOMAIN At(Source) # {}
     /\ started' = TRUE
     /\ IF greedy_next(Source) = {Source}
        THEN BothWays(Source, m)
        ELSE \E g \in greedy_next(Source) : repa' = {[m EXCEPT !.to = g]}
     /\ UNCHANGED <<place, arrived>>

\* recvRepa: the destination has it.
ReachDest(m) ==
  /\ m.greedy /\ m.to = Dest
  /\ arrived' = TRUE
  /\ repa' = {}
  /\ UNCHANGED <<place, started>>

\* recvRepa: a relay passes it on, or is a local maximum.
PassOn(m) ==
  /\ m.greedy /\ m.to # Dest
  /\ IF greedy_next(m.to) = {m.to} THEN BothWays(m.to, m)
     ELSE \E g \in greedy_next(m.to) : repa' = {forwardRepa(m.to, m, g)}
  /\ UNCHANGED <<place, started, arrived>>

\* A REPC is walked on by whoever receives it.
Walk(m) ==
  /\ ~m.greedy
  /\ repa' \in forwardRepc(m.to, m)
  /\ UNCHANGED <<place, started, arrived>>

Next ==
  \/ init_route_maintenance
  \/ \E m \in repa : ReachDest(m) \/ PassOn(m) \/ Walk(m)

Spec == Init /\ [][Next]_vars

\* The scheduler of ns-2 delivers every packet that is on the air.
FairSpec == Spec /\ WF_vars(Next)

(***************************************************************************)
(* Properties.                                                             *)
(***************************************************************************)
\* The nodes of a walk, the latest first, with the one it is on its way to.
Visited(m) ==
  <<m.to>> \o (IF OnPath(m.prev, m.path) THEN <<>> ELSE <<m.prev>>)
           \o [i \in DOMAIN m.path |-> m.path[i].id]

\* A walk never enters a node twice, so it has at most one step per node.
WalkSimple ==
  \A m \in repa : ~m.greedy =>
    \A i, j \in DOMAIN Visited(m) : Visited(m)[i] = Visited(m)[j] => i = j

\* Two segments cross in a point inside both: the reference for CrossesEdge.
Side(p, q, r) == Cross(Minus(q, p), Minus(r, p))
ProperlyCross(p, q, r, s) ==
  /\ Side(p, q, r) * Side(p, q, s) < 0
  /\ Side(r, s, p) * Side(r, s, q) < 0

\* valid_location: comparing the two angles and the two half planes tells
\* exactly whether the step from c to x crosses the edge from a to b.
EdgeTestExact ==
  ~started => \A a, b, c, x \in Node :
    Cardinality({a, b, c, x}) = 4 =>
      (CrossesEdge(place[b], place[a], place[c], place[x])
         <=> ProperlyCross(place[a], place[b], place[c], place[x]))

\* Turning clockwise from the direction u, v is met before w; the reference
\* for the hand rules.
MetBefore(u, v, w) ==
  IF (Cross(u, v) < 0) # (Cross(u, w) < 0) THEN Cross(u, v) < 0 ELSE Cross(v, w) < 0

\* The neighbour the left hand rule takes is the first one clockwise from
\* the direction of the target t, the right hand rule takes the last.
HandsAt(n, t) ==
  LET at   == [m \in Node \ {n, t} |-> place[m]]
      u    == Minus(place[t], place[n])
      d(m) == Minus(place[m], place[n])
  IN /\ \A m \in left_hand_node(n, place[n], at, place[t], <<>>) :
          \A o \in DOMAIN at : ~MetBefore(u, d(o), d(m))
     /\ \A m \in right_hand_node(n, place[n], at, place[t], <<>>) :
          \A o \in DOMAIN at : ~MetBefore(u, d(m), d(o))

\* left_hand_node and right_hand_node: the angles they compare are those of a
\* turn to one side, unless the target lies straight below the node.
HandRules ==
  ~started => \A n, t \in Node :
    n # t /\ ~(place[t][1] = place[n][1] /\ place[t][2] < place[n][2])
      => HandsAt(n, t)

\* forwardRepc: the one rule searches "clockwise", the other
\* "counterclockwise", wherever the target lies.
HandRulesEverywhere == ~started => \A n, t \in Node : n # t => HandsAt(n, t)

\* A walk never crosses its own track.
WalkPlanar ==
  \A m \in repa : ~m.greedy =>
    LET track == Visited(m)
    IN \A i, j \in 1..(Len(track) - 1) :
         i < j => ~ProperlyCross(place[track[i]], place[track[i + 1]],
                                 place[track[j]], place[track[j + 1]])

\* forwardRepc, unlike recvRepa, does not look whether the node is the
\* destination: a walk has to have become a REPA before it gets there.
WalkMissesDest == \A m \in repa : ~m.greedy => m.to # Dest

\* In a network without local maxima the repair reaches the destination.
GreedyArrives ==
  (\A n \in Node \ {Dest} : greedy_next(n) # {n}) ~> arrived

\* forwardRepc: a REPC that becomes a REPA is "out of the local maximum": it
\* does not come back to it.
LeftForGood == \A m \in repa : m.greedy => m.to \notin m.maxima
=============================================================================
