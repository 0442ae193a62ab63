----------------------------- MODULE AorgluGeo -----------------------------
(***************************************************************************)
(* The geometry of route repair (src/aorglu/aorglu_loctable.cc): whom a    *)
(* node hands a repair to.  Points are pairs of integers and every test is *)
(* exact; the code computes in doubles, compares angles in thousandths of  *)
(* a radian and leaves the height of a node out of all but its distances.  *)
(*                                                                         *)
(* "at" maps the neighbours whose location is known to their points.  The  *)
(* code scans its neighbour list and keeps the first best one; the order   *)
(* of the list is left open, so an operator returns the set of nodes the   *)
(* scan may end with.  A path is a sequence of records [id, at], the last  *)
(* node added first, as path_add inserts at the head.                      *)
(***************************************************************************)
LOCAL INSTANCE Integers
LOCAL INSTANCE Sequences

Minus(p, q) == <<p[1] - q[1], p[2] - q[2]>>
Dot(u, v)   == u[1] * v[1] + u[2] * v[2]
Cross(u, v) == u[1] * v[2] - u[2] * v[1]
Distance2(p, q) == Dot(Minus(p, q), Minus(p, q))

\* cos(u, v) < cos(u, w): the law of cosines, squared, with its sign kept.
Signed2(x) == IF x < 0 THEN -(x * x) ELSE x * x
CosLess(u, v, w) == Signed2(Dot(u, v)) * Dot(w, w) < Signed2(Dot(u, w)) * Dot(v, v)

(***************************************************************************)
(* Greedy forwarding: the neighbour nearest to the target, if it is nearer *)
(* than the node itself; otherwise the node is a local maximum.            *)
(***************************************************************************)
\* Mutant: the best neighbour, even when it is no nearer than the node.
greedy_next_nodeAlways(self, here, at, target) ==
  {m \in DOMAIN at : \A o \in DOMAIN at :
     Distance2(at[m], target) <= Distance2(at[o], target)}

greedy_next_node(self, here, at, target) ==
  LET nearer == {m \in DOMAIN at : Distance2(at[m], target) < Distance2(here, target)}
  IN IF nearer = {} THEN {self}
     ELSE {m \in nearer : \A o \in nearer :
             Distance2(at[m], target) <= Distance2(at[o], target)}

(***************************************************************************)
(* Which edges a walk may not cross.                                       *)
(***************************************************************************)
\* Where p lies relative to the line along w, by the sign of p's ordinate
\* less the line's at the same abscissa; DBL_MAX is the slope of a vertical.
Above(w, p) ==
  IF w[1] # 0 THEN Cross(w, p) * w[1] ELSE IF p[1] # 0 THEN -p[1] ELSE p[2]

Opposite(a, b) == IF a >= 0 THEN b <= 0 ELSE b > 0

\* The same by the line from a to b, whose slope the code does not guard: on
\* a vertical it is infinite, and times zero no number, which fails any test.
AcrossEdge(b, a, c, x) ==
  LET w == Minus(b, a)   pc == Minus(c, b)   px == Minus(x, b)
  IN IF w[1] # 0 THEN Opposite(Above(w, pc), Above(w, px))
     ELSE /\ px[1] # 0
          /\ IF pc[1] = 0 THEN -(w[2] * px[1]) > 0
             ELSE Opposite(-(w[2] * pc[1]), -(w[2] * px[1]))

\* x lies in the angle a c b, the one side of it being c b.
InAngle(b, a, c, x) ==
  LET w == Minus(b, c)
  IN /\ ~Opposite(Above(w, Minus(a, b)), Above(w, Minus(x, b)))
     /\ ~CosLess(w, Minus(x, c), Minus(a, c))

\* Mutant: the side of the line the two points lie on is not looked at.
CrossesEdgeEitherSide(b, a, c, x) ==
  /\ ~CosLess(Minus(b, c), Minus(x, c), Minus(a, c))
  /\ AcrossEdge(b, a, c, x)

\* The step from c to x crosses the edge between a and b.
CrossesEdge(b, a, c, x) == InAngle(b, a, c, x) /\ AcrossEdge(b, a, c, x)

\* Mutant: the edges of the path may be crossed.
valid_locationCrossing(here, id, x, path) ==
  \A i \in DOMAIN path : path[i].id # id /\ path[i].at # x

\* Mutant: the nodes of the path may be entered again.
valid_locationRevisits(here, id, x, path) ==
  \A i \in 1..(Len(path) - 1) : ~CrossesEdge(path[i].at, path[i + 1].at, here, x)

valid_location(here, id, x, path) ==
  /\ \A i \in DOMAIN path : path[i].id # id /\ path[i].at # x
  /\ \A i \in 1..(Len(path) - 1) : ~CrossesEdge(path[i].at, path[i + 1].at, here, x)

(***************************************************************************)
(* The hand rules.  The left hand rule measures the angle of a neighbour   *)
(* from the direction of the target counterclockwise, the right hand rule  *)
(* clockwise; both take the largest, and of equal angles the nearest.      *)
(***************************************************************************)
\* Mutant: a vertical direction is not told apart.
ReflexNoVertical(u, v) == Cross(u, v) * u[1] < 0

\* The test by which the code takes the angle of v the other way round.
Reflex(u, v) ==
  IF u[1] # 0 THEN Cross(u, v) < 0 ELSE v[1] > 0 \/ (v[1] = 0 /\ v[2] < 0)

\* The left hand angle of v is larger than that of w, seen from u.
LeftLarger(u, v, w) ==
  IF Reflex(u, v) # Reflex(u, w) THEN Reflex(u, v)
  ELSE IF Reflex(u, v) THEN CosLess(u, w, v) ELSE CosLess(u, v, w)

RightLarger(u, v, w) ==
  IF Reflex(u, v) # Reflex(u, w) THEN Reflex(u, w)
  ELSE IF Reflex(u, v) THEN CosLess(u, v, w) ELSE CosLess(u, w, v)

Candidates(here, at, path) ==
  {m \in DOMAIN at : path = <<>> \/ valid_location(here, m, at[m], path)}

left_hand_node(self, here, at, target, path) ==
  LET valid == Candidates(here, at, path)
      u     == Minus(target, here)
      beats(o, m) ==
        LET v == Minus(at[o], here)   w == Minus(at[m], here)
        IN \/ LeftLarger(u, v, w)
           \/ ~LeftLarger(u, w, v) /\ Dot(v, v) < Dot(w, w)
  IN IF valid = {} THEN {self} ELSE {m \in valid : \A o \in valid : ~beats(o, m)}

right_hand_node(self, here, at, target, path) ==
  LET valid == Candidates(here, at, path)
      u     == Minus(target, here)
      beats(o, m) ==
        LET v == Minus(at[o], here)   w == Minus(at[m], here)
        IN \/ RightLarger(u, v, w)
           \/ ~RightLarger(u, w, v) /\ Dot(v, v) < Dot(w, w)
  IN IF valid = {} THEN {self} ELSE {m \in valid : \A o \in valid : ~beats(o, m)}

(***************************************************************************)
(* A repair that walks round a local maximum (forwardRepc): where it has   *)
(* been, and where it goes.                                                *)
(***************************************************************************)
OnPath(id, path) == \E i \in DOMAIN path : path[i].id = id

\* The previous hop, at the point the node has on record for it, joins the
\* path, unless it is on it or is the node itself at the start of a walk.
WithPrevious(self, prev, prevAt, path) ==
  IF OnPath(prev, path) \/ (path = <<>> /\ prev = self) THEN path
  ELSE <<[id |-> prev, at |-> prevAt]>> \o path

\* The direction the search turns from.
Towards(path, prevAt, target) == IF path = <<>> THEN target ELSE prevAt

\* Mutant: a walk never becomes greedy again.
LeavesMaximumNever(self, prev, path, g) == FALSE

\* "We are out of the local maximum if greedy search returns a node that is
\* not the current node and that is not already in our path list."
LeavesMaximum(self, prev, path, g) == g # self /\ ~OnPath(g, path) /\ g # prev

hand_node(dir, self, here, at, target, path) ==
  IF dir = 0 THEN right_hand_node(self, here, at, target, path)
             ELSE left_hand_node(self, here, at, target, path)
=============================================================================
