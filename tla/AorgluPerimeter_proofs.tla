---------------------- MODULE AorgluPerimeter_proofs ----------------------
(***************************************************************************)
(* Proofs about AorgluPerimeter: the walks of a route repair, in a network *)
(* of any size.  A walk is followed by its track, the sequence of the      *)
(* nodes it has been to with their points: every step of it puts one node  *)
(* in front, and what the rules of forwardRepc say of that node is what    *)
(* keeps the track simple and free of crossings.                           *)
(***************************************************************************)
EXTENDS AorgluPerimeter, FiniteSetTheorems, SequenceTheorems, TLAPS

(***************************************************************************)
(* Types.                                                                  *)
(***************************************************************************)
Spot(n) == [id |-> n, at |-> place[n]]
Spots   == {Spot(n) : n \in Node}

Repair ==
  [to: Node, prev: Node, greedy: BOOLEAN, dir: {0, 1}, path: Seq(Spots),
   maxima: SUBSET Node]

TypeOK == place \in [Node -> Int \X Int] /\ repa \subseteq Repair

\* The track of a repair, the node that receives it first.
Track(m) == <<Spot(m.to)>> \o WithPrevious(m.to, m.prev, place[m.prev], m.path)

\* No node twice in a sequence of spots.
Simple(s) == \A i, j \in DOMAIN s : s[i].id = s[j].id => i = j

LEMMA SpotFields ==
  ASSUME NEW s \in Spots
  PROVE  s.id \in Node /\ s.at = place[s.id] /\ s = Spot(s.id)
BY DEF Spots, Spot

LEMMA SpotInSpots ==
  ASSUME NEW n \in Node
  PROVE  Spot(n) \in Spots /\ Spot(n).id = n /\ Spot(n).at = place[n]
BY DEF Spots, Spot

\* A sequence with one more element in front.
LEMMA Cons1 ==
  ASSUME NEW S, NEW e \in S, NEW s \in Seq(S)
  PROVE  /\ <<e>> \o s \in Seq(S)
         /\ Len(<<e>> \o s) = Len(s) + 1
         /\ (<<e>> \o s)[1] = e
         /\ \A i \in 1..Len(s) : (<<e>> \o s)[i + 1] = s[i]
         /\ \A i \in 2..(Len(s) + 1) : (<<e>> \o s)[i] = s[i - 1]
         /\ DOMAIN (<<e>> \o s) = 1..(Len(s) + 1)
<1>1. <<e>> \in Seq(S) /\ Len(<<e>>) = 1 /\ <<e>>[1] = e
  OBVIOUS
<1>2. /\ <<e>> \o s \in Seq(S)
      /\ Len(<<e>> \o s) = 1 + Len(s)
      /\ \A i \in 1..(1 + Len(s)) : (<<e>> \o s)[i] = IF i <= 1 THEN <<e>>[i] ELSE s[i - 1]
  BY <1>1, ConcatProperties
<1>3. Len(s) \in Nat /\ DOMAIN (<<e>> \o s) = 1..Len(<<e>> \o s)
  BY <1>2, LenProperties
<1>4. (<<e>> \o s)[1] = e
  BY <1>1, <1>2, <1>3
<1>5. \A i \in 1..Len(s) : (<<e>> \o s)[i + 1] = s[i]
  <2> TAKE i \in 1..Len(s)
  <2>1. i + 1 \in 1..(1 + Len(s)) /\ ~(i + 1 <= 1) /\ (i + 1) - 1 = i
    BY <1>3
  <2> QED BY <1>2, <2>1
<1> QED BY <1>2, <1>3, <1>4, <1>5

\* An id in front of a sequence that it is not in.
LEMMA ConsSimple ==
  ASSUME NEW n \in Node, NEW s \in Seq(Spots), Simple(s),
         \A i \in DOMAIN s : s[i].id # n
  PROVE  Simple(<<Spot(n)>> \o s)
<1> DEFINE t == <<Spot(n)>> \o s
<1>1. /\ Len(s) \in Nat /\ DOMAIN s = 1..Len(s)
      /\ t[1] = Spot(n) /\ DOMAIN t = 1..(Len(s) + 1)
      /\ \A i \in 2..(Len(s) + 1) : t[i] = s[i - 1]
  BY SpotInSpots, Cons1, LenProperties
<1> HIDE DEF t
<1> SUFFICES ASSUME NEW i \in DOMAIN t, NEW j \in DOMAIN t, t[i].id = t[j].id
             PROVE  i = j
  BY DEF Simple, t
<1>2. CASE i = 1 /\ j = 1
  BY <1>2
<1>3. CASE i # 1 /\ j = 1
  <2>1. i \in 2..(Len(s) + 1) /\ i - 1 \in DOMAIN s
    BY <1>1, <1>3
  <2> QED BY <1>1, <1>3, <2>1, SpotInSpots
<1>4. CASE i = 1 /\ j # 1
  <2>1. j \in 2..(Len(s) + 1) /\ j - 1 \in DOMAIN s
    BY <1>1, <1>4
  <2> QED BY <1>1, <1>4, <2>1, SpotInSpots
<1>5. CASE i # 1 /\ j # 1
  <2>1. /\ i \in 2..(Len(s) + 1) /\ i - 1 \in DOMAIN s
        /\ j \in 2..(Len(s) + 1) /\ j - 1 \in DOMAIN s
    BY <1>1, <1>5
  <2>2. s[i - 1].id = s[j - 1].id
    BY <1>1, <2>1
  <2>3. i - 1 = j - 1
    BY <2>1, <2>2 DEF Simple
  <2> QED BY <1>1, <2>1, <2>3
<1> QED BY <1>2, <1>3, <1>4, <1>5

(***************************************************************************)
(* What the operators return.                                              *)
(***************************************************************************)
LEMMA Neighbours ==
  ASSUME NEW n \in Node
  PROVE  DOMAIN At(n) \subseteq Node \ {n}
BY DEF At

\* The path with the previous hop on it.
LEMMA WithPreviousType ==
  ASSUME NEW m \in Repair
  PROVE  WithPrevious(m.to, m.prev, place[m.prev], m.path) \in Seq(Spots)
<1>1. m.prev \in Node /\ m.path \in Seq(Spots)
  BY DEF Repair
<1>2. <<Spot(m.prev)>> \o m.path \in Seq(Spots)
  BY <1>1, SpotInSpots, Cons1
<1> QED BY <1>1, <1>2 DEF WithPrevious, Spot

LEMMA TrackType ==
  ASSUME NEW m \in Repair
  PROVE  Track(m) \in Seq(Spots)
<1>1. m.to \in Node
  BY DEF Repair
<1> QED BY <1>1, WithPreviousType, SpotInSpots, Cons1 DEF Track

\* A repair that starts over as a REPA: its track is at most the last step.
LEMMA FreshTrack ==
  ASSUME NEW m \in Repair, m.path = <<>>
  PROVE  Len(Track(m)) \in 1..2 /\ Simple(Track(m))
<1>1. /\ m.to \in Node /\ m.prev \in Node
      /\ Spot(m.to) \in Spots /\ Spot(m.to).id = m.to
      /\ Spot(m.prev) \in Spots /\ Spot(m.prev).id = m.prev
  BY SpotInSpots DEF Repair
<1>2. ~OnPath(m.prev, <<>>)
  BY DEF OnPath
<1>3. <<>> \in Seq(Spots) /\ DOMAIN <<>> = {} /\ Len(<<>>) = 0 /\ Simple(<<>>)
  <2>1. <<>> \in Seq(Spots) /\ DOMAIN <<>> = {} /\ Len(<<>>) = 0
    OBVIOUS
  <2> QED BY <2>1 DEF Simple
<1>4. CASE m.prev = m.to
  <2>1. Track(m) = <<Spot(m.to)>> \o <<>>
    BY <1>4 DEF Track, WithPrevious
  <2>2. Len(Track(m)) = 1
    BY <1>1, <1>3, <2>1, Cons1
  <2>3. \A i \in DOMAIN <<>> : <<>>[i].id # m.to
    BY <1>3
  <2>4. Simple(Track(m))
    BY <1>1, <1>3, <2>1, <2>3, ConsSimple
  <2> QED BY <2>2, <2>4
<1>5. CASE m.prev # m.to
  <2> DEFINE s == <<Spot(m.prev)>> \o <<>>
  <2>1. Track(m) = <<Spot(m.to)>> \o s
    BY <1>2, <1>5 DEF Track, WithPrevious, Spot
  <2>2. Simple(s)
    BY <1>1, <1>3, ConsSimple
  <2>3. s \in Seq(Spots) /\ Len(s) = 1 /\ DOMAIN s = 1..1 /\ s[1] = Spot(m.prev)
    BY <1>1, <1>3, Cons1
  <2> HIDE DEF s
  <2>4. \A i \in DOMAIN s : s[i].id # m.to
    BY <1>1, <1>5, <2>3
  <2>5. Len(Track(m)) = 2
    BY <1>1, <2>1, <2>3, Cons1
  <2> QED BY <1>1, <2>1, <2>2, <2>3, <2>4, <2>5, ConsSimple
<1> QED BY <1>4, <1>5

\* The greedy search returns the node itself or neighbours of it.
LEMMA GreedyNode ==
  ASSUME NEW n \in Node
  PROVE  greedy_next(n) = {n} \/ greedy_next(n) \subseteq Node \ {n}
BY Neighbours DEF greedy_next, greedy_next_node

LEMMA HandNode ==
  ASSUME NEW n \in Node, NEW dir, NEW target, NEW path,
         NEW h \in hand_node(dir, n, place[n], At(n), target, path), h # n
  PROVE  h \in Candidates(place[n], At(n), path)
BY DEF hand_node, left_hand_node, right_hand_node

\* What a step of a walk from n is allowed to be.
Allowed(n, h, path) ==
  /\ h \in Node \ {n}
  /\ path # <<>> => valid_location(place[n], h, place[h], path)

\* Sent(m, w): w is what forwardRepc makes of m, a REPA or a walk.
Sent(m, w) ==
  \/ /\ w.greedy /\ w.path = <<>> /\ w.prev = m.to
     /\ w.to \in greedy_next(m.to)
     /\ w.to # m.to
  \/ /\ ~w.greedy
     /\ w.to \in DOMAIN At(m.to)
     /\ \E g \in greedy_next(m.to) : ~LeavesMaximum(m.to, m.prev, m.path, g)
     /\ Allowed(m.to, w.to, WithPrevious(m.to, m.prev, place[m.prev], m.path))
     /\ w.prev = m.to
     /\ w.path = IF m.prev = m.to
                 THEN <<Spot(m.to)>> \o WithPrevious(m.to, m.prev, place[m.prev], m.path)
                 ELSE WithPrevious(m.to, m.prev, place[m.prev], m.path)

LEMMA ForwardRepcSends ==
  ASSUME NEW m \in Repair, NEW out \in forwardRepc(m.to, m), NEW w \in out
  PROVE  w \in Repair /\ Sent(m, w)
<1> DEFINE n == m.to
           path == WithPrevious(n, m.prev, place[m.prev], m.path)
<1>1. n \in Node /\ m.prev \in Node /\ path \in Seq(Spots)
  BY WithPreviousType DEF Repair
<1>2. ASSUME NEW g \in greedy_next(n), LeavesMaximum(n, m.prev, m.path, g),
             w = forwardRepa(n, m, g)
      PROVE  w \in Repair /\ Sent(m, w)
  <2>1. g # n /\ g \in Node
    BY <1>1, <1>2, GreedyNode DEF LeavesMaximum
  <2>2. w = [m EXCEPT !.to = g, !.prev = n, !.greedy = TRUE, !.path = <<>>]
    BY <1>2 DEF forwardRepa
  <2>3. <<>> \in Seq(Spots)
    BY EmptySeq
  <2>4. w \in Repair /\ w.to = g /\ w.prev = n /\ w.greedy = TRUE /\ w.path = <<>>
    BY <1>1, <2>1, <2>2, <2>3 DEF Repair
  <2> QED BY <1>2, <2>1, <2>4 DEF Sent
<1>3. ASSUME \E g \in greedy_next(n) : ~LeavesMaximum(n, m.prev, m.path, g),
             NEW h \in Turns(n, m), h # n, w = WalkOn(n, m, h)
      PROVE  w \in Repair /\ Sent(m, w)
  <2>1. h \in Candidates(place[n], At(n), path)
    BY <1>1, <1>3, HandNode DEF Turns
  <2>2. h \in DOMAIN At(n) /\ At(n)[h] = place[h] /\ h \in Node \ {n}
    BY <1>1, <2>1, Neighbours DEF Candidates, At
  <2>3. Allowed(n, h, path)
    BY <2>1, <2>2 DEF Candidates, Allowed
  <2> DEFINE q == IF m.prev = n THEN <<Spot(n)>> \o path ELSE path
  <2>4. q \in Seq(Spots)
    BY <1>1, SpotInSpots, Cons1
  <2>5. w = [m EXCEPT !.to = h, !.prev = n, !.greedy = FALSE, !.path = q]
    BY <1>3 DEF WalkOn, Spot
  <2> HIDE DEF q
  <2>6. w \in Repair /\ w.to = h /\ w.prev = n /\ w.greedy = FALSE /\ w.path = q
    BY <1>1, <2>2, <2>4, <2>5 DEF Repair
  <2> QED BY <1>3, <2>2, <2>3, <2>6 DEF Sent, q
<1> HIDE DEF n, path
<1>4. CASE \E g \in greedy_next(n) : LeavesMaximum(n, m.prev, m.path, g) /\ out = {forwardRepa(n, m, g)}
  BY <1>2, <1>4
<1>5. CASE /\ \E g \in greedy_next(n) : ~LeavesMaximum(n, m.prev, m.path, g)
           /\ \E h \in Turns(n, m) : out = IF h = n THEN {} ELSE {WalkOn(n, m, h)}
  BY <1>3, <1>5
<1> QED BY <1>4, <1>5 DEF forwardRepc, n

(***************************************************************************)
(* The track grows by a node at its head, and is forgotten when the walk   *)
(* becomes a REPA again.                                                   *)
(***************************************************************************)
LEMMA TrackGrows ==
  ASSUME NEW m \in Repair, NEW w \in Repair, Simple(Track(m)), Sent(m, w), ~w.greedy
  PROVE  Track(w) = <<Spot(w.to)>> \o Track(m)
<1> DEFINE n == m.to
           path == WithPrevious(n, m.prev, place[m.prev], m.path)
<1>1. n \in Node /\ m.prev \in Node /\ m.path \in Seq(Spots) /\ path \in Seq(Spots)
  BY WithPreviousType DEF Repair
<1>2. /\ w.to # n /\ w.prev = n
      /\ w.path = IF m.prev = n THEN <<Spot(n)>> \o path ELSE path
  BY DEF Sent, Allowed
<1>3. Track(m) = <<Spot(n)>> \o path
  BY DEF Track
<1>4. Track(w) = <<Spot(w.to)>> \o WithPrevious(w.to, n, place[n], w.path)
  BY <1>2 DEF Track
<1> HIDE DEF path, n
<1>5. /\ Len(path) \in Nat /\ DOMAIN path = 1..Len(path)
      /\ Track(m)[1] = Spot(n) /\ DOMAIN Track(m) = 1..(Len(path) + 1)
      /\ \A i \in 1..Len(path) : Track(m)[i + 1] = path[i]
  BY <1>1, <1>3, SpotInSpots, Cons1, LenProperties
<1>6. CASE m.prev = n
  <2>1. w.path = Track(m)
    BY <1>2, <1>3, <1>6
  <2>2. OnPath(n, Track(m))
    BY <1>1, <1>5, SpotInSpots DEF OnPath
  <2> QED BY <1>4, <2>1, <2>2 DEF WithPrevious
<1>7. CASE m.prev # n
  <2>1. w.path = path
    BY <1>2, <1>7
  <2>2. path # <<>>
    <3>1. CASE OnPath(m.prev, m.path)
      <4>1. m.path # <<>>
        BY <3>1 DEF OnPath
      <4> QED BY <3>1, <4>1 DEF path, WithPrevious
    <3>2. CASE ~OnPath(m.prev, m.path)
      <4>1. path = <<Spot(m.prev)>> \o m.path
        BY <1>7, <3>2 DEF path, WithPrevious, Spot, n
      <4>2. Len(path) = Len(m.path) + 1 /\ Len(m.path) \in Nat
        BY <1>1, <4>1, SpotInSpots, Cons1, LenProperties
      <4> QED BY <4>2
    <3> QED BY <3>1, <3>2
  <2>3. ~OnPath(n, path)
    <3> SUFFICES ASSUME NEW i \in DOMAIN path, path[i].id = n PROVE FALSE
      BY DEF OnPath
    <3>1. i + 1 \in DOMAIN Track(m) /\ 1 \in DOMAIN Track(m) /\ Track(m)[i + 1] = path[i]
      BY <1>5
    <3>2. i + 1 = 1
      BY <1>1, <1>5, <3>1, SpotInSpots DEF Simple
    <3> QED BY <1>5, <3>2
  <2>4. WithPrevious(w.to, n, place[n], path) = <<Spot(n)>> \o path
    BY <2>2, <2>3 DEF WithPrevious, Spot
  <2> QED BY <1>3, <1>4, <2>1, <2>4
<1> QED BY <1>6, <1>7

\* The node a walk goes to is not on its track.
LEMMA TrackStaysSimple ==
  ASSUME NEW m \in Repair, NEW w \in Repair, Simple(Track(m)), Sent(m, w)
  PROVE  Simple(Track(w))
<1>1. CASE w.greedy
  <2>1. w.path = <<>> /\ w.prev # w.to
    BY <1>1 DEF Sent
  <2> QED BY <2>1, FreshTrack
<1>2. CASE ~w.greedy
  <2> DEFINE n == m.to
             path == WithPrevious(n, m.prev, place[m.prev], m.path)
  <2>1. n \in Node /\ w.to \in Node /\ path \in Seq(Spots)
    BY WithPreviousType DEF Repair
  <2>2. w.to # n /\ (path # <<>> => valid_location(place[n], w.to, place[w.to], path))
    BY <1>2 DEF Sent, Allowed
  <2>3. Track(m) = <<Spot(n)>> \o path
    BY DEF Track
  <2> HIDE DEF n, path
  <2>4. /\ Len(path) \in Nat /\ DOMAIN path = 1..Len(path)
        /\ Track(m) \in Seq(Spots)
        /\ Track(m)[1] = Spot(n) /\ DOMAIN Track(m) = 1..(Len(path) + 1)
        /\ \A i \in 2..(Len(path) + 1) : Track(m)[i] = path[i - 1]
    BY <2>1, <2>3, SpotInSpots, Cons1, LenProperties
  <2>5. ASSUME NEW i \in DOMAIN Track(m)
        PROVE  Track(m)[i].id # w.to
    <3>1. CASE i = 1
      BY <2>1, <2>2, <2>4, <3>1, SpotInSpots
    <3>2. CASE i # 1
      <4>1. i \in 2..(Len(path) + 1) /\ i - 1 \in DOMAIN path
        BY <2>4, <3>2
      <4>2. path # <<>>
        BY <4>1
      <4>3. path[i - 1].id # w.to
        BY <2>2, <4>1, <4>2 DEF valid_location
      <4> QED BY <2>4, <4>1, <4>3
    <3> QED BY <3>1, <3>2
  <2>6. Simple(<<Spot(w.to)>> \o Track(m))
    BY <2>1, <2>4, <2>5, ConsSimple
  <2> QED BY <1>2, <2>6, TrackGrows
<1> QED BY <1>1, <1>2

(***************************************************************************)
(* A walk is simple.                                                       *)
(***************************************************************************)
SimpleInv == \A m \in repa : m.prev # m.to /\ Simple(Track(m))

\* The repair the source starts with.
Started == [to |-> Source, prev |-> Source, greedy |-> TRUE, dir |-> 0,
            path |-> <<>>, maxima |-> {}]

LEMMA StartedType ==
  Started \in Repair /\ Started.path = <<>> /\ Started.prev = Source /\ Started.to = Source
BY NodeAssumption, EmptySeq DEF Started, Repair

\* A local maximum sends its packet on under a direction of its own.
LEMMA BothWaysSends ==
  ASSUME NEW m \in Repair, BothWays(m.to, m), NEW w \in repa'
  PROVE  \E k \in Repair :
           /\ k.to = m.to /\ k.prev = m.prev /\ k.path = m.path
           /\ w \in Repair /\ Sent(k, w)
<1>1. PICK dir \in {0, 1} :
        repa' \in forwardRepc(m.to, [m EXCEPT !.dir = dir, !.maxima = @ \cup {m.to}])
  BY DEF BothWays
<1> DEFINE k == [m EXCEPT !.dir = dir, !.maxima = @ \cup {m.to}]
<1>2. k \in Repair /\ k.to = m.to /\ k.prev = m.prev /\ k.path = m.path
  BY DEF Repair
<1> HIDE DEF k
<1>3. repa' \in forwardRepc(k.to, k)
  BY <1>1, <1>2 DEF k
<1>4. w \in Repair /\ Sent(k, w)
  BY <1>2, <1>3, ForwardRepcSends
<1> QED BY <1>2, <1>4

\* Where the packets of the next state come from: the source, a REPA passed
\* on, or forwardRepc.
LEMMA StepSends ==
  ASSUME TypeOK, Next, NEW w \in repa'
  PROVE  /\ w \in Repair
         /\ \/ /\ w.greedy /\ w.path = <<>> /\ w.prev # w.to
               /\ \/ w.prev = Source
                  \/ \E m \in repa : w.prev = m.to /\ m.to # Dest
            \/ \E k \in Repair :
                 /\ \/ k.to = Source /\ k.prev = Source /\ k.path = <<>> /\ DOMAIN At(Source) # {}
                    \/ \E m \in repa :
                         /\ k.to = m.to /\ k.prev = m.prev /\ k.path = m.path
                         /\ m.greedy => m.to # Dest
                 /\ Sent(k, w)
<1>1. ASSUME init_route_maintenance
      PROVE  w \in Repair /\ \/ w.greedy /\ w.path = <<>> /\ w.prev # w.to /\ w.prev = Source
                             \/ \E k \in Repair :
                                  /\ k.to = Source /\ k.prev = Source /\ k.path = <<>>
                                  /\ DOMAIN At(Source) # {}
                                  /\ Sent(k, w)
  <2>1. CASE BothWays(Source, Started)
    BY <1>1, <2>1, StartedType, BothWaysSends DEF init_route_maintenance
  <2>2. ASSUME greedy_next(Source) # {Source}, NEW g \in greedy_next(Source),
               repa' = {[Started EXCEPT !.to = g]}
        PROVE  w \in Repair /\ w.greedy /\ w.path = <<>> /\ w.prev # w.to /\ w.prev = Source
    <3>1. g \in Node \ {Source}
      BY <2>2, NodeAssumption, GreedyNode
    <3>2. w = [Started EXCEPT !.to = g]
      BY <2>2
    <3> QED BY <3>1, <3>2, StartedType DEF Started, Repair
  <2> QED BY <1>1, <2>1, <2>2 DEF init_route_maintenance, Started
<1>2. ASSUME NEW m \in repa, ReachDest(m) PROVE FALSE
  BY <1>2 DEF ReachDest
<1>3. ASSUME NEW m \in repa, PassOn(m)
      PROVE  w \in Repair /\ \/ w.greedy /\ w.path = <<>> /\ w.prev # w.to /\ w.prev = m.to
                             \/ \E k \in Repair :
                                  /\ k.to = m.to /\ k.prev = m.prev /\ k.path = m.path
                                  /\ Sent(k, w)
  <2>0. m \in Repair /\ m.to \in Node
    BY DEF TypeOK, Repair
  <2>1. CASE BothWays(m.to, m)
    BY <2>0, <2>1, BothWaysSends
  <2>2. ASSUME greedy_next(m.to) # {m.to}, NEW g \in greedy_next(m.to),
               repa' = {forwardRepa(m.to, m, g)}
        PROVE  w \in Repair /\ w.greedy /\ w.path = <<>> /\ w.prev # w.to /\ w.prev = m.to
    <3>1. g \in Node \ {m.to}
      BY <2>0, <2>2, GreedyNode
    <3>2. w = [m EXCEPT !.to = g, !.prev = m.to, !.greedy = TRUE, !.path = <<>>]
      BY <2>2 DEF forwardRepa
    <3>3. <<>> \in Seq(Spots)
      BY EmptySeq
    <3> QED BY <2>0, <3>1, <3>2, <3>3 DEF Repair
  <2> QED BY <1>3, <2>1, <2>2 DEF PassOn
<1>4. ASSUME NEW m \in repa, Walk(m)
      PROVE  w \in Repair /\ Sent(m, w)
  <2>1. m \in Repair
    BY DEF TypeOK
  <2> QED BY <1>4, <2>1, ForwardRepcSends DEF Walk
<1>5. \A m \in repa : PassOn(m) => m.to # Dest
  BY DEF PassOn
<1>6. \A m \in repa : Walk(m) => ~m.greedy
  BY DEF Walk
<1>7. CASE init_route_maintenance
  BY <1>1, <1>7
<1>8. ASSUME NEW m \in repa, PassOn(m)
      PROVE  /\ w \in Repair
             /\ \/ w.greedy /\ w.path = <<>> /\ w.prev # w.to /\ w.prev = m.to /\ m.to # Dest
                \/ \E k \in Repair :
                     /\ k.to = m.to /\ k.prev = m.prev /\ k.path = m.path
                     /\ m.to # Dest /\ Sent(k, w)
  BY <1>3, <1>5, <1>8
<1>9. ASSUME NEW m \in repa, Walk(m)
      PROVE  w \in Repair /\ m \in Repair /\ ~m.greedy /\ Sent(m, w)
  BY <1>4, <1>6, <1>9 DEF TypeOK
<1> QED BY <1>2, <1>7, <1>8, <1>9 DEF Next

LEMMA TypeStep == TypeOK /\ [Next]_vars => TypeOK'
<1> SUFFICES ASSUME TypeOK, [Next]_vars PROVE TypeOK'
  OBVIOUS
<1>1. CASE UNCHANGED vars
  BY <1>1 DEF TypeOK, Repair, Spots, Spot, vars
<1>2. CASE Next
  <2>1. place' = place
    BY <1>2 DEF Next, init_route_maintenance, ReachDest, PassOn, Walk
  <2>2. Repair' = Repair
    BY <2>1 DEF Repair, Spots, Spot
  <2>3. \A w \in repa' : w \in Repair
    BY <1>2, StepSends
  <2> QED BY <2>1, <2>2, <2>3 DEF TypeOK
<1> QED BY <1>1, <1>2

\* Every repair on the air has the fields of its packet, and a path of nodes
\* at the points where they are.
THEOREM TypeCorrect == Spec => []TypeOK
<1>1. Init => TypeOK
  BY PlacementAssumption DEF Init, TypeOK
<1> QED BY <1>1, TypeStep, PTL DEF Spec

LEMMA PlaceStands == TypeOK /\ [Next]_vars => place' = place
BY DEF Next, init_route_maintenance, ReachDest, PassOn, Walk, vars

\* The track is the same before and after a step in which nothing moves.
LEMMA TrackStands ==
  ASSUME place' = place, NEW m
  PROVE  Track(m)' = Track(m)
BY DEF Track, Spot, WithPrevious

LEMMA SimpleStep == TypeOK /\ SimpleInv /\ [Next]_vars => SimpleInv'
<1> SUFFICES ASSUME TypeOK, SimpleInv, [Next]_vars, NEW w \in repa'
             PROVE  w.prev # w.to /\ Simple(Track(w)')
  BY DEF SimpleInv
<1>1. Track(w)' = Track(w)
  BY PlaceStands, TrackStands
<1>2. CASE UNCHANGED vars
  BY <1>1, <1>2 DEF SimpleInv, vars
<1>3. CASE Next
  <2>1. w \in Repair
    BY <1>3, StepSends
  <2>0. w.prev # w.to
    BY <1>3, StepSends DEF Sent, Allowed
  <2>2. CASE w.greedy /\ w.path = <<>> /\ w.prev # w.to
    BY <1>1, <2>1, <2>2, FreshTrack
  <2>3. ASSUME NEW k \in Repair, Sent(k, w), k.path = <<>>
        PROVE  Simple(Track(w))
    BY <2>1, <2>3, FreshTrack, TrackStaysSimple
  <2>4. ASSUME NEW k \in Repair, Sent(k, w), NEW m \in repa,
               k.to = m.to, k.prev = m.prev, k.path = m.path
        PROVE  Simple(Track(w))
    <3>1. Track(k) = Track(m)
      BY <2>4 DEF Track
    <3>2. Simple(Track(k))
      BY <3>1 DEF SimpleInv
    <3> QED BY <2>1, <2>4, <3>2, TrackStaysSimple
  <2> QED BY <1>1, <1>3, <2>0, <2>2, <2>3, <2>4, StepSends
<1> QED BY <1>2, <1>3

\* The nodes the property lists are those of the track.
LEMMA VisitedIsTrack ==
  ASSUME NEW m \in Repair, m.prev # m.to
  PROVE  /\ DOMAIN Visited(m) = DOMAIN Track(m)
         /\ Len(Visited(m)) = Len(Track(m))
         /\ \A i \in DOMAIN Track(m) : Visited(m)[i] = Track(m)[i].id
<1> DEFINE ids  == [i \in DOMAIN m.path |-> m.path[i].id]
           mid  == IF OnPath(m.prev, m.path) THEN <<>> ELSE <<m.prev>>
           path == WithPrevious(m.to, m.prev, place[m.prev], m.path)
<1>1. m.to \in Node /\ m.prev \in Node /\ m.path \in Seq(Spots) /\ path \in Seq(Spots)
  BY WithPreviousType DEF Repair
<1>2. /\ Len(m.path) \in Nat /\ DOMAIN m.path = 1..Len(m.path)
      /\ \A i \in DOMAIN m.path : m.path[i].id \in Node
  BY <1>1, LenProperties, ElementOfSeq, SpotFields
<1>3. ids \in Seq(Node) /\ Len(ids) = Len(m.path)
  <2>1. ids \in [1..Len(m.path) -> Node]
    BY <1>2
  <2> QED BY <1>2, <2>1
<1>4. mid \in Seq(Node)
  BY <1>1
<1>5. <<m.to>> \in Seq(Node) /\ Len(<<m.to>>) = 1 /\ <<m.to>>[1] = m.to
  BY <1>1
<1>6. Visited(m) = (<<m.to>> \o mid) \o ids
  BY DEF Visited
<1>7. Visited(m) = <<m.to>> \o (mid \o ids)
  <2> HIDE DEF ids, mid
  <2> QED BY <1>3, <1>4, <1>5, <1>6, ConcatAssociative
<1>8. /\ mid \o ids \in Seq(Node)
      /\ Len(mid \o ids) = Len(path)
      /\ \A i \in 1..Len(path) : (mid \o ids)[i] = path[i].id
  <2>1. CASE OnPath(m.prev, m.path)
    <3>1. path = m.path /\ mid = <<>>
      BY <2>1 DEF WithPrevious
    <3>2. mid \o ids = ids
      BY <1>3, <3>1, ConcatEmptySeq
    <3> QED BY <1>2, <1>3, <3>1, <3>2
  <2>2. CASE ~OnPath(m.prev, m.path)
    <3>1. path = <<Spot(m.prev)>> \o m.path /\ mid = <<m.prev>>
      BY <2>2 DEF WithPrevious, Spot
    <3> HIDE DEF path, mid, ids
    <3>2. /\ Len(path) = Len(m.path) + 1 /\ path[1] = Spot(m.prev)
          /\ \A i \in 2..(Len(m.path) + 1) : path[i] = m.path[i - 1]
      BY <1>1, <3>1, SpotInSpots, Cons1
    <3>3. /\ mid \o ids \in Seq(Node)
          /\ Len(mid \o ids) = Len(ids) + 1 /\ (mid \o ids)[1] = m.prev
          /\ \A i \in 2..(Len(ids) + 1) : (mid \o ids)[i] = ids[i - 1]
      BY <1>1, <1>3, <3>1, Cons1
    <3>4. ASSUME NEW i \in 1..Len(path)
          PROVE  (mid \o ids)[i] = path[i].id
      <4>1. CASE i = 1
        BY <1>1, <3>2, <3>3, <4>1, SpotInSpots
      <4>2. CASE i # 1
        <5>1. i \in 2..(Len(m.path) + 1) /\ i - 1 \in DOMAIN m.path
          BY <1>2, <3>2, <4>2
        <5> QED BY <1>3, <3>2, <3>3, <5>1 DEF ids
      <4> QED BY <4>1, <4>2
    <3> QED BY <1>3, <3>2, <3>3, <3>4
  <2> QED BY <2>1, <2>2
<1>9. Track(m) = <<Spot(m.to)>> \o path
  BY DEF Track
<1> HIDE DEF path, mid, ids
<1> DEFINE rest == mid \o ids
<1> HIDE DEF rest
<1>10. /\ Len(Visited(m)) = Len(path) + 1 /\ DOMAIN Visited(m) = 1..(Len(path) + 1)
       /\ Visited(m)[1] = m.to
       /\ \A i \in 2..(Len(path) + 1) : Visited(m)[i] = rest[i - 1]
  BY <1>1, <1>7, <1>8, Cons1 DEF rest
<1>11. /\ Len(Track(m)) = Len(path) + 1 /\ DOMAIN Track(m) = 1..(Len(path) + 1)
       /\ Track(m)[1] = Spot(m.to)
       /\ \A i \in 2..(Len(path) + 1) : Track(m)[i] = path[i - 1]
  BY <1>1, <1>9, SpotInSpots, Cons1
<1>12. ASSUME NEW i \in DOMAIN Track(m)
       PROVE  Visited(m)[i] = Track(m)[i].id
  <2>1. CASE i = 1
    BY <1>1, <1>10, <1>11, <2>1, SpotInSpots
  <2>2. CASE i # 1
    <3>1. Len(path) \in Nat
      BY <1>1, LenProperties
    <3>2. i \in 2..(Len(path) + 1) /\ i - 1 \in 1..Len(path)
      BY <1>11, <2>2, <3>1
    <3> QED BY <1>8, <1>10, <1>11, <3>2 DEF rest
  <2> QED BY <2>1, <2>2
<1> QED BY <1>10, <1>11, <1>12

\* forwardRepc takes a walk to no node that is on its path, so that a walk
\* enters a node at most once and ends: in a network of any number of nodes,
\* however they are placed.
THEOREM WalksAreSimple == Spec => []WalkSimple
<1>1. Init => SimpleInv
  BY DEF Init, SimpleInv
<1>2. TypeOK /\ SimpleInv => WalkSimple
  <2> SUFFICES ASSUME TypeOK, SimpleInv, NEW m \in repa,
                      NEW i \in DOMAIN Visited(m), NEW j \in DOMAIN Visited(m),
                      Visited(m)[i] = Visited(m)[j]
               PROVE  i = j
    BY DEF WalkSimple
  <2>1. m \in Repair /\ m.prev # m.to /\ Simple(Track(m))
    BY DEF TypeOK, SimpleInv
  <2>2. i \in DOMAIN Track(m) /\ j \in DOMAIN Track(m) /\ Track(m)[i].id = Track(m)[j].id
    BY <2>1, VisitedIsTrack
  <2> QED BY <2>1, <2>2 DEF Simple
<1> QED BY <1>1, <1>2, SimpleStep, TypeCorrect, PTL DEF Spec

(***************************************************************************)
(* How long a walk may get.                                                *)
(***************************************************************************)
\* A walk has as many nodes as the network at most, so that a repair that
\* neither becomes a REPA again nor finds a dead end does not exist.
THEOREM WalksAreShort ==
  ASSUME IsFiniteSet(Node)
  PROVE  Spec => [](\A m \in repa : Len(Track(m)) <= Cardinality(Node))
<1>1. Init => SimpleInv
  BY DEF Init, SimpleInv
<1>2. TypeOK /\ SimpleInv => \A m \in repa : Len(Track(m)) <= Cardinality(Node)
  <2> SUFFICES ASSUME TypeOK, SimpleInv, NEW m \in repa
               PROVE  Len(Track(m)) <= Cardinality(Node)
    OBVIOUS
  <2> DEFINE s == Track(m)
             f == [i \in 1..Len(s) |-> s[i].id]
  <2>1. s \in Seq(Spots) /\ Simple(s)
    BY TrackType DEF TypeOK, SimpleInv
  <2> HIDE DEF s
  <2>2. Len(s) \in Nat /\ DOMAIN s = 1..Len(s)
    BY <2>1, LenProperties
  <2>3. f \in [1..Len(s) -> Node]
    BY <2>1, <2>2, ElementOfSeq, SpotFields
  <2>4. \A i, j \in 1..Len(s) : f[i] = f[j] => i = j
    BY <2>1, <2>2 DEF Simple
  <2> HIDE DEF f
  <2>5. f \in Injection(1..Len(s), Node)
    BY <2>3, <2>4 DEF Injection, IsInjective
  <2>6. Cardinality(1..Len(s)) <= Cardinality(Node)
    BY <2>5, FS_Injection
  <2>7. Cardinality(1..Len(s)) = IF 1 > Len(s) THEN 0 ELSE Len(s) - 1 + 1
    <3>1. 1 \in Int /\ Len(s) \in Int
      BY <2>2
    <3> QED BY <3>1, FS_Interval
  <2> QED BY <2>2, <2>6, <2>7 DEF s
<1> QED BY <1>1, <1>2, SimpleStep, TypeCorrect, PTL DEF Spec

(***************************************************************************)
(* A walk is planar, if the test of its edges is.                          *)
(***************************************************************************)
\* What EdgeTestExact says of the placement.
Exact ==
  \A a, b, c, x \in Node :
    Cardinality({a, b, c, x}) = 4 =>
      (CrossesEdge(place[b], place[a], place[c], place[x])
         <=> ProperlyCross(place[a], place[b], place[c], place[x]))

Planar(s) ==
  \A i, j \in 1..(Len(s) - 1) :
    i < j => ~ProperlyCross(s[i].at, s[i + 1].at, s[j].at, s[j + 1].at)

PlanarInv == Exact /\ \A m \in repa : Planar(Track(m))

LEMMA SideInt ==
  ASSUME NEW p \in Int \X Int, NEW q \in Int \X Int, NEW r \in Int \X Int
  PROVE  /\ Side(p, q, r) \in Int
         /\ Side(p, q, r) = -Side(q, p, r)
         /\ Side(p, q, q) = 0
         /\ Side(p, q, p) = 0
<1>1. PICK p1 \in Int, p2 \in Int : p = <<p1, p2>>
  OBVIOUS
<1>2. PICK q1 \in Int, q2 \in Int : q = <<q1, q2>>
  OBVIOUS
<1>3. PICK r1 \in Int, r2 \in Int : r = <<r1, r2>>
  OBVIOUS
<1>4. Side(p, q, r) = (q1 - p1) * (r2 - p2) - (q2 - p2) * (r1 - p1)
  BY <1>1, <1>2, <1>3 DEF Side, Cross, Minus
<1>5. Side(q, p, r) = (p1 - q1) * (r2 - q2) - (p2 - q2) * (r1 - q1)
  BY <1>1, <1>2, <1>3 DEF Side, Cross, Minus
<1>6. Side(p, q, q) = (q1 - p1) * (q2 - p2) - (q2 - p2) * (q1 - p1)
  BY <1>1, <1>2 DEF Side, Cross, Minus
<1>7. Side(p, q, p) = (q1 - p1) * (p2 - p2) - (q2 - p2) * (p1 - p1)
  BY <1>1, <1>2 DEF Side, Cross, Minus
<1> QED BY <1>4, <1>5, <1>6, <1>7

\* Segments that share an end do not cross.
LEMMA SharedEnd ==
  ASSUME NEW p \in Int \X Int, NEW q \in Int \X Int, NEW s \in Int \X Int
  PROVE  ~ProperlyCross(p, q, q, s)
<1>1. Side(p, q, q) = 0 /\ Side(p, q, s) \in Int
  BY SideInt
<1>2. Side(p, q, q) * Side(p, q, s) = 0
  BY <1>1
<1> QED BY <1>2 DEF ProperlyCross

\* Which of two segments comes first, and which end of one, does not matter.
LEMMA CrossSymmetric ==
  ASSUME NEW p \in Int \X Int, NEW q \in Int \X Int,
         NEW r \in Int \X Int, NEW s \in Int \X Int
  PROVE  ProperlyCross(p, q, r, s) <=> ProperlyCross(s, r, q, p)
<1>1. /\ Side(p, q, r) \in Int /\ Side(p, q, s) \in Int
      /\ Side(r, s, p) \in Int /\ Side(r, s, q) \in Int
      /\ Side(q, p, r) = -Side(p, q, r) /\ Side(q, p, s) = -Side(p, q, s)
      /\ Side(s, r, p) = -Side(r, s, p) /\ Side(s, r, q) = -Side(r, s, q)
  BY SideInt
<1>2. ASSUME NEW a \in Int, NEW b \in Int
      PROVE  (-a) * (-b) = b * a /\ (-b) * (-a) = a * b
  OBVIOUS
<1>3. Side(s, r, q) * Side(s, r, p) = Side(r, s, p) * Side(r, s, q)
  BY <1>1, <1>2
<1>4. Side(q, p, s) * Side(q, p, r) = Side(p, q, r) * Side(p, q, s)
  BY <1>1, <1>2
<1> QED BY <1>3, <1>4 DEF ProperlyCross

LEMMA FourNodes ==
  ASSUME NEW a, NEW b, NEW c, NEW d,
         a # b, a # c, a # d, b # c, b # d, c # d
  PROVE  Cardinality({a, b, c, d}) = 4
<1>1. IsFiniteSet({}) /\ Cardinality({}) = 0
  BY FS_EmptySet
<1>2. IsFiniteSet({a}) /\ Cardinality({a}) = 1
  BY <1>1, FS_AddElement
<1>3. IsFiniteSet({a, b}) /\ Cardinality({a, b}) = 2
  <2>1. {a, b} = {a} \cup {b} /\ b \notin {a}
    OBVIOUS
  <2> QED BY <1>2, <2>1, FS_AddElement
<1>4. IsFiniteSet({a, b, c}) /\ Cardinality({a, b, c}) = 3
  <2>1. {a, b, c} = {a, b} \cup {c} /\ c \notin {a, b}
    OBVIOUS
  <2> QED BY <1>3, <2>1, FS_AddElement
<1>5. {a, b, c, d} = {a, b, c} \cup {d} /\ d \notin {a, b, c}
  OBVIOUS
<1> QED BY <1>4, <1>5, FS_AddElement

LEMMA TrackStaysPlanar ==
  ASSUME TypeOK, Exact, NEW m \in Repair, NEW w \in Repair, Sent(m, w),
         Simple(Track(m)), Planar(Track(m))
  PROVE  Planar(Track(w))
<1>1. CASE w.greedy
  <2>1. Len(Track(w)) \in 1..2
    BY <1>1, FreshTrack DEF Sent
  <2> QED BY <2>1 DEF Planar
<1>2. CASE ~w.greedy
  <2> DEFINE n == m.to
             h == w.to
             path == WithPrevious(n, m.prev, place[m.prev], m.path)
             T == Track(m)
             U == Track(w)
  <2>1. n \in Node /\ h \in Node /\ path \in Seq(Spots) /\ T \in Seq(Spots)
    BY WithPreviousType, TrackType DEF Repair
  <2>2. path # <<>> => valid_location(place[n], h, place[h], path)
    BY <1>2 DEF Sent, Allowed
  <2>3. T = <<Spot(n)>> \o path /\ U = <<Spot(h)>> \o T
    BY <1>2, TrackGrows DEF Track
  <2>4. Simple(U)
    BY TrackStaysSimple
  <2> HIDE DEF n, h, path, T, U
  <2>5. /\ Len(path) \in Nat /\ DOMAIN path = 1..Len(path)
        /\ Len(T) = Len(path) + 1 /\ T[1] = Spot(n)
        /\ \A i \in 1..Len(path) : T[i + 1] = path[i]
        /\ Len(U) = Len(path) + 2 /\ DOMAIN U = 1..(Len(path) + 2) /\ U[1] = Spot(h)
        /\ \A i \in 1..(Len(path) + 1) : U[i + 1] = T[i]
    <3>1. Len(path) \in Nat /\ DOMAIN path = 1..Len(path)
      BY <2>1, LenProperties
    <3>2. /\ Len(T) = Len(path) + 1 /\ T[1] = Spot(n)
          /\ \A i \in 1..Len(path) : T[i + 1] = path[i]
      BY <2>1, <2>3, SpotInSpots, Cons1
    <3>3. /\ Len(U) = Len(T) + 1 /\ DOMAIN U = 1..(Len(T) + 1) /\ U[1] = Spot(h)
          /\ \A i \in 1..Len(T) : U[i + 1] = T[i]
      BY <2>1, <2>3, SpotInSpots, Cons1
    <3>4. Len(U) = Len(path) + 2 /\ 1..(Len(T) + 1) = 1..(Len(path) + 2)
      BY <3>1, <3>2, <3>3
    <3> QED BY <3>1, <3>2, <3>3, <3>4
  <2>6. U[1] = Spot(h) /\ U[2] = Spot(n) /\ \A i \in 1..Len(path) : U[i + 2] = path[i]
    <3>1. 1 \in 1..(Len(path) + 1) /\ U[1 + 1] = T[1]
      BY <2>5
    <3>2. ASSUME NEW i \in 1..Len(path) PROVE U[i + 2] = path[i]
      <4>1. i + 1 \in 1..(Len(path) + 1) /\ (i + 1) + 1 = i + 2
        BY <2>5
      <4>2. U[i + 2] = T[i + 1]
        BY <2>5, <4>1
      <4> QED BY <2>5, <4>2
    <3> QED BY <2>5, <3>1, <3>2
  <2>7. \A i \in 1..Len(path) : path[i].id \in Node /\ path[i].at = place[path[i].id]
    BY <2>1, ElementOfSeq, SpotFields
  <2>8. \A x \in Node : place[x] \in Int \X Int
    BY DEF TypeOK
  <2>9. /\ Spot(h).id = h /\ Spot(h).at = place[h]
        /\ Spot(n).id = n /\ Spot(n).at = place[n]
    BY <2>1, SpotInSpots
  <2> SUFFICES ASSUME NEW i \in 1..(Len(U) - 1), NEW j \in 1..(Len(U) - 1), i < j
               PROVE  ~ProperlyCross(U[i].at, U[i + 1].at, U[j].at, U[j + 1].at)
    BY DEF Planar, U
  <2>10. CASE i # 1
    <3>1. /\ i - 1 \in 1..(Len(T) - 1) /\ j - 1 \in 1..(Len(T) - 1) /\ i - 1 < j - 1
          /\ (i - 1) + 1 = i /\ (j - 1) + 1 = j
          /\ i \in 1..Len(T) /\ j \in 1..Len(T)
      BY <2>5, <2>10
    <3>2. ~ProperlyCross(T[i - 1].at, T[i].at, T[j - 1].at, T[j].at)
      BY <3>1 DEF Planar, T
    <3>3. U[i] = T[i - 1] /\ U[i + 1] = T[i] /\ U[j] = T[j - 1] /\ U[j + 1] = T[j]
      <4>1. i - 1 \in 1..(Len(path) + 1) /\ j - 1 \in 1..(Len(path) + 1)
            /\ i \in 1..(Len(path) + 1) /\ j \in 1..(Len(path) + 1)
        BY <2>5, <3>1
      <4>2. U[(i - 1) + 1] = T[i - 1] /\ U[(j - 1) + 1] = T[j - 1]
            /\ U[i + 1] = T[i] /\ U[j + 1] = T[j]
        BY <2>5, <4>1
      <4> QED BY <3>1, <4>2
    <3> QED BY <3>2, <3>3
  <2>11. CASE i = 1 /\ j = 2
    <3>1. 1 \in 1..Len(path) /\ U[1 + 2] = path[1]
      BY <2>5, <2>6, <2>11
    <3>2. /\ U[i].at = place[h] /\ U[i + 1].at = place[n] /\ U[j].at = place[n]
          /\ U[j + 1].at = place[path[1].id] /\ path[1].id \in Node
      BY <2>6, <2>7, <2>9, <2>11, <3>1
    <3>3. /\ place[h] \in Int \X Int /\ place[n] \in Int \X Int
          /\ place[path[1].id] \in Int \X Int
      BY <2>1, <2>8, <3>2
    <3> QED BY <3>2, <3>3, SharedEnd
  <2>12. CASE i = 1 /\ j # 2
    <3> DEFINE k == j - 2
               a == path[k + 1].id
               b == path[k].id
    <3>1. /\ k \in 1..(Len(path) - 1) /\ k \in 1..Len(path) /\ k + 1 \in 1..Len(path)
          /\ k + 2 = j /\ (k + 1) + 2 = j + 1
      BY <2>5, <2>12
    <3>2. /\ U[1].at = place[h] /\ U[2].at = place[n]
          /\ U[j] = path[k] /\ U[j + 1] = path[k + 1]
          /\ path[k].at = place[b] /\ path[k + 1].at = place[a] /\ a \in Node /\ b \in Node
      BY <2>6, <2>7, <2>9, <3>1
    <3>3. 1 \in DOMAIN U /\ 2 \in DOMAIN U /\ j \in DOMAIN U /\ j + 1 \in DOMAIN U
      BY <2>5
    <3>4. U[1].id = h /\ U[2].id = n /\ U[j].id = b /\ U[j + 1].id = a
      BY <2>6, <2>9, <3>2
    <3>5. h # n /\ h # a /\ h # b /\ n # a /\ n # b /\ a # b
      <4>1. j # 1 /\ j # 2 /\ j + 1 # 1 /\ j + 1 # 2 /\ j # j + 1 /\ 1 # 2
        BY <2>12
      <4> QED BY <2>4, <3>3, <3>4, <4>1 DEF Simple
    <3>6. path # <<>>
      BY <2>5, <3>1
    <3>7. ~CrossesEdge(place[b], place[a], place[n], place[h])
      BY <2>2, <3>1, <3>2, <3>6 DEF valid_location
    <3> HIDE DEF a, b, k
    <3>8. Cardinality({a, b, n, h}) = 4
      BY <3>5, FourNodes
    <3>9. ~ProperlyCross(place[a], place[b], place[n], place[h])
      BY <2>1, <3>2, <3>7, <3>8 DEF Exact
    <3>10. ~ProperlyCross(place[h], place[n], place[b], place[a])
      BY <2>1, <2>8, <3>2, <3>9, CrossSymmetric
    <3> QED BY <2>12, <3>2, <3>10
  <2> QED BY <2>10, <2>11, <2>12
<1> QED BY <1>1, <1>2

LEMMA PlanarStep == TypeOK /\ SimpleInv /\ PlanarInv /\ [Next]_vars => PlanarInv'
<1> SUFFICES ASSUME TypeOK, SimpleInv, PlanarInv, [Next]_vars PROVE PlanarInv'
  OBVIOUS
<1>1. place' = place
  BY PlaceStands
<1>2. Exact'
  BY <1>1 DEF PlanarInv, Exact
<1> SUFFICES ASSUME NEW w \in repa' PROVE Planar(Track(w)')
  BY <1>2 DEF PlanarInv, Planar
<1>3. Track(w)' = Track(w)
  BY <1>1, TrackStands
<1>4. CASE UNCHANGED vars
  BY <1>3, <1>4 DEF PlanarInv, vars
<1>5. CASE Next
  <2>1. w \in Repair
    BY <1>5, StepSends
  <2>2. ASSUME NEW k \in Repair, k.path = <<>>
        PROVE  Simple(Track(k)) /\ Planar(Track(k))
    BY <2>2, FreshTrack DEF Planar
  <2>3. ASSUME NEW k \in Repair, Sent(k, w), Simple(Track(k)), Planar(Track(k))
        PROVE  Planar(Track(w))
    BY <2>1, <2>3, TrackStaysPlanar DEF PlanarInv
  <2>4. ASSUME NEW k \in Repair, NEW m \in repa, k.to = m.to, k.prev = m.prev, k.path = m.path
        PROVE  Simple(Track(k)) /\ Planar(Track(k))
    <3>1. Track(k) = Track(m)
      BY <2>4 DEF Track
    <3> QED BY <3>1 DEF SimpleInv, PlanarInv
  <2> QED BY <1>3, <1>5, <2>1, <2>2, <2>3, <2>4, StepSends
<1> QED BY <1>4, <1>5

\* valid_location tests the new step against every edge of the path but the
\* last, which it shares an end with: wherever that test tells exactly whether
\* two segments cross, a walk does not cross its own track.
THEOREM WalksArePlanar == Spec /\ EdgeTestExact => []WalkPlanar
<1>1. Init /\ EdgeTestExact => PlanarInv
  BY DEF Init, EdgeTestExact, PlanarInv, Exact
<1>2. Init => SimpleInv
  BY DEF Init, SimpleInv
<1>3. TypeOK /\ SimpleInv /\ PlanarInv => WalkPlanar
  <2> SUFFICES ASSUME TypeOK, SimpleInv, PlanarInv, NEW m \in repa,
                      NEW i \in 1..(Len(Visited(m)) - 1),
                      NEW j \in 1..(Len(Visited(m)) - 1), i < j
               PROVE  ~ProperlyCross(place[Visited(m)[i]], place[Visited(m)[i + 1]],
                                     place[Visited(m)[j]], place[Visited(m)[j + 1]])
    BY DEF WalkPlanar
  <2>1. m \in Repair /\ m.prev # m.to /\ Planar(Track(m))
    BY DEF TypeOK, SimpleInv, PlanarInv
  <2> DEFINE s == Track(m)
             v == Visited(m)
  <2>2. /\ Len(v) = Len(s) /\ s \in Seq(Spots)
        /\ \A k \in DOMAIN s : v[k] = s[k].id
    BY <2>1, VisitedIsTrack, TrackType
  <2> HIDE DEF s, v
  <2>3. Len(s) \in Nat /\ DOMAIN s = 1..Len(s)
    BY <2>2, LenProperties
  <2>4. \A k \in DOMAIN s : s[k].at = place[v[k]]
    BY <2>2, <2>3, ElementOfSeq, SpotFields
  <2>5. /\ i \in 1..(Len(s) - 1) /\ j \in 1..(Len(s) - 1)
        /\ i \in DOMAIN s /\ i + 1 \in DOMAIN s /\ j \in DOMAIN s /\ j + 1 \in DOMAIN s
    BY <2>2, <2>3 DEF v
  <2>6. ~ProperlyCross(s[i].at, s[i + 1].at, s[j].at, s[j + 1].at)
    BY <2>1, <2>5 DEF Planar, s
  <2> QED BY <2>4, <2>5, <2>6 DEF v
<1> QED BY <1>1, <1>2, <1>3, SimpleStep, PlanarStep, TypeCorrect, PTL DEF Spec

(***************************************************************************)
(* A walk does not run into the destination: a neighbour of it hands the   *)
(* repair over greedily.                                                   *)
(***************************************************************************)
\* No other node is where the destination is.
DestAlone == \A n \in Node : place[n] = place[Dest] => n = Dest

MissInv ==
  /\ DestAlone
  /\ \A m \in repa : /\ m.prev # Dest /\ ~OnPath(Dest, m.path)
                     /\ ~m.greedy => m.to # Dest

LEMMA SquareInt ==
  ASSUME NEW x \in Int
  PROVE  x * x \in Nat /\ (x * x = 0 => x = 0)
OBVIOUS

LEMMA DistanceNat ==
  ASSUME NEW p \in Int \X Int, NEW q \in Int \X Int
  PROVE  /\ Distance2(p, q) \in Nat
         /\ Distance2(p, q) = 0 <=> p = q
<1>1. PICK p1 \in Int, p2 \in Int : p = <<p1, p2>>
  OBVIOUS
<1>2. PICK q1 \in Int, q2 \in Int : q = <<q1, q2>>
  OBVIOUS
<1>3. Distance2(p, q) = (p1 - q1) * (p1 - q1) + (p2 - q2) * (p2 - q2)
  BY <1>1, <1>2 DEF Distance2, Dot, Minus
<1>4. p1 - q1 \in Int /\ p2 - q2 \in Int
  OBVIOUS
<1>5. /\ (p1 - q1) * (p1 - q1) \in Nat /\ (p2 - q2) * (p2 - q2) \in Nat
      /\ (p1 - q1) * (p1 - q1) = 0 => p1 - q1 = 0
      /\ (p2 - q2) * (p2 - q2) = 0 => p2 - q2 = 0
  BY <1>4, SquareInt
<1>6. ASSUME p = q PROVE Distance2(p, q) = 0
  <2>1. p1 - q1 = 0 /\ p2 - q2 = 0
    BY <1>1, <1>2, <1>6
  <2> QED BY <1>3, <2>1
<1>7. ASSUME Distance2(p, q) = 0 PROVE p = q
  <2> DEFINE a == (p1 - q1) * (p1 - q1)
             b == (p2 - q2) * (p2 - q2)
  <2>1. a \in Nat /\ b \in Nat /\ a + b = 0
    BY <1>3, <1>5, <1>7
  <2>2. a = 0 /\ b = 0
    <3> HIDE DEF a, b
    <3> QED BY <2>1
  <2>3. p1 = q1 /\ p2 = q2
    BY <1>5, <2>2
  <2> QED BY <1>1, <1>2, <2>3
<1>8. Distance2(p, q) \in Nat
  <2> DEFINE a == (p1 - q1) * (p1 - q1)
             b == (p2 - q2) * (p2 - q2)
  <2>1. a \in Nat /\ b \in Nat /\ Distance2(p, q) = a + b
    BY <1>3, <1>5
  <2> HIDE DEF a, b
  <2> QED BY <2>1
<1> QED BY <1>6, <1>7, <1>8

\* A node that hears the destination takes it for its next hop.
LEMMA GreedyTakesDest ==
  ASSUME TypeOK, DestAlone, NEW n \in Node, n # Dest, Dest \in DOMAIN At(n)
  PROVE  greedy_next(n) = {Dest}
<1> DEFINE at == At(n)
           target == place[Dest]
           nearer == {m \in DOMAIN at : Distance2(at[m], target) < Distance2(place[n], target)}
<1>1. DOMAIN at \subseteq Node /\ \A m \in DOMAIN at : at[m] = place[m]
  BY DEF At
<1>2. target \in Int \X Int /\ \A m \in Node : place[m] \in Int \X Int
  BY NodeAssumption DEF TypeOK
<1>3. \A m \in Node : /\ Distance2(place[m], target) \in Nat
                      /\ Distance2(place[m], target) = 0 <=> m = Dest
  BY <1>2, DistanceNat DEF DestAlone
<1>4. greedy_next(n) = IF nearer = {} THEN {n}
        ELSE {m \in nearer : \A o \in nearer :
                Distance2(at[m], target) <= Distance2(at[o], target)}
  BY DEF greedy_next, greedy_next_node
<1> HIDE DEF at, target
<1>5. Dest \in DOMAIN at
  BY DEF at
<1>6. at[Dest] = place[Dest] /\ Distance2(at[Dest], target) = 0 /\ Distance2(place[n], target) > 0
  BY <1>1, <1>3, <1>5, NodeAssumption
<1>7. Dest \in nearer
  BY <1>5, <1>6
<1>8. \A m \in nearer : m \in Node /\ Distance2(at[m], target) \in Nat
                         /\ (Distance2(at[m], target) = 0 => m = Dest)
  BY <1>1, <1>3
<1> HIDE DEF nearer
<1>9. ASSUME NEW m \in nearer,
             \A o \in nearer : Distance2(at[m], target) <= Distance2(at[o], target)
      PROVE  m = Dest
  BY <1>6, <1>7, <1>8, <1>9
<1>10. \A o \in nearer : Distance2(at[Dest], target) <= Distance2(at[o], target)
  BY <1>6, <1>8
<1> QED BY <1>4, <1>7, <1>9, <1>10

\* What forwardRepc makes of a repair that has not met the destination.
LEMMA SentMisses ==
  ASSUME TypeOK, DestAlone, NEW m \in Repair, NEW w \in Repair, Sent(m, w),
         m.to # Dest, m.prev # Dest, ~OnPath(Dest, m.path)
  PROVE  /\ w.prev # Dest /\ ~OnPath(Dest, w.path)
         /\ ~w.greedy => w.to # Dest
<1>1. CASE w.greedy
  BY <1>1 DEF Sent, OnPath
<1>2. CASE ~w.greedy
  <2> DEFINE path == WithPrevious(m.to, m.prev, place[m.prev], m.path)
  <2>1. m.to \in Node /\ m.prev \in Node /\ m.path \in Seq(Spots) /\ path \in Seq(Spots)
    BY WithPreviousType DEF Repair
  <2>2. \A s \in Seq(Spots), n \in Node :
          n # Dest /\ ~OnPath(Dest, s) => ~OnPath(Dest, <<Spot(n)>> \o s)
    <3> SUFFICES ASSUME NEW s \in Seq(Spots), NEW n \in Node, n # Dest, ~OnPath(Dest, s),
                        NEW i \in DOMAIN (<<Spot(n)>> \o s), (<<Spot(n)>> \o s)[i].id = Dest
                 PROVE  FALSE
      BY DEF OnPath
    <3>1. /\ Len(s) \in Nat /\ DOMAIN s = 1..Len(s)
          /\ (<<Spot(n)>> \o s)[1] = Spot(n) /\ Spot(n).id = n
          /\ DOMAIN (<<Spot(n)>> \o s) = 1..(Len(s) + 1)
          /\ \A k \in 2..(Len(s) + 1) : (<<Spot(n)>> \o s)[k] = s[k - 1]
      BY SpotInSpots, Cons1, LenProperties
    <3>2. CASE i = 1
      BY <3>1, <3>2
    <3>3. CASE i # 1
      <4>1. i \in 2..(Len(s) + 1) /\ i - 1 \in DOMAIN s
        BY <3>1, <3>3
      <4> QED BY <3>1, <4>1 DEF OnPath
    <3> QED BY <3>2, <3>3
  <2>3. ~OnPath(Dest, path)
    BY <2>1, <2>2 DEF WithPrevious, Spot
  <2>4. /\ w.prev = m.to
        /\ w.path = IF m.prev = m.to THEN <<Spot(m.to)>> \o path ELSE path
        /\ w.to \in DOMAIN At(m.to)
    BY <1>2 DEF Sent
  <2>5. PICK g \in greedy_next(m.to) : ~LeavesMaximum(m.to, m.prev, m.path, g)
    BY <1>2 DEF Sent
  <2> HIDE DEF path
  <2>6. ~OnPath(Dest, w.path)
    BY <2>1, <2>2, <2>3, <2>4
  <2>7. w.to # Dest
    <3> SUFFICES ASSUME w.to = Dest PROVE FALSE
      OBVIOUS
    <3>1. g = Dest
      BY <2>1, <2>4, <2>5, GreedyTakesDest
    <3> QED BY <2>5, <3>1 DEF LeavesMaximum
  <2> QED BY <2>4, <2>6, <2>7
<1> QED BY <1>1, <1>2

LEMMA MissStep == TypeOK /\ MissInv /\ [Next]_vars => MissInv'
<1> SUFFICES ASSUME TypeOK, MissInv, [Next]_vars PROVE MissInv'
  OBVIOUS
<1>1. place' = place
  BY PlaceStands
<1>2. DestAlone'
  BY <1>1 DEF MissInv, DestAlone
<1>3. \A s : OnPath(Dest, s)' <=> OnPath(Dest, s)
  BY DEF OnPath
<1> SUFFICES ASSUME NEW w \in repa'
             PROVE  /\ w.prev # Dest /\ ~OnPath(Dest, w.path)
                    /\ ~w.greedy => w.to # Dest
  BY <1>2 DEF MissInv, OnPath
<1>4. CASE UNCHANGED vars
  BY <1>4 DEF MissInv, vars
<1>5. CASE Next
  <2>1. w \in Repair
    BY <1>5, StepSends
  <2>2. CASE w.greedy /\ w.path = <<>> /\ w.prev # Dest
    BY <2>2 DEF OnPath
  <2>3. ASSUME NEW k \in Repair, Sent(k, w), k.to # Dest, k.prev # Dest, ~OnPath(Dest, k.path)
        PROVE  /\ w.prev # Dest /\ ~OnPath(Dest, w.path)
               /\ ~w.greedy => w.to # Dest
    BY <2>1, <2>3, SentMisses DEF MissInv
  <2>4. ASSUME NEW k \in Repair, Sent(k, w), k.to = Source, k.prev = Source, k.path = <<>>
        PROVE  /\ w.prev # Dest /\ ~OnPath(Dest, w.path)
               /\ ~w.greedy => w.to # Dest
    BY <2>3, <2>4, NodeAssumption DEF OnPath
  <2>5. ASSUME NEW k \in Repair, Sent(k, w), NEW m \in repa,
               k.to = m.to, k.prev = m.prev, k.path = m.path, m.greedy => m.to # Dest
        PROVE  /\ w.prev # Dest /\ ~OnPath(Dest, w.path)
               /\ ~w.greedy => w.to # Dest
    <3>1. k.to # Dest /\ k.prev # Dest /\ ~OnPath(Dest, k.path)
      BY <2>5 DEF MissInv
    <3> QED BY <2>3, <2>5, <3>1
  <2> QED BY <1>5, <2>2, <2>4, <2>5, StepSends, NodeAssumption
<1> QED BY <1>4, <1>5

\* forwardRepc does not look whether the node is the destination.  It need not
\* where no other node is at the very point of the destination: a node that
\* hears the destination finds it as the best next hop, it is on no path, and
\* the walk ends there.
THEOREM WalksMissDest == Spec /\ DestAlone => []WalkMissesDest
<1>1. Init /\ DestAlone => MissInv
  BY DEF Init, MissInv
<1>2. MissInv => WalkMissesDest
  BY DEF MissInv, WalkMissesDest
<1> QED BY <1>1, <1>2, MissStep, TypeCorrect, PTL DEF Spec

(***************************************************************************)
(* Angles.  The code compares the cosines of angles; of vectors on one     *)
(* side of a third this is a comparison of turns.                          *)
(***************************************************************************)
\* Squares of numbers that are not negative compare as the numbers do.
LEMMA SquareLess ==
  ASSUME NEW x \in Nat, NEW y \in Nat
  PROVE  x * x < y * y <=> x < y
<1>1. CASE x < y
  <2>1. x * x <= x * y /\ x * y < y * y
    BY <1>1
  <2> QED BY <1>1, <2>1
<1>2. CASE y <= x
  <2>1. y * y <= x * y /\ x * y <= x * x
    BY <1>2
  <2> QED BY <1>2, <2>1
<1> QED BY <1>1, <1>2

\* The cosine p / sqrt(p^2 + q^2) is the smaller the larger the angle, in a turn
\* to one side.
LEMMA CosineFalls ==
  ASSUME NEW p \in Int, NEW q \in Int, NEW r \in Int, NEW s \in Int, q > 0, s > 0
  PROVE  Signed2(p) * (r * r + s * s) < Signed2(r) * (p * p + q * q) <=> p * s < r * q
<1> DEFINE P == p * s
           R == r * q
<1>1. P \in Int /\ R \in Int /\ p * p >= 0 /\ r * r >= 0 /\ q * q > 0 /\ s * s > 0
  OBVIOUS
<1>2. CASE p >= 0 /\ r >= 0
  <2>1. Signed2(p) * (r * r + s * s) = p * p * (r * r) + P * P
    BY <1>2 DEF Signed2
  <2>2. Signed2(r) * (p * p + q * q) = p * p * (r * r) + R * R
    BY <1>2 DEF Signed2
  <2>3. P \in Nat /\ R \in Nat
    BY <1>2
  <2>4. P * P < R * R <=> P < R
    BY <2>3, SquareLess
  <2> QED BY <2>1, <2>2, <2>4
<1>3. CASE p < 0 /\ r < 0
  <2>1. Signed2(p) * (r * r + s * s) = -(p * p * (r * r)) - P * P
    BY <1>3 DEF Signed2
  <2>2. Signed2(r) * (p * p + q * q) = -(p * p * (r * r)) - R * R
    BY <1>3 DEF Signed2
  <2>3. -P \in Nat /\ -R \in Nat /\ (-P) * (-P) = P * P /\ (-R) * (-R) = R * R
    BY <1>3
  <2>4. R * R < P * P <=> P < R
    BY <1>1, <2>3, SquareLess
  <2> QED BY <2>1, <2>2, <2>4
<1>4. CASE p < 0 /\ r >= 0
  <2>1. P < 0 /\ R >= 0
    BY <1>4
  <2>2. Signed2(p) * (r * r + s * s) < 0
    <3>1. Signed2(p) < 0 /\ r * r + s * s > 0 /\ Signed2(p) \in Int
      BY <1>4 DEF Signed2
    <3> QED BY <3>1
  <2>3. Signed2(r) * (p * p + q * q) >= 0
    <3>1. Signed2(r) >= 0 /\ p * p + q * q > 0 /\ Signed2(r) \in Int
      BY <1>4 DEF Signed2
    <3> QED BY <3>1
  <2>4. Signed2(p) * (r * r + s * s) \in Int /\ Signed2(r) * (p * p + q * q) \in Int
    BY DEF Signed2
  <2> QED BY <2>1, <2>2, <2>3, <2>4
<1>5. CASE p >= 0 /\ r < 0
  <2>1. P >= 0 /\ R < 0
    BY <1>5
  <2>2. Signed2(p) * (r * r + s * s) >= 0
    <3>1. Signed2(p) >= 0 /\ r * r + s * s > 0 /\ Signed2(p) \in Int
      BY <1>5 DEF Signed2
    <3> QED BY <3>1
  <2>3. Signed2(r) * (p * p + q * q) < 0
    <3>1. Signed2(r) < 0 /\ p * p + q * q > 0 /\ Signed2(r) \in Int
      BY <1>5 DEF Signed2
    <3> QED BY <3>1
  <2>4. Signed2(p) * (r * r + s * s) \in Int /\ Signed2(r) * (p * p + q * q) \in Int
    BY DEF Signed2
  <2> QED BY <2>1, <2>2, <2>3, <2>4
<1> QED BY <1>2, <1>3, <1>4, <1>5

Vector == Int \X Int

\* The turn from v to w in terms of those from u.
LEMMA Turn ==
  ASSUME NEW u \in Vector, NEW v \in Vector, NEW w \in Vector
  PROVE  /\ Dot(u, v) \in Int /\ Cross(u, v) \in Int /\ Cross(v, u) = -Cross(u, v)
         /\ Dot(u, u) * Dot(v, v) = Dot(u, v) * Dot(u, v) + Cross(u, v) * Cross(u, v)
         /\ Dot(u, u) * Cross(v, w) = Dot(u, v) * Cross(u, w) - Cross(u, v) * Dot(u, w)
         /\ Dot(u, u) >= 0
         /\ Cross(u, v) # 0 => Dot(u, u) > 0
<1>1. /\ u[1] \in Int /\ u[2] \in Int /\ v[1] \in Int /\ v[2] \in Int
      /\ w[1] \in Int /\ w[2] \in Int
  BY DEF Vector
<1>2. /\ Dot(u, v) \in Int /\ Cross(u, v) \in Int /\ Cross(v, u) = -Cross(u, v)
  BY <1>1 DEF Dot, Cross
<1>3. Dot(u, u) * Dot(v, v) = Dot(u, v) * Dot(u, v) + Cross(u, v) * Cross(u, v)
  BY <1>1 DEF Dot, Cross
<1>4. Dot(u, u) * Cross(v, w) = Dot(u, v) * Cross(u, w) - Cross(u, v) * Dot(u, w)
  BY <1>1 DEF Dot, Cross
<1>5. u[1] * u[1] >= 0 /\ u[2] * u[2] >= 0
  BY <1>1
<1>6. u[1] # 0 => u[1] * u[1] > 0
  BY <1>1
<1>7. u[2] # 0 => u[2] * u[2] > 0
  BY <1>1
<1>8. Cross(u, v) # 0 => u[1] # 0 \/ u[2] # 0
  BY <1>1 DEF Cross
<1> DEFINE a == u[1] * u[1]
           b == u[2] * u[2]
<1>9. a \in Int /\ b \in Int /\ Dot(u, u) = a + b
  BY <1>1 DEF Dot
<1> HIDE DEF a, b
<1>10. a >= 0 /\ b >= 0 /\ (Cross(u, v) # 0 => a > 0 \/ b > 0)
  BY <1>5, <1>6, <1>7, <1>8 DEF a, b
<1> QED BY <1>2, <1>3, <1>4, <1>9, <1>10

\* Of two vectors on one side of u, the one with the smaller cosine is further
\* from u.
LEMMA CosLessIs ==
  ASSUME NEW u \in Vector, NEW v \in Vector, NEW w \in Vector
  PROVE  /\ Cross(u, v) > 0 /\ Cross(u, w) > 0 => (CosLess(u, v, w) <=> Cross(v, w) < 0)
         /\ Cross(u, v) < 0 /\ Cross(u, w) < 0 => (CosLess(u, v, w) <=> Cross(v, w) > 0)
<1> DEFINE p == Dot(u, v)
           q == Cross(u, v)
           r == Dot(u, w)
           s == Cross(u, w)
           U == Dot(u, u)
           V == Dot(v, v)
           W == Dot(w, w)
           t == Cross(v, w)
           a == Signed2(p)
           c == Signed2(r)
<1>1. /\ p \in Int /\ q \in Int /\ r \in Int /\ s \in Int /\ U \in Int /\ V \in Int
      /\ W \in Int /\ t \in Int
      /\ U * V = p * p + q * q /\ U * W = r * r + s * s
      /\ U * t = p * s - q * r
      /\ q # 0 => U > 0
  BY Turn
<1>2. CosLess(u, v, w) <=> a * W < c * V
  BY DEF CosLess
<1>3. a \in Int /\ c \in Int
  <2> HIDE DEF p, r
  <2> QED BY <1>1 DEF Signed2
<1> HIDE DEF p, q, r, s, U, V, W, t
<1>4. /\ q > 0 /\ s > 0 => (a * (U * W) < c * (U * V) <=> p * s < r * q)
      /\ q < 0 /\ s < 0 => (a * (U * W) < c * (U * V) <=> p * (-s) < r * (-q))
  <2>1. q > 0 /\ s > 0 => (a * (r * r + s * s) < c * (p * p + q * q) <=> p * s < r * q)
    BY <1>1, CosineFalls
  <2>2. CASE q < 0 /\ s < 0
    <3>1. /\ -q \in Int /\ -s \in Int /\ -q > 0 /\ -s > 0
      BY <1>1, <2>2
    <3>2. a * (r * r + (-s) * (-s)) < c * (p * p + (-q) * (-q)) <=> p * (-s) < r * (-q)
      BY <1>1, <3>1, CosineFalls
    <3>3. (-s) * (-s) = s * s /\ (-q) * (-q) = q * q
      BY <1>1
    <3> QED BY <1>1, <2>2, <3>2, <3>3
  <2> QED BY <1>1, <2>1, <2>2
<1> HIDE DEF a, c
<1>5. U > 0 => (a * W < c * V <=> a * (U * W) < c * (U * V))
  <2> SUFFICES ASSUME U > 0 PROVE a * W < c * V <=> a * (U * W) < c * (U * V)
    OBVIOUS
  <2> DEFINE x == a * W
             y == c * V
  <2>1. x \in Int /\ y \in Int /\ a * (U * W) = U * x /\ c * (U * V) = U * y
    BY <1>1, <1>3
  <2> HIDE DEF x, y
  <2>2. x < y <=> U * x < U * y
    BY <1>1, <2>1
  <2> QED BY <2>1, <2>2 DEF x, y
<1>6. U > 0 => (U * t < 0 <=> t < 0) /\ (U * t > 0 <=> t > 0)
  BY <1>1
<1>7. /\ p * s \in Int /\ r * q \in Int /\ q * r = r * q
      /\ p * (-s) = -(p * s) /\ r * (-q) = -(r * q)
  BY <1>1
<1> DEFINE ps == p * s
           rq == r * q
<1>8. U * t = ps - rq /\ ps \in Int /\ rq \in Int
  BY <1>1, <1>7
<1>9. /\ q > 0 /\ s > 0 => (a * (U * W) < c * (U * V) <=> ps < rq)
      /\ q < 0 /\ s < 0 => (a * (U * W) < c * (U * V) <=> -ps < -rq)
  BY <1>4, <1>7
<1> HIDE DEF ps, rq
<1>10. /\ q > 0 /\ s > 0 => (a * W < c * V <=> t < 0)
       /\ q < 0 /\ s < 0 => (a * W < c * V <=> t > 0)
  <2>1. CASE q > 0 /\ s > 0
    BY <1>1, <1>5, <1>6, <1>8, <1>9, <2>1
  <2>2. CASE q < 0 /\ s < 0
    BY <1>1, <1>5, <1>6, <1>8, <1>9, <2>2
  <2>3. CASE ~(q > 0 /\ s > 0) /\ ~(q < 0 /\ s < 0)
    BY <2>3
  <2> QED BY <2>1, <2>2, <2>3
<1> QED BY <1>2, <1>10 DEF q, s, t

(***************************************************************************)
(* The hand rules.                                                         *)
(***************************************************************************)
\* The target lies straight below.
Below(u) == u[1] = 0 /\ u[2] < 0

\* The test by which the code takes an angle the other way round asks on which
\* side of u it lies.
LEMMA ReflexIs ==
  ASSUME NEW u \in Vector, NEW v \in Vector, ~Below(u), Cross(u, v) # 0
  PROVE  Reflex(u, v) <=> Cross(u, v) < 0
<1>1. u[1] \in Int /\ u[2] \in Int /\ v[1] \in Int /\ v[2] \in Int
  BY DEF Vector
<1>2. CASE u[1] # 0
  BY <1>2 DEF Reflex
<1>3. CASE u[1] = 0
  <2>1. Cross(u, v) = -(u[2] * v[1])
    BY <1>1, <1>3 DEF Cross
  <2>2. u[2] > 0 /\ v[1] # 0
    <3>1. u[2] # 0 /\ v[1] # 0
      BY <1>1, <2>1
    <3> QED BY <1>1, <1>3, <3>1 DEF Below
  <2>3. u[2] * v[1] > 0 <=> v[1] > 0
    BY <1>1, <2>2
  <2>4. u[2] * v[1] \in Int
    BY <1>1
  <2>5. Reflex(u, v) <=> v[1] > 0
    BY <1>3, <2>2 DEF Reflex
  <2> QED BY <2>1, <2>3, <2>4, <2>5
<1> QED BY <1>2, <1>3

\* The left hand angle is the larger the earlier a turn clockwise meets a
\* vector, the right hand angle the later.
LEMMA LargerIs ==
  ASSUME NEW u \in Vector, NEW v \in Vector, NEW w \in Vector, ~Below(u),
         Cross(u, v) # 0, Cross(u, w) # 0, Cross(v, w) # 0
  PROVE  /\ LeftLarger(u, v, w) <=> MetBefore(u, v, w)
         /\ RightLarger(u, v, w) <=> MetBefore(u, w, v)
<1>1. /\ Reflex(u, v) <=> Cross(u, v) < 0
      /\ Reflex(u, w) <=> Cross(u, w) < 0
  BY ReflexIs
<1>2. /\ Cross(u, v) \in Int /\ Cross(u, w) \in Int /\ Cross(v, w) \in Int
      /\ Cross(w, v) = -Cross(v, w)
  BY Turn
<1>3. /\ Cross(u, v) > 0 /\ Cross(u, w) > 0 =>
           (CosLess(u, v, w) <=> Cross(v, w) < 0) /\ (CosLess(u, w, v) <=> Cross(w, v) < 0)
      /\ Cross(u, v) < 0 /\ Cross(u, w) < 0 =>
           (CosLess(u, v, w) <=> Cross(v, w) > 0) /\ (CosLess(u, w, v) <=> Cross(w, v) > 0)
  BY CosLessIs
<1>4. CASE (Cross(u, v) < 0) # (Cross(u, w) < 0)
  BY <1>1, <1>4 DEF LeftLarger, RightLarger, MetBefore
<1>5. CASE Cross(u, v) < 0 /\ Cross(u, w) < 0
  <2>1. /\ LeftLarger(u, v, w) <=> CosLess(u, w, v)
        /\ RightLarger(u, v, w) <=> CosLess(u, v, w)
    <3>1. Reflex(u, v) /\ Reflex(u, w)
      BY <1>1, <1>5
    <3> QED BY <3>1, Zenon DEF LeftLarger, RightLarger
  <2>2. /\ MetBefore(u, v, w) <=> Cross(v, w) < 0
        /\ MetBefore(u, w, v) <=> Cross(w, v) < 0
    BY <1>2, <1>5 DEF MetBefore
  <2> QED BY <1>2, <1>3, <1>5, <2>1, <2>2
<1>6. CASE Cross(u, v) > 0 /\ Cross(u, w) > 0
  <2>1. /\ LeftLarger(u, v, w) <=> CosLess(u, v, w)
        /\ RightLarger(u, v, w) <=> CosLess(u, w, v)
    <3>1. ~Reflex(u, v) /\ ~Reflex(u, w)
      BY <1>1, <1>2, <1>6
    <3>2. Reflex(u, v) = Reflex(u, w)
      BY <3>1 DEF Reflex
    <3> QED BY <3>1, <3>2, Zenon DEF LeftLarger, RightLarger
  <2>2. /\ MetBefore(u, v, w) <=> Cross(v, w) < 0
        /\ MetBefore(u, w, v) <=> Cross(w, v) < 0
    BY <1>2, <1>6 DEF MetBefore
  <2> QED BY <1>2, <1>3, <1>6, <2>1, <2>2
<1> QED BY <1>2, <1>4, <1>5, <1>6

\* No three nodes are on a line.
GeneralPosition ==
  \A a, b, c \in Node : a # b /\ b # c /\ c # a => Side(place[a], place[b], place[c]) # 0

\* Each rule takes the neighbour whose angle no other one beats.
LEMMA HandsAtIs ==
  ASSUME TypeOK, GeneralPosition, NEW n \in Node, NEW t \in Node, n # t,
         ~(place[t][1] = place[n][1] /\ place[t][2] < place[n][2])
  PROVE  HandsAt(n, t)
<1> DEFINE at == [m \in Node \ {n, t} |-> place[m]]
           u == Minus(place[t], place[n])
           d(m) == Minus(place[m], place[n])
<1>1. \A m \in Node : place[m] \in Vector /\ place[m][1] \in Int /\ place[m][2] \in Int
  BY DEF TypeOK, Vector
<1>2. u \in Vector /\ \A m \in Node : d(m) \in Vector
  BY <1>1 DEF Minus, Vector
<1>3. ~Below(u)
  <2>1. u[1] = place[t][1] - place[n][1] /\ u[2] = place[t][2] - place[n][2]
    BY DEF Minus
  <2> HIDE DEF u
  <2> QED BY <1>1, <2>1 DEF Below
<1>4. \A o, m \in Node : o # n /\ m # n /\ o # m => Cross(d(o), d(m)) # 0
  BY DEF GeneralPosition, Side
<1>5. \A m \in Node : m # n /\ m # t => Cross(u, d(m)) # 0
  BY DEF GeneralPosition, Side
<1>6. DOMAIN at = Node \ {n, t} /\ \A m \in Node \ {n, t} : Minus(at[m], place[n]) = d(m)
  BY Zenon
<1>7. Candidates(place[n], at, <<>>) = Node \ {n, t}
  BY <1>6 DEF Candidates
<1> HIDE DEF u, d, at
<1>8. \A m \in Node : ~MetBefore(u, d(m), d(m))
  <2> TAKE m \in Node
  <2>1. Cross(d(m), d(m)) \in Int /\ Cross(d(m), d(m)) = -Cross(d(m), d(m))
    BY <1>2, Turn
  <2>2. ~(Cross(d(m), d(m)) < 0)
    BY <2>1
  <2> QED BY <2>2 DEF MetBefore
<1>9. \A o, m \in Node \ {n, t} : o # m =>
        /\ LeftLarger(u, d(o), d(m)) <=> MetBefore(u, d(o), d(m))
        /\ RightLarger(u, d(o), d(m)) <=> MetBefore(u, d(m), d(o))
  <2> SUFFICES ASSUME NEW o \in Node \ {n, t}, NEW m \in Node \ {n, t}, o # m
               PROVE  /\ LeftLarger(u, d(o), d(m)) <=> MetBefore(u, d(o), d(m))
                      /\ RightLarger(u, d(o), d(m)) <=> MetBefore(u, d(m), d(o))
    OBVIOUS
  <2>1. /\ d(o) \in Vector /\ d(m) \in Vector /\ u \in Vector
        /\ Cross(u, d(o)) # 0 /\ Cross(u, d(m)) # 0 /\ Cross(d(o), d(m)) # 0
    BY <1>2, <1>4, <1>5
  <2> QED BY <1>3, <2>1, LargerIs
<1>10. ASSUME NEW m \in left_hand_node(n, place[n], at, place[t], <<>>), NEW o \in DOMAIN at
       PROVE  ~MetBefore(u, d(o), d(m))
  <2>1. m \in Node \ {n, t} /\ ~LeftLarger(u, d(o), d(m))
    BY <1>6, <1>7, <1>10 DEF left_hand_node, u
  <2> QED BY <1>6, <1>8, <1>9, <2>1
<1>11. ASSUME NEW m \in right_hand_node(n, place[n], at, place[t], <<>>), NEW o \in DOMAIN at
       PROVE  ~MetBefore(u, d(m), d(o))
  <2>1. m \in Node \ {n, t} /\ ~RightLarger(u, d(o), d(m))
    BY <1>6, <1>7, <1>11 DEF right_hand_node, u
  <2> QED BY <1>6, <1>8, <1>9, <2>1
<1> QED BY <1>10, <1>11, Zenon DEF HandsAt, at, u, d

(***************************************************************************)
(* The edge test.                                                          *)
(***************************************************************************)
\* Two numbers of different signs.
Apart(x, y) == (x > 0 /\ y < 0) \/ (x < 0 /\ y > 0)

\* Opposite tells signs apart, where neither number is zero.
LEMMA OppositeSigns ==
  ASSUME NEW x \in Int, NEW y \in Int, x # 0, y # 0
  PROVE  Opposite(x, y) <=> Apart(x, y)
<1>1. CASE x > 0
  <2>1. Opposite(x, y) <=> y <= 0
    BY <1>1 DEF Opposite
  <2>2. Apart(x, y) <=> y < 0
    BY <1>1 DEF Apart
  <2> QED BY <2>1, <2>2
<1>2. CASE x < 0
  <2>1. Opposite(x, y) <=> y > 0
    BY <1>2 DEF Opposite
  <2>2. Apart(x, y) <=> y > 0
    BY <1>2 DEF Apart
  <2> QED BY <2>1, <2>2
<1> QED BY <1>1, <1>2

\* The signs of two products by one factor.
LEMMA ApartTimes ==
  ASSUME NEW k \in Int, NEW x \in Int, NEW y \in Int, k # 0, x # 0, y # 0
  PROVE  /\ k * x \in Int /\ k * y \in Int /\ k * x # 0 /\ k * y # 0
         /\ Apart(k * x, k * y) <=> Apart(x, y)
<1>1. k * x \in Int /\ k * y \in Int /\ k * x # 0 /\ k * y # 0
  OBVIOUS
<1>2. CASE k > 0
  <2>1. (k * x > 0 <=> x > 0) /\ (k * y > 0 <=> y > 0)
    BY <1>2
  <2>2. (k * x < 0 <=> x < 0) /\ (k * y < 0 <=> y < 0)
    BY <1>2
  <2> QED BY <1>1, <2>1, <2>2 DEF Apart
<1>3. CASE k < 0
  <2>1. (k * x > 0 <=> x < 0) /\ (k * y > 0 <=> y < 0)
    BY <1>3
  <2>2. (k * x < 0 <=> x > 0) /\ (k * y < 0 <=> y > 0)
    BY <1>3
  <2> QED BY <1>1, <2>1, <2>2 DEF Apart
<1> QED BY <1>2, <1>3

\* Points on different sides of the line along w.
LEMMA OppositeIs ==
  ASSUME NEW w \in Vector, NEW p \in Vector, NEW q \in Vector,
         Cross(w, p) # 0, Cross(w, q) # 0
  PROVE  Opposite(Above(w, p), Above(w, q)) <=> Apart(Cross(w, p), Cross(w, q))
<1>1. /\ w[1] \in Int /\ w[2] \in Int /\ p[1] \in Int /\ p[2] \in Int
      /\ q[1] \in Int /\ q[2] \in Int /\ Cross(w, p) \in Int /\ Cross(w, q) \in Int
  BY Turn DEF Vector
<1>2. CASE w[1] # 0
  <2> DEFINE k == w[1]
             x == Cross(w, p)
             y == Cross(w, q)
  <2>1. Above(w, p) = x * k /\ Above(w, q) = y * k
    BY <1>2 DEF Above
  <2>2. k \in Int /\ x \in Int /\ y \in Int /\ k # 0 /\ x # 0 /\ y # 0
    BY <1>1, <1>2
  <2> HIDE DEF k, x, y
  <2>3. x * k = k * x /\ y * k = k * y
    BY <2>2
  <2>4. Opposite(k * x, k * y) <=> Apart(x, y)
    BY <2>2, ApartTimes, OppositeSigns
  <2> QED BY <2>1, <2>3, <2>4 DEF x, y
<1>3. CASE w[1] = 0
  <2> DEFINE k == -w[2]
             x == p[1]
             y == q[1]
  <2>1. Cross(w, p) = k * x /\ Cross(w, q) = k * y
    BY <1>1, <1>3 DEF Cross
  <2>2. k \in Int /\ x \in Int /\ y \in Int /\ k # 0 /\ x # 0 /\ y # 0
    <3>1. k \in Int /\ x \in Int /\ y \in Int
      BY <1>1
    <3> HIDE DEF k, x, y
    <3> QED BY <2>1, <3>1
  <2>3. Above(w, p) = -x /\ Above(w, q) = -y
    BY <1>3, <2>2 DEF Above
  <2> HIDE DEF k, x, y
  <2>4. Apart(k * x, k * y) <=> Apart(x, y)
    BY <2>2, ApartTimes
  <2>5. Opposite(-x, -y) <=> Apart(-x, -y)
    <3>1. -x \in Int /\ -y \in Int /\ -x # 0 /\ -y # 0
      BY <2>2
    <3> QED BY <3>1, OppositeSigns
  <2>6. Apart(-x, -y) <=> Apart(x, y)
    <3>1. (-x > 0 <=> x < 0) /\ (-x < 0 <=> x > 0) /\ (-y > 0 <=> y < 0) /\ (-y < 0 <=> y > 0)
      BY <2>2
    <3> QED BY <3>1 DEF Apart
  <2> QED BY <2>1, <2>3, <2>4, <2>5, <2>6
<1> QED BY <1>2, <1>3

\* The line through two points may be vertical: its test takes other
\* coordinates there, to the same effect.
LEMMA AcrossIs ==
  ASSUME NEW a \in Vector, NEW b \in Vector, NEW c \in Vector, NEW x \in Vector,
         Side(a, b, c) # 0, Side(a, b, x) # 0
  PROVE  AcrossEdge(b, a, c, x) <=> Apart(Side(a, b, c), Side(a, b, x))
<1> DEFINE w == Minus(b, a)
           pc == Minus(c, b)
           px == Minus(x, b)
<1>1. /\ a[1] \in Int /\ a[2] \in Int /\ b[1] \in Int /\ b[2] \in Int
      /\ c[1] \in Int /\ c[2] \in Int /\ x[1] \in Int /\ x[2] \in Int
  BY DEF Vector
<1>2. w \in Vector /\ pc \in Vector /\ px \in Vector
  BY <1>1 DEF Minus, Vector
<1>3. Side(a, b, c) = Cross(w, pc) /\ Side(a, b, x) = Cross(w, px)
  BY <1>1 DEF Side, Cross, Minus
<1>4. AcrossEdge(b, a, c, x) <=>
        IF w[1] # 0 THEN Opposite(Above(w, pc), Above(w, px))
        ELSE /\ px[1] # 0
             /\ IF pc[1] = 0 THEN -(w[2] * px[1]) > 0
                ELSE Opposite(-(w[2] * pc[1]), -(w[2] * px[1]))
  BY DEF AcrossEdge
<1> HIDE DEF w, pc, px
<1>5. CASE w[1] # 0
  BY <1>2, <1>3, <1>4, <1>5, OppositeIs
<1>6. CASE w[1] = 0
  <2> DEFINE C == -(w[2] * pc[1])
             X == -(w[2] * px[1])
  <2>0. /\ w[1] \in Int /\ w[2] \in Int /\ pc[1] \in Int /\ pc[2] \in Int
        /\ px[1] \in Int /\ px[2] \in Int
    BY <1>2 DEF Vector
  <2>1. Side(a, b, c) = C /\ Side(a, b, x) = X
    BY <1>3, <1>6, <2>0 DEF Cross
  <2>2. C \in Int /\ X \in Int /\ C # 0 /\ X # 0 /\ pc[1] # 0 /\ px[1] # 0
    BY <2>0, <2>1
  <2>3. AcrossEdge(b, a, c, x) <=> Opposite(C, X)
    BY <1>4, <1>6, <2>2
  <2> HIDE DEF C, X
  <2>4. Opposite(C, X) <=> Apart(C, X)
    BY <2>2, OppositeSigns
  <2> QED BY <2>1, <2>3, <2>4
<1> QED BY <1>5, <1>6

\* A product is negative if the signs of its factors differ.
LEMMA ProductNegative ==
  ASSUME NEW x \in Int, NEW y \in Int
  PROVE  x * y < 0 <=> Apart(x, y)
<1>1. CASE x > 0
  <2>1. x * y < 0 <=> y < 0
    BY <1>1
  <2> QED BY <1>1, <2>1 DEF Apart
<1>2. CASE x < 0
  <2>1. x * y < 0 <=> y > 0
    BY <1>2
  <2> QED BY <1>2, <2>1 DEF Apart
<1>3. CASE x = 0
  <2>1. ~(x * y < 0)
    BY <1>3
  <2> QED BY <1>3, <2>1 DEF Apart
<1> QED BY <1>1, <1>2, <1>3

\* Angle and half planes tell exactly whether c x crosses a b.
LEMMA CrossesIs ==
  ASSUME NEW a \in Vector, NEW b \in Vector, NEW c \in Vector, NEW x \in Vector,
         Side(a, b, c) # 0, Side(a, b, x) # 0, Side(c, x, a) # 0, Side(c, x, b) # 0
  PROVE  CrossesEdge(b, a, c, x) <=> ProperlyCross(a, b, c, x)
<1> DEFINE A == Minus(a, c)
           B == Minus(b, c)
           X == Minus(x, c)
           ba == Cross(B, A)
           bx == Cross(B, X)
           ax == Cross(A, X)
<1>1. /\ a[1] \in Int /\ a[2] \in Int /\ b[1] \in Int /\ b[2] \in Int
      /\ c[1] \in Int /\ c[2] \in Int /\ x[1] \in Int /\ x[2] \in Int
  BY DEF Vector
<1>2. A \in Vector /\ B \in Vector /\ X \in Vector
  BY <1>1 DEF Minus, Vector
<1>3. /\ Side(a, b, c) = -ba
      /\ Side(a, b, x) = bx - ba - ax
      /\ Side(c, x, a) = -ax
      /\ Side(c, x, b) = -bx
      /\ Cross(B, Minus(a, b)) = ba
      /\ Cross(B, Minus(x, b)) = bx
  BY <1>1 DEF Side, Cross, Minus
<1>4. ba \in Int /\ bx \in Int /\ ax \in Int /\ Cross(X, A) = -ax
  BY <1>2, Turn
<1>5. Minus(a, b) \in Vector /\ Minus(x, b) \in Vector
  BY <1>1 DEF Minus, Vector
<1>6. /\ CosLess(B, X, A) <=> CosLess(Minus(b, c), Minus(x, c), Minus(a, c))
  OBVIOUS
<1>7. InAngle(b, a, c, x) <=>
        /\ ~Opposite(Above(B, Minus(a, b)), Above(B, Minus(x, b)))
        /\ ~CosLess(B, X, A)
  BY DEF InAngle
<1> HIDE DEF A, B, X
<1>8. ba # 0 /\ bx # 0 /\ ax # 0
  BY <1>3, <1>4
<1>9. /\ bx > 0 /\ ba > 0 => (CosLess(B, X, A) <=> Cross(X, A) < 0)
      /\ bx < 0 /\ ba < 0 => (CosLess(B, X, A) <=> Cross(X, A) > 0)
  BY <1>2, CosLessIs
<1>10. Opposite(Above(B, Minus(a, b)), Above(B, Minus(x, b))) <=> Apart(ba, bx)
  BY <1>2, <1>3, <1>5, <1>8, OppositeIs
<1> HIDE DEF ba, bx, ax
<1>11. InAngle(b, a, c, x) <=> \/ bx > 0 /\ ba > 0 /\ ax < 0
                               \/ bx < 0 /\ ba < 0 /\ ax > 0
  <2>1. CASE Apart(ba, bx)
    BY <1>4, <1>7, <1>10, <2>1 DEF Apart
  <2>2. CASE bx > 0 /\ ba > 0
    <3>1. ~Apart(ba, bx)
      BY <1>4, <2>2 DEF Apart
    <3>2. CosLess(B, X, A) <=> ax > 0
      BY <1>4, <1>9, <2>2
    <3>3. InAngle(b, a, c, x) <=> ~(ax > 0)
      BY <1>7, <1>10, <3>1, <3>2
    <3>4. (~(ax > 0) <=> ax < 0) /\ ~(bx < 0) /\ bx > 0 /\ ba > 0
      BY <1>4, <1>8, <2>2
    <3> QED BY <3>3, <3>4, Zenon
  <2>3. CASE bx < 0 /\ ba < 0
    <3>1. ~Apart(ba, bx)
      BY <1>4, <2>3 DEF Apart
    <3>2. CosLess(B, X, A) <=> ax < 0
      BY <1>4, <1>9, <2>3
    <3>3. InAngle(b, a, c, x) <=> ~(ax < 0)
      BY <1>7, <1>10, <3>1, <3>2
    <3>4. (~(ax < 0) <=> ax > 0) /\ ~(bx > 0) /\ bx < 0 /\ ba < 0
      BY <1>4, <1>8, <2>3
    <3> QED BY <3>3, <3>4, Zenon
  <2>4. Apart(ba, bx) \/ (bx > 0 /\ ba > 0) \/ (bx < 0 /\ ba < 0)
    BY <1>4, <1>8 DEF Apart
  <2> QED BY <2>1, <2>2, <2>3, <2>4
<1>12. AcrossEdge(b, a, c, x) <=> Apart(-ba, bx - ba - ax)
  BY <1>3, AcrossIs
<1>13. ProperlyCross(a, b, c, x) <=> Apart(-ba, bx - ba - ax) /\ Apart(-ax, -bx)
  <2>1. -ba \in Int /\ bx - ba - ax \in Int /\ -ax \in Int /\ -bx \in Int
    BY <1>4
  <2> QED BY <1>3, <2>1, ProductNegative DEF ProperlyCross
<1>14. CrossesEdge(b, a, c, x) <=> InAngle(b, a, c, x) /\ AcrossEdge(b, a, c, x)
  BY DEF CrossesEdge
\* Where the edge keeps c and x apart, x is in the angle as soon as the line
\* through c and x keeps a and b apart.
<1>15. Apart(-ba, bx - ba - ax) =>
         (Apart(-ax, -bx) <=> (bx > 0 /\ ba > 0 /\ ax < 0) \/ (bx < 0 /\ ba < 0 /\ ax > 0))
  BY <1>4, <1>8 DEF Apart
<1> QED BY <1>11, <1>12, <1>13, <1>14, <1>15, Zenon

\* Three are not four.
LEMMA AtMostThree ==
  ASSUME NEW a, NEW b, NEW c
  PROVE  Cardinality({a, b, c}) # 4
<1>1. IsFiniteSet({}) /\ Cardinality({}) = 0
  BY FS_EmptySet
<1>2. /\ IsFiniteSet({a}) /\ Cardinality({a}) = 1
  BY <1>1, FS_AddElement
<1>3. IsFiniteSet({a, b}) /\ Cardinality({a, b}) \in {1, 2}
  <2>1. {a, b} = {a} \cup {b}
    OBVIOUS
  <2> QED BY <1>2, <2>1, FS_AddElement
<1>4. Cardinality({a, b, c}) \in {1, 2, 3}
  <2>1. {a, b, c} = {a, b} \cup {c}
    OBVIOUS
  <2> QED BY <1>3, <2>1, FS_AddElement
<1> QED BY <1>4

\* Four are all different.
LEMMA FourDiffer ==
  ASSUME NEW a, NEW b, NEW c, NEW d, Cardinality({a, b, c, d}) = 4
  PROVE  a # b /\ a # c /\ a # d /\ b # c /\ b # d /\ c # d
<1>1. a = b \/ a = c \/ a = d => {a, b, c, d} = {b, c, d}
  OBVIOUS
<1>2. b = c \/ b = d => {a, b, c, d} = {a, c, d}
  OBVIOUS
<1>3. c = d => {a, b, c, d} = {a, b, c}
  OBVIOUS
<1> QED BY <1>1, <1>2, <1>3, AtMostThree

\* The edge test is exact for every four nodes.
LEMMA TestsExact ==
  ASSUME TypeOK, GeneralPosition
  PROVE  Exact
<1> SUFFICES ASSUME NEW a \in Node, NEW b \in Node, NEW c \in Node, NEW x \in Node,
                    Cardinality({a, b, c, x}) = 4
             PROVE  CrossesEdge(place[b], place[a], place[c], place[x])
                      <=> ProperlyCross(place[a], place[b], place[c], place[x])
  BY DEF Exact
<1>1. a # b /\ a # c /\ a # x /\ b # c /\ b # x /\ c # x
  BY FourDiffer
<1>2. /\ place[a] \in Vector /\ place[b] \in Vector /\ place[c] \in Vector
      /\ place[x] \in Vector
  BY DEF TypeOK, Vector
<1>3. /\ Side(place[a], place[b], place[c]) # 0 /\ Side(place[a], place[b], place[x]) # 0
      /\ Side(place[c], place[x], place[a]) # 0 /\ Side(place[c], place[x], place[b]) # 0
  BY <1>1 DEF GeneralPosition
<1> QED BY <1>2, <1>3, CrossesIs

\* No node moves.
LEMMA PositionStands ==
  TypeOK /\ GeneralPosition /\ [Next]_vars => GeneralPosition'
<1> SUFFICES ASSUME TypeOK, GeneralPosition, [Next]_vars PROVE GeneralPosition'
  OBVIOUS
<1>1. place' = place
  BY PlaceStands
<1> QED BY <1>1 DEF GeneralPosition

\* valid_location(): comparing two angles and two half planes tells exactly
\* whether a step crosses an edge, with vertical edges, whose slope the code
\* does not guard, and with every other: for nodes of which no three are on a
\* line.
THEOREM EdgesAreTested == Spec /\ GeneralPosition => []EdgeTestExact
<1>1. TypeOK /\ GeneralPosition => EdgeTestExact
  BY TestsExact DEF Exact, EdgeTestExact
<1> QED BY <1>1, PositionStands, TypeCorrect, PTL DEF Spec

\* left_hand_node() and right_hand_node() take the first and the last neighbour
\* that a turn clockwise from the direction of the target meets, unless the
\* target is straight below: for nodes of which no three are on a line.
THEOREM HandsTurn == Spec /\ GeneralPosition => []HandRules
<1>1. TypeOK /\ GeneralPosition => HandRules
  BY HandsAtIs DEF HandRules
<1> QED BY <1>1, PositionStands, TypeCorrect, PTL DEF Spec

\* A walk among nodes of which no three are on a line does not cross its own
\* track.
THEOREM WalksArePlanarThere == Spec /\ GeneralPosition => []WalkPlanar
<1>1. TypeOK /\ GeneralPosition => EdgeTestExact
  BY TestsExact DEF Exact, EdgeTestExact
<1> QED BY <1>1, TypeCorrect, WalksArePlanar, PTL

(***************************************************************************)
(* Where there is no local maximum, a repair that has started stays a REPA *)
(* on the air until it arrives, and every hop of it is nearer to the       *)
(* destination than the one before: with distances between points that     *)
(* are integers, what GreedyArrives needs besides the fairness of the      *)
(* scheduler.                                                              *)
(***************************************************************************)
NoMaxima == \A n \in Node \ {Dest} : greedy_next(n) # {n}

OnTheAir  == started /\ ~arrived => \E m \in Repair : repa = {m} /\ m.greedy
\* m is handed to a node nearer to the destination than p was.
Nearer(m, p) ==
  Distance2(place[m.to], place[Dest]) < Distance2(place[p.to], place[Dest])
Approaches == \A m \in repa, w \in repa' : Nearer(w, m)

GreedyInv ==
  /\ NoMaxima
  /\ OnTheAir
  /\ \A m, p \in repa : m.greedy /\ m = p
  /\ ~started => ~arrived
  /\ ~started \/ arrived => repa = {}

\* A next hop other than the node itself is nearer to the destination.
LEMMA GreedyIsNearer ==
  ASSUME NEW n \in Node, NEW g \in greedy_next(n), greedy_next(n) # {n}
  PROVE  Distance2(place[g], place[Dest]) < Distance2(place[n], place[Dest])
<1> DEFINE nearer == {m \in DOMAIN At(n) :
                        Distance2(At(n)[m], place[Dest]) < Distance2(place[n], place[Dest])}
<1>1. greedy_next(n) = IF nearer = {} THEN {n}
        ELSE {m \in nearer : \A o \in nearer :
                Distance2(At(n)[m], place[Dest]) <= Distance2(At(n)[o], place[Dest])}
  BY DEF greedy_next, greedy_next_node
<1>2. \A m \in nearer : At(n)[m] = place[m]
  BY DEF At
<1>3. g \in nearer
  <2> HIDE DEF nearer
  <2> QED BY <1>1
<1> QED BY <1>2, <1>3

\* The source sends a REPA.
LEMMA StartsGreedy ==
  ASSUME TypeOK, NoMaxima, init_route_maintenance
  PROVE  \E w \in Repair : repa' = {w} /\ w.greedy
<1>1. greedy_next(Source) # {Source}
  BY NodeAssumption DEF NoMaxima
<1>2. PICK g \in greedy_next(Source) : repa' = {[Started EXCEPT !.to = g]}
  BY <1>1 DEF init_route_maintenance, Started
<1>3. g \in Node
  BY <1>1, NodeAssumption, GreedyNode
<1>4. [Started EXCEPT !.to = g] \in Repair /\ [Started EXCEPT !.to = g].greedy
  BY <1>3, StartedType DEF Started, Repair
<1> QED BY <1>2, <1>4

\* A relay passes a REPA on as a REPA, to a node that is nearer.
LEMMA PassesOnGreedily ==
  ASSUME TypeOK, NoMaxima, NEW m \in repa, PassOn(m)
  PROVE  \E w \in Repair : repa' = {w} /\ w.greedy /\ Nearer(w, m)
<1>1. m \in Repair /\ m.to \in Node \ {Dest}
  BY DEF TypeOK, Repair, PassOn
<1>2. greedy_next(m.to) # {m.to}
  BY <1>1 DEF NoMaxima
<1>3. PICK g \in greedy_next(m.to) : repa' = {forwardRepa(m.to, m, g)}
  BY <1>2 DEF PassOn
<1>4. g \in Node
  BY <1>1, <1>2, GreedyNode
<1> DEFINE w == [m EXCEPT !.to = g, !.prev = m.to, !.greedy = TRUE, !.path = <<>>]
<1>5. repa' = {w}
  BY <1>3 DEF forwardRepa
<1>6. <<>> \in Seq(Spots)
  BY EmptySeq
<1>7. w \in Repair /\ w.greedy /\ w.to = g
  BY <1>1, <1>4, <1>6 DEF Repair
<1> HIDE DEF w
<1>8. Nearer(w, m)
  BY <1>1, <1>2, <1>7, GreedyIsNearer DEF Nearer
<1> QED BY <1>5, <1>7, <1>8

LEMMA GreedyStep ==
  TypeOK /\ GreedyInv /\ [Next]_vars => GreedyInv' /\ [Approaches]_vars
<1> SUFFICES ASSUME TypeOK, GreedyInv, [Next]_vars
             PROVE  GreedyInv' /\ (Approaches \/ UNCHANGED vars)
  OBVIOUS
<1>1. place' = place
  BY PlaceStands
<1>2. NoMaxima' /\ Repair' = Repair
  BY <1>1 DEF GreedyInv, NoMaxima, greedy_next, At, Repair, Spots, Spot
<1>3. CASE UNCHANGED vars
  BY <1>2, <1>3 DEF GreedyInv, OnTheAir, vars
<1>4. CASE init_route_maintenance
  <2>1. repa = {} /\ started' /\ ~arrived'
    BY <1>4 DEF GreedyInv, init_route_maintenance
  <2>2. PICK w \in Repair : repa' = {w} /\ w.greedy
    BY <1>4, StartsGreedy DEF GreedyInv
  <2> QED BY <1>2, <2>1, <2>2 DEF GreedyInv, OnTheAir, Approaches
<1>5. ASSUME NEW m \in repa, ReachDest(m) PROVE GreedyInv' /\ Approaches
  BY <1>2, <1>5 DEF GreedyInv, OnTheAir, Approaches, ReachDest
<1>6. ASSUME NEW m \in repa, PassOn(m) PROVE GreedyInv' /\ Approaches
  <2>1. PICK w \in Repair : repa' = {w} /\ w.greedy /\ Nearer(w, m)
    BY <1>6, PassesOnGreedily DEF GreedyInv
  <2>2. started' = started /\ arrived' = arrived
    BY <1>6 DEF PassOn
  <2>3. started /\ repa = {m}
    BY <1>6 DEF GreedyInv
  <2> QED BY <1>2, <2>1, <2>2, <2>3 DEF GreedyInv, OnTheAir, Approaches
<1>7. ASSUME NEW m \in repa, Walk(m) PROVE FALSE
  BY <1>7 DEF GreedyInv, Walk
<1> QED BY <1>3, <1>4, <1>5, <1>6, <1>7 DEF Next

\* recvRepa(): in a network without local maxima a repair is never lost by a
\* relay, never starts to walk, and comes nearer to the destination with every
\* hop until it is there.
THEOREM GreedyApproaches ==
  Spec /\ NoMaxima => []OnTheAir /\ [][Approaches]_vars
<1>1. Init /\ NoMaxima => GreedyInv
  BY DEF Init, GreedyInv, OnTheAir
<1>2. GreedyInv => OnTheAir
  BY DEF GreedyInv
<1> QED BY <1>1, <1>2, GreedyStep, TypeCorrect, PTL DEF Spec
=============================================================================
