------------------------ MODULE MCAorgluPerimeter ------------------------
(***************************************************************************)
(* Small placements for AorgluPerimeter: the source is node 1, the         *)
(* destination node 2.                                                     *)
(***************************************************************************)
EXTENDS AorgluPerimeter

Points(w, h) == (0..(w - 1)) \X (0..(h - 1))

\* The relays are interchangeable: one order of them is enough.
Ordered(p) == \A a, b \in 3..Len(p) :
  a < b => 10 * p[a][1] + p[a][2] < 10 * p[b][1] + p[b][2]

\* No two nodes at one point and no three on a line: there the tests of the
\* code hang on the rounding of its doubles.
Apart(p) == \A a, b \in DOMAIN p : a < b => p[a] # p[b]
GeneralPosition(p) ==
  \A a, b, c \in DOMAIN p :
    a < b /\ b < c => Cross(Minus(p[b], p[a]), Minus(p[c], p[a])) # 0

Scattered(S) == {p \in S : Ordered(p) /\ Apart(p) /\ GeneralPosition(p)}

\* Three relays on a grid of 4 x 4, four on one of 5 x 5.
FivePlacement ==
  Scattered({<<0, 1>>} \X Points(4, 4) \X Points(4, 4) \X Points(4, 4) \X Points(4, 4))
SixPlacement ==
  Scattered({<<0, 2>>} \X {<<4, 3>>} \X Points(5, 5) \X Points(5, 5)
                       \X Points(5, 5) \X Points(5, 5))
=============================================================================
