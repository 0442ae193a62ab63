---------------------------- MODULE MCPriQueue ----------------------------
(***************************************************************************)
(* Six packets, three of them of a routing protocol, for two next hops.    *)
(***************************************************************************)
EXTENDS PriQueue, TLC

CONSTANTS r1, r2, r3, d1, d2, d3, h1, h2

Routings == {r1, r2, r3}
Packets == Routings \cup {d1, d2, d3}
Symmetric == Permutations(Routings) \cup Permutations({d1, d2, d3}) \cup Permutations({h1, h2})
=============================================================================
