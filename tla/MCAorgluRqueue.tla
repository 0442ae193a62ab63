--------------------------- MODULE MCAorgluRqueue ---------------------------
(***************************************************************************)
(* AorgluRqueue for TLC: packets of two destinations, one packet more than *)
(* the buffer holds, so that every packet comes back with a stale pointer. *)
(***************************************************************************)
EXTENDS AorgluRqueue, TLC

CONSTANTS p1, p2, p3, p4, a1, a2

FourPackets == (p1 :> a1) @@ (p2 :> a2) @@ (p3 :> a1) @@ (p4 :> a2)

=============================================================================
