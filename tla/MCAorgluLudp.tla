---------------------------- MODULE MCAorgluLudp ----------------------------
(***************************************************************************)
(* A small field for AorgluLudp.                                           *)
(***************************************************************************)
EXTENDS AorgluLudp

SmallField == -4..4
=============================================================================
