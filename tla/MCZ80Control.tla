----------------------------- MODULE MCZ80Control -----------------------------
(***************************************************************************)
(* All programs of three or four of the given bytes.                       *)
(***************************************************************************)
EXTENDS Z80Control
=============================================================================
