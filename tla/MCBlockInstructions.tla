------------------------- MODULE MCBlockInstructions -------------------------
(***************************************************************************)
(* Registers of two and three bits and memory of eight bytes; a call has   *)
(* cycles for more iterations than B counts and for fewer than BC does,    *)
(* as 160000 cycles have for 256 and for 65536.                            *)
(***************************************************************************)
EXTENDS BlockInstructions

(* With B = 0 the int copy of B of INIR and OTIR goes negative and does not *)
(* count 256 iterations: the port instructions start from the others.       *)
MCCounters == [o \in Ops |-> IF o \in WordOps THEN {0, 1, 2, 3, 7} ELSE {1, 2, 3}]
=============================================================================
