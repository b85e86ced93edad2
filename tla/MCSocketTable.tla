---------------------------- MODULE MCSocketTable ----------------------------
(***************************************************************************)
(* Two slots to hand out and three descriptors, so that a connection can   *)
(* find the table full; bytes of two bits, so that a count can equal -1.   *)
(***************************************************************************)
EXTENDS SocketTable, TLC

DescriptorSymmetry == Permutations(Descriptors)
=============================================================================
