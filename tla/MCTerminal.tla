------------------------------ MODULE MCTerminal ------------------------------
(***************************************************************************)
(* A screen of two rows of four columns and every kind of character.       *)
(***************************************************************************)
EXTENDS Terminal
=============================================================================
