------------------------------ MODULE MCKeyboard ------------------------------
(***************************************************************************)
(* A buffer of two characters, and one key of each kind: "a" types with    *)
(* and without SHIFT, F1 types nothing, RETURN is tested before CTRL.      *)
(***************************************************************************)
EXTENDS Keyboard

AnyNeighbour == {"unused", "ctrl_engaged", "kbip"}
=============================================================================
