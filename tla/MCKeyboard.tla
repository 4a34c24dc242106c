------------------------------ MODULE MCKeyboard ------------------------------
(* Keyboard with one axis; a limit of one step.                              *)
EXTENDS Keyboard

(* Angles far below, within and far above the limits.                     *)
MCGarbage == {-3, 0, 3}
===============================================================================
