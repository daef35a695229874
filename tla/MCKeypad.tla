------------------------------ MODULE MCKeypad ------------------------------
(* A small instance of the keypad for the model checker. *)
EXTENDS KeypadProperties

CONSTANT apple

JustApple == <<apple>>
=============================================================================
