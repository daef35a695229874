------------------------------ MODULE MCRestock ------------------------------
(* Small instances of the restock state machine for the model checker. *)
EXTENDS RestockProperties, TLC

CONSTANTS t1, t2, apple, banana
=============================================================================
