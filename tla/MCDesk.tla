------------------------------- MODULE MCDesk -------------------------------
(* Small instances of the operator's keys for the model checker. *)
EXTENDS DeskProperties, TLC

CONSTANT kiosk
=============================================================================
