------------------------------ MODULE MCStubs ------------------------------
(* The stall beside the in-memory services. *)
EXTENDS Stubs, MCStall
=============================================================================
