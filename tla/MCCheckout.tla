----------------------------- MODULE MCCheckout -----------------------------
(* Small instances of the calls and their payments for the model checker. *)
EXTENDS CheckoutProperties, TLC

CONSTANTS c1, c2
=============================================================================
