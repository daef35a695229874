------------------------------- MODULE MCSight -------------------------------
(* A small instance of the camera and the model for the model checker. *)
EXTENDS Sight

CONSTANTS apple, banana

BothFruit == <<apple, banana>>
AppleFirst == (apple :> 1 @@ banana :> 2)

\* Lengths 2, 3 and 5 that overlap in a chain, an inverted, a separate and an
\* empty box.
Chain == {<<0, 2>>, <<0, 3>>, <<0, 5>>, <<2, 5>>, <<5, 3>>, <<6, 7>>, <<3, 3>>}

TwoApplesOneBanana == (apple :> 2 @@ banana :> 1)
=============================================================================
