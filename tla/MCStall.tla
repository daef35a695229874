------------------------------ MODULE MCStall ------------------------------
(* Small instances of the stall for the model checker. *)
EXTENDS StallProperties, TLC

CONSTANTS t1, t2, apple, banana, o1, o2

OnlyApple == <<apple>>
BothFruit == <<apple, banana>>

\* The shop seeds 0 and lets the camera count; the others stand for a shelf that
\* was taught with its stock.
TwoEach == [i \in Items |-> 2]
OneEach == [i \in Items |-> 1]
NoneYet == [i \in Items |-> 0]

Everything == [t \in Threads |-> AllOps]
OrdersOnly == [t \in Threads |-> {"reserve", "pay", "pack", "cancel"}]
Buyers     == [t \in Threads |-> {"reserve"}]
KioskAndCamera ==
  [t \in Threads |-> IF t = t1 THEN {"reserve", "pay", "pack", "cancel"}
                               ELSE {"reconcile", "activate", "teach"}]

OwnerAndHelper ==
  [t \in Threads |-> IF t = t1 THEN AllOps ELSE AllOps \ {"activate", "teach"}]

Alike == Permutations(OrderIds)
=============================================================================
