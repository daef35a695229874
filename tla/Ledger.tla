------------------------------- MODULE Ledger -------------------------------
(***************************************************************************)
(* What the services promise their callers: a shop in which every call is   *)
(* one atomic step on the true stock and the true orders.  A reservation    *)
(* takes exactly its quantity out of the stock that is there; a reserved    *)
(* order that is cancelled puts exactly that back; a packed or cancelled    *)
(* order never changes again.                                              *)
(***************************************************************************)
EXTENDS Naturals

CONSTANTS Items, OrderIds, Sessions, NoSession

VARIABLES
  taught,   (* the items on the stall *)
  stock,    (* [Items -> Nat] *)
  order     (* [OrderIds -> record], status "none" before the order exists *)

vars == <<taught, stock, order>>

Init ==
  /\ taught = {}
  /\ stock = [i \in Items |-> 0]
  /\ order = [o \in OrderIds |-> [status |-> "none"]]

SetStock(i, n) == stock' = [stock EXCEPT ![i] = n]

Teach(i) ==
  /\ i \notin taught
  /\ taught' = taught \cup {i}
  /\ stock'[i] \in Nat /\ SetStock(i, stock'[i])
  /\ UNCHANGED order

\* The camera or an operator replaces the count.
Recount(i) ==
  /\ i \in taught
  /\ stock'[i] \in Nat /\ SetStock(i, stock'[i])
  /\ UNCHANGED <<taught, order>>

Reserve(o) ==
  LET i == order'[o].item
      q == order'[o].qty
  IN
  /\ order[o].status = "none"
  /\ order'[o].status = "reserved"
  /\ i \in taught /\ q \in 1 .. stock[i]
  /\ order' = [order EXCEPT ![o] =
       [status |-> "reserved", item |-> i, qty |-> q, session |-> NoSession]]
  /\ SetStock(i, stock[i] - q)
  /\ UNCHANGED taught

Pay(o) ==
  \E s \in Sessions :
    /\ order[o].status \in {"reserved", "paid"}
    /\ order' = [order EXCEPT ![o].status = "paid", ![o].session = s]
    /\ UNCHANGED <<taught, stock>>

Pack(o) ==
  /\ order[o].status = "paid"
  /\ order' = [order EXCEPT ![o].status = "packed"]
  /\ UNCHANGED <<taught, stock>>

\* Only a reservation still unpaid gives stock back.
Cancel(o) ==
  /\ order[o].status \in {"reserved", "paid"}
  /\ order' = [order EXCEPT ![o].status = "cancelled"]
  /\ IF order[o].status = "reserved"
     THEN SetStock(order[o].item, stock[order[o].item] + order[o].qty)
     ELSE UNCHANGED stock
  /\ UNCHANGED taught

Next ==
  \/ \E i \in Items : Teach(i) \/ Recount(i)
  \/ \E o \in OrderIds : Reserve(o) \/ Pay(o) \/ Pack(o) \/ Cancel(o)

Spec == Init /\ [][Next]_vars
=============================================================================
