------------------------------- MODULE Payload -------------------------------
(***************************************************************************)
(* What the kiosk's snapshot becomes on its way to the keypad: the payload   *)
(* and the flashes the bridge builds, and what the firmware paints of it.    *)
(*                                                                         *)
(* A snapshot has the catalog in its order, the active item, the statuses    *)
(* of the orders, and whether the store is open and a restock is pending.    *)
(* Items are their names, singular and in lower case.  Health, the restock's *)
(* status and error texts are left out: paint() uses none.                  *)
(***************************************************************************)
EXTENDS Naturals, Sequences, FiniteSetsExt, SequencesExt

CONSTANT Fruits   (* the names the keypad has cells for *)

-----------------------------------------------------------------------------
(* routes.py: the snapshot. *)

\* _pending: the keys that have something to act on.
PendingActions(statuses, buy) ==
  [paid_order |-> "paid" \in statuses, reservation |-> "reserved" \in statuses, supply_buy |-> buy]

Snapshot(catalog, active, statuses, open, buy) ==
  [catalog |-> catalog, active |-> active, orders |-> statuses,
   open |-> open, pending |-> PendingActions(statuses, buy)]

-----------------------------------------------------------------------------
(* pico_bridge.py: the payload. *)

\* The loop over the catalog ends at the active item.
Reached(s) ==
  LET at == {k \in DOMAIN s.catalog : s.catalog[k].item = s.active}
  IN  IF at = {} THEN DOMAIN s.catalog ELSE 1 .. Min(at)

\* A fruit the loop did not reach keeps its default of 0; of two items with the
\* name of one fruit the later wins.
FruitCount(s, f) ==
  LET named == {k \in Reached(s) : s.catalog[k].item = f}
  IN  IF named = {} THEN 0 ELSE s.catalog[Max(named)].count

\* Paid, then reserved: what the operator has to act on first.
OrderStatus(s) ==
  CASE "paid" \in s.orders -> "paid"
    [] "paid" \notin s.orders /\ "reserved" \in s.orders -> "reserved"
    [] OTHER -> ""

Attention(s) ==
  [ready      |-> ~s.open,
   packed     |-> s.pending.paid_order,
   cancel     |-> s.pending.reservation \/ s.pending.supply_buy,
   supply_buy |-> s.pending.supply_buy]

ApiStateToPayload(s) ==
  [fruit |-> [f \in Fruits |-> FruitCount(s, f)],
   order |-> OrderStatus(s), attention |-> Attention(s)]

-----------------------------------------------------------------------------
(* pico_bridge.py: the flashes, from the count changes, newest first. *)

FlashKinds == {"added", "restocked", "first_seen", "removed", "out"}

Flashable(e) == e.item \in Fruits /\ e.kind \in FlashKinds /\ e.fresh

FlashesOfAll(entries) == SelectSeq(entries, Flashable)   \* (mutant)

\* One flash per fruit, for the first entry that qualifies.
BuildFlashes(entries) ==
  LET add(flashes, e) ==
        IF Flashable(e) /\ \A n \in DOMAIN flashes : flashes[n].item # e.item
        THEN Append(flashes, [item |-> e.item, kind |-> e.kind]) ELSE flashes
  IN FoldLeft(add, <<>>, entries)

-----------------------------------------------------------------------------
(* apps/pico/main.py: what is painted. *)

\* The defaults of a firmware that heard nothing yet.
DefaultState ==
  [fruit |-> [f \in Fruits |-> 0], order |-> "",
   attention |-> [ready |-> TRUE, packed |-> FALSE, cancel |-> FALSE, supply_buy |-> FALSE]]

StoreIsOpen(state) == ~state.attention.ready

\* The first four keys are labels, lit whatever there is to do.
ActionColours == [ready |-> "green", packed |-> "amber", cancel |-> "red", supply_buy |-> "cyan"]

FlashColour(kind) ==
  CASE kind \in {"added", "restocked"} -> "green"
    [] kind = "first_seen" -> "cyan"
    [] kind = "removed" -> "amber"
    [] kind = "out" -> "red"

OutOfStock(state, pushed) ==
  pushed /\ StoreIsOpen(state) /\ \E f \in Fruits : state.fruit[f] = 0

\* The other twelve are one block: the colour of the last flash still running, or
\* the alarm, or dark.
Grid(s) ==
  CASE s.flashes # <<>> -> FlashColour(Last(s.flashes).kind)
    [] s.flashes = <<>> /\ OutOfStock(s.state, s.pushed) -> "red"
    [] OTHER -> "off"

\* paint(), but for the white flash of a key that is pressed.
Painted(s) == [keys |-> ActionColours, grid |-> Grid(s)]
=============================================================================
