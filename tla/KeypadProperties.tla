-------------------------- MODULE KeypadProperties --------------------------
(***************************************************************************)
(* What the keypad and its bridge should guarantee.                         *)
(***************************************************************************)
EXTENDS Keypad

\* "At most one flash per fruit per push (the most recent change wins)"
\* (pico_bridge.py:267), and no fruit of the keypad that changed a moment ago is left
\* out; one it has no cells for is not sent.
FlashOfNewest ==
  LET fl == BuildFlashes(activity) IN
  /\ \A k \in DOMAIN activity : activity[k].item \in Fruits =>
       \E n \in DOMAIN fl : fl[n].item = activity[k].item
  /\ \A n \in DOMAIN fl : \E k \in DOMAIN activity :
       /\ fl[n].item = activity[k].item /\ fl[n].kind = activity[k].kind
       /\ \A j \in 1 .. k - 1 : activity[j].item # fl[n].item

Now == ApiStateToPayload(Snapshot([k \in DOMAIN Catalog |-> [item |-> Catalog[k], count |-> api.count[Catalog[k]]]],
                                  Active, {}, api.open, FALSE))

\* What the shop calls for: an alarm while it is open and a fruit is out.
AlarmDue == IF api.open /\ \E f \in Fruits : api.count[f] = 0 THEN "red" ELSE "off"

\* There are only two ways to leave the keypad with an old picture for good: a
\* hello or a fresh port that falls between the decision to push and its record,
\* and a line spoilt by the half line a failed write left.  Everything else,
\* snapshots read in halves, lost pushes, a cable pulled at any moment, a keypad
\* that starts late or again, is repaired as soon as the cable stays in, down to
\* the colour of its keys (pico_protocol.py:5 "dropped frames are recovered on the
\* next push").  The active item is the last of the catalog here; a fruit after it is
\* never sent right (pico_bridge.py:342).
Repaints ==
  <>[](plugged /\ ~forgotten /\ ~garbled)
    => <>[](shown.state = Now /\ Painted(shown) = [keys |-> ActionColours, grid |-> AlarmDue])
=============================================================================
