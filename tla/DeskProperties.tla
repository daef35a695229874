--------------------------- MODULE DeskProperties ---------------------------
(***************************************************************************)
(* What the operator may expect of the keys.                                *)
(***************************************************************************)
EXTENDS Desk

\* A press acts once at most, although its answer may not reach the bridge in time
\* (pico_bridge.py:543 swallows the error of a post and does not repeat it).
OncePerPress == \A p \in Presses : acts[p] <= 1

\* "a second press inside the window returns status=debounced" (routes.py:374): two
\* presses of the keypad are never both accepted inside one window, though the last
\* press is read and recorded in two steps, because the bridge posts one at a
\* time.  It takes a post the bridge gave up, or the kiosk, to break that.
DebounceHolds == doubled => clicked \/ gaveup

\* What a key was found to be about may be over when the request gets to it, and is
\* looked at again (orders.py:118, :128, coordinator.py:164, :190).  A proposal that is decided
\* stays so.  An order that is over, packed or cancelled, is left alone but by a
\* call that had looked at it before it got over and writes after (orders.py:106, :118,
\* :128 hold no lock until the append): nothing else, a stale find least of all, brings
\* an order back.
OverIsOver ==
  [][/\ \A n \in DOMAIN orders : orders[n] \in Over => orders'[n] = orders[n] \/ n \in crossed
     /\ \A n \in DOMAIN buys : buys[n] # "pending" => buys'[n] = buys[n]]_vars
=============================================================================
