-------------------------------- MODULE Desk --------------------------------
(***************************************************************************)
(* The operator's keys: what is pressed on the keypad goes over the wire to  *)
(* the bridge, which posts one press after the other and waits five seconds  *)
(* for each; the kiosk's buttons post the same actions on their own.  The    *)
(* API serves each post on a thread of its pool: it debounces, looks for     *)
(* what the key is about, and then acts on it, while customers, payments and *)
(* the restock worker go on.                                                *)
(*                                                                         *)
(* The order service looks at an order and writes what becomes of it in two  *)
(* steps, with no lock over both; that the write is seen at once, and what   *)
(* it does to the stock, is in Stall.  A call of the restock coordinator is  *)
(* one step, under its lock (see Restock).  The keys `count_now' and          *)
(* `confirm', which change nothing, are left out.                            *)
(***************************************************************************)
EXTENDS Naturals, Sequences, FiniteSetsExt

CONSTANTS
  Callers,      (* threads that decide about orders for Stripe and for the kiosk *)
  MaxPresses,   (* bound: presses on the keypad and clicks on the kiosk *)
  MaxOrders,    (* bound: reservations *)
  MaxBuys       (* bound: restock proposals *)

ASSUME DeskAssumption ==
  /\ {MaxPresses, MaxOrders, MaxBuys} \subseteq Nat
  /\ Callers \cap Nat = {}

VARIABLES
  orders,   (* the statuses of the orders, in order of reservation *)
  buys,     (* the statuses of the restock proposals, in order *)
  open,     (* demo_active *)
  write,    (* per caller and press, the order it is about to write and the status *)
  seed,     (* the order demo_seed_paid_order reserved and has not yet paid, or 0 *)
  keys,     (* the keys pressed or clicked so far; a press is its number *)
  wire,     (* presses written by the firmware and not yet read *)
  reader,   (* the press the bridge waits for, or 0 *)
  request,  (* per press, where its request is *)
  fresh,    (* per key, _last_press is younger than the key's window *)
  clicked,  (* history: the kiosk posted too *)
  gaveup,   (* history: the bridge has stopped waiting for an answer *)
  acts,     (* history: per press, how often it changed something *)
  crossed,  (* history: orders that got over with a write of another still to come *)
  doubled   (* history: a press was accepted while the last was fresh *)

book == <<orders, write, crossed>>
shop == <<book, buys, open, seed>>
vars == <<shop, keys, wire, reader, request, fresh, clicked, gaveup, acts, doubled>>

Keys == {"ready", "packed", "cancel", "supply_buy"}

Presses == 1 .. MaxPresses

Writers == Callers \cup Presses

Over == {"packed", "cancelled"}

NoRequest == [step |-> "none"]
NoWrite == [on |-> 0, to |-> "none"]
Done == [step |-> "done"]

Init ==
  /\ orders = <<>> /\ buys = <<>> /\ open = FALSE /\ seed = 0
  /\ write = [w \in Writers |-> NoWrite] /\ crossed = {}
  /\ keys = <<>> /\ wire = <<>> /\ reader = 0
  /\ request = [p \in Presses |-> NoRequest]
  /\ fresh = [k \in Keys |-> FALSE]
  /\ clicked = FALSE /\ gaveup = FALSE /\ acts = [p \in Presses |-> 0] /\ doubled = FALSE

-----------------------------------------------------------------------------
(* Customers, Stripe, the camera's restock worker and time. *)

Of(statuses, s) == {k \in DOMAIN statuses : statuses[k] = s}

\* orders.py: the status is looked at ...
Decides(w, n, from, to) ==
  /\ write[w] = NoWrite /\ orders[n] \in from
  /\ write' = [write EXCEPT ![w] = [on |-> n, to |-> to]]
  /\ UNCHANGED <<orders, crossed>>

\* ... and the event is written, whatever the status has become.
Writes(w) ==
  LET n == write[w].on
      to == write[w].to
  IN
  /\ write[w] # NoWrite
  /\ orders' = [orders EXCEPT ![n] = to] /\ write' = [write EXCEPT ![w] = NoWrite]
  /\ crossed' = IF to \in Over /\ \E v \in Writers \ {w} : write[v].on = n
                THEN crossed \cup {n} ELSE crossed \ {n}

MarkPaid(w, n) == Decides(w, n, {"reserved", "paid"}, "paid")
MarkPacked(w, n) == Decides(w, n, {"paid"}, "packed")
CancelsOrder(w, n) == Decides(w, n, {"reserved", "paid"}, "cancelled")

OrderComes ==
  /\ Len(orders) < MaxOrders
  /\ orders' = Append(orders, "reserved") /\ UNCHANGED <<write, crossed, buys, open, seed>>

\* Stripe's events, which pay a reservation only, and the kiosk's routes for one order.
OrderMoves(c) ==
  /\ \E n \in DOMAIN orders :
       \/ orders[n] # "paid" /\ MarkPaid(c, n)
       \/ MarkPacked(c, n) \/ CancelsOrder(c, n)
  /\ UNCHANGED <<buys, open, seed>>

OrderWritten(c) == Writes(c) /\ UNCHANGED <<buys, open, seed>>

\* The kiosk's rehearsal: an order is reserved, from a count made large enough ...
SeedReserve ==
  /\ seed = 0 /\ Len(orders) < MaxOrders
  /\ orders' = Append(orders, "reserved") /\ seed' = Len(orders) + 1
  /\ UNCHANGED <<write, crossed, buys, open>>

\* ... and paid, unless it is over by then, for which mark_paid raises.
SeedPay(c) ==
  /\ seed # 0 /\ seed' = 0
  /\ MarkPaid(c, seed) \/ (orders[seed] \in Over /\ UNCHANGED book)
  /\ UNCHANGED <<buys, open>>

\* The kiosk's start and stop.
DemoStartOrStop ==
  /\ open' \in BOOLEAN
  /\ UNCHANGED <<book, buys, seed>>

BuyComes ==
  /\ Len(buys) < MaxBuys
  /\ buys' = Append(buys, "pending") /\ UNCHANGED <<book, open, seed>>

World ==
  /\ \/ OrderComes \/ SeedReserve \/ DemoStartOrStop \/ BuyComes
     \/ \E c \in Callers : OrderMoves(c) \/ OrderWritten(c) \/ SeedPay(c)
  /\ UNCHANGED <<keys, wire, reader, request, fresh, clicked, gaveup, acts, doubled>>

WindowEnds(k) ==
  /\ fresh[k] /\ fresh' = [fresh EXCEPT ![k] = FALSE]
  /\ UNCHANGED <<shop, keys, wire, reader, request, clicked, gaveup, acts, doubled>>

-----------------------------------------------------------------------------
(* The keypad, the kiosk and the bridge's reader thread. *)

Pressed(k) == Len(keys) < MaxPresses /\ keys' = Append(keys, k)

\* poll_buttons: every new press of an action key is sent, lit or dark.
Press(k) ==
  /\ Pressed(k)
  /\ wire' = Append(wire, Len(keys) + 1)
  /\ UNCHANGED <<shop, reader, request, fresh, clicked, gaveup, acts, doubled>>

Post(p) == [request EXCEPT ![p] = [step |-> "debounce"]]

\* The kiosk's Approve and Reject post what the keys post.
Click(k) ==
  /\ Pressed(k) /\ k \in {"supply_buy", "cancel"} /\ Of(buys, "pending") # {}
  /\ request' = Post(Len(keys) + 1) /\ clicked' = TRUE
  /\ UNCHANGED <<shop, wire, reader, fresh, gaveup, acts, doubled>>

TakeAnyTime ==   \* (mutant) posted without waiting for the answer
  /\ wire # <<>>
  /\ reader' = Head(wire) /\ wire' = Tail(wire)
  /\ request' = Post(Head(wire))
  /\ UNCHANGED <<shop, keys, fresh, clicked, gaveup, acts, doubled>>

\* _handle_event_line: the reader posts, and waits.
Take ==
  /\ reader = 0 /\ wire # <<>>
  /\ reader' = Head(wire) /\ wire' = Tail(wire)
  /\ request' = Post(Head(wire))
  /\ UNCHANGED <<shop, keys, fresh, clicked, gaveup, acts, doubled>>

TryAgain ==   \* (mutant) a post that timed out is repeated
  /\ reader # 0
  /\ request' = Post(reader)
  /\ gaveup' = TRUE
  /\ UNCHANGED <<shop, keys, wire, reader, fresh, clicked, acts, doubled>>

\* Five seconds; the request goes on without anyone waiting for it.
GiveUp ==
  /\ reader # 0
  /\ reader' = 0 /\ gaveup' = TRUE
  /\ UNCHANGED <<shop, keys, wire, request, fresh, clicked, acts, doubled>>

-----------------------------------------------------------------------------
(* routes.py: one request for an action. *)

Goto(p, to) == request' = [request EXCEPT ![p] = to] /\ UNCHANGED reader

Answered(p) == Goto(p, [step |-> "answer"])

\* _pico_should_debounce reads the last press ...
ReadLast(p) ==
  /\ request[p].step = "debounce"
  /\ CASE keys[p] = "ready" -> Goto(p, [step |-> "pick"])
       [] keys[p] # "ready" /\ fresh[keys[p]] -> Answered(p)
       [] OTHER -> Goto(p, [step |-> "record"])
  /\ UNCHANGED <<shop, keys, wire, fresh, clicked, gaveup, acts, doubled>>

\* ... and records this one.
RecordPress(p) ==
  /\ request[p].step = "record"
  /\ fresh' = [fresh EXCEPT ![keys[p]] = TRUE]
  /\ doubled' = (doubled \/ fresh[keys[p]])
  /\ Goto(p, [step |-> "pick"])
  /\ UNCHANGED <<shop, keys, wire, clicked, gaveup, acts>>

\* No order: the shop, or the proposal that is pending by then.
TheShop == 0

Newest(S) == IF S = {} THEN {} ELSE {Max(S)}

\* A pending proposal, before the newest reservation, before the newest paid order.
Cancels ==
  CASE Of(buys, "pending") # {} -> {TheShop}
    [] Of(buys, "pending") = {} /\ Of(orders, "reserved") # {} -> Newest(Of(orders, "reserved"))
    [] OTHER -> Newest(Of(orders, "paid"))

\* What a key is about, if anything.
Targets(k) ==
  CASE k = "ready" -> {TheShop}
    [] k = "packed" -> IF Of(orders, "paid") = {} THEN {} ELSE {Min(Of(orders, "paid"))}
    [] k = "supply_buy" -> {TheShop : n \in Of(buys, "pending")}
    [] k = "cancel" -> Cancels

\* A key with nothing to act on is answered at once.
Pick(p) ==
  /\ request[p].step = "pick"
  /\ \/ \E t \in Targets(keys[p]) : Goto(p, [step |-> "act", on |-> t])
     \/ Targets(keys[p]) = {} /\ Answered(p)
  /\ UNCHANGED <<shop, keys, wire, fresh, clicked, gaveup, acts, doubled>>

Acts(p) == acts' = [acts EXCEPT ![p] = @ + 1]

Ready(p) ==
  /\ keys[p] = "ready"
  /\ open' = TRUE /\ Acts(p) /\ Answered(p)
  /\ UNCHANGED <<book, buys, seed>>

PackBlindly(p, n) ==   \* (mutant) what was found is packed
  /\ keys[p] = "packed"
  /\ Decides(p, n, {"reserved", "paid", "packed", "cancelled"}, "packed") /\ Goto(p, [step |-> "append"])
  /\ UNCHANGED <<buys, open, seed, acts>>

\* mark_packed raises for an order that is not paid any more.
PackOrder(p, n) ==
  /\ keys[p] = "packed"
  /\ \/ MarkPacked(p, n) /\ Goto(p, [step |-> "append"])
     \/ orders[n] # "paid" /\ UNCHANGED book /\ Answered(p)
  /\ UNCHANGED <<buys, open, seed, acts>>

\* cancel returns for an order that is over, and takes one that was paid meanwhile.
CancelOrder(p, n) ==
  /\ keys[p] = "cancel" /\ n # TheShop
  /\ \/ CancelsOrder(p, n) /\ Goto(p, [step |-> "append"])
     \/ orders[n] \in Over /\ UNCHANGED book /\ Answered(p)
  /\ UNCHANGED <<buys, open, seed, acts>>

\* approve_pending and reject_pending, on the newest that is pending by then.
Decide(p, n) ==
  /\ keys[p] \in {"supply_buy", "cancel"} /\ n = TheShop
  /\ IF Of(buys, "pending") = {}
     THEN UNCHANGED <<buys, acts>>
     ELSE /\ buys' = [buys EXCEPT ![Max(Of(buys, "pending"))] = IF keys[p] = "cancel" THEN "rejected" ELSE "approved"]
          /\ Acts(p)
  /\ Answered(p) /\ UNCHANGED <<book, open, seed>>

Act(p) ==
  LET on == request[p].on IN
  /\ request[p].step = "act"
  /\ Ready(p) \/ PackOrder(p, on) \/ CancelOrder(p, on) \/ Decide(p, on)
  /\ UNCHANGED <<keys, wire, fresh, clicked, gaveup, doubled>>

\* The store's append, the second half of mark_packed and cancel.
AppendOrder(p) ==
  /\ request[p].step = "append"
  /\ Writes(p) /\ Acts(p) /\ Answered(p)
  /\ UNCHANGED <<buys, open, seed, keys, wire, fresh, clicked, gaveup, doubled>>

\* The answer, an error too, reaches the bridge if that still waits for it.
Answer(p) ==
  /\ request[p].step = "answer"
  /\ request' = [request EXCEPT ![p] = Done]
  /\ reader' = IF reader = p THEN 0 ELSE reader
  /\ UNCHANGED <<shop, keys, wire, fresh, clicked, gaveup, acts, doubled>>

-----------------------------------------------------------------------------
Serve(p) ==
  ReadLast(p) \/ RecordPress(p) \/ Pick(p) \/ Act(p) \/ AppendOrder(p) \/ Answer(p)

ReadLoop == Take \/ GiveUp

Next ==
  \/ World \/ \E k \in Keys : Press(k) \/ Click(k) \/ WindowEnds(k)
  \/ ReadLoop \/ \E p \in Presses : Serve(p)

Spec == Init /\ [][Next]_vars
=============================================================================
