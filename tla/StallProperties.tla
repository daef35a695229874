--------------------------- MODULE StallProperties ---------------------------
(***************************************************************************)
(* What the services and the event store should guarantee.  Some of it      *)
(* holds for all interleavings of the threads, some only in behaviours in   *)
(* which no two calls about one item overlap (OrderlySpec).                 *)
(***************************************************************************)
EXTENDS Stall, FiniteSetsExt

\* Every variable has its type, in particular no physical_count is negative
\* and every pending notification is of a committed event (state/store.py,
\* state/events.py).
TypeOK ==
  /\ StoreTypeOK
  /\ phase \in {"hydrate", "seed", "up"}
  /\ hydrated \in 0 .. Len(log)
  /\ call \in [Threads -> Calls]

-----------------------------------------------------------------------------
(* Any number of threads, any crash. *)

Happened(type, o, n) ==
  \E k \in 1 .. n - 1 : log[k].type = type /\ log[k].order = o

\* In the log, nothing is paid, packed or cancelled that was not reserved
\* before, and nothing is packed that was not paid before, whatever stale
\* projection the service decided on (orders.py mark_paid, mark_packed, cancel).
LogIsCausal ==
  \A n \in 1 .. Len(log) :
    /\ log[n].type \in {"order_paid", "order_packed", "order_cancelled"} =>
         Happened("order_reserved", log[n].order, n)
    /\ log[n].type = "order_packed" => Happened("order_paid", log[n].order, n)

Pending(n) == \E t \in Threads : \E k \in DOMAIN outbox[t] : outbox[t][k] = n

\* An order or an item whose event was delivered is in the projections, also
\* after a restart: the asserts at the end of reserve (orders.py:90) and of
\* confirm (teach.py:160) cannot fail.
DeliveredIsVisible ==
  phase = "up" =>
    \A n \in 1 .. Len(log) : ~Pending(n) =>
      /\ log[n].type = "order_reserved" => view.order[log[n].order] # NoOrder
      /\ log[n].type = "item_taught" => log[n].item \in view.items

\* "If anything diverges, replay from the log" (docs/architecture.md:445):
\* however the last process interleaved its notifications and wherever it died,
\* the next one starts from exactly what the log says.
RestartHeals == phase = "seed" /\ outbox[Main] = <<>> => view = Durable

\* Once requests stop coming, the boot has ended and every call returned: no thread
\* is left waiting for the lock or in the middle of its notifications
\* (store.py:122-135).
CallsEnd ==
  <>[][~\E t \in Threads : Request(t)]_vars
    => <>[](phase = "up" /\ \A t \in Threads : call[t] = Idle)

-----------------------------------------------------------------------------
(* Calls about one item that do not overlap. *)

\* A call is under way from the moment it read a projection or took the lock until
\* its last notification is made.
Touches(t) == IF call[t] = Idle THEN {} ELSE {call[t].item}

\* At this moment no two threads are in a call about the same item.
Orderly == \A t, u \in Threads : t # u => Touches(t) \cap Touches(u) = {}

\* The behaviours in which that is always so: the threads share items and orders and
\* take turns with each.  Nothing in the code makes them take turns (orders.py:104-153
\* holds no lock from the read to the notification), so what is true here and false
\* of Spec is what overlapping calls on one item break.
OrderlySpec == Init /\ [][Next /\ Orderly']_vars

\* Nobody is in a call about item i.
AtRest(i) == phase = "up" /\ \A t \in Threads : i \notin Touches(t)

\* What the dashboard and the phone agent read of an item nobody works on, its orders
\* included, is what a replay of the log gives, whatever the threads are doing to the
\* other items (docs/architecture.md:439-445).
RestingViewIsReplay ==
  \A i \in Items : AtRest(i) =>
    /\ i \in view.items <=> i \in Durable.items
    /\ view.count[i] = Durable.count[i]
    /\ \A o \in OrderIds :
         \A seen \in {view.order[o], Durable.order[o]} :
           seen # NoOrder /\ seen.item = i => view.order[o] = Durable.order[o]

\* Each call is one atomic step on the true stock and orders, with crashes and
\* restarts as stutters.
LedgerOfLog ==
  INSTANCE Ledger WITH taught <- Durable.items, stock <- Durable.count,
                       order <- Durable.order
ImplementsLedger == LedgerOfLog!Spec

\* How much fruit the orders of a set ask for.
Asked(v, S) == SumFunctionOnSet([o \in S |-> v.order[o].qty], S)

\* Cancelled before it was paid: the stock was given back.
GivenBack(ord) == ord.status = "cancelled" /\ ord.session = NoSession

\* The orders that keep fruit of item i: the live ones, and those cancelled after they
\* were paid.
Keeping(v, i) ==
  {o \in OrderIds : /\ v.order[o] # NoOrder /\ v.order[o].item = i
                    /\ ~GivenBack(v.order[o])}

\* What there is of an item, on the counter or kept by its orders.
Fruit(v, i) == v.count[i] + Asked(v, Keeping(v, i))

\* Fruit is neither created nor lost by any reservation, payment, packing, cancellation,
\* crash or restart: how much there is of an item changes only where a report of the
\* camera or of an operator, an append of its own, replaces the count (orders.py
\* reserve, cancel; inventory.py:49-60).
FruitIsConserved ==
  [][\A i \in Durable.items :
       Fruit(Durable', i) # Fruit(Durable, i) =>
         /\ Len(log') = Len(log) + 1
         /\ log'[Len(log')].type = "count_set" /\ log'[Len(log')].item = i]_replays

Live(v, i) == {o \in Keeping(v, i) : v.order[o].status # "cancelled"}

\* The orders that hold stock never ask for more than there was: of two
\* reservers of the last banana one loses (orders.py:3-8).
NoOversell == \A i \in Durable.items : Asked(Durable, Live(Durable, i)) <= SeedCount[i]

Lifecycle == { <<"none", "reserved">>, <<"reserved", "paid">>, <<"reserved", "cancelled">>,
               <<"paid", "packed">>, <<"paid", "cancelled">> }

\* "Reservation lifecycle: reserved -> (paid | cancelled). Paid orders are then packed"
\* (events.py:117-118); the services also let a paid order be cancelled.  A payment that
\* read the order before a cancellation of another thread, and is appended after it,
\* breaks this.
LifecycleRespected ==
  \A n \in 1 .. Len(log) : \A o \in OrderIds :
    LET was == replays[n].order[o].status
        is  == replays[n + 1].order[o].status
    IN  was # is => <<was, is>> \in Lifecycle

-----------------------------------------------------------------------------
(* Low stock. *)

Rest == phase = "up" /\ \A t \in Threads : call[t] = Idle

\* Event n lowered item i from above its threshold to it or below.
Crosses(n, i) ==
  /\ i \in replays[n].items
  /\ replays[n].count[i] > Threshold[i] /\ replays[n + 1].count[i] <= Threshold[i]

Raised(n, i) == \E m \in n + 1 .. Len(log) : log[m].type = "stock_low" /\ log[m].item = i

\* Every drop to the threshold or below that the camera saw since the process started is
\* followed by its StockLow once the calls have returned (inventory.py:62-74).  A process
\* that dies between the two appends never raises it.
SeenDropRaisesStockLow ==
  Rest => \A n \in hydrated + 1 .. Len(log) : \A i \in Items :
            (log[n].type = "count_set" /\ log[n].source = "model" /\ Crosses(n, i)) => Raised(n, i)
=============================================================================
