------------------------------- MODULE Stall -------------------------------
(***************************************************************************)
(* The services over the event store: orders, inventory, catalog and teach, *)
(* called by concurrent threads, with boot (hydrate, seed), process crash   *)
(* and restart.  A call is a small program: most services READ a projection *)
(* first, then APPEND (or take the transaction lock and append), then       *)
(* NOTIFY.  Anything may happen between two of these steps.                 *)
(*                                                                         *)
(* A call that raises or returns before it appends or locks changes no      *)
(* state: its guard is the condition under which it goes on.                *)
(***************************************************************************)
EXTENDS EventStore

CONSTANTS
  Main,        (* the thread that boots the process *)
  Defaults,    (* the items seeded at boot, in order *)
  SeedCount,   (* initial_count of a taught item *)
  Free,        (* items taught with price 0 *)
  Threshold,   (* reorder_threshold per item *)
  Qtys,        (* quantities customers ask for *)
  Counts,      (* counts a camera or an operator reports *)
  Ops,         (* the services each thread calls *)
  MayCrash,    (* whether the process can die *)
  MaxEvents    (* bound: no call starts once the log is this long *)

AllOps == {"reserve", "pay", "pack", "cancel", "reconcile", "activate", "teach"}

ASSUME StallAssumption ==
  /\ Main \in Threads
  /\ Defaults \in Seq(Items)
  /\ SeedCount \in [Items -> Nat]
  /\ Threshold \in [Items -> Nat]
  /\ Free \subseteq Items
  /\ Qtys \subseteq Nat \ {0}
  /\ Counts \subseteq Nat
  /\ Ops \in [Threads -> SUBSET AllOps]
  /\ MayCrash \in BOOLEAN
  /\ MaxEvents \in Nat

VARIABLES
  phase,       (* "hydrate" -> "seed" -> "up" *)
  hydrated,    (* events replayed so far by this boot *)
  call         (* what each thread is in the middle of *)

vars == <<storeVars, phase, hydrated, call>>

Idle == [op |-> "idle"]

\* Events about item i still to be appended one by one, and the notifications of
\* the last.
Emitting(i, es) == [op |-> "emit", item |-> i, todo |-> es]

Singles == {e \in Event : e.type \notin {"order_reserved", "item_taught", "order_cancelled"}}

Calls ==
  {Idle}
    \cup [op : {"emit"}, item : Items, todo : Seq(Singles)]
    \cup [op : {"reserve"}, order : OrderIds, item : Items, qty : Nat \ {0}]
    \cup [op : {"cancel-wait", "cancel"}, order : OrderIds, item : Items,
          qty : Nat \ {0}, status : Statuses]
    \cup [op : {"teach"}, item : Items]

\* A request reaches the service on a thread with nothing else to do.
Starts(t, op) ==
  /\ phase = "up" /\ call[t] = Idle /\ op \in Ops[t]
  /\ Len(log) < MaxEvents

Become(t, c) == call' = [call EXCEPT ![t] = c]

Booted == UNCHANGED <<phase, hydrated>>

-----------------------------------------------------------------------------
(* OrdersService.reserve *)

\* uuid4: an id no event and no call in flight carries.
FreshOrder(o) ==
  /\ Durable.order[o] = NoOrder
  /\ \A t \in Threads : call[t].op = "reserve" => call[t].order # o

ReserveBegin(t, o, i, q) ==
  /\ Starts(t, "reserve") /\ FreshOrder(o)
  /\ StoreBegin(t)
  /\ Become(t, [op |-> "reserve", order |-> o, item |-> i, qty |-> q])
  /\ Booted

CanReserveUnchecked(c) == c.item \in view.items \ Free   \* (mutant) no count check

\* The projection read inside the transaction; OrderReserved itself rejects a
\* total of 0 cents.
CanReserve(c) ==
  c.item \in view.items \ Free /\ view.count[c.item] >= c.qty

ReserveCommit(t) ==
  LET c == call[t] IN
  /\ c.op = "reserve" /\ CanReserve(c)
  /\ StoreCommit(t, << OrderReserved(c.order, c.item, c.qty),
                       CountSet(c.item, view.count[c.item] - c.qty, "manual") >>)
  /\ Become(t, Emitting(c.item, <<>>))
  /\ Booted

ReserveRefuse(t) ==
  /\ call[t].op = "reserve" /\ ~CanReserve(call[t])
  /\ StoreRollback(t)
  /\ Become(t, Idle)
  /\ Booted

-----------------------------------------------------------------------------
(* The services that read, decide and then append outside any transaction. *)

Resurrectable == {"reserved", "paid", "cancelled"}   \* (mutant)
Payable == {"reserved", "paid"}

\* Idempotent on (order, session); an order paid by another session is paid again.
MarkPaidRead(t, o, s) ==
  /\ Starts(t, "pay") /\ view.order[o].status \in Payable
  /\ ~(view.order[o].status = "paid" /\ view.order[o].session = s)
  /\ Become(t, Emitting(view.order[o].item, <<OrderPaid(o, s)>>))
  /\ UNCHANGED storeVars /\ Booted

Unpaid == {"reserved", "paid"}   \* (mutant)
Packable == {"paid"}

MarkPackedRead(t, o) ==
  /\ Starts(t, "pack") /\ view.order[o].status \in Packable
  /\ Become(t, Emitting(view.order[o].item, <<OrderPacked(o)>>))
  /\ UNCHANGED storeVars /\ Booted

FallsBelow(i, n) == view.count[i] > Threshold[i] /\ n < Threshold[i]   \* (mutant)

\* The reorder gate compares the reported count with the item read before the
\* CountSet was appended.
Descends(i, n) == view.count[i] > Threshold[i] /\ n <= Threshold[i]

ReconcileRead(t, i, n, src) ==
  /\ Starts(t, "reconcile") /\ i \in view.items
  /\ ~(view.count[i] = n /\ src = "model")
  /\ Become(t, Emitting(i, IF Descends(i, n) THEN << CountSet(i, n, src), StockLow(i, n) >>
                           ELSE << CountSet(i, n, src) >>))
  /\ UNCHANGED storeVars /\ Booted

SetActiveRead(t, i) ==
  /\ Starts(t, "activate") /\ i \in view.items
  /\ Become(t, Emitting(i, <<ActiveItemSet(i)>>))
  /\ UNCHANGED storeVars /\ Booted

\* The next store.append of the call, once the last one's subscribers are done.
Append1(t) ==
  /\ call[t].op = "emit" /\ call[t].todo # <<>> /\ outbox[t] = <<>>
  /\ StoreAppend(t, Head(call[t].todo))
  /\ Become(t, Emitting(call[t].item, Tail(call[t].todo)))
  /\ Booted

-----------------------------------------------------------------------------
(* OrdersService.cancel: the status is read before the lock, the count after. *)

Cancellable == {"reserved", "paid"}

CancelRead(t, o) ==
  LET ord == view.order[o] IN
  /\ Starts(t, "cancel") /\ ord.status \in Cancellable
  /\ Become(t, [op |-> "cancel-wait", order |-> o, item |-> ord.item,
                qty |-> ord.qty, status |-> ord.status])
  /\ UNCHANGED storeVars /\ Booted

CancelBegin(t) ==
  /\ call[t].op = "cancel-wait"
  /\ StoreBegin(t)
  /\ Become(t, [call[t] EXCEPT !.op = "cancel"])
  /\ Booted

CancelEventsNoReturn(c) == << OrderCancelled(c.order) >>   \* (mutant)

\* Only an order read as reserved gives its stock back.
CancelEvents(c) ==
  IF c.status = "reserved" /\ c.item \in view.items
  THEN << CountSet(c.item, view.count[c.item] + c.qty, "manual"), OrderCancelled(c.order) >>
  ELSE << OrderCancelled(c.order) >>

CancelCommit(t) ==
  /\ call[t].op = "cancel"
  /\ StoreCommit(t, CancelEvents(call[t]))
  /\ Become(t, Emitting(call[t].item, <<>>))
  /\ Booted

-----------------------------------------------------------------------------
(* TeachService.confirm, by an operator or by the boot that seeds the defaults. *)

FreshItem(i) ==
  /\ i \notin Durable.items
  /\ \A t \in Threads : call[t].op = "teach" => call[t].item # i

TeachBegin(t, i) ==
  /\ Starts(t, "teach") /\ FreshItem(i)
  /\ \A k \in DOMAIN Defaults : Defaults[k] # i
  /\ StoreBegin(t)
  /\ Become(t, [op |-> "teach", item |-> i])
  /\ Booted

TeachCommit(t) ==
  LET i == call[t].item IN
  /\ call[t].op = "teach"
  /\ StoreCommit(t, << ItemTaught(i, SeedCount[i]), ActiveItemSet(i) >>)
  /\ Become(t, Emitting(i, <<>>))
  /\ Booted

-----------------------------------------------------------------------------
(* The rest of _notify: the call returns after its last notification. *)

Notify(t) ==
  /\ StoreNotify(t)
  /\ IF Len(outbox[t]) = 1 /\ call[t].todo = <<>>
     THEN Become(t, Idle) ELSE UNCHANGED call
  /\ Booted

-----------------------------------------------------------------------------
(* Boot and crash. *)

LastRowLeft == hydrated + 1 < Len(log)   \* (mutant)
RowsLeft == hydrated < Len(log)

\* make_real_services: replay the log into empty projections, then subscribe.
Hydrate ==
  /\ phase = "hydrate"
  /\ IF RowsLeft
     THEN /\ view' = Apply(view, log[hydrated + 1])
          /\ hydrated' = hydrated + 1
          /\ UNCHANGED phase
     ELSE phase' = "seed" /\ UNCHANGED <<view, hydrated>>
  /\ UNCHANGED <<log, holder, outbox, replays, call>>

Missing(k) == Defaults[k] \notin view.items

\* _ensure_default_fruit: teach the first default that is missing.
Seed ==
  /\ phase = "seed" /\ call[Main] = Idle
  /\ \E k \in DOMAIN Defaults :
       /\ Missing(k) /\ \A j \in 1 .. k - 1 : ~Missing(j)
       /\ StoreBegin(Main)
       /\ Become(Main, [op |-> "teach", item |-> Defaults[k]])
  /\ Booted

Serve ==
  /\ phase = "seed" /\ call[Main] = Idle
  /\ \A k \in DOMAIN Defaults : ~Missing(k)
  /\ phase' = "up"
  /\ UNCHANGED <<storeVars, hydrated, call>>

Crash ==
  /\ MayCrash
  /\ StoreCrash
  /\ phase' = "hydrate" /\ hydrated' = 0
  /\ call' = [t \in Threads |-> Idle]

-----------------------------------------------------------------------------
Init ==
  /\ StoreInit
  /\ phase = "hydrate" /\ hydrated = 0
  /\ call = [t \in Threads |-> Idle]

\* A thread in the middle of a call goes on with it.
Continue(t) ==
  \/ ReserveCommit(t) \/ ReserveRefuse(t)
  \/ CancelBegin(t) \/ CancelCommit(t)
  \/ TeachCommit(t)
  \/ Append1(t) \/ Notify(t)

\* A thread takes up a request.
Request(t) ==
  \/ \E o \in OrderIds, i \in Items, q \in Qtys : ReserveBegin(t, o, i, q)
  \/ \E o \in OrderIds, s \in Sessions : MarkPaidRead(t, o, s)
  \/ \E o \in OrderIds : MarkPackedRead(t, o) \/ CancelRead(t, o)
  \/ \E i \in Items, n \in Counts, src \in Sources : ReconcileRead(t, i, n, src)
  \/ \E i \in Items : SetActiveRead(t, i) \/ TeachBegin(t, i)

Boot == Hydrate \/ Seed \/ Serve

Next == Boot \/ Crash \/ \E t \in Threads : Continue(t) \/ Request(t)

Spec == Init /\ [][Next]_vars

\* Threads are scheduled and locks are released, but nobody has to call.
FairSpec == Spec /\ WF_vars(Boot) /\ \A t \in Threads : WF_vars(Continue(t))
=============================================================================
