----------------------------- MODULE StallProofs -----------------------------
(***************************************************************************)
(* Proofs about the stall for any threads, items, orders and counts.  For   *)
(* every interleaving and any crash: types, the order of causes in the log, *)
(* the lock, restarts, that what was delivered is visible.  For behaviours  *)
(* in which no two calls about one item overlap: that what is read of a     *)
(* resting item is the log's, that each call is one step of the ledger,     *)
(* that fruit is conserved, that seen drops raise StockLow, and that the    *)
(* services do what their in-memory fakes do.                               *)
(***************************************************************************)
EXTENDS Stubs, SequenceTheorems, SetLemmas

-----------------------------------------------------------------------------
(* The projections. *)

\* Applying an event of the log to a well-formed view gives a well-formed view
\* (projections.py apply, both classes).
LEMMA ApplyOrdersType ==
  ASSUME NEW v \in View, NEW e \in Event
  PROVE  ApplyOrders(v, e) \in View
<1>1. CASE e.type = "order_reserved"
  <2>1. e \in [type : {"order_reserved"}, order : OrderIds, item : Items, qty : Nat \ {0}]
    BY <1>1 DEF Event, CatalogEvent, OrderEvent
  <2> DEFINE r == [status |-> "reserved", item |-> e.item, qty |-> e.qty, session |-> NoSession]
  <2>2. r \in Order
    BY <2>1 DEF Order, Statuses
  <2>3. ApplyOrders(v, e) = [v EXCEPT !.order = [v.order EXCEPT ![e.order] = r]]
    BY <1>1 DEF ApplyOrders
  <2>4. QED
    BY <2>1, <2>2, <2>3 DEF View
<1>2. ASSUME NEW o \in OrderIds, v.order[o] # NoOrder, NEW st \in Statuses,
             NEW s \in Sessions \cup {NoSession}
      PROVE  SetStatus(v, o, st, s) \in View
  <2>1. v.order[o] \in Order
    BY <1>2 DEF View
  <2>2. [v.order[o] EXCEPT !.status = st, !.session = s] \in Order
    BY <2>1, <1>2 DEF Order
  <2>3. QED
    BY <2>2 DEF SetStatus, View
<1>3. CASE e.type = "order_paid" /\ v.order[e.order] # NoOrder
  <2>1. e.order \in OrderIds /\ e.session \in Sessions
    BY <1>3 DEF Event, CatalogEvent, OrderEvent
  <2>2. ApplyOrders(v, e) = SetStatus(v, e.order, "paid", e.session)
    BY <1>3 DEF ApplyOrders
  <2>3. QED
    BY <1>2, <1>3, <2>1, <2>2 DEF Statuses
<1>4. CASE e.type \in {"order_packed", "order_cancelled"} /\ v.order[e.order] # NoOrder
  <2>1. e.order \in OrderIds
    BY <1>4 DEF Event, CatalogEvent, OrderEvent
  <2>2. v.order[e.order].session \in Sessions \cup {NoSession}
    BY <1>4, <2>1 DEF View, Order
  <2>3. \E st \in Statuses :
          ApplyOrders(v, e) = SetStatus(v, e.order, st, v.order[e.order].session)
    BY <1>4 DEF ApplyOrders, Statuses
  <2>4. QED
    BY <1>2, <1>4, <2>1, <2>2, <2>3
<1>5. QED
  <2>1. CASE ~(\/ e.type = "order_reserved"
               \/ e.type = "order_paid" /\ v.order[e.order] # NoOrder
               \/ e.type \in {"order_packed", "order_cancelled"} /\ v.order[e.order] # NoOrder)
    BY <2>1 DEF ApplyOrders
  <2>2. QED
    BY <1>1, <1>3, <1>4, <2>1

LEMMA ApplyCatalogType ==
  ASSUME NEW v \in View, NEW e \in Event
  PROVE  ApplyCatalog(v, e) \in View
<1>1. CASE e.type = "item_taught"
  <2>1. e.item \in Items /\ e.count \in Nat
    BY <1>1 DEF Event, CatalogEvent, OrderEvent
  <2>2. QED
    BY <1>1, <2>1 DEF ApplyCatalog, View
<1>2. CASE e.type = "active_item_set"
  <2>1. e.item \in Items
    BY <1>2 DEF Event, CatalogEvent, OrderEvent
  <2>2. QED
    BY <1>2, <2>1 DEF ApplyCatalog, View
<1>3. CASE e.type = "count_set" /\ e.item \in v.items
  <2>1. e.item \in Items /\ e.count \in Nat
    BY <1>3 DEF Event, CatalogEvent, OrderEvent
  <2>2. QED
    BY <1>3, <2>1 DEF ApplyCatalog, View
<1>4. QED
  BY <1>1, <1>2, <1>3 DEF ApplyCatalog

LEMMA ApplyType ==
  ASSUME NEW v \in View, NEW e \in Event
  PROVE  Apply(v, e) \in View
BY ApplyOrdersType, ApplyCatalogType DEF Apply

-----------------------------------------------------------------------------
(* The event store. *)

\* Rows are only added, one or two at a time, and the history keeps the fold of
\* every prefix of the log (store.py append, _TransactionalAppender.append).
LEMMA RecordFacts ==
  ASSUME StoreTypeOK, NEW es \in Seq(Event), Len(es) \in {1, 2}, Record(es)
  PROVE  /\ log' \in Seq(Event) /\ Len(log') = Len(log) + Len(es)
         /\ \A n \in 1 .. Len(log) : log'[n] = log[n]
         /\ \A n \in 1 .. Len(es) : log'[Len(log) + n] = es[n]
         /\ replays' \in Seq(View) /\ Len(replays') = Len(log') + 1
         /\ \A n \in 1 .. Len(replays) : replays'[n] = replays[n]
         /\ \A n \in Len(log) + 1 .. Len(log') : replays'[n + 1] = Apply(replays'[n], log'[n])
<1> DEFINE a == Apply(Durable, es[1])
           b == Apply(a, es[2])
<1>1. log \in Seq(Event) /\ replays \in Seq(View) /\ Len(replays) = Len(log) + 1
  BY DEF StoreTypeOK
<1>2. log' = log \o es
  BY DEF Record
<1>2a. /\ log' \in Seq(Event) /\ Len(log') = Len(log) + Len(es)
       /\ \A n \in 1 .. Len(log) + Len(es) :
            log'[n] = IF n <= Len(log) THEN log[n] ELSE es[n - Len(log)]
  BY <1>1, <1>2, ConcatProperties
<1>3. Durable \in View /\ es[1] \in Event
  BY <1>1 DEF Durable
<1>4. a \in View
  BY <1>3, ApplyType
<1>5. CASE Len(es) = 1
  <2>1. replays' = replays \o <<a>>
    BY <1>5 DEF Record
  <2>2. replays' \in Seq(View) /\ Len(replays') = Len(replays) + 1
    BY <1>1, <1>4, <2>1
  <2>3. /\ \A n \in 1 .. Len(replays) : replays'[n] = replays[n]
        /\ replays'[Len(replays) + 1] = a
    BY <1>1, <1>4, <2>1
  <2>4. log'[Len(log) + 1] = es[1] /\ Len(log') = Len(log) + 1
    BY <1>1, <1>2a, <1>5
  <2>5. replays'[Len(log) + 1] = Durable
    BY <1>1, <2>3 DEF Durable
  <2>6. \A n \in Len(log) + 1 .. Len(log') : replays'[n + 1] = Apply(replays'[n], log'[n])
    BY <1>1, <2>3, <2>4, <2>5
  <2>7. QED
    BY <1>1, <1>2a, <1>5, <2>2, <2>3, <2>4, <2>6
<1>6. CASE Len(es) = 2
  <2>0. es[2] \in Event
    BY <1>6, ElementOfSeq
  <2>1. b \in View
    BY <1>4, <2>0, ApplyType
  <2>2. replays' = replays \o <<a, b>>
    BY <1>6 DEF Record
  <2>3. replays' \in Seq(View) /\ Len(replays') = Len(replays) + 2
    BY <1>1, <1>4, <2>1, <2>2
  <2>4. /\ \A n \in 1 .. Len(replays) : replays'[n] = replays[n]
        /\ replays'[Len(replays) + 1] = a
        /\ replays'[Len(replays) + 2] = b
    BY <1>1, <1>4, <2>1, <2>2
  <2>5. /\ log'[Len(log) + 1] = es[1] /\ log'[Len(log) + 2] = es[2]
        /\ Len(log') = Len(log) + 2
    BY <1>1, <1>2a, <1>6
  <2>6. replays'[Len(log) + 1] = Durable
    BY <1>1, <2>4 DEF Durable
  <2>7. \A n \in Len(log) + 1 .. Len(log') : replays'[n + 1] = Apply(replays'[n], log'[n])
    <3> SUFFICES ASSUME NEW n \in Len(log) + 1 .. Len(log')
                 PROVE  replays'[n + 1] = Apply(replays'[n], log'[n])
      OBVIOUS
    <3>1. n = Len(log) + 1 \/ n = Len(log) + 2
      BY <1>1, <2>5
    <3>2. QED
      BY <1>1, <2>4, <2>5, <2>6, <3>1
  <2>8. QED
    BY <1>1, <1>2a, <1>6, <2>3, <2>4, <2>5, <2>7
<1>7. QED
  BY <1>5, <1>6

\* Pending notifications stay within the log while it grows.
LEMMA OutboxGrows ==
  ASSUME NEW m \in Nat, NEW n \in Nat, m <= n, NEW f \in [Threads -> Seq(1 .. m)]
  PROVE  f \in [Threads -> Seq(1 .. n)]
<1>1. ASSUME NEW t \in Threads PROVE f[t] \in Seq(1 .. n)
  <2>1. 1 .. m \subseteq 1 .. n
    OBVIOUS
  <2>2. QED
    BY <2>1, SeqMonotonic
<1>2. QED
  BY <1>1

\* Every operation of the store keeps its types (state/store.py:87-142).
LEMMA AppendType ==
  ASSUME StoreTypeOK, NEW t \in Threads, NEW e \in Event, StoreAppend(t, e)
  PROVE  StoreTypeOK' /\ Len(log') = Len(log) + 1
<1>1. <<e>> \in Seq(Event) /\ Len(<<e>>) = 1 /\ Record(<<e>>)
  BY DEF StoreAppend
<1>2. /\ log' \in Seq(Event) /\ Len(log') = Len(log) + 1
      /\ replays' \in Seq(View) /\ Len(replays') = Len(log') + 1
  BY <1>1, RecordFacts
<1>3. outbox \in [Threads -> Seq(1 .. Len(log'))]
  BY <1>2, OutboxGrows DEF StoreTypeOK
<1>4. <<Len(log) + 1>> \in Seq(1 .. Len(log'))
  BY <1>2 DEF StoreTypeOK
<1>5. outbox' \in [Threads -> Seq(1 .. Len(log'))]
  BY <1>3, <1>4 DEF StoreAppend
<1>6. QED
  BY <1>2, <1>5 DEF StoreTypeOK, StoreAppend

LEMMA CommitType ==
  ASSUME StoreTypeOK, NEW t \in Threads, NEW es \in Seq(Event), Len(es) \in {1, 2},
         StoreCommit(t, es)
  PROVE  StoreTypeOK'
<1>1. Record(es)
  BY DEF StoreCommit
<1>2. /\ log' \in Seq(Event) /\ Len(log') = Len(log) + Len(es)
      /\ replays' \in Seq(View) /\ Len(replays') = Len(log') + 1
  BY <1>1, RecordFacts
<1>3. outbox \in [Threads -> Seq(1 .. Len(log'))]
  BY <1>2, OutboxGrows DEF StoreTypeOK
<1>4. [n \in 1 .. Len(es) |-> Len(log) + n] \in Seq(1 .. Len(log'))
  <2>1. Len(log) \in Nat
    BY DEF StoreTypeOK
  <2>2. [n \in 1 .. Len(es) |-> Len(log) + n] \in [1 .. Len(es) -> 1 .. Len(log')]
    BY <1>2, <2>1
  <2>3. QED
    BY <2>2, SeqDef
<1>5. outbox' \in [Threads -> Seq(1 .. Len(log'))]
  BY <1>3, <1>4 DEF StoreCommit, Offsets
<1>6. QED
  BY <1>2, <1>5 DEF StoreTypeOK, StoreCommit

LEMMA NotifyType ==
  ASSUME StoreTypeOK, NEW t \in Threads, StoreNotify(t)
  PROVE  StoreTypeOK' /\ Head(outbox[t]) \in 1 .. Len(log)
<1>1. outbox[t] \in Seq(1 .. Len(log)) /\ outbox[t] # <<>>
  BY DEF StoreTypeOK, StoreNotify
<1>2. Head(outbox[t]) \in 1 .. Len(log) /\ Tail(outbox[t]) \in Seq(1 .. Len(log))
  BY <1>1, HeadTailProperties
<1>3. log[Head(outbox[t])] \in Event
  BY <1>2, ElementOfSeq DEF StoreTypeOK
<1>4. view' \in View
  BY <1>3, ApplyType DEF StoreTypeOK, StoreNotify
<1>5. QED
  BY <1>2, <1>4 DEF StoreTypeOK, StoreNotify

LEMMA LockType ==
  ASSUME StoreTypeOK, NEW t \in Threads, StoreBegin(t) \/ StoreRollback(t)
  PROVE  StoreTypeOK'
BY DEF StoreTypeOK, StoreBegin, StoreRollback

LEMMA EmptyViewType == EmptyView \in View
BY DEF EmptyView, View

LEMMA CrashType ==
  ASSUME StoreTypeOK, StoreCrash
  PROVE  StoreTypeOK'
BY EmptyViewType DEF StoreTypeOK, StoreCrash

-----------------------------------------------------------------------------
(* The services. *)

\* The events the services append are well formed.
LEMMA EventTypes ==
  /\ \A i \in Items, n \in Nat, src \in Sources : CountSet(i, n, src) \in Singles
  /\ \A i \in Items, n \in Nat : StockLow(i, n) \in Singles
  /\ \A i \in Items : ActiveItemSet(i) \in Singles
  /\ \A o \in OrderIds, s \in Sessions : OrderPaid(o, s) \in Singles
  /\ \A o \in OrderIds : OrderPacked(o) \in Singles
  /\ \A i \in Items, n \in Nat : ItemTaught(i, n) \in Event
  /\ \A o \in OrderIds : OrderCancelled(o) \in Event
  /\ \A o \in OrderIds, i \in Items, q \in Nat \ {0} : OrderReserved(o, i, q) \in Event
  /\ Singles \subseteq Event
BY DEF CountSet, StockLow, ActiveItemSet, OrderPaid, OrderPacked, ItemTaught,
       OrderCancelled, OrderReserved, Singles, Event, CatalogEvent, OrderEvent, Sources

\* A thread's call stays one of the kinds the services have.
LEMMA CallType ==
  ASSUME call \in [Threads -> Calls], NEW t \in Threads, NEW c \in Calls, Become(t, c)
  PROVE  call' \in [Threads -> Calls]
BY DEF Become

LEMMA IdleType == Idle \in Calls /\ \A i \in Items : Emitting(i, <<>>) \in Calls
BY DEF Calls, Emitting

LEMMA EmittingType ==
  ASSUME NEW i \in Items, NEW es \in Seq(Singles)
  PROVE  Emitting(i, es) \in Calls
BY DEF Calls, Emitting

LEMMA EmittingOne ==
  ASSUME NEW i \in Items, NEW e \in Singles
  PROVE  Emitting(i, <<e>>) \in Calls
<1>1. <<e>> \in Seq(Singles)
  OBVIOUS
<1>2. QED
  BY <1>1, EmittingType

\* What call[t] can be, by its op.
LEMMA CallFields ==
  ASSUME TypeOK, NEW t \in Threads
  PROVE  /\ call[t].op = "reserve" =>
              call[t] \in [op : {"reserve"}, order : OrderIds, item : Items, qty : Nat \ {0}]
         /\ call[t].op = "emit" => call[t] \in [op : {"emit"}, item : Items, todo : Seq(Singles)]
         /\ call[t].op \in {"cancel-wait", "cancel"} =>
              call[t] \in [op : {"cancel-wait", "cancel"}, order : OrderIds, item : Items,
                           qty : Nat \ {0}, status : Statuses]
         /\ call[t].op = "teach" => call[t] \in [op : {"teach"}, item : Items]
<1>1. call[t] \in Calls
  BY DEF TypeOK
<1>2. Idle.op = "idle"
  BY DEF Idle
<1>3. QED
  BY <1>1, <1>2 DEF Calls

\* The rows of the three transactions are well formed; the count a reservation
\* writes is not negative because the stock was checked.
LEMMA BatchTypes ==
  ASSUME TypeOK, NEW t \in Threads
  PROVE  /\ call[t].op = "reserve" /\ CanReserve(call[t]) =>
              << OrderReserved(call[t].order, call[t].item, call[t].qty),
                 CountSet(call[t].item, view.count[call[t].item] - call[t].qty, "manual") >>
                \in Seq(Event)
         /\ call[t].op = "cancel" =>
              CancelEvents(call[t]) \in Seq(Event) /\ Len(CancelEvents(call[t])) \in {1, 2}
         /\ call[t].op = "teach" =>
              << ItemTaught(call[t].item, SeedCount[call[t].item]), ActiveItemSet(call[t].item) >>
                \in Seq(Event)
<1>0. \A i \in Items : view.count[i] \in Nat
  BY DEF TypeOK, StoreTypeOK, View
<1>1. ASSUME call[t].op = "reserve", CanReserve(call[t])
      PROVE  << OrderReserved(call[t].order, call[t].item, call[t].qty),
                CountSet(call[t].item, view.count[call[t].item] - call[t].qty, "manual") >>
               \in Seq(Event)
  <2>1. call[t].order \in OrderIds /\ call[t].item \in Items /\ call[t].qty \in Nat \ {0}
    BY <1>1, CallFields
  <2>2. view.count[call[t].item] - call[t].qty \in Nat
    BY <1>0, <1>1, <2>1 DEF CanReserve
  <2>3. /\ OrderReserved(call[t].order, call[t].item, call[t].qty) \in Event
        /\ CountSet(call[t].item, view.count[call[t].item] - call[t].qty, "manual") \in Event
    BY <2>1, <2>2, EventTypes DEF Sources
  <2>4. QED
    BY <2>3
<1>2. ASSUME call[t].op = "cancel"
      PROVE  CancelEvents(call[t]) \in Seq(Event) /\ Len(CancelEvents(call[t])) \in {1, 2}
  <2>1. call[t].order \in OrderIds /\ call[t].item \in Items /\ call[t].qty \in Nat
    BY <1>2, CallFields
  <2>2. view.count[call[t].item] + call[t].qty \in Nat
    BY <1>0, <2>1
  <2>3. /\ CountSet(call[t].item, view.count[call[t].item] + call[t].qty, "manual") \in Event
        /\ OrderCancelled(call[t].order) \in Event
    BY <2>1, <2>2, EventTypes DEF Sources
  <2>4. QED
    BY <2>3 DEF CancelEvents
<1>3. ASSUME call[t].op = "teach"
      PROVE  << ItemTaught(call[t].item, SeedCount[call[t].item]), ActiveItemSet(call[t].item) >>
               \in Seq(Event)
  <2>1. call[t].item \in Items /\ SeedCount[call[t].item] \in Nat
    BY <1>3, CallFields, StallAssumption
  <2>2. QED
    BY <2>1, EventTypes
<1>4. QED
  BY <1>1, <1>2, <1>3

\* Every step of the stall keeps the types.
LEMMA TypeStep == TypeOK /\ [Next]_vars => TypeOK'
<1> SUFFICES ASSUME TypeOK, [Next]_vars PROVE TypeOK'
  OBVIOUS
<1> USE DEF Booted
<1>0. /\ StoreTypeOK /\ phase \in {"hydrate", "seed", "up"}
      /\ hydrated \in 0 .. Len(log) /\ call \in [Threads -> Calls]
      /\ Len(log) \in Nat
  BY DEF TypeOK, StoreTypeOK
<1>a. ASSUME NEW t \in Threads, NEW c \in Calls, Become(t, c), Booted,
             StoreTypeOK', Len(log') >= Len(log)
      PROVE  TypeOK'
  <2>1. Len(log') \in Nat
    BY <1>a DEF StoreTypeOK
  <2>2. QED
    BY <1>0, <1>a, <2>1, CallType DEF TypeOK
<1>b. UNCHANGED storeVars => StoreTypeOK' /\ Len(log') = Len(log)
  BY <1>0 DEF storeVars, StoreTypeOK
<1>c. ASSUME NEW t \in Threads, NEW es \in Seq(Event), Len(es) \in {1, 2}, StoreCommit(t, es)
      PROVE  StoreTypeOK' /\ Len(log') >= Len(log)
  <2>1. Len(log') = Len(log) + Len(es)
    BY <1>0, <1>c, RecordFacts DEF StoreCommit
  <2>2. QED
    BY <1>0, <1>c, <2>1, CommitType
<1>1. ASSUME NEW t \in Threads, NEW o \in OrderIds, NEW i \in Items, NEW q \in Qtys,
             ReserveBegin(t, o, i, q)
      PROVE  TypeOK'
  <2>1. [op |-> "reserve", order |-> o, item |-> i, qty |-> q] \in Calls
    BY StallAssumption DEF Calls
  <2>2. StoreTypeOK' /\ Len(log') >= Len(log)
    BY <1>0, <1>1, LockType DEF ReserveBegin, StoreBegin
  <2>3. QED
    BY <1>a, <1>1, <2>1, <2>2 DEF ReserveBegin
<1>2. ASSUME NEW t \in Threads, ReserveCommit(t) PROVE TypeOK'
  <2>1. call[t].item \in Items
    BY <1>2, CallFields DEF ReserveCommit
  <2>2. Emitting(call[t].item, <<>>) \in Calls
    BY <2>1, IdleType
  <2>3. QED
    BY <1>a, <1>c, <1>2, <2>2, BatchTypes DEF ReserveCommit
<1>3. ASSUME NEW t \in Threads, ReserveRefuse(t) PROVE TypeOK'
  <2>1. StoreTypeOK' /\ Len(log') >= Len(log)
    BY <1>0, <1>3, LockType DEF ReserveRefuse, StoreRollback
  <2>2. QED
    BY <1>a, <1>3, <2>1, IdleType DEF ReserveRefuse
<1>4. ASSUME NEW t \in Threads, NEW o \in OrderIds, NEW s \in Sessions, MarkPaidRead(t, o, s)
      PROVE  TypeOK'
  <2>0. OrderPaid(o, s) \in Singles
    BY EventTypes
  <2>1. Emitting(view.order[o].item, <<OrderPaid(o, s)>>) \in Calls
    <3>1. view.order[o] \in Order
      BY <1>0, <1>4 DEF MarkPaidRead, StoreTypeOK, View, NoOrder, Payable
    <3>2. view.order[o].item \in Items
      BY <3>1 DEF Order
    <3>3. QED
      BY <2>0, <3>2, EmittingOne
  <2>2. QED
    BY <1>0, <1>a, <1>b, <1>4, <2>1 DEF MarkPaidRead
<1>5. ASSUME NEW t \in Threads, NEW o \in OrderIds, MarkPackedRead(t, o) PROVE TypeOK'
  <2>0. OrderPacked(o) \in Singles
    BY EventTypes
  <2>1. Emitting(view.order[o].item, <<OrderPacked(o)>>) \in Calls
    <3>1. view.order[o] \in Order
      BY <1>0, <1>5 DEF MarkPackedRead, StoreTypeOK, View, NoOrder, Packable
    <3>2. view.order[o].item \in Items
      BY <3>1 DEF Order
    <3>3. QED
      BY <2>0, <3>2, EmittingOne
  <2>2. QED
    BY <1>0, <1>a, <1>b, <1>5, <2>1 DEF MarkPackedRead
<1>6. ASSUME NEW t \in Threads, NEW i \in Items, NEW n \in Counts, NEW src \in Sources,
             ReconcileRead(t, i, n, src)
      PROVE  TypeOK'
  <2>1. CountSet(i, n, src) \in Singles /\ StockLow(i, n) \in Singles
    BY EventTypes, StallAssumption
  <2>2. /\ << CountSet(i, n, src), StockLow(i, n) >> \in Seq(Singles)
        /\ << CountSet(i, n, src) >> \in Seq(Singles)
    BY <2>1
  <2>3. PICK es \in Seq(Singles) : Become(t, Emitting(i, es))
    BY <1>6, <2>2 DEF ReconcileRead
  <2>4. QED
    BY <1>0, <1>a, <1>b, <1>6, <2>3, EmittingType DEF ReconcileRead
<1>7. ASSUME NEW t \in Threads, NEW i \in Items, SetActiveRead(t, i) PROVE TypeOK'
  <2>0. ActiveItemSet(i) \in Singles
    BY EventTypes
  <2>1. Emitting(i, <<ActiveItemSet(i)>>) \in Calls
    BY <2>0, EmittingOne
  <2>2. QED
    BY <1>0, <1>a, <1>b, <1>7, <2>1 DEF SetActiveRead
<1>8. ASSUME NEW t \in Threads, Append1(t) PROVE TypeOK'
  <2>1. call[t].todo \in Seq(Singles) /\ call[t].todo # <<>> /\ call[t].item \in Items
    BY <1>8, CallFields DEF Append1
  <2>2. Head(call[t].todo) \in Event /\ Emitting(call[t].item, Tail(call[t].todo)) \in Calls
    BY <2>1, HeadTailProperties, EventTypes, EmittingType
  <2>3. StoreTypeOK' /\ Len(log') >= Len(log)
    BY <1>0, <1>8, <2>2, AppendType DEF Append1
  <2>4. QED
    BY <1>a, <1>8, <2>2, <2>3 DEF Append1
<1>9. ASSUME NEW t \in Threads, NEW o \in OrderIds, CancelRead(t, o) PROVE TypeOK'
  <2>1. view.order[o] \in Order
    BY <1>0, <1>9 DEF CancelRead, StoreTypeOK, View, NoOrder, Cancellable
  <2>2. [op |-> "cancel-wait", order |-> o, item |-> view.order[o].item,
         qty |-> view.order[o].qty, status |-> view.order[o].status] \in Calls
    BY <2>1 DEF Order, Calls
  <2>3. QED
    BY <1>0, <1>a, <1>b, <1>9, <2>2 DEF CancelRead
<1>10. ASSUME NEW t \in Threads, CancelBegin(t) PROVE TypeOK'
  <2>1. [call[t] EXCEPT !.op = "cancel"] \in Calls
    BY <1>10, CallFields DEF CancelBegin, Calls
  <2>2. StoreTypeOK' /\ Len(log') >= Len(log)
    BY <1>0, <1>10, LockType DEF CancelBegin, StoreBegin
  <2>3. QED
    BY <1>a, <1>10, <2>1, <2>2 DEF CancelBegin
<1>11. ASSUME NEW t \in Threads, CancelCommit(t) PROVE TypeOK'
  <2>1. call[t].item \in Items
    BY <1>11, CallFields DEF CancelCommit
  <2>2. Emitting(call[t].item, <<>>) \in Calls
    BY <2>1, IdleType
  <2>3. QED
    BY <1>a, <1>c, <1>11, <2>2, BatchTypes DEF CancelCommit
<1>12. ASSUME NEW t \in Threads, NEW i \in Items, TeachBegin(t, i) PROVE TypeOK'
  <2>1. [op |-> "teach", item |-> i] \in Calls
    BY DEF Calls
  <2>2. StoreTypeOK' /\ Len(log') >= Len(log)
    BY <1>0, <1>12, LockType DEF TeachBegin, StoreBegin
  <2>3. QED
    BY <1>a, <1>12, <2>1, <2>2 DEF TeachBegin
<1>13. ASSUME NEW t \in Threads, TeachCommit(t) PROVE TypeOK'
  <2>1. call[t].item \in Items
    BY <1>13, CallFields DEF TeachCommit
  <2>2. Emitting(call[t].item, <<>>) \in Calls
    BY <2>1, IdleType
  <2>3. QED
    BY <1>a, <1>c, <1>13, <2>2, BatchTypes DEF TeachCommit
<1>14. ASSUME NEW t \in Threads, Notify(t) PROVE TypeOK'
  <2>1. StoreTypeOK' /\ Len(log') = Len(log)
    BY <1>0, <1>14, NotifyType DEF Notify, StoreNotify
  <2>2. call' \in [Threads -> Calls]
    BY <1>0, <1>14, CallType, IdleType DEF Notify
  <2>3. QED
    BY <1>0, <1>14, <2>1, <2>2 DEF Notify, TypeOK
<1>15. ASSUME Hydrate PROVE TypeOK'
  <2>1. CASE hydrated < Len(log)
    <3>1. log[hydrated + 1] \in Event
      BY <1>0, <2>1, ElementOfSeq DEF StoreTypeOK
    <3>2. view' \in View
      BY <1>0, <1>15, <2>1, <3>1, ApplyType DEF Hydrate, RowsLeft, StoreTypeOK
    <3>3. QED
      BY <1>0, <1>15, <2>1, <3>2 DEF Hydrate, RowsLeft, TypeOK, StoreTypeOK
  <2>2. CASE ~(hydrated < Len(log))
    BY <1>0, <1>15, <2>2 DEF Hydrate, RowsLeft, TypeOK, StoreTypeOK
  <2>3. QED
    BY <2>1, <2>2
<1>16. ASSUME Seed PROVE TypeOK'
  <2>1. PICK k \in DOMAIN Defaults : Become(Main, [op |-> "teach", item |-> Defaults[k]])
    BY <1>16 DEF Seed
  <2>2. Defaults[k] \in Items
    BY StallAssumption, ElementOfSeq, LenProperties
  <2>3. [op |-> "teach", item |-> Defaults[k]] \in Calls
    BY <2>2 DEF Calls
  <2>4. StoreBegin(Main) /\ Main \in Threads
    BY <1>16, StallAssumption DEF Seed
  <2>5. StoreTypeOK' /\ Len(log') >= Len(log)
    BY <1>0, <2>4, LockType DEF StoreBegin
  <2>6. QED
    BY <1>a, <1>16, <2>1, <2>3, <2>4, <2>5 DEF Seed
<1>17. ASSUME Serve PROVE TypeOK'
  BY <1>0, <1>b, <1>17 DEF Serve, TypeOK
<1>18. ASSUME Crash PROVE TypeOK'
  <2>1. StoreTypeOK' /\ Len(log') = Len(log)
    BY <1>0, <1>18, CrashType DEF Crash, StoreCrash
  <2>2. QED
    BY <1>0, <1>18, <2>1, IdleType DEF Crash, TypeOK
<1>19. CASE UNCHANGED vars
  BY <1>0, <1>b, <1>19 DEF vars, TypeOK
<1>20. QED
  BY <1>1, <1>2, <1>3, <1>4, <1>5, <1>6, <1>7, <1>8, <1>9, <1>10, <1>11, <1>12, <1>13,
     <1>14, <1>15, <1>16, <1>17, <1>18, <1>19
  DEF Next, Boot, Continue, Request

\* No count the shop ever projects is negative and every notification owed is of a
\* committed event, whatever the threads, the requests and the crashes.
THEOREM TypeCorrect == Spec => []TypeOK
<1>1. Init => TypeOK
  <2> SUFFICES ASSUME Init PROVE TypeOK
    OBVIOUS
  <2>1. /\ log = <<>> /\ holder = NoThread /\ outbox = [t \in Threads |-> <<>>]
        /\ view = EmptyView /\ replays = <<EmptyView>>
        /\ phase = "hydrate" /\ hydrated = 0 /\ call = [t \in Threads |-> Idle]
    BY DEF Init, StoreInit
  <2>2. <<EmptyView>> \in Seq(View) /\ Len(<<EmptyView>>) = 1
    BY EmptyViewType
  <2>3. QED
    BY <2>1, <2>2, EmptyViewType, IdleType DEF TypeOK, StoreTypeOK
<1>2. QED
  BY <1>1, TypeStep, PTL DEF Spec

-----------------------------------------------------------------------------
(* Causes come before effects in the log. *)

LogHas(type, o) == \E k \in 1 .. Len(log) : log[k].type = type /\ log[k].order = o

\* An event a service may append now.
Justified(e) ==
  /\ e.type \in {"order_paid", "order_packed", "order_cancelled"} =>
       LogHas("order_reserved", e.order)
  /\ e.type = "order_packed" => LogHas("order_paid", e.order)

\* LogIsCausal is not inductive: a service decides on what the projection holds
\* or on what it read earlier, so both must be backed by the log.
ViewIsBacked ==
  \A o \in OrderIds :
    /\ view.order[o] # NoOrder => LogHas("order_reserved", o)
    /\ view.order[o].status = "paid" => LogHas("order_paid", o)

CallsAreBacked ==
  \A t \in Threads :
    /\ call[t].op = "emit" => \A k \in 1 .. Len(call[t].todo) : Justified(call[t].todo[k])
    /\ call[t].op \in {"cancel-wait", "cancel"} => LogHas("order_reserved", call[t].order)

CausalInv == LogIsCausal /\ ViewIsBacked /\ CallsAreBacked

\* An order appears in a projection, or turns paid there, only by its event.
LEMMA ApplyCauses ==
  ASSUME NEW v \in View, NEW e \in Event, NEW o \in OrderIds
  PROVE  /\ Apply(v, e).order[o] # NoOrder =>
              v.order[o] # NoOrder \/ (e.type = "order_reserved" /\ e.order = o)
         /\ Apply(v, e).order[o].status = "paid" =>
              v.order[o].status = "paid" \/ (e.type = "order_paid" /\ e.order = o)
<1> DEFINE w == ApplyOrders(v, e)
<1>1. w \in View
  BY ApplyOrdersType
<1>2. Apply(v, e).order = w.order
  BY <1>1 DEF Apply, ApplyCatalog, View
<1>3. CASE e.type = "order_reserved"
  <2>1. e.order \in OrderIds
    BY <1>3 DEF Event, CatalogEvent, OrderEvent
  <2>2. QED
    BY <1>2, <1>3, <2>1 DEF ApplyOrders, View
<1>4. CASE e.type \in {"order_paid", "order_packed", "order_cancelled"}
  <2>1. e.order \in OrderIds
    BY <1>4 DEF Event, CatalogEvent, OrderEvent
  <2>2. CASE v.order[e.order] = NoOrder
    <3>1. w = v
      BY <1>4, <2>2 DEF ApplyOrders
    <3>2. QED
      BY <1>2, <3>1
  <2>3. CASE v.order[e.order] # NoOrder
    <3>0. v.order[e.order] \in Order
      BY <2>1, <2>3 DEF View
    <3>1. PICK st \in Statuses, s \in Sessions \cup {NoSession} :
            /\ w = SetStatus(v, e.order, st, s)
            /\ st = "paid" => e.type = "order_paid"
      BY <1>4, <2>1, <2>3, <3>0 DEF ApplyOrders, Event, CatalogEvent, OrderEvent, Statuses, Order
    <3>2. w.order = [v.order EXCEPT ![e.order] = [v.order[e.order] EXCEPT !.status = st, !.session = s]]
      BY <3>1 DEF SetStatus, View
    <3>3. w.order[e.order].status = st
      BY <2>1, <3>0, <3>2 DEF View, Order
    <3>4. o # e.order => w.order[o] = v.order[o]
      BY <2>1, <3>2 DEF View
    <3>5. QED
      BY <1>2, <2>3, <3>1, <3>3, <3>4
  <2>4. QED
    BY <2>2, <2>3
<1>5. CASE e.type \notin {"order_reserved", "order_paid", "order_packed", "order_cancelled"}
  <2>1. w = v
    BY <1>5 DEF ApplyOrders
  <2>2. QED
    BY <1>2, <2>1
<1>6. QED
  BY <1>3, <1>4, <1>5

-----------------------------------------------------------------------------
(* What one step writes to the log. *)

\* The batches the services append: one event of a call in flight, or the rows
\* of one of the three transactions.
Batch(es) ==
  \/ \E t \in Threads : call[t].op = "emit" /\ call[t].todo # <<>> /\ es = <<Head(call[t].todo)>>
  \/ \E o \in OrderIds, i \in Items, q \in Nat \ {0}, n \in Nat :
       es = << OrderReserved(o, i, q), CountSet(i, n, "manual") >>
  \/ \E i \in Items, n \in Nat : es = << ItemTaught(i, n), ActiveItemSet(i) >>
  \/ \E t \in Threads : call[t].op = "cancel" /\ es = CancelEvents(call[t])

LEMMA StepRecords ==
  ASSUME TypeOK, [Next]_vars
  PROVE  \/ UNCHANGED <<log, replays>>
         \/ \E es \in Seq(Event) : Len(es) \in {1, 2} /\ Record(es) /\ Batch(es)
<1>1. ASSUME NEW t \in Threads, Append1(t)
      PROVE  \E es \in Seq(Event) : Len(es) \in {1, 2} /\ Record(es) /\ Batch(es)
  <2>1. call[t].op = "emit" /\ call[t].todo \in Seq(Singles) /\ call[t].todo # <<>>
    BY <1>1, CallFields DEF Append1
  <2>2. Head(call[t].todo) \in Event
    BY <2>1, HeadTailProperties, EventTypes
  <2>3. <<Head(call[t].todo)>> \in Seq(Event) /\ Len(<<Head(call[t].todo)>>) = 1
    BY <2>2
  <2>4. Record(<<Head(call[t].todo)>>)
    BY <1>1 DEF Append1, StoreAppend
  <2>5. Batch(<<Head(call[t].todo)>>)
    BY <2>1 DEF Batch
  <2>6. QED
    BY <2>3, <2>4, <2>5
<1>2. ASSUME NEW t \in Threads, ReserveCommit(t)
      PROVE  \E es \in Seq(Event) : Len(es) \in {1, 2} /\ Record(es) /\ Batch(es)
  <2> DEFINE n == view.count[call[t].item] - call[t].qty
             es == << OrderReserved(call[t].order, call[t].item, call[t].qty),
                      CountSet(call[t].item, n, "manual") >>
  <2>1. call[t].order \in OrderIds /\ call[t].item \in Items /\ call[t].qty \in Nat \ {0}
    BY <1>2, CallFields DEF ReserveCommit
  <2>2. n \in Nat
    BY <1>2, <2>1 DEF ReserveCommit, CanReserve, TypeOK, StoreTypeOK, View
  <2>3. es \in Seq(Event) /\ Len(es) = 2
    BY <1>2, BatchTypes DEF ReserveCommit
  <2>4. Record(es) /\ Batch(es)
    BY <1>2, <2>1, <2>2 DEF ReserveCommit, StoreCommit, Batch
  <2>5. QED
    BY <2>3, <2>4
<1>3. ASSUME NEW t \in Threads, CancelCommit(t)
      PROVE  \E es \in Seq(Event) : Len(es) \in {1, 2} /\ Record(es) /\ Batch(es)
  BY <1>3, BatchTypes DEF CancelCommit, StoreCommit, Batch
<1>4. ASSUME NEW t \in Threads, TeachCommit(t)
      PROVE  \E es \in Seq(Event) : Len(es) \in {1, 2} /\ Record(es) /\ Batch(es)
  <2> DEFINE es == << ItemTaught(call[t].item, SeedCount[call[t].item]),
                      ActiveItemSet(call[t].item) >>
  <2>1. call[t].item \in Items /\ SeedCount[call[t].item] \in Nat
    BY <1>4, CallFields, StallAssumption DEF TeachCommit
  <2>2. es \in Seq(Event) /\ Len(es) = 2
    BY <1>4, BatchTypes DEF TeachCommit
  <2>3. Record(es) /\ Batch(es)
    BY <1>4, <2>1 DEF TeachCommit, StoreCommit, Batch
  <2>4. QED
    BY <2>2, <2>3
<1>5. ASSUME NEW t \in Threads, Continue(t), ~Append1(t), ~ReserveCommit(t), ~CancelCommit(t),
             ~TeachCommit(t)
      PROVE  UNCHANGED <<log, replays>>
  BY <1>5 DEF Continue, ReserveRefuse, CancelBegin, Notify, StoreRollback, StoreBegin, StoreNotify
<1>6. ASSUME NEW t \in Threads, Request(t) PROVE UNCHANGED <<log, replays>>
  BY <1>6 DEF Request, ReserveBegin, MarkPaidRead, MarkPackedRead, CancelRead, ReconcileRead,
              SetActiveRead, TeachBegin, StoreBegin, storeVars
<1>7. Boot \/ Crash \/ UNCHANGED vars => UNCHANGED <<log, replays>>
  BY DEF Boot, Hydrate, Seed, Serve, Crash, StoreBegin, StoreCrash, vars, storeVars
<1>8. QED
  BY <1>1, <1>2, <1>3, <1>4, <1>5, <1>6, <1>7 DEF Next

\* The log only grows.
LEMMA LogGrows ==
  ASSUME TypeOK, [Next]_vars
  PROVE  /\ Len(log') >= Len(log)
         /\ \A n \in 1 .. Len(log) : log'[n] = log[n]
<1>1. StoreTypeOK /\ Len(log) \in Nat
  BY DEF TypeOK, StoreTypeOK
<1>2. CASE UNCHANGED <<log, replays>>
  BY <1>1, <1>2
<1>3. CASE \E es \in Seq(Event) : Len(es) \in {1, 2} /\ Record(es) /\ Batch(es)
  BY <1>1, <1>3, RecordFacts
<1>4. QED
  BY <1>2, <1>3, StepRecords

LEMMA LogHasGrows ==
  ASSUME TypeOK, [Next]_vars
  PROVE  /\ \A ty, o : LogHas(ty, o) => LogHas(ty, o)'
         /\ \A e : Justified(e) => Justified(e)'
<1>1. Len(log) \in Nat /\ Len(log') \in Nat
  BY TypeStep DEF TypeOK, StoreTypeOK
<1>2. ASSUME NEW ty, NEW o, LogHas(ty, o) PROVE LogHas(ty, o)'
  BY <1>1, <1>2, LogGrows DEF LogHas
<1>3. QED
  BY <1>2 DEF Justified

LEMMA BatchJustified ==
  ASSUME TypeOK, CallsAreBacked, NEW es \in Seq(Event), Batch(es), NEW k \in 1 .. Len(es)
  PROVE  Justified(es[k])
<1>1. CASE \E t \in Threads : /\ call[t].op = "emit" /\ call[t].todo # <<>>
                              /\ es = <<Head(call[t].todo)>>
  <2>1. PICK t \in Threads : /\ call[t].op = "emit" /\ call[t].todo # <<>>
                             /\ es = <<Head(call[t].todo)>>
    BY <1>1
  <2>2. call[t].todo \in Seq(Singles)
    BY <2>1, CallFields
  <2>3. 1 \in 1 .. Len(call[t].todo) /\ Head(call[t].todo) = call[t].todo[1]
    BY <2>1, <2>2, EmptySeq, LenProperties
  <2>4. k = 1 /\ es[k] = call[t].todo[1]
    BY <2>1, <2>3
  <2>5. QED
    BY <2>1, <2>3, <2>4 DEF CallsAreBacked
<1>2. CASE \E o \in OrderIds, i \in Items, q \in Nat \ {0}, n \in Nat :
             es = << OrderReserved(o, i, q), CountSet(i, n, "manual") >>
  BY <1>2 DEF Justified, OrderReserved, CountSet
<1>3. CASE \E i \in Items, n \in Nat : es = << ItemTaught(i, n), ActiveItemSet(i) >>
  BY <1>3 DEF Justified, ItemTaught, ActiveItemSet
<1>4. CASE \E t \in Threads : call[t].op = "cancel" /\ es = CancelEvents(call[t])
  BY <1>4 DEF Justified, CancelEvents, CountSet, OrderCancelled, CallsAreBacked
<1>5. QED
  BY <1>1, <1>2, <1>3, <1>4 DEF Batch

LEMMA CausalLogStep ==
  ASSUME TypeOK, CausalInv, [Next]_vars
  PROVE  LogIsCausal'
<1>0. /\ StoreTypeOK /\ Len(log) \in Nat
      /\ Len(log') >= Len(log) /\ \A n \in 1 .. Len(log) : log'[n] = log[n]
      /\ Len(log') \in Nat
  BY LogGrows, TypeStep DEF TypeOK, StoreTypeOK
<1> SUFFICES ASSUME NEW n \in 1 .. Len(log')
             PROVE  (/\ log[n].type \in {"order_paid", "order_packed", "order_cancelled"} =>
                          Happened("order_reserved", log[n].order, n)
                     /\ log[n].type = "order_packed" => Happened("order_paid", log[n].order, n))'
  BY DEF LogIsCausal
<1>1. CASE n \in 1 .. Len(log)
  <2>1. \A ty, o : Happened(ty, o, n) => Happened(ty, o, n)'
    BY <1>0, <1>1 DEF Happened
  <2>2. QED
    BY <1>0, <1>1, <2>1 DEF CausalInv, LogIsCausal
<1>2. CASE n \notin 1 .. Len(log)
  <2>1. PICK es \in Seq(Event) : Len(es) \in {1, 2} /\ Record(es) /\ Batch(es)
    BY <1>2, StepRecords
  <2>2. /\ Len(log') = Len(log) + Len(es)
        /\ \A k \in 1 .. Len(es) : log'[Len(log) + k] = es[k]
    BY <1>0, <2>1, RecordFacts
  <2>3. PICK k \in 1 .. Len(es) : n = Len(log) + k /\ log'[n] = es[k]
    <3>1. n - Len(log) \in 1 .. Len(es) /\ n = Len(log) + (n - Len(log))
      BY <1>0, <1>2, <2>2
    <3>2. QED
      BY <2>2, <3>1
  <2>4. Justified(log'[n])
    BY <2>1, <2>3, BatchJustified DEF CausalInv
  <2>5. \A ty, o : LogHas(ty, o) => Happened(ty, o, n)'
    BY <1>0, <1>2 DEF LogHas, Happened
  <2>6. QED
    BY <2>4, <2>5 DEF Justified
<1>3. QED
  BY <1>1, <1>2

\* Applying an event that is in the log keeps a backed view backed.
LEMMA BackedByLog ==
  ASSUME TypeOK, ViewIsBacked, NEW n \in 1 .. Len(log), NEW v \in View, v = Apply(view, log[n])
  PROVE  \A o \in OrderIds : /\ v.order[o] # NoOrder => LogHas("order_reserved", o)
                             /\ v.order[o].status = "paid" => LogHas("order_paid", o)
<1>1. log[n] \in Event /\ view \in View
  BY ElementOfSeq DEF TypeOK, StoreTypeOK
<1>2. QED
  BY <1>1, ApplyCauses DEF ViewIsBacked, LogHas

LEMMA CausalViewStep ==
  ASSUME TypeOK, CausalInv, [Next]_vars
  PROVE  ViewIsBacked'
<1>0. TypeOK'
  BY TypeStep
<1>1. CASE \E n \in 1 .. Len(log) : view' = Apply(view, log[n])
  <2>1. view' \in View
    BY <1>0 DEF TypeOK, StoreTypeOK
  <2>2. QED
    BY <1>1, <2>1, BackedByLog, LogHasGrows DEF CausalInv, ViewIsBacked
<1>2. CASE view' = view
  BY <1>2, LogHasGrows DEF CausalInv, ViewIsBacked
<1>3. CASE view' = EmptyView
  BY <1>3 DEF ViewIsBacked, EmptyView, NoOrder
<1>4. ASSUME NEW t \in Threads, Notify(t) PROVE \E n \in 1 .. Len(log) : view' = Apply(view, log[n])
  BY <1>4, NotifyType DEF Notify, StoreNotify, TypeOK
<1>5. ASSUME NEW t \in Threads, Continue(t), ~Notify(t) PROVE view' = view
  BY <1>5 DEF Continue, ReserveCommit, ReserveRefuse, CancelBegin, CancelCommit, TeachCommit,
              Append1, StoreCommit, StoreRollback, StoreBegin, StoreAppend
<1>6. ASSUME NEW t \in Threads, Request(t) PROVE view' = view
  BY <1>6 DEF Request, ReserveBegin, MarkPaidRead, MarkPackedRead, CancelRead, ReconcileRead,
              SetActiveRead, TeachBegin, StoreBegin, storeVars
<1>7. ASSUME Hydrate
      PROVE  view' = view \/ \E n \in 1 .. Len(log) : view' = Apply(view, log[n])
  <2>1. CASE hydrated < Len(log)
    <3>1. hydrated + 1 \in 1 .. Len(log)
      BY <2>1 DEF TypeOK, StoreTypeOK
    <3>2. QED
      BY <1>7, <2>1, <3>1 DEF Hydrate, RowsLeft
  <2>2. QED
    BY <1>7, <2>1 DEF Hydrate, RowsLeft
<1>8. Seed \/ Serve \/ UNCHANGED vars => view' = view
  BY DEF Seed, Serve, StoreBegin, vars, storeVars
<1>9. Crash => view' = EmptyView
  BY DEF Crash, StoreCrash
<1>10. QED
  BY <1>1, <1>2, <1>3, <1>4, <1>5, <1>6, <1>7, <1>8, <1>9 DEF Next, Boot

\* What thread t is in the middle of is backed by the log after a step in which
\* its call changes to c, if c is backed before it.
LEMMA BackedCall ==
  ASSUME TypeOK, CausalInv, [Next]_vars, NEW t \in Threads, NEW c, Become(t, c),
         c.op = "emit" => \A k \in 1 .. Len(c.todo) : Justified(c.todo[k]),
         c.op \in {"cancel-wait", "cancel"} => LogHas("order_reserved", c.order)
  PROVE  CallsAreBacked'
<1>1. call' = [call EXCEPT ![t] = c] /\ DOMAIN call = Threads
  BY DEF Become, TypeOK
<1>2. QED
  BY <1>1, LogHasGrows DEF CausalInv, CallsAreBacked

LEMMA CausalCallStep ==
  ASSUME TypeOK, CausalInv, [Next]_vars
  PROVE  CallsAreBacked'
<1>0. Idle.op = "idle" /\ \A i, es : Emitting(i, es).op = "emit" /\ Emitting(i, es).todo = es
  BY DEF Idle, Emitting
<1>a. ASSUME NEW t \in Threads, NEW i, Become(t, Idle) \/ Become(t, Emitting(i, <<>>))
      PROVE  CallsAreBacked'
  BY <1>0, <1>a, BackedCall
<1>b. ASSUME NEW t \in Threads, NEW i, NEW e, Justified(e), Become(t, Emitting(i, <<e>>))
      PROVE  CallsAreBacked'
  <2>1. \A k \in 1 .. Len(<<e>>) : <<e>>[k] = e
    OBVIOUS
  <2>2. QED
    BY <1>0, <1>b, <2>1, BackedCall
<1>c. ASSUME UNCHANGED call PROVE CallsAreBacked'
  BY <1>c, LogHasGrows DEF CausalInv, CallsAreBacked
<1>1. ASSUME NEW t \in Threads, Continue(t) PROVE CallsAreBacked'
  <2>1. CASE ReserveCommit(t) \/ ReserveRefuse(t) \/ CancelCommit(t) \/ TeachCommit(t)
    BY <1>a, <2>1 DEF ReserveCommit, ReserveRefuse, CancelCommit, TeachCommit
  <2>2. CASE CancelBegin(t)
    <3> DEFINE c == [call[t] EXCEPT !.op = "cancel"]
    <3>1. /\ call[t].op = "cancel-wait" /\ Become(t, c)
          /\ c.op = "cancel" /\ c.order = call[t].order
      BY <2>2, CallFields DEF CancelBegin
    <3>2. LogHas("order_reserved", c.order)
      BY <3>1 DEF CausalInv, CallsAreBacked
    <3>3. QED
      BY <3>1, <3>2, BackedCall
  <2>3. CASE Append1(t)
    <3> DEFINE es == Tail(call[t].todo)
    <3>1. call[t].op = "emit" /\ call[t].todo \in Seq(Singles) /\ call[t].todo # <<>>
      BY <2>3, CallFields DEF Append1
    <3>2. /\ Len(es) = Len(call[t].todo) - 1
          /\ \A k \in 1 .. Len(es) : es[k] = call[t].todo[k + 1]
      BY <3>1, HeadTailProperties
    <3>3. \A k \in 1 .. Len(call[t].todo) : Justified(call[t].todo[k])
      BY <3>1 DEF CausalInv, CallsAreBacked
    <3>4. Len(call[t].todo) \in Nat
      BY <3>1
    <3>5. \A k \in 1 .. Len(es) : Justified(es[k])
      BY <3>2, <3>3, <3>4
    <3>6. Become(t, Emitting(call[t].item, es))
      BY <2>3 DEF Append1
    <3>7. QED
      BY <1>0, <3>5, <3>6, BackedCall
  <2>4. CASE Notify(t)
    BY <1>a, <1>c, <2>4 DEF Notify
  <2>5. QED
    BY <1>1, <2>1, <2>2, <2>3, <2>4 DEF Continue
<1>2. ASSUME NEW t \in Threads, Request(t) PROVE CallsAreBacked'
  <2>1. ASSUME NEW o \in OrderIds, NEW i \in Items, NEW q \in Qtys, ReserveBegin(t, o, i, q)
        PROVE  CallsAreBacked'
    <3> DEFINE c == [op |-> "reserve", order |-> o, item |-> i, qty |-> q]
    <3>1. Become(t, c) /\ c.op = "reserve"
      BY <2>1 DEF ReserveBegin
    <3>2. QED
      BY <3>1, BackedCall
  <2>2. ASSUME NEW o \in OrderIds, NEW s \in Sessions, MarkPaidRead(t, o, s)
        PROVE  CallsAreBacked'
    <3>1. view.order[o] # NoOrder
      BY <2>2 DEF MarkPaidRead, NoOrder, Payable
    <3>2. Justified(OrderPaid(o, s))
      BY <3>1 DEF CausalInv, ViewIsBacked, Justified, OrderPaid
    <3>3. QED
      BY <1>b, <2>2, <3>2 DEF MarkPaidRead
  <2>3. ASSUME NEW o \in OrderIds, MarkPackedRead(t, o) PROVE CallsAreBacked'
    <3>1. view.order[o] # NoOrder /\ view.order[o].status = "paid"
      BY <2>3 DEF MarkPackedRead, NoOrder, Packable
    <3>2. Justified(OrderPacked(o))
      BY <3>1 DEF CausalInv, ViewIsBacked, Justified, OrderPacked
    <3>3. QED
      BY <1>b, <2>3, <3>2 DEF MarkPackedRead
  <2>4. ASSUME NEW o \in OrderIds, CancelRead(t, o) PROVE CallsAreBacked'
    <3> DEFINE c == [op |-> "cancel-wait", order |-> o, item |-> view.order[o].item,
                     qty |-> view.order[o].qty, status |-> view.order[o].status]
    <3>1. Become(t, c) /\ c.op = "cancel-wait" /\ c.order = o
      BY <2>4 DEF CancelRead
    <3>2. view.order[o] # NoOrder
      BY <2>4 DEF CancelRead, NoOrder, Cancellable
    <3>3. LogHas("order_reserved", c.order)
      BY <3>1, <3>2 DEF CausalInv, ViewIsBacked
    <3>4. QED
      BY <3>1, <3>3, BackedCall
  <2>5. ASSUME NEW i \in Items, NEW n \in Counts, NEW src \in Sources, ReconcileRead(t, i, n, src)
        PROVE  CallsAreBacked'
    <3> DEFINE a == CountSet(i, n, src)
               b == StockLow(i, n)
    <3>1. Justified(a) /\ Justified(b)
      BY DEF Justified, CountSet, StockLow
    <3>3. Become(t, Emitting(i, <<a, b>>)) \/ Become(t, Emitting(i, <<a>>))
      BY <2>5 DEF ReconcileRead
    <3>4. \A k \in 1 .. Len(<<a, b>>) : Justified(<<a, b>>[k])
      BY <3>1
    <3>5. QED
      BY <1>0, <1>b, <3>1, <3>3, <3>4, BackedCall
  <2>6. ASSUME NEW i \in Items, SetActiveRead(t, i) PROVE CallsAreBacked'
    <3>1. Justified(ActiveItemSet(i))
      BY DEF Justified, ActiveItemSet
    <3>2. QED
      BY <1>b, <2>6, <3>1 DEF SetActiveRead
  <2>7. ASSUME NEW i \in Items, TeachBegin(t, i) PROVE CallsAreBacked'
    <3> DEFINE c == [op |-> "teach", item |-> i]
    <3>1. Become(t, c) /\ c.op = "teach"
      BY <2>7 DEF TeachBegin
    <3>2. QED
      BY <3>1, BackedCall
  <2>8. QED
    BY <1>2, <2>1, <2>2, <2>3, <2>4, <2>5, <2>6, <2>7 DEF Request
<1>3. ASSUME Seed PROVE CallsAreBacked'
  <2>1. PICK k \in DOMAIN Defaults : Become(Main, [op |-> "teach", item |-> Defaults[k]])
    BY <1>3 DEF Seed
  <2> DEFINE c == [op |-> "teach", item |-> Defaults[k]]
  <2>2. Become(Main, c) /\ c.op = "teach" /\ Main \in Threads
    BY <2>1, StallAssumption
  <2>3. QED
    BY <2>2, BackedCall
<1>4. Crash => CallsAreBacked'
  BY <1>0 DEF Crash, CallsAreBacked
<1>5. Hydrate \/ Serve \/ UNCHANGED vars => UNCHANGED call
  BY DEF Hydrate, RowsLeft, Serve, vars
<1>6. QED
  BY <1>1, <1>2, <1>3, <1>4, <1>5, <1>c DEF Next, Boot

\* Nothing is paid, packed or cancelled in the log before it was reserved, and
\* nothing is packed before it was paid, however calls and crashes interleave.
THEOREM CausalLog == Spec => []LogIsCausal
<1>1. Init => CausalInv
  BY DEF Init, StoreInit, CausalInv, LogIsCausal, ViewIsBacked, CallsAreBacked, EmptyView,
         NoOrder, Idle
<1>2. TypeOK /\ CausalInv /\ [Next]_vars => CausalInv'
  BY CausalLogStep, CausalViewStep, CausalCallStep DEF CausalInv
<1>3. CausalInv => LogIsCausal
  BY DEF CausalInv
<1>4. QED
  BY <1>1, <1>2, <1>3, TypeCorrect, PTL DEF Spec

-----------------------------------------------------------------------------
(* The lock. *)

InTransaction == {"reserve", "cancel", "teach"}

\* The thread is in its transaction, or has a notification to make.
Runs(t) ==
  \/ holder = t /\ call[t].op \in InTransaction
  \/ call[t].op = "emit" /\ outbox[t] # <<>>

\* All the thread needs to go on is the lock.
WantsLock(t) ==
  \/ call[t].op = "cancel-wait"
  \/ call[t].op = "emit" /\ outbox[t] = <<>> /\ call[t].todo # <<>>

\* Whoever is in a call runs or wants the lock, and who has the lock runs
\* (store.py:122-135).
LockIsInUse ==
  /\ \A t \in Threads : call[t] # Idle => Runs(t) \/ WantsLock(t)
  /\ holder # NoThread => holder \in Threads /\ Runs(holder)

\* The lock is held by the thread that is in a transaction, and a call in which nothing is
\* left to append and nothing to notify has returned.
LockInv ==
  \A t \in Threads :
    /\ holder = t <=> call[t].op \in InTransaction
    /\ call[t].op = "emit" => outbox[t] # <<>> \/ call[t].todo # <<>>
    /\ call[t].op # "emit" => outbox[t] = <<>>

\* A step of one thread leaves the others where they are; the lock, if it moves, is given
\* to it or by it.
LEMMA LockTurn ==
  ASSUME TypeOK, LockInv, NEW t \in Threads, NEW c, Become(t, c),
         NEW box, outbox' = [outbox EXCEPT ![t] = box],
         \/ holder' = holder /\ (call[t].op \in InTransaction <=> c.op \in InTransaction)
         \/ holder = NoThread /\ holder' = t /\ c.op \in InTransaction
         \/ holder = t /\ holder' = NoThread /\ c.op \notin InTransaction,
         c.op = "emit" => box # <<>> \/ c.todo # <<>>,
         c.op # "emit" => box = <<>>
  PROVE  LockInv'
<1>1. /\ call \in [Threads -> Calls] /\ outbox \in [Threads -> Seq(1 .. Len(log))]
      /\ NoThread \notin Threads
  BY NoThreadIsNone DEF TypeOK, StoreTypeOK
<1>2. /\ call'[t] = c /\ outbox'[t] = box
      /\ \A s \in Threads \ {t} : call'[s] = call[s] /\ outbox'[s] = outbox[s]
  BY <1>1 DEF Become
<1>3. ASSUME NEW s \in Threads
      PROVE  /\ holder' = s <=> call'[s].op \in InTransaction
             /\ call'[s].op = "emit" => outbox'[s] # <<>> \/ call'[s].todo # <<>>
             /\ call'[s].op # "emit" => outbox'[s] = <<>>
  <2>1. CASE s = t
    BY <1>1, <1>2, <2>1 DEF LockInv
  <2>2. CASE s # t
    <3>1. holder' = s <=> holder = s
      BY <1>1, <2>2
    <3>2. QED
      BY <1>2, <2>2, <3>1 DEF LockInv
  <2>3. QED
    BY <2>1, <2>2
<1>4. QED
  BY <1>3 DEF LockInv

LEMMA LockStep == TypeOK /\ LockInv /\ [Next]_vars => LockInv'
<1> SUFFICES ASSUME TypeOK, LockInv, [Next]_vars PROVE LockInv'
  OBVIOUS
<1> USE DEF InTransaction
<1>0. /\ call \in [Threads -> Calls] /\ outbox \in [Threads -> Seq(1 .. Len(log))]
      /\ \A t \in Threads : outbox = [outbox EXCEPT ![t] = outbox[t]]
      /\ Idle.op = "idle"
  BY DEF TypeOK, StoreTypeOK, Idle
\* A call begins by taking the lock, and the transaction it ends with.
<1>1. ASSUME NEW t \in Threads, NEW c, c.op \in InTransaction, StoreBegin(t), Become(t, c),
             call[t].op \in {"idle", "cancel-wait"}
      PROVE  LockInv'
  <2>1. outbox[t] = <<>> /\ outbox' = [outbox EXCEPT ![t] = outbox[t]]
    BY <1>0, <1>1 DEF LockInv, StoreBegin
  <2>2. QED
    BY <1>1, <2>1, LockTurn DEF StoreBegin
<1>2. ASSUME NEW t \in Threads, NEW es, Len(es) \in {1, 2}, StoreCommit(t, es),
             NEW i, Become(t, Emitting(i, <<>>))
      PROVE  LockInv'
  <2>1. Offsets(es) # <<>>
    BY <1>2 DEF Offsets
  <2>2. Emitting(i, <<>>).op = "emit"
    BY DEF Emitting
  <2>3. QED
    BY <1>2, <2>1, <2>2, LockTurn DEF StoreCommit
\* A call begins with what it will append.
<1>3. ASSUME NEW t \in Threads, NEW c, Become(t, c), UNCHANGED storeVars, call[t] = Idle,
             c.op = "cancel-wait" \/ (c.op = "emit" /\ c.todo # <<>>)
      PROVE  LockInv'
  <2>1. outbox[t] = <<>> /\ outbox' = [outbox EXCEPT ![t] = outbox[t]] /\ holder' = holder
    BY <1>0, <1>3 DEF LockInv, storeVars
  <2>2. c.op \notin InTransaction /\ call[t].op \notin InTransaction
    BY <1>0, <1>3
  <2>3. QED
    BY <1>3, <2>1, <2>2, LockTurn
<1>4. ASSUME NEW t \in Threads, NEW i, NEW es, es # <<>>, Become(t, Emitting(i, es)), UNCHANGED storeVars,
             call[t] = Idle
      PROVE  LockInv'
  BY <1>3, <1>4 DEF Emitting
<1>5. ASSUME NEW t \in Threads, Request(t) PROVE LockInv'
  <2>1. ASSUME NEW o \in OrderIds, NEW i \in Items, NEW q \in Qtys, ReserveBegin(t, o, i, q)
        PROVE  LockInv'
    BY <1>0, <1>1, <2>1 DEF ReserveBegin, Starts
  <2>2. ASSUME NEW i \in Items, TeachBegin(t, i) PROVE LockInv'
    BY <1>0, <1>1, <2>2 DEF TeachBegin, Starts
  <2>3. ASSUME NEW o \in OrderIds, NEW s \in Sessions, MarkPaidRead(t, o, s) PROVE LockInv'
    BY <1>4, <2>3 DEF MarkPaidRead, Starts
  <2>4. ASSUME NEW o \in OrderIds, MarkPackedRead(t, o) PROVE LockInv'
    BY <1>4, <2>4 DEF MarkPackedRead, Starts
  <2>5. ASSUME NEW o \in OrderIds, CancelRead(t, o) PROVE LockInv'
    BY <1>3, <2>5 DEF CancelRead, Starts
  <2>6. ASSUME NEW i \in Items, SetActiveRead(t, i) PROVE LockInv'
    BY <1>4, <2>6 DEF SetActiveRead, Starts
  <2>7. ASSUME NEW i \in Items, NEW n \in Counts, NEW src \in Sources, ReconcileRead(t, i, n, src)
        PROVE  LockInv'
    <3>1. PICK es : es # <<>> /\ Become(t, Emitting(i, es))
      BY <2>7 DEF ReconcileRead
    <3>2. QED
      BY <1>4, <2>7, <3>1 DEF ReconcileRead, Starts
  <2>8. QED
    BY <1>5, <2>1, <2>2, <2>3, <2>4, <2>5, <2>6, <2>7 DEF Request
<1>6. ASSUME NEW t \in Threads, ReserveCommit(t) \/ CancelCommit(t) \/ TeachCommit(t)
      PROVE  LockInv'
  BY <1>2, <1>6 DEF ReserveCommit, CancelCommit, CancelEvents, TeachCommit
<1>7. ASSUME NEW t \in Threads, ReserveRefuse(t) PROVE LockInv'
  <2>1. outbox[t] = <<>> /\ outbox' = [outbox EXCEPT ![t] = outbox[t]]
    BY <1>0, <1>7 DEF LockInv, ReserveRefuse, StoreRollback
  <2>2. QED
    BY <1>0, <1>7, <2>1, LockTurn DEF ReserveRefuse, StoreRollback
<1>8. ASSUME NEW t \in Threads, CancelBegin(t) PROVE LockInv'
  <2>1. PICK c : c = [call[t] EXCEPT !.op = "cancel"] /\ c.op = "cancel"
    BY <1>8, CallFields DEF CancelBegin
  <2>2. StoreBegin(t) /\ Become(t, c) /\ call[t].op = "cancel-wait"
    BY <1>8, <2>1 DEF CancelBegin
  <2>3. c.op = "cancel"
    BY <2>1
  <2>4. QED
    BY <1>1, <2>2, <2>3
\* What is appended is to be notified, and after the last notification the call returns.
<1>9. ASSUME NEW t \in Threads, Append1(t) PROVE LockInv'
  <2>1. /\ outbox' = [outbox EXCEPT ![t] = <<Len(log) + 1>>] /\ holder' = holder
        /\ Become(t, Emitting(call[t].item, Tail(call[t].todo))) /\ call[t].op = "emit"
    BY <1>9 DEF Append1, StoreAppend
  <2>2. Emitting(call[t].item, Tail(call[t].todo)).op = "emit" /\ <<Len(log) + 1>> # <<>>
    BY DEF Emitting
  <2>3. QED
    BY <2>1, <2>2, LockTurn
<1>10. ASSUME NEW t \in Threads, Notify(t) PROVE LockInv'
  <2>1. /\ outbox[t] \in Seq(1 .. Len(log)) /\ outbox[t] # <<>> /\ holder' = holder
        /\ outbox' = [outbox EXCEPT ![t] = Tail(outbox[t])] /\ call[t].op = "emit"
    BY <1>0, <1>10 DEF Notify, StoreNotify, LockInv
  <2>2. Tail(outbox[t]) = <<>> <=> Len(outbox[t]) = 1
    <3>1. PICK q \in Seq(1 .. Len(log)) : q = Tail(outbox[t]) /\ Len(q) = Len(outbox[t]) - 1
      BY <2>1, HeadTailProperties
    <3>2. Len(outbox[t]) \in Nat
      BY <2>1, LenProperties
    <3>3. q = <<>> <=> Len(q) = 0
      BY EmptySeq
    <3>4. Tail(outbox[t]) = <<>> <=> Len(q) = 0
      BY <3>1, <3>3, Zenon
    <3>5. QED
      BY <3>1, <3>2, <3>4
  <2>3. CASE Len(outbox[t]) = 1 /\ call[t].todo = <<>>
    BY <1>0, <1>10, <2>1, <2>2, <2>3, LockTurn DEF Notify
  <2>4. CASE ~(Len(outbox[t]) = 1 /\ call[t].todo = <<>>)
    <3>1. call' = call /\ Become(t, call[t])
      BY <1>0, <1>10, <2>4 DEF Notify, Become
    <3>2. QED
      BY <2>1, <2>2, <2>4, <3>1, LockTurn
  <2>5. QED
    BY <2>3, <2>4
<1>11. ASSUME Seed PROVE LockInv'
  BY <1>0, <1>1, <1>11, StallAssumption DEF Seed
<1>12. ASSUME Hydrate \/ Serve \/ UNCHANGED vars PROVE LockInv'
  <2>1. UNCHANGED <<holder, outbox, call>>
    BY <1>12 DEF Hydrate, Serve, vars, storeVars
  <2>2. QED
    BY <2>1 DEF LockInv
<1>13. ASSUME Crash PROVE LockInv'
  BY <1>0, <1>13, NoThreadIsNone DEF Crash, StoreCrash, LockInv
<1>14. QED
  BY <1>5, <1>6, <1>7, <1>8, <1>9, <1>10, <1>11, <1>12, <1>13 DEF Next, Boot, Continue

\* No thread hangs: whoever is in a call has a step to make or needs nothing but the
\* lock, and the lock is only ever held by a thread in the middle of its transaction, for
\* any threads and calls and also after a death (EventStore.transaction).  What remains
\* for the calls to end is that threads are scheduled.
THEOREM NobodyHangs == Spec => []LockIsInUse
<1>1. Init => LockInv
  BY NoThreadIsNone DEF Init, StoreInit, LockInv, InTransaction, Idle
<1>2. TypeOK /\ LockInv => LockIsInUse
  <2> SUFFICES ASSUME TypeOK, LockInv PROVE LockIsInUse
    OBVIOUS
  <2>1. ASSUME NEW t \in Threads, call[t] # Idle PROVE Runs(t) \/ WantsLock(t)
    <3>1. call[t] \in Calls
      BY DEF TypeOK
    <3>2. call[t].op \in InTransaction \cup {"emit", "cancel-wait"}
      BY <2>1, <3>1 DEF Calls, InTransaction
    <3>3. QED
      BY <3>2 DEF LockInv, Runs, WantsLock
  <2>2. holder # NoThread => holder \in Threads /\ Runs(holder)
    BY DEF TypeOK, StoreTypeOK, LockInv, Runs
  <2>3. QED
    BY <2>1, <2>2 DEF LockIsInUse
<1>3. QED
  BY <1>1, <1>2, LockStep, TypeCorrect, PTL DEF Spec

-----------------------------------------------------------------------------
(* Restart. *)

\* replays is what its name says: the fold of every prefix of the log.
History ==
  /\ replays[1] = EmptyView
  /\ \A n \in 1 .. Len(log) : replays[n + 1] = Apply(replays[n], log[n])

\* The thread is the only one with undelivered events: the last of the log.
InOrder(t) ==
  /\ Len(outbox[t]) <= Len(log)
  /\ \A k \in 1 .. Len(outbox[t]) : outbox[t][k] = Len(log) - Len(outbox[t]) + k
  /\ view = replays[Len(log) + 1 - Len(outbox[t])]

Silent(t) == call[t] = Idle /\ outbox[t] = <<>>

\* No thread but Main has had anything to do since the restart.
Alone == phase = "seed"

PhaseInv ==
  /\ phase = "hydrate" => view = replays[hydrated + 1] /\ \A t \in Threads : Silent(t)
  /\ phase = "seed" => \A t \in Threads : t # Main => Silent(t)
  /\ Alone => InOrder(Main)

BootInv ==
  /\ History
  /\ \A t \in Threads : outbox[t] # <<>> => call[t].op = "emit"
  /\ PhaseInv

LEMMA HistoryStep ==
  ASSUME TypeOK, History, [Next]_vars
  PROVE  History'
<1>0. StoreTypeOK /\ Len(log) \in Nat /\ replays \in Seq(View) /\ Len(replays) = Len(log) + 1
  BY DEF TypeOK, StoreTypeOK
<1>1. CASE UNCHANGED <<log, replays>>
  BY <1>1 DEF History
<1>2. CASE \E es \in Seq(Event) : Len(es) \in {1, 2} /\ Record(es) /\ Batch(es)
  <2>1. PICK es \in Seq(Event) : Len(es) \in {1, 2} /\ Record(es) /\ Batch(es)
    BY <1>2
  <2>2. /\ Len(log') = Len(log) + Len(es)
        /\ \A n \in 1 .. Len(log) : log'[n] = log[n]
        /\ \A n \in 1 .. Len(replays) : replays'[n] = replays[n]
        /\ \A n \in Len(log) + 1 .. Len(log') : replays'[n + 1] = Apply(replays'[n], log'[n])
    BY <1>0, <2>1, RecordFacts
  <2>3. replays'[1] = EmptyView
    BY <1>0, <2>2 DEF History
  <2>4. ASSUME NEW n \in 1 .. Len(log') PROVE replays'[n + 1] = Apply(replays'[n], log'[n])
    <3>1. CASE n \in 1 .. Len(log)
      BY <1>0, <2>2, <3>1 DEF History
    <3>2. CASE n \notin 1 .. Len(log)
      <4>1. n \in Len(log) + 1 .. Len(log')
        BY <1>0, <2>1, <2>2, <3>2
      <4>2. QED
        BY <2>2, <4>1
    <3>3. QED
      BY <3>1, <3>2
  <2>5. QED
    BY <2>3, <2>4 DEF History
<1>3. QED
  BY <1>1, <1>2, StepRecords

\* Committing and then notifying a batch keeps the deliveries in order
\* (store.py:89-107, 109-142).
LEMMA RecordInOrder ==
  ASSUME StoreTypeOK, NEW t \in Threads, InOrder(t), outbox[t] = <<>>,
         NEW es \in Seq(Event), Len(es) \in {1, 2}, Record(es),
         outbox' = [outbox EXCEPT ![t] = Offsets(es)], UNCHANGED view
  PROVE  InOrder(t)'
<1>0. /\ Len(log) \in Nat /\ Len(outbox[t]) = 0
      /\ outbox \in [Threads -> Seq(1 .. Len(log))] /\ Len(replays) = Len(log) + 1
  BY DEF StoreTypeOK
<1>1. /\ Len(log') = Len(log) + Len(es)
      /\ \A n \in 1 .. Len(replays) : replays'[n] = replays[n]
  BY RecordFacts
<1>2. outbox'[t] = Offsets(es)
  BY <1>0
<1>3. /\ Len(Offsets(es)) = Len(es) /\ Len(es) \in Nat
      /\ \A k \in 1 .. Len(es) : Offsets(es)[k] = Len(log) + k
  BY DEF Offsets
<1>4. view = replays[Len(log) + 1]
  BY <1>0 DEF InOrder
<1>5. Len(log') + 1 - Len(outbox'[t]) = Len(log) + 1
  BY <1>0, <1>1, <1>2, <1>3
<1>6. view' = replays'[Len(log') + 1 - Len(outbox'[t])]
  BY <1>0, <1>1, <1>4, <1>5
<1>7. \A k \in 1 .. Len(outbox'[t]) : outbox'[t][k] = Len(log') - Len(outbox'[t]) + k
  <2>1. Len(outbox'[t]) = Len(es) /\ Len(log') - Len(outbox'[t]) = Len(log)
    BY <1>0, <1>1, <1>2, <1>3
  <2>2. \A k \in 1 .. Len(es) : outbox'[t][k] = Len(log) + k
    BY <1>2, <1>3
  <2>3. QED
    BY <2>1, <2>2
<1>8. Len(outbox'[t]) <= Len(log')
  BY <1>0, <1>1, <1>2, <1>3
<1>9. QED
  BY <1>6, <1>7, <1>8 DEF InOrder

LEMMA NotifyInOrder ==
  ASSUME StoreTypeOK, History, NEW t \in Threads, InOrder(t), StoreNotify(t)
  PROVE  InOrder(t)'
<1>0. /\ Len(log) \in Nat /\ outbox \in [Threads -> Seq(1 .. Len(log))]
      /\ outbox[t] \in Seq(1 .. Len(log)) /\ outbox[t] # <<>> /\ Len(outbox[t]) \in Nat
  BY DEF StoreTypeOK, StoreNotify
<1>1. /\ outbox'[t] = Tail(outbox[t]) /\ log' = log /\ replays' = replays
      /\ view' = Apply(view, log[Head(outbox[t])])
  BY <1>0 DEF StoreNotify
<1>2. /\ Len(outbox[t]) >= 1
      /\ Len(Tail(outbox[t])) = Len(outbox[t]) - 1
      /\ \A k \in 1 .. Len(outbox[t]) - 1 : Tail(outbox[t])[k] = outbox[t][k + 1]
      /\ Head(outbox[t]) = outbox[t][1]
  BY <1>0, HeadTailProperties, EmptySeq, LenProperties
<1> DEFINE n == Len(log) + 1 - Len(outbox[t])
<1>3. n \in 1 .. Len(log) /\ Head(outbox[t]) = n /\ view = replays[n]
  BY <1>0, <1>2 DEF InOrder
<1>4. view' = replays[n + 1]
  BY <1>1, <1>3 DEF History
<1>5. Len(log') + 1 - Len(outbox'[t]) = n + 1
  BY <1>0, <1>1, <1>2
<1>6. view' = replays'[Len(log') + 1 - Len(outbox'[t])]
  BY <1>1, <1>4, <1>5
<1>7. \A k \in 1 .. Len(outbox'[t]) : outbox'[t][k] = Len(log') - Len(outbox'[t]) + k
  <2>1. ASSUME NEW k \in 1 .. Len(outbox[t]) - 1
        PROVE  Tail(outbox[t])[k] = Len(log) - (Len(outbox[t]) - 1) + k
    <3>1. k + 1 \in 1 .. Len(outbox[t])
      BY <1>0
    <3>2. outbox[t][k + 1] = Len(log) - Len(outbox[t]) + (k + 1)
      BY <3>1 DEF InOrder
    <3>3. QED
      BY <1>0, <1>2, <3>2
  <2>2. QED
    BY <1>1, <1>2, <2>1
<1>8. Len(outbox'[t]) <= Len(log')
  BY <1>0, <1>1, <1>2 DEF InOrder
<1>9. QED
  BY <1>6, <1>7, <1>8 DEF InOrder

\* Main and nobody else moves while the process seeds, and every step it takes
\* keeps the projections a prefix of the log.
LEMMA ContinueInOrder ==
  ASSUME TypeOK, BootInv, NEW t \in Threads, Continue(t), InOrder(t)
  PROVE  InOrder(t)'
<1>0. StoreTypeOK /\ History /\ Len(log) \in Nat
  BY DEF TypeOK, StoreTypeOK, BootInv
<1>1. ASSUME NEW es \in Seq(Event), Len(es) \in {1, 2}, StoreCommit(t, es), outbox[t] = <<>>
      PROVE  InOrder(t)'
  BY <1>0, <1>1, RecordInOrder DEF StoreCommit
<1>2. CASE ReserveCommit(t)
  <2>1. outbox[t] = <<>>
    BY <1>2 DEF ReserveCommit, BootInv
  <2>2. QED
    BY <1>1, <1>2, <2>1, BatchTypes DEF ReserveCommit
<1>3. CASE CancelCommit(t)
  <2>1. outbox[t] = <<>>
    BY <1>3 DEF CancelCommit, BootInv
  <2>2. QED
    BY <1>1, <1>3, <2>1, BatchTypes DEF CancelCommit
<1>4. CASE TeachCommit(t)
  <2>1. outbox[t] = <<>>
    BY <1>4 DEF TeachCommit, BootInv
  <2>2. QED
    BY <1>1, <1>4, <2>1, BatchTypes DEF TeachCommit
<1>5. CASE Append1(t)
  <2> DEFINE e == Head(call[t].todo)
  <2>1. call[t].todo \in Seq(Singles) /\ call[t].todo # <<>> /\ outbox[t] = <<>>
    BY <1>5, CallFields DEF Append1
  <2>2. <<e>> \in Seq(Event) /\ Len(<<e>>) = 1
    BY <2>1, HeadTailProperties, EventTypes
  <2>3. Record(<<e>>) /\ UNCHANGED view /\ outbox' = [outbox EXCEPT ![t] = <<Len(log) + 1>>]
    BY <1>5 DEF Append1, StoreAppend
  <2>4. Offsets(<<e>>) = <<Len(log) + 1>>
    BY DEF Offsets
  <2>5. QED
    BY <1>0, <2>1, <2>2, <2>3, <2>4, RecordInOrder
<1>6. CASE Notify(t)
  BY <1>0, <1>6, NotifyInOrder DEF Notify
<1>7. CASE ReserveRefuse(t) \/ CancelBegin(t)
  BY <1>7 DEF ReserveRefuse, CancelBegin, StoreRollback, StoreBegin, InOrder
<1>8. QED
  BY <1>2, <1>3, <1>4, <1>5, <1>6, <1>7 DEF Continue

\* A thread with undelivered events is delivering them.
LEMMA EmittersStep ==
  ASSUME TypeOK, BootInv, [Next]_vars
  PROVE  \A t \in Threads : outbox'[t] # <<>> => call'[t].op = "emit"
<1>0. /\ outbox \in [Threads -> Seq(1 .. Len(log))] /\ call \in [Threads -> Calls]
      /\ \A t \in Threads : outbox[t] # <<>> => call[t].op = "emit"
  BY DEF TypeOK, StoreTypeOK, BootInv
<1>a. ASSUME NEW t \in Threads, NEW i, NEW es, Become(t, Emitting(i, es)),
             \A u \in Threads : u # t => outbox'[u] = outbox[u]
      PROVE  \A u \in Threads : outbox'[u] # <<>> => call'[u].op = "emit"
  BY <1>0, <1>a DEF Become, Emitting
<1>b. ASSUME NEW t \in Threads, NEW c, Become(t, c), outbox' = outbox,
             call[t].op # "emit"
      PROVE  \A u \in Threads : outbox'[u] # <<>> => call'[u].op = "emit"
  BY <1>0, <1>b DEF Become
<1>1. ASSUME NEW t \in Threads, Continue(t)
      PROVE  \A u \in Threads : outbox'[u] # <<>> => call'[u].op = "emit"
  <2>1. CASE ReserveCommit(t) \/ CancelCommit(t) \/ TeachCommit(t) \/ Append1(t)
    <3>1. \E i, es : Become(t, Emitting(i, es))
      BY <2>1 DEF ReserveCommit, CancelCommit, TeachCommit, Append1
    <3>2. \A u \in Threads : u # t => outbox'[u] = outbox[u]
      BY <1>0, <2>1 DEF ReserveCommit, CancelCommit, TeachCommit, Append1, StoreCommit, StoreAppend
    <3>3. QED
      BY <1>a, <3>1, <3>2
  <2>2. CASE ReserveRefuse(t) \/ CancelBegin(t)
    <3>1. outbox' = outbox /\ call[t].op # "emit"
      BY <2>2 DEF ReserveRefuse, CancelBegin, StoreRollback, StoreBegin
    <3>2. \E c : Become(t, c)
      BY <2>2 DEF ReserveRefuse, CancelBegin
    <3>3. QED
      BY <1>b, <3>1, <3>2
  <2>3. CASE Notify(t)
    <3>1. /\ outbox' = [outbox EXCEPT ![t] = Tail(@)]
          /\ \A u \in Threads : u # t => outbox'[u] = outbox[u] /\ call'[u] = call[u]
          /\ call[t].op = "emit"
      BY <1>0, <2>3 DEF Notify, StoreNotify, Become
    <3>2. outbox'[t] # <<>> => call' = call
      <4>1. outbox[t] \in Seq(1 .. Len(log)) /\ outbox[t] # <<>> /\ outbox'[t] = Tail(outbox[t])
        BY <1>0, <2>3, <3>1 DEF Notify, StoreNotify
      <4>2. /\ Tail(outbox[t]) \in Seq(1 .. Len(log))
            /\ Len(Tail(outbox[t])) = Len(outbox[t]) - 1
        BY <4>1, HeadTailProperties
      <4>3. Len(outbox[t]) = 1 => Len(Tail(outbox[t])) = 0
        BY <4>2
      <4>4. Len(outbox[t]) = 1 => Tail(outbox[t]) = <<>>
        BY <4>2, <4>3, EmptySeq
      <4>5. QED
        BY <2>3, <4>1, <4>4 DEF Notify
    <3>3. QED
      BY <1>0, <3>1, <3>2
  <2>4. QED
    BY <1>1, <2>1, <2>2, <2>3 DEF Continue
<1>2. ASSUME NEW t \in Threads, Request(t)
      PROVE  \A u \in Threads : outbox'[u] # <<>> => call'[u].op = "emit"
  <2>1. outbox' = outbox /\ call[t] = Idle
    BY <1>2 DEF Request, ReserveBegin, MarkPaidRead, MarkPackedRead, CancelRead, ReconcileRead,
                SetActiveRead, TeachBegin, StoreBegin, storeVars, Starts
  <2>2. \E c : Become(t, c)
    BY <1>2 DEF Request, ReserveBegin, MarkPaidRead, MarkPackedRead, CancelRead, ReconcileRead,
                SetActiveRead, TeachBegin
  <2>3. QED
    BY <1>b, <2>1, <2>2 DEF Idle
<1>3. CASE Seed
  <2>1. outbox' = outbox /\ call[Main].op # "emit" /\ \E c : Become(Main, c)
    BY <1>3 DEF Seed, StoreBegin, Idle
  <2>2. QED
    BY <1>b, <2>1, StallAssumption
<1>4. CASE Crash
  BY <1>4 DEF Crash, StoreCrash
<1>5. CASE Hydrate \/ Serve \/ UNCHANGED vars
  BY <1>0, <1>5 DEF Hydrate, Serve, vars, storeVars
<1>6. QED
  BY <1>1, <1>2, <1>3, <1>4, <1>5 DEF Next, Boot

\* Until the process serves, only Main has anything to go on with.
LEMMA OnlyMainBoots ==
  ASSUME TypeOK, BootInv, NEW t \in Threads, Continue(t)
  PROVE  phase # "hydrate" /\ (phase = "seed" => t = Main) /\ UNCHANGED <<phase, hydrated>>
<1>1. UNCHANGED <<phase, hydrated>>
  BY DEF Continue, ReserveCommit, ReserveRefuse, CancelBegin, CancelCommit, TeachCommit, Append1,
         Notify, Booted
<1>2. ~Silent(t)
  BY DEF Continue, ReserveCommit, ReserveRefuse, CancelBegin, CancelCommit, TeachCommit, Append1,
         Notify, StoreNotify, Silent, Idle
<1>3. QED
  BY <1>1, <1>2 DEF BootInv, PhaseInv

\* What a step of one thread leaves alone for another.
LEMMA OthersSilent ==
  ASSUME TypeOK, NEW t \in Threads, Continue(t), NEW u \in Threads, u # t
  PROVE  Silent(u) => Silent(u)'
<1>1. outbox \in [Threads -> Seq(1 .. Len(log))] /\ call \in [Threads -> Calls]
  BY DEF TypeOK, StoreTypeOK
<1>2. outbox'[u] = outbox[u]
  BY <1>1 DEF Continue, ReserveCommit, ReserveRefuse, CancelBegin, CancelCommit, TeachCommit,
     Append1, Notify, StoreCommit, StoreRollback, StoreBegin, StoreAppend, StoreNotify
<1>3. call'[u] = call[u]
  BY <1>1 DEF Continue, ReserveCommit, ReserveRefuse, CancelBegin, CancelCommit, TeachCommit,
     Append1, Notify, Become
<1>4. QED
  BY <1>2, <1>3 DEF Silent

LEMMA BootStep ==
  ASSUME TypeOK, BootInv, [Next]_vars
  PROVE  BootInv'
<1>0. /\ StoreTypeOK /\ Len(log) \in Nat /\ Len(replays) = Len(log) + 1
      /\ outbox \in [Threads -> Seq(1 .. Len(log))] /\ call \in [Threads -> Calls]
      /\ Main \in Threads /\ hydrated \in 0 .. Len(log)
  BY StallAssumption DEF TypeOK, StoreTypeOK
<1>a. History' /\ \A t \in Threads : outbox'[t] # <<>> => call'[t].op = "emit"
  BY HistoryStep, EmittersStep DEF BootInv, PhaseInv
<1>1. ASSUME NEW t \in Threads, Continue(t) PROVE PhaseInv'
  <2>1. phase' # "hydrate" /\ phase' = phase /\ (phase = "seed" => t = Main)
    BY <1>1, OnlyMainBoots
  <2>2. phase' = "seed" => \A u \in Threads : u # Main => Silent(u)'
    BY <1>1, <2>1, OthersSilent DEF BootInv, PhaseInv
  <2>3. Alone' => InOrder(Main)'
    <3>1. Alone' => Alone /\ t = Main
      BY <2>1 DEF Alone
    <3>2. QED
      BY <1>1, <3>1, ContinueInOrder DEF BootInv, PhaseInv
  <2>4. QED
    BY <2>1, <2>2, <2>3 DEF PhaseInv
<1>2. ASSUME NEW t \in Threads, Request(t) PROVE PhaseInv'
  <2>1. /\ phase = "up" /\ phase' = "up" /\ UNCHANGED <<log, outbox, view, replays>>
    BY <1>2 DEF Request, ReserveBegin, MarkPaidRead, MarkPackedRead, CancelRead, ReconcileRead,
                SetActiveRead, TeachBegin, StoreBegin, storeVars, Starts, Booted
  <2>2. (Alone' => Alone) /\ (InOrder(Main) => InOrder(Main)')
    BY <2>1 DEF Alone, InOrder
  <2>3. QED
    BY <2>1, <2>2 DEF BootInv, PhaseInv
<1>3. CASE Hydrate /\ RowsLeft
  <2>1. /\ phase' = "hydrate" /\ hydrated' = hydrated + 1 /\ UNCHANGED <<outbox, call, replays>>
        /\ view' = Apply(view, log[hydrated + 1]) /\ phase = "hydrate"
    BY <1>3 DEF Hydrate
  <2>2. hydrated + 1 \in 1 .. Len(log)
    BY <1>0, <1>3 DEF RowsLeft
  <2>3. view' = replays[hydrated + 2]
    BY <1>0, <2>1, <2>2 DEF BootInv, PhaseInv, History
  <2>4. \A t \in Threads : Silent(t)'
    BY <2>1 DEF BootInv, PhaseInv, Silent
  <2>5. replays'[hydrated' + 1] = replays[hydrated + 2]
    BY <1>0, <2>1
  <2>6. QED
    BY <1>a, <2>1, <2>3, <2>4, <2>5 DEF BootInv, Alone, PhaseInv
<1>4. CASE Hydrate /\ ~RowsLeft
  <2>1. /\ phase' = "seed" /\ phase = "hydrate"
        /\ UNCHANGED <<log, outbox, call, replays, view, hydrated>>
    BY <1>4 DEF Hydrate
  <2>2. hydrated = Len(log)
    BY <1>0, <1>4 DEF RowsLeft
  <2>3. \A t \in Threads : Silent(t)'
    BY <2>1 DEF BootInv, PhaseInv, Silent
  <2>4. outbox[Main] = <<>> /\ Len(outbox[Main]) = 0
    BY <1>0, <2>1 DEF BootInv, PhaseInv, Silent
  <2>5. view = replays[Len(log) + 1]
    BY <2>1, <2>2 DEF BootInv, PhaseInv
  <2>6. InOrder(Main)'
    BY <1>0, <2>1, <2>4, <2>5 DEF InOrder
  <2>7. QED
    BY <1>a, <2>1, <2>3, <2>6 DEF BootInv, PhaseInv
<1>5. CASE Seed
  <2>1. /\ phase = "seed" /\ phase' = "seed" /\ UNCHANGED <<log, outbox, view, replays>>
        /\ \A u \in Threads : u # Main => call'[u] = call[u]
    BY <1>0, <1>5 DEF Seed, StoreBegin, Booted, Become
  <2>2. \A u \in Threads : u # Main => Silent(u)'
    BY <2>1 DEF BootInv, PhaseInv, Silent
  <2>3. InOrder(Main)'
    BY <2>1 DEF BootInv, PhaseInv, Alone, InOrder
  <2>4. QED
    BY <1>a, <2>1, <2>2, <2>3 DEF BootInv, PhaseInv
<1>6. CASE Serve
  <2>1. phase = "seed" /\ phase' = "up" /\ UNCHANGED <<log, outbox, view, replays>>
    BY <1>6 DEF Serve, storeVars
  <2>2. InOrder(Main)'
    BY <2>1 DEF BootInv, PhaseInv, Alone, InOrder
  <2>3. QED
    BY <1>a, <2>1, <2>2 DEF BootInv, PhaseInv
<1>7. CASE Crash
  <2>1. /\ phase' = "hydrate" /\ hydrated' = 0 /\ view' = EmptyView /\ replays' = replays
        /\ \A t \in Threads : call'[t] = Idle /\ outbox'[t] = <<>>
    BY <1>7 DEF Crash, StoreCrash
  <2>2. view' = replays'[hydrated' + 1]
    BY <2>1 DEF BootInv, PhaseInv, History
  <2>3. QED
    BY <1>a, <2>1, <2>2 DEF BootInv, Silent, Alone, PhaseInv
<1>8. CASE UNCHANGED vars
  BY <1>a, <1>8 DEF BootInv, PhaseInv, vars, storeVars, Silent, Alone, InOrder
<1>9. QED
  BY <1>a, <1>1, <1>2, <1>3, <1>4, <1>5, <1>6, <1>7, <1>8 DEF Next, Boot, BootInv

LEMMA BootCorrect == Spec => []BootInv
<1>1. Init => BootInv
  BY DEF Init, StoreInit, BootInv, PhaseInv, History, Silent, Alone
<1>2. TypeOK /\ BootInv /\ [Next]_vars => BootInv'
  BY BootStep
<1>3. QED
  BY <1>1, <1>2, TypeCorrect, PTL DEF Spec

\* A process that seeds and has delivered what it appended is up to date.
LEMMA BootedView ==
  ASSUME TypeOK, BootInv, phase = "seed", outbox[Main] = <<>>
  PROVE  view = Durable
<1>1. InOrder(Main) /\ Len(outbox[Main]) = 0
  BY DEF BootInv, PhaseInv, Alone
<1>2. Len(replays) = Len(log) + 1 /\ Len(log) \in Nat
  BY DEF TypeOK, StoreTypeOK
<1>3. QED
  BY <1>1, <1>2 DEF InOrder, Durable

\* However many threads there are and wherever the last process died, a process
\* that has finished booting holds exactly what the log says (factory.py:53-64,
\* docs/architecture.md:445 "replay from the log").
THEOREM RestartHealed == Spec => []RestartHeals
<1>1. TypeOK /\ BootInv => RestartHeals
  BY BootedView DEF RestartHeals
<1>2. QED
  BY <1>1, TypeCorrect, BootCorrect, PTL

-----------------------------------------------------------------------------
(* What an event does to a view. *)

Moves == {"order_paid", "order_packed", "order_cancelled"}

\* The order after one of the three events that move it along.
MovedTo(ord, e) ==
  [ord EXCEPT
     !.status = CASE e.type = "order_paid" -> "paid"
                  [] e.type = "order_packed" -> "packed"
                  [] OTHER -> "cancelled",
     !.session = IF e.type = "order_paid" THEN e.session ELSE ord.session]

NewOrder(e) == [status |-> "reserved", item |-> e.item, qty |-> e.qty, session |-> NoSession]

\* What one event makes of one order.
After(ord, e, o) ==
  IF e.type = "order_reserved" /\ e.order = o THEN NewOrder(e)
  ELSE IF e.type \in Moves /\ e.order = o /\ ord # NoOrder THEN MovedTo(ord, e)
  ELSE ord

\* The fields that an event has.
LEMMA EventFields ==
  ASSUME NEW e \in Event
  PROVE  /\ e.type \in {"item_taught", "count_set"} => e.item \in Items /\ e.count \in Nat
         /\ e.type = "order_reserved" => e.order \in OrderIds /\ e.item \in Items /\ e.qty \in Nat \ {0}
         /\ e.type \in Moves => e.order \in OrderIds
         /\ e.type = "order_paid" => e.session \in Sessions
BY DEF Event, CatalogEvent, OrderEvent, Moves

LEMMA NoOrderIsNone == NoOrder \notin Order /\ NoOrder.status = "none"
<1>1. NoOrder.status = "none"
  BY DEF NoOrder
<1>2. \A r \in Order : r.status # "none"
  BY DEF Order, Statuses
<1>3. QED
  BY <1>1, <1>2

LEMMA OrdersEffect ==
  ASSUME NEW v \in View, NEW e \in Event, NEW o \in OrderIds
  PROVE  /\ ApplyOrders(v, e).order[o] = After(v.order[o], e, o)
         /\ ApplyOrders(v, e).items = v.items /\ ApplyOrders(v, e).count = v.count
<1>1. v.order \in [OrderIds -> Order \cup {NoOrder}] /\ v \in View
  BY DEF View
<1>2. CASE e.type = "order_reserved"
  <2>1. e.order \in OrderIds
    BY <1>2, EventFields
  <2>2. ApplyOrders(v, e) = [v EXCEPT !.order = [v.order EXCEPT ![e.order] = NewOrder(e)]]
    BY <1>2 DEF ApplyOrders, NewOrder
  <2>3. /\ ApplyOrders(v, e).order = [v.order EXCEPT ![e.order] = NewOrder(e)]
        /\ ApplyOrders(v, e).items = v.items /\ ApplyOrders(v, e).count = v.count
    BY <2>2 DEF View
  <2>4. QED
    BY <1>1, <1>2, <2>1, <2>3 DEF After
<1>3. CASE e.type \in Moves /\ v.order[e.order] # NoOrder
  <2>1. e.order \in OrderIds
    BY <1>3, EventFields
  <2>2. v.order[e.order] \in Order
    BY <1>1, <1>3, <2>1
  <2>3. PICK st, s : /\ ApplyOrders(v, e) = SetStatus(v, e.order, st, s)
                     /\ MovedTo(v.order[e.order], e) = [v.order[e.order] EXCEPT !.status = st, !.session = s]
    BY <1>3, <2>2 DEF ApplyOrders, MovedTo, Moves
  <2>4. /\ ApplyOrders(v, e).order = [v.order EXCEPT ![e.order] = MovedTo(v.order[e.order], e)]
        /\ ApplyOrders(v, e).items = v.items /\ ApplyOrders(v, e).count = v.count
    BY <2>3 DEF SetStatus, View
  <2>5. QED
    BY <1>1, <1>3, <2>1, <2>4 DEF After, Moves
<1>4. CASE e.type # "order_reserved" /\ ~(e.type \in Moves /\ v.order[e.order] # NoOrder)
  <2>1. ApplyOrders(v, e) = v
    BY <1>4 DEF ApplyOrders, Moves
  <2>2. QED
    BY <1>4, <2>1 DEF After
<1>5. QED
  BY <1>2, <1>3, <1>4

\* Whether the event sets the count of i, in a view that has the items.
Sets(e, i, items) ==
  /\ e.type = "item_taught" \/ (e.type = "count_set" /\ e.item \in items)
  /\ e.item = i

LEMMA ApplyEffect ==
  ASSUME NEW v \in View, NEW e \in Event
  PROVE  /\ Apply(v, e) \in View
         /\ Apply(v, e).items = IF e.type = "item_taught" THEN v.items \cup {e.item} ELSE v.items
         /\ \A i \in Items : Apply(v, e).count[i] = IF Sets(e, i, v.items) THEN e.count ELSE v.count[i]
         /\ \A o \in OrderIds : Apply(v, e).order[o] = After(v.order[o], e, o)
<1>1. PICK w \in View : w = ApplyOrders(v, e)
  BY ApplyOrdersType
<1>2. w.items = v.items /\ w.count = v.count
  BY <1>1, OrdersEffect DEF ApplyOrders, SetStatus, View
<1>3. /\ ApplyCatalog(w, e).order = w.order
      /\ ApplyCatalog(w, e).items = IF e.type = "item_taught" THEN w.items \cup {e.item} ELSE w.items
      /\ \A i \in Items : ApplyCatalog(w, e).count[i] = IF Sets(e, i, w.items) THEN e.count ELSE w.count[i]
  <2>1. w.count \in [Items -> Nat]
    BY DEF View
  <2>2. CASE e.type = "item_taught" \/ (e.type = "count_set" /\ e.item \in w.items)
    <3>1. ApplyCatalog(w, e).count = [w.count EXCEPT ![e.item] = e.count] /\ e.item \in Items
      BY <2>2, EventFields DEF ApplyCatalog, View
    <3>2. /\ ApplyCatalog(w, e).order = w.order
          /\ ApplyCatalog(w, e).items = IF e.type = "item_taught" THEN w.items \cup {e.item} ELSE w.items
      BY <2>2 DEF ApplyCatalog, View
    <3>3. QED
      BY <2>1, <2>2, <3>1, <3>2 DEF Sets
  <2>3. CASE ~(e.type = "item_taught" \/ (e.type = "count_set" /\ e.item \in w.items))
    BY <2>3 DEF ApplyCatalog, View, Sets
  <2>4. QED
    BY <2>2, <2>3
<1>4. \A o \in OrderIds : w.order[o] = After(v.order[o], e, o)
  BY <1>1, OrdersEffect
<1>5. QED
  BY <1>1, <1>2, <1>3, <1>4, ApplyType DEF Apply

\* An order that is there stays, with its item and its quantity.
LEMMA AfterFacts ==
  ASSUME NEW ord \in Order \cup {NoOrder}, NEW e \in Event, NEW o \in OrderIds
  PROVE  /\ After(ord, e, o) \in Order \cup {NoOrder}
         /\ ord # NoOrder /\ ~(e.type = "order_reserved" /\ e.order = o) =>
              /\ After(ord, e, o) # NoOrder
              /\ After(ord, e, o).item = ord.item /\ After(ord, e, o).qty = ord.qty
         /\ e.type = "order_reserved" /\ e.order = o =>
              /\ After(ord, e, o) # NoOrder /\ After(ord, e, o) = NewOrder(e)
         /\ ord = NoOrder /\ ~(e.type = "order_reserved" /\ e.order = o) => After(ord, e, o) = NoOrder
<1>1. CASE e.type = "order_reserved" /\ e.order = o
  <2>1. NewOrder(e) \in Order
    BY <1>1, EventFields DEF NewOrder, Order, Statuses
  <2>2. QED
    BY <1>1, <2>1, NoOrderIsNone DEF After
<1>2. CASE e.type \in Moves /\ e.order = o /\ ord # NoOrder
  <2>1. ord \in Order /\ e.type # "order_reserved"
    BY <1>2 DEF Moves
  <2>2. /\ MovedTo(ord, e) \in Order
        /\ MovedTo(ord, e).item = ord.item /\ MovedTo(ord, e).qty = ord.qty
    BY <1>2, <2>1, EventFields DEF MovedTo, Order, Statuses
  <2>3. QED
    BY <1>2, <2>1, <2>2, NoOrderIsNone DEF After
<1>3. CASE ~(e.type = "order_reserved" /\ e.order = o) /\ ~(e.type \in Moves /\ e.order = o /\ ord # NoOrder)
  BY <1>3 DEF After
<1>4. QED
  BY <1>1, <1>2, <1>3

-----------------------------------------------------------------------------
(* A view that knows all that another knows. *)

Rooted(v, w) ==
  /\ v.items \subseteq w.items
  /\ \A o \in OrderIds : v.order[o] # NoOrder =>
       /\ w.order[o] # NoOrder
       /\ w.order[o].item = v.order[o].item /\ w.order[o].qty = v.order[o].qty

\* The order and the item an event brings are there.
Known(w, e) ==
  /\ e.type = "order_reserved" =>
       /\ w.order[e.order] # NoOrder
       /\ w.order[e.order].item = e.item /\ w.order[e.order].qty = e.qty
  /\ e.type = "item_taught" => e.item \in w.items

LEMMA RootedTrans ==
  ASSUME NEW u, NEW v, NEW w, Rooted(u, v), Rooted(v, w)
  PROVE  Rooted(u, w)
BY DEF Rooted

LEMMA RootedKnown ==
  ASSUME NEW v, NEW w, Rooted(v, w), NEW e \in Event, Known(v, e)
  PROVE  Known(w, e)
BY EventFields DEF Rooted, Known

LEMMA ApplyKnows ==
  ASSUME NEW v \in View, NEW e \in Event
  PROVE  Known(Apply(v, e), e)
<1>1. ASSUME e.type = "order_reserved"
      PROVE  Apply(v, e).order[e.order] = NewOrder(e) /\ NewOrder(e) # NoOrder
  BY <1>1, EventFields, ApplyEffect, NoOrderIsNone DEF After, NewOrder, NoOrder
<1>2. e.type = "item_taught" => e.item \in Apply(v, e).items
  <2>1. Apply(v, e).items = IF e.type = "item_taught" THEN v.items \cup {e.item} ELSE v.items
    BY ApplyEffect
  <2>2. QED
    BY <2>1
<1>3. QED
  BY <1>1, <1>2 DEF Known, NewOrder

\* What is known already changes nothing that matters.
LEMMA ApplyRooted ==
  ASSUME NEW v \in View, NEW w \in View, Rooted(v, w), NEW e \in Event, Known(w, e)
  PROVE  Rooted(Apply(v, e), w)
<1>1. Apply(v, e).items \subseteq w.items
  <2>1. Apply(v, e).items = IF e.type = "item_taught" THEN v.items \cup {e.item} ELSE v.items
    BY ApplyEffect
  <2>2. QED
    BY <2>1 DEF Rooted, Known
<1>2. ASSUME NEW o \in OrderIds, Apply(v, e).order[o] # NoOrder
      PROVE  /\ w.order[o] # NoOrder
             /\ w.order[o].item = Apply(v, e).order[o].item
             /\ w.order[o].qty = Apply(v, e).order[o].qty
  <2>1. PICK ord \in Order \cup {NoOrder} : ord = v.order[o]
    BY DEF View
  <2>2. Apply(v, e).order[o] = After(ord, e, o)
    BY <2>1, ApplyEffect
  <2>3. CASE e.type = "order_reserved" /\ e.order = o
    BY <2>2, <2>3, AfterFacts DEF Known, NewOrder
  <2>4. CASE ~(e.type = "order_reserved" /\ e.order = o)
    <3>1. ord # NoOrder
      BY <1>2, <2>2, <2>4, AfterFacts
    <3>2. QED
      BY <2>1, <2>2, <2>4, <3>1, AfterFacts DEF Rooted
  <2>5. QED
    BY <2>3, <2>4
<1>3. QED
  BY <1>1, <1>2 DEF Rooted

\* A view that takes in an event keeps what it had, if the order is a new one.
LEMMA ApplyGrows ==
  ASSUME NEW v \in View, NEW e \in Event, e.type = "order_reserved" => v.order[e.order] = NoOrder
  PROVE  Rooted(v, Apply(v, e))
<1>1. v.items \subseteq Apply(v, e).items
  BY ApplyEffect
<1>2. ASSUME NEW o \in OrderIds, v.order[o] # NoOrder
      PROVE  /\ Apply(v, e).order[o] # NoOrder
             /\ Apply(v, e).order[o].item = v.order[o].item
             /\ Apply(v, e).order[o].qty = v.order[o].qty
  <2>1. PICK ord \in Order \cup {NoOrder} : ord = v.order[o]
    BY DEF View
  <2>2. Apply(v, e).order[o] = After(ord, e, o)
    BY <2>1, ApplyEffect
  <2>3. ~(e.type = "order_reserved" /\ e.order = o)
    BY <1>2
  <2>4. QED
    BY <1>2, <2>1, <2>2, <2>3, AfterFacts
<1>3. QED
  BY <1>1, <1>2 DEF Rooted

-----------------------------------------------------------------------------
(* Two views that are the same as far as one item is concerned. *)

Of(ord, i) == ord # NoOrder /\ ord.item = i

Same(v, w, i) ==
  /\ i \in v.items <=> i \in w.items
  /\ v.count[i] = w.count[i]
  /\ \A o \in OrderIds : Of(v.order[o], i) \/ Of(w.order[o], i) => v.order[o] = w.order[o]

\* The event is about item i, to a view that has the order.
About(v, e, i) ==
  \/ e.type \in {"item_taught", "count_set"} /\ e.item = i
  \/ e.type = "order_reserved" /\ (e.item = i \/ Of(v.order[e.order], i))
  \/ e.type \in Moves /\ Of(v.order[e.order], i)

LEMMA SameTrans ==
  ASSUME NEW u, NEW v, NEW w, NEW i, Same(u, v, i), Same(v, w, i)
  PROVE  Same(u, w, i) /\ Same(v, u, i)
BY DEF Same

\* An event does the same to both.
LEMMA ApplySame ==
  ASSUME NEW v \in View, NEW w \in View, NEW i \in Items, Same(v, w, i), NEW e \in Event
  PROVE  Same(Apply(v, e), Apply(w, e), i)
<1>1. i \in Apply(v, e).items <=> i \in Apply(w, e).items
  BY ApplyEffect DEF Same
<1>2. Apply(v, e).count[i] = Apply(w, e).count[i]
  <2>1. Sets(e, i, v.items) <=> Sets(e, i, w.items)
    BY DEF Sets, Same
  <2>2. QED
    BY <2>1, ApplyEffect DEF Same
<1>3. ASSUME NEW o \in OrderIds, Of(Apply(v, e).order[o], i) \/ Of(Apply(w, e).order[o], i)
      PROVE  Apply(v, e).order[o] = Apply(w, e).order[o]
  <2>1. PICK x \in Order \cup {NoOrder}, y \in Order \cup {NoOrder} : x = v.order[o] /\ y = w.order[o]
    BY DEF View
  <2>2. Apply(v, e).order[o] = After(x, e, o) /\ Apply(w, e).order[o] = After(y, e, o)
    BY <2>1, ApplyEffect
  <2>3. CASE e.type = "order_reserved" /\ e.order = o
    BY <2>2, <2>3, AfterFacts
  <2>4. CASE ~(e.type = "order_reserved" /\ e.order = o)
    <3>1. Of(x, i) \/ Of(y, i)
      BY <1>3, <2>2, <2>4, AfterFacts DEF Of
    <3>2. x = y
      BY <2>1, <3>1 DEF Same
    <3>3. QED
      BY <2>2, <3>2
  <2>5. QED
    BY <2>3, <2>4
<1>4. QED
  BY <1>1, <1>2, <1>3 DEF Same

\* An event about another item does nothing.
LEMMA ApplyForeign ==
  ASSUME NEW v \in View, NEW i \in Items, NEW e \in Event, ~About(v, e, i)
  PROVE  Same(Apply(v, e), v, i)
<1>1. i \in Apply(v, e).items <=> i \in v.items
  BY ApplyEffect DEF About
<1>2. Apply(v, e).count[i] = v.count[i]
  BY ApplyEffect DEF About, Sets
<1>3. ASSUME NEW o \in OrderIds, Of(Apply(v, e).order[o], i) \/ Of(v.order[o], i)
      PROVE  Apply(v, e).order[o] = v.order[o]
  <2>1. PICK x \in Order \cup {NoOrder} : x = v.order[o]
    BY DEF View
  <2>2. Apply(v, e).order[o] = After(x, e, o)
    BY <2>1, ApplyEffect
  <2>3. CASE e.type = "order_reserved" /\ e.order = o
    <3>1. After(x, e, o) = NewOrder(e) /\ NewOrder(e).item = e.item
      BY <2>3, AfterFacts DEF NewOrder
    <3>2. Of(After(x, e, o), i) => e.item = i
      BY <3>1 DEF Of
    <3>3. QED
      BY <1>3, <2>1, <2>2, <2>3, <3>2 DEF About
  <2>4. CASE ~(e.type = "order_reserved" /\ e.order = o)
    <3>1. Of(x, i)
      BY <1>3, <2>1, <2>2, <2>4, AfterFacts DEF Of
    <3>2. ~(e.type \in Moves /\ e.order = o)
      BY <2>1, <3>1 DEF About
    <3>3. QED
      BY <2>1, <2>2, <2>4, <3>2 DEF After
  <2>5. QED
    BY <2>3, <2>4
<1>4. QED
  BY <1>1, <1>2, <1>3 DEF Same

-----------------------------------------------------------------------------
(* The same, event by event, for the parts of a view that the ledger has. *)

\* w is v after e.
Effect(v, e, w) ==
  /\ v.count \in [Items -> Nat] /\ w.count \in [Items -> Nat]
  /\ v.order \in [OrderIds -> Order \cup {NoOrder}] /\ w.order \in [OrderIds -> Order \cup {NoOrder}]
  /\ w.items = IF e.type = "item_taught" THEN v.items \cup {e.item} ELSE v.items
  /\ \A j \in Items : w.count[j] = IF Sets(e, j, v.items) THEN e.count ELSE v.count[j]
  /\ \A p \in OrderIds : w.order[p] = After(v.order[p], e, p)

LEMMA EffectOn ==
  ASSUME NEW v \in View, NEW e \in Event, NEW w, w = Apply(v, e)
  PROVE  Effect(v, e, w)
<1>1. w \in View
  BY ApplyEffect
<1>2. QED
  BY <1>1, ApplyEffect DEF View, Effect

LEMMA OrderReservedEffect ==
  ASSUME NEW v \in View, NEW o \in OrderIds, NEW i \in Items, NEW q \in Nat \ {0},
         NEW w, w = Apply(v, OrderReserved(o, i, q))
  PROVE  /\ w.items = v.items /\ w.count = v.count
         /\ w.order = [v.order EXCEPT ![o] =
              [status |-> "reserved", item |-> i, qty |-> q, session |-> NoSession]]
<1>1. PICK e \in Event : e = OrderReserved(o, i, q)
  BY EventTypes
<1>2. e.type = "order_reserved" /\ e.order = o /\ e.item = i /\ e.qty = q
  BY <1>1 DEF OrderReserved
<1>3. Effect(v, e, w)
  BY <1>1, EffectOn
<1>4. w.items = v.items /\ \A j \in Items : w.count[j] = v.count[j]
  BY <1>2, <1>3 DEF Effect, Sets
<1>5. \A p \in OrderIds : w.order[p] = IF p = o THEN NewOrder(e) ELSE v.order[p]
  BY <1>2, <1>3 DEF Effect, After, Moves
<1>6. w.count = v.count
  BY <1>3, <1>4 DEF Effect
<1>7. w.order = [v.order EXCEPT ![o] = NewOrder(e)]
  BY <1>3, <1>5 DEF Effect
<1>8. QED
  BY <1>2, <1>4, <1>6, <1>7 DEF NewOrder

LEMMA CountSetEffect ==
  ASSUME NEW v \in View, NEW i \in Items, NEW n \in Nat, NEW src \in Sources,
         NEW w, w = Apply(v, CountSet(i, n, src))
  PROVE  /\ w.items = v.items /\ w.order = v.order
         /\ i \in v.items => w.count = [v.count EXCEPT ![i] = n]
         /\ i \notin v.items => w.count = v.count
<1>1. PICK e \in Event : e = CountSet(i, n, src)
  BY EventTypes
<1>2. e.type = "count_set" /\ e.item = i /\ e.count = n
  BY <1>1 DEF CountSet
<1>3. Effect(v, e, w)
  BY <1>1, EffectOn
<1>4. w.items = v.items /\ \A o \in OrderIds : w.order[o] = v.order[o]
  BY <1>2, <1>3 DEF Effect, After, Moves
<1>5. \A j \in Items : w.count[j] = IF i \in v.items /\ j = i THEN n ELSE v.count[j]
  BY <1>2, <1>3 DEF Effect, Sets
<1>6. w.order = v.order
  BY <1>3, <1>4 DEF Effect
<1>7. i \in v.items => w.count = [v.count EXCEPT ![i] = n]
  BY <1>3, <1>5 DEF Effect
<1>8. i \notin v.items => w.count = v.count
  BY <1>3, <1>5 DEF Effect
<1>9. QED
  BY <1>4, <1>6, <1>7, <1>8

LEMMA ItemTaughtEffect ==
  ASSUME NEW v \in View, NEW i \in Items, NEW n \in Nat, NEW w, w = Apply(v, ItemTaught(i, n))
  PROVE  w.items = v.items \cup {i} /\ w.order = v.order /\ w.count = [v.count EXCEPT ![i] = n]
<1>1. PICK e \in Event : e = ItemTaught(i, n)
  BY EventTypes
<1>2. e.type = "item_taught" /\ e.item = i /\ e.count = n
  BY <1>1 DEF ItemTaught
<1>3. Effect(v, e, w)
  BY <1>1, EffectOn
<1>4. w.items = v.items \cup {i} /\ \A o \in OrderIds : w.order[o] = v.order[o]
  BY <1>2, <1>3 DEF Effect, After, Moves
<1>5. \A j \in Items : w.count[j] = IF j = i THEN n ELSE v.count[j]
  BY <1>2, <1>3 DEF Effect, Sets
<1>6. w.order = v.order /\ w.count = [v.count EXCEPT ![i] = n]
  BY <1>3, <1>4, <1>5 DEF Effect
<1>7. QED
  BY <1>4, <1>6

\* Neither the active item nor a StockLow is in the ledger.
LEMMA OtherEffect ==
  ASSUME NEW v \in View, NEW e \in Event, e.type \in {"active_item_set", "stock_low"},
         NEW w, w = Apply(v, e)
  PROVE  w.items = v.items /\ w.order = v.order /\ w.count = v.count
<1>1. Effect(v, e, w)
  BY EffectOn
<1>2. /\ w.items = v.items
      /\ \A j \in Items : w.count[j] = v.count[j]
      /\ \A o \in OrderIds : w.order[o] = v.order[o]
  BY <1>1 DEF Effect, After, Sets, Moves
<1>3. w.order = v.order /\ w.count = v.count
  BY <1>1, <1>2 DEF Effect
<1>4. QED
  BY <1>2, <1>3

LEMMA MoveEffect ==
  ASSUME NEW v \in View, NEW e \in Event, e.type \in Moves, v.order[e.order] # NoOrder,
         NEW w, w = Apply(v, e)
  PROVE  /\ w.items = v.items /\ w.count = v.count
         /\ w.order = [v.order EXCEPT ![e.order] = MovedTo(v.order[e.order], e)]
<1>1. Effect(v, e, w)
  BY EffectOn
<1>2. /\ w.items = v.items
      /\ \A j \in Items : w.count[j] = v.count[j]
  BY <1>1 DEF Effect, Sets, Moves
<1>3. \A o \in OrderIds : w.order[o] = IF o = e.order THEN MovedTo(v.order[e.order], e) ELSE v.order[o]
  BY <1>1 DEF Effect, After, Moves
<1>4. w.count = v.count
  BY <1>1, <1>2 DEF Effect
<1>5. w.order = [v.order EXCEPT ![e.order] = MovedTo(v.order[e.order], e)]
  BY <1>1, <1>3 DEF Effect
<1>6. QED
  BY <1>2, <1>4, <1>5

-----------------------------------------------------------------------------
(* The steps, by what they do to the log and to the calls. *)

\* What thread t appends and what is left of its call.
Source(t, es, rest) ==
  LET c == call[t] IN
  \/ c.op = "emit" /\ c.todo # <<>> /\ es = <<Head(c.todo)>> /\ rest = Tail(c.todo)
  \/ /\ c.op = "reserve" /\ CanReserve(c) /\ rest = <<>>
     /\ es = << OrderReserved(c.order, c.item, c.qty),
                CountSet(c.item, view.count[c.item] - c.qty, "manual") >>
  \/ c.op = "cancel" /\ es = CancelEvents(c) /\ rest = <<>>
  \/ /\ c.op = "teach" /\ rest = <<>>
     /\ es = << ItemTaught(c.item, SeedCount[c.item]), ActiveItemSet(c.item) >>

Appends(t, es, rest) ==
  /\ es \in Seq(Event) /\ Len(es) \in {1, 2} /\ Record(es)
  /\ Source(t, es, rest)
  /\ outbox[t] = <<>> /\ outbox' = [outbox EXCEPT ![t] = Offsets(es)]
  /\ call' = [call EXCEPT ![t] = Emitting(call[t].item, rest)]
  /\ UNCHANGED <<view, phase, hydrated>>

\* A call begins, waits for the lock or ends: nothing but the call changes.
Turns(t) ==
  /\ \/ ReserveRefuse(t) \/ CancelBegin(t) \/ Request(t)
     \/ (Seed /\ t = Main)
  /\ UNCHANGED <<log, outbox, view, replays, phase, hydrated>>

LEMMA StepKinds ==
  ASSUME TypeOK, BootInv, [Next]_vars
  PROVE  \/ \E t \in Threads : \E es \in Seq(Event) : \E rest : Appends(t, es, rest)
         \/ \E t \in Threads : Notify(t)
         \/ \E t \in Threads : Turns(t)
         \/ Hydrate \/ Serve \/ Crash \/ UNCHANGED vars
<1>1. ASSUME NEW t \in Threads, ReserveCommit(t) \/ CancelCommit(t) \/ TeachCommit(t) \/ Append1(t)
      PROVE  \E es \in Seq(Event) : \E rest : Appends(t, es, rest)
  <2>1. CASE ReserveCommit(t) \/ CancelCommit(t) \/ TeachCommit(t)
    <3>1. call[t].op # "emit" /\ outbox[t] = <<>>
      BY <2>1 DEF ReserveCommit, CancelCommit, TeachCommit, BootInv
    <3>2. PICK es : /\ es \in Seq(Event) /\ Len(es) \in {1, 2} /\ StoreCommit(t, es)
                    /\ Source(t, es, <<>>)
      BY <2>1, BatchTypes DEF ReserveCommit, CancelCommit, TeachCommit, Source
    <3>3. Record(es) /\ outbox' = [outbox EXCEPT ![t] = Offsets(es)] /\ UNCHANGED view
      BY <3>2 DEF StoreCommit
    <3>4. call' = [call EXCEPT ![t] = Emitting(call[t].item, <<>>)] /\ UNCHANGED <<phase, hydrated>>
      BY <2>1 DEF ReserveCommit, CancelCommit, TeachCommit, Become, Booted
    <3>5. Appends(t, es, <<>>)
      BY <3>1, <3>2, <3>3, <3>4 DEF Appends
    <3>6. QED
      BY <3>2, <3>5
  <2>2. CASE Append1(t)
    <3>1. call[t].op = "emit" /\ call[t].todo \in Seq(Singles) /\ call[t].todo # <<>> /\ outbox[t] = <<>>
      BY <2>2, CallFields DEF Append1
    <3>2. PICK e \in Event : e = Head(call[t].todo)
      BY <3>1, HeadTailProperties, EventTypes
    <3>3. PICK es : es = <<e>> /\ es \in Seq(Event) /\ Len(es) = 1
      <4>1. <<e>> \in Seq(Event) /\ Len(<<e>>) = 1
        BY <3>2
      <4>2. QED
        BY <4>1
    <3>4. Record(es) /\ outbox' = [outbox EXCEPT ![t] = <<Len(log) + 1>>] /\ UNCHANGED view
      BY <2>2, <3>2, <3>3 DEF Append1, StoreAppend
    <3>5. Offsets(es) = <<Len(log) + 1>>
      BY <3>3 DEF Offsets
    <3>6. call' = [call EXCEPT ![t] = Emitting(call[t].item, Tail(call[t].todo))] /\ UNCHANGED <<phase, hydrated>>
      BY <2>2 DEF Append1, Become, Booted
    <3>7. Source(t, es, Tail(call[t].todo))
      BY <3>1, <3>2, <3>3 DEF Source
    <3>8. Appends(t, es, Tail(call[t].todo))
      BY <3>1, <3>3, <3>4, <3>5, <3>6, <3>7 DEF Appends
    <3>9. QED
      BY <3>3, <3>8
  <2>3. QED
    BY <1>1, <2>1, <2>2
<1>2. ASSUME NEW t \in Threads, ReserveRefuse(t) \/ CancelBegin(t) \/ Request(t)
      PROVE  Turns(t)
  <2>1. CASE ReserveRefuse(t) \/ CancelBegin(t)
    BY <2>1 DEF Turns, ReserveRefuse, CancelBegin, StoreRollback, StoreBegin, Booted
  <2>2. CASE Request(t)
    BY <2>2 DEF Turns, Request, ReserveBegin, MarkPaidRead, MarkPackedRead, CancelRead, ReconcileRead,
                SetActiveRead, TeachBegin, StoreBegin, storeVars, Booted
  <2>3. QED
    BY <1>2, <2>1, <2>2
<1>3. ASSUME Seed
      PROVE  Turns(Main) /\ Main \in Threads
  BY <1>3, StallAssumption DEF Turns, Seed, StoreBegin, Booted
<1>4. QED
  BY <1>1, <1>2, <1>3 DEF Next, Boot, Continue

\* What the log says now, and after a step that appends.
LEMMA DurableType ==
  ASSUME TypeOK
  PROVE  Durable \in View
BY DEF TypeOK, StoreTypeOK, Durable

LEMMA DurableStep ==
  ASSUME TypeOK, NEW es \in Seq(Event), Len(es) \in {1, 2}, Record(es), NEW d, d = Durable
  PROVE  /\ Len(es) = 1 => Durable' = Apply(d, es[1])
         /\ Len(es) = 2 => Durable' = Apply(Apply(d, es[1]), es[2])
<1>1. StoreTypeOK /\ replays \in Seq(View) /\ Durable \in View
  BY DurableType DEF TypeOK, StoreTypeOK
<1>2. es[1] \in Event /\ (Len(es) = 2 => es[2] \in Event)
  BY ElementOfSeq
<1>3. PICK a \in View : a = Apply(d, es[1])
  BY <1>1, <1>2, ApplyType
<1>4. CASE Len(es) = 1
  <2>1. replays' = replays \o <<a>>
    BY <1>3, <1>4 DEF Record
  <2>2. replays'[Len(replays')] = a
    BY <1>1, <2>1
  <2>3. QED
    BY <1>3, <1>4, <2>2 DEF Durable
<1>5. CASE Len(es) = 2
  <2>1. PICK b \in View : b = Apply(a, es[2])
    BY <1>2, <1>5, ApplyType
  <2>2. replays' = replays \o <<a, b>>
    BY <1>3, <1>5, <2>1 DEF Record
  <2>3. replays'[Len(replays')] = b
    BY <1>1, <2>2
  <2>4. QED
    BY <1>3, <1>5, <2>1, <2>3 DEF Durable
<1>6. QED
  BY <1>4, <1>5

-----------------------------------------------------------------------------
(* Any threads, any crash: the projections and the calls know nothing that is not *)
(* in the log, and new ids are new.                                               *)

\* An event that waits to be appended is about an order and an item that are there.
Anchored(d, e) ==
  /\ e.type \in Moves => e.order \in OrderIds /\ d.order[e.order] # NoOrder
  /\ e.type = "count_set" => e.item \in d.items

CallRooted(c, d) ==
  /\ c.op = "reserve" => d.order[c.order] = NoOrder
  /\ c.op = "teach" => c.item \notin d.items
  /\ c.op \in {"cancel-wait", "cancel"} =>
       /\ d.order[c.order] # NoOrder
       /\ d.order[c.order].item = c.item /\ d.order[c.order].qty = c.qty
  /\ c.op = "emit" => \A k \in DOMAIN c.todo : Anchored(d, c.todo[k])

IdsDiffer(c, b) ==
  /\ c.op = "reserve" /\ b.op = "reserve" => c.order # b.order
  /\ c.op = "teach" /\ b.op = "teach" => c.item # b.item

\* While the defaults are seeded there is nothing to append one by one.
SeedsOnly ==
  phase = "seed" =>
    /\ call[Main].op \in {"idle", "teach", "emit"}
    /\ call[Main].op = "emit" => call[Main].todo = <<>>

\* Every order is of an item on the stall.
Placed(d) == \A o \in OrderIds : d.order[o] # NoOrder => d.order[o].item \in d.items

LogIsKnown(d) == \A n \in 1 .. Len(log) : Known(d, log[n])

CallsDiffer == \A t, u \in Threads : t # u => IdsDiffer(call[t], call[u])

RootInv ==
  /\ LogIsKnown(Durable) /\ Rooted(view, Durable) /\ Placed(Durable)
  /\ \A t \in Threads : CallRooted(call[t], Durable)
  /\ CallsDiffer
  /\ SeedsOnly

\* What an append does to what the log says: nothing that was there is lost, and
\* only what the call of t reserved or taught is new.
LEMMA AppendBrings ==
  ASSUME TypeOK, RootInv, NEW t \in Threads, NEW es, NEW rest, Appends(t, es, rest),
         NEW d, d = Durable, NEW w, w = Durable'
  PROVE  /\ w \in View /\ Rooted(d, w) /\ Rooted(Apply(d, es[1]), w)
         /\ \A k \in 1 .. Len(es) : Known(w, es[k])
         /\ \A o \in OrderIds :
              d.order[o] = NoOrder /\ ~(call[t].op = "reserve" /\ call[t].order = o) => w.order[o] = NoOrder
         /\ \A i \in w.items : i \in d.items \/ (call[t].op = "teach" /\ call[t].item = i)
         /\ Placed(w)
<1>0. PICK m \in {1, 2} : m = Len(es)
  BY DEF Appends
<1>1. /\ es \in Seq(Event) /\ Len(es) \in {1, 2} /\ Source(t, es, rest) /\ Record(es)
      /\ d \in View /\ Rooted(view, d) /\ Placed(d) /\ CallRooted(call[t], d)
  BY DurableType DEF Appends, RootInv
<1>2. PICK a \in View : a = Apply(d, es[1])
  BY <1>1, ApplyType, ElementOfSeq
<1>3. es[1] \in Event /\ (Len(es) = 2 => es[2] \in Event)
  BY <1>1, ElementOfSeq
<1>4. (Len(es) = 1 => w = a) /\ (Len(es) = 2 => w = Apply(a, es[2]))
  BY <1>1, <1>2, DurableStep
<1>5. w \in View
  BY <1>1, <1>2, <1>3, <1>4, ApplyType
<1>6. /\ es[1].type = "order_reserved" =>
           /\ call[t].op = "reserve" /\ es[1].order = call[t].order /\ es[1].item = call[t].item
           /\ d.order[es[1].order] = NoOrder /\ es[1].item \in d.items
      /\ Len(es) = 2 => es[2].type # "order_reserved" /\ es[2].type # "item_taught"
      /\ es[1].type = "item_taught" => call[t].op = "teach" /\ es[1].item = call[t].item
  <2>1. CASE call[t].op = "emit"
    <3>1. call[t].todo \in Seq(Singles) /\ call[t].todo # <<>> /\ es = <<Head(call[t].todo)>>
      BY <1>1, <2>1, CallFields DEF Source
    <3>2. Head(call[t].todo) \in Singles /\ Len(es) = 1 /\ es[1] = Head(call[t].todo)
      BY <3>1, HeadTailProperties
    <3>3. QED
      BY <3>2 DEF Singles
  <2>2. CASE call[t].op = "reserve"
    <3>1. /\ CanReserve(call[t]) /\ Len(es) = 2
          /\ es[1] = OrderReserved(call[t].order, call[t].item, call[t].qty)
          /\ es[2].type = "count_set"
      BY <1>1, <2>2 DEF Source, CountSet
    <3>2. call[t].item \in d.items /\ d.order[call[t].order] = NoOrder
      BY <1>1, <2>2, <3>1 DEF CanReserve, Rooted, CallRooted
    <3>3. QED
      BY <2>2, <3>1, <3>2 DEF OrderReserved
  <2>3. CASE call[t].op = "cancel"
    <3>1. es = CancelEvents(call[t])
      BY <1>1, <2>3 DEF Source
    <3>2. QED
      BY <3>1 DEF CancelEvents, CountSet, OrderCancelled
  <2>4. CASE call[t].op = "teach"
    <3>1. /\ Len(es) = 2 /\ es[1] = ItemTaught(call[t].item, SeedCount[call[t].item])
          /\ es[2].type = "active_item_set"
      BY <1>1, <2>4 DEF Source, ActiveItemSet
    <3>2. QED
      BY <2>4, <3>1 DEF ItemTaught
  <2>5. QED
    BY <1>1, <2>1, <2>2, <2>3, <2>4 DEF Source
<1>7. Rooted(d, a) /\ Rooted(a, w) /\ Rooted(d, w)
  <2>1. Rooted(d, a)
    BY <1>1, <1>2, <1>3, <1>6, ApplyGrows
  <2>2. CASE Len(es) = 1
    BY <1>4, <2>1, <2>2 DEF Rooted
  <2>3. CASE Len(es) = 2
    <3>1. Rooted(a, w)
      BY <1>2, <1>3, <1>4, <1>6, <2>3, ApplyGrows
    <3>2. QED
      BY <2>1, <3>1, RootedTrans
  <2>4. QED
    BY <1>1, <2>2, <2>3
<1>8. ASSUME NEW k \in 1 .. Len(es) PROVE Known(w, es[k])
  <2>1. Known(w, es[1])
    <3>1. Known(a, es[1])
      BY <1>1, <1>2, <1>3, ApplyKnows
    <3>2. QED
      BY <1>3, <1>7, <3>1, RootedKnown
  <2>2. Len(es) = 2 => Known(w, es[2])
    BY <1>6 DEF Known
  <2>3. k = 1 \/ (k = 2 /\ Len(es) = 2)
    BY <1>0
  <2>4. QED
    BY <2>1, <2>2, <2>3
<1>e. Effect(d, es[1], a) /\ (Len(es) = 2 => Effect(a, es[2], w))
  BY <1>1, <1>2, <1>3, <1>4, EffectOn
<1>9. ASSUME NEW o \in OrderIds, d.order[o] = NoOrder, ~(call[t].op = "reserve" /\ call[t].order = o)
      PROVE  w.order[o] = NoOrder
  <2>1. a.order[o] = After(d.order[o], es[1], o) /\ (Len(es) = 2 => w.order[o] = After(a.order[o], es[2], o))
    BY <1>e DEF Effect
  <2>2. ASSUME NEW e \in Event, ~(e.type = "order_reserved" /\ e.order = o)
        PROVE  After(NoOrder, e, o) = NoOrder
    BY <2>2, AfterFacts
  <2>3. a.order[o] = NoOrder
    BY <1>3, <1>6, <1>9, <2>1, <2>2
  <2>4. Len(es) = 2 => w.order[o] = NoOrder
    BY <1>3, <1>6, <2>1, <2>2, <2>3
  <2>5. QED
    BY <1>0, <1>4, <2>3, <2>4
<1>10. ASSUME NEW i \in w.items PROVE i \in d.items \/ (call[t].op = "teach" /\ call[t].item = i)
  <2>1. /\ a.items = IF es[1].type = "item_taught" THEN d.items \cup {es[1].item} ELSE d.items
        /\ Len(es) = 2 => w.items = IF es[2].type = "item_taught" THEN a.items \cup {es[2].item} ELSE a.items
    BY <1>e DEF Effect
  <2>2. w.items = a.items
    BY <1>0, <1>4, <1>6, <2>1
  <2>3. QED
    BY <1>6, <2>1, <2>2
<1>11. ASSUME NEW o \in OrderIds, w.order[o] # NoOrder PROVE w.order[o].item \in w.items
  <2>1. CASE d.order[o] # NoOrder
    BY <1>1, <1>7, <2>1 DEF Rooted, Placed
  <2>2. CASE d.order[o] = NoOrder
    <3>1. call[t].op = "reserve" /\ call[t].order = o
      BY <1>9, <1>11, <2>2
    <3>2. es[1] = OrderReserved(o, call[t].item, call[t].qty)
      BY <1>1, <3>1 DEF Source
    <3>3. es[1].type = "order_reserved" /\ es[1].order = o
      BY <3>2 DEF OrderReserved
    <3>4. 1 \in 1 .. Len(es)
      BY <1>0
    <3>5. w.order[o].item = es[1].item /\ es[1].item \in d.items
      BY <1>6, <1>8, <3>3, <3>4 DEF Known
    <3>6. QED
      BY <1>7, <3>5 DEF Rooted
  <2>3. QED
    BY <2>1, <2>2
<1>12. QED
  BY <1>2, <1>5, <1>7, <1>8, <1>9, <1>10, <1>11 DEF Placed

\* A call knows as much of what came later, if its id is still new.
LEMMA CallStays ==
  ASSUME NEW c \in Calls, NEW d, NEW w, CallRooted(c, d), Rooted(d, w),
         c.op = "reserve" => w.order[c.order] = NoOrder,
         c.op = "teach" => c.item \notin w.items
  PROVE  CallRooted(c, w)
<1>1. ASSUME c.op \in {"cancel-wait", "cancel"} PROVE c.order \in OrderIds
  BY <1>1 DEF Calls, Idle
<1>2. \A e : Anchored(d, e) => Anchored(w, e)
  BY DEF Anchored, Rooted
<1>3. QED
  BY <1>1, <1>2 DEF CallRooted, Rooted

LEMMA EmptyIsRooted ==
  ASSUME NEW d
  PROVE  /\ Rooted(EmptyView, d) /\ CallRooted(Idle, d) /\ \A i : CallRooted(Emitting(i, <<>>), d)
         /\ \A c : IdsDiffer(Idle, c) /\ IdsDiffer(c, Idle)
         /\ \A c, i, s : IdsDiffer(Emitting(i, s), c) /\ IdsDiffer(c, Emitting(i, s))
BY DEF Rooted, EmptyView, CallRooted, Idle, Emitting, IdsDiffer

LEMMA RootAppend ==
  ASSUME TypeOK, RootInv, NEW t \in Threads, NEW es, NEW rest, Appends(t, es, rest)
  PROVE  RootInv'
<1>0. /\ StoreTypeOK /\ call \in [Threads -> Calls] /\ es \in Seq(Event) /\ Record(es)
      /\ Source(t, es, rest) /\ call' = [call EXCEPT ![t] = Emitting(call[t].item, rest)]
      /\ view' = view /\ phase' = phase
  BY DEF TypeOK, Appends
<1>1. PICK d, w : d = Durable /\ w = Durable'
  OBVIOUS
<1>2. /\ w \in View /\ Rooted(d, w) /\ \A k \in 1 .. Len(es) : Known(w, es[k])
      /\ \A o \in OrderIds :
           d.order[o] = NoOrder /\ ~(call[t].op = "reserve" /\ call[t].order = o) => w.order[o] = NoOrder
      /\ \A i \in w.items : i \in d.items \/ (call[t].op = "teach" /\ call[t].item = i)
      /\ Placed(w)
  BY <1>1, AppendBrings
<1>3. LogIsKnown(Durable)'
  <2>1. /\ Len(log) \in Nat /\ Len(es) \in {1, 2} /\ Len(log') = Len(log) + Len(es)
        /\ \A n \in 1 .. Len(log) : log'[n] = log[n] /\ log[n] \in Event /\ Known(d, log[n])
        /\ \A n \in 1 .. Len(es) : log'[Len(log) + n] = es[n]
    <3>1. Len(log) \in Nat /\ \A n \in 1 .. Len(log) : log[n] \in Event
      BY <1>0, ElementOfSeq DEF StoreTypeOK
    <3>2. \A n \in 1 .. Len(log) : Known(d, log[n])
      BY <1>1 DEF RootInv, LogIsKnown
    <3>3. Len(es) \in {1, 2}
      BY DEF Appends
    <3>4. QED
      BY <1>0, <3>1, <3>2, <3>3, RecordFacts
  <2>2. ASSUME NEW n \in 1 .. Len(log') PROVE Known(w, log'[n])
    <3>1. CASE n \in 1 .. Len(log)
      BY <1>2, <2>1, <3>1, RootedKnown
    <3>2. CASE n \notin 1 .. Len(log)
      <4>1. n - Len(log) \in 1 .. Len(es) /\ n = Len(log) + (n - Len(log))
        BY <2>1, <2>2, <3>2
      <4>2. QED
        BY <1>2, <2>1, <4>1
    <3>3. QED
      BY <3>1, <3>2
  <2>3. QED
    BY <1>1, <2>2 DEF LogIsKnown
<1>4. Rooted(view, Durable)' /\ Placed(Durable)'
  <2>1. Rooted(view, w)
    BY <1>1, <1>2, RootedTrans DEF RootInv
  <2>2. QED
    BY <1>0, <1>1, <1>2, <2>1
<1>5. ASSUME NEW u \in Threads PROVE CallRooted(call'[u], w)
  <2>1. CASE u # t
    <3>1. PICK c \in Calls : c = call[u]
      BY <1>0
    <3>2. CallRooted(c, d) /\ IdsDiffer(call[t], c)
      BY <1>1, <2>1, <3>1 DEF RootInv, CallsDiffer
    <3>3. c.op = "reserve" => w.order[c.order] = NoOrder
      <4>1. c.op = "reserve" => c.order \in OrderIds
        BY <3>1, CallFields
      <4>2. QED
        BY <1>2, <3>2, <4>1 DEF CallRooted, IdsDiffer
    <3>4. c.op = "teach" => c.item \notin w.items
      BY <1>2, <3>2 DEF CallRooted, IdsDiffer
    <3>5. CallRooted(c, w)
      BY <1>2, <3>2, <3>3, <3>4, CallStays
    <3>6. QED
      BY <1>0, <2>1, <3>1, <3>5
  <2>2. CASE u = t
    <3>1. call'[u] = Emitting(call[u].item, rest)
      BY <1>0, <2>2
    <3>2. CASE rest = <<>>
      BY <3>1, <3>2, EmptyIsRooted
    <3>3. CASE rest # <<>>
      <4>1. /\ call[t].op = "emit" /\ call[t].todo \in Seq(Singles) /\ call[t].todo # <<>>
            /\ rest = Tail(call[t].todo)
        BY <1>0, <3>3, CallFields DEF Source
      <4>2. ASSUME NEW k \in DOMAIN rest PROVE Anchored(w, rest[k])
        <5>1. k + 1 \in DOMAIN call[t].todo /\ rest[k] = call[t].todo[k + 1]
          BY <4>1, <4>2, HeadTailProperties
        <5>2. Anchored(d, rest[k])
          BY <1>1, <4>1, <5>1 DEF RootInv, CallRooted
        <5>3. QED
          BY <1>2, <5>2 DEF Anchored, Rooted
      <4>3. QED
        BY <3>1, <4>2 DEF CallRooted, Emitting
    <3>4. QED
      BY <3>2, <3>3
  <2>3. QED
    BY <2>1, <2>2
<1>6. CallsDiffer'
  BY <1>0, EmptyIsRooted DEF RootInv, CallsDiffer
<1>7. SeedsOnly'
  BY <1>0, StallAssumption DEF RootInv, SeedsOnly, Source, Emitting
<1>8. QED
  BY <1>1, <1>3, <1>4, <1>5, <1>6, <1>7 DEF RootInv

LEMMA RootNotify ==
  ASSUME TypeOK, RootInv, NEW t \in Threads, Notify(t)
  PROVE  RootInv'
<1>0. StoreTypeOK /\ call \in [Threads -> Calls] /\ view \in View
  BY DEF TypeOK, StoreTypeOK
<1>1. /\ UNCHANGED <<log, replays, phase>> /\ view' = Apply(view, log[Head(outbox[t])])
      /\ \A u \in Threads : call'[u] = call[u] \/ call'[u] = Idle
  BY <1>0 DEF Notify, StoreNotify, Booted, Become
<1>2. Head(outbox[t]) \in 1 .. Len(log) /\ log[Head(outbox[t])] \in Event
  BY <1>0, NotifyType, ElementOfSeq DEF Notify, StoreTypeOK
<1>3. PICK d \in View : d = Durable /\ d = Durable'
  BY <1>1, DurableType DEF Durable
<1>4. Rooted(Apply(view, log[Head(outbox[t])]), d)
  BY <1>0, <1>2, <1>3, ApplyRooted DEF RootInv, LogIsKnown
<1>5. Rooted(view, Durable)' /\ LogIsKnown(Durable)' /\ Placed(Durable)'
  BY <1>1, <1>3, <1>4 DEF RootInv, LogIsKnown
<1>6. /\ \A u \in Threads : CallRooted(call'[u], d)
      /\ CallsDiffer'
  BY <1>1, <1>3, EmptyIsRooted DEF RootInv, CallsDiffer
<1>7. SeedsOnly'
  <2>1. Idle.op = "idle"
    BY DEF Idle
  <2>2. call'[Main] = call[Main] \/ call'[Main] = Idle
    BY <1>1, StallAssumption
  <2>3. CASE call'[Main] = call[Main]
    BY <1>1, <2>3 DEF RootInv, SeedsOnly
  <2>4. CASE call'[Main] = Idle
    BY <2>1, <2>4 DEF SeedsOnly
  <2>5. QED
    BY <2>2, <2>3, <2>4
<1>8. QED
  BY <1>3, <1>5, <1>6, <1>7 DEF RootInv

\* A call that begins, waits or gives up is about what is there, and its id is new.
LEMMA RootTurns ==
  ASSUME TypeOK, BootInv, RootInv, NEW t \in Threads, Turns(t)
  PROVE  RootInv'
<1>0. StoreTypeOK /\ call \in [Threads -> Calls] /\ view \in View
  BY DEF TypeOK, StoreTypeOK
<1>1. UNCHANGED <<log, replays, view, phase>>
  BY DEF Turns
<1>2. PICK d \in View : d = Durable /\ d = Durable'
  BY <1>1, DurableType DEF Durable
<1>3. \A o \in OrderIds : view.order[o].status # "none" =>
        /\ d.order[o] # NoOrder /\ d.order[o].item = view.order[o].item
        /\ d.order[o].qty = view.order[o].qty
  BY <1>2, NoOrderIsNone DEF RootInv, Rooted
<1>4. view.items \subseteq d.items
  BY <1>2 DEF RootInv, Rooted
<1>5. ASSUME NEW c, Become(t, c), CallRooted(c, d),
             \A u \in Threads : u # t => IdsDiffer(call[u], c) /\ IdsDiffer(c, call[u]),
             phase = "seed" => c.op \in {"idle", "teach"}
      PROVE  RootInv'
  <2>1. call' = [call EXCEPT ![t] = c]
    BY <1>5 DEF Become
  <2>2. \A u \in Threads : CallRooted(call'[u], d)
    BY <1>0, <1>2, <1>5, <2>1 DEF RootInv
  <2>3. CallsDiffer'
    BY <1>0, <1>5, <2>1 DEF RootInv, CallsDiffer
  <2>4. SeedsOnly'
    BY <1>0, <1>1, <1>5, <2>1, StallAssumption DEF RootInv, SeedsOnly
  <2>5. LogIsKnown(Durable)' /\ Rooted(view, Durable)' /\ Placed(Durable)'
    BY <1>1, <1>2 DEF RootInv, LogIsKnown
  <2>6. QED
    BY <1>2, <2>2, <2>3, <2>4, <2>5 DEF RootInv
<1>6. CASE ReserveRefuse(t)
  <2>1. Become(t, Idle) /\ Idle.op = "idle"
    BY <1>6 DEF ReserveRefuse, Idle
  <2>2. QED
    BY <1>5, <2>1, EmptyIsRooted
<1>7. CASE CancelBegin(t)
  <2>1. PICK c : c = [call[t] EXCEPT !.op = "cancel"] /\ Become(t, c)
    BY <1>7 DEF CancelBegin
  <2>2. call[t].op = "cancel-wait" /\ phase # "hydrate"
    BY <1>7 DEF CancelBegin, BootInv, PhaseInv, Silent, Idle
  <2>3. call[t] \in [op : {"cancel-wait", "cancel"}, order : OrderIds, item : Items,
                     qty : Nat \ {0}, status : Statuses]
    BY <2>2, CallFields
  <2>4. c.op = "cancel" /\ c.order = call[t].order /\ c.item = call[t].item /\ c.qty = call[t].qty
    BY <2>1, <2>3
  <2>5. CallRooted(call[t], d)
    BY <1>2 DEF RootInv
  <2>6. phase # "seed"
    <3>1. phase = "seed" => t = Main
      BY <2>2 DEF BootInv, PhaseInv, Silent, Idle
    <3>2. QED
      BY <2>2, <3>1 DEF RootInv, SeedsOnly
  <2>7. CallRooted(c, d)
    BY <2>2, <2>4, <2>5 DEF CallRooted
  <2>8. \A b : IdsDiffer(b, c) /\ IdsDiffer(c, b)
    BY <2>4 DEF IdsDiffer
  <2>9. QED
    BY <1>5, <2>1, <2>6, <2>7, <2>8
<1>8. CASE Request(t)
  <2>0. phase = "up"
    BY <1>8 DEF Request, ReserveBegin, MarkPaidRead, MarkPackedRead, CancelRead, ReconcileRead,
                SetActiveRead, TeachBegin, Starts
  <2>a. ASSUME NEW i, NEW es, Become(t, Emitting(i, es)), \A k \in DOMAIN es : Anchored(d, es[k])
        PROVE  RootInv'
    <3>1. CallRooted(Emitting(i, es), d)
      BY <2>a DEF CallRooted, Emitting
    <3>2. QED
      BY <1>5, <2>0, <2>a, <3>1, EmptyIsRooted
  <2>1. ASSUME NEW o \in OrderIds, NEW i \in Items, NEW q \in Qtys, ReserveBegin(t, o, i, q)
        PROVE  RootInv'
    <3>1. PICK c : c = [op |-> "reserve", order |-> o, item |-> i, qty |-> q] /\ Become(t, c)
      BY <2>1 DEF ReserveBegin
    <3>2. FreshOrder(o)
      BY <2>1 DEF ReserveBegin
    <3>3. CallRooted(c, d)
      BY <1>2, <3>1, <3>2 DEF CallRooted, FreshOrder
    <3>4. \A u \in Threads : IdsDiffer(call[u], c) /\ IdsDiffer(c, call[u])
      BY <3>1, <3>2 DEF IdsDiffer, FreshOrder
    <3>5. QED
      BY <1>5, <2>0, <3>1, <3>3, <3>4
  <2>2. ASSUME NEW i \in Items, TeachBegin(t, i)
        PROVE  RootInv'
    <3>1. PICK c : c = [op |-> "teach", item |-> i] /\ Become(t, c)
      BY <2>2 DEF TeachBegin
    <3>2. FreshItem(i)
      BY <2>2 DEF TeachBegin
    <3>3. CallRooted(c, d)
      BY <1>2, <3>1, <3>2 DEF CallRooted, FreshItem
    <3>4. \A u \in Threads : IdsDiffer(call[u], c) /\ IdsDiffer(c, call[u])
      BY <3>1, <3>2 DEF IdsDiffer, FreshItem
    <3>5. QED
      BY <1>5, <2>0, <3>1, <3>3, <3>4
  <2>3. ASSUME NEW o \in OrderIds, CancelRead(t, o)
        PROVE  RootInv'
    <3>1. PICK c : /\ c = [op |-> "cancel-wait", order |-> o, item |-> view.order[o].item,
                           qty |-> view.order[o].qty, status |-> view.order[o].status]
                   /\ Become(t, c)
      BY <2>3 DEF CancelRead
    <3>2. view.order[o].status # "none"
      BY <2>3 DEF CancelRead, Cancellable
    <3>3. CallRooted(c, d)
      BY <1>3, <3>1, <3>2 DEF CallRooted
    <3>4. \A u \in Threads : IdsDiffer(call[u], c) /\ IdsDiffer(c, call[u])
      BY <3>1 DEF IdsDiffer
    <3>5. QED
      BY <1>5, <2>0, <3>1, <3>3, <3>4
  <2>4. ASSUME NEW o \in OrderIds, NEW s \in Sessions, MarkPaidRead(t, o, s)
        PROVE  RootInv'
    <3>1. Become(t, Emitting(view.order[o].item, <<OrderPaid(o, s)>>)) /\ view.order[o].status # "none"
      BY <2>4 DEF MarkPaidRead, Payable
    <3>2. Anchored(d, OrderPaid(o, s))
      BY <1>3, <3>1 DEF Anchored, OrderPaid, Moves
    <3>3. QED
      BY <2>a, <3>1, <3>2
  <2>5. ASSUME NEW o \in OrderIds, MarkPackedRead(t, o)
        PROVE  RootInv'
    <3>1. Become(t, Emitting(view.order[o].item, <<OrderPacked(o)>>)) /\ view.order[o].status # "none"
      BY <2>5 DEF MarkPackedRead, Packable
    <3>2. Anchored(d, OrderPacked(o))
      BY <1>3, <3>1 DEF Anchored, OrderPacked, Moves
    <3>3. QED
      BY <2>a, <3>1, <3>2
  <2>6. ASSUME NEW i \in Items, NEW n \in Counts, NEW src \in Sources, ReconcileRead(t, i, n, src)
        PROVE  RootInv'
    <3>1. PICK es : es = IF Descends(i, n) THEN << CountSet(i, n, src), StockLow(i, n) >>
                         ELSE << CountSet(i, n, src) >>
      OBVIOUS
    <3>2. Become(t, Emitting(i, es)) /\ i \in d.items
      BY <1>4, <2>6, <3>1 DEF ReconcileRead
    <3>3. Anchored(d, CountSet(i, n, src)) /\ Anchored(d, StockLow(i, n))
      BY <3>2 DEF Anchored, CountSet, StockLow, Moves
    <3>4. \A k \in DOMAIN es : es[k] \in {CountSet(i, n, src), StockLow(i, n)}
      BY <3>1
    <3>5. QED
      BY <2>a, <3>2, <3>3, <3>4
  <2>7. ASSUME NEW i \in Items, SetActiveRead(t, i)
        PROVE  RootInv'
    <3>1. Become(t, Emitting(i, <<ActiveItemSet(i)>>))
      BY <2>7 DEF SetActiveRead
    <3>2. Anchored(d, ActiveItemSet(i))
      BY DEF Anchored, ActiveItemSet, Moves
    <3>3. QED
      BY <2>a, <3>1, <3>2
  <2>8. QED
    BY <1>8, <2>1, <2>2, <2>3, <2>4, <2>5, <2>6, <2>7 DEF Request
<1>9. CASE Seed /\ t = Main
  <2>1. PICK i : /\ Become(Main, [op |-> "teach", item |-> i]) /\ i \notin view.items
                 /\ phase = "seed" /\ call[Main] = Idle
    BY <1>9 DEF Seed, Missing
  <2>2. PICK c : c = [op |-> "teach", item |-> i] /\ Become(t, c)
    BY <1>9, <2>1
  <2>3. outbox[Main] = <<>> /\ \A u \in Threads : call[u] = Idle
    BY <2>1, StallAssumption DEF BootInv, PhaseInv, Silent, Idle
  <2>4. i \notin d.items
    BY <1>2, <2>1, <2>3, BootedView
  <2>5. CallRooted(c, d) /\ c.op = "teach"
    BY <2>2, <2>4 DEF CallRooted
  <2>6. QED
    BY <1>5, <2>2, <2>3, <2>5, EmptyIsRooted
<1>10. QED
  BY <1>6, <1>7, <1>8, <1>9 DEF Turns

LEMMA RootStep ==
  ASSUME TypeOK, BootInv, RootInv, [Next]_vars
  PROVE  RootInv'
<1>0. StoreTypeOK /\ view \in View /\ Len(log) \in Nat /\ hydrated \in 0 .. Len(log)
  BY DEF TypeOK, StoreTypeOK
<1>a. ASSUME UNCHANGED <<log, replays>>, NEW d, d = Durable, Rooted(view', d),
             \A t \in Threads : call'[t] = call[t] \/ call'[t] = Idle, SeedsOnly'
      PROVE  RootInv'
  <2>1. d = Durable'
    BY <1>a DEF Durable
  <2>2. \A t \in Threads : CallRooted(call'[t], d)
    BY <1>a, EmptyIsRooted DEF RootInv
  <2>3. CallsDiffer'
    BY <1>a, EmptyIsRooted DEF RootInv, CallsDiffer
  <2>4. LogIsKnown(Durable)' /\ Rooted(view, Durable)' /\ Placed(Durable)'
    BY <1>a, <2>1 DEF RootInv, LogIsKnown
  <2>5. QED
    BY <1>a, <2>1, <2>2, <2>3, <2>4 DEF RootInv
<1>1. CASE Hydrate /\ RowsLeft
  <2>1. /\ view' = Apply(view, log[hydrated + 1]) /\ phase' = "hydrate"
        /\ UNCHANGED <<log, replays, call>>
    BY <1>1 DEF Hydrate
  <2>2. hydrated + 1 \in 1 .. Len(log)
    BY <1>0, <1>1 DEF RowsLeft
  <2>3. PICK e \in Event : e = log[hydrated + 1]
    BY <1>0, <2>2, ElementOfSeq DEF StoreTypeOK
  <2>4. PICK d \in View : d = Durable
    BY DurableType
  <2>5. Rooted(Apply(view, e), d)
    BY <1>0, <2>2, <2>3, <2>4, ApplyRooted DEF RootInv, LogIsKnown
  <2>6. QED
    BY <1>a, <2>1, <2>3, <2>4, <2>5 DEF SeedsOnly
<1>2. CASE Hydrate /\ ~RowsLeft
  <2>1. UNCHANGED <<log, replays, call, view>> /\ phase = "hydrate"
    BY <1>2 DEF Hydrate
  <2>2. SeedsOnly'
    BY <2>1, StallAssumption DEF BootInv, PhaseInv, Silent, Idle, SeedsOnly
  <2>3. QED
    BY <1>a, <2>1, <2>2 DEF RootInv
<1>3. CASE Serve
  BY <1>a, <1>3 DEF Serve, storeVars, RootInv, SeedsOnly
<1>4. CASE Crash
  <2>1. /\ UNCHANGED <<log, replays>> /\ view' = EmptyView /\ phase' = "hydrate"
        /\ \A t \in Threads : call'[t] = Idle
    BY <1>4 DEF Crash, StoreCrash
  <2>2. QED
    BY <1>a, <2>1, EmptyIsRooted DEF SeedsOnly
<1>5. CASE UNCHANGED vars
  BY <1>a, <1>5 DEF vars, storeVars, RootInv, SeedsOnly
<1>6. QED
  BY <1>1, <1>2, <1>3, <1>4, <1>5, StepKinds, RootAppend, RootNotify, RootTurns

LEMMA RootCorrect == Spec => []RootInv
<1>1. Init => RootInv
  <2> SUFFICES ASSUME Init PROVE RootInv
    OBVIOUS
  <2>1. Durable = EmptyView /\ view = EmptyView /\ \A t \in Threads : call[t] = Idle
    BY DEF Init, StoreInit, Durable
  <2>2. LogIsKnown(Durable) /\ Placed(Durable) /\ SeedsOnly
    BY DEF Init, StoreInit, LogIsKnown, Placed, SeedsOnly, EmptyView, Durable
  <2>3. QED
    BY <2>1, <2>2, EmptyIsRooted DEF RootInv, CallsDiffer
<1>2. TypeOK /\ BootInv /\ RootInv /\ [Next]_vars => RootInv'
  BY RootStep
<1>3. QED
  BY <1>1, <1>2, TypeCorrect, BootCorrect, PTL DEF Spec

-----------------------------------------------------------------------------
(* What was delivered is visible. *)

Shown(v, e) ==
  /\ e.type = "order_reserved" => v.order[e.order] # NoOrder
  /\ e.type = "item_taught" => e.item \in v.items

LEMMA ApplyShows ==
  ASSUME NEW v \in View, NEW e \in Event, NEW x \in Event
  PROVE  Shown(Apply(v, e), e) /\ (Shown(v, x) => Shown(Apply(v, e), x))
<1>1. Shown(Apply(v, e), e)
  BY ApplyKnows DEF Known, Shown
<1>2. v.items \subseteq Apply(v, e).items
  BY ApplyEffect
<1>3. ASSUME NEW o \in OrderIds, v.order[o] # NoOrder
      PROVE  Apply(v, e).order[o] # NoOrder
  <2>1. PICK ord \in Order \cup {NoOrder} : ord = v.order[o]
    BY DEF View
  <2>2. Apply(v, e).order[o] = After(ord, e, o)
    BY <2>1, ApplyEffect
  <2>3. QED
    BY <1>3, <2>1, <2>2, AfterFacts
<1>4. x.type = "order_reserved" => x.order \in OrderIds
  BY EventFields
<1>5. QED
  BY <1>1, <1>2, <1>3, <1>4 DEF Shown

\* Appending makes rows pending, delivering the head makes one row visible.
LEMMA ShownStep ==
  ASSUME TypeOK, BootInv, RootInv, DeliveredIsVisible, [Next]_vars
  PROVE  DeliveredIsVisible'
<1>0. /\ StoreTypeOK /\ view \in View /\ Len(log) \in Nat
      /\ outbox \in [Threads -> Seq(1 .. Len(log))]
  BY DEF TypeOK, StoreTypeOK
<1>a. \A n \in 1 .. Len(log) : phase = "up" /\ ~Pending(n) => Shown(view, log[n])
  BY DEF DeliveredIsVisible, Shown
<1> SUFFICES ASSUME phase' = "up", NEW n \in 1 .. Len(log'), ~Pending(n)'
             PROVE  Shown(view', log'[n])
  BY DEF DeliveredIsVisible, Shown
<1>1. ASSUME NEW t \in Threads, NEW es \in Seq(Event), NEW rest, Appends(t, es, rest)
      PROVE  Shown(view', log'[n])
  <2>1. /\ Record(es) /\ Len(es) \in {1, 2} /\ outbox[t] = <<>> /\ phase = "up" /\ view' = view
        /\ outbox' = [outbox EXCEPT ![t] = Offsets(es)]
    BY <1>1 DEF Appends
  <2>2. /\ Len(log') = Len(log) + Len(es) /\ \A k \in 1 .. Len(log) : log'[k] = log[k]
    BY <1>0, <2>1, RecordFacts
  <2>3. n \in 1 .. Len(log)
    <3>1. SUFFICES ASSUME n \notin 1 .. Len(log) PROVE FALSE
      OBVIOUS
    <3>2. PICK m \in {1, 2} : m = Len(es)
      BY <2>1
    <3>3. n - Len(log) \in 1 .. m
      BY <1>0, <2>2, <3>1, <3>2
    <3>4. /\ DOMAIN Offsets(es) = 1 .. m
          /\ Offsets(es)[n - Len(log)] = n
      <4>1. Offsets(es) = [k \in 1 .. m |-> Len(log) + k]
        BY <3>2 DEF Offsets
      <4>2. Len(log) + (n - Len(log)) = n
        BY <1>0
      <4>3. QED
        BY <3>3, <4>1, <4>2
    <3>5. outbox'[t] = Offsets(es)
      BY <1>0, <2>1
    <3>6. QED
      BY <3>3, <3>4, <3>5 DEF Pending
  <2>4. ~Pending(n)
    <3>1. \A u \in Threads : u # t => outbox'[u] = outbox[u]
      BY <1>0, <2>1
    <3>2. DOMAIN outbox[t] = {}
      BY <2>1
    <3>3. QED
      BY <3>1, <3>2 DEF Pending
  <2>5. QED
    BY <1>a, <2>1, <2>2, <2>3, <2>4
<1>2. ASSUME NEW t \in Threads, Notify(t)
      PROVE  Shown(view', log'[n])
  <2>1. /\ UNCHANGED <<log, phase>> /\ view' = Apply(view, log[Head(outbox[t])])
        /\ outbox[t] \in Seq(1 .. Len(log)) /\ outbox[t] # <<>>
        /\ outbox' = [outbox EXCEPT ![t] = Tail(outbox[t])]
    BY <1>0, <1>2 DEF Notify, StoreNotify, Booted
  <2>2. Head(outbox[t]) \in 1 .. Len(log)
    BY <1>0, <1>2, NotifyType DEF Notify
  <2>3. PICK e \in Event : e = log[Head(outbox[t])]
    BY <1>0, <2>2, ElementOfSeq DEF StoreTypeOK
  <2>4. log[n] \in Event /\ n \in 1 .. Len(log) /\ log'[n] = log[n]
    BY <1>0, <2>1, ElementOfSeq DEF StoreTypeOK
  <2>5. CASE n = Head(outbox[t])
    BY <1>0, <2>1, <2>3, <2>4, <2>5, ApplyShows
  <2>6. CASE n # Head(outbox[t])
    <3>1. ASSUME NEW u \in Threads, NEW k \in DOMAIN outbox[u], outbox[u][k] = n PROVE FALSE
      <4>1. CASE u # t
        BY <1>0, <2>1, <3>1, <4>1 DEF Pending
      <4>2. CASE u = t
        <5>1. /\ Head(outbox[t]) = outbox[t][1] /\ Len(outbox[t]) \in Nat
              /\ DOMAIN outbox[t] = 1 .. Len(outbox[t])
              /\ DOMAIN Tail(outbox[t]) = 1 .. Len(outbox[t]) - 1
              /\ \A j \in 1 .. Len(outbox[t]) - 1 : Tail(outbox[t])[j] = outbox[t][j + 1]
          BY <2>1, HeadTailProperties, LenProperties
        <5>2. k - 1 \in 1 .. Len(outbox[t]) - 1 /\ (k - 1) + 1 = k
          BY <2>6, <3>1, <4>2, <5>1
        <5>3. k - 1 \in DOMAIN Tail(outbox[t]) /\ Tail(outbox[t])[k - 1] = n
          BY <3>1, <4>2, <5>1, <5>2
        <5>4. outbox'[t] = Tail(outbox[t])
          BY <1>0, <2>1
        <5>5. QED
          BY <5>3, <5>4 DEF Pending
      <4>3. QED
        BY <4>1, <4>2
    <3>2. ~Pending(n)
      BY <3>1 DEF Pending
    <3>3. QED
      BY <1>0, <1>a, <2>1, <2>3, <2>4, <3>2, ApplyShows
  <2>7. QED
    BY <2>5, <2>6
<1>3. CASE Serve
  <2>1. /\ phase = "seed" /\ call[Main] = Idle /\ UNCHANGED <<log, view>>
    BY <1>3 DEF Serve, storeVars
  <2>2. outbox[Main] = <<>>
    BY <2>1, StallAssumption DEF BootInv, Idle
  <2>3. view = Durable
    BY <2>1, <2>2, BootedView
  <2>4. Known(view, log[n])
    BY <2>1, <2>3 DEF RootInv, LogIsKnown
  <2>5. QED
    BY <2>1, <2>4 DEF Known, Shown
<1>4. CASE (\E t \in Threads : Turns(t)) \/ UNCHANGED vars
  <2>1. UNCHANGED <<log, outbox, view, phase>>
    BY <1>4 DEF Turns, vars, storeVars
  <2>2. ~Pending(n)
    BY <2>1 DEF Pending
  <2>3. QED
    BY <1>a, <2>1, <2>2
<1>5. CASE Hydrate \/ Crash
  BY <1>5 DEF Hydrate, Crash
<1>6. QED
  BY <1>1, <1>2, <1>3, <1>4, <1>5, StepKinds

\* For any threads and any crash: an order or an item whose event was delivered, by
\* whichever thread, is in the projections, also after a restart, so the asserts at
\* the end of reserve (orders.py:90) and confirm (teach.py:160) hold.
THEOREM DeliveredShows == Spec => []DeliveredIsVisible
<1>1. Init => DeliveredIsVisible
  BY DEF Init, DeliveredIsVisible
<1>2. TypeOK /\ BootInv /\ RootInv /\ DeliveredIsVisible /\ [Next]_vars => DeliveredIsVisible'
  BY ShownStep
<1>3. QED
  BY <1>1, <1>2, TypeCorrect, BootCorrect, RootCorrect, PTL DEF Spec

-----------------------------------------------------------------------------
(* Calls about one item that do not overlap. *)

Unowned == {i \in Items : \A t \in Threads : i \notin Touches(t)}

SameOn(v, w, S) == \A i \in S : Same(v, w, i)

\* The event is about the items of S, as far as the log knows the order.
Mine(e, S, d) ==
  /\ e.type \in {"item_taught", "count_set", "order_reserved"} => e.item \in S
  /\ e.type \in Moves => d.order[e.order] # NoOrder /\ d.order[e.order].item \in S

CallMine(c, S, d) ==
  /\ c.op \in {"reserve", "teach", "cancel-wait", "cancel"} => c.item \in S
  /\ c.op = "emit" => \A k \in DOMAIN c.todo : Mine(c.todo[k], S, d)

\* What a call decided on is still so: nobody else moves its order meanwhile.
Fits(c, d) ==
  /\ c.op = "emit" => \A k \in DOMAIN c.todo :
       LET e == c.todo[k] IN
       /\ e.type \in {"order_paid", "order_packed"} => Len(c.todo) = 1
       /\ e.type = "order_paid" => d.order[e.order].status \in {"reserved", "paid"}
       /\ e.type = "order_packed" => d.order[e.order].status = "paid"
  /\ c.op \in {"cancel-wait", "cancel"} =>
       d.order[c.order].status = c.status /\ c.status \in {"reserved", "paid"}

\* Once the thread has delivered what it appended, it sees its item as it is.
Caught(box, lg, v, d, S) ==
  \/ box = <<>> /\ SameOn(v, d, S)
  \/ \E m \in 1 .. Len(lg) :
       /\ box = <<m>> /\ Mine(lg[m], S, d)
       /\ SameOn(Apply(v, lg[m]), d, S)
  \/ \E m, n \in 1 .. Len(lg) :
       /\ box = <<m, n>> /\ Mine(lg[m], S, d) /\ Mine(lg[n], S, d)
       /\ SameOn(Apply(Apply(v, lg[m]), lg[n]), d, S)

SyncInv ==
  phase = "up" =>
    /\ \A t \in Threads : /\ Caught(outbox[t], log, view, Durable, Touches(t))
                          /\ CallMine(call[t], Touches(t), Durable)
                          /\ Fits(call[t], Durable)
    /\ SameOn(view, Durable, Unowned)

\* In an orderly behaviour each step starts and ends without an overlap.
LEMMA OrderlyMeans == OrderlySpec => Spec /\ []Orderly
<1>1. Init => Orderly
  BY DEF Init, Orderly, Touches
<1>2. Orderly /\ [Next /\ Orderly']_vars => Orderly'
  BY DEF vars, Orderly, Touches
<1>3. [Next /\ Orderly']_vars => [Next]_vars
  OBVIOUS
<1>4. QED
  BY <1>1, <1>2, <1>3, PTL DEF OrderlySpec, Spec

LEMMA TouchesType ==
  ASSUME TypeOK, NEW t \in Threads
  PROVE  /\ Touches(t) \in SUBSET Items
         /\ call[t] = Idle => Touches(t) = {}
         /\ call[t] # Idle => Touches(t) = {call[t].item} /\ call[t].item \in Items
<1>1. call[t] \in Calls
  BY DEF TypeOK
<1>2. call[t] # Idle => call[t].item \in Items
  BY <1>1 DEF Calls
<1>3. QED
  BY <1>2 DEF Touches

LEMMA MineGrows ==
  ASSUME NEW d, NEW w, Rooted(d, w), NEW S
  PROVE  /\ \A e \in Event : Mine(e, S, d) => Mine(e, S, w)
         /\ \A c \in Calls : CallMine(c, S, d) => CallMine(c, S, w)
<1>1. \A e \in Event : Mine(e, S, d) => Mine(e, S, w)
  BY EventFields DEF Mine, Rooted
<1>2. ASSUME NEW c \in Calls, c.op = "emit", NEW k \in DOMAIN c.todo PROVE c.todo[k] \in Event
  <2>1. c.todo \in Seq(Singles)
    BY <1>2 DEF Calls, Idle
  <2>2. c.todo[k] \in Singles
    BY <1>2, <2>1, ElementOfSeq
  <2>3. QED
    BY <2>2, EventTypes
<1>3. QED
  BY <1>1, <1>2 DEF CallMine

\* An event about the items of S is about no other item.
LEMMA NotAbout ==
  ASSUME NEW v \in View, NEW d, Rooted(v, d), NEW e \in Event, Known(d, e),
         NEW S, Mine(e, S, d), NEW i \in Items, i \notin S
  PROVE  ~About(v, e, i)
<1>1. CASE e.type \in {"item_taught", "count_set"}
  BY <1>1 DEF About, Mine, Moves
<1>2. CASE e.type = "order_reserved"
  <2>1. e.order \in OrderIds /\ e.item \in S
    BY <1>2, EventFields DEF Mine
  <2>2. Of(v.order[e.order], i) => d.order[e.order].item = i
    BY <2>1 DEF Of, Rooted
  <2>3. QED
    BY <1>2, <2>1, <2>2 DEF About, Known, Moves
<1>3. CASE e.type \in Moves
  <2>1. e.order \in OrderIds /\ d.order[e.order].item \in S
    BY <1>3, EventFields DEF Mine
  <2>2. Of(v.order[e.order], i) => d.order[e.order].item = i
    BY <2>1 DEF Of, Rooted
  <2>3. QED
    BY <1>3, <2>1, <2>2 DEF About, Moves
<1>4. QED
  BY <1>1, <1>2, <1>3 DEF About

\* A thread only appends what is about its own items.
LEMMA AppendMine ==
  ASSUME TypeOK, RootInv, NEW t \in Threads, NEW es, NEW rest, Appends(t, es, rest),
         CallMine(call[t], Touches(t), Durable), NEW d, d = Durable, NEW w, w = Durable'
  PROVE  \A k \in 1 .. Len(es) : Mine(es[k], Touches(t), w)
<1>1. /\ es \in Seq(Event) /\ Source(t, es, rest) /\ CallRooted(call[t], d)
  BY DEF Appends, RootInv
<1>2. PICK m \in {1, 2} : m = Len(es)
  BY DEF Appends
<1>3. Rooted(d, w)
  BY AppendBrings
<1> SUFFICES ASSUME NEW k \in 1 .. Len(es) PROVE Mine(es[k], Touches(t), w)
  OBVIOUS
<1>4. k \in {1, 2}
  BY <1>2
<1>5. CASE call[t].op = "emit"
  <2>1. call[t].todo \in Seq(Singles) /\ call[t].todo # <<>> /\ es = <<Head(call[t].todo)>>
    BY <1>1, <1>5, CallFields DEF Source
  <2>2. Head(call[t].todo) = call[t].todo[1] /\ 1 \in DOMAIN call[t].todo /\ Head(call[t].todo) \in Singles
    BY <2>1, HeadTailProperties, EmptySeq, LenProperties
  <2>3. PICK e \in Event : e = Head(call[t].todo)
    BY <2>2, EventTypes
  <2>4. es = <<e>>
    BY <2>1, <2>3
  <2>5. k = 1 /\ es[k] = e
    BY <2>4
  <2>6. Mine(e, Touches(t), d)
    BY <1>5, <2>2, <2>3 DEF CallMine
  <2>7. QED
    BY <1>3, <2>5, <2>6, MineGrows
<1>6. CASE call[t].op = "reserve"
  <2>1. /\ es[1] = OrderReserved(call[t].order, call[t].item, call[t].qty)
        /\ es[2] = CountSet(call[t].item, view.count[call[t].item] - call[t].qty, "manual")
        /\ call[t].item \in Touches(t)
    BY <1>1, <1>6 DEF Source, CallMine
  <2>2. QED
    BY <1>4, <2>1 DEF OrderReserved, CountSet, Mine, Moves
<1>7. CASE call[t].op = "cancel"
  <2>1. PICK o \in OrderIds : o = call[t].order
    BY <1>7, CallFields
  <2>2. w.order[o] # NoOrder /\ w.order[o].item \in Touches(t) /\ call[t].item \in Touches(t)
    BY <1>1, <1>3, <1>7, <2>1 DEF CallMine, CallRooted, Rooted
  <2>3. PICK n : \/ es = << CountSet(call[t].item, n, "manual"), OrderCancelled(o) >>
                 \/ es = << OrderCancelled(o) >>
    BY <1>1, <1>7, <2>1 DEF Source, CancelEvents
  <2>4. Mine(CountSet(call[t].item, n, "manual"), Touches(t), w) /\ Mine(OrderCancelled(o), Touches(t), w)
    BY <2>2 DEF CountSet, OrderCancelled, Mine, Moves
  <2>5. QED
    BY <2>3, <2>4
<1>8. CASE call[t].op = "teach"
  <2>1. /\ es[1] = ItemTaught(call[t].item, SeedCount[call[t].item])
        /\ es[2] = ActiveItemSet(call[t].item) /\ call[t].item \in Touches(t)
    BY <1>1, <1>8 DEF Source, CallMine
  <2>2. QED
    BY <1>4, <2>1 DEF ItemTaught, ActiveItemSet, Mine, Moves
<1>9. QED
  BY <1>1, <1>5, <1>6, <1>7, <1>8 DEF Source

LEMMA AppendSame ==
  ASSUME TypeOK, RootInv, NEW t \in Threads, NEW es, NEW rest, Appends(t, es, rest),
         CallMine(call[t], Touches(t), Durable), NEW d, d = Durable, NEW w, w = Durable',
         NEW i \in Items, i \notin Touches(t)
  PROVE  Same(d, w, i)
<1>1. /\ d \in View /\ w \in View /\ Rooted(d, w) /\ Rooted(Apply(d, es[1]), w)
      /\ \A k \in 1 .. Len(es) : Known(w, es[k]) /\ Mine(es[k], Touches(t), w)
  BY DurableType, AppendBrings, AppendMine
<1>2. PICK m \in {1, 2} : m = Len(es)
  BY DEF Appends
<1>3. \A k \in 1 .. m : es[k] \in Event
  BY <1>2, ElementOfSeq DEF Appends
<1>4. PICK a \in View : a = Apply(d, es[1])
  BY <1>1, <1>2, <1>3, ApplyType
<1>5. (m = 1 => w = a) /\ (m = 2 => w = Apply(a, es[2]))
  BY <1>2, <1>4, DurableStep DEF Appends
<1>6. Same(a, d, i)
  <2>1. es[1] \in Event /\ Known(w, es[1]) /\ Mine(es[1], Touches(t), w)
    BY <1>1, <1>2, <1>3
  <2>2. ~About(d, es[1], i)
    BY <1>1, <2>1, NotAbout
  <2>3. QED
    BY <1>1, <1>4, <2>1, <2>2, ApplyForeign
<1>7. m = 2 => Same(w, a, i)
  <2>1. SUFFICES ASSUME m = 2 PROVE Same(w, a, i)
    OBVIOUS
  <2>2. es[2] \in Event /\ Known(w, es[2]) /\ Mine(es[2], Touches(t), w)
    BY <1>1, <1>2, <1>3, <2>1
  <2>3. ~About(a, es[2], i)
    BY <1>1, <1>4, <2>2, NotAbout
  <2>4. QED
    BY <1>4, <1>5, <2>1, <2>2, <2>3, ApplyForeign
<1>8. Same(w, d, i)
  BY <1>5, <1>6, <1>7, SameTrans
<1>9. QED
  BY <1>8 DEF Same

\* A call stays fit while its own orders stay as they are.
LEMMA FitsStays ==
  ASSUME NEW c \in Calls, NEW d, NEW w, NEW S, CallRooted(c, d), CallMine(c, S, d), Fits(c, d),
         SameOn(d, w, S)
  PROVE  Fits(c, w)
<1>1. \A o \in OrderIds : d.order[o] # NoOrder /\ d.order[o].item \in S => w.order[o] = d.order[o]
  BY DEF SameOn, Same, Of
<1>2. ASSUME c.op = "emit", NEW k \in DOMAIN c.todo
      PROVE  LET e == c.todo[k] IN
             /\ e.type \in {"order_paid", "order_packed"} => Len(c.todo) = 1
             /\ e.type = "order_paid" => w.order[e.order].status \in {"reserved", "paid"}
             /\ e.type = "order_packed" => w.order[e.order].status = "paid"
  <2>1. c.todo \in Seq(Singles)
    BY <1>2 DEF Calls, Idle
  <2>2. PICK e \in Event : e = c.todo[k]
    BY <1>2, <2>1, ElementOfSeq, EventTypes
  <2>3. e.type \in Moves => e.order \in OrderIds /\ w.order[e.order] = d.order[e.order]
    BY <1>1, <1>2, <2>2, EventFields DEF CallMine, Mine
  <2>4. QED
    BY <1>2, <2>2, <2>3 DEF Fits, Moves
<1>3. ASSUME c.op \in {"cancel-wait", "cancel"}
      PROVE  w.order[c.order].status = c.status /\ c.status \in {"reserved", "paid"}
  <2>1. c.order \in OrderIds
    BY <1>3 DEF Calls, Idle
  <2>2. d.order[c.order] # NoOrder /\ d.order[c.order].item \in S
    BY <1>3 DEF CallRooted, CallMine
  <2>3. QED
    BY <1>1, <1>3, <2>1, <2>2 DEF Fits
<1>4. QED
  BY <1>2, <1>3 DEF Fits

LEMMA SameOnTrans ==
  ASSUME NEW u, NEW v, NEW w, NEW S, SameOn(u, v, S), SameOn(v, w, S)
  PROVE  SameOn(u, w, S) /\ SameOn(v, u, S)
BY SameTrans DEF SameOn

LEMMA ApplySameOn ==
  ASSUME NEW v \in View, NEW w \in View, NEW S \in SUBSET Items, SameOn(v, w, S), NEW e \in Event
  PROVE  SameOn(Apply(v, e), Apply(w, e), S)
BY ApplySame DEF SameOn

\* The log grows and none of the items of S change in it.
LEMMA CaughtStays ==
  ASSUME NEW box, NEW lg \in Seq(Event), NEW more \in Seq(Event), Len(lg) <= Len(more),
         \A n \in 1 .. Len(lg) : more[n] = lg[n],
         NEW v, NEW d, NEW w, NEW S, Rooted(d, w), SameOn(d, w, S), Caught(box, lg, v, d, S)
  PROVE  Caught(box, more, v, w, S)
<1>1. \A n \in 1 .. Len(lg) : /\ lg[n] \in Event /\ more[n] = lg[n] /\ n \in 1 .. Len(more)
                              /\ Mine(lg[n], S, d) => Mine(more[n], S, w)
  <2>1. \A n \in 1 .. Len(lg) : lg[n] \in Event /\ n \in 1 .. Len(more)
    BY ElementOfSeq
  <2>2. QED
    BY <2>1, MineGrows
<1>2. \A x : SameOn(x, d, S) => SameOn(x, w, S)
  BY SameOnTrans
<1>3. QED
  BY <1>1, <1>2 DEF Caught

\* Somebody else delivers an event that is about none of the items of S.
LEMMA CaughtForeign ==
  ASSUME NEW box, NEW lg \in Seq(Event), NEW v \in View, NEW w \in View, NEW d,
         NEW S \in SUBSET Items, SameOn(w, v, S), Caught(box, lg, v, d, S)
  PROVE  Caught(box, lg, w, d, S)
<1>1. \A n \in 1 .. Len(lg) : lg[n] \in Event
  BY ElementOfSeq
<1>2. \A x : SameOn(v, x, S) => SameOn(w, x, S)
  BY SameOnTrans
<1>3. ASSUME NEW m \in 1 .. Len(lg), SameOn(Apply(v, lg[m]), d, S)
      PROVE  SameOn(Apply(w, lg[m]), d, S)
  BY <1>1, <1>3, ApplySameOn, SameOnTrans
<1>4. ASSUME NEW m \in 1 .. Len(lg), NEW n \in 1 .. Len(lg),
             SameOn(Apply(Apply(v, lg[m]), lg[n]), d, S)
      PROVE  SameOn(Apply(Apply(w, lg[m]), lg[n]), d, S)
  <2>1. SameOn(Apply(w, lg[m]), Apply(v, lg[m]), S)
    BY <1>1, ApplySameOn
  <2>2. Apply(v, lg[m]) \in View /\ Apply(w, lg[m]) \in View
    BY <1>1, ApplyType
  <2>3. SameOn(Apply(Apply(w, lg[m]), lg[n]), Apply(Apply(v, lg[m]), lg[n]), S)
    BY <1>1, <2>1, <2>2, ApplySameOn
  <2>4. QED
    BY <1>4, <2>3, SameOnTrans
<1>5. QED
  BY <1>2, <1>3, <1>4 DEF Caught

\* The thread delivers its own next event.
LEMMA CaughtNotify ==
  ASSUME NEW box, box # <<>>, NEW lg, NEW v, NEW d, NEW S, Caught(box, lg, v, d, S)
  PROVE  /\ Caught(Tail(box), lg, Apply(v, lg[Head(box)]), d, S)
         /\ Head(box) \in 1 .. Len(lg) /\ Mine(lg[Head(box)], S, d)
<1>1. CASE \E m \in 1 .. Len(lg) :
             /\ box = <<m>> /\ Mine(lg[m], S, d)
             /\ SameOn(Apply(v, lg[m]), d, S)
  <2>1. PICK m \in 1 .. Len(lg) :
             /\ box = <<m>> /\ Mine(lg[m], S, d)
             /\ SameOn(Apply(v, lg[m]), d, S)
    BY <1>1
  <2>2. Head(box) = m /\ Tail(box) = <<>>
    BY <2>1
  <2>3. QED
    BY <2>1, <2>2 DEF Caught
<1>2. CASE \E m, n \in 1 .. Len(lg) :
             /\ box = <<m, n>> /\ Mine(lg[m], S, d) /\ Mine(lg[n], S, d)
             /\ SameOn(Apply(Apply(v, lg[m]), lg[n]), d, S)
  <2>1. PICK m \in 1 .. Len(lg), n \in 1 .. Len(lg) :
             /\ box = <<m, n>> /\ Mine(lg[m], S, d) /\ Mine(lg[n], S, d)
             /\ SameOn(Apply(Apply(v, lg[m]), lg[n]), d, S)
    BY <1>2
  <2>2. Head(box) = m /\ Tail(box) = <<n>>
    BY <2>1
  <2>3. QED
    BY <2>1, <2>2 DEF Caught
<1>3. QED
  BY <1>1, <1>2 DEF Caught

\* The thread appends one or two events that are its own.
LEMMA CaughtAppend ==
  ASSUME NEW lg, NEW more, NEW es, NEW m \in {1, 2}, m = Len(es), Len(lg) \in Nat,
         Len(more) = Len(lg) + m, \A k \in 1 .. m : more[Len(lg) + k] = es[k] /\ es[k] \in Event,
         NEW v \in View, NEW d \in View, NEW w, NEW S \in SUBSET Items, SameOn(v, d, S),
         m = 1 => w = Apply(d, es[1]), m = 2 => w = Apply(Apply(d, es[1]), es[2]),
         \A k \in 1 .. m : Mine(es[k], S, w)
  PROVE  Caught([k \in 1 .. m |-> Len(lg) + k], more, v, w, S)
<1> DEFINE L == Len(lg)
<1>1. CASE m = 1
  <2>1. [k \in 1 .. m |-> L + k] = <<L + 1>>
    BY <1>1
  <2>2. L + 1 \in 1 .. Len(more) /\ more[L + 1] = es[1] /\ es[1] \in Event /\ Mine(es[1], S, w)
    BY <1>1
  <2>3. SameOn(Apply(v, es[1]), w, S)
    BY <1>1, <2>2, ApplySameOn
  <2>4. QED
    BY <2>1, <2>2, <2>3 DEF Caught
<1>2. CASE m = 2
  <2>1. [k \in 1 .. m |-> L + k] = <<L + 1, L + 2>>
    BY <1>2
  <2>2. /\ L + 1 \in 1 .. Len(more) /\ more[L + 1] = es[1] /\ es[1] \in Event /\ Mine(es[1], S, w)
        /\ L + 2 \in 1 .. Len(more) /\ more[L + 2] = es[2] /\ es[2] \in Event /\ Mine(es[2], S, w)
    BY <1>2
  <2>3. SameOn(Apply(v, es[1]), Apply(d, es[1]), S)
    BY <2>2, ApplySameOn
  <2>4. SameOn(Apply(Apply(v, es[1]), es[2]), w, S)
    BY <1>2, <2>2, <2>3, ApplySameOn, ApplyType
  <2>5. QED
    BY <2>1, <2>2, <2>4 DEF Caught
<1>3. QED
  BY <1>1, <1>2

LEMMA SyncAppend ==
  ASSUME Orderly, TypeOK, RootInv, SyncInv, phase = "up",
         NEW t \in Threads, NEW es, NEW rest, Appends(t, es, rest)
  PROVE  SyncInv'
<1>0. /\ StoreTypeOK /\ call \in [Threads -> Calls] /\ view \in View /\ log \in Seq(Event)
      /\ outbox \in [Threads -> Seq(1 .. Len(log))] /\ \A u \in Threads : Touches(u) \in SUBSET Items
  BY TouchesType DEF TypeOK, StoreTypeOK
<1>1. PICK d, w : d = Durable /\ w = Durable'
  OBVIOUS
<1>2. /\ d \in View /\ w \in View /\ Rooted(d, w)
      /\ \A u \in Threads : /\ Caught(outbox[u], log, view, d, Touches(u))
                            /\ CallMine(call[u], Touches(u), d)
                            /\ CallRooted(call[u], d)
                            /\ Fits(call[u], d)
      /\ SameOn(view, d, Unowned)
  BY <1>1, AppendBrings, DurableType DEF SyncInv, RootInv
<1>3. /\ es \in Seq(Event) /\ Record(es) /\ outbox[t] = <<>> /\ view' = view
      /\ outbox' = [outbox EXCEPT ![t] = Offsets(es)] /\ Source(t, es, rest)
      /\ call' = [call EXCEPT ![t] = Emitting(call[t].item, rest)]
  BY DEF Appends
<1>4. PICK m \in {1, 2} : m = Len(es)
  BY DEF Appends
<1>5. /\ log' \in Seq(Event) /\ Len(log) \in Nat /\ Len(log') = Len(log) + m
      /\ \A n \in 1 .. Len(log) : log'[n] = log[n]
      /\ \A k \in 1 .. m : log'[Len(log) + k] = es[k]
  <2>1. /\ log' \in Seq(Event) /\ Len(log') = Len(log) + Len(es)
        /\ \A n \in 1 .. Len(log) : log'[n] = log[n]
        /\ \A k \in 1 .. Len(es) : log'[Len(log) + k] = es[k]
    BY <1>0, <1>3, RecordFacts DEF Appends
  <2>2. Len(log) \in Nat
    BY <1>0
  <2>3. QED
    BY <1>4, <2>1, <2>2
<1>6. PICK more \in Seq(Event) : more = log'
  BY <1>5
<1>7. ASSUME NEW i \in Items, i \notin Touches(t) PROVE Same(d, w, i)
  BY <1>1, <1>2, <1>7, AppendSame
<1>8. ASSUME NEW u \in Threads, u # t
      PROVE  /\ Caught(outbox[u], more, view, w, Touches(u)) /\ outbox'[u] = outbox[u]
             /\ CallMine(call[u], Touches(u), w) /\ Fits(call[u], w) /\ call'[u] = call[u]
  <2>1. outbox'[u] = outbox[u] /\ call'[u] = call[u]
    BY <1>0, <1>3, <1>8
  <2>2. SameOn(d, w, Touches(u))
    BY <1>0, <1>7, <1>8 DEF Orderly, SameOn
  <2>3. Len(log) <= Len(more) /\ \A n \in 1 .. Len(log) : more[n] = log[n]
    BY <1>5, <1>6
  <2>4. Caught(outbox[u], more, view, w, Touches(u))
    BY <1>0, <1>2, <2>2, <2>3, CaughtStays
  <2>5. CallMine(call[u], Touches(u), w)
    BY <1>0, <1>2, MineGrows
  <2>6. Fits(call[u], w)
    BY <1>0, <1>2, <2>2, FitsStays
  <2>7. QED
    BY <2>1, <2>4, <2>5, <2>6
<1>9. Caught(Offsets(es), more, view, w, Touches(t))
  <2>1. SameOn(view, d, Touches(t))
    <3>1. Caught(<<>>, log, view, d, Touches(t))
      BY <1>2, <1>3
    <3>2. \A m1, n1 : <<>> # <<m1>> /\ <<>> # <<m1, n1>>
      OBVIOUS
    <3>3. QED
      BY <3>1, <3>2 DEF Caught
  <2>2. \A k \in 1 .. m : Mine(es[k], Touches(t), w)
    BY <1>1, <1>2, <1>4, AppendMine
  <2>3. (m = 1 => w = Apply(d, es[1])) /\ (m = 2 => w = Apply(Apply(d, es[1]), es[2]))
    BY <1>1, <1>3, <1>4, DurableStep
  <2>4. \A k \in 1 .. m : more[Len(log) + k] = es[k] /\ es[k] \in Event
    BY <1>3, <1>4, <1>5, <1>6, ElementOfSeq
  <2>5. Touches(t) \in SUBSET Items /\ Len(more) = Len(log) + m /\ Len(log) \in Nat
    BY <1>0, <1>5, <1>6
  <2>6. Caught([k \in 1 .. m |-> Len(log) + k], more, view, w, Touches(t))
    BY <1>0, <1>2, <1>4, <2>1, <2>2, <2>3, <2>4, <2>5, CaughtAppend
  <2>7. QED
    BY <1>4, <2>6 DEF Offsets
<1>10. CallMine(Emitting(call[t].item, rest), Touches(t), w) /\ Fits(Emitting(call[t].item, rest), w)
  <2>1. CASE rest = <<>>
    BY <2>1 DEF CallMine, Fits, Emitting
  <2>2. CASE rest # <<>>
    <3>1. /\ call[t].op = "emit" /\ call[t].todo \in Seq(Singles) /\ call[t].todo # <<>>
          /\ rest = Tail(call[t].todo)
      BY <1>3, <2>2, CallFields DEF Source
    <3>2. ASSUME NEW k \in DOMAIN rest
          PROVE  Mine(rest[k], Touches(t), w) /\ rest[k].type \notin {"order_paid", "order_packed"}
      <4>1. /\ k + 1 \in DOMAIN call[t].todo /\ rest[k] = call[t].todo[k + 1]
            /\ Len(call[t].todo) # 1
        BY <3>1, <3>2, HeadTailProperties
      <4>2. rest[k] \in Event
        BY <3>1, <4>1, ElementOfSeq, EventTypes
      <4>3. Mine(rest[k], Touches(t), d)
        BY <1>2, <3>1, <4>1 DEF CallMine
      <4>4. rest[k].type \notin {"order_paid", "order_packed"}
        BY <1>2, <3>1, <4>1 DEF Fits
      <4>5. QED
        BY <1>2, <4>2, <4>3, <4>4, MineGrows
    <3>3. QED
      BY <3>2 DEF CallMine, Fits, Emitting
  <2>3. QED
    BY <2>1, <2>2
<1>11. SameOn(view, w, Unowned)
  <2>1. SameOn(d, w, Unowned)
    BY <1>7 DEF SameOn, Unowned
  <2>2. QED
    BY <1>2, <2>1, SameOnTrans
<1>12. outbox'[t] = Offsets(es) /\ call'[t] = Emitting(call[t].item, rest)
  BY <1>0, <1>3
<1>13. \A u \in Threads : /\ Caught(outbox'[u], more, view, w, Touches(u))
                          /\ CallMine(call'[u], Touches(u), w)
                          /\ Fits(call'[u], w)
  BY <1>8, <1>9, <1>10, <1>12
<1>14. \A u \in Threads : Touches(u)' = Touches(u)
  <2>1. call[t] # Idle /\ Emitting(call[t].item, rest) # Idle
        /\ Emitting(call[t].item, rest).item = call[t].item
    BY <1>3 DEF Source, Idle, Emitting
  <2>2. \A u \in Threads : u # t => call'[u] = call[u]
    BY <1>8
  <2>3. QED
    BY <1>12, <2>1, <2>2 DEF Touches
<1>15. Unowned' = Unowned
  BY <1>14 DEF Unowned
<1>16. QED
  BY <1>1, <1>3, <1>6, <1>11, <1>13, <1>14, <1>15 DEF SyncInv

LEMMA IdleFits ==
  ASSUME NEW S, NEW d
  PROVE  CallMine(Idle, S, d) /\ Fits(Idle, d)
BY DEF CallMine, Fits, Idle

LEMMA CaughtNone ==
  ASSUME NEW lg, NEW v, NEW d, NEW S
  PROVE  Caught(<<>>, lg, v, d, S) <=> SameOn(v, d, S)
<1>1. \A m, n : <<>> # <<m>> /\ <<>> # <<m, n>>
  OBVIOUS
<1>2. QED
  BY <1>1 DEF Caught

\* The thread that gives up an item leaves it as the log has it.
LEMMA SyncNotify ==
  ASSUME Orderly, TypeOK, RootInv, SyncInv, phase = "up", NEW t \in Threads, Notify(t)
  PROVE  SyncInv'
<1>0. /\ StoreTypeOK /\ call \in [Threads -> Calls] /\ view \in View /\ log \in Seq(Event)
      /\ outbox \in [Threads -> Seq(1 .. Len(log))] /\ \A u \in Threads : Touches(u) \in SUBSET Items
  BY TouchesType DEF TypeOK, StoreTypeOK
<1>1. /\ UNCHANGED <<log, replays>> /\ view' = Apply(view, log[Head(outbox[t])])
      /\ outbox[t] # <<>> /\ outbox' = [outbox EXCEPT ![t] = Tail(outbox[t])]
      /\ \A u \in Threads : u # t => call'[u] = call[u]
      /\ call'[t] = call[t] \/ (call'[t] = Idle /\ Len(outbox[t]) = 1)
  BY <1>0 DEF Notify, StoreNotify, Become
<1>2. PICK d \in View : d = Durable /\ d = Durable'
  BY <1>1, DurableType DEF Durable
<1>3. /\ \A u \in Threads : /\ Caught(outbox[u], log, view, d, Touches(u))
                            /\ CallMine(call[u], Touches(u), d)
                            /\ Fits(call[u], d)
      /\ SameOn(view, d, Unowned) /\ Rooted(view, d)
  BY <1>2 DEF SyncInv, RootInv
<1>4. PICK box : box = outbox[t]
  OBVIOUS
<1>5. /\ Caught(Tail(box), log, Apply(view, log[Head(box)]), d, Touches(t))
      /\ Head(box) \in 1 .. Len(log) /\ Mine(log[Head(box)], Touches(t), d)
  BY <1>1, <1>3, <1>4, CaughtNotify
<1>6. PICK e \in Event : e = log[Head(box)] /\ Mine(e, Touches(t), d) /\ Known(d, e)
  BY <1>0, <1>2, <1>5, ElementOfSeq DEF RootInv, LogIsKnown
<1>7. PICK v \in View : v = Apply(view, e) /\ v = view'
  BY <1>0, <1>1, <1>4, <1>6, ApplyType
<1>8. ASSUME NEW i \in Items, i \notin Touches(t) PROVE Same(v, view, i)
  <2>1. ~About(view, e, i)
    BY <1>0, <1>3, <1>6, <1>8, NotAbout
  <2>2. QED
    BY <1>0, <1>7, <2>1, ApplyForeign
<1>9. ASSUME NEW u \in Threads, u # t
      PROVE  /\ Caught(outbox'[u], log, v, d, Touches(u))
             /\ CallMine(call'[u], Touches(u), d) /\ Fits(call'[u], d)
             /\ Touches(u)' = Touches(u)
  <2>1. SameOn(v, view, Touches(u))
    BY <1>0, <1>8, <1>9 DEF Orderly, SameOn
  <2>2. outbox'[u] = outbox[u] /\ Touches(u) \in SUBSET Items /\ call'[u] = call[u]
    BY <1>0, <1>1, <1>9
  <2>3. Touches(u)' = Touches(u)
    BY <2>2 DEF Touches
  <2>4. Caught(outbox[u], log, v, d, Touches(u))
    BY <1>0, <1>3, <2>1, <2>2, CaughtForeign
  <2>5. QED
    BY <1>3, <2>2, <2>3, <2>4
<1>10. Caught(outbox'[t], log, v, d, Touches(t))
  BY <1>0, <1>1, <1>4, <1>5, <1>6, <1>7
<1>11. CASE call'[t] = call[t]
  <2>1. Touches(t)' = Touches(t)
    BY <1>11 DEF Touches
  <2>2. \A u \in Threads : Touches(u)' = Touches(u)
    BY <1>9, <2>1
  <2>3. Unowned' = Unowned
    BY <2>2 DEF Unowned
  <2>4. SameOn(v, d, Unowned)
    <3>1. SameOn(v, view, Unowned)
      BY <1>8 DEF SameOn, Unowned
    <3>2. QED
      BY <1>3, <3>1, SameOnTrans
  <2>5. \A u \in Threads : /\ Caught(outbox'[u], log, v, d, Touches(u))
                           /\ CallMine(call'[u], Touches(u), d) /\ Fits(call'[u], d)
    BY <1>3, <1>9, <1>10, <1>11
  <2>6. QED
    BY <1>1, <1>2, <1>7, <2>2, <2>3, <2>4, <2>5 DEF SyncInv
<1>12. CASE call'[t] = Idle /\ Len(outbox[t]) = 1
  <2>1. outbox'[t] = <<>>
    BY <1>0, <1>1, <1>12, EmptySeq, HeadTailProperties
  <2>2. SameOn(v, d, Touches(t))
    BY <1>10, <2>1, CaughtNone
  <2>3. Touches(t)' = {}
    BY <1>12 DEF Touches
  <2>4. SameOn(v, d, Unowned')
    <3>1. SUFFICES ASSUME NEW i \in Unowned', i \notin Touches(t) PROVE Same(v, d, i)
      BY <2>2 DEF SameOn
    <3>2. i \in Items /\ i \in Unowned
      BY <1>9, <3>1 DEF Unowned
    <3>3. Same(v, view, i) /\ Same(view, d, i)
      BY <1>3, <1>8, <3>1, <3>2 DEF SameOn
    <3>4. QED
      BY <3>3, SameTrans
  <2>5. Caught(outbox'[t], log, v, d, {})
    BY <2>1, CaughtNone DEF SameOn
  <2>6. CallMine(call'[t], {}, d) /\ Fits(call'[t], d)
    BY <1>12, IdleFits
  <2>7. \A u \in Threads : /\ Caught(outbox'[u], log, v, d, Touches(u)')
                           /\ CallMine(call'[u], Touches(u)', d) /\ Fits(call'[u], d)
    BY <1>9, <2>3, <2>5, <2>6
  <2>8. QED
    BY <1>1, <1>2, <1>7, <2>4, <2>7 DEF SyncInv
<1>13. QED
  BY <1>1, <1>11, <1>12

\* A thread between two calls, or between two steps of one call, has nothing to deliver.
LEMMA TurnsQuiet ==
  ASSUME TypeOK, BootInv, phase = "up", NEW t \in Threads, Turns(t)
  PROVE  outbox[t] = <<>> /\ (Request(t) => call[t] = Idle)
<1>1. Request(t) => call[t] = Idle
  BY DEF Request, ReserveBegin, MarkPaidRead, MarkPackedRead, CancelRead, ReconcileRead,
         SetActiveRead, TeachBegin, Starts
<1>2. call[t].op # "emit"
  <2>1. CASE ReserveRefuse(t) \/ CancelBegin(t)
    BY <2>1 DEF ReserveRefuse, CancelBegin
  <2>2. CASE Request(t)
    BY <1>1, <2>2 DEF Idle
  <2>3. CASE Seed
    BY <2>3 DEF Seed
  <2>4. QED
    BY <2>1, <2>2, <2>3 DEF Turns
<1>3. QED
  BY <1>1, <1>2 DEF BootInv

\* A thread takes up item i, or gives up the item it has: what it sees of either is
\* what the log has.
LEMMA SyncBecome ==
  ASSUME Orderly', TypeOK, BootInv, SyncInv, phase = "up", NEW t \in Threads, Turns(t),
         NEW c, Become(t, c), NEW d \in View, d = Durable, d = Durable',
         NEW S \in SUBSET Items, S = IF c = Idle THEN {} ELSE {c.item},
         CallMine(c, S, d), Fits(c, d)
  PROVE  SyncInv'
<1>0. call \in [Threads -> Calls] /\ UNCHANGED <<log, view, outbox, phase>> /\ outbox[t] = <<>>
  BY TurnsQuiet DEF TypeOK, Turns
<1>1. call'[t] = c /\ \A u \in Threads : u # t => call'[u] = call[u]
  BY <1>0 DEF Become
<1>2. Touches(t)' = S /\ \A u \in Threads : u # t => Touches(u)' = Touches(u)
  BY <1>1 DEF Touches
<1>3. /\ \A u \in Threads : /\ Caught(outbox[u], log, view, d, Touches(u))
                            /\ CallMine(call[u], Touches(u), d) /\ Fits(call[u], d)
      /\ SameOn(view, d, Unowned)
  BY DEF SyncInv
<1>4. SameOn(view, d, Touches(t))
  BY <1>0, <1>3, CaughtNone
<1>5. ASSUME NEW i \in Items, \A u \in Threads : u # t => i \notin Touches(u) PROVE Same(view, d, i)
  BY <1>3, <1>4, <1>5 DEF SameOn, Unowned
<1>6. SameOn(view, d, Unowned')
  BY <1>2, <1>5 DEF SameOn, Unowned
<1>7. SameOn(view, d, S)
  <2>1. \A u \in Threads : u # t => S \cap Touches(u) = {}
    BY <1>2 DEF Orderly
  <2>2. QED
    BY <1>5, <2>1 DEF SameOn
<1>8. Caught(outbox[t], log, view, d, S)
  BY <1>0, <1>7, CaughtNone
<1>9. \A u \in Threads : /\ Caught(outbox[u], log, view, d, Touches(u)')
                         /\ CallMine(call'[u], Touches(u)', d) /\ Fits(call'[u], d)
  BY <1>1, <1>2, <1>3, <1>8
<1>10. QED
  BY <1>0, <1>6, <1>9 DEF SyncInv

\* What a request reads of an item nobody works on is what the log has.
LEMMA FreshRead ==
  ASSUME Orderly', TypeOK, BootInv, SyncInv, phase = "up", NEW t \in Threads, Request(t), Turns(t),
         NEW c, Become(t, c), c # Idle, c.item \in Items, NEW d, d = Durable
  PROVE  /\ Same(view, d, c.item)
         /\ \A o \in OrderIds : view.order[o] # NoOrder /\ view.order[o].item = c.item =>
              d.order[o] = view.order[o]
<1>1. call \in [Threads -> Calls] /\ call[t] = Idle
  BY TurnsQuiet DEF TypeOK
<1>2. Touches(t) = {} /\ Touches(t)' = {c.item} /\ \A u \in Threads : u # t => Touches(u)' = Touches(u)
  BY <1>1 DEF Become, Touches
<1>3. \A u \in Threads : c.item \notin Touches(u)
  BY <1>2 DEF Orderly
<1>4. Same(view, d, c.item)
  BY <1>3 DEF SyncInv, SameOn, Unowned
<1>5. QED
  BY <1>4 DEF Same, Of

LEMMA SyncTurns ==
  ASSUME Orderly', TypeOK, BootInv, RootInv, SyncInv, phase = "up", NEW t \in Threads, Turns(t)
  PROVE  SyncInv'
<1>0. /\ StoreTypeOK /\ call \in [Threads -> Calls] /\ view \in View
  BY DEF TypeOK, StoreTypeOK
<1>1. UNCHANGED <<log, replays, view, outbox, phase>>
  BY DEF Turns
<1>2. PICK d \in View : d = Durable /\ d = Durable'
  BY <1>1, DurableType DEF Durable
<1>3. ASSUME NEW c, Become(t, c), c # Idle, c.item \in Items, CallMine(c, {c.item}, d), Fits(c, d)
      PROVE  SyncInv'
  <2>1. PICK S \in SUBSET Items : S = {c.item} /\ S = IF c = Idle THEN {} ELSE {c.item}
    BY <1>3
  <2>2. QED
    BY <1>2, <1>3, <2>1, SyncBecome
<1>5. CASE ReserveRefuse(t)
  <2>1. Become(t, Idle) /\ {} = IF Idle = Idle THEN {} ELSE {Idle.item}
    BY <1>5 DEF ReserveRefuse
  <2>2. CallMine(Idle, {}, d) /\ Fits(Idle, d)
    BY IdleFits
  <2>3. QED
    BY <1>2, <2>1, <2>2, SyncBecome
<1>6. CASE CancelBegin(t)
  <2>1. PICK c : c = [call[t] EXCEPT !.op = "cancel"] /\ Become(t, c)
    BY <1>6 DEF CancelBegin
  <2>2. call[t].op = "cancel-wait"
    BY <1>6 DEF CancelBegin
  <2>3. call[t] \in [op : {"cancel-wait", "cancel"}, order : OrderIds, item : Items,
                     qty : Nat \ {0}, status : Statuses]
    BY <2>2, CallFields
  <2>4. /\ c.op = "cancel" /\ c.order = call[t].order /\ c.item = call[t].item
        /\ c.status = call[t].status /\ c.item \in Items
    BY <2>1, <2>3
  <2>5. c # Idle /\ call[t] # Idle
    BY <2>2, <2>4 DEF Idle
  <2>6. CallMine(call[t], {c.item}, d) /\ Fits(call[t], d)
    BY <1>2, <2>4, <2>5, TouchesType DEF SyncInv
  <2>7. CallMine(c, {c.item}, d) /\ Fits(c, d)
    BY <2>2, <2>4, <2>6 DEF CallMine, Fits
  <2>8. QED
    BY <1>3, <2>1, <2>4, <2>5, <2>7
<1>7. CASE Request(t)
  \* the order of a request is as the log has it
  <2>3. ASSUME NEW o \in OrderIds, NEW c, Become(t, c), c # Idle, c.item = view.order[o].item,
               NEW sts, view.order[o].status \in sts, "none" \notin sts
        PROVE  /\ d.order[o] = view.order[o] /\ d.order[o] # NoOrder
               /\ d.order[o].item = c.item /\ c.item \in Items /\ d.order[o].status \in sts
    <3>1. view.order[o] # NoOrder
      BY <2>3, NoOrderIsNone
    <3>2. c.item \in Items
      BY <1>0, <2>3, <3>1 DEF View, Order
    <3>3. d.order[o] = view.order[o]
      BY <1>2, <1>7, <2>3, <3>1, <3>2, FreshRead
    <3>4. QED
      BY <2>3, <3>1, <3>2, <3>3
  <2>4. ASSUME NEW o \in OrderIds, NEW i \in Items, NEW q \in Qtys, ReserveBegin(t, o, i, q)
        PROVE  SyncInv'
    <3>1. PICK c : c = [op |-> "reserve", order |-> o, item |-> i, qty |-> q] /\ Become(t, c)
      BY <2>4 DEF ReserveBegin
    <3>2. c # Idle /\ c.item = i /\ CallMine(c, {c.item}, d) /\ Fits(c, d)
      BY <3>1 DEF CallMine, Fits, Idle
    <3>3. QED
      BY <1>3, <3>1, <3>2
  <2>5. ASSUME NEW i \in Items, TeachBegin(t, i)
        PROVE  SyncInv'
    <3>1. PICK c : c = [op |-> "teach", item |-> i] /\ Become(t, c)
      BY <2>5 DEF TeachBegin
    <3>2. c # Idle /\ c.item = i /\ CallMine(c, {c.item}, d) /\ Fits(c, d)
      BY <3>1 DEF CallMine, Fits, Idle
    <3>3. QED
      BY <1>3, <3>1, <3>2
  <2>6. ASSUME NEW o \in OrderIds, CancelRead(t, o)
        PROVE  SyncInv'
    <3>1. PICK c : /\ c = [op |-> "cancel-wait", order |-> o, item |-> view.order[o].item,
                           qty |-> view.order[o].qty, status |-> view.order[o].status]
                   /\ Become(t, c)
      BY <2>6 DEF CancelRead
    <3>2. c # Idle /\ c.op = "cancel-wait" /\ c.order = o /\ c.item = view.order[o].item
          /\ c.status = view.order[o].status
      BY <3>1 DEF Idle
    <3>3. view.order[o].status \in {"reserved", "paid"}
      BY <2>6 DEF CancelRead, Cancellable
    <3>4. /\ d.order[o] = view.order[o] /\ d.order[o].item = c.item /\ c.item \in Items
          /\ d.order[o].status \in {"reserved", "paid"}
      BY <2>3, <3>1, <3>2, <3>3
    <3>5. CallMine(c, {c.item}, d) /\ Fits(c, d)
      BY <3>2, <3>4 DEF CallMine, Fits
    <3>6. QED
      BY <1>3, <3>1, <3>2, <3>4, <3>5
  <2>7. ASSUME NEW i \in Items, NEW e, Become(t, Emitting(i, <<e>>)), Mine(e, {i}, d),
               e.type = "order_paid" => d.order[e.order].status \in {"reserved", "paid"},
               e.type = "order_packed" => d.order[e.order].status = "paid"
        PROVE  SyncInv'
    <3>1. PICK c : c = Emitting(i, <<e>>)
      OBVIOUS
    <3>2. c # Idle /\ c.op = "emit" /\ c.item = i /\ c.todo = <<e>>
      BY <3>1 DEF Emitting, Idle
    <3>3. CallMine(c, {c.item}, d) /\ Fits(c, d)
      BY <2>7, <3>2 DEF CallMine, Fits
    <3>4. QED
      BY <1>3, <2>7, <3>1, <3>2, <3>3
  <2>8. ASSUME NEW o \in OrderIds, NEW s \in Sessions, MarkPaidRead(t, o, s)
        PROVE  SyncInv'
    <3>1. PICK i, e : i = view.order[o].item /\ e = OrderPaid(o, s) /\ Become(t, Emitting(i, <<e>>))
      BY <2>8 DEF MarkPaidRead
    <3>2. PICK c : c = Emitting(i, <<e>>)
      OBVIOUS
    <3>a. c # Idle /\ c.item = i
      BY <3>2 DEF Emitting, Idle
    <3>3. view.order[o].status \in {"reserved", "paid"}
      BY <2>8 DEF MarkPaidRead, Payable
    <3>4. /\ d.order[o] # NoOrder /\ d.order[o].item = i /\ i \in Items
          /\ d.order[o].status \in {"reserved", "paid"}
      BY <2>3, <3>1, <3>2, <3>a, <3>3
    <3>5. e.type = "order_paid" /\ e.order = o
      BY <3>1 DEF OrderPaid
    <3>6. Mine(e, {i}, d)
      BY <3>4, <3>5 DEF Mine
    <3>7. QED
      BY <2>7, <3>1, <3>4, <3>5, <3>6
  <2>9. ASSUME NEW o \in OrderIds, MarkPackedRead(t, o)
        PROVE  SyncInv'
    <3>1. PICK i, e : i = view.order[o].item /\ e = OrderPacked(o) /\ Become(t, Emitting(i, <<e>>))
      BY <2>9 DEF MarkPackedRead
    <3>2. PICK c : c = Emitting(i, <<e>>)
      OBVIOUS
    <3>a. c # Idle /\ c.item = i
      BY <3>2 DEF Emitting, Idle
    <3>3. view.order[o].status \in {"paid"}
      BY <2>9 DEF MarkPackedRead, Packable
    <3>4. d.order[o] # NoOrder /\ d.order[o].item = i /\ i \in Items /\ d.order[o].status = "paid"
      BY <2>3, <3>1, <3>2, <3>a, <3>3
    <3>5. e.type = "order_packed" /\ e.order = o
      BY <3>1 DEF OrderPacked
    <3>6. Mine(e, {i}, d)
      BY <3>4, <3>5 DEF Mine
    <3>7. QED
      BY <2>7, <3>1, <3>4, <3>5, <3>6
  <2>10. ASSUME NEW i \in Items, SetActiveRead(t, i)
        PROVE  SyncInv'
    <3>1. PICK e : e = ActiveItemSet(i) /\ Become(t, Emitting(i, <<e>>))
      BY <2>10 DEF SetActiveRead
    <3>2. e.type = "active_item_set"
      BY <3>1 DEF ActiveItemSet
    <3>3. Mine(e, {i}, d)
      BY <3>2 DEF Mine, Moves
    <3>4. QED
      BY <2>7, <3>1, <3>2, <3>3
  <2>11. ASSUME NEW i \in Items, NEW n \in Counts, NEW src \in Sources, ReconcileRead(t, i, n, src)
        PROVE  SyncInv'
    <3>1. PICK es : es = IF Descends(i, n) THEN << CountSet(i, n, src), StockLow(i, n) >>
                         ELSE << CountSet(i, n, src) >>
      OBVIOUS
    <3>2. PICK c : Become(t, c) /\ c = Emitting(i, es)
      BY <2>11, <3>1 DEF ReconcileRead
    <3>3. \A e \in {CountSet(i, n, src), StockLow(i, n)} :
            e.type \in {"count_set", "stock_low"} /\ e.item = i
      BY DEF CountSet, StockLow
    <3>4. \A k \in DOMAIN es : es[k] \in {CountSet(i, n, src), StockLow(i, n)}
      BY <3>1
    <3>5. \A k \in DOMAIN es : /\ Mine(es[k], {i}, d)
                               /\ es[k].type \notin {"order_paid", "order_packed"}
      BY <3>3, <3>4 DEF Mine, Moves
    <3>6. c # Idle /\ c.op = "emit" /\ c.item = i /\ c.todo = es
      BY <3>2 DEF Emitting, Idle
    <3>7. CallMine(c, {c.item}, d) /\ Fits(c, d)
      BY <3>5, <3>6 DEF CallMine, Fits
    <3>8. QED
      BY <1>3, <3>2, <3>6, <3>7
  <2>12. QED
    BY <1>7, <2>4, <2>5, <2>6, <2>8, <2>9, <2>10, <2>11 DEF Request
<1>8. CASE Seed /\ t = Main
  BY <1>8 DEF Seed
<1>9. QED
  BY <1>5, <1>6, <1>7, <1>8 DEF Turns

LEMMA SyncStep ==
  ASSUME Orderly, Orderly', TypeOK, BootInv, RootInv, SyncInv, [Next]_vars
  PROVE  SyncInv'
<1>1. CASE phase = "up" /\ \E t \in Threads : \E es \in Seq(Event) : \E rest : Appends(t, es, rest)
  BY <1>1, SyncAppend
<1>2. CASE phase = "up" /\ \E t \in Threads : Notify(t)
  BY <1>2, SyncNotify
<1>3. CASE phase = "up" /\ \E t \in Threads : Turns(t)
  BY <1>3, SyncTurns
<1>4. CASE phase # "up" /\ \/ \E t \in Threads : \E es \in Seq(Event) : \E rest : Appends(t, es, rest)
                           \/ \E t \in Threads : Notify(t)
                           \/ \E t \in Threads : Turns(t)
  <2>1. phase' = phase
    BY <1>4 DEF Appends, Notify, Turns, Booted
  <2>2. QED
    BY <1>4, <2>1 DEF SyncInv
<1>5. CASE Hydrate \/ Crash
  <2>1. phase' # "up"
    BY <1>5 DEF Hydrate, Crash
  <2>2. QED
    BY <2>1 DEF SyncInv
<1>6. CASE Serve
  <2>1. /\ phase = "seed" /\ call[Main] = Idle /\ UNCHANGED <<log, view, outbox, replays, call>>
    BY <1>6 DEF Serve, storeVars
  <2>2. \A t \in Threads : outbox[t] = <<>> /\ call[t] = Idle
    BY <2>1 DEF BootInv, PhaseInv, Silent, Idle
  <2>3. PICK d : d = Durable /\ d = view /\ d = Durable'
    BY <2>1, <2>2, BootedView, StallAssumption DEF Durable
  <2>4. \A S : SameOn(d, d, S)
    BY DEF SameOn, Same
  <2>5. \A S : Caught(<<>>, log, view, d, S)
    BY <2>3, <2>4 DEF Caught
  <2>6. QED
    BY <2>1, <2>2, <2>3, <2>4, <2>5, IdleFits DEF SyncInv
<1>7. CASE UNCHANGED vars
  <2>1. UNCHANGED <<log, replays, view, outbox, phase, call>>
    BY <1>7 DEF vars, storeVars
  <2>2. Durable' = Durable /\ Unowned' = Unowned /\ \A t \in Threads : Touches(t)' = Touches(t)
    BY <2>1 DEF Durable, Unowned, Touches
  <2>3. QED
    BY <2>1, <2>2 DEF SyncInv
<1>8. QED
  BY <1>1, <1>2, <1>3, <1>4, <1>5, <1>6, <1>7, StepKinds

LEMMA SyncCorrect == OrderlySpec => []SyncInv
<1>1. Init => SyncInv
  BY DEF Init, SyncInv
<1>2. Orderly /\ Orderly' /\ TypeOK /\ BootInv /\ RootInv /\ SyncInv /\ [Next]_vars => SyncInv'
  BY SyncStep
<1>3. QED
  BY <1>1, <1>2, OrderlyMeans, TypeCorrect, BootCorrect, RootCorrect, PTL DEF Spec

\* However many threads there are, and however they share the items, as long as no two
\* calls about one item overlap: what the dashboard and the phone agent read of an item
\* nobody works on is what a replay of the log gives, while the other threads are in the
\* middle of their calls (docs/architecture.md:439-445).
THEOREM RestingIsReplay == OrderlySpec => []RestingViewIsReplay
<1>1. TypeOK /\ SyncInv => RestingViewIsReplay
  <2> SUFFICES ASSUME TypeOK, SyncInv, NEW i \in Items, AtRest(i)
               PROVE  /\ i \in view.items <=> i \in Durable.items
                      /\ view.count[i] = Durable.count[i]
                      /\ \A o \in OrderIds :
                           \A seen \in {view.order[o], Durable.order[o]} :
                             seen # NoOrder /\ seen.item = i => view.order[o] = Durable.order[o]
    BY DEF RestingViewIsReplay
  <2>1. Same(view, Durable, i)
    BY DEF AtRest, Unowned, SyncInv, SameOn
  <2>2. QED
    BY <2>1 DEF Same, Of
<1>2. QED
  BY <1>1, OrderlyMeans, TypeCorrect, SyncCorrect, PTL

-----------------------------------------------------------------------------
(* What one call does to the shop. *)

SameShop(v, w) == v.items = w.items /\ v.count = w.count /\ v.order = w.order

Teaches(d, w, i) ==
  /\ i \notin d.items
  /\ w.items = d.items \cup {i} /\ w.order = d.order
  /\ w.count = [d.count EXCEPT ![i] = SeedCount[i]]

Takes(d, w, o, i, q) ==
  /\ d.order[o] = NoOrder /\ i \in d.items /\ q <= d.count[i]
  /\ w.items = d.items
  /\ w.count = [d.count EXCEPT ![i] = d.count[i] - q]
  /\ w.order = [d.order EXCEPT ![o] =
       [status |-> "reserved", item |-> i, qty |-> q, session |-> NoSession]]

\* An order is paid, paid again, packed or cancelled.
MovesOn(d, w, o, st, s) ==
  /\ d.order[o] \in Order /\ d.order[o].item \in d.items
  /\ <<d.order[o].status, st>> \in Lifecycle \cup {<<"paid", "paid">>}
  /\ IF st = "paid" THEN s \in Sessions ELSE s = d.order[o].session
  /\ w.items = d.items
  /\ w.order = [d.order EXCEPT ![o] = [d.order[o] EXCEPT !.status = st, !.session = s]]
  /\ w.count = IF st = "cancelled" /\ d.order[o].status = "reserved"
               THEN [d.count EXCEPT ![d.order[o].item] =
                       d.count[d.order[o].item] + d.order[o].qty]
               ELSE d.count

\* Anything but a recount.
ShopStep(d, w) ==
  \/ SameShop(w, d)
  \/ \E i \in Items : Teaches(d, w, i)
  \/ \E o \in OrderIds, i \in Items, q \in Nat \ {0} : Takes(d, w, o, i, q)
  \/ \E o \in OrderIds, st \in {"paid", "packed", "cancelled"}, s \in Sessions \cup {NoSession} :
       MovesOn(d, w, o, st, s)

RecountStep(d, w) ==
  \E i \in d.items, n \in Nat :
    w.items = d.items /\ w.order = d.order /\ w.count = [d.count EXCEPT ![i] = n]

\* Nothing is appended before the boot seeds, and nothing but defaults while it does.
LEMMA WhoAppends ==
  ASSUME TypeOK, BootInv, RootInv, NEW t \in Threads, NEW es, NEW rest, Appends(t, es, rest)
  PROVE  phase = "up" \/ call[t].op = "teach"
<1>1. phase \in {"hydrate", "seed", "up"}
  BY DEF TypeOK
<1>2. call[t].op # "idle" /\ (call[t].op = "emit" => call[t].todo # <<>>)
  BY DEF Appends, Source
<1>3. phase # "up" => phase = "seed" /\ t = Main
  BY <1>1, <1>2 DEF BootInv, PhaseInv, Silent, Idle
<1>4. phase # "up" => call[t].op \in {"teach", "emit"} /\ (call[t].op = "emit" => call[t].todo = <<>>)
  BY <1>2, <1>3 DEF RootInv, SeedsOnly
<1>5. QED
  BY <1>2, <1>4

\* A single event that nothing contradicts.
LEMMA SingleShop ==
  ASSUME NEW d \in View, NEW e \in Singles, NEW w, w = Apply(d, e), Anchored(d, e),
         e.type = "order_paid" => d.order[e.order].status \in {"reserved", "paid"},
         e.type = "order_packed" => d.order[e.order].status = "paid", Placed(d)
  PROVE  IF e.type = "count_set" THEN RecountStep(d, w) ELSE ShopStep(d, w)
<1>1. e \in Event /\ e.type \in {"active_item_set", "stock_low", "count_set", "order_paid", "order_packed"}
  BY DEF Singles, Event, CatalogEvent, OrderEvent
<1>2. CASE e.type \in {"active_item_set", "stock_low"}
  BY <1>1, <1>2, OtherEffect DEF ShopStep, SameShop
<1>3. CASE e.type = "count_set"
  <2>1. PICK i \in Items, n \in Nat, src \in Sources : e = CountSet(i, n, src)
    BY <1>1, <1>3 DEF Event, CatalogEvent, OrderEvent, CountSet
  <2>2. i \in d.items
    BY <1>3, <2>1 DEF Anchored, CountSet
  <2>3. w.items = d.items /\ w.order = d.order /\ w.count = [d.count EXCEPT ![i] = n]
    BY <2>1, <2>2, CountSetEffect
  <2>4. QED
    BY <1>3, <2>2, <2>3 DEF RecountStep
<1>4. CASE e.type \in {"order_paid", "order_packed"}
  <2>1. e.order \in OrderIds /\ d.order[e.order] # NoOrder /\ e.type \in Moves
    BY <1>1, <1>4 DEF Anchored, Moves
  <2>2. PICK o \in OrderIds, ord \in Order : o = e.order /\ ord = d.order[o]
    BY <2>1 DEF View
  <2>3. PICK st \in {"paid", "packed"}, s \in Sessions \cup {NoSession} :
          /\ MovedTo(ord, e) = [ord EXCEPT !.status = st, !.session = s]
          /\ IF st = "paid" THEN s \in Sessions ELSE s = ord.session
          /\ <<ord.status, st>> \in Lifecycle \cup {<<"paid", "paid">>}
    <3>1. CASE e.type = "order_paid"
      <4>1. MovedTo(ord, e) = [ord EXCEPT !.status = "paid", !.session = e.session] /\ e.session \in Sessions
        BY <1>1, <3>1, EventFields DEF MovedTo
      <4>2. <<ord.status, "paid">> \in Lifecycle \cup {<<"paid", "paid">>}
        BY <2>2, <3>1 DEF Lifecycle
      <4>3. QED
        BY <4>1, <4>2
    <3>2. CASE e.type = "order_packed"
      <4>1. MovedTo(ord, e) = [ord EXCEPT !.status = "packed", !.session = ord.session]
            /\ ord.session \in Sessions \cup {NoSession}
        BY <3>2 DEF MovedTo, Order
      <4>2. <<ord.status, "packed">> \in Lifecycle \cup {<<"paid", "paid">>}
        BY <2>2, <3>2 DEF Lifecycle
      <4>3. QED
        BY <4>1, <4>2
    <3>3. QED
      BY <1>4, <3>1, <3>2
  <2>4. /\ w.items = d.items /\ w.count = d.count
        /\ w.order = [d.order EXCEPT ![o] = MovedTo(ord, e)]
    BY <1>1, <2>1, <2>2, MoveEffect
  <2>5. ord.item \in d.items
    BY <2>1, <2>2 DEF Placed
  <2>6. MovesOn(d, w, o, st, s)
    BY <2>2, <2>3, <2>4, <2>5 DEF MovesOn
  <2>7. ShopStep(d, w)
    BY <2>2, <2>3, <2>6 DEF ShopStep
  <2>8. QED
    BY <1>4, <2>7
<1>5. QED
  BY <1>1, <1>2, <1>3, <1>4

\* Every append is one step of the shop; only a recount is appended one by one.
LEMMA AppendShop ==
  ASSUME TypeOK, BootInv, RootInv, SyncInv, NEW t \in Threads, NEW es, NEW rest,
         Appends(t, es, rest), NEW d, d = Durable, NEW w, w = Durable'
  PROVE  \/ ShopStep(d, w)
         \/ /\ RecountStep(d, w) /\ call[t].op = "emit" /\ call[t].todo # <<>>
            /\ Head(call[t].todo).type = "count_set"
<1>0. /\ es \in Seq(Event) /\ Record(es) /\ Len(es) \in {1, 2} /\ Source(t, es, rest)
      /\ d \in View /\ view \in View /\ Rooted(view, d) /\ Placed(d) /\ CallRooted(call[t], d)
      /\ outbox[t] = <<>>
  BY DurableType DEF Appends, RootInv, TypeOK, StoreTypeOK
<1>1. /\ (Len(es) = 1 => w = Apply(d, es[1]))
      /\ (Len(es) = 2 => w = Apply(Apply(d, es[1]), es[2]))
  BY <1>0, DurableStep
<1>2. ASSUME call[t].op # "teach"
      PROVE  SameOn(view, d, Touches(t)) /\ CallMine(call[t], Touches(t), d) /\ Fits(call[t], d)
  <2>1. phase = "up"
    BY <1>2, WhoAppends
  <2>2. Caught(<<>>, log, view, d, Touches(t)) /\ CallMine(call[t], Touches(t), d) /\ Fits(call[t], d)
    BY <1>0, <2>1 DEF SyncInv
  <2>3. \A m, n : <<>> # <<m>> /\ <<>> # <<m, n>>
    OBVIOUS
  <2>4. QED
    BY <2>2, <2>3 DEF Caught
<1>3. CASE call[t].op = "emit"
  <2>1. call[t].todo \in Seq(Singles) /\ call[t].todo # <<>> /\ es = <<Head(call[t].todo)>>
    BY <1>0, <1>3, CallFields DEF Source
  <2>2. Head(call[t].todo) = call[t].todo[1] /\ 1 \in DOMAIN call[t].todo /\ Head(call[t].todo) \in Singles
    BY <2>1, HeadTailProperties, EmptySeq, LenProperties
  <2>3. PICK e \in Singles : e = Head(call[t].todo)
    BY <2>2
  <2>4. es = <<e>>
    BY <2>1, <2>3
  <2>5. w = Apply(d, e)
    BY <1>1, <2>4
  <2>6. Anchored(d, e)
    BY <1>0, <1>3, <2>2, <2>3 DEF CallRooted
  <2>7. /\ e.type = "order_paid" => d.order[e.order].status \in {"reserved", "paid"}
        /\ e.type = "order_packed" => d.order[e.order].status = "paid"
    BY <1>2, <1>3, <2>2, <2>3 DEF Fits
  <2>8. IF e.type = "count_set" THEN RecountStep(d, w) ELSE ShopStep(d, w)
    BY <1>0, <2>5, <2>6, <2>7, SingleShop
  <2>9. QED
    BY <1>3, <2>1, <2>3, <2>8
<1>4. CASE call[t].op = "reserve"
  <2>1. PICK o \in OrderIds, i \in Items, q \in Nat \ {0} :
          o = call[t].order /\ i = call[t].item /\ q = call[t].qty
    BY <1>4, CallFields
  <2>2. PICK n : n = view.count[i] - q
    OBVIOUS
  <2>3. /\ i \in view.items /\ view.count[i] >= q
        /\ es = << OrderReserved(o, i, q), CountSet(i, n, "manual") >>
    BY <1>0, <1>4, <2>1, <2>2 DEF Source, CanReserve
  <2>4. /\ i \in d.items /\ d.count[i] = view.count[i] /\ d.order[o] = NoOrder /\ d.count[i] \in Nat
    <3>1. Same(view, d, i) /\ d.order[o] = NoOrder
      BY <1>0, <1>2, <1>4, <2>1 DEF SameOn, CallMine, CallRooted
    <3>2. d.count[i] \in Nat
      BY <1>0 DEF View
    <3>3. QED
      BY <2>3, <3>1, <3>2 DEF Same
  <2>5. n \in Nat /\ n = d.count[i] - q /\ q <= d.count[i]
    BY <2>2, <2>3, <2>4
  <2>6. PICK a \in View : a = Apply(d, OrderReserved(o, i, q))
    BY <1>0, ApplyType, EventTypes
  <2>7. w = Apply(a, CountSet(i, n, "manual"))
    BY <1>1, <2>3, <2>6
  <2>8. /\ a.items = d.items /\ a.count = d.count
        /\ a.order = [d.order EXCEPT ![o] =
              [status |-> "reserved", item |-> i, qty |-> q, session |-> NoSession]]
    BY <1>0, <2>6, OrderReservedEffect
  <2>9. w.items = a.items /\ w.order = a.order /\ w.count = [a.count EXCEPT ![i] = n]
    BY <2>4, <2>5, <2>7, <2>8, CountSetEffect DEF Sources
  <2>10. Takes(d, w, o, i, q)
    BY <2>4, <2>5, <2>8, <2>9 DEF Takes
  <2>11. QED
    BY <2>10 DEF ShopStep
<1>5. CASE call[t].op = "cancel"
  <2>1. PICK o \in OrderIds, i \in Items, q \in Nat \ {0} :
          o = call[t].order /\ i = call[t].item /\ q = call[t].qty
    BY <1>5, CallFields
  <2>2. /\ d.order[o] # NoOrder /\ d.order[o].item = i /\ d.order[o].qty = q
        /\ d.order[o].status = call[t].status /\ call[t].status \in {"reserved", "paid"}
        /\ i \in Touches(t) /\ i \in d.items
    BY <1>0, <1>2, <1>5, <2>1 DEF CallRooted, Fits, CallMine, Placed
  <2>3. PICK ord \in Order : ord = d.order[o]
    BY <1>0, <2>2 DEF View
  <2>4. i \in view.items /\ view.count[i] = d.count[i] /\ d.count[i] \in Nat
    <3>1. Same(view, d, i)
      BY <1>2, <1>5, <2>2 DEF SameOn
    <3>2. d.count[i] \in Nat
      BY <1>0 DEF View
    <3>3. QED
      BY <2>2, <3>1, <3>2 DEF Same
  <2>5. PICK c \in Event : c = OrderCancelled(o)
    BY EventTypes
  <2>6. c.type = "order_cancelled" /\ c.order = o
    BY <2>5 DEF OrderCancelled
  <2>7. ASSUME NEW a \in View, a.order = d.order, w = Apply(a, c)
        PROVE  /\ w.items = a.items /\ w.count = a.count
               /\ w.order = [d.order EXCEPT ![o] = [ord EXCEPT !.status = "cancelled", !.session = ord.session]]
    <3>1. /\ w.items = a.items /\ w.count = a.count
          /\ w.order = [a.order EXCEPT ![o] = MovedTo(a.order[o], c)]
      BY <2>2, <2>6, <2>7, MoveEffect DEF Moves
    <3>2. MovedTo(ord, c) = [ord EXCEPT !.status = "cancelled", !.session = ord.session]
      BY <2>6 DEF MovedTo
    <3>3. QED
      BY <2>3, <2>7, <3>1, <3>2
  <2>8. ord.session \in Sessions \cup {NoSession} /\ <<ord.status, "cancelled">> \in Lifecycle
    BY <2>2, <2>3 DEF Order, Lifecycle
  <2>9. CASE call[t].status = "reserved"
    <3>1. PICK n \in Nat : n = d.count[i] + q
      BY <2>4
    <3>2. es = << CountSet(i, n, "manual"), c >>
      BY <1>0, <1>5, <2>1, <2>4, <2>5, <2>9, <3>1 DEF Source, CancelEvents
    <3>3. PICK a \in View : a = Apply(d, CountSet(i, n, "manual"))
      BY <1>0, ApplyType, EventTypes DEF Sources
    <3>4. a.items = d.items /\ a.order = d.order /\ a.count = [d.count EXCEPT ![i] = n]
      BY <1>0, <2>2, <3>3, CountSetEffect DEF Sources
    <3>5. w = Apply(a, c)
      BY <1>1, <3>2, <3>3
    <3>6. /\ w.items = d.items /\ w.count = [d.count EXCEPT ![i] = n]
          /\ w.order = [d.order EXCEPT ![o] = [ord EXCEPT !.status = "cancelled", !.session = ord.session]]
      BY <2>7, <3>4, <3>5
    <3>7. ord.status = "reserved" /\ ord.item = i /\ ord.qty = q
      BY <2>2, <2>3, <2>9
    <3>8. MovesOn(d, w, o, "cancelled", ord.session)
      BY <2>2, <2>3, <2>8, <3>1, <3>6, <3>7 DEF MovesOn
    <3>9. QED
      BY <2>8, <3>8 DEF ShopStep
  <2>10. CASE call[t].status = "paid"
    <3>1. es = << c >>
      BY <1>0, <1>5, <2>1, <2>5, <2>10 DEF Source, CancelEvents
    <3>2. w = Apply(d, c)
      BY <1>1, <3>1
    <3>3. /\ w.items = d.items /\ w.count = d.count
          /\ w.order = [d.order EXCEPT ![o] = [ord EXCEPT !.status = "cancelled", !.session = ord.session]]
      BY <1>0, <2>7, <3>2
    <3>4. ord.status = "paid"
      BY <2>2, <2>3, <2>10
    <3>5. MovesOn(d, w, o, "cancelled", ord.session)
      BY <2>2, <2>3, <2>8, <3>3, <3>4 DEF MovesOn
    <3>6. QED
      BY <2>8, <3>5 DEF ShopStep
  <2>11. QED
    BY <2>2, <2>9, <2>10
<1>6. CASE call[t].op = "teach"
  <2>1. PICK i \in Items : i = call[t].item
    BY <1>6, CallFields
  <2>2. i \notin d.items /\ SeedCount[i] \in Nat
    BY <1>0, <1>6, <2>1, StallAssumption DEF CallRooted
  <2>3. es = << ItemTaught(i, SeedCount[i]), ActiveItemSet(i) >>
    BY <1>0, <1>6, <2>1 DEF Source
  <2>4. PICK a \in View : a = Apply(d, ItemTaught(i, SeedCount[i]))
    BY <1>0, <2>2, ApplyType, EventTypes
  <2>5. PICK c \in Event : c = ActiveItemSet(i)
    BY EventTypes
  <2>6. w = Apply(a, c) /\ c.type = "active_item_set"
    BY <1>1, <2>3, <2>4, <2>5 DEF ActiveItemSet
  <2>7. a.items = d.items \cup {i} /\ a.order = d.order /\ a.count = [d.count EXCEPT ![i] = SeedCount[i]]
    BY <1>0, <2>2, <2>4, ItemTaughtEffect
  <2>8. w.items = a.items /\ w.order = a.order /\ w.count = a.count
    BY <2>6, OtherEffect
  <2>9. Teaches(d, w, i)
    BY <2>2, <2>7, <2>8 DEF Teaches
  <2>10. QED
    BY <2>9 DEF ShopStep
<1>7. QED
  BY <1>0, <1>3, <1>4, <1>5, <1>6 DEF Source

\* What the log says changes by one step of the shop or not at all.
LEMMA StepShop ==
  ASSUME TypeOK, BootInv, RootInv, SyncInv, [Next]_vars, NEW d, d = Durable, NEW w, w = Durable'
  PROVE  w = d \/ ShopStep(d, w) \/ RecountStep(d, w)
<1>1. CASE \E t \in Threads : \E es \in Seq(Event) : \E rest : Appends(t, es, rest)
  BY <1>1, AppendShop
<1>2. CASE (\E t \in Threads : Notify(t)) \/ (\E t \in Threads : Turns(t))
  <2>1. replays' = replays
    BY <1>2 DEF Notify, StoreNotify, Turns
  <2>2. QED
    BY <2>1 DEF Durable
<1>3. CASE Hydrate \/ Serve \/ Crash \/ UNCHANGED vars
  <2>1. replays' = replays
    BY <1>3 DEF Hydrate, Serve, Crash, StoreCrash, vars, storeVars
  <2>2. QED
    BY <2>1 DEF Durable
<1>4. QED
  BY <1>1, <1>2, <1>3, StepKinds

\* However many threads there are, and however they share the items, as long as no two
\* calls about one item overlap: every call is one atomic step on the true stock and the
\* true orders, although its events are appended and delivered in several, and a crash or
\* a restart is none (orders.py, inventory.py, teach.py).
THEOREM StallImplementsLedger == OrderlySpec => ImplementsLedger
<1>1. Init => LedgerOfLog!Init
  <2> SUFFICES ASSUME Init PROVE LedgerOfLog!Init
    OBVIOUS
  <2>1. Durable = EmptyView
    BY DEF Init, StoreInit, Durable
  <2>2. QED
    BY <2>1 DEF LedgerOfLog!Init, EmptyView, NoOrder
<1>2. TypeOK /\ BootInv /\ RootInv /\ SyncInv /\ [Next]_vars => [LedgerOfLog!Next]_(LedgerOfLog!vars)
  <2> SUFFICES ASSUME TypeOK, BootInv, RootInv, SyncInv, [Next]_vars
               PROVE  [LedgerOfLog!Next]_(LedgerOfLog!vars)
    OBVIOUS
  <2>1. PICK d, w : d = Durable /\ w = Durable'
    OBVIOUS
  <2>2. d \in View
    BY <2>1, DurableType
  <2>3. CASE w = d \/ SameShop(w, d)
    BY <2>1, <2>3 DEF LedgerOfLog!vars, SameShop
  <2>4. ASSUME NEW i \in Items, Teaches(d, w, i) PROVE LedgerOfLog!Teach(i)
    <3>1. d.count \in [Items -> Nat] /\ SeedCount[i] \in Nat
      BY <2>2, StallAssumption DEF View
    <3>2. QED
      BY <2>1, <2>4, <3>1 DEF Teaches, LedgerOfLog!Teach, LedgerOfLog!SetStock
  <2>5. ASSUME NEW o \in OrderIds, NEW i \in Items, NEW q \in Nat \ {0}, Takes(d, w, o, i, q)
        PROVE  LedgerOfLog!Reserve(o)
    <3>1. d.order[o].status = "none"
      BY <2>5, NoOrderIsNone DEF Takes
    <3>2. d.count[i] \in Nat /\ d.order \in [OrderIds -> Order \cup {NoOrder}]
      BY <2>2 DEF View
    <3>3. w.order[o] = [status |-> "reserved", item |-> i, qty |-> q, session |-> NoSession]
      BY <2>5, <3>2 DEF Takes
    <3>4. w.order[o].item = i /\ w.order[o].qty = q /\ w.order[o].status = "reserved"
      BY <3>3
    <3>5. q \in 1 .. d.count[i]
      BY <2>5, <3>2 DEF Takes
    <3>6. QED
      BY <2>1, <2>5, <3>1, <3>4, <3>5 DEF Takes, LedgerOfLog!Reserve, LedgerOfLog!SetStock
  <2>6. ASSUME NEW o \in OrderIds, NEW st \in {"paid", "packed", "cancelled"},
               NEW s \in Sessions \cup {NoSession}, MovesOn(d, w, o, st, s)
        PROVE  LedgerOfLog!Pay(o) \/ LedgerOfLog!Pack(o) \/ LedgerOfLog!Cancel(o)
    <3>1. PICK ord \in Order : ord = d.order[o]
      BY <2>6 DEF MovesOn
    <3>2. /\ w.items = d.items /\ w.order = [d.order EXCEPT ![o] = [ord EXCEPT !.status = st, !.session = s]]
          /\ d.order \in [OrderIds -> Order \cup {NoOrder}]
      BY <2>2, <2>6, <3>1 DEF MovesOn, View
    <3>3. CASE st = "paid"
      <4>1. ord.status \in {"reserved", "paid"} /\ s \in Sessions /\ w.count = d.count
        BY <2>6, <3>1, <3>3 DEF MovesOn, Lifecycle
      <4>2. w.order = [d.order EXCEPT ![o].status = "paid", ![o].session = s]
        BY <3>1, <3>2, <3>3
      <4>3. LedgerOfLog!Pay(o)
        BY <2>1, <3>1, <3>2, <4>1, <4>2 DEF LedgerOfLog!Pay
      <4>4. QED
        BY <4>3
    <3>4. CASE st = "packed"
      <4>1. ord.status = "paid" /\ s = ord.session /\ w.count = d.count
        BY <2>6, <3>1, <3>4 DEF MovesOn, Lifecycle
      <4>2. [ord EXCEPT !.status = st, !.session = s] = [ord EXCEPT !.status = "packed"]
        BY <3>4, <4>1 DEF Order
      <4>3. w.order = [d.order EXCEPT ![o].status = "packed"]
        BY <3>1, <3>2, <4>2
      <4>4. LedgerOfLog!Pack(o)
        BY <2>1, <3>1, <3>2, <4>1, <4>3 DEF LedgerOfLog!Pack
      <4>5. QED
        BY <4>4
    <3>5. CASE st = "cancelled"
      <4>1. /\ ord.status \in {"reserved", "paid"} /\ s = ord.session
            /\ w.count = IF ord.status = "reserved"
                         THEN [d.count EXCEPT ![ord.item] = d.count[ord.item] + ord.qty]
                         ELSE d.count
        BY <2>6, <3>1, <3>5 DEF MovesOn, Lifecycle
      <4>2. [ord EXCEPT !.status = st, !.session = s] = [ord EXCEPT !.status = "cancelled"]
        BY <3>5, <4>1 DEF Order
      <4>3. w.order = [d.order EXCEPT ![o].status = "cancelled"]
        BY <3>1, <3>2, <4>2
      <4>4. LedgerOfLog!Cancel(o)
        BY <2>1, <3>1, <3>2, <4>1, <4>3 DEF LedgerOfLog!Cancel, LedgerOfLog!SetStock
      <4>5. QED
        BY <4>4
    <3>6. QED
      BY <3>3, <3>4, <3>5
  <2>7. ASSUME RecountStep(d, w) PROVE \E i \in Items : LedgerOfLog!Recount(i)
    <3>1. PICK i \in d.items, n \in Nat :
            w.items = d.items /\ w.order = d.order /\ w.count = [d.count EXCEPT ![i] = n]
      BY <2>7 DEF RecountStep
    <3>2. i \in Items /\ d.count \in [Items -> Nat]
      BY <2>2 DEF View
    <3>3. LedgerOfLog!Recount(i)
      BY <2>1, <3>1, <3>2 DEF LedgerOfLog!Recount, LedgerOfLog!SetStock
    <3>4. QED
      BY <3>2, <3>3
  <2>8. w = d \/ ShopStep(d, w) \/ RecountStep(d, w)
    BY <2>1, StepShop
  <2>9. QED
    BY <2>3, <2>4, <2>5, <2>6, <2>7, <2>8 DEF ShopStep, LedgerOfLog!Next
<1>3. QED
  BY <1>1, <1>2, OrderlyMeans, TypeCorrect, BootCorrect, RootCorrect, SyncCorrect, PTL
     DEF Spec, ImplementsLedger, LedgerOfLog!Spec

-----------------------------------------------------------------------------
(* Fruit is neither created nor lost. *)

Existing(v) == {o \in OrderIds : v.order[o] # NoOrder}

\* Only an order that was never paid is without a session.
SessionsFit(v) ==
  \A o \in OrderIds :
    /\ v.order[o].status = "reserved" => v.order[o].session = NoSession
    /\ v.order[o].status = "paid" => v.order[o].session \in Sessions

Sound(v) == IsFiniteSet(Existing(v)) /\ SessionsFit(v) /\ Placed(v)

\* Of what there was of the items but J, there is as much as before.
Kept(d, w, J) == \A i \in d.items \ J : Fruit(w, i) = Fruit(d, i)

\* What a set of orders asks for: a number, the same as long as the orders are, and
\* more with another order in it.
LEMMA AskedFacts ==
  ASSUME NEW v \in View, NEW S \in SUBSET Existing(v), IsFiniteSet(Existing(v))
  PROVE  /\ IsFiniteSet(S) /\ Asked(v, S) \in Nat
         /\ \A w \in View : (\A o \in S : w.order[o].qty = v.order[o].qty) => Asked(w, S) = Asked(v, S)
         /\ \A o \in Existing(v) \ S : Asked(v, S \cup {o}) = v.order[o].qty + Asked(v, S)
<1>1. IsFiniteSet(S)
  BY FS_Subset
<1>2. \A o \in Existing(v) : v.order[o].qty \in Nat
  BY DEF Existing, View, Order
<1>3. Asked(v, S) \in Nat
  <2>1. PICK f : f = [o \in S |-> v.order[o].qty]
    OBVIOUS
  <2>2. \A o \in S : f[o] \in Nat
    BY <1>2, <2>1
  <2>3. SumFunctionOnSet(f, S) \in Nat
    BY <1>1, <2>2, SumIsNat
  <2>4. QED
    BY <2>1, <2>3 DEF Asked
<1>4. ASSUME NEW w \in View, \A o \in S : w.order[o].qty = v.order[o].qty
      PROVE  Asked(w, S) = Asked(v, S)
  <2>1. PICK f, g : f = [o \in S |-> v.order[o].qty] /\ g = [o \in S |-> w.order[o].qty]
    OBVIOUS
  <2>2. f = g
    BY <1>4, <2>1
  <2>3. QED
    BY <2>1, <2>2 DEF Asked
<1>5. ASSUME NEW o \in Existing(v) \ S
      PROVE  Asked(v, S \cup {o}) = v.order[o].qty + Asked(v, S)
  <2>1. PICK T : T = S \cup {o}
    OBVIOUS
  <2>2. PICK f, g : f = [p \in S |-> v.order[p].qty] /\ g = [p \in T |-> v.order[p].qty]
    OBVIOUS
  <2>3. (\A p \in S : g[p] \in Nat) /\ g[o] = v.order[o].qty /\ g[o] \in Nat
    BY <1>2, <2>1, <2>2
  <2>4. SumFunctionOnSet(g, S \cup {o}) = g[o] + SumFunctionOnSet(g, S)
    BY <1>1, <1>5, <2>3, SumAdd
  <2>5. \A p \in S : f[p] = g[p]
    BY <2>1, <2>2
  <2>6. SumFunctionOnSet(f, S) = SumFunctionOnSet(g, S)
    BY <1>1, <2>5, SumAgrees
  <2>7. Asked(v, S) = SumFunctionOnSet(f, S) /\ Asked(v, S \cup {o}) = SumFunctionOnSet(g, S \cup {o})
    BY <2>1, <2>2 DEF Asked
  <2>8. QED
    BY <2>3, <2>4, <2>6, <2>7
<1>6. QED
  BY <1>1, <1>3, <1>4, <1>5

LEMMA KeepingExist ==
  ASSUME NEW v, NEW i
  PROVE  Keeping(v, i) \in SUBSET Existing(v)
BY DEF Keeping, Existing

\* An item none of whose orders changed.
LEMMA FruitElsewhere ==
  ASSUME NEW d \in View, NEW w \in View, Sound(d), NEW i \in d.items,
         w.count[i] = d.count[i],
         \A o \in OrderIds : Of(d.order[o], i) \/ Of(w.order[o], i) => w.order[o] = d.order[o]
  PROVE  Fruit(w, i) = Fruit(d, i)
<1>1. Keeping(w, i) = Keeping(d, i)
  BY DEF Keeping, Of
<1>2. \A o \in Keeping(d, i) : w.order[o].qty = d.order[o].qty
  BY DEF Keeping, Of
<1>3. Asked(w, Keeping(d, i)) = Asked(d, Keeping(d, i))
  BY <1>2, KeepingExist, AskedFacts DEF Sound
<1>4. QED
  BY <1>1, <1>3 DEF Fruit

LEMMA FruitTeaches ==
  ASSUME NEW d \in View, NEW w \in View, Sound(d), NEW i \in Items, Teaches(d, w, i)
  PROVE  Sound(w) /\ Kept(d, w, {})
<1>1. /\ w.order = d.order /\ w.items = d.items \cup {i} /\ i \notin d.items
      /\ w.count = [d.count EXCEPT ![i] = SeedCount[i]] /\ d.count \in [Items -> Nat]
  BY DEF Teaches, View
<1>2. IsFiniteSet(Existing(w)) /\ SessionsFit(w) /\ Placed(w)
  BY <1>1 DEF Sound, Existing, SessionsFit, Placed
<1>3. ASSUME NEW j \in d.items PROVE Fruit(w, j) = Fruit(d, j)
  <2>1. w.count[j] = d.count[j]
    BY <1>1, <1>3
  <2>2. \A p \in OrderIds : w.order[p] = d.order[p]
    BY <1>1
  <2>3. QED
    BY <1>3, <2>1, <2>2, FruitElsewhere
<1>4. QED
  BY <1>2, <1>3 DEF Sound, Kept

LEMMA FruitTakes ==
  ASSUME NEW d \in View, NEW w \in View, Sound(d), NEW o \in OrderIds, NEW i \in Items,
         NEW q \in Nat \ {0}, Takes(d, w, o, i, q)
  PROVE  Sound(w) /\ Kept(d, w, {})
<1>1. /\ d.order[o] = NoOrder /\ i \in d.items /\ q <= d.count[i] /\ w.items = d.items
      /\ w.count = [d.count EXCEPT ![i] = d.count[i] - q]
      /\ d.count \in [Items -> Nat] /\ d.order \in [OrderIds -> Order \cup {NoOrder}]
      /\ d.items \subseteq Items
  BY DEF Takes, View
<1>2. PICK r : /\ r = [status |-> "reserved", item |-> i, qty |-> q, session |-> NoSession]
               /\ w.order = [d.order EXCEPT ![o] = r]
  BY DEF Takes
<1>3. w.order[o] = r /\ \A p \in OrderIds : p # o => w.order[p] = d.order[p]
  BY <1>1, <1>2
<1>4. r # NoOrder /\ r.item = i /\ r.qty = q /\ r.status = "reserved" /\ r.session = NoSession
  BY <1>2, NoOrderIsNone
<1>5. Existing(w) = Existing(d) \cup {o}
  BY <1>3, <1>4 DEF Existing
<1>6. IsFiniteSet(Existing(w))
  BY <1>5, FS_AddElement DEF Sound
<1>7. SessionsFit(w) /\ Placed(w)
  BY <1>1, <1>3, <1>4 DEF Sound, SessionsFit, Placed
<1>8. ASSUME NEW j \in d.items, j # i PROVE Fruit(w, j) = Fruit(d, j)
  <2>1. w.count[j] = d.count[j]
    BY <1>1, <1>8
  <2>2. \A p \in OrderIds : Of(d.order[p], j) \/ Of(w.order[p], j) => w.order[p] = d.order[p]
    BY <1>1, <1>3, <1>4, <1>8 DEF Of
  <2>3. QED
    BY <1>8, <2>1, <2>2, FruitElsewhere
<1>9. Fruit(w, i) = Fruit(d, i)
  <2>1. PICK S : S = Keeping(d, i)
    OBVIOUS
  <2>2. Keeping(w, i) = S \cup {o}
    BY <1>1, <1>3, <1>4, <2>1 DEF Keeping, GivenBack
  <2>3. o \notin S /\ S \in SUBSET Existing(d) /\ S \in SUBSET Existing(w) /\ o \in Existing(w) \ S
    BY <1>1, <1>5, <2>1 DEF Keeping, Existing
  <2>4. Asked(w, S \cup {o}) = w.order[o].qty + Asked(w, S)
    BY <1>6, <2>3, AskedFacts
  <2>5. \A p \in S : w.order[p].qty = d.order[p].qty
    BY <1>3, <2>1, <2>3 DEF Keeping
  <2>6. Asked(w, S) = Asked(d, S) /\ Asked(d, S) \in Nat
    BY <2>3, <2>5, AskedFacts DEF Sound
  <2>7. Fruit(d, i) = d.count[i] + Asked(d, S) /\ Fruit(w, i) = w.count[i] + Asked(w, Keeping(w, i))
    BY <2>1 DEF Fruit
  <2>8. d.count[i] \in Nat /\ w.count[i] = d.count[i] - q
    BY <1>1
  <2>9. QED
    BY <1>3, <1>4, <2>2, <2>4, <2>6, <2>7, <2>8
<1>10. QED
  BY <1>6, <1>7, <1>8, <1>9 DEF Sound, Kept

LEMMA FruitMoves ==
  ASSUME NEW d \in View, NEW w \in View, Sound(d), NEW o \in OrderIds,
         NEW st \in {"paid", "packed", "cancelled"}, NEW s \in Sessions \cup {NoSession},
         MovesOn(d, w, o, st, s)
  PROVE  Sound(w) /\ Kept(d, w, {})
<1>1. PICK ord \in Order : ord = d.order[o]
  BY DEF MovesOn
<1>2. PICK r \in Order : r = [ord EXCEPT !.status = st, !.session = s]
  BY DEF Order, Statuses
<1>3. r.status = st /\ r.session = s /\ r.item = ord.item /\ r.qty = ord.qty
  BY <1>2 DEF Order
<1>4. w.order[o] = r /\ \A p \in OrderIds : p # o => w.order[p] = d.order[p]
  BY <1>1, <1>2 DEF MovesOn, View
<1>5. /\ w.items = d.items /\ ord.item \in d.items /\ d.items \subseteq Items
      /\ <<ord.status, st>> \in Lifecycle \cup {<<"paid", "paid">>}
      /\ st = "paid" => s \in Sessions
      /\ st # "paid" => s = ord.session
      /\ d.count \in [Items -> Nat] /\ ord.qty \in Nat
  BY <1>1 DEF MovesOn, View, Order
<1>6. r # NoOrder /\ ord # NoOrder
  BY NoOrderIsNone
<1>7. Existing(w) = Existing(d)
  BY <1>1, <1>4, <1>6 DEF Existing
<1>8. IsFiniteSet(Existing(w)) /\ Placed(w)
  BY <1>1, <1>3, <1>4, <1>5, <1>6, <1>7 DEF Sound, Placed
<1>9. SessionsFit(w)
  BY <1>3, <1>4, <1>5 DEF Sound, SessionsFit
<1>10. /\ ord.status = "reserved" => ord.session = NoSession
       /\ ord.status = "paid" => ord.session \in Sessions
  BY <1>1 DEF Sound, SessionsFit
<1>11. ASSUME NEW j \in d.items, j # ord.item PROVE Fruit(w, j) = Fruit(d, j)
  <2>1. w.count[j] = d.count[j]
    BY <1>1, <1>5, <1>11 DEF MovesOn
  <2>2. \A p \in OrderIds : Of(d.order[p], j) \/ Of(w.order[p], j) => w.order[p] = d.order[p]
    BY <1>1, <1>3, <1>4, <1>11 DEF Of
  <2>3. QED
    BY <1>11, <2>1, <2>2, FruitElsewhere
<1>12. Fruit(w, ord.item) = Fruit(d, ord.item)
  <2>1. PICK i : i = ord.item
    OBVIOUS
  <2>2. PICK S, T : S = Keeping(d, i) /\ T = Keeping(w, i)
    OBVIOUS
  <2>3. /\ S \in SUBSET Existing(d) /\ T \in SUBSET Existing(d)
        /\ \A p \in Existing(d) : w.order[p].qty = d.order[p].qty
    <3>1. S \in SUBSET Existing(d) /\ T \in SUBSET Existing(w)
      BY <2>2, KeepingExist
    <3>2. \A p \in Existing(d) : w.order[p].qty = d.order[p].qty
      BY <1>1, <1>3, <1>4 DEF Existing
    <3>3. QED
      BY <1>7, <3>1, <3>2
  <2>4. Asked(w, T) = Asked(d, T) /\ Asked(d, T) \in Nat /\ Asked(d, S) \in Nat
    BY <2>3, AskedFacts DEF Sound
  <2>5. /\ Fruit(d, i) = d.count[i] + Asked(d, S) /\ Fruit(w, i) = w.count[i] + Asked(w, T)
        /\ i \in Items /\ d.count[i] \in Nat
    BY <1>5, <2>1, <2>2 DEF Fruit
  <2>6. \A p \in OrderIds : p # o => (p \in T <=> p \in S)
    BY <1>4, <2>2 DEF Keeping
  <2>7. o \in S
    <3>1. ord.status # "cancelled"
      BY <1>5 DEF Lifecycle
    <3>2. QED
      BY <1>1, <1>6, <2>1, <2>2, <3>1 DEF Keeping, GivenBack
  <2>8. o \in T <=> ~(st = "cancelled" /\ s = NoSession)
    BY <1>3, <1>4, <1>6, <2>1, <2>2 DEF Keeping, GivenBack
  <2>9. CASE st = "cancelled" /\ ord.status = "reserved"
    <3>1. T = S \ {o} /\ S = T \cup {o} /\ o \notin T
      <4>1. S \subseteq OrderIds /\ T \subseteq OrderIds
        BY <2>2 DEF Keeping
      <4>2. QED
        BY <1>5, <1>10, <2>6, <2>7, <2>8, <2>9, <4>1
    <3>2. o \in Existing(d) \ T
      BY <2>3, <2>7, <3>1
    <3>3. Asked(d, T \cup {o}) = d.order[o].qty + Asked(d, T)
      BY <2>3, <3>2, AskedFacts DEF Sound
    <3>4. w.count[i] = d.count[i] + ord.qty
      BY <1>1, <1>5, <2>1, <2>5, <2>9 DEF MovesOn
    <3>5. Asked(d, S) = ord.qty + Asked(d, T)
      BY <1>1, <3>1, <3>3
    <3>6. QED
      BY <1>5, <2>1, <2>4, <2>5, <3>4, <3>5
  <2>10. CASE ~(st = "cancelled" /\ ord.status = "reserved")
    <3>1. o \in T
      BY <1>5, <1>10, <2>8, <2>10, SentinelsDiffer DEF Lifecycle
    <3>2. T = S
      <4>1. S \subseteq OrderIds /\ T \subseteq OrderIds
        BY <2>2 DEF Keeping
      <4>2. QED
        BY <2>6, <2>7, <3>1, <4>1
    <3>3. w.count = d.count
      BY <1>1, <2>10 DEF MovesOn
    <3>4. QED
      BY <2>1, <2>2, <2>4, <2>5, <3>2, <3>3
  <2>11. QED
    BY <2>9, <2>10
<1>13. QED
  BY <1>8, <1>9, <1>11, <1>12 DEF Sound, Kept

LEMMA FruitRecounts ==
  ASSUME NEW d \in View, NEW w \in View, Sound(d), NEW i \in Items,
         w.items = d.items, w.order = d.order, \A j \in Items \ {i} : w.count[j] = d.count[j]
  PROVE  Sound(w) /\ Kept(d, w, {i})
<1>1. Sound(w)
  BY DEF Sound, Existing, SessionsFit, Placed
<1>2. ASSUME NEW j \in d.items \ {i} PROVE Fruit(w, j) = Fruit(d, j)
  <2>1. j \in Items /\ w.count[j] = d.count[j] /\ \A p \in OrderIds : w.order[p] = d.order[p]
    BY DEF View
  <2>2. QED
    BY <2>1, FruitElsewhere
<1>3. QED
  BY <1>1, <1>2 DEF Kept

\* What a call is after it begins, waits or gives up: nothing to append one by one but
\* one event that is no recount, or a recount.
LEMMA TurnsTo ==
  ASSUME TypeOK, NEW t \in Threads, Turns(t)
  PROVE  \E c : /\ Become(t, c)
                /\ \/ c.op # "emit"
                   \/ \E i, e : c = Emitting(i, <<e>>) /\ e.type \in {"order_paid", "order_packed", "active_item_set"}
                   \/ \E i \in Items, n \in Counts, src \in Sources :
                        /\ ReconcileRead(t, i, n, src)
                        /\ c = Emitting(i, IF Descends(i, n) THEN << CountSet(i, n, src), StockLow(i, n) >>
                                        ELSE << CountSet(i, n, src) >>)
<1>1. CASE ReserveRefuse(t)
  <2>1. Become(t, Idle) /\ Idle.op # "emit"
    BY <1>1 DEF ReserveRefuse, Idle
  <2>2. QED
    BY <2>1
<1>2. CASE CancelBegin(t)
  <2>1. Become(t, [call[t] EXCEPT !.op = "cancel"]) /\ call[t].op = "cancel-wait"
    BY <1>2 DEF CancelBegin
  <2>2. PICK c \in Calls : c = call[t]
    BY DEF TypeOK
  <2>3. c.op = "cancel-wait" => [c EXCEPT !.op = "cancel"].op = "cancel"
    BY DEF Calls, Idle
  <2>4. QED
    BY <2>1, <2>2, <2>3
<1>3. CASE Seed /\ t = Main
  BY <1>3 DEF Seed
<1>4. CASE \E o \in OrderIds, i \in Items, q \in Qtys : ReserveBegin(t, o, i, q)
  BY <1>4 DEF ReserveBegin
<1>5. CASE \E i \in Items : TeachBegin(t, i)
  BY <1>5 DEF TeachBegin
<1>6. CASE \E o \in OrderIds : CancelRead(t, o)
  BY <1>6 DEF CancelRead
<1>7. CASE \E o \in OrderIds, s \in Sessions : MarkPaidRead(t, o, s)
  <2>1. PICK o \in OrderIds, s \in Sessions : MarkPaidRead(t, o, s)
    BY <1>7
  <2>2. PICK e : e = OrderPaid(o, s)
    OBVIOUS
  <2>3. e.type = "order_paid"
    BY <2>2 DEF OrderPaid
  <2>4. PICK c : c = Emitting(view.order[o].item, <<e>>) /\ Become(t, c)
    BY <2>1, <2>2 DEF MarkPaidRead
  <2>5. QED
    BY <2>3, <2>4
<1>8. CASE \E o \in OrderIds : MarkPackedRead(t, o)
  <2>1. PICK o \in OrderIds : MarkPackedRead(t, o)
    BY <1>8
  <2>2. PICK e : e = OrderPacked(o)
    OBVIOUS
  <2>3. e.type = "order_packed"
    BY <2>2 DEF OrderPacked
  <2>4. PICK c : c = Emitting(view.order[o].item, <<e>>) /\ Become(t, c)
    BY <2>1, <2>2 DEF MarkPackedRead
  <2>5. QED
    BY <2>3, <2>4
<1>9. CASE \E i \in Items : SetActiveRead(t, i)
  <2>1. PICK i \in Items : SetActiveRead(t, i)
    BY <1>9
  <2>2. PICK e : e = ActiveItemSet(i)
    OBVIOUS
  <2>3. e.type = "active_item_set"
    BY <2>2 DEF ActiveItemSet
  <2>4. PICK c : c = Emitting(i, <<e>>) /\ Become(t, c)
    BY <2>1, <2>2 DEF SetActiveRead
  <2>5. QED
    BY <2>3, <2>4
<1>10. CASE \E i \in Items, n \in Counts, src \in Sources : ReconcileRead(t, i, n, src)
  BY <1>10 DEF ReconcileRead
<1>11. QED
  BY <1>1, <1>2, <1>3, <1>4, <1>5, <1>6, <1>7, <1>8, <1>9, <1>10 DEF Turns, Request

\* An append leaves the fruit of every item as it was, or is one recount.
LEMMA FruitAppend ==
  ASSUME TypeOK, BootInv, RootInv, SyncInv, NEW t \in Threads, NEW es, NEW rest,
         Appends(t, es, rest), NEW d \in View, d = Durable, NEW w \in View, w = Durable', Sound(d)
  PROVE  /\ Sound(w)
         /\ \/ Kept(d, w, {})
            \/ /\ Len(log') = Len(log) + 1 /\ log'[Len(log')].type = "count_set"
               /\ Kept(d, w, {log'[Len(log')].item})
<1>1. CASE ShopStep(d, w)
  <2>1. CASE SameShop(w, d)
    <3>1. w.items = d.items /\ w.order = d.order /\ w.count = d.count
      BY <2>1 DEF SameShop
    <3>2. Sound(w)
      BY <3>1 DEF Sound, Existing, SessionsFit, Placed
    <3>3. Kept(d, w, {})
      BY <3>1 DEF Kept, Fruit, Asked, Keeping
    <3>4. QED
      BY <3>2, <3>3
  <2>2. QED
    BY <1>1, <2>1, FruitTeaches, FruitTakes, FruitMoves DEF ShopStep
<1>2. CASE call[t].op = "emit" /\ call[t].todo # <<>> /\ Head(call[t].todo).type = "count_set"
  <2>1. call[t].todo \in Seq(Singles) /\ es = <<Head(call[t].todo)>> /\ es \in Seq(Event)
    BY <1>2, CallFields DEF Appends, Source
  <2>2. Head(call[t].todo) = call[t].todo[1] /\ 1 \in DOMAIN call[t].todo /\ Head(call[t].todo) \in Singles
    BY <1>2, <2>1, HeadTailProperties, EmptySeq, LenProperties
  <2>3. PICK e \in Singles : e = Head(call[t].todo) /\ e.type = "count_set"
    BY <1>2, <2>2
  <2>4. e \in Event /\ es = <<e>> /\ Len(es) = 1 /\ es[1] = e
    BY <2>1, <2>3, EventTypes
  <2>5. w = Apply(d, e)
    BY <2>4, DurableStep DEF Appends
  <2>6. Len(log') = Len(log) + 1 /\ log'[Len(log')] = e
    <3>1. StoreTypeOK /\ Record(es)
      BY DEF TypeOK, Appends
    <3>2. /\ Len(log') = Len(log) + Len(es)
          /\ \A k \in 1 .. Len(es) : log'[Len(log) + k] = es[k]
      BY <2>1, <2>4, <3>1, RecordFacts
    <3>3. 1 \in 1 .. Len(es) /\ Len(log') = Len(log) + 1
      BY <2>4, <3>2
    <3>4. log'[Len(log) + 1] = e
      BY <2>4, <3>2, <3>3
    <3>5. QED
      BY <3>3, <3>4
  <2>7. PICK i \in Items, n \in Nat, src \in Sources : e = CountSet(i, n, src)
    BY <2>3, <2>4 DEF Event, CatalogEvent, OrderEvent, CountSet
  <2>8. e.item = i
    BY <2>7 DEF CountSet
  <2>9. i \in d.items
    <3>1. Anchored(d, e)
      BY <1>2, <2>2, <2>3 DEF RootInv, CallRooted
    <3>2. QED
      BY <2>3, <2>8, <3>1 DEF Anchored
  <2>10. w.items = d.items /\ w.order = d.order /\ w.count = [d.count EXCEPT ![i] = n]
    BY <2>5, <2>7, <2>9, CountSetEffect
  <2>11. \A j \in Items \ {i} : w.count[j] = d.count[j]
    BY <2>10 DEF View
  <2>12. Sound(w) /\ Kept(d, w, {i})
    BY <2>10, <2>11, FruitRecounts
  <2>13. QED
    BY <2>3, <2>6, <2>8, <2>12
<1>3. QED
  BY <1>1, <1>2, AppendShop

LEMMA FruitStep ==
  ASSUME TypeOK, TypeOK', BootInv, RootInv, SyncInv, Sound(Durable), [Next]_vars
  PROVE  /\ Sound(Durable)'
         /\ replays' = replays
              \/ \A i \in Durable.items :
                   Fruit(Durable', i) # Fruit(Durable, i) =>
                     /\ Len(log') = Len(log) + 1
                     /\ log'[Len(log')].type = "count_set" /\ log'[Len(log')].item = i
<1>1. PICK d \in View, w \in View : d = Durable /\ w = Durable'
  <2>1. (Durable \in View)'
    BY DEF TypeOK, StoreTypeOK, Durable
  <2>2. QED
    BY <2>1, DurableType
<1>2. CASE \E t \in Threads : \E es \in Seq(Event) : \E rest : Appends(t, es, rest)
  <2>1. /\ Sound(w)
        /\ \/ Kept(d, w, {})
           \/ /\ Len(log') = Len(log) + 1 /\ log'[Len(log')].type = "count_set"
              /\ Kept(d, w, {log'[Len(log')].item})
    BY <1>1, <1>2, FruitAppend
  <2>2. QED
    BY <1>1, <2>1 DEF Kept
<1>3. CASE \/ \E t \in Threads : Notify(t)
           \/ \E t \in Threads : Turns(t)
           \/ Hydrate \/ Serve \/ Crash \/ UNCHANGED vars
  <2>1. replays' = replays
    BY <1>3 DEF Notify, StoreNotify, Turns, Hydrate, Serve, Crash, StoreCrash, vars, storeVars
  <2>2. Durable' = Durable
    BY <2>1 DEF Durable
  <2>3. QED
    BY <1>1, <2>1, <2>2
<1>4. QED
  BY <1>2, <1>3, StepKinds

\* However many threads there are, as long as no two calls about one item overlap: the
\* fruit on the counter and the fruit its orders keep are together what they were,
\* whatever is reserved, paid, packed, cancelled or taught and wherever the process dies;
\* only a report of the camera or of an operator changes it, for the item it is about
\* (orders.py reserve, cancel; inventory.py:49-60).
THEOREM FruitConserved == OrderlySpec => FruitIsConserved
<1>1. Init => Sound(Durable)
  <2> SUFFICES ASSUME Init PROVE Sound(Durable)
    OBVIOUS
  <2>1. PICK d : d = Durable /\ d = EmptyView
    BY DEF Init, StoreInit, Durable
  <2>2. Existing(d) = {} /\ d.items = {} /\ \A o \in OrderIds : d.order[o] = NoOrder
    BY <2>1 DEF EmptyView, Existing
  <2>3. QED
    BY <2>1, <2>2, FS_EmptySet, NoOrderIsNone DEF Sound, SessionsFit, Placed
<1>2. TypeOK /\ TypeOK' /\ BootInv /\ RootInv /\ SyncInv /\ Sound(Durable) /\ [Next]_vars
        => Sound(Durable)'
  BY FruitStep
<1>3. TypeOK /\ TypeOK' /\ BootInv /\ RootInv /\ SyncInv /\ Sound(Durable) /\ [Next]_vars
        => [\A i \in Durable.items :
              Fruit(Durable', i) # Fruit(Durable, i) =>
                /\ Len(log') = Len(log) + 1
                /\ log'[Len(log')].type = "count_set" /\ log'[Len(log')].item = i]_replays
  BY FruitStep
<1>4. QED
  BY <1>1, <1>2, <1>3, OrderlyMeans, TypeCorrect, BootCorrect, RootCorrect, SyncCorrect, PTL
     DEF Spec, FruitIsConserved

-----------------------------------------------------------------------------
(* Low stock. *)

Low(e, i) == e.type = "stock_low" /\ e.item = i

\* The call still has a StockLow of the item to append.
Owes(c, i) == c.op = "emit" /\ \E k \in DOMAIN c.todo : Low(c.todo[k], i)

Across(v, n, i) == v.count[i] > Threshold[i] /\ n <= Threshold[i]

\* A recount is what a call appends first, and if it will lower its item to the
\* threshold then its StockLow is what comes next.
Gates(c, d) ==
  c.op = "emit" => \A k \in DOMAIN c.todo :
    LET e == c.todo[k] IN
    e.type = "count_set" =>
      /\ k = 1
      /\ Across(d, e.count, e.item) => 2 \in DOMAIN c.todo /\ Low(c.todo[2], e.item)

GateInv == phase = "up" => \A t \in Threads : Gates(call[t], Durable)

\* The event is a drop that the camera saw, from view v to view w.
Drop(e, v, w, i) ==
  /\ e.type = "count_set" /\ e.source = "model"
  /\ i \in v.items /\ Across(v, w.count[i], i)

\* Of the drops of this process; those of an earlier one were read back by hydrate.
LowInv ==
  phase # "hydrate" =>
    \A n \in hydrated + 1 .. Len(log), i \in Items :
      Drop(log[n], replays[n], replays[n + 1], i) =>
        \/ \E m \in n + 1 .. Len(log) : Low(log[m], i)
        \/ \E t \in Threads : Owes(call[t], i)

\* What is left of a call after its first event.
LEMMA RestOfCall ==
  ASSUME TypeOK, NEW t \in Threads, NEW es, NEW rest, Appends(t, es, rest),
         call[t].op = "emit"
  PROVE  /\ Len(es) = 1 /\ es[1] = call[t].todo[1] /\ 1 \in DOMAIN call[t].todo
         /\ \A k \in DOMAIN rest : k + 1 \in DOMAIN call[t].todo /\ rest[k] = call[t].todo[k + 1]
         /\ \A k \in DOMAIN call[t].todo : k = 1 \/ (k - 1 \in DOMAIN rest /\ rest[k - 1] = call[t].todo[k])
<1>1. call[t].todo \in Seq(Singles) /\ call[t].todo # <<>>
      /\ es = <<Head(call[t].todo)>> /\ rest = Tail(call[t].todo)
  BY CallFields DEF Appends, Source
<1>2. PICK s \in Seq(Singles) : s = call[t].todo /\ s # <<>>
  BY <1>1
<1>3. PICK r \in Seq(Singles), n \in Nat : r = rest /\ r = Tail(s) /\ n = Len(s)
  <2>1. Tail(s) \in Seq(Singles)
    BY <1>2, HeadTailProperties
  <2>2. Len(s) \in Nat
    BY <1>2, LenProperties
  <2>3. QED
    BY <1>1, <1>2, <2>1, <2>2
<1>4. /\ Head(s) = s[1] /\ DOMAIN s = 1 .. n /\ DOMAIN r = 1 .. n - 1 /\ n # 0
      /\ \A k \in 1 .. n - 1 : r[k] = s[k + 1]
  BY <1>2, <1>3, HeadTailProperties, EmptySeq, LenProperties
<1>5. Len(es) = 1 /\ es[1] = s[1]
  BY <1>1, <1>2, <1>4
<1>6. /\ 1 \in 1 .. n
      /\ \A k \in 1 .. n - 1 : k + 1 \in 1 .. n
      /\ \A k \in 1 .. n : k = 1 \/ (k - 1 \in 1 .. n - 1 /\ (k - 1) + 1 = k)
  BY <1>4
<1>7. QED
  BY <1>2, <1>3, <1>4, <1>5, <1>6

LEMMA GateStep ==
  ASSUME Orderly, Orderly', TypeOK, BootInv, RootInv, SyncInv, GateInv, [Next]_vars
  PROVE  GateInv'
<1>0. /\ call \in [Threads -> Calls] /\ view \in View /\ \A u \in Threads : Touches(u) \in SUBSET Items
      /\ \A x, s : /\ Emitting(x, s).op = "emit" /\ Emitting(x, s).todo = s
                   /\ Emitting(x, s).item = x /\ Emitting(x, s) # Idle
      /\ \A d : Gates(Idle, d)
  BY TouchesType DEF TypeOK, StoreTypeOK, Emitting, Gates, Idle
<1>1. PICK d, w : d = Durable /\ w = Durable' /\ d \in View
  BY DurableType
<1>2. ASSUME phase = "up", NEW t \in Threads, NEW es \in Seq(Event), NEW rest, Appends(t, es, rest)
      PROVE  GateInv'
  <2>1. \A u \in Threads : CallMine(call[u], Touches(u), d) /\ Gates(call[u], d)
    BY <1>1, <1>2 DEF SyncInv, GateInv
  <2>2. call' = [call EXCEPT ![t] = Emitting(call[t].item, rest)]
    BY <1>2 DEF Appends
  <2>3. ASSUME NEW u \in Threads, u # t PROVE Gates(call[u], w)
    <3>1. ASSUME call[u].op = "emit", NEW k \in DOMAIN call[u].todo, call[u].todo[k].type = "count_set"
          PROVE  w.count[call[u].todo[k].item] = d.count[call[u].todo[k].item]
      <4>1. PICK i : i = call[u].todo[k].item
        OBVIOUS
      <4>2. i \in Touches(u)
        BY <2>1, <3>1, <4>1 DEF CallMine, Mine
      <4>3. i \in Items /\ i \notin Touches(t)
        BY <1>0, <2>3, <4>2 DEF Orderly
      <4>4. Same(d, w, i)
        BY <1>1, <1>2, <2>1, <4>3, AppendSame
      <4>5. QED
        BY <4>1, <4>4 DEF Same
    <3>2. QED
      BY <2>1, <3>1 DEF Gates, Across
  <2>4. Gates(Emitting(call[t].item, rest), w)
    <3>1. CASE rest = <<>>
      BY <1>0, <3>1 DEF Gates
    <3>2. CASE rest # <<>>
      <4>1. call[t].op = "emit"
        BY <1>2, <3>2 DEF Appends, Source
      <4>2. \A k \in DOMAIN rest : k + 1 \in DOMAIN call[t].todo /\ rest[k] = call[t].todo[k + 1]
        BY <1>2, <4>1, RestOfCall
      <4>3. \A k \in DOMAIN rest : k + 1 # 1
        <5>1. rest \in Seq(Singles)
          <6>1. call[t].todo \in Seq(Singles) /\ call[t].todo # <<>> /\ rest = Tail(call[t].todo)
            BY <1>2, <4>1, CallFields DEF Appends, Source
          <6>2. QED
            BY <6>1, HeadTailProperties
        <5>2. QED
          BY <5>1
      <4>4. \A k \in DOMAIN rest : rest[k].type # "count_set"
        BY <2>1, <4>1, <4>2, <4>3 DEF Gates
      <4>5. QED
        BY <1>0, <4>4 DEF Gates
    <3>3. QED
      BY <3>1, <3>2
  <2>5. \A u \in Threads : Gates(call'[u], w)
    BY <1>0, <2>2, <2>3, <2>4
  <2>6. QED
    BY <1>1, <2>5 DEF GateInv
<1>3. ASSUME UNCHANGED <<replays, phase>>, NEW c, NEW t \in Threads, Become(t, c), phase = "up" => Gates(c, d)
      PROVE  GateInv'
  <2>1. phase = "up" => \A u \in Threads : Gates(call'[u], d)
    BY <1>0, <1>1, <1>3 DEF GateInv, Become
  <2>2. Durable' = d
    BY <1>1, <1>3 DEF Durable
  <2>3. QED
    BY <1>3, <2>1, <2>2 DEF GateInv
<1>4. ASSUME phase = "up", NEW t \in Threads, Turns(t)
      PROVE  GateInv'
  <2>1. PICK c : /\ Become(t, c)
                 /\ \/ c.op # "emit"
                    \/ \E i, e : c = Emitting(i, <<e>>) /\ e.type \in {"order_paid", "order_packed", "active_item_set"}
                    \/ \E i \in Items, n \in Counts, src \in Sources :
                         /\ ReconcileRead(t, i, n, src)
                         /\ c = Emitting(i, IF Descends(i, n) THEN << CountSet(i, n, src), StockLow(i, n) >>
                                         ELSE << CountSet(i, n, src) >>)
    BY <1>4, TurnsTo
  <2>2. CASE c.op # "emit"
    <3>1. Gates(c, d)
      BY <2>2 DEF Gates
    <3>2. QED
      BY <1>3, <1>4, <2>1, <3>1 DEF Turns
  <2>3. CASE \E i, e : c = Emitting(i, <<e>>) /\ e.type \in {"order_paid", "order_packed", "active_item_set"}
    <3>1. PICK i, e : c = Emitting(i, <<e>>) /\ e.type \in {"order_paid", "order_packed", "active_item_set"}
      BY <2>3
    <3>2. PICK s : s = <<e>>
      OBVIOUS
    <3>3. \A k \in DOMAIN s : s[k] = e
      BY <3>2
    <3>4. c.todo = s /\ e.type # "count_set"
      BY <1>0, <3>1, <3>2
    <3>5. Gates(c, d)
      BY <3>3, <3>4 DEF Gates
    <3>6. QED
      BY <1>3, <1>4, <2>1, <3>5 DEF Turns
  <2>4. ASSUME NEW i \in Items, NEW n \in Counts, NEW src \in Sources, ReconcileRead(t, i, n, src),
               c = Emitting(i, IF Descends(i, n) THEN << CountSet(i, n, src), StockLow(i, n) >>
                            ELSE << CountSet(i, n, src) >>)
        PROVE  GateInv'
    <3>1. Request(t)
      BY <2>4 DEF Request
    <3>2. d.count[i] = view.count[i]
      <4>1. c # Idle /\ c.item = i
        BY <1>0, <2>4
      <4>2. Same(view, d, c.item)
        BY <1>1, <1>4, <2>1, <3>1, <4>1, FreshRead
      <4>3. QED
        BY <4>1, <4>2 DEF Same
    <3>3. PICK e, f : e = CountSet(i, n, src) /\ f = StockLow(i, n)
      OBVIOUS
    <3>4. e.type = "count_set" /\ e.item = i /\ e.count = n /\ Low(f, i) /\ f.type # "count_set"
      BY <3>3 DEF CountSet, StockLow, Low
    <3>5. PICK s : s = IF Descends(i, n) THEN <<e, f>> ELSE <<e>>
      OBVIOUS
    <3>6. c.op = "emit" /\ c.todo = s
      BY <1>0, <2>4, <3>3, <3>5
    <3>7. /\ Descends(i, n) => DOMAIN s = {1, 2} /\ s[1] = e /\ s[2] = f
          /\ ~Descends(i, n) => DOMAIN s = {1} /\ s[1] = e
      BY <3>5
    <3>8. Descends(i, n) <=> Across(d, n, i)
      BY <3>2 DEF Descends, Across
    <3>9. Gates(c, d)
      BY <3>4, <3>6, <3>7, <3>8 DEF Gates
    <3>10. QED
      BY <1>3, <1>4, <2>1, <3>9 DEF Turns
  <2>5. QED
    BY <2>1, <2>2, <2>3, <2>4
<1>5. ASSUME phase = "up", NEW t \in Threads, Notify(t) PROVE GateInv'
  <2>1. UNCHANGED <<replays, phase>> /\ (Become(t, Idle) \/ UNCHANGED call)
    BY <1>5 DEF Notify, StoreNotify, Booted
  <2>2. CASE UNCHANGED call
    BY <2>1, <2>2 DEF GateInv, Durable
  <2>3. QED
    BY <1>0, <1>3, <2>1, <2>2
<1>6. CASE phase # "up" /\ \/ \E t \in Threads : \E es \in Seq(Event) : \E rest : Appends(t, es, rest)
                           \/ \E t \in Threads : Notify(t)
                           \/ \E t \in Threads : Turns(t)
  <2>1. phase' = phase
    BY <1>6 DEF Appends, Notify, Turns, Booted
  <2>2. QED
    BY <1>6, <2>1 DEF GateInv
<1>7. CASE Hydrate \/ Crash
  <2>1. phase' # "up"
    BY <1>7 DEF Hydrate, Crash
  <2>2. QED
    BY <2>1 DEF GateInv
<1>8. CASE Serve
  <2>1. phase = "seed" /\ call[Main] = Idle /\ call' = call
    BY <1>8 DEF Serve
  <2>2. \A t \in Threads : call[t] = Idle
    BY <2>1 DEF BootInv, PhaseInv, Silent
  <2>3. QED
    BY <1>0, <2>1, <2>2 DEF GateInv
<1>9. CASE UNCHANGED vars
  BY <1>9 DEF vars, storeVars, GateInv, Durable
<1>10. QED
  BY <1>2, <1>4, <1>5, <1>6, <1>7, <1>8, <1>9, StepKinds

\* Only a recount writes a count that the camera saw.
LEMMA SeenIsEmitted ==
  ASSUME NEW t \in Threads, NEW es, NEW rest, Appends(t, es, rest), NEW k \in 1 .. Len(es),
         es[k].type = "count_set", es[k].source = "model"
  PROVE  call[t].op = "emit"
<1>1. PICK m \in {1, 2} : m = Len(es)
  BY DEF Appends
<1>2. k = 1 \/ k = 2
  BY <1>1
<1>3. ASSUME call[t].op = "reserve" PROVE FALSE
  <2>1. es[1].type = "order_reserved" /\ es[2].source = "manual"
    BY <1>3 DEF Appends, Source, OrderReserved, CountSet
  <2>2. QED
    BY <1>2, <2>1
<1>4. ASSUME call[t].op = "cancel" PROVE FALSE
  <2>1. \/ es[1].source = "manual" /\ es[2].type = "order_cancelled"
        \/ es[1].type = "order_cancelled" /\ Len(es) = 1
    BY <1>4 DEF Appends, Source, CancelEvents, OrderCancelled, CountSet
  <2>2. QED
    BY <1>1, <1>2, <2>1
<1>5. ASSUME call[t].op = "teach" PROVE FALSE
  <2>1. es[1].type = "item_taught" /\ es[2].type = "active_item_set"
    BY <1>5 DEF Appends, Source, ItemTaught, ActiveItemSet
  <2>2. QED
    BY <1>2, <2>1
<1>6. QED
  BY <1>3, <1>4, <1>5 DEF Appends, Source

LEMMA LowAppend ==
  ASSUME TypeOK, BootInv, RootInv, SyncInv, GateInv, LowInv, phase # "hydrate",
         NEW t \in Threads, NEW es \in Seq(Event), NEW rest, Appends(t, es, rest)
  PROVE  LowInv'
<1>0. /\ StoreTypeOK /\ call \in [Threads -> Calls] /\ Record(es)
      /\ \A x, s : Emitting(x, s).op = "emit" /\ Emitting(x, s).todo = s
      /\ hydrated \in 0 .. Len(log) /\ UNCHANGED <<phase, hydrated>>
      /\ call' = [call EXCEPT ![t] = Emitting(call[t].item, rest)]
  BY DEF TypeOK, Appends, Emitting
<1>1. PICK m \in {1, 2}, N \in Nat, H \in Nat : m = Len(es) /\ N = Len(log) /\ H = hydrated
  <2>1. Len(es) \in {1, 2} /\ Len(log) \in Nat
    BY <1>0 DEF Appends, StoreTypeOK
  <2>2. hydrated \in Nat
    BY <1>0, <2>1
  <2>3. QED
    BY <2>1, <2>2
<1>2. PICK lg, more, rs, longer : lg = log /\ more = log' /\ rs = replays /\ longer = replays'
  OBVIOUS
<1>3. /\ Len(more) = N + m
      /\ \A n \in 1 .. N : more[n] = lg[n]
      /\ \A k \in 1 .. m : more[N + k] = es[k]
      /\ \A n \in 1 .. N + 1 : longer[n] = rs[n]
      /\ \A n \in N + 1 .. N + m : longer[n + 1] = Apply(longer[n], more[n])
  <2>1. Len(replays) = Len(log) + 1
    BY <1>0 DEF StoreTypeOK
  <2>2. QED
    BY <1>0, <1>1, <1>2, <2>1, RecordFacts
<1>4. PICK d, w : d = Durable /\ w = Durable' /\ d \in View
  BY DurableType
<1>5. longer[N + 1] = d
  <2>1. Len(replays) = N + 1
    BY <1>0, <1>1 DEF StoreTypeOK
  <2>2. QED
    BY <1>1, <1>2, <1>3, <1>4, <2>1 DEF Durable
\* what the call of t owed it appends now or still owes
<1>6. ASSUME NEW i \in Items, Owes(call[t], i)
      PROVE  (m = 1 /\ Low(es[1], i)) \/ Owes(Emitting(call[t].item, rest), i)
  <2>1. call[t].op = "emit"
    BY <1>6 DEF Owes
  <2>2. PICK k \in DOMAIN call[t].todo : Low(call[t].todo[k], i)
    BY <1>6 DEF Owes
  <2>3. CASE k = 1
    BY <1>1, <2>1, <2>2, <2>3, RestOfCall
  <2>4. CASE k # 1
    <3>1. PICK j \in DOMAIN rest : rest[j] = call[t].todo[k]
      BY <2>1, <2>4, RestOfCall
    <3>2. QED
      BY <1>0, <2>2, <3>1 DEF Owes
  <2>5. QED
    BY <2>3, <2>4
<1>7. \A u \in Threads : call'[u] = IF u = t THEN Emitting(call[t].item, rest) ELSE call[u]
  BY <1>0
<1>8. ASSUME NEW n \in H + 1 .. N, NEW i \in Items, Drop(more[n], longer[n], longer[n + 1], i)
      PROVE  \/ \E j \in n + 1 .. N + m : Low(more[j], i)
             \/ \E u \in Threads : Owes(call'[u], i)
  <2>0. n \in 1 .. N /\ n \in 1 .. N + 1 /\ n + 1 \in 1 .. N + 1
    BY <1>8
  <2>1. Drop(lg[n], rs[n], rs[n + 1], i)
    BY <1>3, <1>8, <2>0
  <2>2. \/ \E j \in n + 1 .. N : Low(lg[j], i)
        \/ \E u \in Threads : Owes(call[u], i)
    BY <1>1, <1>2, <2>1 DEF LowInv
  <2>3. CASE \E j \in n + 1 .. N : Low(lg[j], i)
    <3>1. PICK j \in n + 1 .. N : Low(lg[j], i)
      BY <2>3
    <3>2. j \in 1 .. N /\ j \in n + 1 .. N + m
      BY <3>1
    <3>3. QED
      BY <1>3, <3>1, <3>2
  <2>4. CASE \E u \in Threads : Owes(call[u], i)
    <3>1. PICK u \in Threads : Owes(call[u], i)
      BY <2>4
    <3>2. CASE u # t
      BY <1>7, <3>1, <3>2
    <3>3. CASE u = t
      <4>1. CASE m = 1 /\ Low(es[1], i)
        <5>1. more[N + 1] = es[1] /\ N + 1 \in n + 1 .. N + m
          BY <1>3, <4>1
        <5>2. QED
          BY <4>1, <5>1
      <4>2. CASE Owes(Emitting(call[t].item, rest), i)
        BY <1>7, <4>2
      <4>3. QED
        BY <1>6, <3>1, <3>3, <4>1, <4>2
    <3>4. QED
      BY <3>2, <3>3
  <2>5. QED
    BY <2>2, <2>3, <2>4
\* a drop among the new events is of a recount, and its StockLow is what is left
<1>9. ASSUME NEW n \in N + 1 .. N + m, NEW i \in Items, Drop(more[n], longer[n], longer[n + 1], i)
      PROVE  Owes(Emitting(call[t].item, rest), i)
  <2>1. PICK k \in 1 .. m : n = N + k
    <3>1. n - N \in 1 .. m /\ n = N + (n - N)
      BY <1>9
    <3>2. QED
      BY <3>1
  <2>2. more[n] = es[k] /\ es[k].type = "count_set" /\ es[k].source = "model"
    BY <1>3, <1>9, <2>1 DEF Drop
  <2>3. call[t].op = "emit"
    BY <1>1, <2>2, SeenIsEmitted
  <2>4. /\ m = 1 /\ es[1] = call[t].todo[1] /\ 1 \in DOMAIN call[t].todo
    <3>1. Len(es) = 1 /\ es[1] = call[t].todo[1] /\ 1 \in DOMAIN call[t].todo
      BY <2>3, RestOfCall
    <3>2. QED
      BY <1>1, <3>1
  <2>5. PICK e \in Event : e = es[1] /\ e = more[n] /\ e = call[t].todo[1] /\ e.type = "count_set"
    <3>1. es[1] \in Event
      <4>1. Len(es) = 1
        BY <2>3, RestOfCall
      <4>2. 1 \in 1 .. Len(es)
        BY <4>1
      <4>3. QED
        BY <4>2, ElementOfSeq
    <3>2. k = 1
      BY <2>1, <2>4
    <3>3. QED
      BY <2>2, <2>4, <3>1, <3>2
  <2>6. n = N + 1
    BY <2>1, <2>4
  <2>7. PICK after : after = longer[n + 1] /\ after = Apply(d, e)
    BY <1>3, <1>5, <1>9, <2>5, <2>6
  <2>8. Effect(d, e, after)
    BY <1>4, <2>7, EffectOn
  <2>9. i \in d.items /\ d.count[i] > Threshold[i] /\ after.count[i] <= Threshold[i]
    BY <1>5, <1>9, <2>6, <2>7 DEF Drop, Across
  <2>10. i = e.item /\ after.count[i] = e.count
    <3>1. after.count[i] = IF Sets(e, i, d.items) THEN e.count ELSE d.count[i]
      BY <2>8 DEF Effect
    <3>2. d.count[i] \in Nat /\ Threshold[i] \in Nat
      BY <1>4, StallAssumption DEF View
    <3>3. Sets(e, i, d.items)
      BY <2>9, <3>1, <3>2
    <3>4. QED
      BY <2>5, <3>1, <3>3 DEF Sets
  <2>11. Gates(call[t], d)
    <3>1. call[t].op # "teach"
      BY <2>3
    <3>2. phase = "up"
      BY <3>1, WhoAppends
    <3>3. QED
      BY <1>4, <3>2 DEF GateInv
  <2>12. 2 \in DOMAIN call[t].todo /\ Low(call[t].todo[2], i)
    <3>1. Across(d, e.count, e.item)
      BY <2>9, <2>10 DEF Across
    <3>2. QED
      BY <2>3, <2>4, <2>5, <2>10, <2>11, <3>1 DEF Gates
  <2>13. PICK j \in DOMAIN rest : rest[j] = call[t].todo[2]
    <3>1. 2 = 1 \/ (2 - 1 \in DOMAIN rest /\ rest[2 - 1] = call[t].todo[2])
      BY <2>3, <2>12, RestOfCall
    <3>2. QED
      BY <3>1
  <2>14. QED
    BY <1>0, <2>12, <2>13 DEF Owes
<1>10. ASSUME NEW n \in H + 1 .. N + m, NEW i \in Items, Drop(more[n], longer[n], longer[n + 1], i)
       PROVE  \/ \E j \in n + 1 .. N + m : Low(more[j], i)
              \/ \E u \in Threads : Owes(call'[u], i)
  <2>1. n \in H + 1 .. N \/ n \in N + 1 .. N + m
    BY <1>10
  <2>2. CASE n \in H + 1 .. N
    BY <1>8, <1>10, <2>2
  <2>3. CASE n \in N + 1 .. N + m
    BY <1>7, <1>9, <1>10, <2>3
  <2>4. QED
    BY <2>1, <2>2, <2>3
<1>11. QED
  BY <1>0, <1>1, <1>2, <1>3, <1>10 DEF LowInv

LEMMA LowStep ==
  ASSUME TypeOK, BootInv, RootInv, SyncInv, GateInv, LowInv, [Next]_vars
  PROVE  LowInv'
<1>1. ASSUME NEW t \in Threads, NEW es \in Seq(Event), NEW rest, Appends(t, es, rest) PROVE LowInv'
  <2>1. CASE phase = "hydrate"
    BY <1>1, <2>1 DEF Appends, LowInv
  <2>2. QED
    BY <1>1, <2>1, LowAppend
<1>2. ASSUME UNCHANGED <<log, replays, hydrated>>, phase # "hydrate" \/ phase' = "hydrate",
             \A t \in Threads : call'[t] = call[t] \/ call[t].op # "emit" \/ call[t].todo = <<>>
      PROVE  LowInv'
  <2>1. \A t \in Threads, i \in Items : Owes(call[t], i) => Owes(call'[t], i)
    <3>1. \A t \in Threads, i \in Items : call[t].todo = <<>> => ~Owes(call[t], i)
      BY DEF Owes
    <3>2. \A t \in Threads, i \in Items : call[t].op # "emit" => ~Owes(call[t], i)
      BY DEF Owes
    <3>3. QED
      BY <1>2, <3>1, <3>2
  <2>2. QED
    BY <1>2, <2>1 DEF LowInv
<1>3. call \in [Threads -> Calls] /\ Idle.op # "emit" /\ Main \in Threads
  BY StallAssumption DEF TypeOK, Idle
\* nothing is called before the boot seeds
<1>a. ASSUME phase = "hydrate", NEW t \in Threads PROVE ~Turns(t) /\ ~Notify(t)
  <2>1. call[t] = Idle /\ outbox[t] = <<>>
    BY <1>a DEF BootInv, PhaseInv, Silent
  <2>2. ~Request(t) /\ ~Seed
    BY <1>a DEF Request, ReserveBegin, MarkPaidRead, MarkPackedRead, CancelRead, ReconcileRead,
                SetActiveRead, TeachBegin, Starts, Seed
  <2>3. QED
    BY <2>1, <2>2 DEF Turns, ReserveRefuse, CancelBegin, Notify, StoreNotify, Idle
<1>4. ASSUME NEW t \in Threads, Turns(t) PROVE LowInv'
  <2>1. call[t].op # "emit"
    <3>1. CASE ReserveRefuse(t) \/ CancelBegin(t)
      BY <3>1 DEF ReserveRefuse, CancelBegin
    <3>2. CASE Request(t)
      BY <1>3, <3>2 DEF Request, ReserveBegin, MarkPaidRead, MarkPackedRead, CancelRead, ReconcileRead,
                        SetActiveRead, TeachBegin, Starts
    <3>3. CASE Seed /\ t = Main
      BY <1>3, <3>3 DEF Seed
    <3>4. QED
      BY <1>4, <3>1, <3>2, <3>3 DEF Turns
  <2>2. PICK c : Become(t, c)
    BY <1>4, TurnsTo
  <2>3. \A u \in Threads : u # t => call'[u] = call[u]
    BY <1>3, <2>2 DEF Become
  <2>4. phase # "hydrate"
    BY <1>a, <1>4
  <2>5. QED
    BY <1>2, <1>4, <2>1, <2>3, <2>4 DEF Turns
<1>5. ASSUME NEW t \in Threads, Notify(t) PROVE LowInv'
  <2>1. /\ UNCHANGED <<log, replays, hydrated>> /\ phase # "hydrate"
        /\ (Become(t, Idle) /\ call[t].todo = <<>>) \/ UNCHANGED call
    BY <1>a, <1>5 DEF Notify, StoreNotify, Booted
  <2>2. QED
    BY <1>2, <1>3, <2>1 DEF Become
<1>6. CASE Hydrate
  <2>1. CASE RowsLeft
    BY <1>6, <2>1 DEF Hydrate, LowInv
  <2>2. CASE ~RowsLeft
    <3>1. hydrated' = hydrated /\ log' = log /\ Len(log) \in Nat /\ hydrated \in 0 .. Len(log)
          /\ hydrated >= Len(log)
      BY <1>6, <2>2 DEF Hydrate, RowsLeft, TypeOK, StoreTypeOK
    <3>2. \A n \in hydrated + 1 .. Len(log) : FALSE
      BY <3>1
    <3>3. QED
      BY <3>1, <3>2 DEF LowInv
  <2>3. QED
    BY <2>1, <2>2
<1>7. CASE Serve
  <2>1. UNCHANGED <<log, replays, call, hydrated>> /\ phase # "hydrate"
    BY <1>7 DEF Serve, storeVars
  <2>2. QED
    BY <1>2, <2>1
<1>8. CASE UNCHANGED vars
  BY <1>8 DEF vars, storeVars, LowInv
<1>9. CASE Crash
  BY <1>9 DEF Crash, LowInv
<1>10. QED
  BY <1>1, <1>4, <1>5, <1>6, <1>7, <1>8, <1>9, StepKinds

\* As long as no two calls about one item overlap: every drop to the threshold or below
\* that the camera saw since the process started is followed by its StockLow once the
\* calls have returned, though the count and the StockLow are two appends
\* (inventory.py:62-74).
THEOREM SeenDropsRaise == OrderlySpec => []SeenDropRaisesStockLow
<1>1. Init => GateInv /\ LowInv
  BY DEF Init, GateInv, LowInv
<1>2. Orderly /\ Orderly' /\ TypeOK /\ BootInv /\ RootInv /\ SyncInv /\ GateInv /\ [Next]_vars => GateInv'
  BY GateStep
<1>3. TypeOK /\ BootInv /\ RootInv /\ SyncInv /\ GateInv /\ LowInv /\ [Next]_vars => LowInv'
  BY LowStep
<1>4. LowInv => SeenDropRaisesStockLow
  <2> SUFFICES ASSUME LowInv, Rest, NEW n \in hydrated + 1 .. Len(log), NEW i \in Items,
                      log[n].type = "count_set" /\ log[n].source = "model" /\ Crosses(n, i)
               PROVE  Raised(n, i)
    BY DEF SeenDropRaisesStockLow
  <2>1. Drop(log[n], replays[n], replays[n + 1], i)
    BY DEF Drop, Across, Crosses
  <2>2. phase # "hydrate" /\ \A t \in Threads : ~Owes(call[t], i)
    BY DEF Rest, Owes, Idle
  <2>3. QED
    BY <2>1, <2>2 DEF LowInv, Raised, Low
<1>5. QED
  BY <1>1, <1>2, <1>3, <1>4, OrderlyMeans, TypeCorrect, BootCorrect, RootCorrect, SyncCorrect, PTL DEF Spec

-----------------------------------------------------------------------------
(* The services and their in-memory fakes. *)

Fields(v) == [items |-> v.items, count |-> v.count, active |-> v.active, order |-> v.order]

LEMMA ViewFields ==
  ASSUME NEW v \in View
  PROVE  v = Fields(v)
BY DEF View, Fields

LEMMA UpsertIs ==
  ASSUME NEW items, NEW count, NEW active, NEW order, NEW i, NEW n, NEW v,
         v = [items |-> items, count |-> count, active |-> active, order |-> order]
  PROVE  Upsert(v, i, n) = [items |-> items \cup {i}, count |-> [count EXCEPT ![i] = n],
                            active |-> active, order |-> order]
<1>1. Upsert(v, i, n) = [v EXCEPT !.items = items \cup {i}, !.count = [count EXCEPT ![i] = n]]
  BY DEF Upsert
<1>2. QED
  BY <1>1

LEMMA ActiveEffect ==
  ASSUME NEW v \in View, NEW e \in Event
  PROVE  Apply(v, e).active = IF e.type = "active_item_set" THEN e.item ELSE v.active
<1>1. ASSUME NEW o, NEW st, NEW s PROVE SetStatus(v, o, st, s) \in [items : {v.items}, count : {v.count}, active : {v.active}, order : {SetStatus(v, o, st, s).order}]
  BY DEF SetStatus, View
<1>2. ApplyOrders(v, e).active = v.active
  <2>1. CASE e.type = "order_reserved"
    BY <2>1 DEF ApplyOrders, View
  <2>2. CASE e.type # "order_reserved"
    BY <1>1, <2>2 DEF ApplyOrders
  <2>3. QED
    BY <2>1, <2>2
<1>3. PICK u \in View : u = ApplyOrders(v, e)
  BY ApplyOrdersType
<1>4. ApplyCatalog(u, e).active = IF e.type = "active_item_set" THEN e.item ELSE u.active
  BY DEF ApplyCatalog, View
<1>5. QED
  BY <1>2, <1>3, <1>4 DEF Apply

\* The outcome of a call that appends one event, or two.
LEMMA OutcomeIs ==
  ASSUME NEW d \in View, NEW es \in Seq(Event), Len(es) \in {1, 2}
  PROVE  FoldLeft(Apply, d, es) = IF Len(es) = 1 THEN Apply(d, es[1]) ELSE Apply(Apply(d, es[1]), es[2])
<1> DEFINE n == Len(es)
           step == [p \in (1 .. n) \X View |-> Apply(p[2], es[p[1]])]
           Folded(g) == g = [t \in SUBSET DOMAIN es |->
                               IF t = {} THEN d ELSE Apply(g[t \ {Max(t)}], es[Max(t)])]
           iter == CHOOSE g : Folded(g)
<1>1. DOMAIN es = 1 .. n /\ n \in Nat /\ \A k \in 1 .. n : es[k] \in Event
  BY ElementOfSeq
<1>2. FoldLeft(Apply, d, es) = iter[DOMAIN es]
  BY DEF FoldLeft, MapThenFoldSet
<1>3. step \in [(1 .. n) \X View -> View]
  BY <1>1, ApplyType
<1>4. PICK g \in [SUBSET (1 .. n) -> View] : Loop(step, d, 1 .. n, g)
  <2> HIDE DEF step
  <2>1. QED
    BY <1>1, <1>3, LoopTyped
<1>5. Folded(g)
  <2>1. ASSUME NEW t \in SUBSET (1 .. n), t # {}
        PROVE  g[t] = Apply(g[t \ {Max(t)}], es[Max(t)])
    <3>1. Max(t) \in t
      BY <1>1, <2>1, MaxIsMember
    <3>2. g[t] = step[<<Max(t), g[t \ {Max(t)}]>>]
      BY <1>4, <2>1 DEF Loop
    <3>3. Max(t) \in 1 .. n /\ g[t \ {Max(t)}] \in View
      BY <3>1
    <3>4. QED
      BY <3>2, <3>3
  <2>2. g = [t \in SUBSET (1 .. n) |-> g[t]] /\ g[{}] = d
    BY <1>4 DEF Loop
  <2> HIDE DEF n, step
  <2>3. QED
    BY <1>1, <2>1, <2>2
<1>6. Folded(iter)
  BY <1>5
<1>7. iter[{}] = d /\ \A t \in SUBSET DOMAIN es : t # {} => iter[t] = Apply(iter[t \ {Max(t)}], es[Max(t)])
  <2> HIDE DEF iter
  <2>1. QED
    BY <1>6
<1> HIDE DEF iter
<1>8. iter[1 .. 1] = Apply(d, es[1])
  <2>1. Max(1 .. 1) = 1 /\ (1 .. 1) \ {1} = {} /\ 1 .. 1 # {}
    <3>1. PICK m \in Nat : m = 1
      OBVIOUS
    <3>2. m \in Nat /\ m > 0
      BY <3>1
    <3>3. Max(1 .. m) = m
      BY <3>2, LastOfRound
    <3>4. QED
      BY <3>1, <3>3
  <2>2. 1 .. 1 \in SUBSET DOMAIN es
    BY <1>1
  <2>3. QED
    BY <1>7, <2>1, <2>2
<1>9. CASE n = 1
  BY <1>1, <1>2, <1>8, <1>9
<1>10. CASE n = 2
  <2>1. Max(1 .. 2) = 2 /\ (1 .. 2) \ {2} = 1 .. 1 /\ 1 .. 2 # {}
    <3>1. PICK m \in Nat : m = 2
      OBVIOUS
    <3>2. m \in Nat /\ m > 0
      BY <3>1
    <3>3. Max(1 .. m) = m
      BY <3>2, LastOfRound
    <3>4. QED
      BY <3>1, <3>3
  <2>2. iter[1 .. 2] = Apply(iter[1 .. 1], es[2])
    BY <1>1, <1>7, <1>10, <2>1
  <2>3. QED
    BY <1>1, <1>2, <1>8, <1>10, <2>2
<1>11. QED
  BY <1>9, <1>10

\* What a thread that has nothing to deliver sees of its own items.
LEMMA SeesTrue ==
  ASSUME TypeOK, BootInv, RootInv, SyncInv, phase = "up", NEW t \in Threads,
         call[t].op # "emit", NEW d, d = Durable
  PROVE  /\ SameOn(view, d, Touches(t)) /\ CallMine(call[t], Touches(t), d) /\ Fits(call[t], d)
         /\ view.items \subseteq d.items /\ CallRooted(call[t], d)
<1>1. outbox[t] = <<>>
  BY DEF BootInv
<1>2. Caught(<<>>, log, view, d, Touches(t)) /\ CallMine(call[t], Touches(t), d) /\ Fits(call[t], d)
  BY <1>1 DEF SyncInv
<1>3. SameOn(view, d, Touches(t))
  BY <1>2, CaughtNone
<1>4. QED
  BY <1>2, <1>3 DEF RootInv, Rooted

\* Nothing but teach is called before the process is up.
LEMMA UpToCall ==
  ASSUME TypeOK, BootInv, RootInv, NEW t \in Threads, call[t].op \in {"reserve", "cancel"}
  PROVE  phase = "up"
<1>1. phase \in {"hydrate", "seed", "up"}
  BY DEF TypeOK
<1>2. phase # "up" => phase = "seed" /\ t = Main
  BY <1>1 DEF BootInv, PhaseInv, Silent, Idle
<1>3. QED
  BY <1>2 DEF RootInv, SeedsOnly

LEMMA ReserveAgrees ==
  ASSUME TypeOK, BootInv, RootInv, SyncInv, NEW t \in Threads, NEW c, c = call[t],
         NEW d, d = Durable
  PROVE  /\ ReserveCommit(t) => Durable' = StubReserve(d, c.order, c.item, c.qty)
         /\ ReserveRefuse(t) /\ c.item \notin Free => d = StubReserve(d, c.order, c.item, c.qty)
<1> SUFFICES ASSUME c.op = "reserve"
             PROVE  /\ ReserveCommit(t) => Durable' = StubReserve(d, c.order, c.item, c.qty)
                    /\ ReserveRefuse(t) /\ c.item \notin Free => d = StubReserve(d, c.order, c.item, c.qty)
  BY DEF ReserveCommit, ReserveRefuse
<1>1. PICK o \in OrderIds, i \in Items, q \in Nat \ {0} : o = c.order /\ i = c.item /\ q = c.qty
  BY CallFields
<1>2. d \in View /\ d = Fields(d) /\ view \in View /\ d.count[i] \in Nat
  <2>1. d \in View /\ view \in View
    BY DurableType DEF TypeOK, StoreTypeOK
  <2>2. QED
    BY <2>1, ViewFields DEF View
<1>3. (i \in view.items <=> i \in d.items) /\ view.count[i] = d.count[i]
  <2>1. SameOn(view, d, Touches(t)) /\ i \in Touches(t)
    BY <1>1, UpToCall, SeesTrue DEF CallMine
  <2>2. QED
    BY <2>1 DEF SameOn, Same
<1>4. Quoted(d, i, q) <=> i \in d.items
  BY DEF Quoted
<1>5. ASSUME ReserveCommit(t)
      PROVE  Durable' = StubReserve(d, o, i, q)
  <2>1. PICK m \in Nat : m = d.count[i] - q /\ q <= d.count[i]
    BY <1>1, <1>2, <1>3, <1>5 DEF ReserveCommit, CanReserve
  <2>2. i \in d.items /\ d.count[i] >= q /\ m = d.count[i] - q
    BY <1>1, <1>2, <1>3, <1>5, <2>1 DEF ReserveCommit, CanReserve
  <2>3. PICK e \in Event, f \in Event : e = OrderReserved(o, i, q) /\ f = CountSet(i, m, "manual")
    BY EventTypes DEF Sources
  <2>4. PICK es : es = <<e, f>>
    OBVIOUS
  <2>5. es \in Seq(Event) /\ Len(es) = 2 /\ es[1] = e /\ es[2] = f
    BY <2>3, <2>4
  <2>6. Record(es)
    BY <1>1, <1>3, <1>5, <2>1, <2>3, <2>4 DEF ReserveCommit, StoreCommit
  <2>7. PICK a \in View, w \in View : a = Apply(d, e) /\ w = Apply(a, f) /\ w = Durable'
    <3>1. Durable' = Apply(Apply(d, e), f)
      BY <2>5, <2>6, DurableStep
    <3>2. Apply(d, e) \in View
      BY <1>2, ApplyType
    <3>3. Apply(Apply(d, e), f) \in View
      BY <3>2, ApplyType
    <3>4. QED
      BY <3>1, <3>2, <3>3
  <2>8. /\ a.items = d.items /\ a.count = d.count
        /\ a.order = [d.order EXCEPT ![o] =
              [status |-> "reserved", item |-> i, qty |-> q, session |-> NoSession]]
    BY <1>2, <2>3, <2>7, OrderReservedEffect
  <2>9. w.items = a.items /\ w.order = a.order /\ w.count = [a.count EXCEPT ![i] = m]
    BY <2>2, <2>3, <2>7, <2>8, CountSetEffect DEF Sources
  <2>10. a.active = d.active /\ w.active = a.active
    <3>1. e.type # "active_item_set" /\ f.type # "active_item_set"
      BY <2>3 DEF OrderReserved, CountSet
    <3>2. Apply(d, e).active = d.active /\ Apply(a, f).active = a.active
      BY <1>2, <3>1, ActiveEffect
    <3>3. QED
      BY <2>7, <3>2
  <2>11. w = Fields(w)
    BY ViewFields
  <2>12. StubReserve(d, o, i, q) =
           [items |-> d.items \cup {i}, count |-> [d.count EXCEPT ![i] = m], active |-> d.active,
            order |-> [d.order EXCEPT ![o] =
              [status |-> "reserved", item |-> i, qty |-> q, session |-> NoSession]]]
    <3>1. PICK r : r = [status |-> "reserved", item |-> i, qty |-> q, session |-> NoSession]
      OBVIOUS
    <3>2. PICK u : u = [d EXCEPT !.order[o] = r]
      OBVIOUS
    <3>3. u = [items |-> d.items, count |-> d.count, active |-> d.active, order |-> [d.order EXCEPT ![o] = r]]
      BY <1>2, <3>2 DEF Fields
    <3>4. StubReserve(d, o, i, q) = StubReconcile(u, i, m)
      BY <1>4, <2>2, <3>1, <3>2 DEF StubReserve
    <3>5. StubReconcile(u, i, m) = Upsert(u, i, m)
      BY <2>1, <2>2, <3>3 DEF StubReconcile
    <3>6. QED
      <4>1. Upsert(u, i, m) = [items |-> d.items \cup {i}, count |-> [d.count EXCEPT ![i] = m],
                               active |-> d.active, order |-> [d.order EXCEPT ![o] = r]]
        BY <3>3, UpsertIs
      <4>2. QED
        BY <3>1, <3>4, <3>5, <4>1
  <2>13. d.items \cup {i} = d.items
    BY <2>2
  <2>14. QED
    BY <2>7, <2>8, <2>9, <2>10, <2>11, <2>12, <2>13 DEF Fields
<1>6. ASSUME ReserveRefuse(t), i \notin Free
      PROVE  d = StubReserve(d, o, i, q)
  <2>1. ~(i \in d.items /\ d.count[i] >= q)
    BY <1>1, <1>3, <1>6 DEF ReserveRefuse, CanReserve
  <2>2. QED
    BY <1>4, <2>1 DEF StubReserve
<1>7. QED
  BY <1>1, <1>5, <1>6

\* A batch of the log: what the log says then.
LEMMA BatchOf ==
  ASSUME TypeOK, NEW d, d = Durable, NEW e \in Event, NEW f \in Event
  PROVE  /\ Record(<<e>>) => Durable' = Apply(d, e)
         /\ Record(<<e, f>>) => Durable' = Apply(Apply(d, e), f)
<1>1. <<e>> \in Seq(Event) /\ Len(<<e>>) = 1 /\ <<e>>[1] = e
  OBVIOUS
<1>2. <<e, f>> \in Seq(Event) /\ Len(<<e, f>>) = 2 /\ <<e, f>>[1] = e /\ <<e, f>>[2] = f
  OBVIOUS
<1>3. Record(<<e>>) => Durable' = Apply(d, e)
  BY <1>1, DurableStep
<1>4. Record(<<e, f>>) => Durable' = Apply(Apply(d, e), f)
  BY <1>2, DurableStep
<1>5. QED
  BY <1>3, <1>4

LEMMA TeachAgrees ==
  ASSUME TypeOK, NEW t \in Threads, NEW c, c = call[t], NEW d, d = Durable, TeachCommit(t)
  PROVE  Durable' = StubConfirm(d, c.item)
<1>1. PICK i \in Items : i = c.item
  BY CallFields DEF TeachCommit
<1>2. PICK n \in Nat : n = SeedCount[i]
  BY StallAssumption
<1>3. d \in View /\ d = Fields(d)
  BY DurableType, ViewFields
<1>4. PICK e \in Event, f \in Event : e = ItemTaught(i, n) /\ f = ActiveItemSet(i)
  BY EventTypes
<1>5. Record(<<e, f>>)
  BY <1>1, <1>2, <1>4 DEF TeachCommit, StoreCommit
<1>6. PICK a \in View, w \in View : a = Apply(d, e) /\ w = Apply(a, f) /\ w = Durable'
  <2>1. Durable' = Apply(Apply(d, e), f) /\ Apply(d, e) \in View
    BY <1>3, <1>5, BatchOf, ApplyType
  <2>2. Apply(Apply(d, e), f) \in View
    BY <2>1, ApplyType
  <2>3. QED
    BY <2>1, <2>2
<1>7. a.items = d.items \cup {i} /\ a.order = d.order /\ a.count = [d.count EXCEPT ![i] = n]
  BY <1>3, <1>4, <1>6, ItemTaughtEffect
<1>8. f.type = "active_item_set" /\ f.item = i
  BY <1>4 DEF ActiveItemSet
<1>9. w.items = a.items /\ w.order = a.order /\ w.count = a.count
  <2>1. f.type \in {"active_item_set", "stock_low"} /\ w = Apply(a, f)
    BY <1>6, <1>8
  <2>2. QED
    BY <2>1, OtherEffect
<1>10. w.active = i
  BY <1>6, <1>8, ActiveEffect
<1>11. w = [items |-> d.items \cup {i}, count |-> [d.count EXCEPT ![i] = n], active |-> i, order |-> d.order]
  BY <1>7, <1>9, <1>10, ViewFields DEF Fields
<1>12. PICK u : u = Upsert(d, i, n)
  OBVIOUS
<1>13. u = [items |-> d.items \cup {i}, count |-> [d.count EXCEPT ![i] = n], active |-> d.active, order |-> d.order]
  BY <1>3, <1>12, UpsertIs DEF Fields
<1>14. StubConfirm(d, i) = [u EXCEPT !.active = i]
  BY <1>2, <1>12, <1>13 DEF StubConfirm, StubSetActiveItem
<1>15. QED
  BY <1>1, <1>6, <1>11, <1>13, <1>14

\* The fake's order with another status.
LEMMA PutOrderIs ==
  ASSUME NEW items, NEW count, NEW active, NEW order, NEW o, NEW st, NEW v,
         v = [items |-> items, count |-> count, active |-> active, order |-> order]
  PROVE  PutOrder(v, o, st) = [items |-> items, count |-> count, active |-> active,
                               order |-> [order EXCEPT ![o] = [order[o] EXCEPT !.status = st]]]
<1>1. PutOrder(v, o, st) = [v EXCEPT !.order = [order EXCEPT ![o] = [order[o] EXCEPT !.status = st]]]
  BY DEF PutOrder
<1>2. QED
  BY <1>1

\* One event that moves an order along.
LEMMA MoveIs ==
  ASSUME NEW v \in View, NEW e \in Event, e.type \in Moves, NEW o, o = e.order,
         NEW ord \in Order, ord = v.order[o]
  PROVE  Apply(v, e) = [items |-> v.items, count |-> v.count, active |-> v.active,
                        order |-> [v.order EXCEPT ![o] = MovedTo(ord, e)]]
<1>1. ord # NoOrder
  BY NoOrderIsNone
<1>2. PICK w \in View : w = Apply(v, e)
  BY ApplyType
<1>3. /\ w.items = v.items /\ w.count = v.count
      /\ w.order = [v.order EXCEPT ![o] = MovedTo(ord, e)]
  BY <1>1, <1>2, MoveEffect
<1>4. w.active = v.active
  BY <1>2, ActiveEffect DEF Moves
<1>5. QED
  BY <1>2, <1>3, <1>4, ViewFields DEF Fields

LEMMA CancelAgrees ==
  ASSUME TypeOK, BootInv, RootInv, SyncInv, NEW t \in Threads, NEW c, c = call[t],
         NEW d, d = Durable, CancelCommit(t)
  PROVE  Durable' = StubCancel(d, c.order)
<1>0. c.op = "cancel" /\ phase = "up"
  BY UpToCall DEF CancelCommit
<1>1. PICK o \in OrderIds, i \in Items, q \in Nat \ {0} : o = c.order /\ i = c.item /\ q = c.qty
  BY <1>0, CallFields
<1>2. d \in View /\ d = Fields(d) /\ view \in View /\ d.count[i] \in Nat
  <2>1. d \in View /\ view \in View
    BY DurableType DEF TypeOK, StoreTypeOK
  <2>2. QED
    BY <2>1, ViewFields DEF View
<1>3. /\ d.order[o] # NoOrder /\ d.order[o].item = i /\ d.order[o].qty = q
      /\ d.order[o].status = c.status /\ c.status \in {"reserved", "paid"}
      /\ i \in d.items /\ i \in view.items /\ view.count[i] = d.count[i]
  <2>1. SameOn(view, d, Touches(t)) /\ CallMine(c, Touches(t), d) /\ Fits(c, d) /\ CallRooted(c, d) /\ Placed(d)
    BY <1>0, SeesTrue DEF RootInv
  <2>2. d.order[o] # NoOrder /\ d.order[o].item = i /\ d.order[o].qty = q /\ i \in Touches(t)
    BY <1>0, <1>1, <2>1 DEF CallRooted, CallMine
  <2>3. d.order[o].status = c.status /\ c.status \in {"reserved", "paid"} /\ i \in d.items
    BY <1>0, <1>1, <2>1, <2>2 DEF Fits, Placed
  <2>4. (i \in view.items <=> i \in d.items) /\ view.count[i] = d.count[i]
    BY <2>1, <2>2 DEF SameOn, Same
  <2>5. QED
    BY <2>2, <2>3, <2>4
<1>4. PICK ord \in Order : ord = d.order[o]
  BY <1>2, <1>3 DEF View
<1>5. PICK f \in Event : f = OrderCancelled(o)
  BY EventTypes
<1>6. /\ f.type = "order_cancelled" /\ f.type \in Moves /\ f.order = o
      /\ MovedTo(ord, f) = [ord EXCEPT !.status = "cancelled"]
  <2>1. f.type = "order_cancelled" /\ f.order = o
    BY <1>5 DEF OrderCancelled
  <2>2. MovedTo(ord, f) = [ord EXCEPT !.status = "cancelled"]
    BY <2>1 DEF MovedTo, Order
  <2>3. QED
    BY <2>1, <2>2 DEF Moves
<1> DEFINE cancelled(v) == [v.order EXCEPT ![o] = [ord EXCEPT !.status = "cancelled"]]
<1>7. CASE c.status = "reserved"
  <2>1. PICK n \in Nat : n = d.count[i] + q
    BY <1>2
  <2>2. PICK e \in Event : e = CountSet(i, n, "manual")
    BY EventTypes DEF Sources
  <2>3. Record(<<e, f>>)
    BY <1>1, <1>3, <1>5, <1>7, <2>1, <2>2 DEF CancelCommit, CancelEvents, StoreCommit
  <2>4. PICK a \in View : a = Apply(d, e) /\ Durable' = Apply(a, f)
    <3>1. Durable' = Apply(Apply(d, e), f)
      BY <2>3, BatchOf
    <3>2. Apply(d, e) \in View
      BY <1>2, ApplyType
    <3>3. QED
      BY <3>1, <3>2
  <2>5. a.items = d.items /\ a.order = d.order /\ a.count = [d.count EXCEPT ![i] = n]
    BY <1>2, <1>3, <2>2, <2>4, CountSetEffect DEF Sources
  <2>6. a.active = d.active
    <3>1. e.type # "active_item_set"
      BY <2>2 DEF CountSet
    <3>2. QED
      BY <1>2, <2>4, <3>1, ActiveEffect
  <2>7. Durable' = [items |-> d.items, count |-> [d.count EXCEPT ![i] = n], active |-> d.active,
                    order |-> cancelled(d)]
    <3>1. ord = a.order[o] /\ o = f.order
      BY <1>4, <1>6, <2>5
    <3>2. Apply(a, f) = [items |-> a.items, count |-> a.count, active |-> a.active,
                         order |-> [a.order EXCEPT ![o] = MovedTo(ord, f)]]
      BY <1>6, <3>1, MoveIs
    <3>3. QED
      BY <1>6, <2>4, <2>5, <2>6, <3>2
  <2>8. PICK u : u = Upsert(d, i, n)
    OBVIOUS
  <2>9. u = [items |-> d.items, count |-> [d.count EXCEPT ![i] = n], active |-> d.active, order |-> d.order]
    <3>1. u = [items |-> d.items \cup {i}, count |-> [d.count EXCEPT ![i] = n], active |-> d.active, order |-> d.order]
      BY <1>2, <2>8, UpsertIs DEF Fields
    <3>2. d.items \cup {i} = d.items
      BY <1>3
    <3>3. QED
      BY <3>1, <3>2
  <2>10. StubReconcile(d, i, n) = u
    BY <1>3, <2>1, <2>8 DEF StubReconcile
  <2>11. StubCancel(d, o) = PutOrder(u, o, "cancelled")
    BY <1>3, <1>7, <2>1, <2>10 DEF StubCancel
  <2>12. PutOrder(u, o, "cancelled") =
           [items |-> d.items, count |-> [d.count EXCEPT ![i] = n], active |-> d.active, order |-> cancelled(d)]
    BY <1>4, <2>9, PutOrderIs
  <2>13. QED
    BY <1>1, <2>7, <2>11, <2>12
<1>8. CASE c.status = "paid"
  <2>1. Record(<<f>>)
    BY <1>1, <1>5, <1>8 DEF CancelCommit, CancelEvents, StoreCommit
  <2>2. Durable' = Apply(d, f)
    BY <2>1, BatchOf
  <2>3. Durable' = [items |-> d.items, count |-> d.count, active |-> d.active, order |-> cancelled(d)]
    BY <1>2, <1>4, <1>6, <2>2, MoveIs
  <2>4. StubCancel(d, o) = PutOrder(d, o, "cancelled")
    BY <1>3, <1>8 DEF StubCancel
  <2>5. PutOrder(d, o, "cancelled") = [items |-> d.items, count |-> d.count, active |-> d.active, order |-> cancelled(d)]
    BY <1>2, <1>4, PutOrderIs DEF Fields
  <2>6. QED
    BY <1>1, <2>3, <2>4, <2>5
<1>9. QED
  BY <1>3, <1>7, <1>8

\* What a request decides to append, and what comes of it.
LEMMA OutcomeOf ==
  ASSUME TypeOK, NEW t \in Threads, NEW d, d = Durable, NEW es \in Seq(Event), Len(es) \in {1, 2},
         NEW i, Become(t, Emitting(i, es))
  PROVE  Outcome(t) = IF Len(es) = 1 THEN Apply(d, es[1]) ELSE Apply(Apply(d, es[1]), es[2])
<1>1. call'[t] = Emitting(i, es)
  BY DEF Become, TypeOK
<1>2. call'[t].todo = es
  BY <1>1 DEF Emitting
<1>3. d \in View
  BY DurableType
<1>4. Outcome(t) = FoldLeft(Apply, d, es)
  BY <1>2 DEF Outcome
<1>5. QED
  BY <1>3, <1>4, OutcomeIs

LEMMA OneEvent ==
  ASSUME NEW e \in Event
  PROVE  <<e>> \in Seq(Event) /\ Len(<<e>>) = 1 /\ <<e>>[1] = e
OBVIOUS

\* What a service reads of the item and the order it is called for is what the log has.
LEMMA StartsFacts ==
  ASSUME Orderly', TypeOK, BootInv, RootInv, SyncInv, NEW t \in Threads, Request(t),
         NEW i \in Items, NEW es, Become(t, Emitting(i, es)), NEW d, d = Durable
  PROVE  /\ d \in View /\ view.items \subseteq d.items /\ Same(view, d, i)
         /\ \A o \in OrderIds, sts \in SUBSET Statuses :
              view.order[o].status \in sts /\ view.order[o].item = i =>
                \E ord \in Order : ord = d.order[o] /\ ord = view.order[o] /\ ord.status \in sts
<1>1. phase = "up" /\ Turns(t)
  BY DEF Turns, Request, ReserveBegin, MarkPaidRead, MarkPackedRead, CancelRead, ReconcileRead,
         SetActiveRead, TeachBegin, Starts, StoreBegin, storeVars, Booted
<1>2. d \in View /\ view \in View /\ view.items \subseteq d.items
  BY DurableType DEF TypeOK, StoreTypeOK, RootInv, Rooted
<1>3. PICK c : c = Emitting(i, es)
  OBVIOUS
<1>4. Become(t, c) /\ c # Idle /\ c.item = i
  BY <1>3 DEF Emitting, Idle
<1>5. /\ Same(view, d, i)
      /\ \A o \in OrderIds : view.order[o] # NoOrder /\ view.order[o].item = i => d.order[o] = view.order[o]
  BY <1>1, <1>4, FreshRead
<1>6. ASSUME NEW o \in OrderIds, NEW sts \in SUBSET Statuses, view.order[o].status \in sts,
             view.order[o].item = i
      PROVE  \E ord \in Order : ord = d.order[o] /\ ord = view.order[o] /\ ord.status \in sts
  <2>1. PICK ord \in Order \cup {NoOrder} : ord = view.order[o]
    BY <1>2 DEF View
  <2>2. ord \in Order /\ ord # NoOrder
    BY <1>6, <2>1, NoOrderIsNone DEF Statuses
  <2>3. QED
    BY <1>5, <1>6, <2>1, <2>2
<1>7. QED
  BY <1>2, <1>5, <1>6

\* The order a payment or a packing is about, as the log has it.
LEMMA OrderFacts ==
  ASSUME Orderly', TypeOK, BootInv, RootInv, SyncInv, NEW t \in Threads, Request(t),
         NEW o \in OrderIds, NEW es, Become(t, Emitting(view.order[o].item, es)),
         NEW sts \in SUBSET Statuses, view.order[o].status \in sts, NEW d, d = Durable
  PROVE  d \in View /\ \E ord \in Order : ord = d.order[o] /\ ord.status \in sts
<1>1. PICK ord \in Order : ord = view.order[o]
  <2>1. view.order[o] \in Order \cup {NoOrder}
    BY DEF TypeOK, StoreTypeOK, View
  <2>2. QED
    BY <2>1, NoOrderIsNone DEF Statuses
<1>2. PICK i \in Items : i = view.order[o].item
  BY <1>1 DEF Order
<1>3. QED
  BY <1>2, StartsFacts

LEMMA SetActiveAgrees ==
  ASSUME Orderly', TypeOK, BootInv, RootInv, SyncInv, NEW t \in Threads, NEW i \in Items,
         SetActiveRead(t, i)
  PROVE  Outcome(t) = StubSetActiveItem(Durable, i)
<1>1. PICK d : d = Durable
  OBVIOUS
<1>2. d \in View /\ i \in d.items
  <2>1. Request(t) /\ Become(t, Emitting(i, <<ActiveItemSet(i)>>)) /\ i \in view.items
    BY DEF Request, SetActiveRead
  <2>2. QED
    BY <1>1, <2>1, StartsFacts
<1>3. PICK e \in Event : e = ActiveItemSet(i)
  BY EventTypes
<1>4. Outcome(t) = Apply(d, e)
  <2>1. Become(t, Emitting(i, <<e>>))
    BY <1>3 DEF SetActiveRead
  <2>2. QED
    BY <1>1, <2>1, OneEvent, OutcomeOf
<1>5. e.type = "active_item_set" /\ e.item = i
  BY <1>3 DEF ActiveItemSet
<1>6. PICK w \in View : w = Apply(d, e)
  BY <1>2, ApplyType
<1>7. w.items = d.items /\ w.order = d.order /\ w.count = d.count
  <2>1. e.type \in {"active_item_set", "stock_low"}
    BY <1>5
  <2>2. QED
    BY <1>2, <1>6, <2>1, OtherEffect
<1>8. w.active = i
  BY <1>2, <1>5, <1>6, ActiveEffect
<1>9. w = [items |-> d.items, count |-> d.count, active |-> i, order |-> d.order]
  BY <1>7, <1>8, ViewFields DEF Fields
<1>10. [d EXCEPT !.active = i] = [items |-> d.items, count |-> d.count, active |-> i, order |-> d.order]
  BY <1>2 DEF View
<1>11. QED
  BY <1>1, <1>2, <1>4, <1>6, <1>9, <1>10 DEF StubSetActiveItem

\* A StockLow changes nothing that a shop holds.
LEMMA LowChangesNothing ==
  ASSUME NEW v \in View, NEW e \in Event, e.type = "stock_low"
  PROVE  Apply(v, e) = v
<1>1. PICK w \in View : w = Apply(v, e)
  BY ApplyType
<1>2. w.items = v.items /\ w.order = v.order /\ w.count = v.count
  <2>1. e.type \in {"active_item_set", "stock_low"}
    OBVIOUS
  <2>2. QED
    BY <1>1, <2>1, OtherEffect
<1>3. w.active = v.active
  BY <1>1, ActiveEffect
<1>4. w = Fields(v) /\ v = Fields(v)
  BY <1>2, <1>3, ViewFields DEF Fields
<1>5. QED
  BY <1>1, <1>4

LEMMA ReconcileAgrees ==
  ASSUME Orderly', TypeOK, BootInv, RootInv, SyncInv, NEW t \in Threads, NEW i \in Items, NEW n \in Counts,
         NEW src \in Sources, ReconcileRead(t, i, n, src)
  PROVE  Outcome(t) = StubReconcile(Durable, i, n)
<1>1. PICK d : d = Durable
  OBVIOUS
<1>2. d \in View /\ d = Fields(d) /\ i \in d.items /\ n \in Nat
  <2>1. Request(t) /\ i \in view.items /\ \E es : Become(t, Emitting(i, es))
    BY DEF Request, ReconcileRead
  <2>2. d \in View /\ i \in d.items
    BY <1>1, <2>1, StartsFacts
  <2>3. QED
    BY <2>2, ViewFields, StallAssumption
<1>3. PICK e \in Event, f \in Event : e = CountSet(i, n, src) /\ f = StockLow(i, n)
  BY <1>2, EventTypes
<1>4. PICK w \in View : w = Apply(d, e)
  BY <1>2, ApplyType
<1>5. Outcome(t) = w
  <2>1. CASE Descends(i, n)
    <3>1. PICK es : es = <<e, f>>
      OBVIOUS
    <3>2. es \in Seq(Event) /\ Len(es) = 2 /\ es[1] = e /\ es[2] = f
      BY <3>1
    <3>3. Become(t, Emitting(i, es))
      BY <1>3, <2>1, <3>1 DEF ReconcileRead
    <3>4. Outcome(t) = Apply(Apply(d, e), f)
      <4>1. Len(es) \in {1, 2} /\ Len(es) # 1
        BY <3>2
      <4>2. Outcome(t) = Apply(Apply(d, es[1]), es[2])
        BY <1>1, <3>2, <3>3, <4>1, OutcomeOf
      <4>3. QED
        BY <3>2, <4>2
    <3>5. f.type = "stock_low"
      BY <1>3 DEF StockLow
    <3>6. QED
      BY <1>4, <3>4, <3>5, LowChangesNothing
  <2>2. CASE ~Descends(i, n)
    <3>1. Become(t, Emitting(i, <<e>>))
      BY <1>3, <2>2 DEF ReconcileRead
    <3>2. QED
      BY <1>1, <1>4, <3>1, OneEvent, OutcomeOf
  <2>3. QED
    BY <2>1, <2>2
<1>6. w.items = d.items /\ w.order = d.order /\ w.count = [d.count EXCEPT ![i] = n]
  BY <1>2, <1>3, <1>4, CountSetEffect
<1>7. w.active = d.active
  <2>1. e.type # "active_item_set"
    BY <1>3 DEF CountSet
  <2>2. QED
    BY <1>2, <1>4, <2>1, ActiveEffect
<1>8. w = [items |-> d.items, count |-> [d.count EXCEPT ![i] = n], active |-> d.active, order |-> d.order]
  BY <1>6, <1>7, ViewFields DEF Fields
<1>9. Upsert(d, i, n) =
        [items |-> d.items \cup {i}, count |-> [d.count EXCEPT ![i] = n], active |-> d.active, order |-> d.order]
  BY <1>2, UpsertIs DEF Fields
<1>10. d.items \cup {i} = d.items
  BY <1>2
<1>11. StubReconcile(d, i, n) = Upsert(d, i, n)
  BY <1>2 DEF StubReconcile
<1>12. QED
  BY <1>1, <1>5, <1>8, <1>9, <1>10, <1>11

LEMMA PackAgrees ==
  ASSUME Orderly', TypeOK, BootInv, RootInv, SyncInv, NEW t \in Threads, NEW o \in OrderIds, MarkPackedRead(t, o)
  PROVE  Outcome(t) = StubMarkPacked(Durable, o)
<1>1. PICK d : d = Durable
  OBVIOUS
<1>2. PICK ord \in Order : d \in View /\ ord = d.order[o] /\ ord.status \in {"paid"}
  <2>1. /\ Request(t) /\ Become(t, Emitting(view.order[o].item, <<OrderPacked(o)>>))
        /\ view.order[o].status \in {"paid"} /\ {"paid"} \in SUBSET Statuses
    BY DEF Request, MarkPackedRead, Packable, Statuses
  <2>2. PICK es : es = <<OrderPacked(o)>>
    OBVIOUS
  <2>3. QED
    BY <1>1, <2>1, <2>2, OrderFacts
<1>3. PICK e \in Event : e = OrderPacked(o)
  BY EventTypes
<1>4. Outcome(t) = Apply(d, e)
  <2>1. Become(t, Emitting(view.order[o].item, <<e>>))
    BY <1>3 DEF MarkPackedRead
  <2>2. QED
    BY <1>1, <2>1, OneEvent, OutcomeOf
<1>5. e.type = "order_packed" /\ e.type \in Moves /\ e.order = o
  BY <1>3 DEF OrderPacked, Moves
<1>6. MovedTo(ord, e) = [ord EXCEPT !.status = "packed"]
  BY <1>5 DEF MovedTo, Order
<1>7. Apply(d, e) = [items |-> d.items, count |-> d.count, active |-> d.active,
                     order |-> [d.order EXCEPT ![o] = [ord EXCEPT !.status = "packed"]]]
  BY <1>2, <1>5, <1>6, MoveIs
<1>8. PutOrder(d, o, "packed") = [items |-> d.items, count |-> d.count, active |-> d.active,
                                  order |-> [d.order EXCEPT ![o] = [ord EXCEPT !.status = "packed"]]]
  BY <1>2, PutOrderIs, ViewFields DEF Fields
<1>9. StubMarkPacked(d, o) = PutOrder(d, o, "packed")
  BY <1>2, NoOrderIsNone DEF StubMarkPacked
<1>10. QED
  BY <1>1, <1>4, <1>7, <1>8, <1>9

\* A view with one order's session changed.
LEMMA SessionIs ==
  ASSUME NEW items, NEW count, NEW active, NEW order, NEW o, NEW s, NEW v,
         v = [items |-> items, count |-> count, active |-> active, order |-> order]
  PROVE  [v EXCEPT !.order[o].session = s] =
           [items |-> items, count |-> count, active |-> active,
            order |-> [order EXCEPT ![o] = [order[o] EXCEPT !.session = s]]]
<1>1. [v EXCEPT !.order[o].session = s] = [v EXCEPT !.order = [order EXCEPT ![o] = [order[o] EXCEPT !.session = s]]]
  OBVIOUS
<1>2. QED
  BY <1>1

LEMMA PayAgrees ==
  ASSUME Orderly', TypeOK, BootInv, RootInv, SyncInv, NEW t \in Threads, NEW o \in OrderIds,
         NEW s \in Sessions, MarkPaidRead(t, o, s)
  PROVE  ButForSession(Outcome(t), o) = ButForSession(StubMarkPaid(Durable, o, s), o)
<1>1. PICK d : d = Durable
  OBVIOUS
<1>2. PICK ord \in Order : d \in View /\ ord = d.order[o] /\ ord.status \in {"reserved", "paid"}
  <2>1. /\ Request(t) /\ Become(t, Emitting(view.order[o].item, <<OrderPaid(o, s)>>))
        /\ view.order[o].status \in {"reserved", "paid"} /\ {"reserved", "paid"} \in SUBSET Statuses
    BY DEF Request, MarkPaidRead, Payable, Statuses
  <2>2. PICK es : es = <<OrderPaid(o, s)>>
    OBVIOUS
  <2>3. QED
    BY <1>1, <2>1, <2>2, OrderFacts
<1>3. PICK e \in Event : e = OrderPaid(o, s)
  BY EventTypes
<1>4. Outcome(t) = Apply(d, e)
  <2>1. Become(t, Emitting(view.order[o].item, <<e>>))
    BY <1>3 DEF MarkPaidRead
  <2>2. QED
    BY <1>1, <2>1, OneEvent, OutcomeOf
<1>5. e.type = "order_paid" /\ e.type \in Moves /\ e.order = o /\ e.session = s
  BY <1>3 DEF OrderPaid, Moves
<1>6. MovedTo(ord, e) = [ord EXCEPT !.status = "paid", !.session = s]
  BY <1>5 DEF MovedTo
<1> DEFINE As(r) == [items |-> d.items, count |-> d.count, active |-> d.active,
                     order |-> [d.order EXCEPT ![o] = r]]
<1>7. d.order \in [OrderIds -> Order \cup {NoOrder}]
  BY <1>2 DEF View
<1>8. ASSUME NEW r, NEW v, v = As(r)
      PROVE  ButForSession(v, o) = As([r EXCEPT !.session = NoSession])
  <2>1. [d.order EXCEPT ![o] = r][o] = r
    BY <1>7
  <2>2. ButForSession(v, o) =
          [items |-> d.items, count |-> d.count, active |-> d.active,
           order |-> [[d.order EXCEPT ![o] = r] EXCEPT ![o] = [r EXCEPT !.session = NoSession]]]
    BY <1>8, <2>1, SessionIs DEF ButForSession
  <2>3. [[d.order EXCEPT ![o] = r] EXCEPT ![o] = [r EXCEPT !.session = NoSession]]
          = [d.order EXCEPT ![o] = [r EXCEPT !.session = NoSession]]
    BY <1>7
  <2>4. QED
    BY <2>2, <2>3
<1> DEFINE cleared == [ord EXCEPT !.status = "paid", !.session = NoSession]
<1>9. ButForSession(Outcome(t), o) = As(cleared)
  <2>1. Outcome(t) = As([ord EXCEPT !.status = "paid", !.session = s])
    BY <1>2, <1>4, <1>5, <1>6, MoveIs
  <2>2. [[ord EXCEPT !.status = "paid", !.session = s] EXCEPT !.session = NoSession] = cleared
    BY DEF Order
  <2> HIDE DEF As, cleared
  <2>3. QED
    BY <1>8, <2>1, <2>2
<1>10. CASE ord.status = "paid"
  <2>1. StubMarkPaid(d, o, s) = d
    BY <1>2, <1>10 DEF StubMarkPaid
  <2>2. d = As(ord)
    <3>1. [d.order EXCEPT ![o] = ord] = d.order
      BY <1>2, <1>7
    <3>2. QED
      BY <1>2, <3>1, ViewFields DEF Fields
  <2>3. [ord EXCEPT !.session = NoSession] = cleared
    BY <1>10 DEF Order
  <2> HIDE DEF As, cleared
  <2>4. QED
    BY <1>1, <1>8, <1>9, <2>1, <2>2, <2>3
<1>11. CASE ord.status = "reserved"
  <2>1. PICK u : u = PutOrder(d, o, "paid")
    OBVIOUS
  <2>2. StubMarkPaid(d, o, s) = [u EXCEPT !.order[o].session = s]
    BY <1>2, <1>11, <2>1 DEF StubMarkPaid
  <2>3. u = As([ord EXCEPT !.status = "paid"])
    BY <1>2, <2>1, PutOrderIs, ViewFields DEF Fields
  <2>4. [u EXCEPT !.order[o].session = s] =
          [items |-> d.items, count |-> d.count, active |-> d.active,
           order |-> [[d.order EXCEPT ![o] = [ord EXCEPT !.status = "paid"]] EXCEPT ![o] =
                        [[ord EXCEPT !.status = "paid"] EXCEPT !.session = s]]]
    <3>1. [d.order EXCEPT ![o] = [ord EXCEPT !.status = "paid"]][o] = [ord EXCEPT !.status = "paid"]
      BY <1>7
    <3>2. QED
      BY <2>3, <3>1, SessionIs
  <2>5. StubMarkPaid(d, o, s) = As([[ord EXCEPT !.status = "paid"] EXCEPT !.session = s])
    <3>1. [[d.order EXCEPT ![o] = [ord EXCEPT !.status = "paid"]] EXCEPT ![o] =
             [[ord EXCEPT !.status = "paid"] EXCEPT !.session = s]]
            = [d.order EXCEPT ![o] = [[ord EXCEPT !.status = "paid"] EXCEPT !.session = s]]
      BY <1>7
    <3>2. QED
      BY <2>2, <2>4, <3>1
  <2>6. [[[ord EXCEPT !.status = "paid"] EXCEPT !.session = s] EXCEPT !.session = NoSession] = cleared
    BY DEF Order
  <2> HIDE DEF As, cleared
  <2>7. QED
    BY <1>1, <1>8, <1>9, <2>5, <2>6
<1>12. QED
  BY <1>2, <1>10, <1>11

\* "The Protocol classes are the contract both implementations satisfy"
\* (services/__init__.py:9): as long as no two calls about one item overlap, whatever a
\* service does to the shop, in however many appends, its in-memory fake does to the same
\* shop in one call, for any items, orders and counts, and what it refuses for want of
\* stock the fake refuses.
THEOREM FakesAgree == OrderlySpec => StubsAgree
<1> DEFINE Agree(t) ==
      LET c == call[t] IN
      /\ ReserveCommit(t) => Durable' = StubReserve(Durable, c.order, c.item, c.qty)
      /\ ReserveRefuse(t) /\ c.item \notin Free => Durable = StubReserve(Durable, c.order, c.item, c.qty)
      /\ CancelCommit(t) => Durable' = StubCancel(Durable, c.order)
      /\ TeachCommit(t) => Durable' = StubConfirm(Durable, c.item)
      /\ \A i \in Items :
           /\ SetActiveRead(t, i) => Outcome(t) = StubSetActiveItem(Durable, i)
           /\ \A n \in Counts, src \in Sources :
                ReconcileRead(t, i, n, src) => Outcome(t) = StubReconcile(Durable, i, n)
      /\ \A o \in OrderIds :
           /\ MarkPackedRead(t, o) => Outcome(t) = StubMarkPacked(Durable, o)
           /\ \A s \in Sessions :
                MarkPaidRead(t, o, s) =>
                  ButForSession(Outcome(t), o) = ButForSession(StubMarkPaid(Durable, o, s), o)
<1>1. Orderly' /\ TypeOK /\ BootInv /\ RootInv /\ SyncInv => \A t \in Threads : Agree(t)
  <2> SUFFICES ASSUME Orderly', TypeOK, BootInv, RootInv, SyncInv, NEW t \in Threads
               PROVE  Agree(t)
    OBVIOUS
  <2>1. PICK c, d : c = call[t] /\ d = Durable
    OBVIOUS
  <2>2. /\ ReserveCommit(t) => Durable' = StubReserve(d, c.order, c.item, c.qty)
        /\ ReserveRefuse(t) /\ c.item \notin Free => d = StubReserve(d, c.order, c.item, c.qty)
    BY <2>1, ReserveAgrees
  <2>3. /\ CancelCommit(t) => Durable' = StubCancel(d, c.order)
        /\ TeachCommit(t) => Durable' = StubConfirm(d, c.item)
    BY <2>1, CancelAgrees, TeachAgrees
  <2>4. QED
    BY <2>1, <2>2, <2>3, SetActiveAgrees, ReconcileAgrees, PackAgrees, PayAgrees
<1>2. QED
  BY <1>1, OrderlyMeans, TypeCorrect, BootCorrect, RootCorrect, SyncCorrect, PTL DEF StubsAgree, Spec
=============================================================================
