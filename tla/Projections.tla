---------------------------- MODULE Projections ----------------------------
(***************************************************************************)
(* The two read-side projections over the event log: CatalogProjection     *)
(* (items, their physical count, the active item) and OrdersProjection     *)
(* (orders by id).  A View is what both hold at one moment.  An event is a  *)
(* record with the fields the projections and the services tell apart;     *)
(* names, prices, phone numbers and timestamps are left out.               *)
(***************************************************************************)
EXTENDS Naturals

CONSTANTS
  Items,      (* item ids *)
  OrderIds,   (* order ids *)
  Sessions,   (* Stripe checkout session ids *)
  NoItem,     (* _active_id = None *)
  NoSession   (* stripe_session_id = None *)

ASSUME SentinelsDiffer == NoItem \notin Items /\ NoSession \notin Sessions

Sources == {"model", "manual"}
Statuses == {"reserved", "paid", "packed", "cancelled"}

-----------------------------------------------------------------------------
(* Events. *)

ItemTaught(i, n)       == [type |-> "item_taught", item |-> i, count |-> n]
ActiveItemSet(i)       == [type |-> "active_item_set", item |-> i]
CountSet(i, n, src)    == [type |-> "count_set", item |-> i, count |-> n, source |-> src]
StockLow(i, n)         == [type |-> "stock_low", item |-> i, count |-> n]
OrderReserved(o, i, q) == [type |-> "order_reserved", order |-> o, item |-> i, qty |-> q]
OrderPaid(o, s)        == [type |-> "order_paid", order |-> o, session |-> s]
OrderPacked(o)         == [type |-> "order_packed", order |-> o]
OrderCancelled(o)      == [type |-> "order_cancelled", order |-> o]

CatalogEvent ==
  [type : {"item_taught"}, item : Items, count : Nat]
    \cup [type : {"active_item_set"}, item : Items]
    \cup [type : {"count_set"}, item : Items, count : Nat, source : Sources]
    \cup [type : {"stock_low"}, item : Items, count : Nat]

OrderEvent ==
  [type : {"order_reserved"}, order : OrderIds, item : Items, qty : Nat \ {0}]
    \cup [type : {"order_paid"}, order : OrderIds, session : Sessions]
    \cup [type : {"order_packed", "order_cancelled"}, order : OrderIds]

Event == CatalogEvent \cup OrderEvent

-----------------------------------------------------------------------------
(* What the projections hold. *)

NoOrder == [status |-> "none"]   \* an id OrdersProjection.get answers None for

Order == [status : Statuses, item : Items, qty : Nat \ {0},
          session : Sessions \cup {NoSession}]

View == [items  : SUBSET Items,              \* the keys of CatalogProjection._items
         count  : [Items -> Nat],            \* their physical_count
         active : Items \cup {NoItem},
         order  : [OrderIds -> Order \cup {NoOrder}]]

EmptyView == [items  |-> {},
              count  |-> [i \in Items |-> 0],
              active |-> NoItem,
              order  |-> [o \in OrderIds |-> NoOrder]]

\* CatalogProjection.apply: a count for an item never taught is dropped, an
\* active item never taught is not.
ApplyCatalog(v, e) ==
  CASE e.type = "item_taught" ->
         [v EXCEPT !.items = v.items \cup {e.item},
                   !.count = [v.count EXCEPT ![e.item] = e.count]]
    [] e.type = "active_item_set" -> [v EXCEPT !.active = e.item]
    [] e.type = "count_set" /\ e.item \in v.items ->
         [v EXCEPT !.count = [v.count EXCEPT ![e.item] = e.count]]
    [] OTHER -> v

SetStatus(v, o, st, s) ==
  [v EXCEPT !.order = [v.order EXCEPT ![o] =
     [v.order[o] EXCEPT !.status = st, !.session = s]]]

\* OrdersProjection.apply: a transition overwrites the status whatever it was;
\* one for an order never reserved is dropped.
ApplyOrders(v, e) ==
  CASE e.type = "order_reserved" ->
         [v EXCEPT !.order = [v.order EXCEPT ![e.order] =
            [status |-> "reserved", item |-> e.item, qty |-> e.qty, session |-> NoSession]]]
    [] e.type = "order_paid" /\ v.order[e.order] # NoOrder ->
         SetStatus(v, e.order, "paid", e.session)
    [] e.type = "order_packed" /\ v.order[e.order] # NoOrder ->
         SetStatus(v, e.order, "packed", v.order[e.order].session)
    [] e.type = "order_cancelled" /\ v.order[e.order] # NoOrder ->
         SetStatus(v, e.order, "cancelled", v.order[e.order].session)
    [] OTHER -> v

\* One event through both subscribers, the orders projection first.
Apply(v, e) == ApplyCatalog(ApplyOrders(v, e), e)
=============================================================================
