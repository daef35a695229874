------------------------------- MODULE Stubs -------------------------------
(***************************************************************************)
(* The in-memory services the tests and FRUITMARKET_USE_STUBS=1 put in the  *)
(* place of the event-sourced ones.  Each method is a function from what the *)
(* services hold to what they hold then; a method that raises or returns    *)
(* early gives back what it was given.  Ids are drawn by the caller here.   *)
(***************************************************************************)
EXTENDS StallProperties, SequencesExt

-----------------------------------------------------------------------------
(* Catalog, inventory, pricing. *)

Upsert(v, i, n) == [v EXCEPT !.items = @ \cup {i}, !.count[i] = n]

StubSetActiveItem(v, i) == IF i \in v.items THEN [v EXCEPT !.active = i] ELSE v

\* No event, and no gate: every count is stored.
StubReconcile(v, i, n) == IF i \in v.items /\ n >= 0 THEN Upsert(v, i, n) ELSE v

\* quote raises for an unknown item or no quantity; a price of 0 is a price.
Quoted(v, i, q) == i \in v.items /\ q > 0

-----------------------------------------------------------------------------
(* Orders. *)

PutOrder(v, o, status) == [v EXCEPT !.order[o].status = status]

StubReserve(v, o, i, q) ==
  IF Quoted(v, i, q) /\ v.count[i] >= q
  THEN StubReconcile(
         [v EXCEPT !.order[o] = [status |-> "reserved", item |-> i, qty |-> q, session |-> NoSession]],
         i, v.count[i] - q)
  ELSE v

\* Whatever the order's status is, but a second payment is ignored.
StubMarkPaid(v, o, s) ==
  IF v.order[o].status \in {"none", "paid"} THEN v
  ELSE [PutOrder(v, o, "paid") EXCEPT !.order[o].session = s]

StubMarkPacked(v, o) == IF v.order[o] = NoOrder THEN v ELSE PutOrder(v, o, "packed")

StubCancelKeeps(v, o) ==   \* (mutant) no stock comes back
  IF v.order[o] = NoOrder THEN v ELSE PutOrder(v, o, "cancelled")

\* A reservation gives its stock back, to the count of this moment.
StubCancel(v, o) ==
  LET ord == v.order[o]
      returned == IF ord.status = "reserved" THEN StubReconcile(v, ord.item, v.count[ord.item] + ord.qty) ELSE v
  IN  IF ord = NoOrder THEN v ELSE PutOrder(returned, o, "cancelled")

-----------------------------------------------------------------------------
(* Teach. *)

StubConfirm(v, i) == StubSetActiveItem(Upsert(v, i, SeedCount[i]), i)

-----------------------------------------------------------------------------
\* What the log will say once the call of t has appended all it has to.
Outcome(t) == FoldLeft(Apply, Durable, call'[t].todo)

\* The session of a second payment: the services record it, the fakes do not.
ButForSession(v, o) == [v EXCEPT !.order[o].session = NoSession]

\* "The Protocol classes are the contract both implementations satisfy"
\* (services/__init__.py:9): whatever a service does to a shop, its fake does too,
\* in every shop the services can get into, and what the service refuses for
\* want of stock the fake refuses.  (What the fakes do to calls the services
\* refuse for the order's status or for a price of 0 is another matter.)
StubsAgree ==
  [][\A t \in Threads :
       LET c == call[t] IN
       /\ ReserveCommit(t) => Durable' = StubReserve(Durable, c.order, c.item, c.qty)
       /\ ReserveRefuse(t) /\ c.item \notin Free => Durable = StubReserve(Durable, c.order, c.item, c.qty)
       /\ CancelCommit(t) => Durable' = StubCancel(Durable, c.order)
       /\ TeachCommit(t) => Durable' = StubConfirm(Durable, c.item)
       /\ \A i \in Items :
            /\ SetActiveRead(t, i) => Outcome(t) = StubSetActiveItem(Durable, i)
            /\ \A n \in Counts, src \in Sources :
                 ReconcileRead(t, i, n, src) => Outcome(t) = StubReconcile(Durable, i, n)
       /\ \A o \in OrderIds :
            /\ MarkPackedRead(t, o) => Outcome(t) = StubMarkPacked(Durable, o)
            /\ \A s \in Sessions :
                 MarkPaidRead(t, o, s) =>
                   ButForSession(Outcome(t), o) = ButForSession(StubMarkPaid(Durable, o, s), o)]_vars
=============================================================================
