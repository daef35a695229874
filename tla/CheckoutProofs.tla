---------------------------- MODULE CheckoutProofs ----------------------------
(***************************************************************************)
(* Proofs about calls and payments, for any calls, any stock, any number of *)
(* sessions and faults, and whatever Stripe delivers again.                 *)
(***************************************************************************)
EXTENDS CheckoutProperties, TLAPS

-----------------------------------------------------------------------------
(* The inductive invariant. *)

OrderStatuses == {"none", "reserved", "paid", "packed", "cancelled"}

TypesOK ==
  /\ order \in [Calls -> OrderStatuses]
  /\ recorded \in [Calls -> Seq(Slots)] /\ receipts \in [Calls -> Nat]
  /\ task \in [Calls -> {"none", "reserve", "checkout", "talk", "over"}]
  /\ texts \in [Calls -> SUBSET {"link", "apology"}]
  /\ event \in [Events -> {"none", "due", "acked"}]
  /\ handler = Idle \/ handler \in Events

\* The status of an order tells whether its payment is recorded, and while the
\* receipt of a payment is owed no receipt was sent for its order.
LedgerOK ==
  /\ \A c \in Calls :
       /\ order[c] \in {"none", "reserved"} => recorded[c] = <<>>
       /\ order[c] \in {"paid", "packed"} => recorded[c] # <<>>
       /\ receipts[c] <= Len(recorded[c]) /\ Len(recorded[c]) <= 1
  /\ handler # Idle =>
       Pays(handler) /\ recorded[handler.call] # <<>> /\ receipts[handler.call] = 0
  /\ \A e \in Events : Pays(e) /\ event[e] = "acked" => recorded[e.call] # <<>>

\* How far a call is tells whether it has an order and what can have been texted.
TasksOK ==
  \A c \in Calls :
    /\ task[c] \in {"none", "reserve"} => order[c] = "none"
    /\ task[c] \in {"none", "reserve", "checkout"} => texts[c] = {}
    /\ task[c] = "talk" => texts[c] \subseteq {"link"}
    /\ texts[c] # {"link", "apology"}

IInv == TypesOK /\ LedgerOK /\ TasksOK

-----------------------------------------------------------------------------
(* The parts of the invariant a step leaves alone. *)

\* Of the ledger nothing changes but that Stripe raises events.
LedgerRests ==
  /\ UNCHANGED <<order, recorded, handler, receipts>>
  /\ event' \in [Events -> {"none", "due", "acked"}]
  /\ \A e \in Events : event'[e] = "acked" => event[e] = "acked"

\* No call proceeds and no order is made.
TasksRest ==
  /\ UNCHANGED <<task, texts>>
  /\ \A c \in Calls : order[c] = "none" => order'[c] = "none"

LEMMA LedgerRestsKeeps ==
  ASSUME LedgerOK, LedgerRests
  PROVE  LedgerOK'
BY DEF LedgerOK, LedgerRests, Pays

LEMMA TasksRestKeeps ==
  ASSUME TasksOK, TasksRest
  PROVE  TasksOK'
BY DEF TasksOK, TasksRest

LEMMA QuietRests ==
  ASSUME TypesOK, UNCHANGED <<order, recorded, handler, receipts, event>>
  PROVE  LedgerRests
BY DEF TypesOK, LedgerRests

LEMMA RaiseRests ==
  ASSUME TypesOK, NEW c, NEW k, NEW types, Raise(c, k, types),
         UNCHANGED <<order, recorded, handler, receipts>>
  PROVE  LedgerRests
BY DEF TypesOK, LedgerRests, Raise

LEMMA OneLong ==
  ASSUME NEW S, NEW s \in Seq(S), s # <<>>, Len(s) <= 1
  PROVE  Len(s) = 1 /\ s = <<s[1]>> /\ s[1] \in S
<1>1. Len(s) \in Nat /\ Len(s) # 0
  OBVIOUS
<1>2. Len(s) = 1
  BY <1>1
<1>3. QED
  BY <1>2

LEMMA PostIs ==
  ASSUME TypesOK, NEW c \in Calls, NEW what \in {"link", "apology"}, Post(c, what)
  PROVE  /\ texts' \in [Calls -> SUBSET {"link", "apology"}]
         /\ \A d \in Calls : texts'[d] \subseteq IF d = c THEN texts[c] \cup {what} ELSE texts[d]
<1>1. texts \in [Calls -> SUBSET {"link", "apology"}]
  BY DEF TypesOK
<1>2. texts' = texts \/ texts' = [texts EXCEPT ![c] = texts[c] \cup {what}]
  BY DEF Post
<1>3. QED
  BY <1>1, <1>2

-----------------------------------------------------------------------------
(* The steps. *)

\* A call of which only how far it is changes.
LEMMA GotoKeeps ==
  ASSUME IInv, NEW c \in Calls, NEW step \in {"reserve", "checkout", "talk", "over"}, Goto(c, step),
         UNCHANGED <<order, recorded, handler, receipts, event, texts>>,
         \/ step = "over"
         \/ task[c] = "none" /\ step # "checkout"
  PROVE  IInv'
<1> USE DEF IInv
<1>1. TypesOK'
  BY DEF TypesOK, Goto
<1>2. LedgerOK'
  BY LedgerRestsKeeps, QuietRests
<1>3. TasksOK'
  BY DEF TypesOK, TasksOK, Goto
<1>4. QED
  BY <1>1, <1>2, <1>3

\* A call that gives up or is done with one more text.
LEMMA TextKeeps ==
  ASSUME IInv, NEW c \in Calls, NEW what \in {"link", "apology"}, Post(c, what),
         UNCHANGED <<order, recorded, handler, receipts, event>>,
         \/ Goto(c, "over") /\ task[c] \in {"reserve", "checkout"}
         \/ UNCHANGED task /\ task[c] = "talk" /\ what = "link"
  PROVE  IInv'
<1> USE DEF IInv
<1>1. TypesOK'
  BY PostIs DEF TypesOK, Goto
<1>2. LedgerOK'
  BY LedgerRestsKeeps, QuietRests
<1>3. TasksOK'
  <2>1. ASSUME NEW d \in Calls, d # c
        PROVE  task'[d] = task[d] /\ texts'[d] \subseteq texts[d]
    BY <2>1, PostIs DEF TypesOK, Goto
  <2>2. texts'[c] \subseteq texts[c] \cup {what}
    BY PostIs
  <2>3. ASSUME NEW d \in Calls, d # c
        PROVE  /\ task'[d] \in {"none", "reserve"} => order'[d] = "none"
               /\ task'[d] \in {"none", "reserve", "checkout"} => texts'[d] = {}
               /\ task'[d] = "talk" => texts'[d] \subseteq {"link"}
               /\ texts'[d] # {"link", "apology"}
    <3>1. texts[d] \in SUBSET {"link", "apology"}
      BY DEF TypesOK
    <3>2. QED
      BY <2>1, <2>3, <3>1 DEF TasksOK
  <2>4. CASE Goto(c, "over") /\ task[c] \in {"reserve", "checkout"}
    <3>1. task'[c] = "over" /\ texts[c] = {}
      BY <2>4 DEF TypesOK, TasksOK, Goto
    <3>2. QED
      BY <2>2, <2>3, <3>1 DEF TasksOK
  <2>5. CASE UNCHANGED task /\ task[c] = "talk" /\ what = "link"
    <3>1. texts[c] \subseteq {"link"}
      BY <2>5 DEF TasksOK
    <3>2. QED
      BY <2>2, <2>3, <2>5, <3>1 DEF TasksOK
  <2>6. QED
    BY <2>4, <2>5
<1>4. QED
  BY <1>1, <1>2, <1>3

\* An order is made for a call that has none.
LEMMA ReserveKeeps ==
  ASSUME IInv, NEW c \in Calls, ReserveOrder(c), order[c] = "none",
         UNCHANGED <<handler, receipts, event, texts>>,
         \/ Goto(c, "checkout") /\ task[c] = "reserve"
         \/ UNCHANGED task /\ task[c] = "talk"
  PROVE  IInv'
<1> USE DEF IInv
<1>1. TypesOK'
  BY DEF TypesOK, Goto, ReserveOrder, OrderStatuses
<1>2. LedgerOK'
  BY DEF TypesOK, LedgerOK, ReserveOrder, Pays
<1>3. TasksOK'
  BY DEF TypesOK, TasksOK, Goto, ReserveOrder
<1>4. QED
  BY <1>1, <1>2, <1>3

\* Whatever is decided about an order that there is, but its payment.
LEMMA DecideKeeps ==
  ASSUME IInv, NEW c \in Calls, NEW status \in {"packed", "cancelled"},
         order' = [order EXCEPT ![c] = status], order[c] \in {"reserved", "paid"},
         status = "packed" => order[c] = "paid",
         UNCHANGED <<recorded, receipts, task, texts, handler>>,
         \/ UNCHANGED event
         \/ \E e \in Events : ~Pays(e) /\ Ack(e)
  PROVE  IInv'
<1> USE DEF IInv
<1>1. TypesOK'
  BY DEF TypesOK, OrderStatuses, Ack
<1>2. \A e \in Events : Pays(e) => event'[e] = event[e]
  BY DEF TypesOK, Ack
<1>3. LedgerOK'
  BY <1>2 DEF TypesOK, LedgerOK, Pays
<1>4. TasksOK'
  BY TasksRestKeeps DEF TasksRest, TypesOK
<1>5. QED
  BY <1>1, <1>3, <1>4

\* An event is answered that changes no order: a failure, or what is paid already.
LEMMA AckKeeps ==
  ASSUME IInv, NEW e \in Events, Ack(e), UNCHANGED <<order, recorded, receipts, task, texts, handler>>,
         Pays(e) => recorded[e.call] # <<>>
  PROVE  IInv'
<1> USE DEF IInv
<1>1. TypesOK'
  BY DEF TypesOK, Ack
<1>2. LedgerOK'
  BY DEF TypesOK, LedgerOK, Pays, Ack
<1>3. TasksOK'
  BY TasksRestKeeps DEF TasksRest
<1>4. QED
  BY <1>1, <1>2, <1>3

LEMMA MarkPaidKeeps ==
  ASSUME IInv, NEW e \in Events, LoopFree, MarkPaid(e)
  PROVE  IInv'
<1> USE DEF IInv
<1>1. e.call \in Calls /\ e.slot \in Slots /\ handler = Idle
  BY DEF Events, LoopFree
<1>2. PICK c \in Calls, k \in Slots : c = e.call /\ k = e.slot
  BY <1>1
<1>3. /\ order[c] = "reserved" /\ order' = [order EXCEPT ![c] = "paid"]
      /\ recorded' = [recorded EXCEPT ![c] = Append(@, k)] /\ handler' = e /\ Pays(e)
      /\ UNCHANGED <<event, receipts, task, texts>>
  BY <1>2 DEF MarkPaid, Recorded, stripe
<1>4. recorded[c] = <<>> /\ receipts[c] = 0
  BY <1>2, <1>3 DEF LedgerOK, TypesOK
<1>5. recorded' = [recorded EXCEPT ![c] = <<k>>]
  BY <1>3, <1>4 DEF TypesOK
<1>6. TypesOK'
  BY <1>3, <1>5 DEF TypesOK, OrderStatuses
<1>7. LedgerOK'
  <2>1. /\ \A d \in Calls : recorded'[d] = IF d = c THEN <<k>> ELSE recorded[d]
        /\ \A d \in Calls : order'[d] = IF d = c THEN "paid" ELSE order[d]
    BY <1>3, <1>5 DEF TypesOK
  <2>2. \A d \in Events : d.call \in Calls
    BY DEF Events
  <2>3. \A d \in Events : Pays(d) /\ event'[d] = "acked" => recorded'[d.call] # <<>>
    BY <1>3, <2>1, <2>2 DEF LedgerOK
  <2>4. QED
    BY <1>2, <1>3, <1>4, <2>1, <2>3 DEF LedgerOK, Pays
<1>8. TasksOK'
  BY <1>3, TasksRestKeeps DEF TasksRest, TypesOK
<1>9. QED
  BY <1>6, <1>7, <1>8

LEMMA NotifyKeeps ==
  ASSUME IInv, Notify
  PROVE  IInv'
<1> USE DEF IInv
<1>1. handler \in Events /\ handler.call \in Calls
  BY DEF TypesOK, Notify, Events
<1>2. PICK c \in Calls, e \in Events : c = handler.call /\ e = handler
  BY <1>1
<1>3. /\ receipts' = [receipts EXCEPT ![c] = @ + 1] /\ event' = [event EXCEPT ![e] = "acked"]
      /\ handler' = Idle /\ UNCHANGED <<order, recorded, task, texts>>
  BY <1>2 DEF Notify, Ack, shop
<1>4. Pays(e) /\ Len(recorded[c]) = 1 /\ recorded[c] # <<>> /\ receipts[c] = 0
  <2>1. Pays(e) /\ recorded[c] # <<>> /\ Len(recorded[c]) <= 1 /\ receipts[c] = 0
    BY <1>2 DEF LedgerOK, Notify
  <2>2. recorded[c] \in Seq(Slots)
    BY DEF TypesOK
  <2>3. QED
    BY <2>1, <2>2, OneLong
<1>5. TypesOK'
  BY <1>3, <1>4 DEF TypesOK
<1>6. LedgerOK'
  BY <1>2, <1>3, <1>4 DEF TypesOK, LedgerOK, Pays
<1>7. TasksOK'
  BY <1>3, TasksRestKeeps DEF TasksRest
<1>8. QED
  BY <1>5, <1>6, <1>7

LEMMA CrashKeeps ==
  ASSUME IInv, Crash
  PROVE  IInv'
<1> USE DEF IInv
<1>1. /\ task' = [c \in Calls |-> IF task[c] = "none" THEN "none" ELSE "over"] /\ handler' = Idle
      /\ UNCHANGED <<order, recorded, event, receipts, texts>>
  BY DEF Crash, shop, stripe
<1>2. TypesOK'
  BY <1>1 DEF TypesOK
<1>3. LedgerOK'
  BY <1>1 DEF LedgerOK, Pays
<1>4. TasksOK'
  BY <1>1 DEF TasksOK, TypesOK
<1>5. QED
  BY <1>2, <1>3, <1>4

LEMMA StripeKeeps ==
  ASSUME IInv, NEW c \in Calls, NEW k \in Slots, SessionEnds(c, k) \/ Decline(c, k)
  PROVE  IInv'
<1> USE DEF IInv
<1>1. \E types : Raise(c, k, types)
  BY DEF SessionEnds, Pay, Expire, Decline
<1>2. UNCHANGED <<order, recorded, task, handler, receipts, texts>>
  BY DEF SessionEnds, Pay, Expire, Decline, shop
<1>3. LedgerRests
  BY <1>1, <1>2, RaiseRests
<1>4. QED
  BY <1>2, <1>3, LedgerRestsKeeps, TasksRestKeeps DEF LedgerRests, TasksRest, TypesOK

\* One delivery of Stripe's, of an event that is due or was answered before.
LEMMA HandleKeeps ==
  ASSUME IInv, NEW e \in Events, Handle(e)
  PROVE  IInv'
<1> USE DEF IInv
<1>1. e.call \in Calls /\ LoopFree
  BY DEF Events, Handle
<1>2. CASE FailedCheckout(e)
  <2>1. ~Pays(e) /\ Ack(e) /\ UNCHANGED <<task, handler, receipts, texts>>
    BY <1>2 DEF FailedCheckout, Fails, Pays, FailureEvents, PaymentEvents
  <2>2. CASE UNCHANGED shop
    BY <2>1, <2>2, AckKeeps DEF shop
  <2>3. CASE order[e.call] = "reserved" /\ CancelOrder(e.call)
    BY <1>1, <2>1, <2>3, DecideKeeps DEF CancelOrder
  <2>4. QED
    BY <1>2, <2>2, <2>3 DEF FailedCheckout
<1>3. CASE AlreadyPaid(e)
  <2>1. recorded[e.call] # <<>>
    BY <1>1, <1>3 DEF AlreadyPaid, Recorded, LedgerOK
  <2>2. QED
    BY <1>3, <2>1, AckKeeps DEF AlreadyPaid, shop
<1>4. CASE MarkPaid(e)
  BY <1>1, <1>4, MarkPaidKeeps
<1>5. CASE Raises(e)
  BY <1>5 DEF Raises, Refused, vars, shop, stripe, TypesOK, LedgerOK, TasksOK, Pays
<1>6. QED
  BY <1>2, <1>3, <1>4, <1>5 DEF Handle

\* Ringing, buying, talking.
LEMMA CallKeeps ==
  ASSUME IInv, NEW c \in Calls,
         \/ Ring(c) \/ Purchase(c)
         \/ Talk(c) \/ ReserveTool(c) \/ CheckoutTool(c) \/ Reply(c)
  PROVE  IInv'
<1> USE DEF IInv
<1>1. CASE Ring(c) \/ Talk(c) \/ Reply(c)
  BY <1>1, GotoKeeps DEF Ring, Talk, Reply, shop, stripe
<1>2. CASE Reserve(c)
  <2>1. CASE ReserveOrder(c) /\ Goto(c, "checkout") /\ UNCHANGED texts
    <3>1. task[c] = "reserve" /\ order[c] = "none"
      BY <1>2 DEF Reserve, TasksOK
    <3>2. QED
      BY <1>2, <2>1, <3>1, ReserveKeeps DEF Reserve, stripe
  <2>2. CASE Goto(c, "over") /\ Post(c, "apology") /\ UNCHANGED shop
    BY <1>2, <2>2, TextKeeps DEF Reserve, shop, stripe
  <2>3. QED
    BY <1>2, <2>1, <2>2 DEF Reserve
<1>3. CASE CreateCheckout(c) \/ CheckoutFails(c)
  BY <1>3, TextKeeps DEF CreateCheckout, CheckoutFails, shop
<1>4. CASE ReserveTool(c)
  BY <1>4, ReserveKeeps DEF ReserveTool, stripe
<1>5. CASE CheckoutTool(c)
  BY <1>5, TextKeeps DEF CheckoutTool, shop
<1>6. QED
  BY <1>1, <1>2, <1>3, <1>4, <1>5 DEF Purchase

LEMMA InitIInv ==
  ASSUME Init
  PROVE  IInv
BY DEF Init, IInv, TypesOK, LedgerOK, TasksOK, OrderStatuses

LEMMA NextIInv ==
  ASSUME IInv, [Next]_vars
  PROVE  IInv'
<1> USE DEF IInv
<1>1. ASSUME NEW c \in Calls, Pack(c) PROVE IInv'
  BY <1>1, DecideKeeps DEF Pack, stripe
<1>2. ASSUME NEW c \in Calls, Cancel(c) PROVE IInv'
  BY <1>2, DecideKeeps DEF Cancel, CancelOrder, stripe
<1>3. ASSUME NEW e \in Events, Deliver(e) \/ Redeliver(e) PROVE IInv'
  BY <1>3, HandleKeeps DEF Deliver, Redeliver
<1>4. CASE UNCHANGED vars
  BY <1>4 DEF vars, shop, stripe, TypesOK, LedgerOK, TasksOK, Pays
<1>5. QED
  BY <1>1, <1>2, <1>3, <1>4, CallKeeps, StripeKeeps, NotifyKeeps, CrashKeeps DEF Next

LEMMA IInvAlways == Spec => []IInv
BY InitIInv, NextIInv, PTL DEF Spec

-----------------------------------------------------------------------------
(* What Stripe owes. *)

States == {"open", "complete", "expired"}

\* The event that tells of the end of the k-th session of a call's order.
Ended(c, k, type) == [call |-> c, slot |-> k, type |-> type]

\* An order comes before its sessions and a session before its events, a session that
\* ended raised its event, a receipt is owed for an event Stripe raised, and the event of
\* a failure that was answered left no reservation but one whose release raised.
OwedOK ==
  /\ session \in [Calls -> Seq(States)]
  /\ \A c \in Calls :
       /\ task[c] = "checkout" => order[c] # "none"
       /\ order[c] = "none" => session[c] = <<>>
       /\ \A k \in DOMAIN session[c] :
            /\ session[c][k] = "complete" =>
                 k \in Slots /\ event[Ended(c, k, "session.completed")] # "none"
            /\ session[c][k] = "expired" =>
                 k \in Slots /\ event[Ended(c, k, "session.expired")] # "none"
  /\ \A e \in Events :
       /\ order[e.call] = "none" => event[e] = "none"
       /\ Fails(e) /\ event[e] = "acked" => order[e.call] # "reserved" \/ e.call \in stuck
  /\ handler # Idle => handler \in Events /\ event[handler] # "none"

\* Of what Stripe owes a step changes nothing: orders are made or decided, and what was
\* raised stays raised.
OrdersMove ==
  /\ \A c \in Calls :
       /\ order'[c] = "none" => order[c] = "none"
       /\ order'[c] = "reserved" => order[c] \in {"none", "reserved"}
       /\ task'[c] = "checkout" => order'[c] # "none"
  /\ stuck \subseteq stuck'
  /\ handler' # Idle => handler' \in Events /\ event[handler'] # "none"

LEMMA OrdersMoveKeeps ==
  ASSUME OwedOK, OrdersMove, UNCHANGED <<session, event>>
  PROVE  OwedOK'
<1>1. \A e \in Events : e.call \in Calls
  BY DEF Events
<1>2. QED
  BY <1>1 DEF OwedOK, OrdersMove, Ended, Fails

\* An event is answered: of a payment, or of a failure that leaves no reservation but
\* one that is stuck.
LEMMA AckOwed ==
  ASSUME IInv, OwedOK, OrdersMove, UNCHANGED session, NEW e \in Events, Ack(e), event[e] # "none",
         Fails(e) => order'[e.call] # "reserved" \/ e.call \in stuck'
  PROVE  OwedOK'
<1>1. /\ \A d \in Events : d.call \in Calls
      /\ \A d \in Events : event'[d] = IF d = e THEN "acked" ELSE event[d]
  BY DEF Events, IInv, TypesOK, Ack
<1>2. ASSUME NEW c \in Calls, NEW k \in Slots,
             NEW type \in {"session.completed", "session.expired"}, event[Ended(c, k, type)] # "none"
      PROVE  event'[Ended(c, k, type)] # "none"
  <2>1. Ended(c, k, type) \in Events
    BY DEF Ended, Events, PaymentEvents, FailureEvents
  <2>2. QED
    BY <1>1, <1>2, <2>1
<1>3. ASSUME NEW d \in Events
      PROVE  /\ order'[d.call] = "none" => event'[d] = "none"
             /\ Fails(d) /\ event'[d] = "acked" => order'[d.call] # "reserved" \/ d.call \in stuck'
  <2>1. d.call \in Calls
    BY <1>1
  <2>2. CASE d = e
    BY <1>1, <2>1, <2>2 DEF OwedOK, OrdersMove
  <2>3. CASE d # e
    BY <1>1, <2>1, <2>3 DEF OwedOK, OrdersMove
  <2>4. QED
    BY <2>2, <2>3
<1>4. \A d \in Events : /\ order'[d.call] = "none" => event'[d] = "none"
                        /\ Fails(d)' /\ event'[d] = "acked" =>
                             order'[d.call] # "reserved" \/ d.call \in stuck'
  BY <1>3 DEF Fails
<1>5. handler' # Idle => handler' \in Events /\ event'[handler'] # "none"
  BY <1>1 DEF OrdersMove
<1>6. ASSUME NEW c \in Calls, NEW k \in DOMAIN session'[c]
      PROVE  /\ session'[c][k] = "complete" =>
                  k \in Slots /\ event'[Ended(c, k, "session.completed")] # "none"
             /\ session'[c][k] = "expired" =>
                  k \in Slots /\ event'[Ended(c, k, "session.expired")] # "none"
  BY <1>2, <1>6 DEF OwedOK
<1>7. \A c \in Calls : /\ order'[c] = "none" => session'[c] = <<>>
                       /\ task'[c] = "checkout" => order'[c] # "none"
  BY DEF OwedOK, OrdersMove
<1>8. session' \in [Calls -> Seq(States)]
  BY DEF OwedOK
<1>9. QED
  BY <1>4, <1>5, <1>6, <1>7, <1>8 DEF OwedOK, Ended

\* A session is opened for an order that there is.
LEMMA OpenOwed ==
  ASSUME IInv, OwedOK, NEW c \in Calls, order[c] # "none", OpenSession(c) \/ UNCHANGED session,
         UNCHANGED <<order, event, stuck, handler>>, UNCHANGED task \/ Goto(c, "over")
  PROVE  OwedOK'
<1>1. ASSUME OpenSession(c)
      PROVE  /\ session' \in [Calls -> Seq(States)]
             /\ \A d \in Calls \ {c} : session'[d] = session[d]
             /\ \A k \in DOMAIN session'[c] :
                  \/ session'[c][k] = "open"
                  \/ k \in DOMAIN session[c] /\ session'[c][k] = session[c][k]
  <2>1. /\ session[c] \in Seq(States) /\ "open" \in States
        /\ session' = [session EXCEPT ![c] = Append(session[c], "open")]
    BY <1>1 DEF OwedOK, OpenSession, States
  <2>2. /\ Append(session[c], "open") \in Seq(States)
        /\ \A k \in DOMAIN Append(session[c], "open") :
             \/ Append(session[c], "open")[k] = "open"
             \/ k \in DOMAIN session[c] /\ Append(session[c], "open")[k] = session[c][k]
    <3> HIDE DEF States
    <3> QED  BY <2>1
  <2>3. QED
    BY <2>1, <2>2 DEF OwedOK
<1>2. \A d \in Calls : task'[d] = "checkout" => order'[d] # "none"
  BY DEF Goto, IInv, TypesOK, OwedOK
<1>3. CASE UNCHANGED session
  BY <1>2, <1>3, OrdersMoveKeeps DEF OrdersMove, OwedOK
<1>4. CASE OpenSession(c)
  <2>1. ASSUME NEW d \in Calls, NEW k \in DOMAIN session'[d]
        PROVE  /\ session'[d][k] = "complete" =>
                    k \in Slots /\ event'[Ended(d, k, "session.completed")] # "none"
               /\ session'[d][k] = "expired" =>
                    k \in Slots /\ event'[Ended(d, k, "session.expired")] # "none"
    <3>1. CASE d = c
      <4>1. CASE session'[c][k] = "open"
        BY <3>1, <4>1
      <4>2. CASE k \in DOMAIN session[c] /\ session'[c][k] = session[c][k]
        BY <3>1, <4>2 DEF OwedOK
      <4>3. QED
        BY <1>1, <1>4, <3>1, <4>1, <4>2
    <3>2. CASE d # c
      <4>1. session'[d] = session[d]
        BY <1>1, <1>4, <3>2
      <4>2. QED
        BY <4>1 DEF OwedOK
    <3>3. QED
      BY <3>1, <3>2
  <2>2. \A d \in Calls : order'[d] = "none" => session'[d] = <<>>
    BY <1>1, <1>4 DEF OwedOK
  <2>3. QED
    BY <1>1, <1>2, <1>4, <2>1, <2>2 DEF OwedOK, Ended, Fails
<1>5. QED
  BY <1>3, <1>4

\* A session is paid, expires, or has a card declined.
LEMMA StripeOwed ==
  ASSUME IInv, OwedOK, NEW c \in Calls, NEW k \in Slots, SessionEnds(c, k) \/ Decline(c, k)
  PROVE  OwedOK'
<1>1. /\ k \in DOMAIN session[c] /\ session[c][k] = "open" /\ session[c] \in Seq(States)
      /\ order[c] # "none" /\ UNCHANGED <<order, task, stuck, handler>>
  BY DEF SessionEnds, Pay, Expire, Decline, IsOpen, OwedOK, shop
<1>2. PICK types \in SUBSET (PaymentEvents \cup FailureEvents), s \in States :
        /\ Raise(c, k, types)
        /\ session' = [session EXCEPT ![c][k] = s]
        /\ s = "complete" => "session.completed" \in types
        /\ s = "expired" => "session.expired" \in types
  <2>1. CASE Pay(c, k)
    BY <2>1 DEF Pay, States, PaymentEvents
  <2>2. CASE Expire(c, k)
    BY <2>2 DEF Expire, States, FailureEvents
  <2>3. CASE Decline(c, k)
    <3>1. session' = [session EXCEPT ![c][k] = "open"]
      BY <1>1, <2>3 DEF Decline, OwedOK
    <3>2. QED
      BY <2>3, <3>1 DEF Decline, States, FailureEvents
  <2>4. QED
    BY <2>1, <2>2, <2>3 DEF SessionEnds
<1>3. /\ session' \in [Calls -> Seq(States)]
      /\ \A d \in Calls : DOMAIN session'[d] = DOMAIN session[d]
      /\ \A d \in Calls : \A j \in DOMAIN session[d] :
           session'[d][j] = IF d = c /\ j = k THEN s ELSE session[d][j]
  <2>1. [session[c] EXCEPT ![k] = s] \in Seq(States)
    BY <1>1
  <2>2. session' = [session EXCEPT ![c] = [session[c] EXCEPT ![k] = s]]
    BY <1>2
  <2>3. QED
    BY <2>1, <2>2, <1>1 DEF OwedOK
<1>4. \A e \in Events :
        event'[e] = IF e.call = c /\ e.slot = k /\ e.type \in types /\ event[e] = "none"
                    THEN "due" ELSE event[e]
  BY <1>2 DEF Raise
<1>5. \A e \in Events : e.call \in Calls
  BY DEF Events
<1>6. ASSUME NEW d \in Calls, NEW j \in Slots, NEW type \in {"session.completed", "session.expired"},
             event[Ended(d, j, type)] # "none" \/ (d = c /\ j = k /\ type \in types)
      PROVE  event'[Ended(d, j, type)] # "none"
  <2>1. /\ Ended(d, j, type) \in Events /\ Ended(d, j, type).call = d
        /\ Ended(d, j, type).slot = j /\ Ended(d, j, type).type = type
    BY DEF Ended, Events, PaymentEvents, FailureEvents
  <2>2. QED
    BY <1>4, <1>6, <2>1
<1>7. ASSUME NEW d \in Calls, NEW j \in DOMAIN session'[d]
      PROVE  /\ session'[d][j] = "complete" =>
                  j \in Slots /\ event'[Ended(d, j, "session.completed")] # "none"
             /\ session'[d][j] = "expired" =>
                  j \in Slots /\ event'[Ended(d, j, "session.expired")] # "none"
  <2>1. CASE d = c /\ j = k
    BY <1>1, <1>2, <1>3, <1>6, <2>1
  <2>2. CASE ~(d = c /\ j = k)
    <3>1. j \in DOMAIN session[d] /\ session'[d][j] = session[d][j]
      BY <1>3, <2>2
    <3>2. QED
      BY <1>6, <3>1 DEF OwedOK
  <2>3. QED
    BY <2>1, <2>2
<1>8. ASSUME NEW e \in Events
      PROVE  /\ order'[e.call] = "none" => event'[e] = "none"
             /\ Fails(e) /\ event'[e] = "acked" => order'[e.call] # "reserved" \/ e.call \in stuck'
  BY <1>1, <1>4, <1>5 DEF OwedOK
<1>9. \A d \in Calls : order'[d] = "none" => session'[d] = <<>>
  <2>1. ASSUME NEW d \in Calls, order'[d] = "none" PROVE session'[d] = <<>>
    <3>1. d # c /\ session[d] = <<>>
      BY <1>1, <2>1 DEF OwedOK
    <3>2. session'[d] = session[d]
      BY <1>2, <3>1 DEF OwedOK
    <3>3. QED
      BY <3>1, <3>2
  <2>2. QED
    BY <2>1
<1>10. handler' # Idle => handler' \in Events /\ event'[handler'] # "none"
  BY <1>1, <1>4 DEF OwedOK
<1>11. \A d \in Calls : task'[d] = "checkout" => order'[d] # "none"
  BY <1>1 DEF OwedOK
<1>12. QED
  BY <1>3, <1>7, <1>8, <1>9, <1>10, <1>11 DEF OwedOK, Ended, Fails

LEMMA HandleOwed ==
  ASSUME IInv, OwedOK, NEW e \in Events, Handle(e), event[e] # "none"
  PROVE  OwedOK'
<1>1. e.call \in Calls /\ order \in [Calls -> OrderStatuses]
  BY DEF Events, IInv, TypesOK
<1>2. CASE FailedCheckout(e)
  <2>1. Ack(e) /\ UNCHANGED <<session, task>>
    BY <1>2 DEF FailedCheckout
  <2>2. CASE order[e.call] # "reserved" /\ UNCHANGED <<shop, faults, stuck>>
    <3>1. OrdersMove
      BY <1>2, <2>1, <2>2 DEF FailedCheckout, OrdersMove, OwedOK, shop
    <3>2. QED
      BY <2>1, <2>2, <3>1, AckOwed DEF shop
  <2>3. CASE order[e.call] = "reserved" /\ CancelOrder(e.call) /\ UNCHANGED <<faults, stuck>>
    <3>1. OrdersMove
      BY <1>1, <1>2, <2>1, <2>3 DEF FailedCheckout, OrdersMove, OwedOK, CancelOrder
    <3>2. order'[e.call] # "reserved"
      BY <1>1, <2>3 DEF CancelOrder
    <3>3. QED
      BY <2>1, <2>3, <3>1, <3>2, AckOwed
  <2>4. CASE order[e.call] = "reserved" /\ stuck' = stuck \cup {e.call} /\ UNCHANGED shop
    <3>1. OrdersMove
      BY <1>2, <2>1, <2>4 DEF FailedCheckout, OrdersMove, OwedOK, shop
    <3>2. QED
      BY <2>1, <2>4, <3>1, AckOwed DEF shop
  <2>5. QED
    BY <1>2, <2>2, <2>3, <2>4 DEF FailedCheckout
<1>3. CASE AlreadyPaid(e)
  <2>1. ~Fails(e)
    BY <1>3 DEF AlreadyPaid, Pays, Fails, PaymentEvents, FailureEvents
  <2>2. QED
    BY <1>3, <2>1, AckOwed DEF AlreadyPaid, OrdersMove, OwedOK, shop
<1>4. CASE MarkPaid(e)
  BY <1>1, <1>4, OrdersMoveKeeps DEF MarkPaid, OrdersMove, OwedOK, stripe
<1>5. CASE Raises(e)
  BY <1>5, OrdersMoveKeeps DEF Raises, OrdersMove, OwedOK, vars, shop, stripe
<1>6. QED
  BY <1>2, <1>3, <1>4, <1>5 DEF Handle

\* What is still to be answered of a payment is not answered yet.
LEMMA NotifyOwed ==
  ASSUME IInv, OwedOK, Notify
  PROVE  OwedOK'
<1>1. handler \in Events /\ Pays(handler) /\ event[handler] # "none"
  BY DEF IInv, LedgerOK, OwedOK, Notify
<1>2. ~Fails(handler)
  BY <1>1 DEF Pays, Fails, PaymentEvents, FailureEvents
<1>3. OrdersMove /\ Ack(handler) /\ UNCHANGED session
  BY DEF Notify, OrdersMove, OwedOK, shop
<1>4. QED
  BY <1>1, <1>2, <1>3, AckOwed

LEMMA CallOwed ==
  ASSUME IInv, OwedOK, NEW c \in Calls,
         \/ Ring(c) \/ Purchase(c) \/ Pack(c) \/ Cancel(c)
         \/ Talk(c) \/ ReserveTool(c) \/ CheckoutTool(c) \/ Reply(c)
  PROVE  OwedOK'
<1> USE DEF IInv
<1>1. /\ task \in [Calls -> {"none", "reserve", "checkout", "talk", "over"}]
      /\ order \in [Calls -> OrderStatuses]
  BY DEF TypesOK
<1>2. CASE Ring(c) \/ Talk(c) \/ Reply(c)
  BY <1>1, <1>2, OrdersMoveKeeps DEF Ring, Talk, Reply, Goto, OrdersMove, OwedOK, shop, stripe
<1>3. CASE Reserve(c)
  <2>1. order[c] = "none"
    BY <1>3 DEF Reserve, TasksOK
  <2>2. QED
    BY <1>1, <1>3, <2>1, OrdersMoveKeeps
       DEF Reserve, ReserveOrder, Goto, OrdersMove, OwedOK, shop, stripe
<1>4. CASE ReserveTool(c)
  BY <1>1, <1>4, OrdersMoveKeeps DEF ReserveTool, ReserveOrder, OrdersMove, OwedOK, stripe
<1>5. CASE CreateCheckout(c) \/ CheckoutFails(c)
  BY <1>5, OpenOwed DEF CreateCheckout, CheckoutFails, OwedOK, shop
<1>6. CASE CheckoutTool(c)
  BY <1>6, OpenOwed DEF CheckoutTool, shop
<1>7. CASE Pack(c) \/ Cancel(c)
  BY <1>1, <1>7, OrdersMoveKeeps DEF Pack, Cancel, CancelOrder, OrdersMove, OwedOK, stripe
<1>8. QED
  BY <1>2, <1>3, <1>4, <1>5, <1>6, <1>7 DEF Purchase

LEMMA OwedAlways == Spec => [](IInv /\ OwedOK)
<1>1. ASSUME Init PROVE OwedOK
  <2>1. <<>> \in Seq(States)
    OBVIOUS
  <2>2. session \in [Calls -> Seq(States)] /\ \A c \in Calls : session[c] = <<>>
    BY <1>1, <2>1 DEF Init
  <2>3. \A e \in Events : event[e] = "none"
    BY <1>1 DEF Init
  <2>4. QED
    BY <1>1, <2>2, <2>3 DEF Init, OwedOK
<1>2. ASSUME IInv, OwedOK, [Next]_vars
      PROVE  OwedOK'
  <2>1. ASSUME NEW e \in Events, Deliver(e) \/ Redeliver(e) PROVE OwedOK'
    BY <1>2, <2>1, HandleOwed DEF Deliver, Redeliver
  <2>2. CASE Crash
    <3>1. task' = [c \in Calls |-> IF task[c] = "none" THEN "none" ELSE "over"]
      BY <2>2 DEF Crash
    <3>2. OrdersMove
      BY <1>2, <2>2, <3>1 DEF Crash, OrdersMove, OwedOK, shop
    <3>3. QED
      BY <1>2, <2>2, <3>2, OrdersMoveKeeps DEF Crash, stripe
  <2>3. CASE UNCHANGED vars
    BY <1>2, <2>3, OrdersMoveKeeps DEF OrdersMove, OwedOK, vars, shop, stripe
  <2>4. QED
    BY <1>2, <2>1, <2>2, <2>3, CallOwed, StripeOwed, NotifyOwed DEF Next
<1>3. QED
  BY <1>1, <1>2, IInvAlways, PTL DEF Spec

-----------------------------------------------------------------------------
(* What was paid for. *)

\* An event tells of a payment, and the log has one, only of a session that was paid.
PaidOK ==
  /\ \A e \in Events : Pays(e) /\ event[e] # "none" => Completed(e.call, e.slot)
  /\ \A c \in Calls, k \in Slots : recorded[c] = <<k>> => Completed(c, k)

\* A session that was paid stays so.
LEMMA CompletedStays ==
  ASSUME OwedOK, [Next]_vars, NEW c \in Calls, NEW k \in Slots, Completed(c, k)
  PROVE  Completed(c, k)'
<1>1. session[c] \in Seq(States) /\ k \in DOMAIN session[c] /\ session[c][k] = "complete"
  BY DEF OwedOK, Completed
<1>2. CASE UNCHANGED session
  BY <1>1, <1>2 DEF Completed
<1>3. ASSUME NEW d \in Calls, OpenSession(d)
      PROVE  Completed(c, k)'
  <2>1. session' = [session EXCEPT ![d] = Append(session[d], "open")]
    BY <1>3 DEF OpenSession
  <2>2. CASE d # c
    BY <1>1, <2>1, <2>2 DEF Completed, OwedOK
  <2>3. CASE d = c
    <3>1. session'[c] = Append(session[c], "open")
      BY <2>1, <2>3 DEF OwedOK
    <3>2. k \in DOMAIN Append(session[c], "open") /\ Append(session[c], "open")[k] = session[c][k]
      <4> HIDE DEF States
      <4> QED  BY <1>1
    <3>3. QED
      BY <1>1, <3>1, <3>2 DEF Completed
  <2>4. QED
    BY <2>2, <2>3
<1>4. ASSUME NEW d \in Calls, NEW j \in Slots, SessionEnds(d, j)
      PROVE  Completed(c, k)'
  <2>1. PICK s : /\ session[d][j] = "open"
                 /\ session' = [session EXCEPT ![d] = [session[d] EXCEPT ![j] = s]]
    BY <1>4 DEF SessionEnds, Pay, Expire, IsOpen
  <2>2. CASE d = c
    <3>1. j # k /\ session'[c] = [session[c] EXCEPT ![j] = s]
      BY <1>1, <2>1, <2>2 DEF OwedOK
    <3>2. QED
      BY <1>1, <3>1 DEF Completed
  <2>3. CASE d # c
    BY <1>1, <2>1, <2>3 DEF Completed, OwedOK
  <2>4. QED
    BY <2>2, <2>3
<1>5. CASE Next
  <2>1. ASSUME NEW d \in Calls, Ring(d) \/ Purchase(d) \/ Talk(d) \/ ReserveTool(d)
                                \/ CheckoutTool(d) \/ Reply(d) \/ Pack(d) \/ Cancel(d)
        PROVE  UNCHANGED session \/ OpenSession(d)
    BY <2>1 DEF Ring, Purchase, Reserve, CreateCheckout, CheckoutFails, Talk, ReserveTool,
                CheckoutTool, Reply, Pack, Cancel, stripe
  <2>2. ASSUME NEW e \in Events, Deliver(e) \/ Redeliver(e)
        PROVE  UNCHANGED session
    BY <2>2 DEF Deliver, Redeliver, Handle, FailedCheckout, AlreadyPaid, MarkPaid, Raises, vars,
                stripe
  <2>3. CASE Notify \/ Crash
    BY <1>2, <2>3 DEF Notify, Crash, stripe
  <2>4. ASSUME NEW d \in Calls, NEW j \in Slots, Decline(d, j)
        PROVE  UNCHANGED session
    BY <2>4 DEF Decline
  <2>5. QED
    BY <1>2, <1>3, <1>4, <1>5, <2>1, <2>2, <2>3, <2>4 DEF Next
<1>6. QED
  BY <1>2, <1>5 DEF vars, stripe

\* Stripe raises an event of a payment with the payment.
LEMMA RaisedWithPayment ==
  ASSUME IInv, OwedOK, [Next]_vars, NEW e \in Events, Pays(e), event[e] = "none"
  PROVE  event'[e] = "none" \/ Completed(e.call, e.slot)'
<1>1. e.call \in Calls /\ e.slot \in Slots
  BY DEF Events
<1>2. ASSUME NEW c \in Calls, NEW k \in Slots, Pay(c, k)
      PROVE  event'[e] = "none" \/ Completed(e.call, e.slot)'
  <2>1. /\ session[c] \in Seq(States) /\ k \in DOMAIN session[c]
        /\ session' = [session EXCEPT ![c] = [session[c] EXCEPT ![k] = "complete"]]
    BY <1>2 DEF Pay, IsOpen, OwedOK
  <2>2. Completed(c, k)'
    <3>1. session'[c] = [session[c] EXCEPT ![k] = "complete"]
      BY <2>1 DEF OwedOK
    <3>2. QED
      BY <2>1, <3>1 DEF Completed
  <2>3. QED
    BY <1>2, <2>2 DEF Pay, Raise
<1>3. ASSUME NEW c \in Calls, NEW k \in Slots, Expire(c, k) \/ Decline(c, k)
      PROVE  event'[e] = "none"
  <2>1. e.type \notin {"session.expired", "payment_failed"}
    BY DEF Pays, PaymentEvents
  <2>2. QED
    BY <1>3, <2>1 DEF Expire, Decline, Raise
<1>4. ASSUME NEW d \in Calls, Ring(d) \/ Purchase(d) \/ Talk(d) \/ ReserveTool(d)
                              \/ CheckoutTool(d) \/ Reply(d) \/ Pack(d) \/ Cancel(d)
      PROVE  UNCHANGED event
  BY <1>4 DEF Ring, Purchase, Reserve, CreateCheckout, CheckoutFails, Talk, ReserveTool,
              CheckoutTool, Reply, Pack, Cancel, stripe
<1>5. ASSUME NEW d \in Events, event[d] # "none", UNCHANGED event \/ Ack(d)
      PROVE  event'[e] = "none"
  BY <1>5 DEF Ack, IInv, TypesOK
<1>6. ASSUME NEW d \in Events, Deliver(d) \/ Redeliver(d)
      PROVE  event[d] # "none" /\ (UNCHANGED event \/ Ack(d))
  BY <1>6 DEF Deliver, Redeliver, Handle, FailedCheckout, AlreadyPaid, MarkPaid, Raises, vars,
              stripe
<1>7. CASE Crash \/ UNCHANGED vars
  BY <1>7 DEF Crash, vars, stripe
<1>8. CASE Notify
  <2>1. handler \in Events /\ event[handler] # "none" /\ Ack(handler)
    BY <1>8 DEF Notify, OwedOK
  <2>2. QED
    BY <1>5, <2>1
<1>9. QED
  BY <1>2, <1>3, <1>4, <1>5, <1>6, <1>7, <1>8 DEF Next, SessionEnds

\* What is recorded is what an event tells of.
LEMMA RecordedOfEvent ==
  ASSUME IInv, [Next]_vars, NEW c \in Calls, NEW k \in Slots, recorded'[c] = <<k>>
  PROVE  \/ recorded[c] = <<k>>
         \/ \E e \in Events : e.call = c /\ e.slot = k /\ Pays(e) /\ event[e] # "none"
<1>1. ASSUME NEW e \in Events, MarkPaid(e), LoopFree, event[e] # "none"
      PROVE  recorded[c] = <<k>> \/ (e.call = c /\ e.slot = k /\ Pays(e))
  <2>1. e.call \in Calls /\ e.slot \in Slots /\ recorded \in [Calls -> Seq(Slots)]
    BY DEF Events, IInv, TypesOK
  <2>2. /\ recorded' = [recorded EXCEPT ![e.call] = Append(recorded[e.call], e.slot)] /\ Pays(e)
        /\ order[e.call] = "reserved"
    BY <1>1 DEF MarkPaid, Recorded
  <2>3. recorded[e.call] = <<>>
    BY <2>1, <2>2 DEF IInv, LedgerOK
  <2>4. CASE e.call = c
    BY <2>1, <2>2, <2>3, <2>4
  <2>5. CASE e.call # c
    BY <2>1, <2>2, <2>5
  <2>6. QED
    BY <2>4, <2>5
<1>2. ASSUME NEW e \in Events, Deliver(e) \/ Redeliver(e)
      PROVE  (MarkPaid(e) /\ LoopFree /\ event[e] # "none") \/ UNCHANGED recorded
  BY <1>2 DEF Deliver, Redeliver, Handle, FailedCheckout, CancelOrder, AlreadyPaid, Raises, vars,
              shop
<1>3. ASSUME NEW d \in Calls, Ring(d) \/ Purchase(d) \/ Talk(d) \/ ReserveTool(d)
                              \/ CheckoutTool(d) \/ Reply(d) \/ Pack(d) \/ Cancel(d)
      PROVE  UNCHANGED recorded
  BY <1>3 DEF Ring, Purchase, Reserve, ReserveOrder, CreateCheckout, CheckoutFails, Talk,
              ReserveTool, CheckoutTool, Reply, Pack, Cancel, CancelOrder, shop
<1>4. ASSUME NEW d \in Calls, NEW j \in Slots, SessionEnds(d, j) \/ Decline(d, j)
      PROVE  UNCHANGED recorded
  BY <1>4 DEF SessionEnds, Pay, Expire, Decline, shop
<1>5. CASE Notify \/ Crash \/ UNCHANGED vars
  BY <1>5 DEF Notify, Crash, vars, shop
<1>6. QED
  BY <1>1, <1>2, <1>3, <1>4, <1>5 DEF Next

LEMMA PaidAlways == Spec => [](IInv /\ OwedOK /\ PaidOK)
<1>1. ASSUME Init PROVE PaidOK
  BY <1>1 DEF Init, PaidOK, Events
<1>2. ASSUME IInv, OwedOK, PaidOK, [Next]_vars
      PROVE  PaidOK'
  <2>1. \A e \in Events : e.call \in Calls /\ e.slot \in Slots
    BY DEF Events
  <2>2. ASSUME NEW e \in Events, Pays(e), event'[e] # "none"
        PROVE  Completed(e.call, e.slot)'
    BY <1>2, <2>1, <2>2, RaisedWithPayment, CompletedStays DEF PaidOK
  <2>3. ASSUME NEW c \in Calls, NEW k \in Slots, recorded'[c] = <<k>>
        PROVE  Completed(c, k)'
    <3>1. Completed(c, k)
      BY <1>2, <2>3, RecordedOfEvent DEF PaidOK
    <3>2. QED
      BY <1>2, <3>1, CompletedStays
  <2>4. QED
    BY <2>2, <2>3 DEF PaidOK, Completed, Pays
<1>3. QED
  BY <1>1, <1>2, OwedAlways, PTL DEF Spec

\* Stripe still has an event of these types to deliver for the k-th session of a call.
Due(c, k, types) ==
  \E e \in Events : e.call = c /\ e.slot = k /\ e.type \in types /\ event[e] = "due"

\* What was paid is in the log and what expired holds no fruit but with a release that
\* raised, or Stripe has an event left that will see to it (stripe_webhook.py:59-71).
NothingOwedIsLost ==
  \A c \in Calls : \A k \in DOMAIN session[c] :
    /\ session[c][k] = "complete" => recorded[c] # <<>> \/ Due(c, k, PaymentEvents)
    /\ session[c][k] = "expired" =>
         order[c] # "reserved" \/ c \in stuck \/ Due(c, k, FailureEvents)

-----------------------------------------------------------------------------
(* The theorems. *)

\* An order with a payment Stripe was told to forget has one payment in the log, of a
\* session that was paid, with one receipt at most, however often Stripe delivers it and
\* wherever the process dies; of two paid sessions of an order the log keeps the first
\* (handle_stripe_webhook, mark_paid).
THEOREM AckedOrdersAreRecorded == Spec => []AckedOrderIsRecorded
<1>1. ASSUME IInv, PaidOK, NEW c \in Calls, recorded[c] # <<>>
      PROVE  \E k \in Slots : recorded[c] = <<k>> /\ Completed(c, k)
  <2>1. recorded[c] \in Seq(Slots) /\ Len(recorded[c]) <= 1
    BY <1>1 DEF IInv, TypesOK, LedgerOK
  <2>2. recorded[c] = <<recorded[c][1]>> /\ recorded[c][1] \in Slots
    BY <1>1, <2>1, OneLong
  <2>3. QED
    BY <1>1, <2>2 DEF PaidOK
<1>2. ASSUME IInv, PaidOK PROVE AckedOrderIsRecorded
  <2>1. \A e \in Events : e.call \in Calls
    BY DEF Events
  <2>2. QED
    BY <1>1, <1>2, <2>1 DEF IInv, LedgerOK, AckedOrderIsRecorded
<1>3. QED
  BY <1>2, PaidAlways, PTL

\* Nobody who was texted a link is texted that something went wrong as well
\* (_try_text_checkout_link).
THEOREM StoriesAgree == Spec => []OneStory
<1>1. ASSUME IInv PROVE OneStory
  BY <1>1 DEF IInv, TasksOK, OneStory
<1>2. QED
  BY <1>1, IInvAlways, PTL
\* Nothing that became of a session is lost: what was paid is in the log, and the fruit
\* of a session that expired is back or its release raised, unless Stripe still has the
\* event to deliver.  This holds whatever is delivered twice and wherever the process
\* dies, and is what a payment that lands and a reservation that ends rest on
\* (handle_stripe_webhook, _handle_failed_checkout).
THEOREM NothingIsLost == Spec => []NothingOwedIsLost
<1>1. ASSUME IInv, OwedOK, NEW c \in Calls, NEW k \in DOMAIN session[c]
      PROVE  /\ session[c][k] = "complete" => recorded[c] # <<>> \/ Due(c, k, PaymentEvents)
             /\ session[c][k] = "expired" =>
                  order[c] # "reserved" \/ c \in stuck \/ Due(c, k, FailureEvents)
  <2>1. ASSUME NEW type \in {"session.completed", "session.expired"}, k \in Slots,
               event[Ended(c, k, type)] # "none"
        PROVE  LET e == Ended(c, k, type) IN
               /\ e \in Events /\ e.call = c /\ e.slot = k /\ e.type = type
               /\ event[e] \in {"due", "acked"}
    BY <1>1, <2>1 DEF Ended, Events, PaymentEvents, FailureEvents, IInv, TypesOK
  <2>2. CASE session[c][k] = "complete"
    <3> DEFINE e == Ended(c, k, "session.completed")
    <3>1. e \in Events /\ e.call = c /\ e.slot = k /\ Pays(e) /\ event[e] \in {"due", "acked"}
      BY <1>1, <2>1, <2>2 DEF OwedOK, Pays, PaymentEvents
    <3>2. event[e] = "acked" => recorded[c] # <<>>
      BY <1>1, <3>1 DEF IInv, LedgerOK
    <3>3. QED
      BY <2>2, <3>1, <3>2 DEF Due, Pays
  <2>3. CASE session[c][k] = "expired"
    <3> DEFINE e == Ended(c, k, "session.expired")
    <3>1. e \in Events /\ e.call = c /\ e.slot = k /\ Fails(e) /\ event[e] \in {"due", "acked"}
      BY <1>1, <2>1, <2>3 DEF OwedOK, Fails, FailureEvents
    <3>2. event[e] = "acked" => order[c] # "reserved" \/ c \in stuck
      BY <1>1, <3>1 DEF OwedOK
    <3>3. QED
      BY <2>3, <3>1, <3>2 DEF Due, Fails
  <2>4. QED
    BY <2>2, <2>3
<1>2. ASSUME IInv, OwedOK PROVE NothingOwedIsLost
  BY <1>1, <1>2 DEF NothingOwedIsLost
<1>3. QED
  BY <1>2, OwedAlways, PTL
=============================================================================
