------------------------------ MODULE Checkout ------------------------------
(***************************************************************************)
(* From a call to a paid order: the phone webhook starts a purchase, which   *)
(* reserves and opens a Checkout session at Stripe, or lets a language model *)
(* answer, which reserves and opens sessions as it pleases; and Stripe tells *)
(* what became of a session with events it delivers until each is answered   *)
(* 2xx.                                                                     *)
(*                                                                         *)
(* One call asks for one fruit of one item, and a language model that makes  *)
(* several orders is as many calls here; a call AgentPhone delivers twice is *)
(* two calls, as it is in the code.  A call of the order service is one      *)
(* step: how two of them interleave is in Stall.  Both                       *)
(* webhooks run on the event loop, one delivery at a time, and so does the   *)
(* language model with its tools.  What is texted and mailed can fail and is *)
(* only logged; of it the texts of a purchase and the receipt of a payment   *)
(* are kept.                                                                *)
(***************************************************************************)
EXTENDS Naturals, Sequences

LOCAL INSTANCE Functions

CONSTANTS
  Calls,      (* calls that ask for a fruit *)
  Shelf,      (* bound: the fruit there is at first *)
  MaxSessions, (* bound: the sessions opened, whatever the order *)
  MaxFaults   (* bound: deaths of the process and releases that raise *)

ASSUME CheckoutAssumption == {Shelf, MaxSessions, MaxFaults} \subseteq Nat

VARIABLES
  stock,     (* physical_count *)
  task,      (* how far the purchase of a call is *)
  order,     (* the status of a call's order *)
  session,   (* Stripe: the Checkout sessions of that order *)
  event,     (* Stripe: per event, whether it is due, or was answered 2xx *)
  handler,   (* the paid event whose receipt is still to be sent *)
  faults,
  recorded,  (* history: the sessions of an order's OrderPaid events in the log *)
  receipts,  (* history: receipts sent *)
  texts,     (* history: the texts a call was answered with *)
  stuck      (* history: reservations whose release raised *)

shop   == <<stock, order, recorded>>
stripe == <<session, event>>
vars == <<shop, stripe, task, handler, faults, receipts, texts, stuck>>

Idle == [type |-> "idle"]

\* The event types the handler knows, by what it does with them; a session that
\* completes also makes its payment intent succeed, and both carry the order's id.
PaymentEvents == {"session.completed", "intent.succeeded"}
FailureEvents == {"session.expired", "payment_failed"}
Slots == 1 .. MaxSessions
Events == [call : Calls, slot : Slots, type : PaymentEvents \cup FailureEvents]

Pays(e) == e.type \in PaymentEvents

Init ==
  /\ stock \in 0 .. Shelf
  /\ task = [c \in Calls |-> "none"] /\ order = [c \in Calls |-> "none"]
  /\ session = [c \in Calls |-> <<>>] /\ event = [e \in Events |-> "none"]
  /\ handler = Idle /\ faults = 0
  /\ recorded = [c \in Calls |-> <<>>] /\ receipts = [c \in Calls |-> 0]
  /\ texts = [c \in Calls |-> {}] /\ stuck = {}

Fault == faults < MaxFaults /\ faults' = faults + 1

-----------------------------------------------------------------------------
(* phone_webhook.py and tools.py: a purchase. *)

\* Both webhooks are handled on the event loop.
LoopFree == handler = Idle /\ \A c \in Calls : task[c] # "talk"

Goto(c, step) == task' = [task EXCEPT ![c] = step]

\* send_sms: posted up to three times while AgentPhone answers 5xx; it may have
\* gone out whatever was answered.
Post(c, what) == texts' \in {texts, [texts EXCEPT ![c] = @ \cup {what}]}

\* The caller is told that a link comes, and the purchase goes on behind.
Ring(c) ==
  /\ task[c] = "none" /\ LoopFree
  /\ Goto(c, "reserve")
  /\ UNCHANGED <<shop, stripe, handler, faults, receipts, texts, stuck>>

Scarce == stock = 0

ReserveOrder(c) ==
  /\ ~Scarce
  /\ order' = [order EXCEPT ![c] = "reserved"] /\ stock' = stock - 1
  /\ UNCHANGED recorded

\* Not enough of it: an apology is texted.
Reserve(c) ==
  /\ task[c] = "reserve"
  /\ \/ ReserveOrder(c) /\ Goto(c, "checkout") /\ UNCHANGED texts
     \/ Scarce /\ Goto(c, "over") /\ Post(c, "apology") /\ UNCHANGED shop
  /\ UNCHANGED <<stripe, handler, faults, receipts, stuck>>

OpenSession(c) ==
  /\ SumFunction([d \in Calls |-> Len(session[d])]) < MaxSessions
  /\ session' = [session EXCEPT ![c] = Append(@, "open")]

CreateCheckoutRaising(c) ==   \* (mutant) a text that was not answered well raises
  /\ task[c] = "checkout"
  /\ OpenSession(c) /\ Goto(c, "over")
  /\ texts' \in {[texts EXCEPT ![c] = {"link"}], [texts EXCEPT ![c] = {"link", "apology"}]}
  /\ UNCHANGED <<shop, event, handler, faults, receipts, stuck>>

\* create_checkout reads the order and the item, not the order's status, and a
\* text that fails is only logged.
CreateCheckout(c) ==
  /\ task[c] = "checkout"
  /\ OpenSession(c) /\ Post(c, "link") /\ Goto(c, "over")
  /\ UNCHANGED <<shop, event, handler, faults, receipts, stuck>>

\* Stripe cannot be reached or its answer is lost: an apology, and the
\* reservation stays.
CheckoutFails(c) ==
  /\ task[c] = "checkout"
  /\ OpenSession(c) \/ UNCHANGED session
  /\ Post(c, "apology") /\ Goto(c, "over")
  /\ UNCHANGED <<shop, event, handler, faults, receipts, stuck>>

-----------------------------------------------------------------------------
(* gemini.py: what is no clear purchase the language model answers, with the   *)
(* tools it calls in whatever order and as often as it likes.                 *)

Talk(c) ==
  /\ task[c] = "none" /\ LoopFree
  /\ Goto(c, "talk")
  /\ UNCHANGED <<shop, stripe, handler, faults, receipts, texts, stuck>>

ReserveTool(c) ==
  /\ task[c] = "talk" /\ order[c] = "none"
  /\ ReserveOrder(c)
  /\ UNCHANGED <<stripe, task, handler, faults, receipts, texts, stuck>>

\* The session is opened and the link texted, for an order of any status.
CheckoutTool(c) ==
  /\ task[c] = "talk" /\ order[c] # "none"
  /\ OpenSession(c) /\ Post(c, "link")
  /\ UNCHANGED <<shop, event, task, handler, faults, receipts, stuck>>

\* The model's answer, or a canned one when the call to it fails.
Reply(c) ==
  /\ task[c] = "talk"
  /\ Goto(c, "over")
  /\ UNCHANGED <<shop, stripe, handler, faults, receipts, texts, stuck>>

-----------------------------------------------------------------------------
(* Stripe and its customers. *)

Raise(c, k, types) ==
  event' = [e \in Events |-> IF e.call = c /\ e.slot = k /\ e.type \in types /\ event[e] = "none"
                             THEN "due" ELSE event[e]]

IsOpen(c, k) == k \in DOMAIN session[c] /\ session[c][k] = "open"

Pay(c, k) ==
  /\ IsOpen(c, k)
  /\ session' = [session EXCEPT ![c][k] = "complete"] /\ Raise(c, k, PaymentEvents)
  /\ UNCHANGED <<shop, task, handler, faults, receipts, texts, stuck>>

\* A card is declined; the session stays open for another try.
Decline(c, k) ==
  /\ IsOpen(c, k)
  /\ Raise(c, k, {"payment_failed"})
  /\ UNCHANGED <<shop, session, task, handler, faults, receipts, texts, stuck>>

Expire(c, k) ==
  /\ IsOpen(c, k)
  /\ session' = [session EXCEPT ![c][k] = "expired"] /\ Raise(c, k, {"session.expired"})
  /\ UNCHANGED <<shop, task, handler, faults, receipts, texts, stuck>>

-----------------------------------------------------------------------------
(* stripe_webhook.py: one delivery. *)

Ack(e) == event' = [event EXCEPT ![e] = "acked"]

\* cancel of the order service.
CancelOrder(c) ==
  /\ order' = [order EXCEPT ![c] = "cancelled"]
  /\ stock' = IF order[c] = "reserved" THEN stock + 1 ELSE stock
  /\ UNCHANGED recorded

DeclinesOnly(e) == e.type = "payment_failed"   \* (mutant) no event for an expiry

Fails(e) == e.type \in FailureEvents

\* _handle_failed_checkout: only a reservation is released, and a release that
\* raises is answered 2xx all the same.
FailedCheckout(e) ==
  /\ Fails(e)
  /\ Ack(e)
  /\ \/ order[e.call] # "reserved" /\ UNCHANGED <<shop, faults, stuck>>
     \/ order[e.call] = "reserved" /\ CancelOrder(e.call) /\ UNCHANGED <<faults, stuck>>
     \/ /\ order[e.call] = "reserved" /\ Fault
        /\ stuck' = stuck \cup {e.call} /\ UNCHANGED shop
  /\ UNCHANGED <<session, task, handler, receipts, texts>>

Recorded(c) == order[c] = "paid"

\* A paid order is answered before mark_paid looks at the session: what another
\* session of it paid is answered 2xx and recorded nowhere.
AlreadyPaid(e) ==
  /\ Pays(e) /\ Recorded(e.call)
  /\ Ack(e)
  /\ UNCHANGED <<shop, session, task, handler, faults, receipts, texts, stuck>>

RecordsBehind(e) ==   \* (mutant) recorded in the background, where a failure is only logged
  LET c == e.call IN
  /\ Pays(e) /\ ~Recorded(c) /\ order[c] \in {"reserved", "paid"}
  /\ Ack(e)
  /\ \/ order' = [order EXCEPT ![c] = "paid"] /\ recorded' = [recorded EXCEPT ![c] = Append(@, e.slot)]
     \/ UNCHANGED <<order, recorded>>
  /\ UNCHANGED <<stock, session, task, handler, faults, receipts, texts, stuck>>

\* mark_paid, and then the receipt; its own check for the same session is never reached.
MarkPaid(e) ==
  LET c == e.call IN
  /\ Pays(e) /\ ~Recorded(c) /\ order[c] \in {"reserved", "paid"}
  /\ order' = [order EXCEPT ![c] = "paid"] /\ recorded' = [recorded EXCEPT ![c] = Append(@, e.slot)]
  /\ handler' = e
  /\ UNCHANGED <<stock, stripe, task, faults, receipts, texts, stuck>>

Refused(e) == Pays(e) /\ order[e.call] \in {"packed", "cancelled"}

Swallowed(e) ==   \* (mutant) ValueError is answered like KeyError
  /\ Refused(e) /\ Ack(e)
  /\ UNCHANGED <<shop, session, task, handler, faults, receipts, texts, stuck>>

\* mark_paid raises, the answer is 500 and the event stays due.
Raises(e) == Refused(e) /\ UNCHANGED vars

Handle(e) ==
  /\ LoopFree
  /\ FailedCheckout(e) \/ AlreadyPaid(e) \/ MarkPaid(e) \/ Raises(e)

Deliver(e) == event[e] = "due" /\ Handle(e)

\* Stripe may deliver an event again that was answered.
Redeliver(e) == event[e] = "acked" /\ Handle(e)

\* _notify_after_payment, and the answer.
Notify ==
  /\ handler # Idle
  /\ receipts' = [receipts EXCEPT ![handler.call] = @ + 1]
  /\ Ack(handler) /\ handler' = Idle
  /\ UNCHANGED <<shop, session, task, faults, texts, stuck>>

-----------------------------------------------------------------------------
(* The operator, and the process. *)

Pack(c) ==
  /\ order[c] = "paid"
  /\ order' = [order EXCEPT ![c] = "packed"]
  /\ UNCHANGED <<stock, recorded, stripe, task, handler, faults, receipts, texts, stuck>>

Cancel(c) ==
  /\ order[c] \in {"reserved", "paid"}
  /\ CancelOrder(c)
  /\ UNCHANGED <<stripe, task, handler, faults, receipts, texts, stuck>>

\* Purchases on the way and the delivery being handled die with the process, the
\* orders are in the log.
Crash ==
  /\ Fault
  /\ task' = [c \in Calls |-> IF task[c] = "none" THEN "none" ELSE "over"]
  /\ handler' = Idle
  /\ UNCHANGED <<shop, stripe, receipts, texts, stuck>>

-----------------------------------------------------------------------------
Purchase(c) == Reserve(c) \/ CreateCheckout(c) \/ CheckoutFails(c)

SessionEnds(c, k) == Pay(c, k) \/ Expire(c, k)

Next ==
  \/ \E c \in Calls : Ring(c) \/ Purchase(c)
  \/ \E c \in Calls : Talk(c) \/ ReserveTool(c) \/ CheckoutTool(c) \/ Reply(c)
  \/ \E c \in Calls, k \in Slots : SessionEnds(c, k) \/ Decline(c, k)
  \/ \E c \in Calls : Pack(c) \/ Cancel(c)
  \/ \E e \in Events : Deliver(e) \/ Redeliver(e)
  \/ Notify \/ Crash

Spec == Init /\ [][Next]_vars

\* A background task runs on, the language model comes to an answer, a session is
\* paid or expires within a day, Stripe delivers again what was not answered
\* and the event loop gets to its own answer.
FairSpec ==
  /\ Spec
  /\ \A c \in Calls : WF_vars(Purchase(c)) /\ WF_vars(Reply(c))
  /\ \A c \in Calls, k \in Slots : WF_vars(SessionEnds(c, k))
  /\ \A e \in Events : WF_vars(Deliver(e))
  /\ WF_vars(Notify)
=============================================================================
