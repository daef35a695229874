------------------------- MODULE CheckoutProperties -------------------------
(***************************************************************************)
(* What the phone, the shop and Stripe owe each other.                      *)
(***************************************************************************)
EXTENDS Checkout

Completed(c, k) == k \in DOMAIN session[c] /\ session[c][k] = "complete"

\* An order with a payment Stripe was told to forget has one payment in the log, of a
\* session the customer completed, and one receipt at most, whatever is delivered again
\* and also if the process died between the log and the answer (stripe_webhook.py:59-71):
\* "Stripe will retry the webhook on transient failures, and we never want to
\* double-count revenue" (orders.py:11).  It is the payment's own when the order
\* has no other paid session; a second one is answered at stripe_webhook.py:64
\* and is in no log, before mark_paid compares the sessions.
AckedOrderIsRecorded ==
  /\ \A e \in Events : Pays(e) /\ event[e] = "acked" =>
       \E k \in Slots : recorded[e.call] = <<k>> /\ Completed(e.call, k)
  /\ \A c \in Calls : Len(recorded[c]) <= 1 /\ receipts[c] <= Len(recorded[c])

\* Nobody who was texted a link is texted that something went wrong as well: a
\* text that AgentPhone answers 5xx, though it went out, fails no purchase
\* (tools.py:128 _try_text_checkout_link, phone_webhook.py:149).
OneStory == \A c \in Calls : texts[c] # {"link", "apology"}

\* An order that was paid for gets to be paid, unless it was cancelled before; also when
\* it has other sessions, of which the first that is recorded counts for all.  While the
\* language model blocks the event loop it waits; that the model answers is assumed.
PaymentLands ==
  \A c \in Calls, k \in Slots :
    Completed(c, k) ~> recorded[c] # <<>> \/ order[c] = "cancelled"

\* A reservation is paid, packed or cancelled in the end; the ones that are not
\* had no session opened for them, or the release of theirs raised.
HoldsEnd ==
  \A c \in Calls : <>[](order[c] = "reserved" => session[c] = <<>> \/ c \in stuck)
=============================================================================
