------------------------------- MODULE Restock -------------------------------
(***************************************************************************)
(* The restock state machine: a worker turns each StockLow of the event log *)
(* into a proposal, the operator approves or rejects the newest pending one *)
(* on the Pico, and an approved proposal is paid through PaySponge.         *)
(*                                                                         *)
(* The coordinator does all of this under one lock, so its calls do not     *)
(* interleave with each other; they do interleave with the arrival of       *)
(* StockLows, with the operator's presses, with time, and with the death of *)
(* the process at any point, in particular between two events of one call   *)
(* and between the payment and its record.                                 *)
(*                                                                         *)
(* A proposal is named by the log offset of its StockLow, as in the code    *)
(* (restock_<item>_<offset>).  Its projection is rebuilt from the log at    *)
(* boot and updated by every append under the coordinator's lock, so        *)
(* `records' is the same before and after a restart.  E-mails and texts,    *)
(* which change no status, are left out, and so is the item nobody knows:   *)
(* only items in the catalog raise StockLow.                               *)
(*                                                                         *)
(* The supplier sells apples and nothing else, behind PaySponge's gateway:  *)
(* a request that reaches it was charged for, whatever it answers.         *)
(***************************************************************************)
EXTENDS Naturals, Sequences, FiniteSetsExt

CONSTANTS
  Items,       (* item ids *)
  Pressers,    (* request threads serving presses of the Pico *)
  Amounts,     (* amounts the supplier quotes, in cents; 0 is a bad quote *)
  MaxOrder,    (* max_order_cents *)
  HourCap,     (* max_hour_cents *)
  DayCap,      (* max_day_cents *)
  Hour,        (* the length of the hour and of the day, in clock ticks *)
  Day,
  TTL,         (* proposal_ttl_seconds, in clock ticks *)
  Live,        (* payment_mode = "staging_live" *)
  Gateway,     (* the quotes name a gateway url *)
  Asks,        (* quotes come from the supplier's API, not from a fixed list *)
  Sold,        (* the items the supplier has *)
  NeedsPlan,   (* require_sponge_plan_approval *)
  MaxDeaths,   (* bound: deaths of the process *)
  MaxLows,     (* bound: StockLows in a behaviour *)
  MaxTime      (* bound: the last clock tick *)

ASSUME RestockAssumption ==
  /\ Amounts \subseteq Nat
  /\ {MaxOrder, HourCap, DayCap, Hour, Day, TTL, MaxDeaths, MaxLows, MaxTime} \subseteq Nat
  /\ {Live, Gateway, NeedsPlan, Asks} \subseteq BOOLEAN
  /\ Sold \subseteq Items
  /\ Asks => Gateway   \* the API's own address stands in for the url

VARIABLES
  log,           (* StockLows and restock events, by offset *)
  records,       (* RestockProjection._records, in insertion order *)
  undelivered,   (* StockLows committed, their subscriber not yet called *)
  queue,         (* RestockWorker._queue *)
  job,           (* what the holder of the coordinator's lock has still to do *)
  press,         (* per request thread, the button and the proposal looked at *)
  charges,       (* the wallet: the proposals paid for, in order *)
  supplied,      (* the supplier's _orders, by idempotency key *)
  now,           (* the clock *)
  deaths         (* how often the process died *)

vars == <<log, records, undelivered, queue, job, press, charges, supplied, now, deaths>>

-----------------------------------------------------------------------------
(* Events and the projection. *)

StockLow(i) == [type |-> "stock_low", item |-> i]

Event(type, p, amount) == [type |-> type, low |-> p, amount |-> amount, at |-> now]

StatusAfter ==
  [restock_approved        |-> "approved",
   restock_rejected        |-> "rejected",
   restock_payment_started |-> "payment_started",
   restock_payment_failed  |-> "failed",
   restock_ordered         |-> "ordered"]

\* RestockProjection.apply; a failure before the proposal has no record to mark.
ApplyRestock(rs, e) ==
  CASE e.type = "restock_proposed" ->
         Append(rs, [low |-> e.low, amount |-> e.amount, expires |-> e.at + TTL,
                     status |-> "pending_approval", plan |-> FALSE])
    [] e.type = "restock_sponge_plan_submitted" ->
         [k \in DOMAIN rs |-> IF rs[k].low = e.low THEN [rs[k] EXCEPT !.plan = TRUE] ELSE rs[k]]
    [] OTHER ->
         [k \in DOMAIN rs |-> IF rs[k].low = e.low
                              THEN [rs[k] EXCEPT !.status = StatusAfter[e.type]] ELSE rs[k]]

\* store.append under the coordinator's lock, with the projection's subscriber.
Emit(type, p, amount) ==
  LET e == Event(type, p, amount) IN
  /\ log' = Append(log, e)
  /\ records' = ApplyRestock(records, e)

Fail(p, amount) == Emit("restock_payment_failed", p, amount)

StillPending(p) ==   \* (mutant)
  \E k \in DOMAIN records : records[k].low = p /\ records[k].status = "pending_approval"

HasStockLowOffset(p) == \E k \in DOMAIN records : records[k].low = p

Pending == {k \in DOMAIN records : records[k].status = "pending_approval"}

\* current_pending_approval
NewestPending == records[CHOOSE k \in Pending : \A j \in Pending : j <= k]

RecordOf(p) == records[CHOOSE k \in DOMAIN records : records[k].low = p]

Expired(r) == r.expires <= now

-----------------------------------------------------------------------------
(* Spending caps, counted from the payments started in the log. *)

SpendSince(window) ==
  LET within == {n \in DOMAIN log : /\ log[n].type = "restock_payment_started"
                                    /\ now - log[n].at <= window} IN
  SumFunction([n \in within |-> log[n].amount])

CapError(amount) ==
  \/ amount > MaxOrder
  \/ SpendSince(Hour) + amount > HourCap
  \/ SpendSince(Day) + amount > DayCap

-----------------------------------------------------------------------------
(* StockLow reaches the worker. *)

Lows == {n \in DOMAIN log : log[n].type = "stock_low"}

\* InventoryService commits a StockLow on a thread of its own ...
LowCommit(i) ==
  /\ Cardinality(Lows) < MaxLows
  /\ log' = Append(log, StockLow(i))
  /\ undelivered' = undelivered \cup {Len(log) + 1}
  /\ UNCHANGED <<records, queue, job, press, charges, supplied, now, deaths>>

\* ... and then calls the worker's subscriber, which only enqueues.
LowEnqueue(p) ==
  /\ p \in undelivered
  /\ undelivered' = undelivered \ {p}
  /\ queue' = Append(queue, p)
  /\ UNCHANGED <<log, records, job, press, charges, supplied, now, deaths>>

-----------------------------------------------------------------------------
(* RestockCoordinator.handle_stock_low *)

Free == [step |-> "free"]

Job(step, p) == [step |-> step, low |-> p]

Take(p) ==
  /\ job = Free /\ queue # <<>> /\ p = Head(queue)
  /\ queue' = Tail(queue)
  /\ UNCHANGED <<undelivered, press, charges, supplied, now, deaths>>

Sells(i) == i \in Sold

\* The supplier's API quotes what it sells; the fixed list quotes anything.
Quotes(i) == Asks => Sells(i)

\* The supplier cannot be reached, has no such item or answers nonsense.
QuoteFails(p) ==
  /\ Take(p) /\ ~HasStockLowOffset(p)
  /\ Fail(p, 0)
  /\ UNCHANGED job

ProposeUnchecked(p, amount) ==   \* (mutant) a bad quote goes on to the checks
  /\ Take(p) /\ ~HasStockLowOffset(p)
  /\ job' = Job("check", p)
  /\ IF amount = 0 THEN UNCHANGED <<log, records>>
                   ELSE Emit("restock_proposed", p, amount)

\* Nothing is done for a StockLow that has its proposal, nor for an amount of 0,
\* which RestockProposed rejects: the worker logs that and goes on.
Propose(p, amount) ==
  /\ Take(p) /\ (Quotes(log[p].item) \/ HasStockLowOffset(p))
  /\ IF HasStockLowOffset(p) \/ amount = 0
     THEN UNCHANGED <<log, records, job>>
     ELSE /\ Emit("restock_proposed", p, amount)
          /\ job' = Job("check", p)

CheckProposal ==
  LET r == RecordOf(job.low) IN
  /\ job.step = "check"
  /\ IF CapError(r.amount) \/ (Live /\ ~Gateway)
     THEN Fail(r.low, r.amount) /\ job' = Free
     ELSE /\ job' = IF Live /\ NeedsPlan THEN Job("plan", r.low) ELSE Free
          /\ UNCHANGED <<log, records>>
  /\ UNCHANGED <<undelivered, queue, press, charges, supplied, now, deaths>>

SubmitPlan ==
  /\ job.step = "plan"
  /\ \/ Emit("restock_sponge_plan_submitted", job.low, 0)
     \/ Fail(job.low, 0)
  /\ job' = Free
  /\ UNCHANGED <<undelivered, queue, press, charges, supplied, now, deaths>>

-----------------------------------------------------------------------------
(* approve_pending and _process_approved *)

NoPress == [button |-> "none"]

\* What is read without the lock: SUPPLY_BUY lights up when any proposal is pending
\* and the kiosk shows the newest one of whatever status; pico_action looks for a
\* pending one before it rejects.
Look(t, button) ==
  LET seen == IF button = "supply_buy" THEN records[Len(records)] ELSE NewestPending IN
  /\ press[t] = NoPress /\ Pending # {}
  /\ press' = [press EXCEPT ![t] = [button |-> button, saw |-> seen.low]]
  /\ UNCHANGED <<log, records, undelivered, queue, job, charges, supplied, now, deaths>>

LetGo(t) == press' = [press EXCEPT ![t] = NoPress]

\* The request names no proposal: it approves whichever is the newest now.
Approve(t) ==
  /\ press[t].button = "supply_buy" /\ job = Free
  /\ LetGo(t)
  /\ IF Pending = {}
     THEN UNCHANGED <<log, records, job>>
     ELSE LET r == NewestPending IN
          IF Expired(r)
          THEN Fail(r.low, r.amount) /\ UNCHANGED job
          ELSE /\ Emit("restock_approved", r.low, r.amount)
               /\ job' = Job("process", r.low)
  /\ UNCHANGED <<undelivered, queue, charges, supplied, now, deaths>>

RefusedUnlessPlanned(r) ==   \* (mutant) the caps are checked at proposal time only
  Expired(r) \/ ~Live \/ (NeedsPlan /\ ~r.plan)

Refused(r) ==
  Expired(r) \/ CapError(r.amount) \/ ~Live \/ (NeedsPlan /\ ~r.plan)

\* The checks, PaySponge's approval of the plan, and the record that a payment
\* starts.
StartPayment ==
  LET r == RecordOf(job.low) IN
  /\ job.step = "process"
  /\ \/ /\ Refused(r) \/ NeedsPlan   \* or PaySponge does not approve the plan
        /\ Fail(r.low, r.amount) /\ job' = Free
     \/ /\ ~Refused(r)
        /\ Emit("restock_payment_started", r.low, r.amount)
        /\ job' = Job("fetch", r.low)
  /\ UNCHANGED <<undelivered, queue, press, charges, supplied, now, deaths>>

PaidFetchRetrying ==   \* (mutant) an answer that is lost is asked for again
  /\ job.step = "fetch"
  /\ charges' = Append(charges, job.low) /\ supplied' = supplied \cup {job.low}
  /\ job' \in {job, Job("confirm", job.low)}
  /\ UNCHANGED <<log, records, undelivered, queue, press, now, deaths>>

PaidFetchHanging ==   \* (mutant) no timeout: a lost answer is waited for
  /\ job.step = "fetch"
  /\ charges' = Append(charges, job.low) /\ supplied' = supplied \cup {job.low}
  /\ job' \in {Job("confirm", job.low), Job("lost", job.low)}
  /\ UNCHANGED <<log, records, undelivered, queue, press, now, deaths>>

\* create_order: a key that is known is answered with its order, an item the
\* supplier does not have is refused.
CreateOrder(p, answer) ==
  \/ /\ p \in supplied \/ Sells(log[p].item)
     /\ answer = "order"
     /\ supplied' = supplied \cup {p}
  \/ /\ p \notin supplied /\ ~Sells(log[p].item)
     /\ answer = "refusal"
     /\ UNCHANGED supplied

ConfirmsAny(answer) == answer # "lost"   \* (mutant) whatever the gateway passes on

\* parse_supplier_confirmation: the bridge passes a refusal on as it does an
\* order, only what is in the body tells them apart.
Confirms(answer) == answer = "order"

Charge == charges' = Append(charges, job.low)

\* paid_fetch: the wallet or the bridge refuses, or the gateway charges, and then
\* the supplier answers or cannot be reached, and the answer comes or is lost.
\* A failed call is not repeated.
PaidFetch ==
  LET failed == Fail(job.low, RecordOf(job.low).amount) /\ job' = Free IN
  /\ job.step = "fetch"
  /\ \/ failed /\ UNCHANGED <<charges, supplied>>
     \/ failed /\ Charge /\ UNCHANGED supplied
     \/ \E answer \in {"order", "refusal"} :
          /\ Charge /\ CreateOrder(job.low, answer)
          /\ \/ failed
             \/ /\ Confirms(answer)
                /\ job' = Job("confirm", job.low) /\ UNCHANGED <<log, records>>
  /\ UNCHANGED <<undelivered, queue, press, now, deaths>>

RecordOrder ==
  /\ job.step = "confirm"
  /\ Emit("restock_ordered", job.low, RecordOf(job.low).amount)
  /\ job' = Free
  /\ UNCHANGED <<undelivered, queue, press, charges, supplied, now, deaths>>

-----------------------------------------------------------------------------
(* reject_pending: the Pico's CANCEL key, once it has seen a pending proposal. *)

RejectSeen(t) ==   \* (mutant) the proposal seen, whatever became of it
  /\ press[t].button = "cancel" /\ job = Free
  /\ LetGo(t)
  /\ Emit("restock_rejected", press[t].saw, 0)
  /\ UNCHANGED <<undelivered, queue, job, charges, supplied, now, deaths>>

Reject(t) ==
  /\ press[t].button = "cancel" /\ job = Free
  /\ LetGo(t)
  /\ IF Pending = {}
     THEN UNCHANGED <<log, records>>
     ELSE Emit("restock_rejected", NewestPending.low, NewestPending.amount)
  /\ UNCHANGED <<undelivered, queue, job, charges, supplied, now, deaths>>

-----------------------------------------------------------------------------
(* Time, death and restart. *)

Tick ==
  /\ now < MaxTime
  /\ now' = now + 1
  /\ UNCHANGED <<log, records, undelivered, queue, job, press, charges, supplied, deaths>>

NoLows == {}   \* (mutant) nothing is replayed

\* RestockRuntime.start: the StockLows no proposal was recorded for ...
Unproposed == {n \in Lows : ~HasStockLowOffset(n)}

\* ... in the order of the log.
InLogOrder(S) ==
  {q \in [1 .. Cardinality(S) -> S] : \A j, k \in DOMAIN q : j < k => q[j] < q[k]}

\* The process dies and is started again; nobody else writes meanwhile.
Crash ==
  /\ deaths < MaxDeaths
  /\ deaths' = deaths + 1
  /\ undelivered' = {}
  /\ queue' \in InLogOrder(Unproposed)
  /\ job' = Free
  /\ press' = [t \in Pressers |-> NoPress]
  /\ UNCHANGED <<log, records, charges, supplied, now>>

-----------------------------------------------------------------------------
Init ==
  /\ log = <<>> /\ records = <<>>
  /\ undelivered = {} /\ queue = <<>>
  /\ job = Free
  /\ press = [t \in Pressers |-> NoPress]
  /\ charges = <<>> /\ supplied = {}
  /\ now = 0 /\ deaths = 0

HandleStockLow ==
  \/ \E p \in Lows : QuoteFails(p) \/ \E a \in Amounts : Propose(p, a)
  \/ CheckProposal
  \/ SubmitPlan

ProcessApproved == StartPayment \/ PaidFetch \/ RecordOrder

Deliver == \E p \in Lows : LowEnqueue(p)

Press(t) == Approve(t) \/ Reject(t)

Next ==
  \/ \E i \in Items : LowCommit(i)
  \/ Deliver \/ HandleStockLow \/ ProcessApproved
  \/ \E t \in Pressers : Press(t) \/ \E b \in {"supply_buy", "cancel"} : Look(t, b)
  \/ Tick \/ Crash

Spec == Init /\ [][Next]_vars

\* The worker and the request threads are scheduled, the external calls time
\* out; nobody has to press, and no StockLow has to come.
FairSpec ==
  /\ Spec
  /\ WF_vars(Deliver) /\ WF_vars(HandleStockLow) /\ WF_vars(ProcessApproved)
  /\ \A t \in Pressers : WF_vars(Press(t))
=============================================================================
