-------------------------- MODULE RestockProperties --------------------------
(***************************************************************************)
(* What the restock state machine promises whoever pays for the fruit.      *)
(***************************************************************************)
EXTENDS Restock

Statuses == {"pending_approval", "approved", "payment_started", "ordered", "rejected", "failed"}

Final == {"ordered", "rejected", "failed"}

EventTypes == DOMAIN StatusAfter \cup {"restock_proposed", "restock_sponge_plan_submitted"}

Record == [low : Nat, amount : Nat, expires : Nat, status : Statuses, plan : BOOLEAN]

Jobs == {Free} \cup [step : {"check", "plan", "process", "fetch", "confirm"}, low : Nat]

\* Every variable has its type; what is queued, pending delivery or being worked
\* on is a StockLow of the log (restock/projection.py, restock/runtime.py).
TypeOK ==
  /\ \A n \in DOMAIN log : \/ log[n] \in [type : {"stock_low"}, item : Items]
                           \/ log[n] \in [type : EventTypes, low : Lows, amount : Nat, at : Nat]
  /\ records \in Seq(Record)
  /\ undelivered \subseteq Lows
  /\ queue \in Seq(Lows)
  /\ job \in Jobs /\ (job # Free => HasStockLowOffset(job.low))
  /\ press \in [Pressers -> {NoPress} \cup [button : {"supply_buy", "cancel"}, saw : Lows]]
  /\ charges \in Seq(Lows) /\ supplied \subseteq Lows
  /\ now \in Nat /\ deaths \in Nat

-----------------------------------------------------------------------------
(* Money. *)

Logged(type, p, n) == log[n].type = type /\ log[n].low = p

\* The wallet pays for a proposal only after that proposal was approved and never
\* rejected, and what it starts to pay is the amount that was proposed ("PaySponge
\* pays only after approval", README.md:87; coordinator.py _process_approved).
PaidWasApproved ==
  \A k \in DOMAIN charges :
    LET p == charges[k] IN
    /\ \E a, s \in DOMAIN log :
         /\ a < s /\ Logged("restock_approved", p, a) /\ Logged("restock_payment_started", p, s)
         /\ \E n \in 1 .. a : Logged("restock_proposed", p, n) /\ log[n].amount = log[s].amount
    /\ ~\E n \in DOMAIN log : Logged("restock_rejected", p, n)

\* No proposal is paid for twice, whatever is pressed twice, queued twice or
\* replayed after a restart (tests/unit/test_restock.py:296).
PaidOnce ==
  \A j, k \in DOMAIN charges : charges[j] = charges[k] => j = k

Started(n) == log[n].type = "restock_payment_started"

Spent(n, window) ==
  LET within == {m \in 1 .. n : Started(m) /\ log[n].at - log[m].at <= window} IN
  SumFunction([m \in within |-> log[m].amount])

\* Whenever a payment starts, it and the payments started in the hour and in the
\* day before it stay within the caps, although proposals are checked one by one,
\* some long before they are paid (coordinator.py _cap_error).
CapsHold ==
  \A n \in DOMAIN log : Started(n) =>
    /\ log[n].amount <= MaxOrder
    /\ Spent(n, Hour) <= HourCap
    /\ Spent(n, Day) <= DayCap

\* What the log calls ordered the supplier has an order for, and it was charged:
\* the gateway passes refusals on as it does confirmations, and a lost answer is
\* not a confirmation (coordinator.py:300-324, supplier.py:93).
OrderedIsSupplied ==
  \A k \in DOMAIN records :
    records[k].status = "ordered" =>
      /\ records[k].low \in supplied
      /\ \E n \in DOMAIN charges : charges[n] = records[k].low

-----------------------------------------------------------------------------
(* Proposals. *)

\* One StockLow is proposed at most once, though it may be queued again by every
\* restart (coordinator.py:83, runtime.py:98-100).
OneProposalPerLow ==
  \A j, k \in DOMAIN records : records[j].low = records[k].low => j = k

\* What was ordered, rejected or failed stays so (projection.py apply overwrites
\* the status whatever it was; only the coordinator's order of checks prevents it).
FinalStatusStays ==
  [][\A k \in DOMAIN records :
       records[k].status \in Final => records'[k].status = records[k].status]_records

-----------------------------------------------------------------------------
(* Progress. *)

Answered(p) ==
  \E n \in DOMAIN log : log[n].type \in {"restock_proposed", "restock_payment_failed"}
                        /\ log[n].low = p

\* Every StockLow of the log ends proposed or recorded as failed, also one whose
\* delivery or turn in the queue died with a process (runtime.py:98-100).
LowsAnswered == <>[](\A p \in Lows : Answered(p))

\* The coordinator's lock always comes back, and so does every press, whichever of
\* the two of them it was that had to wait (coordinator.py:82, :163, :189).
PressesEnd ==
  /\ job # Free ~> job = Free
  /\ \A t \in Pressers : press[t] # NoPress ~> press[t] = NoPress

=============================================================================
