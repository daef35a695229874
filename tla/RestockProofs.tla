---------------------------- MODULE RestockProofs ----------------------------
(***************************************************************************)
(* Proofs about the restock state machine, for any items, request threads,  *)
(* amounts, caps and modes, and any number of StockLows, ticks and deaths.   *)
(***************************************************************************)
EXTENDS RestockProperties, SetLemmas

-----------------------------------------------------------------------------
(* The log and the projection. *)

Marks == DOMAIN StatusAfter

LEMMA MarkTypes ==
  /\ Marks = {"restock_approved", "restock_rejected", "restock_payment_started",
              "restock_payment_failed", "restock_ordered"}
  /\ EventTypes = Marks \cup {"restock_proposed", "restock_sponge_plan_submitted"}
  /\ "stock_low" \notin EventTypes
  /\ \A type \in Marks : StatusAfter[type] \in Statuses \ {"pending_approval"}
BY DEF Marks, StatusAfter, EventTypes, Statuses

\* What is in the log, and that it may grow.
LogOK ==
  /\ log \in Seq(UNION {[type : {"stock_low"}, item : Items],
                        [type : EventTypes, low : Nat, amount : Nat, at : Nat]})
  /\ \A n \in DOMAIN log : log[n].type # "stock_low" => log[n].low \in Lows

\* Every record is of a StockLow, and no two are of the same.
RecordsOK ==
  /\ records \in Seq(Record)
  /\ \A k \in DOMAIN records : records[k].low \in Lows
  /\ OneProposalPerLow

\* The proposal of p has the status s.
At(p, s) == \E k \in DOMAIN records : records[k].low = p /\ records[k].status = s

\* The log is the old one and one more event.
LEMMA LogGrows ==
  ASSUME LogOK, NEW e, log' = Append(log, e),
         \/ e \in [type : {"stock_low"}, item : Items]
         \/ e \in [type : EventTypes, low : Lows, amount : Nat, at : Nat]
  PROVE  /\ LogOK'
         /\ Len(log) \in Nat /\ DOMAIN log = 1 .. Len(log) /\ DOMAIN log' = 1 .. Len(log) + 1
         /\ \A n \in DOMAIN log : log'[n] = log[n]
         /\ log'[Len(log) + 1] = e
         /\ Lows' = IF e.type = "stock_low" THEN Lows \cup {Len(log) + 1} ELSE Lows
         /\ Lows \subseteq Nat
<1> DEFINE D == UNION {[type : {"stock_low"}, item : Items],
                       [type : EventTypes, low : Nat, amount : Nat, at : Nat]}
<1>1. Lows \subseteq DOMAIN log /\ DOMAIN log = 1 .. Len(log) /\ Len(log) \in Nat
  BY DEF LogOK, Lows
<1>2. e \in D
  BY <1>1
<1>3. /\ log' \in Seq(D) /\ DOMAIN log' = 1 .. Len(log) + 1
      /\ \A n \in DOMAIN log : log'[n] = log[n]
      /\ log'[Len(log) + 1] = e
  <2>1. log \in Seq(D)
    BY DEF LogOK
  <2> HIDE DEF D
  <2>2. QED
    BY <1>2, <2>1
<1>4. Lows' = IF e.type = "stock_low" THEN Lows \cup {Len(log) + 1} ELSE Lows
  BY <1>1, <1>3 DEF Lows
<1>5. ASSUME NEW n \in DOMAIN log', log'[n].type # "stock_low"
      PROVE  log'[n].low \in Lows'
  <2>1. CASE n \in DOMAIN log
    BY <1>3, <1>4, <1>5, <2>1 DEF LogOK
  <2>2. CASE n = Len(log) + 1
    BY <1>3, <1>4, <1>5, <2>2
  <2>3. QED
    BY <1>1, <1>3, <2>1, <2>2
<1>6. LogOK'
  BY <1>3, <1>5 DEF LogOK
<1>7. QED
  BY <1>1, <1>3, <1>4, <1>6

LEMMA EmitLog ==
  ASSUME LogOK, now \in Nat, NEW type \in EventTypes, NEW p \in Lows, NEW a \in Nat,
         Emit(type, p, a)
  PROVE  /\ LogOK' /\ Lows' = Lows /\ Lows \subseteq Nat
         /\ Len(log) \in Nat /\ DOMAIN log = 1 .. Len(log) /\ DOMAIN log' = 1 .. Len(log) + 1
         /\ \A n \in DOMAIN log : log'[n] = log[n]
         /\ log'[Len(log) + 1] = Event(type, p, a)
<1>1. Event(type, p, a) \in [type : EventTypes, low : Lows, amount : Nat, at : Nat]
  BY DEF Event
<1>2. Event(type, p, a).type # "stock_low"
  BY MarkTypes DEF Event
<1>3. log' = Append(log, Event(type, p, a))
  BY DEF Emit
<1>4. QED
  BY <1>1, <1>2, <1>3, LogGrows

\* An event about a proposal that has its record sets its status and nothing else.
LEMMA EmitMark ==
  ASSUME LogOK, RecordsOK, now \in Nat, NEW type \in Marks, NEW p \in Lows, NEW a \in Nat,
         Emit(type, p, a)
  PROVE  /\ RecordsOK' /\ DOMAIN records' = DOMAIN records
         /\ \A k \in DOMAIN records :
              /\ records'[k].low = records[k].low /\ records'[k].amount = records[k].amount
              /\ records'[k].status = IF records[k].low = p THEN StatusAfter[type]
                                                           ELSE records[k].status
<1>1. type \in EventTypes /\ type # "restock_proposed" /\ type # "restock_sponge_plan_submitted"
  BY MarkTypes
<1>2. Lows' = Lows
  BY <1>1, EmitLog
<1>3. records' = [k \in DOMAIN records |->
                    IF records[k].low = p THEN [records[k] EXCEPT !.status = StatusAfter[type]]
                                          ELSE records[k]]
  BY <1>1 DEF Emit, ApplyRestock, Event
<1>4. StatusAfter[type] \in Statuses
  BY MarkTypes
<1> HIDE DEF Marks
<1>5. \A k \in DOMAIN records : records[k] \in Record
  BY DEF RecordsOK
<1>6. /\ DOMAIN records' = DOMAIN records
      /\ \A k \in DOMAIN records :
           /\ records'[k] \in Record
           /\ records'[k].low = records[k].low /\ records'[k].amount = records[k].amount
           /\ records'[k].status = IF records[k].low = p THEN StatusAfter[type]
                                                        ELSE records[k].status
  BY <1>3, <1>4, <1>5 DEF Record
<1>7. records' \in Seq(Record)
  <2>1. DOMAIN records = 1 .. Len(records) /\ Len(records) \in Nat
    BY DEF RecordsOK
  <2>2. records' = [k \in 1 .. Len(records) |-> records'[k]]
    BY <1>3, <2>1
  <2>3. QED
    BY <1>6, <2>1, <2>2
<1>8. QED
  BY <1>2, <1>6, <1>7 DEF RecordsOK, OneProposalPerLow

LEMMA EmitPlan ==
  ASSUME LogOK, RecordsOK, now \in Nat, NEW p \in Lows, NEW a \in Nat,
         Emit("restock_sponge_plan_submitted", p, a)
  PROVE  /\ RecordsOK' /\ DOMAIN records' = DOMAIN records
         /\ \A k \in DOMAIN records :
              /\ records'[k].low = records[k].low /\ records'[k].amount = records[k].amount
              /\ records'[k].status = records[k].status
<1>1. Lows' = Lows
  BY EmitLog, MarkTypes
<1>2. records' = [k \in DOMAIN records |->
                    IF records[k].low = p THEN [records[k] EXCEPT !.plan = TRUE] ELSE records[k]]
  BY DEF Emit, ApplyRestock, Event
<1>3. \A k \in DOMAIN records : records[k] \in Record
  BY DEF RecordsOK
<1>4. /\ DOMAIN records' = DOMAIN records
      /\ \A k \in DOMAIN records :
           /\ records'[k] \in Record
           /\ records'[k].low = records[k].low /\ records'[k].amount = records[k].amount
           /\ records'[k].status = records[k].status
  BY <1>2, <1>3 DEF Record
<1>5. records' \in Seq(Record)
  <2>1. DOMAIN records = 1 .. Len(records) /\ Len(records) \in Nat
    BY DEF RecordsOK
  <2>2. records' = [k \in 1 .. Len(records) |-> records'[k]]
    BY <1>2, <2>1
  <2>3. QED
    BY <1>4, <2>1, <2>2
<1>6. QED
  BY <1>1, <1>4, <1>5 DEF RecordsOK, OneProposalPerLow

LEMMA EmitProposal ==
  ASSUME LogOK, RecordsOK, now \in Nat, NEW p \in Lows, NEW a \in Nat, ~HasStockLowOffset(p),
         Emit("restock_proposed", p, a)
  PROVE  /\ RecordsOK'
         /\ Len(records) \in Nat /\ DOMAIN records = 1 .. Len(records)
         /\ DOMAIN records' = 1 .. Len(records) + 1
         /\ \A k \in DOMAIN records : records'[k] = records[k]
         /\ LET r == records'[Len(records) + 1] IN
              r.low = p /\ r.amount = a /\ r.status = "pending_approval"
<1> DEFINE r == [low |-> p, amount |-> a, expires |-> now + TTL,
                 status |-> "pending_approval", plan |-> FALSE]
<1>1. Lows' = Lows /\ Lows \subseteq Nat
  BY EmitLog, MarkTypes
<1>2. records' = Append(records, r)
  BY DEF Emit, ApplyRestock, Event
<1>3. r \in Record
  BY <1>1, RestockAssumption DEF Record, Statuses
<1>4. r.low = p /\ r.amount = a /\ r.status = "pending_approval"
  OBVIOUS
<1> HIDE DEF r
<1>5. records \in Seq(Record)
  BY DEF RecordsOK
<1>6. /\ records' \in Seq(Record) /\ Len(records) \in Nat /\ DOMAIN records = 1 .. Len(records)
      /\ DOMAIN records' = 1 .. Len(records) + 1
      /\ \A k \in DOMAIN records : records'[k] = records[k]
      /\ records'[Len(records) + 1] = r
  BY <1>2, <1>3, <1>5
<1>7. OneProposalPerLow'
  BY <1>4, <1>6 DEF OneProposalPerLow, RecordsOK, HasStockLowOffset
<1>8. \A k \in DOMAIN records' : records'[k].low \in Lows'
  BY <1>1, <1>4, <1>6 DEF RecordsOK
<1>9. QED
  BY <1>4, <1>6, <1>7, <1>8 DEF RecordsOK

\* Lookups in the projection.
LEMMA RecordOfIs ==
  ASSUME RecordsOK, NEW p, HasStockLowOffset(p)
  PROVE  \E k \in DOMAIN records : RecordOf(p) = records[k] /\ records[k].low = p
BY DEF RecordOf, HasStockLowOffset

-----------------------------------------------------------------------------
(* The inductive invariant. *)

VarsOK ==
  /\ undelivered \subseteq Lows /\ queue \in Seq(Lows)
  /\ job \in Jobs
  /\ press \in [Pressers -> {NoPress} \cup [button : {"supply_buy", "cancel"}, saw : Lows]]
  /\ charges \in Seq(Lows) /\ supplied \subseteq Lows
  /\ now \in Nat /\ deaths \in Nat

Charged(p) == \E i \in DOMAIN charges : charges[i] = p

\* The lock is held for a proposal whose status tells how far its holder is, and
\* nobody else changes that.
JobOK ==
  /\ job.step \in {"check", "plan"} => At(job.low, "pending_approval")
  /\ job.step = "process" => At(job.low, "approved")
  /\ job.step \in {"fetch", "confirm"} => At(job.low, "payment_started")
  /\ job.step = "fetch" => ~Charged(job.low)
  /\ job.step = "confirm" => Charged(job.low) /\ job.low \in supplied

Proposed(p, amount, n) == Logged("restock_proposed", p, n) /\ log[n].amount = amount

Approval(p, amount) ==
  \E a \in DOMAIN log : Logged("restock_approved", p, a) /\ \E n \in 1 .. a : Proposed(p, amount, n)

Chain(p) ==
  \E a, s \in DOMAIN log :
    /\ a < s /\ Logged("restock_approved", p, a) /\ Logged("restock_payment_started", p, s)
    /\ \E n \in 1 .. a : Proposed(p, log[s].amount, n)

\* A status is backed by the events that led to it, and a rejection is final.
BackedOK ==
  /\ \A k \in DOMAIN records :
       LET r == records[k] IN
       /\ \E n \in DOMAIN log : Proposed(r.low, r.amount, n)
       /\ r.status = "approved" => Approval(r.low, r.amount)
       /\ r.status = "payment_started" => Chain(r.low)
  /\ \A n \in DOMAIN log : log[n].type = "restock_rejected" => At(log[n].low, "rejected")

\* What was paid for was approved, and is never again what a payment starts from.
ChargesOK ==
  /\ \A i \in DOMAIN charges :
       /\ Chain(charges[i])
       /\ \E s \in {"payment_started", "ordered", "failed"} : At(charges[i], s)
  /\ PaidOnce
  /\ OrderedIsSupplied

IInv == LogOK /\ RecordsOK /\ VarsOK /\ JobOK /\ BackedOK /\ ChargesOK

-----------------------------------------------------------------------------
(* What an event about a proposal does to statuses and to what backs them. *)

LEMMA AtUnique ==
  ASSUME RecordsOK, NEW p, NEW s, NEW t, At(p, s), At(p, t)
  PROVE  s = t
BY DEF At, RecordsOK, OneProposalPerLow

\* The event that a holder of the lock may write about p.
Legal(type, p, amount) ==
  \/ type = "restock_approved" /\ At(p, "pending_approval")
  \/ type = "restock_rejected" /\ At(p, "pending_approval")
  \/ /\ type = "restock_payment_started"
     /\ \E k \in DOMAIN records :
          /\ records[k].low = p /\ records[k].status = "approved" /\ records[k].amount = amount
  \/ /\ type = "restock_payment_failed"
     /\ \A s \in Final : ~At(p, s)
  \/ type = "restock_ordered" /\ At(p, "payment_started") /\ Charged(p) /\ p \in supplied

LEMMA MarkAt ==
  ASSUME LogOK, RecordsOK, now \in Nat, NEW type \in Marks, NEW p \in Lows, NEW a \in Nat,
         Emit(type, p, a), NEW q, NEW s
  PROVE  /\ q # p => (At(q, s)' <=> At(q, s))
         /\ At(p, s)' <=> HasStockLowOffset(p) /\ s = StatusAfter[type]
BY EmitMark DEF At, HasStockLowOffset

\* What is in the log stays there.
LEMMA LogKeeps ==
  ASSUME DOMAIN log \subseteq DOMAIN log', Len(log) \in Nat, DOMAIN log = 1 .. Len(log),
         \A n \in DOMAIN log : log'[n] = log[n]
  PROVE  /\ \A p : Chain(p) => Chain(p)'
         /\ \A p, a : Approval(p, a) => Approval(p, a)'
         /\ \A p, a : \A n \in DOMAIN log : Proposed(p, a, n) => Proposed(p, a, n)'
<1> USE DEF Proposed, Logged
<1>1. ASSUME NEW p, Chain(p) PROVE Chain(p)'
  BY <1>1 DEF Chain
<1>2. ASSUME NEW p, NEW a, Approval(p, a) PROVE Approval(p, a)'
  BY <1>2 DEF Approval
<1>3. QED
  BY <1>1, <1>2

LEMMA MarkBacked ==
  ASSUME LogOK, RecordsOK, BackedOK, now \in Nat,
         NEW type \in Marks, NEW p \in Lows, NEW a \in Nat,
         Emit(type, p, a), Legal(type, p, a)
  PROVE  BackedOK'
<1>0. PICK end : end = Len(log) + 1
  OBVIOUS
<1>1. /\ Len(log) \in Nat /\ DOMAIN log = 1 .. Len(log) /\ DOMAIN log' = 1 .. end
      /\ \A n \in DOMAIN log : log'[n] = log[n]
      /\ log'[end] = Event(type, p, a)
  BY <1>0, EmitLog, MarkTypes
<1>2. /\ DOMAIN records' = DOMAIN records
      /\ \A k \in DOMAIN records :
           /\ records'[k].low = records[k].low /\ records'[k].amount = records[k].amount
           /\ records'[k].status = IF records[k].low = p THEN StatusAfter[type]
                                                        ELSE records[k].status
  BY EmitMark
<1>3. /\ \A q : Chain(q) => Chain(q)'
      /\ \A q, b : Approval(q, b) => Approval(q, b)'
      /\ \A q, b : \A n \in DOMAIN log : Proposed(q, b, n) => Proposed(q, b, n)'
  BY <1>0, <1>1, LogKeeps
<1>4. ASSUME NEW k \in DOMAIN records
      PROVE  \E n \in DOMAIN log' : Proposed(records[k].low, records[k].amount, n)'
  <2>1. PICK q, b : q = records[k].low /\ b = records[k].amount
    OBVIOUS
  <2>2. PICK n \in DOMAIN log : Proposed(q, b, n)
    BY <2>1 DEF BackedOK
  <2>3. n \in DOMAIN log' /\ Proposed(q, b, n)'
    BY <1>0, <1>1, <1>3, <2>2
  <2>4. q = records'[k].low /\ b = records'[k].amount
    BY <1>2, <2>1
  <2>5. QED
    BY <2>3, <2>4 DEF Proposed, Logged
<1>5. ASSUME NEW k \in DOMAIN records, records'[k].status = "approved"
      PROVE  Approval(records[k].low, records[k].amount)'
  <2>1. CASE records[k].low = p
    <3>1. type = "restock_approved"
      BY <1>2, <1>5, <2>1 DEF Marks, StatusAfter
    <3>0. PICK b : b = records[k].amount
      OBVIOUS
    <3>2. PICK n \in DOMAIN log : Proposed(p, b, n)
      BY <2>1, <3>0 DEF BackedOK
    <3>3. Logged("restock_approved", p, end)'
      BY <1>1, <3>1 DEF Logged, Event
    <3>4. n \in 1 .. end /\ end \in DOMAIN log' /\ Proposed(p, b, n)'
      BY <1>0, <1>1, <1>3, <3>2
    <3>5. Approval(p, b)'
      BY <3>3, <3>4 DEF Approval
    <3>6. records'[k].low = p /\ records'[k].amount = b
      BY <1>2, <2>1, <3>0
    <3>7. QED
      BY <3>5, <3>6 DEF Approval, Proposed
  <2>2. CASE records[k].low # p
    BY <1>2, <1>3, <1>5, <2>2 DEF BackedOK
  <2>3. QED
    BY <2>1, <2>2
<1>6. ASSUME NEW k \in DOMAIN records, records'[k].status = "payment_started"
      PROVE  Chain(records[k].low)'
  <2>1. CASE records[k].low = p
    <3>1. type = "restock_payment_started"
      BY <1>2, <1>6, <2>1 DEF Marks, StatusAfter
    <3>2. records[k].status = "approved" /\ records[k].amount = a
      BY <2>1, <3>1 DEF Legal, RecordsOK, OneProposalPerLow
    <3>3. PICK b \in DOMAIN log : Logged("restock_approved", p, b)
                                  /\ \E n \in 1 .. b : Proposed(p, a, n)
      BY <2>1, <3>2 DEF BackedOK, Approval
    <3>4. PICK n \in 1 .. b : Proposed(p, a, n)
      BY <3>3
    <3>5. b < end /\ b \in DOMAIN log' /\ end \in DOMAIN log' /\ n \in DOMAIN log
      BY <1>0, <1>1
    <3>6. Logged("restock_approved", p, b)' /\ Proposed(p, a, n)'
      BY <1>1, <1>3, <3>3, <3>4, <3>5 DEF Logged
    <3>7. Logged("restock_payment_started", p, end)' /\ log'[end].amount = a
      BY <1>1, <3>1 DEF Logged, Event
    <3>8. QED
      BY <1>2, <2>1, <3>5, <3>6, <3>7 DEF Chain
  <2>2. CASE records[k].low # p
    BY <1>2, <1>3, <1>6, <2>2 DEF BackedOK
  <2>3. QED
    BY <2>1, <2>2
<1>7. ASSUME NEW n \in DOMAIN log', log'[n].type = "restock_rejected"
      PROVE  At(log[n].low, "rejected")'
  <2>1. CASE n = end
    <3>1. type = "restock_rejected" /\ log'[n].low = p
      BY <1>1, <1>7, <2>1 DEF Event
    <3>2. At(p, "rejected")'
      BY <3>1, MarkAt DEF Legal, At, HasStockLowOffset, StatusAfter
    <3>3. QED
      BY <3>1, <3>2
  <2>2. CASE n \in DOMAIN log
    <3>1. At(log[n].low, "rejected") /\ log'[n] = log[n]
      BY <1>1, <1>7, <2>2 DEF BackedOK
    <3>2. log[n].low # p
      BY <3>1, AtUnique DEF Legal, Final, At
    <3>3. QED
      BY <3>1, <3>2, MarkAt
  <2>3. QED
    BY <1>0, <1>1, <2>1, <2>2
<1>8. QED
  BY <1>2, <1>4, <1>5, <1>6, <1>7 DEF BackedOK

LEMMA MarkCharges ==
  ASSUME LogOK, RecordsOK, BackedOK, ChargesOK, charges \in Seq(Lows), now \in Nat,
         NEW type \in Marks, NEW p \in Lows, NEW a \in Nat,
         Emit(type, p, a), Legal(type, p, a), supplied \subseteq supplied',
         \/ UNCHANGED charges
         \/ /\ type = "restock_payment_failed" /\ charges' = Append(charges, p)
            /\ At(p, "payment_started") /\ ~Charged(p)
  PROVE  ChargesOK'
<1>1. /\ \A q : Chain(q) => Chain(q)'
      /\ DOMAIN charges = 1 .. Len(charges) /\ Len(charges) \in Nat
  BY EmitLog, MarkTypes, LogKeeps
<1>2. /\ DOMAIN charges \subseteq DOMAIN charges'
      /\ \A i \in DOMAIN charges : charges'[i] = charges[i]
  BY <1>1
<1>3. ASSUME NEW i \in DOMAIN charges'
      PROVE  /\ Chain(charges[i])'
             /\ \E s \in {"payment_started", "ordered", "failed"} : At(charges[i], s)'
  <2>1. CASE i \in DOMAIN charges
    <3>0. PICK q : q = charges[i]
      OBVIOUS
    <3>1. PICK s \in {"payment_started", "ordered", "failed"} : At(q, s)
      BY <2>1, <3>0 DEF ChargesOK
    <3>2. Chain(q)'
      BY <1>1, <2>1, <3>0 DEF ChargesOK
    <3>3. CASE q # p
      <4>1. At(q, s)'
        BY <3>1, <3>3, MarkAt
      <4>2. QED
        BY <1>2, <2>1, <3>0, <3>2, <4>1
    <3>4. CASE q = p
      <4>1. HasStockLowOffset(p)
        BY <3>1, <3>4 DEF At, HasStockLowOffset
      <4>2. type \in {"restock_payment_failed", "restock_ordered"}
        BY <3>1, <3>4, AtUnique DEF Legal, At
      <4>3. StatusAfter[type] \in {"ordered", "failed"}
        BY <4>2 DEF StatusAfter
      <4>4. At(p, StatusAfter[type])'
        BY <4>1, MarkAt
      <4>5. QED
        BY <1>2, <2>1, <3>0, <3>2, <3>4, <4>3, <4>4
    <3>5. QED
      BY <3>3, <3>4
  <2>2. CASE i \notin DOMAIN charges
    <3>1. /\ i = Len(charges) + 1 /\ charges'[i] = p /\ type = "restock_payment_failed"
          /\ At(p, "payment_started")
      BY <1>1, <2>2
    <3>2. Chain(p)'
      BY <1>1, <3>1 DEF BackedOK, At
    <3>3. At(p, "failed")'
      <4>1. HasStockLowOffset(p) /\ StatusAfter[type] = "failed"
        BY <3>1 DEF At, HasStockLowOffset, StatusAfter
      <4>2. QED
        BY <4>1, MarkAt
    <3>4. QED
      BY <3>1, <3>2, <3>3
  <2>3. QED
    BY <2>1, <2>2
<1>4. PaidOnce'
  <2>1. CASE UNCHANGED charges
    BY <2>1 DEF ChargesOK, PaidOnce
  <2>2. CASE charges' = Append(charges, p) /\ ~Charged(p)
    <3>1. /\ DOMAIN charges' = 1 .. Len(charges) + 1
          /\ \A i \in DOMAIN charges : charges'[i] = charges[i]
          /\ charges'[Len(charges) + 1] = p
      BY <2>2
    <3>2. \A i \in DOMAIN charges : charges[i] # p
      BY <2>2 DEF Charged
    <3>3. QED
      BY <1>1, <3>1, <3>2 DEF ChargesOK, PaidOnce
  <2>3. QED
    BY <2>1, <2>2
<1>5. ASSUME NEW k \in DOMAIN records', records'[k].status = "ordered"
      PROVE  /\ records'[k].low \in supplied'
             /\ \E n \in DOMAIN charges' : charges'[n] = records'[k].low
  <2>1. /\ k \in DOMAIN records /\ records'[k].low = records[k].low
        /\ records'[k].status = IF records[k].low = p THEN StatusAfter[type]
                                                     ELSE records[k].status
    BY EmitMark
  <2>2. CASE records[k].low = p
    <3>1. type = "restock_ordered"
      BY <1>5, <2>1, <2>2 DEF Marks, StatusAfter
    <3>2. p \in supplied /\ Charged(p)
      BY <3>1 DEF Legal
    <3>3. QED
      BY <1>2, <2>1, <2>2, <3>2 DEF Charged
  <2>3. CASE records[k].low # p
    <3>1. records[k].low \in supplied /\ \E n \in DOMAIN charges : charges[n] = records[k].low
      BY <1>5, <2>1, <2>3 DEF ChargesOK, OrderedIsSupplied
    <3>2. QED
      BY <1>2, <2>1, <3>1
  <2>4. QED
    BY <2>2, <2>3
<1>6. QED
  BY <1>3, <1>4, <1>5 DEF ChargesOK, OrderedIsSupplied

\* A proposal's first event brings its record.
LEMMA ProposalKeeps ==
  ASSUME LogOK, RecordsOK, BackedOK, ChargesOK, now \in Nat,
         NEW p \in Lows, NEW a \in Nat, ~HasStockLowOffset(p),
         Emit("restock_proposed", p, a), UNCHANGED <<charges, supplied>>
  PROVE  /\ RecordsOK' /\ BackedOK' /\ ChargesOK' /\ At(p, "pending_approval")'
         /\ \A q, s : At(q, s) => At(q, s)'
<1>1. PICK end : end = Len(log) + 1
  OBVIOUS
<1>2. /\ Len(log) \in Nat /\ DOMAIN log = 1 .. Len(log) /\ DOMAIN log' = 1 .. end
      /\ \A n \in DOMAIN log : log'[n] = log[n]
      /\ log'[end] = Event("restock_proposed", p, a)
  BY <1>1, EmitLog, MarkTypes
<1>3. PICK last : last = Len(records) + 1
  OBVIOUS
<1>4. /\ RecordsOK'
      /\ DOMAIN records = 1 .. Len(records) /\ Len(records) \in Nat
      /\ DOMAIN records' = 1 .. last /\ last \notin DOMAIN records
      /\ \A k \in DOMAIN records : records'[k] = records[k]
      /\ records'[last].low = p /\ records'[last].amount = a
      /\ records'[last].status = "pending_approval"
  BY <1>3, EmitProposal
<1>5. /\ \A q : Chain(q) => Chain(q)'
      /\ \A q, b : Approval(q, b) => Approval(q, b)'
      /\ \A q, b : \A n \in DOMAIN log : Proposed(q, b, n) => Proposed(q, b, n)'
  BY <1>1, <1>2, LogKeeps
<1>6. At(p, "pending_approval")' /\ \A q, s : At(q, s) => At(q, s)'
  BY <1>3, <1>4 DEF At
<1>7. ASSUME NEW k \in DOMAIN records'
      PROVE  /\ (\E n \in DOMAIN log : Proposed(records[k].low, records[k].amount, n))'
             /\ (records[k].status = "approved" => Approval(records[k].low, records[k].amount))'
             /\ (records[k].status = "payment_started" => Chain(records[k].low))'
  <2>1. CASE k = last
    <3>1. end \in DOMAIN log' /\ Proposed(p, a, end)'
      BY <1>1, <1>2 DEF Proposed, Logged, Event
    <3>2. QED
      BY <1>4, <2>1, <3>1 DEF Proposed, Logged
  <2>2. CASE k \in DOMAIN records
    <3>1. PICK q, b : q = records[k].low /\ b = records[k].amount
      OBVIOUS
    <3>2. q = records'[k].low /\ b = records'[k].amount /\ records'[k].status = records[k].status
      BY <1>4, <2>2, <3>1
    <3>3. PICK n \in DOMAIN log : Proposed(q, b, n)
      BY <2>2, <3>1 DEF BackedOK
    <3>4. n \in DOMAIN log' /\ Proposed(q, b, n)'
      BY <1>1, <1>2, <1>5, <3>3
    <3>5. records[k].status = "approved" => Approval(q, b)'
      BY <1>5, <2>2, <3>1 DEF BackedOK
    <3>6. records[k].status = "payment_started" => Chain(q)'
      BY <1>5, <2>2, <3>1 DEF BackedOK
    <3>7. QED
      BY <3>2, <3>4, <3>5, <3>6 DEF Proposed, Logged, Approval, Chain
  <2>3. QED
    BY <1>3, <1>4, <2>1, <2>2
<1>8. ASSUME NEW n \in DOMAIN log', log'[n].type = "restock_rejected"
      PROVE  At(log[n].low, "rejected")'
  <2>1. n \in DOMAIN log
    BY <1>1, <1>2, <1>8 DEF Event
  <2>2. PICK q : q = log[n].low
    OBVIOUS
  <2>3. At(q, "rejected")' /\ q = log'[n].low
    BY <1>2, <1>6, <1>8, <2>1, <2>2 DEF BackedOK
  <2>4. QED
    BY <2>3 DEF At
<1>9. BackedOK'
  BY <1>7, <1>8 DEF BackedOK
<1>10. ASSUME NEW i \in DOMAIN charges'
       PROVE  /\ Chain(charges[i])'
              /\ (\E s \in {"payment_started", "ordered", "failed"} : At(charges[i], s))'
  <2>1. PICK q : q = charges[i]
    OBVIOUS
  <2>2. PICK s \in {"payment_started", "ordered", "failed"} : At(q, s)
    BY <2>1 DEF ChargesOK
  <2>3. Chain(q)' /\ At(q, s)' /\ q = charges'[i]
    BY <1>5, <1>6, <2>1, <2>2 DEF ChargesOK
  <2>4. QED
    BY <2>3 DEF Chain, At
<1>11. PaidOnce' /\ OrderedIsSupplied'
  BY <1>3, <1>4 DEF ChargesOK, PaidOnce, OrderedIsSupplied
<1>12. QED
  BY <1>4, <1>6, <1>9, <1>10, <1>11 DEF ChargesOK

\* That a plan was submitted changes no status.
LEMMA PlanKeeps ==
  ASSUME LogOK, RecordsOK, BackedOK, ChargesOK, now \in Nat, NEW p \in Lows,
         Emit("restock_sponge_plan_submitted", p, 0), UNCHANGED <<charges, supplied>>
  PROVE  LogOK' /\ Lows' = Lows /\ RecordsOK' /\ BackedOK' /\ ChargesOK'
<1> DEFINE type == "restock_sponge_plan_submitted"
<1>1. PICK end : end = Len(log) + 1
  OBVIOUS
<1>2. /\ LogOK' /\ Lows' = Lows
      /\ Len(log) \in Nat /\ DOMAIN log = 1 .. Len(log) /\ DOMAIN log' = 1 .. end
      /\ \A n \in DOMAIN log : log'[n] = log[n]
      /\ log'[end] = Event(type, p, 0)
  BY <1>1, EmitLog, MarkTypes
<1>3. /\ RecordsOK' /\ DOMAIN records' = DOMAIN records
      /\ \A k \in DOMAIN records :
           /\ records'[k].low = records[k].low /\ records'[k].amount = records[k].amount
           /\ records'[k].status = records[k].status
  BY EmitPlan
<1>4. /\ \A q : Chain(q) => Chain(q)'
      /\ \A q, b : Approval(q, b) => Approval(q, b)'
      /\ \A q, b : \A n \in DOMAIN log : Proposed(q, b, n) => Proposed(q, b, n)'
  BY <1>1, <1>2, LogKeeps
<1>5. \A q, s : At(q, s) => At(q, s)'
  BY <1>3 DEF At
<1>6. ASSUME NEW k \in DOMAIN records
      PROVE  /\ (\E n \in DOMAIN log : Proposed(records[k].low, records[k].amount, n))'
             /\ (records[k].status = "approved" => Approval(records[k].low, records[k].amount))'
             /\ (records[k].status = "payment_started" => Chain(records[k].low))'
  <2>1. PICK q, b : q = records[k].low /\ b = records[k].amount
    OBVIOUS
  <2>2. q = records'[k].low /\ b = records'[k].amount /\ records'[k].status = records[k].status
    BY <1>3, <2>1
  <2>3. PICK n \in DOMAIN log : Proposed(q, b, n)
    BY <2>1 DEF BackedOK
  <2>4. n \in DOMAIN log' /\ Proposed(q, b, n)'
    BY <1>1, <1>2, <1>4, <2>3
  <2>5. records[k].status = "approved" => Approval(q, b)'
    BY <1>4, <2>1 DEF BackedOK
  <2>6. records[k].status = "payment_started" => Chain(q)'
    BY <1>4, <2>1 DEF BackedOK
  <2>7. QED
    BY <2>2, <2>4, <2>5, <2>6 DEF Proposed, Logged, Approval, Chain
<1>7. ASSUME NEW n \in DOMAIN log', log'[n].type = "restock_rejected"
      PROVE  At(log[n].low, "rejected")'
  <2>1. n \in DOMAIN log
    BY <1>1, <1>2, <1>7 DEF Event
  <2>2. PICK q : q = log[n].low
    OBVIOUS
  <2>3. At(q, "rejected")' /\ q = log'[n].low
    BY <1>2, <1>5, <1>7, <2>1, <2>2 DEF BackedOK
  <2>4. QED
    BY <2>3 DEF At
<1>8. BackedOK'
  BY <1>3, <1>6, <1>7 DEF BackedOK
<1>9. ASSUME NEW i \in DOMAIN charges'
      PROVE  /\ Chain(charges[i])'
             /\ (\E s \in {"payment_started", "ordered", "failed"} : At(charges[i], s))'
  <2>1. PICK q : q = charges[i]
    OBVIOUS
  <2>2. PICK s \in {"payment_started", "ordered", "failed"} : At(q, s)
    BY <2>1 DEF ChargesOK
  <2>3. Chain(q)' /\ At(q, s)' /\ q = charges'[i]
    BY <1>4, <1>5, <2>1, <2>2 DEF ChargesOK
  <2>4. QED
    BY <2>3 DEF Chain, At
<1>10. PaidOnce' /\ OrderedIsSupplied'
  BY <1>3 DEF ChargesOK, PaidOnce, OrderedIsSupplied
<1>11. QED
  BY <1>2, <1>3, <1>8, <1>9, <1>10 DEF ChargesOK

-----------------------------------------------------------------------------
(* The steps. *)

LEMMA NewestPendingIs ==
  ASSUME RecordsOK, Pending # {}
  PROVE  \E k \in DOMAIN records : NewestPending = records[k] /\ records[k].status = "pending_approval"
<1>1. PICK n \in Nat : DOMAIN records = 1 .. n
  BY DEF RecordsOK
<1>2. Pending \in SUBSET (1 .. n)
  BY <1>1 DEF Pending
<1>3. \E k \in Pending : \A j \in Pending : j <= k
  BY <1>2, GreatestMember
<1>4. QED
  BY <1>3 DEF NewestPending, Pending

LEMMA FreeJob ==
  ASSUME job' = Free
  PROVE  JobOK' /\ job' \in Jobs
BY DEF Free, JobOK, Jobs

\* A record's StockLow and amount are numbers of the right kind.
LEMMA RecordFacts ==
  ASSUME RecordsOK, NEW k \in DOMAIN records
  PROVE  records[k].low \in Lows /\ records[k].amount \in Nat
<1>1. records[k] \in Record
  BY DEF RecordsOK
<1>2. QED
  BY <1>1 DEF RecordsOK, Record

\* The proposal the lock is held for.
LEMMA JobRecord ==
  ASSUME RecordsOK, NEW s, At(job.low, s)
  PROVE  LET r == RecordOf(job.low) IN
         /\ HasStockLowOffset(job.low) /\ job.low \in Lows
         /\ r.low = job.low /\ r.status = s /\ r.amount \in Nat
         /\ \E k \in DOMAIN records : records[k] = r
<1>1. HasStockLowOffset(job.low)
  BY DEF At, HasStockLowOffset
<1>2. PICK k \in DOMAIN records : RecordOf(job.low) = records[k] /\ records[k].low = job.low
  BY <1>1, RecordOfIs
<1>3. records[k].status = s
  BY <1>2 DEF At, RecordsOK, OneProposalPerLow
<1>4. QED
  BY <1>1, <1>2, <1>3, RecordFacts

\* An event that its writer may write keeps what the log and the records say.
LEMMA MarkKeeps ==
  ASSUME IInv, NEW type \in Marks, NEW p \in Lows, NEW a \in Nat,
         Emit(type, p, a), Legal(type, p, a), UNCHANGED <<charges, supplied>>
  PROVE  LogOK' /\ RecordsOK' /\ BackedOK' /\ ChargesOK' /\ Lows' = Lows
<1> USE DEF IInv, VarsOK
<1>1. LogOK' /\ Lows' = Lows
  BY EmitLog, MarkTypes
<1>2. RecordsOK'
  BY EmitMark
<1>3. BackedOK'
  BY MarkBacked
<1>4. ChargesOK'
  BY MarkCharges
<1>5. QED
  BY <1>1, <1>2, <1>3, <1>4

\* Nobody rejects or approves what is not pending, nor fails what is over.
LEMMA PendingLegal ==
  ASSUME RecordsOK, NEW p, At(p, "pending_approval"), NEW a
  PROVE  /\ Legal("restock_approved", p, a) /\ Legal("restock_rejected", p, a)
         /\ Legal("restock_payment_failed", p, a)
BY AtUnique DEF Legal, Final

LEMMA HeldLegal ==
  ASSUME RecordsOK, NEW p, NEW s \in {"pending_approval", "approved", "payment_started"},
         At(p, s), NEW a
  PROVE  Legal("restock_payment_failed", p, a)
BY AtUnique DEF Legal, Final

LEMMA LowCommitKeeps ==
  ASSUME IInv, NEW i \in Items, LowCommit(i)
  PROVE  IInv'
<1> USE DEF IInv, LowCommit
<1>1. PICK end : end = Len(log) + 1
  OBVIOUS
<1>2. /\ LogOK' /\ Len(log) \in Nat /\ DOMAIN log = 1 .. Len(log) /\ DOMAIN log' = 1 .. end
      /\ \A n \in DOMAIN log : log'[n] = log[n]
      /\ log'[end].type = "stock_low"
      /\ Lows' = Lows \cup {end}
  <2>1. StockLow(i) \in [type : {"stock_low"}, item : Items] /\ StockLow(i).type = "stock_low"
    BY DEF StockLow
  <2>2. QED
    BY <1>1, <2>1, LogGrows
<1>3. RecordsOK'
  BY <1>2 DEF RecordsOK, OneProposalPerLow
<1>4. VarsOK'
  <2>1. \A q \in Seq(Lows) : q \in Seq(Lows')
    BY <1>2
  <2>2. queue' \in Seq(Lows') /\ charges' \in Seq(Lows')
    BY <2>1 DEF VarsOK
  <2>3. press' \in [Pressers -> {NoPress} \cup [button : {"supply_buy", "cancel"}, saw : Lows']]
    BY <1>2 DEF VarsOK
  <2>4. undelivered' \subseteq Lows' /\ supplied' \subseteq Lows'
    BY <1>1, <1>2 DEF VarsOK
  <2>5. QED
    BY <2>2, <2>3, <2>4 DEF VarsOK
<1>5. JobOK'
  BY DEF JobOK, At, Charged
<1>6. /\ \A q : Chain(q) => Chain(q)'
      /\ \A q, b : Approval(q, b) => Approval(q, b)'
      /\ \A q, b : \A n \in DOMAIN log : Proposed(q, b, n) => Proposed(q, b, n)'
  BY <1>1, <1>2, LogKeeps
<1>7. BackedOK'
  <2>1. ASSUME NEW k \in DOMAIN records
        PROVE  /\ (\E n \in DOMAIN log : Proposed(records[k].low, records[k].amount, n))'
               /\ (records[k].status = "approved" => Approval(records[k].low, records[k].amount))'
               /\ (records[k].status = "payment_started" => Chain(records[k].low))'
    <3>1. PICK q, b : q = records[k].low /\ b = records[k].amount
      OBVIOUS
    <3>2. PICK n \in DOMAIN log : Proposed(q, b, n)
      BY <3>1 DEF BackedOK
    <3>3. n \in DOMAIN log' /\ Proposed(q, b, n)'
      BY <1>1, <1>2, <1>6, <3>2
    <3>4. records[k].status = "approved" => Approval(q, b)'
      BY <1>6, <3>1 DEF BackedOK
    <3>5. records[k].status = "payment_started" => Chain(q)'
      BY <1>6, <3>1 DEF BackedOK
    <3>6. records' = records
      OBVIOUS
    <3>7. QED
      BY <3>1, <3>3, <3>4, <3>5, <3>6 DEF Proposed, Logged, Approval, Chain
  <2>2. ASSUME NEW n \in DOMAIN log', log'[n].type = "restock_rejected"
        PROVE  At(log[n].low, "rejected")'
    BY <1>1, <1>2, <2>2 DEF BackedOK, At
  <2>3. QED
    BY <2>1, <2>2 DEF BackedOK
<1>8. ChargesOK'
  <2>1. ASSUME NEW n \in DOMAIN charges'
        PROVE  Chain(charges[n])' /\ (\E s \in {"payment_started", "ordered", "failed"} : At(charges[n], s))'
    <3>1. PICK q : q = charges[n]
      OBVIOUS
    <3>2. Chain(q)'
      BY <1>6, <3>1 DEF ChargesOK
    <3>3. charges' = charges /\ records' = records
      OBVIOUS
    <3>4. QED
      BY <3>1, <3>2, <3>3 DEF ChargesOK, Chain, At
  <2>2. QED
    BY <2>1 DEF ChargesOK, PaidOnce, OrderedIsSupplied
<1>9. QED
  BY <1>2, <1>3, <1>4, <1>5, <1>7, <1>8

\* Steps that write no event.
LEMMA QuietKeeps ==
  ASSUME IInv, UNCHANGED <<log, records>>, VarsOK', JobOK', ChargesOK'
  PROVE  IInv'
<1>1. LogOK' /\ RecordsOK' /\ BackedOK'
  BY DEF IInv, LogOK, RecordsOK, OneProposalPerLow, Lows, BackedOK, Proposed, Logged, Approval, Chain, At
<1>2. QED
  BY <1>1 DEF IInv

LEMMA QuietCharges ==
  ASSUME ChargesOK, UNCHANGED <<log, records, charges, supplied>>
  PROVE  ChargesOK'
BY DEF ChargesOK, Chain, Proposed, Logged, At, PaidOnce, OrderedIsSupplied

\* Steps of the worker's queue, of the operator's eyes, of time and of death.
LEMMA LowEnqueueKeeps ==
  ASSUME IInv, NEW p \in Lows, LowEnqueue(p)
  PROVE  IInv'
<1> USE DEF IInv, LowEnqueue
<1>1. Lows' = Lows
  BY DEF Lows
<1>2. VarsOK'
  BY <1>1 DEF VarsOK
<1>3. JobOK'
  BY DEF JobOK, At, Charged
<1>4. QED
  BY <1>2, <1>3, QuietKeeps, QuietCharges

LEMMA LookKeeps ==
  ASSUME IInv, NEW t \in Pressers, NEW b \in {"supply_buy", "cancel"}, Look(t, b)
  PROVE  IInv'
<1> DEFINE seen == IF b = "supply_buy" THEN records[Len(records)] ELSE NewestPending
<1> USE DEF IInv
<1>1. Lows' = Lows /\ UNCHANGED <<log, records, undelivered, queue, job, charges, supplied, now, deaths>>
  BY DEF Lows, Look
<1>2. seen.low \in Lows
  <2>1. Pending # {}
    BY DEF Look
  <2>2. Len(records) \in DOMAIN records
    BY <2>1 DEF Pending, RecordsOK
  <2>3. \E k \in DOMAIN records : seen = records[k]
    BY <2>1, <2>2, NewestPendingIs
  <2>4. QED
    BY <2>3, RecordFacts
<1>3. press' = [press EXCEPT ![t] = [button |-> b, saw |-> seen.low]]
  BY DEF Look
<1> HIDE DEF seen
<1>4. VarsOK'
  BY <1>1, <1>2, <1>3 DEF VarsOK
<1>5. JobOK'
  BY <1>1 DEF JobOK, At, Charged
<1>6. QED
  BY <1>1, <1>4, <1>5, QuietKeeps, QuietCharges

LEMMA TickKeeps ==
  ASSUME IInv, Tick
  PROVE  IInv'
<1> USE DEF IInv, Tick
<1>1. Lows' = Lows
  BY DEF Lows
<1>2. VarsOK'
  BY <1>1 DEF VarsOK
<1>3. JobOK'
  BY DEF JobOK, At, Charged
<1>4. QED
  BY <1>2, <1>3, QuietKeeps, QuietCharges

LEMMA CrashKeeps ==
  ASSUME IInv, Crash
  PROVE  IInv'
<1> USE DEF IInv
<1>1. Lows' = Lows /\ UNCHANGED <<log, records, charges, supplied, now>>
  BY DEF Lows, Crash
<1>2. queue' \in Seq(Lows)
  <2>1. Lows \in SUBSET DOMAIN log /\ Unproposed \in SUBSET DOMAIN log
    BY DEF Lows, Unproposed
  <2>2. IsFiniteSet(DOMAIN log)
    <3>1. PICK n \in Nat : DOMAIN log = 1 .. n
      BY DEF LogOK
    <3>2. 1 \in Int /\ n \in Int
      OBVIOUS
    <3>3. QED
      BY <3>1, <3>2, FS_Interval
  <2>3. IsFiniteSet(Unproposed)
    BY <2>1, <2>2, FS_Subset
  <2>4. PICK n : n = Cardinality(Unproposed) /\ n \in Nat
    BY <2>3, FS_CardinalityType
  <2>5. queue' \in [1 .. n -> Unproposed]
    BY <2>4 DEF Crash, InLogOrder
  <2>6. Unproposed \subseteq Lows
    BY DEF Unproposed
  <2> HIDE DEF Lows, Unproposed
  <2>7. QED
    BY <2>4, <2>5, <2>6
<1>3. job' \in Jobs /\ JobOK'
  BY FreeJob DEF Crash
<1>4. VarsOK'
  BY <1>1, <1>2, <1>3 DEF VarsOK, Crash
<1>5. QED
  BY <1>1, <1>3, <1>4, QuietKeeps, QuietCharges

\* Steps of the coordinator.
LEMMA QuoteFailsKeeps ==
  ASSUME IInv, NEW p \in Lows, QuoteFails(p)
  PROVE  IInv'
<1> USE DEF IInv
<1>1. /\ Emit("restock_payment_failed", p, 0) /\ ~HasStockLowOffset(p) /\ job' = job /\ job = Free
      /\ queue # <<>> /\ queue' = Tail(queue)
      /\ UNCHANGED <<undelivered, press, charges, supplied, now, deaths>>
  BY DEF QuoteFails, Take, Fail
<1>2. Legal("restock_payment_failed", p, 0)
  BY <1>1 DEF Legal, At, HasStockLowOffset
<1>3. LogOK' /\ RecordsOK' /\ BackedOK' /\ ChargesOK' /\ Lows' = Lows
  BY <1>1, <1>2, MarkKeeps, MarkTypes
<1>4. VarsOK'
  BY <1>1, <1>3 DEF VarsOK
<1>5. JobOK'
  BY <1>1, FreeJob
<1>6. QED
  BY <1>3, <1>4, <1>5

LEMMA ProposeKeeps ==
  ASSUME IInv, NEW p \in Lows, NEW a \in Amounts, Propose(p, a)
  PROVE  IInv'
<1> USE DEF IInv
<1>1. /\ job = Free /\ queue # <<>> /\ queue' = Tail(queue)
      /\ UNCHANGED <<undelivered, press, charges, supplied, now, deaths>>
  BY DEF Propose, Take
<1>2. now \in Nat
  BY DEF VarsOK
<1>3. CASE UNCHANGED <<log, records, job>>
  <2>1. Lows' = Lows
    BY <1>3 DEF Lows
  <2>2. VarsOK'
    BY <1>1, <1>3, <2>1 DEF VarsOK
  <2>3. QED
    BY <1>1, <1>3, <2>2, FreeJob, QuietKeeps, QuietCharges
<1>4. CASE /\ ~HasStockLowOffset(p) /\ Emit("restock_proposed", p, a) /\ job' = Job("check", p)
  <2>1. a \in Nat
    BY RestockAssumption
  <2>2. LogOK' /\ Lows' = Lows /\ Lows \subseteq Nat
    BY <1>2, <1>4, <2>1, EmitLog, MarkTypes
  <2>3. RecordsOK' /\ BackedOK' /\ ChargesOK' /\ At(p, "pending_approval")'
    BY <1>1, <1>2, <1>4, <2>1, ProposalKeeps
  <2>4. job' \in Jobs /\ job'.step = "check" /\ job'.low = p
    BY <1>4, <2>2 DEF Jobs, Job
  <2>5. JobOK'
    BY <2>3, <2>4 DEF JobOK, At
  <2>6. VarsOK'
    BY <1>1, <2>2, <2>4 DEF VarsOK
  <2>7. QED
    BY <2>2, <2>3, <2>5, <2>6
<1>5. QED
  BY <1>3, <1>4 DEF Propose

LEMMA CheckProposalKeeps ==
  ASSUME IInv, CheckProposal
  PROVE  IInv'
<1> DEFINE r == RecordOf(job.low)
<1> USE DEF IInv
<1>1. UNCHANGED <<undelivered, queue, press, charges, supplied, now, deaths>> /\ job.step = "check"
  BY DEF CheckProposal
<1>2. At(job.low, "pending_approval") /\ r.low = job.low /\ job.low \in Lows /\ r.amount \in Nat
  BY <1>1, JobRecord DEF JobOK
<1>3. CASE Fail(r.low, r.amount) /\ job' = Free
  <2> HIDE DEF r
  <2>1. LogOK' /\ RecordsOK' /\ BackedOK' /\ ChargesOK' /\ Lows' = Lows
    BY <1>1, <1>2, <1>3, PendingLegal, MarkKeeps, MarkTypes DEF Fail
  <2>2. JobOK' /\ job' \in Jobs
    BY <1>3, FreeJob
  <2>3. VarsOK'
    BY <1>1, <2>1, <2>2 DEF VarsOK
  <2>4. QED
    BY <2>1, <2>2, <2>3
<1>4. CASE job' \in {Job("plan", job.low), Free} /\ UNCHANGED <<log, records>>
  <2>1. Lows' = Lows
    BY <1>4 DEF Lows
  <2>2. job' \in Jobs
    <3>1. job.low \in Nat
      BY <1>2 DEF Lows, LogOK
    <3>2. QED
      BY <1>4, <3>1 DEF Jobs, Job
  <2>3. VarsOK'
    BY <1>1, <2>1, <2>2 DEF VarsOK
  <2>4. JobOK'
    BY <1>1, <1>2, <1>4 DEF JobOK, Job, Free, At
  <2>5. QED
    BY <1>1, <1>4, <2>3, <2>4, QuietKeeps, QuietCharges
<1>5. QED
  <2>1. r.low = job.low
    BY <1>2
  <2> HIDE DEF r
  <2>2. QED
    BY <1>3, <1>4, <2>1 DEF CheckProposal, r

LEMMA SubmitPlanKeeps ==
  ASSUME IInv, SubmitPlan
  PROVE  IInv'
<1> USE DEF IInv
<1>1. /\ UNCHANGED <<undelivered, queue, press, charges, supplied, now, deaths>>
      /\ job.step = "plan" /\ job' = Free
  BY DEF SubmitPlan
<1>2. At(job.low, "pending_approval") /\ job.low \in Lows /\ now \in Nat
  BY <1>1, JobRecord DEF JobOK, VarsOK
<1>3. JobOK' /\ job' \in Jobs
  BY <1>1, FreeJob
<1>4. CASE Fail(job.low, 0)
  <2>1. LogOK' /\ RecordsOK' /\ BackedOK' /\ ChargesOK' /\ Lows' = Lows
    BY <1>1, <1>2, <1>4, PendingLegal, MarkKeeps, MarkTypes DEF Fail
  <2>2. VarsOK'
    BY <1>1, <1>3, <2>1 DEF VarsOK
  <2>3. QED
    BY <1>3, <2>1, <2>2
<1>5. CASE Emit("restock_sponge_plan_submitted", job.low, 0)
  <2>1. LogOK' /\ RecordsOK' /\ BackedOK' /\ ChargesOK' /\ Lows' = Lows
    BY <1>1, <1>2, <1>5, PlanKeeps
  <2>2. VarsOK'
    BY <1>1, <1>3, <2>1 DEF VarsOK
  <2>3. QED
    BY <1>3, <2>1, <2>2
<1>6. QED
  BY <1>4, <1>5 DEF SubmitPlan

\* Of the newest pending proposal the operator's decision is legal.
LEMMA NewestPendingFacts ==
  ASSUME RecordsOK, Pending # {}
  PROVE  /\ NewestPending.low \in Lows /\ NewestPending.amount \in Nat
         /\ At(NewestPending.low, "pending_approval")
<1>1. PICK k \in DOMAIN records : NewestPending = records[k] /\ records[k].status = "pending_approval"
  BY NewestPendingIs
<1>2. QED
  BY <1>1, RecordFacts DEF At

LEMMA LetGoType ==
  ASSUME VarsOK, Lows' = Lows, NEW t \in Pressers, LetGo(t)
  PROVE  press' \in [Pressers -> {NoPress} \cup [button : {"supply_buy", "cancel"}, saw : Lows']]
BY DEF VarsOK, LetGo

LEMMA ApproveKeeps ==
  ASSUME IInv, NEW t \in Pressers, Approve(t)
  PROVE  IInv'
<1> USE DEF IInv
<1>1. /\ UNCHANGED <<undelivered, queue, charges, supplied, now, deaths>>
      /\ LetGo(t) /\ job = Free
  BY DEF Approve
<1>2. CASE UNCHANGED <<log, records, job>>
  <2>1. Lows' = Lows
    BY <1>2 DEF Lows
  <2>2. VarsOK'
    BY <1>1, <1>2, <2>1, LetGoType DEF VarsOK
  <2>3. QED
    BY <1>1, <1>2, <2>2, FreeJob, QuietKeeps, QuietCharges
<1>3. ASSUME NEW p \in Lows, NEW a \in Nat, At(p, "pending_approval"),
             Fail(p, a), UNCHANGED job
      PROVE  IInv'
  <2>1. LogOK' /\ RecordsOK' /\ BackedOK' /\ ChargesOK' /\ Lows' = Lows
    BY <1>1, <1>3, PendingLegal, MarkKeeps, MarkTypes DEF Fail
  <2>2. JobOK'
    BY <1>1, <1>3, FreeJob
  <2>3. VarsOK'
    BY <1>1, <1>3, <2>1, LetGoType DEF VarsOK
  <2>4. QED
    BY <2>1, <2>2, <2>3
<1>4. ASSUME NEW p \in Lows, NEW a \in Nat, At(p, "pending_approval"),
             Emit("restock_approved", p, a), job' = Job("process", p)
      PROVE  IInv'
  <2>1. LogOK' /\ RecordsOK' /\ BackedOK' /\ ChargesOK' /\ Lows' = Lows
    BY <1>1, <1>4, PendingLegal, MarkKeeps, MarkTypes
  <2>2. job' \in Jobs /\ job'.step = "process" /\ job'.low = p
    BY <1>4 DEF Jobs, Job, Lows, LogOK
  <2>3. At(p, "approved")'
    <3>1. HasStockLowOffset(p) /\ StatusAfter["restock_approved"] = "approved" /\ now \in Nat
      BY <1>4 DEF At, HasStockLowOffset, StatusAfter, VarsOK
    <3>2. QED
      BY <1>4, <3>1, MarkAt, MarkTypes
  <2>4. JobOK'
    BY <2>2, <2>3 DEF JobOK, At
  <2>5. VarsOK'
    BY <1>1, <2>1, <2>2, LetGoType DEF VarsOK
  <2>6. QED
    BY <2>1, <2>4, <2>5
<1>5. QED
  BY <1>2, <1>3, <1>4, NewestPendingFacts DEF Approve

LEMMA RejectKeeps ==
  ASSUME IInv, NEW t \in Pressers, Reject(t)
  PROVE  IInv'
<1> USE DEF IInv
<1>1. /\ UNCHANGED <<undelivered, queue, job, charges, supplied, now, deaths>>
      /\ LetGo(t) /\ job = Free
  BY DEF Reject
<1>2. CASE UNCHANGED <<log, records>>
  <2>1. Lows' = Lows
    BY <1>2 DEF Lows
  <2>2. VarsOK'
    BY <1>1, <1>2, <2>1, LetGoType DEF VarsOK
  <2>3. QED
    BY <1>1, <1>2, <2>2, FreeJob, QuietKeeps, QuietCharges
<1>3. ASSUME NEW p \in Lows, NEW a \in Nat, At(p, "pending_approval"),
             Emit("restock_rejected", p, a)
      PROVE  IInv'
  <2>1. LogOK' /\ RecordsOK' /\ BackedOK' /\ ChargesOK' /\ Lows' = Lows
    BY <1>1, <1>3, PendingLegal, MarkKeeps, MarkTypes
  <2>2. JobOK'
    BY <1>1, FreeJob
  <2>3. VarsOK'
    BY <1>1, <2>1, LetGoType DEF VarsOK
  <2>4. QED
    BY <2>1, <2>2, <2>3
<1>4. QED
  BY <1>2, <1>3, NewestPendingFacts DEF Reject

LEMMA StartPaymentKeeps ==
  ASSUME IInv, StartPayment
  PROVE  IInv'
<1> DEFINE r == RecordOf(job.low)
<1> USE DEF IInv
<1>1. UNCHANGED <<undelivered, queue, press, charges, supplied, now, deaths>> /\ job.step = "process"
  BY DEF StartPayment
<1>2. /\ At(job.low, "approved") /\ r.low = job.low /\ job.low \in Lows /\ r.amount \in Nat
      /\ r.status = "approved" /\ \E k \in DOMAIN records : records[k] = r
  BY <1>1, JobRecord DEF JobOK
<1>3. CASE Fail(r.low, r.amount) /\ job' = Free
  <2> HIDE DEF r
  <2>1. LogOK' /\ RecordsOK' /\ BackedOK' /\ ChargesOK' /\ Lows' = Lows
    BY <1>1, <1>2, <1>3, HeldLegal, MarkKeeps, MarkTypes DEF Fail
  <2>2. JobOK' /\ job' \in Jobs
    BY <1>3, FreeJob
  <2>3. VarsOK'
    BY <1>1, <2>1, <2>2 DEF VarsOK
  <2>4. QED
    BY <2>1, <2>2, <2>3
<1>4. CASE Emit("restock_payment_started", r.low, r.amount) /\ job' = Job("fetch", r.low)
  <2>1. PICK p \in Lows, a \in Nat : p = r.low /\ a = r.amount /\ p = job.low
    BY <1>2
  <2> HIDE DEF r
  <2>2. Legal("restock_payment_started", p, a)
    BY <1>2, <2>1 DEF Legal
  <2>3. LogOK' /\ RecordsOK' /\ BackedOK' /\ ChargesOK' /\ Lows' = Lows
    BY <1>1, <1>4, <2>1, <2>2, MarkKeeps, MarkTypes
  <2>4. job' \in Jobs /\ job'.step = "fetch" /\ job'.low = p
    BY <1>4, <2>1 DEF Jobs, Job, Lows, LogOK
  <2>5. At(p, "payment_started")'
    <3>1. /\ HasStockLowOffset(p) /\ StatusAfter["restock_payment_started"] = "payment_started"
          /\ now \in Nat
      BY <1>2, <2>1 DEF At, HasStockLowOffset, StatusAfter, VarsOK
    <3>2. QED
      BY <1>4, <2>1, <3>1, MarkAt, MarkTypes
  <2>6. ~Charged(p)
    BY <1>2, <2>1, AtUnique DEF Charged, ChargesOK
  <2>7. JobOK'
    BY <1>1, <2>4, <2>5, <2>6 DEF JobOK, At, Charged
  <2>8. VarsOK'
    BY <1>1, <2>3, <2>4 DEF VarsOK
  <2>9. QED
    BY <2>3, <2>7, <2>8
<1>5. QED
  BY <1>3, <1>4 DEF StartPayment

LEMMA PaidFetchKeeps ==
  ASSUME IInv, PaidFetch
  PROVE  IInv'
<1> USE DEF IInv
<1>1. UNCHANGED <<undelivered, queue, press, now, deaths>> /\ job.step = "fetch"
  BY DEF PaidFetch
<1>2. PICK p \in Lows : p = job.low
  BY <1>1, JobRecord DEF JobOK
<1>3. /\ At(p, "payment_started") /\ ~Charged(p) /\ RecordOf(p).amount \in Nat /\ now \in Nat
      /\ charges \in Seq(Lows) /\ supplied \subseteq Lows
  BY <1>1, <1>2, JobRecord DEF JobOK, VarsOK
<1>4. ASSUME NEW a \in Nat, Fail(p, a), job' = Free,
             charges' \in {charges, Append(charges, p)}, supplied' \in {supplied, supplied \cup {p}}
      PROVE  IInv'
  <2>1. Emit("restock_payment_failed", p, a) /\ "restock_payment_failed" \in Marks
        /\ Legal("restock_payment_failed", p, a)
    BY <1>3, <1>4, HeldLegal, MarkTypes DEF Fail
  <2>2. LogOK' /\ Lows' = Lows
    BY <1>3, <2>1, EmitLog, MarkTypes
  <2>3. RecordsOK' /\ BackedOK'
    BY <1>3, <2>1, EmitMark, MarkBacked
  <2>4. ChargesOK'
    BY <1>3, <1>4, <2>1, MarkCharges
  <2>5. JobOK' /\ job' \in Jobs
    BY <1>4, FreeJob
  <2>6. charges' \in Seq(Lows) /\ supplied' \subseteq Lows
    <3> HIDE DEF Lows
    <3>1. QED
      BY <1>3, <1>4
  <2>7. VarsOK'
    BY <1>1, <2>2, <2>5, <2>6 DEF VarsOK
  <2>8. QED
    BY <2>2, <2>3, <2>4, <2>5, <2>7
<1>5. CASE /\ charges' = Append(charges, p) /\ supplied' = supplied \cup {p}
           /\ job' = Job("confirm", p) /\ UNCHANGED <<log, records>>
  <2>1. Lows' = Lows
    BY <1>5 DEF Lows
  <2>2. /\ charges' \in Seq(Lows) /\ supplied' \subseteq Lows /\ p \in supplied'
        /\ DOMAIN charges = 1 .. Len(charges) /\ Len(charges) \in Nat
        /\ DOMAIN charges' = 1 .. Len(charges) + 1
        /\ \A i \in DOMAIN charges : charges'[i] = charges[i]
        /\ charges'[Len(charges) + 1] = p
    <3> HIDE DEF Lows
    <3>1. QED
      BY <1>3, <1>5
  <2>3. job' \in Jobs /\ job'.step = "confirm" /\ job'.low = p
    BY <1>5 DEF Jobs, Job, Lows, LogOK
  <2>4. JobOK'
    BY <1>3, <1>5, <2>2, <2>3 DEF JobOK, At, Charged
  <2>5. VarsOK'
    BY <1>1, <2>1, <2>2, <2>3 DEF VarsOK
  <2>6. Chain(p)
    BY <1>3 DEF At, BackedOK
  <2>7. ASSUME NEW i \in DOMAIN charges'
        PROVE  /\ Chain(charges[i])'
               /\ (\E s \in {"payment_started", "ordered", "failed"} : At(charges[i], s))'
    <3>1. PICK q : q = charges'[i]
      OBVIOUS
    <3>2. Chain(q) /\ \E s \in {"payment_started", "ordered", "failed"} : At(q, s)
      BY <1>3, <2>2, <2>6, <3>1 DEF ChargesOK
    <3>3. Chain(q)' /\ \E s \in {"payment_started", "ordered", "failed"} : At(q, s)'
      BY <1>5, <3>2 DEF Chain, Proposed, Logged, At
    <3>4. QED
      BY <3>1, <3>3 DEF Chain, At
  <2>8. PaidOnce'
    <3>1. \A i \in DOMAIN charges : charges[i] # p
      BY <1>3 DEF Charged
    <3>2. QED
      BY <2>2, <3>1 DEF ChargesOK, PaidOnce
  <2>9. OrderedIsSupplied'
    BY <1>5, <2>2 DEF ChargesOK, OrderedIsSupplied
  <2>10. QED
    BY <1>5, <2>4, <2>5, <2>7, <2>8, <2>9, QuietKeeps DEF ChargesOK
<1>6. QED
  BY <1>2, <1>3, <1>4, <1>5 DEF PaidFetch, Charge, CreateOrder, Confirms

LEMMA RecordOrderKeeps ==
  ASSUME IInv, RecordOrder
  PROVE  IInv'
<1> USE DEF IInv
<1>1. /\ UNCHANGED <<undelivered, queue, press, charges, supplied, now, deaths>>
      /\ job.step = "confirm" /\ job' = Free
  BY DEF RecordOrder
<1>2. PICK p \in Lows, a \in Nat : p = job.low /\ a = RecordOf(job.low).amount
  BY <1>1, JobRecord DEF JobOK
<1>3. Legal("restock_ordered", p, a) /\ Emit("restock_ordered", p, a)
  BY <1>1, <1>2 DEF JobOK, Legal, RecordOrder
<1>4. LogOK' /\ RecordsOK' /\ BackedOK' /\ ChargesOK' /\ Lows' = Lows
  BY <1>1, <1>3, MarkKeeps, MarkTypes
<1>5. JobOK' /\ job' \in Jobs
  BY <1>1, FreeJob
<1>6. VarsOK'
  BY <1>1, <1>4, <1>5 DEF VarsOK
<1>7. QED
  BY <1>4, <1>5, <1>6

LEMMA InitIInv ==
  ASSUME Init
  PROVE  IInv
<1> USE DEF Init
<1>1. LogOK /\ RecordsOK /\ JobOK
  BY DEF LogOK, RecordsOK, OneProposalPerLow, JobOK, Free
<1>2. VarsOK
  BY DEF VarsOK, Free, Jobs
<1>3. BackedOK /\ ChargesOK
  BY DEF BackedOK, ChargesOK, PaidOnce, OrderedIsSupplied
<1>4. QED
  BY <1>1, <1>2, <1>3 DEF IInv

LEMMA NextIInv ==
  ASSUME IInv, [Next]_vars
  PROVE  IInv'
<1>1. ASSUME NEW i \in Items, LowCommit(i) PROVE IInv'
  BY <1>1, LowCommitKeeps
<1>2. CASE Deliver
  BY <1>2, LowEnqueueKeeps DEF Deliver
<1>3. CASE HandleStockLow
  BY <1>3, QuoteFailsKeeps, ProposeKeeps, CheckProposalKeeps, SubmitPlanKeeps DEF HandleStockLow
<1>4. CASE ProcessApproved
  BY <1>4, StartPaymentKeeps, PaidFetchKeeps, RecordOrderKeeps DEF ProcessApproved
<1>5. ASSUME NEW t \in Pressers, Press(t) PROVE IInv'
  BY <1>5, ApproveKeeps, RejectKeeps DEF Press
<1>6. ASSUME NEW t \in Pressers, NEW b \in {"supply_buy", "cancel"}, Look(t, b) PROVE IInv'
  BY <1>6, LookKeeps
<1>7. CASE Tick
  BY <1>7, TickKeeps
<1>8. CASE Crash
  BY <1>8, CrashKeeps
<1>9. CASE UNCHANGED vars
  <2>1. UNCHANGED <<log, records, undelivered, queue, job, press, charges, supplied, now, deaths>>
    BY <1>9 DEF vars
  <2>2. VarsOK' /\ JobOK'
    BY <2>1 DEF IInv, VarsOK, JobOK, At, Charged, Lows
  <2>3. QED
    BY <2>1, <2>2, QuietKeeps, QuietCharges DEF IInv
<1>10. QED
  BY <1>1, <1>2, <1>3, <1>4, <1>5, <1>6, <1>7, <1>8, <1>9 DEF Next

LEMMA IInvAlways == Spec => []IInv
BY InitIInv, NextIInv, PTL DEF Spec

-----------------------------------------------------------------------------
(* The theorems. *)

\* Whatever is logged, recorded, queued, worked on, pressed and paid for is of its
\* kind, and what waits for the worker is a StockLow of the log.
THEOREM TypesHold == Spec => []TypeOK
<1>1. ASSUME IInv PROVE TypeOK
  <2> USE <1>1 DEF IInv
  <2>1. ASSUME NEW n \in DOMAIN log
        PROVE  \/ log[n] \in [type : {"stock_low"}, item : Items]
               \/ log[n] \in [type : EventTypes, low : Lows, amount : Nat, at : Nat]
    <3>1. \/ log[n] \in [type : {"stock_low"}, item : Items]
          \/ log[n] \in [type : EventTypes, low : Nat, amount : Nat, at : Nat]
      BY DEF LogOK
    <3>2. CASE log[n] \in [type : EventTypes, low : Nat, amount : Nat, at : Nat]
      <4>1. log[n].type # "stock_low"
        BY <3>2, MarkTypes
      <4>2. log[n].low \in Lows
        BY <4>1 DEF LogOK
      <4> HIDE DEF Lows
      <4>3. QED
        BY <3>2, <4>2
    <3>3. QED
      BY <3>1, <3>2
  <2>2. job # Free => HasStockLowOffset(job.low)
    BY DEF VarsOK, Jobs, JobOK, At, HasStockLowOffset
  <2>3. QED
    BY <2>1, <2>2 DEF TypeOK, RecordsOK, VarsOK
<1>2. QED
  BY <1>1, IInvAlways, PTL

\* The wallet pays only for what was approved and never rejected, and starts to
\* pay what was proposed (_process_approved).
THEOREM PaysOnlyWhatWasApproved == Spec => []PaidWasApproved
<1>1. ASSUME IInv PROVE PaidWasApproved
  <2> USE <1>1 DEF IInv
  <2>1. ASSUME NEW k \in DOMAIN charges, NEW n \in DOMAIN log,
               Logged("restock_rejected", charges[k], n)
        PROVE  FALSE
    <3>1. At(charges[k], "rejected")
      BY <2>1 DEF BackedOK, Logged
    <3>2. PICK s \in {"payment_started", "ordered", "failed"} : At(charges[k], s)
      BY DEF ChargesOK
    <3>3. QED
      BY <3>1, <3>2, AtUnique
  <2>2. ASSUME NEW k \in DOMAIN charges PROVE Chain(charges[k])
    BY DEF ChargesOK
  <2>3. QED
    BY <2>1, <2>2 DEF PaidWasApproved, Chain, Proposed
<1>2. QED
  BY <1>1, IInvAlways, PTL

\* No proposal is paid for twice, however often the process dies between a payment
\* and its record (_process_approved, RestockRuntime.start).
THEOREM PaysOnce == Spec => []PaidOnce
<1>1. ASSUME IInv PROVE PaidOnce
  BY <1>1 DEF IInv, ChargesOK
<1>2. QED
  BY <1>1, IInvAlways, PTL

\* What the log calls ordered was charged for and is ordered at the supplier
\* (parse_supplier_confirmation).
THEOREM OrdersAreSupplied == Spec => []OrderedIsSupplied
<1>1. ASSUME IInv PROVE OrderedIsSupplied
  BY <1>1 DEF IInv, ChargesOK
<1>2. QED
  BY <1>1, IInvAlways, PTL

\* A StockLow that is queued again by every restart is proposed once (handle_stock_low).
THEOREM ProposesOnce == Spec => []OneProposalPerLow
<1>1. ASSUME IInv PROVE OneProposalPerLow
  BY <1>1 DEF IInv, RecordsOK
<1>2. QED
  BY <1>1, IInvAlways, PTL

-----------------------------------------------------------------------------
(* What a step may write, and so what it may never do. *)

Writes ==
  \/ UNCHANGED <<log, records>>
  \/ \E i \in Items : LowCommit(i)
  \/ \E p \in Lows, a \in Nat : ~HasStockLowOffset(p) /\ Emit("restock_proposed", p, a)
  \/ \E p \in Lows : Emit("restock_sponge_plan_submitted", p, 0)
  \/ \E type \in Marks, p \in Lows, a \in Nat :
       /\ Emit(type, p, a) /\ Legal(type, p, a)
       /\ type = "restock_payment_started" => ~CapError(a)

LEMMA FailWrites ==
  ASSUME NEW p \in Lows, NEW a \in Nat, Fail(p, a), Legal("restock_payment_failed", p, a)
  PROVE  Writes
BY MarkTypes DEF Fail, Writes

LEMMA NextWrites ==
  ASSUME IInv, [Next]_vars
  PROVE  Writes
<1> USE DEF IInv
<1>1. ASSUME NEW i \in Items, LowCommit(i) PROVE Writes
  BY <1>1 DEF Writes
<1>2. CASE Deliver
  BY <1>2 DEF Deliver, LowEnqueue, Writes
<1>3. ASSUME NEW p \in Lows, QuoteFails(p) PROVE Writes
  <2>1. Legal("restock_payment_failed", p, 0)
    BY <1>3 DEF QuoteFails, Legal, At, HasStockLowOffset
  <2>2. QED
    BY <1>3, <2>1, FailWrites DEF QuoteFails
<1>4. ASSUME NEW p \in Lows, NEW a \in Amounts, Propose(p, a) PROVE Writes
  BY <1>4, RestockAssumption DEF Propose, Writes
<1>5. CASE CheckProposal
  <2>1. PICK p \in Lows, a \in Nat :
          p = RecordOf(job.low).low /\ a = RecordOf(job.low).amount /\ At(p, "pending_approval")
    BY <1>5, JobRecord DEF CheckProposal, JobOK
  <2>2. UNCHANGED <<log, records>> \/ Fail(p, a)
    BY <1>5, <2>1 DEF CheckProposal
  <2>3. QED
    BY <2>1, <2>2, PendingLegal, FailWrites DEF Writes
<1>6. CASE SubmitPlan
  <2>1. At(job.low, "pending_approval") /\ job.low \in Lows
    BY <1>6, JobRecord DEF SubmitPlan, JobOK
  <2>2. Fail(job.low, 0) \/ Emit("restock_sponge_plan_submitted", job.low, 0)
    BY <1>6 DEF SubmitPlan
  <2>3. QED
    BY <2>1, <2>2, PendingLegal, FailWrites DEF Writes
<1>7. CASE StartPayment
  <2>1. PICK p \in Lows, a \in Nat :
          /\ p = RecordOf(job.low).low /\ a = RecordOf(job.low).amount /\ At(p, "approved")
          /\ \E k \in DOMAIN records :
               records[k].low = p /\ records[k].status = "approved" /\ records[k].amount = a
    BY <1>7, JobRecord DEF StartPayment, JobOK
  <2>2. CASE Fail(p, a)
    BY <2>1, <2>2, HeldLegal, FailWrites
  <2>3. CASE Emit("restock_payment_started", p, a) /\ ~Refused(RecordOf(job.low))
    <3>1. ~CapError(a)
      BY <2>1, <2>3 DEF Refused
    <3>2. Legal("restock_payment_started", p, a)
      BY <2>1 DEF Legal
    <3>3. QED
      BY <2>3, <3>1, <3>2, MarkTypes DEF Writes
  <2>4. QED
    BY <1>7, <2>1, <2>2, <2>3 DEF StartPayment
<1>8. CASE PaidFetch
  <2>1. PICK p \in Lows, a \in Nat :
          p = job.low /\ a = RecordOf(job.low).amount /\ At(p, "payment_started")
    BY <1>8, JobRecord DEF PaidFetch, JobOK
  <2>2. UNCHANGED <<log, records>> \/ Fail(p, a)
    BY <1>8, <2>1 DEF PaidFetch
  <2>3. QED
    BY <2>1, <2>2, HeldLegal, FailWrites DEF Writes
<1>9. CASE RecordOrder
  <2>1. PICK p \in Lows, a \in Nat : p = job.low /\ a = RecordOf(job.low).amount
    BY <1>9, JobRecord DEF RecordOrder, JobOK
  <2>2. Legal("restock_ordered", p, a) /\ Emit("restock_ordered", p, a)
    BY <1>9, <2>1 DEF RecordOrder, JobOK, Legal
  <2>3. QED
    BY <2>2, MarkTypes DEF Writes
<1>10. ASSUME NEW t \in Pressers, Press(t) PROVE Writes
  <2>1. CASE Pending = {}
    BY <1>10, <2>1 DEF Press, Approve, Reject, Writes
  <2>2. CASE Pending # {}
    <3>1. PICK p \in Lows, a \in Nat :
            p = NewestPending.low /\ a = NewestPending.amount /\ At(p, "pending_approval")
      BY <2>2, NewestPendingFacts
    <3>2. \/ Fail(p, a)
          \/ Emit("restock_approved", p, a)
          \/ Emit("restock_rejected", p, a)
      BY <1>10, <2>2, <3>1 DEF Press, Approve, Reject
    <3>3. QED
      BY <3>1, <3>2, PendingLegal, FailWrites, MarkTypes DEF Writes
  <2>3. QED
    BY <2>1, <2>2
<1>11. ASSUME NEW t \in Pressers, NEW b \in {"supply_buy", "cancel"}, Look(t, b) PROVE Writes
  BY <1>11 DEF Look, Writes
<1>12. CASE Tick
  BY <1>12 DEF Tick, Writes
<1>13. CASE Crash
  BY <1>13 DEF Crash, Writes
<1>14. CASE UNCHANGED vars
  BY <1>14 DEF vars, Writes
<1>15. QED
  BY <1>1, <1>2, <1>3, <1>4, <1>5, <1>6, <1>7, <1>8, <1>9, <1>10, <1>11, <1>12, <1>13, <1>14
     DEF Next, HandleStockLow, ProcessApproved

\* What was ordered, rejected or failed stays so: the projection overwrites any
\* status, but nobody who holds the lock writes an event about what is over.
THEOREM FinalStays == Spec => FinalStatusStays
<1> DEFINE Stays == \A k \in DOMAIN records :
                      records[k].status \in Final => records'[k].status = records[k].status
<1>1. ASSUME IInv, [Next]_vars PROVE Stays
  <2> USE <1>1 DEF IInv
  <2>1. Writes /\ now \in Nat
    BY NextWrites DEF VarsOK
  <2>2. CASE UNCHANGED records
    BY <2>2
  <2>3. ASSUME NEW p \in Lows, NEW a \in Nat, ~HasStockLowOffset(p), Emit("restock_proposed", p, a)
        PROVE  Stays
    BY <2>1, <2>3, EmitProposal
  <2>4. ASSUME NEW p \in Lows, Emit("restock_sponge_plan_submitted", p, 0) PROVE Stays
    BY <2>1, <2>4, EmitPlan
  <2>5. ASSUME NEW type \in Marks, NEW p \in Lows, NEW a \in Nat, Emit(type, p, a), Legal(type, p, a),
               NEW k \in DOMAIN records, records[k].status \in Final
        PROVE  records'[k].status = records[k].status
    <3>1. At(records[k].low, records[k].status)
      BY DEF At
    <3>2. records[k].low # p
      BY <2>5, <3>1, AtUnique DEF Legal, Final, At
    <3>3. QED
      BY <2>1, <2>5, <3>2, EmitMark
  <2>6. QED
    BY <2>1, <2>2, <2>3, <2>4, <2>5 DEF Writes, LowCommit
<1>2. IInv /\ [Next]_vars => [Stays]_records
  BY <1>1
<1> HIDE DEF Stays
<1>3. Spec => [][Stays]_records
  BY <1>2, IInvAlways, PTL DEF Spec
<1>4. QED
  BY <1>3 DEF FinalStatusStays, Stays

-----------------------------------------------------------------------------
(* The spending caps. *)

Recent(window) ==
  {m \in DOMAIN log : Started(m) /\ now - log[m].at <= window}

LEMMA StartedFacts ==
  ASSUME LogOK, NEW m \in DOMAIN log, Started(m)
  PROVE  log[m].amount \in Nat /\ log[m].at \in Nat
<1>1. log[m] \in [type : EventTypes, low : Nat, amount : Nat, at : Nat]
  BY DEF LogOK, Started
<1>2. QED
  BY <1>1

LEMMA RecentFinite ==
  ASSUME LogOK, NEW S \in SUBSET DOMAIN log
  PROVE  IsFiniteSet(S)
<1>1. PICK n \in Nat : DOMAIN log = 1 .. n
  BY DEF LogOK
<1>2. 1 \in Int /\ n \in Int
  OBVIOUS
<1>3. QED
  BY <1>1, <1>2, FS_Interval, FS_Subset

LEMMA SpendSinceType ==
  ASSUME LogOK, NEW w \in Nat
  PROVE  SpendSince(w) \in Nat
<1>1. PICK S : S = Recent(w)
  OBVIOUS
<1>2. PICK f : f = [m \in S |-> log[m].amount]
  OBVIOUS
<1>3. SpendSince(w) = SumFunctionOnSet(f, S)
  BY <1>1, <1>2 DEF SpendSince, SumFunction, Recent, Started
<1>4. IsFiniteSet(S) /\ \A m \in S : f[m] \in Nat
  BY <1>1, <1>2, RecentFinite, StartedFacts DEF Recent
<1>5. QED
  BY <1>3, <1>4, SumIsNat

\* What was spent in the window before an old payment is what it was.
LEMMA SpentStays ==
  ASSUME LogOK, NEW n \in DOMAIN log, NEW w \in Nat,
         DOMAIN log \subseteq DOMAIN log', \A m \in DOMAIN log : log'[m] = log[m]
  PROVE  Spent(n, w)' = Spent(n, w)
<1> DEFINE within == {m \in 1 .. n : Started(m) /\ log[n].at - log[m].at <= w}
<1>1. 1 .. n \subseteq DOMAIN log
  <2>1. PICK len \in Nat : DOMAIN log = 1 .. len
    BY DEF LogOK
  <2>2. QED
    BY <2>1
<1>2. within' = within
  BY <1>1 DEF Started
<1>3. [m \in within |-> log[m].amount]' = [m \in within |-> log[m].amount]
  BY <1>1, <1>2
<1>4. QED
  BY <1>3 DEF Spent

\* A payment that starts now adds its amount to what the caps were checked against.
LEMMA SpentNow ==
  ASSUME LogOK, now \in Nat, NEW p \in Lows, NEW a \in Nat, NEW w \in Nat,
         Emit("restock_payment_started", p, a), NEW end, end = Len(log) + 1
  PROVE  Spent(end, w)' = a + SpendSince(w)
<1>1. PICK S : S = Recent(w)
  OBVIOUS
<1>2. PICK f : f = [m \in S |-> log[m].amount]
  OBVIOUS
<1>3. PICK g : g = [m \in S \cup {end} |-> log'[m].amount]
  OBVIOUS
<1>4. /\ DOMAIN log = 1 .. Len(log) /\ Len(log) \in Nat /\ DOMAIN log' = 1 .. end
      /\ \A n \in DOMAIN log : log'[n] = log[n]
      /\ log'[end].type = "restock_payment_started" /\ log'[end].at = now /\ log'[end].amount = a
  <2>1. "restock_payment_started" \in EventTypes
    BY MarkTypes
  <2>2. log'[end] = Event("restock_payment_started", p, a)
    BY <2>1, EmitLog
  <2>3. QED
    BY <2>1, <2>2, EmitLog DEF Event
<1>5. {m \in 1 .. end : Started(m) /\ log[end].at - log[m].at <= w}' = S \cup {end}
  <2>1. {m \in 1 .. end : Started(m)' /\ log'[end].at - log'[m].at <= w} = S \cup {end}
    BY <1>1, <1>4 DEF Started, Recent
  <2>2. QED
    BY <2>1
<1>6. Spent(end, w)' = SumFunctionOnSet(g, S \cup {end})
  BY <1>3, <1>5 DEF Spent, SumFunction
<1>7. SpendSince(w) = SumFunctionOnSet(f, S)
  BY <1>1, <1>2 DEF SpendSince, SumFunction, Recent, Started
<1>8. IsFiniteSet(S) /\ end \notin S
  BY <1>1, <1>4, RecentFinite DEF Recent
<1>9. \A m \in S : f[m] \in Nat /\ g[m] = f[m]
  BY <1>1, <1>2, <1>3, <1>4, StartedFacts DEF Recent
<1>10. g[end] = a
  BY <1>3, <1>4
<1>11. SumFunctionOnSet(g, S \cup {end}) = g[end] + SumFunctionOnSet(g, S)
  BY <1>8, <1>9, <1>10, SumAdd
<1>12. SumFunctionOnSet(g, S) = SumFunctionOnSet(f, S)
  BY <1>8, <1>9, SumAgrees
<1>13. QED
  BY <1>6, <1>7, <1>10, <1>11, <1>12

\* Whenever a payment starts, it and the payments started in the hour and in the day
\* before it stay within the caps, although a proposal may wait for its approval
\* (_process_approved asks _cap_error again before it pays).
THEOREM CapsAreHeld == Spec => []CapsHold
<1>1. ASSUME Init PROVE CapsHold
  BY <1>1 DEF Init, CapsHold
<1>2. ASSUME IInv, CapsHold, [Next]_vars PROVE CapsHold'
  <2> USE <1>2 DEF IInv
  <2>1. Writes /\ now \in Nat /\ MaxOrder \in Nat /\ HourCap \in Nat /\ DayCap \in Nat
        /\ Hour \in Nat /\ Day \in Nat
    BY NextWrites, RestockAssumption DEF VarsOK
  <2>2. PICK end : end = Len(log) + 1
    OBVIOUS
  <2>3. ASSUME DOMAIN log \subseteq DOMAIN log', \A m \in DOMAIN log : log'[m] = log[m],
               NEW n \in DOMAIN log, log'[n].type = "restock_payment_started"
        PROVE  /\ log'[n].amount <= MaxOrder
               /\ Spent(n, Hour)' <= HourCap /\ Spent(n, Day)' <= DayCap
    <3>1. Started(n)
      BY <2>3 DEF Started
    <3>2. log[n].amount <= MaxOrder /\ Spent(n, Hour) <= HourCap /\ Spent(n, Day) <= DayCap
      BY <3>1 DEF CapsHold
    <3>3. Spent(n, Hour)' = Spent(n, Hour) /\ Spent(n, Day)' = Spent(n, Day)
      BY <2>1, <2>3, SpentStays
    <3>4. QED
      BY <2>3, <3>2, <3>3
  <2>4. ASSUME DOMAIN log' = 1 .. end, DOMAIN log = 1 .. Len(log), Len(log) \in Nat,
               \A m \in DOMAIN log : log'[m] = log[m],
               log'[end].type # "restock_payment_started"
        PROVE  CapsHold'
    BY <2>2, <2>3, <2>4 DEF CapsHold, Started
  <2>5. ASSUME NEW type \in EventTypes, type # "restock_payment_started", NEW p \in Lows,
               NEW a \in Nat, Emit(type, p, a)
        PROVE  CapsHold'
    <3>1. log'[end] = Event(type, p, a)
      BY <2>1, <2>2, <2>5, EmitLog
    <3>2. log'[end].type # "restock_payment_started"
      BY <2>5, <3>1 DEF Event
    <3>3. QED
      BY <2>1, <2>2, <2>4, <2>5, <3>2, EmitLog
  <2>6. ASSUME NEW p \in Lows, NEW a \in Nat, Emit("restock_payment_started", p, a), ~CapError(a)
        PROVE  CapsHold'
    <3>1. "restock_payment_started" \in EventTypes
      BY MarkTypes
    <3>2. /\ DOMAIN log = 1 .. Len(log) /\ Len(log) \in Nat /\ DOMAIN log' = 1 .. end
          /\ \A m \in DOMAIN log : log'[m] = log[m]
      BY <2>1, <2>2, <2>6, <3>1, EmitLog
    <3>3. log'[end] = Event("restock_payment_started", p, a)
      BY <2>1, <2>2, <2>6, <3>1, EmitLog
    <3>4. Spent(end, Hour)' = a + SpendSince(Hour) /\ Spent(end, Day)' = a + SpendSince(Day)
      BY <2>1, <2>2, <2>6, SpentNow
    <3>5. SpendSince(Hour) \in Nat /\ SpendSince(Day) \in Nat
      BY <2>1, SpendSinceType
    <3>6. log'[end].amount <= MaxOrder /\ Spent(end, Hour)' <= HourCap /\ Spent(end, Day)' <= DayCap
      BY <2>1, <2>6, <3>3, <3>4, <3>5 DEF CapError, Event
    <3>7. QED
      BY <2>2, <2>3, <3>2, <3>6 DEF CapsHold, Started
  <2>7. CASE UNCHANGED log
    <3>1. PICK len \in Nat : DOMAIN log = 1 .. len
      BY DEF LogOK
    <3>2. QED
      BY <2>3, <2>7 DEF CapsHold, Started
  <2>8. ASSUME NEW i \in Items, log' = Append(log, StockLow(i)) PROVE CapsHold'
    <3>1. StockLow(i) \in [type : {"stock_low"}, item : Items]
      BY DEF StockLow
    <3>2. StockLow(i).type # "restock_payment_started"
      BY DEF StockLow
    <3>3. QED
      BY <2>2, <2>4, <2>8, <3>1, <3>2, LogGrows
  <2>9. QED
    BY <2>1, <2>5, <2>6, <2>7, <2>8, MarkTypes DEF Writes, LowCommit
<1>3. QED
  BY <1>1, <1>2, IInvAlways, PTL DEF Spec
-----------------------------------------------------------------------------
(* No StockLow is lost. *)

\* The StockLow is on its way to the worker.
Waits(p) == p \in undelivered \/ \E k \in DOMAIN queue : queue[k] = p

\* Every StockLow of the log is answered or on its way (runtime.py:98-100).
NoLowIsLost == \A p \in Lows : Waits(p) \/ Answered(p)

\* What is put in the order of the log is all there.
LEMMA InLogOrderIsOnto ==
  ASSUME NEW n \in Nat, NEW S \in SUBSET (1 .. n), NEW q \in InLogOrder(S), NEW p \in S
  PROVE  \E k \in DOMAIN q : q[k] = p
<1>1. IsFiniteSet(S)
  BY IntervalFinite
<1>2. PICK m : m = Cardinality(S) /\ m \in Nat
  BY <1>1, FS_CardinalityType
<1>3. q \in [1 .. m -> S] /\ \A j, k \in 1 .. m : j < k => q[j] < q[k]
  BY <1>2 DEF InLogOrder
<1>4. q \in Injection(1 .. m, S)
  <2>1. ASSUME NEW j \in 1 .. m, NEW k \in 1 .. m, q[j] = q[k] PROVE j = k
    <3>1. q[j] \in 1 .. n /\ q[k] \in 1 .. n
      BY <1>3
    <3>2. QED
      BY <1>3, <2>1, <3>1
  <2>2. QED
    BY <1>3, <2>1 DEF Injection, IsInjective
<1>5. Cardinality(1 .. m) = m
  BY <1>2, FS_Interval
<1>6. q \in Surjection(1 .. m, S)
  BY <1>1, <1>2, <1>4, <1>5, FS_Injection
<1>7. QED
  BY <1>3, <1>6 DEF Surjection

\* What is in the log stays there, and only one action adds a StockLow.
LEMMA LogStays ==
  ASSUME IInv, [Next]_vars
  PROVE  /\ \A n \in DOMAIN log : n \in DOMAIN log' /\ log'[n] = log[n]
         /\ Lows' = Lows \/ \E i \in Items : LowCommit(i)
<1>1. LogOK /\ now \in Nat /\ Writes
  BY NextWrites DEF IInv, VarsOK
<1>2. CASE UNCHANGED log
  BY <1>2 DEF Lows
<1>3. CASE \E i \in Items : LowCommit(i)
  <2>1. PICK i \in Items : LowCommit(i)
    BY <1>3
  <2>2. log' = Append(log, StockLow(i)) /\ StockLow(i) \in [type : {"stock_low"}, item : Items]
    BY <2>1 DEF LowCommit, StockLow
  <2>3. QED
    BY <1>1, <1>3, <2>2, LogGrows
<1>4. CASE \E type \in EventTypes, p \in Lows, a \in Nat : Emit(type, p, a)
  BY <1>1, <1>4, EmitLog
<1>5. QED
  BY <1>1, <1>2, <1>3, <1>4, MarkTypes DEF Writes

LEMMA AnsweredStays ==
  ASSUME IInv, [Next]_vars, NEW p, Answered(p)
  PROVE  Answered(p)'
BY LogStays DEF Answered

\* An event that answers a StockLow is written.
LEMMA EmitAnswers ==
  ASSUME IInv, NEW p \in Lows, NEW a \in Nat,
         NEW type \in {"restock_proposed", "restock_payment_failed"}, Emit(type, p, a)
  PROVE  Answered(p)'
<1>1. type \in EventTypes /\ now \in Nat /\ LogOK
  BY MarkTypes DEF IInv, VarsOK
<1>2. DOMAIN log' = 1 .. Len(log) + 1 /\ Len(log) \in Nat /\ log'[Len(log) + 1] = Event(type, p, a)
  BY <1>1, EmitLog
<1>3. QED
  BY <1>2 DEF Answered, Event

\* A proposal answers its StockLow.
LEMMA ProposalAnswers ==
  ASSUME IInv, NEW p, HasStockLowOffset(p)
  PROVE  Answered(p)
<1>1. PICK k \in DOMAIN records : records[k].low = p
  BY DEF HasStockLowOffset
<1>2. PICK n \in DOMAIN log : Proposed(p, records[k].amount, n)
  BY <1>1 DEF IInv, BackedOK
<1>3. QED
  BY <1>2 DEF Answered, Proposed, Logged

\* Steps that leave the queue alone.
LEMMA WaitingStays ==
  ASSUME IInv, NoLowIsLost, [Next]_vars, Lows' = Lows, UNCHANGED <<undelivered, queue>>
  PROVE  NoLowIsLost'
<1>1. \A p \in Lows : Waits(p) => Waits(p)'
  BY DEF Waits
<1>2. QED
  BY <1>1, AnsweredStays DEF NoLowIsLost

\* The worker takes the head of the queue and answers it.
LEMMA HeadAnswered ==
  ASSUME IInv, NoLowIsLost, [Next]_vars, NEW p \in Lows, Take(p), Lows' = Lows, Answered(p)'
  PROVE  NoLowIsLost'
<1>1. /\ queue \in Seq(Lows) /\ queue # <<>> /\ p = Head(queue) /\ queue' = Tail(queue)
      /\ undelivered' = undelivered
  BY DEF Take, IInv, VarsOK
<1>2. ASSUME NEW k \in DOMAIN queue
      PROVE  queue[k] = p \/ \E j \in DOMAIN queue' : queue'[j] = queue[k]
  <2> HIDE DEF Lows
  <2>1. CASE k = 1
    BY <1>1, <2>1
  <2>2. CASE k # 1
    <3>1. k - 1 \in DOMAIN Tail(queue) /\ Tail(queue)[k - 1] = queue[k]
      BY <1>1, <2>2
    <3>2. QED
      BY <1>1, <3>1
  <2>3. QED
    BY <2>1, <2>2
<1>3. ASSUME NEW low \in Lows
      PROVE  Waits(low)' \/ Answered(low)'
  <2>1. CASE Answered(low)
    BY <2>1, AnsweredStays
  <2>2. CASE low \in undelivered
    BY <1>1, <2>2 DEF Waits
  <2>3. CASE \E k \in DOMAIN queue : queue[k] = low
    <3>1. PICK k \in DOMAIN queue : queue[k] = low
      BY <2>3
    <3>2. CASE low = p
      BY <3>2
    <3>3. CASE low # p
      BY <1>2, <3>1, <3>3 DEF Waits
    <3>4. QED
      BY <3>2, <3>3
  <2>4. QED
    BY <2>1, <2>2, <2>3 DEF NoLowIsLost, Waits
<1>4. QED
  BY <1>3 DEF NoLowIsLost

\* Every StockLow of the log is answered with a proposal or a recorded failure, or is on
\* its way to the worker, wherever the process died: what a death takes from the queue
\* or from a subscriber, the next start puts back (RestockRuntime.start, handle_stock_low).
\* Only a quote of 0 cents is dropped without a word.
THEOREM LowsAreKept ==
  ASSUME 0 \notin Amounts
  PROVE  Spec => []NoLowIsLost
<1>1. ASSUME Init PROVE NoLowIsLost
  BY <1>1 DEF Init, NoLowIsLost, Lows
<1>2. ASSUME IInv, NoLowIsLost, [Next]_vars PROVE NoLowIsLost'
  <2> USE <1>2
  <2>1. CASE \E i \in Items : LowCommit(i)
    <3>1. PICK i \in Items : LowCommit(i)
      BY <2>1
    <3>2. log' = Append(log, StockLow(i)) /\ StockLow(i) \in [type : {"stock_low"}, item : Items]
          /\ StockLow(i).type = "stock_low" /\ LogOK
      BY <3>1 DEF LowCommit, StockLow, IInv
    <3> PICK end : end = Len(log) + 1
      OBVIOUS
    <3>3. Lows' = Lows \cup {end}
      BY <3>2, LogGrows
    <3>4. undelivered' = undelivered \cup {end} /\ queue' = queue
      BY <3>1 DEF LowCommit
    <3>5. \A p \in Lows : Waits(p) => Waits(p)'
      BY <3>4 DEF Waits
    <3>6. Waits(end)'
      BY <3>4 DEF Waits
    <3>7. ASSUME NEW p \in Lows PROVE Waits(p)' \/ Answered(p)'
      BY <3>5, AnsweredStays DEF NoLowIsLost
    <3>8. QED
      BY <3>3, <3>6, <3>7 DEF NoLowIsLost
  <2>2. CASE Lows' = Lows
    <3> USE <2>2
    <3>1. ASSUME NEW p \in Lows, LowEnqueue(p) PROVE NoLowIsLost'
      <4>1. queue \in Seq(Lows) /\ queue' = Append(queue, p) /\ undelivered' = undelivered \ {p}
        BY <3>1 DEF LowEnqueue, IInv, VarsOK
      <4>2. /\ DOMAIN queue \subseteq DOMAIN queue' /\ \A k \in DOMAIN queue : queue'[k] = queue[k]
            /\ \E k \in DOMAIN queue' : queue'[k] = p
        <5> HIDE DEF Lows
        <5>1. Len(queue) + 1 \in DOMAIN queue' /\ queue'[Len(queue) + 1] = p
          BY <4>1
        <5>2. QED
          BY <4>1, <5>1
      <4>3. \A low \in Lows : Waits(low) => Waits(low)'
        BY <4>1, <4>2 DEF Waits
      <4>4. QED
        BY <4>3, AnsweredStays DEF NoLowIsLost
    <3>2. ASSUME NEW p \in Lows, QuoteFails(p) PROVE NoLowIsLost'
      <4>1. Take(p) /\ Answered(p)'
        BY <3>2, EmitAnswers DEF QuoteFails, Fail
      <4>2. QED
        BY <4>1, HeadAnswered
    <3>3. ASSUME NEW p \in Lows, NEW a \in Amounts, Propose(p, a) PROVE NoLowIsLost'
      <4>1. Take(p) /\ a \in Nat /\ a # 0
        BY <3>3, RestockAssumption DEF Propose
      <4>2. CASE HasStockLowOffset(p)
        BY <4>1, <4>2, ProposalAnswers, AnsweredStays, HeadAnswered
      <4>3. CASE ~HasStockLowOffset(p)
        <5>1. Emit("restock_proposed", p, a)
          BY <3>3, <4>1, <4>3 DEF Propose
        <5>2. QED
          BY <4>1, <5>1, EmitAnswers, HeadAnswered
      <4>4. QED
        BY <4>2, <4>3
    <3>4. CASE Crash
      <4>1. PICK n \in Nat : DOMAIN log = 1 .. n
        BY DEF IInv, LogOK
      <4>2. Unproposed \in SUBSET (1 .. n) /\ queue' \in InLogOrder(Unproposed)
        BY <3>4, <4>1 DEF Unproposed, Lows, Crash
      <4>3. ASSUME NEW p \in Lows PROVE Waits(p)' \/ Answered(p)'
        <5>1. CASE p \in Unproposed
          <6> DEFINE S == Unproposed
                     q == queue'
          <6>1. S \in SUBSET (1 .. n) /\ q \in InLogOrder(S) /\ p \in S /\ n \in Nat
            BY <4>2, <5>1
          <6>2. \E k \in DOMAIN q : q[k] = p
            <7> HIDE DEF S, q
            <7>1. QED
              BY ONLY <6>1, InLogOrderIsOnto
          <6>3. QED
            BY <6>2 DEF Waits
        <5>2. CASE p \notin Unproposed
          BY <5>2, ProposalAnswers, AnsweredStays DEF Unproposed
        <5>3. QED
          BY <5>1, <5>2
      <4>4. QED
        BY <4>3 DEF NoLowIsLost
    <3>5. CASE CheckProposal \/ SubmitPlan
      BY <3>5, WaitingStays DEF CheckProposal, SubmitPlan
    <3>6. CASE ProcessApproved
      BY <3>6, WaitingStays DEF ProcessApproved, StartPayment, PaidFetch, RecordOrder
    <3>7. ASSUME NEW t \in Pressers, Press(t) \/ \E b \in {"supply_buy", "cancel"} : Look(t, b)
          PROVE  NoLowIsLost'
      BY <3>7, WaitingStays DEF Press, Approve, Reject, Look
    <3>8. CASE Tick \/ UNCHANGED vars
      BY <3>8, WaitingStays DEF Tick, vars
    <3>9. QED
      BY <2>2, <3>1, <3>2, <3>3, <3>4, <3>5, <3>6, <3>7, <3>8, <2>1
         DEF Next, Deliver, HandleStockLow
  <2>3. QED
    BY <2>1, <2>2, LogStays
<1>3. QED
  BY <1>1, <1>2, IInvAlways, PTL DEF Spec
=============================================================================
