----------------------------- MODULE DeskProofs -----------------------------
(***************************************************************************)
(* Proofs about the keys, for any number of presses, orders and proposals.  *)
(***************************************************************************)
EXTENDS DeskProperties, SetLemmas

-----------------------------------------------------------------------------
(* The inductive invariant. *)

OrderStatuses == {"reserved", "paid", "packed", "cancelled"}

\* Orders have the statuses of their events, and who is about to write to an order that is
\* over had looked at it before it got over.
BookOK ==
  /\ orders \in Seq(OrderStatuses)
  /\ DOMAIN write = Writers
  /\ \A w \in Writers : write[w] = NoWrite \/ write[w].to \in OrderStatuses
  /\ \A w \in Writers : write[w].on \in DOMAIN orders /\ orders[write[w].on] \in Over =>
                          write[w].on \in crossed

BuysOK == buys \in Seq({"pending", "approved", "rejected"})

\* A press is on the wire once at most, and is one of the presses made.
WireOK ==
  /\ keys \in Seq(Keys) /\ Len(keys) <= MaxPresses
  /\ wire \in Seq(1 .. Len(keys))
  /\ \A i, j \in DOMAIN wire : i # j => wire[i] # wire[j]
  /\ DOMAIN request = Presses /\ DOMAIN fresh = Keys

Waits(p) == p > Len(keys) \/ \E i \in DOMAIN wire : wire[i] = p

\* What is not made yet or on the wire has no request: no press is posted twice.
PostedOnce == \A p \in Presses : Waits(p) => request[p] = NoRequest

\* What has acted goes on to its answer, and never back.
ActedOnce ==
  /\ acts \in [Presses -> Nat]
  /\ \A p \in Presses :
       /\ acts[p] <= 1
       /\ acts[p] # 0 => request[p].step \in {"answer", "done"}

Underway(p) == request[p].step \notin {"none", "done"}

\* As long as nobody else posts and nobody is given up, only the press the reader
\* waits for is under way, and nothing comes between its look at the last press
\* and its record.
OneByOne ==
  ~clicked /\ ~gaveup =>
    /\ ~doubled
    /\ \A p \in Presses :
         /\ Underway(p) => p = reader
         /\ request[p].step = "record" => ~fresh[keys[p]]

IInv == WireOK /\ PostedOnce /\ ActedOnce /\ OneByOne

-----------------------------------------------------------------------------
(* Orders and proposals. *)

LEMMA OfIsIn ==
  ASSUME NEW T, NEW q \in Seq(T), NEW v
  PROVE  Of(q, v) \subseteq 1 .. Len(q) /\ Len(q) \in Nat
BY DEF Of

OrdersStay == \A n \in DOMAIN orders : orders[n] \in Over => orders'[n] = orders[n] \/ n \in crossed

BuysStay == \A n \in DOMAIN buys : buys[n] # "pending" => buys'[n] = buys[n]

OverStays == OrdersStay /\ BuysStay

\* Who looks at an order finds it is not over.
LEMMA DecidesKeeps ==
  ASSUME BookOK, NEW w \in Writers, NEW n, NEW to \in OrderStatuses,
         Decides(w, n, {"reserved", "paid"}, to) \/ Decides(w, n, {"paid"}, to)
  PROVE  BookOK' /\ OrdersStay
<1>1. /\ orders[n] \in {"reserved", "paid"}
      /\ write' = [write EXCEPT ![w] = [on |-> n, to |-> to]]
      /\ UNCHANGED <<orders, crossed>>
  BY DEF Decides
<1>2. /\ DOMAIN write' = Writers
      /\ \A v \in Writers : write'[v] = IF v = w THEN [on |-> n, to |-> to] ELSE write[v]
  BY <1>1 DEF BookOK
<1>3. \A v \in Writers : write'[v] = NoWrite \/ write'[v].to \in OrderStatuses
  BY <1>2 DEF BookOK
<1>4. orders[n] \notin Over
  BY <1>1 DEF Over
<1>5. QED
  BY <1>1, <1>2, <1>3, <1>4 DEF BookOK, OrdersStay

\* Who writes to an order that is over had looked at it before, and who has still to
\* write to one that gets over by it had too.
LEMMA WritesKeeps ==
  ASSUME BookOK, NEW w \in Writers, Writes(w)
  PROVE  BookOK' /\ OrdersStay
<1> DEFINE n == write[w].on  to == write[w].to
<1>1. /\ to \in OrderStatuses
      /\ orders' = [orders EXCEPT ![n] = to] /\ write' = [write EXCEPT ![w] = NoWrite]
      /\ crossed' = IF to \in Over /\ \E v \in Writers \ {w} : write[v].on = n
                    THEN crossed \cup {n} ELSE crossed \ {n}
  BY DEF Writes, BookOK
<1>2. /\ orders' \in Seq(OrderStatuses) /\ DOMAIN orders' = DOMAIN orders
      /\ \A m \in DOMAIN orders : orders'[m] = IF m = n THEN to ELSE orders[m]
      /\ 0 \notin DOMAIN orders
  <2> HIDE DEF n, to
  <2>1. orders \in Seq(OrderStatuses) /\ to \in OrderStatuses
    BY <1>1 DEF BookOK
  <2>2. /\ Len(orders) \in Nat /\ DOMAIN orders = 1 .. Len(orders)
        /\ orders \in [1 .. Len(orders) -> OrderStatuses]
    BY <2>1
  <2>3. [orders EXCEPT ![n] = to] \in [1 .. Len(orders) -> OrderStatuses]
    BY <2>1, <2>2
  <2>4. orders' \in [1 .. Len(orders) -> OrderStatuses]
    BY <1>1, <2>3
  <2>5. orders' \in Seq(OrderStatuses)
    BY <2>2, <2>4
  <2>6. QED
    BY <1>1, <2>2, <2>4, <2>5
<1>3. /\ DOMAIN write' = Writers
      /\ \A v \in Writers : write'[v] = IF v = w THEN NoWrite ELSE write[v]
      /\ NoWrite.on = 0
  BY <1>1 DEF BookOK, NoWrite
<1>4. ASSUME NEW v \in Writers, write'[v].on \in DOMAIN orders, orders'[write'[v].on] \in Over
      PROVE  write'[v].on \in crossed'
  <2>1. v # w /\ write'[v] = write[v]
    BY <1>2, <1>3, <1>4
  <2>2. CASE write[v].on = n
    <3>1. to \in Over
      BY <1>2, <1>4, <2>1, <2>2
    <3>2. QED
      BY <1>1, <2>1, <2>2, <3>1
  <2>3. CASE write[v].on # n
    <3>1. write[v].on \in crossed
      BY <1>2, <1>4, <2>1, <2>3 DEF BookOK
    <3>2. QED
      BY <1>1, <2>1, <2>3, <3>1
  <2>4. QED
    BY <2>2, <2>3
<1>5. BookOK'
  <2>1. \A v \in Writers : write'[v] = NoWrite \/ write'[v].to \in OrderStatuses
    BY <1>3 DEF BookOK
  <2>2. QED
    BY <1>2, <1>3, <1>4, <2>1 DEF BookOK
<1>6. OrdersStay
  BY <1>2 DEF BookOK, OrdersStay
<1>7. QED
  BY <1>5, <1>6

LEMMA ReservedKeeps ==
  ASSUME BookOK, orders' = Append(orders, "reserved"), UNCHANGED <<write, crossed>>
  PROVE  BookOK' /\ OrdersStay
<1>1. /\ orders' \in Seq(OrderStatuses)
      /\ \A n \in DOMAIN orders : n \in DOMAIN orders' /\ orders'[n] = orders[n]
      /\ \A n \in DOMAIN orders' : n \in DOMAIN orders \/ orders'[n] = "reserved"
  BY DEF BookOK, OrderStatuses
<1>2. "reserved" \notin Over
  BY DEF Over
<1>3. QED
  BY <1>1, <1>2 DEF BookOK, OrdersStay

LEMMA BookRests ==
  ASSUME BookOK, UNCHANGED book
  PROVE  BookOK' /\ OrdersStay
BY DEF BookOK, OrdersStay, book

LEMMA WorldKeepsOver ==
  ASSUME BookOK, BuysOK, World
  PROVE  BookOK' /\ BuysOK' /\ OverStays
<1>1. /\ {"paid", "packed", "cancelled"} \subseteq OrderStatuses
      /\ \A c \in Callers : c \in Writers
  BY DEF OrderStatuses, Writers
<1>2. ASSUME NEW c \in Callers, OrderMoves(c) \/ OrderWritten(c) \/ SeedPay(c)
      PROVE  BookOK' /\ OrdersStay /\ UNCHANGED buys
  <2>1. CASE OrderMoves(c)
    BY <1>1, <2>1, DecidesKeeps DEF OrderMoves, MarkPaid, MarkPacked, CancelsOrder
  <2>2. CASE OrderWritten(c)
    BY <1>1, <2>2, WritesKeeps DEF OrderWritten
  <2>3. CASE SeedPay(c)
    BY <1>1, <2>3, DecidesKeeps, BookRests DEF SeedPay, MarkPaid
  <2>4. QED
    BY <1>2, <2>1, <2>2, <2>3
<1>3. CASE OrderComes \/ SeedReserve
  BY <1>3, ReservedKeeps DEF OrderComes, SeedReserve, BuysOK, OverStays, BuysStay
<1>4. CASE DemoStartOrStop
  BY <1>4, BookRests DEF DemoStartOrStop, BuysOK, OverStays, BuysStay
<1>5. CASE BuyComes
  <2>1. BookOK' /\ OrdersStay /\ buys' = Append(buys, "pending")
    BY <1>5, BookRests DEF BuyComes
  <2>2. BuysOK' /\ BuysStay
    BY <2>1 DEF BuysOK, BuysStay
  <2>3. QED
    BY <2>1, <2>2 DEF OverStays
<1>6. QED
  BY <1>2, <1>3, <1>4, <1>5 DEF World, BuysOK, OverStays, BuysStay

LEMMA ActKeepsOver ==
  ASSUME BookOK, BuysOK, NEW p \in Presses, Act(p) \/ AppendOrder(p)
  PROVE  BookOK' /\ BuysOK' /\ OverStays
<1> DEFINE n == request[p].on
<1>1. {"packed", "cancelled"} \subseteq OrderStatuses /\ p \in Writers
  BY DEF OrderStatuses, Writers
<1>2. CASE Ready(p)
  BY <1>2, BookRests DEF Ready, BuysOK, OverStays, BuysStay
<1>3. CASE PackOrder(p, n)
  <2>1. BookOK' /\ OrdersStay /\ UNCHANGED buys
    BY <1>1, <1>3, DecidesKeeps, BookRests DEF PackOrder, MarkPacked
  <2>2. QED
    BY <2>1 DEF BuysOK, OverStays, BuysStay
<1>4. CASE CancelOrder(p, n)
  <2>1. BookOK' /\ OrdersStay /\ UNCHANGED buys
    BY <1>1, <1>4, DecidesKeeps, BookRests DEF CancelOrder, CancelsOrder
  <2>2. QED
    BY <2>1 DEF BuysOK, OverStays, BuysStay
<1>5. CASE Decide(p, n)
  <2>1. BookOK' /\ OrdersStay
    BY <1>5, BookRests DEF Decide
  <2>2. CASE Of(buys, "pending") = {}
    BY <1>5, <2>1, <2>2 DEF Decide, BuysOK, OverStays, BuysStay
  <2>3. CASE Of(buys, "pending") # {}
    <3> DEFINE m == Max(Of(buys, "pending"))
    <3>1. m \in Of(buys, "pending")
      BY <2>3, OfIsIn, MaxIsMember DEF BuysOK
    <3>2. m \in DOMAIN buys /\ buys[m] = "pending"
      BY <3>1 DEF Of
    <3>3. PICK v \in {"approved", "rejected"} : buys' = [buys EXCEPT ![m] = v]
      BY <1>5, <2>3 DEF Decide
    <3> HIDE DEF m
    <3>4. BuysOK' /\ BuysStay
      BY <3>2, <3>3 DEF BuysOK, BuysStay
    <3>5. QED
      BY <2>1, <3>4 DEF OverStays
  <2>4. QED
    BY <2>2, <2>3
<1>6. CASE AppendOrder(p)
  <2>1. BookOK' /\ OrdersStay /\ UNCHANGED buys
    BY <1>1, <1>6, WritesKeeps DEF AppendOrder
  <2>2. QED
    BY <2>1 DEF BuysOK, OverStays, BuysStay
<1>7. QED
  BY <1>2, <1>3, <1>4, <1>5, <1>6 DEF Act

LEMMA StepKeepsOver ==
  ASSUME BookOK, BuysOK, [Next]_vars
  PROVE  BookOK' /\ BuysOK' /\ OverStays
<1>1. CASE World
  BY <1>1, WorldKeepsOver
<1>2. ASSUME NEW p \in Presses, Act(p) \/ AppendOrder(p)
      PROVE  BookOK' /\ BuysOK' /\ OverStays
  BY <1>2, ActKeepsOver
<1>3. CASE UNCHANGED shop
  BY <1>3, BookRests DEF shop, BuysOK, OverStays, BuysStay
<1>4. ASSUME NEW k \in Keys, Press(k) \/ Click(k) \/ WindowEnds(k)
      PROVE  UNCHANGED shop
  BY <1>4 DEF Press, Click, WindowEnds
<1>5. ASSUME ReadLoop
      PROVE  UNCHANGED shop
  BY <1>5 DEF ReadLoop, Take, GiveUp
<1>6. ASSUME NEW p \in Presses, ReadLast(p) \/ RecordPress(p) \/ Pick(p) \/ Answer(p)
      PROVE  UNCHANGED shop
  BY <1>6 DEF ReadLast, RecordPress, Pick, Answer
<1>7. ASSUME UNCHANGED vars
      PROVE  UNCHANGED shop
  BY <1>7 DEF vars
<1>8. QED
  BY <1>1, <1>2, <1>3, <1>4, <1>5, <1>6, <1>7 DEF Next, Serve

\* What is over stays over (DeskProperties!OverIsOver): a proposal that is decided never
\* changes, and an order that is packed or cancelled only by a call that had looked at
\* it before it got over and writes after, whatever keys, kiosk, Stripe and
\* seeded orders do, for any number of each.
THEOREM OverForGood == Spec => OverIsOver
<1>1. Init => BookOK /\ BuysOK
  BY DEF Init, BookOK, BuysOK, NoWrite
<1>2. BookOK /\ BuysOK /\ [Next]_vars => BookOK' /\ BuysOK'
  BY StepKeepsOver
<1>3. BookOK /\ BuysOK /\ [Next]_vars => [OverStays]_vars
  BY StepKeepsOver
<1>4. QED
  BY <1>1, <1>2, <1>3, PTL DEF Spec, OverIsOver, OverStays, OrdersStay, BuysStay

-----------------------------------------------------------------------------
(* Presses. *)

LEMMA InitIInv ==
  ASSUME Init
  PROVE  IInv
<1> USE DEF Init, IInv
<1>1. WireOK
  BY DeskAssumption DEF WireOK
<1>2. PostedOnce
  BY DEF PostedOnce
<1>3. ActedOnce
  BY DEF ActedOnce
<1>4. OneByOne
  BY DEF OneByOne, Underway, NoRequest
<1>5. QED
  BY <1>1, <1>2, <1>3, <1>4

\* A press or click gets the next number.
LEMMA PressedNext ==
  ASSUME WireOK, NEW k \in Keys, Pressed(k)
  PROVE  /\ keys' \in Seq(Keys) /\ Len(keys') = Len(keys) + 1 /\ Len(keys') <= MaxPresses
         /\ \A p \in 1 .. Len(keys) : keys'[p] = keys[p]
         /\ Len(keys) + 1 \in Presses
BY DeskAssumption DEF WireOK, Pressed, Presses

LEMMA PressKeeps ==
  ASSUME IInv, NEW k \in Keys, Press(k)
  PROVE  IInv'
<1> USE DEF IInv
<1>1. /\ keys' \in Seq(Keys) /\ Len(keys') = Len(keys) + 1 /\ Len(keys') <= MaxPresses
      /\ \A p \in 1 .. Len(keys) : keys'[p] = keys[p]
      /\ wire' = Append(wire, Len(keys) + 1)
      /\ UNCHANGED <<reader, request, fresh, clicked, gaveup, acts, doubled>>
  BY PressedNext DEF Press
<1>2. /\ wire \in Seq(1 .. Len(keys)) /\ Len(keys) \in Nat
      /\ \A i \in DOMAIN wire : wire[i] <= Len(keys)
  BY DEF WireOK
<1>3. WireOK'
  <2>1. wire' \in Seq(1 .. Len(keys'))
    <3>1. wire \in Seq(1 .. Len(keys) + 1)
      BY <1>2
    <3>2. QED
      BY <1>1, <1>2, <3>1
  <2>2. \A i, j \in DOMAIN wire' : i # j => wire'[i] # wire'[j]
    BY <1>1, <1>2 DEF WireOK
  <2>3. QED
    BY <1>1, <2>1, <2>2 DEF WireOK
<1>4. \A p \in Presses : Waits(p)' => Waits(p)
  BY <1>1, <1>2 DEF Waits, Presses
<1>5. PostedOnce'
  BY <1>1, <1>4 DEF PostedOnce
<1>6. ActedOnce'
  BY <1>1 DEF ActedOnce
<1>7. ASSUME NEW p \in Presses, request[p].step = "record"
      PROVE  keys'[p] = keys[p]
  <2>1. ~Waits(p)
    BY <1>7 DEF PostedOnce, NoRequest
  <2>2. QED
    BY <1>1, <1>2, <2>1 DEF Waits, Presses
<1>8. OneByOne'
  BY <1>1, <1>7 DEF OneByOne, Underway
<1>9. QED
  BY <1>3, <1>5, <1>6, <1>8

\* A request that comes to a press that has none.
LEMMA PostKeeps ==
  ASSUME PostedOnce, ActedOnce, DOMAIN request = Presses,
         NEW p \in Presses, request' = Post(p), UNCHANGED acts, Waits(p)
  PROVE  ActedOnce'
<1>1. acts[p] = 0
  BY DEF PostedOnce, ActedOnce, NoRequest
<1>2. QED
  BY <1>1 DEF ActedOnce, Post

LEMMA ClickKeeps ==
  ASSUME IInv, NEW k \in Keys, Click(k)
  PROVE  IInv'
<1> USE DEF IInv
<1> DEFINE p == Len(keys) + 1
<1>1. /\ keys' \in Seq(Keys) /\ Len(keys') = p /\ Len(keys') <= MaxPresses /\ p \in Presses
      /\ request' = Post(p) /\ clicked' = TRUE
      /\ UNCHANGED <<wire, reader, fresh, gaveup, acts, doubled>>
  BY PressedNext DEF Click
<1>2. Len(keys) \in Nat /\ wire \in Seq(1 .. Len(keys))
  BY DEF WireOK
<1>3. WireOK'
  <2>1. wire \in Seq(1 .. p)
    BY <1>2
  <2>2. QED
    BY <1>1, <2>1 DEF WireOK, Post
<1>4. \A q \in Presses : Waits(q)' => Waits(q) /\ q # p
  BY <1>1, <1>2 DEF Waits, Presses
<1>5. PostedOnce'
  BY <1>1, <1>4 DEF PostedOnce, Post, WireOK
<1>6. ActedOnce'
  <2>1. Waits(p)
    BY <1>2 DEF Waits
  <2>2. QED
    BY <1>1, <2>1, PostKeeps DEF WireOK
<1>7. OneByOne'
  BY <1>1 DEF OneByOne
<1>8. QED
  BY <1>3, <1>5, <1>6, <1>7

LEMMA TakeKeeps ==
  ASSUME IInv, Take
  PROVE  IInv'
<1> USE DEF IInv
<1> DEFINE p == Head(wire)
<1>1. /\ reader = 0 /\ wire # <<>> /\ reader' = p /\ wire' = Tail(wire) /\ request' = Post(p)
      /\ UNCHANGED <<keys, fresh, clicked, gaveup, acts, doubled>>
  BY DEF Take
<1>2. /\ wire \in Seq(1 .. Len(keys)) /\ Len(keys) \in Nat /\ Len(keys) <= MaxPresses
      /\ MaxPresses \in Nat
  BY DeskAssumption DEF WireOK
<1>3. p \in 1 .. Len(keys) /\ p \in Presses /\ p = wire[1] /\ 1 \in DOMAIN wire
  BY <1>1, <1>2 DEF Presses
<1>4. /\ wire' \in Seq(1 .. Len(keys)) /\ Len(wire') = Len(wire) - 1
      /\ \A i \in DOMAIN wire' : wire'[i] = wire[i + 1] /\ i + 1 \in DOMAIN wire
  BY <1>1, <1>2
<1>5. WireOK'
  <2>1. \A i, j \in DOMAIN wire' : i # j => wire'[i] # wire'[j]
    BY <1>4, <1>2 DEF WireOK
  <2>2. QED
    BY <1>1, <1>4, <2>1 DEF WireOK, Post
<1>6. \A q \in Presses : Waits(q)' => Waits(q) /\ q # p
  <2>1. ASSUME NEW i \in DOMAIN wire' PROVE wire'[i] # p
    <3>1. i \in Nat /\ i + 1 # 1 /\ i + 1 \in DOMAIN wire /\ wire'[i] = wire[i + 1]
      BY <1>2, <1>4
    <3>2. wire[i + 1] # wire[1]
      BY <1>3, <3>1 DEF WireOK
    <3>3. QED
      BY <1>3, <3>1, <3>2
  <2>2. QED
    BY <1>1, <1>2, <1>3, <1>4, <2>1 DEF Waits
<1>7. PostedOnce'
  BY <1>1, <1>3, <1>6 DEF PostedOnce, Post, WireOK
<1>8. ActedOnce'
  <2>1. Waits(p)
    BY <1>3 DEF Waits
  <2>2. QED
    BY <1>1, <1>3, <2>1, PostKeeps DEF WireOK
<1>9. OneByOne'
  <2>1. p # 0 /\ \A q \in Presses : q # 0
    BY <1>3 DEF Presses
  <2>2. QED
    BY <1>1, <1>3, <2>1 DEF OneByOne, Underway, Post, WireOK
<1>10. QED
  BY <1>5, <1>7, <1>8, <1>9

\* A step of a request that is under way leaves the wire alone, and its press
\* was taken from there before.
LEMMA ServedKeeps ==
  ASSUME WireOK, PostedOnce, NEW p \in Presses, Underway(p), NEW to,
         request' = [request EXCEPT ![p] = to], UNCHANGED <<keys, wire>>, DOMAIN fresh' = Keys
  PROVE  WireOK' /\ PostedOnce'
<1>1. WireOK'
  BY DEF WireOK
<1>2. ~Waits(p)
  BY DEF PostedOnce, NoRequest, Underway
<1>3. \A q \in Presses : Waits(q)' <=> Waits(q)
  BY DEF Waits
<1>4. QED
  BY <1>1, <1>2, <1>3 DEF PostedOnce

LEMMA ReadLastKeeps ==
  ASSUME IInv, NEW p \in Presses, ReadLast(p)
  PROVE  IInv'
<1> USE DEF IInv
<1>1. PICK to \in {[step |-> "pick"], [step |-> "record"], [step |-> "answer"]} :
        /\ request' = [request EXCEPT ![p] = to]
        /\ to.step = "record" => ~fresh[keys[p]]
  BY DEF ReadLast, Goto, Answered
<1>2. /\ request[p].step = "debounce"
      /\ UNCHANGED <<keys, wire, reader, fresh, clicked, gaveup, acts, doubled>>
  BY DEF ReadLast, Goto, Answered
<1>3. Underway(p) /\ DOMAIN request = Presses /\ DOMAIN fresh' = Keys
  BY <1>2 DEF Underway, WireOK
<1>4. WireOK' /\ PostedOnce'
  BY <1>1, <1>2, <1>3, ServedKeeps
<1>5. ActedOnce'
  BY <1>1, <1>2, <1>3 DEF ActedOnce
<1>6. OneByOne'
  BY <1>1, <1>2, <1>3 DEF OneByOne, Underway
<1>7. QED
  BY <1>4, <1>5, <1>6

LEMMA RecordPressKeeps ==
  ASSUME IInv, NEW p \in Presses, RecordPress(p)
  PROVE  IInv'
<1> USE DEF IInv
<1>1. /\ request[p].step = "record" /\ request' = [request EXCEPT ![p] = [step |-> "pick"]]
      /\ fresh' = [fresh EXCEPT ![keys[p]] = TRUE]
      /\ doubled' = (doubled \/ fresh[keys[p]])
      /\ UNCHANGED <<keys, wire, reader, clicked, gaveup, acts>>
  BY DEF RecordPress, Goto
<1>2. Underway(p) /\ DOMAIN request = Presses /\ DOMAIN fresh' = Keys
  BY <1>1 DEF Underway, WireOK
<1>3. WireOK' /\ PostedOnce'
  BY <1>1, <1>2, ServedKeeps
<1>4. ActedOnce'
  BY <1>1, <1>2 DEF ActedOnce
<1>5. OneByOne'
  <2> SUFFICES ASSUME ~clicked, ~gaveup
               PROVE  /\ ~doubled'
                      /\ \A q \in Presses :
                           /\ Underway(q)' => q = reader
                           /\ (request[q].step = "record")' => ~fresh'[keys[q]]
    BY <1>1 DEF OneByOne
  <2>1. ~doubled'
    BY <1>1 DEF OneByOne
  <2>2. \A q \in Presses : Underway(q)' => q = reader
    BY <1>1, <1>2 DEF OneByOne, Underway
  <2>3. \A q \in Presses : ~(request[q].step = "record")'
    BY <1>1, <1>2 DEF OneByOne, Underway
  <2>4. QED
    BY <2>1, <2>2, <2>3
<1>6. QED
  BY <1>3, <1>4, <1>5

LEMMA PickKeeps ==
  ASSUME IInv, NEW p \in Presses, Pick(p)
  PROVE  IInv'
<1> USE DEF IInv
<1>1. PICK to : /\ request' = [request EXCEPT ![p] = to]
                /\ to.step \in {"act", "answer"}
  <2>1. ASSUME NEW t, Goto(p, [step |-> "act", on |-> t])
        PROVE  /\ request' = [request EXCEPT ![p] = [step |-> "act", on |-> t]]
               /\ [step |-> "act", on |-> t].step = "act"
    BY <2>1 DEF Goto
  <2>2. ASSUME Answered(p)
        PROVE  /\ request' = [request EXCEPT ![p] = [step |-> "answer"]]
               /\ [step |-> "answer"].step = "answer"
    BY <2>2 DEF Goto, Answered
  <2>3. (\E t : Goto(p, [step |-> "act", on |-> t])) \/ Answered(p)
    BY Zenon DEF Pick
  <2>4. QED
    BY <2>1, <2>2, <2>3, Zenon
<1>2. /\ request[p].step = "pick"
      /\ UNCHANGED <<keys, wire, reader, fresh, clicked, gaveup, acts, doubled>>
  BY DEF Pick, Goto, Answered
<1>3. Underway(p) /\ DOMAIN request = Presses /\ DOMAIN fresh' = Keys
  BY <1>2 DEF Underway, WireOK
<1>4. WireOK' /\ PostedOnce'
  BY <1>1, <1>2, <1>3, ServedKeeps
<1>5. ActedOnce'
  BY <1>1, <1>2, <1>3 DEF ActedOnce
<1>6. OneByOne'
  BY <1>1, <1>2, <1>3 DEF OneByOne, Underway
<1>7. QED
  BY <1>4, <1>5, <1>6

LEMMA ActKeeps ==
  ASSUME IInv, NEW p \in Presses, Act(p) \/ AppendOrder(p)
  PROVE  IInv'
<1> USE DEF IInv
<1>1. acts' = acts \/ acts' = [acts EXCEPT ![p] = @ + 1]
  BY DEF Act, Ready, PackOrder, CancelOrder, Decide, Acts, AppendOrder
<1>2. PICK to \in {[step |-> "append"], [step |-> "answer"]} :
        /\ request' = [request EXCEPT ![p] = to]
        /\ to.step = "append" => acts' = acts
  BY DEF Act, Ready, PackOrder, CancelOrder, Decide, AppendOrder, Goto, Answered
<1>3. /\ request[p].step \in {"act", "append"}
      /\ UNCHANGED <<keys, wire, reader, fresh, clicked, gaveup, doubled>>
  BY DEF Act, Ready, PackOrder, CancelOrder, Decide, AppendOrder, Goto, Answered
<1>4. Underway(p) /\ DOMAIN request = Presses /\ DOMAIN fresh' = Keys
  BY <1>3 DEF Underway, WireOK
<1>5. WireOK' /\ PostedOnce'
  BY <1>2, <1>3, <1>4, ServedKeeps
<1>6. ActedOnce'
  <2>1. acts[p] = 0
    BY <1>3 DEF ActedOnce
  <2>2. QED
    BY <1>1, <1>2, <1>3, <1>4, <2>1 DEF ActedOnce
<1>7. OneByOne'
  BY <1>2, <1>3, <1>4 DEF OneByOne, Underway
<1>8. QED
  BY <1>5, <1>6, <1>7

LEMMA AnswerKeeps ==
  ASSUME IInv, NEW p \in Presses, Answer(p)
  PROVE  IInv'
<1> USE DEF IInv
<1>1. /\ request[p].step = "answer" /\ request' = [request EXCEPT ![p] = Done]
      /\ reader' = IF reader = p THEN 0 ELSE reader
      /\ UNCHANGED <<keys, wire, fresh, clicked, gaveup, acts, doubled>>
  BY DEF Answer
<1>2. Underway(p) /\ DOMAIN request = Presses /\ DOMAIN fresh' = Keys
  BY <1>1 DEF Underway, WireOK
<1>3. WireOK' /\ PostedOnce'
  BY <1>1, <1>2, ServedKeeps
<1>4. ActedOnce'
  BY <1>1, <1>2 DEF ActedOnce, Done
<1>5. OneByOne'
  BY <1>1, <1>2 DEF OneByOne, Underway, Done
<1>6. QED
  BY <1>3, <1>4, <1>5

\* Steps of the world, the window's end, a post given up and a stutter.
LEMMA OtherKeeps ==
  ASSUME IInv, UNCHANGED <<keys, wire, request, clicked, acts, doubled>>,
         \/ UNCHANGED <<reader, fresh, gaveup>>
         \/ UNCHANGED <<fresh>> /\ gaveup'
         \/ /\ UNCHANGED <<reader, gaveup>>
            /\ \E k \in Keys : fresh' = [fresh EXCEPT ![k] = FALSE]
  PROVE  IInv'
<1> USE DEF IInv
<1>1. DOMAIN fresh' = Keys /\ \A k \in Keys : fresh'[k] => fresh[k]
  BY DEF WireOK
<1>2. WireOK'
  BY <1>1 DEF WireOK
<1>3. PostedOnce' /\ ActedOnce'
  BY DEF PostedOnce, Waits, ActedOnce
<1>4. ASSUME NEW p \in Presses, request[p].step = "record"
      PROVE  keys[p] \in Keys
  <2>1. ~Waits(p)
    BY <1>4 DEF PostedOnce, NoRequest
  <2>2. QED
    BY <2>1 DEF Waits, WireOK, Presses
<1>5. OneByOne'
  BY <1>1, <1>4 DEF OneByOne, Underway
<1>6. QED
  BY <1>2, <1>3, <1>5

LEMMA NextIInv ==
  ASSUME IInv, [Next]_vars
  PROVE  IInv'
<1>1. ASSUME NEW p \in Presses, Serve(p) PROVE IInv'
  BY <1>1, ReadLastKeeps, RecordPressKeeps, PickKeeps, ActKeeps, AnswerKeeps DEF Serve
<1>2. ASSUME NEW k \in Keys, Press(k) \/ Click(k) PROVE IInv'
  BY <1>2, PressKeeps, ClickKeeps
<1>3. ASSUME NEW k \in Keys, WindowEnds(k) PROVE IInv'
  BY <1>3, OtherKeeps DEF WindowEnds
<1>4. CASE Take
  BY <1>4, TakeKeeps
<1>5. CASE GiveUp
  BY <1>5, OtherKeeps DEF GiveUp
<1>6. CASE World
  BY <1>6, OtherKeeps DEF World
<1>7. CASE UNCHANGED vars
  BY <1>7, OtherKeeps DEF vars
<1>8. QED
  BY <1>1, <1>2, <1>3, <1>4, <1>5, <1>6, <1>7 DEF Next, ReadLoop

\* A press acts once at most (DeskProperties!OncePerPress), for any number of presses
\* and clicks and however many of their posts are given up.
THEOREM PressActsOnce == Spec => []OncePerPress
<1>1. Init => IInv
  BY InitIInv
<1>2. IInv /\ [Next]_vars => IInv'
  BY NextIInv
<1>3. IInv => OncePerPress
  BY DEF IInv, ActedOnce, OncePerPress
<1>4. QED
  BY <1>1, <1>2, <1>3, PTL DEF Spec

\* While only the keypad posts and no post is given up, no two presses of a key are
\* accepted within its window (DeskProperties!DebounceHolds): what makes up for the
\* missing lock is that the bridge posts one press at a time.
THEOREM DebounceByOnePoster == Spec => []DebounceHolds
<1>1. Init => IInv
  BY InitIInv
<1>2. IInv /\ [Next]_vars => IInv'
  BY NextIInv
<1>3. IInv => DebounceHolds
  BY DEF IInv, OneByOne, DebounceHolds
<1>4. QED
  BY <1>1, <1>2, <1>3, PTL DEF Spec
=============================================================================
