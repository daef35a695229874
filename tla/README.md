# Fruit Market in TLA+

A verification development of the fruit stall in `src/fruit_market`: a Python
process that keeps an append-only event log in SQLite, projects it into a catalog
and a list of orders, counts fruit with a camera, sells by phone and kiosk, takes
payments from Stripe, restocks through a paying agent under a human's approval, and
is operated from a keypad on a serial cable.

Contents: [the system](#1-the-system), [modules](#2-modules-and-their-code),
[runs](#3-runs), [proofs](#4-proofs), [what the code does not keep](#5-what-the-code-does-not-keep),
[what is not modelled](#6-not-modelled), [plan](#7-plan).

## 1. The system

| Part | State | Operations | Who calls |
|---|---|---|---|
| Event store `state/store.py` | table `events`, one non-reentrant lock, subscriber list | `append`, `transaction`, `replay`, `subscribe` | every service, any thread |
| Projections `state/projections.py` | catalog with counts and active item; orders | `apply` per event | the store, on the appending thread, outside its lock |
| Orders, inventory, catalog, teach `services/` | none of their own (teach: proposals in memory) | `reserve`, `mark_paid`, `mark_packed`, `cancel`, `reconcile_physical_count`, `set_active_item`, `propose`, `confirm` | routes, webhooks, watcher, phone tools |
| In-memory fakes `services/_stubs.py` | dictionaries | the same methods | tests, `FRUITMARKET_USE_STUBS=1` |
| API and lifespan `api/app.py`, `api/routes.py` | debounce table, demo flag | boot and seeding; HTTP routes on a pool of threads | kiosk, Pico bridge, phone |
| Webhooks `api/stripe_webhook.py`, `api/phone_webhook.py` | none | pay, expire; purchase in a background task | Stripe, AgentPhone |
| Phone brain `brain/` | none | intents; a language model with tools | phone webhook |
| Restock `restock/` | projection of proposals, a queue, a worker thread, a lock | `handle_stock_low`, `approve_pending`, `reject_pending` | `StockLow` events, the Pico's keys |
| Supplier, PaySponge | orders by idempotency key; a wallet | quote, plan, paid request | the coordinator |
| Watcher `vision/watcher.py` | last picture, last counts, a window of reads | a tick: fetch, motion gate, model, stability, reconcile | its own asyncio task |
| Camera and streamer `vision/camera.py`, `streamer.py` | device handle; newest picture | probe, capture, snapshot, stop, close | boot, its own thread, the watcher |
| Model `vision/model.py` | weights, a lock | warm-up, `detect_boxes` | a warm-up thread, the watcher's executor |
| Pico bridge `hardware/` | serial port, last state pushed | a reader thread and a pusher thread | the Pico, the API |
| Firmware `apps/pico/main.py` | last state, flashes running | boot, hello, apply a line, paint, poll keys | the cable, fingers |
| Kiosk `ui/app.js` | none of the shop's | displays; posts what keys post | the operator |

How they interact. All durable state is the log. A service *reads a projection,
decides, appends, and notifies*; only `reserve`, `cancel` and `confirm` hold the
store's lock between decision and commit, and no one holds it while the subscribers
run, so between a commit and its notifications other threads read an old projection,
and the notifications of two threads can cross. Sync routes run on a thread pool, both
webhooks and the watcher on the event loop, the restock worker, the streamer, the
warm-up and the bridge's two halves on threads of their own. After a crash
`make_real_services` replays the log into empty projections. The bridge and the
firmware know the shop only by snapshots, which are polled and may be lost.

What makes it correct, part by part:

- store: the lock comes back after a rollback, notifications reach each projection, a replay heals;
- orders and stock: stock is never sold twice nor returned twice, orders move along
  their life cycle, the log is causal;
- inventory: a drop to the threshold raises `StockLow`;
- fakes: what the tests run on does what the services do;
- restock: money moves at most once per proposal, only after approval, within the
  caps; no `StockLow` is lost or proposed twice; what is called ordered was supplied;
- watcher: a count it commits was seen, the log is not flooded, it catches up;
- camera and model: the device is given back, the weights are loaded once, box
  suppression neither erases a place nor keeps twins, shutdown ends;
- keypad: the display is repaired whatever was lost, a flash is of the newest change;
- keys: a press acts once, what is over stays over unless a call had looked at it before;
- webhooks: an order whose payment was acknowledged is paid in the log once, customers hear
  one story, reservations end.

The hard behaviours, each at its line, are the `hazards` of `PROJECT.json`.

## 2. Modules and their code

```
Projections <- EventStore <- Stall <- StallProperties <- MCStall
                                       |  \__ Ledger (INSTANCE: refinement)
                                       \_____ Stubs <- MCStubs   StallProofs
Restock  <- RestockProperties  <- MCRestock                  RestockProofs
Vision   <- VisionProperties   <- MCVision                   VisionProofs
Camera, Detection <- Sight     <- MCSight                    SightProofs
Checkout <- CheckoutProperties <- MCCheckout                 CheckoutProofs
Payload  <- Keypad <- KeypadProperties <- MCKeypad           KeypadProofs
Desk     <- DeskProperties     <- MCDesk                     DeskProofs
SetLemmas (finite sets, sums over them, loops) <- Stall-, Restock-, Sight-, Keypad- and DeskProofs
```

The modules meet at two interfaces. A *call of the order service* is several steps
in `Stall`, two in `Desk` (look, write) and one in `Checkout` and `Vision`, which are about what goes on
between such calls; likewise a decision of the coordinator is several steps in
`Restock` and one in `Desk`. One large model of everything would have no checkable instance.

Definitions keep the names of the code where they can. A definition marked `(mutant)`
is a slip the code does *not* make; nothing refers to it. For each property of a
passing run, `PROJECT.json` names one that replaces the definition it imitates, and
with it the property must fail.

**Projections** - the events of `events.py` as records and `Apply`, the two
projections' `apply` in one operator: no event changes both, so calling the two
subscribers one after the other equals one call. Names, prices, e-mail addresses and
times are dropped; a price is kept only as "is it 0" (`Free`), because
`OrderReserved` rejects a total of 0 cents.

**EventStore** - `log` (the table), `holder` (the lock), `outbox` (per thread, the
offsets committed and not yet notified), `view` (the live projections), `replays`
(history variable: the projection of every prefix of the log, so that properties can
speak of "what a replay gives" without recursion). `StoreAppend`, `StoreBegin`,
`StoreCommit`, `StoreRollback`, `StoreNotify`, `StoreCrash` are parts of actions.

**Stall** - composes the store with the services. `call[t]` is what thread `t` is in the
middle of, with the item it is about. One action per atomic stretch of code:

| Code | Actions |
|---|---|
| `orders.reserve` | `ReserveBegin`, then `ReserveCommit` or `ReserveRefuse` (raise, rollback) |
| `orders.mark_paid`, `mark_packed` | `MarkPaidRead`, `MarkPackedRead`, then `Append1` |
| `orders.cancel` | `CancelRead` (no lock), `CancelBegin`, `CancelCommit` |
| `inventory.reconcile_physical_count` | `ReconcileRead`, then `Append1` once or twice |
| `catalog.set_active_item` | `SetActiveRead`, `Append1` |
| `teach.confirm` | `TeachBegin`, `TeachCommit` |
| `store._notify` | `Notify`, once per event |
| `make_real_services`, `lifespan` | `Hydrate`, `Seed`, `Serve`; `Crash` at any point |

Atomicity. A read and the commit made under the lock are one step: the count read
inside a transaction can only be changed by a notification, which can equally be
ordered before the step. A call that raises before it appends changes nothing and is
a guard. A death before or after a notification differs in nothing durable, so
`Crash` between steps covers deaths inside them. Fresh identifiers (`uuid4`) are
identifiers that no event and no call carries.

**Ledger** - the abstract specification of the services: one atomic step per call on
`taught`, `stock` and `order`. `StallProperties!ImplementsLedger` maps them to the
last entry of `replays`, that is, to what the log says; notifications, boots and
crashes map to stutters.

**Stubs** - the in-memory fakes, each method a function from a shop to a shop.
`StubsAgree` is an action property: beside every step by which a service changes (or for
want of stock refuses to change) the shop, the fake applied to the same shop gives the same.

**Restock** - the coordinator under its lock: `job` is what the holder still has to
do, so a step of a call is one event written, and a death may fall between any two
and between the payment and its record.

| Code | Actions |
|---|---|
| `StockLow` commit; `_worker_subscriber` | `LowCommit`; `LowEnqueue` |
| `RestockWorker._run`, `handle_stock_low` | `QuoteFails`, `Propose`, `CheckProposal`, `SubmitPlan` |
| kiosk and key lights; `current_pending_approval` in `pico_action` | `Look` |
| `approve_pending`, `_process_approved` | `Approve`, `StartPayment`, `PaidFetch`, `RecordOrder` |
| supplier's `create_order`, behind the gateway | `CreateOrder`, `Confirms` |
| `reject_pending` | `Reject` |
| `RestockRuntime.start` after a death | `Crash` with `Unproposed` |

A proposal is named by the offset of its `StockLow`, as in the code. The supplier is
its idempotency keys (`supplied`) and what it sells (`Sold`); the wallet is
`charges`; a paid answer may be lost after the charge. Debounce is left out here (it
is in `Desk`): any press may come at any time, a superset.

**Vision** - the watcher's tick over a moving shelf. A picture is the shelf when it was
captured; of its bytes only the length matters (`Size`), as for the motion gate.

| Code | Actions |
|---|---|
| `CameraStreamer._record_frame`, ten seconds of silence | `Capture`, `GrowStale` |
| `StreamerCamera.snapshot` (picture, then age) | `FetchFrame`, then `Refuse` or on |
| motion gate and heartbeat | `Skip`, `Fire`, `HeartbeatDue` |
| one model call per item | `ReadRight`, `ReadWrong`, `ReadRaises` |
| stability window, reconcile, and a reconcile that raises | `ApplyBatch`, `ApplyRaises` |
| a new process on the old log | `Restart` |

`credit` counts, per item, causes for a write less writes, `truths` what the pictures in the
stability window really showed.

**Camera** - probing of backends at boot (`ProbeWins`, `ProbeFails`), the OpenCV handle with
its dark first pictures, and a round of the streamer's thread in three steps: it finds the stop event
not set (`BeginRound`), imports OpenCV if that is the first time (`Importing`, `ImportFails`) and takes the
backend's lock (`BeginCapture`), and has its picture or not (`EndCapture`). Shutdown: `StopStreamer`, `Joined` (or the
join's timeout inside a capture or the import; `outrun` remembers the second), `CloseCamera`.
**Detection** - warm-up and first call racing for the model's lock (`WarmupStarts`,
`WarmupIdle`, `WarmupEnds`, `Ask`, `AskFails`), one answer per class built up from
quartets (`Emit`, `Answer`, `Garbled`), and the pure operators `ParseLocBoxes`, `Nms`,
`Losers`: a box is an interval, areas are lengths. `Nms` and `Losers` are folds that
follow the loops; the properties of `Sight` say what they must achieve, not how.
**Sight** - both side by side, as `VisionBundle` holds them.

**Payload** - what the kiosk's snapshot becomes on its way to the keypad, as operators:
`Snapshot` (routes), `ApiStateToPayload` and `BuildFlashes` (bridge), `Painted` (firmware).
**Keypad** - the bridge's two threads, the cable and the firmware:

| Code | Actions |
|---|---|
| `build_snapshot`, which reads the catalog first | `FetchCatalog`, `FetchState`, `FetchFails` |
| pusher: decide, write, record `_last_state_pushed` | `Compare`, `ActivityFails`, `Write`, `WriteFails`, `WriteNowhere`, `Record` |
| reader: `_ensure_serial`, read errors, hello | `Open`, `ReadFails`, `HandleHello` |
| firmware | `Boot`, `ApplyHostPayload`, `FlashEnds`; `Reset`, `Unplug`, `Plug` |

**Desk** - the operator's keys. `request[p]` is where the HTTP request of press `p` is.

| Code | Actions |
|---|---|
| `poll_buttons`; kiosk's Approve and Reject | `Press`; `Click` |
| `_handle_event_line`, its post and timeout | `Take`, `GiveUp`, `Answer` |
| `_pico_should_debounce` (read, then write) | `ReadLast`, `RecordPress`, `WindowEnds` |
| `pico_action`: find the object, then act | `Pick`; `Act` = `Ready`, `PackOrder`, `CancelOrder` or `Decide` |
| `mark_paid`, `mark_packed`, `cancel`: look, then write | `Decides`, then `Writes`: `AppendOrder` of a press, `OrderWritten` of a caller |
| Stripe's events, kiosk's routes, `demo_seed_paid_order` | `OrderMoves`, `DemoStartOrStop`, `SeedReserve`, `SeedPay` |

A status is looked at and written in two steps on every thread, of presses and of the `Callers` that serve Stripe and
the kiosk alike, with no lock over both, and the write overwrites whatever the status has become. `crossed` remembers
the orders that got over while such a write was still to come.

**Checkout** - from a call to a paid order.

| Code | Actions |
|---|---|
| phone webhook, clear purchase | `Ring`, `Reserve`, `CreateCheckout`, `CheckoutFails` |
| phone webhook, language model with tools | `Talk`, `ReserveTool`, `CheckoutTool`, `Reply` |
| Stripe and its customers | `Pay`, `Decline`, `Expire`; events `due` until answered 2xx, `Deliver`, `Redeliver` |
| `stripe_webhook` | `FailedCheckout`, `AlreadyPaid`, `MarkPaid`, `Raises` (500); receipts by `Notify` |
| operator; death between log and answer | `Pack`, `Cancel`; `Crash` |

`recorded[c]` is the sequence of the sessions whose payments the log has for the order of call `c`. One call makes at most one order:
a language model that reserves several times in one conversation is as many calls, each with sessions of its own.

The `*Proofs` modules and **SetLemmas** hold the theorems (section 4), the `*Properties` modules and `Sight` the
properties, the `MC*` modules the constants of the runs.

## 3. Runs

| Run | Checks | Instance | States |
|---|---|---|---|
| `threads` (MCStall) | `TypeOK`, `LogIsCausal`, `DeliveredIsVisible`, `RestartHeals` | 2 threads, every service, shared items and orders, crashes | 775k |
| `orderly` (MCStubs) | `RestingViewIsReplay`, `SeenDropRaisesStockLow`, `ImplementsLedger`, `FruitIsConserved`, `StubsAgree` | 2 threads, every service (activate and teach on one), 2 shared items (one free of charge, taught later), 2 shared orders, 2 sessions, crashes; calls about one item do not overlap | 1.02M |
| `live` (MCStall) | `CallsEnd` | kiosk and camera threads, fair | 35k |
| `restock_safety` | `TypeOK`, `PaidWasApproved`, `PaidOnce`, `OneProposalPerLow`, `CapsHold`, `FinalStatusStays` | 2 pressers, 2 StockLows, amounts of 0, at and above the caps, expiry, 1 death | 1.4M |
| `restock_live` | `OrderedIsSupplied`, `LowsAnswered`, `PressesEnd` | 2 items of which one is sold, worker and presser, 1 death, fair | 228k |
| `vision` | `LogNotFlooded`, `BelievedWasSeen`, `CatchesUp` | 2 fruits, window of 2, 1 move, 1 write by others, 1 misread, failure or death, fair | 269k |
| `sight` | `DeviceReleased`, `LoadedOnce`, `TwinsCollapse`, `ClassesSeparated`, `ShutdownEnds` | automatic and OpenCV backend, 2 loads, every answer of at most 2 and 1 boxes out of 7, fair | 698k |
| `keypad` | `FlashOfNewest`, `Repaints` | 1 fruit, 2 changes, 2 faults, fair | 376k |
| `checkout` | `AckedOrderIsRecorded`, `OneStory`, `PaymentLands`, `HoldsEnd` | 2 calls, at most 1 fruit, 2 sessions, 1 fault, fair | 236k |
| `desk` | `OncePerPress`, `DebounceHolds`, `OverIsOver` | 2 presses or clicks, 1 caller beside them, 2 orders, 1 proposal | 6.45M |
| `bad_lifecycle` (MCStall) | `LifecycleRespected` | 2 threads on one order: reserve, pay, pack, cancel | violated, section 5 |
| `bad_oversell` (MCStall) | `NoOversell` | 2 reservers, one item | violated, section 5 |

**What they show.** With threads that overlap on one item the services are not the Ledger
(section 5; `bad_lifecycle` and `bad_oversell` are two ways), and `threads` shows what survives all the
same: a causal log, orders and items that do not disappear, counts that are never negative, and a restart that heals.
`orderly` shows that the overlap is what it takes. Its threads share items and orders, are killed
anywhere and interleave arbitrarily, but two calls about one item do not overlap; then every call is a step of the Ledger, what is
shown of an item nobody works on is the replay, fruit is conserved, a drop the camera saw raises its `StockLow`, and the in-memory
fakes do what the services do. **Nothing in the code enforces that order** (`Orderly`, `OrderlySpec` in `StallProperties`): the pool threads,
the event loop and the camera all work on the same apple and banana. So `orderly` is not a promise of the code; it says which
behaviours are safe, and that a lock over each call, or any other way to take turns per item, would be enough. The restock runs show that the coordinator's one lock and its order of
checks are enough for the money whatever is pressed, replayed or lost. `vision` shows that
what is lost between a frame and a count (skipped, refused, misread, raised, killed) delays the
truth and neither falsifies nor multiplies it. `sight` compares the code's two suppression
loops with what suppression is for, on every small answer. `keypad` names the two ways, and
shows that there are no others, by which the display stays wrong for good: its premises
`~forgotten` and `~garbled` are those two. That is so with the active item last in the catalog, as in the run; a fruit
after it is a third way (section 5). `checkout` shows what deliveries in any order, more
than once and across a death can do to an order. It counts per order: of two paid sessions of one order
the first is recorded, which is what `AckedOrderIsRecorded` says and what counts as landed in `PaymentLands`; the
second is answered 200 and recorded nowhere (section 5). `HoldsEnd` is about orders that have a session and whose release did
not raise, because the others are held for good (section 5). `sight` shows that the device is given back whatever falls into the
shutdown, but for the first import of OpenCV (section 5); its shutdown waits for captures, and the watcher's
model call in its executor is no part of it. `desk` shows that a key that finds an object and acts on it later
does not bring back what is over, as each action looks again; what does bring it back is a call that had looked before
and writes after, on any thread (`crossed`), and the same crossing lies between any two calls of the order service. It
shows also that it takes the bridge's timeout or the kiosk to defeat the debounce.

**Bounds.** All are constants that stop new work, never work under way.

- `MaxEvents` (Stall): new calls stop when the log is this long. 8 events hold the seed, a
  count, a reservation, a payment, and a cancellation or a second count; 7 in `orderly`
  hold the seed, two reservations or one and its whole life. Two threads suffice for every race here: each is between one reader and one
  writer of one projection. Two orders and one fruit left make an oversell. `SeedCount`
  is the third column of `_DEFAULT_FRUIT`, 0 in the code, where the camera counts first; the runs start from
  a shelf taught with its stock, as an operator may teach it, so that their depth goes to what they are about.
- `MaxLows`, `MaxTime`, `MaxDeaths` (Restock): two lows make the newest-pending choice matter,
  one death falls at every step, a proposal outlives its TTL within the ticks.
- `MaxMoves`, `MaxTrades`, `MaxFaults`, `MaxCount` (Vision): one of each falls between any two steps of
  a tick; with a window of two one misread can start or end a pair; a death fills the window anew.
- `MaxLoads`, `MaxBoxes` (Detection): a failed and a successful load; three boxes of two
  classes hold a twin and a rival, chains of overlaps and ties included (`Chain`).
- `MaxChanges`, `MaxFaults` (Keypad): a change before and one during a push, and two faults, so that a
  lost push can be followed by a lost hello. One fruit: what the loop over the
  catalog does to several is pure (`Reached`, `BuildFlashes`).
- `MaxSessions`, `MaxFaults`, `Shelf` (Checkout): two sessions may be of one order or of two, and one
  fruit for two calls makes one of them too late.
- `Callers`, `MaxPresses`, `MaxOrders`, `MaxBuys` (Desk): two presses of any keys overlap at every step; two orders
  make "oldest paid" and "newest reserved" a choice; one caller and two presses are three writers, any two of which cross.

`SYMMETRY` on order ids (`threads`, `orderly`) is sound: no operator distinguishes them
and those runs check no liveness. `CHECK_DEADLOCK FALSE` stands where there are no crashes or
boundedly many: there the shop rests once the bound admits no further request.

**Fairness.** Nothing ever forces a customer, an operator, a fault or a `StockLow`.

- `Stall!FairSpec`: the boot goes on and a thread goes on with a call it is in (`WF` on `Boot`
  and on each `Continue(t)`), because threads are scheduled and each stretch of code
  terminates. Weak fairness for taking the lock is enough for `CallsEnd` because
  requests are assumed to stop coming.
- `Restock!FairSpec`: the worker takes from its queue, the holder of the lock goes on
  (its external calls have timeouts: 5 s for the quote, 30 s for the wallet's bridge),
  a request that has the turn for the lock runs. With deaths bounded, "always
  eventually" speaks of the last life of the process. `LowsAnswered` is checked for
  positive quotes: a quote of 0 cents makes `RestockProposed` raise, and then neither
  proposal nor failure is recorded.
- `Vision!FairSpec`: threads run, the heartbeat falls due, and each item's model call
  succeeds again and again (`SF` on `ReadRight`): no recount recovers while the model raises for good.
- `Sight!FairSpec`: imports, captures, loads and answers return, and a shutdown goes on.
- `Keypad!FairSpec`: both threads, the firmware's loop and boot go on, changes age and flashes end.
- `Checkout!FairSpec`: a purchase goes on, a session is paid or expires (Stripe's sessions do), an event
  that is due is delivered (Stripe retries), the loop gets to its answers, the
  language model's too: while it does not answer, the loop is blocked and no payment lands.
- `Desk` has none: nothing about it is claimed to happen.

## 4. Proofs

TLC shows a property on the instance of its run; the theorems below say it for every value of the
constants: any sets of threads, items, orders, calls, presses and boxes, any bounds, any number of
crashes. They assume what the modules' `ASSUME`s say of the constants, which TLC evaluates in every
run, and where a theorem has a hypothesis of its own the table names it.

**The stall, any threads** (`StallProofs`):

| Theorem | Property | Argument |
|---|---|---|
| `TypeCorrect` | `TypeOK` | inductive by itself; the weight is in `RecordFacts` (what `Record` does to log and history) and `ApplyType` |
| `CausalLog` | `LogIsCausal` | strengthened by what the log must already hold: every status in `view` and in every replay is backed by an event (`CausalViewStep`), and every event a call is about to write is justified (`CausalCallStep`). Needed because services decide on a stale view: a stale view is still backed by the log, as the log only grows |
| `RestartHealed` | `RestartHeals` | `BootInv`: history is the fold of the log; while booting only `Main` emits, in order; during hydration `view` is the replay of the first `hydrated` rows |
| `DeliveredShows` | `DeliveredIsVisible` | `RootInv`: orders and items in any stale view are in the log with the same item and quantity (`Rooted`), every event of the log is `Known` to its replay, no two calls reserve the same id. So a late notification can overwrite a status or a count but never makes an order or an item disappear (`ApplyShows`), and what is no longer pending has been applied since the last restart (`ShownStep`) |
| `NobodyHangs` | `LockIsInUse` (safety half of `CallsEnd`) | `LockInv`: the lock is held by exactly the thread that is in a transaction, and a call that only emits has something left to append or to notify. So whoever is in a call has a step that needs nothing, or waits for the lock alone, and the holder never waits: no cycle, also after a death. `CallsEnd` adds that threads are scheduled |

**The stall, calls that take turns per item** (`StallProofs`; hypothesis: the behaviour is one of `OrderlySpec`, in
which no two calls about the same item overlap. It speaks of behaviours and not of threads: all threads may work on all
items and orders, the camera may recount them, and processes may die. The code does not enforce it; section 5 and the two violated
runs show what happens without, so these theorems say exactly this: whatever the stall gets wrong here, it takes two overlapping calls about
one item):

| Theorem | Property | Argument |
|---|---|---|
| `RestingIsReplay` | `RestingViewIsReplay` | from `SyncInv`: what no call touches is the same on the projections and in the log |
| `StallImplementsLedger` | `ImplementsLedger` | `AppendShop`: an append is, on what the log says, a teaching, a taking, a move of one order or a recount, each an action of `Ledger`; all other steps leave the log alone and are stutters |
| `FruitConserved` | `FruitIsConserved` | finite sums over the orders that keep fruit; `FruitTeaches`, `FruitTakes`, `FruitMoves`, `FruitRecounts` for the four kinds of steps, of which only the last changes the sum, by a `CountSet` of its own |
| `SeenDropsRaise` | `SeenDropRaisesStockLow` | `GateInv`: a `CountSet` about to be appended that will cross the threshold has its `StockLow` behind it; `LowInv`: each drop seen since the last start has its `StockLow` in the log or a call that still owes it. A death drops the calls and starts the count anew |
| `FakesAgree` | `StubsAgree` | the fake is applied to what the log says (`Durable`), the service decides on what its thread sees: `Caught` and `Fits` make the two the same where the call looks, and `AppendShop` says what its commit makes of the log |

The inductive invariant behind all five is `SyncInv`. The hazard is that a service decides on a projection
that is behind the log. `Caught` says by how much: once thread `t` has delivered its own outbox (at most two
events), it sees the item *it is working on*, and the orders of it, exactly as the log has them, whatever others have pending,
because no event of another thread under way touches them (`CallMine`, `ApplyForeign`); an item nobody works on is seen by
all as it is (`Unowned`), so that a call finds it so when it begins (`FreshRead`, `SyncBecome`). `Fits` says that
therefore what a call has read (a status before a cancel or a payment) is still so when it appends.
`RootInv` carries the part of this that every behaviour has; the boot enters it through `BootInv`, since after
hydration view and log agree everywhere. `OrderlyMeans` gives `[]Orderly` to the temporal steps.

**Restock** (`RestockProofs`), for any caps, windows, amounts, modes, request threads and deaths:

| Theorem | Property | Argument |
|---|---|---|
| `TypesHold` | `TypeOK` | from `IInv` |
| `PaysOnlyWhatWasApproved` | `PaidWasApproved` | `BackedOK`: each status is backed by the events that led to it, up to the `Chain` proposed, approved, started with one amount |
| `PaysOnce` | `PaidOnce` | `ChargesOK` with `JobOK`: what was charged has a status no payment starts from, and the only job that may charge is for a proposal not yet charged |
| `OrdersAreSupplied` | `OrderedIsSupplied` | a job that has its answer was charged and supplied |
| `ProposesOnce` | `OneProposalPerLow` | the lookup by offset and the proposal are under one lock |
| `FinalStays` | `FinalStatusStays` | action property: `Writes` lists what a step may log, and whoever holds the lock writes nothing about what is over |
| `CapsAreHeld` | `CapsHold` | the amounts in each window are finite sums over the log; a new payment adds one member to its own windows and none to those of earlier payments, as time only grows |
| `LowsAreKept` | `NoLowIsLost` (safety half of `LowsAnswered`) | hypothesis `0 \notin Amounts`: a quote of 0 cents makes `RestockProposed` raise and the worker drops the `StockLow` with a log line (`coordinator.py:121`, section 5). Every `StockLow` is undelivered, queued or answered. A delivery and a turn of the queue keep it (`WaitingStays`, `HeadAnswered`); a death empties queue and subscribers, and what the next start reads back from the log is everything not answered (`InLogOrderIsOnto`) |

`IInv` is `LogOK`, `RecordsOK`, `VarsOK`, `JobOK`, `BackedOK`, `ChargesOK`. `PaidOnce` alone is not inductive:
it takes that the projection of the log, which survives the death, already says `payment_started` when the charge
is made, so that no restart starts from it again.

**Checkout** (`CheckoutProofs`), any calls, sessions, faults and repeated deliveries:

| Theorem | Property | Argument |
|---|---|---|
| `AckedOrdersAreRecorded` | `AckedOrderIsRecorded` | `LedgerOK`: the status of an order tells whether its payment is recorded, at most once, and while a receipt is owed none was sent for its order. `PaidOK`: an event that pays is of a session the customer completed (`RaisedWithPayment`), so what `mark_paid` records of it is too (`RecordedOfEvent`, `CompletedStays`). It is a statement per order: of a second paid session nothing is recorded |
| `StoriesAgree` | `OneStory` | `TasksOK`: how far a call is bounds what can have been texted |
| `NothingIsLost` | `NothingOwedIsLost` (safety half of `PaymentLands` and `HoldsEnd`) | `OwedOK`: a session that ended has raised its event, an event that was answered has moved its order or has a release that raised behind it, and no order goes back (`OrdersMove`). So what is paid and not in the log, or expired and still held, has its event due. That Stripe delivers what is due is fairness |

**Watcher** (`VisionProofs`), any catalog, window length, shelf and number of other writers:

| Theorem | Property | Argument |
|---|---|---|
| `NotFlooded` | `LogNotFlooded` | a potential: a count travels from the shelf to the streamer's picture, to the picture the tick holds, to the newest read, to the committed count. `CreditOK`: the places on this way where neighbours differ are never more than the credit, so that a write, which makes the last pair equal, finds a cause to pay for it. Skipped, refused and repeated pictures only move or merge differences |
| `BelievesWhatWasSeen` | `BelievedWasSeen` | hypothesis `MaxFaults < StabilityTicks`, the doc's own premise. `FaultsOK`: the misreads in a window and the one on its way there are at most the faults, so a full window of equal reads has one that was right |

**Camera and model** (`SightProofs`), any backend and number of loads:

| Theorem | Property | Argument |
|---|---|---|
| `DeviceIsReleased` | `DeviceReleased` | `DeviceInv`: once a `Cv2Camera` is down no capture is under way, because its close waited for the lock, and no round is about to begin one, because the join waited for it; save where the join gave up on a round that was still importing OpenCV (`outrun`). That takes `FM_CAMERA_BACKEND=cv2`: where the backend was probed, the probe has imported it (`probes # 0 => imported`) |
| `WeightsLoadedOnce` | `LoadedOnce` | `LoadInv`: a warm-up that is loading holds the lock and found no weights, so the successful loads are exactly what `loaded` says |
| `TwinsAreCollapsed` | `TwinsCollapse` | `_nms` is a loop over boxes in order of size. Its invariant after each round: those kept so far are pairwise apart, and each one passed over has a kept one, placed before it, that it overlaps (`EveryRound`, `LastOfRound`). What is placed before is no smaller (`SortedByArea`). The boxes are any that `ParseLocBoxes` can make of any answer (`TextOK`) |
| `ClassesAreSeparated` | `ClassesSeparated` | the same for `_cross_class_nms`, on pairs of class and box of any number of answers (`AnswersOK`); its first round keeps the largest |

**Keypad** (`KeypadProofs`), any fruits, catalog and history of changes, any faults of cable and firmware:

| Theorem | Property | Argument |
|---|---|---|
| `FlashesAreNewest` | `FlashOfNewest` | `BuildFlashes` is a fold over the recent changes, newest first; after each round the flashes made are those of the newest change of every fruit met so far |
| `BeliefsAreTrue` | `BelievedIsShown` (safety half of `Repaints`) | `SaidIsTold`: what the bridge takes for pushed, or is about to, is on the keypad or in the line it has still to read, or the port is lost, or a hello on its way will have it repeated, or one of the two known ways has happened: `forgotten`, `garbled`. So the pusher, which skips a state equal to its last, never skips one the keypad does not show |

**Keys** (`DeskProofs`), any presses, orders and proposals:

| Theorem | Property | Argument |
|---|---|---|
| `OverForGood` | `OverIsOver` | `BookOK`: who is about to write to an order that is over had looked at it before it got over, so that the order is in `crossed`; a look finds no order that is over (`DecidesKeeps`), and the write that gets one over marks the writes still to come (`WritesKeeps`). A decision of a proposal falls on the greatest pending one, which is pending (`BuysOK`, `MaxIsMember`) |
| `PressActsOnce` | `OncePerPress` | from `IInv` |
| `DebounceByOnePoster` | `DebounceHolds` | from `IInv` |

`IInv` is `WireOK /\ PostedOnce /\ ActedOnce /\ OneByOne`. That a press acts once is not inductive: it
takes that what has acted only goes on to its answer (`ActedOnce`), that a press not yet posted has
no request (`PostedOnce`), and that it is on the wire once (`WireOK`), so that no request starts anew. The
debounce needs besides that, without clicks and without posts given up, every request under way is the one the
reader waits for, so that nothing refreshes a key between the look and the record (`OneByOne`).

**SetLemmas** replaces the induction the prover does not have. Of a set of finite sets a smallest one exists
(`SmallestSet`, from the well-foundedness of strict inclusion), and a smallest counterexample is as good as an
induction step. That gives the greatest member of a finite set, and then what a sum is: the fold that defines
`SumFunctionOnSet` exists and is unique (`WalkExists`, `WalkUnique`), does not depend on the order in which
members are chosen (`SumRemove`, `SumAdd`), depends only on its summands (`SumAgrees`), and is a natural number
(`SumIsNat`). Caps and stock are proved with these. Loops get the same treatment: `FoldLeft` over a sequence exists and is unique
(`LoopExists`, `LoopUnique`), what holds of the start and survives a round holds at the end (`LoopTyped`, `EveryRound`,
`LastOfRound`), with the first round that breaks it as the smallest counterexample (`LeastMember`).

What the proofs changed in the model. `StallProperties` states the conservation of fruit with
`SumFunctionOnSet` over the orders that keep fruit (`Asked`, `Keeping`) in place of two sums of its own: the
same numbers, and one sum to reason about. `Vision` got the
assumptions its proofs need and the code grants: a catalog has each item once (its ids are dictionary keys), the
caps of the tick are positive, and an empty catalog ends the tick before a picture is fetched (`FetchFrame`); `Detection` assumes coordinates to be numbers and the alphabetical order to rank every class. The two
suppressions sort by area with a sort that is stated by places (`ByArea`: `Place` counts the boxes that go before one) and not by
the `TLC` module's, which the prover does not know; `Flat` and `BuildFlashes` are folds and not recursive functions.
`FlashOfNewest` speaks of the fruits the keypad has cells for: the proof showed that of any other it is false,
and nothing is painted for those.

Only model-checked: liveness, because fairness and `ENABLED` are outside the prover's reach. Every safety property of
the passing runs is a theorem. Of the liveness properties

- `CallsEnd`, `LowsAnswered`, `PaymentLands`, `HoldsEnd` and `Repaints` have their safety halves proved above: what is
  not yet done has a step that will do it, and what remains is that the step is taken;
- `PressesEnd`, `CatchesUp` and `ShutdownEnds` rest on the runs alone.

The invariants those halves state (`LockIsInUse`, `NoLowIsLost`, `NothingOwedIsLost`, `BelievedIsShown`) are defined beside their
proofs; no run lists them.

## 5. What the code does not keep

Two runs must fail, and `PROJECT.json` quotes the lines that claim otherwise. `bad_oversell`:
`reserve` reads the count under the lock, but the previous reserver tells the projection
only after releasing it. Two buyers take the last fruit. `bad_lifecycle`: `mark_paid` reads the status and appends
later with no lock over both (`orders.py:106`, `:110`), and the projection overwrites any status (`projections.py:117`). A
cancellation on another thread lands between the two; the cancelled order is paid, and its stock went back.

Met while modelling, without a run of their own:

*Orders and stock.* Two cancels of one order both pass the terminal check, which is not
repeated under the lock, and the stock returns twice (`orders.py:128`). A reservation lowers the
count to the threshold and no `StockLow` follows; the camera then sees no descent
(`orders.py:79`, `events.py:98`). Where calls about one item
overlap, `RestingViewIsReplay`, `ImplementsLedger` and `FruitIsConserved` fail (a late notification overwrites a newer count,
a payment crosses a cancellation, the camera's count replaces what a reservation left). A death between `CountSet` and
`StockLow` leaves a `StockLow` that is never raised (`inventory.py:68`). Cancelling a paid
order returns no stock although `routes.py:112` says it does. `delete_taught_item` leaves the item
active when no other has stock, and the camera's next count brings it back (`routes.py:149`).

*Fakes.* A second payment keeps the first session, the services record the new one; the fakes
check no status and accept a price of 0.

*Restock.* `approve_pending` names no proposal: what is paid is the newest pending one when the lock is
obtained (`coordinator.py:164`). A death between the payment and `RestockOrdered` leaves a charge no
restart completes or reports (`coordinator.py:312`); so does a lost answer, which is recorded as
failed though the supplier has the order. Two `StockLow`s of one item become two orders although
`docs/architecture.md:427` promises no double order. Idempotency keys are reused after the log is reset.

*Vision.* The watcher compares with the count it committed itself, not with the inventory, so a
reservation or a manual count on an unchanged shelf stays (`watcher.py:434`); after a restart its first read
replaces whatever reservations had left. A reconcile that raises loses the memory of
those written before it (`watcher.py:482`). `_previous_frame` is set before the model is called. Items beyond the cap
per tick are never counted. The backend is chosen once, at boot. The result of suppression across
classes depends on the order of the classes, though what `ClassesSeparated` says does not.

*Camera.* With `FM_CAMERA_BACKEND=cv2` nothing has imported OpenCV before the streamer's first capture
(`camera.py:115`, before the lock). A shutdown in that import outruns the join's two seconds, closes a camera that is not open yet, and the thread
then opens the device, which stays open until the process ends.

*Keypad.* The pusher records a state as pushed after a failed write, and over a hello that came during
the push (`pico_bridge.py:573`): the display stays old until the next change. Half a line left by
a timed-out write spoils the next. The loop over the catalog ends at the active item, so that a
fruit after it is sent as 0 and blinks as out of stock (`pico_bridge.py:342`); the run's catalog has one item. The
bridge flashes again on every push within 2.5 s; a snapshot read in halves can blink red for one push. `pico_protocol.py:34`
says PACKED marks the most recent paid order; the code packs the oldest.

*Keys.* A key's order can get over between the second look of `mark_packed` or `cancel` and its append (`orders.py:118`, `:128`): a cancelled
order is packed, or a packed one cancelled, as with any two calls of the order service. The debounce is read and written without a lock (`routes.py:406`). CANCEL on a dark key
cancels the newest paid order; the kiosk's Reject posts the same action and, when the proposal was decided meanwhile,
cancels an order (`routes.py:455`). `demo_seed_paid_order` answers 500 when its order is cancelled before it is paid.

*Payments.* A payment for an order cancelled or packed meanwhile is answered 500 for as long as
Stripe retries (`stripe_webhook.py:67`): money is kept and no order moves. `payment_failed`
cancels an order whose session is still open. A release that raises is acknowledged, and the reservation
is held for good (`stripe_webhook.py:93`); so is one whose session could not be opened (`phone_webhook.py:150`). Two sessions of one order may both be paid: the second
payment is answered 200 because the order is paid already (`stripe_webhook.py:64`), before `mark_paid` could compare the
sessions as `orders.py:10` has it, and is recorded nowhere. The expiry of one session cancels the order of the other. A call delivered twice by AgentPhone is two purchases (`phone_webhook.py:150`). The language
model's call blocks the event loop (`phone_webhook.py:97`).

## 6. Not modelled

- Power loss: with `synchronous=NORMAL` the last commits may be lost; only the death of the
  process is modelled. `SQLITE_BUSY` of a second process on the same file.
- The non-atomic copy a reader may see while a projection replaces a record: Python
  replaces a dictionary entry in one step.
- Teach's dictionary of proposals, transcripts and prices; the matching of words by phone brain and fakes;
  e-mails and texts beyond "link" and "apology"; wording.
- An orderly stop of the restock worker: its queue is in memory, so it is a death.
- The demo supplier's web page (four fifths of its file) and the text of the kiosk's page; the read-only routes
  and the event stream; `delete_taught_item`, whose three calls are interleavings `Stall` has.
- Networks and images: the language model is any caller of its tools that change the shop (its own `send_sms`, whose text may be anything, is
  left out), the counting model any answer;
  encoding of pictures; serial framing below the line.
- The Swift daemon, seen from outside as files that may be missing or old; dead paint functions of the firmware;
  scripts for developers.

## 7. Plan

Done: the stall with its fakes; restock with its supplier; watcher; camera and model; keypad; keys; webhooks;
proofs of every safety property the runs check and of what five of the eight liveness properties rest on. What is left:

1. Operations left out that could be modelled: `delete_taught_item` as one handler, the supplier's
   `/demo-basket?reset`, teach's proposals in memory.
2. The safety halves of `CatchesUp` and `ShutdownEnds`: a count that differs from the shelf always has a picture, a
   read or a heartbeat on its way; a thread that waits in the shutdown waits for one that runs.
3. In `Checkout`, orders of one conversation as such (`gemini.py:148` may reserve any number), and a reply that never comes.
