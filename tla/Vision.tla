------------------------------- MODULE Vision -------------------------------
(***************************************************************************)
(* The vision watcher and what surrounds it: a streamer thread that keeps    *)
(* the newest picture of the shelf, the watcher's tick on the event loop    *)
(* (fetch, motion gate, one model call per item, stability window,          *)
(* reconcile), and an inventory that customers and the operator change      *)
(* behind its back.                                                        *)
(*                                                                         *)
(* A picture is the shelf as it was when captured.  Of its JPEG bytes only   *)
(* the length matters, which is all the motion gate compares: `Size' gives   *)
(* it, and two lengths within the threshold are the same size.  Time is two  *)
(* flags, the ten seconds after which the cache is stale and the heartbeat   *)
(* of five.  A reconcile is one step here: Stall has its interleavings.      *)
(* The gate of the constructor is always open (api/app.py:192), and the      *)
(* ring of recent changes and the counters of the dashboard are left out.    *)
(***************************************************************************)
EXTENDS Naturals, Sequences, FiniteSets

CONSTANTS
  Catalog,         (* the items taught, in the order of list_items *)
  MaxItems,        (* max_items_per_tick *)
  MaxCount,        (* bound: fruits of one kind on the shelf *)
  Size,            (* [pictures -> Nat], the byte length up to the threshold *)
  StabilityTicks,  (* reads that must agree before one is believed *)
  Traders,         (* who else changes the inventory: "reserve", "cancel", "manual" *)
  MaxMoves,        (* bound: changes of the shelf *)
  MaxTrades,       (* bound: changes of the inventory by the others *)
  MaxFaults,       (* bound: misreads, failed appends and deaths *)
  Never            (* no picture, no count, no read *)

Items == {Catalog[k] : k \in DOMAIN Catalog}
Counts == 0 .. MaxCount
Pictures == [Items -> Counts]

ASSUME VisionAssumption ==
  /\ {MaxItems, MaxCount, StabilityTicks, MaxMoves, MaxTrades, MaxFaults} \subseteq Nat
  /\ MaxItems > 0 /\ StabilityTicks > 0
  /\ Catalog \in Seq(Items)   \* item ids are the keys of the catalog
  /\ \A j, k \in DOMAIN Catalog : Catalog[j] = Catalog[k] => j = k
  /\ Size \in [Pictures -> Nat]
  /\ Never \notin Counts /\ Never \notin Pictures

VARIABLES
  shelf,      (* what lies on the shelf *)
  cache,      (* the streamer's newest picture, and whether it is too old *)
  previous,   (* _previous_frame, the picture the motion gate compares with *)
  window,     (* _recent_reads, per item *)
  last,       (* status.last_counts, the counts committed by the watcher *)
  overdue,    (* the last count is older than the heartbeat, or there is none *)
  tick,       (* what the tick has still to do *)
  stock,      (* physical_count of the inventory *)
  moves, trades, faults,
  truths,     (* history: per item, what the pictures of `window' really showed *)
  credit      (* history: per item, causes seen less counts written *)

worldVars   == <<shelf, moves>>
watcherVars == <<previous, window, last, overdue, tick, truths>>
vars == <<shelf, cache, previous, window, last, overdue, tick, stock,
          moves, trades, faults, truths, credit>>

Idle == [at |-> "idle"]

\* _select_items_to_count: the first items of the catalog, up to the cap.
Counted == IF Len(Catalog) <= MaxItems THEN Catalog ELSE SubSeq(Catalog, 1, MaxItems)

Init ==
  /\ shelf \in Pictures
  /\ cache = [picture |-> Never, stale |-> FALSE]
  /\ previous = Never
  /\ window = [i \in Items |-> <<>>]
  /\ truths = [i \in Items |-> <<>>]
  /\ last = [i \in Items |-> Never]
  /\ overdue = TRUE
  /\ tick = Idle
  /\ stock = [i \in Items |-> 0]
  /\ moves = 0 /\ trades = 0 /\ faults = 0
  /\ credit = [i \in Items |-> 1]

-----------------------------------------------------------------------------
(* The world: fruit comes and goes, others write the inventory, time passes. *)

Move(i) ==
  /\ moves < MaxMoves
  /\ \E n \in Counts \ {shelf[i]} : shelf' = [shelf EXCEPT ![i] = n]
  /\ moves' = moves + 1
  /\ credit' = [credit EXCEPT ![i] = @ + 1]
  /\ UNCHANGED <<cache, watcherVars, stock, trades, faults>>

\* A reservation takes from the count, a cancellation gives back, the operator
\* types a count.
Trade(i) ==
  /\ trades < MaxTrades
  /\ \E n \in Counts \ {stock[i]} :
       /\ \/ "reserve" \in Traders /\ n < stock[i]
          \/ "cancel" \in Traders /\ n > stock[i]
          \/ "manual" \in Traders
       /\ stock' = [stock EXCEPT ![i] = n]
  /\ trades' = trades + 1
  /\ UNCHANGED <<worldVars, cache, watcherVars, faults, credit>>

HeartbeatDue ==
  /\ ~overdue
  /\ overdue' = TRUE
  /\ UNCHANGED <<worldVars, cache, previous, window, last, tick, truths, stock, trades, faults, credit>>

-----------------------------------------------------------------------------
(* The streamer thread.  A failed capture only counts itself. *)

\* CameraStreamer._record_frame
Capture ==
  /\ cache' = [picture |-> shelf, stale |-> FALSE]
  /\ UNCHANGED <<worldVars, watcherVars, stock, trades, faults, credit>>

GrowStale ==
  /\ cache.picture # Never /\ ~cache.stale
  /\ cache' = [cache EXCEPT !.stale = TRUE]
  /\ UNCHANGED <<worldVars, watcherVars, stock, trades, faults, credit>>

-----------------------------------------------------------------------------
(* The tick. *)

watched == <<worldVars, cache, stock, trades, credit>>   \* what a tick only reads

Fail == tick' = Idle

\* With nothing taught there is nothing to count.  StreamerCamera.snapshot takes the
\* streamer's lock twice: first for the picture ...
FetchFrame ==
  /\ tick = Idle /\ Counted # <<>>
  /\ IF cache.picture = Never
     THEN Fail
     ELSE tick' = [at |-> "age", picture |-> cache.picture]
  /\ UNCHANGED <<watched, previous, window, last, overdue, truths, faults>>

\* ... and then for its age, by when the cache may hold a newer picture.
Refuse ==
  /\ tick.at = "age" /\ cache.stale
  /\ Fail
  /\ UNCHANGED <<watched, previous, window, last, overdue, truths, faults>>

IsUnchanged(p) == previous # Never /\ Size[previous] = Size[p]

\* The motion gate, unless the heartbeat is due.
Skip ==
  /\ tick.at = "age" /\ ~cache.stale
  /\ IsUnchanged(tick.picture) /\ ~overdue
  /\ tick' = Idle
  /\ UNCHANGED <<watched, previous, window, last, overdue, truths, faults>>

FireOnMotionOnly ==   \* (mutant) no heartbeat
  /\ tick.at = "age" /\ ~cache.stale
  /\ ~IsUnchanged(tick.picture)
  /\ previous' = tick.picture
  /\ tick' = [at |-> "read", picture |-> tick.picture, batch |-> <<>>]
  /\ UNCHANGED <<watched, window, last, overdue, truths, faults>>

Fire ==
  /\ tick.at = "age" /\ ~cache.stale
  /\ ~IsUnchanged(tick.picture) \/ overdue
  /\ previous' = tick.picture
  /\ tick' = [at |-> "read", picture |-> tick.picture, batch |-> <<>>]
  /\ UNCHANGED <<watched, window, last, overdue, truths, faults>>

\* One call of the model on the executor; an exception leaves the item out of
\* the batch.  The last answer starts the loop over the items.
Answer(n) ==
  LET batch == Append(tick.batch, n) IN
  tick' = IF Len(batch) = Len(Counted)
          THEN [at |-> "apply", picture |-> tick.picture, batch |-> batch]
          ELSE [tick EXCEPT !.batch = batch]

ReadRight(k) ==
  /\ tick.at = "read" /\ k = Len(tick.batch) + 1
  /\ Answer(tick.picture[Counted[k]])
  /\ UNCHANGED <<watched, previous, window, last, overdue, truths, faults>>

ReadWrong(k) ==
  /\ tick.at = "read" /\ k = Len(tick.batch) + 1
  /\ faults < MaxFaults /\ faults' = faults + 1
  /\ \E n \in Counts \ {tick.picture[Counted[k]]} : Answer(n)
  /\ credit' = [credit EXCEPT ![Counted[k]] = @ + 2]
  /\ UNCHANGED <<worldVars, cache, stock, trades, previous, window, last, overdue, truths>>

ReadRaises(k) ==
  /\ tick.at = "read" /\ k = Len(tick.batch) + 1
  /\ Answer(Never)
  /\ UNCHANGED <<watched, previous, window, last, overdue, truths, faults>>

\* The rolling buffer of the last reads.
Push(s, x) == IF Len(s) < StabilityTicks THEN Append(s, x) ELSE Append(Tail(s), x)

MostlyAgrees(s) ==   \* (mutant) the buffer need not be full
  \A j, k \in 1 .. Len(s) : s[j] = s[k]

Agrees(s) == Len(s) = StabilityTicks /\ \A j, k \in 1 .. Len(s) : s[j] = s[k]

\* (mutant) a re-confirmed count is reconciled as well
ChangedOrNot(i, n) == TRUE

\* _classify_change is not "unchanged"
Changed(i, n) == last[i] # n

\* The answers of this tick, by item; an item without one is not touched.
Read == [i \in {Counted[k] : k \in {j \in DOMAIN Counted : tick.batch[j] # Never}} |->
           tick.batch[CHOOSE k \in DOMAIN Counted : Counted[k] = i]]

\* The items of the batch whose reads now agree, and those to be reconciled.
Stable == {i \in DOMAIN Read : Agrees(Push(window[i], Read[i]))}
Written == {i \in Stable : Changed(i, Read[i]) /\ stock[i] # Read[i]}

\* The loop over the batch, with no await in it, as far as the items `some'.
Apply(some) ==
  /\ window' = [i \in Items |->
                 IF i \in some THEN Push(window[i], Read[i]) ELSE window[i]]
  /\ truths' = [i \in Items |->
                 IF i \in some THEN Push(truths[i], tick.picture[i]) ELSE truths[i]]

\* Every item of the batch is reconciled; a batch with no answer is a failure,
\* any answer feeds the heartbeat.
ApplyBatch ==
  /\ tick.at = "apply"
  /\ Apply(DOMAIN Read)
  /\ stock' = [i \in Items |-> IF i \in Written THEN Read[i] ELSE stock[i]]
  /\ credit' = [i \in Items |-> IF i \in Written THEN credit[i] - 1 ELSE credit[i]]
  /\ last' = [i \in Items |-> IF i \in Stable THEN Read[i] ELSE last[i]]
  /\ overdue' = (overdue /\ DOMAIN Read = {})
  /\ tick' = Idle
  /\ UNCHANGED <<worldVars, cache, trades, faults, previous>>

\* The append of the k-th item raises: the tick ends here, and what it wrote for
\* earlier items is not remembered in last_counts.
ApplyRaises(k) ==
  LET before == {Counted[j] : j \in 1 .. k - 1}
      written == Written \cap before
  IN
  /\ tick.at = "apply" /\ Counted[k] \in Written
  /\ faults < MaxFaults /\ faults' = faults + 1
  /\ Apply(DOMAIN Read \cap (before \cup {Counted[k]}))
  /\ stock' = [i \in Items |-> IF i \in written THEN Read[i] ELSE stock[i]]
  /\ credit' = [i \in Items |-> IF i \in written THEN credit[i] ELSE credit[i] + 1]
  /\ tick' = Idle
  /\ UNCHANGED <<worldVars, cache, trades, previous, last, overdue>>

\* The process dies and boots: the inventory is in the log, the rest is gone.
Restart ==
  /\ faults < MaxFaults /\ faults' = faults + 1
  /\ cache' = [picture |-> Never, stale |-> FALSE]
  /\ previous' = Never
  /\ window' = [i \in Items |-> <<>>] /\ truths' = [i \in Items |-> <<>>]
  /\ last' = [i \in Items |-> Never]
  /\ overdue' = TRUE /\ tick' = Idle
  /\ credit' = [i \in Items |-> credit[i] + 1]
  /\ UNCHANGED <<worldVars, stock, trades>>

Next ==
  \/ \E i \in Items : Move(i) \/ Trade(i)
  \/ HeartbeatDue \/ Capture \/ GrowStale
  \/ FetchFrame \/ Refuse \/ Skip \/ Fire
  \/ \E k \in DOMAIN Counted : ReadRight(k) \/ ReadWrong(k) \/ ReadRaises(k)
  \/ ApplyBatch \/ \E k \in DOMAIN Counted : ApplyRaises(k)
  \/ Restart

Spec == Init /\ [][Next]_vars

\* The threads run and time passes; each item's model call now and then succeeds:
\* nothing recovers while it raises for good.
FairSpec ==
  /\ Spec
  /\ WF_vars(HeartbeatDue) /\ WF_vars(Capture)
  /\ WF_vars(FetchFrame) /\ WF_vars(Refuse \/ Skip \/ Fire)
  /\ \A k \in DOMAIN Counted : SF_vars(ReadRight(k))
  /\ WF_vars(ApplyBatch)
  /\ \A k \in DOMAIN Counted : WF_vars(ReadRight(k) \/ ReadRaises(k))
=============================================================================
