----------------------------- MODULE EventStore -----------------------------
(***************************************************************************)
(* The append-only event store: one SQLite connection behind one           *)
(* non-reentrant lock, and subscribers called on the appending thread       *)
(* AFTER the lock is released.  Between its commit and its last             *)
(* notification a writer holds a list of events the projections have not    *)
(* seen; the notifications of two writers interleave.                      *)
(*                                                                         *)
(* Each operator below is a part of an action: Stall conjoins it with what  *)
(* the calling service does in the same step.  A definition marked (mutant) *)
(* is a slip the code does not make, used by nothing here: it is swapped in *)
(* to see that a property notices.                                          *)
(***************************************************************************)
EXTENDS Projections, Sequences, FiniteSets

CONSTANTS
  Threads,    (* the request, worker and event-loop threads that use the store *)
  NoThread    (* the lock is free *)

ASSUME NoThreadIsNone == NoThread \notin Threads

VARIABLES
  log,        (* the committed rows of the events table, by offset *)
  holder,     (* the thread inside store.transaction(), or NoThread *)
  outbox,     (* per thread, offsets committed and not yet notified *)
  view,       (* the live projections *)
  replays     (* history: replays[n + 1] is the fold of the first n events *)

storeVars == <<log, holder, outbox, view, replays>>

Durable == replays[Len(replays)]   \* what replay(log) would rebuild now

Record(es) ==
  /\ log' = log \o es
  /\ replays' = replays \o
       IF Len(es) = 1
       THEN << Apply(Durable, es[1]) >>
       ELSE << Apply(Durable, es[1]), Apply(Apply(Durable, es[1]), es[2]) >>

\* EventStore.append: insert and commit under the lock, notify afterwards.
StoreAppend(t, e) ==
  /\ holder = NoThread
  /\ Record(<<e>>)
  /\ outbox' = [outbox EXCEPT ![t] = <<Len(log) + 1>>]
  /\ UNCHANGED <<holder, view>>

\* EventStore.transaction, entry: take the lock.
StoreBegin(t) ==
  /\ holder = NoThread
  /\ holder' = t
  /\ UNCHANGED <<log, outbox, view, replays>>

\* The offsets a batch gets, in the order they are notified.
Offsets(es) == [n \in 1 .. Len(es) |-> Len(log) + n]

\* transaction, normal exit: all rows land together, then the lock goes.  The
\* services append one or two events in a transaction.
StoreCommit(t, es) ==
  /\ holder = t
  /\ Record(es)
  /\ holder' = NoThread
  /\ outbox' = [outbox EXCEPT ![t] = Offsets(es)]
  /\ UNCHANGED view

StoreRollbackLocked(t) == holder = t /\ UNCHANGED storeVars   \* (mutant)

\* transaction, exception in the block: nothing lands.
StoreRollback(t) ==
  /\ holder = t
  /\ holder' = NoThread
  /\ UNCHANGED <<log, outbox, view, replays>>

\* (mutant) only the catalog is subscribed
StoreNotifyCatalog(t) ==
  /\ outbox[t] # <<>>
  /\ view' = ApplyCatalog(view, log[Head(outbox[t])])
  /\ outbox' = [outbox EXCEPT ![t] = Tail(@)]
  /\ UNCHANGED <<log, holder, replays>>

\* _notify for the next event of this thread, outside the lock.
StoreNotify(t) ==
  /\ outbox[t] # <<>>
  /\ view' = Apply(view, log[Head(outbox[t])])
  /\ outbox' = [outbox EXCEPT ![t] = Tail(@)]
  /\ UNCHANGED <<log, holder, replays>>

StoreInit ==
  /\ log = <<>>
  /\ holder = NoThread
  /\ outbox = [t \in Threads |-> <<>>]
  /\ view = EmptyView
  /\ replays = <<EmptyView>>

\* The process dies: memory is gone, committed rows stay.
StoreCrash ==
  /\ holder' = NoThread
  /\ outbox' = [t \in Threads |-> <<>>]
  /\ view' = EmptyView
  /\ UNCHANGED <<log, replays>>

StoreTypeOK ==
  /\ log \in Seq(Event)
  /\ holder \in Threads \cup {NoThread}
  /\ outbox \in [Threads -> Seq(1 .. Len(log))]
  /\ view \in View
  /\ replays \in Seq(View) /\ Len(replays) = Len(log) + 1
=============================================================================
