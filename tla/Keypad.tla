------------------------------- MODULE Keypad -------------------------------
(***************************************************************************)
(* The Pico keypad beside the API: the bridge's pusher thread polls a        *)
(* snapshot and writes it to the serial port when it changed, its reader     *)
(* thread posts the keys, both open and close the port, and the      *)
(* firmware boots, says hello, takes lines and paints.                      *)
(*                                                                         *)
(* The API is its snapshot, which others change: build_snapshot reads the    *)
(* catalog first and the rest later.  `last' is read and written by both     *)
(* threads without a lock, a step is one of its accesses.  Opening the port  *)
(* and writing to it are one step of the pusher.  The keys pressed, which    *)
(* share only the reader thread with all this, are in Desk.                  *)
(***************************************************************************)
EXTENDS Payload

CONSTANTS
  Catalog,      (* the items taught, in the order of list_items *)
  Active,       (* the active item *)
  MaxChanges,   (* bound: changes of the snapshot *)
  MaxFaults,    (* bound: unplugs, resets, failed writes, fetches and posts *)
  Nothing       (* no line, no snapshot, nothing pushed *)

Items == {Catalog[k] : k \in DOMAIN Catalog}

ASSUME KeypadAssumption == Fruits \subseteq Items

VARIABLES
  api,       (* the snapshot's sources, and how often they changed *)
  activity,  (* the count changes of the last 2.5 seconds, newest first *)
  pusher,    (* what the pusher thread is in the middle of *)
  last,      (* _last_state_pushed *)
  port,      (* self._serial: "none", "open", or "dead" (unplugged behind it) *)
  plugged, booted,
  tohost,    (* hellos not yet read *)
  topico,    (* the line written and not yet applied *)
  torn,      (* the firmware's input ends in half a line *)
  shown,     (* the firmware's state, whether one was pushed, and the flashes running *)
  faults,
  overlooked,  (* history: `last' was reset while a push was under way *)
  forgotten,   (* history: the end of that push overwrote the reset *)
  garbled      (* history: the last line was half of one and all of another *)

bridgeVars == <<pusher, last, port, overlooked, forgotten>>
padVars    == <<plugged, booted, tohost, topico, torn, shown, garbled>>
vars == <<api, activity, bridgeVars, padVars, faults>>

Waiting == [step |-> "wait"]
Default == [state |-> DefaultState, pushed |-> FALSE, flashes |-> <<>>]
Garbage == [state |-> Nothing]

Init ==
  /\ api = [count |-> [i \in Items |-> 0], open |-> FALSE, changes |-> 0]
  /\ activity = <<>>
  /\ pusher = Waiting /\ last = Nothing /\ port = "none"
  /\ plugged = TRUE /\ booted = FALSE /\ tohost = <<>> /\ topico = <<>> /\ torn = FALSE
  /\ shown = Default /\ faults = 0
  /\ overlooked = FALSE /\ forgotten = FALSE /\ garbled = FALSE

Fault == faults < MaxFaults /\ faults' = faults + 1

-----------------------------------------------------------------------------
(* The API and the shop behind it. *)

\* The camera, the customers and the operator at the kiosk.
Change ==
  /\ api.changes < MaxChanges
  /\ \/ \E i \in Items, n \in 0 .. 1 :
          /\ n # api.count[i]
          /\ api' = [api EXCEPT !.count[i] = n, !.changes = @ + 1]
          /\ activity' = <<[item |-> i, kind |-> IF n = 0 THEN "out" ELSE "restocked", fresh |-> TRUE]>> \o activity
     \/ api' = [api EXCEPT !.open = ~@, !.changes = @ + 1] /\ UNCHANGED activity
  /\ UNCHANGED <<bridgeVars, padVars, faults>>

\* 2.5 seconds later.
GrowOld ==
  /\ activity # <<>>
  /\ activity' = Front(activity)
  /\ UNCHANGED <<api, bridgeVars, padVars, faults>>

-----------------------------------------------------------------------------
(* The pusher thread. *)

\* build_snapshot starts with the catalog, in list_items order...
FetchCatalog ==
  /\ pusher = Waiting
  /\ pusher' = [step |-> "fetch",
                catalog |-> [k \in DOMAIN Catalog |-> [item |-> Catalog[k], count |-> api.count[Catalog[k]]]]]
  /\ UNCHANGED <<api, activity, last, port, overlooked, forgotten, padVars, faults>>

\* ... and what its orders and the rest are is read later.
FetchState ==
  /\ pusher.step = "fetch"
  /\ pusher' = [step |-> "state",
                state |-> ApiStateToPayload(
                  Snapshot(pusher.catalog, Active, {}, api.open, FALSE))]
  /\ UNCHANGED <<api, activity, last, port, overlooked, forgotten, padVars, faults>>

FetchFails ==
  /\ pusher.step = "fetch" /\ Fault
  /\ pusher' = Waiting
  /\ UNCHANGED <<api, activity, last, port, overlooked, forgotten, padVars>>

Wire(entries) == [state |-> pusher.state, flashes |-> BuildFlashes(entries)]

\* A wire that flashes is always pushed, any other if it is not the last.
Decide(wire) ==
  /\ pusher.step = "state"
  /\ pusher' = IF wire.flashes # <<>> \/ wire # last
               THEN [step |-> "write", wire |-> wire] ELSE Waiting
  /\ overlooked' = FALSE

\* fetch_vision_activity, and the decision to push.
Compare ==
  /\ Decide(Wire(activity))
  /\ UNCHANGED <<api, activity, last, port, forgotten, padVars, faults>>

\* No activity: the state is pushed without flashes.
ActivityFails ==
  /\ activity # <<>> /\ Decide(Wire(<<>>)) /\ Fault
  /\ UNCHANGED <<api, activity, last, port, forgotten, padVars>>

\* Half a line in front of it makes a line unreadable.
Line == IF torn THEN Garbage ELSE pusher.wire

CanOpen == port = "open" \/ (port = "none" /\ plugged)

\* _push_to_pico: the firmware has room for the line, before it runs or after.
Write ==
  /\ pusher.step = "write" /\ CanOpen /\ topico = <<>>
  /\ port' = "open" /\ last' = IF port = "none" THEN Nothing ELSE last
  /\ topico' = <<Line>> /\ torn' = FALSE
  /\ pusher' = [pusher EXCEPT !.step = "record"]
  /\ UNCHANGED <<api, activity, overlooked, forgotten,
                 plugged, booted, tohost, shown, garbled, faults>>

\* The write times out, perhaps after half a line, and the port is closed.
WriteFails ==
  /\ pusher.step = "write" /\ CanOpen /\ Fault
  /\ port' = "none" /\ last' = IF port = "none" THEN Nothing ELSE last
  /\ torn' \in {torn, TRUE}
  /\ pusher' = [pusher EXCEPT !.step = "record"]
  /\ UNCHANGED <<api, activity, overlooked, forgotten,
                 plugged, booted, tohost, topico, shown, garbled>>

\* Nothing to write to, or a device that is gone.
WriteNowhere ==
  /\ pusher.step = "write" /\ ~CanOpen
  /\ port' = "none"
  /\ pusher' = [pusher EXCEPT !.step = "record"]
  /\ UNCHANGED <<api, activity, last, overlooked, forgotten, padVars, faults>>

\* The wire counts as pushed, whatever became of it.
Record ==
  /\ pusher.step = "record"
  /\ last' = pusher.wire
  /\ pusher' = Waiting
  /\ forgotten' = overlooked
  /\ UNCHANGED <<api, activity, port, overlooked, padVars, faults>>

-----------------------------------------------------------------------------
(* The reader thread. *)

MidPush == pusher.step \in {"write", "record"}

ResetLast ==
  /\ last' = Nothing
  /\ overlooked' = (overlooked \/ MidPush)
  /\ forgotten' = (forgotten /\ MidPush)

OpenKeepsLast ==   \* (mutant) a fresh port is not painted anew
  /\ port = "none" /\ plugged
  /\ port' = "open"
  /\ UNCHANGED <<api, activity, last, pusher, overlooked, forgotten, padVars, faults>>

\* _ensure_serial.
Open ==
  /\ port = "none" /\ plugged
  /\ port' = "open" /\ ResetLast
  /\ UNCHANGED <<api, activity, pusher, padVars, faults>>

\* A read of a device that is gone fails.
ReadFails ==
  /\ port = "dead"
  /\ port' = "none"
  /\ UNCHANGED <<api, activity, pusher, last, overlooked, forgotten, padVars, faults>>

\* The line that is next, if there is one.
Heard == port = "open" /\ tohost # <<>> /\ tohost' = Tail(tohost)

HandleHello ==
  /\ Heard
  /\ ResetLast
  /\ UNCHANGED <<api, activity, pusher, port,
                 plugged, booted, topico, torn, shown, garbled, faults>>

-----------------------------------------------------------------------------
(* The firmware and its cable. *)

\* Power is gone: what was on the way is lost, and the port is dead.
Unplug ==
  /\ plugged /\ Fault
  /\ plugged' = FALSE /\ booted' = FALSE /\ shown' = Default
  /\ tohost' = <<>> /\ topico' = <<>> /\ torn' = FALSE /\ garbled' = FALSE
  /\ port' = IF port = "open" THEN "dead" ELSE port
  /\ UNCHANGED <<api, activity, pusher, last, overlooked, forgotten>>

Plug ==
  /\ ~plugged /\ plugged' = TRUE
  /\ UNCHANGED <<api, activity, bridgeVars, booted, tohost, topico, torn, shown, garbled, faults>>

\* The program starts again under an open port; what waited in its input is lost.
Reset ==
  /\ booted /\ Fault
  /\ booted' = FALSE /\ shown' = Default
  /\ topico' = <<>> /\ torn' = FALSE /\ garbled' = FALSE
  /\ UNCHANGED <<api, activity, bridgeVars, plugged, tohost>>

\* Lines for a host that has not opened the port may be lost.
Say ==
  \/ tohost' = Append(tohost, "hello")
  \/ port # "open" /\ tohost' = tohost

\* emit_hello; what arrived before may be there or not.
Boot ==
  /\ plugged /\ ~booted
  /\ booted' = TRUE /\ Say
  /\ topico' \in {topico, <<>>}
  /\ UNCHANGED <<api, activity, bridgeVars, plugged, torn, shown, garbled, faults>>

\* The flashes of a line are over before those of a later one are: pushes are a
\* second apart, a flash lasts between 0.5 and 1.2.
Running(line) == IF line.flashes # <<>> THEN line.flashes ELSE shown.flashes

\* read_host_line and apply_host_payload: a line replaces the whole state, one that
\* cannot be parsed only leaves an error message.
ApplyHostPayload ==
  LET line == Head(topico) IN
  /\ booted /\ topico # <<>>
  /\ topico' = <<>>
  /\ \/ line = Garbage /\ garbled' = TRUE /\ UNCHANGED shown
     \/ /\ line # Garbage /\ garbled' = FALSE
        /\ shown' = [state |-> line.state, pushed |-> TRUE, flashes |-> Running(line)]
  /\ UNCHANGED <<api, activity, bridgeVars, plugged, booted, tohost, torn, faults>>

\* Its deadline passes, in no particular order.
FlashEnds ==
  /\ \E n \in DOMAIN shown.flashes : shown' = [shown EXCEPT !.flashes = RemoveAt(@, n)]
  /\ UNCHANGED <<api, activity, bridgeVars, plugged, booted, tohost, topico, torn, garbled, faults>>

-----------------------------------------------------------------------------
PushLoop == FetchCatalog \/ FetchState \/ FetchFails \/ Compare \/ ActivityFails
            \/ Write \/ WriteFails \/ WriteNowhere \/ Record

ReadLoop == Open \/ ReadFails \/ HandleHello

Next == \/ Change \/ GrowOld \/ PushLoop \/ ReadLoop
        \/ Unplug \/ Plug \/ Reset \/ Boot \/ ApplyHostPayload \/ FlashEnds

Spec == Init /\ [][Next]_vars

\* Both threads, the firmware's loop and the API run on, and changes grow old
\* and flashes end.
FairSpec == Spec /\ WF_vars(PushLoop) /\ WF_vars(ReadLoop) /\ WF_vars(GrowOld)
                 /\ WF_vars(Boot) /\ WF_vars(ApplyHostPayload) /\ WF_vars(FlashEnds)
=============================================================================
