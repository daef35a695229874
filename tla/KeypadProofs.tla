---------------------------- MODULE KeypadProofs ----------------------------
(***************************************************************************)
(* The keypad, for any fruits and catalog and any number of changes and       *)
(* faults: what it flashes is what changed last, and what the bridge          *)
(* believes it pushed is what the keypad shows.                             *)
(***************************************************************************)
EXTENDS KeypadProperties, SetLemmas

-----------------------------------------------------------------------------
(* The loop that builds the flashes. *)

CountChange == [item : Items, kind : {"out", "restocked"}, fresh : {TRUE}]
Flash == [item : Fruits, kind : FlashKinds]

Flashes(fl, f) == \E n \in DOMAIN fl : fl[n].item = f

\* One round.
Flashed(fl, e) ==
  IF Flashable(e) /\ \A n \in DOMAIN fl : fl[n].item # e.item
  THEN Append(fl, [item |-> e.item, kind |-> e.kind]) ELSE fl

LEMMA ChangesFlash ==
  ASSUME NEW e \in CountChange
  PROVE  /\ Flashable(e) <=> e.item \in Fruits
         /\ e.item \in Fruits => [item |-> e.item, kind |-> e.kind] \in Flash
BY DEF CountChange, Flashable, Flash, FlashKinds

\* The m-th flash list is of the m newest changes.
FlashedUpTo(changes, m, fl) ==
  /\ fl \in Seq(Flash)
  /\ \A k \in 1 .. m : changes[k].item \in Fruits => Flashes(fl, changes[k].item)
  /\ \A n \in DOMAIN fl : \E k \in 1 .. m :
       /\ fl[n].item = changes[k].item /\ fl[n].kind = changes[k].kind
       /\ \A j \in 1 .. k - 1 : changes[j].item # fl[n].item

\* A round that comes to a change of a fruit which flashes already, or of no fruit
\* of the keypad, adds nothing; any other adds the newest change of its fruit.
LEMMA RoundFlashes ==
  ASSUME NEW changes \in Seq(CountChange), NEW m \in 1 .. Len(changes), NEW fl,
         FlashedUpTo(changes, m - 1, fl)
  PROVE  FlashedUpTo(changes, m, Flashed(fl, changes[m]))
<1> DEFINE e == changes[m]
           new == [item |-> e.item, kind |-> e.kind]
<1>1. e \in CountChange /\ m \in Nat /\ m - 1 \in Nat
  OBVIOUS
<1>2. fl \in Seq(Flash)
  BY DEF FlashedUpTo
<1>3. \A k \in 1 .. m : k = m \/ k \in 1 .. m - 1
  BY <1>1
<1>4. 1 .. m - 1 \subseteq 1 .. m /\ m \in 1 .. m
  BY <1>1
<1>5. CASE Flashable(e) /\ ~Flashes(fl, e.item)
  <2>1. Flashed(fl, e) = Append(fl, new)
    BY <1>5 DEF Flashed, Flashes
  <2>2. new \in Flash /\ e.item \in Fruits
    BY <1>1, <1>5, ChangesFlash
  <2> DEFINE gl == Append(fl, new)
  <2>3. /\ gl \in Seq(Flash) /\ DOMAIN gl = DOMAIN fl \cup {Len(fl) + 1}
        /\ gl[Len(fl) + 1] = new /\ \A n \in DOMAIN fl : gl[n] = fl[n]
    BY <1>2, <2>2
  <2>4. \A k \in 1 .. m - 1 : changes[k].item # e.item
    BY <1>5, <2>2 DEF FlashedUpTo
  <2> HIDE DEF gl
  <2>5. ASSUME NEW k \in 1 .. m, changes[k].item \in Fruits PROVE Flashes(gl, changes[k].item)
    <3>1. CASE k = m
      BY <2>3, <3>1 DEF Flashes
    <3>2. CASE k \in 1 .. m - 1
      <4>1. Flashes(fl, changes[k].item)
        BY <2>5, <3>2 DEF FlashedUpTo
      <4>2. QED
        BY <2>3, <4>1 DEF Flashes
    <3>3. QED
      BY <1>3, <3>1, <3>2
  <2>6. ASSUME NEW n \in DOMAIN gl
        PROVE  \E k \in 1 .. m :
                 /\ gl[n].item = changes[k].item /\ gl[n].kind = changes[k].kind
                 /\ \A j \in 1 .. k - 1 : changes[j].item # gl[n].item
    <3>1. CASE n \in DOMAIN fl
      <4>1. PICK k \in 1 .. m - 1 :
              /\ fl[n].item = changes[k].item /\ fl[n].kind = changes[k].kind
              /\ \A j \in 1 .. k - 1 : changes[j].item # fl[n].item
        BY <3>1 DEF FlashedUpTo
      <4>2. gl[n] = fl[n] /\ k \in 1 .. m
        BY <1>4, <2>3, <3>1
      <4>3. QED
        BY <4>1, <4>2
    <3>2. CASE n = Len(fl) + 1
      <4>1. gl[n].item = e.item /\ gl[n].kind = e.kind
        BY <2>3, <3>2
      <4>2. QED
        BY <1>4, <2>4, <4>1
    <3>3. QED
      BY <2>3, <3>1, <3>2
  <2>7. QED
    BY <2>1, <2>3, <2>5, <2>6 DEF FlashedUpTo, gl
<1>6. CASE ~(Flashable(e) /\ ~Flashes(fl, e.item))
  <2>1. Flashed(fl, e) = fl
    BY <1>6 DEF Flashed, Flashes
  <2>2. e.item \in Fruits => Flashes(fl, e.item)
    BY <1>1, <1>6, ChangesFlash
  <2>3. \A k \in 1 .. m : changes[k].item \in Fruits => Flashes(fl, changes[k].item)
    BY <1>3, <2>2 DEF FlashedUpTo
  <2>4. \A n \in DOMAIN fl : \E k \in 1 .. m :
          /\ fl[n].item = changes[k].item /\ fl[n].kind = changes[k].kind
          /\ \A j \in 1 .. k - 1 : changes[j].item # fl[n].item
    BY <1>4 DEF FlashedUpTo
  <2>5. QED
    BY <1>2, <2>1, <2>3, <2>4 DEF FlashedUpTo
<1>7. QED
  BY <1>5, <1>6

LEMMA BuildFlashesRounds ==
  ASSUME NEW changes \in Seq(CountChange)
  PROVE  FlashedUpTo(changes, Len(changes), BuildFlashes(changes))
<1> DEFINE n == Len(changes)
           Acc == Seq(Flash)
           step == [p \in (1 .. n) \X Acc |-> Flashed(p[2], changes[p[1]])]
           Folds(g) == g = [t \in SUBSET DOMAIN changes |->
                              IF t = {} THEN <<>> ELSE Flashed(g[t \ {Max(t)}], changes[Max(t)])]
           iter == CHOOSE g : Folds(g)
<1>1. DOMAIN changes = 1 .. n /\ n \in Nat
  OBVIOUS
<1>2. BuildFlashes(changes) = iter[DOMAIN changes]
  BY DEF BuildFlashes, FoldLeft, MapThenFoldSet, Flashed
<1>3. ASSUME NEW i \in 1 .. n, NEW fl \in Acc PROVE Flashed(fl, changes[i]) \in Acc
  <2>1. changes[i] \in CountChange
    BY <1>1
  <2>2. Flashable(changes[i]) => [item |-> changes[i].item, kind |-> changes[i].kind] \in Flash
    BY <2>1, ChangesFlash
  <2> HIDE DEF n
  <2>3. QED
    BY <2>2 DEF Flashed
<1>4. step \in [(1 .. n) \X Acc -> Acc]
  BY <1>3
<1>5. PICK g \in [SUBSET (1 .. n) -> Acc] : Loop(step, <<>>, 1 .. n, g)
  <2>1. <<>> \in Acc
    OBVIOUS
  <2> HIDE DEF step, Acc
  <2>2. QED
    BY <1>1, <1>4, <2>1, LoopTyped
<1>6. Folds(g)
  <2>1. ASSUME NEW t \in SUBSET (1 .. n), t # {}
        PROVE  g[t] = Flashed(g[t \ {Max(t)}], changes[Max(t)])
    <3>1. Max(t) \in t
      BY <1>1, <2>1, MaxIsMember
    <3>2. g[t] = step[<<Max(t), g[t \ {Max(t)}]>>]
      BY <1>5, <2>1 DEF Loop
    <3>3. Max(t) \in 1 .. n /\ g[t \ {Max(t)}] \in Acc
      BY <3>1
    <3> HIDE DEF Acc
    <3>4. QED
      BY <3>2, <3>3
  <2>2. g = [t \in SUBSET (1 .. n) |-> g[t]] /\ g[{}] = <<>>
    BY <1>5 DEF Loop
  <2> HIDE DEF n, step
  <2>3. QED
    BY <1>1, <2>1, <2>2
<1>7. Folds(iter)
  BY <1>6
<1> DEFINE G == {m \in 0 .. n : FlashedUpTo(changes, m, iter[1 .. m])}
<1>8. 0 \in G
  <2> HIDE DEF iter
  <2>1. iter[{}] = <<>> /\ 1 .. 0 = {}
    BY <1>7
  <2>2. FlashedUpTo(changes, 0, <<>>)
    BY <2>1 DEF FlashedUpTo
  <2>3. QED
    BY <1>1, <2>1, <2>2
<1>9. ASSUME NEW m \in 1 .. n, m - 1 \in G PROVE m \in G
  <2>1. Max(1 .. m) = m /\ (1 .. m) \ {m} = 1 .. m - 1 /\ 1 .. m # {}
    BY LastOfRound
  <2>2. 1 .. m \in SUBSET DOMAIN changes /\ m \in 0 .. n
    BY <1>1
  <2> HIDE DEF iter
  <2>3. \A t \in SUBSET DOMAIN changes :
          t # {} => iter[t] = Flashed(iter[t \ {Max(t)}], changes[Max(t)])
    BY <1>7
  <2>4. iter[1 .. m] = Flashed(iter[(1 .. m) \ {Max(1 .. m)}], changes[Max(1 .. m)])
    BY <2>1, <2>2, <2>3
  <2>5. iter[1 .. m] = Flashed(iter[1 .. m - 1], changes[m])
    BY <2>1, <2>4
  <2>6. FlashedUpTo(changes, m - 1, iter[1 .. m - 1])
    BY <1>9
  <2>7. FlashedUpTo(changes, m, iter[1 .. m])
    BY <2>5, <2>6, RoundFlashes
  <2>8. QED
    BY <2>2, <2>7
<1>10. n \in G
  <2> HIDE DEF G, n
  <2>1. \A m \in 0 .. n : m \in G
    BY <1>1, <1>8, <1>9, EveryRound
  <2>2. QED
    BY <1>1, <2>1
<1>11. QED
  <2> HIDE DEF iter
  <2>1. FlashedUpTo(changes, n, iter[1 .. n])
    BY <1>10
  <2>2. QED
    BY <1>1, <1>2, <2>1

-----------------------------------------------------------------------------
(* The parts of the invariant. *)

\* The shape of what the steps take apart.
KeypadOK ==
  /\ activity \in Seq(CountChange)
  /\ tohost \in Seq({"hello"})
  /\ pusher.step = "write" => pusher = [step |-> "write", wire |-> pusher.wire]
  /\ shown = [state |-> shown.state, pushed |-> shown.pushed, flashes |-> shown.flashes]

\* What the bridge will believe it told the keypad once it has recorded the push that
\* is under way, and whether a reset will have been lost then.
Said == IF pusher.step = "record" THEN pusher.wire ELSE last
Lost == IF pusher.step = "record" THEN overlooked ELSE forgotten

\* The bridge is going to push again in any case: it opens the port, or hears a hello.
WillRepeat == port # "open" \/ ~booted \/ tohost # <<>>

Spoilt == IF topico = <<>> THEN garbled ELSE Head(topico) = Garbage

\* The keypad shows a state, or will when it has read the line that waits for it.
Told(state) ==
  IF topico = <<>> THEN shown.pushed /\ shown.state = state ELSE Head(topico).state = state

SaidIsTold == Said # Nothing => Lost \/ WillRepeat \/ Spoilt \/ Told(Said.state)

IInv == KeypadOK /\ SaidIsTold

\* Between two pushes, when nothing is on the wire: what the bridge takes for the last
\* push is what the keypad shows, unless the push before forgot a reset, or its line
\* was spoilt (pico_bridge.py _push_loop and _push_to_pico, which skip a wire that
\* equals the last: a wrong belief would leave an old picture for good).
AtRest == /\ pusher.step # "record" /\ port = "open" /\ booted
          /\ tohost = <<>> /\ topico = <<>>

BelievedIsShown ==
  AtRest /\ last # Nothing /\ ~forgotten /\ ~garbled => shown.pushed /\ shown.state = last.state

-----------------------------------------------------------------------------
(* The flashes. *)

LEMMA FlashesFollow == KeypadOK => FlashOfNewest
<1> SUFFICES ASSUME KeypadOK
             PROVE  FlashOfNewest
  OBVIOUS
<1> DEFINE fl == BuildFlashes(activity)
<1>1. activity \in Seq(CountChange) /\ DOMAIN activity = 1 .. Len(activity)
  BY DEF KeypadOK
<1>2. FlashedUpTo(activity, Len(activity), fl)
  BY <1>1, BuildFlashesRounds
<1> HIDE DEF fl
<1>3. /\ \A k \in DOMAIN activity : activity[k].item \in Fruits =>
           \E n \in DOMAIN fl : fl[n].item = activity[k].item
      /\ \A n \in DOMAIN fl : \E k \in DOMAIN activity :
           /\ fl[n].item = activity[k].item /\ fl[n].kind = activity[k].kind
           /\ \A j \in 1 .. k - 1 : activity[j].item # fl[n].item
  BY <1>1, <1>2 DEF FlashedUpTo, Flashes
<1>4. QED
  BY <1>3 DEF FlashOfNewest, fl

LEMMA ActivityStep ==
  ASSUME activity \in Seq(CountChange), [Next]_vars
  PROVE  activity' \in Seq(CountChange)
<1>1. CASE Change
  <2>1. ASSUME NEW i \in Items, NEW n \in 0 .. 1,
               activity' = <<[item |-> i, kind |-> IF n = 0 THEN "out" ELSE "restocked", fresh |-> TRUE]>> \o activity
        PROVE  activity' \in Seq(CountChange)
    <3>1. [item |-> i, kind |-> IF n = 0 THEN "out" ELSE "restocked", fresh |-> TRUE] \in CountChange
      BY DEF CountChange
    <3>2. QED
      BY <2>1, <3>1
  <2>2. QED
    BY <1>1, <2>1 DEF Change
<1>2. CASE GrowOld
  BY <1>2 DEF GrowOld, Front
<1>3. CASE UNCHANGED activity
  BY <1>3
<1>4. QED
  BY <1>1, <1>2, <1>3 DEF Next, PushLoop, ReadLoop, vars, FetchCatalog, FetchState, FetchFails,
     Compare, ActivityFails, Write, WriteFails, WriteNowhere, Record, Open, ReadFails, HandleHello,
     Unplug, Plug, Reset, Boot, ApplyHostPayload, FlashEnds

LEMMA FetchNext ==
  ASSUME FetchCatalog \/ FetchState \/ FetchFails
  PROVE  pusher'.step \in {"fetch", "state", "wait"}
<1>1. CASE FetchCatalog
  BY <1>1 DEF FetchCatalog
<1>2. CASE FetchState
  <2>1. \E state : pusher' = [step |-> "state", state |-> state]
    BY <1>2 DEF FetchState
  <2>2. QED
    BY <2>1
<1>3. CASE FetchFails
  BY <1>3 DEF FetchFails, Waiting
<1>4. QED
  BY <1>1, <1>2, <1>3

LEMMA ShapeStep ==
  ASSUME KeypadOK, [Next]_vars
  PROVE  KeypadOK'
<1>1. activity' \in Seq(CountChange)
  BY ActivityStep DEF KeypadOK
<1>2. tohost' \in Seq({"hello"})
  <2>1. CASE Boot
    BY <2>1 DEF Boot, Say, KeypadOK
  <2>2. CASE HandleHello
    BY <2>2 DEF HandleHello, Heard, KeypadOK
  <2>3. CASE Unplug
    BY <2>3 DEF Unplug
  <2>4. CASE UNCHANGED tohost
    BY <2>4 DEF KeypadOK
  <2>5. QED
    BY <2>1, <2>2, <2>3, <2>4 DEF Next, PushLoop, ReadLoop, vars, padVars, Change, GrowOld,
       FetchCatalog, FetchState, FetchFails, Compare, ActivityFails, Write, WriteFails,
       WriteNowhere, Record, Open, ReadFails, Plug, Reset, ApplyHostPayload, FlashEnds
<1>3. pusher'.step = "write" => pusher' = [step |-> "write", wire |-> pusher'.wire]
  <2>1. CASE FetchCatalog \/ FetchState \/ FetchFails \/ Record
    <3>1. pusher'.step # "write"
      BY <2>1, FetchNext DEF Record, Waiting
    <3>2. QED
      BY <3>1
  <2>2. CASE Compare \/ ActivityFails
    BY <2>2 DEF Compare, ActivityFails, Decide, Waiting
  <2>3. CASE Write \/ WriteFails \/ WriteNowhere
    BY <2>3 DEF Write, WriteFails, WriteNowhere, KeypadOK
  <2>4. CASE UNCHANGED pusher
    BY <2>4 DEF KeypadOK
  <2>5. QED
    BY <2>1, <2>2, <2>3, <2>4 DEF Next, PushLoop, ReadLoop, vars, bridgeVars, Change, GrowOld,
       Open, ReadFails, HandleHello, Unplug, Plug, Reset, Boot, ApplyHostPayload, FlashEnds
<1>4. shown' = [state |-> shown'.state, pushed |-> shown'.pushed, flashes |-> shown'.flashes]
  <2>1. CASE Unplug \/ Reset
    BY <2>1 DEF Unplug, Reset, Default
  <2>2. CASE ApplyHostPayload
    BY <2>2 DEF ApplyHostPayload, KeypadOK
  <2>3. CASE FlashEnds
    BY <2>3 DEF FlashEnds, KeypadOK
  <2>4. CASE UNCHANGED shown
    BY <2>4 DEF KeypadOK
  <2>5. QED
    BY <2>1, <2>2, <2>3, <2>4 DEF Next, PushLoop, ReadLoop, vars, padVars, Change, GrowOld,
       FetchCatalog, FetchState, FetchFails, Compare, ActivityFails, Write, WriteFails,
       WriteNowhere, Record, Open, ReadFails, HandleHello, Plug, Boot
<1>5. QED
  BY <1>1, <1>2, <1>3, <1>4 DEF KeypadOK

-----------------------------------------------------------------------------
(* The bridge's belief. *)

LEMMA BeliefStep ==
  ASSUME KeypadOK, SaidIsTold, [Next]_vars
  PROVE  SaidIsTold'
<1> USE DEF SaidIsTold, Said, Lost, WillRepeat, Spoilt, Told
<1>1. CASE FetchCatalog \/ FetchState \/ FetchFails
  <2>1. pusher.step # "record" /\ UNCHANGED <<last, forgotten, port, padVars>>
    <3>1. FetchCatalog => pusher.step # "record"
      BY DEF FetchCatalog, Waiting
    <3>2. FetchState \/ FetchFails => pusher.step # "record"
      BY DEF FetchState, FetchFails
    <3>3. FetchCatalog \/ FetchState \/ FetchFails => UNCHANGED <<last, forgotten, port, padVars>>
      BY Zenon DEF FetchCatalog, FetchState, FetchFails
    <3>4. QED
      BY <1>1, <3>1, <3>2, <3>3
  <2>2. pusher'.step # "record"
    BY <1>1, FetchNext
  <2>3. QED
    BY <2>1, <2>2 DEF padVars
\* A push that is decided on changes neither what was said nor what was heard.
<1>2. CASE Compare \/ ActivityFails
  BY <1>2 DEF Compare, ActivityFails, Decide, Waiting, padVars
\* What is written is what is going to be recorded, or a line that is spoilt.
<1>3. CASE Write
  <2>1. pusher' = [step |-> "record", wire |-> pusher.wire]
    BY <1>3 DEF Write, KeypadOK
  <2>2. topico' # <<>> /\ (Head(topico') = Garbage \/ Head(topico') = pusher.wire)
    BY <1>3 DEF Write, Line
  <2>3. QED
    BY <1>3, <2>1, <2>2 DEF Garbage
\* A write that went nowhere is recorded with the port closed.
<1>4. CASE WriteFails \/ WriteNowhere
  BY <1>4 DEF WriteFails, WriteNowhere
<1>5. CASE Record
  BY <1>5 DEF Record, Waiting, padVars
\* A reset leaves nothing to believe, or is overlooked.
<1>6. ASSUME ResetLast, UNCHANGED pusher PROVE SaidIsTold'
  BY <1>6 DEF ResetLast, MidPush
<1>7. CASE Open \/ HandleHello
  BY <1>6, <1>7 DEF Open, HandleHello
<1>8. CASE ReadFails
  BY <1>8 DEF ReadFails
<1>9. CASE Unplug \/ Reset
  BY <1>9 DEF Unplug, Reset
<1>10. CASE Plug
  BY <1>10 DEF Plug, bridgeVars
\* A hello that is lost is lost to a port that is not open.
<1>11. CASE Boot
  <2>1. port' # "open" \/ tohost' # <<>>
    BY <1>11 DEF Boot, Say, bridgeVars, KeypadOK
  <2>2. QED
    BY <2>1
<1>12. CASE ApplyHostPayload
  BY <1>12 DEF ApplyHostPayload, bridgeVars
<1>13. CASE FlashEnds
  <2>1. shown'.state = shown.state /\ shown'.pushed = shown.pushed
    BY <1>13 DEF FlashEnds, KeypadOK
  <2>2. QED
    BY <1>13, <2>1 DEF FlashEnds, bridgeVars
<1>14. CASE Change \/ GrowOld \/ UNCHANGED vars
  <2>1. UNCHANGED <<bridgeVars, padVars>>
    BY <1>14 DEF Change, GrowOld, vars
  <2>2. QED
    BY <2>1 DEF bridgeVars, padVars
<1>15. QED
  BY <1>1, <1>2, <1>3, <1>4, <1>5, <1>7, <1>8, <1>9, <1>10, <1>11, <1>12, <1>13, <1>14
  DEF Next, PushLoop, ReadLoop

-----------------------------------------------------------------------------
(* The theorems. *)

LEMMA Start == Init => IInv
<1> SUFFICES ASSUME Init
             PROVE  IInv
  OBVIOUS
<1>1. KeypadOK
  BY DEF Init, KeypadOK, Waiting, Default
<1>2. Said = Nothing
  BY DEF Init, Said, Waiting
<1>3. QED
  BY <1>1, <1>2 DEF IInv, SaidIsTold

LEMMA Step == IInv /\ [Next]_vars => IInv'
BY ShapeStep, BeliefStep DEF IInv

LEMMA Invariance == Spec => []IInv
BY Start, Step, PTL DEF Spec

\* The operator sees one flash for every fruit whose count changed a moment ago, and
\* it is of the newest change (pico_bridge.py:267).
THEOREM FlashesAreNewest == Spec => []FlashOfNewest
<1>1. IInv => FlashOfNewest
  BY FlashesFollow DEF IInv
<1>2. QED
  BY <1>1, Invariance, PTL

\* The bridge skips no push on a false belief, but for the two ways that Repaints
\* names: a reset that a push under way overlooks, and a spoilt line.
THEOREM BeliefsAreTrue == Spec => []BelievedIsShown
<1>1. IInv => BelievedIsShown
  BY DEF IInv, SaidIsTold, Said, Lost, WillRepeat, Spoilt, Told, BelievedIsShown, AtRest
<1>2. QED
  BY <1>1, Invariance, PTL
=============================================================================
