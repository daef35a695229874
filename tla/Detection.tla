------------------------------ MODULE Detection ------------------------------
(***************************************************************************)
(* From a picture to counts: the model's weights, loaded once under its      *)
(* lock by the warm-up thread or by the first call that gets there, and the  *)
(* watcher's detect path, one call per class whose answer is parsed into     *)
(* boxes, cleared of twins, and cleared again across classes.                *)
(*                                                                         *)
(* A box is an interval: its rows are left out, so areas are lengths.  The   *)
(* text of an answer is the quartets found in it, in order and possibly      *)
(* inverted; an answer without any is "no" or garbage.                      *)
(***************************************************************************)
EXTENDS Naturals, Sequences, FiniteSets, SequencesExt

CONSTANTS
  Classes,     (* the nouns asked for, in catalog order *)
  Alphabet,    (* [Classes -> Nat], their alphabetical order *)
  Quartets,    (* the coordinates an answer may give for a box *)
  MaxBoxes,    (* bound: [Classes -> Nat], quartets in one answer *)
  MaxLoads     (* bound: attempts to load the weights *)

\* A coordinate is the four digits of a location token (_LOC_QUARTET_RE).
ASSUME DetectionAssumption ==
  /\ Quartets \subseteq Nat \X Nat
  /\ Classes \in Seq(DOMAIN Alphabet)
  /\ \A c \in DOMAIN Alphabet : Alphabet[c] \in Nat

VARIABLES
  warm,      (* the warm-up thread: "new", "loading" or "done" *)
  lock,      (* the model's lock: "free", "warmup" or "watcher" *)
  loaded,    (* the weights are in memory *)
  loads,     (* history: attempts to load, and how many succeeded *)
  asked,     (* the number of classes answered in this tick *)
  text,      (* quartets of the answer being generated *)
  boxes      (* detect_boxes per class; a class whose call raised has none *)

detVars == <<warm, lock, loaded, loads, asked, text, boxes>>

DetInit ==
  /\ warm = "new" /\ lock = "free" /\ loaded = FALSE
  /\ loads = [tried |-> 0, done |-> 0]
  /\ asked = 0 /\ text = <<>> /\ boxes = <<>>

-----------------------------------------------------------------------------
(* Boxes. *)

Min2(a, b) == IF a < b THEN a ELSE b
Max2(a, b) == IF a > b THEN a ELSE b
Less(a, b) == IF a > b THEN a - b ELSE 0

Area(b) == b[2] - b[1]
Inter(a, b) == Less(Min2(a[2], b[2]), Max2(a[1], b[1]))
Union(a, b) == Area(a) + Area(b) - Inter(a, b)

\* _iou compared with 0.5: nothing in common counts as 0, also for empty boxes.
IouAbove(a, b) == Inter(a, b) > 0 /\ 2 * Inter(a, b) > Union(a, b)

\* _box_iou, not less than 0.5.
IouAtLeast(a, b) == Inter(a, b) > 0 /\ 2 * Inter(a, b) >= Union(a, b)

\* Corners in the wrong order are swapped.
ParseBox(q) == <<Min2(q[1], q[2]), Max2(q[1], q[2])>>

ParseLocBoxes(quartets) == [k \in DOMAIN quartets |-> ParseBox(quartets[k])]

\* Largest first; equal areas keep their order.
GoesBefore(bs, j, k) == \/ Area(bs[j]) > Area(bs[k])
                        \/ Area(bs[j]) = Area(bs[k]) /\ j < k

Place(bs, k) == 1 + Cardinality({j \in DOMAIN bs : GoesBefore(bs, j, k)})

ByArea(bs) == [n \in DOMAIN bs |-> bs[CHOOSE k \in DOMAIN bs : Place(bs, k) = n]]

\* (mutant) each box is compared with the largest only
NmsLargest(bs) ==
  SelectSeq(ByArea(bs), LAMBDA b : b = ByArea(bs)[1] \/ ~IouAbove(b, ByArea(bs)[1]))

\* _nms: a box stays when it is not the twin of one kept before it.
Nms(bs) ==
  LET keep(kept, b) == IF \E k \in DOMAIN kept : IouAbove(b, kept[k])
                       THEN kept ELSE Append(kept, b)
  IN FoldLeft(keep, <<>>, ByArea(bs))

\* The boxes of all classes in one sequence, each with its class.
Flat(perClass) ==
  LET add(flat, of) ==
        flat \o [k \in DOMAIN of.boxes |-> [class |-> of.class, box |-> of.boxes[k]]]
  IN FoldLeft(add, <<>>, perClass)

\* (mutant) of two overlapping boxes the later loses
LaterLoses(a, b) == FALSE

\* a loses to b: smaller, or as large and later in the alphabet.
LosesTo(a, b) == \/ Area(a.box) < Area(b.box)
                 \/ Area(a.box) = Area(b.box) /\ Alphabet[a.class] > Alphabet[b.class]

\* The inner loop of _cross_class_nms for the i-th box: the rivals after it lose
\* up to the first that beats it.
Compare(flat, losers, i) ==
  LET rivals == {j \in i + 1 .. Len(flat) : /\ j \notin losers
                                            /\ flat[j].class # flat[i].class
                                            /\ IouAtLeast(flat[i].box, flat[j].box)}
      winners == {j \in rivals : LosesTo(flat[i], flat[j])}
  IN
  IF i \in losers THEN losers
  ELSE IF winners = {} THEN losers \cup rivals
  ELSE LET first == CHOOSE j \in winners : \A k \in winners : j <= k
       IN losers \cup {i} \cup {j \in rivals : j < first}

Losers(flat) ==
  LET step(losers, i) == Compare(flat, losers, i)
  IN FoldLeft(step, {}, [i \in DOMAIN flat |-> i])

Survivors(flat) == DOMAIN flat \ Losers(flat)

-----------------------------------------------------------------------------
(* The weights and the lock. *)

\* warmup_async starts a thread; the thread waits for the lock.
WarmupStarts ==
  /\ warm = "new" /\ lock = "free" /\ ~loaded /\ loads.tried < MaxLoads
  /\ warm' = "loading" /\ lock' = "warmup"
  /\ UNCHANGED <<loaded, loads, asked, text, boxes>>

\* It finds the weights there: a call of the watcher was faster.
WarmupIdle ==
  /\ warm = "new" /\ lock = "free" /\ loaded
  /\ warm' = "done"
  /\ UNCHANGED <<lock, loaded, loads, asked, text, boxes>>

\* _load_locked, with the lock; an exception is swallowed by the warm-up.
Load ==
  /\ loads.tried < MaxLoads
  /\ \E good \in BOOLEAN :
       /\ loaded' = good
       /\ loads' = [tried |-> loads.tried + 1, done |-> loads.done + IF good THEN 1 ELSE 0]

WarmupEnds ==
  /\ warm = "loading"
  /\ Load
  /\ warm' = "done" /\ lock' = "free"
  /\ UNCHANGED <<asked, text, boxes>>

\* (mutant) every call loads again
AskReloads ==
  /\ asked < Len(Classes) /\ lock = "free"
  /\ Load /\ loaded'
  /\ lock' = "watcher" /\ text' = <<>>
  /\ UNCHANGED <<warm, asked, boxes>>

\* detect_boxes on the executor: take the lock, load if nobody has.
Ask ==
  /\ asked < Len(Classes) /\ lock = "free"
  /\ IF loaded THEN UNCHANGED <<loaded, loads>> ELSE Load /\ loaded'
  /\ lock' = "watcher" /\ text' = <<>>
  /\ UNCHANGED <<warm, asked, boxes>>

\* The load raises: the class stays out of the batch.
AskFails ==
  /\ asked < Len(Classes) /\ lock = "free" /\ ~loaded
  /\ Load /\ ~loaded'
  /\ asked' = asked + 1
  /\ UNCHANGED <<warm, lock, text, boxes>>

-----------------------------------------------------------------------------
(* The answer. *)

Emit ==
  /\ lock = "watcher" /\ Len(text) < MaxBoxes[Classes[asked + 1]]
  /\ \E q \in Quartets : text' = Append(text, q)
  /\ UNCHANGED <<warm, lock, loaded, loads, asked, boxes>>

\* _detect_boxes_locked: no quartet and "no" is a count of zero.
Answer ==
  /\ lock = "watcher"
  /\ boxes' = Append(boxes, [class |-> Classes[asked + 1], boxes |-> Nms(ParseLocBoxes(text))])
  /\ asked' = asked + 1
  /\ lock' = "free"
  /\ text' = <<>>
  /\ UNCHANGED <<warm, loaded, loads>>

\* No quartet and anything else raises CountModelError.
Garbled ==
  /\ lock = "watcher" /\ text = <<>>
  /\ asked' = asked + 1
  /\ lock' = "free"
  /\ UNCHANGED <<warm, loaded, loads, text, boxes>>

\* All classes are answered: the tick goes on with len(boxes) per class.
CountOf(c) ==
  LET flat == Flat(boxes) IN Cardinality({k \in Survivors(flat) : flat[k].class = c})

Recount ==
  /\ asked = Len(Classes)
  /\ asked' = 0 /\ boxes' = <<>>
  /\ UNCHANGED <<warm, lock, loaded, loads, text>>

DetNext ==
  \/ WarmupStarts \/ WarmupIdle \/ WarmupEnds
  \/ Ask \/ AskFails \/ Emit \/ Answer \/ Garbled \/ Recount

DetFairness == WF_detVars(WarmupEnds) /\ WF_detVars(Answer \/ Garbled)
=============================================================================
