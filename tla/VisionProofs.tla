----------------------------- MODULE VisionProofs -----------------------------
(***************************************************************************)
(* Proofs about the vision watcher, for any catalog, any way the length of a *)
(* picture depends on it, and any number of moves, trades and faults.        *)
(***************************************************************************)
EXTENDS VisionProperties, FiniteSetTheorems, TLAPS

-----------------------------------------------------------------------------
(* The inductive invariant. *)

Ticks ==
  {Idle} \cup [at : {"age"}, picture : Pictures]
         \cup [at : {"read", "apply"}, picture : Pictures, batch : Seq(Counts \cup {Never})]

\* An item that is counted has one place in the batch.
CountedItems == {Counted[k] : k \in DOMAIN Counted}
Place(i) == CHOOSE k \in DOMAIN Counted : Counted[k] = i

TypesOK ==
  /\ shelf \in Pictures
  /\ cache \in [picture : Pictures \cup {Never}, stale : BOOLEAN]
  /\ window \in [Items -> Seq(Counts)] /\ truths \in [Items -> Seq(Counts)]
  /\ \A i \in Items : Len(window[i]) <= StabilityTicks /\ Len(truths[i]) = Len(window[i])
  /\ last \in [Items -> Counts \cup {Never}]
  /\ tick \in Ticks
  /\ tick.at \in {"read", "apply"} => Len(tick.batch) <= Len(Counted)
  /\ tick.at = "apply" => Len(tick.batch) = Len(Counted)
  /\ faults \in 0 .. MaxFaults
  /\ credit \in [Items -> Nat]

\* What the watcher has of an item, from the count it committed to the newest read,
\* to what the tick holds and to the streamer's picture.  Where there is nothing it
\* is as if there were what came before it.
Answered(i) == tick.at \in {"read", "apply"} /\ i \in CountedItems /\ Place(i) <= Len(tick.batch)

Newest(i) == IF window[i] = <<>> THEN last[i] ELSE window[i][Len(window[i])]

Held(i) ==
  IF tick = Idle THEN Newest(i)
  ELSE IF ~Answered(i) THEN tick.picture[i]
  ELSE IF tick.batch[Place(i)] = Never THEN Newest(i)
  ELSE tick.batch[Place(i)]

Cached(i) == IF cache.picture = Never THEN Held(i) ELSE cache.picture[i]

Differ(x, y) == IF x = y THEN 0 ELSE 1

\* Each change along that way has its cause in the credit.
CreditOK ==
  \A i \in Items :
    Differ(last[i], Newest(i)) + Differ(Newest(i), Held(i)) + Differ(Held(i), Cached(i))
      + Differ(Cached(i), shelf[i]) <= credit[i]

\* Where two sequences differ.
Differing(s, t) == {k \in DOMAIN s : s[k] # t[k]}

\* The misreads in the window of an item, and the one that is on its way there.
Misread(i) == Differing(window[i], truths[i])

Misled(i) ==
  Answered(i) /\ tick.batch[Place(i)] # Never /\ tick.batch[Place(i)] # tick.picture[i]

FaultsOK ==
  \A i \in Items : Cardinality(Misread(i)) + (IF Misled(i) THEN 1 ELSE 0) <= faults

IInv == TypesOK /\ CreditOK /\ FaultsOK

-----------------------------------------------------------------------------
(* The items that are counted, and the rolling buffer. *)

LEMMA ConstantsOK ==
  /\ StabilityTicks \in Nat /\ StabilityTicks > 0 /\ MaxItems \in Nat /\ MaxItems > 0
  /\ MaxFaults \in Nat /\ MaxCount \in Nat /\ Never \notin Counts /\ Never \notin Pictures
BY VisionAssumption

LEMMA CountedFacts ==
  /\ Len(Counted) \in Nat /\ DOMAIN Counted = 1 .. Len(Counted)
  /\ CountedItems \subseteq Items
  /\ \A k \in DOMAIN Counted : Counted[k] \in CountedItems /\ Place(Counted[k]) = k
  /\ \A i \in CountedItems : Place(i) \in DOMAIN Counted /\ Counted[Place(i)] = i
<1>1. /\ Catalog \in Seq(Items) /\ MaxItems \in Nat /\ MaxItems > 0
      /\ \A j, k \in DOMAIN Catalog : Catalog[j] = Catalog[k] => j = k
  BY VisionAssumption
<1> HIDE DEF Items
<1>2. /\ Counted \in Seq(Items) /\ Len(Counted) \in Nat /\ DOMAIN Counted = 1 .. Len(Counted)
      /\ Len(Counted) <= Len(Catalog) /\ DOMAIN Catalog = 1 .. Len(Catalog)
      /\ \A k \in DOMAIN Counted : Counted[k] = Catalog[k] /\ Counted[k] \in Items
  <2>1. CASE Len(Catalog) <= MaxItems
    BY <1>1, <2>1 DEF Counted
  <2>2. CASE Len(Catalog) > MaxItems
    <3>1. Counted = SubSeq(Catalog, 1, MaxItems)
      BY <1>1, <2>2 DEF Counted
    <3>2. QED
      BY <1>1, <2>2, <3>1
  <2>3. QED
    BY <1>1, <2>1, <2>2
<1>3. \A j, k \in DOMAIN Counted : Counted[j] = Counted[k] => j = k
  BY <1>1, <1>2
<1>4. QED
  BY <1>2, <1>3 DEF CountedItems, Place

LEMMA PushIs ==
  ASSUME NEW s \in Seq(Counts), NEW x \in Counts, Len(s) <= StabilityTicks
  PROVE  /\ Push(s, x) \in Seq(Counts) /\ Push(s, x) # <<>>
         /\ Len(Push(s, x)) <= StabilityTicks /\ Push(s, x)[Len(Push(s, x))] = x
         /\ \/ /\ Len(s) < StabilityTicks /\ Len(Push(s, x)) = Len(s) + 1
               /\ \A k \in 1 .. Len(s) : Push(s, x)[k] = s[k]
            \/ /\ Len(s) = StabilityTicks /\ Len(Push(s, x)) = Len(s)
               /\ \A k \in 1 .. Len(s) - 1 : Push(s, x)[k] = s[k + 1]
<1> HIDE DEF Counts
<1>1. StabilityTicks \in Nat /\ StabilityTicks > 0 /\ Len(s) \in Nat
  BY ConstantsOK
<1>2. CASE Len(s) < StabilityTicks
  <2>1. Push(s, x) = Append(s, x)
    BY <1>2 DEF Push
  <2>2. QED
    BY <1>1, <1>2, <2>1
<1>3. CASE Len(s) = StabilityTicks
  <2>1. Push(s, x) = Append(Tail(s), x)
    BY <1>1, <1>3 DEF Push
  <2>2. /\ Tail(s) \in Seq(Counts) /\ Len(Tail(s)) = StabilityTicks - 1
        /\ \A k \in 1 .. StabilityTicks - 1 : Tail(s)[k] = s[k + 1]
    <3>1. s # <<>>
      BY <1>1, <1>3
    <3>2. QED
      BY <1>1, <1>3, <3>1
  <2>3. QED
    BY <1>1, <1>3, <2>1, <2>2
<1>4. QED
  BY <1>1, <1>2, <1>3

\* On 1 .. m, u and v are s and t with one more at the end, maybe without the first.
Shifted(s, t, u, v, n, m) ==
  /\ n \in Nat /\ m \in Nat /\ DOMAIN s = 1 .. n /\ DOMAIN u = 1 .. m
  /\ \/ m = n + 1 /\ \A k \in 1 .. m - 1 : u[k] = s[k] /\ v[k] = t[k]
     \/ m = n /\ \A k \in 1 .. m - 1 : u[k] = s[k + 1] /\ v[k] = t[k + 1]

\* What is pushed out takes its misread with it, what is pushed in may be one.
LEMMA ShiftDiffers ==
  ASSUME NEW s, NEW t, NEW u, NEW v, NEW n, NEW m, Shifted(s, t, u, v, n, m)
  PROVE  /\ Cardinality(Differing(s, t)) \in Nat /\ Cardinality(Differing(u, v)) \in Nat
         /\ Cardinality(Differing(u, v)) <= Cardinality(Differing(s, t)) + Differ(u[m], v[m])
<1> USE DEF Shifted
<1>1. PICK D, E, old : D = Differing(s, t) /\ E = Differing(u, v) /\ old = E \ {m}
  OBVIOUS
<1>2. D \in SUBSET (1 .. n) /\ E \in SUBSET (1 .. m) /\ old \in SUBSET (1 .. m - 1) /\ old \in SUBSET E
  BY <1>1 DEF Differing
<1>3. IsFiniteSet(D) /\ IsFiniteSet(E) /\ IsFiniteSet(old)
  <2>1. IsFiniteSet(1 .. n) /\ IsFiniteSet(1 .. m)
    <3>1. 1 \in Int /\ n \in Int /\ m \in Int
      OBVIOUS
    <3>2. QED
      BY <3>1, FS_Interval
  <2>2. QED
    BY <1>2, <2>1, FS_Subset
<1>4. Cardinality(D) \in Nat /\ Cardinality(E) \in Nat /\ Cardinality(old) \in Nat
  BY <1>3, FS_CardinalityType
<1>5. Cardinality(old) <= Cardinality(D)
  <2>1. CASE m = n + 1 /\ \A k \in 1 .. m - 1 : u[k] = s[k] /\ v[k] = t[k]
    <3>1. old \in SUBSET D
      BY <1>1, <1>2, <2>1 DEF Differing
    <3>2. QED
      BY <1>3, <3>1, FS_Subset
  <2>2. CASE m = n /\ \A k \in 1 .. m - 1 : u[k] = s[k + 1] /\ v[k] = t[k + 1]
    <3>1. PICK f : f = [k \in old |-> k + 1]
      OBVIOUS
    <3>2. \A k \in old : k + 1 \in D
      BY <1>1, <1>2, <2>2 DEF Differing
    <3>3. \A j, k \in old : j + 1 = k + 1 => j = k
      BY <1>2
    <3>4. f \in Injection(old, D)
      BY <3>1, <3>2, <3>3 DEF Injection, IsInjective
    <3>5. QED
      BY <1>3, <3>4, FS_Injection
  <2>3. QED
    BY <2>1, <2>2
<1>6. Cardinality(E) <= Cardinality(old) + Differ(u[m], v[m])
  <2>1. CASE u[m] = v[m]
    <3>1. old = E
      BY <1>1, <2>1 DEF Differing
    <3>2. QED
      BY <1>4, <2>1, <3>1 DEF Differ
  <2>2. CASE u[m] # v[m]
    <3>1. E \in SUBSET (old \cup {m})
      BY <1>1
    <3>2. /\ IsFiniteSet(old \cup {m})
          /\ Cardinality(old \cup {m}) = IF m \in old THEN Cardinality(old) ELSE Cardinality(old) + 1
      BY <1>3, FS_AddElement
    <3>3. Cardinality(E) <= Cardinality(old \cup {m})
      BY <3>1, <3>2, FS_Subset
    <3>4. QED
      BY <1>4, <2>2, <3>2, <3>3 DEF Differ
  <2>3. QED
    BY <2>1, <2>2
<1>7. QED
  <2>1. PICK d \in Nat : d = Differ(u[m], v[m])
    BY DEF Differ
  <2>2. QED
    BY <1>1, <1>4, <1>5, <1>6, <2>1

LEMMA PushDiffers ==
  ASSUME NEW s \in Seq(Counts), NEW t \in Seq(Counts), Len(s) = Len(t), Len(s) <= StabilityTicks,
         NEW x \in Counts, NEW y \in Counts
  PROVE  /\ Cardinality(Differing(s, t)) \in Nat
         /\ Cardinality(Differing(Push(s, x), Push(t, y))) \in Nat
         /\ Cardinality(Differing(Push(s, x), Push(t, y)))
              <= Cardinality(Differing(s, t)) + Differ(x, y)
<1>1. PICK u, v : u = Push(s, x) /\ v = Push(t, y)
  OBVIOUS
<1>2. /\ u \in Seq(Counts) /\ u[Len(u)] = x
      /\ \/ /\ Len(s) < StabilityTicks /\ Len(u) = Len(s) + 1
            /\ \A k \in 1 .. Len(s) : u[k] = s[k]
         \/ /\ Len(s) = StabilityTicks /\ Len(u) = Len(s)
            /\ \A k \in 1 .. Len(s) - 1 : u[k] = s[k + 1]
  BY <1>1, PushIs
<1>3. /\ v \in Seq(Counts) /\ v[Len(v)] = y
      /\ \/ /\ Len(t) < StabilityTicks /\ Len(v) = Len(t) + 1
            /\ \A k \in 1 .. Len(t) : v[k] = t[k]
         \/ /\ Len(t) = StabilityTicks /\ Len(v) = Len(t)
            /\ \A k \in 1 .. Len(t) - 1 : v[k] = t[k + 1]
  BY <1>1, PushIs
<1>4. PICK n \in Nat, m \in Nat : n = Len(s) /\ m = Len(u)
  BY <1>2
<1>5. DOMAIN s = 1 .. n /\ DOMAIN u = 1 .. m /\ u[m] = x /\ v[m] = y
  BY <1>2, <1>3, <1>4, ConstantsOK
<1>6. \/ m = n + 1 /\ \A k \in 1 .. m - 1 : u[k] = s[k] /\ v[k] = t[k]
      \/ m = n /\ \A k \in 1 .. m - 1 : u[k] = s[k + 1] /\ v[k] = t[k + 1]
  BY <1>2, <1>3, <1>4, ConstantsOK
<1>7. Shifted(s, t, u, v, n, m)
  BY <1>4, <1>5, <1>6, Zenon DEF Shifted
<1>8. /\ Cardinality(Differing(s, t)) \in Nat /\ Cardinality(Differing(u, v)) \in Nat
      /\ Cardinality(Differing(u, v)) <= Cardinality(Differing(s, t)) + Differ(u[m], v[m])
  BY <1>7, ShiftDiffers
<1>9. QED
  BY <1>1, <1>5, <1>8, Zenon

-----------------------------------------------------------------------------
(* The steps around the tick. *)

LEMMA ItemFacts ==
  ASSUME TypesOK, NEW i \in Items
  PROVE  /\ window[i] \in Seq(Counts) /\ truths[i] \in Seq(Counts)
         /\ Len(window[i]) <= StabilityTicks /\ Len(truths[i]) = Len(window[i])
         /\ last[i] \in Counts \cup {Never} /\ credit[i] \in Nat /\ shelf[i] \in Counts
BY DEF TypesOK, Pictures

LEMMA MisreadFinite ==
  ASSUME TypesOK, NEW i \in Items
  PROVE  Cardinality(Misread(i)) \in Nat
<1>1. PICK s, t : s = window[i] /\ t = truths[i]
  OBVIOUS
<1>2. s \in Seq(Counts) /\ t \in Seq(Counts) /\ Len(s) = Len(t) /\ Len(s) <= StabilityTicks
  BY <1>1, ItemFacts
<1>3. 0 \in Counts
  BY ConstantsOK DEF Counts
<1>4. Cardinality(Differing(s, t)) \in Nat
  BY <1>2, <1>3, PushDiffers
<1>5. QED
  BY <1>1, <1>4 DEF Misread

LEMMA IdleIs ==
  ASSUME tick = Idle, NEW i
  PROVE  tick.at = "idle" /\ ~Answered(i) /\ ~Misled(i) /\ Held(i) = Newest(i)
BY DEF Idle, Answered, Misled, Held

\* Others write the inventory, time passes.
LEMMA QuietKeeps ==
  ASSUME IInv, UNCHANGED <<shelf, window, last, tick, truths, credit, faults>>,
         cache' \in [picture : Pictures \cup {Never}, stale : BOOLEAN],
         cache'.picture = cache.picture
  PROVE  IInv'
<1> USE DEF IInv
<1>1. TypesOK'
  BY DEF TypesOK
<1>2. ASSUME NEW i \in Items
      PROVE  /\ Newest(i)' = Newest(i) /\ Held(i)' = Held(i) /\ Cached(i)' = Cached(i)
             /\ Misread(i)' = Misread(i) /\ Misled(i)' = Misled(i)
  BY DEF Newest, Held, Answered, Cached, Misread, Misled
<1>3. CreditOK' /\ FaultsOK'
  BY <1>2 DEF CreditOK, FaultsOK
<1>4. QED
  BY <1>1, <1>3

\* A move is one cause more.
LEMMA MoveKeeps ==
  ASSUME IInv, NEW m \in Items, Move(m)
  PROVE  IInv'
<1> USE DEF IInv
<1>1. /\ shelf' \in Pictures /\ \A i \in Items : i # m => shelf'[i] = shelf[i]
      /\ credit' = [credit EXCEPT ![m] = @ + 1]
      /\ UNCHANGED <<window, last, tick, truths, cache, faults>>
  BY DEF Move, TypesOK, Pictures, watcherVars
<1>2. TypesOK'
  BY <1>1 DEF TypesOK
<1>3. ASSUME NEW i \in Items
      PROVE  /\ Newest(i)' = Newest(i) /\ Held(i)' = Held(i) /\ Cached(i)' = Cached(i)
             /\ Misread(i)' = Misread(i) /\ Misled(i)' = Misled(i)
  BY <1>1 DEF Newest, Held, Answered, Cached, Misread, Misled
<1>4. ASSUME NEW i \in Items
      PROVE  Differ(last[i], Newest(i))' + Differ(Newest(i), Held(i))' + Differ(Held(i), Cached(i))'
               + Differ(Cached(i), shelf[i])' <= credit'[i]
  <2>1. /\ Differ(last[i], Newest(i)) + Differ(Newest(i), Held(i)) + Differ(Held(i), Cached(i))
             + Differ(Cached(i), shelf[i]) <= credit[i]
        /\ credit[i] \in Nat
    BY ItemFacts DEF CreditOK
  <2>2. /\ last'[i] = last[i]
        /\ credit'[i] = IF i = m THEN credit[i] + 1 ELSE credit[i]
    BY <1>1 DEF TypesOK
  <2>3. QED
    BY <1>1, <1>3, <2>1, <2>2 DEF Differ
<1>5. CreditOK' /\ FaultsOK'
  BY <1>1, <1>3, <1>4 DEF CreditOK, FaultsOK
<1>6. QED
  BY <1>2, <1>5

\* A capture takes the shelf as it is.
LEMMA CaptureKeeps ==
  ASSUME IInv, Capture
  PROVE  IInv'
<1> USE DEF IInv
<1>1. /\ cache' = [picture |-> shelf, stale |-> FALSE] /\ shelf # Never
      /\ UNCHANGED <<shelf, window, last, tick, truths, credit, faults>>
  BY ConstantsOK DEF Capture, worldVars, watcherVars, TypesOK
<1>2. TypesOK'
  BY <1>1 DEF TypesOK
<1>3. ASSUME NEW i \in Items
      PROVE  /\ Newest(i)' = Newest(i) /\ Held(i)' = Held(i) /\ Cached(i)' = shelf[i]
             /\ Misread(i)' = Misread(i) /\ Misled(i)' = Misled(i)
  BY <1>1 DEF Newest, Held, Answered, Cached, Misread, Misled
<1>4. ASSUME NEW i \in Items
      PROVE  Differ(last[i], Newest(i))' + Differ(Newest(i), Held(i))' + Differ(Held(i), Cached(i))'
               + Differ(Cached(i), shelf[i])' <= credit'[i]
  <2>1. /\ Differ(last[i], Newest(i)) + Differ(Newest(i), Held(i)) + Differ(Held(i), Cached(i))
             + Differ(Cached(i), shelf[i]) <= credit[i]
        /\ credit[i] \in Nat
    BY ItemFacts DEF CreditOK
  <2>2. QED
    BY <1>1, <1>3, <2>1 DEF Differ
<1>5. CreditOK' /\ FaultsOK'
  BY <1>1, <1>3, <1>4 DEF CreditOK, FaultsOK
<1>6. QED
  BY <1>2, <1>5

\* Everything but the log is gone, and the death is one cause more.
LEMMA RestartKeeps ==
  ASSUME IInv, Restart
  PROVE  IInv'
<1> USE DEF IInv
<1>1. /\ faults < MaxFaults /\ faults' = faults + 1
      /\ cache' = [picture |-> Never, stale |-> FALSE]
      /\ window' = [i \in Items |-> <<>>] /\ truths' = [i \in Items |-> <<>>]
      /\ last' = [i \in Items |-> Never] /\ tick' = Idle
      /\ credit' = [i \in Items |-> credit[i] + 1] /\ UNCHANGED shelf
  BY DEF Restart, worldVars
<1>2. TypesOK'
  <2>1. faults' \in 0 .. MaxFaults /\ credit' \in [Items -> Nat] /\ tick' \in Ticks
    BY <1>1, ConstantsOK DEF TypesOK, Ticks
  <2>2. \A i \in Items : Len(window'[i]) <= StabilityTicks /\ Len(truths'[i]) = Len(window'[i])
    BY <1>1, ConstantsOK
  <2>3. tick'.at = "idle"
    BY <1>1 DEF Idle
  <2>4. QED
    BY <1>1, <2>1, <2>2, <2>3 DEF TypesOK
<1>3. ASSUME NEW i \in Items
      PROVE  /\ last'[i] = Never /\ Newest(i)' = Never /\ Held(i)' = Never /\ Cached(i)' = Never
             /\ Misread(i)' = {} /\ ~Misled(i)'
  BY <1>1 DEF Newest, Held, Cached, Misread, Differing, Misled, Answered, Idle
<1>4. ASSUME NEW i \in Items
      PROVE  Differ(last[i], Newest(i))' + Differ(Newest(i), Held(i))' + Differ(Held(i), Cached(i))'
               + Differ(Cached(i), shelf[i])' <= credit'[i]
  <2>1. credit'[i] = credit[i] + 1 /\ credit[i] \in Nat
    BY <1>1, ItemFacts
  <2>2. QED
    BY <1>3, <2>1 DEF Differ
<1>5. CreditOK' /\ FaultsOK'
  <2>1. faults' \in Nat
    BY <1>2 DEF TypesOK
  <2>2. Cardinality({}) = 0
    BY FS_EmptySet
  <2>3. ASSUME NEW i \in Items
        PROVE  Cardinality(Misread(i))' + (IF Misled(i)' THEN 1 ELSE 0) <= faults'
    <3>1. Cardinality(Misread(i)') = 0
      BY <1>3, <2>2
    <3>2. QED
      BY <1>3, <2>1, <3>1
  <2>4. QED
    BY <1>4, <2>3 DEF CreditOK, FaultsOK
<1>6. QED
  BY <1>2, <1>5

-----------------------------------------------------------------------------
(* The steps of the tick. *)

\* What a step says of one item, for the sums of the invariant.
CreditOf(i) ==
  Differ(last[i], Newest(i)) + Differ(Newest(i), Held(i)) + Differ(Held(i), Cached(i))
    + Differ(Cached(i), shelf[i]) <= credit[i]

FaultsOf(i) == Cardinality(Misread(i)) + (IF Misled(i) THEN 1 ELSE 0) <= faults

LEMMA OfItems ==
  /\ CreditOK <=> \A i \in Items : CreditOf(i)
  /\ FaultsOK <=> \A i \in Items : FaultsOf(i)
BY DEF CreditOK, FaultsOK, CreditOf, FaultsOf

\* The tick ends with nothing done.
LEMMA DropKeeps ==
  ASSUME IInv, tick' = Idle, UNCHANGED <<shelf, cache, window, last, truths, credit, faults>>
  PROVE  IInv'
<1> USE DEF IInv
<1>1. TypesOK'
  BY DEF TypesOK, Ticks, Idle
<1>2. ASSUME NEW i \in Items
      PROVE  CreditOf(i)' /\ FaultsOf(i)'
  <2>1. CreditOf(i) /\ FaultsOf(i) /\ credit[i] \in Nat /\ Cardinality(Misread(i)) \in Nat
        /\ faults \in Nat
    BY OfItems, ItemFacts, MisreadFinite DEF TypesOK
  <2>2. /\ Newest(i)' = Newest(i) /\ Held(i)' = Newest(i)
        /\ Cached(i)' = IF cache.picture = Never THEN Newest(i) ELSE Cached(i)
        /\ cache.picture = Never => Cached(i) = Held(i)
        /\ Misread(i)' = Misread(i) /\ ~Misled(i)'
    BY DEF Newest, Held, Cached, Misread, Misled, Answered, Idle
  <2>3. CreditOf(i)'
    BY <2>1, <2>2 DEF CreditOf, Differ
  <2>4. FaultsOf(i)'
    BY <2>1, <2>2 DEF FaultsOf
  <2>5. QED
    BY <2>3, <2>4
<1>3. CreditOK' /\ FaultsOK'
  BY <1>2 DEF CreditOK, FaultsOK, CreditOf, FaultsOf
<1>4. QED
  BY <1>1, <1>3

LEMMA FetchKeeps ==
  ASSUME IInv, FetchFrame
  PROVE  IInv'
<1> USE DEF IInv
<1>1. tick = Idle /\ UNCHANGED <<shelf, cache, window, last, truths, credit, faults>>
  BY DEF FetchFrame, watched, worldVars
<1>2. CASE tick' = Idle
  BY <1>1, <1>2, DropKeeps
<1>3. CASE cache.picture # Never /\ tick' = [at |-> "age", picture |-> cache.picture]
  <2>1. TypesOK'
    BY <1>1, <1>3 DEF TypesOK, Ticks
  <2>2. tick' # Idle /\ tick'.at = "age" /\ tick'.picture = cache.picture
    <3>1. Idle.at = "idle" /\ tick'.at = "age"
      BY <1>3 DEF Idle
    <3>2. QED
      BY <1>3, <3>1
  <2>3. ASSUME NEW i \in Items
        PROVE  CreditOf(i)' /\ FaultsOf(i)'
    <3>1. CreditOf(i) /\ FaultsOf(i) /\ credit[i] \in Nat /\ Held(i) = Newest(i) /\ ~Misled(i)
      BY <1>1, OfItems, ItemFacts, IdleIs
    <3>2. /\ Newest(i)' = Newest(i) /\ Held(i)' = Cached(i) /\ Cached(i)' = Cached(i)
          /\ Misread(i)' = Misread(i) /\ ~Misled(i)'
      BY <1>1, <1>3, <2>2 DEF Newest, Held, Cached, Misread, Misled, Answered
    <3>3. CreditOf(i)'
      BY <1>1, <3>1, <3>2 DEF CreditOf, Differ
    <3>4. FaultsOf(i)'
      BY <1>1, <3>1, <3>2 DEF FaultsOf
    <3>5. QED
      BY <3>3, <3>4
  <2>4. CreditOK' /\ FaultsOK'
    BY <2>3 DEF CreditOK, FaultsOK, CreditOf, FaultsOf
  <2>5. QED
    BY <2>1, <2>4
<1>4. QED
  BY <1>2, <1>3 DEF FetchFrame, Fail

LEMMA FireKeeps ==
  ASSUME IInv, Fire
  PROVE  IInv'
<1> USE DEF IInv
<1>1. /\ tick.at = "age" /\ tick' = [at |-> "read", picture |-> tick.picture, batch |-> <<>>]
      /\ UNCHANGED <<shelf, cache, window, last, truths, credit, faults>>
  BY DEF Fire, watched, worldVars
<1>2. tick \in [at : {"age"}, picture : Pictures] /\ tick # Idle
  <2>1. Idle.at = "idle"
    BY DEF Idle
  <2>2. QED
    BY <1>1, <2>1 DEF TypesOK, Ticks
<1>3. TypesOK'
  <2>1. tick' \in Ticks
    BY <1>1, <1>2 DEF Ticks
  <2>2. Len(tick'.batch) <= Len(Counted) /\ tick'.at = "read"
    BY <1>1, CountedFacts
  <2>3. QED
    BY <1>1, <2>1, <2>2 DEF TypesOK
<1>4. tick' # Idle /\ tick'.at = "read" /\ tick'.picture = tick.picture /\ Len(tick'.batch) = 0
  <2>1. Idle.at = "idle" /\ tick'.at = "read"
    BY <1>1 DEF Idle
  <2>2. QED
    BY <1>1, <2>1
<1>5. ASSUME NEW i \in Items
      PROVE  CreditOf(i)' /\ FaultsOf(i)'
  <2>1. CreditOf(i) /\ FaultsOf(i)
    BY OfItems
  <2>2. ~Answered(i) /\ ~Answered(i)'
    BY <1>1, <1>4, CountedFacts DEF Answered
  <2>3. /\ Newest(i)' = Newest(i) /\ Held(i)' = Held(i) /\ Cached(i)' = Cached(i)
        /\ Misread(i)' = Misread(i) /\ ~Misled(i)' /\ ~Misled(i)
    BY <1>1, <1>2, <1>4, <2>2 DEF Newest, Held, Cached, Misread, Misled
  <2>4. QED
    BY <1>1, <2>1, <2>3 DEF CreditOf, FaultsOf
<1>6. CreditOK' /\ FaultsOK'
  BY <1>5 DEF CreditOK, FaultsOK, CreditOf, FaultsOf
<1>7. QED
  BY <1>3, <1>6

\* An answer of the model, right, missing or wrong.
LEMMA AnswerKeeps ==
  ASSUME IInv, NEW k \in DOMAIN Counted, NEW n \in Counts \cup {Never},
         tick.at = "read", k = Len(tick.batch) + 1, Answer(n),
         UNCHANGED <<shelf, cache, window, last, truths>>,
         \/ n \in {Never, tick.picture[Counted[k]]} /\ UNCHANGED <<credit, faults>>
         \/ /\ faults < MaxFaults /\ faults' = faults + 1
            /\ credit' = [credit EXCEPT ![Counted[k]] = @ + 2]
  PROVE  IInv'
<1> USE DEF IInv
<1>1. PICK c \in Items : c = Counted[k]
  BY CountedFacts
<1>2. tick \in [at : {"read", "apply"}, picture : Pictures, batch : Seq(Counts \cup {Never})]
      /\ tick # Idle /\ Len(tick.batch) <= Len(Counted)
  <2>1. Idle.at = "idle"
    BY DEF Idle
  <2>2. QED
    BY <2>1 DEF TypesOK, Ticks
<1>3. PICK b : b = Append(tick.batch, n)
  OBVIOUS
<1>4. /\ b \in Seq(Counts \cup {Never}) /\ Len(b) = k /\ b[k] = n /\ k \in Nat
      /\ \A j \in 1 .. k - 1 : b[j] = tick.batch[j]
  <2>1. tick.batch \in Seq(Counts \cup {Never})
    BY <1>2
  <2> HIDE DEF Counts
  <2>2. QED
    BY <1>3, <2>1
<1>5. /\ tick'.at = IF k = Len(Counted) THEN "apply" ELSE "read"
      /\ tick'.batch = b /\ tick'.picture = tick.picture
      /\ tick' \in [at : {"read", "apply"}, picture : Pictures, batch : Seq(Counts \cup {Never})]
  BY <1>2, <1>3, <1>4 DEF Answer
<1>6. tick' # Idle
  BY <1>5 DEF Idle
<1>7. TypesOK'
  <2>1. faults' \in 0 .. MaxFaults /\ credit' \in [Items -> Nat]
    <3>1. faults \in 0 .. MaxFaults /\ MaxFaults \in Nat
      BY ConstantsOK DEF TypesOK
    <3>2. credit' = credit \/ credit' = [credit EXCEPT ![c] = @ + 2]
      BY <1>1
    <3>3. credit' \in [Items -> Nat]
      BY <3>2 DEF TypesOK
    <3>4. faults' = faults \/ (faults < MaxFaults /\ faults' = faults + 1)
      OBVIOUS
    <3>5. QED
      BY <3>1, <3>3, <3>4
  <2>2. tick' \in Ticks /\ Len(tick'.batch) <= Len(Counted)
    <3>1. k <= Len(Counted)
      BY CountedFacts
    <3>2. QED
      BY <1>4, <1>5, <3>1 DEF Ticks
  <2>3. tick'.at = "apply" => Len(tick'.batch) = Len(Counted)
    BY <1>4, <1>5
  <2>4. QED
    BY <2>1, <2>2, <2>3 DEF TypesOK
<1>8. ASSUME NEW i \in Items
      PROVE  CreditOf(i)' /\ FaultsOf(i)'
  <2>1. CreditOf(i) /\ FaultsOf(i) /\ credit[i] \in Nat /\ Cardinality(Misread(i)) \in Nat
        /\ faults \in Nat
    BY OfItems, ItemFacts, MisreadFinite DEF TypesOK
  <2>2. Newest(i)' = Newest(i) /\ Misread(i)' = Misread(i)
    BY DEF Newest, Misread
  <2>3. CASE i # c
    <3>1. credit'[i] = credit[i] /\ faults' >= faults
      BY <1>1, <2>1, <2>3 DEF TypesOK
    <3>2. Answered(i)' <=> Answered(i)
      <4>1. i \in CountedItems => Place(i) \in Nat /\ Place(i) # k
        BY <1>1, <2>3, CountedFacts
      <4>2. Len(tick.batch) = k - 1 /\ Len(tick'.batch) = k
        BY <1>2, <1>4, <1>5
      <4>3. QED
        BY <1>4, <1>5, <4>1, <4>2 DEF Answered
    <3>3. Answered(i) => tick'.batch[Place(i)] = tick.batch[Place(i)]
      <4>1. Answered(i) => Place(i) \in 1 .. k - 1
        BY <1>2, <1>4, CountedFacts DEF Answered
      <4>2. QED
        BY <1>4, <1>5, <4>1
    <3>4. Held(i)' = Held(i) /\ Cached(i)' = Cached(i) /\ (Misled(i)' <=> Misled(i))
      BY <1>2, <1>5, <1>6, <2>2, <3>2, <3>3 DEF Held, Cached, Misled
    <3>5. CreditOf(i)'
      BY <2>1, <2>2, <3>1, <3>4 DEF CreditOf
    <3>6. FaultsOf(i)'
      BY <1>7, <2>1, <2>2, <3>1, <3>4 DEF FaultsOf, TypesOK
    <3>7. QED
      BY <3>5, <3>6
  <2>4. CASE i = c
    <3>1. i \in CountedItems /\ Place(i) = k
      BY <1>1, <2>4, CountedFacts
    <3>2. ~Answered(i) /\ Answered(i)'
      BY <1>2, <1>4, <1>5, <3>1 DEF Answered
    <3>3. Held(i) = tick.picture[i] /\ ~Misled(i)
      BY <1>2, <3>2 DEF Held, Misled
    <3>4. /\ Held(i)' = IF n = Never THEN Newest(i) ELSE n
          /\ Misled(i)' <=> n # Never /\ n # tick.picture[i]
      BY <1>4, <1>5, <1>6, <2>2, <3>1, <3>2 DEF Held, Misled
    <3>5. Cached(i) = Held(i) \/ Cached(i)' = Cached(i)
      BY DEF Cached
    <3>6. Cached(i)' = Held(i)' \/ Cached(i)' = Cached(i)
      BY DEF Cached
    <3>7. \/ n \in {Never, tick.picture[i]} /\ credit'[i] = credit[i] /\ faults' = faults
          \/ faults' = faults + 1 /\ credit'[i] = credit[i] + 2
      BY <1>1, <2>4 DEF TypesOK
    <3>8. CreditOf(i)'
      BY <2>1, <2>2, <3>3, <3>4, <3>5, <3>6, <3>7 DEF CreditOf, Differ
    <3>9. FaultsOf(i)'
      BY <2>1, <2>2, <3>3, <3>4, <3>7 DEF FaultsOf
    <3>10. QED
      BY <3>8, <3>9
  <2>5. QED
    BY <2>3, <2>4
<1>9. CreditOK' /\ FaultsOK'
  BY <1>8 DEF CreditOK, FaultsOK, CreditOf, FaultsOf
<1>10. QED
  BY <1>7, <1>9

\* The answer to an item that was read is the one the tick holds.
LEMMA ReadIs ==
  ASSUME TypesOK, tick.at = "apply", NEW i \in Items
  PROVE  /\ i \in DOMAIN Read =>
              /\ Read[i] \in Counts /\ Held(i) = Read[i] /\ tick.picture[i] \in Counts
              /\ Misled(i) <=> Read[i] # tick.picture[i]
         /\ tick # Idle
<1>1. tick \in [at : {"read", "apply"}, picture : Pictures, batch : Seq(Counts \cup {Never})]
      /\ tick # Idle /\ Len(tick.batch) = Len(Counted)
  <2>1. Idle.at = "idle"
    BY DEF Idle
  <2>2. QED
    BY <2>1 DEF TypesOK, Ticks
<1>2. PICK b : b = tick.batch
  OBVIOUS
<1>3. /\ b \in Seq(Counts \cup {Never}) /\ tick.picture \in Pictures /\ Len(b) = Len(Counted)
  BY <1>1, <1>2
<1>4. ASSUME i \in DOMAIN Read
      PROVE  /\ Read[i] = b[Place(i)] /\ i \in CountedItems /\ Place(i) \in DOMAIN Counted
             /\ b[Place(i)] # Never
  <2>1. PICK k \in DOMAIN Counted : b[k] # Never /\ i = Counted[k]
    BY <1>2, <1>4 DEF Read
  <2>2. i \in CountedItems /\ Place(i) = k
    BY <2>1, CountedFacts
  <2>3. Read[i] = b[Place(i)]
    BY <1>2, <1>4 DEF Read, Place
  <2>4. QED
    BY <2>1, <2>2, <2>3
<1>5. ASSUME i \in DOMAIN Read
      PROVE  /\ Read[i] \in Counts /\ Held(i) = Read[i] /\ tick.picture[i] \in Counts
             /\ Misled(i) <=> Read[i] # tick.picture[i]
  <2>1. Place(i) \in 1 .. Len(b)
    BY <1>3, <1>4, <1>5, CountedFacts
  <2>2. b[Place(i)] \in Counts
    <3> HIDE DEF Counts
    <3>1. b[Place(i)] \in Counts \cup {Never}
      BY <1>3, <2>1
    <3>2. QED
      BY <1>4, <1>5, <3>1
  <2>3. Answered(i)
    BY <1>1, <1>2, <1>4, <1>5, <2>1 DEF Answered
  <2>4. Held(i) = Read[i] /\ (Misled(i) <=> Read[i] # tick.picture[i])
    BY <1>1, <1>2, <1>4, <1>5, <2>3 DEF Held, Misled
  <2>5. tick.picture[i] \in Counts
    BY <1>3 DEF Pictures
  <2>6. QED
    BY <1>4, <1>5, <2>2, <2>4, <2>5
<1>6. QED
  BY <1>1, <1>5

\* The loop over the batch, as far as it comes, with what it commits: an item
\* that changes in last is stable, and a count that was written is paid for.
LEMMA ApplyKeeps ==
  ASSUME IInv, tick.at = "apply", tick' = Idle, NEW some \in SUBSET DOMAIN Read, Apply(some),
         UNCHANGED <<shelf, cache>>, faults' \in {faults, faults + 1}, faults' <= MaxFaults,
         last' \in [Items -> Counts \cup {Never}], credit' \in [Items -> Int],
         \A i \in Items : last'[i] # last[i] => i \in some /\ last'[i] = Read[i],
         \A i \in Items :
           \/ credit'[i] >= credit[i]
           \/ (credit'[i] = credit[i] - 1 /\ last'[i] # last[i])
  PROVE  IInv'
<1> USE DEF IInv
<1>1. ASSUME NEW i \in Items, i \in some
      PROVE  LET w == window'[i] t == truths'[i] IN
             /\ w \in Seq(Counts) /\ t \in Seq(Counts) /\ w # <<>> /\ w[Len(w)] = Read[i]
             /\ Len(w) = Len(t) /\ Len(w) <= StabilityTicks
             /\ Cardinality(Misread(i))' <= Cardinality(Misread(i)) + Differ(Read[i], tick.picture[i])
             /\ Cardinality(Misread(i))' \in Nat
  <2>1. PICK r, p, s, u : r = Read[i] /\ p = tick.picture[i] /\ s = window[i] /\ u = truths[i]
    OBVIOUS
  <2>2. r \in Counts /\ p \in Counts
    BY <1>1, <2>1, ReadIs
  <2>3. s \in Seq(Counts) /\ u \in Seq(Counts) /\ Len(s) = Len(u) /\ Len(s) <= StabilityTicks
    BY <2>1, ItemFacts
  <2>4. window'[i] = Push(s, r) /\ truths'[i] = Push(u, p)
    BY <1>1, <2>1 DEF Apply
  <2>5. /\ Push(s, r) \in Seq(Counts) /\ Push(s, r) # <<>> /\ Len(Push(s, r)) <= StabilityTicks
        /\ Push(s, r)[Len(Push(s, r))] = r
        /\ Push(u, p) \in Seq(Counts)
    BY <2>2, <2>3, PushIs
  <2>6. Len(Push(s, r)) = Len(Push(u, p))
    <3>1. \/ Len(s) < StabilityTicks /\ Len(Push(s, r)) = Len(s) + 1
          \/ Len(s) = StabilityTicks /\ Len(Push(s, r)) = Len(s)
      BY <2>2, <2>3, PushIs
    <3>2. \/ Len(u) < StabilityTicks /\ Len(Push(u, p)) = Len(u) + 1
          \/ Len(u) = StabilityTicks /\ Len(Push(u, p)) = Len(u)
      BY <2>2, <2>3, PushIs
    <3>3. Len(s) \in Nat /\ StabilityTicks \in Nat
      BY <2>3, ConstantsOK
    <3> HIDE DEF Push
    <3>4. QED
      BY <2>3, <3>1, <3>2, <3>3
  <2>7. /\ Cardinality(Differing(Push(s, r), Push(u, p))) \in Nat
        /\ Cardinality(Differing(Push(s, r), Push(u, p))) <= Cardinality(Differing(s, u)) + Differ(r, p)
    BY <2>2, <2>3, PushDiffers
  <2>8. Misread(i)' = Differing(Push(s, r), Push(u, p)) /\ Misread(i) = Differing(s, u)
    BY <2>1, <2>4 DEF Misread, Differing
  <2>9. QED
    BY <2>1, <2>4, <2>5, <2>6, <2>7, <2>8
<1>2. ASSUME NEW i \in Items, i \notin some
      PROVE  window'[i] = window[i] /\ truths'[i] = truths[i] /\ Misread(i)' = Misread(i)
  BY <1>2 DEF Apply, Misread, Differing
<1>3. ASSUME NEW i \in Items
      PROVE  CreditOf(i)' /\ FaultsOf(i)' /\ credit'[i] \in Nat
  <2>1. /\ CreditOf(i) /\ FaultsOf(i) /\ credit[i] \in Nat /\ Cardinality(Misread(i)) \in Nat
        /\ faults \in Nat
    BY OfItems, ItemFacts, MisreadFinite DEF TypesOK
  <2>2. /\ Held(i)' = Newest(i)' /\ ~Misled(i)'
        /\ Cached(i)' = IF cache.picture = Never THEN Newest(i)' ELSE Cached(i)
        /\ cache.picture = Never => Cached(i) = Held(i)
    BY DEF Held, Cached, Misled, Answered, Idle
  <2>3. CASE i \in some
    <3>1. Held(i) = Read[i] /\ (Misled(i) <=> Read[i] # tick.picture[i])
      BY <2>3, ReadIs
    <3>2. Newest(i)' = Read[i]
      BY <1>1, <2>3 DEF Newest
    <3>3. last'[i] = last[i] \/ last'[i] = Read[i]
      OBVIOUS
    <3>4. /\ Cardinality(Misread(i))' \in Nat
          /\ Cardinality(Misread(i))' <= Cardinality(Misread(i)) + Differ(Read[i], tick.picture[i])
      BY <1>1, <2>3
    <3>5. credit'[i] \in Int /\ (\/ credit'[i] >= credit[i]
                                \/ (credit'[i] = credit[i] - 1 /\ last'[i] # last[i]))
      OBVIOUS
    <3>6. CreditOf(i)' /\ credit'[i] \in Nat
      BY <2>1, <2>2, <3>1, <3>2, <3>3, <3>5 DEF CreditOf, Differ
    <3>7. FaultsOf(i)'
      BY <2>1, <2>2, <3>1, <3>4 DEF FaultsOf, Differ
    <3>8. QED
      BY <3>6, <3>7
  <2>4. CASE i \notin some
    <3>1. last'[i] = last[i] /\ credit'[i] \in Int /\ credit'[i] >= credit[i]
      BY <2>4
    <3>2. Newest(i)' = Newest(i) /\ Misread(i)' = Misread(i)
      BY <1>2, <2>4, <3>1 DEF Newest
    <3>3. CreditOf(i)' /\ credit'[i] \in Nat
      BY <2>1, <2>2, <3>1, <3>2 DEF CreditOf, Differ
    <3>4. FaultsOf(i)'
      BY <2>1, <2>2, <3>2 DEF FaultsOf
    <3>5. QED
      BY <3>3, <3>4
  <2>5. QED
    BY <2>3, <2>4
<1>4. TypesOK'
  <2>1. window' \in [Items -> Seq(Counts)] /\ truths' \in [Items -> Seq(Counts)]
    <3>1. /\ window' = [i \in Items |-> window'[i]] /\ truths' = [i \in Items |-> truths'[i]]
      BY DEF Apply
    <3>2. \A i \in Items : window'[i] \in Seq(Counts) /\ truths'[i] \in Seq(Counts)
      BY <1>1, <1>2, ItemFacts
    <3> HIDE DEF Counts
    <3>3. QED
      BY <3>1, <3>2
  <2>2. \A i \in Items : Len(window'[i]) <= StabilityTicks /\ Len(truths'[i]) = Len(window'[i])
    BY <1>1, <1>2, ItemFacts
  <2>3. faults' \in 0 .. MaxFaults
    BY ConstantsOK DEF TypesOK
  <2>4. credit' \in [Items -> Nat]
    BY <1>3
  <2>5. tick' \in Ticks /\ tick'.at = "idle"
    BY DEF Ticks, Idle
  <2>6. QED
    BY <2>1, <2>2, <2>3, <2>4, <2>5 DEF TypesOK
<1>5. CreditOK' /\ FaultsOK'
  BY <1>3 DEF CreditOK, FaultsOK, CreditOf, FaultsOf
<1>6. QED
  BY <1>4, <1>5

-----------------------------------------------------------------------------
(* The steps of the tick that read and commit. *)

LEMMA ReadKeeps ==
  ASSUME IInv, NEW k \in DOMAIN Counted, ReadRight(k) \/ ReadWrong(k) \/ ReadRaises(k)
  PROVE  IInv'
<1>1. /\ tick.at = "read" /\ k = Len(tick.batch) + 1
      /\ UNCHANGED <<shelf, cache, window, last, truths>>
  BY DEF ReadRight, ReadWrong, ReadRaises, watched, worldVars
<1>2. tick.picture[Counted[k]] \in Counts
  <2>1. tick.picture \in Pictures
    <3>1. Idle.at = "idle"
      BY DEF Idle
    <3>2. QED
      BY <1>1, <3>1 DEF IInv, TypesOK, Ticks
  <2>2. Counted[k] \in Items
    BY CountedFacts
  <2>3. QED
    BY <2>1, <2>2 DEF Pictures
<1>3. CASE ReadRight(k) \/ ReadRaises(k)
  <2>1. PICK n \in {Never, tick.picture[Counted[k]]} : Answer(n)
    BY <1>3 DEF ReadRight, ReadRaises
  <2>2. UNCHANGED <<credit, faults>>
    BY <1>3 DEF ReadRight, ReadRaises, watched
  <2>3. n \in Counts \cup {Never}
    BY <1>2
  <2>4. QED
    BY <1>1, <2>1, <2>2, <2>3, AnswerKeeps
<1>4. CASE ReadWrong(k)
  <2>1. PICK n \in Counts : Answer(n)
    BY <1>4 DEF ReadWrong
  <2>2. faults < MaxFaults /\ faults' = faults + 1 /\ credit' = [credit EXCEPT ![Counted[k]] = @ + 2]
    BY <1>4 DEF ReadWrong
  <2>3. QED
    BY <1>1, <2>1, <2>2, AnswerKeeps
<1>5. QED
  BY <1>3, <1>4

LEMMA ReadInItems ==
  /\ DOMAIN Read \subseteq Items /\ Stable \subseteq DOMAIN Read /\ Written \subseteq Stable
BY CountedFacts DEF Read, Stable, Written, CountedItems

LEMMA ApplyBatchKeeps ==
  ASSUME IInv, ApplyBatch
  PROVE  IInv'
<1>1. /\ tick.at = "apply" /\ tick' = Idle /\ Apply(DOMAIN Read)
      /\ UNCHANGED <<shelf, cache, faults>> /\ faults \in 0 .. MaxFaults
  BY DEF ApplyBatch, worldVars, IInv, TypesOK
<1>2. /\ last' = [i \in Items |-> IF i \in Stable THEN Read[i] ELSE last[i]]
      /\ credit' = [i \in Items |-> IF i \in Written THEN credit[i] - 1 ELSE credit[i]]
  BY DEF ApplyBatch
<1>3. \A i \in Items :
        /\ last[i] \in Counts \cup {Never} /\ credit[i] \in Nat
        /\ i \in Stable => Read[i] \in Counts /\ i \in DOMAIN Read
        /\ i \in Written => i \in Stable /\ last[i] # Read[i]
  BY <1>1, ItemFacts, ReadIs, ReadInItems DEF IInv, Written, Changed
<1>4. last' \in [Items -> Counts \cup {Never}] /\ credit' \in [Items -> Int]
  BY <1>2, <1>3
<1>5. \A i \in Items : last'[i] # last[i] => i \in DOMAIN Read /\ last'[i] = Read[i]
  BY <1>2, <1>3
<1>6. \A i \in Items :
        \/ credit'[i] >= credit[i]
        \/ (credit'[i] = credit[i] - 1 /\ last'[i] # last[i])
  BY <1>2, <1>3
<1>7. QED
  BY <1>1, <1>4, <1>5, <1>6, ApplyKeeps

LEMMA ApplyRaisesKeeps ==
  ASSUME IInv, NEW k \in DOMAIN Counted, ApplyRaises(k)
  PROVE  IInv'
<1>1. PICK some \in SUBSET DOMAIN Read, paid \in SUBSET Items :
        /\ Apply(some)
        /\ credit' = [i \in Items |-> IF i \in paid THEN credit[i] ELSE credit[i] + 1]
  <2>1. PICK before : before = {Counted[j] : j \in 1 .. k - 1}
    OBVIOUS
  <2>2. /\ DOMAIN Read \cap (before \cup {Counted[k]}) \in SUBSET DOMAIN Read
        /\ Written \cap before \in SUBSET Items
    BY ReadInItems
  <2>3. QED
    BY <2>1, <2>2 DEF ApplyRaises
<1>2. /\ tick.at = "apply" /\ tick' = Idle /\ faults < MaxFaults /\ faults' = faults + 1
      /\ UNCHANGED <<shelf, cache, last>> /\ faults \in 0 .. MaxFaults /\ MaxFaults \in Nat
  BY ConstantsOK DEF ApplyRaises, worldVars, IInv, TypesOK
<1>3. /\ credit' \in [Items -> Int] /\ \A i \in Items : credit'[i] >= credit[i]
      /\ last' \in [Items -> Counts \cup {Never}]
  BY <1>1, <1>2 DEF IInv, TypesOK
<1>4. faults' <= MaxFaults
  BY <1>2
<1>5. QED
  BY <1>1, <1>2, <1>3, <1>4, ApplyKeeps

-----------------------------------------------------------------------------
(* The invariant holds. *)

LEMMA InitIInv == Init => IInv
<1> SUFFICES ASSUME Init PROVE IInv
  OBVIOUS
<1> USE DEF Init
<1>1. TypesOK
  <2>1. faults \in 0 .. MaxFaults /\ tick.at = "idle" /\ tick \in Ticks
    BY ConstantsOK DEF Idle, Ticks
  <2>2. \A i \in Items : Len(window[i]) <= StabilityTicks /\ Len(truths[i]) = Len(window[i])
    BY ConstantsOK
  <2>3. QED
    BY <2>1, <2>2 DEF TypesOK
<1>2. ASSUME NEW i \in Items
      PROVE  /\ last[i] = Never /\ Newest(i) = Never /\ Held(i) = Never /\ Cached(i) = Never
             /\ Misread(i) = {} /\ ~Misled(i) /\ credit[i] = 1
  BY DEF Newest, Held, Cached, Misread, Differing, Misled, Answered, Idle
<1>3. CreditOK
  BY <1>2 DEF CreditOK, Differ
<1>4. FaultsOK
  <2>1. Cardinality({}) = 0 /\ faults = 0
    BY FS_EmptySet
  <2> SUFFICES ASSUME NEW i \in Items
               PROVE  Cardinality(Misread(i)) + (IF Misled(i) THEN 1 ELSE 0) <= faults
    BY DEF FaultsOK
  <2>2. Misread(i) = {} /\ ~Misled(i)
    BY <1>2
  <2>3. Cardinality(Misread(i)) = 0
    BY <2>1, <2>2
  <2>4. QED
    BY <2>1, <2>2, <2>3
<1>5. QED
  BY <1>1, <1>3, <1>4 DEF IInv

LEMMA NextIInv ==
  ASSUME IInv, [Next]_vars
  PROVE  IInv'
<1>1. CASE \E i \in Items : Move(i)
  BY <1>1, MoveKeeps
<1>2. CASE \/ \E i \in Items : Trade(i)
           \/ HeartbeatDue
           \/ UNCHANGED vars
  <2>1. UNCHANGED <<shelf, window, last, tick, truths, credit, faults, cache>>
    BY <1>2 DEF Trade, HeartbeatDue, worldVars, watcherVars, vars
  <2>2. cache' \in [picture : Pictures \cup {Never}, stale : BOOLEAN]
    BY <2>1 DEF IInv, TypesOK
  <2>3. QED
    BY <2>1, <2>2, QuietKeeps
<1>3. CASE GrowStale
  <2>1. /\ UNCHANGED <<shelf, window, last, tick, truths, credit, faults>>
        /\ cache' = [cache EXCEPT !.stale = TRUE]
    BY <1>3 DEF GrowStale, worldVars, watcherVars
  <2>2. /\ cache' \in [picture : Pictures \cup {Never}, stale : BOOLEAN]
        /\ cache'.picture = cache.picture
    BY <2>1 DEF IInv, TypesOK
  <2>3. QED
    BY <2>1, <2>2, QuietKeeps
<1>4. CASE Capture
  BY <1>4, CaptureKeeps
<1>5. CASE FetchFrame
  BY <1>5, FetchKeeps
<1>6. CASE Refuse \/ Skip
  <2>1. tick' = Idle /\ UNCHANGED <<shelf, cache, window, last, truths, credit, faults>>
    BY <1>6 DEF Refuse, Skip, Fail, watched, worldVars
  <2>2. QED
    BY <2>1, DropKeeps
<1>7. CASE Fire
  BY <1>7, FireKeeps
<1>8. CASE \E k \in DOMAIN Counted : ReadRight(k) \/ ReadWrong(k) \/ ReadRaises(k)
  BY <1>8, ReadKeeps
<1>9. CASE ApplyBatch
  BY <1>9, ApplyBatchKeeps
<1>10. CASE \E k \in DOMAIN Counted : ApplyRaises(k)
  BY <1>10, ApplyRaisesKeeps
<1>11. CASE Restart
  BY <1>11, RestartKeeps
<1>12. QED
  BY <1>1, <1>2, <1>3, <1>4, <1>5, <1>6, <1>7, <1>8, <1>9, <1>10, <1>11 DEF Next

LEMMA IInvAlways == Spec => []IInv
<1>1. IInv /\ [Next]_vars => IInv'
  BY NextIInv
<1>2. QED
  BY InitIInv, <1>1, PTL DEF Spec

\* The watcher writes an item no more often than the causes allow: once after boot,
\* once for each move of the fruit and each failed append, twice for a misread
\* (inventory.py:44), for any catalog and any number of trades and heartbeats.
THEOREM NotFlooded == Spec => []LogNotFlooded
<1>1. IInv => LogNotFlooded
  <2> SUFFICES ASSUME IInv, NEW i \in Items PROVE credit[i] >= 0
    BY DEF LogNotFlooded
  <2>1. credit[i] \in Nat
    BY ItemFacts DEF IInv
  <2>2. QED
    BY <2>1
<1>2. QED
  BY IInvAlways, <1>1, PTL

-----------------------------------------------------------------------------
(* What is believed was seen. *)

\* Reads that all agree and differ from every truth would all be misreads.
LEMMA AllMisread ==
  ASSUME NEW s \in Seq(Counts), NEW t \in Seq(Counts), Len(s) = Len(t), Agrees(s),
         NEW x, x = s[StabilityTicks], \A k \in DOMAIN t : t[k] # x
  PROVE  Cardinality(Differing(s, t)) = StabilityTicks
<1>1. StabilityTicks \in Nat /\ StabilityTicks > 0 /\ StabilityTicks \in Int
  BY ConstantsOK
<1>2. Len(s) = StabilityTicks /\ \A j, k \in 1 .. StabilityTicks : s[j] = s[k]
  BY DEF Agrees
<1>3. DOMAIN s = 1 .. StabilityTicks /\ DOMAIN t = 1 .. StabilityTicks
  <2>1. Len(s) = StabilityTicks /\ Len(t) = StabilityTicks
    BY <1>2
  <2> HIDE DEF Counts
  <2>2. DOMAIN s = 1 .. Len(s) /\ DOMAIN t = 1 .. Len(t)
    OBVIOUS
  <2>3. QED
    BY <2>1, <2>2
<1>4. \A k \in 1 .. StabilityTicks : s[k] # t[k]
  <2>1. StabilityTicks \in 1 .. StabilityTicks
    BY <1>1
  <2>2. QED
    BY <1>2, <1>3, <2>1, Zenon
<1>5. Differing(s, t) = 1 .. StabilityTicks
  BY <1>3, <1>4, Zenon DEF Differing
<1>6. Cardinality(1 .. StabilityTicks) = StabilityTicks
  BY <1>1, FS_Interval
<1>7. QED
  BY <1>5, <1>6

LEMMA CommitWasSeen ==
  ASSUME MaxFaults < StabilityTicks, IInv, IInv', ApplyBatch, NEW i \in Items,
         last'[i] \notin {last[i], Never}
  PROVE  \E k \in DOMAIN truths'[i] : truths'[i][k] = last'[i]
<1>1. /\ tick.at = "apply" /\ Apply(DOMAIN Read) /\ i \in Stable /\ last'[i] = Read[i]
      /\ tick' = Idle
  BY DEF ApplyBatch
<1>2. PICK r, s, w, t : r = Read[i] /\ s = window[i] /\ w = Push(s, r) /\ t = truths'[i]
  OBVIOUS
<1>3. window'[i] = w /\ r \in Counts /\ s \in Seq(Counts) /\ Len(s) <= StabilityTicks /\ Agrees(w)
  BY <1>1, <1>2, ReadIs, ItemFacts, ReadInItems DEF Apply, Stable, IInv
<1>4. w \in Seq(Counts) /\ w[Len(w)] = r /\ Len(w) = StabilityTicks
  <2>1. Push(s, r) \in Seq(Counts) /\ Push(s, r)[Len(Push(s, r))] = r
    BY <1>3, PushIs
  <2>2. Len(w) = StabilityTicks
    BY <1>3 DEF Agrees
  <2>3. QED
    BY <1>2, <2>1, <2>2
<1>5. t \in Seq(Counts) /\ Len(t) = Len(w) /\ faults' \in 0 .. MaxFaults
  BY <1>2, <1>3 DEF IInv, TypesOK
<1>6. Cardinality(Differing(w, t)) <= faults'
  <2>1. Cardinality(Misread(i))' + (IF Misled(i)' THEN 1 ELSE 0) <= faults'
    BY DEF IInv, FaultsOK
  <2>2. Misread(i)' = Differing(w, t)
    BY <1>2, <1>3 DEF Misread
  <2>3. Cardinality(Differing(w, t)) \in Nat
    BY <1>4, <1>5, <1>3, PushDiffers, ConstantsOK
  <2>4. QED
    BY <1>5, <2>1, <2>2, <2>3
<1>7. ASSUME \A k \in DOMAIN t : t[k] # r
      PROVE  FALSE
  <2>1. Cardinality(Differing(w, t)) = StabilityTicks
    BY <1>3, <1>4, <1>5, <1>7, AllMisread
  <2>2. QED
    BY <1>5, <1>6, <2>1, ConstantsOK
<1>8. QED
  BY <1>1, <1>2, <1>7

\* See it N times before believing it (watcher.py:412): with fewer misreads, failed
\* appends and deaths than the window is long, a count the watcher commits is one that
\* a picture in its window really had.
THEOREM BelievesWhatWasSeen == MaxFaults < StabilityTicks => (Spec => BelievedWasSeen)
<1> SUFFICES ASSUME MaxFaults < StabilityTicks PROVE Spec => BelievedWasSeen
  OBVIOUS
<1> DEFINE Seen ==
      \A i \in Items : last'[i] \notin {last[i], Never} =>
        \E k \in DOMAIN truths'[i] : truths'[i][k] = last'[i]
<1>1. IInv /\ IInv' /\ [Next]_vars => [Seen]_vars
  <2> SUFFICES ASSUME IInv, IInv', [Next]_vars, NEW i \in Items, last'[i] \notin {last[i], Never}
               PROVE  \E k \in DOMAIN truths'[i] : truths'[i][k] = last'[i]
    OBVIOUS
  <2>1. ApplyBatch
    <3>1. last'[i] # last[i] /\ last'[i] # Never
      OBVIOUS
    <3>2. ~(Restart)
      BY <3>1 DEF Restart
    <3>3. last' # last
      BY <3>1
    <3>4. QED
      BY <3>2, <3>3 DEF Next, vars, Move, Trade, HeartbeatDue, Capture, GrowStale, FetchFrame, Refuse, Skip,
            Fire, ReadRight, ReadWrong, ReadRaises, ApplyRaises, watched, worldVars, watcherVars
  <2>2. QED
    BY <2>1, CommitWasSeen
<1>2. QED
  BY IInvAlways, <1>1, PTL DEF Spec, BelievedWasSeen
=============================================================================
