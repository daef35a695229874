----------------------------- MODULE SightProofs -----------------------------
(***************************************************************************)
(* Camera and model: nobody holds the device once the shutdown is over, and  *)
(* the weights are loaded once, whatever the backend and however probes,     *)
(* captures, the warm-up and the shutdown interleave.                       *)
(***************************************************************************)
EXTENDS Sight, SetLemmas

-----------------------------------------------------------------------------
(* The device. *)

\* Only the chosen camera has it, and only a running streamer is stopped.  The close of a
\* Cv2Camera waited for a capture that outlived the join, so that one under way after it
\* is of a thread that outran the join in its import; and what was probed is imported.
DeviceInv ==
  /\ DeviceReleased
  /\ phase # "up" => Running
  /\ thread # "idle" => Running
  /\ phase = "down" /\ camera = "cv2" /\ thread = "capturing" => outrun
  /\ phase \in {"closing", "down"} /\ thread = "starting" => outrun
  /\ camera = "cv2" /\ probes # 0 => imported
  /\ outrun => camera = "cv2" /\ probes = 0

\* A snapshot touches the handle of no other backend.
LEMMA SnapshotOfOthers ==
  ASSUME NEW b, NEW pic \in BOOLEAN, Snapshot(b, pic), b # "cv2"
  PROVE  UNCHANGED cap
BY DEF Snapshot, DaemonSnapshot, BrokerSnapshot, FileSnapshot

LEMMA DeviceStep ==
  ASSUME DeviceInv, [Next]_vars
  PROVE  DeviceInv'
<1>1. CASE ProbeWins
  <2>1. PICK b : /\ b = Candidates[probes + 1] /\ Snapshot(b, TRUE) /\ camera' = b
                 /\ camera = "booting" /\ imported' = (imported \/ b = "cv2")
                 /\ UNCHANGED <<thread, phase, outrun>>
    BY <1>1 DEF ProbeWins
  <2>2. phase = "up" /\ cap = Closed /\ ~outrun /\ thread = "idle"
    BY <2>1 DEF DeviceInv, DeviceReleased, Running
  <2>3. b # "cv2" => cap' = cap
    BY <2>1, SnapshotOfOthers
  <2>4. QED
    BY <2>1, <2>2, <2>3 DEF DeviceInv, DeviceReleased, Running
<1>2. CASE ProbeFails
  BY <1>2 DEF ProbeFails, DeviceInv, DeviceReleased, Running
<1>3. CASE EndCapture
  <2>1. PICK pic \in BOOLEAN : Snapshot(camera, pic)
    BY <1>3 DEF EndCapture
  <2>2. camera # "cv2" => cap' = cap
    BY <2>1, SnapshotOfOthers
  <2>3. /\ thread = "capturing" /\ thread' = "idle"
        /\ UNCHANGED <<camera, phase, probes, imported, outrun>>
    BY <1>3 DEF EndCapture
  <2>4. QED
    BY <2>2, <2>3 DEF DeviceInv, DeviceReleased, Running
<1>4. CASE Plug \/ BeginRound \/ ImportFails \/ StreamerEnds
  BY <1>4 DEF Plug, BeginRound, ImportFails, StreamerEnds, DeviceInv, DeviceReleased, Running
<1>5. CASE BeginCapture
  BY <1>5 DEF BeginCapture, DeviceInv, DeviceReleased, Running
<1>6. CASE StopStreamer \/ CloseCamera
  <2>1. CASE StopStreamer
    BY <2>1 DEF StopStreamer, DeviceInv, DeviceReleased, Running
  <2>2. CASE CloseCamera
    <3>1. /\ phase = "closing" /\ phase' = "down" /\ cap' = Closed
          /\ camera = "cv2" => thread # "capturing"
          /\ UNCHANGED <<camera, probes, imported, thread, outrun>>
      BY <2>2 DEF CloseCamera
    <3>2. QED
      BY <3>1 DEF DeviceInv, DeviceReleased, Running
  <2>3. QED
    BY <1>6, <2>1, <2>2
<1>7. CASE Joined
  BY <1>7 DEF Joined, Importing, DeviceInv, DeviceReleased, Running
<1>8. CASE UNCHANGED camVars
  BY <1>8 DEF camVars, DeviceInv, DeviceReleased, Running
<1>9. QED
  BY <1>1, <1>2, <1>3, <1>4, <1>5, <1>6, <1>7, <1>8
     DEF Next, CameraStep, ModelStep, CamNext, vars, camVars

\* The device is held by the chosen camera only, whichever backend is pinned or
\* probed, and by nobody once the shutdown is over, also when it gave up waiting for a
\* capture under way (camera.py:141 close, :423; streamer.py:158); save a pinned "cv2"
\* whose thread was importing OpenCV when the join gave up (camera.py:115).
THEOREM DeviceIsReleased == Spec => []DeviceReleased
<1>1. Init => DeviceInv
  BY DEF Init, CamInit, DeviceInv, DeviceReleased
<1>2. DeviceInv /\ [Next]_vars => DeviceInv'
  BY DeviceStep
<1>3. DeviceInv => DeviceReleased
  BY DEF DeviceInv
<1>4. QED
  BY <1>1, <1>2, <1>3, PTL DEF Spec

-----------------------------------------------------------------------------
(* The weights. *)

\* Who loads holds the lock and has seen that the weights were not there.
LoadInv ==
  /\ loaded \in BOOLEAN
  /\ loads \in [tried : Nat, done : Nat]
  /\ loads.done = IF loaded THEN 1 ELSE 0
  /\ warm = "loading" => lock = "warmup" /\ ~loaded

LEMMA LoadOnce ==
  ASSUME LoadInv, Load, ~loaded
  PROVE  /\ loaded' \in BOOLEAN
         /\ loads' \in [tried : Nat, done : Nat]
         /\ loads'.done = IF loaded' THEN 1 ELSE 0
<1>1. PICK good \in BOOLEAN :
        /\ loaded' = good
        /\ loads' = [tried |-> loads.tried + 1, done |-> loads.done + IF good THEN 1 ELSE 0]
  BY DEF Load
<1>2. loads.tried \in Nat /\ loads.done = 0
  BY DEF LoadInv
<1>3. QED
  BY <1>1, <1>2

LEMMA LoadStep ==
  ASSUME LoadInv, [Next]_vars
  PROVE  LoadInv'
<1>1. CASE WarmupStarts
  BY <1>1 DEF WarmupStarts, LoadInv
<1>2. CASE WarmupIdle
  BY <1>2 DEF WarmupIdle, LoadInv
<1>3. CASE WarmupEnds
  BY <1>3, LoadOnce DEF WarmupEnds, LoadInv
<1>4. CASE Ask
  <2>1. CASE loaded
    BY <1>4, <2>1 DEF Ask, LoadInv
  <2>2. CASE ~loaded
    BY <1>4, <2>2, LoadOnce DEF Ask, LoadInv
  <2>3. QED
    BY <2>1, <2>2
<1>5. CASE AskFails
  BY <1>5, LoadOnce DEF AskFails, LoadInv
<1>6. CASE Emit \/ Answer \/ Garbled \/ Recount
  BY <1>6 DEF Emit, Answer, Garbled, Recount, LoadInv
<1>7. CASE UNCHANGED detVars
  BY <1>7 DEF detVars, LoadInv
<1>8. QED
  BY <1>1, <1>2, <1>3, <1>4, <1>5, <1>6, <1>7 DEF Next, CameraStep, ModelStep, DetNext, vars, detVars

\* The weights are never loaded twice, however the warm-up thread, its failures and
\* the watcher's calls race for the lock (model.py:218 _load_locked).
THEOREM WeightsLoadedOnce == Spec => []LoadedOnce
<1>1. Init => LoadInv
  <2> SUFFICES ASSUME Init PROVE LoadInv
    OBVIOUS
  <2>1. loads = [tried |-> 0, done |-> 0] /\ loaded = FALSE /\ warm = "new"
    BY DEF Init, DetInit
  <2>2. loads \in [tried : Nat, done : Nat] /\ loads.done = 0
    BY <2>1
  <2>3. QED
    BY <2>1, <2>2 DEF LoadInv
<1>2. LoadInv /\ [Next]_vars => LoadInv'
  BY LoadStep
<1>3. LoadInv => LoadedOnce
  BY DEF LoadInv, LoadedOnce
<1>4. QED
  BY <1>1, <1>2, <1>3, PTL DEF Spec

-----------------------------------------------------------------------------
(* Boxes. *)

Box == {b \in Nat \X Nat : b[1] <= b[2]}

LEMMA ParsedIsBox ==
  ASSUME NEW q \in Nat \X Nat
  PROVE  ParseBox(q) \in Box
BY DEF ParseBox, Box, Min2, Max2

LEMMA AreaIsNat ==
  ASSUME NEW b \in Box
  PROVE  Area(b) \in Nat
BY DEF Box, Area

LEMMA OverlapsAreMutual ==
  ASSUME NEW a \in Box, NEW b \in Box
  PROVE  /\ IouAbove(a, b) = IouAbove(b, a)
         /\ IouAtLeast(a, b) = IouAtLeast(b, a)
<1>1. Inter(a, b) = Inter(b, a)
  BY DEF Inter, Less, Min2, Max2, Box
<1>2. Union(a, b) = Union(b, a)
  <2>1. Inter(a, b) \in Nat
    BY DEF Inter, Less, Min2, Max2, Box
  <2>2. QED
    BY <1>1, <2>1, AreaIsNat DEF Union
<1>3. QED
  BY <1>1, <1>2 DEF IouAbove, IouAtLeast

-----------------------------------------------------------------------------
(* The boxes in the order of their areas. *)

LEMMA OneGoesBefore ==
  ASSUME NEW bs \in Seq(Box), NEW i \in DOMAIN bs, NEW j \in DOMAIN bs, NEW k \in DOMAIN bs
  PROVE  /\ ~GoesBefore(bs, j, j)
         /\ j # k => GoesBefore(bs, j, k) \/ GoesBefore(bs, k, j)
         /\ GoesBefore(bs, i, j) /\ GoesBefore(bs, j, k) => GoesBefore(bs, i, k)
<1>1. Area(bs[i]) \in Nat /\ Area(bs[j]) \in Nat /\ Area(bs[k]) \in Nat
  BY AreaIsNat
<1>2. i \in Nat /\ j \in Nat /\ k \in Nat
  OBVIOUS
<1>3. QED
  BY <1>1, <1>2 DEF GoesBefore

\* The place of a box is a position of the sequence, and who goes before it has an
\* earlier one.
LEMMA PlacesAscend ==
  ASSUME NEW bs \in Seq(Box), NEW j \in DOMAIN bs, NEW k \in DOMAIN bs
  PROVE  /\ Place(bs, k) \in 1 .. Len(bs)
         /\ GoesBefore(bs, j, k) => Place(bs, j) < Place(bs, k)
<1> DEFINE D == DOMAIN bs
           Earlier(m) == {i \in D : GoesBefore(bs, i, m)}
<1>1. IsFiniteSet(D) /\ Cardinality(D) = Len(bs) /\ Len(bs) \in Nat
  <2>1. D = 1 .. Len(bs) /\ Len(bs) \in Nat
    OBVIOUS
  <2>2. 1 \in Int /\ Len(bs) \in Int
    BY <2>1
  <2>3. IsFiniteSet(1 .. Len(bs)) /\ Cardinality(1 .. Len(bs)) = IF 1 > Len(bs) THEN 0 ELSE Len(bs) - 1 + 1
    BY <2>2, FS_Interval
  <2>4. QED
    BY <2>1, <2>3
<1>2. ASSUME NEW m \in D
      PROVE  /\ IsFiniteSet(Earlier(m)) /\ Cardinality(Earlier(m)) \in Nat
             /\ Place(bs, m) = 1 + Cardinality(Earlier(m))
  <2>1. IsFiniteSet(Earlier(m))
    BY <1>1, FS_Subset
  <2>2. QED
    BY <2>1, FS_CardinalityType DEF Place
<1>3. Cardinality(Earlier(k)) < Cardinality(D)
  <2>1. Earlier(k) \in SUBSET D /\ k \notin Earlier(k) /\ k \in D
    BY OneGoesBefore
  <2> HIDE DEF Earlier, D
  <2>2. Cardinality(Earlier(k)) <= Cardinality(D) /\ Cardinality(Earlier(k)) # Cardinality(D)
    BY <1>1, <2>1, FS_Subset
  <2>3. QED
    BY <1>1, <1>2, <2>1, <2>2
<1>4. ASSUME GoesBefore(bs, j, k)
      PROVE  Cardinality(Earlier(j)) < Cardinality(Earlier(k))
  <2>1. Earlier(j) \in SUBSET Earlier(k) /\ j \in Earlier(k) /\ j \notin Earlier(j)
    BY <1>4, OneGoesBefore
  <2>2. IsFiniteSet(Earlier(k)) /\ Cardinality(Earlier(k)) \in Nat /\ Cardinality(Earlier(j)) \in Nat
    BY <1>2
  <2> HIDE DEF Earlier, D
  <2>3. Cardinality(Earlier(j)) <= Cardinality(Earlier(k)) /\ Cardinality(Earlier(j)) # Cardinality(Earlier(k))
    BY <2>1, <2>2, FS_Subset
  <2>4. QED
    BY <2>2, <2>3
<1>5. k \in D /\ j \in D
  OBVIOUS
<1> HIDE DEF Earlier, D
<1>6. QED
  BY <1>1, <1>2, <1>3, <1>4, <1>5

\* No place is left free.
LEMMA PlacesAreTaken ==
  ASSUME NEW bs \in Seq(Box), NEW n \in DOMAIN bs
  PROVE  \E k \in DOMAIN bs : Place(bs, k) = n
<1> DEFINE D == DOMAIN bs
           f == [k \in D |-> Place(bs, k)]
<1>1. D = 1 .. Len(bs) /\ 1 \in Int /\ Len(bs) \in Int
  OBVIOUS
<1>2. IsFiniteSet(D)
  <2>1. IsFiniteSet(1 .. Len(bs))
    BY <1>1, FS_Interval
  <2>2. QED
    BY <1>1, <2>1
<1>3. f \in [D -> D]
  BY <1>1, PlacesAscend
<1>4. ASSUME NEW j \in D, NEW k \in D, f[j] = f[k]
      PROVE  j = k
  <2>1. Place(bs, j) = Place(bs, k) /\ Place(bs, j) \in Nat
    BY <1>4, PlacesAscend
  <2>2. ~GoesBefore(bs, j, k) /\ ~GoesBefore(bs, k, j)
    BY <2>1, PlacesAscend
  <2>3. QED
    BY <2>2, OneGoesBefore
<1> HIDE DEF f, D
<1>5. f \in Injection(D, D)
  BY <1>3, <1>4 DEF Injection, IsInjective
<1>6. f \in Surjection(D, D)
  BY <1>2, <1>5, FS_Injection
<1>7. n \in D
  BY DEF D
<1>8. \E k \in D : f[k] = n
  BY <1>6, <1>7 DEF Surjection
<1>9. QED
  BY <1>8 DEF f, D

LEMMA SortedByArea ==
  ASSUME NEW bs \in Seq(Box)
  PROVE  /\ ByArea(bs) \in Seq(Box) /\ Len(ByArea(bs)) = Len(bs)
         /\ \A k \in DOMAIN bs : \E n \in DOMAIN bs : ByArea(bs)[n] = bs[k]
         /\ \A n \in DOMAIN bs : \E k \in DOMAIN bs : ByArea(bs)[n] = bs[k]
         /\ \A m, n \in DOMAIN bs : m < n => Area(ByArea(bs)[m]) >= Area(ByArea(bs)[n])
<1> DEFINE At(n) == CHOOSE k \in DOMAIN bs : Place(bs, k) = n
<1>1. ASSUME NEW n \in DOMAIN bs
      PROVE  /\ At(n) \in DOMAIN bs /\ Place(bs, At(n)) = n
             /\ ByArea(bs)[n] = bs[At(n)]
  <2>1. At(n) \in DOMAIN bs /\ Place(bs, At(n)) = n
    BY PlacesAreTaken
  <2>2. QED
    BY <2>1 DEF ByArea
<1>2. ASSUME NEW k \in DOMAIN bs
      PROVE  Place(bs, k) \in DOMAIN bs /\ At(Place(bs, k)) = k
  <2>1. Place(bs, k) \in DOMAIN bs
    BY PlacesAscend
  <2>2. At(Place(bs, k)) \in DOMAIN bs /\ Place(bs, At(Place(bs, k))) = Place(bs, k)
    BY <1>1, <2>1
  <2> HIDE DEF At
  <2> DEFINE j == At(Place(bs, k))
  <2>3. j \in DOMAIN bs /\ Place(bs, j) = Place(bs, k) /\ Place(bs, k) \in Nat
    BY <2>1, <2>2
  <2>4. j = k
    <3> HIDE DEF j
    <3>1. ~GoesBefore(bs, j, k) /\ ~GoesBefore(bs, k, j)
      BY <2>3, PlacesAscend
    <3>2. QED
      BY <2>3, <3>1, OneGoesBefore
  <2>5. QED
    BY <2>1, <2>4
<1>3. ASSUME NEW m \in DOMAIN bs, NEW n \in DOMAIN bs, m < n
      PROVE  Area(bs[At(m)]) >= Area(bs[At(n)])
  <2> DEFINE j == At(m)
             k == At(n)
  <2>1. j \in DOMAIN bs /\ k \in DOMAIN bs /\ Place(bs, j) = m /\ Place(bs, k) = n
    BY <1>1
  <2> HIDE DEF At, j, k
  <2>2. ~GoesBefore(bs, k, j)
    BY <1>3, <2>1, PlacesAscend
  <2>3. Area(bs[j]) \in Nat /\ Area(bs[k]) \in Nat
    BY <2>1, AreaIsNat
  <2>4. Area(bs[j]) >= Area(bs[k])
    BY <2>2, <2>3 DEF GoesBefore
  <2>5. QED
    BY <2>4 DEF j, k
<1>4. ByArea(bs) = [n \in DOMAIN bs |-> bs[At(n)]]
  BY DEF ByArea
<1> HIDE DEF At
<1>5. ByArea(bs) \in Seq(Box) /\ Len(ByArea(bs)) = Len(bs)
  BY <1>1, <1>4
<1>6. QED
  BY <1>1, <1>2, <1>3, <1>5

-----------------------------------------------------------------------------
(* Suppression within a class. *)

Keep(kept, b) == IF \E k \in DOMAIN kept : IouAbove(b, kept[k]) THEN kept ELSE Append(kept, b)

\* The loop over the sorted boxes: what is kept after each of them.
LEMMA NmsRounds ==
  ASSUME NEW bs \in Seq(Box)
  PROVE  \E r : /\ r[0] = <<>> /\ r[Len(bs)] = Nms(bs)
                /\ \A m \in 1 .. Len(bs) : r[m] = Keep(r[m - 1], ByArea(bs)[m])
<1> DEFINE n == Len(bs)
           s == ByArea(bs)
           Acc == Seq(Box)
           step == [p \in (1 .. n) \X Acc |-> Keep(p[2], s[p[1]])]
           Folds(g) == g = [t \in SUBSET DOMAIN s |->
                              IF t = {} THEN <<>> ELSE Keep(g[t \ {Max(t)}], s[Max(t)])]
           iter == CHOOSE g : Folds(g)
<1>1. s \in Seq(Box) /\ DOMAIN s = 1 .. n /\ n \in Nat
  BY SortedByArea
<1>2. Nms(bs) = iter[DOMAIN s]
  BY DEF Nms, FoldLeft, MapThenFoldSet, Keep
<1>3. step \in [(1 .. n) \X Acc -> Acc]
  <2>1. ASSUME NEW i \in 1 .. n, NEW kept \in Acc PROVE Keep(kept, s[i]) \in Acc
    <3>1. s[i] \in Box
      BY <1>1
    <3>2. QED
      BY <3>1 DEF Keep
  <2>2. QED
    BY <2>1
<1>4. PICK g \in [SUBSET (1 .. n) -> Acc] : Loop(step, <<>>, 1 .. n, g)
  <2>1. <<>> \in Acc
    OBVIOUS
  <2> HIDE DEF step, Acc
  <2>2. QED
    BY <1>1, <1>3, <2>1, LoopTyped
<1>5. Folds(g)
  <2>1. ASSUME NEW t \in SUBSET (1 .. n), t # {}
        PROVE  g[t] = Keep(g[t \ {Max(t)}], s[Max(t)])
    <3>1. Max(t) \in t
      BY <1>1, <2>1, MaxIsMember
    <3>2. g[t] = step[<<Max(t), g[t \ {Max(t)}]>>]
      BY <1>4, <2>1 DEF Loop
    <3>3. Max(t) \in 1 .. n /\ g[t \ {Max(t)}] \in Acc
      BY <3>1
    <3> HIDE DEF Acc, s
    <3>4. QED
      BY <3>2, <3>3
  <2>2. g = [t \in SUBSET (1 .. n) |-> g[t]] /\ g[{}] = <<>>
    BY <1>4 DEF Loop
  <2> HIDE DEF s, n, step
  <2>3. QED
    BY <1>1, <2>1, <2>2
<1>6. Folds(iter)
  BY <1>5
<1> DEFINE r == [m \in 0 .. n |-> iter[1 .. m]]
<1>7. ASSUME NEW m \in 1 .. n PROVE r[m] = Keep(r[m - 1], s[m])
  <2>1. Max(1 .. m) = m /\ (1 .. m) \ {m} = 1 .. m - 1 /\ 1 .. m # {}
    BY LastOfRound
  <2>2. 1 .. m \in SUBSET DOMAIN s
    BY <1>1
  <2> HIDE DEF iter, s
  <2>3. iter[1 .. m] = Keep(iter[1 .. m - 1], s[m])
    BY <1>6, <2>1, <2>2
  <2>4. QED
    BY <2>3
<1>8. r[0] = <<>>
  <2> HIDE DEF iter, s
  <2>1. QED
    BY <1>6
<1>9. r[n] = Nms(bs)
  BY <1>1, <1>2
<1> HIDE DEF r, s, n
<1>10. QED
  BY <1>7, <1>8, <1>9 DEF s, n

\* What the boxes kept after m of the sorted ones have to do with those m.
NmsOK(s, m, kept) ==
  /\ kept \in Seq(Box)
  /\ \A j, k \in DOMAIN kept : j # k => ~IouAbove(kept[j], kept[k])
  /\ \A k \in DOMAIN kept : \E i \in 1 .. m : kept[k] = s[i]
  /\ \A i \in 1 .. m : \E k \in DOMAIN kept :
       \/ kept[k] = s[i]
       \/ IouAbove(s[i], kept[k]) /\ Area(kept[k]) >= Area(s[i])

LEMMA NmsRoundOK ==
  ASSUME NEW s \in Seq(Box), NEW m \in 1 .. Len(s), NEW kept, NmsOK(s, m - 1, kept),
         \A i, j \in DOMAIN s : i < j => Area(s[i]) >= Area(s[j])
  PROVE  NmsOK(s, m, Keep(kept, s[m]))
<1>1. s[m] \in Box /\ kept \in Seq(Box) /\ m \in DOMAIN s /\ 1 .. m = 1 .. m - 1 \cup {m}
  BY DEF NmsOK
<1>2. CASE \E k \in DOMAIN kept : IouAbove(s[m], kept[k])
  <2>1. PICK k \in DOMAIN kept : IouAbove(s[m], kept[k])
    BY <1>2
  <2>2. PICK i \in 1 .. m - 1 : kept[k] = s[i]
    BY DEF NmsOK
  <2>3. Area(kept[k]) >= Area(s[m])
    <3>1. i \in DOMAIN s /\ i < m
      BY <1>1
    <3>2. QED
      BY <1>1, <2>2, <3>1
  <2>4. Keep(kept, s[m]) = kept
    BY <1>2 DEF Keep
  <2>5. QED
    BY <1>1, <2>1, <2>3, <2>4 DEF NmsOK
<1>3. CASE ~\E k \in DOMAIN kept : IouAbove(s[m], kept[k])
  <2> DEFINE new == Append(kept, s[m])
  <2>1. Keep(kept, s[m]) = new
    BY <1>3 DEF Keep
  <2>2. /\ new \in Seq(Box) /\ DOMAIN new = DOMAIN kept \cup {Len(kept) + 1}
        /\ Len(kept) + 1 \notin DOMAIN kept
        /\ new[Len(kept) + 1] = s[m] /\ \A k \in DOMAIN kept : new[k] = kept[k]
    BY <1>1
  <2> HIDE DEF new
  <2>3. \A k \in DOMAIN kept : ~IouAbove(s[m], kept[k]) /\ ~IouAbove(kept[k], s[m])
    <3>1. ASSUME NEW k \in DOMAIN kept PROVE ~IouAbove(s[m], kept[k]) /\ ~IouAbove(kept[k], s[m])
      <4>1. kept[k] \in Box
        BY <1>1
      <4>2. QED
        BY <1>1, <1>3, <4>1, OverlapsAreMutual
    <3>2. QED
      BY <3>1
  <2>4. \A j, k \in DOMAIN new : j # k => ~IouAbove(new[j], new[k])
    BY <2>2, <2>3 DEF NmsOK
  <2>5. \A k \in DOMAIN new : \E i \in 1 .. m : new[k] = s[i]
    BY <1>1, <2>2 DEF NmsOK
  <2>6. \A i \in 1 .. m : \E k \in DOMAIN new :
          \/ new[k] = s[i]
          \/ IouAbove(s[i], new[k]) /\ Area(new[k]) >= Area(s[i])
    <3>1. ASSUME NEW i \in 1 .. m - 1
          PROVE  \E k \in DOMAIN new :
                   \/ new[k] = s[i]
                   \/ IouAbove(s[i], new[k]) /\ Area(new[k]) >= Area(s[i])
      <4>1. PICK k \in DOMAIN kept :
              \/ kept[k] = s[i]
              \/ IouAbove(s[i], kept[k]) /\ Area(kept[k]) >= Area(s[i])
        BY DEF NmsOK
      <4>2. k \in DOMAIN new /\ new[k] = kept[k]
        BY <2>2
      <4>3. QED
        BY <4>1, <4>2
    <3>2. Len(kept) + 1 \in DOMAIN new /\ new[Len(kept) + 1] = s[m]
      BY <2>2
    <3>3. QED
      BY <1>1, <3>1, <3>2
  <2>7. QED
    BY <2>1, <2>2, <2>4, <2>5, <2>6 DEF NmsOK
<1>4. QED
  BY <1>2, <1>3

\* Suppression leaves no twins, and drops a box only for a twin at least as large that
\* it keeps.
LEMMA NmsKeeps ==
  ASSUME NEW bs \in Seq(Box)
  PROVE  /\ Nms(bs) \in Seq(Box)
         /\ \A j, k \in DOMAIN Nms(bs) : j # k => ~IouAbove(Nms(bs)[j], Nms(bs)[k])
         /\ \A n \in DOMAIN bs : \E k \in DOMAIN Nms(bs) :
              \/ Nms(bs)[k] = bs[n]
              \/ IouAbove(bs[n], Nms(bs)[k]) /\ Area(Nms(bs)[k]) >= Area(bs[n])
<1> DEFINE s == ByArea(bs)
           n == Len(bs)
<1>1. /\ s \in Seq(Box) /\ Len(s) = n /\ n \in Nat
      /\ \A i, j \in DOMAIN s : i < j => Area(s[i]) >= Area(s[j])
      /\ \A k \in DOMAIN bs : \E i \in 1 .. n : s[i] = bs[k]
  <2>1. /\ s \in Seq(Box) /\ Len(s) = n /\ n \in Nat /\ DOMAIN bs = 1 .. n
    BY SortedByArea
  <2>2. DOMAIN s = DOMAIN bs
    <3> HIDE DEF s, n
    <3> QED  BY <2>1
  <2>3. \A i, j \in DOMAIN bs : i < j => Area(s[i]) >= Area(s[j])
    BY SortedByArea, Zenon
  <2>4. \A k \in DOMAIN bs : \E i \in DOMAIN bs : s[i] = bs[k]
    BY SortedByArea, Zenon
  <2> HIDE DEF s, n
  <2> QED  BY <2>1, <2>2, <2>3, <2>4
<1>2. PICK r : /\ r[0] = <<>> /\ r[n] = Nms(bs)
               /\ \A m \in 1 .. n : r[m] = Keep(r[m - 1], s[m])
  BY NmsRounds
<1> HIDE DEF s, n
<1> DEFINE G == {m \in 0 .. n : NmsOK(s, m, r[m])}
<1>3. 0 \in G
  <2>1. NmsOK(s, 0, <<>>)
    BY DEF NmsOK
  <2>2. QED
    BY <1>1, <1>2, <2>1
<1>4. ASSUME NEW m \in 1 .. n, m - 1 \in G PROVE m \in G
  <2>1. NmsOK(s, m - 1, r[m - 1]) /\ m \in 1 .. Len(s)
    BY <1>1, <1>4
  <2> HIDE DEF G
  <2>2. NmsOK(s, m, Keep(r[m - 1], s[m]))
    BY <1>1, <2>1, NmsRoundOK
  <2>3. QED
    BY <1>1, <1>2, <2>2 DEF G
<1>5. \A m \in 0 .. n : m \in G
  <2> HIDE DEF G
  <2>1. QED
    BY <1>1, <1>3, <1>4, EveryRound
<1>6. NmsOK(s, n, Nms(bs))
  BY <1>1, <1>2, <1>5
<1>7. ASSUME NEW j \in DOMAIN bs
      PROVE  \E k \in DOMAIN Nms(bs) :
               \/ Nms(bs)[k] = bs[j]
               \/ IouAbove(bs[j], Nms(bs)[k]) /\ Area(Nms(bs)[k]) >= Area(bs[j])
  <2>1. PICK i \in 1 .. n : s[i] = bs[j]
    BY <1>1
  <2>2. QED
    BY <1>6, <2>1 DEF NmsOK
<1>8. QED
  BY <1>6, <1>7 DEF NmsOK

\* An answer is made of quartets.
TextOK == text \in Seq(Quartets)

LEMMA TextIsBoxes ==
  ASSUME TextOK
  PROVE  ParseLocBoxes(text) \in Seq(Box)
<1>1. \A k \in DOMAIN text : ParseBox(text[k]) \in Box
  BY DetectionAssumption, ParsedIsBox DEF TextOK
<1>2. QED
  BY <1>1 DEF ParseLocBoxes, TextOK

LEMMA TextStep ==
  ASSUME TextOK, [Next]_vars
  PROVE  TextOK'
<1> USE DEF TextOK
<1>1. CASE Emit
  BY <1>1 DEF Emit
<1>2. CASE Ask \/ Answer
  <2>1. text' = <<>>
    BY <1>2 DEF Ask, Answer
  <2>2. QED
    BY <2>1
<1>3. CASE UNCHANGED text
  BY <1>3
<1>4. QED
  BY <1>1, <1>2, <1>3 DEF Next, CameraStep, ModelStep, DetNext, WarmupStarts, WarmupIdle,
       WarmupEnds, AskFails, Garbled, Recount, vars, detVars

\* Whatever the answer, suppression within a class leaves no two boxes that overlap by
\* more than half, and every box dropped has such a twin, not smaller, among those
\* kept (model.py:566 _nms).
THEOREM TwinsAreCollapsed == Spec => []TwinsCollapse
<1>1. Init => TextOK
  BY DEF Init, DetInit, TextOK
<1>2. TextOK /\ [Next]_vars => TextOK'
  BY TextStep
<1>3. TextOK => TwinsCollapse
  BY TextIsBoxes, NmsKeeps DEF TwinsCollapse
<1>4. QED
  BY <1>1, <1>2, <1>3, PTL DEF Spec

-----------------------------------------------------------------------------
(* Suppression across classes. *)

Class == DOMAIN Alphabet
Found == [class : Class, box : Box]

LEMMA RivalsAreMutual ==
  ASSUME NEW flat \in Seq(Found), NEW i \in DOMAIN flat, NEW j \in DOMAIN flat
  PROVE  /\ IouAtLeast(flat[i].box, flat[j].box) = IouAtLeast(flat[j].box, flat[i].box)
         /\ Area(flat[i].box) \in Nat /\ Alphabet[flat[i].class] \in Nat
<1>1. flat[i] \in Found /\ flat[j] \in Found
  OBVIOUS
<1>2. flat[i].box \in Box /\ flat[j].box \in Box /\ flat[i].class \in Class
  BY <1>1 DEF Found
<1>3. QED
  BY <1>2, OverlapsAreMutual, AreaIsNat, DetectionAssumption DEF Class

\* Those after i that compete with it for its place, and of them those that beat it.
Rivals(flat, lost, i) ==
  {j \in i + 1 .. Len(flat) : /\ j \notin lost
                              /\ flat[j].class # flat[i].class
                              /\ IouAtLeast(flat[i].box, flat[j].box)}
Winners(flat, lost, i) == {j \in Rivals(flat, lost, i) : LosesTo(flat[i], flat[j])}

\* What one round does, without its cases.
LEMMA RoundOfLosers ==
  ASSUME NEW flat \in Seq(Found), NEW i \in DOMAIN flat, NEW lost \in SUBSET DOMAIN flat
  PROVE  LET new == Compare(flat, lost, i) IN
         /\ new \in SUBSET DOMAIN flat /\ lost \subseteq new
         /\ i \in lost => new = lost
         /\ \A j \in new \ lost : \/ /\ j \in Rivals(flat, lost, i)
                                     /\ ~LosesTo(flat[i], flat[j])
                                  \/ j = i /\ Winners(flat, lost, i) # {}
         /\ i \notin new => Rivals(flat, lost, i) \subseteq new
<1> DEFINE n == Len(flat)
           rivals == Rivals(flat, lost, i)
           winners == Winners(flat, lost, i)
           first == CHOOSE j \in winners : \A k \in winners : j <= k
           new == Compare(flat, lost, i)
<1>1. /\ DOMAIN flat = 1 .. n /\ n \in Nat /\ i \in 1 .. n /\ lost \subseteq 1 .. n
      /\ rivals \subseteq 1 .. n /\ winners \subseteq rivals
  BY DEF Rivals, Winners
<1>2. new = IF i \in lost THEN lost
            ELSE IF winners = {} THEN lost \cup rivals
            ELSE lost \cup {i} \cup {j \in rivals : j < first}
  BY DEF Compare, Rivals, Winners
<1>3. winners # {} => first \in winners /\ \A k \in winners : first <= k
  <2>1. ASSUME winners # {} PROVE \E j \in winners : \A k \in winners : j <= k
    <3>1. winners \in SUBSET (1 .. n)
      BY <1>1
    <3> HIDE DEF winners
    <3>2. QED
      BY <1>1, <2>1, <3>1, LeastMember
  <2>2. QED
    BY <2>1
<1>4. \A j \in rivals : j \notin winners => ~LosesTo(flat[i], flat[j])
  BY DEF Winners
<1>5. winners = Winners(flat, lost, i) /\ rivals = Rivals(flat, lost, i)
  OBVIOUS
<1> HIDE DEF first, winners, rivals
<1>6. \A j \in rivals : winners # {} /\ j < first => j \notin winners
  <2>1. ASSUME NEW j \in rivals, winners # {}, j < first PROVE j \notin winners
    <3>1. first \in 1 .. n /\ j \in 1 .. n
      BY <1>1, <1>3, <2>1
    <3>2. QED
      BY <1>3, <2>1, <3>1
  <2>2. QED
    BY <2>1
<1>7. new \in SUBSET DOMAIN flat /\ lost \subseteq new /\ (i \in lost => new = lost)
  BY <1>1, <1>2
<1>8. \A j \in new \ lost : \/ j \in rivals /\ ~LosesTo(flat[i], flat[j])
                            \/ j = i /\ winners # {}
  BY <1>2, <1>4, <1>6
<1>9. i \notin new => rivals \subseteq new
  BY <1>2, <1>7
<1> HIDE DEF new
<1>10. QED
  BY <1>5, <1>7, <1>8, <1>9 DEF new

\* The losers after each of the m outer rounds.
LEMMA LosersRounds ==
  ASSUME NEW flat \in Seq(Found)
  PROVE  \E r : /\ r[0] = {} /\ r[Len(flat)] = Losers(flat)
                /\ \A m \in 1 .. Len(flat) : r[m] = Compare(flat, r[m - 1], m)
<1> DEFINE n == Len(flat)
           s == [i \in DOMAIN flat |-> i]
           Acc == SUBSET DOMAIN flat
           step == [p \in (1 .. n) \X Acc |-> Compare(flat, p[2], p[1])]
           Folds(g) == g = [t \in SUBSET DOMAIN s |->
                              IF t = {} THEN {} ELSE Compare(flat, g[t \ {Max(t)}], s[Max(t)])]
           iter == CHOOSE g : Folds(g)
<1>1. DOMAIN s = 1 .. n /\ DOMAIN flat = 1 .. n /\ n \in Nat /\ \A i \in 1 .. n : s[i] = i
  OBVIOUS
<1>2. Losers(flat) = iter[DOMAIN s]
  BY DEF Losers, FoldLeft, MapThenFoldSet
<1>3. step \in [(1 .. n) \X Acc -> Acc]
  <2>1. ASSUME NEW i \in 1 .. n, NEW lost \in Acc PROVE Compare(flat, lost, i) \in Acc
    BY <1>1, RoundOfLosers
  <2>2. QED
    BY <2>1
<1>4. PICK g \in [SUBSET (1 .. n) -> Acc] : Loop(step, {}, 1 .. n, g)
  <2>1. {} \in Acc
    OBVIOUS
  <2> HIDE DEF step, Acc
  <2>2. QED
    BY <1>1, <1>3, <2>1, LoopTyped
<1>5. Folds(g)
  <2>1. ASSUME NEW t \in SUBSET (1 .. n), t # {}
        PROVE  g[t] = Compare(flat, g[t \ {Max(t)}], s[Max(t)])
    <3>1. Max(t) \in t
      BY <1>1, <2>1, MaxIsMember
    <3>2. g[t] = step[<<Max(t), g[t \ {Max(t)}]>>]
      BY <1>4, <2>1 DEF Loop
    <3>3. Max(t) \in 1 .. n /\ g[t \ {Max(t)}] \in Acc /\ s[Max(t)] = Max(t)
      BY <1>1, <3>1
    <3> HIDE DEF Acc, s
    <3>4. QED
      BY <3>2, <3>3
  <2>2. g = [t \in SUBSET (1 .. n) |-> g[t]] /\ g[{}] = {}
    BY <1>4 DEF Loop
  <2> HIDE DEF s, n, step
  <2>3. QED
    BY <1>1, <2>1, <2>2
<1>6. Folds(iter)
  BY <1>5
<1> DEFINE r == [m \in 0 .. n |-> iter[1 .. m]]
<1>7. ASSUME NEW m \in 1 .. n PROVE r[m] = Compare(flat, r[m - 1], m)
  <2>1. Max(1 .. m) = m /\ (1 .. m) \ {m} = 1 .. m - 1 /\ 1 .. m # {}
    BY LastOfRound
  <2>2. 1 .. m \in SUBSET DOMAIN s /\ s[m] = m
    BY <1>1
  <2> HIDE DEF iter, s
  <2>3. \A t \in SUBSET DOMAIN s : t # {} => iter[t] = Compare(flat, iter[t \ {Max(t)}], s[Max(t)])
    BY <1>6
  <2>4. iter[1 .. m] = Compare(flat, iter[(1 .. m) \ {Max(1 .. m)}], s[Max(1 .. m)])
    BY <2>1, <2>2, <2>3
  <2>5. iter[1 .. m] = Compare(flat, iter[1 .. m - 1], s[m])
    BY <2>1, <2>4
  <2>6. QED
    BY <2>2, <2>5
<1>8. r[0] = {}
  <2> HIDE DEF iter, s
  <2>1. QED
    BY <1>6
<1>9. r[n] = Losers(flat)
  BY <1>1, <1>2
<1> HIDE DEF r, s, n
<1>10. QED
  BY <1>7, <1>8, <1>9 DEF n

\* j competes with i, wherever it is.
Compete(flat, i, j) == flat[j].class # flat[i].class /\ IouAtLeast(flat[i].box, flat[j].box)

\* Nobody beats the best: the largest, of these the first in the alphabet, of these the
\* first of all.
Ahead(flat, j, k) ==
  \/ Area(flat[j].box) > Area(flat[k].box)
  \/ /\ Area(flat[j].box) = Area(flat[k].box)
     /\ \/ Alphabet[flat[j].class] < Alphabet[flat[k].class]
        \/ Alphabet[flat[j].class] = Alphabet[flat[k].class] /\ j < k

LEMMA BestExists ==
  ASSUME NEW flat \in Seq(Found), flat # <<>>
  PROVE  \E best \in DOMAIN flat : \A j \in DOMAIN flat : ~Ahead(flat, j, best)
<1> DEFINE D == DOMAIN flat
           Those(k) == {j \in D : Ahead(flat, j, k)}
           T == {Those(k) : k \in D}
<1>1. ASSUME NEW i \in D, NEW j \in D, NEW k \in D
      PROVE  ~Ahead(flat, i, i) /\ (Ahead(flat, i, j) /\ Ahead(flat, j, k) => Ahead(flat, i, k))
  <2>1. /\ Area(flat[i].box) \in Nat /\ Area(flat[j].box) \in Nat /\ Area(flat[k].box) \in Nat
        /\ Alphabet[flat[i].class] \in Nat /\ Alphabet[flat[j].class] \in Nat
        /\ Alphabet[flat[k].class] \in Nat /\ i \in Nat /\ j \in Nat /\ k \in Nat
    BY RivalsAreMutual
  <2>2. QED
    BY <2>1 DEF Ahead
<1>2. IsFiniteSet(D)
  <2>1. D = 1 .. Len(flat) /\ Len(flat) \in Nat
    OBVIOUS
  <2> HIDE DEF D
  <2>2. QED
    BY <2>1, IntervalFinite
<1>3. PICK x \in T : \A y \in T : y \subseteq x => y = x
  <2>1. T \subseteq SUBSET D /\ T # {}
    <3>1. 1 \in D
      OBVIOUS
    <3>2. QED
      BY <3>1
  <2> HIDE DEF T, D
  <2>2. QED
    BY ONLY <1>2, <2>1, SmallestSet
<1>4. PICK best \in D : x = Those(best)
  BY <1>3
<1>5. ASSUME NEW j \in D, Ahead(flat, j, best) PROVE FALSE
  <2>1. Those(j) \subseteq Those(best) /\ j \in Those(best) /\ j \notin Those(j)
    BY <1>1, <1>5
  <2>2. Those(j) \in T
    OBVIOUS
  <2> HIDE DEF Those, T
  <2>3. QED
    BY <1>3, <1>4, <2>1, <2>2
<1>6. QED
  BY <1>4, <1>5

\* What m rounds achieve.
LosersOK(flat, best, m, lost) ==
  /\ lost \in SUBSET DOMAIN flat
  /\ best \notin lost
  /\ \A i \in 1 .. m : i \notin lost => \A j \in i + 1 .. Len(flat) : Compete(flat, i, j) => j \in lost
  /\ \A j \in lost : \E k \in DOMAIN flat :
       Compete(flat, j, k) /\ Area(flat[k].box) >= Area(flat[j].box)

LEMMA LosersRoundOK ==
  ASSUME NEW flat \in Seq(Found), NEW best \in DOMAIN flat,
         \A j \in DOMAIN flat : ~Ahead(flat, j, best),
         NEW m \in 1 .. Len(flat), NEW lost, LosersOK(flat, best, m - 1, lost)
  PROVE  LosersOK(flat, best, m, Compare(flat, lost, m))
<1> DEFINE n == Len(flat)
           new == Compare(flat, lost, m)
           rivals == Rivals(flat, lost, m)
           winners == Winners(flat, lost, m)
<1>1. /\ DOMAIN flat = 1 .. n /\ n \in Nat /\ m \in DOMAIN flat /\ best \in Nat
      /\ lost \in SUBSET DOMAIN flat
  BY DEF LosersOK
<1>2. /\ new \in SUBSET DOMAIN flat /\ lost \subseteq new
      /\ m \in lost => new = lost
      /\ \A j \in new \ lost : \/ j \in rivals /\ ~LosesTo(flat[m], flat[j])
                               \/ j = m /\ winners # {}
      /\ m \notin new => rivals \subseteq new
  BY <1>1, RoundOfLosers
<1>3. \A j \in rivals : j \in DOMAIN flat /\ m < j /\ j \notin lost /\ Compete(flat, m, j)
  BY <1>1 DEF Rivals, Compete
<1>4. \A j \in winners : j \in rivals /\ LosesTo(flat[m], flat[j])
  BY DEF Winners
<1>5. \A j \in m + 1 .. n : Compete(flat, m, j) /\ j \notin lost => j \in rivals
  BY DEF Rivals, Compete
<1> HIDE DEF new, rivals, winners
<1>6. best \notin new
  <2>1. SUFFICES ASSUME best \in new \ lost PROVE FALSE
    BY DEF LosersOK
  <2>2. \A j \in DOMAIN flat : Area(flat[j].box) \in Nat /\ Alphabet[flat[j].class] \in Nat
    BY RivalsAreMutual
  <2>3. CASE best \in rivals /\ ~LosesTo(flat[m], flat[best])
    <3>1. m < best /\ ~Ahead(flat, m, best)
      BY <1>1, <1>3, <2>3
    <3>2. QED
      BY <1>1, <2>2, <2>3, <3>1 DEF Ahead, LosesTo
  <2>4. CASE best = m /\ winners # {}
    <3>1. PICK j \in winners : LosesTo(flat[m], flat[j]) /\ j \in DOMAIN flat
      BY <1>3, <1>4, <2>4
    <3>2. ~Ahead(flat, j, best)
      BY <3>1
    <3>3. QED
      BY <1>1, <2>2, <2>4, <3>1, <3>2 DEF Ahead, LosesTo
  <2>5. QED
    BY <1>2, <2>1, <2>3, <2>4
<1>7. ASSUME NEW i \in 1 .. m, i \notin new, NEW j \in i + 1 .. n, Compete(flat, i, j)
      PROVE  j \in new
  <2>1. CASE i = m
    BY <1>2, <1>5, <1>7, <2>1
  <2>2. CASE i # m
    <3>1. i \in 1 .. m - 1 /\ i \notin lost
      BY <1>2, <1>7, <2>2
    <3>2. j \in lost
      BY <1>7, <3>1 DEF LosersOK
    <3>3. QED
      BY <1>2, <3>2
  <2>3. QED
    BY <2>1, <2>2
<1>8. ASSUME NEW j \in new
      PROVE  \E k \in DOMAIN flat : Compete(flat, j, k) /\ Area(flat[k].box) >= Area(flat[j].box)
  <2>1. CASE j \in lost
    BY <2>1 DEF LosersOK
  <2>2. CASE j \in rivals /\ ~LosesTo(flat[m], flat[j])
    <3>1. j \in DOMAIN flat /\ Compete(flat, m, j)
      BY <1>3, <2>2
    <3>2. Area(flat[m].box) \in Nat /\ Area(flat[j].box) \in Nat
      BY <1>1, <3>1, RivalsAreMutual
    <3>3. Area(flat[m].box) >= Area(flat[j].box)
      BY <2>2, <3>2 DEF LosesTo
    <3>4. Compete(flat, j, m)
      BY <1>1, <3>1, RivalsAreMutual DEF Compete
    <3>5. QED
      BY <1>1, <3>3, <3>4
  <2>3. CASE j = m /\ winners # {}
    <3>1. PICK k \in winners : k \in DOMAIN flat /\ Compete(flat, m, k) /\ LosesTo(flat[m], flat[k])
      BY <1>3, <1>4, <2>3
    <3>2. Area(flat[m].box) \in Nat /\ Area(flat[k].box) \in Nat
      BY <1>1, <3>1, RivalsAreMutual
    <3>3. Area(flat[k].box) >= Area(flat[m].box)
      BY <3>1, <3>2 DEF LosesTo
    <3>4. QED
      BY <2>3, <3>1, <3>3
  <2>4. QED
    BY <1>2, <2>1, <2>2, <2>3
<1>9. QED
  BY <1>2, <1>6, <1>7, <1>8 DEF LosersOK, new

\* What suppression across classes is for.
LEMMA LosersSeparate ==
  ASSUME NEW flat \in Seq(Found)
  PROVE  /\ \A j, k \in Survivors(flat) : flat[j].class # flat[k].class =>
              ~IouAtLeast(flat[j].box, flat[k].box)
         /\ \A j \in DOMAIN flat \ Survivors(flat) : \E k \in DOMAIN flat :
              Compete(flat, j, k) /\ Area(flat[k].box) >= Area(flat[j].box)
         /\ flat # <<>> => \E k \in Survivors(flat) : \A j \in DOMAIN flat :
              Area(flat[k].box) >= Area(flat[j].box)
<1> DEFINE n == Len(flat)
<1>0. CASE flat = <<>>
  BY <1>0 DEF Survivors
<1> SUFFICES ASSUME flat # <<>>
             PROVE  /\ \A j, k \in Survivors(flat) : flat[j].class # flat[k].class =>
                         ~IouAtLeast(flat[j].box, flat[k].box)
                    /\ \A j \in DOMAIN flat \ Survivors(flat) : \E k \in DOMAIN flat :
                         Compete(flat, j, k) /\ Area(flat[k].box) >= Area(flat[j].box)
                    /\ \E k \in Survivors(flat) : \A j \in DOMAIN flat :
                         Area(flat[k].box) >= Area(flat[j].box)
  BY <1>0
<1>1. PICK best \in DOMAIN flat : \A j \in DOMAIN flat : ~Ahead(flat, j, best)
  BY BestExists
<1>2. PICK r : /\ r[0] = {} /\ r[n] = Losers(flat)
               /\ \A m \in 1 .. n : r[m] = Compare(flat, r[m - 1], m)
  BY LosersRounds
<1>3. n \in Nat /\ DOMAIN flat = 1 .. n
  OBVIOUS
<1> DEFINE G == {m \in 0 .. n : LosersOK(flat, best, m, r[m])}
<1>4. 0 \in G
  <2>1. LosersOK(flat, best, 0, {})
    BY DEF LosersOK
  <2>2. LosersOK(flat, best, 0, r[0]) /\ 0 \in 0 .. n
    BY <1>2, <1>3, <2>1
  <2>3. QED
    BY <2>2
<1>5. ASSUME NEW m \in 1 .. n, m - 1 \in G PROVE m \in G
  <2>1. LosersOK(flat, best, m - 1, r[m - 1])
    BY <1>5
  <2> HIDE DEF G
  <2>2. LosersOK(flat, best, m, Compare(flat, r[m - 1], m))
    BY <1>1, <2>1, LosersRoundOK
  <2>3. QED
    BY <1>2, <1>3, <2>2 DEF G
<1>6. LosersOK(flat, best, n, Losers(flat))
  <2>1. \A m \in 0 .. n : m \in G
    <3> HIDE DEF G
    <3>1. QED
      BY <1>3, <1>4, <1>5, EveryRound
  <2>2. QED
    BY <1>2, <1>3, <2>1
<1>7. /\ Survivors(flat) \subseteq 1 .. n /\ DOMAIN flat \ Survivors(flat) \subseteq Losers(flat)
      /\ \A j \in Survivors(flat) : j \notin Losers(flat)
  BY <1>3, <1>6 DEF Survivors, LosersOK
<1>8. ASSUME NEW j \in Survivors(flat), NEW k \in Survivors(flat), Compete(flat, j, k)
      PROVE  FALSE
  <2>1. j \in 1 .. n /\ k \in 1 .. n /\ j # k
    BY <1>7, <1>8 DEF Compete
  <2>2. Compete(flat, k, j)
    BY <1>3, <1>8, <2>1, RivalsAreMutual DEF Compete
  <2>3. CASE j < k
    <3>1. k \in j + 1 .. n
      BY <2>1, <2>3
    <3>2. QED
      BY <1>6, <1>7, <1>8, <2>1, <3>1 DEF LosersOK
  <2>4. CASE k < j
    <3>1. j \in k + 1 .. n
      BY <2>1, <2>4
    <3>2. QED
      BY <1>6, <1>7, <2>1, <2>2, <3>1 DEF LosersOK
  <2>5. QED
    BY <2>1, <2>3, <2>4
<1>9. \A j \in DOMAIN flat \ Survivors(flat) : \E k \in DOMAIN flat :
        Compete(flat, j, k) /\ Area(flat[k].box) >= Area(flat[j].box)
  BY <1>6, <1>7 DEF LosersOK
<1>10. best \in Survivors(flat) /\ \A j \in DOMAIN flat : Area(flat[best].box) >= Area(flat[j].box)
  <2>1. best \in Survivors(flat)
    BY <1>6 DEF Survivors, LosersOK
  <2>2. \A j \in DOMAIN flat : Area(flat[best].box) \in Nat /\ Area(flat[j].box) \in Nat
    BY RivalsAreMutual
  <2>3. QED
    BY <1>1, <2>1, <2>2 DEF Ahead
<1>11. \A j, k \in Survivors(flat) : flat[j].class # flat[k].class =>
         ~IouAtLeast(flat[j].box, flat[k].box)
  BY <1>8 DEF Compete
<1>12. QED
  BY <1>9, <1>10, <1>11

-----------------------------------------------------------------------------
(* The answers of a tick. *)

Answers == [class : Class, boxes : Seq(Box)]

Join(flat, of) == flat \o [k \in DOMAIN of.boxes |-> [class |-> of.class, box |-> of.boxes[k]]]

LEMMA FlatIsFound ==
  ASSUME NEW per \in Seq(Answers)
  PROVE  Flat(per) \in Seq(Found)
<1> DEFINE n == Len(per)
           Acc == Seq(Found)
           step == [p \in (1 .. n) \X Acc |-> Join(p[2], per[p[1]])]
           Folds(g) == g = [t \in SUBSET DOMAIN per |->
                              IF t = {} THEN <<>> ELSE Join(g[t \ {Max(t)}], per[Max(t)])]
           iter == CHOOSE g : Folds(g)
<1>1. DOMAIN per = 1 .. n /\ n \in Nat
  OBVIOUS
<1>2. Flat(per) = iter[DOMAIN per]
  BY DEF Flat, FoldLeft, MapThenFoldSet, Join
<1>3. ASSUME NEW i \in 1 .. n, NEW flat \in Acc PROVE Join(flat, per[i]) \in Acc
  <2>1. per[i] \in Answers
    BY <1>1
  <2>2. per[i].boxes \in Seq(Box) /\ per[i].class \in Class
    BY <2>1 DEF Answers
  <2>3. \A k \in DOMAIN per[i].boxes : [class |-> per[i].class, box |-> per[i].boxes[k]] \in Found
    BY <2>2 DEF Found
  <2>4. [k \in DOMAIN per[i].boxes |-> [class |-> per[i].class, box |-> per[i].boxes[k]]] \in Seq(Found)
    <3>1. Len(per[i].boxes) \in Nat /\ DOMAIN per[i].boxes = 1 .. Len(per[i].boxes)
      BY <2>2
    <3>2. [k \in 1 .. Len(per[i].boxes) |-> [class |-> per[i].class, box |-> per[i].boxes[k]]]
            \in [1 .. Len(per[i].boxes) -> Found]
      BY <2>3, <3>1
    <3> HIDE DEF Acc
    <3>3. QED
      BY <3>1, <3>2
  <2>5. QED
    BY <2>4 DEF Join
<1>4. step \in [(1 .. n) \X Acc -> Acc]
  BY <1>3
<1>5. PICK g \in [SUBSET (1 .. n) -> Acc] : Loop(step, <<>>, 1 .. n, g)
  <2>1. <<>> \in Acc
    OBVIOUS
  <2> HIDE DEF step, Acc
  <2>2. QED
    BY <1>1, <1>4, <2>1, LoopTyped
<1>6. Folds(g)
  <2>1. ASSUME NEW t \in SUBSET (1 .. n), t # {}
        PROVE  g[t] = Join(g[t \ {Max(t)}], per[Max(t)])
    <3>1. Max(t) \in t
      BY <1>1, <2>1, MaxIsMember
    <3>2. g[t] = step[<<Max(t), g[t \ {Max(t)}]>>]
      BY <1>5, <2>1 DEF Loop
    <3>3. Max(t) \in 1 .. n /\ g[t \ {Max(t)}] \in Acc
      BY <3>1
    <3> HIDE DEF Acc
    <3>4. QED
      BY <3>2, <3>3
  <2>2. g = [t \in SUBSET (1 .. n) |-> g[t]] /\ g[{}] = <<>>
    BY <1>5 DEF Loop
  <2> HIDE DEF n, step
  <2>3. QED
    BY <1>1, <2>1, <2>2
<1>7. Folds(iter)
  BY <1>6
<1> DEFINE G == {m \in 0 .. n : iter[1 .. m] \in Acc}
<1>8. 0 \in G
  <2> HIDE DEF iter
  <2>1. iter[{}] = <<>> /\ 1 .. 0 = {}
    BY <1>7
  <2>2. <<>> \in Acc
    OBVIOUS
  <2> HIDE DEF Acc
  <2>3. iter[1 .. 0] \in Acc
    BY <2>1, <2>2
  <2>4. QED
    BY <1>1, <2>3
<1>9. ASSUME NEW m \in 1 .. n, m - 1 \in G PROVE m \in G
  <2>1. Max(1 .. m) = m /\ (1 .. m) \ {m} = 1 .. m - 1 /\ 1 .. m # {}
    BY LastOfRound
  <2>2. 1 .. m \in SUBSET DOMAIN per
    BY <1>1
  <2> HIDE DEF iter
  <2>3. \A t \in SUBSET DOMAIN per : t # {} => iter[t] = Join(iter[t \ {Max(t)}], per[Max(t)])
    BY <1>7
  <2>4. iter[1 .. m] = Join(iter[(1 .. m) \ {Max(1 .. m)}], per[Max(1 .. m)])
    BY <2>1, <2>2, <2>3
  <2>5. iter[1 .. m] = Join(iter[1 .. m - 1], per[m])
    BY <2>1, <2>4
  <2>6. iter[1 .. m - 1] \in Acc
    BY <1>9
  <2> HIDE DEF Acc
  <2>7. iter[1 .. m] \in Acc
    BY <1>3, <2>5, <2>6
  <2>8. QED
    BY <2>7
<1>10. n \in G
  <2> HIDE DEF G, n
  <2>1. \A m \in 0 .. n : m \in G
    BY <1>1, <1>8, <1>9, EveryRound
  <2>2. QED
    BY <1>1, <2>1
<1>11. QED
  <2> HIDE DEF iter
  <2>1. iter[1 .. n] \in Acc
    BY <1>10
  <2>2. QED
    BY <1>1, <1>2, <2>1

\* A call is about a class, and what was answered so far is boxes.
AnswersOK ==
  /\ TextOK
  /\ asked \in Nat /\ (lock = "watcher" => asked < Len(Classes))
  /\ warm = "loading" => lock = "warmup"
  /\ boxes \in Seq(Answers)

LEMMA AnswersStep ==
  ASSUME AnswersOK, [Next]_vars
  PROVE  AnswersOK'
<1>0. TextOK' /\ Len(Classes) \in Nat
  BY TextStep, DetectionAssumption DEF AnswersOK
<1>1. CASE WarmupStarts \/ WarmupIdle \/ WarmupEnds
  BY <1>0, <1>1 DEF WarmupStarts, WarmupIdle, WarmupEnds, AnswersOK
<1>2. CASE Ask \/ AskFails \/ Emit
  BY <1>0, <1>2 DEF Ask, AskFails, Emit, AnswersOK
<1>3. CASE Answer
  <2> DEFINE new == [class |-> Classes[asked + 1], boxes |-> Nms(ParseLocBoxes(text))]
  <2>1. asked + 1 \in DOMAIN Classes /\ lock = "watcher"
    BY <1>0, <1>3 DEF Answer, AnswersOK
  <2>2. Classes[asked + 1] \in Class
    BY <2>1, DetectionAssumption DEF Class
  <2>3. Nms(ParseLocBoxes(text)) \in Seq(Box)
    BY TextIsBoxes, NmsKeeps DEF AnswersOK
  <2>4. new \in Answers
    BY <2>2, <2>3 DEF Answers
  <2>5. boxes' = Append(boxes, new) /\ asked' = asked + 1 /\ lock' = "free" /\ warm' = warm
    BY <1>3 DEF Answer
  <2> HIDE DEF new
  <2>6. boxes' \in Seq(Answers)
    BY <2>4, <2>5 DEF AnswersOK
  <2>7. QED
    BY <1>0, <2>1, <2>5, <2>6 DEF AnswersOK
<1>4. CASE Garbled
  BY <1>0, <1>4 DEF Garbled, AnswersOK
<1>5. CASE Recount
  <2>1. boxes' = <<>> /\ asked' = 0 /\ lock' = lock /\ warm' = warm /\ asked = Len(Classes)
    BY <1>5 DEF Recount
  <2>2. lock # "watcher"
    BY <1>0, <2>1 DEF AnswersOK
  <2>3. QED
    BY <1>0, <2>1, <2>2 DEF AnswersOK
<1>6. CASE UNCHANGED detVars
  BY <1>0, <1>6 DEF detVars, AnswersOK
<1>7. QED
  BY <1>1, <1>2, <1>3, <1>4, <1>5, <1>6 DEF Next, CameraStep, ModelStep, DetNext, vars, detVars

\* Whatever the model answers for however many classes, suppression across classes
\* separates every two survivors of different classes, drops a box only for one that
\* overlaps it and is not smaller, and leaves some box of the largest area
\* (watcher.py:70 _cross_class_nms).
THEOREM ClassesAreSeparated == Spec => []ClassesSeparated
<1>1. Init => AnswersOK
  BY DEF Init, DetInit, AnswersOK, TextOK
<1>2. AnswersOK /\ [Next]_vars => AnswersOK'
  BY AnswersStep
<1>3. AnswersOK => ClassesSeparated
  <2> SUFFICES ASSUME AnswersOK PROVE ClassesSeparated
    OBVIOUS
  <2>1. Flat(boxes) \in Seq(Found)
    BY FlatIsFound DEF AnswersOK
  <2>2. QED
    BY <2>1, LosersSeparate DEF ClassesSeparated, Compete
<1>4. QED
  BY <1>1, <1>2, <1>3, PTL DEF Spec
=============================================================================
