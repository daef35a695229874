-------------------------------- MODULE Sight --------------------------------
(***************************************************************************)
(* The camera and the model side by side, as VisionBundle holds them, and    *)
(* what they should guarantee.  The warm-up starts once a camera is open,    *)
(* the first call of the model once the watcher runs, and shutdown stops the *)
(* watcher, that is the calls, before the streamer.                         *)
(***************************************************************************)
EXTENDS Camera, Detection

vars == <<camVars, detVars>>

Init == CamInit /\ DetInit

\* build_default_vision: everything but the camera waits for the camera.
ModelMayRun == Running /\ phase = "up"

\* The watcher's stop waits for its tick before the streamer is stopped.
ShutdownMayStart == lock # "watcher" /\ asked \in {0, Len(Classes)}

CameraStep == CamNext /\ (phase' = phase \/ phase # "up" \/ ShutdownMayStart) /\ UNCHANGED detVars
ModelStep == DetNext /\ (ModelMayRun \/ lock = "warmup") /\ UNCHANGED camVars

Next == CameraStep \/ ModelStep

Spec == Init /\ [][Next]_vars

\* The threads run on, calls of the device and of the model return.
FairSpec == Spec /\ CamFairness /\ DetFairness

-----------------------------------------------------------------------------

\* The device is held by the chosen camera only, never by a candidate whose probe
\* failed half-way, and by nobody once the shutdown is over, even when it gave up
\* waiting for a capture under way (camera.py:141 close, :423; streamer.py:158).  What was
\* probed is never held on; a pinned "cv2" may be, when the join gave up while the thread
\* imported OpenCV for its first picture (camera.py:115, before the lock): the thread
\* then opens the device after the close, and takes one picture.
DeviceReleased ==
  cap # Closed => camera = "cv2" /\ (phase = "down" => outrun /\ probes = 0)

\* The weights are never loaded twice, though the warm-up thread and the first
\* calls of the watcher race for them (model.py:218 _load_locked).
LoadedOnce == loads.done <= 1

\* Suppression within a class leaves no twins, and drops a box only for a twin at
\* least as large that it keeps (model.py:566 _nms).
TwinsCollapse ==
  LET all == ParseLocBoxes(text)
      kept == Nms(all)
  IN
  /\ \A j, k \in DOMAIN kept : j # k => ~IouAbove(kept[j], kept[k])
  /\ \A n \in DOMAIN all : \E k \in DOMAIN kept :
       \/ kept[k] = all[n]
       \/ IouAbove(all[n], kept[k]) /\ Area(kept[k]) >= Area(all[n])

\* Suppression across classes, whose loop skips losers and breaks off, still
\* separates every two survivors of different classes, drops a box only for one
\* that overlaps it and is not smaller, and never drops every box of a place where
\* fruit was seen (watcher.py:70 _cross_class_nms).
ClassesSeparated ==
  LET flat == Flat(boxes)
      alive == Survivors(flat)
  IN
  /\ \A j, k \in alive : flat[j].class # flat[k].class => ~IouAtLeast(flat[j].box, flat[k].box)
  /\ \A n \in DOMAIN flat \ alive : \E k \in DOMAIN flat :
       /\ flat[k].class # flat[n].class
       /\ IouAtLeast(flat[n].box, flat[k].box)
       /\ Area(flat[k].box) >= Area(flat[n].box)
  /\ flat # <<>> => \E k \in alive : \A n \in DOMAIN flat : Area(flat[k].box) >= Area(flat[n].box)

\* Every shutdown ends, also one that starts in the middle of a capture or of the
\* warm-up (streamer.py:152 stop).
ShutdownEnds == phase = "stopping" ~> phase = "down"
=============================================================================
