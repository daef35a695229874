------------------------------- MODULE Camera -------------------------------
(***************************************************************************)
(* From the device to the streamer's cache: the backend chosen at boot by   *)
(* probing, the OpenCV device handle with its warm-up, the streamer's       *)
(* capture thread, and the shutdown that joins the thread for two seconds   *)
(* and then closes the camera.                                              *)
(*                                                                         *)
(* A round of the thread is three steps, so that a shutdown can fall between *)
(* them: it finds the stop event not set, takes the backend's lock and has   *)
(* its picture.  The join times out inside a capture, or while the thread    *)
(* imports OpenCV for its first one: nothing else in the loop takes two      *)
(* seconds.                                                                *)
(***************************************************************************)
EXTENDS Naturals, Sequences

CONSTANTS
  Backends   (* values of FM_CAMERA_BACKEND: "auto", "daemon", "cv2", "broker", "file" *)

VARIABLES
  working,   (* the backends that would deliver a picture now *)
  camera,    (* the open backend, "booting" or "none" (vision disabled) *)
  probes,    (* candidates probed so far *)
  cap,       (* the OpenCV handle: pictures read since it was opened, or Closed *)
  warmed,    (* Cv2Camera._warmed *)
  imported,  (* OpenCV is loaded *)
  thread,    (* the streamer's thread *)
  phase,     (* "up", "stopping", "closing", "down" *)
  outrun     (* history: the join gave up on a thread that was importing OpenCV *)

camVars == <<working, camera, probes, cap, warmed, imported, thread, phase, outrun>>

Candidates == <<"daemon", "cv2", "broker">>
Closed == 99
Settled == 3   \* the first two pictures after opening are dark

CamInit ==
  /\ working \in SUBSET {"daemon", "cv2"}
  /\ camera \in {IF b = "auto" THEN "booting" ELSE b : b \in Backends}
  /\ probes = 0
  /\ cap = Closed /\ warmed = FALSE /\ imported = FALSE
  /\ thread = "idle" /\ phase = "up" /\ outrun = FALSE

\* The device is unplugged, or the daemon started.
Plug ==
  /\ phase = "up"
  /\ \E b \in {"daemon", "cv2"} :
       working' = IF b \in working THEN working \ {b} ELSE working \cup {b}
  /\ UNCHANGED <<camera, probes, cap, warmed, imported, thread, phase, outrun>>

-----------------------------------------------------------------------------
(* Snapshots, by backend: each is TRUE for a picture and FALSE for a raise. *)

\* Reachable, answering 200, with a body.
DaemonSnapshot(pic) == pic = ("daemon" \in working) /\ UNCHANGED <<cap, warmed>>

\* The helper is there, exits 0 in time and writes a file.
BrokerSnapshot(pic) == pic = ("broker" \in working) /\ UNCHANGED <<cap, warmed>>

\* The pinned file exists and is not empty.
FileSnapshot(pic) == pic = ("file" \in working) /\ UNCHANGED <<cap, warmed>>

\* _ensure_open gives a handle that has read nothing yet, unless one is open.
Opened == IF cap = Closed THEN 0 ELSE cap

Capped(n) == IF n > Settled THEN Settled ELSE n

\* Two pictures are dropped the first time; a read that fails drops the handle,
\* and a picture that cannot be encoded does not.
Cv2Snapshot(pic) ==
  LET skipped == IF warmed THEN 0 ELSE 2 IN
  \/ /\ pic /\ "cv2" \in working
     /\ cap' = Capped(Opened + skipped + 1) /\ warmed' = TRUE
  \/ /\ ~pic /\ "cv2" \in working
     /\ cap' = Capped(Opened + skipped + 1) /\ warmed' = TRUE
  \/ /\ ~pic /\ "cv2" \notin working
     /\ cap' = Closed /\ warmed' \in {warmed, TRUE}

Snapshot(b, pic) ==
  \/ b = "daemon" /\ DaemonSnapshot(pic)
  \/ b = "cv2"    /\ Cv2Snapshot(pic)
  \/ b = "broker" /\ BrokerSnapshot(pic)
  \/ b = "file"   /\ FileSnapshot(pic)

-----------------------------------------------------------------------------
(* Boot: open_camera. *)

ProbeWins ==
  LET b == Candidates[probes + 1] IN
  /\ camera = "booting"
  /\ Snapshot(b, TRUE)
  /\ camera' = b /\ probes' = probes + 1
  /\ imported' = (imported \/ b = "cv2")
  /\ UNCHANGED <<working, thread, phase, outrun>>

\* The candidate is closed again, whatever its snapshot had opened.
ProbeFails ==
  LET b == Candidates[probes + 1] IN
  /\ camera = "booting"
  /\ \/ b = "cv2" /\ "cv2" \in working       \* opened, and not encoded
     \/ b \notin working
  /\ cap' = Closed /\ warmed' = FALSE
  /\ probes' = probes + 1
  /\ camera' = IF probes' = Len(Candidates) THEN "none" ELSE "booting"
  /\ imported' \in {imported, imported \/ b = "cv2"}
  /\ UNCHANGED <<working, thread, phase, outrun>>

-----------------------------------------------------------------------------
(* The streamer's thread. *)

Running == camera \notin {"booting", "none"}

\* The stop event is not set.
BeginRound ==
  /\ Running /\ thread = "idle" /\ phase = "up"
  /\ thread' = "starting"
  /\ UNCHANGED <<working, camera, probes, cap, warmed, imported, phase, outrun>>

\* Cv2Camera.snapshot imports OpenCV before it takes the lock.
Importing == thread = "starting" /\ camera = "cv2" /\ ~imported

ImportFails ==
  /\ Importing
  /\ thread' = "idle"
  /\ UNCHANGED <<working, camera, probes, cap, warmed, imported, phase, outrun>>

BeginCapture ==
  /\ thread = "starting"
  /\ thread' = "capturing"
  /\ imported' = (imported \/ camera = "cv2")
  /\ UNCHANGED <<working, camera, probes, cap, warmed, phase, outrun>>

\* _run records the picture, or counts the failure and waits a little longer.
EndCapture ==
  /\ thread = "capturing"
  /\ \E pic \in BOOLEAN : Snapshot(camera, pic)
  /\ thread' = "idle"
  /\ UNCHANGED <<working, camera, probes, imported, phase, outrun>>

\* (mutant) the loop does not look at the stop event
StreamerRunsOn ==
  /\ Running /\ thread = "idle" /\ phase # "up"
  /\ thread' = "starting"
  /\ UNCHANGED <<working, camera, probes, cap, warmed, imported, phase, outrun>>

\* The loop sees the stop event, which also ends its wait.
StreamerEnds ==
  /\ Running /\ thread = "idle" /\ phase # "up"
  /\ thread' = "ended"
  /\ UNCHANGED <<working, camera, probes, cap, warmed, imported, phase, outrun>>

-----------------------------------------------------------------------------
(* Shutdown. *)

StopStreamer ==
  /\ Running /\ phase = "up"
  /\ phase' = "stopping"
  /\ UNCHANGED <<working, camera, probes, cap, warmed, imported, thread, outrun>>

\* join returns when the thread has ended, or gives up inside a slow capture or import.
Joined ==
  /\ phase = "stopping" /\ (thread \in {"ended", "capturing"} \/ Importing)
  /\ phase' = "closing" /\ outrun' = Importing
  /\ UNCHANGED <<working, camera, probes, cap, warmed, imported, thread>>

CloseWithoutLock ==   \* (mutant) a capture may be under way
  /\ phase = "closing"
  /\ phase' = "down"
  /\ cap' = Closed /\ warmed' = FALSE
  /\ UNCHANGED <<working, camera, probes, imported, thread, outrun>>

\* Cv2Camera.close waits for the lock of a capture that outlived the join; the
\* other backends have nothing to release and nothing to wait for.
CloseCamera ==
  /\ phase = "closing" /\ (camera = "cv2" => thread # "capturing")
  /\ phase' = "down"
  /\ cap' = Closed /\ warmed' = IF cap = Closed THEN warmed ELSE FALSE
  /\ UNCHANGED <<working, camera, probes, imported, thread, outrun>>

CamNext ==
  \/ Plug \/ ProbeWins \/ ProbeFails
  \/ BeginRound \/ ImportFails \/ BeginCapture \/ EndCapture \/ StreamerEnds
  \/ StopStreamer \/ Joined \/ CloseCamera

CamFairness == WF_camVars(BeginCapture) /\ WF_camVars(EndCapture)
               /\ WF_camVars(StreamerEnds) /\ WF_camVars(Joined) /\ WF_camVars(CloseCamera)
=============================================================================
