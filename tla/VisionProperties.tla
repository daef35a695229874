-------------------------- MODULE VisionProperties --------------------------
(***************************************************************************)
(* What the watcher should guarantee about the counts it commits.            *)
(***************************************************************************)
EXTENDS Vision

\* "See it N times before believing it" (watcher.py:412): with fewer misreads
\* than the window is long, every count the watcher remembers as committed is one
\* a picture it was shown really had, however captures, skips, failures of the
\* model and restarts fall between the reads.
BelievedWasSeen ==
  [][\A i \in Items : last'[i] \notin {last[i], Never} =>
       \E k \in DOMAIN truths'[i] : truths'[i][k] = last'[i]]_vars

\* "Without this, a static counter would flood the log with redundant CountSets"
\* (inventory.py:44): the watcher writes an item at most once after boot, and once
\* more for each time the fruit moved, twice for a misread that came and went, and
\* once for a failed append, whatever others do to the inventory meanwhile and
\* however often the heartbeat re-reads the shelf.
LogNotFlooded == \A i \in Items : credit[i] >= 0

\* The camera's silences end.
CameraRuns == <>[](~cache.stale)

\* Once the fruit lies still and the camera's silences end, the counts committed by
\* the watcher become those of the shelf and stay so, though the motion gate cannot
\* see every move and the model and the store fail now and then (watcher.py:348); so
\* do the inventory's, as long as nobody else wrote it, since the watcher compares
\* with what it committed itself (watcher.py:434).
CatchesUp ==
  CameraRuns =>
    <>[](\A k \in DOMAIN Counted : LET i == Counted[k] IN
           last[i] = shelf[i] /\ (trades = 0 => stock[i] = shelf[i]))
=============================================================================
