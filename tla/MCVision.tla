------------------------------ MODULE MCVision ------------------------------
(* Small instances of the watcher for the model checker. *)
EXTENDS VisionProperties

CONSTANTS apple, banana

BothFruit == <<apple, banana>>

\* The length tells an empty shelf from one with fruit and nothing else: the
\* motion gate takes a fruit more, or an apple for a banana, for a shelf at rest.
Coarse == [p \in Pictures |-> IF \A i \in Items : p[i] = 0 THEN 0 ELSE 1]
=============================================================================
