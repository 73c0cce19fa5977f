-------------------------- MODULE MCFileEventQueue --------------------------
(***************************************************************************)
(* Small instances of FileEventQueue.                                      *)
(***************************************************************************)
EXTENDS FileEventQueue, TLC

CONSTANTS e1, e2, e3

\* e1 and e2 are the same error seen twice; e3 is the least urgent.
Fingerprints == [e \in Events |-> IF e = e3 THEN "other" ELSE "same"]
Priorities == [e \in Events |-> IF e = e1 THEN 1 ELSE IF e = e2 THEN 0 ELSE 3]

\* Workers are interchangeable.
Symmetric == Permutations(Workers)
=============================================================================
