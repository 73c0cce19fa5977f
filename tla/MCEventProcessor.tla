-------------------------- MODULE MCEventProcessor --------------------------
(***************************************************************************)
(* Small instances of EventProcessor.                                      *)
(***************************************************************************)
EXTENDS EventProcessor

CONSTANTS e1, e2, e3

\* e1 is an error; the event the filter does not want is the least urgent.
OwnFingerprints == [e \in Events |-> e]
Priorities == [e \in Events |-> IF e = e1 THEN 0 ELSE IF e = e2 THEN 1 ELSE 3]
=============================================================================
