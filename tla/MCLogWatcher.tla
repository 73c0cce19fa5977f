---------------------------- MODULE MCLogWatcher ----------------------------
(***************************************************************************)
(* Instances of LogWatcher for TLC.                                        *)
(***************************************************************************)
EXTENDS LogWatcher, TLC

Symmetric == Permutations(Fingerprints)

=============================================================================
