---------------------------- MODULE MCRetroRoom ----------------------------
(***************************************************************************)
(* Small instances of RetroRoom.                                           *)
(***************************************************************************)
EXTENDS RetroRoom, TLC

\* Requests, members and titles are interchangeable.
Symmetric == Permutations(Requests) \union Permutations(Members) \union Permutations(Titles)
=============================================================================
