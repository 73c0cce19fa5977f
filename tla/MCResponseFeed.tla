--------------------------- MODULE MCResponseFeed ---------------------------
(***************************************************************************)
(* Small instances of ResponseFeed.                                        *)
(***************************************************************************)
EXTENDS ResponseFeed, TLC

\* Requests and members are interchangeable.
Symmetric == Permutations(Requests) \union Permutations(Members)
=============================================================================
