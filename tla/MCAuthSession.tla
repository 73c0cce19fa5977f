--------------------------- MODULE MCAuthSession ---------------------------
(***************************************************************************)
(* Small instances of AuthSession.                                         *)
(***************************************************************************)
EXTENDS AuthSession, TLC

\* Requests, accounts and nicknames are interchangeable.
Symmetric == Permutations(Requests) \union Permutations(Accounts) \union Permutations(Nicknames)
=============================================================================
