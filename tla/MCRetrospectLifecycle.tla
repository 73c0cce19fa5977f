----------------------- MODULE MCRetrospectLifecycle -----------------------
(***************************************************************************)
(* Small instances of RetrospectLifecycle.                                 *)
(***************************************************************************)
EXTENDS RetrospectLifecycle, TLC

\* Requests, questions, retrospects, and members on the same plan are
\* interchangeable.
Symmetric == Permutations(Requests) \union Permutations(Members) \union Permutations(Questions)
                \union Permutations(Retros)
=============================================================================
