-------------------------- MODULE MCAssistantGuide --------------------------
(***************************************************************************)
(* Small instances of AssistantGuide.                                      *)
(***************************************************************************)
EXTENDS AssistantGuide, TLC

\* Requests, members and retrospects are interchangeable.
Symmetric == Permutations(Requests) \union Permutations(Members) \union Permutations(Retros)
=============================================================================
