--------------------------- MODULE MCSubscription ---------------------------
(***************************************************************************)
(* Small instances of Subscription.                                        *)
(***************************************************************************)
EXTENDS Subscription, TLC

\* Requests, members and paid plans are interchangeable.
Symmetric == Permutations(Requests) \union Permutations(Members) \union Permutations(PaidPlans)
=============================================================================
