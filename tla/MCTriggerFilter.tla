--------------------------- MODULE MCTriggerFilter ---------------------------
(***************************************************************************)
(* Small instances of TriggerFilter.                                       *)
(***************************************************************************)
EXTENDS TriggerFilter, TLC

CONSTANTS u1, u2

\* Two API calls, which is what events count as, in three steps; no branches
\* and pull requests: the windows of the actions do not touch.
Limits == [action \in Actions |-> IF action = "api_call" THEN 2 ELSE 0]
Windows == [action \in Actions |-> 3]

\* Nothing set; a severity; lists, one of them empty, and a severity that is none.
Unset == [enabled |-> {}, users |-> {}, ignored |-> {}, min |-> ""]
Settings ==
    {Unset,
     [Unset EXCEPT !.min = "critical"],
     [Unset EXCEPT !.users = {None}, !.min = "urgent"],
     [Unset EXCEPT !.users = {u1, None}, !.enabled = {Command("fix")}, !.ignored = {"AI5"}]}

\* Calls are interchangeable.
Symmetric == Permutations(Callers)
=============================================================================
