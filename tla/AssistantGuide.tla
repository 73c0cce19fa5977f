--------------------------- MODULE AssistantGuide ---------------------------
(***************************************************************************)
(* The writing assistant and the limits around it:                         *)
(* generate_assistant_guide of domain/retrospect/service.rs, behind the    *)
(* limiters of global/rate_limit.rs and in front of domain/ai/service.rs.  *)
(*                                                                         *)
(* A request is let in by the limiter service, takes a cell of its member  *)
(* and one of the pool all AI calls share, counts the month's uses, calls  *)
(* the AI for up to 30 seconds, and records its use in a transaction that  *)
(* counts again.  Other requests run between any two of these.  A use is   *)
(* named by the request that records it.  The transaction's own insertion  *)
(* and its count are one step, its commit another: until then no other     *)
(* transaction's count sees the use.  The answer is a third step: a use is *)
(* kept before the program learns of it, and may be kept without answer.   *)
(***************************************************************************)
EXTENDS Integers, FiniteSets

CONSTANTS
    Members,
    Retros,
    Requests,       \* requests that may be served
    MonthlyLimit,   \* PlanName::ai_assistant_limit of the free plan
    PoolCells,      \* burst of openai_global
    MaxRefills,     \* bound: cells openai_global gets back
    MaxMonth,       \* bound: months that begin
    None

ASSUME GuideAssumption ==
    /\ {MonthlyLimit, PoolCells} \subseteq Nat \ {0}
    /\ {MaxRefills, MaxMonth} \subseteq Nat
    /\ None \notin Members \union Retros \union Int
    /\ IsFiniteSet(Requests)

VARIABLES
    pc,        \* where each request is
    who,       \* the member who makes it
    endpoint,  \* the endpoint it calls
    retro,     \* the retrospect it is about
    limit,     \* assistant_limit, None for a plan without one
    since,     \* current_month_start
    final,     \* final_count
    pool,      \* cells openai_global has left
    refills,   \* cells openai_global got back
    retros,    \* rows of the table retrospects
    drafts,    \* member_retro rows in status DRAFT
    used,      \* rows of the table assistant_usage
    made,      \* the month of assistant_usage.created_at
    month,     \* the current month
    paid,      \* members with an ACTIVE paid plan
    overlapped \* history: members two of whose transactions overlapped

requestVars == <<pc, who, endpoint, retro, limit, since, final>>
cellVars == <<pool, refills>>
tableVars == <<retros, drafts, used, made>>
clockVars == <<month, paid>>
vars == <<requestVars, cellVars, tableVars, clockVars, overlapped>>

\* assistant_guide and analyze_retrospective of the handlers.
Endpoints == {"guide", "analysis"}

InFlight == {"arrived", "admitted", "calling", "count", "commit", "kept"}
Ended == {"limited", "crowded", "analysing", "over", "answered", "cutoff", "failed"}

\* Where a request's transaction has been committed.
Committed == {"kept", "answered", "cutoff"}

TypeOK ==
    /\ pc \in [Requests -> {"idle"} \union InFlight \union Ended]
    /\ who \in [Requests -> Members \union {None}]
    /\ endpoint \in [Requests -> Endpoints \union {None}]
    /\ retro \in [Requests -> Retros \union {None}]
    /\ limit \in [Requests -> {MonthlyLimit, None}]
    /\ since \in [Requests -> 0..MaxMonth]
    /\ final \in [Requests -> 0..Cardinality(Requests)]
    /\ pool \in 0..PoolCells
    /\ refills \in 0..MaxRefills
    /\ retros \subseteq Retros
    /\ drafts \subseteq Members \X retros
    /\ used \subseteq Requests
    /\ made \in [Requests -> 0..MaxMonth]
    /\ month \in 0..MaxMonth
    /\ paid \subseteq Members
    /\ overlapped \subseteq Members

\* Every member takes part in every retrospect and has submitted nothing.
Init ==
    /\ pc = [r \in Requests |-> "idle"]
    /\ who = [r \in Requests |-> None]
    /\ endpoint = [r \in Requests |-> None]
    /\ retro = [r \in Requests |-> None]
    /\ limit = [r \in Requests |-> None]
    /\ since = [r \in Requests |-> 0]
    /\ final = [r \in Requests |-> 0]
    /\ pool = PoolCells
    /\ refills = 0
    /\ retros = Retros
    /\ drafts = Members \X Retros
    /\ used = {}
    /\ made = [r \in Requests |-> 0]
    /\ month = 0
    /\ paid = {}
    /\ overlapped = {}

-----------------------------------------------------------------------------

Continue(r, next) ==
    /\ pc' = [pc EXCEPT ![r] = next]
    /\ UNCHANGED <<who, endpoint, retro>>

\* What a count of the member's uses since the start of a month returns.
UsesSince(m, start) ==
    Cardinality({q \in used : who[q] = m /\ made[q] >= start})

(***************************************************************************)
(* The limiters                                                            *)
(***************************************************************************)

\* global_rate_limit_middleware: only an answer that says so refuses; a
\* service that is off, late or unreadable does not.
LetsIn(verdict) == verdict # "refused"

\* Mutant: a refusal by the member's limiter is counted against all.
PoolAtArrival_Charged(granted) == IF ~granted /\ pool > 0 THEN pool - 1 ELSE pool

\* The pool is not touched before the member's limiter has agreed.
PoolAtArrival(granted) == pool

\* First half of check_guide and check_analysis: the member's own limiter of
\* the endpoint has a cell or not.
Arrive(r, m, e, x, verdict, granted) ==
    /\ pc[r] = "idle"
    /\ LetsIn(verdict)
    /\ pc' = [pc EXCEPT ![r] = IF granted THEN "arrived" ELSE "limited"]
    /\ pool' = PoolAtArrival(granted)
    /\ who' = [who EXCEPT ![r] = m]
    /\ endpoint' = [endpoint EXCEPT ![r] = e]
    /\ retro' = [retro EXCEPT ![r] = x]
    /\ UNCHANGED <<limit, since, final, refills, tableVars, clockVars, overlapped>>

\* Second half: without a cell of the pool the member has lost its own for
\* nothing.  What an analysis does next is in module RetrospectLifecycle.
TakePoolCell(r) ==
    /\ pc[r] = "arrived"
    /\ IF pool > 0
       THEN /\ pool' = pool - 1
            /\ Continue(r, IF endpoint[r] = "guide" THEN "admitted" ELSE "analysing")
       ELSE /\ Continue(r, "crowded")
            /\ UNCHANGED pool
    /\ UNCHANGED <<limit, since, final, refills, tableVars, clockVars, overlapped>>

(***************************************************************************)
(* generate_assistant_guide                                                *)
(***************************************************************************)

\* The plan has no limit, or the count is still below it.
WithinLimit(lim, count) == lim = None \/ count < lim

PlanLimit(m) == IF m \in paid THEN None ELSE MonthlyLimit

\* The retrospect is there, the member takes part and has not submitted, and
\* the month's uses leave room in the plan.
GuideCheck(r) ==
    /\ pc[r] = "admitted"
    /\ limit' = [limit EXCEPT ![r] = PlanLimit(who[r])]
    /\ since' = [since EXCEPT ![r] = month]
    /\ Continue(r,
         IF /\ <<who[r], retro[r]>> \in drafts
            /\ WithinLimit(PlanLimit(who[r]), UsesSince(who[r], month))
         THEN "calling" ELSE "failed")
    /\ UNCHANGED <<final, cellVars, tableVars, clockVars, overlapped>>

\* What may come back from OpenAI: no answer within 30 seconds or an error, or
\* a text that is JSON or not, with some number of guides.
Answers == {None} \union [json : BOOLEAN, guides : 0..4]

\* An answer to work with: one to three guides.
Usable(a) == a # None /\ a.json /\ a.guides \in 1..3

GuideCall(r, a) ==
    /\ pc[r] = "calling"
    /\ Continue(r, IF Usable(a) THEN "count" ELSE "failed")
    /\ UNCHANGED <<limit, since, final, cellVars, tableVars, clockVars, overlapped>>

\* Requests whose transaction has inserted its use.
OpenTxns(m) == {q \in Requests : pc[q] = "commit" /\ who[q] = m}

\* Mutant: the count after the insertion misses the inserted row.
CountAfter_WithoutOwn(r) == UsesSince(who[r], since[r])

\* The count after the insertion: the uses that are committed, and its own.
CountAfter(r) == UsesSince(who[r], since[r]) + 1

\* The use is inserted, which the foreign key refuses without its retrospect,
\* and the uses are counted again.
GuideCount(r) ==
    /\ pc[r] = "count"
    /\ IF retro[r] \in retros
       THEN /\ final' = [final EXCEPT ![r] = CountAfter(r)]
            /\ made' = [made EXCEPT ![r] = month]
            /\ overlapped' = IF OpenTxns(who[r]) # {} THEN overlapped \union {who[r]} ELSE overlapped
            /\ Continue(r, "commit")
       ELSE /\ Continue(r, "failed")
            /\ UNCHANGED <<final, made, overlapped>>
    /\ UNCHANGED <<limit, since, cellVars, retros, drafts, used, clockVars>>

\* Mutant: the comparison after the count is the one before it.
OverLimit_Late(r) == limit[r] # None /\ final[r] > limit[r] + 1

\* Too many by now.
OverLimit(r) == limit[r] # None /\ final[r] > limit[r]

\* Mutant: the rollback is forgotten.
Recorded_Always(r) == TRUE

\* The use is kept.
Recorded(r) == ~OverLimit(r)

\* The database commits the transaction or rolls it back.
GuideCommit(r) ==
    /\ pc[r] = "commit"
    /\ used' = IF Recorded(r) THEN used \union {r} ELSE used
    /\ Continue(r, IF OverLimit(r) THEN "over" ELSE "kept")
    /\ UNCHANGED <<limit, since, final, cellVars, retros, drafts, made, clockVars, overlapped>>

\* commit() has returned without an error, and the guides are sent.
GuideAnswer(r) ==
    /\ pc[r] = "kept"
    /\ Continue(r, "answered")
    /\ UNCHANGED <<limit, since, final, cellVars, tableVars, clockVars, overlapped>>

\* remaining_count of the answer, -1 for a plan without a limit.
Remaining(r) == IF limit[r] = None THEN -1 ELSE limit[r] - final[r]

-----------------------------------------------------------------------------

\* The pool gets a cell back.
Refill ==
    /\ refills < MaxRefills
    /\ pool < PoolCells
    /\ pool' = pool + 1
    /\ refills' = refills + 1
    /\ UNCHANGED <<requestVars, tableVars, clockVars, overlapped>>

NextMonth ==
    /\ month < MaxMonth
    /\ month' = month + 1
    /\ UNCHANGED <<requestVars, cellVars, tableVars, paid, overlapped>>

\* A subscription becomes ACTIVE or ends (module Subscription).
PlanChanges(m) ==
    /\ paid' = IF m \in paid THEN paid \ {m} ELSE paid \union {m}
    /\ UNCHANGED <<requestVars, cellVars, tableVars, month, overlapped>>

\* submit_retrospect (module RetrospectLifecycle).
Submit(m, x) ==
    /\ <<m, x>> \in drafts
    /\ drafts' = drafts \ {<<m, x>>}
    /\ UNCHANGED <<requestVars, cellVars, retros, used, made, clockVars, overlapped>>

\* delete_retrospect deletes the uses too.  It waits for a transaction whose
\* insertion has locked the retrospect's row.
DeleteRetro(x) ==
    /\ x \in retros
    /\ \A r \in Requests : pc[r] = "commit" => retro[r] # x
    /\ retros' = retros \ {x}
    /\ drafts' = {d \in drafts : d[2] # x}
    /\ used' = {r \in used : retro[r] # x}
    /\ UNCHANGED <<requestVars, cellVars, made, clockVars, overlapped>>

\* A database error, the client hung up, the process stopped.  An open
\* transaction is rolled back; one the database has committed stays committed,
\* though commit() returns an error or is never returned from.
Abort(r) ==
    /\ pc[r] \in InFlight
    /\ Continue(r, IF pc[r] = "kept" THEN "cutoff" ELSE "failed")
    /\ UNCHANGED <<limit, since, final, cellVars, tableVars, clockVars, overlapped>>

Serve(r) ==
    \/ TakePoolCell(r) \/ GuideCheck(r) \/ GuideCount(r) \/ GuideCommit(r) \/ GuideAnswer(r)
    \/ \E a \in Answers : GuideCall(r, a)

Next ==
    \/ \E r \in Requests, m \in Members, e \in Endpoints, x \in Retros,
          verdict \in {"allowed", "refused", "unavailable"}, granted \in BOOLEAN :
            Arrive(r, m, e, x, verdict, granted)
    \/ \E r \in Requests : Serve(r) \/ Abort(r)
    \/ \E m \in Members : PlanChanges(m) \/ \E x \in Retros : Submit(m, x)
    \/ \E x \in Retros : DeleteRetro(x)
    \/ Refill \/ NextMonth

Spec == Init /\ [][Next]_vars

-----------------------------------------------------------------------------
(***************************************************************************)
(* Properties                                                              *)
(***************************************************************************)

\* The uses of a month that were recorded under a limit.
LimitedUses(m, mon) ==
    {q \in used : who[q] = m /\ made[q] = mon /\ limit[q] # None}

\* A use is recorded for the requests whose transaction was committed, until
\* their retrospect is deleted, and for no other.  So every answer has been paid
\* for, and a request that failed at the AI or before its commit, or that found
\* the limit passed, has paid nothing; only one that was cut off between the
\* commit and its answer has paid for guides it never got
\* (generate_assistant_guide, steps 7 and 8).
ChargedIffCommitted ==
    \A r \in Requests :
        r \in used <=> pc[r] \in Committed /\ retro[r] \in retros

\* A member never gets more guides in a month under the limit of the free plan
\* than it has, however requests, plans, deletions and the turn of the month
\* fall, as long as the member's transactions do not overlap.
LimitHeldApart ==
    \A m \in Members \ overlapped, mon \in 0..MaxMonth :
        Cardinality(LimitedUses(m, mon)) <= MonthlyLimit

\* The remaining uses an answer reports are not negative, so -1 can only mean
\* a plan without a limit.
RemainingHonest ==
    \A r \in Requests :
        pc[r] = "answered" => (Remaining(r) < 0 <=> limit[r] = None)

Admitted == {r \in Requests : pc[r] \notin {"idle", "arrived", "limited", "crowded"}}

\* Every cell the pool has lost went to a request that was admitted to the AI:
\* one member's flood, refused by its own limiter, costs the others nothing
\* (check_guide).
PoolConserved == PoolCells + refills - pool <= Cardinality(Admitted)

\* generate_assistant_guide step 8 says that its second count is safe under
\* concurrency: not even overlapping requests pass the limit.
AssistantLimitKept ==
    \A m \in Members, mon \in 0..MaxMonth :
        Cardinality(LimitedUses(m, mon)) <= MonthlyLimit

\* The inductive invariant.  A transaction that has counted its use keeps its
\* retrospect, and until it commits its count is no less than what its member
\* has used, unless another transaction of the member overlaps it.
CountStands ==
    \A r \in Requests :
        pc[r] = "commit" =>
            /\ retro[r] \in retros
            /\ since[r] <= made[r]
            /\ who[r] \notin overlapped =>
                 /\ UsesSince(who[r], since[r]) + 1 <= final[r]
                 /\ \A q \in Requests : pc[q] = "commit" /\ who[q] = who[r] => q = r

RequestsBegun ==
    \A r \in Requests :
        /\ pc[r] # "idle" => who[r] \in Members
        /\ pc[r] \in {"calling", "count"} => since[r] <= month

CommittedWithin ==
    \A r \in Requests : pc[r] \in Committed => limit[r] = None \/ final[r] <= limit[r]

IInv ==
    /\ TypeOK
    /\ CountStands
    /\ RequestsBegun
    /\ CommittedWithin
    /\ ChargedIffCommitted
    /\ LimitHeldApart
    /\ PoolConserved

=============================================================================
