---------------------------- MODULE TriggerFilter ----------------------------
(***************************************************************************)
(* The trigger filter (codes/server/src/event/trigger.rs) between the      *)
(* intake and the handlers: should_trigger looks at its lists and then     *)
(* asks the rate limiter, which it shares with all its clones, for a slot  *)
(* of the action the event counts as; automation may ask for a slot        *)
(* directly (check_rate_limit).                                            *)
(***************************************************************************)
EXTENDS RateLimiter, EventIntake

CONSTANT Environments  \* what the variables TRIGGER_... may hold

Events == {EventOf(a) : a \in Arrivals} \ {None}
Severities == {"info", "warning", "critical"}

ASSUME FilterAssumption ==
    /\ Actions = {"api_call", "branch_creation", "pr_creation"}
    /\ Environments \subseteq
          [enabled : SUBSET ({e.type : e \in Events} \union {None}), users : SUBSET (Users \union {None}),
           ignored : SUBSET (Codes \union {None}), min : STRING]

VARIABLE filter  \* the lists of the filter

\* TriggerFilter::default.
Default == [active |-> TRUE, enabled |-> {}, users |-> {}, ignored |-> {}, min |-> "warning"]

\* The items of a list separated by commas, those left empty (None) dropped.
Items(list) == list \ {None}

\* TriggerFilterBuilder::load_from_env; a severity it cannot read, or one that
\* is not set, leaves the default.
FromEnv(env) ==
    [Default EXCEPT !.enabled = Items(env.enabled), !.users = Items(env.users), !.ignored = Items(env.ignored),
                    !.min = IF env.min \in Severities THEN env.min ELSE @]

\* What is configured, or allow_all.
FilterInit ==
    /\ Init
    /\ filter \in {FromEnv(env) : env \in Environments} \union {[Default EXCEPT !.active = FALSE]}

-----------------------------------------------------------------------------

Rank(severity) == CASE severity = "info" -> 0 [] severity = "warning" -> 1 [] severity = "critical" -> 2

\* Mutant: what has no severity counts as Info, not only for monitoring events.
SevereEnough_EveryType(e) ==
    Rank(IF e.severity = None THEN "info" ELSE e.severity) >= Rank(filter.min)

\* A monitoring event always has a severity here: create_event writes it.
SevereEnough(e) == e.severity # None => Rank(e.severity) >= Rank(filter.min)

\* should_trigger up to the rate limiter.
PassesLists(e) ==
    filter.active =>
        /\ filter.enabled = {} \/ e.type \in filter.enabled
        /\ filter.users = {} \/ e.user \in filter.users
        /\ e.code \notin filter.ignored
        /\ SevereEnough(e)

\* should_trigger; an inactive filter lets the event pass without a slot.
AskForSlot(c, e) ==
    /\ filter.active /\ PassesLists(e)
    /\ ReadClock(c, ActionOf(e.type))
    /\ UNCHANGED filter

\* check_rate_limit, and the limiter's other half.
LimiterStep ==
    /\ \/ \E c \in Callers, action \in Actions : ReadClock(c, action)
       \/ \E c \in Callers : Acquire(c)
       \/ Reset
       \/ Tick
    /\ UNCHANGED filter

FilterNext ==
    \/ \E c \in Callers, e \in Events : AskForSlot(c, e)
    \/ LimiterStep

FilterSpec == FilterInit /\ [][FilterNext]_<<vars, filter>>

-----------------------------------------------------------------------------
(***************************************************************************)
(* Properties                                                              *)
(***************************************************************************)

\* The tables that are kept by hand agree on every event that passes: the
\* priority its producer wrote is the one the table by type gives it
\* (create_event, create_discord_event, handle_issues_event and its likes
\* against Priority::from_event_type), its handler is the one of where it came
\* from (dispatch_event), and it takes a slot of the API calls, so that no
\* webhook, command or error uses up what the automation needs for its branches
\* and pull requests (event_to_rate_limit_action).
TablesAgree ==
    \A e \in Events :
        PassesLists(e) =>
            /\ e.priority = FromEventType(e)
            /\ Handler(e.type) = e.source
            /\ ActionOf(e.type) = "api_call"

\* Without lists of types, users and codes no command, webhook or critical
\* error is refused before it gets to the limiter, however severe an error has
\* to be: the minimum is for errors only (step 4 of should_trigger).  Nor is any
\* failure of the AI service that the server answers with, whatever minimum is
\* set (error_code and into_response against LogEntry::severity).
Unlisted == filter.users = {} /\ filter.enabled = {} /\ filter.ignored = {}

NothingUrgentHidden ==
    Unlisted =>
        /\ \A e \in Events : e.severity \in {None, "critical"} => PassesLists(e)
        /\ \A x \in CodeFamilies["AI5"] : PassesLists(LogEvent(LineOf(x)))

=============================================================================
