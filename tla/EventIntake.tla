----------------------------- MODULE EventIntake -----------------------------
(***************************************************************************)
(* What becomes an event: GitHub webhooks and Discord interactions         *)
(* (domain/webhook/github_handler.rs, discord_handler.rs, dto.rs) and      *)
(* lines of the log (create_event in monitoring/log_watcher.rs), with the  *)
(* tables an event is looked up in later: its priority by type             *)
(* (event/event_types.rs), its handler (monitoring/processor.rs) and the   *)
(* action it is counted as (event/trigger.rs).  The lines of the log are   *)
(* those of the server's own errors (utils/error.rs), whose tables give    *)
(* each a code and a level.                                                *)
(*                                                                         *)
(* An arrival is what is left of a request once its signature is verified  *)
(* and its body parsed.  The tables split an event type at its dots and    *)
(* look for words in it: it is a sequence of segments, each a sequence of  *)
(* words.  A branch is the sequence of its parts between slashes, a text   *)
(* says whether the bot is mentioned in it and which keywords are.         *)
(***************************************************************************)
EXTENDS Naturals, Sequences

CONSTANTS Users, None

Labels == {"ai-review", "ai-fix", "bug"}
Commands == {"analyze", "fix", "review", "status"}
Texts == [mention : BOOLEAN, words : SUBSET Commands]
Branches == {<<"fix", "a">>, <<"fix">>, <<"release", "a">>, <<"main">>, <<"feature", "a">>}

\* AppError by the family of its code: error_code up to the first digit.
CodeFamilies ==
    [COMMON4 |-> {"BadRequest", "ValidationError", "JsonParseFailed", "Forbidden", "Conflict", "NotFound"},
     COMMON5 |-> {"InternalError", "PdfGenerationFailed"},
     AUTH4 |-> {"Unauthorized", "SocialAuthFailed", "InvalidToken", "InvalidRefreshToken", "LoggedOutToken"},
     RETRO4 |-> {"InvalidInviteLink", "ExpiredInviteLink", "RetroRoomNameTooLong", "RetroRoomNameDuplicate",
                 "AlreadyMember", "InvalidOrderData", "NoPermission", "NoRoomPermission",
                 "RetroProjectNameInvalid", "RetroMethodInvalid", "RetroUrlInvalid", "RetroRoomAccessDenied",
                 "RetroRoomNotFound", "RetrospectNotFound", "ParticipantDuplicate", "RetrospectAlreadyStarted",
                 "RetroAnswersMissing", "RetroAnswerTooLong", "RetroAnswerWhitespaceOnly",
                 "RetroAlreadySubmitted", "RetroAlreadyAnalyzed", "QuestionNotFound", "RetroInsufficientData",
                 "RetroCategoryInvalid", "RetroDeleteAccessDenied"},
     RES4 |-> {"ResponseNotFound", "CommentTooLong"},
     AI4 |-> {"AiMonthlyLimitExceeded", "AiAssistantLimitExceeded"},
     AI5 |-> {"AiAnalysisFailed", "AiConnectionFailed", "AiServiceUnavailable", "AiGeneralError"},
     SEARCH4 |-> {"SearchKeywordInvalid"},
     MEMBER4 |-> {"MemberNotFound"},
     RATE4 |-> {"RateLimitExceeded"},
     PAY4 |-> {"InvalidPlan", "SubscriptionRequired", "SubscriptionNotFound", "SubscriptionAlreadyActive"},
     PAY5 |-> {"PaymentFailed", "FluxPayServiceError"}]

Codes == DOMAIN CodeFamilies
AppErrors == UNION {CodeFamilies[c] : c \in Codes}
ErrorCode(e) == CHOOSE c \in Codes : e \in CodeFamilies[c]

\* into_response logs all errors as ERROR but one.
LogLevel(e) == IF e = "RateLimitExceeded" THEN "WARN" ELSE "ERROR"

Labelled(a) == a.label # None
IssueArrivals ==
    {a \in [kind : {"issues"}, action : {"opened", "labeled", "closed"},
            labels : SUBSET Labels, label : Labels \union {None}, user : Users] :
        /\ Labelled(a) <=> a.action = "labeled"
        /\ Labelled(a) => a.label \in a.labels}
CommentArrivals ==
    [kind : {"issue_comment"}, action : {"created", "edited"}, mention : BOOLEAN, user : Users]
PullArrivals ==
    {a \in [kind : {"pull_request"}, action : {"opened", "labeled", "closed"},
            label : Labels \union {None}, head : Branches, user : Users] :
        a.action = "labeled" => Labelled(a)}

\* A message with a text, a command with a name and arguments, a component
\* with neither; in a server the user is a member, in a direct message not.
Interactions ==
    [content : Texts, name : {None}, args : {{}}]
    \union [content : {None}, name : Commands \union {"help", None}, args : {{}, {"fix"}}]
DiscordArrivals ==
    [kind : {"discord"}, ping : {FALSE}, data : Interactions, member : Users \union {None}, user : {None}]
    \union [kind : {"discord"}, ping : BOOLEAN, data : {None}, member : {None}, user : Users]

\* The line that into_response writes, in the format the watcher reads.
LineOf(e) == [kind |-> "log", level |-> LogLevel(e), code |-> ErrorCode(e)]
LogArrivals ==
    {LineOf(e) : e \in AppErrors} \union [kind : {"log"}, level : {"ERROR", "WARN", "INFO"}, code : {None}]

Arrivals == IssueArrivals \union CommentArrivals \union PullArrivals \union DiscordArrivals \union LogArrivals

-----------------------------------------------------------------------------

\* Event::new and with_user.
Event(type, source, priority, user) ==
    [type |-> type, source |-> source, priority |-> priority, user |-> user,
     code |-> None, severity |-> None]

Github(words) == <<<<"github">>, words>>
Command(name) == <<<<"discord">>, <<"command">>, <<name>>>>
ErrorDetected == <<<<"monitoring">>, <<"error", "detected">>>>

\* handle_issues_event; the label that was added decides, not those it has.
IssueEvent(a) ==
    CASE a.action = "opened" /\ "ai-review" \in a.labels ->
            Event(Github(<<"issue", "opened">>), "github", 1, a.user)
      [] a.action = "labeled" /\ a.label \in {"ai-fix", "ai-review"} ->
            Event(Github(<<"issue", "labeled">>), "github", 1, a.user)
      [] OTHER -> None

\* handle_issue_comment_event.
CommentEvent(a) ==
    IF a.action = "created" /\ a.mention
    THEN Event(Github(<<"issue", "comment", "created">>), "github", 1, a.user)
    ELSE None

\* The pattern "fix/*" is for every branch below fix.
Below(prefixes, branch) == Len(branch) > 1 /\ Head(branch) \in prefixes

\* BranchValidator, validate_pr_branches: the target branch is not looked at.
IsBlocked(branch) == branch \in {<<"main">>, <<"master">>, <<"dev">>} \/ Below({"release"}, branch)
IsAllowed(branch) == Below({"fix", "hotfix", "ai-fix", "config", "refactor"}, branch)

\* handle_pull_request_event; the label is the one that was added, or one that
\* the pull request was opened with.
PullEvent(a) ==
    IF IsAllowed(a.head) /\ ~IsBlocked(a.head) /\ a.label = "ai-review"
    THEN CASE a.action = "opened" -> Event(Github(<<"pr", "opened">>), "github", 2, a.user)
           [] a.action = "labeled" -> Event(Github(<<"pr", "labeled">>), "github", 2, a.user)
           [] OTHER -> None
    ELSE None

\* get_content_for_parsing: a slash command is read as if it had been typed.
Content(data) ==
    CASE data.content # None -> data.content
      [] data.content = None /\ data.name # None ->
            [mention |-> TRUE, words |-> ({data.name} \union data.args) \intersect Commands]
      [] OTHER -> [mention |-> FALSE, words |-> {}]

\* DiscordCommand::parse looks for the keywords in this order.
Keywords == <<"analyze", "fix", "review", "status">>
Parse(text) ==
    LET found == {i \in DOMAIN Keywords : Keywords[i] \in text.words}
    IN  IF text.mention /\ found # {}
        THEN Keywords[CHOOSE i \in found : \A j \in found : i <= j]
        ELSE "unknown"

\* handle_discord_webhook, create_discord_event, get_username.
DiscordEvent(a) ==
    IF a.ping \/ a.data = None
    THEN None
    ELSE Event(Command(Parse(Content(a.data))), "discord", 1, IF a.member # None THEN a.member ELSE a.user)

\* LogEntry::severity.
SeverityOf(code) ==
    CASE code = "AI5" -> "critical"
      [] code \in {"AUTH4", "RETRO4"} -> "warning"
      [] OTHER -> "info"

\* Mutant: a warning waits as long as a pull request.
Urgency_WarningLate(severity) == IF severity = "critical" THEN 0 ELSE 2

Urgency(severity) == CASE severity = "critical" -> 0 [] severity = "warning" -> 1 [] OTHER -> 2

\* LogWatcher::create_event for an entry that is an error.
LogEvent(a) ==
    IF a.level = "ERROR"
    THEN [Event(ErrorDetected, "log-watcher", Urgency(SeverityOf(a.code)), None)
            EXCEPT !.code = a.code, !.severity = SeverityOf(a.code)]
    ELSE None

\* handle_github_webhook and its likes: no event for what does not match.
EventOf(a) ==
    CASE a.kind = "issues" -> IssueEvent(a)
      [] a.kind = "issue_comment" -> CommentEvent(a)
      [] a.kind = "pull_request" -> PullEvent(a)
      [] a.kind = "discord" -> DiscordEvent(a)
      [] a.kind = "log" -> LogEvent(a)

-----------------------------------------------------------------------------

Prefixed(type, prefix) == Len(type) >= Len(prefix) /\ SubSeq(type, 1, Len(prefix)) = prefix

\* Priority::from_event_type.
FromEventType(e) ==
    CASE e.type = ErrorDetected ->
            (CASE e.severity = "critical" -> 0 [] e.severity = "warning" -> 1 [] OTHER -> 2)
      [] Prefixed(e.type, <<<<"discord">>, <<"command">>>>) -> 1
      [] e.type \in {Github(<<"issue", "labeled">>), Github(<<"issue", "opened">>),
                     Github(<<"issue", "comment", "created">>)} -> 1
      [] e.type \in {Github(<<"pr", "opened">>), Github(<<"pr", "labeled">>)} -> 2
      [] OTHER -> 3

\* EventProcessor::dispatch_event.
Handler(type) ==
    CASE type = ErrorDetected -> "log-watcher"
      [] Prefixed(type, <<<<"discord">>, <<"command">>>>) -> "discord"
      [] Prefixed(type, <<<<"github">>>>) -> "github"
      [] OTHER -> "skipped"

WordsOf(segment) == {segment[i] : i \in DOMAIN segment}
Segments(type) == {type[i] : i \in DOMAIN type}

\* event_to_rate_limit_action, contains_pr_segment: "pr" counts as a segment
\* of its own only, so that pr_opened is an API call.
ActionOf(type) ==
    CASE \E s \in Segments(type) : "branch" \in WordsOf(s) -> "branch_creation"
      [] \/ \E s \in Segments(type) : \E i \in 1..(Len(s) - 1) : SubSeq(s, i, i + 1) = <<"pull", "request">>
         \/ <<"pr">> \in Segments(type) -> "pr_creation"
      [] OTHER -> "api_call"
=============================================================================
