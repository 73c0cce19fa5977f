------------------------ MODULE RetrospectLifecycle ------------------------
(***************************************************************************)
(* The life of the retrospects of one room: members join one, save drafts, *)
(* submit, have it analysed by the AI, delete it, withdraw.                *)
(* (codes/server/src/domain/retrospect/service.rs)                         *)
(*                                                                         *)
(* The handlers run concurrently and every `.await` is a place where       *)
(* another one may run, so a request is a process with a program counter   *)
(* and the values it read before its last await.  One action is what a     *)
(* handler does between two points at which the state it depends on may    *)
(* change: a group of reads, or a database transaction.  A request that is *)
(* refused before it has read anything it keeps leaves no trace, so its    *)
(* first action is then simply not enabled.                                *)
(*                                                                         *)
(* A request is served once.  The row that a create_participant request    *)
(* inserts into member_retro, with its five answers, is named by that      *)
(* request; an answer's content, a submission time, an insight are named   *)
(* by the request that wrote them, and None is the blank or NULL value.    *)
(***************************************************************************)
EXTENDS Naturals, FiniteSets

CONSTANTS
    Members,      \* members of the room
    Retros,       \* retrospects of the room
    Requests,     \* requests that may be served
    Questions,    \* the questions of a retrospect (five in the code)
    MinAnswers,   \* non-blank answers an analysis needs (three in the code)
    FreeMembers,  \* members on the Free plan; the other plans have no limit
    FreeLimit,    \* analyses a month the Free plan allows (three in the code)
    None          \* NULL

ASSUME ConstantsAssumption ==
    /\ None \notin Members \union Retros \union Requests
    /\ FreeMembers \subseteq Members
    /\ MinAnswers \in Nat
    /\ FreeLimit \in Nat

VARIABLES
    exists,       \* retrospects that are in the database
    started,      \* retrospects whose start_time has passed
    insight,      \* retrospect.insight: the analysis that wrote it
    thisMonth,    \* retrospects with updated_at in the current month (KST)
    roomMembers,  \* member_retro_room rows of the room
    withdrawn,    \* members that were deleted
    rows,         \* member_retro rows, with their responses
    status,       \* member_retro.status
    submittedAt,  \* member_retro.submitted_at
    personal,     \* member_retro.personal_insight
    answer,       \* response.content of each question of a row
    lock,         \* holder of the exclusive lock on a member_retro row
    pc,           \* where each request is
    who,          \* the member who made it
    target,       \* the retrospect it is about
    snap,         \* the member_retro rows it read
    addressed     \* those of them whose member_id was not NULL

retroVars == <<exists, started, insight, thisMonth>>
memberVars == <<roomMembers, withdrawn>>
rowVars == <<rows, status, submittedAt, personal, answer>>
requestVars == <<pc, who, target, snap, addressed>>
vars == <<retroVars, memberVars, rowVars, lock, requestVars>>

Status == {"DRAFT", "SUBMITTED", "ANALYZED"}

\* Where a request waits between two of its steps, and how it can end.
InFlight == {"insert", "writeDraft", "writeSubmit", "quota", "members",
             "answers", "saveAnalysis", "delete"}
Ended == {"joined", "drafted", "submitted", "analysed", "deleted", "failed"}

OptRequest == Requests \union {None}

TypeOK ==
    /\ exists \subseteq Retros
    /\ started \subseteq Retros
    /\ insight \in [Retros -> OptRequest]
    /\ thisMonth \subseteq Retros
    /\ roomMembers \subseteq Members
    /\ withdrawn \subseteq Members
    /\ rows \subseteq Requests
    /\ status \in [Requests -> Status]
    /\ submittedAt \in [Requests -> OptRequest]
    /\ personal \in [Requests -> OptRequest]
    /\ answer \in [Requests -> [Questions -> OptRequest]]
    /\ lock \in [Requests -> OptRequest]
    /\ pc \in [Requests -> {"idle"} \union InFlight \union Ended]
    /\ who \in [Requests -> Members \union {None}]
    /\ target \in [Requests -> Retros \union {None}]
    /\ snap \in [Requests -> SUBSET Requests]
    /\ addressed \in [Requests -> SUBSET Requests]

BlankAnswers == [q \in Questions |-> None]

Init ==
    /\ exists = Retros
    /\ started = {}
    /\ insight = [t \in Retros |-> None]
    /\ thisMonth = {}
    /\ roomMembers = Members
    /\ withdrawn = {}
    /\ rows = {}
    /\ status = [r \in Requests |-> "DRAFT"]
    /\ submittedAt = [r \in Requests |-> None]
    /\ personal = [r \in Requests |-> None]
    /\ answer = [r \in Requests |-> BlankAnswers]
    /\ lock = [r \in Requests |-> None]
    /\ pc = [r \in Requests |-> "idle"]
    /\ who = [r \in Requests |-> None]
    /\ target = [r \in Requests |-> None]
    /\ snap = [r \in Requests |-> {}]
    /\ addressed = [r \in Requests |-> {}]

-----------------------------------------------------------------------------
(***************************************************************************)
(* Queries                                                                 *)
(***************************************************************************)

\* Mutant: the query for the participant's answers forgets the member.
MyRows_AnyMember(m, t) == {row \in rows : target[row] = t /\ m \notin withdrawn}

\* member_retro rows of member m in retrospect t.  Deleting a member sets
\* member_id to NULL in its rows, so a withdrawn member has none.
MyRows(m, t) == {row \in rows : who[row] = m /\ target[row] = t /\ m \notin withdrawn}

\* Mutant: the query for the rows to analyse forgets the status filter.
SubmittedRows_AnyStatus(t) == {row \in rows : target[row] = t}

\* The rows of t an analysis takes in.
SubmittedRows(t) ==
    {row \in rows : target[row] = t /\ status[row] \in {"SUBMITTED", "ANALYZED"}}

\* Non-blank answers of t, submitted or not.
AnswerCount(t) ==
    Cardinality({rq \in rows \X Questions : target[rq[1]] = t /\ answer[rq[1]][rq[2]] # None})

\* Analyses that count against this month's limit.
MonthlyCount == Cardinality({t \in thisMonth : insight[t] # None})

\* Mutant: the row is read without FOR UPDATE.
RowFree_Unlocked(row) == TRUE

\* Nobody holds the exclusive lock on the row.
RowFree(row) == lock[row] = None

\* Mutant: the transaction ends without releasing its lock.
LocksWithout_Leaked(r) == lock

\* The locks after request r gives its own up.
LocksWithout(r) == [row \in Requests |-> IF lock[row] = r THEN None ELSE lock[row]]

-----------------------------------------------------------------------------
(***************************************************************************)
(* How a request moves on                                                  *)
(***************************************************************************)

Begin(r, m, t, next, read) ==
    /\ pc[r] = "idle"
    /\ pc' = [pc EXCEPT ![r] = next]
    /\ who' = [who EXCEPT ![r] = m]
    /\ target' = [target EXCEPT ![r] = t]
    /\ snap' = [snap EXCEPT ![r] = read]
    /\ UNCHANGED addressed

Continue(r, next) ==
    /\ pc' = [pc EXCEPT ![r] = next]
    /\ UNCHANGED <<who, target, snap, addressed>>

\* The handler returns an error: its transaction, if any, rolls back.
Fail(r) ==
    /\ pc' = [pc EXCEPT ![r] = "failed"]
    /\ who' = [who EXCEPT ![r] = None]
    /\ target' = [target EXCEPT ![r] = None]
    /\ snap' = [snap EXCEPT ![r] = {}]
    /\ addressed' = [addressed EXCEPT ![r] = {}]
    /\ lock' = LocksWithout(r)
    /\ UNCHANGED <<retroVars, memberVars, rowVars>>

-----------------------------------------------------------------------------
(***************************************************************************)
(* create_participant                                                      *)
(***************************************************************************)

\* The reads: a member of the room, a retrospect still to start, no row yet.
CreateParticipantCheck(r, m, t) ==
    /\ t \in exists
    /\ m \in roomMembers
    /\ t \notin started
    /\ MyRows(m, t) = {}
    /\ Begin(r, m, t, "insert", {})
    /\ UNCHANGED <<retroVars, memberVars, rowVars, lock>>

\* The transaction: member_retro, five blank answers and their links.  The
\* foreign keys refuse it when the retrospect or the member is gone; nothing
\* in the schema refuses a second row for the same member.
CreateParticipantInsert(r) ==
    /\ pc[r] = "insert"
    /\ IF target[r] \in exists /\ who[r] \notin withdrawn
       THEN /\ rows' = rows \union {r}
            /\ Continue(r, "joined")
            /\ UNCHANGED <<retroVars, memberVars, status, submittedAt, personal, answer, lock>>
       ELSE Fail(r)

(***************************************************************************)
(* save_draft                                                              *)
(***************************************************************************)

\* The reads: a participant with one set of answers.  The status is not read.
SaveDraftRead(r, m, t) ==
    /\ t \in exists
    /\ \E row \in rows : MyRows(m, t) = {row}
    /\ Begin(r, m, t, "writeDraft", MyRows(m, t))
    /\ UNCHANGED <<retroVars, memberVars, rowVars, lock>>

\* validate_drafts: each question at most once, and at least one.
ValidDrafts(written, cleared) ==
    /\ written \intersect cleared = {}
    /\ written \union cleared # {}

\* The transaction: the questions in written get new text, those in cleared
\* are blanked, in the rows that were read.
SaveDraftWrite(r, written, cleared) ==
    /\ pc[r] = "writeDraft"
    /\ IF snap[r] \subseteq rows
       THEN /\ answer' = [row \in Requests |->
                            IF row \in snap[r]
                            THEN [q \in Questions |->
                                    IF q \in cleared THEN None
                                    ELSE IF q \in written THEN r ELSE answer[row][q]]
                            ELSE answer[row]]
            /\ Continue(r, "drafted")
            /\ UNCHANGED <<retroVars, memberVars, rows, status, submittedAt, personal, lock>>
       ELSE Fail(r)

(***************************************************************************)
(* submit_retrospect                                                       *)
(***************************************************************************)

\* Mutant: a row that is SUBMITTED may be submitted again.
MaySubmit_Resubmit(row) == status[row] # "ANALYZED"

\* What the locked row must show before its answers are written.
MaySubmit(row) == status[row] = "DRAFT"

\* SELECT ... FOR UPDATE of the participant's row, then the status and the
\* number of answers are checked under the lock.
SubmitLock(r, m, t) ==
    /\ t \in exists
    /\ \E row \in rows :
         /\ MyRows(m, t) = {row}
         /\ RowFree(row)
         /\ MaySubmit(row)
         /\ lock' = [lock EXCEPT ![row] = r]
    /\ Begin(r, m, t, "writeSubmit", MyRows(m, t))
    /\ UNCHANGED <<retroVars, memberVars, rowVars>>

\* validate_answers: every question has an answer that is not blank.
FullAnswers(r) == [q \in Questions |-> r]

\* The rest of the transaction: all the answers, the status, the time; the
\* commit releases the lock.
SubmitWrite(r) ==
    /\ pc[r] = "writeSubmit"
    /\ answer' = [row \in Requests |->
                    IF row \in snap[r] THEN FullAnswers(r) ELSE answer[row]]
    /\ status' = [row \in Requests |->
                    IF row \in snap[r] THEN "SUBMITTED" ELSE status[row]]
    /\ submittedAt' = [row \in Requests |->
                    IF row \in snap[r] THEN r ELSE submittedAt[row]]
    /\ lock' = LocksWithout(r)
    /\ Continue(r, "submitted")
    /\ UNCHANGED <<retroVars, memberVars, rows, personal>>

(***************************************************************************)
(* analyze_retrospective                                                   *)
(***************************************************************************)

\* The retrospect exists, has no insight yet, and is of the member's room.
AnalyzeCheck(r, m, t) ==
    /\ t \in exists
    /\ insight[t] = None
    /\ m \in roomMembers
    /\ Begin(r, m, t, "quota", {})
    /\ UNCHANGED <<retroVars, memberVars, rowVars, lock>>

\* The month's analyses of the room against the limit of the member's plan.
AnalyzeQuota(r) ==
    /\ pc[r] = "quota"
    /\ IF who[r] \in FreeMembers => MonthlyCount < FreeLimit
       THEN /\ Continue(r, "members")
            /\ UNCHANGED <<retroVars, memberVars, rowVars, lock>>
       ELSE Fail(r)

\* Mutant: the check for an empty list of participants is missing.
AnalyzeMembers_NoEmptyCheck(r) ==
    /\ pc[r] = "members"
    /\ pc' = [pc EXCEPT ![r] = "answers"]
    /\ snap' = [snap EXCEPT ![r] = SubmittedRows(target[r])]
    /\ addressed' = [addressed EXCEPT ![r] =
                        {row \in SubmittedRows(target[r]) : who[row] \notin withdrawn}]
    /\ UNCHANGED <<who, target, retroVars, memberVars, rowVars, lock>>

\* The submitted rows; a later check refuses them when no member is left.
AnalyzeMembers(r) ==
    LET read == SubmittedRows(target[r])
        named == {row \in read : who[row] \notin withdrawn}
    IN  /\ pc[r] = "members"
        /\ IF named # {}
           THEN /\ pc' = [pc EXCEPT ![r] = "answers"]
                /\ snap' = [snap EXCEPT ![r] = read]
                /\ addressed' = [addressed EXCEPT ![r] = named]
                /\ UNCHANGED <<who, target, retroVars, memberVars, rowVars, lock>>
           ELSE Fail(r)

\* Enough answers.  The call to the AI comes next: it changes nothing here,
\* takes up to 30 seconds, and its failures are failures of the request.
AnalyzeAnswers(r) ==
    /\ pc[r] = "answers"
    /\ IF AnswerCount(target[r]) >= MinAnswers
       THEN /\ Continue(r, "saveAnalysis")
            /\ UNCHANGED <<retroVars, memberVars, rowVars, lock>>
       ELSE Fail(r)

\* AiService::analyze_retrospective: an answer that can be used has missions
\* for some of the members it was asked about; one that cannot is an Abort.
Missions(r) == SUBSET addressed[r]

\* The transaction: the insight, and every row that was read before the call.
\* missions are the rows whose members the AI's answer mentions.
AnalyzeSave(r, missions) ==
    /\ pc[r] = "saveAnalysis"
    /\ missions \subseteq addressed[r]
    /\ \A row \in snap[r] : RowFree(row)
    /\ IF target[r] \in exists /\ snap[r] \subseteq rows
       THEN /\ insight' = [insight EXCEPT ![target[r]] = r]
            /\ thisMonth' = thisMonth \union {target[r]}
            /\ status' = [row \in Requests |->
                            IF row \in snap[r] THEN "ANALYZED" ELSE status[row]]
            /\ personal' = [row \in Requests |->
                            IF row \in missions THEN r
                            ELSE IF row \in snap[r] THEN None ELSE personal[row]]
            /\ Continue(r, "analysed")
            /\ UNCHANGED <<exists, started, memberVars, rows, submittedAt, answer, lock>>
       ELSE Fail(r)

(***************************************************************************)
(* delete_retrospect                                                       *)
(***************************************************************************)

DeleteCheck(r, m, t) ==
    /\ t \in exists
    /\ m \in roomMembers
    /\ Begin(r, m, t, "delete", {})
    /\ UNCHANGED <<retroVars, memberVars, rowVars, lock>>

\* The transaction: the answers, the participants, the retrospect, and the
\* room with its memberships when no retrospect is left in it.
DeleteTxn(r) ==
    LET dead == {row \in rows : target[row] = target[r]}
    IN  /\ pc[r] = "delete"
        /\ \A row \in dead : RowFree(row)
        /\ exists' = exists \ {target[r]}
        /\ insight' = [insight EXCEPT ![target[r]] = None]
        /\ thisMonth' = thisMonth \ {target[r]}
        /\ rows' = rows \ dead
        /\ status' = [row \in Requests |-> IF row \in dead THEN "DRAFT" ELSE status[row]]
        /\ submittedAt' = [row \in Requests |-> IF row \in dead THEN None ELSE submittedAt[row]]
        /\ personal' = [row \in Requests |-> IF row \in dead THEN None ELSE personal[row]]
        /\ answer' = [row \in Requests |-> IF row \in dead THEN BlankAnswers ELSE answer[row]]
        /\ roomMembers' = IF exists' = {} THEN {} ELSE roomMembers
        /\ Continue(r, "deleted")
        /\ UNCHANGED <<started, withdrawn, lock>>

(***************************************************************************)
(* The environment                                                         *)
(***************************************************************************)

\* MemberService::withdraw deletes the member; the foreign keys set member_id
\* to NULL in its rows, which waits for a lock on them.
Withdraw(m) ==
    /\ m \notin withdrawn
    /\ \A t \in Retros : \A row \in MyRows(m, t) : RowFree(row)
    /\ withdrawn' = withdrawn \union {m}
    /\ roomMembers' = roomMembers \ {m}
    /\ UNCHANGED <<retroVars, rowVars, lock, requestVars>>

\* The clock reaches the start_time of t.
StartTimePasses(t) ==
    /\ t \in exists \ started
    /\ started' = started \union {t}
    /\ UNCHANGED <<exists, insight, thisMonth, memberVars, rowVars, lock, requestVars>>

\* The first of the month, 00:00 KST.
NewMonth ==
    /\ thisMonth # {}
    /\ thisMonth' = {}
    /\ UNCHANGED <<exists, started, insight, memberVars, rowVars, lock, requestVars>>

\* A request dies at an await: a database or AI error, an AI timeout, the
\* client hung up, the process stopped.  Nothing uncommitted survives.
Abort(r) ==
    /\ pc[r] \in InFlight
    /\ Fail(r)

-----------------------------------------------------------------------------

\* The next step of a request that is being served.
Serve(r) ==
    \/ CreateParticipantInsert(r)
    \/ \E written, cleared \in SUBSET Questions :
          ValidDrafts(written, cleared) /\ SaveDraftWrite(r, written, cleared)
    \/ SubmitWrite(r)
    \/ AnalyzeQuota(r)
    \/ AnalyzeMembers(r)
    \/ AnalyzeAnswers(r)
    \/ \E missions \in Missions(r) : AnalyzeSave(r, missions)
    \/ DeleteTxn(r)

Receive(r) ==
    \E m \in Members, t \in Retros :
        \/ CreateParticipantCheck(r, m, t)
        \/ SaveDraftRead(r, m, t)
        \/ SubmitLock(r, m, t)
        \/ AnalyzeCheck(r, m, t)
        \/ DeleteCheck(r, m, t)

Environment ==
    \/ \E m \in Members : Withdraw(m)
    \/ \E t \in Retros : StartTimePasses(t)
    \/ NewMonth
    \/ \E r \in Requests : Abort(r)

Next == (\E r \in Requests : Receive(r) \/ Serve(r)) \/ Environment

Spec == Init /\ [][Next]_vars

\* The runtime polls every future that can make progress, so a request being
\* served keeps moving; nobody is obliged to send one.
FairSpec == Spec /\ \A r \in Requests : WF_vars(Serve(r))

-----------------------------------------------------------------------------
(***************************************************************************)
(* Properties                                                              *)
(***************************************************************************)

\* A row has left DRAFT exactly when it has a submission time, whatever the
\* interleaving of submissions and of analyses that save a status from rows
\* they read before a 30 second call (submit_retrospect steps 5 and 9,
\* analyze_retrospective steps 5-1 and 9-2).
SubmittedIffTimestamped ==
    \A row \in rows : status[row] = "DRAFT" <=> submittedAt[row] = None

\* A retrospect has an insight exactly when one of its participants is
\* ANALYZED: the insight and the rows are written together, and neither a
\* deletion nor a late row separates them (analyze_retrospective step 9).
AnalysedTogether ==
    \A t \in exists :
        insight[t] # None <=> \E row \in rows : target[row] = t /\ status[row] = "ANALYZED"

\* A submission that was answered with success is in the database under its
\* own time until the retrospect is deleted: no other request, an overlapping
\* submission of the same row first of all, overwrites it (the row lock of
\* submit_retrospect).
AcknowledgedSubmitDurable ==
    \A r \in Requests :
        pc[r] = "submitted" /\ target[r] \in exists =>
            \E row \in rows : snap[r] = {row} /\ submittedAt[row] = r

\* The request is of the row's member, about the row's retrospect.
ForRow(request, row) == who[request] = who[row] /\ target[request] = target[row]

\* What is stored in a participant's row was written for it: its answers and
\* its submission time by requests of the same member about the same
\* retrospect (save_draft and submit_retrospect find them through
\* member_response, by position), and its personal insight by an analysis of
\* its own retrospect that read the row.
RowsIsolated ==
    \A row \in rows :
        /\ \A q \in Questions : answer[row][q] # None => ForRow(answer[row][q], row)
        /\ submittedAt[row] # None => ForRow(submittedAt[row], row)
        /\ personal[row] # None =>
             /\ target[personal[row]] = target[row]
             /\ row \in snap[personal[row]]

StatusRank == [DRAFT |-> 0, SUBMITTED |-> 1, ANALYZED |-> 2]

RowMovesForward(row) ==
    /\ StatusRank[status[row]] <= StatusRank[status'[row]]
    /\ submittedAt[row] # None => submittedAt'[row] = submittedAt[row]

\* No step takes a participant's status back, or changes the time of its
\* submission (DRAFT -> SUBMITTED -> ANALYZED).
StatusForward == [][\A row \in rows \intersect rows' : RowMovesForward(row)]_vars

\* Every request that is being served ends: the row locks are given back and
\* no request waits for another for ever.
RequestsFinish == \A r \in Requests : pc[r] \in InFlight ~> pc[r] \in Ended

\* The inductive invariant: what the properties above rest on.
RequestsWellFormed ==
    /\ \A r \in Requests :
         pc[r] \in InFlight \union (Ended \ {"failed"}) =>
             who[r] \in Members /\ target[r] \in Retros
    /\ \A r \in Requests : \A row \in snap[r] : pc[row] = "joined" /\ target[row] = target[r]

RowsWellFormed ==
    /\ \A row \in rows : pc[row] = "joined" /\ target[row] \in exists
    /\ \A r \in Requests \ rows : status[r] = "DRAFT" /\ submittedAt[r] = None

\* A lock is held by the submission that is about to write the row, and the
\* row is a DRAFT all the while.
LocksHeld ==
    /\ \A row \in Requests :
         lock[row] # None => pc[lock[row]] = "writeSubmit" /\ snap[lock[row]] = {row}
    /\ \A r \in Requests :
         pc[r] = "writeSubmit" =>
             \E row \in rows : snap[r] = {row} /\ lock[row] = r /\ status[row] = "DRAFT"

\* The rows an analysis took before the call have left DRAFT for good.
AnalysisReadSubmitted ==
    \A r \in Requests :
        pc[r] \in {"answers", "saveAnalysis"} =>
            /\ snap[r] # {}
            /\ \A row \in snap[r] \intersect rows : status[row] # "DRAFT"

IInv ==
    /\ TypeOK
    /\ RequestsWellFormed
    /\ RowsWellFormed
    /\ LocksHeld
    /\ AnalysisReadSubmitted
    /\ SubmittedIffTimestamped
    /\ AnalysedTogether
    /\ AcknowledgedSubmitDurable

\* What RowsIsolated rests on besides: the rows that a draft or a submission is
\* about to write are its member's, an analysis has missions for rows it read,
\* and whatever is stored was stored by a request that is over.
RowsOwned ==
    /\ \A r \in Requests :
         pc[r] \in {"writeDraft", "writeSubmit"} => \A row \in snap[r] : who[row] = who[r]
    /\ \A r \in Requests : pc[r] \in {"answers", "saveAnalysis"} => addressed[r] \subseteq snap[r]
    /\ \A r \in Requests \ rows : answer[r] = BlankAnswers /\ personal[r] = None
    /\ \A row \in rows, q \in Questions :
         answer[row][q] # None => pc[answer[row][q]] \in {"drafted", "submitted"}
    /\ \A row \in rows :
         /\ personal[row] # None => pc[personal[row]] = "analysed"
         /\ submittedAt[row] # None => pc[submittedAt[row]] = "submitted"
    /\ RowsIsolated

=============================================================================
