---------------------------- MODULE ResponseFeed ----------------------------
(***************************************************************************)
(* Answers as the members of a room see them: likes, comments and the      *)
(* pages they are listed in (toggle_like, create_comment, list_comments    *)
(* and list_responses of domain/retrospect/service.rs).                    *)
(*                                                                         *)
(* A toggle locks the answer's row and only then reads the likes: in       *)
(* InnoDB the snapshot of a transaction is that of its first read without  *)
(* a lock.  Ids are handed out when a row is inserted and rows become      *)
(* visible when they are committed, so not always in the order of their    *)
(* ids.                                                                    *)
(*                                                                         *)
(* A reader pages through a list with the cursor of the page before.  The  *)
(* category of list_responses narrows the list and is left out.            *)
(***************************************************************************)
EXTENDS Integers, FiniteSets, FiniteSetsExt

CONSTANTS
    Members,
    Requests,      \* likes and comments that may be asked for
    Readers,       \* clients that page through a list
    MaxAnswers,    \* bound: answers of the retrospect
    MaxEdits,      \* bound: drafts that blank or fill an answer
    PageSize,
    SchemaUpdate,  \* DB_SCHEMA_UPDATE: start-up creates tables and indexes
    OldDuplicates, \* the likes of another answer repeat a member
    None

ASSUME FeedAssumption ==
    /\ {SchemaUpdate, OldDuplicates} \subseteq BOOLEAN
    /\ {MaxAnswers, MaxEdits} \subseteq Nat
    /\ PageSize \in 1..100 /\ IsFiniteSet(Requests)
    /\ None \notin Members \union Requests \union Int

AnswerIds == 1..MaxAnswers
CommentIds == 1..Cardinality(Requests)
Ids == AnswerIds \union CommentIds

VARIABLES
    pc,         \* where each request is
    who,        \* the member who makes it
    answer,     \* the answer it is about
    read,       \* the likes a toggle has read
    total,      \* total_likes that a toggle has counted
    comment,    \* the id of the comment it inserts
    answers,    \* rows of the table response
    filled,     \* answers that are not blank
    edits,      \* drafts saved so far
    deleted,    \* the retrospect is
    likes,      \* rows of response_like, named by the toggle
    lock,       \* the toggle that has locked an answer's row
    comments,   \* committed rows of response_comment
    withdrawn,  \* members who are no longer in the table member
    at,         \* where each reader is
    list,       \* the answer whose comments it reads, None for the answers
    cursor,     \* next_cursor of its last page, None before the first
    valid,      \* the ids its request has read
    page,       \* the ids on its last page
    got,        \* the ids on the pages before
    lasting     \* history: the ids that were there all along

requestVars == <<pc, who, answer, read, total, comment>>
answerVars == <<answers, filled, edits, deleted>>
socialVars == <<likes, lock, comments, withdrawn>>
readerVars == <<at, list, cursor, valid, page, got>>
vars == <<requestVars, answerVars, socialVars, readerVars, lasting>>

\* A request that is "liked", "unliked" or "commented" has been committed.  Only
\* its answer is left to send: whether that arrives, or commit() itself returns
\* an error, changes nothing here any more.
InFlight == {"toggle", "read", "write", "insert", "commit"}
Ended == {"liked", "unliked", "commented", "failed"}

TypeOK ==
    /\ pc \in [Requests -> {"idle"} \union InFlight \union Ended]
    /\ who \in [Requests -> Members \union {None}]
    /\ answer \in [Requests -> AnswerIds \union {None}]
    /\ read \in [Requests -> SUBSET Requests]
    /\ total \in [Requests -> 0..Cardinality(Requests)]
    /\ comment \in [Requests -> CommentIds \union {None}]
    /\ answers \subseteq AnswerIds
    /\ filled \subseteq answers
    /\ edits \in 0..MaxEdits
    /\ deleted \in BOOLEAN
    /\ likes \subseteq Requests
    /\ lock \in [AnswerIds -> Requests \union {None}]
    /\ comments \subseteq CommentIds
    /\ withdrawn \subseteq Members
    /\ at \in [Readers -> {"idle", "fetch", "paging", "end"}]
    /\ list \in [Readers -> AnswerIds \union {None}]
    /\ cursor \in [Readers -> Ids \union {None}]
    /\ {valid, page, got, lasting} \subseteq [Readers -> SUBSET Ids]

Init ==
    /\ pc = [r \in Requests |-> "idle"]
    /\ who = [r \in Requests |-> None]
    /\ answer = [r \in Requests |-> None]
    /\ read = [r \in Requests |-> {}]
    /\ total = [r \in Requests |-> 0]
    /\ comment = [r \in Requests |-> None]
    /\ answers = {}
    /\ filled = {}
    /\ edits = 0
    /\ deleted = FALSE
    /\ likes = {}
    /\ lock = [x \in AnswerIds |-> None]
    /\ comments = {}
    /\ withdrawn = {}
    /\ at = [p \in Readers |-> "idle"]
    /\ list = [p \in Readers |-> None]
    /\ cursor = [p \in Readers |-> None]
    /\ valid = [p \in Readers |-> {}]
    /\ page = [p \in Readers |-> {}]
    /\ got = [p \in Readers |-> {}]
    /\ lasting = [p \in Readers |-> {}]

-----------------------------------------------------------------------------

\* find_response_for_member, and the first half of toggle_like.
Begin(r, m, x, next) ==
    /\ pc[r] = "idle"
    /\ m \notin withdrawn
    /\ x \in answers
    /\ pc' = [pc EXCEPT ![r] = next]
    /\ who' = [who EXCEPT ![r] = m]
    /\ answer' = [answer EXCEPT ![r] = x]
    /\ UNCHANGED <<read, total, comment, answerVars, socialVars, readerVars>>

Continue(r, next) ==
    /\ pc' = [pc EXCEPT ![r] = next]
    /\ UNCHANGED <<who, answer>>

LikesOn(x) == {q \in likes : answer[q] = x}
LikesOf(m, x) == {q \in LikesOn(x) : who[q] = m}
CommentsOn(x) == {c \in comments : \E r \in Requests : comment[r] = c /\ answer[r] = x}

(***************************************************************************)
(* toggle_like                                                             *)
(***************************************************************************)

ToggleCheck(r, m, x) == Begin(r, m, x, "toggle")

\* Mutant: the row is read without FOR UPDATE.
Free_Ignored(x) == TRUE

\* No other toggle has the answer's row.
Free(x) == lock[x] = None

\* SELECT ... FOR UPDATE waits for the row, and fails when it has gone.
ToggleLock(r) ==
    /\ pc[r] = "toggle"
    /\ Free(answer[r])
    /\ IF answer[r] \in answers
       THEN lock' = [lock EXCEPT ![answer[r]] = r] /\ Continue(r, "read")
       ELSE Continue(r, "failed") /\ UNCHANGED lock
    /\ UNCHANGED <<read, total, comment, answerVars, likes, comments, withdrawn, readerVars>>

\* The first read without a lock, which fixes what the transaction sees.
ToggleRead(r) ==
    /\ pc[r] = "read"
    /\ read' = [read EXCEPT ![r] = LikesOn(answer[r])]
    /\ Continue(r, "write")
    /\ UNCHANGED <<total, comment, answerVars, socialVars, readerVars>>

Unlock(r) == lock' = [x \in AnswerIds |-> IF lock[x] = r THEN None ELSE lock[x]]

\* The member's own likes among those it has read.
Own(r) == {q \in read[r] : who[q] = who[r]}

\* create_tables makes the unique index on a like's member and answer when it
\* is asked to; the error of an index that old likes contradict is ignored.
Indexed == SchemaUpdate /\ ~OldDuplicates

\* A like may be inserted: the member is there, and the index, if it is, has
\* no other of the same member.
Insertable(r) == who[r] \notin withdrawn /\ (Indexed => LikesOf(who[r], answer[r]) = {})

\* Mutant: only the total that was read is reported.
TotalAfter_Stale(r) == Cardinality(read[r])

\* Those it has read, with the one it adds or without the one it removes.
TotalAfter(r) ==
    IF Own(r) = {} THEN Cardinality(read[r]) + 1 ELSE Cardinality(read[r] \ Own(r))

\* A like is removed or added and counted, and the database commits.
ToggleWrite(r) ==
    /\ pc[r] = "write"
    /\ \/ /\ Own(r) # {}
          /\ likes' = likes \ LikesOf(who[r], answer[r])
          /\ total' = [total EXCEPT ![r] = TotalAfter(r)]
          /\ Continue(r, "unliked")
       \/ /\ Own(r) = {}
          /\ Insertable(r)
          /\ likes' = likes \union {r}
          /\ total' = [total EXCEPT ![r] = TotalAfter(r)]
          /\ Continue(r, "liked")
       \/ /\ Own(r) = {}
          /\ ~Insertable(r)
          /\ Continue(r, "failed")
          /\ UNCHANGED <<likes, total>>
    /\ Unlock(r)
    /\ UNCHANGED <<read, comment, answerVars, comments, withdrawn, readerVars>>

(***************************************************************************)
(* create_comment                                                          *)
(***************************************************************************)

CommentCheck(r, m, x) == Begin(r, m, x, "insert")

NextComment == Cardinality({r \in Requests : comment[r] # None}) + 1

\* The row gets its id; the foreign keys want its answer and its author.
CommentInsert(r) ==
    /\ pc[r] = "insert"
    /\ IF answer[r] \in answers /\ who[r] \notin withdrawn
       THEN comment' = [comment EXCEPT ![r] = NextComment] /\ Continue(r, "commit")
       ELSE Continue(r, "failed") /\ UNCHANGED comment
    /\ UNCHANGED <<read, total, answerVars, socialVars, readerVars>>

CommentCommit(r) ==
    /\ pc[r] = "commit"
    /\ comments' = comments \union {comment[r]}
    /\ Continue(r, "commented")
    /\ UNCHANGED <<read, total, comment, answerVars, likes, lock, withdrawn, readerVars>>

(***************************************************************************)
(* list_comments and list_responses                                        *)
(***************************************************************************)

\* What a list holds: the comments of an answer, or the filled answers.
Present(x) == IF x = None THEN filled ELSE CommentsOn(x)

\* Mutant: the row at the cursor is fetched again.
Before_Inclusive(s, c) == {i \in s : c = None \/ i <= c}

\* The rows before the cursor.
Before(s, c) == {i \in s : c = None \/ i < c}

\* The n greatest, in descending order of their ids.
Greatest(n, s) == {i \in s : Cardinality({j \in s : j >= i}) <= n}

\* Mutant: the cursor is the row that only showed that there is more.
CursorAfter_Fetched(fetched) == Min(fetched)

\* The cursor is the last row that is shown.
CursorAfter(fetched) == Min(Greatest(PageSize, fetched))

\* A page of the rows s: size + 1 are fetched to know whether there is more.
TurnPage(p, s) ==
    LET fetched == Greatest(PageSize + 1, Before(s, cursor[p]))
        hasNext == Cardinality(fetched) > PageSize
    IN  /\ page' = [page EXCEPT ![p] = Greatest(PageSize, fetched)]
        /\ got' = [got EXCEPT ![p] = @ \union page[p]]
        /\ cursor' = [cursor EXCEPT ![p] = IF hasNext THEN CursorAfter(fetched) ELSE None]
        /\ at' = [at EXCEPT ![p] = IF hasNext THEN "paging" ELSE "end"]

\* A reader chooses the answers, or the comments of one.
Open(p, x) ==
    /\ at[p] = "idle"
    /\ x \in answers \union {None}
    /\ list' = [list EXCEPT ![p] = x]
    /\ at' = [at EXCEPT ![p] = "paging"]
    /\ UNCHANGED <<cursor, valid, page, got, requestVars, answerVars, socialVars>>

\* list_comments: the answer is still there, and one query.
ListComments(p) ==
    /\ at[p] = "paging"
    /\ list[p] \in answers
    /\ TurnPage(p, CommentsOn(list[p]))
    /\ UNCHANGED <<list, valid, requestVars, answerVars, socialVars>>

\* list_responses, up to step 5: all answers are read and the blank left out.
ListResponses(p) ==
    /\ at[p] = "paging"
    /\ list[p] = None
    /\ valid' = [valid EXCEPT ![p] = filled]
    /\ at' = [at EXCEPT ![p] = "fetch"]
    /\ UNCHANGED <<list, cursor, page, got, requestVars, answerVars, socialVars>>

\* Step 6: a second query for the page, among the ids of the first.
ListResponsesPage(p) ==
    /\ at[p] = "fetch"
    /\ TurnPage(p, valid[p] \intersect answers)
    /\ UNCHANGED <<list, valid, requestVars, answerVars, socialVars>>

-----------------------------------------------------------------------------

\* create_retrospect and create_participant commit blank answers.
AddAnswer(x) ==
    /\ x \notin answers
    /\ ~deleted
    /\ answers' = answers \union {x}
    /\ UNCHANGED <<filled, edits, deleted, requestVars, socialVars, readerVars>>

\* save_draft and submit_retrospect fill an answer or blank it.
Edit(x) ==
    /\ x \in answers
    /\ edits < MaxEdits
    /\ edits' = edits + 1
    /\ filled' = IF x \in filled THEN filled \ {x} ELSE filled \union {x}
    /\ UNCHANGED <<answers, deleted, requestVars, socialVars, readerVars>>

\* delete_retrospect takes everything; it waits for the rows a toggle or an
\* uncommitted comment has locked.
DeleteRetro ==
    /\ ~deleted
    /\ \A x \in AnswerIds : lock[x] = None
    /\ \A r \in Requests : pc[r] # "commit"
    /\ deleted' = TRUE
    /\ answers' = {}
    /\ filled' = {}
    /\ likes' = {}
    /\ comments' = {}
    /\ UNCHANGED <<edits, lock, withdrawn, requestVars, readerVars>>

\* MemberService::withdraw: likes and comments go with the member.
Withdraw(m) ==
    /\ m \notin withdrawn
    /\ \A r \in Requests : pc[r] = "commit" => who[r] # m
    /\ withdrawn' = withdrawn \union {m}
    /\ likes' = {q \in likes : who[q] # m}
    /\ comments' = {c \in comments : \A r \in Requests : comment[r] = c => who[r] # m}
    /\ UNCHANGED <<lock, requestVars, answerVars, readerVars>>

\* A database error, the client hung up, the process stopped: a transaction that
\* is not committed is rolled back and its locks are given up.
Abort(r) ==
    /\ pc[r] \in InFlight
    /\ Continue(r, "failed")
    /\ Unlock(r)
    /\ UNCHANGED <<read, total, comment, answerVars, likes, comments, withdrawn, readerVars>>

Serve(r) ==
    \/ ToggleLock(r) \/ ToggleRead(r) \/ ToggleWrite(r)
    \/ CommentInsert(r) \/ CommentCommit(r)

Step ==
    \/ \E r \in Requests, m \in Members, x \in answers :
          ToggleCheck(r, m, x) \/ CommentCheck(r, m, x)
    \/ \E r \in Requests : Serve(r) \/ Abort(r)
    \/ \E p \in Readers :
          \/ \E x \in answers \union {None} : Open(p, x)
          \/ ListComments(p) \/ ListResponses(p) \/ ListResponsesPage(p)
    \/ \E x \in AnswerIds : AddAnswer(x) \/ Edit(x)
    \/ \E m \in Members : Withdraw(m)
    \/ DeleteRetro

\* An id lasts while it is in the list, from when the reader opened it.
KeepTrack ==
    lasting' = [p \in Readers |->
        CASE at'[p] = "idle" -> {}
          [] at[p] = "idle" /\ at'[p] # "idle" -> Present(list[p])'
          [] OTHER -> lasting[p] \intersect Present(list[p])']

Next == Step /\ KeepTrack

Spec == Init /\ [][Next]_vars

-----------------------------------------------------------------------------
(***************************************************************************)
(* Properties                                                              *)
(***************************************************************************)

\* A member's like of an answer is there exactly when one more of its toggles
\* was committed as a like than as the removal of one, and never twice, however
\* toggles of the answer overlap and die.  That is what the answers say, unless
\* one was lost after its toggle was committed: that toggle counts all the same
\* (toggle_like, step 4).
LikesAddUp ==
    \A m \in Members \ withdrawn, x \in answers :
        LET Committed(result) ==
                {r \in Requests : pc[r] = result /\ who[r] = m /\ answer[r] = x}
        IN  /\ Cardinality(LikesOf(m, x)) <= 1
            /\ Cardinality(LikesOf(m, x)) =
                  Cardinality(Committed("liked")) - Cardinality(Committed("unliked"))

\* The total a toggle reports is the number of likes its commit leaves, but for
\* those of members who withdrew since it read them (toggle_like, step 5).
TotalHonest ==
    [][\A r \in Requests :
          pc[r] = "write" /\ pc'[r] \in {"liked", "unliked"}
            => total'[r] - Cardinality(LikesOn(answer[r])') \in 0..Cardinality(withdrawn)]_vars

\* No id is on two pages of a list, whatever is inserted, filled or deleted
\* between the pages (list_comments, list_responses: the cursor is exclusive).
PagesDisjoint == \A p \in Readers : page[p] \intersect got[p] = {}

\* A reader who has come to the end has seen whatever was in the list from the
\* opening to the end (has_next and next_cursor).
PagesComplete ==
    \A p \in Readers : at[p] = "end" => lasting[p] \subseteq got[p] \union page[p]

(***************************************************************************)
(* The inductive invariant                                                 *)
(***************************************************************************)

RequestsInPlace ==
    /\ deleted => answers = {}
    /\ \A r \in Requests :
         /\ pc[r] # "idle" => who[r] \in Members /\ answer[r] \in AnswerIds
         /\ pc[r] # "idle" => answer[r] \in answers \/ deleted
         /\ comment[r] # None => pc[r] \in {"commit", "commented", "failed"}
         /\ pc[r] = "commit" => comment[r] # None

\* A toggle that has locked its answer's row finds it there until it is over.
LocksHeld ==
    /\ \A r \in Requests : pc[r] \in {"read", "write"} => lock[answer[r]] = r /\ answer[r] \in answers
    /\ \A x \in AnswerIds :
         lock[x] # None => pc[lock[x]] \in {"read", "write"} /\ answer[lock[x]] = x

OneEach(s) == \A q, r \in s : who[q] = who[r] /\ answer[q] = answer[r] => q = r

\* Likes are of toggles committed so, of members who are there, one of each.
LikesInPlace ==
    /\ \A q \in likes : pc[q] = "liked" /\ who[q] \notin withdrawn
    /\ OneEach(likes)
    /\ IsFiniteSet(withdrawn)

\* What a toggle has read is what there is, but for members who have withdrawn.
UpToDate(r) ==
    /\ LikesOn(answer[r]) \subseteq read[r]
    /\ \A q \in read[r] : pc[q] = "liked" /\ answer[q] = answer[r]
    /\ \A q \in read[r] \ LikesOn(answer[r]) : who[q] \in withdrawn
    /\ OneEach(read[r])

ReadCurrent == \A r \in Requests : pc[r] = "write" => UpToDate(r)

\* The pages so far are at or above the cursor, and whatever lasts is on one of
\* them or below it; a second query finds what the first has found and lasts.
PagesInOrder ==
    \A p \in Readers :
        /\ at[p] = "idle" => cursor[p] = None
        /\ at[p] # "end" /\ cursor[p] = None => page[p] \union got[p] = {}
        /\ at[p] # "end" /\ cursor[p] # None =>
              /\ \A i \in page[p] \union got[p] : i >= cursor[p]
              /\ \A i \in lasting[p] \ (page[p] \union got[p]) : i < cursor[p]
        /\ at[p] # "idle" => lasting[p] \subseteq Present(list[p])
        /\ at[p] = "fetch" => list[p] = None /\ lasting[p] \subseteq valid[p]

IInv ==
    /\ TypeOK
    /\ RequestsInPlace
    /\ LocksHeld
    /\ LikesInPlace
    /\ ReadCurrent
    /\ LikesAddUp
    /\ PagesInOrder
    /\ PagesDisjoint
    /\ PagesComplete

=============================================================================
