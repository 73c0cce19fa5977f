# Formal models of moalog-server

TLA+ modules, TLC configurations and TLAPS proofs for the server under
`codes/server` (Rust, axum, SeaORM on MySQL; paths below are relative to
`codes/server/src` unless they start with `docs/`). The modules are written from
the source; documents are used only where a run confronts the code with what they
or its comments say.

    tlc -config RetrospectSafety.cfg MCRetrospectLifecycle.tla
    tlapm RetrospectProofs.tla

`PROJECT.json` lists the components, the runs with their properties, the lines each
definition stands for, the mutants that show each property can fail, the hazards
and the theorems.

## 1. The system

A server for team retrospectives. Each HTTP handler is an async function that
tokio may suspend at every `.await`; handlers share a MySQL database and some
in-memory limiters. A second half of the repository, the automation pipeline (log
watcher, webhook intake, event queue, trigger filter, processor), has no caller in
`main.rs` yet; it is a library with tests.

| Part | State | Operations | Hard behaviour | Module |
|---|---|---|---|---|
| Retrospect lifecycle (`domain/retrospect/service.rs`, `domain/member`) | participants (`member_retro`), their answers, insights, status, submission time, row locks | create_participant, save_draft, submit_retrospect, analyze_retrospective, delete_retrospect, withdraw | a 30 s call to the AI between read and save, `FOR UPDATE`, cascades | `RetrospectLifecycle` |
| Reports (same file) | what a reader has collected | get_storage, get_retrospect_detail, export_retrospect | five queries without a transaction | `RetrospectReaders` |
| Retro rooms (same file) | rooms, memberships, their order, retrospects | create, join, reorder, rename, delete, list, search; create_retrospect, delete_retrospect | every check is a statement before its write; cascades | `RetroRoom` |
| Writing assistant and AI limits (same file, `global/rate_limit.rs`) | `assistant_usage`, limiter cells | generate_assistant_guide, check_guide, check_analysis | a quota counted before the AI call and in overlapping transactions | `AssistantGuide` |
| Likes, comments, pages (same file, `config/database.rs`) | `response_like`, `response_comment`, cursors | toggle_like, create_comment, list_comments, list_responses | snapshot and row lock, ids that commit out of order, an index that may be missing | `ResponseFeed` |
| Event queue (`event/queue.rs`, `event/file_queue.rs`) | files in four directories, one lock | push, pop, complete, fail | several file operations per call, failed reads and writes, crashes | `EventQueue`, `FileEventQueue` |
| Event processor (`monitoring/processor.rs`, `discord_alert.rs`) | whether alerts are enabled | process_once, run_loop | retries through a rate-limited filter, lost answers, requests that hang | `EventProcessor` |
| Trigger filter (`event/trigger.rs`) | lists from the environment, windows of timestamps | should_trigger, try_acquire, check, reset | a clock read before the mutex is taken | `TriggerFilter`, `RateLimiter` |
| Webhook intake (`domain/webhook`, `event/event_types.rs`, `utils/error.rs`) | none | which request or log line becomes which event | tables kept by hand in five files | `EventIntake` |
| Log watcher (`monitoring/log_watcher.rs`) | position and dedup file of each day | watch, cleanup | half-written lines, truncation, midnight, failed reads, crash between two writes | `LogWatcher` |
| Subscriptions (`domain/payment`) | `member_subscription` rows; FluxPay's payments | create_subscription, cancel_subscription, webhook | webhooks early, late, repeated or untrue; time-outs | `Subscription` |
| Sign-up and sessions (`domain/auth`, `utils/jwt.rs`) | members, one refresh token each | social_login, login_by_email, signup, refresh_token, logout, withdraw | the token and the nickname are read, then written | `AuthSession` |

How the parts meet. Handlers take the member from a JWT the auth service issued;
the analysis and the assistant ask `get_member_plan` (subscriptions) for their
limits; `withdraw` and `delete_retrospect` remove rows under requests of all others;
the watcher and the intake make events, the queue keeps them, the processor takes
them out, asks the filter and alerts. Composed in one module: readers over the
lifecycle (`RetrospectReaders` EXTENDS `RetrospectLifecycle`), processors over the
queue (`EventProcessor` EXTENDS `FileEventQueue`), the filter over the limiter and
the intake (`TriggerFilter` EXTENDS `RateLimiter, EventIntake`). Elsewhere the other
part is an environment action (`Withdraw`, `PlanChanges`, `Submit`, `Edit`), which
may happen at any time, so it allows at least what the other module does.

## 2. How code becomes actions

**Requests are processes.** A request has a program counter and the values it read
before its last await. One action is what happens between two points at which the
state it depends on can change: a group of reads, or one transaction. A request
refused before it keeps anything has no action: its first action is not enabled. A
request is served once, and what it creates (a row, a member, a token, an order, a
room) is named by it, so identity needs no counters. `Abort` ends a request at any
await: database errors, deadlocks that MySQL breaks, time-outs, a client that hangs
up, a stop of the process. Nothing uncommitted survives it. A commit is an await too:
MySQL may have committed when the connection or the client is gone, so a guide is
committed (`GuideCommit`) an action before it is answered (`GuideAnswer`), and a request
may end in between (`cutoff`). Nothing a handler does after another commit changes state,
so elsewhere an answer that was lost shows as one that nobody read.

**Transactions** are one action, at the commit, except where it matters what they
see and lock. The schema uses InnoDB at its default REPEATABLE READ: plain reads of a
transaction see the snapshot of its first one, `FOR UPDATE` and writes see the
latest rows, an insertion locks the parent row its foreign key names. So
`submit_retrospect` holds its row lock over two actions; `delete_retrospect` counts
the room's retrospects in a snapshot taken an action before its commit
(`DeleteBegin`, `DeleteCommit`); the assistant's transaction inserts and counts
before it commits (`GuideCount`, `GuideCommit`), and other transactions do not see
its use in between; `toggle_like` locks the answer, then takes its snapshot, then
writes.

**`RetrospectLifecycle`.** `rows` are the `member_retro` rows, each with its
answers; a participant's answers are found through `member_response`, which is why
two participations of one member make both unusable (`MyRows(m, t) = {row}` stands
for "exactly five answers"). `snap` is what an analysis, a draft or a submission
read, `addressed` the members the AI was told of. `AnalyzeMembers` and
`AnalyzeAnswers` are the two reads before the AI is called; the call is the time
until `AnalyzeSave`. `insight` with `thisMonth` is the month's count. The five
questions and three answers of the code are the constants `Questions`, `MinAnswers`.

**`RetrospectReaders`.** One reader collects a report query by query: `found` rows,
their `times`, the `names`, the `listed` retrospects, the `texts`. Readers write
nothing others read, so one stands for all; `texts` holds the answers with the request
that wrote each, which is what an author can be checked against.

**`RetroRoom`.** `rooms`, `rows` (memberships) and `retros` carry the request that
inserted them; `position` is the request that last set a row's `order_index`.
`Remove` is the cascade: it takes retrospects, memberships and uses of a room or a
retrospect with it.

**`AssistantGuide`.** A request passes the limiter service, its member's limiter
(`Arrive`) and the shared pool (`TakePoolCell`), and only a guide goes on here; what
an analysis does next is in `RetrospectLifecycle`. The governor crate is external:
the member's limiter may grant or refuse at any time, the pool is a number of cells.
The AI may return any number of guides, text that is not JSON, or nothing.

**`ResponseFeed`.** `lock` is the lock on an answer's row. `SchemaUpdate` and
`OldDuplicates` say whether start-up could create the unique index on likes. Comments
have ids when they are inserted and appear when they are committed. A reader has a
cursor and is compared with `lasting`, the ids that were in the list all along.

**`FileEventQueue`.** Every operation holds the queue's write lock, so `op` is the
one operation in progress and its next file step. `fs::write` is two steps with a
`Torn` file in between; a rename is atomic. `PushFails` ... `FailFails` are failing
file operations with the error paths of the code (a rollback, a rollback that
fails); `ScanFails` is a failure in the search for duplicates, which passes over a file it
cannot read, so that the event is accepted beside its duplicate (`missed`), takes a
completed file whose age it cannot tell for a recent one, or gives up when a directory cannot
be listed; `Crash` loses `op` and the workers and keeps the directories. The name of a
file is reduced to its priority and its event: `read_dir` gives no order within one
priority, so neither does `Candidates`.

**`EventQueue`** is what the trait in `event/queue.rs` promises: where an event is,
how often it was retried, what the dedup window keeps out; `AcceptUnseen` and
`RefuseStale` are what it allows a search that failed. `KeepsPromise` is the
refinement: `PlaceOf` and `TriesOf` compute an event's place from the files and from
the operation that has it in memory.

**`EventProcessor`** adds the filter's decision, the alert and its outcome. An alert
whose answer is lost may or may not have been posted. A server may be started without
alerts (`enabled`, from `DISCORD_WEBHOOK_URL`'s `DiscordAlert` or a disabled one); its
`send_error_alert` returns at once and the event is completed (`AlertSkipped`, `silenced`).
The limiter is a number of slots in use.

**`RateLimiter`** keeps the timestamps of each action in arrival order and splits
`try_acquire` at the mutex; `granted` is the history of real times. **`EventIntake`**
is operators only: an arrival (what is left of a request after signature and JSON)
to an event, and the tables an event is looked up in. Event types are sequences of
segments of words, since the code looks for substrings between dots and underscores.
**`TriggerFilter`** builds the lists from the environment and sends what passes to
the limiter.

**`LogWatcher`.** Lines are numbered as they are written; `partial` is the one still
being written. `watch()` is one action up to its first write (`Watch`), then one per
truncation and write of its two files, then `Push`. The dedup file may fail to be read
(`unread` in `Decide`), and then the poll goes on with an empty cache; any other fault ends
the poll where it is (`Fault`), with the events it had decided on `lost` once the position
was touched. A poll that fails before it has changed anything is a stutter. The first poll after a truncation
may not notice it when the file has grown as long again (`Overgrown`, `blind`).
Between two polls of one module step the clock and the day may move.

**`Subscription`** has FluxPay as its environment: `Settle` decides a payment,
`Webhook` is any POST to the endpoint at any time: the handler takes order and outcome from
the body as it is and compares neither with FluxPay, so a webhook may be early, repeated or
untrue, and `told` keeps what webhooks have said of each row. `Abort` may leave a payment the server never hears of.
The answer to a webhook for an unknown order is a success.

**`AuthSession`** names a refresh token by the request that issued it. `expired` is
the time in the database, `dead` the one in the JWT with the leeway jsonwebtoken
allows, which comes later: in between, `refresh_token` clears the stored token.
`NicknameIndexed` says whether the table's nickname is UNIQUE: it is in a table made from
the entity, and not in an older one to which start-up added the column.

## 3. Runs

| Run | Question | Instance | Distinct states |
|---|---|---|---|
| `RetrospectSafety` | do status, time, insight, acknowledged submissions and authorship stay consistent; does a status only go forward | 5 requests, 2 members, 1 retrospect | 87,000 |
| `RetrospectReads` | does what a reader puts together fit; does every served request end | 3 requests, 2 members, a reader; fairness | 392,000 |
| `RetroRoomSafety` | do references hold; is a searched room named; does a deletion take only its own retrospect | 4 requests, 2 members, 2 titles | 115,000 |
| `AssistantSafety` | is a use recorded exactly for a committed request; does the limit hold unless transactions overlap; is the pool charged for the admitted only | 3 requests, 1 member, 2 retrospects, 2 months, limit 1, pool 1 | 1,310,000 |
| `FeedSafety` | do likes add up to the committed toggles without the index; are totals honest; are pages disjoint and complete | 3 requests, 2 members, 2 answers, 1 reader, pages of 1 | 2,240,000 |
| `EventQueueSafety` | deduplication but for a failed search, exclusive hand-out, bounded loss, refinement of `EventQueue` | 3 events, 2 workers, 2 failures | 160,000 |
| `ProcessorAlerts` | are posts bounded, dead letters tried each time, completed alerts confirmed, refused by the limiter or dispatched without alerts; does every accepted event leave the queue unless Discord hangs on it | 3 events (one an error), 2 processors, 2 outages, 1 failure, 1 slot of the limiter, alerts on or off; fairness | 220,000 |
| `FilterSafety` | do the tables agree; does a severity hide anything critical, without severity or of the AI service; does the limiter hold | all arrivals, 5 settings, 2 callers, 6 clock steps | 113,000 |
| `LogWatcherSafety` | is no error missed but by its own poll's fault, nothing muted without an event, nobody told twice without a fault between | 3 lines, 2 days, 3 clock steps, 2 failures, 1 truncation | 6,120,000 |
| `SubscriptionSafety` | is an ACTIVE plan one a webhook confirmed, and paid unless that was untrue; what brings an ended one back | 3 requests, 1 member, 2 paid plans | 54,000 |
| `AuthSafety` | are tokens of members, spent tokens refused | 5 requests, 2 accounts, 2 nicknames | 108,000 |
| `AssistantLimitPassed` | finding: the second count is not safe under concurrency | as `AssistantSafety` | violated |

`AssistantLimitPassed` confronts the code with its own comment (`service.rs:3349`):
two requests of a member both insert their use, both count one, both commit.

**Bounds, and why they are enough.** The races here need two or three requests after
the one that set the scene, so three to five requests contain each pair of handlers on
one row. Two failures let a second one strike the state the first left, and the
theorems of section 4 drop that bound where it matters most. `MaxRetries` is 1 (the
code has 3): a retry and an exhaustion are both reached. A reader's report is about
one retrospect, so three requests beside it (join, write, a disturbance) suffice. Two
outages let an event be retried and exhausted. In `ProcessorAlerts` one event of the three is
an error, so that one of the two processors may hang on Discord and the other has to serve
the rest (both hanging, the other exception of `EveryErrorReported`, takes two errors and is
not reached); the safety theorems about it are for any number of errors. `AuthSafety` has no
constraint on nicknames, which allows every sign-up that a table with one would.
Pages of one id make every insertion a page boundary. The clocks run two windows for
the limiter and past one for the watcher. Members of different subscriptions never
meet, so one is enough there. Requests, members and workers are symmetric; no run
with a liveness property uses symmetry. Deadlock is not checked: once all requests
are used up or all events settled nothing is left to do.

**Fairness.** `FairSpec` and `FairReaderSpec`: weak fairness of each request in
service (tokio polls every ready future). That is enough since the holder of a row
lock never waits for another; a reader is not obliged to come to its end.
`FairProcessorSpec`: the operation that has the queue's lock goes on, a worker that
keeps asking for the lock gets it (strong fairness: tokio's RwLock serves in the
order of asking), and a worker goes on with what it can do by itself (`ProcessAlone`). Nothing is
assumed of Discord, whose HTTP client has no time-out (`discord_alert.rs:87`), nor of
failures, clients, FluxPay or the log. So `EveryErrorReported` has to except an event whose
request hangs for ever, and all events when every worker has such a request; it says that
fewer hanging requests hold up nobody else. It excludes behaviours with a failed file
operation or a crash, because after one it is false: nothing looks at `processing` when the
server starts. Its events are finitely many, so it says nothing of an unending supply of
urgent ones, which would keep the others waiting: `pop` takes the most urgent first.

## 4. Proofs

Each `...Proofs` module proves its theorems for any constants that satisfy the named
assumption of the module, so for any number of requests, members, events and
failures. The argument is the same everywhere: an inductive invariant `IInv`, first
checked by TLC, one lemma or step per action, under it one step per conjunct that the
action disturbs; action properties follow from `IInv` and one look at each action.
What each `IInv` adds to the properties is why they hold:

- **`RetrospectProofs`**, the lifecycle: a submission writes a row it locked two steps
  before, so it must be there, a DRAFT, and locked by nobody else (`LocksHeld`); an
  analysis writes rows it read before the AI call, so those that remain have left
  DRAFT (`AnalysisReadSubmitted`); a row's member and retrospect are those of the
  request that inserted it (`RequestsWellFormed`, `RowsWellFormed`). `RowsIsolated` has
  an invariant of its own (`RowsOwned`): what a draft or submission is about to write
  is its member's.
- **`RetrospectProofs`**, the readers: readers disturb nothing
  (`ReadersDisturbNothing`), so the lifecycle's invariant holds under them; then what
  a reader has collected stays true although the rows go on changing: an insight read
  is of a finished analysis whose rows the report finds (`AnalysesOver`,
  `ReportFound`), a date read is a submission of the client (`StorageFound`).
- **`RetroRoomProofs`**: whatever is stored was stored by a request that is done, so
  its room no longer changes (`StoredByDone`); rooms that a search found and that still
  exist have been named before its last read (`SearchesRead`). `TitlesUnique` is proved
  but in no run: the table's constraint gives it.
- **`AssistantGuideProofs`**: until a transaction commits, its count is no less than
  what its member has used, unless another transaction of the member overlaps it
  (`CountStands`), and what was committed was within the limit (`CommittedWithin`).
- **`SubscriptionProofs`**: a paid row is PENDING until a webhook has found it, and what a
  request is about to cancel has been found by one (`PendingUntilTold`). Nothing is assumed
  of what webhooks say.
- **`AuthSessionProofs`**: a stored token is its member's and was granted
  (`TokensIssued`), and one that was exchanged or logged out is in no row and on no
  request's way into one (`SpentNotStored`), with or without the constraint on nicknames.
- **`EventTriggerProofs`**, the filter: its behaviours are the limiter's
  (`FilterIsALimiter`); the queue of each action has its last grants, each with a
  time read at most `MaxDelay` before (`QueueOfLastGrants`), so a grant `Limit` places
  later is nearly a window later (`GrantsApart`). `LimitAlwaysHeld` needs this: times in
  the queue may be out of order. Also proved, and in no run: `check` agrees with
  `try_acquire` while the times are in order. An event of the intake comes from Discord,
  GitHub or the watcher and has the fields its origin gives it (`EventsKnown`), so the tables
  agree for any users and lists (`TablesAgree`); a filter's minimum is one of the severities
  (`MinKnown`), which is all `NothingUrgentHidden` needs.
- **`EventTriggerProofs`**, the log watcher, after any number of faults: no line is decided
  on twice (`UndecidedBeyond`, `DecidedNow`), unless its poll failed before it touched the
  position, and then as if for the first time; up to the mark of the
  day (what `watch()` is about to store, or has stored) each error line has been dealt with
  (`DealtWith`), which needs that the line being written is the last one and that the mark
  itself parses. Each stored time is that of an event, pushed or lost (`AlertsOfEvents`, for
  `MutedByAlert`), and each event of the day since which there was no fault is remembered
  for a window, in the cache or in the file (`EventsRemembered`, for `NoEarlyRepeat`); nothing is stored of later days
  (`FilesOfDay`).
- **`ResponseFeedProofs`**: between its first read and its write a toggle holds the
  answer's row (`LocksHeld`), so what it has read is what there is, but for members who
  have withdrawn (`UpToDate`); that, and not the unique index, keeps likes single. The
  total it reports is off by likes of different members who withdrew, so by no more than
  there are. The pages so far lie above the cursor and what lasts is on them or below it
  (`PagesInOrder`); a page takes the greatest of the rest, and of one more than a page the
  same (`PageShown`), whatever the size of a page.
- **`EventQueueProofs`**, the queue: where the file of an event is at each step of each
  operation (`OpInPlace`), that nobody else has it (`WorkInPlace`), that what waits or
  is held is not settled elsewhere (`FilesInPlace`). Deduplication is inductive only with
  the event an operation has in memory while no directory has it
  (`OneKeptPerFingerprint`, which leaves out the events in `missed`), the bound on losses only without it (`FewLost`).
  `ImplementsEventQueue` is the refinement: each action moves one event
  (`OneEventMoves`) and leaves the places of all others alone (`PlaceElsewhere`).
- **`EventQueueProofs`**, the processors: they only use the queue (`ProcessorsUseQueue`),
  so its invariant holds under them. An attempt is counted in the event's file, or in the
  copy a worker has, before another can begin (`CountedOnDisk`, `CountedInWork`), and no
  event is tried more often than counted (`TriedWithin`); what is still sent passes the
  filter (`SendingWanted`).

Assumptions: `NULL` values and markers are no members of the sets they stand beside,
numbers are natural, and `Requests` is finite where cardinalities are compared (a safety
property is about the prefixes of a run, and in each only finitely many requests are made).

**Only model-checked:** liveness (`RequestsFinish`, `EveryErrorReported`). Liveness under
fairness, `ENABLED`, and induction over what a recursive definition computes are out of the
prover's reach. Every invariant and action property of a passing run is a theorem, and the
refinement of `EventQueue` too. The property of `AssistantLimitPassed` has a counterexample, so
there is nothing to prove. `EventTriggerProofs` and `EventQueueProofs` hold the proofs of two modules
each that share a prover's context; `LogWatcher` and `EventProcessor` therefore name their
specifications apart (`WatcherSpec`, `ProcessorSpec`).

## 5. Hazards

`PROJECT.json` lists what is hard to test in this code, each at its line, with the
properties that would catch it. Three have none, because the code's behaviour is known and
the models contain it (section 6): the month's analyses are counted before the AI call, the
dead letters are not searched for a fingerprint, and nicknames may have no constraint.

## 6. Known behaviours of the code

The models contain these; each follows from reads and writes in separate steps or
from tables that differ, and a property that denies it fails within a few steps. Where
a document or comment says otherwise it is quoted.

Retrospects
- A draft can be saved over submitted or analysed answers: `save_draft` never reads
  the status (`SaveDraftWrite`). `docs/api-visual/11-Error-Codes.md:113` has RETRO4033
  for an attempt to edit after submission.
- Two `create_participant` requests that overlap both insert (`CreateParticipantInsert`);
  the answers of both are then unusable. `service.rs:1131` maps a violation of a unique
  constraint to 409 and `docs/reviews/015-retrospect-participant-create.md:267` relies on
  one, which the entities do not declare.
- Two analyses that both saw no insight both save; analyses of two retrospects that both
  counted before either saved pass the monthly limit (`AnalyzeQuota`, `AnalyzeSave`).
- A participant who submits during an analysis stays SUBMITTED beside ANALYZED rows.
- A PDF may show a personal insight without the room's, or `Anonymous` for a
  participant who joined between its queries; a storage list may show a retrospect that
  has just been deleted, with no participants.

Rooms, assistant, likes
- Two joins of one member both insert; the comment at `service.rs:188` relies on a
  unique constraint the schema does not have (`JoinInsert`).
- The deletion of a room's last retrospect takes one that was created after its
  snapshot (`DeleteCommit`).
- A request refused by the shared pool has lost its member's cell (`TakePoolCell`).
- Without the unique index the lock alone keeps likes single. When old duplicates forbid
  the index, MySQL's error says "duplicate" and is swallowed like that of an index that is
  there (`create_unique_index_if_not_exists`), without a line in the log.
- A transaction may be committed although its request ends in an error or its client is
  gone: a use is then charged, a like set, without an answer (`Abort` from `kept`;
  `ToggleWrite`).

Subscriptions and sessions
- A webhook that comes before the row is acknowledged and lost: the paid row stays
  PENDING (`Webhook`). A webhook that comes again makes a cancelled row ACTIVE.
- The handler believes what the body of a webhook says and does not ask FluxPay: `ActiveIsPaid`
  holds up to what webhooks have said (`Misreported`).
- A member table from before nicknames gets the column as `VARCHAR(255) NULL`
  (`config/database.rs:101`), without a constraint, and two sign-ups that both found a nickname
  free both insert it (`Insertable`). `docs/api-specs/002-auth-signup.md:153` promises a 409
  (MEMBER4091) for a nickname that is taken, and the comment at `domain/auth/service.rs:196`
  relies on the constraint. Where it is there, uniqueness would only restate it, so no run
  asks for it.
- Two overlapping subscriptions leave two ACTIVE rows; a failed order leaves none, for
  the old one was cancelled first (`CreateCancelOld`).
- Two refreshes that both compared the same token are both granted; a refresh that
  compared before a logout stores its token after it; one that found its token expired
  clears a newer one (`StoreToken`, `ClearExpired`). A logout clears the member's one
  token, also if it is another device's.

Events
- Nothing takes up what is in `processing` when the server starts, and its fingerprint
  stays blocked (`Crash`, `ContainsFingerprint`); the dead letters are not searched, so an
  error is accepted again right after its alert failed for good.
- A pop whose write of the status fails half-way moves a torn file back to pending; the
  next pop makes it a dead letter (`PopWriteFails`, `PopRead`).
- The search for a fingerprint passes over files it fails to read (`if let Ok`, in
  `contains_fingerprint_unlocked`): the event is accepted beside its duplicate (`ScanFails`).
- Where alerts are disabled every error is completed as if it had been posted
  (`AlertSkipped`).
- A retry the limiter refuses is completed as if it had succeeded (`FilterRefuses`);
  `CompletedSucceeded` and `EveryErrorReported` except what was refused so, and what a server
  without alerts completed.
- With times out of order `check` allows what `try_acquire` refuses (`Cleaned`).
- `into_response` logs every error but RateLimitExceeded as ERROR, so AUTH4 and RETRO4
  (the client's errors) are warnings that are alerted, while COMMON5 and PAY5 are infos
  the default filter drops (`SeverityOf`, `SevereEnough`). Two documents differ:
  `docs/ai-automation/phase-1-event-trigger.md:295` has
  `CRITICAL_CODES="COMMON500|AI5001|AI5002|AI5003|AI5031"` (so has `scripts/log-watcher.sh:18`), while
  the code knows AI5 only; and `docs/ai-automation/overview.md:282` has AUTH4003 as Critical, which is
  a warning in the code.
- A list of allowed users drops monitoring events, which have none; the design in
  `docs/ai-automation/phase-1-event-trigger.md:765` checks the user only of an event that
  has one, as Discord's and GitHub's do.
- `pr_opened` is counted as an API call, for `pr` must be a segment of its own
  (`ActionOf`); "/review fix" is parsed as fix (`Parse`).
- The intake makes events and does not push them, and gives each a fresh fingerprint.
- The server's own JSON lines carry the message inside `fields`, on stdout;
  `parse_log_entry` wants another layout. `LogArrivals` are lines in the layout it reads.
- The watcher saves its position before its caller has pushed the events: a crash in
  between loses them. A dedup file that cannot be read is taken for an empty one
  (`load_dedup_cache`), so what it knew is told again (`Loaded`). Lines written to a day's file after the last poll before midnight
  UTC are never read (`Midnight`).

## 7. What is not modelled, and why

- **References of a retrospect** (`list_references`): written with the retrospect and
  deleted with it; no step depends on them.
- **Safety checklist** (`automation/safety.rs`): thresholds and patterns over one input,
  without state, and nothing calls it yet.
- **Handlers, DTOs, response types**: routing, shapes and validation. A request that
  fails validation changes nothing, which in the models is a request not sent.
- **Inside modelled parts**: signature checks and JSON parsing of webhooks, the OAuth
  code exchange and cookies, prompts and the parsing of OpenAI's text beyond how many
  guides it has, a directory listing that breaks off half-way in `pop` and
  `find_event_file` (`entries.flatten()`; the event is then found at a later call or the call
  ends as if there were none), an `exists()` of the watcher that fails as if the file were
  not there, the layout of PDFs and alerts, logging, the category filter of
  `list_responses`, table creation other than the index on likes and
  the nickname column.

What could be added: the watcher composed with the queue, once the server has a caller that pushes its events.
