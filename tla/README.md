# A formal model of Keel

Keel is a household finance program: a TypeScript front end, a set of Supabase edge
functions, and a Postgres database whose `SECURITY DEFINER` procedures hold almost all of
the logic that changes money. This directory holds TLA+ models of the parts in which steps
of several actors meet, the TLC configurations that check them on small instances, and
proofs, checked by TLAPS, of what matters most for every size.

Paths below are relative to the repository root.

## 1. Inventory of the system

| Part | State it keeps | Operations | Hard behaviour |
|---|---|---|---|
| Sync engine: `supabase/functions/worker`, `_shared/plaid-sync.ts`, procedures `keel_worker_*` | connection row (status, lease owner and expiry, desired and committed generation, continuation flag), `sync_checkpoints.cursor`, `sync_attempts`, queue `sync_events`, raw and normalized records, canonical transactions, command executions | enqueue (webhook, cron, member, continuation), read, bump, acquire, renew, open, fetch pages, archive, look up, plan, normalize, apply, complete, abandon, mark for reauthentication | many workers, one message in several hands, leases that run out, crashes between any two calls, retries, partial pulls, fencing |
| Ingest planner: `packages/ingest` | none: a pure function of a batch of provider events and the canonical state | plan added, modified, removed; fold and order a batch | pending transactions that post under another id, split over windows |
| Link and disconnect saga: `20260711140100_c3_link_disconnect_saga.sql`, `20260719220000_...`, `functions/api/index.ts` | link attempts, sealed credentials, connection status, removal marker | begin, exchange, record, finalize, fail, reap, disconnect | a provider item with no row, a row with no item, an attempt that expires under its request, a lost answer, two disconnects |
| Canonical ledger: `20260710210300_ledger.sql`, `20260710210600_command_procs.sql`, `packages/ledger` | journal batches, postings, revisions, source links, period locks | post, reverse, revise, split, re-date, void | user edits against sync corrections, a lock created while a posting is under way |
| Command gateway: `_shared/command-exec.ts`, `keel_idempotency_check` | command executions by idempotency key | execute once, replay, refuse another payload | concurrent duplicates |
| Webhook intake: `functions/webhook-provider` | delivery ids, key cache, quarantine | verify, deduplicate, enqueue | duplicates, unknown items |
| Provider metering: `20260711160000_c6_metering_cron.sql` | monthly usage rows | reserve, refund | a reservation whose call never ran |
| Approval tokens: `20260720100000_approval_tokens.sql` | tokens with a payload hash | issue, redeem once, sweep | redeem against expiry and revocation |
| Balance re-anchoring: `20260718104000_...`, `20261102190000_...` | opening balance batch | re-anchor, heal | runs against a sync in progress |
| Transfers: `20260713020000_transfers.sql` and later | suggestions, confirmed pairs | detect, confirm, reject, expire, split | two suggestions that share a leg |
| Statements: `20260720180000_...` to `20260720280000_...`, `worker/statement-extract.ts`, `/documents/*` of the API | storage objects, content hashes, drafts, delivery records (outbox), extractions, recorded statements | sign an upload, confirm, begin, enqueue, sweep, extract, issue consent, approve, dismiss | messages lost after the commit, duplicate contents, two jobs on one draft, consent to a body that changes |
| Receipts and documents | documents, matches | extract, match, attach | matching by score |
| Recurring series: `20260712120000_recurring.sql` and later, `packages/detectors`, `lib/recurring.ts` | series, candidate versions, status events, occurrences, detector runs | detect daily, upsert, reap, confirm, pause, resume, cancel, reject, correct the amount | the job against members' decisions, a timeline ordered by dates |
| Scheduled transactions: `20260713200000_...`, `20260803150000_...` | one row with due date and anchors | save, enter, skip, set status | stale tabs, repeated calls, month ends |
| Paychecks, reimbursements, budgets, goals, categories, rules, tags, notes | one or two rows each | single commands | little: one transaction each |
| Investments | holdings, investment transactions | replace by provider's view | late history |
| Authorization, exports, assistant, MCP connector, web application | none the books depend on | reads and request plumbing | out of this development |

### How the parts meet

The provider announces a change; `webhook-provider` verifies it and calls
`keel_webhook_record_delivery`, which stores the delivery and enqueues a message in one
transaction. Members and cron jobs enqueue too. A cron job calls `/drain`, which reads a few
messages and handles each with `processSyncNotification`. That function reads the connection,
asks for a new generation, takes the lease, opens an attempt, pulls pages from the provider
from the committed cursor, archives them, looks up the canonical state of the transactions
named, plans actions with `packages/ingest`, applies them one by one through
`keel_worker_apply_action`, and completes the attempt, which moves cursor and committed
generation and frees the lease. Members act on the same canonical transactions and the same
connection row through the REST API; the link saga creates and retires connections, and its
reaper, a cron job, works on the link attempts its requests left behind. The drain loop also
takes the extraction messages of statements, which `/documents/confirm-upload` and the
sweeper of the outbox send, and the daily detector message of each household. Every provider
call reserves a place in the day's budget first.

## 2. Modules

### SyncEngine (`SyncEngine.tla`)

One connection, any number of concurrent worker runs. Every RPC is one database transaction,
hence one action; a run may die between any two of them, and its lease may run out.

| Model | Code |
|---|---|
| `conn` | the `connections` row: `status`, `sync_desired_generation`, `sync_committed_generation`, `sync_lease_owner`, whether `sync_leased_until` is in the future, `sync_continuation_pending`, `provider_removal` |
| `cursor` | `sync_checkpoints.cursor`, as a position in the provider's history |
| `run[r]` | the locals of one `processSyncNotification`, `pc` naming the next call |
| `queue` | pgmq `sync_events`; `asOf` is a ghost: how long the provider's history was at enqueue |
| `book[t]` | the canonical transaction of a provider id: none, live, voided, and `asOf`, the position in the history its view was taken from |
| `cmds` | `command_executions`: apply keys used, `(message, provider id)` |
| `feed`, `hooks` | the provider's history (external) and whether it has a notification to deliver |
| `budget` | what is left of the bounds on sends, faults and outages |

| Action | Code |
|---|---|
| `WebhookRecordDelivery`, `RequestConnectionSync`, `CronEnqueueActiveSyncs` | the producers of messages |
| `Drain`, `VisibilityTimeout`, `Settle` | the drain loop and pgmq |
| `ReadConnection`, `BumpGeneration`, `RefuseLease`, `AcquireLease`, `OpenAttempt`, `RenewLease` | the head of `processSyncNotification` and the lease procedures |
| `FetchPage`, `FetchMutated`, `FetchFails`, `FetchDisabled`, `ArchivePages` | `fetchSyncPagesLive` and `keel_worker_archive_page` |
| `LookupState`, `CreateNormalized`, `ApplyAction` | state lookup and plan, then the action loop |
| `CompleteAttempt`, `EnqueueContinuation`, `AbandonAndRelease`, `MarkReauth` | the ends of an attempt |
| `ReauthWebhook`, `DisconnectBegin`, `DisconnectComplete` | changes of the connection's status |
| `Crash`, `LeaseExpires` | the environment |

Data is abstracted to what the properties tell apart. An amount, a date, a description are
one thing, the position in the history they were read at. The provider answers a cursor with
the net change of each transaction since that cursor, so a window names a transaction at most
once; whether a transaction is pending plays no part here.

Two observations of the model that are not in the source: a name in `Runs` stands for the
random uuid of an invocation and is drawn again only while it owns no live lease; the row in
`sync_attempts` is used by its own run only, so its state column is implied by `pc`.

### IngestStream (`IngestStream.tla`)

The planner of `packages/ingest` where a purchase is first pending under one provider id and
then posted under another, which SyncEngine leaves out. One attempt at a time pulls a window
of the provider's updates, plans it as one batch and applies it action by action; it may die
after any of them.

| Model | Code |
|---|---|
| `feed` | the provider's updates (external): appears, modified, removed, posts (removal of the pending id and addition of the posted one, next to each other in either order) |
| `txn[k]`, `link[t]` | the canonical transaction of an economic key with its latest source record, and the transaction a provider id is linked to: what `keel_worker_lookup_state` returns |
| `PlanAdded`, `PlanModified`, `PlanRemoved`, `FoldEvents`, `ReconcileBatch` | the functions of those names in `plan.ts` and `reconcile.ts`; a plan carries the state it leads to |
| `att`, `PullWindow`, `PlanWindow`, `ApplyAction`, `CompleteAttempt`, `Crash` | an attempt of the worker |

The fold of a batch is written over the set of its events, the last of them (`LastOf`, the
order of `compareEvents`) planned after the others, so that it is no recursion and can be
reasoned about. `Drained` says whether every window reaches `has_more = false`. An economic key is made from
the provider id that created it, so the key of a transaction is that id here.

### Journal (`Journal.tla`)

One canonical transaction and its journal, with database sessions that run commands at READ
COMMITTED. A command is three steps: it *begins* with the reads of its procedure, *writes*,
when it waits for the row and the trigger and the unique index check it, and *commits*.

| Model | Code |
|---|---|
| `row` | the `canonical_transactions` row |
| `batches`, `revs` | `journal_batches` with their postings, `journal_revisions`; `shape` is what the batch posts against: Uncategorized, one leg a member chose, several; `edited` is the revision reason `splits edited` |
| `record` | the provider's record last applied (or the member's own, for a manual transaction) |
| `proc[p]` | a session: what its command read and will write; `kept` is the batch of a revise that leaves the member's composition and so only updates the row |
| `locks` | `period_locks`; `seen` is how many batches the closing balance was read from, `overlapped` (a ghost) whether a posting to the period was under way between that reading and the lock |
| `SyncCreate`, `SyncRevise`, `SyncVoid` | `keel_worker_apply_action` |
| `ManualTransaction`, `SetSplits`, `SetDate`, `ManualVoid`, `ReverseBatch` | the `keel_cmd_*` procedures of those names |
| `Write`, `Commit` | the inserts with their locks, triggers and indexes; the end of the transaction |
| `CloseBegin`, `CloseCommit`, `Reopen` | `keel_reconciliation_close`, `keel_reconciliation_reopen` |

Locks. `set_splits`, `set_date` and `manual_void` take the row `FOR UPDATE` before they read.
The others take nothing before they write: their inserts reference the row, which a
`FOR UPDATE` makes wait, and each ends by updating it, which waits for any other writer. One
sync action at a time holds the connection's row. So `HoldsRow(q)` is: has written, or has
locked and will write. A failed command, a replay and a no-op change nothing and are not
actions. Each date is a period of its own. `Statuses` are those the provider's records have.

### LinkSaga (`LinkSaga.tla`)

How a connection begins and ends. Link requests, disconnect requests and reaper runs meet on
the rows of link attempts and connections; each of them calls the provider in between, and a
call may fail, be refused by the day's budget, or take effect although its answer is lost.

| Model | Code |
|---|---|
| `att[a]` | `link_attempts`: state, item, whether the sealed envelope is still there, whether `expires_at` has passed, `reap_attempts`, the reaper's claim |
| `conn[i]` | the one `connections` row of a provider item, its credential, its removal attempt; `by` is a ghost |
| `item[i]` | the item at the provider (external); `shared` and `doubt` are ghosts |
| `link[r]`, `unlink[d]`, `reap[w]` | the locals of the handlers, `pc` naming the next await |
| `quota` | what `keel_provider_budget_reserve` has left today |
| `BeginLink` ... `FinalizeLink`, `Undo`, `RemoveEmpty`, `FailLinkAttempt` | `/connections/link`, in the order of its awaits |
| `ReapClaim`, `ReapRemove`, `MarkLinkAttemptReaped` | `processReapLinks` and its procedures |
| `DisconnectBegin`, `ReadCredential`, `RemoveConnected`, `DisconnectComplete` | `/connections/disconnect` |

### StatementIngest and Consent (`StatementIngest.tla`, `Consent.tla`)

A bank statement from the file to the recorded statement. `Consent` is the abstract
specification of what an approval promises: a subject is recorded at most once, with the text
somebody consented to, by a consent that stood when it was used and is used up by it.
StatementIngest implements it (`KeepsPromise`): a consent is a token, a subject a draft, a
text the body of a statement; a token past its expiry has lapsed although its row still says
`issued`.

| Model | Code |
|---|---|
| `up[u]` | one upload and its confirmation: `uploadStatement`, `/documents/upload-url`, `/documents/confirm-upload`, with the bucket its bytes are in |
| `first`, `draft`, `outbox` | `document_hashes`, `statement_drafts`, `statement_outbox`, which `keel_statement_ingest_begin` writes in one transaction |
| `queue`, `job` | the extraction messages (the first of a version and those of the sweeper) and the drain loop |
| `extr` | `statement_extractions` |
| `dialog`, `token`, `stmt` | the review dialog of a member, `approval_tokens`, the statement a draft became |
| `ApproveElsewhere` | the command from another client of the same member, with any token and any body |

### RecurringSeries (`RecurringSeries.tla`)

One series: the daily job that suggests, refreshes and withdraws it, and the members who
decide about it from a list that may be stale. A command is one transaction whose date the
client chose and whose time is that of its beginning; `Overlap` says whether transactions on
the series may begin before another ended.

| Model | Code |
|---|---|
| `st`, `cur`, `versions` | `recurring_series.status`, its current candidate, `recurring_candidate_versions` |
| `events`, `occ` | `recurring_status_events`, `recurring_occurrences` |
| `call`, `done` | the members' commands and `command_executions` |
| `run`, `job` | `recurring_detector_runs` of the day, the locals of `processRecurringDetection` |
| `Send`, `Arrive`, `Replay`, `Transition`, `SetAmount` | `recurringTransition` and the set-amount call, the beginning of the transaction, `keel_idempotency_check`, `keel_recurring_transition_core`, `keel_recurring_set_amount` |
| `ReadTxns`, `UpsertCandidates`, `ReapRead`, `ReapApply`, `JobDies` | the calls of the job; what it sees in the day's transactions is any of: this series, this series with the inputs of a version before (no new one is inserted), others only, nothing |

A day is one slot of the cadence, and `keel_recurring_reclassify_cadence` is like a correction
of the amount. The reading and the writing of the reaper are two steps because the procedure
reads without a lock.

### Calendar and Schedule (`Calendar.tla`, `Schedule.tla`)

`Calendar` is the arithmetic of `civil-date.ts` and the grids of `cadence.ts`: dates are
records, and leap years, epoch days and clamped month ends are computed as the code computes
them. `Schedule` is one scheduled bill and the tabs that show it.

| Model | Code |
|---|---|
| `row` | `scheduled_transactions`: frequency, due date, anchors, amount, status |
| `shown[t]` | the row as a tab last fetched it; `Fetch` is `keel_list_schedules` |
| `postings` | the transactions posted under the economic keys of `keel_schedule_enter` |
| `skipped` | history, for the properties only |
| `Enter`, `Skip`, `SetStatus`, `Save` | `keel_schedule_enter`, `_advance`, `_set_status`, `_upsert`, called as the page calls them |
| `Step` | the next due date in `keel_schedule_advance`: in SQL, so with a calendar of its own that counts day by day |

A tab whose answer was lost still shows the old row and may repeat its call, which is why a
lost answer is no action of its own.

## 3. Runs

| Run | Question | Bounds |
|---|---|---|
| `fence` | nothing is written while the connection is inactive; generations ordered | 1 run at a time through every action: 2 windows of one page, a live restart, 1 fault, 1 outage |
| `crash` | no transaction skipped, no notification lost, no removed transaction left live | 2 runs, crashes between any calls, partial pulls |
| `live` | every update is pulled, but for two conditions that are named | fairness, 1 run, 2 transactions with additions and a removal, pages and invocations of one update, 1 crash or failed call |
| `poison` | every message leaves the queue (it does not) | fairness, 1 run, an addition and its removal in windows of 2 updates, 1 crash |
| `ingest_drained` | the book mirrors the provider, each purchase once, under its pending key; a window planned again leads to the actions that are left; contents are current | 2 purchases that post (the posted id sorts before or after the pending one), 6 updates, 2 crashes |
| `journal_concurrent` | one live batch, its amount, splits kept, the journal nets to the live batch; the row follows the journal, a closed balance stands, each but for one named interleaving | 2 sessions, 2 dates, 2 amounts, 5 batches, 1 close, reopened or not |
| `link_saga` | no item left alive without its credential; what is shown disconnected is gone; a connection in use keeps its item; a credential moves once | 2 link requests with an attempt each, which may exchange the same item, 2 disconnect requests with 2 removals between them, a reaper, 1 fault, a budget of 1 call a day |
| `statement_review` | one draft for a content, no draft forgotten, exactly what was approved is written and told, Consent is implemented | 2 uploads of one content, 1 member with 2 tokens and 2 bodies, 1 fault |
| `statement_delivery` | every draft is read or decided | fairness, 2 uploads, one of them possibly unreadable, 2 faults, 2 messages of 2 reads each |
| `statement_web` | a readable statement uploaded with the web application is accepted (it is not) | 1 upload |
| `recurring_serial` | status and timeline agree, dismissals and corrections stand, the forecast is whole, commands take effect | 2 members, 3 calls, 3 days, a horizon of one day, 1 killed job, transactions one after the other |
| `schedule` | an occurrence is posted once, a skipped one is not posted, steps and edits follow the cadence | 2 tabs, 4 calls, schedules of every frequency due at month ends of leap years, of 1900 and of 2000 |

In `journal_concurrent`, two corrections can be in flight on a created transaction, a close can
lie between any two of their steps, and five batches leave room for one correction (a reversal
and a replacement) after another; two statuses change none of it (below). The run of
IngestStream gives one update of each kind to each id, with room for a crash between any two
actions of a batch. In `link_saga` a budget of one call puts a refusal before every call that
follows another on the same day; `MaxReaps = 1` makes the reaper give up after one failure.
In `statement_review` two uploads of one content with one fault are enough for either
confirmation to be repeated after the other, and two tokens with two bodies for every wrong
pair. Three days are what a command of yesterday, a decision of today and a job of tomorrow
need. Four calls are an entry, an edit back, a second entry and one more of another tab.

The bounds are named constants: `MaxFeed` updates of the provider, `MaxSends` manual and cron
messages, `MaxFaults` crashes, failed calls and lost answers, `MaxOutages` reauthentications
and disconnects, `MaxRemovals`, `MaxCalls`, `MaxDay`. Limits of the code (`MaxReaps`,
`MaxEnqueues`, `MaxAttempts`, `DailyLimit`, `Horizon`) are constants too, set small, so that
they are reached. Two runs of the sync worker are enough for one to be superseded by another,
and to be reclaimed again under a fresh name. Page size 1 with one page per invocation makes
every update a window of its own, so partial pulls and continuations happen on histories of
length two. `Ops` restricts the kinds of updates where a run is about one kind, and
`Stalls = FALSE` restricts lease expiry to dead workers. That is the assumption of `crash`, for
`NoGhost` alone: without it, or with an outage, that is not kept (section 5, point 1), and the
theorem `GhostsAreStaleWrites` says what it depends on instead. In `live` one worker is enough for
partial pulls, continuations, and a message handled again after a crash with its apply keys used;
a second worker that is superseded while it applies spends the keys of its message in the same
way (section 5, point 7), so the run with two of them adds states and no question.

Deadlock is not checked: each of these systems stops when its bounds are used up.

### Configurations that are not runs

The number of runs is kept to one for each distinct question, and of the properties those
that say more than a type. Others that were checked, and how to repeat them:

* *Types.* The `TypeOK` of each module holds in each of its configurations; `schedule` keeps its
  own, which says that every computed date is a day of the calendar. Those of SyncEngine,
  IngestStream, Journal, LinkSaga, StatementIngest and Schedule are theorems.
* *More sessions' worth.* The properties of `journal_concurrent` hold with
  `Statuses = {"pending", "posted"}` too (2.1 million states). With `Procs = {p1}`,
  `MaxBatches = 7`, `MaxLocks = 2` and both statuses, `RowMatchesJournal`, `NoPostingIntoLocked`
  and `ClosedFigureStands` without `~locks[l].overlapped` hold: it is the interleaving that breaks
  them (section 5, points 5, 8 and 9).
* *Windows cut anywhere.* `RetryResumes` and `ContentCurrent` hold in `IngestStream_drained.cfg` with
  `Drained = FALSE` (457 826 states).
* *Two items.* The properties of `link_saga` hold with `Items = {i1, i2}` and `Unlinks = {d1}`, and
  with `Items = {i1, i2}`, `Unlinks = {d1, d2}` and `Relinks = FALSE`.
* *Overlapping commands.* `OnlyReaperContradicts`, `CandidateLocked` and `ForecastWhole` hold in
  `RecurringSeries_serial.cfg` with `Overlap = TRUE` (7.3 million states).
* *One writer.* `OnlyHolderWrites` holds in `SyncEngine_crash.cfg`, where no worker outlives its
  lease; section 5, point 1, says where it does not.
* *Inductive invariants.* `WindowsOK` and `PlansCover` hold in `SyncEngine_crash.cfg`, `OneWriter`
  in `Journal_concurrent.cfg`, `DecisionStands` in `StatementIngest_review.cfg`; all but
  `PlansCover` are theorems of their own, and `PlansCover` is part of the proof of `NoneSkipped`.
  The `IInv` of `IngestStreamProofs` holds in `IngestStream_drained.cfg`.

* *The cursor under stalls.* `CursorMonotone`, `NothingSkipped`, `WindowsOK` and `PlansCover` in
  `SyncEngine_crash.cfg` with `Stalls = TRUE`, `PageSize = 2`, `Ops = {"add", "rem"}` and without
  `NoGhost` and `SignalNotLost`: they hold. The first three are theorems.
* *Every envelope is used.* `EnvelopeUsed` of LinkSaga under `FairSpec` with two attempts and
  items, one link request, no disconnect, one reaper, `MaxReaps = 2`, `DailyLimit = 2`,
  `MaxRemovals = 1`, `MaxFaults = 2` and no symmetry: it holds (475 355 states).

### Fairness

`FairSpec` of SyncEngine assumes that a worker not killed continues, that the provider delivers
the notification it announced, that visibility timeouts and leases pass (clocks advance), and
that the drain job, which runs every minute and reads the oldest visible messages, comes back
to each visible message (strong fairness per message, since a message toggles between visible
and hidden) and that the competition for the lease does not starve one message for ever.
`FairSpec` of StatementIngest assumes the same of its jobs and messages, that a request not
killed continues, that the grace period passes and that the sweeper, a cron job of every five
minutes, runs. `FairSpec` of LinkSaga assumes that requests continue, that days and the
lifetime of an attempt pass and that the reaper is called. Nothing assumes that a call
succeeds; failures are bounded by `MaxFaults` instead, and in `statement_delivery` they are
fewer than the messages the sweeper and the queue allow together.

## 4. Proofs

The theorems hold for every value of the constants: any number of runs, sessions, requests,
tabs and members, any bound. Each proof has one lemma for each part of its inductive invariant
and, in it, one step for each action.

**SyncEngine** (`SyncEngineProofs.tla`, `SyncCoverageProofs.tla`)

| Theorem | States | Inductive invariant |
|---|---|---|
| `TypeCorrect` | `[]TypeOK` | `TypeOK` |
| `Windows` | `[]WindowsOK` | `TypeOK`, `WindowsOK` |
| `CursorNeverBack` | `CursorMonotone` | the same |
| `GenerationsInOrder` | `[]GenerationsOrdered` | `TypeOK`, `GenerationsOrdered` |
| `FencedOff` | `FencedWhileInactive` | `TypeOK` and the steps of a run |
| `NoneSkipped` | `[]NothingSkipped` | `WindowsOK`, `FeedOK`, `PlansCover`, `NothingSkipped` |
| `NoSignalLost` | `[]SignalNotLost` | `WindowsOK`, `QueueOrdered`, `SignalKept` |
| `GhostsAreStaleWrites` | `OnlyHolderWrites => []NoGhost` | `WindowsOK`, `FeedOK`, `GhostFree`, `NoGhost` |

`WindowsOK` says that the window of whoever owns the lease row starts at the committed cursor.
It is what makes a renewal that checks the owner only safe: ownership changes hands only when
the lease is reclaimed or released, and the cursor moves only in the step that releases it.
For `NothingSkipped`, the completion step needs the plan of the run that completes
(`PlansCover`: it still holds, or somebody has applied, a create for each transaction added in
its window), the plan needs the window, and the window the lease; `FeedOK` is that nothing
follows a transaction's removal. `SignalNotLost` needs that messages are queued in the order of
what they announce (`QueueOrdered`), and that a run about to archive its message has reached
what the message announced, or has a later one queued (`SignalKept`).

`GhostsAreStaleWrites` is about every behaviour, with any stalls and outages. The apply does not
check the lease (section 5, point 1), so neither `OnlyHolderWrites` nor `NoGhost` holds of the code;
the theorem says that the one is the only reason for the other. Its proof uses the hypothesis step
by step: a step that writes the book is one of the owner (`OwnerKeeps`), whose window starts at the
cursor (`WindowsOK`). `GhostFree` relates the plan of the owner to the feed: it creates
nothing that was removed up to the end of its window, and still voids what is live and was
removed within it. None of these theorems has an assumption on the environment.

**IngestStream** (`IngestStreamProofs.tla`)

| Theorem | States | From the invariant by |
|---|---|---|
| `KeysHold` | `Settling => []KeyKept` | `BookOK` |
| `OneEntryHolds` | `Settling => []OneEntryPerPurchase` | `BookOK`, `FeedOK` |
| `MirrorHolds` | `Settling => []MirrorsProvider` | `BookOK`, `Applying` with no action left |
| `RetryHolds` | `Settling => []RetryResumes` | the same and `Exact` |
| `ContentHolds` | `Settling => []ContentCurrent` | `Refreshing`, `Fresh` |
| `IngestStreamTypeCorrect` | `Settling => []TypeOK` | its typed parts |

All six share `IInv`. `FeedOK` is the shape of the provider's updates, among them that a posted
id comes with the removal of its pending one, which settles nothing else. `CutsOK` is that the
cursor and the end of a window do not separate the two. `BookOK` says that the book is right
about every id it knows at every step: the link of an id, the key, the status and what is shown go together,
also after an attempt died half way; that is why the next plan, made from a book no batch leads
to, finds nothing it cannot finish. `Applying` says of the actions an attempt still has to apply
that each stands in whatever book the ones before it leave, and that together they bring the
book to the end of the window; `Refreshing` and `Fresh` say the same of contents. `Exact` says that
they are the actions which the window, planned again from the book as it is, leads to: an action
applied makes its own events lead to nothing and leaves those of the others alone, since no two
act on one key (`SameLeft`), unless it is a void, after which the lookup of the code cannot be
read (section 5, point 2) and `RetryResumes` says nothing. The step that
plans is the heart of it: a batch is a fold, unfolded by least counterexample over its finite
set of events (`LeastSet`, `FoldStep`), and `Planned` goes from event to event (`PlanStep`): it
says which action each event has led to, and that no two of them act on one key.

`Settling` is that windows are drained and that a posted id is not pending for another. The
first is needed: with `Drained = FALSE` TLC finds `OneEntryPerPurchase`, `MirrorsProvider` and
`KeyKept` violated (section 5, point 4). So is the second, for `MirrorsProvider`: with ids 1, 2
and 3 of which each is pending for the next, TLC finds it violated. It says how the provider
behaves (a posted transaction is final), and the code relies on it. Nothing else is assumed: any
ids in any order, any feed, any modifications, and attempts that die after any action.

**Journal** (`JournalProofs.tla`)

| Theorem | States | Inductive invariant |
|---|---|---|
| `TypeCorrect`, `WritersExclude`, `AtMostOneLive`, `AmountFollowsRecord` | `[]TypeOK`, `[]OneWriter`, `[]OneLive`, `[]SourceAmount` | `IInv` |
| `SplitsKept` | `[]SplitKept` | `IInv`, `RevsKnown`, `SplitsSafe` |
| `NetStands` | `[]NetIsLive` | `IInv`, `RevsKnown`, `Net` |
| `RowFollows` | `RowFollowsJournal` | `IInv`, `RevsKnown`, `CommandsAgree` |
| `FigureStands` | `[]ClosedFigureStands` | `IInv`, `RevsKnown`, `Figures` |

`OneLive` needs `OneWriter` (two sessions that read the same live batch must not both replace
it), which needs that a session between its reads and its commit still refers to a batch that
exists and is no reversal (`Commands`), that a transaction without a row has no batches
(`Unborn`), and that the sync action in progress is alone (`OneSync`). `SourceAmount` needs in
addition that what a command will add has the amount of the record it applies, or of the record
last applied if it applies none. `NetIsLive` is a statement about sums over sets of batches:
`Net` is the same with the sums written as the fold of the module, and a commit adds to a date
a reversal, a replacement or both; that a sum over a finite set splits at any of its elements
is proved first (below, on induction).

The last two are about any number of sessions and state exactly what the code leaves open. Row and
journal agree until a revise that keeps the batch it read, and so waits for no unique index,
commits after that batch was replaced or reversed (section 5, point 8): `CommandsAgree` says of
every other command in progress that its row and its batches go together, whatever committed
since. The balance of a closed period stands unless a posting to it was under way between the
reading of the balance and the lock (point 9): `Figures` says that a session that will post into
the period of a lock that is not overlapped can only have begun when the lock was there, when the
trigger stops it. That no posting is ever late (`NoPostingIntoLocked`) and that row and journal
always agree (`RowMatchesJournal`) is not true of the code and no theorem.

**LinkSaga** (`LinkSagaProofs.tla`). `SagaTypeCorrect` (`[]TypeOK`), `NothingStranded`
(`[]NeverStranded`), `ClosedIsGone` (`[]DisconnectedIsGone`) and `CredentialMoved`
(`[]MovedOnce`) share `SagaInv`, which adds to the two safety properties what each row says of
the provider: a request past its exchange holds an item that was born, and reports a removal
only of an item that is gone (`LinksOK`); so does a disconnect (`UnlinksOK`); an attempt has an
envelope only of an item (`AttsOK`); a connection shown disconnected has an item that is gone
(`ConnsOK`); a reaper run works only on attempts it holds the claim of, which keep their
envelope meanwhile (`ReapsOK`). The life of an item only goes on, so what a row says of it stays
true. `NeverStranded` needs all of them: the envelope is shredded by three different procedures,
each of which has to know that the item is gone or that a connection keeps the credential.

`UsedItemLives` (`[]ActiveItemLives`) adds `LivesInv` to it. An item that was exchanged once is
held by one request and one attempt (`OneHolder`), which agree on it (`Noted`); it has no
connection before its request makes one, and an unlinking request only a connection it has begun
to disconnect (`Unconnected`); until then it is alive, or the reaper of its attempt has just
removed it, in which case the claim makes the request's finalization fail (`Awaited`).

**StatementIngest** (`StatementIngestProofs.tla`): `IngestTypeCorrect`, `OneDraft`,
`NoDraftForgotten`, `WrittenIsApproved`, `ToldIsTrue`, `DecisionsStand` (`DecisionStands`: no
job, sweep or token changes a draft that was approved or dismissed) and the refinement
`PromiseKept` (`Spec => KeepsPromise`). `Registered` says that a draft belongs to the upload its
content is registered for; `Recorded` that the tokens redeemed for a draft, its statement and
its status go together, which is both `WrittenAsApproved` and what the refinement needs: each
step is one of reading, dismissing, issuing, approving or expiring (`Moves`), and each of these
maps to a step of Consent or to none.

**RecurringSeries** (`RecurringSeriesProofs.tla`). `ReaperAlone` (`[]OnlyReaperContradicts`) and
`CorrectionKept` (`CandidateLocked`) hold however transactions overlap. `TimelineInv` is typing, that
each transaction has a time of its own (`Stamped`), that the timeline has a last event (`HasLast`),
and the property: a transition takes the status from the timeline as it then is, and another
event of the reaper either comes last or leaves the last one in its place (`OneMore`).
`DismissalDurable`, `CommandsEffective` (`TakesEffect`) and `ForecastComplete`
(`[]ForecastWhole`) have the hypothesis `Overlap = FALSE`, which the theorems name. With
overlapping transactions TLC finds the first two violated, when a withdrawal comes after the event
of a command in the timeline and before it in the database (section 5, point 14); `ForecastWhole`
it finds kept, but the proof is by the order of the events. `SeriesInv` is
typing, `Serial` (at most one transaction on the series has begun, and its time is after that of
every event) and `StatusIsLatest`; the point of the argument is `NewIsLatest`: an event
that is not backdated and begins after all others is the last one of the timeline.
`ForecastWhole` needs in addition `InTime`: no event lies in the future, and a command carried
out is of today or of yesterday. It is why a correction projects one day more than a
confirmation: the correction may have been sent the day before the last confirmation.

**Schedule and Calendar** (`ScheduleProofs.tla`)

| Theorem | States | Inductive invariant |
|---|---|---|
| `OnePosting` | `[]PostedOnce` | `Keyed`: a posting bears the key of its occurrence, and a key stands for one amount |
| `SkipsHold` | `SkippedStays` | `Rows`, `Past`: what was skipped lies before the due date, or the schedule has ended on it |
| `EditsHold` | `EditKeepsCadence` | `Rows` |
| `CadenceHolds` | `StepsOnCadence` | `Rows` |
| `ScheduleTypeCorrect` | `WithinCalendar => []TypeOK` | `Rows`, `Typed` |
| `CivilOfEpoch` | `CivilDate(EpochDay(d)) = d` for every date `d` | none |

`Rows` says that the row and what the tabs show are on days that exist, with anchors of the
frequency. `CadenceHolds` compares two calendars: the due date is stepped in SQL, day by day or
to a clamped month end, and the forecast takes the earliest date of a grid of epoch days or
months. Its lemmas are a theory of `Calendar.tla`: that the count of days is the number of steps
from one day to the next, that it orders the dates as year, month and day do and is inverted by
`CivilDate` (the arithmetic of `civil-date.ts`, with its eras of 146097 days), and which date of
each grid is the earliest after a given one. `WithinCalendar` is needed because `TypeOK` has
years up to 9999, the dates of the application, and each of `MaxCalls` calls may add a year; the
procedure takes due dates from 1900 to five years ahead.

**Assumptions.** The modules of SyncEngine, IngestStream, Journal, LinkSaga, StatementIngest,
RecurringSeries and Schedule each state one assumption on their constants: bounds are natural numbers, amounts
integers, dates positive. `ScheduleAssumption` also says that what the tabs enter is what
`keel_schedule_upsert` accepts: dates that exist, and for a semimonthly schedule two different
days of the month.

**Induction.** The induction theorems of the library take an operator as a parameter, which no
installed prover instantiates. Where a proof needs induction over data (sums over the batches
of a date, the events of a batch, walks from day to day) it takes a least counterexample
instead: the subsets of a finite set are well-founded (`FS_StrictSubsetOrderingWellFounded`),
so a set of them that is not empty has a minimal member (`WFMin`), and both theorems take sets.
`LeastNat` of `ScheduleProofs` is the same for natural numbers.

**What stays with TLC.** The liveness properties (`EventuallyPulled`,
`EveryDraftRead`), which are out of the prover's reach. IngestStream with windows that are not
drained, where `RetryResumes` and `ContentCurrent` hold within the bounds of its configuration.
`TypeOK` of RecurringSeries; the `Rows` of its proof type the variables the argument uses.

## 5. Disagreements met while modelling

Points 0 and 2 have a run that ends in the counterexample, `statement_web` and `poison`. The others
are found by changing a configuration as written, with the property named put in place of those
there; it is in its module. Where a property of a passing run exempts one of them, the property
says so.

0. *Two buckets.* `uploadStatement` puts the bytes into the bucket of `storageBucket`, which the
   answer fills with the canonical bucket `statements` (`apps/web/src/lib/keel-api.ts:3348`); the
   address was signed for `quarantine`, and the confirmation reads `quarantine`.
   `functions/api/index.ts:2660-2661`: "The upload itself goes to `uploadBucket` (quarantine for
   statements)." The statement of the web application is refused (`UploadAccepted`).

Sync, ingest, journal:

1. *Zombie apply.* `keel_worker_apply_action` does not check the lease. `docs/archive/PLAN-1C.md:44`
   calls the lease the fencing token for stale workers; a stale worker cannot move the cursor,
   but it can still write the book. `OnlyHolderWrites` in `SyncEngine_crash.cfg` with
   `Stalls = TRUE`. With `MaxFeed = 3` and `PageSize = 3` as well, `BookNotReverted` fails: the
   stale write takes the book back to an older view (a search of several minutes). `NoGhost` fails
   there with `Stalls = TRUE`, and with one outage alone (`MaxOutages = 1`, `MaxFaults = 0`,
   `PageSize = 2`, `Ops = {"add", "rem"}`): a reauthentication between a lookup and an apply frees
   the lease, and after the repair the old worker creates what the new one has found removed.
2. *Tombstones.* After a removal was applied and the worker died, the retry reads the null
   amount of the tombstone and throws (`functions/worker/index.ts:700`); the retry outcome is tested
   before the number of reads, so the message is tried for ever, where
   `functions/worker/index.ts:8-9` says: "Poison messages (read_ct > MAX_ATTEMPTS) are archived with a
   failure marker". `EveryMessageEnds` in the run `poison`. The connection gets on no more:
   `Tombstoned` is the first of the two exemptions of `EventuallyPulled`.
3. *Reauthentication.* A repaired connection keeps a desired generation ahead of the committed
   one with nothing queued, and cron skips it (`docs/archive/STAGE1C-EXIT-FIXES.md:42-43`).
   `CronCanResume` in `SyncEngine_fence.cfg`.
4. *Pair split over windows.* A window that ends between a posted transaction and the removal
   of its pending id lets the next window void the posted purchase. `PLAN-1C.md:52` argues
   that windows are always drained; partial completion came later. `CaughtUpMirrors` in
   `IngestStream_drained.cfg` with `Drained = FALSE`.
5. *Lock against posting.* A posting checked before a period lock is visible commits after it,
   against `20260710210300_ledger.sql:134-135`. `NoPostingIntoLocked` in
   `Journal_concurrent.cfg`.
6. *Lost update on retry.* A transaction that a failed attempt created comes back, on retry,
   as an addition with newer data, and is planned as already applied. `CommittedIsCurrent` in
   `SyncEngine_crash.cfg` with one run, `PageSize = 2` and `Ops = {"add", "mod"}`.
7. *Apply keys.* A redelivered message whose first handling completed a partial pull reuses
   its apply keys with other records and is refused for ever. `KeysSpent` is the second exemption
   of `EventuallyPulled`; without it the run `live` ends in this counterexample.
8. *Touch without a lock.* A sync revise that keeps a member's composition only updates the
   row; it overwrites a re-dating or a reversal that committed after its reads.
   `RowMatchesJournal` in `Journal_concurrent.cfg`; `RowFollowsJournal` says that nothing else does.
9. *Close on a stale balance.* A posting that commits between the balance and the lock is in
   the closed period and not in its figure. `ClosedFigureStands` without `~locks[l].overlapped` in
   `Journal_concurrent.cfg`; with it, it says that nothing else does.
10. *A lone leg is forgotten.* `set_date` replaces the revision reason that marks a member's
    composition; the next revise of the same amount rebuilds it. `LegKept` in
    `Journal_concurrent.cfg` with `Procs = {p1}`, `MaxBatches = 7` and `MaxLocks = 0`.
11. *A member's date is undone* by a revise that brings no new date. `MemberDateKept` in
    `Journal_concurrent.cfg` with `Procs = {p1}` and `MaxLocks = 0`.

Statements:

12. *Failed stays failed.* A draft that failed is not filled by a later reading that succeeds,
    though `20260720180000_statement_extraction.sql:203-204` says "failed->extracted on
    re-extract". `ReadWins` in `StatementIngest_review.cfg` with `MaxFaults = 2`. The review
    dialog offers to enter such a statement by hand (`dashboard/statements/page.tsx`, near line
    2079), but issue and approval require `extracted`.
13. *Duplicate of the household.* The message of a duplicate upload says "for this account", but
    a content is registered per household.

Recurring series:

14. *Withdrawn in the timeline only.* The reaper inserts its event before the conditional update
    of the status (`20260814150000_plaid_recurring_review_fixes.sql:88`): a confirmation in
    between leaves a confirmed series whose timeline ends in `withdrawn`, hence without forecast.
    `StatusIsLatest` with `Overlap = TRUE`. The order of the timeline is that of the beginnings
    of the transactions, not of their locks. `OnlyReaperContradicts` holds there: the withdrawal is
    the only way to it, and with two members too the timeline ends in one.
15. *One key a day.* The economic key is the command, the series and the date
    (`lib/recurring.ts:73`): pause, resume, pause of one day, or amount A, B, A, ends in a replay
    that is answered with success and does nothing, although the comment at `changedToday` says "a
    same-day transition IS allowed". `AnswerTrue` with one member, `Amounts = {}`,
    `MaxFaults = 0`, `MaxCalls = 4`.
16. *A corrected suggestion is re-pointed* by the next detector run; `lib/recurring.ts:89` says "a
    later detector run will NOT revert it". `CandidateLocked` is therefore about decided series.
17. Nothing projects occurrences past the horizon of the last confirmation; a retried job whose
    transactions changed fails as "detector run changed", and that day's reap never runs; a
    series key contains the anchor, so a shifted anchor makes a twin series.

Scheduled transactions:

18. *A semimonthly date before the first anchor* is followed by the second one: the first is
    jumped, where the comment in `keel_schedule_advance` says "step to the NEXT one".
    `NextOfTheTwo` in `Schedule_tabs.cfg`.
19. *A stale anchor.* An edit of the frequency only keeps the anchor day of the old one.
    `DueOnAnchor` in `Schedule_tabs.cfg`.
20. The change of status is not fenced, so a stale tab resumes a schedule that another one
    ended; a skip steps a paused schedule; the fence of an entry is on the due date only, so a
    tab posts an amount it did not show; an entered date that an edit re-dates with another
    amount can never be entered again.

## 6. Plan

Done: SyncEngine, IngestStream, Journal, LinkSaga, StatementIngest with Consent,
RecurringSeries, Schedule with Calendar, with their runs and proofs. What is left, in this
order:

1. `Transfers`: suggestions that share a leg, confirmation, expiry, the leg booked in another
   account; composed with Journal's voids.
2. `Reanchor`, composed with the lease of SyncEngine; the metering of the calls of a sync.
3. `CommandGateway`: execute once under concurrent duplicates; abstract specification: an
   idempotent command, which the keys of Journal, RecurringSeries and Schedule implement.
4. Refinement: SyncEngine implements an abstract log consumer (cursor, book); Journal
   implements a register that holds the live composition.
5. More proofs: `RetryResumes` and `ContentCurrent` of IngestStream without `Settling`,
   `ForecastWhole` with overlapping commands, `TypeOK` of RecurringSeries.

## 7. What is not modelled and why

Exports, authorization tables, language-model calls and read models keep no state the books
depend on, or are single pure functions with unit tests; of the web application only the
steps the protocols consist of are modelled. The pure ledger functions that divide amounts
are called by tests only. Amounts and
currencies do not occur in SyncEngine. The injected page source of the worker (test only), its
other jobs, the best-effort call of `keel_reconcile_regular_core_sweeps` before a completion
(`functions/worker/index.ts:801-807`, which touches core accounts of some connections only) and the
metering of provider calls are left out; a refused call is a failed call.
In IngestStream an amount, a date and a description are the position in the provider's
history they were read at. In Journal the legs of a batch are a shape, so that a batch
balances is not stated (a deferred trigger checks it); category overlays, transfer links that
forbid a manual void, idempotency keys and batches without a transaction are left out.

In LinkSaga what an account list contains is whether it is empty; the pages of consent at the
provider come before the first action. In StatementIngest what the parsers read is a body a
member may approve; statements entered by hand, their matching with transactions and the
closing of a period (in Journal) are left out, and a token is used for drafts only. In
RecurringSeries the statistics of the detector are a nondeterministic choice, and cadences,
streams the provider detects and links to schedules are left out. In Schedule an occurrence is
a date and an amount: its category, its payee and the guard against dates more than a year
away are left out.
