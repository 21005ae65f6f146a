# Specifications of the social media manager service

TLA+ models of the backend under `src/app`, the TLC runs that check them and
the proofs TLAPS checks. The service drafts Instagram posts with AI, passes
them through a review, schedules them and publishes them; around that core are
credits, subscriptions, workspaces, sessions and statistics.

- [1. The system](#1-the-system)
- [2. Modules, and how they correspond to the code](#2-modules-and-how-they-correspond-to-the-code)
- [3. Runs, bounds and what they show](#3-runs-bounds-and-what-they-show)
- [4. Where the code and its documentation disagree](#4-where-the-code-and-its-documentation-disagree)
- [5. Fairness](#5-fairness)
- [6. Proofs](#6-proofs)
- [7. Assumptions and what is left out](#7-assumptions-and-what-is-left-out)
- [8. What could come next](#8-what-could-come-next)

To run: `tlc -config <cfg> <module>` for each row of section 3, `tlapm <module>`
for the eight modules ending in `Proofs`.

## 1. The system

FastAPI serves the API; Celery workers take messages of the queues
`generation`, `calendar` and `publisher`; the Celery beat sends periodic
messages; PostgreSQL holds the rows, Redis a few caches and the broker.

| Component | State | Operations | What it must keep |
|---|---|---|---|
| Review workflow (`services/approval.py`) | `draft_contents.status`, `current_version_id`, `content_versions`, `approval_actions` | submit, approve, reject, edit, comment, bulk approve, regenerate | the draft's status and version agree with the post's; an approval stands for the content it was given for; no edit is lost |
| Content generation (`services/content_generation.py`, `workers/tasks.py`) | `generation_jobs`, version 1 of a draft, the generation queue | initiate, execute, calendar batch | one version per draft whatever is redelivered or retried; one calendar per calendar job, none of its slots forgotten |
| Scheduling (`services/scheduler.py`, `endpoints/scheduler.py`) | `scheduled_posts` (one per draft), `instagram_accounts` | schedule, unschedule, reschedule, connect, disconnect | only approved, illustrated content gets on the schedule; what is off it stays off |
| Publisher (`services/publisher.py`, `workers/scheduler_tasks.py`) | `publish_status`, `attempt_count`, `next_retry_at`, `post_publish_logs` | tick, publish, retry, failure | one publication per post; no post stuck; retries end; every attempt logged |
| Instagram client (`services/instagram_client.py`) | media on Instagram | container, wait, publish, permalink; retries inside | every success recorded has a medium |
| First-publish celebration (`workers/onboarding_tasks.py`) | a Celery message | count and mail | the first published draft is celebrated |
| Database session (`db/session.py`) | one transaction per request or task | load, flush, commit, rollback | - |
| Credit ledger (`services/credit_service.py`, `workers/credit_tasks.py`, `workers/tasks.py`) | `credit_balances`, `credit_transactions`, `generation_jobs`, a Redis cache | check, deduct, refund, monthly reset, daily expiry, grant | the balance is never negative nor more than was given; a job is charged once, with its result; what is refunded was charged |
| Subscriptions (`services/billing.py`, `services/admin_service.py`) | `subscriptions`, allocations | checkout, payment, failure, cancellation, override | credits once per purchase; no user without a plan; a subscription changes only as Stripe reports or a newer plan demands |
| Workspaces (`endpoints/workspaces.py`, `core/workspace_deps.py`) | `workspaces.owner_id`, `is_active`, `workspace_members` | create, delete, invite, role, remove, transfer | the limit of members; who is removed stays out; what is deleted stays deleted |
| Sessions (`services/auth_service.py`, `endpoints/auth.py`) | `users`, `user_sessions` | signup, Google, verify, login, refresh, logout, reset, (de)activation | one free plan per account, unless its provisioning failed; no session out of nothing; a link to Google is not undone |
| Insights, optimal time (`workers/scheduler_tasks.py`, `services/optimal_time.py`) | `post_metrics`, `optimal_time_slots` | sync, compute, suggest | every slot is learned in the end; the next occurrence of a slot is the next |
| Evergreen (`workers/scheduler_tasks.py`, `endpoints/scheduler.py`) | `evergreen_candidates` | scan, dismiss, recycle | one active candidate per post |
| Token refresh (`workers/scheduler_tasks.py`) | account tokens | periodic task | no token expires between two runs |
| Brand voice (`services/brand_voice.py`) | embedding and sample count of a profile | learn, score | the count is that of the captions in the embedding |
| Rate limit (`services/instagram_client.py`) | a sorted set in Redis | check | no window admits more than the limit |
| Caches (`core/cache.py`) | Redis keys | get, set, drop | - |
| AI, storage, dashboard, analyzer, shell | none of their own | external calls, reports, wiring | - |

How they interact. A request creates the draft and sends a generation message;
the worker writes version 1, points the draft to it and deducts credits.
Review moves the draft; scheduling snapshots its version in a post row; the
tick sends a publish message for every due post, every 60 s; the publisher
calls Instagram and writes post, draft and log. The API sessions and the
workers share nothing but rows: no handler locks a row that it reads
(there is no `SELECT ... FOR UPDATE` and no version column), so everything
that keeps them apart is a status that was read earlier, a unique constraint
or the row lock that an UPDATE takes.

Hard behaviours. Guards over statuses that other sessions cannot see yet
(PUBLISHING is flushed, never committed before the calls); rows written from
values read before an `await`; two rows locked in opposite orders; messages
delivered again (`task_acks_late`), piled up by the tick or arriving after the
post was unscheduled; workers killed between Instagram and the commit; inner
retries (tenacity) inside outer retries (the tick). Around the core: Stripe's
events, delivered again and in any order; counts and lookups that two requests
make before either inserts; one session shared by a batch, which an error of
the database leaves unusable for everything after it; messages sent before the
rows they speak of are committed; a clock read by one process and used by
another. `PROJECT.json` lists them all as hazards, each at its line.

## 2. Modules, and how they correspond to the code

| Module | Models |
|---|---|
| `ContentRows` | the rows, and for every handler the condition under which it does not raise (`May...`) and the row it leaves (`After...`) |
| `ContentLifecycle` | many drafts; every handler one transaction; what is asynchronous (messages, ticks, the clock) stays so |
| `Publication` | what scheduler and publisher promise of the posts of a schedule; `ContentLifecycle` and `PublishPipeline` both implement it |
| `PublishPipeline` | one draft and its post; transactions overlap, from the load to the commit |
| `Credits` | the balance of one workspace, the generation jobs that deduct and refund, the reset, expiry and grants; transactions overlap |
| `Ledger` | what the ledger of a workspace shows of its credits; `Credits` implements it |
| `Subscriptions` | the subscription rows of one user, under webhooks and overrides that overlap |
| `Entitlements` | what the billing service promises of a purchase; `Subscriptions` implements it |
| `Workspaces` | one workspace: owner, member rows, deletion; requests overlap |
| `RateWindow` | the sliding window in Redis, workers whose pipelines run in any order |
| `SlidingWindow` | what that window promises; `RateWindow` implements it |
| `Insights` | the sync of insights, the slots computed from them, the scan for evergreen posts |
| `Calendar` | a calendar job, its batch and the messages of its slots; the brand profile under approvals |
| `Sessions` | one account and its refresh tokens; requests overlap |
| `...Proofs` of `ContentLifecycle`, `PublishPipeline`, `Credits`, `Subscriptions`, `Workspaces`, `Calendar`, `Sessions`, and `InstagramProofs` of `RateWindow` and `Insights` | lemmas and theorems |
| `MC...` | model values, sets and symmetry for TLC |

**ContentRows.** `DraftRow` is the pair of `status` and `current_version_id`,
`PostRow` the columns of `scheduled_posts` that a guard reads: `publish_status`,
the snapshot (the version whose caption, hashtags and image were copied),
`attempt_count`, and of its two times what the code compares them for:
`due` (`scheduled_at` within one tick) and `waiting` (`next_retry_at` ahead).
`ALLOWED_TRANSITIONS` is the table of `approval.py`. `May...` and `After...`
are used by both models, so a handler is translated once.

**Publication.** The public part of a post (status, content, attempts) and its
log, for someone who sees commits only: `Schedule`, `Move`, `Succeed`, `Fail`,
and nothing else changes a post. It relates the two models: both implement it,
and they differ in `Settled`, the statuses that a post does not leave. Where
handlers do not overlap that is PUBLISHED; where they do there is none, since a
session that read SCHEDULED may write over it.

**ContentLifecycle.** One action per handler: `InitiateGeneration`,
`ExecuteGeneration`, `GenerationGivesUp`; `SubmitForReview`, `Approve`,
`Reject`, `EditContent`; `ConnectAccount`, `DisconnectAccount`,
`SchedulePost`, `UnschedulePost`, `ReschedulePost`; `TickPublisher`,
`SkipPublish`, `PublishSucceeds`, `PublishFails`; `CelebrateFirstPublish`;
`TimePasses`. An action does everything its handler and the commit do to rows
and queues. `acked = FALSE` stands for a worker lost between the commit and
the acknowledgement: the message stays. The version numbers follow the code
and the unique index of the migration (`0001_initial_schema.py:136`): a
generation always writes number 1, hence succeeds once per draft, an edit
writes `version_count + 1`.

**PublishPipeline.** An API session goes `Begin` (loads the rows, passes the
checks) - commit, where `Merge` writes the columns the session has changed and
leaves the others as they are by then, which is what the ORM's UPDATE does.
Unschedule and reschedule have a step more, `FlushDraft`, since they flush the
draft row before the post row. A publisher worker goes `Load` - `Flush` (takes
the row lock of the post) - calls (`CallFails`, `PermalinkFails`,
`CallSucceeds`, with tenacity's retries) - `CommitSuccess` or `CommitFailure`;
at any point it may be lost (`Lose`), with or without its message coming back.
`AbortSession` and `AbortWorker` are the two ways the database breaks a
deadlock. The fields `read`, `seen`, `draft`, `post`, `count` are what a
transaction has loaded and goes on to use.

**Credits.** A request checks the balance and sends the job's message (`Ask`)
before its rows are committed (`CommitRequest`) or given up
(`RollBackRequest`). A generation worker goes `Take` (finds the job and holds
its row from the flush of RUNNING, or finds none and goes to the refund) -
`Generate` or `Fail`, which read the balance - `CommitCharge` or
`CommitRefund`. `Refused` is the second version 1 that the unique index
refuses; `TimeLimit` the soft limit, which raises past the coroutine's
handlers; `Lose` a worker that dies. `Messages` says what is in the queue
afterwards: the retry, and the message itself unless it was acknowledged.
A reset, an expiry or a grant goes `Begin` - `CommitChange` or
`RollBackChange`. `read` is the balance a transaction has loaded; `Written` is
the ORM's UPDATE, an absolute value, written only when it differs from `read`.
`given` adds up what the workspace started with and every positive ledger row.

**Ledger.** What is left of Credits for someone who sees the balance and its
entries, and of the sessions only which balances they have read (`pending`):
`Charge`, `Refund`, `Reset`, `Add`, each with one entry, and `Expire`, which has
none. A change starts from a balance that was read, not from the balance there
is, which is all that goes wrong; `Look` is everything between two changes.

**Subscriptions.** Stripe moves on its own (`Buy`, `Invoice`, `End`) and puts
events in `sent`; `Deliver` takes any of them, any number of times. A request
reads in `Deliver` or `Override` (which rows to cancel, what the status of the
row is) and writes in `CommitPlan` or `CommitNotice`; `Unique` is the UNIQUE
constraint of `stripe_subscription_id`. `order` is the table by `created_at`,
which is the start of the inserting transaction: a row committed late may come
before rows that were there first, and `_get_active_subscription` takes the
newest. `Entitlements` is what remains for someone who sees only one purchase
at a time: what was reported of it, its status and its credits.

**Workspaces.** A request resolves its user's role and reads its rows in one
step (`Create`, `Invite`, `UpdateRole`, `Remove`, `Transfer`, `Delete`) and
commits in another. `seen`, `own` and `gone` are the roles it has read and
which of the rows have been deleted since: an UPDATE of a deleted row fails
with the whole request, a DELETE does not. `joined` is history: who became a
member by a transfer, which counts no limit.

**RateWindow.** `ReadClock` is `time.time()`, `CheckRateLimit` the pipeline, of
which Redis makes one step. A worker takes at most `MaxDelay` between the two.
The sorted set is `entries`; its members are their scores, hence two calls of
one instant are one entry, which no two readings are here. `SlidingWindow`
knows only which calls were decided and which were admitted. `RateInit`,
`RateNext` and `RateSpec` carry the name of the module so that it can be extended
beside `Insights`.

**Insights.** `sync` is the job: it selects posts (`SyncStart`), fetches each
(`FetchFails`, `StoreMetrics`), commits them all (`SyncCommit`), and goes on to
the accounts (`ComputeNext`, `Compute`, `SyncEnds`). After a row that the
database refuses the session is `broken` until the task has failed
(`SyncFails`); `SyncDies` is its time limit or the loss of its worker. A slot
computation, of the job or of a request, reads in `Read` and inserts in
`Compute`. `DaysAhead` is `_next_occurrence`.

**Calendar.** `PlanCalendar` sends the message of the job, `EndRequest` commits
its row or rolls it back. A run of the job goes `Take` - `GetProfile` -
`CreateShells` - `SendSlot` for each slot - `CommitPlan`, and may end in
`PlanFails` or `LosePlanner` at any point; each run gets a plan of its own,
empty perhaps, and makes a batch of it, of which only `CommitPlan` keeps the rows, whereas the messages of its slots
have left. `RunSlot` is a try of a slot's message. Approvals go `Approve` -
`InsertProfile` when there is no profile - `CommitApproval`; `holder` is the
session whose INSERT of the profile is not committed, for which the unique
index makes the others wait. `voice` is the set of approvals whose captions are
blended in the embedding, of which the code keeps the number only.

**Sessions.** A request reads the row of the address in its first step
(`Signup`, `GoogleCallback`, `Login`, ...), which also decides the row it means
to write, and ends in `Commit` or `RollBack`; the callback of Google may also end
in `CommitUnprovisioned`, because its endpoint swallows what
`provision_free_plan` raises and `get_db` commits the user that was flushed. An
error after the flush of its session leaves what `Commit` leaves. `Written` is the UPDATE of the
columns that differ from what was read, `Refused` the INSERT that meets the
unique address. `opened`, `bare` and `overlaps` are history.

The models share rows and not variables: ContentLifecycle has what a
generation does to a draft, Credits what it does to its job and the balance,
Calendar how it comes to be asked for by a calendar. ContentLifecycle has what
an approval does to a draft, Calendar what it does to the brand profile.

`PROJECT.json` maps every definition to the lines it translates.

## 3. Runs, bounds and what they show

| Run | cfg | Properties | Shows |
|---|---|---|---|
| lifecycle_one | `MCContentLifecycle.cfg` | TypeOK, Coupling, LogAccounting, SnapshotSound, PublishedIsFinal, ApprovedContentKept, OffScheduleKept | one draft, three versions, two messages waiting, four attempts with a retry budget of three |
| lifecycle_two | `MCContentLifecycleTwo.cfg` | PublicationKept | two drafts that share account, tick and celebration |
| pipeline_workers | `MCPublishPipelineWorkers.cfg` | TypeOK, CallsExclusive, StatusesBacked, AttemptsLogged, PublicationKept | two workers and a session on one post |
| pipeline_sessions | `MCPublishPipelineSessions.cfg` | NeverStuck, NoLostEdit, DuePostSettles, SessionsEnd | two sessions and a worker, which may lock in opposite orders, and a loss; safety and liveness |
| credits | `MCCredits.cfg` | TypeOK, BalanceBounded, PaymentsBounded, OutcomeTrue, LedgerKept | two jobs, two workers and a session that resets, expires or grants; one retry, one lost worker |
| subscriptions | `MCSubscriptions.cfg` | TypeOK, GrantedOnce, NeverStranded, EntitlementsKept | two purchases, one override, two requests that overlap, one rollback |
| workspaces | `MCWorkspaces.cfg` | TypeOK, InvitesBounded, RemovalsLast | three users, two requests that overlap, a plan for one member |
| rate_window | `MCRateWindow.cfg` | WindowKept | three workers, two calls in a window of 6, a delay up to 3, 12 instants |
| insights | `MCInsights.cfg` | TypeOK, NextIsNext, SlotsLearned | two accounts with a post each, days of two hours |
| calendar | `MCCalendar.cfg` | TypeOK, OneCalendar, SlotsQueued, VoiceCounted | two slots, three runs of the job, one lost worker, two approvals |
| sessions | `MCSessions.cfg` | ProvisionedOnce, SessionsBounded, LinkKept | two requests at a time, three refresh tokens, one reset |
| published_once | `MCPublishPipeline_PublishedOnce.cfg` | PublishedOnce | refuted: section 4 |

The properties.

- *Coupling*: the statuses of a draft and of its post agree. Two services and
  six handlers write them and no constraint relates them. It says as much as
  is true: a post put back to SCHEDULED by a retry leaves its draft where it was.
- *LogAccounting*: attempts, log entries and the status PUBLISHED add up.
- *PublicationKept*: the refinement. Every change of a post that others can see
  is its being scheduled or moved, or an attempt with one log entry of its own;
  the content stays, no attempt counts more than the log has, one put back on
  the schedule has retries left, and no step changes two posts.
- *SnapshotSound*: what is on the schedule is a version with an image.
- *PublishedIsFinal*, *ApprovedContentKept*: what late and redelivered messages,
  edits and reviews may never do.
- *OffScheduleKept*: no step sends a message for a post that is FAILED or
  UNSCHEDULED, and none changes it but its user, its draft with it, or a message
  sent before. That one makes an attempt, which counts, is logged, and puts the
  post back on the schedule only while retries remain: with messages piled up, a
  post that has used them up may be attempted again and fail again, or be
  published, and is never retried.
- *CallsExclusive*, *NeverStuck*: the row lock taken by the flush of PUBLISHING
  is what keeps two workers apart and what a lost worker gives back.
- *StatusesBacked*: however stale the row a transaction wrote from, a claim in
  the database has a medium on Instagram or a log entry behind it.
- *AttemptsLogged*: two workers that loaded the same count write the same
  count; the log never falls behind it. Nor do the media on Instagram: an
  attempt leaves as many as it makes calls (`MaxRetries`, the answer of a call
  may be lost), and each attempt is logged, lost, aborted, or the one under way.
- *NoLostEdit*: sessions that overlap with an edit write the status, and not
  the version pointer they loaded.
- *BalanceBounded*: sessions overwrite each other's balance, and deductions are
  lost; still the balance is never negative, and never more than was given,
  since every value written comes from one that once was the balance.
- *PaymentsBounded*: a message that is retried, redelivered or worked on twice
  charges once; the unique version number is what stands in its way. No such
  thing stands in the way of a refund, which each try may repeat: charges and
  refunds of a job are at most its tries, and those again for each lost worker.
- *OutcomeTrue*: the status a client polls is true to the version there is,
  FAILED after a redelivery excepted.
- *LedgerKept*: the refinement. However jobs and desk overlap, are retried or
  lost, a commit changes the balance from one that was read before, by the
  amount of its one entry, and no job is deducted twice; an expiry caps it.
- *DuePostSettles*, *SessionsEnd*: a post that is due is published, fails for
  good or is moved, and no request waits for ever, whatever is lost or
  deadlocked.
- *GrantedOnce*: two deliveries of a checkout may overlap, and the lookup that
  would find the first one does not exist; it is the UNIQUE constraint, and
  credits in the same transaction, that keep a purchase from paying out twice.
- *NeverStranded*: an old plan goes only with the commit of the new one. It
  says nothing of Stripe having ended a purchase: then the free plan it
  replaced does not come back.
- *EntitlementsKept*: the refinement. Every status of a subscription is one that
  Stripe has reported of it, or CANCELLED because a newer plan took its place,
  and it has none before its checkout; stale requests write only that.
- *InvitesBounded*: the limit is counted before the INSERT. Invitations exceed
  it, by the number of requests at most, and never by more over time.
- *RemovalsLast*: requests under way read the member, or the workspace, before
  it was removed, and commit after; neither comes back.
- *WindowKept*: the refinement. Workers remove entries that others still count,
  the key expires under them, refused calls count; still no window, shortened
  by the delay, admits more than the limit, and nobody is refused unless that
  many calls were made in the window.
- *SlotsLearned*: the slot of every post is learned, for good, once accounts
  stay connected and the job is no longer cut short; whatever broke a session
  before, and although a computation on demand may win the race for a row.
- *NextIsNext*: against its definition: the slot's hour, after now, in a week.
- *OneCalendar*: a job that failed half way and runs again leaves one calendar;
  a further one only for a worker lost between commit and acknowledgement.
- *SlotsQueued*: messages leave before their rows are committed and may come
  too early; a slot still has one when its row is there.
- *VoiceCounted*: approvals that overlap drop a sample, and its count with it.
- *ProvisionedOnce*: signup and Google's callback may create one account at the
  same time; one of them leaves nothing, its free plan included. An account that a
  callback left unprovisioned has no free plan and gets none.
- *SessionsBounded*: a refresh gives a session for a session, however refresh,
  logout and expiry interleave; more come only from refreshes that overlapped.
- *LinkKept*: a request that has read the row before it was linked or verified
  does not undo it.

`Insights!TypeOK` bounds the candidates of a post by one, which the scan relies
on; the other type invariants are only that, and ground the proofs.

Bounds. `MaxVersions`, `MaxQueued`, `MaxAttempts` cap the counters of
ContentLifecycle: three versions (generated, edited, edited again), one message
beyond the one being worked on, one attempt beyond the retry budget. With
two drafts it is one version each and a first and a last attempt; what the
drafts share is not a matter of more versions or attempts.
In PublishPipeline `MaxOps`, `MaxLosses` and `MaxAborts` bound how many API
transactions, losses and deadlocks a behaviour has. A race needs two
transactions that overlap, of two sessions or of a session and a worker
(`MaxOps = 2`). `MaxRetries` is 2 there instead of the 3 of the settings: a
first try, and a last one.
In Credits the balance of 3 pays for one job at a cost of 2, so that two
requests can pass on the same credits and the second deduction finds too
little; `MaxChanges = 2` lets one change overlap with a job and another follow
it; one retry (`TaskRetries = 1`, 3 in the code) is both the first and the last.

In Subscriptions two purchases are as many as can supersede each other, the
override a third row; each is delivered any number of times, so that no bound
but `MaxRollbacks` is needed. In Workspaces the bounds are users and requests
only: three users are the owner, who hands over, whoever takes it, and one more
whom either removes. RateWindow has two windows of time, a limit of two and a
third worker to exceed it. Insights has no counters but a candidate per post;
two accounts are as many as it takes for one's row to break the session of the
other's metrics. In Calendar one retry (two in the code) is the first and the
last, as is that of a slot; a third batch is for the worker that is lost.
In Sessions three tokens are one more than can be exchanged at one time.
The theorems of section 6 hold without any of these bounds: the counters that
they cap are in the theorems any natural number.

Deadlock is checked but in three runs. In `credits` every request of a job has
been made in the end, every message is used up, and the model may stop; in
`workspaces` a deleted workspace takes no more requests; in `rate_window` the
clock ends. Symmetry is used in safety runs only; ids are never compared.

## 4. Where the code and its documentation disagree

`PublishedOnce` is a run that TLC refutes: "Idempotent — safe to call multiple
times" (`scheduler_tasks.py:71`), yet two messages of one post, worked on by
two workers one after the other, leave two media. The following are stated in
their modules, under the words "What the documentation says and the code does
not do"; name one as INVARIANT or PROPERTY of that module's cfg and TLC shows
how it happens. `FirstPublishCelebrated` is a liveness property and needs
`FairSpec` as the specification.

| Property | What happens |
|---|---|
| ContentLifecycle!PublishedWasApproved | a draft approved before its generation has finished is published with a version nobody approved |
| ContentLifecycle!UnscheduledCanBeScheduled | the unscheduled row stays and the unique constraint refuses the next schedule |
| ContentLifecycle!UnscheduledIsCancelled | the message already sent publishes the unscheduled post |
| ContentLifecycle!FirstPublishCelebrated | the first publication is counted before it is flushed, the second is the first that counts one |
| Sessions!FreePlanCreated | plans are not seeded; the callback of Google commits the user without free plan, workspace and credits |
| Credits!RefundsCovered | a try that fails refunds what was never deducted, four times a job; PaymentsBounded is how bad that gets |

Others were seen while modelling; the models do what the code does, and the
properties are stated so that they hold of it.

*Review, schedule, publish.* A draft that is SCHEDULED may be edited and stays
on the schedule. Approving a SCHEDULED draft makes it APPROVED while its post
stays where it is. A session that read a post as SCHEDULED can unschedule it
while it is PUBLISHING, which nobody else sees, or overwrite PUBLISHED. An
attempt that the database aborts in a deadlock leaves no log entry.
`next_retry_at` ("back off for 1 hour", `publisher.py:146`) is read by nobody,
so the next tick retries.

*Credits.* A generation whose deduction finds too little is free
(`tasks.py:109` ignores the answer of `deduct`). An expiry lowers the balance
without a ledger row, and a reset logs the whole allocation whatever it
replaces, so that the balance is not the sum of the ledger ("Append-only ledger
of every credit movement.", `models/auth.py:247`). Nothing writes `ends_at`, so
the daily expiry finds no subscription to expire. A checkout opens a balance
row of its own, and the checks read the newest. The cost of a calendar
(`CALENDAR_PLAN`) is checked and never deducted.

*Subscriptions.* "One active subscription per user at a time."
(`models/auth.py:171`): a late `paid` event makes a CANCELLED row ACTIVE again
beside the plan that replaced it, and two checkouts that overlap cancel the
same old row and leave two new ones. Superseding a plan does not cancel it at
Stripe, which goes on to charge. An event that comes before its checkout finds
no row and is lost. An override leaves a PAST_DUE row as it is.

*Workspaces.* An admin may invite a member with the role OWNER. Ownership may
be handed to a member whose row is deleted meanwhile, if that row said OWNER
already and is not written, or the workspace be handed over twice by two
transfers that overlap. The row of the owner can be demoted or removed, which
`owner_id` outlives. A transfer adds its user as a member, whatever the limit;
the limit on workspaces per user is counted before the INSERT like that on
members.

*Rate limit.* "Enforce Meta's 200 calls/hour limit per IG user."
(`instagram_client.py:271`): calls that are refused count as calls, so an
account that keeps asking stays locked out; and a window of the full hour may
hold more than the limit when pipelines run in another order than their clocks
were read, which is why `SlidingWindow` bounds the window shortened by the delay.

*Insights.* A published post without metrics, whose account has been
disconnected, has its INSERT refused (`optimal_time.py:224` invents an account
id); the session is unusable, and the run fails for all workspaces, now and six
hours later, as long as the account stays away ("Pull Insights for all recently
published posts across all workspaces.", `scheduler_tasks.py:108`). That is why
`SlotsLearned` asks for accounts that stay connected. Likewise a computation
that loses a race leaves the accounts after it to the next run.

*Evergreen.* `recycle_post` (`endpoints/scheduler.py:469`) inserts a post for a
draft that has one, which the unique constraint refuses, so that it always
fails; its credit check stands inside its docstring.

*Calendar.* The FAILED of a calendar job is rolled back with everything else,
so a job that has failed for good stays QUEUED. A message of a slot whose batch
was rolled back finds no row, and each of its tries refunds credits.

*Brand voice.* Two approvals that overlap keep one of their samples, and an
approval that began earlier may lower the count.

*Sessions.* "Rotate refresh token" (`auth_service.py:229`): two uses of one
token that overlap are both exchanged. A password reset ends no session, and a
refresh does not ask whether the account is active. "Create freemium
subscription for a new user." (`billing.py:119`): when the plans are not seeded
(`main.py:63` lets the service start without), `provision_free_plan` raises;
a signup is rolled back, whereas `endpoints/auth.py:120` answers the callback of
Google with a redirect and `get_db` commits its user. Later callbacks find the
user, open sessions and provision nothing.

*Token refresh.* "Refresh long-lived Instagram tokens before they expire
(60-day expiry)." (`scheduler_tasks.py:208`): the beat runs it every 50 days,
and it takes tokens with at most 15 days left. A token connected x days before
a run has 60 - x left then; for x below 45 the run leaves it alone, and for x
above 10 it has expired by the next. With 10 < x < 45 it lapses.

## 5. Fairness

PublishPipeline: weak fairness of the clock, the tick and the calls (they
return or time out); strong fairness of a worker's and a session's steps that
need a row lock, because the database queues those who wait for a lock, and of
taking a message, because the queue is served although another worker may take
the message first; weak fairness of `AbortSession`, since a deadlock is always
detected. Nothing is assumed of users (`Begin`, `RollBack`), of losses or of
which side of a deadlock is aborted. `DuePostSettles` allows a post whose time
was moved; its run has one worker.

Insights: weak fairness of the steps of the job, which the beat sends and a
worker runs, of the passing of six hours and of a computation that has read;
strong fairness of `StoreMetrics`, post by post: a post whose insights are
asked for again and again is answered again and again. Nothing is assumed of
users, of `Scan`, nor that the job is not cut short: that it is so only
finitely often is a premise of `SlotsLearned`.

ContentLifecycle has a `FairSpec` for FirstPublishCelebrated: the beat ticks,
the clock runs and the workers consume their queues. No passing run uses it.

## 6. Proofs

All for every value of the constants (any number of drafts, workers, sessions,
jobs, purchases, users, any window and limit, any bound), under the assumptions
named in the modules: settings and amounts are natural numbers, a job's cost and
the retries of a slot are not zero, the workers of the pipeline and the users and requests of a workspace
are finitely many, the delay of a rate-limited call is at most its window,
purchases, overrides and the free plan have different ids, no refresh token
has the name of none, and a day has at least one hour.

`ContentLifecycleProofs`: *TypeOK*; *Coupling*, *LogAccounting* and
*SnapshotSound*, each inductive once TypeOK is known; *PublishedIsFinal*,
which needs Coupling (the draft of a published post is PUBLISHED, which no
review handler accepts); *ApprovedContentKept*, which needs SnapshotSound (a
draft without versions points to none, so a generation that still may write
finds a draft without content); *OffScheduleKept* (the tick sends messages for
SCHEDULED posts only, a draft that has a post is not scheduled a second time, and
the retry is decided on the attempt just counted).
*PublicationKept* follows from the three invariants: LogAccounting makes an
attempt the next entry of its log, SnapshotSound gives a post that is scheduled
its content; an action on a draft changes that draft's row in `posts` and no
other (`ShownStep`).

`PublishPipelineProofs`: *TypeOK*; *CallsExclusive* (inductive: `Flush` needs
the lock that `Publishes` holds); *NeverStuck* (with the rows that workers and
sessions have read, which are never PUBLISHING either); *AttemptsLogged*,
strengthened by `MediaOwed`: the attempts that have ended, with those ended by a
loss or a deadlock, have paid for all media but those of the worker at its
calls, who spends one of its tries with each call that leaves a medium or
raises. There is one such worker at most, by CallsExclusive, so that the sum has
one term; *NoLostEdit*, strengthened by `ReadsExist`: what a session has read is no newer
than the newest version, so an UPDATE of changed columns never moves the
pointer back; *StatusesBacked*, strengthened by `PostFound` and using
CallsExclusive: a worker's medium is newer than the one recorded because no
other worker publishes in between. *PublicationKept*, by AttemptsLogged and
`RowsFound`: once its post exists a transaction works on a row with a status, and
its content is the one the post has for good.

`CreditsProofs`: *TypeOK*; the first part of
*PaymentsBounded* (`ChargedOnce`) and *OutcomeTrue* together, strengthened by
`OneAtATime` (the lock of the job's row) and `HeldJobs` (a worker about to
charge has written a version that was not there, and a job that was found is
committed, so that its request cannot set it back to QUEUED); together they are
`IInv`. The other part of
PaymentsBounded is strengthened by `TriesOwed`, a count of what is still to
come: a message in the queue, or the worker that has taken it, stands for its
own try and the retries after it, and payments made and tries to come together
stay below the bound. A payment uses up the try it is made in; a worker that is
lost, or a commit whose acknowledgement is, brings back the tries of its
message, and raises the bound by as many. *LedgerKept*, on top of `IInv`, which
says that a job about to be deducted has no deduction yet: a lemma for each kind
of commit (`ChargeStep`, `RefundStep`, `ChangeStep`) maps it to the action of
`Ledger`, one for every other step maps that to `Look`. *BalanceBounded* is then
a matter of Ledger only (`LedgerBoundsBalance`): its invariant `LedgerBounded`
says that what has been read is bounded like the balance it was, and `given`
only grows, so that writing it late does no harm. Jobs, locks and retries do not
occur in that proof.

`SubscriptionsProofs`: the inductive invariant `Inv` is *TypeOK*, *GrantedOnce*,
`RequestsSound` (what a request works on has been sent, and the rows it has
found are still there, since rows never go) and `EndsMeant` (Stripe says that a
purchase has ended only when it has). *NeverStranded* is inductive on top of
it: the commit of a plan leaves that plan, so only the notice of an end can
take the last one, and what Stripe has ended stays so. *EntitlementsKept* is
the refinement: a lemma per kind of commit maps it to `Activate`, `Follow` or
`Supersede`, an event of Stripe to `Report`, and everything else to a stutter.

`WorkspacesProofs`: `Inv` is *TypeOK* and `RequestsSound` (the row that an open
request has read is there, or in `gone`). *InvitesBounded* is inductive by
counting: a request that starts to invite has seen fewer members than the
limit, and no more requests can be inviting than there are; a commit turns an
invitation into a member, and nothing else adds one outside `joined`.
*RemovalsLast* follows step by step from `Inv`; a deleted workspace stays so
because no UPDATE of its row names the column (`StaysDeleted`).

`InstagramProofs`, of `RateWindow`: *RateTypeOK*, and *WindowKept*, the refinement. Its invariant
says that the calls have different times, none older than the delay allows
(`CallsApart`), that the key lives as long as an entry is in the window
(`KeyAlive`), and that a call which Redis has forgotten is older than the
window of any call to come (`Forgotten`). Hence a pipeline counts every call in
the shortened window before its own, and an admission keeps the limit there; a
refusal has counted calls that were made. Of `Insights`, which shares no state
with it: *TypeOK* and *NextIsNext*. The latter
is arithmetic (`NextOccurrence`): the days ahead are 0 to 7 and end on the
slot's day, 0 only before its hour and 7 only from it on; with the days written
out, the time is ahead and within a week for days of any number of hours.

`CalendarProofs`: *TypeOK*; *VoiceCounted*, strengthened by `VoicesMeasured`:
what an approval has read of the profile is measured like the profile, however
long ago, since an approval that is done stays done; hence its own caption is
always new in what it writes. *OneCalendar*, strengthened by `OneRun` (one
message or one run is left of the job, thanks to the lock of its row),
`ShellsHidden` (the running batch has no rows that others see) and `Paid` (while
a message or a run is left, each calendar there is has cost a worker).
*SlotsQueued*, strengthened by `Sent`: a message taken while its rows are not
committed leaves its retry, which comes when the run has ended.

`SessionsProofs`: *TypeOK* (defined there); *LinkKept* and *ProvisionedOnce*,
strengthened by `RowsForward`: a request takes back neither the existence, the
link nor the verification of a row that it has read, and an UPDATE writes
nothing but what it changes, so that a stale request cannot either; and a bare
account is there.
*SessionsBounded*, strengthened by `TokensOwed`: a token that can be exchanged
is `Live`, and so is one that a first refresh still holds although it was
revoked or has expired meanwhile; a token has one first refresh at a time, whose
commit takes it out of `Live` for the one it opens, and every other commit that
opens one is counted. Without the held tokens the bound is not inductive: a
logout between a refresh and its commit would make room for nobody.

The first two modules begin with lemmas on ContentRows: what each `After...`
does to a row.

Every safety property of the passing runs is thus a theorem. Only model-checked:
the liveness properties (*DuePostSettles*, *SessionsEnd*, *SlotsLearned*) and
what is stated with ENABLED, which the provers do not reach, and the refutation
of section 4.

## 7. Assumptions and what is left out

- The modules load although `workers/tasks.py` and `workers/scheduler_tasks.py`
  import each other, and some worker consumes the queue of the beat's messages.
- The database is the migrated one (`alembic upgrade head`). The tests create
  the tables from the models, which lack the unique index on the version
  number; there two overlapping edits both succeed.
- READ COMMITTED, no lock on rows that are read, UPDATE of changed columns,
  locks held from the flush to the commit.
- In ContentLifecycle transactions do not overlap. In PublishPipeline a handler
  reads all its rows in one step; every version has an image and the account
  stays active (both are ContentLifecycle's); a message that comes back after
  its commit is ContentLifecycle's too; approve holds the row lock of its draft
  during its embedding call, which follows its flush; here the two are one
  step, the commit, so that real waits are longer and not different.
- Captions, hashtags and images are the number of their version; times are
  compared, never computed.
- In Credits a workspace has one balance row, which is never deleted; the
  subscription is active until it expires; a retry, ten seconds later at the
  earliest, comes after its request has ended; every job has the same cost.
- In Subscriptions the plan of a purchase, its periods and its grace time are
  left out, and so is the balance row that a checkout inserts; TRIALING and
  EXPIRED, which no reachable step sets, are no statuses of the model. The user
  has been provisioned with the free plan (Sessions has the one who was not).
- In Workspaces CREATOR stands for REVIEWER and VIEWER, and the plan, hence
  `MaxMembers`, does not change; a user has signed up and stays.
- In RateWindow no two readings of the clock are the same, and all clocks are
  one, but for the delay.
- In Insights every post has reach and a time of publication, a workspace has
  one account, and there are at most 100 posts, which is the LIMIT of the query.
- In Calendar one calendar job is followed, the slots of a plan are told apart
  by their number only, and a job with an empty plan is SUCCESS like any other; the profile endpoint writes what the others do not.
- In Sessions there is one address and one id of Google for it; a login that
  is refused changes nothing and is no step.
- External services answer or raise; what they answer is not modelled.

Not modelled:

- Token refresh: one job over one column, with no second actor; section 4 does
  its arithmetic.
- The regeneration endpoint: it names an undefined `request`
  (`endpoints/content.py:284`) and raises before it does anything. Comments
  only append an audit row; a bulk approval approves one draft after another.
- The credit cache: what it holds opens the gate of the calendar and is shown,
  no row depends on it. It is invalidated before the commit, so that it may
  serve the old balance for up to 60 s. `RateLimiter` and `JobStatusCache` of
  `core/cache.py`, and `deduct_credits` and `refund_credits` of `billing.py`,
  are called by nobody.
- The rename and settings of a workspace, the name of a user, dismissing an
  evergreen candidate: one row, one writer that matters.
- Hashing, JWT, prompts, embeddings and statistics: values, not protocol.
- Dashboard, analyzer, AI and storage clients, mails: they read, or call
  outside; the shell and the migrations: wiring and schema.

## 8. What could come next

1. The composition of Subscriptions and Credits: the balance row that a
   checkout opens beside the one that jobs and resets write.
2. An account of Workspaces with the role checks of the content endpoints, so
   that what a removed member may still finish can be stated.
