# Juzhen: TLA+ models, checks and proofs

Juzhen drives TikTok accounts through many AdsPower browser profiles: it publishes planned
comment campaigns, hands work to agents on other machines, runs recorded strategies in
browsers, watches whether the selectors those strategies rely on still fit the pages, and
collects statistics. All of it is processes that share SQLite databases, Redis and browsers
without a common transaction, and any of them may die between two steps. This directory
models the parts whose correctness depends on that: every interleaving on small instances is
checked by TLC, and what matters most is proved by TLAPS for all instances.

Sources are named relative to the repository (`src/` in PROJECT.json).

## 1. Inventory

| Part | State it keeps | Operations | Interacts with | What is hard |
|---|---|---|---|---|
| Comment Campaign: store (`comment_campaign/store.py`, `domain.py`, `models.py`) | campaigns, assignments, approvals, receipts, attempts in SQLite, each row with a revision; identity and prepare generations per campaign | about 30 transactions, each a compare-and-set on a revision | service, executor and worker call it concurrently | transactions of different callers interleave; cascades over a tree; stale generations |
| Comment Campaign: service, executor, queue, worker (`service.py`, `executor.py`, `queueing.py`, `worker.py`, `jobs.py`) | RQ jobs, Redis leases, browser windows of one job | approve, pause, resume, reject, resolve; preflight, preparation of a batch by concurrent coroutines, submission; recovery at start | store, AdsPower, TikTok page | state read before an `await` and used after it; a click that cannot be undone; a worker, or only its child, dies |
| Comment Campaign: planning (`allocation.py`, `schemas.py`, parts of `store.py` and `service.py`) | templates and their revisions, profile metadata, draft plans | create, plan, override, replan, lock, delete | store | what a request read may be stale when it writes; a matching of comments and profiles |
| Central (`central/`) | tasks, subtasks with a lease generation, accounts, devices, handles, results | dispatch, reclaim, renew, result, handle, requeue, terminate, probe | agents over HTTP | results after a reclaim, repeated messages, read-then-write handlers, circuit breaker |
| Agent (`agent/`) | none between two subtasks | pull, execute, report a result and then a handle | Central | crash between execution, result and handle |
| Execution V2 (`execution_v2/`) | jobs, rows of profiles, strategies, elements, releases in SQLite; leases of profiles in memory | start, cancel, batches, cleanup, recovery; save, repick, delete, debug, release | AdsPower, Central | cancellation between awaits, a browser that opens but does not answer, saves that overlap |
| Selector Probe (`selector_probe/`) | versions with an outbox, runs with effects, gates, alerts with a webhook outbox, run requests, settings changes in SQLite; registry, gate projections, picker sessions and leases in Redis | tick, publish, apply, project, deliver, run now, change settings, pick | Redis, browser, receiver of webhooks | two stores without a common transaction, leases that run out while their holder goes on, several processes |
| TikTok statistics (`tiktok_stats/`) | accounts, collection runs, snapshots, worker leases | collect a slot, calibrate, resume | TikTok API | a worker that lost its lease must stop writing |
| Console accounts (`gateway/auth_*.py`, `session_key.py`) | users with a revision, signed cookies, the key file | login, change of password, administration, revocation | browsers | a check and its write are two steps; several processes create one file |
| Gateway: content and publishing (`gateway/content_store.py`, `publish_queue.py`, ...) | JSON files | publish, retry | Buffer, R2 | see section 7 |
| Launcher, remote action contracts, legacy browser strategy, page automation, JavaScript agents | none, or processes and pages | | operating system, browser | I/O |

What makes each of them correct: a campaign publishes every comment at most once, by a distinct
account, replies only below verified parents, and clicks only what was approved; a plan that is
locked is one that passes its own validation; a subtask has at most one holder and a stale
result changes nothing; no finished job leaves a browser running unsaid, and no profile stays
leased; what a release was validated as is what it is; what the registry serves was validated
and is accounted for; a paused strategy is released when its selectors are valid again; a
webhook row, a run request, a settings change and a picker session end once; two workers never
write one collection; a revoked session, a locked user and a dismissed administrator stay so;
every process signs cookies with the same key.

## 2. Modules

| Module | Models | In run | Proofs |
|---|---|---|---|
| `CampaignDomain` | the two transition tables of `domain.py` | all of the next two | |
| `CampaignStore` | the durable rows of one campaign and each transaction on them after the plan is locked; `Spec` is the contract its callers keep | `store` | `CampaignStoreProofs` |
| `CampaignExecution` | the callers: the worker with its two kinds of job, the operators' handlers, the queue, failures and restarts | `execution`, `operators`, `progress`, `replay`, `reject` | `ExecutionProofs` |
| `CampaignPlanning` | templates, profile metadata and one campaign until its plan is locked | `queue` | `CampaignStoreProofs` |
| `ProfileSearch` | the search for a matching (`allocation.py`), against the set of all matchings | `queue` | |
| `CentralDispatch` | the subtasks of one tenant and the agents that work them | `queue`, `settles` | `DispatchProofs` |
| `LeaseLedger` | the abstract fenced queue: numbered leases and the answers to them | `queue` | `DispatchProofs` |
| `ExecutionJobs` | jobs of Execution V2 beside pickers, validations and calibrations | `console` | `ConsoleProofs` |
| `StrategyStore` | strategies, elements, identities, debug runs and releases | `workers`, `saves` | `WorkerProofs` |
| `SelectorPublication` | versions and their outbox in SQLite, the registry in Redis, attempts under a lease | `probe` | `PublicationProofs` |
| `ProbeEffects` | what a run does to gates and alerts, and their projections | `probe` | `ProbeProofs` |
| `WebhookDelivery` | the webhook outbox and overlapping delivery passes | `probe` | `ProbeProofs` |
| `RunRequests` | run-now: idempotency, process locks, requests, Redis key | `probe` | `ProbeProofs` |
| `SettingsPublication` | settings staged in the database, written to a file, judged by it | `console` | `ConsoleProofs` |
| `PickerSessions` | picker sessions shared through Redis | `console` | `ConsoleProofs` |
| `ConsoleAccounts` | logins, locks, administration and revocation | `operators` | `AccessProofs` |
| `SessionKey` | finding or creating the key file, on POSIX and on Windows | `operators` | `AccessProofs` |
| `StatsCollection` | slots, calibrations, leases and runs of the statistics workers | `workers` | `WorkerProofs` |

`MCCampaignStore`, `MCExecution`, `MCRoots`, `MCOperators`, `MCQueue`, `MCDispatch`, `MCProbe`,
`MCConsole`, `MCWorkers` are the instances for TLC. Five of them (`MCOperators`, `MCQueue`,
`MCProbe`, `MCConsole`, `MCWorkers`) compose modules that share no
state and run one of them in each behaviour (the variable `part` says which and never
changes); the parts together are as good as separate runs, and a property of one is trivially
kept by the others.

What all modules have in common: a step is what a process does between two points at which
another process may act. A transaction on SQLite is one step, because writers exclude each
other; reads before the first write of a pysqlite session run outside any transaction, so a
request that reads and then writes has two steps and keeps what it read. A Lua script in Redis
is one step. What a coroutine does between two awaits is one step. A process may die at any
point, up to a bound. Texts, timestamps, log rows and error codes are left out unless a decision
depends on them; a remote call is any of its outcomes.

### CampaignStore

`campaign`, `row`, `approval` and `receipt` are the tables `comment_campaigns`,
`comment_assignments`, `comment_approvals` (the newest approval of each row: older ones
carry an older revision and are never looked at) and `comment_receipts`. `reserved` is
a history variable: the revision `begin_comment_input` last handed out.

An operator such as `BeginSubmitting(a, rev, gen)` is one `session_factory.begin()` block. Its
guards are the checks in the block; if one fails the block rolls back, so the operator is not
enabled. Callers may use stale revisions and generations only in `CampaignExecution`; in `Spec`
of this module every call carries the current one (a stale call changes nothing). `Spec` is what
is proved about and refined; its counters are unbounded. `BoundedSpec` is the part of it that
TLC explores. The actions `OpenProfile`, `PrepareComment`, `AwaitStepApproval`, ... say in which
circumstances the callers make a call: that is the abstract specification the execution model is
checked to implement.

### CampaignExecution

One RQ worker runs one job at a time (`work`); the coroutines of a batch (`page`)
interleave with each other and with the HTTP handlers. Reads that precede a
compare-and-set are merged with it when losing the race has the same outcome as reading
later; where the code keeps a value read earlier, the model keeps it too (`work.snap`,
`work.ident`, `page[a].seen`). A handler that makes several transactions leaves the rest in
`handoff` (a generation to allocate or to enqueue) or `resuming`.

`queue` and `accepted` are RQ: `_enqueue_once` never queues an id twice, finished jobs
included. `orphaned` says that a dead job's leases (campaign, profile, video; TTL 120 s)
are still in Redis. Failures: an exception in the page, a window that does not open or
close, Redis not answering a handler, or a submit job that wants the lease of its video
(`OpenProfileToSubmit`: that call stands before the `try`, so nothing spends the approval), a
job's process dying (`JobDies`: the worker lives,
so nothing is recovered) and the worker dying (`WorkerRestarts`: `serve` recovers every
campaign, then rescans). The scheduled start of a job is taken as immediate and the
order of comments within a batch is any order.

The outcome of a click may come too late: an operator answers for an earlier click of the
comment while a later one is verified, the store refuses the outcome and the job raises
(`OutcomeRefused`, a case of `SaveOutcome`). An operator who rejects a row that is already an
uncertain publication is an event of its own (`late_reject`), since the code takes both for one
operation (section 5).

`clicks`, `verdicts`, `calls` and `deaths` are history variables; the last two only bound
the runs.

### CampaignPlanning and ProfileSearch

`template` has the revisions of a comment tree, `profile` what is known of the profiles, `plan`
the campaign, `planner` the requests with what they read. A plan is any matching that the search
may find (`Matchings`), and the position that `allocate` gives a comment in its rounds is said
by the length of the thread it answers to (`Thread`, `Depth`, `Position`); `ProfileSearch` is
the search itself, an augmenting path for any order of the candidates, and `SearchIsComplete`
says that it finds a matching whenever there is one. It is the one module with RECURSIVE
operators.

### CentralDispatch

`sub` is the `subtasks` table (`status`, lease owner, generation, attempts, whether the row's
`profile_id` is that of its account, and, as `late`, whether the last progress is older than
the lease timeout; in a row that is not leased `late` is FALSE, which nothing reads), `task`
the status of the tasks, `account` the accounts, `online` the devices `_device_online` accepts,
`handles` and `results` the rows of those tables. `agent` is the main loop of each agent and
`wire` the requests it has sent and that Central has not answered: an agent waits for the
answer (and ignores what it says) or gives up after its timeout, and the request may still
arrive. `holders`, `requeued` and `raced` are history variables, `faults` only bounds the runs.

A handler whose first statement writes (`submit_result`, from its inbox row on) is one action:
it holds the write lock from there to its commit. Two kinds of request read first, and write
later by primary key whatever the row has become, as the ORM does; they are several actions
each, and any number of them overlap (`TickRequest`, `Operator`):

- `scheduler_tick` reads the leased rows (`StartTick`), decides and writes (`Reclaim`), and when
  there was nothing to write it reads the queue (`Look`) and decides on the first candidate
  (`Write`) without a lock. `tick` keeps what it read. The device rows that the reclaimer looks
  at are read at the write.
- `requeue_dlq` and `terminate_dlq` look the dead letter up (`OpenLetter`) and update it when
  they commit (`Requeue`, `Terminate`). `review` keeps what they read: of two operators who
  requeue one letter the later one resets a row that may have been leased again, to the same
  generation.

`raced` collects the subtasks that a tick or a requeue wrote although their generation had moved on
since it read them (a compare-and-set would have refused that), or leased although another
tick had leased their profile meanwhile. The code has nothing that refuses, so the properties
say of all other subtasks what a queue should promise of all.

Probes are created by `ProbeTick` up to the set `Probe`. Nothing in the repository calls the three
ticks periodically; the model has them called again and again. A pass looks at the first `Limit` of
the queue (50 in the code), whether they may run or not. Left out: priorities other than as an order
(`Rank`), deployment status and profile changes of accounts, the browse tasks of operators, outbox
events, the status RUNNING (nothing writes it), and the inbox key of a result beyond "the same
request again".

### ExecutionJobs and StrategyStore

`job` and `row` are the tables of jobs and of their profiles, `work` the coroutine of a job (its
batch, what it started, bound, cleaned and recorded), `visit` the pickers, validations and
calibrations, `held` the leases in memory, `browser` which caller's browser runs in a profile,
`ran` how often a strategy was begun. All coroutines share one event loop. Starting a profile is
three steps, between which everybody else goes on: the job looks whether it was cancelled and
asks AdsPower (`StartProfile`), AdsPower answers, after the limiter, a thread and the service
itself (`StartAnswered`), and the browser is connected (`Connect`). The answer may be an error
and the browser open; cleanup may fail; the database may refuse the claim of a job or its end
(`EndRaises`, `RunIsLost`), a row of the cleanup, or one of the recovery (`RecoveryFails`: `up`
is "failed" until the service is ended by hand and started again); the process may die
(`ServiceDies`) and recovers at its next start, also when it dies again while it recovers.

`StrategyStore` has the rows of strategies, elements, identities of actions, debug runs and
releases, and requests that read before they hold the lock. The source revision of an identity
moves when somebody asks and finds that the content changed (`_refresh_strategy_metadata`),
which is why `Agreed` needs to be said at all.

### The selector probe

`SelectorPublication`: `version` and `outbox` in SQLite; `active`, `canary` and generations in
Redis; `worker` each attempt's stage with what it claimed; `lease` the Redis key. Both stores
may fail, an attempt may lose its lease and go on, Redis may lose its data. `ProbeEffects`:
`effect`, `reason`, `revision`, `alert` in SQLite, `projection` in Redis, `tick` what each
process read. `WebhookDelivery`: `hook` rows with attempts and a claim that is reckoned from the
start of its pass. `RunRequests`: `operation` (idempotency), `owner` (the process's lock),
`request`, the Redis key and the thread of each call; the store may refuse what a call or a
thread records at its end, which the code swallows (`RecordFails`, `CallFails`, `Callback`), and
`unrecorded` is the history of the requests that lost their end so. `SettingsPublication`: `file`,
`settingsRevision`, `intent` (pending, completed, failed) and what each request has seen.
`PickerSessions`: `memory` of the process, `stored` copy in Redis, `page` the thread, `lease`. A
record may vanish from Redis at any time; `confirm` and `cancel` change the memory before they
save, and leave it changed when there is no record to save to (`Refused`). Redis answers.

### Console and statistics

`ConsoleAccounts`: `user` rows with revision, failures and lock; `browser` cookies that name a
revision; a request under way with the row it read. `SessionKey`: which file the path names,
the content of every file ever created, and the stage of every call; on Windows an open
excludes all others. `StatsCollection`: `slotRun`, `fullRun`, `snapshots`, leases by job, and
each worker's stage, which is "down" after a death or an exception that ends the process
(`worker.py:460`) until a person starts it (`StatWorkerStarts`: the launcher starts it when it is
opened or its button is pressed, and does not watch it).

## 3. Runs

`CHECK_DEADLOCK FALSE` everywhere: a campaign that is finished or waits for an operator, a
job that ended and a budget of faults that is spent really stop. Accounts of a campaign,
browsers of the console and processes that look for the key are symmetric and declared so;
symmetry is used in no run with liveness.

| Run | Question | Why the bounds are enough |
|---|---|---|
| `store` | the state invariants and action properties of the store under its contract; a branch stops together with its root | a chain of three comments distinguishes children from descendants; with three accounts, every status, two identity generations and a recovery fit below the revision bounds |
| `execution` | do the processes keep the store's contract (`Spec`), click only what was approved and never click twice, while operators pause, resume, reject, resolve and repeat an approval, pages and windows fail, jobs raise or die, Redis does not answer and the worker restarts | three calls are a queueing and two approvals, or a queueing, an approval and an interference; one death of a job or of the worker at any point of it |
| `operators`, part `campaign` | is every comment of a batch either offered or reported, with two prepared concurrently while operators interfere | two independent comments show every order of two outcomes; three calls are a queueing, an approval and a rejection, also of an uncertain publication; a job raises or dies once |
| `operators`, part `answers` | the same, and is no comment left behind by a verdict | one comment whose clicks an operator judges: five calls are a queueing and two rounds of approval and verdict |
| `operators`, part `accounts` | is somebody left to administer, are guesses bounded, is a session current, does a reset hold | two users in two browsers with overlapping requests, limit 1 instead of 5, two changes of revision |
| `operators`, part `key` | do all processes have the key of the file | three processes: a creator, one that waits for it and a third that finds the path free again; two faults, three retries |
| `progress` | is an accepted approval settled, and an eligible comment taken | a reply that becomes eligible by its parent's publication is the wakeup that could be lost; Redis answers, and no approval is repeated, which can lose one (section 6) |
| `replay` | finding: an uncertain click is repeated after its job died | two independent comments: one is clicked, the window of the other fails |
| `reject` | finding: an uncertain click is repeated after an operator rejected it | the same two comments; nothing dies |
| `queue`, part `leases` | are leases exclusive per profile and counted as attempts, and does the dispatcher implement `LeaseLedger` | two subtasks of one profile and two devices, two faults: a silent device whose agent still reports, or two reclaims in a row |
| `queue`, part `overlap` | the same, with two ticks and two operators at once | one tick or request against another is what writes over; a lease that expires and a requeue, or two requeues of one letter |
| `queue`, part `dependents` | does a child wait for its parent's verified handle, whatever is lost, repeated or late | one edge; results and handles are separate requests that two faults can lose, repeat, delay or reorder |
| `queue`, part `planning` | is a plan on record always one that the lock would accept, and a locked one left alone | two requests, three profiles of which one suits late, trees with a reply, without and with a cycle, one change of template or profile while a request is at work |
| `queue`, part `search` | does the search find a matching whenever there is one | all 512 relations of three comments and three profiles, all orders of candidates: an augmenting path of every length they allow |
| `settles` | does every subtask settle, with a device that hangs or disappears for ever, and is a verified account decided | a scheduled subtask and a probe of one account whose preferred device is the unreliable one, in a queue of which a tick looks at the first (`Limit` = 1: once the account is not active, the scheduled subtask starves the probe); the operator's two moves, or two other faults |
| `probe`, part `publication` | is what the registry serves accounted for, and does every version settle | two attempts and two versions: one publishes while the other holds an older claim; one loss of Redis' data, one crash or lost request; what a second loss adds, the proof covers (section 4) |
| `probe`, part `effects` | are failures counted once and in order, does no projection run ahead, is every pause released | two overlapping ticks, two aliases of one strategy, a run that covers one alias, three effects, two disturbances |
| `probe`, part `hooks` | is a row sent at most `AttemptLimit` times and settled for a reason | two rows, two passes; the limit is 2 instead of 5 (a first and a last attempt), two faults |
| `probe`, part `requests` | does a repeated key have one request, does no lock outlive its work, does every request end whose end the store takes | two calls with one key or two, two processes, one fault |
| `console`, part `settings` | is what is called published what was in the file, is one change staged from one revision, does every change settle once | two changes, a read and a save of the other page, one death of a process |
| `console`, part `picker` | do the processes agree on how a session ended and who has the lease | two sessions in one process or two, three revisions, one fault |
| `console`, parts `jobs`, `visits` | is every browser of an ended job closed or said of, every row decided, every lease given back, every cancellation heeded | two jobs of one or two profiles and batches, one death, which recovery can meet again, and any refusal of the database; two visitors beside a job |
| `workers`, part `statistics` | is a completed slot covered, is nothing stored after its run ended, does every slot end | two workers, two accounts, two slots, one lapse, failure or death; five runs of calibrations, which are more than the faults allow to begin |
| `workers`, parts `editing`, `publishing` | do debug runs, releases and identities agree, do releases stand | two requests, one strategy, two action ids (deletion and recreation), two revisions, two source revisions, two releases |
| `saves` | finding: a save that lost its revision goes on | |

In the execution runs the store's counters are not bounded: the number of operator calls and
deaths is what makes them finite. The runs of `CentralDispatch` bound the environment by `MaxFaults`
events out of the set `Events` and the retries by `MaxRetry` = 1 instead of 3: a first
attempt, a retry and the end of the retries are three different situations, and a
third retry repeats the second. `CircuitBreaker` is 2 instead of 3 for the same reason.

Most properties are conjunctions of parts that say different things of one component:

| Property | Parts |
|---|---|
| `ExecutionSafe` | `ExecutionTypeOK`, `ClickIsApproved` |
| `PausesAreExact` | `UncertainSurvivesIdentityChange`, `BranchStopsWithItsRoot` |
| `LeasesSafe` | `TypeOK` of `CentralDispatch`, `ProfileExclusive`, `LeasesAreCounted` |
| `PlanningSafe` | `PlanTypeOK`, `PlanHolds` |
| `QueueSafe` | `ChildrenWait`, which is `DependentsWait` of the part `dependents`; `SearchIsComplete` |
| `PublicationSafe` | `OnePublished`, `PublishedWasLive`, `ActiveIsAccounted`, `RegistryNotOlder` |
| `EffectsSafe`, `FailuresEndWell` | `ProjectionsAgree`, `EffectsInOrder`, `NoPauseLost`, and types; `FailuresCountedOnce`, `PausesEnd` |
| `RequestsSafe`, `RequestsEndOnce` | `LockIsAtWork`, `OneRequestPerKey`; `EndedRequestStays`, `OutcomeStays`, `RequestsEnd` |
| `DeliveriesSettleOnce` | `SendsBounded`, `SettledForAReason`, `SettledStays`, `DeliveriesSettle` |
| `SettingsSafe`, `ChangesSettleOnce` | `CompletedWasOnFile`, `RevisionsStagedOnce`; `JudgementStays`, `ChangesSettle` |
| `PickerSafe` | `PromiseKept`, `NoGhostSession`, `LeaseIsHeld` |
| `JobsSafe`, `JobsEndWell` | `OneActiveJob`, `ClosedWhenEnded`, `RowsSettled`, `RanOnce`, `LeaseHasOwner`; `CancelHeeded`, `RecoverySettles`, `JobsEnd` |
| `AccountsHold` | `LastAdministrator`, `GuessesBounded`, `SessionIsCurrent`, `NoLoginWhileLocked`, `ResetHolds` |
| `CollectionSafe` | `CompletedCovers`, `EndedRunStays`, `StoredWhileRunning` |
| `ReleasesStand` | what a step may do to the releases |
| `FencedQueue` | the refinement of `LeaseLedger` |

### Refinements

`execution` checks `Spec`, the specification of `CampaignStore`, as a property of
`CampaignExecution`: the refinement mapping is the identity on the four tables and
`reserved`, since the detailed module extends the abstract one and adds variables. It
is a real obligation: the conditions `OpenProfile`, `PrepareComment` and
`AwaitStepApproval` state are not checked by the transactions the executor calls.

`FencedQueue` maps `holders` to the leases granted and `results` to the answers of
`LeaseLedger`: every tick grants leases with numbers above all earlier ones of the subtask, and a
result is recorded for the newest lease only, once. `raced` are the items whose record is lost:
the ledger promises nothing of these any more, and everything of the others.

### Fairness

What is assumed to go on, and by what in the code; failures and people never have to act:

- `Execution`: the worker (RQ polls its queue and runs a job to its end), a handler (a request runs
  to its end), the expiry of leases (Redis). `progress` has Redis answer, no pause and no death:
  after a pause an approval is deliberately left unspent, and what a dead process leaves behind is
  only picked up at the next restart.
- `FairSpec` of Central: the ticks are called again and again, the network delivers what it does not
  lose, cooldowns and leases run out, and the agents in `Reliable` keep their loop and their
  heartbeat going. The other device may hang or fall silent for ever. It may not die between a
  result and its handle: the code never sends a handle again, so a dependent would wait for ever.
  `<>[][~Renew(d)]_vars` says that an execution has finitely many stages between which it renews its
  lease. A subtask whose account is not active, or whose parent is in the DLQ, counts as settled: it
  waits for an operator. `EverySubTaskSettles` and `ProbeDecides` except what is starved for good
  (`Starved`): behind as many queued subtasks as a tick looks at, none of which may run because
  their accounts are not active (`assignment.py:29`).
- Probe: `serve` calls the tick again and again and a tick runs to its end; a claim, a lease and a
  retry fall due (time). `EffFairness` has strong fairness of one step: again and again a run finds
  every selector valid, without which no pause has to end.
- Settings and picker: a request that began goes on while its process lives, the page is read again
  and again, a session's timer and page thread run, and a dead holder's lease runs out.
  `SessionsEnd` excepts a session that was ended in memory only (`EndedInMemory`).
- Run requests: a call and a thread go on while their process lives. `RequestsEnd` excepts the
  requests in `unrecorded`: nobody tries again to write an end that the store refused.
- Jobs: the event loop goes on, and whoever runs the service starts it again when it is down.
  `JobsEnd` excepts a job that nobody works on any more because the database refused to have it
  settled (`Abandoned`): it waits until somebody ends and starts the service.
- Statistics: a worker's loop goes on while the process lives, and leases expire. Nobody has to
  start a worker, so `SlotsEnd` says that a slot ends or no worker is left.

## 4. Proofs

Proved by TLAPS, for every value of the constants (any number of comments, subtasks, devices,
processes, profiles, strategies; any bound; also infinite sets unless said otherwise):

| Theorem | Says |
|---|---|
| `CampaignStoreProofs!TypeCorrect` | `Spec => []TypeOK` |
| `CampaignStoreProofs!ReceiptsAgree`, `RepliesFollowParents`, `ApprovalsAreCurrent`, `SubmissionsAreBound`, `PublishersDiffer`, `VerifiedStaysVerified` | `ReceiptMatchesStatus`, `ReplyOnlyUnderVerifiedParent`, `ApprovalsFollowTheirRow`, `SubmitUsesFrozenIdentity`, `DistinctPublishers`, `VerifiedIsFinal` |
| `CampaignStoreProofs!PausesReachTheBranch` | `PausesAreExact`, for any tree of comments |
| `CampaignStoreProofs!PlansHold`, `SealedPlansStand` | `PlanningSafe`, `SealedPlanStands` |
| `ExecutionProofs!ExecutionImplementsStore` | the refinement `Execution => Spec` |
| `ExecutionProofs!ExecutionIsSafe`, `BatchesAreComplete` | `ExecutionSafe`, `NoCommentLeftBehind` |
| `ExecutionProofs!NothingIsReplayed` | `NoReplay`, if neither `job_death` nor `late_reject` occurs: the findings `replay` and `reject` are what happens otherwise |
| `DispatchProofs!LeasesHold`, `QueueIsFenced` | `LeasesSafe` and the refinement `FencedQueue`, with any number of ticks and operators' requests that overlap |
| `DispatchProofs!DependentsHaveHandles` | `DependentsWait`, likewise |
| `AccessProofs!AccountsAreSafe` | `AccountsHold` |
| `AccessProofs!KeysAgree` | `SignsAlike` |
| `WorkerProofs!StrategiesAgree`, `ReleasesStay` | `StrategySafe`, `ReleasesStand` |
| `WorkerProofs!CollectionHolds` | `CollectionSafe` |
| `ConsoleProofs!SettingsHold`, `JudgementsHold` | `SettingsSafe`, `JudgementStays` |
| `ConsoleProofs!PickerHolds` | `PickerSafe` |
| `ConsoleProofs!JobsHold`, `CancellationsHold`, `RecoveriesSettle` | `JobsSafe`, `CancelHeeded`, `RecoverySettles` |
| `PublicationProofs!PublicationHolds` | `PublicationSafe` |
| `ProbeProofs!EffectsHold` | `EffectsSafe` |
| `ProbeProofs!RequestsHold`, `RequestsStay` | `RequestsSafe`; `EndedRequestStays`, `OutcomeStays` |
| `ProbeProofs!DeliveriesHold`, `DeliveriesStay` | `SendsBounded`, `SettledForAReason`; `SettledStays` |

The assumptions are the named ASSUMEs of the modules: types of bounds, markers (`NoAccount`,
`NoFile`, `Nobody`, ...) that are no members of the sets they stand beside, disjoint id spaces,
and in `DispatchAssumption` that a probe has no parents (`probe_tick` creates it without).
`Put`, the settings changes, is finite, because a revision counts them, and so are the delivery
passes, because their requests are counted against the attempts; deliveries are numbered, as
rows are, since a pass takes the first that is due. A tree of comments is finite, its steps are
numbered and its texts are texts or the library's (`TreeAssumption`; `schemas.py` parses it so),
and the accounts whose statistics are collected are finitely many ids (`StatsAssumption`), since
a run counts them.

**CampaignStore.** The transactions are summarised by the relation `Effect(a)` between a row
before and after a step (`StepEffect`), and the properties follow from the summary.
`ReceiptMatchesStatus` is inductive on its own; `ReplyOnlyUnderVerifiedParent` is not: a reply
stays below a verified parent only because verified rows and their receipts are final, which
needs the receipts to agree. `ApprovalsFollowTheirRow` needs `ApprovalsBehind`, that no approval
has a revision above its row's: otherwise an advancing row could meet an approval again.
`SubmitUsesFrozenIdentity` needs `ReservationsCurrent`: the reserved revision that lets a row
await approval was handed out under the current identity, so a generation change in between must
have advanced the row. `DistinctPublishers` needs one user per account (`OneUser`): a comment
uses the account of its receipt, and the one it is bound to in the current identity generation
while it may still be submitted. A freeze is the only step that gives out accounts, and compares
them with both; every other step only takes them away (`NobodyGains`). That a receipt is written
with an account its comment used, and with no other, is what `SubmitUsesFrozenIdentity` adds.
`PausesAreExact` needs no invariant but types: every transaction that stops a comment for good
cascades to what is below it (`CascadeStops`), and "below" is the closure that `Descendants`
computes.

**Planning.** `PlanInv` says of what a request has read: its revision is behind the campaign's,
and then nothing it has computed is written, or the campaign is as it read it (`AskedFits`).
What it is about to write is sound by itself (`Sound`: the steps of the pinned tree, one
publisher and one text each, whoever was not chosen by hand suits), because a pinned revision of
a template never changes and the campaign's profiles do not either (`Grows`); that a choice of
the search is sound is `ChoiceIsSound`. A correction by hand relies on what it read of the other
comments, and so on the revision. That a reply comes after its parent (`ParentComesFirst`) is a
fact about trees: the thread of a parent is a proper subset of its reply's, because a valid tree
has no cycle.

**CampaignExecution.** `Holds` relates what the job, its pages and the handlers have in hand to
the rows: a job is what its point needs (`JobFits`); a comment in the batch is not clicked, its
page's revision is behind or the comment is still eligible, and where its page has ended it is
out of preparation (`PageFits`); from the commit to its outcome the row is the one the approval
was given for (`ClickFits`). It includes `ReplyOnlyUnderVerifiedParent`, without which a row
that awaits approval could have lost its parent's receipt. Every step preserves it and is a step
of `Spec` or leaves the tables alone, one lemma per step; so all theorems of `CampaignStore`
hold of the execution too, and `ExecutionSafe` and `NoCommentLeftBehind` follow from `Holds`.
`NoReplay` needs the account `Counted`: clicks exceed verdicts by one at most, and by none
unless the row's status still says that it was clicked; and a row that is submitting or being
verified is the running job's. Both hypotheses of `NothingIsReplayed` are needed there: the
death of a job leaves such a row without a job, and a late rejection takes the status away
without a verdict. The death of the worker needs no exclusion, because recovery turns such rows
into uncertain ones before anything else runs.

**CentralDispatch.** `LeaseInv` strengthens the properties by `Ledgered` (what is leased, worked on,
on the wire or answered is a lease handed out; what was answered is not leased any more), `Counted`
(a subtask that is not leased has paid an attempt for each of its leases) and `Relied` (the rows and
candidates each tick has read, and still writes from: as long as the generation stands, so do the
leases and attempts; `GoesOn` says that no step of anybody else undoes this). `Moves` summarises
what everybody but a tick does to a row, and `Sound`, `InHand` and `Lease` say of the rows a tick is
about to write what `LeaseInv` says of the stored ones; the rows reclaimed and the leases granted
are then steps between sound rows. Nothing is assumed of how ticks and operators' requests overlap.
What they break is `raced`: a row is written over only in a step that adds it to `raced`, where
`LeaseLedger` has its record lost. Without it both theorems are false, since the code leases one
profile twice, counts one reclaim twice and gives one number to two leases (section 6).
`DependentsWait` needs no such exception: `WaitInv` adds that whatever a tick or an operator has
read has the handles of its parents, and handles are never removed. `QueueIsFenced` needs
`LeaseInv`: a step that grants leases numbers them above the ledger's, one that accepts a result
does so for a lease that is the subtask's newest and has no answer, or the subtask is lost, and all
others stutter.

**SessionKey.** `KeyInv` says which file a call has open at each stage (`OwnFile`), that the
creator of the file that the path names has it open or has come to its end (`Creators`), what a
creator has written (`OwnContent`), that on Windows nobody else has an open file (`Excluded`),
and that a key somebody read is the one in the file (`Seen`): a file is removed only by a
creator that has not written its whole key, and then nobody has read one from it.

**ConsoleAccounts.** `AccInv`: a cookie is of a row that exists and, if it has the row's
version, has its password and role (`CookieFits`); failures stay below the limit unless the row
is, or was, locked for them (`FailuresFit`); whoever is being logged in exists (`RequestFits`);
versions never exceed the changes counted. `LastAdministrator` is inductive beside these: it is
kept by the transaction, which counts the others again. The action properties compare a row
before and after each step.

**Statistics.** `CollectionInv`: a worker in a run is in one of the job it holds, or held, the
lease for (`Belongs`), the run is running as long as the worker owns the lease, and a run
without failures has stored all accounts but those left (`RunFits`); each stage of a tick has
what it needs (`StageFits`). Whoever owns the lease of a job is the only one who may write to
its run, and every write checks that in its own transaction.

**StrategyStore.** `Typed` (with the bounds a request relied on when it read), `Owned` (one
action id for each strategy that exists; an id that a deletion has read can only have lost its
strategy since), `Agreed` (what debug runs and releases say of a source revision is one content,
and the identity's if it is the current one; nothing is said of later revisions) and `Numbered`
(releases of an action are numbered 1 to their count). `Renamed` summarises the steps: an
identity keeps its content, names one for a revision that had none, or begins another revision.

**Settings.** `SetInv`: the revision is the number of staged changes, each with a revision of
its own not above it; a change has not been staged before its request is past staging; whatever any
request has read of the file was in the file. `JudgementStays` follows from the steps.

**Picker.** `PickerInv` adds to the three properties only that a session that has not started has
left no trace. The argument is in the compare-and-set: a promise is made by a save that found
the record alive, and every later save carries the old revision and is refused.

**Jobs.** `JobsInv` says of each job, whatever the others do (`Sound`): what its coroutine does
fits its status (`Phase`); what it has in hand is a batch of its profiles (`InBatch`); the rows
of profiles whose turn is over are decided and of those to come queued (`TurnsTold`,
`BatchTold`); nothing was begun before its turn (`TurnsRun`); a browser of the job is one it or
its recovery still has to stop, or the job is blocked, or left active by a service that is down
or could not settle it (`Traced`); a lease belongs to one at work (`LeasedTo`). Beside these
`OneActiveJob` and `VisitsSound`. Without `Traced`, `ClosedWhenEnded` would not survive a cleanup
that raises; without `TurnsRun`, `RanOnce` would not survive a restart. `CancelHeeded` follows
with `Traced` and the types: a browser opens only for a profile that AdsPower was asked for
before, one at a time (`opening`), and it is asked only by a job that is not cancelled.
`RecoverySettles` is read off `Phase`: while a service recovers, what is active is being
recovered, and the recovery is over when nothing is.

**Publication.** `PublicationInv` has three layers. Of the store alone (`StoreHolds`): versions
and events are numbered together, an open event belongs to a validated version, events are
claimed in order, one version is published. Of the registry beside it (`RegistryHolds`): what is
active and what is published was live, and what is active is the last published version or an
open one unless something was contested. Of each attempt beside both (`AttemptsHold`): what it
knows (`Known`) is of the version it works on; and as long as nothing is contested it still has
the claim it works under (`HoldsClaim`), what it read of the registry is still so (`Follows`),
and one attempt at a time is handling an event (`OneHandles`). `contested` is a history
variable: it marks the moments after which the code promises nothing about what is active. The
proof found a third of them, which one loss of Redis' data cannot show: a slow pass restores the
version it read before a newer one was published, and when Redis has lost its data once more
nothing refuses it. The run loses the data once, the theorem allows any number of losses; TLC
agrees with two in a run of its own for the safety part, which with the liveness is too long to
keep.

**Effects.** `EffectsInv`: the effects a tick still has to do include all that were not applied
before one of them (`InTurn`), so that the first of them is in turn whoever else drains; what
anybody has read of a gate, and may write to Redis much later, is not ahead of the gate and
agrees with it at its own revision (`ReadingsAgree`), which needs that every change of a gate
has a new revision (`GatesGo`). `EffectsStep` summarises a step: it may add effects at the end,
apply the first that is not applied (`EffectsGo`), and release a gate of the probe only by a
recovery that covers it (`PausesGo`). `NoPauseLost` then follows from `EffectsInOrder`: what is
applied later has a higher id.

**Run requests.** `RequestsInv`: a call that did not come to its request has none (`NotYet`),
one that has reserved its key is in a process (`Placed`), two calls that reserved one key had a
reservation lapse between them (`ReservedOnce`), and a lock is held by a call of the same
process (`LockedByOwn`).

**Deliveries.** `DeliveryInv`: a claim pays for one request. The requests made of a row and the
passes about to make one (`Sending`) are together at most the attempts taken (`ClaimsPay`),
although a pass whose claim ran out goes on beside its successor; and a pass that calls its
request received has an answer (`SentWasReceived`), so a row is not called completed for
nothing.

What the runs check as an invariant is proved, but for the following. `QueueSafe` wraps
properties of two parts of an instance: its `ChildrenWait` is `DependentsHaveHandles` there, its
`SearchIsComplete` is only model-checked. Out of the prover's reach and left to TLC: everything
about fairness (`ApprovedIsSettled`, `EligibleIsTaken`, `EverySubTaskSettles`, `ProbeDecides`,
`PublicationSettles`, `PausesEnd`, the leads-to parts of `DeliveriesSettleOnce`,
`RequestsEndOnce`, `ChangesSettleOnce` and `JobsEndWell`, `SessionsEnd`, `SlotsEnd`), `ENABLED`;
`FailuresCountedOnce`, a sum over the alerts, whose fold would have to be unfolded by induction;
and `SearchIsComplete`, whose search is recursive (`ProfileSearch`): its correctness is an
induction over the candidates tried.

## 5. Findings

Three runs show where the code and what is written about it part:

- `replay`: a submitting row whose job died is moved to paused by an identity change of another
  comment and is then clicked again (`store.py:1148`).
- `reject`: `reject_submit` takes an uncertain publication as if it were an offered screen and
  pauses it without a verdict; resumed after an identity change, and with another TikTok account in
  its profile, it is approved and clicked again (`store.py:1746`). The other account is needed: a
  freeze refuses the accounts of published receipts, the comment's own included (`store.py:1070`).
- `saves`: a save of a strategy that lost its revision leaves the row alone and replaces the actions
  all the same (`execution_v2/store.py:610`).

## 6. What the models showed besides

Short enough to need no run, or part of a finding above.

Comment Campaign. The executor conditions `begin_comment_input` on a revision that its own
transition has just made stale, so the first pass always stops the batch (`executor.py:637` against
the comment at `store.py:1924`). The first preflight of a campaign fails without pausing it, because
the invalidation refuses generation 0 (`store.py:1121`). The verdict "not published" makes the
comment eligible at once instead of pausing it. An approval of the campaign that is repeated while
its first job starts (`service.py:543`, accepted at `store.py:1821`) reads "queued", and allocates a
newer prepare generation with the old identity generation after the job has made the campaign
running: the job then finds its generation overtaken (`service.py:139`), the new one its identity
generation (`service.py:803`), and eligible comments of a running campaign wait until an operator or
a restart acts. That is why `progress` has no such event. If Redis does not answer when a submit job
wants the lease of its video (`executor.py:396`, before the `try`), the job raises and the approval
stays usable with its RQ id spent: only an operator can reject it. In planning, a template that is
disabled or a profile that stops to suit between a check and its write is still planned and locked,
creation does not look at the template's status again, and metadata of a profile merges by column.

Central. A handle ends its subtask whatever generation and status it has (`dependencies.py:37`).
`reclaim_stale` overwrites a success accepted since it read the row (`leases.py:83`). A queued probe
is dispatched although its account was suspended in the meantime; the subtasks of a task that is
PENDING or MISSED are dispatched. Two overlapping ticks lease one profile twice, or count one
reclaim twice; two operators who requeue one dead letter at once reset a lease granted in between
and have its number granted again (`human_review.py:63`), although
`docs/architecture/modules/business-control-system.md:322` asks for a compare-and-set with every
change of state. Fifty queued subtasks of accounts that are not active keep a later one, of an
active account, from ever being looked at (`assignment.py:29`).

Selector probe. An attempt whose claim timed out lets a second one cancel the event of the
version that is active; after Redis lost its data an old version may be written again, by a pass
that found nothing to claim or, after a second loss, by one that read it before a newer one was
published (`registry.py:422`). Overlapping ticks can keep failing each other; a gate whose alias
is in no bundle is never cleared; an alert is resolved by a run that covers a part of it; new
dependents of an alias get no reason when dependencies are rebuilt; several alerts of one change
share one webhook. The last of `RETRY_SECONDS` is never used; a sweep may fail a row whose fifth
attempt is on its way. A busy answer of run-now may name a request that is never written; a
lapsed reservation makes two requests of one key; run-now answers "deduplicated" for a stale
request of a dead process (`blueprint.py:3881`). If the store refuses the end of a request, the
error is swallowed (`blueprint.py:461`) and the request stays active: every later call finds it
before it comes to the insertion that would let stale requests expire, so run-now stays
blocked. Of the settings, the other page's save may be
lost, a read may judge a living change failed, and a save between a change's write and its
judgement makes the written change "failed". A picker session that is
confirmed after its record has gone from Redis is ended in memory only (`picker.py:846`): its page
stays, and its heartbeat keeps the lease that probe runs need, until the process ends.

Execution V2. Closing a picker or validating twice takes lease and browser from whoever has them by
then; a failed start of a picker or validation is not undone; picker browsers survive the process;
recovery overwrites rows that had succeeded. A job that is cancelled while AdsPower has been asked
for a browser still opens and connects it, and begins its strategy in the profiles bound so far. If
the database refuses to settle a job, or a row of the recovery, the job stays active and no other
can start until the service is started again (`service.py:888`). Deleting an element while a
strategy that uses it is saved leaves a dangling reference; a repick that lost against deletion and
recreation leaves a revision without its element.

Statistics. An exception outside a job, or a second one while the first is recorded, ends the
worker's process (`worker.py:460`). The launcher starts it when it is opened or its button is
pressed (`launcher.py:1113`, `1398`, `1518`) and does not look after it: the run stays "running"
until a person starts a worker again.

## 7. Not modelled

- Page automation, locators, evidence of pages, texts, routes and JSON, the JavaScript agents,
  schema migrations, scripts, the processes of the launcher: I/O or wording, whose outcomes are
  nondeterministic choices of the steps that use them.
- Gateway content and publishing: JSON files read, changed and written back without a lock. Requests
  that overlap lose or repeat tasks, ids that count rows repeat (`content_store.py:301`,
  `publish_queue.py:140`), "processing" is never resumed, and a write is not atomic. There is no
  property of concurrent requests that this code keeps.
- Central's outbox, inbox, relay, import, cycle detection; the owners and heartbeats of the
  campaign's Redis leases; campaign templates' import and publication protocol; element requests.
- Code that nothing calls: the element-request workflow, `migrate_legacy_element`,
  `gates.clear_probe_reasons` and `pause_for_aliases`, parts of `alerts.AlertService`, the
  unconditional `update_access`, `record_login_failure` and `record_login_success` of `AuthStore`,
  `record_full_calibration` and `replace_full_posts` of `StatsStore`, `cancel_validated_version`,
  `upsert_managed_element_projection`, `CampaignStore.replace_assignments`.
- A heartbeat thread that dies because Redis does not answer, and a picker whose Redis does not
  answer (a record that has gone is modelled).
- PROJECT.json says for each component what its modules cover.

## 8. Plan

Every safety property that a run checks is proved, but for `SearchIsComplete` and
`FailuresCountedOnce`, which need induction over data. Liveness stays with TLC.

Still to model: the owners and the expiry of the campaign's Redis leases (now one
flag, `orphaned`), Central's messaging, the launcher's start and stop of processes.
