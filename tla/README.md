# Verification of the dream-im platform

The platform sells Tokens of language models by monthly subscription, lets the
users of the Dream application spend them through an AI gateway, and runs parts
of Dream itself (chat threads, scheduled tasks, story workspaces, connectors).
It is one Next.js server over PostgreSQL. There may be several server
processes; all shared state is in the database and every operation is one or a
few transactions.

This directory has TLA+ modules of the parts where the order of events matters,
configurations that model-check them with TLC, and proofs that TLAPS checks.
`PROJECT.json` lists the runs, the lines of code each definition stands for,
the disagreements found and the hazards the properties are for.

    tlc -workers 2 -config GatewayAccountingSafety.cfg MCGatewayAccounting
    tlapm GatewayAccountingProofs.tla
    tlapm GatewayAccountingRefinement.tla
    (and SubscriptionProofs, CaptureQueueProofs, ScheduledWorkProofs,
    TaskResultsProofs, DreamProofs, AdministrationProofs; the last one takes a
    quarter of an hour)

## 1. The system

State is in PostgreSQL tables unless something else is said. Paths are below
`src/app/lib` unless they start with `src`.

| Component | State | Operations | Hard about it |
|---|---|---|---|
| Gateway accounting (`gateway/repository.ts`, `lifecycle.ts`, `settlement-worker.ts`, `billing/repository.ts`, `subscriptions/gateway.ts`, `token-ledger.ts`) | request rows, allowances (granted, reserved, consumed), Token ledger | preauthorize, mark streaming, settle, mark failed, recover | check before lock, two callbacks of one stream, lost commits, retries, a worker next to the handlers |
| Stream proxy and payload capture (`gateway/proxy-handler.ts`, `bounded-task-queue.ts`) | flags of one call in memory, payload rows | pull, finish, cancel, enqueue, drain | callbacks that interleave at every `await`, a queue at its limit |
| Rate windows (`gateway/repository.ts`, `billing/repository.ts`) | counters for minute, day and month | count at the preauthorization, correct at the settlement | windows of two clocks, order of row locks |
| Subscriptions (`subscriptions/service.ts`, `period-worker.ts`, `product/`) | subscription rows, allowances, events | create, renew, pause, resume, cancel, change plan, advance what is due | stale and repeated commands, a late worker, a database trigger behind the code, one callable row for each user |
| Payments (`payments/service.ts`) | intents, webhook events, adjustments | ask, call the adapter, process an event | a call outside of any transaction, events in any order and more than once |
| Scheduled Chat tasks (`dream/chatScheduledTask*.ts`, `chatThreadRepository.ts`) | tasks, triggers with leases, sessions, messages | edit tasks; claim, prepare, renew, start, finish, reconcile a run | takeover of a lapsed lease, unknown outcomes, late answers, two tasks in one thread |
| Results of task sessions (`dream/taskSessionResult*.ts`, `chatThreadRepository.ts`, grants of `auth/delegationService.ts`) | results, queued inputs, grants of a claim, receipts of empty scans | commit, list, claim, claim next, settle; queue and claim inputs | scans that lock many rows and see their own writes, requests sent again, grants that lapse under a scan |
| Chat threads (`dream/chatThread*.ts`) | messages, titles, histories | append, edit, list | data |
| Dream launches and workflow runs (`dream/workflow*.ts`, `dreamLaunch*.ts`) | preflights with tokens and receipts, runs with their history, launch envelopes | preflight, create, retry, claim and finish a dispatch, activate, fail, cancel | a chain of transactions that may stop anywhere, a lost answer followed by the failure path, keys and tokens sent again, claims that went stale |
| Story confirmation (`dream/storyWorkspaceConfirmationService.ts`, `confirmationGuard.ts`) | messages with a lease, grants of a claim | submit, claim, scan, lease, turn, acknowledge | two answers at once, late dispatchers, a scan in order |
| Reflections (`dream/reflection*.ts`) | a task, its sections, results, bearers, report | create, start, stages, sections, failure, finalization, bearers, report | doubled and restarted workers, rows of an older program, bearers that must end with what they are for |
| Notion connector (`dream/notion*.ts`) | one row with the rule, the selection, the authorization and the last run; snapshots | edit; claim, renew and finish a run | a scan outside of any transaction against changes of what it scans, leases that end between a check and a commit |
| Claude plugins (`admin/claude-plugin-marketplaces.ts`, `dream/claudePluginData*.ts`, references of decks in `dream/deckRuntimeDataRepository.ts`, `deckVoiceRepository.ts`) | marketplaces, runs and revisions of their synchronisation, policies; operations and installations; references of decks | synchronise, approve; plan, report, uninstall, ensure; choose and copy references | approvals that are revoked while Dream installs, a synchronisation that stops or is answered late, copies of decks next to an uninstallation |
| Other Dream operations (`dream/receipts.ts`, `deck*`, `userProfile*`, `memory*`) | bindings, preferences, receipts | one idempotent operation each | replay against changed state, versions |
| Provider credentials (`gateway/managed-provider-credentials.ts`, `provider-auth/`, `admin/provider-managed-auth.ts`) | credentials, attempts, refresh leases, an outbox of revocation jobs | authorize by a device, renew, disconnect, delete, revoke | a refresh token that can be spent once, late answers of the provider, grants that must not be forgotten |
| Authorization (`auth/`) | tokens, sessions, delegations | issue, exchange, revoke | expiry against use |
| Administration (the rest of `admin/`) | configuration tables, audit rows | forms, publishing, price synchronisation | versions |
| Models, provider clients, protocol adapters | none | queries and translations | data only |
| Story sources, artifacts, file storage | files | upload, parse, store | I/O |
| UI, scripts, deployment | none | presentation | - |

How they interact: a client calls the gateway; the preauthorization reads the
subscription and reserves Tokens of its current allowance in the transaction
that writes the request row; the call to the provider runs outside of any
transaction; the settlement moves the reservation to what was consumed. The
period worker, administrators, users and payment webhooks change the
subscription concurrently; they and the gateway meet on rows of
`subscriptions` and `subscription_usage_allowances`. The Dream worker polls for
scheduled runs, and reaches the model through the gateway. Workers are HTTP
routes that something outside calls again and again.

What makes each part correct:

* accounting: Tokens are conserved, never overdrawn, charged once, and every
  admitted request is settled in the end;
* subscriptions: one callable row for each user, one allowance for each period
  that was entered, none for a period that was not, nothing priced for free;
* payments: a payment gives its period once, what is paid back ends;
* scheduled runs: the model is started at most once for a run and only by its
  holder, success is only reported with proof, abandoned runs are taken up;
* launches: a key has one run and a token buys one, whatever is sent again;
  receipts and envelopes tell what the last decision was;
* confirmations: a run is answered once, and a claim that was taken over has no
  effect any more;
* Reflections: the first end of a task or a section is final, and its bearers
  end with it;
* the Notion connector: nothing that was scanned for another selection or
  authorization is accepted, and what the user sees of a run is so;
* results of tasks: one at a time is worked on in a thread, each is put before the
  model once, and it counts as delivered only with its answer;
* plugins: only what is approved, recorded and sound is installed, to the end; what
  was ended or disabled stays so; decks enable only what is ready;
* credentials: no grant that the provider honours is forgotten, none in use is
  revoked, no late answer revives an account.

## 2. The modules

| Module | Of | Composed with |
|---|---|---|
| `TokenAccount` | what the accounting promises: an abstract account in periods | - |
| `GatewayAccounting` | the Token accounting of one user | `INSTANCE TokenAccount` through a refinement mapping |
| `GatewayAccountingProofs` | its theorems | extends it |
| `GatewayAccountingRefinement` | that it implements `TokenAccount` | extends `GatewayAccountingProofs` |
| `CaptureQueue`, `CaptureQueueProofs` | the callbacks of a stream and the bounded queue of captured payloads; theorems | - |
| `ScheduledTriggers` | scheduled tasks and their runs | - |
| `TaskResults`, `TaskResultsProofs` | results of task sessions, their claims and grants; theorems | - |
| `NotionSync` | the Notion connector and its runs | - |
| `ScheduledWorkProofs` | theorems about scheduled runs and about the connector | extends `ScheduledTriggers` and `NotionSync` |
| `SubscriptionLifecycle` | the subscriptions of the users | - |
| `SubscriptionPayments` | payments for them | extends `SubscriptionLifecycle` |
| `SubscriptionProofs` | theorems about both | extends `SubscriptionPayments` |
| `CycleCalendar` | the calendar `SubscriptionLifecycle` counts in months | - |
| `ProviderCredentials` | OAuth accounts of providers, their renewal and revocation | - |
| `ClaudePlugins` | a package of plugins: its marketplace, its installations and the references of decks | - |
| `AdministrationProofs` | theorems about the credentials and about the plugins | extends `ProviderCredentials` and `ClaudePlugins` |
| `WorkflowRuns` | the row of a workflow run and its history | - |
| `DreamLaunch` | how a run comes to be and is dispatched | extends `WorkflowRuns` |
| `StoryConfirmation` | how the output of a run is answered | extends `WorkflowRuns` |
| `ReflectionTasks` | one Reflections task | - |
| `DreamProofs` | theorems about runs, launches, answers and Reflections | extends `DreamLaunch`, `StoryConfirmation`, `ReflectionTasks` |
| `MCDream` | launches, answers and Reflections, over the same runs | extends `DreamLaunch`, `StoryConfirmation`, `ReflectionTasks` |
| `MCGateway`, `MCScheduledWork`, `MCSubscriptions`, `MCAdministration` | two components in one instance, of which one moves | extend both |
| the other `MC*` | instances for TLC | extend the module of their name |

Where an instance holds components that share no row, a variable `part` says
which of them moves; the other keeps its initial state. The set of states is the
union, not the product.

A property's counterpart with a suffix `Mutant` is a definition with a
plausible bug in it; nothing uses it, and PROJECT.json names the property that
finds the bug when it is put in.

### GatewayAccounting

One user; users share no row of this component. A process is a callback of an
HTTP handler or a run of the settlement worker; `pc` is where it is, `job` what
it keeps in its local variables. A transaction is one action, unless it reads
something before it has its locks or acts later on what it checked: the
preauthorization is split between the eligibility check (unlocked read of the
allowance, `BeginEligible`) and the reservation (`BeginReserve`, `BeginLimited`,
`BeginFails`), the settlement between its first read (`SettleRead`), the lock of
the account (`SettleGate`) and the writes (`SettleCommit`, `SettleIdempotent`,
`SettleFails`). `lock` is the advisory lock of `account-lock.ts`. A commit whose
acknowledgement is lost is the second half of `SettleCommit`. `MarkKnown` and
`MarkUnknown` are `markGatewayRequestSettlementFailed`, with the swallowed
failure; `Worker*` is `settlement-worker.ts`. `Cancel` gives the cancel callback
of a stream a process of its own. `Renew`, `Grant` and `ChangeCallable` are what
the other components do to the subscription.

Amounts are Tokens; `Estimates` and `Usages` include usage below, at and above
the estimate. Left out: rate windows except that they may refuse
(`BeginLimited`), the branch of cash balances and money allowances, claims of
image turns.

### CaptureQueue

One streamed answer. `pull` and `cancel` say at which `await` each callback of
`proxyStreaming` is; `terminal` and `cancelled` are the flags they share;
`tail`, `pending` and `waiters` are the fields of `BoundedTaskQueue`; `row` and
`recorded` are the payload with its capture status and its events. A step is a
turn of the event loop, from one `await` to the next. A waiting producer that
gets a slot goes on in the microtask queue of the same turn, so `Release` hands
the slot over and resumes the producer in one step; an `emit` waits for the
image observer, and where there is none two emits belong to one turn, which only
takes interleavings away. The start and the completion of a payload and each
event are tasks; a task fails before or after its first statement, and its
error handler may fail too (`Fail`). `Catch`, `Reject` and `Throw` are where an
error goes: to the catch branch, or out of it. Settlement and routing are
abstracted to done or failed; what they do is in `GatewayAccounting`.

### ScheduledTriggers

`task`, `trig`, `session` are the rows; `started`, `final`, `writing` the turns
the model was started for and the answers that are stored or on their way. Each
operation of `chatScheduledTaskService.ts` is one action. A holder of a claim is
known by the claim's number alone, and every claim ever handed out may be used
at any later time: that is a worker that is late, repeats a call, or has been
replaced. The clock is abstracted to events: a lease loses a unit, a task or a
recheck comes due. Left out: the calendar of the recurrence, skipped ranges,
the contracts v1 and v2, request receipts.

### TaskResults

`result`, `claimKey`, `bearer`, `queue` are the rows; `finals` counts the final
messages with a claim's turn and `technical` the inputs written for it. A claim
is a transaction that locks rows one after the other, so it is several actions
(`StartScan`, `Take`, `Enter`, `Commit`): `call` has the rows and the advisory locks
it holds and its draft, which only it sees (`Seen`) until it commits; it may be
undone at any point (`Undo`). A request that is sent again is another call with
the same `RequestOf`. `CanEnter` and `KeyFree` are the two advisory locks, `Unlocked`
the row locks, `Collides` the unique index of dispatching rows, which the
properties say is never met. A grant lapses, and a renewal that found it alive by
the clock of the server may be written after that (`GrantMoves`). Left out: texts,
audit, the creation of task sessions, revisions and ids that say no more than the
status; the two reconciliations at the head of a scan are one action with the
locks of both.

### SubscriptionLifecycle

`subs`, `allowances`, `events` are the tables. Time is in months, which
`CycleCalendar` justifies; period `n` of a row anchored at `a` is
`[a + n, a + n + 1)`. A command names the version its sender has read
(`Send`), arrives at any later time and any number of times (`Execute`,
`ExecuteCreate`, `Replay`); a user's command passes the check in
`executeProductSubscriptionCommand` first, in a transaction of its own
(`Evaluate`), and is addressed to whatever row of the user is callable then
(`Addressed`). `Write` is an UPDATE with its event and allowance and goes through
`TriggerAccepts`, the trigger of migration 0024. `exact` says whether the stored
boundaries are whole milliseconds: the provisioner (`Provision`, migration 0025)
stores microseconds, JavaScript dates lose them. A call of the worker keeps the
time it started at (`runs`) between its transactions. `held` are rows that other
open transactions have locked, which the worker skips. `Scheduled` are rows an
older version left in `cancel_at_period_end`, a status nothing sets any more.
Left out: Token grants, drafting and publishing of versions, the limit on the
number of rows of one call, refusals (they change nothing).

### SubscriptionPayments

Extends the above with intents, the provider, and `processPaymentWebhook`. The
three stages of `createProductPaymentIntent` (transaction, call of the adapter,
transaction) are separate actions, and may fail or stop between any two
(`CallFails`, `Crash`). A webhook is one transaction that is undone if it
throws, so a webhook that throws is no action. The provider reports each type
of event at most once for an intent, a repetition being the same event. Left
out: amounts and the rejection of a wrong one.

A payment's command has the key `payment:<provider>:<event>:renew` or `:activate`
(`payments/service.ts:554`, `:564`), and a key that is used is a command that has
been carried out. The key of a user's command is a hash, that of an administrator
any text of 8 to 128 characters; `KeyAssumption` says that nobody has typed in one
of a payment's form. With such a key the payment would be taken and its command
skipped.

### CycleCalendar

`cycle.ts` with dates as year, month, day and time of day.

### TokenAccount

The abstract specification of the accounting: a period has Tokens, a request
holds some of them once, is charged once, from the period it held them in and
never for more than that period has left, or is refused. `GatewayAccounting`
maps a request's row to an entry of the account (`EntryOf`): unsettled rows hold
their reservation, settled rows paid their charge. Its processes, locks, lost
commits, recoveries and crashes are all stutters of the account, or one of its
four actions (`ImplementsAccount`).

### ProviderCredentials

A process is one HTTP request; each of its transactions, and each answer of the
provider, is a step of its own (`Claim*`, `Refresh`, `Persist`, `PollDevice`,
`Connect`, ...), so another request, a crash or the end of a lease comes between
any two. A grant is what the provider issued and has to revoke; the encrypted
bundle of a row is the grant it holds. `jobs` is the outbox, keyed as its unique
index keys it: by the row the grant came from, its revision and the reason.
`Lapse` is the clock at a lease, `Crash` the end of a request, `EnqueueFails`
the failure of the transaction that stores a job. Left out: the cipher, API
keys, the choice among legacy bindings.

### ClaudePlugins

One package of one marketplace; a version of it is its digest, and a commit of
the remote repository carries one version. A synchronisation has a transaction
before it fetches the repository (`RequestSync`), one after (`RecordRevision`),
and one that marks a failure (`MarkSyncFailure`), which a lost acknowledgement of
the second one reaches as well (`told`); it may stop in between (`StopSync`).
Dream plans an installation, works on it, and reports: `EvidenceHolds` reads what
is offered again when the report comes. An installation is never deleted, so one
that was uninstalled can be revived (`Installed`). What ships with the platform
is ensured and reported by the service, which gives it to the decks whose
releases declare it (`Reconciled`). Decks are chosen for, or copied from:
`BeginCopy` reads the references of the source, `EndCopy` inserts them, and
"copied" marks an enabled reference that came this way, which the table does not.
Left out: the inspection of a repository, phases, progress and reasons of an
operation, the creation and the deletion of decks, voices, draft revisions.

### WorkflowRuns, DreamLaunch, StoryConfirmation

`WorkflowRuns` has the compare-and-set that every change of a run is, with the
transition it appends. `DreamLaunch` adds the chain of transactions of one
preflight (`StagePasses`, `Pass`, and the failure path, which a lost answer of
the last commit also reaches), the token (`Buy`), creation and retry, and the
dispatch under a claim that is fresh for a while. The receipts of create, retry,
claim and finish replay what they stored; only the receipts of preflights, which
other transactions consult, are state. `StoryConfirmation` adds messages in the
order they were accepted, the scan over them, leases, grants and turns.

### ReflectionTasks

One task. Every operation of a worker locks the row of the task first, so each
is one action; workers have no names, because nothing in the code binds a task to
one after it was adopted, so any of them, late or doubled, may call anything.
Initial states include what an older program may have left: a task in any
status without a service, rows or snapshot. A bearer ages in two steps, past its
short and past its maximum life. Left out: stored events, texts, revisions other
than the current one (they are refused before anything changes).

### NotionSync

One connector; every writer locks its row. The operations of a run read the
clock of the database when they have the lock (`Begin*`) and again before they
commit (`Commit*`), with time between. `keys` are the runs the workers know to
be theirs: an answer may be lost, a process ends, and a key may be used at any
later time. A key carries what the worker scans (`scope`) and how often
selection or authorization had been written when it was claimed (`seen`), which
no code compares; the properties do. Left out: the deletion of the connector,
links to Chat threads, the pages of a snapshot, `next_sync_at` and
`last_attempt_at`, revisions of the rule that are refused. A person who is not
active any more is a call that is refused or an `Abort`; `cancelled` does to the
row what `failed` does.

## 3. The runs

Every bound is a CONSTANT and named in its module.

| Run | Shows | Bounds, and why they are enough |
|---|---|---|
| `accounting_safety` | conservation, no overdraft, single charge, ledger (`BooksBalance`, `NoOvercommit`), the unlocked check (`EligibleStaysFunded`), finality, known usage is kept, and the refinement `ImplementsAccount` | two requests (one of images), two callbacks, two worker runs, two periods, a grant and one fault or crash: every pair of processes can meet on one row, and on one allowance from two rows |
| `after_the_answer`, settlement | the worker settles what failed (text requests) | two requests, two faults |
| `after_the_answer`, capture | bound, order, whole captures, close after completion, callbacks return | a queue of two (two producers can find it full, one can find it full twice), three events of up to two outputs, two faults: an event and its error handler, or two of the same stream |
| `capture_cancel` | the disagreement below | no fault, a queue of two |
| `scheduled_work`, triggers | one start for a run, sound takeovers, proof of success; abandoned runs are taken up, answers found | one run handed out three times, two turns, leases of two units: holder, replacement and their late calls |
| `scheduled_work`, Notion | the policy tells the run and the last snapshot is sound (`NotionIsSound`), late calls change nothing, abandoned runs are replaced | two sources, two workers, two versions of a snapshot, three claims, two changes: the selection can be changed and changed back, a worker can be replaced twice; lease and interval of two units, so each can end before, at and after a commit |
| `task_results` | one dispatch in a thread, one input for each claim, one answer for each request, delivered with its answer (`ResultsAreSound`); no result is handed out twice or taken from a living owner (`HandoffsAreSafe`) | two results of one thread, three calls, two of them one request: a scan can meet its repetition and a claim of the row it holds; an input, two answers to a turn, two grants |
| `triggers_tasks` | one open run for each thread | two tasks in one thread |
| `subscriptions_safety` | one callable row, one allowance for each period entered, every change an event and a version (`TablesAreSound`, `AllowancesAreJust`), boundaries move by renewals only; and the calendar (`CalendarIsExact`) | one user (rows of two users never meet: their only common key is the user), two rows in succession, any two commands, three months, locks; for the calendar, days at which months differ, in a leap year and not, delays up to two years |
| `subscriptions_worker` | due rows are advanced (without the provisioner, see section 4) | two users, two overlapping calls, a row that stays locked |
| `payments_run` | a payment gives once, the period it was made for, at most one under way; what is paid back has ended | two intents for one subscription or for two in succession, three reports of the provider of any type in any order (`FewReports`): two of one intent around one of the other; a command and the worker over three months |
| `administration`, credentials | no grant is forgotten, none in use revoked, rows tell the truth, late answers are fenced | two requests at a time on one provider, an account to begin with and two more grants, an authorization attempt, one crash or one lease that ends, one failed revocation tried again; a grant can be rotated, replaced and late at once |
| `administration`, marketplace | the rows agree (`PluginsAreSound`); what is revoked, ended or disabled stays so (`PluginStepsAreSafe`) | three commits, two of them sound and of different versions, two synchronisations, two operations: one can be planned, ended or late for what the other one changed |
| `administration`, decks | the same | an approved package that stays so, two spellings, two operations, two decks that copy from each other: installed, uninstalled, revived and reconciled around a copy |
| `dream_runs`, launches | histories explain rows; a key has one run, receipts and envelopes tell the decision (`LaunchesAreSound`) | two keys, two preflights, two runs, two requests, two claims: everything twice, once to win and once to be late |
| `dream_runs`, answers | a run is answered once, late claims are fenced | two answers of one run and one of another, two dispatchers |
| `dream_runs`, Reflections | bearers follow sections, the status tells the sections, first ends are final | two sections (mixed outcomes), two bearers for each, one result and one turn |
| `story_head_of_line` | the disagreement below | the same instance of the answers |

Reductions. Requests, claims, keys and the two answers of one run are
interchangeable in `dream_runs` (symmetry), requests in `administration`, grants and
the calls of one request in `task_results`, and rows whose generated id does not
matter are used in one order (`InOrder`). The launches there make no output,
because what an output does to a run belongs to the answers. No liveness
property is checked under symmetry.

Deadlock checking is off where users simply may stop asking
(`ScheduledWork`, `ScheduledTriggers*`, `Subscription*`, `ProviderCredentials*`,
`Administration`, `ClaudePlugins*`, `DreamRuns`, `StoryConfirmation*`, `TaskResults*`) or a stream is
over (`CaptureQueueCancel`, `Gateway`), on for the safety of the accounting, which cannot stop because a new call may
always arrive.

Fairness. Accounting: the server finishes calls it has started, a provider call
ends because it has a timeout, the worker route is invoked again and again
(weak fairness of each process). Scheduled runs: the Dream worker polls, an open
transaction ends; nothing is assumed of holders of claims; strong fairness of
`TakeUp` says that a run is not overlooked forever because other work was found
in every single poll. The Notion connector: time passes, a transaction ends, and
some worker polls for connectors that are due; strong fairness of `CommitClaim`
says that a claim that is tried again and again is not slower than its own lease
every time; nothing is asked of a worker that has a run. A stream: what a
callback or a task awaits comes (the database answers or fails, the idle timer
ends the wait for the provider); the client need neither read nor cancel.
Subscriptions: the worker route is called again and again and its transactions end; nothing is assumed of clients, of the clock or of
transactions that hold a row.

## 4. What disagrees

Two of the runs end in a counterexample; `PROJECT.json` quotes the sentence of
the repository that each one refutes.

* `capture_cancel`: a client that cancels while `pull` already ends or fails the
  stream leaves a payload that is never completed.
* `story_head_of_line`: a confirmed run that fails or is cancelled leaves its
  message where every scan meets it first and throws; what was accepted behind it
  is claimed by no scan any more.

Four more findings are listed there without a run; a kept configuration shows
each: `TaskResultsRenewal` (a result leaves "dispatching" while a grant of its
claim is active, because the grant was renewed after it had lapsed under the scan), `GatewayAccountingLostMark` (one failed database call while unknown usage
is being recorded leaves a reservation that nothing releases),
`ClaudePluginsUninstall` (a deck that is copied while a plugin is uninstalled
keeps an enabled reference to it, which uninstalling again does not repair) and
`ProviderCredentialsRetry` (a failed revocation of a grant that was never
connected cannot be retried, and keeps its provider from being deleted).

Further configurations, which are not among the runs, give a counterexample for
each of the statements at the end of `GatewayAccounting`, `ScheduledTriggers`,
`TaskResults`, `SubscriptionLifecycle`, `SubscriptionPayments`, `ProviderCredentials` and
`ClaudePlugins`:

| Configuration | The statement and what the code does |
|---|---|
| `GatewayAccountingHeadOfLine` | `settlement-worker.ts:51`, an old request is consumed after the grace window: an image request that cannot be captured in full is always the oldest candidate and keeps the others waiting |
| `GatewayAccountingLostMark` | `lifecycle.ts:124`, the record stays available for an automated recovery: the worker does not select it |
| `ScheduledTriggersPrepareAgain` | `chatScheduledTaskService.ts:769`, a run can be prepared again before its start: not one in the source thread, whose message has the claim in its metadata |
| `TaskResultsRenewal` | `admin-dream-task-result-handoff.md:65`, a claim is left alone while any grant is active: not when the grant is renewed between the read of the scan and its commit |
| `TaskResultsCircle` | calls do not wait for the locks of each other: two scans that passed by a thread each keep its lock (`taskSessionResultRepository.ts:194`) and may wait for the other one's; PostgreSQL ends one |
| `SubscriptionLifecycleDisagreements`: `OnlyRenewalRewritesBoundaries`, and `SubscriptionLifecycleHeadOfLine` | `subscriptions/.folder.md:9`, only a renewal rewrites boundaries, and `period-worker.ts:34`, a failure rolls back only its subscription: the worker writes boundaries back with the precision of JavaScript, so a row of the provisioner that is paused or has a priced change pending cannot be advanced and is the first one of every call |
| the same: `AppliedIsReplayed` | `01-subscription-experience.md:172`, a repeated cancellation gives the same result: it is refused for the version the first one has changed |
| the same: `CommandReachesItsRow` | `03-subscriptions.md:136`, a changed version is a conflict: a command for an ended row can reach the next row of the user |
| the same: `CancelKeepsAccess` | `product/service.ts:1063`, access continues to the boundary: the row is cancelled at once |
| `SubscriptionPaymentsDisagreements`: `RefundedIsFinal` | `04-payment-adapter-states.md:30`, refunded is final: a late report of a failure overwrites it |
| the same: `PaidCanBeRevoked` | `08-payment-adapter-and-webhook-boundary.md:34`, a refund writes its adjustment: not for an expired subscription |
| the same: `SuccessIsServed` | the same, line 33, a success is stored with its subscription: not if it comes before the external id is saved |
| `ProviderCredentialsRetry` | `provider-auth/.folder.md:9`, a failed revocation can be retried: not one of a grant that could not be connected |
| `ClaudePluginsUninstall` | `docs/task/claude-plugin-data-provider-plan.md:32`, an uninstallation disables all references of decks: not one that a copy has read and inserts afterwards (`deckVoiceRepository.ts:87`) |
| `ProviderCredentialsSecondRejection` | `NoGrantIsForgotten` for a provider that renews a spent refresh token: the second refused renewal of one revision finds the job of the first in the outbox (`revocation-jobs.ts:195`) and the newer grant is in none |

Read in the code and not shown by a run:

* `gateway/proxy-handler.ts:267`: the catch branch of a plain call finalizes
  without the usage it had, when recording the known usage failed.
* `gateway/repository.ts:368`: a settlement may correct a rate window other than
  the one the preauthorization counted in, when the minute has passed.
* `payments/service.ts:353`: a server that stops between the insertion of an
  intent and the saving of its external id leaves the intent as it was created;
  `:242`: two first payments of one user are both taken, and the second one meets
  the unique index at every delivery.
* `dream/workflowPreflightExecutionService.ts:109`: a server that stops in a
  preflight leaves its row in `checking` for ever - only passed rows expire - and
  a later request with the same goal is given that row. The documentation says
  that an orphan is not resumed (`docs/architecture/.folder.md:109`), so this is
  modelled (`Stop`) and no property speaks against it.
* `dream/storyWorkspaceConfirmationService.ts:194`: a submission locks the run,
  then its message, a claim the message, then the run;
  `dream/reflectionTaskAuthorityService.ts:97`: the use of a bearer locks its row
  before those of the task, an operation of the task afterwards. PostgreSQL ends
  one of two that wait for each other.
* `dream/reflectionTaskAuthorityService.ts:64`: a revocation that is followed by a
  throw in the same transaction is undone with it.
* `dream/taskSessionResultRepository.ts:194`: the check of the input queue and the
  insertion of an input (`enqueueInput`) hold different locks. The capability is
  kept for compatibility and no present caller uses it. `:197`: an input whose
  outcome is unknown blocks every result of its thread, and nothing ends it.
* `admin/claude-plugin-marketplaces.ts:1336`: a synchronisation whose process stops,
  or whose failure could not be marked (`:1555` swallows that), leaves its run
  "running" for ever, and every later one is refused; one whose last answer was
  lost has succeeded, and its marketplace is shown in error (`:1290`).
* `dream/claudePluginDataService.ts:233`: what ships with the platform is looked up by
  the spelling that installed it; ensured under another spelling it is planned
  again every time, and the installation, found by its digest, keeps the first.
* `dream/dreamLaunchDispatchService.ts:105`: the launch of a run that has ended
  can be claimed again.
* `auth/delegationRepository.ts:82`: a shared lock of a grant that becomes an
  exclusive one, which two requests can wait for at once.
* Notion: a run that a user asked for while the rule is off, and whose worker is
  gone, stays "running" until a user asks again, which is why
  `AbandonedIsReplaced` excludes a rule that is off; a failure is followed by no
  back-off, and a changed selection is scanned when the next run is due.

## 5. What is proved

`GatewayAccountingProofs`, for any number of requests, handlers, workers and
periods, and any amounts, from `SetsAssumption` and `NumbersAssumption` alone
(the requests are finite, requests and processes are distinct, amounts are
natural numbers).

The safety properties are not inductive by themselves. The proof has four
layers, each inductive together with the ones before:

1. `TypeInv`: `TypeOK`, and a process that is not idle works on a request.
2. `GateInv`: who is inside the gate holds the account lock, so there is one;
   what it saw of the subscription is still so because it holds the row; and
   `reserved + consumed <= granted`. This is what makes the unlocked check
   sound: Tokens are only taken by processes inside the gate.
   `NeverOvercommitted` and `EligibleAlwaysFunded` follow.
3. `BooksInv`: the columns are the sums over the rows, and the ledger follows
   the status of its row. The sum over a set of requests is the cardinality of
   a set with one element for each Token (`TokenUnits`), because induction over
   the requests is out of the prover's reach; the lemmas `Units*` say how it
   changes when one request is added, removed or left alone. From it follow
   `ReservationsAlwaysAccounted`, `ConsumptionAlwaysAccounted`,
   `LedgerAlwaysTellsAll`, and with them that open rows can settle and that a
   reservation covers itself.
4. `UsageInv`: who may still write the usage of a request agrees about it. While the
   call is under way its handler is alone with the request (`OneCaller`); when the
   client leaves, the two callbacks have the same usage (`ReportsAgree`); the
   worker only comes to rows that are not in flight any more (`WorkersComeLate`);
   and whoever is about to settle a row with persisted usage has that usage at
   hand (`ReportsMatchRow`). `PersistedUsageAlwaysSurvives` follows.

`TerminalRowsAreFinal` is an action property and needs the types only, with the
second read of the row under the lock.

`GatewayAccountingRefinement` proves from the same invariants that every step of
the accounting is a step of `TokenAccount` or changes nothing of it
(`AccountingImplementsAccount`). `SameTokens` is the bridge: by `BooksInv` the
reserved and consumed columns of an allowance are the Tokens the abstract
account says are held and paid, so that what the code sees as available is what
the account has free (`SameFree`). After that a step changes one entry in
a way the account allows, grants Tokens, or is not seen.

`SubscriptionProofs`, for any users, rows, versions, keys, calls of the worker,
intents and length of time, from `SubscriptionAssumption`, `NoneIsNoRow`,
`PaymentAssumption`, `NoneIsNoIntent` and `KeyAssumption`.

* Subscriptions: a step that writes makes a row (`Creates`) or writes a successor of
  one (`Changes`), and what a successor may be is said once (`Follows`), with a lemma
  for each function that computes one. `SubInv` is proved for the two kinds: the unique
  index is about rows and not yet about users (`Alone`), the current period of a row
  has one allowance (`Funded`), and each allowance goes back to one event
  (`Accounted`, `Backed`). `TablesAlwaysSound` and `AllowancesAlwaysJust` follow.
  `BoundariesAlwaysKept` is about the steps: a change also says at which instant
  it believes to be (`KeepsBoundary`, `Instant`), which is the present for a command
  and the start of its call for the worker.
* Payments: the steps are of the same two kinds, or note an adjustment (`Notes`), so the
  properties of the tables are kept (`PaymentsKeepTablesJust`). `PayInv` adds what an
  intent and its row know of each other. A renewal was made for a version of the row,
  and as long as the row has that version it asks to be paid for that very period and
  plan (`RowsSeen`);
  an event of the tables with a payment's key is that payment's (`KeysTell`), which is
  where `KeyAssumption` is needed; an intent whose payment was taken is settled and so
  is not paid again (`TakenIsSettled`); an adjusted row has ended, and a row that has
  ended does not change (`AdjustedHasEnded`, `Grows`). With that a payment that is taken
  has its event and allowance, and the converse (`TakenIsGiven`, `GivenIsTaken`):
  `PaidIsAlwaysGiven`. `PaymentsRenewTheirPeriod` follows from `RowsSeen`.

`CaptureQueueProofs`, for any capacity, any answer and any number of failures,
from `QueueAssumption`. The types and the bound (`CaptureTypes`,
`CaptureIsBounded`, `QueueAlwaysBounded`) need two things to be inductive:
`pull` closes only in a phase that is an end of a payload, because the phase
becomes the status; and who waits has found the queue full and it still is,
because a slot is handed over and never freed while someone waits. That a capture
marked complete holds every event in order (`CaptureAlwaysTruthful`) and that
nothing is recorded after a completion (`CompletionAlwaysLast`) are about what is
recorded and what still stands in line, read as one sequence (`LineInv`, `WaitInv`,
`RecordInv`): the start is first, the events follow in the order in which they
were sent, none is missing unless the flag of a failure says so (`FlagInv`), and
completions are last; so what is taken from the head of the line may be put behind
what is recorded.

`ScheduledWorkProofs` is about scheduled runs and about the Notion connector, for
any tasks, threads, workers, leases and bounds, from `TriggersAssumption` and
`NotionAssumption`.

The row of a trigger, the session of its thread, its answers and the starts of the
model agree in one formula, `Row`. Every step does one of two things to a run: it
takes back nothing of what the run belongs to, how it ended and which turn was bound
to it (`Keeps`), or it inserts the run (`Starts`), of a task that is there and next to
no open run of its task or thread. A claim changes up to three runs in one
transaction: `Kept` says the first of all of them at once. `StepHolds` concludes from
that to the invariant and the action property, so that `RunsAreOneThing`,
`ThreadsHaveOneRun` and `TakeoversStaySafe` follow together; in particular no two
runs are open in a thread, because a run that is open after a step was open before or
was inserted by it.

The second half of `ScheduledWorkProofs` is `NotionAlwaysSound` and
`LateRunsAlwaysFenced`. The code compares revisions and never what was scanned with
what is selected, and it compares them when it has the lock and not when it commits.
That this is enough needs two additions (`KeysSee`, `LockHolds`): the keys of the
present epoch have seen the present selection and authorization as long as its run
goes on, because whatever writes those ends the run; and while an operation has the
lock nothing but time touches what it has read. A third one (`LegacyBars`) says that
a scan without an owner bars every claim, and that no run of this program can be
mistaken for one.

`TaskResultsProofs`, for any results, threads, calls, requests and inputs, from
`ResultsAssumption`: `ResultsAlwaysSound` and `HandoffsAlwaysSafe`. What must be added
is what a transaction that is still running knows of the committed rows. What it
has written it has locked, and was written on what is committed now (`Written`); a
claim it has written holds the advisory lock of its source thread, so that no other
result of that thread can be dispatched before it commits; and its request has no
other answer (`Placed`). The unique index `Collides` is never met because of the
second one.

`DreamProofs` is about launches, answers and Reflections, for any runs, requests,
preflights, keys, claims, confirmations, dispatchers and sections, from the
assumptions of their modules (among them `NoneIsNothing`: None is neither a run nor
the answer of a preflight).

* Runs (`WorkflowRuns`): a history tells its row (`Tells`: the transitions are
  numbered, follow one another along the edges and end at the status of the row),
  and every operation that touches a run moves it along the edges, one or several in a
  transaction, appends each, and leaves the other runs alone (`Moved`). `LaunchedHistoryTells` and `AnsweredHistoryTells` follow for the
  two specifications that change runs.
* Launches (`LaunchesAlwaysSound`): `LaunchInv` has a part for each table. `PreInv`
  says that a preflight has one owner, whose receipt is the decision of the row, that a
  goal has one open row, and that one that was not inserted has bought nothing; `BuyInv`
  that a key has one run; `SendInv` for a run of which source the last claim was issued.
* Answers (`RunsAlwaysAnsweredOnce`, `LateClaimsAlwaysFenced`): `ConfirmInv` relates what
  was accepted to the messages and to the confirmations in the histories.
* Reflections (`BearersAlwaysFollow`, `TasksAlwaysTell`, `FirstWriterAlwaysWins`): rows of
  sections, and a snapshot, are there exactly when a service has taken the task, so
  that what an older program left gets all its rows at once and from its results; a
  section that is not completed counts nothing; and in a task that has ended no
  section is left that could still end.

`AdministrationProofs` is about the credentials, from `CredentialsAssumption`, and the
plugins, from `PluginsAssumption`.

Credentials: for any number of requests, providers, attempts, grants, crashes and
lapsed leases. `CredInv` adds to the properties

* what a request remembers between its transactions and is still so: the job it
  works on is in the outbox, the attempt it polls was made (`ProcsKnow`); what is
  renewed is the row of its provider, and as long as the row has the revision the
  request has read, it holds the grant the request has read (`RenewalsAre`);
* that a grant is at one place: a row, a request that carries it, or the outbox
  (`GrantsAre`), from which `InUseIsNeverRevoked` follows;
* that an attempt is granted once (`PollsAre`), and that a key of the outbox names a
  revision, or an attempt, that is over (`KeysAre`), which is why the job of a
  disconnection or a replacement never meets an older one and is not dropped.

There is one lemma for each step, and one (`RowsChange`) for what connecting and
disconnecting have in common: rows are rewritten with the next revision and epoch,
one of them may give its grant to the outbox and one may take the grant the request
carries. Parts a step cannot disturb are kept by frame lemmas (`*Kept`,
`CalmHolds`). `NoGrantIsEverForgotten` has the hypothesis `RotationSpends`: the
provider refuses a refresh token that was rotated. Then of two requests that renew
one revision at most one gets a new grant (`OnceSpent`), so a refused renewal finds no
job of its key. Without it the property is false: `ProviderCredentialsSecondRejection`
is the counterexample.

Plugins: `PluginsAlwaysSound` and `PluginStepsAlwaysSafe`, for any commits, versions,
requests, operations and decks. What must be added (`PInv`): a synchronisation that
fetches still has its run, and one that writes has a commit, so that a run only ends
by what was recorded (`SyncsKnow`); and what a copy has read was installed once, and
still exists when it is inserted because installations are never deleted
(`CopiesKnow`). The marketplace is seen by the installations only as revisions that
are added (`MarketFrame`), which is why a lineage stays sound whatever is revoked
later.

Model-checked only: every liveness property (the prover has no rule for fairness),
and `CalendarIsExact` of `CycleCalendar` (division and remainders by months and leap
years, over dates). Every other property of a passing run is stated by a theorem.

## 6. Plan

Done: the accounting with its proofs and the abstract account it implements;
subscriptions and payments with their proofs, and the calendar; the
capture queue, scheduled runs, results of tasks and the Notion connector with their
proofs; launches, runs, confirmations and Reflections of Dream with theirs; provider
credentials, and marketplaces, installations and references of Claude plugins with
theirs. What would come next:

1. `RateWindows` (minute, day and month counters, lock order, two clocks) and
   its composition with the preauthorization.
2. `ImageTurns` (claims and receipts), the input queue of Chat beyond its results.
3. The reviews, the guidance and the catalogue of story workspaces; bindings and
   controls of decks (`DeckBindings`).
4. Grants, publishing of plans, the money branches of the accounting; the
   composition of `SubscriptionLifecycle` with `TokenAccount` in place of the
   grants and periods that `GatewayAccounting` takes as given.
5. Proofs: that composition as a second refinement of `TokenAccount`.

## 7. Not modelled

Of components that are modelled:

* Accounting: rate windows (they may refuse a request, no more), cash balances
  and money allowances, claims of image turns.
* Scheduled tasks: recurrences, skipped ranges, contracts v1 and v2.
* Subscriptions: grants, plans and versions as documents; payments: amounts.
* Dream launches: `workflow-run.start` needs a session in status "creating",
  which nothing leaves so; nothing under `src` sets the statuses "completed" and
  "rejected"; materializations of plugins; what the checks of a preflight read;
  the deletion of threads. The length of a lease is abstracted to a step of its
  own that may come at any time.
* Story workspaces: reviews, guidance, catalogue, index of artifacts.
* Reflections: stored events, what `ensureWorkspacePath` updates, revisions that
  are refused; an older program's task that has not ended is taken to have no
  results (`insertMissingSections` would count such results as zero, and nothing
  under `src` says whether such a task has any); ordinary Chat may write into the child thread of a section as well.
* Notion: what is listed with the module above.
* Claude plugins: what is listed with the module above.
* Credentials: the cipher, API keys, the choice among legacy bindings.

Components without a module: rate windows, image turns, the chat input queue, bindings and voices of decks, delegations and the rest of
administration (in the plan
above as far as they have an order of events worth checking; most of
administration is forms over single rows with a version); user data of Dream
(single rows of one user, one transaction each); translations between protocols,
model queries, parsing, file storage, the user interface, scripts and
migrations, which keep no state of their own or are data and I/O only. They are
the larger part of the repository's lines, which is why the map covers a small
share of it.
