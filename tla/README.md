# Verification of the SignalSync backend

TLA+ models of the SignalSync backend (`src/src/app`, `src/alembic`), the TLC runs
that check them and the TLAPS proofs about them. SignalSync is a trading journal
with a copy-trading engine: messages of Telegram channels become trade intents that
workers execute on users' broker accounts through MetaApi. Copy trading comes
first, because that is where processes, threads, Redis, the database and an external
broker meet and where a mistake costs money; the accounts, sessions, subscriptions
and the database schema around it follow.

Paths below are relative to `src/src/app/domains/copy_trading/` unless they
start with `domains/`, `core/`, `tasks/` or `docs/`.

## 1. The system

| Part | State | Operations | Who it meets |
|---|---|---|---|
| Keyed serial executor (`delivery.py`) | per-key queues, a thread pool | `submit`, `_drain` | the stream worker's main loop submits, pool threads drain |
| Redis stream worker (`worker_runtime.StreamWorker`, `streams.py`) | stream entries, the group's pending list, dedupe keys, dead letters | publish, read, claim stale, process, retry, dead-letter, acknowledge, replay | every producer (router, signal handler, sweeps) and every handler |
| Trade intent execution (`metaapi_execution.py`, `reconciliation.py`) | `TradeIntent`, `CopiedTrade`, connection lock | execute, reconcile, sweep unresolved intents, reconcile copied trades, emergency | signal handler, stream worker, broker terminal, user's pause |
| Connection lifecycle (`service.py`, `metaapi_jobs.py`, `metaapi_provisioning.py`, `repository.py`) | `CopyTradingConnection`, `CopyRoute`, provisioning lock, MetaApi accounts | create, retry, delete, activate, pause, resume, provision, clean up, warm up | stream worker, MetaApi, execution handler |
| MetaApi connection manager (`metaapi_connections.py`) | warm streaming connections, opening tasks, an event-loop thread | acquire, evict idle, close, shut down | execution, provisioning, warm-up |
| Telegram session runtime (`worker_runtime.py`, `telegram_auth.py`, `router.py`) | ownership key, clients, connection rows, login attempts, message cursors | log in, adopt, disconnect, own, receive, recover gaps | Telegram, signal handler |
| Signal processing (`workers.py`, `assembly.py`, `generations.py`, `engine.py`) | message revisions, conversations, assemblies, duplicate keys | handle a message, assemble, expire, build intents | Telegram runtime, execution |
| Pure rules (`engine.py`, `assembly.py`, `symbols.py`, `quality.py`, `execution.py`) | none | validate, merge, choose a symbol, split lots, judge a quote | signal processing, execution |
| Settings (`service.py`, `operator_tools.py`) | account policies, routes, sources, reviews | create, edit, delete, resolve | the owner's requests, several at once |
| Health (`health.py`) | worker heartbeats | report, aggregate, launch readiness | workers, operators |
| Account synchronization (`domains/accounts`, `tasks/journal_sync_tasks.py`) | sync state, cooldown, locks, trades | connect, sync, ingest, archive, delete | Celery, MT5 service |
| Authentication (`domains/auth`, `domains/users`) | users, refresh and e-mail tokens | register, log in, refresh, log out, reset, suspend | concurrent clients |
| Billing and affiliates (`domains/billing`, `domains/affiliates`) | subscriptions, checkout guard, processed webhooks, commissions | checkout, change, cancel, webhook, release, reverse | payment provider |
| Database schema (`src/alembic/versions`) | tables, columns, types, constraints | 67 upgrades and downgrades | rows the application wrote |
| AI assistant, journal, CSV import, uploads, notifications, core | rows, quota counters | mostly request/response | users |

What makes it hard:

* **At-least-once delivery.** A message that stays pending for a few seconds is
  reclaimed, whether its handler died or is merely slow. Handlers may run twice,
  and at the same time.
* **Crashes between commits.** Handlers commit, call the broker and commit again;
  a process can die between any two.
* **A broker that answers late or not at all.** A timed-out call may have been
  carried out, and the terminal state shows it with a delay.
* **Rows read long before they are written.** Jobs and health reports hold a
  SQLAlchemy session for minutes while users change the same rows.
* **Locks with a lease.** The Redis locks and the ownership key expire on their own.
* **Redis beside the database.** Duplicate keys and cursors do not roll back with
  the transaction that set them.
* **Updates that never come.** Telegram may drop an update, the payment provider may
  repeat and reorder its webhooks, an answer to a refresh may get lost.
* **Requests that check what another request is about to change.** The API runs in
  several processes; a transaction reads without row locks and writes when it commits.

What must hold: per-key jobs run one at a time and in order; no event is lost without a
trace and every event is settled; the broker acts at most once per intent and every
uncertain outcome is resolved; limits and pauses hold under concurrency; a deleted
connection leaves no password and no billed account; a route copies only when its user wants
it to; a route enters the market once per signal and what completes a signal is not lost; no
message is missed unnoticed; a client that refreshes keeps its session; access ends with
what was paid; an import never loses trades; and every path through the migrations leads to
one schema. `PROJECT.json` lists the hazards behind these, each with its line and the
properties that cover it.

## 2. Modules

| Module | Models | Abstracts |
|---|---|---|
| `KeyedLanes` | the promise of the executor: one FIFO lane per key, one running job per lane | – |
| `KeyedSerialExecutor` | `delivery.KeyedSerialExecutor`, one action per critical section; implements `KeyedLanes` | the job's effect |
| `StreamWorker` | one consumer group of Redis streams: `Read`, `Claim`, the steps of `_process_message` (`CheckProcessed`, handler `Return`, `Settle`, `PersistDeadLetter`, `MarkProcessed`, `Ack`) and what each does when a call raises (`CheckRaises`, `AttemptsUnknown`, `LaneRaises`, `RunRaises`), producers, replay, crashes, restarts | payloads; batches are read one message at a time |
| `IntentExecution` | `execution_handler`, `reconcile_intent`, `publish_unresolved_intents`, `reconcile_copied_trades`, the pause flags, the route, the connection lock; delivery as `StreamWorker` gives it | prices, volumes, symbols; actions other than a market open and a full close |
| `ConnectionLifecycle` | the connection's row and its route's row, users' requests, provisioning and cleanup jobs; the reports of warm-up and execution handler, loading, selecting and committing apart (`WarmStart`, `WarmRead`, `ExecuteStart`, `ExecuteRead`, `CommitReport`) | error texts; all failures only a user reacts to are `failed`; `due` is a set, so identical pending events count once |
| `IntentContract` | the promise of execution per intent: one broker operation, one outcome, which is final | threads, locks, deliveries, crashes |
| `MetaApiConnections` | `acquire`, `_open`, `evict_idle`, `close_account`, shutdown; a step is the code between two awaits | the calls made over a connection |
| `TelegramOwnership` | the ownership key, which runtime has which clients, stopping and being killed | what a client does |
| `TelegramSessions` | sign-in commands with their retries, QR scans, adoption of a session by an existing row, disconnecting, restore | phone numbers, codes, clients of unfinished sign-ins |
| `TelegramFeed` | live updates, edits, the recovery poll, the chat's lock and the cursor of one source; its pauses, its active routes, a session that Telegram ends | a message is its id and whether it has text |
| `SignalRules` | the rules as operators | the regular expressions: a message is the facts it states; integers for prices and lots |
| `SignalCases` | the rules put together as the workers use them, and what holds of every case: a signal's legs and the volume its limits are checked with, an order and its limits | – |
| `SignalProcessing` | `signal_handler` (`Begin`, the writes, `CommitSignal`), deletions, expiry, duplicate keys with a window per route, crashes, dead letters; uses `SignalRules` | the language model answers with any of a few contexts |
| `CopySettings` | policy, routes, sources and reviews; a request is its reads and its commit | columns no rule relates to another |
| `CopyHealth` | heartbeats and what the endpoints make of them | ages in ticks |
| `AccountSync` | connecting, dispatch, bootstrap and sync tasks with their locks, ingestion, archiving, deletion | a trade is absent, plain or enriched |
| `Affiliates` | attribution, commissions, release, reversal, settings; a webhook reads (`create_commission_from_paid_invoice`, `reverse_commission`) and writes at its commit (`WriteCommission`) | one affiliate and one customer |
| `Billing` | checkout guard, plan change, cancellation, access; webhooks of several processes, each with its reads (`process_webhook_event`), its commit and its rollback; composes `Affiliates` | the provider is external; customer and currency columns |
| `AuthSessions` | one account's tokens and its clients, grace window, lost answers | contents of tokens and mails |
| `Migrations` | every revision as a list of statements with what each requires | column types and defaults |
| `KeyedSerialExecutorProofs`, `StreamWorkerProofs`, `IntentExecutionProofs`, `ConnectionLifecycleProofs` | theorems about the module they are named for | |
| `RuntimesProofs` | theorems about `MetaApiConnections`, `TelegramOwnership`, `TelegramSessions`, `CopyHealth` | |
| `PlatformProofs` | theorems about `AuthSessions`, `Billing`, `Affiliates`, `AccountSync` | |
| `SignalsProofs` | theorems about `TelegramFeed`, `SignalProcessing`, `CopySettings`, `SignalCases` | |
| `Extrema` | lemmas about `Min` and `Max` | |
| `MC*` | model values, targets and symmetry for TLC | |

State variables keep the code's names where they can; each says in a comment
which row, key or thread it stands for. Actions are named after the function or
the branch they model and end at a database commit, a Redis call or a call of
the provider, since that is where other processes can come in between.
`PROJECT.json` maps each definition to its lines.

`StreamWorker` is the environment of the two modules after it, which repeat what
matters of it: a due event may be taken by any thread, again after a retry or a
crash, and, if `Overlap` is set, while it is being handled. `ConnectionLifecycle`
also models how a session writes: `Flush` sets only the columns that differ from
what the session loaded, so a stale session may leave a column alone that another
one changed, or overwrite it. That decides which races are harmless. `Flushed` of
`AccountSync` and `Written` of `Billing` do the same.

The Telegram runtime is three modules because its concerns share no variable:
sign-ins never look at cursors, and the feed of a source depends on the runtime
only through crashes and disconnections, which `TelegramFeed` has as faults.
`SignalProcessing` receives whatever `TelegramFeed` may publish, repeats included,
and its intents are what `IntentExecution` starts from.

`Migrations` keeps, for a table, only the parts some revision names apart from
creating it. A statement is a record with what must be there, what it adds and what
it removes; `Migrate` runs a revision's list and, as `env.py` does, changes nothing
when one of them fails. Facts such as `shared_identity` stand for rows that make a
constraint or a conversion fail.

Definitions commented "Faulty variant of" are the same operation with a
plausible mistake. No specification uses them; replacing the operation by its
variant makes TLC report the property that `PROJECT.json` names, which shows
that the property depends on that line of the code.

## 3. Runs

Each config fixes a small instance. Bounds on messages, transactions, crashes,
faults and retries are constants named in the module, and guards cap them.
Deadlock checking is off where a bounded model ends when its bounds are used
up; the code idles when there is nothing to do.

| Run | Question | Instance |
|---|---|---|
| `executor` (MCKeyedSerialExecutor.cfg) | `OneDrainPerKey`, `NoStrandedQueue`, and that the executor implements `KeyedLanes` (`ImplementsLanes`, with liveness) | 3 keys, 2 threads, 5 jobs: more keys than threads, a key with three jobs |
| `stream` (MCStreamWorker.cfg) | `NoSilentLoss`, `HandlerRunsBounded`, `EveryMessageSettles` | 1 worker with its main loop and a lane, 2 messages, 2 attempts, 1 fault: a killed process, a main loop that ends or any one call that raises |
| `intents_once` | `AtMostOnce`, `FailedBeforeAgeIsUnsent`, and that execution implements `IntentContract` (`ImplementsContract`) | an open and the close of its position, 2 threads, 1 crash, leases may run out, no overlap |
| `intents_limits` | `TrackedWithinLimit`, `PauseHolds` | 2 opens, 2 threads, limit 1 |
| `intents_resolves` | `UncertainResolves` under fairness | 1 open, 2 threads, 1 crash |
| `connections_accounts` | `DeletedIsErased`, `AccountOfTransaction`, `NoAccountForgotten` | 2 workers, 2 transactions (create, delete, create again), 1 fault |
| `connections_routes` | `ActiveIsWanted` | 1 worker, 2 watchers, 1 transaction, 1 retry |
| `intents_overlap` | violated: `AtMostOnce` with `Overlap` | 1 open, 2 threads, no crash |
| `runtimes` (MCRuntimes.cfg) | `OneOpening`, `ConnectionsAccounted`; `SessionHeldOnce`; `ReadyAttemptHasAccount`, `SignInsDestroyNothing`; `ReadyMeansServed`; `HeadIsOneSchema` | 1 MetaApi account, 2 callers, 3 openings; 2 runtimes, 2 sessions; 2 users signing in to 2 Telegram accounts; 3 processes of 2 roles; all 67 revisions with any 2 facts about rows |
| `feed` (MCFeed.cfg) | `GapsExplained`, `CursorMovesBackOnlyAtStart`, `CursorCatchesUp` under fairness | a group with 3 messages, 1 edit, 1 fault (a disconnection, a crash, an ended session or the loss of the last active route), a poll of 1 message |
| `signals` (MCSignals.cfg) | `EntersOnce`, `SuppressedHasOriginal`, `EditsDoNotReopen`, `DetailsCompleteOpening`; `SettingsAgreeUnlessOverlapped`; `LegsAddUp`, `OrderStaysWithinLimits` | 2 events of 2 messages, 1 crash, a route whose duplicate window covers the age limit and one without a window that waits for a stop loss and a target; 1 route and 1 source, 2 API threads; the rules over all cases of small domains |
| `platform` (MCPlatform.cfg) | `JournalKeepsTrades`; `AccessIsPaid`, `GraceStands`, `RunningKeepsRow`; `CommissionsBounded`; `RefreshedTokenIsLive` | 1 account, 2 Celery workers, 2 deals; requests of 1 tab about 1 subscription beside the webhooks of 1 process; webhooks of 2 processes about 3 subscriptions, one of which may have ended before, with an open checkout of each product; 3 events, 3 invoices; 2 clients, 3 tokens |

`runtimes`, `signals` and `platform` check several components that share no state. Their `focus`
variable says which of them a behaviour follows, so the state space is the sum of
theirs and not the product; for the rules of `signals`, `input` ranges over the
cases of `SignalCases`. Billing has two of the focuses, `requests` and `webhooks`: together
they exceed what TLC can visit, so only the proofs have tabs and several processes at once.

Several properties name the exceptions the code has:

* `EntersOnce`: only routes whose duplicate window is no shorter than the account's age
  limit for market signals and the time the parser takes (`Covered`).
* `SuppressedHasOriginal`: a duplicate key survives a rolled-back delivery.
* `DetailsCompleteOpening`: not the assemblies of edited messages. It says nothing of a piece
  that belongs to another conversation; a stop loss posted before any opening starts its own.
* `GapsExplained`: a lost update below a later live one is not recovered.
* `CursorCatchesUp`: not while the source is paused, has no active route, or waits for a new
  sign-in.
* `EveryMessageSettles`: as long as some main loop runs again and again.
* `ConnectionsAccounted`: the `finally` of a cancelled opening may remove the registration
  of a newer one.
* `ActiveIsWanted`: a report that selected the route before the user's word and commits after
  it (`overturned`).
* `AccessIsPaid`: not a row without a period end, which has access until a payload names one.
* `GraceStands`, `RunningKeepsRow`: not the commit of a webhook that read an older row.
* `CommissionsBounded`: one commission more for each further process that may count at the
  same time. Reversals that overlap may lose one of their amounts, but never exceed the commission.

For `EntersOnce`, `EveryMessageSettles`, `ActiveIsWanted`, `RunningKeepsRow` and
`CommissionsBounded` a config shows that the exception is needed (below).

Why these bounds are enough to meet the interesting cases: every race in these modules is
between two actors over one row, key or message, so two threads, two workers or two
watchers; a crash matters once per step it can interrupt; a second transaction is what a
stale job of the first one can damage; two messages are the least that can be out of order;
two processes are the least whose webhooks overlap. Three openings let a cancelled one meet
a running one and a new one; three messages leave a gap between two live ones; three tokens
are one session and two rotations racing for it; two facts are enough for any single
statement, none of which depends on more than one. The proofs cover the rest for the
properties they state.

Symmetry is used only in runs without liveness properties and only over sets of
model values that no constant tells apart. Where components share no state, the same
model values serve in several of them, so that one permutation acts on all.

### Where the code and its documents disagree

`intents_overlap` is a run of the project. Six more disagreements are reproduced by
the configs named below, with the modules of section 2.

* **Overlapping deliveries** (`intents_overlap`). `execution_handler` checks the
  intent's state before it takes the connection lock and not again under it.
  A delivery reclaimed while the first is at work passes the same check, and the
  broker opens two positions for one intent. The migration design says that
  repeated delivery cannot create a second broker action.
* **Stuck `submitted`** (`SubmittedResolves`, MCIntentExecutionSubmittedResolves.cfg).
  A crash around the broker call leaves `submitted`, which neither redelivery nor the
  sweep picks up. The launch design says that restart recovery republishes unresolved
  intents.
* **Untracked position** (`ConfirmedIsTracked`, MCIntentExecutionConfirmedIsTracked.cfg).
  Reconciliation confirms an open without its copied trade, so limits, closes and
  reconciliation ignore it.
* **Lane order** (`LaneOrder`, MCStreamWorkerLaneOrder.cfg). A message left pending for
  a retry is overtaken by the next one of its lane.
* **Spinner** (`ProvisioningEnds`, MCConnectionLifecycleSpinner.cfg). A retry publishes
  its event under the transaction's old idempotency key. If that key was handled to
  its end, for instance with invalid credentials, the event is acknowledged unseen and
  the connection stays in `provisioning`.
* **An edit opens again** (`EditedOpensOnce`, MCSignalsEdits.cfg). `choose_conversation`
  matches an edit only with the first or the last message of an active conversation, and
  an intent's idempotency key names its action. Four events suffice: a conversation starts,
  its second message enters the market, its third gives levels, and the second is edited
  into a pending order. The edit matches nothing, starts a conversation of its own and opens
  a second position. The v1 plan rules out duplicates by edits. What does hold, and is proved,
  is `EditsDoNotReopen`: in the conversation it is matched with, an edit opens nothing more.
* **A window that does not cover** (`EntersOnceAnyway`, MCSignalsWindow.cfg). The duplicate
  window of a route may be 0, which leaves the key out (`workers.py:787`), and nothing ties
  it to the account's age limit; the defaults are 30 seconds each, and the age is taken
  before the parser, whose time comes on top. A worker killed between commit and
  acknowledgement then has a fresh message redelivered; its revision makes a new idempotency
  key, and the route enters again. The v1 plan excludes duplicates by redelivery.

Four configs show what a reader might expect and no document promises:

* `SettlesAnyway` (MCStreamWorkerNoRestart.cfg): the provisioning worker runs in a daemon
  thread (`worker_runtime.py:1168`); if its `run` raises, the process lives on and nothing
  starts the thread again.
* `StoppedStaysStopped` (MCConnectionLifecycleStale.cfg): a report's SELECT
  (`repository.py:78-99`) and its commit are not one step, so it may overwrite a pause between
  them, and the terminal's recovery resumes copying.
* `StandingWithinMonths` (MCPlatformMonths.cfg): two webhooks count the commissions before either
  inserts (`domains/affiliates/service.py:153`, `:179`).
* `RunningKeepsRowAlways` (MCPlatformTakeover.cfg): the events of two paid checkouts both find
  the row free (`domains/billing/service.py:315`), and the second overwrites the first.

Met while modelling, visible in the models and without a config of their own:

* **A downgrade that cannot be repeated.** The downgrade of `c5e6f7a8b9c1` restores the
  unique constraint under another name than its upgrade drops, so the next upgrade
  fails. `HeadIsOneSchema` still holds: such a database does not get to the head.
* **A deleted message's context.** `_handle_deleted_message` expires the assemblies,
  but the conversation keeps what the message said; a later message of it opens the
  trade from that context.
* **Generations never complete.** `_resolve_opening_generation` has no caller, so a
  submitted generation stays `executing`; `SignalProcessing` has no such action.
* **Access without an end.** A payload without a usable `current_period_end` clears the column
  (`apply_subscription_payload`), and `has_paid_access` takes a row without one as paid
  (`domains/billing/entitlements.py:26`).
* **Dead code.** `broker_result_matches_intent` is reached only through
  `_reconciliation_accepts`, which has no caller; it is not modelled.
* **Burst limit.** One `last_sync_attempted_at` per account is read, so repeated manual
  syncs of one account count once, against the comment in `accounts/router.py`.
* **`verify_email`** issues no session, against the comment above it.

### Fairness

* Executor: pool threads run and jobs return (their calls have timeouts). Nothing
  obliges anyone to submit.
* Stream worker: each pass of the main loop both reclaims and reads, hence strong
  fairness of `Read` and of `Claim` for each message, which are enabled only between
  passes; threads take their steps. Faults are finitely many. `Restart` has no fairness:
  Compose restarts a process that exits (`restart: unless-stopped`), but not the thread of the
  provisioning worker. That a main loop runs again is a premise of `EveryMessageSettles`.
* Intents: threads run; a due event is taken (what `EveryMessageSettles` shows of the stream
  worker, under its premise); maintenance runs on its period; time passes; an orphaned lock
  expires; the terminal is reachable infinitely often.
* Connections: jobs run, due events are taken, an event is not retried for ever
  since its deliveries are counted, an orphaned lock expires. No user is obliged to
  do anything.
* Feed (`FeedFairSpec`): the event loop runs the handler that holds the chat's lock,
  the poll and the restore loop go on, the cache of sources is refreshed; restore connects in
  the end, but only where no new sign-in is asked for. Nobody is obliged to post, edit, pause,
  unpause, activate a route or sign in again, and updates may stay lost.

## 4. Proofs

All theorems hold for every value of the constants that satisfies the named
`ASSUME` of the module; none is limited to the instances of section 3.

**KeyedSerialExecutorProofs.** `TypeCorrect`, `OneDrainPerKeyHolds`,
`NoStrandedQueueHolds`, and `ImplementsLanesSafety`: initial states and steps map to
those of `KeyedLanes`. Neither invariant is inductive. `IInv` adds that a key waits
in the pool at most once and not while it is drained, that whoever waits or drains
has a non-empty queue, and that the job being run is its queue's head. Then `submit`
to an empty queue cannot meet a drain, and a drain that leaves a non-empty queue is
impossible.

**StreamWorkerProofs.** `TypeCorrect`, `NoSilentLossHolds`, `HandlerRunsBoundedHolds`.
`IInv` says what each thread has in hand before it acknowledges (`Evidence`), that dedupe
keys belong to successes, and that whatever a worker holds is in the stream, so its key no
longer changes. The bound on handler runs needs a count of its own (`RunsIInv`): a message's
runs done, the run its lane owes and those of the main loops that claimed it (`Claimers`)
never exceed its deliveries below the limit; at the limit a run is only added by a main loop
that then settles the message unless it is killed or a call raises (`Finishers`); after the acknowledgement
nothing is claimed. The theorem assumes finitely many workers and `MaxAttempts > 1`, which
the code sets (`worker_runtime.py:123` and `:1159`): with one attempt every worker could
claim a message before the first settles it.

**IntentExecutionProofs.** `TypeCorrect`; `AtMostOnceHolds`,
`FailedBeforeAgeIsUnsentHolds`, `ResolvedIsFinalHolds` and `ImplementsContractHolds`
assume `~Overlap`, which is exactly what `intents_overlap` shows to be needed;
`PauseHoldsTheorem` and `TrackedWithinLimitHolds` assume `~LeaseOverrun`. The first four
rest on an invariant that ties an intent's state, its broker operations and the step of
the thread that has it (`OnceInv`); the last two on mutual exclusion of the connection
lock.

`ImplementsContractHolds` is the refinement: `Outcome` reads an intent's state as the
user does, and every step of execution is a step of `IntentContract` for one intent or
leaves the contract's variables alone. `OnceInv` keeps an intent from being confirmed
or failed twice; that a confirmation is deserved needs `Evidence` in addition: a thread
about to confirm has the broker's answer or found the operation, and only operations
that took place are synchronized to the terminal. The contract says more than
`ResolvedIsFinal`, so the run checks the contract. `ConfirmedIsDoneHolds` reads off it
that a confirmed intent was sent exactly once.

**ConnectionLifecycleProofs.** `TypeCorrect`; `DeletedIsErasedHolds`,
`AccountOfTransactionHolds` and `NoAccountForgottenHolds` assume `~LeaseOverrun` (with it,
TLC finds each of them violated). `ActiveIsWantedHolds` assumes nothing; what it needs is
that a report which has selected the route (`hit`) while its user has stopped it was late
for that stop or an earlier one (`PendingIsLate`), so that its commit counts as
`overturned`, while one that selects later finds the route paused and leaves it. `Inv` has
three parts: what the row may look like (`RowInv`), that only the lock's holder is inside a
job (`Exclusive`), and what the holder's session knows of the row at each step (`JobInv`):
users and watchers write the state alone, so account, password and transaction are still
what the session loaded.

**RuntimesProofs.** Four parts of a deployment that share no variable.

* `OwnTypeCorrect`, `SessionHeldOnceHolds`. Inductive is that a runtime which is running
  or stopping has the key or is overdue, and that one which waits or has stopped has no
  client; both lean on the order of the `finally` of `run`.
* `OpeningIsShared`, `NoOtherLeak` (the connection manager). Neither is inductive alone.
  `ConnIInv` adds that a registered opening runs, is its account's own and is not
  cancelled, and that an account being opened has no warm entry: otherwise the entry an
  opening writes could overwrite, and so leak, an older one.
* `ReadyAttemptHasAccountHolds`, `SignInsDestroyNothingHolds`. `SessIInv` says that an
  attempt gets its first command once (`StartedOnce`), so that its session belongs to one
  Telegram account; that rows which carry an account were signed in and no two carry the
  same (`AccountsUnique`); and that attempts follow the row they were adopted by.
* `ConnTypeCorrect`, `SessTypeCorrect`, `HealthTypeCorrect`. The invariants above carry the
  types of their modules.
* `ReadyMeansServedHolds`. `HealthIInv` says that a role with a process is served, that a
  heartbeat is at least as old as the time since its role was last served (so rows of
  dead processes cannot flatter it), and that a settled intent has age 0.

**PlatformProofs.** Four parts of the platform.

* `AuthTypeCorrect`, `RefreshedTokenIsLiveHolds`. The property is about one client, the
  invariant about who may name a token: the token of a client in `own` is in no other
  cookie and in no request under way, and the token of an answer is as yet in none. A
  rotation can then only use up a token outside `own`.
* `RunningKeepsRowHolds`, `GraceStandsHolds`. The invariant is what a request or a webhook
  read before it writes: a whole row (`RequestsAgree`, `HooksAgree`), and an answer for the
  subscription the row names, so a request never writes `pid`. A webhook that read a running
  row ignores the events of another subscription; one that read an older row is the exception. A
  grace period that began since a webhook read the row began today, so that the webhook
  writes the same end (`GraceIsYoung`).
* `AccessIsPaidAlways`. Every period end in the provider's subscriptions, an event, the row,
  what a request or a webhook read, or an answer was sold, or is missing (`PeriodsAreSold`,
  `NoTime`). Without the row's columns from `BillIInv` nothing could be said of what is written.
* `CommissionsAreBounded`. A webhook counts, and inserts when it commits. Those that stand
  and those about to be inserted are together at most `MostMonths - 1 + |Hooks|`: a count
  below the months adds one to what the other webhooks have in progress (`AffIInv`). A
  reversal takes at most the amount, since rounding half up never exceeds a whole number it
  is a share of, and what a webhook is to write was computed from the same amount
  (`TxnSound`). `BilledCommissionsBounded` is the same bound where `Billing` drives the
  programme: an invoice event creates a commission row only for the invoice it tells of
  (`EventsTell`), and a webhook of `Billing` commits or rolls back with that of
  `Affiliates`.
* `BillTypeCorrect`, `AffTypeCorrect`, `AcctTypeCorrect`. A commit writes only the columns
  that differ from what its session read (`Written`, `Flushed`), so that a request writes a
  whole row needs that the row was there when it read it and still is (`RowStays`), also for
  webhooks, and that an event tells of a whole subscription (`EventsTell`). The bound on the
  Celery queue needs that what waits was published (`QueueIsPublished`).
* `JournalKept`. `AcctIInv` says that at most one worker of an account is between its report
  and its ingest (`OneImport`), that the report covers every trade of its window in the
  journal (`ReportCovers`), and that the journal holds no deal that has not closed.

**SignalsProofs.** The way of a signal.

* `GapsAreExplained`, `CursorMovesBackOnlyAtStartHolds`. `FeedIInv` says of each message below
  the cursor why it lies there in a form no step takes back (`Accounted`), that the calls
  the poll has still to make follow the cursor without a gap (`PollInOrder`), that it waits
  for at most one call (`OnePollCall`), and that live calls are queued in the order of
  their messages. `FeedTypeCorrect` follows from the same invariant.
* `SetTypeCorrect`, `SettingsAgreeWithoutOverlap`. A patched row, and a row of which a commit
  wrote part, is a row column by column (`MixedRoute`). For a request that nobody overlapped,
  the invariant says that what it is about to commit agrees with the rows as they are.
* `RouteEntersOnce`, `RepeatsHaveOriginal`. The strengthening is `EntryHasKey`: on a covered
  route the duplicate key of a market entry stands for as long as a delivery can still find
  the entry's message fresh, the one that waits for the parser included. So a repeated entry
  meets the key, or the age check. Of other routes nothing is claimed (`EntersOnceAnyway`
  above). `PlanOfRoute` says what the handler does for one route: a key and at most one
  opening intent, of one meaning.
* `EditsNeverReopen`. `SigIInv` adds that a route has one active generation per conversation
  (`OneActive`) and that what the handler read of its conversation before it asked the
  parser still holds when it writes, unless the conversation expired (`ReadIsCurrent`). This needs
  that `choose_conversation` picks one of the conversations it was given (`ChosenIsGiven`).
  `SigTypeCorrect` adds that generations are counted (`Numbered`), so that the next number is one.
* `DetailsCompleteOpeningHolds`. The action property needs `Pieces`: an assembly that has not
  opened keeps all that its messages said, the targets of a context are a sequence of numbers, and
  the event being handled is no mere status. A generation adds to what it was (`PlanPieces`) and a
  conversation to what it knew, and the merge drops neither a stop loss nor a target (`MergeKeeps`).
* `OrderStaysWithinLimitsHolds`, `LegsAddUpHolds`. The rules of `SignalCases` for all cases: every
  volume, step, limit, hour, catalogue and list, every number of targets.

`LegsAddUp` and `DetailsCompleteOpening` meet folds: a sum over the legs, and the targets
without their repetitions. There is no induction over data here, but a fold is a
`CHOOSE`n function that satisfies an equation; the lemmas (`EqualLotsAddUp`,
`DistinctMembers`) show that such a function exists, by the largest argument up to which
it does, and that what the equation says of it holds, by the least argument for which it
would not.

**Extrema.** Two lemmas about `Min` and `Max` of `FiniteSetsExt` that five of the parts use.

What the proofs assume of the constants is what the code enforces: commission months in
1..60 and hold days in 0..180 (`domains/affiliates/schemas.py`), positive lots with a
largest one, request bodies whose fields have the types of their columns, and that what the
parser returns names an action (`ParsedSignal`). The rules assume of a case what a broker or
a message can show (`CasesAssumption`): lots divide into their shares. Periods and bounds
are natural numbers. `Covered`, on the other hand, is a condition on the owner's settings,
which the code neither checks nor enforces; `~Overlap` and `~LeaseOverrun` are conditions on
the time handlers take.

Two proofs failed at first because the model was wrong, a third because the property was.
`TelegramSessions` let each command of one attempt sign in to another Telegram account, and
with two accounts TLC then finds `ReadyAttemptHasAccount` violated; an attempt's session now
keeps the account it was signed in to (`logins`), as Telethon's does, and the run has two
accounts. `TelegramFeed`'s `Crash` counted an update as lost whenever any call for its
message was queued; it now loses only updates whose live call was queued. `EditsDoNotReopen`
said of a message, wherever its edit goes, what holds only within a conversation; TLC
refutes that on three messages, more than the run has, and it is now `EditedOpensOnce`
above.

Outside the prover's reach, and left to TLC: every liveness property
(`EveryMessageSettles`, `UncertainResolves`, `CursorCatchesUp`, the fairness of
`KeyedLanes`), `ENABLED`, and `HeadIsOneSchema`, whose 67 revisions are data: it holds
because of what each list of statements says, and only evaluating them shows it.
The type invariant of every module with a theorem is proved; none is repeated in the runs.

## 5. What is not modelled

`PROJECT.json` gives every part with its status. Within the modelled parts:

* overlapping webhooks beside requests, in TLC's runs (the proofs have them);
* signals: the rounding of split legs to the broker's minimum volume; in the run no symbol
  is on a block list;
* stream worker: trimming of the stream, undecodable messages, the periodic calls
  of the main loop other than those modelled elsewhere;
* intents: pending orders, partial closes, modifications, emergency actions, the
  limits on volume, equity and trading hours;
* connections: two requests are never interleaved (a request has no wait in it); the
  billing capacity check; the activity log; creation, editing and deletion of routes
  are in `CopySettings`;
* Telegram: reading the chat list, profile pictures, rate limits of sign-ins;
* signals: channel profiles, the creation of reviews, confidence;
* account synchronization: balances, snapshots, the server catalogue, columns that are
  only displayed;
* authentication: rate limits and the nightly purge; billing: signatures, customer data;
* migrations: conversions of data that cannot fail, column types and defaults.

Whole parts: the AI assistant (credits are checked before an answer and debited after
it, without a reservation; nothing in the code promises more), the journal's
analytics, CSV import and demo data (functions of one request over many columns, whose
meaning is arithmetic and formatting), admin lists, uploads, notifications and the
wiring in `core/`.

Text recognition, formatting, email, object storage and calls of language models are
out of reach or have no state to check.

## 6. Plan

Done, in this order: executor, stream worker, intent execution, connection lifecycle;
MetaApi connections, Telegram ownership, sessions and feed, signal rules and
processing, settings, health, account synchronization, affiliates, billing,
authentication, migrations.

Proved since: every safety invariant and action property of the runs but `HeadIsOneSchema`,
the contract of an intent, and the composition of billing with the affiliates.

Next: the remaining actions of intent execution (pending orders, partial closes,
emergency) and a composition of `StreamWorker` with a handler in place of the repeated
delivery actions.
