---------------------------- MODULE AccountSync -----------------------------
(***************************************************************************)
(* Broker accounts of the journal (domains/accounts, journal_sync_tasks):  *)
(* connecting an account, the dispatch row that gets its bootstrap task    *)
(* published, the Celery tasks that verify the credentials and import the  *)
(* deal history, manual syncs with their admission, and archiving or       *)
(* deleting the account while a task works on it.                          *)
(*                                                                         *)
(* Deal d is the d-th deal that closes at the broker, which also serves as *)
(* the clock: a moment is the number of deals closed before it.  Columns   *)
(* that are only displayed (status, messages, outcomes, failure counts)    *)
(* are left out.  A task writes through the ORM: a flush writes the        *)
(* columns whose value differs from the one the task loaded (Flushed).     *)
(***************************************************************************)
EXTENDS Integers, FiniteSets

CONSTANTS
    TradingAccounts,    \* account ids
    Credentials,        \* investor passwords a user may enter
    Readable,           \* those decrypt_secret can read back
    Workers,            \* Celery worker processes
    NoTask,             \* an idle worker
    MaxDeals,           \* bound on closed deals
    MaxTasks,           \* bound on published tasks
    MaxRequests,        \* bound on the owner's requests
    BurstMax            \* MANUAL_SYNC_BURST_MAX_ATTEMPTS

Deals == 1..MaxDeals

ASSUME AccountSyncAssumption ==
    /\ Readable \subseteq Credentials
    /\ MaxDeals \in Nat /\ MaxTasks \in Nat
    /\ MaxRequests \in Nat /\ BurstMax \in Nat

VARIABLES
    account,    \* rows of trading_accounts
    known,      \* which ids are unused, live or deleted
    dispatch,   \* rows of journal_bootstrap_dispatches
    queued,     \* Celery messages not yet taken
    worker,     \* what each Celery worker is doing
    trades,     \* rows of trades: how much is known of each deal
    closed,     \* deals the broker has closed so far
    old,        \* those closed before the lookback window
    requests,   \* the owner's requests so far
    published   \* tasks published so far

acctVars == <<account, known, dispatch, queued, worker, trades, closed, old,
              requests, published>>

Never == -1     \* a NULL timestamp

TradingAccount ==
    [archived : BOOLEAN,
     state : {"pending_verification", "bootstrapping", "ready",
              "verification_failed", "bootstrap_failed"},
     dataReady : BOOLEAN,               \* is_data_ready_for_stats
     lastSynced : {Never} \cup 0..MaxDeals,
     cooldown : BOOLEAN,                \* next_sync_not_before lies ahead
     attempted : BOOLEAN,               \* last_sync_attempted_at is within the window
     cred : Credentials]

\* A published bootstrap carries its retry count.
Message == [kind : {"bootstrap", "sync"}, id : TradingAccounts, retries : 0..1]

\* What an import knows of a deal; enrichment is sl, tp, magic number and so on.
Detail == {"none", "plain", "enriched"}

\* A reported deal may lack a timestamp.
ReportedDetail == Detail \cup {"untimed"}

Task == [msg : Message, at : {"loaded", "verify", "lock", "fetch", "ingest"},
         seen : TradingAccount,         \* the row as loaded
         boot : BOOLEAN,                \* holds the bootstrap lock
         started : 0..MaxDeals,         \* attempted_at
         from : 0..MaxDeals,            \* from_time
         history : [Deals -> ReportedDetail]]   \* the deals the broker reported

AcctTypeOK ==
    /\ account \in [TradingAccounts -> TradingAccount]
    /\ known \in [TradingAccounts -> {"unused", "live", "deleted"}]
    /\ dispatch \in [TradingAccounts -> {"none", "scheduled", "dispatched"}]
    /\ queued \in [Message -> 0..MaxTasks]
    /\ worker \in [Workers -> Task \cup {NoTask}]
    /\ trades \in [TradingAccounts -> [Deals -> Detail]]
    /\ closed \in 0..MaxDeals /\ old \in 0..closed /\ requests \in 0..MaxRequests
    /\ published \in 0..MaxTasks

NoDeals == [d \in Deals |-> "none"]

\* create_account, and reactivate_account, which keeps the sync times.
create_account(c) ==
    [archived |-> FALSE, state |-> "pending_verification", dataReady |-> FALSE,
     lastSynced |-> Never, cooldown |-> FALSE, attempted |-> FALSE, cred |-> c]

reactivate_account(r, c) ==
    [r EXCEPT !.archived = FALSE, !.state = "pending_verification",
              !.dataReady = FALSE, !.cred = c]

AcctInit ==
    /\ account \in {[a \in TradingAccounts |-> create_account(c)] : c \in Readable}
    /\ known = [a \in TradingAccounts |-> "unused"]
    /\ dispatch = [a \in TradingAccounts |-> "none"]
    /\ queued = [m \in Message |-> 0]
    /\ worker = [w \in Workers |-> NoTask]
    /\ trades = [a \in TradingAccounts |-> NoDeals]
    /\ closed = 0 /\ old = 0 /\ requests = 0 /\ published = 0

-----------------------------------------------------------------------------
(* Requests of the owner.                                                  *)

Live(a) == known[a] = "live"

Request == requests < MaxRequests /\ requests' = requests + 1

\* connect_account: a new row, or an archived one brought back; anything
\* else is refused with 409.  Publishing the bootstrap is Dispatch, in a
\* transaction of its own that the request tries once and the beat repeats.
connect_account(a, c) ==
    /\ Request
    /\ known[a] = "unused" \/ (Live(a) /\ account[a].archived)
    /\ account' = [account EXCEPT ![a] =
                       IF Live(a) THEN reactivate_account(@, c) ELSE create_account(c)]
    /\ known' = [known EXCEPT ![a] = "live"]
    /\ dispatch' = [dispatch EXCEPT ![a] = "scheduled"]
    /\ UNCHANGED <<queued, worker, trades, closed, old, published>>

disconnect_account(a) ==
    /\ Request
    /\ Live(a) /\ ~account[a].archived
    /\ account' = [account EXCEPT ![a].archived = TRUE]
    /\ UNCHANGED <<known, dispatch, queued, worker, trades, closed, old, published>>

unarchive_account(a) ==
    /\ Request
    /\ Live(a) /\ account[a].archived
    /\ account' = [account EXCEPT ![a].archived = FALSE]
    /\ UNCHANGED <<known, dispatch, queued, worker, trades, closed, old, published>>

\* hard_delete_account: trades and the dispatch row go with the account.
delete_account(a) ==
    /\ Request
    /\ Live(a)
    /\ known' = [known EXCEPT ![a] = "deleted"]
    /\ dispatch' = [dispatch EXCEPT ![a] = "none"]
    /\ trades' = [trades EXCEPT ![a] = NoDeals]
    /\ UNCHANGED <<account, queued, worker, closed, old, published>>

\* Faulty variant of SyncLockFree: two syncs of one account may run at once.
SyncLockIgnored(a) == TRUE

Holding(w, a, where) ==
    worker[w] # NoTask /\ worker[w].msg.id = a /\ worker[w].at \in where

\* pg_try_advisory_xact_lock: the sync lock is held from the fetch to the
\* commit, the bootstrap lock from its grant to the first commit.
is_account_sync_locked(a) == \E w \in Workers : Holding(w, a, {"fetch", "ingest"})
SyncLockFree(a) == ~is_account_sync_locked(a)
BootstrapLockFree(a) ==
    ~\E w \in Workers : worker[w] # NoTask /\ worker[w].msg.id = a /\ worker[w].boot

\* One last_sync_attempted_at per account of the user.
list_recent_sync_attempts == {a \in TradingAccounts : Live(a) /\ account[a].attempted}

Publish(m) ==
    /\ published < MaxTasks /\ published' = published + 1
    /\ queued' = [queued EXCEPT ![m] = @ + 1]

BootstrapOf(a) == [kind |-> "bootstrap", id |-> a, retries |-> 0]
SyncOf(a) == [kind |-> "sync", id |-> a, retries |-> 0]

\* The checks of _check_manual_sync_admission.
check_manual_sync_admission(a) ==
    /\ ~is_account_sync_locked(a)
    /\ ~account[a].cooldown
    /\ Cardinality(list_recent_sync_attempts) < BurstMax

\* POST /accounts/{id}/sync, which does not look at is_archived.
manual_sync(a) ==
    /\ Request
    /\ Live(a) /\ check_manual_sync_admission(a)
    /\ account' = [account EXCEPT ![a].attempted = TRUE]
    /\ Publish(SyncOf(a))
    /\ UNCHANGED <<known, dispatch, worker, trades, closed, old>>

-----------------------------------------------------------------------------
(* Time and the broker.                                                    *)

\* next_sync_not_before is reached, or the burst window slides past.
TimePasses(a) ==
    /\ Live(a) /\ (account[a].cooldown \/ account[a].attempted)
    /\ \/ account' = [account EXCEPT ![a].cooldown = FALSE]
       \/ account' = [account EXCEPT ![a].attempted = FALSE]
    /\ UNCHANGED <<known, dispatch, queued, worker, trades, closed, old, requests, published>>

DealCloses ==
    /\ closed < MaxDeals /\ closed' = closed + 1
    /\ UNCHANGED <<account, known, dispatch, queued, worker, trades, old, requests, published>>

\* A deal becomes older than INITIAL_SYNC_LOOKBACK_DAYS.
DealAges ==
    /\ old < closed /\ old' = old + 1
    /\ UNCHANGED <<account, known, dispatch, queued, worker, trades, closed, requests, published>>

-----------------------------------------------------------------------------
(* The dispatch row.                                                       *)

\* dispatch_bootstrap_account, from the request or from the beat: publish,
\* then commit.  The commit may be lost, and the row is then claimed again;
\* when the publication fails the row only moves its available_at.
dispatch_bootstrap_account(a) ==
    /\ dispatch[a] = "scheduled"
    /\ Publish(BootstrapOf(a))
    /\ dispatch' \in {dispatch, [dispatch EXCEPT ![a] = "dispatched"]}
    /\ UNCHANGED <<account, known, worker, trades, closed, old, requests>>

-----------------------------------------------------------------------------
(* The tasks.                                                              *)

\* What the mt5-core client raises or returns to its callers.  A submission
\* the service refuses, a job it reports on, and the two combined.
_raise_submit_error(code) ==
    CASE code = 429 -> "rate_limited" [] code = 503 -> "backpressure" [] OTHER -> "error"

\* A job that no worker takes, or whose status cannot be read, is an error.
_poll_job == {"succeeded", "failed", "transient", "timeout", "error"}

\* A verification waits out 429 and 503 and repeats a transient failure once,
\* the second time as an error.
verify_credentials == {_raise_submit_error(500)} \cup (_poll_job \ {"transient"})

\* A history job passes on 429 and 503; a transient failure is an error too.
submit_history_sync ==
    {_raise_submit_error(code) : code \in {429, 503, 500}} \cup (_poll_job \ {"transient"})

Go(w, t) == worker' = [worker EXCEPT ![w] = t]
Ends(w) == Go(w, NoTask)

\* Flush and commit: the columns the task changed reach the row, unless the
\* row is gone, when the flush raises and the task fails.
Flushed(a, seen, new) ==
    [f \in DOMAIN new |-> IF new[f] # seen[f] THEN new[f] ELSE account[a][f]]

Commit(t, new) ==
    account' = IF Live(t.msg.id)
               THEN [account EXCEPT ![t.msg.id] = Flushed(t.msg.id, t.seen, new)]
               ELSE account

mark_account_verification_failed(r) ==
    [r EXCEPT !.state = "verification_failed", !.dataReady = FALSE]
mark_account_bootstrap_failed(r) ==
    [r EXCEPT !.state = "bootstrap_failed", !.dataReady = FALSE]
mark_account_bootstrapping(r) ==
    [r EXCEPT !.state = "bootstrapping", !.dataReady = FALSE]
mark_account_ready_for_stats(r, now) ==
    [r EXCEPT !.state = "ready", !.dataReady = TRUE, !.lastSynced = now,
              !.attempted = TRUE, !.cooldown = FALSE]
mark_sync_success(r, t) ==
    [r EXCEPT !.lastSynced = t.started, !.attempted = TRUE, !.cooldown = TRUE]
mark_sync_retryable(r) == [r EXCEPT !.attempted = TRUE, !.cooldown = TRUE]
mark_sync_attention_required(r) == [r EXCEPT !.attempted = TRUE]

\* A worker takes a message (Celery acknowledges it at once) and the task
\* loads the account; a missing or archived one ends it.
TaskStarts(w, m) ==
    /\ worker[w] = NoTask /\ queued[m] > 0
    /\ queued' = [queued EXCEPT ![m] = @ - 1] /\ UNCHANGED published
    /\ IF Live(m.id) /\ ~account[m.id].archived
       THEN Go(w, [msg |-> m, at |-> IF m.kind = "bootstrap" THEN "loaded" ELSE "lock",
                   seen |-> account[m.id], boot |-> FALSE, started |-> closed,
                   from |-> 0, history |-> NoDeals])
       ELSE Ends(w)
    /\ UNCHANGED <<account, known, dispatch, trades, closed, old, requests>>

\* try_account_bootstrap_lock, decrypt_secret, and the branch on the state.
BootstrapLocks(w) ==
    LET t == worker[w]
    IN  /\ t # NoTask /\ t.at = "loaded"
        /\ \/ /\ ~BootstrapLockFree(t.msg.id)
              /\ Ends(w) /\ UNCHANGED account
           \/ /\ BootstrapLockFree(t.msg.id) /\ t.seen.cred \notin Readable
              /\ Ends(w) /\ Commit(t, mark_account_verification_failed(t.seen))
           \/ /\ BootstrapLockFree(t.msg.id) /\ t.seen.cred \in Readable
              /\ Go(w, [t EXCEPT !.boot = TRUE,
                                   !.at = IF t.seen.state = "pending_verification"
                                          THEN "verify" ELSE "lock"])
              /\ UNCHANGED account
        /\ UNCHANGED <<known, dispatch, queued, trades, closed, old, requests, published>>

\* The verification answers.  Its success commits, which reloads the row and
\* lets the bootstrap lock go; a first unavailability rolls back and retries.
Verified(w) ==
    LET t == worker[w]
        a == t.msg.id
    IN  /\ t # NoTask /\ t.at = "verify"
        /\ \E outcome \in verify_credentials :
             \/ /\ outcome = "succeeded" /\ Live(a)
                /\ Commit(t, mark_account_bootstrapping(t.seen))
                /\ Go(w, [t EXCEPT !.at = "lock", !.boot = FALSE, !.seen = account'[a]])
                /\ UNCHANGED <<queued, published>>
             \/ /\ outcome = "succeeded" /\ ~Live(a)
                /\ Ends(w) /\ UNCHANGED <<account, queued, published>>
             \/ /\ outcome = "failed"
                /\ Commit(t, mark_account_verification_failed(t.seen))
                /\ Ends(w) /\ UNCHANGED <<queued, published>>
             \/ /\ outcome \in {"timeout", "error"} /\ t.msg.retries = 0
                /\ Publish([t.msg EXCEPT !.retries = 1])
                /\ Ends(w) /\ UNCHANGED account
             \/ /\ outcome \in {"timeout", "error"} /\ t.msg.retries = 1
                /\ Commit(t, mark_account_bootstrap_failed(t.seen))
                /\ Ends(w) /\ UNCHANGED <<queued, published>>
        /\ UNCHANGED <<known, dispatch, trades, closed, old, requests>>

\* sync_account_deals_mt5 up to its request.  A held lock, or an unreadable
\* password, raises HTTPException: a sync reports the first as in_progress,
\* a bootstrap catches neither and leaves the state as it is.
SyncLocks(w) ==
    LET t == worker[w]
    IN  /\ t # NoTask /\ t.at = "lock"
        /\ IF SyncLockFree(t.msg.id) /\ t.seen.cred \in Readable
           THEN Go(w, [t EXCEPT !.at = "fetch",
                                !.from = IF t.seen.lastSynced \in 0..old
                                         THEN t.seen.lastSynced ELSE old])
           ELSE Ends(w)
        /\ UNCHANGED <<account, known, dispatch, queued, trades, closed, old, requests, published>>

\* The history as mt5-core reads it: the deals closed since from_time, some
\* of them with their enrichment.
Reported(t) ==
    {h \in [Deals -> ReportedDetail] :
        \A d \in Deals : h[d] = "none" <=> ~(t.from < d /\ d <= closed)}

\* What orchestrate_mt5_sync, and bootstrap_account, make of a failure.
SyncFailed(outcome, r) ==
    IF outcome = "failed"
    THEN mark_sync_attention_required(mark_account_verification_failed(r))
    ELSE mark_sync_retryable(r)

BootstrapFailed(outcome, r) ==
    IF outcome = "failed" THEN mark_account_verification_failed(r)
                          ELSE mark_account_bootstrap_failed(r)

Fetched(w) ==
    LET t == worker[w]
    IN  /\ t # NoTask /\ t.at = "fetch"
        /\ \E outcome \in submit_history_sync :
             \/ /\ outcome = "succeeded"
                /\ \E h \in Reported(t) : Go(w, [t EXCEPT !.at = "ingest", !.history = h])
                /\ UNCHANGED account
             \/ /\ outcome # "succeeded"
                /\ Commit(t, IF t.msg.kind = "sync" THEN SyncFailed(outcome, t.seen)
                                                    ELSE BootstrapFailed(outcome, t.seen))
                /\ Ends(w)
        /\ UNCHANGED <<known, dispatch, queued, trades, closed, old, requests, published>>

\* The deals with a ticket, which delete_trades_outside_valid_broker_ids
\* keeps: all of the report.
valid_broker_trade_ids(h) == {d \in Deals : h[d] # "none"}

\* Trades of the window that the report does not name are deleted, but only
\* when it names some.
Cleaned(ts, t) ==
    IF valid_broker_trade_ids(t.history) = {} THEN ts
    ELSE [d \in Deals |->
            IF d > t.from /\ d \notin valid_broker_trade_ids(t.history)
            THEN "none" ELSE ts[d]]

\* The rows ingest_closed_deals keeps: deals without a timestamp are skipped.
rows_to_upsert(h) == {d \in Deals : h[d] \in {"plain", "enriched"}}

\* bulk_upsert_closed_trades: the enrichment on file survives a report
\* without it (coalesce).
Upserted(ts, h) ==
    [d \in Deals |->
        IF d \notin rows_to_upsert(h) THEN ts[d]
        ELSE IF "enriched" \in {ts[d], h[d]} THEN "enriched" ELSE "plain"]

\* ingest_mt5_core_history_result and what the caller marks, in the
\* transaction that holds the sync lock.
Ingested(w) ==
    LET t == worker[w]
        a == t.msg.id
    IN  /\ t # NoTask /\ t.at = "ingest"
        /\ trades' = IF Live(a) THEN [trades EXCEPT ![a] = Upserted(Cleaned(@, t), t.history)]
                     ELSE trades
        /\ Commit(t, IF t.msg.kind = "sync" THEN mark_sync_success(t.seen, t)
                     ELSE mark_account_ready_for_stats(t.seen, closed))
        /\ Ends(w)
        /\ UNCHANGED <<known, dispatch, queued, closed, old, requests, published>>

\* The worker process dies: its transaction rolls back and its message is lost.
WorkerDies(w) ==
    /\ worker[w] # NoTask /\ Ends(w)
    /\ UNCHANGED <<account, known, dispatch, queued, trades, closed, old, requests, published>>

-----------------------------------------------------------------------------
AcctNext ==
    \/ \E a \in TradingAccounts :
         \/ \E c \in Credentials : connect_account(a, c)
         \/ disconnect_account(a) \/ unarchive_account(a) \/ delete_account(a)
         \/ manual_sync(a) \/ TimePasses(a) \/ dispatch_bootstrap_account(a)
    \/ DealCloses \/ DealAges
    \/ \E w \in Workers :
         \/ \E m \in Message : TaskStarts(w, m)
         \/ BootstrapLocks(w) \/ Verified(w) \/ SyncLocks(w)
         \/ Fetched(w) \/ Ingested(w) \/ WorkerDies(w)

AcctSpec == AcctInit /\ [][AcctNext]_acctVars

-----------------------------------------------------------------------------
\* Whatever tasks overlap, die or repeat, a trade in the journal of an
\* account leaves it only when the account is deleted, and its enrichment is
\* never lost: an import that read the broker's history before another one
\* does not delete or blank what the other has written since.
JournalKeepsTrades ==
    [][\A a \in TradingAccounts, d \in Deals :
         known'[a] # "deleted" =>
            /\ trades[a][d] # "none" => trades'[a][d] # "none"
            /\ trades[a][d] = "enriched" => trades'[a][d] = "enriched"]_acctVars
=============================================================================
