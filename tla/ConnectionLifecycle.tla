------------------------- MODULE ConnectionLifecycle -------------------------
(***************************************************************************)
(* The life of one copy-trading connection and of the route that targets   *)
(* it: the requests of its user (service.py, router.py), the provisioning  *)
(* and cleanup jobs (metaapi_jobs.py, metaapi_provisioning.py) and the     *)
(* writers that report whether the terminal can be reached: the warm-up    *)
(* and the execution handler (metaapi_execution.py).                       *)
(*                                                                         *)
(* A request reads and commits without waiting for anybody and is one      *)
(* step.  A job is a step per commit, with the provider's answer before    *)
(* it: what it read may be minutes old when it writes.  Sessions write as  *)
(* SQLAlchemy does: Flush emits only the columns that differ from what     *)
(* the session has loaded, and a commit makes it load the row again.  The  *)
(* report of a watcher is two steps, its SELECTs and its commit: nothing   *)
(* locks the rows in between.                                              *)
(*                                                                         *)
(* The account that MetaApi creates for transaction n is n; 0 is none.     *)
(***************************************************************************)
EXTENDS Integers

CONSTANTS
    Workers,      \* threads that run provisioning_handler, in any process
    Watchers,     \* threads that run the warm-up or execution_handler
    HasRoute,     \* does a route target the connection?
    MaxTxn,       \* bound: provisioning transactions, one per (re)creation
    MaxRetries,   \* bound: how often the user retries
    MaxFaults,    \* bound: killed jobs and requests that die before publishing
    LeaseOverrun  \* may a job outlive its provisioning lock?

NoOwner == "nobody"
Orphan == "orphan"

ASSUME LifecycleAssumption ==
    /\ MaxTxn \in Nat /\ MaxRetries \in Nat /\ MaxFaults \in Nat
    /\ HasRoute \in BOOLEAN /\ LeaseOverrun \in BOOLEAN
    /\ NoOwner \notin Workers /\ Orphan \notin Workers

Txns == 1..MaxTxn
Events == {"provision", "delete"} \X Txns

VARIABLES
    conn,       \* the row of copy_trading_connections; txn = 0: not created
    route,      \* the row of copy_routes: state and paused_from_state
    provider,   \* MetaApi: the account of each transaction
    due,        \* events published on metaapi_provisioning, not acknowledged
    processed,  \* events whose idempotency key is marked as processed
    lock,       \* holder of copy:metaapi:provisioning-lock
    job,        \* what each provisioning thread is doing
    watch,      \* what each watcher is doing
    wanted,     \* history: the user's last word on the route was to copy
    overturned, \* history: a report selected before the user's stop was committed after it
    retries, faults

database == <<conn, route>>
stream == <<due, processed>>
vars == <<database, provider, stream, lock, job, watch, wanted,
          overturned, retries, faults>>

\* "failed" stands for the failures nothing but the user reacts to: bad
\* credentials, unknown server, provisioning, synchronization, no trading.
ConnectionStates == {"none", "submitted", "provisioning", "deploying", "connecting",
                     "synchronizing", "ready", "failed", "disconnected",
                     "deleting", "deleted"}
RouteStates == {"ready", "active", "paused", "unavailable"}

Rows == [state : ConnectionStates, account : 0..MaxTxn, creds : BOOLEAN, txn : 0..MaxTxn]
Routes == [state : RouteStates, from : RouteStates \cup {"none"}]

NoRow == [state |-> "none", account |-> 0, creds |-> FALSE, txn |-> 0]
NewRoute == [state |-> "ready", from |-> "none"]
NoEvent == <<"none", 0>>
IdleJob == [at |-> "idle", event |-> NoEvent, seen |-> NoRow, result |-> "none"]
IdleWatch == [at |-> "idle", ok |-> FALSE, seen |-> "none", route |-> NewRoute,
              hit |-> FALSE, late |-> FALSE]

JobSteps == {"idle", "lock", "load", "mark", "create", "save", "deploy", "connect",
             "attach", "validate", "clean", "remove", "erase", "release", "settle"}

TypeOK ==
    /\ conn \in Rows /\ route \in Routes
    /\ provider \in [Txns -> {"none", "pending", "alive", "removed"}]
    /\ due \subseteq Events /\ processed \subseteq Events
    /\ lock \in Workers \cup {NoOwner, Orphan}
    /\ job \in [Workers -> [at : JobSteps, event : Events \cup {NoEvent}, seen : Rows,
                            result : {"none", "success", "retry"}]]
    /\ \A w \in Workers : IF job[w].at = "idle" THEN job[w] = IdleJob
                           ELSE job[w].event \in Events
    /\ watch \in [Watchers -> [at : {"idle", "warm", "execute", "write"}, ok : BOOLEAN,
                               seen : ConnectionStates, route : Routes,
                               hit : BOOLEAN, late : BOOLEAN]]
    /\ wanted \in BOOLEAN /\ overturned \in BOOLEAN
    /\ retries \in 0..MaxRetries /\ faults \in 0..MaxFaults

Init ==
    /\ conn = NoRow /\ route = NewRoute
    /\ provider = [n \in Txns |-> "none"]
    /\ due = {} /\ processed = {}
    /\ lock = NoOwner
    /\ job = [w \in Workers |-> IdleJob]
    /\ watch = [v \in Watchers |-> IdleWatch]
    /\ wanted = FALSE /\ overturned = FALSE
    /\ retries = 0 /\ faults = 0
-----------------------------------------------------------------------------
(***************************************************************************)
(* Requests.  The event is published after the commit, if the request gets *)
(* that far.                                                               *)
(***************************************************************************)
Publish(e) ==
    \/ due' = due \cup {e} /\ UNCHANGED faults
    \/ faults < MaxFaults /\ faults' = faults + 1 /\ UNCHANGED due

\* Remember the user's word w on the route: reports that have selected it and
\* not committed yet come too late for a word that stops it.
Word(w) ==
    /\ wanted' = w
    /\ overturned' = FALSE
    /\ watch' = [v \in Watchers |-> [watch[v] EXCEPT !.late = ~w /\ watch[v].hit]]

\* A new row, or the deleted row of the same broker account, reused.
CreateConnection ==
    /\ conn.txn = 0 \/ conn.state = "deleted"
    /\ conn.txn < MaxTxn
    /\ conn' = [state |-> "submitted", account |-> 0, creds |-> TRUE, txn |-> conn.txn + 1]
    /\ Publish(<<"provision", conn'.txn>>)
    /\ UNCHANGED <<route, provider, processed, lock, job, watch, wanted, overturned,
                   retries>>

RetryConnection ==
    /\ conn.txn > 0 /\ conn.state \notin {"deleting", "deleted"}
    /\ retries < MaxRetries /\ retries' = retries + 1
    /\ conn' = [conn EXCEPT !.state = "provisioning"]
    /\ Publish(<<"provision", conn.txn>>)
    /\ UNCHANGED <<route, provider, processed, lock, job, watch, wanted, overturned>>

\* pause_routes_for_connection and pause_route do this to a route.
Paused(r) == IF r.state = "paused" THEN r ELSE [state |-> "paused", from |-> r.state]

DeleteConnection ==
    /\ conn.txn > 0 /\ conn.state # "deleted"
    /\ conn' = [conn EXCEPT !.state = "deleting"]
    /\ route' = IF HasRoute THEN Paused(route) ELSE route
    /\ Word(FALSE)
    /\ Publish(<<"delete", conn.txn>>)
    /\ UNCHANGED <<provider, processed, lock, job, retries>>

ActivateRoute ==
    /\ HasRoute /\ conn.state = "ready"
    /\ route' = [route EXCEPT !.state = "active"]
    /\ Word(TRUE)
    /\ UNCHANGED <<conn, provider, stream, lock, job, retries, faults>>

PauseRoute ==
    /\ HasRoute /\ route.state # "paused"
    /\ route' = Paused(route)
    /\ Word(FALSE)
    /\ UNCHANGED <<conn, provider, stream, lock, job, retries, faults>>

\* What a route goes back to: paused_from_state or ready.
Before(r) == [state |-> IF r.from = "none" THEN "ready" ELSE r.from, from |-> "none"]

ResumeRoute ==
    /\ route.state = "paused"
    /\ route' = Before(route)
    /\ Word(TRUE)
    /\ UNCHANGED <<conn, provider, stream, lock, job, retries, faults>>
-----------------------------------------------------------------------------
(***************************************************************************)
(* Delivery to provisioning_handler, as StreamWorker gives it.             *)
(***************************************************************************)
JobAt(w, where) == job[w].at = where
Goto(w, where) == job' = [job EXCEPT ![w].at = where]
Return(w, r) == job' = [job EXCEPT ![w] =
    [IdleJob EXCEPT !.at = "release", !.event = job[w].event, !.result = r]]

\* The thread is done with its event: nothing of the session survives.
Reset(w) == job' = [job EXCEPT ![w] = IdleJob]

TakeEvent(w, e) ==
    /\ JobAt(w, "idle")
    /\ e \in due
    /\ IF e \in processed
       THEN due' = due \ {e} /\ UNCHANGED job
       ELSE job' = [job EXCEPT ![w] = [IdleJob EXCEPT !.at = "lock", !.event = e]]
            /\ UNCHANGED due
    /\ UNCHANGED <<database, provider, processed, lock, watch, wanted,
                   overturned, retries, faults>>

\* Faulty variant of Busy: nobody looks at the lock.
NeverBusy == FALSE

\* SET NX on the lock's key fails.
Busy == lock # NoOwner

AcquireLock(w) ==
    /\ JobAt(w, "lock")
    /\ IF Busy
       THEN Return(w, "retry") /\ UNCHANGED lock
       ELSE Goto(w, "load") /\ lock' = w
    /\ UNCHANGED <<database, provider, stream, watch, wanted, overturned,
                   retries, faults>>

\* The finally of the handler: the lock is released if it is still the job's.
ReleaseLock(w) ==
    /\ JobAt(w, "release")
    /\ lock' = IF lock = w THEN NoOwner ELSE lock
    /\ Goto(w, "settle")
    /\ UNCHANGED <<database, provider, stream, watch, wanted, overturned,
                   retries, faults>>

\* mark_provisioning_retry_exhausted.
Exhausted(row) ==
    IF row.state = "provisioning" /\ row.account = 0
    THEN [row EXCEPT !.state = "failed"] ELSE row

\* Success marks the key and acknowledges; a retry leaves the event pending
\* until its attempts are exhausted, when it becomes a dead letter that belongs
\* to no user and so is never replayed.
Settle(w) ==
    LET e == job[w].event
        r == job[w].result IN
    /\ JobAt(w, "settle")
    /\ \/ /\ r = "success"
          /\ due' = due \ {e} /\ processed' = processed \cup {e}
          /\ UNCHANGED conn
       \/ r = "retry" /\ UNCHANGED <<stream, conn>>
       \/ /\ r = "retry"
          /\ conn' = Exhausted(conn)
          /\ due' = due \ {e} /\ UNCHANGED processed
    /\ Reset(w)
    /\ UNCHANGED <<route, provider, lock, watch, wanted, overturned, retries,
                   faults>>

\* The process that runs w is killed.
Crash(w) ==
    /\ ~JobAt(w, "idle")
    /\ faults < MaxFaults /\ faults' = faults + 1
    /\ Reset(w)
    /\ lock' = IF lock = w THEN Orphan ELSE lock
    /\ UNCHANGED <<database, provider, stream, watch, wanted, overturned,
                   retries>>

LeaseExpires ==
    /\ lock = Orphan \/ (LeaseOverrun /\ lock \in Workers)
    /\ lock' = NoOwner
    /\ UNCHANGED <<database, provider, stream, job, watch, wanted, overturned,
                   retries, faults>>
-----------------------------------------------------------------------------
(***************************************************************************)
(* Sessions.                                                               *)
(***************************************************************************)

\* The row after a commit of `new` by a session that had loaded `seen`.
Flush(row, seen, new) == [c \in DOMAIN row |-> IF new[c] = seen[c] THEN row[c] ELSE new[c]]

\* Job w commits `new`, loads the row again and goes on.
CommitJob(w, new, where) ==
    /\ conn' = Flush(conn, job[w].seen, new)
    /\ job' = [job EXCEPT ![w].at = where, ![w].seen = conn']

\* Job w commits `new` and returns r.
CommitAndReturn(w, new, r) ==
    /\ conn' = Flush(conn, job[w].seen, new)
    /\ Return(w, r)

WithState(w, s) == [job[w].seen EXCEPT !.state = s]

\* The row is loaded: a job for an erased connection has nothing to provision.
LoadConnection(w) ==
    /\ JobAt(w, "load")
    /\ job' = [job EXCEPT ![w].seen = conn,
                          ![w].at = IF job[w].event[1] = "delete" THEN "clean"
                                    ELSE IF ~conn.creds THEN "attach"
                                    ELSE IF conn.account = 0 THEN "mark" ELSE "save"]
    /\ UNCHANGED <<database, provider, stream, lock, watch, wanted,
                   overturned, retries, faults>>

(***************************************************************************)
(* MetaApiProvisioningService.provision and the end of the handler.        *)
(***************************************************************************)
MarkProvisioning(w) ==
    /\ JobAt(w, "mark")
    /\ CommitJob(w, WithState(w, "provisioning"), "create")
    /\ UNCHANGED <<route, provider, stream, lock, watch, wanted, overturned,
                   retries, faults>>

\* create_account was accepted (202) and is not finished: poll again.
CreateAccepted(w) ==
    LET n == job[w].seen.txn IN
    /\ JobAt(w, "create")
    /\ provider[n] \in {"none", "pending"}
    /\ provider' = [provider EXCEPT ![n] = "pending"]
    /\ Return(w, "retry")
    /\ UNCHANGED <<database, stream, lock, watch, wanted, overturned, retries,
                   faults>>

\* create_account answers with the account of the transaction (201).
CreateDone(w) ==
    LET n == job[w].seen.txn IN
    /\ JobAt(w, "create")
    /\ provider[n] # "removed"
    /\ provider' = [provider EXCEPT ![n] = "alive"]
    /\ Goto(w, "save")
    /\ UNCHANGED <<database, stream, lock, watch, wanted, overturned, retries,
                   faults>>

\* The request reaches MetaApi but its answer is lost.
CreateUnanswered(w) ==
    LET n == job[w].seen.txn IN
    /\ JobAt(w, "create")
    /\ provider[n] = "none"
    /\ provider' = [provider EXCEPT ![n] = "pending"]
    /\ CommitAndReturn(w, WithState(w, "failed"), "retry")
    /\ UNCHANGED <<route, stream, lock, watch, wanted, overturned, retries,
                   faults>>

\* MetaApi finishes an accepted request by itself.
ProviderFinishes(n) ==
    /\ provider[n] = "pending"
    /\ provider' = [provider EXCEPT ![n] = "alive"]
    /\ UNCHANGED <<database, stream, lock, job, watch, wanted, overturned,
                   retries, faults>>

\* The new account's id, if there is one, is committed with "deploying".
SaveAccount(w) ==
    LET seen == job[w].seen
        id == IF seen.account = 0 THEN seen.txn ELSE seen.account IN
    /\ JobAt(w, "save")
    /\ CommitJob(w, [seen EXCEPT !.account = id, !.state = "deploying"], "deploy")
    /\ UNCHANGED <<route, provider, stream, lock, watch, wanted, overturned,
                   retries, faults>>

\* get_account, deploy and wait_deployed.
Deployed(w) ==
    /\ JobAt(w, "deploy")
    /\ job[w].seen.account # 0 /\ provider[job[w].seen.account] = "alive"
    /\ CommitJob(w, WithState(w, "connecting"), "connect")
    /\ UNCHANGED <<route, provider, stream, lock, watch, wanted, overturned,
                   retries, faults>>

\* wait_connected.  The state is expired in the session, so it is written.
Connected(w) ==
    /\ JobAt(w, "connect")
    /\ conn' = [conn EXCEPT !.state = "synchronizing"]
    /\ job' = [job EXCEPT ![w].at = "attach", ![w].seen = conn']
    /\ UNCHANGED <<route, provider, stream, lock, watch, wanted, overturned,
                   retries, faults>>

\* The errors of classify_provisioning_error and classify_metaapi_sdk_error.
ProvisionError(w, s, r) ==
    /\ JobAt(w, "create") \/ JobAt(w, "deploy") \/ JobAt(w, "connect")
    /\ s = "failed" \/ (s = "disconnected" /\ JobAt(w, "connect") /\ r = "retry")
    /\ CommitAndReturn(w, WithState(w, s), r)
    /\ UNCHANGED <<route, provider, stream, lock, watch, wanted, overturned,
                   retries, faults>>

\* runtime.acquire opens the account's streaming connection, or raises.
Attach(w) ==
    LET n == job[w].seen.account IN
    /\ JobAt(w, "attach")
    /\ \/ n = 0 /\ Return(w, "success")
       \/ n # 0 /\ provider[n] = "alive" /\ Goto(w, "validate")
       \/ n # 0 /\ Return(w, "retry")
    /\ UNCHANGED <<database, provider, stream, lock, watch, wanted,
                   overturned, retries, faults>>

\* validate_terminal_account accepts the account or not.
Validate(w, s) ==
    /\ JobAt(w, "validate")
    /\ s \in {"ready", "failed"}
    /\ CommitAndReturn(w, WithState(w, s), "success")
    /\ UNCHANGED <<route, provider, stream, lock, watch, wanted, overturned,
                   retries, faults>>

(***************************************************************************)
(* MetaApiProvisioningService.cleanup.                                     *)
(***************************************************************************)
\* runtime.close_account raises.
CloseFails(w) ==
    /\ JobAt(w, "clean") /\ job[w].seen.account # 0
    /\ Return(w, "retry")
    /\ UNCHANGED <<database, provider, stream, lock, watch, wanted,
                   overturned, retries, faults>>

MarkDeleting(w) ==
    /\ JobAt(w, "clean")
    /\ CommitJob(w, WithState(w, "deleting"), "remove")
    /\ UNCHANGED <<route, provider, stream, lock, watch, wanted, overturned,
                   retries, faults>>

\* Faulty variant of RemoveAccount: an account that cannot be removed counts as
\* removed.
RemoveAccountOrGiveUp(w) ==
    /\ JobAt(w, "remove")
    /\ Goto(w, "erase") /\ UNCHANGED provider
    /\ UNCHANGED <<database, stream, lock, watch, wanted, overturned, retries,
                   faults>>

\* The account, if the row has one, is undeployed and removed; a provider that
\* cannot be reached, or an account it does not know, raises.
RemoveAccount(w) ==
    LET n == job[w].seen.account IN
    /\ JobAt(w, "remove")
    /\ \/ n = 0 /\ Goto(w, "erase") /\ UNCHANGED provider
       \/ n # 0 /\ provider[n] = "alive" /\ Goto(w, "erase")
          /\ provider' = [provider EXCEPT ![n] = "removed"]
       \/ n # 0 /\ Return(w, "retry") /\ UNCHANGED provider
    /\ UNCHANGED <<database, stream, lock, watch, wanted, overturned, retries,
                   faults>>

\* What cleanup leaves of the row.
Erased(row) == [state |-> "deleted", account |-> 0, creds |-> FALSE, txn |-> row.txn]

EraseConnection(w) ==
    /\ JobAt(w, "erase")
    /\ CommitAndReturn(w, Erased(job[w].seen), "success")
    /\ UNCHANGED <<route, provider, stream, lock, watch, wanted, overturned,
                   retries, faults>>
-----------------------------------------------------------------------------
(***************************************************************************)
(* Watchers.  Each reads the connection, tries its terminal for up to two  *)
(* minutes and then reports what it found: it selects the rows to change   *)
(* and commits the change, without locking them in between.                *)
(***************************************************************************)
Reachable == {"ready", "disconnected"}

\* warm_active_copy_connections selects the connection and tries it.
WarmStart(v, ok) ==
    /\ watch[v].at = "idle"
    /\ route.state \in {"active", "unavailable"}
    /\ conn.state \in Reachable /\ conn.account # 0
    /\ ok => provider[conn.account] = "alive"
    /\ watch' = [watch EXCEPT ![v].at = "warm", ![v].ok = ok]
    /\ UNCHANGED <<database, provider, stream, lock, job, wanted, overturned,
                   retries, faults>>

\* execution_handler: the rows as it loaded them passed its guard.
ExecuteStart(v, ok) ==
    /\ watch[v].at = "idle"
    /\ route.state = "active"
    /\ conn.state \in Reachable /\ conn.account # 0
    /\ ok => provider[conn.account] = "alive"
    /\ watch' = [watch EXCEPT ![v] = [IdleWatch EXCEPT !.at = "execute", !.ok = ok,
                                      !.seen = conn.state, !.route = route]]
    /\ UNCHANGED <<database, provider, stream, lock, job, wanted, overturned,
                   retries, faults>>

\* The state of the connection that a watcher reports.
Health(ok) == IF ok THEN "ready" ELSE "disconnected"

\* Faulty variant of Selected: routes are selected whatever their state.
SelectedAlways(ok) == HasRoute

\* The SELECT of mark_routes_target_unavailable takes active routes, that of
\* restore_routes_after_target_recovery unavailable ones.
Selected(ok) == route.state = (IF ok THEN "unavailable" ELSE "active")

\* What the two make of a route that the session has loaded as `seen`.
Reported(seen, ok) ==
    IF ok THEN Before(seen) ELSE [state |-> "unavailable", from |-> seen.state]

\* The warm-up opens a session for its report: it loads the rows now.
WarmRead(v) ==
    /\ watch[v].at = "warm"
    /\ watch' = [watch EXCEPT ![v] =
          [at |-> "write", ok |-> watch[v].ok, seen |-> conn.state,
           route |-> IF Selected(watch[v].ok) THEN route ELSE NewRoute,
           hit |-> Selected(watch[v].ok), late |-> FALSE]]
    /\ UNCHANGED <<database, provider, stream, lock, job, wanted, overturned,
                   retries, faults>>

\* The session of execution_handler has loaded the rows before it tried the
\* terminal: the database selects the route, the session's copy is changed.
ExecuteRead(v) ==
    /\ watch[v].at = "execute"
    /\ watch' = [watch EXCEPT ![v].at = "write", ![v].hit = Selected(watch[v].ok)]
    /\ UNCHANGED <<database, provider, stream, lock, job, wanted, overturned,
                   retries, faults>>

\* The commit of the report.
CommitReport(v) ==
    LET r == watch[v] IN
    /\ r.at = "write"
    /\ conn' = IF r.seen = Health(r.ok) THEN conn ELSE [conn EXCEPT !.state = Health(r.ok)]
    /\ route' = IF r.hit THEN Flush(route, r.route, Reported(r.route, r.ok)) ELSE route
    /\ overturned' = (overturned \/ (r.hit /\ r.late))
    /\ watch' = [watch EXCEPT ![v] = IdleWatch]
    /\ UNCHANGED <<provider, stream, lock, job, wanted, retries, faults>>

\* The handler, or the process, ends before it commits.
WatchAborts(v) ==
    /\ watch[v].at # "idle"
    /\ watch' = [watch EXCEPT ![v] = IdleWatch]
    /\ UNCHANGED <<database, provider, stream, lock, job, wanted, overturned,
                   retries, faults>>
-----------------------------------------------------------------------------
Request ==
    \/ CreateConnection \/ RetryConnection \/ DeleteConnection
    \/ ActivateRoute \/ PauseRoute \/ ResumeRoute

Provision(w) ==
    \/ MarkProvisioning(w) \/ CreateAccepted(w) \/ CreateDone(w) \/ CreateUnanswered(w)
    \/ SaveAccount(w) \/ Deployed(w) \/ Connected(w) \/ Attach(w)
    \/ \E s \in {"failed", "disconnected"}, r \in {"success", "retry"} : ProvisionError(w, s, r)
    \/ \E s \in {"ready", "failed"} : Validate(w, s)

Cleanup(w) == CloseFails(w) \/ MarkDeleting(w) \/ RemoveAccount(w) \/ EraseConnection(w)

Job(w) ==
    \/ AcquireLock(w) \/ LoadConnection(w) \/ Provision(w) \/ Cleanup(w)
    \/ ReleaseLock(w) \/ Settle(w)

Watch(v) ==
    \/ \E ok \in BOOLEAN : WarmStart(v, ok) \/ ExecuteStart(v, ok)
    \/ WarmRead(v) \/ ExecuteRead(v) \/ CommitReport(v) \/ WatchAborts(v)

Next ==
    \/ Request
    \/ \E w \in Workers : Job(w) \/ Crash(w)
    \/ \E w \in Workers, e \in Events : TakeEvent(w, e)
    \/ \E v \in Watchers : Watch(v)
    \/ \E n \in Txns : ProviderFinishes(n)
    \/ LeaseExpires

Safety == Init /\ [][Next]_vars

(***************************************************************************)
(* Jobs run and end; due events are taken; a pending event is not retried  *)
(* for ever, since its attempts are counted; an orphaned lock expires.     *)
(***************************************************************************)
Fairness ==
    /\ \A w \in Workers : /\ WF_vars(Job(w))
                          /\ SF_vars(Settle(w) /\ due' # due)
    /\ \A e \in Events : SF_vars(\E w \in Workers : TakeEvent(w, e))
    /\ WF_vars(LeaseExpires)

Spec == Safety /\ Fairness
-----------------------------------------------------------------------------
(***************************************************************************)
(* A deleted connection keeps neither the trader password nor a MetaApi    *)
(* account, although provisioning jobs, users and watchers write the row   *)
(* while it is cleaned up ("Remove encrypted credentials ... Mark the      *)
(* local connection deleted").  It needs jobs not to outlive their lock.   *)
(***************************************************************************)
DeletedIsErased ==
    conn.state = "deleted" => conn.account = 0 /\ ~conn.creds

(***************************************************************************)
(* The row never names the account of an earlier transaction: a job that   *)
(* was started before a connection was deleted and created anew does not   *)
(* write the old account into it.                                          *)
(***************************************************************************)
AccountOfTransaction == conn.account \in {0, conn.txn}

(***************************************************************************)
(* An account that the row names is only forgotten after MetaApi removed   *)
(* it: whoever writes the row never drops an account that is still billed. *)
(***************************************************************************)
NoAccountForgotten ==
    [][conn.account # 0 /\ conn'.account # conn.account
          => provider[conn.account] = "removed"]_vars

(***************************************************************************)
(* A route copies only if its user's last word was to copy, with one       *)
(* exception: a report of an unavailable or recovered terminal that had    *)
(* selected the route before it was paused, or its connection deleted, and *)
(* was committed afterwards.  A report that selects the route later never  *)
(* starts it, however long ago its session loaded the rows.                *)
(***************************************************************************)
ActiveIsWanted == route.state \in {"active", "unavailable"} => wanted \/ overturned

(***************************************************************************)
(* The same without the exception: the SELECT and the commit of a report   *)
(* are not one step, and the code does not keep it.                        *)
(***************************************************************************)
StoppedStaysStopped == route.state \in {"active", "unavailable"} => wanted

(***************************************************************************)
(* "Move an unfinished provider transaction out of the provisioning        *)
(* spinner": provisioning ends.                                            *)
(***************************************************************************)
ProvisioningEnds == (conn.state = "provisioning") ~> (conn.state # "provisioning")
=============================================================================
