--------------------------- MODULE IntentExecution ---------------------------
(***************************************************************************)
(* Execution of trade intents against one copy-trading connection          *)
(* (metaapi_execution.py): execution_handler for market opens and full     *)
(* closes, reconcile_intent, the sweep of unresolved intents and the       *)
(* reconciliation of copied trades, over a database, a Redis lock and a    *)
(* broker terminal that is external.                                       *)
(*                                                                         *)
(* Delivery is what StreamWorker gives: an event that is due may be taken  *)
(* by any thread, by several at once (a pending message is reclaimed after *)
(* five seconds whether or not it is being handled), and again after a     *)
(* retry or a crash; an exhausted retry becomes a dead letter that a user  *)
(* can replay.                                                             *)
(*                                                                         *)
(* A step ends at a database commit, a Redis call or a broker call.        *)
(***************************************************************************)
EXTENDS Integers, FiniteSets

CONSTANTS
    Opens,        \* intents that open a market position
    Closes,       \* intents that close the position of another intent
    Target,       \* Target[c] is the open intent whose position c closes
    Threads,      \* threads that run handlers, in any number of processes
    MaxOpen,      \* policy.max_open_positions
    Overlap,      \* may two deliveries about one intent be handled at once?
    LeaseOverrun, \* may a handler outlive the lease of its connection lock?
    MaxCrashes    \* bound: how often a thread's process is killed

Intents == Opens \cup Closes

NoOwner == "nobody"     \* the connection lock is free
Orphan == "orphan"      \* it is held by a process that died

ASSUME ExecutionAssumption ==
    /\ Opens \cap Closes = {}
    /\ IsFiniteSet(Opens)
    /\ Target \in [Closes -> Opens]
    /\ MaxOpen \in Nat /\ MaxCrashes \in Nat
    /\ Overlap \in BOOLEAN /\ LeaseOverrun \in BOOLEAN
    /\ NoOwner \notin Threads /\ Orphan \notin Threads

Events == {"execute", "reconcile"} \X Intents
NoEvent == <<"none", "none">>

VARIABLES
    state,      \* TradeIntent.state, "absent"/"published" before its commit
    tries,      \* TradeIntent.attempt_count, only compared with 0: 0 or 1
    trade,      \* CopiedTrade of an open intent: its lifecycle_state
    paused,     \* user settings or account policy pause, read under the lock
    routeOn,    \* the route is active
    sent,       \* broker: operations it has carried out for an intent
    live,       \* broker: positions now open for an open intent
    synced,     \* the synchronized terminal state shows the intent's operation
    aged,       \* the intent is older than COPY_TRADING_UNCERTAIN_MAX_AGE
    lock,       \* holder of copy:connection-lock
    due,        \* events that are published and not acknowledged
    letters,    \* dead letters waiting for a replay
    thread,     \* what each thread is doing
    sincePause, \* history: broker calls begun since the last pause
    crashes

database == <<state, tries, trade, paused, routeOn>>
broker == <<sent, live, synced>>
stream == <<due, letters>>
vars == <<database, broker, stream, aged, lock, thread, sincePause, crashes>>

Idle == [at |-> "idle", event |-> NoEvent, tries |-> 0, on |-> FALSE,
         copied |-> FALSE, result |-> "none"]

States == {"absent", "published", "discarded", "created", "retryable",
           "submitted", "uncertain", "reconciling", "confirmed", "failed"}
Executable == {"created", "retryable"}
Unresolved == {"uncertain", "reconciling"}
Resolved == {"confirmed", "failed"}

ExecuteSteps == {"load", "lock", "guard", "connect", "quality", "submit", "call",
                 "confirm", "reject", "unsure", "publish"}
ReconcileSteps == {"rload", "rmark", "search", "found", "missing"}

TypeOK ==
    /\ state \in [Intents -> States]
    /\ tries \in [Intents -> {0, 1}]
    /\ trade \in [Opens -> {"none", "open", "closed"}]
    /\ paused \in BOOLEAN /\ routeOn \in BOOLEAN
    /\ sent \in [Intents -> Nat]
    /\ live \in [Opens -> Nat]
    /\ synced \in [Intents -> BOOLEAN]
    /\ aged \in [Intents -> BOOLEAN]
    /\ lock \in Threads \cup {NoOwner, Orphan}
    /\ due \subseteq Events /\ letters \subseteq Events
    /\ thread \in [Threads -> {Idle} \cup
          [at : ExecuteSteps \cup ReconcileSteps \cup {"finish"}, event : Events,
           tries : {0, 1}, on : BOOLEAN, copied : BOOLEAN,
           result : {"none", "success", "retry"}]]
    /\ sincePause \in Nat
    /\ crashes \in 0..MaxCrashes

Init ==
    /\ state = [i \in Intents |-> "absent"]
    /\ tries = [i \in Intents |-> 0]
    /\ trade = [o \in Opens |-> "none"]
    /\ paused = FALSE /\ routeOn = TRUE
    /\ sent = [i \in Intents |-> 0]
    /\ live = [o \in Opens |-> 0]
    /\ synced = [i \in Intents |-> FALSE]
    /\ aged = [i \in Intents |-> FALSE]
    /\ lock = NoOwner
    /\ due = {} /\ letters = {}
    /\ thread = [t \in Threads |-> Idle]
    /\ sincePause = 0
    /\ crashes = 0

At(t, where) == thread[t].at = where
Intent(t) == thread[t].event[2]
Goto(t, where) == thread' = [thread EXCEPT ![t].at = where]
Answer(t, r) == thread' = [thread EXCEPT ![t].at = "finish", ![t].result = r]
SetState(i, s) == state' = [state EXCEPT ![i] = s]

\* The thread is done with its event: nothing of the session survives.
Clear(t) == thread' = [thread EXCEPT ![t] = Idle]
-----------------------------------------------------------------------------
(***************************************************************************)
(* The signal worker adds the intent and publishes intent.execute before   *)
(* its own commit, which may still fail.                                   *)
(***************************************************************************)
PublishIntent(i) ==
    /\ state[i] = "absent"
    /\ SetState(i, "published")
    /\ due' = due \cup {<<"execute", i>>}
    /\ UNCHANGED <<tries, trade, paused, routeOn, broker, letters, aged, lock,
                   thread, sincePause, crashes>>

CommitIntent(i, s) ==
    /\ state[i] = "published"
    /\ SetState(i, s)
    /\ UNCHANGED <<tries, trade, paused, routeOn, broker, stream, aged, lock,
                   thread, sincePause, crashes>>
-----------------------------------------------------------------------------
(***************************************************************************)
(* Delivery.                                                               *)
(***************************************************************************)
Take(t, e) ==
    /\ thread[t] = Idle
    /\ e \in due
    /\ Overlap \/ \A u \in Threads : thread[u] # Idle => Intent(u) # e[2]
    /\ thread' = [thread EXCEPT ![t] =
          [Idle EXCEPT !.at = IF e[1] = "execute" THEN "load" ELSE "rload", !.event = e]]
    /\ UNCHANGED <<database, broker, stream, aged, lock, sincePause, crashes>>

\* The end of a handler: its lock is released (a lock lost to its lease is only
\* logged) and the event is acknowledged, kept for a retry or dead-lettered.
Finish(t) ==
    LET e == thread[t].event
        r == thread[t].result IN
    /\ At(t, "finish")
    /\ lock' = IF lock = t THEN NoOwner ELSE lock
    /\ \/ r = "success" /\ due' = due \ {e} /\ UNCHANGED letters
       \/ r = "retry" /\ UNCHANGED stream
       \/ r = "retry" /\ e \in due /\ due' = due \ {e} /\ letters' = letters \cup {e}
    /\ Clear(t)
    /\ UNCHANGED <<database, broker, aged, sincePause, crashes>>

Replay(e) ==
    /\ e \in letters
    /\ letters' = letters \ {e}
    /\ due' = due \cup {e}
    /\ UNCHANGED <<database, broker, aged, lock, thread, sincePause, crashes>>

\* The process that runs t is killed.
Crash(t) ==
    /\ crashes < MaxCrashes
    /\ thread[t] # Idle
    /\ crashes' = crashes + 1
    /\ Clear(t)
    /\ lock' = IF lock = t THEN Orphan ELSE lock
    /\ UNCHANGED <<database, broker, stream, aged, sincePause>>

\* Redis drops the lock when its lease ends.
LeaseExpires ==
    /\ lock = Orphan \/ (LeaseOverrun /\ lock \in Threads)
    /\ lock' = NoOwner
    /\ UNCHANGED <<database, broker, stream, aged, thread, sincePause, crashes>>
-----------------------------------------------------------------------------
(***************************************************************************)
(* execution_handler, intent.execute.                                      *)
(***************************************************************************)

\* Faulty variants of MayExecute: an uncertain intent is submitted again; only
\* confirmed intents are left alone.
MayExecuteUncertain(s) == s \in Executable \cup {"uncertain"}
MayExecuteUnlessConfirmed(s) == s # "confirmed"

\* The states in which the handler goes on with an intent.
MayExecute(s) == s \in Executable

\* The intent, the route and the connection are read here, once; the session
\* does not read them again before its commit.
Load(t) ==
    LET i == Intent(t) IN
    /\ At(t, "load")
    /\ IF state[i] \in {"absent", "published", "discarded"} THEN Answer(t, "retry")
       ELSE IF ~MayExecute(state[i]) THEN Answer(t, "success")
       ELSE thread' = [thread EXCEPT ![t].at = "lock", ![t].tries = tries[i],
                                     ![t].on = routeOn]
    /\ UNCHANGED <<database, broker, stream, aged, lock, sincePause, crashes>>

\* Without an active subscription an open is failed before the lock.
LoadWithoutSubscription(t) ==
    /\ At(t, "load")
    /\ Intent(t) \in Opens
    /\ state[Intent(t)] \in Executable
    /\ SetState(Intent(t), "failed")
    /\ Answer(t, "success")
    /\ UNCHANGED <<tries, trade, paused, routeOn, broker, stream, aged, lock,
                   sincePause, crashes>>

\* Faulty variant of LockFree: the lock is not looked at.
LockIgnored == TRUE

\* The connection lock can be taken.
LockFree == lock = NoOwner

AcquireLock(t) ==
    /\ At(t, "lock")
    /\ LockFree
    /\ lock' = t
    /\ Goto(t, "guard")
    /\ UNCHANGED <<database, broker, stream, aged, sincePause, crashes>>

\* CONNECTION_BUSY: the lock stayed taken for its blocking_timeout.
LockTimeout(t) ==
    /\ At(t, "lock")
    /\ ~LockFree
    /\ Answer(t, "retry")
    /\ UNCHANGED <<database, broker, stream, aged, lock, sincePause, crashes>>

\* What forbids execution: the pause flags as they are now and the route as it
\* was when the handler started.
Blocked(t) == paused \/ ~thread[t].on

\* AUTOMATION_PAUSED fails the intent.
Guard(t) ==
    /\ At(t, "guard")
    /\ IF Blocked(t)
       THEN SetState(Intent(t), "failed") /\ Answer(t, "success")
       ELSE Goto(t, "connect") /\ UNCHANGED state
    /\ UNCHANGED <<tries, trade, paused, routeOn, broker, stream, aged, lock,
                   sincePause, crashes>>

\* The route is target_unavailable, the terminal cannot be reached, or symbol
\* resolution raises: a retry, with the intent as it was.
Unavailable(t) ==
    /\ At(t, "guard") \/ At(t, "connect")
    /\ Answer(t, "retry")
    /\ UNCHANGED <<database, broker, stream, aged, lock, sincePause, crashes>>

Connect(t) ==
    /\ At(t, "connect")
    /\ Goto(t, IF Intent(t) \in Opens THEN "quality" ELSE "submit")
    /\ UNCHANGED <<database, broker, stream, aged, lock, sincePause, crashes>>

\* _quality_details accepts the quote.
QualityAccepted(t) ==
    /\ At(t, "quality")
    /\ Goto(t, "submit")
    /\ UNCHANGED <<database, broker, stream, aged, lock, sincePause, crashes>>

\* ExecutionQualityError: retried once if it is retryable, else a failure.
QualityRefused(t, retryable) ==
    LET i == Intent(t) IN
    /\ At(t, "quality")
    /\ tries' = [tries EXCEPT ![i] = 1]
    /\ IF retryable /\ thread[t].tries = 0
       THEN SetState(i, "retryable") /\ Answer(t, "retry")
       ELSE SetState(i, "failed") /\ Answer(t, "success")
    /\ UNCHANGED <<trade, paused, routeOn, broker, stream, aged, lock, sincePause, crashes>>

\* Copied trades of the connection that count against its limits.
Tracked == {o \in Opens : trade[o] = "open"}

\* Faulty variant of WithinRisk: one position too many.
WithinRiskInclusive(n) == n <= MaxOpen

\* ensure_account_risk_within_limits on the number of positions.
WithinRisk(n) == n < MaxOpen

\* _select_trade: whether a close has an open copied trade to act on.
SelectTrade(i) == i \in Closes /\ trade[Target[i]] = "open"

\* The choice of the copied trade and the risk check, then the commit of
\* "submitted" that precedes the broker call.
Submit(t) ==
    LET i == Intent(t) IN
    /\ At(t, "submit")
    /\ IF i \in Closes \/ WithinRisk(Cardinality(Tracked))
       THEN /\ SetState(i, "submitted")
            /\ tries' = [tries EXCEPT ![i] = 1]
            /\ thread' = [thread EXCEPT ![t].at = "call", ![t].copied = SelectTrade(i)]
       ELSE /\ SetState(i, "failed")
            /\ Answer(t, "success")
            /\ UNCHANGED tries
    /\ UNCHANGED <<trade, paused, routeOn, broker, stream, aged, lock, sincePause, crashes>>
-----------------------------------------------------------------------------
(***************************************************************************)
(* _run_action.  The broker (external) carries the operation out or not,   *)
(* and its answer reaches the handler or not.                              *)
(***************************************************************************)

\* A close without a copied trade raises before the broker is called.
ReachesBroker(t) == Intent(t) \in Opens \/ thread[t].copied

\* The broker opens a position, or closes one that is open.
BrokerApplies(i) ==
    /\ i \in Closes => live[Target[i]] > 0
    /\ sent' = [sent EXCEPT ![i] = @ + 1]
    /\ live' = IF i \in Opens THEN [live EXCEPT ![i] = @ + 1]
               ELSE [live EXCEPT ![Target[i]] = @ - 1]

CountCall == sincePause' = IF paused THEN sincePause + 1 ELSE sincePause

CallAccepted(t) ==
    /\ At(t, "call")
    /\ ReachesBroker(t)
    /\ BrokerApplies(Intent(t))
    /\ CountCall
    /\ Goto(t, "confirm")
    /\ UNCHANGED <<database, synced, stream, aged, lock, crashes>>

CallRejected(t) ==
    /\ At(t, "call")
    /\ CountCall
    /\ Goto(t, "reject")
    /\ UNCHANGED <<database, broker, stream, aged, lock, crashes>>

\* A timeout or a lost connection: the operation was carried out or was not.
CallUnanswered(t) ==
    /\ At(t, "call")
    /\ ReachesBroker(t)
    /\ CountCall
    /\ BrokerApplies(Intent(t)) \/ UNCHANGED <<sent, live>>
    /\ Goto(t, "unsure")
    /\ UNCHANGED <<database, synced, stream, aged, lock, crashes>>

\* Confirmation commits the intent together with its copied trade.  The trade
\* of an intent is unique: a second one makes the commit raise.
Confirm(t) ==
    LET i == Intent(t) IN
    /\ At(t, "confirm")
    /\ IF i \in Opens /\ trade[i] # "none"
       THEN Answer(t, "retry") /\ UNCHANGED <<state, trade>>
       ELSE /\ SetState(i, "confirmed")
            /\ trade' = IF i \in Opens THEN [trade EXCEPT ![i] = "open"]
                        ELSE [trade EXCEPT ![Target[i]] = "closed"]
            /\ Answer(t, "success")
    /\ UNCHANGED <<tries, paused, routeOn, broker, stream, aged, lock, sincePause, crashes>>

Reject(t) ==
    /\ At(t, "reject")
    /\ SetState(Intent(t), "failed")
    /\ Answer(t, "success")
    /\ UNCHANGED <<tries, trade, paused, routeOn, broker, stream, aged, lock,
                   sincePause, crashes>>

Unsure(t) ==
    /\ At(t, "unsure")
    /\ SetState(Intent(t), "uncertain")
    /\ Goto(t, "publish")
    /\ UNCHANGED <<tries, trade, paused, routeOn, broker, stream, aged, lock,
                   sincePause, crashes>>

\* _publish_reconcile, after the commit.
PublishReconcile(t) ==
    /\ At(t, "publish")
    /\ due' = due \cup {<<"reconcile", Intent(t)>>}
    /\ Answer(t, "success")
    /\ UNCHANGED <<database, broker, letters, aged, lock, sincePause, crashes>>
-----------------------------------------------------------------------------
(***************************************************************************)
(* reconcile_intent; it takes no lock.                                     *)
(***************************************************************************)
LoadUnresolved(t) ==
    /\ At(t, "rload")
    /\ IF state[Intent(t)] \in Unresolved THEN Goto(t, "rmark") ELSE Answer(t, "success")
    /\ UNCHANGED <<database, broker, stream, aged, lock, sincePause, crashes>>

MarkReconciling(t) ==
    /\ At(t, "rmark")
    /\ SetState(Intent(t), "reconciling")
    /\ Goto(t, "search")
    /\ UNCHANGED <<tries, trade, paused, routeOn, broker, stream, aged, lock,
                   sincePause, crashes>>

\* find_order, find_position and find_deal by client id.
Search(t) ==
    /\ At(t, "search")
    /\ Goto(t, IF synced[Intent(t)] THEN "found" ELSE "missing")
    /\ UNCHANGED <<database, broker, stream, aged, lock, sincePause, crashes>>

\* The connection has no MetaApi account, or its terminal cannot be reached.
SearchUnreachable(t) ==
    /\ At(t, "rmark") \/ At(t, "search")
    /\ Answer(t, "retry")
    /\ UNCHANGED <<database, broker, stream, aged, lock, sincePause, crashes>>

\* Faulty variant of AfterMissing: the age of the intent is not looked at.
AfterMissingFails(old) == "failed"

\* What a search that found nothing makes of the intent.
AfterMissing(old) == IF old THEN "failed" ELSE "uncertain"

Resolve(t) ==
    /\ At(t, "found") \/ At(t, "missing")
    /\ SetState(Intent(t), IF At(t, "found") THEN "confirmed" ELSE AfterMissing(aged[Intent(t)]))
    /\ Answer(t, "success")
    /\ UNCHANGED <<tries, trade, paused, routeOn, broker, stream, aged, lock,
                   sincePause, crashes>>
-----------------------------------------------------------------------------
(***************************************************************************)
(* Maintenance, the broker's own steps, time and the user.                 *)
(***************************************************************************)

\* Faulty variant of Swept: intents left in "reconciling" are forgotten.
SweptUncertainOnly(s) == s = "uncertain"

\* The states that publish_unresolved_intents republishes.
Swept(s) == s \in Unresolved

\* publish_unresolved_intents, every 30 s, under a fresh key.
Sweep(i) ==
    /\ Swept(state[i])
    /\ <<"reconcile", i>> \notin due
    /\ due' = due \cup {<<"reconcile", i>>}
    /\ UNCHANGED <<database, broker, letters, aged, lock, thread, sincePause, crashes>>

\* apply_broker_snapshot finds no position for an open copied trade: it was
\* closed, or the terminal state does not show it yet.
PositionMissing(o) == ~(synced[o] /\ live[o] > 0)

\* reconcile_copied_trades closes a copied trade whose position is missing.
ReconcileTrade(o) ==
    /\ trade[o] = "open"
    /\ PositionMissing(o)
    /\ trade' = [trade EXCEPT ![o] = "closed"]
    /\ UNCHANGED <<state, tries, paused, routeOn, broker, stream, aged, lock,
                   thread, sincePause, crashes>>

\* The terminal state catches up with an operation.
Synchronize(i) ==
    /\ sent[i] > 0 /\ ~synced[i]
    /\ synced' = [synced EXCEPT ![i] = TRUE]
    /\ UNCHANGED <<database, sent, live, stream, aged, lock, thread, sincePause, crashes>>

\* A stop, a target or the user at the terminal closes a position.
CloseAtBroker(o) ==
    /\ live[o] > 0
    /\ live' = [live EXCEPT ![o] = @ - 1]
    /\ UNCHANGED <<database, sent, synced, stream, aged, lock, thread, sincePause, crashes>>

Age(i) ==
    /\ ~aged[i] /\ state[i] \notin {"absent", "published", "discarded"}
    /\ aged' = [aged EXCEPT ![i] = TRUE]
    /\ UNCHANGED <<database, broker, stream, lock, thread, sincePause, crashes>>

SetPause(p) ==
    /\ paused' = p /\ paused # p
    /\ sincePause' = 0
    /\ UNCHANGED <<state, tries, trade, routeOn, broker, stream, aged, lock, thread, crashes>>

SetRoute(on) ==
    /\ routeOn' = on /\ routeOn # on
    /\ UNCHANGED <<state, tries, trade, paused, broker, stream, aged, lock, thread,
                   sincePause, crashes>>
-----------------------------------------------------------------------------
Execute(t) ==
    \/ Load(t) \/ LoadWithoutSubscription(t) \/ AcquireLock(t) \/ LockTimeout(t)
    \/ Guard(t) \/ Unavailable(t) \/ Connect(t) \/ QualityAccepted(t)
    \/ \E b \in BOOLEAN : QualityRefused(t, b)
    \/ Submit(t) \/ CallAccepted(t) \/ CallRejected(t) \/ CallUnanswered(t)
    \/ Confirm(t) \/ Reject(t) \/ Unsure(t) \/ PublishReconcile(t)

Reconcile(t) ==
    \/ LoadUnresolved(t) \/ MarkReconciling(t) \/ Search(t) \/ SearchUnreachable(t)
    \/ Resolve(t)

Environment ==
    \/ \E i \in Intents : \/ PublishIntent(i) \/ Sweep(i) \/ Synchronize(i) \/ Age(i)
                          \/ CommitIntent(i, "created") \/ CommitIntent(i, "discarded")
    \/ \E o \in Opens : ReconcileTrade(o) \/ CloseAtBroker(o)
    \/ \E p \in BOOLEAN : SetPause(p) \/ SetRoute(p)
    \/ LeaseExpires

Next ==
    \/ \E t \in Threads : Execute(t) \/ Reconcile(t) \/ Finish(t) \/ Crash(t)
    \/ \E t \in Threads, e \in Events : Take(t, e)
    \/ \E e \in Events : Replay(e)
    \/ Environment

Safety == Init /\ [][Next]_vars

(***************************************************************************)
(* Threads run between crashes, and crashes are finitely many; a due event *)
(* is taken again and again (StreamWorker settles every message);          *)
(* maintenance runs every 30 s; time passes; an orphaned lock expires; the *)
(* connection keeps its account, whose terminal is reachable infinitely    *)
(* often.                                                                  *)
(***************************************************************************)
Fairness ==
    /\ \A t \in Threads : /\ WF_vars(Execute(t) \/ Reconcile(t) \/ Finish(t))
                          /\ SF_vars(MarkReconciling(t)) /\ SF_vars(Search(t))
    /\ \A e \in Events : SF_vars(\E t \in Threads : Take(t, e))
    /\ \A i \in Intents : WF_vars(Sweep(i)) /\ WF_vars(Age(i))
    /\ WF_vars(LeaseExpires)

Spec == Safety /\ Fairness
-----------------------------------------------------------------------------
(***************************************************************************)
(* The broker carries out at most one operation for an intent, whatever is *)
(* redelivered, replayed, retried or killed ("One TradeIntent maps to at   *)
(* most one broker operation").  execution_handler reads the intent before *)
(* it takes the lock, so this needs deliveries of one intent not to        *)
(* overlap.                                                                *)
(***************************************************************************)
AtMostOnce == \A i \in Intents : sent[i] <= 1

(***************************************************************************)
(* An intent that is confirmed or failed never changes again, as long as   *)
(* its deliveries do not overlap.                                          *)
(***************************************************************************)
ResolvedIsFinal ==
    [][\A i \in Intents : state[i] \in Resolved => state'[i] = state[i]]_vars

(***************************************************************************)
(* Before its maximum age an intent fails only if the broker did nothing   *)
(* for it: a failure shown to the user hides no position.                  *)
(***************************************************************************)
FailedBeforeAgeIsUnsent ==
    \A i \in Intents : state[i] = "failed" /\ sent[i] > 0 => aged[i]

(***************************************************************************)
(* Open copied trades never exceed max_open_positions, although the check  *)
(* in one handler and the insertion that it guards are several steps apart *)
(* and other threads execute for the same connection: the connection lock  *)
(* covers both.                                                            *)
(***************************************************************************)
TrackedWithinLimit == Cardinality(Tracked) <= MaxOpen

(***************************************************************************)
(* After the user pauses copying, at most one broker call is still made on *)
(* the connection: the one whose handler had passed its guard.             *)
(***************************************************************************)
PauseHolds == paused => sincePause <= 1

(***************************************************************************)
(* An unresolved intent is eventually confirmed or failed, also when the   *)
(* process that reconciles it is killed or the reconcile event is lost.    *)
(***************************************************************************)
UncertainResolves ==
    \A i \in Intents : (state[i] \in Unresolved) ~> (state[i] \in Resolved)

(***************************************************************************)
(* "Worker restart recovery republishes unresolved intents and reconciles  *)
(* uncertain broker outcomes": an intent that was submitted is eventually  *)
(* resolved.                                                               *)
(***************************************************************************)
SubmittedResolves ==
    \A i \in Intents : (state[i] = "submitted") ~> (state[i] \in Resolved)

(***************************************************************************)
(* "Broker confirmation updates: intent state; ... copied-trade broker     *)
(* identifiers": a confirmed open has its copied trade.                    *)
(***************************************************************************)
ConfirmedIsTracked ==
    \A o \in Opens : state[o] = "confirmed" => trade[o] # "none"

(***************************************************************************)
(* Execution implements its contract, as long as deliveries of one intent  *)
(* do not overlap: a handler that fails, confirms or gives up an intent,   *)
(* redelivery, replay, reconciliation and crashes are at every moment one  *)
(* step of IntentContract or none.                                         *)
(***************************************************************************)
Outcome == [i \in Intents |-> IF state[i] \in Resolved THEN state[i] ELSE "open"]

Contract == INSTANCE IntentContract
                WITH outcome <- Outcome, done <- sent, overdue <- aged

ImplementsContract == Contract!Spec
=============================================================================
