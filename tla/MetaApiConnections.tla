------------------------- MODULE MetaApiConnections -------------------------
(***************************************************************************)
(* The warm MetaApi streaming connections of an execution worker           *)
(* (metaapi_connections.py): one event loop, on which coroutines acquire,  *)
(* close, evict and open connections.                                      *)
(*                                                                         *)
(* The manager's lock is never held across an await, so a step is the code *)
(* between two awaits.  Opening t opens at most one connection, which is   *)
(* also called t.  A caller is a coroutine that a worker thread submitted: *)
(* when the thread's wait times out the coroutine keeps running.           *)
(***************************************************************************)
EXTENDS Naturals, FiniteSets

CONSTANTS
    Accounts,   \* MetaApi account ids
    Callers,    \* coroutines submitted by worker threads
    Opens,      \* bound: the _open tasks that are ever created
    NoOne       \* no account, task or connection

ASSUME ConnAssumption == NoOne \notin Accounts \cup Opens

VARIABLES
    loop,       \* whether the runtime's event loop runs
    entries,    \* _entries: account -> connection
    idle,       \* accounts whose entry was last used before the idle cutoff
    opening,    \* _opening: account -> task
    task,       \* each _open task: its account, where it is, cancel requested
    conn,       \* each connection, as the SDK sees it
    sick,       \* connections whose health monitor reports a failure
    caller,     \* what each coroutine is doing
    raced,      \* history: accounts where a finished _open removed a newer one
    lost        \* history: connections whose close was skipped by an exception

connVars == <<loop, entries, idle, opening, task, conn, sick, caller, raced, lost>>

Quiet == [at |-> "quiet", account |-> NoOne, waits |-> {}, closes |-> {}]

Unborn == [at |-> "unborn", account |-> NoOne, cancel |-> FALSE]

ConnTypeOK ==
    /\ loop \in BOOLEAN
    /\ entries \in [Accounts -> Opens \cup {NoOne}]
    /\ idle \subseteq Accounts
    /\ opening \in [Accounts -> Opens \cup {NoOne}]
    /\ task \in [Opens -> [at : {"unborn", "account", "connect", "close", "done", "failed"},
                           account : Accounts \cup {NoOne}, cancel : BOOLEAN]]
    /\ conn \in [Opens -> {"none", "open", "closed", "interrupted"}]
    /\ sick \subseteq Opens
    /\ caller \in [Callers -> [at : {"quiet", "evict", "stale", "await", "use", "gather", "close"},
                               account : Accounts \cup {NoOne},
                               waits : SUBSET Opens, closes : SUBSET Opens]]
    /\ raced \subseteq Accounts
    /\ lost \subseteq Opens

ConnInit ==
    /\ loop = FALSE
    /\ entries = [a \in Accounts |-> NoOne]
    /\ idle = {}
    /\ opening = [a \in Accounts |-> NoOne]
    /\ task = [t \in Opens |-> Unborn]
    /\ conn = [t \in Opens |-> "none"]
    /\ sick = {}
    /\ caller = [c \in Callers |-> Quiet]
    /\ raced = {}
    /\ lost = {}

-----------------------------------------------------------------------------
(* The runtime's thread and loop.                                          *)

\* start and _run: the thread starts the loop; a start that fails leaves the
\* runtime down and the next call tries again.
StartRuntime ==
    /\ ~loop
    /\ loop' = TRUE
    /\ UNCHANGED <<entries, idle, opening, task, conn, sick, caller, raced, lost>>

-----------------------------------------------------------------------------
(* Calls.                                                                  *)

Busy(t) == task[t].at \in {"account", "connect", "close"}

\* MetaApiRuntime.acquire: evict_idle first.  It pops every idle entry under
\* the lock and then closes their connections.
EvictIdle(c, a) ==
    /\ loop /\ caller[c] = Quiet
    /\ caller' = [caller EXCEPT ![c] =
                    [at |-> "evict", account |-> a, waits |-> {},
                     closes |-> {entries[b] : b \in {b \in idle : entries[b] # NoOne}}]]
    /\ entries' = [b \in Accounts |-> IF b \in idle THEN NoOne ELSE entries[b]]
    /\ idle' = {}
    /\ UNCHANGED <<loop, opening, task, conn, sick, raced, lost>>

\* _healthy.
Healthy(t) == t \notin sick

\* Faulty variant of OpeningFor: a new task although one is under way.
OpeningAlways(a, t) == t

\* The task acquire waits for: the one under way or the new one.
OpeningFor(a, t) == IF opening[a] # NoOne THEN opening[a] ELSE t

\* Faulty variant of Popped: the popped connection is forgotten.
PoppedForgotten(a) == {}

\* The connection of a popped entry, which the caller has to close.
Popped(a) == {entries[a]} \ {NoOne}

(***************************************************************************)
(* acquire: a healthy entry is touched and returned; an unhealthy one is   *)
(* popped and closed, and the caller waits for the opening under way or    *)
(* for a new one.                                                          *)
(***************************************************************************)
AcquireWarm(c) ==
    /\ caller[c].at = "evict" /\ caller[c].closes = {}
    /\ LET a == caller[c].account IN
        /\ entries[a] # NoOne /\ Healthy(entries[a])
        /\ idle' = idle \ {a}
        /\ caller' = [caller EXCEPT ![c].at = "use"]
    /\ UNCHANGED <<loop, entries, opening, task, conn, sick, raced, lost>>

AcquireCold(c, t) ==
    /\ caller[c].at = "evict" /\ caller[c].closes = {}
    /\ LET a == caller[c].account
           o == OpeningFor(a, t)
       IN  /\ entries[a] = NoOne \/ ~Healthy(entries[a])
           /\ o = t => task[t] = Unborn
           /\ task' = IF o = t THEN [task EXCEPT ![t] = [at |-> "account", account |-> a,
                                                          cancel |-> FALSE]]
                               ELSE task
           /\ opening' = [opening EXCEPT ![a] = o]
           /\ entries' = [entries EXCEPT ![a] = NoOne]
           /\ idle' = idle \ {a}
           /\ caller' = [caller EXCEPT ![c] =
                           [at |-> "stale", account |-> a, waits |-> {o},
                            closes |-> Popped(a)]]
    /\ UNCHANGED <<loop, conn, sick, raced, lost>>

\* The stale connection is closed: the caller waits for the opening.
AwaitOpening(c) ==
    /\ caller[c].at = "stale" /\ caller[c].closes = {}
    /\ caller' = [caller EXCEPT ![c].at = "await"]
    /\ UNCHANGED <<loop, entries, idle, opening, task, conn, sick, raced, lost>>

\* The awaited task ended: its connection or its exception is returned.
AcquireReturns(c) ==
    /\ caller[c].at = "await"
    /\ \A t \in caller[c].waits : ~Busy(t)
    /\ caller' = [caller EXCEPT ![c] =
                    IF \E t \in caller[c].waits : task[t].at = "done"
                    THEN [@ EXCEPT !.at = "use", !.waits = {}] ELSE Quiet]
    /\ UNCHANGED <<loop, entries, idle, opening, task, conn, sick, raced, lost>>

\* The worker has finished with the connection it acquired.
ReleaseConnection(c) ==
    /\ caller[c].at = "use"
    /\ caller' = [caller EXCEPT ![c] = Quiet]
    /\ UNCHANGED <<loop, entries, idle, opening, task, conn, sick, raced, lost>>

(***************************************************************************)
(* close_account (and mark_unhealthy): pop the entry and the opening,      *)
(* cancel the opening and wait for it, then close the entry's connection.  *)
(***************************************************************************)
CloseAccount(c, a) ==
    /\ loop /\ caller[c] = Quiet
    /\ entries' = [entries EXCEPT ![a] = NoOne]
    /\ idle' = idle \ {a}
    /\ opening' = [opening EXCEPT ![a] = NoOne]
    /\ task' = [t \in Opens |-> IF t = opening[a] THEN [task[t] EXCEPT !.cancel = TRUE] ELSE task[t]]
    /\ caller' = [caller EXCEPT ![c] = [at |-> "gather", account |-> a,
                                        waits |-> {opening[a]} \ {NoOne},
                                        closes |-> Popped(a)]]
    /\ UNCHANGED <<loop, conn, sick, raced, lost>>

\* shutdown: the same for every account, then the loop stops taking calls.
Shutdown(c) ==
    /\ loop /\ caller[c] = Quiet
    /\ loop' = FALSE
    /\ entries' = [a \in Accounts |-> NoOne]
    /\ idle' = {}
    /\ opening' = [a \in Accounts |-> NoOne]
    /\ task' = [t \in Opens |-> IF \E a \in Accounts : opening[a] = t
                                THEN [task[t] EXCEPT !.cancel = TRUE] ELSE task[t]]
    /\ caller' = [caller EXCEPT ![c] = [at |-> "gather", account |-> NoOne,
                                        waits |-> {opening[a] : a \in Accounts} \ {NoOne},
                                        closes |-> {entries[a] : a \in Accounts} \ {NoOne}]]
    /\ UNCHANGED <<conn, sick, raced, lost>>

Gathered(c) ==
    /\ caller[c].at = "gather"
    /\ \A t \in caller[c].waits : ~Busy(t)
    /\ caller' = [caller EXCEPT ![c] = [@ EXCEPT !.at = "close", !.waits = {}]]
    /\ UNCHANGED <<loop, entries, idle, opening, task, conn, sick, raced, lost>>

Closing(c) == caller[c].at \in {"evict", "stale", "close"}

\* One await connection.close() of a caller's list returns.
CloseOne(c, t) ==
    /\ Closing(c) /\ t \in caller[c].closes
    /\ conn' = [conn EXCEPT ![t] = "closed"]
    /\ caller' = [caller EXCEPT ![c].closes = @ \ {t}]
    /\ UNCHANGED <<loop, entries, idle, opening, task, sick, raced, lost>>

\* It raises instead: the caller gives up and the rest is never closed.
CloseRaises(c, t) ==
    /\ Closing(c) /\ t \in caller[c].closes
    /\ lost' = lost \cup caller[c].closes
    /\ caller' = [caller EXCEPT ![c] = Quiet]
    /\ UNCHANGED <<loop, entries, idle, opening, task, conn, sick, raced>>

CloseReturns(c) ==
    /\ caller[c].at = "close" /\ caller[c].closes = {}
    /\ caller' = [caller EXCEPT ![c] = Quiet]
    /\ UNCHANGED <<loop, entries, idle, opening, task, conn, sick, raced, lost>>

-----------------------------------------------------------------------------
(* The _open tasks.                                                        *)

\* The finally of _open: whatever task is registered for the account is
\* removed, which after a close_account may be a newer one.
Unregister(a, t) ==
    /\ opening' = [opening EXCEPT ![a] = NoOne]
    /\ raced' = IF opening[a] \notin {NoOne, t} THEN raced \cup {a} ELSE raced

\* get_account returned a deployed account: a streaming connection connects.
GotAccount(t) ==
    /\ task[t].at = "account" /\ ~task[t].cancel
    /\ task' = [task EXCEPT ![t].at = "connect"]
    /\ conn' = [conn EXCEPT ![t] = "open"]
    /\ UNCHANGED <<loop, entries, idle, opening, sick, caller, raced, lost>>

\* get_account failed, the account is not deployed, or the task is cancelled
\* before it has a connection.
NoAccount(t) ==
    /\ task[t].at = "account"
    /\ task' = [task EXCEPT ![t].at = "failed"]
    /\ Unregister(task[t].account, t)
    /\ UNCHANGED <<loop, entries, idle, conn, sick, caller, lost>>

\* connect and wait_synchronized returned: the entry is stored.
Synchronized(t) ==
    /\ task[t].at = "connect" /\ ~task[t].cancel
    /\ task' = [task EXCEPT ![t].at = "done"]
    /\ entries' = [entries EXCEPT ![task[t].account] = t]
    /\ idle' = idle \ {task[t].account}
    /\ Unregister(task[t].account, t)
    /\ UNCHANGED <<loop, conn, sick, caller, lost>>

\* connect or wait_synchronized failed or timed out, or the task is cancelled.
OpenFails(t) ==
    /\ task[t].at = "connect"
    /\ task' = [task EXCEPT ![t] = [@ EXCEPT !.at = "close", !.cancel = FALSE]]
    /\ UNCHANGED <<loop, entries, idle, opening, conn, sick, caller, raced, lost>>

\* The except of _open has closed the connection, or a cancellation that
\* arrives during the close interrupts it.
OpenClosed(t) ==
    /\ task[t].at = "close"
    /\ task' = [task EXCEPT ![t].at = "failed"]
    /\ conn' = [conn EXCEPT ![t] = IF task[t].cancel THEN "interrupted" ELSE "closed"]
    /\ Unregister(task[t].account, t)
    /\ UNCHANGED <<loop, entries, idle, sick, caller, lost>>

-----------------------------------------------------------------------------
(* The environment.                                                        *)

\* The health monitor of a stored connection reports a failure.
HealthLost(a) ==
    /\ entries[a] # NoOne /\ Healthy(entries[a])
    /\ sick' = sick \cup {entries[a]}
    /\ UNCHANGED <<loop, entries, idle, opening, task, conn, caller, raced, lost>>

\* idle_seconds pass since an entry was last used.
GrowsIdle(a) ==
    /\ entries[a] # NoOne /\ a \notin idle
    /\ idle' = idle \cup {a}
    /\ UNCHANGED <<loop, entries, opening, task, conn, sick, caller, raced, lost>>

-----------------------------------------------------------------------------
CallerStep(c) ==
    \/ AcquireWarm(c) \/ \E t \in Opens : AcquireCold(c, t)
    \/ AwaitOpening(c) \/ AcquireReturns(c) \/ ReleaseConnection(c)
    \/ Gathered(c) \/ \E t \in Opens : CloseOne(c, t)
    \/ \E t \in Opens : CloseRaises(c, t)
    \/ CloseReturns(c)

TaskStep(t) ==
    GotAccount(t) \/ NoAccount(t) \/ Synchronized(t) \/ OpenFails(t) \/ OpenClosed(t)

ConnNext ==
    \/ StartRuntime
    \/ \E c \in Callers, a \in Accounts : EvictIdle(c, a) \/ CloseAccount(c, a)
    \/ \E c \in Callers : Shutdown(c) \/ CallerStep(c)
    \/ \E t \in Opens : TaskStep(t)
    \/ \E a \in Accounts : HealthLost(a) \/ GrowsIdle(a)

ConnSpec == ConnInit /\ [][ConnNext]_connVars

-----------------------------------------------------------------------------
Held(t) ==
    \/ \E a \in Accounts : entries[a] = t
    \/ Busy(t)
    \/ \E c \in Callers : t \in caller[c].closes

(***************************************************************************)
(* A connection that is open is stored as a warm entry, still being opened *)
(* or on a coroutine's list of connections to close: the manager leaks one *)
(* only when close() raised or after the finally of a cancelled _open      *)
(* removed the registration of a newer opening of the same account.        *)
(***************************************************************************)
ConnectionsAccounted ==
    \A t \in Opens :
        conn[t] = "open" => \/ Held(t)
                            \/ t \in lost
                            \/ task[t].account \in raced

(***************************************************************************)
(* Concurrent acquires share one opening: unless a finally removed a newer *)
(* registration, an account has at most one opening that is not cancelled, *)
(* and it is the registered one.                                           *)
(***************************************************************************)
OneOpening ==
    \A t \in Opens :
        Busy(t) /\ task[t].at # "close" /\ ~task[t].cancel /\ task[t].account \notin raced
            => opening[task[t].account] = t

=============================================================================
