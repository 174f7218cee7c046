--------------------------- MODULE RuntimesProofs ---------------------------
(***************************************************************************)
(* Proofs about the parts of a deployment that run beside the requests:    *)
(* the MetaApi connection manager, the ownership of the Telegram runtime,  *)
(* the Telegram sign-ins and the health of the workers, for any number of  *)
(* accounts, callers, runtimes, connections and users.                     *)
(***************************************************************************)
EXTENDS MetaApiConnections, TelegramOwnership, TelegramSessions, CopyHealth, Extrema, TLAPS

-----------------------------------------------------------------------------
(***************************************************************************)
(* The MetaApi connection manager: openings are shared, and no connection  *)
(* is lost but by the leaks that ConnectionsAccounted names. While an      *)
(* account is being opened it has no warm entry, which is what keeps a     *)
(* finished opening from overwriting one.                                  *)
(***************************************************************************)
\* The types of a task and of a coroutine.
OpenTask ==
    [at : {"unborn", "account", "connect", "close", "done", "failed"},
     account : Accounts \cup {NoOne}, cancel : BOOLEAN]

Coroutine ==
    [at : {"quiet", "evict", "stale", "await", "use", "gather", "close"},
     account : Accounts \cup {NoOne}, waits : SUBSET Opens, closes : SUBSET Opens]

\* A registered opening runs, is the account's own and is not cancelled:
\* close_account and shutdown cancel what they unregister.
RegisteredRuns ==
    \A a \in Accounts : opening[a] # NoOne =>
        Busy(opening[a]) /\ task[opening[a]].account = a /\ ~task[opening[a]].cancel

\* An opening that is under way and not cancelled.
Live(t) == Busy(t) /\ task[t].at # "close" /\ ~task[t].cancel

\* While an account is being opened it has no warm entry: acquire opens only
\* when there is none, and the entry of another opening comes with a race.
OpeningMeansNoEntry ==
    \A t \in Opens : Live(t) /\ task[t].account \notin raced => entries[task[t].account] = NoOne

\* An entry's connection was opened for the entry's account.
EntriesAreOwn ==
    \A a \in Accounts : entries[a] # NoOne => task[entries[a]].account = a /\ task[entries[a]].at = "done"

\* A task has no open connection before get_account returned.
ConnectionNeedsAccount ==
    \A t \in Opens : task[t].at \in {"unborn", "account"} => conn[t] # "open"

BornHasAccount ==
    \A t \in Opens : task[t].at # "unborn" => task[t].account \in Accounts

\* A coroutine that has nothing to close has an empty list, and one that
\* acquires knows for which account.
CallersInOrder ==
    \A c \in Callers :
        /\ caller[c].at \in {"quiet", "await", "use"} => caller[c].closes = {}
        /\ caller[c].at \in {"evict", "stale", "await"} => caller[c].account \in Accounts

ConnIInv ==
    /\ ConnTypeOK /\ RegisteredRuns /\ OneOpening /\ OpeningMeansNoEntry /\ EntriesAreOwn
    /\ ConnectionNeedsAccount /\ BornHasAccount /\ CallersInOrder /\ ConnectionsAccounted

-----------------------------------------------------------------------------
\* The manager starts without connections.
LEMMA ConnInitIInv == ConnInit => ConnIInv
<1> SUFFICES ASSUME ConnInit PROVE ConnIInv
  OBVIOUS
<1>1. ConnTypeOK
  BY DEF ConnInit, ConnTypeOK, Unborn, Quiet
<1>2. \A t \in Opens : ~Busy(t) /\ task[t].at = "unborn" /\ conn[t] = "none"
  BY DEF ConnInit, Unborn, Busy
<1>3. RegisteredRuns /\ OneOpening /\ OpeningMeansNoEntry /\ EntriesAreOwn
  BY <1>2 DEF ConnInit, RegisteredRuns, OneOpening, OpeningMeansNoEntry, EntriesAreOwn, Live
<1>4. ConnectionNeedsAccount /\ BornHasAccount /\ CallersInOrder /\ ConnectionsAccounted
  BY <1>2 DEF ConnInit, ConnectionNeedsAccount, BornHasAccount, CallersInOrder,
     ConnectionsAccounted, Quiet
<1> QED
  BY <1>1, <1>3, <1>4 DEF ConnIInv

\* A step that only moves one coroutine, perhaps touching an idle account.
LEMMA CallerMoves ==
  ASSUME ConnTypeOK, NEW c \in Callers, NEW r \in Coroutine,
         caller' = [caller EXCEPT ![c] = r], idle' \subseteq idle,
         UNCHANGED <<loop, entries, opening, task, conn, sick, raced, lost>>
  PROVE  ConnTypeOK'
<1>1. caller \in [Callers -> Coroutine]
  BY DEF ConnTypeOK, Coroutine
<1>2. caller' \in [Callers -> Coroutine]
  BY <1>1
<1> QED
  BY <1>2 DEF ConnTypeOK, Coroutine

\* A coroutine that is nowhere in the manager.
LEMMA QuietIsCoroutine == Quiet \in Coroutine
BY DEF Quiet, Coroutine

\* start only makes the manager accept callers.
LEMMA ConnStartRuntime ==
  ASSUME ConnIInv, StartRuntime
  PROVE  ConnIInv'
  BY DEF ConnIInv, ConnTypeOK, RegisteredRuns, OneOpening, OpeningMeansNoEntry,
     EntriesAreOwn, ConnectionNeedsAccount, BornHasAccount, CallersInOrder,
     ConnectionsAccounted, StartRuntime, Busy, Live, Held

\* evict_idle moves idle entries into one coroutine's list.
LEMMA ConnEvictIdle ==
  ASSUME ConnIInv, NEW c \in Callers, NEW a \in Accounts, EvictIdle(c, a)
  PROVE  ConnIInv'
<1>1. ConnTypeOK'
  BY DEF ConnIInv, ConnTypeOK, EvictIdle, Quiet
<1>2. OpeningMeansNoEntry'
  BY ConnAssumption DEF ConnIInv, ConnTypeOK, RegisteredRuns, OneOpening,
     OpeningMeansNoEntry, BornHasAccount, EvictIdle, Quiet, Busy, Live
<1>3. EntriesAreOwn'
  BY ConnAssumption DEF ConnIInv, ConnTypeOK, EntriesAreOwn, BornHasAccount, EvictIdle,
     Quiet
<1>4. CallersInOrder'
  BY ConnAssumption DEF ConnIInv, ConnTypeOK, CallersInOrder, EvictIdle, Quiet
<1>5. ConnectionsAccounted'
  BY ConnAssumption, SMTT(30) DEF ConnIInv, ConnTypeOK, OpeningMeansNoEntry, EntriesAreOwn,
     ConnectionNeedsAccount, BornHasAccount, CallersInOrder, ConnectionsAccounted,
     EvictIdle, Quiet, Busy, Live, Held
<1>6. (RegisteredRuns /\ OneOpening /\ ConnectionNeedsAccount /\ BornHasAccount)'
  BY DEF ConnIInv, RegisteredRuns, OneOpening, ConnectionNeedsAccount, BornHasAccount,
     EvictIdle, Busy
<1> QED
  BY <1>1, <1>2, <1>3, <1>4, <1>5, <1>6 DEF ConnIInv

\* close_account unregisters and cancels the opening it will gather.
LEMMA ConnCloseAccount ==
  ASSUME ConnIInv, NEW c \in Callers, NEW a \in Accounts, CloseAccount(c, a)
  PROVE  ConnIInv'
<1>1. ConnTypeOK'
  <2>1. task \in [Opens -> OpenTask]
    BY DEF ConnIInv, ConnTypeOK, OpenTask
  <2>2. \A r \in OpenTask : [r EXCEPT !.cancel = TRUE] \in OpenTask
    BY DEF OpenTask
  <2>3. task' \in [Opens -> OpenTask]
    BY <2>1, <2>2, Zenon DEF CloseAccount
  <2>4. caller'[c] \in Coroutine
    BY DEF ConnIInv, ConnTypeOK, CloseAccount, Popped, Coroutine
  <2>5. caller' \in [Callers -> Coroutine]
    BY <2>4 DEF ConnIInv, ConnTypeOK, CloseAccount, Coroutine
  <2>6. entries' \in [Accounts -> Opens \cup {NoOne}] /\ opening' \in [Accounts -> Opens \cup {NoOne}]
    BY DEF ConnIInv, ConnTypeOK, CloseAccount
  <2> QED
    BY <2>3, <2>5, <2>6 DEF ConnIInv, ConnTypeOK, CloseAccount, OpenTask, Coroutine
<1>2. RegisteredRuns'
  BY ConnAssumption DEF ConnIInv, ConnTypeOK, RegisteredRuns, BornHasAccount,
     CloseAccount, Popped, Busy
<1>3. OneOpening'
  BY ConnAssumption DEF ConnIInv, ConnTypeOK, RegisteredRuns, OneOpening, CloseAccount,
     Popped, Busy
<1>4. OpeningMeansNoEntry'
  BY ConnAssumption DEF ConnIInv, ConnTypeOK, RegisteredRuns, OneOpening,
     OpeningMeansNoEntry, BornHasAccount, CloseAccount, Popped, Busy, Live
<1>5. EntriesAreOwn'
  BY ConnAssumption DEF ConnIInv, ConnTypeOK, EntriesAreOwn, BornHasAccount,
     CloseAccount, Popped
<1>6. ConnectionNeedsAccount'
  BY ConnAssumption DEF ConnIInv, ConnTypeOK, ConnectionNeedsAccount, CloseAccount,
     Popped
<1>7. BornHasAccount'
  BY ConnAssumption DEF ConnIInv, ConnTypeOK, BornHasAccount, CloseAccount, Popped
<1>8. CallersInOrder'
  BY ConnAssumption DEF ConnIInv, ConnTypeOK, CallersInOrder, CloseAccount, Popped
<1>9. ConnectionsAccounted'
  <2> SUFFICES ASSUME NEW u \in Opens, conn'[u] = "open"
               PROVE  Held(u)' \/ u \in lost' \/ task'[u].account \in raced'
    BY DEF ConnectionsAccounted
  <2>1. task'[u].at = task[u].at /\ task'[u].account = task[u].account
    BY DEF ConnIInv, ConnTypeOK, CloseAccount
  <2>2. Held(u) \/ u \in lost \/ task[u].account \in raced
    BY DEF ConnIInv, ConnectionsAccounted, CloseAccount
  <2>3. Held(u) => Held(u)'
    <3>1. Busy(u) => Busy(u)'
      BY <2>1 DEF Busy
    <3>2. ASSUME NEW b \in Accounts, entries[b] = u
          PROVE  Held(u)'
      <4>1. u # NoOne
        BY ConnAssumption
      <4>2. entries'[b] = u \/ u \in caller'[c].closes
        BY <3>2, <4>1 DEF ConnIInv, ConnTypeOK, CloseAccount, Popped
      <4> QED
        BY <4>2 DEF Held
    <3>3. ASSUME NEW d \in Callers, u \in caller[d].closes
          PROVE  u \in caller'[d].closes
      BY <3>3 DEF ConnIInv, ConnTypeOK, CloseAccount, Quiet
    <3> QED
      BY <3>1, <3>2, <3>3 DEF Held
  <2> QED
    BY <2>1, <2>2, <2>3 DEF CloseAccount
<1> QED
  BY <1>1, <1>2, <1>3, <1>4, <1>5, <1>6, <1>7, <1>8, <1>9 DEF ConnIInv

\* shutdown does so for every account.
LEMMA ConnShutdown ==
  ASSUME ConnIInv, NEW c \in Callers, Shutdown(c)
  PROVE  ConnIInv'
<1>1. ConnTypeOK'
  <2>1. task \in [Opens -> OpenTask]
    BY DEF ConnIInv, ConnTypeOK, OpenTask
  <2>2. \A r \in OpenTask : [r EXCEPT !.cancel = TRUE] \in OpenTask
    BY DEF OpenTask
  <2>3. task' \in [Opens -> OpenTask]
    BY <2>1, <2>2, Zenon DEF Shutdown
  <2>4. caller'[c] \in Coroutine
    BY DEF ConnIInv, ConnTypeOK, Shutdown, Coroutine
  <2>5. caller' \in [Callers -> Coroutine]
    BY <2>4 DEF ConnIInv, ConnTypeOK, Shutdown, Coroutine
  <2>6. entries' \in [Accounts -> Opens \cup {NoOne}] /\ opening' \in [Accounts -> Opens \cup {NoOne}]
    BY DEF ConnIInv, ConnTypeOK, Shutdown
  <2> QED
    BY <2>3, <2>5, <2>6 DEF ConnIInv, ConnTypeOK, Shutdown, OpenTask, Coroutine
<1>2. RegisteredRuns'
  BY ConnAssumption DEF ConnIInv, ConnTypeOK, RegisteredRuns, BornHasAccount, Shutdown,
     Busy
<1>3. OneOpening'
  <2> SUFFICES ASSUME NEW u \in Opens, Busy(u)', task'[u].at # "close", ~task'[u].cancel,
                      task'[u].account \notin raced
               PROVE  FALSE
    BY DEF OneOpening, Shutdown
  <2>1. task[u] = task'[u] /\ ~(\E a \in Accounts : opening[a] = u)
    BY DEF ConnIInv, ConnTypeOK, Shutdown
  <2>2. task[u].account \in Accounts
    BY <2>1 DEF ConnIInv, BornHasAccount, Busy
  <2> QED
    BY <2>1, <2>2 DEF ConnIInv, OneOpening, Busy
<1>4. OpeningMeansNoEntry'
  BY ConnAssumption DEF ConnIInv, ConnTypeOK, RegisteredRuns, OneOpening,
     OpeningMeansNoEntry, BornHasAccount, Shutdown, Busy, Live
<1>5. EntriesAreOwn'
  BY ConnAssumption DEF ConnIInv, ConnTypeOK, EntriesAreOwn, BornHasAccount, Shutdown
<1>6. ConnectionNeedsAccount'
  BY ConnAssumption DEF ConnIInv, ConnTypeOK, ConnectionNeedsAccount, Shutdown
<1>7. BornHasAccount'
  BY ConnAssumption DEF ConnIInv, ConnTypeOK, BornHasAccount, Shutdown
<1>8. CallersInOrder'
  BY ConnAssumption DEF ConnIInv, ConnTypeOK, CallersInOrder, Shutdown
<1>9. ConnectionsAccounted'
  <2> SUFFICES ASSUME NEW u \in Opens, conn'[u] = "open"
               PROVE  Held(u)' \/ u \in lost' \/ task'[u].account \in raced'
    BY DEF ConnectionsAccounted
  <2>1. task'[u].at = task[u].at /\ task'[u].account = task[u].account
    BY DEF ConnIInv, ConnTypeOK, Shutdown
  <2>2. Held(u) \/ u \in lost \/ task[u].account \in raced
    BY DEF ConnIInv, ConnectionsAccounted, Shutdown
  <2>3. Held(u) => Held(u)'
    <3>1. Busy(u) => Busy(u)'
      BY <2>1 DEF Busy
    <3>2. ASSUME NEW b \in Accounts, entries[b] = u
          PROVE  Held(u)'
      <4>1. u # NoOne
        BY ConnAssumption
      <4>2. entries'[b] = u \/ u \in caller'[c].closes
        BY <3>2, <4>1 DEF ConnIInv, ConnTypeOK, Shutdown
      <4> QED
        BY <4>2 DEF Held
    <3>3. ASSUME NEW d \in Callers, u \in caller[d].closes
          PROVE  u \in caller'[d].closes
      BY <3>3 DEF ConnIInv, ConnTypeOK, Shutdown, Quiet
    <3> QED
      BY <3>1, <3>2, <3>3 DEF Held
  <2> QED
    BY <2>1, <2>2, <2>3 DEF Shutdown
<1> QED
  BY <1>1, <1>2, <1>3, <1>4, <1>5, <1>6, <1>7, <1>8, <1>9 DEF ConnIInv

\* acquire returns a warm entry.
LEMMA ConnAcquireWarm ==
  ASSUME ConnIInv, NEW c \in Callers, AcquireWarm(c)
  PROVE  ConnIInv'
<1>1. ConnTypeOK'
  <2> DEFINE r == [caller[c] EXCEPT !.at = "use"]
  <2>1. ConnTypeOK /\ caller[c] \in Coroutine
    BY DEF ConnIInv, ConnTypeOK, Coroutine
  <2>2. r \in Coroutine
    BY <2>1 DEF Coroutine
  <2>3. /\ caller' = [caller EXCEPT ![c] = r] /\ idle' \subseteq idle
        /\ UNCHANGED <<loop, entries, opening, task, conn, sick, raced, lost>>
    BY DEF AcquireWarm
  <2> QED
    BY <2>1, <2>2, <2>3, CallerMoves
<1>2. CallersInOrder'
  BY DEF ConnIInv, ConnTypeOK, CallersInOrder, AcquireWarm
<1>3. ConnectionsAccounted'
  BY DEF ConnIInv, ConnTypeOK, OpeningMeansNoEntry, EntriesAreOwn,
     ConnectionNeedsAccount, BornHasAccount, CallersInOrder, ConnectionsAccounted,
     AcquireWarm, Busy, Live, Held
<1>4. (RegisteredRuns /\ OneOpening /\ OpeningMeansNoEntry
      /\ EntriesAreOwn /\ ConnectionNeedsAccount /\ BornHasAccount)'
  BY DEF ConnIInv, RegisteredRuns, OneOpening, OpeningMeansNoEntry, EntriesAreOwn,
     ConnectionNeedsAccount, BornHasAccount, AcquireWarm, Busy, Live
<1> QED
  BY <1>1, <1>2, <1>3, <1>4 DEF ConnIInv

\* acquire registers a new opening, or joins the one there is.
LEMMA ConnAcquireCold ==
  ASSUME ConnIInv, NEW c \in Callers, NEW t \in Opens, AcquireCold(c, t)
  PROVE  ConnIInv'
<1>1. ConnTypeOK'
  BY DEF ConnIInv, ConnTypeOK, RegisteredRuns, BornHasAccount, CallersInOrder,
     AcquireCold, OpeningFor, Popped, Unborn, Busy
<1>2. RegisteredRuns'
  <2> SUFFICES ASSUME NEW b \in Accounts, opening'[b] # NoOne
               PROVE  /\ task'[opening'[b]].at \in {"account", "connect", "close"}
                      /\ task'[opening'[b]].account = b /\ ~task'[opening'[b]].cancel
    BY DEF RegisteredRuns, Busy
  <2> DEFINE a == caller[c].account
  <2>1. a \in Accounts
    BY DEF ConnIInv, CallersInOrder, AcquireCold
  <2>2. CASE b = a /\ opening[a] = NoOne
    BY <2>1, <2>2 DEF ConnIInv, ConnTypeOK, AcquireCold, OpeningFor, Busy
  <2>3. CASE ~(b = a /\ opening[a] = NoOne)
    <3>1. opening'[b] = opening[b]
      BY <2>1, <2>3 DEF ConnIInv, ConnTypeOK, AcquireCold, OpeningFor
    <3>2. Busy(opening[b]) /\ task[opening[b]].account = b /\ ~task[opening[b]].cancel
      BY <3>1 DEF ConnIInv, RegisteredRuns
    <3>3. task'[opening[b]] = task[opening[b]]
      BY <3>1, <3>2, ConnAssumption DEF ConnIInv, ConnTypeOK, AcquireCold, OpeningFor, Unborn, Busy
    <3> QED
      BY <3>1, <3>2, <3>3 DEF Busy
  <2> QED
    BY <2>2, <2>3
<1>3. OneOpening'
  BY ConnAssumption DEF ConnIInv, ConnTypeOK, RegisteredRuns, OneOpening,
     CallersInOrder, AcquireCold, OpeningFor, Popped, Unborn, Busy
<1>4. OpeningMeansNoEntry'
  BY ConnAssumption DEF ConnIInv, ConnTypeOK, RegisteredRuns, OneOpening,
     OpeningMeansNoEntry, BornHasAccount, CallersInOrder, AcquireCold, OpeningFor,
     Popped, Unborn, Busy, Live
<1>5. EntriesAreOwn'
  BY ConnAssumption DEF ConnIInv, ConnTypeOK, RegisteredRuns, EntriesAreOwn,
     BornHasAccount, CallersInOrder, AcquireCold, OpeningFor, Popped, Unborn, Busy
<1>6. ConnectionNeedsAccount'
  BY ConnAssumption DEF ConnIInv, ConnTypeOK, RegisteredRuns, ConnectionNeedsAccount,
     CallersInOrder, AcquireCold, OpeningFor, Popped, Unborn, Busy
<1>7. BornHasAccount'
  BY ConnAssumption DEF ConnIInv, ConnTypeOK, RegisteredRuns, BornHasAccount,
     CallersInOrder, AcquireCold, OpeningFor, Popped, Unborn, Busy
<1>8. CallersInOrder'
  BY ConnAssumption DEF ConnIInv, ConnTypeOK, RegisteredRuns, CallersInOrder,
     AcquireCold, OpeningFor, Popped, Unborn, Busy
<1>9. ConnectionsAccounted'
  BY ConnAssumption DEF ConnIInv, ConnTypeOK, RegisteredRuns, OpeningMeansNoEntry,
     EntriesAreOwn, ConnectionNeedsAccount, BornHasAccount, CallersInOrder,
     ConnectionsAccounted, AcquireCold, OpeningFor, Popped, Unborn, Busy, Live, Held
<1> QED
  BY <1>1, <1>2, <1>3, <1>4, <1>5, <1>6, <1>7, <1>8, <1>9 DEF ConnIInv

\* A coroutine whose stale connection is closed goes on to the opening.
LEMMA ConnAwaitOpening ==
  ASSUME ConnIInv, NEW c \in Callers, AwaitOpening(c)
  PROVE  ConnIInv'
<1>1. ConnTypeOK'
  <2> DEFINE r == [caller[c] EXCEPT !.at = "await"]
  <2>1. ConnTypeOK /\ caller[c] \in Coroutine
    BY DEF ConnIInv, ConnTypeOK, Coroutine
  <2>2. r \in Coroutine
    BY <2>1 DEF Coroutine
  <2>3. /\ caller' = [caller EXCEPT ![c] = r] /\ idle' \subseteq idle
        /\ UNCHANGED <<loop, entries, opening, task, conn, sick, raced, lost>>
    BY DEF AwaitOpening
  <2> QED
    BY <2>1, <2>2, <2>3, CallerMoves
<1>2. CallersInOrder'
  BY DEF ConnIInv, ConnTypeOK, CallersInOrder, AwaitOpening
<1>3. ConnectionsAccounted'
  BY DEF ConnIInv, ConnTypeOK, OpeningMeansNoEntry, EntriesAreOwn,
     ConnectionNeedsAccount, BornHasAccount, CallersInOrder, ConnectionsAccounted,
     AwaitOpening, Busy, Live, Held
<1>4. (RegisteredRuns /\ OneOpening /\ OpeningMeansNoEntry
      /\ EntriesAreOwn /\ ConnectionNeedsAccount /\ BornHasAccount)'
  BY DEF ConnIInv, RegisteredRuns, OneOpening, OpeningMeansNoEntry, EntriesAreOwn,
     ConnectionNeedsAccount, BornHasAccount, AwaitOpening, Busy, Live
<1> QED
  BY <1>1, <1>2, <1>3, <1>4 DEF ConnIInv

\* A coroutine gets what its opening came to.
LEMMA ConnAcquireReturns ==
  ASSUME ConnIInv, NEW c \in Callers, AcquireReturns(c)
  PROVE  ConnIInv'
<1>1. ConnTypeOK'
  <2> DEFINE r == IF \E t \in caller[c].waits : task[t].at = "done"
                  THEN [caller[c] EXCEPT !.at = "use", !.waits = {}] ELSE Quiet
  <2>1. ConnTypeOK /\ caller[c] \in Coroutine
    BY DEF ConnIInv, ConnTypeOK, Coroutine
  <2>2. [caller[c] EXCEPT !.at = "use", !.waits = {}] \in Coroutine
    BY <2>1 DEF Coroutine
  <2>3. r \in Coroutine
    BY <2>2, QuietIsCoroutine
  <2>4. /\ caller' = [caller EXCEPT ![c] = r] /\ idle' \subseteq idle
        /\ UNCHANGED <<loop, entries, opening, task, conn, sick, raced, lost>>
    BY DEF AcquireReturns
  <2> HIDE DEF r
  <2> QED
    BY <2>1, <2>3, <2>4, CallerMoves
<1>2. CallersInOrder'
  BY DEF ConnIInv, ConnTypeOK, CallersInOrder, AcquireReturns, Quiet, Busy
<1>3. ConnectionsAccounted'
  BY DEF ConnIInv, ConnTypeOK, OpeningMeansNoEntry, EntriesAreOwn,
     ConnectionNeedsAccount, BornHasAccount, CallersInOrder, ConnectionsAccounted,
     AcquireReturns, Quiet, Busy, Live, Held
<1>4. (RegisteredRuns /\ OneOpening /\ OpeningMeansNoEntry
      /\ EntriesAreOwn /\ ConnectionNeedsAccount /\ BornHasAccount)'
  BY DEF ConnIInv, RegisteredRuns, OneOpening, OpeningMeansNoEntry, EntriesAreOwn,
     ConnectionNeedsAccount, BornHasAccount, AcquireReturns, Busy, Live
<1> QED
  BY <1>1, <1>2, <1>3, <1>4 DEF ConnIInv

\* The lease of a caller ends.
LEMMA ConnReleaseConnection ==
  ASSUME ConnIInv, NEW c \in Callers, ReleaseConnection(c)
  PROVE  ConnIInv'
<1>1. ConnTypeOK'
  <2>1. ConnTypeOK
    BY DEF ConnIInv
  <2> QED
    BY <2>1, QuietIsCoroutine, CallerMoves DEF ReleaseConnection
<1>2. CallersInOrder'
  BY DEF ConnIInv, ConnTypeOK, CallersInOrder, ReleaseConnection, Quiet
<1>3. ConnectionsAccounted'
  BY DEF ConnIInv, ConnTypeOK, OpeningMeansNoEntry, EntriesAreOwn,
     ConnectionNeedsAccount, BornHasAccount, CallersInOrder, ConnectionsAccounted,
     ReleaseConnection, Quiet, Busy, Live, Held
<1>4. (RegisteredRuns /\ OneOpening /\ OpeningMeansNoEntry
      /\ EntriesAreOwn /\ ConnectionNeedsAccount /\ BornHasAccount)'
  BY DEF ConnIInv, RegisteredRuns, OneOpening, OpeningMeansNoEntry, EntriesAreOwn,
     ConnectionNeedsAccount, BornHasAccount, ReleaseConnection, Busy, Live
<1> QED
  BY <1>1, <1>2, <1>3, <1>4 DEF ConnIInv

\* The cancelled openings that close_account or shutdown gathers are over.
LEMMA ConnGathered ==
  ASSUME ConnIInv, NEW c \in Callers, Gathered(c)
  PROVE  ConnIInv'
<1>1. ConnTypeOK'
  <2> DEFINE r == [caller[c] EXCEPT !.at = "close", !.waits = {}]
  <2>1. ConnTypeOK /\ caller[c] \in Coroutine
    BY DEF ConnIInv, ConnTypeOK, Coroutine
  <2>2. r \in Coroutine
    BY <2>1 DEF Coroutine
  <2>3. /\ caller' = [caller EXCEPT ![c] = r] /\ idle' \subseteq idle
        /\ UNCHANGED <<loop, entries, opening, task, conn, sick, raced, lost>>
    BY DEF Gathered
  <2> QED
    BY <2>1, <2>2, <2>3, CallerMoves
<1>2. CallersInOrder'
  BY DEF ConnIInv, ConnTypeOK, CallersInOrder, Gathered, Busy
<1>3. ConnectionsAccounted'
  BY DEF ConnIInv, ConnTypeOK, OpeningMeansNoEntry, EntriesAreOwn,
     ConnectionNeedsAccount, BornHasAccount, CallersInOrder, ConnectionsAccounted,
     Gathered, Busy, Live, Held
<1>4. (RegisteredRuns /\ OneOpening /\ OpeningMeansNoEntry
      /\ EntriesAreOwn /\ ConnectionNeedsAccount /\ BornHasAccount)'
  BY DEF ConnIInv, RegisteredRuns, OneOpening, OpeningMeansNoEntry, EntriesAreOwn,
     ConnectionNeedsAccount, BornHasAccount, Gathered, Busy, Live
<1> QED
  BY <1>1, <1>2, <1>3, <1>4 DEF ConnIInv

\* A coroutine closes one connection of its list.
LEMMA ConnCloseOne ==
  ASSUME ConnIInv, NEW c \in Callers, NEW t \in Opens, CloseOne(c, t)
  PROVE  ConnIInv'
<1>1. ConnTypeOK'
  <2>1. caller'[c] \in Coroutine
    BY DEF ConnIInv, ConnTypeOK, CloseOne, Coroutine
  <2> QED
    BY <2>1 DEF ConnIInv, ConnTypeOK, CloseOne, Coroutine
<1>2. ConnectionNeedsAccount'
  BY DEF ConnIInv, ConnTypeOK, ConnectionNeedsAccount, CloseOne
<1>3. CallersInOrder'
  BY DEF ConnIInv, ConnTypeOK, CallersInOrder, CloseOne
<1>4. ConnectionsAccounted'
  BY DEF ConnIInv, ConnTypeOK, OpeningMeansNoEntry, EntriesAreOwn,
     ConnectionNeedsAccount, BornHasAccount, CallersInOrder, ConnectionsAccounted,
     CloseOne, Busy, Live, Held
<1>5. (RegisteredRuns /\ OneOpening /\ OpeningMeansNoEntry
      /\ EntriesAreOwn /\ BornHasAccount)'
  BY DEF ConnIInv, RegisteredRuns, OneOpening, OpeningMeansNoEntry, EntriesAreOwn,
     BornHasAccount, CloseOne, Busy, Live
<1> QED
  BY <1>1, <1>2, <1>3, <1>4, <1>5 DEF ConnIInv

\* Closing one connection raises: the rest of the list is lost.
LEMMA ConnCloseRaises ==
  ASSUME ConnIInv, NEW c \in Callers, NEW t \in Opens, CloseRaises(c, t)
  PROVE  ConnIInv'
<1>1. ConnTypeOK'
  BY DEF ConnIInv, ConnTypeOK, CloseRaises, Quiet
<1>2. CallersInOrder'
  BY DEF ConnIInv, ConnTypeOK, CallersInOrder, CloseRaises, Quiet
<1>3. ConnectionsAccounted'
  BY DEF ConnIInv, ConnTypeOK, OpeningMeansNoEntry, EntriesAreOwn,
     ConnectionNeedsAccount, BornHasAccount, CallersInOrder, ConnectionsAccounted,
     CloseRaises, Quiet, Busy, Live, Held
<1>4. (RegisteredRuns /\ OneOpening /\ OpeningMeansNoEntry
      /\ EntriesAreOwn /\ ConnectionNeedsAccount /\ BornHasAccount)'
  BY DEF ConnIInv, RegisteredRuns, OneOpening, OpeningMeansNoEntry, EntriesAreOwn,
     ConnectionNeedsAccount, BornHasAccount, CloseRaises, Busy, Live
<1> QED
  BY <1>1, <1>2, <1>3, <1>4 DEF ConnIInv

\* A coroutine with nothing left to close returns.
LEMMA ConnCloseReturns ==
  ASSUME ConnIInv, NEW c \in Callers, CloseReturns(c)
  PROVE  ConnIInv'
<1>1. ConnTypeOK'
  BY DEF ConnIInv, ConnTypeOK, CloseReturns, Quiet
<1>2. CallersInOrder'
  BY DEF ConnIInv, ConnTypeOK, CallersInOrder, CloseReturns, Quiet
<1>3. ConnectionsAccounted'
  BY DEF ConnIInv, ConnTypeOK, OpeningMeansNoEntry, EntriesAreOwn,
     ConnectionNeedsAccount, BornHasAccount, CallersInOrder, ConnectionsAccounted,
     CloseReturns, Quiet, Busy, Live, Held
<1>4. (RegisteredRuns /\ OneOpening /\ OpeningMeansNoEntry
      /\ EntriesAreOwn /\ ConnectionNeedsAccount /\ BornHasAccount)'
  BY DEF ConnIInv, RegisteredRuns, OneOpening, OpeningMeansNoEntry, EntriesAreOwn,
     ConnectionNeedsAccount, BornHasAccount, CloseReturns, Busy, Live
<1> QED
  BY <1>1, <1>2, <1>3, <1>4 DEF ConnIInv

\* An opening got its account and has a connection from then on.
LEMMA ConnGotAccount ==
  ASSUME ConnIInv, NEW t \in Opens, GotAccount(t)
  PROVE  ConnIInv'
<1>1. ConnTypeOK'
  <2>1. task'[t] \in OpenTask
    BY DEF ConnIInv, ConnTypeOK, GotAccount, OpenTask
  <2>2. task' \in [Opens -> OpenTask]
    BY <2>1 DEF ConnIInv, ConnTypeOK, GotAccount, OpenTask
  <2> QED
    BY <2>2 DEF ConnIInv, ConnTypeOK, GotAccount, OpenTask
<1>2. RegisteredRuns'
  BY DEF ConnIInv, ConnTypeOK, RegisteredRuns, BornHasAccount, GotAccount, Busy
<1>3. OneOpening'
  BY DEF ConnIInv, ConnTypeOK, RegisteredRuns, OneOpening, GotAccount, Busy
<1>4. OpeningMeansNoEntry'
  BY DEF ConnIInv, ConnTypeOK, RegisteredRuns, OneOpening, OpeningMeansNoEntry,
     BornHasAccount, GotAccount, Busy, Live
<1>5. EntriesAreOwn'
  BY DEF ConnIInv, ConnTypeOK, EntriesAreOwn, BornHasAccount, GotAccount
<1>6. ConnectionNeedsAccount'
  BY DEF ConnIInv, ConnTypeOK, ConnectionNeedsAccount, GotAccount
<1>7. BornHasAccount'
  BY DEF ConnIInv, ConnTypeOK, BornHasAccount, GotAccount
<1>8. ConnectionsAccounted'
  BY DEF ConnIInv, ConnTypeOK, OpeningMeansNoEntry, EntriesAreOwn,
     ConnectionNeedsAccount, BornHasAccount, CallersInOrder, ConnectionsAccounted,
     GotAccount, Busy, Live, Held
<1>9. (CallersInOrder)'
  BY DEF ConnIInv, CallersInOrder, GotAccount
<1> QED
  BY <1>1, <1>2, <1>3, <1>4, <1>5, <1>6, <1>7, <1>8, <1>9 DEF ConnIInv

\* An opening that did not get its account has nothing to close.
LEMMA ConnNoAccount ==
  ASSUME ConnIInv, NEW t \in Opens, NoAccount(t)
  PROVE  ConnIInv'
<1>1. ConnTypeOK'
  BY DEF ConnIInv, ConnTypeOK, BornHasAccount, NoAccount, Unregister
<1>2. RegisteredRuns'
  BY ConnAssumption DEF ConnIInv, ConnTypeOK, RegisteredRuns, BornHasAccount, NoAccount,
     Unregister, Busy
<1>3. OneOpening'
  BY ConnAssumption DEF ConnIInv, ConnTypeOK, RegisteredRuns, OneOpening, NoAccount,
     Unregister, Busy
<1>4. OpeningMeansNoEntry'
  BY ConnAssumption DEF ConnIInv, ConnTypeOK, RegisteredRuns, OneOpening,
     OpeningMeansNoEntry, BornHasAccount, NoAccount, Unregister, Busy, Live
<1>5. EntriesAreOwn'
  BY ConnAssumption DEF ConnIInv, ConnTypeOK, EntriesAreOwn, BornHasAccount, NoAccount,
     Unregister
<1>6. ConnectionNeedsAccount'
  BY ConnAssumption DEF ConnIInv, ConnTypeOK, ConnectionNeedsAccount, NoAccount,
     Unregister
<1>7. BornHasAccount'
  BY ConnAssumption DEF ConnIInv, ConnTypeOK, BornHasAccount, NoAccount, Unregister
<1>8. ConnectionsAccounted'
  BY ConnAssumption DEF ConnIInv, ConnTypeOK, OpeningMeansNoEntry, EntriesAreOwn,
     ConnectionNeedsAccount, BornHasAccount, CallersInOrder, ConnectionsAccounted,
     NoAccount, Unregister, Busy, Live, Held
<1>9. (CallersInOrder)'
  BY DEF ConnIInv, CallersInOrder, NoAccount
<1> QED
  BY <1>1, <1>2, <1>3, <1>4, <1>5, <1>6, <1>7, <1>8, <1>9 DEF ConnIInv

\* An opening becomes the entry of its account.
LEMMA ConnSynchronized ==
  ASSUME ConnIInv, NEW t \in Opens, Synchronized(t)
  PROVE  ConnIInv'
<1>1. ConnTypeOK'
  BY DEF ConnIInv, ConnTypeOK, BornHasAccount, Synchronized, Unregister
<1>2. RegisteredRuns'
  BY ConnAssumption DEF ConnIInv, ConnTypeOK, RegisteredRuns, BornHasAccount,
     Synchronized, Unregister, Busy
<1>3. OneOpening'
  BY ConnAssumption DEF ConnIInv, ConnTypeOK, RegisteredRuns, OneOpening, Synchronized,
     Unregister, Busy
<1>4. OpeningMeansNoEntry'
  BY ConnAssumption DEF ConnIInv, ConnTypeOK, RegisteredRuns, OneOpening,
     OpeningMeansNoEntry, BornHasAccount, Synchronized, Unregister, Busy, Live
<1>5. EntriesAreOwn'
  BY ConnAssumption DEF ConnIInv, ConnTypeOK, EntriesAreOwn, BornHasAccount,
     Synchronized, Unregister
<1>6. ConnectionNeedsAccount'
  BY ConnAssumption DEF ConnIInv, ConnTypeOK, ConnectionNeedsAccount, Synchronized,
     Unregister
<1>7. BornHasAccount'
  BY ConnAssumption DEF ConnIInv, ConnTypeOK, BornHasAccount, Synchronized, Unregister
<1>8. ConnectionsAccounted'
  BY ConnAssumption DEF ConnIInv, ConnTypeOK, OpeningMeansNoEntry, EntriesAreOwn,
     ConnectionNeedsAccount, BornHasAccount, CallersInOrder, ConnectionsAccounted,
     Synchronized, Unregister, Busy, Live, Held
<1>9. (CallersInOrder)'
  BY DEF ConnIInv, CallersInOrder, Synchronized
<1> QED
  BY <1>1, <1>2, <1>3, <1>4, <1>5, <1>6, <1>7, <1>8, <1>9 DEF ConnIInv

\* An opening that fails or is cancelled goes on to close its connection.
LEMMA ConnOpenFails ==
  ASSUME ConnIInv, NEW t \in Opens, OpenFails(t)
  PROVE  ConnIInv'
<1>1. ConnTypeOK'
  <2> PICK r : r = [task[t] EXCEPT !.at = "close", !.cancel = FALSE]
    OBVIOUS
  <2>1. task \in [Opens -> OpenTask]
    BY DEF ConnIInv, ConnTypeOK, OpenTask
  <2>2. task' \in [Opens -> OpenTask]
    <3>1. r \in OpenTask
      BY <2>1 DEF OpenTask
    <3>2. task' = [task EXCEPT ![t] = r]
      BY DEF OpenFails
    <3> QED
      BY <2>1, <3>1, <3>2
  <2> QED
    BY <2>2 DEF ConnIInv, ConnTypeOK, OpenFails, OpenTask
<1>2. RegisteredRuns'
  BY DEF ConnIInv, ConnTypeOK, RegisteredRuns, BornHasAccount, OpenFails, Busy
<1>3. OneOpening'
  BY DEF ConnIInv, ConnTypeOK, RegisteredRuns, OneOpening, OpenFails, Busy
<1>4. OpeningMeansNoEntry'
  BY DEF ConnIInv, ConnTypeOK, RegisteredRuns, OneOpening, OpeningMeansNoEntry,
     BornHasAccount, OpenFails, Busy, Live
<1>5. EntriesAreOwn'
  BY DEF ConnIInv, ConnTypeOK, EntriesAreOwn, BornHasAccount, OpenFails
<1>6. ConnectionNeedsAccount'
  BY DEF ConnIInv, ConnTypeOK, ConnectionNeedsAccount, OpenFails
<1>7. BornHasAccount'
  BY DEF ConnIInv, ConnTypeOK, BornHasAccount, OpenFails
<1>8. ConnectionsAccounted'
  BY DEF ConnIInv, ConnTypeOK, OpeningMeansNoEntry, EntriesAreOwn,
     ConnectionNeedsAccount, BornHasAccount, CallersInOrder, ConnectionsAccounted,
     OpenFails, Busy, Live, Held
<1>9. (CallersInOrder)'
  BY DEF ConnIInv, CallersInOrder, OpenFails
<1> QED
  BY <1>1, <1>2, <1>3, <1>4, <1>5, <1>6, <1>7, <1>8, <1>9 DEF ConnIInv

\* The except of _open has closed the connection, or was interrupted.
LEMMA ConnOpenClosed ==
  ASSUME ConnIInv, NEW t \in Opens, OpenClosed(t)
  PROVE  ConnIInv'
<1>1. ConnTypeOK'
  BY DEF ConnIInv, ConnTypeOK, BornHasAccount, OpenClosed, Unregister
<1>2. RegisteredRuns'
  BY ConnAssumption DEF ConnIInv, ConnTypeOK, RegisteredRuns, BornHasAccount,
     OpenClosed, Unregister, Busy
<1>3. OneOpening'
  BY ConnAssumption DEF ConnIInv, ConnTypeOK, RegisteredRuns, OneOpening, OpenClosed,
     Unregister, Busy
<1>4. OpeningMeansNoEntry'
  BY ConnAssumption DEF ConnIInv, ConnTypeOK, RegisteredRuns, OneOpening,
     OpeningMeansNoEntry, BornHasAccount, OpenClosed, Unregister, Busy, Live
<1>5. EntriesAreOwn'
  BY ConnAssumption DEF ConnIInv, ConnTypeOK, EntriesAreOwn, BornHasAccount, OpenClosed,
     Unregister
<1>6. ConnectionNeedsAccount'
  BY ConnAssumption DEF ConnIInv, ConnTypeOK, ConnectionNeedsAccount, OpenClosed,
     Unregister
<1>7. BornHasAccount'
  BY ConnAssumption DEF ConnIInv, ConnTypeOK, BornHasAccount, OpenClosed, Unregister
<1>8. ConnectionsAccounted'
  BY ConnAssumption DEF ConnIInv, ConnTypeOK, OpeningMeansNoEntry, EntriesAreOwn,
     ConnectionNeedsAccount, BornHasAccount, CallersInOrder, ConnectionsAccounted,
     OpenClosed, Unregister, Busy, Live, Held
<1>9. (CallersInOrder)'
  BY DEF ConnIInv, CallersInOrder, OpenClosed
<1> QED
  BY <1>1, <1>2, <1>3, <1>4, <1>5, <1>6, <1>7, <1>8, <1>9 DEF ConnIInv

\* A connection stops being healthy.
LEMMA ConnHealthLost ==
  ASSUME ConnIInv, NEW a \in Accounts, HealthLost(a)
  PROVE  ConnIInv'
  BY DEF ConnIInv, ConnTypeOK, RegisteredRuns, OneOpening, OpeningMeansNoEntry,
     EntriesAreOwn, ConnectionNeedsAccount, BornHasAccount, CallersInOrder,
     ConnectionsAccounted, HealthLost, Busy, Live, Held

\* A connection becomes idle.
LEMMA ConnGrowsIdle ==
  ASSUME ConnIInv, NEW a \in Accounts, GrowsIdle(a)
  PROVE  ConnIInv'
  BY DEF ConnIInv, ConnTypeOK, RegisteredRuns, OneOpening, OpeningMeansNoEntry,
     EntriesAreOwn, ConnectionNeedsAccount, BornHasAccount, CallersInOrder,
     ConnectionsAccounted, GrowsIdle, Busy, Live, Held

\* Every step of the manager keeps ConnIInv.
LEMMA ConnNextIInv == ConnIInv /\ [ConnNext]_connVars => ConnIInv'
<1> SUFFICES ASSUME ConnIInv, [ConnNext]_connVars PROVE ConnIInv'
  OBVIOUS
<1>1. CASE StartRuntime
  BY <1>1, ConnStartRuntime
<1>2. ASSUME NEW c \in Callers, NEW a \in Accounts, EvictIdle(c, a) \/ CloseAccount(c, a)
      PROVE  ConnIInv'
  BY <1>2, ConnEvictIdle, ConnCloseAccount
<1>3. ASSUME NEW c \in Callers, Shutdown(c)
      PROVE  ConnIInv'
  BY <1>3, ConnShutdown
<1>4. ASSUME NEW c \in Callers, CallerStep(c)
      PROVE  ConnIInv'
  BY <1>4, ConnAcquireWarm, ConnAcquireCold, ConnAwaitOpening, ConnAcquireReturns,
     ConnReleaseConnection, ConnGathered, ConnCloseOne, ConnCloseRaises, ConnCloseReturns
     DEF CallerStep
<1>5. ASSUME NEW t \in Opens, TaskStep(t)
      PROVE  ConnIInv'
  BY <1>5, ConnGotAccount, ConnNoAccount, ConnSynchronized, ConnOpenFails, ConnOpenClosed
     DEF TaskStep
<1>6. ASSUME NEW a \in Accounts, HealthLost(a) \/ GrowsIdle(a)
      PROVE  ConnIInv'
  BY <1>6, ConnHealthLost, ConnGrowsIdle
<1>7. CASE UNCHANGED connVars
  BY <1>7 DEF connVars, ConnIInv, ConnTypeOK, RegisteredRuns, OneOpening, OpeningMeansNoEntry,
     EntriesAreOwn, ConnectionNeedsAccount, BornHasAccount, CallersInOrder, ConnectionsAccounted,
     Busy, Live, Held
<1> QED
  BY <1>1, <1>2, <1>3, <1>4, <1>5, <1>6, <1>7 DEF ConnNext

\* The manager's tables, tasks and callers keep their types: an entry or an
\* opening is one of the openings ever begun, a caller waits for such openings.
THEOREM ConnTypeCorrect == ConnSpec => []ConnTypeOK
<1>1. ConnIInv => ConnTypeOK
  BY DEF ConnIInv
<1> QED
  BY <1>1, ConnInitIInv, ConnNextIInv, PTL DEF ConnSpec

(***************************************************************************)
(* Concurrent acquires share one opening per account (acquire, _open,      *)
(* close_account and shutdown of metaapi_connections.py), unless a finally *)
(* removed a newer registration, for any numbers of accounts, coroutines   *)
(* and openings.                                                           *)
(***************************************************************************)
THEOREM OpeningIsShared == ConnSpec => []OneOpening
<1>1. ConnIInv => OneOpening
  BY DEF ConnIInv
<1> QED
  BY <1>1, ConnInitIInv, ConnNextIInv, PTL DEF ConnSpec

(***************************************************************************)
(* No open connection is forgotten by the manager but by the two ways that *)
(* ConnectionsAccounted names: a close() that raised, and a finally that   *)
(* removed a newer registration.                                           *)
(***************************************************************************)
THEOREM NoOtherLeak == ConnSpec => []ConnectionsAccounted
<1>1. ConnIInv => ConnectionsAccounted
  BY DEF ConnIInv
<1> QED
  BY <1>1, ConnInitIInv, ConnNextIInv, PTL DEF ConnSpec

-----------------------------------------------------------------------------
(***************************************************************************)
(* The ownership of the Telegram runtime: no session is held by two        *)
(* runtimes at once, but for one that ran past the expiry of its ownership *)
(* key.                                                                    *)
(***************************************************************************)
\* Outside run's body a runtime has no client: before it claims the key and
\* once _disconnect_all_clients is through.
IdleHoldsNothing ==
    \A r \in Runtimes : phase[r] \in {"waiting", "stopped"} => clients[r] = {}

\* Whoever may have clients has the key, or lost it by its expiry.
ActiveOwnsOrOverdue ==
    \A r \in Runtimes : phase[r] \in {"running", "stopping"} => ownerKey = r \/ r \in overdue

OwnIInv == OwnTypeOK /\ IdleHoldsNothing /\ ActiveOwnsOrOverdue

\* No runtime has the key at first.
LEMMA OwnInitIInv == OwnInit => OwnIInv
  BY DEF OwnInit, OwnIInv, OwnTypeOK, IdleHoldsNothing, ActiveOwnsOrOverdue

\* Every step of a runtime or of Redis keeps OwnIInv.
LEMMA OwnNextIInv == OwnIInv /\ [OwnNext]_ownVars => OwnIInv'
<1> SUFFICES ASSUME OwnIInv, [OwnNext]_ownVars PROVE OwnIInv'
  OBVIOUS
<1> USE OwnershipAssumption DEF OwnIInv, OwnTypeOK, IdleHoldsNothing, ActiveOwnsOrOverdue
<1>1. CASE KeyExpires
  BY <1>1 DEF KeyExpires
<1>2. ASSUME NEW r \in Runtimes, Claim(r) PROVE OwnIInv'
  BY <1>2 DEF Claim
<1>3. ASSUME NEW r \in Runtimes, LeaveLoop(r) PROVE OwnIInv'
  BY <1>3 DEF LeaveLoop
<1>4. ASSUME NEW r \in Runtimes, DisconnectAll(r) PROVE OwnIInv'
  BY <1>4 DEF DisconnectAll
<1>5. ASSUME NEW r \in Runtimes, ReleaseKey(r) PROVE OwnIInv'
  BY <1>5 DEF ReleaseKey
<1>6. ASSUME NEW r \in Runtimes, KillRuntime(r) PROVE OwnIInv'
  BY <1>6 DEF KillRuntime
<1>7. ASSUME NEW r \in Runtimes, NEW s \in Sessions, ConnectSession(r, s) PROVE OwnIInv'
  BY <1>7 DEF ConnectSession
<1>8. ASSUME NEW r \in Runtimes, NEW s \in Sessions, DropSession(r, s) PROVE OwnIInv'
  BY <1>8 DEF DropSession
<1>9. CASE UNCHANGED ownVars
  BY <1>9 DEF ownVars
<1> QED
  BY <1>1, <1>2, <1>3, <1>4, <1>5, <1>6, <1>7, <1>8, <1>9 DEF OwnNext

\* Two runtimes with a client of one session are both active, and the key has
\* one value.
LEMMA HeldByOwner == OwnIInv => SessionHeldOnce
<1> SUFFICES ASSUME OwnIInv, NEW r \in Runtimes, NEW s \in Runtimes,
                    r # s, clients[r] \cap clients[s] # {}
             PROVE  r \in overdue \/ s \in overdue
  BY DEF SessionHeldOnce
<1>1. clients[r] # {} /\ clients[s] # {}
  OBVIOUS
<1>2. phase[r] \in {"running", "stopping"} /\ phase[s] \in {"running", "stopping"}
  BY <1>1 DEF OwnIInv, OwnTypeOK, IdleHoldsNothing
<1> QED
  BY <1>2 DEF OwnIInv, ActiveOwnsOrOverdue

\* Each variable of the ownership protocol keeps its type.
THEOREM OwnTypeCorrect == OwnSpec => []OwnTypeOK
<1>1. OwnIInv => OwnTypeOK
  BY DEF OwnIInv
<1> QED
  BY <1>1, OwnInitIInv, OwnNextIInv, PTL DEF OwnSpec

\* Of two telegram-session processes with a client of the same session, one
\* kept running past the expiry of its ownership key: the order of the finally
\* of run (clients first, key last) and the key's SET NX rule out the rest.
THEOREM SessionHeldOnceHolds == OwnSpec => []SessionHeldOnce
  BY OwnInitIInv, OwnNextIInv, HeldByOwner, PTL DEF OwnSpec

-----------------------------------------------------------------------------
(***************************************************************************)
(* Launch readiness is never reported for a role nobody has served within  *)
(* stale_after_seconds nor over an overdue intent.                         *)
(***************************************************************************)
\* A role with a running process is served.
RunningIsServed ==
    \A i \in Instances, r \in Roles : process[i] = r => unserved[r] = 0

\* A heartbeat is at least as old as the last moment its role was served.
BeatsDoNotOutlive ==
    \A i \in Instances : beat[i] # NoBeat => unserved[beat[i].role] <= beat[i].age

\* The age of an intent that is not under way is 0.
SettledIsYoung ==
    \A n \in Intents : intent[n].state = "settled" => intent[n].age = 0

HealthIInv == HealthTypeOK /\ RunningIsServed /\ BeatsDoNotOutlive /\ SettledIsYoung

\* Ages are counted past both limits.
LEMMA OldestType == Oldest \in Nat /\ StaleAfter < Oldest /\ MaxIntentAge < Oldest
  BY CopyHealthAssumption DEF Oldest

\* Ages stay within their bound.
LEMMA OlderType ==
  ASSUME NEW a \in 0..Oldest
  PROVE  Older(a) \in 0..Oldest
  BY OldestType DEF Older

\* Time keeps the order of ages.
LEMMA OlderMonotone ==
  ASSUME NEW a \in 0..Oldest, NEW b \in 0..Oldest, a <= b
  PROVE  Older(a) <= Older(b) /\ 0 <= Older(b)
  BY OldestType DEF Older

-----------------------------------------------------------------------------
\* Nothing runs at first.
LEMMA HealthInitIInv == HealthInit => HealthIInv
  BY OldestType, CopyHealthAssumption DEF HealthInit, HealthIInv, HealthTypeOK, LinkStates, RunningIsServed,
     BeatsDoNotOutlive, SettledIsYoung

\* Time passes.
LEMMA TimeKeepsIInv ==
  ASSUME HealthIInv, TimeGoesBy
  PROVE  HealthIInv'
<1> USE DEF HealthIInv, HealthTypeOK
<1>1. HealthTypeOK'
  <2>1. ASSUME NEW i \in Instances PROVE beat'[i] \in [role : Roles, age : 0..Oldest] \cup {NoBeat}
    BY OlderType DEF TimeGoesBy
  <2>2. ASSUME NEW r \in Roles PROVE unserved'[r] \in 0..Oldest
    BY OlderType, OldestType DEF TimeGoesBy
  <2>3. ASSUME NEW n \in Intents
        PROVE intent'[n] \in [state : {"active", "uncertain", "settled"}, age : 0..Oldest]
    BY OlderType DEF TimeGoesBy
  <2> QED
    BY <2>1, <2>2, <2>3 DEF TimeGoesBy
<1>2. RunningIsServed'
  BY DEF TimeGoesBy, RunningIsServed
<1>3. BeatsDoNotOutlive'
  <2> SUFFICES ASSUME NEW i \in Instances, beat'[i] # NoBeat
               PROVE  unserved'[beat'[i].role] <= beat'[i].age
    BY DEF BeatsDoNotOutlive
  <2>1. beat[i] # NoBeat /\ beat'[i] = [beat[i] EXCEPT !.age = Older(@)]
    BY DEF TimeGoesBy
  <2> DEFINE r == beat[i].role
  <2>2. r \in Roles /\ beat[i].age \in 0..Oldest /\ beat'[i].role = r
        /\ beat'[i].age = Older(beat[i].age) /\ unserved[r] <= beat[i].age
        /\ unserved[r] \in 0..Oldest
    BY <2>1 DEF BeatsDoNotOutlive
  <2>3. unserved'[r] = 0 \/ unserved'[r] = Older(unserved[r])
    BY <2>2 DEF TimeGoesBy
  <2> HIDE DEF r
  <2> QED
    BY <2>2, <2>3, OlderMonotone
<1>4. SettledIsYoung'
  BY DEF TimeGoesBy, SettledIsYoung
<1> QED
  BY <1>1, <1>2, <1>3, <1>4

\* Every step of the workers keeps HealthIInv.
LEMMA HealthNextIInv == HealthIInv /\ [HealthNext]_healthVars => HealthIInv'
<1> SUFFICES ASSUME HealthIInv, [HealthNext]_healthVars PROVE HealthIInv'
  OBVIOUS
<1> USE OldestType, CopyHealthAssumption
    DEF HealthIInv, HealthTypeOK, RunningIsServed, BeatsDoNotOutlive, SettledIsYoung
<1>1. ASSUME NEW i \in Instances, NEW r \in Roles, Start(i, r) PROVE HealthIInv'
  BY <1>1 DEF Start
<1>2. ASSUME NEW i \in Instances, record_worker_health(i) PROVE HealthIInv'
  BY <1>2 DEF record_worker_health
<1>3. ASSUME NEW i \in Instances, ProcessEnds(i) PROVE HealthIInv'
  BY <1>3 DEF ProcessEnds
<1>4. ASSUME NEW k \in Links, NEW s \in LinkStates, LinkChanges(k, s) PROVE HealthIInv'
  BY <1>4 DEF LinkChanges
<1>5. ASSUME NEW n \in Intents, IntentMoves(n) PROVE HealthIInv'
  BY <1>5 DEF IntentMoves
<1>6. CASE TimeGoesBy
  BY <1>6, TimeKeepsIInv
<1>7. CASE UNCHANGED healthVars
  BY <1>7 DEF healthVars
<1> QED
  BY <1>1, <1>2, <1>3, <1>4, <1>5, <1>6, <1>7 DEF HealthNext

-----------------------------------------------------------------------------
\* A role whose youngest heartbeat is fresh was served lately.
LEMMA FreshIsServed ==
  ASSUME HealthIInv, NEW r \in Roles, LatestAge(r) <= StaleAfter
  PROVE  unserved[r] <= StaleAfter
<1> DEFINE S == {Oldest} \cup
                {beat[i].age : i \in {j \in Instances : beat[j] # NoBeat /\ beat[j].role = r}}
<1>1. S \subseteq Nat /\ S # {}
  BY OldestType DEF HealthIInv, HealthTypeOK
<1>2. Min(S) \in S /\ Min(S) <= StaleAfter
  BY <1>1, MinOfNats DEF LatestAge
<1>3. PICK i \in Instances : beat[i] # NoBeat /\ beat[i].role = r /\ beat[i].age <= StaleAfter
  <2>1. Min(S) # Oldest
    BY <1>2, OldestType, CopyHealthAssumption
  <2> QED
    BY <1>2, <2>1
<1>4. unserved[r] <= beat[i].age
  BY <1>3 DEF HealthIInv, BeatsDoNotOutlive
<1> QED
  BY <1>3, <1>4, CopyHealthAssumption DEF HealthIInv, HealthTypeOK

\* The largest age of the intents in a state bounds each of them.
LEMMA OldestIntentBounds ==
  ASSUME HealthIInv, NEW n \in Intents
  PROVE  OldestIntent(intent[n].state) \in Nat /\ intent[n].age <= OldestIntent(intent[n].state)
<1> DEFINE st == intent[n].state
           S == {0} \cup {intent[k].age : k \in {m \in Intents : intent[m].state = st}}
<1>1. S \subseteq 0..Oldest /\ S # {} /\ intent[n].age \in S
  BY OldestType DEF HealthIInv, HealthTypeOK
<1>2. Max(S) \in S /\ \A y \in S : y <= Max(S)
  <2> HIDE DEF S
  <2> QED BY <1>1, OldestType, MaxOfBounded
<1>3. OldestIntent(st) = Max(S)
  BY DEF OldestIntent
<1> QED
  BY <1>1, <1>2, <1>3, OldestType

\* A report of readiness implies that the workers are served.
LEMMA ReadyIsServed == HealthIInv => ReadyMeansServed
<1> SUFFICES ASSUME HealthIInv, copy_launch_readiness
             PROVE  /\ \A r \in Roles : unserved[r] <= StaleAfter
                    /\ \A n \in Intents : intent[n].age <= MaxIntentAge
  BY DEF ReadyMeansServed
<1>1. ASSUME NEW r \in Roles PROVE unserved[r] <= StaleAfter
  <2>1. LatestAge(r) <= StaleAfter
    BY DEF copy_launch_readiness, copy_system_health, add_telegram_connection_health,
       add_metaapi_health, aggregate_health
  <2> QED
    BY <2>1, FreshIsServed
<1>2. ASSUME NEW n \in Intents PROVE intent[n].age <= MaxIntentAge
  <2>1. intent[n].state \in {"active", "uncertain", "settled"} /\ intent[n].age \in 0..Oldest
    BY DEF HealthIInv, HealthTypeOK
  <2>2. CASE intent[n].state = "settled"
    BY <2>2, CopyHealthAssumption DEF HealthIInv, SettledIsYoung
  <2>3. CASE intent[n].state \in {"active", "uncertain"}
    <3>1. OldestIntent(intent[n].state) <= MaxIntentAge
      BY <2>3 DEF copy_launch_readiness
    <3> QED
      BY <3>1, <2>1, OldestIntentBounds, CopyHealthAssumption
  <2> QED
    BY <2>1, <2>2, <2>3
<1> QED
  BY <1>1, <1>2

\* Processes, heartbeat rows and the ages of beats and intents keep their types.
THEOREM HealthTypeCorrect == HealthSpec => []HealthTypeOK
<1>1. HealthIInv => HealthTypeOK
  BY DEF HealthIInv
<1> QED
  BY <1>1, HealthInitIInv, HealthNextIInv, PTL DEF HealthSpec

\* Launch readiness means that every required role had a process within
\* stale_after_seconds and that no intent has been under way for longer than
\* its limit, whatever heartbeat rows dead or other processes left.
THEOREM ReadyMeansServedHolds == HealthSpec => []ReadyMeansServed
  BY HealthInitIInv, HealthNextIInv, ReadyIsServed, PTL DEF HealthSpec

-----------------------------------------------------------------------------
(***************************************************************************)
(* The Telegram sign-ins: a ready attempt has a row with a Telegram        *)
(* account of its own, and no order of commands destroys a row that was    *)
(* signed in. An attempt gets its first command once, so that its session  *)
(* belongs to one Telegram account.                                        *)
(***************************************************************************)
SignedIn == {"ready", "disconnected", "reauthentication_required"}

Starts(k) == k.type \in {"start", "qr"}

\* A sign-in is started once: until the command is handled it has no session.
StartedOnce ==
    \A p \in DOMAIN commands : Starts(commands[p]) =>
        /\ logins[commands[p].conn] = {} /\ owner[commands[p].conn] # Nobody
        /\ \A q \in DOMAIN commands :
             Starts(commands[q]) /\ commands[q].conn = commands[p].conn => q = p

\* The id of a row that never was names nothing.
UnusedIds ==
    \A c \in Conns : owner[c] = Nobody => row[c] = "absent" /\ identity[c] = Nobody /\ logins[c] = {}

\* A row has a Telegram account once it was signed in; its own session, when
\* it has one, is signed in to that account.
RowsOwnTheirAccount ==
    \A c \in Conns :
        /\ row[c] = "pending" => identity[c] = Nobody
        /\ Established(c) => identity[c] # Nobody /\ logins[c] = {identity[c]}

\* The unique constraint on telegram_user_id.
AccountsUnique ==
    \A c, d \in Conns : Established(c) /\ Established(d) /\ identity[c] = identity[d] => c = d

\* A row with a client was signed in, or is deleted.
ClientsAreSignedIn ==
    \A c \in Conns : c \in attached \/ c = restoring => row[c] # "pending" /\ owner[c] # Nobody

\* An attempt's row exists; it is its own row unless that was signed in, and
\* it was signed in when the attempt is ready.
AttemptsFollowRows ==
    \A a \in Conns :
        /\ attempt[a].conn # Nobody =>
             /\ row[attempt[a].conn] # "absent"
             /\ attempt[a].conn = a \/ Established(attempt[a].conn)
        /\ attempt[a].state = "ready" => attempt[a].conn # Nobody /\ Established(attempt[a].conn)

RowsSound ==
    UnusedIds /\ RowsOwnTheirAccount /\ AccountsUnique /\ ClientsAreSignedIn /\ AttemptsFollowRows

SessIInv == SessTypeOK /\ StartedOnce /\ RowsSound

\* What a step may do to rows and attempts while no row is removed.
Destroys(c) ==
    \/ Established(c) /\ row'[c] = "absent"
    \/ attempt[c] # NoAttempt /\ attempt'[c] = NoAttempt

-----------------------------------------------------------------------------
USE SessionsAssumption DEF RowStates, AuthStates, SignedIn

\* There are no attempts and no rows at first.
LEMMA SessInitIInv == SessInit => SessIInv
<1> SUFFICES ASSUME SessInit PROVE SessIInv
  OBVIOUS
<1>1. NoAttempt \in AuthAttempt /\ <<>> \in Seq(TelegramCommand)
  BY DEF NoAttempt, AuthAttempt
<1>2. SessTypeOK
  BY <1>1 DEF SessInit, SessTypeOK
<1> QED
  BY <1>2 DEF SessInit, SessIInv, StartedOnce, RowsSound, UnusedIds, RowsOwnTheirAccount,
         AccountsUnique, ClientsAreSignedIn, AttemptsFollowRows, Established, NoAttempt

\* Handling the first command, or publishing it again, keeps the others.
LEMMA FewerStarts ==
  ASSUME SessTypeOK, StartedOnce, commands # <<>>, commands' = Tail(commands),
         UNCHANGED owner,
         \A c \in Conns : logins'[c] = logins[c]
                          \/ logins[c] # {}
                          \/ (c = Head(commands).conn /\ Starts(Head(commands)))
  PROVE  StartedOnce' /\ commands' \in Seq(TelegramCommand)
<1>1. commands \in Seq(TelegramCommand)
  BY DEF SessTypeOK
<1>2. /\ commands' \in Seq(TelegramCommand) /\ Len(commands') = Len(commands) - 1
      /\ \A p \in DOMAIN commands' : p + 1 \in DOMAIN commands /\ commands'[p] = commands[p + 1]
      /\ 1 \in DOMAIN commands /\ commands[1] = Head(commands)
      /\ \A p \in DOMAIN commands' : p \in Nat \ {0}
  BY <1>1
<1>3. \A p \in DOMAIN commands : commands[p].conn \in Conns
  <2>1. \A p \in DOMAIN commands : commands[p] \in TelegramCommand
    BY <1>1
  <2> QED
    BY <2>1 DEF TelegramCommand
<1>4. ASSUME NEW p \in DOMAIN commands', Starts(commands'[p])
      PROVE  /\ logins'[commands'[p].conn] = {}
             /\ owner'[commands'[p].conn] # Nobody
             /\ \A q \in DOMAIN commands' :
                  Starts(commands'[q]) /\ commands'[q].conn = commands'[p].conn => q = p
  <2>1. logins[commands[p + 1].conn] = {} /\ owner[commands[p + 1].conn] # Nobody
    BY <1>2, <1>4 DEF StartedOnce
  <2>2. ~(commands[p + 1].conn = Head(commands).conn /\ Starts(Head(commands)))
    BY <1>2, <1>4 DEF StartedOnce
  <2>3. \A q \in DOMAIN commands' :
          Starts(commands[q + 1]) /\ commands[q + 1].conn = commands[p + 1].conn => q + 1 = p + 1
    BY <1>2, <1>4 DEF StartedOnce
  <2>4. \A q \in DOMAIN commands' :
          Starts(commands'[q]) /\ commands'[q].conn = commands'[p].conn => q = p
    BY <2>3, <1>2
  <2> QED
    BY <2>1, <2>2, <2>4, <1>2, <1>3
<1>5. StartedOnce'
  BY <1>4 DEF StartedOnce
<1> QED
  BY <1>2, <1>5

\* A new command of an attempt that has none joins the stream.
LEMMA OneMoreCommand ==
  ASSUME SessTypeOK, StartedOnce, NEW k \in TelegramCommand, commands' = Append(commands, k),
         UNCHANGED logins, \A c \in Conns : owner[c] # Nobody => owner'[c] # Nobody,
         Starts(k) => logins[k.conn] = {} /\ owner[k.conn] = Nobody /\ owner'[k.conn] # Nobody
  PROVE  StartedOnce' /\ commands' \in Seq(TelegramCommand)
<1>1. commands \in Seq(TelegramCommand)
  BY DEF SessTypeOK
<1>2. /\ commands' \in Seq(TelegramCommand) /\ Len(commands') = Len(commands) + 1
      /\ \A p \in DOMAIN commands' : p \in DOMAIN commands \/ p = Len(commands) + 1
      /\ \A p \in DOMAIN commands : commands'[p] = commands[p] /\ p # Len(commands) + 1
      /\ commands'[Len(commands) + 1] = k
  BY <1>1
<1>3. \A p \in DOMAIN commands : commands[p].conn \in Conns
  <2>1. \A p \in DOMAIN commands : commands[p] \in TelegramCommand
    BY <1>1
  <2> QED
    BY <2>1 DEF TelegramCommand
<1>4. Starts(k) => \A p \in DOMAIN commands : Starts(commands[p]) => commands[p].conn # k.conn
  BY DEF StartedOnce
<1>5. ASSUME NEW p \in DOMAIN commands', Starts(commands'[p])
      PROVE  /\ logins'[commands'[p].conn] = {}
             /\ owner'[commands'[p].conn] # Nobody
             /\ \A q \in DOMAIN commands' :
                  Starts(commands'[q]) /\ commands'[q].conn = commands'[p].conn => q = p
  <2>1. CASE p = Len(commands) + 1
    BY <1>2, <1>4, <1>5, <2>1
  <2>2. CASE p \in DOMAIN commands
    <3>1. logins[commands[p].conn] = {} /\ owner[commands[p].conn] # Nobody
      BY <1>2, <1>5, <2>2 DEF StartedOnce
    <3>2. ASSUME NEW q \in DOMAIN commands', Starts(commands'[q]),
                 commands'[q].conn = commands'[p].conn
          PROVE  q = p
      <4>1. q \in DOMAIN commands
        BY <1>2, <1>4, <1>5, <2>2, <3>2
      <4> QED
        BY <4>1, <1>2, <1>5, <2>2, <3>2 DEF StartedOnce
    <3> QED
      BY <3>1, <3>2, <1>2, <1>3, <2>2
  <2> QED
    BY <1>2, <2>1, <2>2
<1>6. StartedOnce'
  BY <1>5 DEF StartedOnce
<1> QED
  BY <1>2, <1>6

\* A command that is tried again is as before, at the end of the stream.
LEMMA AgainAtTheEnd ==
  ASSUME SessTypeOK, StartedOnce, commands # <<>>, UNCHANGED <<owner, logins>>,
         NEW k \in TelegramCommand, k.type = Head(commands).type, k.conn = Head(commands).conn,
         commands' = Append(Tail(commands), k)
  PROVE  StartedOnce' /\ commands' \in Seq(TelegramCommand)
<1>1. commands \in Seq(TelegramCommand)
  BY DEF SessTypeOK
<1> DEFINE n == Len(commands)
<1>2. /\ commands' \in Seq(TelegramCommand) /\ n \in Nat \ {0} /\ DOMAIN commands = 1..n
      /\ Len(commands') = n /\ DOMAIN commands' = 1..n
      /\ \A p \in 1..(n - 1) : commands'[p] = commands[p + 1]
      /\ commands'[n] = k /\ commands[1] = Head(commands)
  BY <1>1
<1> DEFINE from(p) == IF p = n THEN 1 ELSE p + 1
<1> HIDE DEF n
<1>3. \A p \in 1..n : /\ from(p) \in 1..n /\ commands'[p].type = commands[from(p)].type
                      /\ commands'[p].conn = commands[from(p)].conn
  BY <1>2
<1>4. \A p, q \in 1..n : from(p) = from(q) => p = q
  BY <1>2
<1> HIDE DEF from
<1>5. ASSUME NEW p \in DOMAIN commands', Starts(commands'[p])
      PROVE  /\ logins'[commands'[p].conn] = {}
             /\ owner'[commands'[p].conn] # Nobody
             /\ \A q \in DOMAIN commands' :
                  Starts(commands'[q]) /\ commands'[q].conn = commands'[p].conn => q = p
  <2>1. /\ from(p) \in DOMAIN commands /\ Starts(commands[from(p)])
        /\ commands[from(p)].conn = commands'[p].conn
    BY <1>2, <1>3, <1>5 DEF Starts
  <2>2. logins[commands[from(p)].conn] = {} /\ owner[commands[from(p)].conn] # Nobody
    BY <2>1 DEF StartedOnce
  <2>3. ASSUME NEW q \in DOMAIN commands', Starts(commands'[q]),
               commands'[q].conn = commands'[p].conn
        PROVE  q = p
    <3>1. /\ from(q) \in DOMAIN commands /\ Starts(commands[from(q)])
          /\ commands[from(q)].conn = commands[from(p)].conn
      BY <1>2, <1>3, <2>1, <2>3 DEF Starts
    <3>2. from(q) = from(p)
      BY <2>1, <3>1 DEF StartedOnce
    <3> QED
      BY <3>2, <1>2, <1>4
  <2> QED
    BY <2>1, <2>2, <2>3
<1>6. StartedOnce'
  BY <1>5 DEF StartedOnce
<1> QED
  BY <1>2, <1>6

\* A session is signed in to one of the accounts it may belong to.
LoginsNarrow ==
    /\ logins' \in [Conns -> SUBSET Identities]
    /\ \A c \in Conns : logins'[c] \subseteq logins[c] /\ (logins[c] # {} => logins'[c] # {})

RowsTyped ==
    /\ row' \in [Conns -> RowStates] /\ identity' \in [Conns -> Identities \cup {Nobody}]
    /\ attempt' \in [Conns -> AuthAttempt]

\* The fields of an attempt have their types.
LEMMA AttemptFields ==
  /\ \A t \in AuthAttempt : t.state \in AuthStates /\ t.conn \in Conns \cup {Nobody}
  /\ NoAttempt \in AuthAttempt /\ NoAttempt.state = "none" /\ NoAttempt.conn = Nobody
  /\ \A s \in AuthStates, c \in Conns \cup {Nobody} : [state |-> s, conn |-> c] \in AuthAttempt
  BY DEF AuthAttempt, NoAttempt

\* A failed sign-in takes at most its own pending row with it.
LEMMA FailureKeepsRows ==
  ASSUME SessTypeOK, RowsSound, NEW a \in Conns, FailAttempt(a), LoginsNarrow,
         UNCHANGED <<owner, identity, restoring, attached>>
  PROVE  RowsTyped /\ RowsSound' /\ \A c \in Conns : ~Destroys(c)
<1> DEFINE c == attempt[a].conn
           gone == c # Nobody /\ row[c] = "pending"
<1>1. /\ attempt \in [Conns -> AuthAttempt] /\ row \in [Conns -> RowStates]
      /\ identity \in [Conns -> Identities \cup {Nobody}] /\ identity' = identity /\ owner' = owner
      /\ attached' = attached /\ restoring' = restoring
  BY DEF SessTypeOK
<1>2. CASE attempt[a] = NoAttempt
  <2>1. attempt' = attempt /\ row' = row
    BY <1>2 DEF FailAttempt
  <2> QED
    BY <1>1, <2>1 DEF RowsTyped, RowsSound, LoginsNarrow, UnusedIds, RowsOwnTheirAccount, AccountsUnique,
                      ClientsAreSignedIn, AttemptsFollowRows, Established, Destroys
<1>3. CASE attempt[a] # NoAttempt
  <2>1. attempt' = [attempt EXCEPT ![a] = [state |-> "failed", conn |-> IF gone THEN Nobody ELSE c]]
    BY <1>3 DEF FailAttempt
  <2>2. row' = IF gone THEN [row EXCEPT ![c] = "absent"] ELSE row
    BY <1>3 DEF FailAttempt
  <2>3. c \in Conns \cup {Nobody}
    BY <1>1, AttemptFields
  <2>4. gone => c = a
    BY <2>3 DEF RowsSound, AttemptsFollowRows, Established
  <2>5. \A d \in Conns : Established(d) => row'[d] = row[d]
    BY <1>1, <2>2, <2>3 DEF Established
  <2>6. \A d \in Conns : row'[d] = row[d] \/ (gone /\ d = a /\ row'[d] = "absent")
    BY <1>1, <2>2, <2>3, <2>4
  <2>7. \A b \in Conns : attempt'[b] = attempt[b]
                         \/ (b = a /\ attempt'[b] = [state |-> "failed", conn |-> IF gone THEN Nobody ELSE c])
    BY <1>1, <2>1
  <2>8. RowsTyped
    <3>1. [state |-> "failed", conn |-> IF gone THEN Nobody ELSE c] \in AuthAttempt
      BY <2>3, AttemptFields
    <3> QED
      BY <3>1, <1>1, <2>1, <2>2, <2>3 DEF RowsTyped
  <2> HIDE DEF gone, c
  <2>9. UnusedIds' /\ RowsOwnTheirAccount' /\ AccountsUnique' /\ ClientsAreSignedIn'
    BY <1>1, <2>6 DEF RowsSound, LoginsNarrow, UnusedIds, RowsOwnTheirAccount, AccountsUnique,
                      ClientsAreSignedIn, Established
  <2>10. AttemptsFollowRows'
    <3> SUFFICES ASSUME NEW b \in Conns
                 PROVE  /\ attempt'[b].conn # Nobody =>
                             /\ row'[attempt'[b].conn] # "absent"
                             /\ attempt'[b].conn = b \/ row'[attempt'[b].conn] \in SignedIn
                        /\ attempt'[b].state = "ready" =>
                             attempt'[b].conn # Nobody /\ row'[attempt'[b].conn] \in SignedIn
      BY DEF AttemptsFollowRows, Established
    <3>1. CASE b = a /\ gone
      BY <3>1, <2>1, <1>1
    <3>2. CASE b = a /\ ~gone
      <4>1. attempt'[b].conn = c /\ attempt'[b].state = "failed" /\ row' = row
        BY <3>2, <2>1, <2>2, <1>1
      <4> QED
        BY <4>1, <3>2 DEF RowsSound, AttemptsFollowRows, Established, c
    <3>3. CASE b # a
      <4>1. attempt'[b] = attempt[b] /\ attempt[b] \in AuthAttempt
        BY <3>3, <2>7, <1>1
      <4>2. attempt[b].conn \in Conns \cup {Nobody}
        BY <4>1, AttemptFields
      <4>3. attempt[b].conn # Nobody => row'[attempt[b].conn] = row[attempt[b].conn]
        <5>1. gone => row[a] = "pending"
          BY <2>4 DEF gone
        <5> QED
          BY <4>2, <5>1, <2>6, <3>3 DEF RowsSound, AttemptsFollowRows, Established
      <4> QED
        BY <4>1, <4>2, <4>3 DEF RowsSound, AttemptsFollowRows, Established
    <3> QED
      BY <3>1, <3>2, <3>3
  <2>11. \A d \in Conns : ~Destroys(d)
    <3> TAKE d \in Conns
    <3>1. attempt[d] # NoAttempt => attempt'[d] # NoAttempt
      BY <2>7 DEF NoAttempt
    <3>2. Established(d) => row'[d] # "absent"
      BY <2>5 DEF Established
    <3> QED
      BY <3>1, <3>2 DEF Destroys
  <2> QED
    BY <2>8, <2>9, <2>10, <2>11 DEF RowsSound
<1> QED
  BY <1>2, <1>3

\* A step that writes only the public state of an attempt.
LEMMA MarkKeepsRows ==
  ASSUME SessTypeOK, RowsSound, NEW a \in Conns, NEW s \in AuthStates \ {"none", "ready"},
         MarkAttempt(a, s), UNCHANGED <<row, identity>>
  PROVE  RowsTyped /\ AttemptsFollowRows' /\ \A c \in Conns : ~Destroys(c)
<1>1. attempt \in [Conns -> AuthAttempt] /\ row' = row /\ identity' = identity
  BY DEF SessTypeOK
<1>2. \A b \in Conns : \/ attempt'[b] = attempt[b]
                       \/ /\ attempt[b] # NoAttempt
                          /\ attempt'[b] = [attempt[b] EXCEPT !.state = s]
  BY <1>1 DEF MarkAttempt
<1>3. \A t \in AuthAttempt : /\ [t EXCEPT !.state = s] \in AuthAttempt
                             /\ [t EXCEPT !.state = s].state = s /\ [t EXCEPT !.state = s].conn = t.conn
  BY DEF AuthAttempt
<1>4. attempt' \in [Conns -> AuthAttempt]
  BY <1>1, <1>3 DEF MarkAttempt
<1>5. \A b \in Conns : /\ attempt'[b].conn = attempt[b].conn
                       /\ attempt'[b].state = attempt[b].state \/ attempt'[b].state = s
                       /\ attempt'[b] = NoAttempt => attempt[b] = NoAttempt
  <2> TAKE b \in Conns
  <2>1. attempt[b] \in AuthAttempt
    BY <1>1
  <2>2. CASE attempt'[b] = attempt[b]
    BY <2>2
  <2>3. CASE attempt'[b] = [attempt[b] EXCEPT !.state = s]
    <3>1. attempt'[b].state = s /\ attempt'[b].conn = attempt[b].conn
      BY <2>1, <2>3, <1>3
    <3>2. attempt'[b] # NoAttempt
      BY <3>1, AttemptFields
    <3> QED
      BY <3>1, <3>2
  <2> QED
    BY <2>2, <2>3, <1>2
<1>6. AttemptsFollowRows'
  BY <1>1, <1>5 DEF RowsSound, AttemptsFollowRows, Established
<1> QED
  BY <1>1, <1>4, <1>5, <1>6 DEF RowsTyped, Destroys, Established, SessTypeOK

\* A row that is known to have been signed in changes its state.
LEMMA StateKeepsRows ==
  ASSUME SessTypeOK, RowsSound, NEW c \in Conns, row[c] # "pending",
         NEW s \in {"ready", "disconnected", "reauthentication_required"},
         row' = SetState(c, s), UNCHANGED <<owner, identity, attempt, logins>>,
         \A d \in Conns : d \in attached' \/ d = restoring' => d \in attached \/ d = restoring
  PROVE  RowsTyped /\ RowsSound' /\ \A d \in Conns : ~Destroys(d)
<1>1. /\ attempt \in [Conns -> AuthAttempt] /\ row \in [Conns -> RowStates]
      /\ identity \in [Conns -> Identities \cup {Nobody}] /\ identity' = identity /\ owner' = owner
      /\ attempt' = attempt /\ logins' = logins
  BY DEF SessTypeOK
<1>2. row' \in [Conns -> RowStates]
  BY <1>1 DEF SetState
<1>3. \A d \in Conns : /\ row'[d] = "pending" <=> row[d] = "pending"
                       /\ row'[d] = "absent" <=> row[d] = "absent"
                       /\ Established(d)' <=> Established(d)
  BY <1>1 DEF SetState, Established
<1>4. UnusedIds' /\ RowsOwnTheirAccount' /\ AccountsUnique' /\ ClientsAreSignedIn'
  BY <1>1, <1>3 DEF RowsSound, UnusedIds, RowsOwnTheirAccount, AccountsUnique, ClientsAreSignedIn
<1>5. AttemptsFollowRows'
  <2>1. \A b \in Conns : attempt[b].conn \in Conns \cup {Nobody}
    BY <1>1, AttemptFields
  <2>2. \A b \in Conns : attempt'[b].state = "ready" => attempt'[b].conn # Nobody /\ row'[attempt'[b].conn] \in SignedIn
    BY <1>1, <1>3, <2>1 DEF RowsSound, AttemptsFollowRows, Established
  <2>3. \A b \in Conns : attempt'[b].conn # Nobody =>
              /\ row'[attempt'[b].conn] # "absent"
              /\ attempt'[b].conn = b \/ row'[attempt'[b].conn] \in SignedIn
    BY <1>1, <1>3, <2>1 DEF RowsSound, AttemptsFollowRows, Established
  <2> QED
    BY <2>2, <2>3 DEF AttemptsFollowRows, Established
<1> QED
  BY <1>1, <1>2, <1>3, <1>4, <1>5 DEF RowsTyped, RowsSound, Destroys, Established

\* The Telegram account of the session decides which row it belongs to.
LEMMA FinalizeKeepsRows ==
  ASSUME SessTypeOK, RowsSound, NEW a \in Conns, NEW i \in Identities, Finalize(a, i),
         UNCHANGED <<owner, restoring>>
  PROVE  /\ RowsTyped /\ RowsSound' /\ LoginsNarrow /\ attached' \subseteq Conns
         /\ \A c \in Conns : ~Destroys(c)
<1> DEFINE others == Holders(a, i)
           conflict == \E c \in others : owner[c] # owner[a]
           target == IF others = {} THEN a ELSE CHOOSE c \in others : TRUE
           moved == [attempt EXCEPT ![a] = IF @ = NoAttempt THEN @ ELSE MovedTo(a, target)]
<1>1. /\ attempt \in [Conns -> AuthAttempt] /\ row \in [Conns -> RowStates]
      /\ identity \in [Conns -> Identities \cup {Nobody}] /\ owner' = owner
      /\ logins \in [Conns -> SUBSET Identities] /\ attached \subseteq Conns /\ restoring' = restoring
  BY DEF SessTypeOK
<1>2. i \in logins[a] /\ logins' = [logins EXCEPT ![a] = {i}]
  BY DEF Finalize
<1>3. LoginsNarrow
  BY <1>1, <1>2 DEF LoginsNarrow
<1>4. CASE UNCHANGED <<row, owner, identity, attempt, attached>>
  <2>1. UnusedIds' /\ RowsOwnTheirAccount' /\ AccountsUnique' /\ ClientsAreSignedIn'
    BY <1>1, <1>3, <1>4 DEF RowsSound, LoginsNarrow, UnusedIds, RowsOwnTheirAccount,
       AccountsUnique, ClientsAreSignedIn, Established
  <2>2. AttemptsFollowRows'
    BY <1>4 DEF RowsSound, AttemptsFollowRows, Established
  <2> QED
    BY <1>1, <1>3, <1>4, <2>1, <2>2 DEF RowsTyped, RowsSound, Destroys, Established
<1>5. CASE FailAttempt(a) /\ UNCHANGED <<identity, attached>>
  BY <1>1, <1>3, <1>5, FailureKeepsRows
<1>6. ASSUME row[a] # "absent", ~conflict,
             row' = [c \in Conns |-> IF c = target THEN "ready"
                                     ELSE IF c = a THEN "absent" ELSE row[c]],
             identity' = [identity EXCEPT ![target] = i],
             attempt' = IF target = a THEN moved ELSE Cascade(a, moved),
             attached' = attached \cup {target}
      PROVE  RowsTyped /\ RowsSound' /\ attached' \subseteq Conns /\ \A c \in Conns : ~Destroys(c)
  <2>1. /\ target \in Conns
        /\ target # a => row[target] # "absent" /\ identity[target] = i
        /\ target = a => \A c \in Conns \ {a} : row[c] # "absent" => identity[c] # i
    BY DEF Holders
  <2> HIDE DEF target, conflict, others
  <2>2. \A c \in Conns \ {target} : Established(c) => identity[c] # i
    <3>1. CASE target = a
      BY <2>1, <3>1 DEF Established
    <3>2. CASE target # a
      BY <2>1, <3>2, <1>1 DEF RowsSound, AccountsUnique, RowsOwnTheirAccount, Established
    <3> QED
      BY <3>1, <3>2
  <2>3. Established(a) => identity[a] = i
    BY <1>2 DEF RowsSound, RowsOwnTheirAccount
  <2>4. target # a => ~Established(a) /\ Established(target)
    BY <2>1, <2>2, <2>3, <1>1 DEF RowsSound, RowsOwnTheirAccount, Established
  <2>5. /\ row'[target] = "ready" /\ identity'[target] = i
        /\ target # a => row'[a] = "absent"
        /\ \A c \in Conns \ {a, target} : row'[c] = row[c]
        /\ \A c \in Conns \ {target} : identity'[c] = identity[c]
    BY <2>1, <1>1, <1>6
  <2>6. logins'[target] = {i}
    BY <2>1, <2>4, <1>1, <1>2 DEF RowsSound, RowsOwnTheirAccount
  <2>7. UnusedIds'
    BY <2>1, <2>5, <1>1, <1>3, <1>6 DEF RowsSound, UnusedIds, LoginsNarrow
  <2>8. RowsOwnTheirAccount'
    <3> SUFFICES ASSUME NEW c \in Conns
                 PROVE  /\ row'[c] = "pending" => identity'[c] = Nobody
                        /\ row'[c] \in SignedIn => identity'[c] # Nobody /\ logins'[c] = {identity'[c]}
      BY DEF RowsOwnTheirAccount, Established
    <3>1. CASE c = target
      BY <3>1, <2>5, <2>6
    <3>2. CASE c # target /\ c = a
      BY <3>2, <2>5
    <3>3. CASE c # target /\ c # a
      BY <3>3, <2>5, <1>3 DEF RowsSound, RowsOwnTheirAccount, LoginsNarrow, Established
    <3> QED
      BY <3>1, <3>2, <3>3
  <2>9. AccountsUnique'
    BY <2>1, <2>2, <2>5 DEF RowsSound, AccountsUnique, Established
  <2>10. ClientsAreSignedIn'
    BY <2>1, <2>5, <1>1, <1>6 DEF RowsSound, ClientsAreSignedIn, UnusedIds
  <2>11. moved \in [Conns -> AuthAttempt] /\ attempt' \in [Conns -> AuthAttempt]
    <3>1. MovedTo(a, target) \in AuthAttempt
      BY <2>1, AttemptFields DEF MovedTo
    <3>2. moved \in [Conns -> AuthAttempt]
      BY <3>1, <1>1
    <3> QED
      BY <3>2, <1>6, AttemptFields DEF Cascade
  <2>12. \A b \in Conns : \/ attempt'[b] = attempt[b] /\ (b = a => attempt[b] = NoAttempt)
                          \/ b = a /\ attempt[b] # NoAttempt /\ attempt'[b] = MovedTo(a, target)
    <3> TAKE b \in Conns
    <3>1. moved[b] = IF b = a /\ attempt[b] # NoAttempt THEN MovedTo(a, target) ELSE attempt[b]
      BY <1>1
    <3>2. moved[b].conn = a => target = a
      <4>1. CASE b = a /\ attempt[b] # NoAttempt
        BY <3>1, <4>1 DEF MovedTo
      <4>2. CASE b = a /\ attempt[b] = NoAttempt
        BY <3>1, <4>2, AttemptFields
      <4>3. CASE b # a
        BY <3>1, <4>3, <2>4 DEF RowsSound, AttemptsFollowRows
      <4> QED
        BY <4>1, <4>2, <4>3
    <3>3. attempt'[b] = moved[b]
      BY <3>2, <1>6 DEF Cascade
    <3> QED
      BY <3>1, <3>3
  <2> HIDE DEF moved
  <2>13. AttemptsFollowRows'
    <3> SUFFICES ASSUME NEW b \in Conns
                 PROVE  /\ attempt'[b].conn # Nobody =>
                             /\ row'[attempt'[b].conn] # "absent"
                             /\ attempt'[b].conn = b \/ row'[attempt'[b].conn] \in SignedIn
                        /\ attempt'[b].state = "ready" =>
                             attempt'[b].conn # Nobody /\ row'[attempt'[b].conn] \in SignedIn
      BY DEF AttemptsFollowRows, Established
    <3>1. CASE attempt'[b] = MovedTo(a, target)
      BY <3>1, <2>1, <2>5 DEF MovedTo
    <3>2. CASE attempt'[b] = attempt[b] /\ b = a /\ attempt[b] = NoAttempt
      BY <3>2, AttemptFields
    <3>3. CASE attempt'[b] = attempt[b] /\ b # a
      <4>1. attempt[b].conn \in Conns \cup {Nobody}
        BY <1>1, AttemptFields
      <4>2. attempt[b].conn = a => target = a
        BY <3>3, <2>4 DEF RowsSound, AttemptsFollowRows
      <4> QED
        BY <3>3, <4>1, <4>2, <2>5 DEF RowsSound, AttemptsFollowRows, Established
    <3> QED
      BY <3>1, <3>2, <3>3, <2>12
  <2>14. \A c \in Conns : ~Destroys(c)
    <3> TAKE c \in Conns
    <3>1. Established(c) => row'[c] # "absent"
      BY <2>4, <2>5 DEF Established
    <3>2. attempt[c] # NoAttempt => attempt'[c] # NoAttempt
      BY <2>12, AttemptFields DEF MovedTo
    <3> QED
      BY <3>1, <3>2 DEF Destroys
  <2>15. RowsTyped
    BY <2>1, <2>11, <1>1, <1>6 DEF RowsTyped
  <2> QED
    BY <2>1, <2>7, <2>8, <2>9, <2>10, <2>13, <2>14, <2>15, <1>1, <1>6 DEF RowsSound
<1> QED
  BY <1>1, <1>3, <1>4, <1>5, <1>6 DEF Finalize

\* A new sign-in takes an unused id.
LEMMA StartKeepsRows ==
  ASSUME SessTypeOK, RowsSound, NEW c \in Conns, NEW u \in Users, NEW type, StartAuth(c, type, u)
  PROVE  RowsTyped /\ RowsSound' /\ \A d \in Conns : ~Destroys(d)
<1> DEFINE new == [state |-> "starting", conn |-> c]
<1>1. /\ attempt \in [Conns -> AuthAttempt] /\ row \in [Conns -> RowStates]
      /\ identity \in [Conns -> Identities \cup {Nobody}] /\ owner \in [Conns -> Users \cup {Nobody}]
      /\ identity' = identity /\ logins' = logins /\ attached' = attached /\ restoring' = restoring
  BY DEF SessTypeOK, StartAuth, runtimeVars
<1>2. /\ row[c] = "absent" /\ owner[c] = Nobody /\ row' = [row EXCEPT ![c] = "pending"]
      /\ owner' = [owner EXCEPT ![c] = u] /\ attempt' = [attempt EXCEPT ![c] = new]
  BY DEF StartAuth
<1>3. new \in AuthAttempt /\ new # NoAttempt /\ new.conn = c /\ new.state = "starting"
  BY AttemptFields
<1> HIDE DEF new
<1>4. RowsTyped
  BY <1>1, <1>2, <1>3 DEF RowsTyped
<1>5. \A d \in Conns \ {c} : row'[d] = row[d] /\ owner'[d] = owner[d] /\ attempt'[d] = attempt[d]
  BY <1>1, <1>2
<1>6. row'[c] = "pending" /\ owner'[c] = u /\ attempt'[c] = new
  BY <1>1, <1>2
<1>7. identity[c] = Nobody
  BY <1>2 DEF RowsSound, UnusedIds
<1>8. UnusedIds' /\ RowsOwnTheirAccount' /\ AccountsUnique' /\ ClientsAreSignedIn'
  BY <1>1, <1>2, <1>5, <1>6, <1>7 DEF RowsSound, UnusedIds, RowsOwnTheirAccount, AccountsUnique, ClientsAreSignedIn,
     Established
<1>9. AttemptsFollowRows'
  <2> SUFFICES ASSUME NEW b \in Conns
               PROVE  /\ attempt'[b].conn # Nobody =>
                           /\ row'[attempt'[b].conn] # "absent"
                           /\ attempt'[b].conn = b \/ row'[attempt'[b].conn] \in SignedIn
                      /\ attempt'[b].state = "ready" =>
                           attempt'[b].conn # Nobody /\ row'[attempt'[b].conn] \in SignedIn
    BY DEF AttemptsFollowRows, Established
  <2>1. CASE b = c
    BY <2>1, <1>3, <1>6
  <2>2. CASE b # c
    <3>1. attempt[b].conn \in Conns \cup {Nobody} /\ attempt[b].conn # c
      BY <1>1, <1>2, AttemptFields DEF RowsSound, AttemptsFollowRows
    <3> QED
      BY <2>2, <3>1, <1>5 DEF RowsSound, AttemptsFollowRows, Established
  <2> QED
    BY <2>1, <2>2
<1>10. \A d \in Conns : ~Destroys(d)
  BY <1>2, <1>3, <1>5, <1>6 DEF Destroys, Established
<1> QED
  BY <1>4, <1>8, <1>9, <1>10 DEF RowsSound

\* A removal takes the attempts that refer to the row with it.
LEMMA RemovalKeepsRows ==
  ASSUME SessTypeOK, RowsSound, NEW c \in Conns, CommitRemoval(c)
  PROVE  /\ RowsTyped /\ RowsSound'
         /\ \A d \in Conns : /\ Established(d) /\ row'[d] = "absent" => d = c
                             /\ attempt[d] # NoAttempt /\ attempt'[d] = NoAttempt => attempt[d].conn = c
<1>1. /\ attempt \in [Conns -> AuthAttempt] /\ row \in [Conns -> RowStates]
      /\ identity \in [Conns -> Identities \cup {Nobody}] /\ owner' = owner
      /\ identity' = identity /\ logins' = logins /\ attached' = attached /\ restoring' = restoring
  BY DEF SessTypeOK, CommitRemoval, runtimeVars
<1>2. row' = [row EXCEPT ![c] = "absent"]
  BY DEF CommitRemoval
<1>3. \A d \in Conns : attempt'[d] = IF attempt[d].conn = c THEN NoAttempt ELSE attempt[d]
  BY <1>1 DEF CommitRemoval, Cascade
<1>4. attempt' \in [Conns -> AuthAttempt]
  BY <1>1, AttemptFields DEF CommitRemoval, Cascade
<1>5. RowsTyped
  BY <1>1, <1>2, <1>4 DEF RowsTyped
<1>6. /\ row'[c] = "absent"
      /\ \A d \in Conns \ {c} : row'[d] = row[d]
  BY <1>1, <1>2
<1>7. UnusedIds' /\ RowsOwnTheirAccount' /\ AccountsUnique' /\ ClientsAreSignedIn'
  BY <1>1, <1>6 DEF RowsSound, UnusedIds, RowsOwnTheirAccount, AccountsUnique, ClientsAreSignedIn, Established
<1>8. AttemptsFollowRows'
  <2> SUFFICES ASSUME NEW b \in Conns
               PROVE  /\ attempt'[b].conn # Nobody =>
                           /\ row'[attempt'[b].conn] # "absent"
                           /\ attempt'[b].conn = b \/ row'[attempt'[b].conn] \in SignedIn
                      /\ attempt'[b].state = "ready" =>
                           attempt'[b].conn # Nobody /\ row'[attempt'[b].conn] \in SignedIn
    BY DEF AttemptsFollowRows, Established
  <2>1. CASE attempt[b].conn = c
    BY <2>1, <1>3, AttemptFields
  <2>2. CASE attempt[b].conn # c
    <3>1. attempt[b].conn \in Conns \cup {Nobody}
      BY <1>1, AttemptFields
    <3> QED
      BY <2>2, <3>1, <1>3, <1>6 DEF RowsSound, AttemptsFollowRows, Established
  <2> QED
    BY <2>1, <2>2
<1>9. \A d \in Conns : /\ Established(d) /\ row'[d] = "absent" => d = c
                       /\ attempt[d] # NoAttempt /\ attempt'[d] = NoAttempt => attempt[d].conn = c
  BY <1>3, <1>6 DEF Established
<1> QED
  BY <1>5, <1>7, <1>8, <1>9 DEF RowsSound

\* Steps that leave rows and attempts alone.
LEMMA SameRows ==
  ASSUME SessTypeOK, RowsSound, UNCHANGED <<row, owner, identity, attempt, logins>>,
         \A c \in Conns : c \in attached' \/ c = restoring' =>
                            c \in attached \/ c = restoring \/ Established(c)
  PROVE  RowsTyped /\ RowsSound' /\ \A c \in Conns : ~Destroys(c)
<1>1. UnusedIds' /\ RowsOwnTheirAccount' /\ AccountsUnique'
  BY DEF RowsSound, UnusedIds, RowsOwnTheirAccount, AccountsUnique, Established
<1>2. ClientsAreSignedIn'
  BY DEF RowsSound, ClientsAreSignedIn, UnusedIds, Established
<1>3. AttemptsFollowRows'
  BY DEF RowsSound, AttemptsFollowRows, Established
<1> QED
  BY <1>1, <1>2, <1>3 DEF RowsSound, RowsTyped, SessTypeOK, Destroys, Established

\* What a removal takes with it was being removed; nothing else goes.
NothingElseGoes ==
    \A c \in Conns :
        /\ Established(c) /\ row'[c] = "absent" => c \in removing
        /\ attempt[c] # NoAttempt /\ attempt'[c] = NoAttempt => attempt[c].conn \in removing

OthersTyped ==
    /\ running' \in BOOLEAN /\ attached' \subseteq Conns /\ scanning' \subseteq Conns
    /\ restoring' \in Conns \cup {Nobody} /\ owner' \in [Conns -> Users \cup {Nobody}]
    /\ logins' \in [Conns -> SUBSET Identities] /\ removing' \subseteq Conns

Kept == RowsTyped /\ RowsSound' /\ OthersTyped /\ NothingElseGoes

\* The requests of the user keep the rows sound.
LEMMA ApiKeepsRows ==
  ASSUME SessTypeOK, RowsSound, ApiStep
  PROVE  Kept
<1>1. PICK c \in Conns : \/ \E type \in {"start", "qr"}, u \in Users : StartAuth(c, type, u)
                         \/ \E type \in {"code", "password"} : SubmitSecret(c, type)
                         \/ RemoveConnection(c) \/ CommitRemoval(c)
  BY DEF ApiStep
<1>2. ASSUME NEW type \in {"start", "qr"}, NEW u \in Users, StartAuth(c, type, u) PROVE Kept
  <2>1. OthersTyped
    BY <1>2 DEF StartAuth, runtimeVars, SessTypeOK, OthersTyped
  <2> QED
    BY <1>2, <2>1, StartKeepsRows DEF Kept, NothingElseGoes, Destroys
<1>3. ASSUME NEW type \in {"code", "password"}, SubmitSecret(c, type) PROVE Kept
  <2>1. OthersTyped
    BY <1>3 DEF SubmitSecret, runtimeVars, SessTypeOK, OthersTyped
  <2>2. RowsTyped /\ RowsSound' /\ \A d \in Conns : ~Destroys(d)
    BY <1>3, SameRows DEF SubmitSecret, runtimeVars
  <2> QED
    BY <2>1, <2>2 DEF Kept, NothingElseGoes, Destroys
<1>4. CASE RemoveConnection(c)
  <2>1. OthersTyped
    BY <1>4 DEF RemoveConnection, runtimeVars, SessTypeOK, OthersTyped
  <2>2. RowsTyped /\ RowsSound' /\ \A d \in Conns : ~Destroys(d)
    BY <1>4, SameRows DEF RemoveConnection, runtimeVars
  <2> QED
    BY <2>1, <2>2 DEF Kept, NothingElseGoes, Destroys
<1>5. CASE CommitRemoval(c)
  <2>1. OthersTyped /\ c \in removing
    BY <1>5 DEF CommitRemoval, runtimeVars, SessTypeOK, OthersTyped
  <2> QED
    BY <1>5, <2>1, RemovalKeepsRows DEF Kept, NothingElseGoes
<1> QED
  BY <1>1, <1>2, <1>3, <1>4, <1>5

\* Handing in a code or a password keeps the rows sound.
LEMMA SecretKeepsRows ==
  ASSUME SessTypeOK, RowsSound, NEW i \in Identities, HandleSecret(i)
  PROVE  Kept /\ LoginsNarrow
<1>1. Head(commands) \in TelegramCommand
  BY DEF SessTypeOK, HandleSecret
<1>2. Head(commands).conn \in Conns
  BY <1>1 DEF TelegramCommand
<1>3. Finalize(Head(commands).conn, i) /\ UNCHANGED <<running, scanning, restoring, removing, owner>>
  BY DEF HandleSecret
<1>4. /\ RowsTyped /\ RowsSound' /\ LoginsNarrow /\ attached' \subseteq Conns
      /\ \A c \in Conns : ~Destroys(c)
  BY <1>2, <1>3, FinalizeKeepsRows
<1>5. OthersTyped
  BY <1>3, <1>4 DEF OthersTyped, SessTypeOK, LoginsNarrow
<1> QED
  BY <1>4, <1>5 DEF Kept, NothingElseGoes, Destroys

\* The command handlers of the runtime keep the rows sound.
LEMMA HandlersKeepRows ==
  ASSUME SessTypeOK, RowsSound, StartedOnce,
         HandleStart \/ HandlePasswordNeeded \/ HandleRaises \/ HandleDisconnect
  PROVE  Kept
<1>1. Head(commands) \in TelegramCommand /\ commands # <<>>
  BY DEF SessTypeOK, HandleStart, HandlePasswordNeeded, HandleRaises, HandleDisconnect
<1> DEFINE a == Head(commands).conn
<1>2. a \in Conns
  BY <1>1 DEF TelegramCommand
<1>3. Starts(Head(commands)) => logins[a] = {} /\ owner[a] # Nobody
  <2>1. 1 \in DOMAIN commands /\ commands[1] = Head(commands)
    BY <1>1 DEF SessTypeOK
  <2> QED
    BY <2>1 DEF StartedOnce
<1> HIDE DEF a
<1>4. CASE HandleStart
  <2>1. PICK s \in {"qr_required", "code_required"} : MarkAttempt(a, s)
    BY <1>4 DEF HandleStart, a
  <2>2. /\ logins' = [logins EXCEPT ![a] = Identities] /\ logins[a] = {} /\ owner[a] # Nobody
        /\ UNCHANGED <<running, attached, restoring, row, owner, identity, removing>>
        /\ scanning' \in {scanning, scanning \cup {a}}
    BY <1>3, <1>4 DEF HandleStart, a, Starts
  <2>3. OthersTyped
    BY <1>2, <2>2 DEF OthersTyped, SessTypeOK
  <2>4. RowsTyped /\ AttemptsFollowRows' /\ \A c \in Conns : ~Destroys(c)
    BY <1>2, <2>1, <2>2, MarkKeepsRows
  <2>5. ~Established(a) /\ \A c \in Conns \ {a} : logins'[c] = logins[c]
    BY <1>2, <2>2 DEF RowsSound, RowsOwnTheirAccount, SessTypeOK
  <2>6. UnusedIds' /\ RowsOwnTheirAccount' /\ AccountsUnique' /\ ClientsAreSignedIn'
    BY <2>2, <2>5 DEF RowsSound, UnusedIds, RowsOwnTheirAccount, AccountsUnique, ClientsAreSignedIn, Established
  <2> QED
    BY <2>3, <2>4, <2>6 DEF Kept, NothingElseGoes, Destroys, RowsSound
<1>5. CASE HandlePasswordNeeded
  <2>1. MarkAttempt(a, "password_required") /\ UNCHANGED <<runtimeVars, row, owner, identity, logins, removing>>
    BY <1>5 DEF HandlePasswordNeeded, a
  <2>2. RowsTyped /\ AttemptsFollowRows' /\ \A c \in Conns : ~Destroys(c)
    BY <1>2, <2>1, MarkKeepsRows
  <2>3. OthersTyped
    BY <2>1 DEF OthersTyped, SessTypeOK, runtimeVars
  <2>4. UnusedIds' /\ RowsOwnTheirAccount' /\ AccountsUnique' /\ ClientsAreSignedIn'
    BY <2>1 DEF RowsSound, UnusedIds, RowsOwnTheirAccount, AccountsUnique, ClientsAreSignedIn, Established,
                runtimeVars
  <2> QED
    BY <2>2, <2>3, <2>4 DEF Kept, NothingElseGoes, Destroys, RowsSound
<1>6. CASE HandleRaises
  <2>1. /\ UNCHANGED <<attempt, row>> \/ FailAttempt(a)
        /\ UNCHANGED <<runtimeVars, owner, identity, logins, removing>>
    BY <1>6 DEF HandleRaises, a
  <2>2. OthersTyped /\ LoginsNarrow
    BY <2>1 DEF OthersTyped, SessTypeOK, runtimeVars, LoginsNarrow
  <2>3. RowsTyped /\ RowsSound' /\ \A c \in Conns : ~Destroys(c)
    BY <1>2, <2>1, <2>2, SameRows, FailureKeepsRows DEF runtimeVars
  <2> QED
    BY <2>2, <2>3 DEF Kept, NothingElseGoes, Destroys
<1>7. CASE HandleDisconnect
  <2>1. /\ attached' \subseteq attached
        /\ UNCHANGED <<running, scanning, restoring, row, owner, identity, logins, attempt, removing>>
    BY <1>7 DEF HandleDisconnect
  <2>2. OthersTyped
    BY <2>1 DEF OthersTyped, SessTypeOK
  <2>3. RowsTyped /\ RowsSound' /\ \A c \in Conns : ~Destroys(c)
    BY <2>1, SameRows
  <2> QED
    BY <2>2, <2>3 DEF Kept, NothingElseGoes, Destroys
<1> QED
  BY <1>4, <1>5, <1>6, <1>7

\* What the runtime does by itself keeps the rows sound.
LEMMA RuntimeKeepsRows ==
  ASSUME SessTypeOK, RowsSound, NEW c \in Conns,
         \/ StartLoop \/ Stop \/ Restore(c)
         \/ \E s \in RowStates : DropClient(c, s) \/ Restored(s)
         \/ \E i \in Identities : Scanned(c, i)
         \/ ScanNeedsPassword(c) \/ ScanFails(c)
  PROVE  Kept /\ LoginsNarrow /\ UNCHANGED <<owner, commands>>
<1>0. UNCHANGED logins => LoginsNarrow
  BY DEF LoginsNarrow, SessTypeOK
<1>1. CASE StartLoop \/ Stop \/ Restore(c)
  <2>1. /\ UNCHANGED <<row, owner, identity, logins, attempt, removing, commands>>
        /\ running' \in BOOLEAN /\ attached' \subseteq attached /\ scanning' \subseteq scanning
        /\ restoring' = restoring \/ restoring' = Nobody \/ (restoring' = c /\ Established(c))
    <3>1. CASE StartLoop
      BY <3>1 DEF StartLoop
    <3>2. CASE Stop
      BY <3>2 DEF Stop
    <3>3. CASE Restore(c)
      BY <3>3 DEF Restore, SessTypeOK, Established
    <3> QED
      BY <1>1, <3>1, <3>2, <3>3
  <2>2. OthersTyped
    BY <2>1 DEF OthersTyped, SessTypeOK
  <2>3. RowsTyped /\ RowsSound' /\ \A d \in Conns : ~Destroys(d)
    BY <2>1, SameRows
  <2> QED
    BY <1>0, <2>1, <2>2, <2>3 DEF Kept, NothingElseGoes, Destroys
<1>2. ASSUME NEW s \in RowStates, DropClient(c, s) PROVE Kept /\ LoginsNarrow /\ UNCHANGED <<owner, commands>>
  <2>1. /\ attached' \subseteq attached /\ row' = SetState(c, s) /\ c \in attached
        /\ s \in {"disconnected", "reauthentication_required"}
        /\ UNCHANGED <<running, scanning, restoring, owner, identity, logins, attempt, removing, commands>>
    BY <1>2 DEF DropClient
  <2>2. OthersTyped
    BY <2>1 DEF OthersTyped, SessTypeOK
  <2>3. row[c] # "pending"
    BY <2>1 DEF RowsSound, ClientsAreSignedIn
  <2>4. RowsTyped /\ RowsSound' /\ \A d \in Conns : ~Destroys(d)
    BY <2>1, <2>3, StateKeepsRows
  <2> QED
    BY <1>0, <2>1, <2>2, <2>4 DEF Kept, NothingElseGoes, Destroys
<1>3. ASSUME NEW s \in RowStates, Restored(s) PROVE Kept /\ LoginsNarrow /\ UNCHANGED <<owner, commands>>
  <2>1. /\ attached' \subseteq attached \cup {restoring} /\ row' = SetState(restoring, s) /\ restoring \in Conns
        /\ s \in {"ready", "disconnected", "reauthentication_required"} /\ restoring' = Nobody
        /\ UNCHANGED <<running, scanning, owner, identity, logins, attempt, removing, commands>>
    BY <1>3 DEF Restored, SessTypeOK
  <2>2. OthersTyped
    BY <2>1 DEF OthersTyped, SessTypeOK
  <2>3. row[restoring] # "pending"
    BY <2>1 DEF RowsSound, ClientsAreSignedIn
  <2>4. RowsTyped /\ RowsSound' /\ \A d \in Conns : ~Destroys(d)
    BY <2>1, <2>3, StateKeepsRows
  <2> QED
    BY <1>0, <2>1, <2>2, <2>4 DEF Kept, NothingElseGoes, Destroys
<1>4. ASSUME NEW i \in Identities, Scanned(c, i) PROVE Kept /\ LoginsNarrow /\ UNCHANGED <<owner, commands>>
  <2>1. /\ Finalize(c, i) /\ scanning' \subseteq scanning
        /\ UNCHANGED <<running, restoring, removing, commands, owner>>
    BY <1>4 DEF Scanned
  <2>2. /\ RowsTyped /\ RowsSound' /\ LoginsNarrow /\ attached' \subseteq Conns
        /\ \A d \in Conns : ~Destroys(d)
    BY <2>1, FinalizeKeepsRows
  <2>3. OthersTyped
    BY <2>1, <2>2 DEF OthersTyped, SessTypeOK, LoginsNarrow
  <2> QED
    BY <2>1, <2>2, <2>3 DEF Kept, NothingElseGoes, Destroys
<1>5. CASE ScanNeedsPassword(c)
  <2>1. /\ MarkAttempt(c, "password_required") /\ scanning' \subseteq scanning
        /\ UNCHANGED <<running, attached, restoring, row, owner, identity, logins, removing, commands>>
    BY <1>5 DEF ScanNeedsPassword
  <2>2. RowsTyped /\ AttemptsFollowRows' /\ \A d \in Conns : ~Destroys(d)
    BY <2>1, MarkKeepsRows
  <2>3. OthersTyped
    BY <2>1 DEF OthersTyped, SessTypeOK
  <2>4. UnusedIds' /\ RowsOwnTheirAccount' /\ AccountsUnique' /\ ClientsAreSignedIn'
    BY <2>1 DEF RowsSound, UnusedIds, RowsOwnTheirAccount, AccountsUnique, ClientsAreSignedIn, Established
  <2> QED
    BY <1>0, <2>1, <2>2, <2>3, <2>4 DEF Kept, NothingElseGoes, Destroys, RowsSound
<1>6. CASE ScanFails(c)
  <2>1. /\ FailAttempt(c) /\ scanning' \subseteq scanning
        /\ UNCHANGED <<running, attached, restoring, owner, identity, logins, removing, commands>>
    BY <1>6 DEF ScanFails
  <2>2. OthersTyped
    BY <2>1 DEF OthersTyped, SessTypeOK
  <2>3. RowsTyped /\ RowsSound' /\ \A d \in Conns : ~Destroys(d)
    BY <1>0, <2>1, FailureKeepsRows
  <2> QED
    BY <1>0, <2>1, <2>2, <2>3 DEF Kept, NothingElseGoes, Destroys
<1> QED
  BY <1>1, <1>2, <1>3, <1>4, <1>5, <1>6

-----------------------------------------------------------------------------
\* What the commands do to the stream.
LEMMA ApiKeepsStream ==
  ASSUME SessTypeOK, RowsSound, StartedOnce, ApiStep
  PROVE  StartedOnce' /\ commands' \in Seq(TelegramCommand)
<1>1. PICK c \in Conns : \/ \E type \in {"start", "qr"}, u \in Users : StartAuth(c, type, u)
                         \/ \E type \in {"code", "password"} : SubmitSecret(c, type)
                         \/ RemoveConnection(c) \/ CommitRemoval(c)
  BY DEF ApiStep
<1>2. \A type \in {"start", "qr", "code", "password", "disconnect"} :
        LET k == [type |-> type, conn |-> c, try |-> 1]
        IN  k \in TelegramCommand /\ (Starts(k) <=> type \in {"start", "qr"}) /\ k.conn = c
  BY DEF TelegramCommand, Starts
<1>3. ASSUME NEW type \in {"start", "qr"}, NEW u \in Users, StartAuth(c, type, u)
      PROVE  StartedOnce' /\ commands' \in Seq(TelegramCommand)
  <2> DEFINE k == [type |-> type, conn |-> c, try |-> 1]
  <2>1. /\ commands' = Append(commands, k) /\ UNCHANGED logins
        /\ owner[c] = Nobody /\ owner' = [owner EXCEPT ![c] = u]
    BY <1>3 DEF StartAuth, PublishCommand
  <2>2. logins[c] = {} /\ owner'[c] = u /\ u # Nobody
        /\ \A d \in Conns : owner[d] # Nobody => owner'[d] # Nobody
    BY <2>1 DEF RowsSound, UnusedIds, SessTypeOK
  <2>3. k \in TelegramCommand /\ k.conn = c
    BY <1>2
  <2> HIDE DEF k
  <2> QED
    BY <2>1, <2>2, <2>3, OneMoreCommand
<1>4. ASSUME NEW type \in {"code", "password", "disconnect"}, PublishCommand(type, c),
             UNCHANGED <<logins, owner>>
      PROVE  StartedOnce' /\ commands' \in Seq(TelegramCommand)
  <2> DEFINE k == [type |-> type, conn |-> c, try |-> 1]
  <2>1. commands' = Append(commands, k) /\ UNCHANGED logins /\ UNCHANGED owner
    BY <1>4 DEF PublishCommand
  <2>2. k \in TelegramCommand /\ ~Starts(k)
    BY <1>2
  <2> HIDE DEF k
  <2> QED
    BY <2>1, <2>2, OneMoreCommand
<1>5. CASE UNCHANGED <<commands, logins, owner>>
  BY <1>5 DEF StartedOnce, SessTypeOK
<1> QED
  BY <1>1, <1>3, <1>4, <1>5 DEF SubmitSecret, RemoveConnection, CommitRemoval, runtimeVars

\* The handlers leave no attempt with two first commands.
LEMMA HandlersKeepStream ==
  ASSUME SessTypeOK, RowsSound, StartedOnce,
         HandleStart \/ HandlePasswordNeeded \/ HandleRaises \/ HandleDisconnect
         \/ \E i \in Identities : HandleSecret(i)
  PROVE  StartedOnce' /\ commands' \in Seq(TelegramCommand)
<1>1. Head(commands) \in TelegramCommand /\ commands # <<>>
  BY DEF SessTypeOK, HandleStart, HandlePasswordNeeded, HandleRaises, HandleDisconnect, HandleSecret
<1>2. Head(commands).conn \in Conns /\ Head(commands).try \in 1..MaxAttempts
  BY <1>1 DEF TelegramCommand
<1>3. CASE HandleStart
  <2>1. /\ commands' = Tail(commands) /\ UNCHANGED owner /\ Starts(Head(commands))
        /\ logins' = [logins EXCEPT ![Head(commands).conn] = Identities]
    BY <1>3 DEF HandleStart, Handled, Starts
  <2>2. \A c \in Conns : logins'[c] = logins[c] \/ c = Head(commands).conn
    BY <2>1 DEF SessTypeOK
  <2> QED
    BY <1>1, <2>1, <2>2, FewerStarts
<1>4. ASSUME commands' = Tail(commands), UNCHANGED <<owner, logins>>
      PROVE  StartedOnce' /\ commands' \in Seq(TelegramCommand)
  BY <1>1, <1>4, FewerStarts
<1>5. CASE HandlePasswordNeeded \/ HandleDisconnect
  BY <1>4, <1>5 DEF HandlePasswordNeeded, HandleDisconnect, Handled
<1>6. CASE HandleRaises
  <2>1. CASE MayRetry(Head(commands))
    <3> DEFINE k == [Head(commands) EXCEPT !.try = @ + 1]
    <3>1. commands' = Append(Tail(commands), k) /\ UNCHANGED <<owner, logins>>
      BY <1>6, <2>1 DEF HandleRaises
    <3>2. Head(commands).try + 1 \in 1..MaxAttempts
      BY <1>2, <2>1 DEF MayRetry
    <3>3. k \in TelegramCommand /\ k.type = Head(commands).type /\ k.conn = Head(commands).conn
      BY <1>1, <3>2 DEF TelegramCommand
    <3> HIDE DEF k
    <3> QED
      BY <1>1, <3>1, <3>3, AgainAtTheEnd
  <2>2. CASE ~MayRetry(Head(commands))
    BY <1>4, <1>6, <2>2 DEF HandleRaises, Handled
  <2> QED
    BY <2>1, <2>2
<1>7. ASSUME NEW i \in Identities, HandleSecret(i)
      PROVE  StartedOnce' /\ commands' \in Seq(TelegramCommand)
  <2>1. commands' = Tail(commands) /\ UNCHANGED owner
    BY <1>7 DEF HandleSecret, Handled
  <2>2. \A c \in Conns : logins'[c] = logins[c] \/ logins[c] # {}
    <3> PICK x : x = Head(commands).conn
      OBVIOUS
    <3>1. i \in logins[x] /\ logins' = [logins EXCEPT ![x] = {i}]
      BY <1>7, Zenon DEF HandleSecret, Finalize
    <3>2. DOMAIN logins = Conns
      BY DEF SessTypeOK
    <3> HIDE DEF StartedOnce, SessTypeOK
    <3> QED
      BY <3>1, <3>2
  <2> QED
    BY <1>1, <2>1, <2>2, FewerStarts
<1> QED
  BY <1>3, <1>5, <1>6, <1>7

-----------------------------------------------------------------------------
\* Every step keeps SessIInv and destroys nothing but what the user removes.
LEMMA SessStep ==
  SessIInv /\ [SessNext]_sessVars => SessIInv' /\ NothingElseGoes
<1> SUFFICES ASSUME SessIInv, [SessNext]_sessVars PROVE SessIInv' /\ NothingElseGoes
  OBVIOUS
<1>1. SessTypeOK /\ RowsSound /\ StartedOnce
  BY DEF SessIInv
<1>2. ASSUME Kept, StartedOnce', commands' \in Seq(TelegramCommand)
      PROVE  SessIInv' /\ NothingElseGoes
  BY <1>2 DEF Kept, RowsTyped, OthersTyped, SessIInv, SessTypeOK
<1>3. CASE ApiStep
  BY <1>1, <1>2, <1>3, ApiKeepsRows, ApiKeepsStream
<1>4. CASE HandleStart \/ HandlePasswordNeeded \/ HandleRaises \/ HandleDisconnect
  BY <1>1, <1>2, <1>4, HandlersKeepRows, HandlersKeepStream
<1>5. ASSUME NEW i \in Identities, HandleSecret(i) PROVE SessIInv' /\ NothingElseGoes
  BY <1>1, <1>2, <1>5, SecretKeepsRows, HandlersKeepStream
<1>6. ASSUME Kept, LoginsNarrow, UNCHANGED <<owner, commands>> PROVE SessIInv' /\ NothingElseGoes
  <2>1. commands' \in Seq(TelegramCommand)
    BY <1>1, <1>6 DEF SessTypeOK
  <2>2. \A p \in DOMAIN commands : commands[p] \in TelegramCommand
    BY <1>1 DEF SessTypeOK
  <2>3. \A p \in DOMAIN commands : commands[p].conn \in Conns
    BY <2>2 DEF TelegramCommand
  <2>4. StartedOnce'
    BY <1>1, <1>6, <2>3 DEF StartedOnce, LoginsNarrow
  <2> QED
    BY <1>2, <1>6, <2>1, <2>4
<1>7. CASE \/ StartLoop \/ Stop
           \/ \E c \in Conns :
                \/ \E s \in RowStates : DropClient(c, s)
                \/ Restore(c)
                \/ \E i \in Identities : Scanned(c, i)
                \/ ScanNeedsPassword(c) \/ ScanFails(c)
           \/ \E s \in RowStates : Restored(s)
  <2>1. CASE Conns # {}
    BY <1>1, <1>6, <1>7, <2>1, RuntimeKeepsRows
  <2>2. CASE Conns = {}
    <3>1. StartLoop \/ Stop
      BY <1>1, <1>7, <2>2 DEF Restored, SessTypeOK
    <3>2. /\ UNCHANGED <<row, owner, identity, logins, attempt, removing, commands>>
          /\ running' \in BOOLEAN /\ attached' \subseteq attached /\ scanning' \subseteq scanning
          /\ restoring' = restoring \/ restoring' = Nobody
      BY <3>1 DEF StartLoop, Stop
    <3>3. OthersTyped /\ RowsTyped /\ NothingElseGoes /\ LoginsNarrow
      BY <1>1, <2>2, <3>2 DEF OthersTyped, RowsTyped, SessTypeOK, NothingElseGoes, LoginsNarrow
    <3>4. RowsSound'
      BY <2>2 DEF RowsSound, UnusedIds, RowsOwnTheirAccount, AccountsUnique, ClientsAreSignedIn,
                  AttemptsFollowRows
    <3> QED
      BY <1>6, <3>2, <3>3, <3>4 DEF Kept
  <2> QED
    BY <2>1, <2>2
<1>8. CASE UNCHANGED sessVars
  <2>1. RowsTyped /\ RowsSound' /\ \A c \in Conns : ~Destroys(c)
    BY <1>1, <1>8, SameRows DEF sessVars
  <2>2. OthersTyped /\ LoginsNarrow /\ UNCHANGED <<owner, commands>>
    BY <1>1, <1>8 DEF sessVars, OthersTyped, SessTypeOK, LoginsNarrow
  <2> QED
    BY <1>6, <2>1, <2>2 DEF Kept, NothingElseGoes, Destroys
<1> QED
  BY <1>3, <1>4, <1>5, <1>7, <1>8 DEF SessNext, RuntimeStep

\* An attempt that is ready has the row that its end wrote.
LEMMA ReadyFollowsRows == SessIInv => ReadyAttemptHasAccount
<1> SUFFICES ASSUME SessIInv, NEW a \in Conns, attempt[a].state = "ready"
             PROVE  /\ attempt[a].conn # Nobody /\ row[attempt[a].conn] # "absent"
                    /\ identity[attempt[a].conn] # Nobody
                    /\ \A d \in Conns \ {attempt[a].conn} :
                         row[d] # "absent" => identity[d] # identity[attempt[a].conn]
  BY DEF ReadyAttemptHasAccount
<1>1. attempt[a] \in AuthAttempt
  BY DEF SessIInv, SessTypeOK
<1>2. attempt[a].conn \in Conns /\ Established(attempt[a].conn)
  BY <1>1, AttemptFields DEF SessIInv, RowsSound, AttemptsFollowRows
<1>3. identity[attempt[a].conn] # Nobody
  BY <1>2 DEF SessIInv, RowsSound, RowsOwnTheirAccount
<1>4. \A d \in Conns : row[d] # "absent" => row[d] = "pending" \/ Established(d)
  BY DEF SessIInv, SessTypeOK, Established
<1> QED
  BY <1>2, <1>3, <1>4 DEF SessIInv, RowsSound, RowsOwnTheirAccount, AccountsUnique, Established

\* Rows, attempts, identities and commands of the sign-ins keep their types.
THEOREM SessTypeCorrect == SessSpec => []SessTypeOK
<1>1. SessIInv => SessTypeOK
  BY DEF SessIInv
<1>2. SessIInv /\ [SessNext]_sessVars => SessIInv'
  BY SessStep
<1> QED
  BY <1>1, <1>2, SessInitIInv, PTL DEF SessSpec

\* An attempt that _finalize marks ready refers to a row with a Telegram account
\* of its own, however many accounts, users and rows there are: the lookup by
\* telegram_user_id and the account the session keeps leave no second one.
THEOREM ReadyAttemptHasAccountHolds == SessSpec => []ReadyAttemptHasAccount
<1>1. SessIInv /\ [SessNext]_sessVars => SessIInv'
  BY SessStep
<1> QED
  BY <1>1, SessInitIInv, ReadyFollowsRows, PTL DEF SessSpec

\* No sign-in, retry, scan or failure deletes a row that was signed in or the
\* attempt the browser polls: only disconnect_telegram does.
THEOREM SignInsDestroyNothingHolds == SessSpec => SignInsDestroyNothing
<1>1. SessIInv /\ [SessNext]_sessVars => SessIInv'
  BY SessStep
<1>2. SessIInv /\ [SessNext]_sessVars =>
        [\A c \in Conns :
           /\ Established(c) /\ row'[c] = "absent" => c \in removing
           /\ attempt[c] # NoAttempt /\ attempt'[c] = NoAttempt => attempt[c].conn \in removing]_sessVars
  BY SessStep DEF NothingElseGoes
<1> QED
  BY <1>1, <1>2, SessInitIInv, PTL DEF SessSpec, SignInsDestroyNothing
=============================================================================
