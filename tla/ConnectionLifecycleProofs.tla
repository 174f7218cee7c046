---------------------- MODULE ConnectionLifecycleProofs ----------------------
(***************************************************************************)
(* Proofs about ConnectionLifecycle: type correctness and, as long as no   *)
(* job outlives its provisioning lock, DeletedIsErased,                    *)
(* AccountOfTransaction and NoAccountForgotten for any number of workers,  *)
(* watchers, transactions, retries and faults.                             *)
(***************************************************************************)
EXTENDS ConnectionLifecycle, TLAPS

(***************************************************************************)
(* What a session writes, column by column: the commits of jobs and of the *)
(* execution handler (Flush) on a connection's row and on a route's row.   *)
(***************************************************************************)
LEMMA FlushedRow ==
    ASSUME NEW row \in Rows, NEW seen \in Rows, NEW new \in Rows
    PROVE  Flush(row, seen, new) =
             [state |-> IF new.state = seen.state THEN row.state ELSE new.state,
              account |-> IF new.account = seen.account THEN row.account ELSE new.account,
              creds |-> IF new.creds = seen.creds THEN row.creds ELSE new.creds,
              txn |-> IF new.txn = seen.txn THEN row.txn ELSE new.txn]
  BY DEF Flush, Rows

(***************************************************************************)
(* Flush on a route's row, as mark_routes_target_unavailable and           *)
(* restore_routes_after_target_recovery write it.                          *)
(***************************************************************************)
LEMMA FlushedRoute ==
    ASSUME NEW row \in Routes, NEW seen \in Routes, NEW new \in Routes
    PROVE  Flush(row, seen, new) =
             [state |-> IF new.state = seen.state THEN row.state ELSE new.state,
              from |-> IF new.from = seen.from THEN row.from ELSE new.from]
  BY DEF Flush, Routes

(***************************************************************************)
(* A commit of a well-typed row leaves a well-typed row.                   *)
(***************************************************************************)
LEMMA FlushTypes ==
    /\ \A row, seen, new \in Rows : Flush(row, seen, new) \in Rows
    /\ \A row, seen, new \in Routes : Flush(row, seen, new) \in Routes
  <1>1. ASSUME NEW row \in Rows, NEW seen \in Rows, NEW new \in Rows
        PROVE  Flush(row, seen, new) \in Rows
    <2> DEFINE f == [state |-> IF new.state = seen.state THEN row.state ELSE new.state,
              account |-> IF new.account = seen.account THEN row.account ELSE new.account,
              creds |-> IF new.creds = seen.creds THEN row.creds ELSE new.creds,
              txn |-> IF new.txn = seen.txn THEN row.txn ELSE new.txn]
    <2>1. f \in Rows
      BY DEF Rows
    <2>2. Flush(row, seen, new) = f
      BY FlushedRow
    <2> QED BY <2>1, <2>2
  <1>2. ASSUME NEW row \in Routes, NEW seen \in Routes, NEW new \in Routes
        PROVE  Flush(row, seen, new) \in Routes
    <2> DEFINE f == [state |-> IF new.state = seen.state THEN row.state ELSE new.state,
              from |-> IF new.from = seen.from THEN row.from ELSE new.from]
    <2>1. f \in Routes
      BY DEF Routes
    <2>2. Flush(row, seen, new) = f
      BY FlushedRoute
    <2> QED BY <2>1, <2>2
  <1> QED BY <1>1, <1>2

WatchType == [at : {"idle", "warm", "execute", "write"}, ok : BOOLEAN,
              seen : ConnectionStates, route : Routes, hit : BOOLEAN, late : BOOLEAN]
JobType == [at : JobSteps, event : Events \cup {NoEvent}, seen : Rows,
            result : {"none", "success", "retry"}]

\* The part of TypeOK about jobs.
JobsOK ==
    /\ job \in [Workers -> JobType]
    /\ \A u \in Workers : IF job[u].at = "idle" THEN job[u] = IdleJob
                           ELSE job[u].event \in Events

(***************************************************************************)
(* The constants of the model have their types.                            *)
(***************************************************************************)
LEMMA ConstantTypes ==
    /\ NoRow \in Rows /\ NewRoute \in Routes
    /\ IdleJob \in JobType /\ IdleJob.at = "idle"
    /\ IdleWatch \in WatchType
    /\ MaxTxn \in Nat /\ MaxRetries \in Nat /\ MaxFaults \in Nat
  BY LifecycleAssumption
     DEF NoRow, Rows, ConnectionStates, NewRoute, Routes, RouteStates, IdleJob, JobType,
         JobSteps, NoEvent, IdleWatch, WatchType

(***************************************************************************)
(* What cleanup leaves of a row is a row.                                  *)
(***************************************************************************)
LEMMA ErasedRow == \A row \in Rows : Erased(row) \in Rows
  <1> SUFFICES ASSUME NEW row \in Rows PROVE Erased(row) \in Rows
    OBVIOUS
  <1>1. row.txn \in 0..MaxTxn /\ 0 \in 0..MaxTxn /\ "deleted" \in ConnectionStates
    BY ConstantTypes DEF Rows, ConnectionStates
  <1> QED BY <1>1, Zenon DEF Rows, Erased

(***************************************************************************)
(* TypeOK holds at first.                                                  *)
(***************************************************************************)
LEMMA TypeInit == Init => TypeOK
  <1> SUFFICES ASSUME Init PROVE TypeOK
    OBVIOUS
  <1>1. conn \in Rows /\ route \in Routes /\ wanted \in BOOLEAN /\ overturned \in BOOLEAN
    BY ConstantTypes DEF Init
  <1>2. job \in [Workers -> JobType] /\ watch \in [Watchers -> WatchType]
    BY ConstantTypes DEF Init
  <1>3. /\ provider \in [Txns -> {"none", "pending", "alive", "removed"}]
        /\ due \subseteq Events /\ processed \subseteq Events
        /\ lock \in Workers \cup {NoOwner, Orphan}
        /\ \A w \in Workers : job[w] = IdleJob
        /\ retries \in 0..MaxRetries /\ faults \in 0..MaxFaults
    BY ConstantTypes DEF Init
  <1> QED BY <1>1, <1>2, <1>3, ConstantTypes DEF TypeOK, JobType, WatchType

(***************************************************************************)
(* What a word of the user does to the watchers.                           *)
(***************************************************************************)
LEMMA WordFacts ==
    ASSUME TypeOK, NEW w \in BOOLEAN, Word(w)
    PROVE  /\ wanted' = w /\ overturned' = FALSE
           /\ watch' \in [Watchers -> WatchType]
           /\ \A v \in Watchers : /\ watch'[v].hit = watch[v].hit
                                 /\ watch'[v].late = (~w /\ watch[v].hit)
  <1>1. wanted' = w /\ overturned' = FALSE
    BY DEF Word
  <1>2. ASSUME NEW v \in Watchers
        PROVE  /\ watch'[v] \in WatchType /\ watch'[v].hit = watch[v].hit
               /\ watch'[v].late = (~w /\ watch[v].hit)
    <2>1. watch[v] \in WatchType
      BY DEF TypeOK, WatchType
    <2>2. PICK late \in BOOLEAN : late = (~w /\ watch[v].hit)
      BY <2>1 DEF WatchType
    <2>3. watch'[v] = [watch[v] EXCEPT !.late = late]
      BY <2>2 DEF Word
    <2>4. /\ [watch[v] EXCEPT !.late = late] \in WatchType
          /\ [watch[v] EXCEPT !.late = late].hit = watch[v].hit
          /\ [watch[v] EXCEPT !.late = late].late = late
      BY <2>1 DEF WatchType
    <2> QED BY <2>2, <2>3, <2>4
  <1>3. watch' = [v \in Watchers |-> watch'[v]]
    BY DEF Word
  <1> QED BY <1>1, <1>2, <1>3

(***************************************************************************)
(* The user's requests keep TypeOK.                                        *)
(***************************************************************************)
LEMMA TypeRequest == TypeOK /\ Request => TypeOK'
  <1> SUFFICES ASSUME TypeOK, Request PROVE TypeOK'
    OBVIOUS
  <1> USE LifecycleAssumption DEF TypeOK
  <1>0. ASSUME NEW e \in Events, Publish(e)
        PROVE  due' \subseteq Events /\ faults' \in 0..MaxFaults
    BY <1>0 DEF Publish
  <1>a. ASSUME NEW s \in ConnectionStates PROVE [conn EXCEPT !.state = s] \in Rows
    BY DEF Rows
  <1>1. Paused(route) \in Routes /\ Before(route) \in Routes
    BY DEF Paused, Before, Routes, RouteStates
  <1>2. CASE CreateConnection
    <2>0. conn.txn + 1 \in Txns
      BY <1>2 DEF CreateConnection, Rows, Txns
    <2>1. conn' \in Rows /\ conn'.txn \in Txns
      BY <1>2, <2>0 DEF CreateConnection, Rows, ConnectionStates, Txns
    <2>2. <<"provision", conn'.txn>> \in Events
      BY <2>1 DEF Events
    <2> QED BY <1>0, <1>2, <2>1, <2>2 DEF CreateConnection
  <1>3. CASE RetryConnection
    <2>0. conn' \in Rows
      BY <1>3, <1>a DEF RetryConnection, ConnectionStates
    <2>1. conn.txn \in Txns
      BY <1>3 DEF RetryConnection, Rows, Txns
    <2>2. <<"provision", conn.txn>> \in Events
      BY <2>1 DEF Events
    <2>3. retries' \in 0..MaxRetries
      BY <1>3 DEF RetryConnection
    <2> QED BY <1>0, <1>3, <2>0, <2>2, <2>3 DEF RetryConnection
  <1>4. CASE DeleteConnection
    <2>0. conn' \in Rows
      BY <1>4, <1>a DEF DeleteConnection, ConnectionStates
    <2>1. conn.txn \in Txns
      BY <1>4 DEF DeleteConnection, Rows, Txns
    <2>2. <<"delete", conn.txn>> \in Events
      BY <2>1 DEF Events
    <2>3. Word(FALSE)
      BY <1>4 DEF DeleteConnection
    <2>4. wanted' \in BOOLEAN /\ overturned' \in BOOLEAN /\ watch' \in [Watchers -> WatchType]
      BY <2>3, WordFacts
    <2> QED BY <1>0, <1>1, <1>4, <2>0, <2>2, <2>4 DEF DeleteConnection, WatchType
  <1>5. CASE ActivateRoute \/ PauseRoute \/ ResumeRoute
    <2>1. \E w \in BOOLEAN : Word(w)
      BY <1>5 DEF ActivateRoute, PauseRoute, ResumeRoute
    <2>2. wanted' \in BOOLEAN /\ overturned' \in BOOLEAN /\ watch' \in [Watchers -> WatchType]
      BY <2>1, WordFacts
    <2>3. route' \in Routes
      BY <1>1, <1>5 DEF ActivateRoute, PauseRoute, ResumeRoute, Routes, RouteStates
    <2>4. UNCHANGED <<conn, provider, due, processed, lock, job, retries, faults>>
      BY <1>5 DEF ActivateRoute, PauseRoute, ResumeRoute, stream
    <2> QED BY <2>2, <2>3, <2>4 DEF WatchType
  <1> QED BY <1>2, <1>3, <1>4, <1>5 DEF Request

(***************************************************************************)
(* The reports of warm-up and execution handler keep TypeOK.               *)
(***************************************************************************)
LEMMA TypeWatch == ASSUME NEW v \in Watchers PROVE TypeOK /\ Watch(v) => TypeOK'
  <1> SUFFICES ASSUME TypeOK, Watch(v) PROVE TypeOK'
    OBVIOUS
  <1> PICK r : r = watch[v]
    OBVIOUS
  <1>0. r \in WatchType /\ conn \in Rows /\ route \in Routes /\ conn.state \in ConnectionStates
    BY DEF TypeOK, WatchType, Rows
  <1>1. ASSUME NEW new \in WatchType, watch' = [watch EXCEPT ![v] = new],
               conn' \in Rows, route' \in Routes, overturned' \in BOOLEAN,
               UNCHANGED <<provider, stream, lock, job, wanted, retries, faults>>
        PROVE  TypeOK'
    BY <1>1 DEF TypeOK, WatchType, stream
  <1>2. CASE CommitReport(v)
    <2>1. Reported(r.route, r.ok) \in Routes
      BY <1>0 DEF Reported, Before, Routes, RouteStates, WatchType
    <2>2. Flush(route, r.route, Reported(r.route, r.ok)) \in Routes
      BY <1>0, <2>1, FlushTypes DEF WatchType
    <2>3. [conn EXCEPT !.state = Health(r.ok)] \in Rows
      BY <1>0 DEF Health, Rows, ConnectionStates
    <2>4. overturned' \in BOOLEAN
      BY <1>0, <1>2 DEF CommitReport, TypeOK, WatchType
    <2>5. conn' \in Rows /\ route' \in Routes
      BY <1>0, <1>2, <2>2, <2>3 DEF CommitReport
    <2> QED BY <1>1, <1>2, <2>4, <2>5, ConstantTypes DEF CommitReport
  <1>3. CASE ~CommitReport(v)
    <2>1. UNCHANGED <<database, provider, stream, lock, job, wanted, overturned, retries, faults>>
      BY <1>3 DEF Watch, WarmStart, ExecuteStart, WarmRead, ExecuteRead, WatchAborts
    <2>2. \E new \in WatchType : watch' = [watch EXCEPT ![v] = new]
      <3>1. ASSUME NEW ok \in BOOLEAN, WarmStart(v, ok)
            PROVE  \E new \in WatchType : watch' = [watch EXCEPT ![v] = new]
        <4>1. [r EXCEPT !.at = "warm", !.ok = ok] \in WatchType
          BY <1>0 DEF WatchType
        <4> QED BY <3>1, <4>1 DEF WarmStart
      <3>2. ASSUME NEW ok \in BOOLEAN, ExecuteStart(v, ok)
            PROVE  \E new \in WatchType : watch' = [watch EXCEPT ![v] = new]
        <4>1. [IdleWatch EXCEPT !.at = "execute", !.ok = ok, !.seen = conn.state,
                                !.route = route] \in WatchType
          BY <1>0, ConstantTypes DEF WatchType
        <4> QED BY <3>2, <4>1 DEF ExecuteStart
      <3>3. ASSUME WarmRead(v)
            PROVE  \E new \in WatchType : watch' = [watch EXCEPT ![v] = new]
        <4>1. Selected(r.ok) \in BOOLEAN
          BY DEF Selected
        <4>2. [at |-> "write", ok |-> r.ok, seen |-> conn.state,
               route |-> IF Selected(r.ok) THEN route ELSE NewRoute,
               hit |-> Selected(r.ok), late |-> FALSE] \in WatchType
          BY <1>0, <4>1, ConstantTypes DEF WatchType
        <4> QED BY <3>3, <4>2 DEF WarmRead
      <3>4. ASSUME ExecuteRead(v)
            PROVE  \E new \in WatchType : watch' = [watch EXCEPT ![v] = new]
        <4>1. PICK h \in BOOLEAN : h = Selected(r.ok)
          BY DEF Selected
        <4>2. [r EXCEPT !.at = "write", !.hit = h] \in WatchType
          BY <1>0 DEF WatchType
        <4> QED BY <3>4, <4>1, <4>2 DEF ExecuteRead
      <3>5. ASSUME WatchAborts(v)
            PROVE  \E new \in WatchType : watch' = [watch EXCEPT ![v] = new]
        BY <3>5, ConstantTypes DEF WatchAborts
      <3> QED BY <1>3, <3>1, <3>2, <3>3, <3>4, <3>5 DEF Watch
    <2>3. conn' \in Rows /\ route' \in Routes /\ overturned' \in BOOLEAN
      BY <1>0, <2>1 DEF database, TypeOK
    <2> QED BY <1>1, <2>1, <2>2, <2>3
  <1> QED BY <1>2, <1>3

(***************************************************************************)
(* The ways a job moves: to another step, to its return, out of the        *)
(* handler, or on with a row that it has just loaded.                      *)
(***************************************************************************)
LEMMA JobMoves ==
    ASSUME TypeOK, NEW w \in Workers
    PROVE  /\ \A where \in JobSteps \ {"idle"} :
                 ~JobAt(w, "idle") /\ Goto(w, where) => JobsOK'
           /\ \A r \in {"success", "retry"} :
                 ~JobAt(w, "idle") /\ Return(w, r) => JobsOK'
           /\ Reset(w) => JobsOK'
           /\ \A where \in JobSteps \ {"idle"}, row \in Rows :
                 /\ ~JobAt(w, "idle")
                 /\ job' = [job EXCEPT ![w].at = where, ![w].seen = row]
                 => JobsOK'
  <1> USE DEF TypeOK, JobType, JobsOK, JobAt
  <1>1. ASSUME NEW where \in JobSteps \ {"idle"}, Goto(w, where), ~JobAt(w, "idle")
        PROVE  JobsOK'
    BY <1>1 DEF Goto
  <1>2. ASSUME NEW r \in {"success", "retry"}, Return(w, r), ~JobAt(w, "idle")
        PROVE  JobsOK'
    <2> DEFINE j == [IdleJob EXCEPT !.at = "release", !.event = job[w].event, !.result = r]
    <2>1. j \in JobType
      BY ConstantTypes DEF JobSteps
    <2>2. j.at = "release" /\ j.event = job[w].event
      BY DEF IdleJob
    <2>3. job' = [job EXCEPT ![w] = j]
      BY <1>2 DEF Return
    <2> HIDE DEF j
    <2> QED BY <1>2, <2>1, <2>2, <2>3
  <1>3. ASSUME Reset(w) PROVE JobsOK'
    BY <1>3, ConstantTypes DEF Reset
  <1>4. ASSUME NEW where \in JobSteps \ {"idle"}, NEW row \in Rows, ~JobAt(w, "idle"),
               job' = [job EXCEPT ![w].at = where, ![w].seen = row]
        PROVE  JobsOK'
    <2> DEFINE j == [job[w] EXCEPT !.at = where, !.seen = row]
    <2>1. job[w] \in JobType
      OBVIOUS
    <2>2. ASSUME NEW k \in JobType
          PROVE  /\ [k EXCEPT !.at = where, !.seen = row] \in JobType
                 /\ [k EXCEPT !.at = where, !.seen = row].at = where
                 /\ [k EXCEPT !.at = where, !.seen = row].event = k.event
      OBVIOUS
    <2>3. j \in JobType /\ j.at = where /\ j.event = job[w].event
      BY <2>1, <2>2
    <2>4. job' = [job EXCEPT ![w] = j]
      BY <1>4
    <2> HIDE DEF j
    <2>5. job \in [Workers -> JobType]
      OBVIOUS
    <2>6. job' \in [Workers -> JobType]
      BY <2>3, <2>4, <2>5, Zenon
    <2>7. job'[w] = j /\ \A u \in Workers : u # w => job'[u] = job[u]
      BY <2>4, <2>5
    <2>8. job[w].event \in Events
      BY <1>4
    <2> QED BY <1>4, <2>3, <2>6, <2>7, <2>8
  <1> QED BY <1>1, <1>2, <1>3, <1>4

(***************************************************************************)
(* Steps of a job, delivery and faults keep TypeOK.                        *)
(***************************************************************************)
LEMMA TypeJob ==
    ASSUME NEW w \in Workers
    PROVE  TypeOK /\ (Job(w) \/ Crash(w)) => TypeOK'
  <1> SUFFICES ASSUME TypeOK, Job(w) \/ Crash(w) PROVE TypeOK'
    OBVIOUS
  <1> USE LifecycleAssumption DEF TypeOK, database, stream
  <1>a. ASSUME NEW s \in ConnectionStates PROVE WithState(w, s) \in Rows
    <2>1. job[w].seen \in Rows
      OBVIOUS
    <2>2. ASSUME NEW row \in Rows PROVE [row EXCEPT !.state = s] \in Rows
      BY DEF Rows
    <2> QED BY <2>1, <2>2 DEF WithState
  <1>b. ASSUME NEW new \in Rows PROVE Flush(conn, job[w].seen, new) \in Rows
    BY FlushTypes
  <1>c. /\ job[w].seen.txn \in 0..MaxTxn /\ job[w].seen.account \in 0..MaxTxn
        /\ job[w].event \in Events \cup {NoEvent}
    BY DEF Rows
  <1>n. ASSUME NEW where, where # "idle", JobAt(w, where) PROVE ~JobAt(w, "idle")
    BY <1>n DEF JobAt
  <1>d. ASSUME JobsOK', conn' \in Rows, provider' \in [Txns -> {"none", "pending", "alive", "removed"}],
               due' \subseteq Events, processed' \subseteq Events,
               lock' \in Workers \cup {NoOwner, Orphan}, faults' \in 0..MaxFaults,
               UNCHANGED <<route, watch, wanted, overturned, retries>>
        PROVE  TypeOK'
    BY <1>d DEF JobType, JobsOK
  <1>e. ASSUME NEW new \in Rows, NEW where \in JobSteps \ {"idle"}, CommitJob(w, new, where), ~JobAt(w, "idle"),
               UNCHANGED <<route, provider, stream, lock, watch, wanted, overturned, retries, faults>>
        PROVE  TypeOK'
    BY <1>b, <1>d, <1>e, JobMoves DEF CommitJob
  <1>f. ASSUME NEW new \in Rows, NEW r \in {"success", "retry"}, CommitAndReturn(w, new, r),
               ~JobAt(w, "idle"),
               provider' \in [Txns -> {"none", "pending", "alive", "removed"}],
               UNCHANGED <<route, stream, lock, watch, wanted, overturned, retries, faults>>
        PROVE  TypeOK'
    BY <1>b, <1>d, <1>f, JobMoves DEF CommitAndReturn
  <1>1. CASE AcquireLock(w)
    BY <1>1, <1>n, <1>d, JobMoves DEF AcquireLock, JobSteps
  <1>2. CASE LoadConnection(w)
    <2> DEFINE where == IF job[w].event[1] = "delete" THEN "clean"
                        ELSE IF ~conn.creds THEN "attach"
                        ELSE IF conn.account = 0 THEN "mark" ELSE "save"
    <2>1. where \in JobSteps \ {"idle"}
      BY DEF JobSteps
    <2>2. job' = [job EXCEPT ![w].at = where, ![w].seen = conn]
      BY <1>2 DEF LoadConnection
    <2> HIDE DEF where
    <2> QED BY <1>2, <1>n, <1>d, <2>1, <2>2, JobMoves DEF LoadConnection
  <1>3. CASE MarkProvisioning(w)
    BY <1>3, <1>a, <1>n, <1>e DEF MarkProvisioning, ConnectionStates, JobSteps
  <1>4. CASE CreateAccepted(w)
    BY <1>4, <1>n, <1>d, JobMoves DEF CreateAccepted
  <1>5. CASE CreateDone(w)
    BY <1>5, <1>n, <1>d, JobMoves DEF CreateDone, JobSteps
  <1>6. CASE CreateUnanswered(w)
    BY <1>6, <1>a, <1>n, <1>f DEF CreateUnanswered, ConnectionStates
  <1>7. CASE SaveAccount(w)
    <2> DEFINE seen == job[w].seen
               id == IF seen.account = 0 THEN seen.txn ELSE seen.account
    <2>1. [seen EXCEPT !.account = id, !.state = "deploying"] \in Rows
      BY DEF Rows, ConnectionStates
    <2> QED BY <1>7, <1>n, <1>e, <2>1 DEF SaveAccount, JobSteps
  <1>8. CASE Deployed(w)
    BY <1>8, <1>a, <1>n, <1>e DEF Deployed, ConnectionStates, JobSteps
  <1>9. CASE Connected(w)
    <2>1. conn' \in Rows
      BY <1>9 DEF Connected, Rows, ConnectionStates
    <2> QED BY <1>9, <1>n, <1>d, <2>1, JobMoves DEF Connected, JobSteps
  <1>10. CASE Attach(w)
    BY <1>10, <1>n, <1>d, JobMoves DEF Attach, JobSteps
  <1>11. ASSUME NEW s \in {"failed", "disconnected"}, NEW r \in {"success", "retry"},
                ProvisionError(w, s, r)
         PROVE  TypeOK'
    BY <1>11, <1>a, <1>n, <1>f DEF ProvisionError, ConnectionStates
  <1>12. ASSUME NEW s \in {"ready", "failed"}, Validate(w, s) PROVE TypeOK'
    BY <1>12, <1>a, <1>n, <1>f DEF Validate, ConnectionStates
  <1>13. CASE CloseFails(w)
    BY <1>13, <1>n, <1>d, JobMoves DEF CloseFails
  <1>14. CASE MarkDeleting(w)
    BY <1>14, <1>a, <1>n, <1>e DEF MarkDeleting, ConnectionStates, JobSteps
  <1>15. CASE RemoveAccount(w)
    BY <1>15, <1>n, <1>d, JobMoves DEF RemoveAccount, JobSteps
  <1>16. CASE EraseConnection(w)
    <2>1. Erased(job[w].seen) \in Rows
      <3>1. job[w].seen \in Rows
        OBVIOUS
      <3> QED BY <3>1, ErasedRow
    <2> QED BY <1>16, <1>n, <1>f, <2>1 DEF EraseConnection
  <1>17. CASE ReleaseLock(w)
    BY <1>17, <1>n, <1>d, JobMoves DEF ReleaseLock, JobSteps
  <1>18. CASE Settle(w)
    <2>1. Exhausted(conn) \in Rows
      BY DEF Exhausted, Rows, ConnectionStates
    <2>2. conn' \in Rows /\ due' \subseteq Events
      BY <1>18, <2>1 DEF Settle
    <2>3. processed' \subseteq Events
      BY <1>18 DEF Settle, JobAt
    <2> QED BY <1>18, <1>n, <1>d, <2>2, <2>3, JobMoves DEF Settle
  <1>19. CASE Crash(w)
    BY <1>19, <1>n, <1>d, JobMoves DEF Crash
  <1> QED BY <1>1, <1>2, <1>3, <1>4, <1>5, <1>6, <1>7, <1>8, <1>9, <1>10, <1>11, <1>12,
             <1>13, <1>14, <1>15, <1>16, <1>17, <1>18, <1>19 DEF Job, Provision, Cleanup

(***************************************************************************)
(* Every step keeps TypeOK.                                                *)
(***************************************************************************)
LEMMA TypeNext == TypeOK /\ [Next]_vars => TypeOK'
  <1> SUFFICES ASSUME TypeOK, [Next]_vars PROVE TypeOK'
    OBVIOUS
  <1>1. ASSUME NEW w \in Workers, NEW e \in Events, TakeEvent(w, e) PROVE TypeOK'
    <2> DEFINE j == [IdleJob EXCEPT !.at = "lock", !.event = e]
    <2>1. j \in JobType /\ j.at = "lock" /\ j.event = e
      BY ConstantTypes DEF IdleJob, JobType, JobSteps
    <2>2. JobsOK
      BY DEF TypeOK, JobsOK, JobType
    <2>3. job' = job \/ job' = [job EXCEPT ![w] = j]
      BY <1>1 DEF TakeEvent
    <2> HIDE DEF j
    <2>4. JobsOK'
      BY <2>1, <2>2, <2>3 DEF JobsOK
    <2> QED BY <1>1, <2>4 DEF TakeEvent, TypeOK, JobsOK, JobType, database
  <1>2. ASSUME NEW n \in Txns, ProviderFinishes(n) PROVE TypeOK'
    BY <1>2 DEF ProviderFinishes, TypeOK, database, stream
  <1>3. CASE LeaseExpires
    BY <1>3 DEF LeaseExpires, TypeOK, database, stream
  <1>4. CASE UNCHANGED vars
    BY <1>4 DEF vars, TypeOK, database, stream
  <1> QED BY <1>1, <1>2, <1>3, <1>4, TypeRequest, TypeWatch, TypeJob DEF Next

(***************************************************************************)
(* The rows, the events, the jobs and the watchers keep their types.       *)
(***************************************************************************)
THEOREM TypeCorrect == Safety => []TypeOK
  BY TypeInit, TypeNext, PTL DEF Safety
-----------------------------------------------------------------------------
(***************************************************************************)
(* The inductive invariant.  A job that holds the lock and has provisioned *)
(* or is cleaning up sees the row as it is, except for its state, and the  *)
(* connection is not deleted meanwhile, so it cannot be created anew under *)
(* the job.                                                                *)
(***************************************************************************)
Provisioning == {"mark", "create", "save", "deploy", "connect", "validate"}
Removing == {"remove", "erase"}
Holding == {"load", "attach", "clean"} \cup Provisioning \cup Removing

Current(w) ==
    /\ conn.state # "deleted"
    /\ job[w].seen.txn = conn.txn
    /\ job[w].seen.account = conn.account
    /\ job[w].seen.creds = conn.creds

JobInv(w) ==
    /\ job[w].at # "idle" => conn.txn > 0
    /\ job[w].at \in Provisioning => Current(w) /\ conn.creds
    /\ job[w].at \in Removing => Current(w) /\ job[w].seen.state # "deleted"
    /\ job[w].at = "attach" => Current(w) \/ job[w].seen.account = 0
    /\ job[w].at = "clean" /\ conn.state = "deleted" => job[w].seen.state = "deleted"
    /\ job[w].at = "erase" /\ conn.account # 0 => provider[conn.account] = "removed"

RowInv ==
    /\ DeletedIsErased
    /\ AccountOfTransaction
    /\ ~conn.creds => conn.account = 0
    /\ due # {} => conn.txn > 0

Exclusive == \A w \in Workers : job[w].at \in Holding => lock = w

Inv == TypeOK /\ RowInv /\ Exclusive /\ \A w \in Workers : JobInv(w)

(***************************************************************************)
(* Inv holds at first.                                                     *)
(***************************************************************************)
LEMMA InvInit == Init => Inv
  <1> SUFFICES ASSUME Init PROVE Inv
    OBVIOUS
  <1>1. \A w \in Workers : job[w].at = "idle"
    BY ConstantTypes DEF Init
  <1>2. RowInv
    BY DEF Init, NoRow, RowInv, DeletedIsErased, AccountOfTransaction
  <1>3. Exclusive /\ \A w \in Workers : JobInv(w)
    BY <1>1 DEF Exclusive, JobInv, Holding, Provisioning, Removing
  <1> QED BY <1>2, <1>3, TypeInit DEF Inv

(***************************************************************************)
(* A commit that changes the state of the row alone, and not to deleted.   *)
(***************************************************************************)
SameRow ==
    /\ conn'.state = conn.state \/ conn'.state # "deleted"
    /\ conn'.account = conn.account /\ conn'.creds = conn.creds /\ conn'.txn = conn.txn

RemovedStays == \A n \in Txns : provider[n] = "removed" => provider'[n] = "removed"

(***************************************************************************)
(* What a job relies on survives the steps of others that only touch the   *)
(* state of the connection: requests, watchers, exhausted retries.         *)
(***************************************************************************)
LEMMA Undisturbed ==
    ASSUME Inv, TypeOK', SameRow, RemovedStays, NEW u \in Workers, job'[u] = job[u]
    PROVE  JobInv(u)'
  <1>1. conn.account # 0 => conn.account \in Txns
    BY DEF Inv, TypeOK, Rows, Txns
  <1> QED BY <1>1 DEF Inv, JobInv, Current, SameRow, RemovedStays

(***************************************************************************)
(* Steps that leave the jobs and their lock alone keep Inv.                *)
(***************************************************************************)
LEMMA OutsideStep ==
    ASSUME Inv, TypeOK', SameRow, RemovedStays, UNCHANGED <<job, lock>>,
           due' # {} => due # {} \/ conn.txn > 0
    PROVE  Inv'
  <1>1. \A u \in Workers : JobInv(u)'
    BY Undisturbed
  <1>2. RowInv'
    BY DEF Inv, RowInv, DeletedIsErased, AccountOfTransaction, SameRow
  <1>3. Exclusive'
    BY DEF Inv, Exclusive
  <1> QED BY <1>1, <1>2, <1>3 DEF Inv

(***************************************************************************)
(* A step of job w that writes nothing or the state alone keeps Inv, if it *)
(* keeps what w relies on and takes the lock from nobody else.             *)
(***************************************************************************)
LEMMA JobStep ==
    ASSUME Inv, TypeOK', SameRow, RemovedStays, due' \subseteq due, NEW w \in Workers,
           \A u \in Workers : u # w => job'[u] = job[u] /\ (lock = u => lock' = u),
           JobInv(w)', job'[w].at \in Holding => lock' = w
    PROVE  Inv'
  <1>1. \A u \in Workers : JobInv(u)'
    BY Undisturbed
  <1>2. RowInv'
    BY DEF Inv, RowInv, DeletedIsErased, AccountOfTransaction, SameRow
  <1>3. Exclusive'
    BY DEF Inv, Exclusive
  <1> QED BY <1>1, <1>2, <1>3 DEF Inv

(***************************************************************************)
(* The holder of the lock may write the whole row: no other job relies on  *)
(* it.                                                                     *)
(***************************************************************************)
LEMMA HolderStep ==
    ASSUME Inv, TypeOK', conn'.txn = conn.txn, due' = due, NEW w \in Workers,
           job[w].at \in Holding, lock' = lock,
           \A u \in Workers : u # w => job'[u] = job[u],
           JobInv(w)', RowInv'
    PROVE  Inv'
  <1>0. lock = w
    BY DEF Inv, Exclusive
  <1>1. ASSUME NEW u \in Workers, u # w PROVE job[u].at \notin Holding
    BY <1>0, <1>1 DEF Inv, Exclusive
  <1>2. ASSUME NEW u \in Workers PROVE JobInv(u)'
    <2>1. CASE u = w
      BY <2>1
    <2>2. CASE u # w
      BY <1>1, <2>2 DEF Inv, JobInv, Holding, Removing
    <2> QED BY <2>1, <2>2
  <1>3. Exclusive'
    BY <1>0, <1>1 DEF Exclusive
  <1> QED BY <1>2, <1>3 DEF Inv

(***************************************************************************)
(* The user's requests keep Inv; creating anew finds no job that relies on *)
(* the deleted row.                                                        *)
(***************************************************************************)
LEMMA InvRequest == Inv /\ Request => Inv'
  <1> SUFFICES ASSUME Inv, Request PROVE Inv'
    OBVIOUS
  <1>0. TypeOK /\ TypeOK'
    BY TypeRequest DEF Inv
  <1>1. CASE CreateConnection
    <2>1. /\ conn'.state = "submitted" /\ conn'.account = 0 /\ conn'.txn = conn.txn + 1
          /\ conn.txn \in Nat /\ conn'.creds /\ UNCHANGED <<job, lock>>
      BY <1>0, <1>1 DEF CreateConnection, TypeOK, Rows
    <2>2. ASSUME NEW u \in Workers PROVE JobInv(u)'
      <3>1. job[u].at \notin Provisioning \cup Removing
        BY <1>1, <1>0 DEF CreateConnection, Inv, JobInv, Current, Provisioning, Removing,
                     TypeOK, Rows
      <3>2. job[u].at = "attach" => job[u].seen.account = 0
        BY <1>1, <1>0 DEF CreateConnection, Inv, JobInv, Current, TypeOK, Rows
      <3> QED BY <2>1, <3>1, <3>2 DEF JobInv, Removing
    <2>3. RowInv'
      BY <2>1 DEF RowInv, DeletedIsErased, AccountOfTransaction
    <2>4. Exclusive'
      BY <2>1 DEF Inv, Exclusive
    <2> QED BY <1>0, <2>2, <2>3, <2>4 DEF Inv
  <1>2. CASE RetryConnection
    <2>1. SameRow /\ RemovedStays /\ UNCHANGED <<job, lock>> /\ conn.txn > 0
      BY <1>0, <1>2 DEF RetryConnection, SameRow, RemovedStays, TypeOK, Rows
    <2> QED BY <1>0, <2>1, OutsideStep
  <1>3. CASE DeleteConnection
    <2>1. SameRow /\ RemovedStays /\ UNCHANGED <<job, lock>> /\ conn.txn > 0
      BY <1>0, <1>3 DEF DeleteConnection, SameRow, RemovedStays, TypeOK, Rows
    <2> QED BY <1>0, <2>1, OutsideStep
  <1>4. CASE ActivateRoute \/ PauseRoute \/ ResumeRoute
    <2>1. SameRow /\ RemovedStays /\ UNCHANGED <<job, lock, due>>
      BY <1>4 DEF ActivateRoute, PauseRoute, ResumeRoute, SameRow, RemovedStays, stream
    <2> QED BY <1>0, <2>1, OutsideStep
  <1> QED BY <1>1, <1>2, <1>3, <1>4 DEF Request

(***************************************************************************)
(* Reports of the watchers keep Inv: they write the state alone, and never *)
(* "deleted".                                                              *)
(***************************************************************************)
LEMMA InvWatch == ASSUME NEW v \in Watchers PROVE Inv /\ Watch(v) => Inv'
  <1> SUFFICES ASSUME Inv, Watch(v) PROVE Inv'
    OBVIOUS
  <1>0. TypeOK /\ TypeOK'
    BY TypeWatch DEF Inv
  <1>1. \A ok \in BOOLEAN : Health(ok) # "deleted"
    BY DEF Health
  <1>2. SameRow
    <2>1. CASE CommitReport(v)
      BY <1>0, <1>1, <2>1 DEF CommitReport, SameRow, TypeOK, Rows
    <2>2. CASE UNCHANGED conn
      BY <2>2 DEF SameRow
    <2> QED BY <2>1, <2>2 DEF Watch, WarmStart, ExecuteStart, WarmRead, ExecuteRead, WatchAborts,
                         database
  <1>3. RemovedStays /\ UNCHANGED <<job, lock, due>>
    BY DEF Watch, WarmStart, WarmRead, ExecuteStart, ExecuteRead, CommitReport, WatchAborts,
           RemovedStays, stream
  <1> QED BY <1>0, <1>2, <1>3, OutsideStep

(***************************************************************************)
(* A job that returns is about to release its lock.                        *)
(***************************************************************************)
LEMMA Returned ==
    ASSUME TypeOK, NEW w \in Workers, NEW r, Return(w, r)
    PROVE  job'[w].at = "release" /\ \A u \in Workers : u # w => job'[u] = job[u]
  <1> DEFINE j == [IdleJob EXCEPT !.at = "release", !.event = job[w].event, !.result = r]
  <1>1. j.at = "release"
    BY DEF IdleJob
  <1>2. job' = [job EXCEPT ![w] = j]
    BY DEF Return
  <1> HIDE DEF j
  <1> QED BY <1>1, <1>2 DEF TypeOK

(***************************************************************************)
(* Delivery, the lock, the end of a job and its death keep Inv.            *)
(***************************************************************************)
LEMMA InvDelivery ==
    ASSUME NEW w \in Workers, Inv, TypeOK',
           \/ \E e \in Events : TakeEvent(w, e)
           \/ AcquireLock(w) \/ ReleaseLock(w) \/ Settle(w) \/ Crash(w)
    PROVE  Inv'
  <1> USE DEF Inv, TypeOK, JobAt
  <1>a. \A u \in Workers : u # w => job'[u] = job[u] /\ (lock = u => lock' = u)
    BY LifecycleAssumption
       DEF TakeEvent, AcquireLock, ReleaseLock, Settle, Crash, Busy, Return, Goto, Reset
  <1>b. RemovedStays /\ due' \subseteq due
    BY DEF TakeEvent, AcquireLock, ReleaseLock, Settle, Crash, RemovedStays, stream
  <1>c. SameRow
    <2>1. CASE Settle(w)
      BY <2>1 DEF Settle, SameRow, Exhausted, Rows
    <2>2. CASE UNCHANGED conn
      BY <2>2 DEF SameRow
    <2> QED BY <2>1, <2>2 DEF TakeEvent, AcquireLock, ReleaseLock, Crash, database
  <1>d. conn.txn' = conn.txn
    BY <1>c DEF SameRow
  <1>e. /\ job'[w].at \in {"idle", "lock", "load", "release", "settle"}
        /\ job'[w].at = "load" => lock' = w
    <2>1. CASE \E e \in Events : TakeEvent(w, e)
      <3>1. \A e : [IdleJob EXCEPT !.at = "lock", !.event = e].at = "lock"
        BY DEF IdleJob
      <3>2. PICK e \in Events : TakeEvent(w, e)
        BY <2>1
      <3>3. \/ job'[w] = job[w] /\ job[w].at = "idle"
            \/ job'[w] = [IdleJob EXCEPT !.at = "lock", !.event = e]
        BY <3>2 DEF TakeEvent
      <3> QED BY <3>1, <3>3
    <2>2. CASE AcquireLock(w)
      <3>1. \A r : Return(w, r) => job'[w].at = "release"
        BY Returned
      <3>2. Goto(w, "load") => job'[w].at = "load"
        BY DEF Goto
      <3> QED BY <2>2, <3>1, <3>2 DEF AcquireLock
    <2>3. CASE ReleaseLock(w)
      BY <2>3 DEF ReleaseLock, Goto
    <2>4. CASE Settle(w) \/ Crash(w)
      BY <2>4, ConstantTypes DEF Settle, Crash, Reset
    <2> QED BY <2>1, <2>2, <2>3, <2>4
  <1>f. job'[w].at # "idle" => conn.txn > 0
    <2>1. CASE \E e \in Events : TakeEvent(w, e)
      BY <2>1 DEF TakeEvent, RowInv
    <2>2. CASE AcquireLock(w) \/ ReleaseLock(w)
      BY <2>2 DEF AcquireLock, ReleaseLock, JobInv
    <2>3. CASE Settle(w) \/ Crash(w)
      BY <2>3, ConstantTypes DEF Settle, Crash, Reset
    <2> QED BY <2>1, <2>2, <2>3
  <1>g. JobInv(w)'
    BY <1>d, <1>e, <1>f DEF JobInv, Provisioning, Removing
  <1>h. job'[w].at \in Holding => lock' = w
    BY <1>e DEF Holding, Provisioning, Removing
  <1> QED BY <1>a, <1>b, <1>c, <1>g, <1>h, JobStep

(***************************************************************************)
(* What a commit of the holder of the lock leaves: the row it saw, with    *)
(* the columns it changed, and the state it wrote or somebody else's.      *)
(***************************************************************************)
LEMMA HolderCommits ==
    ASSUME TypeOK, NEW w \in Workers, NEW new \in Rows, Current(w),
           conn' = Flush(conn, job[w].seen, new)
    PROVE  /\ conn'.account = new.account /\ conn'.creds = new.creds /\ conn'.txn = new.txn
           /\ conn'.state \in {conn.state, new.state}
           /\ new.state # job[w].seen.state => conn'.state = new.state
  <1>1. conn \in Rows /\ job[w].seen \in Rows
    BY DEF TypeOK
  <1> QED BY <1>1, FlushedRow DEF Current

(***************************************************************************)
(* Steps of a provisioning job keep Inv.                                   *)
(***************************************************************************)
LEMMA InvProvision ==
    ASSUME NEW w \in Workers, Inv, TypeOK', LoadConnection(w) \/ Provision(w)
    PROVE  Inv'
  <1> USE DEF JobAt
  <1>0. TypeOK /\ RowInv /\ JobInv(w) /\ conn \in Rows /\ job[w].seen \in Rows
    BY DEF Inv, TypeOK
  <1>1. job[w].at \in Holding
    BY DEF LoadConnection, Provision, MarkProvisioning, CreateAccepted, CreateDone,
           CreateUnanswered, SaveAccount, Deployed, Connected, ProvisionError, Attach,
           Validate, Holding, Provisioning
  <1>2. conn.txn > 0
    BY <1>0, <1>1 DEF JobInv, Holding, Provisioning, Removing
  <1>3. /\ UNCHANGED <<due, lock>>
        /\ \A u \in Workers : u # w => job'[u] = job[u]
    BY <1>0
       DEF LoadConnection, Provision, MarkProvisioning, CreateAccepted, CreateDone,
           CreateUnanswered, SaveAccount, Deployed, Connected, ProvisionError, Attach,
           Validate, CommitJob, CommitAndReturn, Goto, Return, TypeOK, stream
  <1>q. ASSUME conn'.txn = conn.txn, JobInv(w)', RowInv' PROVE Inv'
    BY <1>1, <1>3, <1>q, HolderStep
  <1>r. ASSUME job'[w].at = "release", conn'.account = conn.account,
               conn'.creds = conn.creds, conn'.txn = conn.txn,
               conn'.state = conn.state \/ conn'.state # "deleted"
        PROVE  Inv'
    <2>1. JobInv(w)'
      BY <1>2, <1>r DEF JobInv, Provisioning, Removing
    <2>2. RowInv'
      BY <1>0, <1>2, <1>r DEF RowInv, DeletedIsErased, AccountOfTransaction
    <2> QED BY <1>q, <1>r, <2>1, <2>2
  <1>s. ASSUME NEW r, Return(w, r), UNCHANGED conn PROVE Inv'
    BY <1>0, <1>r, <1>s, Returned
  <1>t. ASSUME NEW s \in ConnectionStates, s # "deleted", NEW r, Current(w),
               CommitAndReturn(w, WithState(w, s), r)
        PROVE  Inv'
    <2>1. /\ WithState(w, s) \in Rows
          /\ WithState(w, s).account = job[w].seen.account
          /\ WithState(w, s).creds = job[w].seen.creds
          /\ WithState(w, s).txn = job[w].seen.txn
          /\ WithState(w, s).state = s
      BY <1>0 DEF WithState, Rows
    <2>2. conn' = Flush(conn, job[w].seen, WithState(w, s)) /\ Return(w, r)
      BY <1>t DEF CommitAndReturn
    <2>3. /\ conn'.account = conn.account /\ conn'.creds = conn.creds /\ conn'.txn = conn.txn
          /\ conn'.state \in {conn.state, s}
      BY <1>0, <1>t, <2>1, <2>2, HolderCommits DEF Current
    <2> QED BY <1>0, <1>r, <1>t, <2>2, <2>3, Returned
  <1>u. ASSUME NEW new \in Rows, NEW where \in Provisioning, Current(w), conn.creds,
               new.creds = job[w].seen.creds, new.txn = job[w].seen.txn,
               new.account \in {job[w].seen.account, new.txn}, new.state # "deleted",
               CommitJob(w, new, where)
        PROVE  Inv'
    <2>1. /\ conn'.account = new.account /\ conn'.creds = conn.creds /\ conn'.txn = conn.txn
          /\ conn'.state # "deleted"
      BY <1>0, <1>u, HolderCommits DEF CommitJob, Current
    <2>2. job'[w].at = where /\ job'[w].seen = conn'
      BY <1>0, <1>u DEF CommitJob, TypeOK
    <2>3. JobInv(w)'
      BY <1>2, <1>u, <2>1, <2>2 DEF JobInv, Current, Provisioning, Removing
    <2>4. RowInv'
      BY <1>0, <1>2, <1>u, <2>1 DEF RowInv, DeletedIsErased, AccountOfTransaction, Current
    <2> QED BY <1>q, <2>1, <2>3, <2>4
  <1>4. CASE LoadConnection(w)
    <2>1. job'[w].seen = conn /\ UNCHANGED <<conn, provider>>
      BY <1>0, <1>4 DEF LoadConnection, TypeOK, database
    <2>2. \/ job'[w].at = "clean"
          \/ job'[w].at = "attach" /\ ~conn.creds
          \/ job'[w].at \in {"mark", "save"} /\ conn.creds
      BY <1>0, <1>4 DEF LoadConnection, TypeOK
    <2>3. conn.creds => conn.state # "deleted"
      BY <1>0 DEF RowInv, DeletedIsErased
    <2>4. ~conn.creds => conn.account = 0
      BY <1>0 DEF RowInv
    <2>5. JobInv(w)'
      BY <1>2, <2>1, <2>2, <2>3, <2>4 DEF JobInv, Current, Provisioning, Removing
    <2>6. RowInv'
      BY <1>0, <1>2, <2>1 DEF RowInv, DeletedIsErased, AccountOfTransaction
    <2> QED BY <1>q, <2>1, <2>5, <2>6
  <1>5. job[w].at \in Provisioning => Current(w) /\ conn.creds
    BY <1>0 DEF JobInv
  <1>w. ASSUME NEW s \in ConnectionStates
        PROVE  /\ WithState(w, s) \in Rows
               /\ WithState(w, s).account = job[w].seen.account
               /\ WithState(w, s).creds = job[w].seen.creds
               /\ WithState(w, s).txn = job[w].seen.txn
               /\ WithState(w, s).state = s
    BY <1>0 DEF WithState, Rows
  <1>6. CASE MarkProvisioning(w)
    BY <1>5, <1>6, <1>u, <1>w DEF MarkProvisioning, Provisioning, ConnectionStates
  <1>7. CASE CreateAccepted(w)
    BY <1>7, <1>s DEF CreateAccepted, database
  <1>8. CASE CreateDone(w)
    <2>1. job'[w].at = "save" /\ job'[w].seen = job[w].seen /\ UNCHANGED conn
      BY <1>0, <1>8 DEF CreateDone, Goto, TypeOK, database
    <2>2. JobInv(w)'
      BY <1>2, <1>5, <1>8, <2>1 DEF CreateDone, JobInv, Current, Provisioning, Removing
    <2>3. RowInv'
      BY <1>0, <1>2, <2>1 DEF RowInv, DeletedIsErased, AccountOfTransaction
    <2> QED BY <1>q, <2>1, <2>2, <2>3
  <1>9. CASE CreateUnanswered(w)
    BY <1>5, <1>9, <1>t DEF CreateUnanswered, Provisioning, ConnectionStates
  <1>10. CASE SaveAccount(w)
    <2> DEFINE seen == job[w].seen
               new == [seen EXCEPT !.account = IF seen.account = 0 THEN seen.txn ELSE seen.account,
                                   !.state = "deploying"]
    <2>1. /\ new \in Rows /\ new.creds = seen.creds /\ new.txn = seen.txn
          /\ new.account \in {seen.account, new.txn} /\ new.state # "deleted"
      BY <1>0 DEF Rows, ConnectionStates
    <2>2. CommitJob(w, new, "deploy") /\ job[w].at = "save"
      BY <1>10 DEF SaveAccount
    <2> HIDE DEF new
    <2> QED BY <1>5, <1>u, <2>1, <2>2 DEF Provisioning
  <1>11. CASE Deployed(w)
    BY <1>5, <1>11, <1>u, <1>w DEF Deployed, Provisioning, ConnectionStates
  <1>12. CASE Connected(w)
    <2>1. /\ conn'.state = "synchronizing" /\ conn'.account = conn.account
          /\ conn'.creds = conn.creds /\ conn'.txn = conn.txn
      BY <1>0, <1>12 DEF Connected, Rows
    <2>2. job'[w].at = "attach" /\ job'[w].seen = conn'
      BY <1>0, <1>12 DEF Connected, TypeOK
    <2>3. JobInv(w)'
      BY <1>2, <2>1, <2>2 DEF JobInv, Current, Provisioning, Removing
    <2>4. RowInv'
      BY <1>0, <1>2, <2>1 DEF RowInv, DeletedIsErased, AccountOfTransaction
    <2> QED BY <1>q, <2>1, <2>3, <2>4
  <1>13. CASE Attach(w)
    <2>1. CASE Goto(w, "validate") /\ job[w].seen.account # 0
      <3>1. job'[w].at = "validate" /\ job'[w].seen = job[w].seen /\ UNCHANGED conn
        BY <1>0, <1>13, <2>1 DEF Attach, Goto, TypeOK, database
      <3>2. Current(w) /\ conn.creds
        BY <1>0, <1>13, <2>1 DEF Attach, JobInv, Current, RowInv
      <3>3. JobInv(w)'
        BY <1>2, <3>1, <3>2 DEF JobInv, Current, Provisioning, Removing
      <3>4. RowInv'
        BY <1>0, <1>2, <3>1 DEF RowInv, DeletedIsErased, AccountOfTransaction
      <3> QED BY <1>q, <3>1, <3>3, <3>4
    <2> QED BY <1>13, <1>s, <2>1 DEF Attach, database
  <1>14. ASSUME NEW s \in {"failed", "disconnected"}, NEW r \in {"success", "retry"},
                ProvisionError(w, s, r)
         PROVE  Inv'
    BY <1>5, <1>14, <1>t DEF ProvisionError, Provisioning, ConnectionStates
  <1>15. ASSUME NEW s \in {"ready", "failed"}, Validate(w, s) PROVE Inv'
    BY <1>5, <1>15, <1>t DEF Validate, Provisioning, ConnectionStates
  <1> QED BY <1>4, <1>6, <1>7, <1>8, <1>9, <1>10, <1>11, <1>12, <1>13, <1>14, <1>15
          DEF Provision

(***************************************************************************)
(* Steps of a cleanup job keep Inv.                                        *)
(***************************************************************************)
LEMMA InvCleanup ==
    ASSUME NEW w \in Workers, Inv, TypeOK', Cleanup(w)
    PROVE  Inv'
  <1> USE DEF JobAt
  <1>0. TypeOK /\ RowInv /\ JobInv(w) /\ conn \in Rows /\ job[w].seen \in Rows
    BY DEF Inv, TypeOK
  <1>1. job[w].at \in Holding /\ conn.txn > 0
    BY <1>0 DEF Cleanup, CloseFails, MarkDeleting, RemoveAccount, EraseConnection, Holding,
                Removing, JobInv
  <1>2. /\ UNCHANGED <<due, lock>>
        /\ \A u \in Workers : u # w => job'[u] = job[u]
    BY <1>0 DEF Cleanup, CloseFails, MarkDeleting, RemoveAccount, EraseConnection,
                CommitJob, CommitAndReturn, Goto, Return, TypeOK, stream
  <1>3. ASSUME conn'.txn = conn.txn, JobInv(w)', RowInv' PROVE Inv'
    BY <1>1, <1>2, <1>3, HolderStep
  <1>4. ASSUME NEW r, Return(w, r), UNCHANGED conn PROVE Inv'
    <2>1. JobInv(w)'
      BY <1>0, <1>1, <1>4, Returned DEF JobInv, Provisioning, Removing
    <2>2. RowInv'
      BY <1>0, <1>1, <1>4 DEF RowInv, DeletedIsErased, AccountOfTransaction
    <2> QED BY <1>3, <1>4, <2>1, <2>2
  <1>5. CASE CloseFails(w)
    BY <1>4, <1>5 DEF CloseFails, database
  <1>6. CASE MarkDeleting(w)
    <2> DEFINE new == WithState(w, "deleting")
    <2>1. /\ new \in Rows /\ new.account = job[w].seen.account
          /\ new.creds = job[w].seen.creds /\ new.txn = job[w].seen.txn
          /\ new.state = "deleting"
      BY <1>0 DEF WithState, Rows, ConnectionStates
    <2>2. conn' = Flush(conn, job[w].seen, new)
      BY <1>6 DEF MarkDeleting, CommitJob
    <2>3. /\ conn'.account = conn.account /\ conn'.creds = conn.creds /\ conn'.txn = conn.txn
          /\ conn'.state = IF job[w].seen.state = "deleting" THEN conn.state ELSE "deleting"
      BY <1>0, <2>1, <2>2, FlushedRow
    <2>4. conn'.state # "deleted"
      BY <1>0, <1>6, <2>3 DEF MarkDeleting, JobInv
    <2>5. job'[w].at = "remove" /\ job'[w].seen = conn'
      BY <1>0, <1>6 DEF MarkDeleting, CommitJob, TypeOK
    <2>6. JobInv(w)'
      BY <1>1, <2>3, <2>4, <2>5 DEF JobInv, Current, Provisioning, Removing
    <2>7. RowInv'
      BY <1>0, <1>1, <2>3, <2>4 DEF RowInv, DeletedIsErased, AccountOfTransaction
    <2> QED BY <1>3, <2>3, <2>6, <2>7
  <1>7. CASE RemoveAccount(w)
    <2>1. CASE Goto(w, "erase")
      <3>1. job'[w].at = "erase" /\ job'[w].seen = job[w].seen /\ UNCHANGED conn
        BY <1>0, <1>7, <2>1 DEF RemoveAccount, Goto, TypeOK, database
      <3>2. Current(w) /\ job[w].seen.state # "deleted"
        BY <1>0, <1>7 DEF RemoveAccount, JobInv, Removing
      <3>3. conn.account # 0 => provider'[conn.account] = "removed"
        <4>1. ASSUME conn.account # 0 PROVE provider'[conn.account] = "removed"
          <5>1. job[w].seen.account = conn.account /\ conn.account \in Txns
            BY <1>0, <3>2, <4>1 DEF Current, Rows, Txns
          <5>2. \A r : ~Return(w, r)
            BY <1>0, <3>1, Returned
          <5> QED BY <1>0, <1>7, <4>1, <5>1, <5>2 DEF RemoveAccount, TypeOK
        <4> QED BY <4>1
      <3>4. JobInv(w)'
        BY <1>1, <3>1, <3>2, <3>3 DEF JobInv, Current, Provisioning, Removing
      <3>5. RowInv'
        BY <1>0, <1>1, <3>1 DEF RowInv, DeletedIsErased, AccountOfTransaction
      <3> QED BY <1>3, <3>1, <3>4, <3>5
    <2> QED BY <1>4, <1>7, <2>1 DEF RemoveAccount, database
  <1>8. CASE EraseConnection(w)
    <2> DEFINE new == Erased(job[w].seen)
    <2>1. Current(w) /\ job[w].seen.state # "deleted"
      BY <1>0, <1>8 DEF EraseConnection, JobInv, Removing
    <2>2. /\ new \in Rows /\ new.account = 0 /\ ~new.creds /\ new.state = "deleted"
          /\ new.txn = job[w].seen.txn
      BY <1>0, ErasedRow DEF Erased
    <2>3. conn' = Flush(conn, job[w].seen, new) /\ Return(w, "success")
      BY <1>8 DEF EraseConnection, CommitAndReturn
    <2> HIDE DEF new
    <2>4. conn'.account = 0 /\ ~conn'.creds /\ conn'.txn = conn.txn
      BY <1>0, <2>1, <2>2, <2>3, HolderCommits DEF Current
    <2>5. RowInv'
      BY <1>1, <2>4 DEF RowInv, DeletedIsErased, AccountOfTransaction
    <2>6. JobInv(w)'
      BY <1>0, <1>1, <2>3, <2>4, Returned DEF JobInv, Provisioning, Removing
    <2> QED BY <1>3, <2>4, <2>5, <2>6
  <1> QED BY <1>5, <1>6, <1>7, <1>8 DEF Cleanup

(***************************************************************************)
(* Every step keeps Inv, if no job outlives its lock.                      *)
(***************************************************************************)
LEMMA InvNext == ASSUME ~LeaseOverrun PROVE Inv /\ [Next]_vars => Inv'
  <1> SUFFICES ASSUME Inv, [Next]_vars PROVE Inv'
    OBVIOUS
  <1>0. TypeOK'
    BY TypeNext DEF Inv
  <1>1. ASSUME NEW w \in Workers, Job(w) \/ Crash(w) PROVE Inv'
    BY <1>0, <1>1, InvDelivery, InvProvision, InvCleanup DEF Job
  <1>2. ASSUME NEW w \in Workers, NEW e \in Events, TakeEvent(w, e) PROVE Inv'
    BY <1>0, <1>2, InvDelivery
  <1>3. ASSUME NEW n \in Txns, ProviderFinishes(n) PROVE Inv'
    <2>1. SameRow /\ RemovedStays /\ UNCHANGED <<job, lock, due>>
      BY <1>3 DEF ProviderFinishes, SameRow, RemovedStays, Inv, TypeOK, database, stream
    <2> QED BY <1>0, <2>1, OutsideStep
  <1>4. CASE LeaseExpires
    <2>1. lock = Orphan /\ UNCHANGED <<conn, provider, due, job>>
      BY <1>4 DEF LeaseExpires, database, stream
    <2>2. Exclusive'
      BY <2>1, LifecycleAssumption DEF Inv, Exclusive
    <2>3. RowInv' /\ \A w \in Workers : JobInv(w)'
      BY <2>1 DEF Inv, RowInv, DeletedIsErased, AccountOfTransaction, JobInv, Current
    <2> QED BY <1>0, <2>2, <2>3 DEF Inv
  <1>5. CASE UNCHANGED vars
    <2>1. SameRow /\ RemovedStays /\ UNCHANGED <<job, lock, due>>
      BY <1>5 DEF vars, SameRow, RemovedStays, database, stream
    <2> QED BY <1>0, <2>1, OutsideStep
  <1> QED BY <1>1, <1>2, <1>3, <1>4, <1>5, InvRequest, InvWatch DEF Next

(***************************************************************************)
(* Inv is an invariant.                                                    *)
(***************************************************************************)
LEMMA InvariantHolds == ASSUME ~LeaseOverrun PROVE Safety => []Inv
  BY InvInit, InvNext, PTL DEF Safety

(***************************************************************************)
(* As long as no job outlives its lock, a deleted connection keeps neither *)
(* password nor account, whatever users, jobs, watchers and crashes do.    *)
(***************************************************************************)
THEOREM DeletedIsErasedHolds == ASSUME ~LeaseOverrun PROVE Safety => []DeletedIsErased
  <1>1. Inv => DeletedIsErased
    BY DEF Inv, RowInv
  <1> QED BY <1>1, InvariantHolds, PTL

(***************************************************************************)
(* As long as no job outlives its lock, the row never names the account of *)
(* an earlier transaction.                                                 *)
(***************************************************************************)
THEOREM AccountOfTransactionHolds ==
    ASSUME ~LeaseOverrun PROVE Safety => []AccountOfTransaction
  <1>1. Inv => AccountOfTransaction
    BY DEF Inv, RowInv
  <1> QED BY <1>1, InvariantHolds, PTL

(***************************************************************************)
(* As long as no job outlives its lock, the row never forgets an account   *)
(* that MetaApi has not removed.                                           *)
(***************************************************************************)
THEOREM NoAccountForgottenHolds ==
    ASSUME ~LeaseOverrun PROVE Safety => NoAccountForgotten
  <1>1. Inv /\ [Next]_vars =>
          [conn.account # 0 /\ conn'.account # conn.account
             => provider[conn.account] = "removed"]_vars
    <2> SUFFICES ASSUME Inv, Next, conn.account # 0, conn'.account # conn.account
                 PROVE  provider[conn.account] = "removed"
      BY DEF vars
    <2>0. TypeOK /\ RowInv /\ conn \in Rows
      BY DEF Inv, TypeOK
    <2>1. CASE Request
      BY <2>0, <2>1 DEF Request, CreateConnection, RetryConnection, DeleteConnection,
                   ActivateRoute, PauseRoute, ResumeRoute, RowInv, DeletedIsErased, Rows,
                   AccountOfTransaction
    <2>2. ASSUME NEW v \in Watchers, Watch(v) PROVE FALSE
      BY <2>0, <2>2 DEF Watch, WarmStart, WarmRead, ExecuteStart, ExecuteRead, CommitReport,
                   WatchAborts, Rows, database
    <2>3. ASSUME NEW w \in Workers, Job(w) PROVE provider[conn.account] = "removed"
      <3> USE DEF JobAt
      <3>0. JobInv(w) /\ job[w].seen \in Rows
        BY DEF Inv, TypeOK
      <3>1. CASE EraseConnection(w)
        BY <3>0, <3>1 DEF EraseConnection, JobInv
      <3>2. ASSUME NEW s \in ConnectionStates, conn' = Flush(conn, job[w].seen, WithState(w, s))
            PROVE  FALSE
        <4>1. WithState(w, s) \in Rows /\ WithState(w, s).account = job[w].seen.account
          BY <3>0 DEF WithState, Rows
        <4> QED BY <2>0, <3>0, <3>2, <4>1, FlushedRow
      <3>3. ~UNCHANGED conn
        OBVIOUS
      <3>4. ~SaveAccount(w)
        <4> SUFFICES ASSUME SaveAccount(w) PROVE FALSE
          OBVIOUS
        <4> DEFINE seen == job[w].seen
                   new == [seen EXCEPT !.account = IF seen.account = 0 THEN seen.txn
                                                   ELSE seen.account,
                                       !.state = "deploying"]
        <4>1. seen.account = conn.account
          BY <3>0 DEF SaveAccount, JobInv, Current, Provisioning
        <4>2. new \in Rows /\ new.account = seen.account
          BY <3>0, <4>1 DEF Rows, ConnectionStates
        <4>3. conn' = Flush(conn, seen, new)
          BY DEF SaveAccount, CommitJob
        <4> HIDE DEF new
        <4> QED BY <2>0, <3>0, <4>2, <4>3, FlushedRow
      <3>5. ~Connected(w) /\ ~Settle(w)
        BY <2>0 DEF Connected, Settle, Exhausted, Rows
      <3>6. /\ ~MarkProvisioning(w) /\ ~CreateUnanswered(w) /\ ~Deployed(w) /\ ~MarkDeleting(w)
            /\ \A s \in {"ready", "failed"} : ~Validate(w, s)
            /\ \A s \in {"failed", "disconnected"}, r \in {"success", "retry"} :
                  ~ProvisionError(w, s, r)
        BY <3>2 DEF MarkProvisioning, CreateUnanswered, Deployed, MarkDeleting, Validate,
               ProvisionError, CommitJob, CommitAndReturn, ConnectionStates
      <3> QED BY <2>3, <3>1, <3>3, <3>4, <3>5, <3>6
              DEF Job, AcquireLock, LoadConnection, Provision, CreateAccepted, CreateDone,
                  Attach, Cleanup, CloseFails, RemoveAccount, ReleaseLock, database
    <2> QED BY <2>1, <2>2, <2>3
            DEF Next, Crash, TakeEvent, ProviderFinishes, LeaseExpires, database
  <1> QED BY <1>1, InvariantHolds, PTL DEF Safety, NoAccountForgotten
-----------------------------------------------------------------------------
(***************************************************************************)
(* The routes.  A connection without a route keeps the row NewRoute, and   *)
(* no report selects it.  A report that has selected the route while its   *)
(* user has stopped it came too late for the stop, or one before it did.   *)
(***************************************************************************)
PendingIsLate ==
    \A v \in Watchers : watch[v].hit => \/ wanted \/ overturned
                                        \/ watch[v].late

RouteIsWanted ==
    /\ ActiveIsWanted /\ PendingIsLate
    /\ ~HasRoute => route = NewRoute /\ \A v \in Watchers : ~watch[v].hit

(***************************************************************************)
(* A request changes the route and the user's last word together, and the  *)
(* reports on their way come late.                                         *)
(***************************************************************************)
LEMMA RequestIsWanted == TypeOK /\ RouteIsWanted /\ Request => RouteIsWanted'
  <1> SUFFICES ASSUME TypeOK, RouteIsWanted, Request PROVE RouteIsWanted'
    OBVIOUS
  <1> USE DEF RouteIsWanted, ActiveIsWanted, PendingIsLate, NewRoute
  <1>1. CASE CreateConnection \/ RetryConnection
    BY <1>1 DEF CreateConnection, RetryConnection
  <1>2. CASE DeleteConnection
    <2>1. Word(FALSE) /\ route' = (IF HasRoute THEN Paused(route) ELSE route)
      BY <1>2 DEF DeleteConnection
    <2>2. /\ ~wanted' /\ ~overturned'
          /\ \A v \in Watchers : /\ watch'[v].hit = watch[v].hit
                                /\ watch'[v].late = (~FALSE /\ watch[v].hit)
      BY <2>1, WordFacts
    <2>3. route'.state \notin {"active", "unavailable"} /\ (~HasRoute => route' = NewRoute)
      BY <2>1 DEF Paused
    <2>4. PendingIsLate'
      BY <2>2
    <2> QED BY <2>2, <2>3, <2>4
  <1>3. CASE ActivateRoute
    <2>1. Word(TRUE) /\ HasRoute
      BY <1>3 DEF ActivateRoute
    <2> QED BY <2>1, WordFacts
  <1>4. CASE PauseRoute
    <2>1. Word(FALSE) /\ HasRoute /\ route' = Paused(route)
      BY <1>4 DEF PauseRoute
    <2> QED BY <2>1, WordFacts DEF Paused
  <1>5. CASE ResumeRoute
    <2>1. Word(TRUE) /\ route.state = "paused"
      BY <1>5 DEF ResumeRoute
    <2>2. HasRoute
      BY <2>1
    <2> QED BY <2>1, <2>2, WordFacts
  <1> QED BY <1>1, <1>2, <1>3, <1>4, <1>5 DEF Request

(***************************************************************************)
(* The watchers keep RouteIsWanted: a report selects a route that runs,    *)
(* and changes a route that it has selected.                               *)
(***************************************************************************)
LEMMA WatchIsWanted ==
    ASSUME NEW v \in Watchers, TypeOK, RouteIsWanted, Watch(v)
    PROVE  RouteIsWanted'
  <1> PICK r : r = watch[v]
    OBVIOUS
  <1>0. r \in WatchType /\ wanted \in BOOLEAN /\ overturned \in BOOLEAN
        /\ watch \in [Watchers -> WatchType]
    BY DEF TypeOK, WatchType
  <1>1. \A u \in Watchers : u # v => watch'[u] = watch[u]
    BY <1>0 DEF Watch, WarmStart, ExecuteStart, WarmRead, ExecuteRead, CommitReport, WatchAborts
  <1>2. CASE CommitReport(v)
    <2>1. ~watch'[v].hit /\ wanted' = wanted
      BY <1>0, <1>2 DEF CommitReport, IdleWatch
    <2>2. overturned' = (overturned \/ (r.hit /\ r.late))
      BY <1>2 DEF CommitReport
    <2>3. r.hit \/ route' = route
      BY <1>2 DEF CommitReport
    <2>4. r.hit => wanted \/ overturned'
      BY <2>2 DEF RouteIsWanted, PendingIsLate
    <2>5. ActiveIsWanted'
      BY <2>1, <2>2, <2>3, <2>4 DEF RouteIsWanted, ActiveIsWanted
    <2>6. PendingIsLate'
      BY <1>1, <2>1, <2>2 DEF RouteIsWanted, PendingIsLate
    <2>7. (~HasRoute => route = NewRoute /\ \A u \in Watchers : ~watch[u].hit)'
      BY <1>1, <2>1, <2>3 DEF RouteIsWanted, NewRoute
    <2> QED BY <2>5, <2>6, <2>7 DEF RouteIsWanted
  <1>3. CASE ~CommitReport(v)
    <2>1. UNCHANGED <<route, wanted, overturned>>
      BY <1>3 DEF Watch, WarmStart, ExecuteStart, WarmRead, ExecuteRead, WatchAborts, database
    <2>2. \/ ~watch'[v].hit
          \/ watch'[v].hit /\ Selected(r.ok)
          \/ watch'[v].hit = r.hit /\ watch'[v].late = r.late
      <3>1. CASE WarmStart(v, TRUE) \/ WarmStart(v, FALSE)
        BY <1>0, <3>1 DEF WarmStart, WatchType
      <3>2. CASE ExecuteStart(v, TRUE) \/ ExecuteStart(v, FALSE)
        BY <1>0, <3>2 DEF ExecuteStart, IdleWatch
      <3>3. CASE WarmRead(v)
        BY <1>0, <3>3 DEF WarmRead, Selected
      <3>4. CASE ExecuteRead(v)
        BY <1>0, <3>4 DEF ExecuteRead, WatchType, Selected
      <3>5. CASE WatchAborts(v)
        BY <1>0, <3>5 DEF WatchAborts, IdleWatch
      <3> QED BY <1>3, <3>1, <3>2, <3>3, <3>4, <3>5 DEF Watch
    <2>3. Selected(r.ok) => route.state \in {"active", "unavailable"}
      BY DEF Selected
    <2>4. PendingIsLate'
      BY <1>1, <2>1, <2>2, <2>3 DEF RouteIsWanted, PendingIsLate, ActiveIsWanted
    <2>5. (~HasRoute => route = NewRoute /\ \A u \in Watchers : ~watch[u].hit)'
      BY <1>1, <2>1, <2>2, <2>3 DEF RouteIsWanted, NewRoute
    <2> QED BY <2>1, <2>4, <2>5 DEF RouteIsWanted, ActiveIsWanted
  <1> QED BY <1>2, <1>3

(***************************************************************************)
(* The jobs leave the route, the watchers and the user's last word alone.  *)
(***************************************************************************)
LEMMA JobKeepsRoute ==
    ASSUME NEW w \in Workers, Job(w) \/ Crash(w)
    PROVE  UNCHANGED <<route, watch, wanted, overturned>>
  <1>1. CASE Provision(w)
    BY <1>1 DEF Provision, MarkProvisioning, CreateAccepted, CreateDone, CreateUnanswered,
       SaveAccount, Deployed, Connected, Attach, ProvisionError, Validate, database
  <1>2. CASE Cleanup(w)
    BY <1>2 DEF Cleanup, CloseFails, MarkDeleting, RemoveAccount, EraseConnection, database
  <1>3. CASE AcquireLock(w) \/ LoadConnection(w) \/ ReleaseLock(w) \/ Settle(w) \/ Crash(w)
    BY <1>3 DEF AcquireLock, LoadConnection, ReleaseLock, Settle, Crash, database
  <1> QED BY <1>1, <1>2, <1>3 DEF Job

(***************************************************************************)
(* For any number of watchers and jobs, a route copies against its user's  *)
(* word only once a report that mark_routes_target_unavailable or          *)
(* restore_routes_after_target_recovery had selected before the stop was   *)
(* committed after it: a report selected later does not start the route.   *)
(***************************************************************************)
THEOREM ActiveIsWantedHolds == Safety => []ActiveIsWanted
  <1>1. Init => RouteIsWanted
    BY DEF Init, RouteIsWanted, ActiveIsWanted, PendingIsLate, NewRoute, IdleWatch
  <1>2. TypeOK /\ RouteIsWanted /\ [Next]_vars => RouteIsWanted'
    <2> SUFFICES ASSUME TypeOK, RouteIsWanted, [Next]_vars PROVE RouteIsWanted'
      OBVIOUS
    <2>1. CASE Request
      BY <2>1, RequestIsWanted
    <2>2. CASE \E w \in Workers : Job(w) \/ Crash(w)
      BY <2>2, JobKeepsRoute DEF RouteIsWanted, ActiveIsWanted, PendingIsLate
    <2>3. CASE \E v \in Watchers : Watch(v)
      BY <2>3, WatchIsWanted
    <2>4. CASE \/ \E w \in Workers, e \in Events : TakeEvent(w, e)
               \/ \E n \in Txns : ProviderFinishes(n)
               \/ LeaseExpires \/ UNCHANGED vars
      BY <2>4 DEF TakeEvent, ProviderFinishes, LeaseExpires, vars, database,
         RouteIsWanted, ActiveIsWanted, PendingIsLate
    <2> QED BY <2>1, <2>2, <2>3, <2>4 DEF Next
  <1>3. RouteIsWanted => ActiveIsWanted
    BY DEF RouteIsWanted
  <1> QED BY <1>1, <1>2, <1>3, TypeCorrect, PTL DEF Safety
=============================================================================
