------------------------ MODULE IntentExecutionProofs ------------------------
(***************************************************************************)
(* Proofs about IntentExecution, for any intents, threads, limits and      *)
(* number of crashes.                                                      *)
(***************************************************************************)
EXTENDS IntentExecution, FiniteSetTheorems, TLAPS

Steps == ExecuteSteps \cup ReconcileSteps \cup {"finish"}

ThreadRecords ==
    [at : Steps, event : Events, tries : {0, 1}, on : BOOLEAN, copied : BOOLEAN,
     result : {"none", "success", "retry"}]
-----------------------------------------------------------------------------
(***************************************************************************)
(* What a thread that is not idle looks like, and whose intent it has.     *)
(***************************************************************************)
LEMMA BusyThread ==
    ASSUME TypeOK, NEW t \in Threads, thread[t].at # "idle"
    PROVE  /\ thread[t] \in ThreadRecords /\ thread[t].event \in Events
           /\ Intent(t) \in Intents /\ thread[t] # Idle
<1>1. thread[t] \in ThreadRecords
  BY DEF TypeOK, Idle, ThreadRecords, Steps
<1> QED
  BY <1>1 DEF ThreadRecords, Events, Intent, Idle

\* "idle" is no step.
LEMMA StepsAreBusy == "idle" \notin Steps
BY DEF Steps, ExecuteSteps, ReconcileSteps

(***************************************************************************)
(* What Goto, Answer and Clear do to the threads.                          *)
(***************************************************************************)
LEMMA GotoFacts ==
    ASSUME TypeOK, NEW t \in Threads, thread[t].at # "idle", NEW s \in Steps, Goto(t, s)
    PROVE  /\ thread' \in [Threads -> {Idle} \cup ThreadRecords]
           /\ thread'[t].at = s /\ thread'[t].event = thread[t].event
           /\ \A u \in Threads : u # t => thread'[u] = thread[u]
<1> PICK r : r = [thread[t] EXCEPT !.at = s]
  OBVIOUS
<1>1. r \in ThreadRecords /\ r.at = s /\ r.event = thread[t].event
  BY BusyThread DEF ThreadRecords
<1>2. thread' = [thread EXCEPT ![t] = r]
  BY DEF Goto
<1> QED
  BY <1>1, <1>2 DEF TypeOK, ThreadRecords, Steps

\* Answer ends the handler with a result.
LEMMA AnswerFacts ==
    ASSUME TypeOK, NEW t \in Threads, thread[t].at # "idle",
           NEW x \in {"success", "retry"}, Answer(t, x)
    PROVE  /\ thread' \in [Threads -> {Idle} \cup ThreadRecords]
           /\ thread'[t].at = "finish" /\ thread'[t].event = thread[t].event
           /\ \A u \in Threads : u # t => thread'[u] = thread[u]
<1> PICK r : r = [thread[t] EXCEPT !.at = "finish", !.result = x]
  OBVIOUS
<1>1. r \in ThreadRecords /\ r.at = "finish" /\ r.event = thread[t].event
  BY BusyThread DEF ThreadRecords, Steps
<1>2. thread' = [thread EXCEPT ![t] = r]
  BY DEF Answer
<1> QED
  BY <1>1, <1>2 DEF TypeOK, ThreadRecords, Steps

\* Clear makes the thread idle.
LEMMA ClearFacts ==
    ASSUME TypeOK, NEW t \in Threads, Clear(t)
    PROVE  /\ thread' \in [Threads -> {Idle} \cup ThreadRecords]
           /\ thread'[t] = Idle
           /\ \A u \in Threads : u # t => thread'[u] = thread[u]
BY DEF TypeOK, Clear, ThreadRecords, Steps

\* SetState changes one intent.
LEMMA SetStateFacts ==
    ASSUME TypeOK, NEW i \in Intents, NEW s \in States, SetState(i, s)
    PROVE  /\ state' \in [Intents -> States] /\ state'[i] = s
           /\ \A j \in Intents : j # i => state'[j] = state[j]
BY DEF TypeOK, SetState
-----------------------------------------------------------------------------
(***************************************************************************)
(* Types survive the steps of intent.execute.                              *)
(***************************************************************************)
LEMMA ExecuteTypes ==
    ASSUME NEW t \in Threads, TypeOK, Execute(t) PROVE TypeOK'
<1>1. thread[t].at # "idle"
  BY DEF Execute, Load, LoadWithoutSubscription, AcquireLock, LockTimeout, Guard, Unavailable,
         Connect, QualityAccepted, QualityRefused, Submit, CallAccepted, CallRejected,
         CallUnanswered, Confirm, Reject, Unsure, PublishReconcile, At
<1>2. thread[t] \in ThreadRecords /\ Intent(t) \in Intents
  BY <1>1, BusyThread
<1> USE <1>1, <1>2
<1> PICK i \in Intents : i = Intent(t)
  OBVIOUS
<1>3. /\ {"failed", "retryable", "submitted", "confirmed", "uncertain"} \subseteq States
      /\ {"lock", "guard", "connect", "quality", "submit", "call", "confirm", "reject",
          "unsure", "publish"} \subseteq Steps
  BY DEF States, Steps, ExecuteSteps
<1>4. CASE Load(t)
  <2>1. thread' \in [Threads -> {Idle} \cup ThreadRecords]
    <3>1. CASE Answer(t, "retry") \/ Answer(t, "success")
      BY <3>1, AnswerFacts
    <3>2. CASE thread' = [thread EXCEPT ![t].at = "lock", ![t].tries = tries[Intent(t)],
                                         ![t].on = routeOn]
      <4> PICK r : r = [thread[t] EXCEPT !.at = "lock", !.tries = tries[i], !.on = routeOn]
        OBVIOUS
      <4>1. r \in ThreadRecords
        BY <1>3 DEF ThreadRecords, TypeOK
      <4> QED
        BY <3>2, <4>1 DEF TypeOK, ThreadRecords, Steps
    <3> QED
      BY <1>4, <3>1, <3>2 DEF Load
  <2> QED
    BY <1>4, <2>1 DEF Load, TypeOK, ThreadRecords, Steps, database, broker, stream
<1>5. CASE LoadWithoutSubscription(t)
  BY <1>3, <1>5, AnswerFacts, SetStateFacts
     DEF LoadWithoutSubscription, TypeOK, ThreadRecords, Steps, broker, stream
<1>6. CASE AcquireLock(t)
  BY <1>3, <1>6, GotoFacts DEF AcquireLock, TypeOK, ThreadRecords, Steps, database, broker, stream
<1>7. CASE LockTimeout(t)
  BY <1>7, AnswerFacts DEF LockTimeout, TypeOK, ThreadRecords, Steps, database, broker, stream
<1>8. CASE Guard(t)
  BY <1>3, <1>8, AnswerFacts, GotoFacts, SetStateFacts
     DEF Guard, TypeOK, ThreadRecords, Steps, broker, stream
<1>9. CASE Unavailable(t)
  BY <1>9, AnswerFacts DEF Unavailable, TypeOK, ThreadRecords, Steps, database, broker, stream
<1>10. CASE Connect(t)
  BY <1>3, <1>10, GotoFacts DEF Connect, TypeOK, ThreadRecords, Steps, database, broker, stream
<1>11. CASE QualityAccepted(t)
  BY <1>3, <1>11, GotoFacts DEF QualityAccepted, TypeOK, ThreadRecords, Steps, database, broker, stream
<1>12. ASSUME NEW b \in BOOLEAN, QualityRefused(t, b) PROVE TypeOK'
  <2>1. tries' \in [Intents -> {0, 1}]
    BY <1>12 DEF QualityRefused, TypeOK
  <2>2. state' \in [Intents -> States] /\ thread' \in [Threads -> {Idle} \cup ThreadRecords]
    BY <1>3, <1>12, AnswerFacts, SetStateFacts DEF QualityRefused
  <2> QED
    BY <1>12, <2>1, <2>2 DEF QualityRefused, TypeOK, ThreadRecords, Steps, broker, stream
<1>13. CASE Submit(t)
  <2>1. /\ state' \in [Intents -> States] /\ tries' \in [Intents -> {0, 1}]
        /\ thread' \in [Threads -> {Idle} \cup ThreadRecords]
    <3>1. CASE SetState(i, "failed") /\ Answer(t, "success") /\ UNCHANGED tries
      BY <1>3, <3>1, AnswerFacts, SetStateFacts DEF TypeOK
    <3>2. CASE /\ SetState(i, "submitted")
               /\ tries' = [tries EXCEPT ![i] = 1]
               /\ thread' = [thread EXCEPT ![t].at = "call", ![t].copied = SelectTrade(i)]
      <4> PICK r : r = [thread[t] EXCEPT !.at = "call", !.copied = SelectTrade(i)]
        OBVIOUS
      <4>1. SelectTrade(i) \in BOOLEAN
        BY DEF SelectTrade
      <4>2. r \in ThreadRecords
        BY <1>3, <4>1 DEF ThreadRecords
      <4>3. thread' \in [Threads -> {Idle} \cup ThreadRecords]
        BY <3>2, <4>2 DEF TypeOK, ThreadRecords, Steps
      <4> QED
        BY <1>3, <3>2, <4>3, SetStateFacts DEF TypeOK
    <3> QED
      BY <1>13, <3>1, <3>2 DEF Submit
  <2> QED
    BY <1>13, <2>1 DEF Submit, TypeOK, ThreadRecords, Steps, broker, stream
<1>14. BrokerApplies(i) => sent' \in [Intents -> Nat] /\ live' \in [Opens -> Nat]
  <2> SUFFICES ASSUME BrokerApplies(i)
               PROVE  sent' \in [Intents -> Nat] /\ live' \in [Opens -> Nat]
    OBVIOUS
  <2>1. sent' \in [Intents -> Nat]
    BY DEF BrokerApplies, TypeOK
  <2>2. CASE i \in Opens
    BY <2>1, <2>2 DEF BrokerApplies, TypeOK
  <2>3. CASE i \notin Opens
    <3>1. i \in Closes /\ Target[i] \in Opens /\ live[Target[i]] \in Nat \ {0}
      BY <2>3, ExecutionAssumption DEF BrokerApplies, Intents, TypeOK
    <3>2. live' = [live EXCEPT ![Target[i]] = live[Target[i]] - 1]
      BY <2>3 DEF BrokerApplies
    <3> QED
      BY <2>1, <3>1, <3>2 DEF TypeOK
  <2> QED
    BY <2>2, <2>3
<1>15. CountCall => sincePause' \in Nat
  BY DEF CountCall, TypeOK
<1>16. CASE CallAccepted(t)
  BY <1>3, <1>14, <1>15, <1>16, GotoFacts
     DEF CallAccepted, TypeOK, ThreadRecords, Steps, database, stream
<1>17. CASE CallRejected(t)
  BY <1>3, <1>15, <1>17, GotoFacts
     DEF CallRejected, TypeOK, ThreadRecords, Steps, database, broker, stream
<1>18. CASE CallUnanswered(t)
  BY <1>3, <1>14, <1>15, <1>18, GotoFacts
     DEF CallUnanswered, TypeOK, ThreadRecords, Steps, database, stream
<1>19. CASE Confirm(t)
  <2>1. thread' \in [Threads -> {Idle} \cup ThreadRecords] /\ state' \in [Intents -> States]
    BY <1>3, <1>19, AnswerFacts, SetStateFacts DEF Confirm, TypeOK
  <2>2. trade' \in [Opens -> {"none", "open", "closed"}]
    BY <1>19, ExecutionAssumption DEF Confirm, TypeOK, Intents
  <2> QED
    BY <1>19, <2>1, <2>2 DEF Confirm, TypeOK, ThreadRecords, Steps, broker, stream
<1>20. CASE Reject(t)
  BY <1>3, <1>20, AnswerFacts, SetStateFacts DEF Reject, TypeOK, ThreadRecords, Steps, broker, stream
<1>21. CASE Unsure(t)
  BY <1>3, <1>21, GotoFacts, SetStateFacts DEF Unsure, TypeOK, ThreadRecords, Steps, broker, stream
<1>22. CASE PublishReconcile(t)
  BY <1>22, AnswerFacts DEF PublishReconcile, TypeOK, ThreadRecords, Steps, database, broker, Events
<1> QED
  BY <1>4, <1>5, <1>6, <1>7, <1>8, <1>9, <1>10, <1>11, <1>12, <1>13, <1>16, <1>17, <1>18,
     <1>19, <1>20, <1>21, <1>22 DEF Execute

(***************************************************************************)
(* Types survive the steps of intent.reconcile.                            *)
(***************************************************************************)
LEMMA ReconcileTypes ==
    ASSUME NEW t \in Threads, TypeOK, Reconcile(t) PROVE TypeOK'
<1>1. thread[t].at # "idle"
  BY DEF Reconcile, LoadUnresolved, MarkReconciling, Search, SearchUnreachable, Resolve, At
<1>2. thread[t] \in ThreadRecords /\ Intent(t) \in Intents
  BY <1>1, BusyThread
<1> USE <1>1, <1>2
<1>3. /\ {"reconciling", "confirmed", "failed", "uncertain"} \subseteq States
      /\ {"rmark", "search", "found", "missing"} \subseteq Steps
  BY DEF States, Steps, ReconcileSteps
<1>4. CASE LoadUnresolved(t)
  BY <1>3, <1>4, AnswerFacts, GotoFacts
     DEF LoadUnresolved, TypeOK, ThreadRecords, Steps, database, broker, stream
<1>5. CASE MarkReconciling(t)
  BY <1>3, <1>5, GotoFacts, SetStateFacts
     DEF MarkReconciling, TypeOK, ThreadRecords, Steps, broker, stream
<1>6. CASE Search(t)
  BY <1>3, <1>6, GotoFacts DEF Search, TypeOK, ThreadRecords, Steps, database, broker, stream
<1>7. CASE SearchUnreachable(t)
  BY <1>7, AnswerFacts DEF SearchUnreachable, TypeOK, ThreadRecords, Steps, database, broker, stream
<1>8. CASE Resolve(t)
  <2>1. (IF At(t, "found") THEN "confirmed" ELSE AfterMissing(aged[Intent(t)])) \in States
    BY <1>3 DEF AfterMissing
  <2> QED
    BY <1>8, <2>1, AnswerFacts, SetStateFacts DEF Resolve, TypeOK, ThreadRecords, Steps, broker, stream
<1> QED
  BY <1>4, <1>5, <1>6, <1>7, <1>8 DEF Reconcile

(***************************************************************************)
(* Types survive deliveries, crashes, the broker, time and the user.       *)
(***************************************************************************)
LEMMA DeliveryTypes ==
    ASSUME TypeOK,
           \/ \E t \in Threads : Finish(t) \/ Crash(t) \/ \E e \in Events : Take(t, e)
           \/ \E e \in Events : Replay(e)
    PROVE  TypeOK'
<1>1. ASSUME NEW t \in Threads, Finish(t) PROVE TypeOK'
  BY <1>1, ClearFacts DEF Finish, TypeOK, ThreadRecords, Steps, database, broker, stream
<1>2. ASSUME NEW t \in Threads, Crash(t) PROVE TypeOK'
  <2>1. crashes' \in 0..MaxCrashes
    BY <1>2, ExecutionAssumption DEF Crash, TypeOK
  <2> QED
    BY <1>2, <2>1, ClearFacts DEF Crash, TypeOK, ThreadRecords, Steps, database, broker, stream
<1>3. ASSUME NEW t \in Threads, NEW e \in Events, Take(t, e) PROVE TypeOK'
  <2> PICK r : r = [Idle EXCEPT !.at = IF e[1] = "execute" THEN "load" ELSE "rload", !.event = e]
    OBVIOUS
  <2>1. r \in ThreadRecords
    BY DEF Idle, ThreadRecords, Steps, ExecuteSteps, ReconcileSteps
  <2>2. thread' \in [Threads -> {Idle} \cup ThreadRecords]
    BY <1>3, <2>1 DEF Take, TypeOK, ThreadRecords, Steps
  <2> QED
    BY <1>3, <2>2 DEF Take, TypeOK, ThreadRecords, Steps, database, broker, stream
<1>4. ASSUME NEW e \in Events, Replay(e) PROVE TypeOK'
  BY <1>4 DEF Replay, TypeOK, database, broker
<1> QED
  BY <1>1, <1>2, <1>3, <1>4

\* The signal worker, maintenance, the broker, time and the user.
LEMMA EnvironmentTypes == ASSUME TypeOK, Environment PROVE TypeOK'
<1>1. ASSUME NEW i \in Intents, PublishIntent(i) \/ CommitIntent(i, "created") \/ CommitIntent(i, "discarded")
      PROVE  TypeOK'
  <2>1. state' \in [Intents -> States]
    BY <1>1 DEF PublishIntent, CommitIntent, SetState, TypeOK, States
  <2>2. <<"execute", i>> \in Events
    BY DEF Events
  <2> QED
    BY <1>1, <2>1, <2>2 DEF PublishIntent, CommitIntent, TypeOK, broker, stream
<1>2. ASSUME NEW i \in Intents, Sweep(i) \/ Synchronize(i) \/ Age(i) PROVE TypeOK'
  <2>1. <<"reconcile", i>> \in Events
    BY DEF Events
  <2> QED
    BY <1>2, <2>1 DEF Sweep, Synchronize, Age, TypeOK, database, broker, stream
<1>3. ASSUME NEW o \in Opens, ReconcileTrade(o) PROVE TypeOK'
  BY <1>3 DEF ReconcileTrade, TypeOK, broker, stream
<1>4. ASSUME NEW o \in Opens, CloseAtBroker(o) PROVE TypeOK'
  <2>1. live' \in [Opens -> Nat]
    BY <1>4 DEF CloseAtBroker, TypeOK
  <2> QED
    BY <1>4, <2>1 DEF CloseAtBroker, TypeOK, database, stream
<1>5. ASSUME NEW p \in BOOLEAN, SetPause(p) \/ SetRoute(p) PROVE TypeOK'
  BY <1>5 DEF SetPause, SetRoute, TypeOK, broker, stream
<1>6. CASE LeaseExpires
  BY <1>6 DEF LeaseExpires, TypeOK, database, broker, stream
<1> QED
  BY <1>1, <1>2, <1>3, <1>4, <1>5, <1>6 DEF Environment

(***************************************************************************)
(* Types survive every step.                                               *)
(***************************************************************************)
LEMMA TypeStep == TypeOK /\ [Next]_vars => TypeOK'
<1> SUFFICES ASSUME TypeOK, [Next]_vars PROVE TypeOK'
  OBVIOUS
<1>1. CASE UNCHANGED vars
  BY <1>1 DEF vars, database, broker, stream, TypeOK
<1> QED
  BY <1>1, ExecuteTypes, ReconcileTypes, DeliveryTypes, EnvironmentTypes DEF Next

\* The initial state has the types.
LEMMA TypeInit == Init => TypeOK
<1> SUFFICES ASSUME Init PROVE TypeOK
  OBVIOUS
<1>1. 0 \in 0..MaxCrashes /\ "absent" \in States
  BY ExecutionAssumption DEF States
<1>2. /\ state \in [Intents -> States] /\ tries \in [Intents -> {0, 1}]
      /\ trade \in [Opens -> {"none", "open", "closed"}]
  BY <1>1 DEF Init
<1>3. /\ sent \in [Intents -> Nat] /\ live \in [Opens -> Nat]
      /\ synced \in [Intents -> BOOLEAN] /\ aged \in [Intents -> BOOLEAN]
  BY DEF Init
<1> QED
  BY <1>1, <1>2, <1>3 DEF Init, TypeOK

(***************************************************************************)
(* TypeOK is an invariant of intent execution.                             *)
(***************************************************************************)
THEOREM TypeCorrect == Safety => []TypeOK
BY TypeInit, TypeStep, PTL DEF Safety
-----------------------------------------------------------------------------
(***************************************************************************)
(* At most one operation per intent.  When deliveries of one intent do not *)
(* overlap, what a handler read of its intent stays true until it writes   *)
(* it, and the broker has been asked for nothing before "submitted".       *)
(***************************************************************************)
Exclusive ==
    \A t, u \in Threads :
        thread[t].at # "idle" /\ thread[u].at # "idle" /\ Intent(t) = Intent(u) => t = u

BeforeSubmit == {"lock", "guard", "connect", "quality", "submit"}

ThreadOK(t) ==
    LET i == thread[t].event[2] IN
    /\ thread[t].at \in BeforeSubmit => state[i] \in Executable
    /\ thread[t].at \in {"call", "reject"} => state[i] = "submitted" /\ sent[i] = 0
    /\ thread[t].at \in {"confirm", "unsure"} => state[i] = "submitted"
    /\ thread[t].at \in ReconcileSteps \ {"rload"} => state[i] \in Unresolved

IntentOK(i) ==
    /\ sent[i] <= 1
    /\ state[i] \in {"absent", "published", "discarded"} \cup Executable => sent[i] = 0
    /\ state[i] = "failed" /\ sent[i] > 0 => aged[i]

OnceInv ==
    /\ TypeOK
    /\ Exclusive
    /\ \A t \in Threads : ThreadOK(t)
    /\ \A i \in Intents : IntentOK(i)

(***************************************************************************)
(* A step of one thread on its intent i keeps the invariant if it keeps    *)
(* the parts about that thread and that intent.                            *)
(***************************************************************************)
LEMMA OneThreadStep ==
    ASSUME OnceInv, TypeOK', NEW t \in Threads, NEW i \in Intents,
           thread[t].at # "idle", thread[t].event[2] = i,
           thread'[t].at # "idle" => thread'[t].event = thread[t].event,
           \A u \in Threads : u # t => thread'[u] = thread[u],
           \A j \in Intents : j # i => state'[j] = state[j] /\ sent'[j] = sent[j],
           aged' = aged, ThreadOK(t)', IntentOK(i)'
    PROVE  OnceInv'
<1>1. Exclusive'
  BY DEF OnceInv, Exclusive, Intent
<1>2. ASSUME NEW u \in Threads PROVE ThreadOK(u)'
  <2>1. CASE thread[u].at = "idle" /\ u # t
    BY <2>1 DEF ThreadOK, BeforeSubmit, ReconcileSteps
  <2>2. CASE thread[u].at # "idle" /\ u # t
    <3>1. thread'[u] = thread[u] /\ Intent(u) \in Intents /\ Intent(u) # i
      BY <2>2, BusyThread DEF OnceInv, Exclusive, Intent
    <3> QED
      BY <3>1 DEF OnceInv, ThreadOK, Intent
  <2> QED
    BY <2>1, <2>2
<1>3. \A j \in Intents : IntentOK(j)'
  BY DEF OnceInv, IntentOK
<1> QED
  BY <1>1, <1>2, <1>3 DEF OnceInv

(***************************************************************************)
(* intent.execute keeps the invariant.                                     *)
(***************************************************************************)
LEMMA ExecuteOnce ==
    ASSUME NEW t \in Threads, OnceInv, Execute(t) PROVE OnceInv'
<1>1. thread[t].at # "idle"
  BY DEF Execute, Load, LoadWithoutSubscription, AcquireLock, LockTimeout, Guard, Unavailable,
         Connect, QualityAccepted, QualityRefused, Submit, CallAccepted, CallRejected,
         CallUnanswered, Confirm, Reject, Unsure, PublishReconcile, At
<1>2. TypeOK /\ TypeOK'
  BY ExecuteTypes DEF OnceInv
<1>3. thread[t] \in ThreadRecords /\ thread[t].event[2] \in Intents
  BY <1>1, <1>2, BusyThread DEF Intent
<1> PICK i \in Intents : i = thread[t].event[2]
  BY <1>3
<1>4. Intent(t) = i /\ ThreadOK(t) /\ IntentOK(i) /\ sent[i] \in Nat
  BY <1>2 DEF Intent, OnceInv, TypeOK
<1>5. /\ {"failed", "retryable", "submitted", "confirmed", "uncertain"} \subseteq States
      /\ {"lock", "guard", "connect", "quality", "submit", "call", "confirm", "reject",
          "unsure", "publish"} \subseteq Steps
  BY DEF States, Steps, ExecuteSteps
<1> USE <1>1, <1>2, <1>4, <1>5
<1> DEFINE Kept == \A j \in Intents : j # i => state'[j] = state[j] /\ sent'[j] = sent[j]
           Moved(s) == /\ thread'[t].at = s /\ thread'[t].event = thread[t].event
                       /\ \A u \in Threads : u # t => thread'[u] = thread[u]
<1>6. CASE /\ \E s \in {"finish", "publish"} : Moved(s)
           /\ Kept /\ IntentOK(i)' /\ aged' = aged
  <2>1. ThreadOK(t)'
    BY <1>6 DEF ThreadOK, BeforeSubmit, ReconcileSteps
  <2> QED
    BY <1>6, <2>1, OneThreadStep
<1>7. CASE \/ LockTimeout(t) \/ Unavailable(t) \/ PublishReconcile(t)
  <2>1. Moved("finish") /\ state' = state /\ sent' = sent /\ aged' = aged
    BY <1>7, AnswerFacts DEF LockTimeout, Unavailable, PublishReconcile, database, broker
  <2> QED
    BY <1>6, <2>1 DEF IntentOK
<1>8. CASE Load(t)
  <2>1. state' = state /\ sent' = sent /\ aged' = aged
    BY <1>8 DEF Load, database, broker
  <2>2. CASE Answer(t, "retry") \/ Answer(t, "success")
    <3>1. Moved("finish")
      BY <2>2, AnswerFacts
    <3> QED
      BY <1>6, <2>1, <3>1 DEF IntentOK
  <2>3. CASE /\ ~Answer(t, "retry") /\ ~Answer(t, "success")
    <3>1. /\ state[i] \in Executable
          /\ thread' = [thread EXCEPT ![t].at = "lock", ![t].tries = tries[i], ![t].on = routeOn]
      BY <1>8, <2>3, SMTT(30) DEF Load, MayExecute
    <3>2. Moved("lock")
      BY <3>1, <1>3, SMTT(30) DEF TypeOK, ThreadRecords
    <3>3. ThreadOK(t)' /\ IntentOK(i)'
      BY <2>1, <3>1, <3>2 DEF ThreadOK, IntentOK, BeforeSubmit, ReconcileSteps
    <3> QED
      BY <2>1, <3>2, <3>3, OneThreadStep
  <2> QED
    BY <2>2, <2>3
<1>9. ASSUME NEW x \in States, SetState(i, x)
      PROVE  state'[i] = x /\ \A j \in Intents : j # i => state'[j] = state[j]
  BY <1>9, SetStateFacts
\* Failing or retrying an intent that has not been submitted.
<1>10. CASE \/ LoadWithoutSubscription(t) \/ (Guard(t) /\ Blocked(t))
            \/ (\E b \in BOOLEAN : QualityRefused(t, b))
  <2>1. thread[t].at \in {"load"} \cup BeforeSubmit /\ state[i] \in Executable
    BY <1>10 DEF LoadWithoutSubscription, Guard, QualityRefused, At, ThreadOK, BeforeSubmit
  <2>2. /\ SetState(i, "failed") \/ SetState(i, "retryable")
        /\ Answer(t, "success") \/ Answer(t, "retry")
        /\ sent' = sent /\ aged' = aged
    BY <1>10 DEF LoadWithoutSubscription, Guard, QualityRefused, broker
  <2>3. Moved("finish")
    BY <2>2, AnswerFacts
  <2>4. Kept /\ IntentOK(i)'
    BY <2>1, <2>2, <1>9 DEF IntentOK, Executable
  <2> QED
    BY <1>6, <2>2, <2>3, <2>4
\* Going on towards the submission.
<1>11. CASE \/ AcquireLock(t) \/ (Guard(t) /\ ~Blocked(t)) \/ Connect(t) \/ QualityAccepted(t)
  <2>1. thread[t].at \in BeforeSubmit /\ state' = state /\ sent' = sent /\ aged' = aged
    BY <1>11 DEF AcquireLock, Guard, Connect, QualityAccepted, At, BeforeSubmit, database, broker
  <2>2. PICK x \in {"guard", "connect", "quality", "submit"} : Goto(t, x)
    BY <1>11 DEF AcquireLock, Guard, Connect, QualityAccepted
  <2>3. Moved(x)
    BY <2>2, GotoFacts
  <2>4. ThreadOK(t)' /\ IntentOK(i)'
    BY <2>1, <2>3 DEF ThreadOK, IntentOK, BeforeSubmit, ReconcileSteps
  <2> QED
    BY <2>1, <2>3, <2>4, OneThreadStep
<1>12. CASE Submit(t)
  <2>1. state[i] \in Executable /\ sent[i] = 0 /\ sent' = sent /\ aged' = aged
    BY <1>12 DEF Submit, At, ThreadOK, IntentOK, BeforeSubmit, broker
  <2>2. CASE SetState(i, "failed") /\ Answer(t, "success")
    <3>1. Moved("finish")
      BY <2>2, AnswerFacts
    <3>2. Kept /\ IntentOK(i)'
      BY <2>1, <2>2, <1>9 DEF IntentOK, Executable
    <3> QED
      BY <1>6, <2>1, <3>1, <3>2
  <2>3. CASE /\ SetState(i, "submitted")
             /\ thread' = [thread EXCEPT ![t].at = "call", ![t].copied = SelectTrade(i)]
    <3>1. Moved("call")
      BY <2>3, <1>3 DEF TypeOK, ThreadRecords
    <3>2. Kept /\ IntentOK(i)' /\ ThreadOK(t)'
      BY <2>1, <2>3, <3>1, <1>9 DEF IntentOK, ThreadOK, Executable, BeforeSubmit, ReconcileSteps
    <3> QED
      BY <2>1, <3>1, <3>2, OneThreadStep
  <2> QED
    BY <1>12, <2>2, <2>3 DEF Submit
\* The broker call.
<1>13. CASE CallAccepted(t) \/ CallRejected(t) \/ CallUnanswered(t)
  <2>1. /\ thread[t].at = "call" /\ state[i] = "submitted" /\ sent[i] = 0
        /\ state' = state /\ aged' = aged
    BY <1>13 DEF CallAccepted, CallRejected, CallUnanswered, At, ThreadOK, database
  <2>2. /\ sent' = sent \/ sent' = [sent EXCEPT ![i] = @ + 1]
        /\ \/ Goto(t, "confirm") \/ Goto(t, "unsure")
           \/ Goto(t, "reject") /\ sent' = sent
    BY <1>13 DEF CallAccepted, CallRejected, CallUnanswered, BrokerApplies, broker
  <2>3. Kept /\ sent'[i] \in 0..1
    BY <2>1, <2>2 DEF TypeOK
  <2>4. PICK x \in {"confirm", "unsure", "reject"} : Moved(x) /\ (x = "reject" => sent' = sent)
    BY <2>2, GotoFacts
  <2>5. IntentOK(i)' /\ ThreadOK(t)'
    BY <2>1, <2>3, <2>4 DEF IntentOK, ThreadOK, Executable, BeforeSubmit, ReconcileSteps
  <2> QED
    BY <2>1, <2>3, <2>4, <2>5, OneThreadStep
\* Its outcome.
<1>14. CASE Confirm(t) \/ Reject(t) \/ Unsure(t)
  <2>1. /\ state[i] = "submitted" /\ sent' = sent /\ aged' = aged
        /\ thread[t].at = "reject" => sent[i] = 0
    BY <1>14 DEF Confirm, Reject, Unsure, At, ThreadOK, broker
  <2>2. \/ state' = state
        \/ SetState(i, "confirmed") \/ SetState(i, "uncertain")
        \/ SetState(i, "failed") /\ thread[t].at = "reject"
    BY <1>14 DEF Confirm, Reject, Unsure, At
  <2>3. Kept /\ IntentOK(i)'
    BY <2>1, <2>2, <1>9 DEF IntentOK, Executable
  <2>4. \E x \in {"finish", "publish"} : Moved(x)
    BY <1>14, AnswerFacts, GotoFacts DEF Confirm, Reject, Unsure
  <2> QED
    BY <1>6, <2>1, <2>3, <2>4
<1> QED
  BY <1>7, <1>8, <1>10, <1>11, <1>12, <1>13, <1>14 DEF Execute

(***************************************************************************)
(* intent.reconcile keeps the invariant: only an aged intent is failed.    *)
(***************************************************************************)
LEMMA ReconcileOnce ==
    ASSUME NEW t \in Threads, OnceInv, Reconcile(t) PROVE OnceInv'
<1>1. thread[t].at # "idle"
  BY DEF Reconcile, LoadUnresolved, MarkReconciling, Search, SearchUnreachable, Resolve, At
<1>2. TypeOK /\ TypeOK'
  BY ReconcileTypes DEF OnceInv
<1>3. thread[t] \in ThreadRecords /\ thread[t].event[2] \in Intents
  BY <1>1, <1>2, BusyThread DEF Intent
<1> PICK i \in Intents : i = thread[t].event[2]
  BY <1>3
<1>4. Intent(t) = i /\ ThreadOK(t) /\ IntentOK(i) /\ sent[i] \in Nat /\ aged[i] \in BOOLEAN
  BY <1>2 DEF Intent, OnceInv, TypeOK
<1>5. /\ {"reconciling", "confirmed", "failed", "uncertain"} \subseteq States
      /\ {"rmark", "search", "found", "missing", "finish"} \subseteq Steps
  BY DEF States, Steps, ReconcileSteps
<1>6. sent' = sent /\ aged' = aged
  BY DEF Reconcile, LoadUnresolved, MarkReconciling, Search, SearchUnreachable, Resolve, broker
<1> USE <1>1, <1>2, <1>4, <1>5, <1>6
<1> DEFINE Kept == \A j \in Intents : j # i => state'[j] = state[j]
           Moved(s) == /\ thread'[t].at = s /\ thread'[t].event = thread[t].event
                       /\ \A u \in Threads : u # t => thread'[u] = thread[u]
<1>7. ASSUME NEW x \in States, SetState(i, x)
      PROVE  state'[i] = x /\ \A j \in Intents : j # i => state'[j] = state[j]
  BY <1>7, SetStateFacts
<1>8. CASE Moved("finish") /\ Kept /\ IntentOK(i)'
  <2>1. ThreadOK(t)'
    BY <1>8 DEF ThreadOK, BeforeSubmit, ReconcileSteps
  <2> QED
    BY <1>8, <2>1, OneThreadStep
<1>9. ASSUME NEW x \in {"rmark", "search", "found", "missing"}, Moved(x), Kept,
             IntentOK(i)', state'[i] \in Unresolved
      PROVE  OnceInv'
  <2>1. ThreadOK(t)'
    BY <1>9 DEF ThreadOK, BeforeSubmit, ReconcileSteps
  <2> QED
    BY <1>9, <2>1, OneThreadStep
<1>10. CASE LoadUnresolved(t)
  <2>1. state' = state /\ IntentOK(i)'
    BY <1>10 DEF LoadUnresolved, database, IntentOK
  <2>2. Moved("finish") \/ (Moved("rmark") /\ state[i] \in Unresolved)
    BY <1>10, AnswerFacts, GotoFacts DEF LoadUnresolved
  <2> QED
    BY <1>8, <1>9, <2>1, <2>2
<1>11. CASE MarkReconciling(t)
  <2>1. state'[i] = "reconciling" /\ Kept /\ Moved("search")
    BY <1>11, <1>7, GotoFacts DEF MarkReconciling
  <2>2. IntentOK(i)' /\ state'[i] \in Unresolved
    BY <2>1 DEF IntentOK, Executable, Unresolved
  <2> QED
    BY <1>9, <2>1, <2>2
<1>12. CASE Search(t)
  <2>1. state' = state /\ IntentOK(i)' /\ state[i] \in Unresolved
    BY <1>12 DEF Search, database, IntentOK, ThreadOK, At, ReconcileSteps
  <2>2. Moved("found") \/ Moved("missing")
    BY <1>12, GotoFacts DEF Search
  <2> QED
    BY <1>9, <2>1, <2>2
<1>13. CASE SearchUnreachable(t)
  <2>1. state' = state /\ IntentOK(i)' /\ Moved("finish")
    BY <1>13, AnswerFacts DEF SearchUnreachable, database, IntentOK
  <2> QED
    BY <1>8, <2>1
<1>14. CASE Resolve(t)
  <2>1. Moved("finish")
    BY <1>14, AnswerFacts DEF Resolve
  <2>2. /\ SetState(i, "confirmed") \/ SetState(i, "uncertain")
           \/ (SetState(i, "failed") /\ aged[i])
    BY <1>14 DEF Resolve, AfterMissing
  <2>3. Kept /\ IntentOK(i)'
    BY <2>2, <1>7 DEF IntentOK, Executable
  <2> QED
    BY <1>8, <2>1, <2>3
<1> QED
  BY <1>10, <1>11, <1>12, <1>13, <1>14 DEF Reconcile

(***************************************************************************)
(* Deliveries, replays and crashes keep the invariant when deliveries of   *)
(* one intent do not overlap.                                              *)
(***************************************************************************)
LEMMA DeliveryOnce ==
    ASSUME ~Overlap, OnceInv,
           \/ \E t \in Threads : Finish(t) \/ Crash(t) \/ \E e \in Events : Take(t, e)
           \/ \E e \in Events : Replay(e)
    PROVE  OnceInv'
<1>1. TypeOK /\ TypeOK'
  BY DeliveryTypes DEF OnceInv
<1>2. state' = state /\ sent' = sent /\ aged' = aged
  BY DEF Finish, Crash, Take, Replay, database, broker
<1>3. \A i \in Intents : IntentOK(i)'
  BY <1>2 DEF OnceInv, IntentOK
<1>4. ASSUME NEW t \in Threads, Finish(t) \/ Crash(t) PROVE OnceInv'
  <2>1. thread'[t] = Idle /\ \A u \in Threads : u # t => thread'[u] = thread[u]
    BY <1>1, <1>4, ClearFacts DEF Finish, Crash
  <2>2. Exclusive'
    BY <2>1 DEF OnceInv, Exclusive, Intent, Idle
  <2>3. ASSUME NEW u \in Threads PROVE ThreadOK(u)'
    BY <1>2, <2>1 DEF OnceInv, ThreadOK, Idle, BeforeSubmit, ReconcileSteps
  <2> QED
    BY <1>1, <1>3, <2>2, <2>3 DEF OnceInv
<1>5. ASSUME NEW t \in Threads, NEW e \in Events, Take(t, e) PROVE OnceInv'
  <2>1. /\ thread'[t].at \in {"load", "rload"} /\ thread'[t].event = e
        /\ \A u \in Threads : u # t => thread'[u] = thread[u]
        /\ \A u \in Threads : thread[u] # Idle => Intent(u) # e[2]
    BY <1>1, <1>5 DEF Take, TypeOK, Idle
  <2>2. \A u \in Threads : thread[u].at # "idle" => thread[u] # Idle
    BY DEF Idle
  <2>3. Exclusive'
    BY <2>1, <2>2 DEF OnceInv, Exclusive, Intent
  <2>4. ASSUME NEW u \in Threads PROVE ThreadOK(u)'
    BY <1>2, <2>1 DEF OnceInv, ThreadOK, BeforeSubmit, ReconcileSteps
  <2> QED
    BY <1>1, <1>3, <2>3, <2>4 DEF OnceInv
<1>6. ASSUME NEW e \in Events, Replay(e) PROVE OnceInv'
  <2>1. thread' = thread
    BY <1>6 DEF Replay
  <2>2. Exclusive' /\ \A u \in Threads : ThreadOK(u)'
    BY <1>2, <2>1 DEF OnceInv, Exclusive, Intent, ThreadOK
  <2> QED
    BY <1>1, <1>3, <2>2 DEF OnceInv
<1> QED
  BY <1>4, <1>5, <1>6

(***************************************************************************)
(* So do the signal worker, maintenance, the broker, time and the user.    *)
(***************************************************************************)
LEMMA EnvironmentOnce == ASSUME OnceInv, Environment PROVE OnceInv'
<1>1. TypeOK /\ TypeOK'
  BY EnvironmentTypes DEF OnceInv
<1>2. thread' = thread /\ sent' = sent
  BY DEF Environment, PublishIntent, CommitIntent, Sweep, Synchronize, Age, ReconcileTrade,
         CloseAtBroker, SetPause, SetRoute, LeaseExpires, broker
<1>3. Exclusive'
  BY <1>2 DEF OnceInv, Exclusive, Intent
<1>4. \A j \in Intents : aged[j] => aged'[j]
  BY <1>1 DEF Environment, PublishIntent, CommitIntent, Sweep, Synchronize, Age, ReconcileTrade,
         CloseAtBroker, SetPause, SetRoute, LeaseExpires, TypeOK
<1>5. \A j \in Intents :
        \/ state'[j] = state[j]
        \/ /\ state[j] \in {"absent", "published"}
           /\ state'[j] \in {"published", "created", "discarded"}
  <2>1. ASSUME NEW i \in Intents, PublishIntent(i) \/ CommitIntent(i, "created") \/ CommitIntent(i, "discarded")
        PROVE  \A j \in Intents :
                  \/ state'[j] = state[j]
                  \/ /\ state[j] \in {"absent", "published"}
                     /\ state'[j] \in {"published", "created", "discarded"}
    BY <1>1, <2>1 DEF PublishIntent, CommitIntent, SetState, TypeOK
  <2>2. CASE state' = state
    BY <2>2
  <2> QED
    BY <2>1, <2>2 DEF Environment, Sweep, Synchronize, Age, ReconcileTrade,
         CloseAtBroker, SetPause, SetRoute, LeaseExpires, database
<1>6. ASSUME NEW j \in Intents PROVE IntentOK(j)'
  BY <1>2, <1>4, <1>5 DEF OnceInv, IntentOK, Executable
<1>7. ASSUME NEW u \in Threads PROVE ThreadOK(u)'
  <2>1. thread[u].at # "idle" => thread[u].event[2] \in Intents
    BY <1>1, BusyThread DEF Intent
  <2> QED
    BY <1>2, <1>5, <2>1 DEF OnceInv, ThreadOK, Executable, Unresolved, BeforeSubmit, ReconcileSteps
<1> QED
  BY <1>1, <1>3, <1>6, <1>7 DEF OnceInv

(***************************************************************************)
(* OnceInv is an invariant when deliveries of one intent do not overlap.   *)
(***************************************************************************)
LEMMA OnceInvariant == ASSUME ~Overlap PROVE Safety => []OnceInv
<1>1. Init => OnceInv
  <2> SUFFICES ASSUME Init PROVE OnceInv
    OBVIOUS
  <2>1. TypeOK
    BY TypeInit
  <2>2. \A t \in Threads : thread[t].at = "idle"
    BY DEF Init, Idle
  <2>3. \A i \in Intents : sent[i] = 0
    BY DEF Init
  <2> QED
    BY <2>1, <2>2, <2>3 DEF OnceInv, Exclusive, ThreadOK, IntentOK, BeforeSubmit, ReconcileSteps
<1>2. OnceInv /\ [Next]_vars => OnceInv'
  <2> SUFFICES ASSUME OnceInv, [Next]_vars PROVE OnceInv'
    OBVIOUS
  <2>1. CASE UNCHANGED vars
    <3>1. TypeOK'
      BY TypeStep DEF OnceInv
    <3>2. thread' = thread /\ state' = state /\ sent' = sent /\ aged' = aged
      BY <2>1 DEF vars, database, broker
    <3> QED
      BY <3>1, <3>2 DEF OnceInv, Exclusive, Intent, ThreadOK, IntentOK
  <2> QED
    BY <2>1, ExecuteOnce, ReconcileOnce, DeliveryOnce, EnvironmentOnce DEF Next
<1> QED
  BY <1>1, <1>2, PTL DEF Safety

(***************************************************************************)
(* If deliveries of one intent do not overlap, the broker carries out at   *)
(* most one operation per intent, for any retries, replays and crashes.    *)
(***************************************************************************)
THEOREM AtMostOnceHolds == ASSUME ~Overlap PROVE Safety => []AtMostOnce
<1>1. OnceInv => AtMostOnce
  BY DEF OnceInv, IntentOK, AtMostOnce
<1> QED
  BY <1>1, OnceInvariant, PTL

(***************************************************************************)
(* Under the same condition an intent fails before its maximum age only if *)
(* the broker did nothing for it.                                          *)
(***************************************************************************)
THEOREM FailedBeforeAgeIsUnsentHolds ==
    ASSUME ~Overlap PROVE Safety => []FailedBeforeAgeIsUnsent
<1>1. OnceInv => FailedBeforeAgeIsUnsent
  BY DEF OnceInv, IntentOK, FailedBeforeAgeIsUnsent
<1> QED
  BY <1>1, OnceInvariant, PTL

(***************************************************************************)
(* A handler writes the state of an intent only while it is unresolved.    *)
(***************************************************************************)
LEMMA ResolvedStep ==
    ASSUME OnceInv, Next PROVE \A i \in Intents : state[i] \in Resolved => state'[i] = state[i]
<1> USE DEF Resolved
<1>1. TypeOK
  BY DEF OnceInv
<1>2. ASSUME NEW t \in Threads, Execute(t)
      PROVE  \A i \in Intents : state[i] \in Resolved => state'[i] = state[i]
  <2>1. thread[t].at # "idle" /\ ThreadOK(t)
    BY <1>2 DEF Execute, Load, LoadWithoutSubscription, AcquireLock, LockTimeout, Guard, Unavailable,
         Connect, QualityAccepted, QualityRefused, Submit, CallAccepted, CallRejected,
         CallUnanswered, Confirm, Reject, Unsure, PublishReconcile, At, OnceInv
  <2>2. Intent(t) \in Intents
    BY <1>1, <2>1, BusyThread
  <2>3. CASE \/ Load(t) \/ AcquireLock(t) \/ LockTimeout(t) \/ Unavailable(t) \/ Connect(t)
             \/ QualityAccepted(t) \/ CallAccepted(t) \/ CallRejected(t) \/ CallUnanswered(t)
             \/ PublishReconcile(t)
    BY <2>3 DEF Load, AcquireLock, LockTimeout, Unavailable, Connect, QualityAccepted,
         CallAccepted, CallRejected, CallUnanswered, PublishReconcile, database
  <2>4. CASE \/ LoadWithoutSubscription(t) \/ Guard(t) \/ Submit(t)
             \/ \E b \in BOOLEAN : QualityRefused(t, b)
    <3>1. state[Intent(t)] \in Executable
      BY <2>1, <2>4 DEF LoadWithoutSubscription, Guard, Submit, QualityRefused, At, ThreadOK,
           BeforeSubmit, Intent
    <3>2. state' = state \/ \E s \in States : SetState(Intent(t), s)
      BY <2>4 DEF LoadWithoutSubscription, Guard, Submit, QualityRefused, States
    <3> QED
      BY <1>1, <2>2, <3>1, <3>2, SetStateFacts DEF Executable
  <2>5. CASE Confirm(t) \/ Reject(t) \/ Unsure(t)
    <3>1. state[Intent(t)] = "submitted"
      BY <2>1, <2>5 DEF Confirm, Reject, Unsure, At, ThreadOK, Intent
    <3>2. state' = state \/ \E s \in States : SetState(Intent(t), s)
      BY <2>5 DEF Confirm, Reject, Unsure, States
    <3> QED
      BY <1>1, <2>2, <3>1, <3>2, SetStateFacts
  <2> QED
    BY <1>2, <2>3, <2>4, <2>5 DEF Execute
<1>3. ASSUME NEW t \in Threads, Reconcile(t)
      PROVE  \A i \in Intents : state[i] \in Resolved => state'[i] = state[i]
  <2>1. thread[t].at # "idle" /\ ThreadOK(t)
    BY <1>3 DEF Reconcile, LoadUnresolved, MarkReconciling, Search, SearchUnreachable, Resolve,
         At, OnceInv
  <2>2. Intent(t) \in Intents
    BY <1>1, <2>1, BusyThread
  <2>3. CASE LoadUnresolved(t) \/ Search(t) \/ SearchUnreachable(t)
    BY <2>3 DEF LoadUnresolved, Search, SearchUnreachable, database
  <2>4. CASE MarkReconciling(t) \/ Resolve(t)
    <3>1. state[Intent(t)] \in Unresolved
      BY <2>1, <2>4 DEF MarkReconciling, Resolve, At, ThreadOK, ReconcileSteps, Intent
    <3>2. \E s \in States : SetState(Intent(t), s)
      BY <2>4 DEF MarkReconciling, Resolve, AfterMissing, States
    <3> QED
      BY <1>1, <2>2, <3>1, <3>2, SetStateFacts DEF Unresolved
  <2> QED
    BY <1>3, <2>3, <2>4 DEF Reconcile
<1>4. ASSUME \/ \E t \in Threads : Finish(t) \/ Crash(t) \/ \E e \in Events : Take(t, e)
             \/ \E e \in Events : Replay(e)
      PROVE  state' = state
  BY <1>4 DEF Finish, Crash, Take, Replay, database
<1>5. ASSUME NEW i \in Intents, PublishIntent(i) \/ CommitIntent(i, "created") \/ CommitIntent(i, "discarded")
      PROVE  \A j \in Intents : state[j] \in Resolved => state'[j] = state[j]
  BY <1>1, <1>5 DEF PublishIntent, CommitIntent, SetState, TypeOK
<1>6. Environment => \/ state' = state
                     \/ \E i \in Intents : \/ PublishIntent(i) \/ CommitIntent(i, "created")
                                           \/ CommitIntent(i, "discarded")
  BY DEF Environment, Sweep, Synchronize, Age, ReconcileTrade, CloseAtBroker, SetPause, SetRoute,
         LeaseExpires, database
<1> QED
  BY <1>2, <1>3, <1>4, <1>5, <1>6 DEF Next

(***************************************************************************)
(* If deliveries of one intent do not overlap, no retry, replay, sweep or  *)
(* crash changes an intent that is confirmed or failed.                    *)
(***************************************************************************)
THEOREM ResolvedIsFinalHolds == ASSUME ~Overlap PROVE Safety => ResolvedIsFinal
<1>1. OnceInv /\ [Next]_vars => [\A i \in Intents : state[i] \in Resolved => state'[i] = state[i]]_vars
  BY ResolvedStep
<1> QED
  BY <1>1, OnceInvariant, PTL DEF Safety, ResolvedIsFinal
-----------------------------------------------------------------------------
(***************************************************************************)
(* The contract.  A handler that is about to confirm an intent has the     *)
(* broker's word for it: an answer, or an operation in the terminal state. *)
(***************************************************************************)
HasEvidence(t) == thread[t].at \in {"confirm", "found"} => sent[Intent(t)] > 0

Evidence ==
    /\ \A t \in Threads : HasEvidence(t)
    /\ \A i \in Intents : synced[i] => sent[i] > 0

\* The thread does not come to a confirmation without evidence.
StaysSound(t) ==
    \/ thread'[t] = thread[t]
    \/ thread'[t].at \notin {"confirm", "found"}
    \/ sent'[Intent(t)'] > 0 /\ Intent(t)' \in Intents

\* A thread that moves is busy with an intent of its own.
LEMMA MovingThread ==
    ASSUME TypeOK, NEW t \in Threads, Execute(t) \/ Reconcile(t)
    PROVE  thread[t].at # "idle" /\ Intent(t) \in Intents
<1>1. thread[t].at # "idle"
  BY DEF Execute, Load, LoadWithoutSubscription, AcquireLock, LockTimeout, Guard, Unavailable,
       Connect, QualityAccepted, QualityRefused, Submit, CallAccepted, CallRejected,
       CallUnanswered, Confirm, Reject, Unsure, PublishReconcile, Reconcile, LoadUnresolved,
       MarkReconciling, Search, SearchUnreachable, Resolve, At
<1> QED
  BY <1>1, BusyThread

\* What the broker has carried out stays carried out.
LEMMA OperationsStay ==
    ASSUME TypeOK, Next PROVE \A i \in Intents : sent'[i] >= sent[i]
<1>1. ASSUME NEW t \in Threads, CallAccepted(t) \/ CallUnanswered(t)
      PROVE  \A i \in Intents : sent'[i] >= sent[i]
  <2>1. Intent(t) \in Intents
    BY <1>1, MovingThread DEF Execute
  <2>2. sent' = sent \/ sent' = [sent EXCEPT ![Intent(t)] = sent[Intent(t)] + 1]
    BY <1>1 DEF CallAccepted, CallUnanswered, BrokerApplies
  <2> QED
    BY <2>1, <2>2 DEF TypeOK
<1>2. sent' = sent \/ \E t \in Threads : CallAccepted(t) \/ CallUnanswered(t)
  <2>1. ASSUME NEW t \in Threads, Execute(t), ~CallAccepted(t), ~CallUnanswered(t)
        PROVE  sent' = sent
    BY <2>1, Zenon DEF Execute, Load, LoadWithoutSubscription, AcquireLock, LockTimeout, Guard,
         Unavailable, Connect, QualityAccepted, QualityRefused, Submit, CallRejected, Confirm,
         Reject, Unsure, PublishReconcile, broker
  <2>2. ASSUME NEW t \in Threads, Reconcile(t) \/ Finish(t) \/ Crash(t)
        PROVE  sent' = sent
    BY <2>2, Zenon DEF Reconcile, LoadUnresolved, MarkReconciling, Search, SearchUnreachable,
         Resolve, Finish, Crash, broker
  <2>3. ASSUME \/ \E t \in Threads, e \in Events : Take(t, e)
               \/ \E e \in Events : Replay(e)
               \/ Environment
        PROVE  sent' = sent
    BY <2>3, Zenon DEF Take, Replay, Environment, PublishIntent, CommitIntent, Sweep, Synchronize,
         Age, ReconcileTrade, CloseAtBroker, SetPause, SetRoute, LeaseExpires, broker
  <2> QED
    BY <2>1, <2>2, <2>3 DEF Next
<1> QED
  BY <1>1, <1>2 DEF TypeOK

\* A call that was accepted, and a search that found something, are evidence.
LEMMA MovesAreSound ==
    ASSUME OnceInv, Evidence, Next, NEW u \in Threads PROVE StaysSound(u)
<1>1. TypeOK
  BY DEF OnceInv
<1>2. ASSUME NEW t \in Threads, CallAccepted(t) PROVE StaysSound(u)
  <2>1. thread[t].at # "idle" /\ Intent(t) \in Intents
    BY <1>1, <1>2, MovingThread DEF Execute
  <2>2. "confirm" \in Steps
    BY DEF Steps, ExecuteSteps
  <2>3. /\ thread'[t].event = thread[t].event
        /\ \A v \in Threads : v # t => thread'[v] = thread[v]
    BY <1>1, <1>2, <2>1, <2>2, GotoFacts DEF CallAccepted
  <2>4. sent' = [sent EXCEPT ![Intent(t)] = sent[Intent(t)] + 1]
    BY <1>2 DEF CallAccepted, BrokerApplies
  <2>5. sent'[Intent(t)] > 0
    BY <1>1, <2>1, <2>4 DEF TypeOK
  <2> QED
    BY <2>1, <2>3, <2>5 DEF StaysSound, Intent
<1>3. ASSUME NEW t \in Threads, Search(t) PROVE StaysSound(u)
  <2>1. thread[t].at # "idle" /\ Intent(t) \in Intents
    BY <1>1, <1>3, MovingThread DEF Reconcile
  <2>2. "found" \in Steps /\ "missing" \in Steps
    BY DEF Steps, ReconcileSteps
  <2>3. CASE synced[Intent(t)]
    <3>1. /\ thread'[t].event = thread[t].event
          /\ \A v \in Threads : v # t => thread'[v] = thread[v]
      BY <1>1, <1>3, <2>1, <2>2, <2>3, GotoFacts DEF Search
    <3>2. sent'[Intent(t)] > 0
      BY <1>3, <2>1, <2>3 DEF Search, broker, Evidence
    <3> QED
      BY <2>1, <3>1, <3>2 DEF StaysSound, Intent
  <2>4. CASE ~synced[Intent(t)]
    BY <1>1, <1>3, <2>1, <2>2, <2>4, GotoFacts DEF Search, StaysSound
  <2> QED
    BY <2>3, <2>4
<1>4. ASSUME NEW t \in Threads, Execute(t) \/ Reconcile(t), ~CallAccepted(t), ~Search(t)
      PROVE  StaysSound(u)
  <2>1. thread[t].at # "idle"
    BY <1>1, <1>4, MovingThread
  <2>2. CASE Load(t) \/ Submit(t)
    <3>1. \E r : thread' = [thread EXCEPT ![t] = r] /\ r.at \in {"finish", "lock", "call"}
      <4>1. thread[t] \in ThreadRecords
        BY <1>1, <2>1, BusyThread
      <4>2. \/ Answer(t, "retry") \/ Answer(t, "success")
            \/ thread' = [thread EXCEPT ![t].at = "lock", ![t].tries = tries[Intent(t)],
                                        ![t].on = routeOn]
            \/ thread' = [thread EXCEPT ![t].at = "call", ![t].copied = SelectTrade(Intent(t))]
        BY <2>2 DEF Load, Submit
      <4>3. CASE Answer(t, "retry") \/ Answer(t, "success")
        <5> PICK x : thread' = [thread EXCEPT ![t].at = "finish", ![t].result = x]
          BY <4>3 DEF Answer
        <5> DEFINE r == [thread[t] EXCEPT !.at = "finish", !.result = x]
        <5>1. r.at = "finish"
          BY <4>1 DEF ThreadRecords
        <5> QED
          BY <5>1
      <4>4. CASE thread' = [thread EXCEPT ![t].at = "lock", ![t].tries = tries[Intent(t)],
                                          ![t].on = routeOn]
        <5> DEFINE r == [thread[t] EXCEPT !.at = "lock", !.tries = tries[Intent(t)], !.on = routeOn]
        <5>1. r.at = "lock"
          BY <4>1 DEF ThreadRecords
        <5> QED
          BY <4>4, <5>1
      <4>5. CASE thread' = [thread EXCEPT ![t].at = "call", ![t].copied = SelectTrade(Intent(t))]
        <5> DEFINE r == [thread[t] EXCEPT !.at = "call", !.copied = SelectTrade(Intent(t))]
        <5>1. r.at = "call"
          BY <4>1 DEF ThreadRecords
        <5> QED
          BY <4>5, <5>1
      <4> QED
        BY <4>2, <4>3, <4>4, <4>5
    <3> QED
      BY <1>1, <3>1 DEF StaysSound, TypeOK
  <2>3. CASE ~(Load(t) \/ Submit(t))
    <3>1. {"guard", "connect", "quality", "submit", "reject", "unsure", "publish", "rmark",
           "search"} \subseteq Steps
      BY DEF Steps, ExecuteSteps, ReconcileSteps
    <3>2. \/ Answer(t, "retry") \/ Answer(t, "success")
          \/ \E s \in {"guard", "connect", "quality", "submit", "reject", "unsure", "publish",
                       "rmark", "search"} : Goto(t, s)
      BY <1>4, <2>3 DEF Execute, LoadWithoutSubscription, AcquireLock, LockTimeout, Guard,
           Unavailable, Connect, QualityAccepted, QualityRefused, CallRejected, CallUnanswered,
           Confirm, Reject, Unsure, PublishReconcile, Reconcile, LoadUnresolved, MarkReconciling,
           SearchUnreachable, Resolve
    <3>3. thread'[t].at \notin {"confirm", "found"}
          /\ \A v \in Threads : v # t => thread'[v] = thread[v]
      <4>1. CASE Answer(t, "retry") \/ Answer(t, "success")
        BY <1>1, <2>1, <4>1, AnswerFacts
      <4>2. ASSUME NEW s \in {"guard", "connect", "quality", "submit", "reject", "unsure",
                              "publish", "rmark", "search"}, Goto(t, s)
            PROVE  thread'[t].at \notin {"confirm", "found"}
                   /\ \A v \in Threads : v # t => thread'[v] = thread[v]
        BY <1>1, <2>1, <3>1, <4>2, GotoFacts
      <4> QED
        BY <3>2, <4>1, <4>2
    <3> QED
      BY <3>3 DEF StaysSound
  <2> QED
    BY <2>2, <2>3
<1>5. ASSUME NEW t \in Threads, Finish(t) \/ Crash(t) PROVE StaysSound(u)
  BY <1>1, <1>5, ClearFacts DEF Finish, Crash, Idle, StaysSound
<1>6. ASSUME NEW t \in Threads, NEW e \in Events, Take(t, e) PROVE StaysSound(u)
  BY <1>1, <1>6 DEF Take, Idle, StaysSound, TypeOK
<1>7. CASE (\E e \in Events : Replay(e)) \/ Environment
  BY <1>7 DEF StaysSound, Replay, Environment, PublishIntent, CommitIntent, Sweep, Synchronize, Age,
       ReconcileTrade, CloseAtBroker, SetPause, SetRoute, LeaseExpires
<1> QED
  BY <1>2, <1>3, <1>4, <1>5, <1>6, <1>7 DEF Next

(***************************************************************************)
(* Evidence is kept by every step.                                         *)
(***************************************************************************)
LEMMA EvidenceStep == ASSUME OnceInv, OnceInv', Evidence, [Next]_vars PROVE Evidence'
<1>1. CASE UNCHANGED vars
  BY <1>1 DEF vars, broker, Evidence, HasEvidence, Intent
<1>2. CASE Next
  <2>1. TypeOK /\ TypeOK'
    BY DEF OnceInv
  <2>2. \A i \in Intents : sent'[i] >= sent[i] /\ sent[i] \in Nat /\ sent'[i] \in Nat
    BY <1>2, <2>1, OperationsStay DEF TypeOK
  <2>3. ASSUME NEW i \in Intents, synced'[i] PROVE sent'[i] > 0
    <3>1. synced' = synced \/ \E j \in Intents : Synchronize(j)
      <4>1. ASSUME NEW t \in Threads, Execute(t) PROVE synced' = synced
        BY <4>1, Zenon DEF Execute, Load, LoadWithoutSubscription, AcquireLock, LockTimeout, Guard,
             Unavailable, Connect, QualityAccepted, QualityRefused, Submit, CallAccepted,
             CallRejected, CallUnanswered, Confirm, Reject, Unsure, PublishReconcile, broker
      <4>2. ASSUME NEW t \in Threads, Reconcile(t) \/ Finish(t) \/ Crash(t)
            PROVE  synced' = synced
        BY <4>2, Zenon DEF Reconcile, LoadUnresolved, MarkReconciling, Search, SearchUnreachable,
             Resolve, Finish, Crash, broker
      <4>3. ASSUME \/ \E t \in Threads, e \in Events : Take(t, e)
                   \/ \E e \in Events : Replay(e)
                   \/ Environment
            PROVE  synced' = synced \/ \E j \in Intents : Synchronize(j)
        BY <4>3, Zenon DEF Take, Replay, Environment, PublishIntent, CommitIntent, Sweep, Age,
             ReconcileTrade, CloseAtBroker, SetPause, SetRoute, LeaseExpires, broker
      <4> QED
        BY <1>2, <4>1, <4>2, <4>3 DEF Next
    <3>2. CASE synced[i]
      BY <2>2, <3>2 DEF Evidence
    <3>3. CASE ~synced[i]
      <4>1. Synchronize(i)
        BY <2>1, <2>3, <3>1, <3>3 DEF Synchronize, TypeOK
      <4> QED
        BY <4>1 DEF Synchronize
    <3> QED
      BY <3>2, <3>3, Zenon
  <2>4. ASSUME NEW t \in Threads PROVE HasEvidence(t)'
    <3>1. StaysSound(t)
      BY <1>2, MovesAreSound
    <3>2. CASE thread'[t] = thread[t] /\ thread[t].at \in {"confirm", "found"}
      <4>1. Intent(t) \in Intents /\ Intent(t)' = Intent(t)
        BY <2>1, <3>2, BusyThread DEF Intent
      <4> QED
        BY <2>2, <3>2, <4>1 DEF Evidence, HasEvidence
    <3> QED
      BY <3>1, <3>2 DEF StaysSound, HasEvidence
  <2> QED
    BY <2>3, <2>4 DEF Evidence
<1> QED
  BY <1>1, <1>2

\* A state of an intent that is no outcome changes nothing for the user.
LEMMA OutcomeStays ==
    ASSUME TypeOK, NEW i \in Intents, NEW s \in States, s \notin Resolved,
           state[i] \notin Resolved, SetState(i, s)
    PROVE  Outcome' = Outcome
<1>1. \A j \in Intents : Outcome'[j] = Outcome[j]
  BY SetStateFacts DEF Outcome
<1> QED
  BY <1>1 DEF Outcome

\* An outcome is told once.
LEMMA OutcomeTold ==
    ASSUME TypeOK, NEW i \in Intents, NEW s \in Resolved, state[i] \notin Resolved, SetState(i, s)
    PROVE  Outcome[i] = "open" /\ Outcome' = [Outcome EXCEPT ![i] = s]
<1>1. s \in States
  BY DEF States, Resolved
<1>2. \A j \in Intents : Outcome'[j] = IF j = i THEN s ELSE Outcome[j]
  BY <1>1, SetStateFacts DEF Outcome
<1> QED
  BY <1>2 DEF Outcome

\* What a step is for the contract.
LEMMA ContractSteps ==
    ASSUME NEW i \in Intents
    PROVE  /\ Contract!CarryOut(i) => Contract!Next
           /\ Contract!Confirm(i) => Contract!Next
           /\ Contract!Fail(i) => Contract!Next
           /\ Contract!BecomeOverdue(i) => Contract!Next
BY DEF Contract!Next

(***************************************************************************)
(* A failure is legitimate: nothing was done, or the intent is overdue.    *)
(***************************************************************************)
LEMMA FailureIsLegitimate ==
    ASSUME OnceInv, OnceInv', NEW i \in Intents, state[i] \notin Resolved, SetState(i, "failed"),
           sent' = sent, aged' = aged
    PROVE  Contract!Fail(i)
<1>1. "failed" \in Resolved /\ "failed" \in States /\ TypeOK
  BY DEF Resolved, States, OnceInv
<1>2. Outcome[i] = "open" /\ Outcome' = [Outcome EXCEPT ![i] = "failed"]
  BY <1>1, OutcomeTold
<1>3. sent[i] = 0 \/ aged[i]
  <2>1. state'[i] = "failed"
    BY <1>1, SetStateFacts
  <2>2. sent[i] \in Nat
    BY <1>1 DEF TypeOK
  <2> QED
    BY <2>1, <2>2 DEF OnceInv, IntentOK
<1> QED
  BY <1>2, <1>3 DEF Contract!Fail

\* A confirmation has the broker's operation behind it.
LEMMA ConfirmationIsTrue ==
    ASSUME OnceInv, Evidence, NEW t \in Threads, thread[t].at \in {"confirm", "found"},
           state[Intent(t)] \notin Resolved, SetState(Intent(t), "confirmed"),
           sent' = sent, aged' = aged
    PROVE  Intent(t) \in Intents /\ Contract!Confirm(Intent(t))
<1>1. "confirmed" \in Resolved /\ TypeOK
  BY DEF Resolved, OnceInv
<1>2. Intent(t) \in Intents
  BY <1>1, BusyThread
<1>3. Outcome[Intent(t)] = "open" /\ Outcome' = [Outcome EXCEPT ![Intent(t)] = "confirmed"]
  BY <1>1, <1>2, OutcomeTold
<1>4. sent[Intent(t)] = 1
  BY <1>1, <1>2 DEF Evidence, HasEvidence, OnceInv, IntentOK, TypeOK
<1> QED
  BY <1>2, <1>3, <1>4 DEF Contract!Confirm

(***************************************************************************)
(* Every step of intent.execute is a step of the contract or none.         *)
(***************************************************************************)
LEMMA ExecuteHonours ==
    ASSUME OnceInv, OnceInv', Evidence, NEW t \in Threads, Execute(t)
    PROVE  Contract!Next \/ UNCHANGED <<Outcome, sent, aged>>
<1>1. TypeOK
  BY DEF OnceInv
<1>2. thread[t].at # "idle" /\ Intent(t) \in Intents /\ ThreadOK(t) /\ thread[t].event[2] = Intent(t)
  BY <1>1, MovingThread DEF OnceInv, Intent
<1> PICK i \in Intents : i = Intent(t)
  BY <1>2
<1>3. CASE \/ Load(t) \/ AcquireLock(t) \/ LockTimeout(t) \/ Unavailable(t) \/ Connect(t)
           \/ QualityAccepted(t) \/ CallRejected(t) \/ PublishReconcile(t)
  BY <1>3 DEF Load, AcquireLock, LockTimeout, Unavailable, Connect, QualityAccepted,
       CallRejected, PublishReconcile, database, broker, Outcome
<1>4. CASE \/ LoadWithoutSubscription(t) \/ Guard(t) \/ Submit(t)
           \/ \E b \in BOOLEAN : QualityRefused(t, b)
  <2>1. state[i] \notin Resolved
    BY <1>2, <1>4 DEF LoadWithoutSubscription, Guard, Submit, QualityRefused, At, ThreadOK,
         BeforeSubmit, Executable, Resolved
  <2>2. sent' = sent /\ aged' = aged
    BY <1>4 DEF LoadWithoutSubscription, Guard, Submit, QualityRefused, broker
  <2>3. state' = state \/ SetState(i, "failed") \/ SetState(i, "retryable") \/ SetState(i, "submitted")
    BY <1>4 DEF LoadWithoutSubscription, Guard, Submit, QualityRefused
  <2>4. CASE state' = state
    BY <2>2, <2>4 DEF Outcome
  <2>5. CASE SetState(i, "failed")
    BY <2>1, <2>2, <2>5, FailureIsLegitimate, ContractSteps
  <2>6. CASE SetState(i, "retryable") \/ SetState(i, "submitted")
    <3>1. {"retryable", "submitted"} \subseteq States \ Resolved
      BY DEF States, Resolved
    <3> QED
      BY <1>1, <2>1, <2>2, <2>6, <3>1, OutcomeStays
  <2> QED
    BY <2>3, <2>4, <2>5, <2>6
<1>5. CASE CallAccepted(t) \/ CallUnanswered(t)
  <2>1. state[i] = "submitted" /\ sent[i] = 0 /\ state' = state /\ aged' = aged
    BY <1>2, <1>5 DEF CallAccepted, CallUnanswered, At, ThreadOK, database
  <2>2. Outcome[i] = "open" /\ Outcome' = Outcome
    BY <2>1 DEF Outcome, Resolved
  <2>3. sent' = sent \/ sent' = [sent EXCEPT ![i] = sent[i] + 1]
    BY <1>5 DEF CallAccepted, CallUnanswered, BrokerApplies
  <2>4. sent' = sent \/ sent' = [sent EXCEPT ![i] = 1]
    BY <2>1, <2>3
  <2>5. sent' = sent \/ Contract!CarryOut(i)
    BY <2>1, <2>2, <2>4 DEF Contract!CarryOut
  <2> QED
    BY <2>1, <2>2, <2>5, ContractSteps
<1>6. CASE Confirm(t) \/ Reject(t) \/ Unsure(t)
  <2>1. state[i] = "submitted" /\ state[i] \notin Resolved
    BY <1>2, <1>6 DEF Confirm, Reject, Unsure, At, ThreadOK, Resolved
  <2>2. sent' = sent /\ aged' = aged
    BY <1>6 DEF Confirm, Reject, Unsure, broker
  <2>3. \/ state' = state
        \/ SetState(i, "failed") \/ SetState(i, "uncertain")
        \/ SetState(i, "confirmed") /\ thread[t].at = "confirm"
    BY <1>6 DEF Confirm, Reject, Unsure, At
  <2>4. CASE state' = state
    BY <2>2, <2>4 DEF Outcome
  <2>5. CASE SetState(i, "failed")
    BY <2>1, <2>2, <2>5, FailureIsLegitimate, ContractSteps
  <2>6. CASE SetState(i, "uncertain")
    <3>1. "uncertain" \in States \ Resolved
      BY DEF States, Resolved
    <3> QED
      BY <1>1, <2>1, <2>2, <2>6, <3>1, OutcomeStays
  <2>7. CASE SetState(i, "confirmed") /\ thread[t].at = "confirm"
    BY <2>1, <2>2, <2>7, ConfirmationIsTrue, ContractSteps
  <2> QED
    BY <2>3, <2>4, <2>5, <2>6, <2>7
<1> QED
  BY <1>3, <1>4, <1>5, <1>6 DEF Execute

\* So is every step of a reconciliation.
LEMMA ReconcileHonours ==
    ASSUME OnceInv, OnceInv', Evidence, NEW t \in Threads, Reconcile(t)
    PROVE  Contract!Next \/ UNCHANGED <<Outcome, sent, aged>>
<1>1. TypeOK
  BY DEF OnceInv
<1>2. thread[t].at # "idle" /\ Intent(t) \in Intents /\ ThreadOK(t) /\ thread[t].event[2] = Intent(t)
  BY <1>1, MovingThread DEF OnceInv, Intent
<1> PICK i \in Intents : i = Intent(t)
  BY <1>2
<1>3. CASE LoadUnresolved(t) \/ Search(t) \/ SearchUnreachable(t)
  BY <1>3 DEF LoadUnresolved, Search, SearchUnreachable, database, broker, Outcome
<1>4. CASE MarkReconciling(t) \/ Resolve(t)
  <2>1. state[i] \notin Resolved
    BY <1>2, <1>4 DEF MarkReconciling, Resolve, At, ThreadOK, ReconcileSteps, Unresolved, Resolved
  <2>2. sent' = sent /\ aged' = aged
    BY <1>4 DEF MarkReconciling, Resolve, broker
  <2>3. \/ SetState(i, "failed") \/ SetState(i, "uncertain") \/ SetState(i, "reconciling")
        \/ SetState(i, "confirmed") /\ thread[t].at = "found"
    BY <1>4 DEF MarkReconciling, Resolve, AfterMissing, At
  <2>4. CASE SetState(i, "failed")
    BY <2>1, <2>2, <2>4, FailureIsLegitimate, ContractSteps
  <2>5. CASE SetState(i, "uncertain") \/ SetState(i, "reconciling")
    <3>1. {"uncertain", "reconciling"} \subseteq States \ Resolved
      BY DEF States, Resolved
    <3> QED
      BY <1>1, <2>1, <2>2, <2>5, <3>1, OutcomeStays
  <2>6. CASE SetState(i, "confirmed") /\ thread[t].at = "found"
    BY <2>1, <2>2, <2>6, ConfirmationIsTrue, ContractSteps
  <2> QED
    BY <2>3, <2>4, <2>5, <2>6
<1> QED
  BY <1>3, <1>4 DEF Reconcile

\* The rest does not touch an outcome; time may make an intent overdue.
LEMMA EnvironmentHonours ==
    ASSUME OnceInv, Environment
    PROVE  Contract!Next \/ UNCHANGED <<Outcome, sent, aged>>
<1>1. TypeOK
  BY DEF OnceInv
<1>2. ASSUME NEW i \in Intents, PublishIntent(i) \/ CommitIntent(i, "created") \/ CommitIntent(i, "discarded")
      PROVE  UNCHANGED <<Outcome, sent, aged>>
  <2>1. /\ state[i] \notin Resolved /\ sent' = sent /\ aged' = aged
        /\ SetState(i, "published") \/ SetState(i, "created") \/ SetState(i, "discarded")
    BY <1>2 DEF PublishIntent, CommitIntent, broker, Resolved
  <2>2. {"published", "created", "discarded"} \subseteq States \ Resolved
    BY DEF States, Resolved
  <2> QED
    BY <1>1, <2>1, <2>2, OutcomeStays
<1>3. ASSUME NEW i \in Intents, Age(i) PROVE Contract!Next
  <2>1. Contract!BecomeOverdue(i)
    BY <1>3 DEF Age, database, broker, Outcome, Contract!BecomeOverdue
  <2> QED
    BY <2>1, ContractSteps
<1>4. \/ UNCHANGED <<state, sent, aged>>
      \/ \E i \in Intents : PublishIntent(i) \/ CommitIntent(i, "created") \/ CommitIntent(i, "discarded")
                            \/ Age(i)
  BY DEF Environment, Sweep, Synchronize, ReconcileTrade, CloseAtBroker, SetPause, SetRoute,
       LeaseExpires, database, broker
<1>5. UNCHANGED <<state, sent, aged>> => UNCHANGED <<Outcome, sent, aged>>
  BY DEF Outcome
<1> QED
  BY <1>2, <1>3, <1>4, <1>5

(***************************************************************************)
(* If deliveries of one intent do not overlap, execution implements its    *)
(* contract, for any intents, threads and crashes: one broker operation at *)
(* most, confirmations that are true, failures that hide nothing before    *)
(* the maximum age, and outcomes that are final.                           *)
(***************************************************************************)
THEOREM ImplementsContractHolds == ASSUME ~Overlap PROVE Safety => ImplementsContract
<1>1. Init => Contract!Init /\ Evidence
  <2> SUFFICES ASSUME Init PROVE Contract!Init /\ Evidence
    OBVIOUS
  <2>1. Contract!Init
    BY DEF Init, Outcome, Resolved, Contract!Init
  <2>2. Evidence
    BY DEF Init, Idle, Evidence, HasEvidence
  <2> QED
    BY <2>1, <2>2
<1>2. OnceInv /\ OnceInv' /\ Evidence /\ [Next]_vars => Evidence'
  BY EvidenceStep
<1>3. OnceInv /\ OnceInv' /\ Evidence /\ [Next]_vars => [Contract!Next]_(Contract!contractVars)
  <2> SUFFICES ASSUME OnceInv, OnceInv', Evidence, [Next]_vars
               PROVE  Contract!Next \/ UNCHANGED <<Outcome, sent, aged>>
    BY DEF Contract!contractVars
  <2>1. CASE UNCHANGED vars
    BY <2>1 DEF vars, database, broker, Outcome
  <2>2. ASSUME \/ \E t \in Threads : Finish(t) \/ Crash(t) \/ \E e \in Events : Take(t, e)
               \/ \E e \in Events : Replay(e)
        PROVE  UNCHANGED <<Outcome, sent, aged>>
    BY <2>2 DEF Finish, Crash, Take, Replay, database, broker, Outcome
  <2> QED
    BY <2>1, <2>2, ExecuteHonours, ReconcileHonours, EnvironmentHonours DEF Next
<1> QED
  BY <1>1, <1>2, <1>3, OnceInvariant, PTL DEF Safety, ImplementsContract, Contract!Spec

\* A confirmed intent has exactly one operation at the broker.
ConfirmedIsDone == \A i \in Intents : state[i] = "confirmed" => sent[i] = 1

(***************************************************************************)
(* What the contract says of confirmations: whether its handler's answer   *)
(* or a reconciliation confirmed an intent, the broker carried out its     *)
(* operation, once, under the same condition.                              *)
(***************************************************************************)
THEOREM ConfirmedIsDoneHolds == ASSUME ~Overlap PROVE Safety => []ConfirmedIsDone
<1> DEFINE Told == \A i \in Intents : Outcome[i] = "confirmed" => sent[i] = 1
<1>1. Contract!Init => Told
  BY DEF Contract!Init
<1>2. Told /\ [Contract!Next]_(Contract!contractVars) => Told'
  <2> SUFFICES ASSUME Told, [Contract!Next]_(Contract!contractVars), NEW i \in Intents,
                      Outcome'[i] = "confirmed"
               PROVE  sent'[i] = 1
    OBVIOUS
  <2>1. CASE UNCHANGED Contract!contractVars
    BY <2>1 DEF Contract!contractVars
  <2>2. ASSUME NEW j \in Intents, Contract!CarryOut(j) PROVE sent'[i] = 1
    <3>1. Outcome'[i] = Outcome[i] /\ Outcome[j] = "open" /\ sent' = [sent EXCEPT ![j] = 1]
      BY <2>2 DEF Contract!CarryOut
    <3>2. i # j /\ sent[i] = 1
      BY <3>1
    <3> QED
      BY <3>1, <3>2
  <2>3. ASSUME NEW j \in Intents, Contract!Confirm(j) PROVE sent'[i] = 1
    <3>1. sent' = sent /\ sent[j] = 1 /\ Outcome' = [Outcome EXCEPT ![j] = "confirmed"]
      BY <2>3 DEF Contract!Confirm
    <3>2. CASE i = j
      BY <3>1, <3>2
    <3>3. CASE i # j
      <4>1. Outcome'[i] = Outcome[i]
        BY <3>1, <3>3 DEF Outcome
      <4> QED
        BY <3>1, <4>1
    <3> QED
      BY <3>2, <3>3
  <2>4. ASSUME NEW j \in Intents, Contract!Fail(j) PROVE sent'[i] = 1
    <3>1. sent' = sent /\ Outcome' = [Outcome EXCEPT ![j] = "failed"]
      BY <2>4 DEF Contract!Fail
    <3>2. Outcome'[i] = "failed" \/ Outcome'[i] = Outcome[i]
      BY <3>1 DEF Outcome
    <3> QED
      BY <3>1, <3>2
  <2>5. ASSUME NEW j \in Intents, Contract!BecomeOverdue(j) PROVE sent'[i] = 1
    BY <2>5 DEF Contract!BecomeOverdue
  <2> QED
    BY <2>1, <2>2, <2>3, <2>4, <2>5 DEF Contract!Next
<1>3. Told => ConfirmedIsDone
  BY DEF ConfirmedIsDone, Outcome, Resolved
<1> HIDE DEF Told
<1> QED
  BY <1>1, <1>2, <1>3, ImplementsContractHolds, PTL DEF ImplementsContract, Contract!Spec
-----------------------------------------------------------------------------
(***************************************************************************)
(* What the connection lock gives when no handler outlives its lease: one  *)
(* handler at a time is past its acquisition, so what its guard and its    *)
(* risk check saw still holds when it calls the broker and confirms.       *)
(***************************************************************************)
Locked == {"guard", "connect", "quality", "submit", "call", "confirm", "reject",
           "unsure", "publish"}

HoldsLock(t) == thread[t].at \in Locked => lock = t

CallsAhead(t) ==
    thread[t].at \in {"connect", "quality", "submit", "call"} /\ paused => sincePause = 0

RoomLeft(t) ==
    thread[t].at \in {"call", "confirm"} /\ Intent(t) \in Opens => Cardinality(Tracked) < MaxOpen

LockInv ==
    /\ TypeOK
    /\ \A t \in Threads : HoldsLock(t) /\ CallsAhead(t) /\ RoomLeft(t)
    /\ PauseHolds
    /\ TrackedWithinLimit

\* Tracked is finite; its cardinality is a number.
LEMMA TrackedFinite == IsFiniteSet(Tracked) /\ Cardinality(Tracked) \in Nat
<1>1. Tracked \subseteq Opens
  BY DEF Tracked
<1> QED
  BY <1>1, ExecutionAssumption, FS_Subset, FS_CardinalityType

(***************************************************************************)
(* A step that leaves the lock, the pause, the count and the trades alone  *)
(* and moves no thread into a critical step it was not in before.          *)
(***************************************************************************)
LEMMA QuietStep ==
    ASSUME LockInv, TypeOK', UNCHANGED <<paused, sincePause, trade>>,
           \A u \in Threads :
              \/ thread'[u].at \notin Locked
              \/ thread'[u] = thread[u] /\ (lock = u => lock' = u)
    PROVE  LockInv'
<1>1. Tracked' = Tracked
  BY DEF Tracked
<1>2. PauseHolds' /\ TrackedWithinLimit'
  BY <1>1 DEF LockInv, PauseHolds, TrackedWithinLimit
<1>3. ASSUME NEW u \in Threads PROVE HoldsLock(u)' /\ CallsAhead(u)' /\ RoomLeft(u)'
  BY <1>1 DEF LockInv, HoldsLock, CallsAhead, RoomLeft, Locked, Intent
<1> QED
  BY <1>2, <1>3 DEF LockInv

(***************************************************************************)
(* A step of the thread that holds the lock.                               *)
(***************************************************************************)
LEMMA HolderStep ==
    ASSUME LockInv, TypeOK', NEW t \in Threads, lock' = t, lock \in {t, NoOwner},
           UNCHANGED paused,
           \A u \in Threads : u # t => thread'[u] = thread[u],
           CallsAhead(t)', RoomLeft(t)', PauseHolds', TrackedWithinLimit'
    PROVE  LockInv'
<1>1. ASSUME NEW u \in Threads, u # t
      PROVE  HoldsLock(u)' /\ CallsAhead(u)' /\ RoomLeft(u)'
  <2>1. thread'[u].at \notin Locked
    BY <1>1, ExecutionAssumption DEF LockInv, HoldsLock
  <2> QED
    BY <2>1 DEF HoldsLock, CallsAhead, RoomLeft, Locked
<1>2. HoldsLock(t)'
  BY DEF HoldsLock
<1> QED
  BY <1>1, <1>2 DEF LockInv

(***************************************************************************)
(* The steps of intent.execute keep LockInv.                               *)
(***************************************************************************)
LEMMA ExecuteLocked ==
    ASSUME NEW t \in Threads, LockInv, Execute(t) PROVE LockInv'
<1>1. thread[t].at # "idle"
  BY DEF Execute, Load, LoadWithoutSubscription, AcquireLock, LockTimeout, Guard, Unavailable,
         Connect, QualityAccepted, QualityRefused, Submit, CallAccepted, CallRejected,
         CallUnanswered, Confirm, Reject, Unsure, PublishReconcile, At
<1>2. TypeOK /\ TypeOK'
  BY ExecuteTypes DEF LockInv
<1>3. thread[t] \in ThreadRecords /\ Intent(t) \in Intents
  BY <1>1, <1>2, BusyThread
<1>4. HoldsLock(t) /\ CallsAhead(t) /\ RoomLeft(t) /\ PauseHolds /\ TrackedWithinLimit
  BY DEF LockInv
<1>5. {"lock", "guard", "connect", "quality", "submit", "call", "confirm", "reject",
       "unsure", "publish", "finish"} \subseteq Steps
  BY DEF Steps, ExecuteSteps
<1> USE <1>1, <1>2, <1>3, <1>4, <1>5
<1> DEFINE Moved(s) == /\ thread'[t].at = s /\ thread'[t].event = thread[t].event
                       /\ \A u \in Threads : u # t => thread'[u] = thread[u]
<1>6. ASSUME Moved("finish") \/ Moved("lock"), lock' = lock, UNCHANGED <<paused, sincePause, trade>>
      PROVE  LockInv'
  BY <1>6, QuietStep DEF Locked
<1>7. CASE \/ LoadWithoutSubscription(t) \/ LockTimeout(t) \/ Unavailable(t)
           \/ (\E b \in BOOLEAN : QualityRefused(t, b)) \/ Reject(t) \/ PublishReconcile(t)
  <2>1. Moved("finish")
    BY <1>7, AnswerFacts DEF LoadWithoutSubscription, LockTimeout, Unavailable, QualityRefused,
         Reject, PublishReconcile
  <2>2. UNCHANGED <<lock, paused, sincePause, trade>>
    BY <1>7 DEF LoadWithoutSubscription, LockTimeout, Unavailable, QualityRefused,
         Reject, PublishReconcile, database
  <2> QED
    BY <1>6, <2>1, <2>2
<1>8. CASE Load(t)
  <2>1. Moved("finish") \/ Moved("lock")
    <3>1. CASE Answer(t, "retry") \/ Answer(t, "success")
      BY <3>1, AnswerFacts
    <3>2. CASE thread' = [thread EXCEPT ![t].at = "lock", ![t].tries = tries[Intent(t)],
                                         ![t].on = routeOn]
      BY <3>2 DEF TypeOK, ThreadRecords
    <3> QED
      BY <1>8, <3>1, <3>2 DEF Load
  <2>2. UNCHANGED <<lock, paused, sincePause, trade>>
    BY <1>8 DEF Load, database
  <2> QED
    BY <1>6, <2>1, <2>2
\* Towards the submission: the guard lets a handler through only unpaused.
<1>9. CASE AcquireLock(t) \/ Guard(t) \/ Connect(t) \/ QualityAccepted(t) \/ Unsure(t)
  <2>1. UNCHANGED <<paused, sincePause, trade>> /\ lock' \in {t, lock}
    BY <1>9 DEF AcquireLock, Guard, Connect, QualityAccepted, Unsure, database
  <2>2. CASE Guard(t) /\ Blocked(t)
    <3>1. Moved("finish") /\ lock' = lock
      BY <2>2, AnswerFacts DEF Guard
    <3> QED
      BY <1>6, <2>1, <3>1
  <2>3. CASE ~(Guard(t) /\ Blocked(t))
    <3>1. PICK x \in {"guard", "connect", "quality", "submit", "publish"} :
             /\ Goto(t, x)
             /\ x \in {"quality", "submit"} =>
                   thread[t].at \in {"connect", "quality"}
             /\ x = "connect" => ~paused
      BY <1>9, <2>3 DEF AcquireLock, Guard, Connect, QualityAccepted, Unsure, At, Blocked
    <3>2. Moved(x)
      BY <3>1, GotoFacts
    <3>3. lock' = t /\ lock \in {t, NoOwner}
      BY <1>9 DEF AcquireLock, LockFree, Guard, Connect, QualityAccepted, Unsure, At, HoldsLock, Locked
    <3>4. Tracked' = Tracked
      BY <2>1 DEF Tracked
    <3>5. CallsAhead(t)' /\ RoomLeft(t)' /\ PauseHolds' /\ TrackedWithinLimit'
      BY <2>1, <3>1, <3>2, <3>4 DEF CallsAhead, RoomLeft, PauseHolds, TrackedWithinLimit
    <3> QED
      BY <2>1, <3>2, <3>3, <3>5, HolderStep
  <2> QED
    BY <2>2, <2>3
\* The risk check leaves room for one more trade.
<1>10. CASE Submit(t)
  <2>1. UNCHANGED <<lock, paused, sincePause, trade>> /\ lock = t
    BY <1>10 DEF Submit, At, HoldsLock, Locked
  <2>2. CASE Answer(t, "success")
    BY <1>6, <2>1, <2>2, AnswerFacts
  <2>3. CASE ~Answer(t, "success")
    <3>1. /\ Intent(t) \in Closes \/ Cardinality(Tracked) < MaxOpen
          /\ thread' = [thread EXCEPT ![t].at = "call", ![t].copied = SelectTrade(Intent(t))]
      BY <1>10, <2>3 DEF Submit, WithinRisk
    <3>2. Moved("call")
      BY <3>1 DEF TypeOK, ThreadRecords
    <3>3. Tracked' = Tracked /\ Intent(t)' = Intent(t)
      BY <2>1, <3>2 DEF Tracked, Intent
    <3>4. CallsAhead(t)' /\ RoomLeft(t)' /\ PauseHolds' /\ TrackedWithinLimit'
      BY <1>10, <2>1, <3>1, <3>2, <3>3, ExecutionAssumption
         DEF Submit, At, CallsAhead, RoomLeft, PauseHolds, TrackedWithinLimit
    <3> QED
      BY <2>1, <3>2, <3>4, HolderStep
  <2> QED
    BY <2>2, <2>3
\* The call counts once, and the holder makes no further one.
<1>11. CASE CallAccepted(t) \/ CallRejected(t) \/ CallUnanswered(t)
  <2>1. /\ thread[t].at = "call" /\ UNCHANGED <<lock, paused, trade>> /\ lock = t
        /\ CountCall
    BY <1>11 DEF CallAccepted, CallRejected, CallUnanswered, At, HoldsLock, Locked, database
  <2>2. PICK x \in {"confirm", "reject", "unsure"} : Moved(x)
    BY <1>11, GotoFacts DEF CallAccepted, CallRejected, CallUnanswered
  <2>3. Tracked' = Tracked /\ Intent(t)' = Intent(t)
    BY <2>1, <2>2 DEF Tracked, Intent
  <2>4. PauseHolds'
    BY <2>1 DEF CountCall, PauseHolds, CallsAhead, TypeOK
  <2>5. CallsAhead(t)' /\ RoomLeft(t)' /\ TrackedWithinLimit'
    BY <2>1, <2>2, <2>3 DEF CallsAhead, RoomLeft, TrackedWithinLimit
  <2> QED
    BY <2>1, <2>2, <2>4, <2>5, HolderStep
\* The trade that is added is the one the risk check left room for.
<1>12. CASE Confirm(t)
  <2>1. UNCHANGED <<lock, paused, sincePause>> /\ lock = t /\ thread[t].at = "confirm"
    BY <1>12 DEF Confirm, At, HoldsLock, Locked
  <2>2. Moved("finish")
    BY <1>12, AnswerFacts DEF Confirm
  <2>3. Cardinality(Tracked') <= MaxOpen
    <3>1. CASE UNCHANGED trade
      <4>1. Tracked' = Tracked
        BY <3>1 DEF Tracked
      <4> QED
        BY <4>1 DEF TrackedWithinLimit
    <3>2. CASE Intent(t) \in Opens /\ trade' = [trade EXCEPT ![Intent(t)] = "open"]
      <4>1. Tracked' = Tracked \cup {Intent(t)}
        BY <3>2 DEF Tracked, TypeOK
      <4>2. Cardinality(Tracked) < MaxOpen
        BY <2>1, <3>2 DEF RoomLeft
      <4>3. Cardinality(Tracked') \in {Cardinality(Tracked), Cardinality(Tracked) + 1}
        BY <4>1, TrackedFinite, FS_AddElement
      <4> QED
        BY <4>2, <4>3, TrackedFinite, ExecutionAssumption
    <3>3. CASE Intent(t) \notin Opens /\ trade' = [trade EXCEPT ![Target[Intent(t)]] = "closed"]
      <4>1. Tracked' \subseteq Tracked
        BY <3>3 DEF Tracked, TypeOK
      <4>2. Cardinality(Tracked') <= Cardinality(Tracked) /\ Cardinality(Tracked') \in Nat
        BY <4>1, TrackedFinite, FS_Subset, FS_CardinalityType
      <4> QED
        BY <4>2, TrackedFinite, ExecutionAssumption DEF TrackedWithinLimit
    <3> QED
      BY <1>12, <3>1, <3>2, <3>3 DEF Confirm
  <2>4. CallsAhead(t)' /\ RoomLeft(t)' /\ PauseHolds' /\ TrackedWithinLimit'
    BY <2>1, <2>2, <2>3 DEF CallsAhead, RoomLeft, PauseHolds, TrackedWithinLimit
  <2> QED
    BY <2>1, <2>2, <2>4, HolderStep
<1> QED
  BY <1>7, <1>8, <1>9, <1>10, <1>11, <1>12 DEF Execute

(***************************************************************************)
(* LockInv is an invariant when no handler outlives its lease.             *)
(***************************************************************************)
LEMMA LockStep == ASSUME ~LeaseOverrun, LockInv, [Next]_vars PROVE LockInv'
<1>1. TypeOK /\ TypeOK'
  BY TypeStep DEF LockInv
<1>2. CASE UNCHANGED vars
  BY <1>1, <1>2, QuietStep DEF vars, database
<1>3. ASSUME NEW t \in Threads, Execute(t) PROVE LockInv'
  BY <1>3, ExecuteLocked
<1>4. ASSUME NEW t \in Threads, Reconcile(t) PROVE LockInv'
  <2>1. thread[t].at # "idle"
    BY <1>4 DEF Reconcile, LoadUnresolved, MarkReconciling, Search, SearchUnreachable, Resolve, At
  <2>2. PICK x \in {"finish", "rmark", "search", "found", "missing"} :
          /\ thread'[t].at = x
          /\ \A u \in Threads : u # t => thread'[u] = thread[u]
    <3>1. {"finish", "rmark", "search", "found", "missing"} \subseteq Steps
      BY DEF Steps, ReconcileSteps
    <3> QED
      BY <1>1, <1>4, <2>1, <3>1, GotoFacts, AnswerFacts
         DEF Reconcile, LoadUnresolved, MarkReconciling, Search, SearchUnreachable, Resolve
  <2>3. UNCHANGED <<lock, paused, sincePause, trade>>
    BY <1>4 DEF Reconcile, LoadUnresolved, MarkReconciling, Search, SearchUnreachable, Resolve, database
  <2> QED
    BY <1>1, <2>2, <2>3, QuietStep DEF Locked
<1>5. ASSUME NEW t \in Threads, Finish(t) \/ Crash(t) PROVE LockInv'
  <2>1. thread'[t] = Idle /\ \A u \in Threads : u # t => thread'[u] = thread[u]
    BY <1>1, <1>5, ClearFacts DEF Finish, Crash
  <2>2. UNCHANGED <<paused, sincePause, trade>> /\ \A u \in Threads : u # t /\ lock = u => lock' = u
    BY <1>5 DEF Finish, Crash, database
  <2> QED
    BY <1>1, <2>1, <2>2, QuietStep DEF Idle, Locked
<1>6. ASSUME NEW t \in Threads, NEW e \in Events, Take(t, e) PROVE LockInv'
  <2>1. thread'[t].at \in {"load", "rload"} /\ \A u \in Threads : u # t => thread'[u] = thread[u]
    BY <1>1, <1>6 DEF Take, TypeOK, Idle
  <2> QED
    BY <1>1, <1>6, <2>1, QuietStep DEF Take, Locked, database
<1>7. ASSUME NEW e \in Events, Replay(e) PROVE LockInv'
  BY <1>1, <1>7, QuietStep DEF Replay, database
<1>8. CASE Environment
  <2>1. thread' = thread
    BY <1>8 DEF Environment, PublishIntent, CommitIntent, Sweep, Synchronize, Age, ReconcileTrade,
         CloseAtBroker, SetPause, SetRoute, LeaseExpires
  <2>2. \A u \in Threads : lock = u => lock' = u
    BY <1>8, ExecutionAssumption
       DEF Environment, PublishIntent, CommitIntent, Sweep, Synchronize, Age, ReconcileTrade,
         CloseAtBroker, SetPause, SetRoute, LeaseExpires
  <2>3. CASE UNCHANGED <<paused, sincePause, trade>>
    BY <1>1, <2>1, <2>2, <2>3, QuietStep
  <2>4. CASE UNCHANGED trade /\ sincePause' = 0
    <3>1. Tracked' = Tracked
      BY <2>4 DEF Tracked
    <3>2. \A u \in Threads : HoldsLock(u)' /\ CallsAhead(u)' /\ RoomLeft(u)'
      BY <2>1, <2>2, <2>4, <3>1 DEF LockInv, HoldsLock, CallsAhead, RoomLeft, Intent
    <3> QED
      BY <1>1, <2>4, <3>1, <3>2 DEF LockInv, PauseHolds, TrackedWithinLimit
  <2>5. ASSUME NEW o \in Opens, ReconcileTrade(o) PROVE LockInv'
    <3>1. UNCHANGED <<paused, sincePause, lock>> /\ Tracked' \subseteq Tracked
      BY <1>1, <2>5 DEF ReconcileTrade, Tracked, TypeOK
    <3>2. Cardinality(Tracked') <= Cardinality(Tracked) /\ Cardinality(Tracked') \in Nat
      BY <3>1, TrackedFinite, FS_Subset, FS_CardinalityType
    <3>3. \A u \in Threads : HoldsLock(u)' /\ CallsAhead(u)' /\ RoomLeft(u)'
      BY <2>1, <3>1, <3>2, TrackedFinite, ExecutionAssumption
         DEF LockInv, HoldsLock, CallsAhead, RoomLeft, Intent
    <3>4. PauseHolds' /\ TrackedWithinLimit'
      BY <3>1, <3>2, TrackedFinite, ExecutionAssumption DEF LockInv, PauseHolds, TrackedWithinLimit
    <3> QED
      BY <1>1, <3>3, <3>4 DEF LockInv
  <2> QED
    BY <1>8, <2>3, <2>4, <2>5
       DEF Environment, PublishIntent, CommitIntent, Sweep, Synchronize, Age,
         CloseAtBroker, SetPause, SetRoute, LeaseExpires, database
<1> QED
  BY <1>2, <1>3, <1>4, <1>5, <1>6, <1>7, <1>8 DEF Next

\* Initially no handler runs and no trade is tracked.
LEMMA LockInit == Init => LockInv
<1> SUFFICES ASSUME Init PROVE LockInv
  OBVIOUS
<1>1. TypeOK
  BY TypeInit
<1>2. \A t \in Threads : thread[t].at = "idle"
  BY DEF Init, Idle
<1>3. Tracked = {}
  BY DEF Init, Tracked
<1>4. Cardinality(Tracked) = 0
  BY <1>3, FS_EmptySet
<1> QED
  BY <1>1, <1>2, <1>4, ExecutionAssumption
     DEF Init, LockInv, HoldsLock, CallsAhead, RoomLeft, PauseHolds, TrackedWithinLimit, Locked

(***************************************************************************)
(* If no handler outlives the lease of its connection lock, at most one    *)
(* broker call is made on the connection after the user pauses copying.    *)
(***************************************************************************)
THEOREM PauseHoldsTheorem == ASSUME ~LeaseOverrun PROVE Safety => []PauseHolds
<1>1. LockInv => PauseHolds
  BY DEF LockInv
<1> QED
  BY <1>1, LockInit, LockStep, PTL DEF Safety

(***************************************************************************)
(* Under the same condition the open copied trades of a connection never   *)
(* exceed max_open_positions.                                              *)
(***************************************************************************)
THEOREM TrackedWithinLimitHolds == ASSUME ~LeaseOverrun PROVE Safety => []TrackedWithinLimit
<1>1. LockInv => TrackedWithinLimit
  BY DEF LockInv
<1> QED
  BY <1>1, LockInit, LockStep, PTL DEF Safety
=============================================================================
