---------------------------- MODULE StreamWorker ----------------------------
(***************************************************************************)
(* Delivery of copy-trading events from a Redis stream to a handler        *)
(* (worker_runtime.StreamWorker, shared by the signal, execution and       *)
(* provisioning workers).  Each worker process has a main loop, which      *)
(* reads new messages, hands them to the lane of their ordering key        *)
(* (KeyedSerialExecutor) and itself processes the stale messages it        *)
(* reclaims, and one serial lane per ordering key.                         *)
(*                                                                         *)
(* A step is one Redis call, one database commit or one handler run.       *)
(* Redis commands and the group's pending list are external, modelled by   *)
(* what StreamWorker relies on.                                            *)
(***************************************************************************)
EXTENDS Integers, Sequences, FiniteSets

CONSTANTS
    Workers,      \* worker processes of one consumer group
    LaneKeys,     \* ordering keys
    N,            \* bound: number of messages ever added to the stream
    LaneOf,       \* LaneOf[m] is the ordering key of message m
    NKeys,        \* bound: number of idempotency keys producers use
    HandlerResults, \* the results the group's handler returns
    MaxAttempts,  \* StreamWorker.max_attempts
    MaxFaults     \* bound: crashes of worker processes and calls that raise

Messages == 1..N       \* stream ids, in the order of XADD

Results == {"success", "retry", "dead_letter"}

ASSUME StreamAssumption ==
    /\ HandlerResults \subseteq Results
    /\ N \in Nat /\ NKeys \in Nat /\ MaxAttempts \in Nat \ {0} /\ MaxFaults \in Nat
    /\ LaneOf \in [Messages -> LaneKeys]
    /\ "main" \notin LaneKeys

\* Idempotency keys: those of producers, and the fresh key of each replay.
ReplayKey(m) == NKeys + m
EventKeys == 1..(NKeys + N)

Threads == Workers \X (LaneKeys \cup {"main"})

VARIABLES
    entry,       \* per message: not added, unread, in the pending list, acked
    key,         \* per message: the event's idempotency key (0 before XADD)
    delivered,   \* per message: times_delivered of the pending list, capped
    processed,   \* dedupe keys copy:processed:{group}:{key} present in Redis
    deadLetters, \* per message: its CopyDeadLetter row
    queue,       \* per worker and lane: messages handed to that lane
    claimed,     \* per worker: messages its main loop reclaimed in one batch
    thread,      \* what each thread of each worker is doing
    up,          \* per worker: its main loop is running
    succeeded,   \* history: keys for which some handler run succeeded
    handled,     \* history, per message: completed handler runs
    faults       \* history: crashes and calls that raised so far

vars == <<entry, key, delivered, processed, deadLetters, queue, claimed,
          thread, up, succeeded, handled, faults>>

Idle == [at |-> "idle", msg |-> 0, result |-> "none"]

\* times_delivered is only compared with max_attempts: counting stops there.
Count(n) == IF n < MaxAttempts THEN n + 1 ELSE n

TypeOK ==
    /\ entry \in [Messages -> {"unsent", "new", "pending", "acked"}]
    /\ key \in [Messages -> EventKeys \cup {0}]
    /\ delivered \in [Messages -> 0..MaxAttempts]
    /\ processed \subseteq EventKeys
    /\ deadLetters \in [Messages -> {"none", "pending", "replayed"}]
    /\ queue \in [Workers \X LaneKeys -> Seq(Messages)]
    /\ claimed \in [Workers -> SUBSET Messages]
    /\ thread \in [Threads -> {Idle} \cup
          [at : {"check", "handle", "settle", "bury", "mark", "ack"},
           msg : Messages, result : Results \cup {"none"}]]
    /\ up \in [Workers -> BOOLEAN]
    /\ succeeded \subseteq EventKeys
    /\ handled \in [Messages -> Nat]
    /\ faults \in 0..MaxFaults

Init ==
    /\ entry = [m \in Messages |-> "unsent"]
    /\ key = [m \in Messages |-> 0]
    /\ delivered = [m \in Messages |-> 0]
    /\ processed = {}
    /\ deadLetters = [m \in Messages |-> "none"]
    /\ queue = [q \in Workers \X LaneKeys |-> <<>>]
    /\ claimed = [w \in Workers |-> {}]
    /\ thread = [t \in Threads |-> Idle]
    /\ up = [w \in Workers |-> TRUE]
    /\ succeeded = {}
    /\ handled = [m \in Messages |-> 0]
    /\ faults = 0
-----------------------------------------------------------------------------
(***************************************************************************)
(* Producers.  RedisStreamBus.publish adds an event with a producer's key; *)
(* two events may carry the same key.                                      *)
(***************************************************************************)
Publish(m, k) ==
    /\ entry[m] = "unsent"
    /\ \A n \in Messages : n < m => entry[n] # "unsent"
    /\ entry' = [entry EXCEPT ![m] = "new"]
    /\ key' = [key EXCEPT ![m] = k]

Produce(m, k) ==
    /\ Publish(m, k)
    /\ UNCHANGED <<delivered, processed, deadLetters, queue, claimed, thread,
                   up, succeeded, handled, faults>>

(***************************************************************************)
(* router.replay_dead_letter: refused unless the row is still pending;     *)
(* publishes the event under a fresh key, then marks the row.  m is the    *)
(* message added, d the message the dead letter was recorded for.          *)
(***************************************************************************)
Replay(d, m) ==
    /\ deadLetters[d] = "pending"
    /\ LaneOf[m] = LaneOf[d]
    /\ Publish(m, ReplayKey(m))
    /\ deadLetters' = [deadLetters EXCEPT ![d] = "replayed"]
    /\ UNCHANGED <<delivered, processed, queue, claimed, thread, up, succeeded,
                   handled, faults>>
-----------------------------------------------------------------------------
(***************************************************************************)
(* The main loop of worker w.                                              *)
(***************************************************************************)
MainFree(w) == up[w] /\ thread[<<w, "main">>] = Idle /\ claimed[w] = {}

\* run: XREADGROUP ">" moves the oldest unread message to the pending list and
\* the loop submits it to the lane of its ordering key.
Read(w) ==
    /\ MainFree(w)
    /\ \E m \in Messages :
        /\ entry[m] = "new"
        /\ \A n \in Messages : n < m => entry[n] # "new"
        /\ entry' = [entry EXCEPT ![m] = "pending"]
        /\ delivered' = [delivered EXCEPT ![m] = Count(@)]
        /\ queue' = [queue EXCEPT ![<<w, LaneOf[m]>>] = Append(@, m)]
    /\ UNCHANGED <<key, processed, deadLetters, claimed, thread, up, succeeded,
                   handled, faults>>

\* Faulty variant of Stale: messages delivered before are not reclaimed again.
StaleOnce(m) == entry[m] = "pending" /\ delivered[m] < MaxAttempts

\* The pending messages XAUTOCLAIM may return.
Stale(m) == entry[m] = "pending"

(***************************************************************************)
(* _claim_stale_messages: XAUTOCLAIM returns pending messages that were    *)
(* last delivered at least retry_idle_ms (5 s) ago.  Nothing tells it      *)
(* whether the message still waits in a lane or is being handled, so any   *)
(* set of pending messages may be returned.                                *)
(***************************************************************************)
Claim(w, S) ==
    /\ MainFree(w)
    /\ S # {}
    /\ \A m \in S : Stale(m)
    /\ claimed' = [claimed EXCEPT ![w] = S]
    /\ delivered' = [m \in Messages |-> IF m \in S THEN Count(delivered[m]) ELSE delivered[m]]
    /\ UNCHANGED <<entry, key, processed, deadLetters, queue, thread, up,
                   succeeded, handled, faults>>
-----------------------------------------------------------------------------
(***************************************************************************)
(* _process_message on thread t = <<w, lane>> or <<w, "main">>.            *)
(***************************************************************************)
OnMain(t) == t[2] = "main"

Begin(t, m) ==
    /\ thread[t] = Idle
    /\ IF OnMain(t)
       THEN m \in claimed[t[1]] /\ \A n \in claimed[t[1]] : m <= n
       ELSE queue[t] # <<>> /\ m = Head(queue[t])
    /\ thread' = [thread EXCEPT ![t] = [at |-> "check", msg |-> m, result |-> "none"]]
    /\ UNCHANGED <<entry, key, delivered, processed, deadLetters, queue,
                   claimed, up, succeeded, handled, faults>>

\* The dedupe key decides between acknowledging at once and handling.
CheckProcessed(t) ==
    /\ thread[t].at = "check"
    /\ thread' = [thread EXCEPT ![t].at =
                    IF key[thread[t].msg] \in processed THEN "ack" ELSE "handle"]
    /\ UNCHANGED <<entry, key, delivered, processed, deadLetters, queue,
                   claimed, up, succeeded, handled, faults>>

\* The handler returns r; an exception counts as "retry".
Return(t, r) ==
    LET m == thread[t].msg IN
    /\ thread[t].at = "handle"
    /\ thread' = [thread EXCEPT ![t].at = "settle", ![t].result = r]
    /\ succeeded' = IF r = "success" THEN succeeded \cup {key[m]} ELSE succeeded
    /\ handled' = [handled EXCEPT ![m] = @ + 1]
    /\ UNCHANGED <<entry, key, delivered, processed, deadLetters, queue,
                   claimed, faults, up>>

\* The thread is done with its message: the lane drops it, or the main loop
\* goes on with the next message of its batch.
Done(t) ==
    /\ thread' = [thread EXCEPT ![t] = Idle]
    /\ IF OnMain(t)
       THEN /\ claimed' = [claimed EXCEPT ![t[1]] = @ \ {thread[t].msg}]
            /\ UNCHANGED queue
       ELSE /\ queue' = [queue EXCEPT ![t] = Tail(@)]
            /\ UNCHANGED claimed

\* Faulty variant of PendingAttempts: every message looks delivered once.
PendingAttemptsOne(m) == 1

\* _pending_attempts: a message another thread has acknowledged meanwhile is
\* no longer in the pending list and counts as delivered once.
PendingAttempts(m) == IF entry[m] = "pending" THEN delivered[m] ELSE 1

\* A retry below the limit leaves the message pending.
KeepPending(t) ==
    /\ thread[t].at = "settle"
    /\ thread[t].result = "retry"
    /\ PendingAttempts(thread[t].msg) < MaxAttempts
    /\ Done(t)
    /\ UNCHANGED <<entry, key, delivered, processed, deadLetters, up,
                   succeeded, handled, faults>>

\* Faulty variant of AfterResult: an exhausted retry is acknowledged at once.
AfterResultNoBury(r) == IF r = "success" THEN "mark" ELSE "ack"

\* What follows the handler's result otherwise.
AfterResult(r) == IF r = "success" THEN "mark" ELSE "bury"

Settle(t) ==
    /\ thread[t].at = "settle"
    /\ ~(thread[t].result = "retry" /\ PendingAttempts(thread[t].msg) < MaxAttempts)
    /\ thread' = [thread EXCEPT ![t].at = AfterResult(thread[t].result)]
    /\ UNCHANGED <<entry, key, delivered, processed, deadLetters, queue,
                   claimed, up, succeeded, handled, faults>>

\* _persist_dead_letter commits a row for the event.
PersistDeadLetter(t) ==
    /\ thread[t].at = "bury"
    /\ deadLetters' = [deadLetters EXCEPT ![thread[t].msg] = "pending"]
    /\ thread' = [thread EXCEPT ![t].at = "ack"]
    /\ UNCHANGED <<entry, key, delivered, processed, queue, claimed, up,
                   succeeded, handled, faults>>

\* A call raises: one fault, and nothing is written.
Raises(t) ==
    /\ faults < MaxFaults
    /\ faults' = faults + 1
    /\ UNCHANGED <<entry, key, delivered, processed, deadLetters, up, succeeded,
                   handled>>

\* Looking up the dedupe key, or the acknowledgement that follows at once,
\* raises: both count as a retry.
CheckRaises(t) ==
    /\ thread[t].at = "check" \/ (thread[t].at = "ack" /\ thread[t].result = "none")
    /\ thread' = [thread EXCEPT ![t].at = "settle", ![t].result = "retry"]
    /\ Raises(t)
    /\ UNCHANGED <<queue, claimed>>

\* XPENDING raises: the message counts as delivered once and stays pending,
\* however often it was delivered (max_attempts is at least 2).
AttemptsUnknown(t) ==
    /\ thread[t].at = "settle"
    /\ thread[t].result = "retry"
    /\ 1 < MaxAttempts
    /\ Done(t)
    /\ Raises(t)

\* The commit of the dead letter, SETEX or XACK raises on a lane: the lane's
\* future keeps the exception and the message stays pending.  (On the main
\* loop it ends run: RunRaises.)
LaneRaises(t) ==
    /\ ~OnMain(t)
    /\ thread[t].at \in {"bury", "mark"} \/ (thread[t].at = "ack" /\ thread[t].result # "none")
    /\ Done(t)
    /\ Raises(t)

\* SETEX of the dedupe key.
MarkProcessed(t) ==
    /\ thread[t].at = "mark"
    /\ processed' = processed \cup {key[thread[t].msg]}
    /\ thread' = [thread EXCEPT ![t].at = "ack"]
    /\ UNCHANGED <<entry, key, delivered, deadLetters, queue, claimed, up,
                   succeeded, handled, faults>>

\* XACK removes the message from the pending list.
Ack(t) ==
    /\ thread[t].at = "ack"
    /\ entry' = [entry EXCEPT ![thread[t].msg] = "acked"]
    /\ Done(t)
    /\ UNCHANGED <<key, delivered, processed, deadLetters, up, succeeded,
                   handled, faults>>

\* Threads T of worker w stop where they are, its main loop among them: its
\* batch and the lanes of T are gone; Redis and the database keep what they have.
Halt(w, T) ==
    /\ faults < MaxFaults
    /\ faults' = faults + 1
    /\ queue' = [q \in Workers \X LaneKeys |-> IF q \in T THEN <<>> ELSE queue[q]]
    /\ claimed' = [claimed EXCEPT ![w] = {}]
    /\ thread' = [t \in Threads |-> IF t \in T THEN Idle ELSE thread[t]]
    /\ up' = [up EXCEPT ![w] = FALSE]
    /\ UNCHANGED <<entry, key, delivered, processed, deadLetters, succeeded, handled>>

\* The process of worker w is killed.
Crash(w) == Halt(w, {t \in Threads : t[1] = w})

(***************************************************************************)
(* run raises (a Redis call of the loop, or any call that raises while it  *)
(* processes a reclaimed message): the main loop ends, the lanes finish    *)
(* what they were handed.  For the copy-provisioning worker, a daemon      *)
(* thread beside the execution worker, the process lives on.               *)
(***************************************************************************)
RunRaises(w) == up[w] /\ Halt(w, {<<w, "main">>})

\* The process is started again, which nothing guarantees.
Restart(w) ==
    /\ ~up[w]
    /\ \A k \in LaneKeys : queue[<<w, k>>] = <<>>
    /\ up' = [up EXCEPT ![w] = TRUE]
    /\ UNCHANGED <<entry, key, delivered, processed, deadLetters, queue, claimed,
                   thread, succeeded, handled, faults>>
-----------------------------------------------------------------------------
Step(t) ==
    \/ \E m \in Messages : Begin(t, m)
    \/ CheckProcessed(t)
    \/ \E r \in HandlerResults : Return(t, r)
    \/ KeepPending(t) \/ Settle(t) \/ PersistDeadLetter(t)
    \/ MarkProcessed(t) \/ Ack(t)
    \/ CheckRaises(t) \/ AttemptsUnknown(t) \/ LaneRaises(t)

Next ==
    \/ \E m \in Messages : \/ \E k \in 1..NKeys : Produce(m, k)
                           \/ \E d \in Messages : Replay(d, m)
    \/ \E w \in Workers : \/ Read(w) \/ Crash(w) \/ RunRaises(w) \/ Restart(w)
                        \/ \E S \in SUBSET Messages : Claim(w, S)
    \/ \E t \in Threads : Step(t)

Safety == Init /\ [][Next]_vars

(***************************************************************************)
(* Each pass of a running main loop reclaims and then reads, so neither    *)
(* starves the other, and a message that stays pending becomes idle long   *)
(* enough to be among those reclaimed.  Lane threads and a running main    *)
(* loop keep running between faults, and faults are finitely many.         *)
(* Nothing makes a loop that ended run again: Restart has no fairness.     *)
(***************************************************************************)
Fairness ==
    /\ \A w \in Workers :
        /\ SF_vars(Read(w))
        /\ \A m \in Messages : SF_vars(\E S \in SUBSET Messages : m \in S /\ Claim(w, S))
    /\ \A t \in Threads : WF_vars(Step(t))

Spec == Safety /\ Fairness
-----------------------------------------------------------------------------
(***************************************************************************)
(* A message leaves the pending list only when an event with its key was   *)
(* handled successfully or a dead letter was recorded for it: whatever is  *)
(* interleaved or killed, a transient failure never becomes a successful   *)
(* acknowledgement (reliability design, invariant 3).                      *)
(***************************************************************************)
NoSilentLoss ==
    \A m \in Messages : entry[m] = "acked" =>
        key[m] \in succeeded \/ deadLetters[m] # "none"

(***************************************************************************)
(* Every message added to the stream is eventually acknowledged, as long   *)
(* as some main loop of the group runs again and again: neither a lost     *)
(* lane, a reclaimed batch nor a call that raises leaves it pending for    *)
(* ever.  The condition is one the code does not guarantee: the thread of  *)
(* the copy-provisioning worker is not started again when its run raises   *)
(* while the process lives on.                                             *)
(***************************************************************************)
EveryMessageSettles ==
    ([]<>(\E w \in Workers : up[w])) =>
        \A m \in Messages : (entry[m] # "unsent") ~> (entry[m] = "acked")

(***************************************************************************)
(* The same without the condition: what a reader of the retry loop would   *)
(* expect, and a main loop that ended for good does not give.              *)
(***************************************************************************)
SettlesAnyway == \A m \in Messages : (entry[m] # "unsent") ~> (entry[m] = "acked")

(***************************************************************************)
(* The retry loop is bounded: a message's handler runs at most max_attempts *)
(* times, plus once for each fault and for each further worker process      *)
(* that can reclaim it, however lanes and main loops overlap ("Longer retry *)
(* loops increase latency", StreamWorker.max_attempts).                     *)
(***************************************************************************)
HandlerRunsBounded ==
    \A m \in Messages : handled[m] <= MaxAttempts + (Cardinality(Workers) - 1) + faults

(***************************************************************************)
(* "Redis stream workers preserve source ordering and account              *)
(* serialization": no message is being handled while an earlier message of *)
(* its lane still waits for its own handling to end.                       *)
(***************************************************************************)
LaneOrder ==
    \A t \in Threads : thread[t].at = "handle" =>
        \A n \in Messages :
            n < thread[t].msg /\ LaneOf[n] = LaneOf[thread[t].msg] => entry[n] = "acked"
=============================================================================
