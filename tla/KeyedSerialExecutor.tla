------------------------- MODULE KeyedSerialExecutor -------------------------
(***************************************************************************)
(* The in-process executor of a copy-trading stream worker (delivery.py):  *)
(* a thread pool that runs jobs of different keys concurrently and jobs of *)
(* one key one at a time, in the order of their submission.                *)
(*                                                                         *)
(* A step is one critical section of the executor's lock, one job run or   *)
(* one hand-over from the pool's own queue to a pool thread.               *)
(***************************************************************************)
EXTENDS Integers, Sequences

CONSTANTS
    Keys,       \* ordering keys (source, account or connection ids)
    Threads,    \* the pool's threads (max_workers of them)
    NJobs,      \* bound: how many jobs the stream reader submits
    KeyOf       \* KeyOf[j] is the ordering key of job j

Jobs == 1..NJobs

NoKey == "none"

ASSUME ExecutorAssumption ==
    /\ NJobs \in Nat
    /\ KeyOf \in [Jobs -> Keys]
    /\ NoKey \notin Keys
    /\ Threads # {}

VARIABLES
    submitted,  \* number of jobs submitted so far: jobs arrive as 1, 2, ...
    queues,     \* _queues: key -> deque of jobs; <<>> when the key is absent
    pool,       \* the pool's own queue: keys whose _drain waits for a thread
    thread,     \* what each pool thread is doing
    ran         \* history: for each key, the jobs that ran, in order

vars == <<submitted, queues, pool, thread, ran>>

Idle == [at |-> "idle", key |-> NoKey, job |-> 0]

TypeOK ==
    /\ submitted \in 0..NJobs
    /\ queues \in [Keys -> Seq(Jobs)]
    /\ pool \in Seq(Keys)
    /\ thread \in [Threads -> {Idle} \cup
                      [at : {"peek"}, key : Keys, job : {0}] \cup
                      [at : {"run", "pop"}, key : Keys, job : Jobs]]
    /\ ran \in [Keys -> Seq(Jobs)]

Init ==
    /\ submitted = 0
    /\ queues = [k \in Keys |-> <<>>]
    /\ pool = <<>>
    /\ thread = [t \in Threads |-> Idle]
    /\ ran = [k \in Keys |-> <<>>]

\* Faulty variant of Enqueue: the new job goes to the head of the deque.
EnqueueAtHead(q, j) == <<j>> \o q

\* The end of the deque that receives a new job.
Enqueue(q, j) == Append(q, j)

\* Faulty variant of NeedsDrain: every submit starts a drain.
NeedsDrainAlways(q) == TRUE

\* A submit starts a drain when its job is the only one in the queue.
NeedsDrain(q) == Len(q) = 1

(***************************************************************************)
(* submit: under the lock, append the job to its key's queue and start a   *)
(* drain when the queue was empty.                                         *)
(***************************************************************************)
Submit ==
    /\ submitted < NJobs
    /\ LET j == submitted + 1
           k == KeyOf[j]
       IN  /\ submitted' = j
           /\ queues' = [queues EXCEPT ![k] = Enqueue(@, j)]
           /\ pool' = IF NeedsDrain(queues'[k]) THEN Append(pool, k) ELSE pool
    /\ UNCHANGED <<thread, ran>>

\* A free pool thread starts the oldest waiting _drain.
StartDrain(t) ==
    /\ thread[t].at = "idle"
    /\ pool # <<>>
    /\ thread' = [thread EXCEPT ![t] = [at |-> "peek", key |-> Head(pool), job |-> 0]]
    /\ pool' = Tail(pool)
    /\ UNCHANGED <<submitted, queues, ran>>

\* _drain, first critical section: leave when the queue is empty, else look at
\* its head, which stays queued while it runs.
Peek(t) ==
    LET k == thread[t].key IN
    /\ thread[t].at = "peek"
    /\ thread' = [thread EXCEPT ![t] =
                    IF queues[k] = <<>> THEN Idle
                    ELSE [at |-> "run", key |-> k, job |-> Head(queues[k])]]
    /\ UNCHANGED <<submitted, queues, pool, ran>>

\* The job runs; its value or its exception goes to the caller's future.
Run(t) ==
    /\ thread[t].at = "run"
    /\ ran' = [ran EXCEPT ![thread[t].key] = Append(@, thread[t].job)]
    /\ thread' = [thread EXCEPT ![t].at = "pop"]
    /\ UNCHANGED <<submitted, queues, pool>>

\* Faulty variant of Pop: the drain leaves after one job.
PopOne(t) ==
    /\ thread[t].at = "pop"
    /\ queues' = [queues EXCEPT ![thread[t].key] = Tail(@)]
    /\ thread' = [thread EXCEPT ![t] = Idle]
    /\ UNCHANGED <<submitted, pool, ran>>

\* _drain, second critical section: drop the head; leave when nothing is left.
Pop(t) ==
    LET k == thread[t].key IN
    /\ thread[t].at = "pop"
    /\ IF queues[k] = <<>>
       THEN /\ thread' = [thread EXCEPT ![t] = [at |-> "peek", key |-> k, job |-> 0]]
            /\ UNCHANGED queues
       ELSE /\ queues' = [queues EXCEPT ![k] = Tail(@)]
            /\ thread' = [thread EXCEPT ![t] =
                            IF queues'[k] = <<>> THEN Idle
                            ELSE [at |-> "peek", key |-> k, job |-> 0]]
    /\ UNCHANGED <<submitted, pool, ran>>

Next == Submit \/ \E t \in Threads : StartDrain(t) \/ Peek(t) \/ Run(t) \/ Pop(t)

(***************************************************************************)
(* Pool threads are scheduled; every job returns (the handlers' broker and *)
(* database calls time out).  Nothing obliges the reader to submit.        *)
(***************************************************************************)
Fairness == \A t \in Threads : WF_vars(StartDrain(t) \/ Peek(t) \/ Run(t) \/ Pop(t))

Spec == Init /\ [][Next]_vars /\ Fairness
-----------------------------------------------------------------------------
Draining(t, k) == thread[t].at # "idle" /\ thread[t].key = k

(***************************************************************************)
(* Two pool threads never work on one key at the same time: submit starts  *)
(* a second drain only after the first one has emptied the queue and left. *)
(***************************************************************************)
OneDrainPerKey ==
    \A k \in Keys, t, u \in Threads : Draining(t, k) /\ Draining(u, k) => t = u

(***************************************************************************)
(* A non-empty queue always has its drain, waiting in the pool or running: *)
(* the check of the queue's length in submit and the emptiness check at    *)
(* the end of _drain never both miss a job.                                *)
(***************************************************************************)
NoStrandedQueue ==
    \A k \in Keys : queues[k] # <<>> =>
        \/ \E p \in 1..Len(pool) : pool[p] = k
        \/ \E t \in Threads : Draining(t, k)

(***************************************************************************)
(* The jobs of a key that have not run: its queue, without the head while  *)
(* that head has run and is about to be dropped.                           *)
(***************************************************************************)
Popping(k) == \E t \in Threads : Draining(t, k) /\ thread[t].at = "pop"

Waiting(k) == IF Popping(k) THEN Tail(queues[k]) ELSE queues[k]

Lanes == INSTANCE KeyedLanes WITH waiting <- [k \in Keys |-> Waiting(k)]

(***************************************************************************)
(* The executor implements its promise: jobs of one key run one at a time, *)
(* each once and in the order of submission (the class's docstring), and   *)
(* every submitted job runs, with fewer pool threads than busy keys too.   *)
(***************************************************************************)
ImplementsLanes == Lanes!Spec
=============================================================================
