---------------------- MODULE KeyedSerialExecutorProofs ----------------------
(***************************************************************************)
(* Proofs about KeyedSerialExecutor, for any keys, pool size and number of *)
(* jobs: its invariants, and that its steps implement KeyedLanes.          *)
(***************************************************************************)
EXTENDS KeyedSerialExecutor, SequenceTheorems, TLAPS

(***************************************************************************)
(* Keys waiting in the pool are distinct, none of them has a thread, and a *)
(* drain, waiting or running, has something to drain.                      *)
(***************************************************************************)
PoolDistinct == \A p, q \in 1..Len(pool) : pool[p] = pool[q] => p = q

PoolNotDraining == \A p \in 1..Len(pool), t \in Threads : ~Draining(t, pool[p])

PoolNonEmpty == \A p \in 1..Len(pool) : queues[pool[p]] # <<>>

DrainNonEmpty == \A t \in Threads : thread[t].at # "idle" => queues[thread[t].key] # <<>>

\* The job a thread runs or has run is the head of its key's queue.
HeadRuns ==
    \A t \in Threads : thread[t].at \in {"run", "pop"} =>
        thread[t].job = Head(queues[thread[t].key])

IInv ==
    /\ TypeOK
    /\ PoolDistinct
    /\ PoolNotDraining
    /\ PoolNonEmpty
    /\ DrainNonEmpty
    /\ HeadRuns
    /\ OneDrainPerKey
    /\ NoStrandedQueue
-----------------------------------------------------------------------------
(***************************************************************************)
(* What a thread record looks like under TypeOK.                           *)
(***************************************************************************)
LEMMA ThreadType ==
    ASSUME TypeOK, NEW t \in Threads
    PROVE  /\ thread[t].at \in {"idle", "peek", "run", "pop"}
           /\ thread[t].at = "idle" => thread[t] = Idle
           /\ thread[t].at # "idle" => thread[t].key \in Keys
           /\ thread[t].at \in {"run", "pop"} => thread[t].job \in Jobs
BY DEF TypeOK, Idle

(***************************************************************************)
(* The types survive every step of the executor.                           *)
(***************************************************************************)
LEMMA TypeStep == TypeOK /\ [Next]_vars => TypeOK'
<1> SUFFICES ASSUME TypeOK, [Next]_vars PROVE TypeOK'
  OBVIOUS
<1>1. CASE Submit
  <2> DEFINE j == submitted + 1
             k == KeyOf[j]
  <2>1. j \in Jobs /\ k \in Keys
    BY <1>1, ExecutorAssumption DEF TypeOK, Submit, Jobs
  <2>2. Append(queues[k], j) \in Seq(Jobs) /\ Append(pool, k) \in Seq(Keys)
    BY <2>1 DEF TypeOK
  <2>3. queues' \in [Keys -> Seq(Jobs)] /\ pool' \in Seq(Keys)
    BY <1>1, <2>1, <2>2 DEF TypeOK, Submit, Enqueue
  <2> QED
    BY <1>1, <2>1, <2>3, ExecutorAssumption DEF TypeOK, Submit, Jobs
<1>2. ASSUME NEW t \in Threads, StartDrain(t) PROVE TypeOK'
  BY <1>2 DEF TypeOK, StartDrain, Idle
<1>3. ASSUME NEW t \in Threads, Peek(t) PROVE TypeOK'
  <2>1. thread[t].key \in Keys
    BY <1>3, ThreadType DEF Peek
  <2> QED
    BY <1>3, <2>1 DEF TypeOK, Peek, Idle
<1>4. ASSUME NEW t \in Threads, Run(t) PROVE TypeOK'
  <2>1. thread[t].key \in Keys /\ thread[t].job \in Jobs
    BY <1>4, ThreadType DEF Run
  <2>2. ran' \in [Keys -> Seq(Jobs)]
    BY <1>4, <2>1 DEF TypeOK, Run
  <2>3. thread[t] \in [at : {"run", "pop"}, key : Keys, job : Jobs]
    BY <1>4 DEF TypeOK, Run, Idle
  <2>4. [thread[t] EXCEPT !.at = "pop"] \in [at : {"run", "pop"}, key : Keys, job : Jobs]
    BY <2>3
  <2> QED
    BY <1>4, <2>2, <2>4 DEF TypeOK, Run
<1>5. ASSUME NEW t \in Threads, Pop(t) PROVE TypeOK'
  <2>1. thread[t].key \in Keys
    BY <1>5, ThreadType DEF Pop
  <2>0. queues[thread[t].key] # <<>> => Tail(queues[thread[t].key]) \in Seq(Jobs)
    BY <2>1 DEF TypeOK
  <2>2. queues' \in [Keys -> Seq(Jobs)]
    BY <1>5, <2>0, <2>1 DEF TypeOK, Pop
  <2>3. [at |-> "peek", key |-> thread[t].key, job |-> 0] \in [at : {"peek"}, key : Keys, job : {0}]
    BY <2>1
  <2>4. thread' \in [Threads -> {Idle} \cup
                      [at : {"peek"}, key : Keys, job : {0}] \cup
                      [at : {"run", "pop"}, key : Keys, job : Jobs]]
    BY <1>5, <2>3 DEF TypeOK, Pop
  <2> QED
    BY <1>5, <2>2, <2>4 DEF TypeOK, Pop
<1>6. CASE UNCHANGED vars
  BY <1>6 DEF TypeOK, vars
<1> QED
  BY <1>1, <1>2, <1>3, <1>4, <1>5, <1>6 DEF Next

(***************************************************************************)
(* TypeOK is an invariant of the executor.                                 *)
(***************************************************************************)
THEOREM TypeCorrect == Spec => []TypeOK
<1>1. Init => TypeOK
  BY ExecutorAssumption DEF Init, TypeOK, Idle
<1> QED
  BY <1>1, TypeStep, PTL DEF Spec
-----------------------------------------------------------------------------
(***************************************************************************)
(* Appending to a queue: it is the only element exactly if the queue was   *)
(* empty, and it does not become the head of a queue that was not.         *)
(***************************************************************************)
LEMMA AppendFacts ==
    ASSUME NEW S, NEW q \in Seq(S), NEW x \in S
    PROVE  /\ Append(q, x) \in Seq(S) /\ Append(q, x) # <<>>
           /\ Len(Append(q, x)) = 1 <=> q = <<>>
           /\ q # <<>> => /\ Head(Append(q, x)) = Head(q)
                          /\ Tail(Append(q, x)) = Append(Tail(q), x)
<1>1. Len(q) = 0 <=> q = <<>>
  BY EmptySeq
<1> QED
  BY <1>1, AppendProperties, HeadTailAppend, LenProperties

(***************************************************************************)
(* submit preserves the invariant: a queue that was empty had no drain.    *)
(***************************************************************************)
LEMMA SubmitStep == IInv /\ Submit => IInv'
<1> SUFFICES ASSUME IInv, Submit PROVE IInv'
  OBVIOUS
<1> DEFINE j == submitted + 1
           k == KeyOf[j]
<1>1. j \in Jobs /\ k \in Keys /\ queues[k] \in Seq(Jobs) /\ pool \in Seq(Keys)
  BY ExecutorAssumption DEF IInv, TypeOK, Submit, Jobs
<1>2. /\ queues' = [queues EXCEPT ![k] = Append(@, j)]
      /\ thread' = thread
  BY DEF Submit, Enqueue
<1>3. queues'[k] = Append(queues[k], j) /\ \A m \in Keys : m # k => queues'[m] = queues[m]
  BY <1>1, <1>2 DEF IInv, TypeOK
<1>4. /\ queues'[k] # <<>>
      /\ Len(queues'[k]) = 1 <=> queues[k] = <<>>
      /\ queues[k] # <<>> => Head(queues'[k]) = Head(queues[k])
  BY <1>1, <1>3, AppendFacts
<1>5. pool' = IF queues[k] = <<>> THEN Append(pool, k) ELSE pool
  BY <1>4 DEF Submit, NeedsDrain
<1>6. TypeOK'
  BY TypeStep DEF IInv, Next
<1>7. ASSUME queues[k] = <<>>
      PROVE  /\ \A p \in 1..Len(pool) : pool[p] # k
             /\ \A t \in Threads : ~Draining(t, k)
  BY <1>7 DEF IInv, PoolNonEmpty, DrainNonEmpty, Draining
<1>8. \A t \in Threads : thread'[t] = thread[t] /\ thread[t].at # "idle" => thread[t].key \in Keys
  BY <1>2, ThreadType DEF IInv
<1>9. /\ Len(pool) \in Nat /\ \A p \in 1..Len(pool) : pool[p] \in Keys
      /\ Len(Append(pool, k)) = Len(pool) + 1
      /\ \A p \in 1..Len(pool) : Append(pool, k)[p] = pool[p]
      /\ Append(pool, k)[Len(pool) + 1] = k
  BY <1>1
<1>10. PoolDistinct'
  BY <1>5, <1>7, <1>9 DEF IInv, PoolDistinct
<1>11. PoolNotDraining'
  BY <1>2, <1>5, <1>7, <1>9 DEF IInv, PoolNotDraining, Draining
<1>12. PoolNonEmpty'
  BY <1>3, <1>4, <1>5, <1>9 DEF IInv, PoolNonEmpty
<1>13. DrainNonEmpty'
  BY <1>2, <1>3, <1>4, <1>8 DEF IInv, DrainNonEmpty
<1>14. HeadRuns'
  BY <1>2, <1>3, <1>4, <1>8 DEF IInv, HeadRuns, DrainNonEmpty
<1>15. OneDrainPerKey'
  BY <1>2 DEF IInv, OneDrainPerKey, Draining
<1>16. NoStrandedQueue'
  <2> SUFFICES ASSUME NEW m \in Keys, queues'[m] # <<>>
               PROVE  \/ \E p \in 1..Len(pool') : pool'[p] = m
                      \/ \E t \in Threads : Draining(t, m)'
    BY DEF NoStrandedQueue
  <2>1. CASE queues[m] = <<>>
    BY <2>1, <1>3, <1>5, <1>9
  <2>2. CASE queues[m] # <<>>
    <3>1. \/ \E p \in 1..Len(pool) : pool[p] = m
          \/ \E t \in Threads : Draining(t, m)
      BY <2>2 DEF IInv, NoStrandedQueue
    <3> QED
      BY <3>1, <1>2, <1>5, <1>9 DEF Draining
  <2> QED
    BY <2>1, <2>2
<1> QED
  BY <1>6, <1>10, <1>11, <1>12, <1>13, <1>14, <1>15, <1>16 DEF IInv

(***************************************************************************)
(* A pool thread that takes a waiting drain preserves the invariant.       *)
(***************************************************************************)
LEMMA StartDrainStep ==
    ASSUME NEW t \in Threads PROVE IInv /\ StartDrain(t) => IInv'
<1> SUFFICES ASSUME IInv, StartDrain(t) PROVE IInv'
  OBVIOUS
<1> DEFINE k == Head(pool)
<1>1. pool \in Seq(Keys) /\ pool # <<>> /\ pool' = Tail(pool) /\ queues' = queues
  BY DEF IInv, TypeOK, StartDrain
<1>2. /\ Len(pool) \in Nat \ {0} /\ k \in Keys /\ k = pool[1]
      /\ Len(pool') = Len(pool) - 1
      /\ \A p \in 1..Len(pool') : pool'[p] = pool[p + 1]
      /\ \A p \in 1..Len(pool) : pool[p] \in Keys
  BY <1>1
<1>3. /\ thread'[t] = [at |-> "peek", key |-> k, job |-> 0]
      /\ thread[t].at = "idle"
      /\ \A u \in Threads : u # t => thread'[u] = thread[u]
  BY DEF IInv, TypeOK, StartDrain
<1>4. TypeOK'
  BY TypeStep DEF IInv, Next
<1>5. \A u \in Threads : ~Draining(u, k)
  BY <1>2 DEF IInv, PoolNotDraining
<1>6. \A p \in 1..Len(pool') : pool'[p] # k
  BY <1>2 DEF IInv, PoolDistinct
<1>7. PoolDistinct'
  BY <1>2 DEF IInv, PoolDistinct
<1>8. PoolNotDraining'
  <2> SUFFICES ASSUME NEW p \in 1..Len(pool'), NEW u \in Threads,
                      thread'[u].at # "idle", thread'[u].key = pool'[p]
               PROVE  FALSE
    BY DEF PoolNotDraining, Draining
  <2>1. p + 1 \in 1..Len(pool) /\ pool'[p] = pool[p + 1]
    BY <1>2
  <2>2. CASE u = t
    BY <2>2, <1>3, <1>6
  <2>3. CASE u # t
    BY <2>1, <2>3, <1>3 DEF IInv, PoolNotDraining, Draining
  <2> QED
    BY <2>2, <2>3
<1>9. PoolNonEmpty'
  BY <1>1, <1>2 DEF IInv, PoolNonEmpty
<1>10. DrainNonEmpty'
  BY <1>1, <1>2, <1>3 DEF IInv, DrainNonEmpty, PoolNonEmpty
<1>11. HeadRuns'
  BY <1>1, <1>3 DEF IInv, HeadRuns
<1>12. OneDrainPerKey'
  BY <1>3, <1>5 DEF IInv, OneDrainPerKey, Draining
<1>13. NoStrandedQueue'
  <2> SUFFICES ASSUME NEW m \in Keys, queues[m] # <<>>
               PROVE  \/ \E p \in 1..Len(pool') : pool'[p] = m
                      \/ \E u \in Threads : Draining(u, m)'
    BY <1>1 DEF NoStrandedQueue
  <2>1. CASE \E p \in 1..Len(pool) : pool[p] = m
    <3> PICK p \in 1..Len(pool) : pool[p] = m
      BY <2>1
    <3>1. CASE p = 1
      BY <3>1, <1>2, <1>3 DEF Draining
    <3>2. CASE p # 1
      <4>1. p - 1 \in 1..Len(pool') /\ pool'[p - 1] = pool[p]
        BY <3>2, <1>2
      <4> QED
        BY <4>1
    <3> QED
      BY <3>1, <3>2
  <2>2. CASE \E u \in Threads : Draining(u, m)
    BY <2>2, <1>3 DEF Draining
  <2> QED
    BY <2>1, <2>2 DEF IInv, NoStrandedQueue
<1> QED
  BY <1>4, <1>7, <1>8, <1>9, <1>10, <1>11, <1>12, <1>13 DEF IInv

(***************************************************************************)
(* Looking at the head and running it preserve the invariant: the queue    *)
(* and the thread's key stay as they are.                                  *)
(***************************************************************************)
LEMMA PeekRunStep ==
    ASSUME NEW t \in Threads PROVE IInv /\ (Peek(t) \/ Run(t)) => IInv'
<1> SUFFICES ASSUME IInv, Peek(t) \/ Run(t) PROVE IInv'
  OBVIOUS
<1>1. TypeOK'
  BY TypeStep DEF IInv, Next
<1>2. /\ thread[t].at # "idle" /\ thread[t].key \in Keys
      /\ queues[thread[t].key] # <<>>
  BY ThreadType DEF IInv, DrainNonEmpty, Peek, Run
<1>3. /\ thread'[t].at \in {"run", "pop"}
      /\ thread'[t].key = thread[t].key
      /\ thread'[t].job = Head(queues[thread[t].key])
  <2>1. CASE Peek(t)
    BY <2>1, <1>2 DEF IInv, TypeOK, Peek
  <2>2. CASE Run(t)
    <3>1. thread'[t] = [thread[t] EXCEPT !.at = "pop"]
      BY <2>2 DEF IInv, TypeOK, Run
    <3>2. thread[t] \in [at : {"run", "pop"}, key : Keys, job : Jobs]
      BY <2>2 DEF IInv, TypeOK, Run, Idle
    <3> QED
      BY <2>2, <3>1, <3>2 DEF IInv, HeadRuns, Run
  <2> QED
    BY <2>1, <2>2
<1>4. \A u \in Threads : u # t => thread'[u] = thread[u]
  BY DEF IInv, TypeOK, Peek, Run
<1>5. queues' = queues /\ pool' = pool
  BY DEF Peek, Run
<1>6. \A u \in Threads, m \in Keys : Draining(u, m)' <=> Draining(u, m)
  BY <1>2, <1>3, <1>4 DEF Draining
<1>7. PoolDistinct' /\ PoolNonEmpty'
  BY <1>5 DEF IInv, PoolDistinct, PoolNonEmpty
<1>8. PoolNotDraining'
  BY <1>2, <1>3, <1>4, <1>5 DEF IInv, PoolNotDraining, Draining
<1>9. DrainNonEmpty' /\ HeadRuns'
  BY <1>2, <1>3, <1>4, <1>5 DEF IInv, DrainNonEmpty, HeadRuns
<1>10. OneDrainPerKey' /\ NoStrandedQueue'
  BY <1>5, <1>6 DEF IInv, OneDrainPerKey, NoStrandedQueue
<1> QED
  BY <1>1, <1>7, <1>8, <1>9, <1>10 DEF IInv

(***************************************************************************)
(* Dropping the head preserves the invariant: the drain leaves exactly     *)
(* when it leaves an empty queue behind.                                   *)
(***************************************************************************)
LEMMA PopStep ==
    ASSUME NEW t \in Threads PROVE IInv /\ Pop(t) => IInv'
<1> SUFFICES ASSUME IInv, Pop(t) PROVE IInv'
  OBVIOUS
<1> DEFINE k == thread[t].key
<1>1. TypeOK'
  BY TypeStep DEF IInv, Next
<1>2. thread[t].at = "pop" /\ k \in Keys /\ queues[k] # <<>>
  BY ThreadType DEF IInv, DrainNonEmpty, Pop
<1>3. /\ queues'[k] = Tail(queues[k])
      /\ \A m \in Keys : m # k => queues'[m] = queues[m]
      /\ pool' = pool
  BY <1>2 DEF IInv, TypeOK, Pop
<1>4. /\ thread'[t] = IF queues'[k] = <<>> THEN Idle
                      ELSE [at |-> "peek", key |-> k, job |-> 0]
      /\ \A u \in Threads : u # t => thread'[u] = thread[u]
  BY <1>2 DEF IInv, TypeOK, Pop
<1>5. /\ \A p \in 1..Len(pool) : pool[p] # k /\ pool[p] \in Keys
      /\ \A u \in Threads : u # t => ~Draining(u, k)
  BY <1>2 DEF IInv, TypeOK, PoolNotDraining, OneDrainPerKey, Draining
<1>6. \A u \in Threads : thread[u].at # "idle" => thread[u].key \in Keys
  BY ThreadType DEF IInv
<1>7. PoolDistinct' /\ PoolNonEmpty'
  BY <1>3, <1>5 DEF IInv, PoolDistinct, PoolNonEmpty
<1>8. PoolNotDraining'
  <2> SUFFICES ASSUME NEW p \in 1..Len(pool), NEW u \in Threads,
                      thread'[u].at # "idle", thread'[u].key = pool[p]
               PROVE  FALSE
    BY <1>3 DEF PoolNotDraining, Draining
  <2>1. u # t
    BY <1>4, <1>5 DEF Idle
  <2> QED
    BY <2>1, <1>4 DEF IInv, PoolNotDraining, Draining
<1>9. DrainNonEmpty' /\ HeadRuns'
  <2> SUFFICES ASSUME NEW u \in Threads, thread'[u].at # "idle"
               PROVE  /\ queues'[thread'[u].key] # <<>>
                      /\ thread'[u].at \in {"run", "pop"} =>
                            thread'[u].job = Head(queues'[thread'[u].key])
    BY DEF DrainNonEmpty, HeadRuns
  <2>1. CASE u = t
    BY <2>1, <1>4 DEF Idle
  <2>2. CASE u # t
    <3>1. thread'[u] = thread[u] /\ thread[u].key \in Keys /\ thread[u].key # k
      BY <2>2, <1>4, <1>5, <1>6 DEF Draining
    <3> QED
      BY <3>1, <1>3 DEF IInv, DrainNonEmpty, HeadRuns
  <2> QED
    BY <2>1, <2>2
<1>10. OneDrainPerKey'
  BY <1>4, <1>5 DEF IInv, OneDrainPerKey, Draining, Idle
<1>11. NoStrandedQueue'
  <2> SUFFICES ASSUME NEW m \in Keys, queues'[m] # <<>>
               PROVE  \/ \E p \in 1..Len(pool) : pool[p] = m
                      \/ \E u \in Threads : thread'[u].at # "idle" /\ thread'[u].key = m
    BY <1>3 DEF NoStrandedQueue, Draining
  <2>1. CASE m = k
    BY <2>1, <1>4
  <2>2. CASE m # k
    <3>1. \/ \E p \in 1..Len(pool) : pool[p] = m
          \/ \E u \in Threads : u # t /\ thread[u].at # "idle" /\ thread[u].key = m
      BY <2>2, <1>3 DEF IInv, NoStrandedQueue, Draining
    <3> QED
      BY <3>1, <1>4
  <2> QED
    BY <2>1, <2>2
<1> QED
  BY <1>1, <1>7, <1>8, <1>9, <1>10, <1>11 DEF IInv

(***************************************************************************)
(* IInv is an invariant of the executor.                                   *)
(***************************************************************************)
LEMMA InvariantHolds == Spec => []IInv
<1>1. Init => IInv
  BY ExecutorAssumption DEF Init, IInv, TypeOK, Idle, PoolDistinct, PoolNotDraining,
        PoolNonEmpty, DrainNonEmpty, HeadRuns, OneDrainPerKey, NoStrandedQueue, Draining
<1>2. IInv /\ [Next]_vars => IInv'
  <2> SUFFICES ASSUME IInv, [Next]_vars PROVE IInv'
    OBVIOUS
  <2>1. CASE UNCHANGED vars
    BY <2>1 DEF vars, IInv, TypeOK, PoolDistinct, PoolNotDraining, PoolNonEmpty,
          DrainNonEmpty, HeadRuns, OneDrainPerKey, NoStrandedQueue, Draining
  <2> QED
    BY <2>1, SubmitStep, StartDrainStep, PeekRunStep, PopStep DEF Next
<1> QED
  BY <1>1, <1>2, PTL DEF Spec

(***************************************************************************)
(* Two pool threads never drain one key at the same time, whatever the     *)
(* number of keys, threads and jobs.                                       *)
(***************************************************************************)
THEOREM OneDrainPerKeyHolds == Spec => []OneDrainPerKey
<1>1. IInv => OneDrainPerKey
  BY DEF IInv
<1> QED
  BY <1>1, InvariantHolds, PTL

(***************************************************************************)
(* No job is stranded: a queue with jobs always has its drain.             *)
(***************************************************************************)
THEOREM NoStrandedQueueHolds == Spec => []NoStrandedQueue
<1>1. IInv => NoStrandedQueue
  BY DEF IInv
<1> QED
  BY <1>1, InvariantHolds, PTL
-----------------------------------------------------------------------------
(***************************************************************************)
(* Refinement.  Under IInv the head of a queue has run exactly while the   *)
(* one thread that drains its key is about to pop.                         *)
(***************************************************************************)
WaitingMap == [k \in Keys |-> Waiting(k)]

\* A step that leaves the queues, the popping keys and the history alone is a
\* stuttering step of the lanes.
LEMMA WaitingUnchanged ==
    ASSUME queues' = queues, \A k \in Keys : Popping(k)' <=> Popping(k)
    PROVE  WaitingMap' = WaitingMap
BY DEF WaitingMap, Waiting

(***************************************************************************)
(* submit is a submission to a lane.                                       *)
(***************************************************************************)
LEMMA SubmitRefines == IInv /\ Submit => Lanes!Submit
<1> SUFFICES ASSUME IInv, Submit PROVE Lanes!Submit
  OBVIOUS
<1> PICK j, k : j = submitted + 1 /\ k = KeyOf[j]
  OBVIOUS
<1>1. j \in Jobs /\ k \in Keys /\ queues[k] \in Seq(Jobs)
  BY ExecutorAssumption DEF IInv, TypeOK, Submit, Jobs
<1>2. /\ queues' = [queues EXCEPT ![k] = Append(@, j)]
      /\ thread' = thread /\ queues \in [Keys -> Seq(Jobs)]
  BY DEF Submit, Enqueue, IInv, TypeOK
<1>3. \A m \in Keys : Popping(m)' <=> Popping(m)
  BY <1>2 DEF Popping, Draining
<1>4. \A m \in Keys : m # k => Waiting(m)' = Waiting(m)
  BY <1>2, <1>3 DEF Waiting
<1>5. Waiting(k)' = Append(Waiting(k), j)
  <2>1. CASE Popping(k)
    <3>1. queues[k] # <<>>
      BY <2>1 DEF Popping, Draining, IInv, DrainNonEmpty
    <3>2. Tail(Append(queues[k], j)) = Append(Tail(queues[k]), j)
      BY <1>1, <3>1, AppendFacts
    <3> QED
      BY <2>1, <3>2, <1>1, <1>2, <1>3 DEF Waiting
  <2>2. CASE ~Popping(k)
    BY <2>2, <1>1, <1>2, <1>3 DEF Waiting
  <2> QED
    BY <2>1, <2>2
<1>6. WaitingMap' = [WaitingMap EXCEPT ![k] = Append(@, j)]
  BY <1>1, <1>4, <1>5 DEF WaitingMap
<1> QED
  BY <1>6 DEF Lanes!Submit, Submit, WaitingMap

(***************************************************************************)
(* Running a job is the step of its lane; every other step of a thread     *)
(* leaves the lanes as they are.                                           *)
(***************************************************************************)
LEMMA RunRefines ==
    ASSUME NEW t \in Threads PROVE IInv /\ Run(t) => Lanes!RunNext(thread[t].key)
<1> SUFFICES ASSUME IInv, Run(t) PROVE Lanes!RunNext(thread[t].key)
  OBVIOUS
<1> PICK k : k = thread[t].key
  OBVIOUS
<1>1. k \in Keys /\ thread[t].at = "run" /\ queues[k] # <<>>
  BY ThreadType DEF IInv, DrainNonEmpty, Run
<1>2. thread[t] \in [at : {"run", "pop"}, key : Keys, job : Jobs]
  BY DEF IInv, TypeOK, Run, Idle
<1>3. /\ thread'[t].at = "pop" /\ thread'[t].key = k
      /\ \A u \in Threads : u # t => thread'[u] = thread[u]
      /\ queues' = queues
  BY <1>2 DEF IInv, TypeOK, Run
<1>4. ~Popping(k) /\ Popping(k)'
  BY <1>1, <1>3 DEF IInv, OneDrainPerKey, Popping, Draining
<1>5. \A m \in Keys : m # k => (Popping(m)' <=> Popping(m))
  BY <1>1, <1>3 DEF Popping, Draining
<1>6. Waiting(k) = queues[k] /\ Waiting(k)' = Tail(queues[k])
  BY <1>3, <1>4 DEF Waiting
<1>7. \A m \in Keys : m # k => Waiting(m)' = Waiting(m)
  BY <1>3, <1>5 DEF Waiting
<1>8. WaitingMap' = [WaitingMap EXCEPT ![k] = Tail(@)] /\ WaitingMap[k] = queues[k]
  BY <1>1, <1>6, <1>7 DEF WaitingMap
<1>9. ran' = [ran EXCEPT ![k] = Append(@, Head(queues[k]))]
  BY <1>1 DEF Run, IInv, HeadRuns
<1> QED
  BY <1>1, <1>8, <1>9 DEF Lanes!RunNext, WaitingMap, Run

(***************************************************************************)
(* The hand-over to a thread, the look at the head and the removal of a    *)
(* head that has run change no lane.                                       *)
(***************************************************************************)
LEMMA OthersStutter ==
    ASSUME NEW t \in Threads
    PROVE  IInv /\ (StartDrain(t) \/ Peek(t) \/ Pop(t)) =>
               UNCHANGED <<submitted, WaitingMap, ran>>
<1> SUFFICES ASSUME IInv, StartDrain(t) \/ Peek(t) \/ Pop(t)
             PROVE  UNCHANGED <<submitted, WaitingMap, ran>>
  OBVIOUS
<1>1. submitted' = submitted /\ ran' = ran
  BY DEF StartDrain, Peek, Pop
<1>2. CASE StartDrain(t)
  <2>1. /\ thread[t].at = "idle" /\ thread'[t].at = "peek"
        /\ \A u \in Threads : u # t => thread'[u] = thread[u]
        /\ queues' = queues
    BY <1>2 DEF StartDrain, IInv, TypeOK
  <2>2. \A k \in Keys : Popping(k)' <=> Popping(k)
    BY <2>1 DEF Popping, Draining
  <2> QED
    BY <1>1, <2>1, <2>2, WaitingUnchanged
<1>3. CASE Peek(t)
  <2>1. /\ thread[t].at = "peek" /\ thread'[t].at \in {"idle", "run"}
        /\ \A u \in Threads : u # t => thread'[u] = thread[u]
        /\ queues' = queues
    BY <1>3 DEF Peek, IInv, TypeOK, Idle
  <2>2. \A k \in Keys : Popping(k)' <=> Popping(k)
    BY <2>1 DEF Popping, Draining
  <2> QED
    BY <1>1, <2>1, <2>2, WaitingUnchanged
<1>4. CASE Pop(t)
  <2> PICK k : k = thread[t].key
    OBVIOUS
  <2>1. thread[t].at = "pop" /\ k \in Keys /\ queues[k] # <<>>
    BY <1>4, ThreadType DEF IInv, DrainNonEmpty, Pop
  <2>2. /\ queues'[k] = Tail(queues[k])
        /\ \A m \in Keys : m # k => queues'[m] = queues[m]
        /\ thread'[t].at \in {"idle", "peek"}
        /\ \A u \in Threads : u # t => thread'[u] = thread[u]
    BY <1>4, <2>1 DEF IInv, TypeOK, Pop, Idle
  <2>3. Popping(k) /\ ~Popping(k)'
    BY <2>1, <2>2 DEF IInv, OneDrainPerKey, Popping, Draining
  <2>4. \A m \in Keys : m # k => (Popping(m)' <=> Popping(m))
    BY <2>1, <2>2 DEF Popping, Draining
  <2>5. \A m \in Keys : Waiting(m)' = Waiting(m)
    BY <2>2, <2>3, <2>4 DEF Waiting
  <2> QED
    BY <1>1, <2>5 DEF WaitingMap
<1> QED
  BY <1>2, <1>3, <1>4

(***************************************************************************)
(* The executor implements the lanes, safety part of ImplementsLanes: jobs *)
(* of one key run one at a time, each once, in the order of submission,    *)
(* for any keys, any pool size and any number of jobs.                     *)
(***************************************************************************)
THEOREM ImplementsLanesSafety == Spec => Lanes!Safety
<1>1. Init => Lanes!Init
  <2> SUFFICES ASSUME Init PROVE Lanes!Init
    OBVIOUS
  <2>1. \A k \in Keys : Waiting(k) = <<>>
    BY DEF Init, Waiting, Popping, Draining, Idle
  <2>2. WaitingMap = [k \in Keys |-> <<>>]
    BY <2>1 DEF WaitingMap
  <2> QED
    BY <2>2 DEF Init, Lanes!Init, WaitingMap
<1>2. IInv /\ [Next]_vars => [Lanes!Next]_(Lanes!vars)
  <2> SUFFICES ASSUME IInv, [Next]_vars PROVE [Lanes!Next]_(Lanes!vars)
    OBVIOUS
  <2>1. CASE Submit
    BY <2>1, SubmitRefines DEF Lanes!Next
  <2>2. ASSUME NEW t \in Threads, Run(t) PROVE Lanes!Next
    <3>1. thread[t].key \in Keys
      BY <2>2, ThreadType DEF IInv, Run
    <3> QED
      BY <2>2, <3>1, RunRefines DEF Lanes!Next
  <2>3. ASSUME NEW t \in Threads, StartDrain(t) \/ Peek(t) \/ Pop(t)
        PROVE  UNCHANGED Lanes!vars
    BY <2>3, OthersStutter DEF Lanes!vars, WaitingMap
  <2>4. CASE UNCHANGED vars
    <3>1. WaitingMap' = WaitingMap
      BY <2>4 DEF vars, WaitingMap, Waiting, Popping, Draining
    <3> QED
      BY <2>4, <3>1 DEF vars, Lanes!vars, WaitingMap
  <2> QED
    BY <2>1, <2>2, <2>3, <2>4 DEF Next
<1> QED
  BY <1>1, <1>2, InvariantHolds, PTL DEF Spec, Lanes!Safety
=============================================================================
