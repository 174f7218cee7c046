-------------------------- MODULE StreamWorkerProofs --------------------------
(***************************************************************************)
(* Proofs about StreamWorker, for any workers, lanes, messages, limits and *)
(* handler results: its types, that no message is lost silently, and how   *)
(* often a handler runs.                                                   *)
(***************************************************************************)
EXTENDS StreamWorker, SequenceTheorems, FiniteSetTheorems, TLAPS

ThreadRecords ==
    [at : {"check", "handle", "settle", "bury", "mark", "ack"},
     msg : Messages, result : Results \cup {"none"}]
-----------------------------------------------------------------------------
(***************************************************************************)
(* What a busy thread looks like under TypeOK.                             *)
(***************************************************************************)
LEMMA BusyThread ==
    ASSUME TypeOK, NEW t \in Threads, thread[t].at # "idle"
    PROVE  thread[t] \in ThreadRecords /\ thread[t] # Idle
BY DEF TypeOK, Idle, ThreadRecords

\* A thread is a worker with a lane or with its main loop.
LEMMA ThreadParts ==
    ASSUME NEW t \in Threads
    PROVE  t[1] \in Workers /\ (~OnMain(t) => t \in Workers \X LaneKeys)
BY DEF Threads, OnMain

(***************************************************************************)
(* The inductive invariant.  A busy lane still has its message queued.     *)
(***************************************************************************)
LaneBusy ==
    \A t \in Threads : ~OnMain(t) /\ thread[t].at # "idle" => queue[t] # <<>>

\* Whatever a worker holds has been added to the stream: its key is fixed.
Held(m) ==
    \/ \E q \in Workers \X LaneKeys : \E p \in 1..Len(queue[q]) : queue[q][p] = m
    \/ \E w \in Workers : m \in claimed[w]
    \/ \E t \in Threads : thread[t].at # "idle" /\ thread[t].msg = m

HeldAdded == \A m \in Messages : Held(m) => entry[m] # "unsent"

KeyGiven == \A m \in Messages : entry[m] # "unsent" => key[m] \in EventKeys

\* A dedupe key is set for successful events only.
ProcessedSucceeded == processed \subseteq succeeded

\* A thread about to mark or to acknowledge has the evidence for it.
Evidence(t) ==
    LET m == thread[t].msg IN
    /\ thread[t].at = "settle" /\ thread[t].result = "success" => key[m] \in succeeded
    /\ thread[t].at = "mark" => key[m] \in succeeded
    /\ thread[t].at = "ack" => key[m] \in succeeded \/ deadLetters[m] # "none"

ThreadEvidence == \A t \in Threads : Evidence(t)

IInv ==
    /\ TypeOK
    /\ LaneBusy
    /\ HeldAdded
    /\ KeyGiven
    /\ ProcessedSucceeded
    /\ ThreadEvidence
    /\ NoSilentLoss
-----------------------------------------------------------------------------
(***************************************************************************)
(* What Done does: the thread is free and the workers hold nothing new.    *)
(***************************************************************************)
LEMMA DoneFacts ==
    ASSUME TypeOK, LaneBusy, NEW t \in Threads, thread[t].at # "idle", Done(t)
    PROVE  /\ thread' \in [Threads -> {Idle} \cup ThreadRecords]
           /\ queue' \in [Workers \X LaneKeys -> Seq(Messages)]
           /\ claimed' \in [Workers -> SUBSET Messages]
           /\ thread'[t] = Idle /\ \A u \in Threads : u # t => thread'[u] = thread[u]
           /\ \A u \in Threads : u # t /\ ~OnMain(u) => queue'[u] = queue[u]
           /\ \A m \in Messages : Held(m)' => Held(m)
<1>1. /\ thread' \in [Threads -> {Idle} \cup ThreadRecords]
      /\ thread'[t] = Idle /\ \A u \in Threads : u # t => thread'[u] = thread[u]
  BY DEF TypeOK, Done, ThreadRecords
<1>2. CASE OnMain(t)
  <2>1. t[1] \in Workers
    BY ThreadParts
  <2>2. /\ claimed' = [claimed EXCEPT ![t[1]] = @ \ {thread[t].msg}]
        /\ queue' = queue
    BY <1>2 DEF Done
  <2>3. claimed \in [Workers -> SUBSET Messages] /\ queue \in [Workers \X LaneKeys -> Seq(Messages)]
    BY DEF TypeOK
  <2>4. claimed' \in [Workers -> SUBSET Messages] /\ \A w \in Workers : claimed'[w] \subseteq claimed[w]
    BY <2>1, <2>2, <2>3
  <2>5. ASSUME NEW m \in Messages, Held(m)' PROVE Held(m)
    BY <1>1, <2>2, <2>4, <2>5 DEF Held, Idle
  <2> QED
    BY <1>1, <2>2, <2>3, <2>4, <2>5
<1>3. CASE ~OnMain(t)
  <2>1. t \in Workers \X LaneKeys
    BY <1>3, ThreadParts
  <2>2. queue[t] \in Seq(Messages) /\ queue[t] # <<>> /\ claimed \in [Workers -> SUBSET Messages]
    BY <1>3, <2>1 DEF TypeOK, LaneBusy
  <2>3. /\ Tail(queue[t]) \in Seq(Messages) /\ Len(Tail(queue[t])) = Len(queue[t]) - 1
        /\ \A p \in 1..Len(Tail(queue[t])) : Tail(queue[t])[p] = queue[t][p + 1]
        /\ Len(queue[t]) \in Nat
    BY <2>2, HeadTailProperties, LenProperties
  <2>4. claimed' = claimed /\ queue' = [queue EXCEPT ![t] = Tail(@)]
    BY <1>3 DEF Done
  <2>5. /\ queue' \in [Workers \X LaneKeys -> Seq(Messages)]
        /\ queue'[t] = Tail(queue[t])
        /\ \A q \in Workers \X LaneKeys : q # t => queue'[q] = queue[q]
    BY <2>1, <2>3, <2>4 DEF TypeOK
  <2>6. ASSUME NEW m \in Messages, Held(m)' PROVE Held(m)
    <3>1. CASE \E q \in Workers \X LaneKeys : \E p \in 1..Len(queue'[q]) : queue'[q][p] = m
      <4> PICK q \in Workers \X LaneKeys : \E p \in 1..Len(queue'[q]) : queue'[q][p] = m
        BY <3>1
      <4> PICK p \in 1..Len(queue'[q]) : queue'[q][p] = m
        OBVIOUS
      <4>1. CASE q = t
        <5>1. p + 1 \in 1..Len(queue[t]) /\ queue[t][p + 1] = m
          BY <4>1, <2>3, <2>5
        <5> QED
          BY <2>1, <5>1 DEF Held
      <4>2. CASE q # t
        BY <4>2, <2>5 DEF Held
      <4> QED
        BY <4>1, <4>2
    <3>2. CASE \E w \in Workers : m \in claimed'[w]
      BY <3>2, <2>4 DEF Held
    <3>3. CASE \E u \in Threads : thread'[u].at # "idle" /\ thread'[u].msg = m
      BY <3>3, <1>1 DEF Held, Idle
    <3> QED
      BY <2>6, <3>1, <3>2, <3>3 DEF Held
  <2>7. \A u \in Threads : u # t /\ ~OnMain(u) => queue'[u] = queue[u]
    BY <2>5, ThreadParts
  <2> QED
    BY <1>1, <2>2, <2>4, <2>5, <2>6, <2>7
<1> QED
  BY <1>2, <1>3

(***************************************************************************)
(* A busy thread that goes on with its message: nothing else moves.        *)
(***************************************************************************)
LEMMA GoOnFacts ==
    ASSUME TypeOK, LaneBusy, NEW t \in Threads, thread[t].at # "idle",
           NEW r \in ThreadRecords, r.msg = thread[t].msg,
           thread' = [thread EXCEPT ![t] = r], queue' = queue, claimed' = claimed
    PROVE  /\ thread' \in [Threads -> {Idle} \cup ThreadRecords]
           /\ thread'[t] = r /\ \A u \in Threads : u # t => thread'[u] = thread[u]
           /\ LaneBusy'
           /\ \A m \in Messages : Held(m)' => Held(m)
<1>1. /\ thread' \in [Threads -> {Idle} \cup ThreadRecords]
      /\ thread'[t] = r /\ \A u \in Threads : u # t => thread'[u] = thread[u]
  BY DEF TypeOK, ThreadRecords
<1>2. LaneBusy'
  BY <1>1 DEF LaneBusy
<1>3. ASSUME NEW m \in Messages, Held(m)' PROVE Held(m)
  BY <1>1, <1>3 DEF Held
<1> QED
  BY <1>1, <1>2, <1>3

(***************************************************************************)
(* What keeps the parts about loss when a step changes one thread and no   *)
(* key: it creates no holding, forgets no evidence and acknowledges only   *)
(* what it has evidence for.                                               *)
(***************************************************************************)
LEMMA EvidenceKept ==
    ASSUME IInv, NEW t \in Threads, key' = key,
           \A u \in Threads : u # t => thread'[u] = thread[u],
           \A m \in Messages : Held(m)' => Held(m),
           succeeded \subseteq succeeded', processed' \subseteq succeeded',
           \A m \in Messages : deadLetters[m] # "none" => deadLetters'[m] # "none",
           \A m \in Messages : entry[m] # "unsent" <=> entry'[m] # "unsent",
           \A m \in Messages : entry'[m] = "acked" /\ entry[m] # "acked" =>
                key[m] \in succeeded' \/ deadLetters'[m] # "none",
           Evidence(t)'
    PROVE  HeldAdded' /\ KeyGiven' /\ ProcessedSucceeded' /\ ThreadEvidence' /\ NoSilentLoss'
<1>1. HeldAdded' /\ KeyGiven'
  BY DEF IInv, HeldAdded, KeyGiven
<1>2. ProcessedSucceeded'
  BY DEF ProcessedSucceeded
<1>3. ThreadEvidence'
  <2> SUFFICES ASSUME NEW u \in Threads, u # t PROVE Evidence(u)'
    BY DEF ThreadEvidence
  <2>1. thread'[u] = thread[u] /\ Evidence(u)
    BY DEF IInv, ThreadEvidence
  <2>2. thread[u].at # "idle" => thread[u].msg \in Messages
    BY BusyThread DEF IInv, ThreadRecords
  <2> QED
    BY <2>1, <2>2 DEF Evidence
<1>4. NoSilentLoss'
  BY DEF IInv, NoSilentLoss
<1> QED
  BY <1>1, <1>2, <1>3, <1>4
-----------------------------------------------------------------------------
(***************************************************************************)
(* The steps of a busy thread that goes on with its message.               *)
(***************************************************************************)
LEMMA CheckProcessedStep ==
    ASSUME NEW t \in Threads PROVE IInv /\ CheckProcessed(t) => IInv'
<1> SUFFICES ASSUME IInv, CheckProcessed(t) PROVE IInv'
  OBVIOUS
<1> PICK r : r = [thread[t] EXCEPT !.at = IF key[thread[t].msg] \in processed
                                          THEN "ack" ELSE "handle"]
  OBVIOUS
<1>1. TypeOK /\ LaneBusy /\ thread[t].at = "check" /\ thread[t] \in ThreadRecords
  BY BusyThread DEF IInv, CheckProcessed
<1>2. /\ r \in ThreadRecords /\ r.msg = thread[t].msg
      /\ r.at = (IF key[thread[t].msg] \in processed THEN "ack" ELSE "handle")
  BY <1>1 DEF ThreadRecords
<1>3. thread' = [thread EXCEPT ![t] = r] /\ queue' = queue /\ claimed' = claimed
  BY DEF CheckProcessed
<1>4. /\ thread' \in [Threads -> {Idle} \cup ThreadRecords]
      /\ thread'[t] = r /\ \A u \in Threads : u # t => thread'[u] = thread[u]
      /\ LaneBusy'
      /\ \A m \in Messages : Held(m)' => Held(m)
  BY <1>1, <1>2, <1>3, GoOnFacts
<1>5. UNCHANGED <<entry, key, delivered, processed, deadLetters, up, succeeded, handled, faults>>
  BY DEF CheckProcessed
<1>6. TypeOK'
  BY <1>1, <1>3, <1>4, <1>5 DEF TypeOK, ThreadRecords
<1>7. Evidence(t)'
  BY <1>2, <1>4, <1>5 DEF Evidence, IInv, ProcessedSucceeded
<1>8. HeldAdded' /\ KeyGiven' /\ ProcessedSucceeded' /\ ThreadEvidence' /\ NoSilentLoss'
  BY <1>4, <1>5, <1>7, EvidenceKept DEF IInv, ProcessedSucceeded
<1> QED
  BY <1>4, <1>6, <1>8 DEF IInv

\* The handler's return: a success is remembered for the message's key.
LEMMA ReturnStep ==
    ASSUME NEW t \in Threads, NEW x \in HandlerResults PROVE IInv /\ Return(t, x) => IInv'
<1> SUFFICES ASSUME IInv, Return(t, x) PROVE IInv'
  OBVIOUS
<1> PICK m, r : m = thread[t].msg /\ r = [thread[t] EXCEPT !.at = "settle", !.result = x]
  OBVIOUS
<1>1. TypeOK /\ LaneBusy /\ thread[t].at = "handle" /\ thread[t] \in ThreadRecords /\ x \in Results
  BY BusyThread, StreamAssumption DEF IInv, Return
<1>2. r \in ThreadRecords /\ r.msg = m /\ r.at = "settle" /\ r.result = x /\ m \in Messages
  BY <1>1 DEF ThreadRecords
<1>3. thread' = [thread EXCEPT ![t] = r] /\ queue' = queue /\ claimed' = claimed
  BY DEF Return
<1>4. /\ thread' \in [Threads -> {Idle} \cup ThreadRecords]
      /\ thread'[t] = r /\ \A u \in Threads : u # t => thread'[u] = thread[u]
      /\ LaneBusy'
      /\ \A n \in Messages : Held(n)' => Held(n)
  BY <1>1, <1>2, <1>3, GoOnFacts
<1>5. /\ UNCHANGED <<entry, key, delivered, processed, deadLetters, up, faults>>
      /\ succeeded' = IF x = "success" THEN succeeded \cup {key[m]} ELSE succeeded
      /\ handled' = [handled EXCEPT ![m] = @ + 1]
  BY DEF Return
<1>6. x = "success" => key[m] \in EventKeys
  <2>1. Held(m)
    BY <1>1 DEF Held
  <2>2. entry[m] # "unsent"
    BY <1>2, <2>1 DEF IInv, HeldAdded
  <2> QED
    BY <1>2, <2>2 DEF IInv, KeyGiven
<1>7. TypeOK'
  <2>1. succeeded' \subseteq EventKeys /\ handled' \in [Messages -> Nat]
    BY <1>1, <1>2, <1>5, <1>6 DEF TypeOK
  <2> QED
    BY <1>1, <1>3, <1>4, <1>5, <2>1 DEF TypeOK, ThreadRecords
<1>8. Evidence(t)'
  BY <1>2, <1>4, <1>5 DEF Evidence
<1>9. HeldAdded' /\ KeyGiven' /\ ProcessedSucceeded' /\ ThreadEvidence' /\ NoSilentLoss'
  BY <1>4, <1>5, <1>8, EvidenceKept DEF IInv, ProcessedSucceeded
<1> QED
  BY <1>4, <1>7, <1>9 DEF IInv

\* A result that is not retried: only a success goes on to the dedupe key.
LEMMA SettleStep ==
    ASSUME NEW t \in Threads PROVE IInv /\ Settle(t) => IInv'
<1> SUFFICES ASSUME IInv, Settle(t) PROVE IInv'
  OBVIOUS
<1> PICK r : r = [thread[t] EXCEPT !.at = AfterResult(thread[t].result)]
  OBVIOUS
<1>1. TypeOK /\ LaneBusy /\ thread[t].at = "settle" /\ thread[t] \in ThreadRecords
  BY BusyThread DEF IInv, Settle
<1>2. /\ r \in ThreadRecords /\ r.msg = thread[t].msg
      /\ r.at = (IF thread[t].result = "success" THEN "mark" ELSE "bury")
  BY <1>1 DEF ThreadRecords, AfterResult
<1>3. thread' = [thread EXCEPT ![t] = r] /\ queue' = queue /\ claimed' = claimed
  BY DEF Settle
<1>4. /\ thread' \in [Threads -> {Idle} \cup ThreadRecords]
      /\ thread'[t] = r /\ \A u \in Threads : u # t => thread'[u] = thread[u]
      /\ LaneBusy'
      /\ \A m \in Messages : Held(m)' => Held(m)
  BY <1>1, <1>2, <1>3, GoOnFacts
<1>5. UNCHANGED <<entry, key, delivered, processed, deadLetters, up, succeeded, handled, faults>>
  BY DEF Settle
<1>6. TypeOK'
  BY <1>1, <1>3, <1>4, <1>5 DEF TypeOK, ThreadRecords
<1>7. Evidence(t)'
  BY <1>1, <1>2, <1>4, <1>5 DEF Evidence, IInv, ThreadEvidence
<1>8. HeldAdded' /\ KeyGiven' /\ ProcessedSucceeded' /\ ThreadEvidence' /\ NoSilentLoss'
  BY <1>4, <1>5, <1>7, EvidenceKept DEF IInv, ProcessedSucceeded
<1> QED
  BY <1>4, <1>6, <1>8 DEF IInv

\* The commit of the dead letter is the evidence for the acknowledgement.
LEMMA PersistDeadLetterStep ==
    ASSUME NEW t \in Threads PROVE IInv /\ PersistDeadLetter(t) => IInv'
<1> SUFFICES ASSUME IInv, PersistDeadLetter(t) PROVE IInv'
  OBVIOUS
<1> PICK r : r = [thread[t] EXCEPT !.at = "ack"]
  OBVIOUS
<1>1. TypeOK /\ LaneBusy /\ thread[t].at = "bury" /\ thread[t] \in ThreadRecords
  BY BusyThread DEF IInv, PersistDeadLetter
<1>2. r \in ThreadRecords /\ r.msg = thread[t].msg /\ r.at = "ack" /\ r.msg \in Messages
  BY <1>1 DEF ThreadRecords
<1>3. thread' = [thread EXCEPT ![t] = r] /\ queue' = queue /\ claimed' = claimed
  BY DEF PersistDeadLetter
<1>4. /\ thread' \in [Threads -> {Idle} \cup ThreadRecords]
      /\ thread'[t] = r /\ \A u \in Threads : u # t => thread'[u] = thread[u]
      /\ LaneBusy'
      /\ \A m \in Messages : Held(m)' => Held(m)
  BY <1>1, <1>2, <1>3, GoOnFacts
<1>5. /\ UNCHANGED <<entry, key, delivered, processed, up, succeeded, handled, faults>>
      /\ deadLetters' = [deadLetters EXCEPT ![r.msg] = "pending"]
  BY <1>2 DEF PersistDeadLetter
<1>6. /\ deadLetters' \in [Messages -> {"none", "pending", "replayed"}]
      /\ deadLetters'[r.msg] # "none"
      /\ \A m \in Messages : deadLetters[m] # "none" => deadLetters'[m] # "none"
  BY <1>1, <1>2, <1>5 DEF TypeOK
<1>7. TypeOK'
  BY <1>1, <1>3, <1>4, <1>5, <1>6 DEF TypeOK, ThreadRecords
<1>8. Evidence(t)'
  BY <1>2, <1>4, <1>6 DEF Evidence
<1>9. HeldAdded' /\ KeyGiven' /\ ProcessedSucceeded' /\ ThreadEvidence' /\ NoSilentLoss'
  BY <1>4, <1>5, <1>6, <1>8, EvidenceKept DEF IInv, ProcessedSucceeded
<1> QED
  BY <1>4, <1>7, <1>9 DEF IInv

\* The dedupe key is set for a key that has succeeded.
LEMMA MarkProcessedStep ==
    ASSUME NEW t \in Threads PROVE IInv /\ MarkProcessed(t) => IInv'
<1> SUFFICES ASSUME IInv, MarkProcessed(t) PROVE IInv'
  OBVIOUS
<1> PICK r : r = [thread[t] EXCEPT !.at = "ack"]
  OBVIOUS
<1>1. TypeOK /\ LaneBusy /\ thread[t].at = "mark" /\ thread[t] \in ThreadRecords
  BY BusyThread DEF IInv, MarkProcessed
<1>2. r \in ThreadRecords /\ r.msg = thread[t].msg /\ r.at = "ack"
  BY <1>1 DEF ThreadRecords
<1>3. thread' = [thread EXCEPT ![t] = r] /\ queue' = queue /\ claimed' = claimed
  BY DEF MarkProcessed
<1>4. /\ thread' \in [Threads -> {Idle} \cup ThreadRecords]
      /\ thread'[t] = r /\ \A u \in Threads : u # t => thread'[u] = thread[u]
      /\ LaneBusy'
      /\ \A m \in Messages : Held(m)' => Held(m)
  BY <1>1, <1>2, <1>3, GoOnFacts
<1>5. /\ UNCHANGED <<entry, key, delivered, deadLetters, up, succeeded, handled, faults>>
      /\ processed' = processed \cup {key[r.msg]}
  BY <1>2 DEF MarkProcessed
<1>6. key[r.msg] \in succeeded
  BY <1>1, <1>2 DEF IInv, ThreadEvidence, Evidence
<1>7. TypeOK'
  BY <1>1, <1>3, <1>4, <1>5, <1>6 DEF TypeOK, ThreadRecords
<1>8. Evidence(t)'
  BY <1>2, <1>4, <1>5, <1>6 DEF Evidence
<1>9. HeldAdded' /\ KeyGiven' /\ ProcessedSucceeded' /\ ThreadEvidence' /\ NoSilentLoss'
  BY <1>4, <1>5, <1>6, <1>8, EvidenceKept DEF IInv, ProcessedSucceeded
<1> QED
  BY <1>4, <1>7, <1>9 DEF IInv
-----------------------------------------------------------------------------
(***************************************************************************)
(* Steps that end the work on a message.  All but Ack leave it pending.    *)
(***************************************************************************)
LEMMA DoneStep ==
    ASSUME IInv, NEW t \in Threads, thread[t].at # "idle", Done(t),
           UNCHANGED <<key, delivered, processed, deadLetters, up, succeeded, handled>>,
           faults' \in 0..MaxFaults,
           entry' = entry \/ (thread[t].at = "ack" /\ entry' = [entry EXCEPT ![thread[t].msg] = "acked"])
    PROVE  IInv'
<1>1. /\ thread' \in [Threads -> {Idle} \cup ThreadRecords]
      /\ queue' \in [Workers \X LaneKeys -> Seq(Messages)]
      /\ claimed' \in [Workers -> SUBSET Messages]
      /\ thread'[t] = Idle /\ \A u \in Threads : u # t => thread'[u] = thread[u]
      /\ \A u \in Threads : u # t /\ ~OnMain(u) => queue'[u] = queue[u]
      /\ \A m \in Messages : Held(m)' => Held(m)
  BY DoneFacts DEF IInv
<1>2. thread[t].msg \in Messages /\ Held(thread[t].msg)
  BY BusyThread DEF IInv, ThreadRecords, Held
<1>3. /\ entry' \in [Messages -> {"unsent", "new", "pending", "acked"}]
      /\ \A m \in Messages : entry[m] # "unsent" <=> entry'[m] # "unsent"
  BY <1>2 DEF IInv, TypeOK, HeldAdded
<1>4. TypeOK'
  BY <1>1, <1>3 DEF IInv, TypeOK, ThreadRecords
<1>5. LaneBusy'
  BY <1>1 DEF IInv, LaneBusy, Idle
<1>6. Evidence(t)'
  BY <1>1 DEF Evidence, Idle
<1>7. \A m \in Messages : entry'[m] = "acked" /\ entry[m] # "acked" =>
          key[m] \in succeeded \/ deadLetters[m] # "none"
  BY <1>2 DEF IInv, TypeOK, ThreadEvidence, Evidence
<1>8. HeldAdded' /\ KeyGiven' /\ ProcessedSucceeded' /\ ThreadEvidence' /\ NoSilentLoss'
  BY <1>1, <1>3, <1>6, <1>7, EvidenceKept DEF IInv, ProcessedSucceeded
<1> QED
  BY <1>4, <1>5, <1>8 DEF IInv

\* A call that raises is one fault more.
LEMMA RaisesFacts ==
    ASSUME IInv, NEW t \in Threads, Raises(t)
    PROVE  /\ faults' \in 0..MaxFaults
           /\ UNCHANGED <<entry, key, delivered, processed, deadLetters, up, succeeded, handled>>
<1>1. MaxFaults \in Nat /\ faults \in 0..MaxFaults
  BY StreamAssumption DEF IInv, TypeOK
<1> QED
  BY <1>1 DEF Raises

\* A retry below the limit or of unknown count, a write that raises, and XACK.
LEMMA EndStep ==
    ASSUME NEW t \in Threads
    PROVE  IInv /\ (KeepPending(t) \/ AttemptsUnknown(t) \/ LaneRaises(t) \/ Ack(t)) => IInv'
<1> SUFFICES ASSUME IInv, KeepPending(t) \/ AttemptsUnknown(t) \/ LaneRaises(t) \/ Ack(t)
             PROVE  IInv'
  OBVIOUS
<1>1. MaxFaults \in Nat /\ faults \in 0..MaxFaults
  BY StreamAssumption DEF IInv, TypeOK
<1>2. CASE KeepPending(t)
  BY <1>1, <1>2, DoneStep DEF KeepPending
<1>3. CASE AttemptsUnknown(t) \/ LaneRaises(t)
  <2>1. Raises(t) /\ Done(t) /\ thread[t].at # "idle"
    BY <1>3 DEF AttemptsUnknown, LaneRaises
  <2> QED
    BY <2>1, RaisesFacts, DoneStep
<1>4. CASE Ack(t)
  BY <1>1, <1>4, DoneStep DEF Ack
<1> QED
  BY <1>2, <1>3, <1>4

\* A look-up that raises counts as a retry.
LEMMA CheckRaisesStep ==
    ASSUME NEW t \in Threads PROVE IInv /\ CheckRaises(t) => IInv'
<1> SUFFICES ASSUME IInv, CheckRaises(t) PROVE IInv'
  OBVIOUS
<1> PICK r : r = [thread[t] EXCEPT !.at = "settle", !.result = "retry"]
  OBVIOUS
<1>1. TypeOK /\ LaneBusy /\ thread[t].at # "idle" /\ thread[t] \in ThreadRecords
  BY BusyThread DEF IInv, CheckRaises
<1>2. r \in ThreadRecords /\ r.msg = thread[t].msg /\ r.at = "settle" /\ r.result = "retry"
  BY <1>1 DEF ThreadRecords, Results
<1>3. thread' = [thread EXCEPT ![t] = r] /\ queue' = queue /\ claimed' = claimed /\ Raises(t)
  BY DEF CheckRaises
<1>4. /\ thread' \in [Threads -> {Idle} \cup ThreadRecords]
      /\ thread'[t] = r /\ \A u \in Threads : u # t => thread'[u] = thread[u]
      /\ LaneBusy'
      /\ \A m \in Messages : Held(m)' => Held(m)
  BY <1>1, <1>2, <1>3, GoOnFacts
<1>5. /\ faults' \in 0..MaxFaults
      /\ UNCHANGED <<entry, key, delivered, processed, deadLetters, up, succeeded, handled>>
  BY <1>3, RaisesFacts
<1>6. TypeOK'
  BY <1>1, <1>3, <1>4, <1>5 DEF TypeOK, ThreadRecords
<1>7. Evidence(t)'
  BY <1>2, <1>4, <1>5 DEF Evidence
<1>8. HeldAdded' /\ KeyGiven' /\ ProcessedSucceeded' /\ ThreadEvidence' /\ NoSilentLoss'
  BY <1>4, <1>5, <1>7, EvidenceKept DEF IInv, ProcessedSucceeded
<1> QED
  BY <1>4, <1>6, <1>8 DEF IInv

(***************************************************************************)
(* A free thread begins with a message its worker holds.                   *)
(***************************************************************************)
LEMMA BeginStep ==
    ASSUME NEW t \in Threads, NEW m \in Messages PROVE IInv /\ Begin(t, m) => IInv'
<1> SUFFICES ASSUME IInv, Begin(t, m) PROVE IInv'
  OBVIOUS
<1> PICK r : r = [at |-> "check", msg |-> m, result |-> "none"]
  OBVIOUS
<1>1. /\ r \in ThreadRecords /\ r.at = "check" /\ r.msg = m
      /\ thread' = [thread EXCEPT ![t] = r]
  BY DEF ThreadRecords, Begin
<1>2. /\ thread' \in [Threads -> {Idle} \cup ThreadRecords]
      /\ thread'[t] = r /\ \A u \in Threads : u # t => thread'[u] = thread[u]
  BY <1>1 DEF IInv, TypeOK, ThreadRecords
<1>3. UNCHANGED <<entry, key, delivered, processed, deadLetters, queue, claimed,
                  up, succeeded, handled, faults>>
  BY DEF Begin
<1>4. TypeOK'
  BY <1>2, <1>3 DEF IInv, TypeOK, ThreadRecords
<1>5. LaneBusy'
  BY <1>2, <1>3 DEF IInv, LaneBusy, Begin
<1>6. Held(m)
  <2>1. CASE OnMain(t)
    <3>1. t[1] \in Workers /\ m \in claimed[t[1]]
      BY <2>1, ThreadParts DEF Begin
    <3> QED
      BY <3>1 DEF Held
  <2>2. CASE ~OnMain(t)
    <3>1. t \in Workers \X LaneKeys
      BY <2>2, ThreadParts
    <3>2. queue[t] \in Seq(Messages) /\ queue[t] # <<>> /\ m = Head(queue[t])
      BY <2>2, <3>1 DEF Begin, IInv, TypeOK
    <3>3. 1 \in 1..Len(queue[t]) /\ queue[t][1] = m
      BY <3>2, EmptySeq
    <3> QED
      BY <3>1, <3>3 DEF Held
  <2> QED
    BY <2>1, <2>2
<1>7. \A n \in Messages : Held(n)' => Held(n)
  BY <1>1, <1>2, <1>3, <1>6 DEF Held
<1>8. Evidence(t)'
  BY <1>1, <1>2 DEF Evidence
<1>9. HeldAdded' /\ KeyGiven' /\ ProcessedSucceeded' /\ ThreadEvidence' /\ NoSilentLoss'
  BY <1>2, <1>3, <1>7, <1>8, EvidenceKept DEF IInv, ProcessedSucceeded
<1> QED
  BY <1>4, <1>5, <1>9 DEF IInv
-----------------------------------------------------------------------------
(***************************************************************************)
(* Adding an event, by a producer or by a replay: its message was held by  *)
(* no one.                                                                 *)
(***************************************************************************)
LEMMA PublishStep ==
    ASSUME IInv, NEW m \in Messages, NEW k \in EventKeys, Publish(m, k),
           UNCHANGED <<delivered, processed, queue, claimed, thread, up, succeeded, handled, faults>>,
           deadLetters' \in [Messages -> {"none", "pending", "replayed"}],
           \A d \in Messages : deadLetters[d] # "none" => deadLetters'[d] # "none"
    PROVE  IInv'
<1>1. /\ entry' \in [Messages -> {"unsent", "new", "pending", "acked"}]
      /\ key' \in [Messages -> EventKeys \cup {0}]
      /\ entry[m] = "unsent" /\ entry'[m] = "new" /\ key'[m] = k
      /\ \A n \in Messages : n # m => entry'[n] = entry[n] /\ key'[n] = key[n]
  BY DEF Publish, IInv, TypeOK
<1>2. TypeOK'
  BY <1>1 DEF IInv, TypeOK
<1>3. LaneBusy'
  BY DEF IInv, LaneBusy
<1>4. \A n \in Messages : Held(n)' <=> Held(n)
  BY DEF Held
<1>5. HeldAdded' /\ KeyGiven' /\ ProcessedSucceeded'
  BY <1>1, <1>4 DEF IInv, HeldAdded, KeyGiven, ProcessedSucceeded
<1>6. ~Held(m)
  BY <1>1 DEF IInv, HeldAdded
<1>7. ThreadEvidence'
  <2> SUFFICES ASSUME NEW t \in Threads PROVE Evidence(t)'
    BY DEF ThreadEvidence
  <2>1. thread[t].at # "idle" => thread[t].msg \in Messages /\ thread[t].msg # m
    BY <1>6, BusyThread DEF IInv, Held, ThreadRecords
  <2>2. thread'[t] = thread[t] /\ Evidence(t)
    BY DEF IInv, ThreadEvidence
  <2> QED
    BY <1>1, <2>1, <2>2 DEF Evidence
<1>8. NoSilentLoss'
  BY <1>1 DEF IInv, NoSilentLoss
<1> QED
  BY <1>2, <1>3, <1>5, <1>7, <1>8 DEF IInv

\* A producer's event and the replay of a dead letter.
LEMMA AddStep ==
    ASSUME NEW m \in Messages
    PROVE  /\ \A k \in 1..NKeys : IInv /\ Produce(m, k) => IInv'
           /\ \A d \in Messages : IInv /\ Replay(d, m) => IInv'
<1>1. NKeys \in Nat /\ N \in Nat
  BY StreamAssumption
<1>2. ASSUME NEW k \in 1..NKeys, IInv, Produce(m, k) PROVE IInv'
  <2>1. k \in EventKeys
    BY <1>1 DEF EventKeys
  <2> QED
    BY <1>2, <2>1, PublishStep DEF Produce, IInv, TypeOK
<1>3. ASSUME NEW d \in Messages, IInv, Replay(d, m) PROVE IInv'
  <2>1. ReplayKey(m) \in EventKeys
    BY <1>1 DEF EventKeys, ReplayKey, Messages
  <2>2. /\ deadLetters' \in [Messages -> {"none", "pending", "replayed"}]
        /\ \A n \in Messages : deadLetters[n] # "none" => deadLetters'[n] # "none"
    BY <1>3 DEF Replay, IInv, TypeOK
  <2> QED
    BY <1>3, <2>1, <2>2, PublishStep DEF Replay
<1> QED
  BY <1>2, <1>3

(***************************************************************************)
(* Steps that change what the workers hold and not what the threads do     *)
(* with it: everything held afterwards has been added before.              *)
(***************************************************************************)
LEMMA HoldingStep ==
    ASSUME IInv, TypeOK', LaneBusy',
           UNCHANGED <<key, processed, deadLetters, succeeded>>,
           \A t \in Threads : thread'[t] = thread[t] \/ thread'[t] = Idle,
           \A m \in Messages : Held(m)' => entry[m] # "unsent",
           \A m \in Messages : entry'[m] = "unsent" <=> entry[m] = "unsent",
           \A m \in Messages : entry'[m] = "acked" => entry[m] = "acked"
    PROVE  IInv'
<1>1. HeldAdded' /\ KeyGiven' /\ ProcessedSucceeded'
  BY DEF IInv, HeldAdded, KeyGiven, ProcessedSucceeded
<1>2. ThreadEvidence'
  BY DEF IInv, ThreadEvidence, Evidence, Idle
<1>3. NoSilentLoss'
  BY DEF IInv, NoSilentLoss
<1> QED
  BY <1>1, <1>2, <1>3 DEF IInv

\* XREADGROUP hands an unread message to the lane of its ordering key.
LEMMA ReadStep ==
    ASSUME NEW w \in Workers PROVE IInv /\ Read(w) => IInv'
<1> SUFFICES ASSUME IInv, Read(w) PROVE IInv'
  OBVIOUS
<1>1. PICK m \in Messages :
        /\ entry[m] = "new"
        /\ entry' = [entry EXCEPT ![m] = "pending"]
        /\ delivered' = [delivered EXCEPT ![m] = Count(@)]
        /\ queue' = [queue EXCEPT ![<<w, LaneOf[m]>>] = Append(@, m)]
  BY DEF Read
<1> PICK q : q = <<w, LaneOf[m]>>
  OBVIOUS
<1>2. q \in Workers \X LaneKeys /\ queue[q] \in Seq(Messages)
  BY StreamAssumption DEF IInv, TypeOK
<1>3. /\ Append(queue[q], m) \in Seq(Messages) /\ Append(queue[q], m) # <<>>
      /\ Len(Append(queue[q], m)) = Len(queue[q]) + 1 /\ Len(queue[q]) \in Nat
      /\ \A p \in 1..Len(queue[q]) : Append(queue[q], m)[p] = queue[q][p]
      /\ Append(queue[q], m)[Len(queue[q]) + 1] = m
  BY <1>2, AppendProperties, LenProperties
<1>4. /\ queue' \in [Workers \X LaneKeys -> Seq(Messages)]
      /\ queue'[q] = Append(queue[q], m)
      /\ \A x \in Workers \X LaneKeys : x # q => queue'[x] = queue[x]
  BY <1>1, <1>2, <1>3 DEF IInv, TypeOK
<1>5. /\ entry' \in [Messages -> {"unsent", "new", "pending", "acked"}]
      /\ \A n \in Messages : entry'[n] = "unsent" <=> entry[n] = "unsent"
      /\ \A n \in Messages : entry'[n] = "acked" => entry[n] = "acked"
  BY <1>1 DEF IInv, TypeOK
<1>6. delivered' \in [Messages -> 0..MaxAttempts]
  BY <1>1, StreamAssumption DEF IInv, TypeOK, Count
<1>7. UNCHANGED <<key, processed, deadLetters, claimed, thread, up, succeeded, handled, faults>>
  BY DEF Read
<1>8. TypeOK'
  BY <1>4, <1>5, <1>6, <1>7 DEF IInv, TypeOK
<1>9. LaneBusy'
  BY <1>3, <1>4, <1>7, ThreadParts DEF IInv, LaneBusy
<1>10. ASSUME NEW n \in Messages, Held(n)' PROVE entry[n] # "unsent"
  <2>1. CASE n = m
    BY <2>1, <1>1
  <2>2. CASE n # m
    <3>1. Held(n)
      <4>1. ASSUME NEW x \in Workers \X LaneKeys, NEW p \in 1..Len(queue'[x]), queue'[x][p] = n
            PROVE  p \in 1..Len(queue[x]) /\ queue[x][p] = n
        <5>1. CASE x = q
          <6>1. p \in 1..(Len(queue[q]) + 1) /\ Append(queue[q], m)[p] = n
            BY <4>1, <5>1, <1>3, <1>4
          <6>2. p # Len(queue[q]) + 1
            BY <6>1, <2>2, <1>3
          <6> QED
            BY <5>1, <6>1, <6>2, <1>3
        <5>2. CASE x # q
          BY <4>1, <5>2, <1>4
        <5> QED
          BY <5>1, <5>2
      <4>2. CASE \E x \in Workers \X LaneKeys : \E p \in 1..Len(queue'[x]) : queue'[x][p] = n
        <5> PICK x \in Workers \X LaneKeys : \E p \in 1..Len(queue'[x]) : queue'[x][p] = n
          BY <4>2
        <5> PICK p \in 1..Len(queue'[x]) : queue'[x][p] = n
          OBVIOUS
        <5> QED
          BY <4>1 DEF Held
      <4>3. CASE \/ \E v \in Workers : n \in claimed'[v]
                 \/ \E t \in Threads : thread'[t].at # "idle" /\ thread'[t].msg = n
        BY <4>3, <1>7 DEF Held
      <4> QED
        BY <1>10, <4>2, <4>3 DEF Held
    <3> QED
      BY <3>1 DEF IInv, HeldAdded
  <2> QED
    BY <2>1, <2>2
<1> QED
  BY <1>5, <1>7, <1>8, <1>9, <1>10, HoldingStep

\* XAUTOCLAIM hands pending messages to the main loop.
LEMMA ClaimStep ==
    ASSUME NEW w \in Workers, NEW S \in SUBSET Messages PROVE IInv /\ Claim(w, S) => IInv'
<1> SUFFICES ASSUME IInv, Claim(w, S) PROVE IInv'
  OBVIOUS
<1>1. /\ claimed' \in [Workers -> SUBSET Messages]
      /\ \A v \in Workers : claimed'[v] \subseteq claimed[v] \cup S
      /\ \A m \in S : entry[m] = "pending"
  BY DEF IInv, TypeOK, Claim, Stale
<1>2. delivered' \in [Messages -> 0..MaxAttempts]
  <2>1. \A m \in Messages : delivered[m] \in 0..MaxAttempts /\ Count(delivered[m]) \in 0..MaxAttempts
    BY StreamAssumption DEF IInv, TypeOK, Count
  <2> QED
    BY <2>1 DEF Claim
<1>3. UNCHANGED <<entry, key, processed, deadLetters, queue, thread, up, succeeded, handled, faults>>
  BY DEF Claim
<1>4. TypeOK'
  BY <1>1, <1>2, <1>3 DEF IInv, TypeOK
<1>5. LaneBusy'
  BY <1>3 DEF IInv, LaneBusy
<1>6. ASSUME NEW m \in Messages, Held(m)' PROVE entry[m] # "unsent"
  <2>1. Held(m) \/ m \in S
    BY <1>1, <1>3, <1>6 DEF Held
  <2> QED
    BY <1>1, <2>1 DEF IInv, HeldAdded
<1> QED
  BY <1>3, <1>4, <1>5, <1>6, HoldingStep

\* The threads that stop are threads of the worker, its main loop among them.
LEMMA Halts ==
    ASSUME NEW w \in Workers, Crash(w) \/ RunRaises(w)
    PROVE  \E T \in SUBSET Threads :
             /\ Halt(w, T) /\ <<w, "main">> \in T /\ \A t \in T : t[1] = w
<1>1. <<w, "main">> \in Threads
  BY DEF Threads
<1> QED
  BY <1>1 DEF Crash, RunRaises

\* Threads that stop forget what they held; Redis and the database keep theirs.
LEMMA HaltStep ==
    ASSUME NEW w \in Workers, NEW T \in SUBSET Threads
    PROVE  IInv /\ Halt(w, T) => IInv'
<1> SUFFICES ASSUME IInv, Halt(w, T) PROVE IInv'
  OBVIOUS
<1>1. /\ \A q \in Workers \X LaneKeys : queue'[q] = IF q \in T THEN <<>> ELSE queue[q]
      /\ \A t \in Threads : thread'[t] = IF t \in T THEN Idle ELSE thread[t]
      /\ \A v \in Workers : claimed'[v] \subseteq claimed[v]
  BY DEF Halt, IInv, TypeOK
<1>2. UNCHANGED <<entry, key, delivered, processed, deadLetters, succeeded, handled>>
  BY DEF Halt
<1>3. TypeOK'
  <2>1. queue' \in [Workers \X LaneKeys -> Seq(Messages)]
    BY DEF Halt, IInv, TypeOK
  <2>2. thread' \in [Threads -> {Idle} \cup ThreadRecords]
    BY DEF Halt, IInv, TypeOK, ThreadRecords
  <2>3. /\ claimed' \in [Workers -> SUBSET Messages] /\ faults' \in 0..MaxFaults
        /\ up' \in [Workers -> BOOLEAN]
    BY StreamAssumption DEF Halt, IInv, TypeOK
  <2> QED
    BY <1>2, <2>1, <2>2, <2>3 DEF IInv, TypeOK, ThreadRecords
<1>4. LaneBusy'
  BY <1>1, ThreadParts DEF IInv, LaneBusy, Idle
<1>5. ASSUME NEW m \in Messages, Held(m)' PROVE entry[m] # "unsent"
  <2>1. ASSUME NEW q \in Workers \X LaneKeys, NEW p \in 1..Len(queue'[q])
        PROVE  queue'[q] = queue[q]
    BY <2>1, <1>1, EmptySeq
  <2>2. Held(m)
    BY <1>1, <1>5, <2>1 DEF Held, Idle
  <2> QED
    BY <2>2 DEF IInv, HeldAdded
<1> QED
  BY <1>1, <1>2, <1>3, <1>4, <1>5, HoldingStep
-----------------------------------------------------------------------------
(***************************************************************************)
(* IInv is an invariant of the stream worker.                              *)
(***************************************************************************)
LEMMA InvariantHolds == Safety => []IInv
<1>1. Init => IInv
  <2> SUFFICES ASSUME Init PROVE IInv
    OBVIOUS
  <2>1. TypeOK
    BY StreamAssumption DEF Init, TypeOK, Idle
  <2>2. \A m \in Messages : ~Held(m)
    BY EmptySeq DEF Init, Held, Idle
  <2> QED
    BY <2>1, <2>2 DEF Init, IInv, LaneBusy, HeldAdded, KeyGiven, ProcessedSucceeded,
          ThreadEvidence, Evidence, NoSilentLoss, Idle
<1>2. IInv /\ [Next]_vars => IInv'
  <2> SUFFICES ASSUME IInv, [Next]_vars PROVE IInv'
    OBVIOUS
  <2>1. CASE UNCHANGED vars
    BY <2>1 DEF vars, IInv, TypeOK, LaneBusy, HeldAdded, Held, KeyGiven, ProcessedSucceeded,
          ThreadEvidence, Evidence, NoSilentLoss
  <2>2. ASSUME NEW t \in Threads, Step(t) PROVE IInv'
    BY <2>2, BeginStep, CheckProcessedStep, ReturnStep, SettleStep, PersistDeadLetterStep,
       MarkProcessedStep, CheckRaisesStep, EndStep DEF Step
  <2> QED
    <3>1. ASSUME NEW w \in Workers, Crash(w) \/ RunRaises(w) PROVE IInv'
      BY <3>1, Halts, HaltStep
    <3>2. ASSUME NEW w \in Workers, Restart(w) PROVE IInv'
      <4>1. TypeOK'
        BY <3>2 DEF Restart, IInv, TypeOK
      <4> QED
        BY <3>2, <4>1 DEF Restart, IInv, LaneBusy, HeldAdded, Held, KeyGiven,
           ProcessedSucceeded, ThreadEvidence, Evidence, NoSilentLoss
    <3> QED
      BY <2>1, <2>2, <3>1, <3>2, AddStep, ReadStep, ClaimStep DEF Next
<1> QED
  BY <1>1, <1>2, PTL DEF Safety

(***************************************************************************)
(* TypeOK is an invariant of the stream worker.                            *)
(***************************************************************************)
THEOREM TypeCorrect == Safety => []TypeOK
<1>1. IInv => TypeOK
  BY DEF IInv
<1> QED
  BY <1>1, InvariantHolds, PTL

(***************************************************************************)
(* A message leaves the pending list only after a success for its key or   *)
(* with a dead letter, for any number of workers, lanes, messages, retries *)
(* and faults.                                                             *)
(***************************************************************************)
THEOREM NoSilentLossHolds == Safety => []NoSilentLoss
<1>1. IInv => NoSilentLoss
  BY DEF IInv
<1> QED
  BY <1>1, InvariantHolds, PTL
-----------------------------------------------------------------------------
(***************************************************************************)
(* How often a handler runs.  A delivery allows one run: the message waits *)
(* for it in a lane (Owed) or in the batch of a main loop (Claimers).      *)
(***************************************************************************)
Lanes == Workers \X LaneKeys

\* Thread t is past the handler with m, or need not run it.
Ran(t, m) == thread[t].msg = m /\ thread[t].at \in {"settle", "bury", "mark", "ack"}

Owed(m) == \E q \in Lanes : (\E i \in 1..Len(queue[q]) : queue[q][i] = m) /\ ~Ran(q, m)

Debt(m) == handled[m] + (IF Owed(m) THEN 1 ELSE 0)

Claimers(m) == {w \in Workers : m \in claimed[w] /\ ~Ran(<<w, "main">>, m)}

Finishers(m) == {w \in Workers : Ran(<<w, "main">>, m)}

\* A message waits in one lane, once: it is read once.
QueuedOnce ==
    \A q, r \in Lanes : \A i \in 1..Len(queue[q]), j \in 1..Len(queue[r]) :
        queue[q][i] = queue[r][j] => q = r /\ i = j

QueuedIsRead ==
    \A q \in Lanes : \A i \in 1..Len(queue[q]) : entry[queue[q][i]] \in {"pending", "acked"}

WorksOnOwn ==
    \A t \in Threads : thread[t].at # "idle" =>
        IF OnMain(t) THEN thread[t].msg \in claimed[t[1]]
        ELSE queue[t] # <<>> /\ thread[t].msg = queue[t][1]

Undelivered == \A m \in Messages : entry[m] \in {"unsent", "new"} => delivered[m] = 0

Shape == QueuedOnce /\ QueuedIsRead /\ WorksOnOwn /\ Undelivered

(***************************************************************************)
(* Below the limit every run, done or to come, has a delivery of its own.  *)
(* At the limit a run is only added by a main loop that is about to settle *)
(* the message, and it settles it unless its process is killed.  Nothing   *)
(* is claimed any more once the message is acknowledged.                   *)
(***************************************************************************)
Counted(m) ==
    /\ delivered[m] < MaxAttempts => Debt(m) + Cardinality(Claimers(m)) <= delivered[m]
    /\ delivered[m] = MaxAttempts /\ entry[m] # "acked" =>
         Debt(m) < MaxAttempts + faults + Cardinality(Finishers(m))
    /\ entry[m] = "acked" =>
         Debt(m) + Cardinality(Claimers(m)) < MaxAttempts + Cardinality(Workers) + faults

RunsIInv == Shape /\ \A m \in Messages : Counted(m)

\* StreamWorker.max_attempts is 2, for the provisioning worker at least 2.
RunsAssumption == MaxAttempts > 1 /\ IsFiniteSet(Workers)
-----------------------------------------------------------------------------
\* The numbers of the invariant are natural numbers.
Numbers(m) ==
    /\ handled[m] \in Nat /\ Debt(m) \in Nat /\ delivered[m] \in 0..MaxAttempts /\ faults \in Nat
    /\ MaxAttempts \in Nat /\ MaxAttempts > 1
    /\ IsFiniteSet(Claimers(m)) /\ Cardinality(Claimers(m)) \in Nat
    /\ IsFiniteSet(Finishers(m)) /\ Cardinality(Finishers(m)) \in Nat
    /\ Cardinality(Claimers(m)) + Cardinality(Finishers(m)) <= Cardinality(Workers)
    /\ Cardinality(Workers) \in Nat

LEMMA CountTypes ==
    ASSUME TypeOK, RunsAssumption, NEW m \in Messages
    PROVE  Numbers(m)
<1>1. /\ handled[m] \in Nat /\ delivered[m] \in 0..MaxAttempts /\ faults \in Nat
      /\ MaxAttempts \in Nat /\ MaxAttempts > 1
  BY StreamAssumption DEF TypeOK, RunsAssumption
<1>2. Debt(m) \in Nat
  BY <1>1 DEF Debt
<1>3. Claimers(m) \subseteq Workers /\ Finishers(m) \subseteq Workers
      /\ Claimers(m) \cap Finishers(m) = {} /\ IsFiniteSet(Workers)
  BY DEF Claimers, Finishers, RunsAssumption
<1>4. /\ IsFiniteSet(Claimers(m)) /\ IsFiniteSet(Finishers(m))
      /\ Cardinality(Workers) \in Nat
      /\ Cardinality(Claimers(m)) \in Nat /\ Cardinality(Finishers(m)) \in Nat
  BY <1>3, FS_Subset, FS_CardinalityType
<1> DEFINE both == Claimers(m) \cup Finishers(m)
           x == Cardinality(Claimers(m))  f == Cardinality(Finishers(m))
<1>5. Cardinality(both) = x + f
  <2>1. Cardinality(both) = x + f - Cardinality(Claimers(m) \cap Finishers(m))
    BY <1>4, FS_Union
  <2>2. Cardinality(both) = x + f - 0
    BY <1>3, <2>1, FS_EmptySet
  <2>3. x \in Nat /\ f \in Nat
    BY <1>4
  <2> HIDE DEF x, f, both
  <2> QED
    BY <2>2, <2>3
<1>6. Cardinality(both) <= Cardinality(Workers)
  BY <1>3, FS_Subset
<1>7. x + f <= Cardinality(Workers)
  BY <1>5, <1>6
<1> QED
  BY <1>1, <1>2, <1>4, <1>7 DEF Numbers

\* A step that adds no run, done or to come, and takes no finisher away unless
\* it is a fault.
LEMMA RunsFall ==
    ASSUME NEW m \in Messages, Counted(m), Numbers(m), Numbers(m)',
           delivered'[m] = delivered[m], Debt(m)' <= Debt(m), Claimers(m)' \subseteq Claimers(m),
           (entry'[m] = "acked") <=> (entry[m] = "acked"), faults <= faults',
           delivered[m] = MaxAttempts /\ entry[m] # "acked" =>
             faults + Cardinality(Finishers(m)) <= faults' + Cardinality(Finishers(m)')
    PROVE  Counted(m)'
<1>1. Cardinality(Claimers(m)') <= Cardinality(Claimers(m))
  BY FS_Subset DEF Numbers
<1> DEFINE d == Debt(m)  e == Debt(m)'
           x == Cardinality(Claimers(m))  y == Cardinality(Claimers(m)')
           f == Cardinality(Finishers(m)) g == Cardinality(Finishers(m)')
           k == Cardinality(Workers)
<1>2. /\ d \in Nat /\ e \in Nat /\ x \in Nat /\ y \in Nat /\ f \in Nat /\ g \in Nat /\ k \in Nat
      /\ faults \in Nat /\ faults' \in Nat /\ MaxAttempts \in Nat /\ delivered[m] \in 0..MaxAttempts
  BY DEF Numbers
<1> HIDE DEF d, e, x, y, f, g, k
<1>3. /\ delivered[m] < MaxAttempts => d + x <= delivered[m]
      /\ delivered[m] = MaxAttempts /\ entry[m] # "acked" => d < MaxAttempts + faults + f
      /\ entry[m] = "acked" => d + x < MaxAttempts + k + faults
      /\ e <= d /\ y <= x
      /\ delivered[m] = MaxAttempts /\ entry[m] # "acked" => faults + f <= faults' + g
  BY <1>1 DEF Counted, d, e, x, y, f, g, k
<1>4. /\ delivered[m] < MaxAttempts => e + y <= delivered[m]
      /\ delivered[m] = MaxAttempts /\ entry[m] # "acked" => e < MaxAttempts + faults' + g
      /\ entry[m] = "acked" => e + y < MaxAttempts + k + faults'
  BY <1>2, <1>3
<1> QED
  BY <1>4 DEF Counted, d, e, x, y, f, g, k

\* A main loop runs the handler for a message it has claimed.
LEMMA RunsOnMain ==
    ASSUME NEW m \in Messages, Counted(m), Numbers(m), Numbers(m)', NEW w \in Workers,
           delivered'[m] = delivered[m], entry'[m] = entry[m], faults' = faults,
           Debt(m)' <= Debt(m) + 1, w \in Claimers(m), Claimers(m)' = Claimers(m) \ {w},
           Finishers(m)' = Finishers(m) \cup {w}
    PROVE  Counted(m)'
<1>0. w \notin Finishers(m)
  BY DEF Finishers, Claimers
<1>1. /\ Cardinality(Claimers(m)') = Cardinality(Claimers(m)) - 1
      /\ Cardinality(Finishers(m)') = Cardinality(Finishers(m)) + 1
  BY <1>0, FS_RemoveElement, FS_AddElement DEF Numbers
<1> DEFINE d == Debt(m)  e == Debt(m)'
           x == Cardinality(Claimers(m))  y == Cardinality(Claimers(m)')
           f == Cardinality(Finishers(m)) g == Cardinality(Finishers(m)')
           k == Cardinality(Workers)
<1>2. /\ d \in Nat /\ e \in Nat /\ x \in Nat /\ y \in Nat /\ f \in Nat /\ g \in Nat /\ k \in Nat
      /\ faults \in Nat /\ faults' \in Nat /\ MaxAttempts \in Nat /\ delivered[m] \in 0..MaxAttempts
  BY DEF Numbers
<1> HIDE DEF d, e, x, y, f, g, k
<1>3. /\ delivered[m] < MaxAttempts => d + x <= delivered[m]
      /\ delivered[m] = MaxAttempts /\ entry[m] # "acked" => d < MaxAttempts + faults + f
      /\ entry[m] = "acked" => d + x < MaxAttempts + k + faults
      /\ e <= d + 1 /\ y = x - 1 /\ g = f + 1
  BY <1>1 DEF Counted, d, e, x, y, f, g, k
<1>4. /\ delivered[m] < MaxAttempts => e + y <= delivered[m]
      /\ delivered[m] = MaxAttempts /\ entry[m] # "acked" => e < MaxAttempts + faults + g
      /\ entry[m] = "acked" => e + y < MaxAttempts + k + faults
  BY <1>2, <1>3
<1> QED
  BY <1>4 DEF Counted, d, e, x, y, f, g, k

\* The message is acknowledged.
LEMMA RunsAcked ==
    ASSUME NEW m \in Messages, Counted(m), Numbers(m), Numbers(m)',
           delivered'[m] = delivered[m], entry'[m] = "acked", faults' = faults,
           Debt(m)' <= Debt(m), Claimers(m)' \subseteq Claimers(m)
    PROVE  Counted(m)'
<1>1. Cardinality(Claimers(m)') <= Cardinality(Claimers(m))
  BY FS_Subset DEF Numbers
<1> DEFINE d == Debt(m)  e == Debt(m)'
           x == Cardinality(Claimers(m))  y == Cardinality(Claimers(m)')
           f == Cardinality(Finishers(m))
           k == Cardinality(Workers)
<1>2. /\ d \in Nat /\ e \in Nat /\ x \in Nat /\ y \in Nat /\ f \in Nat /\ k \in Nat /\ x + f <= k
      /\ faults \in Nat /\ MaxAttempts \in Nat /\ delivered[m] \in 0..MaxAttempts
  BY DEF Numbers
<1> HIDE DEF d, e, x, y, f, k
<1>3. /\ delivered[m] < MaxAttempts => d + x <= delivered[m]
      /\ delivered[m] = MaxAttempts /\ entry[m] # "acked" => d < MaxAttempts + faults + f
      /\ entry[m] = "acked" => d + x < MaxAttempts + k + faults
      /\ e <= d /\ y <= x
  BY <1>1 DEF Counted, d, e, x, y, f, k
<1>4. /\ delivered[m] < MaxAttempts => e + y <= delivered[m]
      /\ e + y < MaxAttempts + k + faults
  BY <1>2, <1>3
<1> QED
  BY <1>4 DEF Counted, d, e, x, y, f, k

\* A free main loop claims a pending message.
LEMMA RunsClaimed ==
    ASSUME NEW m \in Messages, Counted(m), Numbers(m), Numbers(m)', NEW w \in Workers,
           delivered'[m] = Count(delivered[m]), entry[m] = "pending", entry' = entry,
           faults' = faults, Debt(m)' = Debt(m),
           w \notin Claimers(m), Claimers(m)' = Claimers(m) \cup {w}, Finishers(m)' = Finishers(m)
    PROVE  Counted(m)'
<1>1. Cardinality(Claimers(m)') = Cardinality(Claimers(m)) + 1
  BY FS_AddElement DEF Numbers
<1> DEFINE d == Debt(m)
           x == Cardinality(Claimers(m))  y == Cardinality(Claimers(m)')
           f == Cardinality(Finishers(m))
<1>2. /\ d \in Nat /\ x \in Nat /\ y \in Nat /\ f \in Nat
      /\ faults \in Nat /\ MaxAttempts \in Nat /\ delivered[m] \in 0..MaxAttempts
      /\ delivered'[m] = IF delivered[m] < MaxAttempts THEN delivered[m] + 1 ELSE delivered[m]
  BY DEF Numbers, Count
<1> HIDE DEF d, x, y, f
<1>3. /\ delivered[m] < MaxAttempts => d + x <= delivered[m]
      /\ delivered[m] = MaxAttempts => d < MaxAttempts + faults + f
      /\ y = x + 1
  BY <1>1 DEF Counted, d, x, y, f
<1>4. /\ delivered'[m] < MaxAttempts => d + y <= delivered'[m]
      /\ delivered'[m] = MaxAttempts => d < MaxAttempts + faults + f
  BY <1>2, <1>3
<1> QED
  BY <1>4 DEF Counted, d, x, y, f

\* A message is read for the first time; it is not the last time.
LEMMA RunsRead ==
    ASSUME NEW m \in Messages, Counted(m), Numbers(m), Numbers(m)',
           delivered[m] = 0, delivered'[m] = Count(delivered[m]), entry'[m] = "pending",
           Debt(m)' <= Debt(m) + 1, Claimers(m)' = Claimers(m)
    PROVE  Counted(m)'
<1> DEFINE d == Debt(m) e == Debt(m)'
           x == Cardinality(Claimers(m))
<1>2. /\ d \in Nat /\ e \in Nat /\ x \in Nat /\ MaxAttempts \in Nat /\ MaxAttempts > 1
      /\ delivered'[m] = 1
  BY DEF Numbers, Count
<1> HIDE DEF d, e, x
<1>3. d + x <= 0 /\ e <= d + 1
  BY <1>2 DEF Counted, d, e, x
<1>4. e + x <= delivered'[m] /\ delivered'[m] # MaxAttempts
  BY <1>2, <1>3
<1> QED
  BY <1>4 DEF Counted, d, e, x
-----------------------------------------------------------------------------
\* The lanes are threads of their own.
LEMMA LaneThreads ==
    ASSUME NEW t \in Threads
    PROVE  /\ Lanes \subseteq Threads /\ \A q \in Lanes : ~OnMain(q)
           /\ \A w \in Workers : <<w, "main">> \in Threads /\ OnMain(<<w, "main">>)
           /\ t[1] \in Workers /\ (OnMain(t) => t = <<t[1], "main">>) /\ (~OnMain(t) => t \in Lanes)
BY StreamAssumption DEF Lanes, Threads, OnMain

\* Without a run or a new wait, the debt does not grow.
LEMMA DebtFalls ==
    ASSUME NEW m \in Messages, handled[m] \in Nat, handled'[m] = handled[m], Owed(m)' => Owed(m)
    PROVE  Debt(m)' <= Debt(m)
BY DEF Debt

\* A thread takes up its message, or goes on with it.
LEMMA StillRuns ==
    ASSUME RunsIInv, \A m \in Messages : Numbers(m), \A m \in Messages : Numbers(m)',
           UNCHANGED <<entry, delivered, queue, claimed, handled>>, faults <= faults',
           NEW t \in Threads, \A u \in Threads : u # t => thread'[u] = thread[u],
           thread[t].at # "idle" => thread'[t].msg = thread[t].msg,
           thread[t].at = "idle" => IF OnMain(t) THEN thread'[t].msg \in claimed[t[1]]
                                    ELSE queue[t] # <<>> /\ thread'[t].msg = queue[t][1],
           \A m \in Messages : Ran(t, m) => Ran(t, m)'
    PROVE  RunsIInv'
<1>1. \A u \in Threads, m \in Messages : Ran(u, m) => Ran(u, m)'
  BY DEF Ran
<1>2. Shape'
  BY DEF RunsIInv, Shape, QueuedOnce, QueuedIsRead, WorksOnOwn, Undelivered
<1>3. ASSUME NEW m \in Messages PROVE Counted(m)'
  <2>1. Owed(m)' => Owed(m)
    BY <1>1, LaneThreads DEF Owed
  <2>2. Claimers(m)' \subseteq Claimers(m) /\ Finishers(m) \subseteq Finishers(m)'
    BY <1>1, LaneThreads DEF Claimers, Finishers
  <2>3. Cardinality(Finishers(m)) <= Cardinality(Finishers(m)')
    BY <2>2, FS_Subset DEF Numbers
  <2>4. Debt(m)' <= Debt(m)
    BY <2>1, DebtFalls DEF Numbers
  <2>5. Counted(m) /\ Numbers(m) /\ Numbers(m)' /\ faults <= faults'
    BY DEF RunsIInv, Numbers
  <2>6. faults + Cardinality(Finishers(m)) <= faults' + Cardinality(Finishers(m)')
    BY <2>3, <2>5 DEF Numbers
  <2> QED
    BY <2>2, <2>4, <2>5, <2>6, RunsFall
<1> QED
  BY <1>2, <1>3 DEF RunsIInv

\* The handler returns: the run that was owed is done.
LEMMA ReturnRuns ==
    ASSUME TypeOK, RunsIInv, \A m \in Messages : Numbers(m), \A m \in Messages : Numbers(m)',
           NEW t \in Threads, NEW r \in HandlerResults, Return(t, r)
    PROVE  RunsIInv'
<1> PICK h : h = thread[t].msg
  OBVIOUS
<1>1. /\ thread[t] \in ThreadRecords /\ thread[t].at = "handle" /\ h \in Messages
      /\ UNCHANGED <<entry, delivered, queue, claimed, faults>>
      /\ handled' = [handled EXCEPT ![h] = @ + 1]
  BY BusyThread DEF Return, ThreadRecords
<1>2. /\ thread'[t].msg = h /\ thread'[t].at = "settle"
      /\ \A u \in Threads : u # t => thread'[u] = thread[u]
  BY <1>1 DEF Return, TypeOK
<1>3. Shape'
  BY <1>1, <1>2 DEF RunsIInv, Shape, QueuedOnce, QueuedIsRead, WorksOnOwn, Undelivered
<1>4. /\ \A u \in Threads, m \in Messages : u # t \/ m # h => (Ran(u, m)' <=> Ran(u, m))
      /\ Ran(t, h)' /\ ~Ran(t, h)
  BY <1>1, <1>2 DEF Ran
<1>5. /\ handled'[h] = handled[h] + 1 /\ \A m \in Messages : m # h => handled'[m] = handled[m]
      /\ handled[h] \in Nat
  BY <1>1 DEF TypeOK
<1>6. ASSUME NEW m \in Messages, m # h PROVE Counted(m)'
  <2>1. Owed(m)' => Owed(m)
    BY <1>1, <1>4, <1>6, LaneThreads DEF Owed
  <2>2. Claimers(m)' = Claimers(m) /\ Finishers(m)' = Finishers(m)
    BY <1>1, <1>4, <1>6, LaneThreads DEF Claimers, Finishers
  <2>3. Counted(m) /\ Numbers(m) /\ Numbers(m)' /\ faults' = faults
    BY <1>1 DEF RunsIInv
  <2>4. Debt(m)' <= Debt(m)
    BY <1>5, <1>6, <2>1, <2>3, DebtFalls DEF Numbers
  <2>5. faults \in Nat /\ Cardinality(Finishers(m)) \in Nat
    BY <2>3 DEF Numbers
  <2>6. /\ faults <= faults'
        /\ faults + Cardinality(Finishers(m)) <= faults' + Cardinality(Finishers(m)')
    BY <2>2, <2>3, <2>5
  <2> QED
    BY <1>1, <2>2, <2>3, <2>4, <2>6, RunsFall
<1>7. Counted(h) /\ Numbers(h) /\ Numbers(h)' /\ WorksOnOwn /\ QueuedOnce
  BY <1>1 DEF RunsIInv, Shape
<1>8. CASE OnMain(t)
  <2> PICK w \in Workers : w = t[1]
    BY LaneThreads
  <2>1. t = <<w, "main">> /\ h \in claimed[w]
    BY <1>1, <1>7, <1>8, LaneThreads DEF WorksOnOwn
  <2>2. Owed(h)' => Owed(h)
    BY <1>1, <1>4, <1>8, LaneThreads DEF Owed
  <2>3. Debt(h)' <= Debt(h) + 1
    BY <1>5, <2>2 DEF Debt
  <2>4. /\ w \in Claimers(h) /\ Claimers(h)' = Claimers(h) \ {w}
        /\ Finishers(h)' = Finishers(h) \cup {w}
    BY <1>1, <1>4, <2>1, LaneThreads DEF Claimers, Finishers
  <2>5. Counted(h)'
    BY <1>1, <1>7, <2>3, <2>4, RunsOnMain
  <2> QED
    BY <1>3, <1>6, <2>5 DEF RunsIInv
<1>9. CASE ~OnMain(t)
  <2>1. t \in Lanes /\ queue[t] # <<>> /\ queue[t][1] = h
    BY <1>1, <1>7, <1>9, LaneThreads DEF WorksOnOwn
  <2>2. queue[t] \in Seq(Messages)
    BY <2>1 DEF TypeOK, Lanes
  <2>3. 1 \in 1..Len(queue[t])
    BY <2>1, <2>2, EmptySeq
  <2>4. Owed(h)
    BY <1>4, <2>1, <2>3 DEF Owed
  <2>5. ~Owed(h)'
    <3> SUFFICES ASSUME NEW q \in Lanes, NEW i \in 1..Len(queue[q]), queue[q][i] = h
                 PROVE  Ran(q, h)'
      BY <1>1 DEF Owed
    <3>1. q = t
      BY <1>7, <2>1, <2>3 DEF QueuedOnce
    <3> QED
      BY <3>1, <1>4
  <2>6. Debt(h)' <= Debt(h)
    BY <1>5, <2>4, <2>5 DEF Debt
  <2>7. Claimers(h)' = Claimers(h) /\ Finishers(h)' = Finishers(h)
    BY <1>1, <1>4, <1>9, LaneThreads DEF Claimers, Finishers
  <2>8. faults' = faults /\ faults \in Nat /\ Cardinality(Finishers(h)) \in Nat
    BY <1>1, <1>7 DEF Numbers
  <2>9. /\ faults <= faults'
        /\ faults + Cardinality(Finishers(h)) <= faults' + Cardinality(Finishers(h)')
    BY <2>7, <2>8
  <2>10. Counted(h)'
    BY <1>1, <1>7, <2>6, <2>7, <2>9, RunsFall
  <2> QED
    BY <1>3, <1>6, <2>10 DEF RunsIInv
<1> QED
  BY <1>8, <1>9

\* What a thread's end does to the lanes: nothing is moved, and the message
\* waits no more.
LEMMA EndLanes ==
    ASSUME TypeOK, Shape, NEW t \in Threads, thread[t].at # "idle", Done(t)
    PROVE  \A q \in Lanes : \A i \in 1..Len(queue'[q]) :
             \E j \in 1..Len(queue[q]) :
                /\ queue'[q][i] = queue[q][j]
                /\ j = IF q = t THEN i + 1 ELSE i
<1> SUFFICES ASSUME NEW q \in Lanes, NEW i \in 1..Len(queue'[q])
             PROVE  \E j \in 1..Len(queue[q]) : /\ queue'[q][i] = queue[q][j]
                                                /\ j = IF q = t THEN i + 1 ELSE i
  OBVIOUS
<1>1. CASE q # t
  <2>1. queue'[q] = queue[q]
    BY <1>1 DEF Done, TypeOK, Lanes
  <2> QED
    BY <1>1, <2>1
<1>2. CASE q = t
  <2>1. ~OnMain(t) /\ queue[t] # <<>> /\ queue[t] \in Seq(Messages)
    BY <1>2, LaneThreads DEF Shape, WorksOnOwn, TypeOK, Lanes
  <2>2. queue'[t] = Tail(queue[t])
    BY <1>2, <2>1 DEF Done, TypeOK, Lanes
  <2>3. /\ Len(Tail(queue[t])) = Len(queue[t]) - 1 /\ Len(queue[t]) \in Nat
        /\ \A p \in 1..Len(Tail(queue[t])) : Tail(queue[t])[p] = queue[t][p + 1]
    BY <2>1, HeadTailProperties, LenProperties
  <2>4. i + 1 \in 1..Len(queue[t]) /\ queue'[q][i] = queue[q][i + 1]
    BY <1>2, <2>2, <2>3
  <2> QED
    BY <1>2, <2>4
<1> QED
  BY <1>1, <1>2

\* A set that loses at most one element is at most one smaller.
LEMMA OneLess ==
    ASSUME NEW S, NEW R, IsFiniteSet(S), IsFiniteSet(R), NEW x, S \ {x} \subseteq R
    PROVE  Cardinality(S) <= Cardinality(R) + 1
<1>1. S \subseteq R \cup {x} /\ IsFiniteSet(R \cup {x})
  BY FS_AddElement
<1>2. Cardinality(S) <= Cardinality(R \cup {x})
  BY <1>1, FS_Subset
<1>3. /\ Cardinality(R) \in Nat /\ Cardinality(S) \in Nat
      /\ Cardinality(R \cup {x}) = IF x \in R THEN Cardinality(R) ELSE Cardinality(R) + 1
  BY FS_AddElement, FS_CardinalityType
<1> QED
  BY <1>2, <1>3

\* A thread that has run the handler, or need not, is done with its message.
LEMMA EndRuns ==
    ASSUME TypeOK, RunsIInv, \A m \in Messages : Numbers(m), \A m \in Messages : Numbers(m)',
           NEW t \in Threads, NEW h \in Messages, h = thread[t].msg,
           thread[t].at \in {"settle", "bury", "mark", "ack"}, Done(t),
           UNCHANGED <<delivered, handled>>, faults <= faults',
           \/ entry' = entry /\ (OnMain(t) => \/ delivered[h] < MaxAttempts \/ entry[h] = "acked"
                                              \/ faults' = faults + 1)
           \/ entry' = [entry EXCEPT ![h] = "acked"] /\ faults' = faults
    PROVE  RunsIInv'
<1>1. thread[t].at # "idle" /\ Ran(t, h) /\ Shape
  BY DEF Ran, RunsIInv
<1>2. thread'[t] = Idle /\ \A u \in Threads : u # t => thread'[u] = thread[u]
  BY DEF Done, TypeOK
<1>3. \A m \in Messages : /\ m # h => entry'[m] = entry[m]
                          /\ entry'[m] = entry[m] \/ entry'[m] = "acked"
                          /\ entry[m] = "acked" => entry'[m] = "acked"
  BY DEF TypeOK
<1>4. \A q \in Lanes : \A i \in 1..Len(queue'[q]) :
             \E j \in 1..Len(queue[q]) :
                /\ queue'[q][i] = queue[q][j]
                /\ j = IF q = t THEN i + 1 ELSE i
  BY <1>1, EndLanes
<1>5. \A w \in Workers : claimed'[w] = IF t = <<w, "main">> THEN claimed[w] \ {h} ELSE claimed[w]
  <2> SUFFICES ASSUME NEW w \in Workers
               PROVE  claimed'[w] = IF t = <<w, "main">> THEN claimed[w] \ {h} ELSE claimed[w]
    OBVIOUS
  <2>1. OnMain(<<w, "main">>) /\ <<w, "main">>[1] = w /\ (OnMain(t) => t = <<t[1], "main">>)
    BY LaneThreads
  <2> PICK v : v = t[1]
    OBVIOUS
  <2>2. CASE OnMain(t)
    <3>1. claimed' = [claimed EXCEPT ![v] = @ \ {h}] /\ t = <<v, "main">>
      BY <2>1, <2>2 DEF Done
    <3>2. claimed'[w] = IF v = w THEN claimed[w] \ {h} ELSE claimed[w]
      BY <3>1 DEF TypeOK
    <3>3. t = <<w, "main">> <=> v = w
      BY <3>1
    <3> QED
      BY <3>2, <3>3
  <2>3. CASE ~OnMain(t)
    <3>1. t # <<w, "main">> /\ claimed' = claimed
      BY <2>1, <2>3 DEF Done
    <3> QED
      BY <3>1
  <2> QED
    BY <2>2, <2>3
<1>6. \A u \in Threads, m \in Messages :
        /\ u # t \/ m # h => (Ran(u, m)' <=> Ran(u, m))
        /\ ~Ran(t, m)'
  BY <1>1, <1>2 DEF Ran, Idle
<1>7. Shape'
  <2>1. QueuedOnce'
    <3> SUFFICES ASSUME NEW q \in Lanes, NEW r \in Lanes, NEW i \in 1..Len(queue'[q]),
                        NEW k \in 1..Len(queue'[r]), queue'[q][i] = queue'[r][k]
                 PROVE  q = r /\ i = k
      BY DEF QueuedOnce
    <3>1. PICK j \in 1..Len(queue[q]) : queue'[q][i] = queue[q][j] /\ j = IF q = t THEN i + 1 ELSE i
      BY <1>4
    <3>2. PICK l \in 1..Len(queue[r]) : queue'[r][k] = queue[r][l] /\ l = IF r = t THEN k + 1 ELSE k
      BY <1>4
    <3>3. q = r /\ j = l
      <4>1. queue[q][j] = queue[r][l]
        BY <3>1, <3>2
      <4> QED
        BY <1>1, <4>1 DEF Shape, QueuedOnce
    <3>4. i \in Int /\ k \in Int
      OBVIOUS
    <3> QED
      BY <3>1, <3>2, <3>3, <3>4
  <2>2. QueuedIsRead'
    <3> SUFFICES ASSUME NEW q \in Lanes, NEW i \in 1..Len(queue'[q])
                 PROVE  entry'[queue'[q][i]] \in {"pending", "acked"}
      BY DEF QueuedIsRead
    <3>1. PICK j \in 1..Len(queue[q]) : queue'[q][i] = queue[q][j]
      BY <1>4
    <3>2. queue[q] \in Seq(Messages)
      BY DEF TypeOK, Lanes
    <3>3. queue[q][j] \in Messages
      BY <3>2, ElementOfSeq
    <3> QED
      BY <1>1, <1>3, <3>1, <3>3 DEF Shape, QueuedIsRead
  <2>3. WorksOnOwn'
    <3> SUFFICES ASSUME NEW u \in Threads, thread'[u].at # "idle"
                 PROVE  IF OnMain(u) THEN thread'[u].msg \in claimed'[u[1]]
                        ELSE queue'[u] # <<>> /\ thread'[u].msg = queue'[u][1]
      BY DEF WorksOnOwn
    <3>1. u # t /\ thread'[u] = thread[u]
      BY <1>2 DEF Idle
    <3>2. CASE OnMain(u)
      <4>1. u = <<u[1], "main">> /\ u[1] \in Workers
        BY <3>2, LaneThreads
      <4>2. claimed'[u[1]] = claimed[u[1]]
        BY <1>5, <3>1, <4>1
      <4> QED
        BY <1>1, <3>1, <3>2, <4>2 DEF Shape, WorksOnOwn
    <3>3. CASE ~OnMain(u)
      <4>1. u \in Workers \X LaneKeys
        BY <3>3, LaneThreads DEF Lanes
      <4>2. queue'[u] = queue[u]
        BY <3>1, <4>1 DEF Done, TypeOK
      <4> QED
        BY <1>1, <3>1, <3>3, <4>2 DEF Shape, WorksOnOwn
    <3> QED
      BY <3>2, <3>3
  <2>4. Undelivered'
    BY <1>1, <1>3 DEF Shape, Undelivered
  <2> QED
    BY <2>1, <2>2, <2>3, <2>4 DEF Shape
<1>8. ASSUME NEW m \in Messages PROVE Counted(m)'
  <2>1. Owed(m)' => Owed(m)
    <3> SUFFICES ASSUME NEW q \in Lanes, NEW i \in 1..Len(queue'[q]), queue'[q][i] = m, ~Ran(q, m)'
                 PROVE  Owed(m)
      BY DEF Owed
    <3>1. PICK j \in 1..Len(queue[q]) : /\ queue'[q][i] = queue[q][j]
                                       /\ j = IF q = t THEN i + 1 ELSE i
      BY <1>4
    <3>2. ~Ran(q, m)
      <4>1. SUFFICES ASSUME q = t, m = h PROVE FALSE
        BY <1>6, LaneThreads
      <4>2. queue[t] # <<>> /\ queue[t][1] = h /\ queue[t] \in Seq(Messages)
        BY <1>1, <4>1, LaneThreads DEF Shape, WorksOnOwn, TypeOK, Lanes
      <4>3. 1 \in 1..Len(queue[t])
        BY <4>2, EmptySeq
      <4>4. j = 1
        <5>1. queue[q][j] = queue[t][1] /\ q \in Lanes /\ t \in Lanes
          BY <3>1, <4>1, <4>2
        <5> QED
          BY <1>1, <4>3, <5>1 DEF Shape, QueuedOnce
      <4> QED
        BY <3>1, <4>1, <4>4
    <3> QED
      BY <3>1, <3>2 DEF Owed
  <2>2. Claimers(m)' \subseteq Claimers(m)
    <3> SUFFICES ASSUME NEW w \in Workers, m \in claimed'[w], ~Ran(<<w, "main">>, m)'
                 PROVE  m \in claimed[w] /\ ~Ran(<<w, "main">>, m)
      BY DEF Claimers
    <3>1. <<w, "main">> \in Threads
      BY LaneThreads
    <3>2. m \in claimed[w] /\ (t = <<w, "main">> => m # h)
      BY <1>5
    <3> QED
      BY <1>6, <3>1, <3>2
  <2>3. m # h \/ ~OnMain(t) => Finishers(m)' = Finishers(m)
    BY <1>6, LaneThreads DEF Finishers
  <2>4. Debt(m)' <= Debt(m)
    BY <2>1, DebtFalls DEF Numbers
  <2>5. /\ Counted(m) /\ Numbers(m) /\ Numbers(m)'
        /\ faults \in Nat /\ faults' \in Nat /\ Cardinality(Finishers(m)) \in Nat
    BY DEF RunsIInv, Numbers
  <2>6. CASE entry'[m] # "acked" \/ entry[m] = "acked"
    <3>1. (entry'[m] = "acked") <=> (entry[m] = "acked")
      BY <1>3, <2>6
    <3>2. ASSUME delivered[m] = MaxAttempts, entry[m] # "acked"
          PROVE  faults + Cardinality(Finishers(m)) <= faults' + Cardinality(Finishers(m)')
      <4>1. CASE m # h \/ ~OnMain(t)
        <5>1. Finishers(m)' = Finishers(m)
          BY <2>3, <4>1
        <5> QED
          BY <2>5, <5>1
      <4>2. CASE m = h /\ OnMain(t)
        <5>1. entry'[h] # "acked"
          BY <2>6, <3>2, <4>2
        <5>2. ~(delivered[h] < MaxAttempts) /\ entry[h] # "acked"
          BY <2>5, <3>2, <4>2 DEF Numbers
        <5>6. entry' # [entry EXCEPT ![h] = "acked"]
          BY <5>1 DEF TypeOK
        <5>7. faults' = faults + 1
          BY <4>2, <5>2, <5>6
        <5>3. Finishers(m) \ {t[1]} \subseteq Finishers(m)'
          <6> SUFFICES ASSUME NEW w \in Workers, Ran(<<w, "main">>, m), w # t[1]
                       PROVE  Ran(<<w, "main">>, m)'
            BY DEF Finishers
          <6>1. <<w, "main">> \in Threads /\ <<w, "main">> # t
            BY LaneThreads
          <6> QED
            BY <1>6, <6>1
        <5>4. Cardinality(Finishers(m)) <= Cardinality(Finishers(m)') + 1
          BY <2>5, <5>3, OneLess DEF Numbers
        <5>5. Cardinality(Finishers(m)') \in Nat
          BY <2>5 DEF Numbers
        <5> QED
          BY <2>5, <5>7, <5>4, <5>5
      <4> QED
        BY <4>1, <4>2
    <3> QED
      BY <2>2, <2>4, <2>5, <3>1, <3>2, RunsFall
  <2>7. CASE entry'[m] = "acked" /\ entry[m] # "acked"
    <3>1. faults' = faults
      BY <2>7
    <3> QED
      BY <2>2, <2>4, <2>5, <2>7, <3>1, RunsAcked
  <2> QED
    BY <2>6, <2>7
<1> QED
  BY <1>7, <1>8 DEF RunsIInv

\* Threads stop: the runs they owed are not owed by them any more.
LEMMA HaltRuns ==
    ASSUME TypeOK, RunsIInv, \A m \in Messages : Numbers(m), \A m \in Messages : Numbers(m)',
           NEW w \in Workers, NEW T \in SUBSET Threads, Halt(w, T),
           <<w, "main">> \in T, \A t \in T : t[1] = w
    PROVE  RunsIInv'
<1>1. /\ \A q \in Lanes : queue'[q] = IF q \in T THEN <<>> ELSE queue[q]
      /\ \A t \in Threads : thread'[t] = IF t \in T THEN Idle ELSE thread[t]
      /\ \A v \in Workers : claimed'[v] = IF v = w THEN {} ELSE claimed[v]
      /\ UNCHANGED <<entry, delivered, handled>> /\ faults' = faults + 1
  BY DEF Halt, TypeOK, Lanes
<1>2. \A q \in Lanes : \A i \in 1..Len(queue'[q]) : q \notin T /\ queue'[q] = queue[q]
  BY <1>1, EmptySeq
<1>3. Shape'
  <2>1. QueuedOnce'
    <3> SUFFICES ASSUME NEW q \in Lanes, NEW r \in Lanes, NEW i \in 1..Len(queue'[q]),
                        NEW j \in 1..Len(queue'[r]), queue'[q][i] = queue'[r][j]
                 PROVE  q = r /\ i = j
      BY DEF QueuedOnce
    <3>1. queue'[q] = queue[q] /\ queue'[r] = queue[r]
      BY <1>2
    <3> QED
      BY <3>1 DEF RunsIInv, Shape, QueuedOnce
  <2>3. QueuedIsRead' /\ Undelivered'
    BY <1>1, <1>2 DEF RunsIInv, Shape, QueuedIsRead, Undelivered
  <2>2. WorksOnOwn'
    <3> SUFFICES ASSUME NEW t \in Threads, thread'[t].at # "idle"
                 PROVE  IF OnMain(t) THEN thread'[t].msg \in claimed'[t[1]]
                        ELSE queue'[t] # <<>> /\ thread'[t].msg = queue'[t][1]
      BY DEF WorksOnOwn
    <3>1. t \notin T /\ thread'[t] = thread[t] /\ t[1] \in Workers
      BY <1>1, LaneThreads DEF Idle
    <3>2. /\ OnMain(t) => claimed'[t[1]] = claimed[t[1]]
          /\ ~OnMain(t) => queue'[t] = queue[t]
      <4>1. OnMain(t) => t[1] # w
        BY <3>1, LaneThreads
      <4> QED
        BY <1>1, <3>1, <4>1, LaneThreads
    <3> QED
      BY <3>1, <3>2 DEF RunsIInv, Shape, WorksOnOwn
  <2> QED
    BY <2>1, <2>2, <2>3 DEF Shape
<1>4. ASSUME NEW m \in Messages PROVE Counted(m)'
  <2>1. Owed(m)' => Owed(m)
    <3> SUFFICES ASSUME NEW q \in Lanes, NEW i \in 1..Len(queue'[q]), queue'[q][i] = m, ~Ran(q, m)'
                 PROVE  Owed(m)
      BY DEF Owed
    <3>1. q \notin T /\ queue'[q] = queue[q] /\ q \in Threads
      BY <1>2, LaneThreads DEF Lanes, Threads
    <3>2. ~Ran(q, m)
      BY <1>1, <3>1 DEF Ran
    <3> QED
      BY <3>1, <3>2 DEF Owed
  <2>2. ASSUME NEW v \in Workers
        PROVE  /\ v \in Claimers(m)' => v \in Claimers(m)
               /\ v \in Finishers(m)' <=> v \in Finishers(m) /\ v # w
    <3>1. <<v, "main">> \in Threads /\ <<v, "main">>[1] = v
      BY DEF Threads
    <3>2. thread'[<<v, "main">>] = IF v = w THEN Idle ELSE thread[<<v, "main">>]
      BY <1>1, <3>1
    <3>3. Ran(<<v, "main">>, m)' <=> Ran(<<v, "main">>, m) /\ v # w
      BY <3>2 DEF Ran, Idle
    <3> QED
      BY <1>1, <3>3 DEF Claimers, Finishers
  <2>3. Claimers(m)' \subseteq Claimers(m)
    BY <2>2 DEF Claimers
  <2>4. Finishers(m)' = Finishers(m) \ {w}
    BY <2>2 DEF Finishers
  <2>5. Counted(m) /\ Numbers(m) /\ Numbers(m)'
    BY DEF RunsIInv
  <2>6. faults \in Nat /\ Cardinality(Finishers(m)) \in Nat /\ IsFiniteSet(Finishers(m))
    BY <2>5 DEF Numbers
  <2>7. Cardinality(Finishers(m)) <= Cardinality(Finishers(m)') + 1
    <3>1. CASE w \in Finishers(m)
      <4>1. Cardinality(Finishers(m)') = Cardinality(Finishers(m)) - 1
        BY <2>4, <2>6, <3>1, FS_RemoveElement
      <4> QED
        BY <2>6, <4>1
    <3>2. CASE w \notin Finishers(m)
      <4>1. Finishers(m)' = Finishers(m)
        BY <2>4, <3>2
      <4> QED
        BY <2>6, <4>1
    <3> QED
      BY <3>1, <3>2
  <2>8. Cardinality(Finishers(m)') \in Nat
    BY <2>5 DEF Numbers
  <2>9. /\ faults <= faults'
        /\ faults + Cardinality(Finishers(m)) <= faults' + Cardinality(Finishers(m)')
    BY <1>1, <2>6, <2>7, <2>8
  <2>10. Debt(m)' <= Debt(m)
    BY <1>1, <2>1, <2>5, DebtFalls DEF Numbers
  <2> QED
    BY <1>1, <2>3, <2>5, <2>9, <2>10, RunsFall
<1> QED
  BY <1>3, <1>4 DEF RunsIInv

\* An event is added: no worker has its message yet.
LEMMA PublishRuns ==
    ASSUME TypeOK, RunsIInv, \A m \in Messages : Numbers(m), \A m \in Messages : Numbers(m)',
           NEW h \in Messages, NEW k \in EventKeys, Publish(h, k),
           UNCHANGED <<delivered, queue, claimed, thread, handled, faults>>
    PROVE  RunsIInv'
<1>1. /\ entry[h] = "unsent" /\ entry'[h] = "new"
      /\ \A m \in Messages : m # h => entry'[m] = entry[m]
  BY DEF Publish, TypeOK
<1>2. Shape'
  <2>1. QueuedOnce' /\ WorksOnOwn' /\ Undelivered'
    BY <1>1 DEF RunsIInv, Shape, QueuedOnce, WorksOnOwn, Undelivered
  <2>2. QueuedIsRead'
    <3> SUFFICES ASSUME NEW q \in Lanes, NEW i \in 1..Len(queue[q])
                 PROVE  entry'[queue[q][i]] \in {"pending", "acked"}
      BY DEF QueuedIsRead
    <3>1. entry[queue[q][i]] \in {"pending", "acked"} /\ queue[q] \in Seq(Messages)
      BY DEF RunsIInv, Shape, QueuedIsRead, TypeOK, Lanes
    <3>2. queue[q][i] \in Messages
      BY <3>1, ElementOfSeq
    <3> QED
      BY <1>1, <3>1, <3>2
  <2> QED
    BY <2>1, <2>2 DEF Shape
<1>3. ASSUME NEW m \in Messages PROVE Counted(m)'
  <2>1. Owed(m)' = Owed(m) /\ Claimers(m)' = Claimers(m) /\ Finishers(m)' = Finishers(m)
    BY DEF Owed, Claimers, Finishers, Ran
  <2>2. Counted(m) /\ Numbers(m) /\ Numbers(m)'
    BY DEF RunsIInv
  <2>3. faults \in Nat /\ Cardinality(Finishers(m)) \in Nat
    BY <2>2 DEF Numbers
  <2>4. /\ faults <= faults'
        /\ faults + Cardinality(Finishers(m)) <= faults' + Cardinality(Finishers(m)')
    BY <2>1, <2>3
  <2>5. Debt(m)' <= Debt(m)
    BY <2>1, <2>2, DebtFalls DEF Numbers
  <2>6. (entry'[m] = "acked") <=> (entry[m] = "acked")
    BY <1>1
  <2> QED
    BY <2>1, <2>2, <2>4, <2>5, <2>6, RunsFall
<1> QED
  BY <1>2, <1>3 DEF RunsIInv

\* A main loop claims a batch: each of its messages gets a delivery and a run.
LEMMA ClaimRuns ==
    ASSUME TypeOK, RunsIInv, \A m \in Messages : Numbers(m), \A m \in Messages : Numbers(m)',
           NEW w \in Workers, NEW S \in SUBSET Messages, Claim(w, S)
    PROVE  RunsIInv'
<1>1. /\ \A m \in S : entry[m] = "pending"
      /\ \A m \in Messages : delivered'[m] = IF m \in S THEN Count(delivered[m]) ELSE delivered[m]
      /\ claimed[w] = {} /\ thread[<<w, "main">>] = Idle
      /\ \A v \in Workers : claimed'[v] = IF v = w THEN S ELSE claimed[v]
      /\ UNCHANGED <<entry, queue, thread, handled, faults>>
  BY DEF Claim, Stale, MainFree, TypeOK
<1>2. Shape'
  <2>1. QueuedOnce' /\ QueuedIsRead' /\ Undelivered'
    BY <1>1 DEF RunsIInv, Shape, QueuedOnce, QueuedIsRead, Undelivered
  <2>2. WorksOnOwn'
    <3> SUFFICES ASSUME NEW t \in Threads, thread[t].at # "idle"
                 PROVE  IF OnMain(t) THEN thread[t].msg \in claimed'[t[1]]
                        ELSE queue[t] # <<>> /\ thread[t].msg = queue[t][1]
      BY <1>1 DEF WorksOnOwn
    <3>1. OnMain(t) => t = <<t[1], "main">> /\ t[1] \in Workers
      BY LaneThreads
    <3>2. OnMain(t) => t[1] # w
      BY <1>1, <3>1 DEF Idle
    <3> QED
      BY <1>1, <3>1, <3>2 DEF RunsIInv, Shape, WorksOnOwn
  <2> QED
    BY <2>1, <2>2 DEF Shape
<1>3. ASSUME NEW m \in Messages PROVE Counted(m)'
  <2>1. Owed(m)' = Owed(m) /\ Finishers(m)' = Finishers(m) /\ Debt(m)' = Debt(m)
    BY <1>1 DEF Owed, Finishers, Debt, Ran
  <2>2. Counted(m) /\ Numbers(m) /\ Numbers(m)'
    BY DEF RunsIInv
  <2>3. faults' = faults /\ faults \in Nat /\ Cardinality(Finishers(m)) \in Nat /\ Debt(m) \in Nat
    BY <1>1, <2>2 DEF Numbers
  <2>4. CASE m \in S
    <3>1. w \notin Claimers(m) /\ Claimers(m)' = Claimers(m) \cup {w}
      BY <1>1, <2>4 DEF Claimers, Ran, Idle
    <3> QED
      BY <1>1, <2>1, <2>2, <2>4, <3>1, RunsClaimed
  <2>5. CASE m \notin S
    <3>1. Claimers(m)' = Claimers(m)
      BY <1>1, <2>5 DEF Claimers, Ran
    <3>2. /\ faults <= faults' /\ Debt(m)' <= Debt(m)
          /\ faults + Cardinality(Finishers(m)) <= faults' + Cardinality(Finishers(m)')
      BY <2>1, <2>3
    <3> QED
      BY <1>1, <2>1, <2>2, <2>5, <3>1, <3>2, RunsFall
  <2> QED
    BY <2>4, <2>5
<1> QED
  BY <1>2, <1>3 DEF RunsIInv

\* A message is read: it waits in one lane for its first run.
LEMMA ReadRuns ==
    ASSUME TypeOK, RunsIInv, \A m \in Messages : Numbers(m), \A m \in Messages : Numbers(m)',
           NEW w \in Workers, Read(w)
    PROVE  RunsIInv'
<1>1. PICK h \in Messages :
        /\ entry[h] = "new"
        /\ entry' = [entry EXCEPT ![h] = "pending"]
        /\ delivered' = [delivered EXCEPT ![h] = Count(@)]
        /\ queue' = [queue EXCEPT ![<<w, LaneOf[h]>>] = Append(@, h)]
  BY DEF Read
<1> PICK l : l = <<w, LaneOf[h]>>
  OBVIOUS
<1>2. l \in Lanes /\ queue[l] \in Seq(Messages)
  BY StreamAssumption DEF TypeOK, Lanes
<1>3. /\ Append(queue[l], h) # <<>> /\ Len(queue[l]) \in Nat
      /\ Len(Append(queue[l], h)) = Len(queue[l]) + 1
      /\ \A i \in 1..Len(queue[l]) : Append(queue[l], h)[i] = queue[l][i]
      /\ Append(queue[l], h)[Len(queue[l]) + 1] = h
  BY <1>2, AppendProperties, LenProperties
<1>4. /\ \A q \in Lanes : queue'[q] = IF q = l THEN Append(queue[l], h) ELSE queue[q]
      /\ entry'[h] = "pending" /\ delivered'[h] = Count(delivered[h])
      /\ \A m \in Messages : m # h => entry'[m] = entry[m] /\ delivered'[m] = delivered[m]
      /\ UNCHANGED <<claimed, thread, handled, faults>>
  BY <1>1, <1>2 DEF Read, TypeOK, Lanes
<1>5. /\ QueuedOnce /\ QueuedIsRead /\ WorksOnOwn /\ Undelivered
      /\ \A q \in Lanes : \A i \in 1..Len(queue[q]) : queue[q][i] \in Messages
  <2> SUFFICES ASSUME NEW q \in Lanes, NEW i \in 1..Len(queue[q]) PROVE queue[q][i] \in Messages
    BY DEF RunsIInv, Shape
  <2>1. queue[q] \in Seq(Messages)
    BY DEF TypeOK, Lanes
  <2> QED
    BY <2>1, ElementOfSeq
<1>6. \A q \in Lanes : \A i \in 1..Len(queue'[q]) :
        \/ i \in 1..Len(queue[q]) /\ queue'[q][i] = queue[q][i] /\ queue[q][i] # h
        \/ q = l /\ i = Len(queue[l]) + 1 /\ queue'[q][i] = h
  <2> SUFFICES ASSUME NEW q \in Lanes, NEW i \in 1..Len(queue'[q])
               PROVE  \/ i \in 1..Len(queue[q]) /\ queue'[q][i] = queue[q][i] /\ queue[q][i] # h
                      \/ q = l /\ i = Len(queue[l]) + 1 /\ queue'[q][i] = h
    OBVIOUS
  <2>1. i \in 1..Len(queue[q]) => queue[q][i] # h
    BY <1>1, <1>5 DEF QueuedIsRead
  <2>2. CASE q # l
    BY <1>4, <2>1, <2>2
  <2>3. CASE q = l
    <3>1. queue'[q] = Append(queue[l], h) /\ i \in 1..(Len(queue[l]) + 1)
      BY <1>3, <1>4, <2>3
    <3>2. i \in 1..Len(queue[l]) \/ i = Len(queue[l]) + 1
      BY <1>3, <3>1
    <3> QED
      BY <1>3, <2>1, <2>3, <3>1, <3>2
  <2> QED
    BY <2>2, <2>3
<1>7. Shape'
  <2>1. QueuedOnce'
    <3> SUFFICES ASSUME NEW q \in Lanes, NEW r \in Lanes, NEW i \in 1..Len(queue'[q]),
                        NEW j \in 1..Len(queue'[r]), queue'[q][i] = queue'[r][j]
                 PROVE  q = r /\ i = j
      BY DEF QueuedOnce
    <3>1. CASE queue'[q][i] = h
      BY <1>6, <3>1
    <3>2. CASE queue'[q][i] # h
      <4>1. /\ i \in 1..Len(queue[q]) /\ j \in 1..Len(queue[r])
            /\ queue[q][i] = queue[r][j]
        BY <1>6, <3>2
      <4> QED
        BY <1>5, <4>1 DEF QueuedOnce
    <3> QED
      BY <3>1, <3>2
  <2>2. QueuedIsRead'
    <3> SUFFICES ASSUME NEW q \in Lanes, NEW i \in 1..Len(queue'[q])
                 PROVE  entry'[queue'[q][i]] \in {"pending", "acked"}
      BY DEF QueuedIsRead
    <3>1. CASE queue'[q][i] = h
      BY <1>4, <3>1
    <3>2. CASE queue'[q][i] # h
      <4>1. i \in 1..Len(queue[q]) /\ queue'[q][i] = queue[q][i]
        BY <1>6, <3>2
      <4> QED
        BY <1>4, <1>5, <3>2, <4>1 DEF QueuedIsRead
    <3> QED
      BY <3>1, <3>2
  <2>3. WorksOnOwn'
    <3> SUFFICES ASSUME NEW t \in Threads, thread[t].at # "idle"
                 PROVE  IF OnMain(t) THEN thread[t].msg \in claimed[t[1]]
                        ELSE queue'[t] # <<>> /\ thread[t].msg = queue'[t][1]
      BY <1>4 DEF WorksOnOwn
    <3>1. CASE ~OnMain(t)
      <4>1. t \in Lanes /\ queue[t] # <<>> /\ thread[t].msg = queue[t][1]
        BY <1>5, <3>1, LaneThreads DEF WorksOnOwn
      <4>2. queue[t] \in Seq(Messages)
        BY <4>1 DEF TypeOK, Lanes
      <4>3. 1 \in 1..Len(queue[t])
        BY <4>1, <4>2, EmptySeq
      <4>4. queue'[t] # <<>> /\ queue'[t][1] = queue[t][1]
        BY <1>3, <1>4, <4>1, <4>3
      <4> QED
        BY <3>1, <4>1, <4>4
    <3> QED
      BY <1>5, <3>1 DEF WorksOnOwn
  <2>4. Undelivered'
    BY <1>4, <1>5 DEF Undelivered
  <2> QED
    BY <2>1, <2>2, <2>3, <2>4 DEF Shape
<1>8. ASSUME NEW m \in Messages PROVE Counted(m)'
  <2>1. Claimers(m)' = Claimers(m) /\ Finishers(m)' = Finishers(m)
    BY <1>4 DEF Claimers, Finishers, Ran
  <2>2. Counted(m) /\ Numbers(m) /\ Numbers(m)'
    BY DEF RunsIInv
  <2>3. /\ faults' = faults /\ faults \in Nat /\ Cardinality(Finishers(m)) \in Nat
        /\ handled[m] \in Nat /\ handled'[m] = handled[m]
    BY <1>4, <2>2 DEF Numbers
  <2>4. CASE m = h
    <3>1. delivered[m] = 0 /\ Debt(m)' <= Debt(m) + 1
      BY <1>1, <1>5, <2>3, <2>4 DEF Undelivered, Debt
    <3> QED
      BY <1>4, <2>1, <2>2, <2>4, <3>1, RunsRead
  <2>5. CASE m # h
    <3>1. Owed(m)' => Owed(m)
      <4> SUFFICES ASSUME NEW q \in Lanes, NEW i \in 1..Len(queue'[q]), queue'[q][i] = m, ~Ran(q, m)'
                   PROVE  Owed(m)
        BY DEF Owed
      <4>1. i \in 1..Len(queue[q]) /\ queue[q][i] = m
        BY <1>6, <2>5
      <4>2. ~Ran(q, m)
        BY <1>4 DEF Ran
      <4> QED
        BY <4>1, <4>2 DEF Owed
    <3>2. Debt(m)' <= Debt(m)
      BY <2>3, <3>1, DebtFalls
    <3>3. /\ faults <= faults'
          /\ faults + Cardinality(Finishers(m)) <= faults' + Cardinality(Finishers(m)')
      BY <2>1, <2>3
    <3> QED
      BY <1>4, <2>1, <2>2, <2>5, <3>2, <3>3, RunsFall
  <2> QED
    BY <2>4, <2>5
<1> QED
  BY <1>7, <1>8 DEF RunsIInv

\* The steps of a thread.
LEMMA ThreadRuns ==
    ASSUME TypeOK, RunsIInv, \A m \in Messages : Numbers(m), \A m \in Messages : Numbers(m)',
           NEW t \in Threads, Step(t)
    PROVE  RunsIInv'
<1>0. faults \in Nat /\ (UNCHANGED faults => faults <= faults')
  <2>1. faults \in Nat
    BY StreamAssumption DEF TypeOK
  <2> QED
    BY <2>1
<1>1. ASSUME NEW m \in Messages, Begin(t, m) PROVE RunsIInv'
  <2>1. /\ thread'[t].msg = m /\ thread[t] = Idle
        /\ \A u \in Threads : u # t => thread'[u] = thread[u]
        /\ UNCHANGED <<entry, delivered, queue, claimed, handled, faults>>
    BY <1>1 DEF Begin, TypeOK
  <2>2. IF OnMain(t) THEN m \in claimed[t[1]] ELSE queue[t] # <<>> /\ m = queue[t][1]
    <3>1. CASE OnMain(t)
      BY <1>1, <3>1 DEF Begin
    <3>2. CASE ~OnMain(t)
      <4>1. queue[t] \in Seq(Messages) /\ queue[t] # <<>> /\ m = Head(queue[t])
        BY <1>1, <3>2, ThreadParts DEF Begin, TypeOK
      <4> QED
        BY <3>2, <4>1
    <3> QED
      BY <3>1, <3>2
  <2>3. thread[t].at = "idle" /\ \A n \in Messages : ~Ran(t, n)
    BY <2>1 DEF Ran, Idle
  <2> QED
    BY <2>1, <2>2, <2>3, <1>0, StillRuns
<1>2. ASSUME CheckProcessed(t) \/ Settle(t) \/ PersistDeadLetter(t) \/ MarkProcessed(t)
      PROVE  RunsIInv'
  <2>1. thread[t].at \in {"check", "settle", "bury", "mark"} /\ thread[t] \in ThreadRecords
    BY <1>2, BusyThread DEF CheckProcessed, Settle, PersistDeadLetter, MarkProcessed
  <2>2. UNCHANGED <<entry, delivered, queue, claimed, handled, faults>>
    BY <1>2 DEF CheckProcessed, Settle, PersistDeadLetter, MarkProcessed
  <2>3. /\ thread'[t].msg = thread[t].msg
        /\ thread[t].at = "check" \/ thread'[t].at \in {"settle", "bury", "mark", "ack"}
        /\ \A u \in Threads : u # t => thread'[u] = thread[u]
    BY <1>2, <2>1 DEF CheckProcessed, Settle, PersistDeadLetter, MarkProcessed, AfterResult,
       TypeOK, ThreadRecords
  <2>4. \A m \in Messages : Ran(t, m) => Ran(t, m)'
    BY <2>3 DEF Ran
  <2> QED
    BY <2>1, <2>2, <2>3, <2>4, <1>0, StillRuns
<1>4. ASSUME CheckRaises(t) PROVE RunsIInv'
  <2>1. thread[t].at \in {"check", "ack"} /\ thread[t] \in ThreadRecords
    BY <1>4, BusyThread DEF CheckRaises
  <2>2. UNCHANGED <<entry, delivered, queue, claimed, handled>> /\ faults' = faults + 1
    BY <1>4 DEF CheckRaises, Raises
  <2>3. /\ thread'[t].msg = thread[t].msg /\ thread'[t].at = "settle"
        /\ \A u \in Threads : u # t => thread'[u] = thread[u]
    BY <1>4, <2>1 DEF CheckRaises, TypeOK, ThreadRecords
  <2>4. \A m \in Messages : Ran(t, m) => Ran(t, m)'
    BY <2>3 DEF Ran
  <2>5. faults <= faults'
    BY <2>2, <1>0
  <2> QED
    BY <2>1, <2>2, <2>3, <2>4, <2>5, StillRuns
<1>3. ASSUME KeepPending(t) \/ AttemptsUnknown(t) \/ LaneRaises(t) \/ Ack(t) PROVE RunsIInv'
  <2> PICK h : h = thread[t].msg
    OBVIOUS
  <2>1. thread[t].at \in {"settle", "bury", "mark", "ack"} /\ h \in Messages
    BY <1>3, BusyThread DEF KeepPending, AttemptsUnknown, LaneRaises, Ack, ThreadRecords
  <2>2. Done(t) /\ UNCHANGED <<delivered, handled>>
    BY <1>3 DEF KeepPending, AttemptsUnknown, LaneRaises, Raises, Ack
  <2>3. Undelivered /\ delivered[h] \in 0..MaxAttempts /\ MaxAttempts \in Nat /\ MaxAttempts > 1
        /\ faults \in Nat
    BY <2>1 DEF RunsIInv, Shape, Numbers
  <2>4. CASE KeepPending(t)
    <3>1. entry' = entry /\ faults' = faults /\ PendingAttempts(h) < MaxAttempts
      BY <2>4 DEF KeepPending
    <3>2. delivered[h] < MaxAttempts \/ entry[h] = "acked"
      <4>1. entry[h] \in {"unsent", "new", "pending", "acked"}
        BY <2>1 DEF TypeOK
      <4>2. CASE entry[h] = "pending"
        BY <3>1, <4>2 DEF PendingAttempts
      <4>3. CASE entry[h] \in {"unsent", "new"}
        <5>1. delivered[h] = 0
          BY <2>1, <2>3, <4>3 DEF Undelivered
        <5> QED
          BY <2>3, <5>1
      <4> QED
        BY <4>1, <4>2, <4>3
    <3>3. faults <= faults'
      BY <2>3, <3>1
    <3> QED
      BY <2>1, <2>2, <3>1, <3>2, <3>3, EndRuns
  <2>5. CASE AttemptsUnknown(t) \/ LaneRaises(t)
    <3>1. entry' = entry /\ faults' = faults + 1
      BY <2>5 DEF AttemptsUnknown, LaneRaises, Raises
    <3>2. faults <= faults'
      BY <2>3, <3>1
    <3> QED
      BY <2>1, <2>2, <3>1, <3>2, EndRuns
  <2>6. CASE Ack(t)
    <3>1. entry' = [entry EXCEPT ![h] = "acked"] /\ faults' = faults
      BY <2>6 DEF Ack
    <3>2. faults <= faults'
      BY <2>3, <3>1
    <3> QED
      BY <2>1, <2>2, <3>1, <3>2, EndRuns
  <2> QED
    BY <1>3, <2>4, <2>5, <2>6
<1> QED
  BY <1>1, <1>2, <1>3, <1>4, ReturnRuns DEF Step

\* A step that touches nothing the count is made of.
LEMMA SameRuns ==
    ASSUME RunsIInv, UNCHANGED <<entry, delivered, queue, claimed, thread, handled, faults>>
    PROVE  RunsIInv'
<1>1. Shape'
  BY DEF RunsIInv, Shape, QueuedOnce, QueuedIsRead, WorksOnOwn, Undelivered
<1>2. ASSUME NEW m \in Messages PROVE Counted(m)'
  <2>1. /\ Debt(m)' = Debt(m) /\ Claimers(m)' = Claimers(m) /\ Finishers(m)' = Finishers(m)
    BY DEF Debt, Owed, Claimers, Finishers, Ran
  <2> QED
    BY <2>1 DEF RunsIInv, Counted
<1> QED
  BY <1>1, <1>2 DEF RunsIInv

\* Every step keeps the count.
LEMMA RunsStep ==
    ASSUME TypeOK, RunsIInv, \A m \in Messages : Numbers(m), \A m \in Messages : Numbers(m)',
           [Next]_vars
    PROVE  RunsIInv'
<1>1. NKeys \in Nat /\ N \in Nat
  BY StreamAssumption
<1>2. ASSUME NEW m \in Messages, NEW k \in 1..NKeys, Produce(m, k) PROVE RunsIInv'
  <2>1. k \in EventKeys
    BY <1>1 DEF EventKeys
  <2> QED
    BY <1>2, <2>1, PublishRuns DEF Produce
<1>3. ASSUME NEW m \in Messages, NEW d \in Messages, Replay(d, m) PROVE RunsIInv'
  <2>1. ReplayKey(m) \in EventKeys
    BY <1>1 DEF EventKeys, ReplayKey, Messages
  <2> QED
    BY <1>3, <2>1, PublishRuns DEF Replay
<1>4. CASE UNCHANGED vars
  <2>1. UNCHANGED <<entry, delivered, queue, claimed, thread, handled, faults>>
    BY <1>4 DEF vars
  <2> QED
    BY <2>1, SameRuns
<1>5. ASSUME NEW w \in Workers, Restart(w) PROVE RunsIInv'
  <2>1. UNCHANGED <<entry, delivered, queue, claimed, thread, handled, faults>>
    BY <1>5 DEF Restart
  <2> QED
    BY <2>1, SameRuns
<1>6. ASSUME NEW w \in Workers, Crash(w) \/ RunRaises(w) PROVE RunsIInv'
  BY <1>6, Halts, HaltRuns
<1> QED
  BY <1>2, <1>3, <1>4, <1>5, <1>6, ReadRuns, ClaimRuns, ThreadRuns DEF Next

\* At the start there is nothing to run.
LEMMA RunsInit ==
    ASSUME Init, \A m \in Messages : Numbers(m) PROVE RunsIInv
<1>1. \A q \in Lanes : queue[q] = <<>> /\ 1..Len(queue[q]) = {}
  BY EmptySeq DEF Init, Lanes
<1>2. Shape
  BY <1>1 DEF Init, Shape, QueuedOnce, QueuedIsRead, WorksOnOwn, Undelivered, Idle
<1>3. ASSUME NEW m \in Messages PROVE Counted(m)
  <2>1. ~Owed(m) /\ Claimers(m) = {}
    BY <1>1 DEF Init, Owed, Claimers
  <2>2. Debt(m) = 0 /\ Cardinality(Claimers(m)) = 0 /\ delivered[m] = 0 /\ entry[m] = "unsent"
    BY <2>1, FS_EmptySet DEF Init, Debt
  <2>3. MaxAttempts \in Nat /\ MaxAttempts > 1
    BY DEF Numbers
  <2> QED
    BY <2>2, <2>3 DEF Counted
<1> QED
  BY <1>2, <1>3 DEF RunsIInv

(***************************************************************************)
(* The retry loop is bounded, for any finite number of worker processes,   *)
(* any lanes, messages and faults, and any max_attempts of at least two:   *)
(* StreamWorker sets 2 and the provisioning worker at least 2.             *)
(***************************************************************************)
THEOREM HandlerRunsBoundedHolds ==
    ASSUME RunsAssumption PROVE Safety => []HandlerRunsBounded
<1> DEFINE Counts == \A m \in Messages : Numbers(m)
<1>1. IInv => TypeOK /\ Counts
  <2> SUFFICES ASSUME IInv PROVE TypeOK /\ Counts
    OBVIOUS
  <2>1. TypeOK
    BY DEF IInv
  <2> QED
    BY <2>1, CountTypes
<1>2. Init /\ Counts => RunsIInv
  BY RunsInit
<1>3. RunsIInv /\ TypeOK /\ Counts /\ Counts' /\ [Next]_vars => RunsIInv'
  BY RunsStep
<1>4. RunsIInv /\ Counts => HandlerRunsBounded
  <2> SUFFICES ASSUME RunsIInv, Counts, NEW m \in Messages
               PROVE  handled[m] <= MaxAttempts + (Cardinality(Workers) - 1) + faults
    BY DEF HandlerRunsBounded
  <2> DEFINE d == Debt(m)  x == Cardinality(Claimers(m))
             f == Cardinality(Finishers(m))  k == Cardinality(Workers)
  <2>1. /\ d \in Nat /\ x \in Nat /\ f \in Nat /\ k \in Nat /\ x + f <= k
        /\ faults \in Nat /\ MaxAttempts \in Nat /\ delivered[m] \in 0..MaxAttempts
        /\ handled[m] \in Nat
    BY DEF Numbers
  <2>2. handled[m] <= d
    BY <2>1 DEF Debt
  <2> HIDE DEF d, x, f, k, Counts
  <2>3. /\ delivered[m] < MaxAttempts => d + x <= delivered[m]
        /\ delivered[m] = MaxAttempts /\ entry[m] # "acked" => d < MaxAttempts + faults + f
        /\ entry[m] = "acked" => d + x < MaxAttempts + k + faults
    BY DEF RunsIInv, Counted, d, x, f, k
  <2>4. handled[m] <= MaxAttempts + (k - 1) + faults
    BY <2>1, <2>2, <2>3
  <2> QED
    BY <2>4 DEF k
<1> HIDE DEF Counts
<1> QED
  BY <1>1, <1>2, <1>3, <1>4, InvariantHolds, PTL DEF Safety
=============================================================================
