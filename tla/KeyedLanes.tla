----------------------------- MODULE KeyedLanes -----------------------------
(***************************************************************************)
(* What the keyed serial executor promises its caller: one lane per key,   *)
(* in which jobs run one at a time, each once, in the order of submission, *)
(* and every lane with waiting jobs makes progress.                        *)
(***************************************************************************)
EXTENDS Integers, Sequences

CONSTANTS Keys, NJobs, KeyOf

VARIABLES
    submitted,  \* jobs 1..submitted have been submitted
    waiting,    \* for each key, the jobs that have not run yet
    ran         \* for each key, the jobs that have run, in order

vars == <<submitted, waiting, ran>>

Init ==
    /\ submitted = 0
    /\ waiting = [k \in Keys |-> <<>>]
    /\ ran = [k \in Keys |-> <<>>]

Submit ==
    /\ submitted < NJobs
    /\ submitted' = submitted + 1
    /\ waiting' = [waiting EXCEPT ![KeyOf[submitted + 1]] = Append(@, submitted + 1)]
    /\ UNCHANGED ran

RunNext(k) ==
    /\ waiting[k] # <<>>
    /\ ran' = [ran EXCEPT ![k] = Append(@, Head(waiting[k]))]
    /\ waiting' = [waiting EXCEPT ![k] = Tail(@)]
    /\ UNCHANGED submitted

Next == Submit \/ \E k \in Keys : RunNext(k)

Safety == Init /\ [][Next]_vars

Spec == Safety /\ \A k \in Keys : WF_vars(RunNext(k))
=============================================================================
