---------------------------- MODULE IntentContract ----------------------------
(***************************************************************************)
(* What the execution of trade intents promises about each intent, without *)
(* threads, locks, deliveries or crashes: the broker carries out at most   *)
(* one operation, a confirmation says that it did, and a failure says that *)
(* it did not and never will, unless the intent had become overdue without *)
(* an answer.  Nothing happens to an intent, or for it at the broker, once *)
(* its outcome is known.                                                   *)
(***************************************************************************)
EXTENDS Naturals

CONSTANT Intents

VARIABLES
    outcome,    \* what the user is told: "open", "confirmed" or "failed"
    done,       \* operations the broker has carried out for the intent
    overdue     \* the intent waits for longer than its maximum age

contractVars == <<outcome, done, overdue>>

Init ==
    /\ outcome = [i \in Intents |-> "open"]
    /\ done = [i \in Intents |-> 0]
    /\ overdue = [i \in Intents |-> FALSE]

\* The broker carries out the intent's only operation.
CarryOut(i) ==
    /\ outcome[i] = "open" /\ done[i] = 0
    /\ done' = [done EXCEPT ![i] = 1]
    /\ UNCHANGED <<outcome, overdue>>

\* The operation is known to have been carried out.
Confirm(i) ==
    /\ outcome[i] = "open" /\ done[i] = 1
    /\ outcome' = [outcome EXCEPT ![i] = "confirmed"]
    /\ UNCHANGED <<done, overdue>>

\* No operation was carried out, or none could be found for too long.
Fail(i) ==
    /\ outcome[i] = "open"
    /\ done[i] = 0 \/ overdue[i]
    /\ outcome' = [outcome EXCEPT ![i] = "failed"]
    /\ UNCHANGED <<done, overdue>>

\* Time passes.
BecomeOverdue(i) ==
    /\ ~overdue[i]
    /\ overdue' = [overdue EXCEPT ![i] = TRUE]
    /\ UNCHANGED <<outcome, done>>

Next == \E i \in Intents : CarryOut(i) \/ Confirm(i) \/ Fail(i) \/ BecomeOverdue(i)

Spec == Init /\ [][Next]_contractVars
=============================================================================
