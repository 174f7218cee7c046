-------------------------- MODULE MCIntentExecution --------------------------
(***************************************************************************)
(* Instances of IntentExecution: opens o1 and o2, a close c1 of o1, two    *)
(* handler threads.                                                        *)
(***************************************************************************)
EXTENDS IntentExecution, TLC

CONSTANTS o1, o2, c1, t1, t2

NoTarget == [c \in {} |-> o1]
ThreadSymmetry == Permutations({t1, t2})
Symmetry == Permutations({o1, o2}) \cup ThreadSymmetry
CloseFirst == [c \in {c1} |-> o1]
=============================================================================
