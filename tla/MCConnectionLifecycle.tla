------------------------ MODULE MCConnectionLifecycle ------------------------
(***************************************************************************)
(* Instances of ConnectionLifecycle for TLC.                               *)
(***************************************************************************)
EXTENDS ConnectionLifecycle, TLC

CONSTANTS w1, w2, v1, v2

TwoWorkers == {w1, w2}
TwoWatchers == {v1, v2}

\* Workers only differ by name, and so do watchers.
Symmetry == Permutations({w1, w2}) \cup Permutations({v1, v2})
=============================================================================
