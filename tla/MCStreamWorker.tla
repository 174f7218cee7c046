--------------------------- MODULE MCStreamWorker ---------------------------
(***************************************************************************)
(* Instance of StreamWorker: one worker process, whose main loop and lane  *)
(* thread compete for two messages of one lane.                            *)
(***************************************************************************)
EXTENDS StreamWorker

CONSTANTS a, w1

OneLane == [m \in Messages |-> a]
=============================================================================
