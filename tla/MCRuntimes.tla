----------------------------- MODULE MCRuntimes -----------------------------
(***************************************************************************)
(* The parts of a deployment that run beside the requests and share no     *)
(* state: the MetaApi connection manager, the ownership of the Telegram    *)
(* runtime, the Telegram sign-ins, the health of the workers and the       *)
(* database schema along its revisions.  A behaviour follows one of them.  *)
(***************************************************************************)
EXTENDS MetaApiConnections, TelegramOwnership, TelegramSessions, CopyHealth, Migrations, TLC

VARIABLE focus

RuntimesInit ==
    /\ focus \in {"metaapi", "ownership", "sessions", "health", "schema"}
    /\ ConnInit /\ OwnInit /\ SessInit
    /\ MigInit /\ HealthInit /\ (focus # "health" => enabled /\ configured)

RuntimesNext ==
    /\ UNCHANGED focus
    /\ \/ focus = "metaapi" /\ ConnNext /\ UNCHANGED <<ownVars, sessVars, healthVars, migVars>>
       \/ focus = "ownership" /\ OwnNext /\ UNCHANGED <<connVars, sessVars, healthVars, migVars>>
       \/ focus = "sessions" /\ SessNext /\ UNCHANGED <<connVars, ownVars, healthVars, migVars>>
       \/ focus = "health" /\ HealthNext /\ UNCHANGED <<connVars, ownVars, sessVars, migVars>>
       \/ focus = "schema" /\ MigNext /\ UNCHANGED <<connVars, ownVars, sessVars, healthVars>>

RuntimesSpec ==
    RuntimesInit /\ [][RuntimesNext]_<<focus, connVars, ownVars, sessVars, healthVars, migVars>>

\* The parts share no state, so that the same model values serve as Opens and
\* Instances and as Conns and Roles: one permutation acts on both.
Symmetry == Permutations(Opens) \cup Permutations(Conns)
=============================================================================
