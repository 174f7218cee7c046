------------------------- MODULE TelegramOwnership --------------------------
(***************************************************************************)
(* Which telegram-session process holds the Telegram clients               *)
(* (worker_runtime.py): the ownership key in Redis with its time to live,  *)
(* the loop that may fail to refresh it in time, and the order in which a  *)
(* runtime that stops lets go of its clients and of the key.               *)
(***************************************************************************)
EXTENDS FiniteSets

CONSTANTS
    Runtimes,   \* telegram-session processes
    Sessions,   \* Telegram sessions of ready or disconnected connections
    NoRuntime      \* no runtime

ASSUME OwnershipAssumption == NoRuntime \notin Runtimes

VARIABLES
    ownerKey,   \* copy:telegram:runtime-owner
    phase,      \* what each runtime process is doing
    overdue,    \* history: runtimes whose key expired while they ran
    clients     \* per runtime, the sessions with a connected client

ownVars == <<ownerKey, phase, overdue, clients>>

OwnTypeOK ==
    /\ ownerKey \in Runtimes \cup {NoRuntime}
    /\ phase \in [Runtimes -> {"waiting", "running", "stopping", "stopped"}]
    /\ overdue \subseteq Runtimes
    /\ clients \in [Runtimes -> SUBSET Sessions]

OwnInit ==
    /\ ownerKey = NoRuntime
    /\ phase = [r \in Runtimes |-> "waiting"]
    /\ overdue = {}
    /\ clients = [r \in Runtimes |-> {}]

\* _try_claim_runtime_ownership: SET NX EX.
Claim(r) ==
    /\ phase[r] = "waiting" /\ ownerKey = NoRuntime
    /\ ownerKey' = r
    /\ phase' = [phase EXCEPT ![r] = "running"]
    /\ overdue' = overdue \ {r}
    /\ UNCHANGED clients

\* The key's 30 seconds pass, which its holder prevents unless a restore, a
\* poll or a command keeps its loop from refreshing in time.
KeyExpires ==
    /\ ownerKey # NoRuntime
    /\ ownerKey' = NoRuntime
    /\ overdue' = IF phase[ownerKey] = "waiting" THEN overdue ELSE overdue \cup {ownerKey}
    /\ UNCHANGED <<phase, clients>>

\* restore, or a sign-in, connects a client; a health check drops one.
ConnectSession(r, s) ==
    /\ phase[r] = "running"
    /\ clients' = [clients EXCEPT ![r] = @ \cup {s}]
    /\ UNCHANGED <<ownerKey, phase, overdue>>

DropSession(r, s) ==
    /\ phase[r] = "running" /\ s \in clients[r]
    /\ clients' = [clients EXCEPT ![r] = @ \ {s}]
    /\ UNCHANGED <<ownerKey, phase, overdue>>

\* _refresh_runtime_ownership finds another token and run raises; any other
\* exception that leaves the loop ends it the same way.
LeaveLoop(r) ==
    /\ phase[r] = "running"
    /\ phase' = [phase EXCEPT ![r] = "stopping"]
    /\ UNCHANGED <<ownerKey, overdue, clients>>

\* _disconnect_all_clients, first in the finally of run.
DisconnectAll(r) ==
    /\ phase[r] = "stopping"
    /\ phase' = [phase EXCEPT ![r] = "stopped"]
    /\ clients' = [clients EXCEPT ![r] = {}]
    /\ UNCHANGED <<ownerKey, overdue>>

\* Faulty variant of ReleaseKey: the key goes before the clients do.
ReleaseKeyEarly(r) ==
    /\ phase[r] \in {"stopping", "stopped"}
    /\ ownerKey' = IF ownerKey = r THEN NoRuntime ELSE ownerKey
    /\ phase' = [phase EXCEPT ![r] = IF @ = "stopped" THEN "waiting" ELSE @]
    /\ UNCHANGED <<overdue, clients>>

\* _release_runtime_ownership: the key is deleted when it is still r's own.
\* The process ends and is started again.
ReleaseKey(r) ==
    /\ phase[r] = "stopped"
    /\ ownerKey' = IF ownerKey = r THEN NoRuntime ELSE ownerKey
    /\ phase' = [phase EXCEPT ![r] = "waiting"]
    /\ UNCHANGED <<overdue, clients>>

\* The process is killed: its clients go, its key stays until it expires.
KillRuntime(r) ==
    /\ phase[r] # "waiting"
    /\ phase' = [phase EXCEPT ![r] = "waiting"]
    /\ clients' = [clients EXCEPT ![r] = {}]
    /\ UNCHANGED <<ownerKey, overdue>>

OwnNext ==
    \/ KeyExpires
    \/ \E r \in Runtimes :
        \/ Claim(r) \/ LeaveLoop(r) \/ DisconnectAll(r) \/ ReleaseKey(r) \/ KillRuntime(r)
        \/ \E s \in Sessions : ConnectSession(r, s) \/ DropSession(r, s)

OwnSpec == OwnInit /\ [][OwnNext]_ownVars

-----------------------------------------------------------------------------
(***************************************************************************)
(* Two runtimes hold a client of the same Telegram session only when one   *)
(* of them kept running past the expiry of its ownership key: a runtime    *)
(* that stops, or is killed, has let go of its clients before another can  *)
(* claim the key.                                                          *)
(***************************************************************************)
SessionHeldOnce ==
    \A r, s \in Runtimes :
        r # s /\ clients[r] \cap clients[s] # {} => r \in overdue \/ s \in overdue

=============================================================================
