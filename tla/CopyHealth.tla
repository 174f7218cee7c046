----------------------------- MODULE CopyHealth -----------------------------
(***************************************************************************)
(* What the health and launch-readiness endpoints make of the workers'     *)
(* heartbeats, the Telegram connections and the intents under way          *)
(* (copy_trading/health.py, router.py).  The endpoints only read: their    *)
(* answers are operators over the state that workers and time change.      *)
(*                                                                         *)
(* Ages are counted in ticks and stop one past the largest limit.  Stream  *)
(* lag, the pending count and wording are left out; so is last_error,      *)
(* which no caller passes, so that every heartbeat says healthy.           *)
(***************************************************************************)
EXTENDS Integers, FiniteSets, FiniteSetsExt

CONSTANTS
    Roles,          \* REQUIRED_WORKER_ROLES
    Instances,      \* worker processes; a restarted one has a new id
    Links,          \* the Telegram connections behind a user's active routes
    Intents,        \* trade intents of the user
    StaleAfter,     \* stale_after_seconds
    MaxIntentAge,   \* COPY_TRADING_UNCERTAIN_MAX_AGE_SECONDS
    NoBeat          \* an instance that never reported

ASSUME CopyHealthAssumption ==
    /\ StaleAfter \in Nat /\ MaxIntentAge \in Nat /\ NoBeat \notin Int
    /\ "new" \notin Roles /\ "gone" \notin Roles

Oldest == StaleAfter + MaxIntentAge + 1

VARIABLES
    process,    \* for each instance its role while it runs, "new" or "gone"
    beat,       \* rows of copy_worker_health: role and age of the heartbeat
    unserved,   \* for each role, how long no process of it has run
    link,       \* states of the Telegram connections
    intent,     \* states of the intents and their ages since creation
    enabled, configured     \* the deployment: copy trading on, MetaApi set up

healthVars == <<process, beat, unserved, link, intent, enabled, configured>>

LinkStates == {"connected", "disconnected", "reauthentication_required"}

\* Each variable has its type.
HealthTypeOK ==
    /\ process \in [Instances -> Roles \cup {"new", "gone"}]
    /\ beat \in [Instances -> [role : Roles, age : 0..Oldest] \cup {NoBeat}]
    /\ unserved \in [Roles -> 0..Oldest]
    /\ link \in [Links -> LinkStates]
    /\ intent \in [Intents -> [state : {"active", "uncertain", "settled"}, age : 0..Oldest]]
    /\ enabled \in BOOLEAN /\ configured \in BOOLEAN

HealthInit ==
    /\ process = [i \in Instances |-> "new"]
    /\ beat = [i \in Instances |-> NoBeat]
    /\ unserved = [r \in Roles |-> Oldest]
    /\ link = [k \in Links |-> "disconnected"]
    /\ intent = [n \in Intents |-> [state |-> "settled", age |-> 0]]
    /\ enabled \in BOOLEAN /\ configured \in BOOLEAN

-----------------------------------------------------------------------------
(* What the endpoints answer.                                              *)

\* Faulty variant of LatestAge: the heartbeats of all roles count.
LatestAgeOfAny(r) == Min({Oldest} \cup {beat[i].age : i \in {j \in Instances : beat[j] # NoBeat}})

\* The age of the youngest heartbeat of a role.
LatestAge(r) ==
    Min({Oldest} \cup {beat[i].age : i \in {j \in Instances : beat[j] # NoBeat /\ beat[j].role = r}})

\* A role without a heartbeat is missing, one with an old heartbeat stale.
aggregate_health == \A r \in Roles : LatestAge(r) <= StaleAfter

add_metaapi_health(ready) == ready /\ (enabled => configured)

add_telegram_connection_health(ready) ==
    ready /\ \A k \in Links : link[k] \notin {"disconnected", "reauthentication_required"}

copy_system_health == add_telegram_connection_health(add_metaapi_health(aggregate_health))

\* max(ages or [0]) of the intents in a state.
OldestIntent(state) == Max({0} \cup {intent[n].age : n \in {m \in Intents : intent[m].state = state}})

\* No blocker: runtime_health, uncertain_intents or active_intents.
copy_launch_readiness ==
    /\ copy_system_health
    /\ OldestIntent("uncertain") <= MaxIntentAge
    /\ OldestIntent("active") <= MaxIntentAge

-----------------------------------------------------------------------------
Start(i, r) ==
    /\ process[i] = "new" /\ process' = [process EXCEPT ![i] = r]
    /\ unserved' = [unserved EXCEPT ![r] = 0]
    /\ UNCHANGED <<beat, link, intent, enabled, configured>>

record_worker_health(i) ==
    /\ process[i] \in Roles
    /\ beat' = [beat EXCEPT ![i] = [role |-> process[i], age |-> 0]]
    /\ UNCHANGED <<process, unserved, link, intent, enabled, configured>>

\* A process ends; its row stays.
ProcessEnds(i) ==
    /\ process[i] \in Roles /\ process' = [process EXCEPT ![i] = "gone"]
    /\ UNCHANGED <<beat, unserved, link, intent, enabled, configured>>

\* The session runtime notes that a connection is up, down or signed out.
LinkChanges(k, state) ==
    /\ link[k] # state /\ link' = [link EXCEPT ![k] = state]
    /\ UNCHANGED <<process, beat, unserved, intent, enabled, configured>>

\* An intent is created, its outcome becomes unknown, or it is settled.
IntentMoves(n) ==
    /\ intent' = [intent EXCEPT ![n] =
         CASE @.state = "settled" -> [state |-> "active", age |-> 0]
           [] @.state = "active" -> [@ EXCEPT !.state = "uncertain"]
           [] OTHER -> [state |-> "settled", age |-> 0]]
    /\ UNCHANGED <<process, beat, unserved, link, enabled, configured>>

Older(age) == IF age < Oldest THEN age + 1 ELSE Oldest

TimeGoesBy ==
    /\ beat' = [i \in Instances |->
                  IF beat[i] = NoBeat THEN NoBeat ELSE [beat[i] EXCEPT !.age = Older(@)]]
    /\ unserved' = [r \in Roles |->
                      IF \E i \in Instances : process[i] = r THEN 0 ELSE Older(unserved[r])]
    /\ intent' = [n \in Intents |->
                    IF intent[n].state = "settled" THEN intent[n]
                    ELSE [intent[n] EXCEPT !.age = Older(@)]]
    /\ UNCHANGED <<process, link, enabled, configured>>

HealthNext ==
    \/ \E i \in Instances :
         \/ \E r \in Roles : Start(i, r)
         \/ record_worker_health(i) \/ ProcessEnds(i)
    \/ \E k \in Links, state \in LinkStates : LinkChanges(k, state)
    \/ \E n \in Intents : IntentMoves(n)
    \/ TimeGoesBy

HealthSpec == HealthInit /\ [][HealthNext]_healthVars

-----------------------------------------------------------------------------
\* When the launch-readiness endpoint says ready, each role had a process of
\* its own within the last stale_after_seconds, no matter how many processes
\* of other roles report and how many rows of earlier ones are left over, and
\* no intent has been under way for longer than its limit.
ReadyMeansServed ==
    copy_launch_readiness =>
        /\ \A r \in Roles : unserved[r] <= StaleAfter
        /\ \A n \in Intents : intent[n].age <= MaxIntentAge
=============================================================================
