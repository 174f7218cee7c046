-------------------------- MODULE TelegramSessions --------------------------
(***************************************************************************)
(* Telegram connections: the API endpoints that start a sign-in or remove  *)
(* a connection (router.py), and the session runtime that owns the clients *)
(* (worker_runtime.py): sign-in commands, adoption of a session by an      *)
(* existing row, health checks and restore.                                *)
(*                                                                         *)
(* A sign-in creates a pending connection row and an attempt that share    *)
(* one id.  A step is one transaction, one Redis call or the code between  *)
(* two awaits of the runtime's loop.  Clients of unfinished sign-ins are   *)
(* left out: a missing one is rebuilt from the attempt's saved session.    *)
(***************************************************************************)
EXTENDS Naturals, Sequences, FiniteSets

CONSTANTS
    Conns,       \* ids of connection rows; a sign-in has its row's id
    Users,       \* users
    Identities,  \* Telegram accounts
    Nobody,      \* no row, user or Telegram account
    MaxAttempts, \* a command is tried so often (5 in the code)
    MaxCommands  \* bound: commands waiting in the stream

ASSUME SessionsAssumption ==
    /\ Nobody \notin Conns \cup Identities \cup Users
    /\ MaxAttempts \in Nat \ {0} /\ MaxCommands \in Nat

VARIABLES
    running,    \* the runtime's loop runs
    attached,   \* rows whose client has its handlers: the "connection:" keys
    scanning,   \* sign-ins with a _wait_qr task
    restoring,  \* the row whose client restore is connecting
    row,        \* state of each connection row
    owner,      \* user_id of each row
    identity,   \* telegram_user_id of each row
    attempt,    \* each sign-in attempt: public state and connection_id
    logins,     \* Telegram accounts each attempt's session may be signed in to
    removing,   \* rows whose DELETE request is between publish and commit
    commands    \* the telegram_commands stream

sessVars == <<running, attached, scanning, restoring,
              row, owner, identity, attempt, logins, removing, commands>>

runtimeVars == <<running, attached, scanning, restoring>>

RowStates == {"absent", "pending", "ready", "disconnected", "reauthentication_required"}

AuthStates == {"none", "starting", "code_required", "password_required", "qr_required",
               "ready", "failed"}

AuthAttempt == [state : AuthStates, conn : Conns \cup {Nobody}]

NoAttempt == [state |-> "none", conn |-> Nobody]

TelegramCommand ==
    [type : {"start", "qr", "code", "password", "disconnect"}, conn : Conns, try : 1..MaxAttempts]

SessTypeOK ==
    /\ running \in BOOLEAN
    /\ attached \subseteq Conns /\ scanning \subseteq Conns
    /\ restoring \in Conns \cup {Nobody}
    /\ owner \in [Conns -> Users \cup {Nobody}]
    /\ row \in [Conns -> RowStates]
    /\ identity \in [Conns -> Identities \cup {Nobody}]
    /\ attempt \in [Conns -> AuthAttempt]
    /\ logins \in [Conns -> SUBSET Identities]
    /\ removing \subseteq Conns
    /\ commands \in Seq(TelegramCommand)

SessInit ==
    /\ running = FALSE
    /\ attached = {} /\ scanning = {} /\ restoring = Nobody
    /\ owner = [c \in Conns |-> Nobody]
    /\ row = [c \in Conns |-> "absent"]
    /\ identity = [c \in Conns |-> Nobody]
    /\ attempt = [c \in Conns |-> NoAttempt]
    /\ logins = [c \in Conns |-> {}]
    /\ removing = {}
    /\ commands = <<>>

-----------------------------------------------------------------------------
(* The API.                                                                *)

\* _publish_command.
PublishCommand(type, c) ==
    /\ Len(commands) < MaxCommands
    /\ commands' = Append(commands, [type |-> type, conn |-> c, try |-> 1])

\* start_phone_auth and start_qr_auth: a pending row and its attempt, then the
\* command.
StartAuth(c, type, u) ==
    /\ type \in {"start", "qr"}
    /\ row[c] = "absent" /\ owner[c] = Nobody
    /\ row' = [row EXCEPT ![c] = "pending"]
    /\ owner' = [owner EXCEPT ![c] = u]
    /\ attempt' = [attempt EXCEPT ![c] = [state |-> "starting", conn |-> c]]
    /\ PublishCommand(type, c)
    /\ UNCHANGED <<runtimeVars, identity, logins, removing>>

\* submit_auth_code and submit_auth_password: accepted in every state of an
\* attempt that exists and has not expired.
SubmitSecret(c, type) ==
    /\ type \in {"code", "password"}
    /\ attempt[c] # NoAttempt
    /\ PublishCommand(type, c)
    /\ UNCHANGED <<runtimeVars, row, owner, identity, logins, attempt, removing>>

\* disconnect_telegram: the command is published first ...
RemoveConnection(c) ==
    /\ row[c] # "absent" /\ c \notin removing
    /\ removing' = removing \cup {c}
    /\ PublishCommand("disconnect", c)
    /\ UNCHANGED <<runtimeVars, row, owner, identity, logins, attempt>>

\* Attempts that refer to a deleted row go with it (ON DELETE CASCADE).
Cascade(c, att) == [a \in Conns |-> IF att[a].conn = c THEN NoAttempt ELSE att[a]]

\* ... and the row is deleted afterwards.
CommitRemoval(c) ==
    /\ c \in removing
    /\ removing' = removing \ {c}
    /\ row' = [row EXCEPT ![c] = "absent"]
    /\ attempt' = Cascade(c, attempt)
    /\ UNCHANGED <<runtimeVars, owner, identity, logins, commands>>

-----------------------------------------------------------------------------
(* The runtime process.  Its ownership key is the subject of               *)
(* TelegramOwnership.                                                      *)

StartLoop ==
    /\ ~running
    /\ running' = TRUE
    /\ UNCHANGED <<attached, scanning, restoring, row, owner, identity, logins, attempt, removing, commands>>

\* The process stops or is killed: its clients and _wait_qr tasks go with it.
Stop ==
    /\ running
    /\ running' = FALSE
    /\ attached' = {} /\ scanning' = {} /\ restoring' = Nobody
    /\ UNCHANGED <<row, owner, identity, logins, attempt, removing, commands>>

-----------------------------------------------------------------------------
(* Health and restore.                                                     *)

SetState(c, s) == [row EXCEPT ![c] = IF @ = "absent" THEN @ ELSE s]

\* The loop is free: it is not inside restore.
Free == running /\ restoring = Nobody

\* _validate_connection_health: an interrupted client is dropped.
DropClient(c, s) ==
    /\ Free /\ c \in attached
    /\ s \in {"disconnected", "reauthentication_required"}
    /\ attached' = attached \ {c}
    /\ row' = SetState(c, s)
    /\ UNCHANGED <<running, scanning, restoring, owner, identity, logins, attempt,
                   removing, commands>>

\* restore: a ready or disconnected row without a client is connected ...
Restore(c) ==
    /\ Free /\ row[c] \in {"ready", "disconnected"} /\ c \notin attached
    /\ restoring' = c
    /\ UNCHANGED <<running, attached, scanning, row, owner, identity, logins, attempt,
                   removing, commands>>

\* ... and attached, even when the row was deleted meanwhile; or marked.
Restored(s) ==
    /\ restoring # Nobody
    /\ s \in {"ready", "disconnected", "reauthentication_required"}
    /\ attached' = IF s = "ready" THEN attached \cup {restoring} ELSE attached
    /\ row' = SetState(restoring, s)
    /\ restoring' = Nobody
    /\ UNCHANGED <<running, scanning, owner, identity, logins, attempt, removing, commands>>

-----------------------------------------------------------------------------
(* Commands.                                                               *)

\* Faulty variant of FailAttempt: the connection goes whatever its state.
FailAttemptBluntly(a) ==
    LET c == attempt[a].conn IN
    /\ attempt' = [attempt EXCEPT ![a] = [state |-> "failed", conn |-> Nobody]]
    /\ row' = IF c = Nobody THEN row ELSE [row EXCEPT ![c] = "absent"]

\* _auth_update(state="failed"): the attempt's connection is deleted while
\* it is still pending.
FailAttempt(a) ==
    LET c == attempt[a].conn
        gone == c # Nobody /\ row[c] = "pending"
    IN  IF attempt[a] = NoAttempt THEN UNCHANGED <<attempt, row>>
        ELSE /\ attempt' = [attempt EXCEPT ![a] = [state |-> "failed",
                                                   conn |-> IF gone THEN Nobody ELSE c]]
             /\ row' = IF gone THEN [row EXCEPT ![c] = "absent"] ELSE row

\* _auth_update with another state.
MarkAttempt(a, s) ==
    attempt' = [attempt EXCEPT ![a] = IF @ = NoAttempt THEN @ ELSE [@ EXCEPT !.state = s]]

\* The attempt follows its session to the row that adopts it.
MovedTo(a, c) == [state |-> "ready", conn |-> c]

\* Faulty variant of Holders: only the user's own rows are looked at.
HoldersOfUser(a, i) ==
    {c \in Conns \ {a} : row[c] # "absent" /\ identity[c] = i /\ owner[c] = owner[a]}

\* The other rows that carry Telegram account i.
Holders(a, i) == {c \in Conns \ {a} : row[c] # "absent" /\ identity[c] = i}

(***************************************************************************)
(* _finalize: the Telegram account i of the signed-in client decides.  A   *)
(* row of the same user that already has it adopts the session and the     *)
(* throwaway row goes; a row of another user is a conflict; otherwise the  *)
(* sign-in's own row becomes ready.  The client is attached to the target. *)
(* (The unique constraint gives two processes the same outcomes.)          *)
(***************************************************************************)
Finalize(a, i) ==
    LET others == Holders(a, i)
        conflict == \E c \in others : owner[c] # owner[a]
        target == IF others = {} THEN a ELSE CHOOSE c \in others : TRUE
    IN  /\ i \in logins[a] /\ logins' = [logins EXCEPT ![a] = {i}]
        /\ \/ /\ row[a] = "absent"
              /\ UNCHANGED <<row, owner, identity, attempt, attached>>
           \/ /\ row[a] # "absent" /\ conflict
              /\ FailAttempt(a)
              /\ UNCHANGED <<identity, attached>>
           \/ /\ row[a] # "absent" /\ ~conflict
              /\ row' = [c \in Conns |-> IF c = target THEN "ready"
                                         ELSE IF c = a THEN "absent" ELSE row[c]]
              /\ identity' = [identity EXCEPT ![target] = i]
              /\ attempt' =
                   LET moved == [attempt EXCEPT ![a] = IF @ = NoAttempt THEN @ ELSE MovedTo(a, target)]
                   IN  IF target = a THEN moved ELSE Cascade(a, moved)
              /\ attached' = attached \cup {target}

Handled == commands' = Tail(commands)

\* auth.phone.start and auth.qr.start: a fresh client waits for the secret;
\* its session is saved with the attempt, and whose it will be is open.
HandleStart ==
    /\ Free /\ commands # <<>>
    /\ LET a == Head(commands).conn
           type == Head(commands).type
       IN  /\ type \in {"start", "qr"}
           /\ scanning' = IF type = "qr" THEN scanning \cup {a} ELSE scanning
           /\ MarkAttempt(a, IF type = "qr" THEN "qr_required" ELSE "code_required")
           /\ logins' = [logins EXCEPT ![a] = Identities]
    /\ Handled
    /\ UNCHANGED <<running, attached, restoring, row, owner, identity, removing>>

\* auth.phone.code and auth.phone.password succeed; without a client in this
\* process _restore_auth_client makes one from the attempt's session, and
\* raises when there is none.  A session that is signed in keeps its account.
HandleSecret(i) ==
    /\ Free /\ commands # <<>> /\ Head(commands).type \in {"code", "password"}
    /\ Finalize(Head(commands).conn, i)
    /\ Handled
    /\ UNCHANGED <<running, scanning, restoring, removing, owner>>

\* The code is right but the account has a two-step password.
HandlePasswordNeeded ==
    /\ Free /\ commands # <<>> /\ Head(commands).type = "code"
    /\ logins[Head(commands).conn] # {}
    /\ MarkAttempt(Head(commands).conn, "password_required")
    /\ Handled
    /\ UNCHANGED <<runtimeVars, row, owner, identity, logins, removing>>

MayRetry(k) == k.try < MaxAttempts

\* A command raises: it is published again, and the last time a sign-in fails.
HandleRaises ==
    /\ Free /\ commands # <<>> /\ Head(commands).type # "disconnect"
    /\ LET k == Head(commands) IN
        IF MayRetry(k)
        THEN commands' = Append(Tail(commands), [k EXCEPT !.try = @ + 1]) /\ UNCHANGED <<attempt, row>>
        ELSE Handled /\ FailAttempt(k.conn)
    /\ UNCHANGED <<runtimeVars, owner, identity, logins, removing>>

\* connection.disconnect.
HandleDisconnect ==
    /\ Free /\ commands # <<>> /\ Head(commands).type = "disconnect"
    /\ attached' = attached \ {Head(commands).conn}
    /\ Handled
    /\ UNCHANGED <<running, scanning, restoring, row, owner, identity, logins, attempt,
                   removing>>

\* _wait_qr, a task beside the loop: the code is scanned, needs a password,
\* or times out.
Scanned(a, i) ==
    /\ running /\ a \in scanning
    /\ scanning' = scanning \ {a}
    /\ Finalize(a, i)
    /\ UNCHANGED <<running, restoring, removing, commands, owner>>

ScanNeedsPassword(a) ==
    /\ running /\ a \in scanning
    /\ scanning' = scanning \ {a}
    /\ MarkAttempt(a, "password_required")
    /\ UNCHANGED <<running, attached, restoring, row, owner, identity, logins, removing,
                   commands>>

ScanFails(a) ==
    /\ running /\ a \in scanning
    /\ scanning' = scanning \ {a}
    /\ FailAttempt(a)
    /\ UNCHANGED <<running, attached, restoring, owner, identity, logins, removing, commands>>

-----------------------------------------------------------------------------
ApiStep ==
    \E c \in Conns : \/ \E type \in {"start", "qr"}, u \in Users : StartAuth(c, type, u)
                     \/ \E type \in {"code", "password"} : SubmitSecret(c, type)
                     \/ RemoveConnection(c) \/ CommitRemoval(c)

RuntimeStep ==
    \/ StartLoop \/ Stop
    \/ \E c \in Conns :
        \/ \E s \in RowStates : DropClient(c, s)
        \/ Restore(c)
        \/ \E i \in Identities : Scanned(c, i)
        \/ ScanNeedsPassword(c) \/ ScanFails(c)
    \/ \E s \in RowStates : Restored(s)
    \/ HandleStart \/ HandlePasswordNeeded \/ HandleRaises \/ HandleDisconnect
    \/ \E i \in Identities : HandleSecret(i)

SessNext == ApiStep \/ RuntimeStep

SessSpec == SessInit /\ [][SessNext]_sessVars

-----------------------------------------------------------------------------
\* A connection that has been signed in: sources and routes may refer to it.
Established(c) == row[c] \in {"ready", "disconnected", "reauthentication_required"}

(***************************************************************************)
(* However sign-ins of the same Telegram account end, fail or are retried, *)
(* a row that was signed in once is deleted only by its owner's request,   *)
(* and an attempt the browser polls disappears only with such a row.       *)
(***************************************************************************)
SignInsDestroyNothing ==
    [][\A c \in Conns :
        /\ Established(c) /\ row'[c] = "absent" => c \in removing
        /\ attempt[c] # NoAttempt /\ attempt'[c] = NoAttempt => attempt[c].conn \in removing]_sessVars

(***************************************************************************)
(* An attempt the browser sees as ready has a connection row that carries  *)
(* a Telegram account; no other row of the system carries the same one.    *)
(***************************************************************************)
ReadyAttemptHasAccount ==
    \A a \in Conns :
        attempt[a].state = "ready" =>
            LET c == attempt[a].conn IN
            /\ c # Nobody /\ row[c] # "absent" /\ identity[c] # Nobody
            /\ \A d \in Conns \ {c} : row[d] # "absent" => identity[d] # identity[c]

=============================================================================
