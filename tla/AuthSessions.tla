---------------------------- MODULE AuthSessions ----------------------------
(***************************************************************************)
(* Sign-in sessions of one account (domains/auth, domains/users and the    *)
(* administrator's part of domains/admin): access tokens that expire and   *)
(* refresh tokens that every refresh replaces.  Several clients of the     *)
(* account (tabs, the Next.js server) may hold copies of a refresh token   *)
(* and refresh at the same time; an answer may get lost.                   *)
(*                                                                         *)
(* A refresh is two steps, its queries and its commit, since another       *)
(* request may commit in between; the other requests are one step.  Time   *)
(* shows as tokens that expire and grace windows that end.  Requests that  *)
(* a check refuses change nothing and are left out.                        *)
(***************************************************************************)
EXTENDS Integers, FiniteSets, FiniteSetsExt

CONSTANTS
    Clients,
    MaxTokens,  \* bound on the rows of tokens
    NoToken     \* a client without refresh token

ASSUME AuthAssumption == MaxTokens \in Nat /\ NoToken \notin Nat

Tokens == 1..MaxTokens

VARIABLES
    user,    \* the row of users
    tokens,     \* rows of tokens, by their order of creation
    held,       \* the refresh token of each client
    refresh,    \* the refresh request of each client
    own         \* clients whose last refresh or sign-in succeeded and whose
                \* token nobody copied since

authVars == <<user, tokens, held, refresh, own>>

User == [state : {"none", "open", "deleted"}, verified : BOOLEAN, usable : BOOLEAN,
            google : BOOLEAN, suspended : BOOLEAN]

\* A token is revoked by the rotation of its client or by someone's wish;
\* recent: revoked at most grace_seconds ago.
Token == [type : {"refresh", "verify_email", "reset_password"},
          revoked : {"no", "rotation", "wish"}, recent : BOOLEAN, expired : BOOLEAN]

\* rotates is FALSE when the token was found revoked within the grace window.
Refresh == [at : {"idle"}] \cup [at : {"sent"}, token : Tokens]
           \cup [at : {"read"}, token : Tokens, rotates : BOOLEAN]
           \cup [at : {"answered"}, token : Tokens \cup {NoToken}]

Issued == DOMAIN tokens

\* Each variable has its type.
AuthTypeOK ==
    /\ user \in User
    /\ Issued \in {1..n : n \in 0..MaxTokens} /\ \A t \in Issued : tokens[t] \in Token
    /\ held \in [Clients -> Tokens \cup {NoToken}]
    /\ own \subseteq Clients
    /\ refresh \in [Clients -> Refresh]

AuthInit ==
    /\ user = [state |-> "none", verified |-> FALSE, usable |-> FALSE,
                  google |-> FALSE, suspended |-> FALSE]
    /\ tokens = [t \in {} |-> 0]
    /\ held = [c \in Clients |-> NoToken]
    /\ own = {}
    /\ refresh = [c \in Clients |-> [at |-> "idle"]]

-----------------------------------------------------------------------------
(* domains/auth/repository.py                                              *)

NewToken == Cardinality(Issued) + 1

\* create, on a table that already shows the revocations of the request.
create(table, type) ==
    [t \in DOMAIN table \cup {NewToken} |->
        IF t = NewToken
        THEN [type |-> type, revoked |-> "no", recent |-> FALSE, expired |-> FALSE]
        ELSE table[t]]

CanIssue == NewToken <= MaxTokens

get_active(type) ==
    {t \in Issued : tokens[t].type = type /\ tokens[t].revoked = "no" /\ ~tokens[t].expired}

revoke(t, why) == [tokens EXCEPT ![t].revoked = why, ![t].recent = TRUE]

revoke_all_by_user_and_type(type) ==
    [t \in Issued |-> IF tokens[t].type = type /\ tokens[t].revoked = "no"
                      THEN [tokens[t] EXCEPT !.revoked = "wish", !.recent = TRUE]
                      ELSE tokens[t]]

\* No condition on expires_at.
get_recently_revoked(type) == {t \in Issued : tokens[t].type = type /\ tokens[t].recent}

-----------------------------------------------------------------------------
(* Accounts.                                                               *)

Open == user.state = "open"

\* POST /auth/register, with its verification token.
register ==
    /\ user.state = "none" /\ CanIssue
    /\ user' = [user EXCEPT !.state = "open", !.usable = TRUE]
    /\ tokens' = create(tokens, "verify_email")
    /\ UNCHANGED <<held, refresh, own>>

\* The link is checked against the account first: a verified one is done.
verify_email(t) ==
    /\ Open /\ ~user.verified /\ t \in get_active("verify_email")
    /\ user' = [user EXCEPT !.verified = TRUE]
    /\ tokens' = revoke(t, "wish")
    /\ UNCHANGED <<held, refresh, own>>

resend_verification ==
    /\ Open /\ ~user.verified /\ CanIssue
    /\ tokens' = create(revoke_all_by_user_and_type("verify_email"), "verify_email")
    /\ UNCHANGED <<user, held, refresh, own>>

\* _issue_session: the client gets a refresh token of its own.
_issue_session(c) ==
    /\ CanIssue /\ tokens' = create(tokens, "refresh")
    /\ held' = [held EXCEPT ![c] = NewToken]
    /\ own' = own \cup {c}
    /\ UNCHANGED refresh

login(c) ==
    /\ Open /\ user.verified /\ ~user.suspended /\ refresh[c].at = "idle"
    /\ user.usable
    /\ _issue_session(c)
    /\ UNCHANGED user

\* A first Google sign-in creates the user, a later one verifies it.
google_auth(c) ==
    /\ user.state # "deleted" /\ refresh[c].at = "idle"
    /\ user' = IF Open THEN [user EXCEPT !.verified = TRUE]
                  ELSE [user EXCEPT !.state = "open", !.verified = TRUE, !.google = TRUE]
    /\ _issue_session(c)

forgot_password ==
    /\ Open /\ user.verified /\ CanIssue
    /\ tokens' = create(revoke_all_by_user_and_type("reset_password"), "reset_password")
    /\ UNCHANGED <<user, held, refresh, own>>

reset_password(t) ==
    /\ Open /\ t \in get_active("reset_password")
    /\ user' = [user EXCEPT !.usable = TRUE]
    /\ tokens' = [revoke_all_by_user_and_type("refresh") EXCEPT ![t] = revoke(t, "wish")[t]]
    /\ UNCHANGED <<held, refresh, own>>

-----------------------------------------------------------------------------
(* Requests with an access token (get_current_user).  An access token is   *)
(* issued with each refresh token and outlives many requests, so that one  *)
(* of them may be presented at any later time.                             *)

CurrentUser ==
    /\ Open /\ user.verified /\ ~user.suspended
    /\ \E t \in Issued : tokens[t].type = "refresh"

change_password ==
    /\ CurrentUser /\ user.usable
    /\ tokens' = revoke_all_by_user_and_type("refresh")
    /\ UNCHANGED <<user, held, refresh, own>>

set_password ==
    /\ CurrentUser /\ ~user.usable
    /\ user' = [user EXCEPT !.usable = TRUE]
    /\ UNCHANGED <<tokens, held, refresh, own>>

change_email ==
    /\ CurrentUser /\ ~user.google /\ user.usable /\ CanIssue
    /\ user' = [user EXCEPT !.verified = FALSE]
    /\ tokens' = create(revoke_all_by_user_and_type("refresh"), "verify_email")
    /\ UNCHANGED <<held, refresh, own>>

revoke_session(t) ==
    /\ CurrentUser /\ t \in get_active("refresh")
    /\ tokens' = revoke(t, "wish")
    /\ UNCHANGED <<user, held, refresh, own>>

delete_user_account(c) ==
    /\ CurrentUser
    /\ user' = [user EXCEPT !.state = "deleted"]
    /\ tokens' = revoke_all_by_user_and_type("refresh")
    /\ held' = [held EXCEPT ![c] = NoToken] /\ own' = own \ {c}
    /\ UNCHANGED refresh

suspend_user ==
    /\ Open
    /\ user' = [user EXCEPT !.suspended = TRUE]
    /\ tokens' = revoke_all_by_user_and_type("refresh")
    /\ UNCHANGED <<held, refresh, own>>

restore_user ==
    /\ Open
    /\ user' = [user EXCEPT !.suspended = FALSE]
    /\ UNCHANGED <<tokens, held, refresh, own>>

revoke_user_sessions ==
    /\ Open
    /\ tokens' = revoke_all_by_user_and_type("refresh")
    /\ UNCHANGED <<user, held, refresh, own>>

-----------------------------------------------------------------------------
(* Refresh and logout.                                                     *)

\* The request is under way: until an answer comes the client is unsure.
SendRefresh(c) ==
    /\ refresh[c].at = "idle" /\ held[c] # NoToken
    /\ refresh' = [refresh EXCEPT ![c] = [at |-> "sent", token |-> held[c]]]
    /\ own' = own \ {c}
    /\ UNCHANGED <<user, tokens, held>>

\* get_active, else get_recently_revoked, then the user.
ReadRefresh(c) ==
    LET t == refresh[c].token
        active == t \in get_active("refresh")
    IN  /\ refresh[c].at = "sent"
        /\ Open /\ (active \/ t \in get_recently_revoked("refresh"))
        /\ refresh' = [refresh EXCEPT ![c] = [at |-> "read", token |-> t, rotates |-> active]]
        /\ UNCHANGED <<user, tokens, held, own>>

\* 401: the token is neither active nor within its grace, or the user is gone.
RefuseRefresh(c) ==
    LET t == refresh[c].token
    IN  /\ refresh[c].at = "sent"
        /\ ~Open \/ t \notin get_active("refresh") \cup get_recently_revoked("refresh")
        /\ refresh' = [refresh EXCEPT ![c] = [at |-> "idle"]]
        /\ UNCHANGED <<user, tokens, held, own>>

\* Faulty variant: within the grace window the client only gets an access token.
_keep_refresh_cookie(c) ==
    IF refresh[c].rotates
    THEN /\ tokens' = create(revoke(refresh[c].token, "rotation"), "refresh")
         /\ refresh' = [refresh EXCEPT ![c] = [at |-> "answered", token |-> NewToken]]
    ELSE /\ tokens' = tokens
         /\ refresh' = [refresh EXCEPT ![c] = [at |-> "answered", token |-> NoToken]]

\* Every refresh hands out a token; the normal path revokes the one it replaces.
_rotate_refresh_cookie(c) ==
    /\ tokens' = create(IF refresh[c].rotates THEN revoke(refresh[c].token, "rotation")
                                              ELSE tokens, "refresh")
    /\ refresh' = [refresh EXCEPT ![c] = [at |-> "answered", token |-> NewToken]]

refresh_access_token(c) ==
    /\ refresh[c].at = "read" /\ CanIssue
    /\ _rotate_refresh_cookie(c)
    /\ UNCHANGED <<user, held, own>>

ReceiveRefresh(c) ==
    /\ refresh[c].at = "answered"
    /\ held' = [held EXCEPT ![c] = IF refresh[c].token = NoToken THEN @ ELSE refresh[c].token]
    /\ own' = own \cup {c}
    /\ refresh' = [refresh EXCEPT ![c] = [at |-> "idle"]]
    /\ UNCHANGED <<user, tokens>>

\* The request or its answer is lost, or the worker dies; the client may retry.
LoseRefresh(c) ==
    /\ refresh[c].at # "idle"
    /\ refresh' = [refresh EXCEPT ![c] = [at |-> "idle"]]
    /\ UNCHANGED <<user, tokens, held, own>>

logout(c) ==
    /\ held[c] # NoToken /\ refresh[c].at = "idle"
    /\ tokens' = IF held[c] \in get_active("refresh") THEN revoke(held[c], "wish") ELSE tokens
    /\ held' = [held EXCEPT ![c] = NoToken] /\ own' = own \ {c}
    /\ UNCHANGED <<user, refresh>>

\* One client takes over the session of another, as a new tab does.
CopySession(c, d) ==
    /\ c # d /\ held[c] # NoToken /\ held[d] # held[c] /\ refresh[d].at = "idle"
    /\ held' = [held EXCEPT ![d] = held[c]]
    /\ own' = own \ {c, d}
    /\ UNCHANGED <<user, tokens, refresh>>

-----------------------------------------------------------------------------
(* Time.                                                                   *)

\* The 30 seconds after a revocation are over.
GraceEnds(t) ==
    /\ tokens[t].recent /\ tokens' = [tokens EXCEPT ![t].recent = FALSE]
    /\ UNCHANGED <<user, held, refresh, own>>

\* Nothing looks at the expiry of a revoked token.
TokenExpires(t) ==
    /\ ~tokens[t].expired /\ tokens[t].revoked = "no"
    /\ tokens' = [tokens EXCEPT ![t].expired = TRUE]
    /\ UNCHANGED <<user, held, refresh, own>>

AuthNext ==
    \/ register \/ resend_verification \/ forgot_password
    \/ change_password \/ set_password \/ change_email
    \/ suspend_user \/ restore_user \/ revoke_user_sessions
    \/ \E t \in Issued : \/ verify_email(t) \/ reset_password(t) \/ revoke_session(t)
                         \/ GraceEnds(t) \/ TokenExpires(t)
    \/ \E c \in Clients :
         \/ login(c) \/ google_auth(c) \/ logout(c) \/ delete_user_account(c)
         \/ SendRefresh(c) \/ ReadRefresh(c) \/ RefuseRefresh(c) \/ refresh_access_token(c)
         \/ ReceiveRefresh(c) \/ LoseRefresh(c)
         \/ \E d \in Clients : CopySession(c, d)

AuthSpec == AuthInit /\ [][AuthNext]_authVars

-----------------------------------------------------------------------------
\* A successful refresh always hands the client a live refresh token: however
\* clients with copies of a token race for its rotation, lose answers and try
\* again, the token a client took from its last answer is not one that a
\* rotation used up, so only expiry or someone's wish ends the session.
RefreshedTokenIsLive ==
    \A c \in own : held[c] # NoToken /\ tokens[held[c]].revoked # "rotation"
=============================================================================
