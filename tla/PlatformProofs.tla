--------------------------- MODULE PlatformProofs ---------------------------
(***************************************************************************)
(* Proofs about the platform around copy trading: authentication sessions, *)
(* billing with its webhooks, affiliates and the synchronization of broker *)
(* accounts, for any number of clients, requests, subscriptions, workers   *)
(* and accounts.                                                           *)
(***************************************************************************)
EXTENDS AuthSessions, Billing, AccountSync, FiniteSetTheorems, Extrema, TLAPS

-----------------------------------------------------------------------------
(***************************************************************************)
(* Authentication: a client never keeps a refresh token that its or        *)
(* another client's rotation has used up. The argument is about who may    *)
(* name a token: the one a client took from its last answer is in nobody   *)
(* else's cookie and in no request under way, so no rotation can reach it; *)
(* the one in an answer is not yet in any.                                 *)
(***************************************************************************)
\* Cookies and requests name rows that exist.
NamesIssued ==
    /\ \A c \in Clients : held[c] # NoToken => held[c] \in Issued
    /\ \A c \in Clients : refresh[c].at # "idle" => refresh[c].token \in Issued

\* A client in own alone names its token, which no rotation used up.
OwnIsSole ==
    \A c \in own :
        /\ held[c] # NoToken /\ tokens[held[c]].revoked # "rotation"
        /\ refresh[c].at = "idle"
        /\ \A d \in Clients \ {c} :
             /\ held[d] # held[c]
             /\ refresh[d].at # "idle" => refresh[d].token # held[c]

\* The token of an answer is in no cookie and in no other request.
AnswerIsFresh ==
    \A c \in Clients : refresh[c].at = "answered" =>
        /\ tokens[refresh[c].token].revoked # "rotation"
        /\ \A d \in Clients : held[d] # refresh[c].token
        /\ \A d \in Clients \ {c} : refresh[d].at # "idle" => refresh[d].token # refresh[c].token

AuthIInv == AuthTypeOK /\ NamesIssued /\ OwnIsSole /\ AnswerIsFresh

\* A table with the rows of tokens, in which no further one was rotated.
Benign(table) ==
    /\ DOMAIN table = Issued
    /\ \A t \in Issued : /\ table[t] \in Token
                         /\ table[t].revoked = "rotation" => tokens[t].revoked = "rotation"

-----------------------------------------------------------------------------
(* The table of tokens.                                                    *)

LEMMA NewTokenIsNew ==
  ASSUME AuthTypeOK
  PROVE  /\ NewToken \in Nat \ {0} /\ NewToken \notin Issued /\ NewToken # NoToken
         /\ Issued = 1..(NewToken - 1) /\ Issued \cup {NewToken} = 1..NewToken
<1>1. PICK n \in 0..MaxTokens : Issued = 1..n
  BY DEF AuthTypeOK
<1>2. n \in Nat
  BY <1>1, AuthAssumption
<1>3. Cardinality(Issued) = n
  BY <1>1, <1>2, FS_Interval
<1> QED
  BY <1>1, <1>2, <1>3, AuthAssumption DEF NewToken

\* What is issued is a token.
LEMMA IssuedAreTokens ==
  ASSUME AuthTypeOK
  PROVE  Issued \subseteq Tokens /\ NoToken \notin Issued
  BY AuthAssumption DEF AuthTypeOK, Tokens

\* _create_refresh_token adds one row and no more.
LEMMA CreateAddsOne ==
  ASSUME AuthTypeOK, CanIssue, NEW table, DOMAIN table = Issued, \A t \in Issued : table[t] \in Token,
         NEW type \in {"refresh", "verify_email", "reset_password"}
  PROVE  /\ DOMAIN create(table, type) = Issued \cup {NewToken}
         /\ DOMAIN create(table, type) \in {1..n : n \in 0..MaxTokens}
         /\ \A t \in DOMAIN create(table, type) : create(table, type)[t] \in Token
         /\ \A t \in Issued : create(table, type)[t] = table[t]
         /\ create(table, type)[NewToken].revoked = "no"
         /\ NewToken \in Tokens
<1>1. DOMAIN create(table, type) = Issued \cup {NewToken}
  BY DEF create
<1>2. NewToken \in 0..MaxTokens /\ NewToken \in Tokens
  BY NewTokenIsNew, AuthAssumption DEF CanIssue, Tokens
<1>3. Issued \cup {NewToken} \in {1..n : n \in 0..MaxTokens}
  BY <1>2, NewTokenIsNew
<1>4. ASSUME NEW t \in Issued PROVE create(table, type)[t] = table[t]
  BY NewTokenIsNew DEF create
<1>5. create(table, type)[NewToken] =
        [type |-> type, revoked |-> "no", recent |-> FALSE, expired |-> FALSE]
  BY DEF create
<1>6. create(table, type)[NewToken] \in Token
  BY <1>5 DEF Token
<1>7. create(table, type)[NewToken].revoked = "no"
  BY <1>5
<1>8. \A t \in Issued \cup {NewToken} : create(table, type)[t] \in Token
  BY <1>4, <1>6
<1> QED
  BY <1>1, <1>2, <1>3, <1>4, <1>7, <1>8

\* Leaving the table alone is benign.
LEMMA BenignSame == ASSUME AuthTypeOK PROVE Benign(tokens)
  BY DEF Benign, AuthTypeOK, Issued

\* Revoking one token is benign.
LEMMA BenignRevoke ==
  ASSUME AuthTypeOK, NEW t \in Issued
  PROVE  Benign(revoke(t, "wish"))
  BY DEF Benign, AuthTypeOK, revoke, Issued, Token

\* Revoking all tokens of a type is benign.
LEMMA BenignRevokeAll ==
  ASSUME AuthTypeOK, NEW type
  PROVE  Benign(revoke_all_by_user_and_type(type))
  BY DEF Benign, AuthTypeOK, revoke_all_by_user_and_type, Token

-----------------------------------------------------------------------------
(* Steps that leave cookies and requests alone.                            *)

LEMMA OthersKeepIInv ==
  ASSUME AuthIInv, UNCHANGED <<held, refresh, own>>, user' \in User,
         DOMAIN tokens' \in {1..n : n \in 0..MaxTokens}, Issued \subseteq DOMAIN tokens',
         \A t \in DOMAIN tokens' : tokens'[t] \in Token,
         \A t \in Issued : tokens'[t].revoked = "rotation" => tokens[t].revoked = "rotation"
  PROVE  AuthIInv'
<1>1. AuthTypeOK'
  BY DEF AuthIInv, AuthTypeOK, Issued
<1>2. NamesIssued'
  BY DEF AuthIInv, NamesIssued, Issued
<1>3. OwnIsSole'
  BY DEF AuthIInv, AuthTypeOK, NamesIssued, OwnIsSole
<1>4. AnswerIsFresh'
  BY DEF AuthIInv, NamesIssued, AnswerIsFresh
<1> QED
  BY <1>1, <1>2, <1>3, <1>4 DEF AuthIInv

\* A step that only changes the table benignly keeps the invariant.
LEMMA TableKeepsIInv ==
  ASSUME AuthIInv, UNCHANGED <<held, refresh, own>>, user' \in User, Benign(tokens')
  PROVE  AuthIInv'
<1>1. DOMAIN tokens' = Issued /\ DOMAIN tokens' \in {1..n : n \in 0..MaxTokens}
  BY DEF Benign, AuthIInv, AuthTypeOK
<1> QED
  BY <1>1, OthersKeepIInv DEF Benign

\* So does one that also creates a token, which nobody names yet.
LEMMA CreateKeepsIInv ==
  ASSUME AuthIInv, UNCHANGED <<held, refresh, own>>, user' \in User, CanIssue,
         NEW table, Benign(table), NEW type \in {"refresh", "verify_email", "reset_password"},
         tokens' = create(table, type)
  PROVE  AuthIInv'
<1>1. /\ DOMAIN tokens' = Issued \cup {NewToken}
      /\ DOMAIN tokens' \in {1..n : n \in 0..MaxTokens}
      /\ \A t \in DOMAIN tokens' : tokens'[t] \in Token
      /\ \A t \in Issued : tokens'[t] = table[t]
  BY CreateAddsOne DEF AuthIInv, Benign
<1> QED
  BY <1>1, OthersKeepIInv DEF Benign

\* The requests that name neither a client nor a token: registration, mails,
\* passwords, the address and what an administrator does.
LEMMA RequestsKeepIInv ==
  ASSUME AuthIInv,
         \/ register \/ resend_verification \/ forgot_password
         \/ change_password \/ set_password \/ change_email
         \/ suspend_user \/ restore_user \/ revoke_user_sessions
  PROVE  AuthIInv'
<1>0. AuthTypeOK /\ user \in User
  BY DEF AuthIInv, AuthTypeOK
<1>1. CASE register
  BY <1>0, <1>1, BenignSame, CreateKeepsIInv DEF register, User
<1>2. CASE resend_verification
  BY <1>0, <1>2, BenignRevokeAll, CreateKeepsIInv DEF resend_verification
<1>3. CASE forgot_password
  BY <1>0, <1>3, BenignRevokeAll, CreateKeepsIInv DEF forgot_password
<1>4. CASE change_password
  BY <1>0, <1>4, BenignRevokeAll, TableKeepsIInv DEF change_password
<1>5. CASE set_password
  BY <1>0, <1>5, BenignSame, TableKeepsIInv DEF set_password, User
<1>6. CASE change_email
  BY <1>0, <1>6, BenignRevokeAll, CreateKeepsIInv DEF change_email, User
<1>7. CASE suspend_user
  BY <1>0, <1>7, BenignRevokeAll, TableKeepsIInv DEF suspend_user, User
<1>8. CASE restore_user
  BY <1>0, <1>8, BenignSame, TableKeepsIInv DEF restore_user, User
<1>9. CASE revoke_user_sessions
  BY <1>0, <1>9, BenignRevokeAll, TableKeepsIInv DEF revoke_user_sessions
<1> QED
  BY <1>1, <1>2, <1>3, <1>4, <1>5, <1>6, <1>7, <1>8, <1>9

\* The links of mails, the end of one session and the time of a token.
LEMMA TokenStepsKeepIInv ==
  ASSUME AuthIInv, NEW t \in Issued,
         \/ verify_email(t) \/ reset_password(t) \/ revoke_session(t)
         \/ GraceEnds(t) \/ TokenExpires(t)
  PROVE  AuthIInv'
<1>0. AuthTypeOK /\ user \in User
  BY DEF AuthIInv, AuthTypeOK
<1>1. CASE verify_email(t)
  BY <1>0, <1>1, BenignRevoke, TableKeepsIInv DEF verify_email, User
<1>2. CASE reset_password(t)
  <2>1. Benign(revoke_all_by_user_and_type("refresh")) /\ Benign(revoke(t, "wish"))
    BY <1>0, BenignRevokeAll, BenignRevoke
  <2>2. Benign(tokens')
    BY <1>2, <2>1 DEF reset_password, Benign
  <2> QED
    BY <1>0, <1>2, <2>2, TableKeepsIInv DEF reset_password, User
<1>3. CASE revoke_session(t)
  BY <1>0, <1>3, BenignRevoke, TableKeepsIInv DEF revoke_session
<1>4. CASE GraceEnds(t)
  <2>1. Benign(tokens')
    BY <1>0, <1>4 DEF GraceEnds, Benign, AuthTypeOK, Token, Issued
  <2> QED
    BY <1>0, <1>4, <2>1, TableKeepsIInv DEF GraceEnds
<1>5. CASE TokenExpires(t)
  <2>1. Benign(tokens')
    BY <1>0, <1>5 DEF TokenExpires, Benign, AuthTypeOK, Token, Issued
  <2> QED
    BY <1>0, <1>5, <2>1, TableKeepsIInv DEF TokenExpires
<1> QED
  BY <1>1, <1>2, <1>3, <1>4, <1>5

-----------------------------------------------------------------------------
(* Steps of a client.                                                      *)

LEMMA SignInKeepsIInv ==
  ASSUME AuthIInv, NEW c \in Clients, user' \in User, refresh[c].at = "idle", _issue_session(c)
  PROVE  AuthIInv'
<1> USE DEF AuthIInv
<1>0. AuthTypeOK /\ Benign(tokens)
  BY BenignSame
<1>1. /\ DOMAIN tokens' = Issued \cup {NewToken}
      /\ DOMAIN tokens' \in {1..n : n \in 0..MaxTokens}
      /\ \A t \in DOMAIN tokens' : tokens'[t] \in Token
      /\ \A t \in Issued : tokens'[t] = tokens[t]
      /\ tokens'[NewToken].revoked = "no" /\ NewToken \in Tokens
  BY <1>0, CreateAddsOne DEF _issue_session, Benign
<1>2. NewToken \notin Issued /\ NewToken # NoToken
  BY NewTokenIsNew
<1>3. held' = [held EXCEPT ![c] = NewToken] /\ own' = own \cup {c} /\ refresh' = refresh
  BY DEF _issue_session
<1>4. held \in [Clients -> Tokens \cup {NoToken}] /\ own \subseteq Clients
  BY DEF AuthTypeOK
<1>5. AuthTypeOK'
  BY <1>1, <1>3 DEF AuthTypeOK, Issued
<1>6. NamesIssued'
  BY <1>1, <1>3, <1>4 DEF NamesIssued, Issued
<1>7. OwnIsSole'
  BY <1>1, <1>2, <1>3, <1>4 DEF OwnIsSole, NamesIssued
<1>8. AnswerIsFresh'
  BY <1>1, <1>2, <1>3, <1>4 DEF AnswerIsFresh, NamesIssued
<1> QED
  BY <1>5, <1>6, <1>7, <1>8

\* A client gives its session up; what it held may be revoked.
LEMMA SignOutKeepsIInv ==
  ASSUME AuthIInv, NEW c \in Clients, user' \in User, Benign(tokens'),
         held' = [held EXCEPT ![c] = NoToken], own' = own \ {c}, refresh' = refresh
  PROVE  AuthIInv'
<1> USE DEF AuthIInv
<1>1. DOMAIN tokens' = Issued /\ NoToken \notin Issued
  BY IssuedAreTokens DEF Benign
<1>2. held \in [Clients -> Tokens \cup {NoToken}] /\ own \subseteq Clients
  BY DEF AuthTypeOK
<1>3. AuthTypeOK'
  BY <1>1, <1>2 DEF AuthTypeOK, Issued, Benign
<1>4. NamesIssued'
  BY <1>1, <1>2 DEF NamesIssued, Issued
<1>5. OwnIsSole'
  BY <1>1, <1>2 DEF OwnIsSole, NamesIssued, Benign
<1>6. AnswerIsFresh'
  BY <1>1, <1>2 DEF AnswerIsFresh, NamesIssued, Benign
<1> QED
  BY <1>3, <1>4, <1>5, <1>6

\* A copied cookie is nobody's own.
LEMMA CopyKeepsIInv ==
  ASSUME AuthIInv, NEW c \in Clients, NEW d \in Clients, CopySession(c, d)
  PROVE  AuthIInv'
<1> USE DEF AuthIInv
<1>1. held \in [Clients -> Tokens \cup {NoToken}] /\ own \subseteq Clients
  BY DEF AuthTypeOK
<1>2. AuthTypeOK'
  BY <1>1 DEF AuthTypeOK, Issued, CopySession
<1>3. NamesIssued'
  BY <1>1 DEF NamesIssued, Issued, CopySession
<1>4. OwnIsSole'
  BY <1>1 DEF OwnIsSole, CopySession
<1>5. AnswerIsFresh'
  BY <1>1 DEF AnswerIsFresh, CopySession
<1> QED
  BY <1>2, <1>3, <1>4, <1>5

\* A request is sent, read, refused or lost: it names no token but the one in
\* its client's cookie, and that client is not in own.
LEMMA RequestMovesKeepIInv ==
  ASSUME AuthIInv, NEW c \in Clients,
         SendRefresh(c) \/ ReadRefresh(c) \/ RefuseRefresh(c) \/ LoseRefresh(c)
  PROVE  AuthIInv'
<1> USE DEF AuthIInv
<1>1. /\ held \in [Clients -> Tokens \cup {NoToken}] /\ own \subseteq Clients
      /\ refresh \in [Clients -> Refresh] /\ Issued \subseteq Tokens
  BY IssuedAreTokens DEF AuthTypeOK
<1>2. CASE SendRefresh(c)
  <2>0. refresh' = [refresh EXCEPT ![c] = [at |-> "sent", token |-> held[c]]] /\ held[c] \in Issued
    BY <1>2 DEF SendRefresh, NamesIssued
  <2>1. AuthTypeOK'
    <3>1. [at |-> "sent", token |-> held[c]] \in Refresh
      BY <2>0, <1>1 DEF Refresh
    <3> QED
      BY <1>1, <1>2, <2>0, <3>1 DEF AuthTypeOK, SendRefresh, Issued
  <2>2. NamesIssued'
    BY <1>1, <1>2, <2>0 DEF NamesIssued, SendRefresh, Issued
  <2>3. OwnIsSole'
    BY <1>1, <1>2, <2>0 DEF OwnIsSole, SendRefresh
  <2>4. AnswerIsFresh'
    BY <1>1, <1>2, <2>0 DEF AnswerIsFresh, SendRefresh
  <2> QED
    BY <2>1, <2>2, <2>3, <2>4
<1>3. CASE ReadRefresh(c)
  <2> DEFINE rotates == refresh[c].token \in get_active("refresh")
  <2>0. /\ refresh[c].at = "sent" /\ refresh[c].token \in Issued
        /\ UNCHANGED <<user, tokens, held, own>>
    BY <1>3 DEF ReadRefresh, NamesIssued
  <2>a. refresh' = [refresh EXCEPT ![c] =
                     [at |-> "read", token |-> refresh[c].token, rotates |-> rotates]]
    BY <1>3, Zenon DEF ReadRefresh
  <2>b. rotates \in BOOLEAN
    BY SMT
  <2> HIDE DEF rotates
  <2>1. AuthTypeOK'
    <3>1. [at |-> "read", token |-> refresh[c].token, rotates |-> rotates] \in Refresh
      BY <2>0, <2>b, <1>1 DEF Refresh
    <3> QED
      BY <1>1, <2>0, <2>a, <3>1 DEF AuthTypeOK, Issued
  <2>2. NamesIssued'
    BY <1>1, <2>0, <2>a DEF NamesIssued, Issued
  <2>3. OwnIsSole'
    BY <1>1, <2>0, <2>a DEF OwnIsSole
  <2>4. AnswerIsFresh'
    BY <1>1, <2>0, <2>a DEF AnswerIsFresh
  <2> QED
    BY <2>1, <2>2, <2>3, <2>4
<1>4. CASE RefuseRefresh(c) \/ LoseRefresh(c)
  <2>0. refresh' = [refresh EXCEPT ![c] = [at |-> "idle"]] /\ UNCHANGED <<user, tokens, held, own>>
    BY <1>4 DEF RefuseRefresh, LoseRefresh
  <2>1. AuthTypeOK'
    <3>1. [at |-> "idle"] \in Refresh
      BY DEF Refresh
    <3> QED
      BY <1>1, <2>0, <3>1 DEF AuthTypeOK, Issued
  <2>2. NamesIssued'
    BY <1>1, <2>0 DEF NamesIssued, Issued
  <2>3. OwnIsSole'
    BY <1>1, <2>0 DEF OwnIsSole
  <2>4. AnswerIsFresh'
    BY <1>1, <2>0 DEF AnswerIsFresh
  <2> QED
    BY <2>1, <2>2, <2>3, <2>4
<1> QED
  BY <1>2, <1>3, <1>4

\* A rotation uses up a token that only its own client and others outside own
\* name, and hands out one that nobody names.
LEMMA RotationKeepsIInv ==
  ASSUME AuthIInv, NEW c \in Clients, refresh_access_token(c)
  PROVE  AuthIInv'
<1> USE DEF AuthIInv
<1> DEFINE t == refresh[c].token
           table == IF refresh[c].rotates THEN revoke(t, "rotation") ELSE tokens
<1>1. /\ held \in [Clients -> Tokens \cup {NoToken}] /\ own \subseteq Clients
      /\ refresh \in [Clients -> Refresh]
  BY DEF AuthTypeOK
<1>2. refresh[c].at = "read" /\ t \in Issued /\ CanIssue /\ UNCHANGED <<user, held, own>>
  BY DEF refresh_access_token, NamesIssued
<1>3. /\ DOMAIN table = Issued /\ \A u \in Issued : table[u] \in Token
      /\ \A u \in Issued \ {t} : table[u] = tokens[u]
  BY <1>2 DEF AuthTypeOK, revoke, Issued, Token
<1>4. /\ tokens' = create(table, "refresh")
      /\ refresh' = [refresh EXCEPT ![c] = [at |-> "answered", token |-> NewToken]]
  BY DEF refresh_access_token, _rotate_refresh_cookie
<1> HIDE DEF table
<1>5. /\ DOMAIN tokens' = Issued \cup {NewToken}
      /\ DOMAIN tokens' \in {1..n : n \in 0..MaxTokens}
      /\ \A u \in DOMAIN tokens' : tokens'[u] \in Token
      /\ \A u \in Issued \ {t} : tokens'[u] = tokens[u]
      /\ tokens'[NewToken].revoked = "no" /\ NewToken \in Tokens
  <2>1. /\ DOMAIN create(table, "refresh") = Issued \cup {NewToken}
        /\ DOMAIN create(table, "refresh") \in {1..n : n \in 0..MaxTokens}
        /\ \A u \in DOMAIN create(table, "refresh") : create(table, "refresh")[u] \in Token
        /\ \A u \in Issued : create(table, "refresh")[u] = table[u]
        /\ create(table, "refresh")[NewToken].revoked = "no"
        /\ NewToken \in Tokens
    BY <1>2, <1>3, CreateAddsOne
  <2> QED
    BY <1>3, <1>4, <2>1
<1>6. NewToken \notin Issued /\ NewToken # NoToken
  BY NewTokenIsNew
<1>7. AuthTypeOK'
  <2>1. [at |-> "answered", token |-> NewToken] \in Refresh
    BY <1>5 DEF Refresh
  <2> QED
    BY <1>1, <1>2, <1>4, <1>5, <2>1 DEF AuthTypeOK, Issued
<1>8. NamesIssued'
  BY <1>1, <1>2, <1>4, <1>5 DEF NamesIssued, Issued
<1>9. OwnIsSole'
  <2>1. \A e \in own : e # c /\ held[e] \in Issued \ {t}
    BY <1>1, <1>2 DEF OwnIsSole, NamesIssued
  <2> QED
    BY <1>1, <1>2, <1>4, <1>5, <1>6, <2>1 DEF OwnIsSole
<1>10. AnswerIsFresh'
  <2>1. \A e \in Clients : refresh[e].at = "answered" => e # c /\ refresh[e].token \in Issued \ {t}
    BY <1>1, <1>2 DEF AnswerIsFresh, NamesIssued
  <2> QED
    BY <1>1, <1>2, <1>4, <1>5, <1>6, <2>1 DEF AnswerIsFresh, NamesIssued
<1> QED
  BY <1>7, <1>8, <1>9, <1>10

\* A client that takes an answer makes its token its own.
LEMMA ReceiveKeepsIInv ==
  ASSUME AuthIInv, NEW c \in Clients, ReceiveRefresh(c)
  PROVE  AuthIInv'
<1> USE DEF AuthIInv
<1>1. /\ held \in [Clients -> Tokens \cup {NoToken}] /\ own \subseteq Clients
      /\ refresh \in [Clients -> Refresh] /\ Issued \subseteq Tokens /\ NoToken \notin Issued
  BY IssuedAreTokens DEF AuthTypeOK
<1>2. /\ refresh[c].at = "answered" /\ refresh[c].token \in Issued
      /\ held' = [held EXCEPT ![c] = refresh[c].token]
      /\ own' = own \cup {c}
      /\ refresh' = [refresh EXCEPT ![c] = [at |-> "idle"]]
      /\ UNCHANGED <<user, tokens>>
  BY <1>1 DEF ReceiveRefresh, NamesIssued
<1>3. AuthTypeOK'
  <2>1. [at |-> "idle"] \in Refresh
    BY DEF Refresh
  <2> QED
    BY <1>1, <1>2, <2>1 DEF AuthTypeOK, Issued
<1>4. NamesIssued'
  BY <1>1, <1>2 DEF NamesIssued, Issued
<1>5. OwnIsSole'
  BY <1>1, <1>2 DEF OwnIsSole, AnswerIsFresh
<1>6. AnswerIsFresh'
  BY <1>1, <1>2 DEF AnswerIsFresh
<1> QED
  BY <1>3, <1>4, <1>5, <1>6

\* Every step of a client.
LEMMA ClientStepsKeepIInv ==
  ASSUME AuthIInv, NEW c \in Clients,
         \/ login(c) \/ google_auth(c) \/ logout(c) \/ delete_user_account(c)
         \/ SendRefresh(c) \/ ReadRefresh(c) \/ RefuseRefresh(c) \/ refresh_access_token(c)
         \/ ReceiveRefresh(c) \/ LoseRefresh(c)
         \/ \E d \in Clients : CopySession(c, d)
  PROVE  AuthIInv'
<1>0. AuthTypeOK /\ user \in User
  BY DEF AuthIInv, AuthTypeOK
<1>1. CASE login(c)
  BY <1>0, <1>1, SignInKeepsIInv DEF login
<1>2. CASE google_auth(c)
  BY <1>0, <1>2, SignInKeepsIInv DEF google_auth, User
<1>3. CASE logout(c)
  <2>1. Benign(tokens')
    BY <1>0, <1>3, BenignSame, BenignRevoke DEF logout, get_active
  <2> QED
    BY <1>0, <1>3, <2>1, SignOutKeepsIInv DEF logout
<1>4. CASE delete_user_account(c)
  BY <1>0, <1>4, BenignRevokeAll, SignOutKeepsIInv DEF delete_user_account, User
<1>5. CASE SendRefresh(c) \/ ReadRefresh(c) \/ RefuseRefresh(c) \/ LoseRefresh(c)
  BY <1>5, RequestMovesKeepIInv
<1>6. CASE refresh_access_token(c)
  BY <1>6, RotationKeepsIInv
<1>7. CASE ReceiveRefresh(c)
  BY <1>7, ReceiveKeepsIInv
<1>8. CASE \E d \in Clients : CopySession(c, d)
  BY <1>8, CopyKeepsIInv
<1> QED
  BY <1>1, <1>2, <1>3, <1>4, <1>5, <1>6, <1>7, <1>8

-----------------------------------------------------------------------------
\* No token exists at first.
LEMMA AuthInitIInv == AuthInit => AuthIInv
<1> SUFFICES ASSUME AuthInit PROVE AuthIInv
  OBVIOUS
<1>1. DOMAIN tokens = {} /\ {} = 1..0 /\ 0 \in 0..MaxTokens
  BY AuthAssumption DEF AuthInit
<1>2. Issued \in {1..n : n \in 0..MaxTokens}
  BY <1>1 DEF Issued
<1>3. AuthTypeOK
  BY <1>1, <1>2 DEF AuthInit, AuthTypeOK, User, Refresh, Issued
<1> QED
  BY <1>3 DEF AuthInit, AuthIInv, NamesIssued, OwnIsSole, AnswerIsFresh

\* Every step of the sessions keeps AuthIInv.
LEMMA AuthNextIInv == AuthIInv /\ [AuthNext]_authVars => AuthIInv'
<1> SUFFICES ASSUME AuthIInv, [AuthNext]_authVars PROVE AuthIInv'
  OBVIOUS
<1>1. CASE UNCHANGED authVars
  BY <1>1 DEF authVars, AuthIInv, AuthTypeOK, NamesIssued, OwnIsSole, AnswerIsFresh, Issued
<1>2. CASE AuthNext
  BY <1>2, RequestsKeepIInv, TokenStepsKeepIInv, ClientStepsKeepIInv DEF AuthNext
<1> QED
  BY <1>1, <1>2

\* AuthIInv implies the property.
LEMMA OwnIsLive == AuthIInv => RefreshedTokenIsLive
  BY DEF AuthIInv, OwnIsSole, RefreshedTokenIsLive

\* Each variable of the sign-in sessions keeps its type.
THEOREM AuthTypeCorrect == AuthSpec => []AuthTypeOK
<1>1. AuthIInv => AuthTypeOK
  BY DEF AuthIInv
<1> QED
  BY <1>1, AuthInitIInv, AuthNextIInv, PTL DEF AuthSpec

\* However many clients share, rotate, lose and retry refresh tokens, a client
\* that took its token from its last answer holds one that no rotation used up:
\* the grace window of refresh_access_token never leaves it with a dead cookie.
THEOREM RefreshedTokenIsLiveHolds == AuthSpec => []RefreshedTokenIsLive
  BY AuthInitIInv, AuthNextIInv, OwnIsLive, PTL DEF AuthSpec

-----------------------------------------------------------------------------
(***************************************************************************)
(* Billing: a subscription that runs keeps the row of its user, a grace    *)
(* period is not prolonged, and no row, payload, answer or reading of the  *)
(* row says of a subscription more than the provider sold.                 *)
(***************************************************************************)
RowFields == {"pid", "product", "status", "periodEnd", "cancelAtEnd", "graceEnd",
              "pending", "pendingAt"}

\* A row has its columns.
HasColumns(s) == s # NoRow => DOMAIN s = RowFields

\* What a request read is a row, which stays, and the provider answers for the
\* subscription the request named.
RequestsAgree ==
    \A r \in Tabs :
        /\ tab[r].at \in {"changing", "canceling", "changed", "canceled"} =>
             DOMAIN tab[r].seen = RowFields /\ sub # NoRow
        /\ tab[r].at \in {"changed", "canceled"} => tab[r].answer.pid = tab[r].seen.pid

\* So is what a webhook read, if there was a row.
HooksAgree ==
    /\ DOMAIN hook = Hooks
    /\ \A h \in Hooks : hook[h] # Idle /\ hook[h].seen # NoRow =>
                           DOMAIN hook[h].seen = RowFields /\ sub # NoRow

\* A grace period that started since a webhook read the row started today.
NoGrace(s) == s = NoRow \/ s.graceEnd = NoTime

GraceIsYoung ==
    \A h \in Hooks : hook[h] # Idle /\ NoGrace(hook[h].seen) =>
                       NoGrace(sub) \/ sub.graceEnd = now + GraceLength

BillIInv == DOMAIN tab = Tabs /\ HasColumns(sub) /\ RequestsAgree /\ HooksAgree /\ GraceIsYoung

billingVars == <<billVars, affVars, now>>

\* What the two action properties ask of a step.
KeepsRow == Runs(sub) => \/ sub'.pid = sub.pid
                         \/ \E h \in Hooks : hook[h] # Idle /\ hook'[h] = Idle /\ ~Runs(hook[h].seen)

GraceKept ==
    (sub # NoRow /\ sub.graceEnd # NoTime /\ UNCHANGED tab) =>
         \/ sub'.graceEnd = sub.graceEnd
         \/ sub'.graceEnd = NoTime /\ (sub'.status = "active" \/ CommitsStale)

-----------------------------------------------------------------------------
\* A payload gives a row all its columns.
LEMMA PayloadHasColumns ==
  ASSUME NEW s, NEW snap, NEW deleted
  PROVE  /\ DOMAIN apply_subscription_payload(s, snap, deleted) = RowFields
         /\ apply_subscription_payload(s, snap, deleted).pid = snap.pid
         /\ apply_subscription_payload(s, snap, deleted).periodEnd = snap.periodEnd
         /\ apply_subscription_payload(s, snap, deleted).graceEnd =
              Grace(s, apply_subscription_payload(s, snap, deleted).status)
  BY DEF apply_subscription_payload, RowFields

\* A row with its columns is one.
LEMMA RowHasFields == NoRow.status = "none" /\ DOMAIN NoRow # RowFields
  BY DEF NoRow, RowFields

\* What a commit writes is, column by column, the new value or the row's.
LEMMA WrittenHasColumns ==
  ASSUME NEW seen, NEW new, DOMAIN new = RowFields
  PROVE  /\ DOMAIN Written(seen, new) = RowFields
         /\ \A f \in RowFields :
              Written(seen, new)[f] = IF new[f] # seen[f] THEN new[f] ELSE sub[f]
         /\ Written(seen, new).pid = IF new.pid # seen.pid THEN new.pid ELSE sub.pid
         /\ Written(seen, new).status = IF new.status # seen.status THEN new.status ELSE sub.status
         /\ Written(seen, new).periodEnd =
              IF new.periodEnd # seen.periodEnd THEN new.periodEnd ELSE sub.periodEnd
         /\ Written(seen, new).graceEnd =
              IF new.graceEnd # seen.graceEnd THEN new.graceEnd ELSE sub.graceEnd
<1>1. DOMAIN Written(seen, new) = RowFields
  BY DEF Written
<1>2. \A f \in RowFields : Written(seen, new)[f] = IF new[f] # seen[f] THEN new[f] ELSE sub[f]
  BY DEF Written
<1>3. {"pid", "status", "periodEnd", "graceEnd"} \subseteq RowFields
  BY DEF RowFields
<1> QED
  BY <1>1, <1>2, <1>3

\* An event leaves a row's columns, changes its subscription only when the
\* row's own does not run, and a grace period unless the row becomes active.
LEMMA EventKeepsRow ==
  ASSUME NEW s, NEW e, HasColumns(s), RowAfter(s, e) # s
  PROVE  /\ DOMAIN RowAfter(s, e) = RowFields
         /\ Runs(s) => RowAfter(s, e).pid = s.pid
         /\ NoGrace(s) => RowAfter(s, e).graceEnd \in {NoTime, now + GraceLength}
         /\ ~NoGrace(s) => \/ RowAfter(s, e).graceEnd = s.graceEnd
                           \/ RowAfter(s, e).graceEnd = NoTime /\ RowAfter(s, e).status = "active"
<1> DEFINE new == RowAfter(s, e)
<1>1. CASE e.kind \in SubscriptionKinds
  <2> DEFINE from == IF s = NoRow THEN BlankRow(e.snap) ELSE s
             d == e.kind = "deleted"
  <2>0. new = SubscriptionEvent(s, e)
    BY <1>1 DEF RowAfter, SubscriptionKinds
  <2>1. /\ Linked(s, e) \/ MayTakeOver(s)
        /\ new = apply_subscription_payload(from, e.snap, d)
    BY <2>0, Zenon DEF SubscriptionEvent
  <2>2. /\ DOMAIN new = RowFields /\ new.pid = e.snap.pid
        /\ new.graceEnd = Grace(from, new.status)
    BY <2>1, PayloadHasColumns
  <2>3. Runs(s) => new.pid = s.pid
    BY <2>1, <2>2 DEF Linked, MayTakeOver, Runs
  <2>4. NoGrace(s) => from.graceEnd = NoTime
    BY DEF NoGrace, BlankRow
  <2>5. ~NoGrace(s) => from = s /\ from.graceEnd # NoTime
    BY DEF NoGrace
  <2> HIDE DEF new, from
  <2>6. /\ NoGrace(s) => new.graceEnd \in {NoTime, now + GraceLength}
        /\ ~NoGrace(s) => \/ new.graceEnd = s.graceEnd
                          \/ new.graceEnd = NoTime /\ new.status = "active"
    BY <2>2, <2>4, <2>5 DEF Grace
  <2> QED
    BY <2>2, <2>3, <2>6 DEF new
<1>2. CASE e.kind = "failed"
  <2>1. /\ s # NoRow
        /\ new = [s EXCEPT !.status = "past_due", !.graceEnd = Grace(s, "past_due")]
    BY <1>2 DEF RowAfter, PaymentFailed, Linked, SubscriptionKinds
  <2>2. DOMAIN new = RowFields /\ new.pid = s.pid /\ new.graceEnd = Grace(s, "past_due")
    BY <2>1 DEF HasColumns, RowFields
  <2> QED
    BY <2>1, <2>2 DEF Grace, NoGrace
<1>3. CASE e.kind = "paid"
  <2>1. s # NoRow /\ new = [s EXCEPT !.status = "active", !.graceEnd = NoTime]
    BY <1>3 DEF RowAfter, InvoicePaid, Earns, Linked, SubscriptionKinds
  <2>2. DOMAIN new = RowFields /\ new.pid = s.pid /\ new.graceEnd = NoTime /\ new.status = "active"
    BY <2>1 DEF HasColumns, RowFields
  <2> QED
    BY <2>1, <2>2
<1> QED
  BY <1>1, <1>2, <1>3 DEF RowAfter

-----------------------------------------------------------------------------
(* Every step, as far as the row, the requests and the webhooks go.        *)

LEMMA ProviderSteps ==
  ASSUME NEW s \in ProviderSubs,
         \/ \E p \in Products : CheckoutPaid(s, p)
         \/ Renews(s) \/ RenewalFails(s) \/ SubscriptionEnds(s)
  PROVE  UNCHANGED <<sub, tab, hook, now>>
  BY DEF CheckoutPaid, Renews, RenewalFails, SubscriptionEnds

\* A request that moves leaves the others as they are.
LEMMA TabMoves ==
  ASSUME BillIInv, NEW r \in Tabs, NEW t, Moves(r, t)
  PROVE  /\ DOMAIN tab' = Tabs /\ tab'[r] = t
         /\ \A q \in Tabs \ {r} : tab'[q] = tab[q]
  BY DEF BillIInv, Moves

\* So does a webhook.
LEMMA HookGoes ==
  ASSUME BillIInv, NEW h \in Hooks, NEW x, HookMoves(h, x)
  PROVE  /\ DOMAIN hook' = Hooks /\ hook'[h] = x
         /\ \A g \in Hooks \ {h} : hook'[g] = hook[g]
  BY DEF BillIInv, HooksAgree, HookMoves

\* The steps of requests before their last commit.
LEMMA RequestSteps ==
  ASSUME BillIInv, NEW r \in Tabs,
         \/ \E p \in Products : AcquireCheckout(r, p) \/ StartChange(r, p)
         \/ CreateCheckout(r) \/ StartCancel(r) \/ change_plan(r) \/ cancel_at_period_end(r)
         \/ ProviderRefuses(r)
  PROVE  BillIInv' /\ sub' = sub
<1>0. UNCHANGED <<sub, hook, now>>
  BY DEF AcquireCheckout, StartChange, CreateCheckout, StartCancel, change_plan,
     cancel_at_period_end, ProviderRefuses, Answers
<1>a. HasColumns(sub)' /\ HooksAgree' /\ GraceIsYoung'
  BY <1>0 DEF BillIInv, HasColumns, HooksAgree, GraceIsYoung, NoGrace
<1>1. ASSUME NEW p \in Products, AcquireCheckout(r, p) PROVE BillIInv'
  <2>1. Moves(r, [at |-> "creating", target |-> p])
    BY <1>1 DEF AcquireCheckout
  <2> QED
    BY <2>1, <1>0, <1>a, TabMoves DEF BillIInv, RequestsAgree
<1>2. ASSUME NEW at \in {"changing", "canceling"}, NEW target, sub # NoRow,
             Moves(r, [at |-> at, target |-> target, seen |-> sub])
      PROVE  BillIInv'
  <2> DEFINE t == [at |-> at, target |-> target, seen |-> sub]
  <2>1. t.at = at /\ t.seen = sub /\ Moves(r, t)
    BY <1>2
  <2>2. t.at \notin {"changed", "canceled"} /\ DOMAIN t.seen = RowFields
    BY <2>1, <1>2 DEF BillIInv, HasColumns
  <2> HIDE DEF t
  <2> QED
    BY <2>1, <2>2, <1>0, <1>2, <1>a, TabMoves DEF BillIInv, RequestsAgree
<1>3. ASSUME NEW p \in Products, StartChange(r, p) PROVE BillIInv'
  BY <1>2, <1>3 DEF StartChange, NeedsCheckout
<1>4. CASE StartCancel(r)
  BY <1>2, <1>4 DEF StartCancel
<1>5. ASSUME Moves(r, Idle) PROVE BillIInv'
  BY <1>5, <1>0, <1>a, TabMoves DEF BillIInv, RequestsAgree, Idle
<1>6. CASE CreateCheckout(r) \/ ProviderRefuses(r)
  BY <1>5, <1>6 DEF CreateCheckout, ProviderRefuses
<1>7. ASSUME NEW new, NEW end, NEW at \in {"changed", "canceled"},
             tab[r].at \in {"changing", "canceling"}, Moves(r, Answer(r, at, new, end))
      PROVE  BillIInv'
  <2>1. /\ Answer(r, at, new, end).seen = tab[r].seen
        /\ Answer(r, at, new, end).answer.pid = tab[r].seen.pid
        /\ DOMAIN tab[r].seen = RowFields
    BY <1>7 DEF Answer, Snap, BillIInv, RequestsAgree
  <2> QED
    BY <1>7, <1>0, <1>a, <2>1, TabMoves DEF BillIInv, RequestsAgree
<1>8. CASE change_plan(r)
  BY <1>5, <1>7, <1>8 DEF change_plan, Answers
<1>9. CASE cancel_at_period_end(r)
  BY <1>5, <1>7, <1>9 DEF cancel_at_period_end, Answers
<1> QED
  BY <1>0, <1>1, <1>3, <1>4, <1>6, <1>8, <1>9

\* What a request writes after its wait is a row of the subscription it read.
LEMMA RequestWrites ==
  ASSUME NEW r \in Tabs, start_checkout_or_change_plan(r) \/ cancel_subscription(r),
         DOMAIN tab[r].seen = RowFields, tab[r].answer.pid = tab[r].seen.pid
  PROVE  \E new : /\ sub' = Written(tab[r].seen, new)
                  /\ DOMAIN new = RowFields /\ new.pid = tab[r].seen.pid
                  /\ new.graceEnd \in {tab[r].seen.graceEnd, NoTime, now + GraceLength}
                  /\ new.periodEnd \in {tab[r].seen.periodEnd, tab[r].answer.periodEnd}
<1> DEFINE seen == tab[r].seen
           answer == tab[r].answer
<1>1. CASE start_checkout_or_change_plan(r)
  <2> DEFINE up == apply_subscription_payload(tab[r].seen, tab[r].answer, FALSE)
             down == [tab[r].seen EXCEPT !.pending = tab[r].target,
                                         !.pendingAt = tab[r].seen.periodEnd]
  <2>1. sub' = Written(tab[r].seen, up) \/ sub' = Written(tab[r].seen, down)
    BY <1>1 DEF start_checkout_or_change_plan
  <2>2. /\ DOMAIN up = RowFields /\ up.pid = answer.pid /\ up.periodEnd = answer.periodEnd
        /\ up.graceEnd = Grace(seen, up.status)
    BY DEF apply_subscription_payload, RowFields
  <2>3. up.graceEnd \in {seen.graceEnd, NoTime, now + GraceLength}
    BY <2>2 DEF Grace
  <2>4. /\ DOMAIN down = RowFields /\ down.pid = seen.pid /\ down.periodEnd = seen.periodEnd
        /\ down.graceEnd = seen.graceEnd
    BY DEF RowFields
  <2> HIDE DEF up, down
  <2> QED
    BY <2>1, <2>2, <2>3, <2>4
<1>2. CASE cancel_subscription(r)
  <2> DEFINE end == tab[r].answer.periodEnd
             new == [tab[r].seen EXCEPT !.cancelAtEnd = TRUE,
                                        !.periodEnd = IF end = NoTime THEN @ ELSE end]
  <2>1. sub' = Written(tab[r].seen, new)
    BY <1>2 DEF cancel_subscription
  <2>2. /\ DOMAIN new = RowFields /\ new.pid = seen.pid /\ new.graceEnd = seen.graceEnd
        /\ new.periodEnd \in {seen.periodEnd, answer.periodEnd}
    BY DEF RowFields
  <2> HIDE DEF new
  <2> QED
    BY <2>1, <2>2
<1> QED
  BY <1>1, <1>2

\* It names the subscription of the row, and the request is over.
LEMMA WriteSteps ==
  ASSUME BillIInv, NEW r \in Tabs, start_checkout_or_change_plan(r) \/ cancel_subscription(r)
  PROVE  BillIInv' /\ tab' # tab /\ sub'.pid = sub.pid
<1>1. /\ tab[r].at \in {"changed", "canceled"} /\ Moves(r, Idle) /\ UNCHANGED <<hook, now>>
      /\ DOMAIN tab[r].seen = RowFields /\ tab[r].answer.pid = tab[r].seen.pid
  BY DEF start_checkout_or_change_plan, cancel_subscription, BillIInv, RequestsAgree
<1>2. PICK new : /\ sub' = Written(tab[r].seen, new)
                 /\ DOMAIN new = RowFields /\ new.pid = tab[r].seen.pid
                 /\ new.graceEnd \in {tab[r].seen.graceEnd, NoTime, now + GraceLength}
  BY <1>1, RequestWrites
<1>3. /\ DOMAIN sub' = RowFields /\ sub'.pid = sub.pid
      /\ sub'.graceEnd \in {sub.graceEnd, NoTime, now + GraceLength}
  BY <1>2, WrittenHasColumns
<1>4. DOMAIN tab' = Tabs /\ tab'[r] = Idle /\ \A q \in Tabs \ {r} : tab'[q] = tab[q]
  BY <1>1, TabMoves
<1>5. tab' # tab
  BY <1>1, <1>4 DEF Idle
<1>6. sub # NoRow /\ sub' # NoRow
  BY <1>1, <1>3, RowHasFields DEF BillIInv, RequestsAgree
<1>7. GraceIsYoung'
  BY <1>1, <1>3, <1>6 DEF BillIInv, GraceIsYoung, NoGrace
<1>8. RequestsAgree'
  BY <1>4, <1>6 DEF BillIInv, RequestsAgree, Idle
<1>9. HooksAgree' /\ HasColumns(sub)'
  BY <1>1, <1>3, <1>6 DEF BillIInv, HooksAgree, HasColumns
<1> QED
  BY <1>3, <1>4, <1>5, <1>7, <1>8, <1>9 DEF BillIInv

\* A webhook reads the row.
LEMMA WebhookReads ==
  ASSUME BillIInv, NEW h \in Hooks, NEW e, process_webhook_event(h, e)
  PROVE  BillIInv' /\ sub' = sub
<1> DEFINE x == [at |-> "read", event |-> e, seen |-> sub]
<1>1. HookMoves(h, x) /\ UNCHANGED <<sub, tab, now>>
  BY DEF process_webhook_event
<1>2. DOMAIN hook' = Hooks /\ hook'[h] = x /\ \A g \in Hooks \ {h} : hook'[g] = hook[g]
  BY <1>1, HookGoes
<1>3. x.seen = sub
  OBVIOUS
<1> HIDE DEF x
<1>4. HooksAgree'
  BY <1>1, <1>2, <1>3 DEF BillIInv, HooksAgree, HasColumns
<1>5. GraceIsYoung'
  BY <1>1, <1>2, <1>3 DEF BillIInv, GraceIsYoung, NoGrace
<1> QED
  BY <1>1, <1>4, <1>5 DEF BillIInv, HasColumns, RequestsAgree

\* A webhook is rolled back.
LEMMA WebhookRollsBack ==
  ASSUME BillIInv, NEW h \in Hooks, roll_back_webhook_event(h)
  PROVE  BillIInv' /\ sub' = sub
<1>1. HookMoves(h, Idle) /\ UNCHANGED <<sub, tab, now>>
  BY DEF roll_back_webhook_event
<1>2. DOMAIN hook' = Hooks /\ hook'[h] = Idle /\ \A g \in Hooks \ {h} : hook'[g] = hook[g]
  BY <1>1, HookGoes
<1> QED
  BY <1>1, <1>2 DEF BillIInv, HasColumns, RequestsAgree, HooksAgree, GraceIsYoung, NoGrace


\* A webhook commits: a row it inserts, or the columns of the row it read that
\* its event changed.
LEMMA WebhookCommits ==
  ASSUME BillIInv, NEW h \in Hooks, commit_webhook_event(h)
  PROVE  BillIInv' /\ KeepsRow /\ GraceKept
<1> DEFINE seen == hook[h].seen
           e == hook[h].event
           new == RowAfter(seen, e)
<1>1. hook[h] # Idle /\ HookMoves(h, Idle) /\ UNCHANGED <<tab, now>>
  BY DEF commit_webhook_event
<1>2. DOMAIN hook' = Hooks /\ hook'[h] = Idle /\ \A g \in Hooks \ {h} : hook'[g] = hook[g]
  BY <1>1, HookGoes
<1>3. HasColumns(seen)
  BY <1>1 DEF BillIInv, HooksAgree, HasColumns
<1>4. ASSUME HasColumns(sub)', sub # NoRow => sub' # NoRow,
             sub' # NoRow => \/ sub # NoRow /\ sub'.graceEnd = sub.graceEnd
                             \/ sub'.graceEnd \in {NoTime, now + GraceLength}
      PROVE  BillIInv'
  <2>1. GraceIsYoung'
    BY <1>1, <1>2, <1>4 DEF BillIInv, GraceIsYoung, NoGrace
  <2>2. RequestsAgree' /\ HooksAgree'
    BY <1>1, <1>2, <1>4 DEF BillIInv, RequestsAgree, HooksAgree
  <2> QED
    BY <1>1, <1>4, <2>1, <2>2 DEF BillIInv
<1>5. CASE sub' = sub
  <2>1. BillIInv'
    BY <1>4, <1>5 DEF BillIInv, HasColumns
  <2> QED
    BY <1>5, <2>1 DEF KeepsRow, GraceKept
<1>6. CASE seen = NoRow /\ sub' # sub
  <2>1. new # seen /\ sub = NoRow /\ sub' = new
    BY <1>6 DEF commit_webhook_event
  <2>2. DOMAIN new = RowFields /\ new.graceEnd \in {NoTime, now + GraceLength}
    BY <1>3, <1>6, <2>1, EventKeepsRow DEF NoGrace
  <2>3. BillIInv'
    BY <1>4, <2>1, <2>2 DEF HasColumns
  <2> QED
    BY <2>1, <2>3 DEF KeepsRow, GraceKept, Runs
<1>7. CASE seen # NoRow
  <2>1. sub' = Written(seen, new) /\ sub # NoRow
    BY <1>1, <1>7 DEF commit_webhook_event, BillIInv, HooksAgree
  <2>2. /\ DOMAIN new = RowFields
        /\ Runs(seen) => new.pid = seen.pid
        /\ NoGrace(seen) => new.graceEnd \in {NoTime, now + GraceLength}
        /\ ~NoGrace(seen) => \/ new.graceEnd = seen.graceEnd
                             \/ new.graceEnd = NoTime /\ new.status = "active"
    <3>1. CASE new = seen
      BY <1>3, <1>7, <3>1 DEF HasColumns, NoGrace
    <3>2. CASE new # seen
      BY <1>3, <3>2, EventKeepsRow
    <3> QED
      BY <3>1, <3>2
  <2> HIDE DEF new
  <2>3. /\ DOMAIN sub' = RowFields
        /\ sub'.pid = IF new.pid # seen.pid THEN new.pid ELSE sub.pid
        /\ sub'.status = IF new.status # seen.status THEN new.status ELSE sub.status
        /\ sub'.graceEnd = IF new.graceEnd # seen.graceEnd THEN new.graceEnd ELSE sub.graceEnd
    BY <2>1, <2>2, WrittenHasColumns
  <2>4. sub' # NoRow
    BY <2>3, RowHasFields
  <2>5. sub'.graceEnd \in {sub.graceEnd, NoTime, now + GraceLength}
    BY <2>2, <2>3
  <2>6. BillIInv'
    BY <1>4, <2>1, <2>3, <2>4, <2>5 DEF HasColumns
  <2>7. KeepsRow
    BY <1>1, <1>2, <2>2, <2>3 DEF KeepsRow
  <2>8. CASE NoGrace(seen) /\ sub.graceEnd # NoTime
    <3>1. sub.graceEnd = now + GraceLength
      BY <1>1, <2>1, <2>8 DEF BillIInv, GraceIsYoung, NoGrace
    <3>2. new.graceEnd # seen.graceEnd => new.graceEnd = now + GraceLength
      BY <1>7, <2>2, <2>8 DEF NoGrace
    <3> QED
      BY <2>3, <2>6, <2>7, <3>1, <3>2 DEF GraceKept
  <2>9. CASE ~NoGrace(seen) /\ sub'.graceEnd # sub.graceEnd
    <3>1. new.graceEnd = NoTime /\ new.status = "active" /\ sub'.graceEnd = NoTime
      BY <2>2, <2>3, <2>9
    <3>2. CASE seen = sub
      BY <2>3, <2>6, <2>7, <3>1, <3>2 DEF GraceKept
    <3>3. CASE seen # sub
      BY <1>1, <1>2, <2>6, <2>7, <3>1, <3>3 DEF GraceKept, CommitsStale
    <3> QED
      BY <3>2, <3>3
  <2>10. CASE sub.graceEnd = NoTime \/ sub'.graceEnd = sub.graceEnd
    BY <2>6, <2>7, <2>10 DEF GraceKept
  <2> QED
    BY <2>8, <2>9, <2>10
<1> QED
  BY <1>5, <1>6, <1>7

\* Every step of billing keeps BillIInv and does what both action properties
\* ask.
LEMMA BillEveryStep ==
  ASSUME BillIInv, [BillingNext]_billingVars
  PROVE  BillIInv' /\ KeepsRow /\ GraceKept
<1> DEFINE Goal == BillIInv' /\ KeepsRow /\ GraceKept
<1>0. ASSUME sub' = sub PROVE KeepsRow /\ GraceKept
  BY <1>0 DEF KeepsRow, GraceKept
<1>1. ASSUME UNCHANGED <<sub, tab, hook, now>> PROVE Goal
  BY <1>0, <1>1 DEF BillIInv, HasColumns, RequestsAgree, HooksAgree, GraceIsYoung, NoGrace
<1>2. ASSUME NEW s \in ProviderSubs,
             \/ \E p \in Products : CheckoutPaid(s, p)
             \/ Renews(s) \/ RenewalFails(s) \/ SubscriptionEnds(s)
      PROVE  Goal
  BY <1>1, <1>2, ProviderSteps
<1>3. ASSUME NEW h \in Hooks,
             \/ \E e \in events : process_webhook_event(h, e)
             \/ commit_webhook_event(h) \/ roll_back_webhook_event(h)
      PROVE  Goal
  BY <1>0, <1>3, WebhookReads, WebhookCommits, WebhookRollsBack
<1>4. ASSUME NEW i \in Invoices, NEW amount \in Amounts \cup {NoAmount}, Refunded(i, amount)
      PROVE  Goal
  BY <1>1, <1>4 DEF Refunded
<1>5. ASSUME NEW r \in Tabs,
             \/ \E p \in Products : AcquireCheckout(r, p) \/ StartChange(r, p)
             \/ CreateCheckout(r) \/ StartCancel(r) \/ change_plan(r) \/ cancel_at_period_end(r)
             \/ ProviderRefuses(r)
      PROVE  Goal
  BY <1>0, <1>5, RequestSteps
<1>6. ASSUME NEW r \in Tabs, start_checkout_or_change_plan(r) \/ cancel_subscription(r) PROVE Goal
  BY <1>6, WriteSteps DEF KeepsRow, GraceKept
<1>7. ASSUME Tick PROVE Goal
  <2>1. UNCHANGED <<sub, tab, hook>> /\ \A h \in Hooks : hook[h] = Idle
    BY <1>7 DEF Tick
  <2> QED
    BY <1>0, <2>1 DEF BillIInv, HasColumns, RequestsAgree, HooksAgree, GraceIsYoung
<1>8. ASSUME UNCHANGED <<billVars, now>> \/ UNCHANGED billingVars PROVE Goal
  BY <1>1, <1>8 DEF billingVars, billVars
<1> HIDE DEF Goal
<1>9. ASSUME BillStep PROVE Goal
  BY <1>9, <1>2, <1>3, <1>4, <1>5, <1>6, <1>7 DEF BillStep
<1>10. Goal
  BY <1>8, <1>9 DEF BillingNext
<1> QED
  BY <1>10 DEF Goal

\* Billing starts without a row.
LEMMA BillInitIInv == BillingInit => BillIInv
<1> SUFFICES ASSUME BillingInit PROVE BillIInv
  OBVIOUS
<1>1. /\ sub = NoRow /\ tab = [r \in Tabs |-> Idle] /\ hook = [h \in Hooks |-> Idle]
  BY DEF BillingInit, BillInit, BillInitWith
<1>2. Idle.at = "idle"
  BY DEF Idle
<1> QED
  BY <1>1, <1>2 DEF BillIInv, HasColumns, RequestsAgree, HooksAgree, GraceIsYoung

\* While a user's subscription is active or past due, an event of another one
\* takes its row over only if its webhook read the row before this one ran in
\* it, in another process's transaction; and no plan change or cancellation
\* that waited for the provider writes another subscription into it.
THEOREM RunningKeepsRowHolds == BillingSpec => RunningKeepsRow
<1>1. BillIInv /\ [BillingNext]_billingVars => BillIInv'
  BY BillEveryStep
<1>2. BillIInv /\ [BillingNext]_billingVars =>
        [Runs(sub) => \/ sub'.pid = sub.pid
                      \/ \E h \in Hooks : hook[h] # Idle /\ hook'[h] = Idle /\ ~Runs(hook[h].seen)]_billingVars
  BY BillEveryStep DEF KeepsRow
<1> QED
  BY <1>1, <1>2, BillInitIInv, PTL DEF BillingSpec, RunningKeepsRow, billingVars

\* A grace period that runs is not prolonged by further reports of failed
\* payments, late, repeated or overlapping: the row loses it only by becoming
\* active or to a webhook that had read an older row.
THEOREM GraceStandsHolds == BillingSpec => GraceStands
<1>1. BillIInv /\ [BillingNext]_billingVars => BillIInv'
  BY BillEveryStep
<1>2. BillIInv /\ [BillingNext]_billingVars =>
        [(sub # NoRow /\ sub.graceEnd # NoTime /\ UNCHANGED tab) =>
           \/ sub'.graceEnd = sub.graceEnd
           \/ sub'.graceEnd = NoTime /\ (sub'.status = "active" \/ CommitsStale)]_billingVars
  BY BillEveryStep DEF GraceKept
<1> QED
  BY <1>1, <1>2, BillInitIInv, PTL DEF BillingSpec, GraceStands, billingVars

\* A period's end that the provider has sold; none at all is as good.
SoldPeriod(t) == t \in Int /\ t <= paidUntil

\* What a row, a reading of it or a payload says of a subscription.
SaysSold(s) == s.pid \in ProviderSubs /\ SoldPeriod(s.periodEnd)

RemoteFields == {"status", "product", "periodEnd", "cancelAtEnd"}

ClockType == now \in Int /\ paidUntil \in Int /\ NoTime <= paidUntil

RemoteSold ==
    /\ DOMAIN remote = ProviderSubs
    /\ \A s \in ProviderSubs : DOMAIN remote[s] = RemoteFields /\ SoldPeriod(remote[s].periodEnd)

EventsSold == \A e \in events : e.kind # "refund" => SaysSold(e.snap)

RowSold == sub # NoRow => SaysSold(sub)

RequestsSold ==
    \A r \in Tabs :
        /\ tab[r].at \in {"changing", "canceling", "changed", "canceled"} =>
             SaysSold(sub) /\ SaysSold(tab[r].seen)
        /\ tab[r].at \in {"changed", "canceled"} => SaysSold(tab[r].answer)

HooksSold ==
    \A h \in Hooks : hook[h] # Idle =>
        /\ hook[h].event.kind # "refund" => SaysSold(hook[h].event.snap)
        /\ hook[h].seen # NoRow => SaysSold(hook[h].seen)

\* No subscription of the provider, event, answer, row or reading of the row
\* has a period end beyond what was sold.
PeriodsAreSold == ClockType /\ RemoteSold /\ EventsSold /\ RowSold /\ RequestsSold /\ HooksSold

\* Nothing is sold at first.
LEMMA PaidInit == BillingInit => PeriodsAreSold
<1> SUFFICES ASSUME BillingInit PROVE PeriodsAreSold
  OBVIOUS
<1>1. /\ sub = NoRow /\ tab = [r \in Tabs |-> Idle] /\ hook = [h \in Hooks |-> Idle]
      /\ remote = [s \in ProviderSubs |-> Unsold] /\ events = {} /\ paidUntil = 0 /\ now = 0
  BY DEF BillingInit, BillInit, BillInitWith
<1>2. Idle.at = "idle" /\ DOMAIN Unsold = RemoteFields /\ Unsold.periodEnd = 0
  BY DEF Idle, Unsold, RemoteFields
<1>3. RemoteSold
  BY <1>1, <1>2 DEF RemoteSold, SoldPeriod
<1>4. RequestsSold /\ HooksSold
  BY <1>1, <1>2 DEF RequestsSold, HooksSold
<1> QED
  BY <1>1, <1>3, <1>4 DEF PeriodsAreSold, ClockType, EventsSold, RowSold, NoTime

\* Selling more keeps what was sold.
LEMMA SoldStays ==
  ASSUME ClockType, paidUntil' \in Int, paidUntil <= paidUntil', NEW t, SoldPeriod(t)
  PROVE  SoldPeriod(t)'
  BY DEF ClockType, SoldPeriod

\* So does what a row or a payload says.
LEMMA SaysSoldStays ==
  ASSUME ClockType, paidUntil' \in Int, paidUntil <= paidUntil', NEW s, SaysSold(s)
  PROVE  SaysSold(s)'
  BY DEF ClockType, SoldPeriod, SaysSold

\* The provider sells a period or changes a subscription within it.
LEMMA EmitSold ==
  ASSUME PeriodsAreSold, NEW s \in ProviderSubs, NEW r, NEW kinds, Emit(s, r, kinds),
         DOMAIN r = RemoteFields, r.periodEnd \in Int, r.periodEnd <= paidUntil',
         paidUntil' \in Int, paidUntil <= paidUntil', "refund" \notin kinds
  PROVE  RemoteSold' /\ EventsSold'
<1>1. remote' = [remote EXCEPT ![s] = r]
  BY DEF Emit
<1>2. RemoteSold'
  <2>1. \A q \in ProviderSubs : remote'[q] = r \/ remote'[q] = remote[q]
    BY <1>1 DEF PeriodsAreSold, RemoteSold
  <2>2. DOMAIN remote' = ProviderSubs
    BY <1>1 DEF PeriodsAreSold, RemoteSold
  <2> QED
    BY <2>1, <2>2 DEF PeriodsAreSold, RemoteSold, ClockType, SoldPeriod
<1>3. ASSUME NEW e \in events', e.kind # "refund"
      PROVE  SaysSold(e.snap)'
  <2>1. CASE e \in events
    BY <2>1, <1>3, SaysSoldStays DEF PeriodsAreSold, EventsSold
  <2>2. CASE e \notin events
    <3>1. PICK end \in {r.periodEnd, NoTime} : e.snap = Snap(s, r, end)
      BY <2>2 DEF Emit, Told
    <3>2. end \in Int /\ end <= paidUntil'
      BY DEF PeriodsAreSold, ClockType, NoTime
    <3> QED
      BY <3>1, <3>2 DEF Snap, SaysSold, SoldPeriod
  <2> QED
    BY <2>1, <2>2
<1> QED
  BY <1>2, <1>3 DEF EventsSold

\* ... and leaves the row, the requests and the webhooks alone.
LEMMA RestSold ==
  ASSUME PeriodsAreSold, UNCHANGED <<sub, tab, hook>>, paidUntil' \in Int, paidUntil <= paidUntil'
  PROVE  RowSold' /\ RequestsSold' /\ HooksSold'
  BY SaysSoldStays DEF PeriodsAreSold, RowSold, RequestsSold, HooksSold

\* The provider sells periods and tells of what it sold.
LEMMA ProviderSells ==
  ASSUME PeriodsAreSold, NEW s \in ProviderSubs,
         \/ \E p \in Products : CheckoutPaid(s, p)
         \/ Renews(s) \/ RenewalFails(s) \/ SubscriptionEnds(s)
  PROVE  PeriodsAreSold'
<1> USE BillingAssumption
<1> SUFFICES ASSUME NEW r, NEW kinds, Emit(s, r, kinds), DOMAIN r = RemoteFields,
                    r.periodEnd \in Int, r.periodEnd <= paidUntil', paidUntil' \in Int,
                    paidUntil <= paidUntil', "refund" \notin kinds,
                    UNCHANGED <<sub, tab, hook, now>>
             PROVE  PeriodsAreSold'
  <2>1. ASSUME NEW p \in Products, CheckoutPaid(s, p) PROVE PeriodsAreSold'
    <3> DEFINE r == [status |-> "active", product |-> p,
                     periodEnd |-> now + PeriodLength, cancelAtEnd |-> FALSE]
    <3>1. DOMAIN r = RemoteFields /\ r.periodEnd \in Int
      BY DEF RemoteFields, PeriodsAreSold, ClockType
    <3>2. Sold(r) /\ UNCHANGED <<sub, tab, hook, now>>
      BY <2>1 DEF CheckoutPaid
    <3>3. paidUntil' \in Int /\ paidUntil <= paidUntil' /\ r.periodEnd <= paidUntil'
      BY <3>1, <3>2 DEF Sold, PeriodsAreSold, ClockType
    <3>4. PICK kinds \in {{"created"}, {"created", "paid"}} : Emit(s, r, kinds)
      BY <2>1 DEF CheckoutPaid
    <3> QED
      BY <3>1, <3>2, <3>3, <3>4
  <2>2. ASSUME Renews(s) PROVE PeriodsAreSold'
    <3> DEFINE r == [remote[s] EXCEPT !.status = "active", !.periodEnd = now + PeriodLength]
    <3>1. DOMAIN r = RemoteFields /\ r.periodEnd \in Int
      BY DEF RemoteFields, PeriodsAreSold, ClockType, RemoteSold
    <3>2. Sold(r) /\ UNCHANGED <<sub, tab, hook, now>>
      BY <2>2 DEF Renews
    <3>3. paidUntil' \in Int /\ paidUntil <= paidUntil' /\ r.periodEnd <= paidUntil'
      BY <3>1, <3>2 DEF Sold, PeriodsAreSold, ClockType
    <3>4. PICK kinds \in {{"updated"}, {"paid"}} : Emit(s, r, kinds)
      BY <2>2 DEF Renews
    <3> QED
      BY <3>1, <3>2, <3>3, <3>4
  <2>3. ASSUME RenewalFails(s) \/ SubscriptionEnds(s) PROVE PeriodsAreSold'
    <3>1. PICK status \in {"past_due", "canceled", "unpaid"},
               kinds \in {{"failed"}, {"updated"}, {"deleted"}} :
            Emit(s, [remote[s] EXCEPT !.status = status], kinds)
      BY <2>3 DEF RenewalFails, SubscriptionEnds
    <3> DEFINE r == [remote[s] EXCEPT !.status = status]
    <3>2. DOMAIN r = RemoteFields /\ r.periodEnd = remote[s].periodEnd
      BY DEF RemoteFields, PeriodsAreSold, RemoteSold
    <3>3. UNCHANGED <<sub, tab, hook, now, paidUntil>>
      BY <2>3 DEF RenewalFails, SubscriptionEnds
    <3>4. r.periodEnd \in Int /\ r.periodEnd <= paidUntil' /\ paidUntil' \in Int
      BY <3>2, <3>3 DEF PeriodsAreSold, RemoteSold, SoldPeriod, ClockType
    <3>5. paidUntil <= paidUntil' /\ "refund" \notin kinds
      BY <3>3, <3>4
    <3> HIDE DEF r
    <3> QED
      BY <3>1, <3>2, <3>3, <3>4, <3>5 DEF r
  <2> QED
    BY <2>1, <2>2, <2>3
<1>1. RemoteSold' /\ EventsSold'
  BY EmitSold
<1>2. RowSold' /\ RequestsSold' /\ HooksSold'
  BY RestSold
<1>3. ClockType'
  BY DEF PeriodsAreSold, ClockType, NoTime
<1> QED
  BY <1>1, <1>2, <1>3 DEF PeriodsAreSold

\* What a commit writes was in the row or is new.
LEMMA WrittenSold ==
  ASSUME NEW seen, NEW new, DOMAIN new = RowFields, SaysSold(sub), SaysSold(new)
  PROVE  SaysSold(Written(seen, new))
<1>1. /\ Written(seen, new).pid \in {new.pid, sub.pid}
      /\ Written(seen, new).periodEnd \in {new.periodEnd, sub.periodEnd}
  BY WrittenHasColumns
<1> QED
  BY <1>1 DEF SaysSold

\* What an event makes of a row is the row's or the event's.
LEMMA EventSold ==
  ASSUME NEW s, NEW e, HasColumns(s), RowAfter(s, e) # s, s # NoRow => SaysSold(s),
         e.kind # "refund" => SaysSold(e.snap)
  PROVE  SaysSold(RowAfter(s, e))
<1> DEFINE new == RowAfter(s, e)
<1>1. CASE e.kind \in SubscriptionKinds
  <2> DEFINE from == IF s = NoRow THEN BlankRow(e.snap) ELSE s
             d == e.kind = "deleted"
  <2>1. new = SubscriptionEvent(s, e) /\ e.kind # "refund"
    BY <1>1 DEF RowAfter, SubscriptionKinds
  <2>2. new = apply_subscription_payload(from, e.snap, d)
    BY <2>1, Zenon DEF SubscriptionEvent
  <2>3. new.pid = e.snap.pid /\ new.periodEnd = e.snap.periodEnd
    BY <2>2, PayloadHasColumns
  <2> QED
    BY <2>1, <2>3 DEF SaysSold
<1>2. CASE e.kind = "failed"
  <2>1. /\ s # NoRow
        /\ new = [s EXCEPT !.status = "past_due", !.graceEnd = Grace(s, "past_due")]
    BY <1>2 DEF RowAfter, PaymentFailed, Linked, SubscriptionKinds
  <2>2. new.pid = s.pid /\ new.periodEnd = s.periodEnd
    BY <2>1 DEF HasColumns, RowFields
  <2> QED
    BY <2>1, <2>2 DEF SaysSold
<1>3. CASE e.kind = "paid"
  <2>1. s # NoRow /\ new = [s EXCEPT !.status = "active", !.graceEnd = NoTime]
    BY <1>3 DEF RowAfter, InvoicePaid, Earns, Linked, SubscriptionKinds
  <2>2. new.pid = s.pid /\ new.periodEnd = s.periodEnd
    BY <2>1 DEF HasColumns, RowFields
  <2> QED
    BY <2>1, <2>2 DEF SaysSold
<1> QED
  BY <1>1, <1>2, <1>3 DEF RowAfter

\* A webhook writes nothing into the row but what its event says.
LEMMA WebhookSold ==
  ASSUME PeriodsAreSold, BillIInv, NEW h \in Hooks,
         \/ \E e \in events : process_webhook_event(h, e)
         \/ commit_webhook_event(h) \/ roll_back_webhook_event(h)
  PROVE  PeriodsAreSold'
<1>1. UNCHANGED <<tab, remote, paidUntil, now>> /\ events' \subseteq events
  BY DEF process_webhook_event, claim_webhook_event, commit_webhook_event, roll_back_webhook_event
<1>2. ClockType' /\ RemoteSold' /\ EventsSold'
  BY <1>1 DEF PeriodsAreSold, ClockType, RemoteSold, EventsSold, SaysSold, SoldPeriod
<1>3. ASSUME NEW x, HookMoves(h, x), sub' # NoRow => SaysSold(sub'), sub # NoRow => sub' # NoRow,
             x # Idle => /\ x.event.kind # "refund" => SaysSold(x.event.snap)
                         /\ x.seen # NoRow => SaysSold(x.seen)
      PROVE  PeriodsAreSold'
  <2>1. hook'[h] = x /\ \A g \in Hooks \ {h} : hook'[g] = hook[g]
    BY <1>3, HookGoes
  <2>2. HooksSold'
    <3> SUFFICES ASSUME NEW g \in Hooks, hook'[g] # Idle
                 PROVE  /\ hook'[g].event.kind # "refund" => SaysSold(hook[g].event.snap)'
                        /\ hook'[g].seen # NoRow => SaysSold(hook[g].seen)'
      BY DEF HooksSold
    <3>1. /\ hook'[g].event.kind # "refund" => SaysSold(hook'[g].event.snap)
          /\ hook'[g].seen # NoRow => SaysSold(hook'[g].seen)
      BY <1>3, <2>1 DEF PeriodsAreSold, HooksSold
    <3> QED
      BY <3>1, <1>1 DEF SaysSold, SoldPeriod
  <2>3. RowSold'
    BY <1>1, <1>3 DEF RowSold, SaysSold, SoldPeriod
  <2>4. RequestsSold'
    BY <1>1, <1>3 DEF PeriodsAreSold, RequestsSold, BillIInv, RequestsAgree, SaysSold, SoldPeriod
  <2> QED
    BY <1>2, <2>2, <2>3, <2>4 DEF PeriodsAreSold
<1>4. ASSUME NEW e \in events, process_webhook_event(h, e) PROVE PeriodsAreSold'
  <2> DEFINE x == [at |-> "read", event |-> e, seen |-> sub]
  <2>1. HookMoves(h, x) /\ sub' = sub
    BY <1>4 DEF process_webhook_event
  <2>2. x.event = e /\ x.seen = sub
    OBVIOUS
  <2> HIDE DEF x
  <2>3. sub # NoRow => SaysSold(sub)
    BY DEF PeriodsAreSold, RowSold
  <2> QED
    BY <1>3, <2>1, <2>2, <2>3 DEF PeriodsAreSold, EventsSold
<1>5. CASE commit_webhook_event(h)
  <2> DEFINE seen == hook[h].seen
             e == hook[h].event
             new == RowAfter(seen, e)
  <2>1. HookMoves(h, Idle) /\ hook[h] # Idle
    BY <1>5 DEF commit_webhook_event
  <2>2. /\ HasColumns(seen)
        /\ seen # NoRow => SaysSold(seen) /\ sub # NoRow
        /\ e.kind # "refund" => SaysSold(e.snap)
    BY <2>1 DEF PeriodsAreSold, HooksSold, BillIInv, HooksAgree, HasColumns
  <2>3. /\ sub' # NoRow => SaysSold(sub')
        /\ sub # NoRow => sub' # NoRow
    <3>1. CASE seen = NoRow
      <4>1. sub' = sub \/ (sub' = new /\ new # seen /\ sub = NoRow)
        BY <1>5, <3>1 DEF commit_webhook_event
      <4>2. CASE sub' = sub
        BY <4>2 DEF PeriodsAreSold, RowSold
      <4>3. CASE sub' = new /\ new # seen /\ sub = NoRow
        BY <4>3, <3>1, <2>2, EventSold
      <4> QED
        BY <4>1, <4>2, <4>3
    <3>2. CASE seen # NoRow
      <4>1. sub' = Written(seen, new) /\ SaysSold(sub)
        BY <1>5, <3>2, <2>2 DEF commit_webhook_event, PeriodsAreSold, RowSold
      <4>2. SaysSold(new) /\ DOMAIN new = RowFields
        <5>1. CASE new = seen
          BY <5>1, <2>2, <3>2 DEF HasColumns
        <5>2. CASE new # seen
          BY <5>2, <2>2, <3>2, EventSold, EventKeepsRow
        <5> QED
          BY <5>1, <5>2
      <4>3. sub' # NoRow
        BY <4>1, <4>2, WrittenHasColumns, RowHasFields
      <4> QED
        BY <4>1, <4>2, <4>3, WrittenSold
    <3> QED
      BY <3>1, <3>2
  <2> QED
    BY <1>3, <2>1, <2>3
<1>6. CASE roll_back_webhook_event(h)
  <2>1. HookMoves(h, Idle) /\ sub' = sub
    BY <1>6 DEF roll_back_webhook_event
  <2> QED
    BY <1>3, <2>1 DEF PeriodsAreSold, RowSold
<1> QED
  BY <1>4, <1>5, <1>6

\* The requests of the user write what the provider answered.
LEMMA RequestSold ==
  ASSUME PeriodsAreSold, BillIInv, NEW r \in Tabs,
         \/ \E p \in Products : AcquireCheckout(r, p) \/ StartChange(r, p)
         \/ CreateCheckout(r) \/ StartCancel(r) \/ change_plan(r) \/ cancel_at_period_end(r)
         \/ ProviderRefuses(r) \/ start_checkout_or_change_plan(r) \/ cancel_subscription(r)
  PROVE  PeriodsAreSold'
<1>1. ASSUME NEW t, Moves(r, t), SaysSold(sub)', RemoteSold', EventsSold',
             UNCHANGED <<now, paidUntil, hook>>,
             t.at \in {"changing", "canceling", "changed", "canceled"} => SaysSold(t.seen),
             t.at \in {"changed", "canceled"} => SaysSold(t.answer)
      PROVE  PeriodsAreSold'
  <2>1. tab'[r] = t /\ \A q \in Tabs \ {r} : tab'[q] = tab[q]
    BY <1>1, TabMoves
  <2>2. RequestsSold' /\ HooksSold'
    BY <2>1, <1>1 DEF PeriodsAreSold, RequestsSold, HooksSold, SaysSold, SoldPeriod
  <2> QED
    BY <2>2, <1>1 DEF PeriodsAreSold, ClockType, RowSold
<1>2. ASSUME NEW t, Moves(r, t), UNCHANGED <<sub, now, paidUntil, remote, events, hook>>,
             t.at \notin {"changing", "canceling", "changed", "canceled"}
      PROVE  PeriodsAreSold'
  <2>1. tab'[r] = t /\ \A q \in Tabs \ {r} : tab'[q] = tab[q]
    BY <1>2, TabMoves
  <2> QED
    BY <2>1, <1>2 DEF PeriodsAreSold, ClockType, RowSold, RequestsSold, RemoteSold, EventsSold,
       HooksSold, SaysSold, SoldPeriod
<1>3. CASE (\E p \in Products : AcquireCheckout(r, p)) \/ CreateCheckout(r) \/ ProviderRefuses(r)
  <2>1. \E t : Moves(r, t) /\ t.at \notin {"changing", "canceling", "changed", "canceled"}
    <3>1. ASSUME NEW p \in Products
          PROVE  [at |-> "creating", target |-> p].at = "creating"
      OBVIOUS
    <3>2. Idle.at = "idle"
      BY DEF Idle
    <3>3. \/ Moves(r, Idle)
          \/ \E p \in Products : Moves(r, [at |-> "creating", target |-> p])
      BY <1>3 DEF AcquireCheckout, CreateCheckout, ProviderRefuses
    <3>4. CASE Moves(r, Idle)
      BY <3>2, <3>4
    <3>5. ASSUME NEW p \in Products, Moves(r, [at |-> "creating", target |-> p])
          PROVE  \E t : Moves(r, t) /\ t.at \notin {"changing", "canceling", "changed", "canceled"}
      BY <3>1, <3>5
    <3> QED
      BY <3>3, <3>4, <3>5
  <2>2. UNCHANGED <<sub, now, paidUntil, remote, events, hook>>
    BY <1>3 DEF AcquireCheckout, CreateCheckout, ProviderRefuses
  <2> QED
    BY <2>1, <2>2, <1>2
<1>4. ASSUME NEW at \in {"changing", "canceling"}, NEW target, sub # NoRow,
             Moves(r, [at |-> at, target |-> target, seen |-> sub]),
             UNCHANGED <<sub, now, paidUntil, remote, events, hook>>
      PROVE  PeriodsAreSold'
  <2> DEFINE t == [at |-> at, target |-> target, seen |-> sub]
  <2>1. t.at = at /\ t.seen = sub /\ Moves(r, t)
    BY <1>4
  <2>2. SaysSold(sub) /\ SaysSold(sub)' /\ RemoteSold' /\ EventsSold'
    BY <1>4 DEF PeriodsAreSold, RowSold, RemoteSold, EventsSold, SaysSold, SoldPeriod
  <2> HIDE DEF t
  <2> QED
    BY <2>1, <2>2, <1>1, <1>4
<1>7. CASE (\E p \in Products : StartChange(r, p)) \/ StartCancel(r)
  <2>1. ASSUME NEW p \in Products, StartChange(r, p) PROVE PeriodsAreSold'
    BY <2>1, <1>4 DEF StartChange, NeedsCheckout
  <2>2. CASE StartCancel(r)
    BY <2>2, <1>4 DEF StartCancel
  <2> QED
    BY <1>7, <2>1, <2>2
<1>5. CASE change_plan(r) \/ cancel_at_period_end(r)
  <2> DEFINE s == tab[r].seen.pid
             Asked(new) == new \in {[remote[s] EXCEPT !.product = tab[r].target],
                                       [remote[s] EXCEPT !.cancelAtEnd = TRUE]}
  <2>1. tab[r].at \in {"changing", "canceling"} /\ UNCHANGED <<sub, paidUntil, now, hook>>
    BY <1>5 DEF change_plan, cancel_at_period_end, Answers
  <2>2. PICK new, at, end : /\ Asked(new) /\ at \in {"changed", "canceled"}
                            /\ end \in Told(new)
                            /\ Answers(r, Answer(r, at, new, end), s, new)
    <3>1. CASE change_plan(r)
      BY <3>1, ZenonT(30) DEF change_plan
    <3>2. CASE cancel_at_period_end(r)
      BY <3>2, ZenonT(30) DEF cancel_at_period_end
    <3> QED
      BY <1>5, <3>1, <3>2
  <2>3. SaysSold(sub) /\ SaysSold(tab[r].seen) /\ s \in ProviderSubs
    BY <2>1 DEF PeriodsAreSold, RequestsSold, SaysSold
  <2>4. DOMAIN remote[s] = RemoteFields /\ SoldPeriod(remote[s].periodEnd)
    BY <2>3 DEF PeriodsAreSold, RemoteSold
  <2>5. DOMAIN new = RemoteFields /\ new.periodEnd = remote[s].periodEnd
    BY <2>2, <2>4, SMTT(30) DEF RemoteFields
  <2>6. RemoteSold' /\ EventsSold'
    BY <2>1, <2>2, <2>3, <2>4, <2>5, EmitSold DEF Answers, SoldPeriod, PeriodsAreSold, ClockType
  <2>7. SaysSold(sub)' /\ SoldPeriod(end)
    BY <2>1, <2>2, <2>3, <2>4, <2>5 DEF SaysSold, SoldPeriod, Told, PeriodsAreSold, ClockType, NoTime
  <2>8. /\ Answer(r, at, new, end).seen = tab[r].seen
        /\ Answer(r, at, new, end).answer.pid = s
        /\ Answer(r, at, new, end).answer.periodEnd = end
    BY DEF Answer, Snap
  <2>9. SaysSold(Answer(r, at, new, end).seen) /\ SaysSold(Answer(r, at, new, end).answer)
    BY <2>3, <2>7, <2>8 DEF SaysSold
  <2>10. CASE Moves(r, Answer(r, at, new, end))
    BY <2>1, <2>6, <2>7, <2>9, <2>10, <1>1
  <2>11. CASE Moves(r, Idle)
    <3>1. Idle.at = "idle"
      BY DEF Idle
    <3> QED
      BY <3>1, <2>1, <2>6, <2>7, <2>11, <1>1
  <2> QED
    BY <2>2, <2>10, <2>11, Zenon DEF Answers
<1>6. CASE start_checkout_or_change_plan(r) \/ cancel_subscription(r)
  <2>1. /\ tab[r].at \in {"changed", "canceled"} /\ Moves(r, Idle)
        /\ UNCHANGED <<remote, events, paidUntil, now, hook>>
    BY <1>6 DEF start_checkout_or_change_plan, cancel_subscription
  <2>2. /\ SaysSold(sub) /\ SaysSold(tab[r].seen) /\ SaysSold(tab[r].answer)
        /\ DOMAIN tab[r].seen = RowFields /\ tab[r].answer.pid = tab[r].seen.pid
    BY <2>1 DEF PeriodsAreSold, RequestsSold, BillIInv, RequestsAgree
  <2>3. SaysSold(sub')
    <3>1. PICK new : /\ sub' = Written(tab[r].seen, new)
                     /\ DOMAIN new = RowFields /\ new.pid = tab[r].seen.pid
                     /\ new.periodEnd \in {tab[r].seen.periodEnd, tab[r].answer.periodEnd}
      BY <1>6, <2>2, RequestWrites
    <3>2. SaysSold(new)
      BY <2>2, <3>1 DEF SaysSold
    <3> QED
      BY <2>2, <3>1, <3>2, WrittenSold
  <2>4. SaysSold(sub)' /\ RemoteSold' /\ EventsSold'
    BY <2>1, <2>3 DEF PeriodsAreSold, RemoteSold, EventsSold, SaysSold, SoldPeriod
  <2>5. Idle.at = "idle"
    BY DEF Idle
  <2> QED
    BY <2>1, <2>4, <2>5, <1>1
<1> QED
  BY <1>3, <1>5, <1>6, <1>7

\* Every step of billing keeps PeriodsAreSold.
LEMMA PaidNext == BillIInv /\ PeriodsAreSold /\ [BillingNext]_billingVars => PeriodsAreSold'
<1> SUFFICES ASSUME BillIInv, PeriodsAreSold, [BillingNext]_billingVars PROVE PeriodsAreSold'
  OBVIOUS
<1>1. ASSUME UNCHANGED <<sub, tab, hook, remote, paidUntil>>, now' \in Int,
             \A e \in events' : e \in events \/ e.kind = "refund"
      PROVE  PeriodsAreSold'
  <2>1. RemoteSold' /\ EventsSold' /\ RowSold'
    BY <1>1 DEF PeriodsAreSold, RowSold, RemoteSold, EventsSold, SaysSold, SoldPeriod
  <2>2. RequestsSold' /\ HooksSold'
    BY <1>1 DEF PeriodsAreSold, RequestsSold, HooksSold, SaysSold, SoldPeriod
  <2> QED
    BY <1>1, <2>1, <2>2 DEF PeriodsAreSold, ClockType, NoTime
<1>2. ASSUME NEW i \in Invoices, NEW amount \in Amounts \cup {NoAmount}, Refunded(i, amount)
      PROVE  PeriodsAreSold'
  <2>1. /\ UNCHANGED <<sub, tab, hook, remote, paidUntil, now>>
        /\ \A e \in events' : e \in events \/ e.kind = "refund"
    BY <1>2 DEF Refunded
  <2> QED
    BY <1>1, <2>1 DEF PeriodsAreSold, ClockType
<1>3. ASSUME Tick PROVE PeriodsAreSold'
  BY <1>1, <1>3 DEF Tick, PeriodsAreSold, ClockType
<1>4. ASSUME UNCHANGED <<billVars, now>> \/ UNCHANGED billingVars PROVE PeriodsAreSold'
  BY <1>1, <1>4 DEF billVars, billingVars, PeriodsAreSold, ClockType
<1>5. ASSUME BillStep PROVE PeriodsAreSold'
  BY <1>5, <1>2, <1>3, ProviderSells, WebhookSold, RequestSold DEF BillStep
<1> QED
  BY <1>4, <1>5 DEF BillingNext

\* An active user's access never outlasts the periods the provider sold, in
\* whatever order its events and the user's requests are processed and however
\* webhooks overlap (has_paid_access against the webhooks and the plan changes
\* of domains/billing/service.py), unless his row has no period end at all.
THEOREM AccessIsPaidAlways == BillingSpec => []AccessIsPaid
<1> DEFINE I == BillIInv /\ PeriodsAreSold
<1>1. I /\ [BillingNext]_billingVars => I'
  BY PaidNext, BillEveryStep
<1>2. I => AccessIsPaid
  BY DEF PeriodsAreSold, ClockType, RowSold, SaysSold, SoldPeriod, AccessIsPaid, has_paid_access, NoTime
<1>3. BillingInit => I
  BY PaidInit, BillInitIInv
<1> QED
  BY <1>1, <1>2, <1>3, PTL DEF BillingSpec, billingVars

-----------------------------------------------------------------------------
(***************************************************************************)
(* Affiliates: of a customer no more commissions stand than the longest    *)
(* recurring_months and those that other processes count at the same time, *)
(* and none is reversed by more than its amount.                           *)
(***************************************************************************)
-----------------------------------------------------------------------------
CommissionFields == {"base", "amount", "reversed", "releaseAt", "status"}

\* A commission that was ever created.
RowSound(c) ==
    /\ DOMAIN c = CommissionFields
    /\ c.base \in Nat \ {0} /\ c.amount \in Nat
    /\ c.reversed \in Nat /\ c.reversed <= c.amount

\* What a webhook is to write: a new row, or one that is there with another
\* reversal.
TxnSound(t) ==
    /\ t.inv \in Invoices /\ RowSound(t.new)
    /\ t.seen # NoCommission =>
         /\ commission[t.inv] # NoCommission
         /\ t.new.amount = commission[t.inv].amount
         /\ \A f \in {"base", "amount", "releaseAt"} : t.new[f] = t.seen[f]
         /\ t.new.status \in {t.seen.status, "reversed"}

\* The webhooks that have counted and are to insert.
Inserting == {h \in Hooks : Inserts(txn[h])}

AffIInv ==
    /\ config \in Settings /\ override \in Overrides \cup {NoRate}
    /\ DOMAIN commission = Invoices /\ DOMAIN txn = Hooks
    /\ \A i \in Earned : RowSound(commission[i])
    /\ \A h \in Hooks : txn[h] # NoCommission => TxnSound(txn[h])
    /\ IsFiniteSet(Standing)
    /\ Cardinality(Standing) + Cardinality(Inserting) <= MostMonths - 1 + Cardinality(Hooks)

affAll == <<affVars, now>>

\* MostMonths bounds the months of every setting.
LEMMA MostMonthsIsMost ==
  /\ MostMonths \in Nat \ {0}
  /\ \A s \in Settings : s.months \in Nat /\ s.months <= MostMonths
<1> DEFINE M == {s.months : s \in Settings}
<1>1. M \subseteq 0..60 /\ M # {} /\ 0 \notin M
  BY AffiliatesAssumption
<1>2. Max(M) \in M /\ \A y \in M : y <= Max(M)
  BY <1>1, MaxOfBounded
<1> QED
  BY <1>1, <1>2 DEF MostMonths

\* No more webhooks insert than there are, fewer of them when there are fewer.
LEMMA InsertingCounted ==
  /\ IsFiniteSet(Inserting) /\ Cardinality(Inserting) \in Nat /\ Cardinality(Hooks) \in Nat
  /\ Cardinality(Inserting) <= Cardinality(Hooks)
<1>1. Inserting \subseteq Hooks
  BY DEF Inserting
<1>2. IsFiniteSet(Hooks)
  BY AffiliatesAssumption
<1>3. IsFiniteSet(Inserting) /\ Cardinality(Inserting) <= Cardinality(Hooks)
  BY <1>1, <1>2, FS_Subset
<1> QED
  BY <1>2, <1>3, FS_CardinalityType

\* An amount of money is a whole number of cents.
LEMMA MoneyType ==
  ASSUME NEW n \in Nat, NEW d \in Nat \ {0}
  PROVE  _money(n, d) \in Nat
<1>1. (2 * n + d) \in Nat /\ (2 * d) \in Nat \ {0}
  OBVIOUS
<1>2. ASSUME NEW x \in Nat, NEW y \in Nat \ {0} PROVE x \div y \in Nat
  OBVIOUS
<1> QED
  BY <1>1, <1>2 DEF _money

\* A quotient that is not above a bound, multiplied out.
LEMMA QuotientBound ==
  ASSUME NEW x \in Nat, NEW y \in Nat \ {0}, NEW k \in Nat, x < y * (k + 1)
  PROVE  x \div y <= k
  OBVIOUS

\* quantize(ROUND_HALF_UP) of a share of a whole number of cents does not
\* exceed that number.
LEMMA MoneyOfShare ==
  ASSUME NEW amount \in Nat, NEW part \in Nat, NEW base \in Nat \ {0}, part <= base
  PROVE  _money(amount * part, base) <= amount
<1>1. amount * part \in Nat /\ amount * base \in Nat /\ amount * part <= amount * base
  <2>1. amount * (base - part) \in Nat
    OBVIOUS
  <2>2. amount * (base - part) = amount * base - amount * part
    OBVIOUS
  <2> QED
    BY <2>1, <2>2
<1>2. (2 * base) * (amount + 1) = 2 * (amount * base) + 2 * base
  OBVIOUS
<1>3. 2 * (amount * part) + base < (2 * base) * (amount + 1)
  BY <1>1, <1>2
<1>4. 2 * (amount * part) + base \in Nat /\ 2 * base \in Nat \ {0}
  BY <1>1
<1> QED
  BY <1>3, <1>4, QuotientBound DEF _money

\* There are no commissions at first.
LEMMA AffInitIInv == now = 0 /\ AffInit => AffIInv
<1> SUFFICES ASSUME AffInit PROVE AffIInv
  OBVIOUS
<1>1. /\ config \in Settings /\ override = NoRate
      /\ commission = [i \in Invoices |-> NoCommission]
      /\ txn = [h \in Hooks |-> NoCommission]
  BY DEF AffInit
<1>2. Earned = {} /\ Standing = {}
  BY <1>1 DEF Earned, Standing
<1>3. IsFiniteSet(Standing) /\ Cardinality(Standing) = 0
  BY <1>2, FS_EmptySet
<1> QED
  BY <1>1, <1>2, <1>3, InsertingCounted, MostMonthsIsMost DEF AffIInv

\* A row with a commission's columns is one.
LEMMA SoundIsRow ==
  ASSUME NEW c, RowSound(c)
  PROVE  c # NoCommission
  BY DEF RowSound, CommissionFields, NoCommission

\* Rows that stay, with their amounts, keep what webhooks are to write sound.
LEMMA TxnStays ==
  ASSUME NEW t, TxnSound(t),
         \A i \in Earned : /\ commission'[i] # NoCommission
                           /\ commission'[i].amount = commission[i].amount
  PROVE  TxnSound(t)'
<1>1. t.seen # NoCommission => t.inv \in Earned
  BY DEF TxnSound, Earned
<1> QED
  BY <1>1 DEF TxnSound, RowSound

\* A step that adds no standing commission and no webhook that will insert.
LEMMA NothingNewStands ==
  ASSUME AffIInv, config' \in Settings, override' \in Overrides \cup {NoRate},
         DOMAIN commission' = Invoices, DOMAIN txn' = Hooks,
         \A i \in Earned' : RowSound(commission'[i]),
         \A i \in Earned : commission'[i] # NoCommission /\ commission'[i].amount = commission[i].amount,
         \A h \in Hooks : txn'[h] \in {txn[h], NoCommission},
         Standing' \subseteq Standing
  PROVE  AffIInv'
<1>1. IsFiniteSet(Standing') /\ Cardinality(Standing') <= Cardinality(Standing)
  BY FS_Subset DEF AffIInv
<1>2. Cardinality(Standing') \in Nat /\ Cardinality(Standing) \in Nat
  BY <1>1, FS_CardinalityType DEF AffIInv
<1>3. MostMonths' = MostMonths
  BY DEF MostMonths
<1>4. Inserting' \subseteq Inserting
  BY DEF Inserting, Inserts
<1>5. Cardinality(Inserting') <= Cardinality(Inserting) /\ Cardinality(Inserting') \in Nat
  BY <1>4, InsertingCounted, FS_Subset, FS_CardinalityType
<1>6. Cardinality(Standing') + Cardinality(Inserting') <= MostMonths' - 1 + Cardinality(Hooks)
  BY <1>1, <1>2, <1>3, <1>5, InsertingCounted, MostMonthsIsMost DEF AffIInv
<1>7. ASSUME NEW h \in Hooks, txn'[h] # NoCommission PROVE TxnSound(txn[h])' /\ txn'[h] = txn[h]
  <2>1. txn'[h] = txn[h] /\ TxnSound(txn[h])
    BY <1>7 DEF AffIInv
  <2> DEFINE t == txn[h]
  <2>2. TxnSound(t)
    BY <2>1
  <2> QED
    BY <2>1, <2>2, TxnStays DEF TxnSound, RowSound
<1> QED
  BY <1>1, <1>6, <1>7 DEF AffIInv, RowSound

\* A webhook has read: what it will write is sound, and it inserts only if it
\* counted fewer commissions than the months.
LEMMA ReadsKeep ==
  ASSUME AffIInv, NEW h \in Hooks, NEW t, Reads(h, t), UNCHANGED <<config, override, commission>>,
         t # NoCommission => TxnSound(t),
         Inserts(t) => Cardinality(Standing) < config.months
  PROVE  AffIInv'
<1>1. DOMAIN txn' = Hooks /\ txn'[h] = t /\ \A g \in Hooks \ {h} : txn'[g] = txn[g]
  BY DEF AffIInv, Reads
<1>2. Standing' = Standing /\ Earned' = Earned /\ MostMonths' = MostMonths
  BY DEF Standing, Earned, MostMonths
<1>3. \A g \in Hooks : txn'[g] # NoCommission => TxnSound(txn[g])'
  BY <1>1 DEF AffIInv, TxnSound, RowSound
<1>4. Cardinality(Standing) \in Nat
  BY FS_CardinalityType DEF AffIInv
<1>5. Inserting' \subseteq Hooks
  BY DEF Inserting
<1>6. Cardinality(Inserting') \in Nat /\ Cardinality(Inserting') <= Cardinality(Hooks)
  BY <1>5, FS_Subset, FS_CardinalityType, AffiliatesAssumption
<1>7. Cardinality(Standing) + Cardinality(Inserting') <= MostMonths - 1 + Cardinality(Hooks)
  <2>1. CASE Inserts(t)
    <3>1. Cardinality(Standing) < config.months /\ config.months \in Nat /\ config.months <= MostMonths
      BY <2>1, MostMonthsIsMost DEF AffIInv
    <3> QED
      BY <3>1, <1>4, <1>6, InsertingCounted, MostMonthsIsMost
  <2>2. CASE ~Inserts(t)
    <3>1. Inserting' \subseteq Inserting
      BY <1>1, <2>2 DEF Inserting, Inserts
    <3>2. Cardinality(Inserting') <= Cardinality(Inserting)
      BY <3>1, InsertingCounted, FS_Subset
    <3> QED
      BY <3>2, <1>4, <1>6, InsertingCounted, MostMonthsIsMost DEF AffIInv
  <2> QED
    BY <2>1, <2>2
<1> QED
  BY <1>1, <1>2, <1>3, <1>7 DEF AffIInv, RowSound

\* A paid invoice's webhook inserts only while fewer than the months allowed stood.
LEMMA CreateReads ==
  ASSUME AffIInv, NEW h \in Hooks, NEW i \in Invoices, NEW base \in Nat,
         create_commission_from_paid_invoice(h, i, base),
         UNCHANGED <<config, override, commission>>
  PROVE  AffIInv'
<1> DEFINE c == AffiliateCommission(base)
           t == [inv |-> i, seen |-> NoCommission, new |-> c]
<1>1. \/ Reads(h, NoCommission)
      \/ Reads(h, t) /\ base > 0 /\ Cardinality(Standing) < config.months
  BY DEF create_commission_from_paid_invoice, count_qualifying_commissions, Standing
<1>2. CASE Reads(h, NoCommission)
  BY <1>2, ReadsKeep DEF Inserts
<1>3. CASE Reads(h, t) /\ base > 0 /\ Cardinality(Standing) < config.months
  <2>1. effective_rate \in Nat
    BY AffiliatesAssumption DEF effective_rate, AffIInv
  <2>2. _money(base * effective_rate, 100) \in Nat
    <3>1. base * effective_rate \in Nat
      BY <2>1
    <3> QED
      BY <3>1, MoneyType
  <2>3. RowSound(c)
    BY <1>3, <2>2 DEF AffiliateCommission, RowSound, CommissionFields
  <2>4. TxnSound(t)
    BY <2>3 DEF TxnSound
  <2> QED
    BY <1>3, <2>4, ReadsKeep
<1> QED
  BY <1>1, <1>2, <1>3

\* The webhook of a refund takes back no more than the commission.
LEMMA ReversalSound ==
  ASSUME NEW c, RowSound(c), NEW refund \in Nat \cup {NoAmount}
  PROVE  ReversedAmount(c, refund) \in Nat /\ ReversedAmount(c, refund) <= c.amount
<1> DEFINE refund_base == IF refund = NoAmount THEN c.base ELSE refund
           part == Less(refund_base, c.base)
<1>1. part \in Nat /\ part <= c.base /\ c.amount \in Nat /\ c.base \in Nat \ {0}
  BY DEF Less, RowSound
<1> HIDE DEF part
<1>2. c.amount * part \in Nat
  BY <1>1
<1>3. _money(c.amount * part, c.base) \in Nat /\ _money(c.amount * part, c.base) <= c.amount
  BY <1>1, <1>2, MoneyType, MoneyOfShare
<1> QED
  BY <1>3 DEF ReversedAmount, RowSound, part

LEMMA ReverseReads ==
  ASSUME AffIInv, NEW h \in Hooks, NEW i \in Invoices, NEW refund \in Nat \cup {NoAmount},
         reverse_commission(h, i, refund),
         UNCHANGED <<config, override, commission>>
  PROVE  AffIInv'
<1> DEFINE c == commission[i]
           r == ReversedAmount(c, refund)
           d == [c EXCEPT !.reversed = r, !.status = IF r >= c.amount THEN "reversed" ELSE @]
           t == [inv |-> i, seen |-> c, new |-> d]
<1>1. \/ Reads(h, NoCommission)
      \/ Reads(h, t) /\ c # NoCommission
  BY DEF reverse_commission
<1>2. CASE Reads(h, NoCommission)
  BY <1>2, ReadsKeep DEF Inserts
<1>3. CASE Reads(h, t) /\ c # NoCommission
  <2>1. RowSound(c)
    BY <1>3 DEF AffIInv, Earned
  <2>2. r \in Nat /\ r <= c.amount
    BY <2>1, ReversalSound
  <2> HIDE DEF r
  <2>3. /\ DOMAIN d = CommissionFields /\ d.base = c.base /\ d.amount = c.amount
        /\ d.reversed = r /\ d.releaseAt = c.releaseAt /\ d.status \in {c.status, "reversed"}
    BY <2>1 DEF RowSound, CommissionFields
  <2>4. RowSound(d)
    BY <2>1, <2>2, <2>3 DEF RowSound
  <2>5. TxnSound(t)
    BY <1>3, <2>3, <2>4 DEF TxnSound
  <2>6. ~Inserts(t)
    BY <1>3 DEF Inserts
  <2> HIDE DEF t
  <2> QED
    BY <1>3, <2>5, <2>6, ReadsKeep
<1> QED
  BY <1>1, <1>2, <1>3

\* A webhook commits the row it made.
LEMMA InsertBounded ==
  ASSUME AffIInv, NEW h \in Hooks, WriteCommission(h), Inserts(txn[h]), UNCHANGED <<config, override>>
  PROVE  AffIInv'
<1> DEFINE t == txn[h]
<1>1. /\ t # NoCommission /\ t.seen = NoCommission /\ commission[t.inv] = NoCommission
      /\ commission' = [commission EXCEPT ![t.inv] = t.new]
      /\ Reads(h, NoCommission)
  BY DEF WriteCommission, CanWrite, Inserts
<1>2. t.inv \in Invoices /\ RowSound(t.new)
  BY <1>1 DEF AffIInv, TxnSound
<1>3. DOMAIN txn' = Hooks /\ txn'[h] = NoCommission /\ \A g \in Hooks \ {h} : txn'[g] = txn[g]
  BY <1>1 DEF AffIInv, Reads
<1>4. /\ DOMAIN commission' = Invoices
      /\ \A j \in Invoices : commission'[j] = IF j = t.inv THEN t.new ELSE commission[j]
  BY <1>1, <1>2 DEF AffIInv
<1> HIDE DEF t
<1>5. \A j \in Earned' : RowSound(commission'[j])
  BY <1>2, <1>4 DEF AffIInv, Earned
<1>6. \A j \in Earned : commission'[j] = commission[j] /\ commission'[j] # NoCommission
  BY <1>1, <1>4 DEF Earned
<1>7. ASSUME NEW g \in Hooks, txn'[g] # NoCommission PROVE TxnSound(txn[g])'
  <2>1. txn'[g] = txn[g] /\ TxnSound(txn[g])
    BY <1>3, <1>7 DEF AffIInv
  <2> QED
    BY <2>1, <1>6, TxnStays DEF TxnSound, RowSound
<1>8. Standing' \subseteq Standing \cup {t.inv}
  BY <1>4 DEF Standing, Earned
<1>9. IsFiniteSet(Standing) /\ Cardinality(Standing) \in Nat
  BY FS_CardinalityType DEF AffIInv
<1>10. /\ IsFiniteSet(Standing \cup {t.inv})
       /\ Cardinality(Standing \cup {t.inv}) <= Cardinality(Standing) + 1
       /\ Cardinality(Standing \cup {t.inv}) \in Nat
  <2>1. /\ IsFiniteSet(Standing \cup {t.inv})
        /\ Cardinality(Standing \cup {t.inv}) = IF t.inv \in Standing THEN Cardinality(Standing)
                                                ELSE Cardinality(Standing) + 1
    BY <1>9, FS_AddElement
  <2> QED
    BY <2>1, <1>9
<1>11. /\ IsFiniteSet(Standing') /\ Cardinality(Standing') <= Cardinality(Standing) + 1
       /\ Cardinality(Standing') \in Nat
  <2>1. /\ IsFiniteSet(Standing') /\ Cardinality(Standing') <= Cardinality(Standing \cup {t.inv})
        /\ Cardinality(Standing') \in Nat
    BY <1>8, <1>10, FS_Subset, FS_CardinalityType
  <2> QED
    BY <2>1, <1>9, <1>10
<1>12. Inserting' = Inserting \ {h} /\ h \in Inserting
  BY <1>3 DEF Inserting, Inserts
<1>13. Cardinality(Inserting') = Cardinality(Inserting) - 1
  BY <1>12, InsertingCounted, FS_RemoveElement
<1>14. MostMonths' = MostMonths
  BY DEF MostMonths
<1>15. Cardinality(Standing') + Cardinality(Inserting') <= MostMonths' - 1 + Cardinality(Hooks)
  BY <1>9, <1>11, <1>13, <1>14, InsertingCounted, MostMonthsIsMost DEF AffIInv
<1> QED
  BY <1>3, <1>4, <1>5, <1>7, <1>11, <1>15 DEF AffIInv, RowSound

\* A webhook commits a reversal, into the row as it is by then.
LEMMA ReverseBounded ==
  ASSUME AffIInv, NEW h \in Hooks, WriteCommission(h), ~Inserts(txn[h]), UNCHANGED <<config, override>>
  PROVE  AffIInv'
<1> DEFINE t == txn[h]
           c == commission[t.inv]
           d == Changed(t)
<1>1. /\ Reads(h, NoCommission)
      /\ commission' = IF t = NoCommission THEN commission ELSE [commission EXCEPT ![t.inv] = d]
  BY DEF WriteCommission
<1>2. DOMAIN txn' = Hooks /\ txn'[h] = NoCommission /\ \A g \in Hooks \ {h} : txn'[g] = txn[g]
  BY <1>1 DEF AffIInv, Reads
<1>3. CASE t = NoCommission
  <2>1. commission' = commission
    BY <1>1, <1>3
  <2>2. Standing' = Standing /\ Earned' = Earned
    BY <2>1 DEF Standing, Earned
  <2>3. \A i \in Earned' : RowSound(commission'[i])
    BY <2>1, <2>2 DEF AffIInv
  <2>4. \A i \in Earned : commission'[i] # NoCommission /\ commission'[i].amount = commission[i].amount
    BY <2>1 DEF Earned
  <2> QED
    BY <1>2, <2>1, <2>2, <2>3, <2>4, NothingNewStands DEF AffIInv
<1>4. CASE t # NoCommission
  <2>1. /\ t.inv \in Invoices /\ RowSound(t.new) /\ c # NoCommission
        /\ t.new.amount = c.amount
        /\ \A f \in {"base", "amount", "releaseAt"} : t.new[f] = t.seen[f]
        /\ t.new.status \in {t.seen.status, "reversed"}
    BY <1>4 DEF Inserts, AffIInv, TxnSound
  <2>2. RowSound(c)
    BY <2>1 DEF AffIInv, Earned
  <2>3. /\ DOMAIN d = CommissionFields
        /\ \A f \in CommissionFields : d[f] = IF t.new[f] # t.seen[f] THEN t.new[f] ELSE c[f]
    BY <2>1 DEF Changed, RowSound
  <2>4. /\ commission' = [commission EXCEPT ![t.inv] = d]
    BY <1>1, <1>4
  <2> HIDE DEF c, d, t
  <2>5. /\ d.base = c.base /\ d.amount = c.amount /\ d.releaseAt = c.releaseAt
        /\ d.reversed \in {c.reversed, t.new.reversed} /\ d.status \in {c.status, "reversed"}
    BY <2>1, <2>3 DEF CommissionFields
  <2>6. RowSound(d)
    BY <2>1, <2>2, <2>3, <2>5 DEF RowSound
  <2>7. /\ DOMAIN commission' = Invoices
        /\ \A j \in Invoices : commission'[j] = IF j = t.inv THEN d ELSE commission[j]
    BY <2>1, <2>4 DEF AffIInv
  <2>8. \A j \in Earned' : RowSound(commission'[j])
    BY <2>6, <2>7 DEF AffIInv, Earned
  <2>9. d # NoCommission
    BY <2>6, SoundIsRow
  <2>10. \A j \in Earned : commission'[j] # NoCommission /\ commission'[j].amount = commission[j].amount
    BY <2>5, <2>7, <2>9 DEF Earned, c
  <2>11. Standing' \subseteq Standing
    BY <2>1, <2>5, <2>7 DEF Standing, Earned, c
  <2> QED
    BY <1>2, <2>7, <2>8, <2>10, <2>11, NothingNewStands DEF AffIInv
<1> QED
  BY <1>3, <1>4

\* Whatever a webhook reads and whenever it commits or is rolled back.
LEMMA CommitBounded ==
  ASSUME AffIInv, NEW h \in Hooks, WriteCommission(h), UNCHANGED <<config, override>>
  PROVE  AffIInv'
  BY InsertBounded, ReverseBounded

LEMMA RollBackBounded ==
  ASSUME AffIInv, NEW h \in Hooks, Reads(h, NoCommission), UNCHANGED <<config, override, commission>>
  PROVE  AffIInv'
  BY ReadsKeep DEF Inserts

LEMMA WebhookBounded ==
  ASSUME AffIInv, NEW h \in Hooks, Webhook(h)
  PROVE  AffIInv'
<1>1. UNCHANGED <<config, override>>
  BY DEF Webhook
<1>2. ASSUME NEW i \in Invoices, NEW base \in Amounts, create_commission_from_paid_invoice(h, i, base),
             UNCHANGED commission
      PROVE  AffIInv'
  BY <1>1, <1>2, CreateReads, AffiliatesAssumption
<1>3. ASSUME NEW i \in Invoices, NEW refund \in Amounts \cup {NoAmount}, reverse_commission(h, i, refund),
             UNCHANGED commission
      PROVE  AffIInv'
  BY <1>1, <1>3, ReverseReads, AffiliatesAssumption
<1> QED
  BY <1>1, <1>2, <1>3, CommitBounded, RollBackBounded DEF Webhook

\* A request moves commissions on, never one that was reversed.
LEMMA RequestBounded ==
  ASSUME AffIInv, AffRequest \/ attribute_new_user
  PROVE  AffIInv'
<1>1. config' \in Settings /\ override' \in Overrides \cup {NoRate} /\ txn' = txn
  BY DEF AffIInv, AffRequest, attribute_new_user, dashboard, SuspendProfile, PayOut,
     update_settings, update_user_rate
<1>2. /\ DOMAIN commission' = Invoices
      /\ \A i \in Invoices : \/ commission'[i] = commission[i]
                             \/ \E status \in {"available", "paid"} :
                                  /\ i \in Earned /\ commission[i].status # "reversed"
                                  /\ commission'[i] = [commission[i] EXCEPT !.status = status]
  <2>1. CASE dashboard
    BY <2>1 DEF dashboard
  <2>2. ASSUME NEW i \in Invoices, PayOut(i)
        PROVE  /\ DOMAIN commission' = Invoices
               /\ \A j \in Invoices : \/ commission'[j] = commission[j]
                                      \/ \E status \in {"available", "paid"} :
                                           /\ j \in Earned /\ commission[j].status # "reversed"
                                           /\ commission'[j] = [commission[j] EXCEPT !.status = status]
    BY <2>2 DEF PayOut, AffIInv
  <2>3. CASE UNCHANGED commission
    BY <2>3 DEF AffIInv
  <2> QED
    BY <2>1, <2>2, <2>3 DEF AffRequest, attribute_new_user, SuspendProfile, update_settings, update_user_rate
<1>3. ASSUME NEW i \in Earned
      PROVE  RowSound(commission'[i]) /\ commission'[i].amount = commission[i].amount
  BY <1>2, <1>3 DEF AffIInv, RowSound, CommissionFields, Earned
<1>4. Earned' \subseteq Earned
  BY <1>2 DEF Earned
<1>5. Standing' \subseteq Standing
  BY <1>2, <1>4 DEF Standing, Earned
<1>6. \A i \in Earned : commission'[i] # NoCommission
  BY <1>3, SoundIsRow
<1> QED
  BY <1>1, <1>2, <1>3, <1>4, <1>5, <1>6, NothingNewStands DEF AffIInv

\* Every step of the affiliate programme keeps AffIInv.
LEMMA AffNextIInv == AffIInv /\ [AffNext]_affAll => AffIInv'
<1> SUFFICES ASSUME AffIInv, [AffNext]_affAll PROVE AffIInv'
  OBVIOUS
<1>1. CASE UNCHANGED affVars
  BY <1>1 DEF affVars, AffIInv, RowSound, TxnSound, Earned, Standing, Inserting, Inserts, MostMonths
<1> QED
  BY <1>1, WebhookBounded, RequestBounded DEF AffNext, affAll

\* AffIInv bounds what stands and what is reversed.
LEMMA AffIInvBounds == AffIInv => CommissionsBounded
<1> SUFFICES ASSUME AffIInv PROVE CommissionsBounded
  OBVIOUS
<1>1. Cardinality(Standing) \in Nat
  BY FS_CardinalityType DEF AffIInv
<1>2. Cardinality(Standing) <= MostMonths - 1 + Cardinality(Hooks)
  BY <1>1, InsertingCounted, MostMonthsIsMost DEF AffIInv
<1> QED
  BY <1>2 DEF AffIInv, CommissionsBounded, RowSound

\* A customer never earns an affiliate more standing commissions than the
\* longest recurring_months an administrator may set, but for one for each
\* other process whose webhook counted at the same time, and refunds never take
\* back more than was credited (create_commission_from_paid_invoice and
\* reverse_commission, each with its reads at one moment and its commit at
\* another), for any invoices, settings, amounts and processes.
THEOREM CommissionsAreBounded == AffSpec => []CommissionsBounded
  BY AffIInvBounds, AffInitIInv, AffNextIInv, PTL DEF AffSpec, affAll

\* A row of affiliate_commissions has its columns and a date in days.
LEMMA CommissionType ==
  ASSUME AffIInv, AffTypeOK, NEW base \in Nat
  PROVE  AffiliateCommission(base) \in Commission
<1>1. effective_rate \in Nat /\ config.hold \in Nat
  BY AffiliatesAssumption DEF effective_rate, AffTypeOK
<1>2. base * effective_rate \in Nat
  BY <1>1
<1>3. _money(base * effective_rate, 100) \in Nat
  BY <1>2, MoneyType
<1>4. now + config.hold \in Nat
  BY <1>1 DEF AffTypeOK
<1> QED
  BY <1>3, <1>4 DEF AffiliateCommission, Commission

\* What a webhook read and is to write has its type.
LEMMA ReadsType ==
  ASSUME AffTypeOK, NEW h \in Hooks, NEW t \in Txn \cup {NoCommission}, Reads(h, t)
  PROVE  txn' \in [Hooks -> Txn \cup {NoCommission}]
  BY DEF AffTypeOK, Reads

LEMMA CreateType ==
  ASSUME AffIInv, AffTypeOK, NEW h \in Hooks, NEW i \in Invoices, NEW base \in Nat,
         create_commission_from_paid_invoice(h, i, base)
  PROVE  txn' \in [Hooks -> Txn \cup {NoCommission}]
<1> DEFINE t == [inv |-> i, seen |-> NoCommission, new |-> AffiliateCommission(base)]
<1>1. Reads(h, NoCommission) \/ Reads(h, t)
  BY DEF create_commission_from_paid_invoice
<1>2. t \in Txn
  BY CommissionType DEF Txn
<1> HIDE DEF t
<1> QED
  BY <1>1, <1>2, ReadsType

LEMMA ReverseType ==
  ASSUME AffIInv, AffTypeOK, NEW h \in Hooks, NEW i \in Invoices, NEW refund \in Nat \cup {NoAmount},
         reverse_commission(h, i, refund)
  PROVE  txn' \in [Hooks -> Txn \cup {NoCommission}]
<1> DEFINE c == commission[i]
           r == ReversedAmount(c, refund)
           d == [c EXCEPT !.reversed = r, !.status = IF r >= c.amount THEN "reversed" ELSE @]
           t == [inv |-> i, seen |-> c, new |-> d]
<1>1. Reads(h, NoCommission) \/ (Reads(h, t) /\ c # NoCommission)
  BY DEF reverse_commission
<1>2. CASE c # NoCommission
  <2>1. c \in Commission /\ RowSound(c)
    BY <1>2 DEF AffTypeOK, AffIInv, Earned
  <2>2. r \in Nat
    BY <2>1, ReversalSound
  <2> HIDE DEF r
  <2>3. d \in Commission
    BY <2>1, <2>2 DEF Commission
  <2> HIDE DEF d
  <2>4. t \in Txn
    BY <2>1, <2>3 DEF Txn
  <2> HIDE DEF t
  <2> QED
    BY <1>1, <2>4, ReadsType
<1>3. CASE c = NoCommission
  BY <1>1, <1>3, ReadsType
<1> QED
  BY <1>2, <1>3

\* So has what it commits.
LEMMA WriteType ==
  ASSUME AffIInv, AffTypeOK, NEW h \in Hooks, WriteCommission(h)
  PROVE  /\ commission' \in [Invoices -> Commission \cup {NoCommission}]
         /\ txn' \in [Hooks -> Txn \cup {NoCommission}]
<1> DEFINE t == txn[h]
           d == IF Inserts(t) THEN t.new ELSE Changed(t)
<1>1. /\ Reads(h, NoCommission)
      /\ commission' = IF t = NoCommission THEN commission ELSE [commission EXCEPT ![t.inv] = d]
  BY DEF WriteCommission
<1>2. txn' \in [Hooks -> Txn \cup {NoCommission}]
  BY <1>1, ReadsType
<1>3. ASSUME t # NoCommission PROVE d \in Commission
  <2>1. t \in Txn /\ TxnSound(t)
    BY <1>3 DEF AffTypeOK, AffIInv
  <2>2. CASE Inserts(t)
    BY <2>1, <2>2 DEF Txn
  <2>3. CASE ~Inserts(t)
    <3>1. t.new \in Commission /\ commission[t.inv] \in Commission
      BY <1>3, <2>1, <2>3 DEF Inserts, Txn, TxnSound, AffTypeOK
    <3> DEFINE n == t.new
               c == commission[t.inv]
               s == t.seen
    <3>2. d = [f \in {"base", "amount", "reversed", "releaseAt", "status"} |->
                 IF n[f] # s[f] THEN n[f] ELSE c[f]]
      BY <2>3, <3>1 DEF Changed, Commission
    <3> HIDE DEF n, c, d
    <3>3. n \in Commission /\ c \in Commission
      BY <3>1 DEF n, c
    <3>4. /\ DOMAIN d = {"base", "amount", "reversed", "releaseAt", "status"}
          /\ d.base \in Nat /\ d.amount \in Nat /\ d.reversed \in Nat /\ d.releaseAt \in Nat
          /\ d.status \in {"pending", "available", "paid", "reversed"}
      BY <3>2, <3>3 DEF Commission
    <3>5. d = [base |-> d.base, amount |-> d.amount, reversed |-> d.reversed,
               releaseAt |-> d.releaseAt, status |-> d.status]
      BY <3>2
    <3> QED
      BY <3>4, <3>5 DEF Commission
  <2> QED
    BY <2>2, <2>3
<1> HIDE DEF d
<1>4. commission' \in [Invoices -> Commission \cup {NoCommission}]
  BY <1>1, <1>3 DEF AffTypeOK
<1> QED
  BY <1>2, <1>4

\* Requests keep the types.
LEMMA RequestType ==
  ASSUME AffIInv, AffTypeOK, AffRequest \/ attribute_new_user, UNCHANGED now
  PROVE  AffTypeOK'
<1>1. CASE dashboard
  <2>1. \A i \in Invoices : commission'[i] = commission[i] \/
          (commission[i] \in Commission /\ commission'[i] = [commission[i] EXCEPT !.status = "available"])
    BY <1>1 DEF dashboard, AffTypeOK, Earned
  <2>2. \A i \in Invoices : commission'[i] \in Commission \cup {NoCommission}
    BY <2>1 DEF AffTypeOK, Commission
  <2>3. commission' \in [Invoices -> Commission \cup {NoCommission}]
    BY <1>1, <2>2 DEF dashboard
  <2> QED
    BY <1>1, <2>3 DEF dashboard, AffTypeOK
<1>2. ASSUME NEW i \in Invoices, PayOut(i) PROVE AffTypeOK'
  <2>1. commission[i] \in Commission
    BY <1>2 DEF PayOut, AffTypeOK, Earned
  <2>2. [commission[i] EXCEPT !.status = "paid"] \in Commission
    BY <2>1 DEF Commission
  <2>3. commission' = [commission EXCEPT ![i] = [commission[i] EXCEPT !.status = "paid"]]
    BY <1>2 DEF PayOut
  <2>4. commission' \in [Invoices -> Commission \cup {NoCommission}]
    BY <2>2, <2>3 DEF AffTypeOK
  <2> QED
    BY <1>2, <2>4 DEF PayOut, AffTypeOK
<1>3. ASSUME NEW s \in Settings, NEW clear \in BOOLEAN, update_settings(s, clear) PROVE AffTypeOK'
  BY <1>3 DEF update_settings, AffTypeOK
<1>4. ASSUME NEW rate \in Overrides \cup {NoRate}, update_user_rate(rate) PROVE AffTypeOK'
  BY <1>4 DEF update_user_rate, AffTypeOK
<1>5. CASE attribute_new_user
  BY <1>5 DEF attribute_new_user, AffTypeOK
<1>6. CASE SuspendProfile
  BY <1>6 DEF SuspendProfile, AffTypeOK
<1> QED
  BY <1>1, <1>2, <1>3, <1>4, <1>5, <1>6 DEF AffRequest

\* Every step of the affiliate programme keeps the types.
LEMMA AffTypeStep == AffIInv /\ AffTypeOK /\ [AffNext]_affAll => AffTypeOK'
<1> SUFFICES ASSUME AffIInv, AffTypeOK, [AffNext]_affAll PROVE AffTypeOK'
  OBVIOUS
<1>1. ASSUME NEW h \in Hooks, Webhook(h) PROVE AffTypeOK'
  <2>1. UNCHANGED <<now, config, override, suspended, attributed>>
    BY <1>1 DEF Webhook
  <2>2. ASSUME NEW i \in Invoices, NEW base \in Amounts, create_commission_from_paid_invoice(h, i, base),
               UNCHANGED commission
        PROVE  AffTypeOK'
    BY <2>1, <2>2, CreateType, AffiliatesAssumption DEF AffTypeOK
  <2>3. ASSUME NEW i \in Invoices, NEW refund \in Amounts \cup {NoAmount}, reverse_commission(h, i, refund),
               UNCHANGED commission
        PROVE  AffTypeOK'
    BY <2>1, <2>3, ReverseType, AffiliatesAssumption DEF AffTypeOK
  <2>4. CASE WriteCommission(h)
    BY <2>1, <2>4, WriteType DEF AffTypeOK
  <2>5. CASE Reads(h, NoCommission) /\ UNCHANGED commission
    BY <2>1, <2>5, ReadsType DEF AffTypeOK
  <2> QED
    BY <1>1, <2>2, <2>3, <2>4, <2>5 DEF Webhook
<1>2. CASE now' = now + 1 /\ UNCHANGED affVars
  BY <1>2 DEF affVars, AffTypeOK
<1>3. CASE UNCHANGED affAll
  BY <1>3 DEF affAll, affVars, AffTypeOK
<1> QED
  BY <1>1, <1>2, <1>3, RequestType DEF AffNext

\* Settings, rates, dates, commission rows and what webhooks are to write keep
\* their types.
THEOREM AffTypeCorrect == AffSpec => []AffTypeOK
<1>1. now = 0 /\ AffInit => AffTypeOK
  <2>1. NoCommission \in Commission \cup {NoCommission} /\ NoCommission \in Txn \cup {NoCommission}
    OBVIOUS
  <2>2. AffInit => /\ commission \in [Invoices -> Commission \cup {NoCommission}]
                   /\ txn \in [Hooks -> Txn \cup {NoCommission}]
    BY <2>1 DEF AffInit
  <2>3. AffInit => attributed \in BOOLEAN /\ suspended \in BOOLEAN
    BY Zenon DEF AffInit
  <2>4. AffInit => config \in Settings /\ override \in Overrides \cup {NoRate}
    BY Zenon DEF AffInit
  <2>5. now = 0 => now \in Nat
    OBVIOUS
  <2> QED
    BY <2>2, <2>3, <2>4, <2>5, Zenon DEF AffTypeOK
<1> QED
  BY <1>1, AffInitIInv, AffNextIInv, AffTypeStep, PTL DEF AffSpec, affAll

-----------------------------------------------------------------------------
(* The types of billing, and the commissions its invoices earn.            *)

\* The row stays while a request waits for the provider, or a webhook that
\* read it is in progress.
RowStays ==
    /\ \A r \in Tabs :
         tab[r].at \in {"changing", "canceling", "changed", "canceled"} => sub \in BillingSubscription
    /\ \A h \in Hooks : hook[h] # Idle /\ hook[h].seen # NoRow => sub \in BillingSubscription

\* Every event but a refund tells of a subscription, a paid invoice of its
\* amount.
Tells(e) == /\ e.kind # "refund" => e.snap \in Snapshot
            /\ e.kind = "paid" => e.amount \in Nat

EventsTell == /\ \A e \in events : Tells(e)
              /\ \A h \in Hooks : hook[h] # Idle => Tells(hook[h].event)

BillTyped == BillTypeOK /\ now \in 0..MaxNow /\ RowStays /\ EventsTell

\* The ends of periods and of grace periods that begin now.
LEMMA TimesFromNow ==
  ASSUME now \in 0..MaxNow
  PROVE  /\ now + PeriodLength \in Times /\ now + GraceLength \in Times /\ 0 \in Times
         /\ NoTime \notin Times
  BY BillingAssumption DEF Times, NoTime

\* What a request in progress holds.
LEMMA TabFields ==
  ASSUME NEW t \in Tab
  PROVE  /\ t.at = "creating" => t.target \in Products
         /\ t.at \in {"changing", "canceling", "changed", "canceled"} =>
              t.target \in Products /\ t.seen \in BillingSubscription
         /\ t.at \in {"changed", "canceled"} => t.answer \in Snapshot
<1>1. CASE t = Idle
  BY <1>1 DEF Idle
<1>2. CASE t \in [at : {"creating"}, target : Products]
  BY <1>2
<1>3. CASE t \in [at : {"changing", "canceling"}, target : Products, seen : BillingSubscription]
  BY <1>3
<1>4. CASE t \in [at : {"changed", "canceled"}, target : Products, seen : BillingSubscription,
                  answer : Snapshot]
  BY <1>4
<1> QED
  BY <1>1, <1>2, <1>3, <1>4 DEF Tab

\* What a webhook in progress holds.
LEMMA HookFields ==
  ASSUME NEW x \in Hook, x # Idle
  PROVE  x.event \in Event /\ x.seen \in BillingSubscription \cup {NoRow}
  BY DEF Hook

\* One or two events at a time.
LEMMA KindsCounted ==
  ASSUME NEW kinds \in {{"created"}, {"created", "paid"}, {"updated"}, {"paid"}, {"failed"}, {"deleted"}}
  PROVE  Cardinality(kinds) \in 1..2
<1>1. \A x : Cardinality({x}) = 1 /\ IsFiniteSet({x})
  BY FS_Singleton
<1>2. {"created", "paid"} = {"created"} \cup {"paid"}
  OBVIOUS
<1>3. Cardinality({"created"} \cup {"paid"}) = Cardinality({"created"}) + 1
  <2>1. "paid" \notin {"created"}
    OBVIOUS
  <2> QED
    BY <1>1, <2>1, FS_AddElement
<1>4. Cardinality({"created", "paid"}) = 2
  BY <1>1, <1>2, <1>3
<1>5. CASE kinds = {"created", "paid"}
  BY <1>4, <1>5
<1>6. CASE kinds # {"created", "paid"}
  <2>1. \E x : kinds = {x}
    BY <1>6
  <2> QED
    BY <1>1, <2>1
<1> QED
  BY <1>5, <1>6

\* The provider's subscriptions and events keep their types.
LEMMA EmitTyped ==
  ASSUME BillTyped, NEW s \in ProviderSubs, NEW r \in Remote, r.status \in BillingStatus,
         NEW kinds \in {{"created"}, {"created", "paid"}, {"updated"}, {"paid"}, {"failed"}, {"deleted"}},
         Emit(s, r, kinds), hook' = hook
  PROVE  /\ remote' \in [ProviderSubs -> Remote] /\ events' \subseteq Event
         /\ emitted' \in 0..MaxEvents /\ EventsTell'
<1> USE BillingAssumption
<1> DEFINE n == Cardinality(kinds)
           ids == [k \in kinds |-> emitted + (IF k = "paid" THEN n ELSE 1)]
           told(end) == {[kind |-> k, snap |-> Snap(s, r, end), id |-> ids[k],
                          inv |-> ids[k], amount |-> 5 * (r.product + 1)] : k \in kinds}
<1>1. n \in 1..2 /\ emitted \in 0..MaxEvents /\ emitted + n <= MaxEvents
  BY KindsCounted DEF BillTyped, BillTypeOK, Emit
<1>2. emitted' \in 0..MaxEvents
  BY <1>1 DEF Emit
<1>3. remote' \in [ProviderSubs -> Remote]
  BY DEF BillTyped, BillTypeOK, Emit
<1>4. PICK end \in Times \cup {NoTime} : events' = events \cup told(end)
  <2>1. Told(r) \subseteq Times \cup {NoTime}
    BY DEF Told, Remote
  <2>2. \E end \in IF kinds \cap SubscriptionKinds = {} THEN {NoTime} ELSE Told(r) :
          events' = events \cup told(end)
    BY DEF Emit
  <2> QED
    BY <2>1, <2>2
<1>5. 5 * (r.product + 1) \in Nat
  BY DEF Remote, Products
<1>6. \A k \in kinds : ids[k] \in 1..MaxEvents
  BY <1>1
<1>7. kinds \subseteq {"created", "updated", "deleted", "failed", "paid", "refund"}
  OBVIOUS
<1>8. Snap(s, r, end) \in Snapshot
  BY DEF Snap, Snapshot, Remote
<1> HIDE DEF ids
<1>9. told(end) \subseteq Event
  BY <1>5, <1>6, <1>7, <1>8 DEF Event
<1>10. \A e \in told(end) : Tells(e)
  BY <1>5, <1>8 DEF Tells
<1>11. EventsTell'
  BY <1>4, <1>10 DEF BillTyped, EventsTell
<1> QED
  BY <1>2, <1>3, <1>4, <1>9, <1>11 DEF BillTyped, BillTypeOK

\* What a sold period makes of paidUntil.
LEMMA SoldTyped ==
  ASSUME BillTyped, NEW r \in Remote, Sold(r)
  PROVE  paidUntil' \in Times
  BY DEF BillTyped, BillTypeOK, Sold, Remote

\* The provider's own steps.
LEMMA ProviderTyped ==
  ASSUME BillTyped, NEW s \in ProviderSubs,
         \/ \E p \in Products : CheckoutPaid(s, p)
         \/ Renews(s) \/ RenewalFails(s) \/ SubscriptionEnds(s)
  PROVE  BillTyped'
<1> SUFFICES ASSUME NEW r \in Remote, r.status \in BillingStatus,
                    NEW kinds \in {{"created"}, {"created", "paid"}, {"updated"}, {"paid"},
                                   {"failed"}, {"deleted"}},
                    Emit(s, r, kinds), paidUntil' \in Times, sessions' \subseteq sessions,
                    UNCHANGED <<sub, tab, hook, guard, now>>
             PROVE  BillTyped'
  <2>0. remote[s] \in Remote
    BY DEF BillTyped, BillTypeOK
  <2>1. ASSUME NEW p \in Products, CheckoutPaid(s, p) PROVE BillTyped'
    <3> DEFINE r == [status |-> "active", product |-> p,
                     periodEnd |-> now + PeriodLength, cancelAtEnd |-> FALSE]
    <3>1. r \in Remote /\ r.status \in BillingStatus
      BY TimesFromNow DEF BillTyped, Remote, BillingStatus
    <3>2. Sold(r) /\ UNCHANGED <<sub, tab, hook, guard, now>> /\ sessions' \subseteq sessions
      BY <2>1 DEF CheckoutPaid
    <3>3. PICK kinds \in {{"created"}, {"created", "paid"}} : Emit(s, r, kinds)
      BY <2>1 DEF CheckoutPaid
    <3> HIDE DEF r
    <3>4. paidUntil' \in Times
      BY <3>1, <3>2, SoldTyped
    <3> QED
      BY <3>1, <3>2, <3>3, <3>4
  <2>2. ASSUME Renews(s) PROVE BillTyped'
    <3> DEFINE r == [remote[s] EXCEPT !.status = "active", !.periodEnd = now + PeriodLength]
    <3>1. r \in Remote /\ r.status \in BillingStatus
      BY <2>0, TimesFromNow DEF BillTyped, Remote, BillingStatus
    <3>2. Sold(r) /\ UNCHANGED <<sub, tab, hook, guard, now>> /\ sessions' \subseteq sessions
      BY <2>2 DEF Renews
    <3>3. PICK kinds \in {{"updated"}, {"paid"}} : Emit(s, r, kinds)
      BY <2>2 DEF Renews
    <3> HIDE DEF r
    <3>4. paidUntil' \in Times
      BY <3>1, <3>2, SoldTyped
    <3> QED
      BY <3>1, <3>2, <3>3, <3>4
  <2>3. ASSUME RenewalFails(s) \/ SubscriptionEnds(s) PROVE BillTyped'
    <3>1. PICK status \in {"past_due", "canceled", "unpaid"},
               kinds \in {{"failed"}, {"updated"}, {"deleted"}} :
            Emit(s, [remote[s] EXCEPT !.status = status], kinds)
      BY <2>3 DEF RenewalFails, SubscriptionEnds
    <3> DEFINE r == [remote[s] EXCEPT !.status = status]
    <3>2. r \in Remote /\ r.status \in BillingStatus
      BY <2>0 DEF Remote, BillingStatus
    <3>3. UNCHANGED <<sub, tab, hook, guard, now, sessions, paidUntil>>
      BY <2>3 DEF RenewalFails, SubscriptionEnds
    <3>4. paidUntil' \in Times
      BY <3>3 DEF BillTyped, BillTypeOK
    <3> HIDE DEF r
    <3> QED
      BY <3>1, <3>2, <3>3, <3>4 DEF r
  <2> QED
    BY <2>1, <2>2, <2>3
<1>1. /\ remote' \in [ProviderSubs -> Remote] /\ events' \subseteq Event
      /\ emitted' \in 0..MaxEvents /\ EventsTell'
  BY EmitTyped
<1> QED
  BY <1>1 DEF BillTyped, BillTypeOK, RowStays

\* A payload makes a row of a row.
LEMMA AppliedTyped ==
  ASSUME now \in 0..MaxNow, NEW s \in BillingSubscription, NEW snap \in Snapshot, NEW deleted
  PROVE  apply_subscription_payload(s, snap, deleted) \in BillingSubscription
<1> DEFINE status == _status(snap, deleted)
           kept == pending_matches(s, snap)
<1>1. status \in BillingStatus
  BY DEF _status, Snapshot, BillingStatus
<1>2. Grace(s, status) \in Times \cup {NoTime}
  BY TimesFromNow DEF Grace, BillingSubscription
<1>3. /\ snap.pid \in ProviderSubs /\ snap.periodEnd \in Times \cup {NoTime} /\ snap.cancelAtEnd \in BOOLEAN
      /\ snap.product \in Products
  BY DEF Snapshot
<1>4. /\ (IF kept THEN s.product ELSE snap.product) \in Products
      /\ (IF kept THEN s.pending ELSE NoProduct) \in Products \cup {NoProduct}
      /\ (IF kept THEN s.pendingAt ELSE NoTime) \in Times \cup {NoTime}
  BY <1>3 DEF BillingSubscription
<1> HIDE DEF status, kept
<1> QED
  BY <1>1, <1>2, <1>3, <1>4 DEF apply_subscription_payload, BillingSubscription, status, kept

\* So does a commit of some of its columns.
LEMMA WrittenTyped ==
  ASSUME NEW seen \in BillingSubscription, NEW new \in BillingSubscription, sub \in BillingSubscription
  PROVE  Written(seen, new) \in BillingSubscription
<1> DEFINE w == Written(seen, new)
<1>1. DOMAIN new = RowFields
  BY DEF BillingSubscription, RowFields
<1>2. w = [f \in RowFields |-> IF new[f] # seen[f] THEN new[f] ELSE sub[f]]
  BY <1>1 DEF Written
<1>3. \A f \in RowFields : w[f] \in {new[f], sub[f]}
  BY <1>2
<1>4. /\ w.pid \in {new.pid, sub.pid} /\ w.product \in {new.product, sub.product}
      /\ w.status \in {new.status, sub.status} /\ w.periodEnd \in {new.periodEnd, sub.periodEnd}
      /\ w.cancelAtEnd \in {new.cancelAtEnd, sub.cancelAtEnd}
      /\ w.graceEnd \in {new.graceEnd, sub.graceEnd} /\ w.pending \in {new.pending, sub.pending}
      /\ w.pendingAt \in {new.pendingAt, sub.pendingAt}
  BY <1>3 DEF RowFields
<1>5. w = [pid |-> w.pid, product |-> w.product, status |-> w.status, periodEnd |-> w.periodEnd,
           cancelAtEnd |-> w.cancelAtEnd, graceEnd |-> w.graceEnd, pending |-> w.pending,
           pendingAt |-> w.pendingAt]
  BY <1>2 DEF RowFields
<1> HIDE DEF w
<1>6. /\ w.pid \in ProviderSubs /\ w.product \in Products /\ w.status \in BillingStatus
      /\ w.periodEnd \in Times \cup {NoTime} /\ w.cancelAtEnd \in BOOLEAN /\ w.graceEnd \in Times \cup {NoTime}
      /\ w.pending \in Products \cup {NoProduct} /\ w.pendingAt \in Times \cup {NoTime}
  <2>1. ASSUME NEW x \in BillingSubscription
        PROVE  /\ x.pid \in ProviderSubs /\ x.product \in Products /\ x.status \in BillingStatus
               /\ x.periodEnd \in Times \cup {NoTime} /\ x.cancelAtEnd \in BOOLEAN
               /\ x.graceEnd \in Times \cup {NoTime}
               /\ x.pending \in Products \cup {NoProduct} /\ x.pendingAt \in Times \cup {NoTime}
    BY DEF BillingSubscription
  <2>2. w.cancelAtEnd \in BOOLEAN
    BY <1>4, <2>1, Zenon
  <2> QED
    BY <1>4, <2>1, <2>2
<1>7. w \in BillingSubscription
  BY <1>5, <1>6, Zenon DEF BillingSubscription
<1> QED
  BY <1>7 DEF w

\* An event makes a row, or none, of what was read.
LEMMA RowAfterTyped ==
  ASSUME now \in 0..MaxNow, NEW s \in BillingSubscription \cup {NoRow}, NEW e \in Event, Tells(e)
  PROVE  RowAfter(s, e) = s \/ RowAfter(s, e) \in BillingSubscription
<1>1. CASE e.kind \in SubscriptionKinds
  <2> DEFINE from == IF s = NoRow THEN BlankRow(e.snap) ELSE s
  <2>1. e.snap \in Snapshot
    BY <1>1 DEF Tells, SubscriptionKinds
  <2>2. from \in BillingSubscription
    <3>1. BlankRow(e.snap) \in BillingSubscription
      BY <2>1, TimesFromNow DEF BlankRow, BillingSubscription, Snapshot, BillingStatus
    <3> QED
      BY <3>1
  <2>3. \/ RowAfter(s, e) = s
        \/ RowAfter(s, e) = apply_subscription_payload(from, e.snap, e.kind = "deleted")
    <3>1. RowAfter(s, e) = SubscriptionEvent(s, e)
      BY <1>1 DEF RowAfter, SubscriptionKinds
    <3> QED
      BY <3>1, Zenon DEF SubscriptionEvent
  <2> HIDE DEF from
  <2> QED
    BY <2>1, <2>2, <2>3, AppliedTyped
<1>2. CASE e.kind \in {"failed", "paid"} /\ RowAfter(s, e) # s
  <2>1. /\ s # NoRow
        /\ \/ RowAfter(s, e) = [s EXCEPT !.status = "past_due", !.graceEnd = Grace(s, "past_due")]
           \/ RowAfter(s, e) = [s EXCEPT !.status = "active", !.graceEnd = NoTime]
    BY <1>2 DEF RowAfter, PaymentFailed, InvoicePaid, Earns, Linked, SubscriptionKinds
  <2>2. s \in BillingSubscription
    BY <2>1
  <2>3. Grace(s, "past_due") \in Times \cup {NoTime}
    BY <2>2, TimesFromNow DEF Grace, BillingSubscription
  <2>4. ASSUME NEW status \in BillingStatus, NEW g \in Times \cup {NoTime}
        PROVE  [s EXCEPT !.status = status, !.graceEnd = g] \in BillingSubscription
    BY <2>2 DEF BillingSubscription
  <2>5. "past_due" \in BillingStatus /\ "active" \in BillingStatus
    BY DEF BillingStatus
  <2> QED
    BY <2>1, <2>3, <2>4, <2>5, Zenon
<1>3. CASE e.kind = "refund"
  BY <1>3 DEF RowAfter, SubscriptionKinds
<1> QED
  BY <1>1, <1>2, <1>3 DEF Event, SubscriptionKinds

\* A webhook that goes on to hold x.
LEMMA HookMovesTyped ==
  ASSUME BillTyped, NEW h \in Hooks, NEW x \in Hook, HookMoves(h, x),
         UNCHANGED <<tab, guard, sessions, remote, emitted, paidUntil, now>>, events' \subseteq events,
         sub' = sub \/ sub' \in BillingSubscription,
         x # Idle => Tells(x.event) /\ (x.seen # NoRow => sub' \in BillingSubscription)
  PROVE  BillTyped'
<1>1. hook \in [Hooks -> Hook] /\ hook' = [hook EXCEPT ![h] = x]
  BY DEF BillTyped, BillTypeOK, HookMoves
<1>2. /\ hook' \in [Hooks -> Hook] /\ hook'[h] = x
      /\ \A g \in Hooks \ {h} : hook'[g] = hook[g]
  BY <1>1
<1>3. RowStays'
  BY <1>2 DEF BillTyped, BillTypeOK, RowStays
<1>4. EventsTell'
  BY <1>2 DEF BillTyped, EventsTell
<1> QED
  BY <1>2, <1>3, <1>4 DEF BillTyped, BillTypeOK

\* A webhook reads the row as it is.
LEMMA HookReadsTyped ==
  ASSUME BillTyped, NEW h \in Hooks, NEW e \in events, process_webhook_event(h, e)
  PROVE  BillTyped'
<1> DEFINE x == [at |-> "read", event |-> e, seen |-> sub]
<1>1. /\ HookMoves(h, x)
      /\ UNCHANGED <<sub, tab, guard, sessions, remote, events, emitted, paidUntil, now>>
  BY DEF process_webhook_event
<1>2. x \in Hook /\ Tells(e)
  BY DEF BillTyped, BillTypeOK, EventsTell, Hook
<1>3. sub # NoRow => sub \in BillingSubscription
  BY DEF BillTyped, BillTypeOK
<1> QED
  BY <1>1, <1>2, <1>3, HookMovesTyped

\* No webhook is one, too.
LEMMA IdleIsHook == Idle \in Hook
  BY DEF Hook

\* Its commit leaves a row or none.
LEMMA HookCommitsTyped ==
  ASSUME BillTyped, NEW h \in Hooks, commit_webhook_event(h)
  PROVE  BillTyped'
<1> DEFINE seen == hook[h].seen
           e == hook[h].event
           new == RowAfter(seen, e)
<1>1. /\ HookMoves(h, Idle) /\ hook[h] # Idle
      /\ UNCHANGED <<tab, guard, sessions, remote, emitted, paidUntil, now>> /\ events' \subseteq events
      /\ IF seen = NoRow
         THEN sub' = (IF new = NoRow THEN sub ELSE new) /\ (new # NoRow => sub = NoRow)
         ELSE sub' = Written(seen, new)
  BY DEF commit_webhook_event
<1>2. hook[h] \in Hook /\ now \in 0..MaxNow /\ Tells(e)
  BY <1>1 DEF BillTyped, BillTypeOK, EventsTell
<1>3. seen \in BillingSubscription \cup {NoRow} /\ e \in Event
  BY <1>1, <1>2, HookFields
<1>4. seen # NoRow => sub \in BillingSubscription
  BY <1>1 DEF BillTyped, RowStays
<1>5. new = seen \/ new \in BillingSubscription
  BY <1>2, <1>3, RowAfterTyped
<1> HIDE DEF seen, new
<1>6. sub' = sub \/ sub' \in BillingSubscription
  <2>1. CASE seen = NoRow
    BY <1>1, <1>5, <2>1
  <2>2. CASE seen # NoRow
    <3>1. seen \in BillingSubscription /\ new \in BillingSubscription /\ sub \in BillingSubscription
      BY <2>2, <1>3, <1>4, <1>5
    <3> QED
      BY <3>1, <2>2, <1>1, WrittenTyped
  <2> QED
    BY <2>1, <2>2
<1> QED
  BY <1>1, <1>6, IdleIsHook, HookMovesTyped

\* Its rollback leaves the row as it is.
LEMMA HookRollsBackTyped ==
  ASSUME BillTyped, NEW h \in Hooks, roll_back_webhook_event(h)
  PROVE  BillTyped'
<1>1. /\ HookMoves(h, Idle)
      /\ UNCHANGED <<sub, tab, guard, sessions, remote, events, emitted, paidUntil, now>>
  BY DEF roll_back_webhook_event
<1> QED
  BY <1>1, IdleIsHook, HookMovesTyped

\* A request that goes on to hold t.
LEMMA MovesTyped ==
  ASSUME BillTyped, NEW r \in Tabs, NEW t \in Tab, Moves(r, t),
         sub' \in BillingSubscription \cup {NoRow},
         sub \in BillingSubscription => sub' \in BillingSubscription,
         t.at \in {"changing", "canceling", "changed", "canceled"} => sub' \in BillingSubscription,
         hook' = hook
  PROVE  tab' \in [Tabs -> Tab] /\ RowStays'
<1>1. tab \in [Tabs -> Tab] /\ tab' = [tab EXCEPT ![r] = t]
  BY DEF BillTyped, BillTypeOK, Moves
<1>2. tab'[r] = t /\ \A q \in Tabs \ {r} : tab'[q] = tab[q]
  BY <1>1
<1>3. RowStays'
  BY <1>2 DEF BillTyped, RowStays
<1> QED
  BY <1>1, <1>3

\* The kinds of what a request may hold.
LEMMA TabsMade ==
  /\ Idle \in Tab /\ Idle.at = "idle"
  /\ \A p \in Products : [at |-> "creating", target |-> p] \in Tab
  /\ \A at \in {"changing", "canceling"}, p \in Products, s \in BillingSubscription :
       [at |-> at, target |-> p, seen |-> s] \in Tab
  /\ \A at \in {"changed", "canceled"}, p \in Products, s \in BillingSubscription, a \in Snapshot :
       [at |-> at, target |-> p, seen |-> s, answer |-> a] \in Tab
  BY DEF Tab, Idle

\* The requests that read the row or open a checkout.
LEMMA RequestStartsTyped ==
  ASSUME BillTyped, NEW r \in Tabs,
         \/ \E p \in Products : AcquireCheckout(r, p) \/ StartChange(r, p)
         \/ CreateCheckout(r) \/ StartCancel(r) \/ ProviderRefuses(r)
  PROVE  BillTyped'
<1>1. ASSUME NEW t \in Tab, Moves(r, t), UNCHANGED <<sub, hook, remote, events, emitted, paidUntil, now>>,
             t.at \in {"changing", "canceling", "changed", "canceled"} => sub \in BillingSubscription,
             guard' \in {"none", "creating", "url"}, sessions' \subseteq Products
      PROVE  BillTyped'
  <2>1. tab' \in [Tabs -> Tab] /\ RowStays'
    BY <1>1, MovesTyped DEF BillTyped, BillTypeOK
  <2> QED
    BY <2>1, <1>1 DEF BillTyped, BillTypeOK, EventsTell
<1>2. guard \in {"none", "creating", "url"} /\ sessions \subseteq Products /\ tab[r] \in Tab
      /\ sub \in BillingSubscription \cup {NoRow}
  BY DEF BillTyped, BillTypeOK
<1>3. ASSUME NEW p \in Products, AcquireCheckout(r, p) PROVE BillTyped'
  <2> DEFINE t == [at |-> "creating", target |-> p]
  <2>1. t \in Tab /\ t.at = "creating"
    BY TabsMade
  <2>2. /\ Moves(r, t) /\ guard' = "creating"
        /\ UNCHANGED <<sub, hook, sessions, remote, events, emitted, paidUntil, now>>
    BY <1>3 DEF AcquireCheckout
  <2> HIDE DEF t
  <2> QED
    BY <2>1, <2>2, <1>1, <1>2
<1>4. ASSUME NEW at \in {"changing", "canceling"}, NEW p \in Products, sub # NoRow,
             Moves(r, [at |-> at, target |-> p, seen |-> sub]),
             UNCHANGED <<sub, hook, guard, sessions, remote, events, emitted, paidUntil, now>>
      PROVE  BillTyped'
  <2> DEFINE t == [at |-> at, target |-> p, seen |-> sub]
  <2>1. sub \in BillingSubscription
    BY <1>2, <1>4
  <2>2. t \in Tab
    BY <2>1, TabsMade
  <2> HIDE DEF t
  <2> QED
    BY <2>1, <2>2, <1>1, <1>2, <1>4 DEF t
<1>5. ASSUME NEW p \in Products, StartChange(r, p) PROVE BillTyped'
  BY <1>5, <1>4 DEF StartChange, NeedsCheckout
<1>6. CASE StartCancel(r)
  <2>1. sub # NoRow /\ sub.product \in Products
    BY <1>6, <1>2 DEF StartCancel, BillingSubscription
  <2> QED
    BY <1>6, <2>1, <1>4 DEF StartCancel
<1>7. CASE CreateCheckout(r)
  <2>1. tab[r].target \in Products
    BY <1>7, <1>2, TabFields DEF CreateCheckout
  <2>2. sessions' \subseteq Products /\ guard' \in {"none", "creating", "url"}
    BY <1>2, <1>7, <2>1 DEF CreateCheckout
  <2> QED
    BY <2>2, <1>1, <1>7, TabsMade DEF CreateCheckout
<1>8. CASE ProviderRefuses(r)
  BY <1>8, <1>1, <1>2, TabsMade DEF ProviderRefuses
<1> QED
  BY <1>3, <1>5, <1>6, <1>7, <1>8

\* The provider carries a request out.
LEMMA RequestAnsweredTyped ==
  ASSUME BillTyped, NEW r \in Tabs, change_plan(r) \/ cancel_at_period_end(r)
  PROVE  BillTyped'
<1> DEFINE s == tab[r].seen.pid
<1>1. /\ tab[r].at \in {"changing", "canceling"} /\ UNCHANGED paidUntil
      /\ remote[s].status \in {"active", "past_due"}
  BY DEF change_plan, cancel_at_period_end
<1>2. tab[r] \in Tab /\ tab[r].target \in Products /\ tab[r].seen \in BillingSubscription
      /\ sub \in BillingSubscription
  <2>1. tab[r] \in Tab
    BY DEF BillTyped, BillTypeOK
  <2> QED
    BY <2>1, <1>1, TabFields DEF BillTyped, RowStays
<1>3. s \in ProviderSubs
  BY <1>2 DEF BillingSubscription
<1>4. remote[s] \in Remote
  BY <1>3 DEF BillTyped, BillTypeOK
<1>5. PICK new \in Remote, at \in {"changed", "canceled"}, end \in Times \cup {NoTime} :
        new.status \in BillingStatus /\ Answers(r, Answer(r, at, new, end), s, new)
  <2> DEFINE moved == [remote[s] EXCEPT !.product = tab[r].target]
             ended == [remote[s] EXCEPT !.cancelAtEnd = TRUE]
  <2>1. moved \in Remote /\ moved.status \in BillingStatus
    BY <1>1, <1>2, <1>4 DEF Remote, BillingStatus
  <2>2. ended \in Remote /\ ended.status \in BillingStatus
    BY <1>1, <1>4 DEF Remote, BillingStatus
  <2>3. \/ \E end \in Told(moved) : Answers(r, Answer(r, "changed", moved, end), s, moved)
        \/ \E end \in Told(ended) : Answers(r, Answer(r, "canceled", ended, end), s, ended)
    BY Zenon DEF change_plan, cancel_at_period_end
  <2>4. Told(moved) \subseteq Times \cup {NoTime} /\ Told(ended) \subseteq Times \cup {NoTime}
    BY <1>4 DEF Told, Remote
  <2> HIDE DEF moved, ended
  <2> QED
    BY <2>1, <2>2, <2>3, <2>4
<1>6. Answer(r, at, new, end) \in Tab
  <2>1. Snap(s, new, end) \in Snapshot
    BY <1>3, <1>5 DEF Snap, Snapshot, Remote
  <2> QED
    BY <2>1, <1>2, TabsMade DEF Answer
<1>7. UNCHANGED <<sub, hook, guard, sessions, now>>
  BY <1>5 DEF Answers
<1>8. tab' \in [Tabs -> Tab] /\ RowStays'
  <2>1. CASE Moves(r, Idle)
    BY <2>1, <1>2, <1>7, TabsMade, MovesTyped
  <2>2. CASE Moves(r, Answer(r, at, new, end))
    BY <2>2, <1>2, <1>6, <1>7, MovesTyped
  <2> QED
    BY <1>5, <2>1, <2>2 DEF Answers
<1>9. /\ remote' \in [ProviderSubs -> Remote] /\ events' \subseteq Event
      /\ emitted' \in 0..MaxEvents /\ EventsTell'
  <2>1. Emit(s, new, {"updated"}) /\ hook' = hook
    BY <1>5, <1>7 DEF Answers
  <2> QED
    BY <2>1, <1>3, <1>5, EmitTyped
<1> QED
  BY <1>1, <1>7, <1>8, <1>9 DEF BillTyped, BillTypeOK

\* What a request writes after its wait is a row.
LEMMA RequestWritesTyped ==
  ASSUME BillTyped, NEW r \in Tabs, start_checkout_or_change_plan(r) \/ cancel_subscription(r)
  PROVE  BillTyped'
<1>1. /\ tab[r].at \in {"changed", "canceled"} /\ Moves(r, Idle)
      /\ UNCHANGED <<hook, guard, sessions, remote, events, emitted, paidUntil, now>>
  BY DEF start_checkout_or_change_plan, cancel_subscription
<1>2. /\ tab[r].target \in Products /\ tab[r].seen \in BillingSubscription
      /\ tab[r].answer \in Snapshot /\ sub \in BillingSubscription /\ now \in 0..MaxNow
  <2>1. tab[r] \in Tab
    BY DEF BillTyped, BillTypeOK
  <2> QED
    BY <2>1, <1>1, TabFields DEF BillTyped, RowStays
<1>3. PICK new \in BillingSubscription : sub' = Written(tab[r].seen, new)
  <2>1. CASE start_checkout_or_change_plan(r)
    <3> DEFINE up == apply_subscription_payload(tab[r].seen, tab[r].answer, FALSE)
               down == [tab[r].seen EXCEPT !.pending = tab[r].target,
                                           !.pendingAt = tab[r].seen.periodEnd]
    <3>1. sub' = Written(tab[r].seen, up) \/ sub' = Written(tab[r].seen, down)
      BY <2>1 DEF start_checkout_or_change_plan
    <3>2. up \in BillingSubscription
      BY <1>2, AppliedTyped
    <3>3. down \in BillingSubscription
      BY <1>2 DEF BillingSubscription
    <3> QED
      BY <3>1, <3>2, <3>3
  <2>2. CASE cancel_subscription(r)
    <3> DEFINE end == tab[r].answer.periodEnd
               new == [tab[r].seen EXCEPT !.cancelAtEnd = TRUE,
                                          !.periodEnd = IF end = NoTime THEN @ ELSE end]
    <3>1. new \in BillingSubscription
      BY <1>2 DEF BillingSubscription, Snapshot
    <3>2. sub' = Written(tab[r].seen, new)
      BY <2>2 DEF cancel_subscription
    <3> QED
      BY <3>1, <3>2
  <2> QED
    BY <2>1, <2>2
<1>4. sub' \in BillingSubscription
  BY <1>2, <1>3, WrittenTyped
<1>5. tab' \in [Tabs -> Tab] /\ RowStays'
  BY <1>1, <1>4, TabsMade, MovesTyped
<1> QED
  BY <1>1, <1>4, <1>5 DEF BillTyped, BillTypeOK, EventsTell

\* Types, and the affiliate programme's invariant within billing.
BilledIInv == BillTyped /\ AffIInv

\* A step that leaves the programme's rows alone.
LEMMA ProgrammeSame ==
  ASSUME AffIInv, UNCHANGED affVars
  PROVE  AffIInv'
  BY DEF affVars, AffIInv, RowSound, TxnSound, Earned, Standing, Inserting, Inserts, MostMonths

\* A webhook reads what the invoice it names has earned.
LEMMA HookReadsBilled ==
  ASSUME BilledIInv, NEW h \in Hooks, NEW e \in events, process_webhook_event(h, e)
  PROVE  BilledIInv'
<1>1. BillTyped'
  BY HookReadsTyped DEF BilledIInv
<1>2. UNCHANGED <<config, override, commission>>
  BY DEF process_webhook_event
<1>3. e.inv \in Invoices /\ e.amount \in Nat \cup {NoAmount} /\ (e.kind = "paid" => e.amount \in Nat)
  <2>1. e \in Event /\ Tells(e)
    BY DEF BilledIInv, BillTyped, BillTypeOK, EventsTell
  <2> QED
    BY <2>1 DEF Event, Tells
<1>4. \/ create_commission_from_paid_invoice(h, e.inv, e.amount) /\ e.kind = "paid"
      \/ reverse_commission(h, e.inv, e.amount)
      \/ UNCHANGED txn
  BY Zenon DEF process_webhook_event, Earns
<1>5. ASSUME create_commission_from_paid_invoice(h, e.inv, e.amount) /\ e.kind = "paid" PROVE AffIInv'
  BY <1>2, <1>3, <1>5, CreateReads DEF BilledIInv
<1>6. ASSUME reverse_commission(h, e.inv, e.amount) PROVE AffIInv'
  BY <1>2, <1>3, <1>6, ReverseReads DEF BilledIInv
<1>7. ASSUME UNCHANGED txn PROVE AffIInv'
  <2>1. UNCHANGED affVars
    BY <1>7 DEF process_webhook_event, affVars
  <2> QED
    BY <2>1, ProgrammeSame DEF BilledIInv
<1> QED
  BY <1>1, <1>4, <1>5, <1>6, <1>7 DEF BilledIInv

\* It commits or rolls back what it made of that.
LEMMA HookCommitsBilled ==
  ASSUME BilledIInv, NEW h \in Hooks, commit_webhook_event(h)
  PROVE  BilledIInv'
<1>1. WriteCommission(h) /\ UNCHANGED <<config, override>>
  BY DEF commit_webhook_event
<1> QED
  BY <1>1, HookCommitsTyped, CommitBounded DEF BilledIInv

LEMMA HookRollsBackBilled ==
  ASSUME BilledIInv, NEW h \in Hooks, roll_back_webhook_event(h)
  PROVE  BilledIInv'
<1>1. Reads(h, NoCommission) /\ UNCHANGED <<config, override, commission>>
  BY DEF roll_back_webhook_event
<1> QED
  BY <1>1, HookRollsBackTyped, RollBackBounded DEF BilledIInv

\* A refund is of an invoice that was paid.
LEMMA RefundBilled ==
  ASSUME BilledIInv, NEW i \in Invoices, NEW amount \in Amounts \cup {NoAmount}, Refunded(i, amount)
  PROVE  BilledIInv'
<1> USE BillingAssumption, AffiliatesAssumption
<1> DEFINE e == [kind |-> "refund", id |-> emitted + 1, inv |-> i, amount |-> amount,
                 snap |-> NoSnapshot]
<1>1. /\ events' = events \cup {e} /\ emitted' = emitted + 1 /\ emitted < MaxEvents
      /\ UNCHANGED <<sub, tab, hook, guard, sessions, remote, paidUntil, now, affVars>>
  BY DEF Refunded
<1>2. Tells(e)
  BY DEF Tells
<1>3. emitted \in 0..MaxEvents
  BY DEF BilledIInv, BillTyped, BillTypeOK
<1>4. e \in Event
  BY <1>1, <1>3 DEF Event
<1> HIDE DEF e
<1>5. emitted' \in 0..MaxEvents /\ events' \subseteq Event
  BY <1>1, <1>3, <1>4 DEF BilledIInv, BillTyped, BillTypeOK
<1>6. EventsTell' /\ RowStays'
  BY <1>1, <1>2 DEF BilledIInv, BillTyped, EventsTell, RowStays
<1>7. BillTyped'
  BY <1>1, <1>5, <1>6 DEF BilledIInv, BillTyped, BillTypeOK
<1> QED
  BY <1>1, <1>7, ProgrammeSame DEF BilledIInv

\* Every step of billing and of the programme it composes.
LEMMA BilledStep ==
  ASSUME BilledIInv, [BillingNext]_billingVars
  PROVE  BilledIInv'
<1>0. BillTyped
  BY DEF BilledIInv
<1>1. ASSUME NEW s \in ProviderSubs,
             \/ \E p \in Products : CheckoutPaid(s, p)
             \/ Renews(s) \/ RenewalFails(s) \/ SubscriptionEnds(s)
      PROVE  BilledIInv'
  <2>1. UNCHANGED affVars
    BY <1>1 DEF CheckoutPaid, Renews, RenewalFails, SubscriptionEnds
  <2> QED
    BY <1>0, <1>1, <2>1, ProviderTyped, ProgrammeSame DEF BilledIInv
<1>2. ASSUME NEW r \in Tabs,
             \/ \E p \in Products : AcquireCheckout(r, p) \/ StartChange(r, p)
             \/ CreateCheckout(r) \/ StartCancel(r) \/ ProviderRefuses(r)
      PROVE  BilledIInv'
  <2>1. UNCHANGED affVars
    BY <1>2 DEF AcquireCheckout, StartChange, CreateCheckout, StartCancel, ProviderRefuses
  <2> QED
    BY <1>0, <1>2, <2>1, RequestStartsTyped, ProgrammeSame DEF BilledIInv
<1>3. ASSUME NEW r \in Tabs,
             \/ change_plan(r) \/ cancel_at_period_end(r)
             \/ start_checkout_or_change_plan(r) \/ cancel_subscription(r)
      PROVE  BilledIInv'
  <2>1. UNCHANGED affVars
    BY <1>3 DEF change_plan, cancel_at_period_end, Answers, start_checkout_or_change_plan,
       cancel_subscription
  <2>2. BillTyped'
    BY <1>0, <1>3, RequestAnsweredTyped, RequestWritesTyped
  <2> QED
    BY <2>1, <2>2, ProgrammeSame DEF BilledIInv
<1>4. ASSUME Tick PROVE BilledIInv'
  <2>1. /\ now' \in 0..MaxNow /\ guard' = "none"
        /\ UNCHANGED <<sub, tab, hook, sessions, remote, events, emitted, paidUntil, affVars>>
    BY <1>0, <1>4, BillingAssumption DEF Tick, BillTyped
  <2>2. BillTyped'
    BY <1>0, <2>1 DEF BillTyped, BillTypeOK, RowStays, EventsTell
  <2> QED
    BY <2>1, <2>2, ProgrammeSame DEF BilledIInv
<1>5. ASSUME UNCHANGED <<billVars, now>> PROVE BillTyped'
  BY <1>0, <1>5 DEF billVars, BillTyped, BillTypeOK, RowStays, EventsTell
<1>6. ASSUME AffRequest \/ attribute_new_user, UNCHANGED <<billVars, now>> PROVE BilledIInv'
  BY <1>5, <1>6, RequestBounded DEF BilledIInv
<1>7. ASSUME UNCHANGED billingVars PROVE BilledIInv'
  <2>1. UNCHANGED <<billVars, now>> /\ UNCHANGED affVars
    BY <1>7 DEF billingVars
  <2> QED
    BY <1>5, <2>1, ProgrammeSame DEF BilledIInv
<1>8. ASSUME BillStep PROVE BilledIInv'
  BY <1>8, <1>1, <1>2, <1>3, <1>4, HookReadsBilled, HookCommitsBilled, HookRollsBackBilled,
     RefundBilled DEF BillStep
<1> QED
  BY <1>6, <1>7, <1>8 DEF BillingNext

\* A user has no row, request or commission at first.
LEMMA BilledInit == BillingInit => BilledIInv
<1> SUFFICES ASSUME BillingInit PROVE BilledIInv
  OBVIOUS
<1> USE BillingAssumption
<1>1. AffIInv
  BY AffInitIInv DEF BillingInit
<1>3. now \in 0..MaxNow
  BY DEF BillingInit
<1>4. tab \in [Tabs -> Tab] /\ hook \in [Hooks -> Hook] /\ RowStays
  BY TabsMade DEF BillingInit, BillInit, BillInitWith, RowStays, Hook
<1>5. remote \in [ProviderSubs -> Remote] /\ paidUntil \in Times
  BY <1>3, TimesFromNow DEF BillingInit, BillInit, BillInitWith, Unsold, Remote, Products
<1>6. /\ sub \in BillingSubscription \cup {NoRow} /\ guard \in {"none", "creating", "url"}
      /\ sessions \subseteq Products /\ events \subseteq Event /\ emitted \in 0..MaxEvents
      /\ EventsTell
  BY DEF BillingInit, BillInit, BillInitWith, EventsTell
<1> QED
  BY <1>1, <1>3, <1>4, <1>5, <1>6 DEF BilledIInv, BillTyped, BillTypeOK

\* The row, the requests in progress, the provider's subscriptions and its
\* events keep their types, so that every commit of part of a row
\* (SQLAlchemy's flush after a wait) leaves a whole row.
THEOREM BillTypeCorrect == BillingSpec => []BillTypeOK
<1>1. BilledIInv => BillTypeOK
  BY DEF BilledIInv, BillTyped
<1> QED
  BY <1>1, BilledInit, BilledStep, PTL DEF BillingSpec, billingVars

\* Within billing, where webhooks of paid and refunded invoices come late and
\* out of order, read at one moment and commit or roll back at another, between
\* the user's requests and the administrator's settings, the bounds on
\* commissions hold as they do for the programme on its own
\* (_handle_invoice_paid, _handle_refund).
THEOREM BilledCommissionsBounded == BillingSpec => []CommissionsBounded
<1>1. BilledIInv => CommissionsBounded
  BY AffIInvBounds DEF BilledIInv
<1> QED
  BY <1>1, BilledInit, BilledStep, PTL DEF BillingSpec, billingVars

-----------------------------------------------------------------------------
(***************************************************************************)
(* The synchronization of broker accounts: a worker between its report and *)
(* its ingest holds the account's sync lock alone, so that its report      *)
(* covers the journal it writes.                                           *)
(***************************************************************************)
TaskFields == {"msg", "at", "seen", "boot", "started", "from", "history"}

\* The tasks that hold the sync lock of account a.
Syncing(w, a) == Holding(w, a, {"fetch", "ingest"})

\* A task is about an account and asks for the deals since some moment.
TasksShaped ==
    /\ DOMAIN worker = Workers
    /\ \A w \in Workers :
         worker[w] # NoTask =>
            /\ DOMAIN worker[w] = TaskFields /\ worker[w].msg.id \in TradingAccounts
            /\ worker[w].from \in Int

\* Only deals that the broker has closed are in a journal.
JournalIsPast ==
    /\ closed \in Int /\ old \in Int
    /\ DOMAIN trades = TradingAccounts /\ \A a \in TradingAccounts : DOMAIN trades[a] = Deals
    /\ \A a \in TradingAccounts, d \in Deals : trades[a][d] # "none" => d <= closed

\* The sync lock admits one import of an account at a time.
OneImport ==
    \A v, w \in Workers, a \in TradingAccounts : Syncing(v, a) /\ Syncing(w, a) => v = w

\* A report that waits to be ingested still covers the journal: it names
\* every trade of its window that is on file, and only closed deals.
ReportCovers ==
    \A w \in Workers, d \in Deals :
        worker[w] # NoTask /\ worker[w].at = "ingest" =>
            /\ trades[worker[w].msg.id][d] # "none" /\ d > worker[w].from =>
                 worker[w].history[d] # "none"
            /\ worker[w].history[d] # "none" => d <= closed

AcctIInv == TasksShaped /\ JournalIsPast /\ OneImport /\ ReportCovers

\* What JournalKeepsTrades says of a step.
TradesKept ==
    \A a \in TradingAccounts, d \in Deals :
        known'[a] # "deleted" =>
            /\ trades[a][d] # "none" => trades'[a][d] # "none"
            /\ trades[a][d] = "enriched" => trades'[a][d] = "enriched"

\* No worker has a task at first.
LEMMA AcctInitIInv == AcctInit => AcctIInv
  BY DEF AcctInit, AcctIInv, TasksShaped, JournalIsPast, OneImport, ReportCovers, Syncing,
     Holding, NoDeals

\* A deal is known by its time.
LEMMA DealsAreInts == Deals \subseteq Int
  BY DEF Deals

-----------------------------------------------------------------------------
\* A step of the owner, the clock or the broker leaves the workers alone.
LEMMA WorkersUntouched ==
  ASSUME AcctIInv, UNCHANGED <<worker, trades>>, closed' \in Int, closed <= closed', old' \in Int
  PROVE  AcctIInv' /\ TradesKept
<1>1. TasksShaped' /\ OneImport' /\ TradesKept
  BY DEF AcctIInv, TasksShaped, OneImport, Syncing, Holding, TradesKept
<1>2. JournalIsPast'
  BY DealsAreInts DEF AcctIInv, JournalIsPast
<1>3. ReportCovers'
  BY DealsAreInts DEF AcctIInv, JournalIsPast, ReportCovers
<1> QED
  BY <1>1, <1>2, <1>3 DEF AcctIInv

\* Deleting an account leaves the other accounts and their workers alone.
LEMMA DeleteKeepsOthers ==
  ASSUME AcctIInv, NEW a \in TradingAccounts, delete_account(a)
  PROVE  AcctIInv' /\ (DOMAIN known = TradingAccounts => TradesKept)
<1>1. /\ trades' = [trades EXCEPT ![a] = NoDeals] /\ UNCHANGED <<worker, closed, old>>
      /\ known' = [known EXCEPT ![a] = "deleted"]
  BY DEF delete_account
<1>2. /\ DOMAIN trades' = TradingAccounts /\ trades'[a] = NoDeals
      /\ \A b \in TradingAccounts \ {a} : trades'[b] = trades[b]
  BY <1>1 DEF AcctIInv, JournalIsPast
<1>3. \A b \in TradingAccounts, d \in Deals : trades'[b][d] # "none" => trades'[b][d] = trades[b][d]
  BY <1>2 DEF NoDeals
<1>4. TasksShaped' /\ OneImport'
  BY <1>1 DEF AcctIInv, TasksShaped, OneImport, Syncing, Holding
<1>5. JournalIsPast'
  BY <1>1, <1>2, <1>3 DEF AcctIInv, JournalIsPast, NoDeals
<1>6. ReportCovers'
  BY <1>1, <1>3 DEF AcctIInv, ReportCovers, TasksShaped
<1>7. DOMAIN known = TradingAccounts => TradesKept
  BY <1>1, <1>2 DEF TradesKept
<1> QED
  BY <1>4, <1>5, <1>6, <1>7 DEF AcctIInv

\* A worker goes on to something else than ingesting, without touching a journal.
LEMMA WorkerMoves ==
  ASSUME AcctIInv, NEW w \in Workers, NEW t, Go(w, t), UNCHANGED <<trades, closed, old>>,
         t # NoTask =>
            /\ DOMAIN t = TaskFields /\ t.msg.id \in TradingAccounts /\ t.from \in Int
            /\ t.at \in {"loaded", "verify", "lock", "fetch"}
            /\ t.at = "fetch" => SyncLockFree(t.msg.id)
  PROVE  AcctIInv' /\ TradesKept
<1>1. DOMAIN worker' = Workers /\ worker'[w] = t /\ \A v \in Workers \ {w} : worker'[v] = worker[v]
  BY DEF Go, AcctIInv, TasksShaped
<1>2. TasksShaped'
  BY <1>1 DEF AcctIInv, TasksShaped
<1>3. JournalIsPast' /\ TradesKept
  BY DEF AcctIInv, JournalIsPast, TradesKept
<1>4. OneImport'
  <2> SUFFICES ASSUME NEW u \in Workers, NEW v \in Workers, NEW a \in TradingAccounts,
                      Syncing(u, a)', Syncing(v, a)', u # v
               PROVE  FALSE
    BY DEF OneImport
  <2>1. \A x \in Workers \ {w} : Syncing(x, a)' = Syncing(x, a)
    BY <1>1 DEF Syncing, Holding
  <2>2. Syncing(w, a)' => \A x \in Workers : ~Syncing(x, a)
    BY <1>1 DEF Syncing, Holding, SyncLockFree, is_account_sync_locked
  <2> QED
    BY <2>1, <2>2 DEF AcctIInv, OneImport
<1>5. ReportCovers'
  BY <1>1 DEF AcctIInv, ReportCovers
<1> QED
  BY <1>2, <1>3, <1>4, <1>5 DEF AcctIInv

\* A worker that is done holds nothing.
LEMMA WorkerEnds ==
  ASSUME AcctIInv, NEW w \in Workers, Ends(w), UNCHANGED <<trades, closed, old>>
  PROVE  AcctIInv' /\ TradesKept
  BY WorkerMoves DEF Ends

\* A worker takes a task.
LEMMA TaskStartsSafe ==
  ASSUME AcctIInv, NEW w \in Workers, NEW m \in Message, TaskStarts(w, m)
  PROVE  AcctIInv' /\ TradesKept
<1>1. CASE Ends(w)
  BY <1>1, WorkerEnds DEF TaskStarts
<1>2. CASE ~Ends(w)
  <2> DEFINE t == [msg |-> m, at |-> IF m.kind = "bootstrap" THEN "loaded" ELSE "lock",
                   seen |-> account[m.id], boot |-> FALSE, started |-> closed,
                   from |-> 0, history |-> NoDeals]
  <2>1. Go(w, t) /\ UNCHANGED <<trades, closed, old>>
    BY <1>2 DEF TaskStarts
  <2>2. /\ DOMAIN t = TaskFields /\ t.msg.id \in TradingAccounts /\ t.from \in Int
        /\ t.at \in {"loaded", "lock"}
    BY DEF TaskFields, Message
  <2> HIDE DEF t
  <2> QED
    BY <2>1, <2>2, WorkerMoves
<1> QED
  BY <1>1, <1>2

\* A bootstrap takes its account's lock.
LEMMA BootstrapLocksSafe ==
  ASSUME AcctIInv, NEW w \in Workers, BootstrapLocks(w)
  PROVE  AcctIInv' /\ TradesKept
<1>1. CASE Ends(w)
  BY <1>1, WorkerEnds DEF BootstrapLocks
<1>2. CASE ~Ends(w)
  <2> DEFINE s == worker[w]
             t == [s EXCEPT !.boot = TRUE,
                            !.at = IF s.seen.state = "pending_verification"
                                   THEN "verify" ELSE "lock"]
  <2>1. Go(w, t) /\ UNCHANGED <<trades, closed, old>> /\ s # NoTask
    BY <1>2 DEF BootstrapLocks
  <2>2. DOMAIN s = TaskFields /\ s.msg.id \in TradingAccounts /\ s.from \in Int
    BY <2>1 DEF AcctIInv, TasksShaped
  <2>3. /\ DOMAIN t = TaskFields /\ t.msg.id \in TradingAccounts /\ t.from \in Int
        /\ t.at \in {"verify", "lock"}
    BY <2>2 DEF TaskFields
  <2> HIDE DEF t
  <2> QED
    BY <2>1, <2>3, WorkerMoves
<1> QED
  BY <1>1, <1>2

\* The account is verified before the import.
LEMMA VerifiedSafe ==
  ASSUME AcctIInv, NEW w \in Workers, Verified(w)
  PROVE  AcctIInv' /\ TradesKept
<1>1. CASE Ends(w)
  BY <1>1, WorkerEnds DEF Verified
<1>2. CASE ~Ends(w)
  <2> DEFINE s == worker[w]
             t == [s EXCEPT !.at = "lock", !.boot = FALSE, !.seen = account'[s.msg.id]]
  <2>1. Go(w, t) /\ UNCHANGED <<trades, closed, old>> /\ s # NoTask
    BY <1>2 DEF Verified
  <2>2. DOMAIN s = TaskFields /\ s.msg.id \in TradingAccounts /\ s.from \in Int
    BY <2>1 DEF AcctIInv, TasksShaped
  <2>3. /\ DOMAIN t = TaskFields /\ t.msg.id \in TradingAccounts /\ t.from \in Int
        /\ t.at = "lock"
    BY <2>2 DEF TaskFields
  <2> HIDE DEF t
  <2> QED
    BY <2>1, <2>3, WorkerMoves
<1> QED
  BY <1>1, <1>2

\* A synchronization takes its account's lock.
LEMMA SyncLocksSafe ==
  ASSUME AcctIInv, NEW w \in Workers, SyncLocks(w)
  PROVE  AcctIInv' /\ TradesKept
<1>1. CASE Ends(w)
  BY <1>1, WorkerEnds DEF SyncLocks
<1>2. CASE ~Ends(w)
  <2> DEFINE s == worker[w]
             from == IF s.seen.lastSynced \in 0..old THEN s.seen.lastSynced ELSE old
             t == [s EXCEPT !.at = "fetch", !.from = from]
  <2>1. Go(w, t) /\ UNCHANGED <<trades, closed, old>> /\ s # NoTask /\ SyncLockFree(s.msg.id)
    BY <1>2 DEF SyncLocks
  <2>2. DOMAIN s = TaskFields /\ s.msg.id \in TradingAccounts
    BY <2>1 DEF AcctIInv, TasksShaped
  <2>3. from \in Int
    BY DEF AcctIInv, JournalIsPast
  <2>4. /\ DOMAIN t = TaskFields /\ t.msg.id = s.msg.id /\ t.from = from
        /\ t.at = "fetch"
    BY <2>2 DEF TaskFields
  <2> HIDE DEF t, from
  <2> QED
    BY <2>1, <2>2, <2>3, <2>4, WorkerMoves
<1> QED
  BY <1>1, <1>2

\* The report arrives: it was read under the sync lock and names every deal of
\* its window that has closed.
LEMMA FetchedSafe ==
  ASSUME AcctIInv, NEW w \in Workers, Fetched(w)
  PROVE  AcctIInv' /\ TradesKept
<1>1. CASE Ends(w)
  BY <1>1, WorkerEnds DEF Fetched
<1>2. CASE ~Ends(w)
  <2> DEFINE s == worker[w]
  <2>1. s # NoTask /\ s.at = "fetch" /\ UNCHANGED <<trades, closed, old>>
    BY DEF Fetched
  <2>2. PICK h \in Reported(s) : Go(w, [s EXCEPT !.at = "ingest", !.history = h])
    BY <1>2 DEF Fetched
  <2> DEFINE t == [s EXCEPT !.at = "ingest", !.history = h]
  <2>3. DOMAIN s = TaskFields /\ s.msg.id \in TradingAccounts /\ s.from \in Int
    BY <2>1 DEF AcctIInv, TasksShaped
  <2>4. /\ DOMAIN t = TaskFields /\ t.msg = s.msg /\ t.from = s.from
        /\ t.at = "ingest" /\ t.history = h
    BY <2>3 DEF TaskFields
  <2>5. \A d \in Deals : h[d] = "none" <=> ~(s.from < d /\ d <= closed)
    BY DEF Reported
  <2>6. DOMAIN worker' = Workers /\ worker'[w] = t /\ \A v \in Workers \ {w} : worker'[v] = worker[v]
    BY <2>2 DEF Go, AcctIInv, TasksShaped
  <2> HIDE DEF t
  <2>7. TasksShaped'
    BY <2>3, <2>4, <2>6 DEF AcctIInv, TasksShaped
  <2>8. JournalIsPast' /\ TradesKept
    BY <2>1 DEF AcctIInv, JournalIsPast, TradesKept
  <2>9. OneImport'
    <3>1. \A v \in Workers, a \in TradingAccounts : Syncing(v, a)' => Syncing(v, a)
      BY <2>1, <2>4, <2>6 DEF Syncing, Holding
    <3> QED
      BY <3>1 DEF AcctIInv, OneImport
  <2>10. ReportCovers'
    <3> SUFFICES ASSUME NEW v \in Workers, NEW d \in Deals, worker'[v] # NoTask,
                        worker'[v].at = "ingest"
                 PROVE  /\ trades'[worker'[v].msg.id][d] # "none" /\ d > worker'[v].from =>
                             worker'[v].history[d] # "none"
                        /\ worker'[v].history[d] # "none" => d <= closed'
      BY DEF ReportCovers
    <3>1. CASE v # w
      BY <3>1, <2>1, <2>6 DEF AcctIInv, ReportCovers
    <3>2. CASE v = w
      <4>1. trades[s.msg.id][d] # "none" => d <= closed
        BY <2>3 DEF AcctIInv, JournalIsPast
      <4>2. d \in Int /\ closed \in Int
        BY DealsAreInts DEF AcctIInv, JournalIsPast
      <4> QED
        BY <4>1, <4>2, <3>2, <2>1, <2>3, <2>4, <2>5, <2>6
    <3> QED
      BY <3>1, <3>2
  <2> QED
    BY <2>7, <2>8, <2>9, <2>10 DEF AcctIInv
<1> QED
  BY <1>1, <1>2

\* The report is ingested: nobody else has written the journal since it was
\* read, so that nothing on file is missing from it.
LEMMA IngestedSafe ==
  ASSUME AcctIInv, NEW w \in Workers, Ingested(w)
  PROVE  AcctIInv' /\ TradesKept
<1> DEFINE t == worker[w]
           a == t.msg.id
           new == Upserted(Cleaned(trades[a], t), t.history)
<1>1. /\ t # NoTask /\ t.at = "ingest" /\ Ends(w) /\ UNCHANGED <<closed, old>>
      /\ trades' = IF Live(a) THEN [trades EXCEPT ![a] = new] ELSE trades
  BY DEF Ingested
<1>2. a \in TradingAccounts /\ t.from \in Int
  BY <1>1 DEF AcctIInv, TasksShaped
<1>3. \A d \in Deals :
        /\ trades[a][d] # "none" /\ d > t.from => t.history[d] # "none"
        /\ t.history[d] # "none" => d <= closed
  BY <1>1 DEF AcctIInv, ReportCovers
<1>4. \A d \in Deals : Cleaned(trades[a], t)[d] = trades[a][d]
  BY <1>3 DEF Cleaned, valid_broker_trade_ids
<1>5. \A d \in Deals :
        /\ trades[a][d] # "none" => new[d] # "none"
        /\ trades[a][d] = "enriched" => new[d] = "enriched"
        /\ new[d] # "none" => trades[a][d] # "none" \/ t.history[d] # "none"
  BY <1>4 DEF Upserted, rows_to_upsert
<1>6. DOMAIN new = Deals
  BY DEF Upserted
<1> HIDE DEF new
<1>7. /\ DOMAIN trades' = TradingAccounts
      /\ trades'[a] \in {trades[a], new}
      /\ \A b \in TradingAccounts \ {a} : trades'[b] = trades[b]
  BY <1>1, <1>2 DEF AcctIInv, JournalIsPast
<1>8. TradesKept
  BY <1>5, <1>7 DEF TradesKept
<1>9. JournalIsPast'
  BY <1>1, <1>3, <1>5, <1>6, <1>7 DEF AcctIInv, JournalIsPast
<1>10. DOMAIN worker' = Workers /\ worker'[w] = NoTask /\ \A v \in Workers \ {w} : worker'[v] = worker[v]
  BY <1>1 DEF Ends, Go, AcctIInv, TasksShaped
<1>11. TasksShaped'
  BY <1>10 DEF AcctIInv, TasksShaped
<1>12. OneImport'
  <2>1. \A v \in Workers, b \in TradingAccounts : Syncing(v, b)' => Syncing(v, b)
    BY <1>10 DEF Syncing, Holding
  <2> QED
    BY <2>1 DEF AcctIInv, OneImport
<1>13. ReportCovers'
  <2> SUFFICES ASSUME NEW v \in Workers, NEW d \in Deals, worker'[v] # NoTask,
                      worker'[v].at = "ingest"
               PROVE  /\ trades'[worker'[v].msg.id][d] # "none" /\ d > worker'[v].from =>
                           worker'[v].history[d] # "none"
                      /\ worker'[v].history[d] # "none" => d <= closed'
    BY DEF ReportCovers
  <2>1. v # w /\ worker'[v] = worker[v]
    BY <1>10
  <2>2. worker[v].msg.id \in TradingAccounts
    BY <2>1 DEF AcctIInv, TasksShaped
  <2>3. worker[v].msg.id # a
    BY <2>1, <2>2, <1>1 DEF AcctIInv, OneImport, Syncing, Holding
  <2> QED
    BY <2>1, <2>2, <2>3, <1>1, <1>7 DEF AcctIInv, ReportCovers
<1> QED
  BY <1>8, <1>9, <1>11, <1>12, <1>13 DEF AcctIInv

\* Every step keeps AcctIInv and the trades of the journal.
LEMMA AcctStep ==
  ASSUME AcctIInv, DOMAIN known = TradingAccounts, [AcctNext]_acctVars
  PROVE  AcctIInv' /\ DOMAIN known' = TradingAccounts /\ TradesKept
<1>1. DOMAIN known' = TradingAccounts
  BY Zenon DEF AcctNext, acctVars, connect_account, disconnect_account, unarchive_account, delete_account,
     manual_sync, TimePasses, dispatch_bootstrap_account, DealCloses, DealAges, TaskStarts,
     BootstrapLocks, Verified, SyncLocks, Fetched, Ingested, WorkerDies
<1>2. closed \in Int /\ closed + 1 \in Int /\ closed <= closed + 1 /\ old \in Int /\ old + 1 \in Int
      /\ closed <= closed
  BY DEF AcctIInv, JournalIsPast
<1>3. ASSUME NEW a \in TradingAccounts,
             \/ \E c \in Credentials : connect_account(a, c)
             \/ disconnect_account(a) \/ unarchive_account(a)
             \/ manual_sync(a) \/ TimePasses(a) \/ dispatch_bootstrap_account(a)
      PROVE  AcctIInv' /\ TradesKept
  <2>1. UNCHANGED <<worker, trades, closed, old>>
    BY <1>3 DEF connect_account, disconnect_account, unarchive_account, manual_sync, TimePasses,
       dispatch_bootstrap_account
  <2> QED
    BY <2>1, <1>2, WorkersUntouched
<1>4. ASSUME DealCloses \/ DealAges \/ UNCHANGED acctVars
      PROVE  AcctIInv' /\ TradesKept
  <2>1. /\ UNCHANGED <<worker, trades>>
        /\ closed' \in {closed, closed + 1} /\ old' \in {old, old + 1}
    BY <1>4 DEF DealCloses, DealAges, acctVars
  <2> QED
    BY <2>1, <1>2, WorkersUntouched
<1>5. ASSUME NEW a \in TradingAccounts, delete_account(a)
      PROVE  AcctIInv' /\ TradesKept
  BY <1>5, DeleteKeepsOthers
<1>6. ASSUME NEW w \in Workers, WorkerDies(w)
      PROVE  AcctIInv' /\ TradesKept
  BY <1>6, WorkerEnds DEF WorkerDies
<1>7. ASSUME NEW w \in Workers, NEW m \in Message, TaskStarts(w, m)
      PROVE  AcctIInv' /\ TradesKept
  BY <1>7, TaskStartsSafe
<1>8. ASSUME NEW w \in Workers,
             \/ BootstrapLocks(w) \/ Verified(w) \/ SyncLocks(w) \/ Fetched(w) \/ Ingested(w)
      PROVE  AcctIInv' /\ TradesKept
  BY <1>8, BootstrapLocksSafe, VerifiedSafe, SyncLocksSafe, FetchedSafe, IngestedSafe
<1>9. AcctIInv' /\ TradesKept
  BY <1>3, <1>4, <1>5, <1>6, <1>7, <1>8 DEF AcctNext
<1> QED
  BY <1>1, <1>9, Zenon

\* However tasks overlap, die or are repeated, an import deletes no trade of
\* a journal and blanks no enrichment, for any accounts, workers and deals:
\* the sync lock keeps a report from being ingested over a newer journal
\* (ingest_mt5_core_history_result, bulk_upsert_closed_trades).
THEOREM JournalKept == AcctSpec => JournalKeepsTrades
<1> DEFINE I == AcctIInv /\ DOMAIN known = TradingAccounts
<1>1. AcctInit => I
  BY AcctInitIInv DEF AcctInit
<1>2. I /\ [AcctNext]_acctVars => I'
  BY AcctStep
<1>3. I /\ [AcctNext]_acctVars =>
        [\A a \in TradingAccounts, d \in Deals :
           known'[a] # "deleted" =>
             /\ trades[a][d] # "none" => trades'[a][d] # "none"
             /\ trades[a][d] = "enriched" => trades'[a][d] = "enriched"]_acctVars
  BY AcctStep DEF TradesKept
<1> QED
  BY <1>1, <1>2, <1>3, PTL DEF AcctSpec, JournalKeepsTrades

-----------------------------------------------------------------------------
(* The types of the rows, the tasks and the journals.                      *)

\* No message is queued more often than was published.
QueueIsPublished == \A m \in Message : queued[m] <= published

AcctTyped == AcctTypeOK /\ QueueIsPublished

RowColumns == {"archived", "state", "dataReady", "lastSynced", "cooldown", "attempted", "cred"}

\* The columns of a row of trading_accounts.
LEMMA ColumnTypes ==
  ASSUME NEW x \in TradingAccount
  PROVE  /\ DOMAIN x = RowColumns
         /\ x.archived \in BOOLEAN /\ x.dataReady \in BOOLEAN
         /\ x.state \in {"pending_verification", "bootstrapping", "ready",
                         "verification_failed", "bootstrap_failed"}
         /\ x.lastSynced \in {Never} \cup 0..MaxDeals
         /\ x.cooldown \in BOOLEAN /\ x.attempted \in BOOLEAN /\ x.cred \in Credentials
  BY DEF TradingAccount, RowColumns

\* A row whose columns are each one row's or another's.
LEMMA MixedRow ==
  ASSUME NEW x \in TradingAccount, NEW y \in TradingAccount, NEW z,
         z = [f \in RowColumns |-> z[f]], \A f \in RowColumns : z[f] \in {x[f], y[f]}
  PROVE  z \in TradingAccount
<1>1. z = [archived |-> z.archived, state |-> z.state, dataReady |-> z.dataReady,
           lastSynced |-> z.lastSynced, cooldown |-> z.cooldown, attempted |-> z.attempted,
           cred |-> z.cred]
  BY DEF RowColumns
<1>2. /\ z.archived \in {x.archived, y.archived} /\ z.state \in {x.state, y.state}
      /\ z.dataReady \in {x.dataReady, y.dataReady}
      /\ z.lastSynced \in {x.lastSynced, y.lastSynced}
      /\ z.cooldown \in {x.cooldown, y.cooldown} /\ z.attempted \in {x.attempted, y.attempted}
      /\ z.cred \in {x.cred, y.cred}
  BY DEF RowColumns
<1>3. z.archived \in BOOLEAN /\ z.dataReady \in BOOLEAN /\ z.cooldown \in BOOLEAN /\ z.attempted \in BOOLEAN
  BY <1>2, ColumnTypes, Zenon
<1>4. /\ z.state \in {"pending_verification", "bootstrapping", "ready",
                      "verification_failed", "bootstrap_failed"}
      /\ z.lastSynced \in {Never} \cup 0..MaxDeals /\ z.cred \in Credentials
  BY <1>2, ColumnTypes
<1> QED
  BY <1>1, <1>3, <1>4, Zenon DEF TradingAccount

\* A flush leaves a row, and so does the commit of a task.
LEMMA CommitTyped ==
  ASSUME AcctTyped, NEW t \in Task, NEW new \in TradingAccount, Commit(t, new)
  PROVE  account' \in [TradingAccounts -> TradingAccount]
<1>1. t.msg.id \in TradingAccounts
  BY DEF Task, Message
<1>2. account \in [TradingAccounts -> TradingAccount]
  BY DEF AcctTyped, AcctTypeOK
<1> DEFINE row == account[t.msg.id]
           z == Flushed(t.msg.id, t.seen, new)
<1>3. row \in TradingAccount
  BY <1>1, <1>2
<1>4. DOMAIN new = RowColumns
  BY ColumnTypes
<1>5. z = [f \in RowColumns |-> IF new[f] # t.seen[f] THEN new[f] ELSE row[f]]
  BY <1>4 DEF Flushed
<1>6. z = [f \in RowColumns |-> z[f]] /\ \A f \in RowColumns : z[f] \in {new[f], row[f]}
  BY <1>5
<1> HIDE DEF z, row
<1>7. z \in TradingAccount
  BY <1>3, <1>6, MixedRow
<1>8. account' = account \/ account' = [account EXCEPT ![t.msg.id] = z]
  BY DEF Commit, z
<1> QED
  BY <1>2, <1>7, <1>8

\* What a task may write into a row.
LEMMA MarksTyped ==
  ASSUME NEW r \in TradingAccount
  PROVE  /\ mark_account_verification_failed(r) \in TradingAccount
         /\ mark_account_bootstrap_failed(r) \in TradingAccount
         /\ mark_account_bootstrapping(r) \in TradingAccount
         /\ \A n \in 0..MaxDeals : mark_account_ready_for_stats(r, n) \in TradingAccount
         /\ \A t : t.started \in 0..MaxDeals => mark_sync_success(r, t) \in TradingAccount
         /\ mark_sync_retryable(r) \in TradingAccount
         /\ mark_sync_attention_required(r) \in TradingAccount
<1>1. mark_account_verification_failed(r) \in TradingAccount
  BY DEF TradingAccount, mark_account_verification_failed
<1>2. mark_account_bootstrap_failed(r) \in TradingAccount
  BY DEF TradingAccount, mark_account_bootstrap_failed
<1>3. mark_account_bootstrapping(r) \in TradingAccount
  BY DEF TradingAccount, mark_account_bootstrapping
<1>4. ASSUME NEW n \in 0..MaxDeals PROVE mark_account_ready_for_stats(r, n) \in TradingAccount
  BY DEF TradingAccount, mark_account_ready_for_stats
<1>5. ASSUME NEW t, t.started \in 0..MaxDeals PROVE mark_sync_success(r, t) \in TradingAccount
  BY <1>5 DEF TradingAccount, mark_sync_success
<1>6. mark_sync_retryable(r) \in TradingAccount
  BY DEF TradingAccount, mark_sync_retryable
<1>7. mark_sync_attention_required(r) \in TradingAccount
  BY DEF TradingAccount, mark_sync_attention_required
<1> QED
  BY <1>1, <1>2, <1>3, <1>4, <1>5, <1>6, <1>7

\* A failed import is marked one way or the other.
LEMMA FailureTyped ==
  ASSUME NEW r \in TradingAccount, NEW outcome
  PROVE  SyncFailed(outcome, r) \in TradingAccount /\ BootstrapFailed(outcome, r) \in TradingAccount
<1>1. SyncFailed(outcome, r) \in TradingAccount
  <2>1. CASE outcome = "failed"
    <3>1. mark_account_verification_failed(r) \in TradingAccount
      BY MarksTyped
    <3>2. mark_sync_attention_required(mark_account_verification_failed(r)) \in TradingAccount
      BY <3>1, MarksTyped
    <3> QED
      BY <2>1, <3>2 DEF SyncFailed
  <2>2. CASE outcome # "failed"
    BY <2>2, MarksTyped DEF SyncFailed
  <2> QED
    BY <2>1, <2>2
<1>2. BootstrapFailed(outcome, r) \in TradingAccount
  BY MarksTyped DEF BootstrapFailed
<1> QED
  BY <1>1, <1>2

\* A message that is published is queued.
LEMMA PublishTyped ==
  ASSUME AcctTyped, NEW m \in Message, Publish(m)
  PROVE  /\ queued' \in [Message -> 0..MaxTasks] /\ published' \in 0..MaxTasks
         /\ QueueIsPublished'
<1>1. /\ queued \in [Message -> 0..MaxTasks] /\ published \in 0..MaxTasks /\ MaxTasks \in Nat
      /\ \A k \in Message : queued[k] <= published
  BY AccountSyncAssumption DEF AcctTyped, AcctTypeOK, QueueIsPublished
<1>2. /\ published < MaxTasks /\ published' = published + 1
      /\ queued' = [queued EXCEPT ![m] = queued[m] + 1]
  BY DEF Publish
<1>3. queued[m] + 1 \in 0..MaxTasks /\ queued[m] + 1 <= published'
  BY <1>1, <1>2
<1>4. queued' \in [Message -> 0..MaxTasks]
  BY <1>1, <1>2, <1>3
<1>5. \A k \in Message : queued'[k] \in {queued[k], queued[m] + 1}
                         /\ (queued'[k] = queued[k] \/ queued'[k] <= published')
  BY <1>1, <1>2, <1>3
<1>6. \A k \in Message : queued'[k] <= published'
  BY <1>1, <1>2, <1>5
<1> QED
  BY <1>1, <1>2, <1>4, <1>6 DEF QueueIsPublished

\* The variables that only the owner, the clock and the broker change.
Surroundings == <<known, dispatch, closed, old, requests>>

\* A task's steps: what it becomes, writes and queues has its type.
LEMMA TaskTyped ==
  ASSUME AcctTyped, NEW w \in Workers, NEW t \in Task \cup {NoTask}, Go(w, t), UNCHANGED Surroundings,
         account' \in [TradingAccounts -> TradingAccount],
         queued' \in [Message -> 0..MaxTasks], published' \in 0..MaxTasks, QueueIsPublished',
         trades' \in [TradingAccounts -> [Deals -> Detail]]
  PROVE  AcctTyped'
<1>1. worker' \in [Workers -> Task \cup {NoTask}]
  BY DEF AcctTyped, AcctTypeOK, Go
<1>2. /\ known' \in [TradingAccounts -> {"unused", "live", "deleted"}]
      /\ dispatch' \in [TradingAccounts -> {"none", "scheduled", "dispatched"}]
      /\ closed' \in 0..MaxDeals /\ old' \in 0..closed' /\ requests' \in 0..MaxRequests
  BY DEF AcctTyped, AcctTypeOK, Surroundings
<1> QED
  BY <1>1, <1>2 DEF AcctTyped, AcctTypeOK

\* The types a step that leaves a variable alone can rely on.
LEMMA AcctHas ==
  ASSUME AcctTyped
  PROVE  /\ account \in [TradingAccounts -> TradingAccount]
         /\ queued \in [Message -> 0..MaxTasks] /\ published \in 0..MaxTasks
         /\ trades \in [TradingAccounts -> [Deals -> Detail]]
         /\ worker \in [Workers -> Task \cup {NoTask}]
         /\ closed \in 0..MaxDeals /\ old \in 0..closed /\ old \in 0..MaxDeals
         /\ (UNCHANGED <<queued, published>> => QueueIsPublished')
  BY AccountSyncAssumption DEF AcctTyped, AcctTypeOK, QueueIsPublished

\* The parts of a task.
LEMMA TaskParts ==
  ASSUME NEW t \in Task
  PROVE  /\ t.msg \in Message /\ t.msg.id \in TradingAccounts /\ t.msg.retries \in 0..1
         /\ t.seen \in TradingAccount /\ t.started \in 0..MaxDeals /\ t.from \in 0..MaxDeals
         /\ t.history \in [Deals -> ReportedDetail]
  BY DEF Task, Message

\* A worker takes a message.
LEMMA TaskStartsTyped ==
  ASSUME AcctTyped, NEW w \in Workers, NEW m \in Message, TaskStarts(w, m)
  PROVE  AcctTyped'
<1> DEFINE t == [msg |-> m, at |-> IF m.kind = "bootstrap" THEN "loaded" ELSE "lock",
                 seen |-> account[m.id], boot |-> FALSE, started |-> closed,
                 from |-> 0, history |-> NoDeals]
<1>1. /\ queued[m] > 0 /\ queued' = [queued EXCEPT ![m] = queued[m] - 1] /\ published' = published
      /\ UNCHANGED Surroundings /\ UNCHANGED <<account, trades>>
      /\ Go(w, t) \/ Go(w, NoTask)
  BY DEF TaskStarts, Surroundings, Ends
<1>2. t \in Task
  <2>1. m.id \in TradingAccounts
    BY DEF Message
  <2>2. account[m.id] \in TradingAccount
    BY <2>1, AcctHas
  <2>3. NoDeals \in [Deals -> ReportedDetail]
    BY DEF NoDeals, ReportedDetail, Detail
  <2>4. closed \in 0..MaxDeals /\ 0 \in 0..MaxDeals
    BY AcctHas, AccountSyncAssumption
  <2> QED
    BY <2>2, <2>3, <2>4 DEF Task
<1> HIDE DEF t
<1>3. queued' \in [Message -> 0..MaxTasks] /\ QueueIsPublished'
  <2>1. queued[m] \in 0..MaxTasks /\ queued[m] - 1 \in 0..MaxTasks /\ queued[m] <= published
    BY <1>1, AcctHas, AccountSyncAssumption DEF AcctTyped, QueueIsPublished
  <2>2. queued' \in [Message -> 0..MaxTasks]
    BY <1>1, <2>1, AcctHas
  <2>3. \A k \in Message : queued'[k] <= published'
    BY <1>1, <2>1, AcctHas DEF AcctTyped, QueueIsPublished
  <2> QED
    BY <2>2, <2>3 DEF QueueIsPublished
<1> QED
  BY <1>1, <1>2, <1>3, AcctHas, TaskTyped

\* The steps of a task before its import.
LEMMA BootstrapTyped ==
  ASSUME AcctTyped, NEW w \in Workers, BootstrapLocks(w) \/ Verified(w)
  PROVE  AcctTyped'
<1> DEFINE t == worker[w]
<1>1. t \in Task /\ UNCHANGED Surroundings /\ UNCHANGED trades
  BY AcctHas DEF BootstrapLocks, Verified, Surroundings
<1>2. NoTask \in Task \cup {NoTask}
  OBVIOUS
<1>3. ASSUME NEW u \in Task \cup {NoTask}, Go(w, u), UNCHANGED <<queued, published>>,
             account' \in [TradingAccounts -> TradingAccount]
      PROVE  AcctTyped'
  BY <1>1, <1>3, AcctHas, TaskTyped
<1>4. ASSUME Ends(w), UNCHANGED <<queued, published>>,
             \/ UNCHANGED account
             \/ Commit(t, mark_account_verification_failed(t.seen))
             \/ Commit(t, mark_account_bootstrap_failed(t.seen))
      PROVE  AcctTyped'
  <2>1. account' \in [TradingAccounts -> TradingAccount]
    BY <1>1, <1>4, AcctHas, CommitTyped, MarksTyped, TaskParts
  <2> QED
    BY <2>1, <1>2, <1>3, <1>4 DEF Ends
<1>5. CASE BootstrapLocks(w)
  <2> DEFINE u == [t EXCEPT !.boot = TRUE, !.at = IF t.seen.state = "pending_verification"
                                                  THEN "verify" ELSE "lock"]
  <2>1. u \in Task
    BY <1>1 DEF Task
  <2>2. /\ UNCHANGED <<queued, published>>
        /\ \/ Ends(w) /\ UNCHANGED account
           \/ Ends(w) /\ Commit(t, mark_account_verification_failed(t.seen))
           \/ Go(w, u) /\ UNCHANGED account
    BY <1>5 DEF BootstrapLocks
  <2> HIDE DEF u
  <2>3. ASSUME Go(w, u), UNCHANGED account PROVE AcctTyped'
    BY <2>1, <2>2, <2>3, <1>3, AcctHas
  <2> QED
    BY <2>2, <2>3, <1>4
<1>6. CASE Verified(w)
  <2> DEFINE a == t.msg.id
             u == [t EXCEPT !.at = "lock", !.boot = FALSE, !.seen = account'[a]]
  <2>1. \/ /\ Live(a) /\ Commit(t, mark_account_bootstrapping(t.seen))
           /\ Go(w, u) /\ UNCHANGED <<queued, published>>
        \/ Ends(w) /\ UNCHANGED <<account, queued, published>>
        \/ /\ Commit(t, mark_account_verification_failed(t.seen))
           /\ Ends(w) /\ UNCHANGED <<queued, published>>
        \/ /\ t.msg.retries = 0 /\ Publish([t.msg EXCEPT !.retries = 1])
           /\ Ends(w) /\ UNCHANGED account
        \/ /\ Commit(t, mark_account_bootstrap_failed(t.seen))
           /\ Ends(w) /\ UNCHANGED <<queued, published>>
    BY <1>6, Zenon DEF Verified
  <2>2. ASSUME Commit(t, mark_account_bootstrapping(t.seen)), Go(w, u),
               UNCHANGED <<queued, published>>
        PROVE  AcctTyped'
    <3>1. account' \in [TradingAccounts -> TradingAccount]
      BY <1>1, <2>2, CommitTyped, MarksTyped, TaskParts
    <3>2. account'[a] \in TradingAccount
      BY <1>1, <3>1, TaskParts
    <3>3. u \in Task
      BY <1>1, <3>2 DEF Task
    <3> QED
      BY <2>2, <3>1, <3>3, <1>3
  <2>3. ASSUME Publish([t.msg EXCEPT !.retries = 1]), Ends(w), UNCHANGED account
        PROVE  AcctTyped'
    <3>1. [t.msg EXCEPT !.retries = 1] \in Message
      BY <1>1, TaskParts DEF Message
    <3>2. /\ queued' \in [Message -> 0..MaxTasks] /\ published' \in 0..MaxTasks
          /\ QueueIsPublished'
      BY <3>1, <2>3, PublishTyped
    <3> QED
      BY <3>2, <2>3, <1>1, <1>2, AcctHas, TaskTyped DEF Ends
  <2> QED
    BY <2>1, <2>2, <2>3, <1>4
<1> QED
  BY <1>5, <1>6

\* The import.
LEMMA ImportTyped ==
  ASSUME AcctTyped, NEW w \in Workers, SyncLocks(w) \/ Fetched(w) \/ Ingested(w)
  PROVE  AcctTyped'
<1> DEFINE t == worker[w]
<1>1. t \in Task /\ UNCHANGED Surroundings /\ UNCHANGED <<queued, published>>
  BY AcctHas DEF SyncLocks, Fetched, Ingested, Surroundings
<1>2. ASSUME NEW u \in Task \cup {NoTask}, Go(w, u), account' \in [TradingAccounts -> TradingAccount],
             trades' \in [TradingAccounts -> [Deals -> Detail]]
      PROVE  AcctTyped'
  BY <1>1, <1>2, AcctHas, TaskTyped
<1>3. CASE SyncLocks(w)
  <2> DEFINE from == IF t.seen.lastSynced \in 0..old THEN t.seen.lastSynced ELSE old
             u == [t EXCEPT !.at = "fetch", !.from = from]
  <2>1. from \in 0..MaxDeals
    BY AcctHas, AccountSyncAssumption
  <2>2. u \in Task
    BY <1>1, <2>1 DEF Task
  <2>3. UNCHANGED <<account, trades>> /\ (Go(w, u) \/ Go(w, NoTask))
    BY <1>3 DEF SyncLocks, Ends
  <2> HIDE DEF u
  <2> QED
    BY <2>2, <2>3, <1>2, AcctHas
<1>4. CASE Fetched(w)
  <2>1. ASSUME NEW h \in Reported(t), Go(w, [t EXCEPT !.at = "ingest", !.history = h]),
               UNCHANGED <<account, trades>>
        PROVE  AcctTyped'
    <3> DEFINE u == [t EXCEPT !.at = "ingest", !.history = h]
    <3>1. h \in [Deals -> ReportedDetail]
      BY DEF Reported
    <3>2. u \in Task
      BY <1>1, <3>1 DEF Task
    <3> HIDE DEF u
    <3> QED
      BY <3>2, <2>1, <1>2, AcctHas DEF u
  <2>2. ASSUME NEW outcome, UNCHANGED trades, Ends(w),
               Commit(t, IF t.msg.kind = "sync" THEN SyncFailed(outcome, t.seen)
                                                ELSE BootstrapFailed(outcome, t.seen))
        PROVE  AcctTyped'
    <3>1. (IF t.msg.kind = "sync" THEN SyncFailed(outcome, t.seen)
                                  ELSE BootstrapFailed(outcome, t.seen)) \in TradingAccount
      BY <1>1, TaskParts, FailureTyped
    <3>2. account' \in [TradingAccounts -> TradingAccount]
      BY <1>1, <2>2, <3>1, CommitTyped
    <3> QED
      BY <2>2, <3>2, <1>2, AcctHas DEF Ends
  <2> QED
    BY <1>4, <2>1, <2>2 DEF Fetched
<1>5. CASE Ingested(w)
  <2> DEFINE a == t.msg.id
             new == Upserted(Cleaned(trades[a], t), t.history)
  <2>1. a \in TradingAccounts /\ trades[a] \in [Deals -> Detail]
    BY <1>1, AcctHas, TaskParts
  <2>2. Cleaned(trades[a], t) \in [Deals -> Detail]
    BY <2>1 DEF Cleaned, Detail
  <2>3. new \in [Deals -> Detail]
    <3>1. ASSUME NEW ts \in [Deals -> Detail], NEW h PROVE Upserted(ts, h) \in [Deals -> Detail]
      BY DEF Upserted, Detail
    <3> QED
      BY <2>2, <3>1
  <2> HIDE DEF new
  <2>4. trades' = trades \/ trades' = [trades EXCEPT ![a] = new]
    BY <1>5 DEF Ingested, new
  <2>5. trades' \in [TradingAccounts -> [Deals -> Detail]]
    BY <2>3, <2>4, AcctHas
  <2>6. (IF t.msg.kind = "sync" THEN mark_sync_success(t.seen, t)
         ELSE mark_account_ready_for_stats(t.seen, closed)) \in TradingAccount
    <3>1. t.started \in 0..MaxDeals /\ closed \in 0..MaxDeals /\ t.seen \in TradingAccount
      BY <1>1, TaskParts, AcctHas
    <3> QED
      BY <3>1, MarksTyped
  <2>7. account' \in [TradingAccounts -> TradingAccount]
    BY <1>1, <1>5, <2>6, CommitTyped DEF Ingested
  <2> QED
    BY <1>5, <2>5, <2>7, <1>2 DEF Ingested, Ends
<1> QED
  BY <1>3, <1>4, <1>5

\* The requests of the owner, and passing time.
LEMMA OwnerTyped ==
  ASSUME AcctTyped, NEW a \in TradingAccounts,
         \/ \E c \in Credentials : connect_account(a, c)
         \/ disconnect_account(a) \/ unarchive_account(a) \/ delete_account(a)
         \/ manual_sync(a) \/ TimePasses(a) \/ dispatch_bootstrap_account(a)
  PROVE  AcctTyped'
<1> USE AccountSyncAssumption
<1>0. /\ account[a] \in TradingAccount /\ requests \in 0..MaxRequests
      /\ known \in [TradingAccounts -> {"unused", "live", "deleted"}]
      /\ dispatch \in [TradingAccounts -> {"none", "scheduled", "dispatched"}]
  BY DEF AcctTyped, AcctTypeOK
<1>1. Request => requests' \in 0..MaxRequests
  BY <1>0 DEF Request
<1>2. ASSUME NEW r \in TradingAccount, account' = account \/ account' = [account EXCEPT ![a] = r],
             NEW k \in {"live", "deleted"}, known' = known \/ known' = [known EXCEPT ![a] = k],
             NEW d \in {"none", "scheduled", "dispatched"},
             dispatch' = dispatch \/ dispatch' = [dispatch EXCEPT ![a] = d],
             trades' = trades \/ trades' = [trades EXCEPT ![a] = NoDeals],
             requests' \in 0..MaxRequests, UNCHANGED <<worker, closed, old>>,
             queued' \in [Message -> 0..MaxTasks], published' \in 0..MaxTasks, QueueIsPublished'
      PROVE  AcctTyped'
  <2>1. account' \in [TradingAccounts -> TradingAccount]
    BY <1>2 DEF AcctTyped, AcctTypeOK
  <2>2. known' \in [TradingAccounts -> {"unused", "live", "deleted"}]
    BY <1>0, <1>2
  <2>3. dispatch' \in [TradingAccounts -> {"none", "scheduled", "dispatched"}]
    BY <1>0, <1>2
  <2>4. trades' \in [TradingAccounts -> [Deals -> Detail]]
    <3>1. NoDeals \in [Deals -> Detail]
      BY DEF NoDeals, Detail
    <3> QED
      BY <1>2, <3>1, AcctHas
  <2> QED
    BY <1>2, <2>1, <2>2, <2>3, <2>4 DEF AcctTyped, AcctTypeOK
<1>3. ASSUME NEW r \in TradingAccount, account' = account \/ account' = [account EXCEPT ![a] = r],
             NEW k \in {"live", "deleted"}, known' = known \/ known' = [known EXCEPT ![a] = k],
             NEW d \in {"none", "scheduled", "dispatched"},
             dispatch' = dispatch \/ dispatch' = [dispatch EXCEPT ![a] = d],
             trades' = trades \/ trades' = [trades EXCEPT ![a] = NoDeals],
             requests' \in 0..MaxRequests, UNCHANGED <<worker, closed, old, queued, published>>
      PROVE  AcctTyped'
  BY <1>2, <1>3, AcctHas
<1>4. ASSUME NEW c \in Credentials, connect_account(a, c) PROVE AcctTyped'
  <2> DEFINE r == IF Live(a) THEN reactivate_account(account[a], c) ELSE create_account(c)
  <2>1. r \in TradingAccount
    BY <1>0 DEF reactivate_account, create_account, TradingAccount, Never
  <2>2. /\ account' = [account EXCEPT ![a] = r] /\ known' = [known EXCEPT ![a] = "live"]
        /\ dispatch' = [dispatch EXCEPT ![a] = "scheduled"]
        /\ Request /\ UNCHANGED <<worker, trades, closed, old, queued, published>>
    BY <1>4 DEF connect_account
  <2> HIDE DEF r
  <2> QED
    BY <2>1, <2>2, <1>1, <1>3
<1>5. ASSUME NEW archived \in BOOLEAN, account' = [account EXCEPT ![a].archived = archived], Request,
             UNCHANGED <<known, dispatch, queued, worker, trades, closed, old, published>>
      PROVE  AcctTyped'
  <2>1. [account[a] EXCEPT !.archived = archived] \in TradingAccount
    BY <1>0 DEF TradingAccount
  <2>2. account' = [account EXCEPT ![a] = [account[a] EXCEPT !.archived = archived]]
    BY <1>5
  <2> QED
    BY <2>1, <2>2, <1>1, <1>3, <1>5
<1>6. CASE disconnect_account(a) \/ unarchive_account(a)
  BY <1>5, <1>6 DEF disconnect_account, unarchive_account
<1>7. CASE delete_account(a)
  <2>1. /\ Request /\ account' = account /\ known' = [known EXCEPT ![a] = "deleted"]
        /\ dispatch' = [dispatch EXCEPT ![a] = "none"] /\ trades' = [trades EXCEPT ![a] = NoDeals]
        /\ UNCHANGED <<queued, worker, closed, old, published>>
    BY <1>7 DEF delete_account
  <2> QED
    BY <2>1, <1>0, <1>1, <1>3
<1>8. CASE manual_sync(a)
  <2>1. /\ Request /\ account' = [account EXCEPT ![a] = [account[a] EXCEPT !.attempted = TRUE]]
        /\ Publish(SyncOf(a)) /\ UNCHANGED <<known, dispatch, worker, trades, closed, old>>
    BY <1>8 DEF manual_sync
  <2>2. [account[a] EXCEPT !.attempted = TRUE] \in TradingAccount
    BY <1>0 DEF TradingAccount
  <2>3. SyncOf(a) \in Message
    BY DEF SyncOf, Message
  <2>4. /\ queued' \in [Message -> 0..MaxTasks] /\ published' \in 0..MaxTasks
        /\ QueueIsPublished'
    BY <2>1, <2>3, PublishTyped
  <2> QED
    BY <2>1, <2>2, <2>4, <1>1, <1>2
<1>9. CASE TimePasses(a)
  <2>1. /\ \/ account' = [account EXCEPT ![a] = [account[a] EXCEPT !.cooldown = FALSE]]
           \/ account' = [account EXCEPT ![a] = [account[a] EXCEPT !.attempted = FALSE]]
        /\ UNCHANGED <<known, dispatch, queued, worker, trades, closed, old, requests, published>>
    BY <1>9 DEF TimePasses
  <2>2. /\ [account[a] EXCEPT !.cooldown = FALSE] \in TradingAccount
        /\ [account[a] EXCEPT !.attempted = FALSE] \in TradingAccount
    BY <1>0 DEF TradingAccount
  <2> QED
    BY <2>1, <2>2, <1>0, <1>3
<1>10. CASE dispatch_bootstrap_account(a)
  <2>1. /\ Publish(BootstrapOf(a))
        /\ dispatch' = dispatch \/ dispatch' = [dispatch EXCEPT ![a] = "dispatched"]
        /\ UNCHANGED <<account, known, worker, trades, closed, old, requests>>
    BY <1>10 DEF dispatch_bootstrap_account
  <2>2. BootstrapOf(a) \in Message
    BY DEF BootstrapOf, Message
  <2>3. /\ queued' \in [Message -> 0..MaxTasks] /\ published' \in 0..MaxTasks
        /\ QueueIsPublished'
    BY <2>1, <2>2, PublishTyped
  <2> QED
    BY <2>1, <2>3, <1>0, <1>2
<1> QED
  BY <1>4, <1>6, <1>7, <1>8, <1>9, <1>10

\* Every step keeps the types.
LEMMA AcctTypeStep ==
  ASSUME AcctTyped, [AcctNext]_acctVars
  PROVE  AcctTyped'
<1> USE AccountSyncAssumption
<1>1. ASSUME NEW c \in 0..MaxDeals, NEW o \in 0..c, closed' = c, old' = o,
             UNCHANGED <<account, known, dispatch, queued, worker, trades, requests, published>>
      PROVE  AcctTyped'
  BY <1>1 DEF AcctTyped, AcctTypeOK, QueueIsPublished
<1>2. CASE DealCloses
  <2>1. closed + 1 \in 0..MaxDeals /\ old \in 0..(closed + 1)
    BY <1>2, AcctHas DEF DealCloses
  <2> QED
    BY <1>1, <1>2, <2>1 DEF DealCloses
<1>3. CASE DealAges
  <2>1. closed \in 0..MaxDeals /\ old + 1 \in 0..closed
    BY <1>3, AcctHas DEF DealAges
  <2> QED
    BY <1>1, <1>3, <2>1 DEF DealAges
<1>4. CASE UNCHANGED acctVars
  BY <1>1, <1>4, AcctHas DEF acctVars
<1>5. ASSUME NEW w \in Workers, WorkerDies(w) PROVE AcctTyped'
  <2>1. /\ Go(w, NoTask) /\ UNCHANGED Surroundings
        /\ UNCHANGED <<account, queued, trades, published>>
    BY <1>5 DEF WorkerDies, Ends, Surroundings
  <2> QED
    BY <2>1, AcctHas, TaskTyped
<1>6. ASSUME NEW w \in Workers,
             \/ \E m \in Message : TaskStarts(w, m)
             \/ BootstrapLocks(w) \/ Verified(w) \/ SyncLocks(w)
             \/ Fetched(w) \/ Ingested(w) \/ WorkerDies(w)
      PROVE  AcctTyped'
  BY <1>5, <1>6, TaskStartsTyped, BootstrapTyped, ImportTyped
<1> QED
  BY <1>2, <1>3, <1>4, <1>6, OwnerTyped DEF AcctNext

\* Rows, tasks, messages and journals keep their types: a task that flushes
\* some columns of a row it loaded earlier leaves a whole row, and no message
\* is queued that was not published.
THEOREM AcctTypeCorrect == AcctSpec => []AcctTypeOK
<1>1. AcctInit => AcctTyped
  <2> SUFFICES ASSUME AcctInit PROVE AcctTyped
    OBVIOUS
  <2> USE AccountSyncAssumption
  <2>1. account \in [TradingAccounts -> TradingAccount]
    <3>1. PICK c \in Readable : account = [a \in TradingAccounts |-> create_account(c)]
      BY Zenon DEF AcctInit
    <3>2. create_account(c) \in TradingAccount
      BY DEF create_account, TradingAccount, Never
    <3> QED
      BY <3>1, <3>2
  <2>2. trades \in [TradingAccounts -> [Deals -> Detail]]
    BY DEF AcctInit, NoDeals, Detail
  <2>3. queued \in [Message -> 0..MaxTasks] /\ published \in 0..MaxTasks /\ QueueIsPublished
    BY DEF AcctInit, QueueIsPublished
  <2> QED
    BY <2>1, <2>2, <2>3 DEF AcctInit, AcctTyped, AcctTypeOK
<1>2. AcctTyped => AcctTypeOK
  BY DEF AcctTyped
<1> QED
  BY <1>1, <1>2, AcctTypeStep, PTL DEF AcctSpec
=============================================================================
