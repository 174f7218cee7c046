---------------------------- MODULE TelegramFeed ----------------------------
(***************************************************************************)
(* How the Telegram session runtime (worker_runtime.py) turns the posts of *)
(* one source chat into events on the telegram_messages stream: live       *)
(* updates that may be lost, a recovery poll that reads what lies above a  *)
(* cursor kept in Redis, and one lock per chat around the two.             *)
(*                                                                         *)
(* A step is the code between two awaits; only publishing and advancing    *)
(* the cursor, which a crash can separate, are two steps.  A message is    *)
(* its id and its kind: "text", or "other" (media only, or blank).         *)
(***************************************************************************)
EXTENDS Naturals, Sequences, FiniteSetsExt

CONSTANTS
    IsGroup,    \* the source is a group: the sender's permission is looked up
    MaxId,      \* bound: message ids posted to the chat
    PollLimit,  \* messages read by one recovery poll (100 in the code)
    MaxFaults,  \* bound: disconnections, crashes, revoked sessions and losses
                \* of the last active route
    MaxEdits    \* bound: edits that are announced

ASSUME FeedAssumption == /\ IsGroup \in BOOLEAN /\ MaxId \in Nat \ {0} /\ PollLimit \in Nat \ {0} /\ MaxFaults \in Nat
                         /\ MaxEdits \in Nat

VARIABLES
    kinds,      \* the posted messages: kinds[m] is the kind of message m
    fate,       \* what became of the live update of each posted message
    queue,      \* publish_message calls on the chat's lock, its holder first
    stage,      \* where the holder is
    cursor,     \* copy:telegram:source-cursor, 0 when absent
    paused,     \* the source or its connection is paused
    routed,     \* an active route copies the source
    cached,     \* the source is in source_recovery_cache
    connected,  \* the connection's client is connected and has its handlers
    revoked,    \* the connection's row says reauthentication_required
    poll,       \* the recovery poll under way
    published,  \* messages published to the stream at least once
    skipped,    \* messages passed over: paused, image or blank
    edited,     \* history: messages whose edit was announced live
    base,       \* history: the ids the cursor was initialised past
    faults      \* what MaxFaults bounds, so far

feedVars == <<kinds, fate, queue, stage, cursor, paused, routed, cached, connected,
              revoked, poll, published, skipped, edited, base, faults>>

Kinds == {"text", "other"}
Ids == 1..MaxId
Call == [id : Ids, from : {"live", "edit", "poll"}]
NoPoll == [at |-> "off", rest |-> <<>>, seen |-> 0]

FeedTypeOK ==
    /\ paused \in BOOLEAN /\ routed \in BOOLEAN
    /\ cached \in BOOLEAN /\ connected \in BOOLEAN /\ revoked \in BOOLEAN
    /\ kinds \in Seq(Kinds) /\ Len(kinds) <= MaxId
    /\ fate \in [1..Len(kinds) -> {"coming", "arrived", "lost"}]
    /\ queue \in Seq(Call)
    /\ stage \in {"start", "asked", "advance"}
    /\ cursor \in 0..MaxId /\ base \in 0..MaxId
    /\ poll \in [at : {"off", "latest", "read", "wait"}, rest : Seq(Ids), seen : 0..MaxId]
    /\ published \subseteq Ids /\ skipped \subseteq Ids /\ edited \subseteq Ids
    /\ faults \in 0..MaxFaults

\* The chat has one old message; a conversation of the signal worker may
\* already refer to it.
FeedInit ==
    /\ kinds = <<"text">> /\ fate = <<"lost">>
    /\ queue = <<>> /\ stage = "start"
    /\ paused = FALSE /\ routed = TRUE /\ cached = FALSE
    /\ connected = FALSE /\ revoked = FALSE
    /\ cursor = 0 /\ base = 0
    /\ poll = NoPoll
    /\ published \in {{}, {1}} /\ skipped = {} /\ edited = {}
    /\ faults = 0

-----------------------------------------------------------------------------
(* Telegram and the user.                                                  *)

\* A message is posted; its update can only come when a client is connected.
Post(k) ==
    /\ Len(kinds) < MaxId
    /\ kinds' = Append(kinds, k)
    /\ fate' = Append(fate, IF connected THEN "coming" ELSE "lost")
    /\ UNCHANGED <<queue, stage, cursor, paused, routed, cached, connected,
                   revoked, poll, published, skipped, edited, base, faults>>

\* An update is lost, as those of self-sent messages in basic groups are.
LoseUpdate(m) ==
    /\ fate[m] = "coming"
    /\ fate' = [fate EXCEPT ![m] = "lost"]
    /\ UNCHANGED <<kinds, queue, stage, cursor, paused, routed, cached,
                   connected, revoked, poll, published, skipped, edited, base,
                   faults>>

\* NewMessage: updates are handled in the order of their ids, each by a task
\* that queues on the chat's lock.
Arrive(m) ==
    /\ connected
    /\ fate[m] = "coming" /\ \A n \in 1..(m - 1) : fate[n] # "coming"
    /\ fate' = [fate EXCEPT ![m] = "arrived"]
    /\ queue' = Append(queue, [id |-> m, from |-> "live"])
    /\ UNCHANGED <<kinds, stage, cursor, paused, routed, cached, connected,
                   revoked, poll, published, skipped, edited, base, faults>>

\* MessageEdited: an edit takes the same way, also for a message whose own
\* update was lost.
Edit(m) ==
    /\ connected /\ kinds[m] = "text" /\ fate[m] # "coming" /\ m \notin edited
    /\ Cardinality(edited) < MaxEdits
    /\ edited' = edited \cup {m}
    /\ queue' = Append(queue, [id |-> m, from |-> "edit"])
    /\ UNCHANGED <<kinds, fate, stage, cursor, paused, routed, cached,
                   connected, revoked, poll, published, skipped, base, faults>>

\* update_telegram_connection and update_source_pause.
SetPaused(p) ==
    /\ paused # p
    /\ paused' = p
    /\ UNCHANGED <<kinds, fate, queue, stage, cursor, routed, cached,
                   connected, revoked, poll, published, skipped, edited, base,
                   faults>>

\* No route copies the source any more: a request of the user, or a report
\* that the trading account is unavailable.
LoseRoutes ==
    /\ routed /\ faults < MaxFaults
    /\ routed' = FALSE /\ faults' = faults + 1
    /\ UNCHANGED <<kinds, fate, queue, stage, cursor, paused, cached, connected,
                   revoked, poll, published, skipped, edited, base>>

\* A route of the source copies again.
RouteAgain ==
    /\ ~routed
    /\ routed' = TRUE
    /\ UNCHANGED <<kinds, fate, queue, stage, cursor, paused, cached, connected,
                   revoked, poll, published, skipped, edited, base, faults>>

-----------------------------------------------------------------------------
(* publish_message: what the holder of the chat's lock does.               *)

\* Faulty variant of Advanced: the cursor is set to the message just seen.
AdvancedBlindly(m) == m

\* Faulty variant of Advanced: only a published message moves the cursor.
AdvancedByText(m) == IF m > cursor /\ kinds[m] = "text" THEN m ELSE cursor

\* _advance_source_cursor.
Advanced(m) == IF m > cursor THEN m ELSE cursor

\* The holder leaves the lock: the next call in the queue holds it, and the
\* poll that waited for its call goes on.
Leave ==
    /\ queue' = Tail(queue)
    /\ stage' = "start"
    /\ poll' = IF Head(queue).from = "poll" THEN [poll EXCEPT !.at = "read"] ELSE poll

Publish(m) ==
    /\ published' = IF Head(queue).from = "edit" THEN published ELSE published \cup {m}
    /\ stage' = "advance"
    /\ UNCHANGED <<kinds, fate, queue, cursor, paused, routed, cached,
                   connected, revoked, poll, skipped, edited, base, faults>>

\* Paused, image-only and blank messages only advance the cursor.
Skips(m) == paused \/ kinds[m] # "text"

SkipMessage ==
    /\ queue # <<>> /\ stage = "start"
    /\ LET m == Head(queue).id IN
        /\ Skips(m)
        /\ skipped' = IF Head(queue).from = "edit" THEN skipped ELSE skipped \cup {m}
        /\ cursor' = Advanced(m)
    /\ Leave
    /\ UNCHANGED <<kinds, fate, paused, routed, cached, connected, revoked,
                   published, edited, base, faults>>

\* A group message whose sender's permission is not in the Redis cache, where
\* it is kept for 300 seconds: the code awaits get_permissions with the lock
\* held, the source having been read.
AskPermission ==
    /\ queue # <<>> /\ stage = "start" /\ ~Skips(Head(queue).id)
    /\ IsGroup
    /\ stage' = "asked"
    /\ UNCHANGED <<kinds, fate, queue, cursor, paused, routed, cached,
                   connected, revoked, poll, published, skipped, edited, base,
                   faults>>

\* The answer, or the failure, is cached and the message is published even
\* when the source was paused in between.
PublishAsked ==
    /\ stage = "asked"
    /\ Publish(Head(queue).id)

\* A channel message, or a group message whose sender's permission is cached.
PublishMessage ==
    /\ queue # <<>> /\ stage = "start" /\ ~Skips(Head(queue).id)
    /\ Publish(Head(queue).id)

AdvanceCursor ==
    /\ stage = "advance"
    /\ cursor' = Advanced(Head(queue).id)
    /\ Leave
    /\ UNCHANGED <<kinds, fate, paused, routed, cached, connected, revoked,
                   published, skipped, edited, base, faults>>

-----------------------------------------------------------------------------
(* The recovery poll.                                                      *)

\* The sources that are polled: unpaused ones that an active route copies.
Polled == ~paused /\ routed

\* _refresh_source_recovery_cache: a missing cursor of a source that is polled
\* is set from the conversations of the signal worker.
RefreshCache ==
    /\ poll.at = "off" /\ cached # Polled
    /\ cached' = Polled
    /\ IF cursor = 0 /\ Polled /\ published # {}
       THEN cursor' = Max(published) /\ base' = Max({base, Max(published)})
       ELSE UNCHANGED <<cursor, base>>
    /\ UNCHANGED <<kinds, fate, queue, stage, paused, routed, connected, revoked,
                   poll, published, skipped, edited, faults>>

\* Without a cursor the poll only asks for the latest message ...
PollLatest ==
    /\ connected /\ cached /\ poll.at = "off" /\ cursor = 0
    /\ poll' = [at |-> "latest", rest |-> <<>>, seen |-> Len(kinds)]
    /\ UNCHANGED <<kinds, fate, queue, stage, cursor, paused, routed, cached,
                   connected, revoked, published, skipped, edited, base,
                   faults>>

\* ... and sets the cursor to it, whatever the cursor is by then.
SetLatest(m) ==
    /\ poll.at = "latest" /\ m \in poll.seen..Len(kinds)
    /\ cursor' = m
    /\ base' = Max({base, m})
    /\ poll' = NoPoll
    /\ UNCHANGED <<kinds, fate, queue, stage, paused, routed, cached,
                   connected, revoked, published, skipped, edited, faults>>

\* Faulty variant of Missed: iter_messages reads the newest messages first.
MissedNewest(c) ==
    LET n == Min({PollLimit, Len(kinds) - c}) IN [i \in 1..n |-> Len(kinds) + 1 - i]

\* iter_messages(min_id=cursor, reverse=True, limit=100).
Missed(c) ==
    LET n == Min({PollLimit, Len(kinds) - c}) IN [i \in 1..n |-> c + i]

PollRead ==
    /\ connected /\ cached /\ poll.at = "off" /\ cursor # 0 /\ Len(kinds) > cursor
    /\ poll' = [at |-> "read", rest |-> Missed(cursor), seen |-> 0]
    /\ UNCHANGED <<kinds, fate, queue, stage, cursor, paused, routed, cached,
                   connected, revoked, published, skipped, edited, base,
                   faults>>

\* The poll hands each message to the publisher and waits for it.
PollPublish ==
    /\ poll.at = "read"
    /\ IF poll.rest = <<>>
       THEN poll' = NoPoll /\ UNCHANGED queue
       ELSE /\ poll' = [poll EXCEPT !.at = "wait", !.rest = Tail(@)]
            /\ queue' = Append(queue, [id |-> Head(poll.rest), from |-> "poll"])
    /\ UNCHANGED <<kinds, fate, stage, cursor, paused, routed, cached,
                   connected, revoked, published, skipped, edited, base,
                   faults>>

-----------------------------------------------------------------------------
(* Disconnections, crashes and restore.                                    *)

\* The live update of m waits for the lock or holds it.
LiveQueued(m) == \E i \in DOMAIN queue : queue[i].id = m /\ queue[i].from = "live"

NotComing(f) == [m \in DOMAIN f |-> IF f[m] = "coming" THEN "lost" ELSE f[m]]

\* The connection drops, or _validate_connection_health drops its client:
\* the updates under way never come.
Disconnect ==
    /\ connected /\ faults < MaxFaults
    /\ connected' = FALSE /\ faults' = faults + 1
    /\ fate' = NotComing(fate)
    /\ UNCHANGED <<kinds, queue, stage, cursor, paused, routed, cached,
                   revoked, poll, published, skipped, edited, base>>

\* The process ends, also because a poll or a lost ownership raised out of
\* run: the handler tasks die with it.
Crash ==
    /\ faults < MaxFaults
    /\ connected' = FALSE /\ faults' = faults + 1 /\ cached' = FALSE
    /\ fate' = [m \in DOMAIN fate |->
                  IF fate[m] = "coming" \/ LiveQueued(m) THEN "lost" ELSE fate[m]]
    /\ queue' = <<>> /\ stage' = "start" /\ poll' = NoPoll
    /\ UNCHANGED <<kinds, cursor, paused, routed, revoked, published, skipped,
                   edited, base>>

\* Telegram has ended the session: the health check or restore finds out and
\* the row asks for a new sign-in.
Revoke ==
    /\ ~revoked /\ faults < MaxFaults
    /\ revoked' = TRUE /\ connected' = FALSE /\ faults' = faults + 1
    /\ fate' = NotComing(fate)
    /\ UNCHANGED <<kinds, queue, stage, cursor, paused, routed, cached, poll,
                   published, skipped, edited, base>>

\* The user signs in again.
SignInAgain ==
    /\ revoked
    /\ revoked' = FALSE
    /\ UNCHANGED <<kinds, fate, queue, stage, cursor, paused, routed, cached,
                   connected, poll, published, skipped, edited, base, faults>>

\* restore connects a client and attaches its handlers; it passes over a row
\* that asks for a new sign-in.
Attach ==
    /\ ~connected /\ ~revoked
    /\ connected' = TRUE
    /\ UNCHANGED <<kinds, fate, queue, stage, cursor, paused, routed, cached,
                   revoked, poll, published, skipped, edited, base, faults>>

-----------------------------------------------------------------------------
HolderStep == SkipMessage \/ AskPermission \/ PublishAsked \/ PublishMessage \/ AdvanceCursor

PollStep == PollLatest \/ (\E m \in Ids : SetLatest(m)) \/ PollRead \/ PollPublish

FeedNext ==
    \/ \E k \in Kinds : Post(k)
    \/ \E m \in 1..Len(kinds) : LoseUpdate(m) \/ Arrive(m) \/ Edit(m)
    \/ \E p \in BOOLEAN : SetPaused(p)
    \/ LoseRoutes \/ RouteAgain
    \/ HolderStep
    \/ RefreshCache \/ PollStep
    \/ Disconnect \/ Crash \/ Revoke \/ SignInAgain \/ Attach

FeedSpec == FeedInit /\ [][FeedNext]_feedVars

-----------------------------------------------------------------------------
Queued(m) == \E i \in DOMAIN queue : queue[i].id = m

(***************************************************************************)
(* A message at or below the cursor that was neither published nor passed  *)
(* over, and is not under way, is one the cursor started past or one whose *)
(* live update was lost before its edit or a later message came live: the  *)
(* recovery poll leaves no other gap, although it races with live updates, *)
(* disconnections and crashes.                                             *)
(***************************************************************************)
GapsExplained ==
    \A m \in 1..Len(kinds) :
        m <= cursor /\ m \notin published \cup skipped /\ ~Queued(m) /\ fate[m] # "coming"
            => \/ m <= base
               \/ /\ fate[m] = "lost"
                  /\ \/ \E n \in (m + 1)..Len(kinds) : fate[n] = "arrived"
                     \/ \E n \in m..Len(kinds) : n \in edited

(***************************************************************************)
(* The cursor moves back only when the answer to the poll's first request  *)
(* for the latest message arrives late; messages published again because   *)
(* of it lie above the latest one of that answer.                          *)
(***************************************************************************)
CursorMovesBackOnlyAtStart ==
    [][cursor' < cursor => poll.at = "latest" /\ cursor' >= poll.seen]_feedVars

(***************************************************************************)
(* Every posted message is eventually below the cursor, published or       *)
(* passed over or lost to a gap, unless its source is paused or loses its  *)
(* last active route, or its user has to sign in again: a lost last        *)
(* message is not forgotten.                                               *)
(***************************************************************************)
CursorCatchesUp ==
    \A m \in Ids :
        (m <= Len(kinds)) ~> (cursor >= m \/ paused \/ ~routed \/ revoked)

=============================================================================
