-------------------------- MODULE SignalProcessing --------------------------
(***************************************************************************)
(* The signal worker (workers.py): it takes the events of one source from  *)
(* the telegram_messages stream, gathers them into conversations and, for  *)
(* each route, into assemblies, and turns an accepted signal into trade    *)
(* intents.  An event may be delivered again after a crash, and a message  *)
(* may be published again or edited; the Redis key of a signal's meaning,  *)
(* which no rollback removes, is what suppresses duplicates.               *)
(*                                                                         *)
(* The source lock makes signal_handler the only one of its source; the    *)
(* language model is called between its reads (Begin) and its writes, and  *)
(* the expiry of assemblies, deletions and executions run beside it.       *)
(***************************************************************************)
EXTENDS SignalRules, FiniteSetsExt

CONSTANTS
    Routes,         \* the routes of the source, each with its own account
    Strict,         \* those that need a stop loss and a take profit
    Unkeyed,        \* those whose semantic_duplicate_window_seconds is 0
    Covered,        \* those whose window is no shorter than the account's
                    \* market_signal_max_age_seconds and the parser's wait
    Texts,          \* what a message can say: contexts
    MaxOpen,        \* max_open_positions of each account
    MaxMessages,    \* bound: message ids
    MaxEvents,      \* bound: events on the stream
    MaxCrashes      \* bound: crashes of the worker

\* The parser's answer always names an action.
ASSUME SignalAssumption ==
    /\ Strict \subseteq Routes /\ Unkeyed \subseteq Routes /\ Covered \subseteq Routes \ Unkeyed
    /\ \A t \in Texts : /\ DOMAIN t = DOMAIN NoContext /\ t.action \in SignalActions
                        /\ t.take_profits \in Seq(Int)
    /\ None \notin SignalActions
    /\ MaxOpen \in Nat /\ MaxMessages \in Nat /\ MaxEvents \in Nat /\ MaxCrashes \in Nat

VARIABLES
    stream,     \* the events, in publication order; an event's index is its correlation id
    settled,    \* the events acknowledged
    handler,    \* the event being handled, with what was read for it
    convs,      \* signal_conversations (with their legacy threads)
    asms,       \* route_signal_assemblies
    actions,    \* parsed_actions, by their unique key
    intents,    \* trade_intents, by their idempotency key
    meanings,   \* copy:semantic keys in Redis
    trades,     \* copied trades that are open
    stale,      \* messages older than market_signal_max_age_seconds
    undone,     \* history: deliveries whose transaction was rolled back
    crashes

sigVars == <<stream, settled, handler, convs, asms, actions, intents, meanings, trades,
             stale, undone, crashes>>

Messages == 1..MaxMessages
ActiveStates == {"assembling", "ready", "executing"}
RouteAssemblyStates == ActiveStates \cup {"completed", "failed", "expired", "skipped"}
NoHandler == [event |-> 0, routes |-> {}, conv |-> 0, submitted |-> FALSE, late |-> FALSE]

SigTypeOK ==
    /\ \A e \in DOMAIN stream : /\ stream[e].type \in {"created", "edited", "deleted"}
                                /\ stream[e].message \in Messages
    /\ settled \subseteq DOMAIN stream /\ handler.event \in 0..Len(stream)
    /\ \A c \in DOMAIN convs : convs[c].state \in {"active", "expired"}
    /\ \A a \in asms : /\ a.conv \in DOMAIN convs /\ a.route \in Routes
                       /\ a.state \in RouteAssemblyStates /\ a.generation \in Nat \ {0}
    /\ \A i \in intents : i.route \in Routes /\ i.conv \in DOMAIN convs /\ i.event \in DOMAIN stream
    /\ \A t \in trades : t \in intents
    /\ stale \subseteq Messages /\ crashes \in 0..MaxCrashes

\* Events in publication order.  A message is created, perhaps published again
\* by the Telegram runtime, edited or deleted.
Publishable(s) ==
    \A e \in DOMAIN s :
        LET before == {s[d] : d \in 1..(e - 1)}
            posted == {d.message : d \in before}
        IN  CASE s[e].type = "created" -> \/ s[e].message = Cardinality(posted) + 1
                                          \/ s[e] \in before
              [] s[e].type = "edited" -> s[e].message \in posted
              [] OTHER -> s[e].message \in posted /\ s[e] \notin before

Events ==
    [type : {"created", "edited"}, message : Messages, says : Texts]
        \cup [type : {"deleted"}, message : Messages, says : {NoContext}]

\* Nothing depends on when an event is published, only on when it is handled.
SigInit ==
    /\ stream \in {s \in [1..MaxEvents -> Events] : Publishable(s)}
    /\ settled = {} /\ handler = NoHandler
    /\ convs = <<>> /\ asms = {} /\ actions = {} /\ intents = {}
    /\ meanings = {} /\ trades = {} /\ stale = {} /\ undone = {} /\ crashes = 0

-----------------------------------------------------------------------------
(* signal_handler, up to the call of the parser.                           *)

Submitted(c) == \E a \in asms : a.conv = c /\ a.opening

Candidate(c, rs) ==
    [id |-> c, reply_root_message_id |-> convs[c].root, last_message_id |-> convs[c].last,
     symbol |-> convs[c].context.symbol, direction |-> convs[c].context.direction,
     updated_at |-> convs[c].at, opening_submitted |-> Submitted(c),
     has_active_trade |-> \E t \in trades : t.conv = c /\ t.route \in rs]

\* The conversation of a redelivered event, or choose_conversation's answer.
\* It is computed from what is read before the parser is called, and from a
\* correlation id that only this handler writes.
Choice(e, rs) ==
    LET seen == {Candidate(c, rs) : c \in {d \in DOMAIN convs : convs[d].state = "active"}}
        own == {c \in DOMAIN convs : convs[c].corr = e}
        m == stream[e]
    IN  IF own # {}
        THEN Selected([id |-> Only(own), opening_submitted |-> \E k \in seen : k.id = Only(own) /\ k.opening_submitted])
        ELSE choose_conversation(
               [reply_to |-> None, message_id |-> m.message, is_edit |-> m.type = "edited",
                symbol |-> m.says.symbol, direction |-> m.says.direction, action |-> m.says.action],
               seen)

Settle(e) == settled' = settled \cup {e} /\ handler' = NoHandler

\* Copying or the source is paused, or no active route accepts the message; or
\* it is a status or an ambiguous update, which leaves an activity entry.
SkipEvent(e) ==
    /\ handler.event = 0 /\ e \notin settled /\ stream[e].type # "deleted"
    /\ Settle(e)
    /\ UNCHANGED <<stream, convs, asms, actions, intents, meanings, trades, stale, undone, crashes>>

\* rs are the routes that are active and accept the sender.  The age of the
\* message is taken here, before the parser is called.
Begin(e, rs) ==
    /\ handler.event = 0 /\ e \notin settled /\ stream[e].type # "deleted" /\ rs # {}
    /\ stream[e].says.action # "status_only" /\ ~Choice(e, rs).ambiguous
    /\ LET c == Choice(e, rs).selected IN
        handler' = [event |-> e, routes |-> rs, conv |-> IF c = None THEN Len(convs) + 1 ELSE c.id,
                    submitted |-> c # None /\ c.opening_submitted,
                    late |-> stream[e].message \in stale]
    /\ UNCHANGED <<stream, settled, convs, asms, actions, intents, meanings, trades, stale,
                   undone, crashes>>

-----------------------------------------------------------------------------
(* signal_handler, from the parser's answer to the commit.                 *)

Event == stream[handler.event]
Target == handler.conv
Known == IF Target \in DOMAIN convs THEN convs[Target].context ELSE NoContext

\* Faulty variant of Update: the edit of a submitted opening opens again.
UpdateFromEdit == Event.says

\* parsed_update.
Update ==
    IF Event.type = "edited" /\ handler.submitted /\ Event.says.action \in OPEN_ACTIONS
    THEN corrective_action_for_submitted_edit(Known, Event.says)
    ELSE Event.says

\* The conversation after the message.
Conversation ==
    LET old == IF Target \in DOMAIN convs THEN convs[Target]
               ELSE [state |-> "active", root |-> Event.message, corr |-> handler.event]
    IN  [state |-> old.state, root |-> old.root, corr |-> old.corr, last |-> Event.message,
         context |-> merge_context(Known, Update), at |-> Cardinality(settled) + crashes]

\* The route's generations in this conversation, and the active one, if any.
Generations(r) == {a \in asms : a.conv = Target /\ a.route = r}
Current(r) == {a \in Generations(r) : a.state \in ActiveStates}

\* The active generation, or a new one that starts from the conversation.
Generation(r) ==
    IF Current(r) # {} THEN Only(Current(r))
    ELSE [conv |-> Target, route |-> r, state |-> "assembling", context |-> Conversation.context,
          refs |-> {}, opening |-> FALSE,
          generation |-> 1 + Max({0} \cup {a.generation : a \in Generations(r)})]

Policy(r) ==
    [minimum_fields |-> IF r \in Strict THEN "direction_symbol_sl_tp" ELSE "direction_symbol",
     freshness |-> 0, allowed |-> SignalActions]

\* How old the message was when the delivery began, against a freshness of 0.
Age == IF handler.late THEN 1 ELSE 0

\* _management_intent_targets; 0 for an action that opens.
Targets(r, context) ==
    LET open == {t \in trades : t.route = r}
    IN  IF context.action \in OPENING_ACTIONS THEN {0}
        ELSE IF context.action = "full_close" /\ context.symbol # None
        THEN {t.conv : t \in {u \in open : u.meaning.symbol = context.symbol}}
        ELSE {t.conv : t \in {u \in open : u.conv = Target}}

\* Faulty variant of Key: it does not name the message.
KeyOfRoute(i) == <<i.route, i.meaning.action, i.target>>

\* The idempotency key of an intent.
Key(i) == <<i.message, i.revision, i.route, i.meaning.action, i.target>>

\* Faulty variant of Unseen: SET without NX.
UnseenAlways(r, context) == TRUE

\* SET NX on the key of the route and the merged meaning, unless the route's
\* window is 0.
Unseen(r, context) == r \in Unkeyed \/ ~\E k \in meanings : k.route = r /\ k.meaning = context

mark_generation_submitted(a) == [a EXCEPT !.state = "executing", !.opening = TRUE]

mark_generation_expired(a) == [a EXCEPT !.state = "expired"]

\* ensure_account_risk_within_limits, for an action that opens.
WithinLimits(r, context) ==
    context.action \notin OPENING_ACTIONS \/ Cardinality({t \in trades : t.route = r}) < MaxOpen

\* What the handler does for one route.
Plan(r) ==
    LET g == Generation(r)
        merged == merge_generation_context(g.context, Update, g.opening)
        revision == 1 + Max({0} \cup {ref[2] : ref \in {x \in g.refs : x[1] = Event.message}})
        accepted == validate_signal(merged, Age, Policy(r)) = "accepted"
        within == accepted /\ WithinLimits(r, merged)
        unseen == within /\ Unseen(r, merged)
        targets == Targets(r, merged)
        new == {i \in {[route |-> r, conv |-> Target, message |-> Event.message, revision |-> revision,
                        meaning |-> merged, target |-> t, event |-> handler.event] : t \in targets} :
                  unseen /\ \A j \in intents : Key(i) # Key(j)}
        kept == [g EXCEPT !.context = merged, !.refs = @ \cup {<<Event.message, revision>>}]
    IN  [action |-> <<Target, Event.message, r, merged.action, revision>>,
         meanings |-> IF unseen /\ r \notin Unkeyed
                      THEN {[route |-> r, meaning |-> merged, by |-> handler.event]} ELSE {},
         intents |-> new,
         assembly |-> IF accepted /\ (~unseen \/ targets = {}) THEN [kept EXCEPT !.state = "skipped"]
                      ELSE IF new # {} /\ merged.action \in OPEN_ACTIONS THEN mark_generation_submitted(kept)
                      ELSE kept]

\* The insert of the parsed action violates its unique constraint.
Conflicts(plans) == \E r \in DOMAIN plans : plans[r].action \in actions

All(plans, field) == UNION {plans[r][field] : r \in DOMAIN plans}

\* The writes for the routes whose user and account are not paused.
Write(plans) ==
    /\ convs' = [c \in 1..Max({Target, Len(convs)}) |-> IF c = Target THEN Conversation ELSE convs[c]]
    /\ asms' = (asms \ UNION {Current(r) : r \in DOMAIN plans}) \cup {plans[r].assembly : r \in DOMAIN plans}
    /\ actions' = actions \cup {plans[r].action : r \in DOMAIN plans}
    /\ intents' = intents \cup All(plans, "intents")
    /\ meanings' = meanings \cup All(plans, "meanings")

\* The transaction commits; the worker may die before the acknowledgement.
CommitSignal(on, acknowledged) ==
    /\ handler.event # 0
    /\ LET plans == [r \in on |-> Plan(r)] IN ~Conflicts(plans) /\ Write(plans)
    /\ handler' = NoHandler
    /\ IF acknowledged
       THEN settled' = settled \cup {handler.event} /\ UNCHANGED crashes
       ELSE crashes < MaxCrashes /\ crashes' = crashes + 1 /\ UNCHANGED settled
    /\ UNCHANGED <<stream, trades, stale, undone>>

\* The worker dies or the parser fails: the transaction is rolled back, not
\* the Redis keys of the routes dealt with so far.
RollBack(done) ==
    /\ handler.event # 0 /\ crashes < MaxCrashes
    /\ LET plans == [r \in done |-> Plan(r)] IN
        ~Conflicts(plans) /\ meanings' = meanings \cup All(plans, "meanings")
    /\ crashes' = crashes + 1 /\ handler' = NoHandler
    /\ undone' = undone \cup {handler.event}
    /\ UNCHANGED <<stream, settled, convs, asms, actions, intents, trades, stale>>

\* A delivery that conflicts is retried in vain and moved to the dead letters.
DeadLetterSignal ==
    /\ handler.event # 0 /\ Conflicts([r \in handler.routes |-> Plan(r)])
    /\ Settle(handler.event)
    /\ undone' = undone \cup {handler.event}
    /\ UNCHANGED <<stream, convs, asms, actions, intents, meanings, trades, stale, crashes>>

-----------------------------------------------------------------------------
(* Beside the handler.                                                     *)

StillActive(state) == state \in ActiveStates

\* expire_signal_threads: the assemblies past their deadline, and the
\* conversations they leave without an active one.
ExpireSignals(S) ==
    /\ S # {} /\ \A a \in S : a.state = "assembling"
    /\ LET after == (asms \ S) \cup {mark_generation_expired(a) : a \in S}
           over == {a.conv : a \in S} \ {a.conv : a \in {b \in after : StillActive(b.state)}}
       IN  /\ asms' = after
           /\ convs' = [c \in DOMAIN convs |-> IF c \in over THEN [convs[c] EXCEPT !.state = "expired"]
                                               ELSE convs[c]]
    /\ UNCHANGED <<stream, settled, handler, actions, intents, meanings, trades, stale, undone, crashes>>

\* _handle_deleted_message.
HandleDeleted(e) ==
    /\ e \notin settled /\ stream[e].type = "deleted"
    /\ LET gone(a) == /\ a.state \in {"assembling", "ready"}
                      /\ \E ref \in a.refs : ref[1] = stream[e].message
       IN  asms' = {IF gone(a) THEN mark_generation_expired(a) ELSE a : a \in asms}
    /\ settled' = settled \cup {e}
    /\ UNCHANGED <<stream, handler, convs, actions, intents, meanings, trades, stale, undone, crashes>>

\* The execution worker opens the position of an intent, and it is closed.
TradeOpens(i) ==
    /\ i.meaning.action \in OPEN_ACTIONS /\ i \notin trades
    /\ trades' = trades \cup {i}
    /\ UNCHANGED <<stream, settled, handler, convs, asms, actions, intents, meanings, stale, undone, crashes>>

\* A message gets too old for a market entry.
GetsOld(m) ==
    /\ m \notin stale /\ \E e \in DOMAIN stream : stream[e].message = m
    /\ stale' = stale \cup {m}
    /\ UNCHANGED <<stream, settled, handler, convs, asms, actions, intents, meanings, trades, undone, crashes>>

\* A message is too old for every delivery, the one under way included.
TooOld(m) == m \in stale /\ ~(handler.event # 0 /\ Event.message = m /\ ~handler.late)

\* A key lapses after semantic_duplicate_window_seconds, which the settings do
\* not tie to the maximum age of a market signal.
MeaningLapses(k) ==
    /\ k.route \in Covered => TooOld(stream[k.by].message)
    /\ meanings' = meanings \ {k}
    /\ UNCHANGED <<stream, settled, handler, convs, asms, actions, intents, trades, stale, undone, crashes>>

-----------------------------------------------------------------------------
SigNext ==
    \/ \E e \in DOMAIN stream : SkipEvent(e) \/ HandleDeleted(e) \/ \E rs \in SUBSET Routes : Begin(e, rs)
    \/ \E on \in SUBSET handler.routes : RollBack(on) \/ \E ack \in BOOLEAN : CommitSignal(on, ack)
    \/ DeadLetterSignal
    \/ \E S \in SUBSET asms : ExpireSignals(S)
    \/ \E i \in intents : TradeOpens(i)
    \/ \E m \in Messages : GetsOld(m)
    \/ \E k \in meanings : MeaningLapses(k)

SigSpec == SigInit /\ [][SigNext]_sigVars

-----------------------------------------------------------------------------
Opening(i) == i.meaning.action = "open_market"

Twice(i, j) ==
    /\ Opening(i) /\ Opening(j) /\ i # j
    /\ i.route = j.route /\ i.message = j.message /\ i.meaning = j.meaning

(***************************************************************************)
(* However often an event is delivered, a message published again or       *)
(* edited, a route whose duplicate window covers the time in which the     *)
(* message is fresh enters the market at most once with one meaning of one *)
(* message: the key covers that time, the age check the time after it.     *)
(***************************************************************************)
EntersOnce == \A i, j \in intents : i.route \in Covered => ~Twice(i, j)

(***************************************************************************)
(* The same of every route: "No duplicate broker action is possible from   *)
(* redelivery, edits, retries, or restarts" (complete v1 plan).  It does   *)
(* not hold: the window may be shorter than the maximum age, or 0, which   *)
(* leaves the key out (MCSignalsWindow.cfg).                               *)
(***************************************************************************)
EntersOnceAnyway == \A i, j \in intents : ~Twice(i, j)

(***************************************************************************)
(* A key that suppresses a repeated opening stands for one that was turned *)
(* into an intent, by its own event or by another of the same message,     *)
(* unless the delivery that set it was rolled back.                        *)
(***************************************************************************)
SuppressedHasOriginal ==
    \A k \in meanings :
        \/ k.by \in undone
        \/ k.meaning.action \notin OPEN_ACTIONS
        \/ \E i \in intents : /\ i.route = k.route /\ i.message = stream[k.by].message
                              /\ i.meaning.action \in OPEN_ACTIONS

(***************************************************************************)
(* "After a generation is submitted, edits create corrective management    *)
(* actions rather than a duplicate opening" (guarded live launch design):  *)
(* in an active conversation, an edit opens a position for a route only if *)
(* the route's current generation has not opened one, although what the    *)
(* handler read of the conversation may be old when it commits.            *)
(***************************************************************************)
EditsDoNotReopen ==
    [][\A i \in intents' \ intents :
         /\ stream[i.event].type = "edited" /\ i.meaning.action \in OPEN_ACTIONS
         /\ i.conv \in DOMAIN convs /\ convs[i.conv].state = "active"
         => ~\E g \in asms : /\ g.conv = i.conv /\ g.route = i.route
                             /\ g.state \in ActiveStates /\ g.opening]_sigVars

\* What a message said is part of what is known of the signal.
Includes(context, said) ==
    /\ said.action \in OPEN_ACTIONS => context.action \in OPEN_ACTIONS
    /\ said.stop_loss # None => context.stop_loss # None
    /\ ToSet(said.take_profits) \subseteq ToSet(context.take_profits)

Posts(m, type) == {e \in DOMAIN stream : stream[e].message = m /\ stream[e].type = type}

\* All that its messages said when they were posted is part of an assembly,
\* unless one of them is edited.
PiecesKept(a) ==
    \/ \E ref \in a.refs : Posts(ref[1], "edited") # {}
    \/ \A ref \in a.refs : \E e \in Posts(ref[1], "created") : Includes(a.context, stream[e].says)

OpenedBefore(a) ==
    \E g \in asms : /\ g.conv = a.conv /\ g.route = a.route /\ g.generation = a.generation
                    /\ g.opening

(***************************************************************************)
(* The details that come after an incomplete opening complete it: up to    *)
(* the step that submits it, an assembly keeps the opening, and every stop *)
(* loss and target that its messages named, in whatever order they and     *)
(* their repetitions are handled and whatever other routes submitted or    *)
(* expired before.                                                         *)
(***************************************************************************)
DetailsCompleteOpening == [][\A a \in asms' : OpenedBefore(a) \/ PiecesKept(a)]_sigVars

(***************************************************************************)
(* The same of the message, wherever its edit goes: "No duplicate broker   *)
(* action is possible from redelivery, edits, retries, or restarts"        *)
(* (complete v1 plan).  It does not hold: an edit is matched with its      *)
(* conversation only by the first and the last message, and the key of an  *)
(* intent names its action (MCSignalsEdits.cfg).                           *)
(***************************************************************************)
EditedOpensOnce ==
    [][\A i \in intents' \ intents :
         stream[i.event].type = "edited" /\ i.meaning.action \in OPEN_ACTIONS
         => ~\E j \in intents : /\ j.route = i.route /\ j.message = i.message
                                /\ j.meaning.action \in OPEN_ACTIONS]_sigVars
=============================================================================
