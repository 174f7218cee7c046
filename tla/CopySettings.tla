---------------------------- MODULE CopySettings ----------------------------
(***************************************************************************)
(* What the owner of a copy account configures: the account's policy, the  *)
(* routes from his Telegram sources, the sources and the signals put up    *)
(* for review.  Every handler reads, checks and then commits the columns   *)
(* it changed; API threads serve requests side by side, so a request may   *)
(* commit what another has read before it (copy_trading/service.py,        *)
(* operator_tools.py, router.py).                                          *)
(*                                                                         *)
(* One user and one ready copy account.  Pausing and activating routes is  *)
(* ConnectionLifecycle's; here a route just runs or not.                   *)
(***************************************************************************)
EXTENDS Integers, FiniteSets, FiniteSetsExt

CONSTANTS
    RouteIds,         \* ids of routes
    Sources,        \* ids of Telegram sources
    Threads,        \* API threads
    Lots,           \* lot sizes; the largest is the default of the caps
    PolicyPatches,  \* bodies of PATCH /account-policies/{id}: partial policies
    RoutePatches,   \* bodies of PATCH /routes/{id}: partial routes
    NewRoutes,      \* bodies of POST /routes
    NoRoute         \* a route that does not exist

\* A lot is a Numeric(12, 4): there is a largest one.
ASSUME CopySettingsAssumption ==
    Lots \subseteq Nat \ {0} /\ \E most \in Lots : \A lot \in Lots : lot <= most

VARIABLES
    policy,     \* the row of copy_account_policies
    route,      \* rows of copy_routes
    source,     \* rows of telegram_sources: absent, live or paused
    review,     \* a row of copy_signal_reviews
    reviewSent, \* its message went back to the stream
    thread,     \* the request each thread is serving
    overlapped  \* a request committed while another was under way

setVars == <<policy, route, source, review, reviewSent, thread, overlapped>>

MinimumFields == {"direction_symbol_sl_tp", "direction_symbol"}
UNSAFE_MINIMUM_FIELDS == {"direction_symbol"}

CopyAccountPolicy ==
    [maxLot : Lots, maxLotPerTrade : Lots, startHour : BOOLEAN, endHour : BOOLEAN,
     dailyLoss : BOOLEAN, anchored : BOOLEAN, drawdown : BOOLEAN, peak : BOOLEAN,
     paused : BOOLEAN]

CopyRoute ==
    [source : Sources, lot : Lots, takeProfit : {"all", "first"},
     distribution : {"fixed_each", "split_total"}, minimum : MinimumFields,
     confirmed : BOOLEAN,       \* unsafe_minimum_confirmed_at is set
     running : BOOLEAN]

\* The schemas check every field of a body: that of a patch is part of a row.
ASSUME BodiesAssumption ==
    /\ NewRoutes \subseteq CopyRoute
    /\ \A body \in RoutePatches :
         \E r \in CopyRoute : \A f \in DOMAIN body \cap DOMAIN r : body[f] = r[f]
    /\ \A body \in PolicyPatches :
         \E p \in CopyAccountPolicy : \A f \in DOMAIN body \cap DOMAIN p : body[f] = p[f]

NoRequest == [at |-> "free"]

\* A request between its checks and its commit; seen is the row it read.
Thread == {NoRequest}
    \cup [at : {"policy"}, seen : CopyAccountPolicy, new : CopyAccountPolicy]
    \cup [at : {"route"}, id : RouteIds, seen : CopyRoute, new : CopyRoute, stamps : BOOLEAN]
    \cup [at : {"create"}, id : RouteIds, new : CopyRoute]
    \cup [at : {"deleteRoute"}, id : RouteIds]
    \cup [at : {"deleteSource"}, id : Sources]
    \cup [at : {"ignore", "approve", "approved"}]

\* Each variable has its type.
SetTypeOK ==
    /\ policy \in CopyAccountPolicy
    /\ route \in [RouteIds -> CopyRoute \cup {NoRoute}]
    /\ source \in [Sources -> {"absent", "live", "paused"}]
    /\ review \in {"pending", "ignored", "approved"} /\ reviewSent \in BOOLEAN
    /\ thread \in [Threads -> Thread] /\ overlapped \in BOOLEAN

SetInit ==
    /\ policy = [maxLot |-> Max(Lots), maxLotPerTrade |-> Max(Lots),
                 startHour |-> FALSE, endHour |-> FALSE, dailyLoss |-> FALSE,
                 anchored |-> FALSE, drawdown |-> FALSE, peak |-> FALSE, paused |-> FALSE]
    /\ route = [r \in RouteIds |-> NoRoute]
    /\ source = [s \in Sources |-> "absent"]
    /\ review = "pending" /\ reviewSent = FALSE
    /\ thread = [t \in Threads |-> NoRequest]
    /\ overlapped = FALSE

-----------------------------------------------------------------------------
Existing == {r \in RouteIds : route[r] # NoRoute}

\* The row with the fields of a body set.
Patched(row, body) == [f \in DOMAIN row |-> IF f \in DOMAIN body THEN body[f] ELSE row[f]]

\* The columns that differ from the row as read reach the row as it is.
Flush(row, seen, new) == [f \in DOMAIN new |-> IF new[f] # seen[f] THEN new[f] ELSE row[f]]

Reads(t, request) ==
    /\ thread[t] = NoRequest
    /\ thread' = [thread EXCEPT ![t] = request]
    /\ UNCHANGED <<policy, route, source, review, reviewSent, overlapped>>

Done(t) ==
    /\ thread' = [thread EXCEPT ![t] = NoRequest]
    /\ overlapped' = (overlapped \/ \E u \in Threads \ {t} : thread[u] # NoRequest)

-----------------------------------------------------------------------------
(* The policy.                                                             *)

\* max_fixed_lot_for_connection, 0 when there is no route.
max_fixed_lot_for_connection == Max({0} \cup {route[r].lot : r \in Existing})

\* Faulty variant: only the exposure limit is compared with the routes.
CapsAllowTotalOnly(p, body) ==
    "maxLot" \in DOMAIN body => p.maxLot >= max_fixed_lot_for_connection

\* A proposed limit may not be below the largest lot of a route.
CapsAllow(p, body) ==
    \A f \in {"maxLot", "maxLotPerTrade"} \cap DOMAIN body :
        p[f] >= max_fixed_lot_for_connection

\* A changed loss or drawdown limit starts its reference anew.
Reanchored(p, body) ==
    [p EXCEPT !.anchored = @ /\ "dailyLoss" \notin DOMAIN body,
              !.peak = @ /\ "drawdown" \notin DOMAIN body]

update_account_policy(t, body) ==
    LET new == Patched(policy, body)
    IN  /\ new.startHour = new.endHour
        /\ CapsAllow(new, body)
        /\ Reads(t, [at |-> "policy", seen |-> policy, new |-> Reanchored(new, body)])

\* ck_copy_policy_trading_hours_pair refuses hours that two requests unpaired.
CommitPolicy(t) ==
    LET p == Flush(policy, thread[t].seen, thread[t].new)
    IN  /\ thread[t].at = "policy"
        /\ policy' = IF p.startHour = p.endHour THEN p ELSE policy
        /\ Done(t)
        /\ UNCHANGED <<route, source, review, reviewSent>>

\* The execution worker takes the day's equity and the peak as references.
AnchorEquity ==
    /\ policy' = [policy EXCEPT !.anchored = TRUE, !.peak = TRUE] /\ policy' # policy
    /\ UNCHANGED <<route, source, review, reviewSent, thread, overlapped>>

-----------------------------------------------------------------------------
(* Routes.                                                                 *)

\* validate_route_settings.
ValidRoute(r, unsafe_confirmed) ==
    /\ r.distribution = "split_total" => r.takeProfit = "all"
    /\ r.minimum \in UNSAFE_MINIMUM_FIELDS => unsafe_confirmed

WithinCaps(r) == r.lot <= policy.maxLot /\ r.lot <= policy.maxLotPerTrade

\* A source and the account are joined by one route at most.
create_route(t, r, body) ==
    /\ source[body.source] # "absent"
    /\ route[r] = NoRoute
    /\ \A q \in Existing : route[q].source # body.source
    /\ ValidRoute(body, body.confirmed) /\ WithinCaps(body)
    /\ Reads(t, [at |-> "create", id |-> r,
                 new |-> [body EXCEPT !.confirmed = body.minimum \in UNSAFE_MINIMUM_FIELDS]])

\* The unique constraint and the foreign key refuse what has become wrong.
CommitCreate(t) ==
    /\ thread[t].at = "create"
    /\ route' = IF /\ route[thread[t].id] = NoRoute
                   /\ source[thread[t].new.source] # "absent"
                   /\ \A q \in Existing : route[q].source # thread[t].new.source
                THEN [route EXCEPT ![thread[t].id] = thread[t].new] ELSE route
    /\ Done(t)
    /\ UNCHANGED <<policy, source, review, reviewSent>>

\* The patch chooses unsafe fields and confirms them.
Stamps(new, body) ==
    /\ "minimum" \in DOMAIN body /\ new.minimum \in UNSAFE_MINIMUM_FIELDS
    /\ "confirmed" \in DOMAIN body /\ body.confirmed

\* unsafe_minimum_confirmed_at after a patch: set when the patch stamps it,
\* cleared when the fields are safe, else kept.
Confirmed(old, new, body) ==
    Stamps(new, body) \/ (new.minimum \in UNSAFE_MINIMUM_FIELDS /\ old.confirmed)

\* The body's own check asks for the confirmation along with unsafe fields.
update_route(t, r, body) ==
    LET old == route[r]
        new == Patched(old, body)
    IN  /\ old # NoRoute
        /\ ("minimum" \in DOMAIN body /\ body.minimum \in UNSAFE_MINIMUM_FIELDS) =>
               "confirmed" \in DOMAIN body /\ body.confirmed
        /\ ValidRoute(new, new.confirmed) /\ WithinCaps(new)
        /\ Reads(t, [at |-> "route", id |-> r, seen |-> old, stamps |-> Stamps(new, body),
                     new |-> [new EXCEPT !.confirmed = Confirmed(old, new, body)]])

\* A new time stamp is always a change of its column.
CommitRoute(t) ==
    LET r == thread[t].id
        row == Flush(route[r], thread[t].seen, thread[t].new)
    IN  /\ thread[t].at = "route"
        /\ route' = IF route[r] = NoRoute THEN route     \* the flush finds no row
                    ELSE [route EXCEPT ![r] = [row EXCEPT !.confirmed = @ \/ thread[t].stamps]]
        /\ Done(t)
        /\ UNCHANGED <<policy, source, review, reviewSent>>

delete_route(t, r) ==
    /\ route[r] # NoRoute /\ ~route[r].running
    /\ Reads(t, [at |-> "deleteRoute", id |-> r])

CommitDeleteRoute(t) ==
    /\ thread[t].at = "deleteRoute"
    /\ route' = [route EXCEPT ![thread[t].id] = NoRoute]
    /\ Done(t)
    /\ UNCHANGED <<policy, source, review, reviewSent>>

\* Activation or pause, see ConnectionLifecycle.
RouteStartsOrStops(r) ==
    /\ route[r] # NoRoute
    /\ route' = [route EXCEPT ![r].running = ~@]
    /\ UNCHANGED <<policy, source, review, reviewSent, thread, overlapped>>

-----------------------------------------------------------------------------
(* Sources.                                                                *)

create_source(s) ==
    /\ source[s] = "absent" /\ source' = [source EXCEPT ![s] = "live"]
    /\ UNCHANGED <<policy, route, review, reviewSent, thread, overlapped>>

update_source_pause(s) ==
    /\ source[s] # "absent"
    /\ source' = [source EXCEPT ![s] = IF @ = "live" THEN "paused" ELSE "live"]
    /\ UNCHANGED <<policy, route, review, reviewSent, thread, overlapped>>

delete_source(t, s) ==
    /\ source[s] # "absent" /\ \A r \in Existing : route[r].source # s
    /\ Reads(t, [at |-> "deleteSource", id |-> s])

\* A route that was created meanwhile goes with its source (ON DELETE CASCADE).
CommitDeleteSource(t) ==
    LET s == thread[t].id
    IN  /\ thread[t].at = "deleteSource"
        /\ source' = [source EXCEPT ![s] = "absent"]
        /\ route' = [r \in RouteIds |->
                       IF r \in Existing /\ route[r].source = s THEN NoRoute ELSE route[r]]
        /\ Done(t)
        /\ UNCHANGED <<policy, review, reviewSent>>

-----------------------------------------------------------------------------
(* Reviews: an approved message is published and then the row committed.   *)

resolve_review(t, decision) ==
    /\ review = "pending"
    /\ Reads(t, [at |-> decision])

PublishReview(t) ==
    /\ thread[t].at = "approve"
    /\ thread' = [thread EXCEPT ![t] = [at |-> "approved"]]
    /\ reviewSent' = TRUE
    /\ UNCHANGED <<policy, route, source, review, overlapped>>

CommitReview(t) ==
    /\ thread[t].at \in {"ignore", "approved"}
    /\ review' = IF thread[t].at = "ignore" THEN "ignored" ELSE "approved"
    /\ Done(t)
    /\ UNCHANGED <<policy, route, source, reviewSent>>

\* A thread dies before its commit.
ThreadDies(t) ==
    /\ thread[t] # NoRequest /\ thread' = [thread EXCEPT ![t] = NoRequest]
    /\ UNCHANGED <<policy, route, source, review, reviewSent, overlapped>>

-----------------------------------------------------------------------------
ReviewNext ==
    \E t \in Threads :
      \/ \E decision \in {"ignore", "approve"} : resolve_review(t, decision)
      \/ PublishReview(t) \/ CommitReview(t) \/ ThreadDies(t)

ConfigNext ==
    \/ \E t \in Threads :
         \/ \E body \in PolicyPatches : update_account_policy(t, body)
         \/ \E r \in RouteIds :
              \/ \E body \in NewRoutes : create_route(t, r, body)
              \/ \E body \in RoutePatches : update_route(t, r, body)
              \/ delete_route(t, r)
         \/ \E s \in Sources : delete_source(t, s)
         \/ CommitPolicy(t) \/ CommitCreate(t) \/ CommitRoute(t) \/ CommitDeleteRoute(t)
         \/ CommitDeleteSource(t) \/ ThreadDies(t)
    \/ \E s \in Sources : create_source(s) \/ update_source_pause(s)
    \/ \E r \in RouteIds : RouteStartsOrStops(r)
    \/ AnchorEquity

SetNext == ConfigNext \/ ReviewNext

SetSpec == SetInit /\ [][SetNext]_setVars

-----------------------------------------------------------------------------
\* Unless two requests overlapped (each checked what the other then changed),
\* the settings agree, however many requests came one after the other: no
\* route asks for more than the account's limits, lots are split only over all
\* take profits, a route that trades on incomplete signals carries its owner's
\* confirmation, and an approved signal was sent.
SettingsAgreeUnlessOverlapped ==
    overlapped \/
    /\ \A r \in Existing :
         /\ WithinCaps(route[r])
         /\ route[r].distribution = "split_total" => route[r].takeProfit = "all"
         /\ route[r].minimum \in UNSAFE_MINIMUM_FIELDS => route[r].confirmed
    /\ review = "approved" => reviewSent
=============================================================================
