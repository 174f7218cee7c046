------------------------------ MODULE Billing -------------------------------
(***************************************************************************)
(* Subscriptions of one user (domains/billing): checkout and plan changes  *)
(* through the provider (Bachs), its webhooks, and the access the row      *)
(* grants.  The provider is external: it moves its subscriptions on and    *)
(* emits an event with a snapshot each time, delivered in any order and    *)
(* any number of times.  A request reads the row, awaits the provider and  *)
(* then writes the columns it changed, so webhooks run in between; and so  *)
(* do the webhooks of several processes, which read without locks.         *)
(*                                                                         *)
(* A product is the number of copy accounts it sells, 0 for the journal    *)
(* plan (the catalog is one to one).  Customer, currency and amount        *)
(* columns are left out.                                                   *)
(***************************************************************************)
EXTENDS Affiliates

CONSTANTS
    ProviderSubs,   \* subscription ids of the provider
    MaxAccounts,    \* MAX_COPY_ACCOUNTS
    Tabs,           \* requests of the user that may be in progress at once
    PeriodLength,   \* length of a billing period
    GraceLength,    \* BILLING_GRACE_DAYS
    NoSnapshot,     \* a refund's payload names no subscription
    MaxEvents,      \* bound on the events the provider emits
    MaxNow          \* bound on the clock

Products == 0..MaxAccounts
NoProduct == -1
NoTime == -1
Times == 0..(MaxNow + PeriodLength + GraceLength)

\* The user has no subscription row.
NoRow == [status |-> "none"]

ASSUME BillingAssumption ==
    /\ MaxAccounts \in Nat /\ PeriodLength \in Nat \ {0} /\ GraceLength \in Nat
    /\ MaxEvents \in Nat /\ MaxNow \in Nat /\ 1..MaxEvents \subseteq Invoices

VARIABLES
    sub,            \* the row of billing_subscriptions
    tab,            \* the requests in progress
    hook,           \* the webhooks in progress: the event and the row as it was read
    guard,          \* the Redis key billing:checkout:<user>
    sessions,       \* open checkout sessions at the provider: their products
    remote,         \* the provider's subscriptions
    events,         \* its events that billing_webhook_events does not hold yet
    emitted,        \* how many it has emitted
    paidUntil       \* the end of the last period the provider sold

billVars == <<sub, tab, hook, guard, sessions, remote, events, emitted, paidUntil>>

BillingStatus == {"active", "past_due", "unpaid", "canceled"}

BillingSubscription ==
    [pid : ProviderSubs, product : Products, status : BillingStatus,
     periodEnd : Times \cup {NoTime}, cancelAtEnd : BOOLEAN, graceEnd : Times \cup {NoTime},
     pending : Products \cup {NoProduct}, pendingAt : Times \cup {NoTime}]

\* What a payload of the provider says of a subscription; the period's end may
\* be missing from it, or unreadable.
Snapshot == [pid : ProviderSubs, status : BillingStatus, product : Products,
             periodEnd : Times \cup {NoTime}, cancelAtEnd : BOOLEAN]

Remote == [status : BillingStatus \cup {"none"}, product : Products,
           periodEnd : Times, cancelAtEnd : BOOLEAN]

Event == [kind : {"created", "updated", "deleted", "failed", "paid", "refund"},
          snap : Snapshot \cup {NoSnapshot}, id : 1..MaxEvents, inv : Invoices,
          amount : Nat \cup {NoAmount}]

Idle == [at |-> "idle"]

Tab == {Idle}
       \cup [at : {"creating"}, target : Products]
       \cup [at : {"changing", "canceling"}, target : Products, seen : BillingSubscription]
       \cup [at : {"changed", "canceled"}, target : Products, seen : BillingSubscription,
             answer : Snapshot]

Hook == {Idle} \cup [at : {"read"}, event : Event, seen : BillingSubscription \cup {NoRow}]

\* Each variable has its type.
BillTypeOK ==
    /\ sub \in BillingSubscription \cup {NoRow}
    /\ tab \in [Tabs -> Tab] /\ hook \in [Hooks -> Hook]
    /\ guard \in {"none", "creating", "url"}
    /\ sessions \subseteq Products
    /\ remote \in [ProviderSubs -> Remote]
    /\ events \subseteq Event /\ emitted \in 0..MaxEvents
    /\ paidUntil \in Times

\* A subscription of the provider that nobody has bought.
Unsold == [status |-> "none", product |-> 0, periodEnd |-> 0, cancelAtEnd |-> FALSE]

BillInitWith(row, subs, open) ==
    /\ sub = row
    /\ tab = [r \in Tabs |-> Idle] /\ hook = [h \in Hooks |-> Idle]
    /\ guard = "none" /\ sessions = open /\ remote = subs
    /\ events = {} /\ emitted = 0
    /\ paidUntil = 0

BillInit == BillInitWith(NoRow, [s \in ProviderSubs |-> Unsold], {})

-----------------------------------------------------------------------------
(* What the row grants.                                                    *)

\* _effective_values: a pending downgrade counts from its date.
_effective_values(s) ==
    IF s.pending # NoProduct /\ s.pendingAt # NoTime /\ s.pendingAt <= now
    THEN s.pending ELSE s.product

\* An active row without an end has no end.
has_paid_access(s) ==
    \/ s.status = "active" /\ (s.periodEnd = NoTime \/ s.periodEnd > now)
    \/ s.status = "past_due" /\ s.graceEnd # NoTime /\ s.graceEnd > now

has_copy_access(s) == _effective_values(s) > 0 /\ has_paid_access(s)

-----------------------------------------------------------------------------
(* The provider, external.                                                 *)

Snap(s, r, end) == [pid |-> s, status |-> r.status, product |-> r.product,
                    periodEnd |-> end, cancelAtEnd |-> r.cancelAtEnd]

\* What a payload may say of the end of the period.
Told(r) == {r.periodEnd, NoTime}

SubscriptionKinds == {"created", "updated", "deleted"}

\* A subscription becomes r and events tell of it (one that never arrives is
\* not listed); of an invoice only the subscription's id counts, and it has the
\* number of its event.
Emit(s, r, kinds) ==
    LET ids == [k \in kinds |-> emitted + (IF k = "paid" THEN Cardinality(kinds) ELSE 1)]
    IN  /\ emitted + Cardinality(kinds) <= MaxEvents
        /\ emitted' = emitted + Cardinality(kinds)
        /\ remote' = [remote EXCEPT ![s] = r]
        /\ \E end \in IF kinds \cap SubscriptionKinds = {} THEN {NoTime} ELSE Told(r) :
             events' = events \cup {[kind |-> k, snap |-> Snap(s, r, end), id |-> ids[k],
                                    inv |-> ids[k], amount |-> 5 * (r.product + 1)] : k \in kinds}

Sold(r) == paidUntil' = IF r.periodEnd > paidUntil THEN r.periodEnd ELSE paidUntil

\* The user pays an open checkout session.
CheckoutPaid(s, p) ==
    LET r == [status |-> "active", product |-> p,
              periodEnd |-> now + PeriodLength, cancelAtEnd |-> FALSE]
    IN  /\ p \in sessions /\ remote[s].status = "none"
        /\ sessions' = sessions \ {p}
        /\ \E kinds \in {{"created"}, {"created", "paid"}} : Emit(s, r, kinds)
        /\ Sold(r)
        /\ UNCHANGED <<sub, tab, hook, guard, now, affVars>>

Due(s) == remote[s].status \in {"active", "past_due"} /\ now >= remote[s].periodEnd

Renews(s) ==
    LET r == [remote[s] EXCEPT !.status = "active", !.periodEnd = now + PeriodLength]
    IN  /\ Due(s) /\ ~remote[s].cancelAtEnd
        /\ \E kinds \in {{"updated"}, {"paid"}} : Emit(s, r, kinds)
        /\ Sold(r)
        /\ UNCHANGED <<sub, tab, hook, guard, sessions, now, affVars>>

RenewalFails(s) ==
    /\ Due(s) /\ ~remote[s].cancelAtEnd
    /\ \E kinds \in {{"failed"}, {"updated"}} :
         Emit(s, [remote[s] EXCEPT !.status = "past_due"], kinds)
    /\ UNCHANGED <<sub, tab, hook, guard, sessions, paidUntil, now, affVars>>

\* A cancellation comes due, or the provider gives up on a past-due one.
SubscriptionEnds(s) ==
    /\ \/ Due(s) /\ remote[s].cancelAtEnd
          /\ Emit(s, [remote[s] EXCEPT !.status = "canceled"], {"deleted"})
       \/ remote[s].status = "past_due"
          /\ Emit(s, [remote[s] EXCEPT !.status = "unpaid"], {"updated"})
    /\ UNCHANGED <<sub, tab, hook, guard, sessions, paidUntil, now, affVars>>

\* A refund or a dispute of an invoice that earned a commission or whose
\* payment is still to be reported, in part or in full.
Refunded(i, amount) ==
    /\ i \in Earned \cup {e.inv : e \in {x \in events : x.kind = "paid"}}
    /\ emitted < MaxEvents /\ emitted' = emitted + 1
    /\ events' = events \cup {[kind |-> "refund", id |-> emitted + 1, inv |-> i,
                               amount |-> amount, snap |-> NoSnapshot]}
    /\ UNCHANGED <<sub, tab, hook, guard, sessions, remote, paidUntil, now, affVars>>

-----------------------------------------------------------------------------
(* Webhooks.                                                               *)

Linked(s, e) == s # NoRow /\ s.pid = e.snap.pid

\* The provider's status; an event that deletes says canceled.
_status(e, deleted) == IF deleted THEN "canceled" ELSE e.status

\* Faulty variant of Grace: every report of a failed payment starts it anew.
GraceRestarted(s, status) ==
    IF status = "past_due" THEN now + GraceLength
    ELSE IF status = "active" THEN NoTime ELSE s.graceEnd

\* grace_ends_at once the row's status is known.
Grace(s, status) ==
    IF status = "past_due" /\ s.graceEnd = NoTime THEN now + GraceLength
    ELSE IF status = "active" THEN NoTime ELSE s.graceEnd

\* A payload that only repeats a downgrade that is not due yet.
pending_matches(s, snap) ==
    s.pending = snap.product /\ s.pendingAt # NoTime /\ s.pendingAt > now

apply_subscription_payload(s, snap, deleted) ==
    LET status == _status(snap, deleted)
        kept == pending_matches(s, snap)
    IN  [pid |-> snap.pid, status |-> status,
         product |-> IF kept THEN s.product ELSE snap.product,
         pending |-> IF kept THEN s.pending ELSE NoProduct,
         pendingAt |-> IF kept THEN s.pendingAt ELSE NoTime,
         periodEnd |-> snap.periodEnd, cancelAtEnd |-> snap.cancelAtEnd,
         graceEnd |-> Grace(s, status)]

\* The row customer.subscription.created starts from when there is none.
BlankRow(snap) ==
    [pid |-> snap.pid, product |-> snap.product, status |-> "active", periodEnd |-> NoTime,
     cancelAtEnd |-> FALSE, graceEnd |-> NoTime, pending |-> NoProduct, pendingAt |-> NoTime]

\* Faulty variant: a second subscription takes the row over.
MayTakeOverAlways(s) == TRUE

MayTakeOver(s) == s # NoRow => s.status \in {"canceled", "unpaid"}

\* The row as a subscription event leaves the row s it read; an unlinked event,
\* or one of a duplicate, is acknowledged.
SubscriptionEvent(s, e) ==
    IF Linked(s, e) \/ (e.kind = "created" /\ MayTakeOver(s))
    THEN apply_subscription_payload(IF s = NoRow THEN BlankRow(e.snap) ELSE s, e.snap, e.kind = "deleted")
    ELSE s

PaymentFailed(s, e) ==
    IF Linked(s, e) THEN [s EXCEPT !.status = "past_due", !.graceEnd = Grace(s, "past_due")] ELSE s

Earns(s, e) == e.kind = "paid" /\ Linked(s, e) /\ s.status # "canceled"

\* Faulty variant: a paid invoice moves the period's end by itself.
InvoicePaidExtends(s, e) ==
    IF Earns(s, e)
    THEN [s EXCEPT !.status = "active", !.graceEnd = NoTime, !.periodEnd = now + PeriodLength] ELSE s

InvoicePaid(s, e) ==
    IF Earns(s, e) THEN [s EXCEPT !.status = "active", !.graceEnd = NoTime] ELSE s

\* The session's row when the event is done; a refund leaves it.
RowAfter(s, e) ==
    CASE e.kind \in SubscriptionKinds -> SubscriptionEvent(s, e)
      [] e.kind = "failed" -> PaymentFailed(s, e)
      [] e.kind = "paid" -> InvoicePaid(s, e)
      [] OTHER -> s

\* The event id is recorded with its effects and a repeated one ignored: a
\* processed event is gone, and a second delivery waits for the first.
claim_webhook_event(e) == e \in events /\ \A h \in Hooks : hook[h] # Idle => hook[h].event # e

HookMoves(h, x) == hook' = [hook EXCEPT ![h] = x]

\* POST /billing/webhooks/bachs: the claim and the reads of the transaction.
process_webhook_event(h, e) ==
    /\ hook[h] = Idle /\ claim_webhook_event(e)
    /\ HookMoves(h, [at |-> "read", event |-> e, seen |-> sub])
    /\ IF Earns(sub, e) THEN create_commission_from_paid_invoice(h, e.inv, e.amount)
       ELSE IF e.kind = "refund" THEN reverse_commission(h, e.inv, e.amount)
       ELSE UNCHANGED txn
    /\ UNCHANGED <<sub, tab, guard, sessions, remote, events, emitted, paidUntil, now,
                   config, override, suspended, attributed, commission>>

\* The commit writes the columns that differ from the row as it was read.
Written(seen, new) == [f \in DOMAIN new |-> IF new[f] # seen[f] THEN new[f] ELSE sub[f]]

\* Its commit; the insert of a second row for the user would fail.
commit_webhook_event(h) ==
    /\ hook[h] # Idle /\ HookMoves(h, Idle)
    /\ LET seen == hook[h].seen
           new == RowAfter(seen, hook[h].event)
       IN  IF seen = NoRow
           THEN sub' = (IF new = NoRow THEN sub ELSE new) /\ (new # NoRow => sub = NoRow)
           ELSE sub' = Written(seen, new)
    /\ WriteCommission(h)
    /\ events' = events \ {hook[h].event}
    /\ UNCHANGED <<tab, guard, sessions, remote, emitted, paidUntil, now,
                   config, override, suspended, attributed>>

\* A ValueError, a failed write or the end of the process: rolled back, and the
\* provider delivers the event again.
roll_back_webhook_event(h) ==
    /\ hook[h] # Idle /\ HookMoves(h, Idle) /\ Reads(h, NoCommission)
    /\ UNCHANGED <<sub, tab, guard, sessions, remote, events, emitted, paidUntil, now,
                   config, override, suspended, attributed, commission>>

-----------------------------------------------------------------------------
(* Requests of the user.                                                   *)

NeedsCheckout == sub # NoRow => sub.status \in {"canceled", "unpaid"}

Moves(r, t) == tab' = [tab EXCEPT ![r] = t]

\* checkout_guard.acquire; a held key makes the request return the stored URL
\* or refuse, and neither changes anything.
AcquireCheckout(r, p) ==
    /\ tab[r] = Idle /\ NeedsCheckout /\ guard = "none"
    /\ guard' = "creating"
    /\ Moves(r, [at |-> "creating", target |-> p])
    /\ UNCHANGED <<sub, hook, sessions, remote, events, emitted, paidUntil, now, affVars>>

\* create_checkout answers with a URL, or fails before or after the provider
\* opened the session; store and release may both fail to reach Redis.  The key
\* lives an hour; see Tick.
CreateCheckout(r) ==
    /\ tab[r].at = "creating" /\ Moves(r, Idle)
    /\ \/ sessions' = sessions \cup {tab[r].target} /\ guard' \in {"url", guard, "none"}
       \/ sessions' = sessions /\ guard' \in {"none", guard}
    /\ UNCHANGED <<sub, hook, remote, events, emitted, paidUntil, now, affVars>>

StartChange(r, p) ==
    /\ tab[r] = Idle /\ ~NeedsCheckout /\ sub.product # p
    /\ Moves(r, [at |-> "changing", target |-> p, seen |-> sub])
    /\ UNCHANGED <<sub, hook, guard, sessions, remote, events, emitted, paidUntil, now, affVars>>

StartCancel(r) ==
    /\ tab[r] = Idle /\ sub # NoRow /\ sub.status # "canceled" /\ ~sub.cancelAtEnd
    /\ Moves(r, [at |-> "canceling", target |-> sub.product, seen |-> sub])
    /\ UNCHANGED <<sub, hook, guard, sessions, remote, events, emitted, paidUntil, now, affVars>>

_is_upgrade(s, p) == p > s.product

\* The provider carries the request out and its answer arrives or is lost.
Answers(r, next, s, new) ==
    /\ Emit(s, new, {"updated"})
    /\ Moves(r, next) \/ Moves(r, Idle)
    /\ UNCHANGED <<sub, hook, guard, sessions, now, affVars>>

Answer(r, at, new, end) ==
    [at |-> at, target |-> tab[r].target, seen |-> tab[r].seen,
     answer |-> Snap(tab[r].seen.pid, new, end)]

\* change_plan: an upgrade is charged at once, a downgrade from the next cycle.
change_plan(r) ==
    /\ tab[r].at = "changing"
    /\ LET s == tab[r].seen.pid
           new == [remote[s] EXCEPT !.product = tab[r].target]
       IN  /\ remote[s].status \in {"active", "past_due"} /\ ~Due(s)
           /\ UNCHANGED paidUntil
           /\ \E end \in Told(new) : Answers(r, Answer(r, "changed", new, end), s, new)

cancel_at_period_end(r) ==
    /\ tab[r].at = "canceling"
    /\ LET s == tab[r].seen.pid
           new == [remote[s] EXCEPT !.cancelAtEnd = TRUE]
       IN  /\ remote[s].status \in {"active", "past_due"}
           /\ UNCHANGED paidUntil
           /\ \E end \in Told(new) : Answers(r, Answer(r, "canceled", new, end), s, new)

\* BachsError: 502 and nothing written.
ProviderRefuses(r) ==
    /\ tab[r].at \in {"changing", "canceling"} /\ Moves(r, Idle)
    /\ UNCHANGED <<sub, hook, guard, sessions, remote, events, emitted, paidUntil, now, affVars>>

start_checkout_or_change_plan(r) ==
    /\ tab[r].at = "changed" /\ Moves(r, Idle)
    /\ sub' = Written(tab[r].seen,
                IF _is_upgrade(tab[r].seen, tab[r].target)
                THEN apply_subscription_payload(tab[r].seen, tab[r].answer, FALSE)
                ELSE [tab[r].seen EXCEPT !.pending = tab[r].target,
                                         !.pendingAt = tab[r].seen.periodEnd])
    /\ UNCHANGED <<hook, guard, sessions, remote, events, emitted, paidUntil, now, affVars>>

cancel_subscription(r) ==
    /\ tab[r].at = "canceled" /\ Moves(r, Idle)
    /\ LET end == tab[r].answer.periodEnd IN
        sub' = Written(tab[r].seen, [tab[r].seen EXCEPT !.cancelAtEnd = TRUE,
                                     !.periodEnd = IF end = NoTime THEN @ ELSE end])
    /\ UNCHANGED <<hook, guard, sessions, remote, events, emitted, paidUntil, now, affVars>>

\* Time passes; the checkout key has expired by then, a provider call or a
\* webhook has not lasted as long.
Tick ==
    /\ now < MaxNow /\ now' = now + 1
    /\ \A r \in Tabs : tab[r] = Idle
    /\ \A h \in Hooks : hook[h] = Idle
    /\ guard' = "none"
    /\ UNCHANGED <<sub, tab, hook, sessions, remote, events, emitted, paidUntil, affVars>>

-----------------------------------------------------------------------------
BillingInit == now = 0 /\ AffInit /\ BillInit

BillStep ==
    \/ \E s \in ProviderSubs :
         \/ \E p \in Products : CheckoutPaid(s, p)
         \/ Renews(s) \/ RenewalFails(s) \/ SubscriptionEnds(s)
    \/ \E h \in Hooks :
         \/ \E e \in events : process_webhook_event(h, e)
         \/ commit_webhook_event(h) \/ roll_back_webhook_event(h)
    \/ \E i \in Invoices, amount \in Amounts \cup {NoAmount} : Refunded(i, amount)
    \/ \E r \in Tabs :
         \/ \E p \in Products : AcquireCheckout(r, p) \/ StartChange(r, p)
         \/ CreateCheckout(r) \/ StartCancel(r) \/ change_plan(r) \/ cancel_at_period_end(r)
         \/ ProviderRefuses(r) \/ start_checkout_or_change_plan(r) \/ cancel_subscription(r)
    \/ Tick

BillingNext ==
    \/ BillStep
    \/ (AffRequest \/ (sub = NoRow /\ attribute_new_user)) /\ UNCHANGED <<billVars, now>>

BillingSpec == BillingInit /\ [][BillingNext]_<<billVars, affVars, now>>

-----------------------------------------------------------------------------
\* The step is the commit of a webhook that read another row than the present.
CommitsStale == \E h \in Hooks : hook[h] # Idle /\ hook'[h] = Idle /\ hook[h].seen # sub

\* Late, repeated and reordered events, overlapping webhooks, lost answers and
\* requests that wrote what they read before a webhook never keep an active
\* user's access beyond what was paid: some period the provider sold is not
\* over.  (A row without an end, which a payload without one leaves, has access
\* until the next that has one.)
AccessIsPaid ==
    (/\ sub # NoRow /\ sub.status = "active" /\ has_paid_access(sub)
     /\ sub.periodEnd # NoTime) => now < paidUntil

\* Failed payments, however often and in whatever order they are reported and
\* however they overlap, never prolong a grace period that runs: its end goes
\* only when the row becomes active, or with a webhook that read an older row.
\* (An upgrade that awaited the provider may set it anew.)
GraceStands ==
    [][(sub # NoRow /\ sub.graceEnd # NoTime /\ UNCHANGED tab) =>
         \/ sub'.graceEnd = sub.graceEnd
         \/ sub'.graceEnd = NoTime /\ (sub'.status = "active" \/ CommitsStale)]_
      <<billVars, affVars, now>>

Runs(s) == s # NoRow /\ s.status \in {"active", "past_due"}

\* A subscription that runs keeps the row: the events of another one take it
\* over only if they read the row before this one ran in it.
RunningKeepsRow ==
    [][Runs(sub) => \/ sub'.pid = sub.pid
                    \/ \E h \in Hooks : hook[h] # Idle /\ hook'[h] = Idle /\ ~Runs(hook[h].seen)]_
      <<billVars, affVars, now>>

\* The same without the exception ("Ignored duplicate Bachs subscription"): two
\* webhooks that overlap may both find the row free (MCPlatformTakeover.cfg).
RunningKeepsRowAlways ==
    [][Runs(sub) => sub'.pid = sub.pid]_<<billVars, affVars, now>>
=============================================================================
