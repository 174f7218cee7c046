----------------------------- MODULE Affiliates -----------------------------
(***************************************************************************)
(* The referral programme (domains/affiliates): a customer who signed up   *)
(* with an affiliate's code earns that affiliate a commission for each of  *)
(* his first invoices, held for some days and reversed by refunds.  A      *)
(* webhook reads what it needs, without locks, and writes when its         *)
(* transaction commits; several processes take webhooks.  One affiliate    *)
(* and one customer; Billing composes this module and calls                *)
(* create_commission_from_paid_invoice and reverse_commission.  Amounts    *)
(* are cents, rates percent.                                               *)
(***************************************************************************)
EXTENDS Integers, FiniteSets, FiniteSetsExt

CONSTANTS
    Hooks,          \* the gunicorn processes, each in one webhook at a time
    Invoices,       \* provider invoice ids
    Settings,       \* values of the programme's settings an administrator may choose
    Amounts,        \* what an invoice or a refund may come to, in cents
    NoAmount,       \* a refund whose payload names no amount
    LastDay,        \* bound on the clock
    Overrides,      \* individual rates an administrator may choose
    NoRate          \* no individual rate

ASSUME AffiliatesAssumption ==
    /\ \A s \in Settings : s.months \in 1..60 /\ s.rate \in 0..100 /\ s.hold \in 0..180
    /\ Overrides \subseteq 0..100 /\ NoRate \notin Int
    /\ Settings # {} /\ Amounts \subseteq Nat /\ NoAmount \notin Nat /\ LastDay \in Nat
    /\ IsFiniteSet(Hooks)

VARIABLES
    now,            \* the clock; the composing module moves it
    config,         \* the row of affiliate_settings
    override,       \* commission_rate_override of the affiliate's profile
    suspended,      \* the status of that profile
    attributed,     \* a row of referral_attributions links the customer
    commission,     \* rows of affiliate_commissions, by invoice
    txn             \* the row that a webhook has read (none for an insert) and is to write

affVars == <<config, override, suspended, attributed, commission, txn>>

\* An invoice without a commission, a webhook without one to write.
NoCommission == [status |-> "none"]

Commission == [base : Nat, amount : Nat, reversed : Nat, releaseAt : Nat,
               status : {"pending", "available", "paid", "reversed"}]
Txn == [inv : Invoices, seen : Commission \cup {NoCommission}, new : Commission]

\* Each variable has its type.
AffTypeOK ==
    /\ now \in Nat
    /\ config \in Settings
    /\ override \in Overrides \cup {NoRate}
    /\ suspended \in BOOLEAN /\ attributed \in BOOLEAN
    /\ commission \in [Invoices -> Commission \cup {NoCommission}]
    /\ txn \in [Hooks -> Txn \cup {NoCommission}]

AffInit ==
    /\ config \in Settings
    /\ override = NoRate /\ suspended = FALSE /\ attributed = FALSE
    /\ commission = [i \in Invoices |-> NoCommission]
    /\ txn = [h \in Hooks |-> NoCommission]

-----------------------------------------------------------------------------
\* quantize(MONEY, ROUND_HALF_UP) of n / d cents.
_money(n, d) == (2 * n + d) \div (2 * d)

effective_rate == IF override # NoRate THEN override ELSE config.rate

Earned == {i \in Invoices : commission[i] # NoCommission}

\* Faulty variant: commissions that were released no longer count.
count_pending_commissions ==
    Cardinality({i \in Earned : commission[i].status = "pending"})

count_qualifying_commissions ==
    Cardinality({i \in Earned : commission[i].status # "reversed"})

\* The row a paid invoice is worth.
AffiliateCommission(base) ==
    [base |-> base, amount |-> _money(base * effective_rate, 100), reversed |-> 0,
     releaseAt |-> now + config.hold, status |-> "pending"]

Reads(h, t) == txn' = [txn EXCEPT ![h] = t]

\* The reads of a paid invoice's webhook, and the row it will insert.
create_commission_from_paid_invoice(h, i, base) ==
    Reads(h, IF /\ commission[i] = NoCommission /\ attributed /\ ~suspended
                /\ count_qualifying_commissions < config.months
                /\ base > 0
             THEN [inv |-> i, seen |-> NoCommission, new |-> AffiliateCommission(base)]
             ELSE NoCommission)

Less(x, y) == IF x < y THEN x ELSE y

\* The largest single refund counts, not their sum; without an amount it is
\* the whole.
ReversedAmount(c, refund) ==
    LET refund_base == IF refund = NoAmount THEN c.base ELSE refund
        r == _money(c.amount * Less(refund_base, c.base), c.base)
    IN  IF r > c.reversed THEN r ELSE c.reversed

\* The read of a refund's or a dispute's webhook, and the row as it will be.
reverse_commission(h, i, refund) ==
    LET c == commission[i]
        r == ReversedAmount(c, refund)
    IN  Reads(h, IF c = NoCommission \/ c.status \in {"reversed", "paid"} THEN NoCommission
                 ELSE [inv |-> i, seen |-> c,
                       new |-> [c EXCEPT !.reversed = r,
                                         !.status = IF r >= c.amount THEN "reversed" ELSE @]])

\* The row after the update of the columns that the webhook changed.
Changed(t) == [f \in DOMAIN t.new |-> IF t.new[f] # t.seen[f] THEN t.new[f] ELSE commission[t.inv][f]]

\* provider_invoice_id is unique.
Inserts(t) == t # NoCommission /\ t.seen = NoCommission
CanWrite(t) == Inserts(t) => commission[t.inv] = NoCommission

\* The webhook's transaction commits.
WriteCommission(h) ==
    LET t == txn[h] IN
    /\ CanWrite(t)
    /\ commission' = IF t = NoCommission THEN commission
                     ELSE [commission EXCEPT ![t.inv] = IF Inserts(t) THEN t.new ELSE Changed(t)]
    /\ Reads(h, NoCommission)

-----------------------------------------------------------------------------
\* Registration with the affiliate's code.
attribute_new_user ==
    /\ ~attributed /\ attributed' = TRUE
    /\ UNCHANGED <<config, override, suspended, commission, txn>>

\* GET /affiliates/me, with release_due_commissions.
dashboard ==
    /\ commission' =
         [i \in Invoices |->
            IF i \in Earned /\ commission[i].status = "pending" /\ commission[i].releaseAt <= now
            THEN [commission[i] EXCEPT !.status = "available"] ELSE commission[i]]
    /\ UNCHANGED <<config, override, suspended, attributed, txn>>

\* PUT /admin/affiliates/settings, clearing the individual rates or not.
update_settings(s, clear_individual_overrides) ==
    /\ config' = s
    /\ override' = IF clear_individual_overrides THEN NoRate ELSE override
    /\ UNCHANGED <<suspended, attributed, commission, txn>>

update_user_rate(rate) ==
    /\ override' = rate
    /\ UNCHANGED <<config, suspended, attributed, commission, txn>>

\* By hand, for no request does it: the profile is suspended or restored.
SuspendProfile ==
    /\ suspended' = ~suspended
    /\ UNCHANGED <<config, override, attributed, commission, txn>>

\* By hand: an available commission is paid out.
PayOut(i) ==
    /\ i \in Earned /\ commission[i].status = "available"
    /\ commission' = [commission EXCEPT ![i].status = "paid"]
    /\ UNCHANGED <<config, override, suspended, attributed, txn>>

AffRequest ==
    \/ dashboard \/ SuspendProfile
    \/ \E i \in Invoices : PayOut(i)
    \/ \E s \in Settings, clear \in BOOLEAN : update_settings(s, clear)
    \/ \E rate \in Overrides \cup {NoRate} : update_user_rate(rate)

\* A webhook of a process that is in none, its commit or its rollback.
Webhook(h) ==
    /\ UNCHANGED <<now, config, override, suspended, attributed>>
    /\ \/ /\ txn[h] = NoCommission /\ UNCHANGED commission
          /\ \E i \in Invoices : \/ \E base \in Amounts : create_commission_from_paid_invoice(h, i, base)
                                 \/ \E refund \in Amounts \cup {NoAmount} : reverse_commission(h, i, refund)
       \/ txn[h] # NoCommission /\ WriteCommission(h)
       \/ Reads(h, NoCommission) /\ UNCHANGED commission

\* On its own, the component meets any invoices, refunds and passing days.
AffNext ==
    \/ (AffRequest \/ attribute_new_user) /\ UNCHANGED now
    \/ \E h \in Hooks : Webhook(h)
    \/ now < LastDay /\ now' = now + 1 /\ UNCHANGED affVars

AffSpec == now = 0 /\ AffInit /\ [][AffNext]_<<affVars, now>>

-----------------------------------------------------------------------------
MostMonths == Max({s.months : s \in Settings})

Standing == {i \in Earned : commission[i].status # "reversed"}

\* However invoices, refunds, releases and rate changes interleave, a customer
\* earns his affiliate no more standing commissions than the longest
\* recurring_months, but for those that webhooks of other processes counted at
\* the same time, and no refund takes back more than the commission was.
CommissionsBounded ==
    /\ Cardinality(Standing) <= MostMonths - 1 + Cardinality(Hooks)
    /\ \A i \in Earned : commission[i].reversed <= commission[i].amount

\* The same with the months alone (recurring_months: the invoices of a customer
\* that earn).  It does not hold: two webhooks count before either inserts, and
\* nothing but the invoice id is unique (MCPlatformMonths.cfg).
StandingWithinMonths == Cardinality(Standing) <= MostMonths
=============================================================================
