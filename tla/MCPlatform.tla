----------------------------- MODULE MCPlatform -----------------------------
(***************************************************************************)
(* The parts of the platform around copy trading, which share no state: the*)
(* synchronization of a broker account, a customer's subscription, the     *)
(* referral programme and the sessions of an account.  A behaviour follows *)
(* one of them.  Of billing, it has the requests of a user with one         *)
(* subscription beside one webhook at a time, or the overlapping webhooks  *)
(* of one who has opened the checkout of each product, with or without a   *)
(* subscription that ended before.                                         *)
(***************************************************************************)
EXTENDS AccountSync, Billing, AuthSessions, TLC

VARIABLE focus

MCSettings == {[rate |-> 10, months |-> 1, hold |-> 1]}

\* The subscription that the customer has had, or that his requests are about.
Earlier == CHOOSE s \in ProviderSubs : s \notin Clients

\* The process that takes the webhooks beside requests.
OneHook == CHOOSE h \in Hooks : TRUE

HasEnded(r) == [r EXCEPT !.status = "canceled"]

\* The customer whose webhooks overlap came through an affiliate; his terms stand.
PlatformInit ==
    /\ focus \in {"accounts", "requests", "webhooks", "affiliates", "sessions"}
    /\ AcctInit /\ AuthInit
    /\ LET unsold == [s \in ProviderSubs |-> Unsold] IN
       IF focus # "webhooks" THEN BillInit
       ELSE \/ BillInitWith(NoRow, unsold, Products)
            \/ BillInitWith(HasEnded(BlankRow(Snap(Earlier, Unsold, 0))),
                            [unsold EXCEPT ![Earlier] = HasEnded(Unsold)], Products)
    /\ now = 0 /\ override = NoRate /\ suspended = FALSE
    /\ config \in Settings
    /\ attributed = (focus = "webhooks")
    /\ commission = [i \in Invoices |-> NoCommission]
    /\ txn = [h \in Hooks |-> NoCommission]

PlatformNext ==
    /\ UNCHANGED focus
    /\ \/ focus = "accounts" /\ AcctNext
          /\ UNCHANGED <<now, affVars, billVars, authVars>>
       \/ /\ focus \in {"requests", "webhooks"} /\ BillStep
          /\ focus = "requests" => /\ \A h \in Hooks \ {OneHook} : hook'[h] = hook[h]
                                  /\ \A s \in Clients : remote'[s] = remote[s]
          /\ focus = "webhooks" => UNCHANGED <<tab, guard, remote[Earlier]>>
          /\ UNCHANGED <<acctVars, authVars>>
       \/ focus = "affiliates" /\ AffNext
          /\ UNCHANGED <<acctVars, billVars, authVars>>
       \/ focus = "sessions" /\ AuthNext
          /\ UNCHANGED <<now, acctVars, affVars, billVars>>

PlatformSpec ==
    PlatformInit /\ [][PlatformNext]_<<focus, now, acctVars, affVars, billVars, authVars>>

\* The parts share no state, so that the same model values serve as Workers,
\* Clients and, but for one, ProviderSubs: one permutation acts on all.
Symmetry == Permutations(Clients)
=============================================================================
