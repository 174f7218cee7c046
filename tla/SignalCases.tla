----------------------------- MODULE SignalCases -----------------------------
(***************************************************************************)
(* The rules of SignalRules put together as the signal and execution       *)
(* workers use them, over sets of cases: a signal that is sized in legs,   *)
(* and an order with the limits it is checked against.  A behaviour looks  *)
(* at one case.                                                            *)
(***************************************************************************)
EXTENDS SignalRules

CONSTANTS
    Sized,  \* signals and how they are sized
    Orders  \* orders with the quote, the limits and the broker's symbols

VARIABLE input  \* the case that is looked at, or None

\* Lots are in a unit that the shares of the targets are whole numbers of.
IsSized(c) ==
    /\ c.targets \in Seq(Int)
    /\ c.lot \in Nat
    /\ Len(c.targets) > 1 => c.lot % Len(c.targets) = 0

\* Volumes are in the broker's finest unit, hours in UTC.
IsOrder(c) ==
    /\ c.hour \in 0..23
    /\ {c.quality.start, c.quality.end} \subseteq 0..23 \cup {None}
    /\ c.volume \in Int /\ c.exposure \in Int
    /\ c.limits.max_lot_per_trade \in Int /\ c.limits.max_lot \in Int
    /\ c.spec.min \in Nat /\ c.spec.max \in Nat /\ c.spec.min <= c.spec.max
    /\ c.spec.step \in Nat \ {0}

ASSUME CasesAssumption ==
    /\ \A c \in Sized : IsSized(c)
    /\ \A c \in Orders : IsOrder(c)
    /\ None \notin SignalActions /\ None \notin 0..23

Cases == Sized \cup Orders

CaseInit == input \in Cases \cup {None}
CaseSpec == CaseInit /\ [][UNCHANGED input]_input

-----------------------------------------------------------------------------
\* The legs of a signal, and the volume that its limits are checked with.
Legs(c, action) == intent_legs_for_action(action, c.lot, c.targets, c.mode, c.distribution)
Volume(c, action) ==
    signal_volume_for_action(action, c.lot, Len(c.targets), c.mode, c.distribution)

\* The volume that the risk limits are checked with (signal_volume_for_action)
\* is what the legs of the intents add up to, for every mode and distribution.
LegsAddUp ==
    input \in Sized =>
        \A action \in OPENING_ACTIONS :
            FoldSeq(LAMBDA leg, sum : leg.lot + sum, 0, Legs(input, action)) = Volume(input, action)

Quality(c) == check_execution_quality(c.quote, c.hour, c.direction, c.entry, c.quality)
Risk(c) == ensure_account_risk_within_limits(c.requested, c.volume, c.exposure, c.positions,
                                             c.account, c.limits)
Resolved(c) == resolve_symbol(c.requested, c.catalog)

\* The hours from start to end, around midnight.
Window(start, end) == {(start + k) % 24 : k \in 0..(((end + 24 - start) % 24) - 1)}

\* What the checks of an order promise of what the broker gets.
KeepsLimits(c) ==
    LET sent == normalize_volume(c.volume, c.spec)
        start == c.quality.start
        end == c.quality.end
    IN  /\ start = None \/ end = None \/ start = end \/ c.hour \in Window(start, end)
        /\ sent \in c.spec.min .. c.spec.max
        /\ c.volume >= c.spec.min => /\ sent <= c.limits.max_lot_per_trade
                                     /\ c.exposure + sent <= c.limits.max_lot
        /\ c.limits.allowed_symbols # {} =>
             matches_symbol_list(Resolved(c).name, c.limits.allowed_symbols)

\* An order that passes the checks still keeps to them as the broker gets it:
\* rounded to the broker's steps it is within the account's limits (unless the
\* broker's least volume is more than was asked) and the broker's, its broker
\* symbol is one the account allows, and the hour is in the trading window.
OrderStaysWithinLimits ==
    (input \in Orders /\ Quality(input) = "good" /\ Risk(input) = "within" /\ Resolved(input) # None)
        => KeepsLimits(input)
=============================================================================
