----------------------------- MODULE SignalRules -----------------------------
(***************************************************************************)
(* The decisions of the copy-trading signal pipeline, as operators: which  *)
(* conversation a message belongs to (assembly.py), how its details are    *)
(* merged (generations.py), whether the result may be executed             *)
(* (engine.py), and in which legs and under which limits (execution.py,    *)
(* symbols.py, quality.py).                                                *)
(*                                                                         *)
(* Symbols are normalised; prices, lots and ages are integers.             *)
(***************************************************************************)
EXTENDS Integers, Sequences, FiniteSets, SequencesExt

CONSTANT None   \* a field that is not given

OPEN_ACTIONS == {"open_market", "place_pending"}
MANAGEMENT_ACTIONS == {"modify_sl_tp", "break_even", "partial_close", "full_close",
                       "cancel_pending", "additional_tp"}
SignalActions == OPEN_ACTIONS \cup MANAGEMENT_ACTIONS \cup {"status_only"}

\* What a message says, and what is known of a signal.
NoContext == [action |-> None, symbol |-> None, direction |-> None, entry |-> None,
              entry_high |-> None, stop_loss |-> None, take_profits |-> <<>>,
              close_fraction |-> None]

-----------------------------------------------------------------------------
(* parser.py: the shape of a message, one flag or token per pattern.       *)

\* deterministic_parse tries its patterns in this order; NoContext with
\* action None stands for "ask the language model".
deterministic_parse(m) ==
    LET say(a) == [NoContext EXCEPT !.action = a, !.symbol = m.symbol]
        prices == [say("modify_sl_tp") EXCEPT !.stop_loss = m.stop_loss, !.take_profits = m.take_profits]
    IN  IF m.hedged THEN NoContext
        ELSE IF m.hit THEN say("status_only")
        ELSE IF m.narrative /\ (m.sides # {} \/ m.stop_loss # None \/ m.take_profits # <<>>)
             THEN say("status_only")
        ELSE IF m.order # None
             THEN [say(m.order) EXCEPT !.close_fraction = m.close_fraction]
        ELSE IF m.added /\ m.sides = {} /\ m.take_profits # <<>>
             THEN [say("additional_tp") EXCEPT !.take_profits = m.take_profits]
        ELSE IF m.sides = {} /\ (m.stop_loss # None \/ m.take_profits # <<>>) THEN prices
        ELSE IF m.sides = {} \/ m.symbol = None THEN NoContext
        ELSE IF Cardinality(m.sides) > 1 \/ m.manySymbols
             THEN [NoContext EXCEPT !.action = "status_only"]
        ELSE IF ~m.pending /\ m.entry = None /\ m.stray THEN NoContext
        ELSE [prices EXCEPT !.action = IF m.pending THEN "place_pending" ELSE "open_market",
                            !.direction = CHOOSE d \in m.sides : TRUE, !.entry = m.entry,
                            !.entry_high = m.entry_high]

-----------------------------------------------------------------------------
(* assembly.py                                                             *)

Selected(c) == [selected |-> c, ambiguous |-> FALSE]
Unselected == Selected(None)
Ambiguous == [selected |-> None, ambiguous |-> TRUE]
One(S) == Cardinality(S) = 1
Only(S) == CHOOSE c \in S : TRUE

\* The only member, or the code's answers for none and for several.
Unique(S) == IF One(S) THEN Selected(Only(S)) ELSE Ambiguous

Matchable(action, eligible) ==
    IF action \in OPEN_ACTIONS THEN {c \in eligible : ~c.opening_submitted} ELSE eligible

Eligible(action, C) ==
    CASE action = "modify_sl_tp" -> {c \in C : ~c.opening_submitted \/ c.has_active_trade}
      [] action \in MANAGEMENT_ACTIONS \ {"modify_sl_tp"} -> {c \in C : c.has_active_trade}
      [] OTHER -> C

\* By symbol and direction, or, without a symbol, the only conversation.
chooseByMeaning(m, matchable) ==
    LET exact == {c \in matchable : c.symbol = m.symbol /\ m.direction \in {None, c.direction}}
        unresolved == {c \in matchable : /\ c.symbol = None
                                         /\ m.direction = None \/ c.direction \in {None, m.direction}}
    IN  IF m.symbol # None
        THEN IF One(exact) THEN Selected(Only(exact))
             ELSE IF exact # {}
             THEN IF m.action = "full_close"
                  THEN Selected(CHOOSE c \in exact : \A d \in exact : d.updated_at <= c.updated_at)
                  ELSE Ambiguous
             ELSE IF unresolved # {} THEN Unique(unresolved) ELSE Unselected
        ELSE IF One(matchable)
        THEN IF m.direction \in {None, Only(matchable).direction}
             THEN Selected(Only(matchable)) ELSE Unselected
        ELSE IF matchable # {} THEN Ambiguous ELSE Unselected

\* An edit, or else a reply, names the first or the last message of its
\* conversation.
chooseByReference(m, eligible) ==
    LET names(id) == {c \in eligible : id \in {c.reply_root_message_id, c.last_message_id}}
        edits == IF m.is_edit THEN names(m.message_id) ELSE {}
        replies == IF m.reply_to # None THEN names(m.reply_to) ELSE {}
    IN  IF edits # {} THEN Unique(edits)
        ELSE IF replies # {} THEN Unique(replies)
        ELSE chooseByMeaning(m, Matchable(m.action, eligible))

\* Details next to, or fitting, an incomplete opening belong to it.
choose_conversation(m, C) ==
    LET eligible == Eligible(m.action, C)
        openings == {c \in eligible : ~c.opening_submitted}
        adjacent(S) == {c \in S : c.last_message_id + 1 = m.message_id}
        fitting == {c \in openings : /\ m.symbol \in {None, c.symbol}
                                     /\ m.direction \in {None, c.direction}}
    IN  IF m.action = "modify_sl_tp" /\ One(adjacent(openings))
        THEN Selected(Only(adjacent(openings)))
        ELSE IF m.action = "modify_sl_tp" /\ fitting # {} THEN Unique(fitting)
        ELSE IF m.action \in MANAGEMENT_ACTIONS /\ One(adjacent(eligible))
        THEN Selected(Only(adjacent(eligible)))
        ELSE chooseByReference(m, eligible)

-----------------------------------------------------------------------------
(* generations.py                                                          *)

Blank(f, v) == IF f = "take_profits" THEN v = <<>> ELSE v = None

merge_context(current, update) ==
    [f \in DOMAIN current |-> IF Blank(f, update[f]) THEN current[f] ELSE update[f]]

\* list(dict.fromkeys(s)).
Distinct(s) ==
    FoldLeft(LAMBDA seen, x : IF x \in ToSet(seen) THEN seen ELSE Append(seen, x), <<>>, s)

UnionInOrder(s, t) == Distinct(s \o t)

\* Faulty variant of KeepsOpening: details turn an incomplete opening into an
\* update of a position.
KeepsNothing(current, update, submitted) == FALSE

KeepsOpening(current, update, submitted) ==
    ~submitted /\ current.action \in OPEN_ACTIONS /\ update.action \in MANAGEMENT_ACTIONS

merge_generation_context(current, update, submitted) ==
    LET merged == merge_context(current, update)
    IN  [merged EXCEPT
           !.take_profits = IF ~submitted /\ update.take_profits # <<>>
                            THEN UnionInOrder(current.take_profits, update.take_profits) ELSE @,
           !.action = IF KeepsOpening(current, update, submitted) THEN current.action ELSE @]

corrective_action_for_submitted_edit(current, update) ==
    LET moved == \/ update.stop_loss # None /\ update.stop_loss # current.stop_loss
                 \/ update.take_profits # <<>> /\ update.take_profits # current.take_profits
    IN  [update EXCEPT !.action = IF moved THEN "modify_sl_tp" ELSE "status_only"]

-----------------------------------------------------------------------------
(* engine.py.  A policy gives the minimum_fields, the market freshness and *)
(* the actions that the route allows (its pending and allow flags).        *)

RequiredFields ==
    [direction_symbol |-> {}, direction_symbol_entry |-> {"entry"},
     direction_symbol_sl |-> {"stop_loss"}, direction_symbol_tp |-> {"take_profits"},
     direction_symbol_sl_tp |-> {"stop_loss", "take_profits"}]

Given(s) == ({s.entry, s.entry_high, s.stop_loss} \ {None}) \cup ToSet(s.take_profits)

PricesConflict(s) ==
    /\ s.stop_loss # None
    /\ \E t \in ToSet(s.take_profits) :
        (s.direction = "buy" /\ t <= s.stop_loss) \/ (s.direction = "sell" /\ t >= s.stop_loss)

\* The reason why a signal is not executed, or "accepted".
validate_signal(s, age, policy) ==
    IF s.action = "status_only" THEN "status"
    ELSE IF s.action = "place_pending" /\ s.entry = None THEN "waiting for entry"
    ELSE IF s.action = "additional_tp" /\ s.take_profits = <<>> THEN "waiting for target"
    ELSE IF \E p \in Given(s) : p <= 0 THEN "prices not positive"
    ELSE IF PricesConflict(s) THEN "prices conflict"
    ELSE IF s.entry # None /\ s.entry_high # None /\ s.entry > s.entry_high THEN "entry range"
    ELSE IF s.action = "partial_close" /\ (s.close_fraction = None \/ s.close_fraction \notin 1..100)
    THEN "close fraction"
    ELSE IF s.action = "open_market" /\ age > policy.freshness THEN "too old"
    ELSE IF s.action # "open_market" /\ s.action \notin policy.allowed THEN "disabled"
    ELSE IF s.action \in OPEN_ACTIONS /\ s.direction = None THEN "waiting for direction"
    ELSE IF /\ s.action \in OPEN_ACTIONS
            /\ \/ s.symbol = None
               \/ \E f \in RequiredFields[policy.minimum_fields] : Blank(f, s[f])
    THEN "waiting for details"
    ELSE "accepted"

\* Lots are counted in a unit that every split of fixed_lot is a multiple of.
build_tp_legs(fixed_lot, tps, mode, distribution) ==
    LET S == ToSet(tps)
        lowest == CHOOSE t \in S : \A u \in S : t <= u
        highest == CHOOSE t \in S : \A u \in S : t >= u
        selected == IF tps = <<>> THEN <<>>
                    ELSE CASE mode = "lowest" -> <<lowest>>
                           [] mode = "highest" -> <<highest>>
                           [] OTHER -> tps
        lot == IF distribution = "split_total" /\ Len(selected) > 1
               THEN fixed_lot \div Len(selected) ELSE fixed_lot
    IN  [i \in 1..Len(selected) |-> [take_profit |-> selected[i], lot |-> lot]]

-----------------------------------------------------------------------------
(* execution.py and symbols.py                                             *)

OPENING_ACTIONS == OPEN_ACTIONS \cup {"additional_tp"}

\* Faulty variant of calculate_signal_volume: one lot whatever the targets.
calculate_one_lot(fixed_lot, count, mode, distribution) == fixed_lot

calculate_signal_volume(fixed_lot, count, mode, distribution) ==
    IF distribution = "split_total" \/ mode \in {"lowest", "highest"} \/ count = 0
    THEN fixed_lot ELSE fixed_lot * count

signal_volume_for_action(action, fixed_lot, count, mode, distribution) ==
    IF action \in OPENING_ACTIONS
    THEN calculate_signal_volume(fixed_lot, count, mode, distribution) ELSE 0

\* intent_legs_for_action: a signal without targets has one leg without one.
intent_legs_for_action(action, fixed_lot, tps, mode, distribution) ==
    IF action \in OPENING_ACTIONS /\ tps # <<>>
    THEN build_tp_legs(fixed_lot, tps, mode, distribution)
    ELSE <<[take_profit |-> IF tps = <<>> THEN None ELSE Last(tps), lot |-> fixed_lot]>>

\* A symbol name is a pair of its base and its broker suffix (0 for none).
matches_symbol_list(symbol, configured) == \E c \in configured : c[1] = symbol[1] /\ c[2] \in {0, symbol[2]}

\* The limit an opening breaks, or "within".
ensure_account_risk_within_limits(symbol, volume, exposure, positions, account, policy) ==
    IF volume > policy.max_lot_per_trade THEN "per trade"
    ELSE IF exposure + volume > policy.max_lot THEN "exposure"
    ELSE IF positions >= policy.max_open_positions THEN "positions"
    ELSE IF policy.allowed_symbols # {} /\ ~matches_symbol_list(symbol, policy.allowed_symbols)
    THEN "not allowed"
    ELSE IF matches_symbol_list(symbol, policy.blocked_symbols) THEN "blocked"
    ELSE IF account = None
    THEN IF {policy.daily_loss_limit, policy.max_drawdown_percent} = {None} THEN "within" ELSE "no equity"
    ELSE IF /\ policy.daily_loss_limit # None /\ account.anchor # None
            /\ account.anchor - account.equity >= policy.daily_loss_limit
    THEN "daily loss"
    ELSE IF /\ policy.max_drawdown_percent # None /\ account.peak # None /\ account.peak > 0
            /\ (account.peak - account.equity) * 100 >= policy.max_drawdown_percent * account.peak
    THEN "drawdown"
    ELSE "within"

Larger(a, b) == IF a > b THEN a ELSE b
Smaller(a, b) == IF a < b THEN a ELSE b

\* Faulty variant of normalize_volume: it rounds up to the next step.
normalize_volume_up(v, s) ==
    LET bounded == Smaller(Larger(v, s.min), s.max)
    IN  Smaller(((bounded + s.step - 1) \div s.step) * s.step, s.max)

normalize_volume(v, s) ==
    LET bounded == Smaller(Larger(v, s.min), s.max)
    IN  Larger(s.min, Smaller((bounded \div s.step) * s.step, s.max))

\* The broker symbol of a requested one, or None when there is none or the
\* choice is ambiguous (both raise).
resolve_symbol(requested, catalog) ==
    LET tradable == {s \in catalog : s.tradable}
        exact == {s \in tradable : s.name = requested}
        matches == {s \in tradable : s.name[1] = requested[1] /\ requested[2] \in {0, s.name[2]}}
        closest == {s \in matches : \A t \in matches : s.name[2] <= t.name[2]}
    IN  IF exact # {} THEN IF One(exact) THEN Only(exact) ELSE None
        ELSE IF One(closest) THEN Only(closest) ELSE None

-----------------------------------------------------------------------------
(* quality.py                                                              *)

within_trading_hours(hour, start, end) ==
    \/ start = None \/ end = None \/ start = end
    \/ start < end /\ start <= hour /\ hour < end
    \/ start > end /\ (hour >= start \/ hour < end)

Distance(a, b) == Larger(a, b) - Smaller(a, b)

\* The code of the ExecutionQualityError, or "good"; quote is None when bid
\* or ask is missing or not a number, its age None when it has no time.
check_execution_quality(quote, hour, direction, entry, p) ==
    LET market == IF direction = "buy" THEN quote.ask ELSE quote.bid
    IN  IF ~within_trading_hours(hour, p.start, p.end) THEN "OUTSIDE_TRADING_HOURS"
        ELSE IF quote = None THEN "QUOTE_UNAVAILABLE"
        ELSE IF quote.age = None THEN "QUOTE_TIME_MISSING"
        ELSE IF quote.age > p.max_age THEN "STALE_QUOTE"
        ELSE IF p.max_spread # None /\ quote.ask - quote.bid > p.max_spread THEN "SPREAD_TOO_WIDE"
        ELSE IF p.max_slippage # None /\ entry # None /\ Distance(market, entry) > p.max_slippage
        THEN "SLIPPAGE_TOO_HIGH"
        ELSE "good"

=============================================================================
