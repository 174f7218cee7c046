------------------------------ MODULE MCSignals ------------------------------
(***************************************************************************)
(* The path of a signal, one part at a time: two events of one source,     *)
(* redelivered after crashes, with two routes of which one waits for a     *)
(* stop loss and a take profit; the owner's settings, changed by two API   *)
(* threads; the review of a message; and, over sets of inputs, the rules   *)
(* that size the legs and limit an order.                                  *)
(***************************************************************************)
EXTENDS SignalProcessing, CopySettings, SignalCases, TLC

VARIABLE focus

\* The shapes of three messages: a market order, the levels of one, and both.
Shape ==
    [hedged |-> FALSE, hit |-> FALSE, narrative |-> FALSE, order |-> None, added |-> FALSE,
     sides |-> {}, symbol |-> None, manySymbols |-> FALSE, pending |-> FALSE, stray |-> FALSE,
     entry |-> None, entry_high |-> None, stop_loss |-> None, take_profits |-> <<>>,
     close_fraction |-> None]
BuyShape == [Shape EXCEPT !.sides = {"buy"}, !.symbol = "XAUUSD"]

Buy == deterministic_parse(BuyShape)
Details == deterministic_parse([Shape EXCEPT !.stop_loss = 1, !.take_profits = <<3>>])
BuyWithDetails == deterministic_parse([BuyShape EXCEPT !.stop_loss = 1, !.take_profits = <<3>>])

MCTexts == {Buy, Details, BuyWithDetails}

\* Four events of one conversation: it starts, enters the market, gets its
\* levels, and the second is edited from a market order to a pending one.
Start == [Buy EXCEPT !.symbol = None]
Later == [Buy EXCEPT !.action = "place_pending", !.entry = 5]
EditTexts == {Start, Buy, Details, Later}
Edited ==
    <<[type |-> "created", message |-> 1, says |-> Start], [type |-> "created", message |-> 2, says |-> Buy],
      [type |-> "created", message |-> 3, says |-> Details], [type |-> "edited", message |-> 2, says |-> Later]>>

MCPolicyPatches == {[maxLotPerTrade |-> 1, dailyLoss |-> TRUE, drawdown |-> TRUE]}
MCRoutePatches ==
    {[lot |-> 2, takeProfit |-> "first"], [distribution |-> "split_total"],
     [minimum |-> "direction_symbol", confirmed |-> TRUE], [minimum |-> "direction_symbol"],
     [lot |-> 1, minimum |-> "direction_symbol_sl_tp"]}
MCNewRoutes ==
    {[source |-> s, lot |-> 2, takeProfit |-> "all", distribution |-> "fixed_each",
      minimum |-> "direction_symbol", confirmed |-> c, running |-> FALSE] :
        s \in Sources, c \in BOOLEAN}

\* The targets and the lot of a signal, and how it is to be sized.
MCSized ==
    [targets : {<<>>, <<7>>, <<7, 9>>, <<9, 7, 8>>, <<7, 9, 7>>}, lot : {6},
     mode : {"all", "lowest", "highest"}, distribution : {"fixed_each", "split_total"}]

\* An order of a symbol with or without a broker suffix.
MCOrders ==
    [quote : {[bid |-> 4, ask |-> 5, age |-> 1]}, hour : {0, 8, 23}, direction : {"buy"}, entry : {5},
     quality : [start : {None, 8, 22}, end : {8, 22}, max_age : {1}, max_spread : {1}, max_slippage : {1}],
     requested : {<<"XAUUSD", 0>>, <<"XAUUSD", 1>>}, volume : {1, 3, 4, 5}, exposure : {0, 3},
     positions : {0}, account : {None},
     limits : [max_lot_per_trade : {4}, max_lot : {6}, max_open_positions : {1},
               allowed_symbols : {{}, {<<"XAUUSD", 0>>}, {<<"XAUUSD", 1>>}}, blocked_symbols : {{}},
               daily_loss_limit : {None}, max_drawdown_percent : {None}],
     spec : [min : {1, 2}, max : {5}, step : {1, 2}],
     catalog : {{[name |-> <<"XAUUSD", x>>, tradable |-> TRUE] : x \in suffixes} :
                    suffixes \in {{}, {0, 1}, {1}, {1, 2}}}]

\* The stream of the parts that do not look at it.
Quiet == [e \in 1..MaxEvents |-> [type |-> "created", message |-> 1, says |-> Buy]]

SignalsInit ==
    /\ focus \in {"signals", "settings", "reviews", "rules"}
    /\ input \in IF focus = "rules" THEN Cases ELSE {None}
    /\ SigInit /\ SetInit
    /\ focus = "signals" \/ stream = Quiet

SignalsNext ==
    /\ UNCHANGED <<focus, input>>
    /\ \/ focus = "signals" /\ SigNext /\ UNCHANGED setVars
       \/ focus = "settings" /\ ConfigNext /\ UNCHANGED sigVars
       \/ focus = "reviews" /\ ReviewNext /\ UNCHANGED sigVars

SignalsSpec == SignalsInit /\ [][SignalsNext]_<<focus, input, sigVars, setVars>>

\* A run of the four messages only.
EditsInit == stream = Edited /\ focus = "signals" /\ SignalsInit
EditsSpec == EditsInit /\ [][SignalsNext]_<<focus, input, sigVars, setVars>>

Symmetry == Permutations(Threads)

=============================================================================
