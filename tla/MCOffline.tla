------------------------------- MODULE MCOffline -------------------------------
(* What the application does not run itself, and what decides without acting: the    *)
(* desk, with the market or the healths moving, the rebalanced book, a sleeve's      *)
(* strategy, the registry of models and the two backtests, one at a time.        *)
EXTENDS Sleeves, Strategies, ModelRegistry, Backtest, SignalBacktest

VARIABLE part

(* The desk                                                                  *)
Calm == [few |-> FALSE, trend |-> "up", cross |-> "up", momentum |-> "none", breadth |-> "none",
         vix |-> "none", spike |-> FALSE, fall |-> "none", bounce |-> FALSE]
MCOutlooks == {Calm, [Calm EXCEPT !.cross = "down"], [Calm EXCEPT !.fall = "crash"]}
MCPreferences ==
    {[enabled |-> Book, cap |-> Row(16, 8, 2), minCash |-> 1],
     [enabled |-> Book, cap |-> Row(8, 8, 8), minCash |-> 4],
     [enabled |-> {LongTerm, Intraday}, cap |-> Row(20, 20, 20), minCash |-> 0]}
MCCapitals == {-500, 19999}
Scores == {Base, Row(1, 3, 40)}
MCTargets == {t \in [Symbols -> {0, 40, 60}] : \E s \in Symbols : t[s] > 0}

DeskInit ==
    /\ SleevesInit
    /\ part # "desk" => evidence = Calm
    /\ part \notin {"market", "desk"} => user.minCash = 1
    /\ part # "book" => cash = 0 /\ \A s \in Symbols : holdings[s] = 0

DeskNext ==
    \/ part = "market" /\ Observe
    \/ part = "desk" /\ \E s \in Measured : Measure(s) \/ Reenable(s)
    \/ part = "market" /\ \E capital \in Capitals : AllocateCapital(Base, capital, Book)
    \/ /\ part = "desk"
       /\ \E base \in Scores, capital \in Capitals, missing \in {{}, {Swing}} :
            AllocateCapital(base, capital, Book \ missing)
    \/ part = "book" /\ \E s \in Symbols, step \in {-3000, 700, 4000} : PriceMoves(s, step)
    \/ part = "book" /\ \E target \in Targets : Rebalance(target)

(* The strategies: five names in two sectors, a few views of them per kind, among them   *)
(* forecasts in the wrong units, names without a price, a score or a range, a market in   *)
(* panic and one that fell.                                                  *)
MCTickers == <<"a", "b", "c", "d", "e">>
MCSectorOf(n) == IF n \in {"a", "b", "c"} THEN 1 ELSE 2
Seen == [price |-> 1000, atr |-> 40, vol |-> 25, score |-> 50, mom |-> 10, valuation |-> 50, up |-> TRUE,
         liquid |-> TRUE, move |-> 300, surge |-> 100, vwap |-> 990]
With(scores, f) == [regime |-> "BULL", model |-> TRUE,
    of |-> [n \in Listed |-> [f[n] EXCEPT !.score = scores[CHOOSE i \in 1..5 : Tickers[i] = n]]]]
Plain == [n \in Listed |-> Seen]
Odd == [n \in Listed |-> IF n = "a" THEN [Seen EXCEPT !.price = 0, !.move = 600]
                         ELSE IF n = "b" THEN [Seen EXCEPT !.price = 1200, !.vol = 100, !.mom = 40]
                         ELSE IF n = "c" THEN [Seen EXCEPT !.price = 880, !.vwap = 900, !.up = FALSE, !.move = -400, !.mom = -30]
                         ELSE IF n = "d" THEN [Seen EXCEPT !.atr = 0, !.valuation = 10, !.mom = Unscored, !.surge = 900] ELSE [Seen EXCEPT !.vol = 10, !.move = 0, !.surge = 900]]
Fallen == [n \in Listed |-> [Seen EXCEPT !.price = IF n \in {"a", "b"} THEN 900 ELSE 1300, !.up = n = "e", !.move = -300, !.liquid = n # "e", !.mom = 90]]
MCViews(kind) ==
    IF kind = "swing" THEN
        {With(<<60, 50, 70, 90, 80>>, Plain), With(<<20, 60, 90, 70, 45>>, Odd), With(<<90, 45, 45, 30, 60>>, Fallen),
         [With(<<60, 50, 70, 90, 80>>, Odd) EXCEPT !.model = FALSE],
         [With(<<60, 50, 70, 90, 80>>, Fallen) EXCEPT !.regime = "PANIC"],
         With(<<9000, 50, 70, 90, 80>>, Plain)}
    ELSE IF kind = "longterm" THEN
        {With(<<60, 50, 70, 90, 80>>, Plain), With(<<90, 90, 20, Unscored, 70>>, Odd), With(<<30, 90, 90, 90, 60>>, Fallen),
         With(<<Unscored, Unscored, Unscored, 30, 70>>, Plain), With(<<50, 50, 50, 50, 50>>, Plain)}
    ELSE {With(<<0, 0, 0, 0, 0>>, Plain), With(<<0, 0, 0, 0, 0>>, Odd), With(<<0, 0, 0, 0, 0>>, Fallen)}
StrategyInit ==
    /\ StrategiesInit(IF part = "strategy" THEN {"swing", "longterm", "intraday"} ELSE {"swing"})
    /\ part # "strategy" => sleeve.engine = "approves" /\ view = With(<<60, 50, 70, 90, 80>>, Plain)

(* The second and the third model have one path: one version, trained again.       *)
MCPathOf(t) == IF t = 3 THEN 2 ELSE t

(* The event-driven backtest: a strategy that buys what did not fall and leaves at       *)
(* twice or half the price; the second history parts from the first after a day.       *)
MCNames == <<"a", "b">>
Rises(history, n) ==
    Len(history) > 0 /\ (Len(history) = 1 \/ history[Len(history)][n] >= history[Len(history) - 1][n])
MCWants(features, market) == {n \in Universe : Rises(features, n) \/ Rises(market, n)}
MCLeaves(entry, price) == price >= 2 * entry \/ 2 * price <= entry
MCSizeOf(value) == (3 * value) \div 5
Column(a, b) == [d \in 1..5 |-> [n \in Universe |-> IF n = Names[1] THEN a[d] ELSE b[d]]]
Second == {<<10, 10, 10, 10, 10>>, <<10, 0, 4, 0, 20>>, <<20, 10, 40, 20, 0>>}
Parted(h, cut, price) ==
    [l \in Lanes |-> [d \in 1..5 |-> IF l = 1 \/ d <= cut THEN h[d] ELSE [n \in Universe |-> price]]]
Flat == Parted(Column(<<5, 5, 5, 5, 5>>, <<5, 5, 5, 5, 5>>), 5, 0)
MCHistories ==
    {Parted(h, cut, price) : h \in {Column(a, b) : a \in [1..5 -> {0, 5, 20}], b \in Second},
                             cut \in {2, 3, 4}, price \in {0, 40}}
BacktestsInit ==
    /\ IF part = "events" THEN closes \in MCHistories /\ first \in {1, 2} /\ failing \in {{}, {2}, {3}}
       ELSE closes = Flat /\ first = 1 /\ failing = {}
    /\ BacktestInit

(* The research backtest: three names over six days, the members known, unknown for a    *)
(* day or changing, one name traded far more than the others.                        *)
Columns == {<<10, 10, 20, 20, 10, 40>>, <<20, 10, 10, 40, 40, 20>>, <<0, 10, 20, 0, 30, 30>>}
Constituents == {[t \in 1..6 |-> Shares], [t \in 1..6 |-> IF t = 3 THEN Unavailable ELSE IF t < 4 THEN Shares ELSE {1, 2}],
                 [t \in 1..6 |-> IF t < 3 THEN {2, 3} ELSE Shares]}
Volumes == [t \in 1..6 |-> [s \in Shares |-> IF s = 1 THEN 90 ELSE IF t = 4 THEN 1 ELSE 10]]
Panel(c, m) == [prices |-> [t \in 1..6 |-> [s \in Shares |-> c[s][t]]], members |-> m, volume |-> Volumes]
Cut(panel, d, tail) ==
    [panel EXCEPT !.prices = [t \in 1..6 |-> IF t <= d THEN @[t] ELSE [s \in Shares |-> IF s = tail THEN 5 ELSE 40]],
                  !.members = [t \in 1..6 |-> IF t <= d THEN @[t] ELSE {tail}]]
MCPanels ==
    {[a \in Studies |-> IF a = 1 THEN Panel(c, m) ELSE Cut(Panel(c, m), d, tail)] :
        c \in {f \in [Shares -> Columns] : f[3] = <<0, 10, 20, 0, 30, 30>>}, m \in Constituents,
        d \in {2, 4}, tail \in Shares}
StudiesInit ==
    /\ SignalInit
    /\ IF part = "signals" THEN panels \in MCPanels ELSE panels = <<>>
StudiesNext ==
    /\ part = "signals" /\ ~measured.done
    /\ \E signal \in Signals, longOnly, volume \in BOOLEAN, days \in {1, 3} :
         RunBacktest([signal |-> signal, longOnly |-> longOnly, volume |-> volume, days |-> days])

-----------------------------------------------------------------------------
Init ==
    /\ part \in {"market", "desk", "book", "strategy", "registry", "events", "signals"}
    /\ DeskInit /\ StrategyInit /\ RegistryInit /\ BacktestsInit /\ StudiesInit
Next ==
    /\ UNCHANGED part
    /\ \/ DeskNext /\ UNCHANGED <<stVars, rgVars, btVars, sbVars>>
       \/ part = "strategy" /\ StrategiesNext /\ UNCHANGED <<slVars, rgVars, btVars, sbVars>>
       \/ part = "registry" /\ RegistryNext /\ UNCHANGED <<slVars, stVars, btVars, sbVars>>
       \/ part = "events" /\ Bar /\ UNCHANGED <<slVars, stVars, rgVars, sbVars>>
       \/ StudiesNext /\ UNCHANGED <<slVars, stVars, rgVars, btVars>>

vars == <<part, slVars, stVars, rgVars, btVars, sbVars>>
Spec == Init /\ [][Next]_vars
=============================================================================
