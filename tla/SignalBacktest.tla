---------------------------- MODULE SignalBacktest ----------------------------
(***************************************************************************)
(* The research backtest (research/backtest.py) of the baseline signals           *)
(* (research/signals.py): a panel of prices is ranked across its names, the best     *)
(* are held between rebalances and earn the return from the next close to the one    *)
(* after.  As in Backtest, two panels that agree up to a day are measured, each on   *)
(* its own.  A price of zero stands for one that is missing; weights and returns   *)
(* are whole numbers of Unit.                                                *)
(***************************************************************************)
EXTENDS Integers, Sequences, FiniteSetsExt

CONSTANTS
    Shares,             \* the names of the panel
    Studies,            \* the panels
    Unavailable,        \* UniverseUnavailable, for a day without an answer
    Unit,
    MaxWeight,          \* in units
    Quantile,           \* top_quantile, in percent
    MinValid,           \* the names a day needs to be ranked at all, ten in the code
    Participation,      \* max_participation, in percent
    CostBps,            \* per turnover, in ten thousandths
    Month, Year         \* the windows of the signals

ASSUME SignalAssumption ==
    /\ IsFiniteSet(Shares) /\ Studies # {}
    /\ {Unit, MaxWeight, MinValid, Participation, Month, Year} \subseteq Nat

VARIABLES
    panels,     \* per study: prices, members and volume, per day
    measured    \* the last configuration measured and its results, or Nothing yet

sbVars == <<panels, measured>>
Unmeasured == [done |-> FALSE]
Lag == 2

SignalInit == measured = Unmeasured
Final(panel) == Len(panel.prices)
Abs(x) == IF x < 0 THEN -x ELSE x

-----------------------------------------------------------------------------
(* Signals: higher is more attractive, and only the past is looked at.            *)

Price(panel, t, s) == IF t \in 1..Final(panel) THEN panel.prices[t][s] ELSE 0
Window(panel, from, till, s) == {Price(panel, t, s) : t \in from..till} \ {0}
Mean(panel, from, till, s) == MapThenSumSet(LAMBDA t : Price(panel, t, s), from..till) \div (till - from + 1)
Complete(panel, from, till, s) == \A t \in from..till : Price(panel, t, s) > 0

Momentum(panel, t, s) == (1000 * Price(panel, t - Month, s)) \div Price(panel, t - Year, s)
Reversal(panel, t, s) == -((1000 * Price(panel, t, s)) \div Price(panel, t - Month, s))
Trend(panel, t, s) ==
    LET slow == Mean(panel, t - Year + 1, t, s)
    IN (1000 * (Mean(panel, t - Month + 1, t, s) - slow)) \div slow
Breakout(panel, t, s) ==
    LET range == Window(panel, t - Year, t - 1, s)
    IN (1000 * (Price(panel, t, s) - Min(range))) \div (Max(range) - Min(range))

Signals == {"momentum", "reversal", "trend", "breakout"}
Defined(signal, panel, t, s) ==
    CASE signal = "momentum" -> Price(panel, t - Month, s) > 0 /\ Price(panel, t - Year, s) > 0
      [] signal = "reversal" -> Price(panel, t, s) > 0 /\ Price(panel, t - Month, s) > 0
      [] signal = "trend"    -> Complete(panel, t - Year + 1, t, s)
      [] signal = "breakout" -> Price(panel, t, s) > 0 /\ Cardinality(Window(panel, t - Year, t - 1, s)) > 1
Attraction(signal, panel, t, s) ==
    CASE signal = "momentum" -> Momentum(panel, t, s)
      [] signal = "reversal" -> Reversal(panel, t, s)
      [] signal = "trend"    -> Trend(panel, t, s)
      [] signal = "breakout" -> Breakout(panel, t, s)

-----------------------------------------------------------------------------
(* Weights                                                                   *)

(* apply_point_in_time_universe: a name that is no member that day is not ranked; on a   *)
(* day the universe has no answer for, none is.                               *)
Members(panel, t) == IF panel.members[t] = Unavailable THEN {} ELSE panel.members[t]
Ranked(signal, panel, t) == {s \in Members(panel, t) : Defined(signal, panel, t, s)}

(* rank(pct), ties at their average: the names whose rank is at least a share of all. *)
TwiceRank(signal, panel, t, s) ==
    LET all == Ranked(signal, panel, t)
        mine == Attraction(signal, panel, t, s)
    IN 2 * Cardinality({o \in all : Attraction(signal, panel, t, o) < mine})
         + Cardinality({o \in all : Attraction(signal, panel, t, o) = mine}) + 1
Long(signal, panel, t) ==
    LET all == Ranked(signal, panel, t) IN
    {s \in all : 100 * TwiceRank(signal, panel, t, s) >= 2 * Cardinality(all) * (100 - Quantile)}
Short(signal, panel, t) ==
    LET all == Ranked(signal, panel, t) IN
    {s \in all : 100 * TwiceRank(signal, panel, t, s) <= 2 * Cardinality(all) * Quantile}

(* cross_sectional_weights of one day: equal, at most MaxWeight each, and what the cap  *)
(* leaves over is not invested.                                              *)
Target(config, panel, t) ==
    LET long == Long(config.signal, panel, t)
        short == IF config.longOnly THEN {} ELSE Short(config.signal, panel, t)
        bets == (long \ short) \cup (short \ long)
        each == Min({Unit \div Cardinality(bets), MaxWeight})
    IN [s \in Shares |-> IF s \notin bets \/ Cardinality(Ranked(config.signal, panel, t)) < MinValid THEN 0
                         ELSE IF s \in long THEN each ELSE -each]

(* Slip: a day takes the weights of the rebalance that follows it.              *)
RebalanceAhead(config, panel, t) == Min({t + config.days - 1 - ((t - 1) % config.days), Final(panel)})

(* The rebalance a day's weights were set at: every config.days from the first.     *)
RebalanceDay(config, panel, t) == t - ((t - 1) % config.days)

(* The volume cap: the traded value of a name against the median of all that have one,    *)
(* times the participation and at most one; the book carried from the last rebalance is  *)
(* then scaled back to the whole, a short name's weight rounded as a long one's is.   *)
Traded(panel, t, s) == Price(panel, t, s) * panel.volume[t][s]
Typical(panel, t) ==
    LET some == {s \in Shares : Price(panel, t, s) > 0}
        v(s) == Traded(panel, t, s)
        low == {s \in some : 2 * Cardinality({o \in some : v(o) <= v(s)}) >= Cardinality(some)}
        high == {s \in some : 2 * Cardinality({o \in some : v(o) >= v(s)}) >= Cardinality(some)}
    IN IF some = {} THEN 0 ELSE (Min({v(s) : s \in low}) + Max({v(s) : s \in high})) \div 2
Capacity(panel, t, s) ==
    IF Typical(panel, t) = 0 THEN 0
    ELSE Min({100, (Traded(panel, t, s) * Participation) \div Typical(panel, t)})
Weights(config, panel, carried, t) ==
    LET cut == [s \in Shares |-> carried[s] * Capacity(panel, t, s)]
        gross == MapThenSumSet(LAMBDA s : Abs(cut[s]), Shares)
    IN IF ~config.volume THEN carried
       ELSE [s \in Shares |-> IF gross = 0 THEN 0
                              ELSE IF cut[s] < 0 THEN -((-cut[s] * Unit) \div gross) ELSE (cut[s] * Unit) \div gross]

-----------------------------------------------------------------------------
(* Returns                                                                   *)

(* build_forward_returns, for a lag: in thousandths, of a name with both prices.    *)
HasForward(panel, lag, t, s) == Price(panel, t + lag - 1, s) > 0 /\ Price(panel, t + lag, s) > 0
Forward(panel, lag, t, s) ==
    (1000 * (Price(panel, t + lag, s) - Price(panel, t + lag - 1, s))) \div Price(panel, t + lag - 1, s)

(* assert_no_lookahead: values in the last rows, or none that is not zero.          *)
Refused(panel, lag) ==
    \/ \E t \in (Final(panel) - Lag + 1)..Final(panel), s \in Shares : HasForward(panel, lag, t, s)
    \/ \A t \in 1..Final(panel), s \in Shares : HasForward(panel, lag, t, s) => Forward(panel, lag, t, s) = 0

Turnover(book, t) ==
    MapThenSumSet(LAMBDA s : Abs(book[t][s] - (IF t = 1 THEN 0 ELSE book[t - 1][s])), Shares)

(* The day whose signal earned what is reported on this one, if any.              *)
Realised(d) == IF d > Lag THEN d - Lag ELSE 0

NetReturn(book, panel, d) ==
    LET t == Realised(d)
        earning == {s \in Shares : HasForward(panel, Lag, t, s)}
    IN IF t = 0 THEN 0
       ELSE MapThenSumSet(LAMBDA s : book[t][s] * Forward(panel, Lag, t, s), earning)
              - (Turnover(book, t) * CostBps) \div 10

(* run_backtest, unless the guard refuses: the targets of every day, the book that is     *)
(* carried from one rebalance to the next, and what it earned.                *)
EachDay(f(_, _)) == [study \in Studies |-> [t \in 1..Final(panels[study]) |-> f(study, t)]]
RunBacktest(config) ==
    /\ \A study \in Studies : ~Refused(panels[study], Lag)
    /\ \E target \in {EachDay(LAMBDA a, t : Target(config, panels[a], t))} :
       \E book \in {EachDay(LAMBDA a, t : Weights(config, panels[a], target[a][RebalanceDay(config, panels[a], t)], t))} :
         measured' = [done |-> TRUE, config |-> config, book |-> book,
                      net |-> EachDay(LAMBDA a, t : NetReturn(book[a], panels[a], t))]
    /\ UNCHANGED panels

-----------------------------------------------------------------------------
(* Properties                                                               *)

AgreeTill(d) ==
    \A t \in 1..d, a, b \in Studies :
        /\ panels[a].prices[t] = panels[b].prices[t] /\ panels[a].members[t] = panels[b].members[t]
        /\ panels[a].volume[t] = panels[b].volume[t]

(* A measurement is point in time: two panels that are the same up to a day give the same  *)
(* book and the same reported returns up to that day, whatever happens afterwards; a name   *)
(* is held only if it was a member when the book was last set; and a frame of returns built  *)
(* with a shorter lag does not pass the guard once the last prices are known.            *)
MeasuredInTime ==
    measured.done =>
        /\ \A d \in 1..Final(panels[CHOOSE a \in Studies : TRUE]), a, b \in Studies :
             AgreeTill(d) => measured.book[a][d] = measured.book[b][d] /\ measured.net[a][d] = measured.net[b][d]
        /\ \A a \in Studies : \A t \in DOMAIN measured.book[a] : \A s \in Shares :
             measured.book[a][t][s] # 0 => s \in Members(panels[a], t - ((t - 1) % measured.config.days))
        /\ \A a \in Studies, lag \in 0..(Lag - 1) :
             (\E s \in Shares : \A t \in {Final(panels[a]) - 1, Final(panels[a])} : Price(panels[a], t, s) > 0)
               => Refused(panels[a], lag)

(* No name is more than MaxWeight of the book, as cross_sectional_weights promises, as long   *)
(* as no volume is given: with one, run_backtest scales the book back to the whole after    *)
(* the cap, and a thin cross-section is a concentrated bet again.  The book is never more    *)
(* than the whole, and a short name is held only in a long-short one.                  *)
NoConcentratedBet ==
    measured.done =>
        \A a \in Studies : \A t \in DOMAIN measured.book[a] :
            /\ ~measured.config.volume => \A s \in Shares : Abs(measured.book[a][t][s]) <= MaxWeight
            /\ MapThenSumSet(LAMBDA s : Abs(measured.book[a][t][s]), Shares) <= Unit
            /\ measured.config.longOnly => \A s \in Shares : measured.book[a][t][s] >= 0

(* A study measures what its signal knew, on the book its limits allow.                   *)
MeasurementIsHonest == MeasuredInTime /\ NoConcentratedBet

=============================================================================
