------------------------------ MODULE Strategies ------------------------------
(***************************************************************************)
(* One sleeve's strategy (strategies/base.py, swing.py, longterm.py, intraday.py)    *)
(* over repeated cycles: it generates signals on what it sees, the batch is sized    *)
(* under its budget, positions are opened, and every open one is reviewed.  Time      *)
(* passes, the market moves, the health changes and the mode goes live between any     *)
(* two of these.  Weights are in thousandths of the sleeve, returns in basis points,    *)
(* prices in tenths of a rupee; a price of zero is a missing frame.               *)
(***************************************************************************)
EXTENDS Integers, Sequences, FiniteSetsExt, SequencesExt

CONSTANTS
    Tickers,            \* the universe, in its order
    SectorOf(_),        \* sector_map
    Slots,              \* max_positions
    RootSlots,          \* its square root, rounded down
    FewNames,           \* _MIN_UNIVERSE_FOR_PERCENTILE
    Unscored,           \* the score of a name that cannot be scored
    Views(_),           \* per kind of strategy, what can be seen
    Minutes,            \* the times of day anything happens at
    MaxDays,            \* bound on the changes of view
    MaxCycles           \* bound on the batches generated

VARIABLES
    sleeve,     \* the strategy object, its risk engine and the clock
    view,       \* what there is to see now
    open,       \* the open positions, a function of some tickers
    batch       \* the signals generated and not yet sized, or NoBatch

stVars == <<sleeve, view, open, batch>>

Kinds == {"swing", "longterm", "intraday"}
Listed == {Tickers[i] : i \in DOMAIN Tickers}
Frames == [price : Nat, atr : Nat, vol : Nat \ {0}, score : Int \cup {Unscored}, mom : Int \cup {Unscored},
           valuation : Int, up : BOOLEAN, liquid : BOOLEAN, move : Int, surge : Int, vwap : Nat]

(* A range is none at all, or at least one unit of the model's measure.          *)
ASSUME StrategiesAssumption ==
    /\ Slots \in Nat \ {0} /\ RootSlots \in Nat /\ RootSlots * RootSlots <= Slots
    /\ Slots < (RootSlots + 1) * (RootSlots + 1)
    /\ Tickers \in Seq(Listed) /\ \A i, j \in DOMAIN Tickers : Tickers[i] = Tickers[j] => i = j
    /\ Unscored \notin Int /\ FewNames \in Nat /\ Minutes \subseteq Nat /\ Minutes # {}
    /\ \A kind \in Kinds : \A v \in Views(kind) :
         /\ v = [regime |-> v.regime, model |-> v.model, of |-> v.of]
         /\ v.model \in BOOLEAN /\ v.of \in [Listed -> Frames]
         /\ \A n \in Listed : v.of[n].atr = 0 \/ 2000 * v.of[n].atr >= v.of[n].price
Everything == 1000
NoBatch == [signals |-> <<>>, budget |-> 0, filled |-> 0, exits |-> {}]
Operational == sleeve.health \in {"HEALTHY", "REDUCED"}
Clip(x, low, high) == Max({low, Min({x, high})})

(* A list of names, best first; equal ones stay in the order of the universe.  The *)
(* one that comes after k others is in the place after k.                     *)
Best(names, f(_)) ==
    LET Place(n) == CHOOSE i \in DOMAIN Tickers : Tickers[i] = n
        Before(a, b) == f(a) > f(b) \/ (f(a) = f(b) /\ Place(a) < Place(b))
    IN [k \in 1..Cardinality(names) |->
          CHOOSE n \in names : Cardinality({m \in names : Before(m, n)}) = k - 1]

-----------------------------------------------------------------------------
(* What every strategy shares                                                 *)

(* _entry_budget: the share of the sleeve left to new signals.                  *)
EntryBudget(filled) == Everything - (Everything * Min({filled, Slots})) \div Slots

(* _stamp_target_weights: the weights of the batch, scaled to the budget together.   *)
Stamped(signals, budget) ==
    LET total == SumFunction([i \in DOMAIN signals |-> signals[i].raw])
    IN [i \in DOMAIN signals |->
          [signals[i] EXCEPT !.weight =
              IF total <= budget THEN @ ELSE (signals[i].raw * budget) \div total]]

Signal(name, side, edge, raw, risk, reward, rank) ==
    [name |-> name, side |-> side, edge |-> edge, raw |-> raw, weight |-> raw,
     risk |-> risk, reward |-> reward, rank |-> rank, day |-> sleeve.day]

(* Entries for a list of signals, with the budget for the slots that are left.      *)
Emit(signals) ==
    LET budget == EntryBudget(Cardinality(DOMAIN open))
    IN [signals |-> Stamped(signals, budget), budget |-> budget,
        filled |-> Cardinality(DOMAIN open), exits |-> {}]

HitStop(p, price) ==
    IF p.side = "LONG" THEN 1000 * price <= p.entry * (1000 - p.risk)
    ELSE 1000 * price >= p.entry * (1000 + p.risk)
HitTarget(p, price) ==
    IF p.side = "LONG" THEN 1000 * price >= p.entry * (1000 + p.reward)
    ELSE 1000 * price <= p.entry * (1000 - p.reward)

-----------------------------------------------------------------------------
(* Swing                                                                     *)

DeliveryCost == 34
Root(x) == CHOOSE r \in 0..x : r * r <= x /\ x < (r + 1) * (r + 1)

(* _momentum_prior_scores: the z-score of the momentum times the dispersion of five     *)
(* days, shrunk; in a small cross-section the momentum itself, brought to five days; and   *)
(* a name whose own trend is not up is not expected to rise.                      *)
MomentumPrior(seen, n) ==
    LET known == {m \in Listed : seen.of[m].mom # Unscored}
        size == Cardinality(known)
        mom == seen.of[n].mom
        total == SumFunction([m \in known |-> seen.of[m].mom])
        spread == Root(SumFunction([m \in known |-> (size * seen.of[m].mom - total) * (size * seen.of[m].mom - total)])
                         \div Max({1, size - 1}))
        twice == IF spread = 0 THEN 0 ELSE Clip((2 * (size * mom - total)) \div spread, -6, 6)
        expected == IF size >= FewNames THEN (3 * twice * 14 * seen.of[n].vol) \div 200
                    ELSE (3 * mom * 5) \div 231
    IN IF mom > 0 THEN expected ELSE Min({expected, 0})

(* _score_universe: the model's forecasts if there is a model, the prior if there is none. *)
SwingScore(seen, n) ==
    IF seen.model THEN seen.of[n].score
    ELSE IF seen.of[n].mom = Unscored THEN Unscored ELSE MomentumPrior(seen, n)
SwingScored(seen) == {n \in Listed : SwingScore(seen, n) # Unscored}
Implausible(seen) == seen.model /\ \E n \in SwingScored(seen) : SwingScore(seen, n) > 2500 \/ SwingScore(seen, n) < -2500

(* rank(pct) in thousandths, ties at their average.                            *)
SwingRank(seen, n) ==
    LET score == [m \in SwingScored(seen) |-> SwingScore(seen, m)]
        low == {m \in SwingScored(seen) : score[m] < score[n]}
        same == {m \in SwingScored(seen) : score[m] = score[n]}
    IN (1000 * (2 * Cardinality(low) + Cardinality(same) + 1)) \div (2 * Cardinality(SwingScored(seen)))

(* At most 40 % of the slots for one sector, counted over the batch.               *)
SectorFull(taken, n) ==
    10 * Cardinality({i \in DOMAIN taken : SectorOf(taken[i].name) = SectorOf(n)}) >= 4 * Slots

SwingWeight(n) == Max({10, Min({300, (200 * 100) \div (view.of[n].vol * RootSlots)})})
SwingSignal(n) ==
    LET v == view.of[n] IN
    Signal(n, "LONG", SwingScore(view, n) - DeliveryCost, SwingWeight(n),
           (2 * v.atr * 1000) \div v.price, (3 * v.atr * 1000) \div v.price, SwingRank(view, n))

SwingBatch ==
    LET score == [n \in SwingScored(view) |-> SwingScore(view, n)]
        eligible == {n \in SwingScored(view) \ DOMAIN open : SwingScore(view, n) >= 40}
        Take(taken, n) ==
            IF \/ Len(taken) >= Slots - Cardinality(DOMAIN open)
               \/ SectorFull(taken, n)
               \/ view.of[n].price = 0 \/ view.of[n].atr = 0
               \/ SwingScore(view, n) <= DeliveryCost
            THEN taken ELSE Append(taken, SwingSignal(n))
    IN IF ~Operational \/ view.regime \in {"BEAR", "PANIC"} \/ Cardinality(DOMAIN open) >= Slots \/ SwingScored(view) = {}
       THEN NoBatch
       ELSE Emit(FoldLeft(Take, <<>>, Best(eligible, LAMBDA n : score[n])))

ExitRank(p) == Max({300, (7 * p.rank) \div 10})
SwingExit(p, n) ==
    LET price == view.of[n].price IN
    \/ price > 0 /\ (HitStop(p, price) \/ HitTarget(p, price))
    \/ sleeve.day - p.since > 20
    \/ n \in SwingScored(view) /\ SwingRank(view, n) < ExitRank(p)

-----------------------------------------------------------------------------
(* Long term                                                                 *)

Composites(seen) == {n \in Listed : seen.of[n].score # Unscored}

(* np.percentile, in hundredths of a point: between two neighbours, in proportion.   *)
Percentile(seen, p) ==
    LET at == (Cardinality(Composites(seen)) - 1) * p
        Nth(k) == CHOOSE x \in {seen.of[n].score : n \in Composites(seen)} :
                    /\ Cardinality({n \in Composites(seen) : seen.of[n].score < x}) < k
                    /\ Cardinality({n \in Composites(seen) : seen.of[n].score <= x}) >= k
        low == Nth(at \div 100 + 1)
        high == Nth(Min({at \div 100 + 2, Cardinality(Composites(seen))}))
    IN 100 * low + (at % 100) * (high - low)
Ranks(seen) == Cardinality(Composites(seen)) >= FewNames
BuyCut(seen) == Percentile(seen, 90)
SellCut(seen) == IF Ranks(seen) THEN Percentile(seen, 20) ELSE 4000

LongRank(seen, n) ==
    (1000 * Cardinality({m \in Composites(seen) : seen.of[m].score <= seen.of[n].score})) \div Cardinality(Composites(seen))
LongEdge(seen, n) == (800 * (2 * LongRank(seen, n) - 1000)) \div 1000 - DeliveryCost
LongWeight(n) == Max({20, Min({(2 * Everything) \div Slots, (150 * 100) \div (view.of[n].vol * RootSlots)})})
LongSignal(n) ==
    LET v == view.of[n]
        risk == Max({50, (5 * v.atr * 1000) \div (2 * v.price)})
    IN Signal(n, "LONG", LongEdge(view, n), LongWeight(n), risk, 3 * risk, LongRank(view, n))

(* The names of the top tenth that are not held and not too dear, as many as there are   *)
(* slots, and of those the ones with a price and an edge; and an exit for every held name   *)
(* below the lower cut or no longer scored.                                     *)
LongBatch ==
    LET score == [n \in Composites(view) |-> view.of[n].score]
        candidates == {n \in Composites(view) \ DOMAIN open : 100 * score[n] >= BuyCut(view) /\ view.of[n].valuation >= 20}
        top == SubSeq(Best(candidates, LAMBDA n : score[n]), 1,
                      Min({Cardinality(candidates), Slots - Cardinality(DOMAIN open)}))
        entries == Best({n \in Range(top) : view.of[n].price > 0 /\ LongEdge(view, n) > 0}, LAMBDA n : score[n])
        exits == {n \in DOMAIN open : n \notin Composites(view) \/ 100 * view.of[n].score < SellCut(view)}
    IN IF ~Operational \/ Composites(view) = {} THEN NoBatch
       ELSE [Emit(IF Ranks(view) THEN [i \in DOMAIN entries |-> LongSignal(entries[i])] ELSE <<>>) EXCEPT !.exits = exits]

(* should_exit: against the cut of the last cycle, or 40 if it had none.             *)
LongExit(p, n) ==
    LET price == view.of[n].price IN
    \/ price > 0 /\ HitStop(p, price)
    \/ n \in Composites(view) /\ 100 * view.of[n].score < sleeve.lastCut
    \/ sleeve.day - p.since > 730

-----------------------------------------------------------------------------
(* Intraday                                                                  *)

(* Times in minutes of the exchange's day: entries from 9:30 to 14:45, all out at 15:15.   *)
GraceEnd == 570
Cutoff == 885
SquareOff == 915

Breadth ==
    LET seen == {n \in Listed : view.of[n].price > 0}
    IN IF seen = {} THEN 500 ELSE (1000 * Cardinality({n \in seen : view.of[n].up})) \div Cardinality(seen)

(* _build_signal: a quarter of the blended return, times a confidence that the volume   *)
(* moves between a half and one and a quarter; no move, no signal.                 *)
Expected(n) ==
    LET v == view.of[n] IN (v.move * Clip(100 + (v.surge - 100) \div 4, 50, 125)) \div 400
IntraEdge(n) == (IF Expected(n) < 0 THEN -Expected(n) ELSE Expected(n)) - 18
Side(n) == IF Expected(n) > 0 THEN "LONG" ELSE "SHORT"
IntraRisk(n) == Max({5, (3 * view.of[n].atr * 1000) \div (2 * view.of[n].price)})
IntraSignal(n) ==
    Signal(n, Side(n), IntraEdge(n), Min({100, 5000 \div IntraRisk(n)}), IntraRisk(n), 2 * IntraRisk(n), 0)

IntraBatch ==
    LET liquid == {n \in Listed \ DOMAIN open : view.of[n].liquid /\ view.of[n].price > 0}
        longs == Breadth >= 400
        chosen == {n \in liquid : /\ Expected(n) # 0
                                  /\ sleeve.longOnly => Side(n) = "LONG"
                                  /\ ~longs => Side(n) = "SHORT"
                                  /\ IntraEdge(n) > 30}
        edge == [n \in chosen |-> IntraEdge(n)]
        top == SubSeq(Best(chosen, LAMBDA n : edge[n]), 1, Min({Cardinality(chosen), Slots - Cardinality(DOMAIN open)}))
    IN IF \/ ~Operational
          \/ sleeve.minute < GraceEnd \/ sleeve.minute >= Cutoff
          \/ Cardinality(DOMAIN open) >= Slots
          \/ ~longs /\ sleeve.longOnly
       THEN NoBatch
       ELSE Emit([i \in DOMAIN top |-> IntraSignal(top[i])])

(* should_exit: the clock first, whether or not there is a price.                  *)
IntraExit(p, n) ==
    LET price == view.of[n].price IN
    \/ sleeve.minute >= SquareOff
    \/ /\ price > 0
       /\ \/ HitStop(p, price) \/ HitTarget(p, price)
          \/ p.side = "LONG" /\ view.of[n].vwap > price /\ price < p.entry

-----------------------------------------------------------------------------
(* The cycle                                                                 *)

(* A mock provider may not be used live; a model in other units is refused.          *)
Refuses == sleeve.kind = "longterm" /\ sleeve.mock /\ ~sleeve.paper

GenerateSignals ==
    /\ sleeve.cycles < MaxCycles
    /\ ~Refuses /\ ~(sleeve.kind = "swing" /\ Operational /\ Implausible(view))
    /\ batch' = CASE sleeve.kind = "swing" -> SwingBatch
                  [] sleeve.kind = "longterm" -> LongBatch
                  [] sleeve.kind = "intraday" -> IntraBatch
    /\ sleeve' = [sleeve EXCEPT !.cycles = @ + 1, !.lastCut =
                    IF sleeve.kind = "longterm" /\ Operational /\ Composites(view) # {} THEN SellCut(view) ELSE @]
    /\ UNCHANGED <<view, open>>

(* calculate_position_size, in thousandths of the capital; the risk engine has the last   *)
(* word; none at all counts as one that approves.                               *)
SizeOfSignal(s) ==
    LET size == IF sleeve.health = "HEALTHY" THEN s.weight
                ELSE IF sleeve.health = "REDUCED" THEN s.weight \div 2 ELSE 0
    IN IF s.edge <= 0 \/ sleeve.engine = "refuses" THEN 0 ELSE size

(* Slip: a signal made before is sized in whatever mode the strategy is in now.       *)
SizingRefusedNever == FALSE

(* What makes sizing raise: nothing of the batch is sized then.                   *)
SizingRefused == Refuses \/ (sleeve.engine = "broken" /\ Operational)

Position(s) ==
    [side |-> s.side, entry |-> view.of[s.name].price, risk |-> s.risk, reward |-> s.reward, rank |-> s.rank,
     weight |-> SizeOfSignal(s), since |-> sleeve.day, signalled |-> s.day]

(* allocate_capital of the batch, its entries filled where there is a price and its exits   *)
(* carried out.                                                             *)
AllocateBatch ==
    LET all == {batch.signals[i] : i \in DOMAIN batch.signals}
        sized == IF SizingRefused THEN {} ELSE {s \in all : SizeOfSignal(s) > 0 /\ view.of[s.name].price > 0}
        opened == {s.name : s \in sized}
    IN /\ batch # NoBatch
       /\ open' = [n \in (DOMAIN open \cup opened) \ batch.exits |->
                     IF n \in opened THEN Position(CHOOSE s \in sized : s.name = n) ELSE open[n]]
       /\ batch' = NoBatch
       /\ sleeve' = [sleeve EXCEPT !.reviewed = FALSE]
       /\ UNCHANGED view

ShouldExit(n) ==
    CASE sleeve.kind = "swing" -> SwingExit(open[n], n)
      [] sleeve.kind = "longterm" -> LongExit(open[n], n)
      [] sleeve.kind = "intraday" -> IntraExit(open[n], n)

(* Every open position is reviewed, and what should leave does.                   *)
Review ==
    /\ open' = [n \in {m \in DOMAIN open : ~ShouldExit(m)} |-> open[n]]
    /\ sleeve' = [sleeve EXCEPT !.reviewed = TRUE]
    /\ UNCHANGED <<view, batch>>

-----------------------------------------------------------------------------
(* The world                                                                 *)

Look ==
    /\ sleeve.day < MaxDays
    /\ view' \in Views(sleeve.kind)
    /\ \E minute \in IF sleeve.kind = "intraday" THEN Minutes ELSE {Min(Minutes)} :
         sleeve' = [sleeve EXCEPT !.day = @ + 1, !.minute = minute, !.reviewed = FALSE]
    /\ UNCHANGED <<open, batch>>
ChangeHealth ==
    /\ \E h \in {"HEALTHY", "REDUCED", "PAUSED"} : sleeve' = [sleeve EXCEPT !.health = h]
    /\ UNCHANGED <<view, open, batch>>
GoLive ==
    /\ sleeve.mock /\ sleeve.paper
    /\ sleeve' = [sleeve EXCEPT !.paper = FALSE]
    /\ UNCHANGED <<view, open, batch>>
StrategiesInit(kinds) ==
    /\ \E k \in kinds, mock, longOnly \in BOOLEAN, engine \in {"approves", "refuses", "broken"} :
         /\ mock => k = "longterm"
         /\ ~longOnly => k = "intraday"
         /\ sleeve = [kind |-> k, mock |-> mock, longOnly |-> longOnly, paper |-> TRUE, health |-> "HEALTHY",
                      engine |-> engine, day |-> 0, minute |-> Min(Minutes), lastCut |-> 4000, cycles |-> 0, reviewed |-> FALSE]
         /\ view \in Views(k)
    /\ open = [n \in {} |-> 0]
    /\ batch = NoBatch

StrategiesNext ==
    \/ GenerateSignals \/ AllocateBatch \/ Review
    \/ Look \/ ChangeHealth \/ GoLive

-----------------------------------------------------------------------------
(* Properties                                                                *)

Weighs(signals) == SumFunction([i \in DOMAIN signals |-> signals[i].weight])

(* A batch never asks for more than what the open positions leave of the sleeve, slot by    *)
(* slot, nor for more names than there are slots, nor (swing) for more of one sector than    *)
(* 40 % of them; and the names open are never more than the slots, nor, intraday, weigh    *)
(* more than the sleeve: the per-name cap alone would let ten names weigh three times it.   *)
BatchWithinSleeve ==
    /\ Weighs(batch.signals) <= Everything - (Everything * batch.filled) \div Slots
    /\ Len(batch.signals) <= Slots - batch.filled
    /\ sleeve.kind = "swing" =>
         \A i \in DOMAIN batch.signals :
           10 * (Cardinality({j \in DOMAIN batch.signals :
                               SectorOf(batch.signals[j].name) = SectorOf(batch.signals[i].name)}) - 1) < 4 * Slots
    /\ Cardinality(DOMAIN open) <= Slots
    /\ sleeve.kind = "intraday" => SumFunction([n \in DOMAIN open |-> open[n].weight]) <= Everything

(* A name that was just opened is not sent out again by what it was opened on: entry and    *)
(* exit rules agree, except for a swing name that entered below the floor of its own exit    *)
(* rule.  And once an intraday book was reviewed at 15:15 or later, nothing of it is left,    *)
(* price or no price.                                                        *)
RulesAgree ==
    /\ \A n \in DOMAIN open :
         open[n].since = sleeve.day /\ open[n].signalled = sleeve.day /\ sleeve.minute < SquareOff =>
            ~ShouldExit(n) \/ (sleeve.kind = "swing" /\ open[n].rank < 300)
    /\ sleeve.kind = "intraday" /\ sleeve.reviewed /\ sleeve.minute >= SquareOff => DOMAIN open = {}

(* However long ago its signal was made, a position is opened only by a strategy that is    *)
(* operational at that moment, is not live on made-up fundamentals, and has a risk engine   *)
(* that approves or none at all; and no name is both opened and closed by one batch.       *)
OpensOnAuthority ==
    [][\A n \in DOMAIN open' \ DOMAIN open :
         /\ sleeve.health \in {"HEALTHY", "REDUCED"}
         /\ sleeve.mock => sleeve.paper
         /\ sleeve.engine = "approves"
         /\ n \notin batch.exits]_open

(* What a sleeve asks for, holds and is allowed to open.                                   *)
SleeveHolds == []BatchWithinSleeve /\ []RulesAgree /\ OpensOnAuthority

=============================================================================
