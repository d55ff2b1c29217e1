------------------------------- MODULE Backtest -------------------------------
(***************************************************************************)
(* The event-driven backtester (backtesting/engine.py): one strategy run over two   *)
(* histories of closing prices that agree up to a day, in two simulations of their   *)
(* own, so that what a simulation did can be compared with what it could know.     *)
(* Prices and money are whole; a price of zero stands for one that is missing.     *)
(***************************************************************************)
EXTENDS Integers, Sequences, FiniteSetsExt, SequencesExt

CONSTANTS
    Names,              \* the universe, in the order of the signals
    Lanes,              \* the simulations
    Stake,              \* initial_capital
    HaltAt,             \* max_drawdown_halt, in percent
    Slippage,           \* what an execution is worse than the close
    DpCharge,           \* the flat fee of a sale
    MaxErrors,          \* the number of failed bars that is more than _MAX_ERROR_RATE of them, less one
    Wants(_, _),        \* generate_signals: what it is shown -> the names it wants
    Leaves(_, _),       \* should_exit: the entry price, today's -> whether it leaves
    SizeOf(_)           \* calculate_position_size: the portfolio's value -> the amount

ASSUME BacktestAssumption ==
    /\ Names \in Seq({Names[i] : i \in DOMAIN Names})
    /\ \A i, j \in DOMAIN Names : Names[i] = Names[j] => i = j
    /\ Lanes # {} /\ {Stake, HaltAt, Slippage, DpCharge, MaxErrors} \subseteq Nat

VARIABLES
    closes,     \* per lane, per day, the closing price of every name
    first,      \* the day the backtest's window begins
    failing,    \* the days on which features_fn or generate_signals raises
    sims        \* per lane, the simulation

btVars == <<closes, first, failing, sims>>
Out == [qty |-> 0]

Universe == {Names[i] : i \in DOMAIN Names}
Simulation(day) ==
    [day |-> day, cash |-> Stake, peak |-> Stake, held |-> [n \in Universe |-> Out],
     curve |-> <<>>, trades |-> {}, decided |-> <<>>, errors |-> 0, status |-> "running"]

LastDay == Len(closes[CHOOSE l \in Lanes : TRUE])
BacktestInit == sims = [l \in Lanes |-> Simulation(first)]

-----------------------------------------------------------------------------
SumOver(f, S) == MapThenSumSet(LAMBDA n : f[n], S)
Held(sim) == {n \in Universe : sim.held[n].qty > 0}

(* _apply_slippage: against the side, whichever it is.                         *)
Slipped(price, side) == IF side = "BUY" THEN price + Slippage ELSE price - Slippage

(* calculate_costs of a delivery order: a share of its value, and the depository's fee *)
(* of a sale; _estimate_cost.                                                *)
Cost(side, qty, price) ==
    IF qty * price <= 0 THEN 0 ELSE (qty * price) \div 20 + (IF side = "SELL" THEN DpCharge ELSE 0)

(* What the book is worth on a day: a name without a price counts for nothing.    *)
Value(sim, prices) == sim.cash + SumOver([n \in Held(sim) |-> sim.held[n].qty * prices[n]], Held(sim))

(* A sale of the whole position at the price of a day, and its trade record.      *)
Sell(sim, n, price, day) ==
    LET p == sim.held[n]
        at == Slipped(price, "SELL")
        cost == Cost("SELL", p.qty, at)
    IN [sim EXCEPT !.cash = @ + p.qty * at - cost,
                   !.held[n] = Out,
                   !.trades = @ \cup {[name |-> n, from |-> p.day, till |-> day,
                                       net |-> p.qty * (at - p.price) - p.cost - cost]}]

(* An exit at the next bar, at what it cost if there is no price then.             *)
Exit(sim, n, prices, day) ==
    Sell(sim, n, IF prices[n] = 0 THEN sim.held[n].price ELSE prices[n], day)

(* What the strategy is shown at the close of a day: features computed up to then, and   *)
(* market data counted from the beginning of the data, not of the window, so that a     *)
(* window that begins later is shown rows that are as much too old.               *)
Features(history, day) == SubSeq(history, 1, day)
MarketData(history, day) == SubSeq(history, 1, day - first + 1)

(* Whole shares for the amount or the cash there is; cut to 99 % of the cash if the     *)
(* costs do not fit, and none if they still do not.                           *)
Quantity(cash, amount, price) ==
    LET whole == (IF amount < cash THEN amount ELSE cash) \div price
        Outlay(q) == q * price + Cost("BUY", q, price)
        cut == ((99 * cash) \div 100 - Cost("BUY", whole, price)) \div price
    IN IF amount <= 0 \/ whole <= 0 THEN 0
       ELSE IF Outlay(whole) <= cash THEN whole
       ELSE IF cut > 0 /\ Outlay(cut) <= cash THEN cut ELSE 0

(* An entry at the next bar, sized by the value of the book at this one's close.   *)
Enter(sim, n, value, prices, day) ==
    LET price == Slipped(prices[n], "BUY")
        qty == Quantity(sim.cash, SizeOf(value), price)
        cost == Cost("BUY", qty, price)
    IN IF sim.held[n].qty > 0 \/ prices[n] = 0 \/ qty = 0 THEN sim
       ELSE [sim EXCEPT !.cash = @ - qty * price - cost,
                        !.held[n] = [qty |-> qty, price |-> price, cost |-> cost, day |-> day]]

(* Slip: a halted run is liquidated at the end of the data.                     *)
LiquidationLate(sim) == LastDay

(* The bar after the halt, or the last.                                      *)
LiquidationDay(sim) == IF sim.status = "halted" THEN sim.day + 1 ELSE LastDay

(* The end: what has a price is sold, what has none is neither sold nor counted; a      *)
(* run whose pipeline kept failing has no result.                             *)
Liquidate(sim, history) ==
    LET day == LiquidationDay(sim)
        SellAt(s, n) == IF s.held[n].qty = 0 \/ history[day][n] = 0 THEN s ELSE Sell(s, n, history[day][n], day)
        sold == FoldLeft(SellAt, sim, Names)
    IN [sold EXCEPT !.curve = Append(@, sold.cash), !.day = day,
                    !.status = IF sim.errors > MaxErrors THEN "invalid" ELSE "done"]

(* One bar: the book is valued, the drawdown checked, exits are decided on this bar's    *)
(* prices and executed on the next one's, and so are entries after them.          *)
Trade(sim, history) ==
    LET today == history[sim.day]
        next == history[sim.day + 1]
        value == Value(sim, today)
        peak == Max({sim.peak, value})
        marked == [sim EXCEPT !.curve = Append(@, value), !.peak = peak]
        leaving == {n \in Held(sim) : today[n] > 0 /\ Leaves(sim.held[n].price, today[n])}
        wanted == IF sim.day \in failing THEN {} ELSE Wants(Features(history, sim.day), MarketData(history, sim.day))
        ExitIf(s, n) == IF n \in leaving THEN Exit(s, n, next, sim.day + 1) ELSE s
        EnterIf(s, n) == IF n \in wanted THEN Enter(s, n, value, next, sim.day + 1) ELSE s
        traded == FoldLeft(EnterIf, FoldLeft(ExitIf, marked, Names), Names)
    IN IF 100 * (peak - value) > HaltAt * peak THEN [marked EXCEPT !.status = "halted"]
       ELSE [traded EXCEPT !.decided = Append(@, [out |-> leaving, in |-> wanted]),
                           !.errors = IF sim.day \in failing THEN @ + 1 ELSE @, !.day = @ + 1]

Advance(sim, history) ==
    IF sim.status = "running" /\ sim.day < LastDay THEN Trade(sim, history)
    ELSE IF sim.status \in {"running", "halted"} THEN Liquidate(sim, history)
    ELSE sim

Bar ==
    /\ \E l \in Lanes : sims[l].status \in {"running", "halted"}
    /\ sims' = [l \in Lanes |-> Advance(sims[l], closes[l])]
    /\ UNCHANGED <<closes, first, failing>>

-----------------------------------------------------------------------------
(* Properties                                                               *)

(* The histories agree up to this day.                                       *)
Common == Max({0} \cup {d \in 1..LastDay : \A e \in 1..d, l, k \in Lanes : closes[l][e] = closes[k][e]})
Prefix(s, n) == SubSeq(s, 1, IF n < Len(s) THEN n ELSE Len(s))

(* Nothing in a backtest knows the future: over two histories that are the same up to    *)
(* a day the same entries and exits are decided and the same equity is reported up to    *)
(* that day, the trades closed by then are the same, and a run that had to halt before   *)
(* it ends with the same money, however much better the prices are afterwards.      *)
NoFuture ==
    \A l, k \in Lanes :
        /\ Prefix(sims[l].decided, Common - first + 1) = Prefix(sims[k].decided, Common - first + 1)
        /\ Prefix(sims[l].curve, Common - first + 1) = Prefix(sims[k].curve, Common - first + 1)
        /\ {t \in sims[l].trades : t.till <= Common} = {t \in sims[k].trades : t.till <= Common}
        /\ sims[l].status = "done" /\ sims[l].day <= Common => sims[l] = sims[k]

(* The money adds up: cash is the stake with the net result of every recorded trade, less  *)
(* what open positions cost with their fees, and is never negative while shares are     *)
(* bought; at the end the reported equity lacks exactly the positions that could not    *)
(* be priced.                                                                *)
LedgerBalances ==
    \A l \in Lanes :
        LET sim == sims[l]
            open == [n \in Held(sim) |-> sim.held[n].qty * sim.held[n].price + sim.held[n].cost]
        IN /\ sim.cash + SumOver(open, Held(sim)) = Stake + MapThenSumSet(LAMBDA t : t.net, sim.trades)
           /\ sim.cash >= 0
           /\ sim.status = "done" => /\ Last(sim.curve) = sim.cash
                                     /\ \A n \in Held(sim) : closes[l][sim.day][n] = 0

(* A backtest reports what could have been earned: no future in it, no money made up.     *)
BacktestIsHonest == NoFuture /\ LedgerBalances

=============================================================================
