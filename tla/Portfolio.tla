----------------------------- MODULE Portfolio ------------------------------
(***************************************************************************)
(* The two cycles that turn signals into orders: the pipeline                *)
(* (engine/pipeline.py), which sizes each signal on its own, and the         *)
(* rebalance (engine/allocated_cycle.py), which submits the difference       *)
(* between the book and a target the allocation engine                       *)
(* (portfolio/engine.py) computes.  Both read the account once, then submit  *)
(* order after order, each an await in which prices move, the kill switch    *)
(* is thrown and fills arrive.                                               *)
(*                                                                          *)
(* Limits are percentages and amounts are whole units, rounded down; charges *)
(* are left out.  The caller of both cycles, the API route, takes capital    *)
(* and cash from the client, who is assumed to state the account's own.      *)
(***************************************************************************)
EXTENDS Integers, SequencesExt, FiniteSetsExt

CONSTANTS
    Symbols,
    SectorOf,               \* function on Symbols
    SleeveOrder,            \* the enabled sleeves, in the order DEPLOYABLE lists them
    Prices,                 \* prices a share may have
    Cash0,                  \* cash at the start
    Proposals,              \* sets of signals the strategies may produce together
    Limits,                 \* record of the limits, see LimitsType
    Cycles                  \* bound on the cycles run

LimitsType == [position : 1..100, sector : 1..100, sleeve : 1..100, turnover : Nat,
               cash : 0..99, names : Nat, single : Nat, slots : Nat, orders : Nat]

Sleeves == Range(SleeveOrder)

(* A signal: the rank of its edge, its weight within its sleeve (inverse     *)
(* volatility tilted by edge), the percentage of the sleeve stamped on it,   *)
(* the most that its liquidity and its Kelly fraction allow, and whether     *)
(* there is history enough to estimate its volatility and traded value.      *)
Signals == [symbol : Symbols, sleeve : Sleeves, direction : {"LONG", "EXIT"},
            edge : Nat \ {0}, tilt : Nat \ {0}, stamped : 0..100, ceiling : Nat,
            estimated : BOOLEAN]

ASSUME PortfolioAssumption ==
    /\ IsFiniteSet(Symbols) /\ SectorOf \in [Symbols -> STRING]
    /\ SleeveOrder \in Seq(Sleeves) /\ IsInjective(SleeveOrder)
    /\ Prices \subseteq Nat \ {0} /\ Cash0 \in Nat /\ Cycles \in Nat
    /\ Limits \in LimitsType
    /\ \A p \in Proposals : p \subseteq Signals /\ IsFiniteSet(p)

VARIABLES
    held,       \* shares per symbol, at the broker
    cash,       \* cash at the broker
    price,      \* last price per symbol
    kill,       \* the kill switch
    cycle,      \* the cycle under way, or the last one
    runs        \* cycles begun

pfVars == <<held, cash, price, kill, cycle, runs>>

Pct(p, amount) == (p * amount) \div 100
Least(S) == Min(S)
AtLeastZero(x) == IF x > 0 THEN x ELSE 0
Magnitude(x) == IF x < 0 THEN -x ELSE x
Sum(f(_), S) == SumFunction([x \in S |-> f(x)])

(* Truncation toward zero of x * a / b, as int() does.                      *)
Scaled(x, a, b) == IF x < 0 THEN -((-x * a) \div b) ELSE (x * a) \div b

Value(shares) == Sum(LAMBDA s : shares[s] * price[s], Symbols)

-----------------------------------------------------------------------------
(* The allocation engine: the target for one set of inputs.                  *)

(* _preflight: any gate that fails leaves everything as it is.               *)
Preflight(capital, withheld) == kill \/ withheld \/ capital <= 0

(* _usable_signals: what cannot be sized safely is dropped.                  *)
Usable(signals) == {s \in signals : s.estimated}
OfSleeve(signals, b) == {s \in signals : s.sleeve = b}

(* _allocate_capital: what the cash floor leaves, shared by strength and     *)
(* capped per sleeve.                                                       *)
CapitalOf(signals, capital, b) ==
    LET strength(x) == Sum(LAMBDA s : s.edge, OfSleeve(signals, x))
        total == Sum(strength, Sleeves)
    IN IF total = 0 THEN 0
       ELSE Least({(Pct(100 - Limits.cash, capital) * strength(b)) \div total,
                   Pct(Limits.sleeve, capital)})

(* Sleeve by sleeve, and within one heaviest first.                          *)
Precedes(s, t) ==
    LET place(x) == CHOOSE i \in DOMAIN SleeveOrder : SleeveOrder[i] = x.sleeve
    IN place(s) < place(t) \/ (s.sleeve = t.sleeve /\ s.tilt > t.tilt)

(* The orders a stable sort may leave the signals in: of equals, the one      *)
(* listed first comes first, which may be either.                           *)
Ranked(signals) ==
    {q \in SetToSeqs(signals) : \A i, j \in DOMAIN q : i < j => ~Precedes(q[j], q[i])}

(* The number of shares for one signal under the position, sector, liquidity  *)
(* and Kelly caps, given what its sector holds already; none beyond as many   *)
(* names as its sleeve may hold.                                            *)
Quantity(order, i, used, capital) ==
    LET s      == order[i]
        weight == Sum(LAMBDA t : t.tilt, OfSleeve(Range(order), s.sleeve))
        want   == (CapitalOf(Range(order), capital, s.sleeve) * s.tilt) \div weight
        room   == AtLeastZero(Pct(Limits.sector, capital) - used)
    IN IF Cardinality({j \in 1..i : order[j].sleeve = s.sleeve}) > Limits.names THEN 0
       ELSE Least({want, Pct(Limits.position, capital), room, s.ceiling}) \div price[s.symbol]

(* One signal sized after what has been placed so far: the plan and the       *)
(* sectors' values.                                                         *)
Place(placed, order, i, capital) ==
    LET symbol == order[i].symbol
        sector == SectorOf[symbol]
        qty    == Quantity(order, i, placed.sectors[sector], capital)
    IN IF qty = 0 THEN placed
       ELSE [plan    |-> Append(placed.plan, [symbol |-> symbol, target |-> qty,
                                              delta |-> qty - held[symbol]]),
             sectors |-> [placed.sectors EXCEPT ![sector] = @ + qty * price[symbol]]]

(* Slip: names held without a target are left out of the plan.             *)
OrphansKept(plan) == <<>>

(* Names held without a target are targeted to zero.                        *)
Orphans(plan) ==
    LET targeted == {plan[i].symbol : i \in DOMAIN plan}
    IN SetToSeq({[symbol |-> s, target |-> 0, delta |-> -held[s]] :
                    s \in {x \in Symbols \ targeted : held[x] > 0}})

(* _size_positions, the signals in the order it ranks them.                  *)
SizePositions(order, capital) ==
    LET placed == FoldLeftDomain(LAMBDA acc, i : Place(acc, order, i, capital),
                                 [plan |-> <<>>, sectors |-> [x \in Range(SectorOf) |-> 0]], order)
    IN placed.plan \o Orphans(placed.plan)

PlanTotal(f(_), plan) == Sum(LAMBDA i : f(plan[i]), DOMAIN plan)
Deployed(plan) == PlanTotal(LAMBDA t : t.target * price[t.symbol], plan)
Turnover(plan) == PlanTotal(LAMBDA t : Magnitude(t.delta) * price[t.symbol], plan)

(* _apply_turnover_limit: every trade scaled alike.                          *)
TurnoverLimited(plan, capital) ==
    LET cap == Pct(Limits.turnover, capital)
        scaled(t) == Scaled(t.delta, cap, Turnover(plan))
    IN IF Turnover(plan) <= cap THEN plan
       ELSE [i \in DOMAIN plan |->
               [plan[i] EXCEPT !.delta = scaled(plan[i]),
                               !.target = plan[i].target - plan[i].delta + scaled(plan[i])]]

(* _apply_cash_floor: every target scaled alike, those of sells too.         *)
CashFloored(plan, capital) ==
    LET most == Pct(100 - Limits.cash, capital)
        scaled(t) == Scaled(t.target, most, Deployed(plan))
    IN IF Deployed(plan) <= most THEN plan
       ELSE [i \in DOMAIN plan |->
               [plan[i] EXCEPT !.target = scaled(plan[i]),
                               !.delta = scaled(plan[i]) - (plan[i].target - plan[i].delta)]]

(* allocate, with its inputs already read; order is that of what is usable.   *)
Allocate(order, capital, withheld) ==
    IF Preflight(capital, withheld) \/ order = <<>> THEN <<>>
    ELSE CashFloored(TurnoverLimited(SizePositions(order, capital), capital), capital)

-----------------------------------------------------------------------------
(* The cycles                                                               *)

Idle == [at |-> "idle"]
Empty == [s \in Symbols |-> 0]

(* A cycle in submission: what it read once, what is left to submit, the     *)
(* cash it still counts on, and, for the properties, what it has committed   *)
(* and whether the market has stood still since.                            *)
Began(kind, todo, signals, book, capital) ==
    [at |-> "submit", kind |-> kind, plan |-> todo, todo |-> todo, signals |-> signals,
     book |-> book, quoted |-> price, capital |-> capital, given |-> cash, avail |-> cash,
     sent |-> 0, committed |-> 0, still |-> TRUE]

Running(kind) == cycle.at = "submit" /\ cycle.kind = kind /\ cycle.todo # <<>>
Ready == runs < Cycles /\ cycle.at = "idle"

(* The gates a cycle's arguments decide (execution/safety.py).  A sell of     *)
(* what the book holds closes it: it frees its slot and adds no exposure.     *)
Closing(symbol, side, qty) == IF side = "SELL" THEN Least({qty, cycle.book[symbol]}) ELSE 0

CapitalAvailable(symbol, qty) == qty * cycle.quoted[symbol] <= cycle.avail

SlotFree(symbol, closing) ==
    LET counted == {s \in Symbols : cycle.book[s] # 0} \ (IF closing > 0 THEN {symbol} ELSE {})
    IN Cardinality(counted) < Limits.slots

(* Only the order's own exposure is judged, not what is held already.        *)
ExposureAllowed(symbol, added) ==
    added * cycle.quoted[symbol] <= Pct(Limits.single, cycle.capital)

GatesPass(symbol, side, qty) ==
    LET closing == Closing(symbol, side, qty)
    IN /\ ~kill
       /\ qty > 0
       /\ CapitalAvailable(symbol, qty)
       /\ SlotFree(symbol, closing)
       /\ ExposureAllowed(symbol, qty - closing)

(* Slip: what was committed is not withdrawn from what the rest may spend.   *)
SubmittedUncounted(qty, symbol) ==
    [cycle EXCEPT !.todo = Tail(@), !.sent = @ + 1,
                  !.committed = @ + qty * cycle.quoted[symbol]]

(* The cycle after an order was submitted: it counts as spent, filled or not. *)
Submitted(qty, symbol) ==
    [cycle EXCEPT !.todo = Tail(@), !.sent = @ + 1,
                  !.committed = @ + qty * cycle.quoted[symbol],
                  !.avail = AtLeastZero(@ - qty * cycle.quoted[symbol])]

Passed == [cycle EXCEPT !.todo = Tail(@)]

(* The broker fills a market order whole, in part or not at all, at the      *)
(* price of the moment; it sells no more than is held and spends no more     *)
(* than there is.                                                           *)
Fill(symbol, side, qty) ==
    \E f \in 0..qty :
      LET shares == IF side = "BUY" THEN f ELSE -f
      IN /\ f * price[symbol] <= cash \/ side = "SELL"
         /\ held[symbol] + shares >= 0
         /\ held' = [held EXCEPT ![symbol] = @ + shares]
         /\ cash' = cash - shares * price[symbol]

(* submit_signal: refused by a gate, by the claim or by the broker; or       *)
(* submitted.                                                               *)
SubmitSignal(sig, qty) ==
    LET side == IF sig.direction = "EXIT" THEN "SELL" ELSE "BUY"
    IN \/ cycle' = Passed /\ UNCHANGED <<held, cash>>
       \/ /\ GatesPass(sig.symbol, side, qty)
          /\ cycle' = Submitted(qty, sig.symbol)
          /\ Fill(sig.symbol, side, qty)

-----------------------------------------------------------------------------
(* The pipeline: one order per signal, strongest first.                      *)

(* The orders the strongest come first in, equals as they were listed.         *)
StrongestFirst(signals) ==
    {q \in SetToSeqs(signals) : \A i, j \in DOMAIN q : i < j => q[i].edge >= q[j].edge}

(* run_once up to the loop.  The route gives it no positions, so the risk    *)
(* engine and the gates judge against an empty book.                        *)
RunCycle(signals) ==
    /\ Ready /\ signals # {}
    /\ \E order \in StrongestFirst(signals) :
         cycle' = Began("pipeline", order, signals, Empty, cash + Value(held))
    /\ runs' = runs + 1
    /\ UNCHANGED <<held, cash, price, kill>>

(* approve_trade, against the context set when the cycle began.              *)
ApproveTrade(symbol, size) ==
    /\ size > 0 /\ size <= cycle.given
    /\ cycle.book[symbol] * cycle.quoted[symbol] + size <= Pct(Limits.single, cycle.capital)
    /\ \/ cycle.book[symbol] > 0
       \/ Cardinality({s \in Symbols : cycle.book[s] > 0}) < Limits.slots

(* calculate_position_size (strategies/swing.py) and the whole shares of it;  *)
(* the strategy declines a trade its risk engine does not approve.           *)
Sized(sig) ==
    LET size == Pct(sig.stamped, cycle.avail)
    IN IF ApproveTrade(sig.symbol, size)
       THEN size \div cycle.quoted[sig.symbol] ELSE 0

(* The next signal: past the ceiling the rest is dropped.                    *)
Propose ==
    /\ Running("pipeline")
    /\ LET sig == Head(cycle.todo) IN
         CASE cycle.sent >= Limits.orders ->
                cycle' = [cycle EXCEPT !.todo = <<>>] /\ UNCHANGED <<held, cash>>
           [] cycle.sent < Limits.orders /\ Sized(sig) = 0 ->
                cycle' = Passed /\ UNCHANGED <<held, cash>>
           [] OTHER -> SubmitSignal(sig, Sized(sig))
    /\ UNCHANGED <<price, kill, runs>>

-----------------------------------------------------------------------------
(* The rebalance: the target, then the differences.                          *)

(* run_allocated_cycle up to submit_target; a target without a difference    *)
(* ends it.                                                                 *)
Rebalance(signals, withheld) ==
    /\ Ready
    /\ \E order \in Ranked(Usable(signals)) :
         LET plan == Allocate(order, cash + Value(held), withheld)
         IN cycle' = IF \A i \in DOMAIN plan : plan[i].delta = 0 THEN Idle
                     ELSE Began("rebalance", plan, signals, held, cash + Value(held))
    /\ runs' = runs + 1
    /\ UNCHANGED <<held, cash, price, kill>>

(* submit_target, one name: no order without a difference or without a       *)
(* signal; the side is the signal's, whatever the sign of the difference.    *)
(* Of several signals for a name the last is taken.                         *)
SubmitTarget ==
    /\ Running("rebalance")
    /\ LET t == Head(cycle.todo)
           sigs == {s \in cycle.signals : s.symbol = t.symbol}
           last(s) == \A o \in sigs : o.sleeve # s.sleeve => Precedes(o, s)
       IN IF t.delta = 0 \/ sigs = {}
          THEN cycle' = Passed /\ UNCHANGED <<held, cash>>
          ELSE \E s \in sigs : last(s) /\ SubmitSignal(s, Magnitude(t.delta))
    /\ UNCHANGED <<price, kill, runs>>

-----------------------------------------------------------------------------
(* The market and the operator                                              *)

Move(s, p) ==
    /\ price[s] # p
    /\ price' = [price EXCEPT ![s] = p]
    /\ cycle' = IF cycle.at = "submit" THEN [cycle EXCEPT !.still = FALSE] ELSE cycle
    /\ UNCHANGED <<held, cash, kill, runs>>

EngageKill == ~kill /\ kill' = TRUE /\ UNCHANGED <<held, cash, price, cycle, runs>>

(* A cycle that is done is forgotten.                                       *)
Finish == cycle.at = "submit" /\ cycle.todo = <<>> /\ cycle' = Idle
          /\ UNCHANGED <<held, cash, price, kill, runs>>

PortfolioInit ==
    /\ held = Empty /\ cash = Cash0 /\ kill = FALSE /\ cycle = Idle /\ runs = 0
    /\ price \in [Symbols -> Prices]

PortfolioNext ==
    \/ \E p \in Proposals : RunCycle(p)
    \/ \E p \in Proposals, withheld \in BOOLEAN : Rebalance(p, withheld)
    \/ Propose \/ SubmitTarget \/ EngageKill \/ Finish
    \/ \E s \in Symbols, p \in Prices : Move(s, p)

PortfolioSpec == PortfolioInit /\ [][PortfolioNext]_pfVars

-----------------------------------------------------------------------------
(* Properties                                                               *)

(* A cycle commits no more cash than it was given, though it reads the       *)
(* account once and its orders fill, or do not, while it goes on.           *)
CommittedWithinCash == cycle.at = "submit" => cycle.committed <= cycle.given

(* A plan within the limits, at the quotes and against the book it was made    *)
(* for: the cash floor; the position cap for every name it adds to; and a     *)
(* sector, which whole shares carry over its cap, within less than a share of *)
(* each of its names above the larger of its cap and what the book had of them. *)
Within(plan, quoted, was, capital) ==
    LET quote(i) == quoted[plan[i].symbol]
        worth(i) == plan[i].target * quote(i)
        had(i)   == was[plan[i].symbol] * quote(i)
        all      == DOMAIN plan
        in(x)    == {i \in all : SectorOf[plan[i].symbol] = x}
        most     == Pct(Limits.sector, capital)
    IN /\ Sum(worth, all) <= Pct(100 - Limits.cash, capital)
       /\ \A i \in all : plan[i].delta > 0 => worth(i) <= Pct(Limits.position, capital)
       /\ \A x \in Range(SectorOf) :
            \/ Sum(worth, in(x)) <= most
            \/ Sum(worth, in(x)) < most + Sum(quote, in(x))
            \/ Sum(worth, in(x)) < Sum(had, in(x)) + Sum(quote, in(x))

(* A rebalance's plan is within the limits whatever it started from.           *)
PlanWithinLimits ==
    (cycle.at = "submit" /\ cycle.kind = "rebalance") =>
      Within(cycle.plan, cycle.quoted, cycle.book, cycle.capital)

(* In a market that stands still, a rebalance that only adds leaves the cash  *)
(* floor untouched, however its orders fare.                                *)
FloorHolds ==
    (cycle.at = "submit" /\ cycle.kind = "rebalance" /\ cycle.still
       /\ \A i \in DOMAIN cycle.plan : cycle.plan[i].delta >= 0)
    => cash >= cycle.capital - Pct(100 - Limits.cash, cycle.capital)

(* What the plan promises, and what is left of it once its orders are sent.   *)
PlanHolds == PlanWithinLimits /\ FloorHolds

=============================================================================
