-------------------------------- MODULE Sleeves --------------------------------
(***************************************************************************)
(* How much each sleeve gets (portfolio/allocator.py), given the regime and the   *)
(* health its strategy has kept (strategies/base.py, update_health), and the      *)
(* trades that move a book to its target (portfolio/rebalancer.py).  Nothing in    *)
(* the application calls the three together yet; a deployment that does is the     *)
(* caller here.  Money is in paise for the allocator, in rupees for the           *)
(* rebalancer; shares are in twentieths.                                      *)
(***************************************************************************)
EXTENDS Regime, FiniteSetsExt

CONSTANTS
    Measured,           \* the sleeves whose health is measured
    Outlooks,           \* the evidence at the beginning
    Capitals,           \* contribution plus existing cash, in paise
    Preferences,        \* the user settings
    Targets,            \* target weights, in percent
    Symbols,            \* the names of the rebalanced book
    Lots, Purses,       \* what a name, and the cash, may be worth at first
    MaxMoves            \* bound on the price moves and rebalances of the book

VARIABLES
    evidence,   \* what the indicators say
    health,     \* per sleeve, strategy.health
    drawdown,   \* per sleeve, the drawdown its health was last updated with
    barred,     \* the sleeves once seen in a drawdown beyond a fifth, not let in again
    user,       \* the user settings
    given,      \* what the last allocation gave, or NoAllocation
    holdings,   \* the rebalanced book: rupees per name
    cash,       \* and its cash
    moves,
    proposed    \* the trades just executed, or no longer the last thing done

(* Three sleeves, and settings that are shares of a whole.                      *)
ASSUME SleevesAssumption ==
    /\ LongTerm # Swing /\ LongTerm # Intraday /\ Swing # Intraday
    /\ Measured \subseteq Book /\ Outlooks \subseteq {e \in Evidence : Coherent(e)}
    /\ Preferences \subseteq [enabled : SUBSET Book, cap : [Book -> 0..20], minCash : 0..20]
    /\ IsFiniteSet(Symbols) /\ Lots \subseteq Nat /\ Purses \subseteq Int

slVars == <<evidence, health, drawdown, barred, user, given, holdings, cash, moves, proposed>>
desk == <<evidence, health, drawdown, barred, user, given>>
book == <<holdings, cash, moves, proposed>>

-----------------------------------------------------------------------------
(* Health                                                                    *)

(* below: the level the Sharpe ratio is significantly below, if the sample is        *)
(* large enough to say so; drawdown in percent.                               *)
Metrics ==
    [below : {"none", "reduce", "pause", "disable"}, drawdown : {3, 5, 10, 20, 21},
     recovered : BOOLEAN, enough : BOOLEAN]
Degrades(metrics, level) ==
    LET Rank(l) == CASE l = "none" -> 0 [] l = "reduce" -> 1 [] l = "pause" -> 2 [] OTHER -> 3
    IN Rank(metrics.below) >= Rank(level)

(* The first that applies, for a strategy that is not disabled.                *)
Assessed(old, m) ==
    IF Degrades(m, "disable") \/ m.drawdown > 20 THEN "DISABLED"
    ELSE IF Degrades(m, "pause") \/ m.drawdown > 10 THEN "PAUSED"
    ELSE IF (Degrades(m, "reduce") \/ m.drawdown > 5) /\ old = "HEALTHY" THEN "REDUCED"
    ELSE IF old \in {"REDUCED", "PAUSED"} /\ m.recovered /\ m.drawdown <= 3 /\ m.enough THEN "HEALTHY"
    ELSE old

(* Slip: a disabled strategy is assessed like any other.                       *)
UpdateHealthAnew(old, m) == Assessed(old, m)

(* DISABLED is left by an operator only.                                      *)
UpdateHealth(old, m) == IF old = "DISABLED" THEN old ELSE Assessed(old, m)

(* In halves.                                                                *)
HealthMultiplier(h) == CASE h = "HEALTHY" -> 2 [] h = "REDUCED" -> 1 [] OTHER -> 0

-----------------------------------------------------------------------------
(* Allocation                                                                *)

(* _DEFAULT_SHARPE_NORMALIZED, in twentieths: .75, .65 and .55; their sum, 1.95,      *)
(* is the score at which everything deployable is deployed.  A score is in       *)
(* eight hundredths: a base, a share of the regime and a half of the health.     *)
Base == Row(15, 13, 11)
LeastScore == 80
LeastTotal == 120
FullScore == 1560
Total(f) == f[LongTerm] + f[Swing] + f[Intraday]

Score(base, regime, state, wishes, s) ==
    LET raw == base[s] * SleeveMultipliers(regime)[s] * HealthMultiplier(state[s]) IN
    IF s \in wishes.enabled /\ raw >= LeastScore THEN raw ELSE 0

(* The total decides how much is deployed, the shares how it is split; what a cap   *)
(* cuts off stays cash, and paise are rounded down.                           *)
Amounts(base, capital, regime, state, wishes) ==
    LET scores == [s \in Book |-> Score(base, regime, state, wishes, s)]
        ceiling == capital * (20 - wishes.minCash)          \* in twentieths of a paisa
        total == Total(scores)
        deployed == IF total > FullScore THEN total ELSE FullScore
        least(a, b) == IF a < b THEN a ELSE b
    IN IF capital <= 0 \/ total < LeastTotal THEN [s \in Book |-> 0]
       ELSE [s \in Book |-> least((ceiling * scores[s]) \div (20 * deployed),
                                  (capital * wishes.cap[s]) \div 20)]

(* _verify: whether the allocation would be refused as a broken invariant.        *)
Broken(capital, amounts, wishes) ==
    /\ capital > 0
    /\ \/ \E s \in Book : \/ amounts[s] < 0 \/ 20 * amounts[s] > wishes.cap[s] * capital
                          \/ s \notin wishes.enabled /\ amounts[s] > 0
       \/ 20 * (capital - Total(amounts)) < wishes.minCash * capital

(* A sleeve that reports no health is taken to be healthy.                     *)
Reported(sleeves) == [s \in Book |-> IF s \in sleeves THEN health[s] ELSE "HEALTHY"]

NoAllocation == [made |-> FALSE]
Idle == [made |-> FALSE]

-----------------------------------------------------------------------------
(* The desk                                                                  *)

(* One indicator after the other changes.                                    *)
Observe ==
    /\ evidence' \in {e \in Changed(evidence) : Coherent(e)} /\ given' = NoAllocation
    /\ UNCHANGED <<health, drawdown, barred, user, book>>

Measure(s) ==
    /\ \E m \in Metrics :
         /\ health' = [health EXCEPT ![s] = UpdateHealth(@, m)]
         /\ drawdown' = [drawdown EXCEPT ![s] = m.drawdown]
         /\ barred' = IF m.drawdown > 20 THEN barred \cup {s} ELSE barred
    /\ given' = NoAllocation
    /\ UNCHANGED <<evidence, user, book>>

(* Re-enabling a strategy takes an operator, who has seen it recover.           *)
Reenable(s) ==
    /\ health[s] = "DISABLED" /\ drawdown[s] <= 3
    /\ health' = [health EXCEPT ![s] = "HEALTHY"] /\ barred' = barred \ {s}
    /\ given' = NoAllocation
    /\ UNCHANGED <<evidence, drawdown, user, book>>

(* base: the priors, or live estimates given instead of them.                  *)
AllocateCapital(base, capital, sleeves) ==
    /\ LET amounts == Amounts(base, capital, DetectRegime(evidence), Reported(sleeves), user) IN
       given' = [made |-> TRUE, base |-> base, capital |-> capital, amounts |-> amounts,
                 reported |-> sleeves, broken |-> Broken(capital, amounts, user)]
    /\ UNCHANGED <<evidence, health, drawdown, barred, user, book>>

-----------------------------------------------------------------------------
(* The rebalanced book                                                       *)

MinTrade(capital) == Max({capital \div 1000, 500})
Magnitude(x) == IF x < 0 THEN -x ELSE x
Sum(f) == MapThenSumSet(LAMBDA s : f[s], Symbols)
Capital == Sum(holdings) + cash

(* should_rebalance: a weight is five points off or more, and half of all that is    *)
(* off is worth more than a trade costs with its margin, 0.3 %.                *)
ShouldRebalance(target) ==
    LET off == [s \in Symbols |-> Magnitude(100 * holdings[s] - target[s] * Capital)] IN
    /\ \E s \in Symbols : off[s] >= 5 * Capital
    /\ 10 * Sum(off) > 6 * Capital

(* calculate_trades: per name the one trade to its target, unless it is tiny; the     *)
(* targets are normalised to sum to one, so that cash meant to be kept is spent.  *)
Gap(target) == [s \in Symbols |-> (target[s] * Capital) \div Sum(target) - holdings[s]]
Trades(target) ==
    [s \in Symbols |-> IF Magnitude(Gap(target)[s]) < MinTrade(Capital) THEN 0 ELSE Gap(target)[s]]

Rebalance(target) ==
    /\ moves < MaxMoves /\ moves' = moves + 1
    /\ Sum(target) > 0 /\ ShouldRebalance(target)
    /\ LET trades == Trades(target)
           turnover == Sum([s \in Symbols |-> Magnitude(trades[s])])
       IN /\ holdings' = [s \in Symbols |-> holdings[s] + trades[s]]
          /\ cash' = cash - Sum(trades) - turnover \div 500
          /\ proposed' = [made |-> TRUE, target |-> target, trades |-> trades, before |-> Capital]
    /\ UNCHANGED desk

PriceMoves(s, step) ==
    /\ moves < MaxMoves /\ holdings[s] + step >= 0
    /\ moves' = moves + 1
    /\ holdings' = [holdings EXCEPT ![s] = @ + step] /\ proposed' = Idle
    /\ UNCHANGED <<desk, cash>>

-----------------------------------------------------------------------------
SleevesInit ==
    /\ evidence \in Outlooks
    /\ health = [s \in Book |-> "HEALTHY"] /\ drawdown = [s \in Book |-> 0] /\ barred = {}
    /\ user \in Preferences /\ given = NoAllocation
    /\ holdings \in [Symbols -> Lots] /\ cash \in Purses
    /\ moves = 0 /\ proposed = Idle

-----------------------------------------------------------------------------
(* Properties                                                               *)

(* The guard of _verify is never what stops an allocation: whatever the scores, the   *)
(* regime, the healths and the capital, no sleeve gets more than its cap or        *)
(* anything while it is disabled, and the cash floor is kept, to the paisa.       *)
AllocationHolds == given.made => ~given.broken

(* A sleeve whose strategy was last seen in a drawdown of more than a tenth gets       *)
(* nothing, one beyond a twentieth at most half of what a healthy one would get     *)
(* before its cap (on the priors), and one that was ever beyond a fifth nothing     *)
(* until an operator has let it in again, as long as its health is reported.       *)
DrawdownStarves ==
    given.made =>
        \A s \in given.reported :
            /\ drawdown[s] > 10 \/ s \in barred => given.amounts[s] = 0
            /\ drawdown[s] > 5 /\ given.base = Base =>
                 2 * given.amounts[s] <= Amounts(Base, given.capital, DetectRegime(evidence),
                                                 [health EXCEPT ![s] = "HEALTHY"],
                                                 [user EXCEPT !.cap = Row(20, 20, 20)])[s]

(* Anything seen of the market that is worse never leads to more capital for the       *)
(* long-term or the swing sleeve, nor to a larger share of equity being recommended,  *)
(* nor does a strategy whose health is worse get more, on the priors.            *)
WorseNewsNeverRaises ==
    given.made /\ given.base = Base =>
        LET Now(e, state) == Amounts(Base, given.capital, DetectRegime(e), state, user)
            state == Reported(given.reported)
        IN /\ \A e \in Worse(evidence), s \in {LongTerm, Swing} :
                 Now(e, state)[s] <= given.amounts[s]
           /\ \A e \in Worse(evidence), v \in Volatilities \cup {"unknown"} :
                 DetectCombined(e, v).cap <= DetectCombined(evidence, v).cap
           /\ \A s \in Book : state[s] = "HEALTHY" =>
                 Now(evidence, [state EXCEPT ![s] = "REDUCED"])[s] <= given.amounts[s]

(* A rebalance settles the book: on the same prices a name has no more left to trade  *)
(* than the costs, or than is too little to trade; what the trades did not balance  *)
(* among themselves and the costs have not taken is the cash there was, up to such   *)
(* rests; and no rebalance is asked for again, if the weights sum to one, five points *)
(* of the book are more than a tiny trade and the costs were half a percent of it.    *)
RebalanceSettles ==
    proposed.made =>
        LET cost == proposed.before - Capital
            slack == [s \in Symbols |-> IF proposed.trades[s] = 0 THEN MinTrade(proposed.before) ELSE 1]
        IN /\ \A s \in Symbols : Magnitude(Gap(proposed.target)[s]) < cost + slack[s]
           /\ Magnitude(cash + cost) <= Sum(slack)
           /\ Sum(proposed.target) = 100 /\ proposed.before >= 12000 /\ 200 * cost <= proposed.before
                => ~ShouldRebalance(proposed.target)

(* What capital the desk gives away, on which news, and how a book gets there.      *)
DeskHolds == AllocationHolds /\ DrawdownStarves /\ WorseNewsNeverRaises /\ RebalanceSettles

=============================================================================
