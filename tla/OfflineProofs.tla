---------------------------- MODULE OfflineProofs ----------------------------
(* What holds of the two backtests, for every history, strategy and cost: that *)
(* neither can see past the day it is at, and what their accounts add up to.   *)
(* And what holds of the desk: where capital goes, how a book is rebalanced, and  *)
(* what a sleeve asks for, holds and may open, for every universe and view of it.  *)
EXTENDS Backtest, SignalBacktest, Sleeves, Strategies, SequenceTheorems, Sums, TLAPS

-----------------------------------------------------------------------------
(* The event-driven backtest                                                *)

(* What it is given: histories of the same days, a window within them and a   *)
(* size that is a number.  Without the last, shares could be anything.       *)
Histories ==
    /\ closes \in [Lanes -> Seq([Universe -> Nat])]
    /\ \A l, k \in Lanes : Len(closes[l]) = Len(closes[k])
    /\ first \in 1..LastDay
Sized == \A v \in Int : SizeOf(v) \in Int

(* One share pays for its sale, fees and slippage off, at any price there is.   *)
Pays(price) == price > 0 /\ price - price \div 20 >= DpCharge
SalesPay ==
    \A l \in Lanes : \A d \in 1..LastDay : \A n \in Universe :
        closes[l][d][n] > 0 => Pays(closes[l][d][n] - Slippage)

LEMMA GreatestBelow ==
  ASSUME NEW n \in Nat, NEW s \in SUBSET (0..n), s # {}
  PROVE  Max(s) \in s /\ \A k \in s : k <= Max(s)
<1>. DEFINE T == {n - k : k \in s}
<1>0. \A k \in s : k \in Int /\ k <= n
  OBVIOUS
<1>1. T \subseteq Nat /\ T # {}
  <2>1. \A k \in s : n - k \in Nat
    BY <1>0
  <2>. QED
    BY <2>1
<1>2. PICK m \in T : \A k \in T : m <= k
  BY <1>1, LeastNatural
<1>3. PICK x \in s : m = n - x
  BY <1>2
<1>4. \A y \in s : x >= y
  <2>1. \A y \in s : n - x <= n - y
    BY <1>2, <1>3
  <2>. QED
    BY <1>0, <2>1
<1>5. Max(s) \in s /\ \A y \in s : Max(s) >= y
  BY <1>3, <1>4 DEF Max
<1>. QED
  BY <1>0, <1>5

(* The names, and that they are finitely many.                              *)
LEMMA NamesList ==
  /\ Len(Names) \in Nat /\ DOMAIN Names = 1..Len(Names)
  /\ Universe = {Names[i] : i \in 1..Len(Names)} /\ IsFiniteSet(Universe)
<1>1. Names \in Seq({Names[i] : i \in DOMAIN Names})
  BY BacktestAssumption
<1>2. Len(Names) \in Nat /\ DOMAIN Names = 1..Len(Names)
  BY <1>1
<1>3. IsFiniteSet({Names[i] : i \in 1..Len(Names)})
  <2>1. IsFiniteSet(1..Len(Names))
    BY <1>2, FS_Interval
  <2>2. Names \in [1..Len(Names) -> Universe]
    BY <1>1, <1>2 DEF Universe
  <2>3. Names \in Surjection(1..Len(Names), Universe)
    BY <1>2, <2>2 DEF Universe, Surjection
  <2>. QED
    BY <1>2, <2>1, <2>3, FS_Surjection DEF Universe
<1>. QED
  BY <1>2, <1>3 DEF Universe

LEMMA NamesApart ==
  ASSUME NEW i \in 1..Len(Names) PROVE \A j \in 1..Len(Names) : Names[j] = Names[i] => j = i
<1>1. \A k, j \in DOMAIN Names : Names[k] = Names[j] => k = j
  BY BacktestAssumption
<1>. QED
  BY <1>1, NamesList

(* One turn of a loop: over the universe, an exit, an entry or a final sale; over a *)
(* list of candidates, a signal that is taken into the batch.                   *)
Step(kind, x, s, i) ==
    LET n == Names[i] IN
    CASE kind = "exit"  -> IF n \in x.leaving THEN Exit(s, n, x.prices, x.day) ELSE s
      [] kind = "enter" -> IF n \in x.wanted THEN Enter(s, n, x.value, x.prices, x.day) ELSE s
      [] kind = "sell"  -> IF s.held[n].qty = 0 \/ x.prices[n] = 0 THEN s ELSE Sell(s, n, x.prices[n], x.day)
      [] kind = "take"  -> IF Len(s) >= x.left \/ SectorFull(s, x.list[i]) \/ x.list[i] \in x.passed THEN s
                           ELSE Append(s, x.signals[x.list[i]])

(* g is what the loop has made after some of its turns, the last one last.       *)
Folding(kind, x, base, D, g) ==
    g = [s \in SUBSET D |-> IF s = {} THEN base
                            ELSE Step(kind, x, g[s \ {Max(s)}], Max(s))]

LEMMA FoldingAt ==
  ASSUME NEW kind, NEW x, NEW base, NEW D, NEW g, Folding(kind, x, base, D, g)
  PROVE  /\ g[{}] = base
         /\ \A s \in SUBSET D : s # {} => g[s] = Step(kind, x, g[s \ {Max(s)}], Max(s))
BY DEF Folding

Indices(n, S) == S \subseteq 1..n

LEMMA FoldingUnique ==
  ASSUME NEW kind, NEW x, NEW base, NEW n \in Nat, NEW S, Indices(n, S), NEW T,
         NEW g, NEW h, Folding(kind, x, base, S, g), Folding(kind, x, base, T, h),
         NEW V, V \subseteq S, V \subseteq T
  PROVE  g[V] = h[V]
<1>. DEFINE B == {U \in SUBSET V : g[U] # h[U]}
<1>. SUFFICES ASSUME V \in B PROVE FALSE
  OBVIOUS
<1>. HIDE DEF B
<1>1. PICK U \in B : \A X \in B : X \subseteq U => X = U
  <2>. DEFINE N == 1..n
  <2>1. B \subseteq SUBSET N
    BY DEF B, Indices
  <2>2. IsFiniteSet(N)
    BY FS_Interval
  <2>3. B # {}
    OBVIOUS
  <2>. HIDE DEF N
  <2>. QED
    BY ONLY <2>1, <2>2, <2>3, SmallestSet
<1>2. U \in SUBSET S /\ U \in SUBSET T /\ U \subseteq V /\ g[U] # h[U]
  BY <1>1 DEF B
<1>3. U # {}
  <2>1. g[{}] = base /\ h[{}] = base
    BY DEF Folding
  <2>. QED
    BY <1>2, <2>1
<1>. DEFINE y == Max(U)
<1>4. y \in U
  <2>1. U \in SUBSET (0..n)
    BY <1>2 DEF Indices
  <2>. QED
    BY <1>3, <2>1, GreatestBelow
<1>5. U \ {y} \notin B /\ U \ {y} \subseteq V
  BY <1>1, <1>2, <1>4
<1>6. g[U \ {y}] = h[U \ {y}]
  BY <1>5 DEF B
<1>7. g[U] = Step(kind, x, g[U \ {y}], y)
  BY <1>2, <1>3 DEF Folding
<1>8. h[U] = Step(kind, x, h[U \ {y}], y)
  BY <1>2, <1>3 DEF Folding
<1>. QED
  BY <1>2, <1>6, <1>7, <1>8

LEMMA FoldingExists ==
  ASSUME NEW kind, NEW x, NEW base, NEW n \in Nat
  PROVE  \E g : Folding(kind, x, base, 1..n, g)
<1>. DEFINE S == 1..n
            B == {U \in SUBSET S : ~\E g : Folding(kind, x, base, U, g)}
<1>. SUFFICES ASSUME S \in B PROVE FALSE
  OBVIOUS
<1>0. IsFiniteSet(S)
  BY FS_Interval
<1>a. \A U \in SUBSET S : U # {} => Max(U) \in U
  <2>1. SUBSET S \subseteq SUBSET (0..n)
    OBVIOUS
  <2>. HIDE DEF S
  <2>. QED
    BY <2>1, GreatestBelow
<1>. HIDE DEF B
<1>1. PICK T \in B : \A X \in B : X \subseteq T => X = T
  <2>1. B \subseteq SUBSET S
    BY DEF B
  <2>. HIDE DEF S
  <2>. QED
    BY <1>0, <2>1, SmallestSet
<1>2. T \in SUBSET S /\ ~\E g : Folding(kind, x, base, T, g)
  BY <1>1 DEF B
<1>. DEFINE of(U) == CHOOSE g : Folding(kind, x, base, U, g)
            e(U) == of(U)[U]
            G == [s \in SUBSET T |-> IF s = {} THEN base
                                     ELSE Step(kind, x, e(s \ {Max(s)}), Max(s))]
<1>3. ASSUME NEW U, U \subseteq T, U # T PROVE Folding(kind, x, base, U, of(U)) /\ U \subseteq S
  <2>. HIDE DEF S
  <2>1. U \notin B /\ U \in SUBSET S
    BY <1>1, <1>2, <1>3
  <2>2. \E g : Folding(kind, x, base, U, g)
    BY <2>1 DEF B
  <2>. QED
    BY <2>1, <2>2
<1>. HIDE DEF of
<1>4. ASSUME NEW U, U \subseteq T, U # T PROVE e(U) = G[U]
  <2>1. Folding(kind, x, base, U, of(U)) /\ U \subseteq S
    BY <1>3, <1>4
  <2>2. CASE U = {}
    <3>1. of(U)[{}] = base
      BY <2>1, FoldingAt
    <3>2. G[U] = base
      BY <1>4, <2>2
    <3>. QED
      BY <2>2, <3>1, <3>2
  <2>3. CASE U # {}
    <3>. DEFINE V == U \ {Max(U)}
    <3>. HIDE DEF S
    <3>0. Max(U) \in U
      BY <1>a, <2>1, <2>3
    <3>1. V \subseteq U /\ V \subseteq T /\ V # T
      BY <1>4, <3>0
    <3>2. Folding(kind, x, base, V, of(V)) /\ V \subseteq S
      BY <1>3, <3>1
    <3>3. of(U)[U] = Step(kind, x, of(U)[V], Max(U))
      BY <2>1, <2>3 DEF Folding
    <3>. HIDE DEF V
    <3>4. of(U)[V] = of(V)[V]
      <4>1. Indices(n, U) /\ V \subseteq U
        BY <2>1, <3>1, <3>2 DEF S, Indices
      <4>2. Folding(kind, x, base, U, of(U)) /\ Folding(kind, x, base, V, of(V))
        BY <2>1, <3>2
      <4>. QED
        BY <4>1, <4>2, FoldingUnique
    <3>5. G[U] = Step(kind, x, e(U \ {Max(U)}), Max(U))
      BY <1>4, <2>3
    <3>. QED
      BY <3>3, <3>4, <3>5 DEF V
  <2>. QED
    BY <2>2, <2>3
<1>5. ASSUME NEW s \in SUBSET T, s # {} PROVE e(s \ {Max(s)}) = G[s \ {Max(s)}]
  <2>. HIDE DEF S
  <2>1. Max(s) \in s
    BY <1>2, <1>5, <1>a
  <2>2. s \ {Max(s)} \subseteq T /\ s \ {Max(s)} # T
    BY <1>5, <2>1
  <2>. HIDE DEF e, G
  <2>. QED
    BY <1>4, <2>2
<1>6. Folding(kind, x, base, T, G)
  <2>1. \A s \in SUBSET T : G[s] = IF s = {} THEN base
                                  ELSE Step(kind, x, G[s \ {Max(s)}], Max(s))
    <3>. SUFFICES ASSUME NEW s \in SUBSET T
                  PROVE  G[s] = IF s = {} THEN base
                                ELSE Step(kind, x, G[s \ {Max(s)}], Max(s))
      OBVIOUS
    <3>1. G[s] = IF s = {} THEN base ELSE Step(kind, x, e(s \ {Max(s)}), Max(s))
      OBVIOUS
    <3>2. s # {} => e(s \ {Max(s)}) = G[s \ {Max(s)}]
      BY <1>5
    <3>. HIDE DEF G, e
    <3>. QED
      BY <3>1, <3>2
  <2>2. G = [s \in SUBSET T |-> G[s]]
    OBVIOUS
  <2>. HIDE DEF G
  <2>. QED
    BY <2>1, <2>2 DEF Folding
<1>. QED
  BY <1>2, <1>6

(* The table of a loop, name by name.                                       *)
Stepwise(kind, x, base, n, g) ==
    g[1..0] = base /\ \A i \in 1..n : g[1..i] = Step(kind, x, g[1..(i - 1)], i)

LEMMA FoldingSteps ==
  ASSUME NEW kind, NEW x, NEW base, NEW n \in Nat, NEW g, Folding(kind, x, base, 1..n, g)
  PROVE  Stepwise(kind, x, base, n, g)
<1>1. g[1..0] = base
  <2>1. 1..0 = {}
    OBVIOUS
  <2>. QED
    BY <2>1, FoldingAt
<1>2. ASSUME NEW i \in 1..n PROVE g[1..i] = Step(kind, x, g[1..(i - 1)], i)
  <2>1. 1..i \in SUBSET (1..n) /\ 1..i # {} /\ 1..i \in SUBSET (0..n)
    OBVIOUS
  <2>2. Max(1..i) \in 1..i /\ \A k \in 1..i : k <= Max(1..i)
    BY <2>1, GreatestBelow
  <2>3. Max(1..i) = i
    BY <2>2
  <2>4. (1..i) \ {i} = 1..(i - 1)
    <3>1. \A k \in Int : k \in (1..i) \ {i} <=> k \in 1..(i - 1)
      OBVIOUS
    <3>2. (1..i) \ {i} \subseteq Int /\ 1..(i - 1) \subseteq Int
      OBVIOUS
    <3>. QED
      BY ONLY <3>1, <3>2
  <2>5. g[1..i] = Step(kind, x, g[(1..i) \ {Max(1..i)}], Max(1..i))
    BY <2>1 DEF Folding
  <2>. QED
    BY <2>3, <2>4, <2>5
<1>. QED
  BY <1>1, <1>2 DEF Stepwise

(* A loop of the code is such a table.                                       *)
LEMMA Looping ==
  ASSUME NEW kind, NEW x, NEW base, NEW n \in Nat, NEW h,
         h = CHOOSE g : g = [s \in SUBSET (1..n) |->
                               IF s = {} THEN base ELSE Step(kind, x, g[s \ {Max(s)}], Max(s))]
  PROVE  Folding(kind, x, base, 1..n, h)
<1>. DEFINE F(g) == [s \in SUBSET (1..n) |->
                       IF s = {} THEN base ELSE Step(kind, x, g[s \ {Max(s)}], Max(s))]
<1>1. \A g : Folding(kind, x, base, 1..n, g) <=> g = F(g)
  BY DEF Folding
<1>2. PICK k : Folding(kind, x, base, 1..n, k)
  BY FoldingExists
<1>3. h = F(h)
  <2>1. h = CHOOSE g : g = F(g)
    OBVIOUS
  <2>. HIDE DEF F
  <2>. QED
    BY <1>1, <1>2, <2>1
<1>. HIDE DEF F
<1>. QED
  BY <1>1, <1>3

LEMMA NamesLooping ==
  ASSUME NEW kind, NEW x, NEW base, NEW h,
         h = CHOOSE g : g = [s \in SUBSET (DOMAIN Names) |->
                               IF s = {} THEN base ELSE Step(kind, x, g[s \ {Max(s)}], Max(s))]
  PROVE  Folding(kind, x, base, 1..Len(Names), h)
<1>1. DOMAIN Names = 1..Len(Names) /\ Len(Names) \in Nat
  BY NamesList
<1>2. h = CHOOSE g : g = [s \in SUBSET (1..Len(Names)) |->
                            IF s = {} THEN base ELSE Step(kind, x, g[s \ {Max(s)}], Max(s))]
  BY <1>1
<1>. QED
  BY <1>1, <1>2, Looping

(* The end is one: sales at the prices of the last bar or of the one after the halt. *)
Sold(sim, history, g) ==
    LET day == LiquidationDay(sim)
        sold == g[1..Len(Names)]
    IN /\ Folding("sell", [prices |-> history[day], day |-> day], sim, 1..Len(Names), g)
       /\ Liquidate(sim, history) =
            [sold EXCEPT !.curve = Append(@, sold.cash), !.day = day,
                         !.status = IF sim.errors > MaxErrors THEN "invalid" ELSE "done"]

LEMMA SaleFolds ==
  ASSUME NEW sim, NEW history PROVE \E g : Sold(sim, history, g)
<1>. DEFINE day == LiquidationDay(sim)
            x == [prices |-> history[day], day |-> day]
            F(g) == [s \in SUBSET (DOMAIN Names) |->
                       IF s = {} THEN sim ELSE Step("sell", x, g[s \ {Max(s)}], Max(s))]
            G(g) == [s \in SUBSET (DOMAIN Names) |->
                       IF s = {} THEN sim
                       ELSE LET y == Max(s) IN
                            IF g[s \ {y}].held[Names[y]].qty = 0 \/ history[day][Names[y]] = 0 THEN g[s \ {y}]
                            ELSE Sell(g[s \ {y}], Names[y], history[day][Names[y]], day)]
            h == CHOOSE g : g = G(g)
<1>1. \A g : F(g) = G(g)
  BY DEF Step
<1>2. h = CHOOSE g : g = F(g)
  <2>. HIDE DEF F, G
  <2>. QED
    BY <1>1
<1>3. Folding("sell", x, sim, 1..Len(Names), h)
  <2>. HIDE DEF G
  <2>. QED
    BY <1>2, NamesLooping
<1>4. LET sold == h[DOMAIN Names] IN
      Liquidate(sim, history) =
                        [sold EXCEPT !.curve = Append(@, sold.cash), !.day = day,
                                     !.status = IF sim.errors > MaxErrors THEN "invalid" ELSE "done"]
  BY DEF Liquidate, FoldLeft, MapThenFoldSet
<1>5. Sold(sim, history, h)
  <2>. HIDE DEF h
  <2>. QED
    BY <1>3, <1>4, NamesList DEF Sold
<1>. QED
  BY <1>5

(* The pieces of a bar.                                                      *)
Worth(sim, history) == Value(sim, history[sim.day])
Peak(sim, history) == Max({sim.peak, Worth(sim, history)})
Marked(sim, history) ==
    [sim EXCEPT !.curve = Append(@, Worth(sim, history)), !.peak = Peak(sim, history)]
Leaving(sim, history) ==
    {n \in Held(sim) : history[sim.day][n] > 0 /\ Leaves(sim.held[n].price, history[sim.day][n])}
Wanted(sim, history) ==
    IF sim.day \in failing THEN {} ELSE Wants(Features(history, sim.day), MarketData(history, sim.day))
Decision(sim, history) == [out |-> Leaving(sim, history), in |-> Wanted(sim, history)]
Halts(sim, history) == 100 * (Peak(sim, history) - Worth(sim, history)) > HaltAt * Peak(sim, history)
Exiting(sim, history) ==
    [leaving |-> Leaving(sim, history), prices |-> history[sim.day + 1], day |-> sim.day + 1]
Entering(sim, history) ==
    [wanted |-> Wanted(sim, history), value |-> Worth(sim, history),
     prices |-> history[sim.day + 1], day |-> sim.day + 1]

(* A bar is two such loops: exits, from the marked book, and entries.          *)
Folded(sim, history, g, h) ==
    /\ Folding("exit", Exiting(sim, history), Marked(sim, history), 1..Len(Names), g)
    /\ Folding("enter", Entering(sim, history), g[1..Len(Names)], 1..Len(Names), h)
    /\ Trade(sim, history) =
         IF Halts(sim, history) THEN [Marked(sim, history) EXCEPT !.status = "halted"]
         ELSE [h[1..Len(Names)] EXCEPT !.decided = Append(@, Decision(sim, history)),
                                       !.errors = IF sim.day \in failing THEN @ + 1 ELSE @, !.day = @ + 1]

LEMMA TradeFolds ==
  ASSUME NEW sim, NEW history PROVE \E g, h : Folded(sim, history, g, h)
<1>. DEFINE base == Marked(sim, history)
            x == Exiting(sim, history)
            z == Entering(sim, history)
            F(g) == [s \in SUBSET (DOMAIN Names) |->
                       IF s = {} THEN base ELSE Step("exit", x, g[s \ {Max(s)}], Max(s))]
            G(g) == [s \in SUBSET (DOMAIN Names) |->
                       IF s = {} THEN base
                       ELSE LET y == Max(s) IN
                            IF Names[y] \in Leaving(sim, history)
                            THEN Exit(g[s \ {y}], Names[y], history[sim.day + 1], sim.day + 1) ELSE g[s \ {y}]]
            g0 == CHOOSE g : g = G(g)
            traded == g0[DOMAIN Names]
            H(g) == [s \in SUBSET (DOMAIN Names) |->
                       IF s = {} THEN traded ELSE Step("enter", z, g[s \ {Max(s)}], Max(s))]
            K(g) == [s \in SUBSET (DOMAIN Names) |->
                       IF s = {} THEN traded
                       ELSE LET y == Max(s) IN
                            IF Names[y] \in Wanted(sim, history)
                            THEN Enter(g[s \ {y}], Names[y], Worth(sim, history), history[sim.day + 1], sim.day + 1)
                            ELSE g[s \ {y}]]
            h0 == CHOOSE g : g = K(g)
<1>1. \A g : F(g) = G(g)
  BY DEF Step, Exiting
<1>2. g0 = CHOOSE g : g = F(g)
  <2>. HIDE DEF F, G
  <2>. QED
    BY <1>1
<1>3. Folding("exit", x, base, 1..Len(Names), g0)
  <2>. HIDE DEF G, x, base
  <2>. QED
    BY <1>2, NamesLooping
<1>4. \A g : H(g) = K(g)
  <2>. HIDE DEF traded
  <2>. QED
    BY DEF Step, Entering
<1>5. h0 = CHOOSE g : g = H(g)
  <2>. HIDE DEF H, K
  <2>. QED
    BY <1>4
<1>6. Folding("enter", z, traded, 1..Len(Names), h0)
  <2>. HIDE DEF K, z, traded
  <2>. QED
    BY <1>5, NamesLooping
<1>7. Trade(sim, history) =
                IF Halts(sim, history) THEN [base EXCEPT !.status = "halted"]
                ELSE [h0[DOMAIN Names] EXCEPT
                        !.decided = Append(@, Decision(sim, history)),
                        !.errors = IF sim.day \in failing THEN @ + 1 ELSE @, !.day = @ + 1]
  BY DEF Trade, FoldLeft, MapThenFoldSet, Halts, Worth, Peak, Marked, Leaving, Wanted, Decision
<1>8. DOMAIN Names = 1..Len(Names)
  BY NamesList
<1>. HIDE DEF g0, h0, base, x, z
<1>9. Folded(sim, history, g0, h0)
  BY <1>3, <1>6, <1>7, <1>8 DEF x, z, base, Folded
<1>. QED
  BY <1>9

-----------------------------------------------------------------------------
(* What a sale and an entry keep                                              *)

Positions == {Out} \cup [qty : Nat \ {0}, price : Nat \ {0}, cost : Nat, day : Nat]
Closed == [name : Universe, from : Nat, till : Nat, net : Int]

(* D: what is decided, which the code does not look at.                       *)
Simulations(D) ==
    [day : Nat, cash : Int, peak : Int, held : [Universe -> Positions], curve : Seq(Int),
     trades : SUBSET Closed, decided : Seq(D), errors : Nat,
     status : {"running", "halted", "done", "invalid"}]

Open(sim) == [n \in Held(sim) |-> sim.held[n].qty * sim.held[n].price + sim.held[n].cost]
Nets(T) == [t \in T |-> t.net]
Balanced(sim) ==
    /\ IsFiniteSet(sim.trades)
    /\ sim.cash + SumFunction(Open(sim)) = Stake + SumFunction(Nets(sim.trades))

(* Positions and trades are of days up to these; a name held again is held       *)
(* from a later day than every trade of it.                                  *)
Dated(sim, from, upto) ==
    /\ \A n \in Held(sim) : sim.held[n].day <= upto
    /\ \A t \in sim.trades : t.from <= from
    /\ \A t \in sim.trades, n \in Held(sim) : t.name = n => t.from < sim.held[n].day
Covered(sim) == sim.cash >= 0 /\ \A n \in Held(sim) : Pays(sim.held[n].price - Slippage)

(* What no step of a loop touches, and the day of the trades it adds.          *)
Same(sim, base, day) ==
    /\ sim.day = base.day /\ sim.peak = base.peak /\ sim.curve = base.curve
    /\ sim.decided = base.decided /\ sim.errors = base.errors /\ sim.status = base.status
    /\ base.trades \subseteq sim.trades
    /\ \A t \in sim.trades \ base.trades : t.till = day

LEMMA PositionsOf ==
  ASSUME NEW D, NEW s \in Simulations(D), NEW n \in Universe
  PROVE  /\ s.held[n] \in Positions
         /\ n \in Held(s) <=> s.held[n] # Out
         /\ n \in Held(s) => s.held[n].qty \in Nat \ {0} /\ s.held[n].price \in Nat \ {0}
                             /\ s.held[n].cost \in Nat /\ s.held[n].day \in Nat
         /\ n \notin Held(s) => s.held[n].qty = 0
<1>1. s.held[n] \in Positions
  BY DEF Simulations
<1>2. Out.qty = 0
  BY DEF Out
<1>3. n \in Held(s) <=> s.held[n].qty > 0
  BY DEF Held
<1>. QED
  BY <1>1, <1>2, <1>3 DEF Positions

LEMMA HeldFinite ==
  ASSUME NEW s PROVE IsFiniteSet(Held(s)) /\ Held(s) \subseteq Universe
BY NamesList, FS_Subset DEF Held

LEMMA OpenWhole ==
  ASSUME NEW D, NEW s \in Simulations(D)
  PROVE  DOMAIN Open(s) = Held(s) /\ Whole(Open(s), Held(s))
<1>1. ASSUME NEW n \in Held(s) PROVE Open(s)[n] \in Int
  BY HeldFinite, PositionsOf DEF Open
<1>. QED
  BY <1>1 DEF Whole, Open

LEMMA CostIs ==
  ASSUME NEW side, NEW q \in Int, NEW p \in Int
  PROVE  Cost(side, q, p) \in Nat
<1>1. q * p \in Int
  OBVIOUS
<1>2. DpCharge \in Nat
  BY BacktestAssumption
<1>3. \A v \in Int : v > 0 => v \div 20 \in Nat
  OBVIOUS
<1>. DEFINE v == q * p
<1>4. CASE v <= 0
  BY <1>4 DEF Cost
<1>5. CASE ~(v <= 0)
  <2>1. v \div 20 \in Nat
    BY <1>1, <1>3, <1>5
  <2>2. Cost(side, q, p) = v \div 20 + (IF side = "SELL" THEN DpCharge ELSE 0)
    BY <1>5 DEF Cost
  <2>. QED
    BY <1>2, <2>1, <2>2
<1>. QED
  BY <1>4, <1>5

(* A sale at at: the shares leave the book, their result goes to the trades.    *)
SaleCost(s, n, price) == Cost("SELL", s.held[n].qty, price - Slippage)
Sale(s, n, price, day) ==
    [name |-> n, from |-> s.held[n].day, till |-> day,
     net |-> s.held[n].qty * ((price - Slippage) - s.held[n].price) - s.held[n].cost - SaleCost(s, n, price)]

Executed(s, n, price, day) ==
    /\ Sell(s, n, price, day) =
         [s EXCEPT !.cash = s.cash + s.held[n].qty * (price - Slippage) - SaleCost(s, n, price),
                   !.held = [s.held EXCEPT ![n] = Out],
                   !.trades = s.trades \cup {Sale(s, n, price, day)}]
    /\ Sale(s, n, price, day) \in Closed /\ price - Slippage \in Int
    /\ SaleCost(s, n, price) \in Nat /\ n \in Universe
    /\ s.held[n].qty \in Nat \ {0} /\ s.held[n].price \in Nat \ {0}
    /\ s.held[n].cost \in Nat /\ s.held[n].day \in Nat

LEMMA SellIs ==
  ASSUME NEW D, NEW s \in Simulations(D), NEW n \in Held(s), NEW price \in Int, NEW day \in Nat
  PROVE  Executed(s, n, price, day)
<1>. DEFINE p == s.held[n]
            at == price - Slippage
            cost == SaleCost(s, n, price)
            t == Sale(s, n, price, day)
<1>1. n \in Universe
  BY HeldFinite
<1>2. p.qty \in Nat \ {0} /\ p.price \in Nat \ {0} /\ p.cost \in Nat /\ p.day \in Nat
  BY <1>1, PositionsOf
<1>3. at \in Int
  BY BacktestAssumption
<1>4. cost \in Nat
  BY <1>2, <1>3, CostIs DEF SaleCost
<1>5. p.qty * (at - p.price) \in Int
  BY <1>2, <1>3
<1>6. p.qty * (at - p.price) - p.cost - cost \in Int
  BY <1>2, <1>4, <1>5
<1>7. t \in Closed
  BY <1>1, <1>2, <1>6 DEF Closed, Sale
<1>8. Slipped(price, "SELL") = at
  BY DEF Slipped
<1>10. Sell(s, n, price, day) =
              [s EXCEPT !.cash = s.cash + p.qty * at - cost, !.held = [s.held EXCEPT ![n] = Out],
                        !.trades = s.trades \cup {t}]
  BY <1>8 DEF Sell, Simulations, Sale, SaleCost
<1>. HIDE DEF t, cost
<1>. QED
  BY <1>1, <1>2, <1>3, <1>4, <1>7, <1>10 DEF t, cost, Executed

LEMMA SellKeeps ==
  ASSUME NEW D, NEW s \in Simulations(D), NEW n \in Held(s), NEW price \in Int, NEW day \in Nat,
         NEW from \in Nat, NEW upto \in Nat, upto <= from, Balanced(s), Dated(s, from, upto),
         NEW r, r = Sell(s, n, price, day)
  PROVE  /\ r \in Simulations(D) /\ Balanced(r) /\ Dated(r, from, upto)
         /\ r.held[n] = Out /\ \A m \in Universe \ {n} : r.held[m] = s.held[m]
         /\ \A base : Same(s, base, day) => Same(r, base, day)
         /\ Covered(s) /\ Pays(price - Slippage) => Covered(r)
<1>. DEFINE p == s.held[n]
            at == price - Slippage
            cost == SaleCost(s, n, price)
            t == Sale(s, n, price, day)
<1>1. /\ r = [s EXCEPT !.cash = s.cash + p.qty * at - cost, !.held = [s.held EXCEPT ![n] = Out],
                       !.trades = s.trades \cup {t}]
      /\ t \in Closed /\ at \in Int /\ cost \in Nat /\ n \in Universe
      /\ p.qty \in Nat \ {0} /\ p.price \in Nat \ {0} /\ p.cost \in Nat /\ p.day \in Nat
  <2>1. Executed(s, n, price, day)
    BY SellIs
  <2>. QED
    BY <2>1 DEF Executed
<1>0. t.name = n /\ t.from = p.day /\ t.till = day /\ t.net = p.qty * (at - p.price) - p.cost - cost
  BY DEF Sale
<1>. HIDE DEF p, at, cost, t
<1>2. /\ r.cash = s.cash + p.qty * at - cost /\ r.held = [s.held EXCEPT ![n] = Out]
      /\ r.trades = s.trades \cup {t} /\ r.day = s.day /\ r.peak = s.peak /\ r.curve = s.curve
      /\ r.decided = s.decided /\ r.errors = s.errors /\ r.status = s.status
  BY <1>1 DEF Simulations
<1>3. s.held \in [Universe -> Positions] /\ Out \in Positions /\ s.cash \in Int /\ s.trades \in SUBSET Closed
  BY DEF Simulations, Positions
<1>4. r.held[n] = Out /\ \A m \in Universe \ {n} : r.held[m] = s.held[m]
  BY <1>1, <1>2, <1>3
<1>5. Held(r) = Held(s) \ {n}
  BY <1>1, <1>4 DEF Held, Out
<1>6. r \in Simulations(D)
  <2>1. p.qty * at \in Int
    BY <1>1
  <2>2. s.cash + p.qty * at - cost \in Int
    BY <1>1, <1>3, <2>1
  <2>3. [s.held EXCEPT ![n] = Out] \in [Universe -> Positions] /\ s.trades \cup {t} \in SUBSET Closed
    BY <1>1, <1>3
  <2>. QED
    BY <1>1, <2>2, <2>3 DEF Simulations
<1>7. \A m \in Held(r) : m \in Held(s) /\ m # n /\ m \in Universe /\ r.held[m] = s.held[m]
  BY <1>4, <1>5, HeldFinite
<1>8. t \notin s.trades
  <2>1. \A u \in s.trades : u.name = n => u.from < p.day
    BY DEF Dated, p
  <2>. QED
    BY <1>0, <1>1, <2>1
<1>9. Dated(r, from, upto)
  <2>1. \A m \in Held(r) : r.held[m].day <= upto
    BY <1>7 DEF Dated
  <2>2. p.day <= from
    BY <1>1 DEF Dated, p
  <2>3. \A u \in r.trades : u.from <= from
    BY <1>0, <1>2, <2>2 DEF Dated
  <2>4. \A u \in r.trades, m \in Held(r) : u.name = m => u.from < r.held[m].day
    BY <1>0, <1>2, <1>7 DEF Dated
  <2>. QED
    BY <2>1, <2>3, <2>4 DEF Dated
<1>10. Balanced(r)
  <2>1. IsFiniteSet(s.trades) /\ IsFiniteSet(r.trades)
    BY <1>2, FS_AddElement DEF Balanced
  <2>2. SumFunction(Nets(r.trades)) = SumFunction(Nets(s.trades)) + t.net
    <3>1. DOMAIN Nets(r.trades) = DOMAIN Nets(s.trades) \cup {t} /\ DOMAIN Nets(s.trades) = s.trades
          /\ Nets(r.trades)[t] = t.net /\ \A u \in s.trades : Nets(r.trades)[u] = Nets(s.trades)[u]
      BY <1>2 DEF Nets
    <3>2. Whole(Nets(r.trades), r.trades)
      BY <1>1, <1>2, <1>3 DEF Whole, Nets, Closed
    <3>. DEFINE f == Nets(s.trades)
                e == Nets(r.trades)
    <3>3. t \notin DOMAIN f /\ DOMAIN e = DOMAIN f \cup {t} /\ IsFiniteSet(DOMAIN f)
          /\ Whole(e, DOMAIN e) /\ e[t] = t.net /\ \A u \in DOMAIN f : e[u] = f[u]
      BY <1>2, <1>8, <2>1, <3>1, <3>2
    <3>. HIDE DEF f, e
    <3>4. SumFunction(e) = SumFunction(f) + e[t]
      BY <3>3, SumGrows
    <3>. QED
      BY <3>3, <3>4 DEF f, e
  <2>3. SumFunction(Open(s)) = SumFunction(Open(r)) + (p.qty * p.price + p.cost)
    <3>1. DOMAIN Open(s) = DOMAIN Open(r) \cup {n} /\ n \notin DOMAIN Open(r)
          /\ DOMAIN Open(r) = Held(r) /\ DOMAIN Open(s) = Held(s)
      BY <1>5 DEF Open
    <3>2. Open(s)[n] = p.qty * p.price + p.cost
      BY DEF Open, p
    <3>3. \A m \in Held(r) : Open(s)[m] = Open(r)[m]
      BY <1>7 DEF Open
    <3>4. Whole(Open(s), DOMAIN Open(s)) /\ IsFiniteSet(DOMAIN Open(r))
      BY <3>1, HeldFinite, OpenWhole
    <3>. QED
      BY <3>1, <3>2, <3>3, <3>4, SumGrows
  <2>4. SumFunction(Open(r)) \in Int /\ SumFunction(Nets(s.trades)) \in Int
    <3>1. SumFunction(Open(r)) \in Int
      BY <1>6, HeldFinite, OpenWhole, SumInt
    <3>2. DOMAIN Nets(s.trades) = s.trades /\ Whole(Nets(s.trades), s.trades)
      BY <1>3 DEF Nets, Whole, Closed
    <3>. QED
      BY <2>1, <3>1, <3>2, SumInt
  <2>5. p.qty * (at - p.price) = p.qty * at - p.qty * p.price
    BY <1>1
  <2>6. p.qty * at \in Int /\ p.qty * p.price \in Int
    BY <1>1
  <2>7. s.cash + SumFunction(Open(s)) = Stake + SumFunction(Nets(s.trades)) /\ Stake \in Int
    BY BacktestAssumption DEF Balanced
  <2>8. r.cash + SumFunction(Open(r)) = Stake + SumFunction(Nets(r.trades))
    <3>. DEFINE A == p.qty * at
                B == p.qty * p.price
                X == SumFunction(Open(r))
                Y == SumFunction(Nets(s.trades))
    <3>1. r.cash = s.cash + A - cost /\ t.net = A - B - p.cost - cost
      BY <1>0, <1>2, <2>5
    <3>2. \A a, b, x, y, c, k, pc, st \in Int :
             c + (x + (b + pc)) = st + y => (c + a - k) + x = st + (y + (a - b - pc - k))
      OBVIOUS
    <3>. HIDE DEF A, B, X, Y
    <3>3. A \in Int /\ B \in Int /\ X \in Int /\ Y \in Int /\ s.cash \in Int /\ cost \in Int /\ p.cost \in Int
      BY <1>1, <1>3, <2>4, <2>6 DEF A, B, X, Y
    <3>4. s.cash + (X + (B + p.cost)) = Stake + Y
      BY <2>3, <2>7 DEF B, X, Y
    <3>5. (s.cash + A - cost) + X = Stake + (Y + (A - B - p.cost - cost))
      BY <2>7, <3>2, <3>3, <3>4
    <3>. QED
      BY <2>2, <3>1, <3>5 DEF X, Y
  <2>. QED
    BY <2>1, <2>8 DEF Balanced
<1>11. ASSUME NEW base, Same(s, base, day) PROVE Same(r, base, day)
  BY <1>0, <1>2, <1>11 DEF Same
<1>12. ASSUME Covered(s), Pays(at) PROVE Covered(r)
  <2>1. \A m \in Held(r) : Pays(r.held[m].price - Slippage)
    BY <1>7, <1>12 DEF Covered
  <2>2. p.qty * at >= at
    <3>1. \A q \in Nat \ {0}, a \in Nat : q * a >= a
      OBVIOUS
    <3>. QED
      BY <1>1, <1>12, <3>1 DEF Pays
  <2>3. p.qty * at - cost >= 0
    <3>. DEFINE v == p.qty * at
    <3>1. v \in Int /\ v >= at /\ at > 0 /\ at - at \div 20 >= DpCharge /\ DpCharge \in Nat
      BY <1>1, <1>12, <2>2, BacktestAssumption DEF Pays
    <3>2. cost = v \div 20 + DpCharge
      BY <1>1, <3>1 DEF cost, SaleCost, Cost, at, p
    <3>3. \A a, w, d \in Int : w >= a /\ a - a \div 20 >= d => w - (w \div 20 + d) >= 0
      OBVIOUS
    <3>. HIDE DEF v
    <3>4. v - (v \div 20 + DpCharge) >= 0
      BY <1>1, <3>1, <3>3
    <3>. QED
      BY <3>2, <3>4 DEF v
  <2>4. r.cash >= 0
    <3>1. s.cash >= 0 /\ p.qty * at \in Int
      BY <1>1, <1>12 DEF Covered
    <3>. QED
      BY <1>1, <1>2, <1>3, <2>3, <3>1
  <2>. QED
    BY <2>1, <2>4 DEF Covered
<1>. QED
  BY <1>4, <1>6, <1>9, <1>10, <1>11, <1>12 DEF at

(* Shares that are bought can be paid for, with their costs.                  *)
LEMMA QuantityPaid ==
  ASSUME NEW purse \in Int, NEW amount \in Int, NEW price \in Nat \ {0},
         NEW q, q = Quantity(purse, amount, price)
  PROVE  q \in Nat /\ (q > 0 => q * price + Cost("BUY", q, price) <= purse)
<1>. DEFINE whole == (IF amount < purse THEN amount ELSE purse) \div price
            cut == ((99 * purse) \div 100 - Cost("BUY", whole, price)) \div price
            Outlay(k) == k * price + Cost("BUY", k, price)
<1>1. \A a \in Int : a \div price \in Int
  OBVIOUS
<1>2. whole \in Int
  BY <1>1
<1>3. Cost("BUY", whole, price) \in Nat
  BY <1>2, CostIs
<1>4. cut \in Int
  BY <1>1, <1>3
<1>5. q = IF amount <= 0 \/ whole <= 0 THEN 0
          ELSE IF Outlay(whole) <= purse THEN whole
          ELSE IF cut > 0 /\ Outlay(cut) <= purse THEN cut ELSE 0
  BY DEF Quantity
<1>. HIDE DEF whole, cut
<1>. QED
  BY <1>2, <1>4, <1>5

(* An entry: shares and cash change places.                                  *)
LEMMA EnterKeeps ==
  ASSUME Sized, NEW D, NEW s \in Simulations(D), NEW n \in Universe, NEW value \in Int,
         NEW prices \in [Universe -> Nat], NEW day \in Nat, NEW from \in Nat, from < day,
         Balanced(s), Dated(s, from, day), NEW r, r = Enter(s, n, value, prices, day)
  PROVE  /\ r \in Simulations(D) /\ Balanced(r) /\ Dated(r, from, day)
         /\ \A base : Same(s, base, day) => Same(r, base, day)
         /\ Covered(s) /\ (prices[n] > 0 => Pays(prices[n] - Slippage)) => Covered(r)
<1>. DEFINE price == prices[n] + Slippage
            qty == Quantity(s.cash, SizeOf(value), price)
            cost == Cost("BUY", qty, price)
            p == [qty |-> qty, price |-> price, cost |-> cost, day |-> day]
<1>1. CASE s.held[n].qty > 0 \/ prices[n] = 0 \/ qty = 0
  <2>1. r = s
    BY <1>1 DEF Enter, Slipped
  <2>. QED
    BY <2>1
<1>2. CASE ~(s.held[n].qty > 0 \/ prices[n] = 0 \/ qty = 0)
  <2>1. r = [s EXCEPT !.cash = s.cash - qty * price - cost, !.held = [s.held EXCEPT ![n] = p]]
    BY <1>2 DEF Enter, Slipped, Simulations
  <2>2. price \in Nat \ {0} /\ price = prices[n] + Slippage /\ prices[n] \in Nat \ {0} /\ Slippage \in Nat
    BY <1>2, BacktestAssumption
  <2>3. s.cash \in Int /\ SizeOf(value) \in Int /\ s.held \in [Universe -> Positions] /\ s.trades \in SUBSET Closed
    BY DEF Sized, Simulations
  <2>4. qty \in Nat \ {0} /\ qty * price + cost <= s.cash
    <3>1. qty \in Nat /\ (qty > 0 => qty * price + Cost("BUY", qty, price) <= s.cash)
      BY <2>2, <2>3, QuantityPaid
    <3>. QED
      BY <1>2, <3>1
  <2>5. cost \in Nat
    BY <2>2, <2>4, CostIs
  <2>6. n \notin Held(s)
    BY <1>2 DEF Held
  <2>0. p.qty = qty /\ p.price = price /\ p.cost = cost /\ p.day = day
    OBVIOUS
  <2>7. p \in Positions
    BY <2>2, <2>4, <2>5 DEF Positions
  <2>. HIDE DEF p, cost, qty, price
  <2>8. /\ r.cash = s.cash - qty * price - cost /\ r.held = [s.held EXCEPT ![n] = p]
        /\ r.trades = s.trades /\ r.day = s.day /\ r.peak = s.peak /\ r.curve = s.curve
        /\ r.decided = s.decided /\ r.errors = s.errors /\ r.status = s.status
    BY <2>1 DEF Simulations
  <2>9. r.held[n] = p /\ \A m \in Universe \ {n} : r.held[m] = s.held[m]
    BY <2>3, <2>8
  <2>10. Held(r) = Held(s) \cup {n}
    BY <2>0, <2>4, <2>9 DEF Held
  <2>11. qty * price \in Int
    BY <2>2, <2>4
  <2>12. r \in Simulations(D)
    <3>1. s.cash - qty * price - cost \in Int
      BY <2>3, <2>5, <2>11
    <3>2. [s.held EXCEPT ![n] = p] \in [Universe -> Positions]
      BY <2>3, <2>7
    <3>. QED
      BY <2>1, <3>1, <3>2 DEF Simulations
  <2>13. \A m \in Held(s) : m # n /\ m \in Universe /\ r.held[m] = s.held[m]
    BY <2>6, <2>9, HeldFinite
  <2>14. Dated(r, from, day)
    <3>1. \A m \in Held(r) : r.held[m].day <= day
      BY <2>0, <2>9, <2>10, <2>13 DEF Dated
    <3>2. \A t \in r.trades : t.from <= from /\ t.from \in Nat
      BY <2>3, <2>8 DEF Dated, Closed
    <3>3. \A t \in r.trades, m \in Held(r) : t.name = m => t.from < r.held[m].day
      <4>1. ASSUME NEW t \in r.trades, NEW m \in Held(s), t.name = m PROVE t.from < r.held[m].day
        BY <2>8, <2>13, <4>1 DEF Dated
      <4>2. \A t \in r.trades : t.from < r.held[n].day
        BY <2>0, <2>9, <3>2
      <4>. QED
        BY <2>10, <4>1, <4>2
    <3>. QED
      BY <3>1, <3>2, <3>3 DEF Dated
  <2>15. Balanced(r)
    <3>1. SumFunction(Open(r)) = SumFunction(Open(s)) + (qty * price + cost)
      <4>. DEFINE f == Open(s)
                  e == Open(r)
      <4>1. n \notin DOMAIN f /\ DOMAIN e = DOMAIN f \cup {n}
        BY <2>6, <2>10 DEF Open
      <4>2. IsFiniteSet(DOMAIN f) /\ Whole(e, DOMAIN e)
        BY <2>12, HeldFinite, OpenWhole
      <4>3. e[n] = qty * price + cost
        BY <2>0, <2>9, <2>10 DEF Open
      <4>4. \A m \in DOMAIN f : e[m] = f[m]
        BY <2>10, <2>13 DEF Open
      <4>. HIDE DEF e, f
      <4>5. SumFunction(e) = SumFunction(f) + e[n]
        BY <4>1, <4>2, <4>4, SumGrows
      <4>. QED
        BY <4>3, <4>5 DEF e, f
    <3>2. SumFunction(Open(s)) \in Int
      BY HeldFinite, OpenWhole, SumInt
    <3>. DEFINE X == SumFunction(Open(s))
                Y == Stake + SumFunction(Nets(s.trades))
                A == qty * price
    <3>3. s.cash + X = Y /\ r.cash = s.cash - A - cost /\ SumFunction(Open(r)) = X + (A + cost)
      BY <2>8, <3>1 DEF Balanced
    <3>4. X \in Int /\ A \in Int /\ s.cash \in Int /\ cost \in Int
      BY <2>3, <2>5, <2>11, <3>2
    <3>. HIDE DEF X, Y, A
    <3>5. r.cash + SumFunction(Open(r)) = Y
      BY <3>3, <3>4
    <3>. QED
      BY <2>8, <3>5 DEF Balanced, Y
  <2>16. ASSUME NEW base, Same(s, base, day) PROVE Same(r, base, day)
    BY <2>8, <2>16 DEF Same
  <2>17. ASSUME Covered(s), prices[n] > 0 => Pays(prices[n] - Slippage) PROVE Covered(r)
    <3>1. r.cash >= 0
      <4>. DEFINE A == qty * price
      <4>1. A \in Int /\ A + cost <= s.cash /\ r.cash = s.cash - A - cost
        BY <2>4, <2>8, <2>11 DEF cost
      <4>. HIDE DEF A
      <4>. QED
        BY <2>3, <2>5, <4>1
    <3>2. Pays(r.held[n].price - Slippage)
      <4>1. Pays(prices[n] - Slippage)
        BY <2>2, <2>17
      <4>2. \A c, k, d \in Nat : (c - k) > 0 /\ (c - k) - (c - k) \div 20 >= d
                                   => ((c + k) - k) > 0 /\ ((c + k) - k) - ((c + k) - k) \div 20 >= d
        OBVIOUS
      <4>3. r.held[n].price = prices[n] + Slippage /\ DpCharge \in Nat
        BY <2>0, <2>2, <2>9, BacktestAssumption
      <4>. QED
        BY <2>2, <4>1, <4>2, <4>3 DEF Pays
    <3>3. \A m \in Held(s) : Pays(r.held[m].price - Slippage)
      BY <2>13, <2>17 DEF Covered
    <3>. QED
      BY <2>10, <3>1, <3>2, <3>3 DEF Covered
  <2>. QED
    BY <2>12, <2>14, <2>15, <2>16, <2>17
<1>. QED
  BY <1>1, <1>2

-----------------------------------------------------------------------------
(* The loops                                                                 *)

Going(D, s, from, upto, base, day) ==
    s \in Simulations(D) /\ Balanced(s) /\ Dated(s, from, upto) /\ Same(s, base, day)
Priced(prices) == \A n \in Universe : prices[n] > 0 => Pays(prices[n] - Slippage)

LEMMA ExitLoop ==
  ASSUME NEW D, NEW base, NEW d \in Nat, Going(D, base, d, d, base, d + 1),
         NEW prices \in [Universe -> Nat], NEW leaving, leaving \subseteq Held(base),
         NEW g, Folding("exit", [leaving |-> leaving, prices |-> prices, day |-> d + 1], base, 1..Len(Names), g),
         NEW r, r = g[1..Len(Names)]
  PROVE  Going(D, r, d, d, base, d + 1) /\ (Covered(base) /\ Priced(prices) => Covered(r))
<1>. DEFINE N == Len(Names)
            x == [leaving |-> leaving, prices |-> prices, day |-> d + 1]
            P(i) == /\ Going(D, g[1..i], d, d, base, d + 1)
                    /\ Covered(base) /\ Priced(prices) => Covered(g[1..i])
                    /\ \A j \in (i + 1)..N : g[1..i].held[Names[j]] = base.held[Names[j]]
            T == {i \in 0..N : ~P(i)}
<1>1. N \in Nat /\ \A i \in 1..N : Names[i] \in Universe
  BY NamesList
<1>2. g[1..0] = base /\ \A i \in 1..N : g[1..i] = Step("exit", x, g[1..(i - 1)], i)
  <2>1. Folding("exit", x, base, 1..N, g)
    OBVIOUS
  <2>. HIDE DEF x, N
  <2>2. Stepwise("exit", x, base, N, g)
    BY <1>1, <2>1, FoldingSteps
  <2>. QED
    BY <2>2 DEF Stepwise
<1>3. x.leaving = leaving /\ x.prices = prices /\ x.day = d + 1
  OBVIOUS
<1>. HIDE DEF x
<1>4. P(0)
  BY <1>2
<1>5. ASSUME NEW i \in 1..N, P(i - 1) PROVE P(i)
  <2>. DEFINE s == g[1..(i - 1)]
              n == Names[i]
  <2>1. s \in Simulations(D) /\ Balanced(s) /\ Dated(s, d, d) /\ Same(s, base, d + 1) /\ i - 1 \in 0..N
    BY <1>1, <1>5 DEF Going
  <2>2. n \in Universe /\ s.held[n] = base.held[n] /\ i \in ((i - 1) + 1)..N
    BY <1>1, <1>5
  <2>3. g[1..i] = IF n \in leaving THEN Exit(s, n, prices, d + 1) ELSE s
    BY <1>2, <1>3 DEF Step
  <2>4. \A j \in (i + 1)..N : j \in ((i - 1) + 1)..N /\ Names[j] # n /\ Names[j] \in Universe
    BY <1>1, NamesApart
  <2>5. CASE n \notin leaving
    <3>1. g[1..i] = s
      BY <2>3, <2>5
    <3>2. \A j \in (i + 1)..N : g[1..i].held[Names[j]] = base.held[Names[j]]
      BY <1>5, <2>4, <3>1
    <3>. QED
      BY <1>5, <3>1, <3>2
  <2>6. CASE n \in leaving
    <3>. DEFINE price == IF prices[n] = 0 THEN s.held[n].price ELSE prices[n]
    <3>1. n \in Held(s)
      BY <2>2, <2>6 DEF Held
    <3>2. s.held[n].price \in Nat \ {0}
      BY <2>1, <2>2, <3>1, PositionsOf
    <3>3. price \in Int
      BY <2>2, <3>2
    <3>4. g[1..i] = Sell(s, n, price, d + 1)
      BY <2>3, <2>6 DEF Exit
    <3>. DEFINE q == g[1..i]
    <3>. HIDE DEF price, s, n
    <3>5. /\ q \in Simulations(D) /\ Balanced(q) /\ Dated(q, d, d)
          /\ \A m \in Universe \ {n} : q.held[m] = s.held[m]
          /\ \A b : Same(s, b, d + 1) => Same(q, b, d + 1)
          /\ Covered(s) /\ Pays(price - Slippage) => Covered(q)
      <4>1. d + 1 \in Nat /\ d <= d
        OBVIOUS
      <4>. HIDE DEF q
      <4>. QED
        BY <2>1, <3>1, <3>3, <3>4, <4>1, SellKeeps DEF q
    <3>6. ASSUME Covered(s), Priced(prices) PROVE Pays(price - Slippage)
      <4>1. prices[n] \in Nat /\ (prices[n] # 0 => Pays(prices[n] - Slippage))
        BY <2>2, <3>6 DEF Priced
      <4>2. Pays(s.held[n].price - Slippage)
        BY <3>1, <3>6 DEF Covered
      <4>. QED
        BY <4>1, <4>2 DEF price
    <3>7. Covered(base) /\ Priced(prices) => Covered(q)
      BY <1>5, <3>5, <3>6 DEF s
    <3>8. \A j \in (i + 1)..N : q.held[Names[j]] = base.held[Names[j]]
      BY <1>5, <2>4, <3>5 DEF s
    <3>9. Same(q, base, d + 1)
      BY <2>1, <3>5
    <3>. HIDE DEF N
    <3>. QED
      BY <3>5, <3>7, <3>8, <3>9 DEF Going
  <2>. QED
    BY <2>5, <2>6
<1>. HIDE DEF P
<1>6. T = {}
  <2>. SUFFICES ASSUME T # {} PROVE FALSE
    OBVIOUS
  <2>1. T \subseteq Nat
    OBVIOUS
  <2>2. PICK m \in T : \A k \in T : m <= k
    BY <2>1, LeastNatural
  <2>3. m # 0 /\ m \in 0..N
    BY <1>4, <2>2
  <2>4. m - 1 \in 0..N /\ m \in 1..N /\ ~(m <= m - 1)
    BY <1>1, <2>3
  <2>5. P(m - 1)
    BY <2>2, <2>4
  <2>. QED
    BY <1>5, <2>2, <2>4, <2>5
<1>7. P(N)
  BY <1>1, <1>6
<1>. QED
  BY <1>7 DEF P

LEMMA EnterLoop ==
  ASSUME Sized, NEW D, NEW base, NEW d \in Nat, Going(D, base, d, d + 1, base, d + 1),
         NEW prices \in [Universe -> Nat], NEW wanted, NEW value \in Int,
         NEW g, Folding("enter", [wanted |-> wanted, value |-> value, prices |-> prices, day |-> d + 1], base,
                        1..Len(Names), g),
         NEW r, r = g[1..Len(Names)]
  PROVE  Going(D, r, d, d + 1, base, d + 1) /\ (Covered(base) /\ Priced(prices) => Covered(r))
<1>. DEFINE N == Len(Names)
            x == [wanted |-> wanted, value |-> value, prices |-> prices, day |-> d + 1]
            P(i) == /\ Going(D, g[1..i], d, d + 1, base, d + 1)
                    /\ Covered(base) /\ Priced(prices) => Covered(g[1..i])
            T == {i \in 0..N : ~P(i)}
<1>1. N \in Nat /\ \A i \in 1..N : Names[i] \in Universe
  BY NamesList
<1>2. g[1..0] = base /\ \A i \in 1..N : g[1..i] = Step("enter", x, g[1..(i - 1)], i)
  <2>1. Folding("enter", x, base, 1..N, g)
    OBVIOUS
  <2>. HIDE DEF x, N
  <2>2. Stepwise("enter", x, base, N, g)
    BY <1>1, <2>1, FoldingSteps
  <2>. QED
    BY <2>2 DEF Stepwise
<1>3. x.wanted = wanted /\ x.prices = prices /\ x.day = d + 1 /\ x.value = value
  OBVIOUS
<1>. HIDE DEF x
<1>4. P(0)
  BY <1>2
<1>5. ASSUME NEW i \in 1..N, P(i - 1) PROVE P(i)
  <2>. DEFINE s == g[1..(i - 1)]
              n == Names[i]
              q == g[1..i]
  <2>1. s \in Simulations(D) /\ Balanced(s) /\ Dated(s, d, d + 1) /\ Same(s, base, d + 1)
    BY <1>5 DEF Going
  <2>2. n \in Universe
    BY <1>1
  <2>3. q = IF n \in wanted THEN Enter(s, n, value, prices, d + 1) ELSE s
    BY <1>2, <1>3 DEF Step
  <2>4. CASE n \notin wanted
    <3>1. q = s
      BY <2>3, <2>4
    <3>. QED
      BY <1>5, <3>1
  <2>5. CASE n \in wanted
    <3>1. q = Enter(s, n, value, prices, d + 1)
      BY <2>3, <2>5
    <3>. HIDE DEF s, n, q
    <3>2. d + 1 \in Nat /\ d < d + 1
      OBVIOUS
    <3>3. /\ q \in Simulations(D) /\ Balanced(q) /\ Dated(q, d, d + 1)
          /\ \A b : Same(s, b, d + 1) => Same(q, b, d + 1)
          /\ Covered(s) /\ (prices[n] > 0 => Pays(prices[n] - Slippage)) => Covered(q)
      BY <2>1, <2>2, <3>1, <3>2, EnterKeeps
    <3>4. Covered(base) /\ Priced(prices) => Covered(q)
      BY <1>5, <2>2, <3>3 DEF s, Priced
    <3>5. Same(q, base, d + 1)
      BY <2>1, <3>3
    <3>. QED
      BY <3>3, <3>4, <3>5 DEF Going, q
  <2>. QED
    BY <2>4, <2>5
<1>. HIDE DEF P
<1>6. T = {}
  <2>. SUFFICES ASSUME T # {} PROVE FALSE
    OBVIOUS
  <2>1. T \subseteq Nat
    OBVIOUS
  <2>2. PICK m \in T : \A k \in T : m <= k
    BY <2>1, LeastNatural
  <2>3. m # 0 /\ m \in 0..N
    BY <1>4, <2>2
  <2>4. m - 1 \in 0..N /\ m \in 1..N /\ ~(m <= m - 1)
    BY <1>1, <2>3
  <2>5. P(m - 1)
    BY <2>2, <2>4
  <2>. QED
    BY <1>5, <2>2, <2>4, <2>5
<1>7. P(N)
  BY <1>1, <1>6
<1>. QED
  BY <1>7 DEF P

Unsold(s, prices) == \A n \in Held(s) : prices[n] = 0

LEMMA SellLoop ==
  ASSUME NEW D, NEW base, NEW d \in Nat, NEW day \in Nat, Going(D, base, d, d, base, day),
         NEW prices \in [Universe -> Nat],
         NEW g, Folding("sell", [prices |-> prices, day |-> day], base, 1..Len(Names), g),
         NEW r, r = g[1..Len(Names)]
  PROVE  /\ Going(D, r, d, d, base, day) /\ (Covered(base) /\ Priced(prices) => Covered(r))
         /\ Unsold(r, prices)
<1>. DEFINE N == Len(Names)
            x == [prices |-> prices, day |-> day]
            P(i) == /\ Going(D, g[1..i], d, d, base, day)
                    /\ Covered(base) /\ Priced(prices) => Covered(g[1..i])
                    /\ \A j \in 1..i : g[1..i].held[Names[j]].qty = 0 \/ prices[Names[j]] = 0
            T == {i \in 0..N : ~P(i)}
<1>1. N \in Nat /\ \A i \in 1..N : Names[i] \in Universe
  BY NamesList
<1>2. g[1..0] = base /\ \A i \in 1..N : g[1..i] = Step("sell", x, g[1..(i - 1)], i)
  <2>1. Folding("sell", x, base, 1..N, g)
    OBVIOUS
  <2>. HIDE DEF x, N
  <2>2. Stepwise("sell", x, base, N, g)
    BY <1>1, <2>1, FoldingSteps
  <2>. QED
    BY <2>2 DEF Stepwise
<1>3. x.prices = prices /\ x.day = day
  OBVIOUS
<1>. HIDE DEF x
<1>4. P(0)
  BY <1>2
<1>5. ASSUME NEW i \in 1..N, P(i - 1) PROVE P(i)
  <2>. DEFINE s == g[1..(i - 1)]
              n == Names[i]
              q == g[1..i]
  <2>1. s \in Simulations(D) /\ Balanced(s) /\ Dated(s, d, d) /\ Same(s, base, day)
    BY <1>5 DEF Going
  <2>2. n \in Universe
    BY <1>1
  <2>3. q = IF s.held[n].qty = 0 \/ prices[n] = 0 THEN s ELSE Sell(s, n, prices[n], day)
    BY <1>2, <1>3 DEF Step
  <2>4. \A j \in 1..i : j # i => j \in 1..(i - 1) /\ Names[j] # n /\ Names[j] \in Universe
    BY <1>1, NamesApart
  <2>5. CASE s.held[n].qty = 0 \/ prices[n] = 0
    <3>1. q = s
      BY <2>3, <2>5
    <3>2. \A j \in 1..i : q.held[Names[j]].qty = 0 \/ prices[Names[j]] = 0
      <4>1. ASSUME NEW j \in 1..i, j # i PROVE q.held[Names[j]].qty = 0 \/ prices[Names[j]] = 0
        BY <1>5, <2>4, <3>1, <4>1
      <4>. QED
        BY <2>5, <3>1, <4>1
    <3>. QED
      BY <1>5, <3>1, <3>2
  <2>6. CASE ~(s.held[n].qty = 0 \/ prices[n] = 0)
    <3>1. n \in Held(s)
      BY <2>1, <2>2, <2>6, PositionsOf
    <3>2. prices[n] \in Nat /\ prices[n] > 0
      BY <2>2, <2>6
    <3>3. q = Sell(s, n, prices[n], day)
      BY <2>3, <2>6
    <3>. HIDE DEF s, n, q
    <3>4. /\ q \in Simulations(D) /\ Balanced(q) /\ Dated(q, d, d) /\ q.held[n] = Out
          /\ \A m \in Universe \ {n} : q.held[m] = s.held[m]
          /\ \A b : Same(s, b, day) => Same(q, b, day)
          /\ Covered(s) /\ Pays(prices[n] - Slippage) => Covered(q)
      <4>1. d <= d
        OBVIOUS
      <4>. QED
        BY <2>1, <3>1, <3>2, <3>3, <4>1, SellKeeps
    <3>5. Covered(base) /\ Priced(prices) => Covered(q)
      BY <1>5, <2>2, <3>2, <3>4 DEF s, Priced
    <3>6. Same(q, base, day)
      BY <2>1, <3>4
    <3>7. \A j \in 1..i : q.held[Names[j]].qty = 0 \/ prices[Names[j]] = 0
      <4>1. ASSUME NEW j \in 1..i, j # i PROVE q.held[Names[j]].qty = 0 \/ prices[Names[j]] = 0
        BY <1>5, <2>4, <3>4, <4>1 DEF s
      <4>2. q.held[n].qty = 0
        BY <3>4 DEF Out
      <4>. QED
        BY <4>1, <4>2 DEF n
    <3>. QED
      BY <3>4, <3>5, <3>6, <3>7 DEF Going, q
  <2>. QED
    BY <2>5, <2>6
<1>. HIDE DEF P
<1>6. T = {}
  <2>. SUFFICES ASSUME T # {} PROVE FALSE
    OBVIOUS
  <2>1. T \subseteq Nat
    OBVIOUS
  <2>2. PICK m \in T : \A k \in T : m <= k
    BY <2>1, LeastNatural
  <2>3. m # 0 /\ m \in 0..N
    BY <1>4, <2>2
  <2>4. m - 1 \in 0..N /\ m \in 1..N /\ ~(m <= m - 1)
    BY <1>1, <2>3
  <2>5. P(m - 1)
    BY <2>2, <2>4
  <2>. QED
    BY <1>5, <2>2, <2>4, <2>5
<1>7. P(N)
  BY <1>1, <1>6
<1>8. \A n \in Held(r) : prices[n] = 0
  <2>. SUFFICES ASSUME NEW n \in Held(r) PROVE prices[n] = 0
    OBVIOUS
  <2>1. n \in Universe
    BY HeldFinite
  <2>2. PICK j \in 1..N : n = Names[j]
    BY <2>1, NamesList
  <2>3. r.held[n].qty = 0 \/ prices[n] = 0
    BY <1>7, <2>2 DEF P
  <2>4. r.held[n].qty > 0
    BY DEF Held
  <2>. QED
    BY <2>3, <2>4
<1>. QED
  BY <1>7, <1>8 DEF P, Unsold

-----------------------------------------------------------------------------
(* A bar and the end                                                         *)

LEMMA SumOverIs ==
  ASSUME NEW f PROVE SumOver(f, DOMAIN f) = SumFunction(f)
BY DEF SumOver, MapThenSumSet, SumFunction, FoldFunction, FoldFunctionOnSet, SumFunctionOnSet, MapThenFoldSet

LEMMA NetIs ==
  ASSUME NEW T PROVE MapThenSumSet(LAMBDA t : t.net, T) = SumFunction(Nets(T))
<1>. DEFINE F(g) == [s \in SUBSET T |-> IF s = {} THEN 0 ELSE LET x == CHOOSE y \in s : TRUE IN x.net + g[s \ {x}]]
            G(g) == [s \in SUBSET T |-> IF s = {} THEN 0 ELSE LET x == CHOOSE y \in s : TRUE IN Nets(T)[x] + g[s \ {x}]]
<1>1. \A g : F(g) = G(g)
  <2>1. ASSUME NEW s \in SUBSET T, s # {} PROVE (CHOOSE y \in s : TRUE) \in T
    BY <2>1
  <2>. QED
    BY <2>1 DEF Nets
<1>2. (CHOOSE g : g = F(g)) = (CHOOSE g : g = G(g))
  <2>. HIDE DEF F, G
  <2>. QED
    BY <1>1
<1>3. MapThenSumSet(LAMBDA t : t.net, T) = (CHOOSE g : g = F(g))[T]
  BY DEF MapThenSumSet, MapThenFoldSet
<1>4. SumFunction(Nets(T)) = (CHOOSE g : g = G(g))[T]
  <2>1. DOMAIN Nets(T) = T
    BY DEF Nets
  <2>2. SumFunction(Nets(T)) = SumFunctionOnSet(Nets(T), T)
    BY <2>1 DEF SumFunction
  <2>. QED
    BY <2>2 DEF SumFunctionOnSet, FoldFunctionOnSet, MapThenFoldSet
<1>. QED
  BY <1>2, <1>3, <1>4

LEMMA GreaterOf ==
  ASSUME NEW a \in Int, NEW b \in Int PROVE Max({a, b}) \in Int
<1>1. \E x \in {a, b} : \A y \in {a, b} : x >= y
  OBVIOUS
<1>2. Max({a, b}) \in {a, b}
  BY <1>1 DEF Max
<1>. QED
  BY <1>2

LEMMA WorthWhole ==
  ASSUME NEW D, NEW s \in Simulations(D), NEW history \in Seq([Universe -> Nat]), s.day \in 1..Len(history)
  PROVE  Worth(s, history) \in Int /\ Peak(s, history) \in Int
<1>. DEFINE prices == history[s.day]
            f == [n \in Held(s) |-> s.held[n].qty * prices[n]]
<1>1. prices \in [Universe -> Nat]
  OBVIOUS
<1>2. \A n \in Held(s) : f[n] \in Int
  <2>1. ASSUME NEW n \in Held(s) PROVE s.held[n].qty * prices[n] \in Int
    <3>1. n \in Universe /\ s.held[n].qty \in Nat
      BY HeldFinite, PositionsOf
    <3>2. prices[n] \in Nat
      BY <1>1, <3>1
    <3>. HIDE DEF prices
    <3>. QED
      BY <3>1, <3>2
  <2>. QED
    BY <2>1
<1>3. DOMAIN f = Held(s)
  OBVIOUS
<1>4. Worth(s, history) = s.cash + SumOver(f, Held(s))
  BY DEF Worth, Value
<1>. HIDE DEF f
<1>5. SumFunction(f) \in Int
  BY <1>2, <1>3, HeldFinite, SumInt DEF Whole
<1>6. s.cash \in Int /\ s.peak \in Int
  BY DEF Simulations
<1>7. Worth(s, history) \in Int
  BY <1>3, <1>4, <1>5, <1>6, SumOverIs
<1>. QED
  BY <1>6, <1>7, GreaterOf DEF Peak

(* What is known of a simulation between two bars.                            *)
Sound(D, s) ==
    /\ s \in Simulations(D) /\ Balanced(s) /\ Dated(s, s.day, s.day)
    /\ \A t \in s.trades : t.till <= s.day

LEMMA Wider ==
  ASSUME NEW D, NEW E, D \subseteq E, NEW s \in Simulations(D) PROVE s \in Simulations(E)
<1>1. Seq(D) \subseteq Seq(E)
  BY SeqMonotonic
<1>. QED
  BY <1>1 DEF Simulations

LEMMA Marking ==
  ASSUME NEW D, NEW s \in Simulations(D), NEW c \in Seq(Int), NEW p \in Int
  PROVE  [s EXCEPT !.curve = c, !.peak = p] \in Simulations(D)
BY DEF Simulations

LEMMA Deciding ==
  ASSUME NEW D, NEW s \in Simulations(D), NEW c \in Seq(D), NEW e \in Nat, NEW d \in Nat
  PROVE  [s EXCEPT !.decided = c, !.errors = e, !.day = d] \in Simulations(D)
BY DEF Simulations

LEMMA TradeKeeps ==
  ASSUME Sized, NEW D, NEW s, Sound(D, s), NEW history \in Seq([Universe -> Nat]),
         s.day \in 1..(Len(history) - 1), s.status = "running", NEW r, r = Trade(s, history)
  PROVE  \E E :
           /\ Sound(E, r)
           /\ r.curve = Append(s.curve, Worth(s, history)) /\ s.curve \in Seq(Int) /\ Worth(s, history) \in Int
           /\ s.decided \in Seq(E) /\ Decision(s, history) \in E
           /\ IF Halts(s, history)
              THEN r.status = "halted" /\ r.day = s.day /\ r.decided = s.decided /\ r.trades = s.trades
              ELSE /\ r.status = "running" /\ r.day = s.day + 1
                   /\ r.decided = Append(s.decided, Decision(s, history))
                   /\ s.trades \subseteq r.trades /\ \A t \in r.trades \ s.trades : t.till = s.day + 1
           /\ Covered(s) /\ Priced(history[s.day + 1]) => Covered(r)
<1>. DEFINE E == D \cup {Decision(s, history)}
            base == Marked(s, history)
            N == Len(Names)
            d == s.day
            next == history[d + 1]
<1>1. s \in Simulations(D) /\ Balanced(s) /\ Dated(s, d, d) /\ d \in Nat /\ d + 1 \in 1..Len(history)
      /\ \A t \in s.trades : t.till <= d
  BY DEF Sound
<1>2. Worth(s, history) \in Int /\ Peak(s, history) \in Int
  BY <1>1, WorthWhole
<1>3. s.curve \in Seq(Int) /\ s.decided \in Seq(D) /\ s.decided \in Seq(E)
  <2>1. s.curve \in Seq(Int) /\ s.decided \in Seq(D)
    BY <1>1 DEF Simulations
  <2>. QED
    BY <2>1, SeqMonotonic
<1>4. /\ base.curve = Append(s.curve, Worth(s, history)) /\ base.peak = Peak(s, history)
      /\ base.day = d /\ base.cash = s.cash /\ base.held = s.held /\ base.trades = s.trades
      /\ base.decided = s.decided /\ base.errors = s.errors /\ base.status = s.status
  BY <1>1 DEF Marked, Simulations
<1>5. base \in Simulations(E)
  <2>1. Append(s.curve, Worth(s, history)) \in Seq(Int)
    BY <1>2, <1>3
  <2>2. s \in Simulations(E)
    BY <1>1, Wider
  <2>. DEFINE c == Append(s.curve, Worth(s, history))
              p == Peak(s, history)
  <2>3. base = [s EXCEPT !.curve = c, !.peak = p]
    BY <1>1 DEF Marked, Simulations
  <2>. HIDE DEF c, p, base, E
  <2>4. c \in Seq(Int) /\ p \in Int
    BY <1>2, <2>1 DEF c, p
  <2>5. [s EXCEPT !.curve = c, !.peak = p] \in Simulations(E)
    BY ONLY <2>2, <2>4, Marking
  <2>. QED
    BY <2>3, <2>5
<1>6. Held(base) = Held(s) /\ Open(base) = Open(s)
  BY <1>4 DEF Held, Open
<1>7. Balanced(base) /\ Dated(base, d, d) /\ (Covered(s) => Covered(base))
  BY <1>1, <1>4, <1>6 DEF Balanced, Dated, Covered
<1>8. Same(base, base, d + 1)
  BY DEF Same
<1>9. next \in [Universe -> Nat]
  BY <1>1
<1>10. PICK g, h :
           /\ Folding("exit", Exiting(s, history), base, 1..N, g)
           /\ Folding("enter", Entering(s, history), g[1..N], 1..N, h)
           /\ r = IF Halts(s, history) THEN [base EXCEPT !.status = "halted"]
                  ELSE [h[1..N] EXCEPT !.decided = Append(@, Decision(s, history)),
                                       !.errors = IF s.day \in failing THEN @ + 1 ELSE @, !.day = @ + 1]
  <2>1. PICK g, h : Folded(s, history, g, h)
    BY TradeFolds
  <2>. QED
    BY <2>1 DEF Folded
<1>. HIDE DEF base, E
<1>11. CASE Halts(s, history)
  <2>1. r = [base EXCEPT !.status = "halted"]
    BY <1>10, <1>11
  <2>2. /\ r.curve = base.curve /\ r.day = base.day /\ r.cash = base.cash /\ r.held = base.held
        /\ r.trades = base.trades /\ r.decided = base.decided /\ r.status = "halted"
    BY <1>5, <2>1 DEF Simulations
  <2>3. r \in Simulations(E)
    BY <1>5, <2>1 DEF Simulations
  <2>4. Held(r) = Held(base) /\ Open(r) = Open(base)
    BY <2>2 DEF Held, Open
  <2>5. Balanced(r) /\ Dated(r, d, d) /\ (Covered(base) => Covered(r))
    BY <1>7, <2>2, <2>4 DEF Balanced, Dated, Covered
  <2>6. Sound(E, r)
    BY <1>1, <1>4, <2>2, <2>3, <2>5 DEF Sound
  <2>7. Decision(s, history) \in E
    BY DEF E
  <2>. QED
    BY <1>2, <1>3, <1>4, <1>7, <1>11, <2>2, <2>5, <2>6, <2>7
<1>12. CASE ~Halts(s, history)
  <2>. DEFINE q == g[1..N]
              u == h[1..N]
  <2>1. Going(E, base, d, d, base, d + 1)
    BY <1>5, <1>7, <1>8 DEF Going
  <2>2. Leaving(s, history) \subseteq Held(base)
    BY <1>6 DEF Leaving
  <2>3. Going(E, q, d, d, base, d + 1) /\ (Covered(base) /\ Priced(next) => Covered(q))
    <3>1. Folding("exit", [leaving |-> Leaving(s, history), prices |-> next, day |-> d + 1], base, 1..N, g)
      BY <1>10 DEF Exiting
    <3>. DEFINE w == Leaving(s, history)
    <3>2. q = g[1..Len(Names)]
      OBVIOUS
    <3>. HIDE DEF next, d, q, w, N
    <3>3. Folding("exit", [leaving |-> w, prices |-> next, day |-> d + 1], base, 1..Len(Names), g)
      BY <3>1 DEF w, N
    <3>4. d \in Nat /\ w \subseteq Held(base)
      BY <1>1, <2>2 DEF w
    <3>. QED
      BY ONLY <3>4, <1>9, <2>1, <3>2, <3>3, ExitLoop
  <2>4. Going(E, q, d, d + 1, q, d + 1)
    <3>1. Same(q, q, d + 1)
      BY DEF Same
    <3>2. \A k \in Nat : k <= d => k <= d + 1
      BY <1>1
    <3>3. \A n \in Held(q) : q.held[n].day \in Nat
      BY <2>3, HeldFinite, PositionsOf DEF Going
    <3>4. Dated(q, d, d + 1)
      BY <2>3, <3>2, <3>3 DEF Going, Dated
    <3>. QED
      BY <2>3, <3>1, <3>4 DEF Going
  <2>5. Going(E, u, d, d + 1, q, d + 1) /\ (Covered(q) /\ Priced(next) => Covered(u))
    <3>1. Folding("enter", [wanted |-> Wanted(s, history), value |-> Worth(s, history), prices |-> next, day |-> d + 1],
                  q, 1..N, h)
      BY <1>10 DEF Entering
    <3>. DEFINE w == Wanted(s, history)
                v == Worth(s, history)
    <3>2. u = h[1..Len(Names)] /\ v \in Int
      BY <1>2
    <3>. HIDE DEF next, d, q, u, w, v, N
    <3>3. Folding("enter", [wanted |-> w, value |-> v, prices |-> next, day |-> d + 1], q, 1..Len(Names), h)
      BY <3>1 DEF w, v, N
    <3>4. d \in Nat
      BY <1>1
    <3>. QED
      BY ONLY Sized, <3>4, <1>9, <2>4, <3>2, <3>3, EnterLoop
  <2>6. r = [u EXCEPT !.decided = Append(@, Decision(s, history)),
                      !.errors = IF s.day \in failing THEN @ + 1 ELSE @, !.day = @ + 1]
    BY <1>10, <1>12
  <2>7. /\ u.day = d /\ u.curve = base.curve /\ u.decided = s.decided /\ u.status = s.status
        /\ s.trades \subseteq u.trades /\ \A t \in u.trades \ s.trades : t.till = d + 1
    BY <1>4, <2>3, <2>5 DEF Going, Same
  <2>. HIDE DEF u
  <2>8. u \in Simulations(E) /\ Balanced(u) /\ Dated(u, d, d + 1)
    BY <2>5 DEF Going
  <2>9. /\ r.day = d + 1 /\ r.decided = Append(s.decided, Decision(s, history)) /\ r.status = u.status
        /\ r.curve = u.curve /\ r.trades = u.trades /\ r.cash = u.cash /\ r.held = u.held
    BY <2>6, <2>7, <2>8 DEF Simulations
  <2>10. Decision(s, history) \in E
    BY DEF E
  <2>11. r \in Simulations(E)
    <3>1. Append(s.decided, Decision(s, history)) \in Seq(E)
      BY <1>3, <2>10, AppendProperties
    <3>2. u.errors \in Nat
      BY <2>8 DEF Simulations
    <3>3. (IF s.day \in failing THEN u.errors + 1 ELSE u.errors) \in Nat /\ d + 1 \in Nat
      BY <1>1, <3>2
    <3>. DEFINE e == IF s.day \in failing THEN u.errors + 1 ELSE u.errors
    <3>. DEFINE c == Append(s.decided, Decision(s, history))
                y == d + 1
    <3>4. r = [u EXCEPT !.decided = c, !.errors = e, !.day = y]
      BY <2>6, <2>7, <2>8 DEF Simulations
    <3>. HIDE DEF e, c, y
    <3>5. e \in Nat /\ c \in Seq(E) /\ y \in Nat /\ u \in Simulations(E)
      BY <2>8, <3>1, <3>3 DEF e, c, y
    <3>6. [u EXCEPT !.decided = c, !.errors = e, !.day = y] \in Simulations(E)
      BY ONLY <3>5, Deciding
    <3>. QED
      BY <3>4, <3>6
  <2>12. Held(r) = Held(u) /\ Open(r) = Open(u)
    BY <2>9 DEF Held, Open
  <2>13. \A t \in u.trades : t.from \in Nat /\ t.till \in Nat
    BY <2>8 DEF Simulations, Closed
  <2>14. Dated(r, d + 1, d + 1)
    <3>1. \A t \in r.trades : t.from <= d + 1
      BY <1>1, <2>8, <2>9, <2>13 DEF Dated
    <3>. QED
      BY <2>8, <2>9, <2>12, <3>1 DEF Dated
  <2>15. Balanced(r) /\ (Covered(u) => Covered(r))
    BY <2>8, <2>9, <2>12 DEF Balanced, Covered
  <2>16. \A t \in r.trades : t.till <= d + 1
    <3>1. \A t \in s.trades : t.till <= d
      BY <1>1
    <3>. QED
      BY <1>1, <2>7, <2>9, <2>13, <3>1
  <2>17. Sound(E, r)
    BY <2>9, <2>11, <2>14, <2>15, <2>16 DEF Sound
  <2>18. Covered(s) /\ Priced(next) => Covered(r)
    BY <1>7, <2>3, <2>5, <2>15
  <2>. QED
    BY <1>2, <1>3, <1>4, <1>12, <2>7, <2>9, <2>10, <2>17, <2>18
<1>. QED
  BY <1>11, <1>12

LEMMA Ending ==
  ASSUME NEW D, NEW s \in Simulations(D), NEW c \in Seq(Int), NEW d \in Nat, NEW e \in {"invalid", "done"}
  PROVE  [s EXCEPT !.curve = c, !.day = d, !.status = e] \in Simulations(D)
BY DEF Simulations

(* The end of a run, on this day.                                            *)
Ended(D, s, history, day, r) ==
    /\ Sound(D, r) /\ r.curve = Append(s.curve, r.cash) /\ r.cash \in Int /\ s.curve \in Seq(Int)
    /\ r.decided = s.decided /\ r.status \in {"invalid", "done"} /\ r.day = day
    /\ s.trades \subseteq r.trades /\ \A t \in r.trades \ s.trades : t.till = day
    /\ Unsold(r, history[day])
    /\ Covered(s) /\ Priced(history[day]) => Covered(r)

LEMMA LiquidateKeeps ==
  ASSUME NEW D, NEW s, Sound(D, s), NEW history \in Seq([Universe -> Nat]),
         NEW day, day = LiquidationDay(s), day \in 1..Len(history), s.day <= day,
         NEW r, r = Liquidate(s, history)
  PROVE  Ended(D, s, history, day, r)
<1>. DEFINE d == s.day
            N == Len(Names)
            prices == history[day]
<1>0. d \in Nat /\ day \in Nat
  <2>1. Len(history) \in Nat
    OBVIOUS
  <2>. QED
    BY <2>1 DEF Sound, Simulations
<1>1. s \in Simulations(D) /\ Balanced(s) /\ Dated(s, d, d) /\ d \in Nat /\ d <= day /\ day \in Nat
      /\ \A t \in s.trades : t.till <= d
  BY <1>0 DEF Sound
<1>2. PICK g : Sold(s, history, g)
  BY SaleFolds
<1>. DEFINE u == g[1..N]
<1>3. prices \in [Universe -> Nat]
  OBVIOUS
<1>4. Going(D, u, d, d, s, day) /\ (Covered(s) /\ Priced(prices) => Covered(u)) /\ Unsold(u, prices)
  <2>1. Folding("sell", [prices |-> prices, day |-> day], s, 1..Len(Names), g)
    BY <1>2 DEF Sold
  <2>2. Same(s, s, day)
    BY DEF Same
  <2>3. Going(D, s, d, d, s, day) /\ d \in Nat /\ u = g[1..Len(Names)]
    BY <1>1, <2>2 DEF Going
  <2>. HIDE DEF prices, d, u, N
  <2>. QED
    BY ONLY <1>0, <1>3, <2>1, <2>3, SellLoop
<1>. DEFINE e == IF s.errors > MaxErrors THEN "invalid" ELSE "done"
            c == Append(u.curve, u.cash)
<1>5. r = [u EXCEPT !.curve = Append(@, u.cash), !.day = day, !.status = e]
  BY <1>2 DEF Sold
<1>. HIDE DEF u, d, prices
<1>6. /\ u \in Simulations(D) /\ Balanced(u) /\ Dated(u, d, d) /\ u.curve = s.curve /\ u.decided = s.decided
      /\ s.trades \subseteq u.trades /\ \A t \in u.trades \ s.trades : t.till = day
  BY <1>4 DEF Going, Same
<1>7. r = [u EXCEPT !.curve = c, !.day = day, !.status = e]
  BY <1>5, <1>6 DEF Simulations
<1>8. u.cash \in Int /\ s.curve \in Seq(Int) /\ c \in Seq(Int) /\ e \in {"invalid", "done"}
  BY <1>6 DEF Simulations
<1>9. c = Append(s.curve, u.cash)
  BY <1>6
<1>. HIDE DEF e, c
<1>10. r \in Simulations(D)
  <2>1. [u EXCEPT !.curve = c, !.day = day, !.status = e] \in Simulations(D)
    BY ONLY <1>1, <1>6, <1>8, Ending
  <2>. QED
    BY <1>7, <2>1
<1>11. /\ r.curve = c /\ r.day = day /\ r.status = e /\ r.trades = u.trades /\ r.cash = u.cash
       /\ r.held = u.held /\ r.decided = u.decided
  BY <1>6, <1>7 DEF Simulations
<1>12. Held(r) = Held(u) /\ Open(r) = Open(u)
  BY <1>11 DEF Held, Open
<1>13. \A t \in u.trades : t.from \in Nat /\ t.till \in Nat
  BY <1>6 DEF Simulations, Closed
<1>14. Dated(r, day, day)
  <2>1. \A n \in Held(u) : u.held[n].day \in Nat
    BY <1>6, HeldFinite, PositionsOf
  <2>2. \A k \in Nat : k <= d => k <= day
    BY <1>1
  <2>. QED
    BY <1>6, <1>11, <1>12, <1>13, <2>1, <2>2 DEF Dated
<1>15. Balanced(r) /\ (Covered(u) => Covered(r))
  BY <1>6, <1>11, <1>12 DEF Balanced, Covered
<1>16. \A t \in r.trades : t.till <= day
  <2>1. \A t \in s.trades : t.till <= day
    <3>1. \A t \in s.trades : t.till \in Nat
      BY <1>6, <1>13
    <3>. QED
      BY <1>1, <3>1
  <2>2. \A t \in u.trades \ s.trades : t.till <= day
    BY <1>1, <1>6
  <2>. QED
    BY <1>11, <2>1, <2>2
<1>17. Sound(D, r)
  BY <1>10, <1>11, <1>14, <1>15, <1>16 DEF Sound
<1>. QED
  BY <1>4, <1>6, <1>8, <1>9, <1>11, <1>12, <1>15, <1>17 DEF prices, Unsold, Ended

(* A simulation between two bars, on the history of its lane.                  *)
Fit(l, s) ==
    /\ \E D : Sound(D, s)
    /\ s.day \in first..LastDay
    /\ s.status = "running" => Len(s.curve) = s.day - first /\ Len(s.decided) = s.day - first
    /\ s.status = "halted" => Len(s.curve) = s.day - first + 1 /\ s.day < LastDay
    /\ s.status \in {"invalid", "done"} => Last(s.curve) = s.cash /\ Unsold(s, closes[l][s.day])

LEMMA Days ==
  ASSUME Histories
  PROVE  /\ LastDay \in Nat /\ first \in 1..LastDay
         /\ \A l \in Lanes : closes[l] \in Seq([Universe -> Nat]) /\ Len(closes[l]) = LastDay
<1>1. (CHOOSE l \in Lanes : TRUE) \in Lanes
  BY BacktestAssumption
<1>2. \A l \in Lanes : closes[l] \in Seq([Universe -> Nat]) /\ Len(closes[l]) \in Nat
  BY DEF Histories
<1>3. \A l \in Lanes : Len(closes[l]) = LastDay
  BY <1>1 DEF Histories, LastDay
<1>. QED
  BY <1>1, <1>2, <1>3 DEF Histories

LEMMA Statuses ==
  ASSUME NEW D, NEW s, Sound(D, s)
  PROVE  /\ s.status \in {"running", "halted", "done", "invalid"} /\ s.day \in Nat
         /\ s.curve \in Seq(Int) /\ s.decided \in Seq(D) /\ s.cash \in Int
BY DEF Sound, Simulations

LEMMA Priceable ==
  ASSUME Histories, SalesPay, NEW l \in Lanes, NEW d \in 1..LastDay PROVE Priced(closes[l][d])
BY DEF SalesPay, Priced

LEMMA AdvanceKeeps ==
  ASSUME Sized, Histories, NEW l \in Lanes, NEW s, Fit(l, s), NEW r, r = Advance(s, closes[l])
  PROVE  Fit(l, r) /\ (SalesPay /\ Covered(s) => Covered(r))
<1>. DEFINE history == closes[l]
<1>0. PICK D : Sound(D, s)
  BY DEF Fit
<1>1. /\ LastDay \in Nat /\ first \in Nat /\ first >= 1 /\ first <= LastDay
      /\ history \in Seq([Universe -> Nat]) /\ Len(history) = LastDay
  BY Days
<1>2. /\ s.status \in {"running", "halted", "done", "invalid"} /\ s.day \in Nat
      /\ s.day >= first /\ s.day <= LastDay /\ s.curve \in Seq(Int) /\ s.decided \in Seq(D)
  BY <1>0, <1>1, Statuses DEF Fit
<1>. HIDE DEF history
<1>3. CASE s.status = "running" /\ s.day < LastDay
  <2>1. r = Trade(s, history)
    BY <1>3 DEF Advance, history
  <2>2. s.day \in 1..(Len(history) - 1) /\ s.day + 1 \in 1..LastDay
    BY <1>1, <1>2, <1>3
  <2>3. PICK E :
           /\ Sound(E, r)
           /\ r.curve = Append(s.curve, Worth(s, history)) /\ s.curve \in Seq(Int) /\ Worth(s, history) \in Int
           /\ s.decided \in Seq(E) /\ Decision(s, history) \in E
           /\ IF Halts(s, history)
              THEN r.status = "halted" /\ r.day = s.day /\ r.decided = s.decided /\ r.trades = s.trades
              ELSE /\ r.status = "running" /\ r.day = s.day + 1
                   /\ r.decided = Append(s.decided, Decision(s, history))
                   /\ s.trades \subseteq r.trades /\ \A t \in r.trades \ s.trades : t.till = s.day + 1
           /\ Covered(s) /\ Priced(history[s.day + 1]) => Covered(r)
    BY <1>0, <1>1, <1>3, <2>1, <2>2, TradeKeeps
  <2>4. Len(r.curve) = s.day - first + 1
    BY <1>3, <2>3 DEF Fit
  <2>5. SalesPay /\ Covered(s) => Covered(r)
    BY <2>2, <2>3, Priceable DEF history
  <2>6. CASE Halts(s, history)
    BY <1>1, <1>2, <1>3, <2>3, <2>4, <2>5, <2>6 DEF Fit
  <2>7. CASE ~Halts(s, history)
    <3>1. Len(r.decided) = s.day - first + 1
      BY <1>3, <2>3, <2>7 DEF Fit
    <3>. QED
      BY <1>1, <1>2, <1>3, <2>3, <2>4, <2>5, <2>7, <3>1 DEF Fit
  <2>. QED
    BY <2>6, <2>7
<1>4. CASE s.status \in {"running", "halted"} /\ ~(s.status = "running" /\ s.day < LastDay)
  <2>. DEFINE day == LiquidationDay(s)
  <2>1. r = Liquidate(s, history)
    BY <1>4 DEF Advance, history
  <2>2. day \in 1..LastDay /\ s.day <= day
    BY <1>1, <1>2, <1>4 DEF LiquidationDay, Fit
  <2>. HIDE DEF day
  <2>3. Ended(D, s, history, day, r)
    <3>1. day = LiquidationDay(s) /\ day \in 1..Len(history) /\ history \in Seq([Universe -> Nat]) /\ s.day <= day
      BY <1>1, <2>2 DEF day
    <3>. QED
      BY ONLY <1>0, <2>1, <3>1, LiquidateKeeps
  <2>4. Last(r.curve) = r.cash
    BY <2>3 DEF Last, Ended
  <2>5. SalesPay /\ Covered(s) => Covered(r)
    BY <2>2, <2>3, Priceable DEF history, Ended
  <2>6. day \in first..LastDay
    BY <1>1, <1>2, <2>2
  <2>. QED
    BY <2>3, <2>4, <2>5, <2>6 DEF Fit, history, Ended
<1>5. CASE s.status \notin {"running", "halted"}
  <2>1. r = s
    BY <1>5 DEF Advance
  <2>. QED
    BY <2>1
<1>. QED
  BY <1>3, <1>4, <1>5

(* What two simulations may have in common, and what is past it.              *)
Past(s) == <<Prefix(s.decided, Common - first + 1), Prefix(s.curve, Common - first + 1),
             {t \in s.trades : t.till <= Common}>>
Beyond(s) ==
    /\ Len(s.curve) >= Common - first + 1
    /\ s.status = "running" => s.day > Common
    /\ s.status = "halted" => s.day >= Common
    /\ s.status \in {"invalid", "done"} => s.day > Common

LEMMA CommonIs ==
  ASSUME Histories
  PROVE  /\ Common \in 0..LastDay
         /\ \A d \in 1..Common, l, k \in Lanes : closes[l][d] = closes[k][d]
<1>. DEFINE S == {d \in 1..LastDay : \A e \in 1..d, l, k \in Lanes : closes[l][e] = closes[k][e]}
            T == {0} \cup S
<1>1. T \in SUBSET (0..LastDay) /\ T # {} /\ LastDay \in Nat
  BY Days
<1>2. Max(T) \in T
  <2>. HIDE DEF T
  <2>. QED
    BY <1>1, GreatestBelow
<1>3. Common = Max(T)
  BY DEF Common
<1>4. CASE Common = 0
  BY <1>1, <1>4
<1>5. CASE Common # 0
  <2>1. Common \in S
    BY <1>2, <1>3, <1>5
  <2>. QED
    BY <1>1, <1>2, <1>3, <2>1
<1>. QED
  BY <1>4, <1>5

LEMMA PrefixAppend ==
  ASSUME NEW D, NEW c \in Seq(D), NEW e \in D, NEW n \in Int, n <= Len(c)
  PROVE  Prefix(Append(c, e), n) = Prefix(c, n)
<1>1. Len(c) \in Nat /\ Append(c, e) \in Seq(D) /\ Len(Append(c, e)) = Len(c) + 1
      /\ \A i \in 1..Len(c) : Append(c, e)[i] = c[i]
  BY AppendProperties
<1>2. Prefix(Append(c, e), n) = SubSeq(Append(c, e), 1, n)
  BY <1>1 DEF Prefix
<1>3. Prefix(c, n) = SubSeq(c, 1, n)
  BY <1>1 DEF Prefix
<1>4. SubSeq(Append(c, e), 1, n) = SubSeq(c, 1, n)
  <2>1. \A i \in 1..n : Append(c, e)[i] = c[i]
    BY <1>1
  <2>2. SubSeq(Append(c, e), 1, n) \in Seq(D) /\ SubSeq(c, 1, n) \in Seq(D)
    BY <1>1
  <2>3. Len(SubSeq(Append(c, e), 1, n)) = Len(SubSeq(c, 1, n))
    BY <1>1
  <2>4. \A i \in 1..Len(SubSeq(c, 1, n)) : SubSeq(Append(c, e), 1, n)[i] = SubSeq(c, 1, n)[i]
    BY <1>1, <2>1
  <2>. QED
    BY <2>2, <2>3, <2>4, SeqEqual
<1>. QED
  BY <1>2, <1>3, <1>4

LEMMA TradesSince ==
  ASSUME NEW D, NEW s, NEW r, NEW D2, Sound(D, s), Sound(D2, r), NEW c \in Int, NEW day \in Nat, day > c,
         s.trades \subseteq r.trades, \A t \in r.trades \ s.trades : t.till = day
  PROVE  {t \in r.trades : t.till <= c} = {t \in s.trades : t.till <= c}
<1>1. \A t \in r.trades : t.till <= c => t \in s.trades
  OBVIOUS
<1>. QED
  BY <1>1

LEMMA BeyondKeeps ==
  ASSUME Sized, Histories, NEW l \in Lanes, NEW s, Fit(l, s), Beyond(s),
         NEW r, r = Advance(s, closes[l])
  PROVE  Past(r) = Past(s) /\ Beyond(r)
<1>. DEFINE history == closes[l]
            c == Common
            m == c - first + 1
<1>0. PICK D : Sound(D, s)
  BY DEF Fit
<1>1. /\ LastDay \in Nat /\ first \in Nat /\ first >= 1 /\ first <= LastDay
      /\ history \in Seq([Universe -> Nat]) /\ Len(history) = LastDay /\ c \in Int /\ m \in Int
  BY Days, CommonIs
<1>2. /\ s.status \in {"running", "halted", "done", "invalid"} /\ s.day \in Nat
      /\ s.day >= first /\ s.day <= LastDay /\ s.curve \in Seq(Int) /\ s.decided \in Seq(D)
  BY <1>0, <1>1, Statuses DEF Fit
<1>3. Len(s.curve) >= m
  BY DEF Beyond
<1>. HIDE DEF history, c, m
<1>4. CASE s.status = "running" /\ s.day < LastDay
  <2>1. r = Trade(s, history)
    BY <1>4 DEF Advance, history
  <2>2. s.day \in 1..(Len(history) - 1) /\ s.day > c
    BY <1>1, <1>2, <1>4 DEF Beyond, c
  <2>3. PICK E :
           /\ Sound(E, r)
           /\ r.curve = Append(s.curve, Worth(s, history)) /\ s.curve \in Seq(Int) /\ Worth(s, history) \in Int
           /\ s.decided \in Seq(E) /\ Decision(s, history) \in E
           /\ IF Halts(s, history)
              THEN r.status = "halted" /\ r.day = s.day /\ r.decided = s.decided /\ r.trades = s.trades
              ELSE /\ r.status = "running" /\ r.day = s.day + 1
                   /\ r.decided = Append(s.decided, Decision(s, history))
                   /\ s.trades \subseteq r.trades /\ \A t \in r.trades \ s.trades : t.till = s.day + 1
           /\ Covered(s) /\ Priced(history[s.day + 1]) => Covered(r)
    BY <1>0, <1>1, <1>4, <2>1, <2>2, TradeKeeps
  <2>4. Prefix(r.curve, m) = Prefix(s.curve, m) /\ Len(r.curve) >= m
    <3>1. Len(r.curve) = Len(s.curve) + 1
      BY <2>3
    <3>. QED
      BY <1>1, <1>3, <2>3, <3>1, PrefixAppend
  <2>5. Len(s.decided) >= m
    BY <1>1, <1>2, <1>4, <2>2 DEF Fit, m
  <2>6. Prefix(r.decided, m) = Prefix(s.decided, m)
    <3>1. r.decided = s.decided \/ r.decided = Append(s.decided, Decision(s, history))
      BY <2>3
    <3>2. Prefix(Append(s.decided, Decision(s, history)), m) = Prefix(s.decided, m)
      BY <1>1, <2>3, <2>5, PrefixAppend
    <3>. QED
      BY <3>1, <3>2
  <2>7. {t \in r.trades : t.till <= c} = {t \in s.trades : t.till <= c}
    <3>1. CASE Halts(s, history)
      BY <2>3, <3>1
    <3>2. CASE ~Halts(s, history)
      <4>1. s.day + 1 \in Nat /\ s.day + 1 > c
        BY <1>1, <1>2, <2>2
      <4>2. s.trades \subseteq r.trades /\ \A t \in r.trades \ s.trades : t.till = s.day + 1
        BY <2>3, <3>2
      <4>. QED
        BY <1>0, <1>1, <2>3, <4>1, <4>2, TradesSince
    <3>. QED
      BY <3>1, <3>2
  <2>8. (r.status = "halted" /\ r.day = s.day) \/ (r.status = "running" /\ r.day = s.day + 1)
    BY <2>3
  <2>9. Beyond(r)
    BY <1>1, <1>2, <2>2, <2>4, <2>8 DEF Beyond, m, c
  <2>. QED
    BY <2>4, <2>6, <2>7, <2>9 DEF Past, m, c
<1>5. CASE s.status \in {"running", "halted"} /\ ~(s.status = "running" /\ s.day < LastDay)
  <2>. DEFINE day == LiquidationDay(s)
  <2>1. r = Liquidate(s, history)
    BY <1>5 DEF Advance, history
  <2>2. day \in 1..LastDay /\ s.day <= day /\ day \in Nat
    BY <1>1, <1>2, <1>5 DEF LiquidationDay, Fit
  <2>3. day > c
    BY <1>1, <1>2, <1>5 DEF LiquidationDay, Fit, Beyond, c
  <2>. HIDE DEF day
  <2>4. Ended(D, s, history, day, r)
    <3>1. day = LiquidationDay(s) /\ day \in 1..Len(history) /\ history \in Seq([Universe -> Nat]) /\ s.day <= day
      BY <1>1, <2>2 DEF day
    <3>. QED
      BY ONLY <1>0, <2>1, <3>1, LiquidateKeeps
  <2>5. Prefix(r.curve, m) = Prefix(s.curve, m) /\ Len(r.curve) >= m
    <3>0. r.curve = Append(s.curve, r.cash) /\ r.cash \in Int
      BY <2>4 DEF Ended
    <3>1. Len(r.curve) = Len(s.curve) + 1
      BY <1>2, <3>0
    <3>. QED
      BY <1>1, <1>2, <1>3, <3>0, <3>1, PrefixAppend
  <2>6. {t \in r.trades : t.till <= c} = {t \in s.trades : t.till <= c}
    <3>1. s.trades \subseteq r.trades /\ (\A t \in r.trades \ s.trades : t.till = day) /\ Sound(D, r)
      BY <2>4 DEF Ended
    <3>. QED
      BY <1>0, <1>1, <2>2, <2>3, <3>1, TradesSince
  <2>7. r.status \in {"invalid", "done"} /\ r.day = day /\ r.decided = s.decided
    BY <2>4 DEF Ended
  <2>8. Beyond(r)
    BY <2>3, <2>5, <2>7 DEF Beyond, m, c
  <2>. QED
    BY <2>5, <2>6, <2>7, <2>8 DEF Past, m, c
<1>6. CASE s.status \notin {"running", "halted"}
  <2>1. r = s
    BY <1>6 DEF Advance
  <2>. QED
    BY <2>1
<1>. QED
  BY <1>4, <1>5, <1>6

(* What a bar looks at.                                                      *)
Seeing(h, e, day) ==
    h[day] = e[day] /\ Features(h, day) = Features(e, day) /\ MarketData(h, day) = MarketData(e, day)

LEMMA SeenTheSame ==
  ASSUME NEW s, NEW h, NEW e, Seeing(h, e, s.day)
  PROVE  /\ Worth(s, h) = Worth(s, e) /\ Peak(s, h) = Peak(s, e) /\ Marked(s, h) = Marked(s, e)
         /\ Leaving(s, h) = Leaving(s, e) /\ Wanted(s, h) = Wanted(s, e)
         /\ Decision(s, h) = Decision(s, e) /\ (Halts(s, h) <=> Halts(s, e))
<1>1. Worth(s, h) = Worth(s, e)
  BY DEF Seeing, Worth
<1>2. Peak(s, h) = Peak(s, e)
  BY <1>1 DEF Peak
<1>3. Marked(s, h) = Marked(s, e)
  BY <1>1, <1>2 DEF Marked
<1>4. Leaving(s, h) = Leaving(s, e)
  BY DEF Seeing, Leaving
<1>5. Wanted(s, h) = Wanted(s, e)
  BY DEF Seeing, Wanted
<1>. QED
  BY <1>1, <1>2, <1>3, <1>4, <1>5 DEF Decision, Halts

LEMMA FoldingSame ==
  ASSUME NEW kind, NEW x, NEW base, NEW g, NEW h,
         Folding(kind, x, base, 1..Len(Names), g), Folding(kind, x, base, 1..Len(Names), h)
  PROVE  g[1..Len(Names)] = h[1..Len(Names)]
<1>. DEFINE n == Len(Names)
            S == 1..n
<1>1. n \in Nat /\ Indices(n, S) /\ S \subseteq S
  BY NamesList DEF Indices
<1>2. Folding(kind, x, base, S, g) /\ Folding(kind, x, base, S, h)
  OBVIOUS
<1>3. g[S] = h[S]
  <2>. HIDE DEF n, S
  <2>. QED
    BY ONLY <1>1, <1>2, FoldingUnique
<1>. QED
  BY <1>3

LEMMA TradeAgrees ==
  ASSUME NEW s, NEW h, NEW e, Seeing(h, e, s.day), h[s.day + 1] = e[s.day + 1]
  PROVE  Trade(s, h) = Trade(s, e)
<1>1. PICK g1, g2 : Folded(s, h, g1, g2)
  BY TradeFolds
<1>2. PICK f1, f2 : Folded(s, e, f1, f2)
  BY TradeFolds
<1>3. /\ Worth(s, h) = Worth(s, e) /\ Marked(s, h) = Marked(s, e)
      /\ Leaving(s, h) = Leaving(s, e) /\ Wanted(s, h) = Wanted(s, e)
      /\ Decision(s, h) = Decision(s, e) /\ (Halts(s, h) <=> Halts(s, e))
  BY SeenTheSame
<1>4. Exiting(s, h) = Exiting(s, e) /\ Entering(s, h) = Entering(s, e)
  BY <1>3 DEF Exiting, Entering
<1>5. g1[1..Len(Names)] = f1[1..Len(Names)]
  <2>1. Folding("exit", Exiting(s, e), Marked(s, e), 1..Len(Names), g1)
    BY <1>1, <1>3, <1>4 DEF Folded
  <2>2. Folding("exit", Exiting(s, e), Marked(s, e), 1..Len(Names), f1)
    BY <1>2 DEF Folded
  <2>. QED
    BY ONLY <2>1, <2>2, FoldingSame
<1>6. g2[1..Len(Names)] = f2[1..Len(Names)]
  <2>. DEFINE b == f1[1..Len(Names)]
  <2>1. Folding("enter", Entering(s, e), b, 1..Len(Names), g2)
    BY <1>1, <1>4, <1>5 DEF Folded
  <2>2. Folding("enter", Entering(s, e), b, 1..Len(Names), f2)
    BY <1>2 DEF Folded
  <2>. HIDE DEF b
  <2>. QED
    BY ONLY <2>1, <2>2, FoldingSame
<1>. QED
  BY <1>1, <1>2, <1>3, <1>6 DEF Folded

LEMMA LiquidateAgrees ==
  ASSUME NEW s, NEW h, NEW e, h[LiquidationDay(s)] = e[LiquidationDay(s)]
  PROVE  Liquidate(s, h) = Liquidate(s, e)
<1>1. PICK g : Sold(s, h, g)
  BY SaleFolds
<1>2. PICK f : Sold(s, e, f)
  BY SaleFolds
<1>3. g[1..Len(Names)] = f[1..Len(Names)]
  <2>. DEFINE x == [prices |-> e[LiquidationDay(s)], day |-> LiquidationDay(s)]
  <2>1. Folding("sell", x, s, 1..Len(Names), g) /\ Folding("sell", x, s, 1..Len(Names), f)
    BY <1>1, <1>2 DEF Sold
  <2>. HIDE DEF x
  <2>. QED
    BY ONLY <2>1, FoldingSame
<1>. QED
  BY <1>1, <1>2, <1>3 DEF Sold

LEMMA ShownTheSame ==
  ASSUME NEW D, NEW h \in Seq(D), NEW e \in Seq(D), NEW n \in Nat, n <= Len(h), n <= Len(e),
         \A i \in 1..n : h[i] = e[i]
  PROVE  SubSeq(h, 1, n) = SubSeq(e, 1, n)
<1>1. SubSeq(h, 1, n) \in Seq(D) /\ SubSeq(e, 1, n) \in Seq(D)
  OBVIOUS
<1>2. Len(SubSeq(h, 1, n)) = Len(SubSeq(e, 1, n))
  OBVIOUS
<1>3. \A i \in 1..Len(SubSeq(h, 1, n)) : SubSeq(h, 1, n)[i] = SubSeq(e, 1, n)[i]
  OBVIOUS
<1>. QED
  BY <1>1, <1>2, <1>3, SeqEqual

LEMMA SeesTheSame ==
  ASSUME Histories, NEW l \in Lanes, NEW k \in Lanes, NEW day \in first..LastDay, day <= Common
  PROVE  Seeing(closes[l], closes[k], day)
<1>1. /\ LastDay \in Nat /\ first \in 1..LastDay /\ Common \in 0..LastDay /\ day \in 1..LastDay
      /\ closes[l] \in Seq([Universe -> Nat]) /\ Len(closes[l]) = LastDay
      /\ closes[k] \in Seq([Universe -> Nat]) /\ Len(closes[k]) = LastDay
  BY Days, CommonIs
<1>2. \A d \in 1..day : closes[l][d] = closes[k][d]
  BY <1>1, CommonIs
<1>. DEFINE h == closes[l]
            e == closes[k]
            D == [Universe -> Nat]
            m == day - first + 1
<1>3. h \in Seq(D) /\ e \in Seq(D) /\ day \in Nat /\ day <= Len(h) /\ day <= Len(e)
  BY <1>1
<1>4. m \in Nat /\ m <= Len(h) /\ m <= Len(e) /\ \A d \in 1..m : h[d] = e[d]
  BY <1>1, <1>2
<1>5. \A d \in 1..day : h[d] = e[d]
  BY <1>2
<1>. HIDE DEF h, e, D, m
<1>6. SubSeq(h, 1, day) = SubSeq(e, 1, day)
  BY ONLY <1>3, <1>5, ShownTheSame
<1>7. SubSeq(h, 1, m) = SubSeq(e, 1, m)
  BY ONLY <1>3, <1>4, ShownTheSame
<1>8. h[day] = e[day]
  BY <1>1, <1>5
<1>. QED
  BY <1>6, <1>7, <1>8 DEF Seeing, Features, MarketData, h, e, m

(* Two simulations that are the same stay so, or are past what they share.      *)
LEMMA Together ==
  ASSUME Sized, Histories, NEW l \in Lanes, NEW k \in Lanes, NEW s, Fit(l, s), Fit(k, s),
         NEW r, r = Advance(s, closes[l]), NEW q, q = Advance(s, closes[k])
  PROVE  r = q \/ (Past(r) = Past(q) /\ Beyond(r) /\ Beyond(q))
<1>. DEFINE h == closes[l]
            e == closes[k]
            c == Common
            m == c - first + 1
<1>0. PICK D : Sound(D, s)
  BY DEF Fit
<1>1. /\ LastDay \in Nat /\ first \in Nat /\ first >= 1 /\ first <= LastDay
      /\ h \in Seq([Universe -> Nat]) /\ Len(h) = LastDay
      /\ e \in Seq([Universe -> Nat]) /\ Len(e) = LastDay
      /\ c \in Nat /\ c <= LastDay
  BY Days, CommonIs
<1>2. /\ s.status \in {"running", "halted", "done", "invalid"} /\ s.day \in Nat
      /\ s.day >= first /\ s.day <= LastDay /\ s.curve \in Seq(Int) /\ s.decided \in Seq(D)
  BY <1>0, <1>1, Statuses DEF Fit
<1>3. \A d \in 1..c : h[d] = e[d]
  BY CommonIs
<1>. HIDE DEF h, e, c
<1>4. CASE Beyond(s)
  BY <1>4, BeyondKeeps
<1>5. CASE s.status = "running" /\ s.day < LastDay /\ ~Beyond(s)
  <2>1. r = Trade(s, h) /\ q = Trade(s, e)
    BY <1>5 DEF Advance, h, e
  <2>2. s.day <= c
    BY <1>1, <1>2, <1>5 DEF Fit, Beyond, c
  <2>3. Seeing(h, e, s.day)
    BY <1>1, <1>2, <2>2, SeesTheSame DEF h, e, c
  <2>4. CASE s.day < c
    <3>1. s.day + 1 \in 1..c
      BY <1>1, <1>2, <2>4
    <3>. QED
      BY <1>3, <2>1, <2>3, <3>1, TradeAgrees
  <2>5. CASE s.day = c
    <3>1. s.day \in 1..(Len(h) - 1) /\ s.day \in 1..(Len(e) - 1)
      BY <1>1, <1>2, <1>5
    <3>2. Worth(s, h) = Worth(s, e) /\ Decision(s, h) = Decision(s, e) /\ (Halts(s, h) <=> Halts(s, e))
      BY <2>3, SeenTheSame
    <3>3. PICK E :
           /\ Sound(E, r)
           /\ r.curve = Append(s.curve, Worth(s, h)) /\ s.curve \in Seq(Int) /\ Worth(s, h) \in Int
           /\ s.decided \in Seq(E) /\ Decision(s, h) \in E
           /\ IF Halts(s, h)
              THEN r.status = "halted" /\ r.day = s.day /\ r.decided = s.decided /\ r.trades = s.trades
              ELSE /\ r.status = "running" /\ r.day = s.day + 1
                   /\ r.decided = Append(s.decided, Decision(s, h))
                   /\ s.trades \subseteq r.trades /\ \A t \in r.trades \ s.trades : t.till = s.day + 1
           /\ Covered(s) /\ Priced(h[s.day + 1]) => Covered(r)
      BY <1>0, <1>1, <1>5, <2>1, <3>1, TradeKeeps
    <3>4. PICK G :
           /\ Sound(G, q)
           /\ q.curve = Append(s.curve, Worth(s, e)) /\ s.curve \in Seq(Int) /\ Worth(s, e) \in Int
           /\ s.decided \in Seq(G) /\ Decision(s, e) \in G
           /\ IF Halts(s, e)
              THEN q.status = "halted" /\ q.day = s.day /\ q.decided = s.decided /\ q.trades = s.trades
              ELSE /\ q.status = "running" /\ q.day = s.day + 1
                   /\ q.decided = Append(s.decided, Decision(s, e))
                   /\ s.trades \subseteq q.trades /\ \A t \in q.trades \ s.trades : t.till = s.day + 1
           /\ Covered(s) /\ Priced(e[s.day + 1]) => Covered(q)
      BY <1>0, <1>1, <1>5, <2>1, <3>1, TradeKeeps
    <3>5. r.curve = q.curve /\ r.decided = q.decided /\ r.status = q.status /\ r.day = q.day
      BY <3>2, <3>3, <3>4
    <3>6. Len(r.curve) = c - first + 1
      <4>1. Len(s.curve) = c - first
        BY <1>5, <2>5 DEF Fit
      <4>2. r.curve = Append(s.curve, Worth(s, h)) /\ s.curve \in Seq(Int) /\ Worth(s, h) \in Int
        BY <3>3
      <4>3. Len(r.curve) = Len(s.curve) + 1
        BY ONLY <4>2, AppendProperties
      <4>. QED
        BY <1>1, <4>1, <4>3
    <3>7. Beyond(r) /\ Beyond(q)
      BY <1>1, <1>2, <2>5, <3>3, <3>5, <3>6 DEF Beyond, c
    <3>8. {t \in r.trades : t.till <= c} = {t \in s.trades : t.till <= c}
          /\ {t \in q.trades : t.till <= c} = {t \in s.trades : t.till <= c}
      <4>1. CASE Halts(s, h)
        BY <3>2, <3>3, <3>4, <4>1
      <4>2. CASE ~Halts(s, h)
        <5>1. s.day + 1 \in Nat /\ s.day + 1 > c /\ c \in Int
          BY <1>1, <1>2, <2>5
        <5>2. s.trades \subseteq r.trades /\ \A t \in r.trades \ s.trades : t.till = s.day + 1
          BY <3>3, <4>2
        <5>3. s.trades \subseteq q.trades /\ \A t \in q.trades \ s.trades : t.till = s.day + 1
          BY <3>2, <3>4, <4>2
        <5>4. Sound(E, r) /\ Sound(G, q)
          BY <3>3, <3>4
        <5>. QED
          BY ONLY <1>0, <5>1, <5>2, <5>3, <5>4, TradesSince
      <4>. QED
        BY <4>1, <4>2
    <3>. QED
      BY <3>5, <3>7, <3>8 DEF Past, c
  <2>. QED
    BY <1>1, <1>2, <2>2, <2>4, <2>5
<1>6. CASE s.status \in {"running", "halted"} /\ ~(s.status = "running" /\ s.day < LastDay) /\ ~Beyond(s)
  <2>1. r = Liquidate(s, h) /\ q = Liquidate(s, e)
    BY <1>6 DEF Advance, h, e
  <2>2. LiquidationDay(s) \in 1..c
    BY <1>1, <1>2, <1>6 DEF LiquidationDay, Fit, Beyond, c
  <2>. QED
    BY <1>3, <2>1, <2>2, LiquidateAgrees
<1>7. CASE s.status \notin {"running", "halted"}
  BY <1>7 DEF Advance
<1>. QED
  BY <1>4, <1>5, <1>6, <1>7

Parted(r, q) == r = q \/ (Past(r) = Past(q) /\ Beyond(r) /\ Beyond(q))

LEMMA PartedKeeps ==
  ASSUME Sized, Histories, NEW l \in Lanes, NEW k \in Lanes, NEW s, NEW p, Fit(l, s), Fit(k, p), Parted(s, p),
         NEW r, r = Advance(s, closes[l]), NEW q, q = Advance(p, closes[k])
  PROVE  Parted(r, q)
<1>1. CASE s = p
  BY <1>1, Together DEF Parted
<1>2. CASE s # p
  <2>1. Past(r) = Past(s) /\ Beyond(r)
    BY <1>2, BeyondKeeps DEF Parted
  <2>2. Past(q) = Past(p) /\ Beyond(q)
    BY <1>2, BeyondKeeps DEF Parted
  <2>. QED
    BY <1>2, <2>1, <2>2 DEF Parted
<1>. QED
  BY <1>1, <1>2

BacktestInv ==
    /\ Histories /\ Sized
    /\ DOMAIN sims = Lanes
    /\ \A l \in Lanes : Fit(l, sims[l])
    /\ \A l, k \in Lanes : Parted(sims[l], sims[k])
    /\ SalesPay => \A l \in Lanes : Covered(sims[l])

LEMMA BacktestStart ==
  ASSUME Histories, Sized, BacktestInit PROVE BacktestInv
<1>. DEFINE s == Simulation(first)
<1>1. \A l \in Lanes : sims[l] = s
  BY DEF BacktestInit
<1>2. /\ s.day = first /\ s.cash = Stake /\ s.held = [n \in Universe |-> Out] /\ s.curve = <<>>
      /\ s.trades = {} /\ s.decided = <<>> /\ s.status = "running" /\ s.peak = Stake /\ s.errors = 0
  BY DEF Simulation
<1>3. s \in Simulations({})
  <2>1. first \in Nat /\ Stake \in Nat
    BY Days, BacktestAssumption
  <2>. QED
    BY <2>1 DEF Simulation, Simulations, Positions
<1>. HIDE DEF s
<1>4. Held(s) = {}
  BY <1>2 DEF Held, Out
<1>5. Balanced(s)
  <2>1. SumFunction(Open(s)) = 0 /\ SumFunction(Nets(s.trades)) = 0
    <3>1. DOMAIN Open(s) = {} /\ DOMAIN Nets(s.trades) = {}
      BY <1>2, <1>4 DEF Open, Nets
    <3>. QED
      BY <3>1, SumZero, FS_EmptySet
  <2>2. IsFiniteSet(s.trades)
    BY <1>2, FS_EmptySet
  <2>. QED
    BY <1>2, <2>1, <2>2 DEF Balanced
<1>6. Sound({}, s)
  BY <1>2, <1>3, <1>4, <1>5 DEF Sound, Dated
<1>7. \A l \in Lanes : Fit(l, s)
  <2>1. Len(s.curve) = 0 /\ Len(s.decided) = 0
    BY <1>2
  <2>2. LastDay \in Nat /\ first \in 1..LastDay
    BY Days
  <2>. QED
    BY <1>2, <1>6, <2>1, <2>2 DEF Fit
<1>8. Covered(s)
  BY <1>2, <1>4, BacktestAssumption DEF Covered
<1>. QED
  BY <1>1, <1>7, <1>8 DEF BacktestInv, BacktestInit, Parted

(* The histories stay.                                                       *)
LEMMA Given ==
  ASSUME closes' = closes, first' = first, failing' = failing
  PROVE  /\ (SalesPay' <=> SalesPay) /\ (Histories' <=> Histories) /\ (Sized' <=> Sized)
         /\ \A l \in Lanes : \A s : Fit(l, s)' <=> Fit(l, s)
         /\ \A r, q : Parted(r, q)' <=> Parted(r, q)
<1>1. LastDay' = LastDay
  BY DEF LastDay
<1>2. Common' = Common /\ (SalesPay' <=> SalesPay) /\ (Histories' <=> Histories)
  BY <1>1 DEF Common, SalesPay, Histories
<1>3. \A l \in Lanes : \A s : Fit(l, s)' <=> Fit(l, s)
  BY <1>1 DEF Fit, Sound, Simulations, Balanced, Dated, Held, Unsold, Open
<1>4. \A s : Past(s)' = Past(s) /\ (Beyond(s)' <=> Beyond(s))
  BY <1>1, <1>2 DEF Past, Beyond
<1>5. \A r, q : Parted(r, q)' <=> Parted(r, q)
  BY <1>4 DEF Parted
<1>. QED
  BY <1>2, <1>3, <1>5 DEF Sized

LEMMA BarKeeps ==
  ASSUME BacktestInv, Bar PROVE BacktestInv'
<1>1. closes' = closes /\ first' = first /\ failing' = failing /\ Histories /\ Sized
      /\ sims' = [l \in Lanes |-> Advance(sims[l], closes[l])]
  BY DEF Bar, BacktestInv
<1>2. Histories' /\ Sized' /\ (SalesPay' <=> SalesPay)
  BY <1>1, Given
<1>3. \A l \in Lanes : \A s : Fit(l, s)' <=> Fit(l, s)
  BY <1>1, Given
<1>4. \A r, q : Parted(r, q)' <=> Parted(r, q)
  BY <1>1, Given
<1>5. ASSUME NEW l \in Lanes
      PROVE  sims'[l] = Advance(sims[l], closes[l]) /\ Fit(l, sims[l])
             /\ Fit(l, sims'[l]) /\ (SalesPay /\ Covered(sims[l]) => Covered(sims'[l]))
  <2>. DEFINE s == sims[l]
              r == sims'[l]
  <2>1. r = Advance(s, closes[l]) /\ Fit(l, s)
    BY <1>1 DEF BacktestInv
  <2>. HIDE DEF s, r
  <2>2. Fit(l, r) /\ (SalesPay /\ Covered(s) => Covered(r))
    BY <1>1, <2>1, AdvanceKeeps
  <2>. QED
    BY <2>1, <2>2 DEF s, r
<1>6. ASSUME NEW l \in Lanes, NEW k \in Lanes PROVE Parted(sims'[l], sims'[k])
  <2>. DEFINE s == sims[l]
              p == sims[k]
              r == sims'[l]
              q == sims'[k]
  <2>1. Fit(l, s) /\ Fit(k, p) /\ Parted(s, p) /\ r = Advance(s, closes[l]) /\ q = Advance(p, closes[k])
    BY <1>5 DEF BacktestInv
  <2>. HIDE DEF s, p, r, q
  <2>2. Parted(r, q)
    BY ONLY <1>1, <2>1, PartedKeeps
  <2>. QED
    BY <2>2 DEF r, q
<1>7. \A l \in Lanes : Fit(l, sims[l])'
  BY <1>3, <1>5
<1>8. \A l, k \in Lanes : Parted(sims[l], sims[k])'
  BY <1>4, <1>6
<1>9. (SalesPay => \A l \in Lanes : Covered(sims[l]))'
  BY <1>2, <1>5 DEF BacktestInv
<1>. QED
  BY <1>1, <1>2, <1>7, <1>8, <1>9 DEF BacktestInv, Sized

LEMMA NothingForeseen ==
  ASSUME BacktestInv PROVE NoFuture
<1>. SUFFICES ASSUME NEW l \in Lanes, NEW k \in Lanes
              PROVE  /\ Prefix(sims[l].decided, Common - first + 1) = Prefix(sims[k].decided, Common - first + 1)
                     /\ Prefix(sims[l].curve, Common - first + 1) = Prefix(sims[k].curve, Common - first + 1)
                     /\ {t \in sims[l].trades : t.till <= Common} = {t \in sims[k].trades : t.till <= Common}
                     /\ sims[l].status = "done" /\ sims[l].day <= Common => sims[l] = sims[k]
  BY DEF NoFuture
<1>1. Parted(sims[l], sims[k]) /\ Common \in Nat /\ sims[l].day \in Nat
  <2>1. Common \in 0..LastDay /\ LastDay \in Nat
    BY CommonIs, Days DEF BacktestInv
  <2>2. PICK D : Sound(D, sims[l])
    BY DEF BacktestInv, Fit
  <2>3. sims[l].day \in Nat
    BY <2>2, Statuses
  <2>. QED
    BY <2>1, <2>3 DEF BacktestInv
<1>2. CASE sims[l] = sims[k]
  BY <1>2
<1>3. CASE Past(sims[l]) = Past(sims[k]) /\ Beyond(sims[l])
  <2>1. ~(sims[l].status = "done" /\ sims[l].day <= Common)
    BY <1>1, <1>3 DEF Beyond
  <2>. QED
    BY <1>3, <2>1 DEF Past
<1>. QED
  BY <1>1, <1>2, <1>3 DEF Parted

LEMMA AddsUp ==
  ASSUME BacktestInv, SalesPay PROVE LedgerBalances
<1>. SUFFICES ASSUME NEW l \in Lanes
              PROVE  LET sim == sims[l]
                         standing == [n \in Held(sim) |-> sim.held[n].qty * sim.held[n].price + sim.held[n].cost]
                     IN /\ sim.cash + SumOver(standing, Held(sim)) = Stake + MapThenSumSet(LAMBDA t : t.net, sim.trades)
                        /\ sim.cash >= 0
                        /\ sim.status = "done" => /\ Last(sim.curve) = sim.cash
                                                  /\ \A n \in Held(sim) : closes[l][sim.day][n] = 0
  BY DEF LedgerBalances
<1>. DEFINE s == sims[l]
<1>1. Fit(l, s) /\ Covered(s)
  BY DEF BacktestInv
<1>2. PICK D : Sound(D, s)
  BY <1>1 DEF Fit
<1>3. SumOver(Open(s), Held(s)) = SumFunction(Open(s))
  <2>1. DOMAIN Open(s) = Held(s)
    BY DEF Open
  <2>2. SumOver(Open(s), DOMAIN Open(s)) = SumFunction(Open(s))
    BY SumOverIs
  <2>. QED
    BY <2>1, <2>2
<1>4. MapThenSumSet(LAMBDA t : t.net, s.trades) = SumFunction(Nets(s.trades))
  BY NetIs
<1>5. s.cash + SumFunction(Open(s)) = Stake + SumFunction(Nets(s.trades))
  BY <1>2 DEF Sound, Balanced
<1>6. s.cash >= 0
  BY <1>1 DEF Covered
<1>7. s.status = "done" => Last(s.curve) = s.cash /\ \A n \in Held(s) : closes[l][s.day][n] = 0
  BY <1>1 DEF Fit, Unsold
<1>. QED
  BY <1>3, <1>4, <1>5, <1>6, <1>7 DEF Open

LEMMA BacktestKeeps ==
  ASSUME BacktestInv, [Bar]_btVars PROVE BacktestInv' /\ (SalesPay => SalesPay')
<1>1. closes' = closes /\ first' = first /\ failing' = failing
  BY DEF Bar, btVars
<1>2. SalesPay' <=> SalesPay
  BY <1>1, Given
<1>3. CASE Bar
  BY <1>2, <1>3, BarKeeps
<1>4. CASE UNCHANGED btVars
  <2>1. sims' = sims
    BY <1>4 DEF btVars
  <2>2. /\ (Histories' <=> Histories) /\ (Sized' <=> Sized)
        /\ \A l \in Lanes : \A s : Fit(l, s)' <=> Fit(l, s)
        /\ \A r, q : Parted(r, q)' <=> Parted(r, q)
    BY <1>1, Given
  <2>3. \A s : Covered(s)' <=> Covered(s)
    BY DEF Covered, Held
  <2>. QED
    BY <1>2, <2>1, <2>2, <2>3 DEF BacktestInv
<1>. QED
  BY <1>3, <1>4

(* Over histories that agree up to a day, whatever they are and whatever the    *)
(* strategy, nothing of a backtest up to that day tells them apart.            *)
THEOREM FutureUnknown == Histories /\ Sized /\ BacktestInit /\ [][Bar]_btVars => []NoFuture
<1>1. Histories /\ Sized /\ BacktestInit => BacktestInv
  BY BacktestStart
<1>2. BacktestInv /\ [Bar]_btVars => BacktestInv'
  BY BacktestKeeps
<1>3. BacktestInv => NoFuture
  BY NothingForeseen
<1>. QED
  BY <1>1, <1>2, <1>3, PTL

(* And where a share pays for its own sale, the money adds up as well: without   *)
(* that the flat fee of a sale can take the cash below zero.                   *)
THEOREM BacktestHonest ==
  Histories /\ Sized /\ SalesPay /\ BacktestInit /\ [][Bar]_btVars => []BacktestIsHonest
<1>1. Histories /\ Sized /\ BacktestInit => BacktestInv
  BY BacktestStart
<1>2. BacktestInv /\ SalesPay /\ [Bar]_btVars => BacktestInv' /\ SalesPay'
  BY BacktestKeeps
<1>3. BacktestInv /\ SalesPay => BacktestIsHonest
  BY NothingForeseen, AddsUp DEF BacktestIsHonest
<1>. QED
  BY <1>1, <1>2, <1>3, PTL

-----------------------------------------------------------------------------
(* The research backtest                                                     *)

(* What is measured: panels of the same days, typed.                           *)
Panels ==
    /\ DOMAIN panels = Studies
    /\ \A a \in Studies :
         /\ panels[a].prices \in Seq([Shares -> Nat]) /\ panels[a].volume \in Seq([Shares -> Nat])
         /\ Len(panels[a].volume) = Final(panels[a])
         /\ \A t \in 1..Final(panels[a]) : panels[a].members[t] \in {Unavailable} \cup SUBSET Shares
    /\ \A a, b \in Studies : Final(panels[a]) = Final(panels[b])
Configs == [signal : Signals, longOnly : BOOLEAN, volume : BOOLEAN, days : Nat \ {0}]

(* Panels that cannot be told apart up to a day.                              *)
Alike(p, q, d) ==
    /\ Final(p) = Final(q) /\ Final(p) \in Nat /\ d \in 1..Final(p)
    /\ \A t \in 1..d : p.prices[t] = q.prices[t] /\ p.members[t] = q.members[t] /\ p.volume[t] = q.volume[t]

LEMMA PriceAlike ==
  ASSUME NEW p, NEW q, NEW d, Alike(p, q, d), NEW u \in Int, u <= d, NEW s
  PROVE  Price(p, u, s) = Price(q, u, s)
BY DEF Alike, Price

LEMMA WindowAlike ==
  ASSUME NEW p, NEW q, NEW d, Alike(p, q, d), NEW from \in Int, NEW till \in Int, till <= d, NEW s
  PROVE  /\ Window(p, from, till, s) = Window(q, from, till, s)
         /\ Complete(p, from, till, s) <=> Complete(q, from, till, s)
<1>1. \A t \in from..till : Price(p, t, s) = Price(q, t, s)
  <2>1. d \in Int
    BY DEF Alike
  <2>. QED
    BY <2>1, PriceAlike
<1>. QED
  BY <1>1 DEF Window, Complete

LEMMA MeanAlike ==
  ASSUME NEW p, NEW q, NEW d, Alike(p, q, d), NEW from \in Int, NEW till \in Int, till <= d, NEW s
  PROVE  Mean(p, from, till, s) = Mean(q, from, till, s)
<1>. DEFINE T == from..till
            F(g) == [v \in SUBSET T |-> IF v = {} THEN 0 ELSE LET x == CHOOSE y \in v : TRUE IN Price(p, x, s) + g[v \ {x}]]
            G(g) == [v \in SUBSET T |-> IF v = {} THEN 0 ELSE LET x == CHOOSE y \in v : TRUE IN Price(q, x, s) + g[v \ {x}]]
<1>1. \A t \in T : Price(p, t, s) = Price(q, t, s)
  <2>1. d \in Int
    BY DEF Alike
  <2>. QED
    BY <2>1, PriceAlike
<1>2. \A g : F(g) = G(g)
  <2>. HIDE DEF T
  <2>1. ASSUME NEW v \in SUBSET T, v # {} PROVE (CHOOSE y \in v : TRUE) \in T
    BY <2>1
  <2>. QED
    BY <1>1, <2>1
<1>3. (CHOOSE g : g = F(g)) = (CHOOSE g : g = G(g))
  <2>. HIDE DEF F, G
  <2>. QED
    BY <1>2
<1>4. MapThenSumSet(LAMBDA t : Price(p, t, s), T) = (CHOOSE g : g = F(g))[T]
  BY DEF MapThenSumSet, MapThenFoldSet
<1>5. MapThenSumSet(LAMBDA t : Price(q, t, s), T) = (CHOOSE g : g = G(g))[T]
  BY DEF MapThenSumSet, MapThenFoldSet
<1>. HIDE DEF F, G
<1>6. MapThenSumSet(LAMBDA t : Price(p, t, s), T) = MapThenSumSet(LAMBDA t : Price(q, t, s), T)
  BY <1>3, <1>4, <1>5
<1>. QED
  BY <1>6 DEF Mean

LEMMA SignalAlike ==
  ASSUME NEW p, NEW q, NEW d, Alike(p, q, d), NEW t \in Nat, t <= d, NEW s, NEW signal \in Signals
  PROVE  /\ Attraction(signal, p, t, s) = Attraction(signal, q, t, s)
         /\ Defined(signal, p, t, s) <=> Defined(signal, q, t, s)
<1>1. Month \in Nat /\ Year \in Nat /\ d \in Nat
  BY SignalAssumption DEF Alike
<1>2. /\ Price(p, t, s) = Price(q, t, s) /\ Price(p, t - Month, s) = Price(q, t - Month, s)
      /\ Price(p, t - Year, s) = Price(q, t - Year, s)
  BY <1>1, PriceAlike
<1>3. CASE signal = "momentum"
  BY <1>2, <1>3 DEF Attraction, Defined, Momentum
<1>4. CASE signal = "reversal"
  BY <1>2, <1>4 DEF Attraction, Defined, Reversal
<1>5. CASE signal = "trend"
  <2>1. /\ Mean(p, t - Year + 1, t, s) = Mean(q, t - Year + 1, t, s)
        /\ Mean(p, t - Month + 1, t, s) = Mean(q, t - Month + 1, t, s)
    BY <1>1, MeanAlike
  <2>2. Complete(p, t - Year + 1, t, s) <=> Complete(q, t - Year + 1, t, s)
    BY <1>1, WindowAlike
  <2>3. Trend(p, t, s) = Trend(q, t, s)
    BY <2>1 DEF Trend
  <2>. QED
    BY <1>5, <2>2, <2>3 DEF Attraction, Defined
<1>6. CASE signal = "breakout"
  <2>1. Window(p, t - Year, t - 1, s) = Window(q, t - Year, t - 1, s)
    BY <1>1, WindowAlike
  <2>2. Breakout(p, t, s) = Breakout(q, t, s)
    BY <1>2, <2>1 DEF Breakout
  <2>. QED
    BY <1>2, <1>6, <2>1, <2>2 DEF Attraction, Defined
<1>. QED
  BY <1>3, <1>4, <1>5, <1>6 DEF Signals

LEMMA RankedAlike ==
  ASSUME NEW p, NEW q, NEW d, Alike(p, q, d), NEW t \in 1..d, NEW signal \in Signals
  PROVE  /\ Ranked(signal, p, t) = Ranked(signal, q, t)
         /\ Long(signal, p, t) = Long(signal, q, t) /\ Short(signal, p, t) = Short(signal, q, t)
<1>1. Members(p, t) = Members(q, t)
  BY DEF Alike, Members
<1>2. t \in Nat /\ t <= d
  BY DEF Alike
<1>3. \A s : /\ Attraction(signal, p, t, s) = Attraction(signal, q, t, s)
             /\ Defined(signal, p, t, s) <=> Defined(signal, q, t, s)
  BY <1>2, SignalAlike
<1>4. Ranked(signal, p, t) = Ranked(signal, q, t)
  BY <1>1, <1>3 DEF Ranked
<1>5. \A s : TwiceRank(signal, p, t, s) = TwiceRank(signal, q, t, s)
  <2>. SUFFICES ASSUME NEW s PROVE TwiceRank(signal, p, t, s) = TwiceRank(signal, q, t, s)
    OBVIOUS
  <2>. DEFINE all == Ranked(signal, p, t)
              below(x) == {o \in all : Attraction(signal, x, t, o) < Attraction(signal, x, t, s)}
              equal(x) == {o \in all : Attraction(signal, x, t, o) = Attraction(signal, x, t, s)}
  <2>1. below(p) = below(q) /\ equal(p) = equal(q)
    BY <1>3
  <2>2. TwiceRank(signal, p, t, s) = 2 * Cardinality(below(p)) + Cardinality(equal(p)) + 1
    BY DEF TwiceRank
  <2>3. TwiceRank(signal, q, t, s) = 2 * Cardinality(below(q)) + Cardinality(equal(q)) + 1
    BY <1>4 DEF TwiceRank
  <2>. HIDE DEF below, equal
  <2>. QED
    BY <2>1, <2>2, <2>3
<1>. QED
  BY <1>4, <1>5 DEF Long, Short

LEMMA TargetAlike ==
  ASSUME NEW p, NEW q, NEW d, Alike(p, q, d), NEW t \in 1..d, NEW config \in Configs
  PROVE  Target(config, p, t) = Target(config, q, t)
<1>1. config.signal \in Signals
  BY DEF Configs
<1>2. /\ Ranked(config.signal, p, t) = Ranked(config.signal, q, t)
      /\ Long(config.signal, p, t) = Long(config.signal, q, t)
      /\ Short(config.signal, p, t) = Short(config.signal, q, t)
  BY <1>1, RankedAlike
<1>. QED
  BY ONLY <1>2 DEF Target

LEMMA WeightsAlike ==
  ASSUME NEW p, NEW q, NEW d, Alike(p, q, d), NEW config, NEW carried
  PROVE  Weights(config, p, carried, d) = Weights(config, q, carried, d)
<1>1. \A s : Price(p, d, s) = Price(q, d, s)
  <2>1. d \in Int /\ d <= d
    BY DEF Alike
  <2>. QED
    BY <2>1, PriceAlike
<1>2. \A s : Traded(p, d, s) = Traded(q, d, s)
  BY <1>1 DEF Traded, Alike
<1>3. Typical(p, d) = Typical(q, d)
  <2>. DEFINE some(x) == {s \in Shares : Price(x, d, s) > 0}
              low(x) == {s \in some(x) : 2 * Cardinality({o \in some(x) : Traded(x, d, o) <= Traded(x, d, s)}) >= Cardinality(some(x))}
              high(x) == {s \in some(x) : 2 * Cardinality({o \in some(x) : Traded(x, d, o) >= Traded(x, d, s)}) >= Cardinality(some(x))}
              lows(x) == {Traded(x, d, s) : s \in low(x)}
              highs(x) == {Traded(x, d, s) : s \in high(x)}
  <2>1. some(p) = some(q)
    BY <1>1
  <2>2. low(p) = low(q) /\ high(p) = high(q)
    <3>. HIDE DEF some
    <3>. QED
      BY <1>2, <2>1
  <2>3. lows(p) = lows(q) /\ highs(p) = highs(q)
    <3>. HIDE DEF low, high
    <3>. QED
      BY <1>2, <2>2
  <2>4. \A x : Typical(x, d) = IF some(x) = {} THEN 0 ELSE (Min(lows(x)) + Max(highs(x))) \div 2
    BY DEF Typical
  <2>. HIDE DEF some, lows, highs
  <2>. QED
    BY <2>1, <2>3, <2>4
<1>4. \A s : Capacity(p, d, s) = Capacity(q, d, s)
  BY <1>2, <1>3 DEF Capacity
<1>5. [s \in Shares |-> carried[s] * Capacity(p, d, s)] = [s \in Shares |-> carried[s] * Capacity(q, d, s)]
  BY <1>4
<1>. DEFINE cut(x) == [s \in Shares |-> carried[s] * Capacity(x, d, s)]
            gross(c) == MapThenSumSet(LAMBDA s : Abs(c[s]), Shares)
            of(c) == IF ~config.volume THEN carried
                     ELSE [s \in Shares |-> IF gross(c) = 0 THEN 0
                              ELSE IF c[s] < 0 THEN -((-c[s] * Unit) \div gross(c)) ELSE (c[s] * Unit) \div gross(c)]
<1>6. Weights(config, p, carried, d) = of(cut(p)) /\ Weights(config, q, carried, d) = of(cut(q))
  BY DEF Weights
<1>7. cut(p) = cut(q)
  BY <1>5
<1>. HIDE DEF of, cut
<1>. QED
  BY <1>6, <1>7


LEMMA LesserOf ==
  ASSUME NEW a \in Int, NEW b \in Int
  PROVE  Min({a, b}) \in {a, b} /\ Min({a, b}) <= a /\ Min({a, b}) <= b
<1>1. \E x \in {a, b} : \A y \in {a, b} : x <= y
  OBVIOUS
<1>2. Min({a, b}) \in {a, b} /\ \A y \in {a, b} : Min({a, b}) <= y
  BY <1>1 DEF Min
<1>. QED
  BY <1>2

LEMMA LeastIn ==
  ASSUME NEW s, s \subseteq Nat, s # {}
  PROVE  Min(s) \in s /\ \A k \in s : Min(s) <= k
<1>1. PICK m \in s : \A k \in s : m <= k
  BY LeastNatural
<1>. QED
  BY <1>1 DEF Min

(* Whole numbers of a finite set are bounded.                                 *)
LEMMA Bounded ==
  ASSUME NEW f, IsFiniteSet(DOMAIN f), \A x \in DOMAIN f : f[x] \in Nat, NEW s, s \subseteq {f[x] : x \in DOMAIN f}, s # {}
  PROVE  s \subseteq Nat /\ Max(s) \in s /\ \A k \in s : k <= Max(s)
<1>. DEFINE B == SumFunction(f)
<1>1. B \in Nat /\ \A x \in DOMAIN f : f[x] <= B
  BY SumNat
<1>. HIDE DEF B
<1>2. s \in SUBSET (0..B)
  BY <1>1
<1>. QED
  BY <1>1, <1>2, GreatestBelow

LEMMA PriceNat ==
  ASSUME Panels, NEW a \in Studies, NEW t, NEW s \in Shares PROVE Price(panels[a], t, s) \in Nat
BY DEF Panels, Price, Final

LEMMA TradedNat ==
  ASSUME Panels, NEW a \in Studies, NEW t \in 1..Final(panels[a]), NEW s \in Shares
  PROVE  Traded(panels[a], t, s) \in Nat
<1>1. panels[a].volume[t][s] \in Nat
  BY DEF Panels
<1>2. Price(panels[a], t, s) \in Nat
  BY PriceNat
<1>3. \A x, y \in Nat : x * y \in Nat
  OBVIOUS
<1>. QED
  BY <1>1, <1>2, <1>3 DEF Traded

(* A day's middle value is a value, whichever names have none.                 *)
LEMMA TypicalNat ==
  ASSUME Panels, NEW a \in Studies, NEW t \in 1..Final(panels[a])
  PROVE  Typical(panels[a], t) \in Nat
<1>. DEFINE p == panels[a]
            some == {s \in Shares : Price(p, t, s) > 0}
            v(s) == Traded(p, t, s)
            f == [s \in some |-> v(s)]
            V == {f[s] : s \in some}
            low == {s \in some : 2 * Cardinality({o \in some : v(o) <= v(s)}) >= Cardinality(some)}
            high == {s \in some : 2 * Cardinality({o \in some : v(o) >= v(s)}) >= Cardinality(some)}
            lows == {v(s) : s \in low}
            highs == {v(s) : s \in high}
<1>1. Typical(p, t) = IF some = {} THEN 0 ELSE (Min(lows) + Max(highs)) \div 2
  BY DEF Typical
<1>2. \A s \in some : v(s) \in Nat
  BY TradedNat
<1>3. IsFiniteSet(some) /\ Cardinality(some) \in Nat
  BY SignalAssumption, FS_Subset, FS_CardinalityType
<1>. HIDE DEF v, some
<1>4. CASE some # {}
  <2>1. V \subseteq Nat /\ V # {} /\ DOMAIN f = some /\ \A s \in some : f[s] = v(s)
    BY <1>2, <1>4
  <2>. HIDE DEF f
  <2>2. Max(V) \in V /\ \A k \in V : k <= Max(V)
    BY <1>2, <1>3, <2>1, Bounded
  <2>3. Min(V) \in V /\ \A k \in V : Min(V) <= k
    BY <2>1, LeastIn
  <2>4. low # {}
    <3>1. PICK x \in some : f[x] = Max(V)
      BY <2>2
    <3>. DEFINE A == {o \in some : v(o) <= v(x)}
    <3>2. A = some
      BY <1>2, <2>1, <2>2, <2>3, <3>1
    <3>3. 2 * Cardinality(A) >= Cardinality(some)
      <4>. HIDE DEF A
      <4>. QED
        BY <1>3, <3>2
    <3>4. x \in low
      BY <3>3
    <3>. QED
      BY <3>4
  <2>5. high # {}
    <3>1. PICK x \in some : f[x] = Min(V)
      BY <2>3
    <3>. DEFINE A == {o \in some : v(o) >= v(x)}
    <3>2. A = some
      BY <1>2, <2>1, <2>2, <2>3, <3>1
    <3>3. 2 * Cardinality(A) >= Cardinality(some)
      <4>. HIDE DEF A
      <4>. QED
        BY <1>3, <3>2
    <3>4. x \in high
      BY <3>3
    <3>. QED
      BY <3>4
  <2>6. lows \subseteq V /\ lows # {} /\ highs \subseteq V /\ highs # {}
    BY <2>1, <2>4, <2>5
  <2>. HIDE DEF lows, highs
  <2>7. Min(lows) \in Nat
    <3>1. lows \subseteq Nat
      BY <2>1, <2>6
    <3>. QED
      BY <2>6, <3>1, LeastIn
  <2>8. Max(highs) \in Nat
    <3>1. highs \subseteq {f[x] : x \in DOMAIN f} /\ IsFiniteSet(DOMAIN f) /\ \A x \in DOMAIN f : f[x] \in Nat
      BY <1>2, <1>3, <2>1, <2>6
    <3>2. highs \subseteq Nat /\ Max(highs) \in highs
      BY <2>6, <3>1, Bounded
    <3>. QED
      BY <3>2
  <2>9. \A x, y \in Nat : (x + y) \div 2 \in Nat
    OBVIOUS
  <2>. QED
    BY <1>1, <1>4, <2>7, <2>8, <2>9
<1>. QED
  BY <1>1, <1>4

LEMMA CapacityNat ==
  ASSUME Panels, NEW a \in Studies, NEW t \in 1..Final(panels[a]), NEW s \in Shares
  PROVE  Capacity(panels[a], t, s) \in Nat
<1>. DEFINE y == Typical(panels[a], t)
            x == Traded(panels[a], t, s)
            z == (x * Participation) \div y
<1>1. y \in Nat /\ x \in Nat /\ Participation \in Nat
  BY TypicalNat, TradedNat, SignalAssumption
<1>2. CASE y = 0
  BY <1>2 DEF Capacity
<1>3. CASE y # 0
  <2>1. Capacity(panels[a], t, s) = Min({100, z})
    BY <1>3 DEF Capacity
  <2>. HIDE DEF x, y
  <2>2. \A m \in Nat, n \in Nat \ {0} : m \div n \in Nat
    OBVIOUS
  <2>3. z \in Nat
    <3>1. x * Participation \in Nat
      BY <1>1
    <3>. QED
      BY <1>1, <1>3, <2>2, <3>1
  <2>. HIDE DEF z
  <2>4. Min({100, z}) \in {100, z}
    BY <2>3, LesserOf
  <2>. QED
    BY <2>1, <2>3, <2>4
<1>. QED
  BY <1>2, <1>3

(* What a day may hold: bets on ranked members, none against in a long-only book. *)
Bets(config, panel, t) ==
    LET long == Long(config.signal, panel, t)
        short == IF config.longOnly THEN {} ELSE Short(config.signal, panel, t)
    IN (long \ short) \cup (short \ long)
Each(config, panel, t) == Min({Unit \div Cardinality(Bets(config, panel, t)), MaxWeight})

LEMMA BetsAre ==
  ASSUME Panels, NEW a \in Studies, NEW t \in 1..Final(panels[a]), NEW config
  PROVE  /\ Bets(config, panels[a], t) \subseteq Members(panels[a], t)
         /\ Bets(config, panels[a], t) \subseteq Shares /\ IsFiniteSet(Bets(config, panels[a], t))
<1>1. Bets(config, panels[a], t) \subseteq Members(panels[a], t)
  BY DEF Bets, Long, Short, Ranked
<1>2. Members(panels[a], t) \subseteq Shares
  BY DEF Members, Panels
<1>. QED
  BY <1>1, <1>2, SignalAssumption, FS_Subset

LEMMA EachNat ==
  ASSUME Panels, NEW a \in Studies, NEW t \in 1..Final(panels[a]), NEW config, Bets(config, panels[a], t) # {}
  PROVE  /\ Each(config, panels[a], t) \in Nat /\ Each(config, panels[a], t) <= MaxWeight
         /\ Each(config, panels[a], t) * Cardinality(Bets(config, panels[a], t)) <= Unit
<1>. DEFINE n == Cardinality(Bets(config, panels[a], t))
            e == Each(config, panels[a], t)
<1>1. n \in Nat \ {0}
  <2>1. IsFiniteSet(Bets(config, panels[a], t))
    BY BetsAre
  <2>. QED
    BY <2>1, FS_CardinalityType, FS_EmptySet
<1>2. Unit \in Nat /\ MaxWeight \in Nat
  BY SignalAssumption
<1>3. e = Min({Unit \div n, MaxWeight})
  BY DEF Each
<1>. HIDE DEF n, e
<1>4. \A u \in Nat, k \in Nat \ {0} : u \div k \in Nat /\ (u \div k) * k <= u
  OBVIOUS
<1>. DEFINE w == Unit \div n
<1>5. w \in Nat /\ w * n <= Unit
  BY <1>1, <1>2, <1>4
<1>. HIDE DEF w
<1>6. e \in Nat /\ e <= MaxWeight /\ e <= w
  <2>0. e = Min({w, MaxWeight})
    BY <1>3 DEF w
  <2>1. w \in Int /\ MaxWeight \in Int
    BY <1>2, <1>5
  <2>2. Min({w, MaxWeight}) \in {w, MaxWeight} /\ Min({w, MaxWeight}) <= w /\ Min({w, MaxWeight}) <= MaxWeight
    BY ONLY <2>1, LesserOf
  <2>. QED
    BY <1>2, <1>5, <2>0, <2>2
<1>7. \A x, y \in Nat, k \in Nat : x <= y => x * k <= y * k
  OBVIOUS
<1>8. e * n <= w * n /\ e * n \in Nat /\ w * n \in Nat
  BY <1>1, <1>5, <1>6, <1>7
<1>9. e * n <= Unit
  BY <1>2, <1>5, <1>8
<1>. QED
  BY <1>6, <1>9 DEF n, e


LEMMA GrossIs ==
  ASSUME NEW w PROVE MapThenSumSet(LAMBDA s : Abs(w[s]), Shares) = SumFunction([s \in Shares |-> Abs(w[s])])
<1>. DEFINE f == [s \in Shares |-> Abs(w[s])]
            F(g) == [v \in SUBSET Shares |-> IF v = {} THEN 0 ELSE LET x == CHOOSE y \in v : TRUE IN Abs(w[x]) + g[v \ {x}]]
            G(g) == [v \in SUBSET Shares |-> IF v = {} THEN 0 ELSE LET x == CHOOSE y \in v : TRUE IN f[x] + g[v \ {x}]]
<1>1. \A g : F(g) = G(g)
  <2>1. ASSUME NEW v \in SUBSET Shares, v # {} PROVE (CHOOSE y \in v : TRUE) \in Shares
    BY <2>1
  <2>2. \A s \in Shares : f[s] = Abs(w[s])
    OBVIOUS
  <2>. HIDE DEF f
  <2>. QED
    BY <2>1, <2>2
<1>2. (CHOOSE g : g = F(g)) = (CHOOSE g : g = G(g))
  <2>. HIDE DEF F, G
  <2>. QED
    BY <1>1
<1>3. MapThenSumSet(LAMBDA s : Abs(w[s]), Shares) = (CHOOSE g : g = F(g))[Shares]
  BY DEF MapThenSumSet, MapThenFoldSet
<1>4. SumFunction(f) = (CHOOSE g : g = G(g))[Shares]
  <2>1. DOMAIN f = Shares
    OBVIOUS
  <2>. HIDE DEF f
  <2>2. SumFunction(f) = SumFunctionOnSet(f, Shares)
    BY <2>1 DEF SumFunction
  <2>. QED
    BY <2>2 DEF SumFunctionOnSet, FoldFunctionOnSet, MapThenFoldSet
<1>. QED
  BY <1>2, <1>3, <1>4

(* The same amount for every one of a few.                                    *)
LEMMA SumEach ==
  ASSUME NEW f, NEW B, NEW e \in Nat, IsFiniteSet(DOMAIN f), B \subseteq DOMAIN f,
         \A x \in DOMAIN f : f[x] = IF x \in B THEN e ELSE 0
  PROVE  SumFunction(f) = e * Cardinality(B)
<1>. DEFINE S == DOMAIN f
            n(U) == Cardinality(U \cap B)
<1>1. PICK h : Summing(f, S, h) /\ SumFunction(f) = h[S]
  BY SumSums DEF SumFunction
<1>. HIDE DEF S
<1>3. IsFiniteSet(S) /\ \A x \in S : f[x] = IF x \in B THEN e ELSE 0
  BY DEF S
<1>. DEFINE Bad == {U \in SUBSET S : h[U] # e * n(U)}
<1>4. Bad = {}
  <2>. SUFFICES ASSUME Bad # {} PROVE FALSE
    OBVIOUS
  <2>. HIDE DEF Bad, n
  <2>1. PICK U \in Bad : \A X \in Bad : X \subseteq U => X = U
    <3>1. Bad \subseteq SUBSET S
      BY DEF Bad
    <3>. QED
      BY <1>3, <3>1, SmallestSet
  <2>2. U \in SUBSET S /\ h[U] # e * n(U)
    BY <2>1 DEF Bad
  <2>3. U # {}
    <3>. SUFFICES ASSUME U = {} PROVE h[U] = e * n(U)
      BY <2>2
    <3>1. h[U] = 0
      BY <1>1, SummingAt
    <3>2. U \cap B = {}
      OBVIOUS
    <3>3. n(U) = 0
      BY <3>2, FS_EmptySet DEF n
    <3>. QED
      BY <3>1, <3>3
  <2>. DEFINE x == Chosen(U)
              W == U \ {x}
  <2>4. x \in U /\ W \notin Bad /\ W \in SUBSET S
    BY <2>1, <2>2, <2>3, ChosenIn
  <2>5. h[U] = f[x] + h[W]
    BY <1>1, <2>2, <2>3, SummingAt
  <2>6. h[W] = e * n(W)
    BY <2>4 DEF Bad
  <2>7. IsFiniteSet(U \cap B) /\ IsFiniteSet(W \cap B)
    <3>1. U \cap B \subseteq S /\ W \cap B \subseteq S
      BY <2>2
    <3>. QED
      BY <1>3, <3>1, FS_Subset
  <2>. HIDE DEF x, W
  <2>8. CASE x \in B
    <3>1. x \in U \cap B /\ (U \cap B) \ {x} = W \cap B
      BY <2>4, <2>8 DEF W
    <3>2. n(W) = n(U) - 1 /\ n(U) \in Nat
      BY <2>7, <3>1, FS_RemoveElement, FS_CardinalityType DEF n
    <3>3. f[x] = e
      BY <1>3, <2>2, <2>4, <2>8
    <3>4. e + e * (n(U) - 1) = e * n(U)
      BY <3>2
    <3>. QED
      BY <2>2, <2>5, <2>6, <3>2, <3>3, <3>4
  <2>9. CASE x \notin B
    <3>1. U \cap B = W \cap B
      BY <2>4, <2>9 DEF W
    <3>2. n(W) = n(U) /\ n(U) \in Nat
      BY <2>7, <3>1, FS_CardinalityType DEF n
    <3>3. f[x] = 0
      BY <1>3, <2>2, <2>4, <2>9
    <3>4. 0 + e * n(U) = e * n(U)
      BY <3>2
    <3>. QED
      BY <2>2, <2>5, <2>6, <3>2, <3>3, <3>4
  <2>. QED
    BY <2>8, <2>9
<1>5. h[S] = e * n(S)
  BY <1>4
<1>6. S \cap B = B
  BY DEF S
<1>. QED
  BY <1>1, <1>5, <1>6

(* A share of the whole in proportion to a cut, rounded towards zero, is no      *)
(* greater than the proportion; of no cut it is none.                         *)
Share(c, gross) == IF c < 0 THEN -((-c * Unit) \div gross) ELSE (c * Unit) \div gross

LEMMA ShareIs ==
  ASSUME NEW c \in Int, NEW gross \in Nat \ {0}
  PROVE  /\ Share(c, gross) \in Int /\ Abs(Share(c, gross)) \in Nat /\ Abs(c) \in Nat
         /\ gross * Abs(Share(c, gross)) <= Unit * Abs(c)
         /\ c = 0 => Share(c, gross) = 0
         /\ c >= 0 => Share(c, gross) >= 0
<1>1. Unit \in Nat
  BY SignalAssumption
<1>2. \A x \in Nat : x \div gross \in Nat /\ gross * (x \div gross) <= x
  OBVIOUS
<1>3. CASE c >= 0
  <2>. DEFINE x == c * Unit
              y == x \div gross
  <2>1. c \in Nat /\ x \in Nat
    BY <1>1, <1>3
  <2>. HIDE DEF x
  <2>2. y \in Nat /\ gross * y <= x
    BY <1>2, <2>1
  <2>3. Share(c, gross) = y
    BY <1>3 DEF Share, x
  <2>4. x = Unit * c
    BY <1>1, <2>1 DEF x
  <2>. HIDE DEF y
  <2>5. Abs(y) = y /\ Abs(c) = c
    BY <2>1, <2>2 DEF Abs
  <2>6. c = 0 => y = 0
    <3>. SUFFICES ASSUME c = 0 PROVE y = 0
      OBVIOUS
    <3>1. x = 0
      BY <1>1, <2>4
    <3>2. \A z \in Nat, g \in Nat \ {0} : g * z <= 0 => z = 0
      OBVIOUS
    <3>. QED
      BY <2>2, <3>1, <3>2
  <2>. QED
    BY <2>1, <2>2, <2>3, <2>4, <2>5, <2>6
<1>4. CASE c < 0
  <2>. DEFINE k == -c
              x == k * Unit
              y == x \div gross
  <2>0. -c * Unit = x
    BY <1>1
  <2>1. k \in Nat /\ x \in Nat
    BY <1>1, <1>4
  <2>. HIDE DEF x
  <2>2. y \in Nat /\ gross * y <= x
    BY <1>2, <2>1
  <2>3. Share(c, gross) = -y
    BY <1>4, <2>0 DEF Share
  <2>4. x = Unit * k
    BY <1>1, <2>1 DEF x
  <2>. HIDE DEF y
  <2>5. Abs(-y) = y /\ Abs(c) = k
    BY <1>4, <2>2 DEF Abs
  <2>. QED
    BY <1>4, <2>1, <2>2, <2>3, <2>4, <2>5
<1>. QED
  BY <1>3, <1>4

(* Targets: of ranked members, within the cap and the whole.                   *)
Fair(config, panel, t, w) ==
    /\ DOMAIN w = Shares /\ \A s \in Shares : w[s] \in Int /\ Abs(w[s]) \in Nat
    /\ \A s \in Shares : w[s] # 0 => s \in Members(panel, t)
    /\ config.longOnly => \A s \in Shares : w[s] >= 0
    /\ SumFunction([s \in Shares |-> Abs(w[s])]) <= Unit

LEMMA TargetFair ==
  ASSUME Panels, NEW a \in Studies, NEW t \in 1..Final(panels[a]), NEW config \in Configs,
         NEW w, w = Target(config, panels[a], t)
  PROVE  Fair(config, panels[a], t, w) /\ \A s \in Shares : Abs(w[s]) <= MaxWeight
<1>. DEFINE B == Bets(config, panels[a], t)
            e == Each(config, panels[a], t)
            long == Long(config.signal, panels[a], t)
            idle == Cardinality(Ranked(config.signal, panels[a], t)) < MinValid
            f == [s \in Shares |-> Abs(w[s])]
<1>0. Unit \in Nat /\ MaxWeight \in Nat /\ IsFiniteSet(Shares)
  BY SignalAssumption
<1>1. w = [s \in Shares |-> IF s \notin B \/ idle THEN 0 ELSE IF s \in long THEN e ELSE -e]
  BY DEF Target, Bets, Each
<1>2. B \subseteq Members(panels[a], t) /\ B \subseteq Shares /\ IsFiniteSet(B)
  BY BetsAre
<1>3. config.longOnly => B \subseteq long
  BY DEF Bets
<1>4. B # {} => e \in Nat /\ e <= MaxWeight /\ e * Cardinality(B) <= Unit
  BY EachNat
<1>. HIDE DEF B, e, long, idle
<1>5. CASE B = {} \/ idle
  <2>1. \A s \in Shares : w[s] = 0
    BY <1>1, <1>5
  <2>2. DOMAIN f = Shares /\ \A s \in Shares : f[s] = 0 /\ Abs(w[s]) = 0
    BY <2>1 DEF Abs
  <2>. HIDE DEF f
  <2>3. SumFunction(f) = 0
    BY <1>0, <2>2, SumZero
  <2>. QED
    BY <1>0, <1>1, <2>1, <2>2, <2>3 DEF Fair, f
<1>6. CASE B # {} /\ ~idle
  <2>1. \A s \in Shares : w[s] = IF s \notin B THEN 0 ELSE IF s \in long THEN e ELSE -e
    BY <1>1, <1>6
  <2>2. e \in Nat /\ e <= MaxWeight /\ e * Cardinality(B) <= Unit
    BY <1>4, <1>6
  <2>3. \A s \in Shares : Abs(w[s]) = IF s \in B THEN e ELSE 0
    BY <2>1, <2>2 DEF Abs
  <2>4. DOMAIN f = Shares /\ \A s \in Shares : f[s] = IF s \in B THEN e ELSE 0
    BY <2>3
  <2>5. SumFunction(f) = e * Cardinality(B)
    <3>. HIDE DEF f
    <3>. QED
      BY <1>0, <1>2, <2>2, <2>4, SumEach
  <2>6. \A s \in Shares : w[s] # 0 => s \in Members(panels[a], t)
    BY <1>2, <2>1
  <2>7. config.longOnly => \A s \in Shares : w[s] >= 0
    BY <1>3, <2>1, <2>2
  <2>8. \A s \in Shares : w[s] \in Int /\ Abs(w[s]) \in Nat /\ Abs(w[s]) <= MaxWeight
    BY <1>0, <2>1, <2>2, <2>3
  <2>9. DOMAIN w = Shares
    BY <1>1
  <2>. QED
    BY <2>2, <2>5, <2>6, <2>7, <2>8, <2>9 DEF Fair, f
<1>. QED
  BY <1>5, <1>6

LEMMA WeightsFair ==
  ASSUME Panels, NEW a \in Studies, NEW t \in 1..Final(panels[a]), NEW config, NEW r,
         NEW c, Fair(config, panels[a], r, c), NEW w, w = Weights(config, panels[a], c, t)
  PROVE  Fair(config, panels[a], r, w) /\ (~config.volume => w = c)
<1>. DEFINE cut == [s \in Shares |-> c[s] * Capacity(panels[a], t, s)]
            f == [s \in Shares |-> Abs(cut[s])]
            e == [s \in Shares |-> Abs(w[s])]
            gross == SumFunction(f)
<1>0. Unit \in Nat /\ IsFiniteSet(Shares)
  BY SignalAssumption
<1>1. CASE ~config.volume
  BY <1>1 DEF Weights
<1>2. CASE config.volume
  <2>1. \A s \in Shares : Capacity(panels[a], t, s) \in Nat /\ c[s] \in Int
    BY CapacityNat DEF Fair
  <2>2. \A x \in Int, y \in Nat : x * y \in Int /\ (x = 0 => x * y = 0) /\ (x >= 0 => x * y >= 0)
    OBVIOUS
  <2>3. \A s \in Shares : cut[s] \in Int /\ (c[s] = 0 => cut[s] = 0) /\ (c[s] >= 0 => cut[s] >= 0)
    BY <2>1, <2>2
  <2>4. w = [s \in Shares |-> IF MapThenSumSet(LAMBDA x : Abs(cut[x]), Shares) = 0 THEN 0
                              ELSE Share(cut[s], MapThenSumSet(LAMBDA x : Abs(cut[x]), Shares))]
    BY <1>2 DEF Weights, Share
  <2>. HIDE DEF cut
  <2>5. w = [s \in Shares |-> IF gross = 0 THEN 0 ELSE Share(cut[s], gross)]
    BY <2>4, GrossIs
  <2>6. DOMAIN f = Shares /\ (\A s \in Shares : f[s] = Abs(cut[s]) /\ f[s] \in Nat) /\ DOMAIN e = Shares
        /\ \A s \in Shares : e[s] = Abs(w[s])
    BY <2>3 DEF Abs
  <2>7. gross \in Nat
    <3>. HIDE DEF f
    <3>. QED
      BY <1>0, <2>6, SumNat
  <2>. HIDE DEF f, e, gross
  <2>8. CASE gross = 0
    <3>1. \A s \in Shares : w[s] = 0 /\ Abs(w[s]) = 0
      BY <2>5, <2>8 DEF Abs
    <3>2. SumFunction(e) = 0
      BY <1>0, <2>6, <3>1, SumZero
    <3>. QED
      BY <1>0, <1>2, <2>5, <3>1, <3>2 DEF Fair, e
  <2>9. CASE gross # 0
    <3>1. \A s \in Shares : /\ w[s] = Share(cut[s], gross)
                             /\ w[s] \in Int /\ Abs(w[s]) \in Nat
                             /\ gross * Abs(w[s]) <= Unit * f[s]
                             /\ (c[s] = 0 => w[s] = 0) /\ (c[s] >= 0 => w[s] >= 0)
      <4>. SUFFICES ASSUME NEW s \in Shares
                    PROVE  /\ w[s] = Share(cut[s], gross)
                           /\ w[s] \in Int /\ Abs(w[s]) \in Nat
                           /\ gross * Abs(w[s]) <= Unit * f[s]
                           /\ (c[s] = 0 => w[s] = 0) /\ (c[s] >= 0 => w[s] >= 0)
        OBVIOUS
      <4>1. w[s] = Share(cut[s], gross)
        BY <2>5, <2>9
      <4>2. cut[s] \in Int /\ gross \in Nat \ {0} /\ f[s] = Abs(cut[s])
        BY <2>3, <2>6, <2>7, <2>9
      <4>3. /\ Share(cut[s], gross) \in Int /\ Abs(Share(cut[s], gross)) \in Nat
            /\ gross * Abs(Share(cut[s], gross)) <= Unit * Abs(cut[s])
            /\ cut[s] = 0 => Share(cut[s], gross) = 0
            /\ cut[s] >= 0 => Share(cut[s], gross) >= 0
        BY ONLY <4>2, ShareIs
      <4>. QED
        BY <2>3, <4>1, <4>2, <4>3
    <3>2. SumFunction(e) <= Unit
      <4>. DEFINE ge == [s \in Shares |-> gross * e[s]]
                  uf == [s \in Shares |-> Unit * f[s]]
      <4>1. SumFunction(ge) = gross * SumFunction(e)
        <5>1. DOMAIN ge = DOMAIN e /\ IsFiniteSet(DOMAIN e) /\ Whole(e, DOMAIN e)
              /\ (\A s \in DOMAIN e : ge[s] = gross * e[s]) /\ gross \in Int
          BY <1>0, <2>6, <2>7, <3>1 DEF Whole
        <5>. HIDE DEF ge
        <5>. QED
          BY ONLY <5>1, SumTimes
      <4>2. SumFunction(uf) = Unit * gross
        <5>1. DOMAIN uf = DOMAIN f /\ IsFiniteSet(DOMAIN f) /\ Whole(f, DOMAIN f)
              /\ (\A s \in DOMAIN f : uf[s] = Unit * f[s]) /\ Unit \in Int
          BY <1>0, <2>6 DEF Whole
        <5>. HIDE DEF uf
        <5>2. SumFunction(uf) = Unit * SumFunction(f)
          BY ONLY <5>1, SumTimes
        <5>. QED
          BY <5>2 DEF gross
      <4>3. SumFunction(ge) <= SumFunction(uf)
        <5>1. DOMAIN ge = Shares /\ DOMAIN uf = Shares /\ \A s \in Shares : ge[s] <= uf[s]
          BY <2>6, <3>1
        <5>2. Whole(ge, Shares) /\ Whole(uf, Shares)
          <6>1. \A x, y \in Nat : x * y \in Int
            OBVIOUS
          <6>. QED
            BY <1>0, <2>6, <2>7, <3>1, <6>1 DEF Whole
        <5>. HIDE DEF ge, uf
        <5>. QED
          BY <1>0, <5>1, <5>2, SumBelow
      <4>4. SumFunction(e) \in Nat
        BY <1>0, <2>6, <3>1, SumNat
      <4>5. \A g \in Nat \ {0}, x, u \in Nat : g * x <= u * g => x <= u
        OBVIOUS
      <4>. QED
        BY <1>0, <2>7, <2>9, <4>1, <4>2, <4>3, <4>4, <4>5
    <3>3. DOMAIN w = Shares
      BY <2>5
    <3>. QED
      BY <1>2, <3>1, <3>2, <3>3 DEF Fair, e
  <2>. QED
    BY <2>8, <2>9
<1>. QED
  BY <1>1, <1>2


(* The rebalance a day belongs to is not after it.                             *)
LEMMA RebalanceBefore ==
  ASSUME NEW config \in Configs, NEW panel, NEW t \in Nat \ {0}
  PROVE  RebalanceDay(config, panel, t) \in 1..t
<1>1. config.days \in Nat \ {0}
  BY DEF Configs
<1>2. \A k \in Nat \ {0} : (t - 1) % k \in 0..(t - 1)
  <2>1. \A x \in Nat, k \in Nat \ {0} : x % k \in 0..x
    OBVIOUS
  <2>. QED
    BY <2>1
<1>. DEFINE m == (t - 1) % config.days
<1>3. m \in 0..(t - 1)
  BY <1>1, <1>2
<1>. HIDE DEF m
<1>4. t - m \in 1..t
  BY <1>3
<1>. QED
  BY <1>4 DEF RebalanceDay, m

(* What a run measured: the book of every day and what it earned.              *)
BookOf(config, a) ==
    [t \in 1..Final(panels[a]) |->
        Weights(config, panels[a],
                [u \in 1..Final(panels[a]) |-> Target(config, panels[a], u)][RebalanceDay(config, panels[a], t)], t)]
NetOf(w, a) == [t \in 1..Final(panels[a]) |-> NetReturn(w[a], panels[a], t)]
Evaluated(config) ==
    /\ measured.done = TRUE /\ measured.config = config
    /\ measured.book = [a \in Studies |-> BookOf(config, a)]
    /\ measured.net = [a \in Studies |-> NetOf(measured.book, a)]
SignalInv == Panels /\ (measured = Unmeasured \/ \E config \in Configs : Evaluated(config))

LEMMA RunMeasures ==
  ASSUME Panels, NEW config \in Configs, RunBacktest(config)
  PROVE  Evaluated(config)' /\ panels' = panels
<1>1. panels' = panels
  BY DEF RunBacktest
<1>2. measured' = [done |-> TRUE, config |-> config, book |-> [a \in Studies |-> BookOf(config, a)],
                   net |-> [a \in Studies |-> NetOf([k \in Studies |-> BookOf(config, k)], a)]]
  BY DEF RunBacktest, EachDay, BookOf, NetOf
<1>. QED
  BY <1>1, <1>2 DEF Evaluated, BookOf, NetOf

LEMMA AlikePanels ==
  ASSUME Panels, NEW a \in Studies, NEW b \in Studies, NEW d \in 1..Final(panels[a]), AgreeTill(d)
  PROVE  Alike(panels[a], panels[b], d)
<1>1. Final(panels[a]) \in Nat
  BY DEF Panels, Final
<1>. QED
  BY <1>1 DEF Alike, AgreeTill, Panels

LEMMA BooksAlike ==
  ASSUME Panels, NEW a \in Studies, NEW b \in Studies, NEW d \in 1..Final(panels[a]), AgreeTill(d),
         NEW config \in Configs
  PROVE  BookOf(config, a)[d] = BookOf(config, b)[d]
<1>. DEFINE p == panels[a]
            q == panels[b]
            r == RebalanceDay(config, p, d)
<1>1. Alike(p, q, d) /\ d \in 1..Final(p) /\ d \in 1..Final(q) /\ Final(p) \in Nat
  BY AlikePanels DEF Alike
<1>2. r \in 1..d /\ RebalanceDay(config, q, d) = r
  BY <1>1, RebalanceBefore DEF RebalanceDay
<1>3. Target(config, p, r) = Target(config, q, r)
  <2>1. Alike(p, q, d) /\ r \in 1..d /\ config \in Configs
    BY <1>1, <1>2
  <2>. HIDE DEF p, q, r
  <2>. QED
    BY ONLY <2>1, TargetAlike
<1>4. r \in 1..Final(p) /\ r \in 1..Final(q)
  <2>1. Final(q) = Final(p)
    BY <1>1 DEF Alike
  <2>2. \A n, k, i \in Int : k \in 1..n /\ i \in 1..k => i \in 1..n
    OBVIOUS
  <2>3. r \in Int /\ d \in Int
    BY <1>1, <1>2
  <2>. HIDE DEF p, q, r
  <2>. QED
    BY <1>1, <1>2, <2>1, <2>2, <2>3
<1>. HIDE DEF r
<1>5. BookOf(config, a)[d] = Weights(config, p, Target(config, p, r), d)
  BY <1>1, <1>4 DEF BookOf, r
<1>6. BookOf(config, b)[d] = Weights(config, q, Target(config, q, r), d)
  BY <1>1, <1>2, <1>4 DEF BookOf
<1>. HIDE DEF p, q
<1>. QED
  BY <1>1, <1>3, <1>5, <1>6, WeightsAlike

LEMMA TurnoverAlike ==
  ASSUME NEW x, NEW y, NEW t \in Nat \ {0}, x[t] = y[t], t # 1 => x[t - 1] = y[t - 1]
  PROVE  Turnover(x, t) = Turnover(y, t)
<1>. DEFINE ch(z) == [s \in Shares |-> z[t][s] - (IF t = 1 THEN 0 ELSE z[t - 1][s])]
            F(g) == [v \in SUBSET Shares |-> IF v = {} THEN 0
                       ELSE LET k == CHOOSE i \in v : TRUE IN Abs(x[t][k] - (IF t = 1 THEN 0 ELSE x[t - 1][k])) + g[v \ {k}]]
            G(g) == [v \in SUBSET Shares |-> IF v = {} THEN 0
                       ELSE LET k == CHOOSE i \in v : TRUE IN Abs(y[t][k] - (IF t = 1 THEN 0 ELSE y[t - 1][k])) + g[v \ {k}]]
<1>1. \A g : F(g) = G(g)
  BY SMT
<1>2. (CHOOSE g : g = F(g)) = (CHOOSE g : g = G(g))
  <2>. HIDE DEF F, G
  <2>. QED
    BY <1>1
<1>3. Turnover(x, t) = (CHOOSE g : g = F(g))[Shares]
  BY DEF Turnover, MapThenSumSet, MapThenFoldSet
<1>4. Turnover(y, t) = (CHOOSE g : g = G(g))[Shares]
  BY DEF Turnover, MapThenSumSet, MapThenFoldSet
<1>. HIDE DEF F, G
<1>. QED
  BY <1>2, <1>3, <1>4

LEMMA NetAlike ==
  ASSUME NEW p, NEW q, NEW d, Alike(p, q, d), NEW x, NEW y, \A t \in 1..d : x[t] = y[t]
  PROVE  NetReturn(x, p, d) = NetReturn(y, q, d)
<1>. DEFINE t == Realised(d)
            earning(z) == {s \in Shares : HasForward(z, Lag, t, s)}
            of(w, z) == MapThenSumSet(LAMBDA s : w[t][s] * Forward(z, Lag, t, s), earning(z))
<1>0. d \in Nat \ {0} /\ Lag = 2
  BY DEF Alike, Lag
<1>1. CASE t = 0
  BY <1>1 DEF NetReturn
<1>2. CASE t # 0
  <2>1. t = d - 2 /\ t \in 1..d /\ t \in Nat \ {0} /\ (t # 1 => t - 1 \in 1..d)
    BY <1>0, <1>2 DEF Realised
  <2>. HIDE DEF t
  <2>2. x[t] = y[t] /\ (t # 1 => x[t - 1] = y[t - 1])
    BY <2>1
  <2>3. Turnover(x, t) = Turnover(y, t)
    BY <2>1, <2>2, TurnoverAlike
  <2>4. \A s : Price(p, t + Lag, s) = Price(q, t + Lag, s) /\ Price(p, t + Lag - 1, s) = Price(q, t + Lag - 1, s)
    BY <1>0, <2>1, PriceAlike
  <2>5. \A s : Forward(p, Lag, t, s) = Forward(q, Lag, t, s) /\ (HasForward(p, Lag, t, s) <=> HasForward(q, Lag, t, s))
    BY <2>4 DEF Forward, HasForward
  <2>6. earning(p) = earning(q)
    BY <2>5
  <2>7. of(x, p) = of(y, q)
    <3>. DEFINE E == earning(p)
                F(g) == [v \in SUBSET E |-> IF v = {} THEN 0
                           ELSE LET k == CHOOSE i \in v : TRUE IN x[t][k] * Forward(p, Lag, t, k) + g[v \ {k}]]
                G(g) == [v \in SUBSET E |-> IF v = {} THEN 0
                           ELSE LET k == CHOOSE i \in v : TRUE IN y[t][k] * Forward(q, Lag, t, k) + g[v \ {k}]]
    <3>. HIDE DEF earning
    <3>1. \A g : F(g) = G(g)
      BY <2>2, <2>5
    <3>2. (CHOOSE g : g = F(g)) = (CHOOSE g : g = G(g))
      <4>. HIDE DEF F, G
      <4>. QED
        BY <3>1
    <3>3. of(x, p) = (CHOOSE g : g = F(g))[E]
      BY DEF MapThenSumSet, MapThenFoldSet
    <3>4. of(y, q) = (CHOOSE g : g = G(g))[E]
      BY <2>6 DEF MapThenSumSet, MapThenFoldSet
    <3>. HIDE DEF F, G, of
    <3>. QED
      BY <3>2, <3>3, <3>4
  <2>8. NetReturn(x, p, d) = of(x, p) - (Turnover(x, t) * CostBps) \div 10
    BY <1>2 DEF NetReturn, t
  <2>9. NetReturn(y, q, d) = of(y, q) - (Turnover(y, t) * CostBps) \div 10
    BY <1>2 DEF NetReturn, t
  <2>. HIDE DEF of
  <2>. QED
    BY <2>3, <2>7, <2>8, <2>9
<1>. QED
  BY <1>1, <1>2


(* A frame of returns built with a shorter lag has values in its last rows.     *)
LEMMA ShorterLagRefused ==
  ASSUME Panels, NEW a \in Studies, NEW lag \in 0..(Lag - 1), NEW s \in Shares,
         \A t \in {Final(panels[a]) - 1, Final(panels[a])} : Price(panels[a], t, s) > 0
  PROVE  Refused(panels[a], lag)
<1>. DEFINE n == Final(panels[a])
            t == n - lag
<1>1. n \in Nat /\ Lag = 2 /\ lag \in {0, 1}
  BY DEF Panels, Final, Lag
<1>2. t \in (n - Lag + 1)..n
  BY <1>1
<1>3. Price(panels[a], t + lag - 1, s) > 0 /\ Price(panels[a], t + lag, s) > 0
  <2>1. t + lag = n /\ t + lag - 1 = n - 1
    BY <1>1
  <2>. QED
    BY <2>1
<1>4. HasForward(panels[a], lag, t, s)
  BY <1>3 DEF HasForward
<1>. QED
  BY <1>2, <1>4 DEF Refused

LEMMA BookFair ==
  ASSUME Panels, NEW a \in Studies, NEW t \in 1..Final(panels[a]), NEW config \in Configs
  PROVE  /\ Fair(config, panels[a], RebalanceDay(config, panels[a], t), BookOf(config, a)[t])
         /\ ~config.volume => \A s \in Shares : Abs(BookOf(config, a)[t][s]) <= MaxWeight
<1>. DEFINE p == panels[a]
            r == RebalanceDay(config, p, t)
            c == Target(config, p, r)
            w == BookOf(config, a)[t]
<1>1. r \in 1..t /\ Final(p) \in Nat
  BY RebalanceBefore DEF Panels, Final
<1>2. r \in 1..Final(p)
  BY <1>1
<1>3. w = Weights(config, p, c, t)
  BY <1>2 DEF BookOf
<1>4. Fair(config, p, r, c) /\ \A s \in Shares : Abs(c[s]) <= MaxWeight
  <2>. HIDE DEF r
  <2>. QED
    BY <1>2, TargetFair
<1>. HIDE DEF w, c, r
<1>5. Fair(config, p, r, w) /\ (~config.volume => w = c)
  BY <1>3, <1>4, WeightsFair
<1>. QED
  BY <1>4, <1>5 DEF w, r

LEMMA InTime ==
  ASSUME SignalInv PROVE MeasuredInTime
<1>. SUFFICES ASSUME measured.done PROVE MeasuredInTime
  BY DEF MeasuredInTime
<1>0. measured # Unmeasured /\ Panels
  BY DEF Unmeasured, SignalInv
<1>1. PICK config \in Configs : Evaluated(config)
  BY <1>0 DEF SignalInv
<1>2. ASSUME NEW d \in 1..Final(panels[CHOOSE a \in Studies : TRUE]), NEW a \in Studies, NEW b \in Studies, AgreeTill(d)
      PROVE  measured.book[a][d] = measured.book[b][d] /\ measured.net[a][d] = measured.net[b][d]
  <2>1. (CHOOSE k \in Studies : TRUE) \in Studies
    BY SignalAssumption
  <2>2. d \in 1..Final(panels[a]) /\ d \in 1..Final(panels[b]) /\ Final(panels[a]) \in Nat
    BY <1>0, <1>2, <2>1 DEF Panels, Final
  <2>3. ASSUME NEW t \in 1..d PROVE measured.book[a][t] = measured.book[b][t]
    <3>1. t \in 1..Final(panels[a]) /\ AgreeTill(t)
      BY <1>2, <2>2 DEF AgreeTill
    <3>2. BookOf(config, a)[t] = BookOf(config, b)[t]
      BY <1>0, <3>1, BooksAlike
    <3>. QED
      BY <1>1, <3>2 DEF Evaluated
  <2>4. Alike(panels[a], panels[b], d)
    BY <1>0, <1>2, <2>2, AlikePanels
  <2>. DEFINE x == measured.book[a]
              y == measured.book[b]
  <2>5. NetReturn(x, panels[a], d) = NetReturn(y, panels[b], d)
    <3>1. \A t \in 1..d : x[t] = y[t]
      BY <2>3
    <3>. HIDE DEF x, y
    <3>. QED
      BY <2>4, <3>1, NetAlike
  <2>6. measured.net[a][d] = NetReturn(x, panels[a], d) /\ measured.net[b][d] = NetReturn(y, panels[b], d)
    BY <1>1, <2>2 DEF Evaluated, NetOf
  <2>7. d \in 1..d
    BY <2>2
  <2>. QED
    BY <2>3, <2>5, <2>6, <2>7
<1>3. ASSUME NEW a \in Studies, NEW t \in DOMAIN measured.book[a], NEW s \in Shares, measured.book[a][t][s] # 0
      PROVE  s \in Members(panels[a], t - ((t - 1) % measured.config.days))
  <2>1. measured.book[a] = BookOf(config, a) /\ measured.config = config
    BY <1>1 DEF Evaluated
  <2>2. t \in 1..Final(panels[a])
    BY <2>1 DEF BookOf
  <2>3. Fair(config, panels[a], RebalanceDay(config, panels[a], t), BookOf(config, a)[t])
    BY <1>0, <2>2, BookFair
  <2>. QED
    BY <1>3, <2>1, <2>3 DEF Fair, RebalanceDay
<1>4. ASSUME NEW a \in Studies, NEW lag \in 0..(Lag - 1),
             \E s \in Shares : \A t \in {Final(panels[a]) - 1, Final(panels[a])} : Price(panels[a], t, s) > 0
      PROVE  Refused(panels[a], lag)
  BY <1>0, <1>4, ShorterLagRefused
<1>. QED
  BY <1>2, <1>3, <1>4 DEF MeasuredInTime

LEMMA Unconcentrated ==
  ASSUME SignalInv PROVE NoConcentratedBet
<1>. SUFFICES ASSUME measured.done, NEW a \in Studies, NEW t \in DOMAIN measured.book[a]
              PROVE  /\ ~measured.config.volume => \A s \in Shares : Abs(measured.book[a][t][s]) <= MaxWeight
                     /\ MapThenSumSet(LAMBDA s : Abs(measured.book[a][t][s]), Shares) <= Unit
                     /\ measured.config.longOnly => \A s \in Shares : measured.book[a][t][s] >= 0
  BY DEF NoConcentratedBet
<1>0. measured # Unmeasured /\ Panels
  BY DEF Unmeasured, SignalInv
<1>1. PICK config \in Configs : Evaluated(config)
  BY <1>0 DEF SignalInv
<1>2. measured.book[a] = BookOf(config, a) /\ measured.config = config
  BY <1>1 DEF Evaluated
<1>3. t \in 1..Final(panels[a])
  BY <1>2 DEF BookOf
<1>. DEFINE w == measured.book[a][t]
<1>4. Fair(config, panels[a], RebalanceDay(config, panels[a], t), w)
      /\ (~config.volume => \A s \in Shares : Abs(w[s]) <= MaxWeight)
  BY <1>0, <1>2, <1>3, BookFair
<1>5. MapThenSumSet(LAMBDA s : Abs(w[s]), Shares) <= Unit
  <2>. HIDE DEF w
  <2>. QED
    BY <1>4, GrossIs DEF Fair
<1>. QED
  BY <1>2, <1>4, <1>5 DEF Fair

(* Whatever the signal, the panels and the limits, a study measures what its      *)
(* signal knew, on a book within its limits.                                  *)
THEOREM MeasurementHonest ==
  Panels /\ SignalInit /\ [][\E config \in Configs : RunBacktest(config)]_sbVars => []MeasurementIsHonest
<1>1. Panels /\ SignalInit => SignalInv
  BY DEF SignalInit, SignalInv
<1>2. SignalInv /\ [\E config \in Configs : RunBacktest(config)]_sbVars => SignalInv'
  <2>. SUFFICES ASSUME SignalInv, [\E config \in Configs : RunBacktest(config)]_sbVars PROVE SignalInv'
    OBVIOUS
  <2>1. CASE UNCHANGED sbVars
    <3>1. panels' = panels /\ measured' = measured
      BY <2>1 DEF sbVars
    <3>2. Panels' <=> Panels
      BY <3>1 DEF Panels
    <3>3. \A config : Evaluated(config)' <=> Evaluated(config)
      BY <3>1 DEF Evaluated, BookOf, NetOf
    <3>. QED
      BY <3>1, <3>2, <3>3 DEF SignalInv
  <2>2. CASE \E config \in Configs : RunBacktest(config)
    <3>1. PICK config \in Configs : RunBacktest(config)
      BY <2>2
    <3>2. Panels
      BY DEF SignalInv
    <3>3. Evaluated(config)' /\ panels' = panels
      BY <3>1, <3>2, RunMeasures
    <3>4. Panels'
      BY <3>2, <3>3 DEF Panels
    <3>. QED
      BY <3>1, <3>3, <3>4 DEF SignalInv
  <2>. QED
    BY <2>1, <2>2
<1>3. SignalInv => MeasurementIsHonest
  BY InTime, Unconcentrated DEF MeasurementIsHonest
<1>. QED
  BY <1>1, <1>2, <1>3, PTL

-----------------------------------------------------------------------------
(* The desk                                                                  *)

Wishes == [enabled : SUBSET Book, cap : [Book -> 0..20], minCash : 0..20]

(* A step of the desk: on any news, whatever the base scores and the capital.      *)
DeskStep ==
    \/ Observe
    \/ \E s \in Measured : Measure(s) \/ Reenable(s)
    \/ \E base \in [Book -> Nat], capital \in Int, sleeves \in SUBSET Book :
         AllocateCapital(base, capital, sleeves)
    \/ \E target \in [Symbols -> Nat] : Rebalance(target)
    \/ \E s \in Symbols, step \in Int : PriceMoves(s, step)

(* Rounding down.                                                             *)
LEMMA Floors ==
  ASSUME NEW a \in Int, NEW d \in Nat \ {0}
  PROVE  a \div d \in Int /\ d * (a \div d) <= a /\ a < d * (a \div d) + d
OBVIOUS

LEMMA FloorLeast ==
  ASSUME NEW a \in Int, NEW d \in Nat \ {0}, NEW q \in Int, d * q <= a
  PROVE  q <= a \div d
<1>. DEFINE f == a \div d
<1>1. f \in Int /\ a < d * f + d
  BY Floors
<1>. HIDE DEF f
<1>2. d * q < d * (f + 1)
  BY <1>1
<1>3. q < f + 1
  BY <1>1, <1>2
<1>. QED
  BY <1>1, <1>3 DEF f

LEMMA FloorMonotone ==
  ASSUME NEW a \in Int, NEW b \in Int, NEW d \in Nat \ {0}, a <= b
  PROVE  a \div d <= b \div d
<1>1. a \div d \in Int /\ d * (a \div d) <= b
  BY Floors
<1>. QED
  BY <1>1, FloorLeast

LEMMA Rows ==
  ASSUME NEW l, NEW s, NEW i
  PROVE  /\ Row(l, s, i)[LongTerm] = l /\ Row(l, s, i)[Swing] = s /\ Row(l, s, i)[Intraday] = i
         /\ DOMAIN Row(l, s, i) = Book
BY SleevesAssumption DEF Row, Book

LEMMA Detected == ASSUME NEW e PROVE DetectRegime(e) \in Regimes
BY DEF DetectRegime, ScoresToRegime, Regimes

LEMMA Multipliers ==
  ASSUME NEW r \in Regimes, NEW s \in Book
  PROVE  SleeveMultipliers(r)[s] \in 0..20
BY Rows DEF SleeveMultipliers, Regimes, Book

LEMMA Healths == ASSUME NEW h PROVE HealthMultiplier(h) \in {0, 1, 2}
BY DEF HealthMultiplier

LEMMA ScoreIs ==
  ASSUME NEW base \in [Book -> Nat], NEW r \in Regimes, NEW state, NEW wishes, NEW s \in Book
  PROVE  /\ Score(base, r, state, wishes, s) \in Nat
         /\ s \notin wishes.enabled => Score(base, r, state, wishes, s) = 0
<1>. DEFINE raw == base[s] * SleeveMultipliers(r)[s] * HealthMultiplier(state[s])
<1>1. raw \in Nat
  <2>1. base[s] \in Nat /\ SleeveMultipliers(r)[s] \in Nat /\ HealthMultiplier(state[s]) \in Nat
    BY Multipliers, Healths
  <2>. QED
    BY <2>1
<1>2. Score(base, r, state, wishes, s) = IF s \in wishes.enabled /\ raw >= LeastScore THEN raw ELSE 0
  BY DEF Score
<1>. HIDE DEF raw
<1>. QED
  BY <1>1, <1>2

(* What a sleeve gets, spelled out.                                           *)
Scores(base, r, state, wishes) == [s \in Book |-> Score(base, r, state, wishes, s)]
Deployed(total) == IF total > FullScore THEN total ELSE FullScore
ByScore(capital, wishes, f, s) == (capital * (20 - wishes.minCash) * f[s]) \div (20 * Deployed(Total(f)))
ByCap(capital, wishes, s) == (capital * wishes.cap[s]) \div 20

LEMMA AmountsAre ==
  ASSUME NEW base, NEW capital, NEW r, NEW state, NEW wishes, NEW s \in Book,
         NEW f, f = Scores(base, r, state, wishes)
  PROVE  Amounts(base, capital, r, state, wishes)[s] =
           IF capital <= 0 \/ Total(f) < LeastTotal THEN 0
           ELSE IF ByScore(capital, wishes, f, s) < ByCap(capital, wishes, s)
                THEN ByScore(capital, wishes, f, s) ELSE ByCap(capital, wishes, s)
BY DEF Amounts, Scores, Deployed, ByScore, ByCap

LEMMA TotalOf ==
  ASSUME NEW f, \A s \in Book : f[s] \in Nat
  PROVE  Total(f) \in Nat /\ \A s \in Book : f[s] <= Total(f)
BY DEF Total, Book

(* The scores of any sleeves, and what their shares of the capital are.            *)
LEMMA ByScoreIs ==
  ASSUME NEW capital \in Nat, NEW wishes \in Wishes, NEW f, \A s \in Book : f[s] \in Nat, NEW s \in Book
  PROVE  /\ ByScore(capital, wishes, f, s) \in Nat
         /\ Deployed(Total(f)) \in Nat \ {0} /\ Total(f) <= Deployed(Total(f))
         /\ 20 * Deployed(Total(f)) * ByScore(capital, wishes, f, s) <= capital * (20 - wishes.minCash) * f[s]
<1>. DEFINE D == Deployed(Total(f))
            a == capital * (20 - wishes.minCash) * f[s]
<1>1. D \in Nat \ {0} /\ Total(f) <= D
  BY TotalOf DEF Deployed, FullScore
<1>2. a \in Nat
  <2>1. 20 - wishes.minCash \in Nat /\ f[s] \in Nat
    BY DEF Wishes
  <2>2. capital * (20 - wishes.minCash) \in Nat
    BY <2>1
  <2>. QED
    BY <2>1, <2>2
<1>3. ByScore(capital, wishes, f, s) = a \div (20 * D)
  BY DEF ByScore
<1>. HIDE DEF D, a
<1>4. 20 * D \in Nat \ {0}
  BY <1>1
<1>5. a \div (20 * D) \in Int /\ (20 * D) * (a \div (20 * D)) <= a
  BY <1>2, <1>4, Floors
<1>6. 0 <= a \div (20 * D)
  BY <1>2, <1>4, FloorLeast
<1>. QED
  BY <1>1, <1>3, <1>5, <1>6 DEF D, a

LEMMA ByCapIs ==
  ASSUME NEW capital \in Nat, NEW wishes \in Wishes, NEW s \in Book
  PROVE  ByCap(capital, wishes, s) \in Nat /\ 20 * ByCap(capital, wishes, s) <= wishes.cap[s] * capital
<1>1. wishes.cap[s] \in Nat
  BY DEF Wishes
<1>2. capital * wishes.cap[s] \in Nat /\ capital * wishes.cap[s] = wishes.cap[s] * capital
  BY <1>1
<1>3. 0 <= (capital * wishes.cap[s]) \div 20
  BY <1>2, FloorLeast
<1>. QED
  BY <1>2, <1>3, Floors DEF ByCap

(* Shares of a whole, by score, are not more than the whole.                     *)
LEMMA SharesOfWhole ==
  ASSUME NEW c \in Nat, NEW D \in Nat \ {0}, NEW x \in Nat, NEW y \in Nat, NEW z \in Nat,
         NEW a \in Nat, NEW b \in Nat, NEW d \in Nat, x + y + z <= D,
         20 * D * a <= c * x, 20 * D * b <= c * y, 20 * D * d <= c * z
  PROVE  20 * (a + b + d) <= c
<1>1. D * (20 * (a + b + d)) <= c * (x + y + z)
  OBVIOUS
<1>2. c * (x + y + z) <= c * D
  <2>1. \A p, q \in Nat : p <= q => c * p <= c * q
    OBVIOUS
  <2>. QED
    BY <2>1
<1>3. \A u \in Nat : D * u <= D * c => u <= c
  OBVIOUS
<1>4. D * (20 * (a + b + d)) <= D * c
  BY <1>1, <1>2
<1>. QED
  BY <1>3, <1>4

LEMMA AllocationKept ==
  ASSUME NEW base \in [Book -> Nat], NEW capital \in Int, NEW r \in Regimes, NEW state, NEW wishes \in Wishes,
         NEW g, g = Amounts(base, capital, r, state, wishes)
  PROVE  /\ \A s \in Book : g[s] \in Nat
         /\ ~Broken(capital, g, wishes)
<1>. DEFINE f == Scores(base, r, state, wishes)
<1>1. \A s \in Book : f[s] \in Nat /\ (s \notin wishes.enabled => f[s] = 0)
  BY ScoreIs DEF Scores
<1>2. \A s \in Book : g[s] = IF capital <= 0 \/ Total(f) < LeastTotal THEN 0
           ELSE IF ByScore(capital, wishes, f, s) < ByCap(capital, wishes, s)
                THEN ByScore(capital, wishes, f, s) ELSE ByCap(capital, wishes, s)
  BY AmountsAre
<1>. HIDE DEF f
<1>3. CASE capital <= 0
  BY <1>2, <1>3 DEF Broken
<1>4. CASE capital > 0
  <2>1. capital \in Nat \ {0}
    BY <1>4
  <2>. DEFINE D == Deployed(Total(f))
              c == capital * (20 - wishes.minCash)
  <2>2. ASSUME NEW s \in Book
        PROVE  /\ ByScore(capital, wishes, f, s) \in Nat /\ D \in Nat \ {0} /\ Total(f) <= D
               /\ 20 * D * ByScore(capital, wishes, f, s) <= c * f[s]
    BY <1>1, <2>1, ByScoreIs
  <2>3. ASSUME NEW s \in Book
        PROVE  ByCap(capital, wishes, s) \in Nat /\ 20 * ByCap(capital, wishes, s) <= wishes.cap[s] * capital
    BY <2>1, ByCapIs
  <2>4. c \in Nat
    BY <2>1 DEF Wishes
  <2>. HIDE DEF D, c
  <2>5. ASSUME NEW s \in Book
        PROVE  g[s] \in Nat /\ 20 * g[s] <= wishes.cap[s] * capital /\ 20 * D * g[s] <= c * f[s]
    <3>1. wishes.cap[s] * capital \in Nat /\ c * f[s] \in Nat
      BY <1>1, <2>1, <2>4 DEF Wishes
    <3>2. CASE g[s] = 0
      BY <2>2, <3>1, <3>2
    <3>3. CASE g[s] = ByScore(capital, wishes, f, s) /\ g[s] <= ByCap(capital, wishes, s)
      BY <2>2, <2>3, <3>1, <3>3
    <3>4. CASE g[s] = ByCap(capital, wishes, s) /\ g[s] <= ByScore(capital, wishes, f, s)
      <4>1. \A p, q \in Nat : p <= q => 20 * D * p <= 20 * D * q
        <5>1. D \in Nat
          BY <2>2
        <5>. QED
          BY <5>1
      <4>2. 20 * D * g[s] <= 20 * D * ByScore(capital, wishes, f, s)
        BY <2>2, <2>3, <3>4, <4>1
      <4>. QED
        BY <2>2, <2>3, <3>1, <3>4, <4>2
    <3>. QED
      BY <1>2, <2>2, <2>3, <3>2, <3>3, <3>4
  <2>6. ASSUME NEW s \in Book, s \notin wishes.enabled PROVE g[s] = 0
    <3>1. D \in Nat \ {0} /\ g[s] \in Nat /\ 20 * D * g[s] <= 0
      BY <1>1, <2>2, <2>4, <2>5, <2>6
    <3>2. \A u \in Nat : 20 * D * u <= 0 => u = 0
      BY <3>1
    <3>. QED
      BY <3>1, <3>2
  <2>7. 20 * Total(g) <= c
    <3>1. {LongTerm, Swing, Intraday} = Book
      BY DEF Book
    <3>2. f[LongTerm] + f[Swing] + f[Intraday] <= D
      BY <2>2, <3>1 DEF Total
    <3>. DEFINE x == f[LongTerm]
                y == f[Swing]
                z == f[Intraday]
                a == g[LongTerm]
                b == g[Swing]
                d == g[Intraday]
    <3>3. x \in Nat /\ y \in Nat /\ z \in Nat /\ x + y + z <= D /\ D \in Nat \ {0}
      BY <1>1, <2>2, <3>1, <3>2
    <3>4. /\ a \in Nat /\ b \in Nat /\ d \in Nat
          /\ 20 * D * a <= c * x /\ 20 * D * b <= c * y /\ 20 * D * d <= c * z
      BY <2>5, <3>1
    <3>5. Total(g) = a + b + d
      BY DEF Total
    <3>. HIDE DEF x, y, z, a, b, d
    <3>. QED
      BY ONLY <2>4, <3>3, <3>4, <3>5, SharesOfWhole
  <2>8. Total(g) \in Nat
    BY <2>5, TotalOf
  <2>9. 20 * (capital - Total(g)) >= wishes.minCash * capital
    <3>1. wishes.minCash \in Nat /\ c = 20 * capital - wishes.minCash * capital
      BY <2>1 DEF c, Wishes
    <3>2. wishes.minCash * capital \in Nat
      BY <2>1, <3>1
    <3>. QED
      BY <2>1, <2>7, <2>8, <3>1, <3>2
  <2>10. wishes.minCash * capital \in Int /\ \A s \in Book : wishes.cap[s] * capital \in Int
    BY <2>1 DEF Wishes
  <2>. QED
    BY <2>1, <2>5, <2>6, <2>8, <2>9, <2>10 DEF Broken
<1>. QED
  BY <1>3, <1>4

-----------------------------------------------------------------------------
(* The news                                                                  *)

(* How much is asked of the market before this regime is called.                 *)
Gloom(r) ==
    CASE r = "STRONG_BULL" -> 0 [] r = "WEAK_BULL" -> 1 [] r = "RECOVERY" -> 2 [] r = "SIDEWAYS" -> 3
      [] r = "HIGH_VOL" -> 4 [] r = "WEAK_BEAR" -> 5 [] r = "STRONG_BEAR" -> 6 [] OTHER -> 7

LEMMA NetInt == ASSUME NEW e PROVE Net(e) \in Int
<1>1. \A sign : Weight(sign, 2) \in Int /\ Weight(sign, 1) \in Int
  BY DEF Weight
<1>. QED
  BY <1>1 DEF Net

LEMMA GloomRises ==
  ASSUME NEW e, NEW x, Net(x) <= Net(e), x.few = e.few, x.bounce = e.bounce, Volatile(x) = Volatile(e),
         x.few \in BOOLEAN, x.bounce \in BOOLEAN,
         e.vix = "panic" \/ IsPricePanic(e) => x.vix = "panic" \/ IsPricePanic(x)
  PROVE  Gloom(DetectRegime(e)) <= Gloom(DetectRegime(x))
<1>1. Net(e) \in Int /\ Net(x) \in Int
  BY NetInt
<1>. QED
  BY <1>1 DEF Gloom, DetectRegime, ScoresToRegime

LEMMA PanicIsWorst ==
  ASSUME NEW e, NEW x, x.few = e.few, x.vix = "panic" \/ IsPricePanic(x)
  PROVE  Gloom(DetectRegime(e)) <= Gloom(DetectRegime(x))
BY Detected DEF Gloom, DetectRegime, ScoresToRegime, Regimes

LEMMA WorseIsGloomier ==
  ASSUME NEW e \in Evidence, NEW x \in Worse(e)
  PROVE  Gloom(DetectRegime(e)) <= Gloom(DetectRegime(x))
<1>1. ASSUME NEW v \in Signs, NEW w \in Below(v)
      PROVE  Weight(w, 1) <= Weight(v, 1) /\ Weight(w, 2) <= Weight(v, 2)
  <2>1. \/ v = "up" /\ w \in {"none", "down"}
        \/ v = "none" /\ w = "down"
    BY DEF Signs, Below
  <2>2. /\ Weight("up", 1) = 1 /\ Weight("none", 1) = 0 /\ Weight("down", 1) = -1
        /\ Weight("up", 2) = 2 /\ Weight("none", 2) = 0 /\ Weight("down", 2) = -2
    BY DEF Weight
  <2>. QED
    BY <2>1, <2>2
<1>2. \A sign : Weight(sign, 2) \in Int /\ Weight(sign, 1) \in Int
  BY DEF Weight
<1>0. e.few \in BOOLEAN /\ e.bounce \in BOOLEAN /\ e.trend \in Signs /\ e.cross \in Signs
      /\ e.momentum \in Signs /\ e.breadth \in Signs
  BY DEF Evidence
<1>3. \/ \E w \in Below(e.trend) : x = [e EXCEPT !.trend = w]
      \/ \E w \in Below(e.cross) : x = [e EXCEPT !.cross = w]
      \/ \E w \in Below(e.momentum) : x = [e EXCEPT !.momentum = w]
      \/ \E w \in Below(e.breadth) : x = [e EXCEPT !.breadth = w]
      \/ x = [e EXCEPT !.vix = "panic"]
      \/ \E w \in {"falling", "crash"} : x = [e EXCEPT !.fall = w]
  BY DEF Worse
<1>4. ASSUME NEW w \in Below(e.trend), x = [e EXCEPT !.trend = w]
      PROVE  Gloom(DetectRegime(e)) <= Gloom(DetectRegime(x))
  <2>1. x.trend = w /\ x.cross = e.cross /\ x.momentum = e.momentum /\ x.breadth = e.breadth /\ x.few = e.few
        /\ x.vix = e.vix /\ x.spike = e.spike /\ x.fall = e.fall /\ x.bounce = e.bounce
    BY <1>4 DEF Evidence
  <2>2. Net(x) <= Net(e)
    BY <1>0, <1>1, <1>2, <2>1 DEF Net
  <2>. QED
    BY <1>0, <2>1, <2>2, GloomRises DEF Volatile, IsPricePanic
<1>5. ASSUME NEW w \in Below(e.cross), x = [e EXCEPT !.cross = w]
      PROVE  Gloom(DetectRegime(e)) <= Gloom(DetectRegime(x))
  <2>1. x.trend = e.trend /\ x.cross = w /\ x.momentum = e.momentum /\ x.breadth = e.breadth /\ x.few = e.few
        /\ x.vix = e.vix /\ x.spike = e.spike /\ x.fall = e.fall /\ x.bounce = e.bounce
    BY <1>5 DEF Evidence
  <2>2. Net(x) <= Net(e)
    BY <1>0, <1>1, <1>2, <2>1 DEF Net
  <2>. QED
    BY <1>0, <2>1, <2>2, GloomRises DEF Volatile, IsPricePanic
<1>6. ASSUME NEW w \in Below(e.momentum), x = [e EXCEPT !.momentum = w]
      PROVE  Gloom(DetectRegime(e)) <= Gloom(DetectRegime(x))
  <2>1. x.trend = e.trend /\ x.cross = e.cross /\ x.momentum = w /\ x.breadth = e.breadth /\ x.few = e.few
        /\ x.vix = e.vix /\ x.spike = e.spike /\ x.fall = e.fall /\ x.bounce = e.bounce
    BY <1>6 DEF Evidence
  <2>2. Net(x) <= Net(e)
    BY <1>0, <1>1, <1>2, <2>1 DEF Net
  <2>. QED
    BY <1>0, <2>1, <2>2, GloomRises DEF Volatile, IsPricePanic
<1>7. ASSUME NEW w \in Below(e.breadth), x = [e EXCEPT !.breadth = w]
      PROVE  Gloom(DetectRegime(e)) <= Gloom(DetectRegime(x))
  <2>1. x.trend = e.trend /\ x.cross = e.cross /\ x.momentum = e.momentum /\ x.breadth = w /\ x.few = e.few
        /\ x.vix = e.vix /\ x.spike = e.spike /\ x.fall = e.fall /\ x.bounce = e.bounce
    BY <1>7 DEF Evidence
  <2>2. Net(x) <= Net(e)
    BY <1>0, <1>1, <1>2, <2>1 DEF Net
  <2>. QED
    BY <1>0, <2>1, <2>2, GloomRises DEF Volatile, IsPricePanic
<1>8. CASE x = [e EXCEPT !.vix = "panic"]
  <2>1. x.few = e.few /\ x.vix = "panic"
    BY <1>8 DEF Evidence
  <2>. QED
    BY <2>1, PanicIsWorst
<1>9. ASSUME NEW w \in {"falling", "crash"}, x = [e EXCEPT !.fall = w]
      PROVE  Gloom(DetectRegime(e)) <= Gloom(DetectRegime(x))
  <2>1. x.few = e.few /\ x.fall = w
    BY <1>9 DEF Evidence
  <2>. QED
    BY <2>1, PanicIsWorst DEF IsPricePanic
<1>. QED
  BY <1>3, <1>4, <1>5, <1>6, <1>7, <1>8, <1>9

(* The tables fall with the gloom, but that a sideways market leaves the intraday  *)
(* sleeve more than a recovery does.                                          *)
LEMMA GloomCosts ==
  ASSUME NEW r \in Regimes, NEW q \in Regimes, Gloom(r) <= Gloom(q)
  PROVE  /\ \A s \in {LongTerm, Swing} : SleeveMultipliers(q)[s] <= SleeveMultipliers(r)[s]
         /\ SleeveMultipliers(q)[Intraday] <= SleeveMultipliers(r)[Intraday] \/ (r = "RECOVERY" /\ q = "SIDEWAYS")
<1>1. /\ SleeveMultipliers("STRONG_BULL") = Row(20, 20, 20)
      /\ SleeveMultipliers("WEAK_BULL") = Row(17, 15, 13)
      /\ SleeveMultipliers("RECOVERY") = Row(15, 11, 9)
      /\ SleeveMultipliers("SIDEWAYS") = Row(12, 11, 10)
      /\ SleeveMultipliers("HIGH_VOL") = Row(9, 6, 4)
      /\ SleeveMultipliers("WEAK_BEAR") = Row(7, 4, 3)
      /\ SleeveMultipliers("STRONG_BEAR") = Row(4, 2, 1)
      /\ SleeveMultipliers("PANIC") = Row(3, 0, 0)
  BY DEF SleeveMultipliers
<1>2. \A s \in {LongTerm, Swing} : SleeveMultipliers(q)[s] <= SleeveMultipliers(r)[s]
  <2>1. SleeveMultipliers(q)[LongTerm] <= SleeveMultipliers(r)[LongTerm]
    BY <1>1, Rows DEF Regimes, Gloom
  <2>2. SleeveMultipliers(q)[Swing] <= SleeveMultipliers(r)[Swing]
    BY <1>1, Rows DEF Regimes, Gloom
  <2>. QED
    BY <2>1, <2>2
<1>3. SleeveMultipliers(q)[Intraday] <= SleeveMultipliers(r)[Intraday] \/ (r = "RECOVERY" /\ q = "SIDEWAYS")
  BY <1>1, Rows DEF Regimes, Gloom
<1>. QED
  BY <1>2, <1>3

LEMMA GloomCaps ==
  ASSUME NEW r \in Regimes, NEW q \in Regimes, Gloom(r) <= Gloom(q), NEW v \in Volatilities
  PROVE  EquityCap(q)[v] <= EquityCap(r)[v]
<1>1. \A a, b, c : /\ Caps(a, b, c)["LOW"] = a /\ Caps(a, b, c)["MEDIUM"] = b /\ Caps(a, b, c)["HIGH"] = c
  BY DEF Caps, Volatilities
<1>2. v \in {"LOW", "MEDIUM", "HIGH"}
  BY DEF Volatilities
<1>. QED
  BY <1>1, <1>2 DEF EquityCap, Regimes, Gloom

(* On the priors the scores never exceed the score at which all is deployed.       *)
LEMMA PriorScore ==
  ASSUME NEW r \in Regimes, NEW state, NEW wishes, NEW s \in Book
  PROVE  /\ Base[s] \in {15, 13, 11} /\ Score(Base, r, state, wishes, s) <= 40 * Base[s]
         /\ Score(Base, r, state, wishes, s) \in Nat
         /\ s \notin wishes.enabled \/ HealthMultiplier(state[s]) = 0 => Score(Base, r, state, wishes, s) = 0
<1>. DEFINE m == SleeveMultipliers(r)[s]
            h == HealthMultiplier(state[s])
            b == Base[s]
<1>1. b \in {15, 13, 11}
  BY Rows DEF Base, Book
<1>2. m \in 0..20 /\ h \in {0, 1, 2}
  BY Multipliers, Healths
<1>3. Score(Base, r, state, wishes, s) = IF s \in wishes.enabled /\ b * m * h >= LeastScore THEN b * m * h ELSE 0
  BY DEF Score
<1>. HIDE DEF m, h, b
<1>4. b * m * h \in Nat /\ b * m * h <= 40 * b /\ (h = 0 => b * m * h = 0)
  BY <1>1, <1>2
<1>. QED
  BY <1>1, <1>3, <1>4 DEF b, h

LEMMA PriorScores ==
  ASSUME NEW r \in Regimes, NEW state, NEW wishes, NEW f, f = Scores(Base, r, state, wishes)
  PROVE  /\ \A s \in Book : f[s] \in Nat /\ f[s] <= 600
         /\ Total(f) \in Nat /\ Deployed(Total(f)) = FullScore
         /\ \A s \in Book : f[s] <= Total(f)
<1>1. \A s \in Book : f[s] = Score(Base, r, state, wishes, s)
  BY DEF Scores
<1>2. {LongTerm, Swing, Intraday} = Book
  BY DEF Book
<1>3. Base[LongTerm] = 15 /\ Base[Swing] = 13 /\ Base[Intraday] = 11
  BY Rows DEF Base
<1>4. f[LongTerm] <= 600 /\ f[Swing] <= 520 /\ f[Intraday] <= 440
  <2>1. \A s \in Book : f[s] <= 40 * Base[s] /\ f[s] \in Nat
    BY <1>1, PriorScore
  <2>. QED
    BY <1>2, <1>3, <2>1
<1>5. \A s \in Book : f[s] \in Nat
  BY <1>1, PriorScore
<1>6. Total(f) \in Nat /\ Total(f) <= 1560 /\ \A s \in Book : f[s] <= Total(f)
  BY <1>2, <1>4, <1>5 DEF Total
<1>. QED
  BY <1>2, <1>4, <1>5, <1>6 DEF Deployed, FullScore

(* A score that is higher, the total still worth allocating, is never less money.      *)
LEMMA MoreForMore ==
  ASSUME NEW capital \in Int, NEW wishes \in Wishes, NEW r \in Regimes, NEW q \in Regimes, NEW state, NEW other,
         NEW s \in Book, NEW f, f = Scores(Base, r, state, wishes), NEW g, g = Scores(Base, q, other, wishes),
         f[s] <= g[s], f[s] > 0 /\ Total(f) >= LeastTotal => Total(g) >= LeastTotal
  PROVE  Amounts(Base, capital, r, state, wishes)[s] <= Amounts(Base, capital, q, other, wishes)[s]
<1>. DEFINE x == Amounts(Base, capital, r, state, wishes)[s]
            y == Amounts(Base, capital, q, other, wishes)[s]
            cap == ByCap(capital, wishes, s)
            u == ByScore(capital, wishes, f, s)
            v == ByScore(capital, wishes, g, s)
<1>1. /\ x = IF capital <= 0 \/ Total(f) < LeastTotal THEN 0 ELSE IF u < cap THEN u ELSE cap
      /\ y = IF capital <= 0 \/ Total(g) < LeastTotal THEN 0 ELSE IF v < cap THEN v ELSE cap
  BY AmountsAre
<1>2. /\ \A t \in Book : f[t] \in Nat /\ g[t] \in Nat
      /\ Total(f) \in Nat /\ Total(g) \in Nat /\ Deployed(Total(f)) = FullScore /\ Deployed(Total(g)) = FullScore
  BY PriorScores
<1>. HIDE DEF x, y
<1>3. CASE capital <= 0
  BY <1>1, <1>3 DEF x, y
<1>4. CASE capital > 0
  <2>1. capital \in Nat
    BY <1>4
  <2>2. u \in Nat /\ v \in Nat /\ cap \in Nat
    BY <1>2, <2>1, ByScoreIs, ByCapIs
  <2>3. u <= v
    <3>. DEFINE c == capital * (20 - wishes.minCash)
    <3>1. c \in Nat
      BY <2>1 DEF Wishes
    <3>2. u = (c * f[s]) \div (20 * FullScore) /\ v = (c * g[s]) \div (20 * FullScore)
      BY <1>2 DEF ByScore
    <3>. HIDE DEF c, u, v
    <3>3. c * f[s] <= c * g[s] /\ c * f[s] \in Int /\ c * g[s] \in Int
      <4>1. \A i, j \in Nat : i <= j => c * i <= c * j /\ c * i \in Int /\ c * j \in Int
        BY <3>1
      <4>. QED
        BY <1>2, <4>1
    <3>4. 20 * FullScore \in Nat \ {0}
      BY DEF FullScore
    <3>. QED
      BY <3>2, <3>3, <3>4, FloorMonotone
  <2>4. f[s] = 0 => u = 0
    <3>1. f[s] = 0 => u = (capital * (20 - wishes.minCash) * 0) \div (20 * FullScore)
      BY <1>2 DEF ByScore
    <3>2. capital * (20 - wishes.minCash) * 0 = 0 /\ 0 \div (20 * FullScore) = 0
      <4>1. capital * (20 - wishes.minCash) \in Int
        BY <2>1 DEF Wishes
      <4>. QED
        BY <4>1 DEF FullScore
    <3>. QED
      BY <3>1, <3>2
  <2>. HIDE DEF u, v, cap
  <2>5. f[s] \in Nat /\ LeastTotal \in Nat /\ ~(capital <= 0)
    BY <1>2, <1>4 DEF LeastTotal
  <2>6. y \in Nat
    <3>1. y \in {0, v, cap}
      BY ONLY <1>1
    <3>. QED
      BY <2>2, <3>1
  <2>7. ASSUME f[s] = 0 \/ Total(f) < LeastTotal PROVE x <= y
    <3>1. x = 0
      BY <1>1, <2>2, <2>4, <2>7
    <3>. QED
      BY <2>6, <3>1
  <2>8. ASSUME f[s] > 0 /\ Total(f) >= LeastTotal PROVE x <= y
    <3>1. ~(Total(f) < LeastTotal) /\ ~(Total(g) < LeastTotal)
      BY <1>2, <2>5, <2>8
    <3>2. x = (IF u < cap THEN u ELSE cap) /\ y = (IF v < cap THEN v ELSE cap)
      <4>1. capital <= 0 \/ Total(f) < LeastTotal <=> FALSE
        BY <2>5, <3>1
      <4>2. capital <= 0 \/ Total(g) < LeastTotal <=> FALSE
        BY <2>5, <3>1
      <4>. QED
        BY ONLY <1>1, <4>1, <4>2
    <3>. QED
      BY <2>2, <2>3, <3>2
  <2>9. x <= y
    <3>1. f[s] \in Nat /\ Total(f) \in Nat /\ LeastTotal \in Nat
      BY <1>2, <2>5
    <3>. QED
      BY ONLY <2>7, <2>8, <3>1
  <2>. QED
    BY <2>9 DEF x, y
<1>. QED
  BY <1>3, <1>4

LEMMA ScoreGrows ==
  ASSUME NEW r \in Regimes, NEW q \in Regimes, NEW state, NEW other, NEW wishes, NEW s \in Book,
         SleeveMultipliers(r)[s] <= SleeveMultipliers(q)[s],
         HealthMultiplier(state[s]) <= HealthMultiplier(other[s])
  PROVE  Score(Base, r, state, wishes, s) <= Score(Base, q, other, wishes, s)
<1>. DEFINE m == SleeveMultipliers(r)[s]
            n == SleeveMultipliers(q)[s]
            h == HealthMultiplier(state[s])
            k == HealthMultiplier(other[s])
            b == Base[s]
<1>1. b \in {15, 13, 11} /\ m \in 0..20 /\ n \in 0..20 /\ h \in {0, 1, 2} /\ k \in {0, 1, 2}
  BY PriorScore, Multipliers, Healths
<1>2. /\ Score(Base, r, state, wishes, s) = IF s \in wishes.enabled /\ b * m * h >= LeastScore THEN b * m * h ELSE 0
      /\ Score(Base, q, other, wishes, s) = IF s \in wishes.enabled /\ b * n * k >= LeastScore THEN b * n * k ELSE 0
  BY DEF Score
<1>3. m <= n /\ h <= k
  OBVIOUS
<1>. HIDE DEF m, n, h, k, b
<1>4. b * m * h \in Nat /\ b * n * k \in Nat /\ b * m * h <= b * n * k
  BY <1>1, <1>3
<1>. QED
  BY <1>2, <1>4 DEF LeastScore

LEMMA GloomPays ==
  ASSUME NEW r \in Regimes, NEW q \in Regimes, Gloom(r) <= Gloom(q), NEW state, NEW wishes,
         NEW s \in {LongTerm, Swing},
         NEW f, f = Scores(Base, q, state, wishes), NEW g, g = Scores(Base, r, state, wishes)
  PROVE  f[s] <= g[s] /\ (f[s] > 0 /\ Total(f) >= LeastTotal => Total(g) >= LeastTotal)
<1>0. {LongTerm, Swing, Intraday} = Book
  BY DEF Book
<1>1. \A t \in Book : HealthMultiplier(state[t]) <= HealthMultiplier(state[t])
  BY Healths
<1>2. /\ \A t \in {LongTerm, Swing} : SleeveMultipliers(q)[t] <= SleeveMultipliers(r)[t]
      /\ SleeveMultipliers(q)[Intraday] <= SleeveMultipliers(r)[Intraday] \/ (r = "RECOVERY" /\ q = "SIDEWAYS")
  BY GloomCosts
<1>3. \A t \in {LongTerm, Swing} : f[t] <= g[t]
  BY <1>0, <1>1, <1>2, ScoreGrows DEF Scores
<1>4. /\ \A t \in Book : f[t] \in Nat /\ g[t] \in Nat /\ g[t] <= Total(g)
      /\ Total(f) \in Nat /\ Total(g) \in Nat
  BY PriorScores
<1>5. CASE SleeveMultipliers(q)[Intraday] <= SleeveMultipliers(r)[Intraday]
  <2>1. f[Intraday] <= g[Intraday]
    BY <1>0, <1>1, <1>5, ScoreGrows DEF Scores
  <2>2. Total(f) <= Total(g)
    BY <1>0, <1>3, <1>4, <2>1 DEF Total
  <2>. QED
    BY <1>3, <1>4, <2>2 DEF LeastTotal
<1>6. ASSUME r = "RECOVERY", f[s] > 0 PROVE Total(g) >= LeastTotal
  <2>. DEFINE h == HealthMultiplier(state[s])
              b == Base[s]
              m == SleeveMultipliers(r)[s]
  <2>1. s \in wishes.enabled /\ h # 0
    BY <1>0, <1>6, PriorScore DEF Scores
  <2>2. g[s] = IF s \in wishes.enabled /\ b * m * h >= LeastScore THEN b * m * h ELSE 0
    BY <1>0 DEF Scores, Score
  <2>3. (b = 15 /\ m = 15) \/ (b = 13 /\ m = 11)
    <3>1. Base = Row(15, 13, 11)
      BY DEF Base
    <3>2. SleeveMultipliers(r) = Row(15, 11, 9)
      BY <1>6 DEF SleeveMultipliers
    <3>3. s = LongTerm \/ s = Swing
      OBVIOUS
    <3>. QED
      BY <3>1, <3>2, <3>3, Rows
  <2>4. h \in {1, 2}
    BY <2>1, Healths
  <2>. HIDE DEF h, b, m
  <2>5. b * m * h >= 120
    BY <2>3, <2>4
  <2>6. g[s] >= 120
    BY <2>1, <2>2, <2>3, <2>4, <2>5 DEF LeastScore
  <2>. QED
    BY <1>0, <1>4, <2>6 DEF LeastTotal
<1>. QED
  BY <1>2, <1>3, <1>5, <1>6

(* A health that is reduced halves what the score brings.                        *)
LEMMA ReducedHalves ==
  ASSUME NEW capital \in Int, NEW wishes \in Wishes, NEW r \in Regimes, NEW state, NEW s \in Book,
         state[s] # "HEALTHY", NEW other, other[s] = "HEALTHY"
  PROVE  2 * Amounts(Base, capital, r, state, wishes)[s]
           <= Amounts(Base, capital, r, other, [wishes EXCEPT !.cap = Row(20, 20, 20)])[s]
<1>. DEFINE free == [wishes EXCEPT !.cap = Row(20, 20, 20)]
            f == Scores(Base, r, state, wishes)
            g == Scores(Base, r, other, free)
            x == Amounts(Base, capital, r, state, wishes)[s]
            y == Amounts(Base, capital, r, other, free)[s]
            c == capital * (20 - wishes.minCash)
            u == ByScore(capital, wishes, f, s)
            v == ByScore(capital, free, g, s)
<1>1. /\ free \in Wishes /\ free.enabled = wishes.enabled /\ free.minCash = wishes.minCash
      /\ \A t \in Book : free.cap[t] = 20
  <2>1. Row(20, 20, 20) \in [Book -> 0..20] /\ \A t \in Book : Row(20, 20, 20)[t] = 20
    BY DEF Row
  <2>. QED
    BY <2>1 DEF Wishes
<1>. HIDE DEF free
<1>2. /\ x = IF capital <= 0 \/ Total(f) < LeastTotal THEN 0
             ELSE IF u < ByCap(capital, wishes, s) THEN u ELSE ByCap(capital, wishes, s)
      /\ y = IF capital <= 0 \/ Total(g) < LeastTotal THEN 0
             ELSE IF v < ByCap(capital, free, s) THEN v ELSE ByCap(capital, free, s)
  BY <1>1, AmountsAre
<1>3. /\ \A t \in Book : f[t] \in Nat /\ g[t] \in Nat /\ g[t] <= 600
      /\ Total(f) \in Nat /\ Total(g) \in Nat /\ Deployed(Total(f)) = FullScore /\ Deployed(Total(g)) = FullScore
      /\ g[s] <= Total(g)
  BY <1>1, PriorScores
<1>4. HealthMultiplier(state[s]) \in {0, 1} /\ HealthMultiplier(other[s]) = 2
  BY DEF HealthMultiplier
<1>6. 2 * f[s] <= g[s] /\ (f[s] = 0 \/ Total(g) >= LeastTotal)
  <2>. DEFINE b == Base[s]
              m == SleeveMultipliers(r)[s]
              h == HealthMultiplier(state[s])
  <2>1. /\ f[s] = IF s \in wishes.enabled /\ b * m * h >= LeastScore THEN b * m * h ELSE 0
        /\ g[s] = IF s \in wishes.enabled /\ b * m * 2 >= LeastScore THEN b * m * 2 ELSE 0
    BY <1>1, <1>4 DEF Scores, Score
  <2>2. b \in {15, 13, 11} /\ m \in 0..20 /\ h \in {0, 1}
    BY <1>4, PriorScore, Multipliers
  <2>. HIDE DEF b, m, h, f, g
  <2>. QED
    BY <1>3, <2>1, <2>2 DEF LeastScore, LeastTotal
<1>8. ASSUME capital > 0 PROVE /\ u \in Nat /\ v \in Nat /\ ByCap(capital, wishes, s) \in Nat /\ 2 * u <= v
                               /\ ByCap(capital, free, s) = capital /\ v <= capital
  <2>1. capital \in Nat
    BY <1>8
  <2>2. u \in Nat /\ v \in Nat /\ ByCap(capital, wishes, s) \in Nat
    BY <1>1, <1>3, <2>1, ByScoreIs, ByCapIs
  <2>3. c \in Nat /\ c <= 20 * capital
    <3>1. wishes.minCash \in 0..20
      BY DEF Wishes
    <3>2. \A k \in 0..20 : capital * (20 - k) \in Nat /\ capital * (20 - k) <= 20 * capital
      BY <2>1
    <3>. QED
      BY <3>1, <3>2
  <2>4. u = (c * f[s]) \div (20 * FullScore) /\ v = (c * g[s]) \div (20 * FullScore)
    BY <1>1, <1>3 DEF ByScore
  <2>5. ByCap(capital, free, s) = capital
    <3>1. (capital * 20) \div 20 = capital
      BY <2>1
    <3>. QED
      BY <1>1, <3>1 DEF ByCap
  <2>6. f[s] \in Nat /\ g[s] \in Nat /\ g[s] <= 600
    BY <1>3
  <2>. HIDE DEF c, u, v, f, g
  <2>7. c * f[s] \in Nat /\ c * g[s] \in Nat /\ 2 * (c * f[s]) <= c * g[s] /\ c * g[s] <= 600 * c
    <3>1. \A i, j \in Nat : 2 * i <= j /\ j <= 600 =>
            c * i \in Nat /\ c * j \in Nat /\ 2 * (c * i) <= c * j /\ c * j <= 600 * c
      <4>1. \A i, j \in Nat : i <= j => c * i <= c * j
        BY <2>3
      <4>2. \A i \in Nat : c * i \in Nat /\ 2 * (c * i) = c * (2 * i) /\ 2 * i \in Nat
        BY <2>3
      <4>3. c * 600 = 600 * c
        BY <2>3
      <4>. QED
        BY <4>1, <4>2, <4>3
    <3>. QED
      BY <1>6, <2>6, <3>1
  <2>8. 20 * FullScore = 31200
    BY DEF FullScore
  <2>9. 2 * u <= v /\ v <= capital
    <3>. DEFINE i == c * f[s]
                j == c * g[s]
    <3>1. i \in Nat /\ j \in Nat /\ 2 * i <= j /\ j <= 12000 * capital
      BY <2>1, <2>3, <2>7
    <3>2. u = i \div 31200 /\ v = j \div 31200
      BY <2>4, <2>8
    <3>. HIDE DEF i, j
    <3>. QED
      BY <2>1, <3>1, <3>2
  <2>. QED
    BY <2>2, <2>5, <2>9
<1>. HIDE DEF x, y, u, v, f, g
<1>9. ASSUME capital <= 0 PROVE 2 * x <= y
  BY <1>2, <1>9
<1>10. ASSUME capital > 0 PROVE 2 * x <= y
  <2>1. ~(capital <= 0) /\ LeastTotal \in Nat
    BY <1>10 DEF LeastTotal
  <2>2. /\ u \in Nat /\ v \in Nat /\ ByCap(capital, wishes, s) \in Nat /\ 2 * u <= v
        /\ ByCap(capital, free, s) = capital /\ v <= capital
    BY <1>8, <1>10
  <2>3. CASE f[s] = 0 \/ Total(f) < LeastTotal
    <3>1. f[s] = 0 => u = 0
      <4>1. c \in Nat /\ (c * 0) \div (20 * FullScore) = 0
        <5>1. capital \in Nat /\ wishes.minCash \in 0..20
          BY <1>10 DEF Wishes
        <5>. QED
          BY <5>1 DEF FullScore
      <4>. QED
        BY <1>3, <4>1 DEF u, ByScore
    <3>2. x = 0
      BY <1>2, <2>2, <2>3, <3>1
    <3>3. y \in Nat
      BY <1>2, <2>2
    <3>. QED
      BY <3>2, <3>3
  <2>4. CASE f[s] # 0 /\ ~(Total(f) < LeastTotal)
    <3>1. ~(Total(g) < LeastTotal)
      BY <1>3, <1>6, <2>1, <2>4
    <3>2. x = (IF u < ByCap(capital, wishes, s) THEN u ELSE ByCap(capital, wishes, s))
          /\ y = (IF v < capital THEN v ELSE capital)
      BY <1>2, <2>1, <2>2, <2>4, <3>1
    <3>. QED
      BY <2>2, <3>2
  <2>. QED
    BY <2>3, <2>4
<1>. QED
  BY <1>9, <1>10 DEF x, y, free

(* The desk between two steps: a health not better than its drawdown allows, and an  *)
(* allocation that is what the scores of now give.                              *)
HealthStates == {"HEALTHY", "REDUCED", "PAUSED", "DISABLED"}
Drawn(s) ==
    /\ drawdown[s] > 10 => health[s] \in {"PAUSED", "DISABLED"}
    /\ drawdown[s] > 5 => health[s] # "HEALTHY"
    /\ s \in barred => health[s] = "DISABLED"
Allocated ==
    given.made =>
        /\ given.base \in [Book -> Nat] /\ given.capital \in Int /\ given.reported \in SUBSET Book
        /\ given.amounts = Amounts(given.base, given.capital, DetectRegime(evidence), Reported(given.reported), user)
        /\ ~given.broken
DeskTyped ==
    /\ evidence \in Evidence /\ user \in Wishes
    /\ health \in [Book -> HealthStates] /\ drawdown \in [Book -> Nat] /\ barred \subseteq Book
DeskInv == DeskTyped /\ (\A s \in Book : Drawn(s)) /\ Allocated

LEMMA AssessedIs ==
  ASSUME NEW old \in HealthStates, NEW m \in Metrics, NEW h, h = UpdateHealth(old, m)
  PROVE  /\ h \in HealthStates /\ m.drawdown \in Nat
         /\ m.drawdown > 20 => h = "DISABLED"
         /\ m.drawdown > 10 => h \in {"PAUSED", "DISABLED"}
         /\ m.drawdown > 5 => h # "HEALTHY"
         /\ old = "DISABLED" => h = "DISABLED"
<1>1. m.drawdown \in {3, 5, 10, 20, 21}
  BY DEF Metrics
<1>. QED
  BY <1>1 DEF UpdateHealth, Assessed, HealthStates

LEMMA DeskStart ==
  ASSUME SleevesInit PROVE DeskInv
<1>1. DeskTyped
  BY SleevesAssumption DEF SleevesInit, DeskTyped, HealthStates, Wishes, Evidence
<1>. QED
  BY <1>1 DEF SleevesInit, DeskInv, Drawn, Allocated, NoAllocation

LEMMA DeskKeeps ==
  ASSUME DeskInv, [DeskStep]_slVars PROVE DeskInv'
<1>1. ASSUME Observe PROVE DeskInv'
  <2>1. evidence' \in Evidence
    <3>1. evidence \in Evidence
      BY DEF DeskInv, DeskTyped
    <3>2. Changed(evidence) \subseteq Evidence
      BY <3>1 DEF Changed, Evidence
    <3>. QED
      BY <1>1, <3>2 DEF Observe
  <2>2. UNCHANGED <<health, drawdown, barred, user>> /\ given' = NoAllocation
    BY <1>1 DEF Observe
  <2>. QED
    BY <2>1, <2>2 DEF DeskInv, DeskTyped, Drawn, Allocated, NoAllocation
<1>2. ASSUME NEW s \in Measured, Measure(s) PROVE DeskInv'
  <2>1. PICK m \in Metrics :
          /\ health' = [health EXCEPT ![s] = UpdateHealth(@, m)]
          /\ drawdown' = [drawdown EXCEPT ![s] = m.drawdown]
          /\ barred' = IF m.drawdown > 20 THEN barred \cup {s} ELSE barred
    BY <1>2 DEF Measure
  <2>2. given' = NoAllocation /\ UNCHANGED <<evidence, user>>
    BY <1>2 DEF Measure
  <2>3. s \in Book /\ DeskTyped /\ \A t \in Book : Drawn(t)
    BY SleevesAssumption DEF DeskInv
  <2>. DEFINE h == UpdateHealth(health[s], m)
  <2>4. health[s] \in HealthStates
    BY <2>3 DEF DeskTyped
  <2>5. /\ h \in HealthStates /\ m.drawdown \in Nat
        /\ m.drawdown > 20 => h = "DISABLED"
        /\ m.drawdown > 10 => h \in {"PAUSED", "DISABLED"}
        /\ m.drawdown > 5 => h # "HEALTHY"
        /\ health[s] = "DISABLED" => h = "DISABLED"
    BY <2>4, AssessedIs
  <2>6. /\ health' = [health EXCEPT ![s] = h] /\ health'[s] = h /\ drawdown'[s] = m.drawdown
        /\ \A t \in Book \ {s} : health'[t] = health[t] /\ drawdown'[t] = drawdown[t]
    BY <2>1, <2>3 DEF DeskTyped
  <2>. HIDE DEF h
  <2>7. DeskTyped'
    BY <2>1, <2>2, <2>3, <2>5, <2>6 DEF DeskTyped
  <2>8. Drawn(s)'
    BY <2>1, <2>3, <2>5, <2>6 DEF Drawn
  <2>9. ASSUME NEW t \in Book \ {s} PROVE Drawn(t)'
    <3>1. Drawn(t) /\ (t \in barred' => t \in barred)
      BY <2>1, <2>3
    <3>. QED
      BY <2>6, <3>1 DEF Drawn
  <2>. QED
    BY <2>2, <2>7, <2>8, <2>9 DEF DeskInv, Allocated, NoAllocation
<1>3. ASSUME NEW s \in Measured, Reenable(s) PROVE DeskInv'
  <2>1. /\ drawdown[s] <= 3 /\ health' = [health EXCEPT ![s] = "HEALTHY"] /\ barred' = barred \ {s}
        /\ given' = NoAllocation /\ UNCHANGED <<evidence, drawdown, user>>
    BY <1>3 DEF Reenable
  <2>2. s \in Book /\ DeskTyped /\ \A t \in Book : Drawn(t)
    BY SleevesAssumption DEF DeskInv
  <2>3. health'[s] = "HEALTHY" /\ \A t \in Book \ {s} : health'[t] = health[t]
    BY <2>1, <2>2 DEF DeskTyped
  <2>4. DeskTyped'
    BY <2>1, <2>2 DEF DeskTyped, HealthStates
  <2>5. Drawn(s)'
    <3>1. drawdown[s] \in Nat
      BY <2>2 DEF DeskTyped
    <3>. QED
      BY <2>1, <3>1 DEF Drawn
  <2>6. ASSUME NEW t \in Book \ {s} PROVE Drawn(t)'
    <3>1. Drawn(t) /\ (t \in barred' => t \in barred)
      BY <2>1, <2>2
    <3>. QED
      BY <2>1, <2>3, <3>1 DEF Drawn
  <2>. QED
    BY <2>1, <2>4, <2>5, <2>6 DEF DeskInv, Allocated, NoAllocation
<1>4. ASSUME NEW base \in [Book -> Nat], NEW capital \in Int, NEW sleeves \in SUBSET Book,
             AllocateCapital(base, capital, sleeves)
      PROVE  DeskInv'
  <2>. DEFINE amounts == Amounts(base, capital, DetectRegime(evidence), Reported(sleeves), user)
  <2>1. /\ given' = [made |-> TRUE, base |-> base, capital |-> capital, amounts |-> amounts,
                     reported |-> sleeves, broken |-> Broken(capital, amounts, user)]
        /\ UNCHANGED <<evidence, health, drawdown, barred, user>>
    BY <1>4 DEF AllocateCapital
  <2>2. ~Broken(capital, amounts, user)
    BY Detected, AllocationKept DEF DeskInv, DeskTyped
  <2>3. Reported(sleeves)' = Reported(sleeves)
    BY <2>1 DEF Reported
  <2>4. Allocated'
    <3>1. /\ given'.base = base /\ given'.capital = capital /\ given'.reported = sleeves
          /\ given'.amounts = amounts /\ given'.broken = Broken(capital, amounts, user)
      BY <2>1
    <3>2. amounts = Amounts(given.base, given.capital, DetectRegime(evidence), Reported(given.reported), user)'
      BY <2>1, <2>3, <3>1
    <3>. QED
      BY <2>2, <3>1, <3>2 DEF Allocated
  <2>. QED
    BY <2>1, <2>4 DEF DeskInv, DeskTyped, Drawn
<1>5. ASSUME UNCHANGED desk PROVE DeskInv'
  <2>1. UNCHANGED <<evidence, health, drawdown, barred, user, given>>
    BY <1>5 DEF desk
  <2>2. \A sleeves : Reported(sleeves)' = Reported(sleeves)
    BY <2>1 DEF Reported
  <2>. QED
    BY <2>1, <2>2 DEF DeskInv, DeskTyped, Drawn, Allocated
<1>6. ASSUME NEW target, Rebalance(target) PROVE UNCHANGED desk
  BY <1>6 DEF Rebalance
<1>7. ASSUME NEW s, NEW step, PriceMoves(s, step) PROVE UNCHANGED desk
  BY <1>7 DEF PriceMoves, desk
<1>8. ASSUME UNCHANGED slVars PROVE UNCHANGED desk
  BY <1>8 DEF slVars, desk
<1>. QED
  BY <1>1, <1>2, <1>3, <1>4, <1>5, <1>6, <1>7, <1>8 DEF DeskStep

LEMMA StarvedByDrawdown ==
  ASSUME DeskInv PROVE DrawdownStarves
<1>. SUFFICES ASSUME given.made, NEW s \in given.reported
              PROVE  /\ drawdown[s] > 10 \/ s \in barred => given.amounts[s] = 0
                     /\ drawdown[s] > 5 /\ given.base = Base =>
                          2 * given.amounts[s] <= Amounts(Base, given.capital, DetectRegime(evidence),
                                                          [health EXCEPT ![s] = "HEALTHY"],
                                                          [user EXCEPT !.cap = Row(20, 20, 20)])[s]
  BY DEF DrawdownStarves
<1>. DEFINE r == DetectRegime(evidence)
            state == Reported(given.reported)
            f == Scores(given.base, r, state, user)
<1>1. /\ given.base \in [Book -> Nat] /\ given.capital \in Int /\ given.reported \in SUBSET Book
      /\ given.amounts = Amounts(given.base, given.capital, r, state, user)
  BY DEF DeskInv, Allocated
<1>2. s \in Book /\ Drawn(s) /\ state[s] = health[s] /\ r \in Regimes /\ user \in Wishes
      /\ health \in [Book -> HealthStates]
  BY <1>1, Detected DEF DeskInv, DeskTyped, Reported
<1>3. ASSUME drawdown[s] > 10 \/ s \in barred PROVE given.amounts[s] = 0
  <2>1. HealthMultiplier(state[s]) = 0
    BY <1>2, <1>3 DEF Drawn, HealthMultiplier
  <2>2. f[s] = 0
    <3>1. given.base[s] * SleeveMultipliers(r)[s] * 0 = 0
      <4>1. given.base[s] \in Nat /\ SleeveMultipliers(r)[s] \in Nat
        BY <1>1, <1>2, Multipliers
      <4>. QED
        BY <4>1
    <3>. QED
      BY <1>2, <2>1, <3>1 DEF Score, Scores
  <2>3. \A t \in Book : f[t] \in Nat
    BY <1>1, <1>2, ScoreIs DEF Scores
  <2>4. given.amounts[s] = IF given.capital <= 0 \/ Total(f) < LeastTotal THEN 0
           ELSE IF ByScore(given.capital, user, f, s) < ByCap(given.capital, user, s)
                THEN ByScore(given.capital, user, f, s) ELSE ByCap(given.capital, user, s)
    BY <1>1, <1>2, AmountsAre
  <2>. HIDE DEF f
  <2>5. ASSUME given.capital > 0 PROVE ByScore(given.capital, user, f, s) = 0 /\ ByCap(given.capital, user, s) \in Nat
    <3>1. given.capital \in Nat
      BY <1>1, <2>5
    <3>. DEFINE D == Deployed(Total(f))
                u == ByScore(given.capital, user, f, s)
                c == given.capital * (20 - user.minCash)
    <3>2. /\ u \in Nat /\ D \in Nat \ {0} /\ 20 * D * u <= c * f[s] /\ ByCap(given.capital, user, s) \in Nat
      BY <1>2, <2>3, <3>1, ByScoreIs, ByCapIs
    <3>3. c \in Nat
      BY <1>2, <3>1 DEF Wishes
    <3>. HIDE DEF D, u, c
    <3>4. c * f[s] = 0
      BY <2>2, <3>3
    <3>5. \A i \in Nat : 20 * D * i <= 0 => i = 0
      BY <3>2
    <3>. QED
      BY <3>2, <3>4, <3>5 DEF u
  <2>. QED
    BY <1>1, <2>4, <2>5
<1>4. ASSUME drawdown[s] > 5, given.base = Base
      PROVE  2 * given.amounts[s] <= Amounts(Base, given.capital, r, [health EXCEPT ![s] = "HEALTHY"],
                                             [user EXCEPT !.cap = Row(20, 20, 20)])[s]
  <2>1. state[s] # "HEALTHY"
    BY <1>2, <1>4 DEF Drawn
  <2>. DEFINE other == [health EXCEPT ![s] = "HEALTHY"]
  <2>2. other[s] = "HEALTHY"
    BY <1>2
  <2>. HIDE DEF other, state, r
  <2>3. 2 * Amounts(Base, given.capital, r, state, user)[s]
          <= Amounts(Base, given.capital, r, other, [user EXCEPT !.cap = Row(20, 20, 20)])[s]
    BY <1>1, <1>2, <2>1, <2>2, ReducedHalves
  <2>. QED
    BY <1>1, <1>4, <2>3 DEF other
<1>. QED
  BY <1>3, <1>4

(* No news of the market that is worse, and no health, brings a sleeve more.       *)
LEMMA NewsNeverRaises ==
  ASSUME DeskInv PROVE WorseNewsNeverRaises
<1>. SUFFICES ASSUME given.made, given.base = Base
              PROVE  LET Now(e, state) == Amounts(Base, given.capital, DetectRegime(e), state, user)
                         state == Reported(given.reported)
                     IN /\ \A e \in Worse(evidence), s \in {LongTerm, Swing} :
                             Now(e, state)[s] <= given.amounts[s]
                        /\ \A e \in Worse(evidence), v \in Volatilities \cup {"unknown"} :
                             DetectCombined(e, v).cap <= DetectCombined(evidence, v).cap
                        /\ \A s \in Book : state[s] = "HEALTHY" =>
                             Now(evidence, [state EXCEPT ![s] = "REDUCED"])[s] <= given.amounts[s]
  BY DEF WorseNewsNeverRaises
<1>. DEFINE r == DetectRegime(evidence)
            state == Reported(given.reported)
<1>1. /\ given.capital \in Int /\ given.amounts = Amounts(Base, given.capital, r, state, user)
      /\ r \in Regimes /\ user \in Wishes /\ evidence \in Evidence /\ DOMAIN state = Book
  BY Detected DEF DeskInv, DeskTyped, Allocated, Reported
<1>2. ASSUME NEW e \in Worse(evidence) PROVE DetectRegime(e) \in Regimes /\ Gloom(r) <= Gloom(DetectRegime(e))
  BY <1>1, Detected, WorseIsGloomier
<1>. HIDE DEF r, state
<1>3. ASSUME NEW e \in Worse(evidence), NEW s \in {LongTerm, Swing}
      PROVE  Amounts(Base, given.capital, DetectRegime(e), state, user)[s] <= given.amounts[s]
  <2>. DEFINE q == DetectRegime(e)
              f == Scores(Base, q, state, user)
              g == Scores(Base, r, state, user)
  <2>1. q \in Regimes /\ Gloom(r) <= Gloom(q) /\ s \in Book
    BY <1>2 DEF Book
  <2>. HIDE DEF q
  <2>2. f[s] <= g[s] /\ (f[s] > 0 /\ Total(f) >= LeastTotal => Total(g) >= LeastTotal)
    BY <1>1, <2>1, GloomPays
  <2>3. Amounts(Base, given.capital, q, state, user)[s] <= Amounts(Base, given.capital, r, state, user)[s]
    BY <1>1, <2>1, <2>2, MoreForMore
  <2>. QED
    BY <1>1, <2>3 DEF q
<1>4. ASSUME NEW e \in Worse(evidence), NEW v \in Volatilities \cup {"unknown"}
      PROVE  DetectCombined(e, v).cap <= DetectCombined(evidence, v).cap
  <2>1. Classified(v) \in Volatilities
    BY DEF Classified, Volatilities
  <2>2. EquityCap(DetectRegime(e))[Classified(v)] <= EquityCap(r)[Classified(v)]
    BY <1>1, <1>2, <2>1, GloomCaps
  <2>. QED
    BY <2>2 DEF DetectCombined, r
<1>5. ASSUME NEW s \in Book, state[s] = "HEALTHY"
      PROVE  Amounts(Base, given.capital, r, [state EXCEPT ![s] = "REDUCED"], user)[s] <= given.amounts[s]
  <2>. DEFINE worse == [state EXCEPT ![s] = "REDUCED"]
              f == Scores(Base, r, worse, user)
              g == Scores(Base, r, state, user)
  <2>1. \A t \in Book : /\ HealthMultiplier(worse[t]) <= HealthMultiplier(state[t])
                        /\ SleeveMultipliers(r)[t] <= SleeveMultipliers(r)[t]
    <3>1. HealthMultiplier(worse[s]) <= HealthMultiplier(state[s])
      BY <1>1, <1>5 DEF HealthMultiplier
    <3>2. \A t \in Book \ {s} : worse[t] = state[t]
      BY <1>1
    <3>. QED
      BY <1>1, <3>1, <3>2, Healths, Multipliers
  <2>. HIDE DEF worse
  <2>2. \A t \in Book : f[t] <= g[t] /\ f[t] \in Nat /\ g[t] \in Nat
    <3>1. \A t \in Book : f[t] <= g[t]
      BY <1>1, <2>1, ScoreGrows DEF Scores
    <3>. QED
      BY <1>1, <3>1, PriorScores
  <2>3. Total(f) <= Total(g) /\ Total(f) \in Nat /\ Total(g) \in Nat
    <3>1. {LongTerm, Swing, Intraday} = Book
      BY DEF Book
    <3>. HIDE DEF f, g
    <3>. QED
      BY <2>2, <3>1 DEF Total
  <2>4. f[s] <= g[s] /\ (f[s] > 0 /\ Total(f) >= LeastTotal => Total(g) >= LeastTotal)
    BY <2>2, <2>3 DEF LeastTotal
  <2>5. Amounts(Base, given.capital, r, worse, user)[s] <= Amounts(Base, given.capital, r, state, user)[s]
    BY <1>1, <2>4, MoreForMore
  <2>. QED
    BY <1>1, <2>5 DEF worse
<1>. QED
  BY <1>3, <1>4, <1>5 DEF r, state

-----------------------------------------------------------------------------
(* The rebalanced book                                                       *)

LEMMA SumIs ==
  ASSUME NEW f, DOMAIN f = Symbols PROVE Sum(f) = SumFunction(f)
BY DEF Sum, MapThenSumSet, SumFunction, FoldFunction, FoldFunctionOnSet, SumFunctionOnSet, MapThenFoldSet

LEMMA SymbolsFinite == IsFiniteSet(Symbols)
BY SleevesAssumption

LEMMA SumOfInts ==
  ASSUME NEW f \in [Symbols -> Int] PROVE Sum(f) \in Int
<1>1. DOMAIN f = Symbols /\ Whole(f, DOMAIN f)
  BY DEF Whole
<1>. QED
  BY <1>1, SumIs, SumInt, SymbolsFinite

LEMMA SumOfNats ==
  ASSUME NEW f \in [Symbols -> Nat] PROVE Sum(f) \in Nat /\ \A s \in Symbols : f[s] <= Sum(f)
<1>1. DOMAIN f = Symbols /\ \A s \in DOMAIN f : f[s] \in Nat
  OBVIOUS
<1>. QED
  BY <1>1, SumIs, SumNat, SymbolsFinite

LEMMA SumOfSum ==
  ASSUME NEW f \in [Symbols -> Int], NEW d \in [Symbols -> Int], NEW e \in [Symbols -> Int],
         \A s \in Symbols : f[s] = d[s] + e[s]
  PROVE  Sum(f) = Sum(d) + Sum(e)
<1>1. /\ DOMAIN f = Symbols /\ DOMAIN d = Symbols /\ DOMAIN e = Symbols
      /\ Whole(d, DOMAIN f) /\ Whole(e, DOMAIN f) /\ \A s \in DOMAIN f : f[s] = d[s] + e[s]
  BY DEF Whole
<1>2. SumFunction(f) = SumFunction(d) + SumFunction(e)
  <2>. HIDE DEF Whole
  <2>. QED
    BY <1>1, SumParts, SymbolsFinite
<1>. QED
  BY <1>1, <1>2, SumIs

LEMMA SumOfLess ==
  ASSUME NEW f \in [Symbols -> Int], NEW e \in [Symbols -> Int], \A s \in Symbols : f[s] <= e[s]
  PROVE  Sum(f) <= Sum(e)
<1>1. DOMAIN f = Symbols /\ DOMAIN e = Symbols /\ Whole(f, DOMAIN f) /\ Whole(e, DOMAIN f)
  BY DEF Whole
<1>2. SumFunction(f) <= SumFunction(e)
  BY <1>1, SumBelow, SymbolsFinite
<1>. QED
  BY <1>1, <1>2, SumIs

LEMMA SumOfTimes ==
  ASSUME NEW f \in [Symbols -> Int], NEW e \in [Symbols -> Int], NEW k \in Int, \A s \in Symbols : e[s] = k * f[s]
  PROVE  Sum(e) = k * Sum(f)
<1>1. DOMAIN f = Symbols /\ DOMAIN e = DOMAIN f /\ Whole(f, DOMAIN f) /\ \A s \in DOMAIN f : e[s] = k * f[s]
  BY DEF Whole
<1>2. SumFunction(e) = k * SumFunction(f)
  BY <1>1, SumTimes, SymbolsFinite
<1>. QED
  BY <1>1, <1>2, SumIs

LEMMA MagnitudeIs ==
  ASSUME NEW x \in Int
  PROVE  /\ Magnitude(x) \in Nat /\ \A y \in Int : Magnitude(x) <= y <=> -y <= x /\ x <= y
BY DEF Magnitude

LEMMA MinTradeIs ==
  ASSUME NEW c \in Int
  PROVE  /\ MinTrade(c) \in Nat /\ MinTrade(c) >= 500
         /\ MinTrade(c) = 500 \/ 1000 * MinTrade(c) <= c
<1>. DEFINE a == c \div 1000
            S == {a, 500}
            m == IF a >= 500 THEN a ELSE 500
<1>1. a \in Int /\ 1000 * a <= c
  OBVIOUS
<1>. HIDE DEF a
<1>2. m \in S /\ \A y \in S : m >= y
  BY <1>1
<1>3. Max(S) \in S /\ \A y \in S : Max(S) >= y
  BY <1>2 DEF Max
<1>. QED
  BY <1>1, <1>3 DEF MinTrade, a

(* What a share of the book loses with the book is not more than the book does.     *)
LEMMA ShareFalls ==
  ASSUME NEW T \in Nat \ {0}, NEW t \in 0..T, NEW b \in Int, NEW c \in Nat,
         NEW i, i = (t * b) \div T, NEW j, j = (t * (b - c)) \div T
  PROVE  i \in Int /\ j \in Int /\ j <= i /\ i <= j + c
<1>1. t * b \in Int /\ t * (b - c) \in Int /\ t * (b - c) <= t * b /\ t * b <= t * (b - c) + T * c
  <2>1. t * c \in Nat /\ t * (b - c) = t * b - t * c
    OBVIOUS
  <2>2. t * c <= T * c
    <3>1. \A k \in Nat : k <= T => k * c <= T * c
      OBVIOUS
    <3>. QED
      BY <3>1
  <2>. QED
    BY <2>1, <2>2
<1>2. i \in Int /\ j \in Int /\ T * i <= t * b /\ t * (b - c) < T * j + T
  BY <1>1, Floors
<1>3. j <= i
  BY <1>1, FloorMonotone
<1>4. T * i < T * (j + c + 1)
  <2>1. T * (j + c + 1) = T * j + T * c + T
    BY <1>2
  <2>. QED
    BY <1>1, <1>2, <2>1
<1>5. i < j + c + 1
  <2>1. \A u, v \in Int : T * u < T * v => u < v
    OBVIOUS
  <2>. QED
    BY <1>2, <1>4, <2>1
<1>. QED
  BY <1>2, <1>3, <1>5

(* The book after a rebalance: where a name was traded it is at its share of the book  *)
(* as it was found, where it was not it was nearly there, and the costs are gone.     *)
Ideal(s) == (proposed.target[s] * proposed.before) \div Sum(proposed.target)
Settled ==
    /\ proposed.before \in Int /\ proposed.before - Capital \in Nat
    /\ proposed.target \in [Symbols -> Nat] /\ Sum(proposed.target) \in Nat \ {0}
    /\ proposed.trades \in [Symbols -> Int]
    /\ \A s \in Symbols :
         IF proposed.trades[s] = 0 THEN Magnitude(Ideal(s) - holdings[s]) < MinTrade(proposed.before)
         ELSE holdings[s] = Ideal(s)
BookInv == holdings \in [Symbols -> Int] /\ cash \in Int /\ (proposed.made => Settled)

LEMMA RebalanceBooks ==
  ASSUME BookInv, NEW target \in [Symbols -> Nat], Rebalance(target) PROVE BookInv'
<1>. DEFINE C == Capital
            gap == Gap(target)
            trades == Trades(target)
            sizes == [s \in Symbols |-> Magnitude(trades[s])]
            T == Sum(target)
<1>1. /\ T > 0 /\ holdings' = [s \in Symbols |-> holdings[s] + trades[s]]
      /\ cash' = cash - Sum(trades) - Sum(sizes) \div 500
      /\ proposed' = [made |-> TRUE, target |-> target, trades |-> trades, before |-> C]
  BY DEF Rebalance
<1>2. holdings \in [Symbols -> Int] /\ cash \in Int
  BY DEF BookInv
<1>3. C \in Int /\ T \in Nat \ {0}
  BY <1>1, <1>2, SumOfInts, SumOfNats DEF Capital
<1>. HIDE DEF T, C
<1>4. \A s \in Symbols : (target[s] * C) \div T \in Int
  BY <1>3, Floors
<1>5. gap \in [Symbols -> Int] /\ \A s \in Symbols : gap[s] = (target[s] * C) \div T - holdings[s]
  BY <1>2, <1>4 DEF Gap, C, T
<1>. HIDE DEF gap
<1>6. /\ trades \in [Symbols -> Int]
      /\ \A s \in Symbols : trades[s] = IF Magnitude(gap[s]) < MinTrade(C) THEN 0 ELSE gap[s]
  BY <1>5 DEF Trades, C, gap
<1>. HIDE DEF trades
<1>7. holdings' \in [Symbols -> Int] /\ Sum(holdings') = Sum(holdings) + Sum(trades)
  <2>1. holdings' \in [Symbols -> Int] /\ \A s \in Symbols : holdings'[s] = holdings[s] + trades[s]
    BY <1>1, <1>2, <1>6
  <2>. QED
    BY <1>2, <1>6, <2>1, SumOfSum
<1>8. Sum(sizes) \in Nat /\ Sum(trades) \in Int /\ Sum(holdings) \in Int
  <2>1. sizes \in [Symbols -> Nat]
    BY <1>6, MagnitudeIs
  <2>. HIDE DEF sizes
  <2>. QED
    BY <1>2, <1>6, <2>1, SumOfNats, SumOfInts
<1>. HIDE DEF sizes
<1>9. cash' \in Int /\ C - Capital' = Sum(sizes) \div 500 /\ Sum(sizes) \div 500 \in Nat
  <2>1. C = Sum(holdings) + cash
    BY DEF C, Capital
  <2>2. Capital' = Sum(holdings') + cash'
    BY DEF Capital
  <2>3. Sum(sizes) \div 500 \in Nat
    BY <1>8
  <2>. QED
    BY <1>1, <1>2, <1>7, <1>8, <2>1, <2>2, <2>3
<1>10. ASSUME NEW s \in Symbols
       PROVE  IF trades[s] = 0 THEN Magnitude((target[s] * C) \div T - holdings'[s]) < MinTrade(C)
              ELSE holdings'[s] = (target[s] * C) \div T
  <2>1. gap[s] \in Int /\ holdings[s] \in Int /\ holdings'[s] = holdings[s] + trades[s]
        /\ gap[s] = (target[s] * C) \div T - holdings[s] /\ (target[s] * C) \div T \in Int
    BY <1>1, <1>2, <1>4, <1>5
  <2>2. Magnitude(gap[s]) < MinTrade(C) \/ gap[s] # 0
    BY <1>3, <2>1, MinTradeIs DEF Magnitude
  <2>3. CASE Magnitude(gap[s]) < MinTrade(C)
    <3>1. trades[s] = 0 /\ holdings'[s] = holdings[s]
      BY <1>6, <2>1, <2>3
    <3>. QED
      BY <2>1, <2>3, <3>1
  <2>4. CASE ~(Magnitude(gap[s]) < MinTrade(C))
    <3>1. trades[s] = gap[s] /\ trades[s] # 0
      BY <1>6, <2>2, <2>4
    <3>. QED
      BY <2>1, <3>1
  <2>. QED
    BY <2>3, <2>4
<1>11. Settled'
  <2>1. /\ proposed'.target = target /\ proposed'.trades = trades /\ proposed'.before = C
    BY <1>1
  <2>2. Sum(proposed.target)' = T
    BY <2>1 DEF T
  <2>3. \A s \in Symbols : Ideal(s)' = (target[s] * C) \div T
    BY <2>1, <2>2 DEF Ideal
  <2>. QED
    BY <1>3, <1>6, <1>9, <1>10, <2>1, <2>2, <2>3 DEF Settled
<1>. QED
  BY <1>7, <1>9, <1>11 DEF BookInv

(* What is left of a name, and why five points of the book are not.                *)
LEMMA RestOfName ==
  ASSUME BookInv, proposed.made, NEW s \in Symbols,
         NEW b, b = proposed.before, NEW T, T = Sum(proposed.target), NEW t, t = proposed.target[s],
         NEW c, c = b - Capital,
         NEW slack, slack = IF proposed.trades[s] = 0 THEN MinTrade(b) ELSE 1,
         NEW i, i = (t * b) \div T, NEW h, h = holdings[s]
  PROVE  /\ b \in Int /\ T \in Nat \ {0} /\ t \in 0..T /\ c \in Nat /\ slack \in Nat \ {0} /\ h \in Int /\ i \in Int
         /\ -slack < i - h /\ i - h < slack
         /\ T * i <= t * b /\ t * b < T * i + T
         /\ slack = 1 \/ slack = 500 \/ 1000 * slack <= b
<1>1. /\ b \in Int /\ T \in Nat \ {0} /\ c \in Nat /\ h \in Int /\ t \in Nat
  BY DEF BookInv, Settled
<1>2. t <= T
  BY SumOfNats DEF BookInv, Settled
<1>3. i \in Int /\ T * i <= t * b /\ t * b < T * i + T
  <2>1. t * b \in Int
    BY <1>1
  <2>. QED
    BY <1>1, <2>1, Floors
<1>4. slack \in Nat \ {0} /\ (slack = 1 \/ slack = 500 \/ 1000 * slack <= b)
  BY <1>1, MinTradeIs
<1>5. i = Ideal(s)
  BY DEF Ideal
<1>6. CASE proposed.trades[s] = 0
  <2>1. Magnitude(i - h) < slack
    BY <1>5, <1>6 DEF BookInv, Settled
  <2>. QED
    BY <1>1, <1>2, <1>3, <1>4, <2>1 DEF Magnitude
<1>7. CASE proposed.trades[s] # 0
  <2>1. i = h
    BY <1>5, <1>7 DEF BookInv, Settled
  <2>. QED
    BY <1>1, <1>2, <1>3, <1>4, <2>1
<1>. QED
  BY <1>6, <1>7

LEMMA SettledIsDone ==
  ASSUME BookInv PROVE RebalanceSettles
<1>. SUFFICES ASSUME proposed.made PROVE RebalanceSettles
  BY DEF RebalanceSettles
<1>. DEFINE b == proposed.before
            C == Capital
            c == b - C
            T == Sum(proposed.target)
            t(s) == proposed.target[s]
            slack == [s \in Symbols |-> IF proposed.trades[s] = 0 THEN MinTrade(b) ELSE 1]
            i(s) == (t(s) * b) \div T
            j(s) == (t(s) * (b - c)) \div T
            h(s) == holdings[s]
<1>1. ASSUME NEW s \in Symbols
      PROVE  /\ b \in Int /\ T \in Nat \ {0} /\ t(s) \in 0..T /\ c \in Nat /\ slack[s] \in Nat \ {0}
             /\ h(s) \in Int /\ i(s) \in Int
             /\ -slack[s] < i(s) - h(s) /\ i(s) - h(s) < slack[s]
             /\ T * i(s) <= t(s) * b /\ t(s) * b < T * i(s) + T
             /\ slack[s] = 1 \/ slack[s] = 500 \/ 1000 * slack[s] <= b
  <2>1. slack[s] = IF proposed.trades[s] = 0 THEN MinTrade(b) ELSE 1
    OBVIOUS
  <2>. HIDE DEF slack, i, h, t, T, c
  <2>. QED
    BY <2>1, RestOfName DEF i, h, t, T, c
<1>2. b \in Int /\ T \in Nat \ {0} /\ C \in Int /\ cash \in Int /\ c \in Nat /\ C = b - c
  <2>1. Capital \in Int
    BY SumOfInts DEF BookInv, Capital
  <2>. QED
    BY <2>1 DEF BookInv, Settled
<1>3. /\ \A s \in Symbols : Gap(proposed.target)[s] = j(s) - h(s)
      /\ DOMAIN slack = Symbols
  <2>1. \A s \in Symbols : Gap(proposed.target)[s] = (t(s) * C) \div T - h(s)
    BY DEF Gap
  <2>. HIDE DEF C, c, T, t, h
  <2>2. C = b - c
    BY <1>2
  <2>. QED
    BY <2>1, <2>2
<1>4. ASSUME NEW s \in Symbols PROVE Magnitude(Gap(proposed.target)[s]) < c + slack[s]
  <2>1. j(s) \in Int /\ j(s) <= i(s) /\ i(s) <= j(s) + c
    <3>. HIDE DEF c, T, b, t
    <3>1. T \in Nat \ {0} /\ t(s) \in 0..T /\ b \in Int /\ c \in Nat
      BY <1>1
    <3>2. i(s) = (t(s) * b) \div T /\ j(s) = (t(s) * (b - c)) \div T
      OBVIOUS
    <3>. HIDE DEF i, j
    <3>. QED
      BY ONLY <3>1, <3>2, ShareFalls
  <2>2. Gap(proposed.target)[s] = j(s) - h(s)
    BY <1>3
  <2>. HIDE DEF c, T, b, t, i, j, h, slack
  <2>. QED
    BY <1>1, <1>2, <2>1, <2>2 DEF Magnitude
<1>5. Magnitude(cash + c) <= Sum(slack)
  <2>. DEFINE share == [s \in Symbols |-> t(s) * b]
              held == [s \in Symbols |-> T * h(s)]
              rest == [s \in Symbols |-> t(s) * b - T * h(s)]
              up == [s \in Symbols |-> T * slack[s]]
              down == [s \in Symbols |-> (-T) * slack[s]]
  <2>1. holdings \in [Symbols -> Int] /\ proposed.target \in [Symbols -> Int] /\ slack \in [Symbols -> Int]
    <3>1. \A s \in Symbols : slack[s] \in Int
      BY <1>1
    <3>. HIDE DEF c, T, t, i, j, h
    <3>. QED
      BY <3>1 DEF BookInv, Settled
  <2>. HIDE DEF c, C, T, b, t, i, j, h, slack
  <2>2. ASSUME NEW s \in Symbols
        PROVE  /\ t(s) * b \in Int /\ T * h(s) \in Int /\ t(s) * b - T * h(s) \in Int
               /\ T * slack[s] \in Int /\ (-T) * slack[s] \in Int
               /\ (-T) * slack[s] <= t(s) * b - T * h(s) /\ t(s) * b - T * h(s) <= T * slack[s]
    <3>1. /\ b \in Int /\ T \in Nat \ {0} /\ t(s) \in 0..T /\ slack[s] \in Nat \ {0} /\ h(s) \in Int /\ i(s) \in Int
          /\ 1 - slack[s] <= i(s) - h(s) /\ i(s) - h(s) <= slack[s] - 1
          /\ T * i(s) <= t(s) * b /\ t(s) * b < T * i(s) + T
      BY <1>1
    <3>2. t(s) * b \in Int /\ T * h(s) \in Int /\ T * slack[s] \in Int /\ (-T) * slack[s] = -(T * slack[s])
      BY <3>1
    <3>3. T * (1 - slack[s]) <= T * (i(s) - h(s)) /\ T * (i(s) - h(s)) <= T * (slack[s] - 1)
      <4>1. \A u, v \in Int : u <= v => T * u <= T * v
        BY <3>1
      <4>. QED
        BY <3>1, <4>1
    <3>4. /\ T * (1 - slack[s]) = T - T * slack[s] /\ T * (i(s) - h(s)) = T * i(s) - T * h(s)
          /\ T * (slack[s] - 1) = T * slack[s] - T
      BY <3>1
    <3>5. T * i(s) \in Int
      BY <3>1
    <3>. QED
      BY <3>1, <3>2, <3>3, <3>4, <3>5
  <2>3. /\ share \in [Symbols -> Int] /\ held \in [Symbols -> Int] /\ rest \in [Symbols -> Int]
        /\ up \in [Symbols -> Int] /\ down \in [Symbols -> Int]
        /\ \A s \in Symbols : /\ share[s] = t(s) * b /\ held[s] = T * h(s) /\ rest[s] = t(s) * b - T * h(s)
                              /\ up[s] = T * slack[s] /\ down[s] = (-T) * slack[s]
    BY <2>2
  <2>. HIDE DEF share, held, rest, up, down
  <2>4. Sum(share) = b * T
    <3>1. \A s \in Symbols : share[s] = b * proposed.target[s]
      BY <1>2, <2>1, <2>3 DEF t
    <3>. QED
      BY <1>2, <2>1, <2>3, <3>1, SumOfTimes DEF T
  <2>5. Sum(held) = T * Sum(holdings)
    <3>1. \A s \in Symbols : held[s] = T * holdings[s]
      BY <2>3 DEF h
    <3>2. T \in Int /\ holdings \in [Symbols -> Int] /\ held \in [Symbols -> Int]
      BY <1>2, <2>1, <2>3
    <3>. QED
      BY <3>1, <3>2, SumOfTimes
  <2>6. Sum(share) = Sum(rest) + Sum(held)
    <3>1. \A s \in Symbols : share[s] = rest[s] + held[s]
      BY <2>2, <2>3
    <3>. QED
      BY <2>3, <3>1, SumOfSum
  <2>7. Sum(up) = T * Sum(slack) /\ Sum(down) = (-T) * Sum(slack)
    <3>1. T \in Int /\ -T \in Int
      BY <1>2
    <3>2. slack \in [Symbols -> Int] /\ up \in [Symbols -> Int] /\ down \in [Symbols -> Int]
      BY <2>1, <2>3
    <3>3. \A s \in Symbols : up[s] = T * slack[s]
      BY <2>3
    <3>4. \A s \in Symbols : down[s] = (-T) * slack[s]
      BY <2>3
    <3>. HIDE DEF slack, T
    <3>5. Sum(up) = T * Sum(slack)
      BY ONLY <3>1, <3>2, <3>3, SumOfTimes
    <3>6. Sum(down) = (-T) * Sum(slack)
      BY ONLY <3>1, <3>2, <3>4, SumOfTimes
    <3>. QED
      BY <3>5, <3>6
  <2>8. Sum(down) <= Sum(rest) /\ Sum(rest) <= Sum(up)
    BY <2>2, <2>3, SumOfLess
  <2>. DEFINE S == Sum(slack)
              H == Sum(holdings)
  <2>9. S \in Int /\ H \in Int /\ Sum(rest) \in Int
    BY <2>1, <2>3, SumOfInts
  <2>10. cash + c = b - H
    <3>1. C = H + cash
      BY DEF C, Capital
    <3>. HIDE DEF H
    <3>. QED
      BY <1>2, <2>9, <3>1
  <2>. HIDE DEF S, H
  <2>11. Sum(rest) = T * (b - H)
    <3>1. T * (b - H) = b * T - T * H /\ b * T \in Int /\ T * H \in Int
      BY <1>2, <2>9
    <3>. QED
      BY <2>4, <2>5, <2>6, <2>9, <3>1 DEF H
  <2>12. T * (-S) <= T * (b - H) /\ T * (b - H) <= T * S
    <3>1. (-T) * S = T * (-S)
      BY <1>2, <2>9
    <3>. QED
      BY <2>7, <2>8, <2>11, <3>1 DEF S
  <2>13. -S <= b - H /\ b - H <= S
    <3>1. \A u, v \in Int : T * u <= T * v => u <= v
      BY <1>2
    <3>. QED
      BY <1>2, <2>9, <2>12, <3>1
  <2>14. cash + c \in Int
    BY <1>2
  <2>15. Magnitude(cash + c) <= S
    BY <2>9, <2>10, <2>13, <2>14, MagnitudeIs
  <2>. QED
    BY <2>15 DEF S
<1>6. ASSUME T = 100, b >= 12000, 200 * c <= b PROVE ~ShouldRebalance(proposed.target)
  <2>. DEFINE off == [s \in Symbols |-> Magnitude(100 * holdings[s] - proposed.target[s] * C)]
  <2>1. ASSUME NEW s \in Symbols PROVE ~(off[s] >= 5 * C)
    <3>1. off[s] = Magnitude(100 * h(s) - t(s) * C)
      OBVIOUS
    <3>. HIDE DEF c, C, T, b, t, i, j, h, slack, off
    <3>2. /\ t(s) \in 0..100 /\ slack[s] \in Nat \ {0} /\ h(s) \in Int /\ i(s) \in Int
          /\ -slack[s] < i(s) - h(s) /\ i(s) - h(s) < slack[s]
          /\ 100 * i(s) <= t(s) * b /\ t(s) * b < 100 * i(s) + 100
          /\ slack[s] = 1 \/ slack[s] = 500 \/ 1000 * slack[s] <= b
      BY <1>1, <1>6
    <3>3. t(s) * C = t(s) * b - t(s) * c /\ t(s) * c \in Nat /\ t(s) * c <= 100 * c /\ t(s) * b \in Int
      <4>1. \A k \in 0..100 : k * c \in Nat /\ k * c <= 100 * c
        BY <1>2
      <4>2. t(s) * c \in Nat /\ t(s) * c <= 100 * c
        BY <3>2, <4>1
      <4>3. t(s) * C = t(s) * b - t(s) * c /\ t(s) * b \in Int
        BY <1>2, <3>2
      <4>. QED
        BY <4>2, <4>3
    <3>. DEFINE x == t(s) * b
                y == t(s) * c
                z == t(s) * C
    <3>4. z = x - y /\ y \in Nat /\ y <= 100 * c /\ x \in Int
          /\ 100 * i(s) <= x /\ x < 100 * i(s) + 100
      BY <3>2, <3>3
    <3>. HIDE DEF x, y, z
    <3>5. 100 * h(s) - z < 5 * C /\ z - 100 * h(s) < 5 * C
      BY <1>2, <1>6, <3>2, <3>4
    <3>6. 100 * h(s) - z \in Int /\ C \in Int
      BY <1>2, <3>2, <3>4
    <3>7. Magnitude(100 * h(s) - z) < 5 * C
      BY <3>2, <3>4, <3>5, <3>6 DEF Magnitude
    <3>8. Magnitude(100 * h(s) - z) \in Int
      BY <3>6, MagnitudeIs
    <3>. QED
      BY <3>1, <3>6, <3>7, <3>8 DEF z
  <2>. QED
    BY <2>1 DEF ShouldRebalance
<1>. QED
  BY <1>4, <1>5, <1>6 DEF RebalanceSettles

LEMMA BookStart ==
  ASSUME SleevesInit PROVE BookInv
<1>1. holdings \in [Symbols -> Lots] /\ Lots \subseteq Int
  BY SleevesAssumption DEF SleevesInit
<1>2. holdings \in [Symbols -> Int]
  BY <1>1
<1>3. cash \in Int /\ proposed.made = FALSE
  BY SleevesAssumption DEF SleevesInit, Idle
<1>. QED
  BY <1>2, <1>3 DEF BookInv

LEMMA BookKeeps ==
  ASSUME BookInv, [DeskStep]_slVars PROVE BookInv'
<1>1. ASSUME UNCHANGED book PROVE BookInv'
  <2>1. UNCHANGED <<holdings, cash, proposed>>
    BY <1>1 DEF book
  <2>2. Capital' = Capital
    BY <2>1 DEF Capital
  <2>3. \A s : Ideal(s)' = Ideal(s)
    BY <2>1 DEF Ideal
  <2>. QED
    BY <2>1, <2>2, <2>3 DEF BookInv, Settled
<1>2. ASSUME NEW s \in Symbols, NEW step \in Int, PriceMoves(s, step) PROVE BookInv'
  <2>1. holdings' = [holdings EXCEPT ![s] = @ + step] /\ proposed' = Idle /\ cash' = cash
    BY <1>2 DEF PriceMoves
  <2>. QED
    BY <2>1 DEF BookInv, Idle
<1>3. ASSUME Observe \/ \E s \in Measured : Measure(s) \/ Reenable(s) PROVE UNCHANGED book
  BY <1>3 DEF Observe, Measure, Reenable
<1>4. ASSUME NEW base, NEW capital, NEW sleeves, AllocateCapital(base, capital, sleeves) PROVE UNCHANGED book
  BY <1>4 DEF AllocateCapital
<1>5. ASSUME UNCHANGED slVars PROVE UNCHANGED book
  BY <1>5 DEF slVars, book
<1>. QED
  BY <1>1, <1>2, <1>3, <1>4, <1>5, RebalanceBooks DEF DeskStep

(* The desk gives capital away within the caps and the floor, less to a sleeve in a     *)
(* drawdown, never more on worse news, and a rebalance settles its book, whatever the   *)
(* scores, the capital, the targets and the prices are.                        *)
THEOREM DeskTrue == SleevesInit /\ [][DeskStep]_slVars => []DeskHolds
<1>1. SleevesInit => DeskInv /\ BookInv
  BY DeskStart, BookStart
<1>2. DeskInv /\ BookInv /\ [DeskStep]_slVars => DeskInv' /\ BookInv'
  BY DeskKeeps, BookKeeps
<1>3. DeskInv /\ BookInv => DeskHolds
  BY StarvedByDrawdown, NewsNeverRaises, SettledIsDone DEF DeskHolds, AllocationHolds, DeskInv, Allocated
<1>. QED
  BY <1>1, <1>2, <1>3, PTL

-----------------------------------------------------------------------------
(* A sleeve: what it ranks                                                    *)

Place(n) == CHOOSE i \in DOMAIN Tickers : Tickers[i] = n
Ahead(f, a, b) == f[a] > f[b] \/ (f[a] = f[b] /\ Place(a) < Place(b))
Behind(f, names, n) == {m \in names : Ahead(f, m, n)}
Ordered(f, names) == [k \in 1..Cardinality(names) |-> CHOOSE n \in names : Cardinality(Behind(f, names, n)) = k - 1]

LEMMA PlaceIs ==
  ASSUME NEW a \in Listed, NEW b \in Listed
  PROVE  Place(a) \in Nat /\ (Place(a) = Place(b) => a = b)
<1>1. \A n \in Listed : \E i \in DOMAIN Tickers : Tickers[i] = n
  BY DEF Listed
<1>2. \A n \in Listed : Place(n) \in DOMAIN Tickers /\ Tickers[Place(n)] = n
  BY <1>1 DEF Place
<1>3. DOMAIN Tickers \subseteq Nat
  BY StrategiesAssumption
<1>. QED
  BY <1>2, <1>3

(* What a function gives is no more than what it is given.                    *)
LEMMA ImageOf ==
  ASSUME NEW f, IsFiniteSet(DOMAIN f)
  PROVE  /\ IsFiniteSet({f[x] : x \in DOMAIN f})
         /\ Cardinality({f[x] : x \in DOMAIN f}) <= Cardinality(DOMAIN f)
<1>. DEFINE T == {f[x] : x \in DOMAIN f}
            e == [x \in DOMAIN f |-> f[x]]
<1>1. e \in Surjection(DOMAIN f, T)
  BY DEF Surjection
<1>. QED
  BY <1>1, FS_Surjection

LEMMA ListedFinite == IsFiniteSet(Listed)
<1>1. IsFiniteSet(DOMAIN Tickers)
  <2>1. DOMAIN Tickers = 1..Len(Tickers) /\ Len(Tickers) \in Nat
    BY StrategiesAssumption
  <2>. QED
    BY <2>1, FS_Interval
<1>. QED
  BY <1>1, ImageOf DEF Listed

(* Of two names one is ahead of the other, and none is ahead of itself.        *)
LEMMA AheadIs ==
  ASSUME NEW names, names \subseteq Listed, NEW f, \A n \in names : f[n] \in Int,
         NEW a \in names, NEW b \in names
  PROVE  /\ ~Ahead(f, a, a)
         /\ a # b => Ahead(f, a, b) \/ Ahead(f, b, a)
         /\ \A c \in names : Ahead(f, a, b) /\ Ahead(f, b, c) => Ahead(f, a, c)
<1>1. \A x, y \in names : Place(x) \in Nat /\ (Place(x) = Place(y) => x = y)
  BY PlaceIs
<1>2. Place(a) \in Nat /\ Place(b) \in Nat /\ f[a] \in Int /\ f[b] \in Int
  BY <1>1
<1>3. ~Ahead(f, a, a)
  BY <1>2 DEF Ahead
<1>4. a # b => Ahead(f, a, b) \/ Ahead(f, b, a)
  BY <1>1, <1>2 DEF Ahead
<1>5. ASSUME NEW c \in names, Ahead(f, a, b), Ahead(f, b, c) PROVE Ahead(f, a, c)
  <2>1. Place(c) \in Nat /\ f[c] \in Int
    BY <1>1
  <2>. QED
    BY <1>2, <1>5, <2>1 DEF Ahead
<1>. QED
  BY <1>3, <1>4, <1>5

LEMMA BehindGrows ==
  ASSUME NEW names, names \subseteq Listed, NEW f, \A n \in names : f[n] \in Int,
         NEW a \in names, NEW b \in names, Ahead(f, a, b)
  PROVE  Cardinality(Behind(f, names, a)) < Cardinality(Behind(f, names, b))
<1>. DEFINE A == Behind(f, names, a)
            B == Behind(f, names, b)
<1>1. IsFiniteSet(names)
  BY ListedFinite, FS_Subset
<1>2. A \subseteq names /\ B \subseteq names /\ a \notin A /\ a \in B
  BY AheadIs DEF Behind
<1>3. A \cup {a} \subseteq B
  BY AheadIs DEF Behind
<1>. HIDE DEF A, B
<1>4. IsFiniteSet(A) /\ IsFiniteSet(B)
  BY <1>1, <1>2, FS_Subset
<1>5. Cardinality(A \cup {a}) = Cardinality(A) + 1 /\ Cardinality(A) \in Nat /\ Cardinality(B) \in Nat
  BY <1>2, <1>4, FS_AddElement, FS_CardinalityType
<1>6. Cardinality(A \cup {a}) <= Cardinality(B)
  BY <1>3, <1>4, FS_Subset
<1>. QED
  BY <1>5, <1>6 DEF A, B

(* Every place on the list has exactly one name.                              *)
LEMMA Placed ==
  ASSUME NEW names, names \subseteq Listed, NEW f, \A n \in names : f[n] \in Int
  PROVE  /\ Cardinality(names) \in Nat
         /\ \A k \in 1..Cardinality(names) : \E n \in names : Cardinality(Behind(f, names, n)) = k - 1
<1>. DEFINE C == Cardinality(names)
            rank == [n \in names |-> Cardinality(Behind(f, names, n))]
            T == 0..(C - 1)
<1>1. IsFiniteSet(names) /\ C \in Nat
  BY ListedFinite, FS_Subset, FS_CardinalityType
<1>2. ASSUME NEW n \in names PROVE rank[n] \in T
  <2>1. Behind(f, names, n) \subseteq names \ {n}
    BY AheadIs DEF Behind
  <2>2. IsFiniteSet(names \ {n}) /\ Cardinality(names \ {n}) = C - 1
    BY <1>1, FS_RemoveElement
  <2>3. IsFiniteSet(Behind(f, names, n)) /\ Cardinality(Behind(f, names, n)) <= C - 1
    BY <2>1, <2>2, FS_Subset
  <2>4. Cardinality(Behind(f, names, n)) \in Nat
    BY <2>3, FS_CardinalityType
  <2>. QED
    BY <1>1, <2>3, <2>4
<1>3. ASSUME NEW a \in names, NEW b \in names, rank[a] = rank[b] PROVE a = b
  <2>1. rank[a] \in Int /\ rank[b] \in Int
    BY <1>1, <1>2
  <2>2. Ahead(f, a, b) => rank[a] < rank[b]
    BY BehindGrows
  <2>3. Ahead(f, b, a) => rank[b] < rank[a]
    BY BehindGrows
  <2>. HIDE DEF rank
  <2>. QED
    BY <1>3, <2>1, <2>2, <2>3, AheadIs
<1>4. rank \in Injection(names, T)
  BY <1>2, <1>3 DEF Injection, IsInjective
<1>5. IsFiniteSet(T) /\ Cardinality(T) = C
  BY <1>1, FS_Interval
<1>6. rank \in Surjection(names, T)
  <2>. HIDE DEF rank, T
  <2>. QED
    BY <1>4, <1>5, FS_Injection
<1>7. ASSUME NEW k \in 1..C PROVE \E n \in names : Cardinality(Behind(f, names, n)) = k - 1
  <2>1. k - 1 \in T
    BY <1>1
  <2>2. \A t \in T : \E n \in names : rank[n] = t
    BY <1>6 DEF Surjection
  <2>. QED
    BY <2>1, <2>2
<1>. QED
  BY <1>1, <1>7

LEMMA OrderedIs ==
  ASSUME NEW names, names \subseteq Listed, NEW f, \A n \in names : f[n] \in Int
  PROVE  /\ Cardinality(names) \in Nat
         /\ Ordered(f, names) \in [1..Cardinality(names) -> names]
BY Placed DEF Ordered

(* What the views show.                                                      *)
LEMMA ViewIs ==
  ASSUME NEW kind \in Kinds, NEW seen \in Views(kind)
  PROVE  /\ seen.model \in BOOLEAN
         /\ \A n \in Listed : /\ seen.of[n] \in Frames
                              /\ seen.of[n].atr = 0 \/ 2000 * seen.of[n].atr >= seen.of[n].price
BY StrategiesAssumption

-----------------------------------------------------------------------------
(* The cuts of the long-term sleeve                                           *)

Under(f, names, x) == {n \in names : f[n] < x}
UpTo(f, names, x) == {n \in names : f[n] <= x}
Statistic(f, names, k, x) == Cardinality(Under(f, names, x)) < k /\ Cardinality(UpTo(f, names, x)) >= k
Nth(f, names, k) == CHOOSE x \in {f[n] : n \in names} : Statistic(f, names, k, x)

LEMMA NthIs ==
  ASSUME NEW names, names \subseteq Listed, NEW f, \A n \in names : f[n] \in Int, NEW k \in 1..Cardinality(names)
  PROVE  Nth(f, names, k) \in Int /\ Statistic(f, names, k, Nth(f, names, k))
<1>. DEFINE g == [n \in names |-> -f[n]]
<1>1. \A n \in names : g[n] \in Int /\ g[n] = -f[n]
  OBVIOUS
<1>. HIDE DEF g
<1>2. PICK n \in names : Cardinality(Behind(g, names, n)) = k - 1
  BY <1>1, Placed
<1>. DEFINE x == f[n]
<1>3. Under(f, names, x) \subseteq Behind(g, names, n)
  BY <1>1 DEF Under, Behind, Ahead
<1>4. Behind(g, names, n) \cup {n} \subseteq UpTo(f, names, x)
  BY <1>1 DEF UpTo, Behind, Ahead
<1>5. n \notin Behind(g, names, n)
  BY <1>1, AheadIs DEF Behind
<1>6. IsFiniteSet(Behind(g, names, n)) /\ IsFiniteSet(UpTo(f, names, x)) /\ IsFiniteSet(Under(f, names, x))
  BY ListedFinite, FS_Subset DEF Behind, UpTo, Under
<1>7. Cardinality(Behind(g, names, n) \cup {n}) = k
  <2>1. k \in Int
    BY Placed
  <2>2. Cardinality(Behind(g, names, n) \cup {n}) = Cardinality(Behind(g, names, n)) + 1
    BY <1>5, <1>6, FS_AddElement
  <2>. QED
    BY <1>2, <2>1, <2>2
<1>8. Cardinality(UpTo(f, names, x)) >= k
  BY <1>4, <1>6, <1>7, FS_Subset
<1>9. Cardinality(Under(f, names, x)) < k
  <2>1. Cardinality(Under(f, names, x)) <= k - 1 /\ Cardinality(Under(f, names, x)) \in Nat
    BY <1>2, <1>3, <1>6, FS_Subset, FS_CardinalityType
  <2>. QED
    BY <2>1
<1>10. \E y \in {f[m] : m \in names} : Statistic(f, names, k, y)
  BY <1>8, <1>9 DEF Statistic
<1>11. Nth(f, names, k) \in {f[m] : m \in names} /\ Statistic(f, names, k, Nth(f, names, k))
  BY <1>10 DEF Nth
<1>. QED
  BY <1>11

LEMMA NthGrows ==
  ASSUME NEW names, names \subseteq Listed, NEW f, \A n \in names : f[n] \in Int,
         NEW k \in 1..Cardinality(names), NEW j \in 1..Cardinality(names), k <= j
  PROVE  Nth(f, names, k) <= Nth(f, names, j)
<1>. DEFINE x == Nth(f, names, k)
            y == Nth(f, names, j)
<1>1. x \in Int /\ y \in Int /\ Statistic(f, names, k, x) /\ Statistic(f, names, j, y)
  BY NthIs
<1>. HIDE DEF x, y
<1>. SUFFICES ASSUME y < x PROVE FALSE
  BY <1>1 DEF x, y
<1>2. UpTo(f, names, y) \subseteq Under(f, names, x)
  BY <1>1 DEF UpTo, Under
<1>3. IsFiniteSet(Under(f, names, x)) /\ IsFiniteSet(UpTo(f, names, y))
  BY ListedFinite, FS_Subset DEF UpTo, Under
<1>4. /\ Cardinality(UpTo(f, names, y)) <= Cardinality(Under(f, names, x))
      /\ Cardinality(UpTo(f, names, y)) \in Nat /\ Cardinality(Under(f, names, x)) \in Nat
  BY <1>2, <1>3, FS_Subset, FS_CardinalityType
<1>. QED
  BY <1>1, <1>4 DEF Statistic

Scale(f, names, p) ==
    LET at == (Cardinality(names) - 1) * p
        low == Nth(f, names, at \div 100 + 1)
        high == Nth(f, names, Min({at \div 100 + 2, Cardinality(names)}))
    IN 100 * low + (at % 100) * (high - low)

LEMMA PercentileIs ==
  ASSUME NEW kind \in Kinds, NEW seen \in Views(kind), NEW p
  PROVE  Percentile(seen, p) = Scale([n \in Composites(seen) |-> seen.of[n].score], Composites(seen), p)
<1>. DEFINE names == Composites(seen)
            f == [n \in names |-> seen.of[n].score]
            N(k) == CHOOSE x \in {seen.of[n].score : n \in names} :
                      /\ Cardinality({n \in names : seen.of[n].score < x}) < k
                      /\ Cardinality({n \in names : seen.of[n].score <= x}) >= k
<1>1. \A k : N(k) = Nth(f, names, k)
  <2>1. {seen.of[n].score : n \in names} = {f[n] : n \in names}
    OBVIOUS
  <2>2. \A x : {n \in names : seen.of[n].score < x} = {n \in names : f[n] < x}
    OBVIOUS
  <2>3. \A x : {n \in names : seen.of[n].score <= x} = {n \in names : f[n] <= x}
    OBVIOUS
  <2>. HIDE DEF names, f
  <2>. QED
    BY <2>1, <2>2, <2>3 DEF Nth, Statistic, Under, UpTo
<1>2. Percentile(seen, p) =
        LET at == (Cardinality(names) - 1) * p
            low == N(at \div 100 + 1)
            high == N(Min({at \div 100 + 2, Cardinality(names)}))
        IN 100 * low + (at % 100) * (high - low)
  BY DEF Percentile
<1>. HIDE DEF N, f, names
<1>. QED
  BY <1>1, <1>2 DEF Scale, f, names

LEMMA ScaleGrows ==
  ASSUME NEW names, names \subseteq Listed, names # {}, NEW f, \A n \in names : f[n] \in Int
  PROVE  Scale(f, names, 20) \in Int /\ Scale(f, names, 90) \in Int /\ Scale(f, names, 20) <= Scale(f, names, 90)
<1>. DEFINE C == Cardinality(names)
            q(p) == ((C - 1) * p) \div 100
            r(p) == ((C - 1) * p) % 100
            up(p) == Min({q(p) + 2, C})
            low(p) == Nth(f, names, q(p) + 1)
            high(p) == Nth(f, names, up(p))
<1>1. C \in Nat \ {0}
  BY ListedFinite, FS_Subset, FS_CardinalityType, FS_EmptySet
<1>2. \A p \in {20, 90} : Scale(f, names, p) = 100 * low(p) + r(p) * (high(p) - low(p))
  BY DEF Scale
<1>3. /\ q(20) \in 0..(C - 1) /\ q(90) \in 0..(C - 1) /\ r(20) \in 0..99 /\ r(90) \in 0..99
      /\ q(20) <= q(90) /\ (q(20) = q(90) => r(20) <= r(90))
  BY <1>1
<1>. HIDE DEF C, q, r
<1>4. \A p \in {20, 90} : up(p) \in 1..C /\ up(p) >= q(p) + 1 /\ up(p) <= q(p) + 2
  <2>. TAKE p \in {20, 90}
  <2>1. q(p) + 2 \in Int /\ C \in Int /\ q(p) \in 0..(C - 1)
    BY <1>1, <1>3
  <2>2. up(p) \in {q(p) + 2, C} /\ up(p) <= q(p) + 2 /\ up(p) <= C
    BY <2>1, LesserOf
  <2>. HIDE DEF up
  <2>. QED
    BY <1>1, <2>1, <2>2
<1>. HIDE DEF up
<1>5. \A p \in {20, 90} : low(p) \in Int /\ high(p) \in Int /\ low(p) <= high(p)
  <2>. TAKE p \in {20, 90}
  <2>1. q(p) + 1 \in 1..C /\ up(p) \in 1..C /\ q(p) + 1 <= up(p)
    BY <1>1, <1>3, <1>4
  <2>. QED
    BY <2>1, NthIs, NthGrows DEF C
<1>6. q(20) < q(90) => high(20) <= low(90)
  <2>. HAVE q(20) < q(90)
  <2>1. up(20) \in 1..C /\ q(90) + 1 \in 1..C /\ up(20) <= q(90) + 1
    BY <1>1, <1>3, <1>4
  <2>. QED
    BY <2>1, NthGrows DEF C
<1>7. q(20) = q(90) => low(20) = low(90) /\ high(20) = high(90)
  BY DEF up
<1>. HIDE DEF low, high
<1>8. \A l, h \in Int, k \in 0..99 : l <= h => /\ 100 * l + k * (h - l) \in Int
                                            /\ 100 * l <= 100 * l + k * (h - l) /\ 100 * l + k * (h - l) <= 100 * h
  <2>. SUFFICES ASSUME NEW l \in Int, NEW h \in Int, NEW k \in 0..99, l <= h
                PROVE  /\ 100 * l + k * (h - l) \in Int
                       /\ 100 * l <= 100 * l + k * (h - l) /\ 100 * l + k * (h - l) <= 100 * h
    OBVIOUS
  <2>. DEFINE d == h - l
  <2>1. d \in Nat /\ h = l + d
    OBVIOUS
  <2>. HIDE DEF d
  <2>2. k * d \in Nat /\ k * d <= 100 * d
    BY <2>1
  <2>3. 100 * l + k * d \in Int /\ 100 * l <= 100 * l + k * d /\ 100 * l + k * d <= 100 * h
    BY <2>1, <2>2
  <2>. QED
    BY <2>3 DEF d
<1>9. \A l, h \in Int, j, k \in 0..99 : l <= h /\ j <= k => 100 * l + j * (h - l) <= 100 * l + k * (h - l)
  <2>. SUFFICES ASSUME NEW l \in Int, NEW h \in Int, NEW j \in 0..99, NEW k \in 0..99, l <= h, j <= k
                PROVE  100 * l + j * (h - l) <= 100 * l + k * (h - l)
    OBVIOUS
  <2>. DEFINE d == h - l
  <2>1. d \in Nat
    OBVIOUS
  <2>. HIDE DEF d
  <2>2. j * d <= k * d /\ j * d \in Int /\ k * d \in Int
    BY <2>1
  <2>3. 100 * l + j * d <= 100 * l + k * d
    BY <2>2
  <2>. QED
    BY <2>3 DEF d
<1>. DEFINE v(p) == 100 * low(p) + r(p) * (high(p) - low(p))
<1>10. \A p \in {20, 90} : v(p) \in Int /\ 100 * low(p) <= v(p) /\ v(p) <= 100 * high(p)
  BY <1>3, <1>5, <1>8
<1>11. CASE q(20) < q(90)
  <2>1. high(20) <= low(90)
    BY <1>6, <1>11
  <2>. HIDE DEF v
  <2>2. v(20) <= v(90)
    BY <1>5, <1>10, <2>1
  <2>. QED
    BY <1>2, <1>10, <2>2 DEF v
<1>12. CASE q(20) = q(90)
  <2>1. v(20) <= v(90)
    BY <1>3, <1>5, <1>7, <1>9, <1>12
  <2>. QED
    BY <1>2, <1>10, <2>1
<1>. QED
  BY <1>3, <1>11, <1>12

(* What may be bought is not to be sold: the upper cut is no less than the lower. *)
LEMMA CutsApart ==
  ASSUME NEW kind \in Kinds, NEW seen \in Views(kind), Composites(seen) # {}
  PROVE  SellCut(seen) \in Int /\ BuyCut(seen) \in Int /\ (Ranks(seen) => SellCut(seen) <= BuyCut(seen))
<1>. DEFINE names == Composites(seen)
            f == [n \in names |-> seen.of[n].score]
<1>1. names \subseteq Listed /\ \A n \in names : f[n] \in Int
  BY ViewIs DEF Composites, Frames
<1>2. /\ Scale(f, names, 20) \in Int /\ Scale(f, names, 90) \in Int
      /\ Scale(f, names, 20) <= Scale(f, names, 90)
  <2>. HIDE DEF f, names
  <2>. QED
    BY <1>1, ScaleGrows DEF names
<1>. QED
  BY <1>2, PercentileIs DEF SellCut, BuyCut

-----------------------------------------------------------------------------
(* Scores, ranks and weights are whole numbers                                *)

LEMMA GreaterIs ==
  ASSUME NEW a \in Int, NEW b \in Int
  PROVE  Max({a, b}) \in {a, b} /\ Max({a, b}) >= a /\ Max({a, b}) >= b
<1>1. \E x \in {a, b} : \A y \in {a, b} : x >= y
  OBVIOUS
<1>2. Max({a, b}) \in {a, b} /\ \A y \in {a, b} : Max({a, b}) >= y
  BY <1>1 DEF Max
<1>. QED
  BY <1>2

LEMMA ClipIs ==
  ASSUME NEW x \in Int, NEW low \in Int, NEW high \in Int PROVE Clip(x, low, high) \in Int
<1>1. Min({x, high}) \in Int
  BY LesserOf
<1>. QED
  BY <1>1, GreaterIs DEF Clip

LEMMA RootIs == ASSUME NEW x \in Nat PROVE Root(x) \in Nat
<1>. DEFINE S == {r \in 0..x : r * r <= x}
<1>1. S \in SUBSET (0..x) /\ 0 \in S
  OBVIOUS
<1>. DEFINE m == Max(S)
<1>2. m \in S /\ \A r \in S : r <= m
  BY <1>1, GreatestBelow
<1>3. m \in 0..x /\ m * m <= x
  BY <1>2
<1>4. m + 1 \notin S
  BY <1>2, <1>3
<1>. HIDE DEF m
<1>5. x < (m + 1) * (m + 1)
  <2>. DEFINE k == m + 1
  <2>1. k \in Nat \ {0}
    BY <1>3
  <2>. HIDE DEF k
  <2>2. k * k \in Nat /\ k <= k * k
    BY <2>1
  <2>3. k * k <= x => k \in S
    BY <2>1, <2>2
  <2>. QED
    BY <1>4, <2>2, <2>3 DEF k
<1>. DEFINE P(r) == r * r <= x /\ x < (r + 1) * (r + 1)
<1>6. m \in 0..x /\ P(m)
  BY <1>3, <1>5
<1>7. Root(x) = CHOOSE r \in 0..x : P(r)
  BY DEF Root
<1>. HIDE DEF P
<1>8. Root(x) \in 0..x
  BY <1>6, <1>7
<1>. QED
  BY <1>8

LEMMA PriorWhole ==
  ASSUME NEW kind \in Kinds, NEW seen \in Views(kind), NEW n \in Listed, seen.of[n].mom # Unscored
  PROVE  MomentumPrior(seen, n) \in Int
<1>. DEFINE known == {m \in Listed : seen.of[m].mom # Unscored}
            size == Cardinality(known)
            mom == seen.of[n].mom
            vol == seen.of[n].vol
            moms == [m \in known |-> seen.of[m].mom]
            total == SumFunction(moms)
            squares == [m \in known |-> (size * seen.of[m].mom - total) * (size * seen.of[m].mom - total)]
            spread == Root(SumFunction(squares) \div Max({1, size - 1}))
            twice == IF spread = 0 THEN 0 ELSE Clip((2 * (size * mom - total)) \div spread, -6, 6)
            expected == IF size >= FewNames THEN (3 * twice * 14 * vol) \div 200 ELSE (3 * mom * 5) \div 231
<1>1. IsFiniteSet(known) /\ n \in known /\ \A m \in known : seen.of[m].mom \in Int
  BY ListedFinite, FS_Subset, ViewIs DEF Frames
<1>2. size \in Nat
  BY <1>1, FS_CardinalityType
<1>3. mom \in Int /\ vol \in Nat
  BY <1>1, ViewIs DEF Frames
<1>. HIDE DEF known, size, mom, vol
<1>4. total \in Int
  <2>1. DOMAIN moms = known /\ \A m \in known : moms[m] \in Int
    BY <1>1
  <2>. HIDE DEF moms
  <2>. QED
    BY <1>1, <2>1, SumInt DEF Whole
<1>. HIDE DEF total, moms
<1>5. SumFunction(squares) \in Nat
  <2>0. \A y \in Int : y * y \in Nat
    OBVIOUS
  <2>1. DOMAIN squares = known
    OBVIOUS
  <2>2. ASSUME NEW m \in known PROVE squares[m] \in Nat
    <3>1. size * seen.of[m].mom - total \in Int
      BY <1>1, <1>2, <1>4
    <3>. QED
      BY <2>0, <3>1
  <2>. HIDE DEF squares
  <2>. QED
    BY <1>1, <2>1, <2>2, SumNat
<1>. HIDE DEF squares
<1>6. spread \in Nat
  <2>. DEFINE d == Max({1, size - 1})
  <2>1. d \in Nat \ {0}
    BY <1>2, GreaterIs
  <2>. HIDE DEF d
  <2>2. SumFunction(squares) \div d \in Nat
    BY <1>5, <2>1
  <2>. QED
    BY <2>2, RootIs DEF d
<1>. HIDE DEF spread
<1>7. twice \in Int
  <2>1. spread # 0 => (2 * (size * mom - total)) \div spread \in Int
    <3>1. 2 * (size * mom - total) \in Int
      BY <1>2, <1>3, <1>4
    <3>. QED
      BY <1>6, <3>1
  <2>. QED
    BY <2>1, ClipIs
<1>. HIDE DEF twice
<1>8. expected \in Int
  <2>1. 3 * twice * 14 * vol \in Int
    BY <1>3, <1>7
  <2>. QED
    BY <1>3, <2>1
<1>9. MomentumPrior(seen, n) = IF mom > 0 THEN expected ELSE Min({expected, 0})
  BY DEF MomentumPrior, expected, twice, spread, squares, total, moms, vol, mom, size, known
<1>. HIDE DEF expected
<1>10. Min({expected, 0}) \in Int
  <2>1. \A a, b \in Int : Min({a, b}) \in Int
    BY LesserOf
  <2>. QED
    BY ONLY <1>8, <2>1
<1>. QED
  BY <1>8, <1>9, <1>10

LEMMA ScoreWhole ==
  ASSUME NEW kind \in Kinds, NEW seen \in Views(kind), NEW n \in SwingScored(seen)
  PROVE  n \in Listed /\ SwingScore(seen, n) \in Int
<1>1. n \in Listed /\ SwingScore(seen, n) # Unscored
  BY DEF SwingScored
<1>2. seen.model => SwingScore(seen, n) \in Int
  BY <1>1, ViewIs DEF SwingScore, Frames
<1>3. ~seen.model => SwingScore(seen, n) \in Int
  BY <1>1, PriorWhole DEF SwingScore
<1>. QED
  BY <1>1, <1>2, <1>3

LEMMA SwingRankWhole ==
  ASSUME NEW seen, SwingScored(seen) # {}, NEW n PROVE SwingRank(seen, n) \in Int
<1>. DEFINE score == [m \in SwingScored(seen) |-> SwingScore(seen, m)]
            low == {m \in SwingScored(seen) : score[m] < score[n]}
            same == {m \in SwingScored(seen) : score[m] = score[n]}
<1>1. IsFiniteSet(SwingScored(seen)) /\ Cardinality(SwingScored(seen)) \in Nat \ {0}
  BY ListedFinite, FS_Subset, FS_CardinalityType, FS_EmptySet DEF SwingScored
<1>2. Cardinality(low) \in Nat /\ Cardinality(same) \in Nat
  <2>1. low \subseteq SwingScored(seen) /\ same \subseteq SwingScored(seen)
    OBVIOUS
  <2>. HIDE DEF low, same
  <2>. QED
    BY <1>1, <2>1, FS_Subset, FS_CardinalityType
<1>3. SwingRank(seen, n) = (1000 * (2 * Cardinality(low) + Cardinality(same) + 1)) \div (2 * Cardinality(SwingScored(seen)))
  BY DEF SwingRank
<1>. HIDE DEF low, same
<1>. QED
  BY <1>1, <1>2, <1>3

-----------------------------------------------------------------------------
(* A batch                                                                    *)

Drafted(kind, s) ==
    /\ s = [name |-> s.name, side |-> s.side, edge |-> s.edge, raw |-> s.raw, weight |-> s.raw,
            risk |-> s.risk, reward |-> s.reward, rank |-> s.rank, day |-> s.day]
    /\ s.raw \in Nat /\ (kind = "intraday" => s.raw <= 100)
Proper(kind, s) ==
    /\ s.name \in Listed /\ s.side \in {"LONG", "SHORT"}
    /\ s.risk \in Nat \ {0} /\ s.reward \in Nat \ {0}
    /\ s.weight \in Nat /\ (kind = "intraday" => s.weight <= 100)

(* What the exit rules have to find again on the day it was made.             *)
Agrees(kind, seen, cut, name, rank) ==
    /\ kind = "swing" => rank = SwingRank(seen, name)
    /\ kind = "longterm" => 100 * seen.of[name].score >= SellCut(seen) /\ cut = SellCut(seen)
Timely(kind, seen, cut, day, name, rank, made) ==
    /\ made \in Nat /\ made <= day
    /\ made = day => Agrees(kind, seen, cut, name, rank)

Crowd(list, sector) == {j \in DOMAIN list : SectorOf(list[j].name) = sector}
Spread(list) == \A i \in DOMAIN list : 10 * (Cardinality(Crowd(list, SectorOf(list[i].name))) - 1) < 4 * Slots
Listing(list) == list \in Seq({list[i] : i \in DOMAIN list})

Sent(kind, seen, cut, day, held, b) ==
    /\ b.filled \in held..Slots
    /\ Listing(b.signals) /\ Len(b.signals) <= Slots - b.filled
    /\ Weighs(b.signals) <= EntryBudget(b.filled)
    /\ kind = "swing" => Spread(b.signals)
    /\ \A i \in DOMAIN b.signals :
         /\ Proper(kind, b.signals[i])
         /\ Timely(kind, seen, cut, day, b.signals[i].name, b.signals[i].rank, b.signals[i].day)

(* A signal fit to be sent, today.                                           *)
Ready(kind, seen, cut, day, s) ==
    Drafted(kind, s) /\ Proper(kind, s) /\ Timely(kind, seen, cut, day, s.name, s.rank, s.day)

LEMMA ListingIs ==
  ASSUME NEW n \in Nat, NEW e, e = [i \in 1..n |-> e[i]] PROVE Listing(e) /\ Len(e) = n /\ DOMAIN e = 1..n
<1>. DEFINE S == {e[i] : i \in 1..n}
<1>1. e \in [1..n -> S] /\ DOMAIN e = 1..n
  OBVIOUS
<1>2. S = {e[i] : i \in DOMAIN e}
  BY <1>1
<1>. HIDE DEF S
<1>3. e \in Seq(S) /\ Len(e) = n
  BY <1>1
<1>. QED
  BY <1>1, <1>2, <1>3 DEF Listing

LEMMA ListingHas ==
  ASSUME NEW e, Listing(e)
  PROVE  Len(e) \in Nat /\ DOMAIN e = 1..Len(e) /\ e = [i \in 1..Len(e) |-> e[i]]
BY DEF Listing

LEMMA Weighted ==
  ASSUME NEW kind, NEW s, Drafted(kind, s), NEW w, NEW t, t = [s EXCEPT !.weight = w]
  PROVE  /\ t.name = s.name /\ t.side = s.side /\ t.risk = s.risk /\ t.reward = s.reward
         /\ t.rank = s.rank /\ t.day = s.day /\ t.weight = w
BY DEF Drafted

LEMMA BudgetIs ==
  ASSUME NEW filled \in 0..Slots
  PROVE  EntryBudget(filled) \in Nat /\ EntryBudget(filled) = Everything - (Everything * filled) \div Slots
<1>1. Slots \in Nat \ {0} /\ filled \in Int
  BY StrategiesAssumption
<1>2. Min({filled, Slots}) = filled
  BY <1>1, LesserOf
<1>3. EntryBudget(filled) = Everything - (Everything * filled) \div Slots
  BY <1>2 DEF EntryBudget
<1>4. (1000 * filled) \div Slots <= 1000 /\ (1000 * filled) \div Slots \in Int
  <2>. DEFINE q == (1000 * filled) \div Slots
  <2>1. q \in Int /\ q * Slots <= 1000 * filled
    BY <1>1
  <2>. HIDE DEF q
  <2>2. q <= 1000
    <3>. SUFFICES ASSUME q >= 1001 PROVE FALSE
      BY <2>1
    <3>1. q * Slots >= 1001 * Slots
      BY <1>1, <2>1
    <3>. QED
      BY <1>1, <2>1, <3>1
  <2>. QED
    BY <2>1, <2>2 DEF q
<1>. QED
  BY <1>3, <1>4 DEF Everything

(* Scaled together, the weights are no more than the budget, nor one than it was. *)
LEMMA StampedIs ==
  ASSUME NEW kind, NEW n \in Nat, NEW e, e = [i \in 1..n |-> e[i]], \A i \in 1..n : Drafted(kind, e[i]),
         NEW budget \in Nat, NEW t, t = Stamped(e, budget)
  PROVE  /\ t = [i \in 1..n |-> t[i]]
         /\ \A i \in 1..n : /\ t[i] = [e[i] EXCEPT !.weight = t[i].weight]
                            /\ t[i].weight \in Nat /\ t[i].weight <= e[i].raw
         /\ Weighs(t) <= budget
<1>. DEFINE raws == [i \in DOMAIN e |-> e[i].raw]
            total == SumFunction(raws)
            weights == [i \in DOMAIN t |-> t[i].weight]
            w == [i \in 1..n |-> IF total <= budget THEN e[i].weight ELSE (e[i].raw * budget) \div total]
<1>0. DOMAIN e = 1..n
  OBVIOUS
<1>1. t = [i \in 1..n |-> [e[i] EXCEPT !.weight = w[i]]]
  <2>1. t = [i \in 1..n |-> [e[i] EXCEPT !.weight = IF total <= budget THEN @ ELSE (e[i].raw * budget) \div total]]
    BY <1>0 DEF Stamped
  <2>2. \A i \in 1..n : w[i] = IF total <= budget THEN e[i].weight ELSE (e[i].raw * budget) \div total
    OBVIOUS
  <2>. HIDE DEF w, total
  <2>. QED
    BY <2>1, <2>2
<1>2. DOMAIN e = 1..n /\ \A i \in 1..n : e[i].raw \in Nat /\ e[i].weight = e[i].raw
  BY DEF Drafted
<1>3. IsFiniteSet(1..n)
  BY FS_Interval
<1>4. DOMAIN raws = 1..n /\ (\A i \in 1..n : raws[i] = e[i].raw /\ raws[i] \in Nat) /\ total \in Nat
  <2>1. DOMAIN raws = 1..n /\ \A i \in 1..n : raws[i] = e[i].raw /\ raws[i] \in Nat
    BY <1>2
  <2>. HIDE DEF raws
  <2>. QED
    BY <1>3, <2>1, SumNat
<1>. HIDE DEF raws
<1>5. ASSUME NEW i \in 1..n
      PROVE  /\ w[i] \in Nat /\ w[i] <= e[i].raw
             /\ total > budget => total * w[i] <= budget * e[i].raw
  <2>. DEFINE r == e[i].raw
  <2>1. r \in Nat /\ e[i].weight = r
    BY <1>2
  <2>. HIDE DEF r, total
  <2>2. CASE total <= budget
    BY <1>4, <2>1, <2>2 DEF r
  <2>3. CASE total > budget
    <3>. DEFINE q == (r * budget) \div total
    <3>1. r * budget \in Nat /\ total \in Nat \ {0}
      BY <1>4, <2>1, <2>3
    <3>2. q \in Nat /\ q * total <= r * budget
      BY <3>1
    <3>. HIDE DEF q
    <3>3. r * budget <= r * total
      <4>1. \A x, y, z \in Nat : y <= z => x * y <= x * z
        OBVIOUS
      <4>2. r \in Nat /\ budget \in Nat /\ total \in Nat /\ budget <= total
        BY <1>4, <2>1, <2>3
      <4>. QED
        BY ONLY <4>1, <4>2
    <3>4. q <= r
      <4>. SUFFICES ASSUME q >= r + 1 PROVE FALSE
        BY <2>1, <3>2
      <4>1. q * total >= (r + 1) * total
        BY <2>1, <3>1, <3>2
      <4>2. (r + 1) * total = r * total + total
        BY <2>1, <3>1
      <4>3. r * total \in Nat /\ q * total \in Nat
        BY <2>1, <3>1, <3>2
      <4>. QED
        BY <3>1, <3>2, <3>3, <4>1, <4>2, <4>3
    <3>5. w[i] = q
      BY <1>4, <2>3 DEF q, r
    <3>6. total * q <= budget * r
      BY <2>1, <3>1, <3>2
    <3>. QED
      BY <3>2, <3>4, <3>5, <3>6 DEF r
  <2>. QED
    BY <1>4, <2>2, <2>3
<1>6. DOMAIN t = 1..n /\ \A i \in 1..n : t[i] = [e[i] EXCEPT !.weight = w[i]]
  <2>. HIDE DEF w
  <2>. QED
    BY <1>1, <1>2
<1>. HIDE DEF w
<1>7. \A i \in 1..n : t[i].weight = w[i]
  <2>. TAKE i \in 1..n
  <2>. DEFINE one == e[i]
              new == t[i]
              x == w[i]
  <2>1. Drafted(kind, one) /\ new = [one EXCEPT !.weight = x]
    BY <1>6
  <2>. HIDE DEF one, new, x
  <2>2. new.weight = x
    BY ONLY <2>1, Weighted
  <2>. QED
    BY <2>2 DEF new, x
<1>8. DOMAIN weights = 1..n /\ \A i \in 1..n : weights[i] = w[i] /\ weights[i] \in Nat
  <2>1. \A i \in 1..n : w[i] \in Nat
    BY <1>5
  <2>2. DOMAIN weights = 1..n /\ \A i \in 1..n : weights[i] = t[i].weight
    BY <1>6
  <2>. HIDE DEF weights
  <2>. QED
    BY ONLY <1>7, <2>1, <2>2
<1>. HIDE DEF weights
<1>9. SumFunction(weights) <= budget
  <2>1. CASE total <= budget
    <3>1. \A i \in 1..n : weights[i] <= raws[i]
      <4>1. \A i \in 1..n : w[i] <= e[i].raw
        BY <1>5
      <4>. QED
        BY ONLY <1>4, <1>8, <4>1
    <3>2. SumFunction(weights) <= total
      <4>1. Whole(weights, DOMAIN weights) /\ Whole(raws, DOMAIN weights) /\ IsFiniteSet(DOMAIN weights)
        BY <1>3, <1>4, <1>8 DEF Whole
      <4>2. DOMAIN raws = DOMAIN weights /\ \A i \in DOMAIN weights : weights[i] <= raws[i]
        BY <1>4, <1>8, <3>1
      <4>. QED
        BY <4>1, <4>2, SumBelow
    <3>3. SumFunction(weights) \in Nat
      BY <1>3, <1>8, SumNat
    <3>. HIDE DEF total
    <3>. QED
      BY <1>4, <2>1, <3>2, <3>3
  <2>2. CASE total > budget
    <3>. DEFINE up == [i \in 1..n |-> total * weights[i]]
                cap == [i \in 1..n |-> budget * raws[i]]
    <3>1. /\ DOMAIN up = 1..n /\ DOMAIN cap = 1..n
          /\ \A i \in 1..n : up[i] = total * weights[i] /\ cap[i] = budget * raws[i]
      <4>. HIDE DEF total
      <4>. QED
        OBVIOUS
    <3>2. \A i \in 1..n : up[i] \in Int /\ cap[i] \in Int /\ up[i] <= cap[i]
      <4>. HIDE DEF total, w, up, cap
      <4>1. ASSUME NEW i \in 1..n PROVE up[i] \in Int /\ cap[i] \in Int /\ up[i] <= cap[i]
        <5>1. weights[i] \in Nat /\ raws[i] \in Nat /\ total \in Nat
          BY <1>4, <1>8
        <5>2. total * weights[i] <= budget * raws[i]
          <6>1. total * w[i] <= budget * e[i].raw
            BY <1>5, <2>2
          <6>. QED
            BY <1>4, <1>8, <6>1
        <5>3. up[i] = total * weights[i] /\ cap[i] = budget * raws[i]
          BY <3>1
        <5>. QED
          BY <5>1, <5>2, <5>3
      <4>. QED
        BY <4>1
    <3>. HIDE DEF up, cap
    <3>3. SumFunction(up) <= SumFunction(cap)
      BY <1>3, <3>1, <3>2, SumBelow DEF Whole
    <3>. HIDE DEF total
    <3>4. SumFunction(up) = total * SumFunction(weights)
      <4>1. total \in Int /\ Whole(weights, DOMAIN weights) /\ IsFiniteSet(DOMAIN weights)
        BY <1>3, <1>4, <1>8 DEF Whole
      <4>2. \A i \in DOMAIN weights : up[i] = total * weights[i]
        BY <1>8, <3>1
      <4>. QED
        BY <1>8, <3>1, <4>1, <4>2, SumTimes
    <3>5. SumFunction(cap) = budget * total
      <4>1. budget \in Int /\ Whole(raws, DOMAIN raws) /\ IsFiniteSet(DOMAIN raws)
        BY <1>3, <1>4 DEF Whole
      <4>2. \A i \in DOMAIN raws : cap[i] = budget * raws[i]
        BY <1>4, <3>1
      <4>3. SumFunction(cap) = budget * SumFunction(raws)
        BY <1>4, <3>1, <4>1, <4>2, SumTimes
      <4>. QED
        BY <4>3 DEF total
    <3>6. SumFunction(weights) \in Nat
      BY <1>3, <1>8, SumNat
    <3>. DEFINE sum == SumFunction(weights)
    <3>7. sum \in Nat /\ total * sum <= budget * total
      BY <3>3, <3>4, <3>5, <3>6
    <3>. HIDE DEF sum
    <3>8. sum <= budget
      <4>. SUFFICES ASSUME sum >= budget + 1 PROVE FALSE
        BY <3>7
      <4>1. total * sum >= total * (budget + 1)
        BY <1>4, <3>7
      <4>2. total * (budget + 1) = budget * total + total
        BY <1>4
      <4>3. budget * total \in Nat /\ total * sum \in Nat
        BY <1>4, <3>7
      <4>. QED
        BY <1>4, <2>2, <3>7, <4>1, <4>2, <4>3
    <3>. QED
      BY <3>8 DEF sum
  <2>. HIDE DEF total
  <2>. QED
    BY <1>4, <2>1, <2>2
<1>10. Weighs(t) <= budget
  BY <1>9 DEF Weighs, weights
<1>11. t = [i \in 1..n |-> t[i]]
  BY <1>1
<1>12. \A i \in 1..n : w[i] \in Nat /\ w[i] <= e[i].raw
  BY <1>5
<1>. QED
  BY ONLY <1>6, <1>7, <1>10, <1>11, <1>12

LEMMA SlotsLeft ==
  ASSUME IsFiniteSet(DOMAIN open), Cardinality(DOMAIN open) <= Slots
  PROVE  /\ Cardinality(DOMAIN open) \in 0..Slots
         /\ Slots - Cardinality(DOMAIN open) \in Nat
BY StrategiesAssumption, FS_CardinalityType

(* What is drafted well is sent well.                                         *)
LEMMA EmitIs ==
  ASSUME NEW kind, NEW seen, NEW cut, NEW day,
         IsFiniteSet(DOMAIN open), Cardinality(DOMAIN open) <= Slots,
         NEW n \in Nat, n <= Slots - Cardinality(DOMAIN open), NEW e, e = [i \in 1..n |-> e[i]],
         kind = "swing" => Spread(e),
         \A i \in 1..n : Ready(kind, seen, cut, day, e[i])
  PROVE  /\ Sent(kind, seen, cut, day, Cardinality(DOMAIN open), Emit(e)) /\ DOMAIN Emit(e).signals = DOMAIN e
         /\ Emit(e) = [signals |-> Emit(e).signals, budget |-> Emit(e).budget, filled |-> Emit(e).filled, exits |-> {}]
<1>. DEFINE held == Cardinality(DOMAIN open)
            budget == EntryBudget(held)
            t == Stamped(e, budget)
            b == Emit(e)
<1>1. held \in 0..Slots /\ budget \in Nat
  BY SlotsLeft, BudgetIs
<1>2. b = [signals |-> t, budget |-> budget, filled |-> held, exits |-> {}]
  BY DEF Emit
<1>. HIDE DEF held, budget, b
<1>r. \A i \in 1..n : Drafted(kind, e[i]) /\ Proper(kind, e[i]) /\ Timely(kind, seen, cut, day, e[i].name, e[i].rank, e[i].day)
  BY DEF Ready
<1>3. /\ t = [i \in 1..n |-> t[i]]
      /\ \A i \in 1..n : /\ t[i] = [e[i] EXCEPT !.weight = t[i].weight]
                         /\ t[i].weight \in Nat /\ t[i].weight <= e[i].raw
      /\ Weighs(t) <= budget
  BY <1>r, <1>1, StampedIs
<1>. HIDE DEF t
<1>4. Listing(t) /\ Len(t) = n /\ DOMAIN t = 1..n
  BY ONLY <1>3, ListingIs, n \in Nat
<1>5. ASSUME NEW i \in 1..n
      PROVE  /\ t[i].name = e[i].name /\ Proper(kind, t[i])
             /\ Timely(kind, seen, cut, day, t[i].name, t[i].rank, t[i].day)
  <2>. DEFINE one == e[i]
              new == t[i]
              x == new.weight
  <2>1. /\ Drafted(kind, one) /\ Proper(kind, one) /\ Timely(kind, seen, cut, day, one.name, one.rank, one.day)
        /\ new = [one EXCEPT !.weight = x] /\ x \in Nat /\ x <= one.raw
    BY <1>r, <1>3
  <2>. HIDE DEF one, new, x
  <2>2. /\ new.name = one.name /\ new.side = one.side /\ new.risk = one.risk /\ new.reward = one.reward
        /\ new.rank = one.rank /\ new.day = one.day /\ new.weight = x
    BY ONLY <2>1, Weighted
  <2>3. kind = "intraday" => x <= 100
    BY <2>1 DEF Drafted
  <2>4. Proper(kind, new)
    BY <2>1, <2>2, <2>3 DEF Proper
  <2>5. Timely(kind, seen, cut, day, new.name, new.rank, new.day)
    BY <2>1, <2>2
  <2>. QED
    BY <2>2, <2>4, <2>5 DEF new, one
<1>6. kind = "swing" => Spread(t)
  <2>. HAVE kind = "swing"
  <2>1. DOMAIN e = 1..n
    OBVIOUS
  <2>2. \A s : Crowd(t, s) = Crowd(e, s)
    BY <1>4, <1>5, <2>1 DEF Crowd
  <2>3. Spread(e)
    OBVIOUS
  <2>. QED
    BY <1>4, <1>5, <2>1, <2>2, <2>3 DEF Spread
<1>7. b.filled = held /\ b.signals = t
  BY <1>2
<1>8. held \in held..Slots /\ n <= Slots - held
  BY <1>1, StrategiesAssumption DEF held
<1>9. Sent(kind, seen, cut, day, held, b)
  BY <1>3, <1>4, <1>5, <1>6, <1>7, <1>8 DEF Sent, budget
<1>10. DOMAIN t = DOMAIN e
  BY <1>4
<1>11. b = [signals |-> b.signals, budget |-> b.budget, filled |-> b.filled, exits |-> {}]
  BY <1>2
<1>12. DOMAIN b.signals = DOMAIN e
  BY <1>7, <1>10
<1>. QED
  BY <1>9, <1>11, <1>12 DEF b, held

LEMMA SentAlike ==
  ASSUME NEW kind, NEW seen, NEW cut, NEW day, NEW held, NEW b, NEW c,
         Sent(kind, seen, cut, day, held, b), c.signals = b.signals, c.filled = b.filled
  PROVE  Sent(kind, seen, cut, day, held, c)
BY DEF Sent

(* A signal made now.                                                        *)
LEMMA SignalIs ==
  ASSUME NEW kind, NEW seen, NEW cut, NEW name \in Listed, NEW side \in {"LONG", "SHORT"}, NEW edge,
         NEW raw \in Nat, kind = "intraday" => raw <= 100, NEW risk \in Nat \ {0}, NEW reward \in Nat \ {0}, NEW rank,
         sleeve.day \in Nat, Agrees(kind, seen, cut, name, rank),
         NEW s, s = Signal(name, side, edge, raw, risk, reward, rank)
  PROVE  Ready(kind, seen, cut, sleeve.day, s)
<1>1. s = [name |-> name, side |-> side, edge |-> edge, raw |-> raw, weight |-> raw,
           risk |-> risk, reward |-> reward, rank |-> rank, day |-> sleeve.day]
  BY DEF Signal
<1>2. /\ s.name = name /\ s.side = side /\ s.edge = edge /\ s.raw = raw /\ s.weight = raw
      /\ s.risk = risk /\ s.reward = reward /\ s.rank = rank /\ s.day = sleeve.day
  BY <1>1
<1>3. Drafted(kind, s)
  BY <1>1, <1>2 DEF Drafted
<1>4. Proper(kind, s)
  BY <1>2 DEF Proper
<1>5. Timely(kind, seen, cut, sleeve.day, s.name, s.rank, s.day)
  BY <1>2 DEF Timely
<1>. QED
  BY <1>3, <1>4, <1>5 DEF Ready

(* A range of at least a unit leaves room for a stop and a target.            *)
LEMMA RangeIs ==
  ASSUME NEW atr \in Nat \ {0}, NEW price \in Nat \ {0}, 2000 * atr >= price
  PROVE  /\ (2 * atr * 1000) \div price \in Nat \ {0} /\ (3 * atr * 1000) \div price \in Nat \ {0}
<1>1. \A x \in Nat : x >= price => x \div price \in Nat \ {0}
  OBVIOUS
<1>. QED
  BY <1>1

LEMMA RootSlotsIs == RootSlots \in Nat \ {0}
<1>1. RootSlots # 0
  BY StrategiesAssumption
<1>. QED
  BY <1>1, StrategiesAssumption

-----------------------------------------------------------------------------
(* The swing sleeve takes from the top of its list what still fits              *)

Taken(x, s) ==
    /\ Listing(s) /\ Len(s) <= x.left /\ Spread(s)
    /\ \A i \in DOMAIN s : \E m \in DOMAIN x.signals \ x.passed : s[i] = x.signals[m]

LEMMA TakeKeeps ==
  ASSUME NEW x, x.left \in Nat, \A m \in DOMAIN x.signals : x.signals[m].name = m,
         NEW i, x.list[i] \in DOMAIN x.signals, NEW s, Taken(x, s)
  PROVE  Taken(x, Step("take", x, s, i))
<1>. DEFINE n == x.list[i]
            v == x.signals[n]
            t == Append(s, v)
            k == Len(s)
            full == Len(s) >= x.left \/ SectorFull(s, n) \/ n \in x.passed
<1>1. Step("take", x, s, i) = IF full THEN s ELSE t
  BY DEF Step
<1>. SUFFICES ASSUME ~full PROVE Taken(x, t)
  BY <1>1
<1>2. k \in Nat /\ k < x.left /\ ~SectorFull(s, n) /\ n \notin x.passed
  <2>1. k \in Nat
    BY ListingHas DEF Taken
  <2>. QED
    BY <2>1
<1>3. DOMAIN s = 1..k
  BY ListingHas DEF Taken
<1>4. v.name = n /\ n \in DOMAIN x.signals
  OBVIOUS
<1>5. /\ DOMAIN t = 1..(k + 1) /\ t = [j \in 1..(k + 1) |-> t[j]]
      /\ t[k + 1] = v /\ \A j \in 1..k : t[j] = s[j]
  <2>. DEFINE S == {s[j] : j \in DOMAIN s} \cup {v}
  <2>1. s \in Seq(S) /\ v \in S
    BY DEF Taken, Listing
  <2>. HIDE DEF S, v
  <2>2. t \in Seq(S) /\ Len(t) = k + 1 /\ k + 1 \in Nat
    BY <2>1
  <2>3. t[k + 1] = v /\ \A j \in 1..k : t[j] = s[j]
    BY <2>1
  <2>. HIDE DEF t, k
  <2>4. t \in [1..(k + 1) -> S] /\ DOMAIN t = 1..(k + 1)
    BY <2>2
  <2>5. t = [j \in 1..(k + 1) |-> t[j]]
    BY <2>4
  <2>. QED
    BY <2>3, <2>4, <2>5
<1>. HIDE DEF t, v, n, k
<1>a. \A j : j \in 1..(k + 1) <=> j \in 1..k \/ j = k + 1
  BY <1>2
<1>b. k + 1 \notin 1..k
  BY <1>2
<1>6. Listing(t) /\ Len(t) = k + 1
  <2>1. k + 1 \in Nat
    BY <1>2
  <2>. QED
    BY ONLY <1>5, <2>1, ListingIs
<1>7. Len(t) <= x.left
  BY <1>2, <1>6
<1>8. Crowd(t, SectorOf(n)) = Crowd(s, SectorOf(n)) \cup {k + 1}
  BY ONLY <1>a, <1>b, <1>3, <1>4, <1>5 DEF Crowd
<1>9. \A other : other # SectorOf(n) => Crowd(t, other) = Crowd(s, other)
  BY ONLY <1>a, <1>b, <1>3, <1>4, <1>5 DEF Crowd
<1>10. Cardinality(Crowd(t, SectorOf(n))) - 1 = Cardinality(Crowd(s, SectorOf(n)))
       /\ Cardinality(Crowd(s, SectorOf(n))) \in Nat
  <2>1. IsFiniteSet(Crowd(s, SectorOf(n))) /\ k + 1 \notin Crowd(s, SectorOf(n))
    <3>1. IsFiniteSet(1..k)
      BY <1>2, FS_Interval
    <3>2. Crowd(s, SectorOf(n)) \in SUBSET (1..k)
      BY <1>3 DEF Crowd
    <3>3. IsFiniteSet(Crowd(s, SectorOf(n)))
      BY <3>1, <3>2, FS_Subset
    <3>. QED
      BY <1>2, <3>2, <3>3
  <2>2. Cardinality(Crowd(s, SectorOf(n))) \in Nat
    BY <2>1, FS_CardinalityType
  <2>3. Cardinality(Crowd(s, SectorOf(n)) \cup {k + 1}) = Cardinality(Crowd(s, SectorOf(n))) + 1
    BY <2>1, FS_AddElement
  <2>. QED
    BY <1>8, <2>2, <2>3
<1>11. 10 * Cardinality(Crowd(s, SectorOf(n))) < 4 * Slots
  <2>1. ~(10 * Cardinality(Crowd(s, SectorOf(n))) >= 4 * Slots)
    BY <1>2 DEF SectorFull, Crowd
  <2>. QED
    BY <1>10, <2>1, StrategiesAssumption
<1>12. Spread(t)
  <2>. SUFFICES ASSUME NEW j \in DOMAIN t
                PROVE  10 * (Cardinality(Crowd(t, SectorOf(t[j].name))) - 1) < 4 * Slots
    BY DEF Spread
  <2>. DEFINE sector == SectorOf(t[j].name)
  <2>1. CASE sector = SectorOf(n)
    BY <1>10, <1>11, <2>1
  <2>2. CASE sector # SectorOf(n)
    <3>1. j \in DOMAIN s /\ t[j] = s[j]
      <4>1. j # k + 1
        BY <1>4, <1>5, <2>2
      <4>. QED
        BY ONLY <1>a, <1>3, <1>5, <4>1, j \in DOMAIN t
    <3>2. 10 * (Cardinality(Crowd(s, SectorOf(s[j].name))) - 1) < 4 * Slots
      BY <3>1 DEF Taken, Spread
    <3>3. Crowd(t, sector) = Crowd(s, sector)
      BY <1>9, <2>2
    <3>. QED
      BY <3>1, <3>2, <3>3
  <2>. QED
    BY <2>1, <2>2
<1>13. \A j \in DOMAIN t : \E m \in DOMAIN x.signals \ x.passed : t[j] = x.signals[m]
  <2>. TAKE j \in DOMAIN t
  <2>1. CASE j = k + 1
    <3>1. t[j] = x.signals[n] /\ n \in DOMAIN x.signals \ x.passed
      BY <1>2, <1>4, <1>5, <2>1 DEF v
    <3>. QED
      BY ONLY <3>1
  <2>2. CASE j # k + 1
    <3>1. j \in DOMAIN s /\ t[j] = s[j]
      BY ONLY <1>a, <1>3, <1>5, <2>2, j \in DOMAIN t
    <3>. QED
      BY <3>1 DEF Taken
  <2>. QED
    BY <2>1, <2>2
<1>. QED
  BY <1>6, <1>7, <1>12, <1>13 DEF Taken

LEMMA TakeLoop ==
  ASSUME NEW x, x.left \in Nat, \A m \in DOMAIN x.signals : x.signals[m].name = m,
         NEW n \in Nat, \A i \in 1..n : x.list[i] \in DOMAIN x.signals,
         NEW g, Folding("take", x, <<>>, 1..n, g)
  PROVE  Taken(x, g[1..n])
<1>1. g[1..0] = <<>> /\ \A i \in 1..n : g[1..i] = Step("take", x, g[1..(i - 1)], i)
  BY FoldingSteps DEF Stepwise
<1>. DEFINE Bad == {i \in 0..n : ~Taken(x, g[1..i])}
<1>. SUFFICES ASSUME Bad # {} PROVE FALSE
  OBVIOUS
<1>2. PICK i \in Bad : \A k \in Bad : i <= k
  <2>1. Bad \subseteq Nat
    OBVIOUS
  <2>. HIDE DEF Bad
  <2>. QED
    BY <2>1, LeastNatural
<1>3. i \in 0..n /\ ~Taken(x, g[1..i])
  BY <1>2
<1>4. i # 0
  <2>1. <<>> = [j \in 1..0 |-> <<>>[j]] /\ DOMAIN <<>> = {}
    OBVIOUS
  <2>2. Listing(<<>>) /\ Len(<<>>) = 0
    BY <2>1, ListingIs
  <2>3. Taken(x, <<>>)
    BY <2>1, <2>2 DEF Taken, Spread
  <2>. QED
    BY <1>1, <1>3, <2>3
<1>5. Taken(x, g[1..(i - 1)])
  BY <1>2, <1>3, <1>4
<1>6. x.list[i] \in DOMAIN x.signals /\ g[1..i] = Step("take", x, g[1..(i - 1)], i)
  BY <1>1, <1>3, <1>4
<1>7. Taken(x, g[1..i])
  BY <1>5, <1>6, TakeKeeps
<1>. QED
  BY <1>3, <1>7

Eligible == {n \in SwingScored(view) \ DOMAIN open : SwingScore(view, n) >= 40}
SwingScores == [n \in SwingScored(view) |-> SwingScore(view, n)]
Passed == {n \in Eligible : view.of[n].price = 0 \/ view.of[n].atr = 0 \/ SwingScore(view, n) <= DeliveryCost}
Taking ==
    [left |-> Slots - Cardinality(DOMAIN open), list |-> Ordered(SwingScores, Eligible), passed |-> Passed,
     signals |-> [n \in Eligible |-> SwingSignal(n)]]
SwingRests ==
    ~Operational \/ view.regime \in {"BEAR", "PANIC"} \/ Cardinality(DOMAIN open) >= Slots \/ SwingScored(view) = {}

LEMMA EligibleIs ==
  ASSUME NEW kind \in Kinds, view \in Views(kind)
  PROVE  /\ Cardinality(Eligible) \in Nat /\ Eligible \subseteq Listed
         /\ Ordered(SwingScores, Eligible) \in [1..Cardinality(Eligible) -> Eligible]
<1>1. Eligible \subseteq SwingScored(view) /\ Eligible \subseteq Listed
  BY DEF Eligible, SwingScored
<1>2. \A n \in Eligible : SwingScores[n] \in Int
  BY <1>1, ScoreWhole DEF SwingScores
<1>. QED
  BY <1>1, <1>2, OrderedIs

LEMMA SwingFolds ==
  ASSUME NEW kind \in Kinds, view \in Views(kind)
  PROVE  \E g : /\ Folding("take", Taking, <<>>, 1..Cardinality(Eligible), g)
               /\ SwingBatch = IF SwingRests THEN NoBatch ELSE Emit(g[1..Cardinality(Eligible)])
<1>. DEFINE L == Ordered(SwingScores, Eligible)
            C == Cardinality(Eligible)
            F(g) == [s \in SUBSET (1..C) |->
                       IF s = {} THEN <<>> ELSE Step("take", Taking, g[s \ {Max(s)}], Max(s))]
            G(g) == [s \in SUBSET (DOMAIN L) |->
                       IF s = {} THEN <<>>
                       ELSE LET i == Max(s) IN
                            IF \/ Len(g[s \ {i}]) >= Slots - Cardinality(DOMAIN open)
                               \/ SectorFull(g[s \ {i}], L[i])
                               \/ view.of[L[i]].price = 0 \/ view.of[L[i]].atr = 0
                               \/ SwingScore(view, L[i]) <= DeliveryCost
                            THEN g[s \ {i}] ELSE Append(g[s \ {i}], SwingSignal(L[i]))]
            h == CHOOSE g : g = G(g)
<1>1. C \in Nat /\ L \in [1..C -> Eligible] /\ DOMAIN L = 1..C
  BY EligibleIs
<1>2. \A g : F(g) = G(g)
  <2>. TAKE g
  <2>1. ASSUME NEW s \in SUBSET (1..C), s # {}, NEW i, i = Max(s)
        PROVE  Step("take", Taking, g[s \ {i}], i) =
                 IF \/ Len(g[s \ {i}]) >= Slots - Cardinality(DOMAIN open)
                    \/ SectorFull(g[s \ {i}], L[i])
                    \/ view.of[L[i]].price = 0 \/ view.of[L[i]].atr = 0
                    \/ SwingScore(view, L[i]) <= DeliveryCost
                 THEN g[s \ {i}] ELSE Append(g[s \ {i}], SwingSignal(L[i]))
    <3>1. i \in 1..C
      <4>1. s \in SUBSET (0..C)
        BY <1>1, <2>1
      <4>. HIDE DEF C
      <4>. QED
        BY <1>1, <2>1, <4>1, GreatestBelow
    <3>. DEFINE n == L[i]
                before == g[s \ {i}]
    <3>2. n \in Eligible
      BY <1>1, <3>1
    <3>3. /\ Taking.left = Slots - Cardinality(DOMAIN open) /\ Taking.list[i] = n
          /\ Taking.signals[n] = SwingSignal(n)
      BY <3>2 DEF Taking
    <3>4. n \in Taking.passed <=> view.of[n].price = 0 \/ view.of[n].atr = 0 \/ SwingScore(view, n) <= DeliveryCost
      BY <3>2 DEF Taking, Passed
    <3>5. Step("take", Taking, before, i) =
            IF Len(before) >= Taking.left \/ SectorFull(before, Taking.list[i]) \/ Taking.list[i] \in Taking.passed
            THEN before ELSE Append(before, Taking.signals[Taking.list[i]])
      BY DEF Step
    <3>. HIDE DEF n, before
    <3>6. Step("take", Taking, before, i) =
            IF \/ Len(before) >= Slots - Cardinality(DOMAIN open)
               \/ SectorFull(before, n)
               \/ view.of[n].price = 0 \/ view.of[n].atr = 0
               \/ SwingScore(view, n) <= DeliveryCost
            THEN before ELSE Append(before, SwingSignal(n))
      BY <3>3, <3>4, <3>5
    <3>. QED
      BY <3>6 DEF n, before
  <2>. HIDE DEF L, C
  <2>. QED
    BY <1>1, <2>1
<1>3. h = CHOOSE g : g = F(g)
  <2>. HIDE DEF F, G
  <2>. QED
    BY <1>2
<1>4. Folding("take", Taking, <<>>, 1..C, h)
  <2>. HIDE DEF G, C
  <2>. QED
    BY <1>1, <1>3, Looping
<1>5. SwingBatch = IF SwingRests THEN NoBatch ELSE Emit(h[DOMAIN L])
  BY DEF SwingBatch, SwingRests, FoldLeft, MapThenFoldSet, Best, Ordered, Behind, Ahead, Place, Eligible, SwingScores
<1>. HIDE DEF h, L
<1>. QED
  BY <1>1, <1>4, <1>5

LEMMA SwingWeightNat ==
  ASSUME NEW kind \in Kinds, view \in Views(kind), NEW n \in Listed PROVE SwingWeight(n) \in Nat
<1>. DEFINE vol == view.of[n].vol
            w == (200 * 100) \div (vol * RootSlots)
            m == Min({300, w})
<1>1. vol \in Nat \ {0}
  BY ViewIs DEF Frames
<1>. HIDE DEF vol
<1>2. vol * RootSlots \in Nat \ {0}
  BY <1>1, RootSlotsIs
<1>3. w \in Int
  BY <1>2
<1>. HIDE DEF w
<1>4. m \in Int
  <2>1. \A a, b \in Int : Min({a, b}) \in Int
    BY LesserOf
  <2>. QED
    BY ONLY <1>3, <2>1 DEF m
<1>. HIDE DEF m
<1>5. Max({10, m}) \in {10, m} /\ Max({10, m}) >= 10
  BY <1>4, GreaterIs
<1>. QED
  BY <1>4, <1>5 DEF SwingWeight, m, w, vol

LEMMA SwingSignalIs ==
  ASSUME NEW cut, view \in Views("swing"), sleeve.day \in Nat, NEW n \in Eligible \ Passed
  PROVE  Ready("swing", view, cut, sleeve.day, SwingSignal(n))
<1>. DEFINE v == view.of[n]
            risk == (2 * v.atr * 1000) \div v.price
            reward == (3 * v.atr * 1000) \div v.price
            edge == SwingScore(view, n) - DeliveryCost
            s == SwingSignal(n)
<1>0. "swing" \in Kinds
  BY DEF Kinds
<1>1. n \in Listed /\ v.price # 0 /\ v.atr # 0
  BY <1>0, EligibleIs DEF Passed
<1>2. v.price \in Nat \ {0} /\ v.atr \in Nat \ {0} /\ 2000 * v.atr >= v.price
  BY <1>0, <1>1, ViewIs DEF Frames
<1>3. risk \in Nat \ {0} /\ reward \in Nat \ {0}
  <2>. HIDE DEF v
  <2>. QED
    BY <1>2, RangeIs
<1>4. SwingWeight(n) \in Nat
  BY <1>0, <1>1, SwingWeightNat
<1>5. s = Signal(n, "LONG", edge, SwingWeight(n), risk, reward, SwingRank(view, n))
  BY DEF SwingSignal
<1>6. Agrees("swing", view, cut, n, SwingRank(view, n))
  BY DEF Agrees
<1>. HIDE DEF s, edge, risk, reward
<1>. QED
  BY <1>1, <1>3, <1>4, <1>5, <1>6, SignalIs DEF s

LEMMA SwingSent ==
  ASSUME NEW cut, view \in Views("swing"), sleeve.day \in Nat,
         IsFiniteSet(DOMAIN open), Cardinality(DOMAIN open) <= Slots
  PROVE  SwingBatch = NoBatch \/ Sent("swing", view, cut, sleeve.day, Cardinality(DOMAIN open), SwingBatch)
<1>. DEFINE C == Cardinality(Eligible)
<1>0. "swing" \in Kinds
  BY DEF Kinds
<1>1. PICK g : Folding("take", Taking, <<>>, 1..C, g) /\ SwingBatch = IF SwingRests THEN NoBatch ELSE Emit(g[1..C])
  BY <1>0, SwingFolds
<1>2. C \in Nat
  BY <1>0, EligibleIs
<1>3. /\ Taking.left = Slots - Cardinality(DOMAIN open) /\ Taking.left \in Nat
      /\ DOMAIN Taking.signals = Eligible /\ Taking.passed = Passed
      /\ \A m \in Eligible : Taking.signals[m] = SwingSignal(m)
      /\ \A i \in 1..C : Taking.list[i] \in Eligible
  <2>1. Slots - Cardinality(DOMAIN open) \in Nat
    BY SlotsLeft
  <2>2. \A i \in 1..C : Ordered(SwingScores, Eligible)[i] \in Eligible
    BY <1>0, EligibleIs
  <2>. QED
    BY <2>1, <2>2 DEF Taking
<1>4. \A m \in Eligible : Taking.signals[m].name = m
  <2>1. \A m : SwingSignal(m).name = m
    BY DEF SwingSignal, Signal
  <2>. QED
    BY <1>3, <2>1
<1>. DEFINE e == g[1..C]
<1>5. Taken(Taking, e)
  <2>. HIDE DEF C
  <2>. QED
    BY <1>1, <1>2, <1>3, <1>4, TakeLoop
<1>. HIDE DEF C, e
<1>6. Len(e) \in Nat /\ e = [i \in 1..Len(e) |-> e[i]] /\ DOMAIN e = 1..Len(e) /\ Len(e) <= Slots - Cardinality(DOMAIN open)
      /\ Spread(e)
  BY <1>3, <1>5, ListingHas DEF Taken
<1>7. ASSUME NEW i \in 1..Len(e)
      PROVE  Ready("swing", view, cut, sleeve.day, e[i])
  <2>1. PICK m \in Eligible \ Passed : e[i] = SwingSignal(m)
    BY <1>3, <1>5, <1>6 DEF Taken
  <2>. QED
    BY <2>1, SwingSignalIs
<1>8. Sent("swing", view, cut, sleeve.day, Cardinality(DOMAIN open), Emit(e))
  BY <1>6, <1>7, EmitIs
<1>. QED
  BY <1>1, <1>8 DEF e

-----------------------------------------------------------------------------
(* The first few of a list                                                    *)

FirstOf(f, names, left) == SubSeq(Ordered(f, names), 1, Min({Cardinality(names), left}))

LEMMA FirstOfIs ==
  ASSUME NEW names, names \subseteq Listed, NEW f, \A n \in names : f[n] \in Int, NEW left \in Nat
  PROVE  \E m \in Nat : /\ m <= left /\ DOMAIN FirstOf(f, names, left) = 1..m
                        /\ \A i \in 1..m : FirstOf(f, names, left)[i] \in names
<1>. DEFINE C == Cardinality(names)
            L == Ordered(f, names)
            m == Min({C, left})
            top == SubSeq(L, 1, m)
<1>1. C \in Nat /\ L \in [1..C -> names]
  BY OrderedIs
<1>. HIDE DEF C, L
<1>2. m \in Nat /\ m <= C /\ m <= left
  <2>1. \A a, b \in Int : Min({a, b}) \in {a, b} /\ Min({a, b}) <= a /\ Min({a, b}) <= b
    BY LesserOf
  <2>2. C \in Int /\ left \in Int
    BY <1>1
  <2>3. m \in {C, left} /\ m <= C /\ m <= left
    BY ONLY <2>1, <2>2 DEF m
  <2>. QED
    BY <1>1, <2>3
<1>. HIDE DEF m
<1>3. L \in Seq(names) /\ Len(L) = C
  BY <1>1
<1>4. DOMAIN top = 1..m /\ \A i \in 1..m : top[i] = L[i]
  BY <1>2, <1>3
<1>5. \A i \in 1..m : L[i] \in names
  BY <1>1, <1>2
<1>6. FirstOf(f, names, left) = top
  BY DEF FirstOf, top, L, m, C
<1>. HIDE DEF top
<1>. QED
  BY <1>2, <1>4, <1>5, <1>6

LEMMA RangeSmall ==
  ASSUME NEW names, NEW m \in Nat, NEW e, DOMAIN e = 1..m, \A i \in 1..m : e[i] \in names
  PROVE  /\ Range(e) \subseteq names /\ IsFiniteSet(Range(e)) /\ Cardinality(Range(e)) <= m
<1>1. Range(e) = {e[i] : i \in DOMAIN e}
  BY DEF Range
<1>2. IsFiniteSet(1..m) /\ Cardinality(1..m) = m
  BY FS_Interval
<1>3. IsFiniteSet(Range(e)) /\ Cardinality(Range(e)) <= m
  BY <1>1, <1>2, ImageOf
<1>. QED
  BY <1>1, <1>3

LEMMA PortionNat ==
  ASSUME NEW kind \in Kinds, view \in Views(kind), NEW n \in Listed, NEW x \in Nat
  PROVE  x \div (view.of[n].vol * RootSlots) \in Nat
<1>. DEFINE vol == view.of[n].vol
<1>1. vol \in Nat \ {0}
  BY ViewIs DEF Frames
<1>. HIDE DEF vol
<1>2. vol * RootSlots \in Nat \ {0}
  BY <1>1, RootSlotsIs
<1>. DEFINE d == vol * RootSlots
<1>. HIDE DEF d
<1>3. x \div d \in Nat
  BY <1>2 DEF d
<1>. QED
  BY <1>3 DEF d, vol

LEMMA LongWeightNat ==
  ASSUME NEW kind \in Kinds, view \in Views(kind), NEW n \in Listed PROVE LongWeight(n) \in Nat
<1>. DEFINE x == (150 * 100) \div (view.of[n].vol * RootSlots)
            y == (2 * Everything) \div Slots
            m == Min({y, x})
<1>0. 150 * 100 \in Nat
  OBVIOUS
<1>1. x \in Nat
  BY ONLY <1>0, PortionNat, kind \in Kinds, view \in Views(kind), n \in Listed
<1>2. y \in Int
  BY StrategiesAssumption DEF Everything
<1>. HIDE DEF x, y
<1>3. m \in Int
  <2>1. \A a, b \in Int : Min({a, b}) \in Int
    BY LesserOf
  <2>. QED
    BY <1>1, <1>2, <2>1
<1>. HIDE DEF m
<1>4. \A a, b \in Int : Max({a, b}) \in Int /\ Max({a, b}) >= a
  BY GreaterIs
<1>5. Max({20, m}) \in Int /\ Max({20, m}) >= 20
  BY ONLY <1>3, <1>4
<1>. QED
  BY <1>5 DEF LongWeight, m, x, y

-----------------------------------------------------------------------------
(* The long-term sleeve takes from the top tenth                                *)

LongScores == [n \in Composites(view) |-> view.of[n].score]
Candidates == {n \in Composites(view) \ DOMAIN open : 100 * LongScores[n] >= BuyCut(view) /\ view.of[n].valuation >= 20}
Entries == {n \in Range(FirstOf(LongScores, Candidates, Slots - Cardinality(DOMAIN open))) :
              view.of[n].price > 0 /\ LongEdge(view, n) > 0}
LongExits == {n \in DOMAIN open : n \notin Composites(view) \/ 100 * view.of[n].score < SellCut(view)}

LEMMA LongIs ==
  LongBatch = IF ~Operational \/ Composites(view) = {} THEN NoBatch
              ELSE [Emit(IF Ranks(view) THEN [i \in DOMAIN Ordered(LongScores, Entries) |->
                                               LongSignal(Ordered(LongScores, Entries)[i])] ELSE <<>>)
                      EXCEPT !.exits = LongExits]
BY DEF LongBatch, LongScores, Candidates, Entries, LongExits, FirstOf, Ordered, Behind, Ahead, Place, Best

LEMMA EntriesAre ==
  ASSUME view \in Views("longterm"), IsFiniteSet(DOMAIN open), Cardinality(DOMAIN open) <= Slots
  PROVE  /\ Entries \subseteq Candidates /\ Candidates \subseteq Composites(view) /\ Candidates \subseteq Listed
         /\ Cardinality(Entries) \in Nat /\ Cardinality(Entries) <= Slots - Cardinality(DOMAIN open)
         /\ Ordered(LongScores, Entries) \in [1..Cardinality(Entries) -> Entries]
<1>. DEFINE left == Slots - Cardinality(DOMAIN open)
            top == FirstOf(LongScores, Candidates, left)
<1>1. Candidates \subseteq Composites(view) /\ Composites(view) \subseteq Listed
  BY DEF Candidates, Composites
<1>2. \A n \in Composites(view) : LongScores[n] \in Int
  <2>1. "longterm" \in Kinds
    BY DEF Kinds
  <2>. QED
    BY <1>1, <2>1, ViewIs DEF LongScores, Frames, Composites
<1>3. left \in Nat
  BY SlotsLeft
<1>. HIDE DEF left
<1>4. PICK m \in Nat : m <= left /\ DOMAIN top = 1..m /\ \A i \in 1..m : top[i] \in Candidates
  BY <1>1, <1>2, <1>3, FirstOfIs
<1>. HIDE DEF top
<1>5. Range(top) \subseteq Candidates /\ IsFiniteSet(Range(top)) /\ Cardinality(Range(top)) <= m
  BY <1>4, RangeSmall
<1>6. Entries \subseteq Range(top)
  BY DEF Entries, top, left
<1>7. Cardinality(Entries) <= Cardinality(Range(top)) /\ IsFiniteSet(Entries) /\ Cardinality(Range(top)) \in Nat
  BY <1>5, <1>6, FS_Subset, FS_CardinalityType
<1>8. Entries \subseteq Listed /\ \A n \in Entries : LongScores[n] \in Int
  BY <1>1, <1>2, <1>5, <1>6
<1>9. Cardinality(Entries) \in Nat /\ Ordered(LongScores, Entries) \in [1..Cardinality(Entries) -> Entries]
  BY <1>8, OrderedIs
<1>10. Cardinality(Entries) <= left
  BY <1>3, <1>4, <1>5, <1>7, <1>9
<1>. QED
  BY <1>1, <1>5, <1>6, <1>9, <1>10 DEF left

LEMMA LongSignalIs ==
  ASSUME view \in Views("longterm"), sleeve.day \in Nat, Ranks(view), NEW n \in Candidates, view.of[n].price > 0
  PROVE  Ready("longterm", view, SellCut(view), sleeve.day, LongSignal(n))
<1>. DEFINE v == view.of[n]
            x == (5 * v.atr * 1000) \div (2 * v.price)
            risk == Max({50, x})
            reward == 3 * risk
            s == LongSignal(n)
<1>0. "longterm" \in Kinds
  BY DEF Kinds
<1>1. n \in Composites(view) /\ n \in Listed
  BY DEF Candidates, Composites
<1>2. v.price \in Nat \ {0} /\ v.atr \in Nat /\ v.score \in Int
  BY <1>0, <1>1, ViewIs DEF Frames, Composites
<1>3. x \in Int
  <2>. HIDE DEF v
  <2>. QED
    BY <1>2
<1>. HIDE DEF x
<1>4. risk \in Nat \ {0}
  <2>1. \A a, b \in Int : Max({a, b}) \in Int /\ Max({a, b}) >= a
    BY GreaterIs
  <2>2. risk \in Int /\ risk >= 50
    BY ONLY <1>3, <2>1 DEF risk
  <2>. QED
    BY <2>2
<1>. HIDE DEF risk
<1>5. reward \in Nat \ {0}
  BY <1>4
<1>6. LongWeight(n) \in Nat
  BY <1>0, <1>1, LongWeightNat
<1>7. s = Signal(n, "LONG", LongEdge(view, n), LongWeight(n), risk, reward, LongRank(view, n))
  BY DEF LongSignal, x, risk
<1>8. 100 * v.score >= SellCut(view)
  <2>1. 100 * v.score >= BuyCut(view)
    BY <1>1 DEF Candidates, LongScores
  <2>2. SellCut(view) \in Int /\ BuyCut(view) \in Int /\ SellCut(view) <= BuyCut(view)
    BY <1>0, <1>1, CutsApart
  <2>. QED
    BY <1>2, <2>1, <2>2
<1>9. Agrees("longterm", view, SellCut(view), n, LongRank(view, n))
  BY <1>8 DEF Agrees
<1>. HIDE DEF s, reward, v
<1>. QED
  BY <1>1, <1>4, <1>5, <1>6, <1>7, <1>9, SignalIs DEF s

LEMMA LongSent ==
  ASSUME view \in Views("longterm"), sleeve.day \in Nat,
         IsFiniteSet(DOMAIN open), Cardinality(DOMAIN open) <= Slots
  PROVE  \/ LongBatch = NoBatch
         \/ /\ Operational /\ Composites(view) # {}
            /\ Sent("longterm", view, SellCut(view), sleeve.day, Cardinality(DOMAIN open), LongBatch)
<1>. DEFINE L == Ordered(LongScores, Entries)
            C == Cardinality(Entries)
            full == [i \in DOMAIN L |-> LongSignal(L[i])]
            e == IF Ranks(view) THEN full ELSE <<>>
            b == Emit(e)
<1>1. C \in Nat /\ C <= Slots - Cardinality(DOMAIN open) /\ L \in [1..C -> Entries] /\ Entries \subseteq Candidates
  BY EntriesAre
<1>. HIDE DEF C, L
<1>2. \E n \in Nat : /\ n <= Slots - Cardinality(DOMAIN open) /\ e = [i \in 1..n |-> e[i]]
                     /\ \A i \in 1..n : Ready("longterm", view, SellCut(view), sleeve.day, e[i])
  <2>1. CASE Ranks(view)
    <3>1. e = full
      BY <2>1
    <3>2. DOMAIN full = 1..C /\ full = [i \in 1..C |-> full[i]] /\ \A i \in 1..C : full[i] = LongSignal(L[i])
      BY <1>1
    <3>. HIDE DEF full
    <3>3. ASSUME NEW i \in 1..C PROVE Ready("longterm", view, SellCut(view), sleeve.day, full[i])
      <4>. DEFINE n == L[i]
      <4>1. n \in Entries /\ n \in Candidates
        BY <1>1
      <4>2. view.of[n].price > 0
        BY <4>1 DEF Entries
      <4>3. full[i] = LongSignal(n)
        BY <3>2
      <4>. HIDE DEF n
      <4>. QED
        BY <2>1, <4>1, <4>2, <4>3, LongSignalIs
    <3>. HIDE DEF e
    <3>. QED
      BY <1>1, <3>1, <3>2, <3>3
  <2>2. CASE ~Ranks(view)
    <3>1. e = <<>>
      BY <2>2
    <3>2. <<>> = [i \in 1..0 |-> <<>>[i]] /\ 0 <= Slots - Cardinality(DOMAIN open)
      BY SlotsLeft
    <3>. HIDE DEF e
    <3>3. 0 \in Nat /\ \A i \in 1..0 : Ready("longterm", view, SellCut(view), sleeve.day, e[i])
      OBVIOUS
    <3>. QED
      BY <3>1, <3>2, <3>3
  <2>. QED
    BY <2>1, <2>2
<1>3. LongBatch = IF ~Operational \/ Composites(view) = {} THEN NoBatch ELSE [b EXCEPT !.exits = LongExits]
  BY LongIs DEF L
<1>. HIDE DEF e
<1>4. /\ Sent("longterm", view, SellCut(view), sleeve.day, Cardinality(DOMAIN open), b)
      /\ b = [signals |-> b.signals, budget |-> b.budget, filled |-> b.filled, exits |-> {}]
  BY <1>2, EmitIs
<1>. HIDE DEF b
<1>. DEFINE c == [b EXCEPT !.exits = LongExits]
<1>5. c.signals = b.signals /\ c.filled = b.filled
  BY <1>4
<1>6. Sent("longterm", view, SellCut(view), sleeve.day, Cardinality(DOMAIN open), c)
  <2>. HIDE DEF c
  <2>. QED
    BY <1>4, <1>5, SentAlike
<1>. QED
  BY <1>3, <1>6

-----------------------------------------------------------------------------
(* The intraday sleeve takes the widest edges                                  *)

IntraChosen ==
    {n \in {m \in Listed \ DOMAIN open : view.of[m].liquid /\ view.of[m].price > 0} :
        /\ Expected(n) # 0
        /\ sleeve.longOnly => Side(n) = "LONG"
        /\ ~(Breadth >= 400) => Side(n) = "SHORT"
        /\ IntraEdge(n) > 30}
Edges == [n \in IntraChosen |-> IntraEdge(n)]
IntraTop == FirstOf(Edges, IntraChosen, Slots - Cardinality(DOMAIN open))
IntraRests ==
    \/ ~Operational
    \/ sleeve.minute < GraceEnd \/ sleeve.minute >= Cutoff
    \/ Cardinality(DOMAIN open) >= Slots
    \/ ~(Breadth >= 400) /\ sleeve.longOnly

LEMMA IntraIs ==
  IntraBatch = IF IntraRests THEN NoBatch ELSE Emit([i \in DOMAIN IntraTop |-> IntraSignal(IntraTop[i])])
BY DEF IntraBatch, IntraRests, IntraTop, Edges, IntraChosen, FirstOf, Ordered, Behind, Ahead, Place, Best

LEMMA IntraEdgeWhole ==
  ASSUME NEW kind \in Kinds, view \in Views(kind), NEW n \in Listed PROVE Expected(n) \in Int /\ IntraEdge(n) \in Int
<1>. DEFINE v == view.of[n]
            x == 100 + (v.surge - 100) \div 4
            c == Clip(x, 50, 125)
<1>1. v.move \in Int /\ v.surge \in Int
  BY ViewIs DEF Frames
<1>. HIDE DEF v
<1>2. x \in Int
  BY <1>1
<1>. HIDE DEF x
<1>3. c \in Int
  <2>1. \A a, l, h \in Int : Clip(a, l, h) \in Int
    BY ClipIs
  <2>. QED
    BY ONLY <1>2, <2>1 DEF c
<1>. HIDE DEF c
<1>4. v.move * c \in Int
  BY <1>1, <1>3
<1>5. Expected(n) = (v.move * c) \div 400
  BY DEF Expected, v, x, c
<1>6. Expected(n) \in Int
  BY <1>4, <1>5
<1>. QED
  BY <1>6 DEF IntraEdge

LEMMA IntraSignalIs ==
  ASSUME NEW cut, view \in Views("intraday"), sleeve.day \in Nat, NEW n \in IntraChosen
  PROVE  Ready("intraday", view, cut, sleeve.day, IntraSignal(n))
<1>. DEFINE v == view.of[n]
            x == (3 * v.atr * 1000) \div (2 * v.price)
            risk == IntraRisk(n)
            reward == 2 * risk
            y == 5000 \div risk
            raw == Min({100, y})
            s == IntraSignal(n)
<1>0. "intraday" \in Kinds
  BY DEF Kinds
<1>1. n \in Listed /\ v.price > 0
  BY DEF IntraChosen
<1>2. v.price \in Nat \ {0} /\ v.atr \in Nat
  BY <1>0, <1>1, ViewIs DEF Frames
<1>3. x \in Int
  <2>. HIDE DEF v
  <2>. QED
    BY <1>2
<1>4. risk \in Nat \ {0}
  <2>1. risk = Max({5, x})
    BY DEF IntraRisk
  <2>2. \A a, b \in Int : Max({a, b}) \in Int /\ Max({a, b}) >= a
    BY GreaterIs
  <2>. HIDE DEF x, risk
  <2>3. risk \in Int /\ risk >= 5
    BY ONLY <1>3, <2>1, <2>2
  <2>. QED
    BY <2>3
<1>5. s = Signal(n, Side(n), IntraEdge(n), raw, risk, reward, 0)
  BY DEF IntraSignal
<1>. HIDE DEF risk
<1>6. raw \in Nat /\ raw <= 100
  <2>1. y \in Nat
    BY <1>4
  <2>2. \A a, b \in Int : Min({a, b}) \in {a, b} /\ Min({a, b}) <= a
    BY LesserOf
  <2>. HIDE DEF y
  <2>3. raw \in {100, y} /\ raw <= 100
    BY ONLY <2>1, <2>2 DEF raw
  <2>. HIDE DEF raw
  <2>. QED
    BY <2>1, <2>3
<1>7. reward \in Nat \ {0}
  BY <1>4
<1>8. Side(n) \in {"LONG", "SHORT"}
  BY DEF Side
<1>9. Agrees("intraday", view, cut, n, 0)
  BY DEF Agrees
<1>. HIDE DEF s, raw, reward
<1>. QED
  BY <1>1, <1>4, <1>5, <1>6, <1>7, <1>8, <1>9, SignalIs DEF s

LEMMA IntraSent ==
  ASSUME NEW cut, view \in Views("intraday"), sleeve.day \in Nat,
         IsFiniteSet(DOMAIN open), Cardinality(DOMAIN open) <= Slots
  PROVE  IntraBatch = NoBatch \/ Sent("intraday", view, cut, sleeve.day, Cardinality(DOMAIN open), IntraBatch)
<1>. DEFINE left == Slots - Cardinality(DOMAIN open)
            e == [i \in DOMAIN IntraTop |-> IntraSignal(IntraTop[i])]
<1>1. IntraChosen \subseteq Listed
  BY DEF IntraChosen
<1>2. \A n \in IntraChosen : Edges[n] \in Int
  <2>1. "intraday" \in Kinds
    BY DEF Kinds
  <2>. QED
    BY <1>1, <2>1, IntraEdgeWhole DEF Edges
<1>3. left \in Nat
  BY SlotsLeft
<1>. HIDE DEF left
<1>4. PICK m \in Nat : m <= left /\ DOMAIN IntraTop = 1..m /\ \A i \in 1..m : IntraTop[i] \in IntraChosen
  <2>1. IntraTop = FirstOf(Edges, IntraChosen, left)
    BY DEF IntraTop, left
  <2>. QED
    BY <1>1, <1>2, <1>3, <2>1, FirstOfIs
<1>5. e = [i \in 1..m |-> e[i]] /\ \A i \in 1..m : e[i] = IntraSignal(IntraTop[i])
  BY <1>4
<1>. HIDE DEF e
<1>6. \A i \in 1..m : Ready("intraday", view, cut, sleeve.day, e[i])
  BY <1>4, <1>5, IntraSignalIs
<1>7. Sent("intraday", view, cut, sleeve.day, Cardinality(DOMAIN open), Emit(e))
  BY <1>4, <1>5, <1>6, EmitIs DEF left
<1>. QED
  BY <1>7, IntraIs DEF e

-----------------------------------------------------------------------------
(* What holds of a sleeve at every step                                        *)

SleeveTyped(kinds) ==
    /\ sleeve = [kind |-> sleeve.kind, mock |-> sleeve.mock, longOnly |-> sleeve.longOnly, paper |-> sleeve.paper,
                 health |-> sleeve.health, engine |-> sleeve.engine, day |-> sleeve.day, minute |-> sleeve.minute,
                 lastCut |-> sleeve.lastCut, cycles |-> sleeve.cycles, reviewed |-> sleeve.reviewed]
    /\ sleeve.kind \in kinds /\ (sleeve.mock => sleeve.kind = "longterm")
    /\ sleeve.engine \in {"approves", "refuses", "broken"}
    /\ sleeve.day \in Nat /\ sleeve.minute \in Nat
    /\ view \in Views(sleeve.kind)

Standing(kind, seen, cut, day, n, p) ==
    /\ n \in Listed /\ p.side \in {"LONG", "SHORT"}
    /\ p.risk \in Nat \ {0} /\ p.reward \in Nat \ {0} /\ p.entry \in Nat \ {0}
    /\ p.weight \in Nat /\ (kind = "intraday" => p.weight <= 100)
    /\ p.since \in Nat /\ p.since <= day /\ (p.since = day => p.entry = seen.of[n].price)
    /\ Timely(kind, seen, cut, day, n, p.rank, p.signalled)

SquaredOff == sleeve.kind = "intraday" /\ sleeve.reviewed /\ sleeve.minute >= SquareOff => DOMAIN open = {}
SleeveInv(kinds) ==
    /\ SleeveTyped(kinds)
    /\ Cardinality(DOMAIN open) <= Slots
    /\ \A n \in DOMAIN open : Standing(sleeve.kind, view, sleeve.lastCut, sleeve.day, n, open[n])
    /\ batch = NoBatch \/ Sent(sleeve.kind, view, sleeve.lastCut, sleeve.day, Cardinality(DOMAIN open), batch)
    /\ SquaredOff

LEMMA OpenFinite ==
  ASSUME NEW kinds, SleeveInv(kinds) PROVE IsFiniteSet(DOMAIN open) /\ DOMAIN open \subseteq Listed /\ Cardinality(DOMAIN open) \in Nat
<1>1. DOMAIN open \subseteq Listed
  BY DEF SleeveInv, Standing
<1>. QED
  BY <1>1, ListedFinite, FS_Subset, FS_CardinalityType

LEMMA Later ==
  ASSUME NEW kind, NEW seen, NEW cut, NEW day \in Nat, NEW other, NEW new
  PROVE  /\ \A n, p : Standing(kind, seen, cut, day, n, p) => Standing(kind, other, new, day + 1, n, p)
         /\ \A held, b : Sent(kind, seen, cut, day, held, b) => Sent(kind, other, new, day + 1, held, b)
<1>1. \A name, rank, made : Timely(kind, seen, cut, day, name, rank, made) => Timely(kind, other, new, day + 1, name, rank, made)
  BY DEF Timely
<1>2. ASSUME NEW n, NEW p, Standing(kind, seen, cut, day, n, p) PROVE Standing(kind, other, new, day + 1, n, p)
  BY <1>1, <1>2 DEF Standing
<1>3. ASSUME NEW held, NEW b, Sent(kind, seen, cut, day, held, b) PROVE Sent(kind, other, new, day + 1, held, b)
  BY <1>1, <1>3 DEF Sent
<1>. QED
  BY <1>2, <1>3

LEMMA FewerHeld ==
  ASSUME NEW kind, NEW seen, NEW cut, NEW day, NEW held \in Nat, NEW fewer \in Nat, fewer <= held, NEW b,
         Sent(kind, seen, cut, day, held, b)
  PROVE  Sent(kind, seen, cut, day, fewer, b)
<1>1. b.filled \in fewer..Slots
  BY StrategiesAssumption DEF Sent
<1>. QED
  BY <1>1 DEF Sent

LEMMA SleeveStart ==
  ASSUME NEW kinds, kinds \subseteq Kinds, StrategiesInit(kinds) PROVE SleeveInv(kinds)
<1>1. Min(Minutes) \in Nat
  BY StrategiesAssumption, LeastIn
<1>2. SleeveTyped(kinds)
  <2>1. PICK k \in kinds, mock, longOnly \in BOOLEAN, engine \in {"approves", "refuses", "broken"} :
          /\ mock => k = "longterm"
          /\ ~longOnly => k = "intraday"
          /\ sleeve = [kind |-> k, mock |-> mock, longOnly |-> longOnly, paper |-> TRUE, health |-> "HEALTHY",
                       engine |-> engine, day |-> 0, minute |-> Min(Minutes), lastCut |-> 4000, cycles |-> 0, reviewed |-> FALSE]
          /\ view \in Views(k)
    BY DEF StrategiesInit
  <2>. QED
    BY <1>1, <2>1 DEF SleeveTyped
<1>3. DOMAIN open = {} /\ batch = NoBatch
  BY DEF StrategiesInit
<1>4. Cardinality(DOMAIN open) <= Slots
  BY <1>3, FS_EmptySet, StrategiesAssumption
<1>. QED
  BY <1>2, <1>3, <1>4 DEF SleeveInv, SquaredOff

(* The fields of the sleeve that a step changes, and those it leaves.           *)
LEMMA Renewed ==
  ASSUME NEW kinds, SleeveTyped(kinds), NEW c, NEW x, NEW s, s = [sleeve EXCEPT !.cycles = c, !.lastCut = x]
  PROVE  s = [kind |-> sleeve.kind, mock |-> sleeve.mock, longOnly |-> sleeve.longOnly, paper |-> sleeve.paper,
              health |-> sleeve.health, engine |-> sleeve.engine, day |-> sleeve.day, minute |-> sleeve.minute,
              lastCut |-> x, cycles |-> c, reviewed |-> sleeve.reviewed]
BY DEF SleeveTyped

LEMMA Turned ==
  ASSUME NEW kinds, SleeveTyped(kinds), NEW d, NEW m, NEW s, s = [sleeve EXCEPT !.day = d, !.minute = m, !.reviewed = FALSE]
  PROVE  s = [kind |-> sleeve.kind, mock |-> sleeve.mock, longOnly |-> sleeve.longOnly, paper |-> sleeve.paper,
              health |-> sleeve.health, engine |-> sleeve.engine, day |-> d, minute |-> m,
              lastCut |-> sleeve.lastCut, cycles |-> sleeve.cycles, reviewed |-> FALSE]
BY DEF SleeveTyped

LEMMA LookKeeps ==
  ASSUME NEW kinds, kinds \subseteq Kinds, SleeveInv(kinds), Look PROVE SleeveInv(kinds)'
<1>1. PICK m \in (IF sleeve.kind = "intraday" THEN Minutes ELSE {Min(Minutes)}) :
        sleeve' = [sleeve EXCEPT !.day = @ + 1, !.minute = m, !.reviewed = FALSE]
  BY DEF Look
<1>2. view' \in Views(sleeve.kind) /\ open' = open /\ batch' = batch
  BY DEF Look
<1>3. m \in Nat
  BY <1>1, StrategiesAssumption, LeastIn
<1>4. SleeveTyped(kinds) /\ sleeve.day \in Nat
  BY DEF SleeveInv, SleeveTyped
<1>5. sleeve' = [kind |-> sleeve.kind, mock |-> sleeve.mock, longOnly |-> sleeve.longOnly, paper |-> sleeve.paper,
                 health |-> sleeve.health, engine |-> sleeve.engine, day |-> sleeve.day + 1, minute |-> m,
                 lastCut |-> sleeve.lastCut, cycles |-> sleeve.cycles, reviewed |-> FALSE]
  BY <1>1, <1>4, Turned
<1>6. SleeveTyped(kinds)'
  BY <1>2, <1>3, <1>4, <1>5 DEF SleeveTyped
<1>7. /\ sleeve'.kind = sleeve.kind /\ sleeve'.day = sleeve.day + 1 /\ sleeve'.lastCut = sleeve.lastCut
      /\ sleeve'.reviewed = FALSE
  BY <1>5
<1>8. /\ \A n \in DOMAIN open : Standing(sleeve.kind, view', sleeve.lastCut, sleeve.day + 1, n, open[n])
      /\ batch = NoBatch \/ Sent(sleeve.kind, view', sleeve.lastCut, sleeve.day + 1, Cardinality(DOMAIN open), batch)
  BY <1>4, Later DEF SleeveInv
<1>9. SquaredOff'
  BY <1>7 DEF SquaredOff
<1>10. Cardinality(DOMAIN open) <= Slots
  BY DEF SleeveInv
<1>. QED
  BY <1>2, <1>6, <1>7, <1>8, <1>9, <1>10 DEF SleeveInv

(* Neither the mode nor the health is in what holds of the book.              *)
LEMMA SameBook ==
  ASSUME NEW kinds, SleeveInv(kinds), SleeveTyped(kinds)', view' = view, open' = open, batch' = batch,
         sleeve'.kind = sleeve.kind, sleeve'.day = sleeve.day, sleeve'.lastCut = sleeve.lastCut,
         sleeve'.reviewed = sleeve.reviewed, sleeve'.minute = sleeve.minute
  PROVE  SleeveInv(kinds)'
BY DEF SleeveInv, SquaredOff

LEMMA ModeKeeps ==
  ASSUME NEW kinds, SleeveInv(kinds), ChangeHealth \/ GoLive PROVE SleeveInv(kinds)'
<1>1. SleeveTyped(kinds)
  BY DEF SleeveInv
<1>2. view' = view /\ open' = open /\ batch' = batch
  BY DEF ChangeHealth, GoLive
<1>3. \E h, p : sleeve' = [kind |-> sleeve.kind, mock |-> sleeve.mock, longOnly |-> sleeve.longOnly, paper |-> p,
                 health |-> h, engine |-> sleeve.engine, day |-> sleeve.day, minute |-> sleeve.minute,
                 lastCut |-> sleeve.lastCut, cycles |-> sleeve.cycles, reviewed |-> sleeve.reviewed]
  <2>1. CASE ChangeHealth
    <3>1. PICK h : sleeve' = [sleeve EXCEPT !.health = h]
      BY <2>1 DEF ChangeHealth
    <3>. QED
      BY <1>1, <3>1 DEF SleeveTyped
  <2>2. CASE GoLive
    <3>1. sleeve' = [sleeve EXCEPT !.paper = FALSE]
      BY <2>2 DEF GoLive
    <3>. QED
      BY <1>1, <3>1 DEF SleeveTyped
  <2>. QED
    BY <2>1, <2>2
<1>4. /\ SleeveTyped(kinds)' /\ sleeve'.kind = sleeve.kind /\ sleeve'.day = sleeve.day /\ sleeve'.lastCut = sleeve.lastCut
      /\ sleeve'.reviewed = sleeve.reviewed /\ sleeve'.minute = sleeve.minute
  BY <1>1, <1>2, <1>3 DEF SleeveTyped
<1>. QED
  BY <1>2, <1>4, SameBook

LEMMA ReviewKeeps ==
  ASSUME NEW kinds, SleeveInv(kinds), Review PROVE SleeveInv(kinds)'
<1>1. SleeveTyped(kinds)
  BY DEF SleeveInv
<1>2. sleeve' = [sleeve EXCEPT !.reviewed = TRUE] /\ view' = view /\ batch' = batch
  BY DEF Review
<1>3. DOMAIN open' = {m \in DOMAIN open : ~ShouldExit(m)} /\ \A n \in DOMAIN open' : open'[n] = open[n]
  BY DEF Review
<1>4. sleeve' = [kind |-> sleeve.kind, mock |-> sleeve.mock, longOnly |-> sleeve.longOnly, paper |-> sleeve.paper,
                 health |-> sleeve.health, engine |-> sleeve.engine, day |-> sleeve.day, minute |-> sleeve.minute,
                 lastCut |-> sleeve.lastCut, cycles |-> sleeve.cycles, reviewed |-> TRUE]
  BY <1>1, <1>2 DEF SleeveTyped
<1>5. /\ SleeveTyped(kinds)' /\ sleeve'.kind = sleeve.kind /\ sleeve'.day = sleeve.day /\ sleeve'.lastCut = sleeve.lastCut
      /\ sleeve'.minute = sleeve.minute
  BY <1>1, <1>2, <1>4 DEF SleeveTyped
<1>6. IsFiniteSet(DOMAIN open) /\ DOMAIN open' \subseteq DOMAIN open
  BY <1>3, OpenFinite
<1>7. /\ Cardinality(DOMAIN open') \in Nat /\ Cardinality(DOMAIN open) \in Nat
      /\ Cardinality(DOMAIN open') <= Cardinality(DOMAIN open)
  BY <1>6, FS_Subset, FS_CardinalityType
<1>8. Cardinality(DOMAIN open') <= Slots
  BY <1>7, StrategiesAssumption DEF SleeveInv
<1>9. \A n \in DOMAIN open' : Standing(sleeve.kind, view, sleeve.lastCut, sleeve.day, n, open'[n])
  BY <1>3 DEF SleeveInv
<1>10. batch = NoBatch \/ Sent(sleeve.kind, view, sleeve.lastCut, sleeve.day, Cardinality(DOMAIN open'), batch)
  BY <1>7, FewerHeld DEF SleeveInv
<1>11. SquaredOff'
  <2>. SUFFICES ASSUME sleeve.kind = "intraday", sleeve.minute >= SquareOff PROVE DOMAIN open' = {}
    BY <1>5 DEF SquaredOff
  <2>1. \A n \in DOMAIN open : ShouldExit(n)
    BY DEF ShouldExit, IntraExit
  <2>. QED
    BY <1>3, <2>1
<1>. QED
  BY <1>2, <1>5, <1>8, <1>9, <1>10, <1>11 DEF SleeveInv

LEMMA Recut ==
  ASSUME NEW kind, NEW seen, NEW cut, NEW day, NEW x \in {cut, SellCut(seen)}, NEW n, NEW p, Standing(kind, seen, cut, day, n, p)
  PROVE  Standing(kind, seen, x, day, n, p)
<1>1. \A name, rank : Agrees(kind, seen, cut, name, rank) => Agrees(kind, seen, x, name, rank)
  BY DEF Agrees
<1>. QED
  BY <1>1 DEF Standing, Timely

LEMMA GenerateKeeps ==
  ASSUME NEW kinds, kinds \subseteq Kinds, SleeveInv(kinds), GenerateSignals PROVE SleeveInv(kinds)'
<1>. DEFINE fresh == sleeve.kind = "longterm" /\ Operational /\ Composites(view) # {}
            x == IF fresh THEN SellCut(view) ELSE sleeve.lastCut
            held == Cardinality(DOMAIN open)
<1>1. SleeveTyped(kinds)
  BY DEF SleeveInv
<1>2. sleeve' = [sleeve EXCEPT !.cycles = sleeve.cycles + 1, !.lastCut = x] /\ view' = view /\ open' = open
  BY DEF GenerateSignals
<1>3. batch' = CASE sleeve.kind = "swing" -> SwingBatch
                  [] sleeve.kind = "longterm" -> LongBatch
                  [] sleeve.kind = "intraday" -> IntraBatch
  BY DEF GenerateSignals
<1>4. /\ sleeve.kind \in Kinds /\ sleeve.kind \in {"swing", "longterm", "intraday"} /\ sleeve.day \in Nat
      /\ view \in Views(sleeve.kind)
  BY <1>1 DEF SleeveTyped, Kinds
<1>5. IsFiniteSet(DOMAIN open) /\ Cardinality(DOMAIN open) <= Slots
  BY OpenFinite DEF SleeveInv
<1>6. batch' = NoBatch \/ Sent(sleeve.kind, view, x, sleeve.day, held, batch')
  <2>1. CASE sleeve.kind = "swing"
    <3>1. batch' = SwingBatch
      BY <1>3, <2>1
    <3>2. view \in Views("swing")
      BY <1>4, <2>1
    <3>. HIDE DEF x
    <3>3. SwingBatch = NoBatch \/ Sent("swing", view, x, sleeve.day, held, SwingBatch)
      BY <1>4, <1>5, <3>2, SwingSent
    <3>. QED
      BY <2>1, <3>1, <3>3
  <2>2. CASE sleeve.kind = "intraday"
    <3>1. batch' = IntraBatch
      BY <1>3, <2>2
    <3>2. view \in Views("intraday")
      BY <1>4, <2>2
    <3>. HIDE DEF x
    <3>3. IntraBatch = NoBatch \/ Sent("intraday", view, x, sleeve.day, held, IntraBatch)
      BY <1>4, <1>5, <3>2, IntraSent
    <3>. QED
      BY <2>2, <3>1, <3>3
  <2>3. CASE sleeve.kind = "longterm"
    <3>1. batch' = LongBatch
      BY <1>3, <2>3
    <3>2. view \in Views("longterm")
      BY <1>4, <2>3
    <3>3. LongBatch = NoBatch \/ (x = SellCut(view) /\ Sent("longterm", view, SellCut(view), sleeve.day, held, LongBatch))
      BY <1>4, <1>5, <2>3, <3>2, LongSent
    <3>. HIDE DEF x
    <3>. QED
      BY <2>3, <3>1, <3>3
  <2>. QED
    BY <1>4, <2>1, <2>2, <2>3
<1>7. x \in {sleeve.lastCut, SellCut(view)}
  OBVIOUS
<1>. HIDE DEF x
<1>8. sleeve' = [kind |-> sleeve.kind, mock |-> sleeve.mock, longOnly |-> sleeve.longOnly, paper |-> sleeve.paper,
                 health |-> sleeve.health, engine |-> sleeve.engine, day |-> sleeve.day, minute |-> sleeve.minute,
                 lastCut |-> x, cycles |-> sleeve.cycles + 1, reviewed |-> sleeve.reviewed]
  BY <1>1, <1>2, Renewed
<1>9. /\ SleeveTyped(kinds)' /\ sleeve'.kind = sleeve.kind /\ sleeve'.day = sleeve.day /\ sleeve'.lastCut = x
      /\ sleeve'.reviewed = sleeve.reviewed /\ sleeve'.minute = sleeve.minute
  BY <1>1, <1>2, <1>8 DEF SleeveTyped
<1>10. \A n \in DOMAIN open : Standing(sleeve.kind, view, x, sleeve.day, n, open[n])
  BY <1>7, Recut DEF SleeveInv
<1>11. SquaredOff'
  BY <1>2, <1>9 DEF SleeveInv, SquaredOff
<1>. QED
  BY <1>2, <1>5, <1>6, <1>9, <1>10, <1>11 DEF SleeveInv

LEMMA SizeIs ==
  ASSUME NEW kind, NEW s, Proper(kind, s)
  PROVE  /\ SizeOfSignal(s) \in Nat /\ SizeOfSignal(s) <= s.weight
         /\ SizeOfSignal(s) > 0 => sleeve.health \in {"HEALTHY", "REDUCED"} /\ sleeve.engine # "refuses"
<1>1. s.weight \in Nat
  BY DEF Proper
<1>2. s.weight \div 2 \in Nat /\ s.weight \div 2 <= s.weight
  BY <1>1
<1>. QED
  BY <1>1, <1>2 DEF SizeOfSignal

Sendable == {batch.signals[i] : i \in DOMAIN batch.signals}
Fillable == IF SizingRefused THEN {} ELSE {s \in Sendable : SizeOfSignal(s) > 0 /\ view.of[s.name].price > 0}
Opened == {s.name : s \in Fillable}

LEMMA AllocateIs ==
  ASSUME AllocateBatch
  PROVE  /\ batch # NoBatch /\ batch' = NoBatch /\ view' = view /\ sleeve' = [sleeve EXCEPT !.reviewed = FALSE]
         /\ DOMAIN open' = (DOMAIN open \cup Opened) \ batch.exits
         /\ \A n \in DOMAIN open' : open'[n] = IF n \in Opened THEN Position(CHOOSE s \in Fillable : s.name = n) ELSE open[n]
<1>1. open' = [n \in (DOMAIN open \cup Opened) \ batch.exits |->
                 IF n \in Opened THEN Position(CHOOSE s \in Fillable : s.name = n) ELSE open[n]]
  BY DEF AllocateBatch, Opened, Fillable, Sendable
<1>2. batch # NoBatch /\ batch' = NoBatch /\ view' = view /\ sleeve' = [sleeve EXCEPT !.reviewed = FALSE]
  BY DEF AllocateBatch
<1>. HIDE DEF Sendable, Fillable, Opened
<1>. QED
  BY <1>1, <1>2

LEMMA PositionIs ==
  ASSUME NEW kinds, kinds \subseteq Kinds, SleeveTyped(kinds), NEW s, Proper(sleeve.kind, s), view.of[s.name].price > 0,
         Timely(sleeve.kind, view, sleeve.lastCut, sleeve.day, s.name, s.rank, s.day)
  PROVE  Standing(sleeve.kind, view, sleeve.lastCut, sleeve.day, s.name, Position(s))
<1>. DEFINE p == Position(s)
<1>1. p = [side |-> s.side, entry |-> view.of[s.name].price, risk |-> s.risk, reward |-> s.reward, rank |-> s.rank,
           weight |-> SizeOfSignal(s), since |-> sleeve.day, signalled |-> s.day]
  BY DEF Position
<1>2. /\ p.side = s.side /\ p.entry = view.of[s.name].price /\ p.risk = s.risk /\ p.reward = s.reward
      /\ p.rank = s.rank /\ p.weight = SizeOfSignal(s) /\ p.since = sleeve.day /\ p.signalled = s.day
  BY <1>1
<1>. HIDE DEF p
<1>3. SizeOfSignal(s) \in Nat /\ SizeOfSignal(s) <= s.weight
  BY SizeIs
<1>4. s.name \in Listed /\ view.of[s.name].price \in Nat \ {0}
  <2>1. s.name \in Listed /\ sleeve.kind \in Kinds /\ view \in Views(sleeve.kind)
    BY DEF Proper, SleeveTyped
  <2>. QED
    BY <2>1, ViewIs DEF Frames
<1>5. p.weight \in Nat /\ (sleeve.kind = "intraday" => p.weight <= 100)
  BY <1>2, <1>3 DEF Proper
<1>6. sleeve.day \in Nat
  BY DEF SleeveTyped
<1>7. Standing(sleeve.kind, view, sleeve.lastCut, sleeve.day, s.name, p)
  BY <1>2, <1>4, <1>5, <1>6 DEF Standing, Proper
<1>. QED
  BY <1>7 DEF p

LEMMA AllocateKeeps ==
  ASSUME NEW kinds, kinds \subseteq Kinds, SleeveInv(kinds), AllocateBatch PROVE SleeveInv(kinds)'
<1>1. SleeveTyped(kinds)
  BY DEF SleeveInv
<1>2. sleeve' = [kind |-> sleeve.kind, mock |-> sleeve.mock, longOnly |-> sleeve.longOnly, paper |-> sleeve.paper,
                 health |-> sleeve.health, engine |-> sleeve.engine, day |-> sleeve.day, minute |-> sleeve.minute,
                 lastCut |-> sleeve.lastCut, cycles |-> sleeve.cycles, reviewed |-> FALSE]
  BY <1>1, AllocateIs DEF SleeveTyped
<1>3. view' = view /\ batch' = NoBatch /\ batch # NoBatch
  BY AllocateIs
<1>4. /\ SleeveTyped(kinds)' /\ sleeve'.kind = sleeve.kind /\ sleeve'.day = sleeve.day /\ sleeve'.lastCut = sleeve.lastCut
      /\ sleeve'.reviewed = FALSE
  BY <1>1, <1>2, <1>3 DEF SleeveTyped
<1>5. Sent(sleeve.kind, view, sleeve.lastCut, sleeve.day, Cardinality(DOMAIN open), batch)
  BY <1>3 DEF SleeveInv
<1>6. IsFiniteSet(DOMAIN open) /\ Cardinality(DOMAIN open) \in Nat
  BY OpenFinite
<1>7. Cardinality(DOMAIN open') <= Slots
  <2>. DEFINE n == Len(batch.signals)
              names == {batch.signals[i].name : i \in 1..n}
              of == [i \in 1..n |-> batch.signals[i].name]
  <2>1. n \in Nat /\ DOMAIN batch.signals = 1..n /\ n <= Slots - batch.filled /\ batch.filled \in Cardinality(DOMAIN open)..Slots
    BY <1>5, ListingHas DEF Sent
  <2>. HIDE DEF n
  <2>2. IsFiniteSet(1..n) /\ Cardinality(1..n) = n
    BY <2>1, FS_Interval
  <2>3. IsFiniteSet(names) /\ Cardinality(names) <= n
    <3>1. DOMAIN of = 1..n /\ names = {of[i] : i \in DOMAIN of}
      OBVIOUS
    <3>. HIDE DEF of, names
    <3>. QED
      BY <2>2, <3>1, ImageOf
  <2>4. Opened \subseteq names
    BY <2>1 DEF Opened, Fillable, Sendable
  <2>. HIDE DEF names
  <2>5. DOMAIN open' \subseteq DOMAIN open \cup names
    BY <2>4, AllocateIs
  <2>6. IsFiniteSet(DOMAIN open \cup names) /\ Cardinality(DOMAIN open \cup names) <= Cardinality(DOMAIN open) + Cardinality(names)
        /\ Cardinality(names) \in Nat /\ Cardinality(DOMAIN open \cup names) \in Nat
    <3>1. IsFiniteSet(DOMAIN open \cap names) /\ Cardinality(DOMAIN open \cap names) \in Nat
      BY <1>6, <2>3, FS_Intersection, FS_CardinalityType
    <3>2. /\ IsFiniteSet(DOMAIN open \cup names)
          /\ Cardinality(DOMAIN open \cup names) =
               Cardinality(DOMAIN open) + Cardinality(names) - Cardinality(DOMAIN open \cap names)
      BY <1>6, <2>3, FS_Union
    <3>3. Cardinality(names) \in Nat /\ Cardinality(DOMAIN open \cup names) \in Nat
      BY <2>3, <3>2, FS_CardinalityType
    <3>. QED
      BY <1>6, <3>1, <3>2, <3>3
  <2>7. Cardinality(DOMAIN open') <= Cardinality(DOMAIN open \cup names) /\ Cardinality(DOMAIN open') \in Nat
    BY <2>5, <2>6, FS_Subset, FS_CardinalityType
  <2>. QED
    BY <1>6, <2>1, <2>3, <2>6, <2>7, StrategiesAssumption
<1>8. ASSUME NEW n \in DOMAIN open' PROVE Standing(sleeve.kind, view, sleeve.lastCut, sleeve.day, n, open'[n])
  <2>1. CASE n \in Opened
    <3>. DEFINE s == CHOOSE t \in Fillable : t.name = n
    <3>1. s \in Fillable /\ s.name = n
      BY <2>1 DEF Opened
    <3>. HIDE DEF s
    <3>2. s \in Sendable /\ view.of[s.name].price > 0
      BY <3>1 DEF Fillable
    <3>3. PICK i \in DOMAIN batch.signals : s = batch.signals[i]
      BY <3>2 DEF Sendable
    <3>4. Proper(sleeve.kind, s) /\ Timely(sleeve.kind, view, sleeve.lastCut, sleeve.day, s.name, s.rank, s.day)
      BY <1>5, <3>3 DEF Sent
    <3>5. open'[n] = Position(s)
      BY <2>1, AllocateIs DEF s
    <3>. QED
      BY <1>1, <3>1, <3>2, <3>4, <3>5, PositionIs
  <2>2. CASE n \notin Opened
    <3>1. n \in DOMAIN open /\ open'[n] = open[n]
      BY <2>2, AllocateIs
    <3>. QED
      BY <3>1 DEF SleeveInv
  <2>. QED
    BY <2>1, <2>2
<1>9. SquaredOff'
  BY <1>4 DEF SquaredOff
<1>. QED
  BY <1>3, <1>4, <1>7, <1>8, <1>9 DEF SleeveInv

LEMMA SleeveKeeps ==
  ASSUME NEW kinds, kinds \subseteq Kinds, SleeveInv(kinds), [StrategiesNext]_stVars PROVE SleeveInv(kinds)'
<1>1. CASE GenerateSignals
  BY <1>1, GenerateKeeps
<1>2. CASE AllocateBatch
  BY <1>2, AllocateKeeps
<1>3. CASE Review
  BY <1>3, ReviewKeeps
<1>4. CASE Look
  BY <1>4, LookKeeps
<1>5. CASE ChangeHealth \/ GoLive
  BY <1>5, ModeKeeps
<1>6. CASE UNCHANGED stVars
  BY <1>6 DEF stVars, SleeveInv, SleeveTyped, SquaredOff
<1>. QED
  BY <1>1, <1>2, <1>3, <1>4, <1>5, <1>6 DEF StrategiesNext

-----------------------------------------------------------------------------
(* ... and why that is what the sleeve promises                                *)

LEMMA EmptyBatch ==
  /\ NoBatch.signals = <<>> /\ NoBatch.filled = 0
  /\ Weighs(<<>>) = 0 /\ Len(<<>>) = 0 /\ DOMAIN <<>> = {}
<1>. DEFINE f == [i \in DOMAIN <<>> |-> <<>>[i].weight]
<1>1. DOMAIN f = {} /\ DOMAIN <<>> = {} /\ Len(<<>>) = 0
  OBVIOUS
<1>2. Weighs(<<>>) = SumFunction(f)
  BY DEF Weighs
<1>. HIDE DEF f
<1>3. SumFunction(f) = 0
  BY <1>1, FS_EmptySet, SumZero
<1>. QED
  BY <1>1, <1>2, <1>3 DEF NoBatch

(* As many positions as there are slots, none above the cap.                   *)
LEMMA BookSmall ==
  ASSUME NEW w, IsFiniteSet(DOMAIN w), Cardinality(DOMAIN w) <= Slots,
         \A n \in DOMAIN w : w[n] \in Nat /\ w[n] <= 100, 100 * Slots <= Everything
  PROVE  SumFunction(w) <= Everything
<1>. DEFINE N == DOMAIN w
            e == [n \in N |-> 100]
<1>1. DOMAIN e = N /\ \A n \in DOMAIN e : e[n] = IF n \in N THEN 100 ELSE 0
  OBVIOUS
<1>2. Whole(w, N) /\ Whole(e, N) /\ \A n \in N : w[n] <= e[n]
  BY DEF Whole
<1>. HIDE DEF e
<1>3. SumFunction(e) = 100 * Cardinality(N)
  <2>1. IsFiniteSet(DOMAIN e) /\ N \subseteq DOMAIN e /\ 100 \in Nat
    BY <1>1
  <2>. HIDE DEF N
  <2>. QED
    BY <1>1, <2>1, SumEach
<1>4. SumFunction(w) <= SumFunction(e)
  BY <1>1, <1>2, SumBelow
<1>5. SumFunction(w) \in Nat
  BY SumNat
<1>6. Cardinality(N) \in Nat
  BY FS_CardinalityType
<1>. QED
  BY <1>3, <1>4, <1>5, <1>6, StrategiesAssumption DEF Everything

LEMMA WithinSleeve ==
  ASSUME NEW kinds, kinds \subseteq Kinds, "intraday" \in kinds => 100 * Slots <= Everything, SleeveInv(kinds)
  PROVE  BatchWithinSleeve
<1>1. /\ Weighs(batch.signals) <= Everything - (Everything * batch.filled) \div Slots
      /\ Len(batch.signals) <= Slots - batch.filled
      /\ sleeve.kind = "swing" => Spread(batch.signals)
  <2>1. CASE batch = NoBatch
    <3>1. (Everything * 0) \div Slots = 0
      BY StrategiesAssumption DEF Everything
    <3>2. Spread(<<>>)
      BY EmptyBatch DEF Spread
    <3>. QED
      BY <2>1, <3>1, <3>2, EmptyBatch, StrategiesAssumption DEF Everything
  <2>2. CASE Sent(sleeve.kind, view, sleeve.lastCut, sleeve.day, Cardinality(DOMAIN open), batch)
    <3>1. batch.filled \in 0..Slots
      BY <2>2, OpenFinite, StrategiesAssumption DEF Sent
    <3>. QED
      BY <2>2, <3>1, BudgetIs DEF Sent
  <2>. QED
    BY <2>1, <2>2 DEF SleeveInv
<1>2. Cardinality(DOMAIN open) <= Slots
  BY DEF SleeveInv
<1>3. ASSUME sleeve.kind = "intraday" PROVE SumFunction([n \in DOMAIN open |-> open[n].weight]) <= Everything
  <2>. DEFINE w == [n \in DOMAIN open |-> open[n].weight]
  <2>1. "intraday" \in kinds
    BY <1>3 DEF SleeveInv, SleeveTyped
  <2>2. DOMAIN w = DOMAIN open
    OBVIOUS
  <2>3. \A n \in DOMAIN w : w[n] \in Nat /\ w[n] <= 100
    BY <1>3 DEF SleeveInv, Standing
  <2>. HIDE DEF w
  <2>4. SumFunction(w) <= Everything
    BY <1>2, <2>1, <2>2, <2>3, OpenFinite, BookSmall
  <2>. QED
    BY <2>4 DEF w
<1>. QED
  BY <1>1, <1>2, <1>3 DEF BatchWithinSleeve, Spread, Crowd

(* A price is not out by a stop or a target at itself.                         *)
LEMMA NotOut ==
  ASSUME NEW p, NEW price \in Nat \ {0}, p.entry = price, p.side \in {"LONG", "SHORT"},
         p.risk \in Nat \ {0}, p.reward \in Nat \ {0}
  PROVE  ~HitStop(p, price) /\ ~HitTarget(p, price)
<1>1. \A k \in Nat \ {0} : price * k \in Nat \ {0}
  OBVIOUS
<1>2. \A k \in Nat \ {0} : price * (1000 - k) = 1000 * price - price * k /\ price * (1000 + k) = 1000 * price + price * k
  OBVIOUS
<1>3. \A k \in Nat \ {0} : ~(1000 * price <= price * (1000 - k)) /\ ~(1000 * price >= price * (1000 + k))
  BY <1>1, <1>2
<1>. QED
  BY <1>3 DEF HitStop, HitTarget

LEMMA RulesMeet ==
  ASSUME NEW kinds, kinds \subseteq Kinds, SleeveInv(kinds) PROVE RulesAgree
<1>1. ASSUME NEW n \in DOMAIN open, open[n].since = sleeve.day, open[n].signalled = sleeve.day, sleeve.minute < SquareOff
      PROVE  ~ShouldExit(n) \/ (sleeve.kind = "swing" /\ open[n].rank < 300)
  <2>. DEFINE p == open[n]
              price == view.of[n].price
  <2>1. Standing(sleeve.kind, view, sleeve.lastCut, sleeve.day, n, p)
    BY DEF SleeveInv
  <2>2. /\ n \in Listed /\ p.side \in {"LONG", "SHORT"} /\ p.risk \in Nat \ {0} /\ p.reward \in Nat \ {0}
        /\ p.entry = price /\ price \in Nat \ {0}
        /\ Agrees(sleeve.kind, view, sleeve.lastCut, n, p.rank)
    BY <1>1, <2>1 DEF Standing, Timely
  <2>3. sleeve.day - p.since = 0 /\ sleeve.minute \in Nat
    BY <1>1 DEF SleeveInv, SleeveTyped
  <2>4. ~HitStop(p, price) /\ ~HitTarget(p, price)
    <3>. HIDE DEF p, price
    <3>. QED
      BY <2>2, NotOut
  <2>5. CASE sleeve.kind = "swing"
    <3>. SUFFICES ASSUME ~(p.rank < 300) PROVE ~SwingExit(p, n)
      BY <2>5 DEF ShouldExit
    <3>1. p.rank = SwingRank(view, n)
      BY <2>2, <2>5 DEF Agrees
    <3>2. ASSUME n \in SwingScored(view) PROVE ~(SwingRank(view, n) < ExitRank(p))
      <4>. DEFINE r == SwingRank(view, n)
      <4>1. r \in Int
        BY <3>2, SwingRankWhole
      <4>2. ExitRank(p) = Max({300, (7 * r) \div 10})
        BY <3>1 DEF ExitRank
      <4>. HIDE DEF r
      <4>3. r >= 300 /\ (7 * r) \div 10 \in Int /\ (7 * r) \div 10 <= r
        <5>1. r >= 300
          BY <3>1, <4>1 DEF r
        <5>. QED
          BY <4>1, <5>1
      <4>4. \A q \in Int : Max({300, q}) \in {300, q}
        <5>1. \A a, b \in Int : Max({a, b}) \in {a, b}
          BY ONLY GreaterIs
        <5>. QED
          BY ONLY <5>1
      <4>. QED
        BY <4>1, <4>2, <4>3, <4>4 DEF r
    <3>. HIDE DEF p, price
    <3>. QED
      BY <2>3, <2>4, <3>2 DEF SwingExit, price
  <2>6. CASE sleeve.kind = "longterm"
    <3>1. 100 * view.of[n].score >= SellCut(view) /\ sleeve.lastCut = SellCut(view)
      BY <2>2, <2>6 DEF Agrees
    <3>2. ASSUME n \in Composites(view) PROVE ~(100 * view.of[n].score < sleeve.lastCut)
      <4>1. view \in Views("longterm") /\ "longterm" \in Kinds
        BY <2>6 DEF SleeveInv, SleeveTyped, Kinds
      <4>2. SellCut(view) \in Int
        BY <3>2, <4>1, CutsApart
      <4>3. view.of[n].score \in Int
        BY <3>2, <4>1, ViewIs DEF Composites, Frames
      <4>. QED
        BY <3>1, <4>2, <4>3
    <3>. HIDE DEF p, price
    <3>3. ~LongExit(p, n)
      BY <2>3, <2>4, <3>2 DEF LongExit, price
    <3>. QED
      BY <2>6, <3>3 DEF ShouldExit, p
  <2>7. CASE sleeve.kind = "intraday"
    <3>1. ~(sleeve.minute >= SquareOff)
      BY <1>1, <2>3 DEF SquareOff
    <3>2. ~(price < p.entry)
      BY <2>2
    <3>. HIDE DEF p, price
    <3>3. ~IntraExit(p, n)
      BY <2>4, <3>1, <3>2 DEF IntraExit, price
    <3>. QED
      BY <2>7, <3>3 DEF ShouldExit, p
  <2>. QED
    BY <2>5, <2>6, <2>7 DEF SleeveInv, SleeveTyped, Kinds
<1>. QED
  BY <1>1 DEF RulesAgree, SleeveInv, SquaredOff

(* What is opened is opened by a batch, and on the authority of the moment.      *)
Authorised == \A n \in DOMAIN open' \ DOMAIN open :
                 /\ sleeve.health \in {"HEALTHY", "REDUCED"}
                 /\ sleeve.mock => sleeve.paper
                 /\ sleeve.engine = "approves"
                 /\ n \notin batch.exits

LEMMA OpensSo ==
  ASSUME NEW kinds, kinds \subseteq Kinds, SleeveInv(kinds), [StrategiesNext]_stVars PROVE Authorised
<1>1. CASE AllocateBatch
  <2>. SUFFICES ASSUME NEW n \in DOMAIN open' \ DOMAIN open
                PROVE  /\ sleeve.health \in {"HEALTHY", "REDUCED"}
                       /\ sleeve.mock => sleeve.paper
                       /\ sleeve.engine = "approves"
                       /\ n \notin batch.exits
    BY DEF Authorised
  <2>1. n \in Opened /\ n \notin batch.exits
    BY <1>1, AllocateIs
  <2>2. PICK s \in Fillable : s.name = n
    BY <2>1 DEF Opened
  <2>3. ~SizingRefused /\ s \in Sendable /\ SizeOfSignal(s) > 0
    BY <2>2 DEF Fillable
  <2>4. Proper(sleeve.kind, s)
    <3>1. Sent(sleeve.kind, view, sleeve.lastCut, sleeve.day, Cardinality(DOMAIN open), batch)
      BY <1>1, AllocateIs DEF SleeveInv
    <3>. QED
      BY <2>3, <3>1 DEF Sent, Sendable
  <2>5. sleeve.health \in {"HEALTHY", "REDUCED"} /\ sleeve.engine # "refuses"
    BY <2>3, <2>4, SizeIs
  <2>6. Operational
    BY <2>5 DEF Operational
  <2>7. sleeve.engine # "broken" /\ ~Refuses
    BY <2>3, <2>6 DEF SizingRefused
  <2>8. sleeve.engine = "approves"
    BY <2>5, <2>7 DEF SleeveInv, SleeveTyped
  <2>9. sleeve.mock => sleeve.paper
    BY <2>7 DEF Refuses, SleeveInv, SleeveTyped
  <2>. QED
    BY <2>1, <2>5, <2>8, <2>9
<1>2. CASE ~AllocateBatch
  <2>1. DOMAIN open' \subseteq DOMAIN open
    BY <1>2 DEF StrategiesNext, GenerateSignals, Review, Look, ChangeHealth, GoLive, stVars
  <2>. QED
    BY <2>1 DEF Authorised
<1>. QED
  BY <1>1, <1>2

(* A batch never asks for more of the sleeve, more names or (swing) more of one      *)
(* sector than it has room for, and intraday what is open weighs no more than the    *)
(* sleeve; a name is not sent out again by what it was opened on, and an intraday     *)
(* book is empty once reviewed at the square-off; and only a strategy that is allowed *)
(* to at that moment opens anything (strategies/base.py, swing.py, longterm.py,        *)
(* intraday.py): for every universe, whatever there is to see of it, and any number   *)
(* of slots, intraday of no more than the cap of a tenth leaves room for.              *)
THEOREM SleeveTrue ==
  ASSUME NEW kinds, kinds \subseteq Kinds, "intraday" \in kinds => 100 * Slots <= Everything
  PROVE  StrategiesInit(kinds) /\ [][StrategiesNext]_stVars => SleeveHolds
<1>1. StrategiesInit(kinds) => SleeveInv(kinds)
  BY SleeveStart
<1>2. SleeveInv(kinds) /\ [StrategiesNext]_stVars => SleeveInv(kinds)'
  BY SleeveKeeps
<1>3. SleeveInv(kinds) => BatchWithinSleeve /\ RulesAgree
  BY WithinSleeve, RulesMeet
<1>4. SleeveInv(kinds) /\ [StrategiesNext]_stVars => [Authorised]_open
  BY OpensSo
<1>5. [][Authorised]_open => OpensOnAuthority
  BY DEF Authorised, OpensOnAuthority
<1>. QED
  BY <1>1, <1>2, <1>3, <1>4, <1>5, PTL DEF SleeveHolds

=============================================================================
