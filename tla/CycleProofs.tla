----------------------------- MODULE CycleProofs ------------------------------
(* The cycles that turn signals into orders, for every universe, every book,  *)
(* every set of signals, limits and prices; and the paper campaign, for every *)
(* plan of sessions, every limit, and every number of crashes and lost files. *)
(* Init, Next, Spec and vars are the campaign's.                              *)
EXTENDS Campaign, Portfolio, FiniteSetTheorems, SequenceTheorems, Sums, TLAPS

-----------------------------------------------------------------------------
(* The campaign                                                              *)

(* The switch stands for as long as nobody has released it: in its file, and *)
(* so across days and processes.                                            *)
BreachInv == breached \in BOOLEAN /\ halt \in BOOLEAN /\ (breached => halt)

LEMMA BreachInit == Init => BreachInv
BY DEF Init, BreachInv

(* Only a minute's mark meets a breach, and it engages the switch with it.    *)
LEMMA MarkKeeps ==
  ASSUME BreachInv, Mark
  PROVE  BreachInv' /\ claims' = claims
<1>. DEFINE acts == HardBreach /\ ~proc.enforced
<1>1. halt' = (halt \/ acts) /\ breached' = (breached \/ acts) /\ claims' = claims
  BY DEF Mark
<1>. HIDE DEF acts
<1>. QED
  BY <1>1 DEF BreachInv

LEMMA BreachNext ==
  ASSUME BreachInv, [Next]_vars
  PROVE  BreachInv' /\ (breached => claims' = claims)
<1>1. CASE Start
  BY <1>1 DEF Start, files, ghosts, BreachInv
<1>2. CASE OpenDay
  <2>1. PICK ok \in BOOLEAN : halt' = (halt \/ ~ok)
    BY <1>2 DEF OpenDay
  <2>. QED
    BY <1>2, <2>1 DEF OpenDay, ghosts, BreachInv
<1>3. CASE Stop
  BY <1>3 DEF Stop, files, ghosts, BreachInv
<1>4. CASE Poll
  BY <1>4 DEF Poll, ghosts, BreachInv
<1>5. ASSUME NEW k \in {"buy", "sell"}, ClaimOrder(k)
      PROVE  BreachInv' /\ (breached => claims' = claims)
  BY <1>5 DEF ClaimOrder, TradingOpen, ghosts, BreachInv
<1>6. CASE PlaceOrder
  BY <1>6 DEF PlaceOrder, ghosts, BreachInv
<1>7. CASE Pass
  BY <1>7 DEF Pass, files, ghosts, BreachInv
<1>8. CASE Mark
  BY <1>8, MarkKeeps
<1>9. CASE CloseDay
  BY <1>9 DEF CloseDay, ghosts, BreachInv
<1>10. CASE Crash
  BY <1>10 DEF Crash, BreachInv
<1>11. CASE LoseFile
  BY <1>11 DEF LoseFile, BreachInv
<1>12. CASE Release
  BY <1>12 DEF Release, BreachInv
<1>13. CASE UNCHANGED vars
  BY <1>13 DEF vars, files, ghosts, BreachInv
<1>. QED
  BY <1>1, <1>2, <1>3, <1>4, <1>5, <1>6, <1>7, <1>8, <1>9, <1>10, <1>11, <1>12, <1>13
     DEF Next, Session

(* After a hard breach (campaign.py, _mark and the gate that reads the kill   *)
(* switch for every order) no client order id is claimed until an operator   *)
(* has released the switch: in whatever minute, day or process.             *)
THEOREM NothingAfterBreach == Spec => NoOrderAfterBreach
<1>1. BreachInv /\ [Next]_vars => [breached => claims' = claims]_vars
  BY BreachNext
<1>. QED
  BY <1>1, BreachInit, BreachNext, PTL DEF Spec, NoOrderAfterBreach

-----------------------------------------------------------------------------
(* The arithmetic of limits                                                  *)

(* Of two or four whole numbers, one is the least.                            *)
LEMMA LeastOfTwo ==
  ASSUME NEW a \in Int, NEW b \in Int
  PROVE  Least({a, b}) \in {a, b} /\ Least({a, b}) <= a /\ Least({a, b}) <= b
<1>1. \E x \in {a, b} : \A y \in {a, b} : x <= y
  OBVIOUS
<1>. QED
  BY <1>1 DEF Least, Min

LEMMA LeastOfFour ==
  ASSUME NEW a \in Int, NEW b \in Int, NEW c \in Int, NEW d \in Int
  PROVE  LET m == Least({a, b, c, d})
         IN m \in {a, b, c, d} /\ m <= a /\ m <= b /\ m <= c /\ m <= d
<1>1. \E x \in {a, b, c, d} : \A y \in {a, b, c, d} : x <= y
  <2>1. PICK u \in {a, b} : u <= a /\ u <= b
    OBVIOUS
  <2>2. PICK v \in {c, d} : v <= c /\ v <= d
    OBVIOUS
  <2>3. CASE u <= v
    <3>1. u \in Int /\ v \in Int
      OBVIOUS
    <3>. QED
      BY <2>1, <2>2, <2>3, <3>1
  <2>4. CASE v <= u
    BY <2>1, <2>2, <2>4
  <2>5. u <= v \/ v <= u
    BY <2>1, <2>2
  <2>. QED
    BY <2>3, <2>4, <2>5
<1>. QED
  BY <1>1 DEF Least, Min

(* Whole parts.                                                               *)
LEMMA DivBounds ==
  ASSUME NEW a \in Nat, NEW b \in Nat \ {0}
  PROVE  a \div b \in Nat /\ b * (a \div b) <= a /\ a < b * (a \div b) + b
OBVIOUS

LEMMA PctNat == ASSUME NEW p \in Nat, NEW a \in Nat PROVE Pct(p, a) \in Nat
<1>1. p * a \in Nat
  OBVIOUS
<1>. DEFINE m == p * a
<1>2. m \div 100 \in Nat
  BY <1>1
<1>. QED
  BY <1>2 DEF Pct

(* Scaling by a fraction keeps the sign, does not enlarge, and cuts off less  *)
(* than one.                                                                 *)
LEMMA ScaledBounds ==
  ASSUME NEW x \in Int, NEW a \in Nat, NEW b \in Nat \ {0}, a <= b
  PROVE  LET y == Scaled(x, a, b)
         IN /\ y \in Int
            /\ x >= 0 => 0 <= y /\ y <= x /\ b * y <= x * a
            /\ x <= 0 => x <= y /\ y <= 0
            /\ b * y < x * a + b
<1>1. CASE x < 0
  <2>. DEFINE n == -x * a
              q == n \div b
  <2>1. n \in Nat /\ n = -(x * a)
    BY <1>1
  <2>2. q \in Nat /\ b * q <= n /\ n < b * q + b
    BY <2>1, DivBounds
  <2>3. n <= -x * b
    BY <1>1
  <2>4. q <= -x
    <3>. SUFFICES ASSUME q >= -x + 1 PROVE FALSE
      BY <2>2
    <3>. HIDE DEF q
    <3>1. b * q >= b * (-x + 1)
      BY <2>2
    <3>2. b * (-x + 1) = -x * b + b
      OBVIOUS
    <3>. HIDE DEF n
    <3>. QED
      BY <2>1, <2>2, <2>3, <3>1, <3>2
  <2>5. Scaled(x, a, b) = -q
    BY <1>1 DEF Scaled
  <2>. HIDE DEF q
  <2>6. b * (-q) = -(b * q)
    BY <2>2
  <2>. HIDE DEF n
  <2>. QED
    BY <1>1, <2>1, <2>2, <2>4, <2>5, <2>6
<1>2. CASE x >= 0
  <2>. DEFINE n == x * a
              q == n \div b
  <2>1. n \in Nat
    BY <1>2
  <2>2. q \in Nat /\ b * q <= n /\ n < b * q + b
    BY <2>1, DivBounds
  <2>3. n <= x * b
    BY <1>2
  <2>4. q <= x
    <3>. SUFFICES ASSUME q >= x + 1 PROVE FALSE
      BY <2>2
    <3>. HIDE DEF q
    <3>1. b * q >= b * (x + 1)
      BY <2>2
    <3>2. b * (x + 1) = x * b + b
      OBVIOUS
    <3>. HIDE DEF n
    <3>. QED
      BY <2>1, <2>2, <2>3, <3>1, <3>2
  <2>5. Scaled(x, a, b) = q
    BY <1>2 DEF Scaled
  <2>6. x * a = n
    OBVIOUS
  <2>. HIDE DEF q, n
  <2>. QED
    BY <1>2, <2>1, <2>2, <2>4, <2>5, <2>6
<1>. QED
  BY <1>1, <1>2

-----------------------------------------------------------------------------
(* The order of the signals                                                  *)

LEMMA OrdersTyped ==
  ASSUME NEW S, IsFiniteSet(S), NEW q \in SetToSeqs(S)
  PROVE  q \in Seq(S) /\ DOMAIN q = 1..Cardinality(S) /\ Cardinality(S) \in Nat
<1>1. Cardinality(S) \in Nat
  BY FS_CardinalityType
<1>2. q \in [1..Cardinality(S) -> S]
  BY DEF SetToSeqs
<1>. QED
  BY <1>1, <1>2

(* The last of some of the indices of a sequence.                             *)
LEMMA MaxIn ==
  ASSUME NEW n \in Nat, NEW s \in SUBSET (1..n), s # {}
  PROVE  Max(s) \in s
<1>. DEFINE T == {n - k : k \in s}
<1>0. \A k \in s : k \in Int /\ k <= n
  OBVIOUS
<1>1. T \subseteq Nat /\ T # {}
  <2>1. \A k \in s : n - k \in Nat
    BY <1>0
  <2>. QED
    BY <2>1
<1>2. PICK m \in T : \A k \in T : m <= k
  BY <1>1, LeastNatural
<1>3. PICK x \in s : m = n - x
  BY <1>2
<1>4. \A y \in s : x >= y
  <2>1. \A y \in s : n - x <= n - y
    BY <1>2, <1>3
  <2>. QED
    BY <1>0, <2>1
<1>. QED
  BY <1>3, <1>4 DEF Max

Bare == [plan |-> <<>>, sectors |-> [x \in Range(SectorOf) |-> 0]]

Indices(n, S) == S \subseteq 1..n

(* g is what has been placed after some of the signals, the last one last.    *)
Placing(order, capital, D, g) ==
    g = [s \in SUBSET D |-> IF s = {} THEN Bare
                            ELSE Place(g[s \ {Max(s)}], order, Max(s), capital)]

LEMMA PlacingAt ==
  ASSUME NEW order, NEW capital, NEW D, NEW g, Placing(order, capital, D, g)
  PROVE  /\ g[{}] = Bare
         /\ \A s \in SUBSET D : s # {} => g[s] = Place(g[s \ {Max(s)}], order, Max(s), capital)
BY DEF Placing

LEMMA PlacingUnique ==
  ASSUME NEW order, NEW capital, NEW n \in Nat, NEW S, Indices(n, S), NEW T,
         NEW g, NEW h, Placing(order, capital, S, g), Placing(order, capital, T, h),
         NEW V, V \subseteq S, V \subseteq T
  PROVE  g[V] = h[V]
<1>. DEFINE B == {U \in SUBSET V : g[U] # h[U]}
<1>. SUFFICES ASSUME V \in B PROVE FALSE
  OBVIOUS
<1>. HIDE DEF B
<1>1. PICK U \in B : \A X \in B : X \subseteq U => X = U
  <2>. DEFINE N == 1..n
  <2>1. B \subseteq SUBSET N
    BY DEF B, Indices
  <2>2. IsFiniteSet(N)
    BY FS_Interval
  <2>3. B # {}
    OBVIOUS
  <2>. HIDE DEF N
  <2>. QED
    BY ONLY <2>1, <2>2, <2>3, SmallestSet
<1>2. U \in SUBSET S /\ U \in SUBSET T /\ U \subseteq V /\ g[U] # h[U]
  BY <1>1 DEF B
<1>3. U # {}
  BY <1>2, PlacingAt
<1>. DEFINE x == Max(U)
<1>4. x \in U
  BY <1>2, <1>3, MaxIn DEF Indices
<1>5. U \ {x} \notin B /\ U \ {x} \subseteq V
  BY <1>1, <1>2, <1>4
<1>6. g[U \ {x}] = h[U \ {x}]
  BY <1>5 DEF B
<1>7. g[U] = Place(g[U \ {x}], order, x, capital)
  BY <1>2, <1>3 DEF Placing
<1>8. h[U] = Place(h[U \ {x}], order, x, capital)
  BY <1>2, <1>3 DEF Placing
<1>. QED
  BY <1>2, <1>6, <1>7, <1>8

LEMMA PlacingExists ==
  ASSUME NEW order, NEW capital, NEW n \in Nat
  PROVE  \E g : Placing(order, capital, 1..n, g)
<1>. DEFINE S == 1..n
            B == {U \in SUBSET S : ~\E g : Placing(order, capital, U, g)}
<1>. SUFFICES ASSUME S \in B PROVE FALSE
  OBVIOUS
<1>0. IsFiniteSet(S)
  BY FS_Interval
<1>. HIDE DEF B, S
<1>1. PICK T \in B : \A X \in B : X \subseteq T => X = T
  <2>1. B \subseteq SUBSET S
    BY DEF B
  <2>. QED
    BY <1>0, <2>1, SmallestSet
<1>2. T \in SUBSET S /\ ~\E g : Placing(order, capital, T, g)
  BY <1>1 DEF B
<1>. DEFINE of(U) == CHOOSE g : Placing(order, capital, U, g)
            e(U) == of(U)[U]
            G == [s \in SUBSET T |-> IF s = {} THEN Bare
                                     ELSE Place(e(s \ {Max(s)}), order, Max(s), capital)]
<1>3. ASSUME NEW U, U \subseteq T, U # T PROVE Placing(order, capital, U, of(U)) /\ U \subseteq S
  <2>1. U \notin B /\ U \in SUBSET S
    BY <1>1, <1>2, <1>3
  <2>2. \E g : Placing(order, capital, U, g)
    BY <2>1 DEF B
  <2>. QED
    BY <2>1, <2>2
<1>. HIDE DEF of
<1>4. ASSUME NEW U, U \subseteq T, U # T PROVE e(U) = G[U]
  <2>1. Placing(order, capital, U, of(U)) /\ U \subseteq S
    BY <1>3, <1>4
  <2>2. CASE U = {}
    <3>1. of(U)[{}] = Bare
      BY <2>1, PlacingAt
    <3>2. G[U] = Bare
      BY <1>4, <2>2
    <3>. QED
      BY <2>2, <3>1, <3>2
  <2>3. CASE U # {}
    <3>. DEFINE V == U \ {Max(U)}
    <3>0. Max(U) \in U
      BY <2>1, <2>3, MaxIn DEF S
    <3>1. V \subseteq U /\ V \subseteq T /\ V # T
      BY <1>4, <3>0
    <3>2. Placing(order, capital, V, of(V)) /\ V \subseteq S
      BY <1>3, <3>1
    <3>3. of(U)[U] = Place(of(U)[V], order, Max(U), capital)
      BY <2>1, <2>3 DEF Placing
    <3>. HIDE DEF V, S
    <3>4. of(U)[V] = of(V)[V]
      <4>1. Indices(n, U) /\ V \subseteq U
        BY <2>1, <3>1, <3>2 DEF S, Indices
      <4>2. Placing(order, capital, U, of(U)) /\ Placing(order, capital, V, of(V))
        BY <2>1, <3>2
      <4>. QED
        BY <4>1, <4>2, PlacingUnique
    <3>5. G[U] = Place(e(U \ {Max(U)}), order, Max(U), capital)
      BY <1>4, <2>3
    <3>. QED
      BY <3>3, <3>4, <3>5 DEF V
  <2>. QED
    BY <2>2, <2>3
<1>5. ASSUME NEW s \in SUBSET T, s # {} PROVE e(s \ {Max(s)}) = G[s \ {Max(s)}]
  <2>1. Max(s) \in s
    BY <1>2, <1>5, MaxIn DEF S
  <2>2. s \ {Max(s)} \subseteq T /\ s \ {Max(s)} # T
    BY <1>5, <2>1
  <2>. HIDE DEF e, G
  <2>. QED
    BY <1>4, <2>2
<1>6. Placing(order, capital, T, G)
  <2>1. \A s \in SUBSET T : G[s] = IF s = {} THEN Bare
                                  ELSE Place(G[s \ {Max(s)}], order, Max(s), capital)
    <3>. SUFFICES ASSUME NEW s \in SUBSET T
                  PROVE  G[s] = IF s = {} THEN Bare
                                ELSE Place(G[s \ {Max(s)}], order, Max(s), capital)
      OBVIOUS
    <3>1. G[s] = IF s = {} THEN Bare ELSE Place(e(s \ {Max(s)}), order, Max(s), capital)
      OBVIOUS
    <3>2. s # {} => e(s \ {Max(s)}) = G[s \ {Max(s)}]
      BY <1>5
    <3>. HIDE DEF G, e
    <3>. QED
      BY <3>1, <3>2
  <2>2. G = [s \in SUBSET T |-> G[s]]
    OBVIOUS
  <2>. HIDE DEF G
  <2>. QED
    BY <2>1, <2>2 DEF Placing
<1>. QED
  BY <1>2, <1>6

(* What _size_positions places is what is placed after all of them.           *)
LEMMA SizePlaces ==
  ASSUME NEW order, NEW n \in Nat, DOMAIN order = 1..n, NEW capital
  PROVE  \E g : /\ Placing(order, capital, 1..n, g)
                /\ SizePositions(order, capital) = g[1..n].plan \o Orphans(g[1..n].plan)
<1>. DEFINE F(g) == [s \in SUBSET (1..n) |->
                       IF s = {} THEN Bare
                       ELSE LET x == Max(s) IN Place(g[s \ {x}], order, [i \in DOMAIN order |-> i][x], capital)]
            h == CHOOSE g : g = F(g)
<1>1. ASSUME NEW g PROVE Placing(order, capital, 1..n, g) <=> g = F(g)
  <2>1. F(g) = [s \in SUBSET (1..n) |-> IF s = {} THEN Bare
                            ELSE Place(g[s \ {Max(s)}], order, Max(s), capital)]
    <3>1. ASSUME NEW s \in SUBSET (1..n), s # {} PROVE [i \in DOMAIN order |-> i][Max(s)] = Max(s)
      <4>1. Max(s) \in s
        BY <3>1, MaxIn
      <4>. QED
        BY <4>1
    <3>. QED
      BY <3>1
  <2>. HIDE DEF F
  <2>. QED
    BY <2>1 DEF Placing
<1>2. SizePositions(order, capital) = h[1..n].plan \o Orphans(h[1..n].plan)
  BY DEF SizePositions, FoldLeftDomain, FoldLeft, MapThenFoldSet, Bare
<1>3. PICK g : Placing(order, capital, 1..n, g)
  BY PlacingExists
<1>4. h = F(h)
  <2>. HIDE DEF F
  <2>. QED
    BY <1>1, <1>3
<1>. HIDE DEF F, h
<1>. QED
  BY <1>1, <1>2, <1>4

LEMMA SumSupport ==
  ASSUME NEW f, NEW e, DOMAIN f \subseteq DOMAIN e, IsFiniteSet(DOMAIN e), Whole(e, DOMAIN e),
         \A x \in DOMAIN f : e[x] = f[x], \A x \in DOMAIN e \ DOMAIN f : e[x] = 0
  PROVE  SumFunction(e) = SumFunction(f)
<1>. DEFINE S == DOMAIN f
            T == DOMAIN e
<1>1. IsFiniteSet(S)
  BY FS_Subset
<1>2. PICK g : Summing(f, S, g) /\ SumFunction(f) = g[S]
  BY <1>1, SumSums DEF SumFunction
<1>3. PICK h : Summing(e, T, h) /\ SumFunction(e) = h[T]
  BY SumSums DEF SumFunction
<1>. HIDE DEF S, T
<1>4. S \subseteq T /\ IsFiniteSet(T) /\ Whole(e, T) /\ \A x \in T \ S : e[x] = 0
  BY DEF S, T
<1>5. h[S] = g[S]
  <2>1. \A x \in S : e[x] = f[x]
    BY DEF S
  <2>. QED
    BY <1>1, <1>2, <1>3, <1>4, <2>1, SummingAgree
<1>. DEFINE B == {U \in SUBSET T : S \subseteq U /\ h[U] # h[S]}
<1>. SUFFICES ASSUME T \in B PROVE FALSE
  BY <1>2, <1>3, <1>4, <1>5
<1>. HIDE DEF B
<1>6. PICK U \in B : \A X \in B : X \subseteq U => X = U
  <2>1. B \subseteq SUBSET T
    BY DEF B
  <2>. QED
    BY <1>4, <2>1, SmallestSet
<1>7. U \in SUBSET T /\ S \subseteq U /\ h[U] # h[S]
  BY <1>6 DEF B
<1>8. PICK k \in U : k \notin S
  <2>1. U # S
    BY <1>7
  <2>. QED
    BY <1>7, <2>1
<1>. DEFINE W == U \ {k}
<1>9. W \notin B /\ W \in SUBSET T /\ S \subseteq W
  BY <1>6, <1>7, <1>8
<1>10. h[W] = h[S]
  BY <1>9 DEF B
<1>11. h[U] = e[k] + h[W]
  BY <1>3, <1>4, <1>7, SummingTakes
<1>12. e[k] = 0 /\ h[W] \in Int
  BY <1>3, <1>4, <1>7, <1>8, <1>9, SummingTyped
<1>. HIDE DEF W
<1>. QED
  BY <1>7, <1>10, <1>11, <1>12

-----------------------------------------------------------------------------
(* The account, and what is planned for it                                   *)

Account == held \in [Symbols -> Nat] /\ price \in [Symbols -> Nat \ {0}]
Target == [symbol : Symbols, target : Nat, delta : Int]

InSector(plan, x) == {i \in DOMAIN plan : SectorOf[plan[i].symbol] = x}
Worth(plan, x) == Sum(LAMBDA i : plan[i].target * price[plan[i].symbol], InSector(plan, x))

(* The signals an order is of are finitely many.                              *)
LEMMA RangeFinite ==
  ASSUME NEW S, NEW q \in Seq(S)
  PROVE  IsFiniteSet(Range(q)) /\ Range(q) \subseteq S
<1>1. IsFiniteSet(1..Len(q)) /\ q \in [1..Len(q) -> S] /\ DOMAIN q = 1..Len(q)
  BY FS_Interval, LenProperties
<1>2. q \in Surjection(1..Len(q), Range(q))
  BY <1>1 DEF Surjection, Range
<1>. QED
  BY <1>1, <1>2, FS_Surjection DEF Range

LEMMA StrengthNat ==
  ASSUME NEW signals, signals \subseteq Signals, IsFiniteSet(signals), NEW b
  PROVE  Sum(LAMBDA s : s.edge, OfSleeve(signals, b)) \in Nat
<1>. DEFINE S == OfSleeve(signals, b)
            f == [s \in S |-> s.edge]
<1>1. IsFiniteSet(S) /\ S \subseteq Signals
  BY FS_Subset DEF OfSleeve
<1>2. \A s \in S : s.edge \in Nat
  BY <1>1 DEF Signals
<1>3. DOMAIN f = S /\ \A s \in S : f[s] \in Nat
  BY <1>2
<1>4. Sum(LAMBDA s : s.edge, OfSleeve(signals, b)) = SumFunction(f)
  BY DEF Sum
<1>. HIDE DEF f, S
<1>. QED
  BY <1>1, <1>3, <1>4, SumNat

LEMMA WeightNat ==
  ASSUME NEW signals, signals \subseteq Signals, IsFiniteSet(signals), NEW s \in signals
  PROVE  Sum(LAMBDA t : t.tilt, OfSleeve(signals, s.sleeve)) \in Nat \ {0}
<1>. DEFINE S == OfSleeve(signals, s.sleeve)
            f == [t \in S |-> t.tilt]
<1>1. IsFiniteSet(S) /\ S \subseteq Signals /\ s \in S
  BY FS_Subset DEF OfSleeve
<1>2. \A t \in S : t.tilt \in Nat \ {0}
  BY <1>1 DEF Signals
<1>3. DOMAIN f = S /\ \A t \in S : f[t] \in Nat \ {0}
  BY <1>2
<1>4. Sum(LAMBDA t : t.tilt, OfSleeve(signals, s.sleeve)) = SumFunction(f)
  BY DEF Sum
<1>. HIDE DEF f, S
<1>5. SumFunction(f) \in Nat /\ f[s] <= SumFunction(f)
  BY <1>1, <1>3, SumNat
<1>. QED
  BY <1>1, <1>3, <1>4, <1>5

LEMMA LimitsNat ==
  /\ Limits.position \in Nat /\ Limits.sector \in Nat /\ Limits.sleeve \in Nat
  /\ Limits.turnover \in Nat /\ Limits.cash \in Nat /\ 100 - Limits.cash \in Nat /\ Limits.single \in Nat
  /\ Limits.names \in Nat
<1>1. Limits \in LimitsType
  BY PortfolioAssumption
<1>2. /\ Limits.position \in 1..100 /\ Limits.sector \in 1..100 /\ Limits.sleeve \in 1..100
      /\ Limits.turnover \in Nat /\ Limits.cash \in 0..99 /\ Limits.single \in Nat
      /\ Limits.names \in Nat
  BY <1>1, Zenon DEF LimitsType
<1>. QED
  BY <1>2

LEMMA CapitalNat ==
  ASSUME NEW signals, signals \subseteq Signals, IsFiniteSet(signals), NEW b \in Sleeves,
         NEW capital \in Nat
  PROVE  CapitalOf(signals, capital, b) \in Nat
<1>. DEFINE strength(x) == Sum(LAMBDA s : s.edge, OfSleeve(signals, x))
            f == [x \in Sleeves |-> strength(x)]
            total == SumFunction(f)
<1>1. \A x : strength(x) \in Nat
  BY StrengthNat
<1>2. IsFiniteSet(Sleeves)
  BY RangeFinite, PortfolioAssumption DEF Sleeves
<1>. HIDE DEF strength
<1>3. total \in Nat
  BY <1>1, <1>2, SumNat
<1>4. CapitalOf(signals, capital, b) =
        IF total = 0 THEN 0
        ELSE Least({(Pct(100 - Limits.cash, capital) * strength(b)) \div total,
                    Pct(Limits.sleeve, capital)})
  BY DEF CapitalOf, Sum, strength
<1>. HIDE DEF total
<1>5. Pct(100 - Limits.cash, capital) \in Nat /\ Pct(Limits.sleeve, capital) \in Nat
  BY LimitsNat, PctNat
<1>. DEFINE p == Pct(100 - Limits.cash, capital)
            m == p * strength(b)
<1>6. m \in Nat
  BY <1>1, <1>5
<1>. HIDE DEF m
<1>7. total # 0 => m \div total \in Nat
  BY <1>3, <1>6, DivBounds
<1>8. total # 0 => Least({m \div total, Pct(Limits.sleeve, capital)}) \in Nat
  <2>. DEFINE d == m \div total
              k == Pct(Limits.sleeve, capital)
  <2>. SUFFICES ASSUME total # 0 PROVE Least({d, k}) \in Nat
    OBVIOUS
  <2>1. d \in Nat /\ k \in Nat
    BY <1>5, <1>7
  <2>. HIDE DEF d, k
  <2>2. Least({d, k}) \in {d, k}
    BY <2>1, LeastOfTwo
  <2>. QED
    BY <2>1, <2>2
<1>. QED
  BY <1>4, <1>8 DEF m

(* What is bought of a name keeps its caps.                                   *)
LEMMA QuantityKeeps ==
  ASSUME Account, NEW order \in Seq(Signals), NEW i \in DOMAIN order, NEW used \in Nat,
         NEW capital \in Nat, used <= Pct(Limits.sector, capital)
  PROVE  LET q == Quantity(order, i, used, capital)
             p == price[order[i].symbol]
         IN /\ q \in Nat
            /\ q * p <= Pct(Limits.position, capital)
            /\ used + q * p <= Pct(Limits.sector, capital)
<1>. DEFINE s == order[i]
            p == price[s.symbol]
            weight == Sum(LAMBDA t : t.tilt, OfSleeve(Range(order), s.sleeve))
            c == CapitalOf(Range(order), capital, s.sleeve)
            want == (c * s.tilt) \div weight
            pos == Pct(Limits.position, capital)
            sec == Pct(Limits.sector, capital)
            room == AtLeastZero(sec - used)
            m == Least({want, pos, room, s.ceiling})
            q == Quantity(order, i, used, capital)
<1>1. s \in Signals /\ s \in Range(order)
  BY ElementOfSeq, LenProperties DEF Range
<1>2. s.tilt \in Nat /\ s.ceiling \in Nat /\ s.symbol \in Symbols /\ s.sleeve \in Sleeves
  BY <1>1 DEF Signals
<1>3. p \in Nat \ {0}
  BY <1>2 DEF Account
<1>4. IsFiniteSet(Range(order)) /\ Range(order) \subseteq Signals
  BY RangeFinite
<1>5. weight \in Nat \ {0}
  BY <1>1, <1>4, WeightNat
<1>6. c \in Nat
  BY <1>2, <1>4, CapitalNat
<1>7. pos \in Nat /\ sec \in Nat
  BY LimitsNat, PctNat
<1>8. q = 0 \/ q = m \div p
  BY DEF Quantity
<1>9. used <= sec
  OBVIOUS
<1>. HIDE DEF weight, c, pos, sec, p, s, q
<1>10. c * s.tilt \in Nat
  BY <1>2, <1>6
<1>11. want \in Nat
  BY <1>5, <1>10, DivBounds
<1>12. room \in Nat /\ used + room = sec
  BY <1>7, <1>9 DEF AtLeastZero
<1>. HIDE DEF want, room
<1>13. m \in Nat /\ m <= pos /\ m <= room
  <2>. DEFINE k == s.ceiling
  <2>1. want \in Int /\ pos \in Int /\ room \in Int /\ k \in Int
    BY <1>2, <1>7, <1>11, <1>12
  <2>. HIDE DEF k
  <2>2. LET l == Least({want, pos, room, k})
        IN l \in {want, pos, room, k} /\ l <= want /\ l <= pos /\ l <= room /\ l <= k
    BY <2>1, LeastOfFour
  <2>3. m \in {want, pos, room, k} /\ m <= pos /\ m <= room
    BY <2>2 DEF k
  <2>. QED
    BY <1>2, <1>7, <1>11, <1>12, <2>3 DEF k
<1>. HIDE DEF m
<1>14. m \div p \in Nat /\ p * (m \div p) <= m
  BY <1>3, <1>13, DivBounds
<1>15. q \in Nat /\ q * p <= m
  <2>1. CASE q = 0
    BY <1>3, <1>13, <2>1
  <2>2. CASE q = m \div p
    <3>. DEFINE d == m \div p
    <3>1. d \in Nat /\ p * d <= m /\ q = d
      BY <1>14, <2>2
    <3>. HIDE DEF d
    <3>2. d * p = p * d
      BY <1>3, <3>1
    <3>. QED
      BY <3>1, <3>2
  <2>. QED
    BY <1>8, <2>1, <2>2
<1>. DEFINE v == q * p
<1>16. v \in Nat
  BY <1>3, <1>15
<1>17. q \in Nat /\ v <= pos /\ used + v <= sec
  <2>. HIDE DEF v
  <2>1. v <= m
    BY <1>15 DEF v
  <2>. QED
    BY <1>7, <1>12, <1>13, <1>15, <1>16, <2>1
<1>. QED
  BY <1>17 DEF q, p, s, pos, sec
(* What is placed: whole targets, each counted from what is held, within the  *)
(* position cap; and the sectors' values, within theirs.                     *)
Entry(t, capital) ==
    /\ t.delta = t.target - held[t.symbol]
    /\ t.target * price[t.symbol] <= Pct(Limits.position, capital)

Placed(acc, capital) ==
    /\ acc.plan \in Seq(Target)
    /\ acc.sectors \in [Range(SectorOf) -> Nat]
    /\ \A i \in DOMAIN acc.plan : Entry(acc.plan[i], capital)
    /\ \A x \in Range(SectorOf) : acc.sectors[x] <= Pct(Limits.sector, capital)
                                   /\ Worth(acc.plan, x) = acc.sectors[x]

LEMMA SectorIn == ASSUME NEW s \in Symbols PROVE SectorOf[s] \in Range(SectorOf)
BY PortfolioAssumption DEF Range

LEMMA InSectorFinite ==
  ASSUME NEW plan \in Seq(Target), NEW x
  PROVE  IsFiniteSet(InSector(plan, x)) /\ InSector(plan, x) \subseteq 1..Len(plan)
<1>1. InSector(plan, x) \subseteq 1..Len(plan)
  BY LenProperties DEF InSector
<1>2. IsFiniteSet(1..Len(plan))
  BY FS_Interval, LenProperties
<1>. QED
  BY <1>1, <1>2, FS_Subset

LEMMA TargetAt ==
  ASSUME NEW plan \in Seq(Target), NEW i \in DOMAIN plan
  PROVE  plan[i] \in Target /\ plan[i].symbol \in Symbols /\ plan[i].target \in Nat /\ plan[i].delta \in Int
<1>1. plan[i] \in Target
  BY ElementOfSeq, LenProperties
<1>. QED
  BY <1>1 DEF Target

(* One more entry adds its worth to its own sector, and to no other.          *)
LEMMA WorthAppend ==
  ASSUME Account, NEW plan \in Seq(Target), NEW t \in Target, NEW x
  PROVE  Worth(Append(plan, t), x) =
           Worth(plan, x) + (IF SectorOf[t.symbol] = x THEN t.target * price[t.symbol] ELSE 0)
         /\ Worth(plan, x) \in Int
<1>. DEFINE more == Append(plan, t)
            n == Len(plan) + 1
            S == InSector(plan, x)
            T == InSector(more, x)
            f == [i \in S |-> plan[i].target * price[plan[i].symbol]]
            e == [i \in T |-> more[i].target * price[more[i].symbol]]
<1>1. /\ more \in Seq(Target) /\ Len(more) = n /\ more[n] = t
      /\ \A i \in 1..Len(plan) : more[i] = plan[i]
      /\ DOMAIN more = 1..n /\ DOMAIN plan = 1..Len(plan) /\ Len(plan) \in Nat
  BY AppendProperties, LenProperties
<1>2. T = IF SectorOf[t.symbol] = x THEN S \cup {n} ELSE S
  BY <1>1 DEF InSector
<1>3. n \notin S
  BY <1>1 DEF InSector
<1>4. Worth(plan, x) = SumFunction(f) /\ Worth(more, x) = SumFunction(e)
  BY DEF Worth, Sum
<1>5. \A i \in S : e[i] = f[i]
  BY <1>1, <1>2 DEF InSector
<1>6. \A i \in T : e[i] \in Int
  <2>. SUFFICES ASSUME NEW i \in T PROVE e[i] \in Int
    OBVIOUS
  <2>1. i \in DOMAIN more
    BY DEF InSector
  <2>2. more[i].symbol \in Symbols /\ more[i].target \in Nat
    BY <1>1, <2>1, TargetAt
  <2>3. price[more[i].symbol] \in Nat
    BY <2>2 DEF Account
  <2>. HIDE DEF more, T
  <2>. QED
    BY <2>2, <2>3
<1>7. \A i \in S : f[i] \in Int
  BY <1>2, <1>5, <1>6
<1>8. IsFiniteSet(S)
  BY InSectorFinite
<1>9. DOMAIN f = S /\ DOMAIN e = T
  OBVIOUS
<1>10. SectorOf[t.symbol] = x => e[n] = t.target * price[t.symbol]
  BY <1>1, <1>2
<1>. HIDE DEF more, S, T, f, e, n
<1>11. SumFunction(f) \in Int
  BY <1>7, <1>8, <1>9, SumInt DEF Whole
<1>12. CASE SectorOf[t.symbol] = x
  <2>1. SumFunction(e) = SumFunction(f) + e[n]
    BY <1>2, <1>3, <1>5, <1>6, <1>8, <1>9, <1>12, SumGrows DEF Whole
  <2>. QED
    BY <1>4, <1>10, <1>11, <1>12, <2>1 DEF more
<1>13. CASE SectorOf[t.symbol] # x
  <2>1. DOMAIN e = DOMAIN f
    BY <1>2, <1>9, <1>13
  <2>2. e = [i \in DOMAIN e |-> e[i]] /\ f = [i \in DOMAIN f |-> f[i]]
    BY DEF e, f
  <2>3. e = f
    BY <1>5, <1>9, <2>1, <2>2
  <2>. QED
    BY <1>4, <1>11, <1>13, <2>3 DEF more
<1>. QED
  BY <1>12, <1>13

LEMMA PlaceKeeps ==
  ASSUME Account, NEW order \in Seq(Signals), NEW i \in DOMAIN order, NEW capital \in Nat,
         NEW acc, Placed(acc, capital)
  PROVE  Placed(Place(acc, order, i, capital), capital)
<1>. DEFINE s == order[i].symbol
            x == SectorOf[s]
            q == Quantity(order, i, acc.sectors[x], capital)
            t == [symbol |-> s, target |-> q, delta |-> q - held[s]]
            next == [plan |-> Append(acc.plan, t),
                     sectors |-> [acc.sectors EXCEPT ![x] = @ + q * price[s]]]
<1>1. s \in Symbols /\ x \in Range(SectorOf)
  <2>1. order[i] \in Signals
    BY ElementOfSeq, LenProperties
  <2>. QED
    BY <2>1, SectorIn DEF Signals
<1>2. /\ acc.plan \in Seq(Target) /\ acc.sectors \in [Range(SectorOf) -> Nat]
      /\ acc.sectors[x] \in Nat /\ acc.sectors[x] <= Pct(Limits.sector, capital)
  BY <1>1 DEF Placed
<1>3. /\ q \in Nat
      /\ q * price[s] <= Pct(Limits.position, capital)
      /\ acc.sectors[x] + q * price[s] <= Pct(Limits.sector, capital)
  BY <1>2, QuantityKeeps
<1>4. Place(acc, order, i, capital) = IF q = 0 THEN acc ELSE next
  BY DEF Place
<1>. HIDE DEF q, x
<1>5. CASE q = 0
  BY <1>4, <1>5
<1>6. CASE q # 0
  <2>1. held[s] \in Nat /\ price[s] \in Nat
    BY <1>1 DEF Account
  <2>2. t \in Target
    BY <1>1, <1>3, <2>1 DEF Target
  <2>3. Entry(t, capital)
    BY <1>3 DEF Entry
  <2>. DEFINE v == q * price[s]
              old == acc.sectors
              new == [old EXCEPT ![x] = @ + v]
  <2>4. v \in Nat
    BY <1>3, <2>1
  <2>5. \A y \in Range(SectorOf) : Worth(Append(acc.plan, t), y) = Worth(acc.plan, y) + (IF x = y THEN v ELSE 0)
    <3>. SUFFICES ASSUME NEW y PROVE Worth(Append(acc.plan, t), y) = Worth(acc.plan, y) + (IF x = y THEN v ELSE 0)
      OBVIOUS
    <3>1. t.symbol = s /\ t.target = q
      OBVIOUS
    <3>. HIDE DEF t
    <3>. QED
      BY <1>2, <2>2, <3>1, WorthAppend DEF x
  <2>. HIDE DEF t, v
  <2>6. /\ Append(acc.plan, t) \in Seq(Target)
        /\ \A j \in DOMAIN Append(acc.plan, t) : Entry(Append(acc.plan, t)[j], capital)
    <3>1. /\ Append(acc.plan, t) \in Seq(Target) /\ Len(Append(acc.plan, t)) = Len(acc.plan) + 1
          /\ \A j \in 1..Len(acc.plan) : Append(acc.plan, t)[j] = acc.plan[j]
          /\ Append(acc.plan, t)[Len(acc.plan) + 1] = t
          /\ DOMAIN Append(acc.plan, t) = 1..(Len(acc.plan) + 1) /\ DOMAIN acc.plan = 1..Len(acc.plan)
          /\ Len(acc.plan) \in Nat
      BY <1>2, <2>2, AppendProperties, LenProperties
    <3>2. \A j \in 1..Len(acc.plan) : Entry(acc.plan[j], capital)
      BY <3>1 DEF Placed
    <3>. QED
      BY <2>3, <3>1, <3>2
  <2>7. new \in [Range(SectorOf) -> Nat] /\ \A y \in Range(SectorOf) : new[y] = old[y] + (IF x = y THEN v ELSE 0)
    BY <1>1, <1>2, <2>4
  <2>8. \A y \in Range(SectorOf) : new[y] <= Pct(Limits.sector, capital)
    BY <1>1, <1>2, <1>3, <2>4, <2>7 DEF Placed, v
  <2>9. \A y \in Range(SectorOf) : Worth(Append(acc.plan, t), y) = new[y]
    BY <2>5, <2>7 DEF Placed
  <2>10. Place(acc, order, i, capital).plan = Append(acc.plan, t) /\ Place(acc, order, i, capital).sectors = new
    BY <1>4, <1>6 DEF t, v
  <2>. HIDE DEF new, old
  <2>. QED
    BY <2>6, <2>7, <2>8, <2>9, <2>10 DEF Placed
<1>. QED
  BY <1>5, <1>6

LEMMA BarePlaced ==
  ASSUME NEW capital \in Nat
  PROVE  Placed(Bare, capital)
<1>1. Bare.plan = <<>> /\ Bare.sectors = [x \in Range(SectorOf) |-> 0]
  BY DEF Bare
<1>2. Pct(Limits.sector, capital) \in Nat
  BY LimitsNat, PctNat
<1>3. \A x : Worth(<<>>, x) = 0
  <2>. SUFFICES ASSUME NEW x PROVE Worth(<<>>, x) = 0
    OBVIOUS
  <2>. DEFINE f == [i \in InSector(<<>>, x) |-> <<>>[i].target * price[<<>>[i].symbol]]
  <2>1. InSector(<<>>, x) = {}
    BY DEF InSector
  <2>2. DOMAIN f = {} /\ Worth(<<>>, x) = SumFunction(f)
    BY <2>1 DEF Worth, Sum
  <2>. HIDE DEF f
  <2>. QED
    BY <2>2, SumZero, FS_EmptySet
<1>4. <<>> \in Seq(Target) /\ DOMAIN <<>> = {}
  OBVIOUS
<1>. QED
  BY <1>1, <1>2, <1>3, <1>4 DEF Placed

LEMMA AllPlaced ==
  ASSUME Account, NEW order \in Seq(Signals), NEW capital \in Nat,
         NEW g, Placing(order, capital, 1..Len(order), g)
  PROVE  Placed(g[1..Len(order)], capital)
<1>. DEFINE N == 1..Len(order)
            B == {U \in SUBSET N : ~Placed(g[U], capital)}
<1>. SUFFICES ASSUME N \in B PROVE FALSE
  OBVIOUS
<1>1. Len(order) \in Nat /\ DOMAIN order = N /\ IsFiniteSet(N)
  BY LenProperties, FS_Interval
<1>. HIDE DEF B
<1>2. PICK U \in B : \A X \in B : X \subseteq U => X = U
  <2>1. B \subseteq SUBSET N /\ B # {}
    BY DEF B
  <2>. HIDE DEF N
  <2>. QED
    BY <1>1, <2>1, SmallestSet
<1>3. U \in SUBSET N /\ ~Placed(g[U], capital)
  BY <1>2 DEF B
<1>4. U # {}
  BY <1>3, BarePlaced DEF Placing
<1>. DEFINE x == Max(U)
<1>5. x \in U
  BY <1>1, <1>3, <1>4, MaxIn
<1>6. U \ {x} \notin B /\ U \ {x} \subseteq N
  BY <1>2, <1>3, <1>5
<1>7. Placed(g[U \ {x}], capital)
  BY <1>6 DEF B
<1>8. g[U] = Place(g[U \ {x}], order, x, capital)
  BY <1>3, <1>4 DEF Placing
<1>9. x \in DOMAIN order
  BY <1>1, <1>3, <1>5
<1>. HIDE DEF x
<1>. QED
  BY <1>3, <1>7, <1>8, <1>9, PlaceKeeps
(* Adding up what is bounded by a mixture of three.                           *)
LEMMA SumMix ==
  ASSUME NEW e, NEW f, NEW d, NEW h, NEW k \in Int, NEW a \in Int, NEW b \in Int, NEW c \in Int,
         DOMAIN f = DOMAIN e, DOMAIN d = DOMAIN e, DOMAIN h = DOMAIN e, IsFiniteSet(DOMAIN e),
         Whole(e, DOMAIN e), Whole(f, DOMAIN e), Whole(d, DOMAIN e), Whole(h, DOMAIN e),
         \A x \in DOMAIN e : k * e[x] <= a * f[x] + (b * d[x] + c * h[x])
  PROVE  k * SumFunction(e) <= a * SumFunction(f) + (b * SumFunction(d) + c * SumFunction(h))
<1>. DEFINE S == DOMAIN e
            ke == [x \in S |-> k * e[x]]
            af == [x \in S |-> a * f[x]]
            bd == [x \in S |-> b * d[x]]
            ch == [x \in S |-> c * h[x]]
            two == [x \in S |-> bd[x] + ch[x]]
            three == [x \in S |-> af[x] + two[x]]
<1>1. \A x \in S : e[x] \in Int /\ f[x] \in Int /\ d[x] \in Int /\ h[x] \in Int
  BY DEF Whole
<1>2. Whole(ke, S) /\ Whole(af, S) /\ Whole(bd, S) /\ Whole(ch, S)
  BY <1>1 DEF Whole
<1>3. Whole(two, S)
  BY <1>1 DEF Whole
<1>4. Whole(three, S)
  BY <1>1 DEF Whole
<1>5. \A x \in S : ke[x] <= three[x]
  OBVIOUS
<1>6. /\ DOMAIN ke = S /\ DOMAIN af = S /\ DOMAIN bd = S /\ DOMAIN ch = S
      /\ DOMAIN two = S /\ DOMAIN three = S
  OBVIOUS
<1>7. /\ \A x \in S : ke[x] = k * e[x] /\ af[x] = a * f[x]
      /\ \A x \in S : bd[x] = b * d[x] /\ ch[x] = c * h[x]
      /\ \A x \in S : two[x] = bd[x] + ch[x]
      /\ \A x \in S : three[x] = af[x] + two[x]
  OBVIOUS
<1>. HIDE DEF ke, af, bd, ch, two, three
<1>8. SumFunction(ke) = k * SumFunction(e)
  BY <1>6, <1>7, SumTimes
<1>9. SumFunction(af) = a * SumFunction(f)
  BY <1>6, <1>7, SumTimes
<1>10. SumFunction(bd) = b * SumFunction(d)
  BY <1>6, <1>7, SumTimes
<1>11. SumFunction(ch) = c * SumFunction(h)
  BY <1>6, <1>7, SumTimes
<1>12. SumFunction(two) = SumFunction(bd) + SumFunction(ch)
  BY <1>2, <1>6, <1>7, SumParts
<1>13. SumFunction(three) = SumFunction(af) + SumFunction(two)
  BY <1>2, <1>3, <1>6, <1>7, SumParts
<1>14. SumFunction(ke) <= SumFunction(three)
  BY <1>2, <1>4, <1>5, <1>6, SumBelow
<1>. QED
  BY <1>8, <1>9, <1>10, <1>11, <1>12, <1>13, <1>14

(* SetToSeq leaves nothing out.                                               *)
LEMMA SequenceOfSet ==
  ASSUME NEW S, IsFiniteSet(S)
  PROVE  /\ SetToSeq(S) \in Seq(S)
         /\ \A x \in S : \E i \in DOMAIN SetToSeq(S) : SetToSeq(S)[i] = x
<1>. DEFINE n == Cardinality(S)
            q == SetToSeq(S)
<1>1. n \in Nat /\ ExistsBijection(1..n, S)
  BY FS_CardinalityType
<1>2. \E f \in [1..n -> S] : IsInjective(f)
  BY <1>1 DEF ExistsBijection, Bijection, Injection, IsInjective
<1>3. q \in [1..n -> S] /\ IsInjective(q)
  BY <1>2 DEF SetToSeq
<1>. HIDE DEF q
<1>4. q \in Injection(1..n, S)
  BY <1>3 DEF Injection
<1>5. Cardinality(1..n) = n
  BY <1>1, FS_Interval
<1>6. q \in Surjection(1..n, S)
  BY <1>4, <1>5, FS_Injection
<1>7. \A x \in S : \E i \in 1..n : q[i] = x
  BY <1>6 DEF Surjection
<1>8. q \in Seq(S) /\ DOMAIN q = 1..n
  BY <1>1, <1>3
<1>. QED
  BY <1>7, <1>8 DEF q

-----------------------------------------------------------------------------
(* A plan on its way: of whole targets, counted from what is held, with one   *)
(* for every name that is.                                                   *)
Planned(plan) ==
    /\ plan \in Seq(Target)
    /\ \A i \in DOMAIN plan : plan[i].delta = plan[i].target - held[plan[i].symbol]
    /\ \A s \in Symbols : held[s] > 0 => \E i \in DOMAIN plan : plan[i].symbol = s

Capped(t, capital) == t.target * price[t.symbol] <= Pct(Limits.position, capital)

LEMMA OrphansTyped ==
  ASSUME Account, NEW plan
  PROVE  LET o == Orphans(plan)
         IN /\ o \in Seq(Target)
            /\ \A i \in DOMAIN o : o[i].target = 0 /\ o[i].delta = -held[o[i].symbol]
            /\ \A s \in Symbols : held[s] > 0 =>
                 \/ \E i \in DOMAIN plan : plan[i].symbol = s
                 \/ \E i \in DOMAIN o : o[i].symbol = s
<1>. DEFINE targeted == {plan[i].symbol : i \in DOMAIN plan}
            N == {x \in Symbols \ targeted : held[x] > 0}
            f == [s \in N |-> [symbol |-> s, target |-> 0, delta |-> -held[s]]]
            S == {[symbol |-> s, target |-> 0, delta |-> -held[s]] : s \in N}
            o == Orphans(plan)
<1>1. N \subseteq Symbols /\ IsFiniteSet(N)
  BY PortfolioAssumption, FS_Subset
<1>2. f \in Surjection(N, S)
  BY DEF Surjection
<1>3. IsFiniteSet(S)
  <2>. HIDE DEF N, f, S
  <2>. QED
    BY <1>1, <1>2, FS_Surjection
<1>4. o = SetToSeq(S)
  BY DEF Orphans
<1>5. S \subseteq Target
  BY <1>1 DEF Target, Account
<1>6. \A t \in S : t.target = 0 /\ t.delta = -held[t.symbol]
  OBVIOUS
<1>7. \A s \in N : \E t \in S : t.symbol = s
  <2>. SUFFICES ASSUME NEW s \in N PROVE \E t \in S : t.symbol = s
    OBVIOUS
  <2>1. [symbol |-> s, target |-> 0, delta |-> -held[s]] \in S
    OBVIOUS
  <2>. QED
    BY <2>1
<1>. HIDE DEF S, f
<1>8. o \in Seq(S) /\ \A t \in S : \E i \in DOMAIN o : o[i] = t
  BY <1>3, <1>4, SequenceOfSet
<1>9. \A i \in DOMAIN o : o[i] \in S
  BY <1>8, ElementOfSeq, LenProperties
<1>10. o \in Seq(Target)
  BY <1>5, <1>8, SeqMonotonic
<1>11. \A s \in Symbols : held[s] > 0 =>
         \/ \E i \in DOMAIN plan : plan[i].symbol = s
         \/ \E i \in DOMAIN o : o[i].symbol = s
  <2>. SUFFICES ASSUME NEW s \in Symbols, held[s] > 0, s \notin targeted
                PROVE  \E i \in DOMAIN o : o[i].symbol = s
    OBVIOUS
  <2>1. s \in N
    OBVIOUS
  <2>. QED
    BY <1>7, <1>8, <2>1
<1>. HIDE DEF o
<1>. QED
  BY <1>6, <1>9, <1>10, <1>11 DEF o

LEMMA ConcatTyped ==
  ASSUME NEW p \in Seq(Target), NEW o \in Seq(Target)
  PROVE  /\ p \o o \in Seq(Target)
         /\ DOMAIN (p \o o) = 1..(Len(p) + Len(o)) /\ DOMAIN p = 1..Len(p) /\ DOMAIN o = 1..Len(o)
         /\ Len(p) \in Nat /\ Len(o) \in Nat
         /\ \A i \in DOMAIN p : i \in DOMAIN (p \o o) /\ (p \o o)[i] = p[i]
         /\ \A i \in DOMAIN o : Len(p) + i \in DOMAIN (p \o o) /\ (p \o o)[Len(p) + i] = o[i]
         /\ \A i \in DOMAIN (p \o o) : i \in DOMAIN p \/ i - Len(p) \in DOMAIN o
<1>1. /\ p \o o \in Seq(Target) /\ Len(p \o o) = Len(p) + Len(o)
      /\ \A i \in 1..(Len(p) + Len(o)) : (p \o o)[i] = IF i <= Len(p) THEN p[i] ELSE o[i - Len(p)]
  BY ConcatProperties
<1>2. /\ DOMAIN (p \o o) = 1..(Len(p) + Len(o)) /\ DOMAIN p = 1..Len(p) /\ DOMAIN o = 1..Len(o)
      /\ Len(p) \in Nat /\ Len(o) \in Nat
  BY <1>1, LenProperties
<1>. QED
  BY <1>1, <1>2

LEMMA WorthInt ==
  ASSUME Account, NEW plan \in Seq(Target), NEW x
  PROVE  /\ \A i \in InSector(plan, x) : plan[i].target * price[plan[i].symbol] \in Nat
         /\ Worth(plan, x) \in Nat
<1>. DEFINE S == InSector(plan, x)
            f == [i \in S |-> plan[i].target * price[plan[i].symbol]]
<1>1. \A i \in S : plan[i].target * price[plan[i].symbol] \in Nat
  <2>. SUFFICES ASSUME NEW i \in S PROVE plan[i].target * price[plan[i].symbol] \in Nat
    OBVIOUS
  <2>1. plan[i].symbol \in Symbols /\ plan[i].target \in Nat
    BY TargetAt DEF InSector
  <2>2. price[plan[i].symbol] \in Nat
    BY <2>1 DEF Account
  <2>. QED
    BY <2>1, <2>2
<1>2. IsFiniteSet(S)
  BY InSectorFinite
<1>3. Worth(plan, x) = SumFunction(f)
  BY DEF Worth, Sum
<1>4. DOMAIN f = S /\ \A i \in S : f[i] \in Nat
  BY <1>1
<1>. HIDE DEF f, S
<1>5. SumFunction(f) \in Nat
  BY <1>2, <1>4, SumNat
<1>. QED
  BY <1>1, <1>3, <1>5 DEF S

(* Targets of zero add nothing.                                               *)
LEMMA WorthConcat ==
  ASSUME Account, NEW p \in Seq(Target), NEW o \in Seq(Target), \A i \in DOMAIN o : o[i].target = 0,
         NEW x
  PROVE  Worth(p \o o, x) = Worth(p, x)
<1>. DEFINE more == p \o o
            S == InSector(p, x)
            T == InSector(more, x)
            f == [i \in S |-> p[i].target * price[p[i].symbol]]
            e == [i \in T |-> more[i].target * price[more[i].symbol]]
<1>1. Worth(p, x) = SumFunction(f) /\ Worth(more, x) = SumFunction(e)
  BY DEF Worth, Sum
<1>2. \A i \in S : i \in T /\ more[i] = p[i]
  BY ConcatTyped DEF InSector
<1>3. more \in Seq(Target) /\ IsFiniteSet(T)
  BY ConcatTyped, InSectorFinite
<1>4. \A i \in T : e[i] \in Int
  <2>1. \A i \in T : e[i] = more[i].target * price[more[i].symbol]
    OBVIOUS
  <2>. HIDE DEF more, e
  <2>2. \A i \in T : more[i].target * price[more[i].symbol] \in Nat
    BY <1>3, WorthInt
  <2>. QED
    BY <2>1, <2>2
<1>5. \A i \in T \ S : e[i] = 0
  <2>. SUFFICES ASSUME NEW i \in T \ S PROVE e[i] = 0
    OBVIOUS
  <2>1. i \in DOMAIN more
    BY DEF InSector
  <2>2. i \notin DOMAIN p
    BY ConcatTyped DEF InSector
  <2>3. i - Len(p) \in DOMAIN o /\ Len(p) + (i - Len(p)) = i
    BY <2>1, <2>2, ConcatTyped
  <2>4. more[i] = o[i - Len(p)]
    BY <2>3, ConcatTyped
  <2>5. more[i].target = 0
    BY <2>3, <2>4
  <2>6. more[i].symbol \in Symbols
    BY <1>3, <2>1, TargetAt
  <2>7. price[more[i].symbol] \in Nat
    BY <2>6 DEF Account
  <2>8. e[i] = more[i].target * price[more[i].symbol]
    OBVIOUS
  <2>. HIDE DEF more, e
  <2>. QED
    BY <2>5, <2>7, <2>8
<1>6. DOMAIN f = S /\ DOMAIN e = T /\ S \subseteq T /\ \A i \in S : e[i] = f[i]
  BY <1>2
<1>. HIDE DEF more, S, T, f, e
<1>7. SumFunction(e) = SumFunction(f)
  BY <1>3, <1>4, <1>5, <1>6, SumSupport DEF Whole
<1>. QED
  BY <1>1, <1>7 DEF more

(* _size_positions: within the caps, with the names held and not signalled.   *)
LEMMA SizeKeeps ==
  ASSUME Account, NEW order \in Seq(Signals), NEW capital \in Nat
  PROVE  LET plan == SizePositions(order, capital)
         IN /\ Planned(plan)
            /\ \A i \in DOMAIN plan : Capped(plan[i], capital)
            /\ \A x \in Range(SectorOf) : Worth(plan, x) <= Pct(Limits.sector, capital)
<1>1. Len(order) \in Nat /\ DOMAIN order = 1..Len(order)
  BY LenProperties
<1>2. PICK g : /\ Placing(order, capital, 1..Len(order), g)
               /\ SizePositions(order, capital) = g[1..Len(order)].plan \o Orphans(g[1..Len(order)].plan)
  BY <1>1, SizePlaces
<1>. DEFINE acc == g[1..Len(order)]
            p == acc.plan
            o == Orphans(p)
            plan == SizePositions(order, capital)
<1>3. Placed(acc, capital) /\ plan = p \o o
  BY <1>2, AllPlaced
<1>. HIDE DEF acc, plan
<1>4. /\ p \in Seq(Target) /\ \A i \in DOMAIN p : Entry(p[i], capital)
      /\ \A x \in Range(SectorOf) : Worth(p, x) <= Pct(Limits.sector, capital)
  BY <1>3 DEF Placed
<1>5. /\ o \in Seq(Target)
      /\ \A i \in DOMAIN o : o[i].target = 0 /\ o[i].delta = -held[o[i].symbol]
      /\ \A s \in Symbols : held[s] > 0 =>
           \/ \E i \in DOMAIN p : p[i].symbol = s
           \/ \E i \in DOMAIN o : o[i].symbol = s
  BY OrphansTyped
<1>. HIDE DEF o, p
<1>6. \A i \in DOMAIN o : o[i].delta = o[i].target - held[o[i].symbol] /\ Capped(o[i], capital)
  <2>. SUFFICES ASSUME NEW i \in DOMAIN o
                PROVE  o[i].delta = o[i].target - held[o[i].symbol] /\ Capped(o[i], capital)
    OBVIOUS
  <2>1. o[i].symbol \in Symbols /\ o[i].target = 0 /\ o[i].delta = -held[o[i].symbol]
    BY <1>5, TargetAt
  <2>2. held[o[i].symbol] \in Nat /\ price[o[i].symbol] \in Nat
    BY <2>1 DEF Account
  <2>3. Pct(Limits.position, capital) \in Nat
    BY LimitsNat, PctNat
  <2>. QED
    BY <2>1, <2>2, <2>3 DEF Capped
<1>7. \A i \in DOMAIN p : p[i].delta = p[i].target - held[p[i].symbol] /\ Capped(p[i], capital)
  BY <1>4 DEF Entry, Capped
<1>8. /\ p \o o \in Seq(Target)
      /\ \A i \in DOMAIN (p \o o) : \/ \E j \in DOMAIN p : (p \o o)[i] = p[j]
                                    \/ \E j \in DOMAIN o : (p \o o)[i] = o[j]
      /\ \A j \in DOMAIN p : \E i \in DOMAIN (p \o o) : (p \o o)[i] = p[j]
      /\ \A j \in DOMAIN o : \E i \in DOMAIN (p \o o) : (p \o o)[i] = o[j]
  <2>. DEFINE all == p \o o
  <2>1. /\ all \in Seq(Target) /\ Len(p) \in Nat
        /\ DOMAIN all = 1..(Len(p) + Len(o))
        /\ \A i \in DOMAIN p : i \in DOMAIN all /\ all[i] = p[i]
        /\ \A i \in DOMAIN o : Len(p) + i \in DOMAIN all /\ all[Len(p) + i] = o[i]
        /\ \A i \in DOMAIN all : i \in DOMAIN p \/ i - Len(p) \in DOMAIN o
    BY <1>4, <1>5, ConcatTyped
  <2>. HIDE DEF all
  <2>2. \A i \in DOMAIN all : Len(p) + (i - Len(p)) = i
    BY <2>1
  <2>3. \A i \in DOMAIN all : \/ \E j \in DOMAIN p : all[i] = p[j]
                            \/ \E j \in DOMAIN o : all[i] = o[j]
    BY <2>1, <2>2
  <2>. QED
    BY <2>1, <2>3 DEF all
<1>9. /\ plan \in Seq(Target)
      /\ \A i \in DOMAIN plan : plan[i].delta = plan[i].target - held[plan[i].symbol] /\ Capped(plan[i], capital)
      /\ \A s \in Symbols : held[s] > 0 => \E i \in DOMAIN plan : plan[i].symbol = s
  <2>. DEFINE all == p \o o
              fine(t) == t.delta = t.target - held[t.symbol] /\ Capped(t, capital)
  <2>1. \A i \in DOMAIN o : fine(o[i])
    BY <1>6
  <2>2. \A i \in DOMAIN p : fine(p[i])
    BY <1>7
  <2>. HIDE DEF fine, all
  <2>3. \A i \in DOMAIN all : fine(all[i])
    BY <1>8, <2>1, <2>2 DEF all
  <2>4. \A s \in Symbols : held[s] > 0 => \E i \in DOMAIN all : all[i].symbol = s
    <3>. SUFFICES ASSUME NEW s \in Symbols, held[s] > 0
                  PROVE  \E i \in DOMAIN all : all[i].symbol = s
      OBVIOUS
    <3>1. CASE \E j \in DOMAIN p : p[j].symbol = s
      <4>1. PICK j \in DOMAIN p : p[j].symbol = s
        BY <3>1
      <4>. QED
        BY <1>8, <4>1 DEF all
    <3>2. CASE \E j \in DOMAIN o : o[j].symbol = s
      <4>1. PICK j \in DOMAIN o : o[j].symbol = s
        BY <3>2
      <4>. QED
        BY <1>8, <4>1 DEF all
    <3>. QED
      BY <1>5, <3>1, <3>2
  <2>. QED
    BY <1>3, <1>8, <2>3, <2>4 DEF fine, all
<1>10. \A x \in Range(SectorOf) : Worth(plan, x) <= Pct(Limits.sector, capital)
  BY <1>3, <1>4, <1>5, WorthConcat
<1>. QED
  BY <1>9, <1>10 DEF Planned, plan
-----------------------------------------------------------------------------
(* The turnover limit and the cash floor                                     *)

Had(plan, x) == Sum(LAMBDA i : held[plan[i].symbol] * price[plan[i].symbol], InSector(plan, x))
Shares(plan, x) == Sum(LAMBDA i : price[plan[i].symbol], InSector(plan, x))

WithinSector(plan, x, capital) ==
    \/ Worth(plan, x) <= Pct(Limits.sector, capital)
    \/ Worth(plan, x) < Pct(Limits.sector, capital) + Shares(plan, x)
    \/ Worth(plan, x) < Had(plan, x) + Shares(plan, x)

(* The same names with other targets.                                         *)
Revised(plan, new) ==
    /\ new = [i \in DOMAIN plan |-> new[i]]
    /\ \A i \in DOMAIN plan : /\ new[i].symbol = plan[i].symbol
                              /\ new[i] \in Target
                              /\ new[i].delta = new[i].target - held[new[i].symbol]

LEMMA RevisedKeeps ==
  ASSUME Account, NEW plan, Planned(plan), NEW new, Revised(plan, new)
  PROVE  Planned(new) /\ DOMAIN new = DOMAIN plan
         /\ \A x : InSector(new, x) = InSector(plan, x)
                   /\ Had(new, x) = Had(plan, x) /\ Shares(new, x) = Shares(plan, x)
<1>1. plan \in Seq(Target) /\ DOMAIN plan = 1..Len(plan) /\ Len(plan) \in Nat
  BY LenProperties DEF Planned
<1>2. DOMAIN new = DOMAIN plan
  BY DEF Revised
<1>3. new \in [1..Len(plan) -> Target]
  <2>1. new = [i \in 1..Len(plan) |-> new[i]] /\ \A i \in 1..Len(plan) : new[i] \in Target
    BY <1>1 DEF Revised
  <2>. QED
    BY <2>1
<1>4. new \in Seq(Target)
  BY <1>1, <1>3
<1>5. Planned(new)
  BY <1>2, <1>4 DEF Planned, Revised
<1>6. \A i \in DOMAIN plan : new[i].symbol = plan[i].symbol
  BY DEF Revised
<1>7. ASSUME NEW x PROVE InSector(new, x) = InSector(plan, x)
  BY <1>2, <1>6 DEF InSector
<1>8. ASSUME NEW x PROVE Had(new, x) = Had(plan, x) /\ Shares(new, x) = Shares(plan, x)
  <2>1. \A i \in InSector(plan, x) : new[i].symbol = plan[i].symbol
    BY <1>6 DEF InSector
  <2>2. [i \in InSector(new, x) |-> held[new[i].symbol] * price[new[i].symbol]]
          = [i \in InSector(plan, x) |-> held[plan[i].symbol] * price[plan[i].symbol]]
    BY <1>7, <2>1
  <2>3. [i \in InSector(new, x) |-> price[new[i].symbol]]
          = [i \in InSector(plan, x) |-> price[plan[i].symbol]]
    BY <1>7, <2>1
  <2>. QED
    BY <2>2, <2>3 DEF Had, Shares, Sum
<1>. QED
  BY <1>2, <1>5, <1>7, <1>8

LEMMA AccountAt ==
  ASSUME Account, NEW plan \in Seq(Target), NEW i \in DOMAIN plan
  PROVE  held[plan[i].symbol] \in Nat /\ price[plan[i].symbol] \in Nat \ {0}
BY TargetAt DEF Account

LEMMA TotalsNat ==
  ASSUME Account, NEW plan \in Seq(Target)
  PROVE  Turnover(plan) \in Nat /\ Deployed(plan) \in Nat
<1>. DEFINE D == DOMAIN plan
            f == [i \in D |-> Magnitude(plan[i].delta) * price[plan[i].symbol]]
            e == [i \in D |-> plan[i].target * price[plan[i].symbol]]
<1>1. Turnover(plan) = SumFunction(f) /\ Deployed(plan) = SumFunction(e)
  BY DEF Turnover, Deployed, PlanTotal, Sum
<1>2. IsFiniteSet(D)
  BY FS_Interval, LenProperties
<1>3. ASSUME NEW i \in D PROVE f[i] \in Nat /\ e[i] \in Nat
  <2>1. plan[i].target \in Nat /\ plan[i].delta \in Int /\ price[plan[i].symbol] \in Nat
    BY TargetAt, AccountAt
  <2>2. Magnitude(plan[i].delta) \in Nat
    BY <2>1 DEF Magnitude
  <2>. QED
    BY <2>1, <2>2
<1>4. DOMAIN f = D /\ DOMAIN e = D
  OBVIOUS
<1>. HIDE DEF D, f, e
<1>. QED
  BY <1>1, <1>2, <1>3, <1>4, SumNat

(* Between the book and the target: not above both, but for a share each.     *)
LEMMA Between ==
  ASSUME NEW T \in Nat \ {0}, NEW c \in Nat, c < T, NEW E \in Nat, NEW H \in Nat, NEW F \in Nat,
         NEW P \in Nat \ {0}, NEW most \in Nat, F <= most,
         T * E <= (T - c) * H + (c * F + (T - 1) * P)
  PROVE  E < most + P \/ E < H + P
<1>. SUFFICES ASSUME E >= most + P, E >= H + P PROVE FALSE
  OBVIOUS
<1>1. c * F <= c * most
  OBVIOUS
<1>2. c * (most + P) <= c * E
  OBVIOUS
<1>3. (T - c) * (H + P) <= (T - c) * E
  OBVIOUS
<1>4. (T - c) * E + c * E = T * E
  OBVIOUS
<1>5. c * (most + P) = c * most + c * P
  OBVIOUS
<1>6. (T - c) * (H + P) = (T - c) * H + (T * P - c * P)
  OBVIOUS
<1>7. (T - 1) * P = T * P - P
  OBVIOUS
<1>8. /\ c * F \in Int /\ c * most \in Int /\ c * E \in Int /\ T * E \in Int /\ T * P \in Int
      /\ c * P \in Int /\ (T - c) * H \in Int /\ (T - c) * E \in Int
  OBVIOUS
<1>. QED
  BY <1>1, <1>2, <1>3, <1>4, <1>5, <1>6, <1>7, <1>8

LEMMA SectorNat ==
  ASSUME Account, NEW plan \in Seq(Target), NEW x
  PROVE  /\ Had(plan, x) \in Nat
         /\ Shares(plan, x) \in Nat
         /\ InSector(plan, x) # {} => Shares(plan, x) # 0
         /\ InSector(plan, x) = {} => Worth(plan, x) = 0
<1>. DEFINE S == InSector(plan, x)
            h == [i \in S |-> held[plan[i].symbol] * price[plan[i].symbol]]
            p == [i \in S |-> price[plan[i].symbol]]
            w == [i \in S |-> plan[i].target * price[plan[i].symbol]]
<1>1. Had(plan, x) = SumFunction(h) /\ Shares(plan, x) = SumFunction(p) /\ Worth(plan, x) = SumFunction(w)
  BY DEF Had, Shares, Worth, Sum
<1>2. ASSUME NEW i \in S PROVE h[i] \in Nat /\ p[i] \in Nat \ {0}
  <2>1. held[plan[i].symbol] \in Nat /\ price[plan[i].symbol] \in Nat \ {0}
    BY AccountAt DEF InSector
  <2>. QED
    BY <2>1
<1>3. IsFiniteSet(S)
  BY InSectorFinite
<1>4. DOMAIN h = S /\ DOMAIN p = S /\ DOMAIN w = S
  OBVIOUS
<1>. HIDE DEF S, h, p, w
<1>5. SumFunction(h) \in Nat
  BY <1>2, <1>3, <1>4, SumNat
<1>6. SumFunction(p) \in Nat /\ \A i \in S : p[i] <= SumFunction(p)
  BY <1>2, <1>3, <1>4, SumNat
<1>7. S = {} => SumFunction(w) = 0
  BY <1>3, <1>4, SumZero
<1>. QED
  BY <1>1, <1>2, <1>5, <1>6, <1>7 DEF S

LEMMA TurnoverKeeps ==
  ASSUME Account, NEW capital \in Nat, NEW plan, Planned(plan),
         \A i \in DOMAIN plan : Capped(plan[i], capital),
         \A x \in Range(SectorOf) : Worth(plan, x) <= Pct(Limits.sector, capital)
  PROVE  LET new == TurnoverLimited(plan, capital)
         IN /\ Planned(new)
            /\ \A i \in DOMAIN new : new[i].delta > 0 => Capped(new[i], capital)
            /\ \A x \in Range(SectorOf) : WithinSector(new, x, capital)
<1>. DEFINE T == Turnover(plan)
            c == Pct(Limits.turnover, capital)
            to(i) == Scaled(plan[i].delta, c, T)
            new == TurnoverLimited(plan, capital)
<1>0. plan \in Seq(Target)
  BY DEF Planned
<1>1. T \in Nat /\ c \in Nat
  BY <1>0, TotalsNat, LimitsNat, PctNat
<1>2. CASE T <= c
  <2>1. new = plan
    BY <1>2 DEF TurnoverLimited
  <2>. HIDE DEF new
  <2>. QED
    BY <2>1 DEF WithinSector, new
<1>3. CASE ~(T <= c)
  <2>1. c < T /\ T \in Nat \ {0}
    BY <1>1, <1>3
  <2>2. new = [i \in DOMAIN plan |-> [plan[i] EXCEPT !.delta = to(i),
                                       !.target = plan[i].target - plan[i].delta + to(i)]]
    BY <1>3 DEF TurnoverLimited
  <2>. HIDE DEF T, c, new
  <2>3. ASSUME NEW i \in DOMAIN plan
        PROVE  /\ new[i] \in Target /\ new[i].symbol = plan[i].symbol
               /\ new[i].delta = to(i)
               /\ new[i].target = held[plan[i].symbol] + to(i)
               /\ new[i].delta = new[i].target - held[new[i].symbol]
               /\ new[i].delta > 0 => new[i].target <= plan[i].target
               /\ T * to(i) <= plan[i].delta * c + (T - 1)
               /\ to(i) \in Int
    <3>. DEFINE d == plan[i].delta
                y == to(i)
                s == plan[i].symbol
    <3>1. plan[i] \in Target /\ s \in Symbols /\ plan[i].target \in Nat /\ d \in Int
      BY <1>0, TargetAt
    <3>2. held[s] \in Nat /\ d = plan[i].target - held[s]
      BY <1>0, AccountAt DEF Planned
    <3>3. /\ y \in Int
          /\ d >= 0 => 0 <= y /\ y <= d
          /\ d <= 0 => d <= y /\ y <= 0
          /\ T * y < d * c + T
      <4>1. d \in Int /\ c \in Nat /\ T \in Nat \ {0} /\ c <= T
        BY <1>1, <2>1, <3>1
      <4>. HIDE DEF d
      <4>2. LET z == Scaled(d, c, T)
            IN /\ z \in Int
               /\ d >= 0 => 0 <= z /\ z <= d /\ T * z <= d * c
               /\ d <= 0 => d <= z /\ z <= 0
               /\ T * z < d * c + T
        BY ONLY <4>1, ScaledBounds
      <4>. QED
        BY <4>2 DEF d
    <3>4. /\ new[i] = [symbol |-> s, target |-> plan[i].target - d + y, delta |-> y]
      BY <2>2, <3>1 DEF Target
    <3>. HIDE DEF d, y, s
    <3>5. plan[i].target - d + y = held[s] + y /\ held[s] + y \in Nat
      BY <3>1, <3>2, <3>3
    <3>6. T * y <= d * c + (T - 1)
      <4>. DEFINE u == T * y
                  v == d * c
      <4>1. u \in Int /\ v \in Int /\ u < v + T
        BY <1>1, <3>1, <3>3
      <4>. HIDE DEF u, v
      <4>2. u <= v + (T - 1)
        BY <1>1, <4>1
      <4>. QED
        BY <4>2 DEF u, v
    <3>7. y > 0 => held[s] + y <= plan[i].target
      BY <3>1, <3>2, <3>3
    <3>8. new[i] \in Target /\ new[i].symbol = s /\ new[i].target = held[s] + y /\ new[i].delta = y
      BY <3>1, <3>3, <3>4, <3>5 DEF Target
    <3>10. y > 0 => new[i].target <= plan[i].target
      BY <3>7, <3>8
    <3>11. new[i].delta = new[i].target - held[new[i].symbol]
      <4>1. held[new[i].symbol] = held[s]
        BY <3>8
      <4>2. new[i].target - held[s] = y
        BY <3>2, <3>3, <3>8
      <4>. QED
        BY <3>8, <4>1, <4>2
    <3>. QED
      BY <3>3, <3>6, <3>8, <3>10, <3>11 DEF d, y, s
  <2>. HIDE DEF to
  <2>4. Revised(plan, new)
    <3>1. new = [i \in DOMAIN plan |-> new[i]]
      BY <2>2
    <3>. QED
      BY <2>3, <3>1 DEF Revised
  <2>5. Planned(new) /\ DOMAIN new = DOMAIN plan
    BY <2>4, RevisedKeeps
  <2>6. ASSUME NEW i \in DOMAIN plan, new[i].delta > 0 PROVE Capped(new[i], capital)
    <3>. DEFINE p == price[plan[i].symbol]
    <3>1. p \in Nat /\ plan[i].target \in Nat /\ new[i].target \in Nat /\ new[i].target <= plan[i].target
      BY <1>0, <2>3, <2>5, <2>6, AccountAt, TargetAt DEF Planned
    <3>2. new[i].target * p <= plan[i].target * p
      BY <3>1
    <3>3. plan[i].target * p <= Pct(Limits.position, capital)
      BY DEF Capped
    <3>4. Pct(Limits.position, capital) \in Nat /\ new[i].target * p \in Nat /\ plan[i].target * p \in Nat
      <4>1. Pct(Limits.position, capital) \in Nat
        BY LimitsNat, PctNat
      <4>. QED
        BY <3>1, <4>1
    <3>5. new[i].target * p <= Pct(Limits.position, capital)
      BY <3>2, <3>3, <3>4
    <3>. QED
      BY <2>3, <3>5 DEF Capped
  <2>7. ASSUME NEW x \in Range(SectorOf) PROVE WithinSector(new, x, capital)
    <3>. DEFINE S == InSector(plan, x)
                e == [i \in S |-> new[i].target * price[new[i].symbol]]
                h == [i \in S |-> held[plan[i].symbol] * price[plan[i].symbol]]
                f == [i \in S |-> plan[i].target * price[plan[i].symbol]]
                p == [i \in S |-> price[plan[i].symbol]]
    <3>1. /\ Worth(new, x) = SumFunction(e) /\ Had(new, x) = SumFunction(h)
          /\ Worth(plan, x) = SumFunction(f) /\ Shares(new, x) = SumFunction(p)
      <4>1. InSector(new, x) = S /\ Had(new, x) = Had(plan, x) /\ Shares(new, x) = Shares(plan, x)
        BY <2>4, RevisedKeeps
      <4>. QED
        BY <4>1 DEF Worth, Had, Shares, Sum
    <3>2. IsFiniteSet(S) /\ InSector(new, x) = S
      BY <1>0, <2>4, InSectorFinite, RevisedKeeps
    <3>3. ASSUME NEW i \in S
          PROVE  /\ e[i] \in Int /\ h[i] \in Int /\ f[i] \in Int /\ p[i] \in Int
                 /\ T * e[i] <= (T - c) * h[i] + (c * f[i] + (T - 1) * p[i])
      <4>. DEFINE q == price[plan[i].symbol]
                  b == held[plan[i].symbol]
                  t == plan[i].target
                  y == to(i)
      <4>0. i \in DOMAIN plan
        BY DEF InSector
      <4>1. q \in Nat /\ b \in Nat /\ t \in Nat /\ y \in Int
        BY <1>0, <2>3, <4>0, AccountAt, TargetAt
      <4>2. plan[i].delta = t - b /\ new[i].target = b + y
        BY <2>3, <4>0 DEF Planned
      <4>3. T * y <= (t - b) * c + (T - 1)
        BY <2>3, <4>0, <4>2
      <4>4. e[i] = (b + y) * q /\ h[i] = b * q /\ f[i] = t * q /\ p[i] = q
        BY <2>3, <4>0, <4>2
      <4>. HIDE DEF q, b, t, y, e, h, f, p
      <4>5. T * (b + y) <= (T - c) * b + (c * t + (T - 1))
        <5>1. T * (b + y) = T * b + T * y
          BY <1>1, <4>1
        <5>2. (T - c) * b = T * b - c * b
          BY <1>1, <4>1
        <5>3. (t - b) * c = c * t - c * b
          BY <1>1, <4>1
        <5>. QED
          BY <1>1, <4>1, <4>3, <5>1, <5>2, <5>3
      <4>6. (T * (b + y)) * q <= ((T - c) * b + (c * t + (T - 1))) * q
        <5>. DEFINE u == T * (b + y)
                    v == (T - c) * b + (c * t + (T - 1))
        <5>1. u \in Int /\ v \in Int /\ u <= v
          BY <1>1, <4>1, <4>5
        <5>. HIDE DEF u, v
        <5>2. u * q <= v * q
          BY <4>1, <5>1
        <5>. QED
          BY <5>2 DEF u, v
      <4>7. (T * (b + y)) * q = T * ((b + y) * q)
        BY <1>1, <4>1
      <4>8. ((T - c) * b + (c * t + (T - 1))) * q = (T - c) * (b * q) + (c * (t * q) + (T - 1) * q)
        BY <1>1, <4>1
      <4>. QED
        BY <4>1, <4>4, <4>6, <4>7, <4>8
    <3>4. DOMAIN e = S /\ DOMAIN h = S /\ DOMAIN f = S /\ DOMAIN p = S
      OBVIOUS
    <3>. HIDE DEF e, h, f, p, S
    <3>5. T * SumFunction(e) <= (T - c) * SumFunction(h) + (c * SumFunction(f) + (T - 1) * SumFunction(p))
      <4>1. T \in Int /\ T - c \in Int /\ c \in Int /\ T - 1 \in Int
        BY <1>1
      <4>. DEFINE a == T - c
                  z == T - 1
      <4>2. \A i \in S : T * e[i] <= a * h[i] + (c * f[i] + z * p[i])
        BY <3>3
      <4>3. a \in Int /\ z \in Int
        BY <4>1
      <4>. HIDE DEF a, z
      <4>4. T * SumFunction(e) <= a * SumFunction(h) + (c * SumFunction(f) + z * SumFunction(p))
        BY <3>2, <3>3, <3>4, <4>1, <4>2, <4>3, SumMix DEF Whole
      <4>. QED
        BY <4>4 DEF a, z
    <3>6. CASE S = {}
      <4>1. Worth(new, x) = 0
        BY <2>5, <3>2, <3>6, SectorNat DEF Planned
      <4>. QED
        <5>1. Pct(Limits.sector, capital) \in Nat
          BY LimitsNat, PctNat
        <5>. QED
          BY <4>1, <5>1 DEF WithinSector
    <3>7. CASE S # {}
      <4>1. /\ SumFunction(h) \in Nat /\ SumFunction(p) \in Nat \ {0}
            /\ SumFunction(e) \in Nat /\ SumFunction(f) \in Nat
        BY <1>0, <2>5, <3>1, <3>2, <3>7, SectorNat, WorthInt DEF Planned
      <4>2. SumFunction(f) <= Pct(Limits.sector, capital) /\ Pct(Limits.sector, capital) \in Nat
        BY <3>1, LimitsNat, PctNat
      <4>3. \/ SumFunction(e) < Pct(Limits.sector, capital) + SumFunction(p)
            \/ SumFunction(e) < SumFunction(h) + SumFunction(p)
        BY <1>1, <2>1, <3>5, <4>1, <4>2, Between
      <4>. QED
        BY <3>1, <4>3 DEF WithinSector
    <3>. QED
      BY <3>6, <3>7
  <2>. QED
    BY <2>5, <2>6, <2>7 DEF new
<1>. QED
  BY <1>2, <1>3
(* What a plan keeps when it is done.                                         *)
Kept(plan, capital) ==
    /\ Planned(plan)
    /\ \A i \in DOMAIN plan : plan[i].delta > 0 => Capped(plan[i], capital)
    /\ \A x \in Range(SectorOf) : WithinSector(plan, x, capital)
    /\ Deployed(plan) <= Pct(100 - Limits.cash, capital)

LEMMA FloorKeeps ==
  ASSUME Account, NEW capital \in Nat, NEW plan, Planned(plan),
         \A i \in DOMAIN plan : plan[i].delta > 0 => Capped(plan[i], capital),
         \A x \in Range(SectorOf) : WithinSector(plan, x, capital)
  PROVE  Kept(CashFloored(plan, capital), capital)
<1>. DEFINE D == Deployed(plan)
            m == Pct(100 - Limits.cash, capital)
            to(i) == Scaled(plan[i].target, m, D)
            new == CashFloored(plan, capital)
<1>0. plan \in Seq(Target)
  BY DEF Planned
<1>1. D \in Nat /\ m \in Nat
  BY <1>0, TotalsNat, LimitsNat, PctNat
<1>2. CASE D <= m
  <2>1. new = plan
    BY <1>2 DEF CashFloored
  <2>. HIDE DEF new
  <2>. QED
    BY <1>2, <2>1 DEF Kept, new
<1>3. CASE ~(D <= m)
  <2>1. m <= D /\ D \in Nat \ {0}
    BY <1>1, <1>3
  <2>2. new = [i \in DOMAIN plan |-> [plan[i] EXCEPT !.target = to(i),
                                       !.delta = to(i) - (plan[i].target - plan[i].delta)]]
    BY <1>3 DEF CashFloored
  <2>. HIDE DEF D, m, new
  <2>3. ASSUME NEW i \in DOMAIN plan
        PROVE  /\ new[i] \in Target /\ new[i].symbol = plan[i].symbol
               /\ new[i].target = to(i) /\ to(i) \in Nat
               /\ to(i) <= plan[i].target
               /\ new[i].delta = new[i].target - held[new[i].symbol]
               /\ new[i].delta > 0 => plan[i].delta > 0
               /\ D * to(i) <= m * plan[i].target
    <3>. DEFINE t == plan[i].target
                y == to(i)
                s == plan[i].symbol
    <3>1. plan[i] \in Target /\ s \in Symbols /\ t \in Nat /\ plan[i].delta \in Int
      BY <1>0, TargetAt
    <3>2. held[s] \in Nat /\ plan[i].delta = t - held[s]
      BY <1>0, AccountAt DEF Planned
    <3>3. y \in Nat /\ y <= t /\ D * y <= t * m
      <4>1. t \in Int /\ t >= 0 /\ m \in Nat /\ D \in Nat \ {0} /\ m <= D
        BY <1>1, <2>1, <3>1
      <4>. HIDE DEF t
      <4>2. LET z == Scaled(t, m, D)
            IN /\ z \in Int
               /\ t >= 0 => 0 <= z /\ z <= t /\ D * z <= t * m
               /\ t <= 0 => t <= z /\ z <= 0
               /\ D * z < t * m + D
        BY ONLY <4>1, ScaledBounds
      <4>3. y = Scaled(t, m, D)
        BY DEF t
      <4>. QED
        BY <4>1, <4>2, <4>3
    <3>4. new[i] = [symbol |-> s, target |-> y, delta |-> y - (t - plan[i].delta)]
      BY <2>2, <3>1 DEF Target
    <3>. HIDE DEF t, y, s
    <3>5. y - (t - plan[i].delta) = y - held[s] /\ y - held[s] \in Int
      BY <3>1, <3>2, <3>3
    <3>6. new[i] \in Target /\ new[i].symbol = s /\ new[i].target = y /\ new[i].delta = y - held[s]
      BY <3>1, <3>3, <3>4, <3>5 DEF Target
    <3>7. y - held[s] > 0 => plan[i].delta > 0
      BY <3>1, <3>2, <3>3
    <3>8. t * m = m * t
      BY <1>1, <3>1
    <3>. QED
      BY <3>3, <3>6, <3>7, <3>8 DEF t, y, s
  <2>. HIDE DEF to
  <2>4. Revised(plan, new)
    <3>1. new = [i \in DOMAIN plan |-> new[i]]
      BY <2>2
    <3>. QED
      BY <2>3, <3>1 DEF Revised
  <2>5. Planned(new) /\ DOMAIN new = DOMAIN plan
    BY <2>4, RevisedKeeps
  <2>. DEFINE was(i) == plan[i].target * price[plan[i].symbol]
              is(i) == new[i].target * price[new[i].symbol]
  <2>6. ASSUME NEW i \in DOMAIN plan
        PROVE  was(i) \in Nat /\ is(i) \in Nat /\ is(i) <= was(i) /\ D * is(i) <= m * was(i)
    <3>. DEFINE p == price[plan[i].symbol]
                t == plan[i].target
                y == new[i].target
    <3>1. p \in Nat /\ t \in Nat /\ y \in Nat /\ y <= t /\ D * y <= m * t
      BY <1>0, <2>3, AccountAt, TargetAt
    <3>2. was(i) = t * p /\ is(i) = y * p
      BY <2>3
    <3>. HIDE DEF p, t, y, was, is
    <3>3. y * p <= t * p /\ y * p \in Nat /\ t * p \in Nat
      BY <3>1
    <3>. DEFINE u == D * y
                v == m * t
    <3>4. u \in Int /\ v \in Int /\ u <= v
      BY <1>1, <3>1
    <3>. HIDE DEF u, v
    <3>5. u * p <= v * p
      BY <3>1, <3>4
    <3>6. u * p = D * (y * p) /\ v * p = m * (t * p)
      BY <1>1, <3>1 DEF u, v
    <3>. QED
      BY <3>2, <3>3, <3>5, <3>6
  <2>7. ASSUME NEW i \in DOMAIN plan, new[i].delta > 0 PROVE Capped(new[i], capital)
    <3>1. was(i) <= Pct(Limits.position, capital)
      BY <2>3, <2>7 DEF Capped
    <3>2. Pct(Limits.position, capital) \in Nat
      BY LimitsNat, PctNat
    <3>. HIDE DEF was, is
    <3>3. is(i) <= Pct(Limits.position, capital)
      BY <2>6, <3>1, <3>2
    <3>. QED
      BY <3>3 DEF Capped, is
  <2>8. ASSUME NEW x \in Range(SectorOf) PROVE WithinSector(new, x, capital)
    <3>. DEFINE S == InSector(plan, x)
                e == [i \in S |-> is(i)]
                f == [i \in S |-> was(i)]
    <3>1. InSector(new, x) = S /\ Had(new, x) = Had(plan, x) /\ Shares(new, x) = Shares(plan, x)
      BY <2>4, RevisedKeeps
    <3>2. Worth(new, x) = SumFunction(e) /\ Worth(plan, x) = SumFunction(f)
      BY <3>1 DEF Worth, Sum
    <3>3. IsFiniteSet(S) /\ DOMAIN e = S /\ DOMAIN f = S /\ \A i \in S : i \in DOMAIN plan
      BY <1>0, InSectorFinite DEF InSector
    <3>4. \A i \in S : e[i] = is(i) /\ f[i] = was(i)
      OBVIOUS
    <3>. HIDE DEF S, e, f, was, is
    <3>5. \A i \in S : e[i] \in Int /\ f[i] \in Int /\ e[i] <= f[i]
      BY <2>6, <3>3, <3>4
    <3>6. SumFunction(e) <= SumFunction(f)
      BY <3>3, <3>5, SumBelow DEF Whole
    <3>7. WithinSector(plan, x, capital)
      OBVIOUS
    <3>8. /\ Worth(new, x) \in Nat /\ Worth(plan, x) \in Nat
          /\ Had(plan, x) \in Nat /\ Shares(plan, x) \in Nat /\ Pct(Limits.sector, capital) \in Nat
      <4>1. new \in Seq(Target)
        BY <2>5 DEF Planned
      <4>2. Worth(new, x) \in Nat /\ Worth(plan, x) \in Nat
        BY <1>0, <4>1, WorthInt
      <4>3. Had(plan, x) \in Nat /\ Shares(plan, x) \in Nat
        BY <1>0, SectorNat
      <4>4. Pct(Limits.sector, capital) \in Nat
        BY LimitsNat, PctNat
      <4>. QED
        BY <4>2, <4>3, <4>4
    <3>9. Worth(new, x) <= Worth(plan, x)
      BY <3>2, <3>6
    <3>. QED
      BY <3>1, <3>7, <3>8, <3>9 DEF WithinSector
  <2>9. Deployed(new) <= m
    <3>. DEFINE S == DOMAIN plan
                e == [i \in S |-> is(i)]
                f == [i \in S |-> was(i)]
    <3>1. Deployed(new) = SumFunction(e) /\ D = SumFunction(f)
      BY <2>5 DEF Deployed, PlanTotal, Sum, D
    <3>2. IsFiniteSet(S)
      BY <1>0, FS_Interval, LenProperties
    <3>3. DOMAIN e = S /\ DOMAIN f = S /\ \A i \in S : e[i] = is(i) /\ f[i] = was(i)
      OBVIOUS
    <3>. HIDE DEF S, e, f, was, is
    <3>4. \A i \in S : /\ e[i] \in Int /\ f[i] \in Int
                       /\ D * e[i] <= m * f[i] + (0 * f[i] + 0 * f[i])
      <4>. SUFFICES ASSUME NEW i \in S
                    PROVE  /\ e[i] \in Int /\ f[i] \in Int
                           /\ D * e[i] <= m * f[i] + (0 * f[i] + 0 * f[i])
        OBVIOUS
      <4>1. e[i] \in Nat /\ f[i] \in Nat /\ D * e[i] <= m * f[i]
        BY <2>6, <3>3 DEF S
      <4>. DEFINE v == m * f[i]
      <4>2. v \in Nat
        BY <1>1, <4>1
      <4>. HIDE DEF v
      <4>3. v = v + (0 * f[i] + 0 * f[i])
        BY <4>1, <4>2
      <4>. QED
        BY <4>1, <4>3 DEF v
    <3>5. D * SumFunction(e) <= m * SumFunction(f) + (0 * SumFunction(f) + 0 * SumFunction(f))
      <4>1. D \in Int /\ m \in Int /\ 0 \in Int
        BY <1>1
      <4>. QED
        BY <3>2, <3>3, <3>4, <4>1, SumMix DEF Whole
    <3>6. SumFunction(e) \in Nat
      <4>1. new \in Seq(Target)
        BY <2>5 DEF Planned
      <4>. QED
        BY <3>1, <4>1, TotalsNat
    <3>. DEFINE E == SumFunction(e)
    <3>7. D * E <= m * D
      BY <1>1, <3>1, <3>5
    <3>8. E \in Nat /\ E = Deployed(new)
      BY <3>1, <3>6
    <3>. HIDE DEF E
    <3>9. E <= m
      <4>. SUFFICES ASSUME E >= m + 1 PROVE FALSE
        BY <1>1, <3>8
      <4>1. D * (m + 1) <= D * E
        BY <1>1, <3>8
      <4>2. D * (m + 1) = m * D + D
        BY <1>1
      <4>. DEFINE u == m * D
                  w == D * E
      <4>3. u \in Int /\ w \in Int /\ w <= u /\ u + D <= w
        BY <1>1, <3>7, <3>8, <4>1, <4>2
      <4>. HIDE DEF u, w
      <4>. QED
        BY <2>1, <4>3
    <3>. QED
      BY <3>8, <3>9
  <2>. QED
    BY <2>5, <2>7, <2>8, <2>9 DEF Kept, m, new
<1>. QED
  BY <1>2, <1>3

(* What allocate returns: nothing, or a plan that keeps its limits.           *)
LEMMA AllocateKeeps ==
  ASSUME Account, NEW order \in Seq(Signals), NEW capital \in Nat, NEW withheld
  PROVE  LET plan == Allocate(order, capital, withheld)
         IN plan = <<>> \/ Kept(plan, capital)
<1>. DEFINE sized == SizePositions(order, capital)
            turned == TurnoverLimited(sized, capital)
<1>1. /\ Planned(sized)
      /\ \A i \in DOMAIN sized : Capped(sized[i], capital)
      /\ \A x \in Range(SectorOf) : Worth(sized, x) <= Pct(Limits.sector, capital)
  BY SizeKeeps
<1>. HIDE DEF sized
<1>2. /\ Planned(turned)
      /\ \A i \in DOMAIN turned : turned[i].delta > 0 => Capped(turned[i], capital)
      /\ \A x \in Range(SectorOf) : WithinSector(turned, x, capital)
  BY <1>1, TurnoverKeeps
<1>. HIDE DEF turned
<1>3. Kept(CashFloored(turned, capital), capital)
  BY <1>2, FloorKeeps
<1>. QED
  BY <1>3 DEF Allocate, turned, sized

-----------------------------------------------------------------------------
(* What is held is worth no more than its part of a plan that has every name. *)

LEMMA ValueNat ==
  ASSUME Account
  PROVE  Value(held) \in Nat
<1>. DEFINE f == [s \in Symbols |-> held[s] * price[s]]
<1>1. IsFiniteSet(DOMAIN f)
  BY PortfolioAssumption
<1>2. \A s \in DOMAIN f : f[s] \in Nat
  BY DEF Account
<1>3. SumFunction(f) \in Nat
  <2>. HIDE DEF f
  <2>. QED
    BY <1>1, <1>2, SumNat
<1>. QED
  BY <1>3 DEF Value, Sum

LEMMA ValueCovered ==
  ASSUME Account, NEW plan, Planned(plan)
  PROVE  /\ Value(held) <= SumFunction([i \in DOMAIN plan |-> held[plan[i].symbol] * price[plan[i].symbol]])
         /\ SumFunction([i \in DOMAIN plan |-> held[plan[i].symbol] * price[plan[i].symbol]]) \in Int
<1>. DEFINE f == [s \in Symbols |-> held[s] * price[s]]
            e == [i \in DOMAIN plan |-> held[plan[i].symbol] * price[plan[i].symbol]]
            c == [i \in DOMAIN plan |-> plan[i].symbol]
<1>1. plan \in Seq(Target) /\ DOMAIN plan = 1..Len(plan) /\ Len(plan) \in Nat
  BY DEF Planned
<1>2. IsFiniteSet(DOMAIN plan)
  BY <1>1, FS_Interval
<1>3. \A i \in DOMAIN plan : plan[i].symbol \in Symbols
  BY <1>1, TargetAt
<1>4. IsFiniteSet(DOMAIN f) /\ IsFiniteSet(DOMAIN e)
  BY <1>2, PortfolioAssumption
<1>5. \A s \in Symbols : held[s] \in Nat /\ price[s] \in Nat /\ held[s] * price[s] \in Nat
  BY DEF Account
<1>6. \A s \in DOMAIN f : f[s] \in Nat
  BY <1>5
<1>7. \A i \in DOMAIN e : e[i] \in Nat /\ e[i] = f[c[i]]
  BY <1>3, <1>5
<1>8. \A s \in DOMAIN f : f[s] > 0 => \E i \in DOMAIN e : c[i] = s
  <2>. SUFFICES ASSUME NEW s \in Symbols, held[s] * price[s] > 0
                PROVE  \E i \in DOMAIN plan : plan[i].symbol = s
    OBVIOUS
  <2>1. held[s] > 0
    BY <1>5
  <2>. QED
    BY <2>1 DEF Planned
<1>9. SumFunction(f) <= SumFunction(e) /\ SumFunction(e) \in Int
  <2>1. Whole(f, DOMAIN f) /\ Whole(e, DOMAIN e)
    <3>1. Whole(f, DOMAIN f)
      BY <1>6 DEF Whole
    <3>2. Whole(e, DOMAIN e)
      <4>. HIDE DEF f, e, c
      <4>. QED
        BY <1>7 DEF Whole
    <3>. QED
      BY <3>1, <3>2
  <2>2. \A s \in DOMAIN f : 0 <= f[s]
    BY <1>6
  <2>3. \A i \in DOMAIN e : 0 <= e[i] /\ e[i] = f[c[i]]
    BY <1>7
  <2>. HIDE DEF f, e, c
  <2>. QED
    BY <1>4, <1>8, <2>1, <2>2, <2>3, SumCovers, SumInt
<1>. QED
  BY <1>9 DEF Value, Sum

(* What a plan adds and what is held are within what may be deployed.         *)
LEMMA AdditionsFit ==
  ASSUME Account, NEW capital \in Nat, NEW plan, Kept(plan, capital)
  PROVE  SumFunction([i \in DOMAIN plan |-> plan[i].delta * price[plan[i].symbol]]) + Value(held)
           <= Pct(100 - Limits.cash, capital)
<1>. DEFINE f == [i \in DOMAIN plan |-> plan[i].target * price[plan[i].symbol]]
            d == [i \in DOMAIN plan |-> plan[i].delta * price[plan[i].symbol]]
            e == [i \in DOMAIN plan |-> held[plan[i].symbol] * price[plan[i].symbol]]
<1>1. plan \in Seq(Target) /\ Planned(plan) /\ Deployed(plan) <= Pct(100 - Limits.cash, capital)
  BY DEF Kept, Planned
<1>2. IsFiniteSet(DOMAIN plan)
  <2>1. DOMAIN plan = 1..Len(plan) /\ Len(plan) \in Nat
    BY <1>1
  <2>. QED
    BY <2>1, FS_Interval
<1>3. ASSUME NEW i \in DOMAIN plan
      PROVE  d[i] \in Int /\ e[i] \in Int /\ f[i] = d[i] + e[i]
  <2>1. held[plan[i].symbol] \in Nat /\ price[plan[i].symbol] \in Nat
    BY <1>1, AccountAt
  <2>2. plan[i].target \in Nat /\ plan[i].delta \in Int
    BY <1>1, TargetAt
  <2>3. plan[i].delta = plan[i].target - held[plan[i].symbol]
    BY <1>1 DEF Planned
  <2>4. \A x, y, z, p \in Int : y = x - z => x * p = y * p + z * p
    OBVIOUS
  <2>. QED
    BY <2>1, <2>2, <2>3, <2>4
<1>4. SumFunction(f) = SumFunction(d) + SumFunction(e) /\ SumFunction(d) \in Int
  <2>1. Whole(d, DOMAIN f) /\ Whole(e, DOMAIN f) /\ \A x \in DOMAIN f : f[x] = d[x] + e[x]
    BY <1>3 DEF Whole
  <2>2. DOMAIN d = DOMAIN f /\ DOMAIN e = DOMAIN f /\ IsFiniteSet(DOMAIN f)
    BY <1>2
  <2>. HIDE DEF f, d, e
  <2>. QED
    BY <2>1, <2>2, SumParts, SumInt
<1>5. SumFunction(f) = Deployed(plan)
  BY DEF Deployed, PlanTotal, Sum
<1>6. Value(held) <= SumFunction(e) /\ SumFunction(e) \in Int
  BY <1>1, ValueCovered
<1>7. Value(held) \in Nat /\ Deployed(plan) \in Nat /\ Pct(100 - Limits.cash, capital) \in Nat
  BY <1>1, ValueNat, TotalsNat, PctNat, LimitsNat
<1>. HIDE DEF f, e
<1>8. SumFunction(d) + Value(held) <= Pct(100 - Limits.cash, capital)
  <2>. HIDE DEF d
  <2>. QED
    BY <1>1, <1>4, <1>5, <1>6, <1>7
<1>. QED
  BY <1>8

-----------------------------------------------------------------------------
(* The cycles                                                                *)

Items == Signals \cup Target

Submission ==
    [at : {"submit"}, kind : {"pipeline", "rebalance"}, plan : Seq(Items), todo : Seq(Items),
     signals : SUBSET Signals, book : [Symbols -> Nat], quoted : [Symbols -> Nat \ {0}],
     capital : Nat, given : Nat, avail : Nat, sent : Nat, committed : Nat, still : BOOLEAN]

(* What is committed and what is left make what the cycle was given; of a      *)
(* rebalance, what is left to submit is the end of its plan.                  *)
Rest(plan, todo) ==
    /\ plan \in Seq(Target) /\ todo \in Seq(Target)
    /\ Len(todo) <= Len(plan)
    /\ \A j \in DOMAIN todo : todo[j] = plan[Len(plan) - Len(todo) + j]

Consistent(c) ==
    /\ c \in Submission
    /\ c.committed + c.avail = c.given
    /\ c.kind = "pipeline" => c.todo \in Seq(Signals)
    /\ c.kind = "rebalance" => Rest(c.plan, c.todo)

(* What is left of a plan that only adds, at the prices it was made for, can   *)
(* be paid with the cash floor untouched.                                     *)
Ahead(plan, todo, quoted) ==
    [i \in (Len(plan) - Len(todo) + 1)..Len(plan) |-> plan[i].delta * quoted[plan[i].symbol]]

OnlyAdds(plan) == \A i \in DOMAIN plan : plan[i].delta >= 0

Paid(plan, todo, quoted, capital) ==
    cash + Pct(100 - Limits.cash, capital) >= capital + SumFunction(Ahead(plan, todo, quoted))

StillPaid(c) ==
    c.kind = "rebalance" /\ c.still /\ OnlyAdds(c.plan) =>
      price = c.quoted /\ Paid(c.plan, c.todo, c.quoted, c.capital)

Submitting(c) ==
    /\ Consistent(c)
    /\ c.kind = "rebalance" => Within(c.plan, c.quoted, c.book, c.capital)
    /\ StillPaid(c)

PortfolioInv ==
    /\ Account /\ cash \in Nat
    /\ cycle = Idle \/ Submitting(cycle)

LEMMA InvWithinCash == PortfolioInv => CommittedWithinCash
<1>. SUFFICES ASSUME PortfolioInv, cycle.at = "submit" PROVE cycle.committed <= cycle.given
  BY DEF CommittedWithinCash
<1>1. Consistent(cycle)
  BY DEF PortfolioInv, Submitting, Idle
<1>. QED
  BY <1>1 DEF Consistent, Submission

LEMMA InvWithinLimits == PortfolioInv => PlanWithinLimits
<1>. SUFFICES ASSUME PortfolioInv, cycle.at = "submit", cycle.kind = "rebalance"
              PROVE  Within(cycle.plan, cycle.quoted, cycle.book, cycle.capital)
  BY DEF PlanWithinLimits
<1>. QED
  BY DEF PortfolioInv, Submitting, Idle

LEMMA AheadNat ==
  ASSUME NEW plan, NEW todo, Rest(plan, todo), OnlyAdds(plan), NEW quoted \in [Symbols -> Nat \ {0}]
  PROVE  LET f == Ahead(plan, todo, quoted)
         IN IsFiniteSet(DOMAIN f) /\ (\A i \in DOMAIN f : f[i] \in Nat) /\ SumFunction(f) \in Nat
<1>. DEFINE f == Ahead(plan, todo, quoted)
<1>1. plan \in Seq(Target) /\ Len(plan) \in Nat /\ Len(todo) \in Nat /\ Len(todo) <= Len(plan)
      /\ DOMAIN plan = 1..Len(plan)
  BY DEF Rest
<1>2. DOMAIN f = (Len(plan) - Len(todo) + 1)..Len(plan)
      /\ \A i \in DOMAIN f : f[i] = plan[i].delta * quoted[plan[i].symbol]
  BY DEF Ahead
<1>. HIDE DEF f
<1>3. IsFiniteSet(DOMAIN f)
  <2>1. Len(plan) - Len(todo) + 1 \in Int /\ Len(plan) \in Int
    BY <1>1
  <2>. QED
    BY <1>2, <2>1, FS_Interval
<1>4. ASSUME NEW i \in DOMAIN f PROVE f[i] \in Nat
  <2>1. i \in DOMAIN plan
    BY <1>1, <1>2
  <2>2. plan[i].delta \in Nat
    BY <1>1, <2>1, TargetAt DEF OnlyAdds
  <2>3. quoted[plan[i].symbol] \in Nat
    BY <1>1, <2>1, TargetAt
  <2>. QED
    BY <1>2, <2>2, <2>3
<1>. QED
  BY <1>3, <1>4, SumNat DEF f

LEMMA InvFloor == PortfolioInv => FloorHolds
<1>. SUFFICES ASSUME PortfolioInv, cycle.at = "submit", cycle.kind = "rebalance", cycle.still,
                     \A i \in DOMAIN cycle.plan : cycle.plan[i].delta >= 0
              PROVE  cash >= cycle.capital - Pct(100 - Limits.cash, cycle.capital)
  BY DEF FloorHolds
<1>1. Submitting(cycle) /\ cash \in Nat
  BY DEF PortfolioInv, Idle
<1>2. Paid(cycle.plan, cycle.todo, cycle.quoted, cycle.capital) /\ OnlyAdds(cycle.plan)
  BY <1>1 DEF Submitting, StillPaid, OnlyAdds
<1>3. Rest(cycle.plan, cycle.todo) /\ cycle.quoted \in [Symbols -> Nat \ {0}] /\ cycle.capital \in Nat
  BY <1>1 DEF Submitting, Consistent, Submission
<1>4. SumFunction(Ahead(cycle.plan, cycle.todo, cycle.quoted)) \in Nat
  BY <1>2, <1>3, AheadNat
<1>5. Pct(100 - Limits.cash, cycle.capital) \in Nat
  BY <1>3, PctNat, LimitsNat
<1>. QED
  BY <1>1, <1>2, <1>3, <1>4, <1>5 DEF Paid

LEMMA InvInit == PortfolioInit => PortfolioInv
<1>. SUFFICES ASSUME PortfolioInit PROVE PortfolioInv
  OBVIOUS
<1>1. Cash0 \in Nat /\ Prices \subseteq Nat \ {0}
  BY PortfolioAssumption
<1>2. held \in [Symbols -> Nat] /\ price \in [Symbols -> Nat \ {0}] /\ cash \in Nat
  BY <1>1 DEF PortfolioInit, Empty
<1>. QED
  BY <1>2 DEF PortfolioInit, PortfolioInv, Account

(* A step of submission leaves what the cycle read and planned as it is, and   *)
(* takes the first of what is left.                                          *)
Follows(c, d) ==
    /\ d.kind = c.kind /\ d.plan = c.plan /\ d.book = c.book /\ d.quoted = c.quoted
    /\ d.capital = c.capital /\ d.still = c.still

LEMMA TodoTyped ==
  ASSUME Consistent(cycle), cycle.todo # <<>>
  PROVE  /\ cycle.todo \in Seq(Items) /\ Tail(cycle.todo) \in Seq(Items)
         /\ Len(cycle.todo) \in Nat /\ Len(Tail(cycle.todo)) = Len(cycle.todo) - 1
         /\ cycle.kind = "pipeline" => Tail(cycle.todo) \in Seq(Signals) /\ Head(cycle.todo) \in Signals
         /\ cycle.kind = "rebalance" =>
              /\ Rest(cycle.plan, Tail(cycle.todo))
              /\ Head(cycle.todo) \in Target
              /\ Head(cycle.todo) = cycle.plan[Len(cycle.plan) - Len(cycle.todo) + 1]
              /\ Len(cycle.plan) - Len(cycle.todo) + 1 \in DOMAIN cycle.plan
<1>. DEFINE todo == cycle.todo
            plan == cycle.plan
<1>1. /\ todo \in Seq(Items) /\ todo # <<>>
      /\ cycle.kind = "pipeline" => todo \in Seq(Signals)
      /\ cycle.kind = "rebalance" => Rest(plan, todo)
  BY DEF Consistent, Submission
<1>. HIDE DEF todo, plan
<1>2. todo \in Seq(Items) /\ Tail(todo) \in Seq(Items)
      /\ Len(todo) \in Nat /\ Len(Tail(todo)) = Len(todo) - 1 /\ Len(todo) > 0
  BY <1>1
<1>3. cycle.kind = "pipeline" => Tail(todo) \in Seq(Signals) /\ Head(todo) \in Signals
  BY <1>1
<1>4. ASSUME cycle.kind = "rebalance"
      PROVE  /\ Rest(plan, Tail(todo))
             /\ Head(todo) \in Target
             /\ Head(todo) = plan[Len(plan) - Len(todo) + 1]
             /\ Len(plan) - Len(todo) + 1 \in DOMAIN plan
  <2>1. plan \in Seq(Target) /\ todo \in Seq(Target) /\ Len(todo) <= Len(plan)
        /\ \A j \in DOMAIN todo : todo[j] = plan[Len(plan) - Len(todo) + j]
    BY <1>1, <1>4 DEF Rest
  <2>2. Tail(todo) \in Seq(Target) /\ Head(todo) \in Target /\ Head(todo) = todo[1]
        /\ \A j \in DOMAIN Tail(todo) : j \in Nat /\ j + 1 \in DOMAIN todo /\ Tail(todo)[j] = todo[j + 1]
    BY <1>1, <2>1
  <2>3. Len(plan) \in Nat /\ DOMAIN plan = 1..Len(plan) /\ DOMAIN todo = 1..Len(todo)
    BY <2>1
  <2>4. \A j \in DOMAIN Tail(todo) : Tail(todo)[j] = plan[Len(plan) - Len(Tail(todo)) + j]
    <3>. SUFFICES ASSUME NEW j \in DOMAIN Tail(todo)
                  PROVE  Tail(todo)[j] = plan[Len(plan) - Len(Tail(todo)) + j]
      OBVIOUS
    <3>1. Tail(todo)[j] = plan[Len(plan) - Len(todo) + (j + 1)] /\ j \in Nat
      BY <2>1, <2>2
    <3>2. Len(plan) - Len(todo) + (j + 1) = Len(plan) - Len(Tail(todo)) + j
      BY <1>2, <2>3, <3>1
    <3>. QED
      BY <3>1, <3>2
  <2>5. Rest(plan, Tail(todo))
    BY <1>2, <2>1, <2>2, <2>3, <2>4 DEF Rest
  <2>6. Head(todo) = plan[Len(plan) - Len(todo) + 1]
    BY <1>2, <2>1, <2>2, <2>3
  <2>. QED
    BY <1>2, <2>1, <2>2, <2>3, <2>5, <2>6
<1>. QED
  BY <1>2, <1>3, <1>4 DEF todo, plan

(* What is next is paid out of what is ahead.                                  *)
LEMMA AheadTail ==
  ASSUME Consistent(cycle), cycle.todo # <<>>, cycle.kind = "rebalance", OnlyAdds(cycle.plan)
  PROVE  LET t == Head(cycle.todo)
         IN /\ SumFunction(Ahead(cycle.plan, cycle.todo, cycle.quoted))
                 = SumFunction(Ahead(cycle.plan, Tail(cycle.todo), cycle.quoted))
                     + t.delta * cycle.quoted[t.symbol]
            /\ t.delta \in Nat
            /\ SumFunction(Ahead(cycle.plan, cycle.todo, cycle.quoted)) \in Nat
            /\ SumFunction(Ahead(cycle.plan, Tail(cycle.todo), cycle.quoted)) \in Nat
<1>. DEFINE todo == cycle.todo
            plan == cycle.plan
            quoted == cycle.quoted
            k == Len(plan) - Len(todo) + 1
            f == Ahead(plan, Tail(todo), quoted)
            e == Ahead(plan, todo, quoted)
<1>1. quoted \in [Symbols -> Nat \ {0}] /\ Rest(plan, todo)
  BY DEF Consistent, Submission
<1>2. /\ Rest(plan, Tail(todo)) /\ Head(todo) = plan[k] /\ k \in DOMAIN plan
      /\ Len(todo) \in Nat /\ Len(Tail(todo)) = Len(todo) - 1
  BY TodoTyped
<1>3. plan \in Seq(Target) /\ Len(plan) \in Nat /\ DOMAIN plan = 1..Len(plan) /\ Len(todo) <= Len(plan)
  BY <1>1 DEF Rest
<1>4. IsFiniteSet(DOMAIN f) /\ SumFunction(f) \in Nat
  BY <1>1, <1>2, AheadNat
<1>5. IsFiniteSet(DOMAIN e) /\ SumFunction(e) \in Nat /\ \A i \in DOMAIN e : e[i] \in Nat
  BY <1>1, AheadNat
<1>6. /\ DOMAIN f = (k + 1)..Len(plan) /\ DOMAIN e = k..Len(plan)
      /\ \A i \in DOMAIN f : f[i] = plan[i].delta * quoted[plan[i].symbol]
      /\ \A i \in DOMAIN e : e[i] = plan[i].delta * quoted[plan[i].symbol]
  <2>1. Len(plan) - Len(Tail(todo)) + 1 = k + 1
    <3>1. \A a, b \in Nat, c \in Int : c = b - 1 => a - c + 1 = (a - b + 1) + 1
      OBVIOUS
    <3>. DEFINE rest == Len(Tail(todo))
    <3>2. rest = Len(todo) - 1
      BY <1>2
    <3>. HIDE DEF plan, todo, rest
    <3>3. Len(plan) - rest + 1 = k + 1
      BY <1>2, <1>3, <3>1, <3>2
    <3>. QED
      BY <3>3 DEF rest
  <2>. QED
    BY <2>1 DEF Ahead
<1>7. k \in Nat /\ k <= Len(plan)
  BY <1>2, <1>3
<1>. HIDE DEF k, f, e, plan, todo, quoted
<1>8. k \notin DOMAIN f /\ DOMAIN e = DOMAIN f \cup {k}
  BY <1>3, <1>6, <1>7
<1>9. SumFunction(e) = SumFunction(f) + e[k]
  <2>1. Whole(e, DOMAIN e)
    BY <1>5 DEF Whole
  <2>2. \A i \in DOMAIN f : e[i] = f[i]
    BY <1>6, <1>8
  <2>. QED
    BY <1>4, <1>8, <2>1, <2>2, SumGrows
<1>10. e[k] = plan[k].delta * quoted[plan[k].symbol]
  BY <1>6, <1>8
<1>11. plan[k].delta \in Nat
  <2>1. plan[k].delta >= 0
    BY <1>2 DEF OnlyAdds, plan
  <2>. QED
    BY <1>2, <1>3, <2>1, TargetAt
<1>12. /\ SumFunction(e) = SumFunction(f) + Head(todo).delta * quoted[Head(todo).symbol]
       /\ Head(todo).delta \in Nat
  BY <1>2, <1>9, <1>10, <1>11
<1>. QED
  BY <1>4, <1>5, <1>12 DEF f, e, plan, todo, quoted

-----------------------------------------------------------------------------
(* The steps of a cycle                                                      *)

(* A fill, whole, in part or none, leaves whole shares and spends at most what *)
(* the order is worth.                                                       *)
LEMMA FillKeeps ==
  ASSUME Account, cash \in Nat, NEW symbol \in Symbols, NEW side \in {"BUY", "SELL"},
         NEW qty \in Nat, Fill(symbol, side, qty)
  PROVE  /\ held' \in [Symbols -> Nat] /\ cash' \in Nat
         /\ cash' >= cash - qty * price[symbol]
<1>1. PICK f \in 0..qty :
        LET shares == IF side = "BUY" THEN f ELSE -f
        IN /\ f * price[symbol] <= cash \/ side = "SELL"
           /\ held[symbol] + shares >= 0
           /\ held' = [held EXCEPT ![symbol] = @ + shares]
           /\ cash' = cash - shares * price[symbol]
  BY DEF Fill
<1>2. held \in [Symbols -> Nat] /\ price[symbol] \in Nat
  BY DEF Account
<1>. DEFINE shares == IF side = "BUY" THEN f ELSE -f
            p == price[symbol]
<1>3. held' \in [Symbols -> Nat]
  <2>1. held[symbol] + shares \in Nat
    BY <1>1, <1>2
  <2>. HIDE DEF shares
  <2>2. held' = [held EXCEPT ![symbol] = held[symbol] + shares]
    BY <1>1, <1>2 DEF shares
  <2>. QED
    BY <1>2, <2>1, <2>2
<1>4. cash' \in Nat /\ cash' >= cash - qty * p
  <2>1. cash' = cash - shares * p /\ (f * p <= cash \/ side = "SELL") /\ p \in Nat /\ f \in Nat /\ f <= qty
    BY <1>1, <1>2
  <2>2. \A a, b, c \in Nat : a <= b => a * c <= b * c /\ a * c \in Nat /\ b * c \in Nat
    OBVIOUS
  <2>3. f * p <= qty * p /\ f * p \in Nat /\ qty * p \in Nat
    <3>. HIDE DEF p
    <3>. QED
      BY <2>1, <2>2
  <2>4. shares * p = f * p \/ (side = "SELL" /\ shares * p = -(f * p))
    <3>. HIDE DEF p
    <3>1. CASE side = "BUY"
      BY <3>1
    <3>2. CASE side = "SELL"
      <4>1. \A a, c \in Nat : (-a) * c = -(a * c)
        OBVIOUS
      <4>. QED
        BY <2>1, <3>2, <4>1
    <3>. QED
      BY <3>1, <3>2
  <2>5. CASE shares * p = f * p
    <3>1. f * p <= cash
      <4>1. CASE side = "BUY"
        BY <2>1, <4>1
      <4>2. CASE side = "SELL"
        <5>1. shares * p = -(f * p)
          <6>1. \A a, c \in Nat : (-a) * c = -(a * c)
            OBVIOUS
          <6>. HIDE DEF p
          <6>. QED
            BY <2>1, <4>2, <6>1
        <5>. HIDE DEF shares, p
        <5>. QED
          BY <2>3, <2>5, <5>1
      <4>. QED
        BY <4>1, <4>2
    <3>. HIDE DEF shares, p
    <3>. QED
      BY <2>1, <2>3, <2>5, <3>1
  <2>6. CASE shares * p = -(f * p)
    <3>. HIDE DEF shares, p
    <3>. QED
      BY <2>1, <2>3, <2>6
  <2>. HIDE DEF shares, p
  <2>. QED
    BY <2>4, <2>5, <2>6
<1>. QED
  BY <1>3, <1>4

LEMMA PassedKeeps ==
  ASSUME Consistent(cycle), cycle.todo # <<>>
  PROVE  Consistent(Passed) /\ Follows(cycle, Passed) /\ Passed.todo = Tail(cycle.todo)
<1>1. /\ Tail(cycle.todo) \in Seq(Items)
      /\ cycle.kind = "pipeline" => Tail(cycle.todo) \in Seq(Signals)
      /\ cycle.kind = "rebalance" => Rest(cycle.plan, Tail(cycle.todo))
  BY TodoTyped
<1>2. cycle \in Submission
  BY DEF Consistent
<1>3. Passed \in Submission /\ Follows(cycle, Passed) /\ Passed.todo = Tail(cycle.todo)
      /\ Passed.committed = cycle.committed /\ Passed.avail = cycle.avail /\ Passed.given = cycle.given
  BY <1>1, <1>2 DEF Passed, Submission, Follows
<1>. QED
  BY <1>1, <1>3 DEF Consistent, Follows

LEMMA SubmittedKeeps ==
  ASSUME Consistent(cycle), cycle.todo # <<>>, NEW symbol \in Symbols, NEW qty \in Nat,
         CapitalAvailable(symbol, qty)
  PROVE  LET d == Submitted(qty, symbol)
         IN Consistent(d) /\ Follows(cycle, d) /\ d.todo = Tail(cycle.todo)
<1>. DEFINE d == Submitted(qty, symbol)
            cost == qty * cycle.quoted[symbol]
            rest == Tail(cycle.todo)
<1>1. /\ rest \in Seq(Items)
      /\ cycle.kind = "pipeline" => rest \in Seq(Signals)
      /\ cycle.kind = "rebalance" => Rest(cycle.plan, rest)
  BY TodoTyped
<1>2. cycle \in Submission /\ cycle.committed + cycle.avail = cycle.given
  BY DEF Consistent
<1>3. cycle.quoted[symbol] \in Nat /\ cycle.avail \in Nat /\ cycle.committed \in Nat /\ cycle.sent \in Nat
  BY <1>2 DEF Submission
<1>4. cost \in Nat /\ cost <= cycle.avail
  BY <1>3 DEF CapitalAvailable
<1>5. AtLeastZero(cycle.avail - cost) = cycle.avail - cost
  <2>. HIDE DEF cost
  <2>. QED
    BY <1>3, <1>4 DEF AtLeastZero
<1>6. d = [cycle EXCEPT !.todo = rest, !.sent = cycle.sent + 1, !.committed = cycle.committed + cost,
                        !.avail = cycle.avail - cost]
  BY <1>5 DEF Submitted
<1>. HIDE DEF d, cost, rest
<1>7. cycle.committed + cost \in Nat /\ cycle.avail - cost \in Nat /\ cycle.sent + 1 \in Nat
      /\ (cycle.committed + cost) + (cycle.avail - cost) = cycle.given
  BY <1>2, <1>3, <1>4
<1>8. d \in Submission /\ Follows(cycle, d) /\ d.todo = rest /\ d.given = cycle.given
      /\ d.committed = cycle.committed + cost /\ d.avail = cycle.avail - cost
  BY <1>1, <1>2, <1>6, <1>7 DEF Submission, Follows
<1>9. Consistent(d)
  BY <1>1, <1>7, <1>8 DEF Consistent, Follows
<1>. QED
  BY <1>8, <1>9 DEF d, rest

LEMMA SubmitKeeps ==
  ASSUME Account, cash \in Nat, Consistent(cycle), cycle.todo # <<>>,
         NEW sig \in Signals, NEW qty \in Nat, SubmitSignal(sig, qty)
  PROVE  /\ held' \in [Symbols -> Nat] /\ cash' \in Nat
         /\ Consistent(cycle') /\ Follows(cycle, cycle') /\ cycle'.todo = Tail(cycle.todo)
         /\ cash' >= cash - qty * price[sig.symbol]
<1>1. sig.symbol \in Symbols /\ price[sig.symbol] \in Nat
  BY DEF Signals, Account
<1>2. CASE cycle' = Passed /\ UNCHANGED <<held, cash>>
  <2>1. cash >= cash - qty * price[sig.symbol]
    <3>1. \A a, b, c \in Nat : a >= a - b * c
      OBVIOUS
    <3>. QED
      BY <1>1, <3>1
  <2>. QED
    BY <1>2, <2>1, PassedKeeps DEF Account
<1>3. ASSUME GatesPass(sig.symbol, IF sig.direction = "EXIT" THEN "SELL" ELSE "BUY", qty),
             cycle' = Submitted(qty, sig.symbol),
             Fill(sig.symbol, IF sig.direction = "EXIT" THEN "SELL" ELSE "BUY", qty)
      PROVE  /\ held' \in [Symbols -> Nat] /\ cash' \in Nat
             /\ Consistent(cycle') /\ Follows(cycle, cycle') /\ cycle'.todo = Tail(cycle.todo)
             /\ cash' >= cash - qty * price[sig.symbol]
  <2>1. CapitalAvailable(sig.symbol, qty)
    BY <1>3 DEF GatesPass
  <2>2. Consistent(cycle') /\ Follows(cycle, cycle') /\ cycle'.todo = Tail(cycle.todo)
    BY <1>1, <1>3, <2>1, SubmittedKeeps
  <2>3. held' \in [Symbols -> Nat] /\ cash' \in Nat /\ cash' >= cash - qty * price[sig.symbol]
    BY <1>1, <1>3, FillKeeps
  <2>. QED
    BY <2>2, <2>3
<1>. QED
  BY <1>2, <1>3 DEF SubmitSignal

LEMMA SizedNat ==
  ASSUME Consistent(cycle), NEW sig \in Signals
  PROVE  Sized(sig) \in Nat
<1>1. cycle.avail \in Nat /\ cycle.quoted[sig.symbol] \in Nat \ {0} /\ sig.stamped \in Nat
  <2>1. sig.symbol \in Symbols /\ sig.stamped \in Nat
    BY DEF Signals
  <2>2. cycle.avail \in Nat /\ cycle.quoted \in [Symbols -> Nat \ {0}]
    BY DEF Consistent, Submission
  <2>. QED
    BY <2>1, <2>2
<1>2. Pct(sig.stamped, cycle.avail) \in Nat
  BY <1>1, PctNat
<1>3. Pct(sig.stamped, cycle.avail) \div cycle.quoted[sig.symbol] \in Nat
  BY <1>1, <1>2, DivBounds
<1>. QED
  BY <1>3 DEF Sized

(* A step that follows the plan keeps its promises, when what it spends was    *)
(* ahead.                                                                    *)
LEMMA FollowingKeeps ==
  ASSUME PortfolioInv, cycle # Idle, price' = price,
         held' \in [Symbols -> Nat], cash' \in Nat, Consistent(cycle'), Follows(cycle, cycle'),
         cycle.kind = "rebalance" /\ cycle.still /\ OnlyAdds(cycle.plan) /\ price = cycle.quoted =>
           cash' + SumFunction(Ahead(cycle.plan, cycle.todo, cycle.quoted))
             >= cash + SumFunction(Ahead(cycle.plan, cycle'.todo, cycle.quoted))
  PROVE  PortfolioInv'
<1>1. Submitting(cycle) /\ Account /\ cash \in Nat
  BY DEF PortfolioInv
<1>2. /\ cycle'.kind = cycle.kind /\ cycle'.plan = cycle.plan /\ cycle'.book = cycle.book
      /\ cycle'.quoted = cycle.quoted /\ cycle'.capital = cycle.capital /\ cycle'.still = cycle.still
  BY DEF Follows
<1>3. cycle'.kind = "rebalance" => Within(cycle'.plan, cycle'.quoted, cycle'.book, cycle'.capital)
  BY <1>1, <1>2 DEF Submitting
<1>4. ASSUME cycle'.kind = "rebalance" /\ cycle'.still /\ OnlyAdds(cycle'.plan)
      PROVE  /\ price' = cycle'.quoted
             /\ cash' + Pct(100 - Limits.cash, cycle'.capital)
                  >= cycle'.capital + SumFunction(Ahead(cycle'.plan, cycle'.todo, cycle'.quoted))
  <2>. DEFINE before == SumFunction(Ahead(cycle.plan, cycle.todo, cycle.quoted))
              after == SumFunction(Ahead(cycle.plan, cycle'.todo, cycle.quoted))
              most == Pct(100 - Limits.cash, cycle.capital)
  <2>1. cycle.kind = "rebalance" /\ cycle.still /\ OnlyAdds(cycle.plan)
    BY <1>2, <1>4
  <2>2. price = cycle.quoted /\ cash + most >= cycle.capital + before
    BY <1>1, <2>1 DEF Submitting, StillPaid, Paid
  <2>3. cash' + before >= cash + after
    BY <2>1, <2>2
  <2>4. /\ Rest(cycle.plan, cycle.todo) /\ Rest(cycle.plan, cycle'.todo)
        /\ cycle.quoted \in [Symbols -> Nat \ {0}] /\ cycle.capital \in Nat
    BY <1>1, <1>2, <2>1 DEF Submitting, Consistent, Submission
  <2>5. before \in Nat /\ after \in Nat
    BY <2>1, <2>4, AheadNat
  <2>6. most \in Nat
    BY <2>4, PctNat, LimitsNat
  <2>. HIDE DEF before, after, most
  <2>7. cash' + most >= cycle.capital + after
    <3>1. \A a, b, m, k, x, y \in Nat : a + m >= k + x /\ b + x >= a + y => b + m >= k + y
      OBVIOUS
    <3>2. cash \in Nat /\ cash' \in Nat /\ cycle.capital \in Nat
      BY <1>1, <2>4
    <3>. QED
      BY ONLY <2>2, <2>3, <2>5, <2>6, <3>1, <3>2
  <2>. QED
    BY <1>2, <2>2, <2>7 DEF after, most
<1>5. Account'
  BY <1>1 DEF Account
<1>6. StillPaid(cycle)'
  BY <1>4 DEF StillPaid, Paid, OnlyAdds, Ahead
<1>7. Consistent(cycle)'
  BY DEF Consistent, Rest
<1>8. (cycle.kind = "rebalance" => Within(cycle.plan, cycle.quoted, cycle.book, cycle.capital))'
  BY <1>3 DEF Within, Sum
<1>9. Submitting(cycle)'
  BY <1>6, <1>7, <1>8 DEF Submitting
<1>. QED
  BY <1>5, <1>9 DEF PortfolioInv

LEMMA ProposeKeeps ==
  ASSUME PortfolioInv, Propose
  PROVE  PortfolioInv'
<1>1. cycle # Idle /\ cycle.kind = "pipeline" /\ cycle.todo # <<>> /\ price' = price
  BY DEF Propose, Running, Idle
<1>2. Account /\ cash \in Nat /\ Consistent(cycle)
  BY <1>1 DEF PortfolioInv, Submitting
<1>. DEFINE sig == Head(cycle.todo)
<1>3. sig \in Signals
  BY <1>1, <1>2, TodoTyped
<1>4. Sized(sig) \in Nat
  BY <1>2, <1>3, SizedNat
<1>5. CASE cycle' = [cycle EXCEPT !.todo = <<>>] /\ UNCHANGED <<held, cash>>
  <2>1. cycle \in Submission
    BY <1>2 DEF Consistent
  <2>2. cycle' \in Submission /\ Follows(cycle, cycle') /\ cycle'.committed = cycle.committed
        /\ cycle'.avail = cycle.avail /\ cycle'.given = cycle.given /\ cycle'.todo = <<>>
    <3>1. <<>> \in Seq(Items)
      OBVIOUS
    <3>. QED
      BY <1>5, <2>1, <3>1 DEF Submission, Follows
  <2>3. Consistent(cycle')
    BY <1>1, <1>2, <2>2 DEF Consistent, Follows
  <2>4. held' \in [Symbols -> Nat] /\ cash' \in Nat
    BY <1>2, <1>5 DEF Account
  <2>. QED
    BY <1>1, <2>2, <2>3, <2>4, FollowingKeeps
<1>6. CASE cycle' = Passed /\ UNCHANGED <<held, cash>>
  <2>1. Consistent(cycle') /\ Follows(cycle, cycle')
    BY <1>1, <1>2, <1>6, PassedKeeps
  <2>2. held' \in [Symbols -> Nat] /\ cash' \in Nat
    BY <1>2, <1>6 DEF Account
  <2>. QED
    BY <1>1, <2>1, <2>2, FollowingKeeps
<1>7. CASE SubmitSignal(sig, Sized(sig))
  <2>1. /\ held' \in [Symbols -> Nat] /\ cash' \in Nat
        /\ Consistent(cycle') /\ Follows(cycle, cycle')
    BY <1>1, <1>2, <1>3, <1>4, <1>7, SubmitKeeps
  <2>. QED
    BY <1>1, <2>1, FollowingKeeps
<1>. QED
  BY <1>5, <1>6, <1>7 DEF Propose

LEMMA SubmitTargetKeeps ==
  ASSUME PortfolioInv, SubmitTarget
  PROVE  PortfolioInv'
<1>1. cycle # Idle /\ cycle.kind = "rebalance" /\ cycle.todo # <<>> /\ price' = price
  BY DEF SubmitTarget, Running, Idle
<1>2. Account /\ cash \in Nat /\ Consistent(cycle)
  BY <1>1 DEF PortfolioInv, Submitting
<1>. DEFINE t == Head(cycle.todo)
            now == SumFunction(Ahead(cycle.plan, cycle.todo, cycle.quoted))
            next == SumFunction(Ahead(cycle.plan, Tail(cycle.todo), cycle.quoted))
<1>3. t \in Target
  BY <1>1, <1>2, TodoTyped
<1>4. t.delta \in Int /\ t.symbol \in Symbols
  BY <1>3 DEF Target
<1>5. price[t.symbol] \in Nat
  BY <1>2, <1>4 DEF Account
<1>6. ASSUME OnlyAdds(cycle.plan), price = cycle.quoted
      PROVE  now = next + t.delta * price[t.symbol] /\ t.delta \in Nat /\ now \in Nat /\ next \in Nat
  BY <1>1, <1>2, <1>6, AheadTail
<1>7. CASE cycle' = Passed /\ UNCHANGED <<held, cash>>
  <2>1. Consistent(cycle') /\ Follows(cycle, cycle') /\ cycle'.todo = Tail(cycle.todo)
    BY <1>1, <1>2, <1>7, PassedKeeps
  <2>2. held' \in [Symbols -> Nat] /\ cash' \in Nat
    BY <1>2, <1>7 DEF Account
  <2>3. ASSUME OnlyAdds(cycle.plan), price = cycle.quoted
        PROVE  cash' + now >= cash + next
    <3>1. now = next + t.delta * price[t.symbol] /\ t.delta \in Nat /\ now \in Nat /\ next \in Nat
      BY <1>6, <2>3
    <3>2. \A a, b \in Nat : a * b \in Nat
      OBVIOUS
    <3>3. now >= next
      <4>. DEFINE cost == t.delta * price[t.symbol]
      <4>1. cost \in Nat
        BY <1>5, <3>1, <3>2
      <4>. HIDE DEF cost, now, next
      <4>. QED
        BY <3>1, <4>1 DEF cost
    <3>. HIDE DEF now, next
    <3>. QED
      BY <1>2, <1>7, <3>1, <3>3
  <2>. QED
    BY <1>1, <2>1, <2>2, <2>3, FollowingKeeps
<1>8. ASSUME NEW s \in cycle.signals, s.symbol = t.symbol, SubmitSignal(s, Magnitude(t.delta))
      PROVE  PortfolioInv'
  <2>1. s \in Signals
    BY <1>2, <1>8 DEF Consistent, Submission
  <2>2. Magnitude(t.delta) \in Nat /\ (t.delta >= 0 => Magnitude(t.delta) = t.delta)
    BY <1>4 DEF Magnitude
  <2>3. /\ held' \in [Symbols -> Nat] /\ cash' \in Nat
        /\ Consistent(cycle') /\ Follows(cycle, cycle') /\ cycle'.todo = Tail(cycle.todo)
        /\ cash' >= cash - Magnitude(t.delta) * price[t.symbol]
    BY <1>1, <1>2, <1>8, <2>1, <2>2, SubmitKeeps
  <2>4. ASSUME OnlyAdds(cycle.plan), price = cycle.quoted
        PROVE  cash' + now >= cash + next
    <3>1. now = next + t.delta * price[t.symbol] /\ t.delta \in Nat /\ now \in Nat /\ next \in Nat
      BY <1>6, <2>4
    <3>2. Magnitude(t.delta) = t.delta
      BY <2>2, <3>1
    <3>. DEFINE cost == t.delta * price[t.symbol]
    <3>3. cash' >= cash - cost /\ cost \in Int
      <4>1. \A a, b \in Nat : a * b \in Int
        OBVIOUS
      <4>. QED
        BY <1>5, <2>3, <3>1, <3>2, <4>1
    <3>. HIDE DEF now, next, cost
    <3>4. now = next + cost
      BY <3>1 DEF cost
    <3>. QED
      BY <1>2, <2>3, <3>1, <3>3, <3>4
  <2>. QED
    BY <1>1, <2>3, <2>4, FollowingKeeps
<1>. QED
  BY <1>7, <1>8 DEF SubmitTarget

(* A plan that keeps its limits keeps them as the cycle records them.          *)
LEMMA KeptWithin ==
  ASSUME NEW capital, NEW plan, Kept(plan, capital)
  PROVE  Within(plan, price, held, capital)
BY DEF Kept, Within, Capped, WithinSector, Worth, Had, Shares, InSector, Deployed, PlanTotal, Sum

(* A cycle that begins with the account as it is.                              *)
LEMMA BeginKeeps ==
  ASSUME PortfolioInv, UNCHANGED <<held, cash, price>>, NEW kind \in {"pipeline", "rebalance"},
         NEW plan \in Seq(Items), NEW signals \in SUBSET Signals, NEW was \in [Symbols -> Nat],
         NEW capital \in Nat, cycle' = Began(kind, plan, signals, was, capital),
         kind = "pipeline" => plan \in Seq(Signals),
         kind = "rebalance" => plan \in Seq(Target) /\ Within(plan, price, was, capital),
         kind = "rebalance" /\ OnlyAdds(plan) => Paid(plan, plan, price, capital)
  PROVE  PortfolioInv'
<1>1. Account /\ cash \in Nat
  BY DEF PortfolioInv
<1>2. price \in [Symbols -> Nat \ {0}]
  BY <1>1 DEF Account
<1>3. /\ cycle'.kind = kind /\ cycle'.plan = plan /\ cycle'.todo = plan /\ cycle'.book = was
      /\ cycle'.quoted = price /\ cycle'.capital = capital /\ cycle'.given = cash /\ cycle'.avail = cash
      /\ cycle'.committed = 0
  BY DEF Began
<1>4. cycle' \in Submission
  BY <1>1, <1>2 DEF Began, Submission
<1>5. kind = "rebalance" => Rest(plan, plan)
  <2>. SUFFICES ASSUME kind = "rebalance" PROVE Rest(plan, plan)
    OBVIOUS
  <2>1. plan \in Seq(Target) /\ Len(plan) \in Nat /\ DOMAIN plan = 1..Len(plan)
    OBVIOUS
  <2>2. \A n \in Nat : \A j \in 1..n : n <= n /\ n - n + j = j
    OBVIOUS
  <2>. QED
    BY <2>1, <2>2 DEF Rest
<1>6. Consistent(cycle')
  BY <1>1, <1>3, <1>4, <1>5 DEF Consistent
<1>7. Consistent(cycle)'
  BY <1>6 DEF Consistent, Rest
<1>8. (cycle.kind = "rebalance" => Within(cycle.plan, cycle.quoted, cycle.book, cycle.capital))'
  <2>1. cycle'.kind = "rebalance" => Within(cycle'.plan, cycle'.quoted, cycle'.book, cycle'.capital)
    BY <1>3
  <2>. QED
    BY <2>1 DEF Within, Sum
<1>9. StillPaid(cycle)'
  <2>. SUFFICES ASSUME cycle'.kind = "rebalance" /\ cycle'.still /\ OnlyAdds(cycle'.plan)
                PROVE  /\ price' = cycle'.quoted
                       /\ cash' + Pct(100 - Limits.cash, cycle'.capital)
                            >= cycle'.capital + SumFunction(Ahead(cycle'.plan, cycle'.todo, cycle'.quoted))
    BY DEF StillPaid, Paid, OnlyAdds, Ahead
  <2>1. Paid(plan, plan, price, capital)
    BY <1>3
  <2>. QED
    BY <1>3, <2>1 DEF Paid
<1>10. Submitting(cycle)'
  BY <1>7, <1>8, <1>9 DEF Submitting
<1>11. Account'
  BY <1>1 DEF Account
<1>. QED
  BY <1>1, <1>10, <1>11 DEF PortfolioInv

LEMMA RunCycleKeeps ==
  ASSUME PortfolioInv, NEW signals \in Proposals, RunCycle(signals)
  PROVE  PortfolioInv'
<1>1. signals \subseteq Signals /\ IsFiniteSet(signals)
  BY PortfolioAssumption
<1>2. PICK order \in SetToSeqs(signals) :
        cycle' = Began("pipeline", order, signals, Empty, cash + Value(held))
  BY DEF RunCycle, StrongestFirst
<1>3. order \in Seq(Signals) /\ order \in Seq(Items)
  <2>1. order \in Seq(signals)
    BY <1>1, <1>2, OrdersTyped
  <2>. QED
    BY <1>1, <2>1 DEF Items
<1>4. cash + Value(held) \in Nat /\ Empty \in [Symbols -> Nat]
  BY ValueNat DEF PortfolioInv, Empty
<1>5. UNCHANGED <<held, cash, price>>
  BY DEF RunCycle
<1>. QED
  BY <1>1, <1>2, <1>3, <1>4, <1>5, BeginKeeps

LEMMA RebalanceKeeps ==
  ASSUME PortfolioInv, NEW signals \in Proposals, NEW withheld \in BOOLEAN, Rebalance(signals, withheld)
  PROVE  PortfolioInv'
<1>. DEFINE capital == cash + Value(held)
<1>1. signals \subseteq Signals /\ IsFiniteSet(Usable(signals)) /\ Usable(signals) \subseteq signals
  <2>1. signals \subseteq Signals /\ IsFiniteSet(signals)
    BY PortfolioAssumption
  <2>2. Usable(signals) \subseteq signals
    BY DEF Usable
  <2>. QED
    BY <2>1, <2>2, FS_Subset
<1>2. PICK order \in SetToSeqs(Usable(signals)) :
        LET plan == Allocate(order, capital, withheld)
        IN cycle' = IF \A i \in DOMAIN plan : plan[i].delta = 0 THEN Idle
                    ELSE Began("rebalance", plan, signals, held, capital)
  BY DEF Rebalance, Ranked
<1>3. order \in Seq(Signals)
  <2>1. order \in Seq(Usable(signals))
    BY <1>1, <1>2, OrdersTyped
  <2>. QED
    BY <1>1, <2>1
<1>4. Account /\ cash \in Nat /\ Value(held) \in Nat /\ capital \in Nat
  BY ValueNat DEF PortfolioInv
<1>5. UNCHANGED <<held, cash, price>>
  BY DEF Rebalance
<1>. DEFINE plan == Allocate(order, capital, withheld)
<1>6. CASE cycle' = Idle
  BY <1>4, <1>5, <1>6 DEF PortfolioInv, Account, Idle
<1>7. ASSUME cycle' = Began("rebalance", plan, signals, held, capital), plan # <<>>
      PROVE  PortfolioInv'
  <2>1. Kept(plan, capital)
    BY <1>3, <1>4, <1>7, AllocateKeeps
  <2>. DEFINE most == Pct(100 - Limits.cash, capital)
              f == [i \in DOMAIN plan |-> plan[i].delta * price[plan[i].symbol]]
  <2>2. plan \in Seq(Target) /\ plan \in Seq(Items)
    <3>1. plan \in Seq(Target)
      BY <2>1 DEF Kept, Planned
    <3>. HIDE DEF plan
    <3>. QED
      BY <3>1 DEF Items
  <2>3. Within(plan, price, held, capital)
    BY <2>1, KeptWithin
  <2>4. SumFunction(f) + Value(held) <= most
    <3>. HIDE DEF plan, capital
    <3>. QED
      BY <1>4, <2>1, AdditionsFit
  <2>5. OnlyAdds(plan) => Paid(plan, plan, price, capital)
    <3>. SUFFICES ASSUME OnlyAdds(plan) PROVE Paid(plan, plan, price, capital)
      OBVIOUS
    <3>1. Ahead(plan, plan, price) = f
      <4>. HIDE DEF plan
      <4>1. Len(plan) - Len(plan) + 1 = 1 /\ DOMAIN plan = 1..Len(plan)
        BY <2>2
      <4>. QED
        BY <4>1 DEF Ahead
    <3>2. SumFunction(Ahead(plan, plan, price)) \in Nat
      <4>1. Rest(plan, plan)
        <5>. HIDE DEF plan
        <5>1. Len(plan) \in Nat /\ DOMAIN plan = 1..Len(plan)
          BY <2>2
        <5>2. \A n \in Nat : \A j \in 1..n : n <= n /\ n - n + j = j
          OBVIOUS
        <5>. QED
          BY <2>2, <5>1, <5>2 DEF Rest
      <4>. HIDE DEF plan
      <4>. QED
        BY <1>4, <4>1, AheadNat DEF Account
    <3>3. most \in Nat
      <4>. HIDE DEF capital
      <4>. QED
        BY <1>4, PctNat, LimitsNat
    <3>. DEFINE total == SumFunction(Ahead(plan, plan, price))
    <3>4. total + Value(held) <= most
      BY <2>4, <3>1
    <3>5. capital = cash + Value(held)
      OBVIOUS
    <3>. HIDE DEF f, most, total, plan, capital
    <3>6. cash + most >= capital + total
      BY <1>4, <3>2, <3>3, <3>4, <3>5 DEF total
    <3>. QED
      BY <3>6 DEF Paid, most, total
  <2>6. held \in [Symbols -> Nat]
    BY <1>4 DEF Account
  <2>. HIDE DEF plan, capital
  <2>. QED
    BY <1>1, <1>4, <1>5, <1>7, <2>2, <2>3, <2>5, <2>6, BeginKeeps
<1>8. (\A i \in DOMAIN plan : plan[i].delta = 0) \/ plan # <<>>
  OBVIOUS
<1>. HIDE DEF plan, capital
<1>9. cycle' = IF \A i \in DOMAIN plan : plan[i].delta = 0 THEN Idle
               ELSE Began("rebalance", plan, signals, held, capital)
  BY <1>2 DEF plan
<1>. QED
  BY <1>6, <1>7, <1>8, <1>9

LEMMA MoveKeeps ==
  ASSUME PortfolioInv, NEW s \in Symbols, NEW p \in Prices, Move(s, p)
  PROVE  PortfolioInv'
<1>1. p \in Nat \ {0}
  BY PortfolioAssumption
<1>2. Account' /\ cash' \in Nat
  BY <1>1 DEF PortfolioInv, Account, Move
<1>3. CASE cycle = Idle
  BY <1>2, <1>3 DEF Move, PortfolioInv, Idle
<1>4. CASE cycle # Idle
  <2>1. Submitting(cycle)
    BY <1>4 DEF PortfolioInv
  <2>2. cycle \in Submission
    BY <2>1 DEF Submitting, Consistent
  <2>3. cycle' = [cycle EXCEPT !.still = FALSE]
    BY <2>2 DEF Move, Submission
  <2>4. /\ cycle' \in Submission /\ cycle'.still = FALSE
        /\ cycle'.kind = cycle.kind /\ cycle'.plan = cycle.plan /\ cycle'.todo = cycle.todo
        /\ cycle'.book = cycle.book /\ cycle'.quoted = cycle.quoted /\ cycle'.capital = cycle.capital
        /\ cycle'.committed = cycle.committed /\ cycle'.avail = cycle.avail /\ cycle'.given = cycle.given
    BY <2>2, <2>3 DEF Submission
  <2>5. Consistent(cycle)'
    BY <2>1, <2>4 DEF Submitting, Consistent, Rest
  <2>6. (cycle.kind = "rebalance" => Within(cycle.plan, cycle.quoted, cycle.book, cycle.capital))'
    <3>1. cycle'.kind = "rebalance" => Within(cycle'.plan, cycle'.quoted, cycle'.book, cycle'.capital)
      BY <2>1, <2>4 DEF Submitting
    <3>. QED
      BY <3>1 DEF Within, Sum
  <2>7. StillPaid(cycle)'
    BY <2>4 DEF StillPaid
  <2>8. Submitting(cycle)'
    BY <2>5, <2>6, <2>7 DEF Submitting
  <2>. QED
    BY <1>2, <2>8 DEF PortfolioInv
<1>. QED
  BY <1>3, <1>4

(* Nothing a cycle depends on changes.                                         *)
LEMMA SameKeeps ==
  ASSUME PortfolioInv, UNCHANGED <<held, cash, price, cycle>>
  PROVE  PortfolioInv'
<1>1. CASE cycle = Idle
  BY <1>1 DEF PortfolioInv, Account, Idle
<1>2. CASE cycle # Idle
  <2>1. Account /\ cash \in Nat /\ Consistent(cycle)
    BY <1>2 DEF PortfolioInv, Submitting
  <2>2. held' \in [Symbols -> Nat] /\ cash' \in Nat /\ Consistent(cycle') /\ Follows(cycle, cycle')
        /\ price' = price /\ cycle'.todo = cycle.todo
    BY <2>1 DEF Account, Follows
  <2>3. ASSUME cycle.kind = "rebalance", OnlyAdds(cycle.plan)
        PROVE  cash' + SumFunction(Ahead(cycle.plan, cycle.todo, cycle.quoted))
                 >= cash + SumFunction(Ahead(cycle.plan, cycle'.todo, cycle.quoted))
    <3>. DEFINE ahead == SumFunction(Ahead(cycle.plan, cycle.todo, cycle.quoted))
    <3>1. ahead \in Nat
      BY <2>1, <2>3, AheadNat DEF Consistent, Submission
    <3>2. cash' + ahead >= cash + ahead
      <4>. HIDE DEF ahead
      <4>. QED
        BY <2>1, <3>1
    <3>. QED
      BY <2>2, <3>2
  <2>. QED
    BY <1>2, <2>2, <2>3, FollowingKeeps
<1>. QED
  BY <1>1, <1>2

LEMMA FinishKeeps == ASSUME PortfolioInv, Finish PROVE PortfolioInv'
BY DEF PortfolioInv, Account, Finish, Idle

LEMMA InvNext ==
  ASSUME PortfolioInv, [PortfolioNext]_pfVars
  PROVE  PortfolioInv'
<1>1. ASSUME NEW p \in Proposals, RunCycle(p) PROVE PortfolioInv'
  BY <1>1, RunCycleKeeps
<1>2. ASSUME NEW p \in Proposals, NEW withheld \in BOOLEAN, Rebalance(p, withheld) PROVE PortfolioInv'
  BY <1>2, RebalanceKeeps
<1>3. CASE Propose
  BY <1>3, ProposeKeeps
<1>4. CASE SubmitTarget
  BY <1>4, SubmitTargetKeeps
<1>5. CASE EngageKill
  BY <1>5, SameKeeps DEF EngageKill
<1>6. CASE Finish
  BY <1>6, FinishKeeps
<1>7. ASSUME NEW s \in Symbols, NEW p \in Prices, Move(s, p) PROVE PortfolioInv'
  BY <1>7, MoveKeeps
<1>8. CASE UNCHANGED pfVars
  BY <1>8, SameKeeps DEF pfVars
<1>. QED
  BY <1>1, <1>2, <1>3, <1>4, <1>5, <1>6, <1>7, <1>8 DEF PortfolioNext

LEMMA InvAlways == PortfolioSpec => []PortfolioInv
BY InvInit, InvNext, PTL DEF PortfolioSpec

(* A cycle reads the account once and submits order after order while fills    *)
(* arrive and prices move (pipeline.py run_once, allocated_cycle.py            *)
(* submit_target): it commits no more cash than it was given.                 *)
THEOREM CashNeverOvercommitted == PortfolioSpec => []CommittedWithinCash
BY InvAlways, InvWithinCash, PTL

(* Whatever the book, the signals, the limits and the order a sort leaves      *)
(* equals in, the plan of the allocation engine (portfolio/engine.py) keeps    *)
(* the cash floor, the position cap and, but for whole shares and what was     *)
(* held, the sector cap; and a rebalance that only adds leaves the cash floor   *)
(* untouched as long as the market stands still.                              *)
THEOREM PlansKeepTheirPromises == PortfolioSpec => []PlanHolds
<1>1. PortfolioInv => PlanHolds
  BY InvWithinLimits, InvFloor DEF PlanHolds
<1>. QED
  BY <1>1, InvAlways, PTL
=============================================================================
