--------------------------- MODULE GovernanceProofs ---------------------------
(* What a permission to trade rests on: the research, the record of facts, the *)
(* report made of it, and the registry of the models that predict.  Then the   *)
(* process around the trader: the hub, the lifespan and the worker.           *)
EXTENDS Governance, ModelRegistry, Realtime, Application, Worker,
        FiniteSetTheorems, SequenceTheorems, Sums, TLAPS

-----------------------------------------------------------------------------
(* Who is in the universe                                                    *)

LEMMA EarliestIs ==
  ASSUME NEW S, S \subseteq Nat, S # {}
  PROVE  Earliest(S) \in S /\ \A y \in S : Earliest(S) <= y
<1>1. \E m \in S : \A k \in S : m <= k
  BY LeastNatural
<1>. QED
  BY <1>1 DEF Earliest

LEMMA LatestIs ==
  ASSUME NEW n \in Nat, NEW S, S \subseteq 0..n, S # {}
  PROVE  Latest(S) \in S /\ \A y \in S : y <= Latest(S)
<1>. DEFINE T == {n - x : x \in S}
<1>1. T \subseteq Nat /\ T # {}
  <2>1. \A x \in S : n - x \in Nat
    OBVIOUS
  <2>2. PICK x \in S : TRUE
    OBVIOUS
  <2>3. n - x \in T
    OBVIOUS
  <2>. QED
    BY <2>1, <2>3
<1>2. PICK m \in T : \A k \in T : m <= k
  BY <1>1, LeastNatural
<1>3. PICK x \in S : m = n - x
  BY <1>2
<1>4. \A y \in S : y <= x
  <2>. SUFFICES ASSUME NEW y \in S PROVE y <= x
    OBVIOUS
  <2>1. m <= n - y
    BY <1>2
  <2>. QED
    BY <1>3, <2>1
<1>. QED
  BY <1>4 DEF Latest

(* A sum over days is of what the panel says of those days.                    *)
LEMMA TotalAgrees ==
  ASSUME NEW p, NEW q, NEW s, NEW days,
         \A D \in SUBSET days : D # {} => Latest(D) \in D,
         \A d \in days : p[d][s] = q[d][s]
  PROVE  Total(p, s, days) = Total(q, s, days)
<1>. DEFINE F(g) == [D \in SUBSET days |->
                       IF D = {} THEN 0 ELSE LET d == Latest(D) IN p[d][s] + g[D \ {d}]]
            G(g) == [D \in SUBSET days |->
                       IF D = {} THEN 0 ELSE LET d == Latest(D) IN q[d][s] + g[D \ {d}]]
<1>1. ASSUME NEW g PROVE F(g) = G(g)
  <2>1. \A D \in SUBSET days : D # {} => Latest(D) \in days
    OBVIOUS
  <2>. QED
    BY <2>1
<1>2. (CHOOSE g : g = F(g)) = (CHOOSE g : g = G(g))
  BY <1>1, Zenon
<1>3. Total(p, s, days) = (CHOOSE g : g = F(g))[days]
  BY DEF Total
<1>4. Total(q, s, days) = (CHOOSE g : g = G(g))[days]
  BY DEF Total
<1>. HIDE DEF F, G
<1>. QED
  BY <1>2, <1>3, <1>4

(* Panels that agree up to a day have the same members on it.                  *)
LEMMA MembersAgree ==
  ASSUME NEW p, NEW q, NEW n \in Nat, NEW d \in 1..n, DOMAIN p = 1..n, DOMAIN q = 1..d,
         \A i \in 1..d : q[i] = p[i],
         Len(p) = n, Len(q) = d
  PROVE  Members(p, d) = Members(q, d)
<1>1. d \in Nat /\ d >= 1 /\ d <= Len(p) /\ Len(p) \in Nat /\ DOMAIN p = 1..Len(p)
  OBVIOUS
<1>2. Len(q) = d /\ DOMAIN q = 1..d /\ \A i \in 1..d : q[i] = p[i]
  OBVIOUS
<1>. SUFFICES ASSUME NEW s \in Symbols
              PROVE  s \in Members(p, d) <=> s \in Members(q, d)
  BY DEF Members
<1>3. Bars(q, s) = {x \in Bars(p, s) : x <= d}
  BY <1>1, <1>2 DEF Bars
<1>4. CASE ~(p[d][s] > 0)
  BY <1>1, <1>2, <1>4 DEF Members
<1>5. CASE p[d][s] > 0
  <2>1. /\ d \in Bars(p, s) /\ d \in Bars(q, s) /\ Bars(p, s) \subseteq 0..Len(p)
        /\ Bars(q, s) \subseteq 0..d
    BY <1>1, <1>2, <1>5 DEF Bars
  <2>2. Earliest(Bars(p, s)) = Earliest(Bars(q, s))
    <3>1. /\ Earliest(Bars(p, s)) \in Bars(p, s) /\ \A y \in Bars(p, s) : Earliest(Bars(p, s)) <= y
          /\ Earliest(Bars(q, s)) \in Bars(q, s) /\ \A y \in Bars(q, s) : Earliest(Bars(q, s)) <= y
      BY <2>1, EarliestIs
    <3>. DEFINE a == Earliest(Bars(p, s))
                b == Earliest(Bars(q, s))
    <3>2. a <= d /\ a \in Bars(p, s) /\ b \in Bars(p, s) /\ a \in Nat /\ b \in Nat
      BY <1>1, <1>3, <2>1, <3>1
    <3>3. a \in Bars(q, s)
      BY <1>3, <3>2
    <3>4. a <= b /\ b <= a
      BY <3>1, <3>2, <3>3
    <3>. HIDE DEF a, b
    <3>5. a = b
      BY <3>2, <3>4
    <3>. QED
      BY <3>5 DEF a, b
  <2>3. EntryDate(p, s) = EntryDate(q, s)
    BY <2>2 DEF EntryDate
  <2>4. Latest(Bars(p, s)) >= d /\ Latest(Bars(q, s)) >= d
    BY <1>1, <2>1, LatestIs
  <2>. DEFINE held == {x \in Bars(p, s) : x > d - LiquidityWindow /\ x <= d}
  <2>5. held = {x \in Bars(q, s) : x > d - LiquidityWindow /\ x <= d}
    BY <1>3, <1>2 DEF Bars
  <2>6. held \subseteq 0..d /\ \A x \in held : p[x][s] = q[x][s]
    BY <1>1, <1>2, <2>1 DEF Bars
  <2>7. Total(p, s, held) = Total(q, s, held)
    <3>. HIDE DEF held
    <3>1. \A D \in SUBSET held : D # {} => Latest(D) \in D
      BY <1>1, <2>6, LatestIs
    <3>2. \A x \in held : p[x][s] = q[x][s]
      BY <2>6
    <3>. QED
      BY <3>1, <3>2, TotalAgrees
  <2>8. Liquid(p, s, d) <=> Liquid(q, s, d)
    BY <2>5, <2>7 DEF Liquid
  <2>. QED
    BY <1>1, <1>2, <1>5, <2>1, <2>3, <2>4, <2>8 DEF Members
<1>. QED
  BY <1>4, <1>5

LEMMA MembersOfThePast ==
  ASSUME NEW S, NEW p \in Seq(S), NEW d \in DOMAIN p
  PROVE  Members(p, d) = Members(SubSeq(p, 1, d), d)
<1>. DEFINE q == SubSeq(p, 1, d)
<1>1. /\ d \in Nat /\ d >= 1 /\ d <= Len(p) /\ Len(p) \in Nat /\ DOMAIN p = 1..Len(p)
  OBVIOUS
<1>2. q \in Seq(S) /\ Len(q) = d /\ DOMAIN q = 1..d /\ \A i \in 1..d : q[i] = p[i]
  <2>1. \A i \in 1..d : p[i] \in S
    BY <1>1
  <2>2. q \in Seq(S) /\ Len(q) = d /\ \A i \in 1..d : q[i] = p[1 + i - 1]
    BY <1>1, <2>1, SubSeqProperties
  <2>. QED
    BY <1>1, <2>2
<1>. HIDE DEF q
<1>3. Members(p, d) = Members(q, d)
  BY <1>1, <1>2, MembersAgree
<1>. QED
  BY <1>3 DEF q

-----------------------------------------------------------------------------
(* How a history is cut                                                      *)

LEMMA Multiples ==
  ASSUME NEW k \in Nat, NEW l \in Nat, NEW size \in Nat, k < l
  PROVE  k * size \in Nat /\ l * size \in Nat /\ k * size + size <= l * size
<1>1. l - k - 1 \in Nat
  OBVIOUS
<1>2. (l - k - 1) * size >= 0
  BY <1>1
<1>3. (l - k - 1) * size = l * size - k * size - size
  OBVIOUS
<1>4. k * size \in Nat /\ l * size \in Nat
  OBVIOUS
<1>. QED
  BY <1>2, <1>3, <1>4

LEMMA FoldsApart ==
  ASSUME NEW n \in Nat, NEW minTrain \in Nat, NEW folds \in Nat \ {0}, NEW embargo \in Nat,
         NEW minTest \in Nat, minTrain <= n
  PROVE  \A f \in Folds(n, minTrain, folds, embargo, minTest) :
           /\ \A t \in f.train, x \in f.test : x > t + embargo
           /\ \A g \in Folds(n, minTrain, folds, embargo, minTest) : f # g => f.test \cap g.test = {}
<1>. DEFINE size == (n - minTrain) \div folds
            Cut(k) == minTrain + k * size
            K == {k \in 0..(folds - 1) :
                    \A j \in 0..k : FoldIsUsable(n, j, minTrain, folds, embargo, minTest)}
<1>1. size \in Nat
  OBVIOUS
<1>. HIDE DEF size
<1>2. \A k \in Nat : Cut(k) \in Nat
  BY <1>1
<1>3. \A k \in Nat, l \in Nat : k < l => Cut(k) + size <= Cut(l)
  BY <1>1, Multiples
<1>4. ASSUME NEW k \in Nat
      PROVE  /\ Fold(n, k, minTrain, folds, embargo).train = 0..(Cut(k) - 1)
             /\ Fold(n, k, minTrain, folds, embargo).test \subseteq
                    (Cut(k) + embargo)..(Cut(k) + embargo + size - 1)
  <2>1. Cut(k) \in Nat
    BY <1>2
  <2>. DEFINE until == IF Cut(k) + embargo + size < n THEN Cut(k) + embargo + size ELSE n
  <2>2. Fold(n, k, minTrain, folds, embargo) =
          [train |-> 0..(Cut(k) - 1), test |-> (Cut(k) + embargo)..(until - 1)]
    BY DEF Fold, size
  <2>3. until \in Nat /\ until <= Cut(k) + embargo + size
    BY <1>1, <2>1
  <2>. HIDE DEF until, Cut
  <2>. QED
    BY <1>1, <2>1, <2>2, <2>3
<1>5. Folds(n, minTrain, folds, embargo, minTest) = {Fold(n, k, minTrain, folds, embargo) : k \in K}
      /\ K \subseteq Nat
  BY DEF Folds
<1>. HIDE DEF Cut, K
<1>. SUFFICES ASSUME NEW f \in Folds(n, minTrain, folds, embargo, minTest)
              PROVE  /\ \A t \in f.train, x \in f.test : x > t + embargo
                     /\ \A g \in Folds(n, minTrain, folds, embargo, minTest) :
                          f # g => f.test \cap g.test = {}
  OBVIOUS
<1>6. PICK k \in Nat : f = Fold(n, k, minTrain, folds, embargo)
  BY <1>5
<1>7. \A t \in f.train, x \in f.test : x > t + embargo
  <2>1. Cut(k) \in Nat
    BY <1>2
  <2>2. f.train = 0..(Cut(k) - 1) /\ f.test \subseteq (Cut(k) + embargo)..(Cut(k) + embargo + size - 1)
    BY <1>4, <1>6
  <2>. QED
    BY <1>1, <2>1, <2>2
<1>8. ASSUME NEW g \in Folds(n, minTrain, folds, embargo, minTest), f # g
      PROVE  f.test \cap g.test = {}
  <2>1. PICK l \in Nat : g = Fold(n, l, minTrain, folds, embargo)
    BY <1>5
  <2>2. /\ f.test \subseteq (Cut(k) + embargo)..(Cut(k) + embargo + size - 1)
        /\ g.test \subseteq (Cut(l) + embargo)..(Cut(l) + embargo + size - 1)
    BY <1>4, <1>6, <2>1
  <2>3. k < l \/ l < k
    BY <1>6, <1>8, <2>1
  <2>4. Cut(k) + size <= Cut(l) \/ Cut(l) + size <= Cut(k)
    BY <1>3, <2>3
  <2>5. Cut(k) \in Nat /\ Cut(l) \in Nat
    BY <1>2
  <2>. QED
    BY <1>1, <2>2, <2>4, <2>5
<1>. QED
  BY <1>7, <1>8

LEMMA SplitsPurged ==
  ASSUME NEW n \in Nat, NEW parts \in Nat \ {0}, NEW horizon \in Nat
  PROVE  \A s \in Splits(n, parts, horizon) : \A t \in s.train, x \in s.test : t + horizon < x
<1>. SUFFICES ASSUME NEW k \in 0..(parts - 1)
              PROVE  \A t \in Split(n, parts, k, horizon).train, x \in Split(n, parts, k, horizon).test :
                        t + horizon < x
  BY DEF Splits
<1>. DEFINE start == Bound(n, parts, k)
            keep == IF start - horizon > 0 THEN start - horizon ELSE 0
<1>1. start \in Int
  BY DEF Bound
<1>2. Split(n, parts, k, horizon) =
        [train |-> 0..(keep - 1), test |-> start..(Bound(n, parts, k + 1) - 1)]
  BY DEF Split
<1>3. Bound(n, parts, k + 1) \in Int
  BY DEF Bound
<1>. HIDE DEF start
<1>. QED
  BY <1>1, <1>2, <1>3

LEMMA WindowsApart ==
  ASSUME NEW n \in Nat, NEW train \in Nat, NEW val \in Nat, NEW test \in Nat
  PROVE  LET all == Windows(n, train, val, test, test) IN
         /\ \A w \in all : /\ \A t \in w.train, v \in w.val : t < v
                           /\ \A v \in w.val, x \in w.test : v < x
         /\ \A w, u \in all : w # u => w.test \cap u.test = {}
<1>. DEFINE W(k) == Window(k * test, train, val, test)
            K == {k \in 0..n : k * test + train + val + test < n}
<1>1. Windows(n, train, val, test, test) = {W(k) : k \in K} /\ K \subseteq Nat
  BY DEF Windows
<1>. HIDE DEF K
<1>2. ASSUME NEW k \in Nat
      PROVE  /\ k * test \in Nat
             /\ W(k).train = (k * test)..(k * test + train)
             /\ W(k).val = (k * test + train + 1)..(k * test + train + val)
             /\ W(k).test = (k * test + train + val + 1)..(k * test + train + val + test)
  BY DEF Window
<1>. HIDE DEF W
<1>3. ASSUME NEW k \in Nat
      PROVE  /\ \A t \in W(k).train, v \in W(k).val : t < v
             /\ \A v \in W(k).val, x \in W(k).test : v < x
  <2>. DEFINE a == k * test
  <2>1. /\ a \in Nat
        /\ W(k).train = a..(a + train)
        /\ W(k).val = (a + train + 1)..(a + train + val)
        /\ W(k).test = (a + train + val + 1)..(a + train + val + test)
    BY <1>2
  <2>. HIDE DEF a
  <2>. QED
    BY <2>1
<1>4. ASSUME NEW k \in Nat, NEW l \in Nat, k < l
      PROVE  W(k).test \cap W(l).test = {}
  <2>1. k * test \in Nat /\ l * test \in Nat /\ k * test + test <= l * test
    BY <1>4, Multiples
  <2>. DEFINE a == k * test
              b == l * test
  <2>2. W(k).test = (a + train + val + 1)..(a + train + val + test)
        /\ W(l).test = (b + train + val + 1)..(b + train + val + test)
    BY <1>2
  <2>3. a \in Nat /\ b \in Nat /\ a + test <= b
    BY <2>1
  <2>. HIDE DEF a, b
  <2>. QED
    BY <2>2, <2>3
<1>5. ASSUME NEW k \in Nat, NEW l \in Nat, W(k) # W(l)
      PROVE  W(k).test \cap W(l).test = {}
  <2>1. k < l \/ l < k
    BY <1>5
  <2>. QED
    BY <1>4, <2>1
<1>. QED
  BY <1>1, <1>3, <1>5

-----------------------------------------------------------------------------
(* The study                                                                *)

Bar == [Symbols -> Int]

ResearchInv == panel \in Seq(Bar) /\ Len(panel) > 0 /\ StudyFoldsHonest

LEMMA ResearchBegins ==
  ASSUME panel \in Panels, study.is = "missing" \/ (study.is = "study" /\ study.folds = {})
  PROVE  ResearchInv
<1>1. panel \in Seq(Bar) /\ Len(panel) > 0
  BY ResearchAssumption DEF Bar
<1>. QED
  BY <1>1 DEF ResearchInv, StudyFoldsHonest

LEMMA ResearchSteps ==
  ASSUME ResearchInv, ResearchNext \/ UNCHANGED research
  PROVE  ResearchInv'
<1>1. panel \in Seq(Bar) /\ Len(panel) \in Nat /\ Len(panel) > 0 /\ StudyFoldsHonest
  BY DEF ResearchInv
<1>2. CASE UNCHANGED research
  BY <1>1, <1>2 DEF research, ResearchInv, StudyFoldsHonest
<1>3. ASSUME NEW pit \in BOOLEAN, RunStudy(pit) PROVE ResearchInv'
  <2>1. panel' = panel /\ Len(panel) >= MinTrain + 2 * NFolds /\ study'.folds = FoldsOf(panel)
    BY <1>3 DEF RunStudy
  <2>2. MinTrain \in Nat /\ Embargo \in Nat /\ MinTest \in Nat /\ NFolds \in Nat \ {0}
        /\ MinTrain <= Len(panel)
    BY <1>1, <2>1, ResearchAssumption
  <2>3. \A f \in FoldsOf(panel) :
          /\ \A t \in f.train, x \in f.test : x > t + Embargo
          /\ \A g \in FoldsOf(panel) : f # g => f.test \cap g.test = {}
    BY <1>1, <2>2, FoldsApart DEF FoldsOf
  <2>. QED
    BY <1>1, <2>1, <2>3 DEF ResearchInv, StudyFoldsHonest
<1>4. CASE Acquire
  <2>1. PICK volumes \in {panel[Len(panel)], [s \in Symbols |-> 0]} : panel' = Append(panel, volumes)
    BY <1>4 DEF Acquire
  <2>2. panel[Len(panel)] \in Bar /\ [s \in Symbols |-> 0] \in Bar
    BY <1>1 DEF Bar
  <2>3. volumes \in Bar
    BY <2>1, <2>2
  <2>4. panel' \in Seq(Bar) /\ Len(panel') > 0
    BY <1>1, <2>1, <2>3, AppendProperties
  <2>. QED
    BY <1>1, <1>4, <2>4 DEF Acquire, ResearchInv, StudyFoldsHonest
<1>5. CASE Revise
  <2>1. PICK s \in Symbols, d \in DOMAIN panel : panel' = [panel EXCEPT ![d][s] = 3 - @]
    BY <1>5 DEF Revise
  <2>. DEFINE bar == [panel[d] EXCEPT ![s] = 3 - @]
  <2>2. panel[d] \in Bar
    BY <1>1
  <2>3. bar \in Bar
    BY <2>2 DEF Bar
  <2>4. panel' = [panel EXCEPT ![d] = bar]
    BY <2>1
  <2>. HIDE DEF bar
  <2>5. panel' \in Seq(Bar) /\ Len(panel') = Len(panel)
    BY <1>1, <2>3, <2>4
  <2>. QED
    BY <1>1, <1>5, <2>5 DEF Revise, ResearchInv, StudyFoldsHonest
<1>. QED
  BY <1>2, <1>3, <1>4, <1>5 DEF ResearchNext

LEMMA ResearchHolds == ResearchInv => ResearchIsHonest
<1>. SUFFICES ASSUME ResearchInv PROVE ResearchIsHonest
  OBVIOUS
<1>1. panel \in Seq(Bar) /\ Len(panel) \in Nat
  BY DEF ResearchInv
<1>2. MembersUseThePast
  BY <1>1, MembersOfThePast DEF MembersUseThePast
<1>3. StudyFoldsHonest
  BY DEF ResearchInv
<1>4. SplitsArePurged
  <2>1. \A k \in 1..4 : k \in Nat \ {0}
    OBVIOUS
  <2>. QED
    BY <1>1, <2>1, SplitsPurged DEF SplitsArePurged
<1>5. WindowsAdvance
  <2>1. \A k \in 1..2 : k \in Nat
    OBVIOUS
  <2>. QED
    BY <1>1, <2>1, WindowsApart DEF WindowsAdvance
<1>. QED
  BY <1>2, <1>3, <1>4, <1>5 DEF ResearchIsHonest, FoldsAreHonest

(* No name is chosen, no fold, split or window cut by what came later           *)
(* (research/universe.py, study.py, validation.py; backtesting/walkforward.py):  *)
(* for any panels, their growth and their corrections.                        *)
THEOREM ResearchNeverLooksAhead == Spec => []ResearchIsHonest
<1>1. Init => ResearchInv
  <2>. SUFFICES ASSUME Init PROVE ResearchInv
    OBVIOUS
  <2>1. panel \in Panels
    BY ResearchAssumption DEF Init, ResearchInit
  <2>2. study.is = "missing" \/ (study.is = "study" /\ study.folds = {})
    <3>. DEFINE old == [is |-> "study", provenance |-> "", validated |-> TRUE, pit |-> FALSE,
                        outcome |-> CHOOSE o \in Outcomes : TRUE, folds |-> {}]
    <3>1. study = NoStudy \/ study = old
      BY DEF Init, ResearchInit
    <3>2. old.is = "study" /\ old.folds = {}
      OBVIOUS
    <3>. HIDE DEF old
    <3>. QED
      BY <3>1, <3>2 DEF NoStudy
  <2>. QED
    BY <2>1, <2>2, ResearchBegins
<1>2. ResearchInv /\ [Next]_vars => ResearchInv'
  BY ResearchSteps
     DEF Next, vars, Tick, Reconcile, Approve, Gather, AssessReport, Reload, Ask, AskDefault,
         Study, Fail, Heal
<1>. QED
  BY <1>1, <1>2, ResearchHolds, PTL DEF Spec


-----------------------------------------------------------------------------
(* The gates                                                                *)

(* The gates by group.                                                      *)
DataNames ==
    {"evidence_freshness", "evidence_well_formed", "real_price_history",
     "market_data_current", "point_in_time_index_constituents",
     "point_in_time_fundamentals", "intraday_history_span", "data_quality_audit"}
StatisticalNames ==
    {"purged_walk_forward", "deflated_sharpe_ratio", "probability_of_backtest_overfitting",
     "beats_passive_benchmark", "honest_trial_count"}
PerformanceNames ==
    {"oos_sharpe_floor", "max_drawdown_limit", "cost_and_slippage_stress",
     "return_concentration"}
ExecutionNames ==
    {"broker_auth", "broker_connectivity", "order_lifecycle", "reconciliation",
     "reconciliation_current", "duplicate_order_protection", "kill_switch",
     "timezone_and_squareoff", "enforcement_wired_into_order_path"}
RiskNames == {"risk_limits_enforced"}
PaperNames ==
    {"paper_trading_duration", "paper_matches_backtest", "human_enabled_live_mode",
     "approval_is_current"}

LEMMA GroupsApart ==
  /\ \A g \in DataNames : g \notin StatisticalNames \cup PerformanceNames \cup ExecutionNames
                                        \cup RiskNames \cup PaperNames
  /\ \A g \in StatisticalNames : g \notin PerformanceNames \cup ExecutionNames
                                        \cup RiskNames \cup PaperNames
  /\ \A g \in PerformanceNames : g \notin ExecutionNames \cup RiskNames \cup PaperNames
  /\ \A g \in ExecutionNames : g \notin RiskNames \cup PaperNames
  /\ \A g \in RiskNames : g \notin PaperNames
  /\ DataNames \cup StatisticalNames \cup PerformanceNames \cup ExecutionNames
        \cup RiskNames \cup PaperNames \subseteq Canonical
BY DEF DataNames, StatisticalNames, PerformanceNames, ExecutionNames, RiskNames, PaperNames,
       Canonical

LEMMA GroupDomains ==
  ASSUME NEW e, NEW moment
  PROVE  /\ DOMAIN DataGates(e, moment) = DataNames
         /\ DOMAIN StatisticalGates(e) = StatisticalNames
         /\ DOMAIN PerformanceGates(e) = PerformanceNames
         /\ DOMAIN ExecutionGates(e, moment) = ExecutionNames
         /\ DOMAIN RiskGates(e) = RiskNames
         /\ DOMAIN PaperGates(e, moment) = PaperNames
BY DEF DataNames, StatisticalNames, PerformanceNames, ExecutionNames, RiskNames, PaperNames,
       DataGates, StatisticalGates, PerformanceGates, ExecutionGates, RiskGates, PaperGates

(* A gate that passed passed in its group.                                   *)
LEMMA GateOfGroup ==
  ASSUME NEW e, NEW moment, NEW g \in GatesPassed(e, moment)
  PROVE  /\ g \in DataNames => DataGates(e, moment)[g]
         /\ g \in StatisticalNames => StatisticalGates(e)[g]
         /\ g \in PerformanceNames => PerformanceGates(e)[g]
         /\ g \in ExecutionNames => ExecutionGates(e, moment)[g]
         /\ g \in RiskNames => RiskGates(e)[g]
         /\ g \in PaperNames => PaperGates(e, moment)[g]
BY GroupsApart, GroupDomains DEF GatesPassed

(* What the gates on the freshness of facts say.                             *)
LEMMA FreshGates ==
  ASSUME NEW e, NEW moment, Canonical \subseteq GatesPassed(e, moment)
  PROVE  /\ Fresh(e["evidence_gathered_at"], EvidenceAge, moment)
         /\ Fresh(e["broker_reachable_at"], HeartbeatAge, moment)
         /\ Fresh(e["last_reconciliation_at"], ReconciliationAge, moment)
         /\ Flag(e["last_reconciliation_succeeded"])
         /\ NotFlag(e["kill_switch_engaged"])
         /\ FreshDate(e["live_enable_approved_at"], ApprovalAge, moment)
<1>1. DataGates(e, moment)["evidence_freshness"]
  BY GroupsApart, GateOfGroup DEF DataNames
<1>2. ExecutionGates(e, moment)["broker_connectivity"] /\ ExecutionGates(e, moment)["reconciliation_current"]
  BY GroupsApart, GateOfGroup DEF ExecutionNames
<1>3. RiskGates(e)["risk_limits_enforced"]
  BY GroupsApart, GateOfGroup DEF RiskNames
<1>4. PaperGates(e, moment)["approval_is_current"]
  BY GroupsApart, GateOfGroup DEF PaperNames
<1>5. Fresh(e["evidence_gathered_at"], EvidenceAge, moment)
  BY <1>1 DEF DataGates
<1>6. Fresh(e["broker_reachable_at"], HeartbeatAge, moment)
  BY <1>2 DEF ExecutionGates
<1>7. Fresh(e["last_reconciliation_at"], ReconciliationAge, moment) /\ Flag(e["last_reconciliation_succeeded"])
  BY <1>2 DEF ExecutionGates
<1>8. NotFlag(e["kill_switch_engaged"])
  BY <1>3 DEF RiskGates
<1>9. FreshDate(e["live_enable_approved_at"], ApprovalAge, moment)
  BY <1>4 DEF PaperGates
<1>. QED
  BY <1>5, <1>6, <1>7, <1>8, <1>9

(* What a record without an odd field holds of the facts.                    *)
LEMMA RecordedFacts ==
  ASSUME NEW e, odd = AsItIs
  PROVE  /\ Recorded(e)["evidence_gathered_at"] = Instant(e.at)
         /\ Recorded(e)["broker_reachable_at"] = Instant(e.broker)
         /\ Recorded(e)["last_reconciliation_at"] = Instant(e.reconciled)
         /\ Recorded(e)["last_reconciliation_succeeded"] = Boolean(e.agreed)
         /\ Recorded(e)["kill_switch_engaged"] = Boolean(~e.clear)
         /\ Recorded(e)["live_enable_approved_at"] = Date(e.approved)
<1>1. {"evidence_gathered_at", "broker_reachable_at", "last_reconciliation_at",
       "last_reconciliation_succeeded", "kill_switch_engaged", "live_enable_approved_at"} \subseteq Fields
  BY DEF Fields, Flags, Dates, Instants
<1>2. \A f \in Fields : f # "nothing"
  BY DEF Fields, Flags, Numbers, Sharpes, Shares, Fractions, Counts, Texts, Dates, Instants
<1>3. odd[1] = "nothing"
  BY DEF AsItIs
<1>4. {"evidence_gathered_at", "broker_reachable_at", "last_reconciliation_at",
       "last_reconciliation_succeeded", "kill_switch_engaged", "live_enable_approved_at"}
         \cap Numbers = {}
  BY DEF Numbers, Sharpes, Shares, Fractions, Counts
<1>5. Recorded(e)["evidence_gathered_at"] = Instant(e.at)
  BY <1>1, <1>2, <1>3, <1>4 DEF Recorded
<1>6. Recorded(e)["broker_reachable_at"] = Instant(e.broker)
  BY <1>1, <1>2, <1>3, <1>4 DEF Recorded
<1>7. Recorded(e)["last_reconciliation_at"] = Instant(e.reconciled)
  BY <1>1, <1>2, <1>3, <1>4 DEF Recorded
<1>8. Recorded(e)["last_reconciliation_succeeded"] = Boolean(e.agreed)
  BY <1>1, <1>2, <1>3, <1>4 DEF Recorded
<1>9. Recorded(e)["kill_switch_engaged"] = Boolean(~e.clear)
  BY <1>1, <1>2, <1>3, <1>4 DEF Recorded
<1>10. Recorded(e)["live_enable_approved_at"] = Date(e.approved)
  BY <1>1, <1>2, <1>3, <1>4 DEF Recorded
<1>. QED
  BY <1>5, <1>6, <1>7, <1>8, <1>9, <1>10

-----------------------------------------------------------------------------
(* Quotients                                                                *)

LEMMA Quotient ==
  ASSUME NEW x \in Nat, NEW d \in Nat \ {0}
  PROVE  /\ x \div d \in Nat
         /\ d * (x \div d) <= x /\ x < d * (x \div d) + d
OBVIOUS

LEMMA QuotientOrder ==
  ASSUME NEW x \in Nat, NEW y \in Nat, NEW d \in Nat \ {0}, x <= y
  PROVE  x \div d <= y \div d
OBVIOUS

(* Days between two instants, of which the later is read within a day.         *)
LEMMA QuotientGap ==
  ASSUME NEW x \in Nat, NEW y \in Nat, NEW moment \in Nat, NEW d \in Nat \ {0}, NEW limit \in Nat,
         x <= moment, moment - y <= d, y \div d - x \div d <= limit
  PROVE  (moment - x) \div d <= limit + 1
OBVIOUS

-----------------------------------------------------------------------------
(* The world                                                                *)

WorldInv ==
    /\ clock \in Nat /\ changes \in Nat /\ holds \subseteq Facts
    /\ since \in [Facts -> Nat] /\ \A fact \in Facts : since[fact] <= clock
    /\ approved \in Nat /\ approved <= clock
    /\ reconciled \in [at : Nat, agreed : BOOLEAN] /\ reconciled.at <= clock
    /\ reconciled.agreed => reconciled.at <= LastTrue("books")
    /\ ahead \in 0..Skew
    /\ builder \in {"repository", "complete"}

(* Where the builder is the repository, or gets a field wrong, nothing moves.    *)
StillInv ==
    builder = "repository" \/ odd # AsItIs =>
        /\ changes = 0 /\ holds = Facts /\ approved = clock
        /\ builder = "complete" => clock = MaxClock

(* What was true at an instant stays known to have been.                      *)
Forward ==
    /\ clock' >= clock /\ approved' >= approved
    /\ \A fact \in Facts : LastTrue(fact)' >= LastTrue(fact)

LEMMA WorldBegins == Init => WorldInv /\ StillInv
<1>. SUFFICES ASSUME Init PROVE WorldInv /\ StillInv
  OBVIOUS
<1>1. clock \in Nat /\ changes \in Nat /\ ahead \in 0..Skew /\ builder \in {"repository", "complete"}
  BY GovernanceAssumption, EligibilityAssumption DEF Init
<1>2. /\ holds = Facts /\ since = [fact \in Facts |-> clock]
      /\ reconciled = [at |-> clock, agreed |-> TRUE] /\ approved = clock
  BY DEF Init
<1>3. "books" \in Facts
  BY DEF Facts
<1>4. WorldInv
  BY <1>1, <1>2, <1>3 DEF WorldInv, LastTrue
<1>5. StillInv
  BY <1>2 DEF Init, StillInv
<1>. QED
  BY <1>4, <1>5

LEMMA WorldSteps ==
  ASSUME WorldInv, StillInv, [Next]_vars
  PROVE  WorldInv' /\ StillInv' /\ Forward /\ UNCHANGED setting
<1>. USE DEF WorldInv, StillInv
<1>1. CASE UNCHANGED <<setting, world>>
  BY <1>1 DEF world, setting, Forward, LastTrue
<1>2. CASE Tick
  BY <1>2 DEF Tick, setting, desk, research, Forward, LastTrue
<1>3. CASE Reconcile
  <2>1. /\ reconciled' = [at |-> clock, agreed |-> "books" \in holds]
        /\ UNCHANGED <<setting, clock, holds, since, changes, approved>>
    BY <1>3 DEF Reconcile
  <2>2. reconciled' \in [at : Nat, agreed : BOOLEAN] /\ reconciled'.at = clock
        /\ (reconciled'.agreed <=> "books" \in holds)
    <3>1. CASE "books" \in holds
      <4>1. reconciled' = [at |-> clock, agreed |-> TRUE]
        BY <2>1, <3>1
      <4>. QED
        BY <3>1, <4>1
    <3>2. CASE "books" \notin holds
      <4>. DEFINE up == "books" \in holds
      <4>0. up = FALSE /\ reconciled' = [at |-> clock, agreed |-> up]
        BY <2>1, <3>2
      <4>. HIDE DEF up
      <4>1. reconciled' = [at |-> clock, agreed |-> FALSE]
        BY <4>0
      <4>. QED
        BY <3>2, <4>1
    <3>. QED
      BY <3>1, <3>2
  <2>3. \A fact \in Facts : LastTrue(fact)' = LastTrue(fact)
    BY <2>1 DEF LastTrue
  <2>4. reconciled'.agreed => LastTrue("books")' = clock
    BY <2>1, <2>2 DEF LastTrue
  <2>5. \A fact \in Facts : LastTrue(fact) \in Nat
    BY DEF LastTrue
  <2>6. WorldInv'
    BY <2>1, <2>2, <2>4 DEF setting
  <2>. QED
    BY <2>1, <2>3, <2>5, <2>6 DEF setting, Forward
<1>4. CASE Approve
  BY <1>4 DEF Approve, setting, desk, research, Forward, LastTrue
<1>5. ASSUME NEW fact \in Facts, Fail(fact) PROVE WorldInv' /\ StillInv' /\ Forward /\ UNCHANGED setting
  BY <1>5 DEF Fail, setting, desk, research, Forward, LastTrue, Facts
<1>6. ASSUME NEW fact \in Facts, Heal(fact) PROVE WorldInv' /\ StillInv' /\ Forward /\ UNCHANGED setting
  BY <1>6 DEF Heal, setting, desk, research, Forward, LastTrue, Facts
<1>. QED
  BY <1>1, <1>2, <1>3, <1>4, <1>5, <1>6
     DEF Next, vars, Gather, AssessReport, Reload, Ask, AskDefault, Study

-----------------------------------------------------------------------------
(* From the world to the answer                                              *)

Stages ==
    /\ report \in [passed : SUBSET Canonical, at : Nat, computed : BOOLEAN]
    /\ \/ evidence = NoEvidence
       \/ evidence \in [is : {"snapshot"}, at : Int, broker : Int, clear : BOOLEAN,
                        reconciled : Int, agreed : BOOLEAN, approved : Nat, bar : Int]

(* What a record says was true was true, but for the clock it was written by.   *)
EvidenceTrue ==
    evidence # NoEvidence =>
      /\ evidence.broker - ahead <= LastTrue("broker")
      /\ evidence.agreed => evidence.reconciled - ahead <= LastTrue("books")
      /\ evidence.clear => evidence.at - ahead <= LastTrue("kill_switch")
      /\ evidence.approved <= approved \div Day

(* When a report that permits was made, what it rests on had been true lately.  *)
ReportTrue ==
    Permits(report) =>
      /\ report.at - LastTrue("broker") <= HeartbeatAge + Skew
      /\ report.at - LastTrue("books") <= ReconciliationAge + Skew
      /\ report.at - LastTrue("kill_switch") <= EvidenceAge + Skew
      /\ report.at \div Day - approved \div Day <= ApprovalAge

(* The repository's own reports never permit: there is no point-in-time index.  *)
AnswerInv ==
    /\ Stages
    /\ builder = "repository" => evidence = NoEvidence /\ ~Permits(report)
    /\ odd = AsItIs => EvidenceTrue /\ ReportTrue

LEMMA RepositoryNeverPermits ==
  ASSUME NEW mode PROVE ~(Canonical \subseteq GatesPassed(RepoRecord(mode), clock))
<1>. DEFINE e == RepoRecord(mode)
<1>1. "point_in_time_index_constituents_available" \in Fields
  BY DEF Fields, Flags
<1>2. DOMAIN RepoStatistics = Fields
  BY DEF RepoStatistics, Unknown
<1>3. e["point_in_time_index_constituents_available"] = Boolean(FALSE)
  BY <1>1, <1>2 DEF RepoRecord
<1>. HIDE DEF e
<1>4. ~Flag(e["point_in_time_index_constituents_available"])
  BY <1>3 DEF Flag, Boolean
<1>5. "point_in_time_index_constituents" \in DataNames /\ "point_in_time_index_constituents" \in Canonical
  BY DEF DataNames, Canonical
<1>6. ~DataGates(e, clock)["point_in_time_index_constituents"]
  BY <1>4 DEF DataGates
<1>7. "point_in_time_index_constituents" \notin GatesPassed(e, clock)
  BY <1>5, <1>6, GateOfGroup
<1>. QED
  BY <1>5, <1>7 DEF e

LEMMA AnswerBegins == Init => AnswerInv
<1>. SUFFICES ASSUME Init PROVE AnswerInv
  OBVIOUS
<1>1. evidence = NoEvidence /\ report = [passed |-> {}, at |-> 0, computed |-> FALSE]
  BY DEF Init
<1>2. ~Permits(report)
  BY <1>1 DEF Permits
<1>3. Stages
  BY <1>1 DEF Stages
<1>. QED
  BY <1>1, <1>2, <1>3 DEF AnswerInv, EvidenceTrue, ReportTrue

(* What was true of a record or a report stays true of it.                     *)
LEMMA ForwardKeeps ==
  ASSUME WorldInv, WorldInv', Forward, UNCHANGED setting, AnswerInv
  PROVE  /\ UNCHANGED evidence /\ EvidenceTrue => EvidenceTrue'
         /\ UNCHANGED report /\ ReportTrue => ReportTrue'
<1>1. \A fact \in Facts : LastTrue(fact) \in Nat /\ LastTrue(fact)' \in Nat
  BY DEF WorldInv, LastTrue
<1>2. {"broker", "books", "kill_switch"} \subseteq Facts
  BY DEF Facts
<1>3. ahead' = ahead /\ ahead \in Nat
  BY EligibilityAssumption DEF setting, WorldInv
<1>4. approved \div Day \in Nat /\ approved' \div Day \in Nat /\ approved \div Day <= approved' \div Day
  BY Quotient, QuotientOrder, EligibilityAssumption DEF WorldInv, Forward
<1>5. ASSUME UNCHANGED evidence, EvidenceTrue PROVE EvidenceTrue'
  BY <1>1, <1>2, <1>3, <1>4, <1>5 DEF EvidenceTrue, AnswerInv, Stages, Forward, NoEvidence
<1>6. ASSUME UNCHANGED report, ReportTrue PROVE ReportTrue'
  <2>. SUFFICES ASSUME Permits(report)
                PROVE  /\ report.at - LastTrue("broker")' <= HeartbeatAge + Skew
                       /\ report.at - LastTrue("books")' <= ReconciliationAge + Skew
                       /\ report.at - LastTrue("kill_switch")' <= EvidenceAge + Skew
                       /\ report.at \div Day - approved' \div Day <= ApprovalAge
    BY <1>6 DEF ReportTrue, Permits
  <2>1. report.at \in Nat /\ report.at \div Day \in Nat
    BY Quotient, EligibilityAssumption DEF AnswerInv, Stages
  <2>. QED
    BY <1>1, <1>2, <1>4, <1>6, <2>1, EligibilityAssumption DEF ReportTrue, Forward
<1>. QED
  BY <1>5, <1>6

LEMMA GatherTrue ==
  ASSUME WorldInv, Gather
  PROVE  EvidenceTrue' /\ evidence' \in [is : {"snapshot"}, at : Int, broker : Int, clear : BOOLEAN,
                                        reconciled : Int, agreed : BOOLEAN, approved : Nat, bar : Int]
<1>1. evidence' = Snapshot /\ UNCHANGED <<setting, world>>
  BY DEF Gather
<1>2. clock \in Nat /\ ahead \in Nat /\ approved \div Day \in Nat /\ clock \div Day \in Nat
      /\ LastTrue("broker") \in Nat /\ reconciled.at \in Nat /\ reconciled.agreed \in BOOLEAN
      /\ (reconciled.agreed => reconciled.at <= LastTrue("books")) /\ LastTrue("books") \in Nat
  BY Quotient, EligibilityAssumption DEF WorldInv, LastTrue, Facts
<1>3. "kill_switch" \in holds => LastTrue("kill_switch") = clock
  BY DEF LastTrue
<1>4. \A fact \in Facts : LastTrue(fact)' = LastTrue(fact)
  BY <1>1 DEF LastTrue, world
<1>. DEFINE up == "kill_switch" \in holds
<1>5. up \in BOOLEAN /\ (up => LastTrue("kill_switch") = clock)
      /\ Snapshot = [is |-> "snapshot", at |-> clock + ahead, broker |-> LastTrue("broker") + ahead,
                     clear |-> up, reconciled |-> reconciled.at + ahead,
                     agreed |-> reconciled.agreed, approved |-> approved \div Day, bar |-> clock \div Day]
  BY <1>3 DEF Snapshot
<1>. HIDE DEF up
<1>6. Snapshot \in [is : {"snapshot"}, at : Int, broker : Int, clear : BOOLEAN,
                    reconciled : Int, agreed : BOOLEAN, approved : Nat, bar : Int]
  BY <1>2, <1>5
<1>7. /\ Snapshot.at = clock + ahead /\ Snapshot.broker = LastTrue("broker") + ahead
      /\ Snapshot.reconciled = reconciled.at + ahead /\ Snapshot.approved = approved \div Day
  BY <1>5
<1>8. Snapshot.clear => LastTrue("kill_switch") = clock
  BY <1>5
<1>9. Snapshot.agreed => reconciled.at <= LastTrue("books")
  BY <1>2, <1>5
<1>10. ahead' = ahead /\ approved' = approved /\ {"broker", "books", "kill_switch"} \subseteq Facts
  BY <1>1 DEF setting, world, Facts
<1>11. EvidenceTrue'
  <2>1. evidence'.broker - ahead <= LastTrue("broker")'
    BY <1>1, <1>2, <1>4, <1>7, <1>10
  <2>2. evidence'.agreed => evidence'.reconciled - ahead <= LastTrue("books")'
    BY <1>1, <1>2, <1>4, <1>7, <1>9, <1>10
  <2>3. evidence'.clear => evidence'.at - ahead <= LastTrue("kill_switch")'
    BY <1>1, <1>2, <1>4, <1>7, <1>8, <1>10
  <2>4. evidence'.approved <= approved' \div Day
    BY <1>1, <1>2, <1>7, <1>10
  <2>. QED
    BY <1>10, <2>1, <2>2, <2>3, <2>4 DEF EvidenceTrue
<1>. QED
  BY <1>1, <1>6, <1>11

(* The gates read what the record says against their limits.                   *)
LEMMA AssessTrue ==
  ASSUME WorldInv, AnswerInv, odd = AsItIs, evidence.is = "snapshot",
         Canonical \subseteq GatesPassed(Recorded(evidence), clock)
  PROVE  /\ clock - LastTrue("broker") <= HeartbeatAge + Skew
         /\ clock - LastTrue("books") <= ReconciliationAge + Skew
         /\ clock - LastTrue("kill_switch") <= EvidenceAge + Skew
         /\ clock \div Day - approved \div Day <= ApprovalAge
<1>. DEFINE e == Recorded(evidence)
<1>1. evidence # NoEvidence /\ EvidenceTrue
      /\ evidence \in [is : {"snapshot"}, at : Int, broker : Int, clear : BOOLEAN,
                        reconciled : Int, agreed : BOOLEAN, approved : Nat, bar : Int]
  BY DEF AnswerInv, Stages, NoEvidence
<1>2. /\ clock \in Nat /\ ahead \in Nat /\ ahead <= Skew
      /\ LastTrue("broker") \in Nat /\ LastTrue("books") \in Nat /\ LastTrue("kill_switch") \in Nat
      /\ clock \div Day \in Nat /\ approved \div Day \in Nat
  BY Quotient, EligibilityAssumption DEF WorldInv, LastTrue, Facts
<1>3. /\ Fresh(e["evidence_gathered_at"], EvidenceAge, clock)
      /\ Fresh(e["broker_reachable_at"], HeartbeatAge, clock)
      /\ Fresh(e["last_reconciliation_at"], ReconciliationAge, clock)
      /\ Flag(e["last_reconciliation_succeeded"]) /\ NotFlag(e["kill_switch_engaged"])
      /\ FreshDate(e["live_enable_approved_at"], ApprovalAge, clock)
  BY FreshGates
<1>4. /\ e["evidence_gathered_at"] = Instant(evidence.at)
      /\ e["broker_reachable_at"] = Instant(evidence.broker)
      /\ e["last_reconciliation_at"] = Instant(evidence.reconciled)
      /\ e["last_reconciliation_succeeded"] = Boolean(evidence.agreed)
      /\ e["kill_switch_engaged"] = Boolean(~evidence.clear)
      /\ e["live_enable_approved_at"] = Date(evidence.approved)
  BY RecordedFacts
<1>. HIDE DEF e
<1>5. evidence.agreed /\ evidence.clear
  <2>. DEFINE halted == ~evidence.clear
  <2>1. evidence.agreed
    BY <1>3, <1>4 DEF Flag, Boolean
  <2>2. e["kill_switch_engaged"] = [is |-> "boolean", truth |-> halted] /\ halted \in BOOLEAN
    BY <1>1, <1>4 DEF Boolean
  <2>. HIDE DEF halted
  <2>3. ~halted
    BY <1>3, <2>2 DEF NotFlag
  <2>. QED
    BY <2>1, <2>3 DEF halted
<1>6. /\ clock - evidence.at <= EvidenceAge /\ clock - evidence.broker <= HeartbeatAge
      /\ clock - evidence.reconciled <= ReconciliationAge
  BY <1>1, <1>2, <1>3, <1>4, EligibilityAssumption DEF Fresh, Instant
<1>7. clock \div Day - evidence.approved <= ApprovalAge
  BY <1>1, <1>2, <1>3, <1>4, EligibilityAssumption DEF FreshDate, Date, Today
<1>. QED
  BY <1>1, <1>2, <1>5, <1>6, <1>7, EligibilityAssumption DEF EvidenceTrue

LEMMA AnswerSteps ==
  ASSUME WorldInv, StillInv, AnswerInv, [Next]_vars
  PROVE  AnswerInv'
<1>1. WorldInv' /\ StillInv' /\ Forward /\ UNCHANGED setting
  BY WorldSteps
<1>2. builder' = builder /\ odd' = odd /\ builder \in {"repository", "complete"}
  BY <1>1 DEF setting, WorldInv
<1>3. /\ UNCHANGED evidence /\ odd = AsItIs => EvidenceTrue'
      /\ UNCHANGED report /\ odd = AsItIs => ReportTrue'
  BY <1>1, ForwardKeeps DEF AnswerInv
<1>4. CASE UNCHANGED <<evidence, report>>
  BY <1>2, <1>3, <1>4 DEF AnswerInv, Stages, Permits
<1>5. CASE Gather
  <2>1. EvidenceTrue' /\ report' = report /\ builder = "complete"
        /\ evidence' \in [is : {"snapshot"}, at : Int, broker : Int, clear : BOOLEAN,
                         reconciled : Int, agreed : BOOLEAN, approved : Nat, bar : Int]
    BY <1>5, GatherTrue DEF Gather
  <2>. QED
    BY <1>2, <1>3, <2>1 DEF AnswerInv, Stages
<1>6. CASE AssessReport
  <2>1. PICK left \in {{}, {"max_drawdown_limit"}}, substituted \in {{}, {"max_drawdown_limit"}} :
          /\ odd = AsItIs => left = {} /\ substituted = {}
          /\ report' = Assess(Recorded(evidence), Canonical \ left, substituted, clock)
    BY <1>6 DEF AssessReport
  <2>2. evidence.is = "snapshot" /\ UNCHANGED <<setting, world, evidence>>
    BY <1>6 DEF AssessReport
  <2>. DEFINE passed == (GatesPassed(Recorded(evidence), clock) \cap (Canonical \ left)) \ substituted
  <2>3. report' = [passed |-> passed, at |-> clock, computed |-> TRUE]
        /\ passed \subseteq Canonical /\ passed \subseteq GatesPassed(Recorded(evidence), clock)
    BY <2>1 DEF Assess
  <2>. HIDE DEF passed
  <2>4. builder = "complete"
    BY <1>2, <2>2 DEF AnswerInv, NoEvidence
  <2>5. Stages'
    BY <2>2, <2>3 DEF AnswerInv, Stages, WorldInv
  <2>6. ASSUME odd = AsItIs, Permits(report)' PROVE ReportTrue'
    <3>1. Canonical \subseteq GatesPassed(Recorded(evidence), clock)
      BY <2>3, <2>6 DEF Permits
    <3>2. /\ clock - LastTrue("broker") <= HeartbeatAge + Skew
          /\ clock - LastTrue("books") <= ReconciliationAge + Skew
          /\ clock - LastTrue("kill_switch") <= EvidenceAge + Skew
          /\ clock \div Day - approved \div Day <= ApprovalAge
      BY <2>2, <2>6, <3>1, AssessTrue
    <3>3. \A fact : LastTrue(fact)' = LastTrue(fact)
      BY <2>2 DEF LastTrue, world
    <3>4. report'.at = clock /\ approved' = approved
      BY <2>2, <2>3 DEF world
    <3>. QED
      BY <3>2, <3>3, <3>4 DEF ReportTrue
  <2>. QED
    BY <1>2, <1>3, <2>2, <2>4, <2>5, <2>6 DEF AnswerInv, ReportTrue
<1>7. CASE Reload
  <2>1. report' = [report EXCEPT !.computed = FALSE] /\ evidence' = evidence
        /\ report \in [passed : SUBSET Canonical, at : Nat, computed : BOOLEAN]
    BY <1>7 DEF Reload, Reloaded, AnswerInv, Stages
  <2>2. report' \in [passed : SUBSET Canonical, at : Nat, computed : BOOLEAN] /\ ~report'.computed
    BY <2>1
  <2>3. Stages' /\ ~Permits(report)'
    BY <2>1, <2>2 DEF AnswerInv, Stages, Permits
  <2>. QED
    BY <1>2, <1>3, <2>1, <2>3 DEF AnswerInv, ReportTrue
<1>8. CASE AskDefault
  <2>1. PICK mode \in {"paper", "live"} : report' = Assess(RepoRecord(mode), Canonical, {}, clock)
    BY <1>8 DEF AskDefault
  <2>2. builder = "repository" /\ evidence' = evidence
    BY <1>8 DEF AskDefault
  <2>. DEFINE passed == (GatesPassed(RepoRecord(mode), clock) \cap Canonical) \ {}
  <2>3. report' = [passed |-> passed, at |-> clock, computed |-> TRUE]
        /\ passed \subseteq Canonical /\ passed \subseteq GatesPassed(RepoRecord(mode), clock)
    BY <2>1 DEF Assess
  <2>. HIDE DEF passed
  <2>4. ~Permits(report)'
    BY <2>3, RepositoryNeverPermits DEF Permits
  <2>5. Stages'
    BY <2>2, <2>3 DEF AnswerInv, Stages, WorldInv
  <2>. QED
    BY <1>2, <1>3, <2>2, <2>4, <2>5 DEF AnswerInv, ReportTrue
<1>. QED
  BY <1>4, <1>5, <1>6, <1>7, <1>8
     DEF Next, vars, desk, world, Tick, Reconcile, Approve, Ask, Study, Fail, Heal

(* The question, at the end of the chain.                                    *)
LEMMA AskTrue ==
  ASSUME WorldInv, StillInv, AnswerInv, Ask, granted'
  PROVE  /\ clock - LastTrue("broker") <= HeartbeatAge + ReportAge + Skew
         /\ clock - LastTrue("books") <= ReconciliationAge + ReportAge + Skew
         /\ clock - LastTrue("kill_switch") <= EvidenceAge + ReportAge + Skew
         /\ (clock - approved) \div Day <= ApprovalAge + 1
<1>1. granted' = Require(report, "increase", clock)
  BY DEF Ask
<1>2. Permits(report) /\ clock - report.at <= ReportAge
  BY <1>1 DEF Require, Permits
<1>3. /\ clock \in Nat /\ approved \in Nat /\ approved <= clock
      /\ LastTrue("broker") \in Nat /\ LastTrue("books") \in Nat /\ LastTrue("kill_switch") \in Nat
      /\ report.at \in Nat /\ report.at \div Day \in Nat /\ approved \div Day \in Nat
  BY Quotient, EligibilityAssumption DEF WorldInv, LastTrue, Facts, AnswerInv, Stages
<1>4. CASE odd = AsItIs
  <2>1. ReportTrue
    BY <1>4 DEF AnswerInv
  <2>2. clock - report.at <= Day
    BY <1>2, <1>3, GovernanceAssumption, EligibilityAssumption
  <2>3. report.at \div Day - approved \div Day <= ApprovalAge
    BY <1>2, <2>1 DEF ReportTrue
  <2>4. (clock - approved) \div Day <= ApprovalAge + 1
    BY <1>3, <2>2, <2>3, QuotientGap, EligibilityAssumption
  <2>. QED
    BY <1>2, <1>3, <2>1, <2>4, EligibilityAssumption DEF ReportTrue
<1>5. CASE odd # AsItIs
  <2>1. holds = Facts /\ approved = clock
    BY <1>5 DEF StillInv
  <2>2. LastTrue("broker") = clock /\ LastTrue("books") = clock /\ LastTrue("kill_switch") = clock
    BY <2>1 DEF LastTrue, Facts
  <2>3. (clock - approved) \div Day = 0
    BY <1>3, <2>1, EligibilityAssumption
  <2>. QED
    BY <1>3, <2>1, <2>2, <2>3, EligibilityAssumption
<1>. QED
  BY <1>4, <1>5

(* An order that may increase risk is allowed only on facts that were true no    *)
(* longer ago than the limits allow (governance/eligibility.py,              *)
(* require_live_eligible): for any limits, clock and course of the world.     *)
THEOREM AuthorisedTruly == Spec => AuthorisedOnFacts
<1>. DEFINE I == WorldInv /\ StillInv /\ AnswerInv
            A == Ask /\ granted' =>
                   /\ clock - LastTrue("broker") <= HeartbeatAge + ReportAge + Skew
                   /\ clock - LastTrue("books") <= ReconciliationAge + ReportAge + Skew
                   /\ clock - LastTrue("kill_switch") <= EvidenceAge + ReportAge + Skew
                   /\ (clock - approved) \div Day <= ApprovalAge + 1
<1>1. Init => I
  BY WorldBegins, AnswerBegins
<1>2. I /\ [Next]_vars => I'
  BY WorldSteps, AnswerSteps
<1>3. I /\ [Next]_vars => [A]_vars
  BY AskTrue
<1>. QED
  BY <1>1, <1>2, <1>3, PTL DEF Spec, AuthorisedOnFacts

-----------------------------------------------------------------------------
(* Nothing permits unproven                                                  *)

(* A record whose gates all pass holds, in every field, what the field is for.  *)
LEMMA FlagsHeld ==
  ASSUME NEW e, NEW moment, Canonical \subseteq GatesPassed(e, moment), NEW f \in Flags
  PROVE  e[f].is = "boolean"
<1>1. /\ \A g \in DataNames : DataGates(e, moment)[g]
      /\ \A g \in StatisticalNames : StatisticalGates(e)[g]
      /\ \A g \in ExecutionNames : ExecutionGates(e, moment)[g]
      /\ \A g \in RiskNames : RiskGates(e)[g]
  BY GroupsApart, GateOfGroup
<1>2. \A g \in {"price_history_is_real_market_data", "point_in_time_index_constituents_available",
                "point_in_time_fundamentals_available", "data_quality_audit_passed",
                "real_ohlc_available", "corporate_actions_adjusted", "market_data_feed_healthy"} : Flag(e[g])
  BY <1>1 DEF DataNames, DataGates
<1>3. Flag(e["purged_walk_forward_completed"]) /\ Flag(e["label_embargo_applied"])
  BY <1>1 DEF StatisticalNames, StatisticalGates
<1>4. /\ \A g \in {"broker_auth_verified", "broker_session_valid", "order_lifecycle_verified",
                  "reconciliation_verified", "last_reconciliation_succeeded",
                  "duplicate_order_protection_verified", "kill_switch_verified",
                  "timezone_squareoff_verified", "eligibility_enforced_at_order_path"} : Flag(e[g])
      /\ NotFlag(e["broker_api_degraded"])
  BY <1>1 DEF ExecutionNames, ExecutionGates
<1>5. Flag(e["risk_limits_loaded"]) /\ NotFlag(e["kill_switch_engaged"])
  BY <1>1 DEF RiskNames, RiskGates
<1>. QED
  BY <1>2, <1>3, <1>4, <1>5 DEF Flags, Flag, NotFlag

LEMMA NumbersHeld ==
  ASSUME NEW e, NEW moment, Canonical \subseteq GatesPassed(e, moment), NEW f \in Numbers
  PROVE  Finite(e[f])
<1>1. /\ \A g \in DataNames : DataGates(e, moment)[g]
      /\ \A g \in StatisticalNames : StatisticalGates(e)[g]
      /\ \A g \in PerformanceNames : PerformanceGates(e)[g]
      /\ \A g \in ExecutionNames : ExecutionGates(e, moment)[g]
      /\ \A g \in RiskNames : RiskGates(e)[g]
      /\ \A g \in PaperNames : PaperGates(e, moment)[g]
  BY GroupsApart, GateOfGroup
<1>. USE DEF MinValue, MaxValue, Above, Below
<1>2. \A g \in {"price_history_symbols", "intraday_history_days"} : Finite(e[g])
  BY <1>1 DEF DataNames, DataGates
<1>3. \A g \in {"deflated_sharpe_ratio", "probability_of_backtest_overfitting",
                "net_annual_excess_return_vs_benchmark", "n_trials_recorded",
                "n_trials_used_in_dsr"} : Finite(e[g])
  BY <1>1 DEF StatisticalNames, StatisticalGates, HonestTrials
<1>4. \A g \in {"oos_sharpe", "max_drawdown", "slippage_multiple_survived",
                "oos_sharpe_at_stressed_costs"} \cup Shares : Finite(e[g])
  BY <1>1 DEF PerformanceNames, PerformanceGates, Shares
<1>5. Finite(e["open_reconciliation_breaks"])
  BY <1>1 DEF ExecutionNames, ExecutionGates
<1>6. Finite(e["active_risk_limit_breaches"]) /\ Finite(e["current_drawdown"])
  BY <1>1 DEF RiskNames, RiskGates
<1>7. \A g \in {"paper_trading_days", "paper_sharpe", "backtest_expected_sharpe"} : Finite(e[g])
  BY <1>1 DEF PaperNames, PaperGates, PaperMatches
<1>. QED
  BY <1>2, <1>3, <1>4, <1>5, <1>6, <1>7 DEF Numbers, Sharpes, Fractions, Counts

LEMMA OthersHeld ==
  ASSUME NEW e, NEW moment, Canonical \subseteq GatesPassed(e, moment)
  PROVE  /\ \A f \in Texts : Named(e[f])
         /\ \A f \in Dates : e[f].is = "date"
         /\ \A f \in Instants : e[f].is = "instant"
<1>1. /\ \A g \in DataNames : DataGates(e, moment)[g]
      /\ \A g \in StatisticalNames : StatisticalGates(e)[g]
      /\ \A g \in ExecutionNames : ExecutionGates(e, moment)[g]
      /\ \A g \in PaperNames : PaperGates(e, moment)[g]
  BY GroupsApart, GateOfGroup
<1>2. Fresh(e["evidence_gathered_at"], EvidenceAge, moment) /\ LongHistory(e["price_history_start"], e["price_history_end"])
  BY <1>1 DEF DataNames, DataGates
<1>3. Named(e["benchmark_name"])
  BY <1>1 DEF StatisticalNames, StatisticalGates
<1>4. Fresh(e["broker_reachable_at"], HeartbeatAge, moment) /\ Fresh(e["last_reconciliation_at"], ReconciliationAge, moment)
  BY <1>1 DEF ExecutionNames, ExecutionGates
<1>5. HumanEnabled(e)
  BY <1>1 DEF PaperNames, PaperGates
<1>6. Named(Text("live"))
  BY DEF Named, Text
<1>. QED
  BY <1>2, <1>3, <1>4, <1>5, <1>6 DEF Texts, Dates, Instants, Fresh, LongHistory, HumanEnabled

LEMMA NumbersPossible ==
  ASSUME NEW e, NEW moment, Canonical \subseteq GatesPassed(e, moment), NEW f \in Numbers
  PROVE  Possible(f, e[f].number)
<1>1. DataGates(e, moment)["evidence_well_formed"]
  BY GroupsApart, GateOfGroup DEF DataNames
<1>2. WellFormed(e, moment)
  BY <1>1 DEF DataGates
<1>3. Finite(e[f]) /\ e[f] # Nothing
  BY NumbersHeld DEF Finite, Nothing
<1>4. f \in Fields /\ f \notin Flags \cup Texts \cup Dates \cup Instants
  BY DEF Fields, Numbers, Sharpes, Shares, Fractions, Counts, Flags, Texts, Dates, Instants
<1>. QED
  BY <1>2, <1>3, <1>4 DEF WellFormed

(* The value the builder gets wrong is one its field may hold.                 *)
OddFits ==
    LET v == odd[2]  f == odd[1] IN
    \/ f \in Numbers /\ Finite(v) /\ Possible(f, v.number)
    \/ f \in Flags /\ v.is = "boolean"
    \/ f \in Texts /\ Named(v)
    \/ f \in Dates /\ v.is = "date"
    \/ f \in Instants /\ v.is = "instant"

ProofInv ==
    /\ odd \in Oddities \cup {AsItIs}
    /\ odd # AsItIs /\ Permits(report) => OddFits
    /\ study.is \in {"missing", "study"}

LEMMA OddFieldFits ==
  ASSUME odd \in Oddities, NEW e, NEW moment, Canonical \subseteq GatesPassed(Recorded(e), moment)
  PROVE  OddFits
<1>. DEFINE r == Recorded(e)
<1>1. odd[1] \in Fields
  BY GovernanceAssumption
<1>2. r[odd[1]] = odd[2]
  BY <1>1 DEF Recorded
<1>3. /\ \A f \in Flags : r[f].is = "boolean"
      /\ \A f \in Numbers : Finite(r[f]) /\ Possible(f, r[f].number)
      /\ \A f \in Texts : Named(r[f])
      /\ \A f \in Dates : r[f].is = "date"
      /\ \A f \in Instants : r[f].is = "instant"
  BY FlagsHeld, NumbersHeld, NumbersPossible, OthersHeld
<1>. HIDE DEF r
<1>. QED
  BY <1>1, <1>2, <1>3 DEF Fields, OddFits

LEMMA ProofBegins == Init => ProofInv
<1>. SUFFICES ASSUME Init PROVE ProofInv
  OBVIOUS
<1>1. odd \in Oddities \cup {AsItIs}
  BY DEF Init
<1>2. ~Permits(report)
  BY DEF Init, Permits
<1>3. study.is \in {"missing", "study"}
  <2>1. CASE study = NoStudy
    BY <2>1 DEF NoStudy
  <2>2. CASE ResearchInit
    <3>. DEFINE old == [is |-> "study", provenance |-> "", validated |-> TRUE, pit |-> FALSE,
                        outcome |-> CHOOSE o \in Outcomes : TRUE, folds |-> {}]
    <3>1. study \in {NoStudy, old}
      BY <2>2 DEF ResearchInit
    <3>2. old.is = "study"
      OBVIOUS
    <3>. HIDE DEF old
    <3>. QED
      BY <3>1, <3>2 DEF NoStudy
  <2>. QED
    BY <2>1, <2>2 DEF Init
<1>. QED
  BY <1>1, <1>2, <1>3 DEF ProofInv

LEMMA ProofSteps ==
  ASSUME WorldInv, StillInv, AnswerInv, ProofInv, [Next]_vars
  PROVE  ProofInv'
<1>1. odd' = odd
  BY WorldSteps DEF setting
<1>2. AnswerInv'
  BY AnswerSteps
<1>3. study'.is \in {"missing", "study"}
  <2>1. CASE UNCHANGED study
    BY <2>1 DEF ProofInv
  <2>2. ASSUME NEW pit \in BOOLEAN, RunStudy(pit) PROVE study'.is = "study"
    BY <2>2 DEF RunStudy
  <2>. QED
    BY <2>1, <2>2
       DEF Next, vars, research, ResearchNext, Acquire, Revise, Tick, Reconcile, Approve, Gather,
           AssessReport, Reload, Ask, AskDefault, Study, Fail, Heal
<1>4. ASSUME odd # AsItIs, Permits(report)' PROVE OddFits
  <2>1. CASE UNCHANGED report
    BY <1>4, <2>1 DEF ProofInv, Permits
  <2>2. CASE AssessReport
    <3>1. PICK left \in {{}, {"max_drawdown_limit"}}, substituted \in {{}, {"max_drawdown_limit"}} :
            report' = Assess(Recorded(evidence), Canonical \ left, substituted, clock)
      BY <2>2 DEF AssessReport
    <3>2. Canonical \subseteq GatesPassed(Recorded(evidence), clock)
      BY <1>4, <3>1 DEF Assess, Permits
    <3>. QED
      BY <1>4, <3>2, OddFieldFits DEF ProofInv
  <2>3. CASE Reload
    <3>1. report' = [report EXCEPT !.computed = FALSE]
          /\ report \in [passed : SUBSET Canonical, at : Nat, computed : BOOLEAN]
      BY <2>3 DEF Reload, Reloaded, AnswerInv, Stages
    <3>2. ~report'.computed
      BY <3>1
    <3>. QED
      BY <1>4, <3>2 DEF Permits
  <2>4. CASE AskDefault
    <3>1. builder' = "repository"
      BY <2>4 DEF AskDefault, setting
    <3>. QED
      BY <1>2, <1>4, <3>1 DEF AnswerInv
  <2>. QED
    BY <2>1, <2>2, <2>3, <2>4
       DEF Next, vars, desk, world, Tick, Reconcile, Approve, Gather, Ask, Study, Fail, Heal
<1>. QED
  BY <1>1, <1>3, <1>4 DEF ProofInv, OddFits

(* Of a study that was not made point in time the repository says nothing.       *)
LEMMA UnprovenIsUnknown ==
  ASSUME ProofInv, ~(study.is = "study" /\ study.pit),
         NEW f \in {"oos_sharpe", "oos_sharpe_at_stressed_costs", "deflated_sharpe_ratio",
                   "probability_of_backtest_overfitting", "purged_walk_forward_completed",
                   "net_annual_excess_return_vs_benchmark"}
  PROVE  RepoRecord("live")[f] = Nothing
<1>1. RepoStatistics = Unknown
  BY DEF ProofInv, RepoStatistics
<1>2. f \in Fields
  BY DEF Fields, Flags, Numbers, Sharpes, Fractions
<1>3. Unknown[f] = Nothing
  BY <1>2 DEF Unknown
<1>4. f \notin {"evidence_gathered_at", "price_history_symbols", "price_history_start",
               "price_history_end", "price_history_is_real_market_data",
               "point_in_time_index_constituents_available",
               "point_in_time_fundamentals_available", "intraday_history_days",
               "eligibility_enforced_at_order_path", "trading_mode"}
  OBVIOUS
<1>5. RepoStatistics[f] = Nothing /\ f \in DOMAIN RepoStatistics
  BY <1>1, <1>2, <1>3 DEF Unknown
<1>6. RepoRecord("live")[f] = RepoStatistics[f]
  BY <1>4, <1>5 DEF RepoRecord
<1>. QED
  BY <1>5, <1>6

LEMMA StatisticsHonest == ProofInv => StatisticsArePointInTime
<1>. DEFINE e == RepoRecord("live")
            judging == {"oos_sharpe_floor", "deflated_sharpe_ratio", "cost_and_slippage_stress",
                        "probability_of_backtest_overfitting", "beats_passive_benchmark",
                        "purged_walk_forward"}
<1>. SUFFICES ASSUME ProofInv, ~(study.is = "study" /\ study.pit), NEW g \in judging,
                     g \in GatesPassed(e, clock)
              PROVE  FALSE
  BY DEF StatisticsArePointInTime
<1>1. \A f \in {"oos_sharpe", "oos_sharpe_at_stressed_costs", "deflated_sharpe_ratio",
                "probability_of_backtest_overfitting", "purged_walk_forward_completed",
                "net_annual_excess_return_vs_benchmark"} : e[f] = Nothing
  BY UnprovenIsUnknown
<1>. HIDE DEF e
<1>2. /\ g \in StatisticalNames => StatisticalGates(e)[g]
      /\ g \in PerformanceNames => PerformanceGates(e)[g]
  BY GateOfGroup
<1>3. /\ ~Finite(Nothing) /\ ~Flag(Nothing) /\ \A x : ~MinValue(Nothing, x)
      /\ \A x : ~Above(Nothing, x) /\ ~Below(Nothing, x)
  BY DEF Finite, Flag, MinValue, Above, Below, Nothing
<1>4. /\ ~StatisticalGates(e)["purged_walk_forward"]
      /\ ~StatisticalGates(e)["deflated_sharpe_ratio"]
      /\ ~StatisticalGates(e)["probability_of_backtest_overfitting"]
      /\ ~StatisticalGates(e)["beats_passive_benchmark"]
  BY <1>1, <1>3 DEF StatisticalGates
<1>5. ~PerformanceGates(e)["oos_sharpe_floor"] /\ ~PerformanceGates(e)["cost_and_slippage_stress"]
  BY <1>1, <1>3 DEF PerformanceGates
<1>6. CASE g \in {"deflated_sharpe_ratio", "probability_of_backtest_overfitting",
                 "beats_passive_benchmark", "purged_walk_forward"}
  BY <1>2, <1>4, <1>6 DEF StatisticalNames
<1>7. CASE g \in {"oos_sharpe_floor", "cost_and_slippage_stress"}
  BY <1>2, <1>5, <1>7 DEF PerformanceNames
<1>. QED
  BY <1>6, <1>7

(* No field that is missing, of another kind or impossible, and no study of       *)
(* survivors, lets a report permit (the gates of governance/eligibility.py and the  *)
(* record gather_repo_evidence makes): whichever field the builder gets wrong.  *)
THEOREM UnprovenNeverPermits == Spec => []NothingPermitsUnproven
<1>. DEFINE I == WorldInv /\ StillInv /\ AnswerInv /\ ProofInv
<1>1. Init => I
  BY WorldBegins, AnswerBegins, ProofBegins
<1>2. I /\ [Next]_vars => I'
  BY WorldSteps, AnswerSteps, ProofSteps
<1>3. I => NothingPermitsUnproven
  BY StatisticsHonest DEF ProofInv, OddFits, NothingPermitsUnproven, SilenceBlocks
<1>. QED
  BY <1>1, <1>2, <1>3, PTL DEF Spec

-----------------------------------------------------------------------------
(* The registry of models                                                   *)

Row == [model : Trained, active : BOOLEAN, lazy : BOOLEAN]
Entry == [model : Trained, active : BOOLEAN]

RegistryShape ==
    /\ rows \in Seq(Row)
    /\ manifest \in [whole : BOOLEAN, rows : Seq(Entry)]
    /\ DOMAIN files = Paths
    /\ promoted \in Trained \cup {NoModel} /\ disturbed \in BOOLEAN
    /\ \/ doing = Resting \/ doing = [at |-> "loading"]
       \/ doing \in [at : {"saving", "appending"}, model : Trained, active : BOOLEAN]

Registering == doing.at \in {"saving", "appending"}

OneActive(table) == \A i, j \in DOMAIN table : table[i].active /\ table[j].active => i = j

(* A table names the promoted model as the active one.                       *)
Names(table) ==
    /\ \A i \in DOMAIN table : table[i].active => table[i].model = promoted
    /\ promoted # NoModel => \E i \in DOMAIN table : table[i].active

(* Memory is to agree with the manifest: no start and no promotion is underway.     *)
AtRest == doing = Resting \/ (Registering /\ ~doing.active)

(* Memory, manifest and file agree on the promoted model, unless a write went  *)
(* wrong or a registration is to promote another.                           *)
RegistryInv ==
    /\ RegistryShape
    /\ OneActive(rows) /\ OneActive(manifest.rows)
    /\ Registering /\ doing.active => \A i \in DOMAIN rows : ~rows[i].active
    /\ doing.at = "appending" => files[PathOf(doing.model)] = doing.model
    /\ ~disturbed =>
         /\ Names(manifest.rows)
         /\ promoted # NoModel => files[PathOf(promoted)] = promoted
         /\ AtRest => Names(rows)

LEMMA DoingShapes ==
  ASSUME RegistryInv
  PROVE  /\ doing.at \in {"idle", "loading", "saving", "appending"}
         /\ doing.at = "idle" <=> doing = Resting
         /\ Registering => /\ doing \in [at : {"saving", "appending"}, model : Trained, active : BOOLEAN]
                           /\ doing.model \in Trained /\ doing.active \in BOOLEAN
BY DEF RegistryInv, RegistryShape, Resting, Registering

LEMMA TableRows ==
  ASSUME NEW S, NEW table \in Seq(S), NEW x \in S
  PROVE  /\ DOMAIN Append(table, x) = DOMAIN table \cup {Len(table) + 1}
         /\ Len(table) + 1 \notin DOMAIN table
         /\ \A i \in DOMAIN table : Append(table, x)[i] = table[i] /\ table[i] \in S
         /\ Append(table, x)[Len(table) + 1] = x /\ Append(table, x) \in Seq(S)
BY AppendProperties, LenProperties, ElementOfSeq

LEMMA RegistryBegins == RegistryInit => RegistryInv
<1>. SUFFICES ASSUME RegistryInit PROVE RegistryInv
  OBVIOUS
<1>1. /\ rows = <<>> /\ files = [p \in Paths |-> NoModel] /\ manifest = [whole |-> TRUE, rows |-> <<>>]
      /\ doing = Resting /\ promoted = NoModel /\ disturbed = FALSE
  BY DEF RegistryInit, Intact
<1>2. DOMAIN rows = {} /\ DOMAIN manifest.rows = {}
  BY <1>1
<1>3. RegistryShape
  <2>1. rows \in Seq(Row) /\ manifest \in [whole : BOOLEAN, rows : Seq(Entry)]
    BY <1>1
  <2>2. DOMAIN files = Paths
    BY <1>1
  <2>. QED
    BY <1>1, <2>1, <2>2 DEF RegistryShape
<1>. QED
  BY <1>1, <1>2, <1>3 DEF RegistryInv, AtRest, OneActive, Names, Registering, Resting

LEMMA RegisterKeeps ==
  ASSUME RegistryInv, NEW t \in Trained, NEW active \in BOOLEAN, Register(t, active)
  PROVE  RegistryInv'
<1>1. /\ doing = Resting /\ doing' = [at |-> "saving", model |-> t, active |-> active]
      /\ rows' = (IF active THEN Deactivated ELSE rows)
      /\ files' = files /\ manifest' = manifest /\ promoted' = promoted /\ disturbed' = disturbed
  BY DEF Register
<1>2. RegistryShape /\ DOMAIN rows' = DOMAIN rows /\ rows \in Seq(Row)
  BY <1>1 DEF RegistryInv, RegistryShape, Deactivated
<1>3. Deactivated \in Seq(Row) /\ DOMAIN Deactivated = DOMAIN rows
      /\ \A i \in DOMAIN rows : ~Deactivated[i].active
  <2>1. \A i \in DOMAIN rows : rows[i] \in Row
    BY <1>2
  <2>2. \A i \in DOMAIN rows : Deactivated[i] \in Row /\ ~Deactivated[i].active
    BY <2>1 DEF Deactivated, Row
  <2>3. DOMAIN rows = 1..Len(rows) /\ Len(rows) \in Nat /\ DOMAIN Deactivated = DOMAIN rows
    BY <1>2 DEF Deactivated
  <2>4. Deactivated = [i \in 1..Len(rows) |-> [rows[i] EXCEPT !.active = FALSE]]
    BY <2>3 DEF Deactivated
  <2>. HIDE DEF Deactivated
  <2>5. Deactivated \in Seq(Row)
    BY <2>2, <2>3, <2>4
  <2>. QED
    BY <2>2, <2>3, <2>5
<1>4. RegistryShape'
  BY <1>1, <1>2, <1>3 DEF RegistryShape
<1>5. CASE active
  BY <1>1, <1>3, <1>4, <1>5 DEF RegistryInv, AtRest, OneActive, Names, Registering, Resting
<1>6. CASE ~active
  <2>1. rows' = rows /\ doing'.at = "saving" /\ ~doing'.active
    BY <1>1, <1>6
  <2>2. ~disturbed => Names(manifest.rows) /\ Names(rows)
                        /\ (promoted # NoModel => files[PathOf(promoted)] = promoted)
    <3>1. AtRest
      BY <1>1 DEF AtRest
    <3>. QED
      BY <3>1 DEF RegistryInv
  <2>3. OneActive(rows) /\ OneActive(manifest.rows)
    BY DEF RegistryInv
  <2>4. ~disturbed' => Names(manifest.rows)' /\ Names(rows)'
                        /\ (promoted' # NoModel => files'[PathOf(promoted')] = promoted')
    BY <1>1, <2>1, <2>2 DEF Names
  <2>. QED
    BY <1>1, <1>4, <2>1, <2>3, <2>4 DEF RegistryInv, OneActive
<1>. QED
  BY <1>5, <1>6

LEMMA SaveModelKeeps ==
  ASSUME RegistryInv, SaveModel
  PROVE  RegistryInv'
<1>. DEFINE path == PathOf(doing.model)
<1>1. /\ doing.at = "saving" /\ doing' = [doing EXCEPT !.at = "appending"]
      /\ files' = [files EXCEPT ![path] = doing.model]
      /\ disturbed' = (disturbed \/ (promoted # NoModel /\ PathOf(promoted) = path))
      /\ rows' = rows /\ manifest' = manifest /\ promoted' = promoted
  BY DEF SaveModel
<1>2. /\ doing \in [at : {"saving", "appending"}, model : Trained, active : BOOLEAN]
      /\ doing.model \in Trained /\ doing.active \in BOOLEAN /\ RegistryShape
  BY <1>1, DoingShapes DEF Registering, RegistryInv
<1>3. /\ doing' \in [at : {"saving", "appending"}, model : Trained, active : BOOLEAN]
      /\ doing'.at = "appending" /\ doing'.model = doing.model /\ doing'.active = doing.active
  BY <1>1, <1>2
<1>4. DOMAIN files = Paths /\ path \in Paths /\ (promoted # NoModel => PathOf(promoted) \in Paths)
  BY <1>2 DEF RegistryShape, Paths
<1>5. /\ files'[path] = doing.model /\ DOMAIN files' = Paths
      /\ ~disturbed' /\ promoted # NoModel => files'[PathOf(promoted)] = files[PathOf(promoted)]
  BY <1>1, <1>4
<1>6. RegistryShape'
  BY <1>1, <1>2, <1>3, <1>5 DEF RegistryShape
<1>7. ~disturbed' => ~disturbed
  BY <1>1, <1>2 DEF RegistryShape
<1>. HIDE DEF path
<1>8. Registering' <=> Registering
  BY <1>1, <1>3 DEF Registering
<1>9. doing' # Resting
  BY <1>3 DEF Resting
<1>. QED
  BY <1>1, <1>3, <1>5, <1>6, <1>7, <1>8, <1>9 DEF RegistryInv, AtRest, OneActive, Names, path

(* A registration appends its row in memory.                                *)
LEMMA RowAppended ==
  ASSUME RegistryInv, doing.at = "appending",
         rows' = Append(rows, [model |-> doing.model, active |-> doing.active, lazy |-> FALSE])
  PROVE  /\ rows' \in Seq(Row) /\ OneActive(rows)'
         /\ DOMAIN rows' = DOMAIN rows \cup {Len(rows) + 1} /\ Len(rows) + 1 \notin DOMAIN rows
         /\ \A i \in DOMAIN rows : rows'[i] = rows[i]
         /\ rows'[Len(rows) + 1] = [model |-> doing.model, active |-> doing.active, lazy |-> FALSE]
<1>. DEFINE x == [model |-> doing.model, active |-> doing.active, lazy |-> FALSE]
            n == Len(rows) + 1
<1>1. doing.model \in Trained /\ doing.active \in BOOLEAN /\ rows \in Seq(Row)
      /\ (doing.active => \A i \in DOMAIN rows : ~rows[i].active) /\ OneActive(rows)
  BY DoingShapes DEF RegistryInv, RegistryShape, Registering
<1>2. x \in Row
  BY <1>1 DEF Row
<1>3. x.active = doing.active
  OBVIOUS
<1>. HIDE DEF x
<1>4. /\ DOMAIN rows' = DOMAIN rows \cup {n} /\ n \notin DOMAIN rows /\ rows' \in Seq(Row)
      /\ \A i \in DOMAIN rows : rows'[i] = rows[i]
      /\ rows'[n] = x
  BY <1>1, <1>2, TableRows DEF x
<1>. HIDE DEF n
<1>5. ASSUME NEW i \in DOMAIN rows', NEW j \in DOMAIN rows', rows'[i].active, rows'[j].active
      PROVE  i = j
  <2>1. CASE i = n \/ j = n
    <3>1. doing.active
      BY <1>3, <1>4, <1>5, <2>1
    <3>. QED
      BY <1>1, <1>4, <1>5, <3>1
  <2>2. CASE i # n /\ j # n
    BY <1>1, <1>4, <1>5, <2>2 DEF OneActive
  <2>. QED
    BY <2>1, <2>2
<1>6. OneActive(rows)'
  BY <1>5 DEF OneActive
<1>. QED
  BY <1>4, <1>6 DEF n, x

LEMMA SaveManifestKeeps ==
  ASSUME RegistryInv, SaveManifest
  PROVE  RegistryInv'
<1>1. /\ doing.at = "appending" /\ doing' = Resting
      /\ rows' = Append(rows, [model |-> doing.model, active |-> doing.active, lazy |-> FALSE])
      /\ manifest' = [whole |-> TRUE,
                      rows |-> [i \in DOMAIN rows' |-> [model |-> rows'[i].model, active |-> rows'[i].active]]]
      /\ promoted' = (IF doing.active THEN doing.model ELSE promoted)
      /\ disturbed' = (IF doing.active THEN FALSE ELSE disturbed) /\ files' = files
  BY DEF SaveManifest, Intact
<1>2. /\ rows' \in Seq(Row) /\ OneActive(rows)'
      /\ DOMAIN rows' = DOMAIN rows \cup {Len(rows) + 1} /\ Len(rows) + 1 \notin DOMAIN rows
      /\ \A i \in DOMAIN rows : rows'[i] = rows[i]
      /\ rows'[Len(rows) + 1] = [model |-> doing.model, active |-> doing.active, lazy |-> FALSE]
  BY <1>1, RowAppended
<1>3. /\ doing.model \in Trained /\ doing.active \in BOOLEAN /\ RegistryShape
      /\ (doing.active => \A i \in DOMAIN rows : ~rows[i].active)
      /\ files[PathOf(doing.model)] = doing.model /\ doing # Resting /\ Registering
      /\ ~disturbed => (promoted # NoModel => files[PathOf(promoted)] = promoted)
      /\ ~disturbed /\ ~doing.active => Names(rows)
  BY <1>1, DoingShapes DEF RegistryInv, AtRest, Registering, Resting
<1>. DEFINE table == manifest'.rows
<1>4. /\ table = [i \in DOMAIN rows' |-> [model |-> rows'[i].model, active |-> rows'[i].active]]
      /\ manifest' = [whole |-> TRUE, rows |-> table]
  BY <1>1
<1>. HIDE DEF table
<1>5. /\ DOMAIN table = DOMAIN rows' /\ table \in Seq(Entry)
      /\ \A i \in DOMAIN rows' : table[i].model = rows'[i].model /\ table[i].active = rows'[i].active
  <2>1. \A i \in DOMAIN rows' : rows'[i] \in Row
    BY <1>2
  <2>2. DOMAIN rows' = 1..Len(rows') /\ Len(rows') \in Nat
    BY <1>2
  <2>3. \A i \in DOMAIN rows' : table[i] \in Entry /\ table[i].model = rows'[i].model
                                /\ table[i].active = rows'[i].active
    BY <1>4, <2>1 DEF Row, Entry
  <2>4. table \in [1..Len(rows') -> Entry]
    BY <1>4, <2>2, <2>3
  <2>. QED
    BY <1>4, <2>2, <2>3, <2>4, SeqDef
<1>6. RegistryShape'
  <2>1. disturbed' \in BOOLEAN
    BY <1>1, <1>3 DEF RegistryShape
  <2>2. promoted' \in Trained \cup {NoModel}
    BY <1>1, <1>3 DEF RegistryShape
  <2>3. manifest' \in [whole : BOOLEAN, rows : Seq(Entry)]
    BY <1>4, <1>5
  <2>4. DOMAIN files' = Paths
    BY <1>1, <1>3 DEF RegistryShape
  <2>. QED
    BY <1>1, <1>2, <2>1, <2>2, <2>3, <2>4 DEF RegistryShape
<1>7. OneActive(table)
  BY <1>2, <1>5 DEF OneActive
<1>8. ~disturbed' => /\ Names(rows)' /\ (promoted' # NoModel => files'[PathOf(promoted')] = promoted')
  <2>1. CASE doing.active
    <3>1. promoted' = doing.model
      BY <1>1, <2>1
    <3>2. \A i \in DOMAIN rows' : rows'[i].active => rows'[i].model = doing.model
      BY <1>2, <1>3, <2>1
    <3>3. \E i \in DOMAIN rows' : rows'[i].active
      BY <1>2, <2>1
    <3>. QED
      BY <1>1, <1>3, <3>1, <3>2, <3>3 DEF Names
  <2>2. CASE ~doing.active
    <3>1. promoted' = promoted /\ disturbed' = disturbed
      BY <1>1, <2>2
    <3>2. ~rows'[Len(rows) + 1].active
      BY <1>2, <2>2
    <3>. SUFFICES ASSUME ~disturbed
                  PROVE  Names(rows)' /\ (promoted # NoModel => files'[PathOf(promoted)] = promoted)
      BY <3>1
    <3>3. Names(rows)
      BY <1>3, <2>2
    <3>4. Names(rows)'
      BY <1>2, <3>1, <3>2, <3>3 DEF Names
    <3>. QED
      BY <1>1, <1>3, <3>4
  <2>. QED
    BY <1>3, <2>1, <2>2
<1>9. Names(rows)' => Names(manifest.rows)'
  BY <1>4, <1>5 DEF Names, table
<1>. QED
  BY <1>1, <1>2, <1>6, <1>7, <1>8, <1>9 DEF RegistryInv, AtRest, Registering, Resting, table, OneActive

LEMMA WriteFailsKeeps ==
  ASSUME RegistryInv, WriteFails
  PROVE  RegistryInv'
<1>1. /\ doing.at \in {"saving", "appending"} /\ doing' = Resting /\ disturbed' = TRUE /\ promoted' = promoted
      /\ IF doing.at = "saving"
         THEN files' \in {files, [files EXCEPT ![PathOf(doing.model)] = Torn]} /\ UNCHANGED <<rows, manifest>>
         ELSE /\ rows' = Append(rows, [model |-> doing.model, active |-> doing.active, lazy |-> FALSE])
              /\ manifest' \in {manifest, Half} /\ UNCHANGED files
  BY DEF WriteFails
<1>2. RegistryShape /\ OneActive(rows) /\ OneActive(manifest.rows)
  BY DEF RegistryInv
<1>3. rows' \in Seq(Row) /\ OneActive(rows)'
  <2>1. CASE doing.at = "saving"
    BY <1>1, <1>2, <2>1 DEF RegistryShape, OneActive
  <2>2. CASE doing.at = "appending"
    BY <1>1, <2>2, RowAppended
  <2>. QED
    BY <1>1, <2>1, <2>2
<1>4. manifest' \in [whole : BOOLEAN, rows : Seq(Entry)] /\ OneActive(manifest.rows)'
  <2>1. CASE manifest' = manifest
    BY <1>2, <2>1 DEF RegistryShape, OneActive
  <2>2. CASE manifest' = Half
    BY <2>2 DEF Half, OneActive
  <2>. QED
    BY <1>1, <2>1, <2>2
<1>5. DOMAIN files' = Paths
  BY <1>1, <1>2 DEF RegistryShape
<1>6. RegistryShape'
  BY <1>1, <1>2, <1>3, <1>4, <1>5 DEF RegistryShape
<1>. QED
  BY <1>1, <1>3, <1>4, <1>6 DEF RegistryInv, AtRest, Registering, Resting

LEMMA RestartKeeps ==
  ASSUME RegistryInv, Restart
  PROVE  RegistryInv'
<1>1. /\ files' \in {files, [files EXCEPT ![PathOf(doing.model)] = Torn]}
      /\ manifest' \in {manifest, Half}
      /\ disturbed' = (disturbed \/ files' # files \/ manifest' # manifest)
      /\ doing' = [at |-> "loading"] /\ rows' = rows /\ promoted' = promoted
  BY DEF Restart
<1>2. RegistryShape /\ OneActive(rows) /\ OneActive(manifest.rows)
  BY DEF RegistryInv
<1>3. manifest' \in [whole : BOOLEAN, rows : Seq(Entry)] /\ OneActive(manifest.rows)'
  <2>1. CASE manifest' = manifest
    BY <1>2, <2>1 DEF RegistryShape, OneActive
  <2>2. CASE manifest' = Half
    BY <2>2 DEF Half, OneActive
  <2>. QED
    BY <1>1, <2>1, <2>2
<1>4. RegistryShape'
  <2>1. DOMAIN files' = Paths
    BY <1>1, <1>2 DEF RegistryShape
  <2>2. disturbed' \in BOOLEAN
    BY <1>1, <1>2 DEF RegistryShape
  <2>. QED
    BY <1>1, <1>2, <1>3, <2>1, <2>2 DEF RegistryShape
<1>5. ~disturbed' => ~disturbed /\ files' = files /\ manifest' = manifest
  BY <1>1, <1>2 DEF RegistryShape
<1>6. doing'.at = "loading" /\ doing' # Resting
  BY <1>1 DEF Resting
<1>. QED
  BY <1>1, <1>2, <1>3, <1>4, <1>5, <1>6 DEF RegistryInv, AtRest, Registering, OneActive, Names

LEMMA LoadKeeps ==
  ASSUME RegistryInv, Load
  PROVE  RegistryInv'
<1>1. /\ rows' = Loaded /\ doing' = Resting /\ files' = files /\ manifest' = manifest
      /\ promoted' = promoted /\ disturbed' = disturbed
  BY DEF Load
<1>2. /\ RegistryShape /\ OneActive(manifest.rows)
      /\ ~disturbed => /\ Names(manifest.rows)
                       /\ promoted # NoModel => files[PathOf(promoted)] = promoted
  BY DEF RegistryInv
<1>. DEFINE table == manifest.rows
<1>3. table \in Seq(Entry) /\ DOMAIN table = 1..Len(table) /\ Len(table) \in Nat
  BY <1>2 DEF RegistryShape
<1>4. /\ rows' = [i \in DOMAIN table |-> [model |-> table[i].model, active |-> table[i].active, lazy |-> TRUE]]
  BY <1>1 DEF Loaded
<1>. HIDE DEF table
<1>5. /\ DOMAIN rows' = DOMAIN table
      /\ \A i \in DOMAIN table : /\ rows'[i] \in Row /\ rows'[i].model = table[i].model
                                 /\ rows'[i].active = table[i].active
  <2>1. \A i \in DOMAIN table : table[i] \in Entry
    BY <1>3
  <2>. QED
    BY <1>4, <2>1 DEF Row, Entry
<1>6. rows' \in Seq(Row)
  <2>1. rows' \in [1..Len(table) -> Row]
    BY <1>3, <1>4, <1>5
  <2>. QED
    BY <1>3, <2>1, SeqDef
<1>7. RegistryShape'
  BY <1>1, <1>2, <1>6 DEF RegistryShape
<1>8. OneActive(rows)'
  BY <1>2, <1>5 DEF OneActive, table
<1>9. ~disturbed' => Names(rows)'
  BY <1>1, <1>2, <1>5 DEF Names, table
<1>. QED
  BY <1>1, <1>2, <1>7, <1>8, <1>9 DEF RegistryInv, AtRest, Registering, Resting, OneActive, Names

LEMMA RegistryStays == RegistryInv /\ [RegistryNext]_rgVars => RegistryInv'
<1>. SUFFICES ASSUME RegistryInv, [RegistryNext]_rgVars PROVE RegistryInv'
  OBVIOUS
<1>1. CASE UNCHANGED rgVars
  BY <1>1 DEF rgVars, RegistryInv, AtRest, RegistryShape, Registering, OneActive, Names, Row, Entry, Paths
<1>2. ASSUME NEW t \in Trained, NEW active \in BOOLEAN, Register(t, active) PROVE RegistryInv'
  BY <1>2, RegisterKeeps
<1>. QED
  BY <1>1, <1>2, SaveModelKeeps, SaveManifestKeeps, WriteFailsKeeps, RestartKeeps, LoadKeeps
     DEF RegistryNext

LEMMA RegistryHolds == RegistryInv => ActiveModelSurvives
<1>. SUFFICES ASSUME RegistryInv PROVE ActiveModelSurvives
  OBVIOUS
<1>1. rows \in Seq(Row) /\ OneActive(rows) /\ promoted \in Trained \cup {NoModel}
  BY DEF RegistryInv, RegistryShape
<1>1a. ASSUME doing = Resting, ~disturbed
      PROVE  Names(rows) /\ (promoted # NoModel => files[PathOf(promoted)] = promoted)
  <2>1. AtRest
    BY <1>1a DEF AtRest
  <2>. QED
    BY <1>1a, <2>1 DEF RegistryInv
<1>2. DOMAIN rows = 1..Len(rows) /\ Len(rows) \in Nat /\ \A i \in DOMAIN rows : rows[i] \in Row
  BY <1>1
<1>3. CASE ActiveRows = {}
  <2>1. Cardinality(ActiveRows) <= 1
    BY <1>3, FS_EmptySet
  <2>2. ActiveModel = NoModel
    BY <1>3 DEF ActiveModel
  <2>3. doing = Resting /\ ~disturbed => promoted = NoModel
    BY <1>1a, <1>3 DEF ActiveRows, Names
  <2>. QED
    BY <2>1, <2>2, <2>3 DEF ActiveModelSurvives
<1>4. ASSUME NEW i \in ActiveRows PROVE ActiveModelSurvives
  <2>1. i \in DOMAIN rows /\ rows[i].active /\ i \in Nat /\ rows[i] \in Row
    BY <1>2, <1>4 DEF ActiveRows
  <2>2. ActiveRows = {i}
    BY <1>1, <2>1 DEF ActiveRows, OneActive
  <2>3. Cardinality(ActiveRows) <= 1
    BY <2>2, FS_Singleton
  <2>4. ActiveModel = Behind(rows[i])
    <3>1. \A j \in ActiveRows : (\A k \in ActiveRows : k <= j) <=> j = i
      BY <2>1, <2>2
    <3>2. (CHOOSE j \in ActiveRows : \A k \in ActiveRows : k <= j) = i
      BY <2>2, <3>1
    <3>. QED
      BY <2>2, <3>2 DEF ActiveModel
  <2>5. ASSUME doing = Resting, ~disturbed PROVE Behind(rows[i]) = promoted
    <3>1. rows[i].model = promoted /\ rows[i].model \in Trained
      BY <1>1a, <2>1, <2>5 DEF Names, Row
    <3>2. files[PathOf(promoted)] = promoted
      BY <1>1a, <2>5, <3>1, RegistryAssumption
    <3>. QED
      BY <3>1, <3>2 DEF Behind
  <2>. QED
    BY <2>3, <2>4, <2>5 DEF ActiveModelSurvives
<1>. QED
  BY <1>3, <1>4

(* The model a strategy was last given is the one it predicts with, in this    *)
(* process and the next, wherever a process dies (models/model_registry.py):   *)
(* for any models, names of files, registrations, failures and restarts.       *)
THEOREM PromotedModelSurvives == RegistryInit /\ [][RegistryNext]_rgVars => []ActiveModelSurvives
BY RegistryBegins, RegistryStays, RegistryHolds, PTL


-----------------------------------------------------------------------------
(* THE CHANNEL HUB                                                           *)

Tasks == [at : {"none", "running", "sending", "done"}, todo : SUBSET (Clients \X Nat),
          to : Clients \cup {Unlisted}, dead : SUBSET Clients, owed : SUBSET Clients]

HubTyped ==
    /\ registry \subseteq Clients /\ subs \in [Clients -> Seq(SUBSET Channels)]
    /\ peer \in [Clients -> {"none", "open", "gone"}]
    /\ handler \in [Clients -> {"none", "receiving", "replying", "ended"}]
    /\ task \in [Publishers -> Tasks]

(* A set with the ticks in it is the one in the dictionary, unless its socket's    *)
(* other end is gone.                                                        *)
SetOK(c) ==
    /\ c \in registry => subs[c] # <<>>
    /\ peer[c] = "none" => subs[c] = <<>> /\ handler[c] = "none"
    /\ \A i \in 1..Len(subs[c]) :
         Ticks \in subs[c][i] => peer[c] = "gone" \/ (c \in registry /\ i = Len(subs[c]))

(* One who is owed a message is there and next, or on the list with the ticks.    *)
TaskOK(t) ==
    /\ t.at = "sending" => t.to \in Clients
    /\ \A next \in t.todo : next[2] \in 1..Len(subs[next[1]])
    /\ \A c \in t.dead : peer[c] = "gone"
    /\ t.at \in {"none", "done"} => t.owed = {}
    /\ \A c \in t.owed :
         /\ peer[c] = "open"
         /\ \/ t.at = "sending" /\ t.to = c
            \/ \E next \in t.todo : next[1] = c /\ Ticks \in subs[c][next[2]]

HubInv ==
    /\ HubTyped
    /\ \A c \in Clients : SetOK(c)
    /\ \A p \in Publishers : TaskOK(task[p])

LEMMA HubStart == RtInit => HubInv
<1>. SUFFICES ASSUME RtInit PROVE HubInv
  OBVIOUS
<1>1. NoTask \in Tasks /\ NoTask.at = "none" /\ NoTask.owed = {} /\ NoTask.todo = {} /\ NoTask.dead = {}
  BY DEF NoTask, Tasks
<1>2. HubTyped
  BY <1>1 DEF RtInit, HubTyped
<1>3. \A p \in Publishers : TaskOK(task[p])
  BY <1>1 DEF RtInit, TaskOK
<1>4. \A c \in Clients : SetOK(c)
  BY DEF RtInit, SetOK
<1>. QED
  BY <1>2, <1>3, <1>4 DEF HubInv

(* Fewer are owed.                                                           *)
LeftBy(old, new, leavers) ==
    /\ new \in Tasks
    /\ new.at = old.at /\ new.todo = old.todo /\ new.to = old.to /\ new.dead = old.dead
    /\ new.owed = IF old.at = "done" THEN old.owed ELSE old.owed \ leavers

LEMMA LeaveIs ==
  ASSUME NEW leavers, NEW tasks \in [Publishers -> Tasks], NEW p \in Publishers
  PROVE  LeftBy(tasks[p], Leave(leavers, tasks)[p], leavers)
BY DEF LeftBy, Leave, Tasks

LEMMA LeaveTyped ==
  ASSUME NEW leavers, NEW tasks \in [Publishers -> Tasks]
  PROVE  Leave(leavers, tasks) \in [Publishers -> Tasks]
<1>1. Leave(leavers, tasks) = [p \in Publishers |-> Leave(leavers, tasks)[p]]
  BY DEF Leave
<1>2. \A p \in Publishers : Leave(leavers, tasks)[p] \in Tasks
  BY LeaveIs DEF LeftBy
<1>. QED
  BY <1>1, <1>2

(* What a task knows stays true as long as sets grow older and keep the ticks of     *)
(* those who are still owed, and as those stay who are.                        *)
LEMMA TaskStays ==
  ASSUME HubInv, HubTyped', NEW p \in Publishers,
         /\ task'[p].at = task[p].at /\ task'[p].todo = task[p].todo
         /\ task'[p].to = task[p].to /\ task'[p].dead = task[p].dead,
         task'[p].owed \subseteq task[p].owed,
         \A c \in Clients : Len(subs[c]) <= Len(subs'[c]),
         \A c \in task'[p].owed, i \in Nat :
           i \in 1..Len(subs[c]) /\ Ticks \in subs[c][i] => Ticks \in subs'[c][i],
         \A c \in Clients : /\ peer[c] = "gone" => peer'[c] = "gone"
                            /\ c \in task'[p].owed /\ peer[c] = "open" => peer'[c] = "open"
  PROVE  TaskOK(task[p])'
<1>1. TaskOK(task[p]) /\ task[p] \in Tasks /\ task'[p] \in Tasks
  BY DEF HubInv, HubTyped
<1>2. \A c \in Clients : Len(subs[c]) \in Nat /\ Len(subs'[c]) \in Nat
  BY DEF HubInv, HubTyped
<1>3. \A next \in task'[p].todo : next[1] \in Clients /\ next[2] \in 1..Len(subs[next[1]])
  BY <1>1 DEF TaskOK, Tasks
<1>4. \A next \in task'[p].todo : next[2] \in 1..Len(subs'[next[1]])
  BY <1>2, <1>3
<1>5. ASSUME NEW c \in task'[p].owed
      PROVE  /\ peer'[c] = "open"
             /\ \/ task'[p].at = "sending" /\ task'[p].to = c
                \/ \E next \in task'[p].todo : next[1] = c /\ Ticks \in subs'[c][next[2]]
  <2>1. c \in task[p].owed /\ c \in Clients /\ peer[c] = "open"
    BY <1>1 DEF TaskOK, Tasks
  <2>2. CASE task[p].at = "sending" /\ task[p].to = c
    BY <2>1, <2>2
  <2>3. CASE ~(task[p].at = "sending" /\ task[p].to = c)
    <3>1. PICK next \in task[p].todo : next[1] = c /\ Ticks \in subs[c][next[2]]
      BY <1>1, <2>1, <2>3 DEF TaskOK
    <3>2. next[2] \in Nat /\ next[2] \in 1..Len(subs[c])
      BY <1>2, <1>3, <2>1, <3>1
    <3>. QED
      BY <2>1, <3>1, <3>2
  <2>. QED
    BY <2>2, <2>3
<1>6. \A c \in task'[p].dead : peer'[c] = "gone"
  BY <1>1 DEF TaskOK, Tasks
<1>7. task'[p].at \in {"none", "done"} => task'[p].owed = {}
  BY <1>1 DEF TaskOK
<1>8. task'[p].at = "sending" => task'[p].to \in Clients
  BY <1>1 DEF TaskOK
<1>. QED
  BY <1>4, <1>5, <1>6, <1>7, <1>8 DEF TaskOK

-----------------------------------------------------------------------------
(* Handlers                                                                  *)

LEMMA ConnectKeeps ==
  ASSUME HubInv, NEW c \in Clients, Connect(c)
  PROVE  HubInv'
<1>. USE DEF Connect
<1>1. HubTyped'
  <2>1. <<{}>> \in Seq(SUBSET Channels)
    OBVIOUS
  <2>. QED
    BY <2>1 DEF HubInv, HubTyped
<1>2. peer'[c] = "open" /\ subs'[c] = <<{}>> /\ Len(subs'[c]) = 1 /\ subs'[c][1] = {} /\ subs[c] = <<>>
  BY DEF HubInv, HubTyped, SetOK
<1>3. \A x \in Clients : SetOK(x)'
  <2>. SUFFICES ASSUME NEW x \in Clients PROVE SetOK(x)'
    OBVIOUS
  <2>1. CASE x = c
    BY <1>2, <2>1 DEF SetOK
  <2>2. CASE x # c
    BY <2>2 DEF HubInv, HubTyped, SetOK
  <2>. QED
    BY <2>1, <2>2
<1>4. \A p \in Publishers : TaskOK(task[p])'
  <2>. SUFFICES ASSUME NEW p \in Publishers PROVE TaskOK(task[p])'
    OBVIOUS
  <2>1. Len(subs[c]) = 0 /\ \A x \in Clients : x # c => subs'[x] = subs[x] /\ peer'[x] = peer[x]
    BY <1>2 DEF HubInv, HubTyped
  <2>2. \A x \in Clients : Len(subs[x]) <= Len(subs'[x])
    BY <1>2, <2>1 DEF HubInv, HubTyped
  <2>3. \A x \in Clients, i \in Nat : i \in 1..Len(subs[x]) /\ Ticks \in subs[x][i] => Ticks \in subs'[x][i]
    BY <1>2, <2>1
  <2>4. task[p].owed \subseteq Clients /\ task' = task
    BY DEF HubInv, HubTyped, Tasks
  <2>5. \A x \in Clients : /\ peer[x] = "gone" => peer'[x] = "gone"
                           /\ peer[x] = "open" => peer'[x] = "open"
    BY <1>2, <2>1
  <2>. QED
    BY <1>1, <2>2, <2>3, <2>4, <2>5, TaskStays
<1>. QED
  BY <1>1, <1>3, <1>4 DEF HubInv

LEMMA SubscribeKeeps ==
  ASSUME HubInv, NEW c \in Clients, NEW names, Subscribe(c, names)
  PROVE  HubInv'
<1>. DEFINE some == names \cap Channels
            new == IF c \in registry THEN [subs[c] EXCEPT ![Len(subs[c])] = @ \cup some]
                   ELSE Append(subs[c], some)
<1>. USE DEF Subscribe, Request
<1>1. subs[c] \in Seq(SUBSET Channels) /\ some \in SUBSET Channels /\ peer[c] # "none" /\ SetOK(c) /\ Len(subs[c]) \in Nat
  BY DEF HubInv, HubTyped, SetOK
<1>2. /\ new \in Seq(SUBSET Channels)
      /\ Len(new) = IF c \in registry THEN Len(subs[c]) ELSE Len(subs[c]) + 1
      /\ \A i \in 1..Len(subs[c]) :
           new[i] = IF c \in registry /\ i = Len(subs[c]) THEN subs[c][i] \cup some ELSE subs[c][i]
  <2>1. CASE c \in registry
    <3>1. new = [subs[c] EXCEPT ![Len(subs[c])] = subs[c][Len(subs[c])] \cup some]
      BY <2>1
    <3>2. Len(subs[c]) \in 1..Len(subs[c])
      BY <1>1, <2>1 DEF SetOK
    <3>3. subs[c][Len(subs[c])] \cup some \in SUBSET Channels
      BY <1>1, <3>2
    <3>. DEFINE old == subs[c]
                last == Len(subs[c])
                more == subs[c][Len(subs[c])] \cup some
    <3>. HIDE DEF old, last, more
    <3>4. old \in Seq(SUBSET Channels) /\ last \in 1..Len(old) /\ more \in SUBSET Channels
      BY <1>1, <3>2, <3>3 DEF old, last, more
    <3>5. /\ [old EXCEPT ![last] = more] \in Seq(SUBSET Channels)
          /\ Len([old EXCEPT ![last] = more]) = Len(old)
          /\ \A j \in 1..Len(old) : [old EXCEPT ![last] = more][j] = IF j = last THEN more ELSE old[j]
      BY <3>4, ExceptSeq
    <3>6. new = [old EXCEPT ![last] = more]
      BY <3>1 DEF old, last, more
    <3>. HIDE DEF new
    <3>. QED
      BY <2>1, <3>5, <3>6 DEF old, last, more
  <2>2. CASE c \notin registry
    BY <1>1, <2>2, AppendProperties
  <2>. QED
    BY <2>1, <2>2
<1>3. subs' = [subs EXCEPT ![c] = new] /\ registry' = registry \cup {c} /\ UNCHANGED <<peer, task>>
      /\ handler' = [handler EXCEPT ![c] = "replying"]
  OBVIOUS
<1>. HIDE DEF new, Subscribe, Request
<1>4. HubTyped'
  BY <1>2, <1>3 DEF HubInv, HubTyped
<1>5. subs'[c] = new /\ \A x \in Clients : x # c => subs'[x] = subs[x]
  BY <1>3 DEF HubInv, HubTyped
<1>6. \A x \in Clients : SetOK(x)'
  <2>. SUFFICES ASSUME NEW x \in Clients PROVE SetOK(x)'
    OBVIOUS
  <2>1. CASE x = c
    <3>1. Len(new) > 0 /\ new # <<>>
      BY <1>1, <1>2 DEF SetOK
    <3>2. ASSUME NEW i \in 1..Len(new), Ticks \in new[i], peer[c] # "gone"
          PROVE  i = Len(new)
      <4>1. CASE i \in 1..Len(subs[c]) /\ ~(c \in registry /\ i = Len(subs[c]))
        BY <1>1, <1>2, <3>2, <4>1 DEF SetOK
      <4>2. CASE ~(i \in 1..Len(subs[c]) /\ ~(c \in registry /\ i = Len(subs[c])))
        BY <1>1, <1>2, <4>2
      <4>. QED
        BY <4>1, <4>2
    <3>. QED
      BY <1>1, <1>3, <1>5, <2>1, <3>1, <3>2 DEF SetOK
  <2>2. CASE x # c
    BY <1>3, <1>5, <2>2 DEF HubInv, HubTyped, SetOK
  <2>. QED
    BY <2>1, <2>2
<1>7. \A p \in Publishers : TaskOK(task[p])'
  <2>. SUFFICES ASSUME NEW p \in Publishers PROVE TaskOK(task[p])'
    OBVIOUS
  <2>1. \A x \in Clients : Len(subs[x]) <= Len(subs'[x])
    BY <1>1, <1>2, <1>5 DEF HubInv, HubTyped
  <2>2. \A x \in Clients, i \in Nat : i \in 1..Len(subs[x]) /\ Ticks \in subs[x][i] => Ticks \in subs'[x][i]
    BY <1>2, <1>5
  <2>3. task[p].owed \subseteq Clients
    BY DEF HubInv, HubTyped, Tasks
  <2>. QED
    BY <1>3, <1>4, <2>1, <2>2, <2>3, TaskStays
<1>. QED
  BY <1>4, <1>6, <1>7 DEF HubInv

LEMMA UnsubscribeKeeps ==
  ASSUME HubInv, NEW c \in Clients, NEW names, Unsubscribe(c, names)
  PROVE  HubInv'
<1>1. peer' = peer /\ handler' = [handler EXCEPT ![c] = "replying"] /\ handler[c] = "receiving"
  BY DEF Unsubscribe, Request
<1>2. peer[c] # "none" /\ SetOK(c)
  BY <1>1 DEF HubInv, SetOK
<1>3. CASE c \notin registry
  <2>1. UNCHANGED <<registry, subs, task>>
    BY <1>3 DEF Unsubscribe
  <2>2. HubTyped'
    BY <1>1, <2>1 DEF HubInv, HubTyped
  <2>3. \A x \in Clients : SetOK(x)'
    BY <1>1, <1>2, <2>1 DEF HubInv, HubTyped, SetOK
  <2>4. \A p \in Publishers : TaskOK(task[p])'
    BY <1>1, <2>1 DEF HubInv, TaskOK
  <2>. QED
    BY <2>2, <2>3, <2>4 DEF HubInv
<1>4. CASE c \in registry
  <2>. DEFINE old == subs[c]
              last == Len(subs[c])
              less == subs[c][Len(subs[c])] \ names
              leavers == IF Ticks \in names THEN {c} ELSE {}
  <2>1. /\ subs' = [subs EXCEPT ![c][last] = less]
        /\ registry' = IF Current(c) \subseteq names THEN registry \ {c} ELSE registry
        /\ task' = Leave(leavers, task)
    BY <1>4 DEF Unsubscribe
  <2>2. old \in Seq(SUBSET Channels) /\ last \in 1..Len(old) /\ last = Len(old) /\ less \in SUBSET Channels
    <3>1. old \in Seq(SUBSET Channels) /\ Len(old) \in Nat /\ Len(old) # 0
      BY <1>2, <1>4 DEF HubInv, HubTyped, SetOK
    <3>. QED
      BY <3>1
  <2>3. less = old[last] \ names /\ Current(c) = old[last]
    BY DEF Current
  <2>4. subs' = [subs EXCEPT ![c] = [old EXCEPT ![last] = less]]
    BY <2>1
  <2>. HIDE DEF less, last, leavers
  <2>5. /\ [old EXCEPT ![last] = less] \in Seq(SUBSET Channels)
        /\ Len([old EXCEPT ![last] = less]) = Len(old)
        /\ \A j \in 1..Len(old) : [old EXCEPT ![last] = less][j] = IF j = last THEN less ELSE old[j]
    BY <2>2, ExceptSeq
  <2>6. subs'[c] = [old EXCEPT ![last] = less] /\ \A x \in Clients : x # c => subs'[x] = subs[x]
    BY <2>4 DEF HubInv, HubTyped
  <2>7. task' \in [Publishers -> Tasks]
    BY <2>1, LeaveTyped DEF HubInv, HubTyped
  <2>8. HubTyped'
    BY <1>1, <2>1, <2>4, <2>5, <2>7 DEF HubInv, HubTyped
  <2>9. \A x \in Clients : SetOK(x)'
    <3>. SUFFICES ASSUME NEW x \in Clients PROVE SetOK(x)'
      OBVIOUS
    <3>1. CASE x = c
      <4>1. subs'[c] # <<>> /\ Len(subs'[c]) = last
        BY <2>2, <2>5, <2>6
      <4>2. ASSUME NEW i \in 1..Len(subs'[c]), Ticks \in subs'[c][i], peer[c] # "gone"
            PROVE  c \in registry' /\ i = last
        <5>1. Ticks \in old[i] /\ i \in 1..Len(old) /\ (i = last => Ticks \in less)
          BY <2>2, <2>3, <2>5, <2>6, <4>2
        <5>2. i = last
          BY <1>2, <2>2, <4>2, <5>1 DEF SetOK
        <5>3. ~(Current(c) \subseteq names)
          BY <2>3, <5>1, <5>2
        <5>. QED
          BY <1>4, <2>1, <5>2, <5>3
      <4>. QED
        BY <1>1, <1>2, <3>1, <4>1, <4>2 DEF SetOK
    <3>2. CASE x # c
      BY <1>1, <2>1, <2>6, <3>2 DEF HubInv, HubTyped, SetOK
    <3>. QED
      BY <3>1, <3>2
  <2>10. ASSUME NEW p \in Publishers PROVE TaskOK(task[p])'
    <3>1. /\ task'[p].at = task[p].at /\ task'[p].todo = task[p].todo /\ task'[p].to = task[p].to
          /\ task'[p].dead = task[p].dead
          /\ task'[p].owed = IF task[p].at = "done" THEN task[p].owed ELSE task[p].owed \ leavers
      <4>1. LeftBy(task[p], task'[p], leavers)
        BY <2>1, LeaveIs DEF HubInv, HubTyped
      <4>. QED
        BY <4>1 DEF LeftBy
    <3>0. task[p].at = "done" => task[p].owed = {}
      BY DEF HubInv, TaskOK
    <3>2. task'[p].owed \subseteq task[p].owed /\ (c \in task'[p].owed => Ticks \notin names)
      <4>1. CASE task[p].at = "done"
        BY <3>0, <3>1, <4>1
      <4>2. CASE task[p].at # "done"
        BY <3>1, <4>2 DEF leavers
      <4>. QED
        BY <4>1, <4>2
    <3>3. \A x \in Clients : Len(subs[x]) <= Len(subs'[x])
      <4>1. \A x \in Clients : Len(subs[x]) \in Nat
        BY DEF HubInv, HubTyped
      <4>2. Len(subs'[c]) = Len(subs[c])
        BY <2>5, <2>6
      <4>. QED
        BY <2>6, <4>1, <4>2
    <3>4. task'[p].owed \subseteq Clients
      BY <2>7 DEF Tasks
    <3>5. \A x \in task'[p].owed, i \in Nat :
            i \in 1..Len(subs[x]) /\ Ticks \in subs[x][i] => Ticks \in subs'[x][i]
      BY <2>3, <2>5, <2>6, <3>2, <3>4
    <3>. QED
      BY <1>1, <2>8, <3>1, <3>2, <3>3, <3>5, TaskStays
  <2>. QED
    BY <2>8, <2>9, <2>10 DEF HubInv
<1>. QED
  BY <1>3, <1>4

(* A handler that ends is one of a socket that is gone.                        *)
LEMMA HandleKeeps ==
  ASSUME HubInv, NEW c \in Clients, Handle(c)
  PROVE  HubInv'
<1>1. UNCHANGED <<subs, peer, task>> /\ peer[c] # "none"
  BY DEF Handle, Reply, HangUp, HubInv, SetOK
<1>2. /\ handler' \in [Clients -> {"none", "receiving", "replying", "ended"}]
      /\ \A x \in Clients : peer[x] = "none" => handler'[x] = handler[x]
  BY <1>1 DEF Handle, Reply, HangUp, HubInv, HubTyped
<1>3. registry' = registry \/ (registry' = registry \ {c} /\ peer[c] = "gone")
  BY <1>1 DEF Handle, Reply, HangUp, HubInv, HubTyped
<1>4. HubTyped'
  BY <1>1, <1>2, <1>3 DEF HubInv, HubTyped
<1>5. \A x \in Clients : SetOK(x)'
  BY <1>1, <1>2, <1>3 DEF HubInv, SetOK
<1>6. \A p \in Publishers : TaskOK(task[p])'
  BY <1>1 DEF HubInv, TaskOK
<1>. QED
  BY <1>4, <1>5, <1>6 DEF HubInv

LEMMA GoneKeeps ==
  ASSUME HubInv, NEW c \in Clients, Gone(c)
  PROVE  HubInv'
<1>1. /\ peer[c] = "open" /\ peer' = [peer EXCEPT ![c] = "gone"] /\ task' = Leave({c}, task)
      /\ UNCHANGED <<registry, subs, handler>>
  BY DEF Gone
<1>2. peer'[c] = "gone" /\ \A x \in Clients : x # c => peer'[x] = peer[x]
  BY <1>1 DEF HubInv, HubTyped
<1>3. HubTyped'
  <2>1. task' \in [Publishers -> Tasks]
    BY <1>1, LeaveTyped DEF HubInv, HubTyped
  <2>. QED
    BY <1>1, <2>1 DEF HubInv, HubTyped
<1>4. \A x \in Clients : SetOK(x)'
  BY <1>1, <1>2 DEF HubInv, SetOK
<1>5. ASSUME NEW p \in Publishers PROVE TaskOK(task[p])'
  <2>1. /\ task'[p].at = task[p].at /\ task'[p].todo = task[p].todo /\ task'[p].to = task[p].to
        /\ task'[p].dead = task[p].dead
        /\ task'[p].owed = IF task[p].at = "done" THEN task[p].owed ELSE task[p].owed \ {c}
    <3>1. LeftBy(task[p], task'[p], {c})
      BY <1>1, LeaveIs DEF HubInv, HubTyped
    <3>. QED
      BY <3>1 DEF LeftBy
  <2>2. task'[p].owed \subseteq task[p].owed /\ c \notin task'[p].owed
    BY <2>1 DEF HubInv, TaskOK
  <2>3. \A x \in Clients : Len(subs[x]) <= Len(subs'[x])
    BY <1>1 DEF HubInv, HubTyped
  <2>. QED
    BY <1>1, <1>2, <1>3, <2>1, <2>2, <2>3, TaskStays
<1>. QED
  BY <1>3, <1>4, <1>5 DEF HubInv

-----------------------------------------------------------------------------
(* publish                                                                   *)

LEMMA PublishKeeps ==
  ASSUME HubInv, NEW p \in Publishers, Publish(p)
  PROVE  HubInv'
<1>. DEFINE todo == {<<c, Len(subs[c])>> : c \in registry}
            owed == {c \in registry : Listening(c, Ticks) /\ peer[c] = "open"}
            t == [NoTask EXCEPT !.at = "running", !.todo = todo, !.owed = owed]
<1>1. task' = [task EXCEPT ![p] = t] /\ UNCHANGED <<registry, subs, handler, peer>>
  BY DEF Publish
<1>2. t.at = "running" /\ t.todo = todo /\ t.owed = owed /\ t.dead = {} /\ t.to = Unlisted
  BY DEF NoTask
<1>3. t \in Tasks
  <2>1. todo \subseteq Clients \X Nat /\ owed \subseteq Clients
    BY DEF HubInv, HubTyped
  <2>. HIDE DEF todo, owed
  <2>. QED
    BY <2>1 DEF Tasks, NoTask
<1>4. \A c \in registry : Len(subs[c]) \in 1..Len(subs[c])
  BY DEF HubInv, HubTyped, SetOK
<1>5. \A next \in todo : next[2] \in 1..Len(subs[next[1]])
  BY <1>4
<1>6. ASSUME NEW c \in owed
      PROVE  peer[c] = "open" /\ \E next \in todo : next[1] = c /\ Ticks \in subs[c][next[2]]
  <2>1. c \in registry /\ <<c, Len(subs[c])>> \in todo
    OBVIOUS
  <2>2. Ticks \in subs[c][Len(subs[c])]
    BY DEF Listening, Current
  <2>. QED
    BY <2>1, <2>2
<1>. HIDE DEF t, todo, owed
<1>7. HubTyped'
  BY <1>1, <1>3 DEF HubInv, HubTyped
<1>8. \A c \in Clients : SetOK(c)'
  BY <1>1 DEF HubInv, SetOK
<1>9. TaskOK(task[p])'
  <2>1. task'[p] = t
    BY <1>1 DEF HubInv, HubTyped
  <2>. QED
    BY <1>1, <1>2, <1>5, <1>6, <2>1 DEF TaskOK
<1>10. \A q \in Publishers : q # p => TaskOK(task[q])'
  BY <1>1 DEF HubInv, HubTyped, TaskOK
<1>. QED
  BY <1>7, <1>8, <1>9, <1>10 DEF HubInv

(* One publish goes on, the rest stands still.                                *)
LEMMA TaskMoves ==
  ASSUME HubInv, NEW p \in Publishers, NEW t \in Tasks, task' = [task EXCEPT ![p] = t],
         TaskOK(t), UNCHANGED <<registry, subs, handler, peer>>
  PROVE  HubInv'
<1>1. HubTyped'
  BY DEF HubInv, HubTyped
<1>2. \A c \in Clients : SetOK(c)'
  BY DEF HubInv, SetOK
<1>3. \A q \in Publishers : TaskOK(task'[q])
  BY DEF HubInv, HubTyped
<1>4. \A q \in Publishers : TaskOK(task[q])'
  BY <1>3 DEF TaskOK
<1>. QED
  BY <1>1, <1>2, <1>4 DEF HubInv

LEMMA SendNextKeeps ==
  ASSUME HubInv, NEW p \in Publishers, SendNext(p)
  PROVE  /\ HubInv'
         /\ task'[p].to \in Clients
         /\ Listening(task'[p].to, Ticks) \/ peer[task'[p].to] = "gone"
<1>1. PICK next \in Due(p) :
        task' = [task EXCEPT ![p].at = "sending", ![p].to = next[1], ![p].todo = @ \ {next}]
  BY DEF SendNext
<1>. DEFINE t == [task[p] EXCEPT !.at = "sending", !.to = next[1], !.todo = @ \ {next}]
<1>2. next \in task[p].todo /\ Ticks \in subs[next[1]][next[2]] /\ task[p] \in Tasks /\ TaskOK(task[p])
  BY DEF Due, HubInv, HubTyped
<1>3. next[1] \in Clients /\ next[2] \in 1..Len(subs[next[1]])
  BY <1>2 DEF TaskOK, Tasks
<1>4. /\ t \in Tasks /\ t.at = "sending" /\ t.to = next[1] /\ t.todo = task[p].todo \ {next}
      /\ t.dead = task[p].dead /\ t.owed = task[p].owed
  BY <1>2, <1>3 DEF Tasks
<1>5. task[p].at = "running" /\ UNCHANGED <<registry, subs, handler, peer>>
  BY DEF SendNext
<1>6. TaskOK(t)
  <2>1. ASSUME NEW c \in task[p].owed, c # next[1]
        PROVE  \E other \in t.todo : other[1] = c /\ Ticks \in subs[c][other[2]]
    <3>1. PICK other \in task[p].todo : other[1] = c /\ Ticks \in subs[c][other[2]]
      BY <1>2, <1>5 DEF TaskOK
    <3>. QED
      BY <1>4, <2>1, <3>1
  <2>2. \A c \in t.owed : peer[c] = "open"
    BY <1>2, <1>4 DEF TaskOK
  <2>3. \A c \in t.owed :
          (t.at = "sending" /\ t.to = c) \/ \E other \in t.todo : other[1] = c /\ Ticks \in subs[c][other[2]]
    BY <1>4, <2>1
  <2>4. (\A other \in t.todo : other[2] \in 1..Len(subs[other[1]])) /\ \A c \in t.dead : peer[c] = "gone"
    BY <1>2, <1>4 DEF TaskOK
  <2>. HIDE DEF t
  <2>. QED
    BY <1>3, <1>4, <2>2, <2>3, <2>4 DEF TaskOK
<1>7. task' = [task EXCEPT ![p] = t]
  BY <1>1
<1>. HIDE DEF t
<1>8. HubInv' /\ task'[p] = t
  BY <1>4, <1>5, <1>6, <1>7, TaskMoves DEF HubInv, HubTyped
<1>9. peer[next[1]] = "gone" \/ Listening(next[1], Ticks)
  BY <1>2, <1>3 DEF HubInv, SetOK, Listening, Current
<1>. QED
  BY <1>3, <1>4, <1>8, <1>9

LEMMA SendReturnsKeeps ==
  ASSUME HubInv, NEW p \in Publishers, SendReturns(p)
  PROVE  HubInv' /\ task'[p].at = "running"
<1>. DEFINE c == task[p].to
<1>1. task[p].at = "sending" /\ task[p] \in Tasks /\ TaskOK(task[p]) /\ UNCHANGED <<registry, subs, handler, peer>>
  BY DEF SendReturns, HubInv, HubTyped
<1>2. c \in Clients
  BY <1>1 DEF TaskOK
<1>. DEFINE Returned(owed, dead) ==
        /\ task' = [task EXCEPT ![p] = [task[p] EXCEPT !.at = "running", !.owed = owed, !.dead = dead]]
        /\ owed \subseteq task[p].owed /\ c \notin owed
        /\ \A x \in task[p].owed : x # c => x \in owed
        /\ dead = task[p].dead \/ (dead = task[p].dead \cup {c} /\ peer[c] = "gone")
<1>3. PICK owed, dead : Returned(owed, dead)
  <2>1. CASE peer[c] = "open" /\ task' = [task EXCEPT ![p].at = "running", ![p].owed = @ \ {c}]
    <3>1. task' = [task EXCEPT ![p] = [task[p] EXCEPT !.at = "running", !.owed = task[p].owed \ {c},
                                                      !.dead = task[p].dead]]
      BY <1>1, <2>1 DEF Tasks, HubInv, HubTyped
    <3>2. Returned(task[p].owed \ {c}, task[p].dead)
      BY <3>1
    <3>. HIDE DEF Returned
    <3>. QED
      BY <3>2
  <2>2. CASE peer[c] = "gone" /\ \E dead \in {{}, {c}} :
               task' = [task EXCEPT ![p].at = "running", ![p].dead = @ \cup dead]
    <3>1. PICK gone \in {{}, {c}} : task' = [task EXCEPT ![p].at = "running", ![p].dead = @ \cup gone]
      BY <2>2
    <3>2. task' = [task EXCEPT ![p] = [task[p] EXCEPT !.at = "running", !.owed = task[p].owed,
                                                      !.dead = task[p].dead \cup gone]]
      BY <1>1, <3>1 DEF Tasks, HubInv, HubTyped
    <3>3. c \notin task[p].owed
      BY <1>1, <2>2 DEF TaskOK
    <3>4. task[p].dead \cup gone = task[p].dead \/ task[p].dead \cup gone = task[p].dead \cup {c}
      BY <3>1
    <3>5. Returned(task[p].owed, task[p].dead \cup gone)
      BY <2>2, <3>2, <3>3, <3>4
    <3>. HIDE DEF Returned
    <3>. QED
      BY <3>5
  <2>. QED
    BY <2>1, <2>2 DEF SendReturns
<1>. DEFINE t == [task[p] EXCEPT !.at = "running", !.owed = owed, !.dead = dead]
<1>4. /\ t \in Tasks /\ t.at = "running" /\ t.owed = owed /\ t.dead = dead
      /\ t.todo = task[p].todo /\ t.to = task[p].to
  BY <1>1, <1>2, <1>3 DEF Tasks
<1>5. task' = [task EXCEPT ![p] = t]
  BY <1>3
<1>. HIDE DEF t
<1>6. TaskOK(t)
  <2>1. ASSUME NEW x \in owed
        PROVE  peer[x] = "open" /\ \E next \in t.todo : next[1] = x /\ Ticks \in subs[x][next[2]]
    <3>1. x \in task[p].owed /\ x # c
      BY <1>3
    <3>. QED
      BY <1>1, <1>4, <3>1 DEF TaskOK
  <2>2. \A x \in dead : peer[x] = "gone"
    BY <1>1, <1>3 DEF TaskOK
  <2>. HIDE DEF c
  <2>. QED
    BY <1>1, <1>4, <2>1, <2>2 DEF TaskOK
<1>. QED
  BY <1>1, <1>4, <1>5, <1>6, TaskMoves DEF HubInv, HubTyped

LEMMA FinishKeeps ==
  ASSUME HubInv, NEW p \in Publishers, Finish(p)
  PROVE  HubInv' /\ task'[p].at = "done"
<1>. DEFINE t == [NoTask EXCEPT !.at = "done", !.owed = task[p].owed]
            leavers == task[p].dead
<1>1. /\ registry' = registry \ leavers /\ UNCHANGED <<subs, handler, peer>>
      /\ task' = Leave(leavers, [task EXCEPT ![p] = t])
      /\ task[p].at = "running" /\ Due(p) = {}
  BY DEF Finish
<1>2. task[p] \in Tasks /\ TaskOK(task[p]) /\ \A c \in leavers : peer[c] = "gone"
  BY DEF HubInv, HubTyped, TaskOK
(* Nobody is owed anything who is not on the list with the ticks.             *)
<1>3. task[p].owed = {}
  <2>. SUFFICES ASSUME NEW c \in task[p].owed PROVE FALSE
    OBVIOUS
  <2>1. PICK next \in task[p].todo : next[1] = c /\ Ticks \in subs[c][next[2]]
    BY <1>1, <1>2 DEF TaskOK
  <2>2. next \in Due(p)
    BY <2>1 DEF Due
  <2>. QED
    BY <1>1, <2>2
<1>4. t \in Tasks /\ t.at = "done" /\ t.owed = {} /\ t.todo = {} /\ t.dead = {}
  BY <1>3 DEF Tasks, NoTask
<1>. HIDE DEF t
<1>5. [task EXCEPT ![p] = t] \in [Publishers -> Tasks]
  BY <1>4 DEF HubInv, HubTyped
<1>6. \A q \in Publishers : LeftBy(IF q = p THEN t ELSE task[q], task'[q], leavers)
  <2>1. \A q \in Publishers : LeftBy([task EXCEPT ![p] = t][q], task'[q], leavers)
    BY <1>1, <1>5, LeaveIs
  <2>2. \A q \in Publishers : [task EXCEPT ![p] = t][q] = IF q = p THEN t ELSE task[q]
    BY DEF HubInv, HubTyped
  <2>. QED
    BY <2>1, <2>2
<1>7. HubTyped'
  <2>1. task' \in [Publishers -> Tasks]
    BY <1>1, <1>5, LeaveTyped
  <2>. QED
    BY <1>1, <2>1 DEF HubInv, HubTyped
<1>8. \A c \in Clients : SetOK(c)'
  BY <1>1, <1>2 DEF HubInv, SetOK
<1>9. TaskOK(task[p])'
  <2>1. LeftBy(t, task'[p], leavers)
    BY <1>6
  <2>2. task'[p].at = "done" /\ task'[p].owed = {} /\ task'[p].todo = {} /\ task'[p].dead = {}
    BY <1>4, <2>1 DEF LeftBy
  <2>. QED
    BY <2>2 DEF TaskOK
<1>10. ASSUME NEW q \in Publishers, q # p PROVE TaskOK(task[q])'
  <2>1. LeftBy(task[q], task'[q], leavers)
    BY <1>6, <1>10
  <2>2. /\ task'[q].at = task[q].at /\ task'[q].todo = task[q].todo
        /\ task'[q].to = task[q].to /\ task'[q].dead = task[q].dead
        /\ task'[q].owed \subseteq task[q].owed
    BY <2>1 DEF LeftBy
  <2>3. \A c \in Clients : Len(subs[c]) <= Len(subs'[c])
    BY <1>1 DEF HubInv, HubTyped
  <2>. QED
    BY <1>1, <1>7, <2>2, <2>3, TaskStays
<1>11. task'[p].at = "done"
  BY <1>4, <1>6 DEF LeftBy
<1>. QED
  BY <1>7, <1>8, <1>9, <1>10, <1>11 DEF HubInv

-----------------------------------------------------------------------------
(* The hub                                                                   *)

LEMMA HubKeeps == HubInv /\ [RtNext]_rtVars => HubInv'
<1>. SUFFICES ASSUME HubInv, [RtNext]_rtVars PROVE HubInv'
  OBVIOUS
<1>1. ASSUME NEW c \in Clients, Connect(c) \/ Gone(c) \/ Handle(c) PROVE HubInv'
  BY <1>1, ConnectKeeps, GoneKeeps, HandleKeeps
<1>2. ASSUME NEW c \in Clients, NEW names \in Asked, Subscribe(c, names) \/ Unsubscribe(c, names) PROVE HubInv'
  BY <1>2, SubscribeKeeps, UnsubscribeKeeps
<1>3. ASSUME NEW p \in Publishers, Deliver(p) \/ Publish(p) PROVE HubInv'
  BY <1>3, SendNextKeeps, SendReturnsKeeps, FinishKeeps, PublishKeeps DEF Deliver
<1>4. CASE UNCHANGED rtVars
  BY <1>4 DEF rtVars, HubInv, HubTyped, SetOK, TaskOK
<1>. QED
  BY <1>1, <1>2, <1>3, <1>4 DEF RtNext

(* A send begins.                                                            *)
Begins(p, c) == task[p].at = "running" /\ task'[p].at = "sending" /\ task'[p].to = c
ToListeners == \A p \in Publishers, c \in Clients : Begins(p, c) => Listening(c, Ticks) \/ peer[c] = "gone"

LEMMA SendsToListeners == HubInv /\ RtNext => ToListeners
<1>. SUFFICES ASSUME HubInv, RtNext, NEW p \in Publishers, NEW c \in Clients, Begins(p, c)
     PROVE  Listening(c, Ticks) \/ peer[c] = "gone"
  BY DEF ToListeners
<1>1. task \in [Publishers -> Tasks] /\ task'[p].at # task[p].at
  BY DEF HubInv, HubTyped, Begins
<1>2. ASSUME NEW x \in Clients,
             \/ Connect(x) \/ Gone(x) \/ Handle(x)
             \/ \E names \in Asked : Subscribe(x, names) \/ Unsubscribe(x, names)
      PROVE  FALSE
  <2>1. task' = task \/ task' = Leave({x}, task) \/ task' = Leave({}, task)
    <3>1. CASE Connect(x) \/ Gone(x) \/ Handle(x)
      BY <3>1 DEF Connect, Gone, Handle, Reply, HangUp
    <3>2. ASSUME NEW names, Subscribe(x, names) PROVE task' = task
      BY <3>2 DEF Subscribe
    <3>3. ASSUME NEW names, Unsubscribe(x, names)
          PROVE  task' = task \/ task' = Leave({x}, task) \/ task' = Leave({}, task)
      <4>1. CASE x \notin registry
        BY <3>3, <4>1 DEF Unsubscribe
      <4>2. CASE x \in registry
        BY <3>3, <4>2 DEF Unsubscribe
      <4>. QED
        BY <4>1, <4>2
    <3>4. CASE \E names \in Asked : Subscribe(x, names) \/ Unsubscribe(x, names)
      <4>1. PICK names \in Asked : Subscribe(x, names) \/ Unsubscribe(x, names)
        BY <3>4
      <4>2. CASE Subscribe(x, names)
        BY <3>2, <4>2
      <4>3. CASE Unsubscribe(x, names)
        BY <3>3, <4>3
      <4>. QED
        BY <4>1, <4>2, <4>3
    <3>. QED
      BY <1>2, <3>1, <3>4
  <2>2. ASSUME NEW leavers, task' = Leave(leavers, task) PROVE task'[p].at = task[p].at
    <3>1. LeftBy(task[p], task'[p], leavers)
      BY <1>1, <2>2, LeaveIs
    <3>. QED
      BY <3>1 DEF LeftBy
  <2>. QED
    BY <1>1, <2>1, <2>2
<1>3. ASSUME NEW q \in Publishers, Publish(q) PROVE FALSE
  BY <1>1, <1>3 DEF Publish, Begins, NoTask
<1>4. ASSUME NEW q \in Publishers, Deliver(q)
      PROVE  q = p /\ SendNext(q)
  <2>1. CASE SendNext(q)
    BY <1>1, <2>1 DEF SendNext
  <2>2. CASE SendReturns(q)
    <3>1. task'[q].at = "running"
      BY <2>2, SendReturnsKeeps
    <3>2. q # p
      BY <3>1 DEF Begins
    <3>. QED
      BY <1>1, <2>2, <3>2 DEF SendReturns
  <2>3. CASE Finish(q)
    <3>1. task'[q].at = "done" /\ q # p
      BY <2>3, FinishKeeps DEF Begins
    <3>. DEFINE t == [NoTask EXCEPT !.at = "done", !.owed = task[q].owed]
                mid == [task EXCEPT ![q] = t]
    <3>2. task' = Leave(task[q].dead, mid)
      BY <2>3 DEF Finish
    <3>3. t \in Tasks
      BY <1>1 DEF Tasks, NoTask
    <3>4. mid \in [Publishers -> Tasks] /\ mid[p] = task[p]
      BY <1>1, <3>1, <3>3
    <3>. HIDE DEF mid
    <3>5. LeftBy(mid[p], task'[p], task[q].dead)
      BY <3>2, <3>4, LeaveIs
    <3>. QED
      BY <1>1, <3>4, <3>5 DEF LeftBy
  <2>. QED
    BY <1>4, <2>1, <2>2, <2>3 DEF Deliver
<1>5. SendNext(p)
  BY <1>2, <1>3, <1>4 DEF RtNext
<1>. QED
  BY <1>5, SendNextKeeps DEF Begins

(* A message reaches those who listened throughout, and no send is begun to one who   *)
(* has unsubscribed, for any sockets, channels and publish calls (realtime/channels.py). *)
THEOREM HubTellsListeners == RtInit /\ [][RtNext]_rtVars => RightAudience
<1>1. HubInv => \A p \in Publishers : task[p].at = "done" => task[p].owed = {}
  BY DEF HubInv, TaskOK
<1>2. HubInv /\ [RtNext]_rtVars =>
        [\A p \in Publishers, c \in Clients :
            task[p].at = "running" /\ task'[p].at = "sending" /\ task'[p].to = c =>
              Listening(c, Ticks) \/ peer[c] = "gone"]_rtVars
  BY SendsToListeners DEF ToListeners, Begins
<1>. QED
  BY <1>1, <1>2, HubStart, HubKeeps, PTL DEF RightAudience


-----------------------------------------------------------------------------
(* THE PROCESS                                                               *)

-----------------------------------------------------------------------------
(* Bars and ticks                                                            *)

(* A bar is what its ticks were; without ticks there is none.                  *)
BarOf(all, made, bar) ==
    IF all = <<>> THEN ~made
    ELSE /\ made
         /\ bar.open = all[1] /\ bar.close = all[Len(all)] /\ bar.volume = Len(all)
         /\ \E i, j \in DOMAIN all : bar.high = all[i] /\ bar.low = all[j]
         /\ \A i \in DOMAIN all : bar.low <= all[i] /\ all[i] <= bar.high

Records == [open : Prices, high : Prices, low : Prices, close : Prices, volume : Nat, day : Nat]

LEMMA TickFolds ==
  ASSUME NEW all \in Seq(Prices), all # <<>>, NEW bar \in Records, BarOf(all, TRUE, bar),
         NEW price \in Prices
  PROVE  /\ BarOf(Append(all, price), TRUE, Folded(bar, price))
         /\ Folded(bar, price) \in Records /\ Folded(bar, price).day = bar.day
<1>. DEFINE more == Append(all, price)
            b == Folded(bar, price)
<1>1. Prices \subseteq Int
  BY ApplicationAssumption
<1>2. /\ Len(all) \in Nat /\ Len(all) > 0 /\ DOMAIN all = 1..Len(all)
      /\ \A i \in 1..Len(all) : all[i] \in Prices
  <2>1. Len(all) # 0
    BY EmptySeq
  <2>. QED
    BY <2>1
<1>3. /\ more # <<>> /\ Len(more) = Len(all) + 1 /\ DOMAIN more = 1..(Len(all) + 1)
      /\ more[Len(all) + 1] = price /\ \A i \in 1..Len(all) : more[i] = all[i]
  BY <1>2, AppendProperties
<1>4. /\ b \in Records /\ b.open = bar.open /\ b.close = price /\ b.volume = bar.volume + 1 /\ b.day = bar.day
      /\ b.high = IF price > bar.high THEN price ELSE bar.high
      /\ b.low = IF price < bar.low THEN price ELSE bar.low
  <2>. DEFINE high == IF price > bar.high THEN price ELSE bar.high
              low == IF price < bar.low THEN price ELSE bar.low
  <2>1. /\ bar.open \in Prices /\ bar.volume \in Nat /\ bar.day \in Nat /\ high \in Prices /\ low \in Prices
        /\ bar = [open |-> bar.open, high |-> bar.high, low |-> bar.low, close |-> bar.close,
                  volume |-> bar.volume, day |-> bar.day]
    BY DEF Records
  <2>2. b = [open |-> bar.open, high |-> high, low |-> low, close |-> price,
             volume |-> bar.volume + 1, day |-> bar.day]
    BY DEF Folded
  <2>. HIDE DEF b, high, low
  <2>3. b \in Records
    BY <2>1, <2>2 DEF Records
  <2>. QED
    BY <2>2, <2>3 DEF high, low
<1>. HIDE DEF b, more
<1>5. PICK i \in 1..Len(all), j \in 1..Len(all) : bar.high = all[i] /\ bar.low = all[j]
  BY <1>2 DEF BarOf
<1>6. bar.high \in Int /\ bar.low \in Int /\ price \in Int
  BY <1>1 DEF Records
<1>7. \A k \in 1..Len(all) : bar.low <= all[k] /\ all[k] <= bar.high /\ all[k] \in Int
  BY <1>1, <1>2 DEF BarOf
<1>8. \A k \in 1..(Len(all) + 1) : b.low <= more[k] /\ more[k] <= b.high
  <2>. SUFFICES ASSUME NEW k \in 1..(Len(all) + 1) PROVE b.low <= more[k] /\ more[k] <= b.high
    OBVIOUS
  <2>1. CASE k = Len(all) + 1
    BY <1>3, <1>4, <1>6, <2>1
  <2>2. CASE k \in 1..Len(all)
    BY <1>3, <1>4, <1>6, <1>7, <2>2
  <2>. QED
    BY <1>2, <2>1, <2>2
<1>9. \E x, y \in DOMAIN more : b.high = more[x] /\ b.low = more[y]
  <2>1. \E x \in DOMAIN more : b.high = more[x]
    BY <1>2, <1>3, <1>4, <1>5
  <2>2. \E y \in DOMAIN more : b.low = more[y]
    BY <1>2, <1>3, <1>4, <1>5
  <2>. QED
    BY <2>1, <2>2
<1>10. b.open = more[1] /\ b.close = more[Len(more)] /\ b.volume = Len(more)
  BY <1>2, <1>3, <1>4 DEF BarOf
<1>11. BarOf(more, TRUE, b)
  BY <1>3, <1>8, <1>9, <1>10 DEF BarOf
<1>. QED
  BY <1>4, <1>11 DEF b, more

LEMMA TickOpens ==
  ASSUME NEW price \in Prices, NEW day \in Nat
  PROVE  LET bar == [open |-> price, high |-> price, low |-> price, close |-> price, volume |-> 1, day |-> day]
         IN bar \in Records /\ BarOf(Append(<<>>, price), TRUE, bar)
<1>. DEFINE bar == [open |-> price, high |-> price, low |-> price, close |-> price, volume |-> 1, day |-> day]
<1>1. price \in Int
  BY ApplicationAssumption
<1>2. Append(<<>>, price) = <<price>> /\ DOMAIN <<price>> = 1..1 /\ Len(<<price>>) = 1
  OBVIOUS
<1>3. bar \in Records
  BY DEF Records
<1>4. bar.open = price /\ bar.close = price /\ bar.high = price /\ bar.low = price /\ bar.volume = 1
  OBVIOUS
<1>. HIDE DEF bar
<1>5. \A x \in DOMAIN <<price>> : <<price>>[x] = price
  OBVIOUS
<1>6. \E x, y \in DOMAIN <<price>> : bar.high = <<price>>[x] /\ bar.low = <<price>>[y]
  <2>1. 1 \in DOMAIN <<price>> /\ <<price>>[1] = price
    BY <1>2
  <2>. QED
    BY <1>4, <2>1
<1>7. \A x \in DOMAIN <<price>> : bar.low <= <<price>>[x] /\ <<price>>[x] <= bar.high
  BY <1>1, <1>4, <1>5
<1>8. BarOf(<<price>>, TRUE, bar)
  <2>1. <<price>> # <<>> /\ <<price>>[1] = price /\ <<price>>[Len(<<price>>)] = price
    BY <1>2
  <2>. QED
    BY <1>2, <1>4, <1>6, <1>7, <2>1 DEF BarOf
<1>. QED
  BY <1>2, <1>3, <1>8 DEF bar

-----------------------------------------------------------------------------
(* The invariant                                                             *)

ThisDay == now[1]
TicksTyped == ticks \in [Universe -> [1..Minutes -> Seq(Prices)]]
BarsTyped ==
    /\ bars = [s \in Universe |-> bars[s]]
    /\ \A s \in Universe : /\ DOMAIN bars[s] \subseteq 1..Minutes
                           /\ bars[s] = [m \in DOMAIN bars[s] |-> bars[s][m]]
                           /\ \A m \in DOMAIN bars[s] : bars[s][m] \in Records /\ bars[s][m].day = session
BarsInv ==
    /\ now = <<now[1], now[2]>> /\ now[1] \in Nat \ {0} /\ now[2] \in 1..Minutes
    /\ session \in Nat /\ session <= ThisDay
    /\ TicksTyped /\ BarsTyped
    /\ session = 0 => bars = NoBars
    /\ session # ThisDay => ticks = NoTicks
    /\ session = ThisDay =>
         \A s \in Universe, m \in 1..Minutes :
            /\ BarOf(ticks[s][m], m \in DOMAIN bars[s], bars[s][m])
            /\ m > now[2] => ticks[s][m] = <<>>

StackInv ==
    /\ trader \in {"waiting", "cycle"} => stack = "open" /\ phase \in {"serving", "stopping"}
    /\ phase \in {"off", "starting", "arming"} => trader = "none"

LEMMA AppStart == AppInit => BarsInv /\ StackInv
<1>. SUFFICES ASSUME AppInit PROVE BarsInv /\ StackInv
  OBVIOUS
<1>1. now[1] = 1 /\ now[2] = 1 /\ 1 \in 1..Minutes
  BY ApplicationAssumption DEF AppInit
<1>2. TicksTyped
  BY DEF AppInit, TicksTyped, NoTicks
<1>3. BarsTyped
  BY DEF AppInit, BarsTyped, NoBars
<1>. QED
  BY <1>1, <1>2, <1>3 DEF AppInit, BarsInv, StackInv, ThisDay

LEMMA StackKeeps == StackInv /\ [AppNext]_appVars => StackInv'
<1>. SUFFICES ASSUME StackInv, [AppNext]_appVars PROVE StackInv'
  OBVIOUS
<1>. USE DEF StackInv
<1>1. CASE Launch
  BY <1>1 DEF Launch
<1>2. CASE BuildStack
  BY <1>2 DEF BuildStack
<1>3. CASE Arm
  BY <1>3 DEF Arm
<1>4. CASE CloseStack
  BY <1>4 DEF CloseStack
<1>5. CASE Dispose
  BY <1>5 DEF Dispose
<1>6. CASE CycleEnds \/ TasksSeeStop
  BY <1>6 DEF CycleEnds, TasksSeeStop, lifespan
<1>7. CASE Stop
  BY <1>7 DEF Stop
<1>8. CASE FeedTick \/ Clock \/ CycleBegins
  BY <1>8 DEF FeedTick, Clock, CycleBegins, lifespan
<1>9. CASE UNCHANGED appVars
  BY <1>9 DEF appVars
<1>. QED
  BY <1>1, <1>2, <1>3, <1>4, <1>5, <1>6, <1>7, <1>8, <1>9 DEF AppNext, Lifespan, Work

-----------------------------------------------------------------------------
(* A tick                                                                    *)

(* The bars it finds are those of today, if there was a tick before it.         *)
LEMMA KeptIs ==
  ASSUME BarsInv, NEW s \in Universe
  PROVE  /\ Kept(s) = IF session = ThisDay THEN bars ELSE NoBars
         /\ session # ThisDay => ticks = NoTicks
BY DEF BarsInv, Kept, ThisDay

LEMMA OnTickKeeps ==
  ASSUME BarsInv, NEW s \in Universe, NEW price \in Prices, OnTick(s, price), now' = now
  PROVE  BarsInv'
<1>. DEFINE kept == Kept(s)
            m == now[2]
            opened == [open |-> price, high |-> price, low |-> price, close |-> price,
                       volume |-> 1, day |-> now[1]]
            bar == IF m \in DOMAIN kept[s] THEN Folded(kept[s][m], price) ELSE opened
            row == [x \in DOMAIN kept[s] \cup {m} |-> IF x = m THEN bar ELSE kept[s][x]]
<1>1. bars' = [kept EXCEPT ![s] = row] /\ session' = ThisDay
      /\ ticks' = [ticks EXCEPT ![s][m] = Append(@, price)]
  BY DEF OnTick, ThisDay
<1>2. /\ now[1] \in Nat \ {0} /\ m \in 1..Minutes /\ TicksTyped /\ now = <<now[1], now[2]>>
      /\ \A x \in Universe, k \in 1..Minutes : ticks[x][k] \in Seq(Prices)
  BY DEF BarsInv, TicksTyped
(* What is kept is a day's bars over today's ticks, whether they are new or not.  *)
<1>3. /\ kept = [x \in Universe |-> kept[x]]
      /\ \A x \in Universe :
           /\ DOMAIN kept[x] \subseteq 1..Minutes
           /\ kept[x] = [k \in DOMAIN kept[x] |-> kept[x][k]]
           /\ \A k \in DOMAIN kept[x] : kept[x][k] \in Records /\ kept[x][k].day = ThisDay
      /\ \A x \in Universe, k \in 1..Minutes :
           /\ BarOf(ticks[x][k], k \in DOMAIN kept[x], kept[x][k])
           /\ k > m => ticks[x][k] = <<>>
  <2>1. CASE session = ThisDay
    <3>1. kept = bars
      BY <2>1, KeptIs
    <3>. QED
      BY <2>1, <3>1 DEF BarsInv, BarsTyped
  <2>2. CASE session # ThisDay
    <3>1. kept = [x \in Universe |-> [k \in {} |-> {}]] /\ ticks = [x \in Universe |-> [k \in 1..Minutes |-> <<>>]]
      BY <2>2, KeptIs DEF NoBars, NoTicks
    <3>. HIDE DEF kept
    <3>2. \A x \in Universe : kept[x] = [k \in {} |-> {}] /\ DOMAIN kept[x] = {}
      BY <3>1
    <3>3. \A x \in Universe, k \in 1..Minutes : ticks[x][k] = <<>>
      BY <3>1
    <3>4. \A x \in Universe, k \in 1..Minutes : BarOf(ticks[x][k], k \in DOMAIN kept[x], kept[x][k])
      BY <3>2, <3>3 DEF BarOf
    <3>. QED
      BY <3>1, <3>2, <3>3, <3>4
  <2>. QED
    BY <2>1, <2>2
<1>. HIDE DEF kept
<1>4. bar \in Records /\ bar.day = ThisDay /\ BarOf(Append(ticks[s][m], price), TRUE, bar)
  <2>1. CASE m \in DOMAIN kept[s]
    <3>1. kept[s][m] \in Records /\ kept[s][m].day = ThisDay /\ BarOf(ticks[s][m], TRUE, kept[s][m]) /\ ticks[s][m] # <<>>
      BY <1>2, <1>3, <2>1 DEF BarOf
    <3>2. bar = Folded(kept[s][m], price)
      BY <2>1
    <3>. HIDE DEF bar, m
    <3>. QED
      BY <1>2, <3>1, <3>2, TickFolds DEF m
  <2>2. CASE m \notin DOMAIN kept[s]
    <3>1. ticks[s][m] = <<>>
      BY <1>2, <1>3, <2>2 DEF BarOf
    <3>2. bar = opened
      BY <2>2
    <3>3. opened \in Records /\ BarOf(Append(<<>>, price), TRUE, opened)
      BY <1>2, TickOpens
    <3>4. bar \in Records /\ BarOf(Append(ticks[s][m], price), TRUE, bar)
      <4>. HIDE DEF bar, opened, m
      <4>. QED
        BY <3>1, <3>2, <3>3
    <3>5. opened.day = ThisDay
      BY DEF ThisDay
    <3>. HIDE DEF bar, opened, m
    <3>. QED
      BY <3>2, <3>4, <3>5
  <2>. QED
    BY <2>1, <2>2
<1>. HIDE DEF bar
<1>5. /\ DOMAIN row = DOMAIN kept[s] \cup {m} /\ row[m] = bar
      /\ \A k \in DOMAIN kept[s] : k # m => row[k] = kept[s][k]
      /\ row = [k \in DOMAIN row |-> row[k]]
  OBVIOUS
<1>. HIDE DEF row
<1>6. bars'[s] = row /\ (\A x \in Universe : x # s => bars'[x] = kept[x]) /\ bars' = [x \in Universe |-> bars'[x]]
  BY <1>1, <1>3
<1>7. /\ ticks' \in [Universe -> [1..Minutes -> Seq(Prices)]]
      /\ ticks'[s][m] = Append(ticks[s][m], price)
      /\ \A x \in Universe, k \in 1..Minutes : x # s \/ k # m => ticks'[x][k] = ticks[x][k]
  <2>1. Append(ticks[s][m], price) \in Seq(Prices)
    BY <1>2, AppendProperties
  <2>. HIDE DEF m
  <2>. QED
    BY <1>1, <1>2, <2>1 DEF TicksTyped
<1>8. BarsTyped'
  <2>1. \A x \in Universe : /\ DOMAIN bars'[x] \subseteq 1..Minutes
                            /\ bars'[x] = [k \in DOMAIN bars'[x] |-> bars'[x][k]]
                            /\ \A k \in DOMAIN bars'[x] : bars'[x][k] \in Records /\ bars'[x][k].day = ThisDay
    <3>1. CASE s = s
      <4>1. /\ DOMAIN row \subseteq 1..Minutes /\ row = [k \in DOMAIN row |-> row[k]]
            /\ \A k \in DOMAIN row : row[k] \in Records /\ row[k].day = ThisDay
        <5>. HIDE DEF m
        <5>. QED
          BY <1>2, <1>3, <1>4, <1>5
      <4>. HIDE DEF m
      <4>2. \A x \in Universe : bars'[x] = IF x = s THEN row ELSE kept[x]
        BY <1>6
      <4>. QED
        BY <1>3, <4>1, <4>2
    <3>. QED
      BY <3>1
  <2>. QED
    BY <1>1, <1>6, <2>1 DEF BarsTyped
<1>9. \A x \in Universe, k \in 1..Minutes :
         /\ BarOf(ticks'[x][k], k \in DOMAIN bars'[x], bars'[x][k])
         /\ k > m => ticks'[x][k] = <<>>
  <2>. SUFFICES ASSUME NEW x \in Universe, NEW k \in 1..Minutes
       PROVE  BarOf(ticks'[x][k], k \in DOMAIN bars'[x], bars'[x][k]) /\ (k > m => ticks'[x][k] = <<>>)
    OBVIOUS
  <2>1. CASE x = s /\ k = m
    <3>1. ticks'[x][k] = Append(ticks[s][m], price) /\ k \in DOMAIN bars'[x] /\ bars'[x][k] = bar
      BY <1>5, <1>6, <1>7, <2>1
    <3>2. BarOf(ticks'[x][k], k \in DOMAIN bars'[x], bars'[x][k])
      <4>1. BarOf(Append(ticks[s][m], price), TRUE, bar) /\ (k \in DOMAIN bars'[x]) = TRUE
        BY <1>4, <3>1
      <4>. HIDE DEF m
      <4>. QED
        BY <3>1, <4>1
    <3>3. ~(k > m)
      BY <1>2, <2>1
    <3>. HIDE DEF m
    <3>. QED
      BY <3>2, <3>3
  <2>2. CASE ~(x = s /\ k = m)
    <3>1. ticks'[x][k] = ticks[x][k]
      BY <1>7, <2>2
    <3>2. (k \in DOMAIN bars'[x]) = (k \in DOMAIN kept[x]) /\ (k \in DOMAIN kept[x] => bars'[x][k] = kept[x][k])
      BY <1>5, <1>6, <2>2
    <3>. HIDE DEF m
    <3>3. BarOf(ticks[x][k], k \in DOMAIN kept[x], kept[x][k]) /\ (k > m => ticks[x][k] = <<>>)
      BY <1>3
    <3>4. CASE k \in DOMAIN kept[x]
      <4>1. bars'[x][k] = kept[x][k]
        BY <3>2, <3>4
      <4>. QED
        BY <3>1, <3>2, <3>3, <4>1
    <3>5. CASE k \notin DOMAIN kept[x]
      <4>1. ticks[x][k] = <<>>
        BY <3>3, <3>5 DEF BarOf
      <4>2. k \notin DOMAIN bars'[x]
        BY <3>2, <3>5
      <4>. QED
        BY <3>1, <4>1, <4>2 DEF BarOf
    <3>. QED
      BY <3>4, <3>5
  <2>. QED
    BY <2>1, <2>2
<1>. QED
  BY <1>1, <1>2, <1>7, <1>8, <1>9 DEF BarsInv, TicksTyped, ThisDay

-----------------------------------------------------------------------------
(* Every step                                                                *)

LEMMA ClockKeeps == ASSUME BarsInv, Clock PROVE BarsInv'
<1>1. /\ now[1] \in Nat \ {0} /\ now[2] \in 1..Minutes /\ Minutes \in Nat \ {0}
      /\ session \in Nat /\ session <= now[1] /\ UNCHANGED <<bars, session>>
  BY ApplicationAssumption DEF BarsInv, Clock, prices, ThisDay
<1>2. BarsTyped' /\ (session' = 0 => bars' = NoBars)
  BY <1>1 DEF BarsInv, BarsTyped
<1>3. CASE now[2] < Minutes
  <2>1. now' = <<now[1], now[2] + 1>> /\ now'[1] = now[1] /\ now'[2] = now[2] + 1 /\ ticks' = ticks
    BY <1>1, <1>3 DEF Clock
  <2>2. now'[2] \in 1..Minutes
    BY <1>1, <1>3, <2>1
  <2>3. \A k \in 1..Minutes : k > now'[2] => k > now[2]
    BY <1>1, <2>1
  <2>. QED
    BY <1>1, <1>2, <2>1, <2>2, <2>3 DEF BarsInv, TicksTyped, ThisDay
<1>4. CASE ~(now[2] < Minutes)
  <2>1. /\ now' = <<now[1] + 1, 1>> /\ now'[1] = now[1] + 1 /\ now'[2] = 1 /\ ticks' = NoTicks
        /\ now'[1] \in Nat \ {0} /\ 1 \in 1..Minutes
    BY <1>1, <1>4 DEF Clock
  <2>2. TicksTyped'
    BY <2>1 DEF TicksTyped, NoTicks
  <2>3. session' <= now'[1] /\ session' # now'[1]
    BY <1>1, <2>1
  <2>. QED
    BY <1>1, <1>2, <2>1, <2>2, <2>3 DEF BarsInv, ThisDay
<1>. QED
  BY <1>3, <1>4

LEMMA BarsKeep == BarsInv /\ [AppNext]_appVars => BarsInv'
<1>. SUFFICES ASSUME BarsInv, [AppNext]_appVars PROVE BarsInv'
  OBVIOUS
<1>1. CASE FeedTick
  <2>1. PICK s \in Universe, price \in Prices : OnTick(s, price)
    BY <1>1 DEF FeedTick
  <2>. QED
    BY <1>1, <2>1, OnTickKeeps DEF FeedTick
<1>2. CASE Clock
  BY <1>2, ClockKeeps
<1>3. CASE UNCHANGED <<now, prices>>
  BY <1>3 DEF BarsInv, BarsTyped, TicksTyped, ThisDay, prices
<1>4. CASE Launch \/ BuildStack \/ Arm \/ CloseStack \/ Dispose \/ Stop
  BY <1>3, <1>4 DEF Launch, BuildStack, Arm, CloseStack, Dispose, Stop
<1>5. CASE CycleBegins \/ CycleEnds \/ TasksSeeStop \/ UNCHANGED appVars
  BY <1>3, <1>5 DEF CycleBegins, CycleEnds, TasksSeeStop, appVars, prices
<1>. QED
  BY <1>1, <1>2, <1>4, <1>5 DEF AppNext, Lifespan, Work

LEMMA BarsSeen == BarsInv => BarsAreOfOneSession
<1>. SUFFICES ASSUME BarsInv PROVE BarsAreOfOneSession
  OBVIOUS
<1>. DEFINE Priced(s, m) == {ticks[s][m][i] : i \in DOMAIN ticks[s][m]}
<1>1. \A s \in Universe : \A m \in DOMAIN bars[s] : bars[s][m].day = session
  BY DEF BarsInv, BarsTyped
<1>2. ASSUME session = now[1], NEW s \in Universe, NEW m \in 1..now[2]
      PROVE  IF ticks[s][m] = <<>> THEN m \notin DOMAIN bars[s]
             ELSE /\ bars[s][m].open = ticks[s][m][1] /\ bars[s][m].close = ticks[s][m][Len(ticks[s][m])]
                  /\ bars[s][m].volume = Len(ticks[s][m])
                  /\ {bars[s][m].high, bars[s][m].low} \subseteq Priced(s, m)
                  /\ \A x \in Priced(s, m) : bars[s][m].low <= x /\ x <= bars[s][m].high
  <2>1. m \in 1..Minutes
    BY ApplicationAssumption DEF BarsInv
  <2>2. BarOf(ticks[s][m], m \in DOMAIN bars[s], bars[s][m])
    BY <1>2, <2>1 DEF BarsInv, ThisDay
  <2>. QED
    BY <2>2 DEF BarOf
<1>. QED
  BY <1>1, <1>2 DEF BarsAreOfOneSession

(* What main.py's lifespan and the feed's aggregator owe the trader, whatever      *)
(* the ticks and however the clock, the feed, the trader and the shutdown are    *)
(* interleaved: the bars are those of one session and each is what its minute's  *)
(* ticks were, and no cycle is under way over a stack that is closed.           *)
THEOREM BarsAndStack ==
  AppInit /\ [][AppNext]_appVars => [](BarsAreOfOneSession /\ (trader = "cycle" => stack = "open"))
<1>1. BarsInv /\ StackInv => BarsAreOfOneSession /\ (trader = "cycle" => stack = "open")
  BY BarsSeen DEF StackInv
<1>. QED
  BY <1>1, AppStart, BarsKeep, StackKeeps, PTL

-----------------------------------------------------------------------------
(* The recap of the day                                                      *)

OnlyOne == \A v, w \in Workers : v = w
Errands == [at : {"free"}] \cup
         [at : {"reading", "writing", "acknowledging", "failed"}, day : SummaryDays, tries : 0..MaxRetries]
RecapInv ==
    /\ notified \in [SummaryDays -> 0..1]
    /\ running \in [Workers -> Errands]
    /\ \A w \in Workers : running[w].at = "writing" => notified[running[w].day] = 0

LEMMA ErrandIs ==
  ASSUME NEW errand \in Errands
  PROVE  /\ errand # Free => /\ errand.at \in {"reading", "writing", "acknowledging", "failed"}
                           /\ errand.day \in SummaryDays /\ errand.tries \in 0..MaxRetries
         /\ errand.at # "free" => errand # Free
         /\ errand = Free => errand.at = "free"
         /\ Free \in Errands
         /\ errand # Free => \A at \in {"writing", "acknowledging", "failed"} :
                             /\ [errand EXCEPT !.at = at] \in Errands
                             /\ [errand EXCEPT !.at = at].at = at
                             /\ [errand EXCEPT !.at = at].day = errand.day
BY DEF Errands, Free

LEMMA RecapStarts == WkInit => RecapInv
<1>. SUFFICES ASSUME WkInit PROVE RecapInv
  OBVIOUS
<1>1. Free \in Errands /\ Free.at = "free"
  BY DEF Free, Errands
<1>. QED
  BY <1>1 DEF WkInit, RecapInv

LEMMA ErrandSet ==
  ASSUME RecapInv, NEW w \in Workers, NEW errand \in Errands, running' = [running EXCEPT ![w] = errand],
         notified' \in [SummaryDays -> 0..1], \A v \in Workers : v = w,
         errand.at = "writing" => notified'[errand.day] = 0
  PROVE  RecapInv'
BY DEF RecapInv

(* A worker goes on with the errand it has.                                      *)
LEMMA ErrandMoves ==
  ASSUME RecapInv, NEW w \in Workers, running[w] # Free, \A v \in Workers : v = w,
         NEW at \in {"writing", "acknowledging", "failed"},
         running' = [running EXCEPT ![w] = [running[w] EXCEPT !.at = at]],
         notified' \in [SummaryDays -> 0..1],
         at = "writing" => notified'[running[w].day] = 0
  PROVE  RecapInv'
<1>. DEFINE errand == [running[w] EXCEPT !.at = at]
<1>1. running[w] \in Errands
  BY DEF RecapInv
<1>2. errand \in Errands /\ errand.at = at /\ errand.day = running[w].day
  BY <1>1 DEF Errands, Free
<1>3. running' = [running EXCEPT ![w] = errand]
  OBVIOUS
<1>. HIDE DEF errand
<1>. QED
  BY <1>2, <1>3, ErrandSet

LEMMA RecapKeeps == OnlyOne /\ RecapInv /\ [WkNext]_wkVars => RecapInv'
<1>. SUFFICES ASSUME OnlyOne, RecapInv, [WkNext]_wkVars PROVE RecapInv'
  OBVIOUS
<1>1. ASSUME NEW w \in Workers, WorkOn(w) \/ DatabaseFails(w) \/ Die(w) PROVE RecapInv'
  <2>1. /\ \A v \in Workers : v = w
        /\ running[w] \in Errands /\ notified \in [SummaryDays -> 0..1]
        /\ running[w].at = "writing" => notified[running[w].day] = 0
        /\ Free \in Errands /\ Free.at = "free"
    BY DEF OnlyOne, RecapInv, Free, Errands
  <2>2. CASE Take(w)
    <3>1. PICK d \in SummaryDays, n \in 0..MaxRetries :
             running' = [running EXCEPT ![w] = [at |-> "reading", day |-> d, tries |-> n]]
      BY <2>2 DEF Take
    <3>2. [at |-> "reading", day |-> d, tries |-> n] \in Errands
      BY DEF Errands
    <3>. QED
      BY <2>1, <2>2, <3>1, <3>2, ErrandSet DEF Take
  <2>3. CASE Read(w)
    <3>. DEFINE d == running[w].day
    <3>1. running[w] # Free /\ d \in SummaryDays /\ notified[d] \in 0..1
      BY <2>1, <2>3, ErrandIs DEF Read
    <3>2. CASE notified[d] = 0
      <4>1. running' = [running EXCEPT ![w] = [running[w] EXCEPT !.at = "writing"]]
        BY <2>3, <3>2 DEF Read
      <4>. QED
        BY <2>1, <2>3, <3>1, <3>2, <4>1, ErrandMoves DEF Read
    <3>3. CASE notified[d] = 1
      <4>1. running' = [running EXCEPT ![w] = [running[w] EXCEPT !.at = "acknowledging"]]
        BY <2>3, <3>3 DEF Read
      <4>. QED
        BY <2>1, <2>3, <3>1, <4>1, ErrandMoves DEF Read
    <3>. QED
      BY <3>1, <3>2, <3>3
  <2>4. CASE Write(w)
    <3>. DEFINE d == running[w].day
    <3>1. running[w] # Free /\ d \in SummaryDays /\ notified[d] = 0
      BY <2>1, <2>4, ErrandIs DEF Write
    <3>2. notified' = [notified EXCEPT ![d] = notified[d] + 1]
      BY <2>4 DEF Write
    <3>. HIDE DEF d
    <3>3. notified' \in [SummaryDays -> 0..1]
      BY <2>1, <3>1, <3>2
    <3>4. running' = [running EXCEPT ![w] = [running[w] EXCEPT !.at = "acknowledging"]]
      BY <2>4 DEF Write
    <3>. QED
      BY <2>1, <3>1, <3>3, <3>4, ErrandMoves
  <2>5. CASE DatabaseFails(w)
    <3>1. running[w] # Free
      BY <2>1, <2>5, ErrandIs DEF DatabaseFails
    <3>2. running' = [running EXCEPT ![w] = [running[w] EXCEPT !.at = "failed"]] /\ notified' = notified
      BY <2>5 DEF DatabaseFails
    <3>. QED
      BY <2>1, <3>1, <3>2, ErrandMoves
  <2>6. CASE Acknowledge(w) \/ Retry(w) \/ Die(w)
    <3>1. running' = [running EXCEPT ![w] = Free] /\ notified' = notified
      BY <2>6 DEF Acknowledge, Retry, Die
    <3>. QED
      BY <2>1, <3>1, ErrandSet
  <2>. QED
    BY <1>1, <2>2, <2>3, <2>4, <2>5, <2>6 DEF WorkOn
<1>2. CASE UNCHANGED <<running, notified>>
  BY <1>2 DEF RecapInv
<1>3. ASSUME NEW d \in SummaryDays, Beat(d) \/ RunAgain(d) PROVE RecapInv'
  BY <1>2, <1>3 DEF Beat, RunAgain
<1>4. CASE UNCHANGED wkVars
  BY <1>2, <1>4 DEF wkVars
<1>. QED
  BY <1>1, <1>3, <1>4 DEF WkNext

(* worker.py, the summary of the day: with one worker no day has two recaps,       *)
(* however often its errand is delivered again after a death, tried again after a   *)
(* failure of the database, or run by hand.  Two workers may both read a day     *)
(* that has none.                                                             *)
THEOREM OneRecap ==
  ASSUME OnlyOne
  PROVE  WkInit /\ [][WkNext]_wkVars => [](\A d \in SummaryDays : notified[d] <= 1)
<1>1. RecapInv => \A d \in SummaryDays : notified[d] <= 1
  BY DEF RecapInv
<1>2. RecapInv /\ [WkNext]_wkVars => RecapInv'
  BY RecapKeeps
<1>. QED
  BY <1>1, <1>2, RecapStarts, PTL
=============================================================================
