--------------------------------- MODULE Sums ---------------------------------
(* Sums over finite sets, as the folds of the community modules compute them:  *)
(* taking off an element the fold chooses, whichever that is.                 *)
EXTENDS Integers, FiniteSets, Functions, FiniteSetTheorems, WellFoundedInduction, TLAPS

(* Of some natural numbers, one is the least.                                  *)
LEMMA LeastNatural ==
  ASSUME NEW T, T \subseteq Nat, T # {} PROVE \E m \in T : \A k \in T : m <= k
  <1> DEFINE R == {ss \in Nat \X Nat : ss[1] < ss[2]}
  <1>1. IsWellFoundedOn(R, Nat)
    BY NatLessThanWellFounded DEF OpToRel
  <1>2. PICK m \in T : \A k \in T : <<k, m>> \notin R
    <2> HIDE DEF R
    <2> QED BY <1>1, WFMin
  <1>3. \A k \in T : ~(k < m)
    BY <1>2
  <1> QED BY <1>3

(* Of some subsets of a finite set, one has none of the others within it.     *)
(* It stands in for induction: nothing fails where nothing fails first.       *)
LEMMA SmallestSet ==
  ASSUME NEW S, IsFiniteSet(S), NEW B, B \subseteq SUBSET S, B # {}
  PROVE  \E T \in B : \A U \in B : U \subseteq T => U = T
<1>1. IsWellFoundedOn(StrictSubsetOrdering(S), SUBSET S)
  BY FS_StrictSubsetOrderingWellFounded, FS_FiniteSubsetsOfFinite
<1>2. PICK T \in B : \A U \in B : ~(<<U, T>> \in StrictSubsetOrdering(S))
  BY <1>1, WFMin
<1>. QED
  BY <1>2 DEF StrictSubsetOrdering

Chosen(s) == CHOOSE x \in s : TRUE

(* g adds up f over every subset of S, an element at a time.                  *)
Summing(f, S, g) ==
    g = [s \in SUBSET S |-> IF s = {} THEN 0 ELSE f[Chosen(s)] + g[s \ {Chosen(s)}]]

(* What is added is a whole number.                                           *)
Whole(f, S) == \A x \in S : f[x] \in Int

LEMMA ChosenIn == ASSUME NEW s, s # {} PROVE Chosen(s) \in s /\ s \ {Chosen(s)} # s
BY DEF Chosen

LEMMA SummingAt ==
  ASSUME NEW f, NEW S, NEW g, Summing(f, S, g)
  PROVE  /\ g[{}] = 0
         /\ \A s \in SUBSET S : s # {} => g[s] = f[Chosen(s)] + g[s \ {Chosen(s)}]
BY DEF Summing

(* Sums of what agrees agree.                                                 *)
LEMMA SummingAgree ==
  ASSUME NEW f, NEW e, NEW S, NEW T, NEW g, NEW h, IsFiniteSet(S),
         Summing(f, S, g), Summing(e, T, h),
         NEW V, V \subseteq S, V \subseteq T, \A x \in V : f[x] = e[x]
  PROVE  g[V] = h[V]
<1>. DEFINE B == {U \in SUBSET V : g[U] # h[U]}
<1>. SUFFICES ASSUME g[V] # h[V] PROVE FALSE
  OBVIOUS
<1>1. V \in B /\ B \subseteq SUBSET S
  OBVIOUS
<1>. HIDE DEF B
<1>2. PICK U \in B : \A X \in B : X \subseteq U => X = U
  BY <1>1, SmallestSet
<1>3. U \in SUBSET S /\ U \in SUBSET T /\ U \subseteq V /\ g[U] # h[U]
  BY <1>2 DEF B
<1>4. U # {}
  BY <1>3, SummingAt
<1>. DEFINE x == Chosen(U)
<1>5. x \in U /\ U \ {x} \notin B
  BY <1>2, <1>4, ChosenIn
<1>6. g[U \ {x}] = h[U \ {x}]
  BY <1>3, <1>5 DEF B
<1>7. g[U] = f[x] + g[U \ {x}] /\ h[U] = e[x] + h[U \ {x}]
  BY <1>3, <1>4, SummingAt
<1>8. f[x] = e[x]
  BY <1>3, <1>5
<1>. QED
  BY <1>3, <1>6, <1>7, <1>8

LEMMA SummingUnique ==
  ASSUME NEW f, NEW S, NEW T, NEW g, NEW h, IsFiniteSet(S), Summing(f, S, g), Summing(f, T, h),
         NEW V, V \subseteq S, V \subseteq T
  PROVE  g[V] = h[V]
BY SummingAgree

LEMMA SummingExists ==
  ASSUME NEW f, NEW S, IsFiniteSet(S)
  PROVE  \E g : Summing(f, S, g)
<1>. DEFINE B == {U \in SUBSET S : ~\E g : Summing(f, U, g)}
<1>. SUFFICES ASSUME S \in B PROVE FALSE
  OBVIOUS
<1>. HIDE DEF B
<1>1. PICK T \in B : \A X \in B : X \subseteq T => X = T
  <2>1. B \subseteq SUBSET S
    BY DEF B
  <2>. QED
    BY <2>1, SmallestSet
<1>2. T \in SUBSET S /\ ~\E g : Summing(f, T, g)
  BY <1>1 DEF B
<1>. DEFINE of(U) == CHOOSE g : Summing(f, U, g)
            e(U) == of(U)[U]
            G == [s \in SUBSET T |-> IF s = {} THEN 0 ELSE f[Chosen(s)] + e(s \ {Chosen(s)})]
<1>3. ASSUME NEW U, U \subseteq T, U # T PROVE Summing(f, U, of(U)) /\ IsFiniteSet(U)
  <2>1. U \notin B /\ U \in SUBSET S
    BY <1>1, <1>2, <1>3
  <2>2. \E g : Summing(f, U, g)
    BY <2>1 DEF B
  <2>3. IsFiniteSet(U)
    BY <2>1, FS_Subset
  <2>. QED
    BY <2>2, <2>3
<1>. HIDE DEF of
<1>4. ASSUME NEW U, U \subseteq T, U # T PROVE e(U) = G[U]
  <2>1. Summing(f, U, of(U)) /\ IsFiniteSet(U)
    BY <1>3, <1>4
  <2>2. CASE U = {}
    BY <2>1, <2>2, SummingAt
  <2>3. CASE U # {}
    <3>. DEFINE V == U \ {Chosen(U)}
    <3>1. V \subseteq U /\ V \subseteq T /\ V # T
      BY <1>4, <2>3, ChosenIn
    <3>2. Summing(f, V, of(V)) /\ IsFiniteSet(V)
      BY <1>3, <3>1
    <3>3. of(U)[U] = f[Chosen(U)] + of(U)[V]
      BY <2>1, <2>3, SummingAt
    <3>. HIDE DEF V
    <3>4. of(U)[V] = of(V)[V]
      BY <2>1, <3>1, <3>2, SummingUnique
    <3>. QED
      BY <1>4, <2>3, <3>3, <3>4 DEF V
  <2>. QED
    BY <2>2, <2>3
<1>5. ASSUME NEW s \in SUBSET T, s # {} PROVE e(s \ {Chosen(s)}) = G[s \ {Chosen(s)}]
  <2>1. s \ {Chosen(s)} \subseteq T /\ s \ {Chosen(s)} # T
    BY <1>5, ChosenIn
  <2>. QED
    BY <1>4, <2>1
<1>6. Summing(f, T, G)
  <2>1. \A s \in SUBSET T : G[s] = IF s = {} THEN 0 ELSE f[Chosen(s)] + G[s \ {Chosen(s)}]
    BY <1>5
  <2>. QED
    BY <2>1 DEF Summing
<1>. QED
  BY <1>2, <1>6

LEMMA SummingTyped ==
  ASSUME NEW f, NEW S, NEW g, IsFiniteSet(S), Summing(f, S, g), Whole(f, S),
         NEW V, V \subseteq S
  PROVE  g[V] \in Int
<1>. DEFINE B == {U \in SUBSET S : g[U] \notin Int}
<1>. SUFFICES ASSUME V \in B PROVE FALSE
  OBVIOUS
<1>. HIDE DEF B
<1>1. PICK U \in B : \A X \in B : X \subseteq U => X = U
  <2>1. B \subseteq SUBSET S
    BY DEF B
  <2>. QED
    BY <2>1, SmallestSet
<1>2. U \in SUBSET S /\ g[U] \notin Int
  BY <1>1 DEF B
<1>3. /\ g[{}] = 0
      /\ \A s \in SUBSET S : s # {} => g[s] = f[Chosen(s)] + g[s \ {Chosen(s)}]
  BY SummingAt
<1>4. U # {}
  <2>. SUFFICES ASSUME U = {} PROVE g[U] \in Int
    BY <1>2
  <2>1. g[U] = 0
    BY <1>3
  <2>. QED
    BY <2>1
<1>. DEFINE x == Chosen(U)
<1>5. x \in U /\ U \ {x} \notin B
  BY <1>1, <1>4, ChosenIn
<1>6. g[U \ {x}] \in Int /\ f[x] \in Int
  BY <1>2, <1>5 DEF B, Whole
<1>7. g[U] = f[x] + g[U \ {x}]
  BY <1>2, <1>3, <1>4
<1>. QED
  BY <1>2, <1>6, <1>7

(* The order of the elements makes no difference: any may be taken off first. *)
LEMMA SummingTakes ==
  ASSUME NEW f, NEW S, NEW g, IsFiniteSet(S), Summing(f, S, g), Whole(f, S),
         NEW V, V \subseteq S, NEW k \in V
  PROVE  g[V] = f[k] + g[V \ {k}]
<1>. DEFINE B == {U \in SUBSET S : \E j \in U : g[U] # f[j] + g[U \ {j}]}
<1>. SUFFICES ASSUME V \in B PROVE FALSE
  OBVIOUS
<1>. HIDE DEF B
<1>1. PICK U \in B : \A X \in B : X \subseteq U => X = U
  <2>1. B \subseteq SUBSET S
    BY DEF B
  <2>. QED
    BY <2>1, SmallestSet
<1>2. U \in SUBSET S
  BY <1>1 DEF B
<1>3. PICK j \in U : g[U] # f[j] + g[U \ {j}]
  BY <1>1 DEF B
<1>. DEFINE x == Chosen(U)
            W == (U \ {j}) \ {x}
<1>4. x \in U /\ g[U] = f[x] + g[U \ {x}]
  BY <1>2, SummingAt, ChosenIn
<1>. HIDE DEF x
<1>5. x # j
  BY <1>3, <1>4
<1>6. U \ {x} \notin B /\ U \ {j} \notin B
  BY <1>1, <1>3, <1>4
<1>7. (U \ {x}) \ {j} = W /\ j \in U \ {x} /\ x \in U \ {j}
  BY <1>4, <1>5
<1>8. g[U \ {x}] = f[j] + g[W]
  <2>1. \A i \in U \ {x} : g[U \ {x}] = f[i] + g[(U \ {x}) \ {i}]
    BY <1>2, <1>6 DEF B
  <2>. QED
    BY <2>1, <1>7
<1>9. g[U \ {j}] = f[x] + g[W]
  <2>1. \A i \in U \ {j} : g[U \ {j}] = f[i] + g[(U \ {j}) \ {i}]
    BY <1>2, <1>6 DEF B
  <2>. QED
    BY <2>1, <1>7
<1>10. f[x] \in Int /\ f[j] \in Int /\ g[W] \in Int
  <2>1. W \subseteq S
    BY <1>2
  <2>. QED
    BY <1>2, <1>4, <2>1, SummingTyped DEF Whole
<1>. HIDE DEF W
<1>. QED
  BY <1>3, <1>4, <1>8, <1>9, <1>10

(* One more element adds its value.                                           *)
LEMMA SummingAdds ==
  ASSUME NEW f, NEW S, NEW k, k \notin S, NEW g, NEW h, IsFiniteSet(S),
         Whole(f, S \cup {k}),
         Summing(f, S, g), Summing(f, S \cup {k}, h)
  PROVE  h[S \cup {k}] = f[k] + g[S]
<1>. DEFINE T == S \cup {k}
<1>1. IsFiniteSet(T) /\ k \in T /\ T \ {k} = S
  BY FS_AddElement
<1>2. h[T] = f[k] + h[T \ {k}]
  BY <1>1, SummingTakes
<1>3. h[S] = g[S]
  BY <1>1, SummingUnique
<1>. QED
  BY <1>1, <1>2, <1>3

(* Adding more gives more.                                                    *)
LEMMA SummingBelow ==
  ASSUME NEW f, NEW e, NEW S, NEW g, NEW h, IsFiniteSet(S), Summing(f, S, g), Summing(e, S, h),
         Whole(f, S), Whole(e, S), \A x \in S : f[x] <= e[x],
         NEW V, V \subseteq S
  PROVE  g[V] <= h[V]
<1>. DEFINE B == {U \in SUBSET S : ~(g[U] <= h[U])}
<1>. SUFFICES ASSUME V \in B PROVE FALSE
  OBVIOUS
<1>. HIDE DEF B
<1>1. PICK U \in B : \A X \in B : X \subseteq U => X = U
  <2>1. B \subseteq SUBSET S
    BY DEF B
  <2>. QED
    BY <2>1, SmallestSet
<1>2. U \in SUBSET S /\ ~(g[U] <= h[U])
  BY <1>1 DEF B
<1>3. U # {}
  <2>. SUFFICES ASSUME U = {} PROVE g[U] <= h[U]
    BY <1>2
  <2>1. g[U] = 0 /\ h[U] = 0
    BY SummingAt
  <2>. QED
    BY <2>1
<1>. DEFINE x == Chosen(U)
            W == U \ {x}
<1>4. x \in U /\ W \notin B /\ W \in SUBSET S
  BY <1>1, <1>2, <1>3, ChosenIn
<1>5. g[U] = f[x] + g[W] /\ h[U] = e[x] + h[W]
  BY <1>2, <1>3, SummingAt
<1>6. g[W] <= h[W]
  BY <1>4 DEF B
<1>7. f[x] \in Int /\ e[x] \in Int /\ f[x] <= e[x]
  BY <1>2, <1>4 DEF Whole
<1>8. g[W] \in Int /\ h[W] \in Int
  BY <1>4, SummingTyped
<1>. HIDE DEF x, W
<1>. QED
  BY <1>2, <1>5, <1>6, <1>7, <1>8

LEMMA SummingRaised ==
  ASSUME NEW f, NEW e, NEW S, NEW g, NEW h, IsFiniteSet(S), Summing(f, S, g), Summing(e, S, h),
         Whole(f, S), Whole(e, S), \A x \in S : f[x] <= e[x],
         NEW k \in S, NEW n \in Int, f[k] + n <= e[k]
  PROVE  g[S] + n <= h[S]
<1>. DEFINE W == S \ {k}
<1>1. g[S] = f[k] + g[W] /\ h[S] = e[k] + h[W]
  BY SummingTakes
<1>2. g[W] <= h[W] /\ g[W] \in Int /\ h[W] \in Int
  BY SummingBelow, SummingTyped
<1>3. f[k] \in Int /\ e[k] \in Int
  BY DEF Whole
<1>. HIDE DEF W
<1>. QED
  BY <1>1, <1>2, <1>3

LEMMA SummingNothing ==
  ASSUME NEW f, NEW S, NEW g, IsFiniteSet(S), Summing(f, S, g), Whole(f, S),
         \A x \in S : 0 <= f[x]
  PROVE  0 <= g[S]
<1>. DEFINE z == [x \in S |-> 0]
<1>1. PICK h : Summing(z, S, h)
  BY SummingExists
<1>2. \A U \in SUBSET S : h[U] = 0
  <2>. DEFINE B == {U \in SUBSET S : h[U] # 0}
  <2>. SUFFICES ASSUME NEW V \in B PROVE FALSE
    OBVIOUS
  <2>. HIDE DEF B
  <2>1. PICK U \in B : \A X \in B : X \subseteq U => X = U
    <3>1. B \subseteq SUBSET S
      BY DEF B
    <3>. QED
      BY <3>1, SmallestSet
  <2>2. U \in SUBSET S /\ h[U] # 0
    BY <2>1 DEF B
  <2>3. U # {}
    <3>. SUFFICES ASSUME U = {} PROVE h[U] = 0
      BY <2>2
    <3>. QED
      BY <1>1, SummingAt
  <2>4. Chosen(U) \in U /\ U \ {Chosen(U)} \notin B
    BY <2>1, <2>3, ChosenIn
  <2>5. h[U \ {Chosen(U)}] = 0
    BY <2>2, <2>4 DEF B
  <2>6. z[Chosen(U)] = 0
    BY <2>2, <2>4
  <2>. HIDE DEF z
  <2>7. h[U] = z[Chosen(U)] + h[U \ {Chosen(U)}]
    BY <1>1, <2>2, <2>3, SummingAt
  <2>. QED
    BY <2>2, <2>5, <2>6, <2>7
<1>3. Whole(z, S) /\ \A x \in S : z[x] <= f[x]
  BY DEF Whole
<1>4. h[S] = 0
  BY <1>2
<1>. HIDE DEF z
<1>5. h[S] <= g[S]
  BY <1>1, <1>3, SummingBelow
<1>. QED
  BY <1>4, <1>5

(* Adding in parts gives the whole.                                           *)
LEMMA SummingParts ==
  ASSUME NEW f, NEW d, NEW e, NEW S, NEW g, NEW h, NEW k, IsFiniteSet(S),
         Summing(f, S, g), Summing(d, S, h), Summing(e, S, k),
         Whole(d, S), Whole(e, S), \A x \in S : f[x] = d[x] + e[x]
  PROVE  g[S] = h[S] + k[S]
<1>. DEFINE B == {U \in SUBSET S : g[U] # h[U] + k[U]}
<1>. SUFFICES ASSUME S \in B PROVE FALSE
  OBVIOUS
<1>. HIDE DEF B
<1>1. PICK U \in B : \A X \in B : X \subseteq U => X = U
  <2>1. B \subseteq SUBSET S
    BY DEF B
  <2>. QED
    BY <2>1, SmallestSet
<1>2. U \in SUBSET S /\ g[U] # h[U] + k[U]
  BY <1>1 DEF B
<1>3. U # {}
  <2>. SUFFICES ASSUME U = {} PROVE g[U] = h[U] + k[U]
    BY <1>2
  <2>1. g[U] = 0 /\ h[U] = 0 /\ k[U] = 0
    BY SummingAt
  <2>. QED
    BY <2>1
<1>. DEFINE x == Chosen(U)
            W == U \ {x}
<1>4. x \in U /\ W \notin B /\ W \in SUBSET S
  BY <1>1, <1>2, <1>3, ChosenIn
<1>5. g[U] = f[x] + g[W] /\ h[U] = d[x] + h[W] /\ k[U] = e[x] + k[W]
  BY <1>2, <1>3, SummingAt
<1>6. g[W] = h[W] + k[W]
  BY <1>4 DEF B
<1>7. d[x] \in Int /\ e[x] \in Int /\ f[x] = d[x] + e[x]
  BY <1>2, <1>4 DEF Whole
<1>8. h[W] \in Int /\ k[W] \in Int
  BY <1>4, SummingTyped
<1>. HIDE DEF x, W
<1>. QED
  BY <1>2, <1>5, <1>6, <1>7, <1>8

-----------------------------------------------------------------------------
(* The sums of the community modules                                         *)

LEMMA SumSums ==
  ASSUME NEW f, NEW C, IsFiniteSet(C)
  PROVE  \E g : Summing(f, C, g) /\ SumFunctionOnSet(f, C) = g[C]
<1>. DEFINE F(g) == [s \in SUBSET C |->
                       IF s = {} THEN 0
                       ELSE LET x == CHOOSE y \in s : TRUE IN f[x] + g[s \ {x}]]
            h == CHOOSE g : g = F(g)
<1>1. ASSUME NEW g PROVE Summing(f, C, g) <=> g = F(g)
  BY DEF Summing, Chosen
<1>2. SumFunctionOnSet(f, C) = h[C]
  BY DEF SumFunctionOnSet, FoldFunctionOnSet, MapThenFoldSet
<1>3. PICK g : Summing(f, C, g)
  BY SummingExists
<1>4. h = F(h)
  <2>. HIDE DEF F
  <2>. QED
    BY <1>1, <1>3
<1>. HIDE DEF F, h
<1>. QED
  BY <1>1, <1>2, <1>4

LEMMA SumInt ==
  ASSUME NEW f, IsFiniteSet(DOMAIN f), Whole(f, DOMAIN f)
  PROVE  SumFunction(f) \in Int
<1>1. PICK g : Summing(f, DOMAIN f, g) /\ SumFunction(f) = g[DOMAIN f]
  BY SumSums DEF SumFunction
<1>. QED
  BY <1>1, SummingTyped

(* Nothing below zero makes a sum below zero, or below one of its summands.   *)
LEMMA SumNat ==
  ASSUME NEW f, IsFiniteSet(DOMAIN f), \A x \in DOMAIN f : f[x] \in Nat
  PROVE  SumFunction(f) \in Nat /\ \A x \in DOMAIN f : f[x] <= SumFunction(f)
<1>. DEFINE S == DOMAIN f
<1>1. PICK g : Summing(f, S, g) /\ SumFunction(f) = g[S]
  BY SumSums DEF SumFunction
<1>2. Whole(f, S) /\ \A x \in S : 0 <= f[x]
  BY DEF Whole
<1>3. 0 <= g[S] /\ g[S] \in Int
  BY <1>1, <1>2, SummingNothing, SummingTyped
<1>4. ASSUME NEW x \in S PROVE f[x] <= g[S]
  <2>. DEFINE W == S \ {x}
  <2>1. g[S] = f[x] + g[W]
    BY <1>1, <1>2, SummingTakes
  <2>2. IsFiniteSet(W) /\ W \subseteq S
    BY FS_Subset
  <2>3. PICK h : Summing(f, W, h)
    BY <2>2, SummingExists
  <2>4. g[W] = h[W]
    BY <1>1, <2>2, <2>3, SummingUnique
  <2>5. Whole(f, W) /\ \A y \in W : 0 <= f[y]
    BY <1>2, <2>2 DEF Whole
  <2>6. 0 <= h[W] /\ h[W] \in Int
    BY <2>2, <2>3, <2>5, SummingNothing, SummingTyped
  <2>7. f[x] \in Int
    BY <1>2 DEF Whole
  <2>. HIDE DEF W
  <2>. QED
    BY <2>1, <2>4, <2>6, <2>7
<1>. QED
  BY <1>1, <1>3, <1>4

LEMMA SumZero ==
  ASSUME NEW f, IsFiniteSet(DOMAIN f), \A x \in DOMAIN f : f[x] = 0
  PROVE  SumFunction(f) = 0
<1>. DEFINE S == DOMAIN f
<1>1. PICK g : Summing(f, S, g) /\ SumFunction(f) = g[S]
  BY SumSums DEF SumFunction
<1>2. Whole(f, S) /\ \A x \in S : f[x] = f[x] + f[x]
  BY DEF Whole
<1>. HIDE DEF S
<1>3. IsFiniteSet(S)
  BY DEF S
<1>4. g[S] = g[S] + g[S]
  BY <1>1, <1>2, <1>3, SummingParts
<1>5. g[S] \in Int
  BY <1>1, <1>2, <1>3, SummingTyped
<1>6. g[S] = 0
  <2>1. \A n \in Int : n = n + n => n = 0
    OBVIOUS
  <2>. QED
    BY <1>4, <1>5, <2>1
<1>. QED
  BY <1>1, <1>6

(* One more summand.                                                          *)
LEMMA SumGrows ==
  ASSUME NEW f, NEW e, NEW k, k \notin DOMAIN f, DOMAIN e = DOMAIN f \cup {k}, IsFiniteSet(DOMAIN f),
         Whole(e, DOMAIN e), \A x \in DOMAIN f : e[x] = f[x]
  PROVE  SumFunction(e) = SumFunction(f) + e[k]
<1>. DEFINE S == DOMAIN f
            T == DOMAIN e
<1>1. PICK g : Summing(f, S, g) /\ SumFunction(f) = g[S]
  BY SumSums DEF SumFunction
<1>2. IsFiniteSet(T) /\ k \in T /\ T \ {k} = S /\ S \subseteq T
  BY FS_AddElement
<1>3. PICK h : Summing(e, T, h) /\ SumFunction(e) = h[T]
  BY <1>2, SumSums DEF SumFunction
<1>4. h[T] = e[k] + h[S]
  BY <1>2, <1>3, SummingTakes
<1>5. h[S] = g[S]
  BY <1>1, <1>2, <1>3, SummingAgree
<1>6. e[k] \in Int /\ h[S] \in Int
  BY <1>2, <1>3, SummingTyped DEF Whole
<1>. QED
  BY <1>1, <1>3, <1>4, <1>5, <1>6

(* Another value for one summand.                                             *)
LEMMA SumChanges ==
  ASSUME NEW f, NEW e, NEW k \in DOMAIN f, DOMAIN e = DOMAIN f, IsFiniteSet(DOMAIN f),
         Whole(f, DOMAIN f), Whole(e, DOMAIN f), \A x \in DOMAIN f \ {k} : e[x] = f[x]
  PROVE  SumFunction(e) = SumFunction(f) + (e[k] - f[k])
<1>. DEFINE S == DOMAIN f
            W == S \ {k}
<1>1. PICK g : Summing(f, S, g) /\ SumFunction(f) = g[S]
  BY SumSums DEF SumFunction
<1>2. PICK h : Summing(e, S, h) /\ SumFunction(e) = h[S]
  BY SumSums DEF SumFunction
<1>3. g[S] = f[k] + g[W] /\ h[S] = e[k] + h[W]
  BY <1>1, <1>2, SummingTakes
<1>4. h[W] = g[W] /\ g[W] \in Int
  BY <1>1, <1>2, SummingAgree, SummingTyped
<1>5. f[k] \in Int /\ e[k] \in Int
  BY DEF Whole
<1>. HIDE DEF W
<1>. QED
  BY <1>1, <1>2, <1>3, <1>4, <1>5

(* A sum in two parts.                                                        *)
LEMMA SumParts ==
  ASSUME NEW f, NEW d, NEW e, DOMAIN d = DOMAIN f, DOMAIN e = DOMAIN f, IsFiniteSet(DOMAIN f),
         Whole(d, DOMAIN f), Whole(e, DOMAIN f), \A x \in DOMAIN f : f[x] = d[x] + e[x]
  PROVE  SumFunction(f) = SumFunction(d) + SumFunction(e)
<1>1. PICK g : Summing(f, DOMAIN f, g) /\ SumFunction(f) = g[DOMAIN f]
  BY SumSums DEF SumFunction
<1>2. PICK h : Summing(d, DOMAIN f, h) /\ SumFunction(d) = h[DOMAIN f]
  BY SumSums DEF SumFunction
<1>3. PICK k : Summing(e, DOMAIN f, k) /\ SumFunction(e) = k[DOMAIN f]
  BY SumSums DEF SumFunction
<1>. QED
  BY <1>1, <1>2, <1>3, SummingParts

(* Sums of less are less; a multiple of every summand multiplies the sum.     *)
LEMMA SumBelow ==
  ASSUME NEW f, NEW e, DOMAIN e = DOMAIN f, IsFiniteSet(DOMAIN f),
         Whole(f, DOMAIN f), Whole(e, DOMAIN f), \A x \in DOMAIN f : f[x] <= e[x]
  PROVE  SumFunction(f) <= SumFunction(e)
<1>1. PICK g : Summing(f, DOMAIN f, g) /\ SumFunction(f) = g[DOMAIN f]
  BY SumSums DEF SumFunction
<1>2. PICK h : Summing(e, DOMAIN f, h) /\ SumFunction(e) = h[DOMAIN f]
  BY SumSums DEF SumFunction
<1>. QED
  BY <1>1, <1>2, SummingBelow

LEMMA SumTimes ==
  ASSUME NEW f, NEW e, NEW k \in Int, DOMAIN e = DOMAIN f, IsFiniteSet(DOMAIN f),
         Whole(f, DOMAIN f), \A x \in DOMAIN f : e[x] = k * f[x]
  PROVE  SumFunction(e) = k * SumFunction(f)
<1>. DEFINE S == DOMAIN f
<1>1. PICK g : Summing(f, S, g) /\ SumFunction(f) = g[S]
  BY SumSums DEF SumFunction
<1>2. PICK h : Summing(e, S, h) /\ SumFunction(e) = h[S]
  BY SumSums DEF SumFunction
<1>. HIDE DEF S
<1>3. IsFiniteSet(S) /\ Whole(f, S) /\ \A x \in S : e[x] = k * f[x]
  BY DEF S
<1>. DEFINE B == {U \in SUBSET S : h[U] # k * g[U]}
<1>. SUFFICES ASSUME S \in B PROVE FALSE
  BY <1>1, <1>2
<1>. HIDE DEF B
<1>4. PICK U \in B : \A X \in B : X \subseteq U => X = U
  <2>1. B \subseteq SUBSET S
    BY DEF B
  <2>. QED
    BY <1>3, <2>1, SmallestSet
<1>5. U \in SUBSET S /\ h[U] # k * g[U]
  BY <1>4 DEF B
<1>6. U # {}
  <2>. SUFFICES ASSUME U = {} PROVE h[U] = k * g[U]
    BY <1>5
  <2>1. g[U] = 0 /\ h[U] = 0
    BY <1>1, <1>2, SummingAt
  <2>. QED
    BY <2>1
<1>. DEFINE x == Chosen(U)
            W == U \ {x}
<1>7. x \in U /\ W \notin B /\ W \in SUBSET S
  BY <1>4, <1>5, <1>6, ChosenIn
<1>8. g[U] = f[x] + g[W] /\ h[U] = e[x] + h[W]
  <2>1. \A s \in SUBSET S : s # {} => g[s] = f[Chosen(s)] + g[s \ {Chosen(s)}]
    <3>1. Summing(f, S, g)
      BY <1>1
    <3>. QED
      BY <3>1, SummingAt
  <2>2. \A s \in SUBSET S : s # {} => h[s] = e[Chosen(s)] + h[s \ {Chosen(s)}]
    <3>1. Summing(e, S, h)
      BY <1>2
    <3>. QED
      BY ONLY <3>1 DEF Summing
  <2>. QED
    BY <1>5, <1>6, <2>1, <2>2
<1>9. h[W] = k * g[W]
  BY <1>7 DEF B
<1>10. f[x] \in Int /\ e[x] = k * f[x]
  BY <1>3, <1>5, <1>7 DEF Whole
<1>11. g[W] \in Int
  BY <1>1, <1>3, <1>7, SummingTyped
<1>. HIDE DEF x, W
<1>12. k * (f[x] + g[W]) = k * f[x] + k * g[W]
  BY <1>10, <1>11
<1>. QED
  BY <1>5, <1>8, <1>9, <1>10, <1>12

(* Of what is not below zero, more makes no less.                             *)
LEMMA SummingMore ==
  ASSUME NEW f, NEW S, NEW g, IsFiniteSet(S), Summing(f, S, g), Whole(f, S),
         \A x \in S : 0 <= f[x],
         NEW W, W \subseteq S, NEW V, V \subseteq W
  PROVE  g[V] <= g[W]
<1>. DEFINE B == {U \in SUBSET S : V \subseteq U /\ ~(g[V] <= g[U])}
<1>. SUFFICES ASSUME W \in B PROVE FALSE
  OBVIOUS
<1>. HIDE DEF B
<1>1. PICK U \in B : \A X \in B : X \subseteq U => X = U
  <2>1. B \subseteq SUBSET S
    BY DEF B
  <2>. QED
    BY <2>1, SmallestSet
<1>2. U \in SUBSET S /\ V \subseteq U /\ ~(g[V] <= g[U])
  BY <1>1 DEF B
<1>3. g[V] \in Int /\ g[U] \in Int
  BY <1>2, SummingTyped
<1>4. PICK k \in U : k \notin V
  BY <1>2, <1>3
<1>. DEFINE R == U \ {k}
<1>5. R \in SUBSET S /\ V \subseteq R /\ R \notin B
  BY <1>1, <1>2, <1>4
<1>6. g[V] <= g[R] /\ g[R] \in Int
  BY <1>5, SummingTyped DEF B
<1>7. g[U] = f[k] + g[R]
  BY <1>2, <1>4, SummingTakes
<1>8. 0 <= f[k] /\ f[k] \in Int
  BY <1>2, <1>4 DEF Whole
<1>. HIDE DEF R
<1>. QED
  BY <1>2, <1>3, <1>6, <1>7, <1>8

(* What is counted once for each name adds up to no more than what is counted *)
(* for each of a list that has every name that counts.                        *)
LEMMA SumCovers ==
  ASSUME NEW f, NEW e, NEW c, IsFiniteSet(DOMAIN f), IsFiniteSet(DOMAIN e),
         Whole(f, DOMAIN f), Whole(e, DOMAIN e),
         \A i \in DOMAIN e : 0 <= e[i] /\ e[i] = f[c[i]],
         \A s \in DOMAIN f : f[s] > 0 => \E i \in DOMAIN e : c[i] = s,
         \A s \in DOMAIN f : 0 <= f[s]
  PROVE  SumFunction(f) <= SumFunction(e)
<1>. DEFINE S == DOMAIN f
            D == DOMAIN e
            Of(U) == {i \in D : c[i] \in U}
<1>1. PICK g : Summing(f, S, g) /\ SumFunction(f) = g[S]
  BY SumSums DEF SumFunction
<1>2. PICK h : Summing(e, D, h) /\ SumFunction(e) = h[D]
  BY SumSums DEF SumFunction
<1>. DEFINE B == {U \in SUBSET S : ~(g[U] <= h[Of(U)])}
<1>3. S \notin B
  <2>. SUFFICES ASSUME S \in B PROVE FALSE
    OBVIOUS
  <2>. HIDE DEF B
  <2>1. PICK U \in B : \A X \in B : X \subseteq U => X = U
    <3>1. B \subseteq SUBSET S
      BY DEF B
    <3>. QED
      BY <3>1, SmallestSet
  <2>2. U \in SUBSET S /\ ~(g[U] <= h[Of(U)])
    BY <2>1 DEF B
  <2>3. Of(U) \subseteq D /\ h[{}] = 0 /\ g[{}] = 0
    BY <1>1, <1>2, SummingAt
  <2>4. U # {}
    <3>. SUFFICES ASSUME U = {} PROVE g[U] <= h[Of(U)]
      BY <2>2
    <3>1. Of(U) = {}
      OBVIOUS
    <3>. QED
      BY <2>3, <3>1
  <2>5. PICK k \in U : TRUE
    BY <2>4
  <2>. DEFINE R == U \ {k}
  <2>6. R \in SUBSET S /\ R \notin B /\ k \in S
    BY <2>1, <2>2, <2>5
  <2>7. g[R] <= h[Of(R)]
    BY <2>6 DEF B
  <2>8. g[U] = f[k] + g[R] /\ g[R] \in Int /\ f[k] \in Int /\ 0 <= f[k]
    <3>1. g[U] = f[k] + g[R]
      BY <1>1, <2>2, <2>5, SummingTakes
    <3>2. g[R] \in Int
      BY <1>1, <2>6, SummingTyped
    <3>. QED
      BY <2>6, <3>1, <3>2 DEF Whole
  <2>9. h[Of(U)] \in Int /\ h[Of(R)] \in Int /\ h[Of(R)] <= h[Of(U)]
    <3>1. Of(R) \subseteq Of(U) /\ Of(R) \subseteq D
      OBVIOUS
    <3>. HIDE DEF Of
    <3>. QED
      BY <1>2, <2>3, <3>1, SummingTyped, SummingMore
  <2>10. CASE f[k] = 0
    <3>. HIDE DEF Of, R
    <3>. QED
      BY <2>2, <2>7, <2>8, <2>9, <2>10
  <2>11. CASE f[k] > 0
    <3>1. PICK i \in D : c[i] = k
      BY <2>6, <2>11
    <3>. DEFINE Q == Of(U) \ {i}
    <3>2. i \in Of(U) /\ Of(R) \subseteq Q /\ Q \subseteq D
      BY <2>5, <3>1
    <3>. HIDE DEF Of
    <3>3. h[Of(U)] = e[i] + h[Q]
      BY <1>2, <2>3, <3>2, SummingTakes
    <3>4. h[Of(R)] <= h[Q] /\ h[Q] \in Int
      BY <1>2, <3>2, SummingMore, SummingTyped
    <3>5. e[i] = f[k]
      BY <3>1
    <3>. HIDE DEF R, Q
    <3>. QED
      BY <2>2, <2>7, <2>8, <2>9, <3>3, <3>4, <3>5
  <2>. QED
    BY <2>8, <2>10, <2>11
<1>4. Of(S) \subseteq D
  OBVIOUS
<1>5. g[S] <= h[Of(S)]
  BY <1>3
<1>6. h[Of(S)] <= h[D] /\ h[Of(S)] \in Int /\ h[D] \in Int
  <2>. HIDE DEF Of
  <2>. QED
    BY <1>2, <1>4, SummingMore, SummingTyped
<1>7. g[S] \in Int
  BY <1>1, SummingTyped
<1>. HIDE DEF Of, S, D
<1>. QED
  BY <1>1, <1>2, <1>5, <1>6, <1>7
=============================================================================
