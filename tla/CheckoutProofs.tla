--------------------------- MODULE CheckoutProofs ---------------------------
(***************************************************************************)
(* What TLAPS proves of Checkout, for every set of SKUs, bodies, keys,     *)
(* orders and callers: types, that no SKU is ever oversold, that an        *)
(* idempotency key stands for one order, that the stock that is there and  *)
(* what open orders hold always make up what the shop began with, and that *)
(* checkouts which name the SKUs in one order never deadlock.              *)
(*                                                                         *)
(* Conservation needs what the folds of the model compute. The induction   *)
(* theorems of the library take an operator, which no prover instantiates; *)
(* the first section does induction over a finite set with sets instead:   *)
(* of the sets that fail a claim, one has no smaller one.                  *)
(***************************************************************************)
EXTENDS Checkout, FiniteSetTheorems, TLAPS

-----------------------------------------------------------------------------
(* Induction, folds and sums over finite sets *)

\* Of the sets that satisfy a condition, finite subsets of one set, one has no
\* smaller one: induction over finite sets, without an operator parameter.
LEMMA SmallestSet ==
  ASSUME NEW S, IsFiniteSet(S), NEW T \in SUBSET SUBSET S, T # {}
  PROVE  \E X \in T : \A Y \in T : Y \subseteq X => Y = X
<1>1. FiniteSubsetsOf(S) = SUBSET S
  BY FS_FiniteSubsetsOfFinite
<1>2. IsWellFoundedOn(StrictSubsetOrdering(S), SUBSET S)
  BY <1>1, FS_StrictSubsetOrderingWellFounded
<1>3. PICK X \in T : \A Y \in T : ~ (<<Y, X>> \in StrictSubsetOrdering(S))
  BY <1>2, WFMin
<1>4. ASSUME NEW Y \in T, Y \subseteq X, Y # X PROVE FALSE
  BY <1>3, <1>4 DEF StrictSubsetOrdering
<1>5. QED
  BY <1>4

\* A choice of an element of each subset, and the function that takes the
\* elements of a subset one by one, in the order of that choice.
IsPick(pick, S) == \A X \in (SUBSET S) \ {{}} : pick[X] \in X

IsFold(g, S, pick, V, base, step) ==
  /\ g \in [SUBSET S -> V]
  /\ \A X \in SUBSET S :
       g[X] = IF X = {} THEN base ELSE step[<<pick[X], g[X \ {pick[X]}]>>]

\* Induction over the subsets of a finite set, taking away one element at a time.
LEMMA SubsetInduction ==
  ASSUME NEW S, IsFiniteSet(S), NEW pick, IsPick(pick, S),
         NEW T, {} \in T, \A X \in (SUBSET S) \ {{}} : X \ {pick[X]} \in T => X \in T
  PROVE  \A X \in SUBSET S : X \in T
<1> DEFINE Out == (SUBSET S) \ T
<1> SUFFICES ASSUME Out # {} PROVE FALSE
  OBVIOUS
<1>1. PICK X \in Out : \A Y \in Out : Y \subseteq X => Y = X
  <2>1. Out \in SUBSET SUBSET S
    OBVIOUS
  <2> HIDE DEF Out
  <2>2. QED
    BY <2>1, SmallestSet
<1>2. X \in (SUBSET S) \ {{}} /\ pick[X] \in X
  BY DEF IsPick
<1>3. X \ {pick[X]} \in SUBSET S /\ X \ {pick[X]} \subseteq X /\ X \ {pick[X]} # X
  BY <1>2
<1>4. X \ {pick[X]} \in T
  BY <1>1, <1>3
<1>5. QED
  BY <1>1, <1>2, <1>4

\* What a recursive definition over the subsets of a finite set computes: the
\* function it names exists.
LEMMA FoldExists ==
  ASSUME NEW S, IsFiniteSet(S), NEW pick, IsPick(pick, S),
         NEW V, NEW base \in V, NEW step \in [S \X V -> V]
  PROVE  \E g : IsFold(g, S, pick, V, base, step)
<1> \A X \in (SUBSET S) \ {{}} : pick[X] \in X
  BY DEF IsPick
<1> DEFINE Rec(g, X) == g[X] = IF X = {} THEN base ELSE step[<<pick[X], g[X \ {pick[X]}]>>]
           Fold(g, X) == \A Y \in SUBSET X : g[Y] \in V /\ Rec(g, Y)
<1>1. ASSUME NEW g, NEW h, NEW A \in SUBSET S, NEW B \in SUBSET S, Fold(g, A), Fold(h, B),
             NEW C, C \subseteq A, C \subseteq B
      PROVE  g[C] = h[C]
  <2> DEFINE T == {X \in SUBSET C : g[X] # h[X]}
  <2>1. CASE T = {}
    BY <2>1
  <2>2. CASE T # {}
    <3>1. T \in SUBSET SUBSET S /\ T # {}
      BY <1>1, <2>2
    <3>2. PICK X \in T : \A Y \in T : Y \subseteq X => Y = X
      <4> HIDE DEF T
      <4>1. QED
        BY <3>1, SmallestSet
    <3>3. X \subseteq A /\ X \subseteq B /\ g[X] # h[X] /\ X \in SUBSET S
      BY <1>1
    <3>4. Rec(g, X) /\ Rec(h, X)
      BY <1>1, <3>3
    <3>5. X # {}
      BY <3>3, <3>4
    <3>6. pick[X] \in X /\ X \ {pick[X]} \in SUBSET C /\ X \ {pick[X]} # X
      BY <3>3, <3>5
    <3>7. g[X \ {pick[X]}] = h[X \ {pick[X]}]
      BY <3>2, <3>6
    <3>8. QED
      BY <3>3, <3>4, <3>5, <3>7
  <2>3. QED
    BY <2>1, <2>2
<1>2. ASSUME NEW A \in SUBSET S, \A B \in SUBSET A : B # A => \E g : Fold(g, B)
      PROVE  \E g \in [SUBSET A -> V] : Fold(g, A)
  <2>1. CASE A = {}
    <3> DEFINE g == [X \in SUBSET A |-> base]
    <3>1. Fold(g, A)
      BY <2>1
    <3>2. g \in [SUBSET A -> V]
      OBVIOUS
    <3>3. QED
      BY <3>1, <3>2
  <2>2. CASE A # {}
    <3> DEFINE sub(B) == CHOOSE g : Fold(g, B)
               top == step[<<pick[A], sub(A \ {pick[A]})[A \ {pick[A]}]>>]
               g == [X \in SUBSET A |-> IF X = A THEN top ELSE sub(X)[X]]
    <3>1. ASSUME NEW B \in SUBSET A, B # A PROVE Fold(sub(B), B)
      <4> HIDE DEF Fold
      <4>1. QED
        BY <1>2, <3>1
    <3> HIDE DEF sub
    <3>2. pick[A] \in A /\ A \ {pick[A]} \in SUBSET A /\ A \ {pick[A]} # A
      BY <2>2
    <3>3. top \in V
      <4>1. sub(A \ {pick[A]})[A \ {pick[A]}] \in V
        BY <3>1, <3>2
      <4>2. QED
        BY <3>2, <4>1
    <3>4. ASSUME NEW X \in SUBSET A PROVE g[X] \in V /\ Rec(g, X)
      <4>1. CASE X = A
        <5>1. g[X] = top /\ g[A \ {pick[A]}] = sub(A \ {pick[A]})[A \ {pick[A]}]
          BY <3>2, <4>1
        <5>2. QED
          BY <2>2, <3>3, <4>1, <5>1
      <4>2. CASE X # A
        <5>1. Fold(sub(X), X) /\ g[X] = sub(X)[X]
          BY <3>1, <4>2
        <5>2. Rec(sub(X), X) /\ sub(X)[X] \in V
          BY <5>1
        <5>3. CASE X = {}
          BY <5>1, <5>2, <5>3
        <5>4. CASE X # {}
          <6> DEFINE Z == X \ {pick[X]}
          <6>1. pick[X] \in X /\ Z \in SUBSET A /\ Z # A /\ Z \subseteq X
            BY <5>4
          <6>2. Fold(sub(Z), Z) /\ g[Z] = sub(Z)[Z]
            BY <3>1, <6>1
          <6>3. sub(Z)[Z] = sub(X)[Z]
            <7> HIDE DEF Fold, Z
            <7>1. X \in SUBSET S /\ Z \in SUBSET S /\ Z \subseteq Z
              BY <6>1
            <7>2. QED
              BY <1>1, <5>1, <6>1, <6>2, <7>1
          <6>4. QED
            BY <5>1, <5>2, <5>4, <6>2, <6>3
        <5>5. QED
          BY <5>3, <5>4
      <4>3. QED
        BY <4>1, <4>2
    <3>5. g \in [SUBSET A -> V]
      BY <3>4
    <3>6. Fold(g, A)
      BY <3>4
    <3> HIDE DEF g, Fold
    <3>7. QED
      BY <3>5, <3>6
  <2>3. QED
    BY <2>1, <2>2
<1>3. \A A \in SUBSET S : \E g : Fold(g, A)
  <2> HIDE DEF Fold
  <2> DEFINE T == {A \in SUBSET S : ~ \E g : Fold(g, A)}
  <2>1. SUFFICES ASSUME T # {} PROVE FALSE
    OBVIOUS
  <2>2. PICK A \in T : \A B \in T : B \subseteq A => B = A
    <3>1. T \in SUBSET SUBSET S
      OBVIOUS
    <3> HIDE DEF T
    <3>2. QED
      BY <2>1, <3>1, SmallestSet
  <2>3. \A B \in SUBSET A : B # A => \E g : Fold(g, B)
    BY <2>2
  <2>4. \E g \in [SUBSET A -> V] : Fold(g, A)
    BY <1>2, <2>2, <2>3
  <2>5. QED
    BY <2>2, <2>4
<1>4. PICK g \in [SUBSET S -> V] : Fold(g, S)
  <2> HIDE DEF Fold
  <2>1. QED
    BY <1>2, <1>3
<1>5. IsFold(g, S, pick, V, base, step)
  BY <1>4 DEF IsFold
<1>6. QED
  BY <1>5

Chosen(S) == [X \in SUBSET S |-> CHOOSE x \in X : TRUE]

LEMMA ChosenPicks == \A S : IsPick(Chosen(S), S)
BY DEF IsPick, Chosen

\* What a sum over a finite set is: nothing for the empty set, and the sum of
\* the rest with one element more.
IsSum(g, f, S) ==
  /\ g \in [SUBSET S -> Int]
  /\ \A X \in SUBSET S :
       g[X] = IF X = {} THEN 0 ELSE f[Chosen(S)[X]] + g[X \ {Chosen(S)[X]}]

LEMMA SumIs ==
  ASSUME NEW S, IsFiniteSet(S), NEW f \in [S -> Int]
  PROVE  \E g : IsSum(g, f, S) /\ SumFunction(f) = g[S]
<1> DEFINE Def(g) == [s \in SUBSET S |-> IF s = {} THEN 0
                        ELSE LET x == CHOOSE x \in s : TRUE IN f[x] + g[s \ {x}]]
           it == CHOOSE g : g = Def(g)
           step == [p \in S \X Int |-> f[p[1]] + p[2]]
           pick == Chosen(S)
<1>1. SumFunction(f) = it[S]
  BY DEF SumFunction, SumFunctionOnSet, FoldFunctionOnSet, MapThenFoldSet
<1>2. IsPick(pick, S)
  BY ChosenPicks
<1>3. PICK g : IsFold(g, S, pick, Int, 0, step)
  <2>1. step \in [S \X Int -> Int] /\ 0 \in Int
    OBVIOUS
  <2> HIDE DEF pick, step
  <2>2. QED
    BY <1>2, <2>1, FoldExists
<1>4. IsSum(g, f, S)
  <2>1. ASSUME NEW X \in SUBSET S, X # {}
        PROVE  g[X] = f[pick[X]] + g[X \ {pick[X]}]
    <3>1. pick[X] \in X /\ pick[X] \in S
      BY <1>2, <2>1 DEF IsPick
    <3>2. g[X \ {pick[X]}] \in Int
      BY <1>3, <3>1 DEF IsFold
    <3>3. step[<<pick[X], g[X \ {pick[X]}]>>] = f[pick[X]] + g[X \ {pick[X]}]
      BY <3>1, <3>2
    <3> HIDE DEF step, pick
    <3>4. QED
      BY <1>3, <2>1, <3>1, <3>3 DEF IsFold
  <2>2. QED
    BY <1>3, <2>1 DEF IsFold, IsSum
<1>5. \E h : h = Def(h)
  <2>1. \A X \in SUBSET S : pick[X] = CHOOSE x \in X : TRUE
    BY DEF Chosen
  <2>2. g = Def(g)
    BY <1>4, <2>1 DEF IsSum
  <2>3. QED
    BY <2>2
<1>6. it = Def(it)
  BY <1>5
<1>7. \A X \in SUBSET S : it[X] = g[X]
  <2> DEFINE T == {X \in SUBSET S : it[X] = g[X]}
  <2>1. {} \in T
    <3>1. it[{}] = 0
      BY <1>6
    <3>2. g[{}] = 0
      BY <1>4 DEF IsSum
    <3>3. QED
      BY <3>1, <3>2
  <2>2. ASSUME NEW X \in (SUBSET S) \ {{}}, X \ {pick[X]} \in T PROVE X \in T
    <3>1. pick[X] = CHOOSE x \in X : TRUE
      BY DEF Chosen
    <3>2. it[X] = f[pick[X]] + it[X \ {pick[X]}]
      BY <1>6, <3>1
    <3>3. g[X] = f[pick[X]] + g[X \ {pick[X]}]
      BY <1>4, <3>1 DEF IsSum
    <3>4. QED
      BY <2>2, <3>2, <3>3
  <2> HIDE DEF T, pick
  <2>3. \A X \in SUBSET S : X \in T
    BY <1>2, <2>1, <2>2, SubsetInduction
  <2>4. QED
    BY <2>3 DEF T
<1>8. QED
  BY <1>1, <1>4, <1>7

\* A sum changes by what one summand changes.
LEMMA SumChanges ==
  ASSUME NEW S, IsFiniteSet(S), NEW f \in [S -> Int], NEW h \in [S -> Int], NEW x \in S,
         \A y \in S \ {x} : h[y] = f[y]
  PROVE  SumFunction(f) \in Int /\ SumFunction(h) = SumFunction(f) + (h[x] - f[x])
<1> DEFINE pick == Chosen(S)
<1>1. PICK sf : IsSum(sf, f, S) /\ SumFunction(f) = sf[S]
  BY SumIs
<1>2. PICK sh : IsSum(sh, h, S) /\ SumFunction(h) = sh[S]
  BY SumIs
<1>3. IsPick(pick, S)
  BY ChosenPicks
<1> DEFINE T == {X \in SUBSET S : sh[X] = sf[X] + (IF x \in X THEN h[x] - f[x] ELSE 0)}
<1>4. {} \in T
  BY <1>1, <1>2 DEF IsSum
<1>5. ASSUME NEW X \in (SUBSET S) \ {{}}, X \ {pick[X]} \in T PROVE X \in T
  <2> DEFINE p == pick[X]  R == X \ {p}
  <2>1. p \in X /\ p \in S /\ R \in SUBSET S
    BY <1>3 DEF IsPick
  <2>2. sf[X] = f[p] + sf[R] /\ sh[X] = h[p] + sh[R] /\ sf[R] \in Int /\ sh[R] \in Int
    BY <1>1, <1>2, <2>1 DEF IsSum
  <2>3. sh[R] = sf[R] + (IF x \in R THEN h[x] - f[x] ELSE 0)
    BY <1>5
  <2>4. x \in X <=> x \in R \/ x = p
    BY <2>1
  <2>5. f[p] \in Int /\ h[p] \in Int /\ f[x] \in Int /\ h[x] \in Int
    BY <2>1
  <2>6. CASE p = x
    <3>1. x \notin R /\ x \in X
      BY <2>1, <2>6
    <3>2. sh[X] = sf[X] + (h[x] - f[x])
      BY <2>2, <2>3, <2>5, <2>6, <3>1
    <3>3. QED
      BY <3>1, <3>2
  <2>7. CASE p # x
    <3>1. h[p] = f[p] /\ (x \in X <=> x \in R)
      BY <2>1, <2>4, <2>7
    <3>2. sh[X] = sf[X] + (IF x \in R THEN h[x] - f[x] ELSE 0)
      BY <2>2, <2>3, <2>5, <3>1
    <3>3. QED
      BY <3>1, <3>2
  <2>8. QED
    BY <2>6, <2>7
<1>6. \A X \in SUBSET S : X \in T
  <2> HIDE DEF T, pick
  <2>1. QED
    BY <1>3, <1>4, <1>5, SubsetInduction
<1>7. S \in T /\ sf[S] \in Int
  BY <1>1, <1>6 DEF IsSum
<1>8. QED
  BY <1>1, <1>2, <1>7

\* A sum of nothing.
LEMMA SumOfZeros ==
  ASSUME NEW S, IsFiniteSet(S), NEW f \in [S -> {0}]
  PROVE  SumFunction(f) = 0
<1> DEFINE pick == Chosen(S)
<1>1. PICK sf : IsSum(sf, f, S) /\ SumFunction(f) = sf[S]
  <2>1. f \in [S -> Int]
    OBVIOUS
  <2>2. QED
    BY <2>1, SumIs
<1>2. IsPick(pick, S)
  BY ChosenPicks
<1> DEFINE T == {X \in SUBSET S : sf[X] = 0}
<1>3. {} \in T
  BY <1>1 DEF IsSum
<1>4. ASSUME NEW X \in (SUBSET S) \ {{}}, X \ {pick[X]} \in T PROVE X \in T
  BY <1>1, <1>2, <1>4 DEF IsSum, IsPick
<1>5. \A X \in SUBSET S : X \in T
  <2> HIDE DEF T, pick
  <2>1. QED
    BY <1>2, <1>3, <1>4, SubsetInduction
<1>6. QED
  BY <1>1, <1>5

Numbers(S) == S \subseteq Int

\* A finite set of numbers that is not empty has a largest one.
LEMMA MaxIs ==
  ASSUME NEW S, Numbers(S), IsFiniteSet(S), S # {}
  PROVE  Max(S) \in S /\ \A y \in S : Max(S) >= y
<1> DEFINE pick == Chosen(S)
           T == {X \in SUBSET S : X # {} => \E x \in X : \A y \in X : x >= y}
<1>1. IsPick(pick, S)
  BY ChosenPicks
<1>2. {} \in T
  OBVIOUS
<1>3. ASSUME NEW X \in (SUBSET S) \ {{}}, X \ {pick[X]} \in T PROVE X \in T
  <2>1. PICK p \in X : p = pick[X]
    <3> HIDE DEF pick
    <3>1. QED
      BY <1>1 DEF IsPick
  <2>2. CASE X \ {p} = {}
    <3>1. p \in Int /\ \A y \in X : y = p
      BY <2>2 DEF Numbers
    <3>2. p >= p
      BY <3>1
    <3>3. QED
      BY <3>1, <3>2
  <2>3. CASE X \ {p} # {}
    <3>1. PICK m \in X \ {p} : \A y \in X \ {p} : m >= y
      BY <1>3, <2>1, <2>3
    <3>2. m \in Int /\ p \in Int /\ X \subseteq Int
      BY DEF Numbers
    <3>3. CASE m >= p
      <4>1. \A y \in X : m >= y
        BY <3>1, <3>3
      <4>2. QED
        BY <4>1
    <3>4. CASE p >= m
      <4>1. \A y \in X : p >= y
        BY <3>1, <3>2, <3>4
      <4>2. QED
        BY <4>1
    <3>5. QED
      BY <3>2, <3>3, <3>4
  <2>4. QED
    BY <2>2, <2>3
<1>4. \A X \in SUBSET S : X \in T
  <2> HIDE DEF T, pick
  <2>1. QED
    BY <1>1, <1>2, <1>3, SubsetInduction
<1>5. \E x \in S : \A y \in S : x >= y
  BY <1>4
<1>6. QED
  BY <1>5 DEF Max

-----------------------------------------------------------------------------
(* What the folds over the items of a body return *)

LargestOf(n) == [X \in SUBSET (1..n) |-> Max(X)]

LEMMA LargestPicks == \A n \in Nat : IsFiniteSet(1..n) /\ IsPick(LargestOf(n), 1..n)
<1>1. ASSUME NEW n \in Nat PROVE IsFiniteSet(1..n) /\ IsPick(LargestOf(n), 1..n)
  <2>1. IsFiniteSet(1..n)
    BY FS_Interval
  <2>2. ASSUME NEW X \in (SUBSET (1..n)) \ {{}} PROVE LargestOf(n)[X] \in X
    <3>1. X \in SUBSET (1..n) /\ X # {} /\ Numbers(X)
      BY DEF Numbers
    <3>2. IsFiniteSet(X)
      BY <2>1, <3>1, FS_Subset
    <3>3. Max(X) \in X
      BY <3>1, <3>2, MaxIs
    <3>4. QED
      BY <3>1, <3>3 DEF LargestOf
  <2>3. QED
    BY <2>1, <2>2 DEF IsPick
<1>2. QED
  BY <1>1

\* The items of a body, by position.
LEMMA ItemsOf ==
  ASSUME NEW b \in Bodies
  PROVE  \E n \in Nat : b.items \in [1..n -> [sku : Skus, quantity : Nat \ {0}]]
<1> DEFINE Item == [sku : Skus, quantity : Nat \ {0}]
           items == b.items
<1>1. items \in Seq(Item)
  BY CheckoutAssumption
<1> HIDE DEF Item, items
<1>2. Len(items) \in Nat /\ items \in [1..Len(items) -> Item]
  BY <1>1
<1>3. QED
  BY <1>2 DEF Item, items

IsSkuFold(g, items, n) ==
  /\ g \in [SUBSET (1..n) -> Seq(Skus)]
  /\ \A X \in SUBSET (1..n) :
       g[X] = IF X = {} THEN <<>>
              ELSE LET rest == g[X \ {LargestOf(n)[X]}]
                       sku == items[LargestOf(n)[X]].sku
                   IN  IF Contains(rest, sku) THEN rest ELSE Append(rest, sku)

LEMMA SkuFold ==
  ASSUME NEW b \in Bodies, NEW n \in Nat,
         b.items \in [1..n -> [sku : Skus, quantity : Nat \ {0}]]
  PROVE  \E g : IsSkuFold(g, b.items, n) /\ SkusOf[b] = g[1..n]
<1> DEFINE items == b.items
           S == 1..n
           Def(g) == [s \in SUBSET S |->
                        IF s = {} THEN <<>>
                        ELSE LET x == Max(s)
                             IN IF Contains(g[s \ {x}], items[x].sku) THEN g[s \ {x}]
                                ELSE Append(g[s \ {x}], items[x].sku)]
           it == CHOOSE g : g = Def(g)
           V == Seq(Skus)
           base == <<>>
           step == [p \in S \X V |-> IF Contains(p[2], items[p[1]].sku) THEN p[2]
                                     ELSE Append(p[2], items[p[1]].sku)]
           pick == LargestOf(n)
<1>1. SkusOf[b] = it[S]
  <2>1. DOMAIN b.items = S
    OBVIOUS
  <2>2. SkusOf[b] = FoldLeft(LAMBDA seen, item : IF Contains(seen, item.sku) THEN seen
                                  ELSE Append(seen, item.sku), <<>>, b.items)
    BY DEF SkusOf
  <2>3. QED
    BY <2>1, <2>2 DEF FoldLeft, MapThenFoldSet
<1>2. IsPick(pick, S) /\ IsFiniteSet(S)
  BY LargestPicks
<1>3. PICK g : IsFold(g, S, pick, V, base, step)
  <2>1. step \in [S \X V -> V]
    <3>1. ASSUME NEW x \in S, NEW seen \in V PROVE step[<<x, seen>>] \in V
      <4>1. items[x].sku \in Skus
        OBVIOUS
      <4>2. Append(seen, items[x].sku) \in V
        BY <4>1
      <4>3. QED
        BY <4>2
    <3>2. QED
      BY <3>1
  <2>2. base \in V
    OBVIOUS
  <2> HIDE DEF pick, step, V, base
  <2>3. QED
    BY <1>2, <2>1, <2>2, FoldExists
<1>4. IsSkuFold(g, items, n)
  <2>1. ASSUME NEW X \in SUBSET S, X # {}
        PROVE  g[X] = LET rest == g[X \ {pick[X]}]
                          sku == items[pick[X]].sku
                      IN  IF Contains(rest, sku) THEN rest ELSE Append(rest, sku)
    <3>1. pick[X] \in X /\ pick[X] \in S
      BY <1>2, <2>1 DEF IsPick
    <3>2. g[X \ {pick[X]}] \in V
      BY <1>3, <3>1 DEF IsFold
    <3>3. g[X] = step[<<pick[X], g[X \ {pick[X]}]>>]
      <4> HIDE DEF step, pick
      <4>1. QED
        BY <1>3, <2>1 DEF IsFold
    <3>4. QED
      BY <3>1, <3>2, <3>3
  <2>2. g \in [SUBSET S -> Seq(Skus)] /\ g[{}] = <<>>
    BY <1>3 DEF IsFold
  <2>3. QED
    BY <2>1, <2>2 DEF IsSkuFold
<1>5. \E h : h = Def(h)
  <2>1. \A X \in SUBSET S : pick[X] = Max(X)
    BY DEF LargestOf
  <2>2. g = Def(g)
    BY <1>4, <2>1 DEF IsSkuFold
  <2>3. QED
    BY <2>2
<1>6. it = Def(it)
  BY <1>5
<1>7. \A X \in SUBSET S : it[X] = g[X]
  <2> DEFINE T == {X \in SUBSET S : it[X] = g[X]}
  <2>1. {} \in T
    <3>1. it[{}] = <<>>
      BY <1>6
    <3>2. g[{}] = <<>>
      BY <1>4 DEF IsSkuFold
    <3>3. QED
      BY <3>1, <3>2
  <2>2. ASSUME NEW X \in (SUBSET S) \ {{}}, X \ {pick[X]} \in T PROVE X \in T
    <3>1. pick[X] = Max(X)
      BY DEF LargestOf
    <3>2. it[X] = LET rest == it[X \ {pick[X]}]
                      sku == items[pick[X]].sku
                  IN  IF Contains(rest, sku) THEN rest ELSE Append(rest, sku)
      BY <1>6, <3>1
    <3>3. g[X] = LET rest == g[X \ {pick[X]}]
                     sku == items[pick[X]].sku
                 IN  IF Contains(rest, sku) THEN rest ELSE Append(rest, sku)
      BY <1>4 DEF IsSkuFold
    <3>4. QED
      BY <2>2, <3>2, <3>3
  <2> HIDE DEF T, pick, S
  <2>3. \A X \in SUBSET S : X \in T
    BY <1>2, <2>1, <2>2, SubsetInduction
  <2>4. QED
    BY <2>3 DEF T
<1>8. QED
  BY <1>1, <1>4, <1>7

IsQuantityFold(g, items, n, s) ==
  /\ g \in [SUBSET (1..n) -> Nat]
  /\ \A X \in SUBSET (1..n) :
       g[X] = IF X = {} THEN 0
              ELSE LET rest == g[X \ {LargestOf(n)[X]}]
                       item == items[LargestOf(n)[X]]
                   IN  IF item.sku = s THEN rest + item.quantity ELSE rest

LEMMA QuantityFold ==
  ASSUME NEW b \in Bodies, NEW s \in Skus, NEW n \in Nat,
         b.items \in [1..n -> [sku : Skus, quantity : Nat \ {0}]]
  PROVE  \E g : IsQuantityFold(g, b.items, n, s) /\ Quantity[b][s] = g[1..n]
<1> DEFINE items == b.items
           S == 1..n
           Def(g) == [X \in SUBSET S |->
                        IF X = {} THEN 0
                        ELSE LET x == Max(X)
                             IN IF items[x].sku = s THEN g[X \ {x}] + items[x].quantity
                                ELSE g[X \ {x}]]
           it == CHOOSE g : g = Def(g)
           step == [p \in S \X Nat |-> IF items[p[1]].sku = s
                                       THEN p[2] + items[p[1]].quantity ELSE p[2]]
           pick == LargestOf(n)
<1>1. Quantity[b][s] = it[S]
  <2>1. DOMAIN b.items = S
    OBVIOUS
  <2>2. Quantity[b][s] = FoldLeft(LAMBDA sum, item : IF item.sku = s
                                    THEN sum + item.quantity ELSE sum, 0, b.items)
    BY DEF Quantity
  <2>3. QED
    BY <2>1, <2>2 DEF FoldLeft, MapThenFoldSet
<1>2. IsPick(pick, S) /\ IsFiniteSet(S)
  BY LargestPicks
<1>3. PICK g : IsFold(g, S, pick, Nat, 0, step)
  <2>1. step \in [S \X Nat -> Nat] /\ 0 \in Nat
    OBVIOUS
  <2> HIDE DEF pick, step, S
  <2>2. QED
    BY <1>2, <2>1, FoldExists
<1>4. IsQuantityFold(g, items, n, s)
  <2>1. ASSUME NEW X \in SUBSET S, X # {}
        PROVE  g[X] = LET rest == g[X \ {pick[X]}]
                          item == items[pick[X]]
                      IN  IF item.sku = s THEN rest + item.quantity ELSE rest
    <3>1. pick[X] \in X /\ pick[X] \in S
      BY <1>2, <2>1 DEF IsPick
    <3>2. g[X \ {pick[X]}] \in Nat
      BY <1>3, <3>1 DEF IsFold
    <3>3. g[X] = step[<<pick[X], g[X \ {pick[X]}]>>]
      <4> HIDE DEF step, pick
      <4>1. QED
        BY <1>3, <2>1 DEF IsFold
    <3>4. QED
      BY <3>1, <3>2, <3>3
  <2>2. g \in [SUBSET S -> Nat] /\ g[{}] = 0
    BY <1>3 DEF IsFold
  <2>3. QED
    BY <2>1, <2>2 DEF IsQuantityFold
<1>5. \E h : h = Def(h)
  <2>1. \A X \in SUBSET S : pick[X] = Max(X)
    BY DEF LargestOf
  <2>2. g = Def(g)
    BY <1>4, <2>1 DEF IsQuantityFold
  <2>3. QED
    BY <2>2
<1>6. it = Def(it)
  BY <1>5
<1>7. \A X \in SUBSET S : it[X] = g[X]
  <2> DEFINE T == {X \in SUBSET S : it[X] = g[X]}
  <2>1. {} \in T
    <3>1. it[{}] = 0
      BY <1>6
    <3>2. g[{}] = 0
      BY <1>4 DEF IsQuantityFold
    <3>3. QED
      BY <3>1, <3>2
  <2>2. ASSUME NEW X \in (SUBSET S) \ {{}}, X \ {pick[X]} \in T PROVE X \in T
    <3>1. pick[X] = Max(X)
      BY DEF LargestOf
    <3>2. it[X] = IF items[pick[X]].sku = s
                  THEN it[X \ {pick[X]}] + items[pick[X]].quantity ELSE it[X \ {pick[X]}]
      <4> HIDE DEF it, items, pick, S
      <4>1. it[X] = Def(it)[X]
        BY <1>6
      <4>2. QED
        BY <3>1, <4>1
    <3>3. g[X] = IF items[pick[X]].sku = s
                 THEN g[X \ {pick[X]}] + items[pick[X]].quantity ELSE g[X \ {pick[X]}]
      BY <1>4 DEF IsQuantityFold
    <3>4. QED
      BY <2>2, <3>2, <3>3
  <2> HIDE DEF T, pick, S
  <2>3. \A X \in SUBSET S : X \in T
    BY <1>2, <2>1, <2>2, SubsetInduction
  <2>4. QED
    BY <2>3 DEF T
<1>8. QED
  BY <1>1, <1>4, <1>7

\* The SKUs of a body are a sequence, what it asks of each is a number, and it
\* asks nothing of a SKU that is not in that sequence.
LEMMA FoldsReturn ==
  /\ SkusOf \in [Bodies -> Seq(Skus)]
  /\ Quantity \in [Bodies -> [Skus -> Nat]]
  /\ \A b \in Bodies, s \in Skus : Quantity[b][s] # 0 => Contains(SkusOf[b], s)
<1>1. ASSUME NEW b \in Bodies, NEW s \in Skus
      PROVE  /\ SkusOf[b] \in Seq(Skus) /\ Quantity[b][s] \in Nat
             /\ Quantity[b][s] # 0 => Contains(SkusOf[b], s)
  <2>1. PICK n \in Nat : b.items \in [1..n -> [sku : Skus, quantity : Nat \ {0}]]
    BY ItemsOf
  <2>2. PICK f : IsSkuFold(f, b.items, n) /\ SkusOf[b] = f[1..n]
    BY <2>1, SkuFold
  <2>3. PICK g : IsQuantityFold(g, b.items, n, s) /\ Quantity[b][s] = g[1..n]
    BY <2>1, QuantityFold
  <2> DEFINE S == 1..n
             pick == LargestOf(n)
             T == {X \in SUBSET S : g[X] # 0 => Contains(f[X], s)}
  <2>4. IsPick(pick, S) /\ IsFiniteSet(S)
    BY LargestPicks
  <2>5. {} \in T
    BY <2>3 DEF IsQuantityFold
  <2>6. ASSUME NEW X \in (SUBSET S) \ {{}}, X \ {pick[X]} \in T PROVE X \in T
    <3> DEFINE R == X \ {pick[X]}
               item == b.items[pick[X]]
    <3>1. pick[X] \in S /\ R \in SUBSET S
      BY <2>4 DEF IsPick
    <3>2. item \in [sku : Skus, quantity : Nat \ {0}]
      BY <2>1, <3>1
    <3>3. /\ f[R] \in Seq(Skus)
          /\ f[X] = IF Contains(f[R], item.sku) THEN f[R] ELSE Append(f[R], item.sku)
      BY <2>2, <3>1 DEF IsSkuFold
    <3>4. g[X] = IF item.sku = s THEN g[R] + item.quantity ELSE g[R]
      BY <2>3 DEF IsQuantityFold
    <3>5. g[R] # 0 => Contains(f[R], s)
      BY <2>6
    <3> HIDE DEF R, item, pick
    <3>6. \A sku \in Skus : /\ Contains(Append(f[R], sku), sku)
                            /\ Contains(f[R], s) => Contains(Append(f[R], sku), s)
      BY <3>3 DEF Contains
    <3>7. CASE item.sku = s
      <4>1. Contains(f[X], s)
        BY <3>2, <3>3, <3>6, <3>7
      <4>2. QED
        BY <4>1
    <3>8. CASE item.sku # s
      <4>1. g[X] = g[R] /\ item.sku \in Skus
        BY <3>2, <3>4, <3>8
      <4>2. Contains(f[R], s) => Contains(f[X], s)
        BY <3>3, <3>6, <4>1
      <4>3. QED
        BY <3>5, <4>1, <4>2
    <3>9. QED
      BY <3>7, <3>8
  <2>7. \A X \in SUBSET S : X \in T
    <3> HIDE DEF T, pick, S
    <3>1. QED
      BY <2>4, <2>5, <2>6, SubsetInduction
  <2>8. S \in T /\ S \in SUBSET S
    BY <2>7
  <2>9. f[S] \in Seq(Skus) /\ g[S] \in Nat
    BY <2>2, <2>3 DEF IsSkuFold, IsQuantityFold
  <2>10. QED
    BY <2>2, <2>3, <2>8, <2>9
<1>2. SkusOf \in [Bodies -> Seq(Skus)] /\ Quantity \in [Bodies -> [Skus -> Nat]]
  <2>1. \A b \in Bodies : SkusOf[b] \in Seq(Skus)
    <3>1. ASSUME NEW b \in Bodies PROVE SkusOf[b] \in Seq(Skus)
      <4>1. PICK n \in Nat : b.items \in [1..n -> [sku : Skus, quantity : Nat \ {0}]]
        BY ItemsOf
      <4>2. PICK f : IsSkuFold(f, b.items, n) /\ SkusOf[b] = f[1..n]
        BY <4>1, SkuFold
      <4>3. QED
        BY <4>2 DEF IsSkuFold
    <3>2. QED
      BY <3>1
  <2>2. SkusOf = [b \in Bodies |-> SkusOf[b]]
    BY DEF SkusOf
  <2>3. Quantity = [b \in Bodies |-> [s \in Skus |-> Quantity[b][s]]]
    BY DEF Quantity
  <2>4. QED
    BY <1>1, <2>1, <2>2, <2>3
<1>3. QED
  BY <1>1, <1>2

-----------------------------------------------------------------------------
(* Types, rows and transactions *)

USE DEF orderVars, vars

Hash == {BodyHash[b] : b \in Bodies} \cup {NoBody}

RowsHeld == \A s \in Skus : locked[s] # Nobody => InTransaction(locked[s])

\* TypeOK alone is not inductive: a call has the body, the key and the order
\* that its place in the code implies, only transactions hold rows, and no row
\* goes below what is there.
TransactionInv ==
  /\ \A c \in Callers :
       /\ call[c].at \in {"reserve", "restore"} => call[c].body \in Bodies
       /\ call[c].at = "reread" => call[c].key \in Keys
       /\ call[c].at = "restore" =>
            call[c].order \in Orders /\ orderStatus[call[c].order] # "absent"
  /\ \A o \in Orders : orderStatus[o] # "absent" => orderBody[o] \in Bodies
  /\ RowsHeld
  /\ \A s \in Skus : Committed(s) \in Nat

TypeInv == TypeOK /\ TransactionInv

\* What a transaction has done to a row is an integer.
LEMMA DoneInt ==
  ASSUME TypeInv, NEW c \in Callers, NEW s \in Skus
  PROVE  Done(c, s) \in Int /\ (locked[s] # c => Done(c, s) = 0)
<1>1. InTransaction(c) => Quantity[call[c].body][s] \in Nat
  BY FoldsReturn DEF TypeInv, TransactionInv, InTransaction
<1>2. locked[s] = c => InTransaction(c)
  BY CheckoutAssumption DEF TypeInv, TransactionInv, RowsHeld
<1>3. QED
  BY <1>1, <1>2 DEF Done

\* A step of one call that leaves the rows alone leaves what is committed.
LEMMA CommittedKept ==
  ASSUME TypeInv, NEW c \in Callers, ~InTransaction(c),
         UNCHANGED <<stock, locked>>, \A d \in Callers \ {c} : call'[d] = call[d]
  PROVE  /\ \A s \in Skus : Committed(s)' = Committed(s)
         /\ RowsHeld'
<1>1. \A s \in Skus : locked[s] # Nobody =>
        locked[s] \in Callers \ {c} /\ InTransaction(locked[s])
  BY DEF TypeInv, TypeOK, TransactionInv, RowsHeld
<1>2. QED
  BY <1>1 DEF Committed, Done, InTransaction, RowsHeld

\* The end of a transaction without any change to the stock.
LEMMA CommitKeepsRows ==
  ASSUME TypeInv, NEW c \in Callers, Unlock(c), UNCHANGED stock,
         \A d \in Callers \ {c} : call'[d] = call[d]
  PROVE  /\ locked' \in [Skus -> Callers \cup {Nobody}]
         /\ \A s \in Skus :
              /\ Committed(s)' \in Nat
              /\ Committed(s)' = IF locked[s] = c THEN stock[s] ELSE Committed(s)
         /\ RowsHeld'
<1>1. \A s \in Skus : locked'[s] = IF locked[s] = c THEN Nobody ELSE locked[s]
  BY DEF Unlock
<1>2. locked' \in [Skus -> Callers \cup {Nobody}]
  BY DEF TypeInv, TypeOK, Unlock
<1>3. \A s \in Skus : locked'[s] # Nobody =>
        locked'[s] = locked[s] /\ locked[s] \in Callers \ {c} /\ InTransaction(locked[s])
  BY <1>1 DEF TypeInv, TypeOK, TransactionInv, RowsHeld
<1>4. RowsHeld'
  BY <1>3 DEF InTransaction, RowsHeld
<1>5. ASSUME NEW s \in Skus
      PROVE  /\ Committed(s)' \in Nat
             /\ Committed(s)' = IF locked[s] = c THEN stock[s] ELSE Committed(s)
  <2>1. stock[s] \in Nat /\ Committed(s) \in Nat /\ c # Nobody
    BY CheckoutAssumption DEF TypeInv, TypeOK, TransactionInv
  <2>2. CASE locked[s] = c
    <3>1. Committed(s)' = stock[s] - 0
      BY <1>1, <2>2 DEF Committed
    <3>2. QED
      BY <2>1, <2>2, <3>1
  <2>3. CASE locked[s] # c
    <3>1. locked'[s] = locked[s]
      BY <1>1, <2>3
    <3>2. Committed(s)' = Committed(s)
      BY <1>3, <3>1 DEF Committed, Done
    <3>3. QED
      BY <2>1, <2>3, <3>2
  <2>4. QED
    BY <2>2, <2>3
<1>6. QED
  BY <1>2, <1>4, <1>5

\* A rollback leaves what is committed, and the orders there are.
LEMMA RollbackKeeps ==
  ASSUME TypeInv, NEW c \in Callers, Rollback(c),
         \A d \in Callers \ {c} : call'[d] = call[d]
  PROVE  /\ stock' \in [Skus -> Nat]
         /\ locked' \in [Skus -> Callers \cup {Nobody}]
         /\ \A s \in Skus : Committed(s)' \in Nat /\ Committed(s)' = Committed(s)
         /\ RowsHeld'
         /\ orderStatus' \in [Orders -> {"absent", "open", "cancelling", "cancelled"}]
         /\ \A o \in Orders : orderStatus'[o] = "absent" <=> orderStatus[o] = "absent"
<1>1. \A s \in Skus : locked'[s] = IF locked[s] = c THEN Nobody ELSE locked[s]
  BY DEF Rollback, Unlock
<1>2. locked' \in [Skus -> Callers \cup {Nobody}]
  BY DEF TypeInv, TypeOK, Rollback, Unlock
<1>3. \A s \in Skus : locked'[s] # Nobody =>
        locked'[s] = locked[s] /\ locked[s] \in Callers \ {c} /\ InTransaction(locked[s])
  BY <1>1 DEF TypeInv, TypeOK, TransactionInv, RowsHeld
<1>4. RowsHeld'
  BY <1>3 DEF InTransaction, RowsHeld
<1>5. ASSUME NEW s \in Skus
      PROVE  /\ stock'[s] \in Nat
             /\ Committed(s)' \in Nat /\ Committed(s)' = Committed(s)
  <2>1. stock'[s] = stock[s] - Done(c, s) /\ stock[s] \in Nat
    BY DEF Rollback, TypeInv, TypeOK
  <2>2. Committed(s) \in Nat /\ c # Nobody
    BY CheckoutAssumption DEF TypeInv, TransactionInv
  <2>3. CASE locked[s] = c
    <3>1. stock'[s] = Committed(s) /\ locked'[s] = Nobody
      BY <1>1, <2>1, <2>2, <2>3 DEF Committed
    <3>2. Committed(s)' = stock'[s] - 0
      BY <3>1 DEF Committed
    <3>3. QED
      BY <2>2, <3>1, <3>2
  <2>4. CASE locked[s] # c
    <3>1. stock'[s] = stock[s] /\ locked'[s] = locked[s]
      BY <1>1, <2>1, <2>4, DoneInt
    <3>2. Committed(s)' = Committed(s)
      BY <1>3, <3>1 DEF Committed, Done
    <3>3. QED
      BY <2>1, <2>2, <3>1, <3>2
  <2>5. QED
    BY <2>3, <2>4
<1>6. stock' \in [Skus -> Nat]
  BY <1>5 DEF Rollback
<1>7. /\ orderStatus' \in [Orders -> {"absent", "open", "cancelling", "cancelled"}]
      /\ \A o \in Orders : orderStatus'[o] = "absent" <=> orderStatus[o] = "absent"
  BY DEF Rollback, TypeInv, TypeOK, TransactionInv
<1>8. QED
  BY <1>2, <1>4, <1>5, <1>6, <1>7

\* An answer ends the transaction of its call.
LEMMA AnswerTyped ==
  ASSUME TypeOK, NEW c \in Callers, NEW o \in Orders \cup {NoOrder},
         NEW answer \in {"created", "replayed", "mismatch", "cancelled", "error"},
         Answer(c, answer, o)
  PROVE  /\ call' \in [Callers -> Call]
         /\ call'[c].at = "done"
         /\ \A d \in Callers \ {c} : call'[d] = call[d]
<1>1. <<>> \in Seq(Skus)
  OBVIOUS
<1>2. call[c] \in Call
  BY DEF TypeOK
<1>3. [call[c] EXCEPT !.at = "done", !.answer = answer, !.order = o, !.todo = <<>>] \in Call
  BY <1>1, <1>2 DEF Call
<1>4. [call[c] EXCEPT !.at = "done", !.answer = answer, !.order = o, !.todo = <<>>].at = "done"
  BY <1>2 DEF Call
<1>5. QED
  BY <1>3, <1>4 DEF Answer, TypeOK

\* An idle call is well typed.
LEMMA IdleTyped == Idle \in Call /\ Idle.at = "idle"
<1>1. <<>> \in Seq(Skus)
  OBVIOUS
<1>2. QED
  BY <1>1 DEF Idle, Call

\* Going on with the lines of a transaction.
LEMMA TodoTyped ==
  ASSUME TypeOK, NEW c \in Callers, call[c].todo # <<>>,
         call' = [call EXCEPT ![c].todo = Tail(@)]
  PROVE  /\ Head(call[c].todo) \in Skus
         /\ call' \in [Callers -> Call]
         /\ call'[c].at = call[c].at /\ call'[c].body = call[c].body
         /\ call'[c].key = call[c].key /\ call'[c].order = call[c].order
         /\ \A d \in Callers \ {c} : call'[d] = call[d]
<1>1. call[c] \in Call /\ call[c].todo \in Seq(Skus)
  BY DEF TypeOK, Call
<1>2. Head(call[c].todo) \in Skus /\ Tail(call[c].todo) \in Seq(Skus)
  BY <1>1
<1>3. [call[c] EXCEPT !.todo = Tail(@)] \in Call
  BY <1>1, <1>2 DEF Call
<1>4. QED
  BY <1>1, <1>2, <1>3 DEF TypeOK, Call

\* A step of one call that is over, or that keeps what it stands for, leaves
\* the other calls what they stand for.
LEMMA CallsKept ==
  ASSUME TypeInv, NEW c \in Callers, \A d \in Callers \ {c} : call'[d] = call[d],
         \A o \in Orders : orderStatus'[o] = "absent" => orderStatus[o] = "absent",
         \A o \in Orders : orderStatus'[o] # "absent" => orderBody'[o] \in Bodies,
         RowsHeld', \A s \in Skus : Committed(s)' \in Nat,
         \/ call'[c].at \in {"idle", "done"}
         \/ /\ call'[c].at \in {"reserve", "restore"} => call'[c].body \in Bodies
            /\ call'[c].at = "reread" => call'[c].key \in Keys
            /\ call'[c].at = "restore" =>
                 call'[c].order \in Orders /\ orderStatus'[call'[c].order] # "absent"
  PROVE  TransactionInv'
<1>1. ASSUME NEW d \in Callers
      PROVE /\ call'[d].at \in {"reserve", "restore"} => call'[d].body \in Bodies
            /\ call'[d].at = "reread" => call'[d].key \in Keys
            /\ call'[d].at = "restore" =>
                 call'[d].order \in Orders /\ orderStatus'[call'[d].order] # "absent"
  <2>1. CASE d = c
    BY <2>1
  <2>2. CASE d # c
    BY <2>2 DEF TypeInv, TransactionInv
  <2>3. QED
    BY <2>1, <2>2
<1>2. QED
  BY <1>1 DEF TransactionInv

\* A transaction takes the next row and puts n there.
TakesRow(c, s, n) ==
  /\ InTransaction(c) /\ call[c].todo # <<>> /\ s = Head(call[c].todo)
  /\ locked[s] = Nobody
  /\ locked' = [locked EXCEPT ![s] = c]
  /\ stock' = [stock EXCEPT ![s] = n]
  /\ Done(c, s)' = n - stock[s]
  /\ call' = [call EXCEPT ![c].todo = Tail(@)]
  /\ UNCHANGED <<orderVars, keyRow>>

LEMMA RowTaken ==
  ASSUME TypeInv, NEW c \in Callers, NEW s, NEW n \in Nat, TakesRow(c, s, n)
  PROVE  /\ TypeOK' /\ RowsHeld' /\ s \in Skus
         /\ \A r \in Skus : Committed(r)' = Committed(r)
<1> TypeOK /\ TransactionInv
  BY DEF TypeInv
<1> USE DEF TakesRow
<1>1. /\ s \in Skus /\ call' \in [Callers -> Call]
      /\ call'[c].at = call[c].at /\ call'[c].body = call[c].body
      /\ \A d \in Callers \ {c} : call'[d] = call[d]
  BY TodoTyped
<1>2. TypeOK'
  BY <1>1 DEF TypeOK
<1>3. \A d \in Callers : call'[d].at = call[d].at /\ call'[d].body = call[d].body
  BY <1>1
<1>4. RowsHeld'
  BY <1>1, <1>3 DEF RowsHeld, TransactionInv, InTransaction, TypeOK
<1>5. ASSUME NEW r \in Skus PROVE Committed(r)' = Committed(r)
  <2>1. CASE r = s
    <3>1. locked'[r] = c /\ stock'[r] = n /\ c # Nobody
      BY <2>1, CheckoutAssumption DEF TypeOK
    <3>2. Committed(r)' = n - (n - stock[s])
      BY <2>1, <3>1 DEF Committed
    <3>3. stock[s] \in Nat
      BY <1>1 DEF TypeOK
    <3>4. Committed(r) = stock[s] - 0
      BY <2>1 DEF Committed
    <3>5. QED
      BY <3>2, <3>3, <3>4
  <2>2. CASE r # s
    <3>1. locked'[r] = locked[r] /\ stock'[r] = stock[r]
      BY <2>2 DEF TypeOK
    <3>2. locked[r] \in Callers \cup {Nobody}
      BY DEF TypeOK
    <3>3. QED
      BY <1>3, <3>1, <3>2 DEF Committed, Done
  <2>3. QED
    BY <2>1, <2>2
<1>6. QED
  BY <1>1, <1>2, <1>4, <1>5

\* Reserving a line takes its row, or rolls back.
LEMMA ReduceTakesRow ==
  ASSUME TypeInv, NEW c \in Callers, ReduceProductStock(c)
  PROVE  \/ Rollback(c) /\ Answer(c, "error", NoOrder)
         \/ \E s \in Skus, n \in Nat : TakesRow(c, s, n)
<1> TypeOK /\ TransactionInv
  BY DEF TypeInv
<1>1. call[c].at = "reserve" /\ call[c].todo # <<>> /\ InTransaction(c)
  BY DEF ReduceProductStock, InTransaction
<1>2. PICK s \in Skus : s = Head(call[c].todo)
  <2>1. call[c].todo \in Seq(Skus)
    BY DEF TypeOK, Call
  <2>2. QED
    BY <1>1, <2>1
<1>3. PICK q \in Nat : q = Quantity[call[c].body][s]
  BY <1>1, FoldsReturn DEF TransactionInv
<1>4. \/ ~Enough(s, q) /\ Rollback(c) /\ Answer(c, "error", NoOrder)
      \/ /\ locked[s] = Nobody /\ Enough(s, q)
         /\ stock' = [stock EXCEPT ![s] = @ - q]
         /\ locked' = [locked EXCEPT ![s] = c]
         /\ call' = [call EXCEPT ![c].todo = Tail(@)]
         /\ UNCHANGED <<orderVars, keyRow>>
  BY <1>2, <1>3 DEF ReduceProductStock
<1>5. CASE /\ locked[s] = Nobody /\ Enough(s, q)
           /\ stock' = [stock EXCEPT ![s] = @ - q]
           /\ locked' = [locked EXCEPT ![s] = c]
           /\ call' = [call EXCEPT ![c].todo = Tail(@)]
           /\ UNCHANGED <<orderVars, keyRow>>
  <2>1. stock[s] \in Nat
    BY DEF TypeOK
  <2>2. PICK n \in Nat : n = stock[s] - q
    BY <1>5, <2>1 DEF Enough, Committed
  <2>3. call'[c].at = "reserve" /\ call'[c].body = call[c].body /\ locked'[s] = c
    BY <1>1, <1>5, TodoTyped DEF TypeOK
  <2>4. Done(c, s)' = n - stock[s]
    BY <1>3, <2>1, <2>2, <2>3 DEF Done
  <2>5. stock' = [stock EXCEPT ![s] = n]
    BY <1>5, <2>2
  <2>6. TakesRow(c, s, n)
    BY <1>1, <1>2, <1>5, <2>4, <2>5 DEF TakesRow
  <2>7. QED
    BY <2>6
<1>6. QED
  BY <1>4, <1>5

\* Giving a line back takes its row.
LEMMA RestoreTakesRow ==
  ASSUME TypeInv, NEW c \in Callers, RestoreProductStock(c)
  PROVE  \E s \in Skus, n \in Nat : TakesRow(c, s, n)
<1> TypeOK /\ TransactionInv
  BY DEF TypeInv
<1>1. call[c].at = "restore" /\ call[c].todo # <<>> /\ InTransaction(c)
  BY DEF RestoreProductStock, InTransaction
<1>2. PICK s \in Skus : s = Head(call[c].todo)
  <2>1. call[c].todo \in Seq(Skus)
    BY DEF TypeOK, Call
  <2>2. QED
    BY <1>1, <2>1
<1>3. PICK q \in Nat : q = Quantity[call[c].body][s]
  BY <1>1, FoldsReturn DEF TransactionInv
<1>4. /\ locked[s] = Nobody
      /\ stock' = [stock EXCEPT ![s] = stock[s] + q]
      /\ locked' = [locked EXCEPT ![s] = c]
      /\ call' = [call EXCEPT ![c].todo = Tail(@)]
      /\ UNCHANGED <<orderVars, keyRow>>
  BY <1>2, <1>3 DEF RestoreProductStock
<1>5. PICK n \in Nat : stock[s] \in Nat /\ n = stock[s] + q
  BY DEF TypeOK
<1>6. call'[c].at = "restore" /\ call'[c].body = call[c].body /\ locked'[s] = c
  BY <1>1, <1>4, TodoTyped DEF TypeOK
<1>7. Done(c, s)' = n - stock[s]
  BY <1>3, <1>5, <1>6 DEF Done
<1>8. TakesRow(c, s, n)
  BY <1>1, <1>2, <1>4, <1>5, <1>7 DEF TakesRow
<1>9. QED
  BY <1>8

\* The sequences a cancel may read the SKUs of a body in hold them all.
LEMMA AllOfThem ==
  ASSUME NEW todo \in Seq(Skus), NEW items \in SetToSeqs(Range(todo))
  PROVE  items \in Seq(Skus) /\ \A s \in Skus : Contains(todo, s) => Contains(items, s)
<1> DEFINE S == Range(todo)
           n == Cardinality(S)
<1>1. todo \in [1..Len(todo) -> Skus] /\ Len(todo) \in Nat
  OBVIOUS
<1>2. S \subseteq Skus /\ S = {todo[i] : i \in 1..Len(todo)}
  BY <1>1 DEF Range
<1>3. IsFiniteSet(S)
  <2>1. IsFiniteSet(1..Len(todo))
    BY <1>1, FS_Interval
  <2>2. todo \in Surjection(1..Len(todo), S)
    BY <1>1, <1>2 DEF Surjection
  <2>3. QED
    BY <2>1, <2>2, FS_Surjection
<1>4. n \in Nat
  BY <1>3, FS_CardinalityType
<1>5. items \in [1..n -> S] /\ \A i, j \in 1..n : i # j => items[i] # items[j]
  BY DEF SetToSeqs
<1>6. items \in Injection(1..n, S)
  BY <1>5 DEF Injection, IsInjective
<1>7. Cardinality(1..n) = n
  BY <1>4, FS_Interval
<1>8. items \in Surjection(1..n, S)
  BY <1>3, <1>6, <1>7, FS_Injection
<1>9. items \in Seq(Skus) /\ Len(items) = n
  <2> HIDE DEF S, n
  <2>1. items \in Seq(Skus)
    BY <1>2, <1>4, <1>5
  <2>2. QED
    BY <1>4, <1>5, <2>1
<1>10. ASSUME NEW s \in Skus, Contains(todo, s) PROVE Contains(items, s)
  <2>1. s \in S
    BY <1>2, <1>10 DEF Contains
  <2> HIDE DEF S, n
  <2>2. PICK i \in 1..n : items[i] = s
    BY <1>8, <2>1 DEF Surjection
  <2>3. QED
    BY <1>9, <2>2 DEF Contains
<1>11. QED
  BY <1>9, <1>10

-----------------------------------------------------------------------------
(* Room for the orders that are being made *)

Absent == {o \in Orders : orderStatus[o] = "absent"}
Reserving == {c \in Callers : call[c].at = "reserve"}

\* Every checkout in its transaction finds an order id that is not in use.
RoomInv == Cardinality(Reserving) <= Cardinality(Absent)

LEMMA Finite ==
  /\ IsFiniteSet(Absent) /\ IsFiniteSet(Reserving)
  /\ Cardinality(Absent) \in Nat /\ Cardinality(Reserving) \in Nat
<1>1. IsFiniteSet(Absent) /\ IsFiniteSet(Reserving)
  BY CheckoutAssumption, FS_Subset DEF Absent, Reserving
<1>2. QED
  BY <1>1, FS_CardinalityType

\* The order id of a checkout about to commit.
LEMMA FreshOrder ==
  ASSUME RoomInv, NEW c \in Callers, call[c].at = "reserve"
  PROVE  LET o == CHOOSE x \in Orders : orderStatus[x] = "absent"
         IN  o \in Orders /\ orderStatus[o] = "absent"
<1>1. c \in Reserving
  BY DEF Reserving
<1>2. Cardinality(Reserving) # 0
  BY <1>1, Finite, FS_EmptySet
<1>3. Absent # {}
  BY <1>2, Finite, FS_EmptySet DEF RoomInv
<1>4. \E x \in Orders : orderStatus[x] = "absent"
  BY <1>3 DEF Absent
<1>5. QED
  BY <1>4

\* A step that begins no checkout and takes no order id keeps the room.
LEMMA RoomKept ==
  ASSUME RoomInv,
         \A o \in Orders : orderStatus[o] = "absent" => orderStatus'[o] = "absent",
         \A c \in Callers : call'[c].at = "reserve" => call[c].at = "reserve"
  PROVE  RoomInv'
<1>1. Absent \subseteq Absent' /\ Reserving' \subseteq Reserving
  BY DEF Absent, Reserving
<1>2. IsFiniteSet(Absent')
  BY CheckoutAssumption, FS_Subset DEF Absent
<1>3. Cardinality(Absent) <= Cardinality(Absent')
  BY <1>1, <1>2, FS_Subset
<1>4. Cardinality(Reserving') <= Cardinality(Reserving)
  BY <1>1, Finite, FS_Subset
<1>5. IsFiniteSet(Reserving') /\ Cardinality(Reserving') \in Nat
      /\ Cardinality(Absent') \in Nat
  BY <1>1, <1>2, Finite, FS_Subset, FS_CardinalityType
<1>6. QED
  BY <1>3, <1>4, <1>5, Finite DEF RoomInv

\* The inductive step: types, rows and room together, one action at a time.
LEMMA TypeInvStep ==
  TypeInv /\ RoomInv /\ [Next]_vars => TypeInv' /\ RoomInv'
<1> SUFFICES ASSUME TypeInv, RoomInv, [Next]_vars
             PROVE  (TypeOK' /\ TransactionInv') /\ RoomInv'
  BY DEF TypeInv
<1> TypeOK /\ TransactionInv
  BY DEF TypeInv
<1> DEFINE Goal == (TypeOK' /\ TransactionInv') /\ RoomInv'
<1>1. ASSUME NEW c \in Callers, NEW b \in Bodies, NEW k \in Keys \cup {NoKey},
             BeginCheckout(c, b, k)
      PROVE Goal
  <2>1. call[c].at = "idle" /\ Room /\ UNCHANGED <<stock, locked, orderVars, keyRow>>
    BY <1>1 DEF BeginCheckout
  <2>2. CASE call' = [call EXCEPT ![c] = [Idle EXCEPT !.at = "reserve", !.body = b,
                                            !.key = k, !.todo = SkusOf[b]]]
    <3> DEFINE new == [Idle EXCEPT !.at = "reserve", !.body = b, !.key = k,
                                   !.todo = SkusOf[b]]
    <3>1. new \in Call /\ new.at = "reserve" /\ new.body = b
      BY IdleTyped, FoldsReturn DEF Call
    <3>2. call' = [call EXCEPT ![c] = new]
      BY <2>2
    <3> HIDE DEF new
    <3>3. call'[c] = new /\ \A d \in Callers \ {c} : call'[d] = call[d]
      BY <3>2 DEF TypeOK
    <3>4. TypeOK'
      BY <2>1, <3>1, <3>2 DEF TypeOK
    <3>5. RowsHeld' /\ \A s \in Skus : Committed(s)' \in Nat
      BY <2>1, <3>3, CommittedKept DEF InTransaction, TransactionInv, RowsHeld
    <3>6. TransactionInv'
      BY <2>1, <3>1, <3>3, <3>5, CallsKept DEF TransactionInv
    <3>7. RoomInv'
      <4>1. Absent' = Absent /\ Reserving' = Reserving \cup {c} /\ c \notin Reserving
        BY <2>1, <3>1, <3>3 DEF Absent, Reserving
      <4>2. Cardinality(Absent) > Cardinality(Reserving)
        BY <2>1 DEF Room, Absent, Reserving
      <4>3. Cardinality(Reserving \cup {c}) = Cardinality(Reserving) + 1
        BY <4>1, Finite, FS_AddElement
      <4>4. QED
        BY <4>1, <4>2, <4>3, Finite DEF RoomInv
    <3>8. QED
      BY <3>4, <3>6, <3>7
  <2>3. CASE call' = [call EXCEPT ![c] =
               [Idle EXCEPT !.at = "done", !.body = b, !.key = k,
                  !.order = IF Row(k).hash = BodyHash[b] THEN Row(k).order ELSE NoOrder,
                  !.answer = IF Row(k).hash = BodyHash[b] THEN "replayed" ELSE "mismatch"]]
    <3> DEFINE answer == IF Row(k).hash = BodyHash[b] THEN "replayed" ELSE "mismatch"
               o == IF Row(k).hash = BodyHash[b] THEN Row(k).order ELSE NoOrder
               new == [Idle EXCEPT !.at = "done", !.body = b, !.key = k,
                                   !.order = o, !.answer = answer]
    <3>1. answer \in {"replayed", "mismatch"} /\ o \in Orders \cup {NoOrder}
      BY DEF Row, NoRow, TypeOK
    <3>2. call' = [call EXCEPT ![c] = new]
      BY <2>3
    <3> HIDE DEF answer, o
    <3>3. new \in Call /\ new.at = "done"
      BY <3>1, IdleTyped DEF Call
    <3> HIDE DEF new
    <3>4. call'[c] = new /\ \A d \in Callers \ {c} : call'[d] = call[d]
      BY <3>2 DEF TypeOK
    <3>5. TypeOK'
      BY <2>1, <3>2, <3>3 DEF TypeOK
    <3>6. RowsHeld' /\ \A s \in Skus : Committed(s)' \in Nat
      BY <2>1, <3>4, CommittedKept DEF InTransaction, TransactionInv, RowsHeld
    <3>7. TransactionInv'
      BY <2>1, <3>3, <3>4, <3>6, CallsKept DEF TransactionInv
    <3>8. RoomInv'
      BY <2>1, <3>3, <3>4, RoomKept
    <3>9. QED
      BY <3>5, <3>7, <3>8
  <2>4. QED
    BY <1>1, <2>2, <2>3 DEF BeginCheckout
\* The end of a transaction by a rollback.
<1>2. ASSUME NEW c \in Callers, Rollback(c), call' \in [Callers -> Call],
             \A d \in Callers \ {c} : call'[d] = call[d],
             \/ call'[c].at \in {"idle", "done"}
             \/ call'[c].at = "reread" /\ call'[c].key \in Keys
      PROVE Goal
  <2>1. /\ stock' \in [Skus -> Nat] /\ locked' \in [Skus -> Callers \cup {Nobody}]
        /\ \A s \in Skus : Committed(s)' \in Nat
        /\ RowsHeld'
        /\ orderStatus' \in [Orders -> {"absent", "open", "cancelling", "cancelled"}]
        /\ \A o \in Orders : orderStatus'[o] = "absent" <=> orderStatus[o] = "absent"
    BY <1>2, RollbackKeeps
  <2>2. UNCHANGED <<orderBody, orderKey, keyRow>>
    BY <1>2 DEF Rollback
  <2>3. TypeOK'
    BY <1>2, <2>1, <2>2 DEF TypeOK
  <2>4. TransactionInv'
    BY <1>2, <2>1, <2>2, CallsKept DEF TransactionInv
  <2>5. RoomInv'
    BY <1>2, <2>1, RoomKept
  <2>6. QED
    BY <2>3, <2>4, <2>5
<1>3. ASSUME NEW c \in Callers, Rollback(c), Answer(c, "error", NoOrder) PROVE Goal
  BY <1>2, <1>3, AnswerTyped
<1>4. ASSUME NEW c \in Callers, RefuseLines(c) PROVE Goal
  BY <1>3, <1>4 DEF RefuseLines
<1>5. ASSUME NEW c \in Callers, DeadlockAbort(c) PROVE Goal
  BY <1>3, <1>5 DEF DeadlockAbort
<1>6. ASSUME NEW c \in Callers, Crash(c) PROVE Goal
  <2>1. Rollback(c) /\ call' = [call EXCEPT ![c] = Idle]
    BY <1>6 DEF Crash
  <2>2. /\ call' \in [Callers -> Call] /\ call'[c].at = "idle"
        /\ \A d \in Callers \ {c} : call'[d] = call[d]
    BY <2>1, IdleTyped DEF TypeOK
  <2>3. QED
    BY <1>2, <2>1, <2>2
\* A step that holds the next row of a transaction.
<1>7. ASSUME NEW c \in Callers, NEW s, NEW n \in Nat, TakesRow(c, s, n) PROVE Goal
  <2>1. TypeOK' /\ RowsHeld' /\ \A r \in Skus : Committed(r)' \in Nat
    BY <1>7, RowTaken DEF TransactionInv
  <2>2. /\ InTransaction(c) /\ call[c].todo # <<>>
        /\ call' = [call EXCEPT ![c].todo = Tail(@)] /\ UNCHANGED <<orderVars, keyRow>>
    BY <1>7 DEF TakesRow
  <2>3. /\ call'[c].at = call[c].at /\ call'[c].body = call[c].body
        /\ call'[c].key = call[c].key /\ call'[c].order = call[c].order
        /\ \A d \in Callers \ {c} : call'[d] = call[d]
    BY <2>2, TodoTyped
  <2>4. \A d \in Callers : call'[d].at = call[d].at
    BY <2>3
  <2>5. TransactionInv'
    BY <2>1, <2>2, <2>3, CallsKept DEF TransactionInv
  <2>6. RoomInv'
    BY <2>2, <2>4, RoomKept
  <2>7. QED
    BY <2>1, <2>5, <2>6
<1>8. ASSUME NEW c \in Callers, ReduceProductStock(c) PROVE Goal
  BY <1>3, <1>7, <1>8, ReduceTakesRow
<1>9. ASSUME NEW c \in Callers, RestoreProductStock(c) PROVE Goal
  BY <1>7, <1>9, RestoreTakesRow
\* The end of a transaction by a commit.
<1>10. ASSUME NEW c \in Callers, InTransaction(c), Unlock(c), UNCHANGED stock,
              NEW o \in Orders, NEW answer \in {"created", "cancelled"},
              Answer(c, answer, o),
              \A p \in Orders \ {o} : orderStatus'[p] = orderStatus[p],
              \A p \in Orders : orderStatus'[p] # "absent" => orderBody'[p] \in Bodies,
              orderStatus'[o] # "absent", TypeOK'
       PROVE  TransactionInv'
  <2>1. call'[c].at = "done" /\ \A d \in Callers \ {c} : call'[d] = call[d]
    BY <1>10, AnswerTyped
  <2>2. RowsHeld' /\ \A s \in Skus : Committed(s)' \in Nat
    BY <1>10, <2>1, CommitKeepsRows
  <2>3. QED
    BY <1>10, <2>1, <2>2, CallsKept
<1>11. ASSUME NEW c \in Callers, CommitOrder(c) PROVE Goal
  <2>1. call[c].at = "reserve" /\ InTransaction(c) /\ call[c].body \in Bodies
    BY <1>11 DEF CommitOrder, InTransaction, TransactionInv
  <2>2. CASE /\ Row(call[c].key) # NoRow /\ Rollback(c)
             /\ call' = [call EXCEPT ![c].at = "reread"]
    <3>1. call[c].key \in Keys /\ call[c] \in Call
      BY <2>2 DEF Row, TypeOK, Call
    <3>2. /\ call' \in [Callers -> Call]
          /\ call'[c].at = "reread" /\ call'[c].key \in Keys
          /\ \A d \in Callers \ {c} : call'[d] = call[d]
      BY <2>2, <3>1 DEF TypeOK, Call
    <3>3. QED
      BY <1>2, <2>2, <3>2
  <2>3. CASE Row(call[c].key) = NoRow
    <3>1. PICK o \in Orders : /\ o = CHOOSE x \in Orders : orderStatus[x] = "absent"
                              /\ orderStatus[o] = "absent"
      BY <2>1, FreshOrder
    <3>2. /\ orderStatus' = [orderStatus EXCEPT ![o] = "open"]
          /\ orderBody' = [orderBody EXCEPT ![o] = call[c].body]
          /\ orderKey' = [orderKey EXCEPT ![o] = call[c].key]
          /\ keyRow' = IF call[c].key = NoKey THEN keyRow
                       ELSE [keyRow EXCEPT ![call[c].key] =
                               [order |-> o, hash |-> BodyHash[call[c].body]]]
          /\ Unlock(c) /\ Answer(c, "created", o) /\ UNCHANGED stock
      BY <1>11, <2>3, <3>1 DEF CommitOrder, CreateOrderRecord
    <3>3. /\ call' \in [Callers -> Call] /\ call'[c].at = "done"
          /\ \A d \in Callers \ {c} : call'[d] = call[d]
      BY <3>2, AnswerTyped
    <3>4. locked' \in [Skus -> Callers \cup {Nobody}]
      BY <3>2, <3>3, CommitKeepsRows
    <3>5. call[c].key \in Keys \cup {NoKey}
      BY DEF TypeOK, Call
    <3>6. keyRow' \in [Keys -> [order : Orders \cup {NoOrder},
                                hash : {BodyHash[b] : b \in Bodies} \cup {NoBody}]]
      BY <2>1, <3>2, <3>5 DEF TypeOK
    <3>7. TypeOK'
      BY <2>1, <3>2, <3>3, <3>4, <3>5, <3>6 DEF TypeOK
    <3>8. TransactionInv'
      BY <1>10, <2>1, <3>2, <3>7 DEF TransactionInv, TypeOK
    <3>9. RoomInv'
      <4>1. Absent' = Absent \ {o} /\ Reserving' = Reserving \ {c}
            /\ o \in Absent /\ c \in Reserving
        BY <2>1, <3>1, <3>2, <3>3 DEF Absent, Reserving, TypeOK
      <4>2. Cardinality(Absent \ {o}) = Cardinality(Absent) - 1
            /\ Cardinality(Reserving \ {c}) = Cardinality(Reserving) - 1
        BY <4>1, Finite, FS_RemoveElement
      <4>3. QED
        BY <4>1, <4>2, Finite DEF RoomInv
    <3>10. QED
      BY <3>7, <3>8, <3>9
  <2>4. QED
    BY <1>11, <2>2, <2>3 DEF CommitOrder
<1>12. ASSUME NEW c \in Callers, CommitCancel(c) PROVE Goal
  <2>1. /\ call[c].at = "restore" /\ InTransaction(c)
        /\ call[c].order \in Orders /\ orderStatus[call[c].order] # "absent"
    BY <1>12 DEF CommitCancel, InTransaction, TransactionInv
  <2>2. PICK o \in Orders : o = call[c].order
    BY <2>1
  <2>3. /\ orderStatus' = [orderStatus EXCEPT ![o] = "cancelled"]
        /\ Unlock(c) /\ Answer(c, "cancelled", o)
        /\ UNCHANGED <<stock, orderBody, orderKey, keyRow>>
    BY <1>12, <2>2 DEF CommitCancel
  <2>4. /\ call' \in [Callers -> Call] /\ call'[c].at = "done"
        /\ \A d \in Callers \ {c} : call'[d] = call[d]
    BY <2>3, AnswerTyped
  <2>5. locked' \in [Skus -> Callers \cup {Nobody}]
    BY <2>3, <2>4, CommitKeepsRows
  <2>6. TypeOK'
    BY <2>3, <2>4, <2>5 DEF TypeOK
  <2>7. TransactionInv'
    BY <1>10, <2>1, <2>2, <2>3, <2>6 DEF TransactionInv, TypeOK
  <2>8. RoomInv'
    BY <2>1, <2>2, <2>3, <2>4, RoomKept DEF TypeOK
  <2>9. QED
    BY <2>6, <2>7, <2>8
<1>13. ASSUME NEW c \in Callers, RereadKey(c) PROVE Goal
  <2>1. call[c].at = "reread" /\ UNCHANGED <<stock, locked, orderVars, keyRow>>
    BY <1>13 DEF RereadKey
  <2>2. keyRow[call[c].key].order \in Orders \cup {NoOrder}
    BY <2>1 DEF TransactionInv, TypeOK
  <2>3. /\ call' \in [Callers -> Call] /\ call'[c].at = "done"
        /\ \A d \in Callers \ {c} : call'[d] = call[d]
    BY <1>13, <2>2, AnswerTyped DEF RereadKey
  <2>4. TypeOK'
    BY <2>1, <2>3 DEF TypeOK
  <2>5. RowsHeld' /\ \A s \in Skus : Committed(s)' \in Nat
    BY <2>1, <2>3, CommittedKept DEF InTransaction, TransactionInv, RowsHeld
  <2>6. TransactionInv'
    BY <2>1, <2>3, <2>5, CallsKept DEF TransactionInv
  <2>7. RoomInv'
    BY <2>1, <2>3, RoomKept
  <2>8. QED
    BY <2>4, <2>6, <2>7
<1>14. ASSUME NEW c \in Callers, NEW o \in Orders, BeginCancel(c, o) PROVE Goal
  <2>1. /\ call[c].at = "idle" /\ orderStatus[o] = "open"
        /\ orderStatus' = [orderStatus EXCEPT ![o] = "cancelling"]
        /\ UNCHANGED <<stock, locked, orderBody, orderKey, keyRow>>
    BY <1>14 DEF BeginCancel
  <2>2. orderBody[o] \in Bodies
    BY <2>1 DEF TransactionInv
  <2>3. PICK items \in SetToSeqs(Range(SkusOf[orderBody[o]])) :
          call' = [call EXCEPT ![c] = [Idle EXCEPT !.at = "restore", !.order = o,
                                         !.body = orderBody[o], !.todo = items]]
    BY <1>14 DEF BeginCancel
  <2>4. items \in Seq(Skus)
    BY <2>2, FoldsReturn, AllOfThem
  <2> DEFINE new == [Idle EXCEPT !.at = "restore", !.order = o,
                                 !.body = orderBody[o], !.todo = items]
  <2>5. new \in Call /\ new.at = "restore" /\ new.order = o /\ new.body = orderBody[o]
    BY <2>2, <2>4, IdleTyped DEF Call
  <2>6. call' = [call EXCEPT ![c] = new]
    BY <2>3
  <2> HIDE DEF new
  <2>7. call'[c] = new /\ \A d \in Callers \ {c} : call'[d] = call[d]
    BY <2>6 DEF TypeOK
  <2>8. TypeOK'
    BY <2>1, <2>5, <2>6 DEF TypeOK
  <2>9. RowsHeld' /\ \A s \in Skus : Committed(s)' \in Nat
    BY <2>1, <2>7, CommittedKept DEF InTransaction, TransactionInv, RowsHeld
  <2>10. /\ orderStatus'[o] = "cancelling"
         /\ \A p \in Orders \ {o} : orderStatus'[p] = orderStatus[p]
    BY <2>1 DEF TypeOK
  <2>11. TransactionInv'
    BY <2>1, <2>2, <2>5, <2>7, <2>9, <2>10, CallsKept DEF TransactionInv
  <2>12. RoomInv'
    BY <2>1, <2>5, <2>7, <2>10, RoomKept
  <2>13. QED
    BY <2>8, <2>11, <2>12
<1>15. ASSUME NEW c \in Callers, Respond(c) PROVE Goal
  <2>1. /\ call[c].at = "done" /\ call' = [call EXCEPT ![c] = Idle]
        /\ UNCHANGED <<stock, locked, orderVars, keyRow>>
    BY <1>15 DEF Respond
  <2>2. /\ call' \in [Callers -> Call] /\ call'[c].at = "idle"
        /\ \A d \in Callers \ {c} : call'[d] = call[d]
    BY <2>1, IdleTyped DEF TypeOK
  <2>3. TypeOK'
    BY <2>1, <2>2 DEF TypeOK
  <2>4. RowsHeld' /\ \A s \in Skus : Committed(s)' \in Nat
    BY <2>1, <2>2, CommittedKept DEF InTransaction, TransactionInv, RowsHeld
  <2>5. TransactionInv'
    BY <2>1, <2>2, <2>4, CallsKept DEF TransactionInv
  <2>6. RoomInv'
    BY <2>1, <2>2, RoomKept
  <2>7. QED
    BY <2>3, <2>5, <2>6
<1>16. ASSUME NEW k \in Keys, PruneIdempotencyKey(k) PROVE Goal
  <2>1. UNCHANGED <<stock, locked, orderStatus, orderBody, call>>
    BY <1>16 DEF PruneIdempotencyKey
  <2>2. TypeOK'
    BY <1>16, <2>1 DEF PruneIdempotencyKey, NoRow, TypeOK
  <2>3. TransactionInv' /\ RoomInv'
    BY <2>1 DEF TransactionInv, RowsHeld, InTransaction, Committed, Done, RoomInv,
                Absent, Reserving
  <2>4. QED
    BY <2>2, <2>3
<1>17. CASE UNCHANGED vars
  BY <1>17 DEF TypeOK, TransactionInv, RowsHeld, InTransaction, Committed, Done, RoomInv,
               Absent, Reserving
<1>18. QED
  BY <1>1, <1>4, <1>5, <1>6, <1>8, <1>9, <1>11, <1>12, <1>13, <1>14, <1>15, <1>16, <1>17
     DEF Next, Progress

-----------------------------------------------------------------------------
(* Theorems *)

LEMMA InitTyped == Init => TypeInv /\ RoomInv
<1> SUFFICES ASSUME Init PROVE (TypeOK /\ TransactionInv) /\ RoomInv
  BY DEF TypeInv
<1>1. TypeOK
  BY CheckoutAssumption, IdleTyped DEF Init, TypeOK, NoRow
<1>2. TransactionInv
  BY CheckoutAssumption, IdleTyped DEF Init, TransactionInv, RowsHeld, Committed
<1>3. Reserving = {}
  BY IdleTyped DEF Init, Reserving
<1>4. RoomInv
  BY <1>3, Finite, FS_EmptySet DEF RoomInv
<1>5. QED
  BY <1>1, <1>2, <1>4

\* Type correctness of the stock, the orders, the keys and the calls.
THEOREM CheckoutTyped == Spec => []TypeOK
<1>1. QED
  BY InitTyped, TypeInvStep, PTL DEF Spec, TypeInv

\* No interleaving of checkouts, cancels, deadlocks and crashes sells a unit
\* that is not there: the committed stock of no SKU falls below zero.
NeverOversold == \A s \in Skus : stock[s] >= 0 /\ Committed(s) >= 0

THEOREM NoneOversold == Spec => []NeverOversold
<1>1. TypeInv => NeverOversold
  BY DEF TypeInv, TypeOK, TransactionInv, NeverOversold
<1>2. QED
  BY <1>1, InitTyped, TypeInvStep, PTL DEF Spec

\* KeyStandsForOneOrder is inductive once an order that is not there yet has
\* no key.
KeyInv ==
  /\ KeyStandsForOneOrder
  /\ \A o \in Orders : orderStatus[o] = "absent" => orderKey[o] = NoKey

\* A row of the keys names an order that is there.
LEMMA RowNamesOrder ==
  ASSUME KeyInv, NEW k \in Keys, keyRow[k] # NoRow
  PROVE  /\ keyRow[k].order \in Orders /\ orderKey[keyRow[k].order] = k
         /\ orderStatus[keyRow[k].order] # "absent"
BY DEF KeyInv, KeyStandsForOneOrder

\* The inductive step of the keys.
LEMMA KeyInvStep ==
  TypeInv /\ RoomInv /\ KeyInv /\ [Next]_vars => KeyInv'
<1> SUFFICES ASSUME TypeInv, RoomInv, KeyInv, [Next]_vars PROVE KeyInv'
  OBVIOUS
<1> TypeOK /\ TransactionInv
  BY DEF TypeInv
<1>1. ASSUME UNCHANGED <<orderKey, keyRow, orderBody>>,
             \A o \in Orders : orderStatus'[o] = "absent" <=> orderStatus[o] = "absent"
      PROVE  KeyInv'
  <2>1. \A k \in Keys : keyRow[k] # NoRow => keyRow[k].order \in Orders
    BY RowNamesOrder
  <2>2. QED
    BY <1>1, <2>1 DEF KeyInv, KeyStandsForOneOrder
<1>2. ASSUME NEW c \in Callers, Rollback(c) PROVE KeyInv'
  <2>1. \A o \in Orders : orderStatus'[o] = "absent" <=> orderStatus[o] = "absent"
    BY <1>2 DEF Rollback, TransactionInv
  <2>2. QED
    BY <1>1, <1>2, <2>1 DEF Rollback
<1>3. ASSUME NEW c \in Callers, CommitOrder(c) PROVE KeyInv'
  <2>1. call[c].at = "reserve" /\ call[c].body \in Bodies
    BY <1>3 DEF CommitOrder, TransactionInv
  <2>2. CASE Rollback(c)
    BY <1>2, <2>2
  <2>3. CASE ~Rollback(c)
    <3>1. PICK o \in Orders : /\ o = CHOOSE x \in Orders : orderStatus[x] = "absent"
                              /\ orderStatus[o] = "absent"
      BY <2>1, FreshOrder
    <3>2. PICK k \in Keys \cup {NoKey} : k = call[c].key
      BY DEF TypeOK, Call
    <3>3. /\ orderStatus' = [orderStatus EXCEPT ![o] = "open"]
          /\ orderBody' = [orderBody EXCEPT ![o] = call[c].body]
          /\ orderKey' = [orderKey EXCEPT ![o] = k]
          /\ keyRow' = IF k = NoKey THEN keyRow
                       ELSE [keyRow EXCEPT ![k] =
                               [order |-> o, hash |-> BodyHash[call[c].body]]]
          /\ Row(k) = NoRow
      BY <1>3, <2>3, <3>1, <3>2 DEF CommitOrder, CreateOrderRecord
    <3>4. /\ orderStatus'[o] = "open" /\ orderBody'[o] = call[c].body
          /\ orderKey'[o] = k
          /\ \A p \in Orders \ {o} : /\ orderStatus'[p] = orderStatus[p]
                                     /\ orderBody'[p] = orderBody[p]
                                     /\ orderKey'[p] = orderKey[p]
      BY <3>3 DEF TypeOK
    <3>5. \A p \in Orders : orderStatus'[p] = "absent" => orderKey'[p] = NoKey
      BY <3>4 DEF KeyInv
    <3>6. ASSUME NEW j \in Keys
          PROVE /\ {p \in Orders : orderKey'[p] = j}
                     = IF keyRow'[j] = NoRow THEN {} ELSE {keyRow'[j].order}
                /\ keyRow'[j] # NoRow =>
                     /\ orderStatus'[keyRow'[j].order] # "absent"
                     /\ BodyHash[orderBody'[keyRow'[j].order]] = keyRow'[j].hash
      <4>1. j # NoKey /\ orderKey[o] = NoKey
        BY <3>1, CheckoutAssumption DEF KeyInv
      <4>2. CASE j = k
        <5>1. keyRow[j] = NoRow
          BY <3>3, <4>1, <4>2 DEF Row
        <5>2. \A p \in Orders : orderKey[p] # j
          BY <5>1 DEF KeyInv, KeyStandsForOneOrder
        <5>3. keyRow'[j] = [order |-> o, hash |-> BodyHash[call[c].body]]
          BY <3>3, <4>1, <4>2 DEF TypeOK
        <5>4. keyRow'[j] # NoRow
          BY <5>3, CheckoutAssumption DEF NoRow
        <5>5. \A p \in Orders : orderKey'[p] = j <=> p = o
          BY <3>4, <4>2, <5>2
        <5>6. QED
          BY <3>4, <5>3, <5>4, <5>5
      <4>3. CASE j # k
        <5>1. keyRow'[j] = keyRow[j]
          BY <3>3, <4>3 DEF TypeOK
        <5>2. \A p \in Orders : orderKey'[p] = j <=> orderKey[p] = j
          BY <3>4, <4>1, <4>3
        <5>3. keyRow[j] # NoRow => keyRow[j].order \in Orders \ {o}
          BY <3>1, RowNamesOrder
        <5>4. QED
          BY <3>4, <5>1, <5>2, <5>3 DEF KeyInv, KeyStandsForOneOrder
      <4>4. QED
        BY <4>2, <4>3
    <3>7. QED
      BY <3>5, <3>6 DEF KeyInv, KeyStandsForOneOrder
  <2>4. QED
    BY <2>2, <2>3
<1>4. ASSUME NEW k \in Keys, PruneIdempotencyKey(k) PROVE KeyInv'
  <2>1. keyRow[k].order \in Orders /\ orderKey[keyRow[k].order] = k
    BY <1>4, RowNamesOrder DEF PruneIdempotencyKey
  <2>2. PICK o \in Orders : o = keyRow[k].order
    BY <2>1
  <2>3. /\ orderKey' = [orderKey EXCEPT ![o] = NoKey]
        /\ keyRow' = [keyRow EXCEPT ![k] = NoRow]
        /\ UNCHANGED <<orderStatus, orderBody>>
    BY <1>4, <2>2 DEF PruneIdempotencyKey
  <2>4. \A p \in Orders : orderKey[p] = k => p = o
    BY <1>4, <2>2 DEF PruneIdempotencyKey, KeyInv, KeyStandsForOneOrder
  <2>5. ASSUME NEW j \in Keys
        PROVE /\ {p \in Orders : orderKey'[p] = j}
                   = IF keyRow'[j] = NoRow THEN {} ELSE {keyRow'[j].order}
              /\ keyRow'[j] # NoRow =>
                   /\ orderStatus'[keyRow'[j].order] # "absent"
                   /\ BodyHash[orderBody'[keyRow'[j].order]] = keyRow'[j].hash
    <3>1. j # NoKey
      BY CheckoutAssumption
    <3>2. CASE j = k
      <4>1. keyRow'[j] = NoRow
        BY <2>3, <3>2 DEF TypeOK
      <4>2. \A p \in Orders : orderKey'[p] # j
        BY <2>3, <2>4, <3>1, <3>2 DEF TypeOK
      <4>3. QED
        BY <4>1, <4>2
    <3>3. CASE j # k
      <4>1. keyRow'[j] = keyRow[j]
        BY <2>3, <3>3 DEF TypeOK
      <4>2. \A p \in Orders : orderKey'[p] = j <=> orderKey[p] = j
        BY <2>1, <2>2, <2>3, <3>1, <3>3 DEF TypeOK
      <4>3. QED
        BY <2>3, <4>1, <4>2 DEF KeyInv, KeyStandsForOneOrder
    <3>4. QED
      BY <3>2, <3>3
  <2>6. \A p \in Orders : orderStatus'[p] = "absent" => orderKey'[p] = NoKey
    BY <2>3 DEF KeyInv, TypeOK
  <2>7. QED
    BY <2>5, <2>6 DEF KeyInv, KeyStandsForOneOrder
<1>5. ASSUME NEW c \in Callers, CommitCancel(c) PROVE KeyInv'
  <2>1. \A o \in Orders : orderStatus'[o] = "absent" <=> orderStatus[o] = "absent"
    BY <1>5 DEF CommitCancel, TransactionInv, TypeOK
  <2>2. QED
    BY <1>1, <1>5, <2>1 DEF CommitCancel
<1>6. ASSUME NEW c \in Callers, NEW o \in Orders, BeginCancel(c, o) PROVE KeyInv'
  <2>1. \A p \in Orders : orderStatus'[p] = "absent" <=> orderStatus[p] = "absent"
    BY <1>6 DEF BeginCancel, TypeOK
  <2>2. QED
    BY <1>1, <1>6, <2>1 DEF BeginCancel
<1>7. ASSUME UNCHANGED <<orderVars, keyRow>> PROVE KeyInv'
  BY <1>1, <1>7
<1>8. ASSUME NEW c \in Callers, Progress(c) PROVE KeyInv'
  BY <1>2, <1>3, <1>5, <1>7, <1>8 DEF Progress, ReduceProductStock, RereadKey,
     RestoreProductStock, DeadlockAbort
<1>9. ASSUME NEW c \in Callers, RefuseLines(c) \/ Crash(c) \/ Respond(c) PROVE KeyInv'
  BY <1>2, <1>7, <1>9 DEF RefuseLines, Crash, Respond
<1>10. ASSUME NEW c \in Callers, NEW b \in Bodies, NEW k \in Keys \cup {NoKey},
              BeginCheckout(c, b, k)
       PROVE  KeyInv'
  BY <1>7, <1>10 DEF BeginCheckout
<1>11. CASE UNCHANGED vars
  BY <1>7, <1>11
<1>12. QED
  BY <1>4, <1>6, <1>8, <1>9, <1>10, <1>11 DEF Next

\* However requests with one key race, crash and retry, the key stands for one
\* order, which was made from a body with the hash that is recorded.
THEOREM KeyStands == Spec => []KeyStandsForOneOrder
<1>1. ASSUME Init PROVE KeyInv
  <2>1. \A o \in Orders : orderKey[o] = NoKey
    BY <1>1 DEF Init
  <2>2. \A k \in Keys : k # NoKey /\ keyRow[k] = NoRow
    BY <1>1, CheckoutAssumption DEF Init
  <2>3. QED
    BY <2>1, <2>2 DEF KeyInv, KeyStandsForOneOrder
<1>2. KeyInv => KeyStandsForOneOrder
  BY DEF KeyInv
<1>3. QED
  BY <1>1, <1>2, InitTyped, TypeInvStep, KeyInvStep, PTL DEF Spec

-----------------------------------------------------------------------------
(* Stock is conserved *)

\* What a transaction is about to do to a row that it does not hold.
TodoCovers(c) ==
  \A s \in Skus :
    Quantity[call[c].body][s] # 0 => Contains(call[c].todo, s) \/ locked[s] = c

\* The sum alone is not inductive: a transaction that commits has taken every
\* row its body asks for, and a cancel is the only one of its order.
LedgerInv ==
  /\ \A c \in Callers : InTransaction(c) => TodoCovers(c)
  /\ \A c \in Callers : call[c].at = "restore" =>
       orderStatus[call[c].order] = "cancelling" /\ orderBody[call[c].order] = call[c].body
  /\ \A c, d \in Callers :
       call[c].at = "restore" /\ call[d].at = "restore" /\ call[c].order = call[d].order
         => c = d
  /\ \A s \in Skus : Committed(s) + Placed(s) = InitialStock[s]

\* The orders it is about hold a number of each SKU.
LEMMA HeldTyped ==
  ASSUME TypeInv, NEW s \in Skus
  PROVE  Held(s) \in [Orders -> Nat] /\ Held(s) \in [Orders -> Int] /\ Placed(s) \in Int
<1>1. \A o \in Orders : orderStatus[o] # "absent" => Quantity[orderBody[o]][s] \in Nat
  BY FoldsReturn DEF TypeInv, TransactionInv
<1>2. Held(s) \in [Orders -> Nat]
  BY <1>1 DEF Held
<1>3. Held(s) \in [Orders -> Int]
  BY <1>2
<1>4. PICK g : IsSum(g, Held(s), Orders) /\ SumFunction(Held(s)) = g[Orders]
  BY <1>3, CheckoutAssumption, SumIs
<1>5. QED
  BY <1>2, <1>3, <1>4 DEF IsSum, Placed

\* A step that changes what one order holds changes the sum by that much.
LEMMA PlacedChanges ==
  ASSUME TypeInv, TypeInv', NEW s \in Skus, NEW o \in Orders,
         \A p \in Orders \ {o} : Held(s)'[p] = Held(s)[p]
  PROVE  Placed(s)' = Placed(s) + (Held(s)'[o] - Held(s)[o])
<1>1. Held(s) \in [Orders -> Int]
  BY HeldTyped
<1>2. Held(s)' \in [Orders -> Int]
  <2>1. \A p \in Orders : orderStatus'[p] # "absent" => Quantity[orderBody'[p]][s] \in Nat
    BY FoldsReturn DEF TypeInv, TransactionInv
  <2>2. QED
    BY <2>1 DEF Held
<1> DEFINE f == Held(s)
           h == Held(s)'
<1>3. SumFunction(h) = SumFunction(f) + (h[o] - f[o])
  <2>1. f \in [Orders -> Int] /\ h \in [Orders -> Int] /\ \A p \in Orders \ {o} : h[p] = f[p]
    BY <1>1, <1>2
  <2> HIDE DEF f, h
  <2>2. QED
    BY <2>1, CheckoutAssumption, SumChanges
<1>4. QED
  BY <1>3 DEF Placed

LEMMA PlacedKept ==
  ASSUME NEW s \in Skus, \A p \in Orders : Held(s)'[p] = Held(s)[p]
  PROVE  Placed(s)' = Placed(s)
<1>1. Held(s)' = Held(s)
  BY DEF Held
<1>2. QED
  BY <1>1 DEF Placed

\* What a step of c leaves of the calls of the others.
LEMMA OthersCovered ==
  ASSUME TypeInv, LedgerInv, NEW c \in Callers, \A d \in Callers \ {c} : call'[d] = call[d],
         \A d \in Callers \ {c} : \A s \in Skus : locked[s] = d => locked'[s] = d,
         \A d \in Callers \ {c} : call[d].at = "restore" =>
           /\ orderStatus'[call[d].order] = orderStatus[call[d].order]
           /\ orderBody'[call[d].order] = orderBody[call[d].order],
         InTransaction(c)' => TodoCovers(c)',
         call'[c].at = "restore" =>
           /\ orderStatus'[call'[c].order] = "cancelling"
           /\ orderBody'[call'[c].order] = call'[c].body
           /\ \A d \in Callers \ {c} : call[d].at = "restore" => call[d].order # call'[c].order,
         \A s \in Skus : (Committed(s) + Placed(s))' = Committed(s) + Placed(s)
  PROVE  LedgerInv'
<1>1. ASSUME NEW d \in Callers, InTransaction(d)' PROVE TodoCovers(d)'
  <2>1. CASE d = c
    BY <1>1, <2>1
  <2>2. CASE d # c
    <3>1. call'[d] = call[d] /\ InTransaction(d)
      BY <1>1, <2>2 DEF InTransaction
    <3>2. TodoCovers(d)
      BY <3>1 DEF LedgerInv
    <3>3. QED
      BY <2>2, <3>1, <3>2 DEF TodoCovers
  <2>3. QED
    BY <2>1, <2>2
<1>2. ASSUME NEW d \in Callers, call'[d].at = "restore"
      PROVE  /\ orderStatus'[call'[d].order] = "cancelling"
             /\ orderBody'[call'[d].order] = call'[d].body
  BY <1>2 DEF LedgerInv
<1>3. ASSUME NEW d \in Callers, NEW e \in Callers, call'[d].at = "restore",
             call'[e].at = "restore", call'[d].order = call'[e].order
      PROVE  d = e
  BY <1>3 DEF LedgerInv
<1>4. \A s \in Skus : (Committed(s) + Placed(s))' = InitialStock[s]
  BY DEF LedgerInv
<1>5. QED
  BY <1>1, <1>2, <1>3, <1>4 DEF LedgerInv

\* The inductive step of the ledger.
LEMMA LedgerStep ==
  TypeInv /\ TypeInv' /\ RoomInv /\ LedgerInv /\ [Next]_vars => LedgerInv'
<1> SUFFICES ASSUME TypeInv, TypeInv', RoomInv, LedgerInv, [Next]_vars PROVE LedgerInv'
  OBVIOUS
<1> TypeOK /\ TransactionInv
  BY DEF TypeInv
\* A step outside of any transaction.
<1>1. ASSUME NEW c \in Callers, ~InTransaction(c), UNCHANGED <<stock, locked, orderVars>>,
             \A d \in Callers \ {c} : call'[d] = call[d],
             InTransaction(c)' => call'[c].at = "reserve" /\ TodoCovers(c)'
      PROVE  LedgerInv'
  <2>1. \A s \in Skus : Committed(s)' = Committed(s)
    BY <1>1, CommittedKept
  <2>2. \A s \in Skus : Placed(s)' = Placed(s)
    BY <1>1, PlacedKept DEF Held
  <2>3. call'[c].at # "restore"
    BY <1>1 DEF InTransaction
  <2>4. QED
    BY <1>1, <2>1, <2>2, <2>3, OthersCovered
<1>2. ASSUME NEW c \in Callers, NEW b \in Bodies, NEW k \in Keys \cup {NoKey},
             BeginCheckout(c, b, k)
      PROVE  LedgerInv'
  <2>1. /\ call[c].at = "idle" /\ UNCHANGED <<stock, locked, orderVars>>
        /\ \A d \in Callers \ {c} : call'[d] = call[d]
    BY <1>2 DEF BeginCheckout, TypeOK
  <2>2. ASSUME InTransaction(c)' PROVE call'[c].at = "reserve" /\ TodoCovers(c)'
    <3>1. /\ call'[c].at = "reserve"
          /\ call'[c].body = b /\ call'[c].todo = SkusOf[b]
      <4>1. CASE call' = [call EXCEPT ![c] = [Idle EXCEPT !.at = "reserve", !.body = b,
                                                !.key = k, !.todo = SkusOf[b]]]
        BY <4>1 DEF Idle, TypeOK
      <4>2. CASE Row(k) # NoRow
        <5> DEFINE o == IF Row(k).hash = BodyHash[b] THEN Row(k).order ELSE NoOrder
                   answer == IF Row(k).hash = BodyHash[b] THEN "replayed" ELSE "mismatch"
        <5>1. call' = [call EXCEPT ![c] = [Idle EXCEPT !.at = "done", !.body = b, !.key = k,
                                             !.order = o, !.answer = answer]]
          BY <1>2, <4>2 DEF BeginCheckout
        <5> HIDE DEF o, answer
        <5>2. call'[c].at = "done"
          BY <5>1 DEF Idle, TypeOK
        <5>3. QED
          BY <2>2, <5>2 DEF InTransaction
      <4>3. QED
        BY <1>2, <4>1, <4>2 DEF BeginCheckout
    <3>2. QED
      BY <3>1, FoldsReturn DEF TodoCovers
  <2>3. QED
    BY <1>1, <2>1, <2>2 DEF InTransaction
\* A rollback: the order of a cancel is open again.
<1>3. ASSUME NEW c \in Callers, Rollback(c), ~InTransaction(c)',
             \A d \in Callers \ {c} : call'[d] = call[d]
      PROVE  LedgerInv'
  <2>1. \A s \in Skus : Committed(s)' = Committed(s)
    BY <1>3, RollbackKeeps
  <2>2. /\ orderBody' = orderBody
        /\ \A o \in Orders : orderStatus'[o] =
             IF call[c].at = "restore" /\ call[c].order = o THEN "open" ELSE orderStatus[o]
    BY <1>3 DEF Rollback
  <2>3. \A s \in Skus : Placed(s)' = Placed(s)
    <3>1. \A o \in Orders : orderStatus'[o] \in {"open", "cancelling"}
                              <=> orderStatus[o] \in {"open", "cancelling"}
      BY <2>2 DEF LedgerInv
    <3>2. QED
      BY <2>2, <3>1, PlacedKept DEF Held
  <2>4. \A d \in Callers \ {c} : \A s \in Skus : locked[s] = d => locked'[s] = d
    BY <1>3 DEF Rollback, Unlock
  <2>5. \A d \in Callers \ {c} : call[d].at = "restore" =>
          /\ orderStatus'[call[d].order] = orderStatus[call[d].order]
          /\ orderBody'[call[d].order] = orderBody[call[d].order]
    BY <2>2 DEF LedgerInv, TransactionInv
  <2>6. call'[c].at # "restore"
    BY <1>3 DEF InTransaction
  <2>7. QED
    BY <1>3, <2>1, <2>3, <2>4, <2>5, <2>6, OthersCovered
<1>4. ASSUME NEW c \in Callers, Rollback(c), Answer(c, "error", NoOrder) PROVE LedgerInv'
  <2>1. call'[c].at = "done" /\ \A d \in Callers \ {c} : call'[d] = call[d]
    BY <1>4, AnswerTyped
  <2>2. QED
    BY <1>3, <1>4, <2>1 DEF InTransaction
<1>5. ASSUME NEW c \in Callers, Crash(c) PROVE LedgerInv'
  <2>1. Rollback(c) /\ call' = [call EXCEPT ![c] = Idle]
    BY <1>5 DEF Crash
  <2>2. call'[c].at = "idle" /\ \A d \in Callers \ {c} : call'[d] = call[d]
    BY <2>1, IdleTyped DEF TypeOK
  <2>3. QED
    BY <1>3, <2>1, <2>2 DEF InTransaction
\* The next row.
<1>6. ASSUME NEW c \in Callers, NEW s \in Skus, NEW n \in Nat, TakesRow(c, s, n)
      PROVE  LedgerInv'
  <2>1. \A r \in Skus : Committed(r)' = Committed(r)
    BY <1>6, RowTaken
  <2>2. /\ InTransaction(c) /\ call[c].todo # <<>> /\ s = Head(call[c].todo)
        /\ locked[s] = Nobody /\ locked' = [locked EXCEPT ![s] = c]
        /\ call' = [call EXCEPT ![c].todo = Tail(@)] /\ UNCHANGED orderVars
    BY <1>6 DEF TakesRow
  <2>3. /\ call'[c].at = call[c].at /\ call'[c].body = call[c].body
        /\ call'[c].order = call[c].order /\ call'[c].todo = Tail(call[c].todo)
        /\ \A d \in Callers \ {c} : call'[d] = call[d]
    BY <2>2, TodoTyped DEF TypeOK, Call
  <2>4. \A r \in Skus : Placed(r)' = Placed(r)
    BY <2>2, PlacedKept DEF Held
  <2>5. \A d \in Callers : \A r \in Skus : locked[r] = d => locked'[r] = d
    BY <2>2, CheckoutAssumption DEF TypeOK
  <2>6. TodoCovers(c)'
    <3>1. ASSUME NEW r \in Skus, Quantity[call'[c].body][r] # 0
          PROVE  Contains(call'[c].todo, r) \/ locked'[r] = c
      <4>1. Contains(call[c].todo, r) \/ locked[r] = c
        BY <2>2, <2>3, <3>1 DEF LedgerInv, TodoCovers
      <4>2. call[c].todo \in Seq(Skus)
        BY DEF TypeOK, Call
      <4>3. Contains(call[c].todo, r) => r = s \/ Contains(Tail(call[c].todo), r)
        <5> DEFINE todo == call[c].todo
        <5>1. todo \in Seq(Skus) /\ todo # <<>> /\ s = Head(todo)
          BY <2>2, <4>2
        <5> HIDE DEF todo
        <5>2. ASSUME NEW i \in 1..Len(todo), todo[i] = r, i # 1
              PROVE  i - 1 \in 1..Len(Tail(todo)) /\ Tail(todo)[i - 1] = r
          BY <5>1, <5>2
        <5>3. Contains(todo, r) => r = s \/ Contains(Tail(todo), r)
          BY <5>1, <5>2 DEF Contains
        <5>4. QED
          BY <5>3 DEF todo
      <4>4. locked'[s] = c
        BY <2>2 DEF TypeOK
      <4>5. QED
        BY <2>3, <2>5, <4>1, <4>3, <4>4
    <3>2. QED
      BY <3>1 DEF TodoCovers
  <2>7. call'[c].at = "restore" =>
          /\ orderStatus'[call'[c].order] = "cancelling"
          /\ orderBody'[call'[c].order] = call'[c].body
          /\ \A d \in Callers \ {c} : call[d].at = "restore" => call[d].order # call'[c].order
    BY <2>2, <2>3 DEF LedgerInv
  <2>8. QED
    BY <2>1, <2>2, <2>3, <2>4, <2>5, <2>6, <2>7, OthersCovered
\* A commit: what was taken or given back is what the order holds.
<1>7. ASSUME NEW c \in Callers, InTransaction(c), call[c].todo = <<>>, NEW s \in Skus,
             Unlock(c), UNCHANGED stock, \A d \in Callers \ {c} : call'[d] = call[d]
      PROVE  Committed(s)' = Committed(s) +
               (IF call[c].at = "reserve" THEN -Quantity[call[c].body][s]
                                          ELSE Quantity[call[c].body][s])
  <2>1. Committed(s)' = IF locked[s] = c THEN stock[s] ELSE Committed(s)
    BY <1>7, CommitKeepsRows
  <2>2. Quantity[call[c].body][s] \in Nat
    BY <1>7, FoldsReturn DEF TransactionInv, InTransaction
  <2>3. stock[s] \in Nat /\ Committed(s) \in Nat /\ c # Nobody
    BY CheckoutAssumption DEF TypeOK, TransactionInv
  <2>4. CASE locked[s] = c
    <3>1. Committed(s) = stock[s] - Done(c, s)
      BY <2>3, <2>4 DEF Committed
    <3>2. Done(c, s) = IF call[c].at = "reserve" THEN -Quantity[call[c].body][s]
                                                 ELSE Quantity[call[c].body][s]
      BY <2>4 DEF Done
    <3>3. QED
      BY <2>1, <2>2, <2>3, <2>4, <3>1, <3>2
  <2>5. CASE locked[s] # c
    <3>1. ~Contains(call[c].todo, s)
      BY <1>7 DEF Contains
    <3>2. Quantity[call[c].body][s] = 0
      BY <1>7, <2>5, <3>1 DEF LedgerInv, TodoCovers
    <3>3. QED
      BY <2>1, <2>3, <2>5, <3>2
  <2>6. QED
    BY <2>4, <2>5
<1>8. ASSUME NEW c \in Callers, CommitOrder(c) PROVE LedgerInv'
  <2>1. call[c].at = "reserve" /\ InTransaction(c) /\ call[c].todo = <<>>
        /\ call[c].body \in Bodies
    BY <1>8 DEF CommitOrder, InTransaction, TransactionInv
  <2>2. CASE Rollback(c) /\ call' = [call EXCEPT ![c].at = "reread"]
    <3>1. call'[c].at = "reread" /\ \A d \in Callers \ {c} : call'[d] = call[d]
      BY <2>2 DEF TypeOK, Call
    <3>2. QED
      BY <1>3, <2>2, <3>1 DEF InTransaction
  <2>3. CASE Row(call[c].key) = NoRow
    <3>1. PICK o \in Orders : /\ o = CHOOSE x \in Orders : orderStatus[x] = "absent"
                              /\ orderStatus[o] = "absent"
      BY <2>1, FreshOrder
    <3>2. /\ orderStatus' = [orderStatus EXCEPT ![o] = "open"]
          /\ orderBody' = [orderBody EXCEPT ![o] = call[c].body]
          /\ Unlock(c) /\ Answer(c, "created", o) /\ UNCHANGED stock
      BY <1>8, <2>3, <3>1 DEF CommitOrder, CreateOrderRecord
    <3>3. call'[c].at = "done" /\ \A d \in Callers \ {c} : call'[d] = call[d]
      BY <3>2, AnswerTyped
    <3>4. /\ orderStatus'[o] = "open" /\ orderBody'[o] = call[c].body
          /\ \A p \in Orders \ {o} : /\ orderStatus'[p] = orderStatus[p]
                                     /\ orderBody'[p] = orderBody[p]
      BY <3>2 DEF TypeOK
    <3>5. ASSUME NEW s \in Skus
          PROVE (Committed(s) + Placed(s))' = Committed(s) + Placed(s)
      <4>1. Committed(s)' = Committed(s) + (-Quantity[call[c].body][s])
        BY <1>7, <2>1, <3>2, <3>3
      <4>2. Held(s)[o] = 0 /\ Held(s)'[o] = Quantity[call[c].body][s]
        BY <3>1, <3>4 DEF Held
      <4>3. Placed(s)' = Placed(s) + (Held(s)'[o] - Held(s)[o])
        BY <3>4, PlacedChanges DEF Held
      <4>4. /\ Quantity[call[c].body][s] \in Nat /\ Committed(s) \in Nat
            /\ Placed(s) \in Int
        BY <2>1, FoldsReturn, HeldTyped DEF TransactionInv
      <4>5. QED
        BY <4>1, <4>2, <4>3, <4>4
    <3>6. \A d \in Callers \ {c} : \A s \in Skus : locked[s] = d => locked'[s] = d
      BY <3>2 DEF Unlock
    <3>7. \A d \in Callers \ {c} : call[d].at = "restore" =>
            /\ orderStatus'[call[d].order] = orderStatus[call[d].order]
            /\ orderBody'[call[d].order] = orderBody[call[d].order]
      BY <3>1, <3>4 DEF LedgerInv, TransactionInv
    <3>8. QED
      BY <3>3, <3>5, <3>6, <3>7, OthersCovered DEF InTransaction
  <2>4. QED
    BY <1>8, <2>2, <2>3 DEF CommitOrder
<1>9. ASSUME NEW c \in Callers, CommitCancel(c) PROVE LedgerInv'
  <2>1. /\ call[c].at = "restore" /\ InTransaction(c) /\ call[c].todo = <<>>
        /\ call[c].body \in Bodies
    BY <1>9 DEF CommitCancel, InTransaction, TransactionInv
  <2>2. PICK o \in Orders : o = call[c].order
    BY <2>1 DEF TransactionInv
  <2>3. orderStatus[o] = "cancelling" /\ orderBody[o] = call[c].body
    BY <2>1, <2>2 DEF LedgerInv
  <2>4. /\ orderStatus' = [orderStatus EXCEPT ![o] = "cancelled"] /\ orderBody' = orderBody
        /\ Unlock(c) /\ Answer(c, "cancelled", o) /\ UNCHANGED stock
    BY <1>9, <2>2 DEF CommitCancel
  <2>5. call'[c].at = "done" /\ \A d \in Callers \ {c} : call'[d] = call[d]
    BY <2>4, AnswerTyped
  <2>6. /\ orderStatus'[o] = "cancelled"
        /\ \A p \in Orders \ {o} : orderStatus'[p] = orderStatus[p]
    BY <2>4 DEF TypeOK
  <2>7. ASSUME NEW s \in Skus
        PROVE (Committed(s) + Placed(s))' = Committed(s) + Placed(s)
    <3>1. Committed(s)' = Committed(s) + Quantity[call[c].body][s]
      BY <1>7, <2>1, <2>4, <2>5
    <3>2. Held(s)'[o] = 0 /\ Held(s)[o] = Quantity[call[c].body][s]
      BY <2>3, <2>6 DEF Held
    <3>3. Placed(s)' = Placed(s) + (Held(s)'[o] - Held(s)[o])
      BY <2>4, <2>6, PlacedChanges DEF Held
    <3>4. /\ Quantity[call[c].body][s] \in Nat /\ Committed(s) \in Nat
          /\ Placed(s) \in Int
      BY <2>1, FoldsReturn, HeldTyped DEF TransactionInv
    <3>5. QED
      BY <3>1, <3>2, <3>3, <3>4
  <2>8. \A d \in Callers \ {c} : \A s \in Skus : locked[s] = d => locked'[s] = d
    BY <2>4 DEF Unlock
  <2>9. \A d \in Callers \ {c} : call[d].at = "restore" =>
          /\ orderStatus'[call[d].order] = orderStatus[call[d].order]
          /\ orderBody'[call[d].order] = orderBody[call[d].order]
    <3>1. \A d \in Callers \ {c} : call[d].at = "restore" =>
            call[d].order \in Orders \ {o}
      BY <2>1, <2>2 DEF LedgerInv, TransactionInv
    <3>2. QED
      BY <2>4, <2>6, <3>1
  <2>10. QED
    BY <2>5, <2>7, <2>8, <2>9, OthersCovered DEF InTransaction
<1>10. ASSUME NEW c \in Callers, NEW o \in Orders, BeginCancel(c, o) PROVE LedgerInv'
  <2>1. /\ call[c].at = "idle" /\ orderStatus[o] = "open" /\ orderBody[o] \in Bodies
        /\ orderStatus' = [orderStatus EXCEPT ![o] = "cancelling"]
        /\ UNCHANGED <<stock, locked, orderBody>>
    BY <1>10 DEF BeginCancel, TransactionInv
  <2>2. PICK items \in SetToSeqs(Range(SkusOf[orderBody[o]])) :
          call' = [call EXCEPT ![c] = [Idle EXCEPT !.at = "restore", !.order = o,
                                         !.body = orderBody[o], !.todo = items]]
    BY <1>10 DEF BeginCancel
  <2>3. /\ call'[c].at = "restore" /\ call'[c].order = o
        /\ call'[c].body = orderBody[o] /\ call'[c].todo = items
        /\ \A d \in Callers \ {c} : call'[d] = call[d]
    BY <2>2 DEF Idle, TypeOK
  <2>4. /\ orderStatus'[o] = "cancelling"
        /\ \A p \in Orders \ {o} : orderStatus'[p] = orderStatus[p]
    BY <2>1 DEF TypeOK
  <2>5. \A s \in Skus : Committed(s)' = Committed(s)
    BY <2>1, <2>3, CommittedKept DEF InTransaction
  <2>6. \A s \in Skus : Placed(s)' = Placed(s)
    BY <2>1, <2>4, PlacedKept DEF Held
  <2>7. \A d \in Callers : call[d].at = "restore" => call[d].order \in Orders \ {o}
    BY <2>1 DEF LedgerInv, TransactionInv
  <2>8. TodoCovers(c)'
    BY <2>1, <2>3, FoldsReturn, AllOfThem DEF TodoCovers
  <2>9. QED
    BY <2>1, <2>3, <2>4, <2>5, <2>6, <2>7, <2>8, OthersCovered
<1>11. ASSUME NEW c \in Callers, RefuseLines(c) \/ DeadlockAbort(c) PROVE LedgerInv'
  BY <1>4, <1>11 DEF RefuseLines, DeadlockAbort
<1>12. ASSUME NEW c \in Callers, ReduceProductStock(c) \/ RestoreProductStock(c)
       PROVE  LedgerInv'
  BY <1>4, <1>6, <1>12, ReduceTakesRow, RestoreTakesRow
<1>13. ASSUME NEW c \in Callers, RereadKey(c) \/ Respond(c) PROVE LedgerInv'
  <2>1. /\ ~InTransaction(c) /\ UNCHANGED <<stock, locked, orderVars>>
        /\ call'[c].at \in {"done", "idle"} /\ \A d \in Callers \ {c} : call'[d] = call[d]
    <3>1. CASE RereadKey(c)
      <4>1. keyRow[call[c].key].order \in Orders \cup {NoOrder}
        BY <3>1 DEF RereadKey, TransactionInv, TypeOK
      <4>2. QED
        BY <3>1, <4>1, AnswerTyped DEF RereadKey, InTransaction
    <3>2. CASE Respond(c)
      BY <3>2, IdleTyped DEF Respond, InTransaction, TypeOK
    <3>3. QED
      BY <1>13, <3>1, <3>2
  <2>2. QED
    BY <1>1, <2>1 DEF InTransaction
<1>14. ASSUME UNCHANGED <<stock, locked, orderStatus, orderBody, call>> PROVE LedgerInv'
  <2>1. \A s \in Skus : Placed(s)' = Placed(s)
    BY <1>14, PlacedKept DEF Held
  <2>2. QED
    BY <1>14, <2>1 DEF LedgerInv, TodoCovers, InTransaction, Committed, Done
<1>15. QED
  BY <1>2, <1>5, <1>8, <1>9, <1>10, <1>11, <1>12, <1>13, <1>14
     DEF Next, Progress, PruneIdempotencyKey

\* Nothing is sold twice or lost, whichever transactions roll back, collide on
\* a key, deadlock or crash: the committed stock of a SKU and what open orders
\* hold of it make up what the shop began with.
THEOREM StockIsConserved == Spec => []StockConserved
<1>1. ASSUME Init PROVE LedgerInv
  <2>1. \A c \in Callers : call[c].at = "idle"
    BY <1>1, IdleTyped DEF Init
  <2>2. ASSUME NEW s \in Skus PROVE Committed(s) + Placed(s) = InitialStock[s]
    <3>1. Held(s) \in [Orders -> {0}]
      BY <1>1 DEF Init, Held
    <3>2. Placed(s) = 0
      BY <3>1, CheckoutAssumption, SumOfZeros DEF Placed
    <3>3. Committed(s) = InitialStock[s] - 0
      BY <1>1 DEF Init, Committed
    <3>4. InitialStock[s] \in Nat
      BY CheckoutAssumption
    <3>5. QED
      BY <3>2, <3>3, <3>4
  <2>3. QED
    BY <2>1, <2>2 DEF LedgerInv, InTransaction
<1>2. TypeInv /\ LedgerInv => StockConserved
  BY DEF TypeInv, TransactionInv, LedgerInv, StockConserved
<1>3. QED
  BY <1>1, <1>2, InitTyped, TypeInvStep, LedgerStep, PTL DEF Spec

-----------------------------------------------------------------------------
(* Rows are taken in the order of the body *)

\* What a checkout holds is named before what it still has to take, and that
\* stands in the order of the body.
TakesInOrder(c) ==
  call[c].at = "reserve" =>
    /\ \A i, j \in DOMAIN call[c].todo :
         i < j => Before(c, call[c].todo[i], call[c].todo[j])
    /\ \A s \in Skus : locked[s] = c =>
         \A j \in DOMAIN call[c].todo : Before(c, s, call[c].todo[j])

LinesInv == \A c \in Callers : TakesInOrder(c)

\* A step of c that takes no row from the others leaves them in order.
LEMMA OthersInOrder ==
  ASSUME LinesInv, NEW c, \A d \in Callers \ {c} : call'[d] = call[d],
         \A s \in Skus, d \in Callers \ {c} : locked'[s] = d => locked[s] = d
  PROVE  \A d \in Callers \ {c} : TakesInOrder(d)'
<1> SUFFICES ASSUME NEW d \in Callers \ {c} PROVE TakesInOrder(d)'
  OBVIOUS
<1>1. TakesInOrder(d) /\ call'[d] = call[d]
  BY DEF LinesInv
<1>2. \A s, t : Before(d, s, t)' <=> Before(d, s, t)
  BY <1>1 DEF Before
<1>3. QED
  BY <1>1, <1>2 DEF TakesInOrder

\* A checkout that has not begun holds no row, and takes the rows of its body.
LEMMA BeginsInOrder ==
  ASSUME TypeInv, NEW c \in Callers, NEW b \in Bodies, call[c].at = "idle",
         UNCHANGED locked, call'[c].body = b, call'[c].todo = SkusOf[b]
  PROVE  TakesInOrder(c)'
<1>1. \A s \in Skus : locked'[s] # c
  BY CheckoutAssumption DEF TypeInv, TransactionInv, RowsHeld, InTransaction
<1>2. \A i, j \in DOMAIN call'[c].todo :
        i < j => Before(c, call[c].todo[i], call[c].todo[j])'
  BY DEF Before
<1>3. QED
  BY <1>1, <1>2 DEF TakesInOrder

\* A checkout that takes the first of the rows that it has still to take stays
\* in order.
LEMMA TakingInOrder ==
  ASSUME TypeInv, NEW c \in Callers, NEW s \in Skus, NEW n \in Nat,
         TakesRow(c, s, n), TakesInOrder(c)
  PROVE  TakesInOrder(c)'
<1> SUFFICES ASSUME call'[c].at = "reserve" PROVE TakesInOrder(c)'
  BY DEF TakesInOrder
<1>1. /\ call'[c].body = call[c].body /\ call[c].at = "reserve"
      /\ call[c].todo \in Seq(Skus) /\ call[c].todo # <<>>
      /\ call'[c].todo = Tail(call[c].todo) /\ s = Head(call[c].todo)
      /\ locked' = [locked EXCEPT ![s] = c] /\ locked \in [Skus -> Callers \cup {Nobody}]
  BY TodoTyped DEF TypeInv, TypeOK, TakesRow, Call
<1>2. \A r, t : Before(c, r, t)' <=> Before(c, r, t)
  BY <1>1 DEF Before
<1>3. PICK todo \in Seq(Skus) : todo = call[c].todo
  BY <1>1
<1>4. /\ 1 \in DOMAIN todo /\ s = todo[1]
      /\ \A j \in DOMAIN Tail(todo) : /\ j + 1 \in DOMAIN todo /\ 1 < j + 1
                                      /\ Tail(todo)[j] = todo[j + 1]
      /\ \A j \in DOMAIN Tail(todo) : j \in Nat
  BY <1>1, <1>3
<1>5. ASSUME NEW i \in DOMAIN Tail(todo), NEW j \in DOMAIN Tail(todo), i < j
      PROVE  Before(c, Tail(todo)[i], Tail(todo)[j])
  <2>1. i + 1 < j + 1
    BY <1>4, <1>5
  <2>2. QED
    BY <1>1, <1>3, <1>4, <2>1 DEF TakesInOrder
<1>6. ASSUME NEW r \in Skus, locked'[r] = c, NEW j \in DOMAIN Tail(todo)
      PROVE  Before(c, r, Tail(todo)[j])
  <2>1. CASE r = s
    BY <1>1, <1>3, <1>4, <2>1 DEF TakesInOrder
  <2>2. CASE r # s
    BY <1>1, <1>3, <1>4, <1>6, <2>2 DEF TakesInOrder
  <2>3. QED
    BY <2>1, <2>2
<1>7. QED
  BY <1>1, <1>2, <1>3, <1>5, <1>6 DEF TakesInOrder

LEMMA LinesInvStep ==
  TypeInv /\ RoomInv /\ LinesInv /\ [Next]_vars => LinesInv'
<1> SUFFICES ASSUME TypeInv, RoomInv, LinesInv, [Next]_vars PROVE LinesInv'
  OBVIOUS
<1> TypeOK /\ TransactionInv
  BY DEF TypeInv
<1>1. ASSUME NEW c \in Callers, \A d \in Callers \ {c} : call'[d] = call[d],
             \A s \in Skus, d \in Callers \ {c} : locked'[s] = d => locked[s] = d,
             TakesInOrder(c)'
      PROVE  LinesInv'
  BY <1>1, OthersInOrder DEF LinesInv
<1>2. ASSUME NEW c \in Callers, \A d \in Callers \ {c} : call'[d] = call[d],
             Unlock(c) \/ UNCHANGED locked, call'[c].at # "reserve"
      PROVE  LinesInv'
  <2>1. \A s \in Skus, d \in Callers \ {c} : locked'[s] = d => locked[s] = d
    BY <1>2, CheckoutAssumption DEF Unlock
  <2>2. QED
    BY <1>1, <1>2, <2>1 DEF TakesInOrder
<1>3. ASSUME NEW c \in Callers, NEW s \in Skus, NEW n \in Nat, TakesRow(c, s, n)
      PROVE  LinesInv'
  <2>1. TakesInOrder(c)'
    BY <1>3, TakingInOrder DEF LinesInv
  <2>2. /\ \A d \in Callers \ {c} : call'[d] = call[d]
        /\ \A r \in Skus, d \in Callers \ {c} : locked'[r] = d => locked[r] = d
    BY <1>3, TodoTyped DEF TakesRow, TypeOK
  <2>3. QED
    BY <1>1, <2>1, <2>2
<1>4. ASSUME NEW c \in Callers, NEW o \in Orders \cup {NoOrder},
             NEW answer \in {"created", "replayed", "mismatch", "cancelled", "error"},
             Answer(c, answer, o), Unlock(c) \/ UNCHANGED locked
      PROVE  LinesInv'
  <2>1. call'[c].at = "done" /\ \A d \in Callers \ {c} : call'[d] = call[d]
    BY <1>4, AnswerTyped
  <2>2. QED
    BY <1>2, <1>4, <2>1
<1>5. ASSUME NEW c \in Callers, call' = [call EXCEPT ![c] = Idle],
             Unlock(c) \/ UNCHANGED locked
      PROVE  LinesInv'
  BY <1>2, <1>5, IdleTyped DEF TypeOK
<1>6. ASSUME NEW c \in Callers, NEW b \in Bodies, NEW k \in Keys \cup {NoKey},
             BeginCheckout(c, b, k)
      PROVE  LinesInv'
  <2>1. call[c].at = "idle" /\ UNCHANGED locked
    BY <1>6 DEF BeginCheckout
  <2>2. /\ \A d \in Callers \ {c} : call'[d] = call[d]
        /\ \/ call'[c].at = "done"
           \/ call'[c].body = b /\ call'[c].todo = SkusOf[b]
    <3>1. PICK o, answer :
            /\ o = IF Row(k).hash = BodyHash[b] THEN Row(k).order ELSE NoOrder
            /\ answer = IF Row(k).hash = BodyHash[b] THEN "replayed" ELSE "mismatch"
      OBVIOUS
    <3>2. PICK begun, over :
            /\ begun = [Idle EXCEPT !.at = "reserve", !.body = b, !.key = k,
                                    !.todo = SkusOf[b]]
            /\ over = [Idle EXCEPT !.at = "done", !.body = b, !.key = k,
                                   !.order = o, !.answer = answer]
      OBVIOUS
    <3>3. begun.body = b /\ begun.todo = SkusOf[b] /\ over.at = "done"
      BY <3>2 DEF Idle
    <3>4. call' = [call EXCEPT ![c] = begun] \/ call' = [call EXCEPT ![c] = over]
      BY <1>6, <3>1, <3>2 DEF BeginCheckout
    <3>5. QED
      BY <3>3, <3>4 DEF TypeOK
  <2>3. TakesInOrder(c)'
    <3>1. CASE call'[c].at = "done"
      BY <3>1 DEF TakesInOrder
    <3>2. CASE call'[c].body = b /\ call'[c].todo = SkusOf[b]
      BY <2>1, <3>2, BeginsInOrder
    <3>3. QED
      BY <2>2, <3>1, <3>2
  <2>4. QED
    BY <1>1, <2>1, <2>2, <2>3
<1>7. ASSUME NEW c \in Callers, NEW o \in Orders, BeginCancel(c, o) PROVE LinesInv'
  <2>1. /\ call'[c].at = "restore" /\ UNCHANGED locked
        /\ \A d \in Callers \ {c} : call'[d] = call[d]
    BY <1>7 DEF BeginCancel, TypeOK, Idle
  <2>2. QED
    BY <1>2, <2>1
<1>8. ASSUME NEW c \in Callers, ReduceProductStock(c) PROVE LinesInv'
  BY <1>3, <1>4, <1>8, ReduceTakesRow DEF Rollback
<1>9. ASSUME NEW c \in Callers, RestoreProductStock(c) PROVE LinesInv'
  BY <1>3, <1>9, RestoreTakesRow
<1>10. ASSUME NEW c \in Callers, CommitOrder(c) PROVE LinesInv'
  <2>1. call[c].at = "reserve"
    BY <1>10 DEF CommitOrder
  <2>2. PICK o \in Orders : o = CHOOSE x \in Orders : orderStatus[x] = "absent"
    BY <2>1, FreshOrder
  <2>3. \/ Answer(c, "created", o) /\ Unlock(c)
        \/ Rollback(c) /\ call' = [call EXCEPT ![c].at = "reread"]
    BY <1>10, <2>2 DEF CommitOrder
  <2>4. CASE Answer(c, "created", o) /\ Unlock(c)
    BY <1>4, <2>4
  <2>5. CASE Rollback(c) /\ call' = [call EXCEPT ![c].at = "reread"]
    <3>1. call'[c].at = "reread" /\ \A d \in Callers \ {c} : call'[d] = call[d]
      BY <2>5 DEF TypeOK, Call
    <3>2. QED
      BY <1>2, <2>5, <3>1 DEF Rollback
  <2>6. QED
    BY <2>3, <2>4, <2>5
<1>11. ASSUME NEW c \in Callers, RereadKey(c) PROVE LinesInv'
  <2>1. call[c].key \in Keys
    BY <1>11 DEF RereadKey, TransactionInv
  <2>2. keyRow[call[c].key].order \in Orders \cup {NoOrder}
    BY <2>1 DEF TypeOK
  <2>3. QED
    BY <1>4, <1>11, <2>2 DEF RereadKey
<1>12. ASSUME NEW c \in Callers, CommitCancel(c) PROVE LinesInv'
  BY <1>4, <1>12 DEF CommitCancel, TransactionInv
<1>13. ASSUME NEW c \in Callers, RefuseLines(c) \/ DeadlockAbort(c) PROVE LinesInv'
  BY <1>4, <1>13 DEF RefuseLines, DeadlockAbort, Rollback
<1>14. ASSUME NEW c \in Callers, Crash(c) \/ Respond(c) PROVE LinesInv'
  BY <1>5, <1>14 DEF Crash, Respond, Rollback
<1>15. CASE UNCHANGED <<locked, call>>
  BY <1>15 DEF LinesInv, TakesInOrder, Before
<1>16. QED
  BY <1>6, <1>7, <1>8, <1>9, <1>10, <1>11, <1>12, <1>13, <1>14, <1>15
     DEF Next, Progress, PruneIdempotencyKey

\* Checkouts whose bodies name the SKUs in one order never wait for each other
\* in a circle: every circle that the database has to break has checkouts in
\* it that name SKUs in opposite orders, or a cancel.
THEOREM OneOrderNoDeadlock == Spec => []DeadlockNeedsOppositeOrders
<1>1. Init => LinesInv
  BY IdleTyped DEF Init, LinesInv, TakesInOrder
<1>2. ASSUME TypeInv, LinesInv PROVE DeadlockNeedsOppositeOrders
  <2> SUFFICES ASSUME NEW S \in SUBSET {c \in Callers : call[c].at = "reserve"},
                      Circle(S), NamedInOneOrder(S)
               PROVE  FALSE
    BY DEF DeadlockNeedsOppositeOrders
  <2>1. ASSUME NEW c \in S
        PROVE  /\ call[c].at = "reserve" /\ c \in Callers
               /\ Head(call[c].todo) \in Skus /\ call[c].todo # <<>>
               /\ 1 \in DOMAIN call[c].todo /\ Head(call[c].todo) = call[c].todo[1]
               /\ locked[Head(call[c].todo)] \in S
    <3>1. WaitsFor(c) \in S /\ c \in Callers /\ call[c].at = "reserve"
      BY DEF Circle
    <3>2. WaitsFor(c) # Nobody
      BY <3>1, CheckoutAssumption
    <3>3. call[c].todo # <<>> /\ WaitsFor(c) = locked[Head(call[c].todo)]
      BY <3>2 DEF WaitsFor
    <3>4. call[c].todo \in Seq(Skus)
      BY <1>2, <3>1 DEF TypeInv, TypeOK, Call
    <3>5. QED
      BY <3>1, <3>3, <3>4
  <2> DEFINE T == {Head(call[c].todo) : c \in S}
  <2>2. T \in (SUBSET Skus) \ {{}}
    <3>1. PICK c \in S : TRUE
      BY DEF Circle
    <3>2. Head(call[c].todo) \in T
      OBVIOUS
    <3>3. T \subseteq Skus
      BY <2>1
    <3>4. QED
      BY <3>2, <3>3
  <2>3. PICK s \in T : \A c \in S, t \in T : ~Before(c, s, t)
    <3> HIDE DEF T
    <3>1. QED
      BY <2>2 DEF NamedInOneOrder
  <2>4. PICK d \in S : s = Head(call[d].todo)
    OBVIOUS
  <2>5. PICK e \in S : locked[s] = e /\ s \in Skus
    BY <2>1, <2>4
  <2>6. Before(e, s, Head(call[e].todo))
    BY <1>2, <2>1, <2>5 DEF LinesInv, TakesInOrder
  <2>7. QED
    BY <2>3, <2>6
<1>3. QED
  BY <1>1, <1>2, InitTyped, TypeInvStep, LinesInvStep, PTL DEF Spec
=============================================================================
