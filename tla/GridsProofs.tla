----------------------------- MODULE GridsProofs -----------------------------
(* Proofs about the parts beside pricing that only compute: an investigation *)
(* confirms nothing that the case's own sales do not support (Investigation),*)
(* an incremental ingest leaves what a rebuild would leave, and what is      *)
(* quoted of a long section is the section (Knowledge).                      *)
EXTENDS Investigation, Knowledge, FiniteSetTheorems, SequenceTheorems, TLAPS

------------------------------------------------------------------------------
(* Induction over finite sets, and the fold of the community modules         *)

\* What holds of a subset whenever it holds of its proper subsets holds of all.
LEMMA SubsetInduction ==
    ASSUME NEW S, IsFiniteSet(S), NEW Q,
           \A t \in SUBSET S : (\A u \in SUBSET t : u # t => u \in Q) => t \in Q
    PROVE  SUBSET S \subseteq Q
  <1>. DEFINE bad == {t \in SUBSET S : t \notin Q}
  <1>1. SUFFICES ASSUME bad # {} PROVE FALSE
    OBVIOUS
  <1>2. IsWellFoundedOn(StrictSubsetOrdering(S), SUBSET S)
    BY FS_StrictSubsetOrderingWellFounded, FS_FiniteSubsetsOfFinite
  <1>3. PICK t \in bad : \A u \in bad : <<u, t>> \notin StrictSubsetOrdering(S)
    <2>1. bad \subseteq SUBSET S
      OBVIOUS
    <2>. HIDE DEF bad
    <2>. QED  BY <1>1, <1>2, <2>1, WFMin
  <1>4. ASSUME NEW u \in SUBSET t, u # t PROVE u \in Q
    <2>1. u \in SUBSET S /\ t \in SUBSET S
      OBVIOUS
    <2>2. <<u, t>> \in StrictSubsetOrdering(S)
      BY <1>4, <2>1 DEF StrictSubsetOrdering
    <2>. QED  BY <1>3, <2>1, <2>2
  <1>. QED  BY <1>4

\* A non-empty set of numbers has a least element.
LEMMA LeastNumber ==
    ASSUME NEW T, T \subseteq Nat, T # {}
    PROVE  \E x \in T : \A y \in T : x <= y
  <1>1. PICK x \in T : \A y \in T : ~ (<<y, x>> \in OpToRel(<, Nat))
    BY NatLessThanWellFounded, WFMin
  <1>2. ASSUME NEW y \in T, y < x PROVE FALSE
    BY <1>1, <1>2 DEF OpToRel
  <1>3. \A y \in T : y \in Nat /\ x \in Nat
    OBVIOUS
  <1>. QED  BY <1>2, <1>3

\* g is the fold of op over the subsets of S in the order of pick.
Folds(g, S, V, base, op, pick) ==
    \A t \in SUBSET S :
        /\ t = {} => g[t] = base
        /\ t # {} /\ g[t \ {pick[t]}] \in V => g[t] = op[<<pick[t], g[t \ {pick[t]}]>>]

FoldInputs(S, V, base, op, pick) ==
    /\ IsFiniteSet(S) /\ base \in V /\ op \in [S \X V -> V]
    /\ \A t \in SUBSET S : t # {} => pick[t] \in t

\* A fold has values in V.
LEMMA FoldTyped ==
    ASSUME NEW S, NEW V, NEW base, NEW op, NEW pick, FoldInputs(S, V, base, op, pick),
           NEW g, Folds(g, S, V, base, op, pick)
    PROVE  \A t \in SUBSET S : g[t] \in V
  <1>. DEFINE Q == {t \in SUBSET S : g[t] \in V}
  <1>1. ASSUME NEW t \in SUBSET S, \A u \in SUBSET t : u # t => u \in Q PROVE t \in Q
    <2>1. CASE t = {}
      BY <2>1 DEF Folds, FoldInputs
    <2>2. CASE t # {}
      <3>1. pick[t] \in t /\ pick[t] \in S
        BY <2>2 DEF FoldInputs
      <3>2. t \ {pick[t]} \in SUBSET t /\ t \ {pick[t]} # t
        BY <3>1
      <3>3. g[t \ {pick[t]}] \in V
        BY <1>1, <3>2
      <3>. QED  BY <2>2, <3>1, <3>3 DEF Folds, FoldInputs
    <2>. QED  BY <2>1, <2>2
  <1>2. SUBSET S \subseteq Q
    <2>. HIDE DEF Q
    <2>. QED  BY <1>1, SubsetInduction DEF FoldInputs
  <1>. QED  BY <1>2

IsFold(g, S, V, base, op, pick) ==
    /\ g \in [SUBSET S -> V]
    /\ \A t \in SUBSET S : g[t] = IF t = {} THEN base ELSE op[<<pick[t], g[t \ {pick[t]}]>>]

\* There is one.
LEMMA FoldExists ==
    ASSUME NEW S, NEW V, NEW base, NEW op, NEW pick, FoldInputs(S, V, base, op, pick)
    PROVE  \E g : IsFold(g, S, V, base, op, pick)
  <1>. DEFINE Of(g, t) == IF t = {} THEN base ELSE op[<<pick[t], g[t \ {pick[t]}]>>]
              E(n) == \E g \in [SUBSET S -> V] : \A t \in SUBSET S : Cardinality(t) <= n => g[t] = Of(g, t)
              bad == {n \in Nat : ~E(n)}
  <1>1. \A t \in SUBSET S : IsFiniteSet(t) /\ Cardinality(t) \in Nat /\ Cardinality(t) <= Cardinality(S)
    BY FS_Subset, FS_CardinalityType DEF FoldInputs
  <1>2. ASSUME NEW t \in SUBSET S, t # {}
        PROVE  /\ pick[t] \in S /\ t \ {pick[t]} \in SUBSET S
               /\ Cardinality(t \ {pick[t]}) = Cardinality(t) - 1
    BY <1>1, <1>2, FS_RemoveElement DEF FoldInputs
  <1>3. ASSUME NEW g \in [SUBSET S -> V], NEW t \in SUBSET S PROVE Of(g, t) \in V
    BY <1>2 DEF FoldInputs
  <1>4. E(0)
    <2>. DEFINE g == [t \in SUBSET S |-> base]
    <2>1. g \in [SUBSET S -> V]
      BY DEF FoldInputs
    <2>2. ASSUME NEW t \in SUBSET S, Cardinality(t) <= 0 PROVE g[t] = Of(g, t)
      <3>1. t = {}
        BY <1>1, <2>2, FS_EmptySet
      <3>. QED  BY <3>1
    <2>. QED  BY <2>1, <2>2
  <1>5. ASSUME NEW n \in Nat, E(n) PROVE E(n + 1)
    <2>1. PICK g \in [SUBSET S -> V] : \A t \in SUBSET S : Cardinality(t) <= n => g[t] = Of(g, t)
      BY <1>5
    <2>. DEFINE h == [t \in SUBSET S |-> IF Cardinality(t) <= n THEN g[t] ELSE Of(g, t)]
    <2>2. h \in [SUBSET S -> V]
      BY <1>3
    <2>3. ASSUME NEW t \in SUBSET S, Cardinality(t) <= n + 1 PROVE h[t] = Of(h, t)
      <3>1. CASE t = {}
        <4>1. Cardinality(t) <= n
          BY <3>1, FS_EmptySet
        <4>. QED  BY <2>1, <3>1, <4>1
      <3>2. CASE t # {}
        <4>1. Cardinality(t \ {pick[t]}) <= n /\ t \ {pick[t]} \in SUBSET S
          BY <1>1, <1>2, <2>3, <3>2
        <4>2. h[t \ {pick[t]}] = g[t \ {pick[t]}]
          BY <4>1
        <4>3. h[t] = Of(g, t)
          BY <2>1
        <4>. QED  BY <3>2, <4>2, <4>3
      <3>. QED  BY <3>1, <3>2
    <2>. HIDE DEF h, Of
    <2>. QED  BY <2>2, <2>3
  <1>6. bad = {}
    <2>. HIDE DEF E
    <2>1. SUFFICES ASSUME bad # {} PROVE FALSE
      OBVIOUS
    <2>2. PICK m \in bad : \A k \in bad : m <= k
      <3>1. bad \subseteq Nat
        OBVIOUS
      <3>. HIDE DEF bad
      <3>. QED  BY <2>1, <3>1, LeastNumber
    <2>3. m \in Nat /\ ~E(m) /\ m # 0
      BY <1>4
    <2>4. m - 1 \in Nat /\ m - 1 \notin bad /\ (m - 1) + 1 = m
      BY <2>2, <2>3
    <2>5. E(m - 1)
      BY <2>4
    <2>6. E((m - 1) + 1)
      BY <1>5, <2>4, <2>5
    <2>. QED  BY <2>3, <2>4, <2>6
  <1>7. E(Cardinality(S))
    <2>. HIDE DEF E
    <2>. QED  BY <1>1, <1>6
  <1>8. PICK g \in [SUBSET S -> V] : \A t \in SUBSET S : g[t] = Of(g, t)
    <2>. HIDE DEF Of
    <2>. QED  BY <1>1, <1>7
  <1>. QED  BY <1>8 DEF IsFold

------------------------------------------------------------------------------
(* Sums over finite sets                                                     *)

Pick(t) == CHOOSE x \in t : TRUE

\* g sums h over the subsets of S.
Sums(g, S, h) == \A t \in SUBSET S : g[t] = IF t = {} THEN 0 ELSE h[Pick(t)] + g[t \ {Pick(t)}]

\* A sum of integers is one.
LEMMA SumTyped ==
    ASSUME NEW S, IsFiniteSet(S), NEW h \in [S -> Int], NEW g, Sums(g, S, h)
    PROVE  \A t \in SUBSET S : g[t] \in Int
  <1>. DEFINE Q == {t \in SUBSET S : g[t] \in Int}
  <1>1. ASSUME NEW t \in SUBSET S, \A u \in SUBSET t : u # t => u \in Q PROVE t \in Q
    <2>1. CASE t # {}
      <3>1. Pick(t) \in t
        BY <2>1 DEF Pick
      <3>2. g[t \ {Pick(t)}] \in Int /\ h[Pick(t)] \in Int
        BY <1>1, <3>1
      <3>3. g[t] = h[Pick(t)] + g[t \ {Pick(t)}]
        BY <2>1 DEF Sums
      <3>. QED  BY <3>2, <3>3
    <2>. QED  BY <2>1 DEF Sums
  <1>2. SUBSET S \subseteq Q
    <2>. HIDE DEF Q
    <2>. QED  BY <1>1, SubsetInduction
  <1>. QED  BY <1>2

\* A sum may be taken in any order.
LEMMA SumInAnyOrder ==
    ASSUME NEW S, IsFiniteSet(S), NEW h \in [S -> Int], NEW g, Sums(g, S, h)
    PROVE  \A t \in SUBSET S : \A x \in t : g[t] = h[x] + g[t \ {x}]
  <1>. DEFINE Q == {t \in SUBSET S : \A x \in t : g[t] = h[x] + g[t \ {x}]}
  <1>1. ASSUME NEW t \in SUBSET S, \A u \in SUBSET t : u # t => u \in Q PROVE t \in Q
    <2>. SUFFICES ASSUME NEW x \in t PROVE g[t] = h[x] + g[t \ {x}]
      OBVIOUS
    <2>. DEFINE y == Pick(t)
                rest == t \ {x, y}
    <2>1. y \in t /\ x \in S /\ y \in S
      BY DEF Pick
    <2>2. g[t] = h[y] + g[t \ {y}]
      BY DEF Sums
    <2>. HIDE DEF y
    <2>3. CASE x # y
      <3>1. t \ {y} \in Q /\ t \ {x} \in Q
        BY <1>1, <2>1
      <3>2. (t \ {y}) \ {x} = rest /\ (t \ {x}) \ {y} = rest /\ x \in t \ {y} /\ y \in t \ {x}
        BY <2>1, <2>3
      <3>3. g[t \ {y}] = h[x] + g[rest] /\ g[t \ {x}] = h[y] + g[rest]
        BY <3>1, <3>2
      <3>4. g[rest] \in Int /\ h[x] \in Int /\ h[y] \in Int
        BY <2>1, SumTyped
      <3>. HIDE DEF rest, Q
      <3>. QED  BY <2>2, <3>3, <3>4
    <2>. QED  BY <2>2, <2>3
  <1>2. SUBSET S \subseteq Q
    <2>. HIDE DEF Q
    <2>. QED  BY <1>1, SubsetInduction
  <1>. QED  BY <1>2

\* A sum of what is not negative grows with the set.
LEMMA SumGrows ==
    ASSUME NEW S, IsFiniteSet(S), NEW h \in [S -> Int], \A x \in S : h[x] >= 0, NEW g, Sums(g, S, h)
    PROVE  \A t \in SUBSET S : \A u \in SUBSET t : g[u] <= g[t]
  <1>. DEFINE Q == {t \in SUBSET S : \A u \in SUBSET t : g[u] <= g[t]}
  <1>1. ASSUME NEW t \in SUBSET S, \A u \in SUBSET t : u # t => u \in Q PROVE t \in Q
    <2>. SUFFICES ASSUME NEW u \in SUBSET t PROVE g[u] <= g[t]
      OBVIOUS
    <2>0. g[t] \in Int /\ g[u] \in Int
      BY SumTyped
    <2>1. CASE u = t
      BY <2>0, <2>1
    <2>2. CASE u # t
      <3>1. PICK x \in t : x \notin u
        BY <2>2
      <3>2. t \ {x} \in Q /\ u \in SUBSET (t \ {x})
        BY <1>1, <3>1
      <3>3. g[u] <= g[t \ {x}]
        BY <3>2
      <3>4. g[t] = h[x] + g[t \ {x}]
        BY SumInAnyOrder
      <3>5. h[x] \in Int /\ h[x] >= 0 /\ g[t \ {x}] \in Int
        BY SumTyped
      <3>. HIDE DEF Q
      <3>. QED  BY <2>0, <3>3, <3>4, <3>5
    <2>. QED  BY <2>1, <2>2
  <1>2. SUBSET S \subseteq Q
    <2>. HIDE DEF Q
    <2>. QED  BY <1>1, SubsetInduction
  <1>. QED  BY <1>2

\* The sum over a subset does not depend on the set it is a part of.
LEMMA SumOfPart ==
    ASSUME NEW S, IsFiniteSet(S), NEW T \in SUBSET S, NEW h, NEW f,
           NEW g, Sums(g, S, h), NEW e, Sums(e, T, f), \A x \in T : h[x] = f[x]
    PROVE  e[T] = g[T]
  <1>. DEFINE Q == {t \in SUBSET T : e[t] = g[t]}
  <1>1. ASSUME NEW t \in SUBSET T, \A u \in SUBSET t : u # t => u \in Q PROVE t \in Q
    <2>1. CASE t = {}
      BY <2>1 DEF Sums
    <2>2. CASE t # {}
      <3>1. Pick(t) \in t /\ t \in SUBSET S
        BY <2>2 DEF Pick
      <3>2. t \ {Pick(t)} \in Q
        BY <1>1, <3>1
      <3>3. e[t] = f[Pick(t)] + e[t \ {Pick(t)}] /\ g[t] = h[Pick(t)] + g[t \ {Pick(t)}]
        BY <2>2, <3>1 DEF Sums
      <3>. QED  BY <3>1, <3>2, <3>3
    <2>. QED  BY <2>1, <2>2
  <1>2. IsFiniteSet(T)
    BY FS_Subset
  <1>3. SUBSET T \subseteq Q
    <2>. HIDE DEF Q
    <2>. QED  BY <1>1, <1>2, SubsetInduction
  <1>. QED  BY <1>3

IsSum(g, S, h) == g = [t \in SUBSET S |-> IF t = {} THEN 0 ELSE h[Pick(t)] + g[t \ {Pick(t)}]]

\* Every finite set has sums.
LEMMA SumsExist ==
    ASSUME NEW S, IsFiniteSet(S), NEW h \in [S -> Int]
    PROVE  \E g : IsSum(g, S, h)
  <1>. DEFINE op == [p \in S \X Int |-> h[p[1]] + p[2]]
              pick == [t \in SUBSET S |-> Pick(t)]
  <1>1. \A t \in SUBSET S : t # {} => pick[t] \in t /\ pick[t] = Pick(t)
    BY DEF Pick
  <1>2. FoldInputs(S, Int, 0, op, pick)
    <2>1. op \in [S \X Int -> Int]
      OBVIOUS
    <2>. HIDE DEF op, pick
    <2>. QED  BY <1>1, <2>1 DEF FoldInputs
  <1>3. PICK g : IsFold(g, S, Int, 0, op, pick)
    <2>. HIDE DEF op, pick
    <2>. QED  BY <1>2, FoldExists
  <1>4. ASSUME NEW t \in SUBSET S, t # {}
        PROVE  op[<<pick[t], g[t \ {pick[t]}]>>] = h[Pick(t)] + g[t \ {Pick(t)}]
    <2>1. Pick(t) \in S /\ pick[t] = Pick(t) /\ g[t \ {Pick(t)}] \in Int
      BY <1>1, <1>3, <1>4 DEF IsFold
    <2>. QED  BY <2>1
  <1>5. \A t \in SUBSET S : g[t] = IF t = {} THEN 0 ELSE h[Pick(t)] + g[t \ {Pick(t)}]
    <2>. HIDE DEF op, pick
    <2>. QED  BY <1>3, <1>4 DEF IsFold
  <1>6. g = [t \in SUBSET S |-> IF t = {} THEN 0 ELSE h[Pick(t)] + g[t \ {Pick(t)}]]
    BY <1>3, <1>5 DEF IsFold
  <1>. QED  BY <1>6 DEF IsSum

\* What SumFunction computes.
LEMMA SumFunctionIs ==
    ASSUME NEW S, IsFiniteSet(S), NEW h \in [S -> Int]
    PROVE  \E g : Sums(g, S, h) /\ SumFunction(h) = g[S]
  <1>. DEFINE sum == CHOOSE g : IsSum(g, S, h)
  <1>1. IsSum(sum, S, h)
    BY SumsExist
  <1>2. DOMAIN h = S
    OBVIOUS
  <1>3. SumFunction(h) = sum[S]
    BY <1>2 DEF SumFunction, SumFunctionOnSet, FoldFunction, FoldFunctionOnSet, MapThenFoldSet, IsSum, Pick
  <1>4. Sums(sum, S, h)
    <2>. HIDE DEF sum
    <2>. QED  BY <1>1 DEF IsSum, Sums
  <1>. QED
    <2>. HIDE DEF sum
    <2>. QED  BY <1>3, <1>4

\* A sum of what is not negative: a part of it is no greater, and it is positive if one of them is.
LEMMA SumOverMore ==
    ASSUME NEW S, IsFiniteSet(S), NEW h \in [S -> Int], \A x \in S : h[x] >= 0,
           NEW T \in SUBSET S, NEW f \in [T -> Int], \A x \in T : f[x] = h[x]
    PROVE  /\ SumFunction(f) \in Int /\ SumFunction(h) \in Int
           /\ SumFunction(f) <= SumFunction(h)
  <1>1. IsFiniteSet(T) /\ T \in SUBSET T /\ S \in SUBSET S
    BY FS_Subset
  <1>2. PICK g : Sums(g, S, h) /\ SumFunction(h) = g[S]
    BY SumFunctionIs
  <1>3. PICK e : Sums(e, T, f) /\ SumFunction(f) = e[T]
    BY <1>1, SumFunctionIs
  <1>4. e[T] = g[T]
    BY <1>2, <1>3, SumOfPart
  <1>5. g[S] \in Int /\ g[T] \in Int
    BY <1>1, <1>2, SumTyped
  <1>6. g[T] <= g[S]
    BY <1>1, <1>2, SumGrows
  <1>. QED  BY <1>2, <1>3, <1>4, <1>5, <1>6

LEMMA SumPositive ==
    ASSUME NEW S, IsFiniteSet(S), NEW h \in [S -> Int], \A x \in S : h[x] >= 0, NEW x \in S, h[x] > 0
    PROVE  SumFunction(h) > 0
  <1>1. PICK g : Sums(g, S, h) /\ SumFunction(h) = g[S]
    BY SumFunctionIs
  <1>2. {x} \in SUBSET S /\ {} \in SUBSET S /\ S \in SUBSET S /\ {x} \ {x} = {}
    OBVIOUS
  <1>3. g[{}] = 0
    BY <1>1, <1>2 DEF Sums
  <1>4. g[{x}] = h[x] + g[{x} \ {x}]
    <2>1. Pick({x}) = x
      BY DEF Pick
    <2>. QED  BY <1>1, <1>2, <2>1 DEF Sums
  <1>5. g[{x}] <= g[S] /\ g[S] \in Int
    BY <1>1, <1>2, SumGrows, SumTyped
  <1>. QED  BY <1>1, <1>2, <1>3, <1>4, <1>5

------------------------------------------------------------------------------
(* What the data supports                                                    *)

LEMMA UnitsAre ==
    ASSUME NEW s \in Sales, NEW k \in DOMAIN s.units
    PROVE  /\ k[2] \in Nat /\ k[2] >= 1
           /\ \A w \in 0 .. 3 : s.units[k][w] \in Int
           /\ Sold(s, k) \in Int
  <1>1. k[2] \in Nat \ {0} /\ s.units[k] \in [0 .. 3 -> Nat \cup {-1}]
    BY InvestigationAssumption DEF BASELINE_WEEKS, NoUnits
  <1>2. \A w \in 0 .. 3 : s.units[k][w] \in Int
    BY <1>1
  <1>. QED  BY <1>1, <1>2 DEF Sold

\* A baseline is a number if there are weeks for one.
LEMMA BaselineTyped ==
    ASSUME NEW s \in Sales, NEW k \in DOMAIN s.units, HasBaseline(s, k)
    PROVE  baseline(s, k) \in Int
  <1>. DEFINE W == WeeksSold(s, k)
              h == [w \in W |-> s.units[k][w]]
  <1>1. W \subseteq 1 .. 3 /\ IsFiniteSet(W)
    <2>1. W \in SUBSET (1 .. 3)
      BY DEF WeeksSold, BASELINE_WEEKS
    <2>2. W \in SUBSET Nat /\ \A w \in W : w <= 3
      BY <2>1
    <2>. HIDE DEF W
    <2>. QED  BY <2>1, <2>2, FS_BoundedSetOfNaturals
  <1>2. Cardinality(W) \in Nat /\ Cardinality(W) >= 2
    BY <1>1, FS_CardinalityType DEF HasBaseline, MIN_BASELINE_WEEKS
  <1>3. h \in [W -> Int]
    BY <1>1, UnitsAre
  <1>4. SumFunction(h) \in Int
    <2>1. PICK g : Sums(g, W, h) /\ SumFunction(h) = g[W]
      <3>. HIDE DEF W, h
      <3>. QED  BY <1>1, <1>3, SumFunctionIs
    <2>. HIDE DEF W, h
    <2>2. \A t \in SUBSET W : g[t] \in Int
      BY <1>1, <1>3, <2>1, SumTyped
    <2>. QED  BY <2>1, <2>2
  <1>5. baseline(s, k) = (6 * SumFunction(h)) \div Cardinality(W)
    BY DEF baseline
  <1>6. 6 * SumFunction(h) \in Int
    <2>. HIDE DEF h
    <2>. QED  BY <1>4
  <1>. QED
    <2>. HIDE DEF W, h
    <2>. QED  BY <1>2, <1>5, <1>6

\* A record with a baseline has a change, and a low one lost something.
LEMMA ChangeIs ==
    ASSUME NEW s \in Sales, NEW k \in DOMAIN s.units, HasBaseline(s, k)
    PROVE  Change(s, k) \in Int /\ (is_low(s, k) => -Change(s, k) > 0)
  <1>. DEFINE fall == baseline(s, k) - 6 * Sold(s, k)
              less == 6 * Sold(s, k) - baseline(s, k)
  <1>1. baseline(s, k) \in Int /\ Sold(s, k) \in Int /\ k[2] \in Nat /\ k[2] >= 1
    BY BaselineTyped, UnitsAre
  <1>2. fall \in Int /\ less \in Int /\ less = -fall
    BY <1>1
  <1>3. Change(s, k) = k[2] * less
    BY DEF Change
  <1>4. is_low(s, k) => fall > 0
    BY DEF is_low
  <1>. HIDE DEF fall, less
  <1>5. Change(s, k) \in Int
    BY <1>1, <1>2, <1>3
  <1>6. ASSUME fall > 0 PROVE -(k[2] * less) > 0
    <2>1. less <= -1
      BY <1>2, <1>6
    <2>. QED  BY <1>1, <1>2, <2>1
  <1>. QED  BY <1>3, <1>4, <1>5, <1>6

OfCategory(c, records) == {k \in records : Category[k[1]] = c}
Promoted(s) == {k \in rising(s) \cap DOMAIN s.held : s.held[k].source = "PROMOTION"}
Lost(s, c, skus) == SumFunction([k \in OfCategory(c, low(s, skus)) |-> -Change(s, k)])
Gained(s, c) == SumFunction([k \in OfCategory(c, Promoted(s)) |-> Change(s, k)])

\* _substituted, by its parts.
LEMMA SubstitutedIs ==
    ASSUME NEW s, NEW skus, NEW k
    PROVE  k \in _substituted(s, skus) <=>
              /\ k \in low(s, skus)
              /\ \E p \in Promoted(s) : Category[p[1]] = Category[k[1]]
              /\ explains_loss(Gained(s, Category[k[1]]), Lost(s, Category[k[1]], skus))
  <1>1. _substituted(s, skus) =
          UNION {OfCategory(c, low(s, skus)) :
                   c \in {Category[p[1]] : p \in Promoted(s)}
                         \cap {x \in {Category[p[1]] : p \in low(s, skus)} : explains_loss(Gained(s, x), Lost(s, x, skus))}}
    BY DEF _substituted, Promoted, Lost, Gained, OfCategory
  <1>. QED  BY <1>1 DEF OfCategory

\* More products only add to a loss, which is positive where one of them is low.
LEMMA LossGrows ==
    ASSUME NEW s \in Sales, NEW more, NEW skus \in SUBSET more, NEW c,
           NEW k \in OfCategory(c, low(s, skus))
    PROVE  /\ Lost(s, c, skus) \in Int /\ Lost(s, c, more) \in Int
           /\ 0 < Lost(s, c, skus) /\ Lost(s, c, skus) <= Lost(s, c, more)
  <1>. DEFINE S == OfCategory(c, low(s, more))
              T == OfCategory(c, low(s, skus))
              h == [x \in S |-> -Change(s, x)]
              f == [x \in T |-> -Change(s, x)]
  <1>1. IsFiniteSet(DOMAIN s.units) /\ S \in SUBSET (DOMAIN s.units) /\ T \in SUBSET S
    BY InvestigationAssumption DEF OfCategory, low, RecordsOf
  <1>2. IsFiniteSet(S) /\ IsFiniteSet(T)
    <2>. HIDE DEF S, T
    <2>1. IsFiniteSet(S)
      BY <1>1, FS_Subset
    <2>. QED  BY <1>1, <2>1, FS_Subset
  <1>3. \A x \in S : Change(s, x) \in Int /\ -Change(s, x) > 0
    BY <1>1, ChangeIs DEF OfCategory, low
  <1>4. h \in [S -> Int] /\ \A x \in S : h[x] >= 0
    <2>. HIDE DEF S
    <2>. QED  BY <1>3
  <1>5. f \in [T -> Int] /\ (\A x \in T : f[x] = h[x] /\ f[x] > 0 /\ f[x] >= 0)
    <2>. HIDE DEF S, T
    <2>. QED  BY <1>1, <1>3
  <1>6. k \in T
    OBVIOUS
  <1>7. Lost(s, c, more) = SumFunction(h) /\ Lost(s, c, skus) = SumFunction(f)
    BY DEF Lost
  <1>. HIDE DEF S, T, h, f
  <1>8. /\ SumFunction(f) \in Int /\ SumFunction(h) \in Int
        /\ SumFunction(f) <= SumFunction(h)
    BY <1>1, <1>2, <1>4, <1>5, SumOverMore
  <1>9. SumFunction(f) > 0
    BY <1>2, <1>5, <1>6, SumPositive
  <1>. QED  BY <1>7, <1>8, <1>9

LEMMA GainedTyped == ASSUME NEW s \in Sales, NEW c PROVE Gained(s, c) \in Int
  <1>. DEFINE S == OfCategory(c, Promoted(s))
              h == [x \in S |-> Change(s, x)]
  <1>1. IsFiniteSet(DOMAIN s.units) /\ S \in SUBSET (DOMAIN s.units)
    BY InvestigationAssumption DEF OfCategory, Promoted, rising
  <1>2. h \in [S -> Int]
    BY <1>1, ChangeIs DEF OfCategory, Promoted, rising
  <1>3. Gained(s, c) = SumFunction(h)
    BY DEF Gained
  <1>. HIDE DEF S, h
  <1>4. IsFiniteSet(S)
    BY <1>1, FS_Subset
  <1>5. PICK g : Sums(g, S, h) /\ SumFunction(h) = g[S]
    BY <1>2, <1>4, SumFunctionIs
  <1>6. \A t \in SUBSET S : g[t] \in Int
    BY <1>2, <1>4, <1>5, SumTyped
  <1>. QED  BY <1>3, <1>5, <1>6

\* Signals on some products do not need others: what is found on a product together with more
\* products is found on it without them.
LEMMA SignalsAreLocal ==
    ASSUME NEW s \in Sales, NEW more, NEW skus \in SUBSET more, NEW c \in Cause,
           NEW k \in supported_signals(s, more)[c], k[1] \in skus
    PROVE  k \in supported_signals(s, skus)[c]
  <1>1. \A r : r[1] \in skus => (r \in RecordsOf(s, more) <=> r \in RecordsOf(s, skus))
    BY DEF RecordsOf
  <1>2. \A r : r[1] \in skus => (r \in low(s, more) <=> r \in low(s, skus))
    BY <1>1 DEF low
  <1>3. CASE c = "POS_PRICE_GAP"
    BY <1>1, <1>3 DEF supported_signals, pos_gaps
  <1>4. CASE c = "STOCK_SHORTAGE"
    BY <1>1, <1>4 DEF supported_signals, sold_out
  <1>5. CASE c = "DISCOUNT_STALLED"
    BY <1>1, <1>5 DEF supported_signals, stalled
  <1>6. CASE c = "CANNIBALIZATION"
    BY <1>1, <1>2, <1>6 DEF supported_signals, gap_widened
  <1>7. CASE c = "SUBSTITUTION"
    <2>. DEFINE cat == Category[k[1]]
    <2>1. k \in _substituted(s, more)
      BY <1>7 DEF supported_signals
    <2>2. /\ k \in low(s, skus)
          /\ \E p \in Promoted(s) : Category[p[1]] = cat
          /\ explains_loss(Gained(s, cat), Lost(s, cat, more))
      BY <1>2, <2>1, SubstitutedIs
    <2>3. k \in OfCategory(cat, low(s, skus))
      BY <2>2 DEF OfCategory
    <2>. HIDE DEF cat
    <2>4. /\ Lost(s, cat, skus) \in Int /\ Lost(s, cat, more) \in Int
          /\ 0 < Lost(s, cat, skus) /\ Lost(s, cat, skus) <= Lost(s, cat, more)
      BY <2>3, LossGrows
    <2>5. Gained(s, cat) \in Int
      BY GainedTyped
    <2>6. explains_loss(Gained(s, cat), Lost(s, cat, skus))
      BY <2>2, <2>4, <2>5 DEF explains_loss
    <2>7. k \in _substituted(s, skus)
      BY <2>2, <2>6, SubstitutedIs DEF cat
    <2>. QED  BY <1>7, <2>7 DEF supported_signals
  <1>. QED  BY <1>3, <1>4, <1>5, <1>6, <1>7 DEF Cause

------------------------------------------------------------------------------
(* What an investigation confirms                                            *)

\* A set of positions has a last one.
LEMMA LastPosition ==
    ASSUME NEW n \in Nat, NEW t \in SUBSET (1 .. n), t # {}
    PROVE  Max(t) \in t
  <1>. DEFINE above == {b \in Nat : \A y \in t : y <= b}
  <1>1. n \in above
    OBVIOUS
  <1>2. PICK b \in above : \A a \in above : b <= a
    <2>1. above \subseteq Nat
      OBVIOUS
    <2>. HIDE DEF above
    <2>. QED  BY <1>1, <2>1, LeastNumber
  <1>3. b \in t
    <2>1. SUFFICES ASSUME b \notin t PROVE FALSE
      OBVIOUS
    <2>2. \A y \in t : y \in Nat /\ y >= 1 /\ y <= b /\ y # b
      BY <2>1
    <2>3. b \in Nat /\ b >= 1
      <3>1. PICK y \in t : TRUE
        OBVIOUS
      <3>2. y \in Nat /\ y >= 1 /\ y <= b /\ b \in Nat
        BY <2>2
      <3>. QED  BY <3>2
    <2>4. b - 1 \in above
      BY <2>2, <2>3
    <2>. QED  BY <1>2, <2>4
  <1>4. b \in t /\ \A y \in t : b >= y
    BY <1>3
  <1>. QED  BY <1>4 DEF Max

\* Keeping what is not empty keeps elements, and only those.
LEMMA KeepsOnly ==
    ASSUME NEW n \in Nat, NEW all, DOMAIN all = 1 .. n
    PROVE  FoldLeft(LAMBDA causes, c : IF c.skus = {} THEN causes ELSE Append(causes, c), <<>>, all)
              \in Seq({c \in {all[i] : i \in 1 .. n} : c.skus # {}})
  <1>. DEFINE S == 1 .. n
              D == {c \in {all[i] : i \in S} : c.skus # {}}
              V == Seq(D)
              op == [p \in S \X V |-> IF all[p[1]].skus = {} THEN p[2] ELSE Append(p[2], all[p[1]])]
              pick == [t \in SUBSET S |-> Max(t)]
              Is(g) == g = [t \in SUBSET S |-> IF t = {} THEN <<>>
                                               ELSE IF all[Max(t)].skus = {} THEN g[t \ {Max(t)}]
                                                    ELSE Append(g[t \ {Max(t)}], all[Max(t)])]
              out == CHOOSE g : Is(g)
  <1>1. \A t \in SUBSET S : t # {} => Max(t) \in t /\ pick[t] = Max(t)
    BY LastPosition
  <1>2. op \in [S \X V -> V]
    <2>1. ASSUME NEW i \in S, NEW v \in V, all[i].skus # {} PROVE Append(v, all[i]) \in V
      <3>1. all[i] \in D
        BY <2>1
      <3>. HIDE DEF D
      <3>. QED  BY <3>1
    <2>. HIDE DEF V
    <2>. QED  BY <2>1
  <1>3. FoldInputs(S, V, <<>>, op, pick)
    <2>1. IsFiniteSet(S)
      <3>1. S \in SUBSET Nat /\ \A i \in S : i <= n
        OBVIOUS
      <3>. HIDE DEF S
      <3>. QED  BY <3>1, FS_BoundedSetOfNaturals
    <2>2. <<>> \in V
      OBVIOUS
    <2>. HIDE DEF S, V, op, pick
    <2>. QED  BY <1>1, <1>2, <2>1, <2>2 DEF FoldInputs
  <1>4. PICK e : IsFold(e, S, V, <<>>, op, pick)
    <2>. HIDE DEF S, V, op, pick
    <2>. QED  BY <1>3, FoldExists
  <1>5. ASSUME NEW t \in SUBSET S, t # {}, NEW v \in V
        PROVE  op[<<pick[t], v>>] = IF all[Max(t)].skus = {} THEN v ELSE Append(v, all[Max(t)])
    <2>1. pick[t] = Max(t) /\ Max(t) \in S
      BY <1>1, <1>5
    <2>. HIDE DEF S, V, pick
    <2>. QED  BY <1>5, <2>1
  <1>6. Is(e)
    <2>. HIDE DEF S, V, op, pick
    <2>1. e \in [SUBSET S -> V]
      BY <1>4 DEF IsFold
    <2>2. \A t \in SUBSET S : t # {} => e[t] = op[<<pick[t], e[t \ {Max(t)}]>>] /\ e[t \ {Max(t)}] \in V
      BY <1>1, <1>4, <2>1 DEF IsFold
    <2>3. e[{}] = <<>>
      BY <1>4 DEF IsFold
    <2>. QED  BY <1>5, <2>1, <2>2, <2>3
  <1>7. Is(out)
    <2>. HIDE DEF Is
    <2>. QED  BY <1>6
  <1>8. Folds(out, S, V, <<>>, op, pick)
    <2>. HIDE DEF S, V, op, pick, out
    <2>1. ASSUME NEW t \in SUBSET S, t # {}, out[t \ {pick[t]}] \in V
          PROVE  out[t] = op[<<pick[t], out[t \ {pick[t]}]>>]
      <3>. DEFINE v == out[t \ {pick[t]}]
      <3>1. v \in V /\ v = out[t \ {Max(t)}]
        BY <1>1, <2>1
      <3>2. out[t] = IF all[Max(t)].skus = {} THEN v ELSE Append(v, all[Max(t)])
        BY <1>7, <2>1, <3>1
      <3>. HIDE DEF v, Is
      <3>3. op[<<pick[t], v>>] = IF all[Max(t)].skus = {} THEN v ELSE Append(v, all[Max(t)])
        BY <1>5, <2>1, <3>1
      <3>. QED  BY <3>2, <3>3 DEF v
    <2>2. out[{}] = <<>>
      BY <1>7
    <2>. QED  BY <2>1, <2>2 DEF Folds
  <1>9. out[S] \in V
    <2>. HIDE DEF S, V, op, pick, out
    <2>. QED  BY <1>3, <1>8, FoldTyped
  <1>10. FoldLeft(LAMBDA causes, c : IF c.skus = {} THEN causes ELSE Append(causes, c), <<>>, all) = out[S]
    BY DEF FoldLeft, MapThenFoldSet
  <1>. QED  BY <1>9, <1>10

\* The causes that a submission leaves: each of its own products and signals.
LEMMA CheckKeeps ==
    ASSUME NEW records, NEW submitted \in Submission,
           NEW n \in DOMAIN _check(records, submitted)
    PROVE  LET kept == _check(records, submitted)[n] IN
           /\ kept.cause \in Cause
           /\ kept.skus \subseteq Skus(records) \cap Skus(supported_signals(sales, Wanted(records, submitted))[kept.cause])
  <1>. DEFINE signals == supported_signals(sales, Wanted(records, submitted))
              hits(c) == IF c.cause = "OTHER" THEN {} ELSE Skus(signals[c.cause])
              kept(c) == [c EXCEPT !.skus = @ \cap hits(c) \cap Skus(records)]
              all == [i \in DOMAIN submitted |-> kept(submitted[i])]
              out == FoldLeft(LAMBDA causes, c : IF c.skus = {} THEN causes ELSE Append(causes, c), <<>>, all)
  <1>1. PICK m \in 0 .. MaxCauses : submitted \in [1 .. m -> [cause : Cause \cup {"OTHER"}, skus : SUBSET Skus(DOMAIN sales.units)]]
    BY DEF Submission
  <1>2. m \in Nat /\ DOMAIN all = 1 .. m
    BY <1>1, InvestigationAssumption
  <1>3. _check(records, submitted) = out
    BY DEF _check
  <1>4. out \in Seq({c \in {all[i] : i \in 1 .. m} : c.skus # {}})
    <2>. HIDE DEF all
    <2>. QED  BY <1>2, KeepsOnly
  <1>5. out[n] \in {c \in {all[i] : i \in 1 .. m} : c.skus # {}}
    <2>. HIDE DEF out, all
    <2>. QED  BY <1>3, <1>4
  <1>6. PICK i \in 1 .. m : out[n] = all[i] /\ out[n].skus # {}
    <2>. HIDE DEF out, all
    <2>. QED  BY <1>5
  <1>7. submitted[i] \in [cause : Cause \cup {"OTHER"}, skus : SUBSET Skus(DOMAIN sales.units)]
    BY <1>1
  <1>8. all[i] = kept(submitted[i])
    BY <1>1
  <1>9. all[i].cause = submitted[i].cause /\ all[i].skus = submitted[i].skus \cap hits(submitted[i]) \cap Skus(records)
    <2>. DEFINE H == hits(submitted[i])
    <2>1. all[i] = [submitted[i] EXCEPT !.skus = submitted[i].skus \cap H \cap Skus(records)]
      BY <1>8
    <2>. HIDE DEF H, all
    <2>. QED  BY <1>7, <2>1 DEF H
  <1>10. submitted[i].cause # "OTHER"
    <2>. HIDE DEF out, all
    <2>. QED  BY <1>6, <1>9
  <1>11. hits(submitted[i]) = Skus(signals[submitted[i].cause])
    BY <1>10
  <1>. HIDE DEF out, all, hits
  <1>. QED  BY <1>3, <1>6, <1>7, <1>9, <1>10, <1>11

\* A case under investigation: its sales are ones the scan found, and its record is whole.
CaseInv ==
    /\ sales \in Sales
    /\ inv = [status |-> inv.status, records |-> inv.records, step |-> inv.step, causes |-> inv.causes, owner |-> inv.owner]
    /\ \A n \in DOMAIN inv.causes : inv.causes[n].cause \in Cause
    /\ EvidenceIsTheCases

\* What a submission confirms, the case's own sales support.
LEMMA SubmitConfirms == CaseInv /\ Submit => CaseInv'
  <1>. SUFFICES ASSUME CaseInv, Submit PROVE CaseInv'
    OBVIOUS
  <1>1. PICK submitted \in Submission : Saved("submitted", _check(inv.records, submitted))
    BY DEF Submit
  <1>. DEFINE kept == _check(inv.records, submitted)
              own == Skus(inv.records)
  <1>2. inv' = [inv EXCEPT !.status = "submitted", !.causes = kept, !.owner = OwnerOf(kept)]
    BY <1>1 DEF Saved
  <1>3. /\ inv'.causes = kept /\ inv'.records = inv.records /\ sales' = sales
        /\ inv' = [status |-> inv'.status, records |-> inv'.records, step |-> inv'.step, causes |-> inv'.causes, owner |-> inv'.owner]
    <2>. HIDE DEF kept
    <2>. QED  BY <1>2 DEF CaseInv, Submit
  <1>4. own \in SUBSET Wanted(inv.records, submitted)
    BY DEF Wanted
  <1>5. ASSUME NEW n \in DOMAIN kept
        PROVE  /\ kept[n].cause \in Cause
               /\ kept[n].skus \subseteq own \cap Skus(supported_signals(sales, own)[kept[n].cause])
    <2>1. /\ kept[n].cause \in Cause
          /\ kept[n].skus \subseteq own \cap Skus(supported_signals(sales, Wanted(inv.records, submitted))[kept[n].cause])
      BY CheckKeeps
    <2>. HIDE DEF kept
    <2>2. ASSUME NEW x \in kept[n].skus PROVE x \in own /\ x \in Skus(supported_signals(sales, own)[kept[n].cause])
      <3>1. PICK k \in supported_signals(sales, Wanted(inv.records, submitted))[kept[n].cause] : x = k[1]
        BY <2>1 DEF Skus
      <3>2. x \in own
        BY <2>1
      <3>. HIDE DEF own
      <3>3. k \in supported_signals(sales, own)[kept[n].cause]
        BY <1>4, <2>1, <3>1, <3>2, SignalsAreLocal DEF CaseInv
      <3>. QED  BY <3>1, <3>2, <3>3 DEF Skus
    <2>. QED  BY <2>1, <2>2
  <1>6. EvidenceIsTheCases'
    <2>. HIDE DEF kept
    <2>1. ASSUME NEW n \in DOMAIN inv'.causes
          PROVE  inv'.causes[n].skus
                    \subseteq Skus(inv'.records) \cap Skus(supported_signals(sales', Skus(inv'.records))[inv'.causes[n].cause])
      <3>1. n \in DOMAIN kept /\ inv'.causes[n] = kept[n] /\ Skus(inv'.records) = own
        BY <1>3, <2>1
      <3>. HIDE DEF own
      <3>. QED  BY <1>3, <1>5, <3>1
    <2>. QED  BY <2>1 DEF EvidenceIsTheCases
  <1>. QED
    <2>. HIDE DEF kept
    <2>. QED  BY <1>3, <1>5, <1>6 DEF CaseInv

\* The model can leave evidence out, never create it: whatever it submits, a confirmed cause names
\* flagged products only, and the sales of the case's own products support it.
THEOREM InvestigationEvidence == InvestigationSpec => []EvidenceIsTheCases
  <1>1. InvestigationInit => CaseInv
    <2>. SUFFICES ASSUME InvestigationInit PROVE CaseInv
      OBVIOUS
    <2>1. PICK b : inv = [NoInvestigation EXCEPT !.records = CaseOf(sales, b), !.step = 1]
      BY DEF InvestigationInit
    <2>2. inv = [status |-> "none", records |-> CaseOf(sales, b), step |-> 1, causes |-> <<>>, owner |-> DevelopmentTeam]
      BY <2>1 DEF NoInvestigation
    <2>3. DOMAIN inv.causes = {}
      BY <2>2
    <2>. QED  BY <2>2, <2>3 DEF InvestigationInit, CaseInv, EvidenceIsTheCases
  <1>2. CaseInv /\ [InvestigationNext]_ivars => CaseInv'
    <2>. SUFFICES ASSUME CaseInv, [InvestigationNext]_ivars PROVE CaseInv'
      OBVIOUS
    <2>1. CASE Submit
      BY <2>1, SubmitConfirms
    <2>2. CASE Refuse \/ (Looks /\ inv.step = max_steps)
      <3>1. sales' = sales /\ inv'.causes = <<>>
            /\ inv' = [status |-> inv'.status, records |-> inv'.records, step |-> inv'.step, causes |-> inv'.causes, owner |-> inv'.owner]
        BY <2>2 DEF Refuse, Looks, Saved, CaseInv
      <3>. QED  BY <3>1 DEF CaseInv, EvidenceIsTheCases
    <2>3. CASE LlmFails \/ (Looks /\ inv.step # max_steps) \/ UNCHANGED ivars
      <3>1. sales' = sales /\ inv'.causes = inv.causes /\ inv'.records = inv.records
            /\ inv' = [status |-> inv'.status, records |-> inv'.records, step |-> inv'.step, causes |-> inv'.causes, owner |-> inv'.owner]
        BY <2>3 DEF LlmFails, Looks, CaseInv, ivars
      <3>. QED  BY <3>1 DEF CaseInv, EvidenceIsTheCases
    <2>. QED  BY <2>1, <2>2, <2>3 DEF InvestigationNext
  <1>3. CaseInv => EvidenceIsTheCases
    BY DEF CaseInv
  <1>. QED  BY <1>1, <1>2, <1>3, PTL DEF InvestigationSpec

------------------------------------------------------------------------------
(* What an ingest leaves                                                     *)

\* An ingest keeps a document's chunks only if they are what it would cut now.
LEMMA KeptIsCut ==
    ASSUME IncrementalIsRebuild, NEW d \in In_folder, Unchanged(d)
    PROVE  kb.chunks[d] = chunk_doc(folder[d].body) /\ kb.docs[d].model = embedder
  <1>1. kb # EmptyKb
    BY DEF Unchanged, EmptyKb
  <1>2. /\ kb.docs[d].hash = ingested.folder[d].body
        /\ kb.chunks[d] = chunk_doc(ingested.folder[d].body)
    BY <1>1 DEF IncrementalIsRebuild, Unchanged
  <1>. QED  BY <1>2 DEF Unchanged

\* After an ingest the store is that of a rebuild, whatever was left alone.
LEMMA IngestRebuilds == IncrementalIsRebuild /\ Ingest => IncrementalIsRebuild'
  <1>. SUFFICES ASSUME IncrementalIsRebuild, Ingest PROVE IncrementalIsRebuild'
    OBVIOUS
  <1>1. ingested' = [folder |-> folder, embedder |-> embedder]
    BY DEF Ingest
  <1>2. {d \in Doc : ingested'.folder[d].body # NoDoc} = In_folder
    BY <1>1 DEF In_folder
  <1>3. kb'.docs = [d \in In_folder |-> [hash |-> folder[d].body, reviewed |-> folder[d].reviewed, model |-> embedder]]
    BY KeptIsCut DEF Ingest
  <1>4. kb'.chunks = [d \in In_folder |-> chunk_doc(folder[d].body)]
    BY KeptIsCut DEF Ingest
  <1>5. kb'.version = {<<embedder, [d \in In_folder |-> folder[d].body]>>}
    BY DEF Ingest, docs_version
  <1>. QED  BY <1>1, <1>2, <1>3, <1>4, <1>5 DEF IncrementalIsRebuild

\* However many incremental ingests, edits of the folder and changes of the model came before, the
\* store is what an ingest into an empty one would have left, and its version names it.
THEOREM IngestIsRebuild == KnowledgeSpec => []IncrementalIsRebuild
  <1>1. KnowledgeInit => IncrementalIsRebuild
    BY DEF KnowledgeInit, IncrementalIsRebuild
  <1>2. IncrementalIsRebuild /\ [KnowledgeNext]_kbvars => IncrementalIsRebuild'
    <2>. SUFFICES ASSUME IncrementalIsRebuild, [KnowledgeNext]_kbvars PROVE IncrementalIsRebuild'
      OBVIOUS
    <2>1. CASE Ingest
      BY <2>1, IngestRebuilds
    <2>2. CASE (\E d \in Doc : Edit(d)) \/ Configure \/ UNCHANGED kbvars
      <3>1. UNCHANGED <<kb, ingested>>
        BY <2>2 DEF Edit, Configure, Edited, kbvars
      <3>. QED  BY <3>1 DEF IncrementalIsRebuild
    <2>. QED  BY <2>1, <2>2 DEF KnowledgeNext
  <1>. QED  BY <1>1, <1>2, PTL DEF KnowledgeSpec

------------------------------------------------------------------------------
(* Folds and induction over sequences                                        *)

\* What the empty sequence has and appending keeps, every sequence has.
LEMMA SequenceInduction ==
    ASSUME NEW T, NEW Q, <<>> \in Q, \A s \in Seq(T), e \in T : s \in Q => Append(s, e) \in Q
    PROVE  Seq(T) \subseteq Q
  <1>. SUFFICES ASSUME NEW s \in Seq(T), s \notin Q PROVE FALSE
    OBVIOUS
  <1>. DEFINE bad == {n \in 0 .. Len(s) : SubSeq(s, 1, n) \notin Q}
  <1>1. Len(s) \in Nat /\ SubSeq(s, 1, Len(s)) = s /\ SubSeq(s, 1, 0) = <<>>
    BY LenProperties, SubSeqFull, SubSeqEmpty
  <1>2. PICK n \in bad : \A m \in bad : n <= m
    <2>1. Len(s) \in bad /\ bad \subseteq Nat
      <3>1. Len(s) \in 0 .. Len(s) /\ 0 .. Len(s) \subseteq Nat
        BY <1>1
      <3>. QED  BY <1>1, <3>1, Zenon
    <2>. HIDE DEF bad
    <2>. QED  BY <2>1, LeastNumber
  <1>3. n \in 1 .. Len(s) /\ n - 1 \notin bad /\ n - 1 \in 0 .. Len(s)
    <2>1. n \in 0 .. Len(s) /\ n # 0
      BY <1>1, <1>2
    <2>2. n - 1 \in 0 .. Len(s) /\ ~ (n <= n - 1)
      BY <1>1, <2>1
    <2>. HIDE DEF bad
    <2>. QED  BY <1>1, <1>2, <2>1, <2>2
  <1>4. SubSeq(s, 1, n - 1) \in Q /\ SubSeq(s, 1, n) \notin Q
    BY <1>2, <1>3
  <1>5. \A i \in 1 .. n : s[i] \in T
    BY <1>1, <1>3, ElementOfSeq
  <1>6. SubSeq(s, 1, n - 1) \in Seq(T) /\ s[n] \in T
    BY <1>1, <1>3, <1>5, SubSeqProperties
  <1>7. SubSeq(s, 1, n) = Append(SubSeq(s, 1, n - 1), s[n])
    <2>1. SubSeq(s, 1, n) = SubSeq(s, 1, n - 1) \o <<s[n]>>
      BY <1>1, <1>3, SubSeqRecursiveSecond
    <2>. QED  BY <1>6, <2>1, AppendIsConcat
  <1>. QED  BY <1>4, <1>6, <1>7

\* g computes a fold of s from the left: at the set of its first positions, the fold of that part.
Computes(g, s, V, base, op) ==
    \A t \in SUBSET DOMAIN s :
        /\ t = {} => g[t] = base
        /\ t # {} /\ g[t \ {Max(t)}] \in V => g[t] = op[<<g[t \ {Max(t)}], s[Max(t)]>>]

\* The function that FoldLeft defines: op, from the left, at every set of positions of s.
Folded(g, s, V, base, op) ==
    /\ g \in [SUBSET DOMAIN s -> V]
    /\ g[{}] = base
    /\ \A t \in SUBSET DOMAIN s : t # {} => g[t] = op[<<g[t \ {Max(t)}], s[Max(t)]>>]

LEMMA FoldedExists ==
    ASSUME NEW S, NEW s \in Seq(S), NEW V, NEW base \in V, NEW op \in [V \X S -> V]
    PROVE  \E g : Folded(g, s, V, base, op)
  <1>. DEFINE D == DOMAIN s
              at == [p \in D \X V |-> op[<<p[2], s[p[1]]>>]]
              pick == [t \in SUBSET D |-> Max(t)]
  <1>1. Len(s) \in Nat /\ D = 1 .. Len(s) /\ \A i \in D : s[i] \in S
    BY LenProperties, ElementOfSeq
  <1>2. \A t \in SUBSET D : t # {} => Max(t) \in t /\ pick[t] = Max(t)
    BY <1>1, LastPosition
  <1>3. IsFiniteSet(D)
    <2>1. D \in SUBSET Nat /\ \A i \in D : i <= Len(s)
      BY <1>1
    <2>. HIDE DEF D
    <2>. QED  BY <1>1, <2>1, FS_BoundedSetOfNaturals
  <1>4. at \in [D \X V -> V]
    BY <1>1
  <1>5. FoldInputs(D, V, base, at, pick)
    <2>. HIDE DEF D, at, pick
    <2>. QED  BY <1>2, <1>3, <1>4 DEF FoldInputs
  <1>6. PICK g : IsFold(g, D, V, base, at, pick)
    <2>. HIDE DEF D, at, pick
    <2>. QED  BY <1>5, FoldExists
  <1>7. ASSUME NEW t \in SUBSET D, t # {} PROVE g[t] = op[<<g[t \ {Max(t)}], s[Max(t)]>>]
    <2>1. g[t \ {Max(t)}] \in V /\ Max(t) \in D /\ g[t] = at[<<Max(t), g[t \ {Max(t)}]>>]
      <3>. HIDE DEF D, at, pick
      <3>. QED  BY <1>2, <1>6, <1>7 DEF IsFold
    <2>. DEFINE v == g[t \ {Max(t)}]
                i == Max(t)
    <2>2. v \in V /\ i \in D /\ g[t] = at[<<i, v>>]
      BY <2>1
    <2>. HIDE DEF v, i
    <2>3. g[t] = op[<<v, s[i]>>]
      BY <2>2
    <2>. QED  BY <2>3 DEF v, i
  <1>. QED  BY <1>6, <1>7 DEF Folded, IsFold

Extends(r, s, S) == /\ s \in Seq(S) /\ r \in Seq(S)
                    /\ Len(s) <= Len(r) /\ \A i \in 1 .. Len(s) : r[i] = s[i]
Operates(op, V, S, base) == base \in V /\ op \in [V \X S -> V]

\* A fold of a sequence starts as the fold of what the sequence starts with.
LEMMA FoldsAgree ==
    ASSUME NEW S, NEW s, NEW r, Extends(r, s, S), NEW V, NEW base, NEW op, Operates(op, V, S, base),
           NEW g, Computes(g, s, V, base, op), NEW h, Computes(h, r, V, base, op)
    PROVE  \A t \in SUBSET DOMAIN s : g[t] \in V /\ h[t] = g[t]
  <1>. DEFINE D == DOMAIN s
              Q == {t \in SUBSET D : g[t] \in V /\ h[t] = g[t]}
  <1>1. /\ Len(s) \in Nat /\ Len(r) \in Nat /\ D = 1 .. Len(s) /\ DOMAIN r = 1 .. Len(r)
        /\ \A i \in D : s[i] \in S /\ r[i] = s[i]
    BY LenProperties, ElementOfSeq DEF Extends
  <1>2. IsFiniteSet(D)
    <2>1. D \in SUBSET Nat /\ \A i \in D : i <= Len(s)
      BY <1>1
    <2>. HIDE DEF D
    <2>. QED  BY <1>1, <2>1, FS_BoundedSetOfNaturals
  <1>3. ASSUME NEW t \in SUBSET D, \A u \in SUBSET t : u # t => u \in Q PROVE t \in Q
    <2>1. t \in SUBSET DOMAIN r
      <3>1. D \subseteq DOMAIN r
        BY <1>1 DEF Extends
      <3>. QED  BY <3>1
    <2>2. CASE t = {}
      BY <2>1, <2>2 DEF Computes, Operates
    <2>3. CASE t # {}
      <3>1. Max(t) \in t /\ Max(t) \in D
        BY <1>1, <2>3, LastPosition
      <3>2. t \ {Max(t)} \in Q
        BY <1>3, <3>1
      <3>3. /\ g[t] = op[<<g[t \ {Max(t)}], s[Max(t)]>>]
            /\ h[t] = op[<<h[t \ {Max(t)}], r[Max(t)]>>]
        BY <2>1, <2>3, <3>2 DEF Computes
      <3>. QED  BY <1>1, <3>1, <3>2, <3>3 DEF Operates
    <2>. QED  BY <2>2, <2>3
  <1>4. SUBSET D \subseteq Q
    <2>. HIDE DEF D, Q
    <2>. QED  BY <1>2, <1>3, SubsetInduction
  <1>. QED  BY <1>4

\* A left fold is a function of sequences that appending takes one step further, and it is what
\* every such computation yields.
IsLeftFold(F, S, V, base, op) ==
    /\ F \in [Seq(S) -> V]
    /\ F[<<>>] = base
    /\ \A s \in Seq(S), e \in S : F[Append(s, e)] = op[<<F[s], e>>]
    /\ \A s \in Seq(S) : \A g : Computes(g, s, V, base, op) => g[DOMAIN s] = F[s]

LEMMA LeftFold ==
    ASSUME NEW S, NEW V, NEW base \in V, NEW op \in [V \X S -> V]
    PROVE  \E F : IsLeftFold(F, S, V, base, op)
  <1>. DEFINE Of(s) == CHOOSE g : Folded(g, s, V, base, op)
              F == [s \in Seq(S) |-> Of(s)[DOMAIN s]]
  <1>1. ASSUME NEW s \in Seq(S) PROVE Folded(Of(s), s, V, base, op)
    BY FoldedExists
  <1>2. ASSUME NEW s \in Seq(S) PROVE Computes(Of(s), s, V, base, op)
    <2>. HIDE DEF Of
    <2>. QED  BY <1>1 DEF Folded, Computes
  <1>3. ASSUME NEW s \in Seq(S) PROVE F[s] = Of(s)[DOMAIN s] /\ F[s] \in V
    <2>1. F[s] = Of(s)[DOMAIN s]
      OBVIOUS
    <2>. HIDE DEF Of, F
    <2>. QED  BY <1>1, <2>1 DEF Folded
  <1>. HIDE DEF Of
  <1>4. F \in [Seq(S) -> V]
    BY <1>3
  <1>5. <<>> \in Seq(S) /\ DOMAIN <<>> = {}
    BY EmptySeq
  <1>. HIDE DEF F
  <1>6. F[<<>>] = base
    BY <1>1, <1>3, <1>5 DEF Folded
  <1>7. ASSUME NEW s \in Seq(S), NEW e \in S PROVE F[Append(s, e)] = op[<<F[s], e>>]
    <2>. DEFINE r == Append(s, e)
    <2>1. /\ r \in Seq(S) /\ Len(s) \in Nat /\ Len(r) = Len(s) + 1 /\ r[Len(r)] = e
          /\ DOMAIN r = 1 .. Len(r) /\ DOMAIN s = 1 .. Len(s) /\ \A i \in 1 .. Len(s) : r[i] = s[i]
      BY AppendProperties, LenProperties
    <2>. HIDE DEF r
    <2>2. \A t \in SUBSET DOMAIN s : Of(r)[t] = Of(s)[t]
      <3>1. ASSUME NEW g, Computes(g, s, V, base, op), NEW h, Computes(h, r, V, base, op)
            PROVE  \A t \in SUBSET DOMAIN s : h[t] = g[t]
        <4>1. Extends(r, s, S) /\ Operates(op, V, S, base)
          BY <2>1 DEF Extends, Operates
        <4>. QED  BY <3>1, <4>1, FoldsAgree
      <3>2. Computes(Of(s), s, V, base, op) /\ Computes(Of(r), r, V, base, op)
        BY <1>2, <2>1
      <3>. QED  BY <3>1, <3>2
    <2>3. Max(DOMAIN r) = Len(r) /\ DOMAIN r # {} /\ DOMAIN r \ {Len(r)} = DOMAIN s
      <3>1. \A m \in DOMAIN r : (\A y \in DOMAIN r : m >= y) => m = Len(r)
        BY <2>1
      <3>2. Len(r) \in DOMAIN r /\ \A y \in DOMAIN r : Len(r) >= y
        BY <2>1
      <3>3. Max(DOMAIN r) = Len(r)
        BY <3>1, <3>2 DEF Max
      <3>. QED  BY <2>1, <3>3
    <2>4. F[r] = op[<<Of(r)[DOMAIN s], e>>]
      <3>1. Folded(Of(r), r, V, base, op) /\ F[r] = Of(r)[DOMAIN r]
        BY <1>1, <1>3, <2>1
      <3>2. Of(r)[DOMAIN r] = op[<<Of(r)[DOMAIN r \ {Max(DOMAIN r)}], r[Max(DOMAIN r)]>>]
        BY <2>3, <3>1 DEF Folded
      <3>. QED  BY <2>1, <2>3, <3>1, <3>2
    <2>. QED  BY <1>3, <2>2, <2>4 DEF r
  <1>8. ASSUME NEW s \in Seq(S), NEW g, Computes(g, s, V, base, op) PROVE g[DOMAIN s] = F[s]
    <2>1. Len(s) \in Nat
      BY LenProperties
    <2>2. \A h : Computes(h, s, V, base, op) => h[DOMAIN s] = g[DOMAIN s]
      <3>1. Extends(s, s, S) /\ Operates(op, V, S, base) /\ DOMAIN s \in SUBSET DOMAIN s
        BY <2>1 DEF Extends, Operates
      <3>. QED  BY <1>8, <3>1, FoldsAgree
    <2>3. g[DOMAIN s] = Of(s)[DOMAIN s]
      BY <1>2, <2>2
    <2>. QED  BY <1>3, <2>3
  <1>. QED  BY <1>4, <1>6, <1>7, <1>8 DEF IsLeftFold

\* What _split_long computes, sentence by sentence.
SplitStays(S, V, base) == base \in V /\ \A v \in V, x \in S : AddSentence(v, x) \in V
SplitIs(F, S, V, base) ==
    /\ F \in [Seq(S) -> V]
    /\ F[<<>>] = base
    /\ \A s \in Seq(S), e \in S : F[Append(s, e)] = AddSentence(F[s], e)
    /\ \A s \in Seq(S) : FoldLeft(AddSentence, base, s) = F[s]

LEMMA SplitFolds ==
    ASSUME NEW S, NEW V, NEW base, SplitStays(S, V, base)
    PROVE  \E F : SplitIs(F, S, V, base)
  <1>. DEFINE op == [p \in V \X S |-> AddSentence(p[1], p[2])]
  <1>1. op \in [V \X S -> V] /\ \A v \in V, x \in S : op[<<v, x>>] = AddSentence(v, x)
    BY DEF SplitStays
  <1>0. base \in V
    BY DEF SplitStays
  <1>. HIDE DEF op
  <1>2. PICK F : IsLeftFold(F, S, V, base, op)
    BY <1>0, <1>1, LeftFold
  <1>3. ASSUME NEW s \in Seq(S) PROVE FoldLeft(AddSentence, base, s) = F[s]
    <2>. DEFINE Is(g) == g = [t \in SUBSET DOMAIN s |-> IF t = {} THEN base ELSE AddSentence(g[t \ {Max(t)}], s[Max(t)])]
                out == CHOOSE g : Is(g)
    <2>1. \A t \in SUBSET DOMAIN s : t # {} => s[Max(t)] \in S
      <3>1. Len(s) \in Nat /\ DOMAIN s = 1 .. Len(s) /\ \A i \in DOMAIN s : s[i] \in S
        BY LenProperties, ElementOfSeq
      <3>2. \A t \in SUBSET DOMAIN s : t # {} => Max(t) \in t
        BY <3>1, LastPosition
      <3>. QED  BY <3>1, <3>2
    <2>2. PICK g : Folded(g, s, V, base, op)
      BY <1>0, <1>1, FoldedExists
    <2>3. \A t \in SUBSET DOMAIN s : t # {} => g[t] = AddSentence(g[t \ {Max(t)}], s[Max(t)])
      BY <1>1, <2>1, <2>2 DEF Folded
    <2>4. Is(g)
      BY <2>2, <2>3 DEF Folded
    <2>5. Is(out)
      <3>. HIDE DEF Is
      <3>. QED  BY <2>4
    <2>6. Computes(out, s, V, base, op)
      <3>. HIDE DEF out
      <3>. QED  BY <1>1, <2>1, <2>5 DEF Computes
    <2>7. FoldLeft(AddSentence, base, s) = out[DOMAIN s]
      BY DEF FoldLeft, MapThenFoldSet
    <2>. QED  BY <1>2, <2>6, <2>7 DEF IsLeftFold
  <1>. QED  BY <1>1, <1>2, <1>3 DEF IsLeftFold, SplitIs

\* What pack computes, block by block.
PackStays(S, V, base) == base \in V /\ \A v \in V, x \in S : AddBlock(v, x) \in V
PackIs(F, S, V, base) ==
    /\ F \in [Seq(S) -> V]
    /\ F[<<>>] = base
    /\ \A s \in Seq(S), e \in S : F[Append(s, e)] = AddBlock(F[s], e)
    /\ \A s \in Seq(S) : FoldLeft(AddBlock, base, s) = F[s]

LEMMA PackFolds ==
    ASSUME NEW S, NEW V, NEW base, PackStays(S, V, base)
    PROVE  \E F : PackIs(F, S, V, base)
  <1>. DEFINE op == [p \in V \X S |-> AddBlock(p[1], p[2])]
  <1>1. op \in [V \X S -> V] /\ \A v \in V, x \in S : op[<<v, x>>] = AddBlock(v, x)
    BY DEF PackStays
  <1>0. base \in V
    BY DEF PackStays
  <1>. HIDE DEF op
  <1>2. PICK F : IsLeftFold(F, S, V, base, op)
    BY <1>0, <1>1, LeftFold
  <1>3. ASSUME NEW s \in Seq(S) PROVE FoldLeft(AddBlock, base, s) = F[s]
    <2>. DEFINE Is(g) == g = [t \in SUBSET DOMAIN s |-> IF t = {} THEN base ELSE AddBlock(g[t \ {Max(t)}], s[Max(t)])]
                out == CHOOSE g : Is(g)
    <2>1. \A t \in SUBSET DOMAIN s : t # {} => s[Max(t)] \in S
      <3>1. Len(s) \in Nat /\ DOMAIN s = 1 .. Len(s) /\ \A i \in DOMAIN s : s[i] \in S
        BY LenProperties, ElementOfSeq
      <3>2. \A t \in SUBSET DOMAIN s : t # {} => Max(t) \in t
        BY <3>1, LastPosition
      <3>. QED  BY <3>1, <3>2
    <2>2. PICK g : Folded(g, s, V, base, op)
      BY <1>0, <1>1, FoldedExists
    <2>3. \A t \in SUBSET DOMAIN s : t # {} => g[t] = AddBlock(g[t \ {Max(t)}], s[Max(t)])
      BY <1>1, <2>1, <2>2 DEF Folded
    <2>4. Is(g)
      BY <2>2, <2>3 DEF Folded
    <2>5. Is(out)
      <3>. HIDE DEF Is
      <3>. QED  BY <2>4
    <2>6. Computes(out, s, V, base, op)
      <3>. HIDE DEF out
      <3>. QED  BY <1>1, <2>1, <2>5 DEF Computes
    <2>7. FoldLeft(AddBlock, base, s) = out[DOMAIN s]
      BY DEF FoldLeft, MapThenFoldSet
    <2>. QED  BY <1>2, <2>6, <2>7 DEF IsLeftFold
  <1>. QED  BY <1>1, <1>2, <1>3 DEF IsLeftFold, PackIs

\* What chunk_doc computes, piece by piece.
CutStays(S, V, base) == base \in V /\ \A v \in V, x \in S : AddPiece(v, x) \in V
CutIs(F, S, V, base) ==
    /\ F \in [Seq(S) -> V]
    /\ F[<<>>] = base
    /\ \A s \in Seq(S), e \in S : F[Append(s, e)] = AddPiece(F[s], e)
    /\ \A s \in Seq(S) : FoldLeft(AddPiece, base, s) = F[s]

LEMMA CutFolds ==
    ASSUME NEW S, NEW V, NEW base, CutStays(S, V, base)
    PROVE  \E F : CutIs(F, S, V, base)
  <1>. DEFINE op == [p \in V \X S |-> AddPiece(p[1], p[2])]
  <1>1. op \in [V \X S -> V] /\ \A v \in V, x \in S : op[<<v, x>>] = AddPiece(v, x)
    BY DEF CutStays
  <1>0. base \in V
    BY DEF CutStays
  <1>. HIDE DEF op
  <1>2. PICK F : IsLeftFold(F, S, V, base, op)
    BY <1>0, <1>1, LeftFold
  <1>3. ASSUME NEW s \in Seq(S) PROVE FoldLeft(AddPiece, base, s) = F[s]
    <2>. DEFINE Is(g) == g = [t \in SUBSET DOMAIN s |-> IF t = {} THEN base ELSE AddPiece(g[t \ {Max(t)}], s[Max(t)])]
                out == CHOOSE g : Is(g)
    <2>1. \A t \in SUBSET DOMAIN s : t # {} => s[Max(t)] \in S
      <3>1. Len(s) \in Nat /\ DOMAIN s = 1 .. Len(s) /\ \A i \in DOMAIN s : s[i] \in S
        BY LenProperties, ElementOfSeq
      <3>2. \A t \in SUBSET DOMAIN s : t # {} => Max(t) \in t
        BY <3>1, LastPosition
      <3>. QED  BY <3>1, <3>2
    <2>2. PICK g : Folded(g, s, V, base, op)
      BY <1>0, <1>1, FoldedExists
    <2>3. \A t \in SUBSET DOMAIN s : t # {} => g[t] = AddPiece(g[t \ {Max(t)}], s[Max(t)])
      BY <1>1, <2>1, <2>2 DEF Folded
    <2>4. Is(g)
      BY <2>2, <2>3 DEF Folded
    <2>5. Is(out)
      <3>. HIDE DEF Is
      <3>. QED  BY <2>4
    <2>6. Computes(out, s, V, base, op)
      <3>. HIDE DEF out
      <3>. QED  BY <1>1, <2>1, <2>5 DEF Computes
    <2>7. FoldLeft(AddPiece, base, s) = out[DOMAIN s]
      BY DEF FoldLeft, MapThenFoldSet
    <2>. QED  BY <1>2, <2>6, <2>7 DEF IsLeftFold
  <1>. QED  BY <1>1, <1>2, <1>3 DEF IsLeftFold, CutIs

\* What join_chunks computes, block by block.
JoinStays(S, V, base) == base \in V /\ \A v \in V, x \in S : AddRead(v, x) \in V
JoinIs(F, S, V, base) ==
    /\ F \in [Seq(S) -> V]
    /\ F[<<>>] = base
    /\ \A s \in Seq(S), e \in S : F[Append(s, e)] = AddRead(F[s], e)
    /\ \A s \in Seq(S) : FoldLeft(AddRead, base, s) = F[s]

LEMMA JoinFolds ==
    ASSUME NEW S, NEW V, NEW base, JoinStays(S, V, base)
    PROVE  \E F : JoinIs(F, S, V, base)
  <1>. DEFINE op == [p \in V \X S |-> AddRead(p[1], p[2])]
  <1>1. op \in [V \X S -> V] /\ \A v \in V, x \in S : op[<<v, x>>] = AddRead(v, x)
    BY DEF JoinStays
  <1>0. base \in V
    BY DEF JoinStays
  <1>. HIDE DEF op
  <1>2. PICK F : IsLeftFold(F, S, V, base, op)
    BY <1>0, <1>1, LeftFold
  <1>3. ASSUME NEW s \in Seq(S) PROVE FoldLeft(AddRead, base, s) = F[s]
    <2>. DEFINE Is(g) == g = [t \in SUBSET DOMAIN s |-> IF t = {} THEN base ELSE AddRead(g[t \ {Max(t)}], s[Max(t)])]
                out == CHOOSE g : Is(g)
    <2>1. \A t \in SUBSET DOMAIN s : t # {} => s[Max(t)] \in S
      <3>1. Len(s) \in Nat /\ DOMAIN s = 1 .. Len(s) /\ \A i \in DOMAIN s : s[i] \in S
        BY LenProperties, ElementOfSeq
      <3>2. \A t \in SUBSET DOMAIN s : t # {} => Max(t) \in t
        BY <3>1, LastPosition
      <3>. QED  BY <3>1, <3>2
    <2>2. PICK g : Folded(g, s, V, base, op)
      BY <1>0, <1>1, FoldedExists
    <2>3. \A t \in SUBSET DOMAIN s : t # {} => g[t] = AddRead(g[t \ {Max(t)}], s[Max(t)])
      BY <1>1, <2>1, <2>2 DEF Folded
    <2>4. Is(g)
      BY <2>2, <2>3 DEF Folded
    <2>5. Is(out)
      <3>. HIDE DEF Is
      <3>. QED  BY <2>4
    <2>6. Computes(out, s, V, base, op)
      <3>. HIDE DEF out
      <3>. QED  BY <1>1, <2>1, <2>5 DEF Computes
    <2>7. FoldLeft(AddRead, base, s) = out[DOMAIN s]
      BY DEF FoldLeft, MapThenFoldSet
    <2>. QED  BY <1>2, <2>6, <2>7 DEF IsLeftFold
  <1>. QED  BY <1>1, <1>2, <1>3 DEF IsLeftFold, JoinIs

\* FlattenSeq, one sequence at a time.
LEMMA Flattening ==
    ASSUME NEW T
    PROVE  /\ FlattenSeq(<<>>) = <<>>
           /\ \A ss \in Seq(Seq(T)) : FlattenSeq(ss) \in Seq(T)
           /\ \A ss \in Seq(Seq(T)), s \in Seq(T) : FlattenSeq(Append(ss, s)) = FlattenSeq(ss) \o s
  <1>. DEFINE S == Seq(T)
              op == [p \in S \X S |-> p[1] \o p[2]]
  <1>1. op \in [S \X S -> S] /\ <<>> \in S /\ \A v \in S, x \in S : op[<<v, x>>] = v \o x
    <2>1. \A p \in S \X S : p[1] \in S /\ p[2] \in S /\ p[1] \o p[2] \in S
      BY ConcatProperties
    <2>. QED  BY <2>1, EmptySeq
  <1>2. \A s \in S : <<>> \o s = s
    BY ConcatEmptySeq
  <1>. HIDE DEF op, S
  <1>3. PICK F : IsLeftFold(F, S, S, <<>>, op)
    BY <1>1, LeftFold
  <1>4. FlattenSeq(<<>>) = <<>> /\ F[<<>>] = <<>>
    BY <1>3, EmptySeq DEF FlattenSeq, IsLeftFold
  <1>5. ASSUME NEW ss \in Seq(S), ss # <<>> PROVE FlattenSeq(ss) = F[ss]
    <2>. DEFINE I == 1 .. Len(ss)
                Is(g) == g = [i \in I |-> IF i = 1 THEN ss[i] ELSE g[i - 1] \o ss[i]]
                out == CHOOSE g : Is(g)
                h == [i \in I |-> F[SubSeq(ss, 1, i)]]
    <2>1. /\ Len(ss) \in Nat \ {0} /\ SubSeq(ss, 1, Len(ss)) = ss /\ SubSeq(ss, 1, 0) = <<>>
          /\ \A i \in I : ss[i] \in S
      BY <1>5, EmptySeq, LenProperties, ElementOfSeq, SubSeqFull, SubSeqEmpty
    <2>2. ASSUME NEW i \in I
          PROVE  /\ SubSeq(ss, 1, i) = Append(SubSeq(ss, 1, i - 1), ss[i])
                 /\ SubSeq(ss, 1, i - 1) \in Seq(S) /\ SubSeq(ss, 1, i) \in Seq(S) /\ ss[i] \in S
      <3>1. i \in Nat /\ 1 \in I /\ i \in 1 .. Len(ss) /\ i - 1 \in Int /\ \A j \in 1 .. i : ss[j] \in S
        BY <2>1
      <3>2. SubSeq(ss, 1, i - 1) \in Seq(S) /\ SubSeq(ss, 1, i) \in Seq(S)
        BY <3>1, SubSeqProperties
      <3>3. SubSeq(ss, 1, i) = SubSeq(ss, 1, i - 1) \o <<ss[i]>>
        BY <2>1, <3>1, SubSeqRecursiveSecond
      <3>. QED  BY <2>1, <3>2, <3>3, AppendIsConcat
    <2>3. ASSUME NEW i \in I
          PROVE  F[SubSeq(ss, 1, i)] = F[SubSeq(ss, 1, i - 1)] \o ss[i] /\ F[SubSeq(ss, 1, i - 1)] \in S
      <3>1. \A r \in Seq(S), e \in S : F[r] \in S /\ F[Append(r, e)] = F[r] \o e
        BY <1>1, <1>3 DEF IsLeftFold
      <3>. QED  BY <2>2, <3>1
    <2>4. \A i \in I : i = 1 => F[SubSeq(ss, 1, i)] = ss[i]
      <3>. SUFFICES ASSUME 1 \in I PROVE F[SubSeq(ss, 1, 1)] = ss[1]
        OBVIOUS
      <3>1. F[SubSeq(ss, 1, 1)] = F[SubSeq(ss, 1, 0)] \o ss[1]
        <4>1. 1 - 1 = 0
          OBVIOUS
        <4>. HIDE DEF I
        <4>. QED  BY <2>3, <4>1
      <3>. QED  BY <1>2, <1>4, <2>1, <3>1
    <2>5. \A i \in I : i # 1 => i - 1 \in I
      BY <2>1
    <2>6. \A i \in I : h[i] = F[SubSeq(ss, 1, i)]
      OBVIOUS
    <2>7. Is(h)
      <3>1. \A i \in I : F[SubSeq(ss, 1, i)] = IF i = 1 THEN ss[i] ELSE h[i - 1] \o ss[i]
        <4>. HIDE DEF h, I
        <4>. QED  BY <2>3, <2>4, <2>5, <2>6
      <3>. QED  BY <3>1
    <2>8. Is(out)
      <3>. HIDE DEF Is, h
      <3>. QED  BY <2>7
    <2>9. \A i \in I : out[i] = IF i = 1 THEN ss[i] ELSE out[i - 1] \o ss[i]
      <3>. HIDE DEF out
      <3>. QED  BY <2>8
    <2>10. \A i \in I : out[i] = F[SubSeq(ss, 1, i)]
      <3>. DEFINE bad == {i \in I : out[i] # F[SubSeq(ss, 1, i)]}
      <3>. SUFFICES ASSUME bad # {} PROVE FALSE
        OBVIOUS
      <3>1. bad \subseteq Nat
        BY <2>1
      <3>2. PICK i \in bad : \A j \in bad : i <= j
        <4>. HIDE DEF bad
        <4>. QED  BY <3>1, LeastNumber
      <3>3. i \in I /\ i # 1
        <4>. HIDE DEF out
        <4>. QED  BY <2>4, <2>9, <3>2
      <3>4. i - 1 \in I /\ i - 1 \notin bad
        <4>1. ~ (i <= i - 1)
          BY <2>1, <3>3
        <4>. HIDE DEF bad
        <4>. QED  BY <2>5, <3>2, <3>3, <4>1
      <3>5. out[i - 1] = F[SubSeq(ss, 1, i - 1)]
        BY <3>4
      <3>6. out[i] = out[i - 1] \o ss[i]
        <4>. HIDE DEF out, I
        <4>. QED  BY <2>9, <3>3
      <3>7. out[i] = F[SubSeq(ss, 1, i)]
        <4>. HIDE DEF out, I
        <4>. QED  BY <2>3, <3>3, <3>5, <3>6
      <3>. QED  BY <3>2, <3>7
    <2>11. FlattenSeq(ss) = out[Len(ss)]
      BY <2>1 DEF FlattenSeq
    <2>. QED
      <3>1. Len(ss) \in I
        BY <2>1
      <3>. HIDE DEF out, I
      <3>. QED  BY <2>1, <2>10, <2>11, <3>1
  <1>6. \A ss \in Seq(S) : FlattenSeq(ss) = F[ss]
    BY <1>4, <1>5
  <1>7. \A ss \in Seq(S), s \in S : Append(ss, s) \in Seq(S)
    BY AppendProperties
  <1>8. \A r \in Seq(S), e \in S : F[r] \in S /\ F[Append(r, e)] = F[r] \o e
    BY <1>1, <1>3 DEF IsLeftFold
  <1>9. /\ \A ss \in Seq(S) : FlattenSeq(ss) \in S
        /\ \A ss \in Seq(S), s \in S : FlattenSeq(Append(ss, s)) = FlattenSeq(ss) \o s
    <2>1. ASSUME NEW ss \in Seq(S), NEW s \in S PROVE FlattenSeq(Append(ss, s)) = FlattenSeq(ss) \o s
      <3>1. FlattenSeq(Append(ss, s)) = F[Append(ss, s)] /\ FlattenSeq(ss) = F[ss]
        BY <1>6, <1>7
      <3>. QED  BY <1>8, <3>1
    <2>2. \A ss \in Seq(S) : FlattenSeq(ss) \in S
      BY <1>1, <1>6, <1>8
    <2>. QED  BY <2>1, <2>2, Zenon
  <1>. QED  BY <1>4, <1>9, Zenon DEF S

\* A sequence element by element, and the sequences that its elements give, one after another.
Mapped(f, s) == [n \in DOMAIN s |-> f[s[n]]]
Spread(f, s) == FlattenSeq(Mapped(f, s))
Maps(f, S, V) == f \in [S -> V]

LEMMA Mapping ==
    ASSUME NEW S, NEW V, NEW f, Maps(f, S, V)
    PROVE  /\ Mapped(f, <<>>) = <<>>
           /\ \A s \in Seq(S) : Mapped(f, s) \in Seq(V) /\ Len(Mapped(f, s)) = Len(s)
           /\ \A s \in Seq(S), e \in S : Mapped(f, Append(s, e)) = Append(Mapped(f, s), f[e])
  <1>1. Mapped(f, <<>>) = <<>>
    BY EmptySeq DEF Mapped
  <1>2. ASSUME NEW s \in Seq(S)
        PROVE  /\ Mapped(f, s) \in Seq(V) /\ Len(Mapped(f, s)) = Len(s)
               /\ \A n \in 1 .. Len(s) : Mapped(f, s)[n] = f[s[n]]
    <2>1. Len(s) \in Nat /\ DOMAIN s = 1 .. Len(s) /\ \A n \in 1 .. Len(s) : s[n] \in S
      BY LenProperties, ElementOfSeq
    <2>2. Mapped(f, s) = [n \in 1 .. Len(s) |-> f[s[n]]] /\ \A n \in 1 .. Len(s) : f[s[n]] \in V
      BY <2>1 DEF Mapped, Maps
    <2>. QED  BY <2>1, <2>2
  <1>4. \A e \in S : f[e] \in V
    BY DEF Maps
  <1>3. ASSUME NEW s \in Seq(S), NEW e \in S PROVE Mapped(f, Append(s, e)) = Append(Mapped(f, s), f[e])
    <2>. DEFINE r == Append(s, e)
                m == Mapped(f, s)
                l == Mapped(f, r)
    <2>1. /\ r \in Seq(S) /\ Len(s) \in Nat /\ Len(r) = Len(s) + 1 /\ r[Len(s) + 1] = e
          /\ \A n \in 1 .. Len(s) : r[n] = s[n]
      BY AppendProperties, LenProperties
    <2>2. /\ l \in Seq(V) /\ Len(l) = Len(s) + 1 /\ \A n \in 1 .. Len(s) + 1 : l[n] = f[r[n]]
          /\ m \in Seq(V) /\ Len(m) = Len(s) /\ \A n \in 1 .. Len(s) : m[n] = f[s[n]]
      <3>. HIDE DEF r
      <3>. QED  BY <1>2, <2>1
    <2>. HIDE DEF r, m, l
    <2>3. /\ Append(m, f[e]) \in Seq(V) /\ Len(Append(m, f[e])) = Len(s) + 1
          /\ Append(m, f[e])[Len(s) + 1] = f[e] /\ \A n \in 1 .. Len(s) : Append(m, f[e])[n] = f[s[n]]
      BY <1>4, <2>2, AppendProperties
    <2>4. \A n \in 1 .. Len(s) + 1 : l[n] = Append(m, f[e])[n]
      BY <2>1, <2>2, <2>3
    <2>5. l = Append(m, f[e])
      BY <2>2, <2>3, <2>4, SeqEqual
    <2>. QED  BY <2>5 DEF r, m, l
  <1>. QED  BY <1>1, <1>2, <1>3

LEMMA Spreading ==
    ASSUME NEW S, NEW V, NEW f, Maps(f, S, Seq(V))
    PROVE  /\ Spread(f, <<>>) = <<>>
           /\ \A s \in Seq(S) : Spread(f, s) \in Seq(V)
           /\ \A s \in Seq(S), e \in S : Spread(f, Append(s, e)) = Spread(f, s) \o f[e]
           /\ \A s \in Seq(S), r \in Seq(S) : Spread(f, s \o r) = Spread(f, s) \o Spread(f, r)
  <1>1. /\ FlattenSeq(<<>>) = <<>> /\ \A ss \in Seq(Seq(V)) : FlattenSeq(ss) \in Seq(V)
        /\ \A ss \in Seq(Seq(V)), s \in Seq(V) : FlattenSeq(Append(ss, s)) = FlattenSeq(ss) \o s
    BY Flattening
  <1>2. /\ Mapped(f, <<>>) = <<>> /\ \A s \in Seq(S) : Mapped(f, s) \in Seq(Seq(V))
        /\ \A s \in Seq(S), e \in S : Mapped(f, Append(s, e)) = Append(Mapped(f, s), f[e])
    BY Mapping
  <1>3. /\ Spread(f, <<>>) = <<>> /\ \A s \in Seq(S) : Spread(f, s) \in Seq(V)
        /\ \A s \in Seq(S), e \in S : Spread(f, Append(s, e)) = Spread(f, s) \o f[e]
    <2>1. \A e \in S : f[e] \in Seq(V)
      BY DEF Maps
    <2>. QED  BY <1>1, <1>2, <2>1 DEF Spread
  <1>4. ASSUME NEW s \in Seq(S) PROVE \A r \in Seq(S) : Spread(f, s \o r) = Spread(f, s) \o Spread(f, r)
    <2>. DEFINE Q == {r \in Seq(S) : Spread(f, s \o r) = Spread(f, s) \o Spread(f, r)}
    <2>1. <<>> \in Q
      BY <1>3, EmptySeq, ConcatEmptySeq
    <2>2. ASSUME NEW r \in Seq(S), NEW e \in S, r \in Q PROVE Append(r, e) \in Q
      <3>1. s \o Append(r, e) = Append(s \o r, e) /\ s \o r \in Seq(S) /\ Append(r, e) \in Seq(S)
        <4>1. /\ <<e>> \in Seq(S) /\ Append(r, e) = r \o <<e>> /\ s \o r \in Seq(S)
              /\ Append(s \o r, e) = (s \o r) \o <<e>> /\ Append(r, e) \in Seq(S)
          BY AppendIsConcat, ConcatProperties, AppendProperties
        <4>. QED  BY <4>1, ConcatAssociative
      <3>2. Spread(f, s \o Append(r, e)) = (Spread(f, s) \o Spread(f, r)) \o f[e]
        BY <1>3, <2>2, <3>1
      <3>3. Spread(f, s) \in Seq(V) /\ Spread(f, r) \in Seq(V) /\ f[e] \in Seq(V)
        BY <1>3 DEF Maps
      <3>4. (Spread(f, s) \o Spread(f, r)) \o f[e] = Spread(f, s) \o (Spread(f, r) \o f[e])
        <4>1. \A x \in Seq(V), y \in Seq(V), z \in Seq(V) : (x \o y) \o z = x \o (y \o z)
          BY ConcatAssociative
        <4>. QED  BY <3>3, <4>1
      <3>. QED  BY <1>3, <3>1, <3>2, <3>4
    <2>3. Seq(S) \subseteq Q
      <3>. HIDE DEF Q
      <3>. QED  BY <2>1, <2>2, SequenceInduction
    <2>. QED  BY <2>3
  <1>. QED  BY <1>3, <1>4

LEMMA SpreadAppend ==
    ASSUME NEW S, NEW V, NEW f, Maps(f, S, Seq(V)), NEW s \in Seq(S), NEW e \in S
    PROVE  Spread(f, Append(s, e)) = Spread(f, s) \o f[e]
  BY Spreading

LEMMA SpreadConcat ==
    ASSUME NEW S, NEW V, NEW f, Maps(f, S, Seq(V)), NEW s \in Seq(S), NEW r \in Seq(S)
    PROVE  Spread(f, s \o r) = Spread(f, s) \o Spread(f, r)
  BY Spreading

------------------------------------------------------------------------------
(* What the chunker makes of a text, and what is read out of it again        *)

Sentence == DOMAIN Chars
Text == Seq(Seq(Sentence))
Plain == [heading : {""}, sentences : Seq(Sentence)]
Sections == [name : STRING, text : Text]
Chunk == [section : STRING, blocks : Seq(Plain)]

\* FlattenSeq, in two parts.
LEMMA FlatteningParts ==
    ASSUME NEW T, NEW a \in Seq(Seq(T)), NEW b \in Seq(Seq(T))
    PROVE  FlattenSeq(a \o b) = FlattenSeq(a) \o FlattenSeq(b)
  <1>. DEFINE id == [x \in Seq(T) |-> x]
  <1>1. \A s \in Seq(Seq(T)) : Spread(id, s) = FlattenSeq(s)
    <2>1. ASSUME NEW s \in Seq(Seq(T)) PROVE Mapped(id, s) = s
      <3>1. s \in [1 .. Len(s) -> Seq(T)] /\ DOMAIN s = 1 .. Len(s)
        BY LenProperties
      <3>. QED  BY <3>1 DEF Mapped
    <2>. QED  BY <2>1 DEF Spread
  <1>2. Maps(id, Seq(T), Seq(T)) /\ a \o b \in Seq(Seq(T))
    BY ConcatProperties DEF Maps
  <1>3. Spread(id, a \o b) = Spread(id, a) \o Spread(id, b)
    <2>. HIDE DEF id
    <2>. QED  BY <1>2, Spreading
  <1>. QED  BY <1>1, <1>2, <1>3

\* Appending an element is appending a part.
LEMMA AppendsPart ==
    ASSUME NEW T, NEW a \in Seq(T), NEW b \in Seq(T), NEW e \in T
    PROVE  a \o Append(b, e) = Append(a \o b, e)
  <1>1. /\ <<e>> \in Seq(T) /\ Append(b, e) = b \o <<e>> /\ a \o b \in Seq(T)
        /\ Append(a \o b, e) = (a \o b) \o <<e>>
    BY AppendIsConcat, ConcatProperties
  <1>. QED  BY <1>1, ConcatAssociative

\* What a sentence is cut into: parts that fit in a chunk, and are not cut again.
Fitting == {part \in Sentence : Chars[part] <= MAX_CHARS}
Alone(parts) == Map(LAMBDA part : <<part>>, parts)

LEMMA PartsAre ==
    ASSUME NEW s \in Sentence
    PROVE  /\ Parts[s] \in Seq(Fitting) /\ Parts[s] # <<>>
           /\ Front(Parts[s]) \in Seq(Fitting) /\ Last(Parts[s]) \in Fitting
           /\ Parts[s] = Append(Front(Parts[s]), Last(Parts[s]))
           /\ Chars[s] <= MAX_CHARS => Parts[s] = <<s>> /\ Front(Parts[s]) = <<>> /\ Last(Parts[s]) = s
  <1>1. Parts[s] \in Seq(Fitting) /\ Parts[s] # <<>> /\ (Chars[s] <= MAX_CHARS => Parts[s] = <<s>>)
    BY KnowledgeAssumption DEF Sentence, Fitting
  <1>. DEFINE ps == Parts[s]
              front == SubSeq(ps, 1, Len(ps) - 1)
  <1>2. Len(ps) \in Nat /\ Len(ps) # 0
    BY <1>1, LenProperties, EmptySeq
  <1>3. Front(ps) = front /\ Last(ps) = ps[Len(ps)]
    BY DEF Front, Last
  <1>4. \A i \in 1 .. Len(ps) : ps[i] \in Fitting
    BY <1>1, ElementOfSeq
  <1>. HIDE DEF ps
  <1>5. front \in Seq(Fitting) /\ ps[Len(ps)] \in Fitting
    BY <1>2, <1>4, SubSeqProperties
  <1>6. ps = Append(front, ps[Len(ps)])
    <2>1. SubSeq(ps, 1, Len(ps)) = SubSeq(ps, 1, Len(ps) - 1) \o <<ps[Len(ps)]>> /\ SubSeq(ps, 1, Len(ps)) = ps
      BY <1>1, <1>2, <1>4, SubSeqRecursiveSecond, SubSeqFull DEF ps
    <2>. QED  BY <1>5, <2>1, AppendIsConcat
  <1>7. ps = <<s>> => Front(ps) = <<>> /\ Last(ps) = s
    <2>. HAVE ps = <<s>>
    <2>1. Len(<<s>>) = 1 /\ <<s>>[1] = s /\ SubSeq(<<s>>, 1, 0) = <<>>
      BY SubSeqEmpty
    <2>. QED  BY <1>3, <2>1
  <1>. QED  BY <1>1, <1>3, <1>5, <1>6, <1>7 DEF ps

\* The words of a text, a part at a time.
LEMMA WordsSpread ==
    /\ Words(<<>>) = <<>>
    /\ \A s \in Seq(Sentence) : Words(s) \in Seq(Sentence)
    /\ \A s \in Seq(Sentence), e \in Sentence : Words(Append(s, e)) = Words(s) \o Parts[e]
    /\ \A s \in Seq(Sentence), r \in Seq(Sentence) : Words(s \o r) = Words(s) \o Words(r)
  <1>. DEFINE cut == [s \in Sentence |-> Parts[s]]
  <1>1. Maps(cut, Sentence, Seq(Sentence))
    <2>1. ASSUME NEW s \in Sentence PROVE Parts[s] \in Seq(Sentence)
      <3>1. Parts[s] \in Seq(Fitting)
        BY PartsAre
      <3>2. Seq(Fitting) \subseteq Seq(Sentence)
        BY DEF Fitting
      <3>. QED  BY <3>1, <3>2
    <2>. QED  BY <2>1 DEF Maps
  <1>2. \A s \in Seq(Sentence) : Words(s) = Spread(cut, s)
    <2>1. ASSUME NEW s \in Seq(Sentence) PROVE Mapped(cut, s) = [n \in DOMAIN s |-> Parts[s[n]]]
      <3>1. \A n \in DOMAIN s : s[n] \in Sentence
        BY LenProperties, ElementOfSeq
      <3>. QED  BY <3>1 DEF Mapped
    <2>. QED  BY <2>1 DEF Words, Map, Spread
  <1>3. \A e \in Sentence : cut[e] = Parts[e]
    OBVIOUS
  <1>. HIDE DEF cut
  <1>4. <<>> \in Seq(Sentence) /\ \A s \in Seq(Sentence), e \in Sentence : Append(s, e) \in Seq(Sentence)
    BY EmptySeq, AppendProperties
  <1>5. \A s \in Seq(Sentence), r \in Seq(Sentence) : s \o r \in Seq(Sentence)
    BY ConcatProperties
  <1>6. /\ Spread(cut, <<>>) = <<>> /\ \A s \in Seq(Sentence) : Spread(cut, s) \in Seq(Sentence)
        /\ \A s \in Seq(Sentence), e \in Sentence : Spread(cut, Append(s, e)) = Spread(cut, s) \o cut[e]
        /\ \A s \in Seq(Sentence), r \in Seq(Sentence) : Spread(cut, s \o r) = Spread(cut, s) \o Spread(cut, r)
    <2>1. Spread(cut, <<>>) = <<>>
      BY <1>1, Spreading
    <2>2. \A s \in Seq(Sentence) : Spread(cut, s) \in Seq(Sentence)
      BY <1>1, Spreading
    <2>3. ASSUME NEW s \in Seq(Sentence), NEW e \in Sentence PROVE Spread(cut, Append(s, e)) = Spread(cut, s) \o cut[e]
      BY <1>1, SpreadAppend
    <2>4. ASSUME NEW s \in Seq(Sentence), NEW r \in Seq(Sentence)
          PROVE  Spread(cut, s \o r) = Spread(cut, s) \o Spread(cut, r)
      BY <1>1, SpreadConcat
    <2>. QED  BY <2>1, <2>2, <2>3, <2>4
  <1>7. Words(<<>>) = <<>>
    BY <1>2, <1>4, <1>6
  <1>8. ASSUME NEW s \in Seq(Sentence) PROVE Words(s) \in Seq(Sentence)
    BY <1>2, <1>6
  <1>9. ASSUME NEW s \in Seq(Sentence), NEW e \in Sentence PROVE Words(Append(s, e)) = Words(s) \o Parts[e]
    <2>1. Words(s) = Spread(cut, s) /\ Words(Append(s, e)) = Spread(cut, Append(s, e))
      BY <1>2, <1>4
    <2>2. Spread(cut, Append(s, e)) = Spread(cut, s) \o cut[e] /\ cut[e] = Parts[e]
      BY <1>3, <1>6
    <2>. QED  BY <2>1, <2>2
  <1>10. ASSUME NEW s \in Seq(Sentence), NEW r \in Seq(Sentence) PROVE Words(s \o r) = Words(s) \o Words(r)
    <2>1. Words(s) = Spread(cut, s) /\ Words(r) = Spread(cut, r) /\ Words(s \o r) = Spread(cut, s \o r)
      BY <1>2, <1>5
    <2>2. Spread(cut, s \o r) = Spread(cut, s) \o Spread(cut, r)
      BY <1>6
    <2>. QED  BY <2>1, <2>2
  <1>. QED  BY <1>7, <1>8, <1>9, <1>10

\* What fits is its own words, and the words of a text have no others.
LEMMA WordsTwice ==
    /\ \A q \in Seq(Fitting) : Words(q) = q
    /\ \A s \in Seq(Sentence) : Words(Words(s)) = Words(s)
  <1>0. Seq(Fitting) \subseteq Seq(Sentence)
    BY DEF Fitting
  <1>. DEFINE Q == {q \in Seq(Fitting) : Words(q) = q}
              R == {s \in Seq(Sentence) : Words(Words(s)) = Words(s)}
  <1>1. Seq(Fitting) \subseteq Q
    <2>1. <<>> \in Q
      BY WordsSpread, EmptySeq
    <2>2. ASSUME NEW q \in Seq(Fitting), NEW e \in Fitting, q \in Q PROVE Append(q, e) \in Q
      <3>1. e \in Sentence /\ Parts[e] = <<e>>
        BY PartsAre DEF Fitting
      <3>2. Words(Append(q, e)) = q \o <<e>>
        BY <1>0, <2>2, <3>1, WordsSpread
      <3>. QED  BY <3>2, AppendIsConcat, AppendProperties
    <2>. HIDE DEF Q
    <2>. QED  BY <2>1, <2>2, SequenceInduction
  <1>2. Seq(Sentence) \subseteq R
    <2>1. <<>> \in R
      BY WordsSpread, EmptySeq
    <2>2. ASSUME NEW s \in Seq(Sentence), NEW e \in Sentence, s \in R PROVE Append(s, e) \in R
      <3>1. Parts[e] \in Seq(Fitting) /\ Words(Parts[e]) = Parts[e] /\ Parts[e] \in Seq(Sentence)
        <4>1. Parts[e] \in Seq(Fitting)
          BY PartsAre
        <4>. HIDE DEF Q
        <4>2. Parts[e] \in Q /\ Parts[e] \in Seq(Sentence)
          BY <1>0, <1>1, <4>1, Zenon
        <4>. QED  BY <4>1, <4>2 DEF Q
      <3>2. Words(Append(s, e)) = Words(s) \o Parts[e] /\ Words(s) \in Seq(Sentence)
        BY WordsSpread
      <3>3. Words(Words(s) \o Parts[e]) = Words(Words(s)) \o Words(Parts[e])
        BY <3>1, <3>2, WordsSpread
      <3>. QED  BY <2>2, <3>1, <3>2, <3>3, AppendProperties
    <2>. HIDE DEF R
    <2>. QED  BY <2>1, <2>2, SequenceInduction
  <1>. QED  BY <1>1, <1>2

\* Sequences of one element each, one after another.
LEMMA AloneFlattens ==
    ASSUME NEW q \in Seq(Sentence)
    PROVE  Alone(q) \in Text /\ FlattenSeq(Alone(q)) = q
  <1>. DEFINE one == [s \in Sentence |-> <<s>>]
              Q == {s \in Seq(Sentence) : Spread(one, s) = s}
  <1>1. Maps(one, Sentence, Seq(Sentence)) /\ \A s \in Sentence : one[s] = <<s>>
    BY DEF Maps
  <1>2. Alone(q) = Mapped(one, q)
    <2>1. \A n \in DOMAIN q : q[n] \in Sentence
      BY LenProperties, ElementOfSeq
    <2>. QED  BY <2>1 DEF Alone, Map, Mapped
  <1>. HIDE DEF one
  <1>3. <<>> \in Q
    BY <1>1, Spreading, EmptySeq
  <1>4. ASSUME NEW s \in Seq(Sentence), NEW e \in Sentence, s \in Q PROVE Append(s, e) \in Q
    <2>1. Spread(one, Append(s, e)) = Spread(one, s) \o one[e]
      BY <1>1, SpreadAppend
    <2>2. Spread(one, s) = s /\ one[e] = <<e>>
      BY <1>1, <1>4
    <2>. QED  BY <2>1, <2>2, AppendIsConcat, AppendProperties
  <1>5. Seq(Sentence) \subseteq Q
    <2>. HIDE DEF Q
    <2>. QED  BY <1>3, <1>4, SequenceInduction
  <1>6. Mapped(one, q) \in Text
    BY <1>1, Mapping DEF Text
  <1>. QED  BY <1>2, <1>5, <1>6 DEF Spread

\* No sentence but the first is longer than a chunk.
LongOneFirst(p) == \A m \in DOMAIN p : m > 1 => Chars[p[m]] <= MAX_CHARS

\* _split_long moves no sentence of a paragraph whose first alone may be too long: its pieces
\* together are the paragraph's words.
LEMMA SplitLong ==
    ASSUME NEW p \in Seq(Sentence)
    PROVE  /\ _split_long(p) \in Text
           /\ LongOneFirst(p) => FlattenSeq(_split_long(p)) = Words(p)
  <1>. DEFINE V == [pieces : Text, current : Seq(Sentence)]
              base == [pieces |-> <<>>, current |-> <<>>]
              All(v) == FlattenSeq(v.pieces) \o v.current
  <1>1. base \in V
    BY EmptySeq DEF Text
  <1>2. ASSUME NEW v \in V, NEW s \in Sentence
        PROVE  /\ AddSentence(v, s) \in V
               /\ Parts[s] = <<s>> \/ v = base => All(AddSentence(v, s)) = All(v) \o Parts[s]
    <2>. DEFINE cut == Alone(Front(Parts[s]))
                rest == Last(Parts[s])
                pieces == v.pieces \o cut
    <2>1. /\ Front(Parts[s]) \in Seq(Sentence) /\ rest \in Sentence /\ Parts[s] = Append(Front(Parts[s]), rest)
          /\ <<rest>> \in Seq(Sentence)
      <3>1. Seq(Fitting) \subseteq Seq(Sentence) /\ Fitting \subseteq Sentence
        BY DEF Fitting
      <3>. QED  BY <3>1, PartsAre
    <2>2. cut \in Text /\ FlattenSeq(cut) = Front(Parts[s])
      BY <2>1, AloneFlattens
    <2>3. v.pieces \in Text /\ v.current \in Seq(Sentence)
      OBVIOUS
    <2>4. AddSentence(v, s) =
            IF v.current # <<>> /\ Size(v.current) + 1 + Chars[rest] > MAX_CHARS
            THEN [pieces |-> Append(pieces, v.current), current |-> <<rest>>]
            ELSE [pieces |-> pieces, current |-> Append(v.current, rest)]
      BY DEF AddSentence, Alone
    <2>. HIDE DEF cut, rest
    <2>5. pieces \in Text /\ Append(pieces, v.current) \in Text /\ Append(v.current, rest) \in Seq(Sentence)
      BY <2>1, <2>2, <2>3, ConcatProperties, AppendProperties DEF Text
    <2>6. AddSentence(v, s) \in V
      BY <2>1, <2>4, <2>5
    <2>7. ASSUME Parts[s] = <<s>> \/ v = base PROVE All(AddSentence(v, s)) = All(v) \o Parts[s]
      <3>1. /\ FlattenSeq(v.pieces) \in Seq(Sentence) /\ FlattenSeq(pieces) = FlattenSeq(v.pieces) \o FlattenSeq(cut)
            /\ FlattenSeq(Append(pieces, v.current)) = FlattenSeq(pieces) \o v.current
        BY <2>2, <2>3, <2>5, FlatteningParts, Flattening DEF Text
      <3>2. CASE v = base
        <4>1. v.current = <<>> /\ v.pieces = <<>> /\ FlattenSeq(<<>>) = <<>>
          BY <3>2, Flattening
        <4>2. AddSentence(v, s) = [pieces |-> pieces, current |-> Append(<<>>, rest)]
          BY <2>4, <4>1
        <4>3. FlattenSeq(pieces) = Front(Parts[s]) /\ All(v) = <<>>
          BY <2>1, <2>2, <3>1, <4>1, ConcatEmptySeq, EmptySeq
        <4>4. Append(<<>>, rest) = <<rest>> /\ <<>> \o Parts[s] = Parts[s]
          <5>1. Parts[s] \in Seq(Sentence)
            <6>1. Seq(Fitting) \subseteq Seq(Sentence)
              BY DEF Fitting
            <6>. QED  BY <6>1, PartsAre
          <5>. QED  BY <5>1, ConcatEmptySeq
        <4>5. All(AddSentence(v, s)) = Front(Parts[s]) \o <<rest>>
          BY <4>2, <4>3, <4>4
        <4>. QED  BY <2>1, <4>3, <4>4, <4>5, AppendIsConcat
      <3>3. CASE Parts[s] = <<s>> /\ v # base
        <4>1. Front(Parts[s]) = <<>> /\ rest = s
          <5>1. Len(<<s>>) = 1 /\ <<s>>[1] = s /\ SubSeq(<<s>>, 1, 0) = <<>>
            BY SubSeqEmpty
          <5>. QED  BY <3>3, <5>1 DEF rest, Front, Last
        <4>2. FlattenSeq(pieces) = FlattenSeq(v.pieces)
          BY <2>2, <3>1, <4>1, ConcatEmptySeq
        <4>3. FlattenSeq(v.pieces) \o Append(v.current, s) = (FlattenSeq(v.pieces) \o v.current) \o <<s>>
          <5>1. FlattenSeq(v.pieces) \o Append(v.current, s) = Append(FlattenSeq(v.pieces) \o v.current, s)
            BY <2>3, <3>1, AppendsPart
          <5>2. FlattenSeq(v.pieces) \o v.current \in Seq(Sentence)
            BY <2>3, <3>1, ConcatProperties
          <5>. QED  BY <5>1, <5>2, AppendIsConcat
        <4>4. \/ AddSentence(v, s) = [pieces |-> Append(pieces, v.current), current |-> <<s>>]
              \/ AddSentence(v, s) = [pieces |-> pieces, current |-> Append(v.current, s)]
          BY <2>4, <4>1
        <4>. HIDE DEF pieces
        <4>5. CASE AddSentence(v, s) = [pieces |-> Append(pieces, v.current), current |-> <<s>>]
          BY <3>1, <3>3, <4>2, <4>5
        <4>6. CASE AddSentence(v, s) = [pieces |-> pieces, current |-> Append(v.current, s)]
          BY <3>3, <4>2, <4>3, <4>6
        <4>. QED  BY <4>4, <4>5, <4>6
      <3>. QED  BY <2>7, <3>2, <3>3
    <2>. QED  BY <2>6, <2>7
  <1>. HIDE DEF V
  <1>3. PICK F : SplitIs(F, Sentence, V, base)
    <2>1. SplitStays(Sentence, V, base)
      <3>. HIDE DEF base
      <3>. QED  BY <1>1, <1>2 DEF SplitStays
    <2>. QED  BY <2>1, SplitFolds
  <1>4. /\ F[<<>>] = base /\ \A s \in Seq(Sentence) : F[s] \in V
        /\ \A s \in Seq(Sentence), e \in Sentence : F[Append(s, e)] = AddSentence(F[s], e)
    BY <1>3 DEF SplitIs
  <1>. DEFINE Q == {s \in Seq(Sentence) : LongOneFirst(s) => All(F[s]) = Words(s)}
  <1>5. <<>> \in Q
    <2>1. FlattenSeq(<<>>) = <<>> /\ <<>> \in Seq(Sentence) /\ <<>> \o <<>> = <<>>
      BY Flattening, EmptySeq, ConcatEmptySeq
    <2>2. F[<<>>].pieces = <<>> /\ F[<<>>].current = <<>>
      BY <1>4
    <2>. QED  BY <2>1, <2>2, WordsSpread
  <1>6. ASSUME NEW s \in Seq(Sentence), NEW e \in Sentence, s \in Q PROVE Append(s, e) \in Q
    <2>1. /\ Append(s, e) \in Seq(Sentence) /\ Len(s) \in Nat /\ DOMAIN s = 1 .. Len(s)
          /\ DOMAIN Append(s, e) = 1 .. Len(s) + 1 /\ Append(s, e)[Len(s) + 1] = e
          /\ \A m \in 1 .. Len(s) : Append(s, e)[m] = s[m]
      BY AppendProperties, LenProperties
    <2>2. ASSUME LongOneFirst(Append(s, e)) PROVE All(F[Append(s, e)]) = Words(Append(s, e))
      <3>1. LongOneFirst(s)
        BY <2>1, <2>2 DEF LongOneFirst
      <3>2. Parts[e] = <<e>> \/ F[s] = base
        <4>1. CASE s = <<>>
          BY <1>4, <4>1
        <4>2. CASE s # <<>>
          <5>1. Len(s) # 0
            BY <4>2, EmptySeq
          <5>2. Chars[e] <= MAX_CHARS
            BY <2>1, <2>2, <5>1 DEF LongOneFirst
          <5>. QED  BY <5>2, PartsAre
        <4>. QED  BY <4>1, <4>2
      <3>3. All(AddSentence(F[s], e)) = All(F[s]) \o Parts[e]
        <4>. HIDE DEF All, base
        <4>. QED  BY <1>2, <1>4, <3>2
      <3>4. All(F[s]) = Words(s)
        BY <1>6, <3>1
      <3>. HIDE DEF All
      <3>. QED  BY <1>4, <3>3, <3>4, WordsSpread
    <2>. QED  BY <2>1, <2>2
  <1>7. Seq(Sentence) \subseteq Q
    <2>. HIDE DEF Q
    <2>. QED  BY <1>5, <1>6, SequenceInduction
  <1>8. _split_long(p) = Append(F[p].pieces, F[p].current) /\ F[p].pieces \in Text /\ F[p].current \in Seq(Sentence)
    <2>1. FoldLeft(AddSentence, base, p) = F[p]
      BY <1>3 DEF SplitIs
    <2>. QED  BY <1>4, <2>1 DEF _split_long, V
  <1>9. _split_long(p) \in Text /\ FlattenSeq(_split_long(p)) = All(F[p])
    <2>. DEFINE a == F[p].pieces
                b == F[p].current
    <2>1. Append(a, b) \in Text /\ FlattenSeq(Append(a, b)) = FlattenSeq(a) \o b
      <3>1. a \in Seq(Seq(Sentence)) /\ b \in Seq(Sentence)
        BY <1>8 DEF Text
      <3>. HIDE DEF a, b
      <3>. QED  BY <3>1, Flattening, AppendProperties DEF Text
    <2>. QED  BY <1>8, <2>1
  <1>. QED  BY <1>7, <1>9

\* The blocks of a section are all plain, and they say what the section says if no paragraph of
\* it has a long sentence after its first.
LEMMA BlocksSay ==
    ASSUME NEW text \in Text
    PROVE  /\ blocks_of(text) \in Seq(Plain)
           /\ (\A k \in DOMAIN text : LongOneFirst(text[k]))
              => Words(Read(blocks_of(text))) = Words(FlattenSeq(text))
  <1>. DEFINE split == [p \in Seq(Sentence) |-> IF Size(p) <= MAX_CHARS THEN <<p>> ELSE _split_long(p)]
              block == [p \in Seq(Sentence) |-> Block(p)]
              says == [b \in Plain |-> b.sentences]
  <1>1. ASSUME NEW p \in Seq(Sentence)
        PROVE  /\ split[p] \in Text /\ FlattenSeq(split[p]) \in Seq(Sentence)
               /\ LongOneFirst(p) => Words(FlattenSeq(split[p])) = Words(p)
    <2>1. /\ <<p>> \in Text /\ <<p>> = Append(<<>>, p) /\ FlattenSeq(<<>>) = <<>> /\ <<>> \in Text
          /\ <<>> \o p = p
      BY EmptySeq, Flattening, ConcatEmptySeq DEF Text
    <2>2. FlattenSeq(<<p>>) = p
      BY <2>1, Flattening DEF Text
    <2>3. split[p] = IF Size(p) <= MAX_CHARS THEN <<p>> ELSE _split_long(p)
      OBVIOUS
    <2>4. split[p] \in Text
      BY <2>1, <2>3, SplitLong
    <2>5. FlattenSeq(split[p]) \in Seq(Sentence)
      <3>. HIDE DEF split
      <3>. QED  BY <2>4, Flattening DEF Text
    <2>6. LongOneFirst(p) => Words(FlattenSeq(split[p])) = Words(p)
      BY <2>2, <2>3, SplitLong, WordsTwice
    <2>. QED  BY <2>4, <2>5, <2>6
  <1>2. \A p \in Seq(Sentence) : block[p] \in Plain /\ says[block[p]] = p
    BY DEF Block, Plain
  <1>3. /\ Maps(split, Seq(Sentence), Text) /\ Maps(block, Seq(Sentence), Plain)
        /\ Maps(says, Plain, Seq(Sentence))
    BY <1>1, <1>2 DEF Plain, Maps
  <1>4. \A ps \in Seq(Plain) : Read(ps) = Spread(says, ps)
    <2>1. ASSUME NEW ps \in Seq(Plain) PROVE Mapped(says, ps) = [n \in DOMAIN ps |-> ps[n].sentences]
      <3>1. \A n \in DOMAIN ps : ps[n] \in Plain
        BY LenProperties, ElementOfSeq
      <3>. QED  BY <3>1 DEF Mapped
    <2>. QED  BY <2>1 DEF Read, Map, Spread
  <1>5. Spread(split, text) \in Text
    <2>. HIDE DEF split
    <2>. QED  BY <1>3, Spreading DEF Text
  <1>6. blocks_of(text) = Mapped(block, Spread(split, text))
    <2>1. \A n \in DOMAIN text : text[n] \in Seq(Sentence)
      BY LenProperties, ElementOfSeq DEF Text
    <2>2. Mapped(split, text) = Map(LAMBDA p : IF Size(p) <= MAX_CHARS THEN <<p>> ELSE _split_long(p), text)
      BY <2>1 DEF Map, Mapped
    <2>. DEFINE ps == Spread(split, text)
    <2>3. \A n \in DOMAIN ps : ps[n] \in Seq(Sentence)
      <3>. HIDE DEF ps
      <3>. QED  BY <1>5, LenProperties, ElementOfSeq DEF ps, Text
    <2>4. blocks_of(text) = Map(Block, ps)
      BY <2>2 DEF blocks_of, Spread
    <2>5. Map(Block, ps) = Mapped(block, ps)
      <3>. HIDE DEF ps
      <3>. QED  BY <2>3 DEF Map, Mapped
    <2>. QED  BY <2>4, <2>5
  <1>. HIDE DEF split, block, says
  <1>11. /\ Mapped(block, <<>>) = <<>>
         /\ \A ps \in Text : Mapped(block, ps) \in Seq(Plain)
         /\ \A ps \in Text, p \in Seq(Sentence) : Mapped(block, Append(ps, p)) = Append(Mapped(block, ps), block[p])
    BY <1>3, Mapping DEF Text
  <1>12. /\ Spread(says, <<>>) = <<>>
         /\ \A bs \in Seq(Plain), b \in Plain : Spread(says, Append(bs, b)) = Spread(says, bs) \o says[b]
    BY <1>3, Spreading
  <1>13. /\ Spread(split, <<>>) = <<>>
         /\ \A t \in Text : Spread(split, t) \in Text
         /\ \A t \in Text, p \in Seq(Sentence) : Spread(split, Append(t, p)) = Spread(split, t) \o split[p]
    <2>. DEFINE P == Seq(Sentence)
    <2>1. Maps(split, P, Seq(P))
      BY <1>3 DEF Text
    <2>. HIDE DEF P
    <2>2. Spread(split, <<>>) = <<>>
      BY <2>1, Spreading
    <2>3. \A t \in Seq(P) : Spread(split, t) \in Seq(P)
      BY <2>1, Spreading
    <2>4. ASSUME NEW t \in Seq(P), NEW p \in P PROVE Spread(split, Append(t, p)) = Spread(split, t) \o split[p]
      BY <2>1, SpreadAppend
    <2>. QED  BY <2>2, <2>3, <2>4 DEF P, Text
  <1>14. /\ FlattenSeq(<<>>) = <<>>
         /\ \A t \in Text, p \in Seq(Sentence) : FlattenSeq(Append(t, p)) = FlattenSeq(t) \o p /\ Append(t, p) \in Text
         /\ <<>> \in Text
    BY Flattening, AppendProperties, EmptySeq DEF Text
  <1>. DEFINE Q1 == {ps \in Text : Spread(says, Mapped(block, ps)) = FlattenSeq(ps)}
              First(t) == \A k \in DOMAIN t : LongOneFirst(t[k])
              Q2 == {t \in Text : First(t) => Words(FlattenSeq(Spread(split, t))) = Words(FlattenSeq(t))}
  <1>7. Text \subseteq Q1
    <2>1. <<>> \in Q1
      BY <1>11, <1>12, <1>14
    <2>2. ASSUME NEW ps \in Text, NEW p \in Seq(Sentence), ps \in Q1 PROVE Append(ps, p) \in Q1
      <3>1. Mapped(block, Append(ps, p)) = Append(Mapped(block, ps), block[p]) /\ Mapped(block, ps) \in Seq(Plain)
        BY <1>11
      <3>2. Spread(says, Append(Mapped(block, ps), block[p])) = Spread(says, Mapped(block, ps)) \o says[block[p]]
        BY <1>2, <1>12, <3>1
      <3>3. FlattenSeq(Append(ps, p)) = FlattenSeq(ps) \o p /\ Append(ps, p) \in Text
        BY <1>14
      <3>. QED  BY <1>2, <2>2, <3>1, <3>2, <3>3
    <2>. HIDE DEF Q1
    <2>. QED  BY <2>1, <2>2, SequenceInduction DEF Text
  <1>8. Text \subseteq Q2
    <2>1. <<>> \in Q2
      BY <1>13, <1>14
    <2>2. ASSUME NEW t \in Text, NEW p \in Seq(Sentence), t \in Q2, First(Append(t, p)) PROVE Append(t, p) \in Q2
      <3>1. Spread(split, Append(t, p)) = Spread(split, t) \o split[p] /\ Spread(split, t) \in Text
        BY <1>13
      <3>2. FlattenSeq(Spread(split, t) \o split[p]) = FlattenSeq(Spread(split, t)) \o FlattenSeq(split[p])
        BY <1>1, <3>1, FlatteningParts DEF Text
      <3>3. FlattenSeq(Append(t, p)) = FlattenSeq(t) \o p /\ Append(t, p) \in Text
        BY <1>14
      <3>4. LongOneFirst(p) /\ First(t)
        <4>1. /\ Len(t) \in Nat /\ DOMAIN t = 1 .. Len(t) /\ DOMAIN Append(t, p) = 1 .. Len(t) + 1
              /\ Append(t, p)[Len(t) + 1] = p /\ \A k \in 1 .. Len(t) : Append(t, p)[k] = t[k]
          BY AppendProperties, LenProperties DEF Text
        <4>2. Len(t) + 1 \in DOMAIN Append(t, p) /\ \A k \in DOMAIN t : k \in DOMAIN Append(t, p)
          BY <4>1
        <4>3. LongOneFirst(Append(t, p)[Len(t) + 1]) /\ \A k \in DOMAIN t : LongOneFirst(Append(t, p)[k])
          BY <2>2, <4>2
        <4>. QED  BY <4>1, <4>3
      <3>5. FlattenSeq(Spread(split, t)) \in Seq(Sentence) /\ FlattenSeq(t) \in Seq(Sentence)
        BY <3>1, Flattening DEF Text
      <3>6. Words(FlattenSeq(Spread(split, t)) \o FlattenSeq(split[p]))
              = Words(FlattenSeq(Spread(split, t))) \o Words(FlattenSeq(split[p]))
        BY <1>1, <3>5, WordsSpread
      <3>7. Words(FlattenSeq(t) \o p) = Words(FlattenSeq(t)) \o Words(p)
        BY <3>5, WordsSpread
      <3>8. Words(FlattenSeq(Spread(split, t))) = Words(FlattenSeq(t)) /\ Words(FlattenSeq(split[p])) = Words(p)
        BY <1>1, <2>2, <3>4
      <3>. QED  BY <3>1, <3>2, <3>3, <3>6, <3>7, <3>8
    <2>3. ASSUME NEW t \in Text, NEW p \in Seq(Sentence), t \in Q2 PROVE Append(t, p) \in Q2
      <3>1. CASE First(Append(t, p))
        BY <2>2, <2>3, <3>1
      <3>2. CASE ~First(Append(t, p))
        BY <1>14, <3>2
      <3>. QED  BY <3>1, <3>2
    <2>. HIDE DEF Q2
    <2>. QED  BY <2>1, <2>3, SequenceInduction DEF Text
  <1>9. blocks_of(text) \in Seq(Plain)
    BY <1>5, <1>6, <1>11
  <1>10. Read(blocks_of(text)) = FlattenSeq(Spread(split, text))
    BY <1>4, <1>5, <1>6, <1>7, <1>9
  <1>15. First(text) => Words(FlattenSeq(Spread(split, text))) = Words(FlattenSeq(text))
    BY <1>8
  <1>. QED  BY <1>9, <1>10, <1>15

\* No element equals the one before it.
NoRepeat(s) == \A n \in DOMAIN s : n > 1 => s[n] # s[n - 1]

\* pack repeats blocks where it cuts, and join_chunks takes out exactly those: what a section's
\* chunks are put together to are its blocks.
LEMMA PackedJoins ==
    ASSUME NEW text \in Text
    PROVE  /\ pack(text) \in Seq(Seq(Plain))
           /\ NoRepeat(blocks_of(text)) => join_chunks(pack(text)) = blocks_of(text)
  <1>. DEFINE B == Plain
              V == [chunks : Seq(Seq(B)), current : Seq(B)]
              base == [chunks |-> <<>>, current |-> <<>>]
              All(v) == FlattenSeq(v.chunks) \o v.current
              Kept(v, b) == [chunks |-> v.chunks, current |-> Append(v.current, b)]
              Cut(v, b) == [chunks |-> Append(v.chunks, v.current), current |-> <<b>>]
              Again(v, b) == [chunks |-> Append(v.chunks, v.current), current |-> <<Last(v.current), b>>]
  <1>0. blocks_of(text) \in Seq(B)
    BY BlocksSay
  <1>. HIDE DEF B
  <1>1. base \in V /\ All(base) = <<>>
    <2>1. FlattenSeq(<<>>) = <<>> /\ <<>> \in Seq(B) /\ <<>> \in Seq(Seq(B)) /\ <<>> \o <<>> = <<>>
      BY Flattening, EmptySeq, ConcatEmptySeq
    <2>. QED  BY <2>1
  <1>2. ASSUME NEW v \in V, NEW b \in B
        PROVE  \/ AddBlock(v, b) = Kept(v, b)
               \/ v.current # <<>> /\ AddBlock(v, b) \in {Cut(v, b), Again(v, b)}
    <2>1. CASE v.current # <<>> /\ SizeOf(Append(v.current, b)) > MAX_CHARS
      <3>1. AddBlock(v, b) = [chunks |-> Append(v.chunks, v.current),
                              current |-> IF SizeOf(<<Last(v.current), b>>) <= MAX_CHARS
                                          THEN <<Last(v.current), b>> ELSE <<b>>]
        BY <2>1 DEF AddBlock
      <3>. QED  BY <2>1, <3>1
    <2>2. CASE ~ (v.current # <<>> /\ SizeOf(Append(v.current, b)) > MAX_CHARS)
      <3>1. AddBlock(v, b) = [v EXCEPT !.current = Append(@, b)]
        BY <2>2 DEF AddBlock
      <3>. QED  BY <3>1
    <2>. QED  BY <2>1, <2>2
  <1>3. ASSUME NEW v \in V
        PROVE  /\ v.chunks \in Seq(Seq(B)) /\ v.current \in Seq(B) /\ All(v) \in Seq(B)
               /\ Append(v.chunks, v.current) \in Seq(Seq(B))
               /\ FlattenSeq(Append(v.chunks, v.current)) = All(v)
    <2>1. v.chunks \in Seq(Seq(B)) /\ v.current \in Seq(B)
      OBVIOUS
    <2>2. FlattenSeq(v.chunks) \in Seq(B) /\ FlattenSeq(Append(v.chunks, v.current)) = All(v)
      BY <2>1, Flattening
    <2>. QED  BY <2>1, <2>2, AppendProperties, ConcatProperties
  <1>4. ASSUME NEW v \in V, NEW b \in B
        PROVE  /\ Kept(v, b) \in V /\ Cut(v, b) \in V /\ All(Kept(v, b)) = Append(All(v), b)
               /\ All(Cut(v, b)) = Append(All(v), b)
               /\ Last(Kept(v, b).current) = b /\ Kept(v, b).current # <<>>
               /\ Last(Cut(v, b).current) = b /\ Cut(v, b).current # <<>>
    <2>1. /\ v.chunks \in Seq(Seq(B)) /\ v.current \in Seq(B) /\ FlattenSeq(v.chunks) \in Seq(B)
          /\ <<b>> \in Seq(B) /\ All(v) \in Seq(B)
      BY <1>3, Flattening
    <2>2. FlattenSeq(v.chunks) \o Append(v.current, b) = Append(All(v), b)
      BY <2>1, AppendsPart
    <2>3. All(v) \o <<b>> = Append(All(v), b)
      <3>. HIDE DEF All
      <3>. QED  BY <2>1, AppendIsConcat
    <2>4. /\ Append(v.current, b) \in Seq(B) /\ Append(v.current, b) # <<>>
          /\ Len(Append(v.current, b)) = Len(v.current) + 1 /\ Append(v.current, b)[Len(v.current) + 1] = b
      BY <2>1, AppendProperties
    <2>. QED  BY <1>3, <2>1, <2>2, <2>3, <2>4 DEF Last
  <1>5. ASSUME NEW v \in V, NEW b \in B, v.current # <<>>
        PROVE  /\ Last(v.current) \in B /\ Again(v, b) \in V
               /\ All(Again(v, b)) = Append(Append(All(v), Last(v.current)), b)
               /\ Last(Again(v, b).current) = b /\ Again(v, b).current # <<>>
    <2>. DEFINE l == Last(v.current)
    <2>1. l \in B
      <3>1. Len(v.current) \in 1 .. Len(v.current)
        BY <1>3, <1>5, EmptySeq
      <3>. QED  BY <1>3, <3>1, ElementOfSeq DEF Last
    <2>. HIDE DEF l
    <2>2. <<l, b>> = Append(<<l>>, b) /\ <<l>> \in Seq(B) /\ <<l, b>> \in Seq(B) /\ Len(<<l, b>>) = 2
      BY <2>1
    <2>3. All(v) \o <<l, b>> = Append(All(v) \o <<l>>, b) /\ All(v) \o <<l>> = Append(All(v), l)
      <3>. HIDE DEF All
      <3>. QED  BY <1>3, <2>1, <2>2, AppendsPart, AppendIsConcat
    <2>4. Again(v, b) = [chunks |-> Append(v.chunks, v.current), current |-> <<l, b>>]
      BY DEF l
    <2>5. Again(v, b) \in V /\ All(Again(v, b)) = All(v) \o <<l, b>>
      BY <1>3, <2>2, <2>4
    <2>6. Last(<<l, b>>) = b /\ <<l, b>> # <<>>
      BY <2>2 DEF Last
    <2>. QED  BY <2>1, <2>3, <2>4, <2>5, <2>6 DEF l
  <1>6. ASSUME NEW v \in V, NEW b \in B
        PROVE  AddBlock(v, b) \in V /\ AddBlock(v, b).current # <<>> /\ Last(AddBlock(v, b).current) = b
    <2>. HIDE DEF V, Kept, Cut, Again
    <2>1. CASE AddBlock(v, b) = Kept(v, b)
      BY <1>4, <2>1
    <2>2. CASE AddBlock(v, b) = Cut(v, b)
      BY <1>4, <2>2
    <2>3. CASE v.current # <<>> /\ AddBlock(v, b) = Again(v, b)
      BY <1>5, <2>3
    <2>. QED  BY <1>2, <2>1, <2>2, <2>3
  <1>7. PICK P : PackIs(P, B, V, base)
    <2>1. PackStays(B, V, base)
      <3>. HIDE DEF V, base
      <3>. QED  BY <1>1, <1>6 DEF PackStays
    <2>. QED  BY <2>1, PackFolds
  <1>8. PICK J : JoinIs(J, B, Seq(B), <<>>)
    <2>1. JoinStays(B, Seq(B), <<>>)
      BY EmptySeq, AppendProperties DEF JoinStays, AddRead
    <2>. QED  BY <2>1, JoinFolds
  <1>9. /\ P[<<>>] = base /\ \A s \in Seq(B) : P[s] \in V
        /\ \A s \in Seq(B), e \in B : P[Append(s, e)] = AddBlock(P[s], e)
        /\ \A s \in Seq(B) : FoldLeft(AddBlock, base, s) = P[s]
    <2>. HIDE DEF V, base
    <2>. QED  BY <1>7 DEF PackIs
  <1>10. /\ J[<<>>] = <<>> /\ \A s \in Seq(B), e \in B : J[Append(s, e)] = AddRead(J[s], e)
         /\ \A s \in Seq(B) : FoldLeft(AddRead, <<>>, s) = J[s]
    BY <1>8 DEF JoinIs
  <1>11. pack(text) = Append(P[blocks_of(text)].chunks, P[blocks_of(text)].current)
    BY <1>0, <1>9 DEF pack
  <1>12. pack(text) \in Seq(Seq(B)) /\ FlattenSeq(pack(text)) = All(P[blocks_of(text)])
    <2>. HIDE DEF V, All
    <2>. QED  BY <1>0, <1>3, <1>9, <1>11
  <1>. DEFINE Joined(s) == J[All(P[s])] = s
              Ends(s) == s # <<>> => P[s].current # <<>> /\ Last(P[s].current) = Last(s)
              Q == {s \in Seq(B) : NoRepeat(s) => Joined(s) /\ Ends(s)}
  <1>13. <<>> \in Q
    BY <1>1, <1>9, <1>10, EmptySeq
  <1>14. ASSUME NEW s \in Seq(B), NEW e \in B, s \in Q PROVE Append(s, e) \in Q
    <2>. DEFINE r == Append(s, e)
    <2>1. /\ r \in Seq(B) /\ Len(s) \in Nat /\ Len(r) = Len(s) + 1 /\ r[Len(s) + 1] = e
          /\ DOMAIN r = 1 .. Len(r) /\ DOMAIN s = 1 .. Len(s) /\ \A n \in 1 .. Len(s) : r[n] = s[n]
          /\ s # <<>> => Len(s) # 0
      BY AppendProperties, LenProperties, EmptySeq
    <2>. SUFFICES ASSUME NoRepeat(r) PROVE Joined(r) /\ Ends(r)
      BY <2>1
    <2>2. NoRepeat(s)
      <3>. HIDE DEF r
      <3>. QED  BY <2>1 DEF NoRepeat
    <2>3. s # <<>> => Last(s) # e
      <3>1. s # <<>> => r[Len(s) + 1] # r[Len(s)]
        <4>. HIDE DEF r
        <4>1. s # <<>> => Len(s) + 1 \in DOMAIN r /\ Len(s) + 1 > 1 /\ (Len(s) + 1) - 1 = Len(s)
          BY <2>1
        <4>. QED  BY <4>1 DEF NoRepeat
      <3>2. s # <<>> => r[Len(s)] = s[Len(s)]
        <4>. HIDE DEF r
        <4>1. s # <<>> => Len(s) \in 1 .. Len(s)
          BY <2>1
        <4>. QED  BY <2>1, <4>1
      <3>. QED  BY <2>1, <3>1, <3>2 DEF Last
    <2>4. Last(r) = e
      BY <2>1 DEF Last
    <2>. HIDE DEF r
    <2>5. P[s] \in V /\ P[r] = AddBlock(P[s], e)
      <3>. HIDE DEF V
      <3>. QED  BY <1>9 DEF r
    <2>6. J[All(P[s])] = s /\ (P[s].current # <<>> => s # <<>> /\ Last(P[s].current) = Last(s))
      <3>1. Joined(s) /\ Ends(s)
        BY <1>14, <2>2
      <3>2. s = <<>> => P[s].current = <<>>
        BY <1>9
      <3>. QED  BY <3>1, <3>2
    <2>. DEFINE v == P[s]
                f == All(v)
    <2>7. v \in V /\ f \in Seq(B) /\ J[f] = s
      <3>. HIDE DEF V, All
      <3>. QED  BY <1>3, <2>5, <2>6
    <2>8. J[Append(f, e)] = r
      <3>. HIDE DEF f, V
      <3>1. J[Append(f, e)] = AddRead(s, e)
        BY <1>10, <2>7
      <3>. QED  BY <2>3, <3>1 DEF AddRead, r
    <2>9. v.current # <<>> => J[Append(Append(f, Last(v.current)), e)] = r
      <3>. HAVE v.current # <<>>
      <3>. DEFINE l == Last(v.current)
      <3>1. l \in B /\ s # <<>> /\ Last(s) = l
        <4>. HIDE DEF V
        <4>. QED  BY <1>5, <2>6, <2>7
      <3>. HIDE DEF l, f, v, V
      <3>2. J[Append(f, l)] = AddRead(s, l) /\ Append(f, l) \in Seq(B)
        BY <1>10, <2>7, <3>1, AppendProperties
      <3>3. J[Append(f, l)] = s
        BY <3>1, <3>2 DEF AddRead
      <3>4. J[Append(Append(f, l), e)] = AddRead(s, e)
        BY <1>10, <3>2, <3>3
      <3>5. J[Append(Append(f, l), e)] = r
        BY <2>3, <3>4 DEF AddRead, r
      <3>. QED  BY <3>5 DEF l
    <2>10. Joined(r)
      <3>1. \/ All(P[r]) = Append(f, e)
            \/ v.current # <<>> /\ All(P[r]) = Append(Append(f, Last(v.current)), e)
        <4>. HIDE DEF V, Kept, Cut, Again, All
        <4>1. CASE P[r] = Kept(v, e) \/ P[r] = Cut(v, e)
          BY <1>4, <2>7, <4>1
        <4>2. CASE v.current # <<>> /\ P[r] = Again(v, e)
          BY <1>5, <2>7, <4>2
        <4>. QED  BY <1>2, <2>5, <2>7, <4>1, <4>2
      <3>. HIDE DEF f, v, All
      <3>. QED  BY <2>8, <2>9, <3>1
    <2>11. Ends(r)
      <3>. HIDE DEF V
      <3>. QED  BY <1>6, <2>4, <2>5
    <2>. QED  BY <2>10, <2>11
  <1>15. Seq(B) \subseteq Q
    <2>. HIDE DEF Q
    <2>. QED  BY <1>13, <1>14, SequenceInduction
  <1>16. join_chunks(pack(text)) = J[All(P[blocks_of(text)])]
    <2>1. All(P[blocks_of(text)]) \in Seq(B)
      <3>. HIDE DEF V, All
      <3>. QED  BY <1>0, <1>3, <1>9
    <2>. HIDE DEF All
    <2>. QED  BY <1>10, <1>12, <2>1 DEF join_chunks
  <1>. QED  BY <1>0, <1>12, <1>15, <1>16 DEF B

\* With no piece too short to stand alone, chunk_doc leaves the pieces as they are.
LEMMA PiecesStand ==
    ASSUME NEW ps \in Seq(Chunk), \A n \in DOMAIN ps : ~Short(ps[n])
    PROVE  FoldLeft(AddPiece, <<>>, ps) = ps
  <1>. DEFINE S == {c \in Chunk : ~Short(c)}
  <1>1. \A v \in Seq(S), c \in S : AddPiece(v, c) = Append(v, c)
    BY DEF AddPiece
  <1>2. ps \in Seq(S)
    <2>1. /\ Len(ps) \in Nat /\ ps \in [1 .. Len(ps) -> Chunk] /\ DOMAIN ps = 1 .. Len(ps)
          /\ \A n \in 1 .. Len(ps) : ps[n] \in Chunk
      BY LenProperties, ElementOfSeq
    <2>2. \A n \in 1 .. Len(ps) : ps[n] \in S
      BY <2>1
    <2>. HIDE DEF S
    <2>3. ps \in [1 .. Len(ps) -> S]
      BY <2>1, <2>2
    <2>. QED  BY <2>1, <2>3, SeqDef
  <1>. HIDE DEF S
  <1>3. PICK F : CutIs(F, S, Seq(S), <<>>)
    <2>1. CutStays(S, Seq(S), <<>>)
      BY <1>1, EmptySeq, AppendProperties DEF CutStays
    <2>. QED  BY <2>1, CutFolds
  <1>. DEFINE Q == {s \in Seq(S) : F[s] = s}
  <1>4. <<>> \in Q
    BY <1>3, EmptySeq DEF CutIs
  <1>5. ASSUME NEW s \in Seq(S), NEW c \in S, s \in Q PROVE Append(s, c) \in Q
    <2>1. Append(s, c) \in Seq(S) /\ F[Append(s, c)] = AddPiece(F[s], c) /\ F[s] = s
      BY <1>3, <1>5, AppendProperties DEF CutIs
    <2>. QED  BY <1>1, <2>1
  <1>6. Seq(S) \subseteq Q
    <2>. HIDE DEF Q
    <2>. QED  BY <1>4, <1>5, SequenceInduction
  <1>. QED  BY <1>2, <1>3, <1>6 DEF CutIs

\* The pieces of a section under its name, and what a document's pieces have under one name.
Labelled(name) == [p \in Seq(Plain) |-> [section |-> name, blocks |-> p]]
Cuts == [s \in Sections |-> Mapped(Labelled(s.name), pack(s.text))]
Under(name) == [c \in Chunk |-> IF c.section = name THEN c.blocks ELSE <<>>]

LEMMA LabelsMap ==
    /\ \A name \in STRING : Maps(Labelled(name), Seq(Plain), Chunk)
    /\ Maps(Cuts, Sections, Seq(Chunk))
    /\ \A name : Maps(Under(name), Chunk, Seq(Plain))
  <1>1. ASSUME NEW name \in STRING PROVE Maps(Labelled(name), Seq(Plain), Chunk)
    BY DEF Maps, Labelled, Chunk
  <1>2. ASSUME NEW s \in Sections PROVE Mapped(Labelled(s.name), pack(s.text)) \in Seq(Chunk)
    <2>1. s.name \in STRING /\ pack(s.text) \in Seq(Seq(Plain))
      BY PackedJoins DEF Sections
    <2>. QED  BY <1>1, <2>1, Mapping
  <1>3. Maps(Cuts, Sections, Seq(Chunk))
    BY <1>2 DEF Cuts, Maps
  <1>4. ASSUME NEW name PROVE Maps(Under(name), Chunk, Seq(Plain))
    BY EmptySeq DEF Maps, Under, Chunk
  <1>. QED  BY <1>1, <1>3, <1>4

\* The pieces of a section, read under a name: the section's blocks, or nothing if the name is another.
LEMMA ReadUnder ==
    ASSUME NEW s \in Sections, NEW name
    PROVE  Spread(Under(name), Cuts[s]) = IF s.name = name THEN FlattenSeq(pack(s.text)) ELSE <<>>
  <1>. DEFINE f == Under(name)
              g == Labelled(s.name)
              Q == {ps \in Seq(Seq(Plain)) : Spread(f, Mapped(g, ps)) = IF s.name = name THEN FlattenSeq(ps) ELSE <<>>}
  <1>1. Maps(f, Chunk, Seq(Plain)) /\ Maps(g, Seq(Plain), Chunk)
    BY LabelsMap DEF Sections
  <1>2. \A p \in Seq(Plain) : g[p] \in Chunk /\ f[g[p]] = IF s.name = name THEN p ELSE <<>>
    BY DEF Labelled, Under, Chunk, Sections
  <1>. HIDE DEF f, g
  <1>3. <<>> \in Q
    <2>1. Mapped(g, <<>>) = <<>> /\ Spread(f, <<>>) = <<>> /\ FlattenSeq(<<>>) = <<>> /\ <<>> \in Seq(Seq(Plain))
      BY <1>1, Mapping, Spreading, Flattening, EmptySeq
    <2>. QED  BY <2>1
  <1>4. ASSUME NEW ps \in Seq(Seq(Plain)), NEW p \in Seq(Plain), ps \in Q PROVE Append(ps, p) \in Q
    <2>1. Mapped(g, Append(ps, p)) = Append(Mapped(g, ps), g[p]) /\ Mapped(g, ps) \in Seq(Chunk)
      BY <1>1, Mapping
    <2>2. Spread(f, Append(Mapped(g, ps), g[p])) = Spread(f, Mapped(g, ps)) \o f[g[p]]
      <3>. DEFINE m == Mapped(g, ps)
                  c == g[p]
      <3>1. m \in Seq(Chunk) /\ c \in Chunk
        BY <1>2, <2>1
      <3>. HIDE DEF m, c
      <3>2. Spread(f, Append(m, c)) = Spread(f, m) \o f[c]
        BY <1>1, <3>1, SpreadAppend
      <3>. QED  BY <3>2 DEF m, c
    <2>3. FlattenSeq(Append(ps, p)) = FlattenSeq(ps) \o p /\ Append(ps, p) \in Seq(Seq(Plain))
      BY Flattening, AppendProperties
    <2>4. <<>> \o <<>> = <<>>
      BY EmptySeq, ConcatEmptySeq
    <2>. QED  BY <1>2, <1>4, <2>1, <2>2, <2>3, <2>4
  <1>5. Seq(Seq(Plain)) \subseteq Q
    <2>. HIDE DEF Q
    <2>. QED  BY <1>3, <1>4, SequenceInduction
  <1>6. Cuts[s] = Mapped(g, pack(s.text)) /\ pack(s.text) \in Seq(Seq(Plain))
    BY PackedJoins DEF Cuts, g, Sections
  <1>. QED  BY <1>5, <1>6 DEF f

\* What a document's pieces have under a name that it gives to one section: that section's.
LEMMA DocumentUnder ==
    ASSUME NEW body \in Seq(Sections), NEW n \in DOMAIN body, NamedOnce(body, n)
    PROVE  Spread(Under(body[n].name), Spread(Cuts, body)) = FlattenSeq(pack(body[n].text))
  <1>. DEFINE name == body[n].name
              R(b) == Spread(Under(name), Spread(Cuts, b))
              None(b) == (\A m \in DOMAIN b : b[m].name # name) => R(b) = <<>>
              One(b) == \A m \in DOMAIN b : b[m].name = name /\ NamedOnce(b, m)
                                            => R(b) = FlattenSeq(pack(b[m].text))
              Q == {b \in Seq(Sections) : None(b) /\ One(b)}
  <1>. HIDE DEF name
  <1>1. R(<<>>) = <<>>
    <2>1. Spread(Cuts, <<>>) = <<>>
      BY LabelsMap, Spreading
    <2>2. Maps(Under(name), Chunk, Seq(Plain))
      BY LabelsMap
    <2>3. Spread(Under(name), <<>>) = <<>>
      BY <2>2, Spreading
    <2>. QED  BY <2>1, <2>3
  <1>2. <<>> \in Q
    <2>1. <<>> \in Seq(Sections) /\ DOMAIN <<>> = {}
      BY EmptySeq
    <2>. QED  BY <1>1, <2>1
  <1>3. ASSUME NEW b \in Seq(Sections), NEW e \in Sections, b \in Q PROVE Append(b, e) \in Q
    <2>. DEFINE r == Append(b, e)
                F == FlattenSeq(pack(e.text))
    <2>1. /\ r \in Seq(Sections) /\ Len(b) \in Nat /\ Len(r) = Len(b) + 1 /\ r[Len(b) + 1] = e
          /\ DOMAIN r = 1 .. Len(r) /\ DOMAIN b = 1 .. Len(b) /\ \A m \in 1 .. Len(b) : r[m] = b[m]
      BY AppendProperties, LenProperties
    <2>2. R(r) = R(b) \o (IF e.name = name THEN F ELSE <<>>)
      <3>1. Spread(Cuts, r) = Spread(Cuts, b) \o Cuts[e] /\ Spread(Cuts, b) \in Seq(Chunk) /\ Cuts[e] \in Seq(Chunk)
        <4>1. Maps(Cuts, Sections, Seq(Chunk)) /\ Cuts[e] \in Seq(Chunk)
          BY LabelsMap DEF Maps
        <4>. QED  BY <4>1, Spreading, SpreadAppend
      <3>2. Maps(Under(name), Chunk, Seq(Plain))
        BY LabelsMap
      <3>3. R(r) = R(b) \o Spread(Under(name), Cuts[e])
        BY <3>1, <3>2, Spreading
      <3>. QED  BY <3>3, ReadUnder
    <2>3. R(b) \in Seq(Plain) /\ F \in Seq(Plain)
      <3>1. Spread(Cuts, b) \in Seq(Chunk) /\ Maps(Under(name), Chunk, Seq(Plain))
        BY LabelsMap, Spreading
      <3>2. pack(e.text) \in Seq(Seq(Plain))
        BY PackedJoins DEF Sections
      <3>. QED  BY <3>1, <3>2, Spreading, Flattening
    <2>. HIDE DEF r, R, F
    <2>4. None(r)
      <3>. HAVE \A m \in DOMAIN r : r[m].name # name
      <3>1. e.name # name /\ \A m \in DOMAIN b : b[m].name # name
        <4>1. Len(b) + 1 \in DOMAIN r /\ \A m \in DOMAIN b : m \in DOMAIN r /\ r[m] = b[m]
          BY <2>1
        <4>. QED  BY <2>1, <4>1
      <3>2. R(b) = <<>>
        BY <1>3, <3>1
      <3>. QED  BY <2>2, <2>3, <3>1, <3>2, ConcatEmptySeq
    <2>5. ASSUME NEW m \in DOMAIN r, r[m].name = name, NamedOnce(r, m) PROVE R(r) = FlattenSeq(pack(r[m].text))
      <3>0. \A k \in DOMAIN r : r[k].name = name => k = m
        BY <2>5 DEF NamedOnce
      <3>1. CASE m = Len(b) + 1
        <4>1. \A k \in DOMAIN b : b[k].name # name
          <5>1. \A k \in DOMAIN b : k \in DOMAIN r /\ r[k] = b[k] /\ k # m
            BY <2>1, <3>1
          <5>. QED  BY <3>0, <5>1
        <4>2. R(b) = <<>> /\ e.name = name /\ r[m] = e
          BY <1>3, <2>1, <2>5, <3>1, <4>1
        <4>3. <<>> \o F = F
          BY <2>3, ConcatEmptySeq
        <4>. QED  BY <2>2, <4>2, <4>3 DEF F
      <3>2. CASE m # Len(b) + 1
        <4>1. m \in DOMAIN b /\ r[m] = b[m] /\ Len(b) + 1 \in DOMAIN r
          BY <2>1, <3>2
        <4>2. e.name # name
          BY <2>1, <3>0, <3>2, <4>1
        <4>3. NamedOnce(b, m)
          <5>1. \A k \in DOMAIN b : k \in DOMAIN r /\ r[k] = b[k]
            BY <2>1
          <5>. QED  BY <2>5, <4>1, <5>1 DEF NamedOnce
        <4>4. R(b) = FlattenSeq(pack(b[m].text))
          BY <1>3, <2>5, <4>1, <4>3
        <4>5. R(b) \o <<>> = R(b)
          BY <2>3, ConcatEmptySeq
        <4>. QED  BY <2>2, <4>1, <4>2, <4>4, <4>5
      <3>. QED  BY <3>1, <3>2
    <2>. QED  BY <2>1, <2>4, <2>5 DEF r
  <1>4. Seq(Sections) \subseteq Q
    <2>. HIDE DEF Q
    <2>. QED  BY <1>2, <1>3, SequenceInduction
  <1>. QED  BY <1>4 DEF name

\* What a chunker's output says of a section set apart, with its long sentences first in their
\* paragraphs: the section, word for word.
LEMMA SectionReads ==
    ASSUME NEW body \in Seq(Sections), NEW n \in DOMAIN body, SetApart(body, n), LongOnesFirst(body[n])
    PROVE  QuotedWordForWord(chunk_doc(body), body[n])
  <1>. DEFINE sec == body[n]
              blocks == blocks_of(sec.text)
  <1>0. /\ \A i \in DOMAIN Pieces(body) : ~Short(Pieces(body)[i])
        /\ SaysOnce(sec) /\ NamedOnce(body, n)
        /\ \A k \in DOMAIN sec.text : LongOneFirst(sec.text[k])
    BY DEF SetApart, LongOnesFirst, LongOneFirst
  <1>1. sec \in Sections /\ sec.text \in Text
    <2>1. sec \in Sections
      <3>1. n \in 1 .. Len(body)
        BY LenProperties
      <3>. HIDE DEF Sections
      <3>. QED  BY <3>1, ElementOfSeq
    <2>. HIDE DEF sec
    <2>. QED  BY <2>1 DEF Sections
  <1>2. Pieces(body) = Spread(Cuts, body) /\ Pieces(body) \in Seq(Chunk)
    <2>1. \A s \in Sections : Cuts[s] = Map(LAMBDA p : [section |-> s.name, blocks |-> p], pack(s.text))
      <3>1. ASSUME NEW s \in Sections PROVE Cuts[s] = Map(LAMBDA p : [section |-> s.name, blocks |-> p], pack(s.text))
        <4>1. pack(s.text) \in Seq(Seq(Plain))
          BY PackedJoins DEF Sections
        <4>2. \A i \in DOMAIN pack(s.text) : pack(s.text)[i] \in Seq(Plain)
          BY <4>1, LenProperties, ElementOfSeq
        <4>. QED  BY <4>2 DEF Cuts, Mapped, Map, Labelled
      <3>. QED  BY <3>1
    <2>2. \A i \in DOMAIN body : body[i] \in Sections
      BY LenProperties, ElementOfSeq
    <2>3. Mapped(Cuts, body) = Map(LAMBDA s : Map(LAMBDA p : [section |-> s.name, blocks |-> p], pack(s.text)), body)
      BY <2>1, <2>2 DEF Mapped, Map
    <2>4. Pieces(body) = Spread(Cuts, body)
      BY <2>3 DEF Pieces, Spread
    <2>. QED  BY <2>4, LabelsMap, Spreading
  <1>3. chunk_doc(body) = Pieces(body)
    BY <1>0, <1>2, PiecesStand DEF chunk_doc
  <1>4. FlattenSeq(TextsOf(Pieces(body), sec.name)) = Spread(Under(sec.name), Pieces(body))
    <2>1. \A i \in DOMAIN Pieces(body) : Pieces(body)[i] \in Chunk
      BY <1>2, LenProperties, ElementOfSeq
    <2>2. TextsOf(Pieces(body), sec.name) = Mapped(Under(sec.name), Pieces(body))
      BY <2>1 DEF TextsOf, Map, Mapped, Under
    <2>. QED  BY <2>2 DEF Spread
  <1>5. FlattenSeq(TextsOf(Pieces(body), sec.name)) = FlattenSeq(pack(sec.text))
    BY <1>0, <1>2, <1>4, DocumentUnder
  <1>6. quoted(chunk_doc(body), sec.name) = join_chunks(pack(sec.text))
    BY <1>3, <1>5 DEF quoted, join_chunks
  <1>7. join_chunks(pack(sec.text)) = blocks
    <2>1. NoRepeat(blocks)
      BY <1>0 DEF SaysOnce, NoRepeat
    <2>. QED  BY <1>1, <2>1, PackedJoins
  <1>8. Words(Read(blocks)) = Words(Written(sec)) /\ \A i \in DOMAIN blocks : blocks[i].heading = ""
    <2>1. blocks \in Seq(Plain) /\ Words(Read(blocks)) = Words(Written(sec))
      BY <1>0, <1>1, BlocksSay DEF Written
    <2>2. \A i \in DOMAIN blocks : blocks[i] \in Plain
      BY <2>1, LenProperties, ElementOfSeq
    <2>. QED  BY <2>1, <2>2 DEF Plain
  <1>. QED  BY <1>6, <1>7, <1>8 DEF QuotedWordForWord

\* Every file is a document or is not there.
KnownBodies ==
    /\ folder \in [Doc -> [body : Body \cup {NoDoc}, reviewed : {0, 1}, valid : BOOLEAN]]
    /\ \A d \in Doc : ingested.folder[d].body \in Body \cup {NoDoc}

LEMMA BodiesStayKnown == KnownBodies /\ [KnowledgeNext]_kbvars => KnownBodies'
  <1>. SUFFICES ASSUME KnownBodies, [KnowledgeNext]_kbvars PROVE KnownBodies'
    OBVIOUS
  <1>1. CASE \E d \in Doc : Edit(d)
    <2>1. PICK d \in Doc : Edit(d)
      BY <1>1
    <2>2. ingested' = ingested
      BY <2>1 DEF Edit, Edited
    <2>3. CASE \E b \in Body \cup {NoDoc} : folder' = [folder EXCEPT ![d].body = b, ![d].valid = TRUE]
      BY <2>2, <2>3 DEF KnownBodies
    <2>4. CASE folder' = [folder EXCEPT ![d].reviewed = 1 - @]
      <3>1. folder[d].reviewed \in {0, 1}
        BY DEF KnownBodies
      <3>2. 1 - folder[d].reviewed \in {0, 1}
        BY <3>1
      <3>. QED  BY <2>2, <2>4, <3>2 DEF KnownBodies
    <2>5. CASE folder' = [folder EXCEPT ![d].valid = FALSE]
      BY <2>2, <2>5 DEF KnownBodies
    <2>. QED  BY <2>1, <2>3, <2>4, <2>5 DEF Edit
  <1>2. CASE Ingest
    BY <1>2 DEF Ingest, KnownBodies
  <1>3. CASE Configure \/ UNCHANGED kbvars
    BY <1>3 DEF Configure, Edited, kbvars, KnownBodies
  <1>. QED  BY <1>1, <1>2, <1>3 DEF KnowledgeNext

\* However long a section is and however its chunks overlap, what a proposal quotes of it is what
\* its author wrote, word for word: of every stored document without a piece too short to stand
\* alone, every section that has its name to itself, repeats no block and has a sentence longer than
\* a chunk at most at the start of a paragraph.
THEOREM LongSectionsAreQuoted == KnowledgeSpec => []LongSectionsQuoted
  <1>1. KnowledgeInit => KnownBodies
    BY DEF KnowledgeInit, KnownBodies, Missing
  <1>2. KnownBodies /\ IncrementalIsRebuild => LongSectionsQuoted
    <2>. SUFFICES ASSUME KnownBodies, IncrementalIsRebuild, NEW d \in DOMAIN kb.docs, NEW n \in DOMAIN kb.docs[d].hash,
                         SetApart(kb.docs[d].hash, n), LongOnesFirst(kb.docs[d].hash[n])
                  PROVE  QuotedWordForWord(kb.chunks[d], kb.docs[d].hash[n])
      BY DEF LongSectionsQuoted
    <2>1. kb # EmptyKb
      BY DEF EmptyKb
    <2>2. /\ kb.docs[d].hash = ingested.folder[d].body /\ kb.chunks[d] = chunk_doc(ingested.folder[d].body)
          /\ d \in Doc /\ ingested.folder[d].body # NoDoc
      BY <2>1 DEF IncrementalIsRebuild
    <2>3. kb.docs[d].hash \in Seq(Sections) /\ kb.chunks[d] = chunk_doc(kb.docs[d].hash)
      BY <2>2, KnowledgeAssumption DEF KnownBodies, Sections, Text, Sentence
    <2>. QED  BY <2>3, SectionReads
  <1>. QED  BY <1>1, <1>2, BodiesStayKnown, IngestIsRebuild, PTL DEF KnowledgeSpec

=============================================================================
