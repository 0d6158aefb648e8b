----------------------------- MODULE Induction -----------------------------
(***************************************************************************)
(* Induction over the natural numbers with a set in the place of the       *)
(* predicate, so that its instances need no operator argument; the         *)
(* existence of functions defined by iteration; sums over finite sets;     *)
(* folds over sequences; and turns modulo a length.                        *)
(***************************************************************************)
EXTENDS SequencesExt, FiniteSetTheorems, WellFoundedInduction, TLAPS

\* A set that has 0 and the successors of its elements has every number: the
\* least number it lacks would be neither 0 nor a successor.
LEMMA SetInduction ==
  ASSUME NEW S, 0 \in S, \A n \in Nat : n \in S => n + 1 \in S
  PROVE  Nat \subseteq S
<1> DEFINE R == {ss \in Nat \X Nat : ss[1] < ss[2]}
           T == Nat \ S
<1>1. SUFFICES ASSUME T # {}
               PROVE  FALSE
  OBVIOUS
<1>2. IsWellFoundedOn(R, Nat)
  BY NatLessThanWellFounded DEF OpToRel
<1>3. PICK n \in T : \A m \in T : <<m, n>> \notin R
  <2> HIDE DEF R
  <2> QED
    BY <1>1, <1>2, WFMin
<1>4. n \in Nat /\ n # 0 /\ n - 1 \in Nat /\ n - 1 \in T
  OBVIOUS
<1>5. <<n - 1, n>> \in R
  BY <1>4
<1> QED
  BY <1>3, <1>4, <1>5

\* A set of natural numbers has a least one.
LEMMA MinOfNaturals ==
  ASSUME NEW s \in SUBSET Nat, s # {}
  PROVE  Min(s) \in s /\ \A y \in s : Min(s) <= y
<1> DEFINE R == {ss \in Nat \X Nat : ss[1] < ss[2]}
<1>1. IsWellFoundedOn(R, Nat)
  BY NatLessThanWellFounded DEF OpToRel
<1>2. PICK x \in s : \A y \in s : <<y, x>> \notin R
  <2> HIDE DEF R
  <2> QED
    BY <1>1, WFMin
<1>3. ASSUME NEW y \in s
      PROVE  x <= y
  <2>1. PICK a \in Nat, b \in Nat : a = y /\ b = x
    OBVIOUS
  <2>2. a < b => <<a, b>> \in R
    OBVIOUS
  <2>3. ~(a < b)
    BY <1>2, <2>1, <2>2
  <2> QED
    BY <2>1, <2>3
<1> QED
  BY <1>3 DEF Min

\* The first n steps of an iteration are determined, so that they exist
\* together as one function.
LEMMA IterationExists ==
  ASSUME NEW V, NEW a \in V, NEW g \in [V -> V]
  PROVE  \E f \in [Nat -> V] :
           f[0] = a /\ \A n \in Nat : f[n + 1] = g[f[n]]
<1> DEFINE First(n) == {h \in [0..n -> V] :
                          /\ h[0] = a
                          /\ \A i \in 0..(n - 1) : h[i + 1] = g[h[i]]}
           S        == {n \in Nat : First(n) # {}}
<1>1. \A n \in Nat : n \in S
  <2>1. 0 \in S
    <3>1. [i \in 0..0 |-> a] \in First(0)
      OBVIOUS
    <3> QED
      BY <3>1
  <2>2. ASSUME NEW n \in Nat, n \in S
        PROVE  n + 1 \in S
    <3>1. PICK h : h \in First(n)
      BY <2>2
    <3> DEFINE k == [i \in 0..(n + 1) |-> IF i <= n THEN h[i] ELSE g[h[n]]]
    <3>2. h \in [0..n -> V] /\ h[0] = a
          /\ \A i \in 0..(n - 1) : h[i + 1] = g[h[i]]
      BY <3>1
    <3>3. k \in [0..(n + 1) -> V] /\ k[0] = a
      BY <3>2
    <3>4. ASSUME NEW i \in 0..n
          PROVE  k[i + 1] = g[k[i]]
      BY <3>2, <3>4
    <3>5. k \in First(n + 1)
      BY <3>3, <3>4
    <3> QED
      BY <3>5
  <2> HIDE DEF S
  <2> QED
    BY <2>1, <2>2, SetInduction
<1> DEFINE run == [n \in Nat |-> CHOOSE h : h \in First(n)]
           f   == [n \in Nat |-> run[n][n]]
<1>2. ASSUME NEW n \in Nat
      PROVE  /\ run[n] \in [0..n -> V] /\ run[n][0] = a
             /\ \A i \in 0..(n - 1) : run[n][i + 1] = g[run[n][i]]
  <2>1. \E h : h \in First(n)
    BY <1>1
  <2>2. run[n] \in First(n)
    BY <2>1
  <2> QED
    BY <2>2
<1> HIDE DEF run
\* Any two of them agree as far as both go.
<1>3. ASSUME NEW n \in Nat, NEW m \in Nat
      PROVE  \A i \in Nat : i <= n /\ i <= m => run[n][i] = run[m][i]
  <2> DEFINE Q == {i \in Nat : i <= n /\ i <= m => run[n][i] = run[m][i]}
  <2>1. 0 \in Q
    BY <1>2
  <2>2. ASSUME NEW i \in Nat, i \in Q
        PROVE  i + 1 \in Q
    <3>1. SUFFICES ASSUME i + 1 <= n, i + 1 <= m
                   PROVE  run[n][i + 1] = run[m][i + 1]
      OBVIOUS
    <3>2. i \in 0..(n - 1) /\ i \in 0..(m - 1) /\ run[n][i] = run[m][i]
      BY <2>2, <3>1
    <3> QED
      BY <1>2, <3>2
  <2>3. Nat \subseteq Q
    <3> HIDE DEF Q
    <3> QED
      BY <2>1, <2>2, SetInduction
  <2> QED
    BY <2>3
<1>4. f \in [Nat -> V] /\ f[0] = a
  BY <1>2
<1>5. ASSUME NEW n \in Nat
      PROVE  f[n + 1] = g[f[n]]
  <2>1. run[n + 1][n + 1] = g[run[n + 1][n]]
    BY <1>2
  <2>2. run[n + 1][n] = run[n][n]
    BY <1>3
  <2> QED
    BY <2>1, <2>2
<1> QED
  BY <1>4, <1>5
-----------------------------------------------------------------------------
(* Sums over finite sets: what the community modules' fold of + computes *)

\* The element such a fold takes next.
Pick(s) == CHOOSE x \in s : TRUE

\* The fold's own recursion: the sum over every subset of S.
SumsOver(S, f) ==
  CHOOSE h : h = [s \in SUBSET S |->
                    IF s = {} THEN 0
                    ELSE LET x == CHOOSE x \in s : TRUE
                         IN  f[x] + h[s \ {x}]]

\* What holds for the empty set, and for a set if it does without the element
\* taken next, holds for every subset of a finite set.
LEMMA SubsetInduction ==
  ASSUME NEW S, IsFiniteSet(S), NEW P, {} \in P,
         \A s \in SUBSET S : s # {} /\ s \ {Pick(s)} \in P => s \in P
  PROVE  SUBSET S \subseteq P
<1> DEFINE T == {n \in Nat : \A s \in SUBSET S : Cardinality(s) <= n => s \in P}
<1>1. \A s \in SUBSET S : IsFiniteSet(s) /\ Cardinality(s) \in Nat
  BY FS_Subset, FS_CardinalityType
<1>2. 0 \in T
  <2>1. \A s \in SUBSET S : Cardinality(s) <= 0 => s = {}
    BY <1>1, FS_EmptySet
  <2> QED
    BY <2>1
<1>3. ASSUME NEW n \in Nat, n \in T
      PROVE  n + 1 \in T
  <2>1. SUFFICES ASSUME NEW s \in SUBSET S, Cardinality(s) <= n + 1, s # {}
                 PROVE  s \in P
    OBVIOUS
  <2>2. Pick(s) \in s
    BY <2>1 DEF Pick
  <2>3. Cardinality(s \ {Pick(s)}) = Cardinality(s) - 1
    BY <1>1, <2>2, FS_RemoveElement
  <2>4. Cardinality(s \ {Pick(s)}) <= n /\ s \ {Pick(s)} \in SUBSET S
    BY <1>1, <2>1, <2>3
  <2>5. s \ {Pick(s)} \in P
    BY <1>3, <2>4
  <2> QED
    BY <2>1, <2>5
<1>4. Nat \subseteq T
  <2> HIDE DEF T
  <2> QED
    BY <1>2, <1>3, SetInduction
<1>5. \A s \in SUBSET S : Cardinality(s) \in T
  BY <1>1, <1>4
<1> QED
  BY <1>1, <1>5

\* f has an integer for every element of S.
Summable(f, S) == \A x \in S : f[x] \in Int

\* h sums f over the subsets of S, one element at a time.
Stepwise(h, f, S) ==
  /\ h[{}] = 0
  /\ \A s \in SUBSET S : h[s] \in Int
  /\ \A s \in SUBSET S : s # {} =>
       Pick(s) \in s /\ h[s] = f[Pick(s)] + h[s \ {Pick(s)}]

LEMMA FoldIsSum ==
  ASSUME NEW S, NEW f \in [S -> Int]
  PROVE  FoldFunction(+, 0, f) = SumsOver(S, f)[S]
<1>1. DOMAIN f = S
  OBVIOUS
<1> QED
  BY <1>1 DEF FoldFunction, FoldFunctionOnSet, MapThenFoldSet, SumsOver

\* The recursion has a solution: iterated from anything, it is right for the
\* sets of n elements after n rounds.
LEMMA SumsStepwise ==
  ASSUME NEW S, IsFiniteSet(S), NEW f, Summable(f, S)
  PROVE  Stepwise(SumsOver(S, f), f, S)
<1>0. \A x \in S : f[x] \in Int
  BY DEF Summable
<1> DEFINE V        == [SUBSET S -> Int]
           Round(h) == [s \in SUBSET S |->
                          IF s = {} THEN 0 ELSE f[Pick(s)] + h[s \ {Pick(s)}]]
           g        == [h \in V |-> Round(h)]
           zero     == [s \in SUBSET S |-> 0]
<1>1. \A s \in SUBSET S : s # {} => Pick(s) \in s
  BY DEF Pick
<1>2. \A h \in V : Round(h) \in V
  BY <1>0, <1>1
<1>3. zero \in V /\ g \in [V -> V]
  <2>1. zero \in V
    OBVIOUS
  <2>2. g \in [V -> V]
    <3> HIDE DEF V, Round
    <3> QED
      BY <1>2
  <2> QED
    BY <2>1, <2>2
<1>4. PICK F \in [Nat -> V] : F[0] = zero /\ \A n \in Nat : F[n + 1] = g[F[n]]
  <2> HIDE DEF V, Round, g, zero
  <2> QED
    BY <1>3, IterationExists
<1>5. \A n \in Nat : F[n] \in V /\ F[n + 1] = Round(F[n])
  BY <1>4
<1>6. \A n \in Nat, s \in SUBSET S :
        F[n + 1][s] = IF s = {} THEN 0 ELSE f[Pick(s)] + F[n][s \ {Pick(s)}]
  BY <1>5
<1> DEFINE T == {n \in Nat : \A s \in SUBSET S :
                   Cardinality(s) <= n => F[n + 1][s] = F[n][s]}
<1>7. \A s \in SUBSET S : IsFiniteSet(s) /\ Cardinality(s) \in Nat
  BY FS_Subset, FS_CardinalityType
<1>8. 0 \in T
  <2>1. \A s \in SUBSET S : Cardinality(s) <= 0 => s = {}
    BY <1>7, FS_EmptySet
  <2>2. F[0 + 1][{}] = 0 /\ F[0][{}] = 0
    BY <1>4, <1>6
  <2> QED
    BY <2>1, <2>2
<1>9. ASSUME NEW n \in Nat, n \in T
      PROVE  n + 1 \in T
  <2>1. SUFFICES ASSUME NEW s \in SUBSET S, Cardinality(s) <= n + 1
                 PROVE  F[(n + 1) + 1][s] = F[n + 1][s]
    OBVIOUS
  <2>2. n + 1 \in Nat
    OBVIOUS
  <2>3. CASE s = {}
    BY <1>6, <2>2, <2>3
  <2>4. CASE s # {}
    <3> DEFINE r == s \ {Pick(s)}
    <3>1. Pick(s) \in s /\ r \in SUBSET S
      BY <1>1, <2>4
    <3>2. Cardinality(r) = Cardinality(s) - 1
      BY <1>7, <3>1, FS_RemoveElement
    <3>3. Cardinality(r) <= n
      BY <1>7, <2>1, <3>2
    <3>4. F[n + 1][r] = F[n][r]
      BY <1>9, <3>1, <3>3
    <3>5. /\ F[(n + 1) + 1][s] = f[Pick(s)] + F[n + 1][r]
          /\ F[n + 1][s] = f[Pick(s)] + F[n][r]
      BY <1>6, <2>2, <2>4
    <3> QED
      BY <3>4, <3>5
  <2> QED
    BY <2>3, <2>4
<1>10. Nat \subseteq T
  <2> HIDE DEF T
  <2> QED
    BY <1>8, <1>9, SetInduction
<1>11. PICK k \in Nat : k = Cardinality(S)
  BY FS_CardinalityType
<1>12. \A s \in SUBSET S : Cardinality(s) <= k
  BY <1>11, FS_Subset
<1>13. \A s \in SUBSET S : F[k + 1][s] = F[k][s]
  BY <1>10, <1>12
<1>14. PICK h \in V : h = F[k]
  BY <1>5
<1>15. h = [s \in SUBSET S |-> IF s = {} THEN 0
                               ELSE LET x == CHOOSE x \in s : TRUE
                                    IN  f[x] + h[s \ {x}]]
  <2>1. \A s \in SUBSET S :
          h[s] = IF s = {} THEN 0 ELSE f[Pick(s)] + h[s \ {Pick(s)}]
    BY <1>6, <1>13, <1>14
  <2> QED
    BY <2>1 DEF Pick
<1> DEFINE sums == SumsOver(S, f)
<1>16. sums = [s \in SUBSET S |->
                 IF s = {} THEN 0
                 ELSE LET x == CHOOSE x \in s : TRUE
                      IN  f[x] + sums[s \ {x}]]
  BY <1>15 DEF SumsOver
<1> HIDE DEF sums
<1>17. /\ sums = [s \in SUBSET S |-> sums[s]] /\ sums[{}] = 0
       /\ \A s \in SUBSET S : s # {} =>
            sums[s] = f[Pick(s)] + sums[s \ {Pick(s)}]
  BY <1>16 DEF Pick
<1> DEFINE P == {s \in SUBSET S : sums[s] \in Int}
<1>18. {} \in P
  BY <1>17
<1>19. ASSUME NEW s \in SUBSET S, s # {}, s \ {Pick(s)} \in P
       PROVE  s \in P
  <2>1. f[Pick(s)] \in Int /\ sums[s \ {Pick(s)}] \in Int
    BY <1>0, <1>1, <1>19
  <2>2. sums[s] = f[Pick(s)] + sums[s \ {Pick(s)}]
    BY <1>17, <1>19
  <2>3. sums[s] \in Int
    BY <2>1, <2>2
  <2> QED
    BY <2>3
<1>20. SUBSET S \subseteq P
  <2> HIDE DEF P
  <2> QED
    BY <1>18, <1>19, SubsetInduction
<1> QED
  BY <1>1, <1>17, <1>20 DEF sums, Stepwise

\* The sum of nothing but zeros.
LEMMA SumOfZeros ==
  ASSUME NEW S, IsFiniteSet(S), NEW f, Summable(f, S), \A x \in S : f[x] = 0
  PROVE  SumsOver(S, f)[S] = 0
<1>1. PICK sums : sums = SumsOver(S, f) /\ Stepwise(sums, f, S)
  BY SumsStepwise
<1> DEFINE P == {s \in SUBSET S : sums[s] = 0}
<1>2. {} \in P
  BY <1>1 DEF Stepwise
<1>3. ASSUME NEW s \in SUBSET S, s # {}, s \ {Pick(s)} \in P
      PROVE  s \in P
  BY <1>1, <1>3 DEF Stepwise
<1>4. SUBSET S \subseteq P
  <2> HIDE DEF P
  <2> QED
    BY <1>2, <1>3, SubsetInduction
<1> QED
  BY <1>1, <1>4

\* The sum after one summand changed.
LEMMA SumUpdated ==
  ASSUME NEW S, IsFiniteSet(S), NEW f, Summable(f, S),
         NEW v \in S, NEW e \in Int,
         NEW F, F[v] = f[v] + e, \A x \in S \ {v} : F[x] = f[x]
  PROVE  SumsOver(S, F)[S] = SumsOver(S, f)[S] + e
<1>1. Summable(F, S)
  BY DEF Summable
<1>2. PICK old : old = SumsOver(S, f) /\ Stepwise(old, f, S)
  BY SumsStepwise
<1>3. PICK new : new = SumsOver(S, F) /\ Stepwise(new, F, S)
  BY <1>1, SumsStepwise
<1> DEFINE P == {s \in SUBSET S :
                   new[s] = old[s] + (IF v \in s THEN e ELSE 0)}
<1>4. {} \in P
  BY <1>2, <1>3 DEF Stepwise
<1>5. ASSUME NEW s \in SUBSET S, s # {}, s \ {Pick(s)} \in P
      PROVE  s \in P
  <2> DEFINE r == s \ {Pick(s)}
  <2>1. /\ Pick(s) \in s /\ r \in SUBSET S
        /\ old[s] = f[Pick(s)] + old[r] /\ new[s] = F[Pick(s)] + new[r]
        /\ old[r] \in Int /\ new[r] \in Int /\ old[s] \in Int
    BY <1>2, <1>3, <1>5 DEF Stepwise
  <2>2. new[r] = old[r] + (IF v \in r THEN e ELSE 0)
    BY <1>5
  <2>3. f[Pick(s)] \in Int /\ F[Pick(s)] \in Int
    BY <1>1, <2>1 DEF Summable
  <2>4. CASE Pick(s) = v
    BY <1>1, <2>1, <2>2, <2>3, <2>4
  <2>5. CASE Pick(s) # v
    <3>1. v \in r <=> v \in s
      BY <2>5
    <3>2. F[Pick(s)] = f[Pick(s)]
      BY <1>1, <2>1, <2>5
    <3> HIDE DEF r
    <3> QED
      BY <2>1, <2>2, <2>3, <3>1, <3>2
  <2> QED
    BY <2>4, <2>5
<1>6. SUBSET S \subseteq P
  <2> HIDE DEF P
  <2> QED
    BY <1>4, <1>5, SubsetInduction
<1>7. new[S] = old[S] + e
  BY <1>6
<1> QED
  BY <1>2, <1>3, <1>7
-----------------------------------------------------------------------------
(* Folds over sequences: FoldLeft recurs on the set of places, largest first *)

\* A non-empty set of numbers up to n has a largest one.
LEMMA MaxOfRange ==
  ASSUME NEW n \in Nat, NEW s \in SUBSET (1..n), s # {}
  PROVE  Max(s) \in s /\ \A y \in s : Max(s) >= y
<1> DEFINE S == {k \in Nat : \A t \in SUBSET (1..k) : t # {} =>
                   \E x \in t : \A y \in t : x >= y}
<1>1. 0 \in S
  <2>1. 1..0 = {}
    OBVIOUS
  <2> QED
    BY <2>1
<1>2. ASSUME NEW k \in Nat, k \in S
      PROVE  k + 1 \in S
  <2>1. SUFFICES ASSUME NEW t \in SUBSET (1..(k + 1)), t # {}
                 PROVE  \E x \in t : \A y \in t : x >= y
    OBVIOUS
  <2>2. CASE k + 1 \in t
    BY <2>2
  <2>3. CASE k + 1 \notin t
    <3>1. t \in SUBSET (1..k)
      BY <2>3
    <3> QED
      BY <1>2, <2>1, <3>1
  <2> QED
    BY <2>2, <2>3
<1>3. n \in S
  <2> HIDE DEF S
  <2> QED
    BY <1>1, <1>2, SetInduction
<1> QED
  BY <1>3 DEF Max

\* One round of such a recursion.
FoldRound(h, n, a, g) ==
  [s \in SUBSET (1..n) |-> IF s = {} THEN a ELSE g[<<h[s \ {Max(s)}], Max(s)>>]]

\* a and g describe a fold over n elements with values in V. h is a solution
\* of its recursion, or satisfies it where it has values in V; f is the fold of
\* the prefixes.
Foldable(V, n, a, g) == n \in Nat /\ a \in V /\ g \in [V \X (1..n) -> V]

Solution(V, n, a, g, h) ==
  h \in [SUBSET (1..n) -> V] /\ h = FoldRound(h, n, a, g)

Satisfies(V, n, a, g, h) ==
  /\ h[{}] = a
  /\ \A s \in SUBSET (1..n) : s # {} /\ h[s \ {Max(s)}] \in V =>
       h[s] = g[<<h[s \ {Max(s)}], Max(s)>>]

Folded(V, n, a, g, f) ==
  /\ f \in [0..n -> V]
  /\ f[0] = a
  /\ \A k \in 0..(n - 1) : f[k + 1] = g[<<f[k], k + 1>>]

\* The same with its hypotheses and its conclusion under names.
Iterable(V, a, g) == a \in V /\ g \in [V -> V]

Iterated(V, a, g, f) ==
  f \in [Nat -> V] /\ f[0] = a /\ \A n \in Nat : f[n + 1] = g[f[n]]

LEMMA IterableIterated ==
  ASSUME NEW V, NEW a, NEW g, Iterable(V, a, g)
  PROVE  \E f : Iterated(V, a, g, f)
  BY IterationExists DEF Iterable, Iterated

\* The recursion has a solution: iterated from anything, it is right for the
\* sets of at most k elements after k rounds.
LEMMA SolutionExists ==
  ASSUME NEW U, NEW n, NEW b, NEW c, Foldable(U, n, b, c)
  PROVE  \E h : Solution(U, n, b, c, h)
<1>0. n \in Nat /\ b \in U /\ c \in [U \X (1..n) -> U]
  BY DEF Foldable
<1>1. \A s \in SUBSET (1..n) : s # {} =>
        Max(s) \in 1..n /\ Max(s) \in s /\ s \ {Max(s)} \in SUBSET (1..n)
  BY <1>0, MaxOfRange
<1>w. PICK W : W = [SUBSET (1..n) -> U]
  OBVIOUS
<1>2. ASSUME NEW h \in W
      PROVE  FoldRound(h, n, b, c) \in W
  <2>1. \A s \in SUBSET (1..n) : s # {} => c[<<h[s \ {Max(s)}], Max(s)>>] \in U
    BY <1>0, <1>1, <1>w
  <2> QED
    BY <1>0, <1>w, <2>1 DEF FoldRound
<1>3. PICK base \in W : base = [s \in SUBSET (1..n) |-> b]
  <2>1. [s \in SUBSET (1..n) |-> b] \in W
    BY <1>0, <1>w
  <2> QED
    BY <2>1
<1>s. PICK step \in [W -> W] : step = [h \in W |-> FoldRound(h, n, b, c)]
  <2>1. [h \in W |-> FoldRound(h, n, b, c)] \in [W -> W]
    BY <1>2
  <2> QED
    BY <2>1
<1>4. PICK F : Iterated(W, base, step, F)
  <2>1. Iterable(W, base, step)
    BY DEF Iterable
  <2> QED
    BY <2>1, IterableIterated
<1>5. \A k \in Nat : F[k] \in W /\ F[k + 1] = FoldRound(F[k], n, b, c)
  BY <1>4, <1>s DEF Iterated
<1>6. \A k \in Nat, s \in SUBSET (1..n) :
        F[k + 1][s] = IF s = {} THEN b ELSE c[<<F[k][s \ {Max(s)}], Max(s)>>]
  BY <1>5 DEF FoldRound
<1> DEFINE T == {k \in Nat : \A s \in SUBSET (1..n) :
                   Cardinality(s) <= k => F[k + 1][s] = F[k][s]}
<1>7. \A s \in SUBSET (1..n) : IsFiniteSet(s) /\ Cardinality(s) \in Nat
  <2>1. IsFiniteSet(1..n)
    BY <1>0, FS_Interval
  <2> QED
    BY <2>1, FS_Subset, FS_CardinalityType
<1>8. 0 \in T
  <2>1. \A s \in SUBSET (1..n) : Cardinality(s) <= 0 => s = {}
    BY <1>7, FS_EmptySet
  <2>2. F[0 + 1][{}] = b
    BY <1>6
  <2>3. F[0][{}] = b
    BY <1>3, <1>4 DEF Iterated
  <2> QED
    BY <2>1, <2>2, <2>3
<1>9. ASSUME NEW k \in Nat, k \in T
      PROVE  k + 1 \in T
  <2>1. SUFFICES ASSUME NEW s \in SUBSET (1..n), Cardinality(s) <= k + 1
                 PROVE  F[(k + 1) + 1][s] = F[k + 1][s]
    <3>1. k + 1 \in Nat
      OBVIOUS
    <3> QED
      BY <3>1
  <2>2. k + 1 \in Nat
    OBVIOUS
  <2>3. CASE s = {}
    BY <1>6, <2>2, <2>3
  <2>4. CASE s # {}
    <3> DEFINE r == s \ {Max(s)}
    <3>1. Max(s) \in s /\ r \in SUBSET (1..n)
      BY <1>1, <2>4
    <3>2. Cardinality(r) = Cardinality(s) - 1
      BY <1>7, <3>1, FS_RemoveElement
    <3>3. Cardinality(r) <= k
      BY <1>7, <2>1, <3>2
    <3>4. F[k + 1][r] = F[k][r]
      BY <1>9, <3>1, <3>3
    <3>5. /\ F[(k + 1) + 1][s] = c[<<F[k + 1][r], Max(s)>>]
          /\ F[k + 1][s] = c[<<F[k][r], Max(s)>>]
      BY <1>6, <2>2, <2>4
    <3> QED
      BY <3>4, <3>5
  <2> QED
    BY <2>3, <2>4
<1>10. Nat \subseteq T
  <2> HIDE DEF T
  <2> QED
    BY <1>8, <1>9, SetInduction
<1>11. \A s \in SUBSET (1..n) : Cardinality(s) <= n
  <2>1. IsFiniteSet(1..n) /\ Cardinality(1..n) = n
    <3>1. IsFiniteSet(1..n)
          /\ Cardinality(1..n) = IF 1 > n THEN 0 ELSE n - 1 + 1
      BY <1>0, FS_Interval
    <3>2. (IF 1 > n THEN 0 ELSE n - 1 + 1) = n
      BY <1>0
    <3> QED
      BY <3>1, <3>2
  <2> HIDE DEF T
  <2>2. \A s \in SUBSET (1..n) : Cardinality(s) <= Cardinality(1..n)
    BY <2>1, FS_Subset
  <2> QED
    BY <2>1, <2>2
<1>12. \A s \in SUBSET (1..n) : F[n + 1][s] = F[n][s]
  BY <1>0, <1>10, <1>11
<1>13. PICK h \in W : h = F[n]
  BY <1>0, <1>5
<1>14. h = FoldRound(h, n, b, c)
  <2>1. \A s \in SUBSET (1..n) :
          h[s] = IF s = {} THEN b ELSE c[<<h[s \ {Max(s)}], Max(s)>>]
    BY <1>0, <1>6, <1>12, <1>13
  <2>2. h \in [SUBSET (1..n) -> U]
    BY <1>w
  <2>3. h = [s \in SUBSET (1..n) |-> h[s]]
    BY <2>2
  <2> QED
    BY <2>1, <2>3 DEF FoldRound
<1> QED
  BY <1>w, <1>14 DEF Solution

\* Along the prefixes a solution takes the elements one by one from the left.
LEMMA FoldedExists ==
  ASSUME NEW V, NEW n, NEW a, NEW g, NEW h,
         Foldable(V, n, a, g), Satisfies(V, n, a, g, h)
  PROVE  \E f : Folded(V, n, a, g, f) /\ f[n] = h[1..n]
<1>0. /\ n \in Nat /\ a \in V /\ g \in [V \X (1..n) -> V] /\ h[{}] = a
      /\ \A s \in SUBSET (1..n) : s # {} /\ h[s \ {Max(s)}] \in V =>
           h[s] = g[<<h[s \ {Max(s)}], Max(s)>>]
  BY DEF Foldable, Satisfies
<1> USE <1>0
<1> DEFINE f == [k \in 0..n |-> h[1..k]]
<1>1. f[0] = a
  <2>1. 1..0 = {}
    OBVIOUS
  <2> QED
    BY <2>1
<1>2. ASSUME NEW k \in 0..(n - 1), f[k] \in V
      PROVE  f[k + 1] = g[<<f[k], k + 1>>] /\ f[k + 1] \in V
  <2>1. 1..(k + 1) \in SUBSET (1..n) /\ 1..(k + 1) # {}
    OBVIOUS
  <2>2. Max(1..(k + 1)) = k + 1
    <3>1. PICK m : m = Max(1..(k + 1))
      OBVIOUS
    <3>2. m \in 1..(k + 1) /\ \A y \in 1..(k + 1) : m >= y
      BY <2>1, <3>1, MaxOfRange
    <3>3. m >= k + 1
      BY <3>2
    <3> QED
      BY <3>1, <3>2, <3>3
  <2>3. (1..(k + 1)) \ {k + 1} = 1..k
    OBVIOUS
  <2>4. f[k] = h[1..k] /\ f[k + 1] = h[1..(k + 1)]
    OBVIOUS
  <2>5. h[1..(k + 1)] = g[<<h[1..k], k + 1>>]
    BY <1>2, <2>1, <2>2, <2>3, <2>4
  <2>6. g[<<f[k], k + 1>>] \in V
    BY <1>2
  <2> QED
    BY <2>4, <2>5, <2>6
<1> DEFINE S == {k \in Nat : k <= n => f[k] \in V}
<1>3. 0 \in S
  BY <1>1
<1>4. ASSUME NEW k \in Nat, k \in S
      PROVE  k + 1 \in S
  <2>1. SUFFICES ASSUME k + 1 <= n
                 PROVE  f[k + 1] \in V
    OBVIOUS
  <2>2. k \in 0..(n - 1)
    BY <2>1
  <2>3. f[k] \in V
    BY <1>4, <2>2
  <2> HIDE DEF f
  <2> QED
    BY <1>2, <2>2, <2>3
<1>5. \A k \in 0..n : f[k] \in V
  <2>1. Nat \subseteq S
    <3> HIDE DEF S
    <3> QED
      BY <1>3, <1>4, SetInduction
  <2> HIDE DEF f
  <2> QED
    BY <2>1
<1>6. f \in [0..n -> V]
  BY <1>5
<1>7. \A k \in 0..(n - 1) : f[k + 1] = g[<<f[k], k + 1>>]
  <2>1. \A k \in 0..(n - 1) : f[k] \in V
    BY <1>5
  <2> HIDE DEF f
  <2> QED
    BY <1>2, <2>1
<1>8. f[n] = h[1..n]
  OBVIOUS
<1> QED
  BY <1>1, <1>6, <1>7, <1>8 DEF Folded

-----------------------------------------------------------------------------
(* Round-robin *)

\* A number below n is the remainder of its sum with any multiple of n.
LEMMA Remainder ==
  ASSUME NEW n \in Nat \ {0}, NEW d \in Int, NEW x \in 0..(n - 1)
  PROVE  (d * n + x) % n = x
<1>1. PICK y \in Int : y = d * n + x
  OBVIOUS
<1>2. PICK e \in Int : e = y \div n
  BY <1>1
<1>3. PICK m \in 0..(n - 1) : m = y % n
  BY <1>1
<1>4. y = e * n + m
  BY <1>1, <1>2, <1>3
<1>5. PICK f \in Int : f = d - e
  OBVIOUS
<1>6. f * n = m - x
  BY <1>1, <1>4, <1>5
<1>7. ~(f >= 1)
  <2>1. f >= 1 => f * n >= n
    OBVIOUS
  <2> QED
    BY <1>6, <2>1
<1>8. ~(f <= -1)
  <2>1. f <= -1 => f * n <= -n
    OBVIOUS
  <2> QED
    BY <1>6, <2>1
<1>9. f = 0
  BY <1>7, <1>8
<1> QED
  BY <1>1, <1>3, <1>6, <1>9

\* Every k up to n has its turn, wherever the turns start.
LEMMA TurnComes ==
  ASSUME NEW n \in Nat \ {0}, NEW start \in Nat, NEW k \in 1..n
  PROVE  \E i \in 1..n : ((start + i - 1) % n) + 1 = k
<1>1. PICK m \in 0..(n - 1) : m = start % n
  OBVIOUS
<1>2. PICK d \in Int : start = d * n + m
  <2>1. start \div n \in Int
    BY <1>1
  <2>2. start = (start \div n) * n + (start % n)
    BY <1>1
  <2> QED
    BY <1>1, <2>1, <2>2
<1>3. CASE m <= k - 1
  <2>1. k - m \in 1..n /\ k - 1 \in 0..(n - 1)
    BY <1>1, <1>3
  <2>2. start + (k - m) - 1 = d * n + (k - 1)
    BY <1>1, <1>2
  <2>3. (d * n + (k - 1)) % n = k - 1
    BY <1>1, <2>1, Remainder
  <2>4. ((start + (k - m) - 1) % n) + 1 = k
    BY <2>2, <2>3
  <2> QED
    BY <2>1, <2>4
<1>4. CASE m > k - 1
  <2>1. n + k - m \in 1..n /\ k - 1 \in 0..(n - 1)
    BY <1>1, <1>4
  <2>2. PICK c \in Int : c = d + 1
    OBVIOUS
  <2>3. start + (n + k - m) - 1 = c * n + (k - 1)
    BY <1>1, <1>2, <2>2
  <2>4. (c * n + (k - 1)) % n = k - 1
    BY <1>1, <2>1, Remainder
  <2>5. ((start + (n + k - m) - 1) % n) + 1 = k
    BY <2>3, <2>4
  <2> QED
    BY <2>1, <2>5
<1> QED
  BY <1>1, <1>3, <1>4
=============================================================================
