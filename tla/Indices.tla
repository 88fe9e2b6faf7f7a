------------------------------ MODULE Indices -------------------------------
(***************************************************************************)
(* A set of natural numbers has a least element and a bounded one a        *)
(* greatest; a function on 1 .. n is a sequence: what the proofs need of   *)
(* the operators that choose the first or the last of something, or the    *)
(* first index of a sequence.  From the least number also induction, for   *)
(* a set instead of a predicate, and with it what the sums of              *)
(* FiniteSetsExt are: they exist, and do not depend on the order.          *)
(***************************************************************************)
EXTENDS FiniteSetsExt, FiniteSetTheorems, SequenceTheorems, TLAPS

LEMMA LeastNumber ==
    ASSUME NEW S \in SUBSET Nat, S # {}
    PROVE  \E m \in S : \A k \in S : m <= k
<1> DEFINE Upto == {0 .. n : n \in S}
           R    == StrictSubsetOrdering(Nat)
<1>1. IsWellFoundedOn(R, FiniteSubsetsOf(Nat))
      BY FS_StrictSubsetOrderingWellFounded
<1>2. Upto \subseteq FiniteSubsetsOf(Nat)
  <2>1. \A n \in S : IsFiniteSet(0 .. n)
        BY FS_Interval
  <2>2. \A n \in S : 0 .. n \in SUBSET Nat
        OBVIOUS
  <2> QED BY <2>1, <2>2 DEF FiniteSubsetsOf
<1>3. Upto # {}
      OBVIOUS
<1>4. PICK x \in Upto : \A y \in Upto : ~(<<y, x>> \in R)
      BY <1>1, <1>2, <1>3, WFMin
<1>5. PICK m \in S : x = 0 .. m
      BY <1>4
<1>6. ASSUME NEW k \in S, k < m PROVE FALSE
  <2>1. /\ 0 .. k \in Upto /\ 0 .. k \subseteq 0 .. m
        /\ m \in 0 .. m /\ m \notin 0 .. k
        BY <1>6
  <2>2. <<0 .. k, x>> \in R
        BY <2>1, <1>5 DEF StrictSubsetOrdering
  <2> QED BY <1>4, <2>1, <2>2
<1> QED BY <1>5, <1>6

LEMMA GreatestNumber ==
    ASSUME NEW n \in Nat, NEW S \in SUBSET (0 .. n), S # {}
    PROVE  \E m \in S : \A k \in S : k <= m
<1> DEFINE D == {n - k : k \in S}
<1>1. D \in SUBSET Nat /\ D # {}
  <2>1. \A k \in 0 .. n : n - k \in Nat
        OBVIOUS
  <2> QED BY <2>1
<1>2. PICK d \in D : \A e \in D : d <= e
      BY <1>1, LeastNumber
<1>3. PICK m \in S : d = n - m
      BY <1>2
<1>4. \A k \in S : d <= n - k /\ k \in Int
      BY <1>2
<1> HIDE DEF D
<1>5. m \in Int
      BY <1>4
<1> QED BY <1>3, <1>4, <1>5

\* What SequencesExt!SelectInSeq gives: the first of the indices, or 0.
LEMMA FirstIndex ==
    ASSUME NEW n \in Nat, NEW I \in SUBSET (1 .. n)
    PROVE  LET i == IF I # {} THEN Min(I) ELSE 0
           IN  /\ i \in 0 .. n
               /\ i = 0 <=> I = {}
               /\ i # 0 => i \in I /\ \A j \in I : i <= j
<1>1. I # {} => Min(I) \in I /\ \A j \in I : Min(I) <= j
  <2>1. I # {} => \E m \in I : \A k \in I : m <= k
        BY LeastNumber
  <2> QED BY <2>1 DEF Min
<1>2. 0 \notin I /\ I \subseteq 0 .. n
      OBVIOUS
<1>3. CASE I = {}
      BY <1>3
<1>4. CASE I # {}
      BY <1>1, <1>2, <1>4
<1> QED BY <1>3, <1>4

LEMMA IsSequence ==
    ASSUME NEW S, NEW n \in Nat, NEW s \in [1 .. n -> S]
    PROVE  s \in Seq(S) /\ Len(s) = n
<1>1. s \in Seq(S)
      BY SeqDef
<1>2. Len(s) \in Nat /\ DOMAIN s = 1 .. Len(s)
      BY <1>1, LenProperties
<1> QED BY <1>1, <1>2

-----------------------------------------------------------------------------
(* Induction on numbers, for a set of numbers, and on the cardinality of the *)
(* subsets of a finite set                                                   *)

LEMMA SetInduction ==
    ASSUME NEW T \in SUBSET Nat, 0 \in T, \A n \in T : n + 1 \in T
    PROVE  T = Nat
<1> SUFFICES ASSUME Nat \ T # {} PROVE FALSE
    OBVIOUS
<1>1. PICK m \in Nat \ T : \A k \in Nat \ T : m <= k
      BY LeastNumber
<1>2. m # 0 /\ m - 1 \in Nat /\ ~(m <= m - 1) /\ (m - 1) + 1 = m
      BY <1>1
<1>3. m - 1 \in T
      BY <1>1, <1>2
<1> QED BY <1>1, <1>2, <1>3

\* A property that a set has when all smaller ones have it: X is the set of
\* the subsets that have it.
LEMMA SubsetInduction ==
    ASSUME NEW S, IsFiniteSet(S), NEW X,
           \A s \in SUBSET S :
              (\A r \in SUBSET S : Cardinality(r) < Cardinality(s) => r \in X) => s \in X
    PROVE  SUBSET S \subseteq X
<1> DEFINE T == {n \in Nat : \A r \in SUBSET S : Cardinality(r) < n => r \in X}
<1>1. \A r \in SUBSET S : IsFiniteSet(r) /\ Cardinality(r) \in Nat
      BY FS_Subset, FS_CardinalityType
<1>2. 0 \in T
      BY <1>1
<1>3. ASSUME NEW n \in T PROVE n + 1 \in T
  <2>1. n \in Nat /\ \A r \in SUBSET S : Cardinality(r) < n => r \in X
        OBVIOUS
  <2> HIDE DEF T
  <2>2. ASSUME NEW s \in SUBSET S, Cardinality(s) < n + 1 PROVE s \in X
    <3>1. \A a, b \in Nat : a < b /\ b < n + 1 => a < n
          BY <2>1
    <3>2. \A r \in SUBSET S : Cardinality(r) < Cardinality(s) => r \in X
          BY <1>1, <2>1, <2>2, <3>1
    <3> QED BY <3>2
  <2> QED BY <2>1, <2>2 DEF T
<1>4. T = Nat
  <2>1. T \in SUBSET Nat
        OBVIOUS
  <2> HIDE DEF T
  <2> QED BY <1>2, <1>3, <2>1, SetInduction
<1>5. ASSUME NEW s \in SUBSET S PROVE s \in X
  <2>1. Cardinality(s) + 1 \in T /\ Cardinality(s) < Cardinality(s) + 1
        BY <1>1, <1>4
  <2> QED BY <2>1
<1> QED BY <1>5

\* What holds for x when it holds where the measure m is smaller: X is the set
\* of those for which it holds.
Inherited(S, m, X) == \A x \in S : (\A y \in S : m[y] < m[x] => y \in X) => x \in X

LEMMA MeasureInduction ==
    ASSUME NEW S, NEW n \in Nat, NEW m \in [S -> 0 .. n], NEW X, Inherited(S, m, X)
    PROVE  S \subseteq X
<1> DEFINE T == {k \in Nat : \A x \in S : m[x] < k => x \in X}
<1>1. 0 \in T
      OBVIOUS
<1>2. ASSUME NEW k \in T PROVE k + 1 \in T
  <2>1. k \in Nat /\ \A x \in S : m[x] < k => x \in X
        OBVIOUS
  <2> HIDE DEF T
  <2>2. ASSUME NEW x \in S, m[x] < k + 1 PROVE x \in X
    <3>1. \A a, b \in Nat : a < b /\ b < k + 1 => a < k
          BY <2>1
    <3>2. \A y \in S : m[y] \in Nat
          OBVIOUS
    <3>3. \A y \in S : m[y] < m[x] => y \in X
          BY <2>1, <2>2, <3>1, <3>2
    <3> QED BY <3>3 DEF Inherited
  <2> QED BY <2>1, <2>2 DEF T
<1>3. T = Nat
  <2>1. T \in SUBSET Nat
        OBVIOUS
  <2> HIDE DEF T
  <2> QED BY <1>1, <1>2, <2>1, SetInduction
<1>4. n + 1 \in T
  <2> HIDE DEF T
  <2> QED BY <1>3
<1>5. \A x \in S : m[x] < n + 1
      OBVIOUS
<1> QED BY <1>4, <1>5

\* A definition by recursion, with F[x][g] for the value at x, has a solution
\* if that looks at g only where the measure m is smaller, and m is bounded.
Causal(S, V, m, F) ==
    \A x \in S : \A g, h \in [S -> V] :
       (\A y \in S : m[y] < m[x] => g[y] = h[y]) => F[x][g] = F[x][h]
SolvesAll(S, F, g) == \A x \in S : g[x] = F[x][g]

LEMMA RecursionExists ==
    ASSUME NEW S, NEW V, V # {}, NEW n \in Nat, NEW m \in [S -> 0 .. n],
           NEW F \in [S -> [[S -> V] -> V]], Causal(S, V, m, F)
    PROVE  \E g \in [S -> V] : SolvesAll(S, F, g)
<1> DEFINE Good(k, g) == \A x \in S : m[x] < k => g[x] = F[x][g]
           T == {k \in Nat : \E g \in [S -> V] : Good(k, g)}
<1>1. 0 \in T
  <2>1. PICK v : v \in V
        OBVIOUS
  <2>2. [x \in S |-> v] \in [S -> V]
        BY <2>1
  <2>3. \A x \in S : ~(m[x] < 0)
        OBVIOUS
  <2> QED BY <2>2, <2>3
<1>2. ASSUME NEW k \in T PROVE k + 1 \in T
  <2>1. k \in Nat /\ \E g \in [S -> V] : Good(k, g)
        OBVIOUS
  <2>2. PICK g \in [S -> V] : Good(k, g)
        BY <2>1
  <2> DEFINE h == [x \in S |-> IF m[x] < k THEN g[x] ELSE F[x][g]]
  <2>3. h \in [S -> V]
        OBVIOUS
  <2>4. \A x \in S : m[x] < k => h[x] = g[x]
        OBVIOUS
  <2>5. \A x \in S : h[x] = F[x][g]
        BY <2>2
  <2> HIDE DEF h
  <2>6. ASSUME NEW x \in S, m[x] < k + 1 PROVE h[x] = F[x][h]
    <3>1. m[x] \in Nat
          OBVIOUS
    <3>2. \A y \in S : m[y] < m[x] => m[y] < k
      <4>1. \A y \in S : m[y] \in Nat
            OBVIOUS
      <4>2. \A a, b \in Nat : a < b /\ b < k + 1 => a < k
            BY <2>1
      <4> QED BY <2>6, <3>1, <4>1, <4>2
    <3>3. \A y \in S : m[y] < m[x] => g[y] = h[y]
          BY <2>4, <3>2
    <3>4. F[x][g] = F[x][h]
          BY <2>3, <3>3 DEF Causal
    <3> QED BY <2>5, <3>4
  <2>7. Good(k + 1, h)
        BY <2>6
  <2>8. k + 1 \in Nat
        BY <2>1
  <2> HIDE DEF Good
  <2> QED BY <2>3, <2>7, <2>8
<1>3. T = Nat
  <2>1. T \in SUBSET Nat
        OBVIOUS
  <2> HIDE DEF T
  <2> QED BY <1>1, <1>2, <2>1, SetInduction
<1>4. PICK g \in [S -> V] : Good(n + 1, g)
  <2>1. n + 1 \in T
    <3> HIDE DEF T
    <3> QED BY <1>3
  <2> QED BY <2>1
<1>5. \A x \in S : m[x] < n + 1
      OBVIOUS
<1> QED BY <1>4, <1>5 DEF SolvesAll

-----------------------------------------------------------------------------
(* Sums over finite sets, as FiniteSetsExt!MapThenSumSet forms them: element *)
(* by element, in the order in which CHOOSE takes them                       *)

Chosen(s) == CHOOSE x \in s : TRUE

\* g gives the sum of the f[x] for each subset of S.
Sums(f, S, g) ==
    g = [s \in SUBSET S |-> IF s = {} THEN 0 ELSE f[Chosen(s)] + g[s \ {Chosen(s)}]]

\* Taking the chosen element away leaves a smaller set.
LEMMA ChosenIs ==
    ASSUME NEW S, IsFiniteSet(S), NEW s \in SUBSET S, NEW x \in s
    PROVE  /\ Chosen(s) \in s /\ s \ {x} \in SUBSET S
           /\ Cardinality(s \ {x}) < Cardinality(s) /\ Cardinality(s) \in Nat
           /\ Cardinality(s \ {x}) \in Nat
<1>1. IsFiniteSet(s) /\ Cardinality(s) \in Nat
      BY FS_Subset, FS_CardinalityType
<1>2. Cardinality(s \ {x}) = Cardinality(s) - 1 /\ IsFiniteSet(s \ {x})
      BY <1>1, FS_RemoveElement
<1>3. Cardinality(s \ {x}) \in Nat
      BY <1>2, FS_CardinalityType
<1>4. Chosen(s) \in s
      BY DEF Chosen
<1> QED BY <1>1, <1>2, <1>3, <1>4

LEMMA SumTypes ==
    ASSUME NEW S, IsFiniteSet(S), NEW f \in [S -> Int], NEW g, Sums(f, S, g)
    PROVE  /\ g \in [SUBSET S -> Int] /\ g[{}] = 0
           /\ \A s \in SUBSET S : s # {} =>
                 /\ Chosen(s) \in s
                 /\ g[s] = f[Chosen(s)] + g[s \ {Chosen(s)}]
<1> DEFINE X == {s \in SUBSET S : g[s] \in Int}
<1>1. \A s \in SUBSET S : g[s] = IF s = {} THEN 0 ELSE f[Chosen(s)] + g[s \ {Chosen(s)}]
      BY DEF Sums
<1>2. \A s \in SUBSET S : s # {} => Chosen(s) \in s
      BY DEF Chosen
<1>3. ASSUME NEW s \in SUBSET S,
             \A r \in SUBSET S : Cardinality(r) < Cardinality(s) => r \in X
      PROVE  s \in X
  <2>1. CASE s = {}
    <3>1. g[s] = 0
          BY <1>1, <2>1
    <3> QED BY <3>1
  <2>2. CASE s # {}
    <3>1. Chosen(s) \in s /\ s \ {Chosen(s)} \in X
          BY <1>2, <1>3, <2>2, ChosenIs
    <3>2. g[s \ {Chosen(s)}] \in Int /\ f[Chosen(s)] \in Int
          BY <3>1
    <3> QED BY <1>1, <2>2, <3>2
  <2> QED BY <2>1, <2>2
<1>4. SUBSET S \subseteq X
  <2> HIDE DEF X
  <2> QED BY <1>3, SubsetInduction
<1>5. DOMAIN g = SUBSET S /\ g = [s \in SUBSET S |-> g[s]]
  <2>1. PICK h : h = [s \in SUBSET S |-> IF s = {} THEN 0 ELSE f[Chosen(s)] + g[s \ {Chosen(s)}]]
        OBVIOUS
  <2>2. DOMAIN h = SUBSET S /\ h = [s \in SUBSET S |-> h[s]]
        BY <2>1
  <2> QED BY <2>1, <2>2 DEF Sums
<1>6. g[{}] = 0
      BY <1>1
<1> QED BY <1>1, <1>2, <1>4, <1>5, <1>6

LEMMA SumsExist ==
    ASSUME NEW S, IsFiniteSet(S), NEW f \in [S -> Int]
    PROVE  \E g : Sums(f, S, g)
<1> DEFINE D(n) == {s \in SUBSET S : Cardinality(s) < n}
           Step(g, s) == IF s = {} THEN 0 ELSE f[Chosen(s)] + g[s \ {Chosen(s)}]
           Good(n, g) == g = [s \in D(n) |-> Step(g, s)]
           T == {n \in Nat : \E g : Good(n, g)}
<1>1. \A r \in SUBSET S : IsFiniteSet(r) /\ Cardinality(r) \in Nat
      BY FS_Subset, FS_CardinalityType
<1>2. 0 \in T
  <2>1. D(0) = {}
        BY <1>1
  <2> DEFINE g == [s \in {} |-> 0]
  <2>2. g = [s \in D(0) |-> Step(g, s)]
        BY <2>1
  <2> QED BY <2>2
<1>3. ASSUME NEW n \in T PROVE n + 1 \in T
  <2>1. n \in Nat /\ \E g : Good(n, g)
        OBVIOUS
  <2>2. PICK g : Good(n, g)
        BY <2>1
  <2> DEFINE h == [s \in D(n + 1) |-> Step(g, s)]
  <2>3. D(n) \subseteq D(n + 1)
        BY <1>1, <2>1
  <2>4. \A s \in D(n) : g[s] = Step(g, s)
        BY <2>2
  <2>5. \A s \in D(n) : h[s] = g[s]
        BY <2>3, <2>4
  <2>6. ASSUME NEW s \in D(n + 1), s # {} PROVE s \ {Chosen(s)} \in D(n)
    <3>1. Chosen(s) \in s
          BY <2>6 DEF Chosen
    <3>2. /\ s \ {Chosen(s)} \in SUBSET S /\ Cardinality(s \ {Chosen(s)}) < Cardinality(s)
          /\ Cardinality(s) \in Nat /\ Cardinality(s \ {Chosen(s)}) \in Nat
          BY <3>1, ChosenIs
    <3> QED BY <2>1, <3>2
  <2>7. \A s \in D(n + 1) : Step(g, s) = Step(h, s)
        BY <2>5, <2>6
  <2>8. Good(n + 1, h)
    <3> HIDE DEF D, Step
    <3> QED BY <2>7
  <2>9. n + 1 \in Nat
        BY <2>1
  <2> HIDE DEF Good
  <2> QED BY <2>8, <2>9
<1>4. T = Nat
  <2>1. T \in SUBSET Nat
        OBVIOUS
  <2> HIDE DEF T
  <2> QED BY <1>2, <1>3, <2>1, SetInduction
<1>5. Cardinality(S) + 1 \in T
  <2>1. Cardinality(S) + 1 \in Nat
        BY FS_CardinalityType
  <2> HIDE DEF T
  <2> QED BY <1>4, <2>1
<1>6. PICK g : Good(Cardinality(S) + 1, g)
      BY <1>5
<1>7. D(Cardinality(S) + 1) = SUBSET S
  <2>1. \A s \in SUBSET S : Cardinality(s) <= Cardinality(S)
        BY FS_Subset
  <2>2. Cardinality(S) \in Nat
        BY FS_CardinalityType
  <2> QED BY <1>1, <2>1, <2>2
<1> QED BY <1>6, <1>7 DEF Sums

\* The order does not matter: any element can be taken first.
AnyFirst(f, S, g) == \A s \in SUBSET S : \A x \in s : g[s] = f[x] + g[s \ {x}]

LEMMA SumWithout ==
    ASSUME NEW S, IsFiniteSet(S), NEW f \in [S -> Int], NEW g, Sums(f, S, g)
    PROVE  AnyFirst(f, S, g)
<1> DEFINE X == {s \in SUBSET S : \A x \in s : g[s] = f[x] + g[s \ {x}]}
<1>0. \A s \in SUBSET S : s # {} =>
         Chosen(s) \in s /\ g[s] = f[Chosen(s)] + g[s \ {Chosen(s)}]
      BY DEF Sums, Chosen
<1>1. ASSUME NEW s \in SUBSET S,
             \A r \in SUBSET S : Cardinality(r) < Cardinality(s) => r \in X
      PROVE  s \in X
  <2> SUFFICES ASSUME NEW x \in s PROVE g[s] = f[x] + g[s \ {x}]
      OBVIOUS
  <2> DEFINE y == Chosen(s)
  <2>1. y \in s /\ g[s] = f[y] + g[s \ {y}]
    <3>1. s # {}
          OBVIOUS
    <3> QED BY <1>0, <3>1
  <2>2. /\ s \ {y} \in X /\ s \ {x} \in X
        BY <1>1, <2>1, ChosenIs
  <2> HIDE DEF y
  <2>3. CASE x = y
        BY <2>1, <2>3
  <2>4. CASE x # y
    <3>1. x \in s \ {y} /\ y \in s \ {x} /\ (s \ {y}) \ {x} = (s \ {x}) \ {y}
          BY <2>1, <2>4
    <3>2. g[s \ {y}] = f[x] + g[(s \ {y}) \ {x}] /\ g[s \ {x}] = f[y] + g[(s \ {x}) \ {y}]
          BY <2>2, <3>1
    <3>3. PICK a \in Int, b \in Int, c \in Int : a = f[x] /\ b = f[y] /\ c = g[(s \ {y}) \ {x}]
      <4>1. g \in [SUBSET S -> Int] /\ (s \ {y}) \ {x} \in SUBSET S
            BY SumTypes
      <4> QED BY <2>1, <4>1
    <3>4. b + (a + c) = a + (b + c)
          OBVIOUS
    <3> QED BY <2>1, <3>1, <3>2, <3>3, <3>4
  <2> QED BY <2>3, <2>4
<1>2. SUBSET S \subseteq X
  <2> HIDE DEF X
  <2> QED BY <1>1, SubsetInduction
<1> QED BY <1>2 DEF AnyFirst

\* The sum over a set depends on the numbers of its elements only.
LEMMA SameSums ==
    ASSUME NEW S, IsFiniteSet(S), NEW f \in [S -> Int], NEW g, Sums(f, S, g),
           NEW T, IsFiniteSet(T), NEW h \in [T -> Int], NEW k, Sums(h, T, k),
           NEW R, R \subseteq S, R \subseteq T, \A x \in R : f[x] = h[x]
    PROVE  g[R] = k[R]
<1> DEFINE X == {s \in SUBSET R : g[s] = k[s]}
<1>1. IsFiniteSet(R)
      BY FS_Subset
<1>4. \A s \in SUBSET S : s # {} =>
         Chosen(s) \in s /\ g[s] = f[Chosen(s)] + g[s \ {Chosen(s)}]
      BY DEF Sums, Chosen
<1>5. \A s \in SUBSET T : s # {} => k[s] = h[Chosen(s)] + k[s \ {Chosen(s)}]
      BY DEF Sums
<1>2. ASSUME NEW s \in SUBSET R,
             \A r \in SUBSET R : Cardinality(r) < Cardinality(s) => r \in X
      PROVE  s \in X
  <2>1. g[{}] = 0 /\ k[{}] = 0
        BY SumTypes
  <2>2. CASE s # {}
    <3> DEFINE y == Chosen(s)
    <3>1. s \in SUBSET S /\ s \in SUBSET T
          OBVIOUS
    <3>2. y \in s /\ g[s] = f[y] + g[s \ {y}]
          BY <1>4, <2>2, <3>1
    <3>3. k[s] = h[y] + k[s \ {y}]
          BY <1>5, <2>2, <3>1
    <3>4. s \ {y} \in X
          BY <1>1, <1>2, <3>2, ChosenIs
    <3> HIDE DEF y
    <3> QED BY <3>2, <3>3, <3>4
  <2> QED BY <2>1, <2>2
<1>3. SUBSET R \subseteq X
  <2> HIDE DEF X
  <2> QED BY <1>1, <1>2, SubsetInduction
<1> QED BY <1>3

-----------------------------------------------------------------------------
(* The sum of f over a set *)

Total(f, S) == (CHOOSE g : Sums(f, S, g))[S]

LEMMA TotalFirst ==
    ASSUME NEW S, IsFiniteSet(S), NEW f, \A x \in S : f[x] \in Int,
           NEW T \in SUBSET S
    PROVE  /\ Total(f, T) \in Int
           /\ T = {} => Total(f, T) = 0
           /\ \A x \in T : Total(f, T) = f[x] + Total(f, T \ {x})
<1> DEFINE h == [x \in S |-> f[x]]
<1>1. ASSUME NEW s \in SUBSET S, NEW g PROVE Sums(f, s, g) <=> Sums(h, s, g)
  <2>1. ASSUME NEW r \in SUBSET s, r # {} PROVE f[Chosen(r)] = h[Chosen(r)]
    <3>1. Chosen(r) \in r
          BY <2>1 DEF Chosen
    <3> QED BY <3>1
  <2> HIDE DEF h
  <2> QED BY <2>1 DEF Sums
<1>2. h \in [S -> Int] /\ \A x \in S : h[x] = f[x]
      OBVIOUS
<1> HIDE DEF h
<1>3. PICK g : Sums(h, S, g)
      BY <1>2, SumsExist
<1>4. ASSUME NEW s \in SUBSET S PROVE Total(f, s) = g[s]
  <2> DEFINE k == CHOOSE e : Sums(f, s, e)
             hs == [x \in s |-> h[x]]
  <2>1. IsFiniteSet(s)
        BY FS_Subset
  <2>2. hs \in [s -> Int] /\ \A x \in s : hs[x] = h[x]
        BY <1>2
  <2>3. ASSUME NEW e PROVE Sums(hs, s, e) <=> Sums(h, s, e)
    <3>1. ASSUME NEW r \in SUBSET s, r # {} PROVE hs[Chosen(r)] = h[Chosen(r)]
      <4>1. Chosen(r) \in r
            BY <3>1 DEF Chosen
      <4> QED BY <4>1
    <3> HIDE DEF hs
    <3> QED BY <3>1 DEF Sums
  <2> HIDE DEF hs
  <2>4. PICK e : Sums(hs, s, e)
        BY <2>1, <2>2, SumsExist
  <2>5. Sums(f, s, e)
        BY <1>1, <2>3, <2>4
  <2>6. Sums(f, s, k)
        BY <2>5
  <2> HIDE DEF k
  <2>7. Sums(hs, s, k)
        BY <1>1, <2>3, <2>6
  <2>8. k[s] = g[s]
        BY <1>2, <1>3, <2>1, <2>2, <2>7, SameSums
  <2> QED BY <2>8 DEF Total, k
<1>5. g \in [SUBSET S -> Int] /\ g[{}] = 0
      BY <1>2, <1>3, SumTypes
<1>6. AnyFirst(h, S, g)
      BY <1>2, <1>3, SumWithout
<1>7. ASSUME NEW x \in T PROVE Total(f, T) = f[x] + Total(f, T \ {x})
  <2>1. T \ {x} \in SUBSET S /\ x \in S
        OBVIOUS
  <2>2. g[T] = h[x] + g[T \ {x}]
        BY <1>6 DEF AnyFirst
  <2> QED BY <1>2, <1>4, <2>1, <2>2
<1> QED BY <1>4, <1>5, <1>7

LEMMA TotalType ==
    ASSUME NEW S, IsFiniteSet(S), NEW f, \A x \in S : f[x] \in Int
    PROVE  Total(f, S) \in Int
BY TotalFirst

LEMMA TotalEmpty == ASSUME NEW f PROVE Total(f, {}) = 0
<1>1. IsFiniteSet({}) /\ {} \in SUBSET {} /\ \A x \in {} : f[x] \in Int
      BY FS_EmptySet
<1> DEFINE E == {}
<1>2. IsFiniteSet(E) /\ E \in SUBSET E /\ (\A x \in E : f[x] \in Int) /\ E = {}
      BY <1>1
<1> HIDE DEF E
<1>3. Total(f, E) = 0
      BY <1>2, TotalFirst
<1> QED BY <1>2, <1>3

LEMMA TotalAdd ==
    ASSUME NEW S, IsFiniteSet(S), NEW x, x \notin S, NEW f, \A y \in S \cup {x} : f[y] \in Int
    PROVE  Total(f, S \cup {x}) = Total(f, S) + f[x]
<1> DEFINE T == S \cup {x}
<1>1. IsFiniteSet(T) /\ T \ {x} = S /\ x \in T
      BY FS_AddElement
<1>2. \A y \in T : f[y] \in Int
      OBVIOUS
<1> HIDE DEF T
<1>3. Total(f, T) = f[x] + Total(f, T \ {x}) /\ Total(f, T \ {x}) \in Int /\ f[x] \in Int
  <2>1. T \in SUBSET T /\ T \ {x} \in SUBSET T
        OBVIOUS
  <2> QED BY <1>1, <1>2, <2>1, TotalFirst
<1>4. Total(f, T) = Total(f, S) + f[x]
  <2>1. Total(f, T \ {x}) = Total(f, S)
        BY <1>1
  <2>2. \A a, b \in Int : a + b = b + a
        OBVIOUS
  <2> QED BY <1>3, <2>1, <2>2
<1> QED BY <1>4 DEF T

LEMMA TotalSame ==
    ASSUME NEW S, NEW f, NEW h, \A x \in S : f[x] = h[x]
    PROVE  Total(f, S) = Total(h, S)
<1>1. ASSUME NEW g PROVE Sums(f, S, g) <=> Sums(h, S, g)
  <2>1. ASSUME NEW r \in SUBSET S, r # {} PROVE f[Chosen(r)] = h[Chosen(r)]
    <3>1. Chosen(r) \in r
          BY <2>1 DEF Chosen
    <3> QED BY <3>1
  <2> QED BY <2>1 DEF Sums
<1>2. (CHOOSE g : Sums(f, S, g)) = (CHOOSE g : Sums(h, S, g))
      BY <1>1
<1> QED BY <1>2 DEF Total

LEMMA TotalOne ==
    ASSUME NEW f, NEW x, f[x] \in Int
    PROVE  Total(f, {x}) = f[x]
<1>1. IsFiniteSet({x})
      BY FS_Singleton
<1>2. Total(f, {x}) = f[x] + Total(f, {x} \ {x})
      BY <1>1, TotalFirst
<1>3. {x} \ {x} = {}
      OBVIOUS
<1> QED BY <1>2, <1>3, TotalEmpty

\* Where each element counts one, the sum is the number of elements.
LEMMA TotalCard ==
    ASSUME NEW S, IsFiniteSet(S), NEW f, \A x \in S : f[x] = 1
    PROVE  Total(f, S) = Cardinality(S)
<1> DEFINE X == {s \in SUBSET S : Total(f, s) = Cardinality(s)}
<1>1. ASSUME NEW s \in SUBSET S,
             \A r \in SUBSET S : Cardinality(r) < Cardinality(s) => r \in X
      PROVE  s \in X
  <2>1. CASE s = {}
        BY <2>1, TotalEmpty, FS_EmptySet
  <2>2. CASE s # {}
    <3>1. PICK x : x \in s
          BY <2>2
    <3>2. s \ {x} \in X
          BY <1>1, <3>1, ChosenIs
    <3>3. IsFiniteSet(s) /\ Cardinality(s) \in Nat
          BY FS_Subset, FS_CardinalityType
    <3>4. Cardinality(s \ {x}) = Cardinality(s) - 1
          BY <3>1, <3>3, FS_RemoveElement
    <3>5. Total(f, s) = 1 + Total(f, s \ {x})
          BY <3>1, TotalFirst
    <3> QED BY <3>2, <3>3, <3>4, <3>5
  <2> QED BY <2>1, <2>2
<1>2. SUBSET S \subseteq X
  <2> HIDE DEF X
  <2> QED BY <1>1, SubsetInduction
<1> QED BY <1>2

LEMMA TotalUnion ==
    ASSUME NEW S, IsFiniteSet(S), NEW f, \A x \in S : f[x] \in Int,
           NEW A \in SUBSET S, NEW B \in SUBSET S, A \cap B = {}
    PROVE  Total(f, A \cup B) = Total(f, A) + Total(f, B)
<1> DEFINE X == {b \in SUBSET B : Total(f, A \cup b) = Total(f, A) + Total(f, b)}
<1>1. IsFiniteSet(B)
      BY FS_Subset
<1>2. ASSUME NEW b \in SUBSET B,
             \A r \in SUBSET B : Cardinality(r) < Cardinality(b) => r \in X
      PROVE  b \in X
  <2>1. Total(f, A) \in Int
        BY TotalFirst
  <2>2. CASE b = {}
    <3>1. A \cup b = A /\ Total(f, b) = 0
          BY <2>2, TotalEmpty
    <3> QED BY <2>1, <3>1
  <2>3. CASE b # {}
    <3>1. PICK x : x \in b
          BY <2>3
    <3>2. b \ {x} \in X
          BY <1>1, <1>2, <3>1, ChosenIs
    <3>3. (A \cup b) \ {x} = A \cup (b \ {x}) /\ A \cup b \in SUBSET S /\ x \in A \cup b
          BY <3>1
    <3>4. Total(f, A \cup b) = f[x] + Total(f, A \cup (b \ {x}))
          BY <3>3, TotalFirst
    <3>5. Total(f, b) = f[x] + Total(f, b \ {x}) /\ f[x] \in Int
      <4>1. b \in SUBSET S
            OBVIOUS
      <4> QED BY <3>1, <4>1, TotalFirst
    <3>6. Total(f, b \ {x}) \in Int
      <4>1. b \ {x} \in SUBSET S
            OBVIOUS
      <4> QED BY <4>1, TotalFirst
    <3>7. \A p, q, r \in Int : p + (q + r) = q + (p + r)
          OBVIOUS
    <3> QED BY <2>1, <3>2, <3>4, <3>5, <3>6, <3>7
  <2> QED BY <2>2, <2>3
<1>3. SUBSET B \subseteq X
  <2> HIDE DEF X
  <2> QED BY <1>1, <1>2, SubsetInduction
<1> QED BY <1>3

\* h[x] is the sum of w over the elements of T that k takes to x.
Fibred(T, S, k, w, h) == \A x \in S : h[x] = Total(w, {t \in T : k[t] = x})

\* A sum may be formed group by group.
LEMMA TotalFibred ==
    ASSUME NEW T, IsFiniteSet(T), NEW S, IsFiniteSet(S), NEW k \in [T -> S],
           NEW w, \A t \in T : w[t] \in Int, NEW h, Fibred(T, S, k, w, h)
    PROVE  Total(h, S) = Total(w, T)
<1> DEFINE Over(s) == {t \in T : k[t] \in s}
           X == {s \in SUBSET S : Total(h, s) = Total(w, Over(s))}
<1>1. \A x \in S : h[x] = Total(w, Over({x}))
  <2>1. \A x \in S : {t \in T : k[t] = x} = Over({x})
        OBVIOUS
  <2> HIDE DEF Over
  <2> QED BY <2>1 DEF Fibred
<1>2. \A s \in SUBSET S : Over(s) \in SUBSET T
      OBVIOUS
<1>3. \A x \in S : h[x] \in Int
  <2>1. \A s \in SUBSET S : Total(w, Over(s)) \in Int
    <3> HIDE DEF Over
    <3> QED BY <1>2, TotalFirst
  <2> HIDE DEF Over
  <2> QED BY <1>1, <2>1
<1>4. ASSUME NEW s \in SUBSET S,
             \A r \in SUBSET S : Cardinality(r) < Cardinality(s) => r \in X
      PROVE  s \in X
  <2>1. CASE s = {}
    <3>1. Over(s) = {}
          BY <2>1
    <3> HIDE DEF Over
    <3> QED BY <2>1, <3>1, TotalEmpty
  <2>2. CASE s # {}
    <3>1. PICK x : x \in s
          BY <2>2
    <3>2. s \ {x} \in X
          BY <1>4, <3>1, ChosenIs
    <3>3. /\ Over(s) = Over({x}) \cup Over(s \ {x})
          /\ Over({x}) \cap Over(s \ {x}) = {}
          BY <3>1
    <3>4. {x} \in SUBSET S /\ s \ {x} \in SUBSET S
          BY <3>1
    <3> HIDE DEF Over
    <3>5. Over({x}) \in SUBSET T /\ Over(s \ {x}) \in SUBSET T
          BY <1>2, <3>4
    <3>6. Total(w, Over(s)) = Total(w, Over({x})) + Total(w, Over(s \ {x}))
      <4> DEFINE A == Over({x})
                 B == Over(s \ {x})
      <4> HIDE DEF A, B
      <4>1. A \in SUBSET T /\ B \in SUBSET T /\ A \cap B = {} /\ Over(s) = A \cup B
            BY <3>3, <3>5 DEF A, B
      <4>2. Total(w, A \cup B) = Total(w, A) + Total(w, B)
            BY <4>1, TotalUnion
      <4> QED BY <4>1, <4>2 DEF A, B
    <3>7. Total(h, s) = h[x] + Total(h, s \ {x})
          BY <1>3, <3>1, TotalFirst
    <3>8. h[x] = Total(w, Over({x}))
          BY <1>1, <3>1
    <3> QED BY <3>2, <3>6, <3>7, <3>8
  <2> QED BY <2>1, <2>2
<1>5. SUBSET S \subseteq X
  <2> HIDE DEF X
  <2> QED BY <1>4, SubsetInduction
<1>6. Over(S) = T
      OBVIOUS
<1> HIDE DEF Over
<1> QED BY <1>5, <1>6

\* A sum goes over to a set that k takes the first one to, one to one.
LEMMA TotalRenamed ==
    ASSUME NEW T, IsFiniteSet(T), NEW S, NEW k \in Bijection(T, S),
           NEW w, \A t \in T : w[t] \in Int, NEW h, \A t \in T : h[k[t]] = w[t]
    PROVE  Total(h, S) = Total(w, T)
<1>1. k \in [T -> S] /\ \A s, t \in T : k[s] = k[t] => s = t
      BY DEF Bijection, Injection, IsInjective
<1>2. \A x \in S : \E t \in T : k[t] = x
      BY DEF Bijection, Surjection
<1>3. IsFiniteSet(S)
      BY FS_Surjection DEF Bijection
<1>4. ASSUME NEW x \in S PROVE h[x] = Total(w, {t \in T : k[t] = x})
  <2>1. PICK s \in T : k[s] = x
        BY <1>2
  <2>2. {t \in T : k[t] = x} = {s}
        BY <1>1, <2>1
  <2>3. Total(w, {s}) = w[s]
        BY TotalOne
  <2> QED BY <2>1, <2>2, <2>3
<1>5. Fibred(T, S, k, w, h)
      BY <1>4 DEF Fibred
<1> QED BY <1>1, <1>3, <1>5, TotalFibred

\* The elements may be counted group by group.
LEMMA CountFibred ==
    ASSUME NEW T, IsFiniteSet(T), NEW S, IsFiniteSet(S), NEW k \in [T -> S],
           NEW h, \A x \in S : h[x] = Cardinality({t \in T : k[t] = x})
    PROVE  Total(h, S) = Cardinality(T)
<1> DEFINE w == [t \in T |-> 1]
<1>1. \A t \in T : w[t] = 1 /\ w[t] \in Int
      OBVIOUS
<1> HIDE DEF w
<1>2. ASSUME NEW x \in S PROVE h[x] = Total(w, {t \in T : k[t] = x})
  <2> DEFINE A == {t \in T : k[t] = x}
  <2>1. IsFiniteSet(A) /\ \A t \in A : w[t] = 1
        BY <1>1, FS_Subset
  <2> HIDE DEF A
  <2>2. Total(w, A) = Cardinality(A)
        BY <2>1, TotalCard
  <2> QED BY <2>2 DEF A
<1>3. Fibred(T, S, k, w, h)
      BY <1>2 DEF Fibred
<1>4. Total(h, S) = Total(w, T)
      BY <1>1, <1>3, TotalFibred
<1> QED BY <1>1, <1>4, TotalCard

LEMMA SameNumber ==
    ASSUME NEW S, IsFiniteSet(S), NEW T, NEW f \in Bijection(S, T)
    PROVE  IsFiniteSet(T) /\ Cardinality(T) = Cardinality(S)
<1>1. ExistsBijection(S, T)
      BY DEF ExistsBijection
<1> QED BY <1>1, FS_Bijection
=============================================================================
