--------------------------- MODULE CoverDB_proofs ---------------------------
(***************************************************************************)
(* Proofs about CoverDB, for any values, covers and number of queries.     *)
(***************************************************************************)
EXTENDS CoverDB, Indices, TLAPS

-----------------------------------------------------------------------------
(* The ways to the positions, and what enters the database with a tuple *)

\* Paths, Used and NodeOf, as functions of encode.
PathsIn(e, t) ==
    LET path[i \in 0 .. NumNode - 1] ==
           IF i = 0 THEN << >>
           ELSE Append(path[Above(i)], t[Min({a \in Letters : e[a] = i})])
    IN  path
NodeIn(e, t, i) == [pos |-> i, path |-> PathsIn(e, t)[i]]
UsedIn(e) == {i \in 1 .. NumNode - 1 : \E a \in Letters : e[a] = i}

LEMMA FromEncode ==
    /\ \A t : Paths(t) = PathsIn(encode, t)
    /\ \A t, i : NodeOf(t, i) = NodeIn(encode, t, i)
    /\ Used = UsedIn(encode)
<1>1. \A t : Paths(t) = PathsIn(encode, t)
      BY DEF Paths, PathsIn, FindIndex
<1>2. \A t, i : NodeOf(t, i) = NodeIn(encode, t, i)
      BY <1>1 DEF NodeOf, NodeIn
<1> QED BY <1>1, <1>2 DEF Used, UsedIn

LEMMA FromEncodeNext ==
    /\ \A t : Paths(t)' = PathsIn(encode', t)
    /\ \A t, i : NodeOf(t, i)' = NodeIn(encode', t, i)
    /\ Used' = UsedIn(encode')
<1>1. \A t : Paths(t)' = PathsIn(encode', t)
      BY DEF Paths, PathsIn, FindIndex
<1>2. \A t, i : NodeOf(t, i)' = NodeIn(encode', t, i)
      BY <1>1 DEF NodeOf, NodeIn
<1> QED BY <1>1, <1>2 DEF Used, UsedIn

LEMMA AboveIs ==
    ASSUME NEW i \in Nat \ {0} PROVE Above(i) \in 0 .. i - 1
BY DEF Above

LEMMA PathsAre ==
    ASSUME CoverAssumption, NEW t
    PROVE  /\ \E X : Paths(t) \in [0 .. NumNode - 1 -> Seq(X)]
           /\ Paths(t)[0] = << >>
           /\ \A i \in 1 .. NumNode - 1 :
                 Paths(t)[i] = Append(Paths(t)[Above(i)], t[FindIndex(i)])
<1> DEFINE N == NumNode - 1
           S == 0 .. N
           X == {t[FindIndex(i)] : i \in S}
           F == [i \in S |-> [g \in [S -> Seq(X)] |->
                    IF i = 0 THEN << >> ELSE Append(g[Above(i)], t[FindIndex(i)])]]
           m == [i \in S |-> i]
           Is(p) == p = [i \in S |-> IF i = 0 THEN << >> ELSE Append(p[Above(i)], t[FindIndex(i)])]
<1>1. N \in Nat /\ \A i \in S : i \in Nat /\ (i # 0 => Above(i) \in S /\ Above(i) < i)
  <2>1. NumNode \in Nat \ {0}
        BY DEF CoverAssumption
  <2>2. N \in Nat
        BY <2>1
  <2> HIDE DEF N
  <2> QED BY <2>2, AboveIs
<1>2. \A i \in S : t[FindIndex(i)] \in X
      OBVIOUS
<1> HIDE DEF N, X
<1>3. F \in [S -> [[S -> Seq(X)] -> Seq(X)]]
      BY <1>1, <1>2, AppendProperties, EmptySeq
<1>4. m \in [S -> 0 .. N] /\ \A i \in S : m[i] = i
      OBVIOUS
<1>5. Causal(S, Seq(X), m, F)
      BY <1>1 DEF Causal
<1>6. Seq(X) # {}
      BY EmptySeq
<1>7. PICK g \in [S -> Seq(X)] : SolvesAll(S, F, g)
  <2> DEFINE V == Seq(X)
  <2> HIDE DEF F, m, S, V
  <2>1. \E g \in [S -> V] : SolvesAll(S, F, g)
        BY <1>1, <1>3, <1>4, <1>5, <1>6, RecursionExists DEF V
  <2> QED BY <2>1 DEF V
<1>8. \A i \in S : g[i] = IF i = 0 THEN << >> ELSE Append(g[Above(i)], t[FindIndex(i)])
      BY <1>7 DEF SolvesAll
<1> HIDE DEF F
<1>9. Is(Paths(t))
  <2>1. Is(g)
        BY <1>7, <1>8
  <2>2. \E p : Is(p)
        BY <2>1
  <2> QED BY <2>2 DEF Paths, N
<1> DEFINE p == Paths(t)
<1>10. p = [i \in S |-> IF i = 0 THEN << >> ELSE Append(p[Above(i)], t[FindIndex(i)])]
       BY <1>9
<1> HIDE DEF p
<1>11. p = [i \in S |-> p[i]] /\ \A i \in S : p[i] = IF i = 0 THEN << >>
                                           ELSE Append(p[Above(i)], t[FindIndex(i)])
       BY <1>10
<1> DEFINE Y == {i \in S : p[i] = g[i]}
<1>12. \A i \in S : p[i] = g[i]
  <2>1. Inherited(S, m, Y)
    <3> SUFFICES ASSUME NEW i \in S, \A j \in S : m[j] < m[i] => j \in Y PROVE i \in Y
        BY DEF Inherited
    <3>1. i # 0 => p[Above(i)] = g[Above(i)]
          BY <1>1, <1>4
    <3> QED BY <1>8, <1>11, <3>1
  <2>2. S \subseteq Y
    <3> HIDE DEF Y, m, S
    <3> QED BY <1>1, <1>4, <2>1, MeasureInduction
  <2> QED BY <2>2
<1>13. p \in [S -> Seq(X)]
       BY <1>11, <1>12
<1>14. S = 0 .. NumNode - 1 /\ 0 \in S /\ \A i \in 1 .. NumNode - 1 : i \in S /\ i # 0
       BY <1>1 DEF N
<1> HIDE DEF S
<1>15. /\ p \in [0 .. NumNode - 1 -> Seq(X)] /\ p[0] = << >>
       /\ \A i \in 1 .. NumNode - 1 : p[i] = Append(p[Above(i)], t[FindIndex(i)])
       BY <1>11, <1>13, <1>14
<1> QED BY <1>15 DEF p

LEMMA AncestorsAre ==
    ASSUME NEW n \in Nat
    PROVE  \E u : /\ Ancestors(n) = u[n]
                  /\ \A k \in 0 .. n : u[k] = IF k = 0 THEN {0} ELSE {k} \cup u[Above(k)]
<1> DEFINE S == 0 .. n
           V == SUBSET S
           F == [k \in S |-> [g \in [S -> V] |-> IF k = 0 THEN {0} ELSE {k} \cup g[Above(k)]]]
           m == [k \in S |-> k]
           Is(u) == u = [k \in S |-> IF k = 0 THEN {0} ELSE {k} \cup u[Above(k)]]
<1>1. \A k \in S : k # 0 => Above(k) \in S /\ Above(k) < k
      BY AboveIs
<1>2. F \in [S -> [[S -> V] -> V]]
      BY <1>1
<1>3. m \in [S -> 0 .. n] /\ \A k \in S : m[k] = k
      OBVIOUS
<1>4. Causal(S, V, m, F)
      BY <1>1 DEF Causal
<1>5. V # {}
      OBVIOUS
<1>6. PICK g \in [S -> V] : SolvesAll(S, F, g)
  <2> HIDE DEF F, m, S, V
  <2> QED BY <1>2, <1>3, <1>4, <1>5, RecursionExists
<1>7. \A k \in S : g[k] = IF k = 0 THEN {0} ELSE {k} \cup g[Above(k)]
      BY <1>6 DEF SolvesAll
<1> DEFINE u == CHOOSE f : Is(f)
<1>8. Is(u)
  <2>1. Is(g)
    <3> HIDE DEF F, V
    <3> QED BY <1>6, <1>7
  <2> QED BY <2>1
<1>9. Ancestors(n) = u[n]
      BY DEF Ancestors
<1> HIDE DEF u, F
<1> QED BY <1>8, <1>9

LEMMA AncestorsBelow ==
    ASSUME NEW n \in Nat
    PROVE  Ancestors(n) \subseteq 0 .. n
<1>1. PICK u : /\ Ancestors(n) = u[n]
               /\ \A k \in 0 .. n : u[k] = IF k = 0 THEN {0} ELSE {k} \cup u[Above(k)]
      BY AncestorsAre
<1> DEFINE S == 0 .. n
           m == [k \in S |-> k]
           X == {k \in S : u[k] \subseteq 0 .. k}
<1>2. m \in [S -> 0 .. n]
      OBVIOUS
<1>3. Inherited(S, m, X)
  <2> SUFFICES ASSUME NEW k \in S, \A j \in S : m[j] < m[k] => j \in X PROVE k \in X
      BY DEF Inherited
  <2>1. CASE k = 0
    <3>1. 0 \in 0 .. n /\ {0} \subseteq 0 .. 0
          OBVIOUS
    <3>2. u[0] = {0}
          BY <1>1, <3>1
    <3> QED BY <2>1, <3>1, <3>2
  <2>2. CASE k # 0
    <3>1. Above(k) \in 0 .. k - 1
          BY <2>2, AboveIs
    <3>2. u[Above(k)] \subseteq 0 .. Above(k)
          BY <3>1
    <3>3. u[k] = {k} \cup u[Above(k)]
          BY <1>1, <2>2
    <3> QED BY <3>1, <3>2, <3>3
  <2> QED BY <2>1, <2>2
<1>4. S \subseteq X
  <2> HIDE DEF S, m, X
  <2> QED BY <1>2, <1>3, MeasureInduction
<1> QED BY <1>1, <1>4

\* Tuples that take the same way to a position agree on the attributes above it.
LEMMA SameWay ==
    ASSUME CoverAssumption, NEW s, NEW t, NEW i \in 0 .. NumNode - 1,
           Paths(s)[i] = Paths(t)[i]
    PROVE  \A k \in Ancestors(i) \ {0} : s[FindIndex(k)] = t[FindIndex(k)]
<1>1. i \in Nat /\ \A k \in 0 .. i : k # 0 => k \in 1 .. NumNode - 1
      BY DEF CoverAssumption
<1>2. PICK u : /\ Ancestors(i) = u[i]
               /\ \A k \in 0 .. i : u[k] = IF k = 0 THEN {0} ELSE {k} \cup u[Above(k)]
      BY <1>1, AncestorsAre
<1>3. PICK X, Y : /\ Paths(s) \in [0 .. NumNode - 1 -> Seq(X)]
                  /\ Paths(t) \in [0 .. NumNode - 1 -> Seq(Y)]
      BY PathsAre
<1> DEFINE S == 0 .. i
           m == [k \in S |-> k]
           Agree(k) == \A l \in u[k] \ {0} : s[FindIndex(l)] = t[FindIndex(l)]
           Z == {k \in S : Paths(s)[k] = Paths(t)[k] => Agree(k)}
<1>4. m \in [S -> 0 .. i]
      OBVIOUS
<1>5. Inherited(S, m, Z)
  <2> SUFFICES ASSUME NEW k \in S, \A j \in S : m[j] < m[k] => j \in Z,
                      Paths(s)[k] = Paths(t)[k]
               PROVE  Agree(k)
      BY DEF Inherited
  <2>1. CASE k = 0
        BY <1>2, <2>1
  <2>2. CASE k # 0
    <3>1. k \in 1 .. NumNode - 1 /\ Above(k) \in 0 .. k - 1
          BY <1>1, <2>2, AboveIs
    <3> DEFINE x == Paths(s)[Above(k)]
               y == Paths(t)[Above(k)]
    <3>2. Append(x, s[FindIndex(k)]) = Append(y, t[FindIndex(k)])
      <4>1. Paths(s)[k] = Append(x, s[FindIndex(k)])
            BY <3>1, PathsAre
      <4>2. Paths(t)[k] = Append(y, t[FindIndex(k)])
            BY <3>1, PathsAre
      <4> QED BY <4>1, <4>2
    <3>3. x \in Seq(X) /\ y \in Seq(Y)
          BY <1>3, <3>1
    <3>4. x = y /\ s[FindIndex(k)] = t[FindIndex(k)]
      <4> HIDE DEF x, y
      <4>1. x \in Seq(X \cup Y \cup {s[FindIndex(k)], t[FindIndex(k)]})
            /\ y \in Seq(X \cup Y \cup {s[FindIndex(k)], t[FindIndex(k)]})
            BY <3>3
      <4> QED BY <3>2, <4>1, AppendInjective
    <3>5. Above(k) \in S /\ m[Above(k)] < m[k]
          BY <3>1
    <3>6. Agree(Above(k))
          BY <3>4, <3>5
    <3>7. u[k] = {k} \cup u[Above(k)]
          BY <1>2, <2>2
    <3> QED BY <3>4, <3>6, <3>7
  <2> QED BY <2>1, <2>2
<1>6. S \subseteq Z
  <2> HIDE DEF S, m, Z
  <2> QED BY <1>1, <1>4, <1>5, MeasureInduction
<1>7. i \in S
      BY <1>1
<1> QED BY <1>2, <1>6, <1>7

LEMMA AppendedSet ==
    ASSUME NEW A, NEW s \in Seq(A), NEW e \in A
    PROVE  ToSet(Append(s, e)) = ToSet(s) \cup {e}
<1>1. /\ Append(s, e) \in Seq(A) /\ Len(Append(s, e)) = Len(s) + 1 /\ Len(s) \in Nat
      /\ \A i \in 1 .. Len(s) : Append(s, e)[i] = s[i]
      /\ Append(s, e)[Len(s) + 1] = e
      BY AppendProperties, LenProperties
<1>2. DOMAIN s = 1 .. Len(s) /\ DOMAIN Append(s, e) = 1 .. Len(s) + 1
      BY <1>1, LenProperties
<1>3. 1 .. Len(s) + 1 = (1 .. Len(s)) \cup {Len(s) + 1}
      BY <1>1
<1> QED BY <1>1, <1>2, <1>3 DEF ToSet

LEMMA ContainsIs ==
    ASSUME NEW A, NEW s \in Seq(A), NEW e PROVE Contains(s, e) <=> e \in ToSet(s)
<1>1. DOMAIN s = 1 .. Len(s)
      BY LenProperties
<1> QED BY <1>1 DEF Contains, ToSet

\* A tuple adds its nodes and no other.
LEMMA MadeIs ==
    ASSUME CoverAssumption, NEW t, NEW A, db \in Seq(A), \A i \in Used : NodeOf(t, i) \in A
    PROVE  /\ BuildFactorisedDB(t) \in Seq(A)
           /\ ToSet(BuildFactorisedDB(t)) = ToSet(db) \cup {NodeOf(t, i) : i \in Used}
<1> DEFINE N == NumNode - 1
           S == 0 .. N
           V == Seq(A)
           F == [i \in S |-> [g \in [S -> V] |->
                   IF i = 0 THEN db
                   ELSE IF i \in Used /\ ~Contains(g[i - 1], NodeOf(t, i))
                        THEN Append(g[i - 1], NodeOf(t, i)) ELSE g[i - 1]]]
           m == [i \in S |-> i]
           Is(f) == f = [i \in S |->
                   IF i = 0 THEN db
                   ELSE IF i \in Used /\ ~Contains(f[i - 1], NodeOf(t, i))
                        THEN Append(f[i - 1], NodeOf(t, i)) ELSE f[i - 1]]
<1>1. N \in Nat /\ \A i \in S : i # 0 => i - 1 \in S /\ i - 1 < i
  <2>1. N \in Nat
        BY DEF CoverAssumption
  <2> HIDE DEF N
  <2> QED BY <2>1
<1>2. Used \subseteq S \ {0} /\ \A k \in Used : k \in Nat /\ k # 0 /\ k <= N /\ ~(k <= 0)
  <2>1. N \in Int
        BY <1>1
  <2>2. Used \subseteq 1 .. N
        BY DEF Used
  <2> HIDE DEF N
  <2> QED BY <2>1, <2>2
<1> HIDE DEF N
<1>3. F \in [S -> [[S -> V] -> V]]
  <2> SUFFICES ASSUME NEW i \in S, NEW g \in [S -> V]
               PROVE  (IF i = 0 THEN db
                       ELSE IF i \in Used /\ ~Contains(g[i - 1], NodeOf(t, i))
                            THEN Append(g[i - 1], NodeOf(t, i)) ELSE g[i - 1]) \in V
      OBVIOUS
  <2>1. i # 0 => g[i - 1] \in V
        BY <1>1
  <2>2. i # 0 /\ i \in Used => Append(g[i - 1], NodeOf(t, i)) \in V
        BY <2>1, AppendProperties
  <2> HIDE DEF V
  <2> QED BY <2>1, <2>2 DEF V
<1>4. m \in [S -> 0 .. N] /\ \A i \in S : m[i] = i
      OBVIOUS
<1>5. Causal(S, V, m, F)
      BY <1>1 DEF Causal
<1>6. V # {}
      BY EmptySeq
<1>7. PICK g \in [S -> V] : SolvesAll(S, F, g)
  <2> HIDE DEF F, m, S, V
  <2> QED BY <1>1, <1>3, <1>4, <1>5, <1>6, RecursionExists
<1> DEFINE f == CHOOSE h : Is(h)
<1>8. Is(f)
  <2>1. \A i \in S : g[i] = IF i = 0 THEN db
                   ELSE IF i \in Used /\ ~Contains(g[i - 1], NodeOf(t, i))
                        THEN Append(g[i - 1], NodeOf(t, i)) ELSE g[i - 1]
        BY <1>7 DEF SolvesAll
  <2>2. Is(g)
    <3> HIDE DEF F, V
    <3> QED BY <1>7, <2>1
  <2> QED BY <2>2
<1>9. BuildFactorisedDB(t) = f[N]
      BY DEF BuildFactorisedDB, N
<1> HIDE DEF f, F
<1>10. \A i \in S : f[i] = IF i = 0 THEN db
                   ELSE IF i \in Used /\ ~Contains(f[i - 1], NodeOf(t, i))
                        THEN Append(f[i - 1], NodeOf(t, i)) ELSE f[i - 1]
       BY <1>8
<1> DEFINE Upto(i) == ToSet(db) \cup {NodeOf(t, j) : j \in {k \in Used : k <= i}}
           X == {i \in S : f[i] \in V /\ ToSet(f[i]) = Upto(i)}
<1>11. Inherited(S, m, X)
  <2> SUFFICES ASSUME NEW i \in S, \A j \in S : m[j] < m[i] => j \in X PROVE i \in X
      BY DEF Inherited
  <2>1. CASE i = 0
    <3>1. {k \in Used : k <= 0} = {}
          BY <1>2
    <3>2. f[0] = db
          BY <1>10, <2>1
    <3> QED BY <2>1, <3>1, <3>2
  <2>2. CASE i # 0
    <3>1. i - 1 \in X
          BY <1>1, <1>4, <2>2
    <3>2. f[i - 1] \in V /\ ToSet(f[i - 1]) = Upto(i - 1)
          BY <3>1
    <3> DEFINE e == NodeOf(t, i)
    <3>3. {k \in Used : k <= i} = {k \in Used : k <= i - 1} \cup (IF i \in Used THEN {i} ELSE {})
      <4>1. \A k \in Used : k <= i <=> k <= i - 1 \/ k = i
            BY <1>1, <1>2
      <4>2. i <= i
            BY <1>1
      <4> QED BY <4>1, <4>2
    <3>4. Upto(i) = Upto(i - 1) \cup (IF i \in Used THEN {e} ELSE {})
          BY <3>3
    <3> HIDE DEF X, Upto
    <3>5. CASE i \in Used /\ ~Contains(f[i - 1], e)
      <4>1. f[i] = Append(f[i - 1], e)
            BY <1>10, <2>2, <3>5
      <4>2. f[i] \in V /\ ToSet(f[i]) = ToSet(f[i - 1]) \cup {e}
            BY <3>2, <3>5, <4>1, AppendProperties, AppendedSet
      <4> QED BY <3>2, <3>4, <3>5, <4>2 DEF X
    <3>6. CASE ~(i \in Used /\ ~Contains(f[i - 1], e))
      <4>1. f[i] = f[i - 1]
            BY <1>10, <2>2, <3>6
      <4>2. i \in Used => e \in ToSet(f[i - 1])
            BY <3>2, <3>6, ContainsIs
      <4> QED BY <3>2, <3>4, <4>1, <4>2 DEF X
    <3> QED BY <3>5, <3>6
  <2> QED BY <2>1, <2>2
<1>12. S \subseteq X
  <2> HIDE DEF S, m, X
  <2> QED BY <1>1, <1>4, <1>11, MeasureInduction
<1>13. N \in S /\ {k \in Used : k <= N} = Used
  <2>1. {k \in Used : k <= N} = Used
        BY <1>2
  <2> QED BY <1>1, <2>1
<1>14. f[N] \in V /\ ToSet(f[N]) = Upto(N)
       BY <1>12, <1>13
<1> QED BY <1>9, <1>13, <1>14

-----------------------------------------------------------------------------
(* The inductive invariant of the tuples and the database *)

Nodes(e)       == {NodeIn(e, t, i) : t \in Tuples, i \in 1 .. NumNode - 1}
NodesFor(e, T) == {NodeIn(e, t, i) : t \in T, i \in UsedIn(e)}

TuplesInv ==
    /\ phase \in {"idle", "order", "build"}
    /\ cover \in Seq(Tuples) /\ CDB \in Seq(Tuples)
    /\ ToSet(CDB) \subseteq ToSet(cover) /\ left \subseteq DOMAIN CDB

\* While tuples are entered, the database has the nodes of those entered.
NodesInv ==
    /\ db \in Seq(Nodes(encode))
    /\ phase = "order" => db = << >>
    /\ phase = "build" => ToSet(db) = NodesFor(encode, Entered)

LEMMA FiniteMaps ==
    ASSUME NEW A, IsFiniteSet(A), NEW B, IsFiniteSet(B)
    PROVE  IsFiniteSet([A -> B])
<1> DEFINE G == [f \in [A -> B] |-> {<<a, f[a]>> : a \in A}]
           P == SUBSET (A \X B)
<1>1. IsFiniteSet(P)
      BY FS_Product, FS_SUBSET
<1>2. G \in [[A -> B] -> P]
      OBVIOUS
<1>3. ASSUME NEW f \in [A -> B], NEW g \in [A -> B], G[f] = G[g] PROVE f = g
  <2>1. ASSUME NEW a \in A PROVE f[a] = g[a]
    <3>1. <<a, f[a]>> \in G[f]
          OBVIOUS
    <3>2. PICK b \in A : <<a, f[a]>> = <<b, g[b]>>
          BY <1>3, <3>1
    <3> QED BY <3>2
  <2> QED BY <2>1
<1> HIDE DEF G, P
<1>4. G \in Injection([A -> B], P)
      BY <1>2, <1>3 DEF Injection, IsInjective
<1> QED BY <1>1, <1>4, FS_Injection

LEMMA TuplesInit == ASSUME CoverAssumption, Init PROVE TuplesInv /\ NodesInv
<1>1. PICK ts \in SUBSET Tuples : cover = SetToSeq(ts)
  <2>1. \A n \in 0 .. MaxTuples : kSubset(n, Tuples) \subseteq SUBSET Tuples
        BY DEF kSubset
  <2> QED BY <2>1 DEF Init
<1>2. IsFiniteSet(ts)
  <2>1. IsFiniteSet(Attributes)
        BY FS_Interval DEF Attributes, CoverAssumption, U
  <2>2. IsFiniteSet([Attributes -> Values])
        BY <2>1, FiniteMaps DEF CoverAssumption
  <2>3. ts \in SUBSET [Attributes -> Values]
        BY DEF CoverAssumption
  <2> QED BY <2>2, <2>3, FS_Subset
<1>3. cover \in [1 .. Cardinality(ts) -> ts] /\ Cardinality(ts) \in Nat
  <2>1. Cardinality(ts) \in Nat /\ \E f \in [1 .. Cardinality(ts) -> ts] : IsInjective(f)
        BY <1>2, FS_CardinalityType DEF ExistsBijection, Bijection, Injection
  <2> QED BY <1>1, <2>1 DEF SetToSeq
<1>4. cover \in Seq(Tuples)
  <2>1. cover \in [1 .. Cardinality(ts) -> Tuples]
        BY <1>3
  <2> QED BY <1>3, <2>1, IsSequence
<1>5. CDB = << >> /\ left = {} /\ db = << >> /\ phase = "idle"
      BY DEF Init
<1>6. << >> \in Seq(Tuples) /\ << >> \in Seq(Nodes(encode)) /\ ToSet(<< >>) = {}
      BY EmptySeq DEF ToSet
<1>7. TuplesInv
      BY <1>4, <1>5, <1>6 DEF TuplesInv
<1> QED BY <1>5, <1>6, <1>7 DEF NodesInv

LEMMA ConcatSet ==
    ASSUME NEW A, NEW s \in Seq(A), NEW t \in Seq(A)
    PROVE  s \o t \in Seq(A) /\ ToSet(s \o t) = ToSet(s) \cup ToSet(t)
<1>1. /\ s \o t \in Seq(A) /\ Len(s \o t) = Len(s) + Len(t)
      /\ Len(s) \in Nat /\ Len(t) \in Nat
      /\ \A i \in 1 .. Len(s) + Len(t) :
            (s \o t)[i] = IF i <= Len(s) THEN s[i] ELSE t[i - Len(s)]
      BY ConcatProperties, LenProperties
<1>2. /\ DOMAIN s = 1 .. Len(s) /\ DOMAIN t = 1 .. Len(t)
      /\ DOMAIN (s \o t) = 1 .. Len(s) + Len(t)
      BY <1>1, LenProperties
<1> DEFINE m == Len(s)
           n == Len(t)
<1>3. /\ \A i \in 1 .. m + n : i <= m => i \in 1 .. m
      /\ \A i \in 1 .. m + n : ~(i <= m) => i - m \in 1 .. n
      /\ \A i \in 1 .. m : i \in 1 .. m + n /\ i <= m
      /\ \A i \in 1 .. n : i + m \in 1 .. m + n /\ ~(i + m <= m) /\ (i + m) - m = i
      BY <1>1
<1>4. ToSet(s \o t) \subseteq ToSet(s) \cup ToSet(t)
      BY <1>1, <1>2, <1>3 DEF ToSet
<1>5. ASSUME NEW i \in 1 .. m PROVE s[i] \in ToSet(s \o t)
      BY <1>1, <1>2, <1>3 DEF ToSet
<1>6. ASSUME NEW i \in 1 .. n PROVE t[i] \in ToSet(s \o t)
  <2>1. (s \o t)[i + m] = t[i] /\ i + m \in DOMAIN (s \o t)
        BY <1>1, <1>2, <1>3
  <2> QED BY <2>1 DEF ToSet
<1> QED BY <1>1, <1>2, <1>4, <1>5, <1>6 DEF ToSet

LEMMA TuplesStep ==
    ASSUME CoverAssumption, TuplesInv, [Next]_vars PROVE TuplesInv'
<1>1. CASE ReadCover
  <2>1. /\ CDB' \in Seq(Tuples) /\ ToSet(CDB') = ToSet(CDB) \cup ToSet(cover)
        BY <1>1, ConcatSet DEF ReadCover, TuplesInv
  <2> QED BY <1>1, <2>1 DEF ReadCover, TuplesInv
<1>2. CASE UNCHANGED <<cover, CDB>> /\ (UNCHANGED left \/ left' \subseteq left)
           /\ phase' \in {"idle", "order", "build"}
      BY <1>2 DEF TuplesInv
<1> QED BY <1>1, <1>2 DEF Next, vars, StandardDB, Asked, BuildVariableOrder, InsertAttribute,
             NoCover, EnterTuple, Answer, TuplesInv

LEMMA NodesStep ==
    ASSUME CoverAssumption, TuplesInv, NodesInv, [Next]_vars PROVE NodesInv'
<1>0. << >> \in Seq(Nodes(encode')) /\ ToSet(<< >>) = {}
      BY EmptySeq DEF ToSet
<1>1. CASE db' = << >> /\ phase' # "build"
      BY <1>0, <1>1 DEF NodesInv
<1>2. CASE ReadCover
  <2>1. db' = << >> /\ Entered' = {}
        BY <1>2 DEF ReadCover, NodesInv, Entered
  <2>2. phase' = "build" /\ NodesFor(encode', {}) = {}
        BY <1>2 DEF ReadCover, NodesFor
  <2> QED BY <1>0, <2>1, <2>2 DEF NodesInv
<1>3. CASE /\ UNCHANGED <<encode, db>>
           /\ phase' = "idle" \/ UNCHANGED <<phase, CDB, left>>
  <2>1. UNCHANGED <<CDB, left>> => Entered' = Entered
        BY DEF Entered
  <2> QED BY <1>3, <2>1 DEF NodesInv
<1>4. ASSUME NEW k \in left, EnterTuple(k), left' # left PROVE NodesInv'
  <2>1. /\ db' = BuildFactorisedDB(CDB[k]) /\ left' = left \ {k}
        /\ UNCHANGED <<CDB, encode, phase>> /\ phase = "build"
        BY <1>4 DEF EnterTuple
  <2>2. k \in DOMAIN CDB /\ CDB[k] \in Tuples
        BY LenProperties, ElementOfSeq DEF TuplesInv
  <2>3. Entered' = Entered \cup {CDB[k]}
        BY <2>1, <2>2 DEF Entered
  <2>4. \A i \in Used : NodeOf(CDB[k], i) \in Nodes(encode)
        BY <2>2, FromEncode DEF Nodes, Used
  <2>5. /\ db' \in Seq(Nodes(encode))
        /\ ToSet(db') = ToSet(db) \cup {NodeOf(CDB[k], i) : i \in Used}
    <3>1. db \in Seq(Nodes(encode))
          BY DEF NodesInv
    <3> QED BY <2>1, <2>4, <3>1, MadeIs
  <2>6. {NodeOf(CDB[k], i) : i \in Used} = NodesFor(encode, {CDB[k]})
        BY FromEncode DEF NodesFor
  <2>7. NodesFor(encode, Entered') = NodesFor(encode, Entered) \cup NodesFor(encode, {CDB[k]})
        BY <2>3 DEF NodesFor
  <2> QED BY <2>1, <2>5, <2>6, <2>7 DEF NodesInv
<1>5. ASSUME NEW q \in Queries, StandardDB(q) \/ BuildVariableOrder(q) PROVE NodesInv'
      BY <1>1, <1>3, <1>5 DEF StandardDB, BuildVariableOrder
<1>6. ASSUME InsertAttribute \/ NoCover \/ Answer PROVE NodesInv'
      BY <1>1, <1>3, <1>6 DEF InsertAttribute, NoCover, Answer, NodesInv
<1>7. ASSUME NEW k \in left, EnterTuple(k) PROVE NodesInv'
      BY <1>3, <1>4, <1>7 DEF EnterTuple
<1>8. CASE UNCHANGED vars
      BY <1>3, <1>8 DEF vars
<1> QED BY <1>2, <1>5, <1>6, <1>7, <1>8 DEF Next

-----------------------------------------------------------------------------
(* What the database stands for *)

\* The root of the order is no attribute.
RootInv == 0 \in DOMAIN order /\ order[0] = 0

LEMMA RootInit == ASSUME Init PROVE RootInv
BY DEF Init, RootInv

LEMMA RootStep == ASSUME RootInv, [Next]_vars PROVE RootInv'
<1>1. ASSUME NEW q \in Queries, BuildVariableOrder(q) PROVE RootInv'
      BY <1>1 DEF BuildVariableOrder, FirstOrder, RootInv
<1>2. CASE InsertAttribute
      BY <1>2 DEF InsertAttribute, Put, RootInv
<1>3. CASE UNCHANGED order
      BY <1>3 DEF RootInv
<1> QED BY <1>1, <1>2, <1>3 DEF Next, vars, StandardDB, ReadCover, NoCover, EnterTuple, Answer

\* The order has every attribute once, at the position that encode says.
Places ==
    \A a \in Attributes : /\ encode[a] \in 1 .. NumNode - 1 /\ encode[a] \in Used
                          /\ FindIndex(encode[a]) = a

OrderFits ==
    /\ DOMAIN order \subseteq 0 .. NumNode - 1
    /\ \A n \in DOMAIN order \ {0} : encode[order[n]] = n

LEMMA PlacesIf ==
    ASSUME CoverAssumption, RootInv, OrderFits, Range(order) \ {0} = Attributes
    PROVE  Places
<1>1. ASSUME NEW a \in Attributes
      PROVE  \E n \in DOMAIN order : n \in 1 .. NumNode - 1 /\ order[n] = a /\ encode[a] = n
  <2>1. a # 0 /\ a \in Range(order)
        BY DEF Attributes, CoverAssumption
  <2>2. PICK n \in DOMAIN order : order[n] = a
        BY <2>1 DEF Range
  <2>3. n # 0
        BY <2>1, <2>2 DEF RootInv
  <2>4. encode[a] = n /\ n \in 0 .. NumNode - 1
        BY <2>2, <2>3 DEF OrderFits
  <2>5. n \in 1 .. NumNode - 1
        BY <2>3, <2>4 DEF CoverAssumption
  <2> QED BY <2>2, <2>4, <2>5
<1>2. ASSUME NEW a \in Attributes, NEW b \in Attributes, encode[a] = encode[b] PROVE a = b
      BY <1>1, <1>2
<1>3. \A a \in Attributes : a \in Letters /\ a \in Nat /\ a < U
      BY DEF Attributes, Letters, CoverAssumption, U
<1>4. ASSUME NEW a \in Attributes PROVE FindIndex(encode[a]) = a
  <2> DEFINE M == {b \in Letters : encode[b] = encode[a]}
  <2>1. a \in M /\ \A b \in M : b = a \/ b = U
        BY <1>2, <1>3 DEF Letters
  <2>2. \A b \in M : a <= b
        BY <1>3, <2>1 DEF U
  <2>3. \A b \in M : b \in Int
        BY <1>3, <2>1 DEF U
  <2>4. \A x \in M : (\A b \in M : x <= b) => x = a
    <3> HIDE DEF M
    <3>1. \A x \in M : x <= a /\ a <= x => x = a
          BY <1>3, <2>3
    <3> QED BY <2>1, <2>2, <3>1
  <2> QED BY <2>1, <2>2, <2>4 DEF FindIndex, Min
<1>5. ASSUME NEW a \in Attributes PROVE encode[a] \in Used
      BY <1>1, <1>3 DEF Used
<1> QED BY <1>1, <1>4, <1>5 DEF Places

\* The relations are each on one way down.
OneWay ==
    \A r \in Decomposition : \A a, b \in r :
       encode[a] \in Ancestors(encode[b]) \/ encode[b] \in Ancestors(encode[a])

LEMMA RepresentedEntered ==
    ASSUME CoverAssumption, TuplesInv, NodesInv, phase = "build"
    PROVE  Entered \subseteq Represented
<1>1. ASSUME NEW k \in DOMAIN CDB \ left PROVE CDB[k] \in Represented
  <2>1. CDB[k] \in [Attributes -> Values] /\ CDB[k] \in Entered
    <3>1. CDB[k] \in Tuples
          BY LenProperties, ElementOfSeq DEF TuplesInv
    <3> QED BY <3>1 DEF CoverAssumption, Entered
  <2>2. \A i \in Used : NodeOf(CDB[k], i) \in ToSet(db)
        BY <2>1, FromEncode DEF NodesInv, NodesFor
  <2>3. \A i \in Used : Contains(db, NodeOf(CDB[k], i))
        BY <2>2, ContainsIs DEF NodesInv
  <2> QED BY <2>1, <2>3 DEF Represented
<1> QED BY <1>1 DEF Entered

LEMMA RepresentedJoin ==
    ASSUME CoverAssumption, TuplesInv, NodesInv, phase = "build", Places, OneWay
    PROVE  Represented \subseteq Join(Entered)
<1> SUFFICES ASSUME NEW t \in Represented, NEW r \in Decomposition
             PROVE  \E s \in Entered : \A a \in r : t[a] = s[a]
    BY DEF Represented, Join
<1>1. r \subseteq Attributes
      BY DEF CoverAssumption
<1>2. ASSUME NEW a \in Attributes
      PROVE  \E s \in Entered : Paths(t)[encode[a]] = Paths(s)[encode[a]]
  <2> DEFINE i == encode[a]
  <2>1. i \in Used
        BY DEF Places
  <2>2. Contains(db, NodeOf(t, i))
        BY <2>1 DEF Represented
  <2>3. NodeOf(t, i) \in NodesFor(encode, Entered)
        BY <2>2, ContainsIs DEF NodesInv
  <2>4. PICK s \in Entered, j \in Used : NodeOf(t, i) = NodeOf(s, j)
        BY <2>3, FromEncode DEF NodesFor
  <2> QED BY <2>4 DEF NodeOf
<1>3. CASE r = {}
  <2>1. 1 \in Attributes
        BY DEF Attributes, CoverAssumption
  <2> QED BY <1>2, <1>3, <2>1
<1>4. CASE r # {}
  <2>1. PICK a \in r : \A b \in r : encode[b] <= encode[a]
    <3> DEFINE I == {encode[b] : b \in r}
    <3>1. I \in SUBSET (0 .. NumNode) /\ I # {} /\ NumNode \in Nat
          BY <1>1, <1>4 DEF Places, CoverAssumption
    <3>2. PICK m \in I : \A k \in I : k <= m
          BY <3>1, GreatestNumber
    <3> QED BY <3>2
  <2>2. \A b \in r : encode[b] \in Ancestors(encode[a]) \ {0}
    <3> SUFFICES ASSUME NEW b \in r PROVE encode[b] \in Ancestors(encode[a])
        BY <1>1 DEF Places
    <3>1. encode[a] \in Nat /\ encode[b] \in Nat
          BY <1>1 DEF Places
    <3>2. CASE encode[a] \in Ancestors(encode[b])
      <4>1. encode[a] \in 0 .. encode[b]
            BY <3>1, <3>2, AncestorsBelow
      <4>2. encode[a] = encode[b]
            BY <2>1, <3>1, <4>1
      <4> QED BY <3>2, <4>2
    <3> QED BY <3>2 DEF OneWay
  <2>3. PICK s \in Entered : Paths(t)[encode[a]] = Paths(s)[encode[a]]
        BY <1>1, <1>2
  <2>4. encode[a] \in 0 .. NumNode - 1
        BY <1>1 DEF Places
  <2>5. \A k \in Ancestors(encode[a]) \ {0} : t[FindIndex(k)] = s[FindIndex(k)]
    <3> DEFINE i == encode[a]
    <3>1. i \in 0 .. NumNode - 1 /\ Paths(t)[i] = Paths(s)[i]
          BY <2>3, <2>4
    <3> HIDE DEF i
    <3>2. \A k \in Ancestors(i) \ {0} : t[FindIndex(k)] = s[FindIndex(k)]
          BY <3>1, SameWay
    <3> QED BY <3>2 DEF i
  <2>6. \A b \in r : FindIndex(encode[b]) = b
        BY <1>1 DEF Places
  <2>7. \A b \in r : t[b] = s[b]
        BY <2>2, <2>5, <2>6
  <2> QED BY <2>7
<1> QED BY <1>3, <1>4

LEMMA BetweenIf ==
    ASSUME CoverAssumption, TuplesInv, NodesInv, RootInv, OrderFits, OrderIsValid
    PROVE  BetweenCoverAndR
<1> SUFFICES ASSUME type \in {1, 4}, phase = "build"
             PROVE  Entered \subseteq Represented /\ Represented \subseteq Join(Entered)
  <2>1. ToSet(CDB) \ {CDB[i] : i \in left} \subseteq Entered
        BY DEF ToSet, Entered
  <2> QED BY <2>1 DEF BetweenCoverAndR
<1>1. Places /\ OneWay
      BY PlacesIf DEF OrderIsValid, OneWay
<1> QED BY <1>1, RepresentedEntered, RepresentedJoin

\* The program's invariant, for any decomposition; TypeOK and OrderIsValid say
\* what the order has to be like.
EnteringInv == TuplesInv /\ NodesInv /\ RootInv

LEMMA Entering == Spec => []EnteringInv
<1>1. CoverAssumption
      BY CoverAssumption
<1>2. Init => EnteringInv
      BY <1>1, TuplesInit, RootInit DEF EnteringInv
<1>3. EnteringInv /\ [Next]_vars => EnteringInv'
      BY <1>1, TuplesStep, NodesStep, RootStep DEF EnteringInv
<1> QED BY <1>2, <1>3, PTL DEF Spec

\* Whatever the relations and the values, a database over a variable order
\* that has every attribute, and each relation on one way down, stands for
\* tuples of R only, and for all tuples entered (CoverDB.cpp:629).
THEOREM ValidOrderSuffices == Spec => [](TypeOK /\ OrderIsValid => BetweenCoverAndR)
<1>1. CoverAssumption
      BY CoverAssumption
<1>2. EnteringInv => (TypeOK /\ OrderIsValid => BetweenCoverAndR)
      BY <1>1, BetweenIf DEF EnteringInv, TypeOK, OrderFits
<1> QED BY <1>2, Entering, PTL

-----------------------------------------------------------------------------
(* The variable order *)

FirstFound(x, y, z) == IF x # 0 THEN x ELSE IF y # 0 THEN y ELSE z
Child(a, n) == IF order[n] \notin Related(a) THEN 0
               ELSE IF 2*n + 1 \notin DOMAIN order THEN 2*n + 1
               ELSE IF 2*n + 2 \notin DOMAIN order THEN 2*n + 2 ELSE 0

\* f[n] is the place that the search for a finds at n or below.
Searches(f, a) ==
    \A n \in Nat : f[n] =
       IF n \notin DOMAIN order THEN 0
       ELSE IF type = 3 THEN FirstFound(Child(a, n), f[2*n + 1], f[2*n + 2])
       ELSE FirstFound(f[2*n + 1], Child(a, n), f[2*n + 2])

LEMMA PlaceIs ==
    ASSUME NEW M \in Nat, DOMAIN order \subseteq 0 .. M, NEW a
    PROVE  \E f : Searches(f, a) /\ Place(a) = IF 1 \notin DOMAIN order THEN 1 ELSE f[0]
<1> DEFINE Step(f, n) ==
              IF n \notin DOMAIN order THEN 0
              ELSE IF type = 3 THEN FirstFound(Child(a, n), f[2*n + 1], f[2*n + 2])
              ELSE FirstFound(f[2*n + 1], Child(a, n), f[2*n + 2])
           F == [n \in Nat |-> [f \in [Nat -> Nat] |-> Step(f, n)]]
           m == [n \in Nat |-> IF n <= M THEN M + 1 - n ELSE 0]
           child(n) == IF order[n] \notin Related(a) THEN 0
                       ELSE IF 2*n + 1 \notin DOMAIN order THEN 2*n + 1
                       ELSE IF 2*n + 2 \notin DOMAIN order THEN 2*n + 2 ELSE 0
           Is(f) == f = [n \in Nat |->
              IF n \notin DOMAIN order THEN 0
              ELSE LET met == Meets(child(n), f[2*n + 1], f[2*n + 2])
                   IN  IF met[1] # 0 THEN met[1] ELSE IF met[2] # 0 THEN met[2] ELSE met[3]]
           f == CHOOSE g : Is(g)
<1>1. \A n \in Nat : 2*n + 1 \in Nat /\ 2*n + 2 \in Nat /\ Child(a, n) \in Nat
      BY DEF Child
<1>2. F \in [Nat -> [[Nat -> Nat] -> Nat]]
      BY <1>1 DEF FirstFound
<1>3. m \in [Nat -> 0 .. M + 1] /\ M + 1 \in Nat
      OBVIOUS
<1>4. \A n \in DOMAIN order : n \in Nat /\ m[2*n + 1] < m[n] /\ m[2*n + 2] < m[n]
      OBVIOUS
<1>5. Causal(Nat, Nat, m, F)
  <2> HIDE DEF m
  <2> QED BY <1>1, <1>4 DEF Causal
<1>6. Nat # {}
      OBVIOUS
<1>7. PICK g \in [Nat -> Nat] : SolvesAll(Nat, F, g)
  <2> DEFINE k == M + 1
  <2> HIDE DEF F, m, k
  <2>1. k \in Nat /\ m \in [Nat -> 0 .. k]
        BY <1>3 DEF k
  <2> QED BY <1>2, <1>5, <1>6, <2>1, RecursionExists
<1>8. \A h, n : Step(h, n) =
              IF n \notin DOMAIN order THEN 0
              ELSE LET met == Meets(child(n), h[2*n + 1], h[2*n + 2])
                   IN  IF met[1] # 0 THEN met[1] ELSE IF met[2] # 0 THEN met[2] ELSE met[3]
      BY DEF Meets, FirstFound, Child
<1>9. Is(f)
  <2>1. \A n \in Nat : g[n] = Step(g, n)
        BY <1>7 DEF SolvesAll
  <2> HIDE DEF Step, child, F
  <2>2. Is(g)
        BY <1>7, <1>8, <2>1
  <2> QED BY <2>2
<1>10. Place(a) = IF 1 \notin DOMAIN order THEN 1 ELSE f[0]
       BY DEF Place
<1> HIDE DEF f
<1>11. \A n \in Nat : f[n] = Step(f, n)
  <2> HIDE DEF Step, child
  <2> QED BY <1>8, <1>9
<1>12. Searches(f, a)
       BY <1>11 DEF Searches
<1> QED BY <1>10, <1>12

\* The attributes and relations that the program has, and its numNode.
Schema == NumNode = 40 /\ NumAttr = 6 /\ Decomposition = TheDecomposition

\* Where InsertAttributes puts A, B, ..., and InsertOtherAttributes with B and
\* A put in first.
AtA == <<1, 3, 7, 8, 4, 9>>
AtB == <<3, 1, 4, 7, 8, 17>>

\* The order has the attributes of D where p says, and no other.
Shape(p, D) ==
    /\ DOMAIN order = {0} \cup {p[a] : a \in D} /\ order[0] = 0
    /\ \A a \in D : order[p[a]] = a /\ encode[a] = p[a]

LEMMA RelatedIs ==
    ASSUME Schema
    PROVE  /\ Related(1) = {2, 3, 4, 5} /\ Related(2) = {1, 3, 4}
           /\ Related(3) = {1, 2} /\ Related(4) = {1, 2}
           /\ Related(5) = {1, 6} /\ Related(6) = {5}
<1>1. Related(1) = {2, 3, 4, 5}
      BY DEF Related, Schema, TheDecomposition
<1>2. Related(2) = {1, 3, 4}
      BY DEF Related, Schema, TheDecomposition
<1>3. Related(3) = {1, 2} /\ Related(4) = {1, 2}
      BY DEF Related, Schema, TheDecomposition
<1>4. Related(5) = {1, 6} /\ Related(6) = {5}
      BY DEF Related, Schema, TheDecomposition
<1> QED BY <1>1, <1>2, <1>3, <1>4

LEMMA PlaceA ==
    ASSUME Schema, type # 3, NEW k \in 1 .. 6, Shape(AtA, 1 .. k - 1)
    PROVE  Place(k) = AtA[k]
<1>0. PICK f : Searches(f, k) /\ Place(k) = IF 1 \notin DOMAIN order THEN 1 ELSE f[0]
  <2>1. DOMAIN order \subseteq 0 .. 9 /\ 9 \in Nat
    <3>1. \A a \in 1 .. k - 1 : AtA[a] \in 0 .. 9
          BY DEF AtA
    <3> QED BY <3>1 DEF Shape
  <2> QED BY <2>1, PlaceIs
<1>1. CASE k = 1
  <2>1. 1 .. k - 1 = {}
        BY <1>1
  <2>2. 1 \notin DOMAIN order
        BY <2>1 DEF Shape
  <2> QED BY <1>0, <1>1, <2>2 DEF AtA
<1>2. CASE k = 2
  <2>1. 1 .. k - 1 = {1}
        BY <1>2
  <2>2. /\ DOMAIN order = {0, 1} /\ order[0] = 0 /\ order[1] = 1
        BY <2>1 DEF Shape, AtA
  <2>3. /\ f[2] = 0 /\ f[3] = 0 /\ f[4] = 0
        BY <1>0, <2>2 DEF Searches
  <2>4. /\ Child(2, 0) = 0 /\ Child(2, 1) = 3
        BY <2>2, RelatedIs DEF Child
  <2>5. /\ f[1] = 3 /\ f[0] = 3
        BY <1>0, <1>2, <2>2, <2>3, <2>4 DEF Searches, FirstFound
  <2> QED BY <1>0, <1>2, <2>2, <2>5 DEF AtA
<1>3. CASE k = 3
  <2>1. 1 .. k - 1 = {1, 2}
        BY <1>3
  <2>2. /\ DOMAIN order = {0, 1, 3} /\ order[0] = 0 /\ order[1] = 1 /\ order[3] = 2
        BY <2>1 DEF Shape, AtA
  <2>3. /\ f[2] = 0 /\ f[4] = 0 /\ f[7] = 0 /\ f[8] = 0
        BY <1>0, <2>2 DEF Searches
  <2>4. /\ Child(3, 0) = 0 /\ Child(3, 1) = 4 /\ Child(3, 3) = 7
        BY <2>2, RelatedIs DEF Child
  <2>5. /\ f[3] = 7 /\ f[1] = 7 /\ f[0] = 7
        BY <1>0, <1>3, <2>2, <2>3, <2>4 DEF Searches, FirstFound
  <2> QED BY <1>0, <1>3, <2>2, <2>5 DEF AtA
<1>4. CASE k = 4
  <2>1. 1 .. k - 1 = {1, 2, 3}
        BY <1>4
  <2>2. /\ DOMAIN order = {0, 1, 3, 7} /\ order[0] = 0 /\ order[1] = 1 /\ order[3] = 2
        /\ order[7] = 3
        BY <2>1 DEF Shape, AtA
  <2>3. /\ f[2] = 0 /\ f[4] = 0 /\ f[8] = 0 /\ f[15] = 0 /\ f[16] = 0
        BY <1>0, <2>2 DEF Searches
  <2>4. /\ Child(4, 0) = 0 /\ Child(4, 1) = 4 /\ Child(4, 3) = 8 /\ Child(4, 7) = 0
        BY <2>2, RelatedIs DEF Child
  <2>5. /\ f[7] = 0 /\ f[3] = 8 /\ f[1] = 8 /\ f[0] = 8
        BY <1>0, <1>4, <2>2, <2>3, <2>4 DEF Searches, FirstFound
  <2> QED BY <1>0, <1>4, <2>2, <2>5 DEF AtA
<1>5. CASE k = 5
  <2>1. 1 .. k - 1 = {1, 2, 3, 4}
        BY <1>5
  <2>2. /\ DOMAIN order = {0, 1, 3, 7, 8} /\ order[0] = 0 /\ order[1] = 1
        /\ order[3] = 2 /\ order[7] = 3 /\ order[8] = 4
        BY <2>1 DEF Shape, AtA
  <2>3. /\ f[2] = 0 /\ f[4] = 0 /\ f[15] = 0 /\ f[16] = 0 /\ f[17] = 0 /\ f[18] = 0
        BY <1>0, <2>2 DEF Searches
  <2>4. /\ Child(5, 0) = 0 /\ Child(5, 1) = 4 /\ Child(5, 3) = 0 /\ Child(5, 7) = 0
        /\ Child(5, 8) = 0
        BY <2>2, RelatedIs DEF Child
  <2>5. /\ f[8] = 0 /\ f[7] = 0 /\ f[3] = 0 /\ f[1] = 4 /\ f[0] = 4
        BY <1>0, <1>5, <2>2, <2>3, <2>4 DEF Searches, FirstFound
  <2> QED BY <1>0, <1>5, <2>2, <2>5 DEF AtA
<1>6. CASE k = 6
  <2>1. 1 .. k - 1 = {1, 2, 3, 4, 5}
        BY <1>6
  <2>2. /\ DOMAIN order = {0, 1, 3, 4, 7, 8} /\ order[0] = 0 /\ order[1] = 1
        /\ order[3] = 2 /\ order[4] = 5 /\ order[7] = 3 /\ order[8] = 4
    <3>1. AtA[1] = 1 /\ AtA[2] = 3 /\ AtA[3] = 7 /\ AtA[4] = 8 /\ AtA[5] = 4
          BY DEF AtA
    <3>2. {AtA[a] : a \in {1, 2, 3, 4, 5}} = {1, 3, 7, 8, 4}
          BY <3>1
    <3> QED BY <2>1, <3>1, <3>2 DEF Shape
  <2>3. /\ f[2] = 0 /\ f[9] = 0 /\ f[10] = 0 /\ f[15] = 0 /\ f[16] = 0 /\ f[17] = 0
        /\ f[18] = 0
        BY <1>0, <2>2 DEF Searches
  <2>4. /\ Child(6, 0) = 0 /\ Child(6, 1) = 0 /\ Child(6, 3) = 0 /\ Child(6, 4) = 9
        /\ Child(6, 7) = 0 /\ Child(6, 8) = 0
        BY <2>2, RelatedIs DEF Child
  <2>5. /\ f[8] = 0 /\ f[7] = 0 /\ f[4] = 9 /\ f[3] = 0 /\ f[1] = 9 /\ f[0] = 9
        BY <1>0, <1>6, <2>2, <2>3, <2>4 DEF Searches, FirstFound
  <2> QED BY <1>0, <1>6, <2>2, <2>5 DEF AtA
<1> QED BY <1>1, <1>2, <1>3, <1>4, <1>5, <1>6

LEMMA InsertStep ==
    ASSUME Schema, DOMAIN encode = Letters, InsertAttribute,
           NEW k \in 1 .. 6, todo = k, NEW p, NEW D \in SUBSET (1 .. 6), Shape(p, D),
           p[k] \in Nat \ {0}, k \notin D => Place(k) = p[k] /\ \A a \in D : p[a] # p[k],
           \A a \in D : p[a] # 0
    PROVE  /\ Shape(p, D \cup {k})' /\ todo' = k + 1
           /\ DOMAIN encode' = Letters /\ encode'[U] = encode[U]
           /\ phase' = phase /\ type' = type
<1>1. k \in Letters /\ k # U
      BY DEF Letters, Attributes, U, Schema
<1>2. Range(order) = {0} \cup D
  <2>1. Range(order) = {order[n] : n \in DOMAIN order}
        BY DEF Range
  <2>2. order[0] = 0 /\ \A a \in D : p[a] \in DOMAIN order /\ order[p[a]] = a
        BY DEF Shape
  <2>3. 0 \in DOMAIN order /\ \A n \in DOMAIN order : n = 0 \/ \E a \in D : n = p[a]
        BY DEF Shape
  <2>4. {0} \cup D \subseteq Range(order)
        BY <2>1, <2>2, <2>3
  <2>5. Range(order) \subseteq {0} \cup D
        BY <2>1, <2>2, <2>3
  <2> QED BY <2>4, <2>5
<1>3. phase' = phase /\ type' = type /\ todo' = k + 1
      BY DEF InsertAttribute
<1>4. CASE k \in D
  <2>1. UNCHANGED <<order, encode>>
        BY <1>2, <1>4 DEF InsertAttribute
  <2>2. D \cup {k} = D
        BY <1>4
  <2>3. Shape(p, D)'
        BY <2>1 DEF Shape
  <2> QED BY <1>3, <2>1, <2>2, <2>3
<1>5. CASE k \notin D
  <2>1. /\ order' = Put(order, p[k], k)
        /\ encode' = [encode EXCEPT ![k] = p[k]]
        BY <1>2, <1>5 DEF InsertAttribute, Encoded
  <2>2. /\ DOMAIN encode' = Letters /\ encode'[k] = p[k]
        /\ \A a \in Letters \ {k} : encode'[a] = encode[a]
        BY <1>1, <2>1
  <2>3. D \subseteq Letters
        BY DEF Letters, Attributes, Schema
  <2>4. /\ DOMAIN order' = DOMAIN order \cup {p[k]} /\ order'[p[k]] = k
        /\ \A n \in DOMAIN order \ {p[k]} : order'[n] = order[n]
        BY <2>1 DEF Put
  <2>5. DOMAIN order' = {0} \cup {p[a] : a \in D \cup {k}}
        BY <2>4 DEF Shape
  <2>6. order'[0] = 0
        BY <2>4 DEF Shape
  <2>7. ASSUME NEW a \in D \cup {k} PROVE order'[p[a]] = a /\ encode'[a] = p[a]
    <3>1. CASE a = k
          BY <2>2, <2>4, <3>1
    <3>2. CASE a \in D
      <4>1. p[a] \in DOMAIN order \ {p[k]} /\ a # k
            BY <1>5, <3>2 DEF Shape
      <4> QED BY <2>2, <2>3, <2>4, <3>2, <4>1 DEF Shape
    <3> QED BY <3>1, <3>2
  <2>8. U \in Letters \ {k}
        BY <1>1 DEF Letters
  <2> QED BY <1>3, <2>2, <2>5, <2>6, <2>7, <2>8 DEF Shape
<1> QED BY <1>4, <1>5

LEMMA InsertA ==
    ASSUME Schema, DOMAIN encode = Letters, InsertAttribute, type # 3,
           todo \in 1 .. 7, Shape(AtA, 1 .. todo - 1)
    PROVE  /\ todo' \in 1 .. 7 /\ Shape(AtA, 1 .. todo - 1)'
           /\ DOMAIN encode' = Letters /\ encode'[U] = encode[U]
           /\ phase' = phase /\ type' = type
<1>1. PICK k \in 1 .. 6 : todo = k
      BY DEF InsertAttribute, Schema
<1>2. 1 .. k - 1 \in SUBSET (1 .. 6) /\ k \notin 1 .. k - 1
      BY <1>1
<1>3. \A a, b \in 1 .. 6 : AtA[a] \in Nat \ {0} /\ (a # b => AtA[a] # AtA[b])
      BY DEF AtA
<1>4. Place(k) = AtA[k] /\ Shape(AtA, 1 .. k - 1)
      BY <1>1, PlaceA
<1> DEFINE p == AtA
<1> HIDE DEF p
<1>5. Shape(p, 1 .. k - 1) /\ Place(k) = p[k] /\ p[k] \in Nat \ {0}
      /\ (\A a \in 1 .. k - 1 : p[a] # p[k]) /\ (\A a \in 1 .. k - 1 : p[a] # 0)
      BY <1>2, <1>3, <1>4 DEF p
<1>6. /\ Shape(p, (1 .. k - 1) \cup {k})' /\ todo' = k + 1
      /\ DOMAIN encode' = Letters /\ encode'[U] = encode[U]
      /\ phase' = phase /\ type' = type
      BY <1>1, <1>2, <1>5, InsertStep
<1>7. (1 .. k - 1) \cup {k} = 1 .. (k + 1) - 1 /\ k + 1 \in 1 .. 7
      OBVIOUS
<1>8. Shape(AtA, 1 .. (k + 1) - 1)'
      BY <1>6, <1>7 DEF p
<1> QED BY <1>6, <1>7, <1>8

\* While CoverDB answers a query of type 1 or 4, the attributes before todo are
\* in their places.
OrderInv ==
    /\ DOMAIN encode = Letters
    /\ type \in {1, 4} /\ phase # "idle" =>
          /\ todo \in 1 .. 7 /\ Shape(AtA, 1 .. todo - 1)
          /\ phase = "build" => todo = 7

LEMMA OrderStep ==
    ASSUME Schema, TuplesInv, OrderInv, [Next]_vars
    PROVE  OrderInv'
<1>1. ASSUME NEW q \in Queries, BuildVariableOrder(q) PROVE OrderInv'
  <2>1. /\ phase' = "order" /\ todo' = 1 /\ DOMAIN encode' = Letters
        /\ order' = FirstOrder(q, type')
        BY <1>1 DEF BuildVariableOrder
  <2>2. type' \in {1, 4} => DOMAIN order' = {0} /\ order'[0] = 0
        BY <2>1 DEF FirstOrder
  <2>3. 1 .. 1 - 1 = {}
        OBVIOUS
  <2>4. type' \in {1, 4} => Shape(AtA, {})'
        BY <2>2 DEF Shape
  <2> QED BY <2>1, <2>3, <2>4 DEF OrderInv
<1>2. CASE InsertAttribute
  <2>1. phase = "order" /\ phase' = "order" /\ type' = type
        BY <1>2 DEF InsertAttribute
  <2>2. CASE type \in {1, 4}
        BY <1>2, <2>1, <2>2, InsertA DEF OrderInv
  <2>3. CASE type \notin {1, 4}
        BY <1>2, <2>1, <2>3 DEF OrderInv, InsertAttribute, Encoded
  <2> QED BY <2>2, <2>3
<1>3. CASE ReadCover
      BY <1>3 DEF ReadCover, OrderInv, Shape, Schema
<1>4. CASE UNCHANGED <<encode, order, todo, type>> /\ (phase' = "idle" \/ phase' = phase)
      BY <1>4 DEF OrderInv, Shape
<1>5. ASSUME NEW q \in Queries, StandardDB(q) PROVE OrderInv'
      BY <1>5 DEF StandardDB, OrderInv
<1> QED BY <1>1, <1>2, <1>3, <1>4, <1>5 DEF Next, vars, NoCover, EnterTuple, Answer

LEMMA OrderFitsA ==
    ASSUME Schema, OrderInv, type \in {1, 4}, phase = "build"
    PROVE  Shape(AtA, 1 .. 6) /\ OrderFits /\ Range(order) \ {0} = Attributes
<1>1. Shape(AtA, 1 .. 6)
  <2>1. todo = 7 /\ Shape(AtA, 1 .. todo - 1)
        BY DEF OrderInv
  <2>2. 7 - 1 = 6
        OBVIOUS
  <2> QED BY <2>1, <2>2
<1>2. \A a \in 1 .. 6 : AtA[a] \in 1 .. 39
      BY DEF AtA
<1> DEFINE p == AtA
<1> HIDE DEF p
<1>3. OrderFits
  <2>1. Shape(p, 1 .. 6) /\ (\A a \in 1 .. 6 : p[a] \in 1 .. 39) /\ NumNode = 40
        BY <1>1, <1>2 DEF p, Schema
  <2> QED BY <2>1 DEF OrderFits, Shape
<1>4. Range(order) \ {0} = Attributes
      BY <1>1 DEF Shape, Range, Attributes, Schema
<1> QED BY <1>1, <1>3, <1>4

LEMMA AncestorsA ==
    /\ {1, 3, 7} \subseteq Ancestors(7) /\ {1, 3, 8} \subseteq Ancestors(8)
    /\ {1, 3} \subseteq Ancestors(3) /\ {1, 4} \subseteq Ancestors(4)
    /\ {1, 4, 9} \subseteq Ancestors(9)
<1>1. /\ Above(1) = 0 /\ Above(3) = 1 /\ Above(4) = 1 /\ Above(7) = 3 /\ Above(8) = 3
      /\ Above(9) = 4
      BY DEF Above
<1>2. {1, 3, 7} \subseteq Ancestors(7)
  <2>1. PICK u : /\ Ancestors(7) = u[7]
                 /\ \A k \in 0 .. 7 : u[k] = IF k = 0 THEN {0} ELSE {k} \cup u[Above(k)]
        BY AncestorsAre
  <2>2. /\ Ancestors(7) = u[7]
        /\ u[7] = {7} \cup u[3]
        /\ u[3] = {3} \cup u[1]
        /\ u[1] = {1} \cup u[0]
        BY <1>1, <2>1
  <2> QED BY <2>2
<1>3. {1, 3, 8} \subseteq Ancestors(8)
  <2>1. PICK u : /\ Ancestors(8) = u[8]
                 /\ \A k \in 0 .. 8 : u[k] = IF k = 0 THEN {0} ELSE {k} \cup u[Above(k)]
        BY AncestorsAre
  <2>2. /\ Ancestors(8) = u[8]
        /\ u[8] = {8} \cup u[3]
        /\ u[3] = {3} \cup u[1]
        /\ u[1] = {1} \cup u[0]
        BY <1>1, <2>1
  <2> QED BY <2>2
<1>4. {1, 3} \subseteq Ancestors(3)
  <2>1. PICK u : /\ Ancestors(3) = u[3]
                 /\ \A k \in 0 .. 3 : u[k] = IF k = 0 THEN {0} ELSE {k} \cup u[Above(k)]
        BY AncestorsAre
  <2>2. /\ Ancestors(3) = u[3]
        /\ u[3] = {3} \cup u[1]
        /\ u[1] = {1} \cup u[0]
        BY <1>1, <2>1
  <2> QED BY <2>2
<1>5. {1, 4} \subseteq Ancestors(4)
  <2>1. PICK u : /\ Ancestors(4) = u[4]
                 /\ \A k \in 0 .. 4 : u[k] = IF k = 0 THEN {0} ELSE {k} \cup u[Above(k)]
        BY AncestorsAre
  <2>2. /\ Ancestors(4) = u[4]
        /\ u[4] = {4} \cup u[1]
        /\ u[1] = {1} \cup u[0]
        BY <1>1, <2>1
  <2> QED BY <2>2
<1>6. {1, 4, 9} \subseteq Ancestors(9)
  <2>1. PICK u : /\ Ancestors(9) = u[9]
                 /\ \A k \in 0 .. 9 : u[k] = IF k = 0 THEN {0} ELSE {k} \cup u[Above(k)]
        BY AncestorsAre
  <2>2. /\ Ancestors(9) = u[9]
        /\ u[9] = {9} \cup u[4]
        /\ u[4] = {4} \cup u[1]
        /\ u[1] = {1} \cup u[0]
        BY <1>1, <2>1
  <2> QED BY <2>2
<1> QED BY <1>2, <1>3, <1>4, <1>5, <1>6

LEMMA ValidA ==
    ASSUME Schema, OrderInv
    PROVE  OrderIsValid
<1> SUFFICES ASSUME type \in {1, 4}, phase = "build"
             PROVE  /\ Range(order) \ {0} = Attributes
                    /\ \A r \in Decomposition : \A a, b \in r :
                          \/ encode[a] \in Ancestors(encode[b])
                          \/ encode[b] \in Ancestors(encode[a])
    BY DEF OrderIsValid
<1>1. Shape(AtA, 1 .. 6) /\ Range(order) \ {0} = Attributes
      BY OrderFitsA
<1>2. /\ encode[1] = 1 /\ encode[2] = 3 /\ encode[3] = 7 /\ encode[4] = 8
      /\ encode[5] = 4 /\ encode[6] = 9
      BY <1>1 DEF Shape, AtA
<1>3. 1 \in Ancestors(1)
  <2>1. PICK u : /\ Ancestors(1) = u[1]
                 /\ \A k \in 0 .. 1 : u[k] = IF k = 0 THEN {0} ELSE {k} \cup u[Above(k)]
        BY AncestorsAre
  <2> QED BY <2>1
<1>4. ASSUME NEW a \in {1, 2, 3}, NEW b \in {1, 2, 3}
      PROVE  encode[a] \in Ancestors(encode[b]) \/ encode[b] \in Ancestors(encode[a])
      BY <1>2, <1>3, AncestorsA
<1>5. ASSUME NEW a \in {1, 2, 4}, NEW b \in {1, 2, 4}
      PROVE  encode[a] \in Ancestors(encode[b]) \/ encode[b] \in Ancestors(encode[a])
      BY <1>2, <1>3, AncestorsA
<1>6. ASSUME NEW a \in {1, 5}, NEW b \in {1, 5}
      PROVE  encode[a] \in Ancestors(encode[b]) \/ encode[b] \in Ancestors(encode[a])
      BY <1>2, <1>3, AncestorsA
<1>7. ASSUME NEW a \in {5, 6}, NEW b \in {5, 6}
      PROVE  encode[a] \in Ancestors(encode[b]) \/ encode[b] \in Ancestors(encode[a])
      BY <1>2, <1>3, AncestorsA
<1> QED BY <1>1, <1>4, <1>5, <1>6, <1>7 DEF Schema, TheDecomposition

LEMMA Ordering == Schema /\ Spec => [](OrderInv /\ EnteringInv)
<1>1. ASSUME Init PROVE OrderInv
      BY <1>1 DEF Init, OrderInv
<1>2. ASSUME Schema, TuplesInv, OrderInv, [Next]_vars PROVE OrderInv'
      BY <1>2, OrderStep
<1>3. EnteringInv => TuplesInv
      BY DEF EnteringInv
<1>4. Schema => Schema'
      BY DEF Schema
<1> QED BY <1>1, <1>2, <1>3, <1>4, Entering, PTL DEF Spec

\* InsertAttributes and FindVarOrder_BFS arrange the program's attributes so
\* that each relation lies on one way down, whatever the query of type 1 or 4
\* and whatever was asked before (CoverDB.cpp:403, 253).
THEOREM OrderValid == Schema /\ Spec => []OrderIsValid
<1>1. Schema /\ OrderInv => OrderIsValid
      BY ValidA
<1>2. Schema => []Schema
  <2>1. Schema => Schema'
        BY DEF Schema
  <2> QED BY <2>1, PTL
<1> QED BY <1>1, <1>2, Ordering, PTL

\* For every cover, of any size and any values, the factorised database stands
\* for the tuples entered, and for nothing that is not in R (CoverDB.cpp:629).
THEOREM BetweenHolds == Schema /\ Spec => []BetweenCoverAndR
<1>1. CoverAssumption
      BY CoverAssumption
<1>2. ASSUME Schema, OrderInv, EnteringInv PROVE BetweenCoverAndR
  <2>1. CASE type \in {1, 4} /\ phase = "build"
    <3>1. OrderFits /\ OrderIsValid
          BY <1>2, <2>1, OrderFitsA, ValidA
    <3> QED BY <1>1, <1>2, <3>1, BetweenIf DEF EnteringInv
  <2>2. CASE ~(type \in {1, 4} /\ phase = "build")
        BY <2>2 DEF BetweenCoverAndR
  <2> QED BY <2>1, <2>2
<1>3. Schema => []Schema
  <2>1. Schema => Schema'
        BY DEF Schema
  <2> QED BY <2>1, PTL
<1> QED BY <1>2, <1>3, Ordering, PTL

-----------------------------------------------------------------------------
(* The queries of the benchmark: types 2 and 3, and what encode keeps *)

LEMMA PlaceB ==
    ASSUME Schema, type = 3, NEW k \in 3 .. 6, Shape(AtB, {1, 2} \cup (1 .. k - 1))
    PROVE  Place(k) = AtB[k]
<1>0. PICK f : Searches(f, k) /\ Place(k) = IF 1 \notin DOMAIN order THEN 1 ELSE f[0]
  <2>1. DOMAIN order \subseteq 0 .. 17 /\ 17 \in Nat
    <3>1. \A a \in {1, 2} \cup (1 .. k - 1) : AtB[a] \in 0 .. 17
          BY DEF AtB
    <3> QED BY <3>1 DEF Shape
  <2> QED BY <2>1, PlaceIs
<1>3. CASE k = 3
  <2>1. {1, 2} \cup (1 .. k - 1) = {1, 2}
        BY <1>3
  <2>2. /\ DOMAIN order = {0, 1, 3} /\ order[0] = 0 /\ order[1] = 2 /\ order[3] = 1
    <3>1. AtB[1] = 3 /\ AtB[2] = 1
          BY DEF AtB
    <3>2. {AtB[a] : a \in {1, 2}} = {3, 1}
          BY <3>1
    <3> QED BY <2>1, <3>1, <3>2 DEF Shape
  <2>3. /\ f[2] = 0 /\ f[4] = 0 /\ f[7] = 0 /\ f[8] = 0
        BY <1>0, <2>2 DEF Searches
  <2>4. /\ Child(3, 0) = 0 /\ Child(3, 1) = 4 /\ Child(3, 3) = 7
        BY <2>2, RelatedIs DEF Child
  <2>5. /\ f[3] = 7 /\ f[1] = 4 /\ f[0] = 4
        BY <1>0, <1>3, <2>2, <2>3, <2>4 DEF Searches, FirstFound
  <2> QED BY <1>0, <1>3, <2>2, <2>5 DEF AtB
<1>4. CASE k = 4
  <2>1. {1, 2} \cup (1 .. k - 1) = {1, 2, 3}
        BY <1>4
  <2>2. /\ DOMAIN order = {0, 1, 3, 4} /\ order[0] = 0 /\ order[1] = 2 /\ order[3] = 1
        /\ order[4] = 3
    <3>1. AtB[1] = 3 /\ AtB[2] = 1 /\ AtB[3] = 4
          BY DEF AtB
    <3>2. {AtB[a] : a \in {1, 2, 3}} = {3, 1, 4}
          BY <3>1
    <3> QED BY <2>1, <3>1, <3>2 DEF Shape
  <2>3. /\ f[2] = 0 /\ f[7] = 0 /\ f[8] = 0 /\ f[9] = 0 /\ f[10] = 0
        BY <1>0, <2>2 DEF Searches
  <2>4. /\ Child(4, 0) = 0 /\ Child(4, 1) = 0 /\ Child(4, 3) = 7 /\ Child(4, 4) = 0
        BY <2>2, RelatedIs DEF Child
  <2>5. /\ f[4] = 0 /\ f[3] = 7 /\ f[1] = 7 /\ f[0] = 7
        BY <1>0, <1>4, <2>2, <2>3, <2>4 DEF Searches, FirstFound
  <2> QED BY <1>0, <1>4, <2>2, <2>5 DEF AtB
<1>5. CASE k = 5
  <2>1. {1, 2} \cup (1 .. k - 1) = {1, 2, 3, 4}
        BY <1>5
  <2>2. /\ DOMAIN order = {0, 1, 3, 4, 7} /\ order[0] = 0 /\ order[1] = 2
        /\ order[3] = 1 /\ order[4] = 3 /\ order[7] = 4
    <3>1. AtB[1] = 3 /\ AtB[2] = 1 /\ AtB[3] = 4 /\ AtB[4] = 7
          BY DEF AtB
    <3>2. {AtB[a] : a \in {1, 2, 3, 4}} = {3, 1, 4, 7}
          BY <3>1
    <3> QED BY <2>1, <3>1, <3>2 DEF Shape
  <2>3. /\ f[2] = 0 /\ f[8] = 0 /\ f[9] = 0 /\ f[10] = 0 /\ f[15] = 0 /\ f[16] = 0
        BY <1>0, <2>2 DEF Searches
  <2>4. /\ Child(5, 0) = 0 /\ Child(5, 1) = 0 /\ Child(5, 3) = 8 /\ Child(5, 4) = 0
        /\ Child(5, 7) = 0
        BY <2>2, RelatedIs DEF Child
  <2>5. /\ f[7] = 0 /\ f[4] = 0 /\ f[3] = 8 /\ f[1] = 8 /\ f[0] = 8
        BY <1>0, <1>5, <2>2, <2>3, <2>4 DEF Searches, FirstFound
  <2> QED BY <1>0, <1>5, <2>2, <2>5 DEF AtB
<1>6. CASE k = 6
  <2>1. {1, 2} \cup (1 .. k - 1) = {1, 2, 3, 4, 5}
        BY <1>6
  <2>2. /\ DOMAIN order = {0, 1, 3, 4, 7, 8} /\ order[0] = 0 /\ order[1] = 2
        /\ order[3] = 1 /\ order[4] = 3 /\ order[7] = 4 /\ order[8] = 5
    <3>1. AtB[1] = 3 /\ AtB[2] = 1 /\ AtB[3] = 4 /\ AtB[4] = 7 /\ AtB[5] = 8
          BY DEF AtB
    <3>2. {AtB[a] : a \in {1, 2, 3, 4, 5}} = {3, 1, 4, 7, 8}
          BY <3>1
    <3> QED BY <2>1, <3>1, <3>2 DEF Shape
  <2>3. /\ f[2] = 0 /\ f[9] = 0 /\ f[10] = 0 /\ f[15] = 0 /\ f[16] = 0 /\ f[17] = 0
        /\ f[18] = 0
        BY <1>0, <2>2 DEF Searches
  <2>4. /\ Child(6, 0) = 0 /\ Child(6, 1) = 0 /\ Child(6, 3) = 0 /\ Child(6, 4) = 0
        /\ Child(6, 7) = 0 /\ Child(6, 8) = 17
        BY <2>2, RelatedIs DEF Child
  <2>5. /\ f[8] = 17 /\ f[7] = 0 /\ f[4] = 0 /\ f[3] = 17 /\ f[1] = 17 /\ f[0] = 17
        BY <1>0, <1>6, <2>2, <2>3, <2>4 DEF Searches, FirstFound
  <2> QED BY <1>0, <1>6, <2>2, <2>5 DEF AtB
<1> QED BY <1>3, <1>4, <1>5, <1>6

\* The order of a query of type 2, which nothing else enters.
ShapeU == DOMAIN order = {0, 1} /\ order[0] = 0 /\ order[1] = U /\ encode[U] = 1

LEMMA PlaceU ==
    ASSUME Schema, ShapeU, NEW a \in 1 .. 6
    PROVE  Place(a) = 0
<1>1. DOMAIN order \subseteq 0 .. 1 /\ 1 \in Nat
      BY DEF ShapeU
<1>2. PICK f : Searches(f, a) /\ Place(a) = IF 1 \notin DOMAIN order THEN 1 ELSE f[0]
      BY <1>1, PlaceIs
<1>3. f[2] = 0 /\ f[3] = 0 /\ f[4] = 0
      BY <1>2 DEF Searches, ShapeU
<1>4. Related(a) \subseteq Attributes
      BY DEF Related, Schema, TheDecomposition, Attributes
<1>5. Child(a, 0) = 0 /\ Child(a, 1) = 0
      BY <1>4 DEF Child, ShapeU, U, Attributes, Schema
<1>6. f[1] = 0 /\ f[0] = 0
      BY <1>2, <1>3, <1>5 DEF Searches, FirstFound, ShapeU
<1> QED BY <1>2, <1>6 DEF ShapeU

LEMMA InsertB ==
    ASSUME Schema, DOMAIN encode = Letters, InsertAttribute, type = 3,
           todo \in 1 .. 7, Shape(AtB, {1, 2} \cup (1 .. todo - 1))
    PROVE  /\ todo' \in 1 .. 7 /\ Shape(AtB, {1, 2} \cup (1 .. todo - 1))'
           /\ DOMAIN encode' = Letters /\ encode'[U] = encode[U]
           /\ phase' = phase /\ type' = type
<1>1. PICK k \in 1 .. 6 : todo = k
      BY DEF InsertAttribute, Schema
<1> DEFINE D == {1, 2} \cup (1 .. k - 1)
           p == AtB
<1>2. D \in SUBSET (1 .. 6) /\ (k \notin D => k \in 3 .. 6)
      BY <1>1
<1>3. \A a, b \in 1 .. 6 : AtB[a] \in Nat \ {0} /\ (a # b => AtB[a] # AtB[b])
      BY DEF AtB
<1>4. Shape(AtB, D) /\ (k \notin D => Place(k) = AtB[k])
      BY <1>1, <1>2, PlaceB
<1> HIDE DEF p, D
<1>5. Shape(p, D) /\ (k \notin D => Place(k) = p[k]) /\ p[k] \in Nat \ {0}
      /\ (k \notin D => \A a \in D : p[a] # p[k]) /\ (\A a \in D : p[a] # 0)
      BY <1>2, <1>3, <1>4 DEF p
<1>6. /\ Shape(p, D \cup {k})' /\ todo' = k + 1
      /\ DOMAIN encode' = Letters /\ encode'[U] = encode[U]
      /\ phase' = phase /\ type' = type
      BY <1>1, <1>2, <1>5, InsertStep
<1>7. D \cup {k} = {1, 2} \cup (1 .. (k + 1) - 1) /\ k + 1 \in 1 .. 7
      BY DEF D
<1>8. Shape(AtB, {1, 2} \cup (1 .. (k + 1) - 1))'
      BY <1>6, <1>7 DEF p
<1> QED BY <1>6, <1>7, <1>8

\* Between two orders, encode has the attributes nowhere yet, or all where an
\* earlier query put them.
Nowhere == <<0, 0, 0, 0, 0, 0>>
Settled == \E p \in {Nowhere, AtA, AtB} : \A a \in 1 .. 6 : encode[a] = p[a]

LEMMA UsedIs ==
    ASSUME Schema, DOMAIN encode = Letters, encode[U] \in {0, 1}, Settled
    PROVE  \A i \in Used : Above(i) = 0 \/ Above(i) \in Used
<1>1. PICK p \in {Nowhere, AtA, AtB} : \A a \in 1 .. 6 : encode[a] = p[a]
      BY DEF Settled
<1>2. Letters = (1 .. 6) \cup {U}
      BY DEF Letters, Attributes, Schema
<1>3. ASSUME NEW i \in Used PROVE i = 1 \/ \E a \in 1 .. 6 : p[a] = i
      BY <1>1, <1>2, <1>3 DEF Used
<1>4. ASSUME NEW a \in 1 .. 6, p[a] \in 1 .. 39 PROVE p[a] \in Used
      BY <1>1, <1>2, <1>4 DEF Used, Schema
<1>5. /\ Above(1) = 0 /\ Above(3) = 1 /\ Above(4) = 1 /\ Above(7) = 3 /\ Above(8) = 3
      /\ Above(9) = 4 /\ Above(17) = 8
      BY DEF Above
<1>6. CASE p = Nowhere
  <2>1. \A a \in 1 .. 6 : p[a] = 0
        BY <1>6 DEF Nowhere
  <2>2. ASSUME NEW i \in Used PROVE i = 1
    <3>1. i # 0
          BY DEF Used
    <3> QED BY <1>3, <2>1, <3>1
  <2> QED BY <1>5, <2>2
<1>7. CASE p = AtA
  <2>1. /\ p[1] = 1 /\ p[2] = 3 /\ p[3] = 7 /\ p[4] = 8 /\ p[5] = 4 /\ p[6] = 9
        BY <1>7 DEF AtA
  <2>2. {1, 3, 4} \subseteq Used
    <3>1. p[1] \in Used /\ p[2] \in Used /\ p[5] \in Used
          BY <1>4, <2>1
    <3> QED BY <2>1, <3>1
  <2>3. \A i \in Used : i \in {1, 3, 7, 8, 4, 9}
        BY <1>3, <2>1
  <2> QED BY <1>5, <2>2, <2>3
<1>8. CASE p = AtB
  <2>1. /\ p[1] = 3 /\ p[2] = 1 /\ p[3] = 4 /\ p[4] = 7 /\ p[5] = 8 /\ p[6] = 17
        BY <1>8 DEF AtB
  <2>2. {1, 3, 8} \subseteq Used
    <3>1. p[1] \in Used /\ p[2] \in Used /\ p[5] \in Used
          BY <1>4, <2>1
    <3> QED BY <2>1, <3>1
  <2>3. \A i \in Used : i \in {3, 1, 4, 7, 8, 17}
        BY <1>3, <2>1
  <2> QED BY <1>5, <2>2, <2>3
<1> QED BY <1>6, <1>7, <1>8

LEMMA PathsTyped ==
    ASSUME CoverAssumption, NEW t \in Tuples,
           \A i \in Used : Above(i) = 0 \/ Above(i) \in Used,
           \A i \in Used : FindIndex(i) \in Attributes
    PROVE  \A i \in Used : Paths(t)[i] \in Seq(Values)
<1> DEFINE N == NumNode - 1
           m == [i \in Used |-> i]
           X == {i \in Used : Paths(t)[i] \in Seq(Values)}
<1>1. N \in Nat /\ \A i \in Used : i \in 1 .. N
  <2>1. NumNode \in Nat \ {0}
        BY DEF CoverAssumption
  <2>2. N \in Nat
        BY <2>1
  <2> QED BY <2>2 DEF Used
<1>2. m \in [Used -> 0 .. N]
      BY <1>1
<1>3. t \in [Attributes -> Values]
      BY DEF CoverAssumption
<1>4. Inherited(Used, m, X)
  <2> SUFFICES ASSUME NEW i \in Used, \A j \in Used : m[j] < m[i] => j \in X PROVE i \in X
      BY DEF Inherited
  <2>1. i \in 1 .. N /\ Above(i) \in 0 .. i - 1
        BY <1>1, AboveIs
  <2>2. Paths(t)[Above(i)] \in Seq(Values)
    <3>1. CASE Above(i) = 0
          BY <3>1, PathsAre, EmptySeq
    <3>2. CASE Above(i) \in Used
      <4>1. m[Above(i)] < m[i]
            BY <1>1, <2>1, <3>2
      <4> QED BY <3>2, <4>1
    <3> QED BY <3>1, <3>2
  <2>3. Paths(t)[i] = Append(Paths(t)[Above(i)], t[FindIndex(i)])
        BY <2>1, PathsAre
  <2>4. t[FindIndex(i)] \in Values
        BY <1>3
  <2>5. Paths(t)[i] \in Seq(Values)
        BY <2>2, <2>3, <2>4, AppendProperties
  <2> QED BY <2>5
<1>5. Used \subseteq X
  <2> HIDE DEF m, X, N
  <2> QED BY <1>1, <1>2, <1>4, MeasureInduction
<1> QED BY <1>5

LEMMA NotRootIs == ASSUME Schema PROVE NotRoot(1) /\ ~NotRoot(2)
<1>1. IsFiniteSet({1, 2}) /\ Cardinality({1, 2}) = 2
  <2>1. IsFiniteSet({1}) /\ Cardinality({1}) = 1
        BY FS_Singleton
  <2>2. {1, 2} = {1} \cup {2}
        OBVIOUS
  <2> QED BY <2>1, <2>2, FS_AddElement
<1>2. Cardinality({1, 2, 3}) = 3
  <2>1. {1, 2, 3} = {1, 2} \cup {3}
        OBVIOUS
  <2> QED BY <1>1, <2>1, FS_AddElement
<1>3. Cardinality({1, 2, 4}) = 3
  <2>1. {1, 2, 4} = {1, 2} \cup {4}
        OBVIOUS
  <2> QED BY <1>1, <2>1, FS_AddElement
<1>4. Cardinality({1, 5}) = 2
  <2>1. IsFiniteSet({1}) /\ Cardinality({1}) = 1
        BY FS_Singleton
  <2>2. {1, 5} = {1} \cup {5}
        OBVIOUS
  <2> QED BY <2>1, <2>2, FS_AddElement
<1>5. NotRoot(1)
      BY <1>4 DEF NotRoot, Schema, TheDecomposition
<1>6. ~NotRoot(2)
      BY <1>2, <1>3 DEF NotRoot, Schema, TheDecomposition
<1> QED BY <1>5, <1>6

\* What CoverDB starts each query of the benchmark with.
LEMMA Beginning ==
    ASSUME Schema, NEW q \in Benchmark
    PROVE  LET t == IF QueryType(q) = 3 THEN GroupType(q) ELSE QueryType(q)
           IN  \/ t \in {1, 4} /\ FirstOrder(q, t) = [n \in {0} |-> 0]
               \/ t = 2 /\ FirstOrder(q, t) = [n \in {0, 1} |-> IF n = 0 THEN 0 ELSE U]
               \/ t = 3 /\ FirstOrder(q, t) = [n \in {0, 1, 3} |-> IF n = 0 THEN 0 ELSE
                                                 IF n = 1 THEN 2 ELSE 1]
<1>1. CASE q = [sum |-> 0, groupBy |-> << >>]
      BY <1>1 DEF QueryType, FirstOrder
<1>2. CASE q = [sum |-> 1, groupBy |-> << >>]
      BY <1>2 DEF QueryType, FirstOrder, Expr
<1>3. CASE q = [sum |-> 6, groupBy |-> <<1, 2>>]
  <2>1. q.groupBy = <<1, 2>> /\ q.sum = 6 /\ <<1, 2>> # << >>
        BY <1>3
  <2>2. ToSet(q.groupBy) = {1, 2}
        BY <2>1 DEF ToSet
  <2>3. GroupType(q) = 3 /\ QueryType(q) = 3
        BY <2>1, <2>2, RelatedIs DEF GroupType, QueryType
  <2>4. SelectInSeq(q.groupBy, LAMBDA a : ~NotRoot(a)) = 2
    <3>1. {j \in 1 .. Len(<<1, 2>>) : ~NotRoot(<<1, 2>>[j])} = {2}
          BY NotRootIs
    <3>2. Min({2}) = 2
          BY DEF Min
    <3> QED BY <2>1, <3>1, <3>2 DEF SelectInSeq
  <2>5. RootAttr(q) = 2
        BY <2>1, <2>4 DEF RootAttr
  <2>6. OtherAttr(q) = 1
        BY <2>2, <2>5 DEF OtherAttr
  <2> QED BY <2>3, <2>5, <2>6 DEF FirstOrder
<1>4. CASE q = [sum |-> 6, groupBy |-> <<3, 4>>]
  <2>1. q.groupBy = <<3, 4>> /\ q.sum = 6 /\ <<3, 4>> # << >>
        BY <1>4
  <2>2. ToSet(q.groupBy) = {3, 4}
        BY <2>1 DEF ToSet
  <2>3. GroupType(q) = 4 /\ QueryType(q) = 3
        BY <2>1, <2>2, RelatedIs DEF GroupType, QueryType
  <2> QED BY <2>3 DEF FirstOrder
<1> QED BY <1>1, <1>2, <1>3, <1>4 DEF Benchmark

\* The order in every state, and what encode still has of earlier orders.
KnownOrder ==
    \/ ShapeU
    \/ \E p \in {AtA, AtB}, D \in SUBSET (1 .. 6) : Shape(p, D)
KnownInv ==
    /\ DOMAIN encode = Letters /\ encode[U] \in {0, 1} /\ KnownOrder
    /\ phase = "order" =>
          /\ type \in 1 .. 4 /\ todo \in 1 .. 7
          /\ type \in {1, 4} => Shape(AtA, 1 .. todo - 1)
          /\ type = 2 => ShapeU
          /\ type = 3 => Shape(AtB, {1, 2} \cup (1 .. todo - 1))
    /\ phase # "order" \/ type = 2 => Settled
NodesTyped == \A n \in ToSet(db) : n.pos \in 1 .. NumNode - 1 /\ n.path \in Seq(Values)

LEMMA KnownBuild ==
    ASSUME Schema, Queries \subseteq Benchmark, KnownInv,
           NEW q \in Queries, BuildVariableOrder(q)
    PROVE  KnownInv'
<1> DEFINE t == IF QueryType(q) = 3 THEN GroupType(q) ELSE QueryType(q)
<1>1. /\ phase' = "order" /\ type' = t /\ todo' = 1 /\ order' = FirstOrder(q, t)
      /\ encode' = [a \in Letters |->
              IF \E n \in DOMAIN order' \ {0} : order'[n] = a
              THEN CHOOSE n \in DOMAIN order' \ {0} : order'[n] = a ELSE encode[a]]
      /\ phase = "idle"
      BY DEF BuildVariableOrder, Asked
<1>2. \/ t \in {1, 4} /\ FirstOrder(q, t) = [n \in {0} |-> 0]
      \/ t = 2 /\ FirstOrder(q, t) = [n \in {0, 1} |-> IF n = 0 THEN 0 ELSE U]
      \/ t = 3 /\ FirstOrder(q, t) = [n \in {0, 1, 3} |-> IF n = 0 THEN 0 ELSE
                                                 IF n = 1 THEN 2 ELSE 1]
      BY Beginning
<1> HIDE DEF t
<1>3. Letters = (1 .. 6) \cup {U} /\ U = 21
      BY DEF Letters, Attributes, Schema, U
<1>4. 1 .. 1 - 1 = {} /\ 1 \in 1 .. 7 /\ {1, 2} \cup {} = {1, 2}
      OBVIOUS
<1>5. CASE t \in {1, 4} /\ FirstOrder(q, t) = [n \in {0} |-> 0]
  <2>1. DOMAIN order' = {0} /\ order'[0] = 0
        BY <1>1, <1>5
  <2>2. DOMAIN encode' = Letters /\ encode'[U] = encode[U]
        BY <1>1, <1>3, <2>1
  <2>3. Shape(AtA, {})'
        BY <2>1 DEF Shape
  <2>4. KnownOrder'
        BY <2>3 DEF KnownOrder
  <2> QED BY <1>1, <1>4, <1>5, <2>2, <2>3, <2>4 DEF KnownInv
<1>6. CASE t = 2 /\ FirstOrder(q, t) = [n \in {0, 1} |-> IF n = 0 THEN 0 ELSE U]
  <2>1. DOMAIN order' = {0, 1} /\ order'[0] = 0 /\ order'[1] = U
        BY <1>1, <1>6
  <2>2. DOMAIN encode' = Letters /\ encode'[U] = 1
        BY <1>1, <1>3, <2>1
  <2>3. \A a \in 1 .. 6 : encode'[a] = encode[a]
        BY <1>1, <1>3, <2>1
  <2>4. Settled'
    <3>1. PICK p \in {Nowhere, AtA, AtB} : \A a \in 1 .. 6 : encode[a] = p[a]
          BY <1>1 DEF KnownInv, Settled
    <3> QED BY <2>3, <3>1 DEF Settled
  <2>5. ShapeU'
        BY <2>1, <2>2 DEF ShapeU
  <2> QED BY <1>1, <1>4, <1>6, <2>2, <2>4, <2>5 DEF KnownInv, KnownOrder
<1>7. CASE t = 3 /\ FirstOrder(q, t) = [n \in {0, 1, 3} |-> IF n = 0 THEN 0 ELSE
                                                 IF n = 1 THEN 2 ELSE 1]
  <2>1. DOMAIN order' = {0, 1, 3} /\ order'[0] = 0 /\ order'[1] = 2 /\ order'[3] = 1
        BY <1>1, <1>7
  <2>2. DOMAIN encode' = Letters /\ encode'[U] = encode[U]
        BY <1>1, <1>3, <2>1
  <2>3. encode'[1] = 3 /\ encode'[2] = 1
        BY <1>1, <1>3, <2>1
  <2>4. Shape(AtB, {1, 2})'
    <3>1. AtB[1] = 3 /\ AtB[2] = 1
          BY DEF AtB
    <3>2. DOMAIN order' = {0} \cup {AtB[a] : a \in {1, 2}}
          BY <2>1, <3>1
    <3> QED BY <2>1, <2>3, <3>1, <3>2 DEF Shape
  <2>5. KnownOrder'
        BY <2>4 DEF KnownOrder
  <2> QED BY <1>1, <1>4, <1>7, <2>2, <2>4, <2>5 DEF KnownInv
<1> QED BY <1>2, <1>5, <1>6, <1>7

LEMMA KnownInsert == ASSUME Schema, KnownInv, InsertAttribute PROVE KnownInv'
<1>1. phase = "order" /\ phase' = "order" /\ type' = type
      BY DEF InsertAttribute
<1>2. CASE type \in {1, 4}
  <2>1. /\ todo' \in 1 .. 7 /\ Shape(AtA, 1 .. todo - 1)'
        /\ DOMAIN encode' = Letters /\ encode'[U] = encode[U]
        BY <1>1, <1>2, InsertA DEF KnownInv
  <2>2. 1 .. todo' - 1 \in SUBSET (1 .. 6)
    <3>1. \A n \in 1 .. 7 : 1 .. n - 1 \in SUBSET (1 .. 6)
          OBVIOUS
    <3> QED BY <2>1, <3>1
  <2>3. KnownOrder'
        BY <2>1, <2>2 DEF KnownOrder
  <2> QED BY <1>1, <1>2, <2>1, <2>3 DEF KnownInv
<1>3. CASE type = 3
  <2>1. /\ todo' \in 1 .. 7 /\ Shape(AtB, {1, 2} \cup (1 .. todo - 1))'
        /\ DOMAIN encode' = Letters /\ encode'[U] = encode[U]
        BY <1>1, <1>3, InsertB DEF KnownInv
  <2>2. {1, 2} \cup (1 .. todo' - 1) \in SUBSET (1 .. 6)
    <3>1. \A n \in 1 .. 7 : {1, 2} \cup (1 .. n - 1) \in SUBSET (1 .. 6)
          OBVIOUS
    <3> QED BY <2>1, <3>1
  <2>3. KnownOrder'
        BY <2>1, <2>2 DEF KnownOrder
  <2> QED BY <1>1, <1>3, <2>1, <2>3 DEF KnownInv
<1>4. CASE type = 2
  <2>1. todo \in 1 .. 6 /\ todo' = todo + 1
        BY <1>1 DEF KnownInv, InsertAttribute, Schema
  <2>2. Place(todo) = 0
        BY <1>1, <1>4, <2>1, PlaceU DEF KnownInv
  <2>3. UNCHANGED <<order, encode>>
        BY <2>2 DEF InsertAttribute
  <2>4. /\ DOMAIN encode' = Letters /\ encode'[U] \in {0, 1} /\ ShapeU' /\ Settled'
        BY <1>1, <1>4, <2>3 DEF KnownInv, ShapeU, Settled
  <2> QED BY <1>1, <1>4, <2>1, <2>4 DEF KnownInv, KnownOrder
<1> QED BY <1>1, <1>2, <1>3, <1>4 DEF KnownInv

\* The order is whole when the last attribute has had its turn.
LEMMA WholeSettled ==
    ASSUME Schema, KnownInv, phase = "order", todo > NumAttr PROVE Settled
<1>1. todo = 7 /\ type \in 1 .. 4
      BY DEF KnownInv, Schema
<1>2. 1 .. 7 - 1 = 1 .. 6 /\ {1, 2} \cup (1 .. 6) = 1 .. 6
      OBVIOUS
<1>3. CASE type \in {1, 4}
  <2>1. Shape(AtA, 1 .. 6)
        BY <1>1, <1>2, <1>3 DEF KnownInv
  <2> QED BY <2>1 DEF Shape, Settled
<1>4. CASE type = 3
  <2>1. Shape(AtB, 1 .. 6)
        BY <1>1, <1>2, <1>4 DEF KnownInv
  <2> QED BY <2>1 DEF Shape, Settled
<1>5. CASE type = 2
      BY <1>5 DEF KnownInv
<1> QED BY <1>1, <1>3, <1>4, <1>5

LEMMA KnownStep ==
    ASSUME Schema, Queries \subseteq Benchmark, KnownInv, [Next]_vars
    PROVE  KnownInv'
<1>1. CASE UNCHANGED <<order, encode>> /\ phase' # "order" /\ Settled
  <2>1. KnownOrder'
    <3>1. ShapeU => ShapeU'
          BY <1>1 DEF ShapeU
    <3>2. ASSUME NEW p, NEW D, Shape(p, D) PROVE Shape(p, D)'
          BY <1>1, <3>2 DEF Shape
    <3> QED BY <3>1, <3>2 DEF KnownInv, KnownOrder
  <2>2. Settled'
        BY <1>1 DEF Settled
  <2> QED BY <1>1, <2>1, <2>2 DEF KnownInv
<1>2. ASSUME NEW q \in Queries, StandardDB(q) PROVE KnownInv'
      BY <1>1, <1>2 DEF StandardDB, Asked, KnownInv
<1>3. CASE ReadCover \/ NoCover
      BY <1>1, <1>3, WholeSettled DEF ReadCover, NoCover
<1>4. ASSUME NEW i \in left, EnterTuple(i) PROVE KnownInv'
      BY <1>1, <1>4 DEF EnterTuple, KnownInv
<1>5. CASE Answer
      BY <1>1, <1>5 DEF Answer, KnownInv
<1>6. CASE UNCHANGED vars
  <2>1. KnownOrder <=> KnownOrder'
        BY <1>6 DEF KnownOrder, ShapeU, Shape, vars
  <2>2. Settled <=> Settled'
        BY <1>6 DEF Settled, vars
  <2> QED BY <1>6, <2>1, <2>2 DEF KnownInv, ShapeU, Shape, vars
<1> QED BY <1>2, <1>3, <1>4, <1>5, <1>6, KnownBuild, KnownInsert DEF Next

LEMMA NodesTypedStep ==
    ASSUME CoverAssumption, Schema, TuplesInv, NodesInv, KnownInv, NodesTyped, [Next]_vars
    PROVE  NodesTyped'
<1>1. CASE db' = << >>
      BY <1>1 DEF NodesTyped, ToSet
<1>2. CASE UNCHANGED db
      BY <1>2 DEF NodesTyped
<1>3. ASSUME NEW k \in left, EnterTuple(k), db' # db PROVE NodesTyped'
  <2>1. /\ db' = BuildFactorisedDB(CDB[k]) /\ phase = "build"
        /\ \A i \in Used : FindIndex(i) \in Attributes
        BY <1>3 DEF EnterTuple
  <2>2. CDB[k] \in Tuples
        BY LenProperties, ElementOfSeq DEF TuplesInv
  <2>3. \A i \in Used : Above(i) = 0 \/ Above(i) \in Used
        BY <2>1, UsedIs DEF KnownInv
  <2>4. \A i \in Used : Paths(CDB[k])[i] \in Seq(Values)
        BY <2>1, <2>2, <2>3, PathsTyped
  <2>5. ToSet(db') = ToSet(db) \cup {NodeOf(CDB[k], i) : i \in Used}
    <3>1. \A i \in Used : NodeOf(CDB[k], i) \in Nodes(encode)
          BY <2>2, FromEncode DEF Nodes, Used
    <3>2. db \in Seq(Nodes(encode))
          BY DEF NodesInv
    <3> QED BY <2>1, <3>1, <3>2, MadeIs
  <2>6. \A i \in Used : i \in 1 .. NumNode - 1
        BY DEF Used
  <2> QED BY <2>4, <2>5, <2>6 DEF NodesTyped, NodeOf
<1>4. ASSUME NEW k \in left, EnterTuple(k) PROVE NodesTyped'
      BY <1>2, <1>3, <1>4
<1>5. ASSUME NEW q \in Queries, StandardDB(q) \/ BuildVariableOrder(q) PROVE NodesTyped'
      BY <1>1, <1>2, <1>5 DEF StandardDB, BuildVariableOrder
<1> QED BY <1>2, <1>4, <1>5 DEF Next, vars, InsertAttribute, ReadCover, NoCover, Answer

LEMMA TypedIf ==
    ASSUME Schema, TuplesInv, KnownInv, NodesTyped
    PROVE  TypeOK
<1>1. /\ DOMAIN order \subseteq 0 .. NumNode - 1
      /\ \A n \in DOMAIN order \ {0} : encode[order[n]] = n /\ order[n] # 0
      /\ 0 \in DOMAIN order /\ order[0] = 0
  <2>1. CASE ShapeU
        BY <2>1 DEF ShapeU, Schema, U
  <2>2. ASSUME NEW p \in {AtA, AtB}, NEW D \in SUBSET (1 .. 6), Shape(p, D)
        PROVE  /\ DOMAIN order \subseteq 0 .. NumNode - 1
               /\ \A n \in DOMAIN order \ {0} : encode[order[n]] = n /\ order[n] # 0
               /\ 0 \in DOMAIN order /\ order[0] = 0
    <3>1. \A a \in 1 .. 6 : p[a] \in 1 .. 39
          BY DEF AtA, AtB
    <3>2. \A a \in D : p[a] \in 1 .. 39 /\ a # 0
          BY <3>1
    <3> QED BY <2>2, <3>2 DEF Shape, Schema
  <2> QED BY <2>1, <2>2 DEF KnownInv, KnownOrder
<1>2. IsInjective(order)
  <2> SUFFICES ASSUME NEW m \in DOMAIN order, NEW n \in DOMAIN order, order[m] = order[n]
               PROVE  m = n
      BY DEF IsInjective
  <2> QED BY <1>1
<1> QED BY <1>1, <1>2 DEF TypeOK, TuplesInv, NodesTyped

\* Whatever is in the cover and however often it is read, no query of the
\* benchmark puts an attribute in two places or past the end of encode, and
\* nothing but values gets into the database (CoverDB.cpp:403, 637).
THEOREM BenchmarkTyped == Schema /\ Queries \subseteq Benchmark /\ Spec => []TypeOK
<1> DEFINE Fixed == Schema /\ Queries \subseteq Benchmark
           Inv   == KnownInv /\ NodesTyped
<1>1. CoverAssumption
      BY CoverAssumption
<1>2. ASSUME Fixed, Init PROVE Inv
  <2>1. Letters = (1 .. 6) \cup {U}
        BY <1>2 DEF Letters, Attributes, Schema
  <2>2. Settled
    <3>1. \A a \in 1 .. 6 : Nowhere[a] = 0
          BY DEF Nowhere
    <3> QED BY <1>2, <2>1, <3>1 DEF Init, Settled
  <2>3. Shape(AtA, {})
        BY <1>2 DEF Init, Shape
  <2> QED BY <1>2, <2>1, <2>2, <2>3 DEF Init, KnownInv, KnownOrder, NodesTyped, ToSet
<1>3. ASSUME Fixed, EnteringInv, Inv, [Next]_vars PROVE Inv'
      BY <1>1, <1>3, KnownStep, NodesTypedStep DEF EnteringInv
<1>4. ASSUME Fixed, EnteringInv, Inv PROVE TypeOK
      BY <1>4, TypedIf DEF EnteringInv
<1>5. Fixed => Fixed'
      BY DEF Schema
<1> QED BY <1>2, <1>3, <1>4, <1>5, Entering, PTL DEF Spec

-----------------------------------------------------------------------------
(* StandardDB: the rows of R in order, and their groups *)

\* The queries that group do so by two attributes, and sum F (the code adds up
\* row[5], whatever the query says).
SumsOfF ==
    /\ 6 \in Attributes
    /\ \A q \in Queries : QueryType(q) = 3 => q.sum = 6 /\ q.groupBy \in Seq(Attributes)

RowsOf(ts) == ts \in SUBSET [Attributes -> Int] /\ IsFiniteSet(ts)
Key(q, t) == <<t[q.groupBy[1]], t[q.groupBy[2]]>>
Grouped(q) == q.groupBy[1] \in Attributes /\ q.groupBy[2] \in Attributes

LEMMA GroupedIs ==
    ASSUME CoverAssumption, SumsOfF, NEW q \in Queries, QueryType(q) = 3
    PROVE  Grouped(q) /\ q.sum = 6
<1>1. q.groupBy \in Seq(Attributes) /\ q.groupBy # << >> /\ Len(q.groupBy) \in {0, 2}
      BY DEF SumsOfF, QueryType, CoverAssumption
<1>2. Len(q.groupBy) = 2
      BY <1>1, EmptySeq
<1>3. 1 \in 1 .. Len(q.groupBy) /\ 2 \in 1 .. Len(q.groupBy)
      BY <1>2
<1>4. Grouped(q)
      BY <1>1, <1>3, ElementOfSeq DEF Grouped
<1> QED BY <1>4 DEF SumsOfF

\* ColumnLess orders the rows by their keys, and is total on those.
LEMMA LessIs ==
    ASSUME NEW q, Grouped(q)
    PROVE  /\ \A r \in [Attributes -> Int] : ~ColumnLess(q, r, r)
           /\ \A r, s, t \in [Attributes -> Int] :
                 ColumnLess(q, r, s) /\ ColumnLess(q, s, t) => ColumnLess(q, r, t)
           /\ \A r, s, t \in [Attributes -> Int] :
                 /\ ~ColumnLess(q, s, r) /\ ~ColumnLess(q, t, s) /\ Key(q, r) = Key(q, t)
                 => Key(q, s) = Key(q, t)
<1> DEFINE a(r) == r[q.groupBy[1]]
           b(r) == r[q.groupBy[2]]
<1>1. \A r \in [Attributes -> Int] : a(r) \in Int /\ b(r) \in Int
      BY DEF Grouped
<1>2. \A r, s : ColumnLess(q, r, s) <=> a(r) < a(s) \/ (a(r) = a(s) /\ b(r) < b(s))
      BY DEF ColumnLess
<1>3. \A r, s : Key(q, r) = Key(q, s) <=> a(r) = a(s) /\ b(r) = b(s)
      BY DEF Key
<1> HIDE DEF a, b
<1>4. \A r \in [Attributes -> Int] : ~ColumnLess(q, r, r)
      BY <1>1, <1>2
<1>5. \A r, s, t \in [Attributes -> Int] :
         ColumnLess(q, r, s) /\ ColumnLess(q, s, t) => ColumnLess(q, r, t)
      BY <1>1, <1>2
<1>6. \A r, s, t \in [Attributes -> Int] :
         /\ ~ColumnLess(q, s, r) /\ ~ColumnLess(q, t, s) /\ Key(q, r) = Key(q, t)
         => Key(q, s) = Key(q, t)
      BY <1>1, <1>2, <1>3
<1> QED BY <1>4, <1>5, <1>6

Least(q, s, r) == r \in s /\ \A t \in s : ~ColumnLess(q, t, r)

LEMMA LeastExists ==
    ASSUME NEW q, Grouped(q), NEW ts, RowsOf(ts), NEW s \in SUBSET ts, s # {}
    PROVE  \E r : Least(q, s, r)
<1> DEFINE X == {x \in SUBSET ts : x = {} \/ \E r : Least(q, x, r)}
<1>1. IsFiniteSet(ts) /\ ts \in SUBSET [Attributes -> Int]
      BY DEF RowsOf
<1>2. ASSUME NEW x \in SUBSET ts,
             \A y \in SUBSET ts : Cardinality(y) < Cardinality(x) => y \in X
      PROVE  x \in X
  <2>1. CASE x = {}
        BY <2>1
  <2>2. CASE x # {}
    <3>1. PICK e : e \in x
          BY <2>2
    <3>2. x \ {e} \in X
          BY <1>1, <1>2, <3>1, ChosenIs
    <3>3. CASE x \ {e} = {}
      <4>1. Least(q, x, e)
        <5>1. \A t \in x : t = e
              BY <3>3
        <5> QED BY <1>1, <3>1, <5>1, LessIs DEF Least
      <4> QED BY <4>1
    <3>4. CASE x \ {e} # {}
      <4>1. PICK r : Least(q, x \ {e}, r)
            BY <3>2, <3>4
      <4>2. CASE ColumnLess(q, e, r)
        <5>1. ASSUME NEW t \in x, ColumnLess(q, t, e) PROVE FALSE
          <6>1. t \in [Attributes -> Int] /\ e \in [Attributes -> Int]
                /\ r \in [Attributes -> Int]
                BY <1>1, <3>1, <4>1 DEF Least
          <6>2. ColumnLess(q, t, r)
                BY <4>2, <5>1, <6>1, LessIs
          <6>3. t # e
                BY <5>1, <6>1, LessIs
          <6> QED BY <4>1, <6>2, <6>3 DEF Least
        <5>2. Least(q, x, e)
              BY <3>1, <5>1 DEF Least
        <5> QED BY <5>2
      <4>3. CASE ~ColumnLess(q, e, r)
        <5>1. Least(q, x, r)
              BY <4>1, <4>3 DEF Least
        <5> QED BY <5>1
      <4> QED BY <4>2, <4>3
    <3> QED BY <3>3, <3>4
  <2> QED BY <2>1, <2>2
<1>3. SUBSET ts \subseteq X
  <2> HIDE DEF X
  <2> QED BY <1>1, <1>2, SubsetInduction
<1> QED BY <1>3

\* rows has each row of s once, and none before a lesser one.
InOrder(q, s, rows) ==
    /\ rows \in Seq(s) /\ ToSet(rows) = s
    /\ \A i, j \in 1 .. Len(rows) :
          /\ i < j => ~ColumnLess(q, rows[j], rows[i])
          /\ rows[i] = rows[j] => i = j

LEMMA InOrderStep ==
    ASSUME NEW q, Grouped(q), NEW s, NEW r, Least(q, s, r),
           NEW rest, InOrder(q, s \ {r}, rest)
    PROVE  InOrder(q, s, <<r>> \o rest)
<1> DEFINE rows == <<r>> \o rest
<1>1. rest \in Seq(s) /\ Len(rest) \in Nat /\ DOMAIN rest = 1 .. Len(rest)
      /\ \A i \in 1 .. Len(rest) : rest[i] \in s \ {r}
  <2>1. rest \in Seq(s \ {r})
        BY DEF InOrder
  <2>2. Len(rest) \in Nat /\ DOMAIN rest = 1 .. Len(rest)
        /\ \A i \in 1 .. Len(rest) : rest[i] \in s \ {r}
        BY <2>1, LenProperties, ElementOfSeq
  <2>3. rest \in [1 .. Len(rest) -> s]
        BY <2>1, <2>2, LenProperties
  <2> QED BY <2>2, <2>3, IsSequence
<1>2. <<r>> \in Seq(s) /\ Len(<<r>>) = 1 /\ <<r>>[1] = r
      BY DEF Least
<1>3. rows \in Seq(s) /\ Len(rows) = 1 + Len(rest)
      /\ \A i \in 1 .. 1 + Len(rest) : rows[i] = IF i <= 1 THEN r ELSE rest[i - 1]
  <2> DEFINE one == <<r>>
  <2> HIDE DEF one
  <2>1. one \in Seq(s) /\ Len(one) = 1 /\ one[1] = r
        BY <1>2 DEF one
  <2>2. /\ one \o rest \in Seq(s) /\ Len(one \o rest) = Len(one) + Len(rest)
        /\ \A i \in 1 .. Len(one) + Len(rest) :
              (one \o rest)[i] = IF i <= Len(one) THEN one[i] ELSE rest[i - Len(one)]
    <3>1. one \in Seq(s) /\ rest \in Seq(s)
          BY <1>1, <2>1
    <3> QED BY <3>1, ConcatProperties
  <2>3. \A i \in 1 .. 1 + Len(rest) : i <= 1 => i = 1
        BY <1>1
  <2> QED BY <2>1, <2>2, <2>3 DEF one
<1> HIDE DEF rows
<1>4. /\ rows[1] = r /\ 1 \in 1 .. Len(rows)
      /\ \A i \in 1 .. Len(rows) : i # 1 => i - 1 \in 1 .. Len(rest) /\ rows[i] = rest[i - 1]
      /\ \A i \in 1 .. Len(rest) : i + 1 \in 1 .. Len(rows) /\ rows[i + 1] = rest[i]
  <2>1. /\ 1 \in 1 .. Len(rows)
        /\ \A i \in 1 .. Len(rows) : i # 1 => i - 1 \in 1 .. Len(rest) /\ ~(i <= 1)
        /\ \A i \in 1 .. Len(rest) : i + 1 \in 1 .. Len(rows) /\ ~(i + 1 <= 1) /\ (i + 1) - 1 = i
        BY <1>1, <1>3
  <2> QED BY <1>3, <2>1
<1>5. ToSet(rows) = s
  <2>1. DOMAIN rows = 1 .. Len(rows) /\ \A i \in 1 .. Len(rows) : rows[i] \in s
        BY <1>3, LenProperties, ElementOfSeq
  <2>2. ASSUME NEW t \in s PROVE \E i \in 1 .. Len(rows) : rows[i] = t
    <3>1. CASE t = r
          BY <1>4, <3>1
    <3>2. CASE t # r
      <4>1. t \in ToSet(rest)
            BY <3>2 DEF InOrder
      <4>2. PICK i \in 1 .. Len(rest) : rest[i] = t
            BY <1>1, <4>1 DEF ToSet
      <4> QED BY <1>4, <4>2
    <3> QED BY <3>1, <3>2
  <2> QED BY <2>1, <2>2 DEF ToSet
<1>6. ASSUME NEW i \in 1 .. Len(rows), NEW j \in 1 .. Len(rows), i < j
      PROVE  ~ColumnLess(q, rows[j], rows[i]) /\ rows[i] # rows[j]
  <2>1. j # 1 /\ i \in Int /\ j \in Int
        BY <1>6, <1>3, <1>1
  <2>2. j - 1 \in 1 .. Len(rest) /\ rows[j] = rest[j - 1] /\ rest[j - 1] \in s \ {r}
        BY <1>1, <1>4, <2>1
  <2>3. CASE i = 1
        BY <1>4, <2>2, <2>3 DEF Least
  <2>4. CASE i # 1
    <3>1. i - 1 \in 1 .. Len(rest) /\ rows[i] = rest[i - 1]
          BY <1>4, <2>4
    <3>2. i - 1 < j - 1 /\ i - 1 # j - 1
          BY <1>6, <2>1
    <3> QED BY <2>2, <3>1, <3>2 DEF InOrder
  <2> QED BY <2>3, <2>4
<1>7. \A i, j \in 1 .. Len(rows) : i < j \/ j < i \/ i = j
      BY <1>1, <1>3
<1>8. InOrder(q, s, rows)
      BY <1>3, <1>5, <1>6, <1>7 DEF InOrder
<1> QED BY <1>8 DEF rows

LEMMA SortedIs ==
    ASSUME NEW q, Grouped(q), NEW ts, RowsOf(ts)
    PROVE  InOrder(q, ts, Sorted(q, ts))
<1> DEFINE least(s) == CHOOSE r \in s : \A t \in s : ~ColumnLess(q, t, r)
           S == SUBSET ts
           V == Seq(ts)
           F == [s \in S |-> [g \in [S -> V] |->
                   IF s = {} THEN << >> ELSE <<least(s)>> \o g[s \ {least(s)}]]]
           m == [s \in S |-> Cardinality(s)]
           N == Cardinality(ts)
           Is(f) == f = [s \in S |-> IF s = {} THEN << >> ELSE <<least(s)>> \o f[s \ {least(s)}]]
           f == CHOOSE g : Is(g)
<1>1. IsFiniteSet(ts)
      BY DEF RowsOf
<1>2. ASSUME NEW s \in S, s # {}
      PROVE  /\ Least(q, s, least(s)) /\ least(s) \in s /\ s \ {least(s)} \in S
             /\ Cardinality(s \ {least(s)}) < Cardinality(s)
  <2>1. \E r \in s : \A t \in s : ~ColumnLess(q, t, r)
        BY <1>2, LeastExists DEF Least
  <2>2. Least(q, s, least(s))
        BY <2>1 DEF Least
  <2> HIDE DEF least
  <2>3. least(s) \in s
        BY <2>2 DEF Least
  <2> QED BY <1>1, <2>2, <2>3, ChosenIs
<1>3. m \in [S -> 0 .. N] /\ N \in Nat
  <2>1. \A s \in S : Cardinality(s) \in Nat /\ Cardinality(s) <= Cardinality(ts)
        BY <1>1, FS_Subset, FS_CardinalityType
  <2>2. Cardinality(ts) \in Nat
        BY <1>1, FS_CardinalityType
  <2>3. \A s \in S : Cardinality(s) \in 0 .. N
        BY <2>1, <2>2
  <2> HIDE DEF N
  <2> QED BY <2>2, <2>3 DEF N
<1> HIDE DEF least
<1>4. F \in [S -> [[S -> V] -> V]]
  <2>1. << >> \in V
        BY EmptySeq
  <2>2. ASSUME NEW s \in S, s # {}, NEW g \in [S -> V] PROVE <<least(s)>> \o g[s \ {least(s)}] \in V
    <3> DEFINE one == <<least(s)>>
               rest == g[s \ {least(s)}]
    <3>1. one \in Seq(ts)
      <4>1. least(s) \in ts
            BY <1>2, <2>2
      <4> QED BY <4>1
    <3>2. rest \in Seq(ts)
      <4>1. s \ {least(s)} \in S
            BY <1>2, <2>2
      <4> HIDE DEF S
      <4> QED BY <2>2, <4>1
    <3> HIDE DEF one, rest
    <3>3. one \o rest \in Seq(ts)
          BY <3>1, <3>2, ConcatProperties
    <3> QED BY <3>3 DEF one, rest
  <2> HIDE DEF V
  <2> QED BY <2>1, <2>2
<1>5. Causal(S, V, m, F)
  <2> HIDE DEF V
  <2> QED BY <1>2 DEF Causal
<1>6. PICK g \in [S -> V] : SolvesAll(S, F, g)
  <2>1. V # {}
        BY EmptySeq
  <2> HIDE DEF F, m, S, V, N
  <2> QED BY <1>3, <1>4, <1>5, <2>1, RecursionExists
<1>7. Is(f)
  <2>1. \A s \in S : g[s] = IF s = {} THEN << >> ELSE <<least(s)>> \o g[s \ {least(s)}]
        BY <1>6 DEF SolvesAll
  <2>2. Is(g)
    <3> HIDE DEF F, V
    <3> QED BY <1>6, <2>1
  <2> QED BY <2>2
<1>8. Sorted(q, ts) = f[ts]
      BY DEF Sorted, least
<1> HIDE DEF f, F
<1>9. \A s \in S : f[s] = IF s = {} THEN << >> ELSE <<least(s)>> \o f[s \ {least(s)}]
      BY <1>7
<1> DEFINE X == {s \in S : InOrder(q, s, f[s])}
<1>10. Inherited(S, m, X)
  <2> SUFFICES ASSUME NEW s \in S, \A r \in S : m[r] < m[s] => r \in X PROVE s \in X
      BY DEF Inherited
  <2>1. CASE s = {}
    <3>1. f[s] = << >>
          BY <1>9, <2>1
    <3>2. << >> \in Seq(s) /\ ToSet(<< >>) = {} /\ 1 .. Len(<< >>) = {}
          BY EmptySeq DEF ToSet
    <3> QED BY <2>1, <3>1, <3>2 DEF InOrder
  <2>2. CASE s # {}
    <3>1. s \ {least(s)} \in X
          BY <1>2, <2>2
    <3>2. f[s] = <<least(s)>> \o f[s \ {least(s)}]
          BY <1>9, <2>2
    <3>3. InOrder(q, s, <<least(s)>> \o f[s \ {least(s)}])
          BY <1>2, <2>2, <3>1, InOrderStep
    <3> QED BY <3>2, <3>3
  <2> QED BY <2>1, <2>2
<1>11. S \subseteq X
  <2> HIDE DEF S, m, X, N
  <2> QED BY <1>3, <1>10, MeasureInduction
<1> QED BY <1>8, <1>11

\* What StandardDB keeps while it goes through the rows.
Maps == UNION {[D -> Int] : D \in SUBSET (Int \X Int)}
GroupStates == [a : Int, b : Int, sum : Int, sums : Maps]

LEMMA PutIs ==
    ASSUME NEW f \in Maps, NEW x \in Int \X Int, NEW v \in Int
    PROVE  /\ Put(f, x, v) \in Maps /\ DOMAIN Put(f, x, v) = DOMAIN f \cup {x}
           /\ Put(f, x, v)[x] = v
           /\ \A y \in DOMAIN f : y # x => Put(f, x, v)[y] = f[y]
<1>1. PICK D \in SUBSET (Int \X Int) : f \in [D -> Int]
      BY DEF Maps
<1>2. Put(f, x, v) \in [D \cup {x} -> Int]
      BY <1>1 DEF Put
<1>3. D \cup {x} \in SUBSET (Int \X Int)
      BY <1>1
<1>4. Put(f, x, v) \in Maps
      BY <1>2, <1>3 DEF Maps
<1> QED BY <1>1, <1>4 DEF Put

\* The sum of F over the rows of s that have the key.
ColumnF(ts) == [t \in ts |-> t[6]]
SumOf(q, ts, s, key) == Total(ColumnF(ts), {t \in s : Key(q, t) = key})

\* The groups after the rows of s, of which row was the last.
GroupsOf(q, ts, s, row, g) ==
    /\ g \in GroupStates /\ row \in s
    /\ <<g.a, g.b>> = Key(q, row) /\ g.sum = SumOf(q, ts, s, Key(q, row))
    /\ \A t \in s : Key(q, t) # Key(q, row) =>
          /\ Key(q, t) \in DOMAIN g.sums
          /\ g.sums[Key(q, t)] = SumOf(q, ts, s, Key(q, t))

LEMMA NextRowIs ==
    ASSUME NEW q, Grouped(q), 6 \in Attributes, NEW g \in GroupStates,
           NEW row \in [Attributes -> Int]
    PROVE  LET h == NextRow(q, g, row)
           IN  /\ h \in GroupStates /\ <<h.a, h.b>> = Key(q, row)
               /\ <<g.a, g.b>> \in Int \X Int /\ Key(q, row) \in Int \X Int
               /\ Key(q, row) = <<g.a, g.b>> =>
                     h.sum = g.sum + row[6] /\ h.sums = g.sums
               /\ Key(q, row) # <<g.a, g.b>> =>
                     h.sum = row[6] /\ h.sums = Put(g.sums, <<g.a, g.b>>, g.sum)
<1> DEFINE a == row[q.groupBy[1]]
           b == row[q.groupBy[2]]
           h == NextRow(q, g, row)
<1>1. /\ a \in Int /\ b \in Int /\ row[6] \in Int /\ Key(q, row) = <<a, b>>
      /\ g.a \in Int /\ g.b \in Int /\ g.sum \in Int /\ g.sums \in Maps
      BY DEF Grouped, Key, GroupStates
<1>2. Key(q, row) = <<g.a, g.b>> <=> a = g.a /\ b = g.b
      BY <1>1
<1>3. CASE a = g.a /\ b = g.b
  <2>1. h = [g EXCEPT !.sum = g.sum + row[6]]
        BY <1>3 DEF NextRow
  <2>2. h \in GroupStates /\ h.a = g.a /\ h.b = g.b /\ h.sums = g.sums
        /\ h.sum = g.sum + row[6]
        BY <1>1, <2>1 DEF GroupStates
  <2> HIDE DEF h
  <2> QED BY <1>1, <1>2, <1>3, <2>2 DEF h
<1>4. CASE ~(a = g.a /\ b = g.b)
  <2> DEFINE m == Put(g.sums, <<g.a, g.b>>, g.sum)
  <2>1. h = [a |-> a, b |-> b, sum |-> row[6], sums |-> m]
        BY <1>4 DEF NextRow, SumOfNewGroup
  <2>2. m \in Maps
        BY <1>1, PutIs
  <2> HIDE DEF m
  <2>3. h \in GroupStates /\ h.a = a /\ h.b = b /\ h.sums = m /\ h.sum = row[6]
        BY <1>1, <2>1, <2>2 DEF GroupStates
  <2> HIDE DEF h, a, b
  <2> QED BY <1>1, <1>2, <1>4, <2>3 DEF h, m
<1> QED BY <1>3, <1>4

LEMMA SumOfIs ==
    ASSUME NEW q, NEW ts, RowsOf(ts), 6 \in Attributes, NEW s \in SUBSET ts,
           NEW row \in ts \ s
    PROVE  \A key : /\ SumOf(q, ts, s, key) \in Int
                    /\ (\A t \in s : Key(q, t) # key) => SumOf(q, ts, s, key) = 0
                    /\ SumOf(q, ts, s \cup {row}, key) =
                          IF Key(q, row) = key THEN SumOf(q, ts, s, key) + row[6]
                          ELSE SumOf(q, ts, s, key)
<1> SUFFICES ASSUME NEW key
             PROVE  /\ SumOf(q, ts, s, key) \in Int
                    /\ (\A t \in s : Key(q, t) # key) => SumOf(q, ts, s, key) = 0
                    /\ SumOf(q, ts, s \cup {row}, key) =
                          IF Key(q, row) = key THEN SumOf(q, ts, s, key) + row[6]
                          ELSE SumOf(q, ts, s, key)
    OBVIOUS
<1> DEFINE A == {t \in s : Key(q, t) = key}
           B == {t \in s \cup {row} : Key(q, t) = key}
           w == ColumnF(ts)
<1>1. /\ IsFiniteSet(A) /\ row \notin A
      /\ \A t \in A \cup {row} : w[t] \in Int
      /\ w[row] = row[6]
  <2>1. ts \in SUBSET [Attributes -> Int] /\ IsFiniteSet(ts)
        BY DEF RowsOf
  <2>2. A \subseteq ts
        OBVIOUS
  <2>3. IsFiniteSet(A)
        BY <2>1, <2>2, FS_Subset
  <2> QED BY <2>1, <2>3 DEF ColumnF
<1>2. B = IF Key(q, row) = key THEN A \cup {row} ELSE A
      OBVIOUS
<1>3. (\A t \in s : Key(q, t) # key) => A = {}
      OBVIOUS
<1>4. SumOf(q, ts, s, key) = Total(w, A) /\ SumOf(q, ts, s \cup {row}, key) = Total(w, B)
      BY DEF SumOf
<1> HIDE DEF A, B, w
<1>5. Total(w, A) \in Int /\ Total(w, A \cup {row}) = Total(w, A) + w[row]
      BY <1>1, TotalType, TotalAdd
<1>6. A = {} => Total(w, A) = 0
      BY TotalEmpty
<1> QED BY <1>1, <1>2, <1>3, <1>4, <1>5, <1>6

LEMMA GroupFirst ==
    ASSUME NEW q, Grouped(q), 6 \in Attributes, NEW ts, RowsOf(ts), NEW row \in ts,
           NEW g \in GroupStates, g.sum = 0
    PROVE  GroupsOf(q, ts, {row}, row, NextRow(q, g, row))
<1> DEFINE h == NextRow(q, g, row)
<1>1. row \in [Attributes -> Int] /\ row[6] \in Int
      BY DEF RowsOf
<1>2. h \in GroupStates /\ <<h.a, h.b>> = Key(q, row) /\ h.sum = row[6]
  <2>1. 0 + row[6] = row[6]
        BY <1>1
  <2> QED BY <1>1, <2>1, NextRowIs
<1>3. SumOf(q, ts, {row}, Key(q, row)) = row[6]
  <2> DEFINE w == ColumnF(ts)
  <2>1. w[row] = row[6]
        BY DEF ColumnF
  <2>2. {t \in {row} : Key(q, t) = Key(q, row)} = {row}
        OBVIOUS
  <2>3. SumOf(q, ts, {row}, Key(q, row)) = Total(w, {row})
        BY <2>2 DEF SumOf
  <2> HIDE DEF w
  <2> QED BY <1>1, <2>1, <2>3, TotalOne
<1> HIDE DEF h
<1>4. GroupsOf(q, ts, {row}, row, h)
      BY <1>2, <1>3 DEF GroupsOf
<1> QED BY <1>4 DEF h

LEMMA GroupNext ==
    ASSUME NEW q, Grouped(q), 6 \in Attributes, NEW ts, RowsOf(ts),
           NEW s \in SUBSET ts, NEW row, NEW g, GroupsOf(q, ts, s, row, g),
           NEW new \in ts \ s,
           Key(q, new) # Key(q, row) => \A t \in s : Key(q, t) # Key(q, new)
    PROVE  GroupsOf(q, ts, s \cup {new}, new, NextRow(q, g, new))
<1> DEFINE h == NextRow(q, g, new)
           z == s \cup {new}
<1>1. new \in [Attributes -> Int] /\ new[6] \in Int
      BY DEF RowsOf
<1>2. /\ g \in GroupStates /\ row \in s
      /\ <<g.a, g.b>> = Key(q, row) /\ g.sum = SumOf(q, ts, s, Key(q, row))
      /\ \A t \in s : Key(q, t) # Key(q, row) =>
            Key(q, t) \in DOMAIN g.sums /\ g.sums[Key(q, t)] = SumOf(q, ts, s, Key(q, t))
      BY DEF GroupsOf
<1>3. /\ h \in GroupStates /\ <<h.a, h.b>> = Key(q, new)
      /\ Key(q, row) \in Int \X Int /\ g.sum \in Int /\ g.sums \in Maps
      /\ Key(q, new) = Key(q, row) => h.sum = g.sum + new[6] /\ h.sums = g.sums
      /\ Key(q, new) # Key(q, row) =>
            h.sum = new[6] /\ h.sums = Put(g.sums, Key(q, row), g.sum)
  <2>1. g.sum \in Int /\ g.sums \in Maps
        BY <1>2 DEF GroupStates
  <2> QED BY <1>1, <1>2, <2>1, NextRowIs
<1>4. \A key : /\ SumOf(q, ts, s, key) \in Int
               /\ (\A t \in s : Key(q, t) # key) => SumOf(q, ts, s, key) = 0
               /\ SumOf(q, ts, z, key) =
                     IF Key(q, new) = key THEN SumOf(q, ts, s, key) + new[6]
                     ELSE SumOf(q, ts, s, key)
      BY SumOfIs
<1> HIDE DEF h
<1>5. CASE Key(q, new) = Key(q, row)
  <2>1. h.sum = SumOf(q, ts, z, Key(q, new))
        BY <1>2, <1>3, <1>4, <1>5
  <2>2. ASSUME NEW t \in z, Key(q, t) # Key(q, new)
        PROVE  Key(q, t) \in DOMAIN h.sums /\ h.sums[Key(q, t)] = SumOf(q, ts, z, Key(q, t))
    <3>1. t \in s /\ SumOf(q, ts, z, Key(q, t)) = SumOf(q, ts, s, Key(q, t))
          BY <1>4, <2>2
    <3> QED BY <1>2, <1>3, <1>5, <2>2, <3>1
  <2> QED BY <1>3, <2>1, <2>2 DEF GroupsOf, h
<1>6. CASE Key(q, new) # Key(q, row)
  <2>1. h.sum = SumOf(q, ts, z, Key(q, new))
    <3>1. SumOf(q, ts, s, Key(q, new)) = 0
          BY <1>4, <1>6
    <3>2. 0 + new[6] = new[6]
          BY <1>1
    <3> QED BY <1>3, <1>4, <1>6, <3>1, <3>2
  <2>2. ASSUME NEW t \in z, Key(q, t) # Key(q, new)
        PROVE  Key(q, t) \in DOMAIN h.sums /\ h.sums[Key(q, t)] = SumOf(q, ts, z, Key(q, t))
    <3>1. t \in s /\ SumOf(q, ts, z, Key(q, t)) = SumOf(q, ts, s, Key(q, t))
          BY <1>4, <2>2
    <3> DEFINE k == Key(q, row)
               m == Put(g.sums, k, g.sum)
    <3>2. /\ DOMAIN m = DOMAIN g.sums \cup {k} /\ m[k] = g.sum
          /\ \A y \in DOMAIN g.sums : y # k => m[y] = g.sums[y]
          BY <1>3, PutIs
    <3>3. h.sums = m
          BY <1>3, <1>6
    <3> HIDE DEF m
    <3> QED BY <1>2, <3>1, <3>2, <3>3
  <2> QED BY <1>3, <2>1, <2>2 DEF GroupsOf, h
<1> QED BY <1>5, <1>6

\* Each group of the rows has its sum in st.
Summed(q, ts, st) ==
    \A key \in DOMAIN GroupSums(q, ts) :
        key \in DOMAIN st /\ st[key] = GroupSums(q, ts)[key]

LEMMA ColumnSum ==
    ASSUME NEW ts, NEW c
    PROVE  MapThenSumSet(LAMBDA t : t[c], ts) = Total([t \in ts |-> t[c]], ts)
<1> DEFINE w == [t \in ts |-> t[c]]
           Iter(g) == g = [s \in SUBSET ts |->
                             IF s = {} THEN 0 ELSE Chosen(s)[c] + g[s \ {Chosen(s)}]]
<1>1. \A s \in SUBSET ts : s # {} => w[Chosen(s)] = Chosen(s)[c]
  <2>1. \A s \in SUBSET ts : s # {} => Chosen(s) \in s
        BY DEF Chosen
  <2> QED BY <2>1
<1> HIDE DEF w
<1>2. \A h : Sums(w, ts, h) <=> Iter(h)
      BY <1>1 DEF Sums
<1>3. MapThenSumSet(LAMBDA t : t[c], ts) = (CHOOSE h : Iter(h))[ts]
      BY DEF MapThenSumSet, MapThenFoldSet, Chosen
<1> HIDE DEF Iter
<1>4. (CHOOSE h : Iter(h)) = (CHOOSE h : Sums(w, ts, h))
      BY <1>2
<1> QED BY <1>3, <1>4 DEF Total, w

LEMMA GroupSumsAre ==
    ASSUME NEW q, q.sum = 6, NEW ts
    PROVE  /\ DOMAIN GroupSums(q, ts) = {Key(q, t) : t \in ts}
           /\ \A t \in ts : GroupSums(q, ts)[Key(q, t)] = SumOf(q, ts, ts, Key(q, t))
<1>1. ASSUME NEW key
      PROVE  MapThenSumSet(LAMBDA t : t[6], {t \in ts : Key(q, t) = key}) = SumOf(q, ts, ts, key)
  <2> DEFINE A == {t \in ts : Key(q, t) = key}
             w == [t \in A |-> t[6]]
  <2>1. \A t \in A : w[t] = ColumnF(ts)[t]
        BY DEF ColumnF
  <2>2. MapThenSumSet(LAMBDA t : t[6], A) = Total(w, A)
    <3> HIDE DEF A
    <3> QED BY ColumnSum
  <2> HIDE DEF A, w
  <2>3. Total(w, A) = Total(ColumnF(ts), A)
        BY <2>1, TotalSame
  <2> QED BY <2>2, <2>3 DEF A, SumOf
<1>2. GroupSums(q, ts) = [g \in {Key(q, t) : t \in ts} |->
                             MapThenSumSet(LAMBDA t : t[6], {t \in ts : Key(q, t) = g})]
      BY DEF GroupSums, Key
<1> QED BY <1>1, <1>2

LEMMA GroupLast ==
    ASSUME NEW q, q.sum = 6, NEW ts, RowsOf(ts), 6 \in Attributes, Grouped(q),
           NEW row, NEW g, GroupsOf(q, ts, ts, row, g)
    PROVE  Summed(q, ts, Put(g.sums, <<g.a, g.b>>, g.sum))
<1> DEFINE k == Key(q, row)
           m == Put(g.sums, k, g.sum)
<1>1. /\ g \in GroupStates /\ row \in ts
      /\ <<g.a, g.b>> = k /\ g.sum = SumOf(q, ts, ts, k)
      /\ \A t \in ts : Key(q, t) # k =>
            Key(q, t) \in DOMAIN g.sums /\ g.sums[Key(q, t)] = SumOf(q, ts, ts, Key(q, t))
      BY DEF GroupsOf
<1>2. g.sum \in Int /\ g.sums \in Maps /\ k \in Int \X Int
  <2>1. g.a \in Int /\ g.b \in Int /\ g.sum \in Int /\ g.sums \in Maps
        BY <1>1 DEF GroupStates
  <2>2. <<g.a, g.b>> \in Int \X Int
        BY <2>1
  <2> QED BY <1>1, <2>1, <2>2
<1>3. /\ DOMAIN m = DOMAIN g.sums \cup {k} /\ m[k] = g.sum
      /\ \A y \in DOMAIN g.sums : y # k => m[y] = g.sums[y]
  <2> DEFINE f == g.sums
             v == g.sum
  <2>1. f \in Maps /\ v \in Int /\ k \in Int \X Int
        BY <1>2
  <2> HIDE DEF f, v, k
  <2>2. /\ DOMAIN Put(f, k, v) = DOMAIN f \cup {k} /\ Put(f, k, v)[k] = v
        /\ \A y \in DOMAIN f : y # k => Put(f, k, v)[y] = f[y]
        BY ONLY <2>1, PutIs
  <2> QED BY <2>2 DEF f, v
<1> HIDE DEF m
<1>4. ASSUME NEW t \in ts
      PROVE  Key(q, t) \in DOMAIN m /\ m[Key(q, t)] = GroupSums(q, ts)[Key(q, t)]
  <2>1. GroupSums(q, ts)[Key(q, t)] = SumOf(q, ts, ts, Key(q, t))
        BY GroupSumsAre
  <2>2. CASE Key(q, t) = k
        BY <1>1, <1>3, <2>1, <2>2
  <2>3. CASE Key(q, t) # k
        BY <1>1, <1>3, <2>1, <2>3
  <2> QED BY <2>2, <2>3
<1>5. \A key \in DOMAIN GroupSums(q, ts) : \E t \in ts : key = Key(q, t)
  <2>1. DOMAIN GroupSums(q, ts) = {Key(q, t) : t \in ts}
        BY GroupSumsAre
  <2> QED BY <2>1
<1>6. Summed(q, ts, m)
      BY <1>4, <1>5 DEF Summed
<1> QED BY <1>1, <1>6 DEF m

LEMMA StandardGroupsAre ==
    ASSUME NEW q, q.sum = 6, 6 \in Attributes, Grouped(q), RowsOf(R), Cardinality(R) >= 2
    PROVE  Summed(q, R, StandardGroups(q))
<1> DEFINE rows == Sorted(q, R)
           g0 == [a |-> rows[1][q.groupBy[1]], b |-> rows[2][q.groupBy[2]],
                  sum |-> 0, sums |-> << >>]
           n == Len(rows)
           S == 0 .. n
           V == GroupStates
           m == [k \in S |-> k]
           Is(f) == f = [k \in S |-> IF k = 0 THEN g0 ELSE NextRow(q, f[k - 1], rows[k])]
           f == CHOOSE h : Is(h)
<1>1. InOrder(q, R, rows)
      BY SortedIs
<1>2. StandardGroups(q) = Put(f[n].sums, <<f[n].a, f[n].b>>, f[n].sum)
      BY DEF StandardGroups
<1> HIDE DEF rows
<1>3. /\ n \in Nat /\ DOMAIN rows = 1 .. n /\ \A k \in 1 .. n : rows[k] \in R
      /\ R = {rows[k] : k \in 1 .. n}
  <2>1. rows \in Seq(R) /\ ToSet(rows) = R
        BY <1>1 DEF InOrder
  <2>2. n \in Nat /\ DOMAIN rows = 1 .. n /\ \A k \in 1 .. n : rows[k] \in R
        BY <2>1, LenProperties, ElementOfSeq
  <2> QED BY <2>1, <2>2 DEF ToSet
<1>4. n >= 2
  <2>1. rows \in Surjection(1 .. n, R)
    <3>1. rows \in [1 .. n -> R]
      <4>1. rows \in Seq(R)
            BY <1>1 DEF InOrder
      <4> QED BY <1>3, <4>1, LenProperties
    <3> QED BY <1>3, <3>1 DEF Surjection
  <2>2. IsFiniteSet(1 .. n) /\ Cardinality(1 .. n) = n
    <3> HIDE DEF n
    <3>1. 1 \in Int /\ n \in Int
          BY <1>3
    <3>2. Cardinality(1 .. n) = IF 1 > n THEN 0 ELSE n - 1 + 1
          BY <3>1, FS_Interval
    <3> QED BY <1>3, <3>1, <3>2, FS_Interval
  <2>3. Cardinality(R) <= Cardinality(1 .. n)
        BY <2>1, <2>2, FS_Surjection
  <2>4. Cardinality(R) \in Nat
        BY FS_CardinalityType DEF RowsOf
  <2> QED BY <1>3, <2>2, <2>3, <2>4
<1>5. \A t \in R : t \in [Attributes -> Int]
      BY DEF RowsOf
<1>6. g0 \in V /\ g0.sum = 0
  <2>1. rows[1] \in [Attributes -> Int] /\ rows[2] \in [Attributes -> Int]
    <3>1. 1 \in 1 .. n /\ 2 \in 1 .. n
          BY <1>3, <1>4
    <3>2. rows[1] \in R /\ rows[2] \in R
          BY <1>3, <3>1
    <3> QED BY <1>5, <3>2
  <2>2. rows[1][q.groupBy[1]] \in Int /\ rows[2][q.groupBy[2]] \in Int
        BY <2>1 DEF Grouped
  <2>3. << >> \in Maps
    <3>1. << >> \in [{} -> Int]
          OBVIOUS
    <3> QED BY <3>1 DEF Maps
  <2> QED BY <2>2, <2>3 DEF GroupStates
<1> HIDE DEF g0
<1>7. ASSUME NEW g \in V, NEW k \in 1 .. n PROVE NextRow(q, g, rows[k]) \in V
  <2>1. rows[k] \in [Attributes -> Int]
        BY <1>3, <1>5
  <2> QED BY <2>1, NextRowIs
<1>8. PICK g \in [S -> V] :
         \A k \in S : g[k] = IF k = 0 THEN g0 ELSE NextRow(q, g[k - 1], rows[k])
  <2> DEFINE F == [k \in S |-> [h \in [S -> V] |->
                      IF k = 0 THEN g0 ELSE NextRow(q, h[k - 1], rows[k])]]
  <2> HIDE DEF n
  <2>1. \A k \in S : k # 0 => k - 1 \in S /\ k \in 1 .. n /\ k - 1 < k
        BY <1>3
  <2>2. F \in [S -> [[S -> V] -> V]]
    <3> HIDE DEF S, V
    <3> QED BY <1>6, <1>7, <2>1
  <2>3. m \in [S -> 0 .. n]
        OBVIOUS
  <2>4. \A k \in S : m[k] = k
        OBVIOUS
  <2> HIDE DEF S, V, m
  <2>5. Causal(S, V, m, F)
        BY <2>1, <2>4 DEF Causal
  <2>6. \A h \in [S -> V], k \in S :
           F[k][h] = IF k = 0 THEN g0 ELSE NextRow(q, h[k - 1], rows[k])
        OBVIOUS
  <2> HIDE DEF F
  <2>7. \E h \in [S -> V] : SolvesAll(S, F, h)
        BY <1>3, <1>6, <2>2, <2>3, <2>5, RecursionExists
  <2> QED BY <2>6, <2>7 DEF SolvesAll
<1>9. Is(f)
  <2>1. Is(g)
    <3> HIDE DEF S, V
    <3> QED BY <1>8
  <2> QED BY <2>1
<1> HIDE DEF f
<1>10. \A k \in S : f[k] = IF k = 0 THEN g0 ELSE NextRow(q, f[k - 1], rows[k])
       BY <1>9
<1> HIDE DEF Is
<1> DEFINE Upto(k) == {rows[j] : j \in 1 .. k}
           X == {k \in S : k = 0 \/ GroupsOf(q, R, Upto(k), rows[k], f[k])}
<1>11. ASSUME NEW k \in 1 .. n, k # 1 \* a further row
       PROVE  /\ Upto(k) = Upto(k - 1) \cup {rows[k]} /\ rows[k] \in R \ Upto(k - 1)
              /\ Upto(k - 1) \in SUBSET R
              /\ Key(q, rows[k]) # Key(q, rows[k - 1]) =>
                    \A t \in Upto(k - 1) : Key(q, t) # Key(q, rows[k])
  <2> HIDE DEF n
  <2>1. /\ k - 1 \in 1 .. n /\ k - 1 < k /\ 1 .. k = (1 .. k - 1) \cup {k}
        /\ \A j \in 1 .. k - 1 : j \in 1 .. n /\ j < k /\ j # k /\ (j < k - 1 \/ j = k - 1)
    <3>1. \A N \in Nat : \A l \in 1 .. N : l # 1 =>
             /\ l - 1 \in 1 .. N /\ l - 1 < l /\ 1 .. l = (1 .. l - 1) \cup {l}
             /\ \A j \in 1 .. l - 1 : j \in 1 .. N /\ j < l /\ j # l /\ (j < l - 1 \/ j = l - 1)
          OBVIOUS
    <3> QED BY <1>3, <1>11, <3>1
  <2>2. \A i, j \in 1 .. n : /\ i < j => ~ColumnLess(q, rows[j], rows[i])
                             /\ rows[i] = rows[j] => i = j
        BY <1>1 DEF InOrder, n
  <2>3. Upto(k) = Upto(k - 1) \cup {rows[k]} /\ Upto(k - 1) \in SUBSET R
        BY <1>3, <2>1
  <2>4. rows[k] \in R \ Upto(k - 1)
        BY <1>3, <2>1, <2>2
  <2>5. ASSUME NEW j \in 1 .. k - 1, Key(q, rows[j]) = Key(q, rows[k])
        PROVE  Key(q, rows[k]) = Key(q, rows[k - 1])
    <3>1. CASE j = k - 1
          BY <2>5, <3>1
    <3>2. CASE j < k - 1
      <4>1. ~ColumnLess(q, rows[k - 1], rows[j]) /\ ~ColumnLess(q, rows[k], rows[k - 1])
            BY <2>1, <2>2, <3>2
      <4>2. /\ rows[j] \in [Attributes -> Int] /\ rows[k] \in [Attributes -> Int]
            /\ rows[k - 1] \in [Attributes -> Int]
            BY <1>3, <1>5, <2>1
      <4> DEFINE x == rows[j]
                 y == rows[k - 1]
                 z == rows[k]
      <4> HIDE DEF x, y, z
      <4>3. /\ x \in [Attributes -> Int] /\ y \in [Attributes -> Int] /\ z \in [Attributes -> Int]
            /\ ~ColumnLess(q, y, x) /\ ~ColumnLess(q, z, y) /\ Key(q, x) = Key(q, z)
            BY <2>5, <4>1, <4>2 DEF x, y, z
      <4>4. \A r, t, u \in [Attributes -> Int] :
               ~ColumnLess(q, t, r) /\ ~ColumnLess(q, u, t) /\ Key(q, r) = Key(q, u)
               => Key(q, t) = Key(q, u)
            BY LessIs
      <4>5. Key(q, y) = Key(q, z)
            BY <4>3, <4>4
      <4> QED BY <4>5 DEF y, z
    <3> QED BY <2>1, <3>1, <3>2
  <2> QED BY <2>3, <2>4, <2>5
<1>12. Inherited(S, m, X)
  <2> SUFFICES ASSUME NEW k \in S, \A j \in S : m[j] < m[k] => j \in X PROVE k \in X
      BY DEF Inherited
  <2>1. CASE k = 0
        BY <2>1
  <2>2. CASE k = 1
    <3>1. Upto(1) = {rows[1]} /\ 0 \in S /\ 1 \in 1 .. n
          BY <1>3, <1>4
    <3>2. f[0] = g0 /\ f[1] = NextRow(q, f[0], rows[1])
          BY <1>10, <2>2, <3>1
    <3>3. GroupsOf(q, R, {rows[1]}, rows[1], NextRow(q, g0, rows[1]))
          BY <1>3, <1>6, <3>1, GroupFirst
    <3> HIDE DEF Upto
    <3> QED BY <2>2, <3>1, <3>2, <3>3
  <2>3. CASE k # 0 /\ k # 1
    <3>1. k \in 1 .. n /\ k - 1 \in S /\ k - 1 # 0 /\ k - 1 < k
          BY <1>3, <2>3
    <3>2. k - 1 \in X
          BY <3>1
    <3>3. GroupsOf(q, R, Upto(k - 1), rows[k - 1], f[k - 1])
          BY <3>1, <3>2
    <3>4. f[k] = NextRow(q, f[k - 1], rows[k])
          BY <1>10, <3>1
    <3> DEFINE u == Upto(k - 1)
               new == rows[k]
               old == rows[k - 1]
               g1 == f[k - 1]
    <3>5. /\ Upto(k) = u \cup {new} /\ new \in R \ u /\ u \in SUBSET R
          /\ Key(q, new) # Key(q, old) => \A t \in u : Key(q, t) # Key(q, new)
          BY <1>11, <2>3, <3>1
    <3>6. GroupsOf(q, R, u, old, g1)
          BY <3>3
    <3> HIDE DEF u, new, old, g1, Upto
    <3>7. GroupsOf(q, R, u \cup {new}, new, NextRow(q, g1, new))
          BY <3>5, <3>6, GroupNext
    <3>8. GroupsOf(q, R, Upto(k), rows[k], f[k])
          BY <3>4, <3>5, <3>7 DEF new, g1
    <3> QED BY <3>8
  <2> QED BY <2>1, <2>2, <2>3
<1>13. S \subseteq X
  <2>1. m \in [S -> 0 .. n]
        OBVIOUS
  <2> HIDE DEF S, m, X, n
  <2> QED BY <1>3, <1>12, <2>1, MeasureInduction
<1>14. GroupsOf(q, R, R, rows[n], f[n])
  <2>1. n \in S /\ n # 0 /\ Upto(n) = R
        BY <1>3, <1>4
  <2>2. GroupsOf(q, R, Upto(n), rows[n], f[n])
        BY <1>13, <2>1
  <2> HIDE DEF Upto
  <2> QED BY <2>1, <2>2
<1> QED BY <1>2, <1>14, GroupLast

\* While type is 0, standard is the answer to the last query of StandardDB.
StandardInv ==
    type = 0 /\ asked > 0 /\ ~undefined /\ QueryType(query) = 3 => Summed(query, R, standard)

LEMMA RowsOfR == ASSUME CoverAssumption PROVE RowsOf(R)
<1>1. Values \subseteq Int /\ IsFiniteSet(Values)
      BY DEF CoverAssumption
<1>2. IsFiniteSet(Attributes)
      BY FS_Interval DEF Attributes, CoverAssumption, U
<1>3. IsFiniteSet([Attributes -> Values])
      BY <1>1, <1>2, FiniteMaps
<1>4. R \subseteq [Attributes -> Values]
      BY DEF R, Join
<1>5. IsFiniteSet(R)
      BY <1>3, <1>4, FS_Subset
<1>6. [Attributes -> Values] \subseteq [Attributes -> Int]
      BY <1>1
<1> QED BY <1>4, <1>5, <1>6 DEF RowsOf

LEMMA StandardStep ==
    ASSUME CoverAssumption, SumsOfF, StandardInv, [Next]_vars
    PROVE  StandardInv'
<1>1. CASE UNCHANGED <<type, asked, query, cover, standard>> /\ (undefined => undefined')
  <2>1. R' = R
        BY <1>1 DEF R, Join
  <2> QED BY <1>1, <2>1 DEF StandardInv
<1>2. ASSUME NEW q \in Queries, StandardDB(q) PROVE StandardInv'
  <2>1. query' = q /\ cover' = cover
        BY <1>2 DEF StandardDB, Asked
  <2>2. R' = R
        BY <2>1 DEF R, Join
  <2>3. CASE QueryType(q) # 3 \/ undefined'
        BY <2>1, <2>3 DEF StandardInv
  <2>4. CASE QueryType(q) = 3 /\ ~undefined'
    <3>1. Cardinality(R) >= 2 /\ standard' = StandardGroups(q)
          BY <1>2, <2>4 DEF StandardDB
    <3>2. Grouped(q) /\ q.sum = 6 /\ 6 \in Attributes
          BY <2>4, GroupedIs DEF SumsOfF
    <3>3. Summed(q, R, standard')
          BY <3>1, <3>2, RowsOfR, StandardGroupsAre
    <3> QED BY <2>1, <2>2, <3>3 DEF StandardInv
  <2> QED BY <2>3, <2>4
<1>3. ASSUME NEW q \in Queries, BuildVariableOrder(q) PROVE StandardInv'
  <2>1. type' # 0
        BY <1>3 DEF BuildVariableOrder, QueryType, GroupType
  <2> QED BY <2>1 DEF StandardInv
<1>4. ASSUME InsertAttribute \/ ReadCover \/ NoCover \/ Answer PROVE StandardInv'
      BY <1>1, <1>4 DEF InsertAttribute, ReadCover, NoCover, Answer
<1>5. ASSUME NEW i \in left, EnterTuple(i) PROVE StandardInv'
      BY <1>1, <1>5 DEF EnterTuple
<1>6. CASE UNCHANGED vars
      BY <1>1, <1>6 DEF vars
<1> QED BY <1>2, <1>3, <1>4, <1>5, <1>6 DEF Next

\* StandardDB's one pass over the sorted rows finds the sum of every group, for
\* any relation and values, although its first group begins with one column of
\* the second row (CoverDB.cpp:922).
THEOREM StandardIsRight == SumsOfF /\ Spec => []EveryGroupSummed
<1>1. CoverAssumption
      BY CoverAssumption
<1>2. ASSUME Init PROVE StandardInv
  <2>1. asked = 0
        BY <1>2 DEF Init
  <2> QED BY <2>1 DEF StandardInv
<1>3. ASSUME SumsOfF, StandardInv, [Next]_vars PROVE StandardInv'
      BY <1>1, <1>3, StandardStep
<1>4. ASSUME StandardInv PROVE EveryGroupSummed
      BY <1>4 DEF StandardInv, EveryGroupSummed, Summed
<1>5. SumsOfF => SumsOfF'
      BY DEF SumsOfF
<1> QED BY <1>2, <1>3, <1>4, <1>5, PTL DEF Spec

-----------------------------------------------------------------------------
(* Short ways, and what hangs below a node: the count *)

\* A way and one step further, and short ways written out.
Further(p, v) == Append(p, v)

LEMMA FurtherIs ==
    ASSUME NEW A, NEW p \in Seq(A), NEW v \in A
    PROVE  /\ Further(p, v) \in Seq(A) /\ Len(Further(p, v)) = Len(p) + 1
           /\ \A i \in 1 .. Len(p) : Further(p, v)[i] = p[i]
           /\ Further(p, v)[Len(p) + 1] = v
           /\ Front(Further(p, v)) = p /\ Last(Further(p, v)) = v
<1> DEFINE s == Append(p, v)
           f == SubSeq(s, 1, Len(p))
<1>1. /\ s \in Seq(A) /\ Len(s) = Len(p) + 1 /\ Len(p) \in Nat
      /\ \A i \in 1 .. Len(p) : s[i] = p[i]
      /\ s[Len(p) + 1] = v
      BY ONLY AppendProperties, LenProperties
<1> HIDE DEF s
<1>2. f \in Seq(A) /\ Len(f) = Len(p) /\ \A i \in 1 .. Len(p) : f[i] = s[i]
  <2>1. \A i \in 1 .. Len(p) : s[i] \in A
        BY <1>1, ElementOfSeq
  <2> QED BY <1>1, <2>1, SubSeqProperties
<1>3. f = p
  <2> HIDE DEF f
  <2>1. f \in Seq(A) /\ p \in Seq(A) /\ Len(f) = Len(p) /\ \A i \in 1 .. Len(f) : f[i] = p[i]
        BY <1>1, <1>2
  <2> QED BY ONLY <2>1, SeqEqual
<1>4. Len(s) - 1 = Len(p)
      BY <1>1
<1>5. Front(s) = p /\ Last(s) = v
      BY <1>1, <1>3, <1>4 DEF Front, Last
<1> QED BY <1>1, <1>5 DEF s, Further

LEMMA ShortWays ==
    /\ \A x : Further(<< >>, x) = <<x>> /\ Front(<<x>>) = << >> /\ Last(<<x>>) = x
    /\ \A x, y : /\ Further(<<x>>, y) = <<x, y>>
                 /\ Front(<<x, y>>) = <<x>> /\ Last(<<x, y>>) = y
    /\ \A x, y, z : /\ Further(<<x, y>>, z) = <<x, y, z>>
                    /\ Front(<<x, y, z>>) = <<x, y>> /\ Last(<<x, y, z>>) = z
<1>1. ASSUME NEW x PROVE Further(<< >>, x) = <<x>> /\ Front(<<x>>) = << >> /\ Last(<<x>>) = x
      BY DEF Further, Front, Last
<1>2. ASSUME NEW x, NEW y
      PROVE  Further(<<x>>, y) = <<x, y>> /\ Front(<<x, y>>) = <<x>> /\ Last(<<x, y>>) = y
  <2> DEFINE A == {x, y}
             p == <<x>>
             q == <<x, y>>
             s == Further(p, y)
  <2>1. /\ p \in Seq(A) /\ Len(p) = 1 /\ p[1] = x /\ y \in A
        /\ q \in Seq(A) /\ Len(q) = 2 /\ q[1] = x /\ q[2] = y
        OBVIOUS
  <2> HIDE DEF A, p, q, s
  <2>2. /\ s \in Seq(A) /\ Len(s) = Len(p) + 1 /\ (\A i \in 1 .. Len(p) : s[i] = p[i])
        /\ s[Len(p) + 1] = y /\ Front(s) = p /\ Last(s) = y
    <3>1. p \in Seq(A) /\ y \in A
          BY <2>1
    <3> QED BY ONLY <3>1, FurtherIs DEF s
  <2>3. \A i \in 1 .. 2 : i = 1 \/ i = 2
        OBVIOUS
  <2>4. Len(s) = Len(q) /\ \A i \in 1 .. Len(s) : s[i] = q[i]
        BY <2>1, <2>2, <2>3
  <2>5. s = q
        BY ONLY <2>1, <2>2, <2>4, SeqEqual
  <2> QED BY <2>2, <2>5 DEF p, q, s
<1>3. ASSUME NEW x, NEW y, NEW z
      PROVE  /\ Further(<<x, y>>, z) = <<x, y, z>>
             /\ Front(<<x, y, z>>) = <<x, y>> /\ Last(<<x, y, z>>) = z
  <2> DEFINE A == {x, y, z}
             p == <<x, y>>
             q == <<x, y, z>>
             s == Further(p, z)
  <2>1. /\ p \in Seq(A) /\ Len(p) = 2 /\ p[1] = x /\ p[2] = y /\ z \in A
        /\ q \in Seq(A) /\ Len(q) = 3 /\ q[1] = x /\ q[2] = y /\ q[3] = z
        OBVIOUS
  <2> HIDE DEF A, p, q, s
  <2>2. /\ s \in Seq(A) /\ Len(s) = Len(p) + 1 /\ (\A i \in 1 .. Len(p) : s[i] = p[i])
        /\ s[Len(p) + 1] = z /\ Front(s) = p /\ Last(s) = z
    <3>1. p \in Seq(A) /\ z \in A
          BY <2>1
    <3> QED BY ONLY <3>1, FurtherIs DEF s
  <2>3. \A i \in 1 .. 3 : (i \in 1 .. 2 /\ (i = 1 \/ i = 2)) \/ i = 3
        OBVIOUS
  <2>4. Len(s) = Len(q) /\ \A i \in 1 .. Len(s) : s[i] = q[i]
        BY <2>1, <2>2, <2>3
  <2>5. s = q
        BY ONLY <2>1, <2>2, <2>4, SeqEqual
  <2> QED BY <2>2, <2>5 DEF p, q, s
<1> QED BY <1>1, <1>2, <1>3

\* A database over the program's order: A is above B and E, B above C and D, and E above F.
Arranged ==
    /\ Schema /\ TuplesInv /\ NodesInv /\ phase = "build"
    /\ DOMAIN encode = Letters /\ encode[U] \in {0, 1, 3} /\ Shape(AtA, 1 .. 6)

LEMMA LevelsAre ==
    ASSUME Arranged
    PROVE  /\ Used = {1, 3, 4, 7, 8, 9}
           /\ FindIndex(1) = 1 /\ FindIndex(3) = 2 /\ FindIndex(4) = 5
           /\ FindIndex(7) = 3 /\ FindIndex(8) = 4 /\ FindIndex(9) = 6
<1>1. /\ encode[1] = 1 /\ encode[2] = 3 /\ encode[3] = 7 /\ encode[4] = 8
      /\ encode[5] = 4 /\ encode[6] = 9
      BY DEF Arranged, Shape, AtA
<1>2. Letters = (1 .. 6) \cup {U} /\ U = 21 /\ NumNode = 40
      BY DEF Letters, Attributes, Arranged, Schema, U
<1>3. Used = {1, 3, 4, 7, 8, 9}
  <2>1. {1, 3, 4, 7, 8, 9} \subseteq Used
        BY <1>1, <1>2 DEF Used
  <2>2. \A i \in Used : i \in {1, 3, 4, 7, 8, 9}
        BY <1>1, <1>2 DEF Used, Arranged
  <2> QED BY <2>1, <2>2
<1>4. ASSUME NEW a \in 1 .. 6 PROVE FindIndex(encode[a]) = a
  <2> DEFINE M == {b \in Letters : encode[b] = encode[a]}
  <2>1. \A b \in 1 .. 6 : encode[b] = encode[a] => b = a
        BY <1>1
  <2>2. a \in M /\ \A b \in M : b = a \/ b = U
        BY <1>2, <2>1
  <2>3. \A b \in M : b \in Int /\ a <= b
        BY <1>2, <2>2
  <2>4. \A x \in M : (\A b \in M : x <= b) => x = a
    <3> HIDE DEF M
    <3>1. \A x \in M : x <= a /\ a <= x => x = a
          BY <2>3
    <3> QED BY <2>2, <2>3, <3>1
  <2> QED BY <2>2, <2>3, <2>4 DEF FindIndex, Min
<1> QED BY <1>1, <1>3, <1>4

LEMMA WaysAre ==
    ASSUME CoverAssumption, Arranged, NEW t
    PROVE  /\ Paths(t)[1] = <<t[1]>> /\ Paths(t)[3] = <<t[1], t[2]>>
           /\ Paths(t)[4] = <<t[1], t[5]>> /\ Paths(t)[7] = <<t[1], t[2], t[3]>>
           /\ Paths(t)[8] = <<t[1], t[2], t[4]>> /\ Paths(t)[9] = <<t[1], t[5], t[6]>>
<1>1. /\ Above(1) = 0 /\ Above(3) = 1 /\ Above(4) = 1 /\ Above(7) = 3 /\ Above(8) = 3
      /\ Above(9) = 4
      BY DEF Above
<1>2. /\ Paths(t)[0] = << >>
      /\ \A i \in 1 .. 39 : Paths(t)[i] = Append(Paths(t)[Above(i)], t[FindIndex(i)])
  <2>1. NumNode - 1 = 39
        BY DEF Arranged, Schema
  <2> QED BY <2>1, PathsAre
<1>3. /\ FindIndex(1) = 1 /\ FindIndex(3) = 2 /\ FindIndex(4) = 5
      /\ FindIndex(7) = 3 /\ FindIndex(8) = 4 /\ FindIndex(9) = 6
      BY LevelsAre
<1> DEFINE p == Paths(t)
<1>4. /\ p[0] = << >> /\ \A i \in 1 .. 39 : p[i] = Further(p[Above(i)], t[FindIndex(i)])
      BY <1>2 DEF Further
<1> HIDE DEF p
<1>6. /\ p[1] = Further(p[0], t[1]) /\ p[3] = Further(p[1], t[2]) /\ p[4] = Further(p[1], t[5])
      /\ p[7] = Further(p[3], t[3]) /\ p[8] = Further(p[3], t[4]) /\ p[9] = Further(p[4], t[6])
  <2>1. {1, 3, 4, 7, 8, 9} \subseteq 1 .. 39
        OBVIOUS
  <2>2. \A i \in {1, 3, 4, 7, 8, 9} : p[i] = Further(p[Above(i)], t[FindIndex(i)])
        BY <1>4, <2>1
  <2>3. /\ p[1] = Further(p[Above(1)], t[FindIndex(1)])
        /\ p[3] = Further(p[Above(3)], t[FindIndex(3)])
        /\ p[4] = Further(p[Above(4)], t[FindIndex(4)])
        /\ p[7] = Further(p[Above(7)], t[FindIndex(7)])
        /\ p[8] = Further(p[Above(8)], t[FindIndex(8)])
        /\ p[9] = Further(p[Above(9)], t[FindIndex(9)])
        BY <2>2
  <2> QED BY <1>1, <1>3, <2>3
<1>7. p[1] = <<t[1]>>
      BY <1>4, <1>6, ShortWays
<1>8. p[3] = <<t[1], t[2]>>
  <2>1. Further(<<t[1]>>, t[2]) = <<t[1], t[2]>>
        BY ShortWays
  <2> QED BY <1>6, <1>7, <2>1
<1>9. p[4] = <<t[1], t[5]>>
  <2>1. Further(<<t[1]>>, t[5]) = <<t[1], t[5]>>
        BY ShortWays
  <2> QED BY <1>6, <1>7, <2>1
<1>10. p[7] = <<t[1], t[2], t[3]>>
  <2>1. Further(<<t[1], t[2]>>, t[3]) = <<t[1], t[2], t[3]>>
        BY ShortWays
  <2> QED BY <1>6, <1>8, <2>1
<1>11. p[8] = <<t[1], t[2], t[4]>>
  <2>1. Further(<<t[1], t[2]>>, t[4]) = <<t[1], t[2], t[4]>>
        BY ShortWays
  <2> QED BY <1>6, <1>8, <2>1
<1>12. p[9] = <<t[1], t[5], t[6]>>
  <2>1. Further(<<t[1], t[5]>>, t[6]) = <<t[1], t[5], t[6]>>
        BY ShortWays
  <2> QED BY <1>6, <1>9, <2>1
<1> QED BY <1>7, <1>8, <1>9, <1>10, <1>11, <1>12 DEF p

\* What the tuples entered have at each level, below given values.
As       == {s[1] : s \in Entered}
Bs(x)    == {s[2] : s \in {r \in Entered : r[1] = x}}
Es(x)    == {s[5] : s \in {r \in Entered : r[1] = x}}
Cs(x, y) == {s[3] : s \in {r \in Entered : r[1] = x /\ r[2] = y}}
Ds(x, y) == {s[4] : s \in {r \in Entered : r[1] = x /\ r[2] = y}}
Fs(x, z) == {s[6] : s \in {r \in Entered : r[1] = x /\ r[5] = z}}
At(i, p) == [pos |-> i, path |-> p]
Leaves(i, x, y, S) == {At(i, <<x, y, v>>) : v \in S}

LEMMA NodesAre ==
    ASSUME Arranged, NEW n
    PROVE  n \in ToSet(db) <=> \E s \in Entered, i \in Used : n = At(i, Paths(s)[i])
<1>1. ToSet(db) = NodesFor(encode, Entered)
      BY DEF Arranged, NodesInv
<1>2. \A s, i : NodeIn(encode, s, i) = At(i, Paths(s)[i])
      BY FromEncode DEF NodeOf, At
<1> QED BY <1>1, <1>2, FromEncode DEF NodesFor

LEMMA LevelIs ==
    ASSUME Arranged, NEW i \in Used, NEW p
    PROVE  Below(i, p) = {n \in {At(i, Paths(s)[i]) : s \in Entered} : Front(n.path) = p}
<1> DEFINE S == {n \in {At(i, Paths(s)[i]) : s \in Entered} : Front(n.path) = p}
<1>1. ASSUME NEW n \in Below(i, p) PROVE n \in S
  <2>1. n \in ToSet(db) /\ n.pos = i /\ Front(n.path) = p
        BY DEF Below
  <2>2. PICK s \in Entered, j \in Used : n = At(j, Paths(s)[j])
        BY <2>1, NodesAre
  <2>3. j = i
        BY <2>1, <2>2 DEF At
  <2> QED BY <2>1, <2>2, <2>3
<1>2. ASSUME NEW n \in S PROVE n \in Below(i, p)
  <2>1. PICK s \in Entered : n = At(i, Paths(s)[i])
        OBVIOUS
  <2>2. n \in ToSet(db)
        BY <2>1, NodesAre
  <2>3. n.pos = i /\ Front(n.path) = p
        BY <2>1 DEF At
  <2> QED BY <2>2, <2>3 DEF Below
<1> QED BY <1>1, <1>2

LEMMA NoneBelow ==
    ASSUME Arranged, NEW i, i \notin {1, 3, 4, 7, 8, 9}, NEW p
    PROVE  Below(i, p) = {}
<1> SUFFICES ASSUME NEW n \in ToSet(db), n.pos = i PROVE FALSE
    BY DEF Below
<1>1. PICK s \in Entered, j \in Used : n = At(j, Paths(s)[j])
      BY NodesAre
<1> QED BY <1>1, LevelsAre DEF At

LEMMA FirstLevel ==
    ASSUME CoverAssumption, Arranged
    PROVE  Below(1, << >>) = {At(1, <<x>>) : x \in As}
<1>1. \A s : Paths(s)[1] = <<s[1]>>
      BY WaysAre
<1>2. 1 \in Used
      BY LevelsAre
<1>3. Below(1, << >>) = {n \in {At(1, Paths(s)[1]) : s \in Entered} : Front(n.path) = << >>}
      BY <1>2, LevelIs
<1>4. {At(1, Paths(s)[1]) : s \in Entered} = {At(1, <<x>>) : x \in As}
      BY <1>1 DEF As
<1>5. \A x : Front(At(1, <<x>>).path) = << >>
      BY ShortWays DEF At
<1> QED BY <1>3, <1>4, <1>5

LEMMA SecondLevel ==
    ASSUME CoverAssumption, Arranged, NEW x
    PROVE  /\ Below(3, <<x>>) = {At(3, <<x, y>>) : y \in Bs(x)}
           /\ Below(4, <<x>>) = {At(4, <<x, z>>) : z \in Es(x)}
<1>1. \A s : Paths(s)[3] = <<s[1], s[2]>> /\ Paths(s)[4] = <<s[1], s[5]>>
      BY WaysAre
<1>2. \A a, b : <<a>> = <<b>> => a = b
      OBVIOUS
<1>3. \A i, y, z : Front(At(i, <<y, z>>).path) = <<y>>
      BY ShortWays DEF At
<1>4. Below(3, <<x>>) = {At(3, <<x, y>>) : y \in Bs(x)}
  <2>1. 3 \in Used
        BY LevelsAre
  <2>2. Below(3, <<x>>) = {n \in {At(3, Paths(s)[3]) : s \in Entered} : Front(n.path) = <<x>>}
        BY <2>1, LevelIs
  <2>3. {At(3, Paths(s)[3]) : s \in Entered} = {At(3, <<s[1], s[2]>>) : s \in Entered}
        BY <1>1
  <2>4. \A s : Front(At(3, <<s[1], s[2]>>).path) = <<x>> <=> s[1] = x
        BY <1>2, <1>3
  <2>5. Below(3, <<x>>) = {At(3, <<s[1], s[2]>>) : s \in {r \in Entered : r[1] = x}}
        BY ONLY <2>2, <2>3, <2>4
  <2>6. \A s \in {r \in Entered : r[1] = x} : At(3, <<s[1], s[2]>>) = At(3, <<x, s[2]>>)
        OBVIOUS
  <2> QED BY <2>5, <2>6 DEF Bs
<1>5. Below(4, <<x>>) = {At(4, <<x, z>>) : z \in Es(x)}
  <2>1. 4 \in Used
        BY LevelsAre
  <2>2. Below(4, <<x>>) = {n \in {At(4, Paths(s)[4]) : s \in Entered} : Front(n.path) = <<x>>}
        BY <2>1, LevelIs
  <2>3. {At(4, Paths(s)[4]) : s \in Entered} = {At(4, <<s[1], s[5]>>) : s \in Entered}
        BY <1>1
  <2>4. \A s : Front(At(4, <<s[1], s[5]>>).path) = <<x>> <=> s[1] = x
        BY <1>2, <1>3
  <2>5. Below(4, <<x>>) = {At(4, <<s[1], s[5]>>) : s \in {r \in Entered : r[1] = x}}
        BY ONLY <2>2, <2>3, <2>4
  <2>6. \A s \in {r \in Entered : r[1] = x} : At(4, <<s[1], s[5]>>) = At(4, <<x, s[5]>>)
        OBVIOUS
  <2> QED BY <2>5, <2>6 DEF Es
<1> QED BY <1>4, <1>5

LEMMA ThirdLevel ==
    ASSUME CoverAssumption, Arranged, NEW x, NEW y
    PROVE  /\ Below(7, <<x, y>>) = Leaves(7, x, y, Cs(x, y))
           /\ Below(8, <<x, y>>) = Leaves(8, x, y, Ds(x, y))
           /\ Below(9, <<x, y>>) = Leaves(9, x, y, Fs(x, y))
<1>1. \A s : /\ Paths(s)[7] = <<s[1], s[2], s[3]>>
             /\ Paths(s)[8] = <<s[1], s[2], s[4]>> /\ Paths(s)[9] = <<s[1], s[5], s[6]>>
      BY WaysAre
<1>2. \A a, b, c, d : <<a, b>> = <<c, d>> => a = c /\ b = d
      OBVIOUS
<1>3. \A i, a, b, c : Front(At(i, <<a, b, c>>).path) = <<a, b>>
      BY ShortWays DEF At
<1>4. Below(7, <<x, y>>) = {At(7, <<x, y, c>>) : c \in Cs(x, y)}
  <2>1. 7 \in Used
        BY LevelsAre
  <2>2. Below(7, <<x, y>>) =
           {n \in {At(7, Paths(s)[7]) : s \in Entered} : Front(n.path) = <<x, y>>}
        BY <2>1, LevelIs
  <2>3. {At(7, Paths(s)[7]) : s \in Entered} = {At(7, <<s[1], s[2], s[3]>>) : s \in Entered}
        BY <1>1
  <2>4. \A s : Front(At(7, <<s[1], s[2], s[3]>>).path) = <<x, y>> <=> s[1] = x /\ s[2] = y
        BY <1>2, <1>3
  <2>5. Below(7, <<x, y>>) = {At(7, <<s[1], s[2], s[3]>>) : s \in {r \in Entered : r[1] = x /\ r[2] = y}}
        BY <2>2, <2>3, <2>4
  <2>6. \A s \in {r \in Entered : r[1] = x /\ r[2] = y} : At(7, <<s[1], s[2], s[3]>>) = At(7, <<x, y, s[3]>>)
        OBVIOUS
  <2> QED BY <2>5, <2>6 DEF Cs
<1>5. Below(8, <<x, y>>) = {At(8, <<x, y, d>>) : d \in Ds(x, y)}
  <2>1. 8 \in Used
        BY LevelsAre
  <2>2. Below(8, <<x, y>>) =
           {n \in {At(8, Paths(s)[8]) : s \in Entered} : Front(n.path) = <<x, y>>}
        BY <2>1, LevelIs
  <2>3. {At(8, Paths(s)[8]) : s \in Entered} = {At(8, <<s[1], s[2], s[4]>>) : s \in Entered}
        BY <1>1
  <2>4. \A s : Front(At(8, <<s[1], s[2], s[4]>>).path) = <<x, y>> <=> s[1] = x /\ s[2] = y
        BY <1>2, <1>3
  <2>5. Below(8, <<x, y>>) = {At(8, <<s[1], s[2], s[4]>>) : s \in {r \in Entered : r[1] = x /\ r[2] = y}}
        BY <2>2, <2>3, <2>4
  <2>6. \A s \in {r \in Entered : r[1] = x /\ r[2] = y} : At(8, <<s[1], s[2], s[4]>>) = At(8, <<x, y, s[4]>>)
        OBVIOUS
  <2> QED BY <2>5, <2>6 DEF Ds
<1>6. Below(9, <<x, y>>) = {At(9, <<x, y, f>>) : f \in Fs(x, y)}
  <2>1. 9 \in Used
        BY LevelsAre
  <2>2. Below(9, <<x, y>>) =
           {n \in {At(9, Paths(s)[9]) : s \in Entered} : Front(n.path) = <<x, y>>}
        BY <2>1, LevelIs
  <2>3. {At(9, Paths(s)[9]) : s \in Entered} = {At(9, <<s[1], s[5], s[6]>>) : s \in Entered}
        BY <1>1
  <2>4. \A s : Front(At(9, <<s[1], s[5], s[6]>>).path) = <<x, y>> <=> s[1] = x /\ s[5] = y
        BY <1>2, <1>3
  <2>5. Below(9, <<x, y>>) = {At(9, <<s[1], s[5], s[6]>>) : s \in {r \in Entered : r[1] = x /\ r[5] = y}}
        BY <2>2, <2>3, <2>4
  <2>6. \A s \in {r \in Entered : r[1] = x /\ r[5] = y} : At(9, <<s[1], s[5], s[6]>>) = At(9, <<x, y, s[6]>>)
        OBVIOUS
  <2> QED BY <2>5, <2>6 DEF Fs
<1> QED BY <1>4, <1>5, <1>6 DEF Leaves

LEMMA EnteredAre ==
    ASSUME CoverAssumption, Arranged
    PROVE  /\ Attributes = 1 .. 6 /\ Values \subseteq Int /\ IsFiniteSet(Values)
           /\ Entered \subseteq [Attributes -> Values]
<1>1. Attributes = 1 .. 6
      BY DEF Attributes, Arranged, Schema
<1>2. \A i \in DOMAIN CDB : CDB[i] \in Tuples
      BY LenProperties, ElementOfSeq DEF Arranged, TuplesInv
<1> QED BY <1>1, <1>2 DEF CoverAssumption, Entered

LEMMA LevelsTyped ==
    ASSUME CoverAssumption, Arranged
    PROVE  /\ As \subseteq Values /\ IsFiniteSet(As)
           /\ \A x : /\ Bs(x) \subseteq Values /\ IsFiniteSet(Bs(x))
                     /\ Es(x) \subseteq Values /\ IsFiniteSet(Es(x))
           /\ \A x, y : /\ Cs(x, y) \subseteq Values /\ IsFiniteSet(Cs(x, y))
                        /\ Ds(x, y) \subseteq Values /\ IsFiniteSet(Ds(x, y))
                        /\ Fs(x, y) \subseteq Values /\ IsFiniteSet(Fs(x, y))
<1>1. \A s \in Entered : \A a \in 1 .. 6 : s[a] \in Values
      BY EnteredAre
<1>2. \A S \in SUBSET Values : IsFiniteSet(S)
      BY EnteredAre, FS_Subset
<1>3. As \subseteq Values
      BY <1>1 DEF As
<1>4. \A x : Bs(x) \subseteq Values /\ Es(x) \subseteq Values
      BY <1>1 DEF Bs, Es
<1>5. \A x, y : Cs(x, y) \subseteq Values /\ Ds(x, y) \subseteq Values /\ Fs(x, y) \subseteq Values
      BY <1>1 DEF Cs, Ds, Fs
<1> QED BY <1>2, <1>3, <1>4, <1>5

\* The database stands for the tuples that have a value of each level below
\* their values on the levels above it.
Hangs(t) ==
    /\ t[1] \in As /\ t[2] \in Bs(t[1]) /\ t[5] \in Es(t[1])
    /\ t[3] \in Cs(t[1], t[2]) /\ t[4] \in Ds(t[1], t[2]) /\ t[6] \in Fs(t[1], t[5])

LEMMA RepresentedAre ==
    ASSUME CoverAssumption, Arranged
    PROVE  Represented = {t \in [Attributes -> Values] : Hangs(t)}
<1> SUFFICES ASSUME NEW t PROVE (\A i \in Used : Contains(db, NodeOf(t, i))) <=> Hangs(t)
    BY DEF Represented
<1>1. ASSUME NEW i \in Used
      PROVE  Contains(db, NodeOf(t, i)) <=> \E s \in Entered : Paths(t)[i] = Paths(s)[i]
  <2>1. Contains(db, NodeOf(t, i)) <=> NodeOf(t, i) \in ToSet(db)
        BY ContainsIs DEF Arranged, NodesInv
  <2>2. NodeOf(t, i) = At(i, Paths(t)[i])
        BY DEF NodeOf, At
  <2>3. \A j, p, q : At(i, p) = At(j, q) <=> i = j /\ p = q
    <3> SUFFICES ASSUME NEW j, NEW p, NEW q, At(i, p) = At(j, q) PROVE i = j /\ p = q
        OBVIOUS
    <3>1. At(i, p).pos = At(j, q).pos /\ At(i, p).path = At(j, q).path
          OBVIOUS
    <3> QED BY <3>1 DEF At
  <2> QED BY <2>1, <2>2, <2>3, NodesAre
<1>2. \A s : /\ Paths(s)[1] = <<s[1]>> /\ Paths(s)[3] = <<s[1], s[2]>>
             /\ Paths(s)[4] = <<s[1], s[5]>> /\ Paths(s)[7] = <<s[1], s[2], s[3]>>
             /\ Paths(s)[8] = <<s[1], s[2], s[4]>> /\ Paths(s)[9] = <<s[1], s[5], s[6]>>
      BY WaysAre
<1>3. Used = {1, 3, 4, 7, 8, 9}
      BY LevelsAre
<1>4. Contains(db, NodeOf(t, 1)) <=> t[1] \in As
  <2>1. \A s : Paths(s)[1] = <<s[1]>>
        BY <1>2
  <2>2. ASSUME NEW s PROVE Paths(t)[1] = Paths(s)[1] <=> t[1] = s[1]
    <3>1. Paths(s)[1] = <<s[1]>> /\ Paths(t)[1] = <<t[1]>>
          BY <2>1
    <3> QED BY ONLY <3>1
  <2> QED BY <1>1, <1>3, <2>2 DEF As
<1>5. Contains(db, NodeOf(t, 3)) <=> t[2] \in Bs(t[1])
  <2>1. \A s : Paths(s)[3] = <<s[1], s[2]>>
        BY <1>2
  <2>2. ASSUME NEW s PROVE Paths(t)[3] = Paths(s)[3] <=> t[1] = s[1] /\ t[2] = s[2]
    <3>1. Paths(s)[3] = <<s[1], s[2]>> /\ Paths(t)[3] = <<t[1], t[2]>>
          BY <2>1
    <3> QED BY ONLY <3>1
  <2> QED BY <1>1, <1>3, <2>2 DEF Bs
<1>6. Contains(db, NodeOf(t, 4)) <=> t[5] \in Es(t[1])
  <2>1. \A s : Paths(s)[4] = <<s[1], s[5]>>
        BY <1>2
  <2>2. ASSUME NEW s PROVE Paths(t)[4] = Paths(s)[4] <=> t[1] = s[1] /\ t[5] = s[5]
    <3>1. Paths(s)[4] = <<s[1], s[5]>> /\ Paths(t)[4] = <<t[1], t[5]>>
          BY <2>1
    <3> QED BY ONLY <3>1
  <2> QED BY <1>1, <1>3, <2>2 DEF Es
<1>7. Contains(db, NodeOf(t, 7)) <=> t[3] \in Cs(t[1], t[2])
  <2>1. \A s : Paths(s)[7] = <<s[1], s[2], s[3]>>
        BY <1>2
  <2>2. ASSUME NEW s PROVE Paths(t)[7] = Paths(s)[7] <=> t[1] = s[1] /\ t[2] = s[2] /\ t[3] = s[3]
    <3>1. Paths(s)[7] = <<s[1], s[2], s[3]>> /\ Paths(t)[7] = <<t[1], t[2], t[3]>>
          BY <2>1
    <3> QED BY ONLY <3>1
  <2>3. 7 \in Used
        BY <1>3
  <2> QED BY <1>1, <2>2, <2>3 DEF Cs
<1>8. Contains(db, NodeOf(t, 8)) <=> t[4] \in Ds(t[1], t[2])
  <2>1. \A s : Paths(s)[8] = <<s[1], s[2], s[4]>>
        BY <1>2
  <2>2. ASSUME NEW s PROVE Paths(t)[8] = Paths(s)[8] <=> t[1] = s[1] /\ t[2] = s[2] /\ t[4] = s[4]
    <3>1. Paths(s)[8] = <<s[1], s[2], s[4]>> /\ Paths(t)[8] = <<t[1], t[2], t[4]>>
          BY <2>1
    <3> QED BY ONLY <3>1
  <2> QED BY <1>1, <1>3, <2>2 DEF Ds
<1>9. Contains(db, NodeOf(t, 9)) <=> t[6] \in Fs(t[1], t[5])
  <2>1. \A s : Paths(s)[9] = <<s[1], s[5], s[6]>>
        BY <1>2
  <2>2. ASSUME NEW s PROVE Paths(t)[9] = Paths(s)[9] <=> t[1] = s[1] /\ t[5] = s[5] /\ t[6] = s[6]
    <3>1. Paths(s)[9] = <<s[1], s[5], s[6]>> /\ Paths(t)[9] = <<t[1], t[5], t[6]>>
          BY <2>1
    <3> QED BY ONLY <3>1
  <2> QED BY <1>1, <1>3, <2>2 DEF Fs
<1> QED BY <1>3, <1>4, <1>5, <1>6, <1>7, <1>8, <1>9 DEF Hangs

LEMMA BelowTyped ==
    ASSUME CoverAssumption, Arranged, NEW i, NEW p
    PROVE  /\ IsFiniteSet(Below(i, p)) /\ \A n \in Below(i, p) : n.path \in Seq(Values)
           /\ i \notin 1 .. 39 => Below(i, p) = {}
<1>1. IsFiniteSet(ToSet(db))
  <2>1. /\ Len(db) \in Nat /\ DOMAIN db = 1 .. Len(db)
        BY LenProperties DEF Arranged, NodesInv
  <2>2. IsFiniteSet(1 .. Len(db))
        BY <2>1, FS_Interval
  <2>3. db \in Surjection(DOMAIN db, ToSet(db))
    <3>1. db \in [DOMAIN db -> ToSet(db)]
      <4>1. db = [k \in DOMAIN db |-> db[k]]
            BY <2>1, LenProperties DEF Arranged, NodesInv
      <4> QED BY <4>1 DEF ToSet
    <3> QED BY <3>1 DEF Surjection, ToSet
  <2> QED BY <2>1, <2>2, <2>3, FS_Surjection
<1>2. IsFiniteSet(Below(i, p))
  <2>1. Below(i, p) \subseteq ToSet(db)
        BY DEF Below
  <2> QED BY <1>1, <2>1, FS_Subset
<1>3. ASSUME NEW n \in ToSet(db) PROVE n.path \in Seq(Values) /\ n.pos \in 1 .. 39
  <2>1. PICK s \in Entered, j \in Used : n = At(j, Paths(s)[j])
        BY NodesAre
  <2>2. \A a \in 1 .. 6 : s[a] \in Values
        BY EnteredAre
  <2>3. /\ s[1] \in Values /\ s[2] \in Values /\ s[3] \in Values
        /\ s[4] \in Values /\ s[5] \in Values /\ s[6] \in Values
        BY <2>2
  <2>4. /\ <<s[1]>> \in Seq(Values) /\ <<s[1], s[2]>> \in Seq(Values)
        /\ <<s[1], s[5]>> \in Seq(Values) /\ <<s[1], s[2], s[3]>> \in Seq(Values)
        /\ <<s[1], s[2], s[4]>> \in Seq(Values) /\ <<s[1], s[5], s[6]>> \in Seq(Values)
        BY ONLY <2>3
  <2>5. j \in {1, 3, 4, 7, 8, 9}
        BY LevelsAre
  <2>6. Paths(s)[j] \in Seq(Values)
        BY <2>4, <2>5, WaysAre
  <2> QED BY <2>1, <2>5, <2>6 DEF At
<1> QED BY <1>2, <1>3 DEF Below

\* One step of Count, with g for the counts further down.
Counted(g, x) ==
    IF Below(x[1], x[2]) = {} THEN 1
    ELSE Total([n \in Below(x[1], x[2]) |->
                   g[<<2*x[1] + 1, n.path>>] * g[<<2*x[1] + 2, n.path>>]],
               Below(x[1], x[2]))

LEMMA CountIs ==
    ASSUME CoverAssumption, Arranged
    PROVE  \E c : /\ c \in [Nat \X Seq(Values) -> Int]
                  /\ \A x \in Nat \X Seq(Values) : c[x] = Counted(c, x)
                  /\ \A i \in Nat, p \in Seq(Values) : Count(i, p) = c[<<i, p>>]
<1> DEFINE P == Nat \X Seq(Values)
           F == [x \in P |-> [g \in [P -> Int] |-> Counted(g, x)]]
           m == [x \in P |-> IF x[1] <= 39 THEN 40 - x[1] ELSE 0]
           Is(c) == c = [x \in P |->
              IF Below(x[1], x[2]) = {} THEN 1
              ELSE MapThenSumSet(
                      LAMBDA n : c[<<2*x[1] + 1, n.path>>] * c[<<2*x[1] + 2, n.path>>],
                      Below(x[1], x[2]))]
           c == CHOOSE d : Is(d)
<1>1. ASSUME NEW x \in P, NEW n \in Below(x[1], x[2])
      PROVE  /\ <<2*x[1] + 1, n.path>> \in P /\ <<2*x[1] + 2, n.path>> \in P
             /\ m[<<2*x[1] + 1, n.path>>] < m[x] /\ m[<<2*x[1] + 2, n.path>>] < m[x]
  <2>1. n.path \in Seq(Values) /\ x[1] \in 1 .. 39
        BY BelowTyped
  <2> DEFINE i == x[1]
             y == <<2*i + 1, n.path>>
             z == <<2*i + 2, n.path>>
  <2>2. i \in 1 .. 39 /\ 2*i + 1 \in Nat /\ 2*i + 2 \in Nat
        BY <2>1
  <2>3. y \in P /\ z \in P /\ y[1] = 2*i + 1 /\ z[1] = 2*i + 2
        BY <2>1, <2>2
  <2> HIDE DEF i, y, z, P
  <2>4. /\ m[y] = IF 2*i + 1 <= 39 THEN 40 - (2*i + 1) ELSE 0
        /\ m[z] = IF 2*i + 2 <= 39 THEN 40 - (2*i + 2) ELSE 0
        /\ m[x] = 40 - i
    <3>1. \A v \in P : m[v] = IF v[1] <= 39 THEN 40 - v[1] ELSE 0
          OBVIOUS
    <3>2. m[x] = IF i <= 39 THEN 40 - i ELSE 0
          BY <3>1 DEF i
    <3> HIDE DEF m
    <3> QED BY <2>2, <2>3, <3>1, <3>2
  <2>5. m[y] < m[x] /\ m[z] < m[x]
        BY <2>2, <2>4
  <2> QED BY <2>3, <2>5 DEF i, y, z
<1>2. ASSUME NEW x \in P, NEW g \in [P -> Int] PROVE Counted(g, x) \in Int
  <2> DEFINE B == Below(x[1], x[2])
             w == [n \in B |-> g[<<2*x[1] + 1, n.path>>] * g[<<2*x[1] + 2, n.path>>]]
  <2>1. IsFiniteSet(B)
        BY BelowTyped
  <2>2. \A n \in B : w[n] \in Int
    <3> SUFFICES ASSUME NEW n \in B
                 PROVE  g[<<2*x[1] + 1, n.path>>] * g[<<2*x[1] + 2, n.path>>] \in Int
        OBVIOUS
    <3>1. g[<<2*x[1] + 1, n.path>>] \in Int /\ g[<<2*x[1] + 2, n.path>>] \in Int
          BY <1>1
    <3>2. \A a, b \in Int : a * b \in Int
          OBVIOUS
    <3> QED BY <3>1, <3>2
  <2>3. Counted(g, x) = IF B = {} THEN 1 ELSE Total(w, B)
        BY DEF Counted
  <2> HIDE DEF B, w
  <2>4. Total(w, B) \in Int
        BY <2>1, <2>2, TotalType
  <2> QED BY <2>3, <2>4
<1>3. F \in [P -> [[P -> Int] -> Int]]
      BY <1>2
<1>4. m \in [P -> 0 .. 40] /\ 40 \in Nat
  <2>1. \A x \in P : x[1] \in Nat
        OBVIOUS
  <2>2. \A i \in Nat : (IF i <= 39 THEN 40 - i ELSE 0) \in 0 .. 40
        OBVIOUS
  <2> HIDE DEF P
  <2> QED BY <2>1, <2>2
<1>5. ASSUME NEW x \in P, NEW g, NEW h,
             \A y \in P : m[y] < m[x] => g[y] = h[y]
      PROVE  Counted(g, x) = Counted(h, x)
  <2>1. \A n \in Below(x[1], x[2]) :
           /\ g[<<2*x[1] + 1, n.path>>] = h[<<2*x[1] + 1, n.path>>]
           /\ g[<<2*x[1] + 2, n.path>>] = h[<<2*x[1] + 2, n.path>>]
    <3> HIDE DEF m, P
    <3> QED BY <1>1, <1>5
  <2>2. [n \in Below(x[1], x[2]) |->
                   g[<<2*x[1] + 1, n.path>>] * g[<<2*x[1] + 2, n.path>>]] =
        [n \in Below(x[1], x[2]) |->
                   h[<<2*x[1] + 1, n.path>>] * h[<<2*x[1] + 2, n.path>>]]
        BY <2>1
  <2> QED BY <2>2 DEF Counted
<1>6. Causal(P, Int, m, F)
  <2> SUFFICES ASSUME NEW x \in P, NEW g \in [P -> Int], NEW h \in [P -> Int],
                      \A y \in P : m[y] < m[x] => g[y] = h[y]
               PROVE  F[x][g] = F[x][h]
      BY DEF Causal
  <2>1. Counted(g, x) = Counted(h, x)
    <3> HIDE DEF P, m
    <3> QED BY <1>5
  <2> QED BY <2>1
<1>7. PICK g \in [P -> Int] : SolvesAll(P, F, g)
  <2>1. Int # {}
        OBVIOUS
  <2> HIDE DEF F, m, P
  <2> QED BY <1>3, <1>4, <1>6, <2>1, RecursionExists
<1>8. \A x \in P : g[x] = Counted(g, x)
      BY <1>7 DEF SolvesAll
<1>9. ASSUME NEW d, NEW x
      PROVE  MapThenSumSet(
                LAMBDA n : d[<<2*x[1] + 1, n.path>>] * d[<<2*x[1] + 2, n.path>>],
                Below(x[1], x[2])) =
             Total([n \in Below(x[1], x[2]) |->
                   d[<<2*x[1] + 1, n.path>>] * d[<<2*x[1] + 2, n.path>>]],
                   Below(x[1], x[2]))
  <2> DEFINE B == Below(x[1], x[2])
             e(n) == d[<<2*x[1] + 1, n.path>>] * d[<<2*x[1] + 2, n.path>>]
             w == [n \in B |-> e(n)]
             Iter(f) == f = [s \in SUBSET B |->
                             IF s = {} THEN 0 ELSE e(Chosen(s)) + f[s \ {Chosen(s)}]]
  <2> HIDE DEF B, e
  <2>1. \A s \in SUBSET B : s # {} => w[Chosen(s)] = e(Chosen(s))
    <3>1. \A s \in SUBSET B : s # {} => Chosen(s) \in s
          BY DEF Chosen
    <3> QED BY <3>1
  <2> HIDE DEF w
  <2>2. \A h : Sums(w, B, h) <=> Iter(h)
        BY <2>1 DEF Sums
  <2>3. MapThenSumSet(LAMBDA n : d[<<2*x[1] + 1, n.path>>] * d[<<2*x[1] + 2, n.path>>], B)
           = (CHOOSE h : Iter(h))[B]
        BY DEF MapThenSumSet, MapThenFoldSet, Chosen, e
  <2> HIDE DEF Iter
  <2>4. (CHOOSE h : Iter(h)) = (CHOOSE h : Sums(w, B, h))
        BY <2>2
  <2>5. Total(w, B) = (CHOOSE h : Iter(h))[B]
        BY <2>4 DEF Total
  <2> QED BY <2>3, <2>5 DEF w, B, e
<1>10. \A d : Is(d) <=> d = [x \in P |-> Counted(d, x)]
  <2> TAKE d
  <2>1. \A x : Counted(d, x) =
           IF Below(x[1], x[2]) = {} THEN 1
           ELSE MapThenSumSet(
                   LAMBDA n : d[<<2*x[1] + 1, n.path>>] * d[<<2*x[1] + 2, n.path>>],
                   Below(x[1], x[2]))
        BY <1>9 DEF Counted
  <2> QED BY <2>1
<1> HIDE DEF F
<1>11. Is(c)
  <2> HIDE DEF Is
  <2>1. Is(g)
    <3> HIDE DEF P
    <3> QED BY <1>7, <1>8, <1>10
  <2> QED BY <2>1
<1>12. \A i \in Nat, p \in Seq(Values) : Count(i, p) = c[<<i, p>>]
       BY DEF Count
<1> HIDE DEF c
<1>13. c = [x \in P |-> Counted(c, x)]
  <2> HIDE DEF Is
  <2> QED BY <1>10, <1>11
<1> HIDE DEF Is
<1>14. \A x \in P : c[x] = Counted(c, x)
       BY <1>13
<1> DEFINE X == {x \in P : c[x] = g[x]}
<1>15. P \subseteq X
  <2> HIDE DEF P, m
  <2>1. Inherited(P, m, X)
    <3> SUFFICES ASSUME NEW x \in P, \A y \in P : m[y] < m[x] => y \in X PROVE x \in X
        BY DEF Inherited
    <3>1. \A y \in P : m[y] < m[x] => c[y] = g[y]
          OBVIOUS
    <3>2. Counted(c, x) = Counted(g, x)
          BY <1>5, <3>1
    <3> QED BY <1>8, <1>14, <3>2
  <2> HIDE DEF X
  <2> QED BY <1>4, <2>1, MeasureInduction
<1>16. c \in [P -> Int]
  <2>1. \A x \in P : c[x] \in Int
        BY <1>15
  <2> HIDE DEF P
  <2> QED BY <1>13, <2>1
<1> QED BY <1>12, <1>14, <1>16

LEMMA CountEmpty ==
    ASSUME CoverAssumption, Arranged, NEW i \in Nat, NEW p \in Seq(Values), Below(i, p) = {}
    PROVE  Count(i, p) = 1
<1>1. PICK c : /\ \A x \in Nat \X Seq(Values) : c[x] = Counted(c, x)
               /\ \A j \in Nat, q \in Seq(Values) : Count(j, q) = c[<<j, q>>]
      BY CountIs
<1>2. <<i, p>> \in Nat \X Seq(Values) /\ <<i, p>>[1] = i /\ <<i, p>>[2] = p
      OBVIOUS
<1>3. Counted(c, <<i, p>>) = 1
      BY <1>2 DEF Counted
<1> QED BY <1>1, <1>2, <1>3

LEMMA CountInner ==
    ASSUME CoverAssumption, Arranged, NEW i \in Nat, NEW p \in Seq(Values), Below(i, p) # {},
           NEW h, \A n \in Below(i, p) : h[n] = Count(2*i + 1, n.path) * Count(2*i + 2, n.path)
    PROVE  Count(i, p) = Total(h, Below(i, p))
<1>1. PICK c : /\ \A x \in Nat \X Seq(Values) : c[x] = Counted(c, x)
               /\ \A j \in Nat, q \in Seq(Values) : Count(j, q) = c[<<j, q>>]
      BY CountIs
<1>2. <<i, p>> \in Nat \X Seq(Values) /\ <<i, p>>[1] = i /\ <<i, p>>[2] = p
      OBVIOUS
<1> DEFINE w == [n \in Below(i, p) |-> c[<<2*i + 1, n.path>>] * c[<<2*i + 2, n.path>>]]
<1>3. Counted(c, <<i, p>>) = Total(w, Below(i, p))
      BY <1>2 DEF Counted
<1>4. \A n \in Below(i, p) : h[n] = w[n]
  <2> SUFFICES ASSUME NEW n \in Below(i, p) PROVE h[n] = w[n]
      OBVIOUS
  <2>1. n.path \in Seq(Values) /\ 2*i + 1 \in Nat /\ 2*i + 2 \in Nat
        BY BelowTyped
  <2>2. /\ Count(2*i + 1, n.path) = c[<<2*i + 1, n.path>>]
        /\ Count(2*i + 2, n.path) = c[<<2*i + 2, n.path>>]
        BY <1>1, <2>1
  <2> QED BY <2>2
<1> HIDE DEF w
<1>5. Total(h, Below(i, p)) = Total(w, Below(i, p))
      BY <1>4, TotalSame
<1> QED BY <1>1, <1>2, <1>3, <1>5

\* C, D and F have nothing below them.
LEMMA CountLeaf ==
    ASSUME CoverAssumption, Arranged, NEW i \in {7, 8, 9}, NEW p \in Seq(Values),
           Below(i, p) # {}
    PROVE  Count(i, p) = Cardinality(Below(i, p))
<1> DEFINE h == [n \in Below(i, p) |-> 1]
<1>1. i \in Nat /\ 2*i + 1 \in Nat /\ 2*i + 2 \in Nat
      /\ 2*i + 1 \notin {1, 3, 4, 7, 8, 9} /\ 2*i + 2 \notin {1, 3, 4, 7, 8, 9}
      OBVIOUS
<1>2. ASSUME NEW n \in Below(i, p)
      PROVE  h[n] = Count(2*i + 1, n.path) * Count(2*i + 2, n.path)
  <2>1. n.path \in Seq(Values)
        BY BelowTyped
  <2>2. Below(2*i + 1, n.path) = {} /\ Below(2*i + 2, n.path) = {}
        BY <1>1, NoneBelow
  <2>3. Count(2*i + 1, n.path) = 1 /\ Count(2*i + 2, n.path) = 1
    <3> DEFINE j == 2*i + 1
               k == 2*i + 2
    <3> HIDE DEF j, k
    <3>1. j \in Nat /\ k \in Nat /\ Below(j, n.path) = {} /\ Below(k, n.path) = {}
          BY <1>1, <2>2 DEF j, k
    <3>2. Count(j, n.path) = 1
          BY <2>1, <3>1, CountEmpty
    <3>3. Count(k, n.path) = 1
          BY <2>1, <3>1, CountEmpty
    <3> QED BY <3>2, <3>3 DEF j, k
  <2> QED BY <2>3
<1>3. IsFiniteSet(Below(i, p)) /\ \A n \in Below(i, p) : h[n] = 1
      BY BelowTyped
<1> HIDE DEF h
<1>4. Count(i, p) = Total(h, Below(i, p))
      BY <1>1, <1>2, CountInner
<1> QED BY <1>3, <1>4, TotalCard

\* The nodes below a way are as many as the values there.
LEMMA NodesCounted ==
    ASSUME NEW i, NEW x, NEW y, NEW S, IsFiniteSet(S)
    PROVE  /\ IsFiniteSet(Leaves(i, x, y, S))
           /\ Cardinality(Leaves(i, x, y, S)) = Cardinality(S)
           /\ S # {} => Leaves(i, x, y, S) # {}
<1> DEFINE N == {At(i, <<x, y, v>>) : v \in S}
           f == [v \in S |-> At(i, <<x, y, v>>)]
<1>1. \A v, w : At(i, <<x, y, v>>) = At(i, <<x, y, w>>) => v = w
  <2> SUFFICES ASSUME NEW v, NEW w, At(i, <<x, y, v>>) = At(i, <<x, y, w>>) PROVE v = w
      OBVIOUS
  <2>1. At(i, <<x, y, v>>).path = At(i, <<x, y, w>>).path
        OBVIOUS
  <2>2. <<x, y, v>> = <<x, y, w>>
        BY <2>1 DEF At
  <2> QED BY <2>2
<1>2. f \in Bijection(S, N)
      BY <1>1 DEF Bijection, Injection, Surjection, IsInjective
<1> HIDE DEF f, N
<1>3. IsFiniteSet(N) /\ Cardinality(N) = Cardinality(S)
      BY <1>2, SameNumber
<1>4. S # {} => N # {}
      BY DEF N
<1> QED BY <1>3, <1>4 DEF N, Leaves

LEMMA ThirdCounts ==
    ASSUME CoverAssumption, Arranged, NEW x \in Values, NEW y \in Values
    PROVE  /\ Cs(x, y) # {} => Count(7, <<x, y>>) = Cardinality(Cs(x, y))
           /\ Ds(x, y) # {} => Count(8, <<x, y>>) = Cardinality(Ds(x, y))
           /\ Fs(x, y) # {} => Count(9, <<x, y>>) = Cardinality(Fs(x, y))
<1> DEFINE p == <<x, y>>
<1>1. p \in Seq(Values)
      OBVIOUS
<1>2. /\ Below(7, p) = Leaves(7, x, y, Cs(x, y))
      /\ Below(8, p) = Leaves(8, x, y, Ds(x, y))
      /\ Below(9, p) = Leaves(9, x, y, Fs(x, y))
      BY ThirdLevel
<1>3. IsFiniteSet(Cs(x, y)) /\ IsFiniteSet(Ds(x, y)) /\ IsFiniteSet(Fs(x, y))
      BY LevelsTyped
<1> HIDE DEF p
<1>4. ASSUME Cs(x, y) # {} PROVE Count(7, p) = Cardinality(Cs(x, y))
  <2>1. Cardinality(Below(7, p)) = Cardinality(Cs(x, y)) /\ Below(7, p) # {}
        BY <1>2, <1>3, <1>4, NodesCounted
  <2> QED BY <1>1, <2>1, CountLeaf
<1>5. ASSUME Ds(x, y) # {} PROVE Count(8, p) = Cardinality(Ds(x, y))
  <2>1. Cardinality(Below(8, p)) = Cardinality(Ds(x, y)) /\ Below(8, p) # {}
        BY <1>2, <1>3, <1>5, NodesCounted
  <2> QED BY <1>1, <2>1, CountLeaf
<1>6. ASSUME Fs(x, y) # {} PROVE Count(9, p) = Cardinality(Fs(x, y))
  <2>1. Cardinality(Below(9, p)) = Cardinality(Fs(x, y)) /\ Below(9, p) # {}
        BY <1>2, <1>3, <1>6, NodesCounted
  <2> QED BY <1>1, <2>1, CountLeaf
<1> QED BY <1>4, <1>5, <1>6 DEF p

\* The values of B, C, D, and of E and F, that hang below a value of A.
UnderB(x) == {v \in Values \X Values \X Values :
                 v[1] \in Bs(x) /\ v[2] \in Cs(x, v[1]) /\ v[3] \in Ds(x, v[1])}
UnderE(x) == {v \in Values \X Values : v[1] \in Es(x) /\ v[2] \in Fs(x, v[1])}

LEMMA LevelsFilled ==
    ASSUME CoverAssumption, Arranged
    PROVE  /\ (As # {} <=> Entered # {})
           /\ \A x \in As : Bs(x) # {} /\ Es(x) # {}
           /\ \A x, y : y \in Bs(x) => Cs(x, y) # {} /\ Ds(x, y) # {}
           /\ \A x, z : z \in Es(x) => Fs(x, z) # {}
<1>1. As # {} <=> Entered # {}
      BY DEF As
<1>2. \A x \in As : Bs(x) # {} /\ Es(x) # {}
      BY DEF As, Bs, Es
<1>3. \A x, y : y \in Bs(x) => Cs(x, y) # {} /\ Ds(x, y) # {}
      BY DEF Bs, Cs, Ds
<1>4. \A x, z : z \in Es(x) => Fs(x, z) # {}
      BY DEF Es, Fs
<1> QED BY <1>1, <1>2, <1>3, <1>4

LEMMA UnderFinite ==
    ASSUME CoverAssumption, Arranged, NEW x
    PROVE  IsFiniteSet(UnderB(x)) /\ IsFiniteSet(UnderE(x))
<1> DEFINE P == Values \X Values
           Q == {<<v, w>> : v \in Values, w \in P}
<1>1. IsFiniteSet(Values)
      BY EnteredAre
<1>2. IsFiniteSet(P)
      BY <1>1, FS_Product
<1>3. IsFiniteSet(Values \X P)
      BY <1>1, <1>2, FS_Product
<1>4. IsFiniteSet(UnderE(x))
      BY <1>2, FS_Subset DEF UnderE
<1>5. IsFiniteSet(UnderB(x))
  <2> DEFINE f == [v \in UnderB(x) |-> <<v[1], <<v[2], v[3]>>>>]
  <2>1. f \in [UnderB(x) -> Values \X P]
        BY DEF UnderB
  <2>2. \A v, w \in UnderB(x) : f[v] = f[w] => v = w
        BY DEF UnderB
  <2> HIDE DEF f
  <2>3. f \in Injection(UnderB(x), Values \X P)
        BY <2>1, <2>2 DEF Injection, IsInjective
  <2> QED BY <1>3, <2>3, FS_Injection
<1> QED BY <1>4, <1>5

LEMMA AtIs == \A i, j, p, q : At(i, p) = At(j, q) => i = j /\ p = q
<1> SUFFICES ASSUME NEW i, NEW j, NEW p, NEW q, At(i, p) = At(j, q) PROVE i = j /\ p = q
    OBVIOUS
<1>1. At(i, p).pos = At(j, q).pos /\ At(i, p).path = At(j, q).path
      OBVIOUS
<1> QED BY <1>1 DEF At

LEMMA BranchB ==
    ASSUME CoverAssumption, Arranged, NEW x \in As
    PROVE  Count(3, <<x>>) = Cardinality(UnderB(x))
<1> DEFINE T == UnderB(x)
           S == Below(3, <<x>>)
           k == [v \in T |-> At(3, <<x, v[1]>>)]
           h == [n \in S |-> Count(7, n.path) * Count(8, n.path)]
<1>1. S = {At(3, <<x, y>>) : y \in Bs(x)} /\ S # {}
  <2>1. S = {At(3, <<x, y>>) : y \in Bs(x)}
        BY SecondLevel
  <2>2. Bs(x) # {}
        BY LevelsFilled
  <2> HIDE DEF S
  <2> QED BY <2>1, <2>2
<1>2. <<x>> \in Seq(Values) /\ x \in Values
      BY LevelsTyped
<1>3. Count(3, <<x>>) = Total(h, S)
  <2>1. 3 \in Nat /\ 2*3 + 1 = 7 /\ 2*3 + 2 = 8
        OBVIOUS
  <2>2. \A n \in Below(3, <<x>>) : h[n] = Count(2*3 + 1, n.path) * Count(2*3 + 2, n.path)
        BY <2>1
  <2> HIDE DEF h
  <2> QED BY <1>1, <1>2, <2>1, <2>2, CountInner
<1>4. IsFiniteSet(T) /\ IsFiniteSet(S)
      BY UnderFinite, BelowTyped
<1>5. k \in [T -> S]
      BY <1>1 DEF UnderB
<1>6. ASSUME NEW n \in S PROVE h[n] = Cardinality({v \in T : k[v] = n})
  <2>1. PICK y \in Bs(x) : n = At(3, <<x, y>>)
        BY <1>1
  <2> DEFINE C == Cs(x, y)
             D == Ds(x, y)
             A == {v \in T : v[1] = y}
             f == [cd \in C \X D |-> <<y, cd[1], cd[2]>>]
  <2>2. y \in Values /\ C \subseteq Values /\ D \subseteq Values
        /\ IsFiniteSet(C) /\ IsFiniteSet(D)
        BY LevelsTyped
  <2>3. h[n] = Cardinality(C) * Cardinality(D)
    <3>1. n.path = <<x, y>>
          BY <2>1 DEF At
    <3>2. Count(7, <<x, y>>) = Cardinality(C) /\ Count(8, <<x, y>>) = Cardinality(D)
          BY <1>2, <2>2, ThirdCounts, LevelsFilled
    <3> QED BY <3>1, <3>2
  <2>4. {v \in T : k[v] = n} = A
    <3>1. \A y1, y2 : At(3, <<x, y1>>) = At(3, <<x, y2>>) => y1 = y2
      <4> SUFFICES ASSUME NEW y1, NEW y2, At(3, <<x, y1>>) = At(3, <<x, y2>>) PROVE y1 = y2
          OBVIOUS
      <4>1. <<x, y1>> = <<x, y2>>
            BY AtIs
      <4> QED BY <4>1
    <3> QED BY <2>1, <3>1
  <2>5. f \in Bijection(C \X D, A)
    <3>1. f \in [C \X D -> A]
          BY <2>2 DEF UnderB
    <3>2. \A v, w \in C \X D : f[v] = f[w] => v = w
          OBVIOUS
    <3>3. ASSUME NEW v \in A PROVE \E w \in C \X D : f[w] = v
      <4>1. v = <<y, v[2], v[3]>> /\ v[2] \in C /\ v[3] \in D
            BY DEF UnderB
      <4> DEFINE w == <<v[2], v[3]>>
      <4>2. w \in C \X D /\ f[w] = v
            BY <4>1
      <4> QED BY <4>2
    <3> HIDE DEF f, A, C, D
    <3> QED BY <3>1, <3>2, <3>3 DEF Bijection, Injection, Surjection, IsInjective
  <2> HIDE DEF f, A, C, D, h, k
  <2>6. IsFiniteSet(C \X D) /\ Cardinality(C \X D) = Cardinality(C) * Cardinality(D)
        BY <2>2, FS_Product
  <2>7. Cardinality(A) = Cardinality(C \X D)
        BY <2>5, <2>6, SameNumber
  <2> QED BY <2>3, <2>4, <2>6, <2>7
<1> HIDE DEF h, k, S, T
<1>7. Total(h, S) = Cardinality(T)
      BY <1>4, <1>5, <1>6, CountFibred
<1> QED BY <1>3, <1>7 DEF T

LEMMA BranchE ==
    ASSUME CoverAssumption, Arranged, NEW x \in As
    PROVE  Count(4, <<x>>) = Cardinality(UnderE(x))
<1> DEFINE T == UnderE(x)
           S == Below(4, <<x>>)
           k == [v \in T |-> At(4, <<x, v[1]>>)]
           h == [n \in S |-> Count(9, n.path) * Count(10, n.path)]
<1>1. S = {At(4, <<x, z>>) : z \in Es(x)} /\ S # {}
  <2>1. S = {At(4, <<x, z>>) : z \in Es(x)}
        BY SecondLevel
  <2>2. Es(x) # {}
        BY LevelsFilled
  <2> HIDE DEF S
  <2> QED BY <2>1, <2>2
<1>2. <<x>> \in Seq(Values) /\ x \in Values
      BY LevelsTyped
<1>3. Count(4, <<x>>) = Total(h, S)
  <2>1. 4 \in Nat /\ 2*4 + 1 = 9 /\ 2*4 + 2 = 10
        OBVIOUS
  <2>2. \A n \in Below(4, <<x>>) : h[n] = Count(2*4 + 1, n.path) * Count(2*4 + 2, n.path)
        BY <2>1
  <2> HIDE DEF h
  <2> QED BY <1>1, <1>2, <2>1, <2>2, CountInner
<1>4. IsFiniteSet(T) /\ IsFiniteSet(S)
      BY UnderFinite, BelowTyped
<1>5. k \in [T -> S]
      BY <1>1 DEF UnderE
<1>6. ASSUME NEW n \in S PROVE h[n] = Cardinality({v \in T : k[v] = n})
  <2>1. PICK z \in Es(x) : n = At(4, <<x, z>>)
        BY <1>1
  <2> DEFINE F == Fs(x, z)
             A == {v \in T : v[1] = z}
             f == [v \in F |-> <<z, v>>]
  <2>2. z \in Values /\ F \subseteq Values /\ IsFiniteSet(F)
        BY LevelsTyped
  <2>3. h[n] = Cardinality(F)
    <3>1. n.path = <<x, z>> /\ <<x, z>> \in Seq(Values)
          BY <1>2, <2>1, <2>2 DEF At
    <3>2. Count(9, <<x, z>>) = Cardinality(F)
          BY <1>2, <2>2, ThirdCounts, LevelsFilled
    <3>3. Below(10, <<x, z>>) = {} /\ 10 \in Nat
          BY NoneBelow
    <3>4. Count(10, <<x, z>>) = 1
          BY <3>1, <3>3, CountEmpty
    <3>5. Cardinality(F) \in Nat
          BY <2>2, FS_CardinalityType
    <3> QED BY <3>1, <3>2, <3>4, <3>5
  <2>4. {v \in T : k[v] = n} = A
    <3>1. \A z1, z2 : At(4, <<x, z1>>) = At(4, <<x, z2>>) => z1 = z2
      <4> SUFFICES ASSUME NEW z1, NEW z2, At(4, <<x, z1>>) = At(4, <<x, z2>>) PROVE z1 = z2
          OBVIOUS
      <4>1. <<x, z1>> = <<x, z2>>
            BY AtIs
      <4> QED BY <4>1
    <3> QED BY <2>1, <3>1
  <2>5. f \in Bijection(F, A)
    <3>1. f \in [F -> A]
          BY <2>2 DEF UnderE
    <3>2. \A v, w \in F : f[v] = f[w] => v = w
          OBVIOUS
    <3>3. ASSUME NEW v \in A PROVE \E w \in F : f[w] = v
      <4>1. v = <<z, v[2]>> /\ v[2] \in F
            BY DEF UnderE
      <4> QED BY <4>1
    <3> HIDE DEF f, A, F
    <3> QED BY <3>1, <3>2, <3>3 DEF Bijection, Injection, Surjection, IsInjective
  <2> HIDE DEF f, A, F, h, k
  <2>6. Cardinality(A) = Cardinality(F)
        BY <2>2, <2>5, SameNumber
  <2> QED BY <2>3, <2>4, <2>6
<1> HIDE DEF h, k, S, T
<1>7. Total(h, S) = Cardinality(T)
      BY <1>4, <1>5, <1>6, CountFibred
<1> QED BY <1>3, <1>7 DEF T

\* A tuple from a value of A and what hangs below it.
Whole(x, v, w) == [a \in Attributes |->
    CASE a = 1 -> x [] a = 2 -> v[1] [] a = 3 -> v[2] [] a = 4 -> v[3]
      [] a = 5 -> w[1] [] OTHER -> w[2]]

LEMMA WholeIs ==
    ASSUME CoverAssumption, Arranged, NEW x \in As, NEW v \in UnderB(x), NEW w \in UnderE(x)
    PROVE  /\ Whole(x, v, w) \in Represented
           /\ Whole(x, v, w)[1] = x /\ Whole(x, v, w)[2] = v[1] /\ Whole(x, v, w)[3] = v[2]
           /\ Whole(x, v, w)[4] = v[3] /\ Whole(x, v, w)[5] = w[1] /\ Whole(x, v, w)[6] = w[2]
<1> DEFINE t == Whole(x, v, w)
<1>1. Attributes = 1 .. 6
      BY EnteredAre
<1>2. /\ x \in Values /\ v[1] \in Values /\ v[2] \in Values /\ v[3] \in Values
      /\ w[1] \in Values /\ w[2] \in Values
      BY LevelsTyped DEF UnderB, UnderE
<1>3. t[1] = x /\ t[2] = v[1] /\ t[3] = v[2] /\ t[4] = v[3] /\ t[5] = w[1] /\ t[6] = w[2]
      BY <1>1 DEF Whole
<1>4. t \in [Attributes -> Values]
      BY <1>2 DEF Whole
<1> HIDE DEF t
<1>5. Hangs(t)
      BY <1>3 DEF Hangs, UnderB, UnderE
<1>6. t \in Represented
      BY <1>4, <1>5, RepresentedAre
<1> QED BY <1>3, <1>6 DEF t

LEMMA RepresentedParts ==
    ASSUME CoverAssumption, Arranged, NEW t \in Represented
    PROVE  /\ t \in [1 .. 6 -> Values] /\ t[1] \in As
           /\ <<t[2], t[3], t[4]>> \in UnderB(t[1]) /\ <<t[5], t[6]>> \in UnderE(t[1])
<1>1. t \in [1 .. 6 -> Values] /\ Hangs(t)
      BY RepresentedAre, EnteredAre
<1>2. /\ t[2] \in Values /\ t[3] \in Values /\ t[4] \in Values /\ t[5] \in Values
      /\ t[6] \in Values
      BY <1>1
<1> QED BY <1>1, <1>2 DEF Hangs, UnderB, UnderE

LEMMA RepresentedFinite ==
    ASSUME CoverAssumption, Arranged PROVE IsFiniteSet(Represented)
<1>1. IsFiniteSet(Values) /\ IsFiniteSet(Attributes)
  <2>1. Attributes = 1 .. 6 /\ IsFiniteSet(Values)
        BY EnteredAre
  <2>2. 1 \in Int /\ 6 \in Int
        OBVIOUS
  <2>3. IsFiniteSet(1 .. 6)
        BY <2>2, FS_Interval
  <2> QED BY <2>1, <2>3
<1>2. IsFiniteSet([Attributes -> Values])
      BY <1>1, FiniteMaps
<1> QED BY <1>2, FS_Subset DEF Represented

LEMMA SumOneIs ==
    ASSUME CoverAssumption, Arranged, Entered # {}
    PROVE  SumOne = Cardinality(Represented)
<1> DEFINE T == Represented
           S == Below(1, << >>)
           k == [t \in T |-> At(1, <<t[1]>>)]
           h == [n \in S |-> Count(3, n.path) * Count(4, n.path)]
<1>1. S = {At(1, <<x>>) : x \in As} /\ S # {}
  <2>1. S = {At(1, <<x>>) : x \in As}
        BY FirstLevel
  <2>2. As # {}
        BY LevelsFilled
  <2> HIDE DEF S
  <2> QED BY <2>1, <2>2
<1>2. << >> \in Seq(Values)
      BY EmptySeq
<1>3. Count(1, << >>) = Total(h, S)
  <2>1. 1 \in Nat /\ 2*1 + 1 = 3 /\ 2*1 + 2 = 4
        OBVIOUS
  <2>2. \A n \in Below(1, << >>) : h[n] = Count(2*1 + 1, n.path) * Count(2*1 + 2, n.path)
        BY <2>1
  <2> HIDE DEF h
  <2> QED BY <1>1, <1>2, <2>1, <2>2, CountInner
<1>4. IsFiniteSet(T) /\ IsFiniteSet(S)
      BY RepresentedFinite, BelowTyped
<1>5. k \in [T -> S]
      BY <1>1, RepresentedParts
<1>6. ASSUME NEW n \in S PROVE h[n] = Cardinality({t \in T : k[t] = n})
  <2>1. PICK x \in As : n = At(1, <<x>>)
        BY <1>1
  <2> DEFINE V == UnderB(x)
             W == UnderE(x)
             A == {t \in T : t[1] = x}
             f == [p \in V \X W |-> Whole(x, p[1], p[2])]
  <2>2. IsFiniteSet(V) /\ IsFiniteSet(W)
        BY UnderFinite
  <2>3. h[n] = Cardinality(V) * Cardinality(W)
    <3>1. n.path = <<x>>
          BY <2>1 DEF At
    <3> QED BY <3>1, BranchB, BranchE
  <2>4. {t \in T : k[t] = n} = A
    <3>1. \A x1, x2 : At(1, <<x1>>) = At(1, <<x2>>) => x1 = x2
      <4> SUFFICES ASSUME NEW x1, NEW x2, At(1, <<x1>>) = At(1, <<x2>>) PROVE x1 = x2
          OBVIOUS
      <4>1. <<x1>> = <<x2>>
            BY AtIs
      <4> QED BY <4>1
    <3> QED BY <2>1, <3>1
  <2>5. f \in Bijection(V \X W, A)
    <3>1. f \in [V \X W -> A]
          BY WholeIs
    <3>2. ASSUME NEW p \in V \X W, NEW q \in V \X W, f[p] = f[q] PROVE p = q
      <4>1. p[1] \in V /\ p[2] \in W /\ q[1] \in V /\ q[2] \in W
            OBVIOUS
      <4>2. Whole(x, p[1], p[2]) = Whole(x, q[1], q[2])
            BY <3>2
      <4>3. p[1][1] = q[1][1] /\ p[1][2] = q[1][2] /\ p[1][3] = q[1][3]
            BY <4>1, <4>2, WholeIs
      <4>4. p[2][1] = q[2][1] /\ p[2][2] = q[2][2]
            BY <4>1, <4>2, WholeIs
      <4>5. p[1] = q[1]
            BY <4>1, <4>3 DEF UnderB
      <4>6. p[2] = q[2]
            BY <4>1, <4>4 DEF UnderE
      <4> QED BY <4>5, <4>6
    <3>3. ASSUME NEW t \in A PROVE \E p \in V \X W : f[p] = t
      <4> DEFINE v == <<t[2], t[3], t[4]>>
                 w == <<t[5], t[6]>>
      <4>1. v \in V /\ w \in W /\ t \in [1 .. 6 -> Values] /\ t[1] = x
            BY RepresentedParts
      <4>2. v[1] = t[2] /\ v[2] = t[3] /\ v[3] = t[4] /\ w[1] = t[5] /\ w[2] = t[6]
            OBVIOUS
      <4> HIDE DEF v, w
      <4>3. Whole(x, v, w) = t
        <5> DEFINE s == Whole(x, v, w)
        <5>1. /\ s[1] = x /\ s[2] = v[1] /\ s[3] = v[2] /\ s[4] = v[3] /\ s[5] = w[1]
              /\ s[6] = w[2] /\ s \in Represented
              BY <4>1, WholeIs
        <5> HIDE DEF s
        <5>2. s \in [1 .. 6 -> Values]
              BY <5>1, RepresentedParts
        <5>3. \A a \in 1 .. 6 : s[a] = t[a]
              BY <4>1, <4>2, <5>1
        <5>4. s = t
              BY <4>1, <5>2, <5>3
        <5> QED BY <5>4 DEF s
      <4>4. <<v, w>> \in V \X W /\ f[<<v, w>>] = t
            BY <4>1, <4>3
      <4> QED BY <4>4
    <3> HIDE DEF f, A, V, W
    <3> QED BY <3>1, <3>2, <3>3 DEF Bijection, Injection, Surjection, IsInjective
  <2> HIDE DEF f, A, V, W, h, k, T, S
  <2>6. IsFiniteSet(V \X W) /\ Cardinality(V \X W) = Cardinality(V) * Cardinality(W)
        BY <2>2, FS_Product
  <2>7. Cardinality(A) = Cardinality(V \X W)
        BY <2>5, <2>6, SameNumber
  <2> QED BY <2>3, <2>4, <2>6, <2>7
<1> HIDE DEF h, k, S, T
<1>7. Total(h, S) = Cardinality(T)
      BY <1>4, <1>5, <1>6, CountFibred
<1>8. Count(2, << >>) = 1
  <2>1. Below(2, << >>) = {} /\ 2 \in Nat
        BY NoneBelow
  <2> QED BY <1>2, <2>1, CountEmpty
<1>9. Cardinality(T) \in Nat
      BY <1>4, FS_CardinalityType
<1> QED BY <1>3, <1>7, <1>8, <1>9 DEF T, SumOne

\* What encode has for U is where an order of type 2 or 3 had it.
LetterU == encode[U] \in {0, 1, 3}

LEMMA LetterUStep ==
    ASSUME Schema, DOMAIN encode = Letters, LetterU, [Next]_vars PROVE LetterU'
<1>1. Letters = (1 .. 6) \cup {U} /\ U = 21
      BY DEF Letters, Attributes, Schema, U
<1>2. ASSUME NEW q \in Queries, BuildVariableOrder(q) PROVE LetterU'
  <2>1. /\ DOMAIN order' \subseteq {0, 1, 3}
        /\ encode' = [a \in Letters |->
              IF \E n \in DOMAIN order' \ {0} : order'[n] = a
              THEN CHOOSE n \in DOMAIN order' \ {0} : order'[n] = a ELSE encode[a]]
        BY <1>2 DEF BuildVariableOrder, FirstOrder
  <2>2. encode'[U] = encode[U] \/ encode'[U] \in DOMAIN order' \ {0}
        BY <1>1, <2>1
  <2> QED BY <2>1, <2>2 DEF LetterU
<1>3. CASE InsertAttribute
  <2>1. todo <= 6 => todo # U
        BY <1>1
  <2>2. todo <= 6
        BY <1>3 DEF InsertAttribute, Schema
  <2>3. CASE UNCHANGED encode
        BY <2>3 DEF LetterU
  <2>4. CASE encode' = Encoded(todo, Place(todo))
    <3>1. encode'[U] = encode[U]
          BY <1>1, <2>1, <2>2, <2>4 DEF Encoded
    <3> QED BY <3>1 DEF LetterU
  <2> QED BY <1>3, <2>3, <2>4 DEF InsertAttribute
<1>4. CASE UNCHANGED encode
      BY <1>4 DEF LetterU
<1> QED BY <1>2, <1>3, <1>4 DEF Next, vars, StandardDB, ReadCover, NoCover, EnterTuple, Answer

LEMMA ArrangedIf ==
    ASSUME Schema, OrderInv, EnteringInv, LetterU, type \in {1, 4}, phase = "build"
    PROVE  Arranged
BY OrderFitsA DEF Arranged, OrderInv, EnteringInv, LetterU

LEMMA Arranging == Schema /\ Spec => [](LetterU /\ OrderInv /\ EnteringInv)
<1>1. ASSUME Init PROVE LetterU
      BY <1>1 DEF Init, LetterU, Letters
<1>2. ASSUME Schema, OrderInv, LetterU, [Next]_vars PROVE LetterU'
      BY <1>2, LetterUStep DEF OrderInv
<1>3. Schema => Schema'
      BY DEF Schema
<1> QED BY <1>1, <1>2, <1>3, Ordering, PTL DEF Spec

\* For every cover and any values, SUM(1), which multiplies the counts of the
\* branches and adds those of the nodes, is the number of tuples that the
\* factorised database stands for (CoverDB.cpp:699).
THEOREM CountHolds == Schema /\ Spec => []CountIsExact
<1>1. CoverAssumption
      BY CoverAssumption
<1>2. ASSUME Schema, LetterU, OrderInv, EnteringInv PROVE CountIsExact
  <2> SUFFICES ASSUME type = 1, phase = "build", Entered # {}
               PROVE  SumOne = Cardinality(Represented)
      BY DEF CountIsExact
  <2>1. Arranged
        BY <1>2, ArrangedIf
  <2> QED BY <1>1, <2>1, SumOneIs
<1>3. Schema => []Schema
  <2>1. Schema => Schema'
        BY DEF Schema
  <2> QED BY <2>1, PTL
<1> QED BY <1>2, <1>3, Arranging, PTL

-----------------------------------------------------------------------------
(* The sums of F by C and D *)

\* The sum of the F below a node of E.
FBelow(e) == MapThenSumSet(LAMBDA f : Last(f.path), Below(2*e.pos + 1, e.path))

LEMMA LastSum ==
    ASSUME NEW B
    PROVE  MapThenSumSet(LAMBDA f : Last(f.path), B) = Total([f \in B |-> Last(f.path)], B)
<1> DEFINE w == [f \in B |-> Last(f.path)]
           Iter(g) == g = [s \in SUBSET B |->
                             IF s = {} THEN 0 ELSE Last(Chosen(s).path) + g[s \ {Chosen(s)}]]
<1>1. \A s \in SUBSET B : s # {} => w[Chosen(s)] = Last(Chosen(s).path)
  <2>1. \A s \in SUBSET B : s # {} => Chosen(s) \in s
        BY DEF Chosen
  <2> QED BY <2>1
<1> HIDE DEF w
<1>2. \A h : Sums(w, B, h) <=> Iter(h)
      BY <1>1 DEF Sums
<1>3. MapThenSumSet(LAMBDA f : Last(f.path), B) = (CHOOSE h : Iter(h))[B]
      BY DEF MapThenSumSet, MapThenFoldSet, Chosen
<1> HIDE DEF Iter
<1>4. (CHOOSE h : Iter(h)) = (CHOOSE h : Sums(w, B, h))
      BY <1>2
<1> QED BY <1>3, <1>4 DEF Total, w

LEMMA FBelowSum ==
    ASSUME NEW B
    PROVE  MapThenSumSet(LAMBDA e : FBelow(e), B) = Total([e \in B |-> FBelow(e)], B)
<1> DEFINE w == [e \in B |-> FBelow(e)]
           Iter(g) == g = [s \in SUBSET B |->
                             IF s = {} THEN 0 ELSE FBelow(Chosen(s)) + g[s \ {Chosen(s)}]]
<1>1. \A s \in SUBSET B : s # {} => w[Chosen(s)] = FBelow(Chosen(s))
  <2>1. \A s \in SUBSET B : s # {} => Chosen(s) \in s
        BY DEF Chosen
  <2> QED BY <2>1
<1> HIDE DEF w
<1>2. \A h : Sums(w, B, h) <=> Iter(h)
      BY <1>1 DEF Sums
<1>3. MapThenSumSet(LAMBDA e : FBelow(e), B) = (CHOOSE h : Iter(h))[B]
      BY DEF MapThenSumSet, MapThenFoldSet, Chosen
<1> HIDE DEF Iter
<1>4. (CHOOSE h : Iter(h)) = (CHOOSE h : Sums(w, B, h))
      BY <1>2
<1> QED BY <1>3, <1>4 DEF Total, w

LEMMA FBelowIs ==
    ASSUME CoverAssumption, Arranged, NEW x \in As, NEW z \in Es(x)
    PROVE  LET A == {v \in UnderE(x) : v[1] = z}
               w == [v \in UnderE(x) |-> v[2]]
           IN  FBelow(At(4, <<x, z>>)) = Total(w, A)
<1> DEFINE F == Fs(x, z)
           A == {v \in UnderE(x) : v[1] = z}
           w == [v \in UnderE(x) |-> v[2]]
           L == Below(9, <<x, z>>)
           h == [f \in L |-> Last(f.path)]
           k == [v \in A |-> At(9, <<x, z, v[2]>>)]
<1>1. FBelow(At(4, <<x, z>>)) = Total(h, L)
  <2>1. 2*4 + 1 = 9
        OBVIOUS
  <2>2. At(4, <<x, z>>).pos = 4 /\ At(4, <<x, z>>).path = <<x, z>>
        BY DEF At
  <2>3. FBelow(At(4, <<x, z>>)) = MapThenSumSet(LAMBDA f : Last(f.path), L)
        BY <2>1, <2>2 DEF FBelow
  <2> HIDE DEF L
  <2> QED BY <2>3, LastSum
<1>2. L = {At(9, <<x, z, v>>) : v \in F}
      BY ThirdLevel DEF Leaves
<1>3. IsFiniteSet(A)
      BY UnderFinite, FS_Subset
<1>4. \A v \in A : w[v] \in Int /\ v[1] = z /\ v[2] \in F /\ w[v] = v[2]
      BY EnteredAre DEF UnderE
<1>5. k \in [A -> L]
      BY <1>2, <1>4
<1>6. \A u, v : At(9, <<x, z, u>>) = At(9, <<x, z, v>>) => u = v
  <2> SUFFICES ASSUME NEW u, NEW v, At(9, <<x, z, u>>) = At(9, <<x, z, v>>) PROVE u = v
      OBVIOUS
  <2>1. <<x, z, u>> = <<x, z, v>>
        BY AtIs
  <2> QED BY <2>1
<1>7. \A u, v \in A : k[u] = k[v] => u = v
  <2>1. \A u, v \in A : k[u] = k[v] => u[2] = v[2]
        BY <1>6
  <2>2. \A u, v \in A : u[1] = v[1] /\ u[2] = v[2] => u = v
        BY DEF UnderE
  <2> QED BY <1>4, <2>1, <2>2
<1>8. ASSUME NEW f \in L PROVE \E v \in A : k[v] = f
  <2>1. PICK v \in F : f = At(9, <<x, z, v>>)
        BY <1>2
  <2>2. <<z, v>> \in A
        BY LevelsTyped DEF UnderE
  <2>3. k[<<z, v>>] = f
        BY <2>1, <2>2
  <2> QED BY <2>2, <2>3
<1>9. \A v \in A : h[k[v]] = w[v]
  <2> SUFFICES ASSUME NEW v \in A PROVE h[k[v]] = w[v]
      OBVIOUS
  <2>1. k[v] = At(9, <<x, z, v[2]>>) /\ k[v] \in L
        BY <1>5
  <2>2. Last(<<x, z, v[2]>>) = v[2]
        BY ShortWays
  <2>3. h[k[v]] = Last(<<x, z, v[2]>>)
        BY <2>1 DEF At
  <2> QED BY <1>4, <2>2, <2>3
<1> HIDE DEF k, h, w, A, L
<1>10. k \in Bijection(A, L)
       BY <1>5, <1>7, <1>8 DEF Bijection, Injection, Surjection, IsInjective
<1>11. \A v \in A : w[v] \in Int
       BY <1>4
<1>12. Total(h, L) = Total(w, A)
       BY <1>3, <1>9, <1>10, <1>11, TotalRenamed
<1> QED BY <1>1, <1>12 DEF w, A

LEMMA SumFIs ==
    ASSUME CoverAssumption, Arranged, NEW x \in As
    PROVE  SumF(At(1, <<x>>)) = Total([v \in UnderE(x) |-> v[2]], UnderE(x))
<1> DEFINE T == UnderE(x)
           S == Below(4, <<x>>)
           w == [v \in T |-> v[2]]
           h == [e \in S |-> FBelow(e)]
           k == [v \in T |-> At(4, <<x, v[1]>>)]
<1>1. SumF(At(1, <<x>>)) = Total(h, S)
  <2>1. 2*1 + 2 = 4
        OBVIOUS
  <2>2. At(1, <<x>>).pos = 1 /\ At(1, <<x>>).path = <<x>>
        BY DEF At
  <2>3. SumF(At(1, <<x>>)) = MapThenSumSet(LAMBDA e : FBelow(e), S)
        BY <2>1, <2>2 DEF SumF, FBelow
  <2> HIDE DEF S
  <2> QED BY <2>3, FBelowSum
<1>2. S = {At(4, <<x, z>>) : z \in Es(x)}
      BY SecondLevel
<1>3. IsFiniteSet(T) /\ IsFiniteSet(S)
      BY UnderFinite, BelowTyped
<1>4. k \in [T -> S]
      BY <1>2 DEF UnderE
<1>5. \A v \in T : w[v] \in Int
      BY EnteredAre DEF UnderE
<1>6. ASSUME NEW n \in S PROVE h[n] = Total(w, {v \in T : k[v] = n})
  <2>1. PICK z \in Es(x) : n = At(4, <<x, z>>)
        BY <1>2
  <2>2. {v \in T : k[v] = n} = {v \in T : v[1] = z}
    <3>1. \A z1, z2 : At(4, <<x, z1>>) = At(4, <<x, z2>>) => z1 = z2
      <4> SUFFICES ASSUME NEW z1, NEW z2, At(4, <<x, z1>>) = At(4, <<x, z2>>) PROVE z1 = z2
          OBVIOUS
      <4>1. <<x, z1>> = <<x, z2>>
            BY AtIs
      <4> QED BY <4>1
    <3> QED BY <2>1, <3>1
  <2>3. FBelow(n) = Total(w, {v \in T : v[1] = z})
        BY <2>1, FBelowIs
  <2>4. h[n] = FBelow(n)
        OBVIOUS
  <2> QED BY <2>2, <2>3, <2>4
<1> HIDE DEF h, k, w, S, T
<1>7. Total(h, S) = Total(w, T)
  <2>1. Fibred(T, S, k, w, h)
        BY <1>6 DEF Fibred
  <2> QED BY <1>3, <1>4, <1>5, <2>1, TotalFibred
<1> QED BY <1>1, <1>7 DEF w, T

\* GroupByType4 goes through the pairs of a C and a D below one B, and adds for
\* each the sum of F below their A.
Pairs ==
    UNION {Below(7, b.path) \X Below(8, b.path) :
              b \in UNION {Below(3, a.path) : a \in Below(1, << >>)}}
PairKey(cd) == <<Last(cd[1].path), Last(cd[2].path)>>
PairSum(cd) == SumF([pos |-> 1, path |-> <<cd[1].path[1]>>])
PairOf(t)   == <<At(7, <<t[1], t[2], t[3]>>), At(8, <<t[1], t[2], t[4]>>)>>

LEMMA PairIs ==
    ASSUME NEW t
    PROVE  /\ PairKey(PairOf(t)) = <<t[3], t[4]>>
           /\ PairSum(PairOf(t)) = SumF(At(1, <<t[1]>>))
           /\ \A u : PairOf(t) = PairOf(u) <=>
                        t[1] = u[1] /\ t[2] = u[2] /\ t[3] = u[3] /\ t[4] = u[4]
<1>1. /\ PairOf(t)[1].path = <<t[1], t[2], t[3]>> /\ PairOf(t)[2].path = <<t[1], t[2], t[4]>>
      BY DEF PairOf, At
<1>2. Last(<<t[1], t[2], t[3]>>) = t[3]
      BY ShortWays
<1>3. Last(<<t[1], t[2], t[4]>>) = t[4]
      BY ShortWays
<1>4. PairKey(PairOf(t)) = <<t[3], t[4]>>
      BY <1>1, <1>2, <1>3 DEF PairKey
<1>5. PairSum(PairOf(t)) = SumF(At(1, <<t[1]>>))
  <2>1. PairOf(t)[1].path[1] = t[1]
        BY <1>1
  <2> QED BY <2>1 DEF PairSum, At
<1>6. ASSUME NEW u, PairOf(t) = PairOf(u)
      PROVE  t[1] = u[1] /\ t[2] = u[2] /\ t[3] = u[3] /\ t[4] = u[4]
  <2>1. /\ At(7, <<t[1], t[2], t[3]>>) = At(7, <<u[1], u[2], u[3]>>)
        /\ At(8, <<t[1], t[2], t[4]>>) = At(8, <<u[1], u[2], u[4]>>)
        BY <1>6 DEF PairOf
  <2>2. <<t[1], t[2], t[3]>> = <<u[1], u[2], u[3]>>
        BY <2>1, AtIs
  <2>3. <<t[1], t[2], t[4]>> = <<u[1], u[2], u[4]>>
        BY <2>1, AtIs
  <2> QED BY <2>2, <2>3
<1>7. ASSUME NEW u, t[1] = u[1] /\ t[2] = u[2] /\ t[3] = u[3] /\ t[4] = u[4]
      PROVE  PairOf(t) = PairOf(u)
      BY <1>7 DEF PairOf
<1> QED BY <1>4, <1>5, <1>6, <1>7

LEMMA PairsAre ==
    ASSUME CoverAssumption, Arranged
    PROVE  Pairs = {PairOf(t) : t \in Represented}
<1> DEFINE S == {PairOf(t) : t \in Represented}
           Bn == UNION {Below(3, a.path) : a \in Below(1, << >>)}
<1>1. ASSUME NEW cd \in Pairs PROVE cd \in S
  <2>1. PICK b \in Bn : cd \in Below(7, b.path) \X Below(8, b.path)
        BY DEF Pairs
  <2>2. PICK a \in Below(1, << >>) : b \in Below(3, a.path)
        BY <2>1
  <2>3. PICK x \in As : a = At(1, <<x>>)
        BY FirstLevel
  <2>4. a.path = <<x>>
        BY <2>3 DEF At
  <2>5. PICK y \in Bs(x) : b = At(3, <<x, y>>)
        BY <2>2, <2>4, SecondLevel
  <2>6. b.path = <<x, y>>
        BY <2>5 DEF At
  <2>7. cd \in Leaves(7, x, y, Cs(x, y)) \X Leaves(8, x, y, Ds(x, y))
        BY <2>1, <2>6, ThirdLevel
  <2>8. PICK c \in Cs(x, y) : cd[1] = At(7, <<x, y, c>>)
        BY <2>7 DEF Leaves
  <2>9. PICK d \in Ds(x, y) : cd[2] = At(8, <<x, y, d>>)
        BY <2>7 DEF Leaves
  <2>10. PICK z \in Es(x) : TRUE
         BY LevelsFilled
  <2>11. PICK f \in Fs(x, z) : TRUE
         BY LevelsFilled
  <2> DEFINE v == <<y, c, d>>
             w == <<z, f>>
             t == Whole(x, v, w)
  <2>12. /\ x \in Values /\ y \in Values /\ z \in Values /\ c \in Values /\ d \in Values
         /\ f \in Values
         BY LevelsTyped
  <2>13. v \in UnderB(x) /\ w \in UnderE(x) /\ v[1] = y /\ v[2] = c /\ v[3] = d
         BY <2>12 DEF UnderB, UnderE
  <2> HIDE DEF v, w
  <2>14. t \in Represented /\ t[1] = x /\ t[2] = y /\ t[3] = c /\ t[4] = d
         BY <2>13, WholeIs
  <2> HIDE DEF t
  <2>15. PairOf(t) = <<At(7, <<x, y, c>>), At(8, <<x, y, d>>)>>
         BY <2>14 DEF PairOf
  <2>16. cd = <<cd[1], cd[2]>>
         BY <2>7
  <2>17. cd = PairOf(t)
         BY <2>8, <2>9, <2>15, <2>16
  <2> QED BY <2>14, <2>17
<1>2. ASSUME NEW t \in Represented PROVE PairOf(t) \in Pairs
  <2> DEFINE x == t[1]
             y == t[2]
             b == At(3, <<x, y>>)
  <2>1. x \in As /\ y \in Bs(x) /\ t[3] \in Cs(x, y) /\ t[4] \in Ds(x, y)
        BY RepresentedAre DEF Hangs
  <2> HIDE DEF x, y
  <2>2. At(1, <<x>>) \in Below(1, << >>) /\ At(1, <<x>>).path = <<x>>
        BY <2>1, FirstLevel DEF At
  <2>3. b \in Below(3, <<x>>) /\ b.path = <<x, y>>
    <3>1. b.path = <<x, y>>
          BY DEF At
    <3>2. b \in Below(3, <<x>>)
          BY <2>1, SecondLevel
    <3> QED BY <3>1, <3>2
  <2>4. b \in Bn
        BY <2>2, <2>3
  <2>5. At(7, <<x, y, t[3]>>) \in Below(7, <<x, y>>)
    <3>1. Below(7, <<x, y>>) = Leaves(7, x, y, Cs(x, y))
          BY ThirdLevel
    <3>2. At(7, <<x, y, t[3]>>) \in Leaves(7, x, y, Cs(x, y))
          BY <2>1 DEF Leaves
    <3> QED BY <3>1, <3>2
  <2>6. At(8, <<x, y, t[4]>>) \in Below(8, <<x, y>>)
    <3>1. Below(8, <<x, y>>) = Leaves(8, x, y, Ds(x, y))
          BY ThirdLevel
    <3>2. At(8, <<x, y, t[4]>>) \in Leaves(8, x, y, Ds(x, y))
          BY <2>1 DEF Leaves
    <3> QED BY <3>1, <3>2
  <2> HIDE DEF Bn, b
  <2>7. PairOf(t) \in Below(7, b.path) \X Below(8, b.path)
        BY <2>3, <2>5, <2>6 DEF PairOf, x, y
  <2> QED BY <2>4, <2>7 DEF Pairs, Bn
<1> QED BY <1>1, <1>2

LEMMA PairTotal ==
    ASSUME NEW B
    PROVE  MapThenSumSet(LAMBDA cd : PairSum(cd), B) = Total([cd \in B |-> PairSum(cd)], B)
<1> DEFINE w == [cd \in B |-> PairSum(cd)]
           Iter(g) == g = [s \in SUBSET B |->
                             IF s = {} THEN 0 ELSE PairSum(Chosen(s)) + g[s \ {Chosen(s)}]]
<1>1. \A s \in SUBSET B : s # {} => w[Chosen(s)] = PairSum(Chosen(s))
  <2>1. \A s \in SUBSET B : s # {} => Chosen(s) \in s
        BY DEF Chosen
  <2> QED BY <2>1
<1> HIDE DEF w
<1>2. \A h : Sums(w, B, h) <=> Iter(h)
      BY <1>1 DEF Sums
<1>3. MapThenSumSet(LAMBDA cd : PairSum(cd), B) = (CHOOSE h : Iter(h))[B]
      BY DEF MapThenSumSet, MapThenFoldSet, Chosen
<1> HIDE DEF Iter
<1>4. (CHOOSE h : Iter(h)) = (CHOOSE h : Sums(w, B, h))
      BY <1>2
<1> QED BY <1>3, <1>4 DEF Total, w

LEMMA GroupByType4Is ==
    GroupByType4 = [g \in {PairKey(cd) : cd \in Pairs} |->
        Total([cd \in {p \in Pairs : PairKey(p) = g} |-> PairSum(cd)],
              {p \in Pairs : PairKey(p) = g})]
<1>1. GroupByType4 = [g \in {PairKey(cd) : cd \in Pairs} |->
         MapThenSumSet(LAMBDA cd : PairSum(cd), {cd \in Pairs : PairKey(cd) = g})]
      BY DEF GroupByType4, Pairs, PairKey, PairSum
<1> QED BY <1>1, PairTotal

LEMMA RepresentedF ==
    ASSUME CoverAssumption, Arranged PROVE \A t \in Represented : t[6] \in Int
<1>1. ASSUME NEW t \in Represented PROVE t[6] \in Int
  <2>1. t \in [1 .. 6 -> Values]
        BY RepresentedParts
  <2>2. t[6] \in Values
        BY ONLY <2>1
  <2>3. Values \subseteq Int
        BY EnteredAre
  <2> QED BY ONLY <2>2, <2>3
<1> QED BY <1>1

\* The tuples of one pair differ in what they have of E and F.
LEMMA PairFibre ==
    ASSUME CoverAssumption, Arranged, NEW u \in Represented,
           NEW w, \A t \in Represented : w[t] = t[6]
    PROVE  PairSum(PairOf(u)) = Total(w, {t \in Represented : PairOf(t) = PairOf(u)})
<1> DEFINE x == u[1]
           A == {t \in Represented : PairOf(t) = PairOf(u)}
           S == UnderE(x)
           h == [v \in S |-> v[2]]
           k == [t \in A |-> <<t[5], t[6]>>]
<1>1. x \in As
      BY RepresentedParts
<1>2. PairSum(PairOf(u)) = Total(h, S)
      BY <1>1, PairIs, SumFIs
<1>3. \A t \in A : t[1] = x /\ t[2] = u[2] /\ t[3] = u[3] /\ t[4] = u[4]
      BY PairIs
<1>4. k \in [A -> S]
  <2> SUFFICES ASSUME NEW t \in A PROVE <<t[5], t[6]>> \in S
      OBVIOUS
  <2>1. <<t[5], t[6]>> \in UnderE(t[1])
        BY RepresentedParts
  <2> QED BY <1>3, <2>1
<1>5. \A s, t \in A : k[s] = k[t] => s = t
  <2> SUFFICES ASSUME NEW s \in A, NEW t \in A, k[s] = k[t] PROVE s = t
      OBVIOUS
  <2>1. s[5] = t[5] /\ s[6] = t[6]
    <3>1. <<s[5], s[6]>> = <<t[5], t[6]>>
          OBVIOUS
    <3> QED BY <3>1
  <2>2. s[1] = t[1] /\ s[2] = t[2] /\ s[3] = t[3] /\ s[4] = t[4]
        BY <1>3
  <2>3. s \in [1 .. 6 -> Values] /\ t \in [1 .. 6 -> Values]
        BY RepresentedParts
  <2>4. \A a \in 1 .. 6 : s[a] = t[a]
        BY <2>1, <2>2
  <2> QED BY <2>3, <2>4
<1>6. ASSUME NEW e \in S PROVE \E t \in A : k[t] = e
  <2> DEFINE v == <<u[2], u[3], u[4]>>
             t == Whole(x, v, e)
  <2>1. v \in UnderB(x) /\ v[1] = u[2] /\ v[2] = u[3] /\ v[3] = u[4]
        BY RepresentedParts
  <2> HIDE DEF v
  <2>2. /\ t \in Represented /\ t[1] = x /\ t[2] = u[2] /\ t[3] = u[3] /\ t[4] = u[4]
        /\ t[5] = e[1] /\ t[6] = e[2]
        BY <1>1, <2>1, WholeIs
  <2> HIDE DEF t
  <2>3. t \in A
        BY <2>2, PairIs
  <2>4. e = <<e[1], e[2]>>
        BY DEF UnderE
  <2>5. k[t] = <<t[5], t[6]>>
        BY <2>3
  <2> QED BY <2>2, <2>3, <2>4, <2>5
<1>7. \A t \in A : w[t] \in Int /\ h[k[t]] = w[t]
  <2> SUFFICES ASSUME NEW t \in A PROVE w[t] \in Int /\ h[k[t]] = w[t]
      OBVIOUS
  <2>2. k[t] \in S /\ k[t] = <<t[5], t[6]>>
        BY <1>4
  <2>3. h[k[t]] = t[6]
        BY <2>2
  <2>4. t[6] \in Int
        BY RepresentedF
  <2>5. w[t] = t[6]
        OBVIOUS
  <2> QED BY <2>3, <2>4, <2>5
<1>8. IsFiniteSet(A)
      BY RepresentedFinite, FS_Subset
<1> HIDE DEF x, A, S, h, k
<1>9. k \in Bijection(A, S)
      BY <1>4, <1>5, <1>6 DEF Bijection, Injection, Surjection, IsInjective
<1>10. Total(h, S) = Total(w, A)
       BY <1>7, <1>8, <1>9, TotalRenamed
<1> QED BY <1>2, <1>10 DEF A

LEMMA GroupsOfPairs ==
    ASSUME CoverAssumption, Arranged, NEW q, q.sum = 6, q.groupBy = <<3, 4>>
    PROVE  GroupByType4 = GroupSums(q, Represented)
<1> DEFINE ts == Represented
           G == {PairKey(cd) : cd \in Pairs}
           Of(g) == {p \in Pairs : PairKey(p) = g}
           w == ColumnF(ts)
<1>1. \A t : Key(q, t) = <<t[3], t[4]>>
      BY DEF Key
<1>2. \A t : PairKey(PairOf(t)) = Key(q, t)
      BY <1>1, PairIs
<1>3. G = {Key(q, t) : t \in ts}
  <2>1. G = {PairKey(PairOf(t)) : t \in ts}
        BY PairsAre
  <2> QED BY <1>2, <2>1
<1>4. \A t \in ts : w[t] = t[6]
      BY DEF ColumnF
<1>5. IsFiniteSet(ts) /\ \A t \in ts : w[t] \in Int
  <2>1. \A t \in ts : t[6] \in Int
        BY RepresentedF
  <2>2. IsFiniteSet(ts)
        BY RepresentedFinite
  <2> HIDE DEF w, ts
  <2> QED BY <1>4, <2>1, <2>2
<1>6. ASSUME NEW g
      PROVE  Total([cd \in Of(g) |-> PairSum(cd)], Of(g)) = SumOf(q, ts, ts, g)
  <2> DEFINE T == {t \in ts : Key(q, t) = g}
             S == Of(g)
             k == [t \in T |-> PairOf(t)]
             h == [cd \in S |-> PairSum(cd)]
  <2>1. S = {PairOf(t) : t \in T}
    <3>1. ASSUME NEW cd \in S PROVE cd \in {PairOf(t) : t \in T}
      <4>1. cd \in Pairs /\ PairKey(cd) = g
            OBVIOUS
      <4>2. PICK t \in ts : cd = PairOf(t)
            BY <4>1, PairsAre
      <4> QED BY <1>2, <4>1, <4>2
    <3>2. ASSUME NEW t \in T PROVE PairOf(t) \in S
          BY <1>2, PairsAre
    <3> HIDE DEF S, T
    <3> QED BY <3>1, <3>2
  <2>2. IsFiniteSet(T)
        BY <1>5, FS_Subset
  <2>3. \A t \in T : t \in ts /\ w[t] \in Int
        BY <1>5
  <2>4. k \in [T -> S] /\ k \in Surjection(T, S)
    <3> HIDE DEF S, T
    <3>1. k \in [T -> S]
          BY <2>1
    <3>2. \A cd \in S : \E t \in T : k[t] = cd
          BY <2>1
    <3> HIDE DEF k
    <3> QED BY <3>1, <3>2 DEF Surjection
  <2>5. ASSUME NEW cd \in S PROVE h[cd] = Total(w, {t \in T : k[t] = cd})
    <3>1. PICK u \in T : cd = PairOf(u)
      <4> HIDE DEF S, T
      <4> QED BY <2>1
    <3>2. {t \in T : k[t] = cd} = {t \in ts : PairOf(t) = PairOf(u)}
      <4>1. ASSUME NEW t \in ts, PairOf(t) = PairOf(u) PROVE t \in T
            BY <1>2, <4>1
      <4>2. ASSUME NEW t \in T, k[t] = cd PROVE t \in ts /\ PairOf(t) = PairOf(u)
            BY <3>1, <4>2
      <4>3. ASSUME NEW t \in T, PairOf(t) = PairOf(u) PROVE k[t] = cd
            BY <3>1, <4>3
      <4> HIDE DEF T, k, ts
      <4> QED BY <4>1, <4>2, <4>3
    <3>3. PairSum(PairOf(u)) = Total(w, {t \in ts : PairOf(t) = PairOf(u)})
          BY <1>4, PairFibre
    <3> QED BY <3>1, <3>2, <3>3
  <2> HIDE DEF T, S, k, h, w, ts
  <2>6. IsFiniteSet(S)
        BY <2>2, <2>4, FS_Surjection
  <2>7. Fibred(T, S, k, w, h)
        BY <2>5 DEF Fibred
  <2>8. Total(h, S) = Total(w, T)
        BY <2>2, <2>3, <2>4, <2>6, <2>7, TotalFibred
  <2> QED BY <2>8 DEF SumOf, w, T, S, h
<1>7. GroupByType4 = [g \in G |-> SumOf(q, ts, ts, g)]
      BY <1>6, GroupByType4Is
<1>8. GroupSums(q, ts) = [g \in {Key(q, t) : t \in ts} |-> SumOf(q, ts, ts, g)]
  <2> DEFINE f == GroupSums(q, ts)
             D == {Key(q, t) : t \in ts}
  <2>1. DOMAIN f = D /\ \A t \in ts : f[Key(q, t)] = SumOf(q, ts, ts, Key(q, t))
        BY GroupSumsAre
  <2>2. f = [g \in D |-> f[g]]
    <3>1. f = [g \in D |-> MapThenSumSet(LAMBDA t : t[q.sum], {t \in ts : Key(q, t) = g})]
          BY DEF GroupSums, Key
    <3> HIDE DEF f, D
    <3> QED BY <3>1
  <2>3. \A g \in D : f[g] = SumOf(q, ts, ts, g)
        BY <2>1
  <2> HIDE DEF f
  <2>4. f = [g \in D |-> SumOf(q, ts, ts, g)]
        BY <2>2, <2>3
  <2> QED BY <2>4 DEF f
<1> QED BY <1>3, <1>7, <1>8

\* In a query of type 4 the benchmark groups by C and D.
Type4Inv == type = 4 => query = [sum |-> 6, groupBy |-> <<3, 4>>]

LEMMA Type4Step ==
    ASSUME Schema, Queries \subseteq Benchmark, Type4Inv, [Next]_vars PROVE Type4Inv'
<1>1. ASSUME NEW q \in Queries, StandardDB(q) PROVE Type4Inv'
  <2>1. type' = 0
        BY <1>1 DEF StandardDB
  <2> QED BY <2>1 DEF Type4Inv
<1>2. ASSUME NEW q \in Queries, BuildVariableOrder(q) PROVE Type4Inv'
  <2> DEFINE t == IF QueryType(q) = 3 THEN GroupType(q) ELSE QueryType(q)
  <2>1. type' = t /\ query' = q
        BY <1>2 DEF BuildVariableOrder, Asked
  <2>2. t = 4 => QueryType(q) = 3 /\ GroupType(q) = 4
    <3>1. QueryType(q) \in {1, 2, 3}
          BY DEF QueryType
    <3> HIDE DEF t
    <3> QED BY <3>1 DEF t
  <2>3. q = [sum |-> 6, groupBy |-> <<1, 2>>] => GroupType(q) = 3
    <3> SUFFICES ASSUME q = [sum |-> 6, groupBy |-> <<1, 2>>] PROVE GroupType(q) = 3
        OBVIOUS
    <3>1. q.groupBy = <<1, 2>>
          OBVIOUS
    <3>2. ToSet(q.groupBy) = {1, 2}
          BY <3>1 DEF ToSet
    <3> QED BY <3>2, RelatedIs DEF GroupType
  <2>4. q.groupBy = << >> => QueryType(q) # 3
        BY DEF QueryType
  <2> HIDE DEF t
  <2>5. t = 4 => q = [sum |-> 6, groupBy |-> <<3, 4>>]
        BY <2>2, <2>3, <2>4 DEF Benchmark
  <2> QED BY <2>1, <2>5 DEF Type4Inv
<1>3. CASE UNCHANGED <<type, query>>
      BY <1>3 DEF Type4Inv
<1> QED BY <1>1, <1>2, <1>3 DEF Next, vars, InsertAttribute, ReadCover, NoCover, EnterTuple,
                                Answer

\* For the queries of the benchmark, every cover and any values, GroupByType4
\* finds the sum of F for each C and D of the tuples that the factorised
\* database stands for, and no other group (CoverDB.cpp:814).
THEOREM GroupsHold == Schema /\ Queries \subseteq Benchmark /\ Spec => []GroupsAreExact
<1>1. CoverAssumption
      BY CoverAssumption
<1>2. ASSUME Schema, LetterU, OrderInv, EnteringInv, Type4Inv PROVE GroupsAreExact
  <2> SUFFICES ASSUME type = 4, phase = "build"
               PROVE  GroupByType4 = GroupSums(query, Represented)
      BY DEF GroupsAreExact
  <2>1. Arranged
        BY <1>2, ArrangedIf
  <2>2. query.sum = 6 /\ query.groupBy = <<3, 4>>
        BY <1>2 DEF Type4Inv
  <2> QED BY <1>1, <2>1, <2>2, GroupsOfPairs
<1>3. Schema /\ Queries \subseteq Benchmark => [](Schema /\ Queries \subseteq Benchmark)
  <2>1. Schema /\ Queries \subseteq Benchmark => (Schema /\ Queries \subseteq Benchmark)'
        BY DEF Schema, Benchmark
  <2> QED BY <2>1, PTL
<1>4. ASSUME Init PROVE Type4Inv
      BY <1>4 DEF Init, Type4Inv
<1>5. Schema /\ Queries \subseteq Benchmark /\ Spec => []Type4Inv
      BY <1>3, <1>4, Type4Step, PTL DEF Spec
<1> QED BY <1>2, <1>3, <1>5, Arranging, PTL
=============================================================================
