---------------------------- MODULE Joins_proofs ----------------------------
(***************************************************************************)
(* Proofs about Joins, for relations of any size, a block of any length    *)
(* and any calls that fail: the types, that each of the four functions is  *)
(* the join of JoinResult, and the order of what they find.                *)
(***************************************************************************)
EXTENDS Joins, Indices, TLAPS

-----------------------------------------------------------------------------
(* What InOrder chooses *)

\* The elements of I have different keys, up to N.
Keyed(I, N, key) ==
    (\A x \in I : key[x] \in 0 .. N) /\ (\A x, y \in I : key[x] = key[y] => x = y)

\* Sequence q lists I by its keys.
Lists(q, I, key) ==
    /\ q \in [1 .. Cardinality(I) -> I]
    /\ \A i, j \in 1 .. Cardinality(I) : i < j => key[q[i]] < key[q[j]]

\* A finite set whose elements have different keys can be listed: without an
\* element of the greatest key it can, and that one comes last.
LEMMA CanBeListed ==
    ASSUME NEW I, IsFiniteSet(I), NEW N \in Nat, NEW key, Keyed(I, N, key)
    PROVE  \E q : Lists(q, I, key)
<1> USE DEF Keyed
<1> DEFINE Bad == {n \in Nat : \E H \in SUBSET I : Cardinality(H) = n /\ ~\E q : Lists(q, H, key)}
<1>1. \A H \in SUBSET I : IsFiniteSet(H) /\ Cardinality(H) \in Nat
      BY FS_Subset, FS_CardinalityType
<1>2. CASE Bad = {}
  <2>1. Cardinality(I) \in Nat /\ I \in SUBSET I
        BY <1>1
  <2> QED BY <1>2, <2>1
<1>3. CASE Bad # {}
  <2>1. PICK n \in Bad : \A m \in Bad : n <= m
    <3>1. Bad \in SUBSET Nat
          OBVIOUS
    <3> HIDE DEF Bad
    <3> QED BY <1>3, <3>1, LeastNumber
  <2>2. PICK H \in SUBSET I : Cardinality(H) = n /\ ~\E q : Lists(q, H, key)
        BY <2>1
  <2>3. n \in Nat /\ IsFiniteSet(H)
        BY <1>1, <2>1
  <2>4. CASE H = {}
    <3>1. n = 0
          BY <2>2, <2>4, FS_EmptySet
    <3>2. [i \in 1 .. 0 |-> 0] \in [1 .. 0 -> {}]
          OBVIOUS
    <3>3. Lists([i \in 1 .. 0 |-> 0], H, key)
          BY <2>2, <2>4, <3>1, <3>2 DEF Lists
    <3> QED BY <2>2, <3>3
  <2>5. CASE H # {}
    <3> DEFINE K == {key[x] : x \in H}
    <3>1. K \in SUBSET (0 .. N) /\ K # {}
          BY <2>5
    <3>2. PICK k \in K : \A l \in K : l <= k
          BY <3>1, GreatestNumber
    <3>3. PICK m \in H : key[m] = k
          BY <3>2
    <3>4. \A x \in H \ {m} : key[x] < key[m]
      <4>1. ASSUME NEW x \in H \ {m} PROVE key[x] < key[m]
        <5>1. key[x] <= key[m]
              BY <3>2, <3>3
        <5>2. key[x] # key[m] /\ key[x] \in Nat /\ key[m] \in Nat
              BY <3>3, <4>1
        <5> QED BY <5>1, <5>2
      <4> QED BY <4>1
    <3> DEFINE G == H \ {m}
    <3>5. Cardinality(G) = n - 1 /\ n - 1 \in Nat /\ G \in SUBSET I
      <4>1. Cardinality(G) = n - 1
            BY <2>2, <2>3, <3>3, FS_RemoveElement
      <4> QED BY <1>1, <4>1
    <3>6. PICK q : Lists(q, G, key)
      <4>1. n - 1 \notin Bad
            BY <2>1, <2>3
      <4> HIDE DEF G
      <4> QED BY <3>5, <4>1
    <3> DEFINE p == [i \in 1 .. n |-> IF i = n THEN m ELSE q[i]]
    <3>7. q \in [1 .. n - 1 -> G] /\ \A i, j \in 1 .. n - 1 : i < j => key[q[i]] < key[q[j]]
          BY <3>5, <3>6 DEF Lists
    <3>8. \A i \in 1 .. n : i = n \/ i \in 1 .. n - 1
          BY <2>3
    <3>9. p \in [1 .. n -> H]
          BY <3>3, <3>7, <3>8
    <3>10. ASSUME NEW i \in 1 .. n, NEW j \in 1 .. n, i < j PROVE key[p[i]] < key[p[j]]
      <4>1. i \in 1 .. n - 1
            BY <2>3, <3>10
      <4>2. CASE j = n
            BY <3>4, <3>7, <4>1, <4>2
      <4>3. CASE j # n
            BY <3>7, <3>8, <3>10, <4>1, <4>3
      <4> QED BY <4>2, <4>3
    <3> HIDE DEF p
    <3>11. Lists(p, H, key)
           BY <2>2, <3>9, <3>10 DEF Lists
    <3> QED BY <2>2, <3>11
  <2> QED BY <2>4, <2>5
<1> QED BY <1>2, <1>3

\* Sequence q has every element of I once, and has them by their keys.
Sorted(q, I, key) ==
    /\ Len(q) \in Nat /\ q \in [1 .. Len(q) -> I]
    /\ \A x \in I : \E i \in 1 .. Len(q) : q[i] = x
    /\ \A i, j \in 1 .. Len(q) : i < j => key[q[i]] < key[q[j]]

LEMMA InOrderIs ==
    ASSUME NEW I, IsFiniteSet(I), NEW N \in Nat, NEW key, Keyed(I, N, key)
    PROVE  Sorted(InOrder(I, key), I, key)
<1> DEFINE n == Cardinality(I)
           q == InOrder(I, key)
<1>1. n \in Nat
      BY FS_CardinalityType
<1>2. Lists(q, I, key)
  <2>1. InOrder(I, key) = CHOOSE p \in [1 .. n -> I] :
                              \A i, j \in 1 .. n : i < j => key[p[i]] < key[p[j]]
        BY DEF InOrder
  <2>2. \E p \in [1 .. n -> I] : \A i, j \in 1 .. n : i < j => key[p[i]] < key[p[j]]
        BY CanBeListed DEF Lists
  <2> QED BY <2>1, <2>2 DEF Lists
<1> HIDE DEF n, q
<1>3. q \in [1 .. n -> I] /\ \A i, j \in 1 .. n : i < j => key[q[i]] < key[q[j]]
      BY <1>2 DEF Lists, n
<1>4. q \in Seq(I) /\ Len(q) = n
      BY <1>1, <1>3, IsSequence
<1>5. \A i, j \in 1 .. n : q[i] = q[j] => i = j
  <2>1. ASSUME NEW i \in 1 .. n, NEW j \in 1 .. n, i # j PROVE q[i] # q[j]
    <3>1. i < j \/ j < i
          BY <1>1, <2>1
    <3>2. key[q[i]] \in Nat /\ key[q[j]] \in Nat /\ (key[q[i]] < key[q[j]] \/ key[q[j]] < key[q[i]])
          BY <1>3, <3>1 DEF Keyed
    <3> QED BY <3>2
  <2> QED BY <2>1
<1>6. q \in Injection(1 .. n, I)
      BY <1>3, <1>5 DEF Injection, IsInjective
<1>7. IsFiniteSet(1 .. n) /\ Cardinality(1 .. n) = n
      BY <1>1, FS_Interval
<1>8. q \in Surjection(1 .. n, I)
      BY <1>6, <1>7, FS_Injection DEF n
<1>9. Sorted(q, I, key)
      BY <1>1, <1>3, <1>4, <1>8 DEF Surjection, Sorted
<1> QED BY <1>9 DEF q

-----------------------------------------------------------------------------
(* RandomPermutate gives permutations *)

Permuted(n) == Injection(0 .. n - 1, 0 .. n - 1)

\* The outcomes at place j, from those at the place after.
Outcomes(n, f, j) ==
    IF j = n - 1 THEN {[i \in 0 .. n - 1 |-> i]}
    ELSE {Swapped(p, j + 1, k) : p \in f[j + 1], k \in 0 .. j}

LEMMA SwappedIs ==
    ASSUME NEW n \in Nat, NEW p \in Permuted(n), NEW j \in 0 .. n - 1, NEW k \in 0 .. n - 1
    PROVE  Swapped(p, j, k) \in Permuted(n)
<1> DEFINE D == 0 .. n - 1
           q == [p EXCEPT ![j] = p[k], ![k] = p[j]]
<1>1. p \in [D -> D] /\ \A a, b \in D : p[a] = p[b] => a = b
      BY DEF Permuted, Injection, IsInjective
<1>2. q \in [D -> D] /\ \A a \in D : q[a] = IF a = k THEN p[j] ELSE IF a = j THEN p[k] ELSE p[a]
      BY <1>1
<1>3. \A a, b \in D : q[a] = q[b] => a = b
      BY <1>1, <1>2
<1>4. Swapped(p, j, k) = q
      BY DEF Swapped
<1> HIDE DEF q
<1> QED BY <1>2, <1>3, <1>4 DEF Permuted, Injection, IsInjective

\* The recursion has a solution, and RandomPermutate is its first place.
LEMMA OutcomesExist ==
    ASSUME NEW n \in Nat \ {0}
    PROVE  \E f : /\ f = [j \in 0 .. n - 1 |-> Outcomes(n, f, j)]
                  /\ RandomPermutate(n) = f[0]
<1> DEFINE Solves(d, g) == g = [j \in n - 1 - d .. n - 1 |-> Outcomes(n, g, j)]
           Bad == {d \in 0 .. n - 1 : ~\E g : Solves(d, g)}
<1>1. CASE Bad # {}
  <2>1. PICK d \in Bad : \A e \in Bad : d <= e
    <3>1. Bad \in SUBSET Nat
          OBVIOUS
    <3> HIDE DEF Bad
    <3> QED BY <1>1, <3>1, LeastNumber
  <2> DEFINE m == n - 1 - d
  <2>2. m \in 0 .. n - 1 /\ d \in 0 .. n - 1
        OBVIOUS
  <2>3. CASE d = 0
    <3> DEFINE g == [j \in m .. n - 1 |-> {[i \in 0 .. n - 1 |-> i]}]
    <3>1. \A j \in m .. n - 1 : j = n - 1
          BY <2>3
    <3>2. \A j \in m .. n - 1 : Outcomes(n, g, j) = {[i \in 0 .. n - 1 |-> i]}
          BY <3>1 DEF Outcomes
    <3>3. Solves(d, g)
          BY <3>2
    <3> QED BY <3>3
  <2>4. CASE d # 0
    <3>1. d - 1 \in 0 .. n - 1 /\ d - 1 \notin Bad /\ n - 1 - (d - 1) = m + 1
          BY <2>1, <2>2, <2>4
    <3>2. PICK h : Solves(d - 1, h)
          BY <3>1
    <3>3. h = [j \in m + 1 .. n - 1 |-> Outcomes(n, h, j)]
          BY <3>1, <3>2
    <3> DEFINE g == [j \in m .. n - 1 |-> IF j = m THEN Outcomes(n, h, m) ELSE h[j]]
    <3>4. \A j \in m + 1 .. n - 1 : g[j] = h[j] /\ j \in m .. n - 1 /\ j # m
          BY <2>2
    <3>5. \A j \in m .. n - 1 : j # n - 1 => j + 1 \in m + 1 .. n - 1
          BY <2>2
    <3>6. \A j \in m .. n - 1 : j # m => j \in m + 1 .. n - 1
          BY <2>2
    <3> DEFINE gs == g
    <3>7. \A j \in m .. n - 1 : gs[j] = IF j = m THEN Outcomes(n, h, m) ELSE h[j]
          OBVIOUS
    <3>8. \A j \in m + 1 .. n - 1 : gs[j] = h[j]
          BY <3>4
    <3>9. gs = [j \in m .. n - 1 |-> gs[j]]
          OBVIOUS
    <3> HIDE DEF gs
    <3>10. \A j \in m .. n - 1 : Outcomes(n, gs, j) = Outcomes(n, h, j)
           BY <3>5, <3>8 DEF Outcomes
    <3>11. \A j \in m .. n - 1 : gs[j] = Outcomes(n, gs, j)
           BY <3>3, <3>6, <3>7, <3>10
    <3>12. Solves(d, gs)
           BY <3>9, <3>11
    <3> QED BY <3>12
  <2> QED BY <2>3, <2>4
<1>2. CASE Bad = {}
  <2>1. n - 1 \in 0 .. n - 1 /\ n - 1 - (n - 1) = 0
        OBVIOUS
  <2>2. PICK g : Solves(n - 1, g)
        BY <1>2, <2>1
  <2>3. g = [j \in 0 .. n - 1 |-> Outcomes(n, g, j)]
        BY <2>1, <2>2
  <2> DEFINE f == CHOOSE f : f = [j \in 0 .. n - 1 |-> Outcomes(n, f, j)]
  <2>4. f = [j \in 0 .. n - 1 |-> Outcomes(n, f, j)]
        BY <2>3
  <2>5. RandomPermutate(n) = f[0]
        BY DEF RandomPermutate, Outcomes
  <2> HIDE DEF f
  <2> QED BY <2>4, <2>5
<1> QED BY <1>1, <1>2

LEMMA ShufflesArePermutations ==
    ASSUME NEW n \in Nat \ {0}
    PROVE  RandomPermutate(n) \subseteq Permuted(n)
<1>1. PICK f : f = [j \in 0 .. n - 1 |-> Outcomes(n, f, j)] /\ RandomPermutate(n) = f[0]
      BY OutcomesExist
<1>2. \A j \in 0 .. n - 1 : f[j] = Outcomes(n, f, j)
      BY <1>1
<1> DEFINE Bad == {j \in 0 .. n - 1 : ~(f[j] \subseteq Permuted(n))}
<1>3. CASE Bad # {}
  <2>1. PICK j \in Bad : \A i \in Bad : i <= j
    <3>1. Bad \in SUBSET (0 .. n - 1) /\ n - 1 \in Nat
          OBVIOUS
    <3> HIDE DEF Bad
    <3> QED BY <1>3, <3>1, GreatestNumber
  <2>2. j \in 0 .. n - 1 /\ ~(f[j] \subseteq Permuted(n)) /\ f[j] = Outcomes(n, f, j)
        BY <1>2
  <2>3. CASE j = n - 1
    <3>1. [i \in 0 .. n - 1 |-> i] \in Permuted(n)
          BY DEF Permuted, Injection, IsInjective
    <3> QED BY <2>2, <2>3, <3>1 DEF Outcomes
  <2>4. CASE j # n - 1
    <3>1. j + 1 \in 0 .. n - 1 /\ \A k \in 0 .. j : k \in 0 .. n - 1
          BY <2>2, <2>4
    <3>2. f[j + 1] \subseteq Permuted(n)
      <4>1. j + 1 \notin Bad
            BY <2>1, <2>2
      <4> QED BY <3>1, <4>1
    <3>3. \A p \in f[j + 1], k \in 0 .. j : Swapped(p, j + 1, k) \in Permuted(n)
          BY <3>1, <3>2, SwappedIs
    <3> QED BY <2>2, <2>4, <3>3 DEF Outcomes
  <2> QED BY <2>3, <2>4
<1>4. CASE Bad = {}
      BY <1>1, <1>4
<1> QED BY <1>3, <1>4

-----------------------------------------------------------------------------
(* The inductive invariant *)

Piece == [rec : Nat, attr : Int]

Places ==
    \/ alg = "tuple" /\ pc \in {"open", "outer", "openS", "inner", "close", "returned",
                                "undefined"}
    \/ alg = "block" /\ pc \in {"open", "block", "fill", "openS", "inner", "close", "returned"}
    \/ alg = "index" /\ pc \in {"open", "build", "outer", "fetch", "close", "returned",
                                "undefined"}
    \/ alg = "sort" /\ pc \in {"open", "build", "fetch", "close", "returned", "undefined"}

Relations ==
    /\ R \in [1 .. SizeOfR -> 0 .. SizeOfS - 1]
    /\ S \in [1 .. SizeOfS -> 0 .. SizeOfS - 1]
    /\ \A a, b \in 1 .. SizeOfS : S[a] = S[b] => a = b

Types ==
    /\ Relations /\ Places
    /\ r \in 0 .. SizeOfR /\ s \in 0 .. SizeOfS /\ recS \in 0 .. SizeOfS
    /\ filled \in 0 .. NumRecord /\ endOfR \in BOOLEAN
    /\ block \in Seq(Piece)
    /\ index \subseteq 1 .. SizeOfS /\ strays \subseteq 1 .. SizeOfS
    /\ found \in Seq(1 .. SizeOfS)
    /\ T \in Seq(Nat \X Nat)
    /\ open \subseteq {"R", "S", "B"} /\ failures \in 0 .. MaxFailures
    /\ ret \in {"none", "file", "NULL"} /\ (pc = "returned" <=> ret # "none")

\* The buffer is in use.  It holds the records of R after the first Base,
\* Full of them for certain, and has room for Room.
Reading == pc \in {"fill", "openS", "inner"}
Full    == IF alg = "block" THEN filled ELSE 1
Room    == IF alg = "block" THEN NumRecord ELSE 1
Width   == IF alg = "block" THEN Pieces ELSE 1
Base    == r - Full

\* A piece that is a record is the record that belongs there.
Rows ==
    /\ \A i \in 1 .. Len(block) : block[i].rec \in 0 .. r + 1
    /\ Reading =>
        /\ Base \in Nat /\ Len(block) = Width
        /\ \A i \in 1 .. Width : block[i].rec # 0 =>
              i <= Room /\ Base + i \in 1 .. SizeOfR /\ block[i] = Holds(Base + i)
        /\ \A i \in 1 .. Full : block[i] = Holds(Base + i)

\* The block join reads whole blocks, but for the last.
Blocks ==
    alg = "block" =>
        /\ pc \in {"open", "block"} => ~endOfR /\ \E k \in Nat : r = NumRecord * k
        /\ Reading => \E k \in Nat : Base = NumRecord * k
        /\ pc = "fill" => ~endOfR
        /\ pc \in {"openS", "inner"} => endOfR \/ filled = NumRecord

\* What the scan of the index has left is sorted; the index join has looked
\* for the record of R.
Listed ==
    /\ \A i \in 1 .. Len(found) : found[i] \in index
    /\ \A i, j \in 1 .. Len(found) : i < j => S[found[i]] < S[found[j]]
    /\ index # {} => recS # 0
    /\ alg = "index" /\ pc = "fetch" =>
          r # 0 /\ \A i \in 1 .. Len(found) : S[found[i]] = R[r]

Begun ==
    /\ pc = "open" => s = 0 /\ index = {}
    /\ pc \in {"open", "build"} => r = 0 /\ T = << >>
    /\ alg = "sort" => r = 0

Left(n) == \E i \in 1 .. Len(found) : found[i] = n
Has(p)  == \E j \in 1 .. Len(T) : T[j] = p

\* The pairs that were looked at already.
Dealt(p) ==
    \/ pc \in {"fill", "openS"} /\ p[1] <= Base
    \/ pc = "inner" /\ (p[1] <= Base \/ (p[1] <= r /\ p[2] <= s))
    \/ pc \in {"outer", "block"} /\ p[1] <= r
    \/ pc = "fetch" /\ alg = "index" /\ (p[1] < r \/ (p[1] = r /\ ~Left(p[2])))
    \/ pc = "fetch" /\ alg = "sort" /\ ~Left(p[2])
    \/ pc \in {"close", "returned"}

Sound    == \A j \in 1 .. Len(T) : T[j] \in Wanted
Complete ==
    failures = 0 =>
        /\ \A p \in Wanted : Dealt(p) => Has(p)
        /\ alg \in {"index", "sort"} /\ pc = "build" => index = 1 .. s
        /\ alg \in {"index", "sort"} /\ pc \in {"outer", "fetch", "close"} => index = 1 .. SizeOfS
        /\ alg = "block" /\ pc \in {"openS", "inner"} /\ endOfR => r = SizeOfR

IInv == Types /\ Rows /\ Blocks /\ Listed /\ Begun /\ Sound /\ Complete

\* What was found comes before what will be.
Reached(p) ==
    /\ pc \in {"outer", "block"} => p[1] <= r
    /\ pc \in {"fill", "openS"} => p[1] <= Base
    /\ pc = "inner" => p[1] <= Base \/ (p[1] <= Base + Room /\ p[2] <= s)
    /\ pc = "fetch" /\ alg = "index" => p[1] < r \/ (p[1] = r /\ found = << >>)
    /\ pc = "fetch" /\ alg = "sort" => \A i \in 1 .. Len(found) : S[p[2]] < S[found[i]]

OrderInv == ResultInOrder /\ \A j \in 1 .. Len(T) : Reached(T[j])

-----------------------------------------------------------------------------
(* Numbers and sequences *)

LEMMA Quotient ==
    ASSUME NEW a \in Nat, NEW b \in Nat \ {0}
    PROVE  a \div b \in Nat /\ (a \div b) * b <= a /\ a < (a \div b) * b + b
OBVIOUS

LEMMA Multiple ==
    ASSUME NEW a \in Nat, NEW b \in Nat, NEW c \in Nat, a < b
    PROVE  a * c + c <= b * c
OBVIOUS

LEMMA Sizes ==
    /\ SizeOfR \in Nat \ {0} /\ SizeOfS \in Nat \ {0} /\ MaxFailures \in Nat
    /\ NumRecord \in Nat \ {0} /\ Pieces \in Nat /\ NumRecord <= Pieces
    /\ \A n \in 0 .. NumRecord : n * recLenR <= B
<1>1. recLenR \in Nat \ {0} /\ B \in Nat /\ recLenR <= B
      BY JoinsAssumption, BlockHoldsARecord
<1> DEFINE a == B + recLenR - 1
           n == NumRecord
           p == Pieces
<1>2. a \in Nat
      BY <1>1
<1>3. n \in Nat /\ n * recLenR <= B /\ B < n * recLenR + recLenR
      BY <1>1, Quotient DEF NumRecord
<1>4. p \in Nat /\ p * recLenR <= a /\ a < p * recLenR + recLenR
  <2>1. p = a \div recLenR
        BY DEF Pieces
  <2> HIDE DEF a, p
  <2> QED BY <1>1, <1>2, <2>1, Quotient
<1> HIDE DEF n, p
<1>5. p * recLenR \in Nat /\ n * recLenR \in Nat
      BY <1>1, <1>3, <1>4
<1>6. ~(p < n)
  <2>1. p < n => p * recLenR + recLenR <= n * recLenR
        BY <1>1, <1>3, <1>4, Multiple
  <2> QED BY <1>1, <1>3, <1>4, <1>5, <2>1
<1>7. n # 0
  <2>1. n = 0 => n * recLenR = 0
        BY <1>1
  <2> QED BY <1>1, <1>3, <2>1
<1>8. ASSUME NEW m \in 0 .. n PROVE m * recLenR <= B
  <2>1. m = n \/ m < n
        BY <1>3, <1>8
  <2>2. m < n => m * recLenR + recLenR <= n * recLenR
        BY <1>1, <1>3, <1>8, Multiple
  <2>3. m * recLenR \in Nat
        BY <1>1, <1>8
  <2> QED BY <1>1, <1>3, <1>5, <2>1, <2>2, <2>3
<1> QED BY <1>3, <1>4, <1>6, <1>7, <1>8, JoinsAssumption DEF n, p

LEMMA Lengths ==
    ASSUME Types
    PROVE  /\ Len(R) = SizeOfR /\ Len(S) = SizeOfS
           /\ \A i \in 1 .. SizeOfR : R[i] \in Int
           /\ \A i \in 1 .. SizeOfS : S[i] \in 0 .. SizeOfS - 1
           /\ Len(found) \in Nat /\ Len(T) \in Nat /\ Len(block) \in Nat
           /\ DOMAIN block = 1 .. Len(block) /\ DOMAIN T = 1 .. Len(T)
           /\ \A i \in 1 .. Len(block) : block[i] \in Piece
           /\ \A i \in 1 .. Len(found) : found[i] \in 1 .. SizeOfS
           /\ \A i \in 1 .. Len(T) : T[i] \in Nat \X Nat
<1>1. Relations /\ SizeOfR \in Nat /\ SizeOfS \in Nat
      BY Sizes DEF Types
<1>2. Len(R) = SizeOfR /\ Len(S) = SizeOfS
      BY <1>1, IsSequence DEF Relations
<1>3. /\ \A i \in 1 .. SizeOfR : R[i] \in Int
      /\ \A i \in 1 .. SizeOfS : S[i] \in 0 .. SizeOfS - 1
      BY <1>1 DEF Relations
<1>4. found \in Seq(1 .. SizeOfS) /\ T \in Seq(Nat \X Nat) /\ block \in Seq(Piece)
      BY DEF Types
<1> QED BY <1>2, <1>3, <1>4, LenProperties, ElementOfSeq

LEMMA PiecesAre == Len(<< >>) = 0 /\ \A k : Len(<<k>>) = 1 /\ <<k>>[1] = k
OBVIOUS

\* A step that puts nothing into the result.
LEMMA SameResult ==
    ASSUME UNCHANGED <<relations, T>>, IInv, OrderInv
    PROVE  Sound' /\ ResultInOrder' /\ Wanted' = Wanted /\ (\A p : Has(p)' <=> Has(p))
<1>1. UNCHANGED <<alg, R, S, T>>
      BY DEF relations
<1>2. Wanted' = Wanted
      BY <1>1 DEF Wanted
<1>3. ResultInOrder'
      BY <1>1 DEF ResultInOrder, OrderInv, Rank
<1> QED BY <1>1, <1>2, <1>3 DEF IInv, Sound, Has

-----------------------------------------------------------------------------
(* The steps that put nothing into the result *)

LEMMA OpenKeeps == ASSUME IInv, OrderInv, Open PROVE IInv' /\ OrderInv'
<1>1. /\ UNCHANGED <<alg, R, S, r, s, block, filled, endOfR, index, found, recS, T, strays>>
      /\ pc = "open" /\ Types /\ failures \in Nat
      BY DEF Open, relations, outerVars, indexVars, result, IInv, Types
<1>2. failures' \in 0 .. MaxFailures /\ failures' \in {failures, failures + 1} /\ failures' \in Nat
      BY <1>1, Sizes DEF Open, Opened, OpenFails, Succeeds, Fails, Types
<1>3. /\ ret' \in {"none", "NULL"} /\ (pc' = "returned" <=> ret' # "none")
      /\ ret' = "NULL" => failures' # 0
      BY <1>1, Sizes DEF Open, Opened, OpenFails, Succeeds, Fails, GoTo, Return, Types
<1>4. \/ alg = "tuple" /\ pc' \in {"outer", "returned"}
      \/ alg = "block" /\ pc' \in {"block", "returned"}
      \/ alg = "index" /\ pc' \in {"build", "returned", "undefined"}
      \/ alg = "sort" /\ pc' \in {"build", "undefined"}
      BY <1>1 DEF Open, Opened, OpenFails, GoTo, Return, Types, Places
<1>5. open' \subseteq {"R", "S", "B"}
      BY <1>1 DEF Open, Opened, OpenFails, Types
<1>6. Types'
      BY <1>1, <1>2, <1>3, <1>4, <1>5 DEF Types, Places, Relations
<1>7. Rows'
      BY <1>1, <1>4 DEF IInv, Rows, Reading
<1>8. Blocks'
      BY <1>1, <1>4 DEF IInv, Blocks, Reading
<1>9. Listed' /\ Begun'
      BY <1>1, <1>4 DEF IInv, Listed, Begun
<1>10. r = 0 /\ T = << >> /\ s = 0 /\ index = {}
       BY <1>1 DEF IInv, Begun
<1>11. Sound' /\ ResultInOrder' /\ Wanted' = Wanted
       BY <1>1, SameResult DEF relations
<1>12. Complete'
  <2> SUFFICES ASSUME failures' = 0 PROVE Complete'
      BY DEF Complete
  <2>1. pc' \in {"outer", "block", "build"} /\ (pc' = "outer" => alg = "tuple")
    <3>1. pc' # "undefined"
          BY <1>1, <1>2 DEF Open, Opened, OpenFails, Fails, GoTo
    <3> QED BY <1>3, <1>4, <3>1
  <2>2. \A p \in Wanted : alg # "sort" => p[1] \in 1 .. SizeOfR
        BY <1>1, Lengths DEF Wanted
  <2>3. \A p \in Wanted : ~Dealt(p)'
        BY <1>1, <1>4, <1>10, <2>1, <2>2, Sizes DEF Dealt
  <2>4. pc' = "build" => index' = 1 .. s'
        BY <1>1, <1>10
  <2> QED BY <1>1, <1>11, <2>1, <2>3, <2>4 DEF Complete
<1>13. Len(T') = 0
       BY <1>1, <1>10, PiecesAre
<1> QED BY <1>6, <1>7, <1>8, <1>9, <1>11, <1>12, <1>13 DEF IInv, OrderInv

LEMMA TupleOuterKeeps == ASSUME IInv, OrderInv, TupleOuter PROVE IInv' /\ OrderInv'
<1>1. /\ UNCHANGED <<alg, R, S, s, filled, endOfR, index, found, recS, T, strays, open, ret>>
      /\ alg = "tuple" /\ pc = "outer" /\ Types /\ failures \in Nat
      BY DEF TupleOuter, GoTo, relations, indexVars, result, IInv, Types
<1>2. failures' \in 0 .. MaxFailures /\ failures' \in {failures, failures + 1} /\ failures' \in Nat
      BY <1>1, Sizes DEF TupleOuter, Succeeds, Fails, Types
<1>3. Sound' /\ ResultInOrder' /\ Wanted' = Wanted /\ (\A p : Has(p)' <=> Has(p))
      BY <1>1, SameResult DEF relations
<1>4. \A p \in Wanted : p[1] \in 1 .. SizeOfR /\ p[2] \in 1 .. SizeOfS
      BY <1>1, Lengths DEF Wanted
<1>5. \A j \in 1 .. Len(T) : T[j][1] <= r /\ T[j] \in Nat \X Nat
      BY <1>1, Lengths DEF OrderInv, Reached
<1>6. CASE r < Len(R) /\ Succeeds /\ GoTo("openS") /\ r' = r + 1 /\ block' = <<Holds(r + 1)>>
  <2>1. r' \in 1 .. SizeOfR /\ r' = r + 1 /\ pc' = "openS" /\ r \in Nat /\ UNCHANGED failures
        BY <1>1, <1>6, Lengths, Sizes DEF Types, GoTo, Succeeds
  <2>2. Holds(r + 1) \in Piece /\ Holds(r + 1).rec = r + 1
        BY <1>1, <2>1, Lengths DEF Holds, Piece
  <2>3. block' \in Seq(Piece) /\ Len(block') = 1 /\ block'[1] = Holds(r + 1)
        BY <1>6, <2>2
  <2>4. Types'
        BY <1>1, <1>2, <2>1, <2>3 DEF Types, Places, Relations
  <2>5. Full' = 1 /\ Room' = 1 /\ Width' = 1 /\ Base' = r
        BY <1>1, <2>1 DEF Full, Room, Width, Base
  <2>6. \A i \in 1 .. 1 : i = 1
        OBVIOUS
  <2>7. Rows'
    <3>1. \A i \in 1 .. Len(block') : block'[i].rec \in 0 .. r' + 1
          BY <2>1, <2>2, <2>3, <2>6
    <3>2. \A i \in 1 .. 1 : block'[i] = [rec |-> r + i, attr |-> R[r + i]]
          BY <2>3, <2>6 DEF Holds
    <3>3. Base' \in Nat /\ \A i \in 1 .. 1 : Base' + i \in 1 .. SizeOfR
          BY <2>1, <2>5, <2>6
    <3> QED BY <1>1, <2>3, <2>5, <2>6, <3>1, <3>2, <3>3 DEF Rows, Holds
  <2>8. Blocks' /\ Listed' /\ Begun'
        BY <1>1, <2>1 DEF Blocks, Listed, Begun, IInv
  <2>9. Complete'
    <3>1. \A p \in Wanted : Dealt(p)' => Dealt(p)
          BY <1>1, <1>4, <2>1, <2>5 DEF Dealt
    <3> QED BY <1>1, <1>3, <2>1, <3>1 DEF Complete, IInv
  <2>10. \A j \in 1 .. Len(T) : Reached(T[j])'
         BY <1>1, <1>5, <2>1, <2>5 DEF Reached
  <2> QED BY <1>1, <1>3, <2>4, <2>7, <2>8, <2>9, <2>10 DEF IInv, OrderInv
<1>7. CASE GoTo("close") /\ UNCHANGED <<r, block>> /\ (r = Len(R) \/ failures' # 0)
  <2>1. pc' = "close"
        BY <1>7 DEF GoTo
  <2>2. Types'
        BY <1>1, <1>2, <1>7, <2>1 DEF Types, Places, Relations
  <2>3. Rows'
        BY <1>7, <2>1 DEF IInv, Rows, Reading
  <2>4. Blocks' /\ Listed' /\ Begun'
        BY <1>1, <1>7, <2>1 DEF Blocks, Listed, Begun, IInv
  <2>5. Complete'
    <3>1. failures' = 0 => failures = 0 /\ r = SizeOfR
          BY <1>1, <1>2, <1>7, Lengths
    <3>2. \A p \in Wanted : failures' = 0 => Dealt(p)
          BY <1>1, <1>4, <3>1 DEF Dealt
    <3> QED BY <1>1, <1>3, <2>1, <3>1, <3>2 DEF Complete, IInv
  <2>6. \A j \in 1 .. Len(T) : Reached(T[j])'
        BY <2>1 DEF Reached
  <2> QED BY <1>1, <1>3, <2>2, <2>3, <2>4, <2>5, <2>6 DEF IInv, OrderInv
<1>8. (Fails => failures' # 0) /\ UNCHANGED ret
      BY <1>1 DEF Fails
<1> QED BY <1>6, <1>7, <1>8 DEF TupleOuter

LEMMA NewBlockKeeps == ASSUME IInv, OrderInv, NewBlock PROVE IInv' /\ OrderInv'
<1>1. /\ UNCHANGED <<alg, R, S, s, r, endOfR, index, found, recS, T, strays, open, ret, failures>>
      /\ alg = "block" /\ pc = "block" /\ pc' = "fill" /\ block' \in Fresh /\ filled' = 0
      /\ Types /\ r \in Nat
      BY DEF NewBlock, Succeeds, GoTo, relations, indexVars, result, IInv, Types
<1>2. Sound' /\ ResultInOrder' /\ Wanted' = Wanted /\ (\A p : Has(p)' <=> Has(p))
      BY <1>1, SameResult DEF relations
<1>3. block' \in Seq(Piece) /\ Len(block') = Pieces /\ \A i \in 1 .. Pieces : block'[i].rec = 0
  <2>1. \A k \in {NoMatch} \cup 0 .. SizeOfS - 1 : Bytes(k) \in Piece /\ Bytes(k).rec = 0
        BY Sizes DEF Bytes, Piece, NoMatch
  <2>2. block' \in [1 .. Pieces -> Piece] /\ \A i \in 1 .. Pieces : block'[i].rec = 0
        BY <1>1, <2>1 DEF Fresh
  <2> QED BY <2>2, Sizes, IsSequence
<1>4. Full' = 0 /\ Room' = NumRecord /\ Width' = Pieces /\ Base' = r /\ \A i \in 1 .. 0 : FALSE
      BY <1>1 DEF Full, Room, Width, Base
<1>5. Types'
      BY <1>1, <1>3, Sizes DEF Types, Places, Relations
<1>6. Rows'
      BY <1>1, <1>3, <1>4 DEF Rows
<1>7. Blocks'
      BY <1>1, <1>4 DEF Blocks, IInv
<1>8. Listed' /\ Begun'
      BY <1>1 DEF Listed, Begun, IInv
<1>9. Complete'
  <2>1. \A p \in Wanted : Dealt(p)' => Dealt(p)
        BY <1>1, <1>4 DEF Dealt
  <2> QED BY <1>1, <1>2, <2>1 DEF Complete, IInv
<1>10. \A j \in 1 .. Len(T) : Reached(T[j])'
       BY <1>1, <1>4 DEF Reached, OrderInv
<1> QED BY <1>1, <1>2, <1>5, <1>6, <1>7, <1>8, <1>9, <1>10 DEF IInv, OrderInv

\* The record after the last goes to its place in the block.
LEMMA FilledIn ==
    ASSUME IInv, alg = "block", pc = "fill", filled < NumRecord, r < Len(R),
           NEW q, q = [block EXCEPT ![PieceAt(filled)] = Holds(r + 1)]
    PROVE  /\ q \in Seq(Piece) /\ Len(q) = Pieces
           /\ \A i \in 1 .. Pieces : q[i] = IF i = filled + 1 THEN Holds(Base + i) ELSE block[i]
           /\ \A i \in 1 .. Pieces : q[i].rec # 0 =>
                 i <= NumRecord /\ Base + i \in 1 .. SizeOfR /\ q[i] = Holds(Base + i)
           /\ \A i \in 1 .. filled + 1 : q[i] = Holds(Base + i)
           /\ \A i \in 1 .. Pieces : q[i].rec \in 0 .. r + 1
           /\ r + 1 \in 1 .. SizeOfR /\ filled + 1 \in 1 .. NumRecord /\ Base = r - filled
<1>1. /\ Types /\ Reading /\ Full = filled /\ Room = NumRecord /\ Width = Pieces
      /\ Base = r - filled /\ Base \in Nat /\ r \in Nat /\ filled \in Nat
      BY DEF IInv, Types, Rows, Reading, Full, Room, Width, Base
<1>2. r + 1 \in 1 .. SizeOfR /\ filled + 1 \in 1 .. NumRecord /\ filled + 1 \in 1 .. Pieces
      BY <1>1, Lengths, Sizes
<1>3. Holds(r + 1) \in Piece /\ Holds(r + 1).rec = r + 1 /\ Base + (filled + 1) = r + 1
      BY <1>1, <1>2, Lengths DEF Holds, Piece
<1>4. block \in Seq(Piece) /\ Len(block) = Pieces
      BY <1>1 DEF IInv, Types, Rows
<1>5. q \in Seq(Piece) /\ Len(q) = Pieces
      BY <1>2, <1>3, <1>4 DEF PieceAt
<1>6. \A i \in 1 .. Pieces : q[i] = IF i = filled + 1 THEN Holds(r + 1) ELSE block[i]
      BY <1>2, <1>4 DEF PieceAt
<1>7. \A i \in 1 .. Pieces : q[i] = IF i = filled + 1 THEN Holds(Base + i) ELSE block[i]
      BY <1>3, <1>6
<1>8. /\ \A i \in 1 .. Pieces : block[i].rec # 0 =>
            i <= NumRecord /\ Base + i \in 1 .. SizeOfR /\ block[i] = Holds(Base + i)
      /\ \A i \in 1 .. filled : block[i] = Holds(Base + i)
      /\ \A i \in 1 .. Pieces : block[i].rec \in 0 .. r + 1
      BY <1>1, <1>4 DEF IInv, Rows
<1>9. \A i \in 1 .. Pieces : q[i].rec # 0 =>
            i <= NumRecord /\ Base + i \in 1 .. SizeOfR /\ q[i] = Holds(Base + i)
      BY <1>2, <1>3, <1>7, <1>8
<1>10. ASSUME NEW i \in 1 .. filled + 1 PROVE q[i] = Holds(Base + i)
  <2>1. i \in 1 .. Pieces /\ (i = filled + 1 \/ i \in 1 .. filled)
        BY <1>1, <1>2, <1>10, Sizes
  <2> QED BY <1>7, <1>8, <2>1
<1>11. \A i \in 1 .. Pieces : q[i].rec \in 0 .. r + 1
       BY <1>1, <1>3, <1>6, <1>8
<1> QED BY <1>1, <1>2, <1>5, <1>7, <1>9, <1>10, <1>11

LEMMA FillKeeps == ASSUME IInv, OrderInv, Fill PROVE IInv' /\ OrderInv'
<1>1. UNCHANGED <<alg, R, S, s, index, found, recS, T, strays, open>> /\ alg = "block" /\ pc = "fill"
      BY DEF Fill, relations, indexVars, result
<1>2. Types /\ failures \in Nat /\ r \in Nat /\ filled \in Nat /\ ~endOfR /\ endOfR \in BOOLEAN
      BY <1>1, Sizes DEF IInv, Types, Blocks
<1>3. Sound' /\ ResultInOrder' /\ Wanted' = Wanted /\ (\A p : Has(p)' <=> Has(p))
      BY <1>1, <1>2, SameResult DEF relations
<1>4. Full = filled /\ Room = NumRecord /\ Width = Pieces /\ Base = r - filled
      BY <1>1 DEF Full, Room, Width, Base
<1>5. Full' = filled' /\ Room' = NumRecord /\ Width' = Pieces /\ Base' = r' - filled'
      BY <1>1 DEF Full, Room, Width, Base
<1>6. /\ Base \in Nat /\ Len(block) = Pieces /\ \E k \in Nat : Base = NumRecord * k
      /\ \A i \in 1 .. Pieces : block[i].rec # 0 =>
            i <= NumRecord /\ Base + i \in 1 .. SizeOfR /\ block[i] = Holds(Base + i)
      /\ \A i \in 1 .. filled : block[i] = Holds(Base + i)
      /\ \A i \in 1 .. Pieces : block[i].rec \in 0 .. r + 1
      BY <1>1, <1>2, <1>4 DEF IInv, Rows, Blocks, Reading
<1>7. \A p \in Wanted : p[1] \in 1 .. SizeOfR /\ p[2] \in 1 .. SizeOfS
      BY <1>1, <1>2, Lengths DEF Wanted
<1>8. \A j \in 1 .. Len(T) : T[j][1] <= Base
      BY <1>1 DEF OrderInv, Reached
<1>9. \A n : Holds(n)' = Holds(n)
      BY <1>1 DEF Holds
<1>10. UNCHANGED ret /\ (UNCHANGED failures \/ (failures < MaxFailures /\ failures' = failures + 1))
       BY DEF Fill, GoTo, Succeeds, Fails
<1>11. failures' \in 0 .. MaxFailures /\ failures' \in Nat /\ (failures' = 0 => failures = 0)
       BY <1>2, <1>10, Sizes DEF IInv, Types
<1> DEFINE q == [block EXCEPT ![PieceAt(filled)] = Holds(r + 1)]
<1>12. CASE /\ filled < NumRecord /\ r < Len(R) /\ pc' = "fill" /\ UNCHANGED <<endOfR, failures>>
            /\ block' = q /\ filled' = filled + 1 /\ r' = r + 1
  <2> HIDE DEF q
  <2>1. /\ q \in Seq(Piece) /\ Len(q) = Pieces
        /\ \A i \in 1 .. Pieces : q[i].rec # 0 =>
              i <= NumRecord /\ Base + i \in 1 .. SizeOfR /\ q[i] = Holds(Base + i)
        /\ \A i \in 1 .. filled + 1 : q[i] = Holds(Base + i)
        /\ \A i \in 1 .. Pieces : q[i].rec \in 0 .. r + 1
        /\ r + 1 \in 1 .. SizeOfR /\ filled + 1 \in 1 .. NumRecord
        BY <1>1, <1>2, <1>12, FilledIn DEF q
  <2>2. Base' = Base
        BY <1>1, <1>2, <1>4, <1>5, <1>12
  <2>3. Types'
        BY <1>1, <1>2, <1>10, <1>11, <1>12, <2>1 DEF Types, Places, Relations
  <2>4. Rows'
    <3>1. \A i \in 1 .. Pieces : q[i].rec \in 0 .. r' + 1
          BY <1>1, <1>2, <1>12, <2>1
    <3> QED BY <1>5, <1>6, <1>9, <1>12, <2>1, <2>2, <3>1 DEF Rows
  <2>5. Blocks' /\ Listed' /\ Begun'
        BY <1>1, <1>2, <1>6, <1>12, <2>2 DEF Blocks, Listed, Begun, IInv
  <2>6. Complete'
    <3>1. \A p \in Wanted : Dealt(p)' => Dealt(p)
          BY <1>1, <1>2, <1>12, <2>2 DEF Dealt
    <3> QED BY <1>1, <1>2, <1>3, <1>12, <3>1 DEF Complete, IInv
  <2>7. \A j \in 1 .. Len(T) : Reached(T[j])'
        BY <1>1, <1>2, <1>8, <1>12, <2>2 DEF Reached
  <2> QED BY <1>1, <1>2, <1>3, <2>3, <2>4, <2>5, <2>6, <2>7 DEF IInv, OrderInv
<1>13. CASE /\ pc' = "openS" /\ UNCHANGED <<filled, r>> /\ endOfR' \in BOOLEAN
            /\ block' = block \/ (filled < NumRecord /\ r < Len(R) /\ block' = q)
            /\ endOfR' \/ filled = NumRecord
            /\ failures' = 0 => failures = 0 /\ (endOfR' => r = Len(R))
  <2>1. /\ block' \in Seq(Piece) /\ Len(block') = Pieces
        /\ \A i \in 1 .. Pieces : block'[i].rec # 0 =>
              i <= NumRecord /\ Base + i \in 1 .. SizeOfR /\ block'[i] = Holds(Base + i)
        /\ \A i \in 1 .. filled : block'[i] = Holds(Base + i)
        /\ \A i \in 1 .. Pieces : block'[i].rec \in 0 .. r + 1
    <3>1. CASE block' = block
          BY <1>1, <1>2, <1>6, <3>1 DEF Types
    <3>2. CASE filled < NumRecord /\ r < Len(R) /\ block' = q
      <4> HIDE DEF q
      <4>1. /\ q \in Seq(Piece) /\ Len(q) = Pieces
            /\ \A i \in 1 .. Pieces : q[i].rec # 0 =>
                  i <= NumRecord /\ Base + i \in 1 .. SizeOfR /\ q[i] = Holds(Base + i)
            /\ \A i \in 1 .. filled + 1 : q[i] = Holds(Base + i)
            /\ \A i \in 1 .. Pieces : q[i].rec \in 0 .. r + 1
            BY <1>1, <1>2, <3>2, FilledIn DEF q
      <4>2. \A i \in 1 .. filled : i \in 1 .. filled + 1
            BY <1>2
      <4> QED BY <3>2, <4>1, <4>2
    <3> QED BY <1>13, <3>1, <3>2
  <2>2. Base' = Base
        BY <1>4, <1>5, <1>13
  <2> HIDE DEF q
  <2>3. Types'
        BY <1>1, <1>2, <1>10, <1>11, <1>13, <2>1 DEF Types, Places, Relations
  <2>4. Rows'
        BY <1>5, <1>6, <1>9, <1>13, <2>1, <2>2 DEF Rows
  <2>5. Blocks' /\ Listed' /\ Begun'
        BY <1>1, <1>2, <1>6, <1>13, <2>2 DEF Blocks, Listed, Begun, IInv
  <2>6. Complete'
    <3>1. \A p \in Wanted : Dealt(p)' => Dealt(p)
          BY <1>1, <1>2, <1>13, <2>2 DEF Dealt
    <3>2. Len(R) = SizeOfR
          BY <1>1, <1>2, Lengths
    <3> QED BY <1>1, <1>2, <1>3, <1>13, <3>1, <3>2 DEF Complete, IInv
  <2>7. \A j \in 1 .. Len(T) : Reached(T[j])'
        BY <1>1, <1>2, <1>8, <1>13, <2>2 DEF Reached
  <2> QED BY <1>1, <1>2, <1>3, <2>3, <2>4, <2>5, <2>6, <2>7 DEF IInv, OrderInv
<1>14. (Fails => failures' # 0) /\ (Succeeds => UNCHANGED failures)
       BY <1>2 DEF Fails, Succeeds
<1>15. \/ /\ filled < NumRecord /\ r < Len(R) /\ Succeeds /\ pc' = "fill"
          /\ block' = q /\ filled' = filled + 1 /\ r' = r + 1 /\ UNCHANGED endOfR
       \/ /\ filled < NumRecord /\ r = Len(R) /\ Succeeds /\ pc' = "openS"
          /\ endOfR' = TRUE /\ UNCHANGED <<block, filled, r>>
       \/ /\ filled < NumRecord /\ Fails /\ pc' = "openS" /\ endOfR' = TRUE /\ UNCHANGED <<filled, r>>
          /\ block' = block \/ (r < Len(R) /\ block' = q)
       \/ /\ filled = NumRecord /\ Succeeds /\ pc' = "openS" /\ UNCHANGED <<block, filled, r, endOfR>>
       BY DEF Fill, EndofR, GoTo
<1> HIDE DEF q
<1>16. CASE /\ filled < NumRecord /\ r = Len(R) /\ Succeeds /\ pc' = "openS"
            /\ endOfR' = TRUE /\ UNCHANGED <<block, filled, r>>
       BY <1>13, <1>14, <1>16
<1>17. CASE /\ filled < NumRecord /\ Fails /\ pc' = "openS" /\ endOfR' = TRUE
            /\ UNCHANGED <<filled, r>>
            /\ block' = block \/ (r < Len(R) /\ block' = q)
       BY <1>13, <1>14, <1>17
<1>18. CASE filled = NumRecord /\ Succeeds /\ pc' = "openS" /\ UNCHANGED <<block, filled, r, endOfR>>
       BY <1>2, <1>13, <1>14, <1>18
<1> QED BY <1>12, <1>14, <1>15, <1>16, <1>17, <1>18

LEMMA OpenSKeeps == ASSUME IInv, OrderInv, OpenS PROVE IInv' /\ OrderInv'
<1>1. /\ UNCHANGED <<alg, R, S, r, block, filled, endOfR, index, found, recS, T, strays>>
      /\ alg \in {"tuple", "block"} /\ pc = "openS" /\ Types /\ failures \in Nat
      BY DEF OpenS, relations, outerVars, indexVars, result, IInv, Types, Places
<1>2. failures' \in 0 .. MaxFailures /\ failures' \in {failures, failures + 1} /\ failures' \in Nat
      BY <1>1, Sizes DEF OpenS, Succeeds, Fails, Types
<1>3. Sound' /\ ResultInOrder' /\ Wanted' = Wanted /\ (\A p : Has(p)' <=> Has(p))
      BY <1>1, SameResult DEF relations
<1>4. Full' = Full /\ Room' = Room /\ Width' = Width /\ Base' = Base
      BY <1>1 DEF Full, Room, Width, Base
<1>5. \A p \in Wanted : p[1] \in 1 .. SizeOfR /\ p[2] \in 1 .. SizeOfS
      BY <1>1, Lengths DEF Wanted
<1>6. \A j \in 1 .. Len(T) : T[j][1] <= Base
      BY <1>1 DEF OrderInv, Reached
<1>7. \A n : Holds(n)' = Holds(n)
      BY <1>1 DEF Holds
<1>8. \/ /\ pc' = "inner" /\ s' = 0 /\ open' = open \cup {"S"} /\ UNCHANGED <<ret, failures>>
      \/ /\ pc' = "undefined" /\ alg = "tuple" /\ UNCHANGED <<s, open, ret>> /\ failures' # 0
      \/ /\ pc' = "returned" /\ alg = "block" /\ ret' = "NULL" /\ UNCHANGED <<s, open>>
         /\ failures' # 0
      BY <1>1 DEF OpenS, Succeeds, Fails, GoTo, Return
<1>9. Types'
  <2>1. Relations' /\ Places' /\ s' \in 0 .. SizeOfS
        BY <1>1, <1>8, Sizes DEF Types, Places, Relations
  <2>2. open' \subseteq {"R", "S", "B"} /\ ret' \in {"none", "file", "NULL"}
        BY <1>1, <1>8 DEF Types
  <2>3. pc' = "returned" <=> ret' # "none"
        BY <1>1, <1>8 DEF Types
  <2> QED BY <1>1, <1>2, <2>1, <2>2, <2>3 DEF Types
<1>10. Rows'
       BY <1>1, <1>4, <1>7, <1>8 DEF Rows, Reading, IInv
<1>11. Blocks' /\ Listed' /\ Begun'
       BY <1>1, <1>4, <1>8 DEF Blocks, Reading, Listed, Begun, IInv
<1>12. Complete'
  <2>1. failures' = 0 => pc' = "inner" /\ s' = 0 /\ failures = 0
        BY <1>8
  <2>2. \A p \in Wanted : failures' = 0 /\ Dealt(p)' => Dealt(p)
        BY <1>1, <1>4, <1>5, <2>1 DEF Dealt
  <2> QED BY <1>1, <1>3, <2>1, <2>2 DEF Complete, IInv
<1>13. \A j \in 1 .. Len(T) : Reached(T[j])'
       BY <1>1, <1>4, <1>6, <1>8 DEF Reached
<1> QED BY <1>1, <1>3, <1>9, <1>10, <1>11, <1>12, <1>13 DEF IInv, OrderInv

LEMMA EndOfSKeeps == ASSUME IInv, OrderInv, Inner, EndOfS PROVE IInv' /\ OrderInv'
<1>1. /\ UNCHANGED <<alg, R, S, r, s, block, filled, endOfR, index, found, recS, T, strays>>
      /\ alg \in {"tuple", "block"} /\ pc = "inner" /\ Types /\ endOfR \in BOOLEAN
      /\ r \in Nat /\ filled \in Nat /\ failures \in Nat
      BY Sizes DEF Inner, EndOfS, relations, outerVars, indexVars, result, IInv, Types, Places
<1>2. UNCHANGED failures \/ (failures < MaxFailures /\ failures' = failures + 1)
      BY DEF EndOfS, Succeeds, Fails
<1>3. failures' \in 0 .. MaxFailures /\ failures' \in Nat
      BY <1>1, <1>2, Sizes DEF Types
<1>4. failures' = 0 => failures = 0 /\ s = SizeOfS
      BY <1>1, Lengths DEF EndOfS, Succeeds, Fails
<1>5. Sound' /\ ResultInOrder' /\ Wanted' = Wanted /\ (\A p : Has(p)' <=> Has(p))
      BY <1>1, SameResult DEF relations
<1>6. \A p \in Wanted : p[1] \in 1 .. SizeOfR /\ p[2] \in 1 .. SizeOfS
      BY <1>1, Lengths DEF Wanted
<1>7. Base = r - Full /\ Base \in Nat /\ (failures = 0 /\ alg = "block" /\ endOfR => r = SizeOfR)
      BY <1>1 DEF IInv, Base, Rows, Reading, Complete
<1>8. \A j \in 1 .. Len(T) : T[j][1] <= Base + Room /\ T[j][1] \in Nat
  <2>1. \A j \in 1 .. Len(T) : T[j] \in Nat \X Nat /\ Reached(T[j])
        BY <1>1, Lengths DEF OrderInv
  <2>2. Room \in Nat
        BY Sizes DEF Room
  <2> QED BY <1>1, <1>7, <2>1, <2>2 DEF Reached
<1>9. CASE alg = "tuple"
  <2>1. pc' = "outer" /\ UNCHANGED ret /\ open' = open \ {"S"}
        BY <1>9 DEF EndOfS, GoTo
  <2>2. Types'
        BY <1>1, <1>3, <1>9, <2>1 DEF Types, Places, Relations
  <2>3. Rows'
        BY <1>1, <2>1 DEF IInv, Rows, Reading
  <2>4. Blocks' /\ Listed' /\ Begun'
        BY <1>1, <1>9, <2>1 DEF Blocks, Listed, Begun, IInv
  <2>5. Complete'
    <3>1. \A p \in Wanted : failures' = 0 /\ Dealt(p)' => Dealt(p)
          BY <1>1, <1>4, <1>6, <1>9, <2>1 DEF Dealt
    <3> QED BY <1>1, <1>4, <1>5, <1>9, <2>1, <3>1 DEF Complete, IInv
  <2>6. \A j \in 1 .. Len(T) : Reached(T[j])'
        BY <1>1, <1>7, <1>8, <1>9, <2>1 DEF Reached, Full, Room
  <2> QED BY <1>1, <1>5, <2>2, <2>3, <2>4, <2>5, <2>6 DEF IInv, OrderInv
<1>10. CASE alg = "block"
  <2>1. pc' = (IF endOfR THEN "close" ELSE "block") /\ UNCHANGED ret /\ UNCHANGED open
        BY <1>10 DEF EndOfS, GoTo
  <2>2. Types'
        BY <1>1, <1>3, <1>10, <2>1 DEF Types, Places, Relations
  <2>3. Rows'
        BY <1>1, <2>1 DEF IInv, Rows, Reading
  <2>4. ~endOfR => r = Base + NumRecord /\ \E k \in Nat : r = NumRecord * k
    <3>1. SUFFICES ASSUME ~endOfR PROVE r = Base + NumRecord /\ \E k \in Nat : r = NumRecord * k
          OBVIOUS
    <3>2. filled = NumRecord /\ Full = filled
          BY <1>1, <1>10, <3>1 DEF IInv, Blocks, Full
    <3>3. r = Base + NumRecord
          BY <1>1, <1>7, <3>2, Sizes
    <3>4. PICK k \in Nat : Base = NumRecord * k
          BY <1>1, <1>10 DEF IInv, Blocks, Reading
    <3>5. NumRecord * (k + 1) = NumRecord * k + NumRecord /\ k + 1 \in Nat
          BY Sizes
    <3> QED BY <3>3, <3>4, <3>5
  <2>5. Blocks' /\ Listed' /\ Begun'
        BY <1>1, <1>10, <2>1, <2>4 DEF Blocks, Reading, Listed, Begun, IInv
  <2>6. Complete'
    <3>1. \A p \in Wanted : failures' = 0 => Dealt(p) \/ ~Dealt(p)'
          BY <1>1, <1>4, <1>6, <1>7, <1>10, <2>1 DEF Dealt
    <3> QED BY <1>1, <1>4, <1>5, <1>10, <2>1, <3>1 DEF Complete, IInv
  <2>7. \A j \in 1 .. Len(T) : Reached(T[j])'
        BY <1>1, <1>7, <1>8, <1>10, <2>1, <2>4 DEF Reached, Room
  <2> QED BY <1>1, <1>5, <2>2, <2>3, <2>5, <2>6, <2>7 DEF IInv, OrderInv
<1> QED BY <1>1, <1>9, <1>10

\* What the records of S found by the index have: different attributes.
LEMMA FoundIs ==
    ASSUME Types, NEW I \in SUBSET index, NEW q, q = InOrder(I, S)
    PROVE  /\ q \in Seq(1 .. SizeOfS) /\ Len(q) \in Nat
           /\ \A i \in 1 .. Len(q) : q[i] \in I
           /\ \A n \in I : \E i \in 1 .. Len(q) : q[i] = n
           /\ \A i, j \in 1 .. Len(q) : i < j => S[q[i]] < S[q[j]]
<1>1. I \in SUBSET (1 .. SizeOfS) /\ SizeOfS \in Nat /\ Relations
      BY Sizes DEF Types
<1>2. IsFiniteSet(I)
  <2>1. IsFiniteSet(1 .. SizeOfS)
        BY <1>1, FS_Interval
  <2> QED BY <1>1, <2>1, FS_Subset
<1>3. Keyed(I, SizeOfS, S)
  <2>1. \A x \in I : S[x] \in 0 .. SizeOfS
        BY <1>1 DEF Relations
  <2>2. \A x, y \in I : S[x] = S[y] => x = y
        BY <1>1 DEF Relations
  <2> QED BY <2>1, <2>2 DEF Keyed
<1>4. Sorted(q, I, S)
      BY <1>1, <1>2, <1>3, InOrderIs
<1>5. Len(q) \in Nat /\ q \in [1 .. Len(q) -> I] /\ I \subseteq 1 .. SizeOfS
      BY <1>1, <1>4 DEF Sorted
<1>6. q \in [1 .. Len(q) -> 1 .. SizeOfS]
      BY <1>5
<1>7. q \in Seq(1 .. SizeOfS)
      BY <1>5, <1>6, IsSequence
<1> QED BY <1>4, <1>5, <1>7 DEF Sorted

LEMMA BuildKeeps == ASSUME IInv, OrderInv, Build PROVE IInv' /\ OrderInv'
<1>1. /\ UNCHANGED <<alg, R, S, r, block, filled, endOfR, T, strays>>
      /\ pc = "build" /\ Types /\ failures \in Nat /\ s \in 0 .. SizeOfS
      BY Sizes DEF Build, relations, outerVars, result, IInv, Types
<1>2. /\ alg \in {"index", "sort"} /\ Len(S) = SizeOfS /\ SizeOfS \in Nat
      /\ r = 0 /\ T = << >> /\ Len(T) = 0
      BY <1>1, Lengths, Sizes, PiecesAre DEF IInv, Types, Places, Begun
<1>3. UNCHANGED failures \/ (failures < MaxFailures /\ failures' = failures + 1)
      BY DEF Build, Succeeds, Fails
<1>4. failures' \in 0 .. MaxFailures /\ failures' \in Nat /\ (failures' = 0 => failures = 0)
      BY <1>1, <1>3, Sizes DEF Types
<1>5. Sound' /\ ResultInOrder' /\ Wanted' = Wanted /\ (\A p : Has(p)' <=> Has(p))
      BY <1>1, SameResult DEF relations
<1>6. \A j \in 1 .. Len(T') : FALSE
      BY <1>1, <1>2
<1>7. ASSUME s < Len(S), s' = s + 1, recS' = s + 1, pc' = "build", UNCHANGED <<ret, open, found>>,
             \/ UNCHANGED failures /\ index' = index \cup {s + 1}
             \/ failures' # 0 /\ UNCHANGED index
      PROVE  IInv' /\ OrderInv'
  <2>1. s + 1 \in 1 .. SizeOfS /\ s' \in 0 .. SizeOfS /\ index \subseteq index'
        /\ index' \subseteq 1 .. SizeOfS
    <3>1. s + 1 \in 1 .. SizeOfS /\ s' \in 0 .. SizeOfS
          BY <1>1, <1>2, <1>7
    <3>2. index' \in {index, index \cup {s + 1}} /\ index \subseteq 1 .. SizeOfS
          BY <1>1, <1>7 DEF Types
    <3> QED BY <3>1, <3>2
  <2>2. Types'
        BY <1>1, <1>2, <1>4, <1>7, <2>1 DEF Types, Places, Relations
  <2>3. Rows' /\ Blocks' /\ Begun'
        BY <1>1, <1>2, <1>7 DEF Rows, Reading, Blocks, Begun, IInv
  <2>4. Listed'
    <3>1. /\ \A i \in 1 .. Len(found) : found[i] \in index'
          /\ \A i, j \in 1 .. Len(found) : i < j => S[found[i]] < S[found[j]]
          BY <2>1 DEF Listed, IInv
    <3> QED BY <1>1, <1>7, <2>1, <3>1 DEF Listed
  <2>5. Complete'
    <3>1. \A p \in Wanted : ~Dealt(p)'
          BY <1>7 DEF Dealt
    <3>2. failures' = 0 => index' = 1 .. s'
      <4>1. failures' = 0 => index = 1 .. s /\ index' = index \cup {s + 1}
            BY <1>1, <1>2, <1>4, <1>7 DEF IInv, Complete
      <4>2. 1 .. s + 1 = (1 .. s) \cup {s + 1}
            BY <1>1
      <4> QED BY <1>7, <4>1, <4>2
    <3> QED BY <1>5, <1>7, <3>1, <3>2 DEF Complete
  <2> QED BY <1>5, <1>6, <2>2, <2>3, <2>4, <2>5 DEF IInv, OrderInv
<1>8. ASSUME UNCHANGED <<s, recS, index, ret>>, failures' = 0 => s = Len(S), alg = "index",
             open' = open \ {"S"}, pc' = "outer", UNCHANGED found
      PROVE  IInv' /\ OrderInv'
  <2>1. Types'
        BY <1>1, <1>4, <1>8 DEF Types, Places, Relations
  <2>2. Rows' /\ Blocks' /\ Begun' /\ Listed'
        BY <1>1, <1>2, <1>8 DEF Rows, Reading, Blocks, Begun, Listed, IInv
  <2>3. Complete'
    <3>1. \A p \in Wanted : p[1] \in 1 .. SizeOfR
          BY <1>1, <1>8, Lengths DEF Wanted
    <3>2. \A p \in Wanted : ~Dealt(p)'
          BY <1>1, <1>2, <1>8, <3>1 DEF Dealt
    <3>3. failures' = 0 => index' = 1 .. SizeOfS
          BY <1>1, <1>2, <1>4, <1>8 DEF IInv, Complete
    <3> QED BY <1>5, <1>8, <3>2, <3>3 DEF Complete
  <2> QED BY <1>5, <1>6, <2>1, <2>2, <2>3 DEF IInv, OrderInv
<1>9. ASSUME UNCHANGED <<s, recS, index, ret>>, failures' = 0 => s = Len(S), alg = "sort",
             open' = {"B"}, pc' = "fetch", found' = InOrder(index, S)
      PROVE  IInv' /\ OrderInv'
  <2>1. /\ found' \in Seq(1 .. SizeOfS) /\ Len(found') \in Nat
        /\ \A i \in 1 .. Len(found') : found'[i] \in index
        /\ \A n \in index : \E i \in 1 .. Len(found') : found'[i] = n
        /\ \A i, j \in 1 .. Len(found') : i < j => S[found'[i]] < S[found'[j]]
        BY <1>1, <1>9, FoundIs
  <2>2. Types'
        BY <1>1, <1>4, <1>9, <2>1 DEF Types, Places, Relations
  <2>3. Rows' /\ Blocks' /\ Begun'
        BY <1>1, <1>2, <1>9 DEF Rows, Reading, Blocks, Begun, IInv
  <2>4. Listed'
        BY <1>1, <1>9, <2>1 DEF Listed, IInv
  <2>5. Complete'
    <3>1. failures' = 0 => index' = 1 .. SizeOfS
          BY <1>1, <1>2, <1>4, <1>9 DEF IInv, Complete
    <3>2. \A p \in Wanted : p[2] \in 1 .. SizeOfS
          BY <1>2, <1>9 DEF Wanted
    <3>3. \A p \in Wanted : failures' = 0 => ~Dealt(p)'
          BY <1>1, <1>9, <2>1, <3>1, <3>2 DEF Dealt, Left
    <3> QED BY <1>5, <1>9, <3>1, <3>3 DEF Complete
  <2> QED BY <1>5, <1>6, <2>2, <2>3, <2>4, <2>5 DEF IInv, OrderInv
<1>10. ASSUME UNCHANGED <<s, recS, index, ret, found, open>>, alg = "sort", pc' = "undefined",
              failures' # 0
       PROVE  IInv' /\ OrderInv'
  <2>1. Types'
        BY <1>1, <1>4, <1>10 DEF Types, Places, Relations
  <2>2. Rows' /\ Blocks' /\ Begun' /\ Listed'
        BY <1>1, <1>2, <1>10 DEF Rows, Reading, Blocks, Begun, Listed, IInv
  <2> QED BY <1>5, <1>6, <1>10, <2>1, <2>2 DEF IInv, OrderInv, Complete
<1>11. (Fails => failures' # 0) /\ (Succeeds => UNCHANGED failures)
       BY <1>1 DEF Fails, Succeeds
<1>12. CASE /\ s < Len(S) /\ s' = s + 1 /\ recS' = s + 1
            /\ GoTo("build") /\ UNCHANGED <<open, found>>
            /\ \/ Succeeds /\ index' = index \cup {s + 1}
               \/ Fails /\ UNCHANGED index
       BY <1>7, <1>11, <1>12 DEF GoTo
<1>13. CASE /\ UNCHANGED <<s, recS, index>>
            /\ (s = Len(S) /\ Succeeds) \/ Fails
            /\ \/ /\ alg = "index" /\ open' = open \ {"S"} /\ GoTo("outer") /\ UNCHANGED found
               \/ /\ alg = "sort" /\ open' = {"B"} /\ GoTo("fetch")
                  /\ found' = InOrder(index, S)
       BY <1>8, <1>9, <1>11, <1>13 DEF GoTo
<1>14. CASE /\ alg = "sort" /\ Fails /\ GoTo("undefined")
            /\ UNCHANGED <<s, recS, index, found, open>>
       BY <1>10, <1>11, <1>14 DEF GoTo
<1> QED BY <1>12, <1>13, <1>14 DEF Build

LEMMA IndexOuterKeeps == ASSUME IInv, OrderInv, IndexOuter PROVE IInv' /\ OrderInv'
<1>1. /\ UNCHANGED <<alg, R, S, s, block, filled, endOfR, index, recS, T, strays, ret>>
      /\ alg = "index" /\ pc = "outer" /\ Types /\ failures \in Nat /\ r \in 0 .. SizeOfR
      BY Sizes DEF IndexOuter, GoTo, relations, result, IInv, Types
<1>2. UNCHANGED failures \/ (failures < MaxFailures /\ failures' = failures + 1)
      BY DEF IndexOuter, Succeeds, Fails
<1>3. failures' \in 0 .. MaxFailures /\ failures' \in Nat /\ (failures' = 0 => failures = 0)
      BY <1>1, <1>2, Sizes DEF Types
<1>4. Sound' /\ ResultInOrder' /\ Wanted' = Wanted /\ (\A p : Has(p)' <=> Has(p))
      BY <1>1, SameResult DEF relations
<1>5. \A p \in Wanted : p[1] \in 1 .. SizeOfR /\ p[2] \in 1 .. SizeOfS /\ R[p[1]] = S[p[2]]
      BY <1>1, Lengths DEF Wanted
<1>6. \A j \in 1 .. Len(T) : T[j][1] <= r /\ T[j] \in Nat \X Nat
      BY <1>1, Lengths DEF OrderInv, Reached
<1>7. ASSUME r < Len(R), pc' = "fetch", r' = r + 1, open' = open \cup {"B"},
             found' = InOrder(Matching(R[r + 1]), S)
      PROVE  IInv' /\ OrderInv'
  <2>1. r' \in 1 .. SizeOfR
        BY <1>1, <1>7, Lengths, Sizes
  <2>2. Matching(R[r + 1]) \in SUBSET index /\ \A n \in Matching(R[r + 1]) : S[n] = R[r + 1]
        BY DEF Matching
  <2>3. /\ found' \in Seq(1 .. SizeOfS) /\ Len(found') \in Nat
        /\ \A i \in 1 .. Len(found') : found'[i] \in Matching(R[r + 1])
        /\ \A n \in Matching(R[r + 1]) : \E i \in 1 .. Len(found') : found'[i] = n
        /\ \A i, j \in 1 .. Len(found') : i < j => S[found'[i]] < S[found'[j]]
        BY <1>1, <1>7, <2>2, FoundIs
  <2>4. Types'
        BY <1>1, <1>3, <1>7, <2>1, <2>3 DEF Types, Places, Relations
  <2>5. Rows'
        BY <1>1, <1>7 DEF IInv, Rows, Reading
  <2>6. Blocks' /\ Begun'
        BY <1>1, <1>7 DEF Blocks, Begun, IInv
  <2>7. Listed'
    <3>1. \A i \in 1 .. Len(found') : found'[i] \in index /\ S[found'[i]] = R[r']
          BY <1>7, <2>2, <2>3
    <3> QED BY <1>1, <2>1, <2>3, <3>1 DEF Listed, IInv
  <2>8. Complete'
    <3>1. failures' = 0 => index = 1 .. SizeOfS
          BY <1>1, <1>3 DEF IInv, Complete
    <3>2. ASSUME NEW p \in Wanted, failures' = 0, Dealt(p)' PROVE Dealt(p)
      <4>1. p[1] < r' \/ (p[1] = r' /\ ~Left(p[2])')
            BY <1>1, <1>7, <3>2 DEF Dealt
      <4>2. p[1] = r' => p[2] \in Matching(R[r + 1])
            BY <1>5, <1>7, <3>1, <3>2 DEF Matching
      <4>3. p[1] = r' => Left(p[2])'
            BY <2>3, <4>2 DEF Left
      <4> QED BY <1>1, <1>5, <1>7, <4>1, <4>3 DEF Dealt
    <3> QED BY <1>1, <1>3, <1>4, <1>7, <3>1, <3>2 DEF Complete, IInv
  <2>9. \A j \in 1 .. Len(T) : Reached(T[j])'
        BY <1>1, <1>6, <1>7 DEF Reached
  <2> QED BY <1>1, <1>4, <2>4, <2>5, <2>6, <2>7, <2>8, <2>9 DEF IInv, OrderInv
<1>8. ASSUME pc' = "close", UNCHANGED <<r, found, open>>, failures' = 0 => r = Len(R)
      PROVE  IInv' /\ OrderInv'
  <2>1. Types'
        BY <1>1, <1>3, <1>8 DEF Types, Places, Relations
  <2>2. Rows' /\ Blocks' /\ Listed' /\ Begun'
        BY <1>1, <1>8 DEF IInv, Rows, Reading, Blocks, Listed, Begun
  <2>3. Complete'
    <3>1. \A p \in Wanted : failures' = 0 => Dealt(p)
          BY <1>1, <1>5, <1>8, Lengths DEF Dealt
    <3> QED BY <1>1, <1>3, <1>4, <1>8, <3>1 DEF Complete, IInv
  <2>4. \A j \in 1 .. Len(T) : Reached(T[j])'
        BY <1>8 DEF Reached
  <2> QED BY <1>1, <1>4, <2>1, <2>2, <2>3, <2>4 DEF IInv, OrderInv
<1>9. (Fails => failures' # 0) /\ (Succeeds => UNCHANGED failures)
      BY <1>1 DEF Fails, Succeeds
<1>10. ASSUME pc' = "undefined", r < Len(R), r' = r + 1, UNCHANGED <<found, open>>,
              failures' # 0
       PROVE  IInv' /\ OrderInv'
  <2>1. r' \in 0 .. SizeOfR
        BY <1>1, <1>10, Lengths, Sizes
  <2>2. Types'
        BY <1>1, <1>3, <1>10, <2>1 DEF Types, Places, Relations
  <2>3. Rows'
        BY <1>1, <1>10 DEF IInv, Rows, Reading
  <2>4. Blocks' /\ Listed' /\ Begun'
        BY <1>1, <1>10 DEF IInv, Blocks, Listed, Begun
  <2>5. Complete'
        BY <1>10 DEF Complete
  <2>6. \A j \in 1 .. Len(T) : Reached(T[j])'
        BY <1>1, <1>6, <1>10 DEF Reached
  <2> QED BY <1>1, <1>4, <2>2, <2>3, <2>4, <2>5, <2>6 DEF IInv, OrderInv
<1> QED BY <1>7, <1>8, <1>9, <1>10 DEF IndexOuter, GoTo

LEMMA CloseKeeps == ASSUME IInv, OrderInv, Close PROVE IInv' /\ OrderInv'
<1>1. /\ UNCHANGED <<alg, R, S, r, s, block, filled, endOfR, index, found, recS, T, strays, failures>>
      /\ pc = "close" /\ pc' = "returned" /\ ret' = "file" /\ Types
      BY DEF Close, Succeeds, Return, relations, outerVars, indexVars, result, IInv
<1>2. Sound' /\ ResultInOrder' /\ Wanted' = Wanted /\ (\A p : Has(p)' <=> Has(p))
      BY <1>1, SameResult DEF relations
<1>3. open' \subseteq {"R", "S", "B"}
      BY <1>1 DEF Close, Types
<1>4. Types'
      BY <1>1, <1>3 DEF Types, Places, Relations
<1>5. Rows' /\ Blocks' /\ Listed' /\ Begun'
      BY <1>1 DEF IInv, Rows, Reading, Blocks, Listed, Begun
<1>6. \A p : Dealt(p)
      BY <1>1 DEF Dealt
<1>7. Complete'
      BY <1>1, <1>2, <1>6 DEF Complete, IInv
<1>8. \A j \in 1 .. Len(T) : Reached(T[j])'
      BY <1>1 DEF Reached
<1> QED BY <1>1, <1>2, <1>4, <1>5, <1>7, <1>8 DEF IInv, OrderInv

-----------------------------------------------------------------------------
(* The steps that do *)

LEMMA PrecedesAt ==
    /\ \A a, b : a[1] < b[1] => Precedes(a, b)
    /\ \A a, b : a[1] = b[1] /\ a[2] < b[2] => Precedes(a, b)
    /\ \A a, b : a[1] = b[1] /\ a[2] = b[2] /\ a[3] < b[3] => Precedes(a, b)
<1>1. (1 .. 1 - 1 = {}) /\ (\A l \in 1 .. 2 - 1 : l = 1) /\ (\A l \in 1 .. 3 - 1 : l = 1 \/ l = 2)
      OBVIOUS
<1>2. 1 \in 1 .. 3 /\ 2 \in 1 .. 3 /\ 3 \in 1 .. 3
      OBVIOUS
<1>3. ASSUME NEW a, NEW b, a[1] < b[1] PROVE Precedes(a, b)
      BY <1>1, <1>2, <1>3 DEF Precedes
<1>4. ASSUME NEW a, NEW b, a[1] = b[1], a[2] < b[2] PROVE Precedes(a, b)
      BY <1>1, <1>2, <1>4 DEF Precedes
<1>5. ASSUME NEW a, NEW b, a[1] = b[1], a[2] = b[2], a[3] < b[3] PROVE Precedes(a, b)
      BY <1>1, <1>2, <1>5 DEF Precedes
<1> QED BY <1>3, <1>4, <1>5

\* The result with the pairs u at its end.
LEMMA Extended ==
    ASSUME Types, UNCHANGED relations, NEW u \in Seq(Nat \X Nat), T' = T \o u
    PROVE  /\ T' \in Seq(Nat \X Nat) /\ Len(T') = Len(T) + Len(u)
           /\ \A j \in 1 .. Len(T) : j \in 1 .. Len(T') /\ T'[j] = T[j]
           /\ \A j \in 1 .. Len(u) : Len(T) + j \in 1 .. Len(T') /\ T'[Len(T) + j] = u[j]
           /\ \A j \in 1 .. Len(T') : j \in 1 .. Len(T)
                  \/ (Len(T) < j /\ j - Len(T) \in 1 .. Len(u) /\ T'[j] = u[j - Len(T)])
<1>1. T \in Seq(Nat \X Nat) /\ Len(T) \in Nat /\ Len(u) \in Nat
      BY LenProperties DEF Types
<1>2. /\ T' \in Seq(Nat \X Nat) /\ Len(T') = Len(T) + Len(u)
      /\ \A i \in 1 .. Len(T) + Len(u) : T'[i] = IF i <= Len(T) THEN T[i] ELSE u[i - Len(T)]
      BY <1>1, ConcatProperties
<1>3. \A j \in 1 .. Len(T) : j \in 1 .. Len(T') /\ T'[j] = T[j]
      BY <1>1, <1>2
<1>4. ASSUME NEW j \in 1 .. Len(u)
      PROVE  Len(T) + j \in 1 .. Len(T') /\ T'[Len(T) + j] = u[j]
  <2>1. Len(T) + j \in 1 .. Len(T) + Len(u) /\ ~(Len(T) + j <= Len(T)) /\ (Len(T) + j) - Len(T) = j
        BY <1>1, <1>4
  <2> QED BY <1>2, <2>1
<1>5. ASSUME NEW j \in 1 .. Len(T'), j \notin 1 .. Len(T)
      PROVE  Len(T) < j /\ j - Len(T) \in 1 .. Len(u) /\ T'[j] = u[j - Len(T)]
  <2>1. j \in 1 .. Len(T) + Len(u) /\ ~(j <= Len(T)) /\ j - Len(T) \in 1 .. Len(u)
        BY <1>1, <1>2, <1>5
  <2> QED BY <1>1, <1>2, <2>1
<1> QED BY <1>2, <1>3, <1>4, <1>5

\* They belong there, and come after what was there and one after the other.
LEMMA ExtendedKeeps ==
    ASSUME Types, UNCHANGED relations, NEW u \in Seq(Nat \X Nat), T' = T \o u,
           Sound, ResultInOrder,
           \A i \in 1 .. Len(u) : u[i] \in Wanted,
           \A j \in 1 .. Len(T), i \in 1 .. Len(u) : Precedes(Rank(T[j]), Rank(u[i])),
           \A i, j \in 1 .. Len(u) : i < j => Precedes(Rank(u[i]), Rank(u[j]))
    PROVE  Sound' /\ ResultInOrder' /\ Wanted' = Wanted
<1>1. UNCHANGED <<alg, R, S>>
      BY DEF relations
<1>2. Wanted' = Wanted /\ \A p : Rank(p)' = Rank(p)
      BY <1>1 DEF Wanted, Rank
<1> DEFINE m == Len(T)
           n == Len(u)
<1>3. m \in Nat /\ n \in Nat
      BY LenProperties DEF Types
<1>4. /\ T' \in Seq(Nat \X Nat) /\ Len(T') = m + n
      /\ \A j \in 1 .. m : T'[j] = T[j]
      /\ \A j \in 1 .. Len(T') : j \in 1 .. m
                \/ (m < j /\ j - m \in 1 .. n /\ T'[j] = u[j - m])
      BY Extended
<1>5. DOMAIN T' = 1 .. Len(T') /\ DOMAIN T = 1 .. m
      BY <1>4, LenProperties DEF Types
<1>6. Sound'
      BY <1>2, <1>4 DEF Sound
<1>7. ASSUME NEW i \in 1 .. Len(T'), NEW j \in 1 .. Len(T'), i < j
      PROVE  Precedes(Rank(T'[i]), Rank(T'[j]))
  <2>1. CASE j \in 1 .. m
    <3>1. i \in 1 .. m
          BY <1>3, <1>7, <2>1
    <3> QED BY <1>4, <1>5, <1>7, <2>1, <3>1 DEF ResultInOrder
  <2>2. CASE m < j /\ j - m \in 1 .. n /\ T'[j] = u[j - m]
    <3>1. CASE i \in 1 .. m
          BY <1>4, <2>2, <3>1
    <3>2. CASE m < i /\ i - m \in 1 .. n /\ T'[i] = u[i - m]
      <4>1. i - m < j - m
            BY <1>3, <1>4, <1>7
      <4> QED BY <2>2, <3>2, <4>1
    <3> QED BY <1>4, <1>7, <3>1, <3>2
  <2> QED BY <1>4, <1>7, <2>1, <2>2
<1>8. ResultInOrder'
      BY <1>1, <1>5, <1>7 DEF ResultInOrder, Rank
<1> QED BY <1>2, <1>6, <1>8

LEMMA Ranks ==
    /\ alg = "block" => \A p : Rank(p) = <<(p[1] - 1) \div NumRecord, p[2], p[1]>>
    /\ alg = "sort"  => \A p : Rank(p) = <<S[p[2]], 0, 0>>
    /\ alg \in {"tuple", "index"} => \A p : Rank(p) = <<p[1], p[2], 0>>
<1>1. alg = "block" => \A p : Rank(p) = <<(p[1] - 1) \div NumRecord, p[2], p[1]>>
      BY DEF Rank
<1>2. alg = "sort"  => \A p : Rank(p) = <<S[p[2]], 0, 0>>
      BY DEF Rank
<1>3. alg \in {"tuple", "index"} => \A p : Rank(p) = <<p[1], p[2], 0>>
      BY DEF Rank
<1> QED BY <1>1, <1>2, <1>3

\* The first of the records found is one of its own, and joins with R's; those
\* after it come after it, in the index join there are none.
LEMMA FoundFirst ==
    ASSUME IInv, pc = "fetch", found # << >>
    PROVE  /\ Head(found) \in 1 .. SizeOfS /\ Head(found) = found[1] /\ 1 \in 1 .. Len(found)
           /\ Head(found) \in index /\ recS \in 1 .. SizeOfS
           /\ Tail(found) \in Seq(1 .. SizeOfS) /\ Len(Tail(found)) \in Nat
           /\ \A i \in 1 .. Len(Tail(found)) :
                 i + 1 \in 1 .. Len(found) /\ Tail(found)[i] = found[i + 1]
           /\ \A i \in 1 .. Len(found) : i = 1 \/ i - 1 \in 1 .. Len(Tail(found))
           /\ <<r, Head(found)>> \in Wanted /\ r \in Nat
           /\ alg = "index" => Tail(found) = << >>
           /\ alg = "sort" => r = 0
<1>1. /\ Types /\ found \in Seq(1 .. SizeOfS) /\ Len(found) \in Nat /\ r \in 0 .. SizeOfR
      /\ alg \in {"index", "sort"} /\ SizeOfR \in Nat /\ SizeOfS \in Nat /\ recS \in 0 .. SizeOfS
      BY Lengths, Sizes DEF IInv, Types, Places
<1>2. Len(found) # 0
      BY <1>1, EmptySeq
<1>3. 1 \in 1 .. Len(found) /\ Head(found) = found[1]
      BY <1>1, <1>2
<1>4. /\ Head(found) \in 1 .. SizeOfS /\ Tail(found) \in Seq(1 .. SizeOfS)
      /\ Len(Tail(found)) = Len(found) - 1
      /\ \A i \in 1 .. Len(Tail(found)) : Tail(found)[i] = found[i + 1]
      BY <1>1, HeadTailProperties
<1>5. Head(found) \in index /\ recS # 0
      BY <1>3 DEF IInv, Listed
<1>6. /\ \A i \in 1 .. Len(Tail(found)) : i + 1 \in 1 .. Len(found)
      /\ \A i \in 1 .. Len(found) : i = 1 \/ i - 1 \in 1 .. Len(Tail(found))
      BY <1>1, <1>4
<1>7. CASE alg = "index"
  <2>1. r \in 1 .. SizeOfR /\ \A i \in 1 .. Len(found) : S[found[i]] = R[r]
        BY <1>1, <1>7 DEF IInv, Listed
  <2>2. <<r, Head(found)>> \in Wanted
        BY <1>1, <1>3, <1>4, <1>7, <2>1, Lengths DEF Wanted
  <2>3. Len(found) = 1
    <3>1. SUFFICES ASSUME Len(found) # 1 PROVE FALSE
          OBVIOUS
    <3>2. 1 \in 1 .. Len(found) /\ 2 \in 1 .. Len(found) /\ 1 < 2
      <4>1. Len(found) \in Nat /\ Len(found) # 0 /\ Len(found) # 1
            BY <1>1, <1>2, <3>1
      <4>2. \A n \in Nat : n # 0 /\ n # 1 => 1 \in 1 .. n /\ 2 \in 1 .. n /\ 1 < 2
            OBVIOUS
      <4> QED BY <4>1, <4>2
    <3>3. S[found[1]] < S[found[2]]
          BY <3>2 DEF IInv, Listed
    <3>4. S[found[1]] = S[found[2]] /\ S[found[1]] \in Int
          BY <1>1, <1>3, <1>4, <2>1, <3>2, Lengths
    <3> QED BY <3>3, <3>4
  <2>4. Tail(found) = << >>
    <3>1. Len(Tail(found)) = 0
          BY <1>4, <2>3
    <3> QED BY <1>4, <3>1, EmptySeq
  <2> QED BY <1>1, <1>3, <1>4, <1>5, <1>6, <1>7, <2>2, <2>4
<1>8. CASE alg = "sort"
  <2>1. r = 0
        BY <1>8 DEF IInv, Begun
  <2>2. <<r, Head(found)>> \in Wanted
        BY <1>1, <1>4, <1>8, <2>1, Lengths DEF Wanted
  <2> QED BY <1>1, <1>3, <1>4, <1>5, <1>6, <1>8, <2>1, <2>2
<1> QED BY <1>1, <1>7, <1>8

LEMMA FetchKeeps == ASSUME IInv, OrderInv, Fetch PROVE IInv' /\ OrderInv'
<1>1. /\ UNCHANGED <<alg, R, S, s, r, block, filled, endOfR, index, ret>>
      /\ pc = "fetch" /\ Types /\ failures \in Nat /\ r \in Nat
      BY Sizes DEF Fetch, GoTo, relations, outerVars, IInv, Types
<1>2. UNCHANGED failures \/ (failures < MaxFailures /\ failures' = failures + 1)
      BY DEF Fetch, Succeeds, Fails
<1>3. failures' \in 0 .. MaxFailures /\ failures' \in Nat /\ (failures' = 0 => failures = 0)
      BY <1>1, <1>2, Sizes DEF Types
<1>4. alg \in {"index", "sort"} /\ pc' \in {"fetch", "outer", "close"}
      BY <1>1 DEF Types, Places, Fetch, GoTo
<1>5. \A p \in Wanted : p = <<p[1], p[2]>> /\ p[1] \in Nat
      BY <1>1, Lengths DEF Wanted
<1>6. Rows' /\ Blocks'
      BY <1>1, <1>4 DEF Rows, Reading, Blocks, IInv
<1>7. /\ \A i \in 1 .. Len(found) : found[i] \in index
      /\ \A i, j \in 1 .. Len(found) : i < j => S[found[i]] < S[found[j]]
      /\ alg = "index" => r # 0 /\ \A i \in 1 .. Len(found) : S[found[i]] = R[r]
      BY <1>1 DEF IInv, Listed
<1>8. \A j \in 1 .. Len(T) : /\ T[j] \in Nat \X Nat
                             /\ alg = "index" => T[j][1] < r \/ (T[j][1] = r /\ found = << >>)
                             /\ alg = "sort" => \A i \in 1 .. Len(found) : S[T[j][2]] < S[found[i]]
      BY <1>1, Lengths DEF OrderInv, Reached
<1>9. ASSUME found # << >>, found' = Tail(found), pc' = "fetch", UNCHANGED open,
             \/ UNCHANGED failures /\ recS' = Head(found)
                /\ T' = Append(T, <<r, recS'>>) /\ UNCHANGED strays
             \/ failures' # 0 /\ strays' = strays \cup {recS} /\ UNCHANGED <<recS, T>>
             \/ failures' # 0 /\ recS' = Head(found) /\ UNCHANGED <<T, strays>>
      PROVE  IInv' /\ OrderInv'
  <2> DEFINE h == Head(found)
  <2>1. /\ h \in 1 .. SizeOfS /\ h = found[1] /\ 1 \in 1 .. Len(found)
        /\ h \in index /\ recS \in 1 .. SizeOfS
        /\ found' \in Seq(1 .. SizeOfS) /\ Len(found') \in Nat
        /\ \A i \in 1 .. Len(found') : i + 1 \in 1 .. Len(found) /\ found'[i] = found[i + 1]
        /\ \A i \in 1 .. Len(found) : i = 1 \/ i - 1 \in 1 .. Len(found')
        /\ <<r, h>> \in Wanted
        /\ alg = "index" => found' = << >>
        /\ alg = "sort" => r = 0
        BY <1>1, <1>9, FoundFirst
  <2>2. recS' \in 1 .. SizeOfS /\ strays' \subseteq 1 .. SizeOfS
        BY <1>1, <1>9, <2>1 DEF Types
  <2>3. /\ \/ failures' = failures /\ T' = Append(T, <<r, h>>)
           \/ failures' # 0 /\ T' = T
        BY <1>9
  <2>12. T' \in Seq(Nat \X Nat) => Types'
    <3>1. recS' \in 0 .. SizeOfS /\ found' \in Seq(1 .. SizeOfS) /\ open' \subseteq {"R", "S", "B"}
          BY <1>1, <1>9, <2>1, <2>2 DEF Types
    <3>2. Relations' /\ Places'
          BY <1>1, <1>9 DEF Types, Relations, Places
    <3> QED BY <1>1, <1>3, <1>9, <2>2, <3>1, <3>2 DEF Types
  <2> HIDE DEF h
  <2>4. Listed' /\ Begun'
    <3>1. \A i \in 1 .. Len(found') : found'[i] \in index
          BY <1>7, <2>1
    <3>2. \A i, j \in 1 .. Len(found') : i < j => S[found'[i]] < S[found'[j]]
      <4>1. \A i, j \in 1 .. Len(found') : i < j => i + 1 < j + 1
            OBVIOUS
      <4> QED BY <1>7, <2>1, <4>1
    <3>3. alg = "index" => r # 0 /\ \A i \in 1 .. Len(found') : S[found'[i]] = R[r]
          BY <1>7, <2>1
    <3>4. recS' # 0
          BY <2>2
    <3>5. alg = "sort" => r = 0
          BY <2>1
    <3> QED BY <1>1, <1>9, <3>1, <3>2, <3>3, <3>4, <3>5 DEF Listed, Begun
  <2>5. \A n : Left(n) => Left(n)' \/ n = h
    <3>1. SUFFICES ASSUME NEW n, NEW i \in 1 .. Len(found), found[i] = n PROVE Left(n)' \/ n = h
          BY DEF Left
    <3>2. CASE i = 1
          BY <2>1, <3>1, <3>2
    <3>3. CASE i - 1 \in 1 .. Len(found')
      <4>1. found'[i - 1] = found[(i - 1) + 1] /\ (i - 1) + 1 = i
            BY <2>1, <3>3
      <4> QED BY <3>1, <3>3, <4>1 DEF Left
    <3> QED BY <2>1, <3>2, <3>3
  <2>6. \A p \in Wanted : Dealt(p)' => Dealt(p) \/ p = <<r, h>>
    <3>1. ASSUME NEW p \in Wanted, Dealt(p)' PROVE Dealt(p) \/ (p[1] = r /\ p[2] = h)
      <4>1. CASE alg = "index"
            BY <1>1, <1>9, <2>5, <3>1, <4>1 DEF Dealt
      <4>2. CASE alg = "sort"
        <5>1. p[1] = 0
              BY <4>2 DEF Wanted
        <5> QED BY <1>1, <1>9, <2>1, <2>5, <3>1, <4>2, <5>1 DEF Dealt
      <4> QED BY <1>4, <4>1, <4>2
    <3> QED BY <1>5, <3>1
  <2>7. \A i \in 1 .. Len(found') : S[h] < S[found'[i]]
    <3>1. \A i \in 1 .. Len(found') : 1 < i + 1
          OBVIOUS
    <3> QED BY <1>7, <2>1, <3>1
  <2>8. \A p : Has(p) => Reached(p)'
    <3>1. \A p : Has(p) => (alg = "index" => p[1] < r)
          BY <1>8, <1>9 DEF Has
    <3>2. \A p, i : Has(p) /\ i \in 1 .. Len(found') => (alg = "sort" => S[p[2]] < S[found'[i]])
          BY <1>8, <2>1 DEF Has
    <3> QED BY <1>1, <1>4, <1>9, <3>1, <3>2 DEF Reached
  <2>9. \A p : p = <<r, h>> => Reached(p)'
    <3>1. <<r, h>>[1] = r /\ <<r, h>>[2] = h
          OBVIOUS
    <3> QED BY <1>1, <1>4, <1>9, <2>1, <2>7, <3>1 DEF Reached
  <2>10. CASE failures' = failures /\ T' = Append(T, <<r, h>>)
    <3> DEFINE u == << <<r, h>> >>
    <3>1. <<r, h>> \in Nat \X Nat /\ u \in Seq(Nat \X Nat) /\ Len(u) = 1 /\ u[1] = <<r, h>>
          BY <1>1, <2>1
    <3>2. T' = T \o u
          BY <1>1, <2>10, <3>1, AppendIsConcat DEF Types
    <3> HIDE DEF u
    <3>3. UNCHANGED relations /\ Sound /\ ResultInOrder
          BY <1>1 DEF relations, IInv, OrderInv
    <3>4. \A i \in 1 .. Len(u) : i = 1
          BY <3>1
    <3>5. ASSUME NEW j \in 1 .. Len(T) PROVE Precedes(Rank(T[j]), Rank(<<r, h>>))
      <4>1. CASE alg = "index"
        <5>1. T[j][1] < r
              BY <1>8, <1>9, <4>1
        <5> QED BY <4>1, <5>1, Ranks, PrecedesAt
      <4>2. CASE alg = "sort"
        <5>1. S[T[j][2]] < S[h]
              BY <1>8, <2>1, <4>2
        <5> QED BY <4>2, <5>1, Ranks, PrecedesAt
      <4> QED BY <1>4, <4>1, <4>2
    <3>6. /\ \A i \in 1 .. Len(u) : u[i] \in Wanted
          /\ \A j \in 1 .. Len(T), i \in 1 .. Len(u) : Precedes(Rank(T[j]), Rank(u[i]))
          /\ \A i, j \in 1 .. Len(u) : i < j => Precedes(Rank(u[i]), Rank(u[j]))
      <4>1. \A i, j \in 1 .. Len(u) : ~(i < j)
            BY <3>4
      <4> QED BY <2>1, <3>1, <3>4, <3>5, <4>1
    <3>7. Sound' /\ ResultInOrder' /\ Wanted' = Wanted
          BY <1>1, <3>1, <3>2, <3>3, <3>6, ExtendedKeeps
    <3>8. /\ T' \in Seq(Nat \X Nat)
          /\ \A j \in 1 .. Len(T) : j \in 1 .. Len(T') /\ T'[j] = T[j]
          /\ Len(T) + 1 \in 1 .. Len(T') /\ T'[Len(T) + 1] = <<r, h>>
          /\ \A j \in 1 .. Len(T') : j \in 1 .. Len(T) \/ T'[j] = <<r, h>>
      <4>1. 1 \in 1 .. Len(u)
            BY <3>1
      <4>2. /\ T' \in Seq(Nat \X Nat)
            /\ \A j \in 1 .. Len(T) : j \in 1 .. Len(T') /\ T'[j] = T[j]
            /\ \A j \in 1 .. Len(u) : Len(T) + j \in 1 .. Len(T') /\ T'[Len(T) + j] = u[j]
            /\ \A j \in 1 .. Len(T') : j \in 1 .. Len(T)
                   \/ (j - Len(T) \in 1 .. Len(u) /\ T'[j] = u[j - Len(T)])
            BY <1>1, <3>1, <3>2, <3>3, Extended
      <4>3. Len(T) + 1 \in 1 .. Len(T') /\ T'[Len(T) + 1] = <<r, h>>
            BY <3>1, <4>1, <4>2
      <4>4. \A j \in 1 .. Len(T') : j \in 1 .. Len(T) \/ T'[j] = <<r, h>>
            BY <3>1, <3>4, <4>2
      <4> QED BY <4>2, <4>3, <4>4
    <3>9. Types'
          BY <2>12, <3>8
    <3>10. Complete'
      <4>1. \A p : Has(p) \/ p = <<r, h>> => Has(p)'
            BY <3>8 DEF Has
      <4> QED BY <1>1, <1>3, <1>9, <2>6, <3>7, <4>1 DEF Complete, IInv
    <3>11. \A j \in 1 .. Len(T') : Reached(T[j])'
      <4>1. \A j \in 1 .. Len(T') : Has(T'[j]) \/ T'[j] = <<r, h>>
            BY <3>8 DEF Has
      <4> QED BY <2>8, <2>9, <4>1
    <3> QED BY <1>6, <2>4, <3>7, <3>9, <3>10, <3>11 DEF IInv, OrderInv
  <2>11. CASE failures' # 0 /\ T' = T
    <3>1. Sound' /\ ResultInOrder' /\ Wanted' = Wanted
          BY <1>1, <2>11, SameResult DEF relations
    <3>2. Types'
          BY <1>1, <2>11, <2>12 DEF Types
    <3>3. Complete'
          BY <2>11 DEF Complete
    <3>4. \A j \in 1 .. Len(T') : Reached(T[j])'
      <4>1. \A j \in 1 .. Len(T') : Has(T'[j])
            BY <2>11 DEF Has
      <4> QED BY <2>8, <4>1
    <3> QED BY <1>6, <2>4, <3>1, <3>2, <3>3, <3>4 DEF IInv, OrderInv
  <2> QED BY <2>3, <2>10, <2>11
<1>10. ASSUME UNCHANGED <<found, recS, T, strays>>, failures' = 0 => found = << >>,
              \/ alg = "index" /\ open' = open \ {"B"} /\ pc' = "outer"
              \/ alg = "sort" /\ UNCHANGED open /\ pc' = "close"
       PROVE  IInv' /\ OrderInv'
  <2>1. Sound' /\ ResultInOrder' /\ Wanted' = Wanted /\ (\A p : Has(p)' <=> Has(p))
        BY <1>1, <1>10, SameResult DEF relations
  <2>2. Types'
    <3>1. open' \subseteq {"R", "S", "B"}
          BY <1>1, <1>10 DEF Types
    <3> QED BY <1>1, <1>3, <1>10, <3>1 DEF Types, Places, Relations
  <2>3. Listed' /\ Begun'
        BY <1>1, <1>10 DEF Listed, Begun, IInv
  <2>4. Complete'
    <3>1. failures' = 0 => \A n : ~Left(n)
          BY <1>10, PiecesAre DEF Left
    <3>2. \A p \in Wanted : failures' = 0 /\ Dealt(p)' => Dealt(p)
          BY <1>1, <1>5, <1>10, <3>1 DEF Dealt
    <3> QED BY <1>1, <1>3, <1>10, <2>1, <3>2 DEF Complete, IInv
  <2>5. \A j \in 1 .. Len(T) : Reached(T[j])'
        BY <1>1, <1>8, <1>10 DEF Reached
  <2> QED BY <1>6, <1>10, <2>1, <2>2, <2>3, <2>4, <2>5 DEF IInv, OrderInv
<1>11. (Fails => failures' # 0) /\ (Succeeds => UNCHANGED failures)
       BY <1>1 DEF Fails, Succeeds
<1> QED BY <1>9, <1>10, <1>11 DEF Fetch, GoTo, result

\* The block that a record of R is in.
LEMMA BlockOf ==
    ASSUME NEW n \in Nat \ {0}, NEW k \in Nat, NEW a \in Nat \ {0}
    PROVE  /\ (a - 1) \div n \in Nat
           /\ n * k < a /\ a <= n * k + n => (a - 1) \div n = k
           /\ a <= n * k => (a - 1) \div n < k
<1> DEFINE c == (a - 1) \div n
<1>1. c \in Nat /\ c * n <= a - 1 /\ a - 1 < c * n + n
  <2>1. a - 1 \in Nat
        OBVIOUS
  <2> QED BY <2>1, Quotient
<1> HIDE DEF c
<1>2. n * k = k * n /\ k * n \in Nat /\ c * n \in Nat
      BY <1>1
<1>3. (c < k => c * n + n <= k * n) /\ (k < c => k * n + n <= c * n)
      BY <1>1, Multiple
<1>4. n * k < a /\ a <= n * k + n => c = k
  <2>1. n * k < a /\ a <= n * k + n => ~(c < k) /\ ~(k < c)
        BY <1>1, <1>2, <1>3
  <2> QED BY <1>1, <2>1
<1>5. a <= n * k => c < k
  <2>1. k < c \/ k = c => k * n <= c * n
        BY <1>1, <1>2, <1>3
  <2>2. a <= n * k => ~(k < c \/ k = c)
        BY <1>1, <1>2, <2>1
  <2> QED BY <1>1, <2>2
<1> QED BY <1>1, <1>4, <1>5 DEF c

\* The pairs that Insert puts at the end of the result: one for each record of
\* R among the pieces, in their order.
LEMMA Inserted ==
    ASSUME IInv, pc = "inner", s < SizeOfS,
           NEW P \in SUBSET (DOMAIN block), \A i \in P : block[i].attr = S[s + 1],
           Insert(s + 1, P)
    PROVE  /\ strays' \subseteq 1 .. SizeOfS
           /\ \E u \in Seq(Nat \X Nat) :
                 /\ T' = T \o u
                 /\ \A j \in 1 .. Len(u) : /\ u[j] = <<u[j][1], s + 1>>
                                           /\ u[j][1] \in 1 .. SizeOfR /\ R[u[j][1]] = S[s + 1]
                                           /\ Base < u[j][1] /\ u[j][1] <= Base + Room
                 /\ \A i, j \in 1 .. Len(u) : i < j => u[i][1] < u[j][1]
                 /\ \A i \in P : block[i].rec # 0 =>
                       \E j \in 1 .. Len(u) : u[j] = <<block[i].rec, s + 1>>
<1> DEFINE I   == {i \in P : block[i].rec # 0}
           key == [i \in P |-> i]
           q   == InOrder(I, key)
           u   == [j \in DOMAIN q |-> <<block[q[j]].rec, s + 1>>]
<1>1. /\ Types /\ s \in Nat /\ s + 1 \in 1 .. SizeOfS /\ Base \in Nat /\ Room \in Nat
      /\ Len(block) = Width /\ Len(block) \in Nat /\ DOMAIN block = 1 .. Len(block)
      /\ strays \subseteq 1 .. SizeOfS
  <2>1. Types /\ s \in Nat /\ s + 1 \in 1 .. SizeOfS /\ strays \subseteq 1 .. SizeOfS /\ Room \in Nat
        BY Sizes DEF IInv, Types, Room
  <2>2. Base \in Nat /\ Len(block) = Width
        BY DEF IInv, Rows, Reading
  <2> QED BY <2>1, <2>2, Lengths
<1>2. T' = T \o u /\ strays' \in {strays, strays \cup {s + 1}}
      BY DEF Insert
<1>3. strays' \subseteq 1 .. SizeOfS
      BY <1>1, <1>2
<1>4. IsFiniteSet(I) /\ \A x \in I : x \in 0 .. Len(block)
  <2>1. IsFiniteSet(1 .. Len(block)) /\ I \subseteq 1 .. Len(block)
        BY <1>1, FS_Interval
  <2> QED BY <1>1, <2>1, FS_Subset
<1>5. \A x \in I : key[x] = x
      OBVIOUS
<1>6. \A i \in I : /\ block[i] = Holds(Base + i) /\ Base + i \in 1 .. SizeOfR
                   /\ i \in Nat \ {0} /\ i <= Room /\ block[i].attr = S[s + 1]
  <2>1. \A i \in I : i \in 1 .. Width /\ block[i].rec # 0 /\ block[i].attr = S[s + 1]
        BY <1>1
  <2> HIDE DEF I
  <2>2. \A i \in 1 .. Width : block[i].rec # 0 =>
            i <= Room /\ Base + i \in 1 .. SizeOfR /\ block[i] = Holds(Base + i)
        BY DEF IInv, Rows, Reading
  <2>3. \A i \in 1 .. Width : i \in Nat \ {0}
        BY <1>1
  <2> QED BY <2>1, <2>2, <2>3
<1>7. \A i \in I : /\ block[i].rec = Base + i /\ R[Base + i] = S[s + 1]
                   /\ Base + i \in 1 .. SizeOfR /\ Base < Base + i /\ Base + i <= Base + Room
  <2> HIDE DEF I
  <2>1. \A i \in I : block[i].rec = Base + i /\ block[i].attr = R[Base + i]
    <3>1. \A n : Holds(n).rec = n /\ Holds(n).attr = R[n]
          BY DEF Holds
    <3> QED BY <1>6, <3>1
  <2>2. \A i \in I : Base < Base + i /\ Base + i <= Base + Room
        BY <1>1, <1>6
  <2> QED BY <1>6, <2>1, <2>2
<1>8. \A i \in P : block[i].rec # 0 => i \in I
      OBVIOUS
<1> HIDE DEF I, key
<1>9. Keyed(I, Len(block), key)
      BY <1>4, <1>5 DEF Keyed
<1>10. /\ Len(q) \in Nat /\ DOMAIN q = 1 .. Len(q)
       /\ \A j \in 1 .. Len(q) : q[j] \in I
       /\ \A x \in I : \E j \in 1 .. Len(q) : q[j] = x
       /\ \A i, j \in 1 .. Len(q) : i < j => key[q[i]] < key[q[j]]
  <2>1. Sorted(q, I, key)
        BY <1>1, <1>4, <1>9, InOrderIs
  <2> HIDE DEF q
  <2> QED BY <2>1 DEF Sorted
<1> HIDE DEF q
<1>11. /\ DOMAIN u = 1 .. Len(q)
       /\ \A j \in 1 .. Len(q) : u[j] = <<Base + q[j], s + 1>>
       BY <1>7, <1>10
<1>12. u \in [1 .. Len(q) -> Nat \X Nat]
  <2>1. \A j \in 1 .. Len(q) : Base + q[j] \in Nat
        BY <1>7, <1>10
  <2>2. u = [j \in 1 .. Len(q) |-> u[j]]
        BY <1>10
  <2>3. \A j \in 1 .. Len(q) : u[j] \in Nat \X Nat
        BY <1>1, <1>11, <2>1
  <2> HIDE DEF u
  <2> QED BY <2>2, <2>3
<1>13. u \in Seq(Nat \X Nat) /\ Len(u) = Len(q)
       BY <1>10, <1>12, IsSequence
<1> HIDE DEF u
<1>14. \A j \in 1 .. Len(u) : /\ u[j] = <<u[j][1], s + 1>>
                              /\ u[j][1] \in 1 .. SizeOfR /\ R[u[j][1]] = S[s + 1]
                              /\ Base < u[j][1] /\ u[j][1] <= Base + Room
  <2>1. \A j \in 1 .. Len(u) : u[j] = <<Base + q[j], s + 1>> /\ q[j] \in I
        BY <1>10, <1>11, <1>13
  <2>2. \A j \in 1 .. Len(u) : u[j][1] = Base + q[j]
        BY <2>1
  <2> QED BY <1>7, <2>1, <2>2
<1>15. \A i, j \in 1 .. Len(u) : i < j => u[i][1] < u[j][1]
  <2>1. \A j \in 1 .. Len(q) : key[q[j]] = q[j] /\ q[j] \in Int
        BY <1>5, <1>6, <1>10
  <2>2. \A i, j \in 1 .. Len(q) : i < j => q[i] < q[j]
        BY <1>10, <2>1
  <2>3. \A j \in 1 .. Len(q) : u[j][1] = Base + q[j]
        BY <1>11
  <2>4. \A i, j \in 1 .. Len(q) : i < j => u[i][1] < u[j][1]
        BY <1>1, <2>1, <2>2, <2>3
  <2> QED BY <1>13, <2>4
<1>16. \A i \in P : block[i].rec # 0 => \E j \in 1 .. Len(u) : u[j] = <<block[i].rec, s + 1>>
  <2>1. SUFFICES ASSUME NEW i \in P, block[i].rec # 0
                 PROVE  \E j \in 1 .. Len(u) : u[j] = <<block[i].rec, s + 1>>
        OBVIOUS
  <2>2. i \in I /\ block[i].rec = Base + i
        BY <1>7, <1>8, <2>1
  <2>3. PICK j \in 1 .. Len(q) : q[j] = i
        BY <1>10, <2>2
  <2>4. u[j] = <<block[i].rec, s + 1>>
        BY <1>11, <2>2, <2>3
  <2> QED BY <1>13, <2>4
<1> QED BY <1>2, <1>3, <1>13, <1>14, <1>15, <1>16

\* What the tuple and the block join find comes after what they had, and in
\* the order of R.
LEMMA NextOfS ==
    ASSUME IInv, OrderInv, pc = "inner", NEW u \in Seq(Nat \X Nat),
           \A j \in 1 .. Len(u) : /\ u[j][2] = s + 1 /\ u[j][1] \in 1 .. SizeOfR
                                  /\ Base < u[j][1] /\ u[j][1] <= Base + Room,
           \A i, j \in 1 .. Len(u) : i < j => u[i][1] < u[j][1]
    PROVE  /\ \A j \in 1 .. Len(T), i \in 1 .. Len(u) : Precedes(Rank(T[j]), Rank(u[i]))
           /\ \A i, j \in 1 .. Len(u) : i < j => Precedes(Rank(u[i]), Rank(u[j]))
<1>1. Types /\ alg \in {"tuple", "block"} /\ Base \in Nat /\ SizeOfR \in Nat /\ s \in Nat
      BY Sizes DEF IInv, Types, Places, Rows, Reading
<1>2. \A j \in 1 .. Len(T) :
          /\ T[j][1] \in 1 .. SizeOfR /\ T[j][2] \in 1 .. SizeOfS
          /\ T[j][1] <= Base \/ (T[j][1] <= Base + Room /\ T[j][2] <= s)
  <2>1. \A j \in 1 .. Len(T) : T[j] \in Wanted /\ Reached(T[j])
        BY DEF IInv, Sound, OrderInv
  <2>2. \A p \in Wanted : p[1] \in 1 .. SizeOfR /\ p[2] \in 1 .. SizeOfS
        BY <1>1, Lengths DEF Wanted
  <2> QED BY <2>1, <2>2 DEF Reached
<1>3. CASE alg = "tuple"
  <2>1. Room = 1
        BY <1>3 DEF Room
  <2>2. \A j \in 1 .. Len(u) : u[j][1] = Base + 1 /\ u[j][2] = s + 1
        BY <1>1, <2>1
  <2>3. ASSUME NEW j \in 1 .. Len(T), NEW i \in 1 .. Len(u)
        PROVE  Precedes(Rank(T[j]), Rank(u[i]))
    <3>1. T[j][1] < u[i][1] \/ (T[j][1] = u[i][1] /\ T[j][2] < u[i][2])
      <4>1. /\ T[j][1] \in Int /\ T[j][2] \in Int
            /\ T[j][1] <= Base \/ (T[j][1] <= Base + 1 /\ T[j][2] <= s)
            BY <1>2, <2>1
      <4>2. CASE T[j][1] <= Base
        <5>1. T[j][1] < Base + 1
              BY <1>1, <4>1, <4>2
        <5> QED BY <2>2, <5>1
      <4>3. CASE T[j][1] <= Base + 1 /\ T[j][2] <= s
        <5>1. \A a, b \in Int : a <= b => a < b \/ a = b
              OBVIOUS
        <5>2. T[j][1] \in Int /\ Base + 1 \in Int /\ T[j][1] <= Base + 1
              BY <1>1, <4>1, <4>3
        <5>3. T[j][1] < Base + 1 \/ T[j][1] = Base + 1
              BY <5>1, <5>2
        <5>4. T[j][2] < s + 1
              BY <1>1, <4>1, <4>3
        <5> QED BY <2>2, <5>3, <5>4
      <4> QED BY <4>1, <4>2, <4>3
    <3> QED BY <1>3, <3>1, Ranks, PrecedesAt
  <2>4. ASSUME NEW i \in 1 .. Len(u), NEW j \in 1 .. Len(u), i < j
        PROVE  Precedes(Rank(u[i]), Rank(u[j]))
    <3>1. u[i][1] < u[j][1]
          BY <2>4
    <3> QED BY <1>3, <3>1, Ranks, PrecedesAt
  <2> QED BY <2>3, <2>4
<1>4. CASE alg = "block"
  <2>1. Room = NumRecord /\ NumRecord \in Nat \ {0}
        BY <1>4, Sizes DEF Room
  <2>2. PICK k \in Nat : Base = NumRecord * k
        BY <1>4 DEF IInv, Blocks, Reading
  <2>3. \A j \in 1 .. Len(u) : u[j][1] \in Nat \ {0} /\ (u[j][1] - 1) \div NumRecord = k
    <3>1. \A j \in 1 .. Len(u) : /\ u[j][1] \in Nat \ {0} /\ NumRecord * k < u[j][1]
                                 /\ u[j][1] <= NumRecord * k + NumRecord
      <4>1. \A j \in 1 .. Len(u) : u[j][1] \in Nat \ {0} /\ Base < u[j][1] /\ u[j][1] <= Base + NumRecord
            BY <1>1, <2>1
      <4> QED BY <2>2, <4>1
    <3> QED BY <2>1, <3>1, BlockOf
  <2>4. ASSUME NEW j \in 1 .. Len(T), NEW i \in 1 .. Len(u)
        PROVE  Precedes(Rank(T[j]), Rank(u[i]))
    <3> DEFINE c == (T[j][1] - 1) \div NumRecord
    <3>1. /\ T[j][1] \in Nat \ {0} /\ T[j][2] \in Int
          /\ T[j][1] <= NumRecord * k \/ (T[j][1] <= NumRecord * k + NumRecord /\ T[j][2] <= s)
      <4>1. /\ T[j][1] \in 1 .. SizeOfR /\ T[j][2] \in 1 .. SizeOfS
            /\ T[j][1] <= Base \/ (T[j][1] <= Base + NumRecord /\ T[j][2] <= s)
            BY <1>2, <2>1
      <4> QED BY <2>2, <4>1
    <3>2. c < k \/ (c = k /\ T[j][2] <= s)
      <4>1. /\ NumRecord * k < T[j][1] /\ T[j][1] <= NumRecord * k + NumRecord => c = k
            /\ T[j][1] <= NumRecord * k => c < k
            BY <2>1, <3>1, BlockOf
      <4>2. NumRecord * k < T[j][1] \/ T[j][1] <= NumRecord * k
            BY <2>1, <3>1
      <4> HIDE DEF c
      <4> QED BY <3>1, <4>1, <4>2
    <3>3. T[j][2] <= s => T[j][2] < s + 1
          BY <1>1, <3>1
    <3>4. Rank(T[j]) = <<c, T[j][2], T[j][1]>> /\ Rank(u[i]) = <<k, s + 1, u[i][1]>>
          BY <1>4, <2>3, Ranks
    <3> HIDE DEF c
    <3> QED BY <3>2, <3>3, <3>4, PrecedesAt
  <2>5. ASSUME NEW i \in 1 .. Len(u), NEW j \in 1 .. Len(u), i < j
        PROVE  Precedes(Rank(u[i]), Rank(u[j]))
    <3>1. u[i][1] < u[j][1]
          BY <2>5
    <3>2. Rank(u[i]) = <<k, s + 1, u[i][1]>> /\ Rank(u[j]) = <<k, s + 1, u[j][1]>>
          BY <1>4, <2>3, Ranks
    <3> QED BY <3>1, <3>2, PrecedesAt
  <2> QED BY <2>4, <2>5
<1> QED BY <1>1, <1>3, <1>4

LEMMA CompareKeeps == ASSUME IInv, OrderInv, Inner, Compare PROVE IInv' /\ OrderInv'
<1>1. /\ UNCHANGED <<alg, R, S, r, block, filled, endOfR, index, found, recS, open, ret>>
      /\ pc = "inner" /\ pc' = "inner" /\ Types /\ s < Len(S) /\ s' = s + 1
      BY DEF Inner, Compare, GoTo, relations, outerVars, indexVars, IInv
<1>2. /\ alg \in {"tuple", "block"} /\ failures \in Nat /\ s \in Nat /\ s < SizeOfS
      /\ s + 1 \in 1 .. SizeOfS /\ DOMAIN block = 1 .. Len(block)
      BY <1>1, Lengths, Sizes DEF Types, Places
<1> DEFINE equal == {i \in DOMAIN block : block[i].attr = S[s + 1]}
<1>3. \E P \in SUBSET equal : /\ Insert(s + 1, P)
                              /\ failures' \in 0 .. MaxFailures /\ failures' \in Nat
                              /\ failures' = 0 => failures = 0 /\ P = equal
  <2>1. \/ Succeeds /\ Insert(s + 1, equal)
        \/ Fails /\ \E i \in equal : Insert(s + 1, equal \ {i})
        BY DEF Compare
  <2> HIDE DEF equal
  <2>2. CASE Succeeds /\ Insert(s + 1, equal)
        BY <1>1, <1>2, <2>2 DEF Succeeds, Types
  <2>3. CASE Fails /\ \E i \in equal : Insert(s + 1, equal \ {i})
    <3>1. failures' \in 0 .. MaxFailures /\ failures' \in Nat /\ failures' # 0
          BY <1>2, <2>3, Sizes DEF Fails
    <3> QED BY <2>3, <3>1
  <2> QED BY <2>1, <2>2, <2>3
<1>4. PICK P \in SUBSET equal : /\ Insert(s + 1, P)
                                /\ failures' \in 0 .. MaxFailures /\ failures' \in Nat
                                /\ failures' = 0 => failures = 0 /\ P = equal
      BY <1>3
<1>5. strays' \subseteq 1 .. SizeOfS /\
      \E u \in Seq(Nat \X Nat) :
          /\ T' = T \o u
          /\ \A j \in 1 .. Len(u) : /\ u[j] = <<u[j][1], s + 1>>
                                    /\ u[j][1] \in 1 .. SizeOfR /\ R[u[j][1]] = S[s + 1]
                                    /\ Base < u[j][1] /\ u[j][1] <= Base + Room
          /\ \A i, j \in 1 .. Len(u) : i < j => u[i][1] < u[j][1]
          /\ \A i \in P : block[i].rec # 0 =>
                \E j \in 1 .. Len(u) : u[j] = <<block[i].rec, s + 1>>
  <2>1. P \in SUBSET (DOMAIN block) /\ \A i \in P : block[i].attr = S[s + 1]
        OBVIOUS
  <2> QED BY <1>1, <1>2, <1>4, <2>1, Inserted
<1>6. PICK u \in Seq(Nat \X Nat) :
          /\ T' = T \o u
          /\ \A j \in 1 .. Len(u) : /\ u[j] = <<u[j][1], s + 1>>
                                    /\ u[j][1] \in 1 .. SizeOfR /\ R[u[j][1]] = S[s + 1]
                                    /\ Base < u[j][1] /\ u[j][1] <= Base + Room
          /\ \A i, j \in 1 .. Len(u) : i < j => u[i][1] < u[j][1]
          /\ \A i \in P : block[i].rec # 0 =>
                \E j \in 1 .. Len(u) : u[j] = <<block[i].rec, s + 1>>
      BY <1>5
<1>7. \A j \in 1 .. Len(u) : u[j] = <<u[j][1], s + 1>> /\ u[j][2] = s + 1
      BY <1>6
<1>8. UNCHANGED relations /\ Sound /\ ResultInOrder
      BY <1>1 DEF relations, IInv, OrderInv
<1>9. Sound' /\ ResultInOrder' /\ Wanted' = Wanted
  <2>1. \A i \in 1 .. Len(u) : u[i] \in Wanted
    <3>1. Wanted = {p \in (1 .. SizeOfR) \X (1 .. SizeOfS) : R[p[1]] = S[p[2]]}
          BY <1>1, <1>2, Lengths DEF Wanted
    <3>2. \A i \in 1 .. Len(u) : u[i] \in (1 .. SizeOfR) \X (1 .. SizeOfS) /\ R[u[i][1]] = S[u[i][2]]
      <4>1. ASSUME NEW i \in 1 .. Len(u)
            PROVE  u[i] \in (1 .. SizeOfR) \X (1 .. SizeOfS) /\ R[u[i][1]] = S[u[i][2]]
        <5>1. u[i][1] \in 1 .. SizeOfR /\ R[u[i][1]] = S[s + 1] /\ u[i][2] = s + 1 /\ u[i] = <<u[i][1], s + 1>>
              BY <1>6, <1>7
        <5> QED BY <1>2, <5>1
      <4> QED BY <4>1
    <3> QED BY <3>1, <3>2
  <2>2. /\ \A j \in 1 .. Len(T), i \in 1 .. Len(u) : Precedes(Rank(T[j]), Rank(u[i]))
        /\ \A i, j \in 1 .. Len(u) : i < j => Precedes(Rank(u[i]), Rank(u[j]))
        BY <1>1, <1>6, <1>7, NextOfS
  <2> QED BY <1>1, <1>6, <1>8, <2>1, <2>2, ExtendedKeeps
<1>10. /\ T' \in Seq(Nat \X Nat)
       /\ \A j \in 1 .. Len(T) : j \in 1 .. Len(T') /\ T'[j] = T[j]
       /\ \A j \in 1 .. Len(u) : Len(T) + j \in 1 .. Len(T') /\ T'[Len(T) + j] = u[j]
       /\ \A j \in 1 .. Len(T') : j \in 1 .. Len(T)
              \/ (j - Len(T) \in 1 .. Len(u) /\ T'[j] = u[j - Len(T)])
       BY <1>1, <1>6, <1>8, Extended
<1>11. \A p : Has(p) \/ (\E j \in 1 .. Len(u) : u[j] = p) => Has(p)'
       BY <1>10 DEF Has
<1>12. Full' = Full /\ Room' = Room /\ Width' = Width /\ Base' = Base /\ \A n : Holds(n)' = Holds(n)
       BY <1>1 DEF Full, Room, Width, Base, Holds
<1>13. Types'
       BY <1>1, <1>2, <1>4, <1>5, <1>10 DEF Types, Places, Relations
<1>14. Rows'
       BY <1>1, <1>12 DEF IInv, Rows, Reading
<1>15. Blocks' /\ Listed' /\ Begun'
       BY <1>1, <1>12 DEF IInv, Blocks, Reading, Listed, Begun
<1>16. /\ Base = r - Full /\ Base \in Nat /\ Full \in Nat /\ r \in Nat /\ Full <= Width
       /\ Len(block) = Width /\ Width \in Nat
       /\ \A i \in 1 .. Full : block[i] = Holds(Base + i)
  <2>1. Full \in Nat /\ Full <= Width /\ r \in Nat /\ Width \in Nat
    <3>1. filled \in Nat /\ filled <= Pieces /\ r \in Nat /\ Pieces \in Nat
          BY <1>1, Sizes DEF Types
    <3> QED BY <1>2, <3>1 DEF Full, Width
  <2> QED BY <1>1, <2>1 DEF IInv, Rows, Reading, Base
<1>17. Complete'
  <2>1. SUFFICES ASSUME failures' = 0 PROVE Complete'
        BY DEF Complete
  <2>2. failures = 0 /\ P = equal
        BY <1>4, <2>1
  <2>3. ASSUME NEW p \in Wanted, Dealt(p)' PROVE Has(p)'
    <3>1. p[1] \in 1 .. SizeOfR /\ p[2] \in 1 .. SizeOfS /\ R[p[1]] = S[p[2]] /\ p = <<p[1], p[2]>>
          BY <1>1, <1>2, Lengths DEF Wanted
    <3>2. p[1] <= Base \/ (p[1] <= r /\ p[2] <= s + 1)
          BY <1>1, <1>12, <2>3 DEF Dealt
    <3>3. CASE p[1] <= Base \/ (p[1] <= r /\ p[2] <= s)
      <4>1. Dealt(p)
            BY <1>1, <3>3 DEF Dealt
      <4> QED BY <1>11, <2>2, <4>1 DEF IInv, Complete
    <3>4. CASE ~(p[1] <= Base) /\ p[1] <= r /\ p[2] = s + 1
      <4> DEFINE i == p[1] - Base
      <4>1. i \in 1 .. Full /\ Base + i = p[1] /\ i \in 1 .. Width
        <5>1. /\ p[1] \in Nat /\ ~(p[1] <= Base) /\ p[1] <= r /\ r \in Nat /\ Base = r - Full
              /\ Base \in Nat /\ Full \in Nat /\ Width \in Nat /\ Full <= Width
              BY <1>16, <3>1, <3>4
        <5>2. \A a, b, c, d, e \in Nat : ~(a <= b) /\ a <= c /\ b = c - d /\ d <= e
                  => a - b \in 1 .. d /\ b + (a - b) = a /\ a - b \in 1 .. e
              OBVIOUS
        <5> QED BY <5>1, <5>2
      <4> HIDE DEF i
      <4>2. block[i] = Holds(p[1])
            BY <1>16, <4>1
      <4>3. block[i].rec = p[1] /\ block[i].attr = S[s + 1]
            BY <3>1, <3>4, <4>2 DEF Holds
      <4>4. i \in P /\ block[i].rec # 0
            BY <1>2, <1>16, <2>2, <3>1, <4>1, <4>3
      <4>5. \E j \in 1 .. Len(u) : u[j] = p
            BY <1>6, <3>1, <3>4, <4>3, <4>4
      <4> QED BY <1>11, <4>5
    <3> QED BY <1>2, <3>1, <3>2, <3>3, <3>4
  <2>4. alg = "block" /\ endOfR' => r' = SizeOfR
        BY <1>1, <2>2 DEF IInv, Complete
  <2> QED BY <1>1, <1>2, <1>9, <2>3, <2>4 DEF Complete
<1>18. \A j \in 1 .. Len(T') : Reached(T[j])'
  <2>1. \A p : Reached(p) => (p[1] <= Base \/ (p[1] <= Base + Room /\ p[2] <= s))
        BY <1>1 DEF Reached
  <2>2. ASSUME NEW j \in 1 .. Len(T')
        PROVE  T'[j][1] <= Base \/ (T'[j][1] <= Base + Room /\ T'[j][2] <= s + 1)
    <3>1. CASE j \in 1 .. Len(T)
      <4>1. Reached(T[j]) /\ T'[j] = T[j] /\ T[j][2] \in Nat
            BY <1>1, <1>10, <3>1, Lengths DEF OrderInv
      <4>2. T[j][2] <= s => T[j][2] <= s + 1
            BY <1>2, <4>1
      <4> QED BY <2>1, <4>1, <4>2
    <3>2. CASE j - Len(T) \in 1 .. Len(u) /\ T'[j] = u[j - Len(T)]
      <4>1. T'[j][1] <= Base + Room /\ T'[j][2] = s + 1
            BY <1>6, <1>7, <3>2
      <4> QED BY <1>2, <4>1
    <3> QED BY <1>10, <3>1, <3>2
  <2> QED BY <1>1, <1>12, <2>2 DEF Reached
<1> QED BY <1>9, <1>13, <1>14, <1>15, <1>17, <1>18 DEF IInv, OrderInv

-----------------------------------------------------------------------------
(* The invariants of the specification *)

LEMMA Initially == ASSUME Init PROVE IInv /\ OrderInv
<1>1. /\ pc = "open" /\ ret = "none" /\ failures = 0 /\ r = 0 /\ s = 0 /\ block = << >>
      /\ filled = 0 /\ endOfR = FALSE /\ index = {} /\ found = << >> /\ recS = 0
      /\ T = << >> /\ strays = {} /\ open = {} /\ alg \in {"tuple", "block", "index", "sort"}
      /\ R \in CreateR /\ S \in CreateS
      BY DEF Init
<1>2. Relations
  <2>1. PICK p \in RandomPermutate(SizeOfS) : S = [i \in 1 .. SizeOfS |-> p[i - 1]]
        BY <1>1 DEF CreateS
  <2>2. p \in Permuted(SizeOfS)
        BY <2>1, Sizes, ShufflesArePermutations
  <2>3. /\ p \in [0 .. SizeOfS - 1 -> 0 .. SizeOfS - 1]
        /\ \A a, b \in 0 .. SizeOfS - 1 : p[a] = p[b] => a = b
        BY <2>2 DEF Permuted, Injection, IsInjective
  <2>4. \A i \in 1 .. SizeOfS : i - 1 \in 0 .. SizeOfS - 1 /\ S[i] = p[i - 1]
        BY <2>1, Sizes
  <2>5. S \in [1 .. SizeOfS -> 0 .. SizeOfS - 1]
        BY <2>1, <2>3, <2>4
  <2>6. ASSUME NEW a \in 1 .. SizeOfS, NEW b \in 1 .. SizeOfS, S[a] = S[b] PROVE a = b
    <3>1. a - 1 = b - 1
          BY <2>3, <2>4, <2>6
    <3> QED BY <3>1
  <2> QED BY <1>1, <2>5, <2>6 DEF Relations, CreateR
<1>3. Types
  <2>1. block \in Seq(Piece) /\ found \in Seq(1 .. SizeOfS) /\ T \in Seq(Nat \X Nat)
        BY <1>1
  <2>2. /\ r \in 0 .. SizeOfR /\ s \in 0 .. SizeOfS /\ recS \in 0 .. SizeOfS
        /\ filled \in 0 .. NumRecord /\ failures \in 0 .. MaxFailures
        BY <1>1, Sizes
  <2>3. Places /\ endOfR \in BOOLEAN /\ (pc = "returned" <=> ret # "none")
        BY <1>1 DEF Places
  <2>4. ret \in {"none", "file", "NULL"}
        BY <1>1
  <2> QED BY <1>1, <1>2, <2>1, <2>2, <2>3, <2>4 DEF Types
<1>4. Len(T) = 0 /\ Len(found) = 0 /\ Len(block) = 0 /\ DOMAIN T = {}
      BY <1>1
<1>5. Rows /\ Listed /\ Begun /\ Sound
      BY <1>1, <1>4 DEF Rows, Reading, Listed, Begun, Sound
<1>6. Blocks
  <2>1. NumRecord * 0 = 0
        BY Sizes
  <2> QED BY <1>1, <2>1 DEF Blocks, Reading
<1>7. Complete
      BY <1>1 DEF Complete, Dealt
<1>8. OrderInv
      BY <1>4 DEF OrderInv, ResultInOrder
<1> QED BY <1>3, <1>5, <1>6, <1>7, <1>8 DEF IInv

LEMMA Stuttering == ASSUME IInv, OrderInv, UNCHANGED vars PROVE IInv' /\ OrderInv'
<1>1. /\ UNCHANGED <<alg, R, S, pc, r, s, block, filled, endOfR, index, found, recS, T, strays>>
      /\ UNCHANGED <<open, failures, ret>>
      BY DEF vars, relations, outerVars, indexVars, result
<1>2. Types' /\ Blocks' /\ Begun' /\ Listed'
      BY <1>1 DEF IInv, Types, Places, Relations, Blocks, Reading, Base, Full, Begun, Listed
<1>3. Rows'
      BY <1>1 DEF IInv, Rows, Reading, Base, Full, Room, Width, Holds
<1>4. Sound' /\ ResultInOrder' /\ Wanted' = Wanted /\ (\A p : Has(p)' <=> Has(p))
      BY <1>1, SameResult DEF relations
<1>5. \A p : Dealt(p)' <=> Dealt(p)
      BY <1>1 DEF Dealt, Base, Full, Left
<1>6. Complete'
      BY <1>1, <1>4, <1>5 DEF IInv, Complete
<1>7. \A p : Reached(p)' <=> Reached(p)
      BY <1>1 DEF Reached, Base, Full, Room
<1> QED BY <1>1, <1>2, <1>3, <1>4, <1>6, <1>7 DEF IInv, OrderInv

LEMMA StepKeeps == ASSUME IInv, OrderInv, [Next]_vars PROVE IInv' /\ OrderInv'
<1>1. CASE Open
      BY <1>1, OpenKeeps
<1>2. CASE TupleOuter
      BY <1>2, TupleOuterKeeps
<1>3. CASE NewBlock
      BY <1>3, NewBlockKeeps
<1>4. CASE Fill
      BY <1>4, FillKeeps
<1>5. CASE OpenS
      BY <1>5, OpenSKeeps
<1>6. CASE Inner
  <2>1. Compare \/ EndOfS
        BY <1>6 DEF Inner
  <2> QED BY <1>6, <2>1, CompareKeeps, EndOfSKeeps
<1>7. CASE Build
      BY <1>7, BuildKeeps
<1>8. CASE IndexOuter
      BY <1>8, IndexOuterKeeps
<1>9. CASE Fetch
      BY <1>9, FetchKeeps
<1>10. CASE Close
       BY <1>10, CloseKeeps
<1>11. CASE UNCHANGED vars
       BY <1>11, Stuttering
<1> QED BY <1>1, <1>2, <1>3, <1>4, <1>5, <1>6, <1>7, <1>8, <1>9, <1>10, <1>11 DEF Next, Steps

LEMMA Invariance == Spec => [](IInv /\ OrderInv)
<1>1. IInv /\ OrderInv /\ [Next]_vars => (IInv /\ OrderInv)'
      BY StepKeeps
<1> QED BY <1>1, Initially, PTL DEF Spec

-----------------------------------------------------------------------------
(* What they show *)

\* The types: the scans stay within their relations, what is read into the
\* block within its B bytes, and what the index yields within the index.
THEOREM TypeCorrect == Spec => []TypeOK
<1>1. ASSUME IInv PROVE TypeOK
  <2>1. Types /\ Len(R) = SizeOfR /\ Len(S) = SizeOfS
        BY <1>1, Lengths DEF IInv
  <2>2. filled * recLenR <= B
        BY <2>1, Sizes DEF Types
  <2>3. \A i \in DOMAIN block : block[i].rec \in 0 .. r + 1
        BY <1>1, <2>1, Lengths DEF IInv, Rows
  <2>4. ToSet(found) \subseteq index
    <3>1. DOMAIN found = 1 .. Len(found)
          BY <2>1, LenProperties DEF Types
    <3> QED BY <1>1, <3>1 DEF ToSet, IInv, Listed
  <2>5. (pc = "returned") = (ret # "none")
        BY <2>1 DEF Types
  <2> QED BY <2>1, <2>2, <2>3, <2>4, <2>5 DEF TypeOK, Types
<1> QED BY <1>1, Invariance, PTL

\* The result of a join comes in the order of its loops, that of SortFile in
\* the order of the attribute, and no pair comes twice, whatever has failed.
THEOREM OrderKept == Spec => []ResultInOrder
<1>1. IInv /\ OrderInv => ResultInOrder
      BY DEF OrderInv
<1> QED BY <1>1, Invariance, PTL

\* What is found stays found.
LEMMA Grows ==
    ASSUME IInv, Steps
    PROVE  /\ UNCHANGED relations /\ pc # "returned"
           /\ failures \in Nat /\ failures' \in {failures, failures + 1}
           /\ \A p : Has(p) => Has(p)'
           /\ pc' = "returned" => UNCHANGED T
<1>1. UNCHANGED relations /\ pc # "returned" /\ Types
      BY DEF Steps, Open, TupleOuter, NewBlock, Fill, OpenS, Inner, Build, IndexOuter, Fetch, Close, IInv
<1>2. failures \in Nat /\ failures' \in {failures, failures + 1}
  <2>1. failures \in Nat
        BY <1>1, Sizes DEF Types
  <2>2. Succeeds \/ Fails
        BY DEF Steps, Open, Opened, OpenFails, TupleOuter, NewBlock, Fill, OpenS, Inner, Compare,
               EndOfS, Build, IndexOuter, Fetch, Close
  <2> QED BY <2>1, <2>2 DEF Succeeds, Fails
<1>3. CASE Inner /\ Compare
  <2>1. /\ s < SizeOfS /\ s + 1 \in 1 .. SizeOfS /\ pc = "inner" /\ pc' = "inner"
        BY <1>1, <1>3, Lengths, Sizes DEF Inner, Compare, GoTo, Types
  <2> DEFINE equal == {i \in DOMAIN block : block[i].attr = S[s + 1]}
  <2>2. \E P \in SUBSET equal : Insert(s + 1, P)
        BY <1>3 DEF Compare
  <2>3. PICK P \in SUBSET equal : Insert(s + 1, P)
        BY <2>2
  <2>4. P \in SUBSET (DOMAIN block) /\ \A i \in P : block[i].attr = S[s + 1]
        OBVIOUS
  <2>5. PICK u \in Seq(Nat \X Nat) : T' = T \o u
        BY <2>1, <2>3, <2>4, Inserted
  <2>6. \A j \in 1 .. Len(T) : j \in 1 .. Len(T') /\ T'[j] = T[j]
        BY <1>1, <2>5, Extended
  <2> QED BY <1>1, <1>2, <2>1, <2>6 DEF Has
<1>4. CASE Fetch
  <2>1. pc = "fetch" /\ pc' # "returned"
        BY <1>4 DEF Fetch, GoTo
  <2>2. T' = T \/ (found # << >> /\ T' = Append(T, <<r, Head(found)>>))
        BY <1>4 DEF Fetch, result
  <2>3. \A j \in 1 .. Len(T) : j \in 1 .. Len(T') /\ T'[j] = T[j]
    <3>1. CASE T' = T
          BY <3>1
    <3>2. CASE found # << >> /\ T' = Append(T, <<r, Head(found)>>)
      <4>1. <<r, Head(found)>> \in Nat \X Nat
            BY <2>1, <3>2, FoundFirst, Sizes
      <4>2. T \in Seq(Nat \X Nat) /\ Len(T) \in Nat
            BY <1>1, Lengths DEF Types
      <4> QED BY <3>2, <4>1, <4>2, AppendProperties
    <3> QED BY <2>2, <3>1, <3>2
  <2> QED BY <1>1, <1>2, <2>1, <2>3 DEF Has
<1>5. CASE ~(Inner /\ Compare) /\ ~Fetch
  <2>1. UNCHANGED T
        BY <1>5 DEF Steps, Open, TupleOuter, NewBlock, Fill, OpenS, Inner, EndOfS, Build,
                    IndexOuter, Close, result
  <2> QED BY <1>1, <1>2, <2>1 DEF Has
<1> QED BY <1>3, <1>4, <1>5

\* Each of the four functions is the join of JoinResult: what it puts into the
\* result from records that were read is a pair of the join, and all of them
\* are there when it returns, unless a call has failed.
THEOREM Refinement == Spec => JoinSpec
<1>1. ASSUME Init PROVE J!Init
  <2>1. T = << >> /\ ToSet(T) = {}
        BY <1>1 DEF Init, ToSet
  <2>2. (failures > 0) = FALSE /\ (pc = "returned") = FALSE
        BY <1>1 DEF Init
  <2> QED BY <2>1, <2>2 DEF J!Init
<1>2. ASSUME IInv, OrderInv, IInv', [Next]_vars
      PROVE  J!Next \/ UNCHANGED <<Wanted, ToSet(T), failures > 0, pc = "returned">>
  <2>1. CASE UNCHANGED vars
    <3>1. UNCHANGED <<alg, R, S, T, failures, pc>>
          BY <2>1 DEF vars, relations, result
    <3>2. Wanted' = Wanted
          BY <3>1 DEF Wanted
    <3> QED BY <3>1, <3>2
  <2>2. CASE Steps
    <3>1. /\ UNCHANGED relations /\ pc # "returned"
          /\ failures \in Nat /\ failures' \in {failures, failures + 1}
          /\ \A p : Has(p) => Has(p)'
          /\ pc' = "returned" => UNCHANGED T
          BY <1>2, <2>2, Grows
    <3>2. Wanted' = Wanted
          BY <3>1 DEF relations, Wanted
    <3>3. /\ ToSet(T) = {T[j] : j \in 1 .. Len(T)}
          /\ ToSet(T)' = {T'[j] : j \in 1 .. Len(T')}
      <4>1. DOMAIN T = 1 .. Len(T) /\ DOMAIN T' = 1 .. Len(T')
            BY <1>2, LenProperties DEF IInv, Types
      <4> QED BY <4>1 DEF ToSet
    <3>4. ToSet(T) \subseteq ToSet(T)' /\ ToSet(T)' \subseteq Wanted
      <4>1. Sound'
            BY <1>2 DEF IInv
      <4> QED BY <3>1, <3>2, <3>3, <4>1 DEF Has, Sound
    <3>5. (failures > 0)' \in {failures > 0, TRUE}
      <4>1. CASE failures' = failures
        <5>1. (failures > 0)' = (failures > 0)
              BY <4>1
        <5> QED BY <5>1
      <4>2. CASE failures' = failures + 1
        <5>1. (failures > 0)' = TRUE
              BY <3>1, <4>2
        <5> QED BY <5>1
      <4> QED BY <3>1, <4>1, <4>2
    <3>6. (pc = "returned") = FALSE
          BY <3>1
    <3>7. CASE pc' # "returned"
      <4>1. (pc = "returned")' = (pc = "returned")
            BY <3>6, <3>7
      <4>2. \E P \in SUBSET (Wanted \ ToSet(T)) : ToSet(T)' = ToSet(T) \cup P
        <5>1. ToSet(T)' = ToSet(T) \cup (ToSet(T)' \ ToSet(T))
              BY <3>4
        <5> QED BY <3>4, <5>1
      <4>3. J!Collect
            BY <3>2, <3>5, <3>6, <4>1, <4>2 DEF J!Collect
      <4> QED BY <4>3 DEF J!Next
    <3>8. CASE pc' = "returned"
      <4>1. ToSet(T)' = ToSet(T) /\ (pc = "returned")' = TRUE
            BY <3>1, <3>8 DEF ToSet
      <4>2. ToSet(T) = Wanted \/ (failures > 0)'
        <5>1. CASE failures' = 0
          <6>1. \A p \in Wanted : Has(p)'
                BY <1>2, <3>2, <3>8, <5>1 DEF IInv, Complete, Dealt
          <6>2. Wanted \subseteq ToSet(T)'
                BY <3>3, <6>1 DEF Has
          <6> QED BY <3>4, <4>1, <6>2
        <5>2. CASE failures' # 0
              BY <3>1, <5>2
        <5> QED BY <5>1, <5>2
      <4>3. J!Return
            BY <3>2, <3>5, <3>6, <4>1, <4>2 DEF J!Return
      <4> QED BY <4>3 DEF J!Next
    <3> QED BY <3>7, <3>8
  <2> QED BY <1>2, <2>1, <2>2 DEF Next
<1> QED BY <1>1, <1>2, Invariance, PTL DEF Spec, JoinSpec, J!Spec
-----------------------------------------------------------------------------
(* The joins come to an end *)

\* How many steps a function can still make at most.  A scan of S, or of what
\* the index has found, makes no more than Turn of them with those around it;
\* there is one for each record of R that was not read, and one more for the
\* block join until it has seen the end of R.
Turn     == SizeOfS + 5
Turns    == (SizeOfR - r) + (IF endOfR THEN 0 ELSE 1)
Reserve  == Turns * Turn
StepsLeft ==
    CASE pc = "open"  -> Reserve + Turn + SizeOfS + 2
      [] pc = "build" -> Reserve + Turn + (SizeOfS - s) + 1
      [] pc \in {"outer", "block"} -> Reserve + 2
      [] pc = "fill"  -> Reserve + (IF filled > 0 THEN Turn ELSE 1)
      [] pc = "openS" -> Reserve + SizeOfS + 4
      [] pc = "inner" -> Reserve + (SizeOfS - s) + 3
      [] pc = "fetch" -> Reserve + Len(found) + 3
      [] pc = "close" -> 1
      [] OTHER        -> 0

\* The scan of the index finds no record of S twice.
LEMMA FoundIsShort == ASSUME IInv PROVE Len(found) \in 0 .. SizeOfS
<1>1. /\ found \in Seq(1 .. SizeOfS) /\ S \in [1 .. SizeOfS -> 0 .. SizeOfS - 1]
      /\ \A i, j \in 1 .. Len(found) : i < j => S[found[i]] < S[found[j]]
      BY DEF IInv, Types, Relations, Listed
<1>2. Len(found) \in Nat /\ found \in [1 .. Len(found) -> 1 .. SizeOfS]
      BY <1>1, LenProperties
<1> DEFINE n == Len(found)
<1>3. \A i, j \in 1 .. n : found[i] = found[j] => i = j
  <2>1. ASSUME NEW i \in 1 .. n, NEW j \in 1 .. n, i # j PROVE found[i] # found[j]
    <3>1. i < j \/ j < i
          BY <1>2, <2>1
    <3>2. S[found[i]] \in Int /\ S[found[j]] \in Int
          BY <1>1, <1>2, <2>1
    <3>3. S[found[i]] < S[found[j]] \/ S[found[j]] < S[found[i]]
          BY <1>1, <3>1, <2>1
    <3> QED BY <3>2, <3>3
  <2> QED BY <2>1
<1>4. /\ IsFiniteSet(1 .. n) /\ Cardinality(1 .. n) = n
      /\ IsFiniteSet(1 .. SizeOfS) /\ Cardinality(1 .. SizeOfS) = SizeOfS
  <2>1. n \in Nat /\ n \in Int /\ SizeOfS \in Nat /\ SizeOfS \in Int /\ 1 \in Int
        BY <1>2, Sizes
  <2> HIDE DEF n
  <2>2. \A a \in Nat : a - 1 + 1 = a /\ (1 > a => a = 0)
        OBVIOUS
  <2>3. IsFiniteSet(1 .. n) /\ Cardinality(1 .. n) = n
        BY <2>1, <2>2, FS_Interval
  <2>4. IsFiniteSet(1 .. SizeOfS) /\ Cardinality(1 .. SizeOfS) = SizeOfS
        BY <2>1, <2>2, FS_Interval
  <2> QED BY <2>3, <2>4
<1> HIDE DEF n
<1>5. ~(SizeOfS < n)
  <2>1. SizeOfS < n =>
            \E i, j \in 1 .. n : i # j /\ found[i] = found[j]
        BY <1>2, <1>4, FS_PigeonHole DEF n
  <2> QED BY <1>3, <2>1
<1> QED BY <1>2, <1>5, Sizes DEF n

\* A turn more or less.
LEMMA TurnsAre ==
    /\ Turn \in Nat /\ Turn = SizeOfS + 5
    /\ \A k \in Nat : k * Turn \in Nat
    /\ \A k \in Nat : k # 0 => (k - 1) * Turn = k * Turn - Turn
<1>1. Turn \in Nat
      BY Sizes DEF Turn
<1>2. \A k, t \in Nat : k * t \in Nat /\ (k # 0 => (k - 1) * t = k * t - t)
      OBVIOUS
<1> QED BY <1>1, <1>2 DEF Turn

LEMMA ReserveIs == ASSUME IInv PROVE Turns \in Nat /\ Reserve \in Nat
<1>1. r \in 0 .. SizeOfR /\ SizeOfR \in Nat
      BY Sizes DEF IInv, Types
<1>2. Turns \in Nat
      BY <1>1 DEF Turns
<1> QED BY <1>2, TurnsAre DEF Reserve

LEMMA StepsLeftIs == ASSUME IInv PROVE StepsLeft \in Nat /\ (~Stopped => StepsLeft > 0)
<1>1. /\ Reserve \in Nat /\ Turn \in Nat /\ Len(found) \in Nat
      /\ SizeOfS \in Nat /\ s \in 0 .. SizeOfS
      BY ReserveIs, TurnsAre, FoundIsShort, Sizes DEF IInv, Types
<1>2. pc \in {"open", "build", "outer", "block", "fill", "openS", "inner", "fetch", "close",
              "returned", "undefined"}
      BY DEF IInv, Types, Places
<1>3. Turn > 0
      BY Sizes DEF Turn
<1> DEFINE z == StepsLeft
<1>4. /\ (pc = "open"  => z = Reserve + Turn + SizeOfS + 2)
      /\ (pc = "build" => z = Reserve + Turn + (SizeOfS - s) + 1)
      /\ (pc \in {"outer", "block"} => z = Reserve + 2)
      /\ (pc = "fill"  => z = Reserve + (IF filled > 0 THEN Turn ELSE 1))
      /\ (pc = "openS" => z = Reserve + SizeOfS + 4)
      /\ (pc = "inner" => z = Reserve + (SizeOfS - s) + 3)
      /\ (pc = "fetch" => z = Reserve + Len(found) + 3)
      /\ (pc = "close" => z = 1)
      /\ (pc \in {"returned", "undefined"} => z = 0)
      BY DEF StepsLeft
<1> HIDE DEF z
<1>5. z \in Nat /\ (pc \notin {"returned", "undefined"} => z > 0)
      BY <1>1, <1>2, <1>3, <1>4
<1> QED BY <1>5 DEF Stopped, z

\* What a step makes of the reserve.
LEMMA ReserveStays ==
    ASSUME IInv, UNCHANGED <<r, endOfR>> PROVE Reserve' = Reserve
BY DEF Reserve, Turns, Turn

LEMMA ReserveFalls ==
    ASSUME IInv, IInv', \/ r' = r + 1 /\ UNCHANGED endOfR
                        \/ r' = r /\ ~endOfR /\ endOfR' = TRUE
    PROVE  Reserve' = Reserve - Turn
<1>1. r \in 0 .. SizeOfR /\ r' \in 0 .. SizeOfR /\ SizeOfR \in Nat
      BY Sizes DEF IInv, Types
<1>2. Turns \in Nat
      BY ReserveIs
<1>3. Turns' = (SizeOfR - r') + (IF endOfR' THEN 0 ELSE 1)
      BY DEF Turns
<1>4. Turns # 0 /\ Turns' = Turns - 1
  <2>1. CASE r' = r + 1 /\ UNCHANGED endOfR
        BY <1>1, <1>3, <2>1 DEF Turns
  <2>2. CASE r' = r /\ ~endOfR /\ endOfR' = TRUE
        BY <1>1, <1>3, <2>2 DEF Turns
  <2> QED BY <2>1, <2>2
<1>5. Reserve' = Turns' * Turn
      BY DEF Reserve, Turn
<1> QED BY <1>2, <1>4, <1>5, TurnsAre DEF Reserve

\* The numbers that the rank is made of.
Measures ==
    /\ Reserve \in Nat /\ Turn \in Nat /\ Turn = SizeOfS + 5 /\ SizeOfS \in Nat
    /\ s \in 0 .. SizeOfS /\ r \in 0 .. SizeOfR /\ Len(found) \in 0 .. SizeOfS
    /\ filled \in 0 .. NumRecord /\ NumRecord \in Nat \ {0} /\ endOfR \in BOOLEAN
    /\ Len(R) = SizeOfR /\ Len(S) = SizeOfS

LEMMA MeasuresHold == IInv => Measures
<1> SUFFICES ASSUME IInv PROVE Measures
    OBVIOUS
<1> QED BY ReserveIs, TurnsAre, FoundIsShort, Lengths, Sizes DEF IInv, Types, Measures

LEMMA StepsFall ==
    ASSUME IInv, OrderInv, Steps PROVE StepsLeft' < StepsLeft
<1>1. IInv'
      BY StepKeeps DEF Next
<1>2. Measures /\ Measures'
  <2>1. Measures
        BY MeasuresHold
  <2>2. Measures'
        BY <1>1, MeasuresHold, PTL
  <2> QED BY <2>1, <2>2
<1>3. /\ Reserve \in Nat /\ Reserve' \in Nat /\ Turn \in Nat /\ Turn = SizeOfS + 5
      /\ SizeOfS \in Nat /\ s \in 0 .. SizeOfS /\ s' \in 0 .. SizeOfS
      /\ Len(found) \in 0 .. SizeOfS /\ Len(found') \in 0 .. SizeOfS
  <2>1. Reserve' \in Nat /\ s' \in 0 .. SizeOfS /\ Len(found') \in 0 .. SizeOfS
        BY <1>2 DEF Measures
  <2> QED BY <1>2, <2>1 DEF Measures
<1>4. /\ (pc = "open"  => StepsLeft = Reserve + Turn + SizeOfS + 2)
      /\ (pc = "build" => StepsLeft = Reserve + Turn + (SizeOfS - s) + 1)
      /\ (pc \in {"outer", "block"} => StepsLeft = Reserve + 2)
      /\ (pc = "fill"  => StepsLeft = Reserve + (IF filled > 0 THEN Turn ELSE 1))
      /\ (pc = "openS" => StepsLeft = Reserve + SizeOfS + 4)
      /\ (pc = "inner" => StepsLeft = Reserve + (SizeOfS - s) + 3)
      /\ (pc = "fetch" => StepsLeft = Reserve + Len(found) + 3)
      /\ (pc = "close" => StepsLeft = 1)
      BY DEF StepsLeft
<1>5. /\ (pc' = "build" => StepsLeft' = Reserve' + Turn + (SizeOfS - s') + 1)
      /\ (pc' \in {"outer", "block"} => StepsLeft' = Reserve' + 2)
      /\ (pc' = "fill"  => StepsLeft' = Reserve' + (IF filled' > 0 THEN Turn ELSE 1))
      /\ (pc' = "openS" => StepsLeft' = Reserve' + SizeOfS + 4)
      /\ (pc' = "inner" => StepsLeft' = Reserve' + (SizeOfS - s') + 3)
      /\ (pc' = "fetch" => StepsLeft' = Reserve' + Len(found') + 3)
      /\ (pc' = "close" => StepsLeft' = 1)
      /\ (pc' \in {"returned", "undefined"} => StepsLeft' = 0)
      BY DEF StepsLeft, Turn
<1> DEFINE p == Reserve
           q == Reserve'
           z == StepsLeft
           y == StepsLeft'
<1> HIDE DEF p, q, z, y
<1>6. UNCHANGED <<r, endOfR>> => q = p
      BY ReserveStays DEF p, q
<1>7. \/ r' = r + 1 /\ UNCHANGED endOfR
      \/ r' = r /\ ~endOfR /\ endOfR' = TRUE
      => q = p - Turn
      BY <1>1, ReserveFalls DEF p, q
<1>8. /\ p \in Nat /\ q \in Nat /\ Turn \in Nat /\ Turn = SizeOfS + 5
      /\ SizeOfS \in Nat /\ s \in 0 .. SizeOfS /\ s' \in 0 .. SizeOfS
      /\ Len(found) \in 0 .. SizeOfS /\ Len(found') \in 0 .. SizeOfS
      BY <1>3 DEF p, q
<1>9. /\ (pc = "open"  => z = p + Turn + SizeOfS + 2)
      /\ (pc = "build" => z = p + Turn + (SizeOfS - s) + 1)
      /\ (pc \in {"outer", "block"} => z = p + 2)
      /\ (pc = "fill"  => z = p + (IF filled > 0 THEN Turn ELSE 1))
      /\ (pc = "openS" => z = p + SizeOfS + 4)
      /\ (pc = "inner" => z = p + (SizeOfS - s) + 3)
      /\ (pc = "fetch" => z = p + Len(found) + 3)
      /\ (pc = "close" => z = 1)
      BY <1>4 DEF p, z
<1>10. /\ (pc' = "build" => y = q + Turn + (SizeOfS - s') + 1)
       /\ (pc' \in {"outer", "block"} => y = q + 2)
       /\ (pc' = "fill"  => y = q + (IF filled' > 0 THEN Turn ELSE 1))
       /\ (pc' = "openS" => y = q + SizeOfS + 4)
       /\ (pc' = "inner" => y = q + (SizeOfS - s') + 3)
       /\ (pc' = "fetch" => y = q + Len(found') + 3)
       /\ (pc' = "close" => y = 1)
       /\ (pc' \in {"returned", "undefined"} => y = 0)
       BY <1>5 DEF q, y
<1>11. Open => y < z
  <2>1. ASSUME Open
        PROVE  /\ pc = "open" /\ UNCHANGED <<r, endOfR, s>>
               /\ pc' \in {"build", "outer", "block", "returned", "undefined"}
    <3>1. pc = "open" /\ UNCHANGED <<r, endOfR, s>>
          BY <2>1 DEF Open, outerVars
    <3>2. Opened => pc' \in {"build", "outer", "block"}
          BY DEF Opened, GoTo
    <3>3. OpenFails => pc' \in {"returned", "undefined"}
          BY DEF OpenFails, GoTo, Return
    <3> QED BY <2>1, <3>1, <3>2, <3>3 DEF Open
  <2> QED BY <1>6, <1>8, <1>9, <1>10, <2>1
<1>12. TupleOuter => y < z
  <2>1. ASSUME TupleOuter
        PROVE  /\ pc = "outer"
               /\ \/ r' = r + 1 /\ UNCHANGED endOfR /\ pc' = "openS"
                  \/ UNCHANGED <<r, endOfR>> /\ pc' = "close"
        BY <2>1 DEF TupleOuter, GoTo
  <2> QED BY <1>6, <1>7, <1>8, <1>9, <1>10, <2>1
<1>13. NewBlock => y < z
  <2>1. ASSUME NewBlock
        PROVE  /\ pc = "block" /\ pc' = "fill" /\ filled' = 0 /\ UNCHANGED <<r, endOfR>>
        BY <2>1 DEF NewBlock, GoTo
  <2> QED BY <1>6, <1>8, <1>9, <1>10, <2>1
<1>14. Fill => y < z
  <2>1. ASSUME Fill
        PROVE  /\ pc = "fill" /\ filled \in Nat
               /\ \/ /\ r' = r + 1 /\ UNCHANGED endOfR /\ pc' = "fill" /\ filled' = filled + 1
                  \/ /\ r' = r /\ ~endOfR /\ endOfR' = TRUE /\ pc' = "openS"
                  \/ /\ UNCHANGED <<r, endOfR>> /\ filled > 0 /\ pc' = "openS"
    <3>1. pc = "fill" /\ alg = "block"
          BY <2>1 DEF Fill
    <3>2. ~endOfR /\ filled \in Nat /\ NumRecord > 0
          BY <1>2, <3>1 DEF Measures, IInv, Blocks
    <3> QED BY <2>1, <3>1, <3>2 DEF Fill, GoTo, EndofR
  <2>2. ASSUME Fill, r' = r + 1, UNCHANGED endOfR, pc' = "fill", filled' = filled + 1
        PROVE  y < z
    <3>1. y = q + Turn /\ q = p - Turn
          BY <1>7, <1>10, <2>1, <2>2
    <3>2. z = p + Turn \/ z = p + 1
          BY <1>9, <2>1, <2>2
    <3> QED BY <1>8, <3>1, <3>2
  <2>3. ASSUME Fill, r' = r, ~endOfR, endOfR' = TRUE, pc' = "openS" PROVE y < z
    <3>1. z = p + Turn \/ z = p + 1
          BY <1>9, <2>1, <2>3
    <3> QED BY <1>7, <1>8, <1>10, <2>3, <3>1
  <2>4. ASSUME Fill, UNCHANGED <<r, endOfR>>, filled > 0, pc' = "openS" PROVE y < z
        BY <1>6, <1>8, <1>9, <1>10, <2>1, <2>4
  <2> QED BY <2>1, <2>2, <2>3, <2>4
<1>15. OpenS => y < z
  <2>1. ASSUME OpenS
        PROVE  /\ pc = "openS" /\ UNCHANGED <<r, endOfR>>
               /\ pc' \in {"returned", "undefined"} \/ (pc' = "inner" /\ s' = 0)
        BY <2>1 DEF OpenS, outerVars, GoTo, Return
  <2> QED BY <1>6, <1>8, <1>9, <1>10, <2>1
<1>16. Inner => y < z
  <2>1. ASSUME Inner
        PROVE  /\ pc = "inner" /\ UNCHANGED <<r, endOfR>>
               /\ (pc' = "inner" /\ s' = s + 1) \/ pc' \in {"outer", "close", "block"}
    <3>1. pc = "inner" /\ UNCHANGED <<r, endOfR>>
          BY <2>1 DEF Inner, outerVars
    <3>2. CASE Compare
          BY <3>1, <3>2 DEF Compare, GoTo
    <3>3. CASE EndOfS
          BY <3>1, <3>3 DEF EndOfS, GoTo
    <3> QED BY <2>1, <3>2, <3>3 DEF Inner
  <2> QED BY <1>6, <1>8, <1>9, <1>10, <2>1
<1>17. Build => y < z
  <2>1. ASSUME Build
        PROVE  /\ pc = "build" /\ UNCHANGED <<r, endOfR>>
               /\ (pc' = "build" /\ s' = s + 1) \/ pc' \in {"outer", "fetch", "undefined"}
        BY <2>1 DEF Build, outerVars, GoTo
  <2> QED BY <1>6, <1>8, <1>9, <1>10, <2>1
<1>18. IndexOuter => y < z
  <2>1. ASSUME IndexOuter
        PROVE  /\ pc = "outer"
               /\ \/ r' = r + 1 /\ UNCHANGED endOfR /\ pc' = "fetch"
                  \/ UNCHANGED <<r, endOfR>> /\ pc' = "close"
                  \/ pc' = "undefined"
        BY <2>1 DEF IndexOuter, GoTo
  <2> QED BY <1>6, <1>7, <1>8, <1>9, <1>10, <2>1
<1>19. Fetch => y < z
  <2>1. ASSUME Fetch
        PROVE  /\ pc = "fetch" /\ UNCHANGED <<r, endOfR>>
               /\ \/ pc' = "fetch" /\ Len(found') = Len(found) - 1
                  \/ pc' \in {"outer", "close"}
    <3>1. pc = "fetch" /\ UNCHANGED <<r, endOfR>>
          BY <2>1 DEF Fetch, outerVars
    <3>2. \/ pc' = "fetch" /\ found # << >> /\ found' = Tail(found)
          \/ pc' \in {"outer", "close"}
          BY <2>1 DEF Fetch, GoTo
    <3>3. found # << >> => Len(Tail(found)) = Len(found) - 1
          BY HeadTailProperties DEF IInv, Types
    <3> QED BY <3>1, <3>2, <3>3
  <2> QED BY <1>6, <1>8, <1>9, <1>10, <2>1
<1>20. Close => y < z
  <2>1. ASSUME Close PROVE pc = "close" /\ pc' = "returned"
        BY <2>1 DEF Close, Return
  <2> QED BY <1>9, <1>10, <2>1
<1> QED BY <1>11, <1>12, <1>13, <1>14, <1>15, <1>16, <1>17, <1>18, <1>19, <1>20 DEF Steps, y, z

\* Each of the four functions makes finitely many steps, however long the
\* relations and the block are and whatever calls fail: each step lowers
\* StepsLeft, a number that is 0 only where the function has returned or does
\* what has no definition (blockjoin.cpp:60, tuplejoin.cpp:47).
StepsCounted == StepsLeft \in Nat /\ (StepsLeft = 0 <=> Stopped)
StepsGoDown  == [][~Stopped => StepsLeft' < StepsLeft]_vars
THEOREM JoinsAreFinite == Spec => []StepsCounted /\ StepsGoDown
<1>1. IInv => StepsCounted
  <2> SUFFICES ASSUME IInv PROVE StepsCounted
      OBVIOUS
  <2>1. Stopped => StepsLeft = 0
        BY DEF Stopped, StepsLeft
  <2> QED BY <2>1, StepsLeftIs DEF StepsCounted
<1>2. IInv /\ OrderInv /\ Next => (~Stopped => StepsLeft' < StepsLeft)
      BY StepsFall DEF Next
<1> QED BY <1>1, <1>2, Invariance, PTL DEF Spec, StepsGoDown
=============================================================================
