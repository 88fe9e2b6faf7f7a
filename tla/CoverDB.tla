------------------------------ MODULE CoverDB -------------------------------
(***************************************************************************)
(* The database of Project_CoverDB/CoverDB.cpp.  A relation R over six     *)
(* attributes decomposes into smaller relations, and a cover is a set of   *)
(* tuples whose projections on them are those of R, so that R is the join  *)
(* of the cover's projections.  CoverDB() answers each query in three      *)
(* passes: it arranges the attributes in a binary tree, the variable       *)
(* order; it enters every tuple of the cover into a factorised database, a *)
(* tree of values that follows the variable order and shares what tuples   *)
(* have in common; and it computes the answer from that tree.  StandardDB()*)
(* answers the same queries from R itself.                                 *)
(*                                                                         *)
(* Attributes A, B, ... are 1, 2, ..., and a position of the variable      *)
(* order is the number `num' of the code: 0 the root, 2n+1 and 2n+2 below  *)
(* n.  A node of the factorised database is a position and the values on   *)
(* the way to it.  encode and CDB outlive a query, as in the code.         *)
(*                                                                         *)
(* The definitions named Slip... are wrong versions of the definition that *)
(* follows them; each shows that some property notices the mistake.        *)
(***************************************************************************)
EXTENDS Integers, FiniteSetsExt, SequencesExt

CONSTANTS NumNode,         \* numNode, the size of encode
          NumAttr,         \* how many attributes R has
          Decomposition,   \* the attributes of the smaller relations
          Queries,         \* records of sum (0 for SUM(1)) and groupBy
          Values, Tuples,  \* what tuples are made of, and the cover's
          MaxTuples,       \* bound: how many tuples the cover has
          MaxQueries       \* bound: how many queries are answered

Attributes == 1 .. NumAttr
U          == 21           \* the number of the letter U
Letters    == Attributes \cup {U}

ASSUME CoverAssumption ==
    /\ NumAttr \in 1 .. U - 1 /\ NumNode \in Nat \ {0}
    /\ \A r \in Decomposition : r \subseteq Attributes
    /\ Values \subseteq Int /\ IsFiniteSet(Values) /\ Tuples \subseteq [Attributes -> Values]
    /\ \A q \in Queries :
          /\ q.sum \in 0 .. NumAttr
          /\ Len(q.groupBy) = 2 =>
                \E a \in ToSet(q.groupBy) : \A r \in Decomposition :
                    a \in r => Cardinality(r) # 2
          /\ Len(q.groupBy) \in {0, 2}

\* What the program has in its text: the decomposition, and the queries of its
\* benchmark with the two that are commented out.
TheDecomposition == {{1, 2, 3}, {1, 2, 4}, {1, 5}, {5, 6}}
Benchmark == {[sum |-> 0, groupBy |-> << >>], [sum |-> 1, groupBy |-> << >>],
              [sum |-> 6, groupBy |-> <<1, 2>>], [sum |-> 6, groupBy |-> <<3, 4>>]}

VARIABLES cover,           \* the tuples of the file C.csv, in its order
          phase, query, type,
          order,           \* the variable order: positions to attributes
          todo,            \* the next attribute of the loop that inserts
          encode,          \* the attributes' positions, 0 for none yet
          CDB, left,       \* the tuples read, and those not yet entered
          db,              \* the nodes, in the order they are made
          answer, standard,    \* of CoverDB() and of StandardDB()
          undefined,       \* a value was read from outside its vector
          asked

vars == <<cover, phase, query, type, order, todo, encode, CDB, left, db,
          answer, standard, undefined, asked>>

\* f with v at x.
Put(f, x, v) == [y \in DOMAIN f \cup {x} |-> IF y = x THEN v ELSE f[y]]

Join(ts) == {t \in [Attributes -> Values] :
                \A r \in Decomposition : \E s \in ts : \A a \in r : t[a] = s[a]}

-----------------------------------------------------------------------------
(* The variable order *)

Related(a) == (UNION {r \in Decomposition : a \in r}) \ {a}

\* An attribute of a relation of two attributes cannot be the order's root.
NotRoot(a) == \E r \in Decomposition : Cardinality(r) = 2 /\ a \in r

\* What a search finds at a node, below its left child and below its right one,
\* in the order in which it looks: FindVarOrder_DFS goes to a node between its
\* children, FindVarOrder_BFS before them.
SlipMeets(node, l, r) == <<node, l, r>>
Meets(node, l, r) == IF type = 3 THEN <<node, l, r>> ELSE <<l, node, r>>

\* Where InsertAttributes puts an attribute: under the first node that is
\* related to it and has a child to give, left before right; or nowhere, 0.
Place(a) ==
    LET child(n) == IF order[n] \notin Related(a) THEN 0
                    ELSE IF 2*n + 1 \notin DOMAIN order THEN 2*n + 1
                    ELSE IF 2*n + 2 \notin DOMAIN order THEN 2*n + 2 ELSE 0
        first[n \in Nat] ==
           IF n \notin DOMAIN order THEN 0
           ELSE LET met == Meets(child(n), first[2*n + 1], first[2*n + 2])
                IN  IF met[1] # 0 THEN met[1] ELSE IF met[2] # 0 THEN met[2] ELSE met[3]
    IN  IF 1 \notin DOMAIN order THEN 1 ELSE first[0]

\* encode is indexed by letter - 'A' + 1.
SlipFromZero(a, n) == [encode EXCEPT ![a - 1] = n]
Encoded(a, n) == [encode EXCEPT ![a] = n]

QueryType(q) == IF q.sum = 0 THEN 1 ELSE IF q.groupBy # << >> THEN 3 ELSE 2

\* InsertATTR: are the attributes in two relations, the query is of type 4.
GroupType(q) == IF \E a, b \in ToSet(q.groupBy) : b \in Related(a) THEN 3 ELSE 4
RootAttr(q)  == q.groupBy[SelectInSeq(q.groupBy, LAMBDA a : ~NotRoot(a))]
OtherAttr(q) == CHOOSE a \in ToSet(q.groupBy) \ {RootAttr(q)} : TRUE

\* The order that BuildVariableOrder begins with.  InsertEXPR takes the letter
\* after the S of "SUM(", whatever the query sums.
Expr(q) == U
FirstOrder(q, t) ==
    CASE t = 2 -> [n \in {0, 1} |-> IF n = 0 THEN 0 ELSE Expr(q)]
      [] t = 3 -> [n \in {0, 1, 3} |-> IF n = 0 THEN 0 ELSE
                                       IF n = 1 THEN RootAttr(q) ELSE OtherAttr(q)]
      [] OTHER -> [n \in {0} |-> 0]

-----------------------------------------------------------------------------
(* The factorised database *)

\* FindIndex, the attribute that encode has at a position.
Used == {i \in 1 .. NumNode - 1 : \E a \in Letters : encode[a] = i}
FindIndex(i) == Min({a \in Letters : encode[a] = i})
Above(i)     == (i - 1) \div 2

\* A tuple's node at a position: found among the nodes below the one of the
\* level before, by its value.
Paths(t) ==
    LET path[i \in 0 .. NumNode - 1] ==
           IF i = 0 THEN << >> ELSE Append(path[Above(i)], t[FindIndex(i)])
    IN  path
SlipValueOnly(t, i) == [pos |-> i, path |->
    [k \in 1 .. Len(Paths(t)[i]) |-> t[FindIndex(i)]]]
NodeOf(t, i) == [pos |-> i, path |-> Paths(t)[i]]

BuildFactorisedDB(t) ==
    LET made[i \in 0 .. NumNode - 1] ==
           IF i = 0 THEN db
           ELSE IF i \in Used /\ ~Contains(made[i - 1], NodeOf(t, i))
                THEN Append(made[i - 1], NodeOf(t, i)) ELSE made[i - 1]
    IN  made[NumNode - 1]

\* The nodes at position i below the node with the given path.
SlipOnLevel(i, path) == {n \in ToSet(db) : n.pos = i}
Below(i, path) == {n \in ToSet(db) : n.pos = i /\ Front(n.path) = path}
First(i, path) == db[SelectInSeq(db, LAMBDA n : n \in Below(i, path))]

Count(i, path) ==
    LET count[x \in Nat \X Seq(Values)] ==
           IF Below(x[1], x[2]) = {} THEN 1
           ELSE MapThenSumSet(
                   LAMBDA n : count[<<2*x[1] + 1, n.path>>] * count[<<2*x[1] + 2, n.path>>],
                   Below(x[1], x[2]))
    IN  count[<<i, path>>]

SumOne    == Count(1, << >>) * Count(2, << >>)
SumColumn == MapThenSumSet(LAMBDA n : Last(n.path) * Count(3, n.path) * Count(4, n.path),
                   Below(1, << >>))

\* Sum(n, 'L') and Sum(n, 'R')
SumLeft(n)  == MapThenSumSet(LAMBDA m : Count(2*m.pos + 1, m.path), Below(2*n.pos + 1, n.path))
SumRight(n) == MapThenSumSet(LAMBDA m : Count(2*m.pos + 2, m.path), Below(2*n.pos + 2, n.path))

\* The sum of the F below the E below a node of A.
SlipOneF(a) == Max({Last(f.path) : f \in UNION {Below(2*e.pos + 1, e.path) :
                                    e \in Below(2*a.pos + 2, a.path)}})
SumF(a) == MapThenSumSet(LAMBDA e : MapThenSumSet(LAMBDA f : Last(f.path),
                                                 Below(2*e.pos + 1, e.path)),
                         Below(2*a.pos + 2, a.path))

\* The order is B above A above D.  nums is never cleared, so that nums[0] and
\* nums[1] stay those of the first b and a.
GroupByType3 ==
    LET as == UNION {Below(3, b.path) : b \in Below(1, << >>)}
        b0 == First(1, << >>)
    IN  [g \in {a.path : a \in as} |->
            SumRight(b0) * SumLeft(First(3, b0.path)) * SumF([pos |-> 3, path |-> g])]

\* The order is A above B above C and D; mp[cd] grows with every a and b.
GroupByType4 ==
    LET bs  == UNION {Below(3, a.path) : a \in Below(1, << >>)}
        cds == UNION {Below(7, b.path) \X Below(8, b.path) : b \in bs}
        key(cd) == <<Last(cd[1].path), Last(cd[2].path)>>
    IN  [g \in {key(cd) : cd \in cds} |->
            MapThenSumSet(LAMBDA cd : SumF([pos |-> 1, path |-> <<cd[1].path[1]>>]),
                          {cd \in cds : key(cd) = g})]

-----------------------------------------------------------------------------
(* StandardDB *)

R == Join(ToSet(cover))

\* ColumnLess compares the numbers as strings, which brings equal ones together
\* as any other order of them does.
ColumnLess(q, s, t) == \/ s[q.groupBy[1]] < t[q.groupBy[1]]
                       \/ /\ s[q.groupBy[1]] = t[q.groupBy[1]]
                          /\ s[q.groupBy[2]] < t[q.groupBy[2]]
Sorted(q, ts) ==
    LET least(s) == CHOOSE r \in s : \A t \in s : ~ColumnLess(q, t, r)
        sorted[s \in SUBSET ts] ==
           IF s = {} THEN << >> ELSE <<least(s)>> \o sorted[s \ {least(s)}]
    IN  sorted[ts]

SlipSumKept(g, row) == g.sum + row[6]
SumOfNewGroup(g, row) == row[6]
NextRow(q, g, row) ==
    LET a == row[q.groupBy[1]]
        b == row[q.groupBy[2]]
    IN  IF a = g.a /\ b = g.b
        THEN [g EXCEPT !.sum = @ + row[6]]
        ELSE [a |-> a, b |-> b, sum |-> SumOfNewGroup(g, row),
              sums |-> Put(g.sums, <<g.a, g.b>>, g.sum)]

\* The first group has its first column from the first row, its second from
\* the second row.
StandardGroups(q) ==
    LET rows == Sorted(q, R)
        g0   == [a |-> rows[1][q.groupBy[1]], b |-> rows[2][q.groupBy[2]],
                 sum |-> 0, sums |-> << >>]
        after[k \in 0 .. Len(rows)] == IF k = 0 THEN g0 ELSE NextRow(q, after[k - 1], rows[k])
        g    == after[Len(rows)]
    IN  Put(g.sums, <<g.a, g.b>>, g.sum)

-----------------------------------------------------------------------------
Init ==
    /\ cover \in {SetToSeq(ts) : ts \in UNION {kSubset(n, Tuples) : n \in 0 .. MaxTuples}}
    /\ phase = "idle" /\ type = 0 /\ todo = 1
    /\ query = CHOOSE q \in Queries : TRUE
    /\ order = [n \in {0} |-> 0] /\ encode = [a \in Letters |-> 0]
    /\ CDB = << >> /\ left = {} /\ db = << >>
    /\ answer = << >> /\ standard = << >>
    /\ undefined = FALSE /\ asked = 0

Asked(q) == /\ phase = "idle" /\ ~undefined /\ asked < MaxQueries
            /\ query' = q /\ asked' = asked + 1

\* A query of StandardDB.  To group by columns it reads the first two rows.
StandardDB(q) ==
    /\ Asked(q)
    /\ \/ /\ QueryType(q) = 1 /\ standard' = Cardinality(R)
          /\ UNCHANGED undefined
       \/ /\ QueryType(q) = 2 /\ standard' = MapThenSumSet(LAMBDA t : t[q.sum], R)
          /\ UNCHANGED undefined
       \/ /\ QueryType(q) = 3 /\ Cardinality(R) >= 2 /\ standard' = StandardGroups(q)
          /\ UNCHANGED undefined
       \/ /\ QueryType(q) = 3 /\ Cardinality(R) < 2
          /\ undefined' = TRUE /\ UNCHANGED standard
    /\ type' = 0
    /\ UNCHANGED <<cover, phase, order, todo, encode, CDB, left, db, answer>>

\* A query of CoverDB: the order gets its root and what goes in first.
BuildVariableOrder(q) ==
    LET t == IF QueryType(q) = 3 THEN GroupType(q) ELSE QueryType(q)
    IN  /\ Asked(q)
        /\ phase' = "order" /\ type' = t /\ todo' = 1
        /\ order' = FirstOrder(q, t)
        /\ encode' = [a \in Letters |->
              IF \E n \in DOMAIN order' \ {0} : order'[n] = a
              THEN CHOOSE n \in DOMAIN order' \ {0} : order'[n] = a ELSE encode[a]]
        /\ answer' = << >> /\ standard' = << >> /\ db' = << >>
        /\ UNCHANGED <<cover, CDB, left, undefined>>

\* One round of the loop of InsertAttributes or InsertOtherAttributes.
InsertAttribute ==
    /\ phase = "order" /\ todo <= NumAttr /\ todo' = todo + 1
    /\ \/ /\ todo \notin Range(order) /\ Place(todo) # 0
          /\ order' = Put(order, Place(todo), todo)
          /\ encode' = Encoded(todo, Place(todo))
       \/ /\ todo \in Range(order) \/ Place(todo) = 0
          /\ UNCHANGED <<order, encode>>
    /\ UNCHANGED <<cover, phase, query, type, CDB, left, db, answer, standard,
                   undefined, asked>>

\* The tuples of the file are added to those read for earlier queries.
ReadCover ==
    /\ phase = "order" /\ todo > NumAttr
    /\ CDB' = CDB \o cover /\ left' = DOMAIN CDB' /\ phase' = "build"
    /\ UNCHANGED <<cover, query, type, order, todo, encode, db, answer, standard,
                   undefined, asked>>

\* "Cannot open files"
NoCover ==
    /\ phase = "order" /\ todo > NumAttr /\ phase' = "idle"
    /\ UNCHANGED <<cover, query, type, order, todo, encode, CDB, left, db, answer,
                   standard, undefined, asked>>

\* The tuples are entered in any order: the sort before this compares numbers
\* from outside the tuples (pos1 = 'A', CoverDB.cpp:986).
EnterTuple(i) ==
    /\ phase = "build" /\ ~undefined /\ i \in left
    /\ \/ /\ \A n \in Used : FindIndex(n) \in Attributes
          /\ db' = BuildFactorisedDB(CDB[i]) /\ left' = left \ {i}
          /\ UNCHANGED undefined
       \/ /\ \E n \in Used : FindIndex(n) \notin Attributes
          /\ undefined' = TRUE /\ UNCHANGED <<db, left>>
    /\ UNCHANGED <<cover, phase, query, type, order, todo, encode, CDB, answer,
                   standard, asked>>

Answer ==
    /\ phase = "build" /\ ~undefined /\ left = {} /\ phase' = "idle"
    /\ \/ type = 1 /\ answer' = SumOne
       \/ type = 2 /\ answer' = SumColumn
       \/ type = 3 /\ answer' = GroupByType3
       \/ type = 4 /\ answer' = GroupByType4
    /\ UNCHANGED <<cover, query, type, order, todo, encode, CDB, left, db,
                   standard, undefined, asked>>

Stop == undefined \/ (phase = "idle" /\ asked = MaxQueries)

Next == \/ \E q \in Queries : StandardDB(q) \/ BuildVariableOrder(q)
        \/ InsertAttribute \/ ReadCover \/ NoCover
        \/ \E i \in left : EnterTuple(i)
        \/ Answer
        \/ Stop /\ UNCHANGED vars

Spec == Init /\ [][Next]_vars

-----------------------------------------------------------------------------
(* Properties *)

\* The order has one position for an attribute, and room for each in encode
\* and in the loop over positions.
TypeOK ==
    /\ DOMAIN order \subseteq 0 .. NumNode - 1 /\ IsInjective(order)
    /\ \A n \in DOMAIN order \ {0} : encode[order[n]] = n
    /\ ToSet(CDB) \subseteq ToSet(cover) /\ left \subseteq DOMAIN CDB
    /\ \A n \in ToSet(db) : n.pos \in 1 .. NumNode - 1 /\ n.path \in Seq(Values)

Entered == {CDB[i] : i \in DOMAIN CDB \ left}

\* For SUM(1) and for group-by attributes of two relations the order has every
\* attribute, and those of a relation lie one above the other: what one branch
\* says of a tuple never depends on another branch.
Ancestors(n) == LET up[k \in 0 .. n] == IF k = 0 THEN {0} ELSE {k} \cup up[Above(k)]
                IN  up[n]
OrderIsValid ==
    type \in {1, 4} /\ phase = "build" =>
        /\ Range(order) \ {0} = Attributes
        /\ \A r \in Decomposition : \A a, b \in r :
              encode[a] \in Ancestors(encode[b]) \/ encode[b] \in Ancestors(encode[a])

\* What the factorised database stands for: the tuples whose nodes are there.
Represented == {t \in [Attributes -> Values] :
                   \A i \in Used : Contains(db, NodeOf(t, i))}

\* The tuples entered are in the factorised database, however often and in
\* which order they came, and what else it stands for is in R.
BetweenCoverAndR ==
    type \in {1, 4} /\ phase = "build" =>
        ToSet(CDB) \ {CDB[i] : i \in left} \subseteq Represented
        /\ Represented \subseteq Join(Entered)

\* Count, which multiplies along the branches, finds as many tuples as the
\* factorised database stands for, unless it is empty (then 1).
CountIsExact ==
    type = 1 /\ phase = "build" /\ Entered # {} => SumOne = Cardinality(Represented)

\* GroupByType4 finds the sums of F over what the factorised database stands for.
GroupSums(q, ts) ==
    LET key(t) == <<t[q.groupBy[1]], t[q.groupBy[2]]>>
    IN  [g \in {key(t) : t \in ts} |->
            MapThenSumSet(LAMBDA t : t[q.sum], {t \in ts : key(t) = g})]
GroupsAreExact ==
    type = 4 /\ phase = "build" => GroupByType4 = GroupSums(query, Represented)

\* StandardDB finds the sum of every group (and sometimes a group that is not).
EveryGroupSummed ==
    type = 0 /\ asked > 0 /\ ~undefined /\ QueryType(query) = 3 =>
        \A g \in DOMAIN GroupSums(query, R) :
            g \in DOMAIN standard /\ standard[g] = GroupSums(query, R)[g]

(* What the comments say, and the program does not do *)

\* CoverDB.cpp:699: "count the number of tuples in the relation using a
\* factorised representation of the cover".
CountIsSizeOfR ==
    type = 1 /\ phase = "build" /\ left = {} /\ CDB # << >> => SumOne = Cardinality(R)

\* CoverDB.cpp:767: "Compute the result for type 3 group-by clause query".
GroupsOfOneRelation ==
    type = 3 /\ phase = "build" /\ left = {} /\ CDB # << >> =>
        LET byAB == GroupByType3
        IN  \A g \in DOMAIN byAB : byAB[g] = GroupSums(query, Represented)[<<g[2], g[1]>>]
=============================================================================
