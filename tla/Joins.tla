------------------------------- MODULE Joins --------------------------------
(***************************************************************************)
(* The joins of the third practical, on the relations that main.cpp makes: *)
(* joins/tuplejoin.cpp, blockjoin.cpp, indexjoin.cpp and SortFile of       *)
(* join.cpp, which builds the same index as the index join and reads it    *)
(* from end to end.                                                        *)
(*                                                                         *)
(* A relation is the sequence of its join attributes in the order of a     *)
(* scan.  Heap files, scans and the B+-tree come as a library: external,   *)
(* each of their calls may fail.  The code looks at some of the statuses   *)
(* and not at others, and uses what a failed call was to have filled.      *)
(*                                                                         *)
(* The record buffers are where this shows.  The tuple join's holds one    *)
(* record of R; the block join's B bytes come from the allocator with      *)
(* whatever they held, and all B of them are compared with each record of  *)
(* S; recS keeps the last record of S when GetRecord fails.                *)
(***************************************************************************)
EXTENDS Integers, Sequences, FiniteSets, SequencesExt

CONSTANTS SizeOfR, SizeOfS,     \* the number of records
          recLenR, B,           \* the length of a record of R, and of the block
          MaxFailures           \* bound: failed calls of the library

ASSUME JoinsAssumption ==
    /\ SizeOfR \in Nat \ {0} /\ SizeOfS \in Nat \ {0}
    /\ recLenR \in Nat \ {0} /\ B \in Nat /\ MaxFailures \in Nat

\* main.cpp:101 makes the block some pages long.  With a shorter one than a
\* record the block join reads nothing and goes on for ever.
ASSUME BlockHoldsARecord == B >= recLenR

VARIABLES alg,          \* the function called
          R, S,         \* the relations
          pc,           \* where it is
          r, s,         \* the records of R and of S that their scans have given
          block,        \* the buffer of records of R, as pieces of recLenR bytes
          filled,       \* the loop variable i of the block join
          endOfR,       \* EndofR
          index, found, \* the records of S in the B+-tree, those its scan has left
          recS,         \* the record of S in the buffer
          T,            \* the result, the pairs of two records that were read
          strays,       \* the records of S that are there with something else
          open,         \* the scans that have not been deleted
          failures,     \* the calls that have failed
          ret           \* what the function returns

relations == <<alg, R, S>>
outerVars == <<r, block, filled, endOfR>>
indexVars == <<index, found, recS>>
result    == <<T, strays>>
vars == <<relations, pc, s, outerVars, indexVars, result, open, failures, ret>>

\* The definitions named Slip... are wrong versions of the definition that
\* follows them; each shows that some property notices the mistake.

-----------------------------------------------------------------------------
(* The relations *)

\* RandomPermutate: every place, from the last, is swapped with one below it.
Swapped(p, j, k)   == [p EXCEPT ![j] = p[k], ![k] = p[j]]
RandomPermutate(n) ==
    LET f[j \in 0 .. n - 1] ==      \* the outcomes once places j + 1 and up are done
            IF j = n - 1 THEN {[i \in 0 .. n - 1 |-> i]}
            ELSE {Swapped(p, j + 1, k) : p \in f[j + 1], k \in 0 .. j}
    IN  f[0]

\* An attribute of R that is joined is below the size of S; that of S numbers
\* its records.
CreateR == [1 .. SizeOfR -> 0 .. SizeOfS - 1]
CreateS == {[i \in 1 .. SizeOfS |-> p[i - 1]] : p \in RandomPermutate(SizeOfS)}

\* The elements of I by the numbers that key gives them.  (SetToSortSeq would
\* do, but rests on TLC!SortSeq, which has no definition for a proof.)
InOrder(I, key) ==
    CHOOSE q \in [1 .. Cardinality(I) -> I] :
        \A i, j \in 1 .. Cardinality(I) : i < j => key[q[i]] < key[q[j]]

-----------------------------------------------------------------------------
(* The block *)

SlipOneMore == B \div recLenR + 1
NumRecord == B \div recLenR
Pieces    == (B + recLenR - 1) \div recLenR     \* the last may be cut short

\* A piece holds record n of R, or bytes that read as attribute k.
Holds(n) == [rec |-> n, attr |-> R[n]]
Bytes(k) == [rec |-> 0, attr |-> k]
NoMatch  == -1
Fresh    == [1 .. Pieces -> {Bytes(k) : k \in {NoMatch} \cup 0 .. SizeOfS - 1}]

SlipBackwards(i) == NumRecord - i
PieceAt(i)       == i + 1

Init ==
    /\ alg \in {"tuple", "block", "index", "sort"} /\ R \in CreateR /\ S \in CreateS
    /\ pc = "open" /\ ret = "none" /\ failures = 0
    /\ r = 0 /\ s = 0 /\ block = << >> /\ filled = 0 /\ endOfR = FALSE
    /\ index = {} /\ found = << >> /\ recS = 0
    /\ T = << >> /\ strays = {} /\ open = {}

Succeeds == UNCHANGED failures
Fails    == failures < MaxFailures /\ failures' = failures + 1
GoTo(l)  == pc' = l /\ UNCHANGED ret
Return(x) == pc' = "returned" /\ ret' = x

-----------------------------------------------------------------------------
(* Opening: the result file, the scan of R; for the index, that of S *)

Opened ==
    /\ Succeeds
    /\ \/ alg = "tuple" /\ open' = {"R"} /\ GoTo("outer")
       \/ alg = "block" /\ open' = {"R"} /\ GoTo("block")
       \/ alg = "index" /\ open' = {"R", "S"} /\ GoTo("build")
       \/ alg = "sort" /\ open' = {"S"} /\ GoTo("build")

\* The tuple join opens the scan of R before the result, the index join the
\* one of S last: the scan of R is left open.  SortFile goes on in any case, and
\* neither it nor the index join asks whether the B+-tree was made.
OpenFails ==
    /\ Fails
    /\ \/ alg # "sort" /\ open' = {} /\ Return("NULL")
       \/ alg \in {"tuple", "index"} /\ open' = {"R"} /\ Return("NULL")
       \/ alg = "index" /\ open' = {"R", "S"} /\ GoTo("undefined")
       \/ alg = "sort" /\ GoTo("undefined") /\ UNCHANGED open

Open ==
    /\ pc = "open" /\ (Opened \/ OpenFails)
    /\ UNCHANGED <<relations, s, outerVars, indexVars, result>>

-----------------------------------------------------------------------------
(* Reading R *)

\* The tuple join's buffer is one piece, filled anew for each record.
TupleOuter ==
    /\ alg = "tuple" /\ pc = "outer"
    /\ \/ /\ r < Len(R) /\ Succeeds /\ GoTo("openS")
          /\ r' = r + 1 /\ block' = <<Holds(r + 1)>>
       \/ r = Len(R) /\ Succeeds /\ GoTo("close") /\ UNCHANGED <<r, block>>
       \/ Fails /\ GoTo("close") /\ UNCHANGED <<r, block>>
    /\ UNCHANGED <<relations, s, filled, endOfR, indexVars, result, open>>

\* A new block, with what its bytes held before.
NewBlock ==
    /\ alg = "block" /\ pc = "block" /\ Succeeds /\ GoTo("fill")
    /\ block' \in Fresh /\ filled' = 0
    /\ UNCHANGED <<relations, s, r, endOfR, indexVars, result, open>>

SlipEndofR(ended) == FALSE
EndofR(ended)     == ended

\* A scan that fails may have copied its record before.
Fill ==
    /\ alg = "block" /\ pc = "fill"
    /\ LET filledIn == [block EXCEPT ![PieceAt(filled)] = Holds(r + 1)]
       IN  \/ /\ filled < NumRecord /\ r < Len(R) /\ Succeeds /\ GoTo("fill")
              /\ block' = filledIn /\ filled' = filled + 1 /\ r' = r + 1
              /\ UNCHANGED endOfR
           \/ /\ filled < NumRecord /\ r = Len(R) /\ Succeeds /\ GoTo("openS")
              /\ endOfR' = EndofR(TRUE) /\ UNCHANGED <<block, filled, r>>
           \/ /\ filled < NumRecord /\ Fails /\ GoTo("openS")
              /\ endOfR' = EndofR(TRUE) /\ UNCHANGED <<filled, r>>
              /\ \/ UNCHANGED block
                 \/ r < Len(R) /\ block' = filledIn
           \/ /\ filled = NumRecord /\ Succeeds /\ GoTo("openS")
              /\ UNCHANGED <<block, filled, r, endOfR>>
    /\ UNCHANGED <<relations, s, indexVars, result, open>>

-----------------------------------------------------------------------------
(* The scan of S, once for each record or block of R *)

\* The tuple join says so when it cannot open the scan, and uses it.
OpenS ==
    /\ pc = "openS"
    /\ \/ Succeeds /\ GoTo("inner") /\ s' = 0 /\ open' = open \cup {"S"}
       \/ /\ Fails /\ UNCHANGED <<s, open>>
          /\ \/ alg = "tuple" /\ GoTo("undefined")
             \/ alg = "block" /\ Return("NULL")
    /\ UNCHANGED <<relations, outerVars, indexVars, result>>

\* Every piece of the buffer is compared; the status of the inserts is not.
Insert(n, pieces) ==
    LET read == InOrder({i \in pieces : block[i].rec # 0}, [i \in pieces |-> i])
    IN  /\ T' = T \o [i \in DOMAIN read |-> <<block[read[i]].rec, n>>]
        /\ strays' = IF \E i \in pieces : block[i].rec = 0 THEN strays \cup {n} ELSE strays

Compare ==
    /\ s < Len(S) /\ s' = s + 1 /\ GoTo("inner") /\ UNCHANGED open
    /\ LET equal == {i \in DOMAIN block : block[i].attr = S[s + 1]}
       IN  \/ Succeeds /\ Insert(s + 1, equal)
           \/ Fails /\ \E i \in equal : Insert(s + 1, equal \ {i})

\* The block join does not delete its scans.
EndOfS ==
    /\ UNCHANGED <<s, result>>
    /\ (s = Len(S) /\ Succeeds) \/ Fails
    /\ \/ alg = "tuple" /\ open' = open \ {"S"} /\ GoTo("outer")
       \/ alg = "block" /\ UNCHANGED open /\ GoTo(IF endOfR THEN "close" ELSE "block")

Inner ==
    /\ pc = "inner" /\ (Compare \/ EndOfS)
    /\ UNCHANGED <<relations, outerVars, indexVars>>

-----------------------------------------------------------------------------
(* The index *)

\* SortFile then makes its result, with another message where that fails.
Build ==
    /\ pc = "build"
    /\ \/ /\ s < Len(S) /\ s' = s + 1 /\ recS' = s + 1
          /\ GoTo("build") /\ UNCHANGED <<open, found>>
          /\ \/ Succeeds /\ index' = index \cup {s + 1}
             \/ Fails /\ UNCHANGED index
       \/ /\ UNCHANGED <<s, recS, index>>
          /\ (s = Len(S) /\ Succeeds) \/ Fails
          /\ \/ /\ alg = "index" /\ open' = open \ {"S"} /\ GoTo("outer") /\ UNCHANGED found
             \/ /\ alg = "sort" /\ open' = {"B"} /\ GoTo("fetch")
                /\ found' = InOrder(index, S)
       \/ /\ alg = "sort" /\ Fails /\ GoTo("undefined")
          /\ UNCHANGED <<s, recS, index, found, open>>
    /\ UNCHANGED <<relations, outerVars, result>>

SlipMatching(k) == {n \in index : S[n] >= k}
Matching(k)     == {n \in index : S[n] = k}

\* Whether the scan of the B+-tree could be opened is not asked either.
IndexOuter ==
    /\ alg = "index" /\ pc = "outer"
    /\ \/ /\ r < Len(R) /\ Succeeds /\ GoTo("fetch") /\ r' = r + 1
          /\ found' = InOrder(Matching(R[r + 1]), S)
          /\ open' = open \cup {"B"}
       \/ r = Len(R) /\ Succeeds /\ GoTo("close") /\ UNCHANGED <<r, found, open>>
       \/ Fails /\ GoTo("close") /\ UNCHANGED <<r, found, open>>
       \/ /\ r < Len(R) /\ Fails /\ GoTo("undefined") /\ r' = r + 1
          /\ UNCHANGED <<found, open>>
    /\ UNCHANGED <<relations, s, block, filled, endOfR, index, recS, result>>

\* The status of GetRecord is not looked at, nor that of the insert.
Fetch ==
    /\ pc = "fetch"
    /\ \/ /\ found # << >> /\ found' = Tail(found) /\ GoTo("fetch") /\ UNCHANGED open
          /\ \/ /\ Succeeds /\ recS' = Head(found)
                /\ T' = Append(T, <<r, recS'>>) /\ UNCHANGED strays
             \/ Fails /\ strays' = strays \cup {recS} /\ UNCHANGED <<recS, T>>
             \/ Fails /\ recS' = Head(found) /\ UNCHANGED result
       \/ /\ UNCHANGED <<found, recS, result>>
          /\ (found = << >> /\ Succeeds) \/ Fails
          /\ \/ alg = "index" /\ open' = open \ {"B"} /\ GoTo("outer")
             \/ alg = "sort" /\ UNCHANGED open /\ GoTo("close")
    /\ UNCHANGED <<relations, s, outerVars, index>>

-----------------------------------------------------------------------------
Close ==
    /\ pc = "close" /\ Succeeds /\ Return("file")
    /\ \/ alg \in {"tuple", "index"} /\ open' = open \ {"R"}
       \/ alg = "sort" /\ open' = open \ {"B"}
       \/ alg = "block" /\ UNCHANGED open
    /\ UNCHANGED <<relations, s, outerVars, indexVars, result>>

Stopped == pc \in {"returned", "undefined"}

Steps == \/ Open \/ TupleOuter \/ NewBlock \/ Fill \/ OpenS \/ Inner
         \/ Build \/ IndexOuter \/ Fetch \/ Close
Next  == Steps \/ (Stopped /\ UNCHANGED vars)

\* One thread, which goes on as long as it can.
Spec == Init /\ [][Next]_vars /\ WF_vars(Steps)

-----------------------------------------------------------------------------
(* Properties *)

\* The types; what is read into the block lies within its B bytes.
TypeOK ==
    /\ r \in 0 .. Len(R) /\ s \in 0 .. Len(S) /\ recS \in 0 .. Len(S)
    /\ filled * recLenR <= B
    /\ \A i \in DOMAIN block : block[i].rec \in 0 .. r + 1
    /\ index \cup strays \subseteq 1 .. Len(S) /\ ToSet(found) \subseteq index
    /\ open \subseteq {"R", "S", "B"} /\ failures \in 0 .. MaxFailures
    /\ ret \in {"none", "file", "NULL"} /\ (pc = "returned") = (ret # "none")

\* The pairs that belong to the result; SortFile has the records of S alone.
Wanted == IF alg = "sort" THEN {0} \X (1 .. Len(S))
          ELSE {p \in (1 .. Len(R)) \X (1 .. Len(S)) : R[p[1]] = S[p[2]]}

J == INSTANCE JoinResult WITH
         wanted <- Wanted, result <- ToSet(T),
         excuse <- failures > 0, over <- pc = "returned"

\* The four functions are one join: what they put into the result, apart from
\* what comes from bytes that were not read, belongs there, and it is all
\* there when they return, unless a call has failed.
JoinSpec == J!Spec

\* The place of a pair in the result.
Rank(p) == CASE alg = "block" -> <<(p[1] - 1) \div NumRecord, p[2], p[1]>>
             [] alg = "sort"  -> <<S[p[2]], 0, 0>>
             [] OTHER         -> <<p[1], p[2], 0>>
Precedes(a, b) == \E k \in 1 .. 3 : a[k] < b[k] /\ \A l \in 1 .. k - 1 : a[l] = b[l]

\* The result is in the order of R, then of S; block by block, then of S; or
\* sorted, join.cpp:45.  No pair is there twice, whatever has failed.
ResultInOrder ==
    \A i, j \in DOMAIN T : i < j => Precedes(Rank(T[i]), Rank(T[j]))

\* They come to an end, though the calls that fail are not repeated.
EveryJoinReturns == <>Stopped

(* What the comments say, and the joins do not do *)

\* join.cpp:16, of MakeNewRecord: "pointers to two records which satisfy the
\* join condition".
JoinedAreRecords == failures = 0 => strays = {}

\* blockjoin.cpp:24: "Remember to clean up before exiting by "delete"ing any
\* pointers that you "new"ed.  This includes any Scan".
NothingLeftOpen == pc = "returned" => open = {}
=============================================================================
