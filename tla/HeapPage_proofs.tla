-------------------------- MODULE HeapPage_proofs --------------------------
(***************************************************************************)
(* Proofs about HeapPage, for a page of any size, any record lengths and   *)
(* any stale contents of the frame the page is made in.                    *)
(***************************************************************************)
EXTENDS HeapPage, FiniteSetTheorems, TLAPS

\* The records end where free space begins, or before.  RecordsInARow says so
\* of the last one only, and RecordsUntouched needs it of all.
RecordsBelowFill ==
    \A i \in 1 .. Len(inserted) :
        inserted[i].offset + inserted[i].length <= fillPtr

IInv == /\ TypeOK /\ RecordsInARow /\ RecordsBelowFill /\ RecordsUntouched
        /\ SlotTwoIsNewest /\ RefusalIsHonest

Reads == \/ \E l \in Lengths : InsertRefused(l)
         \/ \E i \in RidSlots : DeleteRefused(i) \/ NextRecord(i) \/ GetRecord(i)
         \/ FirstRecord \/ GetNumOfRecords

\* An insertion leaves the data area's fields and the record list as the next
\* lemma says.
LEMMA InsertRanges ==
    ASSUME IInv, NEW l \in Lengths, NEW v \in Values, InsertRecord(l, v)
    PROVE  /\ l \in Nat /\ fillPtr' = fillPtr + l /\ freeSpace' = freeSpace - l
           /\ freeSpace - SlotSize >= l
           /\ inserted' = Append(inserted, [offset |-> fillPtr, length |-> l,
                                       value |-> v, slot |-> SlotForInsert])
           /\ Len(inserted') = Len(inserted) + 1
           /\ \A i \in 1 .. Len(inserted) : inserted'[i] = inserted[i]
           /\ inserted'[Len(inserted) + 1] =
                 [offset |-> fillPtr, length |-> l, value |-> v,
                  slot |-> SlotForInsert]
BY PageAssumption DEF IInv, TypeOK, InsertRecord, NextFill, AvailableSpace

\* What the memory holds after an insertion.
LEMMA InsertMemory ==
    ASSUME IInv, NEW l \in Lengths, NEW v \in Values, InsertRecord(l, v)
    PROVE  /\ mem' \in [Addresses -> Int]
           /\ \A a \in Addresses :
                 a >= SlotAt(SlotForInsert + 1) =>
                    mem'[a] = IF a >= fillPtr /\ a < fillPtr + l THEN v ELSE mem[a]
           /\ mem'[SlotAt(SlotForInsert)] = fillPtr
           /\ mem'[SlotAt(SlotForInsert) + 1] = l
<1>1. /\ SlotAt(SlotForInsert) = 2 /\ SlotAt(SlotForInsert + 1) = 4
      BY DEF SlotAt, SlotForInsert, SlotSize
<1>2. /\ 2 \in Addresses /\ 3 \in Addresses
      BY PageAssumption DEF Addresses, SlotSize
<1>3. /\ fillPtr \in Int /\ l \in Int /\ v \in Int /\ mem \in [Addresses -> Int]
      BY PageAssumption DEF IInv, TypeOK
<1> DEFINE copy == Copied(mem, l, v)
<1>4. /\ copy \in [Addresses -> Int]
      /\ \A a \in Addresses :
            copy[a] = IF a >= fillPtr /\ a < fillPtr + l THEN v ELSE mem[a]
  <2>1. \A a \in Addresses :
           a \in fillPtr .. fillPtr + l - 1 <=> (a >= fillPtr /\ a < fillPtr + l)
        BY <1>3, PageAssumption DEF Addresses, SlotSize
  <2> QED BY <2>1, <1>3 DEF Copied
<1>5. mem' = [copy EXCEPT ![2] = fillPtr, ![3] = l]
      BY <1>1 DEF InsertRecord, AfterInsert, SlotWritten
<1> HIDE DEF copy
<1> QED BY <1>1, <1>2, <1>3, <1>4, <1>5 DEF Addresses

-----------------------------------------------------------------------------
THEOREM InitInvariant == Init => IInv
<1> SUFFICES ASSUME Init PROVE IInv OBVIOUS
<1>1. inserted = << >> /\ Len(inserted) = 0 BY DEF Init
<1>2. TypeOK
  <2>1. mem \in [Addresses -> Int] BY PageAssumption DEF Init
  <2>2. numOfSlots \in Int BY PageAssumption DEF Init
  <2> QED BY <2>1, <2>2, PageAssumption DEF Init, TypeOK, SlotSize
<1>3. RecordsInARow
      BY <1>1, PageAssumption DEF Init, RecordsInARow, End, SlotSize
<1> QED BY <1>1, <1>2, <1>3 DEF Init, IInv, RecordsBelowFill, RecordsUntouched,
              SlotTwoIsNewest, RefusalIsHonest

\* The actions that change the answer only, as long as the answer is typed and
\* a refusal is honest.
LEMMA ReadsKeep == IInv /\ Reads => IInv'
<1> SUFFICES ASSUME IInv, Reads PROVE IInv' OBVIOUS
<1>1. UNCHANGED <<page, inserted>>
      BY DEF Reads, InsertRefused, DeleteRefused, FirstRecord, NextRecord,
             GetRecord, GetNumOfRecords
<1>2. /\ RecordsInARow' /\ RecordsBelowFill' /\ RecordsUntouched' /\ SlotTwoIsNewest'
      BY <1>1 DEF IInv, page, RecordsInARow, RecordsBelowFill, RecordsUntouched,
                  SlotTwoIsNewest, End, Offset, SlotLen, SlotAt
<1>3. RefusalIsHonest'
  <2>1. CASE \E l \in Lengths : InsertRefused(l)
    <3>1. PICK l \in Lengths : InsertRefused(l) BY <2>1
    <3>2. l > freeSpace - SlotSize /\ ret'.length = l
          BY <3>1 DEF InsertRefused, Answer, AvailableSpace
    <3>3. fillPtr' + freeSpace' = DataSize BY <1>2 DEF RecordsInARow
    <3>4. fillPtr' = End' BY <1>2 DEF RecordsInARow
    <3>5. freeSpace' = freeSpace /\ fillPtr' \in Int /\ freeSpace \in Int /\ l \in Int
          BY <1>1, PageAssumption DEF page, IInv, TypeOK
    <3>6. l > freeSpace - 2 /\ DataSize \in Int
          BY <3>2, PageAssumption DEF SlotSize
    <3>7. fillPtr' + freeSpace = DataSize BY <3>3, <3>5
    <3>8. \A f, g, n, d \in Int : f + g = d /\ n > g - 2 => f + n + 2 > d
          OBVIOUS
    <3>9. fillPtr' + l + 2 > DataSize BY <3>5, <3>6, <3>7, <3>8
    <3>10. fillPtr' + l + SlotSize > DataSize BY <3>9 DEF SlotSize
    <3> QED BY <3>10, <3>2, <3>4 DEF RefusalIsHonest
  <2>2. CASE ~ \E l \in Lengths : InsertRefused(l)
    <3>1. ret'.call # "InsertRecord"
          BY <2>2 DEF Reads, DeleteRefused, FirstRecord, NextRecord, GetRecord,
                      GetNumOfRecords, Answer
    <3> QED BY <3>1 DEF RefusalIsHonest
  <2> QED BY <2>1, <2>2
<1>4. TypeOK'
  <2>1. SlotNos \subseteq Int /\ RidSlots \subseteq Int
        BY DEF SlotNos, RidSlots, SlotForInsert
  <2>2. \A i \in SlotNos : Offset(i) \in Int /\ SlotLen(i) \in Int
        BY PageAssumption DEF IInv, TypeOK, SlotNos, Offset, SlotLen, SlotAt, SlotSize,
               Addresses
  <2>3. Following(-1) \subseteq Int /\ \A i \in RidSlots : Following(i) \subseteq Int
        BY <2>1 DEF Following
  <2>4. Cardinality(Following(-1)) \in Int
    <3>1. Following(-1) \subseteq 0 .. 1 BY DEF Following, SlotNos
    <3>2. IsFiniteSet(Following(-1)) BY <3>1, FS_Interval, FS_Subset
    <3> QED BY <3>2, FS_CardinalityType
  <2> DEFINE Typed(r) ==
        r \in [call : {"Init", "InsertRecord", "DeleteRecord", "FirstRecord",
                      "NextRecord", "GetRecord", "GetNumOfRecords"},
              status : {"OK", "DONE", "FAIL"}, slot : Int, length : Int]
  <2>5. Typed(ret')
    <3>1. CASE \E l \in Lengths : InsertRefused(l)
          BY <3>1, PageAssumption DEF InsertRefused, Answer
    <3>2. ASSUME NEW i \in RidSlots, DeleteRefused(i) PROVE Typed(ret')
          BY <3>2, <2>1 DEF DeleteRefused, Answer
    <3>3. ASSUME NEW i \in RidSlots, NextRecord(i) PROVE Typed(ret')
          BY <3>3, <2>1, <2>3 DEF NextRecord, Answer
    <3>4. ASSUME NEW i \in RidSlots, GetRecord(i) PROVE Typed(ret')
          BY <3>4, <2>1, <2>2 DEF GetRecord, Answer
    <3>5. CASE FirstRecord
      <4>1. CASE Following(-1) = {}
            BY <4>1, <3>5 DEF FirstRecord, Answer
      <4>2. CASE Following(-1) # {}
        <5>1. PICK i \in Following(-1) : Answer("FirstRecord", "OK", i, 0)
              BY <4>2, <3>5 DEF FirstRecord
        <5>2. i \in Int BY <2>3, <5>1
        <5> QED BY <5>1, <5>2 DEF Answer
      <4> QED BY <4>1, <4>2
    <3>6. CASE GetNumOfRecords BY <3>6, <2>4 DEF GetNumOfRecords, Answer
    <3> QED BY <3>1, <3>2, <3>3, <3>4, <3>5, <3>6 DEF Reads
  <2> QED BY <1>1, <2>5 DEF IInv, TypeOK, page
<1> QED BY <1>2, <1>3, <1>4 DEF IInv

\* A deletion empties slots[0] or slots[1], which lie under no record.
LEMMA DeleteKeeps ==
    ASSUME IInv, NEW i \in RidSlots, DeleteRecord(i) PROVE IInv'
<1>1. UNCHANGED <<fillPtr, freeSpace, inserted>> /\ i \in SlotNos
      BY DEF DeleteRecord
<1>2. /\ mem' \in [Addresses -> Int]
      /\ \A a \in Addresses : a >= SlotAt(SlotForInsert) => mem'[a] = mem[a]
  <2>1. SlotAt(SlotForInsert) = 2 /\ SlotAt(i) < 2 /\ SlotAt(i) \in Int
        BY <1>1 DEF SlotAt, SlotForInsert, SlotSize, SlotNos
  <2>2. mem \in [Addresses -> Int] BY DEF IInv, TypeOK
  <2>3. mem' = [mem EXCEPT ![SlotAt(i)] = -1] BY DEF DeleteRecord, Emptied, EMPTY
  <2>4. Addresses \subseteq Int BY DEF Addresses
  <2>5. mem' \in [Addresses -> Int]
    <3>1. SlotAt(i) \in Addresses
          BY <1>1, PageAssumption DEF SlotAt, SlotSize, SlotNos, Addresses
    <3>2. -1 \in Int OBVIOUS
    <3> QED BY <2>2, <2>3, <3>1, <3>2
  <2>6. ASSUME NEW a \in Addresses, a >= SlotAt(SlotForInsert)
        PROVE  mem'[a] = mem[a]
    <3>1. a # SlotAt(i) BY <2>1, <2>4, <2>6
    <3> QED BY <2>2, <2>3, <3>1
  <2> QED BY <2>5, <2>6
<1>3. ret' = [call |-> "DeleteRecord", status |-> "OK", slot |-> i, length |-> 0]
      BY DEF DeleteRecord, Answer
<1>4. TypeOK'
  <2>1. i \in Int BY <1>1 DEF SlotNos
  <2>2. numOfSlots' \in Int BY DEF IInv, TypeOK, DeleteRecord
  <2>3. ret' \in [call : {"Init", "InsertRecord", "DeleteRecord", "FirstRecord",
                      "NextRecord", "GetRecord", "GetNumOfRecords"},
                 status : {"OK", "DONE", "FAIL"}, slot : Int, length : Int]
        BY <1>3, <2>1
  <2> QED BY <1>1, <1>2, <2>2, <2>3 DEF IInv, TypeOK
<1>5. RecordsInARow' /\ RecordsBelowFill'
      BY <1>1 DEF IInv, RecordsInARow, RecordsBelowFill, End
<1>6. RecordsUntouched'
  <2>1. SlotAt(SlotForInsert + 1) >= SlotAt(SlotForInsert)
        BY DEF SlotAt, SlotForInsert, SlotSize
  <2>2. /\ SlotAt(SlotForInsert) \in Int /\ SlotAt(SlotForInsert + 1) \in Int
        /\ Addresses \subseteq Int
        BY DEF SlotAt, SlotForInsert, SlotSize, Addresses
  <2>3. \A a \in Addresses : a >= SlotAt(SlotForInsert + 1) => mem'[a] = mem[a]
        BY <1>2, <2>1, <2>2
  <2> QED BY <1>1, <2>3 DEF IInv, RecordsUntouched
<1>7. SlotTwoIsNewest'
  <2>1. /\ SlotAt(SlotForInsert) \in Addresses
        /\ SlotAt(SlotForInsert) + 1 \in Addresses
        /\ SlotAt(SlotForInsert) + 1 >= SlotAt(SlotForInsert)
        /\ SlotAt(SlotForInsert) >= SlotAt(SlotForInsert)
        BY PageAssumption DEF SlotAt, SlotForInsert, SlotSize, Addresses
  <2> QED BY <1>1, <1>2, <2>1 DEF IInv, SlotTwoIsNewest, Offset, SlotLen
<1>8. RefusalIsHonest' BY <1>3 DEF RefusalIsHonest
<1> QED BY <1>4, <1>5, <1>6, <1>7, <1>8 DEF IInv

\* An insertion: the new record lies where free space began, so no short of
\* an older record is written but those under slots[2].
LEMMA InsertKeeps ==
    ASSUME IInv, NEW l \in Lengths, NEW v \in Values, InsertRecord(l, v)
    PROVE  IInv'
<1> DEFINE r == [offset |-> fillPtr, length |-> l, value |-> v, slot |-> SlotForInsert]
           n == Len(inserted)
<1>1. /\ l \in Nat /\ fillPtr' = fillPtr + l /\ freeSpace' = freeSpace - l
      /\ freeSpace - SlotSize >= l
      /\ inserted' = Append(inserted, r) /\ Len(inserted') = n + 1
      /\ \A i \in 1 .. n : inserted'[i] = inserted[i]
      /\ inserted'[n + 1] = r
      BY InsertRanges
<1>2. n \in Nat /\ inserted \in Seq([offset : Nat, length : Lengths,
                                   value : Values, slot : {SlotForInsert}])
      BY DEF IInv, TypeOK
<1>3. /\ fillPtr \in Int /\ freeSpace \in Int /\ DataSize \in Int
      /\ fillPtr >= 2 /\ fillPtr + freeSpace = DataSize /\ freeSpace - 2 >= l
      BY <1>1, PageAssumption DEF IInv, TypeOK, RecordsInARow, SlotSize
<1>3a. \A i \in 1 .. n : /\ inserted[i].offset \in Nat /\ inserted[i].length \in Nat
                          /\ inserted[i].offset + inserted[i].length \in Int
  <2> DEFINE S == [offset : Nat, length : Lengths, value : Values,
                   slot : {SlotForInsert}]
  <2>4. inserted \in Seq(S) BY <1>2
  <2> HIDE DEF S
  <2>5. \A i \in 1 .. n : inserted[i] \in S BY <2>4 DEF n
  <2>1. \A i \in 1 .. n : inserted[i] \in [offset : Nat, length : Lengths,
                                   value : Values, slot : {SlotForInsert}]
        BY <2>5 DEF S
  <2>2. Lengths \subseteq Nat BY PageAssumption
  <2> SUFFICES ASSUME NEW i \in 1 .. n
               PROVE  /\ inserted[i].offset \in Nat /\ inserted[i].length \in Nat
                      /\ inserted[i].offset + inserted[i].length \in Int
      OBVIOUS
  <2>3. inserted[i].offset \in Nat /\ inserted[i].length \in Nat BY <2>1, <2>2
  <2> QED BY <2>3
<1>4. Last(inserted') = r /\ inserted' # << >>
      BY <1>1, <1>2 DEF Last
<1> HIDE DEF r, n
<1>5. r.offset = fillPtr /\ r.length = l /\ r.value = v BY DEF r
<1>6. TypeOK'
  <2>1. numOfSlots' \in Int BY DEF IInv, TypeOK, InsertRecord
  <2>2. /\ fillPtr' \in SlotSize .. DataSize - SlotSize
        /\ freeSpace' \in SlotSize .. DataSize - SlotSize
        BY <1>1, <1>3 DEF SlotSize
  <2>3. mem' \in [Addresses -> Int] BY InsertMemory
  <2>4. inserted' \in Seq([offset : Nat, length : Lengths, value : Values,
                          slot : {SlotForInsert}])
    <3>1. r \in [offset : Nat, length : Lengths, value : Values,
                slot : {SlotForInsert}]
          BY <1>3 DEF r
    <3> QED BY <1>1, <1>2, <3>1
  <2>5. ret' = [call |-> "InsertRecord", status |-> "OK", slot |-> 2, length |-> l]
        BY DEF InsertRecord, Answer, SlotForInsert
  <2>6. ret' \in [call : {"Init", "InsertRecord", "DeleteRecord", "FirstRecord",
                      "NextRecord", "GetRecord", "GetNumOfRecords"},
                 status : {"OK", "DONE", "FAIL"}, slot : Int, length : Int]
        BY <2>5, <1>1
  <2> QED BY <2>1, <2>2, <2>3, <2>4, <2>6 DEF TypeOK
<1>7. RecordsInARow'
  <2>1. fillPtr' = End' BY <1>1, <1>4, <1>5 DEF End
  <2>2. fillPtr' + freeSpace' = DataSize
    <3>1. \A f, g, k \in Int : (f + k) + (g - k) = f + g OBVIOUS
    <3>2. fillPtr \in Int /\ freeSpace \in Int /\ l \in Int BY <1>1, <1>3
    <3>3. fillPtr' + freeSpace' = (fillPtr + l) + (freeSpace - l) BY <1>1
    <3>4. (fillPtr + l) + (freeSpace - l) = fillPtr + freeSpace BY <3>1, <3>2
    <3> QED BY <3>3, <3>4, <1>3
  <2>3. \A i \in 1 .. n + 1 : inserted'[i].offset =
          (IF i = 1 THEN SlotSize
                    ELSE inserted'[i - 1].offset + inserted'[i - 1].length)
    <3>1. ASSUME NEW i \in 1 .. n
          PROVE  inserted'[i].offset =
                   (IF i = 1 THEN SlotSize
                    ELSE inserted'[i - 1].offset + inserted'[i - 1].length)
      <4>1. inserted'[i] = inserted[i] BY <1>1
      <4>2. i # 1 => inserted'[i - 1] = inserted[i - 1] BY <1>1, <1>2
      <4> QED BY <4>1, <4>2 DEF IInv, RecordsInARow, n
    <3>2. r.offset = (IF n + 1 = 1 THEN SlotSize
                      ELSE inserted'[n].offset + inserted'[n].length)
      <4>1. fillPtr = End BY DEF IInv, RecordsInARow
      <4>2. CASE n = 0
        <5>1. inserted = << >> BY <4>2, <1>2 DEF n
        <5> QED BY <4>1, <4>2, <5>1, <1>5 DEF End
      <4>3. CASE n # 0
        <5>1. inserted # << >> /\ Last(inserted) = inserted[n] BY <4>3, <1>2 DEF Last, n
        <5>2. inserted'[n] = inserted[n] BY <4>3, <1>1, <1>2
        <5> QED BY <4>1, <4>3, <5>1, <5>2, <1>5, <1>2 DEF End
      <4> QED BY <4>2, <4>3
    <3>3. (n + 1) - 1 = n BY <1>2
    <3> QED BY <3>1, <3>2, <3>3, <1>1, <1>2
  <2> QED BY <2>1, <2>2, <2>3, <1>1 DEF RecordsInARow
<1>8. RecordsBelowFill'
  <2>1. ASSUME NEW i \in 1 .. n
        PROVE  inserted'[i].offset + inserted'[i].length <= fillPtr'
    <3>1. inserted[i].offset + inserted[i].length <= fillPtr
          BY DEF IInv, RecordsBelowFill, n
    <3>2. inserted[i].offset + inserted[i].length \in Int BY <1>3a
    <3>3. \A x, f, k \in Int : x <= f /\ k >= 0 => x <= f + k OBVIOUS
    <3>4. inserted'[i] = inserted[i] BY <1>1
    <3> QED BY <3>1, <3>2, <3>3, <3>4, <1>1, <1>3
  <2>2. r.offset + r.length <= fillPtr' BY <1>1, <1>3, <1>5
  <2> QED BY <2>1, <2>2, <1>1, <1>2 DEF RecordsBelowFill
<1>9. RecordsUntouched'
  <2> SUFFICES ASSUME NEW i \in 1 .. n + 1, NEW a \in Addresses,
                      a >= inserted'[i].offset,
                      a < inserted'[i].offset + inserted'[i].length,
                      a >= SlotAt(SlotForInsert + 1)
               PROVE  mem'[a] = inserted'[i].value
      BY <1>1 DEF RecordsUntouched
  <2>1. mem'[a] = IF a >= fillPtr /\ a < fillPtr + l THEN v ELSE mem[a]
        BY InsertMemory
  <2>2. a \in Int BY DEF Addresses
  <2>3. CASE i = n + 1 BY <2>1, <2>3, <1>1, <1>5
  <2>4. CASE i \in 1 .. n
    <3>1. inserted'[i] = inserted[i] BY <2>4, <1>1
    <3>2. inserted[i].offset + inserted[i].length <= fillPtr
          BY <2>4 DEF IInv, RecordsBelowFill, n
    <3>3. inserted[i].offset \in Int /\ inserted[i].length \in Int
          BY <2>4, <1>3a
    <3>4. ~(a >= fillPtr) BY <3>1, <3>2, <3>3, <2>2, <1>3
    <3>5. mem[a] = inserted[i].value
          BY <3>1, <2>4 DEF IInv, RecordsUntouched, n
    <3> QED BY <2>1, <3>1, <3>4, <3>5
  <2> QED BY <2>3, <2>4, <1>2
<1>10. SlotTwoIsNewest'
  <2>1. mem'[SlotAt(SlotForInsert)] = fillPtr /\ mem'[SlotAt(SlotForInsert) + 1] = l
        BY InsertMemory
  <2> QED BY <2>1, <1>4, <1>5 DEF SlotTwoIsNewest, Offset, SlotLen
<1>11. RefusalIsHonest'
      BY DEF InsertRecord, Answer, RefusalIsHonest
<1> QED BY <1>6, <1>7, <1>8, <1>9, <1>10, <1>11 DEF IInv

THEOREM StepInvariant == IInv /\ [Next]_vars => IInv'
<1> SUFFICES ASSUME IInv, [Next]_vars PROVE IInv' OBVIOUS
<1>1. ASSUME NEW l \in Lengths, NEW v \in Values, InsertRecord(l, v) PROVE IInv'
      BY <1>1, InsertKeeps
<1>2. ASSUME NEW i \in RidSlots, DeleteRecord(i) PROVE IInv'
      BY <1>2, DeleteKeeps
<1>3. CASE Reads BY <1>3, ReadsKeep
<1>4. CASE UNCHANGED vars
      BY <1>4 DEF IInv, vars, page, TypeOK, RecordsInARow, RecordsBelowFill,
           RecordsUntouched, SlotTwoIsNewest, RefusalIsHonest, End, Offset, SlotLen, SlotAt
<1> QED BY <1>1, <1>2, <1>3, <1>4 DEF Next, Reads

THEOREM Invariance == Spec => []IInv
BY InitInvariant, StepInvariant, PTL DEF Spec

\* Every field of a page keeps its range; a slot's room is never given away.
THEOREM TypeCorrect == Spec => []TypeOK
BY Invariance, PTL DEF IInv

\* Records lie one behind the other and account for all the space taken.
THEOREM RowOfRecords == Spec => []RecordsInARow
BY Invariance, PTL DEF IInv

\* No later call changes a record, except its shorts under slots[2], and these
\* always describe the record that was inserted last.
THEOREM RecordsKept == Spec => []BytesStay
<1>1. IInv => BytesStay
  BY DEF IInv, BytesStay
<1> QED BY <1>1, Invariance, PTL

\* DONE is answered only if the record and a slot do not fit.
THEOREM HonestRefusals == Spec => []RefusalIsHonest
BY Invariance, PTL DEF IInv
=============================================================================
