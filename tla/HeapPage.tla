------------------------------ MODULE HeapPage ------------------------------
(***************************************************************************)
(* One page of a heap file (class HeapPage, spacemgr/heappage.cpp).        *)
(*                                                                         *)
(* The memory of the page is counted in shorts.  A slot takes two of them, *)
(* an offset and a length.  slots[] is declared with one element, slots[0],*)
(* and data[] follows it at once, so slots[i] for i > 0 lies over the data *)
(* area: slots[1] over data[0], data[1], slots[2] over data[2], data[3].   *)
(* `mem' is that memory, with data[k] at address k, and slots[0] below 0.  *)
(*                                                                         *)
(* Init sets fillPtr and freeSpace, and leaves the rest of the page as it  *)
(* was in the frame: numOfSlots and `mem' start with any values.           *)
(***************************************************************************)
EXTENDS Integers, FiniteSets, SequencesExt

CONSTANTS DataSize,     \* HEAPPAGE_DATA_SIZE, in shorts
          Lengths,      \* the lengths callers pass
          Values,       \* the shorts that records are made of
          StaleCounts,  \* what numOfSlots can be when the page is initialised
          StaleShorts,  \* what the data area can be filled with
          MaxInserts    \* bound: how many records are inserted

SlotSize == 2           \* sizeof(Slot)
EMPTY    == -1          \* the offset of an empty slot

ASSUME PageAssumption ==
    /\ DataSize \in Nat /\ DataSize >= 3 * SlotSize
    /\ Lengths \subseteq Nat
    /\ Values \subseteq Int /\ StaleCounts \subseteq Int
    /\ StaleShorts \subseteq Int

VARIABLES numOfSlots, fillPtr, freeSpace, mem,
          inserted,     \* the records inserted: offset, length, value, rid
          ret           \* what the last call returned

page == <<numOfSlots, fillPtr, freeSpace, mem>>
vars == <<page, inserted, ret>>

Addresses == -SlotSize .. DataSize - 1

SlotNos    == 0 .. 1                    \* 0 .. slotSize
SlotAt(i)  == SlotSize * (i - 1)        \* the address of slots[i]
Offset(i)  == mem[SlotAt(i)]
SlotLen(i) == mem[SlotAt(i) + 1]

\* The definitions named Slip... are wrong versions of the definition that
\* follows them; each shows that some property notices the mistake.

SlipSlotForgotten == freeSpace
SlipTwoSlots      == freeSpace - 2 * SlotSize
AvailableSpace    == freeSpace - SlotSize

\* InsertRecord computes sizeof(slots) / sizeof(Slot) + 1 for every record.
SlotForInsert == 2

SlipOneTooFew(length) == IF length = 0 THEN fillPtr ELSE fillPtr + length - 1
NextFill(length)      == fillPtr + length

\* The record is copied to fillPtr, then the slot is written, in this order.
Copied(m, length, v) ==
    [a \in Addresses |-> IF a \in fillPtr .. fillPtr + length - 1 THEN v ELSE m[a]]
SlotWritten(m, s, length) ==
    [m EXCEPT ![SlotAt(s)] = fillPtr, ![SlotAt(s) + 1] = length]

SlipSlotFirst(length, v) ==
    Copied(SlotWritten(mem, SlotForInsert, length), length, v)
AfterInsert(length, v) ==
    SlotWritten(Copied(mem, length, v), SlotForInsert, length)

-----------------------------------------------------------------------------
\* HeapPage::Init, on a frame that held anything.
Init ==
    /\ numOfSlots \in StaleCounts
    /\ mem \in {[a \in Addresses |-> IF a = SlotAt(0) THEN s0
                                     ELSE IF a = SlotAt(1) THEN s1 ELSE 0] :
                  s0, s1 \in StaleShorts}
    /\ fillPtr = SlotSize
    /\ freeSpace = DataSize - SlotSize
    /\ inserted = << >>
    /\ ret = [call |-> "Init", status |-> "OK", slot |-> 0, length |-> 0]

Answer(call, status, slot, length) ==
    ret' = [call |-> call, status |-> status, slot |-> slot, length |-> length]

InsertRecord(length, v) ==
    /\ Len(inserted) < MaxInserts
    /\ length <= AvailableSpace
    /\ freeSpace' = freeSpace - length
    /\ mem' = AfterInsert(length, v)
    /\ fillPtr' = NextFill(length)
    /\ numOfSlots' = numOfSlots + 1
    /\ inserted' = Append(inserted, [offset |-> fillPtr, length |-> length,
                              value |-> v, slot |-> SlotForInsert])
    /\ Answer("InsertRecord", "OK", SlotForInsert, length)

InsertRefused(length) ==
    /\ length > AvailableSpace
    /\ Answer("InsertRecord", "DONE", 0, length)
    /\ UNCHANGED <<page, inserted>>

\* DeleteRecord, for any rid a caller can have got.
RidSlots == SlotNos \cup {SlotForInsert}

Emptied(i) == [mem EXCEPT ![SlotAt(i)] = EMPTY]

DeleteRecord(i) ==
    /\ i \in SlotNos /\ Offset(i) # EMPTY
    /\ mem' = Emptied(i)
    /\ numOfSlots' = numOfSlots - 1
    /\ Answer("DeleteRecord", "OK", i, 0)
    /\ UNCHANGED <<fillPtr, freeSpace, inserted>>

DeleteRefused(i) ==
    /\ i \notin SlotNos \/ Offset(i) = EMPTY
    /\ Answer("DeleteRecord", "FAIL", i, 0)
    /\ UNCHANGED <<page, inserted>>

\* FirstRecord (from = -1) and NextRecord: the next slot that is not empty.
Following(from) == {i \in SlotNos : i > from /\ Offset(i) # EMPTY}

FirstRecord ==
    /\ \/ \E i \in Following(-1) : /\ \A j \in Following(-1) : i <= j
                                   /\ Answer("FirstRecord", "OK", i, 0)
       \/ Following(-1) = {} /\ Answer("FirstRecord", "DONE", 0, 0)
    /\ UNCHANGED <<page, inserted>>

NextRecord(cur) ==
    /\ \/ cur \notin SlotNos /\ Answer("NextRecord", "FAIL", cur, 0)
       \/ cur \in SlotNos /\ \E i \in Following(cur) :
             /\ \A j \in Following(cur) : i <= j
             /\ Answer("NextRecord", "OK", i, 0)
       \/ /\ cur \in SlotNos /\ Following(cur) = {}
          /\ Answer("NextRecord", "DONE", cur, 0)
    /\ UNCHANGED <<page, inserted>>

\* GetRecord and ReturnRecord differ in the copy only.
GetRecord(i) ==
    /\ \/ /\ i \in SlotNos /\ Offset(i) # EMPTY
          /\ Answer("GetRecord", "OK", i, SlotLen(i))
       \/ /\ i \notin SlotNos \/ Offset(i) = EMPTY
          /\ Answer("GetRecord", "FAIL", i, 0)
    /\ UNCHANGED <<page, inserted>>

GetNumOfRecords ==
    /\ Answer("GetNumOfRecords", "OK", 0, Cardinality(Following(-1)))
    /\ UNCHANGED <<page, inserted>>

IsEmpty == numOfSlots = 0

Next == \/ \E l \in Lengths : \/ \E v \in Values : InsertRecord(l, v)
                              \/ InsertRefused(l)
        \/ \E i \in RidSlots : \/ DeleteRecord(i) \/ DeleteRefused(i)
                               \/ NextRecord(i) \/ GetRecord(i)
        \/ FirstRecord \/ GetNumOfRecords

Spec == Init /\ [][Next]_vars

-----------------------------------------------------------------------------
(* Properties *)

\* The ranges of the page's fields; the room of a slot is never given away.
TypeOK ==
    /\ numOfSlots \in Int
    /\ fillPtr \in SlotSize .. DataSize - SlotSize
    /\ freeSpace \in SlotSize .. DataSize - SlotSize
    /\ mem \in [Addresses -> Int]
    /\ inserted \in Seq([offset : Nat, length : Lengths, value : Values,
                         slot : {SlotForInsert}])
    /\ ret \in [call : {"Init", "InsertRecord", "DeleteRecord", "FirstRecord",
                        "NextRecord", "GetRecord", "GetNumOfRecords"},
                status : {"OK", "DONE", "FAIL"}, slot : Int, length : Int]

\* Where the last record ends.
End == IF inserted = << >> THEN SlotSize
                           ELSE Last(inserted).offset + Last(inserted).length

\* The records lie one behind the other in the data area and use exactly the
\* space that freeSpace says is gone, whatever was deleted in between.
RecordsInARow ==
    /\ \A i \in 1 .. Len(inserted) : inserted[i].offset =
          (IF i = 1 THEN SlotSize
                    ELSE inserted[i - 1].offset + inserted[i - 1].length)
    /\ fillPtr = End
    /\ fillPtr + freeSpace = DataSize

\* No later call touches a record: every short of it that is not under
\* slots[2] holds what was inserted.
RecordsUntouched ==
    \A i \in 1 .. Len(inserted) : \A a \in Addresses :
        /\ a >= inserted[i].offset
        /\ a < inserted[i].offset + inserted[i].length
        /\ a >= SlotAt(SlotForInsert + 1)
        => mem[a] = inserted[i].value

\* slots[2] describes the newest record, also when it lies over that record.
SlotTwoIsNewest ==
    inserted # << >> => /\ Offset(SlotForInsert) = Last(inserted).offset
                        /\ SlotLen(SlotForInsert) = Last(inserted).length

\* Every short of every record is accounted for, through any calls: it holds
\* what was inserted, or it lies under slots[2] and belongs to the slot of the
\* newest record, which is written after the record is copied and wins.
BytesStay == RecordsUntouched /\ SlotTwoIsNewest

\* DONE is the answer only when the record and one slot do not fit behind the
\* records that are there.
RefusalIsHonest ==
    ret.call = "InsertRecord" /\ ret.status = "DONE"
        => End + ret.length + SlotSize > DataSize

(* What the comments say, and the page does not do *)

\* heappage.cpp:158: "To retrieve a _copy_ of a record with ID rid from a page".
\* A record id that InsertRecord gave, and that no call has deleted, is found.
RidIsFound ==
    ret.call = "GetRecord" /\ ret.status = "FAIL"
        => \A i \in 1 .. Len(inserted) : inserted[i].slot # ret.slot

\* heappage.cpp:55: "Insert a record into the page".
StoredAsGiven ==
    \A i \in 1 .. Len(inserted) : \A a \in Addresses :
        /\ a >= inserted[i].offset
        /\ a < inserted[i].offset + inserted[i].length
        => mem[a] = inserted[i].value

\* heappage.cpp:111: "To find the first record on a page".
FirstIsARecord ==
    ret.call = "FirstRecord" /\ ret.status = "OK" => inserted # << >>

\* heappage.cpp:225: "Check if there is any record in the page."  The heap
\* file frees a page that says it is empty.
EmptyMeansNone == IsEmpty => inserted = << >>
=============================================================================
