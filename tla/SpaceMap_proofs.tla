--------------------------- MODULE SpaceMap_proofs ---------------------------
(***************************************************************************)
(* Proofs about the space map, for a map of any size.  The inductive       *)
(* invariant says, of the scan, that curStart + curLen is the number of    *)
(* bits examined; of set_bits, that the bits written so far are the first  *)
(* run - size of the run and that the position in the map page is the next *)
(* one; and how the map, the callers' pages and the current run relate.    *)
(***************************************************************************)
EXTENDS SpaceMap, TLAPS

-----------------------------------------------------------------------------
(* The inductive invariant *)

InScan    == pc \in {"scan", "bits"}
InSetBits == pc \in {"map", "byte"}
\* The part of the run that set_bits has written; the end of the piece of
\* the run that is on the current map page.
Written   == Run(start, run - size)
PieceEnd  == Least(start + run, mapPage * BitsPerPage)

\* The bits before curStart + curLen were examined; those after curStart are
\* the free run that is growing, and no run that starts before it fits.
ScanInv ==
    InScan =>
        /\ op = "AllocatePage" /\ run \in Nat
        /\ marked = before
        /\ curLen <= run /\ curStart + curLen <= NumPages
        /\ Run(curStart, curLen) \cap marked = {}
        /\ run = 0 => curStart = 0
        /\ \A s \in 0 .. curStart - 1 : Run(s, run) \cap marked # {}
        /\ pc = "scan" =>
              /\ i <= NumMapPages
              /\ curLen < run =>
                    curStart + curLen = Least(i * BitsPerPage, NumPages)
        /\ pc = "bits" =>
              /\ i < NumMapPages /\ left <= BitsOn(i)
              /\ curLen < run =>
                    curStart + curLen = i * BitsPerPage + BitsOn(i) - left

\* The bits of the run are written in order, and size are left to write.
SetBitsInv ==
    InSetBits =>
        /\ start \in Nat /\ run \in Nat /\ start + run <= NumPages
        /\ mapPage >= 1 /\ size <= run
        /\ marked = IF op = "DeallocatePage" THEN before \ Written
                                             ELSE before \cup Written
        /\ pc = "map" /\ run > 0 =>
              /\ size > 0 <=> mapPage <= LastMapPage
              /\ size > 0 => /\ firstBit < BitsPerPage
                             /\ BitAt(mapPage, firstBit) + size = start + run
        /\ pc = "byte" => offset < BitsPerByte
        /\ pc = "byte" /\ run > 0 =>
              /\ BitAt(mapPage, lastByte * BitsPerByte) < PieceEnd
              /\ PieceEnd <= BitAt(mapPage, (lastByte + 1) * BitsPerByte)
              /\ byte <= lastByte =>
                    /\ size > 0
                    /\ BitAt(mapPage, byte * BitsPerByte + offset) + size
                          = start + run
              /\ byte > lastByte => start + run - size = PieceEnd

\* Whose pages are where: the pages of callers and of the database are
\* marked, apart from the run the constructor or a call is working on.
OwnerInv ==
    /\ held \subseteq Pages \ Reserved
    /\ held \subseteq marked
    /\ pc # "idle" => held \subseteq before
    /\ pc # "idle" /\ op # "DB" => Reserved \subseteq before
    /\ op = "DB" => held = {} /\ start = 0 /\ run = 1 + NumMapPages
    /\ Usable /\ ~(op = "DB" /\ InSetBits) =>
          Reserved \subseteq marked
    /\ InSetBits /\ op = "AllocatePage" =>
          /\ Run(start, run) \subseteq Pages \ Reserved
          /\ Run(start, run) \cap before = {}
    /\ InSetBits /\ op = "DeallocatePage" =>
          /\ Run(start, run) \subseteq Pages \ Reserved
          /\ Run(start, run) \cap held = {}

IInv == TypeOK /\ ScanInv /\ SetBitsInv /\ OwnerInv

-----------------------------------------------------------------------------
(* Arithmetic of pages, bytes and bits *)

LEMMA DivisionBounds ==
    ASSUME NEW a \in Nat, NEW b \in Nat, b >= 1
    PROVE  /\ a \div b \in Nat
           /\ (a \div b) * b <= a
           /\ a < (a \div b) * b + b
           /\ a % b = a - (a \div b) * b
           /\ a % b \in Nat /\ a % b < b
  OBVIOUS

LEMMA ProductOrder ==
    ASSUME NEW a \in Nat, NEW b \in Nat, NEW c \in Nat, a < b
    PROVE  a * c + c <= b * c
  OBVIOUS

LEMMA ProductSuccessor ==
    ASSUME NEW a \in Nat, NEW b \in Nat
    PROVE  a * b \in Nat /\ (a + 1) * b = a * b + b
  OBVIOUS

\* The map has a bit for every page, and no page of the map is superfluous.
LEMMA MapCovers ==
    /\ BitsPerPage \in Nat /\ BitsPerPage >= 1
    /\ NumMapPages \in Nat /\ NumMapPages >= 1
    /\ NumPages <= NumMapPages * BitsPerPage
    /\ \A p \in Nat : p < NumMapPages => p * BitsPerPage < NumPages
<1>1. BitsPerPage \in Nat /\ BitsPerPage >= 1
  BY SpaceMapAssumption DEF BitsPerPage
<1>. DEFINE a == NumPages + BitsPerPage - 1
<1>2. a \in Nat /\ a >= BitsPerPage
  BY <1>1, SpaceMapAssumption
<1>. HIDE DEF a
<1>3. /\ a \div BitsPerPage \in Nat
      /\ (a \div BitsPerPage) * BitsPerPage <= a
      /\ a < (a \div BitsPerPage) * BitsPerPage + BitsPerPage
  BY <1>1, <1>2, DivisionBounds
<1>4. NumMapPages = a \div BitsPerPage
  BY DEF a, NumMapPages
<1>5. NumMapPages >= 1
  BY <1>1, <1>2, <1>3, <1>4
<1>6. NumPages <= NumMapPages * BitsPerPage
  BY <1>1, <1>3, <1>4, SpaceMapAssumption DEF a
<1>7. ASSUME NEW p \in Nat, p < NumMapPages
      PROVE  p * BitsPerPage < NumPages
  <2>1. p * BitsPerPage + BitsPerPage <= NumMapPages * BitsPerPage
    BY <1>1, <1>3, <1>4, <1>7, ProductOrder
  <2>. QED
    BY <1>1, <1>3, <1>4, <2>1, SpaceMapAssumption DEF a
<1>. QED
  BY <1>1, <1>3, <1>4, <1>5, <1>6, <1>7

LEMMA PagesHaveBits ==
    /\ Pages \subseteq MapBits
    /\ \A s, n \in Nat : s + n <= NumPages => Run(s, n) \subseteq MapBits
  BY MapCovers, SpaceMapAssumption DEF Pages, MapBits, Run

\* The scan examines at least one bit on every page of the map.
LEMMA BitsOnType ==
    ASSUME NEW p \in Nat, p < NumMapPages
    PROVE  /\ BitsOn(p) \in Nat /\ BitsOn(p) >= 1
           /\ p * BitsPerPage + BitsOn(p) =
                 Least((p + 1) * BitsPerPage, NumPages)
  BY MapCovers, SpaceMapAssumption DEF BitsOn, Least

-----------------------------------------------------------------------------
(* Type correctness, with the little that keeps the counters natural *)

LEMMA InitInvariant == Init => IInv
<1>. SUFFICES ASSUME Init PROVE IInv
  OBVIOUS
<1>1. TypeOK
  BY MapCovers, SpaceMapAssumption DEF Init, TypeOK, Statuses
<1>2. ScanInv
  BY DEF Init, ScanInv, InScan
<1>3. SetBitsInv
  <2>1. LastMapPage = NumMapPages \div BitsPerPage + 1
    BY MapCovers DEF Init, LastMapPage, Unsigned
  <2>2. LastMapPage \in Nat /\ 1 <= LastMapPage
    <3>. NumMapPages \div BitsPerPage \in Nat
      BY MapCovers, DivisionBounds
    <3>. QED
      BY <2>1
  <2>3. BitAt(mapPage, firstBit) = 0
    BY MapCovers DEF Init, BitAt
  <2>4. Written = {}
    BY MapCovers DEF Init, Written, Run
  <2>. QED
    BY <2>2, <2>3, <2>4, MapCovers, SpaceMapAssumption DEF Init, SetBitsInv
<1>4. OwnerInv
  BY DEF Init, OwnerInv, InSetBits, Usable
<1>. QED
  BY <1>1, <1>2, <1>3, <1>4 DEF IInv

LEMMA ReturnType ==
    ASSUME NEW s \in Statuses, Return(s)
    PROVE  /\ pc' = "idle" /\ status' \in Statuses
           /\ i' \in Nat /\ left' \in Nat /\ curStart' \in Nat
           /\ curLen' \in Nat /\ mapPage' \in Nat /\ firstBit' \in Nat
           /\ size' \in Nat /\ byte' \in Nat /\ lastByte' \in Nat
           /\ offset' \in Nat
  BY DEF Return, NoScanVars, NoBitsVars
LEMMA EnterType ==
    ASSUME TypeOK, NEW s \in Int, NEW n \in Nat, EnterSetBits(s, n)
    PROVE  /\ start' = s /\ pc' \in {"idle", "map"} /\ status' \in Statuses
           /\ i' \in Nat /\ left' \in Nat /\ curStart' \in Nat
           /\ curLen' \in Nat /\ mapPage' \in Nat /\ firstBit' \in Nat
           /\ size' \in Nat /\ byte' \in Nat /\ lastByte' \in Nat
           /\ offset' \in Nat
<1>1. CASE Return("BAD_PAGE_NO") /\ start' = s
  BY <1>1, ReturnType DEF Statuses
<1>2. CASE s >= 0 /\ s + n <= NumPages /\ ~ Return("BAD_PAGE_NO")
  <2>. s \in Nat
    BY <1>2
  <2>1. s \div BitsPerPage \in Nat /\ s % BitsPerPage \in Nat
    BY MapCovers, DivisionBounds
  <2>. QED
    BY <1>2, <2>1 DEF EnterSetBits, NoScanVars, TypeOK, byteVars
<1>. QED
  BY <1>1, <1>2 DEF EnterSetBits

\* A byte that is written lies in the map.
LEMMA WrittenInMap ==
    ASSUME IInv, pc = "byte", byte <= lastByte
    PROVE  Run(BitAt(mapPage, byte * BitsPerByte + offset), BitsInByte)
              \subseteq Run(start, run)
<1>. DEFINE pos == BitAt(mapPage, byte * BitsPerByte + offset)
<1>1. BitsInByte \in Nat /\ BitsInByte <= size /\ size <= run
  BY SpaceMapAssumption DEF IInv, TypeOK, SetBitsInv, InSetBits, BitsInByte, Least
<1>. pos \in Int
  BY MapCovers, SpaceMapAssumption DEF IInv, TypeOK, BitAt
<1>2. CASE run = 0
  <2>. HIDE DEF pos
  <2>1. Run(pos, BitsInByte) = {}
    BY <1>1, <1>2 DEF Run, IInv, TypeOK
  <2>. QED
    BY <2>1 DEF pos
<1>3. CASE run > 0
  <2>1. pos + size = start + run
    BY <1>3 DEF IInv, SetBitsInv, InSetBits
  <2>. HIDE DEF pos
  <2>3. Run(pos, BitsInByte) \subseteq Run(start, run)
    BY <1>1, <2>1 DEF IInv, TypeOK, Run
  <2>. QED
    BY <2>3 DEF pos
<1>. QED
  BY <1>2, <1>3 DEF IInv, SetBitsInv, InSetBits

-----------------------------------------------------------------------------
(* Every step preserves the type invariant *)

LEMMA TypeStep == IInv /\ [Next]_vars => TypeOK'
<1>. SUFFICES ASSUME IInv, [Next]_vars PROVE TypeOK'
  OBVIOUS
<1>. USE SpaceMapAssumption, MapCovers
     DEF callVars, scanVars, byteVars, bitsVars
<1>1. TypeOK
  BY DEF IInv
<1>2. CASE PinMapPage
  <2>1. firstBit \div BitsPerByte \in Nat /\ firstBit % BitsPerByte \in Nat
    BY <1>1, DivisionBounds DEF TypeOK
  <2>2. LastBit \in Nat
    BY <1>1 DEF LastBit, Least, Unsigned, TypeOK
  <2>3. LastBit \div BitsPerByte \in Nat
    BY <2>2, DivisionBounds
  <2>. QED
    BY <1>1, <1>2, <2>1, <2>3 DEF PinMapPage, TypeOK
<1>3. CASE WriteByte
  <2>1. BitsInByte \in Nat /\ size - BitsInByte \in Nat
    BY <1>1, <1>3 DEF IInv, TypeOK, SetBitsInv, InSetBits, WriteByte,
                      BitsInByte, Least
  <2>2. marked' \subseteq MapBits
    <3>1. Run(start, run) \subseteq MapBits
      BY <1>3, PagesHaveBits DEF WriteByte, IInv, SetBitsInv, InSetBits
    <3>. QED
      BY <1>1, <1>3, <3>1, WrittenInMap DEF WriteByte, TypeOK
  <2>. QED
    BY <1>1, <1>3, <2>1, <2>2 DEF WriteByte, TypeOK
<1>4. CASE UnpinMapPage
  BY <1>1, <1>4 DEF UnpinMapPage, Unpin, TypeOK
<1>5. CASE LeaveSetBits
  <2>1. op = "AllocatePage" => Run(start, run) \subseteq Pages
    BY <1>5 DEF IInv, OwnerInv, InSetBits, LeaveSetBits
  <2>. QED
    BY <1>1, <1>5, <2>1, ReturnType DEF LeaveSetBits, TypeOK, Statuses
<1>6. CASE PinScannedPage
  BY <1>1, <1>6, BitsOnType DEF PinScannedPage, TypeOK
<1>7. CASE ExamineBit
  BY <1>1, <1>7 DEF ExamineBit, AfterMarkedBit, TypeOK
<1>8. CASE UnpinScannedPage
  BY <1>1, <1>8 DEF UnpinScannedPage, Unpin, TypeOK
<1>9. CASE EndScan
  <2>1. CASE EnterSetBits(curStart, run)
    <3>1. run \in Nat
      BY <1>9 DEF EndScan, IInv, ScanInv, InScan
    <3>. QED
      BY <1>1, <1>9, <2>1, <3>1, EnterType DEF EndScan, TypeOK
  <2>2. CASE Return("DB_FULL") /\ UNCHANGED start
    BY <1>1, <1>9, <2>2, ReturnType DEF EndScan, TypeOK, Statuses
  <2>. QED
    BY <1>9, <2>1, <2>2 DEF EndScan
<1>10. CASE PinRefused
  BY <1>1, <1>10, ReturnType DEF PinRefused, TypeOK, Statuses
<1>11. ASSUME NEW n \in -1 .. MaxRun, AllocatePage(n)
       PROVE  TypeOK'
  <2>1. CASE Return("NEG_RUN_SIZE")
    BY <1>1, <1>11, <2>1, ReturnType DEF AllocatePage, TypeOK, Statuses
  <2>2. CASE pc' = "scan" /\ NoScanVars /\ UNCHANGED <<status, bitsVars>>
    BY <1>1, <1>11, <2>2 DEF AllocatePage, NoScanVars, TypeOK
  <2>. QED
    BY <1>11, <2>1, <2>2 DEF AllocatePage
<1>12. ASSUME NEW s \in -1 .. NumPages, NEW n \in -1 .. MaxRun,
              DeallocatePage(s, n)
       PROVE  TypeOK'
  <2>1. CASE Return("NEG_RUN_SIZE") /\ UNCHANGED start
    BY <1>1, <1>12, <2>1, ReturnType DEF DeallocatePage, TypeOK, Statuses
  <2>2. CASE n \in Nat /\ EnterSetBits(s, n)
    BY <1>1, <1>12, <2>2, EnterType DEF DeallocatePage, TypeOK
  <2>. QED
    BY <1>12, <2>1, <2>2 DEF DeallocatePage
<1>13. CASE UNCHANGED vars
  BY <1>1, <1>13 DEF vars, TypeOK
<1>. QED
  BY <1>2, <1>3, <1>4, <1>5, <1>6, <1>7, <1>8, <1>9, <1>10, <1>11, <1>12,
     <1>13
  DEF Next, Step, SetBitsStep, AllocateStep, Call
-----------------------------------------------------------------------------
(* Every step preserves the invariant of the scan *)

\* While a run is still short, the next bit to examine is the one of the page
\* after the run.
LEMMA NextBit ==
    ASSUME IInv, pc = "bits", left > 0, curLen < run
    PROVE  /\ BitAt(1 + i, BitsOn(i) - left) = curStart + curLen
           /\ curStart + curLen < NumPages
<1>1. i \in Nat /\ i < NumMapPages /\ left \in Nat /\ left <= BitsOn(i)
      /\ curStart + curLen = i * BitsPerPage + BitsOn(i) - left
  BY DEF IInv, TypeOK, ScanInv, InScan
<1>2. BitsOn(i) \in Nat /\ i * BitsPerPage + BitsOn(i) <= NumPages
  BY <1>1, BitsOnType, MapCovers, SpaceMapAssumption DEF Least
<1>3. i * BitsPerPage \in Nat
  BY <1>1, MapCovers
<1>4. BitAt(1 + i, BitsOn(i) - left) = i * BitsPerPage + (BitsOn(i) - left)
  BY <1>1 DEF BitAt
<1>. QED
  BY <1>1, <1>2, <1>3, <1>4, SpaceMapAssumption

LEMMA ScanStep == IInv /\ [Next]_vars => ScanInv'
<1>. SUFFICES ASSUME IInv, [Next]_vars PROVE ScanInv'
  OBVIOUS
<1>. USE SpaceMapAssumption, MapCovers
     DEF callVars, scanVars, byteVars, bitsVars
<1>1. TypeOK /\ ScanInv
  BY DEF IInv
<1>2. CASE SetBitsStep \/ EndScan \/ PinRefused
  BY <1>2 DEF SetBitsStep, PinMapPage, WriteByte, UnpinMapPage, LeaveSetBits,
              EndScan, EnterSetBits, PinRefused, Return, ScanInv, InScan
<1>3. CASE PinScannedPage
  <2>1. i < NumMapPages /\ left' = BitsOn(i) /\ BitsOn(i) \in Nat
    BY <1>1, <1>3, BitsOnType DEF PinScannedPage, TypeOK
  <2>2. Least(i * BitsPerPage, NumPages) = i * BitsPerPage
        /\ i * BitsPerPage \in Nat
    BY <1>1, <2>1 DEF Least, TypeOK
  <2>3. BitsOn(i)' = BitsOn(i)
    BY <1>3 DEF PinScannedPage, BitsOn
  <2>. QED
    BY <1>1, <1>3, <2>1, <2>2, <2>3
    DEF PinScannedPage, ScanInv, InScan, Run, TypeOK
<1>4. CASE ExamineBit
  <2>1. /\ BitAt(1 + i, BitsOn(i) - left) = curStart + curLen
        /\ curStart + curLen < NumPages
    BY <1>4, NextBit DEF ExamineBit
  <2>2. BitsOn(i)' = BitsOn(i) /\ BitsOn(i) \in Nat /\ i * BitsPerPage \in Nat
    BY <1>1, <1>4, BitsOnType DEF ExamineBit, BitsOn, ScanInv, InScan, TypeOK
  <2>3. CASE curStart + curLen \in marked
    <3>1. curStart' = curStart + curLen + 1 /\ curLen' = 0
      BY <1>4, <2>1, <2>3 DEF ExamineBit, AfterMarkedBit
    <3>2. ASSUME NEW s \in 0 .. curStart' - 1
          PROVE  Run(s, run) \cap marked # {}
      <4>1. CASE s < curStart
        BY <1>1, <1>4, <3>2, <4>1 DEF ExamineBit, ScanInv, InScan, TypeOK
      <4>2. CASE s >= curStart
        <5>1. curStart + curLen \in Run(s, run)
          BY <1>1, <1>4, <3>1, <4>2 DEF ExamineBit, Run, ScanInv, InScan, TypeOK
        <5>. QED
          BY <5>1, <2>3
      <4>. QED
        BY <4>1, <4>2, <1>1, <3>1 DEF TypeOK
    <3>3. Run(curStart', curLen') = {}
      BY <1>1, <3>1 DEF Run, TypeOK
    <3>. QED
      BY <1>1, <1>4, <2>1, <2>2, <3>1, <3>2, <3>3
      DEF ExamineBit, ScanInv, InScan, TypeOK
  <2>4. CASE curStart + curLen \notin marked
    <3>1. curStart' = curStart /\ curLen' = curLen + 1
      BY <1>4, <2>1, <2>4 DEF ExamineBit
    <3>2. Run(curStart', curLen') \cap marked = {}
      BY <1>1, <1>4, <2>4, <3>1 DEF ExamineBit, ScanInv, InScan, Run, TypeOK
    <3>. QED
      BY <1>1, <1>4, <2>1, <2>2, <3>1, <3>2
      DEF ExamineBit, ScanInv, InScan, TypeOK
  <2>. QED
    BY <2>3, <2>4
<1>5. CASE UnpinScannedPage
  <2>1. i < NumMapPages /\ i' = i + 1
    BY <1>1, <1>5 DEF UnpinScannedPage, ScanInv, InScan
  <2>2. i * BitsPerPage + BitsOn(i) = Least(i' * BitsPerPage, NumPages)
    BY <1>1, <2>1, BitsOnType DEF TypeOK
  <2>. QED
    BY <1>1, <1>5, <2>1, <2>2, BitsOnType
    DEF UnpinScannedPage, ScanInv, InScan, TypeOK
<1>6. ASSUME NEW n \in -1 .. MaxRun, AllocatePage(n)
      PROVE  ScanInv'
  <2>1. CASE pc' = "idle"
    BY <2>1 DEF ScanInv, InScan
  <2>2. CASE n >= 0 /\ pc' = "scan" /\ NoScanVars
    BY <1>6, <2>2 DEF AllocatePage, NoScanVars, ScanInv, InScan, Run, Least
  <2>. QED
    BY <1>6, <2>1, <2>2 DEF AllocatePage, Return
<1>7. ASSUME NEW s \in -1 .. NumPages, NEW n \in -1 .. MaxRun,
             DeallocatePage(s, n)
      PROVE  ScanInv'
  BY <1>7 DEF DeallocatePage, EnterSetBits, Return, ScanInv, InScan
<1>8. CASE UNCHANGED vars
  BY <1>1, <1>8 DEF vars, ScanInv, InScan, BitsOn
<1>. QED
  BY <1>2, <1>3, <1>4, <1>5, <1>6, <1>7, <1>8
  DEF Next, Step, AllocateStep, Call
-----------------------------------------------------------------------------
(* Every step preserves the invariant of set_bits *)

\* The last map page of a run that is not empty is the page of its last bit.
LEMMA LastMapPageBounds ==
    ASSUME NEW s \in Nat, NEW n \in Nat, n > 0,
           NEW L, L = Unsigned(s + n - 1) \div BitsPerPage + 1
    PROVE  /\ L \in Nat /\ L >= 1
           /\ \A p \in Nat : p * BitsPerPage < s + n <=> p < L
<1>. DEFINE last == s + n - 1
            page == last \div BitsPerPage
<1>1. last \in Nat /\ L = page + 1
  BY DEF Unsigned
<1>. HIDE DEF last
<1>2. page \in Nat /\ page * BitsPerPage <= last
      /\ last < page * BitsPerPage + BitsPerPage
  BY <1>1, MapCovers, DivisionBounds
<1>. HIDE DEF page
<1>3. ASSUME NEW p \in Nat, p <= page
      PROVE  p * BitsPerPage < s + n
  <2>1. p * BitsPerPage <= page * BitsPerPage
    <3>1. CASE p = page
      BY <3>1, <1>2, MapCovers
    <3>2. CASE p < page
      BY <3>2, <1>2, MapCovers, ProductOrder
    <3>. QED
      BY <3>1, <3>2, <1>2, <1>3
  <2>. QED
    BY <1>2, <2>1, MapCovers DEF last
<1>4. ASSUME NEW p \in Nat, p > page
      PROVE  ~(p * BitsPerPage < s + n)
  <2>1. page * BitsPerPage + BitsPerPage <= p * BitsPerPage
    BY <1>2, <1>4, MapCovers, ProductOrder
  <2>. QED
    BY <1>2, <2>1, MapCovers DEF last
<1>. QED
  BY <1>1, <1>2, <1>3, <1>4

\* set_bits begins with its whole run to write, at the run's first bit.
LEMMA EnterSetBitsInv ==
    ASSUME TypeOK, NEW s \in Int, NEW n \in Nat, EnterSetBits(s, n),
           run' = n, marked' = before'
    PROVE  SetBitsInv'
<1>1. CASE pc' = "idle"
  BY <1>1 DEF SetBitsInv, InSetBits
<1>2. CASE s >= 0 /\ s + n <= NumPages /\ pc' = "map"
           /\ mapPage' = s \div BitsPerPage + 1 /\ firstBit' = s % BitsPerPage
           /\ size' = n
  <2>. s \in Nat /\ start' = s
    BY <1>2 DEF EnterSetBits
  <2>1. /\ s \div BitsPerPage \in Nat
        /\ (s \div BitsPerPage) * BitsPerPage <= s
        /\ s % BitsPerPage = s - (s \div BitsPerPage) * BitsPerPage
        /\ s % BitsPerPage \in Nat /\ s % BitsPerPage < BitsPerPage
    BY MapCovers, DivisionBounds
  <2>. DEFINE page == s \div BitsPerPage
  <2>2. BitAt(mapPage, firstBit)' = s
    <3>1. BitAt(mapPage, firstBit)' = page * BitsPerPage + (s % BitsPerPage)
      BY <1>2, <2>1 DEF BitAt
    <3>2. page * BitsPerPage \in Int
      BY <2>1, MapCovers
    <3>. HIDE DEF page
    <3>. QED
      BY <2>1, <3>1, <3>2 DEF page
  <2>3. n > 0 => mapPage' <= LastMapPage'
    <3>. SUFFICES ASSUME n > 0 PROVE mapPage' <= LastMapPage'
      OBVIOUS
    <3>1. \A p \in Nat : p * BitsPerPage < s + n <=> p < LastMapPage'
      BY <1>2, LastMapPageBounds DEF LastMapPage
    <3>2. page * BitsPerPage < s + n
      BY <2>1, MapCovers
    <3>3. page < LastMapPage'
      BY <2>1, <3>1, <3>2
    <3>4. LastMapPage' \in Nat
      BY <1>2, LastMapPageBounds DEF LastMapPage
    <3>. QED
      BY <1>2, <2>1, <3>3, <3>4
  <2>4. Written' = {}
    BY <1>2 DEF Written, Run
  <2>. QED
    BY <1>2, <2>1, <2>2, <2>3, <2>4 DEF SetBitsInv
<1>. QED
  BY <1>1, <1>2 DEF EnterSetBits, Return
\* The piece of a run on a map page ends at or before the page's last byte.
LEMMA LastByteOnPage ==
    ASSUME NEW b \in Nat, b * BitsPerByte < BitsPerPage
    PROVE  (b + 1) * BitsPerByte <= BitsPerPage
<1>1. BitsPerPage = BytesPerPage * BitsPerByte
  BY SpaceMapAssumption DEF BitsPerPage
<1>2. b < BytesPerPage
  <2>. SUFFICES ASSUME BytesPerPage <= b PROVE FALSE
    BY SpaceMapAssumption
  <2>1. BytesPerPage * BitsPerByte <= b * BitsPerByte
    BY SpaceMapAssumption
  <2>. QED
    BY <1>1, <2>1, SpaceMapAssumption
<1>. QED
  BY <1>1, <1>2, ProductOrder, SpaceMapAssumption

\* Where the map page starts in the map.
LEMMA PageBase ==
    ASSUME TypeOK, mapPage >= 1
    PROVE  \E base \in Nat :
              /\ \A b : BitAt(mapPage, b) = base + b
              /\ mapPage * BitsPerPage = base + BitsPerPage
              /\ BitAt(mapPage + 1, 0) = base + BitsPerPage
<1>. DEFINE base == (mapPage - 1) * BitsPerPage
<1>1. mapPage - 1 \in Nat /\ BitsPerPage \in Nat
  BY MapCovers DEF TypeOK
<1>2. base \in Nat /\ mapPage * BitsPerPage = base + BitsPerPage
  BY <1>1, ProductSuccessor DEF TypeOK
<1>3. \A b : BitAt(mapPage, b) = base + b
  BY DEF BitAt
<1>4. BitAt(mapPage + 1, 0) = base + BitsPerPage
  BY <1>1, <1>2 DEF BitAt, TypeOK
<1>. QED
  BY <1>2, <1>3, <1>4

LEMMA PinMapPageInv == IInv /\ PinMapPage => SetBitsInv'
<1>. SUFFICES ASSUME IInv, PinMapPage PROVE SetBitsInv'
  OBVIOUS
<1>. BitsPerByte \in Nat /\ BitsPerByte >= 1 /\ BitsPerPage \in Nat
     /\ BitsPerPage >= 1 /\ WordMax \in Nat
  BY SpaceMapAssumption, MapCovers
<1>1. TypeOK /\ SetBitsInv /\ InSetBits
  BY DEF IInv, PinMapPage, InSetBits
<1>2. /\ byte' \in Nat /\ offset' \in Nat /\ offset' < BitsPerByte
      /\ byte' * BitsPerByte + offset' = firstBit
  <2>. DEFINE q == firstBit \div BitsPerByte
              r == firstBit % BitsPerByte
  <2>1. /\ q \in Nat /\ r \in Nat /\ r < BitsPerByte
        /\ r = firstBit - q * BitsPerByte
    BY <1>1, DivisionBounds DEF TypeOK
  <2>2. byte' = q /\ offset' = r
    BY DEF PinMapPage
  <2>3. q * BitsPerByte \in Nat
    BY <2>1, ProductSuccessor
  <2>. HIDE DEF q, r
  <2>. QED
    BY <1>1, <2>1, <2>2, <2>3 DEF TypeOK
<1>3. UNCHANGED <<start, run, op, marked, before, size, mapPage>>
  BY DEF PinMapPage, callVars
<1>4. ASSUME run > 0
      PROVE  /\ size > 0 /\ byte' <= lastByte'
             /\ BitAt(mapPage, lastByte' * BitsPerByte) < PieceEnd
             /\ PieceEnd <= BitAt(mapPage, (lastByte' + 1) * BitsPerByte)
  <2>1. /\ size > 0 /\ firstBit < BitsPerPage
        /\ BitAt(mapPage, firstBit) + size = start + run
    BY <1>1, <1>4 DEF SetBitsInv, PinMapPage
  <2>2. PICK base \in Nat : /\ \A b : BitAt(mapPage, b) = base + b
                            /\ mapPage * BitsPerPage = base + BitsPerPage
    BY <1>1, PageBase DEF SetBitsInv
  <2>3. LastBit \in Nat /\ firstBit <= LastBit /\ PieceEnd = base + LastBit + 1
    BY <1>1, <2>1, <2>2 DEF LastBit, Least, Unsigned, PieceEnd, TypeOK,
                            SetBitsInv
  <2>4. /\ lastByte' \in Nat /\ lastByte' * BitsPerByte <= LastBit
        /\ LastBit < lastByte' * BitsPerByte + BitsPerByte
    BY <2>3, DivisionBounds DEF PinMapPage
  <2>5. (lastByte' + 1) * BitsPerByte = lastByte' * BitsPerByte + BitsPerByte
        /\ lastByte' * BitsPerByte \in Nat
    BY <2>4, ProductSuccessor
  <2>6. byte' <= lastByte'
    <3>. SUFFICES ASSUME lastByte' < byte' PROVE FALSE
      BY <1>2, <2>4
    <3>1. lastByte' * BitsPerByte + BitsPerByte <= byte' * BitsPerByte
      BY <1>2, <2>4, ProductOrder
    <3>2. byte' * BitsPerByte \in Nat
      BY <1>2, ProductSuccessor
    <3>. PICK first \in Nat, last \in Nat :
            first = byte' * BitsPerByte /\ last = lastByte' * BitsPerByte
      BY <2>5, <3>2
    <3>3. /\ last + BitsPerByte <= first /\ first + offset' = firstBit
          /\ LastBit < last + BitsPerByte
          /\ first \in Nat /\ last \in Nat /\ offset' \in Nat
      BY <1>2, <2>4, <2>5, <3>1, <3>2
    <3>4. last + BitsPerByte <= firstBit
      BY <1>1, <3>3 DEF TypeOK
    <3>5. firstBit < last + BitsPerByte
      BY <1>1, <2>3, <3>3 DEF TypeOK
    <3>. QED
      BY <1>1, <3>3, <3>4, <3>5 DEF TypeOK
  <2>7. /\ BitAt(mapPage, lastByte' * BitsPerByte)
              = base + lastByte' * BitsPerByte
        /\ BitAt(mapPage, (lastByte' + 1) * BitsPerByte)
              = base + (lastByte' * BitsPerByte + BitsPerByte)
    BY <2>2, <2>5
  <2>8. /\ BitAt(mapPage, lastByte' * BitsPerByte) < PieceEnd
        /\ PieceEnd <= BitAt(mapPage, (lastByte' + 1) * BitsPerByte)
    <3>. DEFINE last == lastByte' * BitsPerByte
    <3>1. last \in Nat /\ last <= LastBit /\ LastBit < last + BitsPerByte
      BY <2>4, <2>5
    <3>2. base + last < PieceEnd /\ PieceEnd <= base + (last + BitsPerByte)
      <4>. HIDE DEF last
      <4>. QED
        BY <2>3, <3>1
    <3>. QED
      BY <2>7, <3>2
  <2>. QED
    BY <2>1, <2>6, <2>8
<1>5. PieceEnd' = PieceEnd /\ Written' = Written
  BY <1>3 DEF PieceEnd, Written
<1>6. ASSUME run > 0
      PROVE  BitAt(mapPage, byte' * BitsPerByte + offset') + size = start + run
  BY <1>1, <1>2, <1>4, <1>6 DEF SetBitsInv, PinMapPage
<1>7. byte' <= lastByte' => ~(byte' > lastByte')
  BY <1>2, <1>1 DEF PinMapPage, TypeOK, LastBit, Least, Unsigned
<1>. QED
  BY <1>1, <1>2, <1>3, <1>4, <1>5, <1>6, <1>7
  DEF SetBitsInv, InSetBits, PinMapPage, BitAt, TypeOK
LEMMA WriteByteInv == IInv /\ WriteByte => SetBitsInv'
<1>. SUFFICES ASSUME IInv, WriteByte PROVE SetBitsInv'
  OBVIOUS
<1>. BitsPerByte \in Nat /\ BitsPerByte >= 1 /\ BitsPerPage \in Nat
     /\ BitsPerPage >= 1
  BY SpaceMapAssumption, MapCovers
<1>1. TypeOK /\ SetBitsInv /\ InSetBits /\ offset < BitsPerByte
  BY DEF IInv, WriteByte, InSetBits, SetBitsInv
<1>2. UNCHANGED <<start, run, op, before, mapPage, lastByte, pc>>
      /\ byte' = byte + 1 /\ offset' = 0
  BY DEF WriteByte, callVars
<1>3. BitsInByte \in Nat /\ BitsInByte <= size /\ size' = size - BitsInByte
      /\ BitsInByte = Least(size, BitsPerByte - offset)
  BY <1>1 DEF WriteByte, BitsInByte, Least, TypeOK
<1>. DEFINE pos  == BitAt(mapPage, byte * BitsPerByte + offset)
            mask == Run(pos, BitsInByte)
<1>4. mask \subseteq Run(start, run)
  BY WrittenInMap DEF WriteByte
<1>5. CASE run = 0
  <2>1. size = 0 /\ size' = 0 /\ Written = {} /\ Written' = {} /\ mask = {}
    BY <1>1, <1>2, <1>3, <1>4, <1>5 DEF SetBitsInv, Written, Run, TypeOK
  <2>. QED
    BY <1>1, <1>2, <1>5, <2>1 DEF SetBitsInv, InSetBits, WriteByte, TypeOK
<1>6. CASE run > 0
  <2>1. PICK base \in Nat : /\ \A b : BitAt(mapPage, b) = base + b
                            /\ mapPage * BitsPerPage = base + BitsPerPage
    BY <1>1, PageBase DEF SetBitsInv
  <2>. DEFINE at   == byte * BitsPerByte
              last == lastByte * BitsPerByte
  <2>2. /\ at \in Nat /\ last \in Nat
        /\ (byte + 1) * BitsPerByte = at + BitsPerByte
        /\ (lastByte + 1) * BitsPerByte = last + BitsPerByte
    BY <1>1, ProductSuccessor DEF TypeOK
  <2>3. /\ size > 0 /\ base + at + offset + size = start + run
        /\ base + last < PieceEnd /\ PieceEnd <= base + last + BitsPerByte
    <3>1. /\ size > 0 /\ BitAt(mapPage, at + offset) + size = start + run
          /\ BitAt(mapPage, last) < PieceEnd
          /\ PieceEnd <= BitAt(mapPage, last + BitsPerByte)
      BY <1>1, <1>6, <2>2 DEF SetBitsInv, WriteByte
    <3>. HIDE DEF at, last
    <3>. QED
      BY <1>1, <2>1, <2>2, <3>1 DEF TypeOK
  <2>4. PieceEnd = Least(start + run, base + BitsPerPage)
    BY <2>1 DEF PieceEnd
  <2>5. pos = start + run - size
    <3>1. pos = base + (at + offset)
      BY <2>1
    <3>. HIDE DEF at, last, pos
    <3>. QED
      BY <1>1, <2>2, <2>3, <3>1 DEF TypeOK
  <2>6. Written' = Written \cup mask
    <3>. HIDE DEF pos
    <3>. QED
      BY <1>1, <1>2, <1>3, <2>5 DEF Written, Run, TypeOK, SetBitsInv
  <2>7. marked' = IF op = "DeallocatePage" THEN before \ Written'
                                           ELSE before \cup Written'
    BY <1>1, <2>6 DEF SetBitsInv, WriteByte
  <2>10. /\ BitAt(mapPage, lastByte * BitsPerByte)'
                = BitAt(mapPage, lastByte * BitsPerByte)
         /\ BitAt(mapPage, (lastByte + 1) * BitsPerByte)'
                = BitAt(mapPage, (lastByte + 1) * BitsPerByte)
         /\ PieceEnd' = PieceEnd
    BY <1>2 DEF BitAt, PieceEnd
  <2>8. CASE byte < lastByte
    <3>1. at + BitsPerByte <= last
      BY <1>1, <2>8, ProductOrder DEF TypeOK
    <3>2. size' > 0 /\ base + (at + BitsPerByte) + size' = start + run
      <4>. HIDE DEF at, last
      <4>. QED
        BY <1>1, <1>3, <2>2, <2>3, <2>4, <3>1 DEF Least, TypeOK, SetBitsInv
    <3>3. BitAt(mapPage, byte * BitsPerByte + offset)' + size' = start + run
      <4>1. byte' * BitsPerByte + offset' = at + BitsPerByte
        BY <1>2, <2>2
      <4>. QED
        BY <1>2, <2>1, <3>2, <4>1 DEF BitAt
    <3>4. byte' <= lastByte' /\ ~(byte' > lastByte')
      BY <1>1, <1>2, <2>8 DEF TypeOK
    <3>5. /\ start' \in Nat /\ run' \in Nat /\ start' + run' <= NumPages
          /\ mapPage' >= 1 /\ size' <= run'
          /\ offset' < BitsPerByte
      BY <1>1, <1>2, <1>3 DEF SetBitsInv, TypeOK
    <3>6. /\ BitAt(mapPage, lastByte * BitsPerByte) < PieceEnd
          /\ PieceEnd <= BitAt(mapPage, (lastByte + 1) * BitsPerByte)
      BY <1>1, <1>6 DEF SetBitsInv, WriteByte
    <3>7. pc' = "byte"
      BY <1>2 DEF WriteByte
    <3>. QED
      BY <1>2, <2>7, <2>10, <3>2, <3>3, <3>4, <3>5, <3>6, <3>7
      DEF SetBitsInv
  <2>9. CASE byte = lastByte
    <3>1. last + BitsPerByte <= BitsPerPage
      <4>1. last < BitsPerPage
        <5>. HIDE DEF last
        <5>. QED
          BY <2>2, <2>3, <2>4, <1>1 DEF Least, TypeOK, SetBitsInv
      <4>. QED
        BY <1>1, <2>2, <4>1, LastByteOnPage DEF TypeOK
    <3>2. start + run - size' = PieceEnd
      <4>1. at = last
        BY <2>9
      <4>. HIDE DEF at, last
      <4>. QED
        BY <1>1, <1>3, <2>2, <2>3, <2>4, <3>1, <4>1
        DEF Least, TypeOK, SetBitsInv
    <3>4. byte' > lastByte' /\ ~(byte' <= lastByte')
      BY <1>1, <1>2, <2>9 DEF TypeOK
    <3>5. /\ start' \in Nat /\ run' \in Nat /\ start' + run' <= NumPages
          /\ mapPage' >= 1 /\ size' <= run'
          /\ offset' < BitsPerByte
      BY <1>1, <1>2, <1>3 DEF SetBitsInv, TypeOK
    <3>6. /\ BitAt(mapPage, lastByte * BitsPerByte) < PieceEnd
          /\ PieceEnd <= BitAt(mapPage, (lastByte + 1) * BitsPerByte)
      BY <1>1, <1>6 DEF SetBitsInv, WriteByte
    <3>7. pc' = "byte"
      BY <1>2 DEF WriteByte
    <3>. QED
      BY <1>2, <2>7, <2>10, <3>2, <3>4, <3>5, <3>6, <3>7
      DEF SetBitsInv
  <2>. QED
    BY <1>1, <2>8, <2>9 DEF WriteByte, TypeOK
<1>. QED
  BY <1>1, <1>5, <1>6 DEF SetBitsInv
LEMMA UnpinMapPageInv == IInv /\ UnpinMapPage => SetBitsInv'
<1>. SUFFICES ASSUME IInv, UnpinMapPage PROVE SetBitsInv'
  OBVIOUS
<1>. BitsPerPage \in Nat /\ BitsPerPage >= 1
  BY MapCovers
<1>1. TypeOK /\ SetBitsInv /\ InSetBits
  BY DEF IInv, UnpinMapPage, InSetBits
<1>2. UNCHANGED <<start, run, op, before, marked, size>>
      /\ mapPage' = mapPage + 1 /\ firstBit' = 0 /\ pc' = "map"
  BY DEF UnpinMapPage, callVars
<1>3. Written' = Written /\ LastMapPage' = LastMapPage
  BY <1>2 DEF Written, LastMapPage
<1>4. ASSUME run > 0
      PROVE  /\ size > 0 <=> mapPage + 1 <= LastMapPage
             /\ size > 0 => BitAt(mapPage + 1, 0) + size = start + run
  <2>1. start + run - size = PieceEnd
    BY <1>1, <1>4 DEF SetBitsInv, UnpinMapPage
  <2>2. PICK base \in Nat : /\ mapPage * BitsPerPage = base + BitsPerPage
                            /\ BitAt(mapPage + 1, 0) = base + BitsPerPage
    BY <1>1, PageBase DEF SetBitsInv
  <2>3. PieceEnd = Least(start + run, base + BitsPerPage)
    BY <2>2 DEF PieceEnd
  <2>4. /\ LastMapPage \in Nat
        /\ mapPage * BitsPerPage < start + run <=> mapPage < LastMapPage
    <3>1. start \in Nat /\ run \in Nat /\ mapPage \in Nat
      BY <1>1 DEF SetBitsInv, TypeOK
    <3>. QED
      BY <1>4, <3>1, LastMapPageBounds DEF LastMapPage
  <2>5. base + BitsPerPage < start + run <=> mapPage < LastMapPage
    BY <2>2, <2>4
  <2>6. size > 0 <=> base + BitsPerPage < start + run
    BY <1>1, <2>1, <2>3 DEF Least, TypeOK
  <2>7. size > 0 => start + run - size = base + BitsPerPage
    BY <1>1, <2>1, <2>3 DEF Least, TypeOK
  <2>. QED
    BY <1>1, <2>2, <2>4, <2>5, <2>6, <2>7 DEF TypeOK
<1>5. BitAt(mapPage, firstBit)' = BitAt(mapPage + 1, 0)
  BY <1>2 DEF BitAt
<1>. QED
  BY <1>1, <1>2, <1>3, <1>4, <1>5 DEF SetBitsInv, InSetBits, TypeOK

LEMMA SetBitsInvStep == IInv /\ [Next]_vars => SetBitsInv'
<1>. SUFFICES ASSUME IInv, [Next]_vars PROVE SetBitsInv'
  OBVIOUS
<1>1. TypeOK /\ SetBitsInv
  BY DEF IInv
<1>2. CASE PinMapPage
  BY <1>2, PinMapPageInv
<1>3. CASE WriteByte
  BY <1>3, WriteByteInv
<1>4. CASE UnpinMapPage
  BY <1>4, UnpinMapPageInv
<1>5. CASE LeaveSetBits \/ PinRefused
  BY <1>5 DEF LeaveSetBits, PinRefused, Return, SetBitsInv, InSetBits
<1>6. CASE PinScannedPage \/ ExamineBit \/ UnpinScannedPage
  BY <1>6 DEF PinScannedPage, ExamineBit, UnpinScannedPage, SetBitsInv,
              InSetBits
<1>7. CASE EndScan
  <2>1. CASE EnterSetBits(curStart, run)
    <3>1. run \in Nat /\ run' = run /\ marked' = before' /\ curStart \in Int
      BY <1>1, <1>7 DEF EndScan, IInv, ScanInv, InScan, callVars, TypeOK
    <3>. QED
      BY <1>1, <2>1, <3>1, EnterSetBitsInv
  <2>2. CASE Return("DB_FULL")
    BY <2>2 DEF Return, SetBitsInv, InSetBits
  <2>. QED
    BY <1>7, <2>1, <2>2 DEF EndScan
<1>8. ASSUME NEW n \in -1 .. MaxRun, AllocatePage(n)
      PROVE  SetBitsInv'
  BY <1>8 DEF AllocatePage, Return, SetBitsInv, InSetBits
<1>9. ASSUME NEW s \in -1 .. NumPages, NEW n \in -1 .. MaxRun,
             DeallocatePage(s, n)
      PROVE  SetBitsInv'
  <2>1. CASE n \in Nat /\ EnterSetBits(s, n)
    BY <1>1, <1>9, <2>1, EnterSetBitsInv, SpaceMapAssumption DEF DeallocatePage
  <2>2. CASE Return("NEG_RUN_SIZE")
    BY <2>2 DEF Return, SetBitsInv, InSetBits
  <2>. QED
    BY <1>9, <2>1, <2>2, SpaceMapAssumption DEF DeallocatePage
<1>10. CASE UNCHANGED vars
  <2>1. /\ BitAt(mapPage, lastByte * BitsPerByte)'
              = BitAt(mapPage, lastByte * BitsPerByte)
        /\ BitAt(mapPage, (lastByte + 1) * BitsPerByte)'
              = BitAt(mapPage, (lastByte + 1) * BitsPerByte)
        /\ BitAt(mapPage, byte * BitsPerByte + offset)'
              = BitAt(mapPage, byte * BitsPerByte + offset)
        /\ BitAt(mapPage, firstBit)' = BitAt(mapPage, firstBit)
        /\ PieceEnd' = PieceEnd /\ Written' = Written
        /\ LastMapPage' = LastMapPage
    BY <1>10 DEF vars, bitsVars, byteVars, BitAt, PieceEnd, Written, LastMapPage
  <2>. QED
    BY <1>1, <1>10, <2>1 DEF vars, bitsVars, byteVars, SetBitsInv, InSetBits
<1>. QED
  BY <1>2, <1>3, <1>4, <1>5, <1>6, <1>7, <1>8, <1>9, <1>10
  DEF Next, Step, SetBitsStep, AllocateStep, Call
-----------------------------------------------------------------------------
(* Every step preserves the invariant of whose pages are where *)

LEMMA OwnerStep == IInv /\ [Next]_vars => OwnerInv'
<1>. SUFFICES ASSUME IInv, [Next]_vars PROVE OwnerInv'
  OBVIOUS
<1>. USE DEF callVars, scanVars, byteVars, bitsVars
<1>1. TypeOK /\ ScanInv /\ SetBitsInv /\ OwnerInv
  BY DEF IInv
<1>2. CASE PinMapPage \/ UnpinMapPage \/ PinScannedPage \/ ExamineBit
           \/ UnpinScannedPage
  BY <1>1, <1>2
  DEF PinMapPage, UnpinMapPage, PinScannedPage, ExamineBit, UnpinScannedPage,
      OwnerInv, InSetBits, Usable, Run
<1>3. CASE WriteByte
  <2>. DEFINE mask == Run(BitAt(mapPage, byte * BitsPerByte + offset),
                          BitsInByte)
  <2>1. mask \subseteq Run(start, run)
    BY <1>3, WrittenInMap DEF WriteByte
  <2>2. marked' = IF op = "DeallocatePage" THEN marked \ mask
                                           ELSE marked \cup mask
    BY <1>3 DEF WriteByte
  <2>3. UNCHANGED <<op, run, held, pc, start, status, before>> /\ InSetBits
    BY <1>3 DEF WriteByte, InSetBits
  <2>4. Run(start, run)' = Run(start, run)
    BY <2>3 DEF Run
  <2>. HIDE DEF mask
  <2>. QED
    BY <1>1, <2>1, <2>2, <2>3, <2>4 DEF OwnerInv, InSetBits, Usable
<1>4. CASE LeaveSetBits
  <2>1. InSetBits /\ pc' = "idle" /\ status' = "OK"
        /\ UNCHANGED <<marked, op, run, start, before>>
        /\ held' = IF op = "AllocatePage" THEN held \cup Run(start, run)
                                         ELSE held
    BY <1>4 DEF LeaveSetBits, Return, InSetBits
  <2>2. run > 0 => size = 0
    <3>1. ASSUME run > 0 PROVE LastMapPage \in Nat
      BY <1>1, <2>1, <3>1, LastMapPageBounds DEF LastMapPage, SetBitsInv
    <3>. QED
      BY <1>1, <1>4, <2>1, <3>1 DEF LeaveSetBits, SetBitsInv, TypeOK
  <2>3. op # "DeallocatePage" => Run(start, run) \subseteq marked
    <3>1. CASE run > 0
      BY <1>1, <2>1, <2>2, <3>1 DEF SetBitsInv, Written
    <3>2. CASE ~(run > 0)
      BY <1>1, <2>1, <3>2 DEF SetBitsInv, Run, TypeOK
    <3>. QED
      BY <3>1, <3>2
  <2>4. op = "DB" => Run(start, run) = Reserved
    BY <1>1, MapCovers DEF OwnerInv, Run, Reserved
  <2>. QED
    BY <1>1, <2>1, <2>3, <2>4 DEF OwnerInv, InSetBits, Usable
<1>5. CASE EndScan
  <2>1. op = "AllocatePage" /\ marked = before /\ run \in Nat
        /\ UNCHANGED <<marked, op, run, held, before>>
    BY <1>1, <1>5 DEF EndScan, ScanInv, InScan
  <2>2. CASE pc' = "idle"
    BY <1>1, <1>5, <2>1, <2>2 DEF EndScan, OwnerInv, InSetBits, Usable
  <2>3. CASE pc' = "map" /\ start' = curStart /\ curLen >= run
    <3>1. Run(start, run)' = Run(curStart, run)
      BY <2>1, <2>3 DEF Run
    <3>2. Run(curStart, run) \cap marked = {}
          /\ Run(curStart, run) \subseteq Pages
      BY <1>1, <1>5, <2>3, SpaceMapAssumption
      DEF EndScan, ScanInv, InScan, Run, Pages, TypeOK
    <3>. QED
      BY <1>1, <1>5, <2>1, <2>3, <3>1, <3>2
      DEF EndScan, OwnerInv, InSetBits, Usable
  <2>. QED
    BY <1>5, <2>2, <2>3 DEF EndScan, EnterSetBits, Return
<1>6. CASE PinRefused
  BY <1>1, <1>6 DEF PinRefused, Return, OwnerInv, InSetBits, Usable
<1>7. ASSUME NEW n \in -1 .. MaxRun, AllocatePage(n)
      PROVE  OwnerInv'
  BY <1>1, <1>7 DEF AllocatePage, Return, OwnerInv, InSetBits, Usable
<1>8. ASSUME NEW s \in -1 .. NumPages, NEW n \in -1 .. MaxRun,
             DeallocatePage(s, n)
      PROVE  OwnerInv'
  <2>1. /\ Run(s, n) \subseteq held /\ held' = held \ Run(s, n)
        /\ op' = "DeallocatePage" /\ run' = n /\ before' = marked
        /\ marked' = marked /\ pc = "idle" /\ Usable
    BY <1>8 DEF DeallocatePage
  <2>2. pc' = "idle" \/ (pc' = "map" /\ start' = s)
    BY <1>8 DEF DeallocatePage, EnterSetBits, Return
  <2>3. start' = s => Run(start, run)' = Run(s, n)
    BY <2>1 DEF Run
  <2>. QED
    BY <1>1, <2>1, <2>2, <2>3 DEF OwnerInv, InSetBits, Usable
<1>9. CASE UNCHANGED vars
  BY <1>1, <1>9 DEF vars, OwnerInv, InSetBits, Usable, Run
<1>. QED
  BY <1>2, <1>3, <1>4, <1>5, <1>6, <1>7, <1>8, <1>9
  DEF Next, Step, SetBitsStep, AllocateStep, Call

-----------------------------------------------------------------------------
(* The theorems *)

THEOREM Invariance == Spec => []IInv
<1>1. IInv /\ [Next]_vars => IInv'
  BY TypeStep, ScanStep, SetBitsInvStep, OwnerStep DEF IInv
<1>. QED
  BY InitInvariant, <1>1, PTL DEF Spec

\* Type correctness.
THEOREM TypeCorrect == Spec => []TypeOK
<1>1. IInv => TypeOK
  BY DEF IInv
<1>. QED
  BY Invariance, <1>1, PTL

\* AllocatePage never hands out a page that is reserved, that a caller owns
\* or that was marked when the call was made, on a map of any size.
THEOREM FreshGrants == Spec => []GrantIsFresh
<1>1. IInv => GrantIsFresh
  BY DEF IInv, OwnerInv, InSetBits, GrantIsFresh
<1>. QED
  BY Invariance, <1>1, PTL

\* Pages in use stay marked through every sequence of calls, refused pins
\* included.
THEOREM HeldPagesSafe == Spec => []HeldStaysMarked
<1>1. IInv => HeldStaysMarked
  BY DEF IInv, OwnerInv, InSetBits, HeldStaysMarked
<1>. QED
  BY Invariance, <1>1, PTL

\* AllocatePage gives the first run that is long enough.
THEOREM FirstFitHolds == Spec => []FirstFit
<1>1. Init => FirstFit
  BY DEF Init, FirstFit
<1>2. IInv /\ FirstFit /\ [Next]_vars => FirstFit'
  <2>. SUFFICES ASSUME IInv, FirstFit, [Next]_vars PROVE FirstFit'
    OBVIOUS
  <2>. USE DEF callVars
  <2>1. CASE EndScan
    <3>1. op = "AllocatePage" /\ marked = before
          /\ \A s \in 0 .. curStart - 1 : Run(s, run) \cap marked # {}
          /\ UNCHANGED <<before, run>>
      BY <2>1 DEF EndScan, IInv, ScanInv, InScan
    <3>2. pc' = "idle" \/ start' = curStart
      BY <2>1 DEF EndScan, EnterSetBits, Return
    <3>. QED
      BY <3>1, <3>2 DEF FirstFit, Run
  <2>2. CASE PinMapPage \/ WriteByte \/ UnpinMapPage
    BY <2>2 DEF PinMapPage, WriteByte, UnpinMapPage, FirstFit, Run
  <2>3. CASE UNCHANGED vars
    BY <2>3 DEF vars, FirstFit, Run
  <2>4. CASE LeaveSetBits \/ PinRefused \/ PinScannedPage \/ ExamineBit
             \/ UnpinScannedPage \/ Call
    BY <2>4
    DEF LeaveSetBits, PinRefused, PinScannedPage, ExamineBit, UnpinScannedPage,
        Call, AllocatePage, DeallocatePage, EnterSetBits, Return, FirstFit
  <2>. QED
    BY <2>1, <2>2, <2>3, <2>4 DEF Next, Step, SetBitsStep, AllocateStep
<1>. QED
  BY <1>1, <1>2, Invariance, PTL DEF Spec

\* DB_FULL is the truth: there is no run of the length asked for.
THEOREM FullIsTrue == Spec => []FullIsHonest
<1>1. Init => FullIsHonest
  BY DEF Init, FullIsHonest
<1>2. IInv /\ FullIsHonest /\ [Next]_vars => FullIsHonest'
  <2>. SUFFICES ASSUME IInv, FullIsHonest, [Next]_vars PROVE FullIsHonest'
    OBVIOUS
  <2>. USE DEF callVars
  <2>1. CASE EndScan
    <3>1. CASE EnterSetBits(curStart, run)
      BY <3>1 DEF EnterSetBits, Return, FullIsHonest
    <3>2. CASE curLen < run
      <4>1. /\ TypeOK /\ marked' = marked /\ run' = run /\ run \in Nat
            /\ curStart + curLen = Least(NumMapPages * BitsPerPage, NumPages)
            /\ \A s \in 0 .. curStart - 1 : Run(s, run) \cap marked # {}
        BY <2>1, <3>2 DEF EndScan, IInv, ScanInv, InScan
      <4>2. curStart + curLen = NumPages
        BY <4>1, MapCovers, SpaceMapAssumption DEF Least
      <4>3. ASSUME NEW s \in Pages, Run(s, run) \subseteq Pages \ marked
            PROVE  FALSE
        <5>1. s + run - 1 \in Run(s, run)
          BY <3>2, <4>1, <4>3, SpaceMapAssumption DEF Pages, Run, TypeOK
        <5>2. s + run <= NumPages
          BY <4>1, <4>3, <5>1, SpaceMapAssumption DEF Pages
        <5>3. s < curStart
          BY <3>2, <4>1, <4>2, <4>3, <5>2, SpaceMapAssumption DEF Pages, TypeOK
        <5>. QED
          BY <4>1, <4>3, <5>3, SpaceMapAssumption DEF Pages, TypeOK
      <4>. QED
        BY <4>1, <4>3 DEF FullIsHonest, Run
    <3>. QED
      BY <2>1, <3>1, <3>2 DEF EndScan
  <2>2. CASE Next /\ ~EndScan
    BY <2>2
    DEF Next, Step, SetBitsStep, AllocateStep, PinMapPage, WriteByte,
        UnpinMapPage, LeaveSetBits, PinRefused, PinScannedPage, ExamineBit,
        UnpinScannedPage, Call, AllocatePage, DeallocatePage, EnterSetBits,
        Return, FullIsHonest
  <2>3. CASE UNCHANGED vars
    BY <2>3 DEF vars, FullIsHonest, Run
  <2>. QED
    BY <2>1, <2>2, <2>3
<1>. QED
  BY <1>1, <1>2, Invariance, PTL DEF Spec

\* The space map implements the abstract allocator: a step that gives a run
\* to a caller gives pages nobody had, and every other step takes pages away
\* from their owner by the owner's own call, or changes nothing.
THEOREM Refinement == Spec => AllocatorSpec
<1>1. Init => Allocator!Init
  BY DEF Init, Allocator!Init
<1>2. IInv /\ [Next]_vars => [Allocator!Next]_held
  <2>. SUFFICES ASSUME IInv, Next, held' # held PROVE Allocator!Next
    BY DEF vars
  <2>1. CASE LeaveSetBits
    <3>1. /\ op = "AllocatePage" /\ held' = held \cup Run(start, run)
          /\ Run(start, run) \subseteq Pages \ Reserved
          /\ Run(start, run) \cap held = {}
          /\ start \in Int /\ run \in Int
      BY <2>1 DEF LeaveSetBits, IInv, OwnerInv, InSetBits, TypeOK
    <3>2. run > 0
      BY <3>1 DEF Run
    <3>3. start \in Pages /\ start + run - 1 \in Pages
      BY <3>1, <3>2 DEF Run
    <3>4. Allocator!Allocate
      BY <3>1, <3>3 DEF Allocator!Allocate, Run
    <3>. QED
      BY <3>4 DEF Allocator!Next
  <2>2. ASSUME NEW s \in -1 .. NumPages, NEW n \in -1 .. MaxRun,
               DeallocatePage(s, n)
        PROVE  Allocator!Next
    BY <2>2 DEF DeallocatePage, Allocator!Next, Allocator!Release
  <2>3. CASE Next /\ ~LeaveSetBits
             /\ ~\E s \in -1 .. NumPages, n \in -1 .. MaxRun :
                    DeallocatePage(s, n)
    BY <2>3
    DEF Next, Step, SetBitsStep, AllocateStep, PinMapPage, WriteByte, callVars,
        UnpinMapPage, PinRefused, PinScannedPage, ExamineBit, EndScan,
        UnpinScannedPage, Call, AllocatePage
  <2>. QED
    BY <2>1, <2>2, <2>3
<1>. QED
  BY <1>1, <1>2, Invariance, PTL DEF Spec, AllocatorSpec, Allocator!Spec
LEMMA WrittenInRun == TypeOK => Written \subseteq Run(start, run)
  BY DEF TypeOK, Written, Run

\* set_bits writes the bits of its run, all of them if it reports OK, and
\* never another; so does every call.
THEOREM ExactWrites == Spec => []WritesExactlyTheRun
<1>1. Init => WritesExactlyTheRun
  BY DEF Init, WritesExactlyTheRun
<1>2. IInv /\ WritesExactlyTheRun /\ [Next]_vars => WritesExactlyTheRun'
  <2>. SUFFICES ASSUME IInv, WritesExactlyTheRun, [Next]_vars
                PROVE  WritesExactlyTheRun'
    OBVIOUS
  <2>. USE DEF callVars
  <2>1. TypeOK /\ ScanInv /\ SetBitsInv /\ IInv'
    BY TypeStep, ScanStep, SetBitsInvStep, OwnerStep DEF IInv
  <2>2. CASE (InSetBits \/ InScan)'
    <3>1. CASE InSetBits'
      <4>1. TypeOK'
        BY <2>1 DEF IInv
      <4>2. (Written \subseteq Run(start, run))'
        BY <4>1, WrittenInRun, PTL
      <4>. QED
        BY <2>1, <3>1, <4>2 DEF IInv, SetBitsInv, InSetBits, WritesExactlyTheRun
    <3>2. CASE InScan'
      BY <2>1, <3>2 DEF IInv, ScanInv, InScan, WritesExactlyTheRun
    <3>. QED
      BY <2>2, <3>1, <3>2
  <2>3. CASE LeaveSetBits
    <3>1. InSetBits /\ UNCHANGED <<marked, op, run, start, before>>
      BY <2>3 DEF LeaveSetBits, InSetBits
    <3>2. Written = Run(start, run)
      <4>1. CASE run > 0
        <5>1. LastMapPage \in Nat
          BY <2>1, <3>1, <4>1, LastMapPageBounds DEF LastMapPage, SetBitsInv
        <5>2. size = 0
          BY <2>1, <2>3, <3>1, <4>1, <5>1 DEF LeaveSetBits, SetBitsInv, TypeOK
        <5>. QED
          BY <2>1, <5>2 DEF Written, TypeOK
      <4>2. CASE ~(run > 0)
        BY <2>1, <3>1, <4>2 DEF SetBitsInv, Written, Run, TypeOK
      <4>. QED
        BY <4>1, <4>2
    <3>3. Run(start, run)' = Run(start, run)
      BY <3>1 DEF Run
    <3>. QED
      BY <2>1, <3>1, <3>2, <3>3 DEF SetBitsInv, WritesExactlyTheRun
  <2>4. CASE EndScan /\ ~(InSetBits \/ InScan)'
    BY <2>1, <2>4
    DEF EndScan, EnterSetBits, Return, ScanInv, InScan, InSetBits,
        WritesExactlyTheRun
  <2>5. CASE PinRefused
    BY <2>5 DEF PinRefused, Return, WritesExactlyTheRun, Run
  <2>6. ASSUME NEW n \in -1 .. MaxRun, AllocatePage(n), ~InScan'
        PROVE  WritesExactlyTheRun'
    BY <2>6 DEF AllocatePage, Return, InScan, WritesExactlyTheRun
  <2>7. ASSUME NEW s \in -1 .. NumPages, NEW n \in -1 .. MaxRun,
               DeallocatePage(s, n), ~InSetBits'
        PROVE  WritesExactlyTheRun'
    BY <2>7 DEF DeallocatePage, EnterSetBits, Return, InSetBits,
                WritesExactlyTheRun
  <2>8. CASE UNCHANGED vars
    BY <2>8 DEF vars, WritesExactlyTheRun, Run
  <2>9. CASE PinMapPage \/ WriteByte \/ UnpinMapPage \/ PinScannedPage
             \/ ExamineBit \/ UnpinScannedPage
    BY <2>2, <2>9
    DEF PinMapPage, WriteByte, UnpinMapPage, PinScannedPage, ExamineBit,
        UnpinScannedPage, InSetBits, InScan
  <2>. QED
    BY <2>2, <2>3, <2>4, <2>5, <2>6, <2>7, <2>8, <2>9
    DEF Next, Step, SetBitsStep, AllocateStep, Call
<1>. QED
  BY <1>1, <1>2, Invariance, PTL DEF Spec

\* A call of the space manager returns with nothing pinned, on every path, a
\* refused pin included: no page is pinned while another is asked for.
THEOREM PinsReturned == Spec => []NothingLeftPinned
<1>1. Init => NothingLeftPinned
  BY DEF Init, NothingLeftPinned
<1>2. NothingLeftPinned /\ [Next]_vars => NothingLeftPinned'
  <2>. SUFFICES ASSUME NothingLeftPinned, [Next]_vars
                PROVE  NothingLeftPinned'
    OBVIOUS
  <2>1. CASE PinMapPage \/ WriteByte \/ PinScannedPage \/ ExamineBit
    BY <2>1 DEF PinMapPage, WriteByte, PinScannedPage, ExamineBit,
                NothingLeftPinned
  <2>2. CASE UnpinMapPage \/ UnpinScannedPage
    BY <2>2 DEF UnpinMapPage, UnpinScannedPage, Unpin, NothingLeftPinned
  <2>3. CASE LeaveSetBits \/ EndScan \/ PinRefused
    BY <2>3 DEF LeaveSetBits, EndScan, PinRefused, NothingLeftPinned
  <2>4. ASSUME NEW n \in -1 .. MaxRun, AllocatePage(n)
        PROVE  NothingLeftPinned'
    BY <2>4 DEF AllocatePage, NothingLeftPinned
  <2>5. ASSUME NEW s \in -1 .. NumPages, NEW n \in -1 .. MaxRun,
               DeallocatePage(s, n)
        PROVE  NothingLeftPinned'
    BY <2>5 DEF DeallocatePage, NothingLeftPinned
  <2>6. CASE UNCHANGED vars
    BY <2>6 DEF vars, NothingLeftPinned
  <2>. QED
    BY <2>1, <2>2, <2>3, <2>4, <2>5, <2>6
    DEF Next, Step, SetBitsStep, AllocateStep, Call
<1>. QED
  BY <1>1, <1>2, PTL DEF Spec

-----------------------------------------------------------------------------
(* Calls come to an end *)

\* How many steps a call can still make at most: the bytes of the map pages
\* that set_bits has before it, and the bits of those that the scan has.
PageCost     == BytesPerPage + 2
BitCost      == BitsPerPage + 2
WritesLeft   == IF byte <= lastByte THEN lastByte - byte + 1 ELSE 0
MapPagesLeft == IF mapPage < NumPages THEN NumPages - mapPage ELSE 0
StepsLeft ==
    CASE pc = "map"  -> MapPagesLeft * PageCost + 1
      [] pc = "byte" -> (MapPagesLeft - 1) * PageCost + WritesLeft + 2
      [] pc = "scan" -> (NumMapPages - i) * BitCost + NumPages * PageCost + 2
      [] pc = "bits" -> (NumMapPages - (i + 1)) * BitCost + left + 1
                           + NumPages * PageCost + 2
      [] OTHER       -> 0
ByteInv == pc = "byte" => mapPage < NumPages /\ lastByte < BytesPerPage

LEMMA LastByteBound ==
    ASSUME IInv, pc = "map" PROVE LastBit \div BitsPerByte < BytesPerPage
<1>1. firstBit \in Nat /\ size \in Nat
  BY DEF IInv, TypeOK
<1>2. LastBit \in Nat /\ LastBit < BitsPerPage
  BY <1>1, MapCovers, SpaceMapAssumption DEF LastBit, Least, Unsigned
<1>. DEFINE b == LastBit \div BitsPerByte
<1>3. b \in Nat /\ b * BitsPerByte <= LastBit
  BY <1>2, DivisionBounds, SpaceMapAssumption
<1>. HIDE DEF b
<1>4. b * BitsPerByte < BitsPerPage
  <2>1. b * BitsPerByte \in Nat /\ BitsPerPage \in Nat
    BY <1>3, MapCovers, ProductSuccessor, SpaceMapAssumption
  <2>2. \A x, y, z \in Nat : x <= y /\ y < z => x < z
    OBVIOUS
  <2>. QED
    BY <1>2, <1>3, <2>1, <2>2
<1>5. (b + 1) * BitsPerByte <= BitsPerPage
  BY <1>3, <1>4, LastByteOnPage
<1>6. b < BytesPerPage
  <2>. SUFFICES ASSUME BytesPerPage <= b PROVE FALSE
    BY <1>3, SpaceMapAssumption
  <2>1. BytesPerPage * BitsPerByte + BitsPerByte <= (b + 1) * BitsPerByte
    BY <1>3, ProductOrder, SpaceMapAssumption
  <2>2. BitsPerPage = BytesPerPage * BitsPerByte /\ BitsPerPage \in Nat
    BY SpaceMapAssumption DEF BitsPerPage
  <2>. QED
    BY <1>3, <1>5, <2>1, <2>2, SpaceMapAssumption
<1>. QED
  BY <1>6 DEF b

LEMMA ByteStep == IInv /\ ByteInv /\ [Next]_vars => ByteInv'
<1>. SUFFICES ASSUME IInv, ByteInv, [Next]_vars PROVE ByteInv'
  OBVIOUS
<1>1. CASE PinMapPage
  BY <1>1, LastByteBound DEF PinMapPage, ByteInv
<1>2. CASE WriteByte
  BY <1>2 DEF WriteByte, ByteInv
<1>3. CASE UNCHANGED vars
  BY <1>3 DEF vars, bitsVars, byteVars, ByteInv
<1>4. CASE pc' # "byte"
  BY <1>4 DEF ByteInv
<1>. QED
  BY <1>1, <1>2, <1>3, <1>4
  DEF Next, Step, SetBitsStep, AllocateStep, Call, UnpinMapPage, LeaveSetBits,
      PinScannedPage, ExamineBit, UnpinScannedPage, EndScan, EnterSetBits, Return,
      PinRefused, AllocatePage, DeallocatePage

\* A mask that is not empty belongs to a page of the map.
LEMMA MasksInMap ==
    ASSUME IInv, pc = "byte", byte <= lastByte, size > 0
    PROVE  mapPage <= NumMapPages
<1>. BitsPerPage \in Nat /\ BitsPerPage >= 1 /\ BitsPerByte \in Nat
     /\ BitsPerByte >= 1 /\ BytesPerPage \in Nat /\ NumPages \in Nat
     /\ NumMapPages \in Nat
  BY MapCovers, SpaceMapAssumption
<1>1. TypeOK /\ SetBitsInv /\ InSetBits
  BY DEF IInv, InSetBits
<1>2. run > 0 /\ start + run <= NumPages /\ mapPage >= 1
  BY <1>1 DEF SetBitsInv, TypeOK
<1>3. PICK base \in Nat : /\ \A b : BitAt(mapPage, b) = base + b
                          /\ mapPage * BitsPerPage = base + BitsPerPage
  BY <1>1, <1>2, PageBase
<1>. DEFINE last == lastByte * BitsPerByte
<1>4. last \in Nat /\ base + last < Least(start + run, base + BitsPerPage)
  BY <1>1, <1>2, <1>3, ProductSuccessor DEF SetBitsInv, PieceEnd, TypeOK
<1>5. last < BitsPerPage /\ base < NumPages
  <2>. HIDE DEF last
  <2>. QED
    BY <1>1, <1>2, <1>4 DEF Least, TypeOK
<1>6. mapPage <= NumMapPages
  <2>. SUFFICES ASSUME NumMapPages < mapPage PROVE FALSE
    BY <1>1 DEF TypeOK
  <2>1. NumMapPages * BitsPerPage + BitsPerPage <= mapPage * BitsPerPage
    BY <1>1, ProductOrder DEF TypeOK
  <2>2. NumMapPages * BitsPerPage \in Nat /\ NumPages <= NumMapPages * BitsPerPage
    BY MapCovers
  <2>. PICK all \in Nat : all = NumMapPages * BitsPerPage
    BY <2>2
  <2>. QED
    BY <1>3, <1>5, <2>1, <2>2
<1>. QED
  BY <1>6

\* The byte loop of set_bits stays in the page it has pinned, for an empty run
\* that wraps around too, and the bits it changes are bits of the space map.
THEOREM WritesStayInMap == Spec => []WritesInsideTheMap
<1>1. Init => ByteInv
  BY DEF Init, ByteInv
<1>2. IInv /\ ByteInv => WritesInsideTheMap
  <2>. SUFFICES ASSUME IInv, ByteInv, pc = "byte", byte <= lastByte
                PROVE  /\ mapPage \in Pages \ {0} /\ byte < BytesPerPage
                       /\ offset + BitsInByte <= BitsPerByte
                       /\ BitsInByte > 0 => mapPage <= NumMapPages
    BY DEF WritesInsideTheMap
  <2>1. /\ mapPage \in Nat /\ mapPage >= 1 /\ byte \in Nat /\ lastByte \in Nat
        /\ size \in Nat /\ offset \in Nat /\ offset < BitsPerByte
    BY DEF IInv, TypeOK, SetBitsInv, InSetBits
  <2>2. mapPage < NumPages /\ lastByte < BytesPerPage
    BY DEF ByteInv
  <2>3. BitsInByte <= BitsPerByte - offset /\ (BitsInByte > 0 => size > 0)
    BY <2>1, SpaceMapAssumption DEF BitsInByte, Least
  <2>4. BitsInByte \in Nat
    BY <2>1, SpaceMapAssumption DEF BitsInByte, Least
  <2>5. mapPage \in Pages \ {0} /\ byte < BytesPerPage
    BY <2>1, <2>2, SpaceMapAssumption DEF Pages
  <2>. QED
    BY <2>1, <2>3, <2>4, <2>5, MasksInMap, SpaceMapAssumption
<1>. QED
  BY <1>1, <1>2, ByteStep, Invariance, PTL DEF Spec

\* The terms of StepsLeft.
LEMMA Costs ==
    /\ PageCost \in Nat /\ BitCost \in Nat /\ NumPages * PageCost \in Nat
    /\ \A n, c \in Nat : n * c \in Nat /\ (n > 0 => n * c = (n - 1) * c + c)
    /\ \A n \in Nat : n <= NumPages => n * PageCost <= NumPages * PageCost
<1>1. PageCost \in Nat /\ BitCost \in Nat
  BY MapCovers, SpaceMapAssumption DEF PageCost, BitCost
<1>2. \A n, c \in Nat : n * c \in Nat
  BY ProductSuccessor
<1>3. ASSUME NEW n \in Nat, NEW c \in Nat, n > 0 PROVE n * c = (n - 1) * c + c
  <2>1. n - 1 \in Nat /\ (n - 1) + 1 = n
    BY <1>3
  <2>. QED
    BY <2>1, ProductSuccessor
<1>4. ASSUME NEW n \in Nat, n <= NumPages PROVE n * PageCost <= NumPages * PageCost
  <2>1. CASE n = NumPages
    BY <1>1, <1>2, <2>1, SpaceMapAssumption
  <2>2. CASE n < NumPages
    <3>1. n * PageCost + PageCost <= NumPages * PageCost
      BY <1>1, <2>2, ProductOrder, SpaceMapAssumption
    <3>. QED
      BY <1>1, <1>2, <3>1, SpaceMapAssumption
  <2>. QED
    BY <1>4, <2>1, <2>2, SpaceMapAssumption
<1>. QED
  BY <1>1, <1>2, <1>3, <1>4, SpaceMapAssumption

LEMMA StepsLeftType ==
    ASSUME IInv, ByteInv
    PROVE  StepsLeft \in Nat /\ (StepsLeft = 0 <=> pc = "idle")
<1>. DEFINE B == NumPages * PageCost
<1>1. /\ i \in Nat /\ left \in Nat /\ byte \in Nat /\ lastByte \in Nat /\ mapPage \in Nat
      /\ NumPages \in Nat /\ NumMapPages \in Nat
      /\ pc \in {"idle", "scan", "bits", "map", "byte"}
  BY MapCovers, SpaceMapAssumption DEF IInv, TypeOK
<1>2. MapPagesLeft \in Nat /\ WritesLeft \in Nat /\ B \in Nat
  BY <1>1, Costs DEF MapPagesLeft, WritesLeft
<1>. HIDE DEF B
<1>3. CASE pc = "map"
  <2>1. MapPagesLeft * PageCost \in Nat
    BY <1>2, Costs
  <2>. QED
    BY <1>3, <2>1 DEF StepsLeft
<1>4. CASE pc = "byte"
  <2>1. MapPagesLeft - 1 \in Nat
    BY <1>1, <1>4 DEF ByteInv, MapPagesLeft
  <2>2. (MapPagesLeft - 1) * PageCost \in Nat
    BY <2>1, Costs
  <2>. QED
    BY <1>2, <1>4, <2>2 DEF StepsLeft
<1>5. CASE pc = "scan"
  <2>1. NumMapPages - i \in Nat
    BY <1>1, <1>5 DEF IInv, ScanInv, InScan
  <2>2. (NumMapPages - i) * BitCost \in Nat
    BY <2>1, Costs
  <2>3. StepsLeft = (NumMapPages - i) * BitCost + B + 2
    BY <1>5 DEF StepsLeft, B
  <2>. QED
    BY <1>2, <1>5, <2>2, <2>3
<1>6. CASE pc = "bits"
  <2>1. NumMapPages - (i + 1) \in Nat
    BY <1>1, <1>6 DEF IInv, ScanInv, InScan
  <2>2. (NumMapPages - (i + 1)) * BitCost \in Nat
    BY <2>1, Costs
  <2>3. StepsLeft = (NumMapPages - (i + 1)) * BitCost + left + 1 + B + 2
    BY <1>6 DEF StepsLeft, B
  <2>. QED
    BY <1>1, <1>2, <1>6, <2>2, <2>3
<1>7. CASE pc = "idle"
  BY <1>7 DEF StepsLeft
<1>. QED
  BY <1>1, <1>3, <1>4, <1>5, <1>6, <1>7

LEMMA MapStepsDown ==
    ASSUME IInv, ByteInv, SetBitsStep PROVE StepsLeft' < StepsLeft
<1>. DEFINE M == MapPagesLeft
            C == PageCost
<1>1. /\ byte \in Nat /\ lastByte \in Nat /\ mapPage \in Nat /\ NumPages \in Nat
      /\ BytesPerPage \in Nat /\ M \in Nat /\ WritesLeft \in Nat
  BY SpaceMapAssumption DEF IInv, TypeOK, MapPagesLeft, WritesLeft
<1>2. C = BytesPerPage + 2 /\ C \in Nat
  BY SpaceMapAssumption DEF PageCost
<1>3. CASE PinMapPage
  <2>1. pc = "map" /\ pc' = "byte" /\ M' = M /\ M > 0
    BY <1>1, <1>3 DEF PinMapPage, MapPagesLeft
  <2>2. lastByte' \in Nat /\ byte' \in Nat /\ lastByte' < BytesPerPage
    BY <1>3, TypeStep, LastByteBound DEF PinMapPage, Next, Step, SetBitsStep, TypeOK
  <2>3. WritesLeft' \in Nat /\ WritesLeft' <= BytesPerPage
    <3>1. WritesLeft' = IF byte' <= lastByte' THEN lastByte' - byte' + 1 ELSE 0
      BY DEF WritesLeft
    <3>2. \A b, l, n \in Nat : l < n => /\ (IF b <= l THEN l - b + 1 ELSE 0) \in Nat
                                       /\ (IF b <= l THEN l - b + 1 ELSE 0) <= n
      OBVIOUS
    <3>. QED
      BY <1>1, <2>2, <3>1, <3>2
  <2>4. StepsLeft = M * C + 1 /\ StepsLeft' = (M - 1) * C + WritesLeft' + 2
    BY <2>1 DEF StepsLeft
  <2>5. M * C = (M - 1) * C + C /\ (M - 1) * C \in Nat
    <3>1. M - 1 \in Nat
      BY <1>1, <2>1
    <3>. HIDE DEF M, C
    <3>. QED
      BY <1>1, <1>2, <2>1, <3>1, Costs
  <2>. DEFINE P == M * C
              Q == (M - 1) * C
  <2>6. StepsLeft = P + 1 /\ StepsLeft' = Q + WritesLeft' + 2 /\ P = Q + C /\ Q \in Nat
    BY <2>4, <2>5
  <2>7. \A q, c, w, b \in Nat : c = b + 2 /\ w <= b => q + w + 2 < (q + c) + 1
    OBVIOUS
  <2>. HIDE DEF M, C, P, Q
  <2>8. Q + WritesLeft' + 2 < (Q + C) + 1
    BY <1>1, <1>2, <2>3, <2>6, <2>7
  <2>. QED
    BY <2>6, <2>8
<1>4. CASE WriteByte
  <2>1. pc = "byte" /\ pc' = "byte" /\ M' = M /\ M - 1 \in Nat
    BY <1>1, <1>4 DEF WriteByte, MapPagesLeft, ByteInv
  <2>2. WritesLeft' < WritesLeft /\ WritesLeft' \in Nat
    BY <1>1, <1>4 DEF WriteByte, WritesLeft
  <2>3. /\ StepsLeft = (M - 1) * C + WritesLeft + 2
        /\ StepsLeft' = (M - 1) * C + WritesLeft' + 2
    BY <2>1 DEF StepsLeft
  <2>4. (M - 1) * C \in Nat
    BY <1>2, <2>1, Costs
  <2>. HIDE DEF M, C
  <2>. QED
    BY <1>1, <2>2, <2>3, <2>4
<1>5. CASE UnpinMapPage
  <2>1. pc = "byte" /\ pc' = "map" /\ M' = M - 1 /\ M - 1 \in Nat
    BY <1>1, <1>5 DEF UnpinMapPage, MapPagesLeft, ByteInv
  <2>2. StepsLeft = (M - 1) * C + WritesLeft + 2 /\ StepsLeft' = (M - 1) * C + 1
    BY <2>1 DEF StepsLeft
  <2>3. (M - 1) * C \in Nat
    BY <1>2, <2>1, Costs
  <2>. HIDE DEF M, C
  <2>. QED
    BY <1>1, <2>2, <2>3
<1>6. CASE LeaveSetBits
  <2>1. pc = "map" /\ pc' = "idle"
    BY <1>6 DEF LeaveSetBits, Return
  <2>2. StepsLeft' = 0
    BY <2>1 DEF StepsLeft
  <2>. QED
    BY <2>1, <2>2, StepsLeftType
<1>. QED
  BY <1>3, <1>4, <1>5, <1>6 DEF SetBitsStep

LEMMA ScanStepsDown ==
    ASSUME IInv, ByteInv, AllocateStep \/ PinRefused PROVE StepsLeft' < StepsLeft
<1>. DEFINE B == NumPages * PageCost
            C == BitCost
            N == NumMapPages
<1>1. i \in Nat /\ left \in Nat /\ N \in Nat /\ B \in Nat /\ BitsPerPage \in Nat
  BY MapCovers, Costs DEF IInv, TypeOK
<1>2. C = BitsPerPage + 2 /\ C \in Nat
  BY MapCovers DEF BitCost
<1>3. CASE PinScannedPage
  <2>1. pc = "scan" /\ pc' = "bits" /\ i < N /\ i' = i /\ left' = BitsOn(i)
    BY <1>3 DEF PinScannedPage
  <2>2. left' \in Nat /\ left' <= BitsPerPage
    BY <1>1, <2>1, BitsOnType, SpaceMapAssumption DEF BitsOn, Least
  <2>3. StepsLeft = (N - i) * C + B + 2 /\ StepsLeft' = (N - (i + 1)) * C + left' + 1 + B + 2
    BY <2>1 DEF StepsLeft
  <2>4. (N - i) * C = (N - (i + 1)) * C + C /\ (N - (i + 1)) * C \in Nat
    <3>1. N - i \in Nat /\ N - i > 0 /\ (N - i) - 1 = N - (i + 1) /\ N - (i + 1) \in Nat
      BY <1>1, <2>1
    <3>. HIDE DEF N, C
    <3>2. (N - i) * C = ((N - i) - 1) * C + C
      BY <1>2, <3>1, Costs
    <3>. QED
      BY <1>2, <3>1, <3>2, Costs
  <2>. DEFINE P == (N - i) * C
              Q == (N - (i + 1)) * C
  <2>5. /\ StepsLeft = P + B + 2 /\ StepsLeft' = Q + left' + 1 + B + 2
        /\ P = Q + C /\ Q \in Nat
    BY <2>3, <2>4
  <2>6. \A q, c, w, b, n \in Nat : c = n + 2 /\ w <= n =>
                                     q + w + 1 + b + 2 < (q + c) + b + 2
    OBVIOUS
  <2>. HIDE DEF N, C, B, P, Q
  <2>7. Q + left' + 1 + B + 2 < (Q + C) + B + 2
    BY <1>1, <1>2, <2>2, <2>5, <2>6
  <2>. QED
    BY <2>5, <2>7
<1>4. CASE ExamineBit
  <2>1. pc = "bits" /\ pc' = "bits" /\ i' = i /\ left > 0 /\ left' = left - 1
    BY <1>4 DEF ExamineBit
  <2>2. N - (i + 1) \in Nat
    BY <1>1, <2>1 DEF IInv, ScanInv, InScan
  <2>3. /\ StepsLeft = (N - (i + 1)) * C + left + 1 + B + 2
        /\ StepsLeft' = (N - (i + 1)) * C + left' + 1 + B + 2
    BY <2>1 DEF StepsLeft
  <2>4. (N - (i + 1)) * C \in Nat
    BY <1>2, <2>2, Costs
  <2>. HIDE DEF N, C, B
  <2>. QED
    BY <1>1, <2>1, <2>3, <2>4
<1>5. CASE UnpinScannedPage
  <2>1. pc = "bits" /\ pc' = "scan" /\ i' = i + 1
    BY <1>5 DEF UnpinScannedPage
  <2>2. N - (i + 1) \in Nat
    BY <1>1, <2>1 DEF IInv, ScanInv, InScan
  <2>3. StepsLeft = (N - (i + 1)) * C + left + 1 + B + 2 /\ StepsLeft' = (N - (i + 1)) * C + B + 2
    BY <2>1 DEF StepsLeft
  <2>4. (N - (i + 1)) * C \in Nat
    BY <1>2, <2>2, Costs
  <2>. HIDE DEF N, C, B
  <2>. QED
    BY <1>1, <2>3, <2>4
<1>6. CASE EndScan
  <2>1. pc = "scan" /\ i = N
    BY <1>6 DEF EndScan
  <2>2. StepsLeft = B + 2
    <3>1. (N - i) * C = 0
      BY <1>1, <1>2, <2>1
    <3>2. StepsLeft = (N - i) * C + B + 2
      BY <2>1 DEF StepsLeft
    <3>. HIDE DEF N, C, B
    <3>. QED
      BY <1>1, <3>1, <3>2
  <2>3. pc' = "idle" \/ (pc' = "map" /\ mapPage' \in Nat /\ mapPage' >= 1)
    BY <1>6, TypeStep, SetBitsInvStep
    DEF EndScan, EnterSetBits, Return, Next, Step, AllocateStep, SetBitsInv, InSetBits, TypeOK
  <2>4. CASE pc' = "idle"
    <3>1. StepsLeft' = 0
      BY <2>4 DEF StepsLeft
    <3>. HIDE DEF N, C, B
    <3>. QED
      BY <1>1, <2>2, <3>1
  <2>5. CASE pc' = "map" /\ mapPage' \in Nat /\ mapPage' >= 1
    <3>1. MapPagesLeft' \in Nat /\ MapPagesLeft' <= NumPages
      <4>1. MapPagesLeft' = IF mapPage' < NumPages THEN NumPages - mapPage' ELSE 0
        BY DEF MapPagesLeft
      <4>2. NumPages \in Nat
        BY SpaceMapAssumption
      <4>3. \A m, n \in Nat : m >= 1 => /\ (IF m < n THEN n - m ELSE 0) \in Nat
                                        /\ (IF m < n THEN n - m ELSE 0) <= n
        OBVIOUS
      <4>. QED
        BY <2>5, <4>1, <4>2, <4>3
    <3>2. MapPagesLeft' * PageCost <= B /\ MapPagesLeft' * PageCost \in Nat
      BY <3>1, Costs
    <3>3. StepsLeft' = MapPagesLeft' * PageCost + 1
      BY <2>5 DEF StepsLeft, PageCost
    <3>. HIDE DEF N, C, B
    <3>. QED
      BY <1>1, <2>2, <3>2, <3>3
  <2>. QED
    BY <2>3, <2>4, <2>5
<1>7. CASE PinRefused
  <2>1. pc # "idle" /\ pc' = "idle"
    BY <1>7 DEF PinRefused, Return
  <2>2. StepsLeft' = 0
    BY <2>1 DEF StepsLeft
  <2>. QED
    BY <2>1, <2>2, StepsLeftType
<1>. QED
  BY <1>3, <1>4, <1>5, <1>6, <1>7 DEF AllocateStep

\* A call makes finitely many steps, whatever run it is asked for, an empty one
\* and one that wraps around included: each step lowers StepsLeft, a number
\* that is 0 between calls only (db.cpp:218, 583).
StepsCounted == StepsLeft \in Nat /\ (StepsLeft = 0 <=> pc = "idle")
StepsGoDown  == [][pc # "idle" => StepsLeft' < StepsLeft]_vars
THEOREM CallsAreFinite == Spec => []StepsCounted /\ StepsGoDown
<1>1. Init => ByteInv
  BY DEF Init, ByteInv
<1>2. IInv /\ ByteInv => StepsCounted
  BY StepsLeftType DEF StepsCounted
<1>3. IInv /\ ByteInv /\ Next => (pc # "idle" => StepsLeft' < StepsLeft)
  BY MapStepsDown, ScanStepsDown DEF Next, Step, Call, AllocatePage, DeallocatePage
<1>. QED
  BY <1>1, <1>2, <1>3, ByteStep, Invariance, PTL DEF Spec, StepsGoDown
==============================================================================
