------------------------------ MODULE SpaceMap ------------------------------
(***************************************************************************)
(* The space map of a Minibase database (DB in spacemgr/db.cpp): a bitmap, *)
(* kept in the pages after the header page, of the pages that are          *)
(* allocated.  AllocatePage scans it bit by bit for a run of free pages    *)
(* and marks the run; DeallocatePage clears a run; the constructor marks   *)
(* the pages the database keeps for itself.  All three write through       *)
(* set_bits, one byte at a time.                                           *)
(*                                                                         *)
(* Every map page is pinned through the buffer manager, and a pin can be   *)
(* refused (every frame is in use, or the page number is out of range), so *)
(* each pin is a step that may fail and end the call.                      *)
(***************************************************************************)
EXTENDS Integers, FiniteSets

CONSTANTS NumPages,       \* num_pages
          BitsPerByte,    \* 8 in the code
          BytesPerPage,   \* MAX_SPACE
          WordMax,        \* the largest unsigned: 2^32 - 1 in the code
          MaxRun,         \* bound: the longest run a caller asks for
          OldMaps         \* what the file may hold before the database is
                          \* created in it, as sets of marked bits

BitsPerPage == BitsPerByte * BytesPerPage
NumMapPages == (NumPages + BitsPerPage - 1) \div BitsPerPage
Pages       == 0 .. NumPages - 1
Reserved    == 0 .. NumMapPages
MapBits     == 0 .. NumMapPages * BitsPerPage - 1

ASSUME SpaceMapAssumption ==
    /\ NumPages \in Nat /\ NumPages >= 2
    /\ BitsPerByte \in Nat /\ BitsPerByte >= 1
    /\ BytesPerPage \in Nat /\ BytesPerPage >= 1
    /\ WordMax \in Nat /\ WordMax >= 2 * NumPages
    /\ MaxRun \in Nat /\ MaxRun <= WordMax - NumPages
    /\ 1 + NumMapPages <= NumPages     \* so it is with 8 * MAX_SPACE bits
    /\ OldMaps \subseteq SUBSET MapBits

VARIABLES
    marked,     \* the set of bits of the map that are 1
    held,       \* the pages the callers own
    pc,         \* where the current call is; "idle" between calls
    op,         \* the current or last call
    start, run, \* the run of pages the call is about
    status,     \* how the last call ended
    pinned,     \* the pages the call has pinned
    before,     \* marked, when the call was made
    i, left, curStart, curLen,                  \* the scan of AllocatePage
    mapPage, firstBit, byte, lastByte, offset, size \* the loops of set_bits

callVars == <<op, run, held>>
scanVars == <<i, left, curStart, curLen>>
byteVars == <<byte, lastByte, offset>>
bitsVars == <<mapPage, firstBit, size, byteVars>>
vars     == <<marked, held, pc, op, start, run, status, pinned, before,
              scanVars, bitsVars>>

Least(a, b) == IF a < b THEN a ELSE b
Unsigned(x) == IF x < 0 THEN x + WordMax + 1 ELSE x
Run(s, n)   == s .. s + n - 1
BitAt(p, b) == (p - 1) * BitsPerPage + b    \* bit b of map page p
Usable      == ~(op = "DB" /\ status # "OK")

\* The definitions named Slip... are wrong versions of the definition that
\* follows them; each shows that some property notices the mistake.

\* The bits that the scan examines on the map page of index p.
SlipIndexFromOne(p) == Least(NumPages - (p + 1) * BitsPerPage, BitsPerPage)
SlipLastBitMissed(p) == Least(NumPages - p * BitsPerPage, BitsPerPage - 1)
BitsOn(p) == Least(NumPages - p * BitsPerPage, BitsPerPage)

\* Where the next run can start when a marked bit ends the current one.
SlipMarkedBitKept == curStart + curLen
AfterMarkedBit == curStart + curLen + 1

\* set_bits: the last map page of the run, the last bit of the run in the
\* map page, and the bits of the run in the byte.
LastMapPage == Unsigned(start + run - 1) \div BitsPerPage + 1

SlipUnclipped == Unsigned(firstBit + size - 1)
LastBit == Least(Unsigned(firstBit + size - 1), BitsPerPage - 1)

SlipWholeByte == BitsPerByte - offset
SlipOffsetForgotten == Least(size, BitsPerByte)
BitsInByte == Least(size, BitsPerByte - offset)

SlipNoUnpin == UNCHANGED pinned
Unpin == pinned' = {}

\* A call returns: its locals are gone.
NoScanVars == i' = 0 /\ left' = 0 /\ curStart' = 0 /\ curLen' = 0
NoBitsVars == /\ mapPage' = 1 /\ firstBit' = 0 /\ size' = 0
              /\ byte' = 0 /\ lastByte' = 0 /\ offset' = 0
Return(s)  == pc' = "idle" /\ status' = s /\ NoScanVars /\ NoBitsVars

-----------------------------------------------------------------------------
(* set_bits *)

\* The bounds check, and the place of the run in the map.
EnterSetBits(s, n) ==
    /\ start' = s
    /\ \/ /\ s < 0 \/ s + n > NumPages
          /\ Return("BAD_PAGE_NO")
       \/ /\ s >= 0 /\ s + n <= NumPages
          /\ pc' = "map"
          /\ mapPage' = s \div BitsPerPage + 1
          /\ firstBit' = s % BitsPerPage
          /\ size' = n
          /\ NoScanVars
          /\ UNCHANGED <<status, byteVars>>

\* The next map page of the run is pinned, and its first and last byte found.
PinMapPage ==
    /\ pc = "map" /\ mapPage <= LastMapPage /\ mapPage < NumPages
    /\ byte' = firstBit \div BitsPerByte
    /\ offset' = firstBit % BitsPerByte
    /\ lastByte' = LastBit \div BitsPerByte
    /\ pinned' = {mapPage}
    /\ pc' = "byte"
    /\ UNCHANGED <<marked, callVars, start, status, before, scanVars,
                   mapPage, firstBit, size>>

\* The bits of the run in one byte are set or cleared under a mask.
WriteByte ==
    /\ pc = "byte" /\ byte <= lastByte
    /\ LET mask == Run(BitAt(mapPage, byte * BitsPerByte + offset), BitsInByte)
       IN  marked' = IF op = "DeallocatePage" THEN marked \ mask
                                              ELSE marked \cup mask
    /\ size' = size - BitsInByte
    /\ byte' = byte + 1
    /\ offset' = 0
    /\ UNCHANGED <<callVars, pc, start, status, pinned, before, scanVars,
                   mapPage, firstBit, lastByte>>

UnpinMapPage ==
    /\ pc = "byte" /\ byte > lastByte
    /\ Unpin
    /\ pc' = "map"
    /\ mapPage' = mapPage + 1
    /\ firstBit' = 0 /\ byte' = 0 /\ lastByte' = 0 /\ offset' = 0
    /\ UNCHANGED <<marked, callVars, start, status, before, scanVars, size>>

\* set_bits returns OK, and with it the call: a run that was allocated now
\* belongs to the caller.
LeaveSetBits ==
    /\ pc = "map" /\ mapPage > LastMapPage
    /\ Return("OK")
    /\ held' = IF op = "AllocatePage" THEN held \cup Run(start, run) ELSE held
    /\ UNCHANGED <<marked, op, run, start, pinned, before>>

-----------------------------------------------------------------------------
(* AllocatePage *)

AllocatePage(n) ==
    /\ pc = "idle" /\ Usable
    /\ op' = "AllocatePage" /\ run' = n /\ before' = marked
    /\ \/ n < 0 /\ Return("NEG_RUN_SIZE")
       \/ n >= 0 /\ pc' = "scan" /\ NoScanVars /\ UNCHANGED <<status, bitsVars>>
    /\ UNCHANGED <<marked, held, start, pinned>>

PinScannedPage ==
    /\ pc = "scan" /\ i < NumMapPages
    /\ pinned' = {1 + i}
    /\ left' = BitsOn(i)
    /\ pc' = "bits"
    /\ UNCHANGED <<marked, callVars, start, status, before, i, curStart,
                   curLen, bitsVars>>

\* One bit of the page is examined: a marked bit starts the run anew after it.
ExamineBit ==
    /\ pc = "bits" /\ left > 0 /\ curLen < run
    /\ LET bit == BitAt(1 + i, BitsOn(i) - left)
       IN  \/ /\ bit \in marked
              /\ curStart' = AfterMarkedBit
              /\ curLen' = 0
           \/ /\ bit \notin marked
              /\ curLen' = curLen + 1
              /\ UNCHANGED curStart
    /\ left' = left - 1
    /\ UNCHANGED <<marked, callVars, pc, start, status, pinned, before, i,
                   bitsVars>>

SlipSamePageAgain ==
    /\ pc = "bits" /\ (left = 0 \/ curLen >= run)
    /\ Unpin
    /\ left' = 0
    /\ pc' = "scan"
    /\ UNCHANGED <<marked, callVars, start, status, before, i, curStart,
                   curLen, bitsVars>>
UnpinScannedPage ==
    /\ pc = "bits" /\ (left = 0 \/ curLen >= run)
    /\ Unpin
    /\ i' = i + 1 /\ left' = 0
    /\ pc' = "scan"
    /\ UNCHANGED <<marked, callVars, start, status, before, curStart, curLen,
                   bitsVars>>

EndScan ==
    /\ pc = "scan" /\ i = NumMapPages
    /\ \/ curLen >= run /\ EnterSetBits(curStart, run)
       \/ curLen < run /\ Return("DB_FULL") /\ UNCHANGED start
    /\ UNCHANGED <<marked, callVars, pinned, before>>

-----------------------------------------------------------------------------
(* DeallocatePage.  It does not look whether the pages are allocated: the   *)
(* caller names pages it owns, and gives them up by making the call.       *)

DeallocatePage(s, n) ==
    /\ pc = "idle" /\ Usable
    /\ Run(s, n) \subseteq held
    /\ op' = "DeallocatePage" /\ run' = n /\ before' = marked
    /\ held' = held \ Run(s, n)
    /\ \/ n < 0 /\ Return("NEG_RUN_SIZE") /\ UNCHANGED start
       \/ n >= 0 /\ EnterSetBits(s, n)
    /\ UNCHANGED <<marked, pinned>>

-----------------------------------------------------------------------------
(* The buffer manager refuses a pin: the call ends with its error.  It must *)
(* refuse a page that is not in the database (DB::ReadPage).               *)

PinRefused ==
    /\ \/ pc = "map" /\ mapPage <= LastMapPage
       \/ pc = "scan" /\ i < NumMapPages
    /\ Return("PIN_REFUSED")
    /\ UNCHANGED <<marked, callVars, start, pinned, before>>

-----------------------------------------------------------------------------
\* The constructor that creates a database.  The file is opened without
\* O_TRUNC: whatever it held stays in the map.  It then marks the header
\* page and the map pages.
Init ==
    /\ marked \in OldMaps /\ before = marked
    /\ held = {}
    /\ pc = "map" /\ op = "DB" /\ status = "OK" /\ pinned = {}
    /\ start = 0 /\ run = 1 + NumMapPages
    /\ mapPage = 1 /\ firstBit = 0 /\ size = run
    /\ byte = 0 /\ lastByte = 0 /\ offset = 0
    /\ i = 0 /\ left = 0 /\ curStart = 0 /\ curLen = 0

SetBitsStep  == PinMapPage \/ WriteByte \/ UnpinMapPage \/ LeaveSetBits
AllocateStep == PinScannedPage \/ ExamineBit \/ UnpinScannedPage \/ EndScan
Step         == SetBitsStep \/ AllocateStep \/ PinRefused

Call == \/ \E n \in -1 .. MaxRun : AllocatePage(n)
        \/ \E s \in -1 .. NumPages, n \in -1 .. MaxRun : DeallocatePage(s, n)

Next == Step \/ Call

Spec == Init /\ [][Next]_vars

\* The code runs a call to its end: nothing waits inside it.
FairSpec == Spec /\ WF_vars(Step)

-----------------------------------------------------------------------------
(* Properties *)

Statuses == {"OK", "BAD_PAGE_NO", "NEG_RUN_SIZE", "DB_FULL", "PIN_REFUSED"}

\* Every variable has its type (the locals of AllocatePage and set_bits).
TypeOK ==
    /\ marked \subseteq MapBits /\ before \subseteq MapBits
    /\ held \subseteq Pages
    /\ pc \in {"idle", "scan", "bits", "map", "byte"}
    /\ op \in {"DB", "AllocatePage", "DeallocatePage"}
    /\ start \in Int /\ run \in Int
    /\ status \in Statuses
    /\ pinned \subseteq Nat
    /\ i \in Nat /\ left \in Nat /\ curStart \in Nat /\ curLen \in Nat
    /\ mapPage \in Nat /\ firstBit \in Nat /\ size \in Nat
    /\ byte \in Nat /\ lastByte \in Nat /\ offset \in Nat

\* The pages of the run that AllocatePage is marking, or has just marked,
\* belonged to nobody: scan and set_bits agree on what page a bit stands
\* for, across bytes and map pages.
GrantIsFresh ==
    op = "AllocatePage" /\ pc \in {"map", "byte"} =>
        /\ Run(start, run) \subseteq Pages \ Reserved
        /\ Run(start, run) \cap (held \cup before) = {}

\* A page in a caller's hands stays marked whatever calls come between, also
\* when a call is cut short by a refused pin: no later scan can find it free.
HeldStaysMarked ==
    /\ held \subseteq marked
    /\ pc \in {"idle", "scan", "bits"} /\ Usable => Reserved \subseteq marked

\* AllocatePage reports a full database only when the map has no run of the
\* length asked for.
FullIsHonest ==
    pc = "idle" /\ status = "DB_FULL" =>
        ~\E s \in Pages : Run(s, run) \subseteq Pages \ marked

\* The run AllocatePage chooses is the first one in the map that is long
\* enough.
FirstFit ==
    op = "AllocatePage" /\ pc \in {"map", "byte"} =>
        \A s \in 0 .. start - 1 : Run(s, run) \cap before # {}

\* set_bits changes the bits of its run and no others; when it reports OK
\* all of them have the new value.
WritesExactlyTheRun ==
    /\ marked \ before \subseteq Run(start, run)
    /\ before \ marked \subseteq Run(start, run)
    /\ pc = "idle" /\ status = "OK" =>
           IF op = "DeallocatePage" THEN Run(start, run) \cap marked = {}
                                    ELSE Run(start, run) \subseteq marked

\* set_bits stays inside the page it has pinned and inside the byte it is at,
\* and it changes bits of map pages only.  An empty run at page 0, whose last
\* map page wraps around, has it go on through the pages after the map: there
\* every mask is empty, and the bytes are written back as they were.
WritesInsideTheMap ==
    pc = "byte" /\ byte <= lastByte =>
        /\ mapPage \in Pages \ {0} /\ byte < BytesPerPage
        /\ offset + BitsInByte <= BitsPerByte
        /\ BitsInByte > 0 => mapPage <= NumMapPages

\* A new database has no page marked but the header page and the map pages.
\* ("Make the file num_pages pages long, filled with zeroes", says the
\* constructor; but it opens an existing file without truncating it.)
NewDatabaseIsEmpty ==
    op = "DB" /\ pc = "idle" /\ status = "OK" => marked = Reserved

\* A call that returns, on any path, leaves no page pinned.
NothingLeftPinned == pc \in {"idle", "scan", "map"} => pinned = {}

\* Callers see a PageAllocator.
Allocator == INSTANCE PageAllocator
AllocatorSpec == Allocator!Spec

\* Every call returns, also one for an empty run, whose last map page wraps
\* around to the largest there is.
EveryCallReturns == []<>(pc = "idle")
=============================================================================
