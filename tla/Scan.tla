-------------------------------- MODULE Scan --------------------------------
(***************************************************************************)
(* A scan of a heap file (class Scan, spacemgr/scan.cpp) while the file is *)
(* used by others: between two calls of the scan any call of HeapFile may  *)
(* be made, as heaptest.cpp does when it deletes the records it reads.     *)
(*                                                                         *)
(* The scan keeps two pages pinned between calls, a directory page and a   *)
(* data page, and a position: `entry', the number of the directory entry   *)
(* it will open next, and `slot', the record it will give next.  It never  *)
(* learns that an entry has moved.                                         *)
(***************************************************************************)
EXTENDS HeapFile

VARIABLES scan,     \* the scan: its fields, as in the code
          atOpen,   \* the records the file had when the scan was opened
          seen,     \* the records GetNext has given since
          past      \* the worst that has happened since: nothing ("steady"),
                    \* MoveTo, a data page "freed", DeleteFile ("deleted")

scanVars == <<scan, atOpen, seen, past>>
allVars  == <<vars, scanVars>>

\* dirPage and page: what the pointers hold; "wild" is a pointer never set.
NoScan == [open |-> FALSE, dirPid |-> INVALID_PAGE, dirPage |-> "null", entry |-> 0,
           pid |-> INVALID_PAGE, page |-> "null", slot |-> 0, noMore |-> FALSE]

ScanInit == Init /\ scan = NoScan /\ atOpen = {} /\ seen = {} /\ past = "steady"

InFrames(ps)      == {p \in Pages : ps[p] > 0}
HasFrame(ps, p)   == p \in InFrames(ps) \/ Cardinality(InFrames(ps)) < NumFrames
With(ps, p)       == [ps EXCEPT ![p] = @ + 1]
SlipKept(ps, p)   == ps
Without(ps, p)    == [ps EXCEPT ![p] = @ - 1]

NextOf(d) == LET k == SelectInSeq(chain, LAMBDA c : c = d)
             IN  IF k < Len(chain) THEN chain[k + 1] ELSE INVALID_PAGE

\* GetPageInfo(i) of directory page d, entries counted from 0.
SlipOneLess(d, i) == i + 1 < Len(entries[d])
HasInfo(d, i)   == i < Len(entries[d])
InfoPid(d, i)   == entries[d][i + 1].pid

\* NextRecord on the page: the slots behind a slot that are not empty.
Behind(p, s)   == {t \in heap[p].slots : t > s}

\* The records of the file, along the chain, the entries and the slots; an entry
\* whose page was freed (see EntriesNameDataPages) stands for none.
PageRecords(p)  == {<<p, s>> : s \in {t \in heap[p].slots : owner[p] = "data"}}
RecordsOf(d, n) == UNION {PageRecords(entries[d][i].pid) : i \in 1 .. n}
Records == UNION {RecordsOf(d, Len(entries[d])) : d \in ToSet(chain)}

\* A call of the scan, between two calls of the file.
ScanReady == pc = "idle" /\ ~undefined /\ chain # << >>
             /\ UNCHANGED <<file, call, freed, balance, calls, others>>
Result(c, status, s, ps) ==
    Answer(c, status, "OK") /\ scan' = s /\ pins' = ps /\ UNCHANGED undefined
Wild == undefined' = TRUE /\ UNCHANGED <<ret, pins, scan, seen>>

\* The pages under the pointers are still there: DeleteFile frees a page that
\* is pinned once.
Sound == /\ scan.dirPage = "held" => pins[scan.dirPid] > 0 /\ owner[scan.dirPid] = "dir"
         /\ scan.page = "held" => pins[scan.pid] > 0 /\ owner[scan.pid] = "data"

\* The pins once `page' and `dirPage' have been given up.
Released ==
    LET ps == IF scan.page = "held" THEN Without(pins, scan.pid) ELSE pins
    IN  IF scan.dirPage = "held" THEN Without(ps, scan.dirPid) ELSE ps

-----------------------------------------------------------------------------
\* HeapFile::OpenScan with the constructor, whose pins go unchecked.  A scan
\* that finds no first record is deleted again, with its pins.
OpenScan ==
    /\ ScanReady /\ ~scan.open
    /\ atOpen' = Records /\ seen' = {} /\ past' = "steady"
    /\ LET d  == chain[1]
           p  == InfoPid(d, 0)
           ps == With(pins, d)
           s  == [NoScan EXCEPT !.open = TRUE, !.dirPid = d, !.dirPage = "held",
                                !.entry = 1]
           dirThere == HasFrame(pins, d) /\ owner[d] = "dir"
           there    == dirThere /\ HasInfo(d, 0) /\ HasFrame(ps, p) /\ owner[p] = "data"
       IN  \/ /\ ~dirThere \/ (HasInfo(d, 0) /\ ~there)
              /\ undefined' = TRUE /\ UNCHANGED <<ret, pins, scan>>
           \/ /\ dirThere /\ ~HasInfo(d, 0)
              /\ Result("OpenScan", "OK", [s EXCEPT !.page = "wild", !.noMore = TRUE], ps)
           \/ /\ there /\ heap[p].slots = {}
              /\ Result("OpenScan", "DONE", NoScan, pins)
           \/ /\ there /\ heap[p].slots # {}
              /\ Result("OpenScan", "OK", [s EXCEPT !.pid = p, !.page = "held",
                                             !.slot = Min(heap[p].slots)], With(ps, p))

\* The destructor; a page that was never set is unpinned, too.
CloseScan ==
    /\ ScanReady /\ scan.open
    /\ atOpen' = {} /\ seen' = {} /\ past' = "steady"
    /\ \/ Sound /\ scan' = NoScan /\ pins' = Released /\ UNCHANGED <<ret, undefined>>
       \/ /\ ~Sound \/ scan.page = "wild"
          /\ undefined' = TRUE /\ UNCHANGED <<ret, pins, scan>>

-----------------------------------------------------------------------------
(* GetNext gives the record it stands on and then moves to the next one.  A  *)
(* record that was copied is not `given' if the move then fails.             *)

Given   == seen' = seen \cup {<<scan.pid, scan.slot>>}
Fail(s, ps) == Result("GetNext", "FAIL", s, ps) /\ UNCHANGED seen

SlipStay(s)  == s.entry
EntryPast(s) == s.entry + 1

\* The page of entry s.entry - 1, with the directory page in place.
EnterPage(s, ps) ==
    LET p == InfoPid(s.dirPid, s.entry - 1)
    IN  \/ ~HasFrame(ps, p) /\ Fail([s EXCEPT !.pid = p], ps)
        \/ HasFrame(ps, p) /\ owner[p] # "data" /\ Wild
        \/ /\ HasFrame(ps, p) /\ owner[p] = "data" /\ heap[p].slots = {}
           /\ Fail([s EXCEPT !.pid = p, !.page = "held"], With(ps, p))
        \/ /\ HasFrame(ps, p) /\ owner[p] = "data" /\ heap[p].slots # {}
           /\ Result("GetNext", "OK", [s EXCEPT !.pid = p, !.page = "held",
                              !.slot = Min(heap[p].slots)], With(ps, p))
           /\ Given

\* The directory page has no entry left: the next one, with its first entry.
EnterDirPage(s, ps) ==
    LET n == NextOf(scan.dirPid)
    IN  \/ /\ n = INVALID_PAGE /\ Given
           /\ Result("GetNext", "OK", [s EXCEPT !.noMore = TRUE], ps)
        \/ n # INVALID_PAGE /\ ~HasFrame(ps, n) /\ Fail(s, ps)
        \/ /\ n # INVALID_PAGE /\ HasFrame(ps, n)
           /\ owner[n] # "dir" \/ ~HasInfo(n, 0)
           /\ Wild
        \/ /\ n # INVALID_PAGE /\ HasFrame(ps, n) /\ owner[n] = "dir" /\ HasInfo(n, 0)
           /\ EnterPage([s EXCEPT !.dirPid = n, !.dirPage = "held", !.entry = 1],
                        With(ps, n))

LeavePage ==
    LET s  == [scan EXCEPT !.page = "null", !.entry = EntryPast(scan)]
        ps == Without(pins, scan.pid)
    IN  IF HasInfo(scan.dirPid, scan.entry)
        THEN EnterPage(s, ps)
        ELSE EnterDirPage([s EXCEPT !.dirPage = "null"], Without(ps, scan.dirPid))

GetNext ==
    /\ ScanReady /\ scan.open /\ UNCHANGED <<atOpen, past>>
    /\ \/ scan.noMore /\ Result("GetNext", "DONE", scan, pins) /\ UNCHANGED seen
       \/ ~scan.noMore /\ (scan.page # "held" \/ ~Sound) /\ Wild
       \/ /\ ~scan.noMore /\ scan.page = "held" /\ Sound
          /\ \/ scan.slot \notin heap[scan.pid].slots /\ Fail(scan, pins)
             \/ /\ scan.slot \in heap[scan.pid].slots
                /\ LET more == Behind(scan.pid, scan.slot)
                   IN  \/ more = {} /\ LeavePage
                       \/ /\ more # {} /\ Given
                          /\ Result("GetNext", "OK", [scan EXCEPT !.slot = Min(more)], pins)

-----------------------------------------------------------------------------
(* MoveTo *)

\* currEntry once the walk has found the entry of p.
SlipZeroBased(d, p) == EntryOf(d, p) - 1
FoundAt(d, p)       == EntryOf(d, p)

\* The walk of the directory for page p, with pins ps: the iterator pins each
\* page unchecked before MoveTo does.
Found(p, s, ps) ==
    LET k == DirOf(p)
        d == chain[k]
        q == With(ps, d)
        r == [s EXCEPT !.pid = p, !.page = "null"]
    IN  \/ /\ \E i \in 1 .. (IF k = 0 THEN Len(chain) ELSE k) :
                 ~HasFrame(ps, chain[i]) \/ owner[chain[i]] # "dir"
           /\ undefined' = TRUE /\ UNCHANGED <<ret, pins, scan>>
        \/ /\ \A i \in 1 .. (IF k = 0 THEN Len(chain) ELSE k) :
                 HasFrame(ps, chain[i]) /\ owner[chain[i]] = "dir"
           /\ \/ /\ k = 0
                 /\ Result("MoveTo", "FAIL",
                           [r EXCEPT !.dirPid = INVALID_PAGE, !.dirPage = "null",
                                     !.entry = Len(entries[Last(chain)])], ps)
              \/ /\ k # 0 /\ ~HasFrame(q, p)
                 /\ Result("MoveTo", "FAIL",
                           [r EXCEPT !.dirPid = d, !.dirPage = "held",
                                     !.entry = FoundAt(d, p)], q)
              \/ /\ k # 0 /\ HasFrame(q, p)
                 /\ Result("MoveTo", "OK",
                           [r EXCEPT !.dirPid = d, !.dirPage = "held", !.page = "held",
                                     !.entry = FoundAt(d, p), !.noMore = FALSE],
                           With(q, p))

MoveTo(p, slot) ==
    /\ ScanReady /\ scan.open
    /\ atOpen' = {} /\ seen' = {}
    /\ past' = IF past = "steady" THEN "moved" ELSE past
    /\ LET s == [scan EXCEPT !.slot = slot]
       IN  \/ /\ scan.pid = p /\ ~scan.noMore
              /\ Result("MoveTo", "OK", s, pins)
           \/ /\ scan.pid # p \/ scan.noMore
              /\ Sound /\ Found(p, s, Released)
           \/ /\ scan.page = "wild"     \* the unpin of a page never set fails
              /\ Result("MoveTo", "FAIL", s, pins)
           \/ /\ scan.pid # p \/ scan.noMore
              /\ ~Sound \/ scan.page = "wild"
              /\ undefined' = TRUE /\ UNCHANGED <<ret, pins, scan>>

-----------------------------------------------------------------------------
\* A step of the file.
FreesData == \E p \in Pages : owner[p] = "data" /\ owner'[p] # "data"
HeapStep ==
    /\ Next /\ UNCHANGED <<scan, atOpen, seen>>
    /\ past' = IF ~scan.open \/ past = "deleted" THEN past
               ELSE IF pc = "delete" THEN "deleted"
               ELSE IF FreesData THEN "freed" ELSE past

ScanNext == \/ HeapStep \/ OpenScan \/ GetNext \/ CloseScan
            \/ \E p \in Pages, s \in 0 .. 2 : MoveTo(p, s)

ScanSpec == ScanInit /\ [][ScanNext]_allVars

-----------------------------------------------------------------------------
(* Properties *)

Held == (IF scan.dirPage = "held" THEN {scan.dirPid} ELSE {})
        \cup (IF scan.page = "held" THEN {scan.pid} ELSE {})

\* heaptest.cpp:160: a scan that has finished has unpinned its pages.  As long
\* as no call has failed, what is pinned between calls are the two pages of
\* the scan, each once; it has none left when it is through a file that had a
\* record.
PinsAreTheScans ==
    pc = "idle" /\ ~undefined /\ ~ret.failed /\ past # "deleted" =>
        /\ pins = [p \in Pages |-> IF p \in Held THEN 1 ELSE 0]
        /\ scan.noMore /\ scan.page # "wild" => Held = {}

\* As long as no page of the file is freed under the scan, the entry before its next
\* one is the entry of the page it has pinned, whatever is inserted or deleted.
CursorAgrees ==
    pc = "idle" /\ ~undefined /\ past \in {"steady", "moved"} /\ scan.page = "held" =>
        /\ scan.dirPage = "held" /\ Contains(chain, scan.dirPid)
        /\ scan.entry \in 1 .. Len(entries[scan.dirPid])
        /\ entries[scan.dirPid][scan.entry].pid = scan.pid

\* The records that lie before the scan's position.
Passed ==
    LET k == SelectInSeq(chain, LAMBDA d : d = scan.dirPid)
    IN  IF scan.noMore THEN Records
        ELSE (UNION {RecordsOf(chain[i], Len(entries[chain[i]])) : i \in 1 .. k - 1})
             \cup RecordsOf(scan.dirPid, scan.entry - 1)
             \cup {<<scan.pid, s>> : s \in {t \in heap[scan.pid].slots : t < scan.slot}}

\* Insertions and deletions between the calls make a scan skip nothing that
\* was there when it was opened and still is, unless a data page was freed; a
\* GetNext that fails loses the record it has copied, and no other.
NothingSkipped ==
    LET lost == (Passed \cap atOpen) \ seen
    IN  scan.open /\ past = "steady" /\ ~undefined /\ (scan.page = "held" \/ scan.noMore)
          => Cardinality(lost) <= 1 /\ (~ret.failed => lost = {})

\* Nor does GetNext give a record a second time.
NoRecordTwice ==
    [][ret'.call = "GetNext" /\ ret'.status = "OK" /\ scan' # scan /\ scan'.open
         /\ past = "steady" /\ ~freed
         => <<scan.pid, scan.slot>> \notin seen]_allVars

(* What the comments say, and the scan does not do *)

\* scan.cpp:71: "DONE if no more records".  When the scan reaches its end,
\* every record that was there at its start and still is has been given.
EndMeansAllGiven ==
    [][~scan.noMore /\ scan'.noMore /\ scan.open => Records \cap atOpen \subseteq seen']_allVars

\* scan.cpp:140: "update currRid to the rid you input, and move to that record.
\* You can call GetNext to get that record."
MovedMeansThere ==
    ret.call = "MoveTo" /\ ret.status = "OK" => scan.page = "held"
=============================================================================
