------------------------------ MODULE HeapFile ------------------------------
(***************************************************************************)
(* A heap file (class HeapFile, spacemgr/heapfile.cpp) and its directory   *)
(* pages (class DirPage, spacemgr/dirpage.cpp), on the pages of a database *)
(* that someone else allocates from as well.                               *)
(*                                                                         *)
(* The directory is a chain of pages, each with up to DirSlots entries: a  *)
(* data page, its free space and its number of records.  Of a data page    *)
(* the module keeps what the file asks it: numOfSlots, freeSpace, and      *)
(* which of slots[0] and slots[1] are not empty (see HeapPage).            *)
(*                                                                         *)
(* InsertRecord runs in up to four steps (find a page, make a directory    *)
(* page, make a data page, insert), every other call in one.  A pin fails  *)
(* when all frames hold pinned pages, and a new page also when the         *)
(* database is full.  Where the code then goes on with a page it did not   *)
(* get, or writes a page that is not the file's, `undefined' becomes TRUE  *)
(* and the model stops there.                                              *)
(***************************************************************************)
EXTENDS Integers, FiniteSetsExt, SequencesExt

CONSTANTS Pages,        \* the pages AllocatePage can give, a set of integers
          NumFrames,    \* the frames of the buffer manager
          Handles,      \* the HeapFile objects that have the file open
          DataSize,     \* HEAPPAGE_DATA_SIZE
          MaxSpace,     \* MAX_SPACE
          DirSlots,     \* DIR_PAGE_SIZE / sizeof(PageInfo)
          Lengths,      \* the lengths callers pass
          StaleCounts,  \* what numOfSlots is on a page just initialised
          StaleSlots,   \* which of slots[0], slots[1] are not empty on it
          MaxCalls,     \* bound: how many calls change the file
          MaxOthers     \* bound: how many pages others allocate and free

SlotSize     == 4
INVALID_PAGE == -1

ASSUME HeapFileAssumption ==
    /\ Pages \subseteq Nat /\ NumFrames \in Nat /\ NumFrames >= 2
    /\ DataSize \in Nat /\ DataSize >= 2 * SlotSize
    /\ MaxSpace \in Nat /\ MaxSpace > DataSize
    /\ DirSlots \in Nat \ {0} /\ Lengths \subseteq Nat
    /\ StaleCounts \subseteq Int /\ StaleSlots \subseteq SUBSET {0, 1}

VARIABLES owner,        \* what each page is: "free", "dir", "data", "other"
          chain,        \* the directory pages, from dirPid along next
          entries,      \* the entries of the directory pages
          heap,         \* the data pages
          last,         \* lastDirPid of each HeapFile object
          pins,         \* the pin counts of the pages
          pc, who, len, dir, pid,    \* the InsertRecord that is running
          ret,          \* the last call, its status, the data page's own
                        \* status, and whether a call has failed so far
          undefined,
          freed,        \* a data page of the file has been freed
          balance,      \* insertions minus deletions that were carried out
          calls, others

file == <<owner, chain, entries, heap, last>>
call == <<pc, who, len, dir, pid>>
vars == <<file, pins, call, ret, undefined, freed, balance, calls, others>>

\* The definitions named Slip... are wrong versions of the definition that
\* follows them; each shows that some property notices the mistake.

Pinned         == {p \in Pages : pins[p] > 0}
CanPin(p)      == p \in Pinned \/ Cardinality(Pinned) < NumFrames
FreePages      == {p \in Pages : owner[p] = "free"}
CanNewPage     == FreePages # {} /\ Cardinality(Pinned) < NumFrames
NewPid         == Min(FreePages)         \* AllocatePage is first fit
Pin(p)         == pins' = [pins EXCEPT ![p] = @ + 1]
SlipNoUnpin(p) == UNCHANGED pins
Unpin(p)       == pins' = [pins EXCEPT ![p] = @ - 1]

SlipLinkLost(l, q) == chain
Linked(l, q) ==     \* page l, wherever it is in the chain, gets q as its next page
    IF Contains(chain, l)
    THEN Append(SubSeq(chain, 1, SelectInSeq(chain, LAMBDA d : d = l)), q)
    ELSE chain

\* The first entry of directory page d for data page p, and the first directory
\* page along the chain that has one, as indices; 0 if there is none.
EntryOf(d, p) == SelectInSeq(entries[d], LAMBDA e : e.pid = p)
DirOf(p)      == SelectInSeq(chain, LAMBDA d : EntryOf(d, p) # 0)

\* The directory pages a walk to the k-th (to the end if k = 0) can pin.  The
\* iterator does not look at the status of its pin.
WalkOK(k) == \A i \in 1 .. (IF k = 0 THEN Len(chain) ELSE k) :
                CanPin(chain[i]) /\ owner[chain[i]] = "dir"

Available(h)   == h.free - SlotSize
SlipSlotForgotten(h, l) == l <= h.free
Fits(h, l)     == l <= Available(h)
PageInserted(h, l) == IF Fits(h, l) THEN [h EXCEPT !.n = @ + 1, !.free = @ - l]
                                    ELSE h
PageDeleted(h, s)  == IF s \in h.slots
                      THEN [h EXCEPT !.n = @ - 1, !.slots = @ \ {s}] ELSE h

\* DirPage: InsertRecordIntoPage and DeleteRecordFromPage, on the first entry
\* of the page; DeletePage, which finds nothing to do for entry 0.
SlipSpaceKept(es, p, change, h) ==
    [i \in 1 .. Len(es) |->
        IF i = SelectInSeq(es, LAMBDA e : e.pid = p)
        THEN [es[i] EXCEPT !.n = @ + change] ELSE es[i]]
Recorded(es, p, change, h) ==
    [i \in 1 .. Len(es) |->
        IF i = SelectInSeq(es, LAMBDA e : e.pid = p)
        THEN [es[i] EXCEPT !.n = @ + change, !.space = Available(h)] ELSE es[i]]

SlipWithoutFirst(es, p) == RemoveAt(es, SelectInSeq(es, LAMBDA e : e.pid = p))
WithoutPage(es, p) ==
    LET i == SelectInSeq(es, LAMBDA e : e.pid = p)
    IN  IF i = 1 THEN es ELSE RemoveAt(es, i)

-----------------------------------------------------------------------------
Init ==
    /\ owner \in {[p \in Pages |-> o] : o \in {"free", "other"}}
    /\ chain = << >> /\ entries = [p \in Pages |-> << >>]
    /\ heap = [p \in Pages |-> [n |-> 0, free |-> 0, slots |-> {}]]
    /\ last = [h \in Handles |-> INVALID_PAGE]
    /\ pins = [p \in Pages |-> 0]
    /\ pc = "idle" /\ who = CHOOSE h \in Handles : TRUE
    /\ len = 0 /\ dir = INVALID_PAGE /\ pid = INVALID_PAGE
    /\ ret = [call |-> "none", status |-> "OK", page |-> "OK", failed |-> FALSE]
    /\ undefined = FALSE /\ freed = FALSE
    /\ balance = 0 /\ calls = 0 /\ others = 0

Answer(c, status, pageStatus) ==
    ret' = [call |-> c, status |-> status, page |-> pageStatus,
            failed |-> ret.failed \/ status = "FAIL"]
Return(c, status, pageStatus) ==
    /\ pc' = "idle" /\ len' = 0 /\ dir' = INVALID_PAGE /\ pid' = INVALID_PAGE
    /\ Answer(c, status, pageStatus) /\ UNCHANGED <<who, undefined>>
Undefined == undefined' = TRUE /\ UNCHANGED <<call, ret, pins>>
GoTo(label, l, d, p) ==
    /\ pc' = label /\ len' = l /\ dir' = d /\ pid' = p
    /\ UNCHANGED <<who, ret, undefined>>

\* A call on a file that is there; calls' is every such action's to set.
Ready == pc = "idle" /\ ~undefined /\ chain # << >> /\ calls < MaxCalls
         /\ calls' = calls + 1 /\ UNCHANGED others
Running(label) == pc = label /\ ~undefined /\ UNCHANGED <<calls, others>>

-----------------------------------------------------------------------------
(* The constructor *)

Create(h) ==
    /\ pc = "idle" /\ ~undefined /\ chain = << >> /\ calls < MaxCalls
    /\ calls' = calls + 1
    /\ \/ /\ CanNewPage
          /\ owner' = [owner EXCEPT ![NewPid] = "dir"]
          /\ entries' = [entries EXCEPT ![NewPid] = << >>]
          /\ chain' = <<NewPid>> /\ last' = [last EXCEPT ![h] = NewPid]
          /\ Answer("HeapFile", "OK", "OK")
       \/ ~CanNewPage /\ Answer("HeapFile", "FAIL", "OK") /\ UNCHANGED file
    /\ UNCHANGED <<heap, pins, call, undefined, freed, balance, others>>

\* A HeapFile object made for a file that exists walks to the chain's end.
Open(h) ==
    /\ Ready
    /\ \/ /\ WalkOK(0)
          /\ last' = [last EXCEPT ![h] = Last(chain)]
          /\ Return("HeapFile", "OK", "OK") /\ UNCHANGED pins
       \/ /\ ~WalkOK(0) /\ \A i \in 1 .. Len(chain) : owner[chain[i]] = "dir"
          /\ Return("HeapFile", "FAIL", "OK") /\ UNCHANGED <<last, pins>>
       \/ /\ \E i \in 1 .. Len(chain) : owner[chain[i]] # "dir"
          /\ Undefined /\ UNCHANGED last
    /\ UNCHANGED <<owner, chain, entries, heap, freed, balance>>

-----------------------------------------------------------------------------
(* InsertRecord *)

HasRoom(e, l) == e.space > l

RoomOf(d, l)  == SelectInSeq(entries[d], LAMBDA e : HasRoom(e, l))

InsertRecord(h, l) ==
    /\ Ready /\ last[h] # INVALID_PAGE
    /\ LET k == SelectInSeq(chain, LAMBDA d : RoomOf(d, l) # 0)
           d == chain[k]
       IN  \/ /\ l >= MaxSpace \/ ~CanPin(chain[1])
              /\ Return("InsertRecord", "FAIL", "OK") /\ UNCHANGED pins
           \/ /\ l < MaxSpace /\ CanPin(chain[1]) /\ ~WalkOK(k)
              /\ Undefined
           \/ /\ l < MaxSpace /\ WalkOK(k) /\ k # 0
              /\ pc' = "put" /\ who' = h /\ len' = l /\ dir' = d
              /\ pid' = entries[d][RoomOf(d, l)].pid
              /\ Pin(d) /\ UNCHANGED <<ret, undefined>>
           \/ /\ l < MaxSpace /\ WalkOK(k) /\ k = 0
              /\ pc' = "newdir" /\ who' = h /\ len' = l
              /\ UNCHANGED <<dir, pid, pins, ret, undefined>>
    /\ UNCHANGED <<file, freed, balance>>

\* InsertRecord does not look at the status of NewPage: it pins the directory
\* page, which is still pinned, and then a page number that was never set.
GoesOnWithoutPage(d) ==
    /\ pins' = [pins EXCEPT ![d] = @ + (IF pc = "newdir" THEN 2 ELSE 1)]
    /\ Return("InsertRecord", "FAIL", "OK")

\* HeapFile::NewPage, first a directory page with a free entry ...
NewDirPage ==
    /\ Running("newdir")
    /\ LET k    == SelectInSeq(chain, LAMBDA d : Len(entries[d]) < DirSlots)
           tail == last[who]
           q    == NewPid
       IN  \/ /\ k # 0 /\ Pin(chain[k])
              /\ GoTo("newdata", len, chain[k], INVALID_PAGE)
              /\ UNCHANGED <<owner, entries, chain, last>>
           \/ /\ k = 0 /\ ~CanNewPage
              /\ Return("InsertRecord", "FAIL", "OK")
              /\ UNCHANGED <<owner, entries, chain, last, pins>>
           \/ /\ k = 0 /\ CanNewPage
              /\ owner' = [owner EXCEPT ![q] = "dir"]
              /\ entries' = [entries EXCEPT ![q] = << >>]
              /\ IF tail \in Pinned \/ Cardinality(Pinned \cup {q}) < NumFrames
                 THEN /\ chain' = Linked(tail, q)
                      /\ last' = [last EXCEPT ![who] = q]
                      /\ Pin(q) /\ GoTo("newdata", len, q, INVALID_PAGE)
                 ELSE \/ GoesOnWithoutPage(q) /\ UNCHANGED <<chain, last>>
                      \/ Undefined /\ UNCHANGED <<chain, last>>
    /\ UNCHANGED <<heap, freed, balance>>

\* ... then a data page, with its entry.
NewDataPage ==
    /\ Running("newdata")
    /\ \/ /\ CanNewPage
          /\ owner' = [owner EXCEPT ![NewPid] = "data"]
          /\ \E n \in StaleCounts, slots \in StaleSlots :
                heap' = [heap EXCEPT ![NewPid] = [n |-> n, slots |-> slots,
                                                 free |-> DataSize - SlotSize]]
          /\ entries' = [entries EXCEPT ![dir] = Append(@,
                  [pid |-> NewPid, space |-> Available(heap'[NewPid]), n |-> 0])]
          /\ GoTo("put", len, dir, NewPid) /\ UNCHANGED pins
       \/ /\ ~CanNewPage /\ GoesOnWithoutPage(dir)
          /\ UNCHANGED <<owner, heap, entries>>
       \/ ~CanNewPage /\ Undefined /\ UNCHANGED <<owner, heap, entries>>
    /\ UNCHANGED <<chain, last, freed, balance>>

\* The record goes into the page; the page's answer is not looked at.
Put ==
    /\ Running("put")
    /\ \/ /\ ~CanPin(pid) /\ Return("InsertRecord", "FAIL", "OK")
          /\ UNCHANGED <<heap, entries, pins, balance>>
       \/ /\ CanPin(pid) /\ owner[pid] # "data" /\ Undefined
          /\ UNCHANGED <<heap, entries, balance>>
       \/ /\ CanPin(pid) /\ owner[pid] = "data"
          /\ heap' = [heap EXCEPT ![pid] = PageInserted(@, len)]
          /\ entries' = [entries EXCEPT ![dir] = Recorded(@, pid, 1, heap'[pid])]
          /\ Unpin(dir)
          /\ balance' = balance + 1
          /\ Return("InsertRecord", "OK", IF Fits(heap[pid], len) THEN "OK" ELSE "DONE")
    /\ UNCHANGED <<owner, chain, last, freed>>

-----------------------------------------------------------------------------
(* The other calls *)

\* GetRecord does not look at the page's answer either.
GetRecord(p, s) ==
    /\ Ready
    /\ \/ /\ ~CanPin(p) /\ Answer("GetRecord", "FAIL", "OK")
       \/ /\ CanPin(p) /\ owner[p] = "data" /\ s \in heap[p].slots
          /\ Answer("GetRecord", "OK", "OK")
       \/ /\ CanPin(p) /\ ~(owner[p] = "data" /\ s \in heap[p].slots)
          /\ Answer("GetRecord", "OK", "FAIL")
    /\ UNCHANGED <<file, pins, call, undefined, freed, balance>>

\* Is the page empty now, it is freed and its entry deleted.  The directory
\* page never is empty after that (DirectoriesStayFilled), so the code that
\* would unlink and free it does not run.
DeletedFrom(d, p, h, ps) ==
    LET es == Recorded(entries[d], p, -1, h)
    IN  \/ /\ h.n # 0
           /\ entries' = [entries EXCEPT ![d] = es] /\ balance' = balance - 1
           /\ Return("DeleteRecord", "OK", ps) /\ UNCHANGED <<owner, pins, freed>>
        \/ /\ h.n = 0 /\ pins[p] = 0
           /\ owner' = [owner EXCEPT ![p] = "free"] /\ freed' = TRUE
           /\ entries' = [entries EXCEPT ![d] = WithoutPage(es, p)]
           /\ balance' = balance - 1
           /\ Return("DeleteRecord", "OK", ps) /\ UNCHANGED pins
        \/ /\ h.n = 0 /\ pins[p] > 0
           /\ entries' = [entries EXCEPT ![d] = es] /\ balance' = balance - 1
           /\ pins' = [pins EXCEPT ![d] = @ + 1, ![p] = @ + 1]
           /\ Return("DeleteRecord", "FAIL", ps) /\ UNCHANGED <<owner, freed>>

DeleteRecord(p, s) ==
    /\ Ready
    /\ LET k  == DirOf(p)
           d  == chain[k]
           h  == PageDeleted(heap[p], s)
           ps == IF s \in heap[p].slots THEN "OK" ELSE "FAIL"
       IN  \/ /\ ~WalkOK(k) /\ Undefined
              /\ UNCHANGED <<owner, entries, heap, freed, balance>>
           \/ /\ WalkOK(k) /\ k = 0 /\ Return("DeleteRecord", "DONE", "OK")
              /\ UNCHANGED <<owner, entries, heap, pins, freed, balance>>
           \/ /\ WalkOK(k) /\ k # 0
              /\ p \notin Pinned /\ Cardinality(Pinned \cup {d}) >= NumFrames
              /\ Pin(d) /\ Return("DeleteRecord", "FAIL", "OK")
              /\ UNCHANGED <<owner, entries, heap, freed, balance>>
           \/ /\ WalkOK(k) /\ k # 0
              /\ p \in Pinned \/ Cardinality(Pinned \cup {d}) < NumFrames
              /\ IF owner[p] # "data"
                 THEN /\ Undefined
                      /\ UNCHANGED <<owner, entries, heap, freed, balance>>
                 ELSE /\ heap' = [heap EXCEPT ![p] = h]
                      /\ DeletedFrom(d, p, h, ps)
    /\ UNCHANGED <<chain, last>>

\* UpdateRecord unpins the directory page, then compares the lengths, the old
\* one being what the slot says, or never set.
UpdateRecord(p, s) ==
    /\ Ready
    /\ LET k == DirOf(p)
       IN  \/ /\ ~WalkOK(k) /\ Undefined
           \/ /\ WalkOK(k) /\ k = 0
              /\ Return("UpdateRecord", "DONE", "OK") /\ UNCHANGED pins
           \/ /\ WalkOK(k) /\ k # 0 /\ ~CanPin(p)
              /\ Return("UpdateRecord", "FAIL", "OK") /\ UNCHANGED pins
           \/ /\ WalkOK(k) /\ k # 0 /\ CanPin(p)
              /\ \/ Return("UpdateRecord", "FAIL", "OK") /\ Pin(p)
                 \/ /\ owner[p] = "data" /\ s \in heap[p].slots
                    /\ Return("UpdateRecord", "OK", "OK") /\ UNCHANGED pins
                 \/ Undefined
    /\ UNCHANGED <<file, freed, balance>>

-----------------------------------------------------------------------------
(* DeleteFile: every data page of a directory page, then that page *)

DeleteFile ==
    /\ Ready /\ GoTo("delete", 0, chain[1], INVALID_PAGE)
    /\ UNCHANGED <<file, pins, freed, balance>>

PagesOf(es) == {es[i].pid : i \in 1 .. Len(es)}

\* FREEPAGE fails for a page that is pinned more than once; DeleteFile then
\* returns, the directory page pinned unless it is the one it could not free.
FreeDirPage(es, bad, at, gone) ==
    LET all == IF bad = 0 /\ pins[dir] <= 1 THEN gone \cup {dir} ELSE gone
    IN  /\ owner' = [p \in Pages |-> IF p \in all THEN "free" ELSE owner[p]]
        /\ pins' = [p \in Pages |->
              IF p \in all THEN 0
              ELSE IF p = dir /\ bad # 0 THEN pins[p] + 1 ELSE pins[p]]
        /\ UNCHANGED heap
        /\ \/ /\ dir \notin all /\ freed' = TRUE
              /\ Return("DeleteFile", "FAIL", "OK")
              /\ UNCHANGED <<chain, entries, last, balance>>
           \/ /\ dir \in all /\ at < Len(chain)
              /\ GoTo("delete", 0, chain[at + 1], INVALID_PAGE)
              /\ freed' = TRUE /\ UNCHANGED <<chain, entries, last, balance>>
           \/ /\ dir \in all /\ at = Len(chain)
              /\ chain' = << >> /\ entries' = [p \in Pages |-> << >>]
              /\ last' = [h \in Handles |-> INVALID_PAGE]
              /\ freed' = FALSE /\ balance' = 0
              /\ Return("DeleteFile", "OK", "OK")

DeleteDirPage ==
    /\ Running("delete")
    /\ LET es  == entries[dir]
           bad == SelectInSeq(es, LAMBDA e : pins[e.pid] > 1)
           at  == SelectInSeq(chain, LAMBDA d : d = dir)
           gone == PagesOf(IF bad = 0 THEN es ELSE SubSeq(es, 1, bad - 1))
       IN  \/ /\ ~CanPin(dir) \/ owner[dir] # "dir"
                \/ \E p \in gone : owner[p] = "dir"
              /\ Undefined /\ UNCHANGED <<file, freed, balance>>
           \/ /\ CanPin(dir) /\ owner[dir] = "dir"
              /\ \A p \in gone : owner[p] # "dir"
              /\ FreeDirPage(es, bad, at, gone)

-----------------------------------------------------------------------------
(* The other files of the database *)

OtherAllocates ==
    /\ pc = "idle" /\ ~undefined /\ FreePages # {} /\ others < MaxOthers
    /\ owner' = [owner EXCEPT ![NewPid] = "other"] /\ others' = others + 1
    /\ UNCHANGED <<chain, entries, heap, last, pins, call, ret, undefined, freed,
                   balance, calls>>

OtherFrees(p) ==
    /\ pc = "idle" /\ ~undefined /\ owner[p] = "other" /\ others < MaxOthers
    /\ owner' = [owner EXCEPT ![p] = "free"] /\ others' = others + 1
    /\ UNCHANGED <<chain, entries, heap, last, pins, call, ret, undefined, freed,
                   balance, calls>>

\* The bound is reached, or what happens is no longer defined.
Stop == undefined \/ (pc = "idle" /\ calls = MaxCalls)

Next ==
    \/ \E h \in Handles : \/ Create(h) \/ Open(h)
                           \/ \E l \in Lengths : InsertRecord(h, l)
    \/ NewDirPage \/ NewDataPage \/ Put
    \/ \E p \in Pages, s \in 0 .. 2 :
          GetRecord(p, s) \/ DeleteRecord(p, s) \/ UpdateRecord(p, s)
    \/ DeleteFile \/ DeleteDirPage
    \/ OtherAllocates \/ \E p \in Pages : OtherFrees(p)
    \/ Stop /\ UNCHANGED vars

Spec == Init /\ [][Next]_vars

-----------------------------------------------------------------------------
(* Properties *)

\* The types; no directory page has more entries than fit, no data page more
\* or less free space than a page has.
TypeOK ==
    /\ owner \in [Pages -> {"free", "dir", "data", "other"}]
    /\ chain \in Seq(Pages) /\ last \in [Handles -> Pages \cup {INVALID_PAGE}]
    /\ \A d \in Pages : Len(entries[d]) <= DirSlots
    /\ \A d \in Pages : \A i \in 1 .. Len(entries[d]) :
          entries[d][i] \in [pid : Pages, space : Nat, n : Int]
    /\ heap \in [Pages -> [n : Int, free : 0 .. DataSize, slots : SUBSET {0, 1}]]
    /\ pins \in [Pages -> Nat]
    /\ pc \in {"idle", "newdir", "newdata", "put", "delete"}

\* The pages of the chain are distinct whatever fails; and as long as no call
\* has failed, the chain and lastDirPid account for every directory page: a new
\* one always goes to the end.  (NewPage can fail between the allocation of a
\* directory page and its linking, DeleteFile after it has freed pages.)
ChainIsWhole ==
    chain # << >> /\ ~undefined =>
        /\ IsInjective(chain)
        /\ pc # "delete" /\ ~ret.failed =>
              /\ \A h \in Handles : last[h] # INVALID_PAGE => last[h] = Last(chain)
              /\ {p \in Pages : owner[p] = "dir"} = ToSet(chain)

\* A directory page that has an entry keeps one, whatever is deleted: the part
\* of DeleteRecord that frees empty directory pages (heapfile.cpp:395-418) is
\* never reached.
DirectoriesStayFilled ==
    [][\A d \in Pages : entries[d] # << >> /\ chain' # << >>
          => entries'[d] # << >>]_vars

Entries == {x \in Pages \X (1 .. DirSlots) :
               Contains(chain, x[1]) /\ x[2] <= Len(entries[x[1]])}
EntryAt(x) == entries[x[1]][x[2]]

GetNumOfRecords == MapThenSumSet(LAMBDA x : EntryAt(x).n, Entries)

\* While no data page has been freed, the directory and the data pages agree:
\* every entry is that of a data page, with the page's own free space, and every
\* data page has one.
EntriesAgree ==
    ~freed /\ ~undefined =>
        /\ \A x \in Entries : LET p == EntryAt(x).pid
                               IN  /\ owner[p] = "data"
                                   /\ EntryAt(x).space = Available(heap[p])
        /\ \A p \in Pages : owner[p] = "data" =>
               Cardinality({x \in Entries : EntryAt(x).pid = p}) = 1

\* Moreover the numbers of records add up to the calls that were carried out,
\* also while an InsertRecord is running.
DirectoryAgrees ==
    EntriesAgree /\ (~freed /\ ~undefined => GetNumOfRecords = balance)

\* As long as no call has failed, no page is pinned between calls.
SuccessLeavesNoPin ==
    pc = "idle" /\ ~undefined /\ ~ret.failed => Pinned = {}

(* What the comments say, and the file does not do *)

\* heapfile.cpp:334: "... if it was the only record on the page, remove the
\* page as well".  The entries of the directory name data pages of the file.
EntriesNameDataPages ==
    pc = "idle" /\ ~undefined => \A x \in Entries : owner[EntryAt(x).pid] = "data"

\* heapfile.cpp:239: "The record is inserted into a page with enough space".
InsertedMeansStored ==
    ret.call = "InsertRecord" /\ ret.status = "OK" => ret.page = "OK"

\* heapfile.cpp:341: "OK if the record is deleted, DONE if the record was not
\* found".
DeletedMeansDeleted ==
    ret.call = "DeleteRecord" /\ ret.status = "OK" => ret.page = "OK"

\* heapfile.cpp:315: "OK if record is found, DONE if record is not found".
ReadMeansFound ==
    ret.call = "GetRecord" /\ ret.status = "OK" => ret.page = "OK"

\* heapfile.cpp:149, of the destructor: "No pages are pinned".
UpdateLeavesNoPin ==
    pc = "idle" /\ ~undefined /\ ret.call = "UpdateRecord" => Pinned = {}

\* heapfile.cpp:553: "Insert at the end of the dirPage list".
DirPagesAreLinked ==
    pc = "idle" /\ ~undefined /\ ~ret.failed =>
        {p \in Pages : owner[p] = "dir"} = ToSet(chain)

\* heapfile.cpp:240: "if such page is not found, a new page is added".
NewPageOnlyIfTooSmall ==
    [][\A p \in Pages : owner[p] # "data" /\ owner'[p] = "data" =>
          \A x \in Entries : EntryAt(x).space < len]_vars
=============================================================================
