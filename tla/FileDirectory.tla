---------------------------- MODULE FileDirectory ----------------------------
(***************************************************************************)
(* The directory of the files in a database (DB in spacemgr/db.cpp).  The  *)
(* header page and the header pages linked after it each hold a fixed      *)
(* number of entries, a name and a start page.  AddFileEntry looks the     *)
(* name up, then walks the chain again for a free entry, and appends a     *)
(* header page when there is none; DeleteFileEntry and GetFileEntry walk   *)
(* the chain for the name.                                                 *)
(*                                                                         *)
(* A step pins one header page, or reads or changes the page that is       *)
(* pinned.  A pin can be refused (no frame, or an input/output error).  A  *)
(* page that was linked when its pin is refused keeps what the file has    *)
(* there: zeroes, which read as no entries and the header page next, or,   *)
(* if the file is older than the database, anything.  The entries of a     *)
(* header page are not on the page: the page holds a pointer to memory of  *)
(* the process, which Reopen loses.                                        *)
(***************************************************************************)
EXTENDS Integers, FiniteSetsExt, SequencesExt

CONSTANTS NumPages,       \* num_pages
          Names,          \* file names
          LongNames,      \* those of MAX_NAME characters or more
          StartPages,     \* the start pages callers pass, INVALID_PAGE included
          FreePages,      \* the pages AllocatePage can give
          StalePages,     \* those of them that are not blank in the file
          FirstEntries,   \* num_entries of the header page
          MoreEntries,    \* num_entries of the other header pages
          MaxRefusals     \* bound: how many pins are refused

INVALID_PAGE == -1

ASSUME DirectoryAssumption ==
    /\ NumPages \in Nat
    /\ INVALID_PAGE \in StartPages /\ StartPages \subseteq Int
    /\ Names # {} /\ LongNames \subseteq Names
    /\ FreePages \subseteq 1 .. NumPages - 1 /\ StalePages \subseteq FreePages
    /\ FirstEntries \in Nat \ {0} /\ MoreEntries \in Nat \ {0}
    /\ MaxRefusals \in Nat

AnyName      == CHOOSE n \in Names : TRUE
Free         == [pagenum |-> INVALID_PAGE, fname |-> ""]
HeaderPages  == {0} \cup FreePages

VARIABLES next,             \* next_page of the header pages
          entries,          \* entries of the header pages
          allocated,        \* the pages AllocatePage has given
          uninit,           \* header pages linked but not initialised
          dangling,         \* header pages whose entries are lost memory
          pc, op, name, page,
          at,               \* hpid, the header page of the walk
          pinned,           \* the pages that are pinned
          status, result,   \* how the last call ended
          unsure,           \* AddFileEntry went on after a lookup that failed
          refusals

table == <<next, entries, allocated, uninit>>
args  == <<op, name, page>>
vars  == <<table, dangling, pc, args, at, pinned, status, result, unsure,
           refusals>>

NumEntries(p) == IF p = 0 THEN FirstEntries ELSE MoreEntries

\* init_dir_page
Fresh(p) == [e \in 1 .. NumEntries(p) |-> Free]

Live(e) == e.pagenum # INVALID_PAGE

\* The definitions named Slip... are wrong versions of the definition that
\* follows them; each shows that some property notices the mistake.

\* The first entry of header page p with the name, or that is free; 0 if
\* there is none.
SlipDeletedToo(p, n) == SelectInSeq(entries[p], LAMBDA e : e.fname = n)
SlotOf(p, n) == SelectInSeq(entries[p], LAMBDA e : Live(e) /\ e.fname = n)

SlipSlotZero(p) == 1
FreeSlot(p) == SelectInSeq(entries[p], LAMBDA e : ~Live(e))

SlipZeroEnds == next[at] = 0
SlipOnePage  == TRUE
LastPage == next[at] = INVALID_PAGE

\* The page of the walk is unpinned: the call returns, a walk starts at the
\* first header page, or the walk goes on to the next page.
Unpin        == pinned' = pinned \ {at}
NoCall       == op' = "none" /\ name' = AnyName /\ page' = INVALID_PAGE
Return(s)    == pc' = "idle" /\ at' = 0 /\ Unpin /\ status' = s /\ NoCall
StartWalk(w) == pc' = w /\ at' = 0 /\ Unpin /\ UNCHANGED <<status, args>>

SlipNoUnpin  == pc' = pc /\ at' = next[at] /\ UNCHANGED <<pinned, status, args>>
SlipSamePage == pc' = pc /\ at' = at /\ Unpin /\ UNCHANGED <<status, args>>
GoOn == pc' = pc /\ at' = next[at] /\ Unpin /\ UNCHANGED <<status, args>>

\* Pages a walk cannot make sense of: nobody initialised them and the file
\* is not blank there, or their entries are memory of a process that ended.
Garbage  == dangling \cup (uninit \cap StalePages)
Readable == at \in pinned /\ at \notin Garbage

-----------------------------------------------------------------------------
\* The first header page is initialised.  The others read as they are in the
\* file: no entries, and page 0 next, where it is blank.
Blank == 0
Init ==
    /\ next = [p \in HeaderPages |-> IF p = 0 THEN INVALID_PAGE ELSE Blank]
    /\ entries = [p \in HeaderPages |-> IF p = 0 THEN Fresh(p) ELSE << >>]
    /\ allocated = {} /\ uninit = {} /\ dangling = {}
    /\ pc = "idle" /\ op = "none" /\ name = AnyName
    /\ page = INVALID_PAGE /\ result = INVALID_PAGE
    /\ at = 0 /\ pinned = {} /\ status = "OK"
    /\ unsure = FALSE /\ refusals = 0

Call(o, n, p) ==
    /\ pc = "idle"
    /\ op' = o /\ name' = n /\ page' = p
    /\ result' = INVALID_PAGE /\ status' = "none"
    /\ pc' = "enter"
    /\ UNCHANGED <<table, dangling, at, pinned, refusals, unsure>>

\* The checks AddFileEntry makes before it reads a page.
BadPageNo == page < 0 \/ page >= NumPages

Enter ==
    /\ pc = "enter"
    /\ \/ op = "AddFileEntry" /\ name \in LongNames
             /\ Return("FILE_NAME_TOO_LONG")
       \/ op = "AddFileEntry" /\ name \notin LongNames /\ BadPageNo
             /\ Return("BAD_PAGE_NO")
       \/ op = "AddFileEntry" /\ name \notin LongNames /\ ~BadPageNo
             /\ StartWalk("get")
       \/ op = "GetFileEntry" /\ StartWalk("get")
       \/ op = "DeleteFileEntry" /\ StartWalk("delete")
    /\ UNCHANGED <<table, dangling, result, refusals, unsure>>

PinHeader ==
    /\ pc \in {"get", "delete", "free"} /\ at \notin pinned
    /\ pinned' = pinned \cup {at}
    /\ UNCHANGED <<table, dangling, pc, args, at, status, result, refusals,
                   unsure>>

\* AddFileEntry asks GetFileEntry whether the file exists, and takes every
\* answer but OK for "no".
PinRefused ==
    /\ pc \in {"get", "delete", "free"} /\ at \notin pinned
    /\ refusals < MaxRefusals /\ refusals' = refusals + 1
    /\ \/ pc = "get" /\ op = "AddFileEntry" /\ StartWalk("free") /\ unsure' = TRUE
       \/ /\ ~(pc = "get" /\ op = "AddFileEntry")
          /\ Return("PIN_REFUSED") /\ UNCHANGED unsure
    /\ UNCHANGED <<table, dangling, result>>

-----------------------------------------------------------------------------
(* GetFileEntry, by itself and as the first part of AddFileEntry *)

GetVisit ==
    /\ pc = "get" /\ Readable
    /\ LET e == SlotOf(at, name)
       IN  \/ /\ e # 0 /\ op = "GetFileEntry"
              /\ result' = entries[at][e].pagenum
              /\ Return("OK")
           \/ /\ e # 0 /\ op = "AddFileEntry"
              /\ Return("DUPLICATE_ENTRY") /\ UNCHANGED result
           \/ e = 0 /\ ~LastPage /\ GoOn /\ UNCHANGED result
           \/ /\ e = 0 /\ LastPage /\ UNCHANGED result
              /\ IF op = "GetFileEntry" THEN Return("FAIL")
                                        ELSE StartWalk("free")
    /\ UNCHANGED <<table, dangling, refusals, unsure>>

(* DeleteFileEntry *)

DeleteVisit ==
    /\ pc = "delete" /\ Readable
    /\ LET e == SlotOf(at, name)
       IN  \/ /\ e # 0
              /\ entries' = [entries EXCEPT ![at][e].pagenum = INVALID_PAGE]
              /\ Return("OK")
           \/ e = 0 /\ ~LastPage /\ GoOn /\ UNCHANGED entries
           \/ e = 0 /\ LastPage /\ Return("FILE_NOT_FOUND") /\ UNCHANGED entries
    /\ UNCHANGED <<next, allocated, uninit, dangling, result, refusals,
                   unsure>>

(* AddFileEntry *)

NewEntry == [pagenum |-> page, fname |-> name]
NewPage  == Min(FreePages \ allocated)     \* AllocatePage is first fit

\* The walk for a free entry.  On the last page, if it is full, the page stays
\* pinned while a page is allocated and linked after it.
FreeVisit ==
    /\ pc = "free" /\ Readable
    /\ LET e == FreeSlot(at)
       IN  \/ /\ e # 0
              /\ entries' = [entries EXCEPT ![at][e] = NewEntry]
              /\ Return("OK") /\ UNCHANGED <<next, allocated>>
           \/ e = 0 /\ ~LastPage /\ GoOn /\ UNCHANGED <<next, entries, allocated>>
           \/ /\ e = 0 /\ LastPage /\ FreePages \ allocated # {}
              /\ allocated' = allocated \cup {NewPage}
              /\ next' = [next EXCEPT ![at] = NewPage]
              /\ pc' = "new" /\ at' = NewPage /\ Unpin
              /\ UNCHANGED <<entries, status, args>>
    /\ UNCHANGED <<uninit, dangling, result, refusals, unsure>>

\* AllocatePage fails: the database is full, or a map page could not be pinned.
NoNewPage ==
    /\ pc = "free" /\ Readable /\ FreeSlot(at) = 0 /\ LastPage
    /\ \/ FreePages = allocated /\ Return("DB_FULL") /\ UNCHANGED refusals
       \/ /\ refusals < MaxRefusals /\ refusals' = refusals + 1
          /\ Return("PIN_REFUSED")
    /\ UNCHANGED <<table, dangling, result, unsure>>

\* init_dir_page makes it the last page, until another one is linked after it.
SlipLeftBlank == UNCHANGED next
IsLast        == next' = [next EXCEPT ![at] = INVALID_PAGE]

\* The new header page is pinned, initialised and given the entry; or the pin
\* is refused, and the last page stays as it is in the file: where it is blank
\* it leads back to page 0, and the chain is a ring.
NewHeader ==
    /\ pc = "new"
    /\ \/ /\ entries' = [entries EXCEPT ![at] = [Fresh(at) EXCEPT ![1] = NewEntry]]
          /\ IsLast /\ Return("OK") /\ UNCHANGED <<uninit, refusals>>
       \/ /\ refusals < MaxRefusals /\ refusals' = refusals + 1
          /\ uninit' = uninit \cup {at}
          /\ Return("PIN_REFUSED") /\ UNCHANGED <<next, entries>>
    /\ UNCHANGED <<allocated, dangling, result, unsure>>

-----------------------------------------------------------------------------
\* The process ends and another one opens the database: the pages are read
\* again, the memory their entries pointed to is not there.
Reopen ==
    /\ pc = "idle"
    /\ dangling' = ({0} \cup allocated) \ uninit
    /\ entries' = [p \in HeaderPages |-> << >>]
    /\ UNCHANGED <<next, allocated, uninit, pc, args, at, pinned, status, result,
                   unsure, refusals>>

\* What a walk does on a page it cannot make sense of is undefined.
ReadGarbage ==
    /\ pc \in {"get", "delete", "free"} /\ at \in pinned /\ ~Readable
    /\ pc' = "undefined"
    /\ UNCHANGED <<table, dangling, args, at, pinned, status, result, refusals,
                   unsure>>

Stop == pc = "undefined" /\ UNCHANGED vars

Step == \/ Enter \/ PinHeader \/ PinRefused \/ GetVisit \/ DeleteVisit
        \/ FreeVisit \/ NoNewPage \/ NewHeader \/ ReadGarbage

Next == \/ Step \/ Reopen \/ Stop
        \/ \E n \in Names, p \in StartPages : Call("AddFileEntry", n, p)
        \/ \E n \in Names : \/ Call("DeleteFileEntry", n, INVALID_PAGE)
                            \/ Call("GetFileEntry", n, INVALID_PAGE)

Spec == Init /\ [][Next]_vars

\* The code runs a call to its end.
FairSpec == Spec /\ WF_vars(Step)

-----------------------------------------------------------------------------
(* Properties *)

Linked    == {0} \cup allocated
Unwritten == uninit \cup (IF pc = "new" THEN {at} ELSE {})
Written   == Linked \ Unwritten

\* The types; a header page has its number of entries from when it is
\* initialised until the memory they are in is lost, and the walk is on a
\* header page.
TypeOK ==
    /\ next \in [HeaderPages -> HeaderPages \cup {INVALID_PAGE}]
    /\ \A p \in HeaderPages :
          Len(entries[p]) = IF p \in Written \ dangling THEN NumEntries(p) ELSE 0
    /\ allocated \subseteq FreePages
    /\ uninit \subseteq allocated /\ dangling \subseteq HeaderPages
    /\ pc \in {"idle", "enter", "get", "delete", "free", "new", "undefined"}
    /\ name \in Names /\ page \in StartPages
    /\ at \in HeaderPages /\ pinned \subseteq HeaderPages
    /\ result \in StartPages
    /\ unsure \in BOOLEAN /\ refusals \in 0 .. MaxRefusals

\* The entries in use, as <<header page, index>>.
LiveEntries ==
    {x \in HeaderPages \X (1 .. FirstEntries + MoreEntries) :
        x[2] <= Len(entries[x[1]]) /\ Live(entries[x[1]][x[2]])}

EntryAt(x) == entries[x[1]][x[2]]

\* A name has one entry at most: the lookup and the walk for a free entry,
\* two passes over the chain, agree on what is there.
UniqueNames ==
    \A x, y \in LiveEntries : EntryAt(x).fname = EntryAt(y).fname => x = y

\* The links of the header pages that are initialised form one chain from page
\* 0 that reaches every page allocated for it: none is linked twice, and no
\* set of them is cut off from the pages outside it, so that none is lost and
\* they form no ring.  A page that is linked and not initialised is the end of
\* the chain, whatever its own link reads.
OneChain ==
    /\ \A q \in Written : next[q] = INVALID_PAGE \/ next[q] \in allocated
    /\ \A q, r \in Written : next[q] = next[r] /\ next[q] # INVALID_PAGE => q = r
    /\ \A S \in (SUBSET allocated) \ {{}} : \E q \in Written \ S : next[q] \in S

\* No call returns with a page pinned, whatever was refused on the way.
NothingLeftPinned == pc \in {"idle", "enter", "new"} => pinned = {}

\* While one process has the database open, an entry, once added, leaves its
\* place only by DeleteFileEntry of its name.
OnlyDeleteRemoves ==
    [][dangling' = dangling =>
          \A x \in LiveEntries :
             \/ x \in LiveEntries' /\ entries'[x[1]][x[2]] = EntryAt(x)
             \/ op = "DeleteFileEntry" /\ name = EntryAt(x).fname]_vars

\* The files are still there when another process opens the database ("A directory
\* page is where the DB keeps track of the files created within the database",
\* db.h:122-123).
FilesSurvive == [][Reopen => LiveEntries' = LiveEntries]_vars

\* Callers see a NameTable until a lookup failed that was taken for a "no", or
\* a walk may come to a page it cannot make sense of.  They see it also on a
\* chain that a refused pin has made a ring: no wrong answer is given there.
Files == [n \in {EntryAt(x).fname : x \in LiveEntries} |->
             EntryAt(CHOOSE x \in LiveEntries : EntryAt(x).fname = n).pagenum]
Table == INSTANCE NameTable WITH files <- Files, busy <- pc # "idle",
                 trouble <- unsure \/ Garbage # {}
TableSpec == Table!Spec

\* The walk of the call stops at header page p.
Ends(p) ==
    \/ pc \in {"get", "delete"} /\ SlotOf(p, name) # 0
    \/ pc = "free" /\ FreeSlot(p) # 0
    \/ next[p] = INVALID_PAGE \/ p \in Garbage

\* The walk has nowhere to stop: what it looks for is on none of the header
\* pages, and the last of them leads back to the first.
Endless == pc \in {"get", "delete", "free"} /\ \A p \in Linked : ~Ends(p)

\* Every call returns, or meets a page it cannot make sense of, or looks for
\* what is not there in a ring that a refused pin has left: a walk that has a
\* page to stop at comes to it.
EveryCallReturns ==
    []<>(pc \in {"idle", "undefined"} \/ (uninit # {} /\ Endless))

\* Every call returns ("Entry not found - don't post error, just fail",
\* db.cpp:519).
EveryCallEnds == []<>(pc \in {"idle", "undefined"})
=============================================================================
