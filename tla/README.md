# Formal models of the Oxford database systems practicals

The repository holds a teaching version of Minibase and a project on
factorised databases. Practical 1 (`P1`, `src/Practical_1_Heap_Page/HeapPage`)
is the storage layer: a space manager, a file directory, heap pages and heap
files. Practical 2 (`P2`, `src/Practical_2_Buffer_Manager`) is a buffer
manager, practical 3 (`P3`, `src/Practical_3_Joins`) three join algorithms, and
`src/Project_CoverDB` a program that answers queries from a cover of a
relation. The modules here model all of them: the storage layer of P1 with its
scans, P2's draft of a buffer manager, the joins of P3 and CoverDB.

Everything in the code runs in one thread. What is hard about it is not
concurrency but calls that stop in the middle (a pin that is refused, a full
database, a page that cannot be freed), state that is read after it went stale
(frames that are not cleared, copies of page numbers, positions in a directory
whose entries move, vectors that outlive a query), long sequences of legal calls,
several users of one file (a scan while records are deleted), and arithmetic at
the edges of bytes, pages, slots and blocks.

## Inventory

| component | state | operations | works with | what makes it correct |
|---|---|---|---|---|
| space map, `P1/spacemgr/db.cpp` | a bitmap in the pages after page 0 | `AllocatePage`, `DeallocatePage`, the creating constructor, `set_bits` | pins its map pages in the buffer manager | a page has one owner; full means full; `set_bits` changes its run and nothing else, whatever fails |
| file directory, `db.cpp` | a chain of header pages with entries (name, start page) | `AddFileEntry`, `DeleteFileEntry`, `GetFileEntry`, both constructors | buffer manager, space map | one entry for a name; entries go only when deleted; one chain; nothing left pinned; lookups end |
| page I/O, `db.cpp` | a file descriptor | `ReadPage`, `WritePage`, `Destroy`, getters | the operating system | not modelled (I/O) |
| heap page, `P1/spacemgr/heappage.cpp` | `numOfSlots`, `fillPtr`, `freeSpace`, slots and data | `Init`, `InsertRecord`, `DeleteRecord`, `FirstRecord`, `NextRecord`, `GetRecord`, `ReturnRecord`, counters | called by heap file and scan | records do not overlap and stay; space adds up; a record id finds its record |
| directory page, `P1/spacemgr/dirpage.cpp` | entries (page, space, number of records), next and previous page | insertions, deletions and updates of entries, two iterators | called by the heap file | entries agree with the data pages |
| heap file, `P1/spacemgr/heapfile.cpp` | `dirPid`, `lastDirPid`, the chain of directory pages | constructor, `InsertRecord`, `NewPage`, `GetRecord`, `DeleteRecord`, `UpdateRecord`, `DeleteFile`, `GetNumOfRecords` | buffer manager, file directory, directory and heap pages | the directory accounts for every page and record; calls leave no pins |
| scan, `P1/spacemgr/scan.cpp` | two pinned pages, a position in the directory, a record id | constructor, destructor, `GetNext`, `MoveTo` | heap file, directory and heap pages | every record that stays once; its pins are all there are; none left at the end |
| buffer manager, `P2/bufmgr` | frames, pin counts, an LRU queue | `PinPage`, `UnpinPage`, `NewPage`, `FreePage`, flushes, `PickVictim`, the destructor | space map, page I/O, every layer above | a pinned page stays; a dirty page is written before its frame is reused |
| joins, `P3/joins` | two scans, a result file, a block or an index | tuple, block and index nested loops, `SortFile` | heap files, scans, an external B+-tree | all give the join, each in its order |
| relations, `P3/joins/relation.cpp` | a file of random records | `CreateR`, `CreateS`, `RandomPermutate` | heap files, the joins | every attribute joined refers to one record of S |
| CoverDB, `Project_CoverDB/CoverDB.cpp` | variable order, `encode`, `CDB`, the factorised database | `BuildVariableOrder`, `BuildFatorisedDB`, `Sum`, `SumColumn`, `GroupByType3`, `GroupByType4`, `StandardDB` | files of tuples | the factorised database stands for the relation; its answers are those of `StandardDB` |

The heap file calls the file directory only to create, open and delete a file by
name. Everything reaches pages through the buffer manager; P1 and P3 link it as
a binary library (`libbufmgr.a`). The
hazards of this code, each at its line, are in `PROJECT.json`.

## Modules

| module | models | extends or instantiates |
|---|---|---|
| `PageAllocator` | abstract: pages are handed out in runs, to one owner at a time | |
| `SpaceMap` | the space map, bit by bit and byte by byte | `PageAllocator` by refinement |
| `NameTable` | abstract: a table from names to start pages | |
| `FileDirectory` | the walks over the header pages | `NameTable` by refinement |
| `HeapPage` | the memory of one page | |
| `HeapFile` | a heap file with its directory pages, the pages' own space and slots, pins, and other users of the database | |
| `Scan` | a scan, between any calls of the file | `HeapFile` by extension: its actions are steps of the composition |
| `CoverDB` | both programs of the project, `CoverDB()` and `StandardDB()` | |
| `BufMgr` | the draft of the buffer manager with its frames and its replacer | |
| `JoinResult` | abstract: what a join promises, whatever its algorithm | |
| `Joins` | the three joins and `SortFile`, on the relations `main.cpp` makes | `JoinResult` by refinement |
| `MC...` | constants for TLC | the module of that name |
| `SpaceMap_proofs`, `FileDirectory_proofs`, `HeapPage_proofs`, `BufMgr_proofs`, `Joins_proofs`, `CoverDB_proofs` | theorems | the module of that name, `TLAPS` |
| `HeapFile_proofs` | theorems about heap files and their scans | `Scan`, and `HeapFile` through it |
| `Indices` | lemmas: least and greatest numbers, the first index, functions that are sequences, functions defined by recursion, sums over finite sets | the library's theorems |

A definition called `Slip...` stands before the one it is a wrong version of; it
is used only to see that a property notices the mistake.

**SpaceMap.** A call is a sequence of steps: pin a map page, examine a bit,
write a byte under its mask, unpin. The locals of `AllocatePage` and `set_bits`
are variables, `pc` says where the call is, and `PinRefused` may end it at
every pin, as `if (status != OK) return` does. The wrap-around of
`start_page+run_size-1`, unsigned, is kept (`Unsigned`): for an empty run at page
0 the loop over map pages goes on until the buffer manager refuses a page
outside the database. `held` is what callers own. Callers free what they own: that
`DeallocatePage` clears any run it is given is the code's interface.

**FileDirectory.** A call walks the chain one header page at a time, pinning and
unpinning. `AddFileEntry` is the lookup, then a second walk for a free entry,
then perhaps a new header page; where it goes on after a failed lookup, the
model does. `AddFileEntry` links a new header page before it pins it. If that pin is
refused, the page keeps what the file has there (`uninit`). In a file of zeroes (`Blank`)
it has no entries and page 0 next, so that the chain is a ring and a lookup of a
name that is not there goes round for good (`Endless`); in an older file
(`StalePages`) it may hold anything. A header page holds a *pointer* to its entries
(`init_dir_page`): `Reopen`, a process that opens the database again, has lost every
entry (`dangling`). What happens when a lost or a stale page is read is `undefined`.

**HeapPage.** `slots` has one element, and the code uses `slots[1]` and
`slots[2]`, which lie over the data area. The model lays them there, as the
compiler does: one memory `mem`, records and slots written into it in the
code's order. `Init` leaves `numOfSlots` and the slots as they were in the
frame, so the model starts with any of the values in `StaleCounts` and
`StaleShorts`.

**HeapFile.** A data page is what the file asks of it: its count, free space and
which of `slots[0]`, `slots[1]` are filled. The buffer manager is external: a
page can be pinned if it is pinned already or a frame is free of pins; a new page
also needs a free page (first fit, as in `SpaceMap`); `FreePage` refuses a page that
is pinned more than once. Pins that failed calls leave behind stay, and use up
frames. `OtherAllocates` and `OtherFrees` are the other files of the database, so
that a page freed here can come back as someone else's. Where the code goes on with a page number or a pointer that was
never set, or writes a page that is no longer the file's, `undefined` becomes TRUE
and the behaviour stops; where the outcome depends on an uninitialised value both
outcomes are there.

**Scan.** The module adds the scan's variables to those of `HeapFile`, and a step
is a step of the file (`HeapStep`, any action of `HeapFile!Next`) or a call of the
scan made between two calls of the file, as `heaptest.cpp` does when it deletes what it
reads. The scan's fields are the code's: the two page numbers, the two pointers
(`null`, `held`, or `wild` for one that was never set), the number of the next
directory entry, the slot, `noMore`. Every pin can find no frame. `atOpen`, `seen` and `past` are
ghosts: the records at the start, those given since, and the worst that was done
to the file since. A pointer to a page that was freed under the scan, or a
page that is no longer the file's, sets `undefined`.

**BufMgr.** The draft does not compile; the header of the module lists how it
is read (which names are one variable, where a brace is missing). What it does
is then as written: `PinPage` tests for an empty page twice, so that a page that is
not in the pool cannot be pinned with its contents; `lru_queue` is only ever added to,
and writing past its end is `undefined`; `PickVictim` takes the last unpinned frame and writes
the dirty pages it passes on the way. `WritePage`, `DeallocatePage` and
`AllocatePage` are the database's: external, they fail as they like. The replacer does
not look at what `WritePage` answers, so a page whose write fails as it is evicted is gone.
`held` (what callers have pinned), `unsaved` (what is not on disk) and `lost` (of
that, what such a failed write lost) are ghosts.

**Joins.** A relation is the sequence of its join attributes. One action is one
iteration of a loop or one exit. Every call of the library can fail; where the code
ignores the status it goes on with what the buffer held: `strays` are the records
that came into the result that way, or from the part of a block that was never
read. The index join does not ask whether the B+-tree's constructor or `OpenScan`
failed, and what it does with the tree or scan it then has is `undefined`. Sizes of records and block are constants, so that a block is not a whole
number of records.

**CoverDB.** Attributes are numbers, a position in the variable order is the
code's `num`. A node of the factorised database is its position and the values
above it. `encode` and `CDB` survive a query, as in the code. `R.csv`, the file
`StandardDB` reads, is the join of the cover's projections, which is what a
cover is. `sort` with `pos1 = 'A'` compares what lies behind the tuples; the
model enters the tuples in any order. Strings and their lexicographic comparison
are abstracted to numbers and an order on them.

## Runs

All runs take TLC at most four minutes with two workers.

| run | instance | what it shows |
|---|---|---|
| `space_map` | 7 pages, map pages of 2 bytes of 2 bits, runs of -1 to 4 pages, an empty or an older file; 188,000 states | pages in use stay marked also when a call is cut short; `DB_FULL` is true; first fit; `set_bits` writes its run; nothing stays pinned; `PageAllocator` is implemented; every call returns |
| `directory` | 3 names and one too long, a chain of up to 3 pages with one entry each, of the two that can be linked one blank and one stale, one refused pin; 182,000 states | the initialised pages are one chain; nothing left pinned; while one process runs entries leave only when deleted; `NameTable` is implemented until `trouble`, on a ring too; every call returns but a walk for what is not there on a ring |
| `heap_page` | 12 shorts, records of 0, 1, 3, 4 shorts, 3 insertions, all stale values of -1 and 0; 78,000 states | records lie in a row; deletions and insertions leave the bytes of the others alone, but for those under `slots[2]`, and these are the slot of the newest record; a slot's room is never given away |
| `heap_file` | 5 pages, 2 frames, 2 entries to a directory page, 2 records to a data page, 7 calls, one page taken or freed by others; 499,000 states | the chain is whole; directory and data pages agree until a page is freed; calls that succeed leave no pin; a directory page never runs empty |
| `heap_file_dangling` | 4 pages, 5 frames | an entry names a page that was freed (finding) |
| `scan` | 5 pages, 3 frames, 2 entries to a directory page, stale pages with two records or none, 5 calls that change the file; 315,000 states | the pins are the scan's two; its position is its page's; until a page is freed nothing that stays is skipped, and nothing is given twice |
| `scan_skips` | 4 data pages of one record on one directory page, 6 calls | a page is stepped over when one before it is freed (finding) |
| `buf_mgr` | a pool of 2 by 2, 5 pages, 4 pins at a time, no bound on calls, one lost page at a time; symmetry in the pages; 486,000 states | pins are counted and no pinned page leaves; a change that is not on disk is in a dirty frame, or is one of those `lost`; a flush of all pages leaves none |
| `joins` | 3 records in each relation, every reference and order, a block of 2 records and a half, one failed call; 385,000 states | `JoinResult` is implemented: what is found belongs there and all is found unless a call failed; each algorithm's order, nothing twice; every join returns |
| `join_stale` | the same | bytes that were never read are joined (finding) |
| `cover_db` | the decomposition and the four queries of the code, covers of up to 3 of 5 tuples, 2 queries one after the other; 23,000 states | the order keeps a relation on one branch; the factorised database lies between the cover and R; counts and sums are those of what it stands for; `StandardDB` sums every group |
| `cover_db_count` | the same | SUM(1) is less than the size of R (finding) |

Why the bounds are enough. A run of the space map can cross a byte and a map page,
start in the middle of each, end at the last page, and leave no room; the
second map page is only partly used. Three header pages have a first, a middle and
a last one, and fill; one refused pin can hit every pin of a call, and leave a blank page or a stale one. Twelve shorts do
not take three records of the larger sizes, and put the first record under `slots[2]`. A
heap file of five pages fills data pages, directory pages and the database,
and two frames are used up by pins left behind. A scan needs two frames, the file
one more; its file has two directory pages, so that the scan crosses from one to
the other, and the calls are enough to fill a page before and behind it. Four frames
are the least with two rows and two columns, five pages one more than fit; `MaxLost`, the pages that are lost at once, is 1, and the
page lost can be another after it was written. Three records
in a block of two make a block that is full and one that is not, with half a
record behind it. Two queries are what it takes for one to leave something to the
next. The larger constants of two runs are what their findings need.

**Fairness.** `space_map` and `directory` check liveness under weak fairness of
`Step`, the steps of a call that is running, and `joins` under weak fairness of
`Steps`, which are one function's: the code is sequential, and a call
that was made goes on. Nothing is assumed of callers, and no pin or library call has
to succeed. `EveryCallReturns` of the directory has one exception, the walk on a ring,
and `EveryCallEnds` (below) shows that it is needed. In `directory` and `joins` the refusals are bounded (`MaxRefusals`,
`MaxFailures`); in `space_map` they are not.

**Deadlock.** It is checked in every run but `space_map`: a database whose constructor
failed is used no further, and the system stops. The other modules with a bound on
calls, or with an `undefined` outcome, have an explicit stuttering step for it (`Stop`,
`Stopped`).

## Proofs

`tlapm` checks 18,725 obligations. Everything is proved for every value of the
constants that satisfies the module's assumptions.

**SpaceMap_proofs**, from `SpaceMapAssumption`: sizes are positive, `unsigned`
holds twice the number of pages, and the map leaves a page over (with 8 *
`MAX_SPACE` bits to a page it always does). Proved: `TypeCorrect`, `FreshGrants`,
`HeldPagesSafe`, `WritesStayInMap`, `ExactWrites`, `FirstFitHolds`, `FullIsTrue`,
`PinsReturned`, `CallsAreFinite`, and `Refinement`, that the space map implements `PageAllocator`.
`WritesStayInMap` speaks of empty runs too: an empty run makes no mask with a bit, so that the loop at page 0 pins
pages behind the map and writes their bytes back as they are. The inductive
invariant is `IInv = TypeOK /\ ScanInv /\ SetBitsInv /\ OwnerInv`. None of
the properties but `NothingLeftPinned` is inductive: that a granted run is free depends on what the scan knows
(`ScanInv`: the run being counted, `curStart .. curStart+curLen-1`, has no marked
bit, no run that starts before it is long enough, and the run ends where the scan
is); that `set_bits` writes its run depends on where its counters are
(`SetBitsInv`: the bits written so far are a prefix of the run and the next byte's
mask begins where they end); and that pages in use stay marked depends on the run
being freed having an owner (`OwnerInv`). The lemmas before the invariant are about division, about
masks that stay in their byte, and about the last byte of a run in a page.
`CallsAreFinite` counts what a call has before it, pages, bytes and bits (`StepsLeft`), a natural number
that each step lowers. It holds for an empty run at page 0 too, whose loop over map pages ends only at
the first page outside the database: `MapPagesLeft` is what bounds it.

**FileDirectory_proofs**, from `DirectoryAssumption`: `TypeCorrect`, `ChainIsOne`,
`PinsReturned`, `EntriesStay`, `CallsAreFinite`, and `Refinement`, that the walks implement
`NameTable`, for any set of names and any number of header pages, entries,
refusals and reopenings, and whatever the file has on a page that was not initialised. The invariant is `IInv = ChainInv /\ CallInv /\ TableInv`. A walk
holds one header page (`WalkInv`); to know that a name is in no entry when the walk
has reached the end, the invariant keeps what it has learnt so far: the pages it has
left hold no live entry of the name (`Visited`), and once `AddFileEntry` looks for a free
entry the name is in no page at all (`NameFree`). From that the step that writes or
clears an entry is seen to be the table's step. Both are claimed only outside `Trouble` (a lookup that failed was taken for a "no", or a page of the chain is lost or
stale), which never goes away again (`TroubleStays`). A blank page is no trouble: a walk reads no entry there. `OneChain` is
of the pages that were initialised; a page that was not is the last, whatever its link. The walks have no
other end than that of the chain or what they look for, so
`CallsAreFinite` counts the pages ahead of the walk up to one it stops at (`Ahead`, those in every set that has
its page and goes on with it). They get fewer with each page (`NoWayBack`) because the initialised pages do not come back
to one: such pages would be a ring, cut off from page 0. On a ring through a blank page a walk comes to a page it stops
at, or there is none and it is `Endless`, which needs a page that was not initialised (`EndlessInRing`).
`RingHoldsTheWalk` is that the exception is needed: an endless walk stays one until a pin is refused.

**HeapPage_proofs**, from `PageAssumption`: `TypeCorrect`, `RowOfRecords`,
`RecordsKept`, `HonestRefusals`, for a page of any size, any lengths and
any stale contents. The inductive invariant adds `RecordsBelowFill` (no record ends
behind `fillPtr`): without it a new record, which is copied to `fillPtr`, could
fall on an old one. The proof that memory keeps the records turns on addresses:
deletions write below `slots[2]`, insertions from `fillPtr` on and to `slots[2]`. The bytes under
`slots[2]` are no record's to keep: `BytesStay` says what is there instead, the slot of the newest record.

**HeapFile_proofs**, from `HeapFileAssumption` (two frames, a page with room for two
slots, `MAX_SPACE` larger than a page's data): `TypeCorrect`, `PinsReturned`,
`StayFilled` and, for a file that one object has open (`OneHandle`), `ChainWhole`. The
inductive invariant is `IInv = Types /\ Rooms /\ CallInv /\ DirInv`. What is
not seen in the properties: while `InsertRecord` makes a page every page of the
chain is a directory page, and no page outside the chain has entries (`DirInv`); otherwise the
free page that `NewPage` is given could be one of the chain, and get emptied. `Rooms`
keeps a slot's room on every data page, which makes the space an entry records a
natural number. `WholeInv` adds that `lastDirPid` is the last of the chain, and for
`DeleteFile`, which frees the chain from the front, that the directory pages are
those from its place on. With two objects `WholeInv` is false, as the table below
says. `StayFilled` comes from what `DeletePage` takes for "not found".

With `OneHandle` also `EntriesTrue`, the first half of
`DirectoryAgrees` (`EntriesAgree`). Its invariant adds `Agreement` to `IInv`: `lastDirPid` is the end of the chain
whatever has failed (`Ends`); the record that `InsertRecord` is about to write goes into a page
that the directory page it holds has an entry of (`Holds`); every data page has an
entry, or is still before `DeleteFile` (`Placed`, which freeing pages does not break); and
until a page is freed the entries are those of distinct data pages, with the space they have
(`Agreed`, which it does). Without `Holds` the entry that `Put` brings up to date could be
another page's.

`RecordsCounted` states all of `DirectoryAgrees`: until a page is freed, the numbers that the
directory records add up to the insertions and deletions that were carried out. The sum is a
function of the chain and of the entries alone (`Count`, `CountIs`), and a step changes it in one
term at most (`CountChanged`): a new entry begins with 0 (`AddedCount`), one entry takes a new number
(`RecordedCount`), a new directory page has no entry (`EmptyCount`), and any other step
leaves chain and entries as they are (`SameCount`). The step that `InsertRecord` ends with
needs `Agreement` again: the entry it counts up must be the one of the page it wrote.

The scans, from the same assumption: `ScanPinsReturned` (`PinsAreTheScans`) and `CursorTrue`
(`CursorAgrees`), for any calls of the file between the scan's. What a step of the file may
do under a scan is said by three definitions: the chain and its entries grow and keep their
numbers until a page is freed (`Grown`), a page that is pinned keeps its entry even then
(`PinnedStay`, because `DeleteRecord` frees only a page no one has pinned), and no
directory page comes to name itself (`NoneItself`, or the scan's two pins could be on
one page). For the pins the invariant is `ScanInv`: the scan's fields fit one
another (`Fields`) and, until a call has failed, the pins are the scan's two, on pages that are
still the file's, and those of the running call (`Live`); after a failure nothing is claimed any more,
which rests on `failed` staying TRUE. `DeleteFile` frees a page that is
pinned once, and takes the pins with it (`Dying`, `Dead`). For the cursor it is `CInv`, which needs no `Live`:
`CursorTrue` holds after failures, too.

With `OneHandle` also `NoneSkipped` (`NothingSkipped`) and `NoneTwice` (`NoRecordTwice`). The
invariant is `GInv`: of the chain only the last page can be without entries (`Filled`, or a scan
that finds none would stop early), and of a scan under which no data page was freed, that every
record of the start which is still there and lies before the cursor was given (`Complete`, all but the
one that a failed call had copied), and that what was given lies before the cursor (`Behindhands`). It is
inductive because pages and entries are only added at the end while nothing is freed, so that what
lies before the cursor stays so, and because the slots a scan finds on a data page only get fewer
(`DataStays`: an insertion writes the slot the page had from its frame).

**BufMgr_proofs**, from `BufMgrAssumption` and `NumberingAgrees`: `TypeCorrect`,
`PinsCounted`, `WritesKept`, `FlushedIsEmpty`, for a pool of any size, without the bound
on pins mattering. The invariant's main part is `Counted` (the pin count of a page's frame is what callers
hold, and a held page has a frame); `NumberingAgrees` is what makes `FrameAt(FindFrame(p))`
the frame of `p` (a lemma), and so every call work on the frame it looked for.
`WritesKept` places every change that is not on disk: in a dirty frame, or in `lost`, and nothing gets into `lost`
but by a write that fails as its page is evicted. `FlushedSoFar`, that the frames before the loop's place are empty, carries `FlushAllPages`.

**Joins_proofs**, from `JoinsAssumption` and `BlockHoldsARecord`: `TypeCorrect`, `OrderKept`
(`ResultInOrder`), `JoinsAreFinite` and `Refinement`, that each of the four functions implements `JoinResult`, for
relations of any size, a block of any length that holds a record, and any number of failed calls. The
invariant says of every pair of the join whether the loops have come past it (`Dealt`), and that it is in the
result if they have and no call has failed (`Complete`); of the buffer, that its piece `i` is the record after
the first `Base + i - 1` of R, or none (`Rows`); and that the block join's blocks begin at multiples of `NumRecord` (`Blocks`), without
which the order by blocks would not follow. `OrderInv` adds that what was found comes before all
that is still to come (`Reached`). Two lemmas stand for inductions: that a finite set
can be listed by its keys (`CanBeListed`, from a smallest set that cannot) and that `RandomPermutate` yields
permutations (`ShufflesArePermutations`, from the last place where it would not); the second is why no two records of S
have one attribute, so that the index finds one record at most and sorts strictly. `JoinsAreFinite` sets
aside a `Turn`, more than a scan of S takes, for each record of R that is to be read and one for its
end; a block join goes on for ever where a block holds no record, which `BlockHoldsARecord` excludes.

**CoverDB_proofs**, from `CoverAssumption` (the values are a finite set of integers, the tuples are
made of them). The seven theorems need different things of the program, which their hypotheses say:

- `ValidOrderSuffices` (`BetweenCoverAndR`) nothing more. For any decomposition into relations, any cover
  and any number of queries: over a variable order that has each attribute once (`Places`) and each relation on
  one way down (`OneWay`), the database stands for all tuples entered and for tuples of R
  only. The invariant is `EnteringInv`: while tuples are entered the database has just the nodes of
  those entered (`NodesInv`). A tuple that the database stands for agrees with one that
  was entered on each way down, so on each relation, and that makes it a tuple of the join.
- `OrderValid` (`OrderIsValid`) and `BetweenHolds` (`BetweenCoverAndR`) take `Schema`: `numNode`, the
  attributes and the six attributes' decomposition as they stand in the code. For another decomposition
  the search for a place fails. `OrderInv` says where each attribute is after each round of
  `InsertAttributes` (`Shape`, with the places `AtA`), which the search is shown to find from the
  attributes before it, whatever `encode` still holds of an earlier query.
- `BenchmarkTyped` (`TypeOK`) takes also that the queries are those of `Benchmark`, because of types 2
  and 3, which begin with an attribute of the query: `KnownInv` has the shapes of all
  four types, and `Settled` what `encode` can hold between queries.
- `StandardIsRight` (`EveryGroupSummed`) takes `SumsOfF` instead of a schema: that the queries that
  group sum F, which is what the code adds up, whatever the query says. The sorted rows are every row once,
  in order (`InOrder`); after each row the groups passed are summed and the last one is summed so far
  (`GroupsOf`), which needs that a group's rows lie together.
- `CountHolds` (`CountIsExact`) and `GroupsHold` (`GroupsAreExact`), the first with `Schema`, the second with
  `Benchmark` as well. Over the program's order (`Arranged`) the nodes below a node are those of the values
  that the entered tuples have there (`As`, `Bs`, ..., `Fs`), and the database stands for the tuples that
  hang on them (`Hangs`). `Count` adds and multiplies; that it counts comes from a bijection at each level:
  what is below a node of B is a C and a D (`BranchB`), what is below an E is an F (`BranchE`), a tuple is a value of A
  with one of each branch (`Whole`). `GroupByType4` adds for each pair of a C and a D below one B the sum of
  F below their A (`PairFibre`), and a group is made of such pairs. Both hold after every tuple that is entered, not
  only when all are. In `Type4Inv`, a query of type 4 is the one that groups by C and D: `GroupByType4` has them
  wired in.

Nothing bounds the cover, the values or the number of queries.

`Indices` holds what these proofs share: the least and greatest elements of sets of numbers,
which is how an operator that takes the first or the last of something is
understood without induction; induction over numbers, measures and finite sets, for a set of those that
satisfy what is to be shown instead of a predicate (`SetInduction`, `SubsetInduction`, `MeasureInduction`); that a
recursive equation whose right side looks only at arguments of a smaller measure has a solution
(`RecursionExists`), so that the functions of the model are what their definitions say; and the
sums of `FiniteSetsExt`, which choose an order to add in: they are the same in every order
(`SumsExist`, `SumWithout`), may be formed group by group (`TotalFibred`) or along a bijection
(`TotalRenamed`), and counting is such a sum (`CountFibred`).

**Only model-checked.** Every invariant and action property of the runs is stated by a theorem, and so are the
refinements. What is left to TLC is liveness: `EveryCallReturns` of the space map and the file directory and `EveryJoinReturns`.
Of these the theorems have the safety half, that a call makes finitely many steps (`CallsAreFinite`, `JoinsAreFinite`);
the other half, that a call which has not ended has a step to make and makes it, needs ENABLED and fairness, which are
out of the prover's reach. Of the directory's, `EndlessInRing` and `RingHoldsTheWalk`
are the exception's. The four properties that runs
refute are false, and need no proof.

## Where code and comments disagree

Four disagreements have a run of their own (`findings` in `PROJECT.json`). Others are
stated as properties in the modules without one; TLC refutes each in the
given configuration when it is added to it.

| property | code | the comment | configuration |
|---|---|---|---|
| `SpaceMap!NewDatabaseIsEmpty` | `db.cpp:61` opens without `O_TRUNC`, so an older map stays | `db.cpp:69` "filled with zeroes" | `MCSpaceMap.cfg` |
| `HeapPage!StoredAsGiven` | `heappage.cpp:71` writes a slot over the first record | `heappage.cpp:55` "Insert a record into the page" | `MCHeapPage.cfg` |
| `HeapPage!FirstIsARecord` | `heappage.cpp:119` finds a stale slot | `heappage.cpp:111` "find the first record on a page" | `MCHeapPage.cfg` |
| `HeapFile!InsertedMeansStored` | `heapfile.cpp:297` ignores the page's answer | `heapfile.cpp:239` "inserted into a page with enough space" | `MCHeapFile.cfg`, 22 in `Lengths` |
| `HeapFile!DeletedMeansDeleted` | `heapfile.cpp:382` ignores the page's answer | `heapfile.cpp:341` "OK if the record is deleted" | `MCHeapFile.cfg` |
| `HeapFile!ReadMeansFound` | `heapfile.cpp:324` ignores the page's answer | `heapfile.cpp:315` "OK if record is found" | `MCHeapFile.cfg` |
| `HeapFile!UpdateLeavesNoPin` | `heapfile.cpp:488` returns with the data page pinned | `heapfile.cpp:149` "No pages are pinned" | `MCHeapFile.cfg` |
| `HeapFile!NewPageOnlyIfTooSmall` | `heapfile.cpp:268` `>` where the page takes `<=` | `heapfile.cpp:239` "if such page is not found" | `MCHeapFile.cfg` |
| `FileDirectory!FilesSurvive` | `db.cpp:661` keeps the entries in memory of the process, a header page has the pointer | `db.h:122` "where the DB keeps track of the files" | `MCFileDirectory.cfg` |
| `FileDirectory!EveryCallEnds` | `db.cpp:377` links the page before the pin at 385, which can be refused: a blank page leads back to page 0 | `db.cpp:519` "Entry not found - don't post error, just fail" | `MCFileDirectory.cfg` |
| `FileDirectory!UniqueNames` | `db.cpp:328` goes on after a lookup that failed | `db.cpp:326` "does the file already exist?" | `MCFileDirectory.cfg` |
| `HeapPage!RidIsFound` | `heappage.cpp:165` refuses slot 2, which `InsertRecord` gives | `heappage.cpp:158` "retrieve a _copy_ of a record with ID rid" | `MCHeapPage.cfg` |
| `HeapPage!EmptyMeansNone` | `heappage.cpp:101` counts down for a slot that was never filled | `heappage.cpp:225` "if there is any record in the page" | `MCHeapPage.cfg` |
| `HeapFile!DirPagesAreLinked` | `heapfile.cpp:562` links behind a copy of the last page | `heapfile.cpp:553` "Insert at the end of the dirPage list" | `MCHeapFile.cfg`, two `Handles`, `DirSlots` 1 |
| `Scan!MovedMeansThere` | `scan.cpp:146` takes the page it last looked for as pinned | `scan.cpp:141` "move to that record" | `MCScan.cfg` |
| `BufMgr!DestroyedMeansSaved` | the destructor flushes the first page of the row | `bufmgr.cpp:45` "flush all dirty pages to disk" | `MCBufMgr.cfg` |
| `BufMgr!VictimsAreWritten` | `replacer.cpp:34` does not look at what `WritePage` answers | `replacer.h:7` "you need to write the page back to the disk" | `MCBufMgr.cfg` |
| `BufMgr!PinnedIfRoom` | `bufmgr.cpp:107` repeats the test for an empty page | `bufmgr.cpp:68` "at least one frame available" | `MCBufMgr.cfg` |
| `Joins!NothingLeftOpen` | `blockjoin.cpp` deletes neither of its scans | `blockjoin.cpp:24` "This includes any Scan" | `MCJoins.cfg` |
| `CoverDB!GroupsOfOneRelation` | `CoverDB.cpp:779` `nums` is never cleared | `CoverDB.cpp:767` "Compute the result for type 3" | `MCCoverDB.cfg` |

## Not modelled

Page I/O and `dump_space_map` (I/O and printing); `page.cpp` (casts); the random
attributes of the test relations that no join reads; `sortmerge.cpp`, which holds no code;
CoverDB's measuring of memory and printing of results; test drivers, which are read
for what they expect. `HeapFile` takes the page's count after `Init` from
`StaleCounts` (0 in its runs, a frame of zeroes): what other frames do to a page
is in `HeapPage`. `HeapFile` leaves out the file's name and its entry in the file
directory; `FileDirectory` is the model of that. `BufMgr` is not composed with the
layers above: those link the binary library, and the draft cannot pin a page
with its contents.

Of the lines of C and C++ in the repository the larger part is not the program's:
three almost equal copies of 43 headers each, most of them for a library that comes
without source (`query.h`, `catalog.h`, `btree` and lists), the compiler
identification files of CMake, and test drivers. The files with code of the
program's own (`spacemgr`, `bufmgr` without its test, `joins`, `CoverDB.cpp`) have about
5,000 lines; what is left out of those is I/O, printing, timing and comments.

## What is left

CoverDB's answers to queries of types 2 and 3 have no property that holds. A query of type 2 puts the U
of `SUM(` into the order, which is no attribute: the step that enters a tuple is `undefined`, or works with
places that `encode` has from an earlier query. Type 3 keeps the numbers of the first nodes
(`GroupsOfOneRelation`, in the table). Of the relations of P3 only the attributes that are joined are modelled.
