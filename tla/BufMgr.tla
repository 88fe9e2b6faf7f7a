------------------------------- MODULE BufMgr -------------------------------
(***************************************************************************)
(* The buffer manager of the second practical (bufmgr/bufmgr.cpp) with its *)
(* frames (frame.cpp) and its replacer (replacer.cpp).                     *)
(*                                                                         *)
(* The code is a draft that does not compile.  It is read with frames,     *)
(* bufSize, numOfBuf and lru_queue as members that the constructor sets,   *)
(* pin_count and pincount as pinCount, the loop of FlushAllPages as        *)
(* FlushPage(frames[i][j].pid) == FAIL, and missing braces where the       *)
(* indentation has them.  What it does is then as written.                 *)
(*                                                                         *)
(* The pool is a grid of numOfBuf rows of bufSize frames.  `referenced' is *)
(* never turned on (the line that does is a comment) and `data' never set  *)
(* (the read of a page is unreachable), so a frame is a page number, a pin *)
(* count and a dirty bit here.  NewPage's test of FreeSpace compares the   *)
(* function and never fails.  The database is external: it allocates pages *)
(* and fails to write or free them as it likes.                            *)
(***************************************************************************)
EXTENDS Integers, FiniteSetsExt, Functions

CONSTANTS numOfBuf, bufSize,    \* the rows and columns of the pool
          Pids,                 \* the page numbers of the database
          MaxPins,              \* bound: pins held at a time
          MaxLost               \* bound: pages whose change is lost at a time

INVALID_FRAME == -1
INVALID_PAGE  == -1

ASSUME BufMgrAssumption ==
    /\ numOfBuf \in Nat \ {0} /\ bufSize \in Nat \ {0}
    /\ INVALID_PAGE \notin Pids /\ MaxPins \in Nat /\ MaxLost \in Nat

\* A frame is numbered with numOfBuf for the length of a row and found again
\* with bufSize.  The model is of the pools in which the two agree; in any
\* other the calls below work on another frame than the one FindFrame found.
ASSUME NumberingAgrees == numOfBuf \in {1, bufSize}

VARIABLES frames,       \* the pool
          tail,         \* lru_queue's next free place; `head' never moves
          held,         \* the pins callers have and have not given back
          unsaved,      \* the pages with a change that is not on disk
          lost,         \* those of them whose write failed as they were evicted
          pc, at,       \* the loop of FlushAllPages or of the destructor
          ret,          \* the status of the last call
          undefined     \* what happens from here on is not defined

pool == <<frames, tail>>
disk == <<unsaved, lost>>
vars == <<pool, disk, held, pc, at, ret, undefined>>

Grid  == (0 .. numOfBuf - 1) \X (0 .. bufSize - 1)
Empty == [pid |-> INVALID_PAGE, pinCount |-> 0, dirty |-> FALSE]

\* The definitions named Slip... are wrong versions of the definition that
\* follows them; each shows that some property notices the mistake.

Before(f, g) == f[1] < g[1] \/ (f[1] = g[1] /\ f[2] <= g[2])

\* FindFrame numbers the frames row by row, with numOfBuf for the length of a
\* row; its callers take the number apart with bufSize.
SlipShortRow(pid) == {f \in Grid : frames[f].pid = pid /\ f[2] < bufSize - 1}
Holding(pid)      == {f \in Grid : frames[f].pid = pid}

FindFrame(pid) ==
    LET H == Holding(pid)
        f == CHOOSE f \in H : \A g \in H : Before(f, g)
    IN  IF H = {} THEN INVALID_FRAME ELSE f[1] * numOfBuf + f[2]
FrameAt(n) == <<n \div bufSize, n % bufSize>>

Init ==
    /\ frames = [f \in Grid |-> Empty] /\ tail = 0
    /\ held = [p \in Pids |-> 0] /\ unsaved = {} /\ lost = {}
    /\ pc = "idle" /\ at = <<0, 0>>
    /\ ret = "OK"
    /\ undefined = FALSE

Return(status) ==
    /\ pc = "idle" /\ ~undefined
    /\ ret' = status
    /\ UNCHANGED <<pc, at>>
Defined   == UNCHANGED undefined
Undefined == undefined' = TRUE /\ UNCHANGED <<pool, disk, held>>

\* A caller has one pin more.
Pinned(pid) == /\ FoldFunction(+, 0, held) < MaxPins
               /\ held' = [held EXCEPT ![pid] = @ + 1]

-----------------------------------------------------------------------------
(* Clock::PickVictim: the last frame that is not pinned; every dirty page it *)
(* passes is written, whether the write succeeds or not.                     *)

SlipEvictable    == Grid
Evictable        == {f \in Grid : frames[f].pinCount = 0}
Victim           == CHOOSE f \in Evictable : \A g \in Evictable : Before(g, f)
Lost(failed)     == failed \cap unsaved \cap {frames[Victim].pid}
SlipWrittenPages == {}
WrittenPages     == {frames[f].pid : f \in {g \in Evictable : frames[g].dirty}}

Placed(pid) ==
    \/ Evictable = {} /\ Undefined
    \/ /\ Evictable # {} /\ Defined
       /\ \E failed \in SUBSET WrittenPages :
            /\ unsaved' = unsaved \ (WrittenPages \ failed)
            /\ lost' = (lost \cap unsaved') \cup Lost(failed)
            /\ Cardinality(lost') <= MaxLost
       /\ frames' = [frames EXCEPT ![Victim] =
                        [pid |-> pid, pinCount |-> 1, dirty |-> FALSE]]
       /\ Pinned(pid) /\ UNCHANGED tail

\* A page that is in the pool is pinned once more.
Hit(pid) ==
    LET f == FrameAt(FindFrame(pid))
    IN  /\ Defined
        /\ frames' = [frames EXCEPT ![f].pinCount = @ + 1]
        /\ Pinned(pid) /\ UNCHANGED <<tail, disk>>

-----------------------------------------------------------------------------
(* The calls *)

Resident(pid) == FindFrame(pid) # INVALID_FRAME

\* The test for a page to be read repeats the one for an empty page, so a page
\* that is not in the pool cannot be pinned with its contents.
PinPage(pid, isEmpty) ==
    \/ Return("OK") /\ Resident(pid) /\ Hit(pid)
    \/ Return("OK") /\ ~Resident(pid) /\ isEmpty /\ Placed(pid)
    \/ /\ Return("FAIL") /\ ~Resident(pid) /\ ~isEmpty
       /\ Defined /\ UNCHANGED <<pool, disk, held>>

SlipDirtyLost(old, dirty) == dirty
DirtyAfter(old, dirty)    == old \/ dirty

UnpinPage(pid, dirty) ==
    LET f == FrameAt(FindFrame(pid))
    IN  \/ Return("OK") /\ f \notin Grid /\ Undefined
        \/ /\ Return("OK") /\ f \in Grid /\ frames[f].pinCount = 1
           /\ tail = bufSize * numOfBuf /\ Undefined     \* writes past lru_queue
        \/ /\ Return("FAIL") /\ f \in Grid /\ frames[f].pinCount = 0
           /\ Defined /\ UNCHANGED <<pool, disk, held>>
        \/ /\ Return("OK") /\ f \in Grid /\ frames[f].pinCount > 0
           /\ frames[f].pinCount > 1 \/ tail < bufSize * numOfBuf
           /\ Defined
           /\ frames' = [frames EXCEPT ![f].pinCount = @ - 1,
                                       ![f].dirty = DirtyAfter(@, dirty)]
           /\ tail' = IF frames[f].pinCount = 1 THEN tail + 1 ELSE tail
           /\ held' = [held EXCEPT ![pid] = @ - 1]
           /\ unsaved' = IF dirty THEN unsaved \cup {pid} ELSE unsaved
           /\ lost' = IF dirty THEN lost \ {pid} ELSE lost

\* AllocatePage's status goes unread: when it fails, the page number is the
\* one the caller had in the variable, so that pid may be any page.  An empty
\* page is always pinned, and the call that would give the pages back never made.
NewPage(pid, howMany) ==
    \/ Return("FAIL") /\ howMany <= 0 /\ Defined /\ UNCHANGED <<pool, disk, held>>
    \/ /\ Return("OK") /\ howMany > 0
       /\ \/ Resident(pid) /\ Hit(pid)
          \/ ~Resident(pid) /\ Placed(pid)

SlipPinnedTwice == 2
FreeLimit       == 1

FreePage(pid) ==
    LET f == FrameAt(FindFrame(pid))
    IN  \/ /\ Return("FAIL") /\ ~Resident(pid) /\ Defined
           /\ UNCHANGED <<pool, disk, held>>
        \/ /\ Return("FAIL") /\ Resident(pid) /\ Defined
           /\ UNCHANGED <<pool, disk, held>>    \* pinned twice, or DeallocatePage fails
        \/ /\ Return("OK") /\ Resident(pid) /\ frames[f].pinCount <= FreeLimit
           /\ Defined
           /\ frames' = [frames EXCEPT ![f] = Empty]
           /\ held' = [held EXCEPT ![pid] = IF @ = 0 THEN 0 ELSE @ - 1]
           /\ unsaved' = unsaved \ {frames[f].pid} /\ lost' = lost \cap unsaved'
           /\ UNCHANGED tail

-----------------------------------------------------------------------------
(* FlushPage, alone and in the loops of FlushAllPages and the destructor *)

SlipFlushed(f) == unsaved
Flushed(f)     == IF frames[f].dirty THEN unsaved \ {frames[f].pid} ELSE unsaved

Flush(pid, status) ==
    LET f == FrameAt(FindFrame(pid))
    IN  \/ /\ ~Resident(pid) /\ status = "FAIL" /\ Defined
           /\ UNCHANGED <<pool, disk, held>>
        \/ /\ Resident(pid) /\ status = "FAIL" /\ Defined
           /\ frames[f].pinCount > 0 \/ frames[f].dirty     \* pinned, or WritePage fails
           /\ UNCHANGED <<pool, disk, held>>
        \/ /\ Resident(pid) /\ frames[f].pinCount = 0
           /\ status = "OK" /\ Defined
           /\ unsaved' = Flushed(f) /\ lost' = lost \cap unsaved'
           /\ frames' = [frames EXCEPT ![f] = Empty]
           /\ UNCHANGED <<tail, held>>

FlushPage(pid) ==
    \E status \in {"OK", "FAIL"} : Return(status) /\ Flush(pid, status)

\* Both loops visit the frames row by row.
Start(loop) ==
    /\ pc = "idle" /\ ~undefined
    /\ pc' = loop /\ at' = <<0, 0>>
    /\ ret' = "OK" /\ UNCHANGED <<pool, disk, held, undefined>>
FlushAllPages == Start("flush")
Destroy       == Start("destroy")

AtLast == at = <<numOfBuf - 1, bufSize - 1>>
Advance(done) ==
    IF AtLast THEN pc' = done /\ at' = <<0, 0>>
    ELSE /\ at' = IF at[2] = bufSize - 1 THEN <<at[1] + 1, 0>> ELSE <<at[1], at[2] + 1>>
         /\ UNCHANGED pc

\* FlushAllPages stops at the first page that it cannot flush.
FlushNext ==
    /\ pc = "flush" /\ ~undefined
    /\ \/ /\ Flush(frames[at].pid, "OK") /\ Advance("idle")
          /\ IF AtLast THEN ret' = "OK" ELSE UNCHANGED ret
       \/ /\ Flush(frames[at].pid, "FAIL") /\ pc' = "idle" /\ at' = <<0, 0>>
          /\ ret' = "FAIL"

\* The destructor asks each frame whether it is dirty, and flushes the page of
\* the first frame of the row.
DestroyNext ==
    /\ pc = "destroy" /\ ~undefined /\ UNCHANGED ret /\ Advance("down")
    /\ IF frames[at].dirty
       THEN \E status \in {"OK", "FAIL"} : Flush(frames[<<at[1], 0>>].pid, status)
       ELSE Defined /\ UNCHANGED <<pool, disk, held>>

\* The pool is gone, or nothing is defined any more.
Stop == undefined \/ pc = "down"

Next ==
    \/ \E p \in Pids : \/ \E b \in BOOLEAN : PinPage(p, b) \/ UnpinPage(p, b)
                       \/ \E n \in {0, 1} : NewPage(p, n)
                       \/ FreePage(p) \/ FlushPage(p)
    \/ FlushAllPages \/ Destroy \/ FlushNext \/ DestroyNext
    \/ Stop /\ UNCHANGED vars

Spec == Init /\ [][Next]_vars

-----------------------------------------------------------------------------
(* Properties *)

\* The types; no page is in two frames.
TypeOK ==
    /\ frames \in [Grid -> [pid : Pids \cup {INVALID_PAGE}, pinCount : Nat, dirty : BOOLEAN]]
    /\ \A f, g \in Grid : frames[f].pid = frames[g].pid /\ frames[f].pid # INVALID_PAGE
                             => f = g
    /\ tail \in 0 .. bufSize * numOfBuf /\ at \in Grid
    /\ held \in [Pids -> Nat]
    /\ unsaved \subseteq Pids /\ lost \subseteq unsaved

PinsOf(p) == IF \E f \in Grid : frames[f].pid = p
             THEN frames[CHOOSE f \in Grid : frames[f].pid = p].pinCount ELSE 0

GetNumOfUnpinnedFrames == Cardinality(Evictable)

\* The pin count of a page is the number of pins its callers hold, whatever is
\* evicted, flushed or freed in between: a page that a caller holds stays, and
\* the frames that are said to be unpinned are the ones nobody holds.
PinsAreCounted ==
    ~undefined => /\ \A p \in Pids : PinsOf(p) = held[p]
                  /\ GetNumOfUnpinnedFrames
                        = numOfBuf * bufSize - Cardinality({p \in Pids : held[p] > 0})

\* A change that is not on disk is in the pool, in a frame that is dirty, or
\* else the write of its page failed as the page was evicted: no page is
\* evicted, flushed or pinned again by a path that forgets the change.
NoWriteLost ==
    ~undefined => \A p \in unsaved \ lost :
                     \E f \in Grid : frames[f].pid = p /\ frames[f].dirty

\* bufmgr.cpp:352: a FlushAllPages that succeeds leaves every frame empty, and
\* nothing unwritten but what had left the pool before.
FlushedMeansEmpty ==
    [][pc = "flush" /\ pc' = "idle" /\ ret' = "OK" /\ ~undefined'
          => /\ \A f \in Grid : frames'[f] = Empty
             /\ unsaved' \subseteq lost']_vars

(* What the comments say, and the draft does not do *)

\* bufmgr.cpp:45, of the destructor: "flush all dirty pages to disk".
DestroyedMeansSaved == pc = "down" /\ ~undefined => unsaved \subseteq lost

\* replacer.h:7: "when a page in a frame is replaced, you need to write the page
\* back to the disk if the page has been modified."
VictimsAreWritten == ~undefined => lost = {}

\* bufmgr.cpp:68: "Either the page is already in the buffer, or there is at
\* least one frame available in the buffer pool for the page."
PinnedIfRoom ==
    [][\A p \in Pids : PinPage(p, FALSE) /\ ret' = "FAIL" => Evictable = {}]_vars

=============================================================================
