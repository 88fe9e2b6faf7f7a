--------------------------- MODULE BufMgr_proofs ---------------------------
(***************************************************************************)
(* Proofs about BufMgr, for every pool in which the two ways of numbering  *)
(* frames agree, with any number of pages and pins.                        *)
(***************************************************************************)
EXTENDS BufMgr, Indices, FiniteSetTheorems, TLAPS

-----------------------------------------------------------------------------
(* The inductive invariant *)

\* A frame without a page is as the constructor made it.
NoPageIsEmpty == \A f \in Grid : frames[f].pid = INVALID_PAGE => frames[f] = Empty

\* The pin count of the frame of a page is what callers hold of the page, and
\* a page that is held has a frame.
Counted ==
    /\ \A f \in Grid : frames[f].pid # INVALID_PAGE =>
          frames[f].pinCount = held[frames[f].pid]
    /\ \A p \in Pids : held[p] > 0 => \E f \in Grid : frames[f].pid = p

\* NoWriteLost, also of a state in which something undefined has happened.
Saved == \A p \in unsaved \ lost : \E f \in Grid : frames[f].pid = p /\ frames[f].dirty

\* FlushAllPages has emptied the frames before `at'.
FlushedSoFar ==
    pc = "flush" => \A f \in Grid : Before(f, at) /\ f # at => frames[f] = Empty

Frame == [pid : Pids \cup {INVALID_PAGE}, pinCount : Nat, dirty : BOOLEAN]

\* What holds of the pool between and in the calls.
PoolInv ==
    /\ frames \in [Grid -> Frame]
    /\ \A f, g \in Grid : frames[f].pid = frames[g].pid /\ frames[f].pid # INVALID_PAGE
                             => f = g
    /\ tail \in 0 .. bufSize * numOfBuf
    /\ held \in [Pids -> Nat] /\ unsaved \subseteq Pids /\ lost \subseteq unsaved
    /\ NoPageIsEmpty /\ Counted /\ Saved

IInv == PoolInv /\ at \in Grid /\ FlushedSoFar

-----------------------------------------------------------------------------
(* Least and greatest frames *)

LEMMA FirstFrame ==
    ASSUME NEW S \in SUBSET Grid, S # {}
    PROVE  \E f \in S : \A g \in S : Before(f, g)
<1> DEFINE Rows == {f[1] : f \in S}
<1>1. Rows \in SUBSET Nat /\ Rows # {}
      BY BufMgrAssumption DEF Grid
<1>2. PICK r \in Rows : \A q \in Rows : r <= q
      BY <1>1, LeastNumber
<1> DEFINE Cols == {f[2] : f \in {g \in S : g[1] = r}}
<1>3. Cols \in SUBSET Nat /\ Cols # {}
      BY <1>2, BufMgrAssumption DEF Grid
<1>4. PICK c \in Cols : \A d \in Cols : c <= d
      BY <1>3, LeastNumber
<1>5. PICK f \in S : f[1] = r /\ f[2] = c
      BY <1>4
<1>6. ASSUME NEW g \in S PROVE Before(f, g)
  <2>1. /\ r <= g[1]
        /\ g[1] = r => c <= g[2]
        BY <1>2, <1>4
  <2>2. g[1] \in Int /\ g[2] \in Int /\ r \in Int /\ c \in Int
        BY <1>1, <1>2, <1>3, <1>4, BufMgrAssumption DEF Grid
  <2> QED BY <2>1, <2>2, <1>5 DEF Before
<1> QED BY <1>5, <1>6

LEMMA LastFrame ==
    ASSUME NEW S \in SUBSET Grid, S # {}
    PROVE  \E f \in S : \A g \in S : Before(g, f)
<1> DEFINE Rows == {f[1] : f \in S}
<1>1. /\ Rows \in SUBSET (0 .. numOfBuf - 1) /\ Rows # {}
      /\ numOfBuf - 1 \in Nat /\ bufSize - 1 \in Nat
      BY BufMgrAssumption DEF Grid
<1>2. PICK r \in Rows : \A q \in Rows : q <= r
      BY <1>1, GreatestNumber
<1> DEFINE Cols == {f[2] : f \in {g \in S : g[1] = r}}
<1>3. Cols \in SUBSET (0 .. bufSize - 1) /\ Cols # {}
      BY <1>2, BufMgrAssumption DEF Grid
<1>4. PICK c \in Cols : \A d \in Cols : d <= c
      BY <1>1, <1>3, GreatestNumber
<1>5. PICK f \in S : f[1] = r /\ f[2] = c
      BY <1>4
<1>6. ASSUME NEW g \in S PROVE Before(g, f)
  <2>1. /\ g[1] <= r
        /\ g[1] = r => g[2] <= c
        BY <1>2, <1>4
  <2>2. g[1] \in Int /\ g[2] \in Int /\ r \in Int /\ c \in Int
        BY <1>1, <1>2, <1>3, <1>4, BufMgrAssumption DEF Grid
  <2> QED BY <2>1, <2>2, <1>5 DEF Before
<1> QED BY <1>5, <1>6

-----------------------------------------------------------------------------
(* The numbers of frames *)

LEMMA RowColumn ==
    ASSUME NEW r \in Nat, NEW c \in Nat, NEW b \in Nat, c < b
    PROVE  (r * b + c) \div b = r /\ (r * b + c) % b = c
<1> DEFINE a == r * b + c
           q == a \div b
<1>1. a \in Nat /\ r * b \in Nat /\ a = r * b + c
      OBVIOUS
<1>2. q \in Nat /\ q * b <= a /\ a < q * b + b /\ a % b = a - q * b
      BY <1>1
<1>3. q < r => q * b + b <= r * b
      BY <1>2
<1>4. r < q => r * b + b <= q * b
      BY <1>2
<1> HIDE DEF a, q
<1>5. q = r
      BY <1>1, <1>2, <1>3, <1>4
<1> QED BY <1>1, <1>2, <1>5 DEF a, q

LEMMA Numbering ==
    ASSUME NEW f \in Grid
    PROVE  FrameAt(f[1] * numOfBuf + f[2]) = f
<1>1. /\ f = <<f[1], f[2]>> /\ f[1] \in Nat /\ f[2] \in Nat
      /\ f[1] < numOfBuf /\ f[2] < bufSize /\ bufSize \in Nat
      BY BufMgrAssumption DEF Grid
<1>2. /\ (f[1] * bufSize + f[2]) \div bufSize = f[1]
      /\ (f[1] * bufSize + f[2]) % bufSize = f[2]
      BY <1>1, RowColumn
<1>3. f[1] * numOfBuf + f[2] = f[1] * bufSize + f[2]
  <2>1. CASE numOfBuf = bufSize
        BY <2>1
  <2>2. CASE numOfBuf = 1
    <3>1. f[1] = 0 BY <1>1, <2>2
    <3> QED BY <3>1, <1>1, <2>2
  <2> QED BY <2>1, <2>2, NumberingAgrees
<1> QED BY <1>1, <1>2, <1>3 DEF FrameAt

\* What FindFrame finds: a frame that holds the page, or none.
LEMMA Found ==
    ASSUME NEW p, Holding(p) # {}
    PROVE  /\ FrameAt(FindFrame(p)) \in Holding(p)
           /\ Resident(p)
<1> DEFINE first == CHOOSE f \in Holding(p) : \A g \in Holding(p) : Before(f, g)
<1>1. \E f \in Holding(p) : \A g \in Holding(p) : Before(f, g)
      BY FirstFrame DEF Holding
<1>2. first \in Holding(p)
      BY <1>1
<1>3. FindFrame(p) = first[1] * numOfBuf + first[2]
      BY DEF FindFrame
<1> HIDE DEF first
<1>4. first \in Grid /\ first[1] \in Nat /\ first[2] \in Nat /\ numOfBuf \in Nat
      BY <1>2, BufMgrAssumption DEF Holding, Grid
<1>5. FindFrame(p) \in Nat
      BY <1>3, <1>4
<1>6. FrameAt(FindFrame(p)) = first
      BY <1>3, <1>4, Numbering
<1> QED BY <1>2, <1>5, <1>6 DEF Resident, INVALID_FRAME

LEMMA NotFound ==
    ASSUME NEW p, Holding(p) = {}
    PROVE  FrameAt(FindFrame(p)) \notin Grid /\ ~Resident(p)
<1>1. FindFrame(p) = -1
      BY DEF FindFrame, INVALID_FRAME
<1>2. (-1) \div bufSize < 0
      BY BufMgrAssumption
<1> QED BY <1>1, <1>2 DEF FrameAt, Grid, Resident, INVALID_FRAME

LEMMA VictimIsEvictable == Evictable # {} => Victim \in Evictable
BY LastFrame DEF Victim, Evictable

-----------------------------------------------------------------------------
(* The pool in the calls *)

LEMMA NothingChanges ==
    ASSUME PoolInv, UNCHANGED <<pool, disk, held>> PROVE PoolInv'
BY DEF PoolInv, pool, disk, NoPageIsEmpty, Counted, Saved

\* Every call changes one frame at most: it may put a page in, take one out
\* that nobody holds, or count a pin.
LEMMA OneFrameChanges ==
    ASSUME PoolInv, NEW f \in Grid, NEW new \in Frame,
           frames' = [frames EXCEPT ![f] = new],
           new.pid = INVALID_PAGE => new = Empty,
           new.pid # INVALID_PAGE =>
              /\ \A g \in Grid \ {f} : frames[g].pid # new.pid
              /\ new.pinCount = held'[new.pid],
           held' \in [Pids -> Nat],
           \A q \in Pids \ {frames[f].pid, new.pid} : held'[q] = held[q],
           frames[f].pid \in Pids \ {new.pid} => held'[frames[f].pid] = 0,
           unsaved' \subseteq Pids, lost' \subseteq unsaved',
           \A q \in unsaved' \ lost' : \/ q = new.pid /\ new.dirty
                                       \/ q \in unsaved \ lost /\ q # frames[f].pid,
           tail' \in 0 .. bufSize * numOfBuf
    PROVE  PoolInv'
<1>1. /\ frames' \in [Grid -> Frame] /\ frames'[f] = new
      /\ \A g \in Grid \ {f} : frames'[g] = frames[g]
      /\ \A g \in Grid : frames[g] \in Frame /\ frames'[g] \in Frame
      BY DEF PoolInv
<1>2. \A g, h \in Grid : frames'[g].pid = frames'[h].pid /\ frames'[g].pid # INVALID_PAGE
                            => g = h
      BY <1>1 DEF PoolInv
<1>3. NoPageIsEmpty'
      BY <1>1 DEF PoolInv, NoPageIsEmpty
<1>4. ASSUME NEW g \in Grid, frames'[g].pid # INVALID_PAGE
      PROVE  frames'[g].pinCount = held'[frames'[g].pid]
  <2>1. CASE g = f
        BY <1>1, <1>4, <2>1
  <2>2. CASE g # f
    <3>1. frames'[g] = frames[g] /\ frames[g].pid \in Pids
          BY <1>1, <1>4, <2>2 DEF Frame
    <3>2. frames[g].pid # frames[f].pid /\ frames[g].pid # new.pid
          BY <1>4, <2>2, <3>1 DEF PoolInv
    <3> QED BY <1>4, <3>1, <3>2 DEF PoolInv, Counted
  <2> QED BY <2>1, <2>2
<1>5. ASSUME NEW p \in Pids, held'[p] > 0
      PROVE  \E g \in Grid : frames'[g].pid = p
  <2>1. CASE p = new.pid
        BY <1>1, <2>1
  <2>2. CASE p # new.pid
    <3>1. p # frames[f].pid
          BY <1>5, <2>2
    <3>2. held[p] > 0
          BY <1>5, <2>2, <3>1
    <3> QED BY <1>1, <3>1, <3>2 DEF PoolInv, Counted
  <2> QED BY <2>1, <2>2
<1>6. Saved'
      BY <1>1 DEF PoolInv, Saved
<1>7. Counted'
      BY <1>4, <1>5 DEF Counted
<1> QED BY <1>1, <1>2, <1>3, <1>6, <1>7 DEF PoolInv

\* A page of the pool is in the frame that FindFrame gives, and no other.
LEMMA ItsFrame ==
    ASSUME PoolInv, NEW p \in Pids, Resident(p)
    PROVE  /\ FrameAt(FindFrame(p)) \in Grid
           /\ frames[FrameAt(FindFrame(p))] \in Frame
           /\ frames[FrameAt(FindFrame(p))].pid = p
           /\ frames[FrameAt(FindFrame(p))].pinCount = held[p]
           /\ p # INVALID_PAGE
           /\ \A g \in Grid \ {FrameAt(FindFrame(p))} : frames[g].pid # p
           /\ p \in unsaved \ lost => frames[FrameAt(FindFrame(p))].dirty
<1>1. FrameAt(FindFrame(p)) \in Holding(p)
      BY Found, NotFound
<1>2. p # INVALID_PAGE
      BY BufMgrAssumption
<1> QED BY <1>1, <1>2 DEF Holding, PoolInv, Counted, Saved

LEMMA HitKeeps ==
    ASSUME PoolInv, NEW p \in Pids, Resident(p), Hit(p) PROVE PoolInv'
<1> DEFINE f == FrameAt(FindFrame(p))
           new == [frames[f] EXCEPT !.pinCount = @ + 1]
<1>1. /\ f \in Grid /\ frames[f] \in Frame /\ frames[f].pid = p
      /\ frames[f].pinCount = held[p] /\ p # INVALID_PAGE
      /\ \A g \in Grid \ {f} : frames[g].pid # p
      /\ p \in unsaved \ lost => frames[f].dirty
      BY ItsFrame
<1>2. /\ frames' = [frames EXCEPT ![f] = new]
      /\ held' = [held EXCEPT ![p] = @ + 1]
      /\ tail' = tail /\ unsaved' = unsaved /\ lost' = lost
      BY DEF Hit, Pinned, disk
<1> HIDE DEF f
<1>3. new \in Frame /\ new.pid = p /\ new.pinCount = held[p] + 1
      /\ new.dirty = frames[f].dirty
      BY <1>1 DEF Frame
<1>4. /\ held' \in [Pids -> Nat] /\ held'[p] = held[p] + 1
      /\ \A q \in Pids \ {p} : held'[q] = held[q]
      BY <1>2 DEF PoolInv
<1> HIDE DEF new
<1>5. unsaved' \subseteq Pids /\ lost' \subseteq unsaved' /\ tail' \in 0 .. bufSize * numOfBuf
      BY <1>2 DEF PoolInv
<1>6. \A q \in unsaved' \ lost' : \/ q = new.pid /\ new.dirty
                                  \/ q \in unsaved \ lost /\ q # frames[f].pid
      BY <1>1, <1>2, <1>3
<1>7. /\ new.pid # INVALID_PAGE /\ new.pinCount = held'[new.pid]
      /\ \A g \in Grid \ {f} : frames[g].pid # new.pid
      /\ frames[f].pid \notin Pids \ {new.pid}
      /\ \A q \in Pids \ {frames[f].pid, new.pid} : held'[q] = held[q]
      BY <1>1, <1>3, <1>4
<1> QED BY <1>1, <1>2, <1>3, <1>4, <1>5, <1>6, <1>7, OneFrameChanges

\* A victim's page has no change that is not on disk when it goes, unless its
\* write failed: then the change is lost.
LEMMA PlacedKeeps ==
    ASSUME PoolInv, NEW p \in Pids, ~Resident(p), Placed(p) PROVE PoolInv'
<1>1. CASE Evictable = {}
      BY <1>1, NothingChanges DEF Placed, Undefined
<1>2. CASE Evictable # {}
  <2> DEFINE v == Victim
             new == [pid |-> p, pinCount |-> 1, dirty |-> FALSE]
  <2>1. v \in Grid /\ frames[v].pinCount = 0 /\ v \in Evictable
        BY <1>2, VictimIsEvictable DEF Evictable
  <2>2. PICK failed \in SUBSET WrittenPages :
           /\ unsaved' = unsaved \ (WrittenPages \ failed)
           /\ lost' = (lost \cap unsaved') \cup Lost(failed)
        BY <1>2 DEF Placed
  <2>3. /\ frames' = [frames EXCEPT ![v] = new]
        /\ held' = [held EXCEPT ![p] = @ + 1] /\ tail' = tail
        BY <1>2 DEF Placed, Pinned
  <2>4. frames[v].pid \notin unsaved' \ lost'
    <3>1. SUFFICES ASSUME frames[v].pid \in unsaved \ lost,
                          frames[v].pid \in unsaved'
                   PROVE  frames[v].pid \in lost'
          BY <2>2
    <3>2. frames[v].pid # INVALID_PAGE
          BY <3>1, BufMgrAssumption DEF PoolInv
    <3>3. frames[v].dirty
          BY <2>1, <3>1, <3>2 DEF PoolInv, Saved
    <3>4. frames[v].pid \in WrittenPages
          BY <2>1, <3>3 DEF WrittenPages
    <3> QED BY <2>2, <3>1, <3>4 DEF Lost
  <2> HIDE DEF v
  <2>5. Holding(p) = {}
        BY Found
  <2>6. \A g \in Grid : frames[g].pid # p
        BY <2>5 DEF Holding
  <2>7. p # INVALID_PAGE
        BY BufMgrAssumption
  <2>8. held[p] = 0
        BY <2>6 DEF PoolInv, Counted
  <2>9. /\ held' \in [Pids -> Nat] /\ held'[p] = 1
        /\ \A q \in Pids \ {p} : held'[q] = held[q]
        BY <2>3, <2>8 DEF PoolInv
  <2>10. frames[v].pid \in Pids \ {p} => held'[frames[v].pid] = 0
        BY <2>1, <2>9, BufMgrAssumption DEF PoolInv, Counted
  <2>11. new \in Frame /\ new.pid = p /\ new.pinCount = 1
        BY DEF Frame
  <2>12. unsaved' \subseteq Pids /\ tail' \in 0 .. bufSize * numOfBuf
        BY <2>2, <2>3 DEF PoolInv
  <2>14. lost' \subseteq unsaved'
        BY <2>2 DEF PoolInv, Lost
  <2> HIDE DEF new
  <2>13. \A q \in unsaved' \ lost' : q \in unsaved \ lost /\ q # frames[v].pid
        BY <2>2, <2>4
  <2> QED BY <2>1, <2>3, <2>6, <2>7, <2>9, <2>10, <2>11, <2>12, <2>13, <2>14,
             OneFrameChanges
<1> QED BY <1>1, <1>2

LEMMA PinPageKeeps ==
    ASSUME PoolInv, NEW p \in Pids, NEW isEmpty \in BOOLEAN, PinPage(p, isEmpty)
    PROVE  PoolInv'
BY HitKeeps, PlacedKeeps, NothingChanges DEF PinPage

LEMMA NewPageKeeps ==
    ASSUME PoolInv, NEW p \in Pids, NEW n \in {0, 1}, NewPage(p, n)
    PROVE  PoolInv'
BY HitKeeps, PlacedKeeps, NothingChanges DEF NewPage

LEMMA FrameUpdated ==
    ASSUME NEW r \in Frame, NEW k \in Nat, NEW d \in BOOLEAN
    PROVE  [r EXCEPT !.pinCount = k, !.dirty = d] \in Frame
BY DEF Frame

LEMMA UnpinPageKeeps ==
    ASSUME PoolInv, NEW p \in Pids, NEW dirty \in BOOLEAN, UnpinPage(p, dirty)
    PROVE  PoolInv'
<1> DEFINE f == FrameAt(FindFrame(p))
<1>1. CASE UNCHANGED <<pool, disk, held>>
      BY <1>1, NothingChanges
<1>2. CASE ~(UNCHANGED <<pool, disk, held>>)
  <2>1. /\ f \in Grid /\ frames[f].pinCount > 0
        /\ frames[f].pinCount > 1 \/ tail < bufSize * numOfBuf
        /\ frames' = [frames EXCEPT ![f].pinCount = @ - 1,
                                    ![f].dirty = DirtyAfter(@, dirty)]
        /\ tail' = IF frames[f].pinCount = 1 THEN tail + 1 ELSE tail
        /\ held' = [held EXCEPT ![p] = @ - 1]
        /\ unsaved' = IF dirty THEN unsaved \cup {p} ELSE unsaved
        /\ lost' = IF dirty THEN lost \ {p} ELSE lost
        BY <1>2 DEF UnpinPage, Undefined
  <2>2. Resident(p)
        BY <2>1, Found, NotFound
  <2>3. /\ frames[f] \in Frame /\ frames[f].pid = p
        /\ frames[f].pinCount = held[p] /\ p # INVALID_PAGE
        /\ \A g \in Grid \ {f} : frames[g].pid # p
        /\ p \in unsaved \ lost => frames[f].dirty
        BY <2>2, ItsFrame
  <2> HIDE DEF f
  <2>4. held[p] \in Nat /\ held[p] > 0
        BY <2>1, <2>3 DEF PoolInv
  <2>5. PICK d \in BOOLEAN : /\ d = DirtyAfter(frames[f].dirty, dirty)
                             /\ frames[f].dirty => d
                             /\ dirty => d
        BY <2>3, Zenon DEF DirtyAfter
  <2> DEFINE new == [frames[f] EXCEPT !.pinCount = @ - 1, !.dirty = d]
  <2>6. frames' = [frames EXCEPT ![f] = new]
        BY <2>1, <2>5
  <2>7. new.pid = p /\ new.pinCount = held[p] - 1 /\ new.dirty = d
        BY <2>3 DEF Frame
  <2>8. new \in Frame
    <3>1. frames[f].pinCount - 1 \in Nat
          BY <2>3, <2>4
    <3> QED BY <2>3, <3>1, FrameUpdated, Zenon
  <2>9. /\ held' \in [Pids -> Nat] /\ held'[p] = held[p] - 1
        /\ \A q \in Pids \ {p} : held'[q] = held[q]
        BY <2>1, <2>4 DEF PoolInv
  <2> HIDE DEF new
  <2>10. unsaved' \subseteq Pids /\ lost' \subseteq unsaved'
        BY <2>1 DEF PoolInv
  <2>11. tail' \in 0 .. bufSize * numOfBuf
    <3> DEFINE cap == bufSize * numOfBuf
    <3>1. cap \in Int
          BY BufMgrAssumption
    <3>2. tail \in 0 .. cap /\ (frames[f].pinCount > 1 \/ tail < cap)
          /\ tail' = IF frames[f].pinCount = 1 THEN tail + 1 ELSE tail
          BY <2>1 DEF PoolInv
    <3> HIDE DEF cap
    <3>3. tail' \in 0 .. cap
          BY <3>1, <3>2
    <3> QED BY <3>3 DEF cap
  <2>12. \A q \in unsaved' \ lost' : \/ q = new.pid /\ new.dirty
                                     \/ q \in unsaved \ lost /\ q # frames[f].pid
        BY <2>1, <2>3, <2>5, <2>7
  <2>13. /\ new.pid # INVALID_PAGE /\ new.pinCount = held'[new.pid]
         /\ \A g \in Grid \ {f} : frames[g].pid # new.pid
         /\ frames[f].pid \notin Pids \ {new.pid}
         /\ \A q \in Pids \ {frames[f].pid, new.pid} : held'[q] = held[q]
        BY <2>3, <2>7, <2>9
  <2> QED BY <2>1, <2>6, <2>8, <2>9, <2>10, <2>11, <2>12, <2>13, OneFrameChanges
<1> QED BY <1>1, <1>2

\* A page that is freed may be pinned once, by the caller who frees it.
LEMMA FreePageKeeps ==
    ASSUME PoolInv, NEW p \in Pids, FreePage(p) PROVE PoolInv'
<1> DEFINE f == FrameAt(FindFrame(p))
<1>1. CASE UNCHANGED <<pool, disk, held>>
      BY <1>1, NothingChanges
<1>2. CASE ~(UNCHANGED <<pool, disk, held>>)
  <2>1. /\ Resident(p) /\ frames[f].pinCount <= 1
        /\ frames' = [frames EXCEPT ![f] = Empty]
        /\ held' = [held EXCEPT ![p] = IF @ = 0 THEN 0 ELSE @ - 1]
        /\ unsaved' = unsaved \ {frames[f].pid} /\ lost' = lost \cap unsaved' /\ tail' = tail
        BY <1>2 DEF FreePage, FreeLimit
  <2>2. /\ f \in Grid /\ frames[f].pid = p /\ frames[f].pinCount = held[p]
        BY <2>1, ItsFrame
  <2> HIDE DEF f
  <2>3. held[p] \in Nat /\ held[p] <= 1
        BY <2>1, <2>2 DEF PoolInv
  <2>4. /\ held' \in [Pids -> Nat] /\ held'[p] = 0
        /\ \A q \in Pids \ {p} : held'[q] = held[q]
        BY <2>1, <2>3 DEF PoolInv
  <2>5. Empty \in Frame /\ Empty.pid = INVALID_PAGE
        BY DEF Frame, Empty
  <2>6. unsaved' \subseteq Pids /\ lost' \subseteq unsaved' /\ tail' \in 0 .. bufSize * numOfBuf
        BY <2>1 DEF PoolInv
  <2>7. \A q \in unsaved' \ lost' : q \in unsaved \ lost /\ q # frames[f].pid
        BY <2>1
  <2>8. /\ \A q \in Pids \ {frames[f].pid, INVALID_PAGE} : held'[q] = held[q]
        /\ held'[frames[f].pid] = 0
        BY <2>2, <2>4
  <2> QED BY <2>1, <2>2, <2>4, <2>5, <2>6, <2>7, <2>8, OneFrameChanges
<1> QED BY <1>1, <1>2

\* The page of any frame can be asked for, INVALID_PAGE included: then a frame
\* without a page is found, and stays empty.
LEMMA FlushKeeps ==
    ASSUME PoolInv, NEW p \in Pids \cup {INVALID_PAGE},
           NEW status \in {"OK", "FAIL"}, Flush(p, status)
    PROVE  /\ PoolInv'
           /\ status = "OK" =>
                 /\ \A g \in Grid : frames[g] = Empty => frames'[g] = Empty
                 /\ \A g \in Grid : frames[g].pid = p => frames'[g] = Empty
<1> DEFINE f == FrameAt(FindFrame(p))
<1>1. CASE status = "FAIL"
      BY <1>1, NothingChanges DEF Flush
<1>2. CASE status = "OK"
  <2>1. /\ Resident(p) /\ frames[f].pinCount = 0
        /\ unsaved' = Flushed(f) /\ lost' = lost \cap unsaved'
        /\ frames' = [frames EXCEPT ![f] = Empty]
        /\ tail' = tail /\ held' = held
        BY <1>2 DEF Flush
  <2>2. f \in Grid /\ frames[f].pid = p
        BY <2>1, Found, NotFound DEF Holding
  <2> HIDE DEF f
  <2>3. Empty \in Frame /\ Empty.pid = INVALID_PAGE
        BY DEF Frame, Empty
  <2>4. /\ unsaved' \subseteq Pids /\ lost' \subseteq unsaved' /\ tail' \in 0 .. bufSize * numOfBuf
        /\ held' \in [Pids -> Nat]
        BY <2>1 DEF PoolInv, Flushed
  <2>5. ASSUME NEW q \in unsaved' \ lost' PROVE q \in unsaved \ lost /\ q # frames[f].pid
    <3>1. q \in unsaved \ lost /\ q \in Pids /\ q # INVALID_PAGE
          BY <2>1, <2>5, BufMgrAssumption DEF Flushed, PoolInv
    <3>2. q = frames[f].pid => frames[f].dirty
          BY <2>2, <3>1 DEF PoolInv, Saved
    <3> QED BY <2>1, <2>5, <3>1, <3>2 DEF Flushed
  <2>6. p \in Pids => held'[p] = 0
        BY <2>1, <2>2, BufMgrAssumption DEF PoolInv, Counted
  <2>7. PoolInv'
        BY <2>1, <2>2, <2>3, <2>4, <2>5, <2>6, OneFrameChanges
  <2>8. \A g \in Grid : frames'[g] = IF g = f THEN Empty ELSE frames[g]
        BY <2>1, <2>2 DEF PoolInv
  <2>9. ASSUME NEW g \in Grid, frames[g].pid = p PROVE frames'[g] = Empty
        BY <2>2, <2>8, <2>9 DEF PoolInv, NoPageIsEmpty
  <2> QED BY <2>7, <2>8, <2>9
<1> QED BY <1>1, <1>2

-----------------------------------------------------------------------------
(* The invariant *)

LEMMA FirstAndNext ==
    /\ <<0, 0>> \in Grid
    /\ \A f, g \in Grid : Before(f, g) \/ Before(g, f)
    /\ \A f \in Grid : ~AtLast /\ f[2] = bufSize - 1 /\ at \in Grid /\ at = f
                          => <<f[1] + 1, 0>> \in Grid
    /\ \A f \in Grid : f[2] # bufSize - 1 => <<f[1], f[2] + 1>> \in Grid
BY BufMgrAssumption DEF Grid, Before, AtLast

\* The loop's next position, and the frames that lie before it.
LEMMA Advances ==
    ASSUME at \in Grid, NEW done, done # pc, Advance(done)
    PROVE  /\ at' \in Grid
           /\ (pc' = pc /\ ~AtLast) \/ (pc' = done /\ AtLast)
           /\ ~AtLast => \A f \in Grid : Before(f, at') /\ f # at' => Before(f, at)
           /\ AtLast => \A f \in Grid : Before(f, at)
<1>1. CASE AtLast
  <2>1. at' = <<0, 0>> /\ pc' = done
        BY <1>1 DEF Advance
  <2>2. \A f \in Grid : Before(f, at)
        BY <1>1, BufMgrAssumption DEF AtLast, Before, Grid
  <2> QED BY <1>1, <2>1, <2>2, FirstAndNext
<1>2. CASE ~AtLast
  <2>1. /\ pc' = pc
        /\ at' = IF at[2] = bufSize - 1 THEN <<at[1] + 1, 0>> ELSE <<at[1], at[2] + 1>>
        BY <1>2 DEF Advance
  <2>2. at' \in Grid
        BY <1>2, <2>1, FirstAndNext
  <2>3. \A f \in Grid : Before(f, at') /\ f # at' => Before(f, at)
        BY <2>1, BufMgrAssumption DEF Before, Grid
  <2> QED BY <1>2, <2>1, <2>2, <2>3
<1> QED BY <1>1, <1>2

\* A step of FlushAllPages empties the frame it is at.
LEMMA FlushNextKeeps ==
    ASSUME IInv, FlushNext
    PROVE  /\ IInv'
           /\ pc' = "idle" /\ ret' = "OK" => \A f \in Grid : frames'[f] = Empty
<1> DEFINE p == frames[at].pid
<1>1. p \in Pids \cup {INVALID_PAGE} /\ pc = "flush"
      BY DEF IInv, PoolInv, Frame, FlushNext
<1>2. CASE Flush(p, "OK") /\ Advance("idle") /\ (IF AtLast THEN ret' = "OK" ELSE UNCHANGED ret)
  <2> HIDE DEF p
  <2>1. /\ PoolInv'
        /\ \A g \in Grid : frames[g] = Empty => frames'[g] = Empty
        /\ \A g \in Grid : frames[g].pid = p => frames'[g] = Empty
        BY <1>1, <1>2, FlushKeeps DEF IInv
  <2>2. /\ at' \in Grid
        /\ (pc' = pc /\ ~AtLast) \/ (pc' = "idle" /\ AtLast)
        /\ ~AtLast => \A f \in Grid : Before(f, at') /\ f # at' => Before(f, at)
        /\ AtLast => \A f \in Grid : Before(f, at)
        BY <1>1, <1>2, Advances DEF IInv
  <2>3. \A f \in Grid : Before(f, at) => frames'[f] = Empty
        BY <1>1, <2>1 DEF IInv, FlushedSoFar, p
  <2>4. FlushedSoFar'
        BY <1>1, <2>2, <2>3 DEF FlushedSoFar, Before, Grid
  <2> QED BY <1>1, <2>1, <2>2, <2>3, <2>4 DEF IInv
<1>3. CASE Flush(p, "FAIL") /\ pc' = "idle" /\ at' = <<0, 0>> /\ ret' = "FAIL"
  <2>1. PoolInv'
        BY <1>1, <1>3, FlushKeeps DEF IInv
  <2> QED BY <1>3, <2>1, FirstAndNext DEF IInv, FlushedSoFar
<1> QED BY <1>2, <1>3 DEF FlushNext

LEMMA DestroyNextKeeps == IInv /\ DestroyNext => IInv'
<1> SUFFICES ASSUME IInv, DestroyNext PROVE IInv'
    OBVIOUS
<1>1. pc = "destroy" /\ Advance("down") /\ at \in Grid
      BY DEF DestroyNext, IInv
<1>2. at' \in Grid /\ pc' # "flush"
      BY <1>1, Advances
<1>3. PoolInv'
  <2>1. CASE frames[at].dirty
    <3> DEFINE p == frames[<<at[1], 0>>].pid
    <3>1. <<at[1], 0>> \in Grid
          BY <1>1, BufMgrAssumption DEF Grid
    <3>2. p \in Pids \cup {INVALID_PAGE}
          BY <3>1 DEF IInv, PoolInv, Frame
    <3>3. PICK status \in {"OK", "FAIL"} : Flush(p, status)
          BY <2>1 DEF DestroyNext
    <3> HIDE DEF p
    <3> QED BY <3>2, <3>3, FlushKeeps DEF IInv
  <2>2. CASE ~frames[at].dirty
        BY <2>2, NothingChanges DEF DestroyNext, IInv
  <2> QED BY <2>1, <2>2
<1> QED BY <1>2, <1>3 DEF IInv, FlushedSoFar

\* A call that is not a loop leaves the loops' state, and is made in none.
LEMMA CallKeeps ==
    ASSUME IInv, PoolInv', NEW status, Return(status) PROVE IInv'
BY DEF IInv, Return, FlushedSoFar

\* The invariant holds of the empty pool.
THEOREM InitInvariant == Init => IInv
<1> SUFFICES ASSUME Init PROVE IInv
    OBVIOUS
<1>1. Empty \in Frame /\ Empty.pid = INVALID_PAGE
      BY DEF Frame, Empty
<1>2. \A f \in Grid : frames[f] = Empty
      BY DEF Init
<1>3. frames \in [Grid -> Frame]
      BY <1>1 DEF Init
<1>4. tail \in 0 .. bufSize * numOfBuf
  <2>1. \A a, b \in Nat : 0 \in 0 .. a * b
        OBVIOUS
  <2> QED BY <2>1, BufMgrAssumption DEF Init
<1>5. held \in [Pids -> Nat] /\ unsaved = {} /\ lost = {} /\ \A p \in Pids : held[p] = 0
      BY DEF Init
<1>6. PoolInv
      BY <1>1, <1>2, <1>3, <1>4, <1>5 DEF PoolInv, NoPageIsEmpty, Counted, Saved
<1> QED BY <1>6, FirstAndNext DEF IInv, FlushedSoFar, Init

\* Every operation, whatever the disk and the replacer do, keeps the invariant.
THEOREM NextInvariant == IInv /\ [Next]_vars => IInv'
<1> SUFFICES ASSUME IInv, [Next]_vars PROVE IInv'
    OBVIOUS
<1>1. CASE UNCHANGED vars
      BY <1>1, NothingChanges DEF IInv, vars, FlushedSoFar, pool
<1>2. ASSUME NEW p \in Pids, NEW b \in BOOLEAN, PinPage(p, b) PROVE IInv'
  <2>1. PoolInv' BY <1>2, PinPageKeeps DEF IInv
  <2> QED BY <1>2, <2>1, CallKeeps DEF PinPage
<1>3. ASSUME NEW p \in Pids, NEW b \in BOOLEAN, UnpinPage(p, b) PROVE IInv'
  <2>1. PoolInv' BY <1>3, UnpinPageKeeps DEF IInv
  <2> QED BY <1>3, <2>1, CallKeeps DEF UnpinPage
<1>4. ASSUME NEW p \in Pids, NEW n \in {0, 1}, NewPage(p, n) PROVE IInv'
  <2>1. PoolInv' BY <1>4, NewPageKeeps DEF IInv
  <2> QED BY <1>4, <2>1, CallKeeps DEF NewPage
<1>5. ASSUME NEW p \in Pids, FreePage(p) PROVE IInv'
  <2>1. PoolInv' BY <1>5, FreePageKeeps DEF IInv
  <2> QED BY <1>5, <2>1, CallKeeps DEF FreePage
<1>6. ASSUME NEW p \in Pids, FlushPage(p) PROVE IInv'
  <2>1. PICK status \in {"OK", "FAIL"} : Flush(p, status) /\ Return(status)
        BY <1>6 DEF FlushPage
  <2>2. PoolInv' BY <2>1, FlushKeeps DEF IInv
  <2> QED BY <2>1, <2>2, CallKeeps
<1>7. ASSUME FlushAllPages \/ Destroy PROVE IInv'
  <2>1. at' = <<0, 0>> /\ UNCHANGED <<pool, disk, held>>
        BY <1>7 DEF FlushAllPages, Destroy, Start
  <2>2. FlushedSoFar'
        BY <2>1, BufMgrAssumption DEF FlushedSoFar, Before, Grid
  <2> QED BY <2>1, <2>2, NothingChanges, FirstAndNext DEF IInv
<1>8. ASSUME FlushNext PROVE IInv'
      BY <1>8, FlushNextKeeps
<1>9. ASSUME DestroyNext PROVE IInv'
      BY <1>9, DestroyNextKeeps
<1> QED BY <1>1, <1>2, <1>3, <1>4, <1>5, <1>6, <1>7, <1>8, <1>9 DEF Next

\* The invariant the properties of the pool follow from.
THEOREM Invariance == Spec => []IInv
BY InitInvariant, NextInvariant, PTL DEF Spec

-----------------------------------------------------------------------------
(* The properties *)

\* The pool keeps its types, and no page is in two frames.
THEOREM TypeCorrect == Spec => []TypeOK
<1>1. IInv => TypeOK
      BY DEF IInv, PoolInv, TypeOK, Frame
<1> QED BY Invariance, <1>1, PTL

\* A change that is not on disk is in a dirty frame, or the write of its page
\* failed as the page was evicted.
THEOREM WritesKept == Spec => []NoWriteLost
<1>1. IInv => NoWriteLost
      BY DEF IInv, PoolInv, Saved, NoWriteLost
<1> QED BY Invariance, <1>1, PTL

\* The frames with a pin and the pages that are held are as many.
LEMMA AsManyAsHeld ==
    ASSUME PoolInv
    PROVE  GetNumOfUnpinnedFrames
              = numOfBuf * bufSize - Cardinality({p \in Pids : held[p] > 0})
<1> DEFINE Busy  == {f \in Grid : frames[f].pinCount # 0}
           Wants == {p \in Pids : held[p] > 0}
           page  == [f \in Busy |-> frames[f].pid]
           Rows  == 0 .. numOfBuf - 1
           Cols  == 0 .. bufSize - 1
<1>1. /\ IsFiniteSet(Rows) /\ Cardinality(Rows) = numOfBuf
      /\ IsFiniteSet(Cols) /\ Cardinality(Cols) = bufSize
      BY FS_Interval, BufMgrAssumption
<1>2. IsFiniteSet(Grid) /\ Cardinality(Grid) = numOfBuf * bufSize
  <2>1. Grid = Rows \X Cols
        BY DEF Grid
  <2> HIDE DEF Rows, Cols
  <2> QED BY <1>1, <2>1, FS_Product
<1>3. ASSUME NEW f \in Busy
      PROVE  /\ frames[f].pid \in Pids /\ frames[f].pid # INVALID_PAGE
             /\ held[frames[f].pid] > 0
  <2>1. f \in Grid /\ frames[f] \in Frame /\ frames[f].pinCount > 0
        BY DEF PoolInv, Frame
  <2>2. frames[f].pid # INVALID_PAGE
        BY <2>1 DEF PoolInv, NoPageIsEmpty, Empty
  <2> QED BY <2>1, <2>2 DEF PoolInv, Counted, Frame
<1>4. ASSUME NEW p \in Wants PROVE \E f \in Busy : frames[f].pid = p
  <2>1. PICK f \in Grid : frames[f].pid = p
        BY DEF PoolInv, Counted
  <2>2. p # INVALID_PAGE /\ held[p] > 0
        BY BufMgrAssumption
  <2> QED BY <2>1, <2>2 DEF PoolInv, Counted
<1>5. page \in Bijection(Busy, Wants)
  <2>1. page \in [Busy -> Wants]
        BY <1>3
  <2>2. \A f, g \in Busy : page[f] = page[g] => f = g
        BY <1>3 DEF PoolInv
  <2>3. \A p \in Wants : \E f \in Busy : page[f] = p
        BY <1>4
  <2> HIDE DEF page, Busy, Wants
  <2> QED BY <2>1, <2>2, <2>3 DEF Bijection, Injection, Surjection, IsInjective
<1>6. IsFiniteSet(Busy)
      BY <1>2, FS_Subset
<1>7. Cardinality(Busy) = Cardinality(Wants)
  <2>1. ExistsBijection(Busy, Wants)
        BY <1>5 DEF ExistsBijection
  <2> HIDE DEF Busy, Wants
  <2> QED BY <1>6, <2>1, FS_Bijection
<1>8. Evictable = Grid \ Busy /\ Grid \cap Busy = Busy
      BY DEF Evictable
<1>9. Cardinality(Evictable) = Cardinality(Grid) - Cardinality(Busy)
  <2> HIDE DEF Busy
  <2> QED BY <1>2, <1>8, FS_Difference
<1> HIDE DEF Busy, Wants
<1>10. Cardinality(Evictable) = numOfBuf * bufSize - Cardinality(Wants)
      BY <1>2, <1>7, <1>9
<1> QED BY <1>10 DEF GetNumOfUnpinnedFrames, Wants

\* Pin counts are what callers hold, and so is the number of unpinned frames.
THEOREM PinsCounted == Spec => []PinsAreCounted
<1>1. ASSUME IInv, NEW p \in Pids PROVE PinsOf(p) = held[p]
  <2>1. CASE \E f \in Grid : frames[f].pid = p
    <3> DEFINE f == CHOOSE f \in Grid : frames[f].pid = p
    <3>1. f \in Grid /\ frames[f].pid = p
          BY <2>1
    <3>2. PinsOf(p) = frames[f].pinCount
          BY <2>1 DEF PinsOf
    <3> HIDE DEF f
    <3> QED BY <1>1, <3>1, <3>2, BufMgrAssumption DEF IInv, PoolInv, Counted
  <2>2. CASE ~(\E f \in Grid : frames[f].pid = p)
        BY <1>1, <2>2 DEF IInv, PoolInv, Counted, PinsOf
  <2> QED BY <2>1, <2>2
<1>2. IInv => PinsAreCounted
      BY <1>1, AsManyAsHeld DEF IInv, PinsAreCounted
<1> QED BY Invariance, <1>2, PTL

\* A FlushAllPages that succeeds empties the pool and leaves nothing unwritten
\* but what had left the pool before.
THEOREM FlushedIsEmpty == Spec => FlushedMeansEmpty
<1>1. ASSUME IInv, IInv', [Next]_vars, pc = "flush", pc' = "idle", ret' = "OK"
      PROVE  (\A f \in Grid : frames'[f] = Empty) /\ unsaved' \subseteq lost'
  <2>1. FlushNext
        BY <1>1 DEF Next, vars, PinPage, UnpinPage, NewPage, FreePage, FlushPage,
              FlushAllPages, Destroy, Start, DestroyNext, Return
  <2>2. \A f \in Grid : frames'[f] = Empty
        BY <1>1, <2>1, FlushNextKeeps
  <2>3. \A p \in unsaved' \ lost' : \E f \in Grid : frames'[f].pid = p /\ frames'[f].dirty
        BY <1>1 DEF IInv, PoolInv, Saved
  <2>4. Empty.dirty = FALSE
        BY DEF Empty
  <2>5. unsaved' \subseteq lost'
        BY <2>2, <2>3, <2>4
  <2> QED BY <2>2, <2>5
<1>2. IInv /\ IInv' /\ [Next]_vars =>
         [pc = "flush" /\ pc' = "idle" /\ ret' = "OK" /\ ~undefined'
             => /\ \A f \in Grid : frames'[f] = Empty
                /\ unsaved' \subseteq lost']_vars
      BY <1>1
<1> QED BY Invariance, <1>2, PTL DEF Spec, FlushedMeansEmpty
=============================================================================
