-------------------------- MODULE HeapFile_proofs --------------------------
(***************************************************************************)
(* Proofs about HeapFile and Scan, for any database, pool of frames, page  *)
(* sizes and lengths.  About a file: the types, the pins, the chain of     *)
(* directory pages, and that the directory pages agree with the data pages *)
(* and count their records.  About a scan, with any calls of the file      *)
(* between its own: that it gives back every page that it pins, that its   *)
(* position is that of its page, that it skips no record and gives none    *)
(* twice.                                                                  *)
(***************************************************************************)
EXTENDS Scan, Indices, TLAPS

-----------------------------------------------------------------------------
(* The inductive invariant *)

PageInfo  == [pid : Pages, space : Nat, n : Int]
HeapPages == [n : Int, free : 0 .. DataSize, slots : SUBSET {0, 1}]

Types ==
    /\ owner \in [Pages -> {"free", "dir", "data", "other"}]
    /\ chain \in Seq(Pages)
    /\ entries \in [Pages -> Seq(PageInfo)]
    /\ heap \in [Pages -> HeapPages]
    /\ last \in [Handles -> Pages \cup {INVALID_PAGE}]
    /\ pins \in [Pages -> Nat]
    /\ pc \in {"idle", "newdir", "newdata", "put", "delete"}
    /\ len \in Nat

\* A directory page has no more entries than fit, a data page room for the
\* slot of the next record.
Rooms ==
    /\ \A d \in Pages : Len(entries[d]) <= DirSlots
    /\ \A p \in Pages : owner[p] = "data" => heap[p].free >= SlotSize

\* The call that is running: the directory page it holds, and where.
CallInv ==
    /\ pc \in {"newdata", "put"} => dir \in Pages /\ pins[dir] > 0
    /\ pc = "newdata" => owner[dir] = "dir" /\ Len(entries[dir]) < DirSlots
    /\ pc = "put" => pid \in Pages
    /\ pc = "delete" => Contains(chain, dir)

InChain(p) == \E i \in 1 .. Len(chain) : chain[i] = p

\* The directory pages: no page is in the chain twice; a new one is made only
\* while all of them are there; other pages have no entries.
DirInv ==
    /\ \A i, j \in 1 .. Len(chain) : chain[i] = chain[j] => i = j
    /\ pc \in {"newdir", "newdata"} =>
          \A i \in 1 .. Len(chain) : owner[chain[i]] = "dir"
    /\ \A p \in Pages : entries[p] # << >> => owner[p] = "dir" \/ InChain(p)

IInv == Types /\ Rooms /\ CallInv /\ DirInv

-----------------------------------------------------------------------------
(* The operators *)

LEMMA Constants ==
    /\ Pages \subseteq Nat /\ DataSize \in Nat /\ DataSize >= 2 * SlotSize
    /\ SlotSize = 4 /\ DirSlots \in Nat \ {0} /\ Lengths \subseteq Nat
    /\ StaleCounts \subseteq Int /\ StaleSlots \subseteq SUBSET {0, 1}
    /\ INVALID_PAGE \notin Pages
BY HeapFileAssumption DEF SlotSize, INVALID_PAGE

LEMMA NewPidIsFree ==
    ASSUME FreePages # {} PROVE NewPid \in Pages /\ owner[NewPid] = "free"
<1>1. FreePages \in SUBSET Nat
      BY Constants DEF FreePages
<1>2. \E m \in FreePages : \A k \in FreePages : m <= k
      BY <1>1, LeastNumber
<1>3. NewPid \in FreePages
      BY <1>2 DEF NewPid, Min
<1> QED BY <1>3 DEF FreePages

LEMMA EntryTypes ==
    ASSUME Types, NEW d \in Pages
    PROVE  /\ entries[d] \in Seq(PageInfo) /\ Len(entries[d]) \in Nat
           /\ \A i \in 1 .. Len(entries[d]) :
                 entries[d][i] \in PageInfo /\ entries[d][i].pid \in Pages
<1>1. entries[d] \in Seq(PageInfo)
      BY DEF Types
<1>2. Len(entries[d]) \in Nat /\ \A i \in 1 .. Len(entries[d]) : entries[d][i] \in PageInfo
      BY <1>1, LenProperties, ElementOfSeq
<1> QED BY <1>1, <1>2 DEF PageInfo

\* The entry of a page on a directory page, its directory page, and an entry
\* with room.
LEMMA EntryOfFound ==
    ASSUME Types, NEW d \in Pages, NEW p
    PROVE  EntryOf(d, p) \in 0 .. Len(entries[d])
<1> DEFINE I == {i \in 1 .. Len(entries[d]) : entries[d][i].pid = p}
<1>1. Len(entries[d]) \in Nat
      BY LenProperties DEF Types
<1>2. EntryOf(d, p) = IF I # {} THEN Min(I) ELSE 0
      BY DEF EntryOf, SelectInSeq
<1> QED BY <1>1, <1>2, FirstIndex

LEMMA DirOfFound ==
    ASSUME Types, NEW p
    PROVE  DirOf(p) \in 0 .. Len(chain) /\ (DirOf(p) # 0 => chain[DirOf(p)] \in Pages)
<1> DEFINE I == {i \in 1 .. Len(chain) : EntryOf(chain[i], p) # 0}
<1>1. Len(chain) \in Nat /\ \A i \in 1 .. Len(chain) : chain[i] \in Pages
      BY LenProperties, ElementOfSeq DEF Types
<1>2. DirOf(p) = IF I # {} THEN Min(I) ELSE 0
      BY DEF DirOf, SelectInSeq
<1>3. DirOf(p) \in 0 .. Len(chain)
      BY <1>1, <1>2, FirstIndex
<1> QED BY <1>1, <1>3

LEMMA RoomFound ==
    ASSUME Types, NEW l,
           NEW k, k = SelectInSeq(chain, LAMBDA d : RoomOf(d, l) # 0), k # 0
    PROVE  /\ k \in 1 .. Len(chain) /\ chain[k] \in Pages
           /\ RoomOf(chain[k], l) \in 1 .. Len(entries[chain[k]])
           /\ entries[chain[k]][RoomOf(chain[k], l)].pid \in Pages
<1> DEFINE I == {i \in 1 .. Len(chain) : RoomOf(chain[i], l) # 0}
<1>1. Len(chain) \in Nat /\ \A i \in 1 .. Len(chain) : chain[i] \in Pages
      BY LenProperties, ElementOfSeq DEF Types
<1>2. k = IF I # {} THEN Min(I) ELSE 0
      BY DEF SelectInSeq
<1>3. k \in I
  <2>1. I \in SUBSET (1 .. Len(chain))
        OBVIOUS
  <2> HIDE DEF I
  <2> QED BY <1>1, <1>2, <2>1, FirstIndex
<1> DEFINE d == chain[k]
           J == {i \in 1 .. Len(entries[d]) : HasRoom(entries[d][i], l)}
<1>4. d \in Pages /\ RoomOf(d, l) # 0
      BY <1>1, <1>3
<1> HIDE DEF d, I
<1>5. /\ Len(entries[d]) \in Nat
      /\ \A i \in 1 .. Len(entries[d]) : entries[d][i] \in PageInfo
      BY <1>4, LenProperties, ElementOfSeq DEF Types
<1>6. RoomOf(d, l) = IF J # {} THEN Min(J) ELSE 0
      BY DEF RoomOf, SelectInSeq
<1>7. RoomOf(d, l) \in J
  <2>1. J \in SUBSET (1 .. Len(entries[d]))
        OBVIOUS
  <2> HIDE DEF J
  <2> QED BY <1>4, <1>5, <1>6, <2>1, FirstIndex
<1>8. entries[d][RoomOf(d, l)].pid \in Pages
      BY <1>5, <1>7 DEF PageInfo
<1>9. k \in 1 .. Len(chain) /\ RoomOf(d, l) \in 1 .. Len(entries[d])
      BY <1>3, <1>7 DEF I
<1> QED BY <1>4, <1>8, <1>9 DEF d

\* A directory page that is not full.
LEMMA NotFullFound ==
    ASSUME Types, NEW k, k = SelectInSeq(chain, LAMBDA d : Len(entries[d]) < DirSlots),
           k # 0
    PROVE  k \in 1 .. Len(chain) /\ chain[k] \in Pages /\ Len(entries[chain[k]]) < DirSlots
<1> DEFINE I == {i \in 1 .. Len(chain) : Len(entries[chain[i]]) < DirSlots}
<1>1. Len(chain) \in Nat /\ \A i \in 1 .. Len(chain) : chain[i] \in Pages
      BY LenProperties, ElementOfSeq DEF Types
<1>2. k = IF I # {} THEN Min(I) ELSE 0
      BY DEF SelectInSeq
<1>3. k \in I
  <2>1. I \in SUBSET (1 .. Len(chain))
        OBVIOUS
  <2> HIDE DEF I
  <2> QED BY <1>1, <1>2, <2>1, FirstIndex
<1> QED BY <1>1, <1>3

LEMMA RecordedIs ==
    ASSUME NEW es \in Seq(PageInfo), NEW p, NEW c \in Int,
           NEW h \in HeapPages, h.free >= SlotSize
    PROVE  Recorded(es, p, c, h) \in Seq(PageInfo) /\ Len(Recorded(es, p, c, h)) = Len(es)
<1> DEFINE j == SelectInSeq(es, LAMBDA e : e.pid = p)
           f(i) == IF i = j THEN [es[i] EXCEPT !.n = @ + c, !.space = Available(h)]
                            ELSE es[i]
<1>1. Len(es) \in Nat /\ \A i \in 1 .. Len(es) : es[i] \in PageInfo
      BY LenProperties, ElementOfSeq
<1>2. Available(h) \in Nat
      BY Constants DEF Available, HeapPages
<1>3. \A i \in 1 .. Len(es) : es[i].n + c \in Int
      BY <1>1 DEF PageInfo
<1>4. \A i \in 1 .. Len(es) : [es[i] EXCEPT !.n = @ + c, !.space = Available(h)] \in PageInfo
      BY <1>1, <1>2, <1>3 DEF PageInfo
<1>5. Recorded(es, p, c, h) \in [1 .. Len(es) -> PageInfo]
      BY <1>1, <1>4 DEF Recorded
<1> QED BY <1>1, <1>5, IsSequence

LEMMA WithoutPageIs ==
    ASSUME NEW es \in Seq(PageInfo), NEW p
    PROVE  /\ WithoutPage(es, p) \in Seq(PageInfo)
           /\ Len(WithoutPage(es, p)) <= Len(es)
           /\ es # << >> => WithoutPage(es, p) # << >>
<1> DEFINE I == {i \in 1 .. Len(es) : es[i].pid = p}
           j == SelectInSeq(es, LAMBDA e : e.pid = p)
<1>1. Len(es) \in Nat /\ \A i \in 1 .. Len(es) : es[i] \in PageInfo
      BY LenProperties, ElementOfSeq
<1>2. j = IF I # {} THEN Min(I) ELSE 0
      BY DEF SelectInSeq
<1>3. WithoutPage(es, p) = IF j = 1 THEN es ELSE RemoveAt(es, j)
      BY DEF WithoutPage
<1> HIDE DEF j
<1>4. j \in 0 .. Len(es)
  <2>1. I \in SUBSET (1 .. Len(es))
        OBVIOUS
  <2> HIDE DEF I
  <2> QED BY <1>1, <1>2, <2>1, FirstIndex
<1> HIDE DEF I
<1> DEFINE a == SubSeq(es, 1, j - 1)
           b == SubSeq(es, j + 1, Len(es))
<1>5. /\ a \in Seq(PageInfo) /\ b \in Seq(PageInfo)
      /\ Len(a) = IF 1 <= j - 1 THEN j - 1 ELSE 0
      /\ Len(b) = IF j + 1 <= Len(es) THEN Len(es) - j ELSE 0
  <2>1. /\ \A i \in 1 .. j - 1 : es[i] \in PageInfo
        /\ \A i \in j + 1 .. Len(es) : es[i] \in PageInfo
        /\ j - 1 \in Int /\ j + 1 \in Int /\ Len(es) \in Int
        BY <1>1, <1>4
  <2>2. a \in Seq(PageInfo) /\ Len(a) = IF 1 <= j - 1 THEN (j - 1) - 1 + 1 ELSE 0
        BY <2>1, SubSeqProperties
  <2>3. b \in Seq(PageInfo) /\ Len(b) = IF j + 1 <= Len(es) THEN Len(es) - (j + 1) + 1 ELSE 0
        BY <2>1, SubSeqProperties
  <2> HIDE DEF a, b
  <2> QED BY <1>1, <1>4, <2>2, <2>3
<1>6. a \o b \in Seq(PageInfo) /\ Len(a \o b) = Len(a) + Len(b)
      BY <1>5, ConcatProperties
<1>7. RemoveAt(es, j) = a \o b
      BY DEF RemoveAt
<1> HIDE DEF a, b
<1>8. CASE j = 1
      BY <1>3, <1>8
<1>9. CASE j # 1
  <2>1. Len(a \o b) <= Len(es) /\ (Len(es) > 0 => Len(a \o b) > 0)
    <3>1. CASE j = 0
          BY <1>1, <1>5, <1>6, <3>1
    <3>2. CASE j > 1
      <4>1. Len(a) = j - 1 /\ Len(b) = Len(es) - j
            BY <1>1, <1>4, <1>5, <3>2
      <4>2. \A n, i \in Nat : i > 1 /\ i <= n =>
                (i - 1) + (n - i) <= n /\ (i - 1) + (n - i) > 0
            OBVIOUS
      <4> QED BY <1>1, <1>4, <1>6, <3>2, <4>1, <4>2
    <3> QED BY <1>4, <1>9, <3>1, <3>2
  <2>2. es # << >> => Len(es) > 0
        BY <1>1, EmptySeq
  <2>3. Len(a \o b) > 0 => a \o b # << >>
        BY EmptySeq
  <2> QED BY <1>3, <1>6, <1>7, <2>1, <2>2, <2>3
<1> QED BY <1>8, <1>9

LEMMA InsertedIs ==
    ASSUME NEW h \in HeapPages, h.free >= SlotSize, NEW l \in Nat
    PROVE  PageInserted(h, l) \in HeapPages /\ PageInserted(h, l).free >= SlotSize
<1>1. Fits(h, l) => h.n + 1 \in Int /\ h.free - l \in 0 .. DataSize /\ h.free - l >= SlotSize
      BY Constants DEF Fits, Available, HeapPages
<1>2. Fits(h, l) => PageInserted(h, l) = [h EXCEPT !.n = h.n + 1, !.free = h.free - l]
      BY DEF PageInserted
<1>3. ~Fits(h, l) => PageInserted(h, l) = h
      BY DEF PageInserted
<1> QED BY <1>1, <1>2, <1>3 DEF HeapPages

LEMMA DeletedIs ==
    ASSUME NEW h \in HeapPages, NEW s
    PROVE  PageDeleted(h, s) \in HeapPages /\ PageDeleted(h, s).free = h.free
<1>1. PageDeleted(h, s) = IF s \in h.slots
                          THEN [h EXCEPT !.n = h.n - 1, !.slots = h.slots \ {s}] ELSE h
      BY DEF PageDeleted
<1>2. h.n - 1 \in Int /\ h.slots \ {s} \in SUBSET {0, 1}
      BY DEF HeapPages
<1> QED BY <1>1, <1>2 DEF HeapPages

\* The chain with page q behind page l.
LEMMA LinkedIs ==
    ASSUME NEW l, NEW q \in Pages, chain \in Seq(Pages), ~InChain(q),
           \A i, j \in 1 .. Len(chain) : chain[i] = chain[j] => i = j
    PROVE  LET c == Linked(l, q)
           IN  /\ c \in Seq(Pages) /\ (chain # << >> => c # << >>)
               /\ \A i, j \in 1 .. Len(c) : c[i] = c[j] => i = j
               /\ \A i \in 1 .. Len(c) : c[i] = q \/ \E j \in 1 .. Len(chain) : chain[j] = c[i]
               /\ chain # << >> /\ l = Last(chain) => c = Append(chain, q)
<1> DEFINE I == {i \in 1 .. Len(chain) : chain[i] = l}
           k == SelectInSeq(chain, LAMBDA d : d = l)
           a == SubSeq(chain, 1, k)
<1>1. Len(chain) \in Nat /\ \A i \in 1 .. Len(chain) : chain[i] \in Pages
      BY LenProperties, ElementOfSeq
<1>2. k = IF I # {} THEN Min(I) ELSE 0
      BY DEF SelectInSeq
<1>3. k \in 0 .. Len(chain) /\ (k # 0 => k \in I) /\ (k = 0 <=> I = {})
  <2>1. I \in SUBSET (1 .. Len(chain))
        OBVIOUS
  <2> HIDE DEF I, k
  <2> QED BY <1>1, <1>2, <2>1, FirstIndex
<1>4. CASE ~Contains(chain, l)
  <2>1. Linked(l, q) = chain
        BY <1>4 DEF Linked
  <2>2. chain # << >> => l # Last(chain)
    <3>1. chain # << >> => Len(chain) \in 1 .. Len(chain)
          BY <1>1, EmptySeq
    <3> QED BY <1>4, <3>1 DEF Contains, Last
  <2> QED BY <2>1, <2>2
<1>5. CASE Contains(chain, l)
  <2>1. Linked(l, q) = Append(a, q) /\ k \in 1 .. Len(chain) /\ chain[k] = l
    <3>1. I # {}
          BY <1>5 DEF Contains
    <3> QED BY <1>3, <1>5, <3>1 DEF Linked
  <2> HIDE DEF k
  <2>2. /\ a \in Seq(Pages) /\ Len(a) = k
        /\ \A i \in 1 .. k : a[i] = chain[i]
    <3>1. \A i \in 1 .. k : chain[i] \in Pages
          BY <1>1, <2>1
    <3>2. /\ a \in Seq(Pages) /\ Len(a) = IF 1 <= k THEN k - 1 + 1 ELSE 0
          /\ \A i \in 1 .. k - 1 + 1 : a[i] = chain[1 + i - 1]
          BY <2>1, <3>1, SubSeqProperties
    <3> HIDE DEF a
    <3>3. k - 1 + 1 = k /\ \A i \in 1 .. k : 1 + i - 1 = i
          BY <2>1
    <3> QED BY <2>1, <3>2, <3>3
  <2> HIDE DEF a
  <2> DEFINE c == Append(a, q)
  <2>3. /\ c \in Seq(Pages) /\ c # << >> /\ Len(c) = k + 1
        /\ \A i \in 1 .. k : c[i] = chain[i]
        /\ c[k + 1] = q
        BY <2>2, AppendProperties
  <2> HIDE DEF c
  <2>4. ASSUME NEW i \in 1 .. k + 1, NEW j \in 1 .. k + 1, c[i] = c[j] PROVE i = j
    <3>1. \A n \in 1 .. k : chain[n] # q /\ n \in 1 .. Len(chain)
          BY <2>1 DEF InChain
    <3> QED BY <2>1, <2>3, <2>4, <3>1
  <2>5. \A i \in 1 .. k + 1 : c[i] = q \/ \E j \in 1 .. Len(chain) : chain[j] = c[i]
        BY <2>1, <2>3
  <2>6. chain # << >> /\ l = Last(chain) => c = Append(chain, q)
    <3> SUFFICES ASSUME chain # << >>, l = Last(chain) PROVE a = chain
        BY DEF c
    <3>1. k = Len(chain)
          BY <1>1, <2>1, EmptySeq DEF Last
    <3> QED BY <2>2, <3>1, SeqEqual
  <2> QED BY <2>1, <2>3, <2>4, <2>5, <2>6 DEF c
<1> QED BY <1>4, <1>5

-----------------------------------------------------------------------------
(* The steps *)

LEMMA Answers ==
    ASSUME NEW c, NEW s, NEW ps, Answer(c, s, ps)
    PROVE  /\ ret'.failed = (ret.failed \/ s = "FAIL")
           /\ s = "FAIL" => ret'.failed
           /\ ret.failed => ret'.failed
<1>1. ret'.failed = (ret.failed \/ s = "FAIL")
      BY DEF Answer
<1> QED BY <1>1

LEMMA Returns ==
    ASSUME NEW c, NEW s, NEW ps, Return(c, s, ps)
    PROVE  pc' = "idle" /\ len' \in Nat /\ ret'.failed = (ret.failed \/ s = "FAIL")
BY Answers DEF Return

LEMMA InvTypes ==
    ASSUME IInv
    PROVE  /\ Types /\ Rooms
           /\ \A p \in Pages : pins[p] + 1 \in Nat /\ pins[p] + 2 \in Nat
           /\ pc \in {"newdata", "put"} => dir \in Pages /\ pins[dir] - 1 \in Nat
           /\ Len(chain) \in Nat /\ \A i \in 1 .. Len(chain) : chain[i] \in Pages
           /\ pc = "delete" => dir \in Pages /\ InChain(dir)
           /\ chain # << >> => 1 \in 1 .. Len(chain)
<1>1. Len(chain) \in Nat /\ \A i \in 1 .. Len(chain) : chain[i] \in Pages
      BY LenProperties, ElementOfSeq DEF IInv, Types
<1>2. chain # << >> => 1 \in 1 .. Len(chain)
      BY <1>1, EmptySeq DEF IInv, Types
<1> QED BY <1>1, <1>2 DEF IInv, Types, CallInv, Contains, InChain

\* A call that leaves the file alone and is over.
LEMMA IdleKeeps ==
    ASSUME IInv, UNCHANGED <<owner, chain, entries, heap>>,
           last' \in [Handles -> Pages \cup {INVALID_PAGE}],
           pc' = "idle", len' \in Nat, pins' \in [Pages -> Nat]
    PROVE  IInv'
<1>1. Types' /\ Rooms' /\ CallInv'
      BY DEF IInv, Types, Rooms, CallInv
<1>2. DirInv'
      BY DEF IInv, DirInv, InChain
<1> QED BY <1>1, <1>2 DEF IInv

LEMMA ReturnKeeps ==
    ASSUME IInv, NEW c, NEW s, NEW ps, Return(c, s, ps),
           UNCHANGED <<owner, chain, entries, heap>>,
           last' \in [Handles -> Pages \cup {INVALID_PAGE}], pins' \in [Pages -> Nat]
    PROVE  IInv'
BY Returns, IdleKeeps

LEMMA UndefinedKeeps ==
    ASSUME IInv, Undefined, UNCHANGED file PROVE IInv'
<1>1. UNCHANGED <<owner, chain, entries, heap, last, pc, len, dir, pid, ret, pins>>
      BY DEF Undefined, file, call
<1>2. Types' /\ Rooms' /\ CallInv'
      BY <1>1 DEF IInv, Types, Rooms, CallInv, Contains
<1>3. DirInv'
      BY <1>1 DEF IInv, DirInv, InChain
<1> QED BY <1>2, <1>3 DEF IInv

LEMMA CreateKeeps == ASSUME IInv, NEW h \in Handles, Create(h) PROVE IInv'
<1>1. pc = "idle" /\ chain = << >> /\ UNCHANGED <<heap, pins, pc, len, dir, pid>>
      BY DEF Create, call
<1>2. CASE CanNewPage
  <2>1. /\ owner' = [owner EXCEPT ![NewPid] = "dir"]
        /\ entries' = [entries EXCEPT ![NewPid] = << >>]
        /\ chain' = <<NewPid>> /\ last' = [last EXCEPT ![h] = NewPid]
        /\ ret' = [call |-> "HeapFile", status |-> "OK", page |-> "OK",
                   failed |-> ret.failed \/ "OK" = "FAIL"]
        BY <1>2 DEF Create, Answer
  <2> DEFINE q == NewPid
  <2>2. q \in Pages /\ owner[q] = "free"
        BY <1>2, NewPidIsFree DEF CanNewPage
  <2> HIDE DEF q
  <2>3. /\ chain' \in Seq(Pages) /\ Len(chain') = 1 /\ chain'[1] = q
        /\ << >> \in Seq(PageInfo) /\ Len(<< >>) = 0
        BY <2>1, <2>2, EmptySeq DEF q
  <2>4. Types' /\ Rooms'
        BY <1>1, <2>1, <2>2, <2>3, Constants DEF IInv, Types, Rooms, q
  <2>5. CallInv'
        BY <1>1, <2>1 DEF IInv, CallInv
  <2>6. DirInv'
    <3>1. \A i, j \in 1 .. Len(chain') : i = j
          BY <2>3
    <3>2. ASSUME NEW p \in Pages, entries'[p] # << >> PROVE owner'[p] = "dir"
      <4>1. ~InChain(p)
            BY <1>1, EmptySeq DEF InChain
      <4> QED BY <2>1, <2>2, <3>2, <4>1 DEF IInv, Types, DirInv, q
    <3> QED BY <1>1, <3>1, <3>2 DEF DirInv
  <2> QED BY <2>4, <2>5, <2>6 DEF IInv
<1>3. CASE ~CanNewPage
  <2>1. UNCHANGED <<owner, chain, entries, heap, last>> /\ ret'.failed
        BY <1>3, Answers DEF Create, file
  <2>2. pc' = "idle" /\ len' \in Nat /\ pins' \in [Pages -> Nat]
        BY <1>1 DEF IInv, Types
  <2> QED BY <2>1, <2>2, IdleKeeps DEF IInv, Types
<1> QED BY <1>2, <1>3

LEMMA OpenKeeps == ASSUME IInv, NEW h \in Handles, Open(h) PROVE IInv'
<1>1. pc = "idle" /\ chain # << >> /\ UNCHANGED <<owner, chain, entries, heap>>
      BY DEF Open, Ready
<1>2. Last(chain) \in Pages
      BY <1>1, InvTypes DEF Last
<1>3. CASE Undefined /\ UNCHANGED last
      BY <1>1, <1>3, UndefinedKeeps DEF file
<1>4. ASSUME NEW s, Return("HeapFile", s, "OK"), UNCHANGED pins,
             last' = [last EXCEPT ![h] = Last(chain)] \/ UNCHANGED last
      PROVE  IInv'
  <2>1. pins' \in [Pages -> Nat] /\ last' \in [Handles -> Pages \cup {INVALID_PAGE}]
        BY <1>2, <1>4 DEF IInv, Types
  <2> QED BY <1>1, <1>4, <2>1, ReturnKeeps
<1> QED BY <1>3, <1>4 DEF Open

LEMMA GetRecordKeeps == ASSUME IInv, NEW p, NEW s, GetRecord(p, s) PROVE IInv'
<1>1. pc = "idle" /\ UNCHANGED <<owner, chain, entries, heap, last, pins, pc, len>>
      BY DEF GetRecord, Ready, file, call
<1> QED BY <1>1, IdleKeeps DEF IInv, Types

LEMMA UpdateRecordKeeps == ASSUME IInv, NEW p \in Pages, NEW s, UpdateRecord(p, s) PROVE IInv'
<1>1. pc = "idle" /\ UNCHANGED <<owner, chain, entries, heap, last>> /\ UNCHANGED file
      BY DEF UpdateRecord, Ready, file
<1>2. last' \in [Handles -> Pages \cup {INVALID_PAGE}] /\ pins \in [Pages -> Nat]
      BY <1>1 DEF IInv, Types
<1>3. Pin(p) => pins' \in [Pages -> Nat]
      BY <1>2, InvTypes DEF Pin
<1>4. \/ Undefined
      \/ Return("UpdateRecord", "FAIL", "OK") /\ (Pin(p) \/ UNCHANGED pins)
      \/ Return("UpdateRecord", "OK", "OK") /\ UNCHANGED pins
      \/ Return("UpdateRecord", "DONE", "OK") /\ UNCHANGED pins
      BY DEF UpdateRecord
<1> QED BY <1>1, <1>2, <1>3, <1>4, UndefinedKeeps, ReturnKeeps

LEMMA InsertRecordKeeps ==
    ASSUME IInv, NEW h \in Handles, NEW l \in Lengths, InsertRecord(h, l) PROVE IInv'
<1> DEFINE k == SelectInSeq(chain, LAMBDA d : RoomOf(d, l) # 0)
           d == chain[k]
<1>1. pc = "idle" /\ UNCHANGED <<owner, chain, entries, heap, last>> /\ UNCHANGED file
      BY DEF InsertRecord, Ready, file
<1>2. last' \in [Handles -> Pages \cup {INVALID_PAGE}] /\ pins \in [Pages -> Nat] /\ l \in Nat
      BY <1>1, Constants DEF IInv, Types
<1>3. CASE Return("InsertRecord", "FAIL", "OK") /\ UNCHANGED pins
      BY <1>1, <1>2, <1>3, ReturnKeeps
<1>4. CASE Undefined
      BY <1>1, <1>4, UndefinedKeeps
<1>5. CASE /\ k # 0 /\ pc' = "put" /\ len' = l /\ dir' = d
           /\ pid' = entries[d][RoomOf(d, l)].pid /\ Pin(d) /\ UNCHANGED ret
  <2>1. d \in Pages /\ pid' \in Pages
    <3>1. k = SelectInSeq(chain, LAMBDA e : RoomOf(e, l) # 0) /\ k # 0 /\ Types
          BY <1>5, InvTypes
    <3>2. pid' = entries[d][RoomOf(d, l)].pid
          BY <1>5
    <3> HIDE DEF k
    <3>3. chain[k] \in Pages /\ entries[chain[k]][RoomOf(chain[k], l)].pid \in Pages
          BY <3>1, RoomFound DEF SelectInSeq
    <3> QED BY <3>2, <3>3
  <2> HIDE DEF d
  <2>2. pins' \in [Pages -> Nat] /\ pins'[d] = pins[d] + 1 /\ pins'[d] > 0
        BY <1>2, <1>5, <2>1, InvTypes DEF Pin
  <2>3. Types' /\ Rooms' /\ CallInv'
        BY <1>1, <1>2, <1>5, <2>1, <2>2 DEF IInv, Types, Rooms, CallInv
  <2>4. DirInv'
        BY <1>1, <1>5 DEF IInv, DirInv, InChain
  <2> QED BY <2>3, <2>4 DEF IInv
<1>6. CASE /\ WalkOK(k) /\ k = 0 /\ pc' = "newdir" /\ len' = l
           /\ UNCHANGED <<dir, pid, pins, ret>>
  <2>1. \A i \in 1 .. Len(chain) : owner[chain[i]] = "dir"
        BY <1>6 DEF WalkOK
  <2>2. Types' /\ Rooms' /\ CallInv'
        BY <1>1, <1>2, <1>6 DEF IInv, Types, Rooms, CallInv
  <2>3. DirInv'
        BY <1>1, <1>6, <2>1 DEF IInv, DirInv, InChain
  <2> QED BY <2>2, <2>3 DEF IInv
<1> QED BY <1>3, <1>4, <1>5, <1>6 DEF InsertRecord

LEMMA PinType ==
    ASSUME IInv, NEW p \in Pages
    PROVE  /\ Pin(p) => pins' \in [Pages -> Nat] /\ pins'[p] > 0
           /\ GoesOnWithoutPage(p) => pins' \in [Pages -> Nat] /\ Return("InsertRecord", "FAIL", "OK")
<1>1. pins[p] + 1 \in Nat /\ pins[p] + 2 \in Nat /\ pins \in [Pages -> Nat]
      BY InvTypes DEF Types
<1>2. Pin(p) => pins' \in [Pages -> Nat] /\ pins'[p] > 0
      BY <1>1 DEF Pin
<1>3. ASSUME GoesOnWithoutPage(p) PROVE pins' \in [Pages -> Nat]
  <2>1. \/ pins' = [pins EXCEPT ![p] = pins[p] + 2]
        \/ pins' = [pins EXCEPT ![p] = pins[p] + 1]
        BY <1>3 DEF GoesOnWithoutPage
  <2> QED BY <1>1, <2>1
<1> QED BY <1>2, <1>3 DEF GoesOnWithoutPage

LEMMA NewDirPageKeeps == ASSUME IInv, NewDirPage PROVE IInv'
<1> DEFINE k == SelectInSeq(chain, LAMBDA d : Len(entries[d]) < DirSlots)
           q == NewPid
<1>1. /\ pc = "newdir" /\ UNCHANGED heap
      /\ \A i \in 1 .. Len(chain) : owner[chain[i]] = "dir"
      BY DEF NewDirPage, Running, IInv, DirInv
<1>2. CASE /\ k # 0 /\ Pin(chain[k]) /\ GoTo("newdata", len, chain[k], INVALID_PAGE)
           /\ UNCHANGED <<owner, entries, chain, last>>
  <2>1. k \in 1 .. Len(chain) /\ chain[k] \in Pages /\ Len(entries[chain[k]]) < DirSlots
    <3>1. k = SelectInSeq(chain, LAMBDA d : Len(entries[d]) < DirSlots) /\ k # 0 /\ Types
          BY <1>2, InvTypes
    <3> HIDE DEF k
    <3> QED BY <3>1, NotFullFound DEF SelectInSeq
  <2> HIDE DEF k
  <2>2. pins' \in [Pages -> Nat] /\ pins'[chain[k]] > 0 /\ owner[chain[k]] = "dir"
        BY <1>1, <1>2, <2>1, PinType
  <2>3. Types' /\ Rooms' /\ CallInv'
        BY <1>1, <1>2, <2>1, <2>2 DEF IInv, Types, Rooms, CallInv, GoTo
  <2>4. DirInv'
        BY <1>1, <1>2 DEF IInv, DirInv, InChain
  <2> QED BY <2>3, <2>4 DEF IInv
<1>3. CASE /\ k = 0 /\ ~CanNewPage /\ Return("InsertRecord", "FAIL", "OK")
           /\ UNCHANGED <<owner, entries, chain, last, pins>>
      BY <1>1, <1>3, ReturnKeeps DEF IInv, Types
<1>4. CASE /\ k = 0 /\ CanNewPage
           /\ owner' = [owner EXCEPT ![q] = "dir"]
           /\ entries' = [entries EXCEPT ![q] = << >>]
  <2>1. q \in Pages /\ owner[q] = "free"
        BY <1>4, NewPidIsFree DEF CanNewPage
  <2> HIDE DEF q, k
  <2>2. ~InChain(q) /\ << >> \in Seq(PageInfo) /\ Len(<< >>) = 0
        BY <1>1, <2>1, EmptySeq DEF InChain
  <2>3. /\ owner' \in [Pages -> {"free", "dir", "data", "other"}]
        /\ entries' \in [Pages -> Seq(PageInfo)] /\ heap' \in [Pages -> HeapPages]
        /\ Rooms'
        BY <1>1, <1>4, <2>1, <2>2, Constants DEF IInv, Types, Rooms
  <2>4. ASSUME NEW p \in Pages, entries'[p] # << >> PROVE owner'[p] = "dir"
    <3>1. p # q /\ entries[p] # << >> /\ owner'[p] = owner[p]
          BY <1>4, <2>1, <2>4 DEF IInv, Types
    <3>2. InChain(p) => owner[p] = "dir"
          BY <1>1 DEF InChain
    <3> QED BY <3>1, <3>2 DEF IInv, DirInv
  <2>5. \A i \in 1 .. Len(chain) : owner'[chain[i]] = "dir"
        BY <1>1, <1>4, <2>1, InvTypes DEF IInv, Types
  <2>6. CASE /\ chain' = Linked(last[who], q) /\ last' = [last EXCEPT ![who] = q]
             /\ Pin(q) /\ GoTo("newdata", len, q, INVALID_PAGE)
    <3>1. /\ chain' \in Seq(Pages)
          /\ \A i, j \in 1 .. Len(chain') : chain'[i] = chain'[j] => i = j
          /\ \A i \in 1 .. Len(chain') : chain'[i] = q \/ \E j \in 1 .. Len(chain) : chain[j] = chain'[i]
          BY <2>1, <2>2, <2>6, LinkedIs DEF IInv, Types, DirInv
    <3>2. pins' \in [Pages -> Nat] /\ pins'[q] > 0
          BY <2>1, <2>6, PinType
    <3>3. owner'[q] = "dir" /\ entries'[q] = << >>
          BY <1>4, <2>1 DEF IInv, Types
    <3>4. Types'
      <4>1. last' \in [Handles -> Pages \cup {INVALID_PAGE}]
            BY <2>1, <2>6 DEF IInv, Types
      <4> QED BY <2>3, <2>6, <3>1, <3>2, <4>1 DEF IInv, Types, GoTo
    <3>5. CallInv'
          BY <2>1, <2>2, <2>6, <3>2, <3>3, Constants DEF CallInv, GoTo
    <3>6. DirInv'
          BY <2>4, <2>5, <3>1, <3>3 DEF DirInv
    <3> QED BY <2>3, <3>4, <3>5, <3>6 DEF IInv
  <2>7. CASE GoesOnWithoutPage(q) /\ UNCHANGED <<chain, last>>
    <3>1. pins' \in [Pages -> Nat] /\ pc' = "idle" /\ len' \in Nat
          BY <2>1, <2>7, PinType DEF Return
    <3>2. Types' /\ CallInv'
          BY <2>3, <2>7, <3>1 DEF IInv, Types, CallInv
    <3>3. DirInv'
          BY <2>4, <2>7, <3>1 DEF IInv, DirInv
    <3> QED BY <2>3, <3>2, <3>3 DEF IInv
  <2>8. CASE Undefined /\ UNCHANGED <<chain, last>>
    <3>1. UNCHANGED <<pc, len, dir, pid, ret, pins>>
          BY <2>8 DEF Undefined, call
    <3>2. Types' /\ CallInv'
          BY <1>1, <2>3, <2>8, <3>1 DEF IInv, Types, CallInv
    <3>3. DirInv'
          BY <2>4, <2>5, <2>8 DEF IInv, DirInv
    <3> QED BY <2>3, <3>2, <3>3 DEF IInv
  <2> QED BY <1>4, <2>6, <2>7, <2>8 DEF NewDirPage, q, k
<1> QED BY <1>2, <1>3, <1>4 DEF NewDirPage

LEMMA NewDataPageKeeps == ASSUME IInv, NewDataPage PROVE IInv'
<1>1. /\ pc = "newdata" /\ UNCHANGED <<chain, last>> /\ dir \in Pages
      /\ owner[dir] = "dir" /\ Len(entries[dir]) < DirSlots
      /\ \A i \in 1 .. Len(chain) : owner[chain[i]] = "dir"
      BY DEF NewDataPage, Running, IInv, DirInv, CallInv
<1>2. CASE CanNewPage /\ owner' = [owner EXCEPT ![NewPid] = "data"]
  <2> DEFINE q == NewPid
             new == [pid |-> q, space |-> Available(heap'[q]), n |-> 0]
  <2>1. q \in Pages /\ owner[q] = "free"
        BY <1>2, NewPidIsFree DEF CanNewPage
  <2>2. PICK n \in StaleCounts, slots \in StaleSlots :
           heap' = [heap EXCEPT ![q] = [n |-> n, slots |-> slots, free |-> DataSize - SlotSize]]
        BY <1>2, <2>1 DEF NewDataPage, CanNewPage
  <2>3. /\ entries' = [entries EXCEPT ![dir] = Append(entries[dir], new)]
        /\ GoTo("put", len, dir, q) /\ UNCHANGED pins
        BY <1>2, <2>1 DEF NewDataPage, CanNewPage
  <2>4. owner' = [owner EXCEPT ![q] = "data"]
        BY <1>2
  <2> HIDE DEF q
  <2>5. /\ heap' \in [Pages -> HeapPages] /\ heap'[q].free = DataSize - SlotSize
        /\ \A p \in Pages \ {q} : heap'[p] = heap[p]
        /\ DataSize - SlotSize >= SlotSize
    <3>1. n \in Int /\ slots \in SUBSET {0, 1} /\ DataSize - SlotSize \in 0 .. DataSize
          BY <2>2, Constants
    <3>2. [n |-> n, slots |-> slots, free |-> DataSize - SlotSize] \in HeapPages
          BY <3>1 DEF HeapPages
    <3>3. DataSize - SlotSize >= SlotSize
          BY Constants
    <3> QED BY <2>1, <2>2, <3>2, <3>3 DEF IInv, Types
  <2>6. new \in PageInfo
        BY <2>1, <2>5, Constants DEF PageInfo, Available
  <2> HIDE DEF new
  <2>7. /\ Append(entries[dir], new) \in Seq(PageInfo)
        /\ Len(Append(entries[dir], new)) = Len(entries[dir]) + 1
        /\ Len(entries[dir]) \in Nat
        BY <1>1, <2>6, AppendProperties, LenProperties DEF IInv, Types
  <2>8. Types' /\ Rooms' /\ CallInv'
    <3>1. Types'
          BY <1>1, <2>1, <2>3, <2>4, <2>5, <2>7 DEF IInv, Types, GoTo
    <3>2. Len(entries[dir]) + 1 <= DirSlots
          BY <1>1, <2>7, Constants
    <3>3. Rooms'
          BY <1>1, <2>1, <2>3, <2>4, <2>5, <2>7, <3>2 DEF IInv, Types, Rooms
    <3>4. CallInv'
          BY <1>1, <2>1, <2>3 DEF IInv, CallInv, GoTo
    <3> QED BY <3>1, <3>3, <3>4
  <2>9. DirInv'
    <3>1. \A p \in Pages : entries'[p] # << >> => owner'[p] = "dir" \/ InChain(p)
          BY <1>1, <2>1, <2>3, <2>4 DEF IInv, Types, DirInv, InChain
    <3> QED BY <1>1, <2>3, <3>1 DEF IInv, DirInv, InChain, GoTo
  <2> QED BY <2>8, <2>9 DEF IInv
<1>3. CASE GoesOnWithoutPage(dir) /\ UNCHANGED <<owner, heap, entries>>
      BY <1>1, <1>3, PinType, ReturnKeeps DEF IInv, Types
<1>4. CASE Undefined /\ UNCHANGED <<owner, heap, entries>>
      BY <1>1, <1>4, UndefinedKeeps DEF file
<1> QED BY <1>2, <1>3, <1>4 DEF NewDataPage

LEMMA PutKeeps == ASSUME IInv, Put PROVE IInv'
<1>1. /\ pc = "put" /\ UNCHANGED <<owner, chain, last>> /\ dir \in Pages /\ pid \in Pages
      /\ pins[dir] - 1 \in Nat /\ len \in Nat
      BY InvTypes DEF Put, Running, IInv, CallInv, Types
<1>2. CASE Return("InsertRecord", "FAIL", "OK") /\ UNCHANGED <<heap, entries, pins>>
      BY <1>1, <1>2, ReturnKeeps DEF IInv, Types
<1>3. CASE Undefined /\ UNCHANGED <<heap, entries>>
      BY <1>1, <1>3, UndefinedKeeps DEF file
<1>4. ASSUME NEW ps, owner[pid] = "data", Unpin(dir), Return("InsertRecord", "OK", ps),
             heap' = [heap EXCEPT ![pid] = PageInserted(heap[pid], len)],
             entries' = [entries EXCEPT ![dir] = Recorded(entries[dir], pid, 1, heap'[pid])]
      PROVE  IInv'
  <2> DEFINE h  == PageInserted(heap[pid], len)
             es == Recorded(entries[dir], pid, 1, heap'[pid])
  <2>1. h \in HeapPages /\ h.free >= SlotSize
        BY <1>1, <1>4, InsertedIs DEF IInv, Types, Rooms
  <2>2. heap' = [heap EXCEPT ![pid] = h] /\ heap'[pid] = h
        BY <1>1, <1>4 DEF IInv, Types
  <2> HIDE DEF h
  <2>3. es \in Seq(PageInfo) /\ Len(es) = Len(entries[dir]) /\ entries[dir] \in Seq(PageInfo)
        BY <1>1, <2>1, <2>2, RecordedIs DEF IInv, Types
  <2>4. entries' = [entries EXCEPT ![dir] = es]
        BY <1>4
  <2> HIDE DEF es
  <2>5. es # << >> => entries[dir] # << >>
        BY <2>3, EmptySeq
  <2>6. pc' = "idle" /\ len' \in Nat
        BY <1>4 DEF Return
  <2>7. pins' \in [Pages -> Nat]
        BY <1>1, <1>4 DEF IInv, Types, Unpin
  <2>8. Types' /\ Rooms'
        BY <1>1, <2>1, <2>2, <2>3, <2>4, <2>6, <2>7 DEF IInv, Types, Rooms
  <2>9. CallInv'
        BY <2>6, <2>7 DEF CallInv
  <2>10. DirInv'
    <3>1. \A p \in Pages : entries'[p] # << >> => entries[p] # << >>
          BY <1>1, <2>4, <2>5 DEF IInv, Types
    <3> QED BY <1>1, <2>6, <3>1 DEF IInv, DirInv, InChain
  <2> QED BY <2>8, <2>9, <2>10 DEF IInv
<1> QED BY <1>2, <1>3, <1>4 DEF Put

LEMMA DeleteRecordKeeps == ASSUME IInv, NEW p \in Pages, NEW s, DeleteRecord(p, s) PROVE IInv'
<1> DEFINE k  == DirOf(p)
           d  == chain[k]
           h  == PageDeleted(heap[p], s)
           es == Recorded(entries[d], p, -1, h)
<1>1. pc = "idle" /\ UNCHANGED <<chain, last>>
      BY DEF DeleteRecord, Ready
<1>2. CASE Undefined /\ UNCHANGED <<owner, entries, heap>>
      BY <1>1, <1>2, UndefinedKeeps DEF file
<1>3. CASE Return("DeleteRecord", "DONE", "OK") /\ UNCHANGED <<owner, entries, heap, pins>>
      BY <1>1, <1>3, ReturnKeeps DEF IInv, Types
<1>4. CASE /\ k # 0 /\ Pin(d) /\ Return("DeleteRecord", "FAIL", "OK")
           /\ UNCHANGED <<owner, entries, heap>>
      BY <1>1, <1>4, DirOfFound, PinType, ReturnKeeps, InvTypes DEF Types
<1>5. ASSUME NEW ps, k # 0, owner[p] = "data", heap' = [heap EXCEPT ![p] = h],
             DeletedFrom(d, p, h, ps)
      PROVE  IInv'
  <2>1. d \in Pages /\ InChain(d)
        BY <1>5, DirOfFound, InvTypes DEF InChain
  <2> HIDE DEF d
  <2>2. h \in HeapPages /\ h.free >= SlotSize
        BY <1>5, DeletedIs DEF IInv, Types, Rooms
  <2> HIDE DEF h
  <2>3. es \in Seq(PageInfo) /\ Len(es) = Len(entries[d]) /\ entries[d] \in Seq(PageInfo)
        BY <2>1, <2>2, RecordedIs DEF IInv, Types
  <2>4. /\ WithoutPage(es, p) \in Seq(PageInfo)
        /\ Len(WithoutPage(es, p)) <= Len(entries[d])
        BY <2>3, WithoutPageIs
  <2>5. Len(es) <= Len(entries[d])
        BY <2>3, LenProperties
  <2>6. PICK new \in {es, WithoutPage(es, p)} : entries' = [entries EXCEPT ![d] = new]
        BY <1>5 DEF DeletedFrom, es
  <2>7. \/ UNCHANGED pins
        \/ /\ pins' = [pins EXCEPT ![d] = @ + 1, ![p] = @ + 1]
           /\ Return("DeleteRecord", "FAIL", ps)
        BY <1>5 DEF DeletedFrom
  <2>8. UNCHANGED owner \/ owner' = [owner EXCEPT ![p] = "free"]
        BY <1>5 DEF DeletedFrom
  <2>9. pc' = "idle" /\ len' \in Nat
        BY <1>5 DEF DeletedFrom, Return
  <2>10. new \in Seq(PageInfo) /\ Len(new) <= Len(entries[d])
         BY <2>3, <2>4, <2>5, <2>6
  <2> HIDE DEF es
  <2>11. pins' \in [Pages -> Nat]
    <3>1. CASE pins' = [pins EXCEPT ![d] = @ + 1, ![p] = @ + 1]
      <4>1. pins \in [Pages -> Nat] /\ \A q \in Pages : pins[q] + 1 \in Nat /\ pins[q] + 1 + 1 \in Nat
            BY InvTypes DEF Types
      <4>2. ASSUME NEW q \in Pages PROVE pins'[q] \in Nat
        <5>1. CASE p = d
              BY <2>1, <3>1, <4>1, <5>1
        <5>2. CASE p # d
              BY <2>1, <3>1, <4>1, <5>2
        <5> QED BY <5>1, <5>2
      <4>3. pins' = [q \in Pages |-> pins'[q]]
            BY <3>1, <4>1
      <4> QED BY <4>2, <4>3
    <3> QED BY <2>7, <3>1 DEF IInv, Types
  <2>12. Types'
         BY <1>1, <1>5, <2>1, <2>2, <2>6, <2>8, <2>9, <2>10, <2>11 DEF IInv, Types
  <2>13. Rooms'
    <3>1. \A q \in Pages : owner'[q] = "data" => owner[q] = "data"
          BY <2>8 DEF IInv, Types
    <3>2. \A q \in Pages : owner[q] = "data" => heap'[q].free >= SlotSize
          BY <1>5, <2>2 DEF IInv, Types, Rooms
    <3>3. Len(new) <= DirSlots
      <4>1. Len(new) \in Nat /\ Len(entries[d]) \in Nat
            BY <2>3, <2>10, LenProperties
      <4> QED BY <2>1, <2>10, <4>1, Constants DEF IInv, Rooms
    <3>4. \A q \in Pages : Len(entries'[q]) <= DirSlots
          BY <2>1, <2>6, <3>3 DEF IInv, Types, Rooms
    <3> QED BY <3>1, <3>2, <3>4 DEF Rooms
  <2>14. CallInv'
         BY <2>9 DEF CallInv
  <2>15. DirInv'
    <3>1. ASSUME NEW q \in Pages, entries'[q] # << >> PROVE owner'[q] = "dir" \/ InChain(q)
      <4>1. q = d \/ entries'[q] = entries[q]
            BY <2>1, <2>6 DEF IInv, Types
      <4>2. owner[q] = "dir" => owner'[q] = "dir"
            BY <1>5, <2>8 DEF IInv, Types
      <4> QED BY <2>1, <3>1, <4>1, <4>2 DEF IInv, DirInv
    <3> QED BY <1>1, <2>9, <3>1 DEF IInv, DirInv, InChain
  <2> QED BY <2>12, <2>13, <2>14, <2>15 DEF IInv
<1> QED BY <1>2, <1>3, <1>4, <1>5 DEF DeleteRecord

LEMMA DeleteFileKeeps == ASSUME IInv, DeleteFile PROVE IInv'
<1>1. /\ pc = "idle" /\ UNCHANGED <<owner, chain, entries, heap, last, pins, ret>>
      /\ pc' = "delete" /\ len' = 0 /\ dir' = chain[1] /\ chain # << >>
      BY DEF DeleteFile, Ready, GoTo, file
<1>2. Contains(chain, chain[1])
      BY <1>1, InvTypes DEF Contains
<1>3. Types' /\ Rooms' /\ CallInv'
      BY <1>1, <1>2 DEF IInv, Types, Rooms, CallInv
<1>4. DirInv'
      BY <1>1 DEF IInv, DirInv, InChain
<1> QED BY <1>3, <1>4 DEF IInv

LEMMA OtherKeeps ==
    ASSUME IInv, NEW p \in Pages, owner[p] \in {"free", "other"}, NEW o \in {"free", "other"},
           owner' = [owner EXCEPT ![p] = o], pc = "idle",
           UNCHANGED <<chain, entries, heap, last, pins, call, ret>>
    PROVE  IInv'
<1>1. Types' /\ Rooms' /\ CallInv'
      BY DEF IInv, Types, Rooms, CallInv, call
<1>2. DirInv'
      BY DEF IInv, Types, DirInv, InChain, call
<1> QED BY <1>1, <1>2 DEF IInv

\* The parts of DeleteDirPage: the position of the directory page, the pages
\* that are freed before one that cannot be, and what is left of the pins.
Position  == SelectInSeq(chain, LAMBDA d : d = dir)
FirstKept == SelectInSeq(entries[dir], LAMBDA e : pins[e.pid] > 1)
Freed     == PagesOf(IF FirstKept = 0 THEN entries[dir]
                     ELSE SubSeq(entries[dir], 1, FirstKept - 1))
WithDir   == IF FirstKept = 0 /\ pins[dir] <= 1 THEN Freed \cup {dir} ELSE Freed

LEMMA PositionFound ==
    ASSUME IInv, pc = "delete"
    PROVE  Position \in 1 .. Len(chain) /\ chain[Position] = dir
<1> DEFINE I == {i \in 1 .. Len(chain) : chain[i] = dir}
<1>1. Position = IF I # {} THEN Min(I) ELSE 0
      BY DEF Position, SelectInSeq
<1>2. I # {} /\ Len(chain) \in Nat
      BY InvTypes DEF InChain
<1>3. Position \in I
  <2>1. I \in SUBSET (1 .. Len(chain))
        OBVIOUS
  <2> HIDE DEF I
  <2> QED BY <1>1, <1>2, <2>1, FirstIndex
<1> QED BY <1>3

LEMMA DeleteDirPageIs ==
    ASSUME DeleteDirPage
    PROVE  /\ pc = "delete"
           /\ \/ Undefined /\ UNCHANGED file
              \/ /\ owner[dir] = "dir" /\ (\A p \in Freed : owner[p] # "dir")
                 /\ FreeDirPage(entries[dir], FirstKept, Position, Freed)
BY DEF DeleteDirPage, Running, FirstKept, Position, Freed

LEMMA FreeDirPageIs ==
    ASSUME FreeDirPage(entries[dir], FirstKept, Position, Freed)
    PROVE  /\ owner' = [p \in Pages |-> IF p \in WithDir THEN "free" ELSE owner[p]]
           /\ pins' = [p \in Pages |->
                 IF p \in WithDir THEN 0
                 ELSE IF p = dir /\ FirstKept # 0 THEN pins[p] + 1 ELSE pins[p]]
           /\ UNCHANGED heap
           /\ \/ /\ dir \notin WithDir /\ Return("DeleteFile", "FAIL", "OK")
                 /\ UNCHANGED <<chain, entries, last>>
              \/ /\ dir \in WithDir /\ Position < Len(chain)
                 /\ GoTo("delete", 0, chain[Position + 1], INVALID_PAGE)
                 /\ UNCHANGED <<chain, entries, last>>
              \/ /\ dir \in WithDir /\ Position = Len(chain)
                 /\ chain' = << >> /\ entries' = [p \in Pages |-> << >>]
                 /\ last' = [h \in Handles |-> INVALID_PAGE]
                 /\ Return("DeleteFile", "OK", "OK")
BY DEF FreeDirPage, WithDir

LEMMA DeleteDirPageKeeps == ASSUME IInv, DeleteDirPage PROVE IInv'
<1>1. pc = "delete" /\ dir \in Pages /\ InChain(dir) /\ Len(chain) \in Nat
      BY DeleteDirPageIs, InvTypes
<1>2. CASE Undefined /\ UNCHANGED file
      BY <1>2, UndefinedKeeps
<1>3. CASE /\ owner[dir] = "dir" /\ (\A p \in Freed : owner[p] # "dir")
           /\ FreeDirPage(entries[dir], FirstKept, Position, Freed)
  <2>1. /\ owner' = [p \in Pages |-> IF p \in WithDir THEN "free" ELSE owner[p]]
        /\ pins' = [p \in Pages |->
              IF p \in WithDir THEN 0
              ELSE IF p = dir /\ FirstKept # 0 THEN pins[p] + 1 ELSE pins[p]]
        /\ heap' = heap
        BY <1>3, FreeDirPageIs
  <2>2. /\ owner' \in [Pages -> {"free", "dir", "data", "other"}]
        /\ pins' \in [Pages -> Nat] /\ heap' \in [Pages -> HeapPages]
        /\ \A p \in Pages : owner'[p] = "data" => owner[p] = "data"
        BY <2>1, InvTypes DEF IInv, Types
  <2>3. ASSUME NEW p \in Pages, owner[p] = "dir" PROVE owner'[p] = "dir" \/ p = dir
        BY <1>3, <2>1, <2>3 DEF WithDir
  <2>4. CASE /\ dir \notin WithDir /\ Return("DeleteFile", "FAIL", "OK")
             /\ UNCHANGED <<chain, entries, last>>
    <3>1. pc' = "idle" /\ len' \in Nat
          BY <2>4 DEF Return
    <3>2. Types' /\ Rooms' /\ CallInv'
          BY <2>1, <2>2, <2>4, <3>1 DEF IInv, Types, Rooms, CallInv
    <3>3. DirInv'
          BY <1>1, <2>3, <2>4, <3>1 DEF IInv, DirInv, InChain
    <3> QED BY <3>2, <3>3 DEF IInv
  <2>5. CASE /\ dir \in WithDir /\ Position < Len(chain)
             /\ GoTo("delete", 0, chain[Position + 1], INVALID_PAGE)
             /\ UNCHANGED <<chain, entries, last>>
    <3>1. pc' = "delete" /\ len' = 0 /\ dir' = chain[Position + 1] /\ ret' = ret
          BY <2>5 DEF GoTo
    <3>2. Position + 1 \in 1 .. Len(chain)
          BY <1>1, <2>5, PositionFound
    <3>3. Types' /\ Rooms' /\ CallInv'
          BY <2>1, <2>2, <2>5, <3>1, <3>2 DEF IInv, Types, Rooms, CallInv, Contains
    <3>4. DirInv'
          BY <1>1, <2>3, <2>5, <3>1 DEF IInv, DirInv, InChain
    <3> QED BY <3>3, <3>4 DEF IInv
  <2>6. CASE /\ dir \in WithDir /\ chain' = << >> /\ entries' = [p \in Pages |-> << >>]
             /\ last' = [h \in Handles |-> INVALID_PAGE]
             /\ Return("DeleteFile", "OK", "OK")
    <3>1. pc' = "idle" /\ len' \in Nat
          BY <2>6 DEF Return
    <3>2. /\ << >> \in Seq(Pages) /\ << >> \in Seq(PageInfo) /\ Len(<< >>) = 0
          BY EmptySeq
    <3>3. Types' /\ Rooms' /\ CallInv'
          BY <2>1, <2>2, <2>6, <3>1, <3>2, Constants
          DEF IInv, Types, Rooms, CallInv
    <3>4. DirInv'
          BY <2>6, <3>1, <3>2 DEF DirInv
    <3> QED BY <3>3, <3>4 DEF IInv
  <2> QED BY <1>3, <2>4, <2>5, <2>6, FreeDirPageIs
<1> QED BY <1>2, <1>3, DeleteDirPageIs

-----------------------------------------------------------------------------
(* The invariant *)

\* The invariant holds of a database without the file.
THEOREM InitInvariant == Init => IInv
<1> SUFFICES ASSUME Init PROVE IInv
    OBVIOUS
<1>1. << >> \in Seq(Pages) /\ << >> \in Seq(PageInfo) /\ Len(<< >>) = 0
      BY EmptySeq
<1>2. [n |-> 0, free |-> 0, slots |-> {}] \in HeapPages
      BY Constants DEF HeapPages
<1>3. Types
      BY <1>1, <1>2 DEF Init, Types
<1>4. Rooms /\ CallInv
      BY <1>1, Constants DEF Init, Rooms, CallInv
<1>5. DirInv
      BY <1>1 DEF Init, DirInv
<1> QED BY <1>3, <1>4, <1>5 DEF IInv

\* Every step keeps the invariant, whatever fails and whoever else allocates.
THEOREM NextInvariant == IInv /\ [Next]_vars => IInv'
<1> SUFFICES ASSUME IInv, [Next]_vars PROVE IInv'
    OBVIOUS
<1>1. CASE UNCHANGED vars
  <2>1. UNCHANGED <<owner, chain, entries, heap, last, pins, pc, len, dir, pid, ret>>
        BY <1>1 DEF vars, file, call
  <2>2. Types' /\ Rooms' /\ CallInv'
        BY <2>1 DEF IInv, Types, Rooms, CallInv
  <2>3. DirInv'
        BY <2>1 DEF IInv, DirInv, InChain
  <2> QED BY <2>2, <2>3 DEF IInv
<1>2. CASE \E h \in Handles : Create(h) \/ Open(h) \/ \E l \in Lengths : InsertRecord(h, l)
      BY <1>2, CreateKeeps, OpenKeeps, InsertRecordKeeps
<1>3. CASE NewDirPage \/ NewDataPage \/ Put
      BY <1>3, NewDirPageKeeps, NewDataPageKeeps, PutKeeps
<1>4. CASE \E p \in Pages, s \in 0 .. 2 :
              GetRecord(p, s) \/ DeleteRecord(p, s) \/ UpdateRecord(p, s)
      BY <1>4, GetRecordKeeps, DeleteRecordKeeps, UpdateRecordKeeps
<1>5. CASE DeleteFile \/ DeleteDirPage
      BY <1>5, DeleteFileKeeps, DeleteDirPageKeeps
<1>6. CASE OtherAllocates
  <2>1. NewPid \in Pages /\ owner[NewPid] = "free"
        BY <1>6, NewPidIsFree DEF OtherAllocates
  <2>2. /\ owner' = [owner EXCEPT ![NewPid] = "other"] /\ pc = "idle"
        /\ UNCHANGED <<chain, entries, heap, last, pins, call, ret>>
        BY <1>6 DEF OtherAllocates
  <2> QED BY <2>1, <2>2, OtherKeeps
<1>7. CASE \E p \in Pages : OtherFrees(p)
  <2>1. PICK p \in Pages : OtherFrees(p)
        BY <1>7
  <2>2. /\ owner' = [owner EXCEPT ![p] = "free"] /\ pc = "idle" /\ owner[p] = "other"
        /\ UNCHANGED <<chain, entries, heap, last, pins, call, ret>>
        BY <2>1 DEF OtherFrees
  <2> QED BY <2>2, OtherKeeps
<1> QED BY <1>1, <1>2, <1>3, <1>4, <1>5, <1>6, <1>7 DEF Next

\* The invariant the properties of the heap file follow from.
THEOREM Invariance == Spec => []IInv
BY InitInvariant, NextInvariant, PTL DEF Spec

-----------------------------------------------------------------------------
(* The pins *)

\* The pages of H are pinned once, and the directory page that a running
\* InsertRecord holds once more.
PinsAre(H) ==
    \A p \in Pages :
        pins[p] = (IF p \in H THEN 1 ELSE 0)
                  + (IF pc \in {"newdata", "put"} /\ p = dir THEN 1 ELSE 0)

\* As long as no call has failed, that is all, whatever H someone else pins;
\* DeleteFile takes no notice of it.
LEMMA PinsStep ==
    ASSUME IInv, NEW H, PinsAre(H), [Next]_vars, pc # "delete", ~ret'.failed
    PROVE  PinsAre(H)'
<1> DEFINE InH(p) == IF p \in H THEN 1 ELSE 0
<1>1. pins \in [Pages -> Nat] /\ \A p \in Pages : InH(p) \in Nat
      BY DEF IInv, Types
<1>2. CASE pc = "idle" /\ pc' \notin {"newdata", "put"} /\ UNCHANGED pins
      BY <1>2 DEF PinsAre
<1>3. CASE UNCHANGED <<pins, pc, dir>>
      BY <1>3 DEF PinsAre
<1>4. ASSUME NEW h \in Handles, NEW l \in Lengths, InsertRecord(h, l) PROVE PinsAre(H)'
  <2> DEFINE k == SelectInSeq(chain, LAMBDA d : RoomOf(d, l) # 0)
  <2>1. CASE pc' = "put" /\ k # 0 /\ dir' = chain[k] /\ Pin(chain[k]) /\ pc = "idle"
    <3>1. k = SelectInSeq(chain, LAMBDA d : RoomOf(d, l) # 0) /\ k # 0 /\ Types
          BY <2>1, InvTypes
    <3> HIDE DEF k
    <3>2. chain[k] \in Pages
          BY <3>1, RoomFound DEF SelectInSeq
    <3> QED BY <1>1, <2>1, <3>2 DEF PinsAre, Pin
  <2>2. ~Return("InsertRecord", "FAIL", "OK")
        BY Answers DEF Return
  <2> QED BY <1>2, <1>3, <1>4, <2>1, <2>2 DEF InsertRecord, Ready, Undefined, call
<1>5. CASE NewDirPage
  <2> DEFINE k == SelectInSeq(chain, LAMBDA d : Len(entries[d]) < DirSlots)
  <2>1. pc = "newdir"
        BY <1>5 DEF NewDirPage, Running
  <2>2. CASE k # 0 /\ Pin(chain[k]) /\ GoTo("newdata", len, chain[k], INVALID_PAGE)
    <3>1. k = SelectInSeq(chain, LAMBDA d : Len(entries[d]) < DirSlots) /\ k # 0 /\ Types
          BY <2>2, InvTypes
    <3> HIDE DEF k
    <3>2. chain[k] \in Pages
          BY <3>1, NotFullFound DEF SelectInSeq
    <3> QED BY <1>1, <2>1, <2>2, <3>2 DEF PinsAre, Pin, GoTo
  <2>3. CASE CanNewPage /\ Pin(NewPid) /\ GoTo("newdata", len, NewPid, INVALID_PAGE)
    <3>1. NewPid \in Pages
          BY <2>3, NewPidIsFree DEF CanNewPage
    <3> QED BY <1>1, <2>1, <2>3, <3>1 DEF PinsAre, Pin, GoTo
  <2>4. ~Return("InsertRecord", "FAIL", "OK")
        BY Answers DEF Return
  <2> QED BY <1>3, <1>5, <2>2, <2>3, <2>4
      DEF NewDirPage, GoesOnWithoutPage, Undefined, call
<1>6. CASE NewDataPage
  <2>1. pc = "newdata" /\ ~Return("InsertRecord", "FAIL", "OK")
        BY <1>6, Answers DEF NewDataPage, Running, Return
  <2>2. CASE GoTo("put", len, dir, NewPid) /\ UNCHANGED pins
        BY <2>1, <2>2 DEF PinsAre, GoTo
  <2> QED BY <1>3, <1>6, <2>1, <2>2 DEF NewDataPage, GoesOnWithoutPage, Undefined, call
<1>7. CASE Put
  <2>1. pc = "put" /\ dir \in Pages /\ ~Return("InsertRecord", "FAIL", "OK")
        BY <1>7, Answers DEF Put, Running, Return, IInv, CallInv
  <2>2. CASE Unpin(dir) /\ pc' = "idle"
        BY <1>1, <2>1, <2>2 DEF PinsAre, Unpin
  <2> QED BY <1>3, <1>7, <2>1, <2>2 DEF Put, Return, Undefined, call
<1>8. ASSUME NEW p \in Pages, NEW s, DeleteRecord(p, s) \/ UpdateRecord(p, s) \/ GetRecord(p, s)
      PROVE  PinsAre(H)'
  <2>1. \A c, ps : ~Return(c, "FAIL", ps)
        BY Answers DEF Return
  <2>2. pc = "idle" /\ UNCHANGED pins /\ pc' = "idle"
        BY <1>8, <2>1 DEF DeleteRecord, DeletedFrom, UpdateRecord, GetRecord, Ready,
           Return, Undefined, call
  <2> QED BY <1>2, <2>2
<1>9. CASE \/ \E h \in Handles : Create(h) \/ Open(h)
           \/ DeleteFile \/ OtherAllocates \/ \E p \in Pages : OtherFrees(p)
  <2>1. pc = "idle" /\ UNCHANGED pins /\ pc' \in {"idle", "delete"}
        BY <1>9 DEF Create, Open, DeleteFile, OtherAllocates, OtherFrees, Ready,
           Return, Undefined, GoTo, call
  <2> QED BY <1>2, <2>1
<1>10. CASE UNCHANGED vars
       BY <1>3, <1>10 DEF vars, call
<1>11. ~DeleteDirPage
       BY DEF DeleteDirPage, Running
<1> QED BY <1>4, <1>5, <1>6, <1>7, <1>8, <1>9, <1>10, <1>11 DEF Next

PinsInv == ~ret.failed => PinsAre({})

LEMMA FailedStays == ASSUME [Next]_vars, ~ret'.failed PROVE ~ret.failed
<1> SUFFICES UNCHANGED ret \/ \E c, s, ps : Answer(c, s, ps)
    BY Answers
<1>1. \A c, s, ps : Return(c, s, ps) => Answer(c, s, ps)
      BY DEF Return
<1>2. CASE \E h \in Handles : Create(h) \/ Open(h) \/ \E l \in Lengths : InsertRecord(h, l)
      BY <1>1, <1>2 DEF Create, Open, InsertRecord, Undefined
<1>3. CASE NewDirPage \/ NewDataPage \/ Put
      BY <1>1, <1>3 DEF NewDirPage, NewDataPage, Put, GoesOnWithoutPage, Undefined, GoTo
<1>4. CASE \E p \in Pages, s \in 0 .. 2 :
              GetRecord(p, s) \/ DeleteRecord(p, s) \/ UpdateRecord(p, s)
      BY <1>1, <1>4 DEF GetRecord, DeleteRecord, DeletedFrom, UpdateRecord, Undefined
<1>5. CASE DeleteFile \/ DeleteDirPage
      BY <1>1, <1>5, DeleteDirPageIs, FreeDirPageIs DEF DeleteFile, Undefined, GoTo
<1>6. CASE OtherAllocates \/ (\E p \in Pages : OtherFrees(p)) \/ UNCHANGED vars
      BY <1>6 DEF OtherAllocates, OtherFrees, vars
<1> QED BY <1>2, <1>3, <1>4, <1>5, <1>6 DEF Next

LEMMA PinsInvStep == ASSUME IInv, PinsInv, [Next]_vars PROVE PinsInv'
<1> SUFFICES ASSUME ~ret'.failed PROVE PinsAre({})'
    BY DEF PinsInv
<1>1. ~ret.failed
      BY FailedStays
<1>2. CASE pc # "delete"
      BY <1>1, <1>2, PinsStep DEF PinsInv
<1>3. CASE pc = "delete" /\ ~DeleteDirPage
  <2>1. UNCHANGED <<pins, pc, dir>>
        BY <1>3 DEF Next, Create, Open, InsertRecord, NewDirPage, NewDataPage, Put, GetRecord,
           DeleteRecord, UpdateRecord, DeleteFile, OtherAllocates, OtherFrees, Ready,
           Running, vars, call
  <2> QED BY <1>1, <2>1 DEF PinsInv, PinsAre
<1>4. CASE DeleteDirPage
  <2>1. pc = "delete" /\ \A p \in Pages : pins[p] = 0
        BY <1>1, <1>4 DEF DeleteDirPage, Running, PinsInv, PinsAre
  <2>2. CASE Undefined
        BY <1>1, <2>1, <2>2 DEF Undefined, call, PinsInv, PinsAre
  <2>3. CASE FreeDirPage(entries[dir], FirstKept, Position, Freed)
    <3>1. dir \in WithDir /\ pc' \in {"idle", "delete"}
          BY <2>3, FreeDirPageIs, Answers DEF Return, GoTo
    <3>2. FirstKept = 0
      <4>1. \A i \in 1 .. Len(entries[dir]) : ~(pins[entries[dir][i].pid] > 1)
            BY <2>1, InvTypes, EntryTypes
      <4> QED BY <4>1 DEF FirstKept, SelectInSeq
    <3> QED BY <2>1, <2>3, <3>1, <3>2, FreeDirPageIs DEF PinsAre
  <2> QED BY <1>4, <2>2, <2>3, DeleteDirPageIs
<1> QED BY <1>2, <1>3, <1>4

THEOREM PinsInvariance == Spec => []PinsInv
<1>1. Init => PinsInv
      BY DEF Init, PinsInv, PinsAre
<1>2. IInv /\ PinsInv /\ [Next]_vars => PinsInv'
      BY PinsInvStep
<1> QED BY Invariance, <1>1, <1>2, PTL DEF Spec

-----------------------------------------------------------------------------
(* The properties *)

\* The types; no directory page overflows, and no data page gives away more
\* space than it has.
THEOREM TypeCorrect == Spec => []TypeOK
<1>1. IInv => TypeOK
  <2> SUFFICES ASSUME IInv PROVE TypeOK
      OBVIOUS
  <2>1. \A d \in Pages : \A i \in 1 .. Len(entries[d]) : entries[d][i] \in PageInfo
        BY ElementOfSeq DEF IInv, Types
  <2> QED BY <2>1 DEF IInv, Types, Rooms, TypeOK, PageInfo, HeapPages
<1> QED BY Invariance, <1>1, PTL

\* As long as no call has failed, no page is pinned between calls.
THEOREM PinsReturned == Spec => []SuccessLeavesNoPin
<1>1. IInv /\ PinsInv => SuccessLeavesNoPin
      BY DEF PinsInv, PinsAre, SuccessLeavesNoPin, Pinned
<1> QED BY Invariance, PinsInvariance, <1>1, PTL

\* A directory page that has an entry keeps one.
LEMMA EntryKept ==
    ASSUME IInv, [Next]_vars, chain' # << >>, NEW d \in Pages, entries[d] # << >>
    PROVE  entries'[d] # << >>
<1>1. CASE UNCHANGED entries
      BY <1>1
<1>2. CASE entries' # entries
  <2>1. \/ \E h \in Handles : Create(h)
        \/ NewDirPage \/ NewDataPage \/ Put
        \/ \E p \in Pages, s \in 0 .. 2 : DeleteRecord(p, s)
        \/ DeleteDirPage
        BY <1>2 DEF Next, vars, file, Open, InsertRecord, GetRecord, UpdateRecord,
           DeleteFile, OtherAllocates, OtherFrees
  <2>2. ASSUME NEW h \in Handles, Create(h) PROVE entries'[d] # << >>
    <3>1. /\ CanNewPage /\ chain = << >>
          /\ entries' = [entries EXCEPT ![NewPid] = << >>]
          BY <1>2, <2>2 DEF Create, file
    <3>2. NewPid \in Pages /\ owner[NewPid] = "free"
          BY <3>1, NewPidIsFree DEF CanNewPage
    <3>3. ~InChain(d)
          BY <3>1, EmptySeq DEF InChain
    <3> QED BY <3>1, <3>2, <3>3 DEF IInv, DirInv, Types
  <2>3. CASE NewDirPage
    <3>1. /\ CanNewPage /\ pc = "newdir"
          /\ entries' = [entries EXCEPT ![NewPid] = << >>]
          BY <1>2, <2>3 DEF NewDirPage, Running
    <3>2. NewPid \in Pages /\ owner[NewPid] = "free"
          BY <3>1, NewPidIsFree DEF CanNewPage
    <3>3. InChain(d) => owner[d] = "dir"
          BY <3>1 DEF IInv, DirInv, InChain
    <3> QED BY <3>1, <3>2, <3>3 DEF IInv, DirInv, Types
  <2>4. CASE NewDataPage
    <3>1. dir \in Pages /\ CanNewPage
          BY <1>2, <2>4 DEF NewDataPage, Running, IInv, CallInv
    <3> DEFINE new == [pid |-> NewPid, space |-> Available(heap'[NewPid]), n |-> 0]
    <3>2. entries' = [entries EXCEPT ![dir] = Append(entries[dir], new)]
          BY <1>2, <2>4 DEF NewDataPage
    <3>3. Append(entries[dir], new) # << >>
      <4>1. new \in PageInfo
        <5>1. heap'[NewPid].free = DataSize - SlotSize /\ NewPid \in Pages
              BY <1>2, <2>4, <3>1, NewPidIsFree DEF NewDataPage, CanNewPage, IInv, Types
        <5> QED BY <5>1, Constants DEF PageInfo, Available
      <4> HIDE DEF new
      <4>2. /\ Append(entries[dir], new) \in Seq(PageInfo)
            /\ Len(Append(entries[dir], new)) = Len(entries[dir]) + 1
            /\ Len(entries[dir]) \in Nat
            BY <3>1, <4>1, AppendProperties, LenProperties DEF IInv, Types
      <4>3. Len(Append(entries[dir], new)) # 0
            BY <4>2
      <4>4. Len(<< >>) = 0
            BY EmptySeq
      <4> QED BY <4>3, <4>4
    <3> QED BY <3>1, <3>2, <3>3 DEF IInv, Types
  <2>5. CASE Put
    <3>1. /\ dir \in Pages /\ pid \in Pages /\ owner[pid] = "data" /\ len \in Nat
          /\ heap' = [heap EXCEPT ![pid] = PageInserted(heap[pid], len)]
          /\ entries' = [entries EXCEPT ![dir] = Recorded(entries[dir], pid, 1, heap'[pid])]
          BY <1>2, <2>5 DEF Put, Running, IInv, Types, CallInv
    <3>2. heap'[pid] \in HeapPages /\ heap'[pid].free >= SlotSize
          BY <3>1, InsertedIs DEF IInv, Types, Rooms
    <3>3. /\ Recorded(entries[dir], pid, 1, heap'[pid]) \in Seq(PageInfo)
          /\ Len(Recorded(entries[dir], pid, 1, heap'[pid])) = Len(entries[dir])
          BY <3>1, <3>2, RecordedIs DEF IInv, Types
    <3>4. entries[dir] # << >> => Recorded(entries[dir], pid, 1, heap'[pid]) # << >>
          BY <3>1, <3>3, EmptySeq DEF IInv, Types
    <3> QED BY <3>1, <3>4 DEF IInv, Types
  <2>6. ASSUME NEW p \in Pages, NEW s, DeleteRecord(p, s) PROVE entries'[d] # << >>
    <3> DEFINE e  == chain[DirOf(p)]
               h  == PageDeleted(heap[p], s)
               es == Recorded(entries[e], p, -1, h)
    <3>1. PICK ps : DirOf(p) # 0 /\ owner[p] = "data" /\ DeletedFrom(e, p, h, ps)
          BY <1>2, <2>6 DEF DeleteRecord, Undefined
    <3>2. e \in Pages /\ h \in HeapPages /\ h.free >= SlotSize
          BY <3>1, DirOfFound, DeletedIs DEF IInv, Types, Rooms
    <3>3. PICK new \in {es, WithoutPage(es, p)} : entries' = [entries EXCEPT ![e] = new]
          BY <3>1 DEF DeletedFrom
    <3> HIDE DEF e, h
    <3>4. es \in Seq(PageInfo) /\ Len(es) = Len(entries[e]) /\ entries[e] \in Seq(PageInfo)
          BY <3>2, RecordedIs DEF IInv, Types
    <3> HIDE DEF es
    <3>5. entries[e] # << >> => es # << >>
          BY <3>4, EmptySeq
    <3>6. entries[e] # << >> => new # << >>
          BY <3>3, <3>4, <3>5, WithoutPageIs
    <3> QED BY <3>2, <3>3, <3>6 DEF IInv, Types
  <2>7. CASE DeleteDirPage
        BY <1>2, <2>7, DeleteDirPageIs, FreeDirPageIs DEF file
  <2> QED BY <2>1, <2>2, <2>3, <2>4, <2>5, <2>6, <2>7
<1> QED BY <1>1, <1>2

\* A directory page that has an entry keeps one, so that the code that unlinks
\* empty directory pages is never reached.
THEOREM StayFilled == Spec => DirectoriesStayFilled
<1>1. IInv /\ [Next]_vars =>
         [\A d \in Pages : entries[d] # << >> /\ chain' # << >> => entries'[d] # << >>]_vars
      BY EntryKept
<1> QED BY Invariance, <1>1, PTL DEF Spec, DirectoriesStayFilled

-----------------------------------------------------------------------------
(* The chain, while the file is open once *)

OneHandle == \A g, h \in Handles : g = h

IsDir(p) == owner[p] = "dir"

\* While no call has failed, lastDirPid is the end of the chain, and the
\* directory pages are those of the chain; of those that DeleteFile has not
\* come to, while it runs.
Whole ==
    /\ \A h \in Handles : last[h] # INVALID_PAGE => chain # << >> /\ last[h] = Last(chain)
    /\ pc = "newdir" => who \in Handles /\ last[who] # INVALID_PAGE
    /\ pc # "delete" => \A p \in Pages : IsDir(p) <=> InChain(p)
    /\ pc = "delete" =>
          \E n \in 1 .. Len(chain) :
              /\ chain[n] = dir
              /\ \A p \in Pages : IsDir(p) <=> \E i \in n .. Len(chain) : chain[i] = p

WholeInv == undefined \/ ret.failed \/ Whole

\* Nothing but the answer, the pins and the data changes.
LEMMA SameWhole ==
    ASSUME Whole, UNCHANGED <<chain, last>>, pc # "delete", pc' \in {"idle", "newdata", "put"},
           \A p \in Pages : owner'[p] = "dir" <=> owner[p] = "dir"
    PROVE  Whole'
BY DEF Whole, IsDir, InChain

LEMMA CreateWhole ==
    ASSUME IInv, Whole, OneHandle, NEW h \in Handles, Create(h), ~ret'.failed PROVE Whole'
<1>1. /\ CanNewPage /\ chain = << >> /\ pc = "idle" /\ pc' = "idle"
      /\ owner' = [owner EXCEPT ![NewPid] = "dir"]
      /\ chain' = <<NewPid>> /\ last' = [last EXCEPT ![h] = NewPid]
      BY Answers DEF Create, call
<1>2. NewPid \in Pages
      BY <1>1, NewPidIsFree DEF CanNewPage
<1>3. \A p \in Pages : ~IsDir(p)
      BY <1>1, EmptySeq DEF Whole, InChain
<1> DEFINE q == NewPid
<1> HIDE DEF q
<1>4. /\ \A p \in Pages : IsDir(p)' <=> p = q
      /\ \A g \in Handles : last'[g] = q
      BY <1>1, <1>2, <1>3 DEF IInv, Types, IsDir, OneHandle, q
<1>5. chain' = <<q>>
      BY <1>1 DEF q
<1>6. chain' # << >> /\ Last(chain') = q /\ \A p \in Pages : InChain(p)' <=> p = q
      BY <1>5 DEF Last, InChain
<1> QED BY <1>1, <1>4, <1>6 DEF Whole

LEMMA OpenWhole ==
    ASSUME IInv, Whole, NEW h \in Handles, Open(h), ~ret'.failed, ~undefined' PROVE Whole'
<1>1. /\ pc = "idle" /\ pc' = "idle" /\ chain # << >>
      /\ last' = [last EXCEPT ![h] = Last(chain)] /\ UNCHANGED <<owner, chain>>
      BY Answers DEF Open, Ready, Return, Undefined
<1> QED BY <1>1 DEF IInv, Types, Whole, IsDir, InChain

LEMMA InsertRecordWhole ==
    ASSUME Whole, NEW h \in Handles, NEW l, InsertRecord(h, l), ~ret'.failed, ~undefined'
    PROVE  Whole'
<1>1. /\ pc = "idle" /\ last[h] # INVALID_PAGE /\ UNCHANGED <<owner, chain, last>>
      /\ pc' = "put" \/ (pc' = "newdir" /\ who' = h)
      BY Answers DEF InsertRecord, Ready, Return, Undefined, file
<1> QED BY <1>1 DEF Whole, IsDir, InChain

LEMMA NewDirPageWhole ==
    ASSUME IInv, Whole, OneHandle, NewDirPage, ~ret'.failed, ~undefined' PROVE Whole'
<1> DEFINE k == SelectInSeq(chain, LAMBDA d : Len(entries[d]) < DirSlots)
           q == NewPid
<1>1. pc = "newdir"
      BY DEF NewDirPage, Running
<1>2. CASE /\ GoTo("newdata", len, chain[k], INVALID_PAGE)
           /\ UNCHANGED <<owner, entries, chain, last>>
      BY <1>1, <1>2, SameWhole DEF GoTo
<1>3. CASE /\ CanNewPage /\ owner' = [owner EXCEPT ![q] = "dir"]
           /\ chain' = Linked(last[who], q) /\ last' = [last EXCEPT ![who] = q]
           /\ GoTo("newdata", len, q, INVALID_PAGE)
  <2>1. q \in Pages /\ owner[q] = "free"
        BY <1>3, NewPidIsFree DEF CanNewPage
  <2> HIDE DEF q, k
  <2>2. who \in Handles /\ chain # << >> /\ last[who] = Last(chain)
        BY <1>1 DEF Whole
  <2>3. ~InChain(q)
        BY <1>1, <2>1 DEF Whole, IsDir
  <2>4. chain \in Seq(Pages) /\ Len(chain) \in Nat
        BY InvTypes DEF Types
  <2>5. chain' = Append(chain, q)
        BY <1>3, <2>1, <2>2, <2>3, <2>4, LinkedIs DEF IInv, DirInv
  <2>6. /\ Len(chain') = Len(chain) + 1 /\ chain'[Len(chain) + 1] = q
        /\ \A i \in 1 .. Len(chain) : chain'[i] = chain[i]
        BY <2>1, <2>4, <2>5, AppendProperties
  <2>7. chain' # << >> /\ Last(chain') = q
    <3>1. Len(chain') # 0 /\ Len(<< >>) = 0
          BY <2>4, <2>6, EmptySeq
    <3> QED BY <2>6, <3>1 DEF Last
  <2>8. \A p \in Pages : InChain(p)' <=> InChain(p) \/ p = q
    <3>1. 1 .. Len(chain') = (1 .. Len(chain)) \cup {Len(chain) + 1}
          BY <2>4, <2>6
    <3> QED BY <2>4, <2>6, <3>1 DEF InChain
  <2>9. \A p \in Pages : IsDir(p)' <=> IsDir(p) \/ p = q
        BY <1>3, <2>1 DEF IInv, Types, IsDir
  <2>10. \A h \in Handles : last'[h] = q
         BY <1>3, <2>2 DEF IInv, Types, OneHandle
  <2>11. pc' = "newdata"
         BY <1>3 DEF GoTo
  <2> QED BY <1>1, <2>7, <2>8, <2>9, <2>10, <2>11 DEF Whole
<1>4. ~Return("InsertRecord", "FAIL", "OK") /\ ~Undefined
      BY Answers DEF Return, Undefined
<1> QED BY <1>2, <1>3, <1>4 DEF NewDirPage, GoesOnWithoutPage

LEMMA NewDataPageWhole ==
    ASSUME IInv, Whole, NewDataPage, ~ret'.failed, ~undefined' PROVE Whole'
<1>1. /\ pc = "newdata" /\ pc' = "put" /\ CanNewPage /\ UNCHANGED <<chain, last>>
      /\ owner' = [owner EXCEPT ![NewPid] = "data"]
      BY Answers DEF NewDataPage, Running, Return, Undefined, GoesOnWithoutPage, GoTo
<1>2. NewPid \in Pages /\ owner[NewPid] = "free"
      BY <1>1, NewPidIsFree DEF CanNewPage
<1>3. \A p \in Pages : owner'[p] = "dir" <=> owner[p] = "dir"
      BY <1>1, <1>2 DEF IInv, Types
<1> QED BY <1>1, <1>3, SameWhole

LEMMA OtherWhole ==
    ASSUME IInv, Whole, NEW p \in Pages, owner[p] \in {"free", "other", "data"},
           owner' = [owner EXCEPT ![p] = "free"] \/ owner' = [owner EXCEPT ![p] = "other"],
           pc = "idle", pc' = "idle", UNCHANGED <<chain, last>>
    PROVE  Whole'
<1>1. \A r \in Pages : owner'[r] = "dir" <=> owner[r] = "dir"
      BY DEF IInv, Types
<1> QED BY <1>1, SameWhole

LEMMA DeleteRecordWhole ==
    ASSUME IInv, Whole, NEW p \in Pages, NEW s, DeleteRecord(p, s), ~ret'.failed, ~undefined'
    PROVE  Whole'
<1>1. /\ pc = "idle" /\ pc' = "idle" /\ UNCHANGED <<chain, last>>
      /\ \/ UNCHANGED owner
         \/ owner[p] = "data" /\ owner' = [owner EXCEPT ![p] = "free"]
      BY DEF DeleteRecord, DeletedFrom, Ready, Return, Undefined
<1>2. CASE UNCHANGED owner
      BY <1>1, <1>2, SameWhole
<1> QED BY <1>1, <1>2, OtherWhole

LEMMA DeleteFileWhole == ASSUME IInv, Whole, DeleteFile PROVE Whole'
<1>1. /\ pc = "idle" /\ pc' = "delete" /\ dir' = chain[1] /\ UNCHANGED <<owner, chain, last>>
      /\ chain # << >>
      BY DEF DeleteFile, Ready, GoTo, file
<1>2. 1 \in 1 .. Len(chain)
      BY <1>1, InvTypes
<1> QED BY <1>1, <1>2 DEF Whole, IsDir, InChain

LEMMA DeleteDirPageWhole ==
    ASSUME IInv, Whole, DeleteDirPage, ~ret'.failed, ~undefined' PROVE Whole'
<1>1. /\ pc = "delete" /\ FreeDirPage(entries[dir], FirstKept, Position, Freed)
      /\ \A p \in Freed : owner[p] # "dir"
      BY DeleteDirPageIs DEF Undefined
<1>2. /\ owner' = [p \in Pages |-> IF p \in WithDir THEN "free" ELSE owner[p]]
      /\ dir \in WithDir
      BY <1>1, FreeDirPageIs, Answers DEF Return
<1>3. \A p \in Pages : IsDir(p)' <=> IsDir(p) /\ p # dir
      BY <1>1, <1>2 DEF IsDir, WithDir
<1>4. /\ Len(chain) \in Nat /\ Position \in 1 .. Len(chain) /\ chain[Position] = dir
      /\ \A i, j \in 1 .. Len(chain) : chain[i] = chain[j] => i = j
      BY <1>1, PositionFound, InvTypes DEF IInv, DirInv
<1>5. \A p \in Pages : IsDir(p) <=> \E i \in Position .. Len(chain) : chain[i] = p
      BY <1>1, <1>4 DEF Whole
<1> DEFINE n == Position
<1> HIDE DEF n
<1>6. \A p \in Pages : IsDir(p)' <=> \E i \in n + 1 .. Len(chain) : chain[i] = p
  <2>1. /\ \A i \in n + 1 .. Len(chain) : i \in n .. Len(chain) /\ i \in 1 .. Len(chain) /\ i # n
        /\ \A i \in n .. Len(chain) : i = n \/ i \in n + 1 .. Len(chain)
        BY <1>4 DEF n
  <2> QED BY <1>3, <1>4, <1>5, <2>1 DEF n
<1>7. CASE /\ n < Len(chain) /\ GoTo("delete", 0, chain[n + 1], INVALID_PAGE)
           /\ UNCHANGED <<chain, last>>
  <2>1. n + 1 \in 1 .. Len(chain) /\ pc' = "delete" /\ dir' = chain[n + 1]
        BY <1>4, <1>7 DEF n, GoTo
  <2> QED BY <1>1, <1>6, <1>7, <2>1 DEF Whole
<1>8. CASE /\ n = Len(chain) /\ chain' = << >> /\ last' = [h \in Handles |-> INVALID_PAGE]
           /\ Return("DeleteFile", "OK", "OK")
  <2>1. pc' = "idle" /\ \A p \in Pages : ~IsDir(p)'
        BY <1>4, <1>6, <1>8 DEF Return
  <2>2. \A p \in Pages : ~InChain(p)'
        BY <1>8, EmptySeq DEF InChain
  <2> QED BY <1>8, <2>1, <2>2 DEF Whole
<1> QED BY <1>1, <1>2, <1>7, <1>8, FreeDirPageIs DEF n

LEMMA WholeStep ==
    ASSUME IInv, WholeInv, OneHandle, [Next]_vars PROVE WholeInv'
<1>1. CASE UNCHANGED vars
      BY <1>1 DEF vars, file, call, WholeInv, Whole, IsDir, InChain
<1>2. ASSUME Next, ~undefined', ~ret'.failed PROVE Whole'
  <2>1. CASE \E h \in Handles : Create(h) \/ Open(h) \/ \E l \in Lengths : InsertRecord(h, l)
    <3>1. PICK h \in Handles : Create(h) \/ Open(h) \/ \E l \in Lengths : InsertRecord(h, l)
          BY <2>1
    <3>2. ~ret.failed /\ ~undefined
          BY <1>2, <3>1, Answers
          DEF Create, Open, InsertRecord, Ready, Return, Undefined
    <3> QED BY <1>2, <3>1, <3>2, CreateWhole, OpenWhole, InsertRecordWhole DEF WholeInv
  <2>2. CASE NewDirPage \/ NewDataPage
    <3>1. ~ret.failed /\ ~undefined
          BY <1>2, <2>2, Answers
          DEF NewDirPage, NewDataPage, Running, GoesOnWithoutPage, GoTo, Return, Undefined
    <3> QED BY <1>2, <2>2, <3>1, NewDirPageWhole, NewDataPageWhole DEF WholeInv
  <2>3. CASE Put
    <3>1. /\ ~ret.failed /\ ~undefined /\ pc = "put" /\ pc' = "idle"
          /\ UNCHANGED <<owner, chain, last>>
          BY <1>2, <2>3, Answers DEF Put, Running, Return, Undefined
    <3> QED BY <3>1, SameWhole DEF WholeInv
  <2>4. CASE \E p \in Pages, s \in 0 .. 2 : GetRecord(p, s) \/ UpdateRecord(p, s)
    <3>1. PICK p \in Pages, s \in 0 .. 2 : GetRecord(p, s) \/ UpdateRecord(p, s)
          BY <2>4
    <3>2. /\ ~ret.failed /\ ~undefined /\ pc = "idle" /\ pc' = "idle"
          /\ UNCHANGED <<owner, chain, last>>
          BY <1>2, <3>1, Answers
          DEF GetRecord, UpdateRecord, Ready, Return, Undefined, file, call
    <3> QED BY <3>2, SameWhole DEF WholeInv
  <2>5. CASE \E p \in Pages, s \in 0 .. 2 : DeleteRecord(p, s)
    <3>1. PICK p \in Pages, s \in 0 .. 2 : DeleteRecord(p, s)
          BY <2>5
    <3>2. ~ret.failed /\ ~undefined
          BY <1>2, <3>1, Answers DEF DeleteRecord, DeletedFrom, Ready, Return, Undefined
    <3> QED BY <1>2, <3>1, <3>2, DeleteRecordWhole DEF WholeInv
  <2>6. CASE DeleteFile
    <3>1. ~ret.failed /\ ~undefined
          BY <1>2, <2>6 DEF DeleteFile, Ready, GoTo
    <3> QED BY <2>6, <3>1, DeleteFileWhole DEF WholeInv
  <2>7. CASE DeleteDirPage
    <3>1. ~ret.failed /\ ~undefined
      <4>1. ~undefined
            BY <2>7 DEF DeleteDirPage, Running
      <4>2. FreeDirPage(entries[dir], FirstKept, Position, Freed)
            BY <1>2, <2>7, DeleteDirPageIs DEF Undefined
      <4>3. ~ret.failed
            BY <1>2, <4>2, FreeDirPageIs, Answers DEF Return, GoTo
      <4> QED BY <4>1, <4>3
    <3> QED BY <1>2, <2>7, <3>1, DeleteDirPageWhole DEF WholeInv
  <2>8. CASE OtherAllocates
    <3>1. /\ ~ret.failed /\ ~undefined /\ pc = "idle" /\ pc' = "idle" /\ FreePages # {}
          /\ owner' = [owner EXCEPT ![NewPid] = "other"] /\ UNCHANGED <<chain, last>>
          BY <1>2, <2>8 DEF OtherAllocates, call
    <3> QED BY <3>1, NewPidIsFree, OtherWhole DEF WholeInv
  <2>9. CASE \E p \in Pages : OtherFrees(p)
    <3>1. PICK p \in Pages : OtherFrees(p)
          BY <2>9
    <3>2. /\ ~ret.failed /\ ~undefined /\ pc = "idle" /\ pc' = "idle" /\ owner[p] = "other"
          /\ owner' = [owner EXCEPT ![p] = "free"] /\ UNCHANGED <<chain, last>>
          BY <1>2, <3>1 DEF OtherFrees, call
    <3> QED BY <3>2, OtherWhole DEF WholeInv
  <2>10. CASE Stop /\ UNCHANGED vars
         BY <1>2, <2>10 DEF vars, file, call, WholeInv, Whole, IsDir, InChain
  <2> QED BY <1>2, <2>1, <2>2, <2>3, <2>4, <2>5, <2>6, <2>7, <2>8, <2>9, <2>10 DEF Next
<1> QED BY <1>1, <1>2 DEF WholeInv

\* With one HeapFile object for the file, every directory page that was ever
\* made is in the chain, once, and lastDirPid is the end of it, until a call
\* fails.
THEOREM ChainWhole == OneHandle /\ Spec => []ChainIsWhole
<1>1. Init => WholeInv
  <2>1. Init => ~InChain(0) /\ \A p \in Pages : ~InChain(p)
        BY EmptySeq DEF Init, InChain
  <2> QED BY <2>1 DEF Init, WholeInv, Whole, IsDir
<1>2. OneHandle /\ IInv /\ WholeInv /\ [Next]_vars => WholeInv'
      BY WholeStep
<1>3. OneHandle /\ [Next]_vars => OneHandle'
      BY DEF OneHandle
<1>4. IInv /\ WholeInv => ChainIsWhole
  <2> SUFFICES ASSUME IInv, WholeInv, chain # << >>, ~undefined PROVE
          /\ IsInjective(chain)
          /\ pc # "delete" /\ ~ret.failed =>
                /\ \A h \in Handles : last[h] # INVALID_PAGE => last[h] = Last(chain)
                /\ {p \in Pages : owner[p] = "dir"} = ToSet(chain)
      BY DEF ChainIsWhole
  <2>1. DOMAIN chain = 1 .. Len(chain) /\ \A i \in 1 .. Len(chain) : chain[i] \in Pages
        BY InvTypes, LenProperties DEF Types
  <2>2. IsInjective(chain)
        BY <2>1 DEF IInv, DirInv, IsInjective
  <2>3. ASSUME pc # "delete", ~ret.failed
        PROVE  /\ \A h \in Handles : last[h] # INVALID_PAGE => last[h] = Last(chain)
               /\ {p \in Pages : owner[p] = "dir"} = ToSet(chain)
        BY <2>1, <2>3 DEF WholeInv, Whole, IsDir, InChain, ToSet
  <2> QED BY <2>2, <2>3
<1> QED BY Invariance, <1>1, <1>2, <1>3, <1>4, PTL DEF Spec

-----------------------------------------------------------------------------
(* The directory pages agree with the data pages, while none of those has   *)
(* been freed, if the file is open once: the inductive invariant, beside     *)
(* IInv                                                                      *)

\* Directory page d has an entry of page p.
Named(d, p) == \E i \in 1 .. Len(entries[d]) : entries[d][i].pid = p

\* lastDirPid is the end of the chain, whatever has failed.
Ends ==
    /\ \A h \in Handles : last[h] # INVALID_PAGE => chain # << >> /\ last[h] = Last(chain)
    /\ pc = "newdir" => who \in Handles /\ last[who] # INVALID_PAGE

\* The InsertRecord that is running holds a directory page of the chain, and
\* the record goes into a page that this one names.
Holds ==
    /\ pc \in {"newdata", "put"} => InChain(dir)
    /\ pc = "put" => Named(dir, pid)

\* Every data page is named, also when pages have been freed; by a directory
\* page that DeleteFile has not come to, while it runs.
Placed ==
    /\ pc # "delete" => \A p \in Pages : owner[p] = "data" =>
          \E d \in Pages : InChain(d) /\ Named(d, p)
    /\ pc = "delete" =>
          \E n \in 1 .. Len(chain) :
              /\ chain[n] = dir
              /\ \A p \in Pages : owner[p] = "data" =>
                    \E i \in n .. Len(chain) : Named(chain[i], p)

\* Entry i of directory page d.
IsEntry(d, i) == InChain(d) /\ i \in 1 .. Len(entries[d])

\* The entries are those of data pages, with the space they have, and no page
\* has two.
Agreed ==
    /\ \A d \in Pages : InChain(d) => owner[d] = "dir"
    /\ \A d \in Pages, i \in Nat : IsEntry(d, i) =>
          /\ owner[entries[d][i].pid] = "data"
          /\ entries[d][i].space = Available(heap[entries[d][i].pid])
    /\ \A c, d \in Pages, i, j \in Nat :
          IsEntry(c, i) /\ IsEntry(d, j) /\ entries[c][i].pid = entries[d][j].pid
             => c = d /\ i = j

Agreement == Ends /\ Holds /\ Placed /\ (~freed => Agreed)

\* What happens after a call whose effect is undefined is left open.
AgreementInv == undefined \/ Agreement

-----------------------------------------------------------------------------
(* The operators *)

\* Recorded changes the first entry of the page, and only its numbers.
LEMMA RecordedAt ==
    ASSUME NEW es \in Seq(PageInfo), NEW p, NEW c, NEW h
    PROVE  \A i \in 1 .. Len(es) :
              /\ Recorded(es, p, c, h)[i].pid = es[i].pid
              /\ es[i].pid # p => Recorded(es, p, c, h)[i].space = es[i].space
              /\ (es[i].pid = p /\ \A j \in 1 .. Len(es) : es[j].pid = p => j = i)
                    => Recorded(es, p, c, h)[i].space = Available(h)
<1> DEFINE I == {i \in 1 .. Len(es) : es[i].pid = p}
           j == SelectInSeq(es, LAMBDA e : e.pid = p)
<1>1. Len(es) \in Nat /\ \A i \in 1 .. Len(es) : es[i] \in PageInfo
      BY LenProperties, ElementOfSeq
<1>2. j = IF I # {} THEN Min(I) ELSE 0
      BY DEF SelectInSeq
<1>3. (j = 0 <=> I = {}) /\ (j # 0 => j \in I)
  <2>1. I \in SUBSET (1 .. Len(es))
        OBVIOUS
  <2> HIDE DEF I, j
  <2> QED BY <1>1, <1>2, <2>1, FirstIndex
<1>4. \A i \in 1 .. Len(es) :
         Recorded(es, p, c, h)[i] =
            IF i = j THEN [es[i] EXCEPT !.n = @ + c, !.space = Available(h)] ELSE es[i]
      BY DEF Recorded
<1> HIDE DEF j
<1>5. ASSUME NEW i \in 1 .. Len(es)
      PROVE  LET r == Recorded(es, p, c, h)[i]
             IN  /\ r.pid = es[i].pid
                 /\ r.space = IF i = j THEN Available(h) ELSE es[i].space
      BY <1>1, <1>4, <1>5 DEF PageInfo
<1>6. ASSUME NEW i \in 1 .. Len(es), es[i].pid = p,
             \A m \in 1 .. Len(es) : es[m].pid = p => m = i
      PROVE  i = j
      BY <1>3, <1>6
<1>7. \A i \in 1 .. Len(es) : i = j => es[i].pid = p
      BY <1>3
<1> QED BY <1>5, <1>6, <1>7

\* An entry of another page is still there after WithoutPage.
LEMMA OthersStay ==
    ASSUME NEW es \in Seq(PageInfo), NEW p, NEW q \in PagesOf(es), q # p
    PROVE  q \in PagesOf(WithoutPage(es, p))
<1> DEFINE I == {i \in 1 .. Len(es) : es[i].pid = p}
           j == SelectInSeq(es, LAMBDA e : e.pid = p)
           a == SubSeq(es, 1, j - 1)
           b == SubSeq(es, j + 1, Len(es))
<1>1. Len(es) \in Nat /\ \A i \in 1 .. Len(es) : es[i] \in PageInfo
      BY LenProperties, ElementOfSeq
<1>2. j = IF I # {} THEN Min(I) ELSE 0
      BY DEF SelectInSeq
<1>3. j \in 0 .. Len(es) /\ (j # 0 => es[j].pid = p)
  <2>1. I \in SUBSET (1 .. Len(es)) /\ \A i \in I : es[i].pid = p
        OBVIOUS
  <2> HIDE DEF I, j
  <2> QED BY <1>1, <1>2, <2>1, FirstIndex
<1>4. WithoutPage(es, p) = IF j = 1 THEN es ELSE a \o b
      BY DEF WithoutPage, RemoveAt
<1> HIDE DEF j
<1>5. PICK i \in 1 .. Len(es) : es[i].pid = q
      BY DEF PagesOf
<1>6. i # j
      BY <1>3, <1>5
<1>7. CASE j = 1
      BY <1>4, <1>5, <1>7 DEF PagesOf
<1>8. CASE j # 1
  <2>1. /\ \A m \in 1 .. j - 1 : es[m] \in PageInfo
        /\ \A m \in j + 1 .. Len(es) : es[m] \in PageInfo
        /\ j - 1 \in Int /\ j + 1 \in Int /\ Len(es) \in Int
        BY <1>1, <1>3
  <2>2. /\ a \in Seq(PageInfo) /\ Len(a) = IF 1 <= j - 1 THEN (j - 1) - 1 + 1 ELSE 0
        /\ \A m \in 1 .. (j - 1) - 1 + 1 : a[m] = es[1 + m - 1]
        BY <2>1, SubSeqProperties
  <2>3. /\ b \in Seq(PageInfo)
        /\ Len(b) = IF j + 1 <= Len(es) THEN Len(es) - (j + 1) + 1 ELSE 0
        /\ \A m \in 1 .. Len(es) - (j + 1) + 1 : b[m] = es[(j + 1) + m - 1]
        BY <2>1, SubSeqProperties
  <2> HIDE DEF a, b
  <2>4. /\ Len(a) = IF j = 0 THEN 0 ELSE j - 1
        /\ \A m \in 1 .. j - 1 : a[m] = es[m]
        /\ Len(b) = Len(es) - j
        /\ \A m \in 1 .. Len(es) - j : b[m] = es[j + m]
    <3>1. /\ (j - 1) - 1 + 1 = j - 1 /\ Len(es) - (j + 1) + 1 = Len(es) - j
          /\ \A m \in 1 .. j - 1 : 1 + m - 1 = m
          /\ \A m \in 1 .. Len(es) - j : (j + 1) + m - 1 = j + m
          BY <1>1, <1>3
    <3>2. Len(a) = IF j = 0 THEN 0 ELSE j - 1
          BY <1>3, <1>8, <2>2, <3>1
    <3>3. Len(b) = Len(es) - j
      <4>1. CASE j + 1 <= Len(es)
            BY <2>3, <3>1, <4>1
      <4>2. CASE ~(j + 1 <= Len(es))
        <5>1. Len(b) = 0 /\ j = Len(es)
              BY <1>1, <1>3, <2>3, <4>2
        <5> QED BY <1>1, <5>1
      <4> QED BY <4>1, <4>2
    <3> QED BY <2>2, <2>3, <3>1, <3>2, <3>3
  <2>5. /\ Len(a \o b) = Len(a) + Len(b)
        /\ \A m \in 1 .. Len(a) + Len(b) :
              (a \o b)[m] = IF m <= Len(a) THEN a[m] ELSE b[m - Len(a)]
        BY <2>2, <2>3, ConcatProperties
  <2>6. CASE i < j
    <3>1. i \in 1 .. j - 1 /\ i \in 1 .. Len(a) + Len(b) /\ i <= Len(a)
          BY <1>1, <1>3, <2>4, <2>6
    <3> QED BY <1>4, <1>5, <1>8, <2>4, <2>5, <3>1 DEF PagesOf
  <2>7. CASE i > j /\ j # 0
    <3>1. /\ i - 1 \in 1 .. Len(a) + Len(b) /\ ~(i - 1 <= Len(a))
          /\ (i - 1) - Len(a) = i - j /\ i - j \in 1 .. Len(es) - j /\ j + (i - j) = i
          BY <1>1, <1>3, <1>8, <2>4, <2>7
    <3>2. (a \o b)[i - 1] = es[i]
          BY <2>4, <2>5, <3>1
    <3> QED BY <1>4, <1>5, <1>8, <2>5, <3>1, <3>2 DEF PagesOf
  <2>8. CASE j = 0
    <3>1. /\ i \in 1 .. Len(a) + Len(b) /\ ~(i <= Len(a))
          /\ i - Len(a) = i /\ i \in 1 .. Len(es) - j /\ j + i = i
          BY <1>1, <2>4, <2>8
    <3>2. (a \o b)[i] = es[i]
          BY <2>4, <2>5, <3>1
    <3> QED BY <1>4, <1>5, <1>8, <2>5, <3>1, <3>2 DEF PagesOf
  <2> QED BY <1>3, <1>6, <2>6, <2>7, <2>8
<1> QED BY <1>7, <1>8

-----------------------------------------------------------------------------
(* The steps *)

\* No entry changes: pages become others, or empty directory pages, but not
\* data pages.
LEMMA SameEntries ==
    ASSUME IInv, Agreement, pc # "delete", pc' # "delete", UNCHANGED <<heap, freed>>,
           \A p \in Pages : owner'[p] = owner[p]
                               \/ (owner[p] \in {"free", "other"} /\ owner'[p] # "data"),
           \A d \in Pages : InChain(d) => InChain(d)' /\ entries'[d] = entries[d],
           \A d \in Pages : InChain(d)' =>
              InChain(d) \/ (owner'[d] = "dir" /\ entries'[d] = << >>)
    PROVE  Placed' /\ (~freed' => Agreed')
<1>1. Len(<< >>) = 0
      BY EmptySeq
<1>2. Placed'
  <2>1. ASSUME NEW p \in Pages, owner'[p] = "data"
        PROVE  \E d \in Pages : InChain(d)' /\ Named(d, p)'
    <3>1. PICK d \in Pages : InChain(d) /\ Named(d, p)
          BY <2>1 DEF Agreement, Placed
    <3> QED BY <3>1 DEF Named
  <2> QED BY <2>1 DEF Placed
<1>3. ASSUME ~freed' PROVE Agreed'
  <2>1. Agreed
        BY <1>3 DEF Agreement
  <2>2. \A d \in Pages, i \in Nat : IsEntry(d, i)' => IsEntry(d, i) /\ entries'[d] = entries[d]
        BY <1>1 DEF IsEntry
  <2>3. \A d \in Pages : InChain(d)' => owner'[d] = "dir"
        BY <2>1 DEF Agreed
  <2>4. \A d \in Pages, i \in Nat : IsEntry(d, i)' =>
          /\ owner'[entries'[d][i].pid] = "data"
          /\ entries'[d][i].space = Available(heap'[entries'[d][i].pid])
    <3>1. \A d \in Pages, i \in Nat : IsEntry(d, i) => entries[d][i].pid \in Pages
          BY EntryTypes DEF IInv, IsEntry
    <3>2. \A d \in Pages, i \in Nat : IsEntry(d, i) =>
            /\ owner[entries[d][i].pid] = "data"
            /\ entries[d][i].space = Available(heap[entries[d][i].pid])
          BY <2>1 DEF Agreed
    <3> QED BY <2>2, <3>1, <3>2
  <2>5. \A c, d \in Pages, i, j \in Nat :
          IsEntry(c, i)' /\ IsEntry(d, j)' /\ entries'[c][i].pid = entries'[d][j].pid
             => c = d /\ i = j
        BY <2>1, <2>2 DEF Agreed
  <2> QED BY <2>3, <2>4, <2>5 DEF Agreed
<1> QED BY <1>2, <1>3

\* A call that leaves the file alone and is over.
LEMMA IdleAgrees ==
    ASSUME IInv, Agreement, pc # "delete", pc' = "idle", UNCHANGED <<chain, entries, heap, freed>>,
           UNCHANGED last, \A p \in Pages : owner'[p] = owner[p]
                               \/ (owner[p] \in {"free", "other"} /\ owner'[p] # "data")
    PROVE  Agreement'
<1>1. Placed' /\ (~freed' => Agreed')
  <2>1. \A d \in Pages : InChain(d)' <=> InChain(d)
        BY DEF InChain
  <2> QED BY <2>1, SameEntries
<1>2. Ends' /\ Holds'
      BY DEF Agreement, Ends, Holds
<1> QED BY <1>1, <1>2 DEF Agreement

\* The record count and the space of the entry of a page change with the page.
LEMMA RecordedAgrees ==
    ASSUME IInv, Agreement, pc # "delete", pc' # "delete", UNCHANGED <<owner, chain, freed>>,
           NEW d \in Pages, InChain(d), NEW p \in Pages, owner[p] = "data", Named(d, p),
           NEW c \in Int, NEW h \in HeapPages, h.free >= SlotSize,
           heap' = [heap EXCEPT ![p] = h],
           entries' = [entries EXCEPT ![d] = Recorded(entries[d], p, c, h)]
    PROVE  Placed' /\ (~freed' => Agreed')
<1> DEFINE es == Recorded(entries[d], p, c, h)
<1>1. /\ entries[d] \in Seq(PageInfo) /\ Len(entries[d]) \in Nat
      /\ es \in Seq(PageInfo) /\ Len(es) = Len(entries[d])
      BY EntryTypes, RecordedIs DEF IInv
<1>2. \A i \in 1 .. Len(entries[d]) :
         /\ es[i].pid = entries[d][i].pid
         /\ es[i].pid # p => es[i].space = entries[d][i].space
         /\ (es[i].pid = p /\ \A j \in 1 .. Len(entries[d]) : entries[d][j].pid = p => j = i)
               => es[i].space = Available(h)
      BY <1>1, RecordedAt
<1>3. /\ entries'[d] = es /\ \A b \in Pages \ {d} : entries'[b] = entries[b]
      /\ heap'[p] = h /\ \A q \in Pages \ {p} : heap'[q] = heap[q]
      BY DEF IInv, Types
<1> HIDE DEF es
<1>4. \A b \in Pages : InChain(b)' <=> InChain(b)
      BY DEF InChain
<1>5. \A b \in Pages, i \in Nat :
         /\ IsEntry(b, i)' <=> IsEntry(b, i)
         /\ IsEntry(b, i) => entries'[b][i].pid = entries[b][i].pid
      BY <1>1, <1>2, <1>3, <1>4 DEF IsEntry
<1>6. Placed'
  <2>1. \A b \in Pages, q \in Pages : Named(b, q) => Named(b, q)'
        BY <1>1, <1>2, <1>3 DEF Named
  <2> QED BY <1>4, <2>1 DEF Agreement, Placed
<1>7. ASSUME ~freed' PROVE Agreed'
  <2>1. Agreed
        BY <1>7 DEF Agreement
  <2>2. ASSUME NEW b \in Pages, NEW i \in Nat, IsEntry(b, i)'
        PROVE  /\ owner'[entries'[b][i].pid] = "data"
               /\ entries'[b][i].space = Available(heap'[entries'[b][i].pid])
    <3>1. IsEntry(b, i) /\ entries'[b][i].pid = entries[b][i].pid
          BY <1>5, <2>2
    <3>2. /\ owner[entries[b][i].pid] = "data"
          /\ entries[b][i].space = Available(heap[entries[b][i].pid])
          BY <2>1, <3>1 DEF Agreed
    <3>3. entries[b][i].pid \in Pages
          BY <3>1, EntryTypes DEF IInv, IsEntry
    <3>4. CASE entries[b][i].pid # p
      <4>1. entries'[b][i].space = entries[b][i].space
            BY <1>2, <1>3, <3>1, <3>4 DEF IsEntry
      <4> QED BY <1>3, <3>1, <3>2, <3>3, <3>4, <4>1
    <3>5. CASE entries[b][i].pid = p
      <4>1. \A j \in 1 .. Len(entries[d]) : IsEntry(d, j) /\ j \in Nat
            BY <1>1 DEF IsEntry
      <4>2. \A j \in 1 .. Len(entries[d]) : entries[d][j].pid = p => b = d /\ j = i
            BY <2>1, <3>1, <3>5, <4>1 DEF Agreed
      <4>3. b = d
            BY <4>2 DEF Named
      <4>4. entries'[b][i].space = Available(h)
            BY <1>2, <1>3, <3>1, <3>5, <4>2, <4>3 DEF IsEntry
      <4> QED BY <1>3, <3>1, <3>2, <3>5, <4>4
    <3> QED BY <3>4, <3>5
  <2>3. \A b \in Pages : InChain(b)' => owner'[b] = "dir"
        BY <1>4, <2>1 DEF Agreed
  <2>4. \A a, b \in Pages, i, j \in Nat :
          IsEntry(a, i)' /\ IsEntry(b, j)' /\ entries'[a][i].pid = entries'[b][j].pid
             => a = b /\ i = j
        BY <1>5, <2>1 DEF Agreed
  <2> QED BY <2>2, <2>3, <2>4 DEF Agreed
<1> QED BY <1>6, <1>7

LEMMA CreateAgrees ==
    ASSUME IInv, Agreement, OneHandle, NEW h \in Handles, Create(h) PROVE Agreement'
<1>1. /\ pc = "idle" /\ pc' = "idle" /\ chain = << >> /\ UNCHANGED <<heap, freed>>
      BY DEF Create, call
<1>2. CASE CanNewPage
  <2> DEFINE q == NewPid
  <2>1. /\ owner' = [owner EXCEPT ![q] = "dir"] /\ entries' = [entries EXCEPT ![q] = << >>]
        /\ chain' = <<q>> /\ last' = [last EXCEPT ![h] = q]
        BY <1>2 DEF Create
  <2>2. q \in Pages /\ owner[q] = "free"
        BY <1>2, NewPidIsFree DEF CanNewPage
  <2> HIDE DEF q
  <2>3. \A d \in Pages : ~InChain(d) /\ (InChain(d)' <=> d = q)
        BY <1>1, <2>1, EmptySeq DEF InChain
  <2>4. owner'[q] = "dir" /\ entries'[q] = << >> /\ \A p \in Pages \ {q} : owner'[p] = owner[p]
        BY <2>1, <2>2 DEF IInv, Types
  <2>5. Placed' /\ (~freed' => Agreed')
        BY <1>1, <2>2, <2>3, <2>4, SameEntries
  <2>6. chain' # << >> /\ Last(chain') = q /\ \A g \in Handles : last'[g] = q
        BY <2>1 DEF Last, IInv, Types, OneHandle
  <2> QED BY <1>1, <2>5, <2>6 DEF Agreement, Ends, Holds
<1>3. CASE ~CanNewPage
      BY <1>1, <1>3, IdleAgrees DEF Create, file
<1> QED BY <1>2, <1>3

LEMMA OpenAgrees ==
    ASSUME IInv, Agreement, NEW h \in Handles, Open(h), ~undefined' PROVE Agreement'
<1>1. /\ pc = "idle" /\ pc' = "idle" /\ chain # << >>
      /\ last' = [last EXCEPT ![h] = Last(chain)] \/ UNCHANGED last
      /\ UNCHANGED <<owner, chain, entries, heap, freed>>
      BY DEF Open, Ready, Return, Undefined
<1>2. \A d \in Pages : InChain(d)' <=> InChain(d)
      BY <1>1 DEF InChain
<1>3. Placed' /\ (~freed' => Agreed')
      BY <1>1, <1>2, SameEntries
<1>4. Ends'
      BY <1>1 DEF IInv, Types, Agreement, Ends
<1> QED BY <1>1, <1>3, <1>4 DEF Agreement, Holds

LEMMA InsertRecordAgrees ==
    ASSUME IInv, Agreement, NEW h \in Handles, NEW l \in Lengths, InsertRecord(h, l), ~undefined'
    PROVE  Agreement'
<1> DEFINE k == SelectInSeq(chain, LAMBDA d : RoomOf(d, l) # 0)
<1>1. /\ pc = "idle" /\ last[h] # INVALID_PAGE
      /\ UNCHANGED <<owner, chain, entries, heap, last, freed>>
      BY DEF InsertRecord, Ready, file
<1>2. CASE pc' = "idle"
      BY <1>1, <1>2, IdleAgrees
<1>3. CASE pc' = "put" /\ k # 0 /\ dir' = chain[k] /\ pid' = entries[chain[k]][RoomOf(chain[k], l)].pid
  <2>1. k = SelectInSeq(chain, LAMBDA d : RoomOf(d, l) # 0) /\ Types
        BY InvTypes
  <2> HIDE DEF k
  <2>2. /\ k \in 1 .. Len(chain) /\ chain[k] \in Pages
        /\ RoomOf(chain[k], l) \in 1 .. Len(entries[chain[k]])
        BY <1>3, <2>1, RoomFound DEF SelectInSeq
  <2>3. Ends' /\ Holds'
        BY <1>1, <1>3, <2>2 DEF Agreement, Ends, Holds, InChain, Named
  <2>4. \A d \in Pages : InChain(d)' <=> InChain(d)
        BY <1>1 DEF InChain
  <2>5. Placed' /\ (~freed' => Agreed')
        BY <1>1, <1>3, <2>4, SameEntries
  <2> QED BY <2>3, <2>5 DEF Agreement
<1>4. CASE pc' = "newdir" /\ who' = h
  <2>1. Ends' /\ Holds'
        BY <1>1, <1>4 DEF Agreement, Ends, Holds
  <2>2. \A d \in Pages : InChain(d)' <=> InChain(d)
        BY <1>1 DEF InChain
  <2>3. Placed' /\ (~freed' => Agreed')
        BY <1>1, <1>4, <2>2, SameEntries
  <2> QED BY <2>1, <2>3 DEF Agreement
<1> QED BY <1>2, <1>3, <1>4 DEF InsertRecord, Return, Undefined

LEMMA NewDirPageAgrees ==
    ASSUME IInv, Agreement, OneHandle, NewDirPage, ~undefined' PROVE Agreement'
<1> DEFINE k == SelectInSeq(chain, LAMBDA d : Len(entries[d]) < DirSlots)
           q == NewPid
<1>1. /\ pc = "newdir" /\ UNCHANGED <<heap, freed>>
      /\ \A d \in Pages : InChain(d) => owner[d] = "dir"
      BY DEF NewDirPage, Running, IInv, DirInv, InChain
<1>2. CASE /\ k # 0 /\ GoTo("newdata", len, chain[k], INVALID_PAGE)
           /\ UNCHANGED <<owner, entries, chain, last>>
  <2>1. k \in 1 .. Len(chain)
    <3>1. k = SelectInSeq(chain, LAMBDA d : Len(entries[d]) < DirSlots) /\ k # 0 /\ Types
          BY <1>2, InvTypes
    <3> HIDE DEF k
    <3> QED BY <3>1, NotFullFound DEF SelectInSeq
  <2> HIDE DEF k
  <2>2. Ends' /\ Holds'
        BY <1>2, <2>1 DEF Agreement, Ends, Holds, InChain, GoTo
  <2>3. \A d \in Pages : InChain(d)' <=> InChain(d)
        BY <1>2 DEF InChain
  <2>4. Placed' /\ (~freed' => Agreed')
        BY <1>1, <1>2, <2>3, SameEntries DEF GoTo
  <2> QED BY <2>2, <2>4 DEF Agreement
<1>3. CASE UNCHANGED <<owner, entries, chain, last>> /\ Return("InsertRecord", "FAIL", "OK")
      BY <1>1, <1>3, IdleAgrees DEF Return
<1>4. CASE /\ CanNewPage
           /\ owner' = [owner EXCEPT ![q] = "dir"]
           /\ entries' = [entries EXCEPT ![q] = << >>]
           /\ \/ /\ chain' = Linked(last[who], q) /\ last' = [last EXCEPT ![who] = q]
                 /\ GoTo("newdata", len, q, INVALID_PAGE)
              \/ GoesOnWithoutPage(q) /\ UNCHANGED <<chain, last>>
  <2>1. q \in Pages /\ owner[q] = "free"
        BY <1>4, NewPidIsFree DEF CanNewPage
  <2> HIDE DEF q
  <2>2. /\ ~InChain(q)
        /\ owner'[q] = "dir" /\ entries'[q] = << >>
        /\ \A p \in Pages \ {q} : owner'[p] = owner[p] /\ entries'[p] = entries[p]
        BY <1>1, <1>4, <2>1 DEF IInv, Types
  <2>3. CASE GoesOnWithoutPage(q) /\ UNCHANGED <<chain, last>>
    <3>1. pc' = "idle"
          BY <2>3 DEF GoesOnWithoutPage, Return
    <3>2. \A d \in Pages : InChain(d)' <=> InChain(d)
          BY <2>3 DEF InChain
    <3>3. Placed' /\ (~freed' => Agreed')
          BY <1>1, <2>1, <2>2, <3>1, <3>2, SameEntries
    <3> QED BY <1>1, <2>3, <3>1, <3>3 DEF Agreement, Ends, Holds
  <2>4. CASE /\ chain' = Linked(last[who], q) /\ last' = [last EXCEPT ![who] = q]
             /\ GoTo("newdata", len, q, INVALID_PAGE)
    <3>1. who \in Handles /\ chain # << >> /\ last[who] = Last(chain)
          BY <1>1 DEF Agreement, Ends
    <3>2. chain \in Seq(Pages) /\ Len(chain) \in Nat
          BY InvTypes DEF Types
    <3>3. chain' = Append(chain, q)
          BY <2>1, <2>2, <2>4, <3>1, <3>2, LinkedIs DEF IInv, DirInv
    <3>4. /\ Len(chain') = Len(chain) + 1 /\ chain'[Len(chain) + 1] = q
          /\ \A i \in 1 .. Len(chain) : chain'[i] = chain[i]
          BY <2>1, <3>2, <3>3, AppendProperties
    <3>5. chain' # << >> /\ Last(chain') = q
      <4>1. Len(chain') # 0 /\ Len(<< >>) = 0
            BY <3>2, <3>4, EmptySeq
      <4> QED BY <3>4, <4>1 DEF Last
    <3>6. \A p \in Pages : InChain(p)' <=> InChain(p) \/ p = q
      <4>1. 1 .. Len(chain') = (1 .. Len(chain)) \cup {Len(chain) + 1}
            BY <3>2, <3>4
      <4> QED BY <3>2, <3>4, <4>1 DEF InChain
    <3>7. \A g \in Handles : last'[g] = q
          BY <2>4, <3>1 DEF IInv, Types, OneHandle
    <3>8. pc' = "newdata" /\ dir' = q
          BY <2>4 DEF GoTo
    <3>9. Placed' /\ (~freed' => Agreed')
          BY <1>1, <2>1, <2>2, <3>6, <3>8, SameEntries
    <3> QED BY <2>1, <3>5, <3>6, <3>7, <3>8, <3>9 DEF Agreement, Ends, Holds
  <2> QED BY <1>4, <2>3, <2>4 DEF q
<1>5. ~Undefined
      BY DEF Undefined
<1> QED BY <1>2, <1>3, <1>4, <1>5 DEF NewDirPage

LEMMA NewDataPageAgrees ==
    ASSUME IInv, Agreement, NewDataPage, ~undefined' PROVE Agreement'
<1>1. /\ pc = "newdata" /\ UNCHANGED <<chain, last, freed>> /\ dir \in Pages
      /\ owner[dir] = "dir"
      /\ \A d \in Pages : InChain(d) => owner[d] = "dir"
      BY DEF NewDataPage, Running, IInv, DirInv, CallInv, InChain
<1>2. CASE GoesOnWithoutPage(dir) /\ UNCHANGED <<owner, heap, entries>>
      BY <1>1, <1>2, IdleAgrees DEF GoesOnWithoutPage, Return
<1>3. CASE CanNewPage /\ owner' = [owner EXCEPT ![NewPid] = "data"]
  <2> DEFINE q == NewPid
             new == [pid |-> q, space |-> Available(heap'[q]), n |-> 0]
  <2>1. q \in Pages /\ owner[q] = "free"
        BY <1>3, NewPidIsFree DEF CanNewPage
  <2>2. PICK n \in StaleCounts, slots \in StaleSlots :
           heap' = [heap EXCEPT ![q] = [n |-> n, slots |-> slots, free |-> DataSize - SlotSize]]
        BY <1>3, <2>1 DEF NewDataPage, CanNewPage
  <2>3. /\ entries' = [entries EXCEPT ![dir] = Append(entries[dir], new)]
        /\ GoTo("put", len, dir, q)
        BY <1>3, <2>1 DEF NewDataPage, CanNewPage
  <2>4. owner' = [owner EXCEPT ![q] = "data"]
        BY <1>3
  <2> HIDE DEF q
  <2>5. heap'[q].free = DataSize - SlotSize /\ \A p \in Pages \ {q} : heap'[p] = heap[p]
        BY <2>1, <2>2 DEF IInv, Types
  <2>6. new \in PageInfo /\ new.pid = q /\ new.space = Available(heap'[q])
        BY <2>1, <2>5, Constants DEF PageInfo, Available
  <2> HIDE DEF new
  <2> DEFINE m == Len(entries[dir])
  <2>7. /\ entries[dir] \in Seq(PageInfo) /\ m \in Nat
        /\ Len(Append(entries[dir], new)) = m + 1
        /\ Append(entries[dir], new)[m + 1] = new
        /\ \A i \in 1 .. m : Append(entries[dir], new)[i] = entries[dir][i]
        BY <1>1, <2>6, EntryTypes, AppendProperties DEF IInv
  <2>8. /\ \A b \in Pages \ {dir} : entries'[b] = entries[b]
        /\ Len(entries'[dir]) = m + 1 /\ entries'[dir][m + 1] = new
        /\ \A i \in 1 .. m : entries'[dir][i] = entries[dir][i]
        BY <1>1, <2>3, <2>7 DEF IInv, Types
  <2> HIDE DEF m
  <2>9. /\ \A b \in Pages : InChain(b)' <=> InChain(b)
        /\ InChain(dir)
        BY <1>1 DEF InChain, Agreement, Holds
  <2>10. /\ \A b, p \in Pages : Named(b, p) => Named(b, p)'
         /\ \E i \in 1 .. Len(entries'[dir]) : entries'[dir][i].pid = q
    <3>1. \A i \in 1 .. m : i \in 1 .. m + 1
          BY <2>7
    <3>2. m + 1 \in 1 .. m + 1
          BY <2>7
    <3>3. ASSUME NEW b \in Pages, NEW p \in Pages, Named(b, p) PROVE Named(b, p)'
      <4>1. PICK i \in 1 .. Len(entries[b]) : entries[b][i].pid = p
            BY <3>3 DEF Named
      <4>2. CASE b # dir
            BY <2>8, <4>1, <4>2 DEF Named
      <4>3. CASE b = dir
            BY <2>8, <3>1, <4>1, <4>3 DEF Named, m
      <4> QED BY <4>2, <4>3
    <3> QED BY <2>6, <2>8, <3>2, <3>3
  <2>11. Placed'
    <3>1. ASSUME NEW p \in Pages, owner'[p] = "data"
          PROVE  \E d \in Pages : InChain(d)' /\ Named(d, p)'
      <4>1. CASE p = q
            BY <1>1, <2>9, <2>10, <4>1 DEF Named
      <4>2. CASE p # q
            BY <1>1, <2>4, <2>9, <2>10, <3>1, <4>2 DEF IInv, Types, Agreement, Placed
      <4> QED BY <4>1, <4>2
    <3> QED BY <2>3, <3>1 DEF Placed, GoTo
  <2>12. ASSUME ~freed' PROVE Agreed'
    <3>1. Agreed
          BY <1>1, <2>12 DEF Agreement
    <3>2. ASSUME NEW b \in Pages, NEW i \in Nat, IsEntry(b, i)'
          PROVE  \/ /\ IsEntry(b, i) /\ entries'[b][i] = entries[b][i]
                    /\ entries[b][i].pid \in Pages \ {q}
                 \/ b = dir /\ i = m + 1 /\ entries'[b][i] = new
      <4>1. b # dir \/ i \in 1 .. m => IsEntry(b, i) /\ entries'[b][i] = entries[b][i]
            BY <2>8, <2>9, <3>2 DEF IsEntry, m
      <4>2. b = dir => i \in 1 .. m \/ i = m + 1
            BY <2>7, <2>8, <3>2 DEF IsEntry
      <4>3. IsEntry(b, i) => entries[b][i].pid \in Pages \ {q}
            BY <2>1, <3>1, EntryTypes DEF IInv, IsEntry, Agreed
      <4> QED BY <2>8, <4>1, <4>2, <4>3
    <3>3. \A b \in Pages : InChain(b)' => owner'[b] = "dir"
          BY <1>1, <2>1, <2>4, <2>9 DEF IInv, Types
    <3>4. ASSUME NEW b \in Pages, NEW i \in Nat, IsEntry(b, i)'
          PROVE  /\ owner'[entries'[b][i].pid] = "data"
                 /\ entries'[b][i].space = Available(heap'[entries'[b][i].pid])
      <4>1. CASE IsEntry(b, i) /\ entries'[b][i] = entries[b][i]
                 /\ entries[b][i].pid \in Pages \ {q}
        <5>1. /\ owner[entries[b][i].pid] = "data"
              /\ entries[b][i].space = Available(heap[entries[b][i].pid])
              BY <3>1, <4>1 DEF Agreed
        <5> QED BY <2>4, <2>5, <4>1, <5>1 DEF IInv, Types
      <4>2. CASE entries'[b][i] = new
            BY <2>1, <2>4, <2>6, <4>2 DEF IInv, Types
      <4> QED BY <3>2, <3>4, <4>1, <4>2
    <3>5. ASSUME NEW a \in Pages, NEW b \in Pages, NEW i \in Nat, NEW j \in Nat,
                 IsEntry(a, i)', IsEntry(b, j)', entries'[a][i].pid = entries'[b][j].pid
          PROVE  a = b /\ i = j
          BY <2>6, <3>1, <3>2, <3>5 DEF Agreed
    <3> QED BY <3>3, <3>4, <3>5 DEF Agreed
  <2>13. Ends' /\ Holds'
         BY <1>1, <2>3, <2>9, <2>10 DEF Agreement, Ends, Holds, Named, InChain, GoTo
  <2> QED BY <2>11, <2>12, <2>13 DEF Agreement
<1>4. ~Undefined
      BY DEF Undefined
<1> QED BY <1>2, <1>3, <1>4 DEF NewDataPage

LEMMA PutAgrees == ASSUME IInv, Agreement, Put, ~undefined' PROVE Agreement'
<1>1. /\ pc = "put" /\ pc' = "idle" /\ UNCHANGED <<owner, chain, last, freed>>
      /\ dir \in Pages /\ pid \in Pages /\ len \in Nat
      BY DEF Put, Running, Return, Undefined, IInv, CallInv, Types
<1>2. CASE UNCHANGED <<heap, entries>>
      BY <1>1, <1>2, IdleAgrees
<1>3. CASE /\ owner[pid] = "data" /\ heap' = [heap EXCEPT ![pid] = PageInserted(@, len)]
           /\ entries' = [entries EXCEPT ![dir] = Recorded(@, pid, 1, heap'[pid])]
  <2> DEFINE h == PageInserted(heap[pid], len)
  <2>1. h \in HeapPages /\ h.free >= SlotSize
        BY <1>1, <1>3, InsertedIs DEF IInv, Types, Rooms
  <2>2. heap' = [heap EXCEPT ![pid] = h] /\ heap'[pid] = h
        BY <1>1, <1>3 DEF IInv, Types
  <2> HIDE DEF h
  <2>3. entries' = [entries EXCEPT ![dir] = Recorded(entries[dir], pid, 1, h)]
        BY <1>3, <2>2
  <2>4. InChain(dir) /\ Named(dir, pid)
        BY <1>1 DEF Agreement, Holds
  <2>5. Placed' /\ (~freed' => Agreed')
    <3>1. PICK d \in Pages, p \in Pages : d = dir /\ p = pid
          BY <1>1
    <3>2. PICK g \in HeapPages : g = h
          BY <2>1
    <3>3. /\ InChain(d) /\ owner[p] = "data" /\ Named(d, p) /\ g.free >= SlotSize
          /\ heap' = [heap EXCEPT ![p] = g]
          /\ entries' = [entries EXCEPT ![d] = Recorded(entries[d], p, 1, g)]
          /\ UNCHANGED <<owner, chain, freed>> /\ pc # "delete" /\ pc' # "delete"
          BY <1>1, <1>3, <2>1, <2>2, <2>3, <2>4, <3>1, <3>2
    <3> HIDE DEF h
    <3>4. 1 \in Int
          OBVIOUS
    <3> QED BY <3>3, <3>4, RecordedAgrees, Zenon
  <2>6. Ends' /\ Holds'
        BY <1>1 DEF Agreement, Ends, Holds
  <2> QED BY <2>5, <2>6 DEF Agreement
<1> QED BY <1>2, <1>3 DEF Put, Undefined

\* The directory page that DeleteRecord finds is in the chain and names the page.
LEMMA DirOfNamed ==
    ASSUME IInv, NEW p, DirOf(p) # 0
    PROVE  chain[DirOf(p)] \in Pages /\ InChain(chain[DirOf(p)]) /\ Named(chain[DirOf(p)], p)
<1> DEFINE d == chain[DirOf(p)]
<1>1. d \in Pages /\ InChain(d)
      BY DirOfFound, InvTypes DEF InChain
<1>2. EntryOf(d, p) # 0
  <2> DEFINE I == {i \in 1 .. Len(chain) : EntryOf(chain[i], p) # 0}
  <2>1. DirOf(p) = IF I # {} THEN Min(I) ELSE 0
        BY DEF DirOf, SelectInSeq
  <2>2. I \in SUBSET (1 .. Len(chain)) /\ Len(chain) \in Nat
        BY InvTypes
  <2>3. \A i \in I : EntryOf(chain[i], p) # 0
        OBVIOUS
  <2> HIDE DEF I
  <2> QED BY <2>1, <2>2, <2>3, FirstIndex
<1>3. Named(d, p)
  <2> HIDE DEF d
  <2> DEFINE J == {i \in 1 .. Len(entries[d]) : entries[d][i].pid = p}
  <2>1. EntryOf(d, p) = IF J # {} THEN Min(J) ELSE 0
        BY DEF EntryOf, SelectInSeq
  <2>2. J # {}
        BY <1>2, <2>1
  <2> QED BY <2>2 DEF Named
<1> QED BY <1>1, <1>3

LEMMA DeleteRecordAgrees ==
    ASSUME IInv, Agreement, NEW p \in Pages, NEW s, DeleteRecord(p, s), ~undefined'
    PROVE  Agreement'
<1> DEFINE d  == chain[DirOf(p)]
           h  == PageDeleted(heap[p], s)
           es == Recorded(entries[d], p, -1, h)
<1>1. pc = "idle" /\ pc' = "idle" /\ UNCHANGED <<chain, last>>
      BY DEF DeleteRecord, DeletedFrom, Ready, Return, Undefined
<1>2. CASE UNCHANGED <<owner, entries, heap, freed>>
      BY <1>1, <1>2, IdleAgrees
<1>3. ASSUME NEW ps, DirOf(p) # 0, owner[p] = "data", heap' = [heap EXCEPT ![p] = h],
             DeletedFrom(d, p, h, ps)
      PROVE  Agreement'
  <2>1. d \in Pages /\ InChain(d)
        BY <1>3, DirOfNamed
  <2>2. Named(d, p)
        BY <1>3, DirOfNamed
  <2> HIDE DEF d
  <2>3. h \in HeapPages /\ h.free >= SlotSize
        BY <1>3, DeletedIs DEF IInv, Types, Rooms
  <2> HIDE DEF h
  <2>4. Ends' /\ Holds'
        BY <1>1 DEF Agreement, Ends, Holds
  <2>5. CASE entries' = [entries EXCEPT ![d] = es] /\ UNCHANGED <<owner, freed>>
    <3>1. -1 \in Int
          OBVIOUS
    <3>2. PICK e \in Pages, g \in HeapPages : e = d /\ g = h
          BY <2>1, <2>3
    <3>3. /\ InChain(e) /\ Named(e, p) /\ g.free >= SlotSize /\ heap' = [heap EXCEPT ![p] = g]
          /\ entries' = [entries EXCEPT ![e] = Recorded(entries[e], p, -1, g)]
          /\ UNCHANGED <<owner, chain, freed>> /\ pc # "delete" /\ pc' # "delete"
          BY <1>1, <1>3, <2>1, <2>2, <2>3, <2>5, <3>2
    <3>4. Placed' /\ (~freed' => Agreed')
          BY <1>3, <3>1, <3>3, RecordedAgrees, Zenon
    <3> QED BY <2>4, <3>4 DEF Agreement
  <2>6. CASE /\ owner' = [owner EXCEPT ![p] = "free"] /\ freed' = TRUE
             /\ entries' = [entries EXCEPT ![d] = WithoutPage(es, p)]
    <3>1. /\ entries[d] \in Seq(PageInfo) /\ es \in Seq(PageInfo) /\ Len(es) = Len(entries[d])
          BY <2>1, <2>3, RecordedIs DEF IInv, Types
    <3>2. \A i \in 1 .. Len(entries[d]) : es[i].pid = entries[d][i].pid
          BY <3>1, RecordedAt
    <3> HIDE DEF es
    <3>3. ASSUME NEW q \in Pages, owner'[q] = "data"
          PROVE  \E b \in Pages : InChain(b)' /\ Named(b, q)'
      <4>1. q # p /\ owner[q] = "data"
            BY <2>6, <3>3 DEF IInv, Types
      <4>2. PICK b \in Pages : InChain(b) /\ Named(b, q)
            BY <1>1, <4>1 DEF Agreement, Placed
      <4>3. CASE b # d
            BY <1>1, <2>6, <4>2, <4>3 DEF IInv, Types, Named, InChain
      <4>4. CASE b = d
        <5>1. q \in PagesOf(es)
              BY <3>1, <3>2, <4>2, <4>4 DEF Named, PagesOf
        <5>2. q \in PagesOf(WithoutPage(es, p))
              BY <3>1, <4>1, <5>1, OthersStay
        <5>3. entries'[b] = WithoutPage(es, p)
              BY <2>1, <2>6, <4>4 DEF IInv, Types
        <5>4. Named(b, q)' /\ InChain(b)'
              BY <1>1, <4>2, <5>2, <5>3 DEF Named, PagesOf, InChain
        <5> QED BY <5>4
      <4> QED BY <4>3, <4>4
    <3> QED BY <1>1, <2>4, <2>6, <3>3 DEF Agreement, Placed
  <2> QED BY <1>3, <2>5, <2>6 DEF DeletedFrom, es
<1> QED BY <1>2, <1>3 DEF DeleteRecord, Undefined

LEMMA DeleteFileAgrees == ASSUME IInv, Agreement, DeleteFile PROVE Agreement'
<1>1. /\ pc = "idle" /\ pc' = "delete" /\ dir' = chain[1] /\ chain # << >>
      /\ UNCHANGED <<owner, chain, entries, heap, last, freed>>
      BY DEF DeleteFile, Ready, GoTo, file
<1>2. Ends' /\ Holds'
      BY <1>1 DEF Agreement, Ends, Holds
<1>3. Placed'
  <2>1. 1 \in 1 .. Len(chain)
        BY <1>1, InvTypes
  <2>2. \A p \in Pages : owner[p] = "data" => \E i \in 1 .. Len(chain) : Named(chain[i], p)
        BY <1>1 DEF Agreement, Placed, InChain
  <2>3. \A p \in Pages : owner'[p] = "data" =>
           \E i \in 1 .. Len(chain') : \E j \in 1 .. Len(entries'[chain'[i]]) :
              entries'[chain'[i]][j].pid = p
        BY <1>1, <2>2 DEF Named
  <2> QED BY <1>1, <2>1, <2>3 DEF Placed, Named
<1>4. Agreed => Agreed'
      BY <1>1 DEF Agreed, IsEntry, InChain
<1> QED BY <1>1, <1>2, <1>3, <1>4 DEF Agreement

LEMMA DeleteDirPageAgrees ==
    ASSUME IInv, Agreement, DeleteDirPage, ~undefined' PROVE Agreement'
<1>1. /\ pc = "delete" /\ FreeDirPage(entries[dir], FirstKept, Position, Freed)
      /\ dir \notin Freed
      BY DeleteDirPageIs DEF Undefined
<1>2. owner' = [p \in Pages |-> IF p \in WithDir THEN "free" ELSE owner[p]]
      BY <1>1, FreeDirPageIs
<1>3. /\ Len(chain) \in Nat /\ Position \in 1 .. Len(chain) /\ chain[Position] = dir
      /\ \A i, j \in 1 .. Len(chain) : chain[i] = chain[j] => i = j
      BY <1>1, PositionFound, InvTypes DEF IInv, DirInv
<1>4. \A p \in Pages : owner[p] = "data" => \E i \in Position .. Len(chain) : Named(chain[i], p)
      BY <1>1, <1>3 DEF Agreement, Placed
<1>5. \A p \in Pages : owner'[p] = "data" => owner[p] = "data" /\ p \notin WithDir
      BY <1>2
<1>6. CASE /\ dir \notin WithDir /\ Return("DeleteFile", "FAIL", "OK")
           /\ UNCHANGED <<chain, entries, last>> /\ freed' = TRUE
  <2>1. \A p \in Pages : owner'[p] = "data" => \E i \in 1 .. Len(chain) : Named(chain[i], p)
        BY <1>3, <1>4, <1>5
  <2>2. \A i \in 1 .. Len(chain) : chain[i] \in Pages /\ InChain(chain[i])
        BY InvTypes DEF InChain
  <2>3. \A p \in Pages : owner'[p] = "data" => \E d \in Pages : InChain(d) /\ Named(d, p)
        BY <2>1, <2>2
  <2>4. Placed'
        BY <1>6, <2>3 DEF Placed, Named, InChain, Return
  <2> QED BY <1>1, <1>6, <2>4 DEF Agreement, Ends, Holds, Return
<1> DEFINE n == Position
<1> HIDE DEF n
<1>7. ASSUME dir \in WithDir
      PROVE  \A p \in Pages : owner'[p] = "data" => \E i \in n + 1 .. Len(chain) : Named(chain[i], p)
  <2>1. CASE FirstKept = 0
    <3>1. \A p \in Pages : Named(dir, p) => p \in WithDir
          BY <2>1 DEF Named, WithDir, Freed, PagesOf
    <3>2. \A i \in n .. Len(chain) : i = n \/ i \in n + 1 .. Len(chain)
          BY <1>3 DEF n
    <3> QED BY <1>3, <1>4, <1>5, <3>1, <3>2 DEF n
  <2>2. CASE FirstKept # 0
    <3>1. dir \in Freed
          BY <1>7, <2>2 DEF WithDir
    <3> QED BY <1>1, <3>1
  <2> QED BY <2>1, <2>2
<1>8. CASE /\ dir \in WithDir /\ n < Len(chain) /\ freed' = TRUE
           /\ GoTo("delete", 0, chain[n + 1], INVALID_PAGE) /\ UNCHANGED <<chain, entries, last>>
  <2>1. n + 1 \in 1 .. Len(chain) /\ pc' = "delete" /\ dir' = chain[n + 1]
        BY <1>3, <1>8 DEF n, GoTo
  <2>2. \A p \in Pages : owner'[p] = "data" => \E i \in n + 1 .. Len(chain) : Named(chain[i], p)
        BY <1>7, <1>8
  <2> DEFINE m == n + 1
  <2>3. m \in 1 .. Len(chain') /\ pc' = "delete" /\ chain'[m] = dir'
        BY <1>8, <2>1
  <2>4. \A p \in Pages : owner'[p] = "data" => \E i \in m .. Len(chain') : Named(chain[i], p)'
        BY <1>8, <2>2 DEF Named
  <2> HIDE DEF m
  <2>5. Placed'
        BY <2>3, <2>4 DEF Placed
  <2> QED BY <1>1, <1>8, <2>1, <2>5 DEF Agreement, Ends, Holds
<1>9. CASE /\ dir \in WithDir /\ n = Len(chain) /\ chain' = << >>
           /\ last' = [h \in Handles |-> INVALID_PAGE] /\ Return("DeleteFile", "OK", "OK")
  <2>1. \A p \in Pages : ~InChain(p)'
        BY <1>9, EmptySeq DEF InChain
  <2>2. \A p \in Pages : owner'[p] # "data"
        BY <1>3, <1>7, <1>9
  <2>3. pc' = "idle"
        BY <1>9 DEF Return
  <2> QED BY <1>9, <2>1, <2>2, <2>3 DEF Agreement, Ends, Holds, Placed, Agreed, IsEntry
<1> QED BY <1>1, <1>6, <1>8, <1>9 DEF FreeDirPage, WithDir, n

LEMMA OtherAgrees ==
    ASSUME IInv, Agreement, NEW p \in Pages, owner[p] \in {"free", "other"},
           NEW o \in {"free", "other"}, owner' = [owner EXCEPT ![p] = o], pc = "idle",
           UNCHANGED <<chain, entries, heap, last, freed, call>>
    PROVE  Agreement'
<1>1. /\ \A q \in Pages : owner'[q] = owner[q]
                             \/ (owner[q] \in {"free", "other"} /\ owner'[q] # "data")
      /\ pc' = "idle"
      BY DEF IInv, Types, call
<1> QED BY <1>1, IdleAgrees

-----------------------------------------------------------------------------
(* The property *)

LEMMA AgreementStep ==
    ASSUME IInv, AgreementInv, OneHandle, [Next]_vars PROVE AgreementInv'
<1>1. CASE UNCHANGED vars
  <2>1. UNCHANGED <<owner, chain, entries, heap, last, pc, who, dir, pid, undefined, freed>>
        BY <1>1 DEF vars, file, call
  <2>2. CASE undefined
        BY <2>1, <2>2 DEF AgreementInv
  <2>3. CASE Agreement
    <3>1. Ends' /\ Holds' /\ Placed'
          BY <2>1, <2>3 DEF Agreement, Ends, Holds, Placed, Named, InChain
    <3>2. Agreed => Agreed'
          BY <2>1 DEF Agreed, IsEntry, InChain
    <3> QED BY <2>1, <2>3, <3>1, <3>2 DEF Agreement, AgreementInv
  <2> QED BY <2>2, <2>3 DEF AgreementInv
<1>2. ASSUME Next, ~undefined', ~(UNCHANGED vars) PROVE Agreement'
  <2>1. Agreement
    <3>1. ~undefined
          BY <1>2 DEF Next, Create, Open, InsertRecord, NewDirPage, NewDataPage, Put,
             GetRecord, DeleteRecord, UpdateRecord, DeleteFile, DeleteDirPage,
             OtherAllocates, OtherFrees, Ready, Running
    <3> QED BY <3>1 DEF AgreementInv
  <2>2. CASE \E h \in Handles : Create(h) \/ Open(h) \/ \E l \in Lengths : InsertRecord(h, l)
        BY <1>2, <2>1, <2>2, CreateAgrees, OpenAgrees, InsertRecordAgrees
  <2>3. CASE NewDirPage \/ NewDataPage \/ Put
        BY <1>2, <2>1, <2>3, NewDirPageAgrees, NewDataPageAgrees, PutAgrees
  <2>4. CASE \E p \in Pages, s \in 0 .. 2 : GetRecord(p, s) \/ UpdateRecord(p, s)
    <3>1. PICK p \in Pages, s \in 0 .. 2 : GetRecord(p, s) \/ UpdateRecord(p, s)
          BY <2>4
    <3>2. pc = "idle" /\ pc' = "idle" /\ UNCHANGED <<owner, chain, entries, heap, last, freed>>
          BY <1>2, <3>1 DEF GetRecord, UpdateRecord, Ready, Return, Undefined, file, call
    <3> QED BY <2>1, <3>2, IdleAgrees
  <2>5. CASE \E p \in Pages, s \in 0 .. 2 : DeleteRecord(p, s)
        BY <1>2, <2>1, <2>5, DeleteRecordAgrees
  <2>6. CASE DeleteFile \/ DeleteDirPage
        BY <1>2, <2>1, <2>6, DeleteFileAgrees, DeleteDirPageAgrees
  <2>7. CASE OtherAllocates
    <3>1. NewPid \in Pages /\ owner[NewPid] = "free"
          BY <2>7, NewPidIsFree DEF OtherAllocates
    <3>2. /\ owner' = [owner EXCEPT ![NewPid] = "other"] /\ pc = "idle"
          /\ UNCHANGED <<chain, entries, heap, last, freed, call>>
          BY <2>7 DEF OtherAllocates
    <3> QED BY <2>1, <3>1, <3>2, OtherAgrees
  <2>8. CASE \E p \in Pages : OtherFrees(p)
    <3>1. PICK p \in Pages : OtherFrees(p)
          BY <2>8
    <3>2. /\ owner' = [owner EXCEPT ![p] = "free"] /\ pc = "idle" /\ owner[p] = "other"
          /\ UNCHANGED <<chain, entries, heap, last, freed, call>>
          BY <3>1 DEF OtherFrees
    <3> QED BY <2>1, <3>2, OtherAgrees
  <2> QED BY <1>2, <2>2, <2>3, <2>4, <2>5, <2>6, <2>7, <2>8 DEF Next
<1> QED BY <1>1, <1>2 DEF AgreementInv

LEMMA InitAgrees == Init => AgreementInv
<1>1. Init => \A p \in Pages : ~InChain(p) /\ owner[p] # "data"
      BY EmptySeq DEF Init, InChain
<1> QED BY <1>1
    DEF Init, AgreementInv, Agreement, Ends, Holds, Placed, Agreed, IsEntry

\* With the file open once, and until a data page is freed, every entry of the
\* directory is that of a data page, with the space that page has, and every
\* data page has exactly one, whatever is inserted, deleted or fails.
THEOREM EntriesTrue == OneHandle /\ Spec => []EntriesAgree
<1>1. Init => AgreementInv
      BY InitAgrees
<1>2. OneHandle /\ IInv /\ AgreementInv /\ [Next]_vars => AgreementInv'
      BY AgreementStep
<1>3. OneHandle /\ [Next]_vars => OneHandle'
      BY DEF OneHandle
<1>4. ASSUME IInv, AgreementInv PROVE EntriesAgree
  <2> SUFFICES ASSUME ~freed, ~undefined PROVE
          /\ \A x \in Entries : /\ owner[EntryAt(x).pid] = "data"
                                /\ EntryAt(x).space = Available(heap[EntryAt(x).pid])
          /\ \A p \in Pages : owner[p] = "data" =>
                 Cardinality({x \in Entries : EntryAt(x).pid = p}) = 1
      BY DEF EntriesAgree
  <2>1. Agreement /\ Agreed
        BY <1>4 DEF AgreementInv, Agreement
  <2>2. ASSUME NEW x \in Entries
        PROVE  x[1] \in Pages /\ x[2] \in Nat /\ x = <<x[1], x[2]>> /\ IsEntry(x[1], x[2])
    <3>1. x[1] \in Pages /\ x[2] \in 1 .. DirSlots /\ x = <<x[1], x[2]>>
          BY <2>2 DEF Entries
    <3>2. Contains(chain, x[1]) /\ x[2] <= Len(entries[x[1]])
          BY <2>2 DEF Entries
    <3>3. Len(entries[x[1]]) \in Nat /\ x[2] \in Nat /\ x[2] >= 1
          BY <1>4, <3>1, EntryTypes, Constants DEF IInv
    <3> QED BY <3>1, <3>2, <3>3 DEF IsEntry, Contains, InChain
  <2>3. ASSUME NEW d \in Pages, NEW i \in 1 .. Len(entries[d]), InChain(d)
        PROVE  <<d, i>> \in Entries
    <3>1. Len(entries[d]) \in Nat /\ Len(entries[d]) <= DirSlots
          BY <1>4, EntryTypes DEF IInv, Rooms
    <3>2. i \in 1 .. DirSlots /\ i <= Len(entries[d])
          BY <3>1, Constants
    <3> QED BY <2>3, <3>2 DEF Entries, Contains, InChain
  <2>4. \A x \in Entries : /\ owner[EntryAt(x).pid] = "data"
                           /\ EntryAt(x).space = Available(heap[EntryAt(x).pid])
        BY <2>1, <2>2 DEF Agreed, EntryAt
  <2>5. ASSUME NEW p \in Pages, owner[p] = "data"
        PROVE  Cardinality({x \in Entries : EntryAt(x).pid = p}) = 1
    <3> DEFINE X == {x \in Entries : EntryAt(x).pid = p}
    <3>1. PICK d \in Pages : InChain(d) /\ Named(d, p)
      <4>1. CASE pc # "delete"
            BY <2>1, <2>5, <4>1 DEF Agreement, Placed
      <4>2. CASE pc = "delete"
        <5>1. PICK n \in 1 .. Len(chain) : \E i \in n .. Len(chain) : Named(chain[i], p)
              BY <2>1, <2>5, <4>2 DEF Agreement, Placed
        <5>2. PICK i \in 1 .. Len(chain) : Named(chain[i], p)
              BY <1>4, <5>1, InvTypes
        <5>3. chain[i] \in Pages
              BY <1>4, <5>2, InvTypes
        <5> QED BY <5>2, <5>3 DEF InChain
      <4> QED BY <4>1, <4>2
    <3>2. PICK i \in 1 .. Len(entries[d]) : entries[d][i].pid = p
          BY <3>1 DEF Named
    <3>3. <<d, i>> \in X
          BY <2>3, <3>1, <3>2 DEF EntryAt
    <3>4. \A x \in X : x = <<d, i>>
      <4>1. IsEntry(d, i) /\ i \in Nat
            BY <1>4, <3>1, EntryTypes DEF IInv, IsEntry
      <4> QED BY <2>1, <2>2, <3>2, <4>1 DEF Agreed, EntryAt
    <3>5. X = {<<d, i>>}
          BY <3>3, <3>4
    <3> QED BY <3>5, FS_Singleton
  <2> QED BY <2>4, <2>5
<1> QED BY Invariance, <1>1, <1>2, <1>3, <1>4, PTL DEF Spec

-----------------------------------------------------------------------------
(* The numbers of records add up to the calls that were carried out, while  *)
(* no data page has been freed.  The sum is first taken as a function of a   *)
(* chain c and of entries e, so that one lemma speaks of both states of a    *)
(* step                                                                      *)

EntriesOf(c, e) == {x \in Pages \X (1 .. DirSlots) :
                       Contains(c, x[1]) /\ x[2] <= Len(e[x[1]])}
NumberAt(e, x)  == e[x[1]][x[2]].n
TotalOf(e, E)   == MapThenSumSet(LAMBDA x : e[x[1]][x[2]].n, E)
Count(c, e)     == TotalOf(e, EntriesOf(c, e))

\* A chain and entries of the types they have; the entries that are counted are
\* those of the chain's pages, and have numbers.
Listing(c, e) ==
    /\ c \in Seq(Pages) /\ e \in [Pages -> Seq(PageInfo)]
    /\ \A d \in Pages : Len(e[d]) <= DirSlots
Listed(c, e) ==
    \A x : x \in EntriesOf(c, e) <=>
       \E d \in Pages : \E i \in 1 .. Len(e[d]) : Contains(c, d) /\ x = <<d, i>>
Numbered(e, E) == IsFiniteSet(E) /\ \A x \in E : NumberAt(e, x) \in Int

LEMMA ListingIs == ASSUME Types, Rooms PROVE Listing(chain, entries)
BY DEF Types, Rooms, Listing

LEMMA CountIs ==
    /\ GetNumOfRecords = Count(chain, entries)
    /\ GetNumOfRecords' = Count(chain', entries')
<1>1. GetNumOfRecords = Count(chain, entries)
      BY DEF GetNumOfRecords, Count, TotalOf, EntriesOf, Entries, EntryAt,
             MapThenSumSet, MapThenFoldSet
<1>2. GetNumOfRecords' = Count(chain', entries')
      BY DEF GetNumOfRecords, Count, TotalOf, EntriesOf, Entries, EntryAt,
             MapThenSumSet, MapThenFoldSet
<1> QED BY <1>1, <1>2

LEMMA EntriesOfAre ==
    ASSUME NEW c, NEW e, Listing(c, e)
    PROVE  Listed(c, e) /\ Numbered(e, EntriesOf(c, e))
<1>1. /\ Len(c) \in Nat /\ DOMAIN c = 1 .. Len(c)
      /\ \A i \in 1 .. Len(c) : c[i] \in Pages
      BY LenProperties, ElementOfSeq DEF Listing
<1>2. \A d \in Pages : /\ e[d] \in Seq(PageInfo) /\ Len(e[d]) \in Nat
                       /\ Len(e[d]) <= DirSlots
                       /\ \A i \in 1 .. Len(e[d]) : e[d][i] \in PageInfo
      BY LenProperties, ElementOfSeq DEF Listing
<1>3. IsFiniteSet(EntriesOf(c, e))
  <2> DEFINE I == {c[i] : i \in 1 .. Len(c)}
  <2>1. IsFiniteSet(1 .. Len(c)) /\ IsFiniteSet(1 .. DirSlots)
        BY <1>1, Constants, FS_Interval
  <2>2. IsFiniteSet(I)
    <3> DEFINE m == [i \in 1 .. Len(c) |-> c[i]]
    <3>1. m \in Surjection(1 .. Len(c), I)
          BY DEF Surjection
    <3> HIDE DEF m, I
    <3> QED BY <2>1, <3>1, FS_Surjection
  <2>3. IsFiniteSet(I \X (1 .. DirSlots))
        BY <2>1, <2>2, FS_Product
  <2>4. EntriesOf(c, e) \subseteq I \X (1 .. DirSlots)
        BY <1>1 DEF EntriesOf, Contains
  <2> QED BY <2>3, <2>4, FS_Subset
<1>4. ASSUME NEW x \in EntriesOf(c, e)
      PROVE  \E d \in Pages : \E i \in 1 .. Len(e[d]) : Contains(c, d) /\ x = <<d, i>>
  <2>1. PICK d \in Pages, i \in 1 .. DirSlots :
           x = <<d, i>> /\ Contains(c, d) /\ i <= Len(e[d])
        BY DEF EntriesOf
  <2>2. i \in 1 .. Len(e[d])
        BY <1>2, <2>1, Constants
  <2> QED BY <2>1, <2>2
<1>5. ASSUME NEW d \in Pages, NEW i \in 1 .. Len(e[d]), Contains(c, d)
      PROVE  <<d, i>> \in EntriesOf(c, e)
  <2>1. i \in 1 .. DirSlots /\ i <= Len(e[d])
        BY <1>2, Constants
  <2> QED BY <1>5, <2>1 DEF EntriesOf
<1>6. \A x \in EntriesOf(c, e) : NumberAt(e, x) \in Int
      BY <1>2, <1>4 DEF NumberAt, PageInfo
<1> QED BY <1>3, <1>4, <1>5, <1>6 DEF Listed, Numbered

\* The sum is one of the sums of Indices.
LEMMA TotalIs ==
    ASSUME NEW e, NEW E, Numbered(e, E)
    PROVE  \E g : Sums([x \in E |-> NumberAt(e, x)], E, g) /\ TotalOf(e, E) = g[E]
<1> DEFINE f == [x \in E |-> NumberAt(e, x)]
           Iter(g) == g = [s \in SUBSET E |->
                             IF s = {} THEN 0
                             ELSE e[Chosen(s)[1]][Chosen(s)[2]].n + g[s \ {Chosen(s)}]]
           it == CHOOSE g : Iter(g)
<1>1. PICK g : Sums(f, E, g)
  <2>1. IsFiniteSet(E) /\ f \in [E -> Int]
        BY DEF Numbered
  <2> HIDE DEF f
  <2> QED BY <2>1, SumsExist
<1>2. \A s \in SUBSET E : s # {} => f[Chosen(s)] = e[Chosen(s)[1]][Chosen(s)[2]].n
  <2>1. \A s \in SUBSET E : s # {} => Chosen(s) \in s
        BY DEF Chosen
  <2> QED BY <2>1 DEF NumberAt
<1> HIDE DEF f
<1>3. \A h : Sums(f, E, h) <=> Iter(h)
      BY <1>2 DEF Sums
<1> HIDE DEF Iter
<1>4. Sums(f, E, it)
      BY <1>1, <1>3
<1>5. TotalOf(e, E) = it[E]
      BY DEF TotalOf, MapThenSumSet, MapThenFoldSet, Iter, Chosen
<1> QED BY <1>4, <1>5 DEF f

\* Two sums whose terms are the same but at one place differ as those do.
Term(e, E, x) == IF x \in E THEN NumberAt(e, x) ELSE 0
SameBut(z, e, E, f, F) ==
    /\ E \ {z} = F \ {z}
    /\ \A x \in E \ {z} : NumberAt(e, x) = NumberAt(f, x)

LEMMA TotalChanged ==
    ASSUME NEW e, NEW E, Numbered(e, E), NEW f, NEW F, Numbered(f, F),
           NEW z, SameBut(z, e, E, f, F)
    PROVE  /\ TotalOf(e, E) \in Int /\ TotalOf(f, F) \in Int
           /\ TotalOf(f, F) = TotalOf(e, E) + (Term(f, F, z) - Term(e, E, z))
<1> DEFINE a == [x \in E |-> NumberAt(e, x)]
           b == [x \in F |-> NumberAt(f, x)]
           R == E \ {z}
<1>1. PICK g : Sums(a, E, g) /\ TotalOf(e, E) = g[E]
      BY TotalIs
<1>2. PICK h : Sums(b, F, h) /\ TotalOf(f, F) = h[F]
      BY TotalIs
<1>3. /\ a \in [E -> Int] /\ b \in [F -> Int]
      /\ R \subseteq E /\ R \subseteq F /\ \A x \in R : a[x] = b[x]
      /\ z \in E => a[z] = NumberAt(e, z)
      /\ z \in F => b[z] = NumberAt(f, z)
      /\ R = E \ {z} /\ R = F \ {z} /\ IsFiniteSet(E) /\ IsFiniteSet(F)
      BY DEF Numbered, SameBut
<1> HIDE DEF a, b, R
<1>4. g[R] = h[R]
      BY <1>1, <1>2, <1>3, SameSums
<1>5. g \in [SUBSET E -> Int] /\ h \in [SUBSET F -> Int]
      BY <1>1, <1>2, <1>3, SumTypes
<1>6. g[E] \in Int /\ h[F] \in Int /\ g[R] \in Int
      BY <1>3, <1>5
<1>7. g[E] = Term(e, E, z) + g[R] /\ Term(e, E, z) \in Int
  <2>1. CASE z \in E
    <3>1. AnyFirst(a, E, g)
          BY <1>1, <1>3, SumWithout
    <3>2. g[E] = a[z] + g[E \ {z}]
          BY <2>1, <3>1 DEF AnyFirst
    <3> QED BY <1>3, <2>1, <3>2 DEF Term
  <2>2. CASE z \notin E
    <3>1. R = E
          BY <1>3, <2>2
    <3> QED BY <1>6, <2>2, <3>1 DEF Term
  <2> QED BY <2>1, <2>2
<1>8. h[F] = Term(f, F, z) + h[R] /\ Term(f, F, z) \in Int
  <2>1. CASE z \in F
    <3>1. AnyFirst(b, F, h)
          BY <1>2, <1>3, SumWithout
    <3>2. h[F] = b[z] + h[F \ {z}]
          BY <2>1, <3>1 DEF AnyFirst
    <3> QED BY <1>3, <2>1, <3>2 DEF Term
  <2>2. CASE z \notin F
    <3>1. R = F
          BY <1>3, <2>2
    <3> QED BY <1>4, <1>6, <2>2, <3>1 DEF Term
  <2> QED BY <2>1, <2>2
<1>9. \A t, u, r \in Int : u + r = (t + r) + (u - t)
      OBVIOUS
<1> QED BY <1>1, <1>2, <1>4, <1>6, <1>7, <1>8, <1>9

LEMMA CountChanged ==
    ASSUME NEW c, NEW e, Listing(c, e), NEW b, NEW f, Listing(b, f),
           NEW z, SameBut(z, e, EntriesOf(c, e), f, EntriesOf(b, f))
    PROVE  /\ Count(c, e) \in Int
           /\ Count(b, f) =
                 Count(c, e) + (Term(f, EntriesOf(b, f), z) - Term(e, EntriesOf(c, e), z))
BY EntriesOfAre, TotalChanged DEF Count

\* The same entries, but for directory pages without any.
LEMMA SameCount ==
    ASSUME NEW c, NEW e, Listing(c, e), NEW b, NEW f, Listing(b, f),
           \A d \in Pages : Contains(c, d) => Contains(b, d) /\ f[d] = e[d],
           \A d \in Pages : Contains(b, d) => Contains(c, d) \/ f[d] = << >>
    PROVE  Count(b, f) = Count(c, e)
<1>1. \A d \in Pages : Contains(b, d) /\ f[d] # << >> => Contains(c, d) /\ f[d] = e[d]
      OBVIOUS
<1>2. Listed(c, e) /\ Listed(b, f) /\ Numbered(e, EntriesOf(c, e))
      BY EntriesOfAre
<1>3. \A d \in Pages : 1 .. Len(f[d]) # {} => f[d] # << >>
      BY EmptySeq
<1>4. EntriesOf(c, e) \subseteq EntriesOf(b, f)
      BY <1>2 DEF Listed
<1>5. EntriesOf(b, f) \subseteq EntriesOf(c, e)
      BY <1>1, <1>2, <1>3 DEF Listed
<1>6. \A x \in EntriesOf(c, e) : NumberAt(e, x) = NumberAt(f, x)
      BY <1>2 DEF Listed, NumberAt
<1> DEFINE z == <<0, 0>>
<1>7. Term(f, EntriesOf(b, f), z) = Term(e, EntriesOf(c, e), z) /\ EntriesOf(b, f) = EntriesOf(c, e)
      BY <1>4, <1>5, <1>6 DEF Term
<1> HIDE DEF z
<1>8. Term(e, EntriesOf(c, e), z) \in Int
      BY <1>2 DEF Numbered, Term
<1>9. /\ Count(c, e) \in Int
      /\ Count(b, f) =
            Count(c, e) + (Term(f, EntriesOf(b, f), z) - Term(e, EntriesOf(c, e), z))
  <2>1. SameBut(z, e, EntriesOf(c, e), f, EntriesOf(b, f))
        BY <1>6, <1>7 DEF SameBut
  <2> QED BY <2>1, CountChanged
<1> QED BY <1>7, <1>8, <1>9

Within(z, c, e, f) ==
    \A d \in Pages : \A i \in 1 .. Len(e[d]) :
       Contains(c, d) => i \in 1 .. Len(f[d]) \/ <<d, i>> = z

LEMMA EntriesWithin ==
    ASSUME NEW c, NEW e, Listed(c, e), NEW f, Listed(c, f), NEW z, Within(z, c, e, f)
    PROVE  EntriesOf(c, e) \subseteq EntriesOf(c, f) \cup {z}
BY DEF Listed, Within

\* A new entry, of a page without records.
Extended(d, e, f) ==
    /\ Len(e[d]) \in Nat /\ Len(f[d]) = Len(e[d]) + 1 /\ f[d][Len(e[d]) + 1].n = 0
    /\ \A i \in 1 .. Len(e[d]) : f[d][i] = e[d][i]
    /\ \A q \in Pages \ {d} : f[q] = e[q]

LEMMA AddedCount ==
    ASSUME NEW c, NEW e, Listing(c, e), NEW f, Listing(c, f),
           NEW d \in Pages, Contains(c, d), Extended(d, e, f)
    PROVE  Count(c, f) = Count(c, e)
<1> DEFINE m == Len(e[d])
           z == <<d, m + 1>>
<1>1. /\ m \in Nat /\ Len(f[d]) = m + 1 /\ f[d][m + 1].n = 0
      /\ \A i \in 1 .. m : f[d][i] = e[d][i]
      /\ \A q \in Pages \ {d} : f[q] = e[q]
      BY DEF Extended
<1>2. Listed(c, e) /\ Listed(c, f)
      BY EntriesOfAre
<1>3. 1 .. m + 1 = (1 .. m) \cup {m + 1} /\ m + 1 \notin 1 .. m
      BY <1>1
<1>4. EntriesOf(c, f) = EntriesOf(c, e) \cup {z} /\ z \notin EntriesOf(c, e)
  <2>1. z \in EntriesOf(c, f) /\ z \notin EntriesOf(c, e)
    <3>1. m + 1 \in 1 .. Len(f[d]) /\ m + 1 \notin 1 .. Len(e[d])
          BY <1>1, <1>3
    <3> HIDE DEF m
    <3>2. z \in EntriesOf(c, f)
          BY <1>2, <3>1 DEF Listed
    <3>3. \A q \in Pages : \A i \in 1 .. Len(e[q]) : z # <<q, i>>
          BY <3>1
    <3> QED BY <1>2, <3>2, <3>3 DEF Listed
  <2>2. ASSUME NEW q \in Pages, NEW i \in 1 .. Len(e[q]), Contains(c, q)
        PROVE  i \in 1 .. Len(f[q])
        BY <1>1, <1>3
  <2>3. ASSUME NEW q \in Pages, NEW i \in 1 .. Len(f[q]), Contains(c, q)
        PROVE  i \in 1 .. Len(e[q]) \/ <<q, i>> = z
        BY <1>1, <1>3
  <2> HIDE DEF z
  <2>4. Within(z, c, e, f) /\ Within(z, c, f, e)
        BY <2>2, <2>3 DEF Within
  <2>5. /\ EntriesOf(c, e) \subseteq EntriesOf(c, f) \cup {z}
        /\ EntriesOf(c, f) \subseteq EntriesOf(c, e) \cup {z}
        BY <1>2, <2>4, EntriesWithin
  <2> QED BY <2>1, <2>5
<1>5. \A x \in EntriesOf(c, e) : NumberAt(e, x) = NumberAt(f, x)
  <2>1. ASSUME NEW q \in Pages, NEW i \in 1 .. Len(e[q]), Contains(c, q)
        PROVE  e[q][i] = f[q][i]
        BY <1>1
  <2> QED BY <1>2, <2>1 DEF Listed, NumberAt
<1>6. Term(f, EntriesOf(c, f), z) = 0 /\ Term(e, EntriesOf(c, e), z) = 0
      BY <1>1, <1>4 DEF Term, NumberAt
<1> HIDE DEF z
<1>7. /\ Count(c, e) \in Int
      /\ Count(c, f) =
            Count(c, e) + (Term(f, EntriesOf(c, f), z) - Term(e, EntriesOf(c, e), z))
  <2>1. SameBut(z, e, EntriesOf(c, e), f, EntriesOf(c, f))
        BY <1>4, <1>5 DEF SameBut
  <2> QED BY <2>1, CountChanged
<1> QED BY <1>6, <1>7

\* One entry of page p counts k records more.
Recording(d, p, k, h, e, f) ==
    /\ \E i \in 1 .. Len(e[d]) : e[d][i].pid = p
    /\ f = [e EXCEPT ![d] = Recorded(e[d], p, k, h)]

LEMMA RecordedCount ==
    ASSUME NEW c, NEW e, Listing(c, e), NEW f, Listing(c, f),
           NEW d \in Pages, Contains(c, d),
           NEW p, NEW k \in Int, NEW h, Recording(d, p, k, h, e, f)
    PROVE  Count(c, e) \in Int /\ Count(c, f) = Count(c, e) + k
<1> DEFINE I  == {i \in 1 .. Len(e[d]) : e[d][i].pid = p}
           j  == SelectInSeq(e[d], LAMBDA r : r.pid = p)
           z  == <<d, j>>
<1>1. /\ e[d] \in Seq(PageInfo) /\ Len(e[d]) \in Nat
      /\ \A i \in 1 .. Len(e[d]) : e[d][i] \in PageInfo
      BY LenProperties, ElementOfSeq DEF Listing
<1>2. j = IF I # {} THEN Min(I) ELSE 0
      BY DEF SelectInSeq
<1>3. j \in 1 .. Len(e[d])
  <2>1. I \in SUBSET (1 .. Len(e[d])) /\ I # {}
        BY DEF Recording
  <2> HIDE DEF I, j
  <2> QED BY <1>1, <1>2, <2>1, FirstIndex
<1>4. /\ f[d] = [i \in 1 .. Len(e[d]) |->
            IF i = j THEN [e[d][i] EXCEPT !.n = @ + k, !.space = Available(h)] ELSE e[d][i]]
      /\ \A q \in Pages \ {d} : f[q] = e[q]
      BY DEF Listing, Recording, Recorded
<1> HIDE DEF j, I
<1>5. /\ Len(f[d]) = Len(e[d]) /\ f[d][j].n = e[d][j].n + k
      /\ \A i \in 1 .. Len(e[d]) : i # j => f[d][i] = e[d][i]
  <2>1. f[d] \in Seq(PageInfo)
        BY DEF Listing
  <2>2. Len(f[d]) \in Nat /\ DOMAIN f[d] = 1 .. Len(f[d])
        BY <2>1, LenProperties
  <2>3. DOMAIN f[d] = 1 .. Len(e[d])
        BY <1>4
  <2>4. Len(f[d]) = Len(e[d])
        BY <1>1, <2>2, <2>3
  <2>5. f[d][j].n = e[d][j].n + k
    <3>1. f[d][j] = [e[d][j] EXCEPT !.n = @ + k, !.space = Available(h)]
          BY <1>3, <1>4
    <3>2. e[d][j] \in PageInfo
          BY <1>1, <1>3
    <3> QED BY <3>1, <3>2 DEF PageInfo
  <2> QED BY <1>4, <2>4, <2>5
<1>6. Listed(c, e) /\ Listed(c, f) /\ Numbered(e, EntriesOf(c, e))
      BY EntriesOfAre
<1>7. EntriesOf(c, f) = EntriesOf(c, e)
  <2>1. \A q \in Pages : Len(f[q]) = Len(e[q])
        BY <1>4, <1>5
  <2> QED BY <1>6, <2>1 DEF Listed
<1>8. z \in EntriesOf(c, e)
      BY <1>3, <1>6 DEF Listed
<1>9. \A x \in EntriesOf(c, e) \ {z} : NumberAt(e, x) = NumberAt(f, x)
  <2>1. ASSUME NEW q \in Pages, NEW i \in 1 .. Len(e[q]), <<q, i>> # z
        PROVE  e[q][i] = f[q][i]
        BY <1>4, <1>5, <2>1
  <2> QED BY <1>6, <2>1 DEF Listed, NumberAt
<1>10. NumberAt(f, z) = NumberAt(e, z) + k
      BY <1>5 DEF NumberAt
<1> HIDE DEF z
<1>11. Term(f, EntriesOf(c, f), z) = NumberAt(e, z) + k /\ Term(e, EntriesOf(c, e), z) = NumberAt(e, z)
      BY <1>7, <1>8, <1>10 DEF Term
<1>12. /\ Count(c, e) \in Int
       /\ Count(c, f) =
             Count(c, e) + (Term(f, EntriesOf(c, f), z) - Term(e, EntriesOf(c, e), z))
  <2>1. SameBut(z, e, EntriesOf(c, e), f, EntriesOf(c, f))
        BY <1>7, <1>9 DEF SameBut
  <2> QED BY <2>1, CountChanged
<1>13. \A a, t, u \in Int : a + ((t + u) - t) = a + u
      OBVIOUS
<1> QED BY <1>6, <1>8, <1>11, <1>12, <1>13 DEF Numbered

\* No entries, no records.
LEMMA EmptyCount == ASSUME NEW e PROVE Count(<< >>, e) = 0
<1>1. EntriesOf(<< >>, e) = {}
      BY EmptySeq DEF EntriesOf, Contains
<1>2. PICK g : Sums([x \in {} |-> NumberAt(e, x)], {}, g) /\ TotalOf(e, {}) = g[{}]
      BY TotalIs, FS_EmptySet DEF Numbered
<1>3. g[{}] = 0
      BY <1>2 DEF Sums
<1> QED BY <1>1, <1>2, <1>3 DEF Count

-----------------------------------------------------------------------------
(* The steps and the property *)

CountRight == freed \/ GetNumOfRecords = balance

CountInv == undefined \/ CountRight

LEMMA InvListing ==
    ASSUME IInv PROVE Listing(chain, entries) /\ \A d : InChain(d) <=> Contains(chain, d)
BY DEF IInv, Types, Rooms, Listing, InChain, Contains

LEMMA InvListingNext ==
    ASSUME IInv' PROVE Listing(chain', entries') /\ \A d : InChain(d)' <=> Contains(chain', d)
BY DEF IInv, Types, Rooms, Listing, InChain, Contains

\* No entry with records comes or goes.
LEMMA StillRight ==
    ASSUME IInv, IInv', CountRight, UNCHANGED <<freed, balance>>,
           \A d \in Pages : InChain(d) => InChain(d)' /\ entries'[d] = entries[d],
           \A d \in Pages : InChain(d)' => InChain(d) \/ entries'[d] = << >>
    PROVE  CountRight'
<1>1. Count(chain', entries') = Count(chain, entries)
  <2>1. \A d \in Pages : Contains(chain, d) => Contains(chain', d) /\ entries'[d] = entries[d]
        BY InvListing, InvListingNext
  <2>2. \A d \in Pages : Contains(chain', d) => Contains(chain, d) \/ entries'[d] = << >>
        BY InvListing, InvListingNext
  <2> QED BY <2>1, <2>2, InvListing, InvListingNext, SameCount
<1> QED BY <1>1, CountIs DEF CountRight

LEMMA SameFileRight ==
    ASSUME IInv, IInv', CountRight, UNCHANGED <<chain, entries, freed, balance>>
    PROVE  CountRight'
<1>1. GetNumOfRecords' = GetNumOfRecords
      BY CountIs
<1> QED BY <1>1 DEF CountRight

\* One record more or fewer, and the entry of its page says so.
LEMMA RecordedRight ==
    ASSUME IInv, IInv', CountRight, UNCHANGED <<chain, freed>>,
           NEW d \in Pages, InChain(d), NEW p, Named(d, p), NEW h, NEW k,
           \/ k = 1 /\ balance' = balance + 1
           \/ k = -1 /\ balance' = balance - 1,
           entries' = [entries EXCEPT ![d] = Recorded(entries[d], p, k, h)]
    PROVE  CountRight'
<1>1. k \in Int /\ (balance \in Int => balance' = balance + k)
      OBVIOUS
<1>2. /\ Listing(chain, entries) /\ Listing(chain, entries') /\ Contains(chain, d)
      /\ Recording(d, p, k, h, entries, entries')
      BY InvListing, InvListingNext DEF Named, Recording
<1>3. Count(chain, entries) \in Int /\ Count(chain, entries') = Count(chain, entries) + k
      BY <1>1, <1>2, RecordedCount
<1> QED BY <1>1, <1>3, CountIs DEF CountRight

LEMMA NewDirPageRight ==
    ASSUME IInv, IInv', Agreement, CountRight, NewDirPage, ~undefined' PROVE CountRight'
<1> DEFINE q == NewPid
<1>1. /\ pc = "newdir" /\ UNCHANGED <<freed, balance>>
      /\ \A d \in Pages : InChain(d) => owner[d] = "dir"
      BY DEF NewDirPage, Running, IInv, DirInv, InChain
<1>2. CASE UNCHANGED <<chain, entries>>
      BY <1>1, <1>2, SameFileRight
<1>3. CASE /\ CanNewPage /\ entries' = [entries EXCEPT ![q] = << >>]
           /\ chain' = Linked(last[who], q) \/ UNCHANGED chain
  <2>1. q \in Pages /\ owner[q] = "free"
        BY <1>3, NewPidIsFree DEF CanNewPage
  <2> HIDE DEF q
  <2>2. /\ ~InChain(q) /\ entries'[q] = << >>
        /\ \A p \in Pages \ {q} : entries'[p] = entries[p]
        BY <1>1, <1>3, <2>1 DEF IInv, Types
  <2>3. CASE UNCHANGED chain
    <3>1. \A d : InChain(d)' <=> InChain(d)
          BY <2>3 DEF InChain
    <3> QED BY <1>1, <2>2, <3>1, StillRight
  <2>4. CASE chain' = Linked(last[who], q)
    <3>1. chain # << >> /\ last[who] = Last(chain)
          BY <1>1 DEF Agreement, Ends
    <3>2. chain \in Seq(Pages) /\ Len(chain) \in Nat
          BY InvTypes DEF Types
    <3>3. chain' = Append(chain, q)
          BY <2>1, <2>2, <2>4, <3>1, <3>2, LinkedIs DEF IInv, DirInv
    <3>4. /\ Len(chain') = Len(chain) + 1 /\ chain'[Len(chain) + 1] = q
          /\ \A i \in 1 .. Len(chain) : chain'[i] = chain[i]
          BY <2>1, <3>2, <3>3, AppendProperties
    <3>5. \A p \in Pages : InChain(p)' <=> InChain(p) \/ p = q
      <4>1. 1 .. Len(chain') = (1 .. Len(chain)) \cup {Len(chain) + 1}
            BY <3>2, <3>4
      <4> QED BY <3>2, <3>4, <4>1 DEF InChain
    <3> QED BY <1>1, <2>1, <2>2, <3>5, StillRight
  <2> QED BY <1>3, <2>3, <2>4
<1> QED BY <1>2, <1>3 DEF NewDirPage, Undefined

LEMMA NewDataPageRight ==
    ASSUME IInv, IInv', Agreement, CountRight, NewDataPage, ~undefined' PROVE CountRight'
<1>1. /\ pc = "newdata" /\ UNCHANGED <<chain, freed, balance>> /\ dir \in Pages /\ InChain(dir)
      BY DEF NewDataPage, Running, IInv, CallInv, Agreement, Holds
<1>2. CASE UNCHANGED entries
      BY <1>1, <1>2, SameFileRight
<1>3. ASSUME NEW new, new.n = 0,
             entries' = [entries EXCEPT ![dir] = Append(entries[dir], new)]
      PROVE  CountRight'
  <2>1. /\ Listing(chain, entries) /\ Listing(chain, entries') /\ Contains(chain, dir)
        BY <1>1, InvListing, InvListingNext
  <2>2. /\ entries[dir] \in Seq(PageInfo) /\ Len(entries[dir]) \in Nat
        /\ entries'[dir] = Append(entries[dir], new)
        /\ \A d \in Pages \ {dir} : entries'[d] = entries[d]
        BY <1>1, <1>3, EntryTypes DEF IInv, Types
  <2>3. entries[dir] \in Seq(PageInfo \cup {new}) /\ new \in PageInfo \cup {new}
    <3>1. \A i \in 1 .. Len(entries[dir]) : entries[dir][i] \in PageInfo \cup {new}
          BY <2>2, ElementOfSeq
    <3>2. entries[dir] = [i \in 1 .. Len(entries[dir]) |-> entries[dir][i]]
          BY <2>2, LenProperties
    <3> QED BY <2>2, <3>1, <3>2, IsSequence
  <2>4. /\ Len(Append(entries[dir], new)) = Len(entries[dir]) + 1
        /\ Append(entries[dir], new)[Len(entries[dir]) + 1] = new
        /\ \A i \in 1 .. Len(entries[dir]) : Append(entries[dir], new)[i] = entries[dir][i]
        BY <2>3, AppendProperties
  <2>5. Extended(dir, entries, entries')
        BY <1>3, <2>2, <2>4 DEF Extended
  <2>6. Count(chain, entries') = Count(chain, entries)
        BY <1>1, <2>1, <2>5, AddedCount
  <2> QED BY <1>1, <2>6, CountIs DEF CountRight
<1>4. CASE CanNewPage
  <2> DEFINE new == [pid |-> NewPid, space |-> Available(heap'[NewPid]), n |-> 0]
  <2>1. entries' = [entries EXCEPT ![dir] = Append(entries[dir], new)] \/ UNCHANGED entries
        BY <1>4 DEF NewDataPage, Undefined
  <2>2. new.n = 0
        OBVIOUS
  <2> HIDE DEF new
  <2> QED BY <1>2, <1>3, <2>1, <2>2
<1> QED BY <1>2, <1>4 DEF NewDataPage

LEMMA PutRight ==
    ASSUME IInv, IInv', Agreement, CountRight, Put, ~undefined' PROVE CountRight'
<1>1. /\ pc = "put" /\ UNCHANGED <<chain, freed>> /\ dir \in Pages
      /\ InChain(dir) /\ Named(dir, pid)
      BY DEF Put, Running, IInv, CallInv, Agreement, Holds
<1>2. CASE UNCHANGED <<entries, balance>>
      BY <1>1, <1>2, SameFileRight
<1>3. CASE /\ balance' = balance + 1
           /\ entries' = [entries EXCEPT ![dir] = Recorded(@, pid, 1, heap'[pid])]
  <2>1. PICK d, h : d \in Pages /\ d = dir /\ h = heap'[pid]
        BY <1>1
  <2>2. /\ InChain(d) /\ Named(d, pid)
        /\ entries' = [entries EXCEPT ![d] = Recorded(entries[d], pid, 1, h)]
        BY <1>1, <1>3, <2>1
  <2> QED BY <1>1, <1>3, <2>2, RecordedRight
<1> QED BY <1>2, <1>3 DEF Put, Undefined

LEMMA DeleteRecordRight ==
    ASSUME IInv, IInv', CountRight, NEW p \in Pages, NEW s, DeleteRecord(p, s), ~undefined'
    PROVE  CountRight'
<1> DEFINE d  == chain[DirOf(p)]
           h  == PageDeleted(heap[p], s)
<1>1. UNCHANGED chain
      BY DEF DeleteRecord
<1>2. CASE UNCHANGED <<entries, freed, balance>>
      BY <1>1, <1>2, SameFileRight
<1>3. ASSUME NEW ps, DirOf(p) # 0, DeletedFrom(d, p, h, ps) PROVE CountRight'
  <2>1. d \in Pages /\ InChain(d) /\ Named(d, p)
        BY <1>3, DirOfNamed
  <2>2. CASE freed' = TRUE
        BY <2>2 DEF CountRight
  <2>3. CASE /\ UNCHANGED freed /\ balance' = balance - 1
             /\ entries' = [entries EXCEPT ![d] = Recorded(entries[d], p, -1, h)]
    <3> HIDE DEF d, h
    <3> QED BY <1>1, <2>1, <2>3, RecordedRight
  <2> QED BY <1>3, <2>2, <2>3 DEF DeletedFrom
<1> QED BY <1>2, <1>3 DEF DeleteRecord, Undefined

LEMMA DeleteDirPageRight ==
    ASSUME IInv, CountRight, DeleteDirPage, ~undefined' PROVE CountRight'
<1>1. FreeDirPage(entries[dir], FirstKept, Position, Freed)
      BY DeleteDirPageIs DEF Undefined
<1>2. CASE freed' = TRUE
      BY <1>2 DEF CountRight
<1>3. CASE chain' = << >> /\ balance' = 0
  <2>1. GetNumOfRecords' = 0
        BY <1>3, CountIs, EmptyCount
  <2> QED BY <1>3, <2>1 DEF CountRight
<1> QED BY <1>1, <1>2, <1>3 DEF FreeDirPage

LEMMA CreateRight ==
    ASSUME IInv, IInv', CountRight, NEW h \in Handles, Create(h) PROVE CountRight'
<1>1. chain = << >> /\ UNCHANGED <<freed, balance>>
      BY DEF Create
<1>2. CASE CanNewPage
  <2>1. NewPid \in Pages
        BY <1>2, NewPidIsFree DEF CanNewPage
  <2>2. entries'[NewPid] = << >> /\ chain' = <<NewPid>>
        BY <1>2, <2>1 DEF Create, IInv, Types
  <2>3. \A d \in Pages : ~InChain(d) /\ (InChain(d)' => entries'[d] = << >>)
        BY <1>1, <2>2, EmptySeq DEF InChain
  <2> QED BY <1>1, <2>3, StillRight
<1>3. CASE UNCHANGED file
      BY <1>1, <1>3, SameFileRight DEF file
<1> QED BY <1>2, <1>3 DEF Create

LEMMA CountStep ==
    ASSUME IInv, IInv', AgreementInv, CountInv, [Next]_vars PROVE CountInv'
<1>1. CASE UNCHANGED vars
  <2>1. UNCHANGED <<chain, entries, undefined, freed, balance>>
        BY <1>1 DEF vars, file
  <2> QED BY <2>1, SameFileRight DEF CountInv
<1>2. ASSUME Next, ~undefined', ~(UNCHANGED vars) PROVE CountRight'
  <2>1. Agreement /\ CountRight
    <3>1. ~undefined
          BY <1>2 DEF Next, Create, Open, InsertRecord, NewDirPage, NewDataPage, Put,
             GetRecord, DeleteRecord, UpdateRecord, DeleteFile, DeleteDirPage,
             OtherAllocates, OtherFrees, Ready, Running
    <3> QED BY <3>1 DEF AgreementInv, CountInv
  <2>2. CASE UNCHANGED <<chain, entries, freed, balance>>
        BY <2>1, <2>2, SameFileRight
  <2>3. CASE \E h \in Handles : Create(h) \/ Open(h) \/ \E l \in Lengths : InsertRecord(h, l)
        BY <2>1, <2>2, <2>3, CreateRight DEF Open, InsertRecord, file
  <2>4. CASE NewDirPage \/ NewDataPage \/ Put
        BY <1>2, <2>1, <2>4, NewDirPageRight, NewDataPageRight, PutRight
  <2>5. CASE \E p \in Pages, s \in 0 .. 2 :
                GetRecord(p, s) \/ DeleteRecord(p, s) \/ UpdateRecord(p, s)
        BY <1>2, <2>1, <2>2, <2>5, DeleteRecordRight DEF GetRecord, UpdateRecord, file
  <2>6. CASE DeleteFile \/ DeleteDirPage
        BY <1>2, <2>1, <2>2, <2>6, DeleteDirPageRight DEF DeleteFile, file
  <2>7. CASE OtherAllocates \/ \E p \in Pages : OtherFrees(p)
        BY <2>2, <2>7 DEF OtherAllocates, OtherFrees
  <2> QED BY <1>2, <2>3, <2>4, <2>5, <2>6, <2>7 DEF Next
<1> QED BY <1>1, <1>2 DEF CountInv

\* And the numbers of records in the directory add up to the insertions minus
\* the deletions that were carried out, also in the middle of an InsertRecord,
\* with the file open once and until a data page is freed: no call leaves a
\* count behind, or adds to it twice.
THEOREM RecordsCounted == OneHandle /\ Spec => []DirectoryAgrees
<1>1. Init => AgreementInv /\ CountInv
  <2>1. Init => GetNumOfRecords = 0
        BY CountIs, EmptyCount DEF Init
  <2> QED BY <2>1, InitAgrees DEF CountInv, CountRight, Init
<1>2. OneHandle /\ IInv /\ AgreementInv /\ [Next]_vars => AgreementInv'
      BY AgreementStep
<1>3. IInv /\ IInv' /\ AgreementInv /\ CountInv /\ [Next]_vars => CountInv'
      BY CountStep
<1>4. OneHandle /\ [Next]_vars => OneHandle'
      BY DEF OneHandle
<1>5. EntriesAgree /\ CountInv => DirectoryAgrees
      BY DEF DirectoryAgrees, CountInv, CountRight
<1> QED BY Invariance, EntriesTrue, <1>1, <1>2, <1>3, <1>4, <1>5, PTL DEF Spec

-----------------------------------------------------------------------------
(* Scans: the inductive invariant, beside those of the file *)

\* No directory page names itself.
NotItself == \A d \in Pages : ~Named(d, d)

\* The fields of a scan.  It holds a data page only with a directory page,
\* none when it is not open, and none when it is through with the file.
Scans == [open : BOOLEAN, dirPid : Pages \cup {INVALID_PAGE}, dirPage : {"null", "held"},
          entry : Nat, pid : Pages \cup {INVALID_PAGE}, page : {"null", "held", "wild"},
          slot : Nat, noMore : BOOLEAN]
WellFormed(s) ==
    /\ s \in Scans
    /\ s.page = "held" => s.dirPage = "held" /\ s.pid \in Pages /\ s.pid # s.dirPid
    /\ s.dirPage = "held" => s.dirPid \in Pages /\ s.open /\ (s.noMore => s.page = "wild")
Fields == WellFormed(scan)

\* The pins are those of the scan, and its pages are where DeleteFile will
\* find them: in the chain, and named by a page of it.
Live ==
    /\ PinsAre(Held)
    /\ scan.dirPage = "held" => InChain(scan.dirPid)
    /\ scan.page = "held" => \E d \in Pages : InChain(d) /\ Named(d, scan.pid)

\* The file was deleted, and the pins of the scan with it.
Dead == past = "deleted" /\ scan.dirPage = "held" /\ PinsAre({})

\* While DeleteFile runs, only pages that it has not come to are pinned.
Behindhand(n, p) == \E i \in n .. Len(chain) : chain[i] = p \/ Named(chain[i], p)
Dying ==
    \E n \in 1 .. Len(chain) :
        /\ chain[n] = dir
        /\ \A p \in Pages : pins[p] = 0 \/ (pins[p] = 1 /\ Behindhand(n, p))

ScanPins == IF pc = "delete" THEN Dying ELSE Live \/ Dead

SInv == IInv /\ AgreementInv /\ NotItself /\ Fields /\ ScanPins

\* After a failure pins are left behind (see HeapFile).
ScanInv == undefined \/ ret.failed \/ SInv

-----------------------------------------------------------------------------
(* The operators *)

\* Recorded changes no page number, WithoutPage adds none.
LEMMA RecordedNames ==
    ASSUME NEW es \in Seq(PageInfo), NEW p, NEW c \in Int, NEW h \in HeapPages, h.free >= SlotSize
    PROVE  PagesOf(Recorded(es, p, c, h)) = PagesOf(es)
<1>1. Len(Recorded(es, p, c, h)) = Len(es) /\ Recorded(es, p, c, h) \in Seq(PageInfo)
      BY RecordedIs
<1>2. \A i \in 1 .. Len(es) : Recorded(es, p, c, h)[i].pid = es[i].pid
      BY RecordedAt
<1> QED BY <1>1, <1>2 DEF PagesOf

LEMMA NoneAdded ==
    ASSUME NEW es \in Seq(PageInfo), NEW p
    PROVE  PagesOf(WithoutPage(es, p)) \subseteq PagesOf(es)
<1> DEFINE I == {i \in 1 .. Len(es) : es[i].pid = p}
           j == SelectInSeq(es, LAMBDA e : e.pid = p)
           a == SubSeq(es, 1, j - 1)
           b == SubSeq(es, j + 1, Len(es))
<1>1. Len(es) \in Nat /\ \A i \in 1 .. Len(es) : es[i] \in PageInfo
      BY LenProperties, ElementOfSeq
<1>2. j = IF I # {} THEN Min(I) ELSE 0
      BY DEF SelectInSeq
<1>3. j \in 0 .. Len(es)
  <2>1. I \in SUBSET (1 .. Len(es))
        OBVIOUS
  <2> HIDE DEF I, j
  <2> QED BY <1>1, <1>2, <2>1, FirstIndex
<1>4. WithoutPage(es, p) = IF j = 1 THEN es ELSE a \o b
      BY DEF WithoutPage, RemoveAt
<1> HIDE DEF j
<1>5. /\ \A m \in 1 .. j - 1 : es[m] \in PageInfo
      /\ \A m \in j + 1 .. Len(es) : es[m] \in PageInfo
      /\ j - 1 \in Int /\ j + 1 \in Int /\ Len(es) \in Int
      BY <1>1, <1>3
<1>6. /\ a \in Seq(PageInfo) /\ Len(a) = IF 1 <= j - 1 THEN (j - 1) - 1 + 1 ELSE 0
      /\ \A m \in 1 .. (j - 1) - 1 + 1 : a[m] = es[1 + m - 1]
      BY <1>5, SubSeqProperties
<1>7. /\ b \in Seq(PageInfo)
      /\ Len(b) = IF j + 1 <= Len(es) THEN Len(es) - (j + 1) + 1 ELSE 0
      /\ \A m \in 1 .. Len(es) - (j + 1) + 1 : b[m] = es[(j + 1) + m - 1]
      BY <1>5, SubSeqProperties
<1> HIDE DEF a, b
<1>8. /\ Len(a \o b) = Len(a) + Len(b)
      /\ \A m \in 1 .. Len(a) + Len(b) :
            (a \o b)[m] = IF m <= Len(a) THEN a[m] ELSE b[m - Len(a)]
      BY <1>6, <1>7, ConcatProperties
<1>9. \A m \in 1 .. Len(a) : m \in 1 .. Len(es) /\ a[m] = es[m]
      BY <1>1, <1>3, <1>6
<1>10. \A m \in 1 .. Len(b) : j + m \in 1 .. Len(es) /\ b[m] = es[j + m]
  <2> SUFFICES ASSUME NEW m \in 1 .. Len(b) PROVE j + m \in 1 .. Len(es) /\ b[m] = es[j + m]
      OBVIOUS
  <2>1. j + 1 <= Len(es) /\ Len(b) = Len(es) - j
        BY <1>1, <1>3, <1>7
  <2>2. /\ m \in 1 .. Len(es) - (j + 1) + 1 /\ (j + 1) + m - 1 = j + m
        /\ j + m \in 1 .. Len(es)
        BY <1>1, <1>3, <2>1
  <2> QED BY <1>7, <2>2
<1>11. Len(a) \in Nat /\ Len(b) \in Nat
       BY <1>6, <1>7, LenProperties
<1>12. ASSUME NEW m \in 1 .. Len(a \o b) PROVE \E i \in 1 .. Len(es) : (a \o b)[m] = es[i]
  <2>1. CASE m <= Len(a)
        BY <1>8, <1>9, <1>11, <1>12, <2>1
  <2>2. CASE ~(m <= Len(a))
    <3>1. m - Len(a) \in 1 .. Len(b) /\ m \in 1 .. Len(a) + Len(b)
          BY <1>8, <1>11, <1>12, <2>2
    <3> QED BY <1>8, <1>10, <2>2, <3>1
  <2> QED BY <2>1, <2>2
<1> QED BY <1>4, <1>12 DEF PagesOf

LEMMA NamedIs ==
    ASSUME NEW d, NEW p PROVE Named(d, p) <=> p \in PagesOf(entries[d])
BY DEF Named, PagesOf

\* An entry that is found names its page, and is not first without being there.
LEMMA FoundNamed ==
    ASSUME IInv, NEW p, DirOf(p) # 0
    PROVE  LET d == chain[DirOf(p)]
           IN  /\ d \in Pages /\ InChain(d) /\ Named(d, p) /\ EntryOf(d, p) \in Nat
<1> DEFINE d == chain[DirOf(p)]
<1>1. d \in Pages /\ InChain(d) /\ Types
      BY DirOfFound, InvTypes DEF InChain
<1>2. EntryOf(d, p) # 0
  <2> DEFINE I == {i \in 1 .. Len(chain) : EntryOf(chain[i], p) # 0}
  <2>1. DirOf(p) = IF I # {} THEN Min(I) ELSE 0
        BY DEF DirOf, SelectInSeq
  <2>2. I \in SUBSET (1 .. Len(chain)) /\ Len(chain) \in Nat
        BY InvTypes
  <2>3. \A i \in I : EntryOf(chain[i], p) # 0
        OBVIOUS
  <2> HIDE DEF I
  <2> QED BY <2>1, <2>2, <2>3, FirstIndex
<1> HIDE DEF d
<1>3. Named(d, p)
  <2> DEFINE J == {i \in 1 .. Len(entries[d]) : entries[d][i].pid = p}
  <2>1. EntryOf(d, p) = IF J # {} THEN Min(J) ELSE 0
        BY DEF EntryOf, SelectInSeq
  <2>2. J # {}
        BY <1>2, <2>1
  <2> QED BY <2>2 DEF Named
<1>4. EntryOf(d, p) \in Nat
      BY <1>1, EntryOfFound, EntryTypes
<1> QED BY <1>1, <1>3, <1>4 DEF d

PinsOf(H) == [p \in Pages |-> IF p \in H THEN 1 ELSE 0]

LEMMA PinChanges ==
    ASSUME NEW f \in [Pages -> Nat], NEW p \in Pages
    PROVE  /\ With(f, p) = [q \in Pages |-> IF q = p THEN f[p] + 1 ELSE f[q]]
           /\ Without(f, p) = [q \in Pages |-> IF q = p THEN f[p] - 1 ELSE f[q]]
BY DEF With, Without

LEMMA PinsOfSets ==
    ASSUME NEW H, NEW p \in Pages
    PROVE  /\ p \notin H => With(PinsOf(H), p) = PinsOf(H \cup {p})
           /\ p \in H => Without(PinsOf(H), p) = PinsOf(H \ {p})
           /\ PinsOf(H) \in [Pages -> Nat]
<1>1. PinsOf(H) \in [Pages -> Nat] /\ PinsOf(H)[p] = IF p \in H THEN 1 ELSE 0
      BY DEF PinsOf
<1>2. ASSUME p \notin H PROVE With(PinsOf(H), p) = PinsOf(H \cup {p})
  <2>1. \A q \in Pages : (IF q \in H \cup {p} THEN 1 ELSE 0) = IF q = p THEN 1 ELSE PinsOf(H)[q]
        BY <1>2 DEF PinsOf
  <2>2. With(PinsOf(H), p) = [q \in Pages |-> IF q = p THEN 1 ELSE PinsOf(H)[q]]
        BY <1>1, <1>2, PinChanges
  <2> QED BY <2>1, <2>2 DEF PinsOf
<1>3. ASSUME p \in H PROVE Without(PinsOf(H), p) = PinsOf(H \ {p})
  <2>1. \A q \in Pages : (IF q \in H \ {p} THEN 1 ELSE 0) = IF q = p THEN 0 ELSE PinsOf(H)[q]
        BY <1>3 DEF PinsOf
  <2>2. Without(PinsOf(H), p) = [q \in Pages |-> IF q = p THEN 0 ELSE PinsOf(H)[q]]
        BY <1>1, <1>3, PinChanges
  <2> QED BY <2>1, <2>2 DEF PinsOf
<1> QED BY <1>1, <1>2, <1>3

LEMMA IdlePins ==
    ASSUME IInv, pc = "idle", NEW H PROVE PinsAre(H) <=> pins = PinsOf(H)
BY DEF IInv, Types, PinsAre, PinsOf

LEMMA SlotTypes ==
    ASSUME IInv, NEW p \in Pages, NEW S \in SUBSET heap[p].slots, S # {}
    PROVE  Min(S) \in Nat
<1>1. heap[p] \in HeapPages
      BY DEF IInv, Types
<1>2. S \in SUBSET Nat
      BY <1>1 DEF HeapPages
<1>3. \E m \in S : \A k \in S : m <= k
      BY <1>2, LeastNumber
<1>4. Min(S) \in S
      BY <1>3 DEF Min
<1> QED BY <1>2, <1>4

\* GetPageInfo and GetNextPage give pages, and never the directory page itself.
LEMMA InfoTypes ==
    ASSUME IInv, NotItself, NEW d \in Pages, NEW i \in Nat, HasInfo(d, i)
    PROVE  InfoPid(d, i) \in Pages /\ InfoPid(d, i) # d /\ Named(d, InfoPid(d, i))
<1>1. Len(entries[d]) \in Nat /\ \A j \in 1 .. Len(entries[d]) : entries[d][j].pid \in Pages
      BY EntryTypes DEF IInv
<1>2. i + 1 \in 1 .. Len(entries[d])
      BY <1>1 DEF HasInfo
<1> QED BY <1>1, <1>2 DEF InfoPid, Named, NotItself

LEMMA NextTypes ==
    ASSUME IInv, NEW d, NextOf(d) # INVALID_PAGE PROVE NextOf(d) \in Pages /\ InChain(NextOf(d))
<1> DEFINE I == {i \in 1 .. Len(chain) : chain[i] = d}
           k == SelectInSeq(chain, LAMBDA c : c = d)
<1>1. k = IF I # {} THEN Min(I) ELSE 0
      BY DEF SelectInSeq
<1>2. I \in SUBSET (1 .. Len(chain)) /\ Len(chain) \in Nat
      BY InvTypes
<1>3. NextOf(d) = IF k < Len(chain) THEN chain[k + 1] ELSE INVALID_PAGE
      BY DEF NextOf
<1> HIDE DEF I, k
<1>4. k \in 0 .. Len(chain)
      BY <1>1, <1>2, FirstIndex
<1>5. k + 1 \in 1 .. Len(chain) /\ NextOf(d) = chain[k + 1]
      BY <1>2, <1>3, <1>4
<1> QED BY <1>5, InvTypes DEF InChain


-----------------------------------------------------------------------------
(* The steps of the file *)

\* The chain and the entries of its pages grow at their ends, and keep their
\* numbers; a new entry is that of a page that was free.
Grown ==
    /\ \A i \in 1 .. Len(chain) : i \in 1 .. Len(chain') /\ chain'[i] = chain[i]
    /\ \A d \in Pages : InChain(d) =>
          /\ InChain(d)'
          /\ \A i \in 1 .. Len(entries[d]) :
                i \in 1 .. Len(entries'[d]) /\ entries'[d][i].pid = entries[d][i].pid
    /\ \A d \in Pages : InChain(d)' =>
          \A i \in 1 .. Len(entries'[d]) :
             IsEntry(d, i) \/ owner[entries'[d][i].pid] = "free"

\* No directory page comes to name itself.
NoneItself == \A d \in Pages : Named(d, d)' => Named(d, d)

\* A page that is pinned keeps the entries it has.
PinnedStay ==
    \A d \in Pages : InChain(d) =>
        /\ InChain(d)'
        /\ \A p \in Pages : Named(d, p) /\ pins[p] > 0 => Named(d, p)'

LEMMA GrownStay == ASSUME Grown PROVE PinnedStay
BY DEF Grown, PinnedStay, Named

LEMMA SameGrown == ASSUME UNCHANGED <<chain, entries>> PROVE Grown /\ NoneItself
BY DEF Grown, NoneItself, InChain, IsEntry, Named

LEMMA CreateGrown == ASSUME IInv, NEW h \in Handles, Create(h) PROVE Grown /\ NoneItself
<1>1. \A d \in Pages : ~InChain(d)
      BY EmptySeq DEF Create, InChain
<1>2. CASE CanNewPage /\ entries' = [entries EXCEPT ![NewPid] = << >>] /\ chain' = <<NewPid>>
  <2>1. \A d \in Pages : entries'[d] = << >> \/ entries'[d] = entries[d]
        BY <1>2 DEF IInv, Types
  <2>2. NoneItself
        BY <2>1, EmptySeq DEF Named, NoneItself
  <2>3. NewPid \in Pages
        BY <1>2, NewPidIsFree DEF CanNewPage
  <2>4. Len(chain) = 0 /\ Len(<< >>) = 0
        BY EmptySeq DEF Create
  <2>5. \A d \in Pages : InChain(d)' => entries'[d] = << >>
        BY <1>2, <2>3 DEF InChain, IInv, Types
  <2> QED BY <1>1, <2>2, <2>4, <2>5 DEF Grown
<1> QED BY <1>2, SameGrown DEF Create, file

LEMMA NewDirPageGrown ==
    ASSUME IInv, Agreement, NewDirPage, ~undefined' PROVE Grown /\ NoneItself
<1> DEFINE q == NewPid
<1>1. /\ \A d \in Pages : InChain(d) => owner[d] = "dir"
      /\ who \in Handles /\ chain # << >> /\ last[who] = Last(chain)
      BY DEF NewDirPage, Running, IInv, DirInv, InChain, Agreement, Ends
<1>2. CASE /\ CanNewPage /\ entries' = [entries EXCEPT ![q] = << >>]
           /\ chain' = Linked(last[who], q) \/ UNCHANGED chain
  <2>1. q \in Pages /\ owner[q] = "free"
        BY <1>2, NewPidIsFree DEF CanNewPage
  <2> HIDE DEF q
  <2>2. ~InChain(q) /\ \A d \in Pages : InChain(d) => d # q
        BY <1>1, <2>1
  <2>3. chain \in Seq(Pages) /\ Len(chain) \in Nat
        BY InvTypes DEF Types
  <2>4. chain' = Append(chain, q) \/ UNCHANGED chain
        BY <1>1, <1>2, <2>1, <2>2, <2>3, LinkedIs DEF IInv, DirInv
  <2>5. \A i \in 1 .. Len(chain) : i \in 1 .. Len(chain') /\ chain'[i] = chain[i]
    <3>1. CASE UNCHANGED chain
          BY <3>1
    <3>2. CASE chain' = Append(chain, q)
      <4>1. Len(chain') = Len(chain) + 1 /\ \A i \in 1 .. Len(chain) : chain'[i] = chain[i]
            BY <2>1, <2>3, <3>2, AppendProperties
      <4> QED BY <2>3, <4>1
    <3> QED BY <2>4, <3>1, <3>2
  <2>6. \A d \in Pages : entries'[d] = IF d = q THEN << >> ELSE entries[d]
        BY <1>2 DEF IInv, Types
  <2>7. \A d \in Pages : InChain(d) => InChain(d)' /\ entries'[d] = entries[d]
        BY <2>2, <2>5, <2>6 DEF InChain
  <2>8. NoneItself
        BY <2>6, EmptySeq DEF Named, NoneItself
  <2>9. \A d \in Pages : InChain(d)' => InChain(d) \/ entries'[d] = << >>
    <3>1. CASE UNCHANGED chain
          BY <3>1 DEF InChain
    <3>2. CASE chain' = Append(chain, q)
      <4>1. /\ Len(chain') = Len(chain) + 1 /\ chain'[Len(chain) + 1] = q
            /\ \A i \in 1 .. Len(chain) : chain'[i] = chain[i]
            BY <2>1, <2>3, <3>2, AppendProperties
      <4>2. \A i \in 1 .. Len(chain') : i \in 1 .. Len(chain) \/ i = Len(chain) + 1
            BY <2>3, <4>1
      <4> QED BY <2>6, <4>1, <4>2 DEF InChain
    <3> QED BY <2>4, <3>1, <3>2
  <2>10. \A d \in Pages : InChain(d)' =>
            \A i \in 1 .. Len(entries'[d]) : IsEntry(d, i)
         BY <2>7, <2>9, EmptySeq DEF IsEntry
  <2> QED BY <2>5, <2>7, <2>8, <2>10 DEF Grown
<1> QED BY <1>2, SameGrown DEF NewDirPage, Undefined

LEMMA NewDataPageGrown == ASSUME IInv, NewDataPage PROVE Grown /\ NoneItself
<1> DEFINE new == [pid |-> NewPid, space |-> Available(heap'[NewPid]), n |-> 0]
<1>1. dir \in Pages /\ owner[dir] = "dir" /\ UNCHANGED chain
      BY DEF NewDataPage, Running, IInv, CallInv
<1>2. CASE ~CanNewPage
      BY <1>1, <1>2, SameGrown DEF NewDataPage
<1>3. CASE CanNewPage
  <2>1. entries' = [entries EXCEPT ![dir] = Append(entries[dir], new)]
        BY <1>3 DEF NewDataPage
  <2>2. NewPid \in Pages /\ owner[NewPid] = "free"
        BY <1>3, NewPidIsFree DEF CanNewPage
  <2>3. new \in PageInfo /\ new.pid = NewPid /\ new.pid # dir
    <3>1. heap'[NewPid].free = DataSize - SlotSize
          BY <1>3, <2>2 DEF NewDataPage, IInv, Types
    <3> QED BY <1>1, <2>2, <3>1, Constants DEF PageInfo, Available
  <2> HIDE DEF new
  <2> DEFINE m == Len(entries[dir])
  <2>4. /\ entries[dir] \in Seq(PageInfo) /\ m \in Nat
        /\ Len(Append(entries[dir], new)) = m + 1
        /\ Append(entries[dir], new)[m + 1] = new
        /\ \A i \in 1 .. m : Append(entries[dir], new)[i] = entries[dir][i]
        BY <1>1, <2>3, EntryTypes, AppendProperties DEF IInv
  <2>5. /\ \A b \in Pages \ {dir} : entries'[b] = entries[b]
        /\ Len(entries'[dir]) = m + 1 /\ entries'[dir][m + 1] = new
        /\ \A i \in 1 .. m : entries'[dir][i] = entries[dir][i]
        BY <1>1, <2>1, <2>4 DEF IInv, Types
  <2>6. \A i \in 1 .. m + 1 : i = m + 1 \/ i \in 1 .. m
        BY <2>4
  <2>7. \A i \in 1 .. m : i \in 1 .. m + 1
        BY <2>4
  <2>8. \A d \in Pages : \A i \in 1 .. Len(entries[d]) :
           i \in 1 .. Len(entries'[d]) /\ entries'[d][i].pid = entries[d][i].pid
    <3>1. ASSUME NEW d \in Pages, d = dir, NEW i \in 1 .. Len(entries[d])
          PROVE  i \in 1 .. Len(entries'[d]) /\ entries'[d][i].pid = entries[d][i].pid
          BY <2>5, <2>7, <3>1
    <3>2. ASSUME NEW d \in Pages, d # dir, NEW i \in 1 .. Len(entries[d])
          PROVE  i \in 1 .. Len(entries'[d]) /\ entries'[d][i].pid = entries[d][i].pid
          BY <2>5, <3>2
    <3> QED BY <3>1, <3>2
  <2>9. NoneItself
    <3>1. ASSUME NEW d \in Pages, d = dir PROVE Named(d, d)' => Named(d, d)
          BY <2>3, <2>5, <2>6, <3>1 DEF Named
    <3>2. ASSUME NEW d \in Pages, d # dir PROVE Named(d, d)' => Named(d, d)
          BY <2>5, <3>2 DEF Named
    <3> QED BY <3>1, <3>2 DEF NoneItself
  <2>10. \A d \in Pages : InChain(d)' => InChain(d)
         BY <1>1 DEF InChain
  <2>11. \A d \in Pages : \A i \in 1 .. Len(entries'[d]) :
            i \in 1 .. Len(entries[d]) \/ owner[entries'[d][i].pid] = "free"
    <3>1. ASSUME NEW d \in Pages, d = dir, NEW i \in 1 .. Len(entries'[d])
          PROVE  i \in 1 .. Len(entries[d]) \/ owner[entries'[d][i].pid] = "free"
          BY <2>2, <2>3, <2>5, <2>6, <3>1
    <3>2. ASSUME NEW d \in Pages, d # dir, NEW i \in 1 .. Len(entries'[d])
          PROVE  i \in 1 .. Len(entries[d])
          BY <2>5, <3>2
    <3> QED BY <3>1, <3>2
  <2> QED BY <1>1, <2>8, <2>9, <2>10, <2>11 DEF Grown, InChain, IsEntry
<1> QED BY <1>2, <1>3

\* The entry of a page is brought up to date.
LEMMA RecordedGrown ==
    ASSUME IInv, UNCHANGED chain, NEW d \in Pages, NEW p, NEW c \in Int,
           NEW h \in HeapPages, h.free >= SlotSize,
           entries' = [entries EXCEPT ![d] = Recorded(entries[d], p, c, h)]
    PROVE  Grown /\ NoneItself
<1>1. entries[d] \in Seq(PageInfo)
      BY EntryTypes DEF IInv
<1>2. /\ Len(Recorded(entries[d], p, c, h)) = Len(entries[d])
      /\ \A i \in 1 .. Len(entries[d]) : Recorded(entries[d], p, c, h)[i].pid = entries[d][i].pid
      BY <1>1, RecordedIs, RecordedAt
<1>3. entries'[d] = Recorded(entries[d], p, c, h) /\ \A b \in Pages \ {d} : entries'[b] = entries[b]
      BY DEF IInv, Types
<1>4. \A b \in Pages : /\ Len(entries'[b]) = Len(entries[b])
                       /\ \A i \in 1 .. Len(entries[b]) : entries'[b][i].pid = entries[b][i].pid
      BY <1>2, <1>3
<1> QED BY <1>4 DEF Grown, NoneItself, Named, InChain, IsEntry

LEMMA PutGrown == ASSUME IInv, Put, ~undefined' PROVE Grown /\ NoneItself
<1>1. /\ pc = "put" /\ UNCHANGED chain /\ dir \in Pages /\ pid \in Pages /\ len \in Nat
      BY DEF Put, Running, IInv, CallInv, Types
<1>2. CASE UNCHANGED entries
      BY <1>1, <1>2, SameGrown
<1>3. CASE /\ owner[pid] = "data" /\ heap' = [heap EXCEPT ![pid] = PageInserted(@, len)]
           /\ entries' = [entries EXCEPT ![dir] = Recorded(@, pid, 1, heap'[pid])]
  <2> DEFINE h == PageInserted(heap[pid], len)
  <2>1. h \in HeapPages /\ h.free >= SlotSize
        BY <1>1, <1>3, InsertedIs DEF IInv, Types, Rooms
  <2>2. heap'[pid] = h
        BY <1>1, <1>3 DEF IInv, Types
  <2> HIDE DEF h
  <2>3. PICK d \in Pages, p \in Pages, g \in HeapPages : d = dir /\ p = pid /\ g = h
        BY <1>1, <2>1
  <2>4. g.free >= SlotSize /\ entries' = [entries EXCEPT ![d] = Recorded(entries[d], p, 1, g)]
        BY <1>3, <2>1, <2>2, <2>3
  <2>5. 1 \in Int
        OBVIOUS
  <2> QED BY <1>1, <2>4, <2>5, RecordedGrown, Zenon
<1> QED BY <1>2, <1>3 DEF Put, Undefined

\* Only a page that is not pinned is freed.
LEMMA DeleteRecordGrown ==
    ASSUME IInv, NEW p \in Pages, NEW s, DeleteRecord(p, s), ~undefined'
    PROVE  PinnedStay /\ NoneItself /\ (~FreesData => Grown)
<1> DEFINE d  == chain[DirOf(p)]
           h  == PageDeleted(heap[p], s)
           es == Recorded(entries[d], p, -1, h)
<1>1. UNCHANGED chain
      BY DEF DeleteRecord
<1>2. CASE UNCHANGED entries
      BY <1>1, <1>2, SameGrown, GrownStay
<1>3. ASSUME NEW ps, DirOf(p) # 0, owner[p] = "data", DeletedFrom(d, p, h, ps)
      PROVE  PinnedStay /\ NoneItself /\ (~FreesData => Grown)
  <2>1. d \in Pages
        BY <1>3, FoundNamed
  <2> HIDE DEF d
  <2>2. h \in HeapPages /\ h.free >= SlotSize
        BY <1>3, DeletedIs DEF IInv, Types, Rooms
  <2> HIDE DEF h
  <2>3. -1 \in Int
        OBVIOUS
  <2>4. CASE entries' = [entries EXCEPT ![d] = es]
    <3>1. PICK e \in Pages, g \in HeapPages : e = d /\ g = h
          BY <2>1, <2>2
    <3>2. g.free >= SlotSize /\ entries' = [entries EXCEPT ![e] = Recorded(entries[e], p, -1, g)]
          BY <2>2, <2>4, <3>1
    <3>3. Grown /\ NoneItself
          BY <1>1, <2>3, <3>2, RecordedGrown, Zenon
    <3> QED BY <3>3, GrownStay
  <2>5. CASE /\ pins[p] = 0 /\ entries' = [entries EXCEPT ![d] = WithoutPage(es, p)]
             /\ owner' = [owner EXCEPT ![p] = "free"]
    <3>1. entries[d] \in Seq(PageInfo)
          BY <2>1, EntryTypes DEF IInv
    <3>2. es \in Seq(PageInfo) /\ PagesOf(es) = PagesOf(entries[d])
          BY <2>2, <2>3, <3>1, RecordedIs, RecordedNames
    <3> HIDE DEF es
    <3>3. /\ PagesOf(WithoutPage(es, p)) \subseteq PagesOf(entries[d])
          /\ \A q \in PagesOf(entries[d]) : q # p => q \in PagesOf(WithoutPage(es, p))
          BY <3>2, NoneAdded, OthersStay
    <3>4. entries'[d] = WithoutPage(es, p) /\ \A b \in Pages \ {d} : entries'[b] = entries[b]
          BY <2>1, <2>5 DEF IInv, Types
    <3>5. ASSUME NEW b \in Pages
          PROVE  /\ PagesOf(entries'[b]) \subseteq PagesOf(entries[b])
                 /\ \A q \in PagesOf(entries[b]) : q # p => q \in PagesOf(entries'[b])
          BY <3>3, <3>4
    <3>6. \A b, q \in Pages : Named(b, q) <=> q \in PagesOf(entries[b])
          BY NamedIs
    <3>7. \A b, q \in Pages : Named(b, q)' <=> q \in PagesOf(entries'[b])
          BY DEF Named, PagesOf
    <3>8. \A b, q \in Pages : InChain(b) /\ Named(b, q) /\ pins[q] > 0 => Named(b, q)'
          BY <2>5, <3>5, <3>6, <3>7
    <3>9. FreesData
          BY <1>3, <2>5 DEF FreesData, IInv, Types
    <3> QED BY <1>1, <2>5, <3>5, <3>6, <3>7, <3>8, <3>9 DEF PinnedStay, NoneItself, InChain
  <2> QED BY <1>3, <2>4, <2>5 DEF DeletedFrom, es
<1> QED BY <1>2, <1>3 DEF DeleteRecord, Undefined

\* Every step outside DeleteFile.
LEMMA StepGrown ==
    ASSUME IInv, Agreement, [Next]_vars, pc # "delete", ~undefined'
    PROVE  PinnedStay /\ NoneItself /\ (~FreesData => Grown)
<1>1. CASE \E h \in Handles : Create(h) \/ Open(h) \/ \E l \in Lengths : InsertRecord(h, l)
  <2>1. CASE \E h \in Handles : Create(h)
        BY <2>1, CreateGrown, GrownStay
  <2>2. CASE \E h \in Handles : Open(h) \/ \E l \in Lengths : InsertRecord(h, l)
        BY <2>2, SameGrown, GrownStay DEF Open, InsertRecord, file
  <2> QED BY <1>1, <2>1, <2>2
<1>2. CASE NewDirPage \/ NewDataPage \/ Put
      BY <1>2, NewDirPageGrown, NewDataPageGrown, PutGrown, GrownStay
<1>3. CASE \E p \in Pages, s \in 0 .. 2 : GetRecord(p, s) \/ UpdateRecord(p, s)
      BY <1>3, SameGrown, GrownStay DEF GetRecord, UpdateRecord, file
<1>4. CASE \E p \in Pages, s \in 0 .. 2 : DeleteRecord(p, s)
      BY <1>4, DeleteRecordGrown
<1>5. CASE DeleteFile \/ OtherAllocates \/ (\E p \in Pages : OtherFrees(p)) \/ UNCHANGED vars
      BY <1>5, SameGrown, GrownStay DEF DeleteFile, OtherAllocates, OtherFrees, vars, file
<1>6. ~DeleteDirPage
      BY DEF DeleteDirPage, Running
<1> QED BY <1>1, <1>2, <1>3, <1>4, <1>5, <1>6 DEF Next

\* When DeleteFile begins, the pages that are pinned are all before it.
LEMMA AllBehindhand ==
    ASSUME IInv, Fields, Live \/ Dead, pc = "idle", NEW p \in Pages
    PROVE  pins[p] = 0 \/ (pins[p] = 1 /\ Behindhand(1, p))
<1>1. CASE Dead
      BY <1>1 DEF Dead, PinsAre
<1>2. CASE Live /\ p \notin Held
      BY <1>2 DEF Live, PinsAre
<1>3. CASE Live /\ p \in Held
  <2>1. pins[p] = 1
        BY <1>3 DEF Live, PinsAre
  <2>2. InChain(p) \/ \E d \in Pages : InChain(d) /\ Named(d, p)
        BY <1>3 DEF Live, Held
  <2> QED BY <2>1, <2>2 DEF Behindhand, InChain
<1> QED BY <1>1, <1>2, <1>3

LEMMA DeleteFileDying ==
    ASSUME IInv, Fields, Live \/ Dead, DeleteFile PROVE Dying'
<1>1. /\ pc = "idle" /\ chain # << >> /\ dir' = chain[1] /\ UNCHANGED <<chain, entries, pins>>
      BY DEF DeleteFile, Ready, GoTo, file
<1>2. 1 \in 1 .. Len(chain)
      BY <1>1, InvTypes
<1>3. \A p \in Pages : Behindhand(1, p) => Behindhand(1, p)'
      BY <1>1 DEF Behindhand, Named
<1>4. \A p \in Pages : pins'[p] = 0 \/ (pins'[p] = 1 /\ Behindhand(1, p)')
      BY <1>1, <1>3, AllBehindhand
<1> QED BY <1>1, <1>2, <1>4 DEF Dying

\* The step that begins DeleteFile is the only one.
LEMMA DeleteFileBegins ==
    ASSUME [Next]_vars, pc # "delete", pc' = "delete" PROVE DeleteFile
<1>1. ~\E h \in Handles : Create(h) \/ Open(h) \/ \E l \in Lengths : InsertRecord(h, l)
      BY DEF Create, Open, InsertRecord, Return, Undefined, call
<1>2. ~(NewDirPage \/ NewDataPage \/ Put)
      BY DEF NewDirPage, NewDataPage, Put, GoesOnWithoutPage, Return, Undefined, GoTo, call
<1>3. ~\E p \in Pages, s \in 0 .. 2 : GetRecord(p, s) \/ DeleteRecord(p, s) \/ UpdateRecord(p, s)
  <2>1. /\ Undefined => pc' = pc
        /\ \A c, st, ps : Return(c, st, ps) => pc' = "idle"
        BY DEF Undefined, Return, call
  <2>2. \A p \in Pages, s \in 0 .. 2 : ~GetRecord(p, s)
        BY DEF GetRecord, call
  <2>3. \A p \in Pages, s \in 0 .. 2 : ~UpdateRecord(p, s)
        BY <2>1 DEF UpdateRecord
  <2>4. \A p \in Pages, s \in 0 .. 2 : ~DeleteRecord(p, s)
        BY <2>1 DEF DeleteRecord, DeletedFrom
  <2> QED BY <2>2, <2>3, <2>4
<1>4. ~DeleteDirPage /\ ~OtherAllocates /\ ~(\E p \in Pages : OtherFrees(p)) /\ ~(UNCHANGED vars)
      BY DEF DeleteDirPage, Running, OtherAllocates, OtherFrees, vars, call
<1> QED BY <1>1, <1>2, <1>3, <1>4 DEF Next

LEMMA LiveStays ==
    ASSUME IInv, Fields, Live, [Next]_vars, PinnedStay, UNCHANGED scan, pc # "delete", ~ret'.failed
    PROVE  Live'
<1>1. PICK H : H = Held
      OBVIOUS
<1>2. PinsAre(H)'
      BY <1>1, PinsStep DEF Live
<1>3. PinsAre(Held)'
      BY <1>1, <1>2 DEF PinsAre, Held
<1>4. ASSUME scan.dirPage = "held" PROVE InChain(scan.dirPid)'
  <2>1. PICK d \in Pages : d = scan.dirPid /\ InChain(d)
        BY <1>4 DEF Live, Fields, WellFormed
  <2>2. InChain(d)'
        BY <2>1 DEF PinnedStay
  <2> QED BY <2>1, <2>2 DEF InChain
<1>5. ASSUME scan.page = "held" PROVE \E d \in Pages : InChain(d)' /\ Named(d, scan.pid)'
  <2>1. PICK p \in Pages, d \in Pages : p = scan.pid /\ InChain(d) /\ Named(d, p)
        BY <1>5 DEF Live, Fields, WellFormed
  <2>2. p \in Held /\ pins \in [Pages -> Nat]
        BY <1>5, <2>1 DEF Held, IInv, Types
  <2>3. pins[p] > 0
        BY <2>2 DEF Live, PinsAre
  <2>4. InChain(d)' /\ Named(d, p)'
        BY <2>1, <2>3 DEF PinnedStay
  <2> QED BY <2>1, <2>4 DEF Named
<1> QED BY <1>3, <1>4, <1>5 DEF Live

LEMMA DeadStays ==
    ASSUME IInv, Dead, [Next]_vars, UNCHANGED scan, past = "deleted" => past' = "deleted",
           pc # "delete", ~ret'.failed
    PROVE  Dead'
<1>1. PinsAre({})'
      BY PinsStep DEF Dead
<1> QED BY <1>1 DEF Dead

\* DeleteFile frees the pages of a directory page and goes on to the next.
LEMMA DeleteDirPageDying ==
    ASSUME IInv, Fields, Dying, DeleteDirPage, UNCHANGED scan, ~undefined', ~ret'.failed,
           pc' # "delete" /\ scan.open => past' = "deleted"
    PROVE  ScanPins'
<1>1. /\ pc = "delete" /\ FreeDirPage(entries[dir], FirstKept, Position, Freed)
      /\ dir \in Pages
      BY DeleteDirPageIs, InvTypes DEF Undefined
<1>2. /\ Len(chain) \in Nat /\ Position \in 1 .. Len(chain) /\ chain[Position] = dir
      /\ \A i, j \in 1 .. Len(chain) : chain[i] = chain[j] => i = j
      BY <1>1, PositionFound, InvTypes DEF IInv, DirInv
<1>3. \A p \in Pages : pins[p] = 0 \/ (pins[p] = 1 /\ Behindhand(Position, p))
      BY <1>2 DEF Dying
<1>4. FirstKept = 0
  <2>1. \A i \in 1 .. Len(entries[dir]) : ~(pins[entries[dir][i].pid] > 1)
        BY <1>1, <1>3, InvTypes, EntryTypes
  <2> QED BY <2>1 DEF FirstKept, SelectInSeq
<1>5. dir \in WithDir /\ \A p \in Pages : Named(dir, p) => p \in WithDir
      BY <1>1, <1>3, <1>4 DEF WithDir, Freed, Named, PagesOf
<1>6. \A p \in Pages : pins'[p] = IF p \in WithDir THEN 0 ELSE pins[p]
      BY <1>1, <1>4, FreeDirPageIs
<1> DEFINE n == Position
<1> HIDE DEF n
<1>7. \A p \in Pages : pins'[p] = 0 \/ (pins'[p] = 1 /\ Behindhand(n + 1, p))
  <2>1. \A i \in n .. Len(chain) : i = n \/ i \in n + 1 .. Len(chain)
        BY <1>2 DEF n
  <2>2. ASSUME NEW p \in Pages, Behindhand(n, p), p \notin WithDir PROVE Behindhand(n + 1, p)
        BY <1>2, <1>5, <2>1, <2>2 DEF Behindhand, n
  <2> QED BY <1>3, <1>6, <2>2 DEF n
<1>8. CASE /\ n < Len(chain) /\ GoTo("delete", 0, chain[n + 1], INVALID_PAGE)
           /\ UNCHANGED <<chain, entries, last>>
  <2>1. n + 1 \in 1 .. Len(chain) /\ pc' = "delete" /\ dir' = chain[n + 1]
        BY <1>2, <1>8 DEF n, GoTo
  <2>2. PICK m \in 1 .. Len(chain) : m = n + 1
        BY <2>1
  <2>3. \A p \in Pages : Behindhand(m, p) => Behindhand(m, p)'
        BY <1>8 DEF Behindhand, Named
  <2>4. \A p \in Pages : pins'[p] = 0 \/ (pins'[p] = 1 /\ Behindhand(m, p)')
        BY <1>7, <2>2, <2>3
  <2>5. chain'[m] = dir' /\ m \in 1 .. Len(chain')
        BY <1>8, <2>1, <2>2
  <2> QED BY <2>1, <2>4, <2>5 DEF ScanPins, Dying
<1>9. CASE n = Len(chain) /\ chain' = << >> /\ Return("DeleteFile", "OK", "OK")
  <2>1. \A p \in Pages : ~Behindhand(n + 1, p)
        BY <1>2, <1>9 DEF Behindhand, n
  <2>2. \A p \in Pages : pins'[p] = 0
        BY <1>7, <2>1
  <2>3. pc' = "idle"
        BY <1>9 DEF Return
  <2>4. CASE scan.dirPage = "held"
    <3>1. past' = "deleted"
          BY <2>3, <2>4 DEF Fields, WellFormed
    <3> QED BY <2>2, <2>3, <2>4, <3>1 DEF ScanPins, Dead, PinsAre
  <2>5. CASE scan.dirPage # "held"
    <3>1. scan.page # "held"
          BY <2>5 DEF Fields, WellFormed
    <3> QED BY <2>2, <2>3, <2>5, <3>1 DEF ScanPins, Live, PinsAre, Held
  <2> QED BY <2>4, <2>5
<1>10. ~Return("DeleteFile", "FAIL", "OK")
       BY Answers DEF Return
<1> QED BY <1>1, <1>8, <1>9, <1>10, FreeDirPageIs DEF n

\* DeleteFile has no page named by itself left, either.
LEMMA DeleteDirPageNames == ASSUME NotItself, DeleteDirPage PROVE NotItself'
<1>1. \A d \in Pages : entries'[d] = entries[d] \/ entries'[d] = << >>
      BY DeleteDirPageIs, FreeDirPageIs DEF file
<1> QED BY <1>1, EmptySeq DEF NotItself, Named

LEMMA UndefinedStays == ASSUME [Next]_vars, ~undefined' PROVE ~undefined
<1>1. CASE UNCHANGED vars
      BY <1>1 DEF vars
<1>2. CASE Next /\ ~UNCHANGED vars
      BY <1>2 DEF Next, Create, Open, InsertRecord, NewDirPage, NewDataPage, Put,
         GetRecord, DeleteRecord, UpdateRecord, DeleteFile, DeleteDirPage,
         OtherAllocates, OtherFrees, Ready, Running
<1> QED BY <1>1, <1>2

LEMMA FileKeeps ==
    ASSUME SInv, OneHandle, [Next]_vars, UNCHANGED scan, ~undefined', ~ret'.failed,
           past = "deleted" => past' = "deleted",
           pc = "delete" /\ pc' # "delete" /\ scan.open => past' = "deleted"
    PROVE  SInv'
<1>1. IInv' /\ AgreementInv' /\ Fields' /\ Agreement
      BY NextInvariant, AgreementStep, UndefinedStays DEF SInv, Fields, AgreementInv
<1>2. CASE pc # "delete"
  <2>1. PinnedStay /\ NoneItself /\ (Live \/ Dead)
        BY <1>1, <1>2, StepGrown DEF SInv, ScanPins
  <2>2. NotItself'
        BY <2>1 DEF NoneItself, SInv, NotItself
  <2>3. ASSUME pc' = "delete" PROVE ScanPins'
        BY <1>2, <2>1, <2>3, DeleteFileBegins, DeleteFileDying DEF SInv, ScanPins
  <2>4. ASSUME pc' # "delete" PROVE ScanPins'
        BY <1>2, <2>1, <2>4, LiveStays, DeadStays DEF SInv, ScanPins
  <2> QED BY <1>1, <2>2, <2>3, <2>4 DEF SInv
<1>3. CASE pc = "delete" /\ ~DeleteDirPage
  <2>1. UNCHANGED vars
        BY <1>3 DEF Next, Create, Open, InsertRecord, NewDirPage, NewDataPage, Put, GetRecord,
           DeleteRecord, UpdateRecord, DeleteFile, OtherAllocates, OtherFrees, Ready, Running
  <2>2. UNCHANGED <<chain, entries, pins, pc, dir>>
        BY <2>1 DEF vars, file, call
  <2>3. Dying'
        BY <1>3, <2>2 DEF SInv, ScanPins, Dying, Behindhand, Named
  <2>4. NotItself'
        BY <2>2 DEF SInv, NotItself, Named
  <2> QED BY <1>1, <1>3, <2>2, <2>3, <2>4 DEF SInv, ScanPins
<1>4. CASE pc = "delete" /\ DeleteDirPage
  <2>1. NotItself'
        BY <1>4, DeleteDirPageNames DEF SInv
  <2>2. ScanPins'
        BY <1>4, DeleteDirPageDying DEF SInv, ScanPins
  <2> QED BY <1>1, <2>1, <2>2 DEF SInv
<1> QED BY <1>2, <1>3, <1>4

-----------------------------------------------------------------------------
(* The calls of the scan *)

HeldBy(s) == (IF s.dirPage = "held" THEN {s.dirPid} ELSE {})
             \cup (IF s.page = "held" THEN {s.pid} ELSE {})

\* A call leaves the file as it is.
LEMMA CallKeeps ==
    ASSUME IInv, Agreement, ScanReady, pins' \in [Pages -> Nat]
    PROVE  IInv' /\ Agreement' /\ (NotItself => NotItself')
<1>1. /\ pc = "idle" /\ pc' = "idle" /\ UNCHANGED <<owner, chain, entries, heap, last, freed>>
      /\ len' = len
      BY DEF ScanReady, file, call
<1>2. IInv'
      BY <1>1, IdleKeeps DEF IInv, Types
<1>3. Agreement'
      BY <1>1, IdleAgrees
<1>4. NotItself => NotItself'
      BY <1>1 DEF NotItself, Named
<1> QED BY <1>2, <1>3, <1>4

\* The scan has become s, and holds its pages.
Becomes(s) ==
    /\ scan' = s /\ WellFormed(s) /\ pins' = PinsOf(HeldBy(s))
    /\ s.dirPage = "held" => InChain(s.dirPid)
    /\ s.page = "held" => \E d \in Pages : InChain(d) /\ Named(d, s.pid)

LEMMA BecomesLive == ASSUME ScanReady, NEW s, Becomes(s) PROVE Fields' /\ ScanPins' /\ pins' \in [Pages -> Nat]
<1>1. pc' = "idle" /\ UNCHANGED <<chain, entries>>
      BY DEF ScanReady, file, call
<1>2. Fields' /\ pins' \in [Pages -> Nat] /\ Held' = HeldBy(s)
      BY DEF Becomes, Fields, WellFormed, PinsOf, Held, HeldBy
<1>3. PinsAre(Held)'
      BY <1>1, <1>2 DEF Becomes, PinsAre, PinsOf
<1>4. scan.dirPage' = "held" => InChain(scan.dirPid)'
      BY <1>1 DEF Becomes, InChain
<1>5. scan.page' = "held" => \E d \in Pages : InChain(d)' /\ Named(d, scan.pid)'
      BY <1>1 DEF Becomes, InChain, Named
<1> QED BY <1>1, <1>2, <1>3, <1>4, <1>5 DEF ScanPins, Live

\* As long as the pages of the scan are there, its pins are its own.
LEMMA SoundLive ==
    ASSUME SInv, Sound, pc = "idle"
    PROVE  Live /\ pins = PinsOf(HeldBy(scan))
<1>1. Live
  <2>1. CASE Dead
        BY <2>1 DEF Dead, PinsAre, Sound, SInv, Fields, WellFormed
  <2> QED BY <2>1 DEF SInv, ScanPins
<1>2. Held = HeldBy(scan)
      BY DEF Held, HeldBy
<1> QED BY <1>1, <1>2, IdlePins DEF SInv, Live

LEMMA ReleasedIs == ASSUME SInv, Sound, pc = "idle" PROVE Released = PinsOf({})
<1>1. pins = PinsOf(HeldBy(scan)) /\ WellFormed(scan)
      BY SoundLive DEF SInv, Fields
<1>2. CASE scan.dirPage # "held"
      BY <1>1, <1>2 DEF Released, WellFormed, HeldBy
<1>3. CASE scan.dirPage = "held" /\ scan.page # "held"
  <2>1. HeldBy(scan) = {scan.dirPid} /\ scan.dirPid \in Pages
        BY <1>1, <1>3 DEF HeldBy, WellFormed
  <2>2. {scan.dirPid} \ {scan.dirPid} = {}
        OBVIOUS
  <2> QED BY <1>1, <1>3, <2>1, <2>2, PinsOfSets DEF Released
<1>4. CASE scan.dirPage = "held" /\ scan.page = "held"
  <2> DEFINE d == scan.dirPid
             p == scan.pid
  <2>1. HeldBy(scan) = {d, p} /\ d \in Pages /\ p \in Pages /\ d # p
        BY <1>1, <1>4 DEF HeldBy, WellFormed
  <2>2. {d, p} \ {p} = {d} /\ {d} \ {d} = {}
        BY <2>1
  <2>3. /\ Without(PinsOf({d, p}), p) = PinsOf({d, p} \ {p})
        /\ Without(PinsOf({d}), d) = PinsOf({d} \ {d})
        BY <2>1, PinsOfSets
  <2> QED BY <1>1, <1>4, <2>1, <2>2, <2>3 DEF Released
<1> QED BY <1>2, <1>3, <1>4

LEMMA BecomesKeeps == ASSUME SInv, Agreement, ScanReady, NEW s, Becomes(s) PROVE SInv'
BY CallKeeps, BecomesLive DEF SInv, AgreementInv

\* A call that moves nothing but the slot.
LEMMA UnmovedKeeps ==
    ASSUME SInv, Agreement, ScanReady, UNCHANGED pins, past = "deleted" => past' = "deleted",
           NEW n \in Nat, scan' = [scan EXCEPT !.slot = n]
    PROVE  SInv'
<1>1. /\ pins \in [Pages -> Nat] /\ pc = "idle" /\ pc' = "idle"
      /\ UNCHANGED <<chain, entries, dir>>
      BY DEF SInv, IInv, Types, ScanReady, file, call
<1>2. /\ scan \in Scans /\ scan' \in Scans
      /\ scan'.dirPage = scan.dirPage /\ scan'.dirPid = scan.dirPid
      /\ scan'.page = scan.page /\ scan'.pid = scan.pid
      /\ scan'.open = scan.open /\ scan'.noMore = scan.noMore
      BY DEF SInv, Fields, WellFormed, Scans
<1>3. Fields'
      BY <1>2 DEF SInv, Fields, WellFormed
<1>4. ScanPins'
  <2>1. Held' = Held
        BY <1>2 DEF Held
  <2>2. ASSUME Live PROVE Live'
    <3>1. PinsAre(Held)'
          BY <1>1, <2>1, <2>2 DEF Live, PinsAre
    <3>2. scan'.dirPage = "held" => InChain(scan.dirPid)'
          BY <1>1, <1>2, <2>2 DEF Live, InChain
    <3>3. scan'.page = "held" => \E d \in Pages : InChain(d)' /\ Named(d, scan.pid)'
          BY <1>1, <1>2, <2>2 DEF Live, InChain, Named
    <3> QED BY <3>1, <3>2, <3>3 DEF Live
  <2>3. ASSUME Dead PROVE Dead'
        BY <1>1, <1>2, <2>3 DEF Dead, PinsAre
  <2> QED BY <1>1, <2>2, <2>3 DEF SInv, ScanPins
<1> QED BY <1>1, <1>3, <1>4, CallKeeps DEF SInv, AgreementInv

\* The pins of one page, of two, of none.
LEMMA OnePage ==
    ASSUME NEW d \in Pages, NEW p \in Pages, d # p
    PROVE  /\ With(PinsOf({}), d) = PinsOf({d}) /\ With(PinsOf({d}), p) = PinsOf({d, p})
           /\ Without(PinsOf({d, p}), p) = PinsOf({d}) /\ Without(PinsOf({d}), d) = PinsOf({})
<1>1. /\ With(PinsOf({}), d) = PinsOf({} \cup {d}) /\ With(PinsOf({d}), p) = PinsOf({d} \cup {p})
      BY PinsOfSets
<1>2. /\ Without(PinsOf({d, p}), p) = PinsOf({d, p} \ {p})
      /\ Without(PinsOf({d}), d) = PinsOf({d} \ {d})
      BY PinsOfSets
<1>3. /\ {} \cup {d} = {d} /\ {d} \cup {p} = {d, p} /\ {d, p} \ {p} = {d} /\ {d} \ {d} = {}
      OBVIOUS
<1> QED BY <1>1, <1>2, <1>3

LEMMA OpenScanKeeps ==
    ASSUME SInv, Agreement, OpenScan, ~undefined', ~ret'.failed PROVE SInv'
<1> DEFINE d == chain[1]
           p == InfoPid(d, 0)
           s == [NoScan EXCEPT !.open = TRUE, !.dirPid = d, !.dirPage = "held", !.entry = 1]
<1>1. ScanReady /\ pc = "idle" /\ chain # << >> /\ ~scan.open
      BY DEF OpenScan, ScanReady
<1>2. d \in Pages /\ InChain(d)
      BY <1>1, InvTypes DEF SInv, InChain
<1>3. pins = PinsOf({})
  <2>1. scan.dirPage # "held" /\ scan.page # "held"
        BY <1>1 DEF SInv, Fields, WellFormed
  <2>2. Live /\ Held = {}
        BY <1>1, <2>1 DEF SInv, ScanPins, Dead, Held
  <2> QED BY <1>1, <2>2, IdlePins DEF SInv, Live
<1>4. CASE Result("OpenScan", "DONE", NoScan, pins)
  <2>1. WellFormed(NoScan) /\ HeldBy(NoScan) = {} /\ NoScan.dirPage = "null" /\ NoScan.page = "null"
        BY DEF NoScan, WellFormed, HeldBy, Scans
  <2>2. Becomes(NoScan)
        BY <1>3, <1>4, <2>1 DEF Result, Becomes
  <2> QED BY <1>1, <2>2, BecomesKeeps
<1>5. CASE Result("OpenScan", "OK", [s EXCEPT !.page = "wild", !.noMore = TRUE], With(pins, d))
  <2> DEFINE t == [s EXCEPT !.page = "wild", !.noMore = TRUE]
  <2>1. /\ WellFormed(t) /\ HeldBy(t) = {d} /\ t.page # "held" /\ t.dirPid = d
        BY <1>2 DEF NoScan, WellFormed, HeldBy, Scans
  <2>2. With(pins, d) = PinsOf({d})
        BY <1>2, <1>3, PinsOfSets
  <2>3. Becomes(t)
        BY <1>2, <1>5, <2>1, <2>2 DEF Result, Becomes
  <2> HIDE DEF t
  <2> QED BY <1>1, <2>3, BecomesKeeps
<1>6. CASE /\ HasInfo(d, 0) /\ heap[p].slots # {}
           /\ Result("OpenScan", "OK", [s EXCEPT !.pid = p, !.page = "held",
                        !.slot = Min(heap[p].slots)], With(With(pins, d), p))
  <2> DEFINE t == [s EXCEPT !.pid = p, !.page = "held", !.slot = Min(heap[p].slots)]
  <2>1. p \in Pages /\ p # d /\ Named(d, p)
        BY <1>2, <1>6, InfoTypes DEF SInv
  <2>2. Min(heap[p].slots) \in Nat
        BY <1>6, <2>1, SlotTypes DEF SInv
  <2>3. With(With(pins, d), p) = PinsOf({d, p})
        BY <1>2, <1>3, <2>1, OnePage
  <2> HIDE DEF d, p
  <2>4. /\ WellFormed(t) /\ HeldBy(t) = {d, p} /\ t.dirPid = d /\ t.pid = p
        BY <1>2, <2>1, <2>2 DEF NoScan, WellFormed, HeldBy, Scans
  <2>5. Becomes(t)
        BY <1>2, <1>6, <2>1, <2>3, <2>4 DEF Result, Becomes
  <2> HIDE DEF t
  <2> QED BY <1>1, <2>5, BecomesKeeps
<1> QED BY <1>4, <1>5, <1>6 DEF OpenScan

LEMMA CloseScanKeeps ==
    ASSUME SInv, Agreement, CloseScan, ~undefined', ~ret'.failed PROVE SInv'
<1>1. ScanReady /\ pc = "idle" /\ Sound /\ scan' = NoScan /\ pins' = Released
      BY DEF CloseScan, ScanReady
<1>2. WellFormed(NoScan) /\ HeldBy(NoScan) = {} /\ NoScan.dirPage = "null" /\ NoScan.page = "null"
      BY DEF NoScan, WellFormed, HeldBy, Scans
<1>3. Becomes(NoScan)
      BY <1>1, <1>2, ReleasedIs DEF Becomes
<1> QED BY <1>1, <1>3, BecomesKeeps

\* The first page of an entry is entered from a scan that holds the entry's
\* directory page.
LEMMA EnterPageBecomes ==
    ASSUME IInv, NotItself, NEW s \in Scans, NEW d \in Pages, InChain(d),
           s.dirPid = d, s.dirPage = "held", s.open, ~s.noMore,
           NEW i \in Nat, s.entry - 1 = i, HasInfo(d, i), EnterPage(s, PinsOf({d})),
           ~undefined', ~ret'.failed
    PROVE  \E t : Becomes(t)
<1> DEFINE p == InfoPid(d, i)
           t == [s EXCEPT !.pid = p, !.page = "held", !.slot = Min(heap[p].slots)]
<1>1. p \in Pages /\ p # d /\ Named(d, p)
      BY InfoTypes
<1>2. With(PinsOf({d}), p) = PinsOf({d, p})
      BY <1>1, OnePage
<1>3. heap[p].slots # {} /\ scan' = t /\ pins' = With(PinsOf({d}), p)
  <2>1. \A u, ps : ~Fail(u, ps)
        BY Answers DEF Fail, Result
  <2> QED BY <2>1 DEF EnterPage, Wild, Result
<1>4. Min(heap[p].slots) \in Nat
      BY <1>1, <1>3, SlotTypes
<1> HIDE DEF p
<1>5. WellFormed(t) /\ HeldBy(t) = {d, p} /\ t.dirPid = d /\ t.pid = p
      BY <1>1, <1>4 DEF WellFormed, HeldBy, Scans
<1> QED BY <1>1, <1>2, <1>3, <1>5 DEF Becomes

LEMMA LeavePageBecomes ==
    ASSUME SInv, Sound, pc = "idle", scan.page = "held", ~scan.noMore, LeavePage,
           ~undefined', ~ret'.failed
    PROVE  \E t : Becomes(t)
<1> DEFINE d == scan.dirPid
           p == scan.pid
           s == [scan EXCEPT !.page = "null", !.entry = scan.entry + 1]
<1>1. /\ scan \in Scans /\ scan.dirPage = "held" /\ scan.open /\ scan.entry \in Nat
      /\ d \in Pages /\ p \in Pages /\ p # d
      BY DEF SInv, Fields, WellFormed, Scans
<1>2. InChain(d) /\ pins = PinsOf({d, p}) /\ IInv /\ NotItself
      BY <1>1, SoundLive DEF SInv, Live, HeldBy
<1>3. Without(pins, p) = PinsOf({d}) /\ Without(PinsOf({d}), d) = PinsOf({})
      BY <1>1, <1>2, OnePage
<1>4. /\ s \in Scans /\ s.dirPid = d /\ s.dirPage = "held" /\ s.open /\ ~s.noMore
      /\ s.entry - 1 = scan.entry /\ s.page = "null"
  <2>1. scan.entry + 1 \in Nat /\ (scan.entry + 1) - 1 = scan.entry
        BY <1>1
  <2>2. s.entry = scan.entry + 1
        BY <1>1 DEF Scans
  <2>3. s \in Scans
        BY <1>1, <2>1 DEF Scans
  <2> QED BY <1>1, <2>1, <2>2, <2>3 DEF Scans
<1>5. \/ HasInfo(d, scan.entry) /\ EnterPage(s, PinsOf({d}))
      \/ EnterDirPage([s EXCEPT !.dirPage = "null"], PinsOf({}))
      BY <1>3 DEF LeavePage, EntryPast
<1> HIDE DEF d, s
<1>6. CASE HasInfo(d, scan.entry) /\ EnterPage(s, PinsOf({d}))
      BY <1>1, <1>2, <1>4, <1>6, EnterPageBecomes
<1>7. CASE EnterDirPage([s EXCEPT !.dirPage = "null"], PinsOf({}))
  <2> DEFINE u == [s EXCEPT !.dirPage = "null"]
             n == NextOf(d)
             v == [u EXCEPT !.dirPid = n, !.dirPage = "held", !.entry = 1]
  <2>1. /\ u \in Scans /\ u.dirPage = "null" /\ u.page = "null" /\ u.open /\ ~u.noMore
        BY <1>4 DEF Scans
  <2>2. \A w, ps : ~Fail(w, ps)
        BY Answers DEF Fail, Result
  <2> HIDE DEF u
  <2>3. \/ scan' = [u EXCEPT !.noMore = TRUE] /\ pins' = PinsOf({})
        \/ n # INVALID_PAGE /\ HasInfo(n, 0) /\ EnterPage(v, With(PinsOf({}), n))
        BY <1>7, <2>2 DEF EnterDirPage, Wild, Result, u, d
  <2> HIDE DEF n
  <2>4. CASE scan' = [u EXCEPT !.noMore = TRUE] /\ pins' = PinsOf({})
    <3> DEFINE t == [u EXCEPT !.noMore = TRUE]
    <3>1. WellFormed(t) /\ HeldBy(t) = {} /\ t.dirPage = "null" /\ t.page = "null"
          BY <2>1 DEF WellFormed, Scans, HeldBy
    <3> QED BY <2>4, <3>1 DEF Becomes
  <2>5. CASE n # INVALID_PAGE /\ HasInfo(n, 0) /\ EnterPage(v, With(PinsOf({}), n))
    <3>1. n \in Pages /\ InChain(n)
          BY <1>2, <2>5, NextTypes DEF n
    <3>2. With(PinsOf({}), n) = PinsOf({} \cup {n}) /\ {} \cup {n} = {n}
          BY <3>1, PinsOfSets
    <3>3. /\ v \in Scans /\ v.dirPid = n /\ v.dirPage = "held" /\ v.open /\ ~v.noMore
          /\ v.entry - 1 = 0
      <4>1. v.entry = 1 /\ 1 \in Nat
            BY <2>1 DEF Scans
      <4>2. v \in Scans
            BY <2>1, <3>1, <4>1 DEF Scans
      <4> QED BY <2>1, <4>1, <4>2 DEF Scans
    <3> HIDE DEF v
    <3> QED BY <1>2, <2>5, <3>1, <3>2, <3>3, EnterPageBecomes
  <2> QED BY <2>3, <2>4, <2>5
<1> QED BY <1>5, <1>6, <1>7

LEMMA GetNextKeeps ==
    ASSUME SInv, Agreement, GetNext, ~undefined', ~ret'.failed PROVE SInv'
<1>1. /\ ScanReady /\ pc = "idle" /\ past' = past /\ scan \in Scans
      /\ \A u, ps : ~Fail(u, ps)
      BY Answers DEF GetNext, ScanReady, SInv, Fields, WellFormed, Fail, Result
<1>2. CASE Result("GetNext", "DONE", scan, pins)
  <2>1. scan.slot \in Nat /\ scan' = [scan EXCEPT !.slot = scan.slot] /\ pins' = pins
        BY <1>1, <1>2 DEF Result, Scans
  <2> QED BY <1>1, <2>1, UnmovedKeeps
<1>3. CASE /\ ~scan.noMore /\ scan.page = "held" /\ Sound
           /\ scan.slot \in heap[scan.pid].slots
  <2> DEFINE more == Behind(scan.pid, scan.slot)
  <2>1. CASE LeavePage
        BY <1>1, <1>3, <2>1, LeavePageBecomes, BecomesKeeps
  <2>2. CASE more # {} /\ Result("GetNext", "OK", [scan EXCEPT !.slot = Min(more)], pins)
    <3>1. scan.pid \in Pages /\ more \in SUBSET heap[scan.pid].slots
          BY <1>3 DEF SInv, Fields, WellFormed, Behind
    <3>2. Min(more) \in Nat
          BY <2>2, <3>1, SlotTypes DEF SInv
    <3>3. scan' = [scan EXCEPT !.slot = Min(more)] /\ pins' = pins
          BY <2>2 DEF Result
    <3> HIDE DEF more
    <3> QED BY <1>1, <3>2, <3>3, UnmovedKeeps
  <2>3. \/ LeavePage
        \/ more # {} /\ Result("GetNext", "OK", [scan EXCEPT !.slot = Min(more)], pins)
        BY <1>1, <1>3 DEF GetNext, Wild
  <2> QED BY <2>1, <2>2, <2>3
<1> QED BY <1>1, <1>2, <1>3 DEF GetNext, Wild

LEMMA MoveToKeeps ==
    ASSUME SInv, Agreement, NEW p \in Pages, NEW n \in 0 .. 2, MoveTo(p, n),
           ~undefined', ~ret'.failed
    PROVE  SInv'
<1> DEFINE s == [scan EXCEPT !.slot = n]
<1>1. /\ ScanReady /\ pc = "idle" /\ scan.open /\ scan \in Scans /\ n \in Nat
      /\ past = "deleted" => past' = "deleted"
      /\ \A c, u, ps : ~Result(c, "FAIL", u, ps)
      BY Answers DEF MoveTo, ScanReady, SInv, Fields, WellFormed, Result
<1>2. \/ Result("MoveTo", "OK", s, pins)
      \/ Sound /\ Found(p, s, Released)
      BY <1>1 DEF MoveTo
<1>3. CASE Result("MoveTo", "OK", s, pins)
  <2>1. scan' = [scan EXCEPT !.slot = n] /\ pins' = pins
        BY <1>3 DEF Result
  <2> QED BY <1>1, <2>1, UnmovedKeeps
<1>4. CASE Sound /\ Found(p, s, Released)
  <2> DEFINE d == chain[DirOf(p)]
             r == [s EXCEPT !.pid = p, !.page = "null"]
             t == [r EXCEPT !.dirPid = d, !.dirPage = "held", !.page = "held",
                            !.entry = FoundAt(d, p), !.noMore = FALSE]
  <2>1. Released = PinsOf({})
        BY <1>1, <1>4, ReleasedIs
  <2>2. DirOf(p) # 0 /\ scan' = t /\ pins' = With(With(PinsOf({}), d), p)
        BY <1>1, <1>4, <2>1 DEF Found, Result
  <2>3. d \in Pages /\ InChain(d) /\ Named(d, p) /\ FoundAt(d, p) \in Nat
        BY <2>2, FoundNamed DEF SInv, FoundAt
  <2> HIDE DEF d
  <2>4. p # d
        BY <2>3 DEF SInv, NotItself
  <2>5. pins' = PinsOf({d, p})
        BY <2>2, <2>3, <2>4, OnePage
  <2>6. WellFormed(t) /\ HeldBy(t) = {d, p} /\ t.dirPid = d /\ t.pid = p
        BY <1>1, <2>3, <2>4 DEF WellFormed, Scans, HeldBy
  <2> HIDE DEF t
  <2>7. Becomes(t)
        BY <2>2, <2>3, <2>5, <2>6 DEF Becomes
  <2> QED BY <1>1, <2>7, BecomesKeeps
<1> QED BY <1>2, <1>3, <1>4

-----------------------------------------------------------------------------
(* The property *)

\* Neither the step of the file nor a call of the scan undoes a failure.
LEMMA ScanStepsOn ==
    ASSUME [ScanNext]_allVars, ~undefined', ~ret'.failed PROVE ~undefined /\ ~ret.failed
<1>1. CASE [Next]_vars
      BY <1>1, UndefinedStays, FailedStays
<1>2. CASE ScanReady /\ (UNCHANGED ret \/ \E c, st, s, ps : Result(c, st, s, ps))
      BY <1>2, Answers DEF ScanReady, Result
<1>3. OpenScan \/ CloseScan \/ GetNext \/ (\E p \in Pages, n \in 0 .. 2 : MoveTo(p, n))
         => ScanReady
      BY DEF OpenScan, CloseScan, GetNext, MoveTo
<1>4. \A p \in Pages, n \in 0 .. 2 : MoveTo(p, n) => \E c, st, s, ps : Result(c, st, s, ps)
      BY DEF MoveTo, Found
<1>5. \A s, ps : EnterPage(s, ps) => \E c, st, u, qs : Result(c, st, u, qs)
      BY DEF EnterPage, Fail, Wild
<1>6. \A s, ps : EnterDirPage(s, ps) => \E c, st, u, qs : Result(c, st, u, qs)
      BY <1>5 DEF EnterDirPage, Fail, Wild
<1>7. GetNext => \E c, st, s, ps : Result(c, st, s, ps)
      BY <1>5, <1>6 DEF GetNext, LeavePage, Fail, Wild
<1>8. OpenScan => \E c, st, s, ps : Result(c, st, s, ps)
      BY DEF OpenScan
<1>9. CloseScan => UNCHANGED ret
      BY DEF CloseScan
<1>10. HeapStep => [Next]_vars
       BY DEF HeapStep
<1>11. UNCHANGED allVars => [Next]_vars
       BY DEF allVars
<1> QED BY <1>1, <1>2, <1>3, <1>4, <1>7, <1>8, <1>9, <1>10, <1>11 DEF ScanNext

LEMMA ScanInvStep == ASSUME ScanInv, OneHandle, [ScanNext]_allVars PROVE ScanInv'
<1> SUFFICES ASSUME ~undefined', ~ret'.failed PROVE SInv'
    BY DEF ScanInv
<1>1. SInv /\ Agreement
      BY ScanStepsOn DEF ScanInv, SInv, AgreementInv
<1>2. CASE HeapStep
  <2>1. /\ [Next]_vars /\ UNCHANGED scan /\ (past = "deleted" => past' = "deleted")
        /\ (pc = "delete" /\ pc' # "delete" /\ scan.open => past' = "deleted")
        BY <1>2 DEF HeapStep
  <2> QED BY <1>1, <2>1, FileKeeps
<1>3. CASE UNCHANGED allVars
  <2>1. [Next]_vars /\ UNCHANGED <<scan, past, pc>>
        BY <1>3 DEF allVars, vars, scanVars, call
  <2> QED BY <1>1, <2>1, FileKeeps
<1>4. CASE OpenScan \/ GetNext \/ CloseScan \/ \E p \in Pages, n \in 0 .. 2 : MoveTo(p, n)
      BY <1>1, <1>4, OpenScanKeeps, GetNextKeeps, CloseScanKeeps, MoveToKeeps
<1> QED BY <1>2, <1>3, <1>4 DEF ScanNext

\* As long as no call has failed, what is pinned between calls are the pages
\* of the scan, each once, and none when it is through: whatever is inserted
\* and deleted meanwhile, unless DeleteFile takes the pages from under it.
THEOREM ScanPinsReturned == OneHandle /\ ScanSpec => []PinsAreTheScans
<1>1. ASSUME ScanInit PROVE ScanInv
  <2>1. /\ Init /\ scan = NoScan /\ pc = "idle" /\ \A p \in Pages : pins[p] = 0
        /\ entries = [p \in Pages |-> << >>]
        BY <1>1 DEF ScanInit, Init
  <2>2. IInv /\ AgreementInv
        BY <2>1, InitInvariant, InitAgrees
  <2>3. NotItself
        BY <2>1, EmptySeq DEF NotItself, Named
  <2>4. Fields
        BY <2>1 DEF Fields, WellFormed, NoScan, Scans
  <2>5. Live
        BY <2>1 DEF Live, PinsAre, Held, NoScan
  <2> QED BY <2>1, <2>2, <2>3, <2>4, <2>5 DEF ScanInv, SInv, ScanPins
<1>2. OneHandle /\ ScanInv /\ [ScanNext]_allVars => ScanInv'
      BY ScanInvStep
<1>3. OneHandle /\ [ScanNext]_allVars => OneHandle'
      BY DEF OneHandle
<1>4. ASSUME ScanInv PROVE PinsAreTheScans
  <2> SUFFICES ASSUME pc = "idle", ~undefined, ~ret.failed, past # "deleted"
               PROVE  /\ pins = [p \in Pages |-> IF p \in Held THEN 1 ELSE 0]
                      /\ scan.noMore /\ scan.page # "wild" => Held = {}
      BY DEF PinsAreTheScans
  <2>1. SInv /\ Live
        BY <1>4 DEF ScanInv, SInv, ScanPins, Dead
  <2>2. pins = PinsOf(Held)
        BY <2>1, IdlePins DEF SInv, Live
  <2>3. scan.noMore /\ scan.page # "wild" => Held = {}
        BY <2>1 DEF SInv, Fields, WellFormed, Held
  <2> QED BY <2>2, <2>3 DEF PinsOf
<1> QED BY <1>1, <1>2, <1>3, <1>4, PTL DEF ScanSpec

-----------------------------------------------------------------------------
(* The cursor *)

\* Entry i of directory page d is that of page p.
Stands(d, i, p) == IsEntry(d, i) /\ entries[d][i].pid = p

\* The fields of a scan, also after failures.
Shape(s) ==
    /\ s \in Scans
    /\ s.dirPage = "held" => s.dirPid \in Pages /\ s.open
    /\ s.page = "held" => s.dirPage = "held" /\ s.pid \in Pages

\* A data page has been freed under the scan.
Lost   == past \notin {"steady", "moved"}
Cursor == scan.page = "held" => Stands(scan.dirPid, scan.entry, scan.pid)

CInv      == IInv /\ Agreement /\ Shape(scan) /\ (Lost \/ Cursor)
CursorInv == undefined \/ CInv

\* A step that is not the scan's, as the scan finds it afterwards.
Elsewhere ==
    /\ [Next]_vars /\ UNCHANGED <<scan, atOpen, seen>> /\ (Lost => Lost')
    /\ scan.open /\ ~Lost' =>
          UNCHANGED past /\ (UNCHANGED vars \/ (pc # "delete" /\ ~FreesData))

LEMMA StepElsewhere ==
    ASSUME HeapStep \/ UNCHANGED allVars PROVE Elsewhere
<1>1. CASE UNCHANGED allVars
      BY <1>1 DEF allVars, scanVars, Elsewhere, Lost
<1>2. CASE HeapStep
      BY <1>2 DEF HeapStep, Elsewhere, Lost
<1> QED BY <1>1, <1>2

LEMMA FileCursor == ASSUME CInv, OneHandle, Elsewhere, ~undefined' PROVE CInv'
<1>1. IInv' /\ Agreement' /\ Shape(scan)'
      BY NextInvariant, AgreementStep DEF CInv, AgreementInv, Shape, Elsewhere
<1>2. ASSUME ~Lost', scan.page = "held" PROVE Cursor'
  <2>1. PICK d \in Pages, i \in Nat, p \in Pages :
           d = scan.dirPid /\ i = scan.entry /\ p = scan.pid
        BY <1>2 DEF CInv, Shape, Scans
  <2>2. scan.open /\ ~Lost /\ UNCHANGED scan
        BY <1>2 DEF CInv, Shape, Elsewhere
  <2>3. CASE pc # "delete" /\ ~FreesData
    <3>1. Grown
          BY <2>3, StepGrown DEF CInv, Elsewhere
    <3>2. Stands(d, i, p)
          BY <1>2, <2>1, <2>2 DEF CInv, Cursor
    <3>3. Stands(d, i, p)'
          BY <3>1, <3>2 DEF Grown, Stands, IsEntry
    <3> QED BY <2>1, <2>2, <3>3 DEF Cursor, Stands, IsEntry, InChain
  <2>4. CASE UNCHANGED vars
    <3>1. UNCHANGED <<chain, entries>>
          BY <2>4 DEF vars, file
    <3> QED BY <1>2, <2>2, <3>1 DEF CInv, Cursor, Stands, IsEntry, InChain
  <2> QED BY <1>2, <2>2, <2>3, <2>4 DEF Elsewhere
<1>3. scan.page # "held" => Cursor'
      BY DEF Cursor, Elsewhere
<1> QED BY <1>1, <1>2, <1>3 DEF CInv

\* The scan has become s, wherever its pins are.
Comes(s) ==
    /\ scan' = s /\ Shape(s) /\ pins' \in [Pages -> Nat]
    /\ s.page = "held" => Lost' \/ Stands(s.dirPid, s.entry, s.pid)

LEMMA ComesKeeps == ASSUME CInv, ScanReady, NEW s, Comes(s) PROVE CInv'
<1>1. UNCHANGED <<chain, entries>>
      BY DEF ScanReady, file
<1>2. IInv' /\ Agreement'
      BY CallKeeps DEF CInv, Comes
<1>3. Shape(scan)'
      BY DEF Comes, Shape
<1>4. Lost' \/ Cursor'
      BY <1>1 DEF Comes, Cursor, Stands, IsEntry, InChain
<1> QED BY <1>2, <1>3, <1>4 DEF CInv

\* A call that moves nothing but the slot.
LEMMA SlotComes ==
    ASSUME CInv, ScanReady, UNCHANGED pins, Lost => Lost',
           NEW n \in Nat, scan' = [scan EXCEPT !.slot = n]
    PROVE  CInv'
<1> DEFINE s == [scan EXCEPT !.slot = n]
<1>1. /\ s \in Scans /\ s.dirPage = scan.dirPage /\ s.dirPid = scan.dirPid /\ s.page = scan.page
      /\ s.pid = scan.pid /\ s.open = scan.open /\ s.entry = scan.entry
      BY DEF CInv, Shape, Scans
<1>2. pins' \in [Pages -> Nat]
      BY DEF CInv, IInv, Types
<1> HIDE DEF s
<1>3. Comes(s)
      BY <1>1, <1>2 DEF Comes, CInv, Shape, Cursor, s
<1> QED BY <1>3, ComesKeeps

LEMMA PinTypes ==
    ASSUME NEW f \in [Pages -> Nat], NEW p \in Pages
    PROVE  /\ With(f, p) \in [Pages -> Nat]
           /\ f[p] > 0 => Without(f, p) \in [Pages -> Nat]
           /\ \A q \in Pages : q # p => Without(f, p)[q] = f[q]
<1>1. f[p] + 1 \in Nat /\ (f[p] > 0 => f[p] - 1 \in Nat)
      OBVIOUS
<1> QED BY <1>1, PinChanges

LEMMA InfoStands ==
    ASSUME IInv, NEW d \in Pages, NEW i \in Nat, HasInfo(d, i)
    PROVE  /\ InfoPid(d, i) \in Pages
           /\ InChain(d) => Stands(d, i + 1, InfoPid(d, i))
<1>1. Len(entries[d]) \in Nat /\ \A j \in 1 .. Len(entries[d]) : entries[d][j].pid \in Pages
      BY EntryTypes DEF IInv
<1>2. i + 1 \in 1 .. Len(entries[d])
      BY <1>1 DEF HasInfo
<1> QED BY <1>1, <1>2 DEF InfoPid, Stands, IsEntry

LEMMA OpenScanComes == ASSUME CInv, OpenScan, ~undefined' PROVE CInv'
<1> DEFINE d == chain[1]
           p == InfoPid(d, 0)
           s == [NoScan EXCEPT !.open = TRUE, !.dirPid = d, !.dirPage = "held", !.entry = 1]
<1>1. ScanReady /\ chain # << >> /\ IInv /\ pins \in [Pages -> Nat]
      BY DEF OpenScan, ScanReady, CInv, IInv, Types
<1>2. d \in Pages /\ InChain(d)
      BY <1>1, InvTypes DEF InChain
<1>3. CASE scan' = NoScan /\ pins' = pins
  <2>1. Shape(NoScan) /\ NoScan.page = "null"
        BY DEF NoScan, Shape, Scans
  <2>2. Comes(NoScan)
        BY <1>1, <1>3, <2>1 DEF Comes
  <2> QED BY <1>1, <2>2, ComesKeeps
<1>4. CASE scan' = [s EXCEPT !.page = "wild", !.noMore = TRUE] /\ pins' = With(pins, d)
  <2> DEFINE t == [s EXCEPT !.page = "wild", !.noMore = TRUE]
  <2>1. Shape(t) /\ t.page = "wild"
        BY <1>2 DEF NoScan, Shape, Scans
  <2>2. Comes(t)
        BY <1>1, <1>2, <1>4, <2>1, PinTypes DEF Comes
  <2> HIDE DEF t
  <2> QED BY <1>1, <2>2, ComesKeeps
<1>5. CASE /\ HasInfo(d, 0) /\ heap[p].slots # {} /\ pins' = With(With(pins, d), p)
           /\ scan' = [s EXCEPT !.pid = p, !.page = "held", !.slot = Min(heap[p].slots)]
  <2> DEFINE t == [s EXCEPT !.pid = p, !.page = "held", !.slot = Min(heap[p].slots)]
  <2>1. p \in Pages /\ Stands(d, 1, p)
        BY <1>1, <1>2, <1>5, InfoStands
  <2>2. Min(heap[p].slots) \in Nat
        BY <1>1, <1>5, <2>1, SlotTypes
  <2>3. With(With(pins, d), p) \in [Pages -> Nat]
        BY <1>1, <1>2, <2>1, PinTypes
  <2> HIDE DEF d, p
  <2>4. Shape(t) /\ t.dirPid = d /\ t.pid = p /\ t.entry = 1
        BY <1>2, <2>1, <2>2 DEF NoScan, Shape, Scans
  <2>5. Comes(t)
        BY <1>5, <2>1, <2>3, <2>4 DEF Comes
  <2> HIDE DEF t
  <2> QED BY <1>1, <2>5, ComesKeeps
<1> QED BY <1>3, <1>4, <1>5 DEF OpenScan, Result

\* The pins that a scan gives up are there, one for each page.
LEMMA ReleasedTypes ==
    ASSUME CInv, Sound
    PROVE  /\ Released \in [Pages -> Nat]
           /\ scan.page = "held" => Without(pins, scan.pid) \in [Pages -> Nat]
           /\ scan.page = "held" =>
                 Without(Without(pins, scan.pid), scan.dirPid) \in [Pages -> Nat]
<1>1. /\ pins \in [Pages -> Nat]
      /\ scan.dirPage = "held" => scan.dirPid \in Pages /\ pins[scan.dirPid] > 0
      /\ scan.page = "held" => /\ scan.dirPage = "held" /\ scan.pid \in Pages
                               /\ pins[scan.pid] > 0 /\ scan.pid # scan.dirPid
      BY DEF CInv, Shape, IInv, Types, Sound
<1>2. CASE scan.page # "held"
      BY <1>1, <1>2, PinTypes DEF Released
<1>3. CASE scan.page = "held"
  <2> DEFINE ps == Without(pins, scan.pid)
  <2>1. ps \in [Pages -> Nat] /\ ps[scan.dirPid] > 0
        BY <1>1, <1>3, PinTypes
  <2> HIDE DEF ps
  <2>2. Without(ps, scan.dirPid) \in [Pages -> Nat]
        BY <1>1, <1>3, <2>1, PinTypes
  <2> QED BY <1>1, <1>3, <2>1, <2>2 DEF Released, ps
<1> QED BY <1>2, <1>3

LEMMA CloseScanComes == ASSUME CInv, CloseScan, ~undefined' PROVE CInv'
<1>1. ScanReady /\ Sound /\ scan' = NoScan /\ pins' = Released
      BY DEF CloseScan
<1>2. Shape(NoScan) /\ NoScan.page = "null"
      BY DEF NoScan, Shape, Scans
<1>3. Comes(NoScan)
      BY <1>1, <1>2, ReleasedTypes DEF Comes
<1> QED BY <1>1, <1>3, ComesKeeps

LEMMA EnterPageComes ==
    ASSUME IInv, NEW s \in Scans, NEW ps \in [Pages -> Nat], NEW d \in Pages,
           s.dirPid = d, s.dirPage = "held", s.page = "null", s.open,
           NEW i \in Nat, s.entry = i + 1, s.entry - 1 = i, HasInfo(d, i), EnterPage(s, ps),
           InChain(d) \/ Lost', ~undefined'
    PROVE  \E t : Comes(t)
<1> DEFINE p == InfoPid(d, i)
           t == [s EXCEPT !.pid = p]
           u == [s EXCEPT !.pid = p, !.page = "held"]
           v == [s EXCEPT !.pid = p, !.page = "held", !.slot = Min(heap[p].slots)]
<1>1. p \in Pages /\ (InChain(d) => Stands(d, i + 1, p))
      BY InfoStands
<1>2. With(ps, p) \in [Pages -> Nat]
      BY <1>1, PinTypes
<1>3. \/ scan' = t /\ pins' = ps
      \/ scan' = u /\ pins' = With(ps, p)
      \/ scan' = v /\ pins' = With(ps, p) /\ heap[p].slots # {}
      BY DEF EnterPage, Wild, Result, Fail
<1>4. heap[p].slots # {} => Min(heap[p].slots) \in Nat
      BY <1>1, SlotTypes
<1> HIDE DEF p
<1>5. Shape(t) /\ t.page = "null"
      BY <1>1 DEF Shape, Scans
<1>6. Shape(u) /\ u.dirPid = d /\ u.pid = p /\ u.entry = i + 1
      BY <1>1 DEF Shape, Scans
<1>7. heap[p].slots # {} => Shape(v) /\ v.dirPid = d /\ v.pid = p /\ v.entry = i + 1
      BY <1>1, <1>4 DEF Shape, Scans
<1> HIDE DEF t, u, v
<1>8. CASE scan' = t /\ pins' = ps
      BY <1>5, <1>8 DEF Comes
<1>9. CASE scan' = u /\ pins' = With(ps, p)
      BY <1>1, <1>2, <1>6, <1>9 DEF Comes
<1>10. CASE scan' = v /\ pins' = With(ps, p) /\ heap[p].slots # {}
       BY <1>1, <1>2, <1>7, <1>10 DEF Comes
<1> QED BY <1>3, <1>8, <1>9, <1>10

LEMMA LeavePageComes ==
    ASSUME CInv, Sound, scan.page = "held", LeavePage, past' = past, ~undefined'
    PROVE  \E t : Comes(t)
<1> DEFINE d == scan.dirPid
           s == [scan EXCEPT !.page = "null", !.entry = scan.entry + 1]
           u == [s EXCEPT !.dirPage = "null"]
           ps == Without(pins, scan.pid)
           qs == Without(ps, d)
<1>1. /\ scan \in Scans /\ scan.dirPage = "held" /\ scan.open /\ scan.entry \in Nat /\ IInv
      /\ d \in Pages
      BY DEF CInv, Shape, Scans
<1>2. InChain(d) \/ Lost'
      BY DEF CInv, Lost, Cursor, Stands, IsEntry
<1>3. ps \in [Pages -> Nat] /\ qs \in [Pages -> Nat]
      BY ReleasedTypes
<1>4. scan.entry + 1 \in Nat /\ (scan.entry + 1) - 1 = scan.entry
      BY <1>1
<1>5. /\ s \in Scans /\ s.dirPid = d /\ s.dirPage = "held" /\ s.open
      /\ s.entry = scan.entry + 1 /\ s.page = "null"
      BY <1>1, <1>4 DEF Scans
<1>6. \/ HasInfo(d, scan.entry) /\ EnterPage(s, ps)
      \/ EnterDirPage(u, qs)
      BY DEF LeavePage, EntryPast
<1>7. u \in Scans /\ u.dirPage = "null" /\ u.page = "null" /\ u.open
      BY <1>5 DEF Scans
<1> HIDE DEF d, s, u, ps, qs
<1>8. CASE HasInfo(d, scan.entry) /\ EnterPage(s, ps)
      BY <1>1, <1>2, <1>3, <1>4, <1>5, <1>8, EnterPageComes
<1>9. CASE EnterDirPage(u, qs)
  <2> DEFINE n == NextOf(d)
             t == [u EXCEPT !.noMore = TRUE]
             v == [u EXCEPT !.dirPid = n, !.dirPage = "held", !.entry = 1]
  <2>1. \/ scan' = t /\ pins' = qs
        \/ scan' = u /\ pins' = qs
        \/ n # INVALID_PAGE /\ HasInfo(n, 0) /\ EnterPage(v, With(qs, n))
        BY <1>9 DEF EnterDirPage, Wild, Result, Fail, d
  <2> HIDE DEF n
  <2>2. CASE scan' = t /\ pins' = qs
    <3>1. Shape(t) /\ t.page = "null"
          BY <1>7 DEF Shape, Scans
    <3> QED BY <1>3, <2>2, <3>1 DEF Comes
  <2>3. CASE scan' = u /\ pins' = qs
    <3>1. Shape(u)
          BY <1>7 DEF Shape
    <3> QED BY <1>3, <1>7, <2>3, <3>1 DEF Comes
  <2>4. CASE n # INVALID_PAGE /\ HasInfo(n, 0) /\ EnterPage(v, With(qs, n))
    <3>1. n \in Pages /\ InChain(n)
          BY <1>1, <2>4, NextTypes DEF n
    <3>2. With(qs, n) \in [Pages -> Nat]
          BY <1>3, <3>1, PinTypes
    <3>3. /\ v \in Scans /\ v.dirPid = n /\ v.dirPage = "held" /\ v.open /\ v.page = "null"
          /\ v.entry = 0 + 1 /\ v.entry - 1 = 0
      <4>1. v.entry = 1 /\ 1 \in Nat
            BY <1>7 DEF Scans
      <4>2. v \in Scans
            BY <1>7, <3>1, <4>1 DEF Scans
      <4> QED BY <1>7, <4>1, <4>2 DEF Scans
    <3> HIDE DEF v
    <3> QED BY <1>1, <2>4, <3>1, <3>2, <3>3, EnterPageComes
  <2> QED BY <2>1, <2>2, <2>3, <2>4
<1> QED BY <1>6, <1>8, <1>9

LEMMA GetNextComes == ASSUME CInv, GetNext, ~undefined' PROVE CInv'
<1>1. ScanReady /\ past' = past /\ scan \in Scans /\ (Lost => Lost')
      BY DEF GetNext, CInv, Shape, Lost
<1>2. CASE scan' = scan /\ pins' = pins
  <2>1. scan.slot \in Nat /\ scan' = [scan EXCEPT !.slot = scan.slot]
        BY <1>1, <1>2 DEF Scans
  <2> QED BY <1>1, <1>2, <2>1, SlotComes
<1>3. CASE scan.page = "held" /\ Sound /\ LeavePage
      BY <1>1, <1>3, LeavePageComes, ComesKeeps
<1>4. CASE /\ scan.page = "held" /\ pins' = pins /\ Behind(scan.pid, scan.slot) # {}
           /\ scan' = [scan EXCEPT !.slot = Min(Behind(scan.pid, scan.slot))]
  <2> DEFINE more == Behind(scan.pid, scan.slot)
  <2>1. scan.pid \in Pages /\ more \in SUBSET heap[scan.pid].slots
        BY <1>4 DEF CInv, Shape, Behind
  <2>2. Min(more) \in Nat
        BY <1>4, <2>1, SlotTypes DEF CInv
  <2> HIDE DEF more
  <2> QED BY <1>1, <1>4, <2>2, SlotComes DEF more
<1> QED BY <1>2, <1>3, <1>4 DEF GetNext, Wild, Fail, Result

LEMMA EntryStands ==
    ASSUME IInv, NEW p, DirOf(p) # 0
    PROVE  Stands(chain[DirOf(p)], EntryOf(chain[DirOf(p)], p), p)
<1> DEFINE d == chain[DirOf(p)]
           J == {i \in 1 .. Len(entries[d]) : entries[d][i].pid = p}
<1>1. d \in Pages /\ InChain(d) /\ Named(d, p)
      BY FoundNamed
<1> HIDE DEF d
<1>2. EntryOf(d, p) = IF J # {} THEN Min(J) ELSE 0
      BY DEF EntryOf, SelectInSeq
<1>3. J # {} /\ J \in SUBSET (1 .. Len(entries[d])) /\ Len(entries[d]) \in Nat
      BY <1>1, EntryTypes DEF Named, IInv
<1>4. \A i \in J : i \in 1 .. Len(entries[d]) /\ entries[d][i].pid = p
      OBVIOUS
<1> HIDE DEF J
<1>5. EntryOf(d, p) \in J
      BY <1>2, <1>3, FirstIndex
<1> QED BY <1>1, <1>4, <1>5 DEF Stands, IsEntry, d

LEMMA MoveToComes ==
    ASSUME CInv, NEW p \in Pages, NEW n \in 0 .. 2, MoveTo(p, n), ~undefined' PROVE CInv'
<1> DEFINE s == [scan EXCEPT !.slot = n]
<1>1. /\ ScanReady /\ scan \in Scans /\ scan.open /\ n \in Nat /\ IInv /\ (Lost => Lost')
      BY DEF MoveTo, CInv, Shape, Lost
<1>2. CASE scan' = s /\ pins' = pins
      BY <1>1, <1>2, SlotComes
<1>3. CASE Sound /\ Found(p, s, Released)
  <2> DEFINE d == chain[DirOf(p)]
             r == [s EXCEPT !.pid = p, !.page = "null"]
             t == [r EXCEPT !.dirPid = INVALID_PAGE, !.dirPage = "null",
                            !.entry = Len(entries[Last(chain)])]
             u == [r EXCEPT !.dirPid = d, !.dirPage = "held", !.entry = FoundAt(d, p)]
             v == [r EXCEPT !.dirPid = d, !.dirPage = "held", !.page = "held",
                            !.entry = FoundAt(d, p), !.noMore = FALSE]
             q == With(Released, d)
  <2>1. \/ scan' = t /\ pins' = Released
        \/ DirOf(p) # 0 /\ scan' = u /\ pins' = q
        \/ DirOf(p) # 0 /\ scan' = v /\ pins' = With(q, p)
        BY <1>1, <1>3 DEF Found, Result
  <2>2. Released \in [Pages -> Nat]
        BY <1>3, ReleasedTypes
  <2>3. r \in Scans /\ r.open
        BY <1>1 DEF Scans
  <2>4. CASE scan' = t /\ pins' = Released
    <3>1. Len(entries[Last(chain)]) \in Nat
      <4>1. chain # << >> /\ Len(chain) \in Nat
            BY <1>1, InvTypes DEF ScanReady
      <4>2. Last(chain) \in Pages
            BY <1>1, <4>1, InvTypes DEF Last
      <4> QED BY <1>1, <4>2, EntryTypes DEF IInv
    <3>2. Shape(t) /\ t.page = "null"
          BY <2>3, <3>1 DEF Shape, Scans
    <3>3. Comes(t)
          BY <2>2, <2>4, <3>2 DEF Comes
    <3> HIDE DEF t
    <3> QED BY <1>1, <3>3, ComesKeeps
  <2>5. ASSUME DirOf(p) # 0
        PROVE  /\ d \in Pages /\ FoundAt(d, p) \in Nat /\ Stands(d, FoundAt(d, p), p)
               /\ q \in [Pages -> Nat] /\ With(q, p) \in [Pages -> Nat]
    <3>1. d \in Pages /\ FoundAt(d, p) \in Nat /\ Stands(d, FoundAt(d, p), p)
          BY <1>1, <2>5, FoundNamed, EntryStands DEF FoundAt
    <3>2. q \in [Pages -> Nat]
          BY <2>2, <3>1, PinTypes
    <3> HIDE DEF q
    <3>3. With(q, p) \in [Pages -> Nat]
          BY <3>2, PinTypes
    <3> QED BY <3>1, <3>2, <3>3
  <2> HIDE DEF d, q
  <2>6. CASE DirOf(p) # 0 /\ scan' = u /\ pins' = q
    <3>1. Shape(u) /\ u.page = "null"
          BY <2>3, <2>5, <2>6 DEF Shape, Scans
    <3>2. Comes(u)
          BY <2>5, <2>6, <3>1 DEF Comes
    <3> HIDE DEF u
    <3> QED BY <1>1, <3>2, ComesKeeps
  <2>7. CASE DirOf(p) # 0 /\ scan' = v /\ pins' = With(q, p)
    <3>1. Shape(v) /\ v.dirPid = d /\ v.pid = p /\ v.entry = FoundAt(d, p)
          BY <2>3, <2>5, <2>7 DEF Shape, Scans
    <3>2. Comes(v)
          BY <2>5, <2>7, <3>1 DEF Comes
    <3> HIDE DEF v
    <3> QED BY <1>1, <3>2, ComesKeeps
  <2> QED BY <2>1, <2>4, <2>6, <2>7
<1> QED BY <1>1, <1>2, <1>3 DEF MoveTo, Result

LEMMA CursorStep == ASSUME CursorInv, OneHandle, [ScanNext]_allVars PROVE CursorInv'
<1> SUFFICES ASSUME ~undefined' PROVE CInv'
    BY DEF CursorInv
<1>1. ASSUME [Next]_vars PROVE CInv
      BY <1>1, UndefinedStays DEF CursorInv
<1>2. CASE HeapStep \/ UNCHANGED allVars
  <2>1. Elsewhere /\ [Next]_vars
        BY <1>2, StepElsewhere DEF Elsewhere
  <2> QED BY <1>1, <2>1, FileCursor
<1>4. CASE OpenScan \/ GetNext \/ CloseScan \/ \E p \in Pages, n \in 0 .. 2 : MoveTo(p, n)
  <2>1. ScanReady
        BY <1>4 DEF OpenScan, GetNext, CloseScan, MoveTo
  <2>2. CInv
        BY <2>1 DEF ScanReady, CursorInv
  <2> QED BY <1>4, <2>2, OpenScanComes, GetNextComes, CloseScanComes, MoveToComes
<1> QED BY <1>2, <1>4 DEF ScanNext

\* Until a page is freed under the scan the entry before the scan's next one is that of the
\* page it has pinned, whatever is inserted or deleted, and whatever has failed.
THEOREM CursorTrue == OneHandle /\ ScanSpec => []CursorAgrees
<1>1. ASSUME ScanInit PROVE CursorInv
  <2>1. IInv /\ AgreementInv
        BY <1>1, InitInvariant, InitAgrees DEF ScanInit
  <2>2. Shape(scan) /\ Cursor
        BY <1>1 DEF ScanInit, Shape, Cursor, NoScan, Scans
  <2> QED BY <2>1, <2>2 DEF CursorInv, CInv, AgreementInv
<1>2. OneHandle /\ CursorInv /\ [ScanNext]_allVars => CursorInv'
      BY CursorStep
<1>3. OneHandle /\ [ScanNext]_allVars => OneHandle'
      BY DEF OneHandle
<1>4. ASSUME CursorInv PROVE CursorAgrees
  <2> SUFFICES ASSUME ~undefined, past \in {"steady", "moved"}, scan.page = "held"
               PROVE  /\ scan.dirPage = "held" /\ Contains(chain, scan.dirPid)
                      /\ scan.entry \in 1 .. Len(entries[scan.dirPid])
                      /\ entries[scan.dirPid][scan.entry].pid = scan.pid
      BY DEF CursorAgrees
  <2>1. scan.dirPage = "held" /\ Stands(scan.dirPid, scan.entry, scan.pid)
        BY <1>4 DEF CursorInv, CInv, Shape, Lost, Cursor
  <2> QED BY <2>1 DEF Stands, IsEntry, InChain, Contains
<1> QED BY <1>1, <1>2, <1>3, <1>4, PTL DEF ScanSpec

-----------------------------------------------------------------------------
(* What a scan has passed *)

\* Scan s has passed entry j of directory page d, an entry of page p, record r.
PassedEntry(s, d, j) ==
    /\ IsEntry(d, j)
    /\ s.noMore \/ \E k, m \in 1 .. Len(chain) :
                      /\ chain[k] = s.dirPid /\ chain[m] = d
                      /\ m < k \/ (m = k /\ j < s.entry)
PassedPage(s, p) == \E d \in Pages, j \in Nat : PassedEntry(s, d, j) /\ entries[d][j].pid = p
PassedBy(s, r)   == PassedPage(s, r[1]) \/ (~s.noMore /\ r[1] = s.pid /\ r[2] < s.slot)

\* Of the records there were at the start, and still are, the scan has given
\* those that it has passed, but perhaps x.
GivenBut(X) ==
    \A r \in atOpen \ X : r[2] \in heap[r[1]].slots /\ PassedBy(scan, r) => r \in seen

\* The record that the scan stands on is gone, and no GetNext goes on from it.
Stuck == scan.page = "held" /\ scan.slot \notin heap[scan.pid].slots

\* The pages of the records there were, and the one that is pinned, are still
\* data pages; only a scan that is stuck has lost a record, and only one.
Complete ==
    /\ \A r \in atOpen : r \in Pages \X {0, 1} /\ owner[r[1]] = "data"
    /\ seen \subseteq Pages \X {0, 1}
    /\ scan.page = "held" => owner[scan.pid] = "data" /\ ~scan.noMore
    /\ scan.page = "held" \/ scan.noMore =>
          GivenBut({}) \/ (ret.failed /\ Stuck /\ \E x : GivenBut({x}))

\* The records that were given are among those it has passed.
Behindhands == scan.page = "held" => \A r \in seen : PassedBy(scan, r)

\* Only the last directory page can be without an entry.
Filled == \A i \in 1 .. Len(chain) - 1 : entries[chain[i]] # << >>

Steady == scan.open /\ past = "steady"
GInv   == CInv /\ Filled /\ (Steady => Complete /\ Behindhands)

GivenInv == undefined \/ GInv

-----------------------------------------------------------------------------
(* The steps of the file *)

\* A data page stays one, and gets no record in a slot that had none.
DataStays ==
    \A p \in Pages : owner[p] = "data" =>
        owner'[p] = "data" /\ heap'[p].slots \subseteq heap[p].slots

LEMMA StepData ==
    ASSUME IInv, [Next]_vars, pc # "delete", ~FreesData PROVE DataStays
<1> SUFFICES ASSUME NEW p \in Pages, owner[p] = "data"
             PROVE  heap'[p].slots \subseteq heap[p].slots
    BY DEF DataStays, FreesData
<1>1. CASE UNCHANGED heap
      BY <1>1
<1>2. CASE NewDataPage /\ CanNewPage
  <2>1. NewPid \in Pages /\ NewPid # p
        BY <1>2, NewPidIsFree DEF CanNewPage
  <2>2. PICK h : heap' = [heap EXCEPT ![NewPid] = h]
        BY <1>2 DEF NewDataPage
  <2> QED BY <2>1, <2>2 DEF IInv, Types
<1>3. CASE Put
  <2>1. heap' = heap \/ heap' = [heap EXCEPT ![pid] = PageInserted(heap[pid], len)]
        BY <1>3 DEF Put
  <2>2. heap[pid] \in HeapPages => PageInserted(heap[pid], len).slots = heap[pid].slots
        BY DEF PageInserted, HeapPages
  <2>3. pid \in Pages
        BY <1>3 DEF Put, Running, IInv, CallInv
  <2> QED BY <2>1, <2>2, <2>3 DEF IInv, Types
<1>4. ASSUME NEW q \in Pages, NEW s, DeleteRecord(q, s)
      PROVE  heap'[p].slots \subseteq heap[p].slots
  <2>1. heap' = heap \/ heap' = [heap EXCEPT ![q] = PageDeleted(heap[q], s)]
        BY <1>4 DEF DeleteRecord
  <2>2. heap[q] \in HeapPages /\ PageDeleted(heap[q], s).slots \subseteq heap[q].slots
        BY DEF PageDeleted, HeapPages, IInv, Types
  <2> QED BY <2>1, <2>2 DEF IInv, Types
<1>5. \/ UNCHANGED heap \/ (NewDataPage /\ CanNewPage) \/ Put
      \/ \E q \in Pages, s \in 0 .. 2 : DeleteRecord(q, s)
  <2>1. ~DeleteDirPage
        BY DEF DeleteDirPage, Running
  <2>2. CASE UNCHANGED vars
        BY <2>2 DEF vars, file
  <2>3. CASE Next
        BY <2>1, <2>3 DEF Next, Create, Open, InsertRecord, NewDirPage, NewDataPage, GetRecord,
           UpdateRecord, DeleteFile, OtherAllocates, OtherFrees, file, vars
  <2> QED BY <2>2, <2>3
<1> QED BY <1>1, <1>2, <1>3, <1>4, <1>5

LEMMA ElsewhereGrows ==
    ASSUME IInv, Agreement, Elsewhere, scan.open, ~Lost', ~undefined'
    PROVE  Grown /\ DataStays
<1>1. CASE UNCHANGED vars
  <2>1. UNCHANGED <<chain, entries, owner, heap>>
        BY <1>1 DEF vars, file
  <2> QED BY <2>1, SameGrown DEF DataStays
<1>2. CASE pc # "delete" /\ ~FreesData
      BY <1>2, StepGrown, StepData DEF Elsewhere
<1> QED BY <1>1, <1>2 DEF Elsewhere

\* What lies behind the scan is what lay behind it, and what was new lies there
\* with pages that were free.
LEMMA GrownPassed ==
    ASSUME IInv, IInv', Grown, UNCHANGED scan, scan.noMore \/ InChain(scan.dirPid),
           NEW p \in Pages
    PROVE  /\ PassedPage(scan, p) => PassedPage(scan, p)'
           /\ PassedPage(scan, p)' /\ owner[p] # "free" => PassedPage(scan, p)
<1>1. ASSUME NEW d \in Pages, NEW j \in Nat, PassedEntry(scan, d, j), entries[d][j].pid = p
      PROVE  PassedEntry(scan, d, j)' /\ entries'[d][j].pid = p
  <2>1. IsEntry(d, j)' /\ entries'[d][j].pid = entries[d][j].pid
        BY <1>1 DEF Grown, PassedEntry, IsEntry
  <2>2. CASE scan.noMore
        BY <1>1, <2>1, <2>2 DEF PassedEntry
  <2>3. CASE ~scan.noMore
    <3>1. PICK k, m \in 1 .. Len(chain) : /\ chain[k] = scan.dirPid /\ chain[m] = d
                                          /\ m < k \/ (m = k /\ j < scan.entry)
          BY <1>1, <2>3 DEF PassedEntry
    <3>2. /\ k \in 1 .. Len(chain') /\ m \in 1 .. Len(chain')
          /\ chain'[k] = scan.dirPid /\ chain'[m] = d
          BY <3>1 DEF Grown
    <3> QED BY <1>1, <2>1, <3>1, <3>2 DEF PassedEntry
  <2> QED BY <2>2, <2>3
<1>2. ASSUME NEW d \in Pages, NEW j \in Nat, PassedEntry(scan, d, j)', entries'[d][j].pid = p,
             owner[p] # "free"
      PROVE  PassedEntry(scan, d, j) /\ entries[d][j].pid = p
  <2>1. IsEntry(d, j) /\ entries[d][j].pid = p
    <3>1. IsEntry(d, j)'
          BY <1>2 DEF PassedEntry
    <3>2. InChain(d)' /\ j \in 1 .. Len(entries'[d])
          BY <3>1 DEF IsEntry
    <3>3. IsEntry(d, j)
          BY <1>2, <3>2 DEF Grown
    <3> QED BY <1>2, <3>3 DEF Grown, IsEntry
  <2>2. CASE scan.noMore
        BY <1>2, <2>1, <2>2 DEF PassedEntry
  <2>3. CASE ~scan.noMore
    <3>1. PICK k, m \in 1 .. Len(chain') : /\ chain'[k] = scan.dirPid /\ chain'[m] = d
                                           /\ m < k \/ (m = k /\ j < scan.entry)
          BY <1>2, <2>3 DEF PassedEntry
    <3>2. PICK a \in 1 .. Len(chain) : chain[a] = scan.dirPid
          BY <2>3 DEF InChain
    <3>3. PICK b \in 1 .. Len(chain) : chain[b] = d
          BY <2>1 DEF IsEntry, InChain
    <3>4. a = k /\ b = m
          BY <3>1, <3>2, <3>3 DEF Grown, IInv, DirInv
    <3> QED BY <1>2, <2>1, <3>1, <3>2, <3>3, <3>4 DEF PassedEntry
  <2> QED BY <2>2, <2>3
<1> QED BY <1>1, <1>2 DEF PassedPage

\* A directory page is added only when all of them are full.
LEMMA NewDirPageFilled ==
    ASSUME IInv, Agreement, NewDirPage, ~undefined', chain' # chain PROVE Filled'
<1> DEFINE k == SelectInSeq(chain, LAMBDA d : Len(entries[d]) < DirSlots)
           I == {i \in 1 .. Len(chain) : Len(entries[chain[i]]) < DirSlots}
           q == NewPid
<1>1. /\ k = 0 /\ CanNewPage /\ entries' = [entries EXCEPT ![q] = << >>]
      /\ chain' = Linked(last[who], q)
      /\ who \in Handles /\ chain # << >> /\ last[who] = Last(chain)
      /\ \A d \in Pages : InChain(d) => owner[d] = "dir"
      BY DEF NewDirPage, Running, Undefined, IInv, DirInv, InChain, Agreement, Ends
<1>2. /\ Len(chain) \in Nat /\ \A i \in 1 .. Len(chain) : chain[i] \in Pages
      /\ chain \in Seq(Pages)
      BY InvTypes DEF Types
<1>3. I = {}
  <2>1. k = IF I # {} THEN Min(I) ELSE 0
        BY DEF SelectInSeq
  <2>2. I \in SUBSET (1 .. Len(chain))
        OBVIOUS
  <2> HIDE DEF I, k
  <2> QED BY <1>1, <1>2, <2>1, <2>2, FirstIndex
<1>4. \A i \in 1 .. Len(chain) : entries[chain[i]] # << >>
  <2>1. \A i \in 1 .. Len(chain) : ~(Len(entries[chain[i]]) < DirSlots)
        BY <1>3
  <2> HIDE DEF I
  <2> QED BY <2>1, EmptySeq, Constants
<1>5. q \in Pages /\ owner[q] = "free"
      BY <1>1, NewPidIsFree DEF CanNewPage
<1> HIDE DEF q, k
<1>6. ~InChain(q)
      BY <1>1, <1>5
<1>7. chain' = Append(chain, q)
      BY <1>1, <1>2, <1>5, <1>6, LinkedIs DEF IInv, DirInv
<1>8. Len(chain') = Len(chain) + 1 /\ \A i \in 1 .. Len(chain) : chain'[i] = chain[i]
      BY <1>2, <1>5, <1>7, AppendProperties
<1>9. \A i \in 1 .. Len(chain') - 1 : i \in 1 .. Len(chain)
      BY <1>2, <1>8
<1>10. \A i \in 1 .. Len(chain) : entries'[chain[i]] = entries[chain[i]]
       BY <1>1, <1>2, <1>6 DEF InChain, IInv, Types
<1> QED BY <1>4, <1>8, <1>9, <1>10 DEF Filled

LEMMA FilledStep ==
    ASSUME IInv, Agreement, Filled, [Next]_vars, ~undefined' PROVE Filled'
<1>1. CASE chain' = << >>
      BY <1>1, EmptySeq DEF Filled
<1>2. CASE chain' = chain /\ chain' # << >>
  <2>1. \A i \in 1 .. Len(chain) - 1 : chain[i] \in Pages
        BY InvTypes
  <2> QED BY <1>2, <2>1, EntryKept DEF Filled
<1>3. CASE NewDirPage /\ chain' # chain
      BY <1>3, NewDirPageFilled
<1>4. ASSUME NEW h \in Handles, Create(h), chain' # chain PROVE Filled'
  <2>1. chain' = <<NewPid>>
        BY <1>4 DEF Create, file
  <2>2. Len(chain') = 1 /\ 1 .. 1 - 1 = {}
        BY <2>1
  <2> QED BY <2>2 DEF Filled
<1>5. \/ chain' = << >> \/ chain' = chain \/ NewDirPage \/ \E h \in Handles : Create(h)
  <2>1. DeleteDirPage => chain' = << >> \/ chain' = chain
        BY DeleteDirPageIs, FreeDirPageIs DEF file
  <2> QED BY <2>1 DEF Next, vars, file, Open, InsertRecord, NewDataPage, Put, GetRecord,
             DeleteRecord, UpdateRecord, DeleteFile, OtherAllocates, OtherFrees
<1> QED BY <1>1, <1>2, <1>3, <1>4, <1>5

LEMMA FileGiven == ASSUME GInv, OneHandle, Elsewhere, ~undefined' PROVE GInv'
<1>1. CInv' /\ CInv
      BY FileCursor DEF GInv
<1>2. Filled'
      BY FilledStep DEF GInv, CInv, Elsewhere
<1>3. ASSUME Steady' PROVE Complete' /\ Behindhands'
  <2>1. Steady /\ ~Lost' /\ ~Lost /\ scan.open /\ UNCHANGED <<scan, atOpen, seen>>
        BY <1>3 DEF Steady, Lost, Elsewhere
  <2>2. Grown /\ DataStays /\ Complete /\ Behindhands /\ IInv /\ IInv' /\ Shape(scan)
        BY <1>1, <2>1, ElsewhereGrows DEF GInv, CInv
  <2>3. ASSUME NEW p \in Pages, scan.page = "held" \/ scan.noMore
        PROVE  /\ PassedPage(scan, p) => PassedPage(scan, p)'
               /\ PassedPage(scan, p)' /\ owner[p] # "free" => PassedPage(scan, p)
    <3>1. scan.noMore \/ InChain(scan.dirPid)
          BY <1>1, <2>1, <2>3 DEF CInv, Cursor, Stands, IsEntry
    <3> QED BY <2>1, <2>2, <3>1, GrownPassed
  <2>4. \A r \in atOpen : /\ r \in Pages \X {0, 1} /\ r[1] \in Pages
                          /\ owner[r[1]] = "data" /\ owner'[r[1]] = "data"
                          /\ heap'[r[1]].slots \subseteq heap[r[1]].slots
        BY <2>2 DEF Complete, DataStays
  <2>5. ASSUME NEW X, GivenBut(X), scan.page = "held" \/ scan.noMore PROVE GivenBut(X)'
    <3> SUFFICES ASSUME NEW r \in atOpen \ X, r[2] \in heap'[r[1]].slots, PassedBy(scan, r)'
                 PROVE  r \in seen
        BY <2>1 DEF GivenBut
    <3>1. r[2] \in heap[r[1]].slots /\ r[1] \in Pages /\ owner[r[1]] = "data"
          BY <2>4
    <3>2. PassedBy(scan, r)
          BY <2>1, <2>3, <2>5, <3>1 DEF PassedBy
    <3> QED BY <2>5, <3>1, <3>2 DEF GivenBut
  <2>6. scan.page = "held" => scan.pid \in Pages /\ owner[scan.pid] = "data" /\ ~scan.noMore
        BY <2>2 DEF Shape, Complete
  <2>7. Stuck => Stuck'
        BY <2>1, <2>2, <2>6 DEF Stuck, DataStays
  <2>8. ret.failed => ret'.failed
        BY FailedStays DEF Elsewhere
  <2>9. ASSUME scan.page = "held" \/ scan.noMore
        PROVE  GivenBut({})' \/ (ret'.failed /\ Stuck' /\ \E x : GivenBut({x})')
    <3>1. CASE GivenBut({})
          BY <2>5, <2>9, <3>1
    <3>2. CASE ret.failed /\ Stuck /\ \E x : GivenBut({x})
          BY <2>5, <2>7, <2>8, <2>9, <3>2
    <3> QED BY <2>2, <2>9, <3>1, <3>2 DEF Complete
  <2>10. Complete'
         BY <2>1, <2>2, <2>4, <2>6, <2>9 DEF Complete, DataStays
  <2>11. ASSUME NEW r \in seen, scan.page = "held" PROVE PassedBy(scan, r)'
    <3>1. CASE PassedPage(scan, r[1])
      <4>1. r[1] \in Pages
            BY <2>2, <3>1, EntryTypes DEF PassedPage, PassedEntry, IsEntry, IInv
      <4> QED BY <2>3, <2>11, <3>1, <4>1 DEF PassedBy
    <3>2. CASE ~scan.noMore /\ r[1] = scan.pid /\ r[2] < scan.slot
          BY <2>1, <3>2 DEF PassedBy
    <3> QED BY <2>2, <2>11, <3>1, <3>2 DEF Behindhands, PassedBy
  <2>12. Behindhands'
         BY <2>1, <2>11 DEF Behindhands
  <2> QED BY <2>10, <2>12
<1> QED BY <1>1, <1>2, <1>3 DEF GInv

-----------------------------------------------------------------------------
(* The calls of the scan *)

\* What Complete and Behindhands say of scan s, if the file had records A when
\* it was opened, S have been given and f tells whether a call has failed.
GivenBy(s, A, S, X) ==
    \A r \in A \ X : r[2] \in heap[r[1]].slots /\ PassedBy(s, r) => r \in S
Accounted(s, A, S, f) ==
    /\ \A r \in A : r \in Pages \X {0, 1} /\ owner[r[1]] = "data"
    /\ S \subseteq Pages \X {0, 1}
    /\ s.page = "held" => /\ owner[s.pid] = "data" /\ ~s.noMore
                          /\ \A r \in S : PassedBy(s, r)
    /\ s.page = "held" \/ s.noMore =>
          \/ GivenBy(s, A, S, {})
          \/ /\ f /\ s.page = "held" /\ s.slot \notin heap[s.pid].slots
             /\ \E x : GivenBy(s, A, S, {x})

LEMMA IsAccounted ==
    ASSUME Complete, Behindhands PROVE Accounted(scan, atOpen, seen, ret.failed)
<1>1. \A X : GivenBut(X) <=> GivenBy(scan, atOpen, seen, X)
      BY DEF GivenBut, GivenBy
<1> QED BY <1>1 DEF Complete, Behindhands, Stuck, Accounted

LEMMA CallGiven ==
    ASSUME GInv, ScanReady, CInv', Steady' => Accounted(scan', atOpen', seen', ret'.failed)
    PROVE  GInv'
<1>1. UNCHANGED <<owner, chain, entries, heap>>
      BY DEF ScanReady, file
<1>2. Filled'
      BY <1>1 DEF GInv, Filled
<1>3. ASSUME NEW r PROVE PassedBy(scan, r)' <=> PassedBy(scan', r)
      BY <1>1 DEF PassedBy, PassedPage, PassedEntry, IsEntry, InChain
<1>4. ASSUME NEW X PROVE GivenBut(X)' <=> GivenBy(scan', atOpen', seen', X)
      BY <1>1, <1>3 DEF GivenBut, GivenBy
<1>5. ASSUME Steady' PROVE Complete' /\ Behindhands'
      BY <1>1, <1>3, <1>4, <1>5 DEF Accounted, Complete, Behindhands, Stuck
<1> QED BY <1>2, <1>5 DEF GInv

LEMMA RecordsAre ==
    ASSUME IInv, NEW r \in Records
    PROVE  /\ r \in Pages \X {0, 1} /\ owner[r[1]] = "data" /\ r[2] \in heap[r[1]].slots
           /\ \E d \in Pages, i \in Nat : IsEntry(d, i) /\ entries[d][i].pid = r[1]
<1>1. PICK d \in ToSet(chain) : r \in RecordsOf(d, Len(entries[d]))
      BY DEF Records
<1>2. d \in Pages /\ InChain(d)
      BY <1>1, InvTypes DEF ToSet, InChain
<1>3. PICK i \in 1 .. Len(entries[d]) : r \in PageRecords(entries[d][i].pid)
      BY <1>1 DEF RecordsOf
<1>4. entries[d][i].pid \in Pages /\ i \in Nat
      BY <1>2, <1>3, EntryTypes DEF IInv
<1>5. PICK p \in Pages : p = entries[d][i].pid
      BY <1>4
<1>6. PICK s \in heap[p].slots : r = <<p, s>> /\ owner[p] = "data"
      BY <1>3, <1>5 DEF PageRecords
<1>7. s \in {0, 1}
      BY <1>6 DEF IInv, Types, HeapPages
<1> QED BY <1>2, <1>4, <1>5, <1>6, <1>7 DEF IsEntry

LEMMA LeastSlot ==
    ASSUME IInv, NEW p \in Pages, NEW S \in SUBSET heap[p].slots, S # {}
    PROVE  Min(S) \in S /\ \A c \in S : ~(c < Min(S))
<1>1. heap[p].slots \in SUBSET {0, 1}
      BY DEF IInv, Types, HeapPages
<1>2. S \in SUBSET Nat
      BY <1>1
<1>3. \E m \in S : \A k \in S : m <= k
      BY <1>2, LeastNumber
<1>4. Min(S) \in S /\ \A k \in S : Min(S) <= k
      BY <1>3 DEF Min
<1>5. PICK m \in S : m = Min(S)
      BY <1>4
<1>6. \A a, b \in Nat : a <= b => ~(b < a)
      OBVIOUS
<1>7. \A c \in S : ~(c < m)
      BY <1>2, <1>4, <1>5, <1>6
<1> QED BY <1>5, <1>7

\* The page that the scan has pinned has been passed, and no other.
Over(s) == \A q : PassedPage(s, q) <=> PassedPage(scan, q) \/ q = scan.pid

\* The scan leaves its page, which has no record behind the one it gives.
LEMMA OverGiven ==
    ASSUME GInv, Steady, scan.page = "held", scan.slot \in heap[scan.pid].slots,
           Behind(scan.pid, scan.slot) = {}, NEW t, Over(t),
           t.noMore \/ \A c \in heap[t.pid].slots : ~(c < t.slot)
    PROVE  LET x == <<scan.pid, scan.slot>>
           IN  /\ seen \cup {x} \subseteq Pages \X {0, 1}
               /\ GivenBy(t, atOpen, seen \cup {x}, {})
               /\ GivenBy(t, atOpen, seen, {x})
               /\ \A r \in seen \cup {x} : PassedBy(t, r)
<1> DEFINE x == <<scan.pid, scan.slot>>
<1>1. /\ GivenBut({}) /\ Behindhands /\ ~scan.noMore /\ IInv /\ scan.pid \in Pages
      /\ \A r \in atOpen : r \in Pages \X {0, 1}
      BY DEF GInv, CInv, Shape, Complete, Stuck
<1>2. ASSUME NEW r \in atOpen, r[2] \in heap[r[1]].slots, PassedBy(t, r) PROVE r \in seen \cup {x}
  <2>1. PassedPage(t, r[1])
        BY <1>2 DEF PassedBy
  <2>2. CASE PassedPage(scan, r[1])
        BY <1>1, <1>2, <2>2 DEF GivenBut, PassedBy
  <2>3. CASE r[1] = scan.pid
    <3>1. r[2] \in heap[scan.pid].slots /\ ~(r[2] > scan.slot)
          BY <1>2, <2>3 DEF Behind
    <3>2. heap[scan.pid].slots \in SUBSET {0, 1}
          BY <1>1 DEF IInv, Types, HeapPages
    <3>3. r[2] < scan.slot \/ r[2] = scan.slot
          BY <3>1, <3>2
    <3>4. r = <<r[1], r[2]>>
          BY <1>1, <1>2
    <3>5. r[2] < scan.slot => r \in seen
          BY <1>1, <1>2, <2>3 DEF GivenBut, PassedBy
    <3> QED BY <2>3, <3>3, <3>4, <3>5
  <2> QED BY <2>1, <2>2, <2>3 DEF Over
<1>3. \A r \in seen : PassedBy(t, r)
  <2> SUFFICES ASSUME NEW r \in seen PROVE PassedBy(t, r)
      OBVIOUS
  <2>1. PassedPage(scan, r[1]) \/ r[1] = scan.pid
        BY <1>1 DEF Behindhands, PassedBy
  <2> QED BY <2>1 DEF Over, PassedBy
<1>4. PassedBy(t, x)
      BY DEF Over, PassedBy
<1>5. seen \cup {x} \subseteq Pages \X {0, 1}
      BY <1>1 DEF GInv, Complete, IInv, Types, HeapPages
<1> QED BY <1>2, <1>3, <1>4, <1>5 DEF GivenBy

\* A scan that is opened has passed nothing; one that finds no entry has
\* nothing to give.
LEMMA OpenScanGiven == ASSUME GInv, OpenScan, ~undefined' PROVE GInv'
<1> DEFINE d == chain[1]
           p == InfoPid(d, 0)
           s == [NoScan EXCEPT !.open = TRUE, !.dirPid = d, !.dirPage = "held", !.entry = 1]
<1>1. /\ ScanReady /\ chain # << >> /\ IInv /\ CInv'
      /\ atOpen' = Records /\ seen' = {}
      BY OpenScanComes DEF OpenScan, ScanReady, GInv, CInv
<1>2. /\ 1 \in 1 .. Len(chain) /\ d \in Pages /\ InChain(d) /\ Len(chain) \in Nat
      /\ \A i \in 1 .. Len(chain) : chain[i] = d => i = 1
      BY <1>1, InvTypes DEF InChain, IInv, DirInv
<1>3. \A r \in atOpen' : r \in Pages \X {0, 1} /\ owner[r[1]] = "data"
      BY <1>1, RecordsAre
<1>4. CASE scan' = NoScan
      BY <1>1, <1>4, CallGiven DEF Steady, NoScan
<1>5. CASE ~HasInfo(d, 0) /\ scan' = [s EXCEPT !.page = "wild", !.noMore = TRUE]
  <2>1. entries[d] = << >> /\ entries[d] \in Seq(PageInfo) /\ Len(entries[d]) = 0
    <3>1. entries[d] \in Seq(PageInfo) /\ Len(entries[d]) \in Nat
          BY <1>1, <1>2, EntryTypes DEF IInv
    <3>2. Len(entries[d]) = 0
          BY <1>5, <3>1 DEF HasInfo
    <3> QED BY <3>1, <3>2, EmptySeq
  <2>2. Len(chain) = 1
    <3>1. ~(1 \in 1 .. Len(chain) - 1)
          BY <2>1 DEF GInv, Filled
    <3> QED BY <1>2, <3>1
  <2>3. \A c \in Pages, i \in Nat : ~IsEntry(c, i)
        BY <2>1, <2>2 DEF IsEntry, InChain
  <2>4. atOpen' = {}
        BY <1>1, <2>3, RecordsAre
  <2>5. scan'.page = "wild"
        BY <1>5 DEF NoScan
  <2>6. Accounted(scan', atOpen', seen', ret'.failed)
        BY <1>1, <2>4, <2>5 DEF Accounted, GivenBy
  <2> QED BY <1>1, <2>6, CallGiven
<1>6. CASE /\ owner[p] = "data" /\ heap[p].slots # {}
           /\ HasInfo(d, 0)
           /\ scan' = [s EXCEPT !.pid = p, !.page = "held", !.slot = Min(heap[p].slots)]
  <2>1. /\ scan'.dirPid = d /\ scan'.pid = p /\ scan'.page = "held" /\ scan'.entry = 1
        /\ ~scan'.noMore /\ scan'.slot = Min(heap[p].slots)
        BY <1>6 DEF NoScan
  <2>2. \A c \in heap[p].slots : ~(c < Min(heap[p].slots))
    <3>1. p \in Pages
          BY <1>1, <1>2, <1>6, InfoStands
    <3> HIDE DEF p
    <3> QED BY <1>1, <1>6, <3>1, LeastSlot
  <2> HIDE DEF d, p
  <2>3. \A r : PassedBy(scan', r) => r[1] = p /\ r[2] < Min(heap[p].slots)
    <3>1. \A c \in Pages, j \in Nat : ~PassedEntry(scan', c, j)
      <4> SUFFICES ASSUME NEW c \in Pages, NEW j \in Nat, PassedEntry(scan', c, j) PROVE FALSE
          OBVIOUS
      <4>1. PICK k, m \in 1 .. Len(chain) : /\ chain[k] = d /\ chain[m] = c
                                            /\ m < k \/ (m = k /\ j < 1)
            BY <2>1 DEF PassedEntry
      <4>2. k = 1 /\ j \in 1 .. Len(entries[c])
            BY <1>2, <4>1 DEF PassedEntry, IsEntry
      <4> QED BY <1>2, <4>1, <4>2
    <3> QED BY <2>1, <3>1 DEF PassedBy, PassedPage
  <2>4. GivenBy(scan', atOpen', seen', {})
        BY <2>2, <2>3 DEF GivenBy
  <2>5. Accounted(scan', atOpen', seen', ret'.failed)
        BY <1>1, <1>3, <1>6, <2>1, <2>4 DEF Accounted
  <2> QED BY <1>1, <2>5, CallGiven
<1> QED BY <1>4, <1>5, <1>6 DEF OpenScan, Result

LEMMA NextOfIs ==
    ASSUME IInv, NEW k \in 1 .. Len(chain)
    PROVE  NextOf(chain[k]) = IF k < Len(chain) THEN chain[k + 1] ELSE INVALID_PAGE
<1> DEFINE I == {i \in 1 .. Len(chain) : chain[i] = chain[k]}
           n == SelectInSeq(chain, LAMBDA c : c = chain[k])
<1>1. n = IF I # {} THEN Min(I) ELSE 0
      BY DEF SelectInSeq
<1>2. I \in SUBSET (1 .. Len(chain)) /\ Len(chain) \in Nat /\ k \in I
      BY InvTypes
<1>3. \A i \in I : i = k
      BY DEF IInv, DirInv
<1>4. NextOf(chain[k]) = IF n < Len(chain) THEN chain[n + 1] ELSE INVALID_PAGE
      BY DEF NextOf
<1> HIDE DEF I, n
<1>5. n \in I
      BY <1>1, <1>2, FirstIndex
<1> QED BY <1>3, <1>4, <1>5

\* Where directory page d is m-th in the chain, and the scan's page k-th.
LEMMA PassedAt ==
    ASSUME IInv, NEW s, ~s.noMore, NEW k \in 1 .. Len(chain), chain[k] = s.dirPid,
           NEW d \in Pages, NEW m \in 1 .. Len(chain), chain[m] = d, NEW j \in Nat, IsEntry(d, j)
    PROVE  PassedEntry(s, d, j) <=> m < k \/ (m = k /\ j < s.entry)
<1>1. \A a, b \in 1 .. Len(chain) : chain[a] = chain[b] => a = b
      BY DEF IInv, DirInv
<1> QED BY <1>1 DEF PassedEntry

\* One entry on, in the same directory page or the next or at the end of the
\* chain, just the page that was pinned has been passed.
LEMMA OneEntryOn ==
    ASSUME IInv, scan.page = "held", Shape(scan), Cursor, ~scan.noMore, NEW t,
           \/ ~t.noMore /\ t.dirPid = scan.dirPid /\ t.entry = scan.entry + 1
           \/ /\ ~HasInfo(scan.dirPid, scan.entry)
              /\ \/ t.noMore /\ NextOf(scan.dirPid) = INVALID_PAGE
                 \/ /\ ~t.noMore /\ t.dirPid = NextOf(scan.dirPid)
                    /\ t.dirPid # INVALID_PAGE /\ t.entry = 1
    PROVE  Over(t)
<1> DEFINE e == scan.entry
           b == scan.dirPid
<1>1. /\ b \in Pages /\ IsEntry(b, e) /\ entries[b][e].pid = scan.pid /\ e \in Nat
      BY DEF Cursor, Stands, Shape, Scans
<1>2. PICK k \in 1 .. Len(chain) : chain[k] = b
      BY <1>1 DEF IsEntry, InChain
<1>3. /\ Len(chain) \in Nat /\ Len(entries[b]) \in Nat /\ e \in 1 .. Len(entries[b])
      /\ \A i \in 1 .. Len(chain) : chain[i] \in Pages
      BY <1>1, InvTypes, EntryTypes DEF IsEntry, IInv
<1>4. ~HasInfo(b, e) => e = Len(entries[b])
      BY <1>3 DEF HasInfo
<1>5. NextOf(b) = IF k < Len(chain) THEN chain[k + 1] ELSE INVALID_PAGE
      BY <1>2, NextOfIs
<1>6. k < Len(chain) => k + 1 \in 1 .. Len(chain) /\ chain[k + 1] # INVALID_PAGE
      BY <1>3, Constants
<1> HIDE DEF e
<1>7. ASSUME NEW d \in Pages, NEW j \in Nat, IsEntry(d, j)
      PROVE  PassedEntry(t, d, j) <=> PassedEntry(scan, d, j) \/ (d = b /\ j = e)
  <2>1. PICK m \in 1 .. Len(chain) : chain[m] = d
        BY <1>7 DEF IsEntry, InChain
  <2>2. d = b <=> m = k
        BY <1>2, <2>1 DEF IInv, DirInv
  <2>3. PassedEntry(scan, d, j) <=> m < k \/ (m = k /\ j < e)
        BY <1>2, <1>7, <2>1, PassedAt DEF e
  <2>4. m = k => j \in 1 .. Len(entries[b])
        BY <1>7, <2>2 DEF IsEntry
  <2> HIDE DEF b
  <2>5. CASE ~t.noMore /\ t.dirPid = b /\ t.entry = e + 1
    <3>1. PassedEntry(t, d, j) <=> m < k \/ (m = k /\ j < e + 1)
          BY <1>2, <1>7, <2>1, <2>5, PassedAt
    <3>2. j < e + 1 <=> j < e \/ j = e
          BY <1>1
    <3> QED BY <2>2, <2>3, <3>1, <3>2
  <2>6. CASE ~HasInfo(b, e) /\ t.noMore /\ NextOf(b) = INVALID_PAGE
    <3>1. k = Len(chain)
          BY <1>3, <1>5, <1>6, <2>6
    <3>2. m < k \/ m = k
          BY <1>3, <3>1
    <3>3. m = k => j < e \/ j = e
          BY <1>3, <1>4, <2>4, <2>6
    <3>4. PassedEntry(t, d, j)
          BY <1>7, <2>6 DEF PassedEntry
    <3> QED BY <2>2, <2>3, <3>2, <3>3, <3>4
  <2>7. CASE ~HasInfo(b, e) /\ ~t.noMore /\ t.dirPid = NextOf(b) /\ t.dirPid # INVALID_PAGE
             /\ t.entry = 1
    <3>1. k + 1 \in 1 .. Len(chain) /\ t.dirPid = chain[k + 1]
          BY <1>5, <1>6, <2>7
    <3>2. PassedEntry(t, d, j) <=> m < k + 1 \/ (m = k + 1 /\ j < 1)
          BY <1>7, <2>1, <2>7, <3>1, PassedAt
    <3>3. ~(j < 1)
          BY <1>7, EntryTypes DEF IsEntry, IInv
    <3>4. m < k + 1 <=> m < k \/ m = k
          BY <1>3
    <3>5. m = k => j < e \/ j = e
          BY <1>3, <1>4, <2>4, <2>7
    <3> QED BY <2>2, <2>3, <3>2, <3>3, <3>4, <3>5
  <2> QED BY <2>5, <2>6, <2>7 DEF b, e
<1>8. \A s, d, j : PassedEntry(s, d, j) => IsEntry(d, j)
      BY DEF PassedEntry
<1>9. \A q : PassedPage(t, q) <=> PassedPage(scan, q) \/ q = scan.pid
      BY <1>1, <1>7, <1>8 DEF PassedPage
<1> QED BY <1>9 DEF Over

LEMMA SameSpot ==
    ASSUME NEW s, NEW t, t.dirPid = s.dirPid, t.entry = s.entry, t.noMore = s.noMore, Over(s)
    PROVE  Over(t)
<1>1. \A d, j : PassedEntry(t, d, j) <=> PassedEntry(s, d, j)
      BY DEF PassedEntry
<1> QED BY <1>1 DEF Over, PassedPage

\* The record that the scan stands on is the last of its page.
Leaving == /\ GInv /\ Steady /\ scan.page = "held" /\ scan.slot \in heap[scan.pid].slots
           /\ Behind(scan.pid, scan.slot) = {}

LEMMA EnterPageGiven ==
    ASSUME Leaving, NEW s \in Scans, s.page = "null", ~s.noMore, Over(s), NEW ps, EnterPage(s, ps),
           InfoPid(s.dirPid, s.entry - 1) \in Pages, ~undefined'
    PROVE  Accounted(scan', atOpen, seen', ret'.failed)
<1> DEFINE p == InfoPid(s.dirPid, s.entry - 1)
           x == <<scan.pid, scan.slot>>
           t == [s EXCEPT !.pid = p]
           u == [s EXCEPT !.pid = p, !.page = "held"]
           v == [s EXCEPT !.pid = p, !.page = "held", !.slot = Min(heap[p].slots)]
<1>1. /\ \A r \in atOpen : r \in Pages \X {0, 1} /\ owner[r[1]] = "data"
      /\ seen \subseteq Pages \X {0, 1}
      BY DEF Leaving, GInv, Complete
<1>2. \A st, qs : Fail(st, qs) => ret'.failed /\ scan' = st /\ seen' = seen
      BY Answers DEF Fail, Result
<1>3. \/ scan' = t /\ seen' = seen
      \/ /\ scan' = u /\ seen' = seen /\ ret'.failed
         /\ owner[p] = "data" /\ heap[p].slots = {}
      \/ /\ scan' = v /\ seen' = seen \cup {x}
         /\ owner[p] = "data" /\ heap[p].slots # {}
      BY <1>2 DEF EnterPage, Wild, Result, Given
<1>4. heap[p].slots # {} => \A c \in heap[p].slots : ~(c < Min(heap[p].slots))
      BY LeastSlot DEF Leaving, GInv, CInv
<1> HIDE DEF p
<1>5. /\ t.page = "null" /\ ~t.noMore
      /\ u.page = "held" /\ ~u.noMore /\ u.pid = p
      /\ u.dirPid = s.dirPid /\ u.entry = s.entry /\ u.noMore = s.noMore
      /\ v.page = "held" /\ ~v.noMore /\ v.pid = p /\ v.slot = Min(heap[p].slots)
      /\ v.dirPid = s.dirPid /\ v.entry = s.entry /\ v.noMore = s.noMore
      BY DEF Scans
<1> HIDE DEF t, u, v
<1>6. CASE scan' = t /\ seen' = seen
      BY <1>1, <1>5, <1>6 DEF Accounted
<1>7. CASE scan' = u /\ seen' = seen /\ ret'.failed /\ owner[p] = "data" /\ heap[p].slots = {}
  <2>1. Over(u)
        BY <1>5, SameSpot
  <2>2. \A c \in heap[u.pid].slots : ~(c < u.slot)
        BY <1>5, <1>7
  <2>3. GivenBy(u, atOpen, seen, {x}) /\ \A r \in seen : PassedBy(u, r)
        BY <2>1, <2>2, OverGiven DEF Leaving
  <2> QED BY <1>1, <1>5, <1>7, <2>3 DEF Accounted
<1>8. CASE /\ scan' = v /\ seen' = seen \cup {x} /\ owner[p] = "data" /\ heap[p].slots # {}
  <2>1. Over(v)
        BY <1>5, SameSpot
  <2>2. \A c \in heap[v.pid].slots : ~(c < v.slot)
        BY <1>4, <1>5, <1>8
  <2>3. /\ GivenBy(v, atOpen, seen \cup {x}, {}) /\ \A r \in seen \cup {x} : PassedBy(v, r)
        /\ seen \cup {x} \subseteq Pages \X {0, 1}
        BY <2>1, <2>2, OverGiven DEF Leaving
  <2> QED BY <1>1, <1>5, <1>8, <2>3 DEF Accounted
<1> QED BY <1>3, <1>6, <1>7, <1>8

LEMMA LeavePageGiven ==
    ASSUME Leaving, ~scan.noMore, LeavePage, ~undefined'
    PROVE  Accounted(scan', atOpen, seen', ret'.failed)
<1> DEFINE d == scan.dirPid
           s == [scan EXCEPT !.page = "null", !.entry = scan.entry + 1]
           u == [s EXCEPT !.dirPage = "null"]
           x == <<scan.pid, scan.slot>>
<1>1. /\ scan \in Scans /\ IInv /\ Shape(scan) /\ Cursor /\ d \in Pages
      /\ scan.page = "held" /\ scan.entry \in Nat
      /\ \A r \in atOpen : r \in Pages \X {0, 1} /\ owner[r[1]] = "data"
      /\ seen \subseteq Pages \X {0, 1}
      BY DEF Leaving, GInv, CInv, Steady, Lost, Shape, Scans, Complete
<1>2. scan.entry + 1 \in Nat /\ (scan.entry + 1) - 1 = scan.entry
      BY <1>1
<1>3. /\ s \in Scans /\ s.dirPid = d /\ s.entry = scan.entry + 1 /\ s.page = "null" /\ ~s.noMore
      BY <1>1, <1>2 DEF Scans
<1>4. \/ HasInfo(d, scan.entry) /\ \E ps : EnterPage(s, ps)
      \/ ~HasInfo(d, scan.entry) /\ \E ps : EnterDirPage(u, ps)
      BY DEF LeavePage, EntryPast
<1>5. u \in Scans /\ u.page = "null" /\ ~u.noMore
      BY <1>3 DEF Scans
<1> HIDE DEF s, u
<1>6. CASE HasInfo(d, scan.entry) /\ \E ps : EnterPage(s, ps)
  <2>1. Over(s)
        BY <1>1, <1>3, OneEntryOn
  <2>2. InfoPid(s.dirPid, s.entry - 1) \in Pages
        BY <1>1, <1>2, <1>3, <1>6, InfoStands
  <2> QED BY <1>3, <1>6, <2>1, <2>2, EnterPageGiven
<1>7. CASE ~HasInfo(d, scan.entry) /\ \E ps : EnterDirPage(u, ps)
  <2> DEFINE n == NextOf(d)
             t == [u EXCEPT !.noMore = TRUE]
             v == [u EXCEPT !.dirPid = n, !.dirPage = "held", !.entry = 1]
  <2>1. \/ scan' = t /\ n = INVALID_PAGE /\ seen' = seen \cup {x}
        \/ scan' = u /\ seen' = seen
        \/ n # INVALID_PAGE /\ HasInfo(n, 0) /\ \E ps : EnterPage(v, ps)
        BY <1>7 DEF EnterDirPage, Wild, Result, Fail, Given
  <2> HIDE DEF n
  <2>2. CASE scan' = t /\ n = INVALID_PAGE /\ seen' = seen \cup {x}
    <3>1. t.noMore /\ t.page = "null"
          BY <1>5 DEF Scans
    <3> HIDE DEF t
    <3>2. Over(t)
          BY <1>1, <1>7, <2>2, <3>1, OneEntryOn DEF n
    <3>3. GivenBy(t, atOpen, seen \cup {x}, {}) /\ seen \cup {x} \subseteq Pages \X {0, 1}
          BY <3>1, <3>2, OverGiven DEF Leaving
    <3> QED BY <1>1, <2>2, <3>1, <3>3 DEF Accounted
  <2>3. CASE scan' = u /\ seen' = seen
        BY <1>1, <1>5, <2>3 DEF Accounted
  <2>4. CASE n # INVALID_PAGE /\ HasInfo(n, 0) /\ \E ps : EnterPage(v, ps)
    <3>1. n \in Pages
          BY <1>1, <2>4, NextTypes DEF n
    <3>2. v \in Scans /\ v.dirPid = n /\ v.entry = 1 /\ v.page = "null" /\ ~v.noMore
          BY <1>5, <3>1 DEF Scans
    <3> HIDE DEF v
    <3>3. Over(v)
          BY <1>1, <1>7, <2>4, <3>2, OneEntryOn DEF n
    <3>4. v.entry - 1 = 0 /\ 0 \in Nat
          BY <3>2
    <3>5. InfoPid(v.dirPid, v.entry - 1) \in Pages
          BY <1>1, <2>4, <3>1, <3>2, <3>4, InfoStands
    <3> QED BY <2>4, <3>2, <3>3, <3>5, EnterPageGiven
  <2> QED BY <2>1, <2>2, <2>3, <2>4
<1> QED BY <1>4, <1>6, <1>7

LEMMA GetNextGiven == ASSUME GInv, GetNext, ~undefined' PROVE GInv'
<1> DEFINE x == <<scan.pid, scan.slot>>
<1>1. ScanReady /\ CInv' /\ UNCHANGED <<atOpen, past>> /\ scan.open
      BY GetNextComes DEF GetNext, GInv
<1> SUFFICES ASSUME Steady PROVE Accounted(scan', atOpen, seen', ret'.failed)
    BY <1>1, CallGiven DEF Steady
<1>2. IInv /\ Shape(scan) /\ Complete /\ Behindhands
      BY DEF GInv, CInv
<1>3. CASE /\ scan' = scan /\ seen' = seen
           /\ ret.failed => ret'.failed
  <2>1. Accounted(scan, atOpen, seen, ret.failed)
        BY <1>2, IsAccounted
  <2> QED BY <1>3, <2>1 DEF Accounted
<1>4. CASE ~scan.noMore /\ scan.page = "held" /\ scan.slot \in heap[scan.pid].slots
  <2>1. CASE Behind(scan.pid, scan.slot) = {} /\ LeavePage
        BY <1>4, <2>1, LeavePageGiven DEF Leaving
  <2>2. CASE /\ Behind(scan.pid, scan.slot) # {} /\ seen' = seen \cup {x}
             /\ scan' = [scan EXCEPT !.slot = Min(Behind(scan.pid, scan.slot))]
    <3> DEFINE more == Behind(scan.pid, scan.slot)
               t    == [scan EXCEPT !.slot = Min(more)]
    <3>1. /\ scan.pid \in Pages /\ heap[scan.pid].slots \in SUBSET {0, 1}
          /\ more \in SUBSET heap[scan.pid].slots
          BY <1>2, <1>4 DEF Shape, IInv, Types, HeapPages, Behind
    <3>2. Min(more) \in more /\ \A c \in more : ~(c < Min(more))
          BY <1>2, <2>2, <3>1, LeastSlot
    <3>3. PICK n \in Nat : n = Min(more) /\ n > scan.slot
          BY <3>1, <3>2 DEF Behind
    <3>4. /\ scan \in Scans /\ scan.slot \in Nat
          /\ t.slot = n /\ t.dirPid = scan.dirPid /\ t.entry = scan.entry
          /\ t.noMore = scan.noMore /\ t.pid = scan.pid /\ t.page = "held"
          BY <1>2, <1>4, <3>3 DEF Shape, Scans
    <3>5. \A q : PassedPage(t, q) <=> PassedPage(scan, q)
      <4> HIDE DEF t
      <4>1. \A b, j : PassedEntry(t, b, j) <=> PassedEntry(scan, b, j)
            BY <3>4 DEF PassedEntry
      <4> QED BY <4>1 DEF PassedPage
    <3>6. ASSUME NEW c \in heap[scan.pid].slots, c < n PROVE c < scan.slot \/ c = scan.slot
      <4>1. ~(c > scan.slot)
            BY <3>2, <3>3, <3>6 DEF Behind
      <4> QED BY <3>1, <3>4, <3>6, <4>1
    <3>7. GivenBut({})
          BY <1>2, <1>4 DEF Complete, Stuck
    <3> HIDE DEF t, more
    <3>8. GivenBy(t, atOpen, seen \cup {x}, {})
      <4> SUFFICES ASSUME NEW r \in atOpen, r[2] \in heap[r[1]].slots, PassedBy(t, r)
                   PROVE  r \in seen \cup {x}
          BY DEF GivenBy
      <4>1. r = <<r[1], r[2]>>
            BY <1>2 DEF Complete
      <4>2. PassedPage(scan, r[1]) \/ (r[1] = scan.pid /\ (r[2] < scan.slot \/ r[2] = scan.slot))
            BY <3>4, <3>5, <3>6 DEF PassedBy
      <4> QED BY <1>4, <3>7, <4>1, <4>2 DEF GivenBut, PassedBy
    <3>9. \A r \in seen \cup {x} : PassedBy(t, r)
      <4>1. PassedBy(t, x)
            BY <1>4, <3>3, <3>4 DEF PassedBy
      <4>2. ASSUME NEW r \in seen PROVE PassedBy(t, r)
        <5>1. PassedBy(scan, r)
              BY <1>2, <1>4 DEF Behindhands
        <5>2. r[2] \in {0, 1} /\ (r[2] < scan.slot => r[2] < n)
          <6>1. r[2] \in {0, 1}
                BY <1>2 DEF Complete
          <6> QED BY <3>3, <3>4, <6>1
        <5>3. CASE PassedPage(scan, r[1])
              BY <3>5, <5>3 DEF PassedBy
        <5>4. CASE r[1] = scan.pid /\ r[2] < scan.slot /\ ~PassedPage(scan, r[1])
              BY <1>4, <3>3, <3>4, <5>2, <5>4 DEF PassedBy
        <5> QED BY <5>1, <5>3, <5>4 DEF PassedBy
      <4> QED BY <4>1, <4>2
    <3>10. owner[t.pid] = "data" /\ \A r \in atOpen : r \in Pages \X {0, 1} /\ owner[r[1]] = "data"
           BY <1>2, <1>4, <3>4 DEF Complete
    <3>11. scan' = t
           BY <2>2 DEF t, more
    <3>12. seen \cup {x} \subseteq Pages \X {0, 1}
           BY <1>2, <1>4, <3>1 DEF Complete
    <3> QED BY <1>4, <2>2, <3>4, <3>8, <3>9, <3>10, <3>11, <3>12 DEF Accounted
  <2>3. CASE Fail(scan, pins)
        BY <1>3, <2>3, Answers DEF Fail, Result
  <2> QED BY <1>4, <2>1, <2>2, <2>3 DEF GetNext, Wild, Given, Result
<1>5. CASE \/ Result("GetNext", "DONE", scan, pins) /\ UNCHANGED seen
           \/ Fail(scan, pins)
      BY <1>3, <1>5, Answers DEF Result, Fail
<1> QED BY <1>4, <1>5 DEF GetNext, Wild

LEMMA GivenStep == ASSUME GivenInv, OneHandle, [ScanNext]_allVars PROVE GivenInv'
<1> SUFFICES ASSUME ~undefined' PROVE GInv'
    BY DEF GivenInv
<1>1. CASE HeapStep \/ UNCHANGED allVars
  <2>1. Elsewhere
        BY <1>1, StepElsewhere
  <2>2. GInv
        BY <2>1, UndefinedStays DEF Elsewhere, GivenInv
  <2> QED BY <2>1, <2>2, FileGiven
<1>2. CASE OpenScan \/ GetNext \/ CloseScan \/ \E p \in Pages, n \in 0 .. 2 : MoveTo(p, n)
  <2>1. ScanReady
        BY <1>2 DEF OpenScan, GetNext, CloseScan, MoveTo
  <2>2. GInv /\ CInv
        BY <2>1 DEF ScanReady, GivenInv, GInv
  <2>3. CASE OpenScan \/ GetNext
        BY <2>2, <2>3, OpenScanGiven, GetNextGiven
  <2>4. CASE CloseScan
    <3>1. scan' = NoScan /\ CInv'
          BY <2>2, <2>4, CloseScanComes DEF CloseScan
    <3>2. ~Steady'
          BY <3>1 DEF Steady, NoScan
    <3> QED BY <2>1, <2>2, <3>1, <3>2, CallGiven
  <2>5. CASE \E p \in Pages, n \in 0 .. 2 : MoveTo(p, n)
    <3>1. CInv' /\ past' # "steady"
          BY <2>2, <2>5, MoveToComes DEF MoveTo
    <3>2. ~Steady'
          BY <3>1 DEF Steady
    <3> QED BY <2>1, <2>2, <3>1, <3>2, CallGiven
  <2> QED BY <1>2, <2>3, <2>4, <2>5
<1> QED BY <1>1, <1>2 DEF ScanNext

LEMMA InitGiven == ScanInit => GivenInv
<1> SUFFICES ASSUME ScanInit PROVE GivenInv
    OBVIOUS
<1>1. IInv /\ AgreementInv
      BY InitInvariant, InitAgrees DEF ScanInit
<1>2. Shape(scan) /\ Cursor /\ ~Steady
      BY DEF ScanInit, Shape, Cursor, NoScan, Scans, Steady
<1>3. Filled
      BY EmptySeq DEF ScanInit, Init, Filled
<1> QED BY <1>1, <1>2, <1>3 DEF GivenInv, GInv, CInv, AgreementInv

LEMMA RecordsOfAre ==
    ASSUME NEW d, NEW n, NEW r \in RecordsOf(d, n)
    PROVE  \E i \in 1 .. n : r[1] = entries[d][i].pid /\ r[2] \in heap[r[1]].slots
<1>1. PICK i \in 1 .. n : r \in PageRecords(entries[d][i].pid)
      BY DEF RecordsOf
<1>2. PICK p : p = entries[d][i].pid
      OBVIOUS
<1>3. PICK s \in heap[p].slots : r = <<p, s>>
      BY <1>1, <1>2 DEF PageRecords
<1> QED BY <1>2, <1>3

LEMMA PassedIs ==
    ASSUME CInv, Steady, scan.page = "held" \/ scan.noMore,
           scan.page = "held" => ~scan.noMore, NEW r \in Passed
    PROVE  r[2] \in heap[r[1]].slots /\ PassedBy(scan, r)
<1> DEFINE I == {i \in 1 .. Len(chain) : chain[i] = scan.dirPid}
           k == SelectInSeq(chain, LAMBDA d : d = scan.dirPid)
<1>1. IInv /\ Cursor /\ Shape(scan)
      BY DEF CInv, Steady, Lost
<1>2. CASE scan.noMore
  <2>1. r \in Records
        BY <1>2 DEF Passed
  <2> QED BY <1>1, <1>2, <2>1, RecordsAre DEF PassedBy, PassedPage, PassedEntry
<1>3. CASE scan.page = "held"
  <2>1. /\ ~scan.noMore /\ scan.dirPid \in Pages /\ IsEntry(scan.dirPid, scan.entry)
        /\ scan.entry \in Nat
        BY <1>1, <1>3 DEF Cursor, Stands, Shape, Scans
  <2>2. Len(chain) \in Nat /\ \A i \in 1 .. Len(chain) : chain[i] \in Pages
        BY <1>1, InvTypes
  <2>3. k = IF I # {} THEN Min(I) ELSE 0
        BY DEF SelectInSeq
  <2>4. I \in SUBSET (1 .. Len(chain)) /\ I # {} /\ \A i \in I : chain[i] = scan.dirPid
        BY <2>1 DEF IsEntry, InChain
  <2>5. \/ \E i \in 1 .. k - 1 : r \in RecordsOf(chain[i], Len(entries[chain[i]]))
        \/ r \in RecordsOf(scan.dirPid, scan.entry - 1)
        \/ \E s \in heap[scan.pid].slots : s < scan.slot /\ r = <<scan.pid, s>>
    <3> DEFINE A == UNION {RecordsOf(chain[i], Len(entries[chain[i]])) : i \in 1 .. k - 1}
               B == RecordsOf(scan.dirPid, scan.entry - 1)
               C == {<<scan.pid, s>> : s \in {t \in heap[scan.pid].slots : t < scan.slot}}
    <3>1. Passed = A \cup B \cup C
          BY <2>1 DEF Passed
    <3> HIDE DEF k
    <3>2. r \in A => \E i \in 1 .. k - 1 : r \in RecordsOf(chain[i], Len(entries[chain[i]]))
          OBVIOUS
    <3>3. r \in C => \E s \in heap[scan.pid].slots : s < scan.slot /\ r = <<scan.pid, s>>
          OBVIOUS
    <3> QED BY <3>1, <3>2, <3>3
  <2> HIDE DEF I, k
  <2>6. k \in I /\ k \in 1 .. Len(chain) /\ chain[k] = scan.dirPid
        BY <2>2, <2>3, <2>4, FirstIndex
  <2>7. ASSUME NEW i \in 1 .. k - 1, r \in RecordsOf(chain[i], Len(entries[chain[i]]))
        PROVE  r[2] \in heap[r[1]].slots /\ PassedBy(scan, r)
    <3>1. i \in 1 .. Len(chain) /\ i < k /\ chain[i] \in Pages
          BY <2>2, <2>6
    <3>2. PICK j \in 1 .. Len(entries[chain[i]]) :
             r[1] = entries[chain[i]][j].pid /\ r[2] \in heap[r[1]].slots
          BY <2>7, RecordsOfAre
    <3>3. j \in Nat /\ IsEntry(chain[i], j)
          BY <1>1, <3>1, <3>2, EntryTypes DEF IInv, IsEntry, InChain
    <3>4. PassedEntry(scan, chain[i], j)
          BY <2>6, <3>1, <3>3 DEF PassedEntry
    <3> QED BY <3>1, <3>2, <3>3, <3>4 DEF PassedBy, PassedPage
  <2>8. CASE r \in RecordsOf(scan.dirPid, scan.entry - 1)
    <3>1. PICK j \in 1 .. scan.entry - 1 :
             r[1] = entries[scan.dirPid][j].pid /\ r[2] \in heap[r[1]].slots
          BY <2>8, RecordsOfAre
    <3>2. Len(entries[scan.dirPid]) \in Nat
          BY <1>1, <2>1, EntryTypes DEF IInv
    <3>3. j \in Nat /\ j < scan.entry /\ j \in 1 .. Len(entries[scan.dirPid])
          BY <2>1, <3>1, <3>2 DEF IsEntry
    <3>4. PassedEntry(scan, scan.dirPid, j)
          BY <2>1, <2>6, <3>3 DEF PassedEntry, IsEntry
    <3> QED BY <2>1, <3>1, <3>3, <3>4 DEF PassedBy, PassedPage
  <2>9. CASE \E s \in heap[scan.pid].slots : s < scan.slot /\ r = <<scan.pid, s>>
        BY <2>1, <2>9 DEF PassedBy
  <2> QED BY <2>5, <2>7, <2>8, <2>9
<1> QED BY <1>2, <1>3

\* Until a page of the file is freed under the scan, it skips no record that was there when it
\* was opened and still is, but one that a GetNext had copied before it failed, whatever is
\* inserted, deleted or fails between its calls.
THEOREM NoneSkipped == OneHandle /\ ScanSpec => []NothingSkipped
<1>1. ScanInit => GivenInv
      BY InitGiven
<1>2. OneHandle /\ GivenInv /\ [ScanNext]_allVars => GivenInv'
      BY GivenStep
<1>3. OneHandle /\ [ScanNext]_allVars => OneHandle'
      BY DEF OneHandle
<1>4. ASSUME GivenInv PROVE NothingSkipped
  <2> DEFINE lost == (Passed \cap atOpen) \ seen
  <2> SUFFICES ASSUME scan.open, past = "steady", ~undefined, scan.page = "held" \/ scan.noMore
               PROVE  Cardinality(lost) <= 1 /\ (~ret.failed => lost = {})
      BY DEF NothingSkipped
  <2>1. CInv /\ Steady /\ Complete
        BY <1>4 DEF GivenInv, GInv, Steady
  <2>2. \A r \in Passed : r[2] \in heap[r[1]].slots /\ PassedBy(scan, r)
        BY <2>1, PassedIs DEF Complete
  <2>3. ASSUME NEW X, GivenBut(X) PROVE lost \subseteq X
        BY <2>2, <2>3 DEF GivenBut
  <2>4. \/ lost = {}
        \/ ret.failed /\ \E x : lost \subseteq {x}
        BY <2>1, <2>3 DEF Complete
  <2> HIDE DEF lost
  <2>5. \A x : lost \subseteq {x} => lost = {} \/ lost = {x}
        OBVIOUS
  <2>6. Cardinality({}) = 0 /\ \A x : Cardinality({x}) = 1
        BY FS_EmptySet, FS_Singleton
  <2>7. Cardinality(lost) = 0 \/ Cardinality(lost) = 1
        BY <2>4, <2>5, <2>6
  <2> QED BY <2>4, <2>7
<1> QED BY <1>1, <1>2, <1>3, <1>4, PTL DEF ScanSpec

\* The record that a scan stands on is not one that it has given.
LEMMA StandsOnNew ==
    ASSUME GInv, Steady, ~freed, scan.page = "held" PROVE <<scan.pid, scan.slot>> \notin seen
<1> SUFFICES ASSUME PassedBy(scan, <<scan.pid, scan.slot>>) PROVE FALSE
    BY DEF GInv, Behindhands
<1>1. /\ Agreed /\ IInv /\ IsEntry(scan.dirPid, scan.entry) /\ scan.dirPid \in Pages
      /\ scan.entry \in Nat /\ scan.slot \in Nat /\ ~scan.noMore
      /\ entries[scan.dirPid][scan.entry].pid = scan.pid
      BY DEF GInv, CInv, Agreement, Cursor, Stands, Steady, Lost, Shape, Scans, Complete
<1>2. PassedPage(scan, scan.pid)
  <2>1. ~(scan.slot < scan.slot)
        BY <1>1
  <2> QED BY <2>1 DEF PassedBy
<1>3. PICK d \in Pages, j \in Nat : PassedEntry(scan, d, j) /\ entries[d][j].pid = scan.pid
      BY <1>2 DEF PassedPage
<1>4. d = scan.dirPid /\ j = scan.entry
      BY <1>1, <1>3 DEF Agreed, PassedEntry
<1>5. PICK k, m \in 1 .. Len(chain) : /\ chain[k] = scan.dirPid /\ chain[m] = d
                                      /\ m < k \/ (m = k /\ j < scan.entry)
      BY <1>1, <1>3 DEF PassedEntry
<1>6. k = m
      BY <1>1, <1>4, <1>5 DEF IInv, DirInv
<1> QED BY <1>1, <1>4, <1>5, <1>6

\* While no data page has been freed, GetNext gives no record that it has given already, whatever
\* is inserted or deleted between its calls.
THEOREM NoneTwice == OneHandle /\ ScanSpec => NoRecordTwice
<1> DEFINE A == ret'.call = "GetNext" /\ ret'.status = "OK" /\ scan' # scan /\ scan'.open
                /\ past = "steady" /\ ~freed => <<scan.pid, scan.slot>> \notin seen
<1>1. ScanInit => GivenInv
      BY InitGiven
<1>2. OneHandle /\ GivenInv /\ [ScanNext]_allVars => GivenInv'
      BY GivenStep
<1>3. OneHandle /\ [ScanNext]_allVars => OneHandle'
      BY DEF OneHandle
<1>4. ASSUME GivenInv, [ScanNext]_allVars PROVE [A]_allVars
  <2> SUFFICES ASSUME ScanNext, ret'.call = "GetNext", scan' # scan, scan'.open,
                      past = "steady", ~freed
               PROVE  <<scan.pid, scan.slot>> \notin seen
      BY <1>4
  <2>1. CASE GetNext
    <3>1. GInv /\ Steady /\ scan.page = "held"
          BY <1>4, <2>1 DEF GetNext, ScanReady, GivenInv, Steady, Result, Wild
    <3> QED BY <3>1, StandsOnNew
  <2>2. ~HeapStep /\ ~CloseScan
        BY DEF HeapStep, CloseScan, NoScan
  <2>3. ~OpenScan
        BY DEF OpenScan, Result, Answer
  <2>4. \A p \in Pages, n \in 0 .. 2 : ~MoveTo(p, n)
        BY DEF MoveTo, Found, Result, Answer
  <2> QED BY <2>1, <2>2, <2>3, <2>4 DEF ScanNext
<1> QED BY <1>1, <1>2, <1>3, <1>4, PTL DEF ScanSpec, NoRecordTwice
=============================================================================
