------------------------ MODULE FileDirectory_proofs ------------------------
(***************************************************************************)
(* Proofs about FileDirectory, for any number of names, header pages and   *)
(* entries, any content of the file and any number of refused pins: the    *)
(* chain, the pins, the entries, that callers see a NameTable, and which   *)
(* walks have no end.                                                      *)
(***************************************************************************)
EXTENDS FileDirectory, Indices, SequenceTheorems, TLAPS

-----------------------------------------------------------------------------
(* The inductive invariant *)

Entry   == [pagenum : StartPages, fname : Names \cup {""}]
Places(p) == 1 .. NumEntries(p)
Filled  == Written \ dangling

Types ==
    /\ next \in [HeaderPages -> HeaderPages \cup {INVALID_PAGE}]
    /\ entries \in [HeaderPages -> Seq(Entry)]
    /\ \A p \in Filled : entries[p] \in [Places(p) -> Entry]
    /\ \A p \in HeaderPages \ Filled : entries[p] = << >>
    /\ allocated \subseteq FreePages
    /\ uninit \subseteq allocated
    /\ pc \in {"idle", "enter", "get", "delete", "free", "new", "undefined"}
    /\ name \in Names /\ page \in StartPages /\ result \in StartPages
    /\ unsure \in BOOLEAN /\ refusals \in 0 .. MaxRefusals

\* A walk is on a page of the chain and pins no other; a page that is not yet
\* in the chain, or is not initialised, reads as the file is blank.
WalkInv ==
    /\ at \in Linked
    /\ pinned \subseteq {at}
    /\ pc \in {"idle", "enter", "new"} => pinned = {}
    /\ pc = "new" => at \in allocated /\ at \notin uninit
    /\ dangling \subseteq Written
    /\ \A p \in HeaderPages \ Written : next[p] = Blank

ChainInv == Types /\ WalkInv /\ OneChain

-----------------------------------------------------------------------------
(* The entries of a header page *)

LEMMA NumEntriesType ==
    /\ \A p : NumEntries(p) \in Nat \ {0} /\ NumEntries(p) <= FirstEntries + MoreEntries
    /\ FreePages \subseteq Nat \ {0} /\ HeaderPages \subseteq Nat
    /\ 0 \notin FreePages /\ INVALID_PAGE \notin HeaderPages
    /\ Blank # INVALID_PAGE
BY DirectoryAssumption DEF NumEntries, HeaderPages, INVALID_PAGE, Blank

LEMMA InvTypes ==
    ASSUME ChainInv
    PROVE  /\ Linked \subseteq HeaderPages /\ at \in HeaderPages
           /\ 0 \in Linked /\ 0 \in Written /\ Written \subseteq Linked
           /\ uninit \subseteq Linked /\ dangling \subseteq HeaderPages
           /\ name \in Names /\ page \in StartPages /\ result \in StartPages
           /\ unsure \in BOOLEAN /\ refusals \in 0 .. MaxRefusals
           /\ refusals < MaxRefusals => refusals + 1 \in 0 .. MaxRefusals
           /\ pinned \subseteq {at}
<1>1. 0 \notin allocated /\ allocated \subseteq HeaderPages
      BY NumEntriesType DEF ChainInv, Types, HeaderPages
<1>2. /\ Linked \subseteq HeaderPages /\ at \in HeaderPages
      /\ 0 \in Linked /\ 0 \in Written /\ Written \subseteq Linked
      /\ uninit \subseteq Linked /\ dangling \subseteq HeaderPages
      BY <1>1 DEF ChainInv, Types, WalkInv, Linked, Written, Unwritten, HeaderPages
<1>3. refusals < MaxRefusals => refusals + 1 \in 0 .. MaxRefusals
      BY DirectoryAssumption DEF ChainInv, Types
<1> QED BY <1>2, <1>3 DEF ChainInv, Types, WalkInv

\* Where an entry may be, and what is there.
Spots == HeaderPages \X (1 .. FirstEntries + MoreEntries)
IsLive(p, e) == e \in 1 .. Len(entries[p]) /\ Live(entries[p][e])

EntriesFit ==
    \A p \in HeaderPages : entries[p] \in Seq(Entry) /\ Len(entries[p]) <= NumEntries(p)

LiveFacts ==
    /\ \A p \in HeaderPages : \A e : <<p, e>> \in LiveEntries <=> IsLive(p, e)
    /\ \A x \in LiveEntries : /\ x = <<x[1], x[2]>> /\ x[1] \in HeaderPages
                              /\ IsLive(x[1], x[2])

LEMMA EntriesDo ==
    ASSUME Types
    PROVE  /\ EntriesFit
           /\ \A p \in Filled : Len(entries[p]) = NumEntries(p)
           /\ \A p \in HeaderPages \ Filled : Len(entries[p]) = 0
<1>1. \A p \in Filled : Len(entries[p]) = NumEntries(p)
      BY IsSequence, NumEntriesType DEF Types, Places
<1>2. \A p \in HeaderPages \ Filled : Len(entries[p]) = 0
      BY DEF Types
<1>3. ASSUME NEW p \in HeaderPages
      PROVE  entries[p] \in Seq(Entry) /\ Len(entries[p]) <= NumEntries(p)
  <2>1. entries[p] \in Seq(Entry)
        BY DEF Types
  <2>2. Len(entries[p]) = NumEntries(p) \/ Len(entries[p]) = 0
        BY <1>1, <1>2
  <2> QED BY <2>1, <2>2, NumEntriesType
<1> QED BY <1>1, <1>2, <1>3 DEF EntriesFit

LEMMA LiveIs == EntriesFit => LiveFacts
<1> SUFFICES ASSUME EntriesFit PROVE LiveFacts
    OBVIOUS
<1>1. ASSUME NEW p \in HeaderPages, NEW e
      PROVE  <<p, e>> \in LiveEntries <=> IsLive(p, e)
  <2>1. /\ Len(entries[p]) \in Nat /\ Len(entries[p]) <= NumEntries(p)
        /\ NumEntries(p) \in Nat /\ NumEntries(p) <= FirstEntries + MoreEntries
        /\ FirstEntries + MoreEntries \in Nat
        BY NumEntriesType, DirectoryAssumption DEF EntriesFit
  <2>2. <<p, e>> \in LiveEntries <=>
           /\ e \in 1 .. FirstEntries + MoreEntries /\ e <= Len(entries[p])
           /\ Live(entries[p][e])
        BY DEF LiveEntries
  <2>3. e \in 1 .. FirstEntries + MoreEntries /\ e <= Len(entries[p])
           <=> e \in 1 .. Len(entries[p])
    <3> DEFINE l == Len(entries[p])
               n == NumEntries(p)
               f == FirstEntries + MoreEntries
    <3> HIDE DEF l, n, f
    <3>1. \A i \in Nat : i \in 1 .. f /\ i <= l <=> i \in 1 .. l
          BY <2>1 DEF l, n, f
    <3>2. (e \in 1 .. f => e \in Nat) /\ (e \in 1 .. l => e \in Nat)
          OBVIOUS
    <3> QED BY <3>1, <3>2 DEF l, f
  <2> QED BY <2>2, <2>3 DEF IsLive
<1>2. ASSUME NEW x \in LiveEntries
      PROVE  x = <<x[1], x[2]>> /\ x[1] \in HeaderPages /\ IsLive(x[1], x[2])
  <2>1. x = <<x[1], x[2]>> /\ x[1] \in HeaderPages
        BY DEF LiveEntries
  <2> QED BY <1>1, <2>1
<1> QED BY <1>1, <1>2 DEF LiveFacts

LEMMA SlotFound ==
    ASSUME Types, NEW p \in HeaderPages, NEW n
    PROVE  /\ SlotOf(p, n) # 0 => /\ IsLive(p, SlotOf(p, n)) /\ p \in Filled
                                  /\ entries[p][SlotOf(p, n)].fname = n
           /\ SlotOf(p, n) = 0 =>
                 \A e : IsLive(p, e) => entries[p][e].fname # n
<1> DEFINE J == 1 .. Len(entries[p])
           I == {e \in J : Live(entries[p][e]) /\ entries[p][e].fname = n}
<1>1. Len(entries[p]) \in Nat
      BY EntriesDo DEF EntriesFit
<1>2. SlotOf(p, n) = IF I # {} THEN CHOOSE x \in I : \A y \in I : x <= y ELSE 0
      BY <1>1 DEF SlotOf, SelectInSeq, Min
<1>3. I # {} => \E x \in I : \A y \in I : x <= y
  <2>1. I \in SUBSET Nat
        BY <1>1
  <2> QED BY <2>1, LeastNumber
<1>4. I # {} => SlotOf(p, n) \in I
      BY <1>2, <1>3
<1>5. 0 \notin I
      OBVIOUS
<1>6. p \notin Filled => I = {}
      BY EntriesDo
<1> QED BY <1>2, <1>4, <1>5, <1>6 DEF IsLive

LEMMA FreeSlotFound ==
    ASSUME Types, NEW p \in HeaderPages
    PROVE  FreeSlot(p) # 0 => /\ FreeSlot(p) \in Places(p) /\ p \in Filled
                              /\ ~Live(entries[p][FreeSlot(p)])
<1> DEFINE J == 1 .. Len(entries[p])
           I == {e \in J : ~Live(entries[p][e])}
<1>1. Len(entries[p]) \in Nat
      BY EntriesDo DEF EntriesFit
<1>2. FreeSlot(p) = IF I # {} THEN CHOOSE x \in I : \A y \in I : x <= y ELSE 0
      BY <1>1 DEF FreeSlot, SelectInSeq, Min
<1>3. I # {} => \E x \in I : \A y \in I : x <= y
  <2>1. I \in SUBSET Nat
        BY <1>1
  <2> QED BY <2>1, LeastNumber
<1>4. p \notin Filled => I = {}
      BY EntriesDo
<1>5. p \in Filled => J = Places(p)
      BY EntriesDo DEF Places
<1> QED BY <1>2, <1>3, <1>4, <1>5

\* AllocatePage gives a page that is not a header page yet.
LEMMA PageIsNew ==
    ASSUME Types, FreePages \ allocated # {}
    PROVE  NewPage \in FreePages \ allocated
<1>1. FreePages \ allocated \in SUBSET Nat
      BY NumEntriesType
<1>2. \E x \in FreePages \ allocated : \A y \in FreePages \ allocated : x <= y
      BY <1>1, LeastNumber
<1> QED BY <1>2 DEF NewPage, Min

LEMMA EntryChanged ==
    ASSUME Types, NEW p \in HeaderPages, NEW new \in [Places(p) -> Entry],
           entries' = [entries EXCEPT ![p] = new]
    PROVE  /\ entries' \in [HeaderPages -> Seq(Entry)]
           /\ entries'[p] = new /\ Len(new) = NumEntries(p)
           /\ \A q \in HeaderPages \ {p} : entries'[q] = entries[q]
           /\ LiveFacts'
<1>1. new \in Seq(Entry) /\ Len(new) = NumEntries(p)
      BY IsSequence, NumEntriesType DEF Places
<1>2. /\ entries' \in [HeaderPages -> Seq(Entry)]
      /\ entries'[p] = new
      /\ \A q \in HeaderPages \ {p} : entries'[q] = entries[q]
      BY <1>1 DEF Types
<1>3. EntriesFit'
  <2> SUFFICES ASSUME NEW q \in HeaderPages
               PROVE  entries'[q] \in Seq(Entry) /\ Len(entries'[q]) <= NumEntries(q)
      BY DEF EntriesFit, NumEntries, HeaderPages
  <2>1. CASE q = p
        BY <1>1, <1>2, <2>1, NumEntriesType
  <2>2. CASE q # p
        BY <1>2, <2>2, EntriesDo DEF EntriesFit
  <2> QED BY <2>1, <2>2
<1>4. LiveFacts'
      BY <1>3, LiveIs, PTL
<1> QED BY <1>1, <1>2, <1>4

-----------------------------------------------------------------------------
(* The steps *)

LEMMA Returns ==
    ASSUME ChainInv, NEW s, Return(s)
    PROVE  /\ pc' = "idle" /\ at' = 0 /\ pinned' = {} /\ status' = s
           /\ name' \in Names /\ page' \in StartPages
BY DirectoryAssumption DEF ChainInv, WalkInv, Return, NoCall, Unpin, AnyName

LEMMA Starts ==
    ASSUME ChainInv, NEW w, StartWalk(w)
    PROVE  /\ pc' = w /\ at' = 0 /\ pinned' = {}
           /\ UNCHANGED <<status, name, page>>
BY DEF ChainInv, WalkInv, StartWalk, Unpin, args

\* A page that is linked leads to a page that is linked, if to any.
LEMMA LinksStay ==
    ASSUME ChainInv, NEW p \in Linked, next[p] # INVALID_PAGE
    PROVE  next[p] \in Linked /\ (p \in Written => next[p] \in allocated)
<1>1. CASE p \in Written
      BY <1>1 DEF ChainInv, OneChain, Linked
<1>2. CASE p \notin Written
      BY <1>2, InvTypes DEF ChainInv, WalkInv, Linked, Blank
<1> QED BY <1>1, <1>2

LEMMA Goes ==
    ASSUME ChainInv, GoOn, ~LastPage
    PROVE  /\ pc' = pc /\ at' = next[at] /\ pinned' = {} /\ at' \in Linked
           /\ UNCHANGED <<status, name, page>>
<1>1. at \in Linked /\ next[at] \in Linked
      BY LinksStay DEF ChainInv, WalkInv, LastPage
<1> QED BY <1>1 DEF ChainInv, WalkInv, GoOn, Unpin, args

\* A page is the last only if it is initialised.
LEMMA LastIsWritten ==
    ASSUME ChainInv, LastPage PROVE at \in Written
BY InvTypes, NumEntriesType DEF ChainInv, WalkInv, LastPage

\* The header pages that are initialised, after a step of a call.
LEMMA WrittenStays ==
    ASSUME pc # "new", pc' # "new", UNCHANGED <<allocated, uninit>>
    PROVE  Written' = Written /\ Linked' = Linked
BY DEF Written, Unwritten, Linked

LEMMA ChainStays ==
    ASSUME OneChain, UNCHANGED <<next, allocated>>, Written' = Written PROVE OneChain'
BY DEF OneChain

\* A step that leaves the header pages alone.
LEMMA TableStays ==
    ASSUME ChainInv, UNCHANGED table, dangling' = dangling, pc # "new",
           pc' \in {"idle", "enter", "get", "delete", "free", "undefined"},
           at' \in Linked, pinned' \subseteq {at'},
           pc' \in {"idle", "enter"} => pinned' = {},
           name' \in Names, page' \in StartPages, result' \in StartPages,
           unsure' \in BOOLEAN, refusals' \in 0 .. MaxRefusals
    PROVE  ChainInv'
<1>1. UNCHANGED <<next, entries, allocated, uninit>>
      BY DEF table
<1>2. Written' = Written /\ Linked' = Linked /\ Filled' = Filled
  <2>1. pc' # "new"
        OBVIOUS
  <2> QED BY <1>1, <2>1, WrittenStays DEF Filled
<1>3. Types'
      BY <1>1, <1>2 DEF ChainInv, Types
<1>4. WalkInv'
      BY <1>1, <1>2 DEF ChainInv, WalkInv
<1>5. OneChain'
      BY <1>1, <1>2, ChainStays DEF ChainInv
<1> QED BY <1>3, <1>4, <1>5 DEF ChainInv

LEMMA CallKeeps ==
    ASSUME ChainInv, NEW o, NEW n \in Names, NEW p \in StartPages, Call(o, n, p)
    PROVE  ChainInv'
<1>1. /\ pc' = "enter" /\ pc = "idle" /\ at' = at /\ pinned' = {}
      /\ name' = n /\ page' = p /\ result' \in StartPages
      BY DirectoryAssumption DEF Call, ChainInv, WalkInv
<1>2. /\ UNCHANGED table
      /\ UNCHANGED <<dangling, refusals, unsure>>
      BY DEF Call
<1> QED BY <1>1, <1>2, InvTypes, TableStays DEF ChainInv, WalkInv

LEMMA EnterKeeps == ASSUME ChainInv, Enter PROVE ChainInv'
<1>1. /\ UNCHANGED table /\ pc = "enter"
      /\ UNCHANGED <<dangling, result, refusals, unsure>>
      BY DEF Enter
<1>2. /\ pc' \in {"idle", "get", "delete"} /\ at' = 0 /\ pinned' = {}
      /\ name' \in Names /\ page' \in StartPages
      BY Returns, Starts, InvTypes DEF Enter
<1> QED BY <1>1, <1>2, InvTypes, TableStays

LEMMA PinHeaderKeeps == ASSUME ChainInv, PinHeader PROVE ChainInv'
<1>1. /\ UNCHANGED table /\ pc \in {"get", "delete", "free"} /\ pc' = pc /\ at' = at
      /\ UNCHANGED <<dangling, name, page, result, refusals, unsure>>
      /\ pinned' = pinned \cup {at}
      BY DEF PinHeader, args
<1> QED BY <1>1, InvTypes, TableStays DEF ChainInv, WalkInv

LEMMA PinRefusedKeeps == ASSUME ChainInv, PinRefused PROVE ChainInv'
<1>1. /\ UNCHANGED table /\ pc \in {"get", "delete", "free"}
      /\ refusals < MaxRefusals /\ refusals' = refusals + 1
      /\ UNCHANGED <<dangling, result>>
      BY DEF PinRefused
<1>2. /\ pc' \in {"idle", "free"} /\ at' = 0 /\ pinned' = {}
      /\ name' \in Names /\ page' \in StartPages /\ unsure' \in BOOLEAN
      BY Returns, Starts, InvTypes DEF PinRefused
<1> QED BY <1>1, <1>2, InvTypes, TableStays

LEMMA GetVisitKeeps == ASSUME ChainInv, GetVisit PROVE ChainInv'
<1> DEFINE e == SlotOf(at, name)
<1>1. /\ UNCHANGED table /\ pc = "get"
      /\ UNCHANGED <<dangling, refusals, unsure>>
      BY DEF GetVisit
<1>2. e # 0 => entries[at][e].pagenum \in StartPages
  <2>1. e # 0 => e \in 1 .. Len(entries[at])
        BY SlotFound, InvTypes DEF ChainInv, IsLive
  <2>2. entries[at] \in Seq(Entry)
        BY InvTypes DEF ChainInv, Types
  <2>3. e # 0 => entries[at][e] \in Entry
    <3> HIDE DEF e
    <3> QED BY <2>1, <2>2, ElementOfSeq
  <2> QED BY <2>3 DEF Entry
<1>3. result' \in StartPages
      BY <1>2, InvTypes DEF GetVisit
<1>4. /\ pc' \in {"idle", "get", "free"} /\ at' \in Linked /\ pinned' = {}
      /\ name' \in Names /\ page' \in StartPages
      BY <1>1, Returns, Starts, Goes, InvTypes DEF GetVisit
<1> QED BY <1>1, <1>3, <1>4, InvTypes, TableStays

LEMMA NoNewPageKeeps == ASSUME ChainInv, NoNewPage PROVE ChainInv'
<1>1. /\ UNCHANGED table /\ pc = "free"
      /\ UNCHANGED <<dangling, result, unsure>>
      BY DEF NoNewPage
<1>2. /\ pc' = "idle" /\ at' = 0 /\ pinned' = {}
      /\ name' \in Names /\ page' \in StartPages
      /\ refusals' \in 0 .. MaxRefusals
      BY Returns, InvTypes DEF NoNewPage
<1> QED BY <1>1, <1>2, InvTypes, TableStays

LEMMA ReadGarbageKeeps == ASSUME ChainInv, ReadGarbage PROVE ChainInv'
<1>1. /\ UNCHANGED table /\ pc \in {"get", "delete", "free"} /\ pc' = "undefined"
      /\ UNCHANGED <<dangling, at, pinned, name, page, result, refusals, unsure>>
      BY DEF ReadGarbage, args
<1> QED BY <1>1, InvTypes, TableStays DEF ChainInv, WalkInv

LEMMA ReopenKeeps == ASSUME ChainInv, Reopen PROVE ChainInv'
<1>1. /\ pc = "idle" /\ UNCHANGED <<next, allocated, uninit, pc, at, pinned>>
      /\ UNCHANGED <<name, page, result, refusals, unsure>>
      /\ entries' = [p \in HeaderPages |-> << >>]
      /\ dangling' = Linked \ uninit
      BY DEF Reopen, args, Linked
<1>2. Written' = Written /\ Linked' = Linked /\ Written = Linked \ uninit
      BY <1>1, WrittenStays DEF Written, Unwritten
<1>3. Filled' = {}
      BY <1>1, <1>2 DEF Filled
<1>4. entries' \in [HeaderPages -> Seq(Entry)]
      BY <1>1
<1>5. Types'
      BY <1>1, <1>3, <1>4 DEF ChainInv, Types
<1>6. WalkInv'
      BY <1>1, <1>2 DEF ChainInv, WalkInv
<1> QED BY <1>1, <1>2, <1>5, <1>6, ChainStays DEF ChainInv

-----------------------------------------------------------------------------
(* The steps that change entries or the chain *)

\* The entry at a place after the step.
After(x) == entries'[x[1]][x[2]]

\* A name's entry goes, and no other.
Removes(x) ==
    /\ x \in LiveEntries /\ EntryAt(x).fname = name
    /\ LiveEntries' = LiveEntries \ {x}
    /\ \A y \in LiveEntries \ {x} : After(y) = EntryAt(y)

LEMMA Deletes ==
    ASSUME ChainInv, DeleteVisit, SlotOf(at, name) # 0
    PROVE  /\ entries' \in [HeaderPages -> Seq(Entry)] /\ at \in Filled
           /\ entries'[at] \in [Places(at) -> Entry]
           /\ \A q \in HeaderPages \ {at} : entries'[q] = entries[q]
           /\ Removes(<<at, SlotOf(at, name)>>)
           /\ Return("OK")
<1> DEFINE e == SlotOf(at, name)
           new == [entries[at] EXCEPT ![e] = [entries[at][e] EXCEPT !.pagenum = INVALID_PAGE]]
<1>1. at \in HeaderPages /\ Types
      BY InvTypes DEF ChainInv
<1>2. /\ IsLive(at, e) /\ at \in Filled /\ entries[at][e].fname = name
      BY <1>1, SlotFound
<1>3. entries' = [entries EXCEPT ![at] = new] /\ Return("OK")
      BY DEF DeleteVisit
<1> HIDE DEF e
<1>4. /\ Len(entries[at]) = NumEntries(at) /\ e \in Places(at)
      /\ entries[at] \in [Places(at) -> Entry] /\ entries[at][e] \in Entry
      BY <1>1, <1>2, EntriesDo DEF Types, Places, IsLive
<1>5. [entries[at][e] EXCEPT !.pagenum = INVALID_PAGE] \in Entry
      BY <1>4, DirectoryAssumption DEF Entry
<1>6. /\ new \in [Places(at) -> Entry]
      /\ new[e].pagenum = INVALID_PAGE
      /\ \A i \in Places(at) \ {e} : new[i] = entries[at][i]
      BY <1>2, <1>4, <1>5 DEF Entry
<1> HIDE DEF new
<1>7. /\ entries' \in [HeaderPages -> Seq(Entry)]
      /\ entries'[at] = new /\ Len(new) = NumEntries(at)
      /\ \A q \in HeaderPages \ {at} : entries'[q] = entries[q]
      /\ LiveFacts'
      BY <1>1, <1>3, <1>6, EntryChanged
<1>8. LiveFacts
      BY <1>1, EntriesDo, LiveIs
<1>9. ASSUME NEW p \in HeaderPages, NEW i
      PROVE  /\ IsLive(p, i)' <=> IsLive(p, i) /\ (p # at \/ i # e)
             /\ IsLive(p, i) /\ (p # at \/ i # e) => entries'[p][i] = entries[p][i]
  <2>1. CASE p # at
        BY <1>7, <2>1 DEF IsLive
  <2>2. CASE p = at /\ i = e
        BY <1>6, <1>7, <2>2 DEF IsLive, Live
  <2>3. CASE p = at /\ i # e
    <3>1. 1 .. Len(entries[at]) = Places(at) /\ 1 .. Len(entries'[at]) = Places(at)
          BY <1>4, <1>7 DEF Places
    <3> QED BY <1>6, <1>7, <2>3, <3>1 DEF IsLive
  <2> QED BY <2>1, <2>2, <2>3
<1> DEFINE x == <<at, e>>
<1>10. x \in LiveEntries /\ EntryAt(x).fname = name /\ x[1] = at /\ x[2] = e
       BY <1>1, <1>2, <1>8 DEF LiveFacts, EntryAt
<1> HIDE DEF x
<1>11. LiveEntries' = LiveEntries \ {x}
  <2>1. ASSUME NEW y \in LiveEntries' PROVE y \in LiveEntries \ {x}
    <3>1. y = <<y[1], y[2]>> /\ y[1] \in HeaderPages /\ IsLive(y[1], y[2])'
          BY <1>7 DEF LiveFacts
    <3>2. IsLive(y[1], y[2]) /\ (y[1] # at \/ y[2] # e)
          BY <1>9, <3>1
    <3> QED BY <1>8, <1>10, <3>1, <3>2 DEF LiveFacts
  <2>2. ASSUME NEW y \in LiveEntries \ {x} PROVE y \in LiveEntries'
    <3>1. y = <<y[1], y[2]>> /\ y[1] \in HeaderPages /\ IsLive(y[1], y[2])
          BY <1>8 DEF LiveFacts
    <3>2. y[1] # at \/ y[2] # e
          BY <3>1 DEF x
    <3>3. IsLive(y[1], y[2])'
          BY <1>9, <3>1, <3>2
    <3> QED BY <1>7, <3>1, <3>3 DEF LiveFacts
  <2> QED BY <2>1, <2>2
<1>12. ASSUME NEW y \in LiveEntries \ {x} PROVE After(y) = EntryAt(y)
  <2>1. y = <<y[1], y[2]>> /\ y[1] \in HeaderPages /\ IsLive(y[1], y[2])
        BY <1>8 DEF LiveFacts
  <2>2. y[1] # at \/ y[2] # e
        BY <2>1 DEF x
  <2> QED BY <1>9, <2>1, <2>2 DEF After, EntryAt
<1> QED BY <1>2, <1>3, <1>6, <1>7, <1>10, <1>11, <1>12 DEF Removes, x, e

\* An entry is added at a place that was free, and no other changes.
Adds(x) ==
    /\ x \notin LiveEntries /\ After(x) = NewEntry
    /\ Live(NewEntry) => LiveEntries' = LiveEntries \cup {x}
    /\ \A y \in LiveEntries : y \in LiveEntries' /\ After(y) = EntryAt(y)

LEMMA NewEntryType == ASSUME ChainInv PROVE NewEntry \in Entry
BY InvTypes DEF NewEntry, Entry

\* The entries of page p become new, in which NewEntry is at e, where no entry
\* was in use, and the others are those of before or not in use.
LEMMA AddsAt ==
    ASSUME Types, NEW p \in HeaderPages, NEW new \in [Places(p) -> Entry],
           entries' = [entries EXCEPT ![p] = new],
           NEW e \in Places(p), new[e] = NewEntry, ~IsLive(p, e),
           \A i \in Places(p) \ {e} : /\ IsLive(p, i) => new[i] = entries[p][i]
                                      /\ ~IsLive(p, i) => ~Live(new[i])
    PROVE  Adds(<<p, e>>)
<1>1. /\ entries' \in [HeaderPages -> Seq(Entry)]
      /\ entries'[p] = new /\ Len(new) = NumEntries(p)
      /\ \A q \in HeaderPages \ {p} : entries'[q] = entries[q]
      /\ LiveFacts'
      BY EntryChanged
<1>2. LiveFacts
      BY EntriesDo, LiveIs
<1>3. ASSUME NEW q \in HeaderPages, NEW i, q # p \/ i # e
      PROVE  /\ IsLive(q, i)' <=> IsLive(q, i)
             /\ IsLive(q, i) => entries'[q][i] = entries[q][i]
  <2>1. CASE q # p
        BY <1>1, <2>1 DEF IsLive
  <2>2. CASE q = p
    <3>1. /\ 1 .. Len(entries'[p]) = Places(p)
          /\ IsLive(p, i) => i \in Places(p)
      <4>1. /\ Len(entries[p]) \in Nat /\ Len(entries[p]) <= NumEntries(p)
            /\ NumEntries(p) \in Nat
            BY EntriesDo, NumEntriesType DEF EntriesFit
      <4> DEFINE l == Len(entries[p])
                 n == NumEntries(p)
      <4>2. \A j \in 1 .. l : j \in 1 .. n
        <5> HIDE DEF l, n
        <5> QED BY <4>1 DEF l, n
      <4> QED BY <1>1, <4>2 DEF Places, IsLive
    <3> QED BY <1>1, <1>3, <2>2, <3>1 DEF IsLive
  <2> QED BY <2>1, <2>2
<1> DEFINE x == <<p, e>>
<1>4. x \notin LiveEntries /\ x[1] = p /\ x[2] = e /\ After(x) = NewEntry
      BY <1>1, <1>2 DEF LiveFacts, After
<1>5. Live(NewEntry) => x \in LiveEntries'
  <2>1. Live(NewEntry) => IsLive(p, e)'
        BY <1>1 DEF IsLive, Places
  <2> QED BY <1>1, <2>1 DEF LiveFacts
<1> HIDE DEF x
<1>6. ASSUME NEW y \in LiveEntries
      PROVE  y \in LiveEntries' /\ After(y) = EntryAt(y)
  <2>1. y = <<y[1], y[2]>> /\ y[1] \in HeaderPages /\ IsLive(y[1], y[2])
        BY <1>2 DEF LiveFacts
  <2>2. y[1] # p \/ y[2] # e
        BY <2>1
  <2>3. IsLive(y[1], y[2])' /\ entries'[y[1]][y[2]] = entries[y[1]][y[2]]
        BY <1>3, <2>1, <2>2
  <2> QED BY <1>1, <2>1, <2>3 DEF LiveFacts, After, EntryAt
<1>7. ASSUME NEW y \in LiveEntries' PROVE y \in LiveEntries \cup {x}
  <2>1. y = <<y[1], y[2]>> /\ y[1] \in HeaderPages /\ IsLive(y[1], y[2])'
        BY <1>1 DEF LiveFacts
  <2>2. CASE y[1] = p /\ y[2] = e
        BY <2>1, <2>2 DEF x
  <2>3. CASE y[1] # p \/ y[2] # e
    <3>1. IsLive(y[1], y[2])
          BY <1>3, <2>1, <2>3
    <3> QED BY <1>2, <2>1, <3>1 DEF LiveFacts
  <2> QED BY <2>2, <2>3
<1> QED BY <1>4, <1>5, <1>6, <1>7 DEF Adds, x

LEMMA FillsFreeSlot ==
    ASSUME ChainInv, FreeVisit, FreeSlot(at) # 0
    PROVE  /\ entries' \in [HeaderPages -> Seq(Entry)] /\ at \in Filled
           /\ entries'[at] \in [Places(at) -> Entry]
           /\ \A q \in HeaderPages \ {at} : entries'[q] = entries[q]
           /\ Adds(<<at, FreeSlot(at)>>)
           /\ Return("OK") /\ UNCHANGED <<next, allocated>>
<1> DEFINE e == FreeSlot(at)
           new == [entries[at] EXCEPT ![e] = NewEntry]
<1>1. at \in HeaderPages /\ Types /\ NewEntry \in Entry
      BY InvTypes, NewEntryType DEF ChainInv
<1>2. e \in Places(at) /\ at \in Filled /\ ~Live(entries[at][e])
      BY <1>1, FreeSlotFound
<1>3. entries' = [entries EXCEPT ![at] = new] /\ Return("OK") /\ UNCHANGED <<next, allocated>>
      BY DEF FreeVisit
<1> HIDE DEF e
<1>4. /\ new \in [Places(at) -> Entry] /\ new[e] = NewEntry
      /\ \A i \in Places(at) \ {e} : new[i] = entries[at][i]
      BY <1>1, <1>2 DEF Types
<1> HIDE DEF new
<1>5. 1 .. Len(entries[at]) = Places(at)
      BY <1>1, <1>2, EntriesDo DEF Places
<1>6. Adds(<<at, e>>)
  <2>1. \A i \in Places(at) \ {e} : /\ IsLive(at, i) => new[i] = entries[at][i]
                                    /\ ~IsLive(at, i) => ~Live(new[i])
        BY <1>4, <1>5 DEF IsLive
  <2>2. ~IsLive(at, e)
        BY <1>2 DEF IsLive
  <2> QED BY <1>1, <1>2, <1>3, <1>4, <2>1, <2>2, AddsAt
<1>7. /\ entries' \in [HeaderPages -> Seq(Entry)] /\ entries'[at] = new
      /\ \A q \in HeaderPages \ {at} : entries'[q] = entries[q]
      BY <1>1, <1>3, <1>4, EntryChanged
<1> QED BY <1>2, <1>3, <1>4, <1>6, <1>7 DEF e

LEMMA FreshPages ==
    ASSUME NEW p \in HeaderPages
    PROVE  /\ Fresh(p) \in [Places(p) -> Entry] /\ Fresh(p) \in Seq(Entry)
           /\ Len(Fresh(p)) = NumEntries(p)
           /\ \A e \in Places(p) : ~Live(Fresh(p)[e])
<1>1. Free \in Entry /\ ~Live(Free)
      BY DirectoryAssumption DEF Entry, Free, Live
<1>2. Fresh(p) = [e \in Places(p) |-> Free]
      BY DEF Fresh, Places
<1>3. Fresh(p) \in [Places(p) -> Entry] /\ \A e \in Places(p) : ~Live(Fresh(p)[e])
      BY <1>1, <1>2
<1> QED BY <1>3, IsSequence, NumEntriesType DEF Places

LEMMA FillsNewHeader ==
    ASSUME ChainInv, pc = "new",
           entries' = [entries EXCEPT ![at] = [Fresh(at) EXCEPT ![1] = NewEntry]]
    PROVE  /\ entries' \in [HeaderPages -> Seq(Entry)]
           /\ entries'[at] \in [Places(at) -> Entry]
           /\ \A q \in HeaderPages \ {at} : entries'[q] = entries[q]
           /\ Adds(<<at, 1>>)
<1> DEFINE new == [Fresh(at) EXCEPT ![1] = NewEntry]
<1>1. at \in HeaderPages /\ Types /\ NewEntry \in Entry
      BY InvTypes, NewEntryType DEF ChainInv
<1>2. \A i : ~IsLive(at, i)
  <2>1. at \notin Filled
        BY DEF Filled, Written, Unwritten
  <2> QED BY <1>1, <2>1, EntriesDo DEF IsLive
<1>3. 1 \in Places(at)
      BY NumEntriesType DEF Places
<1>4. /\ new \in [Places(at) -> Entry] /\ new[1] = NewEntry
      /\ \A i \in Places(at) \ {1} : ~Live(new[i])
      BY <1>1, <1>3, FreshPages
<1>5. entries' = [entries EXCEPT ![at] = new]
      OBVIOUS
<1> HIDE DEF new
<1>6. Adds(<<at, 1>>)
      BY <1>1, <1>2, <1>3, <1>4, <1>5, AddsAt
<1>7. /\ entries' \in [HeaderPages -> Seq(Entry)] /\ entries'[at] = new
      /\ \A q \in HeaderPages \ {at} : entries'[q] = entries[q]
      BY <1>1, <1>4, <1>5, EntryChanged
<1> QED BY <1>4, <1>6, <1>7

\* Two ways a step may change the chain: a page is linked at its end, and the
\* page at the end is initialised.
LEMMA ChainGrows ==
    ASSUME Types, OneChain, at \in Written, LastPage,
           NEW p \in FreePages \ allocated,
           allocated' = allocated \cup {p},
           next' = [next EXCEPT ![at] = p], Written' = Written,
           Written \subseteq Linked
    PROVE  OneChain'
<1>1. /\ p \notin Linked /\ p # at /\ INVALID_PAGE \notin allocated
      /\ next[at] = INVALID_PAGE /\ p # INVALID_PAGE
      /\ next'[at] = p
      /\ \A q \in Written \ {at} : next'[q] = next[q]
      BY NumEntriesType DEF Linked, Types, HeaderPages, LastPage
<1>3. /\ \A q \in Written : next[q] = INVALID_PAGE \/ next[q] \in allocated
      /\ \A q, r \in Written : next[q] = next[r] /\ next[q] # INVALID_PAGE => q = r
      /\ \A S \in (SUBSET allocated) \ {{}} : \E q \in Written \ S : next[q] \in S
      BY DEF OneChain
<1>4. \A q \in Written : next'[q] = INVALID_PAGE \/ next'[q] \in allocated'
      BY <1>1, <1>3
<1>5. \A q, r \in Written : next'[q] = next'[r] /\ next'[q] # INVALID_PAGE => q = r
      BY <1>1, <1>3 DEF Linked
<1>6. ASSUME NEW S \in (SUBSET allocated') \ {{}}
      PROVE  \E q \in Written \ S : next'[q] \in S
  <2> DEFINE T == S \ {p}
  <2>1. CASE T = {}
    <3>1. p \in S /\ at \notin S
      <4>1. S # {}
            OBVIOUS
      <4>2. \A q \in S : q = p
            BY <2>1
      <4> QED BY <1>1, <4>1, <4>2
    <3> QED BY <1>1, <3>1
  <2>2. CASE T # {}
    <3>1. T \in (SUBSET allocated) \ {{}}
          BY <2>2
    <3>2. PICK q \in Written \ T : next[q] \in T
          BY <1>3, <3>1
    <3>3. q # at /\ q # p
      <4>1. next[q] # INVALID_PAGE
            BY <1>1, <3>1, <3>2
      <4> QED BY <1>1, <3>2, <4>1
    <3> QED BY <1>1, <3>2, <3>3
  <2> QED BY <2>1, <2>2
<1> QED BY <1>4, <1>5, <1>6 DEF OneChain

LEMMA ChainInitialised ==
    ASSUME Types, OneChain, at \in HeaderPages, at \notin Written,
           Written' = Written \cup {at}, allocated' = allocated,
           next' = [next EXCEPT ![at] = INVALID_PAGE]
    PROVE  OneChain'
<1>1. /\ next'[at] = INVALID_PAGE
      /\ \A q \in Written : next'[q] = next[q]
  <2>1. DOMAIN next = HeaderPages
        BY DEF Types
  <2> QED BY <2>1
<1>2. /\ \A q \in Written : next[q] = INVALID_PAGE \/ next[q] \in allocated
      /\ \A q, r \in Written : next[q] = next[r] /\ next[q] # INVALID_PAGE => q = r
      /\ \A S \in (SUBSET allocated) \ {{}} : \E q \in Written \ S : next[q] \in S
      BY DEF OneChain
<1>3. \A q \in Written' : next'[q] = INVALID_PAGE \/ next'[q] \in allocated'
      BY <1>1, <1>2
<1>4. \A q, r \in Written' : next'[q] = next'[r] /\ next'[q] # INVALID_PAGE => q = r
      BY <1>1, <1>2
<1>5. \A S \in (SUBSET allocated') \ {{}} : \E q \in Written' \ S : next'[q] \in S
      BY <1>1, <1>2
<1> QED BY <1>3, <1>4, <1>5 DEF OneChain

\* An entry of a page with entries is changed, and the call returns.
LEMMA EntryKeeps ==
    ASSUME ChainInv, UNCHANGED <<next, allocated, uninit, dangling, unsure, refusals>>,
           pc \in {"delete", "free"}, result' \in StartPages, NEW s, Return(s),
           entries' \in [HeaderPages -> Seq(Entry)], at \in Filled,
           entries'[at] \in [Places(at) -> Entry],
           \A q \in HeaderPages \ {at} : entries'[q] = entries[q]
    PROVE  ChainInv'
<1>1. /\ pc' = "idle" /\ at' = 0 /\ pinned' = {}
      /\ name' \in Names /\ page' \in StartPages
      BY Returns
<1>2. Written' = Written /\ Linked' = Linked /\ Filled' = Filled
      BY <1>1, WrittenStays DEF Filled
<1>3. Types'
  <2>1. /\ \A p \in Filled : entries'[p] \in [Places(p) -> Entry]
        /\ \A p \in HeaderPages \ Filled : entries'[p] = << >>
    <3>1. Filled \subseteq HeaderPages
          BY InvTypes DEF Filled
    <3> QED BY <3>1 DEF ChainInv, Types
  <2> QED BY <1>1, <1>2, <2>1, InvTypes DEF ChainInv, Types
<1>4. WalkInv'
      BY <1>1, <1>2, InvTypes DEF ChainInv, WalkInv
<1> QED BY <1>2, <1>3, <1>4, ChainStays DEF ChainInv

LEMMA DeleteVisitKeeps == ASSUME ChainInv, DeleteVisit PROVE ChainInv'
<1>1. /\ pc = "delete"
      /\ UNCHANGED <<next, allocated, uninit, dangling, result, refusals, unsure>>
      BY DEF DeleteVisit
<1>2. CASE SlotOf(at, name) = 0
  <2>1. UNCHANGED table
        BY <1>1, <1>2 DEF DeleteVisit, table
  <2>2. /\ pc' \in {"idle", "delete"} /\ at' \in Linked /\ pinned' = {}
        /\ name' \in Names /\ page' \in StartPages
        BY <1>1, <1>2, Returns, Goes, InvTypes DEF DeleteVisit
  <2> QED BY <1>1, <2>1, <2>2, InvTypes, TableStays
<1>3. CASE SlotOf(at, name) # 0
      BY <1>1, <1>3, Deletes, EntryKeeps, InvTypes
<1> QED BY <1>2, <1>3

LEMMA FreeVisitKeeps == ASSUME ChainInv, FreeVisit PROVE ChainInv'
<1> DEFINE e == FreeSlot(at)
<1>1. pc = "free" /\ UNCHANGED <<uninit, dangling, result, refusals, unsure>>
      BY DEF FreeVisit
<1>2. CASE e # 0
      BY <1>1, <1>2, FillsFreeSlot, EntryKeeps, InvTypes
<1>3. CASE e = 0 /\ ~LastPage
  <2>1. UNCHANGED table /\ GoOn
        BY <1>1, <1>3 DEF FreeVisit, table
  <2>2. /\ pc' = "free" /\ at' \in Linked /\ pinned' = {}
        /\ name' \in Names /\ page' \in StartPages
        BY <1>1, <1>3, <2>1, Goes, InvTypes
  <2> QED BY <1>1, <2>1, <2>2, InvTypes, TableStays
<1>4. CASE e = 0 /\ LastPage
  <2>1. /\ FreePages \ allocated # {} /\ allocated' = allocated \cup {NewPage}
        /\ next' = [next EXCEPT ![at] = NewPage]
        /\ pc' = "new" /\ at' = NewPage /\ pinned' = pinned \ {at}
        /\ UNCHANGED <<entries, name, page>>
        BY <1>4 DEF FreeVisit, Unpin, args
  <2> DEFINE p == NewPage
  <2>2. p \in FreePages \ allocated
        BY <2>1, PageIsNew DEF ChainInv
  <2>3. /\ p \in HeaderPages /\ p \notin Linked /\ p # at
        /\ at \in Linked /\ at \in HeaderPages /\ at \in Written
        BY <1>4, <2>2, LastIsWritten, NumEntriesType, InvTypes
           DEF ChainInv, WalkInv, Linked, HeaderPages
  <2> HIDE DEF p
  <2>4. Linked' = Linked \cup {p} /\ at' = p /\ pinned' = {}
        BY <2>1, InvTypes DEF Linked, p
  <2>5. Written' = Written /\ Filled' = Filled
    <3>1. Unwritten = uninit /\ Unwritten' = uninit \cup {p}
          BY <1>1, <2>1 DEF Unwritten, p
    <3> QED BY <1>1, <2>3, <2>4, <3>1 DEF Written, Filled
  <2>6. OneChain'
    <3>1. allocated' = allocated \cup {p} /\ next' = [next EXCEPT ![at] = p]
          BY <2>1 DEF p
    <3> QED BY <1>4, <2>2, <2>3, <2>5, <3>1, InvTypes, ChainGrows DEF ChainInv
  <2>7. Types'
        BY <1>1, <2>1, <2>2, <2>3, <2>5, InvTypes DEF ChainInv, Types, p
  <2>8. WalkInv'
    <3>1. \A q \in HeaderPages \ Written : next'[q] = Blank
          BY <2>1, <2>3 DEF ChainInv, WalkInv, Types
    <3>2. at' \in allocated' /\ at' \notin uninit'
          BY <1>1, <2>1, <2>2 DEF ChainInv, Types, p
    <3> QED BY <1>1, <2>1, <2>4, <2>5, <3>1, <3>2 DEF ChainInv, WalkInv
  <2> QED BY <2>6, <2>7, <2>8 DEF ChainInv
<1> QED BY <1>2, <1>3, <1>4

LEMMA NewHeaderKeeps == ASSUME ChainInv, NewHeader PROVE ChainInv'
<1>1. /\ pc = "new" /\ UNCHANGED <<allocated, dangling, result, unsure>>
      /\ at \in allocated /\ at \notin uninit /\ at \in HeaderPages
      BY InvTypes DEF NewHeader, ChainInv, WalkInv
<1>2. Unwritten = uninit \cup {at} /\ at \in Linked /\ at \notin Written
      BY <1>1 DEF Unwritten, Written, Linked
<1>3. CASE /\ entries' = [entries EXCEPT ![at] = [Fresh(at) EXCEPT ![1] = NewEntry]]
           /\ IsLast /\ Return("OK") /\ UNCHANGED <<uninit, refusals>>
  <2>1. /\ pc' = "idle" /\ at' = 0 /\ pinned' = {}
        /\ name' \in Names /\ page' \in StartPages
        BY <1>3, Returns
  <2>2. /\ entries' \in [HeaderPages -> Seq(Entry)]
        /\ entries'[at] \in [Places(at) -> Entry]
        /\ \A q \in HeaderPages \ {at} : entries'[q] = entries[q]
        BY <1>1, <1>3, FillsNewHeader
  <2>3. Unwritten' = uninit /\ Linked' = Linked
        BY <1>1, <1>3, <2>1 DEF Unwritten, Linked
  <2>4. Written' = Written \cup {at}
        BY <1>1, <1>2, <2>3 DEF Written
  <2>5. Filled' = Filled \cup {at} /\ Filled \subseteq HeaderPages
        BY <1>1, <1>2, <2>4, InvTypes DEF Filled, ChainInv, WalkInv
  <2>6. next' = [next EXCEPT ![at] = INVALID_PAGE]
        BY <1>3 DEF IsLast
  <2>7. Types'
    <3>1. next' \in [HeaderPages -> HeaderPages \cup {INVALID_PAGE}]
          BY <2>6 DEF ChainInv, Types
    <3>2. /\ \A p \in Filled' : entries'[p] \in [Places(p) -> Entry]
          /\ \A p \in HeaderPages \ Filled' : entries'[p] = << >>
      <4>1. /\ \A p \in Filled : entries[p] \in [Places(p) -> Entry]
            /\ \A p \in HeaderPages \ Filled : entries[p] = << >>
            BY DEF ChainInv, Types
      <4>2. ASSUME NEW p \in Filled' PROVE entries'[p] \in [Places(p) -> Entry]
        <5>1. CASE p = at
              BY <2>2, <5>1
        <5>2. CASE p # at
              BY <2>2, <2>5, <4>1, <4>2, <5>2
        <5> QED BY <5>1, <5>2
      <4>3. ASSUME NEW p \in HeaderPages \ Filled' PROVE entries'[p] = << >>
            BY <2>2, <2>5, <4>1, <4>3
      <4> QED BY <4>2, <4>3
    <3> QED BY <1>1, <1>3, <2>1, <2>2, <3>1, <3>2, InvTypes DEF ChainInv, Types
  <2>8. WalkInv'
    <3>1. \A q \in HeaderPages \ Written' : next'[q] = Blank
          BY <2>4, <2>6 DEF ChainInv, WalkInv, Types
    <3> QED BY <1>1, <2>1, <2>3, <2>4, <3>1, InvTypes DEF ChainInv, WalkInv
  <2>9. OneChain'
        BY <1>1, <1>2, <2>4, <2>6, ChainInitialised DEF ChainInv
  <2> QED BY <2>7, <2>8, <2>9 DEF ChainInv
<1>4. CASE /\ refusals < MaxRefusals /\ refusals' = refusals + 1
           /\ uninit' = uninit \cup {at}
           /\ Return("PIN_REFUSED") /\ UNCHANGED <<next, entries>>
  <2>1. /\ pc' = "idle" /\ at' = 0 /\ pinned' = {}
        /\ name' \in Names /\ page' \in StartPages
        BY <1>4, Returns
  <2>2. Written' = Written /\ Linked' = Linked /\ Filled' = Filled
    <3>1. Unwritten' = Unwritten /\ Linked' = Linked
          BY <1>1, <1>2, <1>4, <2>1 DEF Unwritten, Linked
    <3> QED BY <1>1, <3>1 DEF Written, Filled
  <2>3. Types'
        BY <1>1, <1>4, <2>1, <2>2, InvTypes DEF ChainInv, Types
  <2>4. WalkInv'
        BY <1>1, <1>4, <2>1, <2>2, InvTypes DEF ChainInv, WalkInv
  <2> QED BY <1>1, <1>4, <2>2, <2>3, <2>4, ChainStays DEF ChainInv
<1> QED BY <1>3, <1>4 DEF NewHeader

-----------------------------------------------------------------------------
(* The invariant *)

LEMMA ChainInit == Init => ChainInv
<1> SUFFICES ASSUME Init PROVE ChainInv
    OBVIOUS
<1>1. /\ allocated = {} /\ uninit = {} /\ dangling = {} /\ pc = "idle" /\ at = 0
      /\ pinned = {} /\ unsure = FALSE /\ refusals = 0
      /\ name = AnyName /\ page = INVALID_PAGE /\ result = INVALID_PAGE
      /\ next = [p \in HeaderPages |-> IF p = 0 THEN INVALID_PAGE ELSE Blank]
      /\ entries = [p \in HeaderPages |-> IF p = 0 THEN Fresh(p) ELSE << >>]
      BY DEF Init
<1>2. Linked = {0} /\ Written = {0} /\ Filled = {0} /\ 0 \in HeaderPages
      BY <1>1 DEF Linked, Written, Unwritten, Filled, HeaderPages
<1>3. Types
  <2>1. name \in Names /\ page \in StartPages /\ result \in StartPages
        BY <1>1, DirectoryAssumption DEF AnyName
  <2>2. next \in [HeaderPages -> HeaderPages \cup {INVALID_PAGE}]
        BY <1>1, <1>2 DEF Blank
  <2>3. /\ entries \in [HeaderPages -> Seq(Entry)]
        /\ \A p \in Filled : entries[p] \in [Places(p) -> Entry]
        /\ \A p \in HeaderPages \ Filled : entries[p] = << >>
    <3>1. << >> \in Seq(Entry)
          OBVIOUS
    <3> QED BY <1>1, <1>2, <3>1, FreshPages
  <2>4. 0 \in 0 .. MaxRefusals
        BY DirectoryAssumption
  <2> QED BY <1>1, <2>1, <2>2, <2>3, <2>4 DEF Types
<1>4. WalkInv
      BY <1>1, <1>2 DEF WalkInv
<1>5. OneChain
      BY <1>1, <1>2 DEF OneChain
<1> QED BY <1>3, <1>4, <1>5 DEF ChainInv

LEMMA ChainNext == ChainInv /\ [Next]_vars => ChainInv'
<1> SUFFICES ASSUME ChainInv, [Next]_vars PROVE ChainInv'
    OBVIOUS
<1>1. CASE UNCHANGED vars
  <2>1. /\ UNCHANGED <<next, entries, allocated, uninit, dangling, pc, at, pinned>>
        /\ UNCHANGED <<name, page, result, unsure, refusals>>
        BY <1>1 DEF vars, table, args
  <2>2. Written' = Written /\ Linked' = Linked /\ Filled' = Filled
        BY <2>1 DEF Written, Unwritten, Linked, Filled
  <2> QED BY <2>1, <2>2, ChainStays DEF ChainInv, Types, WalkInv
<1>2. CASE Enter             BY <1>2, EnterKeeps
<1>3. CASE PinHeader         BY <1>3, PinHeaderKeeps
<1>4. CASE PinRefused        BY <1>4, PinRefusedKeeps
<1>5. CASE GetVisit          BY <1>5, GetVisitKeeps
<1>6. CASE DeleteVisit       BY <1>6, DeleteVisitKeeps
<1>7. CASE FreeVisit         BY <1>7, FreeVisitKeeps
<1>8. CASE NoNewPage         BY <1>8, NoNewPageKeeps
<1>9. CASE NewHeader         BY <1>9, NewHeaderKeeps
<1>10. CASE ReadGarbage      BY <1>10, ReadGarbageKeeps
<1>11. CASE Reopen           BY <1>11, ReopenKeeps
<1>12. ASSUME NEW n \in Names, NEW p \in StartPages, Call("AddFileEntry", n, p)
       PROVE  ChainInv'
       BY <1>12, CallKeeps
<1>13. ASSUME NEW n \in Names,
              \/ Call("DeleteFileEntry", n, INVALID_PAGE)
              \/ Call("GetFileEntry", n, INVALID_PAGE)
       PROVE  ChainInv'
       BY <1>13, CallKeeps, DirectoryAssumption
<1> QED BY <1>1, <1>2, <1>3, <1>4, <1>5, <1>6, <1>7, <1>8, <1>9, <1>10, <1>11,
           <1>12, <1>13 DEF Next, Step, Stop

-----------------------------------------------------------------------------
(* What a walk knows *)

CallInv ==
    /\ pc = "enter" => op \in {"AddFileEntry", "GetFileEntry", "DeleteFileEntry"}
    /\ pc = "get" => op \in {"AddFileEntry", "GetFileEntry"}
    /\ pc = "delete" => op = "DeleteFileEntry"
    /\ pc \in {"free", "new"} => op = "AddFileEntry"
    /\ pc \in {"get", "free", "new"} /\ op = "AddFileEntry" => page # INVALID_PAGE

Trouble == unsure \/ Garbage # {}

\* No entry has the name of the call.
NameFree == \A x \in LiveEntries : EntryAt(x).fname # name

\* The pages the walk has been on: they come before `at' in the chain, and no
\* entry there has the name.
Visited ==
    \E V \in SUBSET Linked :
        /\ 0 \in V \/ at = 0
        /\ \A q \in V : next[q] \in V \cup {at}
        /\ \A x \in LiveEntries : x[1] \in V => EntryAt(x).fname # name

TableInv ==
    ~Trouble => /\ UniqueNames
                /\ pc \in {"get", "delete"} => Visited
                /\ pc \in {"free", "new"} => NameFree

IInv == ChainInv /\ CallInv /\ TableInv

LEMMA CallInvKept ==
    ASSUME CallInv, [Next]_vars PROVE CallInv'
<1>1. CASE UNCHANGED vars
      BY <1>1 DEF vars, args, CallInv
<1>2. CASE Step
      BY <1>2 DEF Step, CallInv, Enter, PinHeader, PinRefused, GetVisit, DeleteVisit,
            FreeVisit, NoNewPage, NewHeader, ReadGarbage, Return, StartWalk, GoOn,
            args, BadPageNo, INVALID_PAGE
<1>3. CASE Reopen
      BY <1>3 DEF Reopen, CallInv, args
<1>4. ASSUME NEW o \in {"AddFileEntry", "GetFileEntry", "DeleteFileEntry"},
             NEW n, NEW p, Call(o, n, p)
      PROVE  CallInv'
      BY <1>4 DEF Call, CallInv
<1> QED BY <1>1, <1>2, <1>3, <1>4 DEF Next, Stop

LEMMA LiveInChain ==
    ASSUME ChainInv, NEW x \in LiveEntries
    PROVE  /\ x[1] \in Filled /\ x[1] \in Linked /\ IsLive(x[1], x[2])
           /\ EntryAt(x) = entries[x[1]][x[2]]
<1>1. /\ x[1] \in HeaderPages /\ IsLive(x[1], x[2])
      BY EntriesDo, LiveIs DEF ChainInv, LiveFacts
<1>2. x[1] \in Filled
      BY <1>1, EntriesDo DEF ChainInv, IsLive
<1> QED BY <1>1, <1>2, InvTypes DEF Filled, EntryAt

\* A walk that has come to the end of the chain has been on every page.
LEMMA WalkedAll ==
    ASSUME ChainInv, Visited, LastPage, SlotOf(at, name) = 0
    PROVE  NameFree
<1>1. PICK V \in SUBSET Linked :
         /\ 0 \in V \/ at = 0
         /\ \A q \in V : next[q] \in V \cup {at}
         /\ \A x \in LiveEntries : x[1] \in V => EntryAt(x).fname # name
      BY DEF Visited
<1> DEFINE W == V \cup {at}
           S == allocated \ W
<1>2. S = {}
  <2> SUFFICES ASSUME S # {} PROVE FALSE
      OBVIOUS
  <2>1. PICK q \in Written \ S : next[q] \in S
        BY DEF ChainInv, OneChain
  <2>2. q \in W
        BY <1>1, <2>1, InvTypes DEF Linked
  <2>3. next[at] = INVALID_PAGE /\ INVALID_PAGE \notin allocated
        BY NumEntriesType DEF LastPage, ChainInv, Types, HeaderPages
  <2> QED BY <1>1, <2>1, <2>2, <2>3
<1>3. Linked \subseteq W
      BY <1>1, <1>2 DEF Linked
<1>4. ASSUME NEW x \in LiveEntries PROVE EntryAt(x).fname # name
  <2>1. x[1] \in W /\ IsLive(x[1], x[2]) /\ EntryAt(x) = entries[x[1]][x[2]]
        BY <1>3, LiveInChain
  <2>2. CASE x[1] \in V
        BY <1>1, <2>2
  <2>3. CASE x[1] = at
        BY <2>1, <2>3, SlotFound, InvTypes DEF ChainInv
  <2> QED BY <2>1, <2>2, <2>3
<1> QED BY <1>4 DEF NameFree

\* A step of the walk to the next page.
LEMMA VisitedGrows ==
    ASSUME ChainInv, Visited, ~LastPage, SlotOf(at, name) = 0, GoOn, UNCHANGED table
    PROVE  Visited'
<1>1. PICK V \in SUBSET Linked :
         /\ 0 \in V \/ at = 0
         /\ \A q \in V : next[q] \in V \cup {at}
         /\ \A x \in LiveEntries : x[1] \in V => EntryAt(x).fname # name
      BY DEF Visited
<1> DEFINE W == V \cup {at}
<1>2. /\ UNCHANGED <<next, entries, allocated>> /\ at' = next[at] /\ name' = name
      /\ at \in Linked
      BY Goes DEF table, ChainInv, WalkInv
<1>3. LiveEntries' = LiveEntries /\ Linked' = Linked
      BY <1>2 DEF LiveEntries, Linked
<1>4. ASSUME NEW x \in LiveEntries, x[1] \in W PROVE EntryAt(x).fname # name
  <2>1. CASE x[1] \in V
        BY <1>1, <2>1
  <2>2. CASE x[1] = at
        BY <2>2, LiveInChain, SlotFound, InvTypes DEF ChainInv
  <2> QED BY <1>4, <2>1, <2>2
<1>5. \A x : EntryAt(x)' = EntryAt(x)
      BY <1>2 DEF EntryAt
<1>6. /\ W \in SUBSET Linked /\ 0 \in W
      /\ \A q \in W : next[q] \in W \cup {at'}
      BY <1>1, <1>2
<1> QED BY <1>2, <1>3, <1>4, <1>5, <1>6 DEF Visited

LEMMA SameLive ==
    ASSUME entries' = entries
    PROVE  /\ LiveEntries' = LiveEntries
           /\ \A x : EntryAt(x)' = EntryAt(x)
           /\ UniqueNames => UniqueNames'
           /\ name' = name /\ NameFree => NameFree'
           /\ Files' = Files
<1>1. LiveEntries' = LiveEntries /\ \A x : EntryAt(x)' = EntryAt(x)
      BY DEF LiveEntries, EntryAt
<1> QED BY <1>1 DEF UniqueNames, NameFree, Files, EntryAt

LEMMA StartsUnvisited == ASSUME at' = 0 PROVE Visited'
<1> DEFINE V == {}
<1>1. V \in SUBSET Linked' /\ (0 \in V \/ at' = 0)
      OBVIOUS
<1> QED BY <1>1 DEF Visited

LEMMA AddedUnique ==
    ASSUME UniqueNames, NameFree, NEW x, Adds(x), Live(NewEntry)
    PROVE  UniqueNames'
<1>1. /\ LiveEntries' = LiveEntries \cup {x} /\ After(x).fname = name
      /\ \A y \in LiveEntries : After(y) = EntryAt(y)
      BY DEF Adds, NewEntry
<1>2. \A y, z \in LiveEntries' : After(y).fname = After(z).fname => y = z
      BY <1>1 DEF UniqueNames, NameFree
<1> QED BY <1>2 DEF UniqueNames, EntryAt, After

\* Trouble does not go away, and a process that opens the database meets it.
LEMMA ReopenIsTrouble == ASSUME ChainInv, Reopen PROVE Trouble'
<1>1. 0 \notin uninit
      BY NumEntriesType DEF ChainInv, Types
<1> QED BY <1>1 DEF Reopen, Garbage, Trouble

LEMMA TroubleStays == ASSUME ChainInv, [Next]_vars, Trouble PROVE Trouble'
<1>1. Reopen => Trouble'
      BY ReopenIsTrouble
<1>2. ~Reopen => dangling' = dangling /\ uninit \subseteq uninit' /\ (unsure => unsure')
      BY DEF Next, Step, Stop, vars, table, Enter, PinHeader, PinRefused,
           GetVisit, DeleteVisit, FreeVisit, NoNewPage, NewHeader, ReadGarbage, Call
<1>3. ~Reopen => Garbage \subseteq Garbage'
      BY <1>2 DEF Garbage
<1> QED BY <1>1, <1>2, <1>3 DEF Trouble

LEMMA TableInvKept ==
    ASSUME IInv, [Next]_vars PROVE TableInv'
<1> SUFFICES ASSUME ~Trouble' PROVE TableInv'
    BY DEF TableInv
<1>1. ChainInv /\ CallInv
      BY DEF IInv
<1>2. ~Trouble
      BY <1>1, TroubleStays
<1>3. /\ UniqueNames
      /\ pc \in {"get", "delete"} => Visited
      /\ pc \in {"free", "new"} => NameFree
      BY <1>2 DEF IInv, TableInv
<1>4. ASSUME entries' = entries, pc' \in {"idle", "enter"} PROVE TableInv'
      BY <1>3, <1>4, SameLive DEF TableInv
<1>5. ASSUME entries' = entries, StartWalk("get") \/ StartWalk("delete") PROVE TableInv'
      BY <1>1, <1>3, <1>5, SameLive, Starts, StartsUnvisited DEF TableInv
<1>6. ASSUME entries' = entries, pc' \in {"free", "new"}, name' = name, NameFree
      PROVE  TableInv'
      BY <1>3, <1>6, SameLive DEF TableInv
<1>7. CASE UNCHANGED vars
  <2>1. /\ entries' = entries /\ pc' = pc /\ name' = name
        /\ UNCHANGED <<next, allocated, at>>
        BY <1>7 DEF vars, table, args
  <2>2. Visited => Visited'
        BY <2>1, SameLive DEF Visited, Linked
  <2> QED BY <1>3, <2>1, <2>2, SameLive DEF TableInv
<1>8. ASSUME NEW s, Return(s), entries' = entries PROVE TableInv'
      BY <1>4, <1>8 DEF Return
<1>9. CASE Enter
      BY <1>5, <1>8, <1>9 DEF Enter, table
<1>10. CASE PinHeader
  <2>1. /\ entries' = entries /\ pc' = pc /\ name' = name
        /\ UNCHANGED <<next, allocated, at>>
        BY <1>10 DEF PinHeader, table, args
  <2>2. Visited => Visited'
        BY <2>1, SameLive DEF Visited, Linked
  <2> QED BY <1>3, <2>1, <2>2, SameLive DEF TableInv
<1>11. CASE PinRefused
  <2>1. entries' = entries /\ ~unsure'
        BY <1>11 DEF PinRefused, table, Trouble
  <2> QED BY <1>8, <1>11, <2>1 DEF PinRefused
<1>12. CASE GetVisit
  <2>1. entries' = entries /\ UNCHANGED table /\ pc = "get" /\ Visited
        BY <1>3, <1>12 DEF GetVisit, table
  <2>2. ASSUME SlotOf(at, name) = 0, ~LastPage, GoOn PROVE TableInv'
    <3>1. Visited' /\ pc' = "get"
          BY <1>1, <2>1, <2>2, VisitedGrows, Goes
    <3> QED BY <1>3, <2>1, <3>1, SameLive DEF TableInv
  <2>3. ASSUME SlotOf(at, name) = 0, LastPage, StartWalk("free") PROVE TableInv'
    <3>1. NameFree
          BY <1>1, <2>1, <2>3, WalkedAll
    <3>2. pc' = "free" /\ name' = name
          BY <1>1, <2>3, Starts
    <3> QED BY <1>6, <2>1, <3>1, <3>2
  <2> QED BY <1>8, <1>12, <2>1, <2>2, <2>3 DEF GetVisit
<1>13. CASE DeleteVisit
  <2>1. pc = "delete" /\ Visited /\ UNCHANGED <<next, allocated, uninit>>
        BY <1>3, <1>13 DEF DeleteVisit
  <2>2. CASE SlotOf(at, name) = 0
    <3>1. entries' = entries /\ UNCHANGED table
          BY <1>13, <2>1, <2>2 DEF DeleteVisit, table
    <3>2. ASSUME ~LastPage, GoOn PROVE TableInv'
      <4>1. Visited' /\ pc' = "delete"
            BY <1>1, <2>1, <2>2, <3>1, <3>2, VisitedGrows, Goes
      <4> QED BY <1>3, <3>1, <4>1, SameLive DEF TableInv
    <3> QED BY <1>8, <1>13, <2>2, <3>1, <3>2 DEF DeleteVisit
  <2>3. CASE SlotOf(at, name) # 0
    <3>1. PICK x \in LiveEntries :
             /\ LiveEntries' = LiveEntries \ {x}
             /\ \A y \in LiveEntries \ {x} : After(y) = EntryAt(y)
          BY <1>1, <1>13, <2>3, Deletes DEF Removes
    <3>2. UniqueNames'
          BY <1>3, <3>1 DEF UniqueNames, EntryAt, After
    <3>3. pc' = "idle"
          BY <1>1, <1>13, <2>3, Deletes DEF Return
    <3> QED BY <3>2, <3>3 DEF TableInv
  <2> QED BY <2>2, <2>3
<1>14. CASE FreeVisit
  <2>1. pc = "free" /\ NameFree /\ Live(NewEntry)
        BY <1>1, <1>3, <1>14 DEF FreeVisit, CallInv, Live, NewEntry
  <2>2. CASE FreeSlot(at) # 0
    <3>1. UniqueNames' /\ pc' = "idle"
          BY <1>1, <1>3, <1>14, <2>1, <2>2, FillsFreeSlot, AddedUnique DEF Return
    <3> QED BY <3>1 DEF TableInv
  <2>3. CASE FreeSlot(at) = 0
    <3>1. /\ entries' = entries /\ pc' \in {"free", "new"} /\ name' = name
          BY <1>14, <2>1, <2>3 DEF FreeVisit, GoOn, args
    <3> QED BY <1>6, <2>1, <3>1
  <2> QED BY <2>2, <2>3
<1>15. CASE NoNewPage
      BY <1>8, <1>15 DEF NoNewPage, table
<1>16. CASE NewHeader
  <2>1. pc = "new" /\ NameFree /\ Live(NewEntry)
        BY <1>1, <1>3, <1>16 DEF NewHeader, CallInv, Live, NewEntry
  <2>2. CASE entries' = [entries EXCEPT ![at] = [Fresh(at) EXCEPT ![1] = NewEntry]]
    <3>1. UniqueNames' /\ pc' = "idle"
          BY <1>1, <1>3, <1>16, <2>1, <2>2, FillsNewHeader, AddedUnique DEF NewHeader, Return
    <3> QED BY <3>1 DEF TableInv
  <2>3. CASE entries' = entries
        BY <1>8, <1>16, <2>3 DEF NewHeader
  <2> QED BY <1>16, <2>2, <2>3 DEF NewHeader
<1>17. CASE ReadGarbage
      BY <1>2, <1>17 DEF ReadGarbage, Readable, Trouble
<1>18. CASE Reopen
      BY <1>1, <1>18, ReopenIsTrouble
<1>19. ASSUME NEW o, NEW n, NEW p, Call(o, n, p) PROVE TableInv'
      BY <1>4, <1>19 DEF Call, table
<1> QED BY <1>7, <1>9, <1>10, <1>11, <1>12, <1>13, <1>14, <1>15, <1>16, <1>17, <1>18,
           <1>19 DEF Next, Step, Stop

LEMMA FreshIsEmpty == ASSUME Init PROVE LiveEntries = {}
<1>1. ASSUME NEW x \in LiveEntries PROVE FALSE
  <2>1. x[1] \in Filled /\ IsLive(x[1], x[2])
        BY ChainInit, LiveInChain
  <2>2. x[1] = 0
        BY <2>1 DEF Filled, Written, Linked, Init
  <2>3. entries[0] = Fresh(0) /\ 0 \in HeaderPages
        BY DEF Init, HeaderPages
  <2> QED BY <2>1, <2>2, <2>3, FreshPages DEF IsLive, Places
<1> QED BY <1>1

\* The invariant holds of the fresh directory.
THEOREM InitInvariant == Init => IInv
<1> SUFFICES ASSUME Init PROVE IInv
    OBVIOUS
<1>1. ChainInv
      BY ChainInit
<1>2. CallInv
      BY DEF Init, CallInv
<1>3. LiveEntries = {}
      BY FreshIsEmpty
<1> QED BY <1>1, <1>2, <1>3 DEF IInv, TableInv, UniqueNames, Init

\* Every step of a call, a refused pin and a new process keep the invariant.
THEOREM NextInvariant == IInv /\ [Next]_vars => IInv'
<1> SUFFICES ASSUME IInv, [Next]_vars PROVE IInv'
    OBVIOUS
<1>1. ChainInv'
      BY ChainNext DEF IInv
<1>2. CallInv'
      BY CallInvKept DEF IInv
<1>3. TableInv'
      BY TableInvKept
<1> QED BY <1>1, <1>2, <1>3 DEF IInv

\* The invariant the properties of the directory follow from.
THEOREM Invariance == Spec => []IInv
BY InitInvariant, NextInvariant, PTL DEF Spec

-----------------------------------------------------------------------------
(* The properties *)

\* The types; a header page has its number of entries as long as one process
\* has the database open.
THEOREM TypeCorrect == Spec => []TypeOK
<1>1. IInv => TypeOK
  <2> SUFFICES ASSUME ChainInv PROVE TypeOK
      BY DEF IInv
  <2>1. \A p \in HeaderPages :
           Len(entries[p]) = IF p \in Written \ dangling THEN NumEntries(p) ELSE 0
        BY EntriesDo DEF ChainInv, Filled
  <2> QED BY <2>1, InvTypes DEF ChainInv, Types, TypeOK
<1> QED BY Invariance, <1>1, PTL

\* The links of the initialised header pages are one chain that reaches every
\* page allocated for it, whatever pins are refused; a page that is linked and
\* not initialised is at its end.
THEOREM ChainIsOne == Spec => []OneChain
<1>1. IInv => OneChain
      BY DEF IInv, ChainInv
<1> QED BY Invariance, <1>1, PTL

\* No call returns with a header page pinned.
THEOREM PinsReturned == Spec => []NothingLeftPinned
<1>1. IInv => NothingLeftPinned
      BY DEF IInv, ChainInv, WalkInv, NothingLeftPinned
<1> QED BY Invariance, <1>1, PTL

\* While one process has the database open, an entry leaves its place only by
\* a DeleteFileEntry of its name.
THEOREM EntriesStay == Spec => OnlyDeleteRemoves
<1> DEFINE Kept(x) == \/ x \in LiveEntries' /\ entries'[x[1]][x[2]] = EntryAt(x)
                      \/ op = "DeleteFileEntry" /\ name = EntryAt(x).fname
<1>1. ASSUME ChainInv, CallInv, [Next]_vars, dangling' = dangling, NEW x \in LiveEntries
      PROVE  Kept(x)
  <2>1. EntryAt(x) = entries[x[1]][x[2]] /\ x[1] \in Filled
        BY <1>1, LiveInChain
  <2>2. CASE entries' = entries
        BY <2>1, <2>2, SameLive
  <2>3. CASE Reopen
    <3>1. dangling = Linked \ uninit /\ pc = "idle"
          BY <1>1, <2>3 DEF Reopen, Linked
    <3>2. Filled = {}
          BY <3>1 DEF Filled, Written, Unwritten
    <3> QED BY <2>1, <3>2
  <2>4. CASE entries' # entries /\ ~Reopen
    <3>1. \/ DeleteVisit /\ SlotOf(at, name) # 0
          \/ FreeVisit /\ FreeSlot(at) # 0
          \/ NewHeader /\ entries' = [entries EXCEPT ![at] = [Fresh(at) EXCEPT ![1] = NewEntry]]
          BY <1>1, <2>4 DEF Next, Step, Stop, vars, table, Enter, PinHeader, PinRefused,
                GetVisit, DeleteVisit, FreeVisit, NoNewPage, NewHeader, ReadGarbage, Call
    <3>2. ASSUME NEW y, Adds(y) PROVE Kept(x)
          BY <3>2 DEF Adds, After
    <3>3. CASE DeleteVisit /\ SlotOf(at, name) # 0
      <4>1. op = "DeleteFileEntry"
            BY <1>1, <3>3 DEF CallInv, DeleteVisit
      <4>2. Removes(<<at, SlotOf(at, name)>>)
            BY <1>1, <3>3, Deletes
      <4> QED BY <4>1, <4>2 DEF Removes, After
    <3> QED BY <1>1, <3>1, <3>2, <3>3, FillsFreeSlot, FillsNewHeader DEF NewHeader
  <2> QED BY <2>2, <2>3, <2>4
<1>2. IInv /\ [Next]_vars => [dangling' = dangling => \A x \in LiveEntries : Kept(x)]_vars
      BY <1>1 DEF IInv
<1> QED BY Invariance, <1>2, PTL DEF Spec, OnlyDeleteRemoves

-----------------------------------------------------------------------------
(* Callers see a NameTable *)

LEMMA FilesAre ==
    ASSUME UniqueNames
    PROVE  /\ DOMAIN Files = {EntryAt(x).fname : x \in LiveEntries}
           /\ \A x \in LiveEntries : Files[EntryAt(x).fname] = EntryAt(x).pagenum
<1>1. ASSUME NEW x \in LiveEntries
      PROVE  (CHOOSE y \in LiveEntries : EntryAt(y).fname = EntryAt(x).fname) = x
      BY DEF UniqueNames
<1> QED BY <1>1 DEF Files

LEMMA FilesNext ==
    ASSUME UniqueNames', NEW f, f = [n \in DOMAIN f |-> f[n]],
           DOMAIN f = {After(x).fname : x \in LiveEntries'},
           \A x \in LiveEntries' : f[After(x).fname] = After(x).pagenum
    PROVE  Files' = f
<1>1. ASSUME NEW x \in LiveEntries'
      PROVE  (CHOOSE y \in LiveEntries' : After(y).fname = After(x).fname) = x
      BY DEF UniqueNames, EntryAt, After
<1>2. Files' = [n \in {After(x).fname : x \in LiveEntries'} |->
                  After(CHOOSE x \in LiveEntries' : After(x).fname = n).pagenum]
      BY DEF Files, EntryAt, After
<1>3. \A n \in {After(x).fname : x \in LiveEntries'} :
         f[n] = After(CHOOSE x \in LiveEntries' : After(x).fname = n).pagenum
      BY <1>1
<1> QED BY <1>2, <1>3

\* The name of the call is a name of the table if it is not free.
LEMMA InTable ==
    ASSUME UniqueNames PROVE name \in DOMAIN Files <=> ~NameFree
BY FilesAre DEF NameFree

LEMMA SameTrouble ==
    ASSUME ~Trouble, ~Trouble'
    PROVE  /\ (unsure \/ Garbage # {})' = (unsure \/ Garbage # {})
           /\ UNCHANGED Trouble
BY DEF Trouble

LEMMA Answers ==
    ASSUME IInv, ~Trouble, ~Trouble', pc # "idle", NEW s, Return(s),
           Table!Add \/ Table!Delete \/ Table!Get \/ Table!Fail
    PROVE  Table!Answer
<1>1. pc' = "idle" /\ name' \in Names /\ page' \in StartPages
      BY Returns DEF IInv
<1> QED BY <1>1, SameTrouble DEF Table!Answer

\* A call that fails, for a reason the table knows.
LEMMA Fails ==
    ASSUME IInv, ~Trouble, ~Trouble', pc # "idle", NEW s, Return(s),
           entries' = entries, result' = result,
           \/ s = "DUPLICATE_ENTRY" /\ op = "AddFileEntry" /\ ~NameFree
           \/ s = "FAIL" /\ op = "GetFileEntry" /\ NameFree
           \/ s = "FILE_NOT_FOUND" /\ op = "DeleteFileEntry" /\ NameFree
           \/ s \in {"FILE_NAME_TOO_LONG", "BAD_PAGE_NO", "DB_FULL"} /\ op = "AddFileEntry"
           \/ s = "PIN_REFUSED"
    PROVE  Table!Answer
<1>1. UniqueNames
      BY DEF IInv, TableInv
<1>2. status' = s /\ Files' = Files
      BY Returns, SameLive DEF IInv
<1>3. Table!Fail
      BY <1>1, <1>2, InTable DEF Table!Fail
<1> QED BY <1>3, Answers

\* A step in the middle of a call.
LEMMA Quiet ==
    ASSUME ~Trouble, ~Trouble', pc # "idle", pc' # "idle", entries' = entries,
           UNCHANGED <<op, name, page, status, result>>
    PROVE  UNCHANGED Table!vars
<1>1. Files' = Files
      BY SameLive
<1>2. (pc # "idle")' = (pc # "idle")
      OBVIOUS
<1> QED BY <1>1, <1>2, SameTrouble DEF Table!vars

LEMMA QuietWalks ==
    ASSUME ~Trouble, ~Trouble', entries' = entries, result' = result, pc # "idle",
           GoOn \/ (\E w \in {"get", "delete", "free"} : StartWalk(w))
    PROVE  UNCHANGED Table!vars
<1>1. UNCHANGED <<op, name, page, status>> /\ pc' # "idle"
      BY DEF GoOn, StartWalk, args
<1> QED BY <1>1, Quiet

LEMMA AddsToTable ==
    ASSUME IInv, ~Trouble, ~Trouble', pc \in {"free", "new"}, result' = result,
           NEW x, Adds(x), Return("OK")
    PROVE  Table!Answer
<1>1. UniqueNames /\ NameFree /\ Live(NewEntry) /\ op = "AddFileEntry"
      BY DEF IInv, TableInv, CallInv, Live, NewEntry
<1>2. UniqueNames' /\ name \notin DOMAIN Files
      BY <1>1, AddedUnique, InTable
<1>3. /\ LiveEntries' = LiveEntries \cup {x}
      /\ After(x).fname = name /\ After(x).pagenum = page
      /\ \A y \in LiveEntries : After(y) = EntryAt(y) /\ EntryAt(y).fname # name
      BY <1>1 DEF Adds, NewEntry, NameFree
<1> DEFINE f == [n \in DOMAIN Files \cup {name} |-> IF n = name THEN page ELSE Files[n]]
<1>4. /\ DOMAIN Files = {EntryAt(y).fname : y \in LiveEntries}
      /\ \A y \in LiveEntries : Files[EntryAt(y).fname] = EntryAt(y).pagenum
      BY <1>1, FilesAre
<1>5. /\ f = [n \in DOMAIN f |-> f[n]]
      /\ DOMAIN f = {After(y).fname : y \in LiveEntries'}
      BY <1>3, <1>4
<1>6. \A y \in LiveEntries' : f[After(y).fname] = After(y).pagenum
      BY <1>3, <1>4
<1> HIDE DEF f
<1>7. Files' = f
      BY <1>2, <1>5, <1>6, FilesNext
<1>8. status' = "OK"
      BY Returns DEF IInv
<1>9. Table!Add
      BY <1>1, <1>2, <1>7, <1>8 DEF Table!Add, f
<1> QED BY <1>9, Answers

LEMMA DeletesFromTable ==
    ASSUME IInv, ~Trouble, ~Trouble', DeleteVisit, SlotOf(at, name) # 0
    PROVE  Table!Answer
<1>1. UniqueNames /\ op = "DeleteFileEntry" /\ pc = "delete" /\ Return("OK")
      /\ result' = result
      BY Deletes DEF IInv, TableInv, CallInv, DeleteVisit
<1>2. PICK x \in LiveEntries :
         /\ EntryAt(x).fname = name
         /\ LiveEntries' = LiveEntries \ {x}
         /\ \A y \in LiveEntries \ {x} : After(y) = EntryAt(y)
      BY Deletes DEF IInv, Removes
<1>3. UniqueNames'
      BY <1>1, <1>2 DEF UniqueNames, EntryAt, After
<1>4. /\ DOMAIN Files = {EntryAt(y).fname : y \in LiveEntries}
      /\ \A y \in LiveEntries : Files[EntryAt(y).fname] = EntryAt(y).pagenum
      /\ \A y \in LiveEntries \ {x} : EntryAt(y).fname # name
      BY <1>1, <1>2, FilesAre DEF UniqueNames
<1> DEFINE f == [n \in DOMAIN Files \ {name} |-> Files[n]]
<1>5. /\ f = [n \in DOMAIN f |-> f[n]]
      /\ DOMAIN f = {After(y).fname : y \in LiveEntries'}
      /\ \A y \in LiveEntries' : f[After(y).fname] = After(y).pagenum
      BY <1>2, <1>4
<1> HIDE DEF f
<1>6. Files' = f
      BY <1>3, <1>5, FilesNext
<1>7. status' = "OK" /\ name \in DOMAIN Files
      BY <1>1, <1>2, <1>4, Returns DEF IInv
<1>8. Table!Delete
      BY <1>1, <1>6, <1>7 DEF Table!Delete, f
<1> QED BY <1>1, <1>8, Answers

LEMMA GetsFromTable ==
    ASSUME IInv, ~Trouble, ~Trouble', GetVisit, SlotOf(at, name) # 0
    PROVE  Table!Answer
<1> DEFINE e == SlotOf(at, name)
<1>1. UniqueNames /\ pc = "get" /\ entries' = entries
      BY DEF IInv, TableInv, GetVisit, table
<1>2. /\ at \in HeaderPages /\ IsLive(at, e) /\ entries[at][e].fname = name
      BY InvTypes, SlotFound DEF IInv, ChainInv
<1> HIDE DEF e
<1>3. <<at, e>> \in LiveEntries /\ EntryAt(<<at, e>>) = entries[at][e]
  <2>1. EntryAt(<<at, e>>) = entries[at][e]
        BY DEF EntryAt
  <2> QED BY <1>2, <2>1, EntriesDo, LiveIs DEF LiveFacts, IInv, ChainInv
<1>4. /\ ~NameFree /\ name \in DOMAIN Files
      /\ Files[name] = entries[at][e].pagenum
      BY <1>1, <1>2, <1>3, FilesAre DEF NameFree
<1>5. CASE op = "GetFileEntry"
  <2>1. result' = entries[at][e].pagenum /\ Return("OK")
        BY <1>5 DEF GetVisit, e
  <2>2. status' = "OK" /\ Files' = Files
        BY <1>1, <2>1, Returns, SameLive DEF IInv
  <2>3. Table!Get
        BY <1>4, <1>5, <2>1, <2>2 DEF Table!Get
  <2> QED BY <1>1, <2>1, <2>3, Answers
<1>6. CASE op # "GetFileEntry"
  <2>1. op = "AddFileEntry" /\ Return("DUPLICATE_ENTRY") /\ result' = result
        BY <1>6 DEF GetVisit, e
  <2> QED BY <1>1, <1>4, <2>1, Fails
<1> QED BY <1>5, <1>6

\* Without trouble, a step is a call, an answer the table allows, or neither.
LEMMA RefinesStep ==
    ASSUME IInv, [Next]_vars, ~Trouble, ~Trouble'
    PROVE  Table!Ask \/ Table!Answer \/ UNCHANGED Table!vars
<1> DEFINE Goal == Table!Ask \/ Table!Answer \/ UNCHANGED Table!vars
<1>1. /\ ChainInv /\ UniqueNames
      /\ pc \in {"get", "delete"} => Visited
      /\ pc \in {"free", "new"} => NameFree /\ op = "AddFileEntry"
      BY DEF IInv, TableInv, CallInv
<1>2. CASE UNCHANGED vars
  <2>1. UNCHANGED <<pc, op, name, page, status, result, entries>>
        BY <1>2 DEF vars, table, args
  <2>2. Files' = Files /\ (pc # "idle")' = (pc # "idle")
        BY <2>1, SameLive
  <2> QED BY <2>1, <2>2, SameTrouble DEF Table!vars
<1>3. ASSUME NEW o \in {"AddFileEntry", "DeleteFileEntry", "GetFileEntry"},
             NEW n \in Names, NEW p \in StartPages, Call(o, n, p)
      PROVE  Goal
  <2>1. /\ pc = "idle" /\ pc' = "enter" /\ op' = o /\ name' = n /\ page' = p
        /\ result' \in StartPages /\ status' = "none" /\ entries' = entries
        BY <1>3, DirectoryAssumption DEF Call, table
  <2>2. Files' = Files
        BY <2>1, SameLive
  <2>3. (pc # "idle")' /\ ~(pc # "idle")
        BY <2>1
  <2> QED BY <2>1, <2>2, <2>3, SameTrouble DEF Table!Ask
<1>4. CASE Enter
  <2>1. pc = "enter" /\ entries' = entries /\ result' = result
        BY <1>4 DEF Enter, table
  <2>2. ASSUME NEW s \in {"FILE_NAME_TOO_LONG", "BAD_PAGE_NO"},
               op = "AddFileEntry", Return(s)
        PROVE  Goal
        BY <2>1, <2>2, Fails
  <2> QED BY <1>4, <2>1, <2>2, QuietWalks DEF Enter
<1>5. CASE PinHeader
  <2>1. /\ pc # "idle" /\ pc' # "idle" /\ entries' = entries
        /\ UNCHANGED <<op, name, page, status, result>>
        BY <1>5 DEF PinHeader, table, args
  <2> QED BY <2>1, Quiet
<1>6. CASE PinRefused
  <2>1. /\ pc # "idle" /\ entries' = entries /\ result' = result
        /\ Return("PIN_REFUSED")
        BY <1>6 DEF PinRefused, table, Trouble
  <2> QED BY <2>1, Fails
<1>7. CASE GetVisit
  <2>1. pc = "get" /\ entries' = entries /\ UNCHANGED table
        BY <1>7 DEF GetVisit, table
  <2>2. CASE SlotOf(at, name) # 0
        BY <1>7, <2>2, GetsFromTable
  <2>3. CASE SlotOf(at, name) = 0
    <3>1. result' = result
          BY <1>7, <2>3 DEF GetVisit
    <3>2. ASSUME LastPage, Return("FAIL"), op = "GetFileEntry" PROVE Goal
      <4>1. NameFree
            BY <1>1, <2>1, <2>3, <3>2, WalkedAll
      <4> QED BY <2>1, <3>1, <3>2, <4>1, Fails
    <3> QED BY <1>7, <2>1, <2>3, <3>1, <3>2, QuietWalks DEF GetVisit
  <2> QED BY <2>2, <2>3
<1>8. CASE DeleteVisit
  <2>1. pc = "delete" /\ result' = result /\ op = "DeleteFileEntry"
        BY <1>8 DEF DeleteVisit, IInv, CallInv
  <2>2. CASE SlotOf(at, name) # 0
        BY <1>8, <2>2, DeletesFromTable
  <2>3. CASE SlotOf(at, name) = 0
    <3>1. entries' = entries
          BY <1>8, <2>3 DEF DeleteVisit
    <3>2. ASSUME LastPage, Return("FILE_NOT_FOUND") PROVE Goal
      <4>1. NameFree
            BY <1>1, <2>1, <2>3, <3>2, WalkedAll
      <4> QED BY <2>1, <3>1, <3>2, <4>1, Fails
    <3> QED BY <1>8, <2>1, <2>3, <3>1, <3>2, QuietWalks DEF DeleteVisit
  <2> QED BY <2>2, <2>3
<1>9. CASE FreeVisit
  <2>1. pc = "free" /\ result' = result
        BY <1>9 DEF FreeVisit
  <2>2. CASE FreeSlot(at) # 0
        BY <1>1, <1>9, <2>1, <2>2, FillsFreeSlot, AddsToTable
  <2>3. CASE FreeSlot(at) = 0
    <3>1. entries' = entries /\ (GoOn \/ (pc' = "new" /\ UNCHANGED <<status, args>>))
          BY <1>9, <2>3 DEF FreeVisit
    <3>2. ASSUME pc' = "new", UNCHANGED <<status, args>> PROVE Goal
          BY <2>1, <3>1, <3>2, Quiet DEF args
    <3> QED BY <2>1, <3>1, <3>2, QuietWalks
  <2> QED BY <2>2, <2>3
<1>10. CASE NoNewPage
  <2>1. pc = "free" /\ entries' = entries /\ result' = result
        BY <1>10 DEF NoNewPage, table
  <2>2. ASSUME NEW s \in {"DB_FULL", "PIN_REFUSED"}, Return(s) PROVE Goal
        BY <1>1, <2>1, <2>2, Fails
  <2> QED BY <1>10, <2>2 DEF NoNewPage
<1>11. CASE NewHeader
  <2>1. pc = "new" /\ result' = result
        BY <1>11 DEF NewHeader
  <2>2. ASSUME Return("OK"),
               entries' = [entries EXCEPT ![at] = [Fresh(at) EXCEPT ![1] = NewEntry]]
        PROVE  Goal
        BY <1>1, <2>1, <2>2, FillsNewHeader, AddsToTable
  <2>3. ASSUME Return("PIN_REFUSED"), entries' = entries PROVE Goal
        BY <2>1, <2>3, Fails
  <2> QED BY <1>11, <2>2, <2>3 DEF NewHeader
<1>12. CASE ReadGarbage
      BY <1>12 DEF ReadGarbage, Readable, Trouble
<1>13. CASE Reopen
      BY <1>1, <1>13, ReopenIsTrouble
<1>14. INVALID_PAGE \in StartPages
      BY DirectoryAssumption
<1> QED BY <1>2, <1>3, <1>4, <1>5, <1>6, <1>7, <1>8, <1>9, <1>10, <1>11, <1>12,
           <1>13, <1>14 DEF Next, Step, Stop

\* The directory implements a NameTable: an entry is added only under a name
\* that is free, a lookup answers "no" only if the name is not there, though
\* the walks of AddFileEntry look at one page after another.
THEOREM Refinement == Spec => TableSpec
<1>1. Init => Table!Init
  <2> SUFFICES ASSUME Init PROVE Table!Init
      OBVIOUS
  <2>1. IInv /\ ~Trouble
        BY InitInvariant DEF Init, Trouble, Garbage
  <2>2. LiveEntries = {}
        BY FreshIsEmpty
  <2>3. DOMAIN Files = {}
        BY <2>2 DEF Files
  <2>4. (unsure \/ Garbage # {}) = FALSE /\ (pc # "idle") = FALSE
        BY DEF Init, Garbage
  <2> QED BY <2>1, <2>3, <2>4, InvTypes DEF Init, IInv, Table!Init
<1>2. IInv /\ [Next]_vars =>
         [Table!Ask \/ Table!Answer \/ (unsure \/ Garbage # {})']_(Table!vars)
  <2> SUFFICES ASSUME IInv, [Next]_vars, ~Trouble'
               PROVE  Table!Ask \/ Table!Answer \/ UNCHANGED Table!vars
      BY DEF Trouble
  <2>1. ~Trouble
        BY TroubleStays DEF IInv
  <2> QED BY <2>1, RefinesStep
<1> QED BY Invariance, <1>1, <1>2, PTL DEF Spec, TableSpec, Table!Spec

-----------------------------------------------------------------------------
(* Calls come to an end *)

\* The header pages a walk at p has before it: those in every set that has p
\* and, with a page the walk does not stop at, the page after it.
Closed(U) == \A q \in U : ~Ends(q) => next[q] \in U
Ahead(p)  == {q \in Linked : \A U \in SUBSET Linked : p \in U /\ Closed(U) => q \in U}

\* How many steps a call can still make at most: a walk pins and reads each
\* page that is ahead, and AddFileEntry walks the chain twice.
WalkLeft  == 2 * Cardinality(Ahead(at)) + (IF at \in pinned THEN 0 ELSE 1)
WholeWalk == 2 * Cardinality(HeaderPages) + 2
StepsLeft ==
    CASE pc = "enter" -> WholeWalk + WholeWalk
      [] pc \in {"get", "delete"} -> WholeWalk + WalkLeft
      [] pc = "free"  -> WalkLeft
      [] pc = "new"   -> 1
      [] OTHER        -> 0

LEMMA HeaderCount ==
    IsFiniteSet(HeaderPages) /\ Cardinality(HeaderPages) \in Nat
<1>1. IsFiniteSet(0 .. NumPages - 1)
  <2>1. 0 \in Int /\ NumPages - 1 \in Int
        BY DirectoryAssumption
  <2> QED BY <2>1, FS_Interval
<1>2. IsFiniteSet({0} \cup (0 .. NumPages - 1))
      BY <1>1, FS_Singleton, FS_Union
<1>3. HeaderPages \subseteq {0} \cup (0 .. NumPages - 1)
      BY DirectoryAssumption DEF HeaderPages
<1> QED BY <1>2, <1>3, FS_Subset, FS_CardinalityType

LEMMA Onward ==
    ASSUME ChainInv, NEW p \in Linked, ~Ends(p)
    PROVE  next[p] # INVALID_PAGE /\ next[p] \in Linked
BY LinksStay DEF Ends

LEMMA AheadIs ==
    ASSUME ChainInv, NEW p \in Linked
    PROVE  /\ p \in Ahead(p) /\ Ahead(p) \subseteq Linked /\ Closed(Ahead(p))
           /\ \A U \in SUBSET Linked : p \in U /\ Closed(U) => Ahead(p) \subseteq U
<1>2. ASSUME NEW q \in Ahead(p), ~Ends(q) PROVE next[q] \in Ahead(p)
  <2>1. q \in Linked /\ next[q] \in Linked
        BY <1>2, Onward DEF Ahead
  <2>2. ASSUME NEW U \in SUBSET Linked, p \in U, Closed(U) PROVE next[q] \in U
    <3>1. q \in U
          BY <2>2 DEF Ahead
    <3> QED BY <1>2, <2>2, <3>1 DEF Closed
  <2> QED BY <2>1, <2>2 DEF Ahead
<1>3. Closed(Ahead(p))
      BY <1>2 DEF Closed
<1> QED BY <1>3 DEF Ahead

LEMMA AheadCount ==
    ASSUME ChainInv, NEW p \in Linked
    PROVE  /\ IsFiniteSet(Ahead(p)) /\ Cardinality(Ahead(p)) \in Nat \ {0}
           /\ Cardinality(Ahead(p)) <= Cardinality(HeaderPages)
<1>1. p \in Ahead(p) /\ Ahead(p) \subseteq HeaderPages
      BY AheadIs, InvTypes
<1>2. /\ IsFiniteSet(Ahead(p)) /\ Cardinality(Ahead(p)) \in Nat
      /\ Cardinality(Ahead(p)) <= Cardinality(HeaderPages)
      BY <1>1, HeaderCount, FS_Subset, FS_CardinalityType
<1>3. Cardinality(Ahead(p)) # 0
      BY <1>1, <1>2, FS_EmptySet
<1> QED BY <1>2, <1>3

\* Every page ahead of a page p is the next of another one that is ahead, if p
\* itself is ahead of the page after it.
LEMMA AllEntered ==
    ASSUME ChainInv, NEW p \in Linked, ~Ends(p), p \in Ahead(next[p]),
           NEW x \in Ahead(next[p])
    PROVE  \E y \in Ahead(next[p]) : ~Ends(y) /\ next[y] = x
<1> DEFINE n == next[p]
           A == Ahead(n)
<1>1. n \in A /\ A \subseteq Linked /\ Closed(A) /\ p \in A /\ x \in A
      /\ \A U \in SUBSET Linked : n \in U /\ Closed(U) => A \subseteq U
      BY Onward, AheadIs
<1>2. next[p] = n
      OBVIOUS
<1> HIDE DEF n, A
<1>3. CASE x = n
      BY <1>1, <1>2, <1>3
<1>4. CASE x # n /\ ~\E y \in A : ~Ends(y) /\ next[y] = x
  <2> DEFINE U == A \ {x}
  <2>1. U \in SUBSET Linked /\ n \in U
        BY <1>1, <1>4
  <2>2. Closed(U)
        BY <1>1, <1>4 DEF Closed
  <2>3. A \subseteq U
    <3> HIDE DEF U
    <3> QED BY <1>1, <2>1, <2>2
  <2> QED BY <1>1, <2>3
<1> QED BY <1>3, <1>4 DEF n, A

\* A walk that has a page to stop at does not come back to a page: the pages
\* ahead would be a ring, each of them after another one at which the walk goes
\* on.  One of them at which it stops would be one too many; and if there is
\* none, the ring is cut off from the chain, or it is all of it.
LEMMA NoWayBack ==
    ASSUME ChainInv, NEW p \in Linked, ~Ends(p), NEW t \in Linked, Ends(t)
    PROVE  /\ next[p] \in Linked /\ Ahead(next[p]) \subseteq Ahead(p)
           /\ p \notin Ahead(next[p])
<1> DEFINE n == next[p]
           A == Ahead(n)
<1>1. /\ n \in Linked
      /\ n \in A /\ A \subseteq Linked /\ Closed(A)
      /\ \A U \in SUBSET Linked : n \in U /\ Closed(U) => A \subseteq U
      /\ IsFiniteSet(A)
      BY Onward, AheadIs, AheadCount
<1>2. p \in A => \A x \in A : \E y \in A : ~Ends(y) /\ next[y] = x
      BY AllEntered
<1> HIDE DEF A
<1>3. A \subseteq Ahead(p)
  <2>1. p \in Ahead(p) /\ Ahead(p) \subseteq Linked /\ Closed(Ahead(p))
        BY AheadIs
  <2>2. n \in Ahead(p)
        BY <2>1 DEF Closed
  <2> QED BY <1>1, <2>1, <2>2
<1> HIDE DEF n
<1>4. ASSUME p \in A, NEW u \in A, Ends(u) PROVE FALSE
  <2> DEFINE f == [x \in A |-> CHOOSE y \in A : ~Ends(y) /\ next[y] = x]
             B == A \ {u}
  <2>1. \A x \in A : f[x] \in B /\ next[f[x]] = x
        BY <1>2, <1>4
  <2>2. f \in [A -> B]
        BY <2>1
  <2>3. IsFiniteSet(B) /\ Cardinality(B) < Cardinality(A)
    <3>1. IsFiniteSet(B) /\ Cardinality(B) = Cardinality(A) - 1
          BY <1>1, FS_RemoveElement
    <3>2. Cardinality(A) \in Nat
          BY <1>1, FS_CardinalityType
    <3> QED BY <3>1, <3>2
  <2> HIDE DEF f, B
  <2>4. \E x, y \in A : x # y /\ f[x] = f[y]
        BY <1>1, <2>2, <2>3, FS_PigeonHole
  <2> QED BY <2>1, <2>4
<1>5. ASSUME p \in A, \A u \in A : ~Ends(u) PROVE FALSE
  <2>1. \A q \in A : next[q] \in A
        BY <1>1, <1>5 DEF Closed
  <2>2. /\ \A q, r \in Written : next[q] = next[r] /\ next[q] # INVALID_PAGE => q = r
        /\ \A S \in (SUBSET allocated) \ {{}} : \E q \in Written \ S : next[q] \in S
        /\ INVALID_PAGE \notin Linked /\ Written \subseteq Linked
    <3>1. INVALID_PAGE \notin Linked
          BY InvTypes, NumEntriesType
    <3> QED BY <3>1, InvTypes DEF ChainInv, OneChain
  <2>3. CASE 0 \in A
    <3> DEFINE S == Linked \ A
    <3>1. S \in (SUBSET allocated) \ {{}}
          BY <1>5, <2>3 DEF Linked
    <3>2. PICK q \in Written \ S : next[q] \in S
          BY <2>2, <3>1
    <3>3. q \in A
          BY <2>2, <3>2
    <3> QED BY <2>1, <3>2, <3>3
  <2>4. CASE 0 \notin A
    <3>1. A \in (SUBSET allocated) \ {{}}
          BY <1>1, <2>4 DEF Linked
    <3>2. PICK q \in Written \ A : next[q] \in A
          BY <2>2, <3>1
    <3>3. PICK y \in A : next[y] = next[q]
          BY <1>2, <1>5, <3>2
    <3>4. CASE y \in Written
      <4>1. next[q] # INVALID_PAGE
            BY <1>1, <2>2, <3>2
      <4>2. q = y
            BY <2>2, <3>2, <3>3, <3>4, <4>1
      <4> QED BY <3>2, <4>2
    <3>5. CASE y \notin Written
      <4>1. y \in HeaderPages \ Written
            BY <1>1, <3>5, InvTypes
      <4>2. next[y] = 0
            BY <4>1 DEF ChainInv, WalkInv, Blank
      <4> QED BY <2>4, <3>2, <3>3, <4>2
    <3> QED BY <3>4, <3>5
  <2> QED BY <2>3, <2>4
<1> QED BY <1>1, <1>3, <1>4, <1>5 DEF n, A

LEMMA AheadShrinks ==
    ASSUME ChainInv, NEW p \in Linked, ~Ends(p), NEW t \in Linked, Ends(t)
    PROVE  Cardinality(Ahead(next[p])) < Cardinality(Ahead(p))
<1>1. /\ next[p] \in Linked /\ Ahead(next[p]) \subseteq Ahead(p)
      /\ p \notin Ahead(next[p]) /\ p \in Ahead(p)
      BY NoWayBack, AheadIs
<1>2. IsFiniteSet(Ahead(p)) /\ Cardinality(Ahead(p)) \in Nat
      BY AheadCount
<1>3. Ahead(next[p]) \subseteq Ahead(p) \ {p}
      BY <1>1
<1>4. Cardinality(Ahead(p) \ {p}) = Cardinality(Ahead(p)) - 1 /\ IsFiniteSet(Ahead(p) \ {p})
      BY <1>1, <1>2, FS_RemoveElement
<1>5. Cardinality(Ahead(next[p])) <= Cardinality(Ahead(p) \ {p})
      BY <1>3, <1>4, FS_Subset
<1>6. Cardinality(Ahead(next[p])) \in Nat
      BY <1>1, AheadCount
<1> QED BY <1>2, <1>4, <1>5, <1>6

\* What is left of a walk.
WalkBounds ==
    /\ WalkLeft \in Nat /\ WalkLeft > 1 /\ WalkLeft < WholeWalk /\ WholeWalk \in Nat
    /\ WalkLeft = 2 * Cardinality(Ahead(at)) + (IF at \in pinned THEN 0 ELSE 1)
LEMMA WalkLeftIs == ChainInv => WalkBounds
<1> SUFFICES ASSUME ChainInv PROVE WalkBounds
    OBVIOUS
<1> DEFINE c == Cardinality(Ahead(at))
           h == Cardinality(HeaderPages)
<1>1. c \in Nat \ {0} /\ h \in Nat /\ c <= h
      BY AheadCount, HeaderCount DEF ChainInv, WalkInv
<1>2. WalkLeft = 2 * c + (IF at \in pinned THEN 0 ELSE 1) /\ WholeWalk = 2 * h + 2
      BY DEF WalkLeft, WholeWalk
<1> HIDE DEF c, h
<1>3. 2 * c \in Nat /\ 2 * c >= 2 /\ 2 * c <= 2 * h /\ 2 * h \in Nat
      BY <1>1
<1>4. WalkLeft = 2 * c \/ WalkLeft = 2 * c + 1
  <2>1. CASE at \in pinned
        BY <1>2, <1>3, <2>1
  <2>2. CASE at \notin pinned
        BY <1>2, <2>2
  <2> QED BY <2>1, <2>2
<1>5. WalkLeft \in Nat /\ WalkLeft > 1 /\ WalkLeft < WholeWalk /\ WholeWalk \in Nat
      BY <1>2, <1>3, <1>4
<1> QED BY <1>2, <1>5 DEF c, WalkBounds

Between == pc \in {"idle", "undefined"}
StepsCounted == StepsLeft \in Nat /\ (StepsLeft = 0 <=> Between)
LEMMA StepsLeftType == ChainInv => StepsCounted
<1> SUFFICES ASSUME ChainInv PROVE StepsCounted
    OBVIOUS
<1>1. WalkLeft \in Nat /\ WalkLeft > 1 /\ WholeWalk \in Nat
      BY WalkLeftIs DEF WalkBounds
<1>2. pc \in {"idle", "enter", "get", "delete", "free", "new", "undefined"}
      BY DEF ChainInv, Types
<1>3. WholeWalk > WalkLeft
      BY WalkLeftIs DEF WalkBounds
<1> QED BY <1>1, <1>2, <1>3 DEF StepsCounted, StepsLeft, Between

\* The header pages and what is looked for stay as they are within a walk.
SameWalk == /\ UNCHANGED <<next, entries, allocated, uninit, dangling, pc, name>>
LEMMA AheadStays ==
    ASSUME SameWalk
    PROVE  Ahead(at)' = Ahead(at') /\ (Endless' <=> Endless)
<1>1. \A q : Ends(q)' <=> Ends(q)
  <2>1. /\ \A q : SlotOf(q, name)' = SlotOf(q, name)
        /\ \A q : FreeSlot(q)' = FreeSlot(q)
        BY DEF SameWalk, SlotOf, FreeSlot, SelectInSeq, Min
  <2> QED BY <2>1 DEF SameWalk, Ends, Garbage
<1>2. Linked' = Linked /\ next' = next /\ pc' = pc
      BY DEF SameWalk, Linked
<1>3. \A U : Closed(U)' <=> Closed(U)
      BY <1>1, <1>2 DEF Closed
<1>4. Endless' <=> Endless
      BY <1>1, <1>2 DEF Endless
<1> QED BY <1>2, <1>3, <1>4 DEF Ahead

LEMMA WalkLeftNext ==
    ASSUME ChainInv'
    PROVE  /\ WalkLeft' \in Nat /\ WalkLeft' > 1 /\ WalkLeft' < WholeWalk
           /\ SameWalk => WalkLeft' = 2 * Cardinality(Ahead(at'))
                                      + (IF at' \in pinned' THEN 0 ELSE 1)
<1>1. WalkBounds'
      BY WalkLeftIs, PTL
<1>2. WholeWalk' = WholeWalk
      BY DEF WholeWalk, HeaderPages
<1>3. WalkLeft' = 2 * Cardinality(Ahead(at)') + (IF at' \in pinned' THEN 0 ELSE 1)
      BY <1>1 DEF WalkBounds
<1>4. WalkLeft' \in Nat /\ WalkLeft' > 1 /\ WalkLeft' < WholeWalk
      BY <1>1, <1>2 DEF WalkBounds
<1>5. SameWalk => Ahead(at)' = Ahead(at')
      BY AheadStays
<1> QED BY <1>3, <1>4, <1>5

LEMMA PinLowers ==
    ASSUME ChainInv, ChainInv', SameWalk, at' = at,
           at \notin pinned, pinned' = pinned \cup {at}
    PROVE  WalkLeft' < WalkLeft
<1> DEFINE c == Cardinality(Ahead(at))
<1>1. c \in Nat
      BY AheadCount DEF ChainInv, WalkInv
<1>2. WalkLeft' = 2 * c + 0 /\ WalkLeft = 2 * c + 1
      BY WalkLeftIs, WalkLeftNext DEF WalkBounds
<1> HIDE DEF c
<1> QED BY <1>1, <1>2

LEMMA GoingOnLowers ==
    ASSUME ChainInv, ChainInv', SameWalk, at \in pinned, GoOn, ~LastPage,
           ~Ends(at), pc \in {"get", "delete", "free"}, ~Endless
    PROVE  WalkLeft' < WalkLeft
<1> DEFINE c == Cardinality(Ahead(at))
           d == Cardinality(Ahead(next[at]))
<1>1. PICK t \in Linked : Ends(t)
      BY DEF Endless
<1>2. at \in Linked /\ next[at] \in Linked
      BY Onward DEF ChainInv, WalkInv
<1>3. c \in Nat /\ d \in Nat /\ d < c
      BY <1>1, <1>2, AheadCount, AheadShrinks
<1>4. WalkLeft' = 2 * d + 1 /\ WalkLeft = 2 * c + 0
  <2>1. at' = next[at] /\ pinned' = {}
        BY Goes
  <2> QED BY <2>1, WalkLeftIs, WalkLeftNext DEF WalkBounds
<1> HIDE DEF c, d
<1> QED BY <1>3, <1>4

\* A walk goes on from a page at which it does not stop.
LEMMA Passes ==
    ASSUME at \notin Garbage, ~LastPage,
           \/ pc \in {"get", "delete"} /\ SlotOf(at, name) = 0
           \/ pc = "free" /\ FreeSlot(at) = 0
    PROVE  ~Ends(at)
BY DEF Ends, LastPage

LEMMA StepsFall ==
    ASSUME ChainInv, Step, ~Endless PROVE StepsLeft' < StepsLeft
<1>1. ChainInv'
      BY ChainNext DEF Next
<1>2. WalkLeft \in Nat /\ WalkLeft > 1 /\ WalkLeft < WholeWalk /\ WholeWalk \in Nat
      BY WalkLeftIs DEF WalkBounds
<1>3. WholeWalk' = WholeWalk
      BY DEF WholeWalk, HeaderPages
<1> DEFINE w == WalkLeft
           v == WalkLeft'
           h == WholeWalk
           z == StepsLeft
           y == StepsLeft'
<1>4. /\ (pc = "enter" => z = h + h)
      /\ (pc \in {"get", "delete"} => z = h + w)
      /\ (pc = "free" => z = w)
      /\ (pc = "new" => z = 1)
      BY DEF StepsLeft
<1>5. /\ (pc' \in {"get", "delete"} => y = h + v)
      /\ (pc' = "free" => y = v)
      /\ (pc' = "new" => y = 1)
      /\ (pc' \in {"idle", "undefined"} => y = 0)
      BY <1>3 DEF StepsLeft
<1> HIDE DEF w, v, h, z, y
<1>6. w \in Nat /\ w > 1 /\ w < h /\ h \in Nat
      BY <1>2 DEF w, h
<1>7. v \in Nat /\ v < h
      BY <1>1, WalkLeftNext DEF v, h
<1>8. pc \in {"enter", "get", "delete", "free", "new"} /\ pc' \in {"idle", "undefined"} => y < z
      BY <1>4, <1>5, <1>6
<1>9. ASSUME v < w, pc' = pc, pc \in {"get", "delete", "free"} PROVE y < z
      BY <1>4, <1>5, <1>6, <1>7, <1>9
<1>10. ASSUME pc' = "free", pc = "get" PROVE y < z
       BY <1>4, <1>5, <1>6, <1>7, <1>10
<1>11. ASSUME UNCHANGED <<next, entries, allocated, uninit, dangling>>,
              Readable, GoOn, ~LastPage,
              \/ pc \in {"get", "delete"} /\ SlotOf(at, name) = 0
              \/ pc = "free" /\ FreeSlot(at) = 0
       PROVE  y < z
  <2>1. at \in pinned /\ ~Ends(at) /\ pc \in {"get", "delete", "free"}
        BY <1>11, Passes DEF Readable
  <2>2. SameWalk
        BY <1>11 DEF SameWalk, GoOn, args
  <2>3. v < w /\ pc' = pc
        BY <1>1, <1>11, <2>1, <2>2, GoingOnLowers, Goes DEF v, w
  <2> QED BY <1>9, <2>1, <2>3
<1>12. CASE Enter
  <2>1. pc = "enter" /\ pc' \in {"idle", "get", "delete"}
        BY <1>12 DEF Enter, Return, StartWalk
  <2> QED BY <1>4, <1>5, <1>6, <1>7, <1>8, <2>1 DEF y, z
<1>13. CASE PinHeader
  <2>1. /\ pc \in {"get", "delete", "free"} /\ at \notin pinned /\ pinned' = pinned \cup {at}
        /\ SameWalk /\ at' = at /\ pc' = pc
        BY <1>13 DEF PinHeader, table, SameWalk, args
  <2>2. v < w
        BY <1>1, <2>1, PinLowers DEF v, w
  <2> QED BY <1>9, <2>1, <2>2 DEF y, z
<1>14. CASE PinRefused
  <2>1. /\ pc \in {"get", "delete", "free"}
        /\ pc' = "idle" \/ (pc = "get" /\ pc' = "free")
        BY <1>14 DEF PinRefused, Return, StartWalk
  <2> QED BY <1>8, <1>10, <2>1 DEF y, z
<1>15. CASE GetVisit
  <2>1. /\ pc = "get" /\ Readable /\ UNCHANGED <<next, entries, allocated, uninit, dangling>>
        /\ \/ pc' = "idle" \/ pc' = "free"
           \/ GoOn /\ ~LastPage /\ SlotOf(at, name) = 0
        BY <1>15 DEF GetVisit, table, Return, StartWalk
  <2> QED BY <1>8, <1>10, <1>11, <2>1 DEF y, z
<1>16. CASE DeleteVisit
  <2>1. /\ pc = "delete" /\ Readable /\ UNCHANGED <<next, allocated, uninit, dangling>>
        /\ \/ pc' = "idle"
           \/ GoOn /\ ~LastPage /\ SlotOf(at, name) = 0 /\ UNCHANGED entries
        BY <1>16 DEF DeleteVisit, Return
  <2> QED BY <1>8, <1>11, <2>1 DEF y, z
<1>17. CASE FreeVisit
  <2>1. /\ pc = "free" /\ Readable
        /\ \/ pc' = "idle"
           \/ /\ GoOn /\ ~LastPage /\ FreeSlot(at) = 0
              /\ UNCHANGED <<next, entries, allocated, uninit, dangling>>
           \/ pc' = "new"
        BY <1>17 DEF FreeVisit, Return
  <2>2. pc' = "new" => y < z
        BY <1>4, <1>5, <1>6, <2>1
  <2> QED BY <1>8, <1>11, <2>1, <2>2 DEF y, z
<1>18. CASE NoNewPage
       BY <1>8, <1>18 DEF NoNewPage, Return, y, z
<1>19. CASE NewHeader
       BY <1>8, <1>19 DEF NewHeader, Return, y, z
<1>20. CASE ReadGarbage
       BY <1>8, <1>20 DEF ReadGarbage, y, z
<1> QED BY <1>12, <1>13, <1>14, <1>15, <1>16, <1>17, <1>18, <1>19, <1>20 DEF Step

\* Where every page that is linked is initialised, there is a last one: the
\* links would lead from the pages to fewer pages, and none is linked twice.
EndlessInRing == Endless => uninit # {}
LEMMA ChainHasEnd == ChainInv => EndlessInRing
<1> SUFFICES ASSUME ChainInv, Endless, uninit = {} PROVE FALSE
    BY DEF EndlessInRing
<1>1. Written = Linked /\ \A q \in Linked : ~Ends(q)
      BY DEF Endless, Written, Unwritten
<1> DEFINE f == [q \in Linked |-> next[q]]
<1>2. f \in [Linked -> allocated]
      BY <1>1, Onward, LinksStay
<1>3. \A q, r \in Linked : f[q] = f[r] => q = r
      BY <1>1, Onward DEF ChainInv, OneChain
<1>4. IsFiniteSet(Linked)
      BY HeaderCount, InvTypes, FS_Subset
<1>5. allocated = Linked \ {0} /\ 0 \in Linked
      BY NumEntriesType DEF Linked, ChainInv, Types
<1>6. IsFiniteSet(allocated) /\ Cardinality(allocated) < Cardinality(Linked)
  <2>1. IsFiniteSet(allocated) /\ Cardinality(allocated) = Cardinality(Linked) - 1
        BY <1>4, <1>5, FS_RemoveElement
  <2>2. Cardinality(Linked) \in Nat
        BY <1>4, FS_CardinalityType
  <2> QED BY <2>1, <2>2
<1> HIDE DEF f
<1>7. \E q, r \in Linked : q # r /\ f[q] = f[r]
      BY <1>2, <1>4, <1>6, FS_PigeonHole
<1> QED BY <1>3, <1>7

\* Each step of a call lowers StepsLeft, a number that is 0 between calls only,
\* unless the walk has no page to stop at; and that is so only when a refused
\* pin has left a page that is linked and not initialised, which leads back to
\* the first one.  The walks of db.cpp:338, 428 and 488 have no other bound
\* than the end of the chain.
StepsGoDown == [][~Between /\ ~Endless => StepsLeft' < StepsLeft]_vars
THEOREM CallsAreFinite == Spec => [](StepsCounted /\ EndlessInRing) /\ StepsGoDown
<1>1. IInv => StepsCounted /\ EndlessInRing
      BY StepsLeftType, ChainHasEnd DEF IInv
<1>2. IInv /\ Next => (~Between /\ ~Endless => StepsLeft' < StepsLeft \/ UNCHANGED vars)
      BY StepsFall DEF IInv, Next, Stop, Call, Reopen, Between
<1> QED BY <1>1, <1>2, Invariance, PTL DEF Spec, StepsGoDown

\* A walk that has no page to stop at goes round until a pin is refused: the
\* call does not return by itself.
GoesRound == [][Endless => Endless' \/ refusals' = refusals + 1]_vars
THEOREM RingHoldsTheWalk == Spec => GoesRound
<1>1. ASSUME ChainInv, Next, Endless PROVE Endless' \/ refusals' = refusals + 1
  <2>1. /\ pc \in {"get", "delete", "free"} /\ ~Ends(at)
        BY <1>1 DEF Endless, ChainInv, WalkInv
  <2>2. /\ pc \in {"get", "delete"} => SlotOf(at, name) = 0
        /\ pc = "free" => FreeSlot(at) = 0
        /\ ~LastPage /\ at \notin Garbage
        BY <2>1 DEF Ends, LastPage
  <2>3. SameWalk => Endless'
        BY <1>1, AheadStays
  <2>4. PinHeader \/ GetVisit \/ DeleteVisit \/ FreeVisit => SameWalk
        BY <2>1, <2>2 DEF PinHeader, GetVisit, DeleteVisit, FreeVisit, GoOn, SameWalk,
              table, args
  <2>5. PinRefused => refusals' = refusals + 1
        BY DEF PinRefused
  <2>6. ~(Enter \/ NoNewPage \/ NewHeader \/ ReadGarbage \/ Reopen \/ Stop)
        BY <2>1, <2>2 DEF Enter, NoNewPage, NewHeader, ReadGarbage, Readable, Reopen, Stop
  <2>7. \A o, n, p : ~Call(o, n, p)
        BY <2>1 DEF Call
  <2> QED BY <1>1, <2>3, <2>4, <2>5, <2>6, <2>7 DEF Next, Step
<1>2. IInv /\ Next => (Endless => Endless' \/ refusals' = refusals + 1)
      BY <1>1 DEF IInv
<1> QED BY <1>2, Invariance, PTL DEF Spec, GoesRound
=============================================================================
