--------------------------- MODULE PageAllocator ---------------------------
(***************************************************************************)
(* What the space manager of a Minibase database promises its callers:     *)
(* pages are handed out in runs, a page belongs to at most one run at a    *)
(* time, and the header page and the space-map pages are never given away. *)
(* SpaceMap implements this specification.                                 *)
(***************************************************************************)
EXTENDS Integers

CONSTANTS Pages,      \* the page numbers of the database
          Reserved    \* the pages the database keeps for itself

VARIABLE held         \* the pages the callers own

TypeOK == held \subseteq Pages \ Reserved

Init == held = {}

\* A run of n free pages is given to the caller (any run, of any length).
Allocate ==
    \E s \in Pages, e \in Pages :
        /\ s .. e \subseteq Pages \ (Reserved \cup held)
        /\ held' = held \cup (s .. e)

\* The caller gives pages up.
Release == \E S \in SUBSET held : held' = held \ S

Next == Allocate \/ Release

Spec == Init /\ [][Next]_held
=============================================================================
