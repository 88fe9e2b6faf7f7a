----------------------------- MODULE MCSpaceMap -----------------------------
(***************************************************************************)
(* Instances of SpaceMap for TLC: 7 pages, map pages of 2 bytes of 2 bits, *)
(* so that the map takes 2 pages, the second half used, and a run can      *)
(* cross a byte and a page of the map.                                     *)
(***************************************************************************)
EXTENDS SpaceMap

\* An empty file, and an older database with two pages in use.
MCOldMaps == {{}, {0, 1, 2, 4}}
=============================================================================
