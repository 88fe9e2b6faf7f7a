----------------------------- MODULE MCHeapFile -----------------------------
(***************************************************************************)
(* Instances of HeapFile for TLC.  A data area of 20 bytes takes two small *)
(* records or one large one, a directory page two entries, so that a file  *)
(* of six pages at most fills pages, directory pages and the database.     *)
(* slots[0] of a new page is not empty, as in a frame of zeroes.           *)
(***************************************************************************)
EXTENDS HeapFile

MCStaleSlots == {{0}}
=============================================================================
