----------------------------- MODULE MCHeapPage -----------------------------
(***************************************************************************)
(* A page of twelve shorts for TLC: three records of up to four shorts do  *)
(* not fit, and the first record lies under slots[2].                      *)
(***************************************************************************)
EXTENDS HeapPage

MCStale  == {-1, 0}
MCValues == {7, 8}
=============================================================================
