------------------------------ MODULE MCBufMgr ------------------------------
(***************************************************************************)
(* An instance of BufMgr for TLC: a square pool of four frames, which is   *)
(* the smallest on which the two ways of numbering frames agree and a row  *)
(* has a second frame, and one page more than fits.                        *)
(***************************************************************************)
EXTENDS BufMgr, TLC

PidSymmetry == Permutations(Pids)
=============================================================================
