--------------------------- MODULE MCFileDirectory ---------------------------
(***************************************************************************)
(* Instances of FileDirectory for TLC: three names and one too long, one   *)
(* entry on each header page, so that a chain of three pages can be built  *)
(* and filled, start pages of which the first and last are no pages, and   *)
(* of the two pages that can be linked one blank and one not.              *)
(***************************************************************************)
EXTENDS FileDirectory

MCStartPages == {-1, 4, 5, 6}
MCFreePages  == {2, 3}
MCStalePages == {3}
=============================================================================
