------------------------------ MODULE MCJoins -------------------------------
(***************************************************************************)
(* An instance of Joins for TLC: three records in each relation, in every  *)
(* order the shuffle gives and with every reference from R to S; a block   *)
(* of two records and a half, so that R fills one and a half blocks.       *)
(***************************************************************************)
EXTENDS Joins
=============================================================================
