----------------------------- MODULE MCCoverDB ------------------------------
(***************************************************************************)
(* Instances of CoverDB for TLC: the decomposition and the four queries of *)
(* the code, and covers of up to three tuples.                             *)
(***************************************************************************)
EXTENDS CoverDB

MCTuples == {<<1, 1, 1, 1, 1, 1>>, <<1, 1, 2, 2, 2, 2>>, <<1, 2, 1, 2, 1, 1>>,
             <<2, 1, 1, 1, 1, 2>>, <<1, 1, 1, 2, 2, 1>>}
=============================================================================
