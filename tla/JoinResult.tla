----------------------------- MODULE JoinResult -----------------------------
(***************************************************************************)
(* What a join promises, whatever its algorithm: the pairs it puts into    *)
(* its result are pairs that belong there, and it returns when they are    *)
(* all there or when something has failed.                                 *)
(***************************************************************************)
VARIABLES wanted,   \* the pairs of the join
          result,   \* the ones found
          excuse,   \* something has failed
          over      \* the join has returned

Init == result = {} /\ excuse = FALSE /\ over = FALSE

Collect ==
    /\ ~over
    /\ \E P \in SUBSET (wanted \ result) : result' = result \cup P
    /\ excuse' \in {excuse, TRUE}
    /\ UNCHANGED <<wanted, over>>

Return ==
    /\ ~over /\ over' = TRUE
    /\ excuse' \in {excuse, TRUE}
    /\ result = wanted \/ excuse'
    /\ UNCHANGED <<wanted, result>>

Next == Collect \/ Return
Spec == Init /\ [][Next]_<<wanted, result, excuse, over>>
=============================================================================
