---------------------------- MODULE MCListAppend ----------------------------
(***************************************************************************)
(* The list-append checker on the histories of three transactions on two   *)
(* keys: at most two mops each and five in all, and at most one of the     *)
(* transactions fails or ends unknown.                                     *)
(***************************************************************************)
EXTENDS ListAppendDB, TLC

CONSTANTS t1, t2, t3, x, y

ThreeTxns == {t1, t2, t3}
TwoKeys == {x, y}

Symmetry == Permutations(ThreeTxns) \cup Permutations(TwoKeys)
=============================================================================
