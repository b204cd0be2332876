------------------------------ MODULE MCIdList ------------------------------
(* IdList for TLC.                                                         *)
EXTENDS IdList

CONSTANTS t1, t2

TwoThreads == {t1, t2}
=============================================================================
