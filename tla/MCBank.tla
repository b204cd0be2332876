------------------------------- MODULE MCBank -------------------------------
(* BankHistory for TLC.                                                    *)
EXTENDS BankHistory

CONSTANTS c1, c2

TwoClients == {c1, c2}
=============================================================================
