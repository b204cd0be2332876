---------------------------- MODULE MCTsoVerify -----------------------------
(* TsoVerify for TLC: two accounts, balances two transfers either way.     *)
EXTENDS TsoVerify

MCBalances == {InitBalance + k * Amount : k \in -2 .. 2}
=============================================================================
