----------------------------- MODULE BankLedger -----------------------------
(***************************************************************************)
(* What the bank promises, as the state machine of the sequential model    *)
(* of db/tidb/bank.go: the balances start as bank.Init gives them and      *)
(* change only as bank.Step changes them for a transfer that succeeded,    *)
(* one whole transfer at a time.                                           *)
(***************************************************************************)
EXTENDS BankModel

VARIABLE ledger     \* the state of the model: the balance of every account

Succeeded == [Ok |-> TRUE, Unknown |-> FALSE]

Init == ledger = ModelInit

\* One transfer from one account to another, as Step applies it.
Move(from, to) ==
    /\ from # to
    /\ ledger' = Step(ledger, [Op |-> Transfer, From |-> from, To |-> to],
                      Succeeded).state

Next == \E from, to \in Accounts : Move(from, to)

Spec == Init /\ [][Next]_ledger
=============================================================================
