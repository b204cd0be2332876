----------------------------- MODULE BankModel ------------------------------
(***************************************************************************)
(* The sequential model of the bank (type bank of db/tidb/bank.go) that    *)
(* the linearizability checker is given: a state is the balance of every   *)
(* account, and Step says whether an operation with its response may       *)
(* follow a state, and which state it leaves.                              *)
(*                                                                         *)
(* The module shares the accounts, the amounts and the vocabulary of       *)
(* requests and responses with the other checker of the file.              *)
(***************************************************************************)
EXTENDS TsoChecker

\* bank.Init, when no state was prepared: every account holds initBalance.
ModelInit == [a \in Accounts |-> InitBalance]

\* balancesEqual: the same number of balances, and the same balance in every place.
balancesEqual(a, b) == Len(a) = Len(b) /\ \A i \in 1 .. Len(a) : a[i] = b[i]

\* newSt of Step: the balances after a transfer.
Transferred(st, inp) ==
    [st EXCEPT ![inp.From] = @ - Amount, ![inp.To] = @ + Amount]

\* Mutated form of Step: a transfer whose answer is unknown is taken not to
\* have happened.
Step_UnknownSkipped(st, inp, out) ==
    IF inp.Op = Read
        THEN [ok |-> out.Unknown \/ balancesEqual(st, out.Balances), state |-> st]
        ELSE [ok |-> TRUE, state |-> IF out.Ok THEN Transferred(st, inp) ELSE st]

(***************************************************************************)
(* bank.Step.  A read must have seen the state, unless its answer is       *)
(* unknown.  A transfer that failed leaves the state; one that succeeded,  *)
(* or whose answer is unknown, is applied.  The balances a transfer        *)
(* reports are not compared with the state.                                *)
(***************************************************************************)
Step(st, inp, out) ==
    IF inp.Op = Read
        THEN [ok |-> out.Unknown \/ balancesEqual(st, out.Balances), state |-> st]
        ELSE IF ~out.Ok /\ ~out.Unknown
            THEN [ok |-> TRUE, state |-> st]
            ELSE [ok |-> out.Ok \/ out.Unknown, state |-> Transferred(st, inp)]
=============================================================================
