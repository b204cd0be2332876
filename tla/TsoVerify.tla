----------------------------- MODULE TsoVerify ------------------------------
(***************************************************************************)
(* The replay loop of verifyTsoEvents (db/tidb/bank.go) as a state         *)
(* machine: one step per event, in timestamp order.  The events come from  *)
(* a database under test, which may be wrong in any way, so every step     *)
(* takes an arbitrary read or transfer over a small set of balances.  The  *)
(* specification stops at the event the checker refuses, as the loop does. *)
(***************************************************************************)
EXTENDS TsoChecker

CONSTANTS
    Balances,       \* the balances an operation may report
    MaxEvents       \* bound on the length of the history replayed

ASSUME Balances \subseteq Nat /\ MaxEvents \in Nat

VARIABLES
    input,          \* the sorted events as generateTsoEvents produced them
    ck,             \* the checker's state: events with their flags, possibleEvents
    valid           \* FALSE once verifyTsoEvents has returned false

vars == <<input, ck, valid>>

\* The balances of an unknown read are never looked at: one stands for all.
ReadEvents(tso) ==
    {e \in [Tso : {tso}, Op : {Read}, Unknown : BOOLEAN,
            Balances : [Accounts -> Balances]] :
        e.Unknown => \A a \in Accounts : e.Balances[a] = InitBalance}

TransferEvents(tso) ==
    {e \in [Tso : {tso}, Op : {Transfer}, Unknown : BOOLEAN,
            From : Accounts, To : Accounts,
            FromBalance : Balances, ToBalance : Balances] : e.From # e.To}

\* The transfers of the input that touch account a, in timestamp order.
TransfersOf(a) ==
    SelectSeq([i \in DOMAIN input |-> i],
              LAMBDA i : input[i].Op = Transfer /\ a \in {input[i].From, input[i].To})

(***************************************************************************)
(* The events and the shape of the checker's state.  The table holds the   *)
(* events of the input, and a flag differs from the input only where       *)
(* checkBalance has confirmed an unknown transfer.  The list of an account *)
(* is the end of the account's transfers, and it is not empty once the     *)
(* account has one: mergeTransferEvents cuts at the last known event and   *)
(* keeps it, so that checkBalance compares with initBalance only while     *)
(* nothing has touched the account.                                        *)
(***************************************************************************)
TypeOK ==
    /\ input \in Seq(UNION {ReadEvents(t) \cup TransferEvents(t) : t \in 1 .. MaxEvents})
    /\ Len(input) <= MaxEvents
    /\ DOMAIN ck = {"evs", "possible"}
    /\ DOMAIN ck.evs = DOMAIN input
    /\ \A i \in DOMAIN input :
          /\ [ck.evs[i] EXCEPT !.Unknown = input[i].Unknown] = input[i]
          /\ ck.evs[i].Unknown => input[i].Unknown
    /\ DOMAIN ck.possible = Accounts
    /\ \A a \in Accounts :
          /\ IsSuffix(ck.possible[a], TransfersOf(a))
          /\ TransfersOf(a) # <<>> => ck.possible[a] # <<>>
    /\ valid \in BOOLEAN

Init ==
    /\ input = <<>>
    /\ ck = NewChecker(<<>>)
    /\ valid = TRUE

\* The turn of the loop on event e: the verdict, and the state it leaves.
Replay(e) ==
    LET id   == Len(input) + 1
        turn == verifyEvent([ck EXCEPT !.evs = Append(ck.evs, e)], id)
    IN  /\ valid
        /\ Len(input) < MaxEvents
        /\ valid' = turn.ok
        /\ IF turn.ok
              THEN input' = Append(input, e) /\ ck' = turn.ck
              ELSE UNCHANGED <<input, ck>>

VerifyRead == \E e \in ReadEvents(Len(input) + 1) : Replay(e)

VerifyTransfer == \E e \in TransferEvents(Len(input) + 1) : Replay(e)

Next == VerifyRead \/ VerifyTransfer

Spec == Init /\ [][Next]_vars

-----------------------------------------------------------------------------
Transfers == {i \in DOMAIN input : input[i].Op = Transfer}
Reported  == {i \in Transfers : ~input[i].Unknown}      \* answered Ok
InDoubt   == {i \in Transfers : input[i].Unknown}

Touching(C, a) == {i \in C : a \in {input[i].From, input[i].To}}

\* The transfers C, in timestamp order, take account a from InitBalance
\* through an unbroken chain of balances.
IsChain(C, a) ==
    LET T == Touching(C, a)
        bal(i) == GetBalances(input[i], a)
    IN  \A j \in T :
            LET before == {i \in T : i < j}
            IN  bal(j).cur = IF before = {} THEN InitBalance
                             ELSE bal(Max(before)).next

(***************************************************************************)
(* A history the checker accepts can be explained: some of the transfers   *)
(* in doubt happened, the others did not, and with that choice every       *)
(* account went through an unbroken chain of balances from InitBalance.    *)
(* This is what the replay of mergeTransferEvents and checkTransferEvents  *)
(* is for; it is at risk where a list is cut at the last known event and   *)
(* where a flag is flipped through the list of the other account.          *)
(***************************************************************************)
AcceptedIsExplainable ==
    valid => \E S \in SUBSET InDoubt : \A a \in Accounts : IsChain(Reported \cup S, a)

\* The weaker form: each account on its own has such an explanation.
AcceptedIsExplainablePerAccount ==
    valid => \A a \in Accounts :
                \E S \in SUBSET Touching(InDoubt, a) : IsChain(Reported \cup S, a)

KnownReads == {i \in DOMAIN input : input[i].Op = Read /\ ~input[i].Unknown}

(***************************************************************************)
(* What an accepted history says of its reads.  A read that is not unknown *)
(* saw, on every account, the balance before or after a transfer of the    *)
(* account that is not older than the last one reported to have happened   *)
(* before the read; on an account no transfer touched it saw InitBalance.  *)
(* verifyReadEvent gets this from the list mergeTransferEvents keeps: the  *)
(* list is cut at the last known event each time a transfer is merged, and *)
(* checkBalance looks at nothing but the list.  It is all the checker      *)
(* says of a read: which of the transfers of the list happened, and        *)
(* whether an earlier read saw a later balance, is not looked at.          *)
(***************************************************************************)
ReadNotBeforeLastReported ==
    valid => \A r \in KnownReads : \A a \in Accounts :
        LET before == {j \in Touching(Transfers, a) : j < r}
            known  == before \cap Reported
            recent == {j \in before : known # {} => j >= Max(known)}
            bal(j) == GetBalances(input[j], a)
        IN  IF before = {} THEN input[r].Balances[a] = InitBalance
            ELSE \E j \in recent : input[r].Balances[a] \in {bal(j).cur, bal(j).next}
=============================================================================
