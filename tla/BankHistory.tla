----------------------------- MODULE BankHistory ----------------------------
(***************************************************************************)
(* The bank clients and the checker together: what bankTsoChecker says of  *)
(* the histories the clients record, against what really happened in the   *)
(* database.                                                               *)
(***************************************************************************)
EXTENDS Bank

\* The verdict of bankTsoChecker.Check on the history recorded so far.
Accepted == Check(history)

\* The transfers the database has and the history has no return of.
Unrecorded == {client[c].startTs : c \in {c \in Clients : client[c].pc = "committed"}}

(***************************************************************************)
(* No false alarm: a database that keeps snapshot isolation never gets a   *)
(* history refused, whatever the clients did and whichever commits         *)
(* failed.  The comment of mergeTransferEvents lists this among the cases  *)
(* ("T1 is successful, but T2 is unknown, it is fine now").                *)
(***************************************************************************)
ValidHistoryAccepted == ~LostUpdate /\ Unrecorded = {} => Accepted

\* No two requests overlap: every call is followed by its return.
Sequential ==
    \A e \in Calls :
        e < Len(history) =>
            history[e + 1].Kind = "return" /\ history[e + 1].Id = history[e].Id

(***************************************************************************)
(* No false alarm as long as the requests come one after the other, from   *)
(* one client or from several: whichever commits failed or lost their      *)
(* answer, generateTsoEvents and checkBalance explain every balance read.  *)
(***************************************************************************)
SequentialHistoryAccepted == ~LostUpdate /\ Sequential => Accepted

-----------------------------------------------------------------------------
(***************************************************************************)
(* The operations the linearizability checker sees: every call with the    *)
(* return of its Id, and with OnNoopResponse when it has none.  An         *)
(* operation whose answer is unknown may have taken effect at any time     *)
(* after its call, so its return counts as the end of the history.         *)
(***************************************************************************)
Operations ==
    {LET rets == {j \in Returns : history[j].Id = history[i].Id}
         out  == IF rets = {} THEN OnNoopResponse ELSE history[Min(rets)].Value
     IN  [call |-> i, ret |-> IF out.Unknown THEN Len(history) + 1 ELSE Min(rets),
          input |-> history[i].Value, output |-> out] : i \in Calls}

\* The order respects real time, and Step accepts every operation in turn.
Linearizes(order) ==
    /\ \A i, j \in DOMAIN order : order[i].ret < order[j].call => i < j
    /\ FoldLeft(LAMBDA s, o : IF s.ok THEN Step(s.state, o.input, o.output) ELSE s,
                [ok |-> TRUE, state |-> ModelInit], order).ok

(***************************************************************************)
(* The history of a database that keeps snapshot isolation is linearizable *)
(* with respect to the bank model: reads take effect when their            *)
(* transaction starts, transfers when they commit, and a transfer whose    *)
(* commit failed with an unknown answer can stand after every read,        *)
(* although Step always applies it.                                        *)
(***************************************************************************)
ValidHistoryLinearizable ==
    ~LostUpdate => \E order \in SetToSeqs(Operations) : Linearizes(order)

-----------------------------------------------------------------------------
Ledger == INSTANCE BankLedger WITH ledger <- balance

(***************************************************************************)
(* The table of a correct database goes through the states of the bank     *)
(* model: every commit of Invoke, though its two updates were computed on  *)
(* balances selected at the start timestamp, is one whole transfer of      *)
(* bank.Step applied to the balances of the moment it commits, and nothing *)
(* else changes a balance.                                                 *)
(***************************************************************************)
ImplementsBankModel == Ledger!Spec

(***************************************************************************)
(* No account of a correct database is overdrawn.  Invoke compares the     *)
(* amount with the balance it selected at its start timestamp, and other   *)
(* transfers from the account may commit before it does: the comparison    *)
(* still holds at the commit because a commit over a newer write of the    *)
(* account is refused.  bank.Step makes no such comparison, so this does   *)
(* not follow from the table going through the states of the model.        *)
(***************************************************************************)
NoOverdraft == ~LostUpdate => \A a \in Accounts : balance[a] >= 0

-----------------------------------------------------------------------------
\* The transfers of the history, in the order the checker replays them.
Replayed == generateTsoEvents(history)
TransfersOf(a) ==
    {i \in DOMAIN Replayed : /\ Replayed[i].Op = Transfer
                             /\ a \in {Replayed[i].From, Replayed[i].To}}

\* Transfer j started from the balance an earlier transfer of the account
\* started from too, and did not take effect.
FailedTwin(a, j) ==
    /\ Replayed[j].Tso \notin applied
    /\ \E i \in TransfersOf(a) :
          i < j /\ GetBalances(Replayed[i], a).cur = GetBalances(Replayed[j], a).cur

(***************************************************************************)
(* Where the false alarms come from.  A history of a correct database is   *)
(* refused only for one of two reasons.  It holds a transfer that failed   *)
(* after another transfer of the same account had started from the same    *)
(* balance: both would leave the same balance, and checkBalance, searching *)
(* the list from its end, takes the later one for the transfer that        *)
(* happened.  Or a transfer took effect and its return was not recorded:   *)
(* OnNoopResponse gives it no Tso, generateTsoEvents drops it, and the     *)
(* reads that saw it cannot be explained.                                  *)
(***************************************************************************)
FalseAlarmNeedsFailedTwin ==
    ~LostUpdate /\ ~Accepted =>
        \/ \E a \in Accounts : \E j \in TransfersOf(a) : FailedTwin(a, j)
        \/ Unrecorded # {}

(***************************************************************************)
(* What the test is for.  When every commit that took effect was answered  *)
(* Ok (CommitErrors is off) and the database let a transfer commit over a  *)
(* write made after its start timestamp, the history is refused: the two   *)
(* transfers are both known to have happened and checkTransferEvents finds *)
(* that the later did not start from the balance the earlier left.         *)
(***************************************************************************)
LostUpdateCaught ==
    ~CommitErrors /\ lost # {} /\ Unrecorded = {} => ~Accepted
=============================================================================
