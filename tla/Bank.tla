-------------------------------- MODULE Bank --------------------------------
(***************************************************************************)
(* The bank test of db/tidb/bank.go: clients that read all balances or     *)
(* move Amount from one account to another, each in one transaction, and   *)
(* the history of calls and returns the checkers are given afterwards.     *)
(*                                                                         *)
(* The database is the environment of this code.  It is modelled as the    *)
(* test assumes it: a transaction reads the snapshot of its start          *)
(* timestamp and its commit is refused when an account it wrote was        *)
(* committed by another transaction after that timestamp.  LostUpdate      *)
(* makes it the faulty database the test is there to catch: it commits     *)
(* over a conflict.  CommitErrors lets a commit report an error for other  *)
(* reasons, whether or not it took effect.                                 *)
(*                                                                         *)
(* A commit and the recording of its return are two steps: in between the  *)
(* database has a transfer the history does not know of.  What calls       *)
(* SetUp, Invoke and TearDown is not in the repository; the model takes    *)
(* the requests to be made after the SetUp of every client has returned    *)
(* nil and before the first TearDown.                                      *)
(***************************************************************************)
EXTENDS BankModel

CONSTANTS
    Clients,        \* the client of every node
    FirstClient,    \* the client of the node with index 0
    MaxRequests,    \* bound on the number of requests of a run
    LostUpdate,     \* the database under test misses write conflicts
    CommitErrors    \* a commit may fail, or lose its answer, without a conflict

ASSUME /\ FirstClient \in Clients
       /\ MaxRequests \in Nat /\ LostUpdate \in BOOLEAN /\ CommitErrors \in BOOLEAN

VARIABLES
    table,          \* the table accounts: "none", "partial" or "filled"
    balance,        \* the committed balance of every account, once it is filled
    writeTs,        \* the commit timestamp of the last write of every account
    tso,            \* the last timestamp the oracle handed out
    client,         \* per client: where it is in Invoke, and its transaction
    history,        \* the call and return events recorded so far
    applied,        \* the start timestamps of the transfers that took effect
    refused,        \* the start timestamps of the transfers refused for a conflict
    lost            \* the start timestamps of the transfers committed over a conflict

vars == <<table, balance, writeTs, tso, client, history, applied, refused, lost>>

NoAccount == 0      \* From and To of a read request

Requests ==
    [Op : {Read}, From : {NoAccount}, To : {NoAccount}] \cup
    {r \in [Op : {Transfer}, From : Accounts, To : Accounts] : r.From # r.To}

\* bankResponse, with the zero values Go gives the fields a return leaves out.
Response(tso_, ok, unknown, balances, from, to) ==
    [Tso |-> tso_, Ok |-> ok, Unknown |-> unknown, Balances |-> balances,
     FromBalance |-> from, ToBalance |-> to]

Failed      == Response(NoTso, FALSE, FALSE, <<>>, 0, 0)    \* bankResponse{Ok: false}
UnknownRead == Response(NoTso, FALSE, TRUE, <<>>, 0, 0)     \* bankResponse{Unknown: true}

\* bankParser.OnNoopResponse: the response given to a call that has no return.
OnNoopResponse == Response(NoTso, FALSE, TRUE, <<>>, 0, 0)

IdleClient == [pc |-> "idle", db |-> TRUE, id |-> 0, req |-> <<>>, startTs |-> NoTso,
               snap |-> <<>>, answer |-> Failed]

\* A client before its SetUp: it has no handle of the database.
NewClient == [IdleClient EXCEPT !.pc = "new", !.db = FALSE]

Ids == 1 .. MaxRequests
Calls   == {e \in DOMAIN history : history[e].Kind = "call"}
Returns == {e \in DOMAIN history : history[e].Kind = "return"}

TypeOK ==
    /\ table \in {"none", "partial", "filled"}
    /\ balance \in [Accounts -> Int]
    /\ writeTs \in [Accounts -> Nat]
    /\ tso \in Nat
    /\ \A c \in Clients :
          /\ client[c].pc \in {"new", "idle", "invoked", "begun", "committed", "down"}
          /\ client[c].db \in BOOLEAN
          /\ client[c].pc \in {"invoked", "begun", "committed"} =>
                client[c].id \in Ids /\ client[c].req \in Requests
          /\ client[c].pc \in {"begun", "committed"} =>
                client[c].startTs \in 1 .. tso /\ client[c].snap \in [Accounts -> Int]
          /\ client[c].pc = "committed" => client[c].startTs \in applied
    /\ \A e \in DOMAIN history : history[e].Id \in Ids
    /\ \A e \in Calls : history[e].Value \in Requests
    /\ Cardinality(Calls) <= MaxRequests
    /\ applied \subseteq 1 .. tso /\ refused \subseteq (1 .. tso) \ applied
    /\ lost \subseteq applied

\* A fresh database and the clients as Create makes them.  Until SetUp has
\* filled the table, balance holds what SetUp is going to insert.
Init ==
    /\ table = "none"
    /\ balance = [a \in Accounts |-> InitBalance]
    /\ writeTs = [a \in Accounts |-> 0]
    /\ tso = 0
    /\ client = [c \in Clients |-> NewClient]
    /\ history = <<>>
    /\ applied = {}
    /\ refused = {}
    /\ lost = {}

-----------------------------------------------------------------------------
\* Mutated form of NextRequest: equal accounts are left as drawn.
NextRequest_NoShift(op, from, to) ==
    IF op = Read THEN [Op |-> Read, From |-> NoAccount, To |-> NoAccount]
    ELSE [Op |-> Transfer, From |-> from, To |-> to]

-----------------------------------------------------------------------------
(***************************************************************************)
(* NextRequest: a read, or a transfer between two accounts drawn at        *)
(* random, the second moved to the next account when it is the first.      *)
(***************************************************************************)
NextRequest(op, from, to) ==
    IF op = Read THEN [Op |-> Read, From |-> NoAccount, To |-> NoAccount]
    ELSE [Op |-> Transfer, From |-> from,
          To |-> IF from = to THEN (to % AccountNum) + 1 ELSE to]

\* SetUp returns nil: the client has its handle and, on the first node, the
\* table was dropped, created and filled with initBalance.
SetUp(c) ==
    /\ client[c].pc = "new"
    /\ client' = [client EXCEPT ![c] = IdleClient]
    /\ IF c = FirstClient
          THEN table' = "filled" /\ balance' = [a \in Accounts |-> InitBalance]
          ELSE UNCHANGED <<table, balance>>
    /\ UNCHANGED <<writeTs, tso, history, applied, refused, lost>>

\* SetUp returns an error: sql.Open failed, or on the first node the drop
\* (the table is as it was), the create (there is none) or one of the inserts
\* (it is partly filled).  The client never makes a request.
SetUpFails(c) ==
    /\ client[c].pc = "new"
    /\ \E opened \in BOOLEAN :
          /\ client' = [client EXCEPT ![c].pc = "down", ![c].db = opened]
          /\ table' \in {table} \cup
                        IF opened /\ c = FirstClient THEN {"none", "partial"} ELSE {}
    /\ UNCHANGED <<balance, writeTs, tso, history, applied, refused, lost>>

\* The requests are made between the SetUp of every client and the first
\* TearDown.
Running == \A c \in Clients : client[c].pc \notin {"new", "down"}

\* TearDown: nothing on the nodes after the first, whose handles stay open;
\* on the first node the table is dropped and the handle closed, unless the
\* drop failed.
TearDown(c) ==
    /\ client[c].pc = "idle"
    /\ \A other \in Clients : client[other].pc \in {"idle", "down"}
    /\ \E dropped \in {c = FirstClient} \cup {FALSE} :
          /\ client' = [client EXCEPT ![c].pc = "down", ![c].db = ~dropped]
          /\ table' = IF dropped THEN "none" ELSE table
    /\ UNCHANGED <<balance, writeTs, tso, history, applied, refused, lost>>

Return(c, response) ==
    /\ history' = Append(history, [Kind |-> "return", Id |-> client[c].id,
                                   Value |-> response])
    /\ client' = [client EXCEPT ![c] = IdleClient]

\* The client draws its next request; the call is recorded.
Invoke(c) ==
    /\ Running
    /\ client[c].pc = "idle"
    /\ Cardinality(Calls) < MaxRequests
    /\ \E op \in {Read, Transfer}, from, to \in Accounts :
          LET id == Cardinality(Calls) + 1
              req == NextRequest(op, from, to)
          IN  /\ client' = [client EXCEPT ![c] = [IdleClient EXCEPT
                                !.pc = "invoked", !.id = id, !.req = req]]
              /\ history' = Append(history, [Kind |-> "call", Id |-> id, Value |-> req])
    /\ UNCHANGED <<balance, writeTs, table, tso, applied, refused, lost>>

\* db.Begin and "select @@tidb_current_ts": the transaction gets its start
\* timestamp and, with it, its snapshot.
Begin(c) ==
    /\ client[c].pc = "invoked"
    /\ tso' = tso + 1
    /\ client' = [client EXCEPT ![c].pc = "begun", ![c].startTs = tso',
                                ![c].snap = balance]
    /\ UNCHANGED <<balance, writeTs, table, history, applied, refused, lost>>

\* Any statement before the commit fails: the transaction is rolled back, a
\* transfer answers Ok: false and a read Unknown: true, both without a Tso.
StatementFails(c) ==
    /\ client[c].pc \in {"invoked", "begun"}
    /\ Return(c, IF client[c].req.Op = Read THEN UnknownRead ELSE Failed)
    /\ UNCHANGED <<balance, writeTs, table, tso, applied, refused, lost>>

\* invokeRead: "select balance from accounts" on the snapshot.
ReadBalances(c) ==
    /\ client[c].pc = "begun"
    /\ client[c].req.Op = Read
    /\ Return(c, Response(client[c].startTs, FALSE, FALSE, client[c].snap, 0, 0))
    /\ UNCHANGED <<balance, writeTs, table, tso, applied, refused, lost>>

\* Mutated form of Sufficient: the balance is not compared with the amount.
Sufficient_Unchecked(c) == TRUE

\* fromBalance >= arg.Amount, on the balance the transaction selected.
Sufficient(c) == client[c].snap[client[c].req.From] >= Amount

\* Invoke gives up a transfer the balance does not cover.
Insufficient(c) ==
    /\ client[c].pc = "begun"
    /\ client[c].req.Op = Transfer
    /\ ~Sufficient(c)
    /\ Return(c, Failed)
    /\ UNCHANGED <<balance, writeTs, table, tso, applied, refused, lost>>

\* Mutated form of Written: the second update is left out.
Written_FromOnly(c) ==
    [balance EXCEPT ![client[c].req.From] = client[c].snap[client[c].req.From] - Amount]

\* The two updates of the transaction, computed on its snapshot.
Written(c) ==
    LET r == client[c].req
    IN  [balance EXCEPT ![r.From] = client[c].snap[r.From] - Amount,
                        ![r.To]   = client[c].snap[r.To] + Amount]

\* An account the transaction wrote was committed after it started.
Conflict(c) ==
    \E a \in {client[c].req.From, client[c].req.To} : writeTs[a] > client[c].startTs

\* What Invoke answers after txn.Commit: Ok, or Unknown when it got an error.
Answered(c, ok) ==
    LET r == client[c].req
    IN  Response(client[c].startTs, ok, ~ok,
                 <<>>, client[c].snap[r.From], client[c].snap[r.To])

CanCommit(c) ==
    /\ client[c].pc = "begun"
    /\ client[c].req.Op = Transfer
    /\ Sufficient(c)

\* txn.Commit takes effect; its answer arrives, or is lost when commits may
\* fail.  The database has the transfer from here on, the history has not.
Commit(c) ==
    /\ CanCommit(c)
    /\ LostUpdate \/ ~Conflict(c)
    /\ tso' = tso + 1
    /\ balance' = Written(c)
    /\ writeTs' = [a \in Accounts |->
                      IF a \in {client[c].req.From, client[c].req.To}
                          THEN tso' ELSE writeTs[a]]
    /\ applied' = applied \cup {client[c].startTs}
    /\ lost' = IF Conflict(c) THEN lost \cup {client[c].startTs} ELSE lost
    /\ \E ok \in {TRUE} \cup {~CommitErrors} :
          client' = [client EXCEPT ![c].pc = "committed", ![c].answer = Answered(c, ok)]
    /\ UNCHANGED <<table, history, refused>>

\* Invoke returns what it made of txn.Commit, and the return is recorded.
Returned(c) ==
    /\ client[c].pc = "committed"
    /\ Return(c, client[c].answer)
    /\ UNCHANGED <<balance, writeTs, table, tso, applied, refused, lost>>

\* txn.Commit is refused, for a conflict or for an error of its own.
CommitFails(c) ==
    /\ CanCommit(c)
    /\ Conflict(c) \/ CommitErrors
    /\ Return(c, Answered(c, FALSE))
    /\ refused' = IF Conflict(c) THEN refused \cup {client[c].startTs} ELSE refused
    /\ UNCHANGED <<balance, writeTs, table, tso, applied, lost>>

Next ==
    \E c \in Clients :
        \/ SetUp(c)
        \/ SetUpFails(c)
        \/ TearDown(c)
        \/ Invoke(c)
        \/ Begin(c)
        \/ StatementFails(c)
        \/ ReadBalances(c)
        \/ Insufficient(c)
        \/ Commit(c)
        \/ Returned(c)
        \/ CommitFails(c)

Spec == Init /\ [][Next]_vars
=============================================================================
