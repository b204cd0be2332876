# TLA+ models of the test framework

This directory holds TLA+ specifications of the parts of the repository whose
behaviour is decided by the order of events rather than by I/O, the TLC
configurations that check them, and `PROJECT.json`, which records for every
definition the source lines it models, for every run what it checks, and the
hazards in the code that the properties are aimed at.

Run a configuration with `tlc -workers 2 -config <file>.cfg <module>`; the
module of each configuration is given in the table of runs below.

## The system

The repository is a framework for testing a distributed SQL database. A test
starts clients against the nodes of a cluster, records what every client asked
and what it was answered in a *history*, and afterwards gives the history to a
*checker* that decides whether a correct database could have produced it.

| Part | Source | State | Operations |
|---|---|---|---|
| bank client | `src/db/tidb/bank.go` (`bankClient`) | the `accounts` table, one transaction per request | `SetUp`, `NextRequest`, `Invoke`, `invokeRead`, `DumpState`, `TearDown` |
| timestamp checker | `src/db/tidb/bank.go` (`bankTsoChecker`) | `possibleEvents`, one list of transfers per account; the `Unknown` flag of every event | `generateTsoEvents`, `verifyTsoEvents`, `verifyReadEvent`, `mergeTransferEvents`, `checkTransferEvents`, `checkBalance` |
| bank model | `src/db/tidb/bank.go` (`bank`) | the balances | `Init`, `Step` |
| history parser | `src/db/tidb/bank.go` (`bankParser`) | none | JSON decoding; `OnNoopResponse`, the response of a call that has no return |
| backup test | `src/tests/backup/backup.go` | `lastBackupTs`, `nextBackupIndex`, `nextRestoreIndex`, `txnID`, the handle `db` and its sessions | `SetUp`, `applyConfig`, `createTables`, `initData`, `Start`, `backup`, `restore`, `transferOnce` |
| id list | `src/tests/crud/randlist.go` | `ids`, `positions`, `maxID` under a read-write lock | `allocID`, `len`, `pushID`, `popID` |
| set-up hook | `src/pkg/core/db.go` (`NoopDB`) | the global variables of the cluster | `SetUp` |
| statement executor | `src/testcase/pocket/pkg/executor/executor.go` | connections, `SQLCh`, `TxnReadyCh`, `ErrCh` | `New`, `NewABTest`, `NewDMTest`, `Start`, `Stop` |
| pocket core | `src/testcase/pocket/pkg/core/connection.go`, `reproduce.go` | the executors of a run, the log directory | `generateExecutorOption`, `initConnectionWithoutSchema`, `reproduce`, `reproduceFromDir` |
| anomaly checker (Elle) | `src/pkg/elle/list_append/list_append_test.go`, `src/pkg/elle/rw_register/rw_register.go` | dependency graphs over the transactions of a history | graph builders, G1a, G1b, internal consistency, cycle search |
| operator types | `src/pkg/tidb-operator/apis/pingcap/v1alpha1/` | objects of the Kubernetes API: structs that point to structs, slices and maps | `DeepCopyInto`, `DeepCopy`, `DeepCopyObject` of 38 types |
| provisioning, wiring | `src/pkg/test-infra/...`, `src/cmd/util/suit.go`, `src/testcase/pocket/cmd/...` | none of their own | declarations, templates, flags |

How the parts interact: every client of the bank test runs `NextRequest` and
`Invoke` in a loop, concurrently with the other clients and against the same
table; the framework appends a call event before `Invoke` and a return event
after it; a call that never got its return is given the response of
`OnNoopResponse`. When the test ends the history goes to the checkers. The bank
test has two: the linearizability checker, which is given `bank.Step`, and
`bankTsoChecker`, which uses the start timestamp every transaction reports to
replay the operations in timestamp order.

The other parts are independent of the bank test and of each other. The
backup test and the CRUD test are clients of the same kind with state of their
own; `NoopDB.SetUp` is the hook the framework runs on every node before any
client starts; the pocket test case has its own core, which builds executors
and, in a later run, replays their logs; the list-append checker is a second
checker, for histories of transactions over lists; the operator types are what
the provisioning code sends to Kubernetes.

What makes the bank test hard:

* A transfer whose `Commit` returns an error is reported `Unknown`: it may or
  may not have taken effect. The checker has to work out which from what later
  operations read.
* Every transfer moves the same amount, so two transfers that started from the
  same balance leave the same balance, and a later read cannot tell them apart.
* The checker holds events by pointer. One transfer sits in the lists of both
  its accounts, and a flag flipped through one list changes the other.
* The replay is in the order of *start* timestamps; the transfers took effect
  in the order of their commits.
* A transfer takes effect when the database commits it and enters the history
  when its return is recorded. In between, other clients read what the
  history does not yet explain.

## Modules

| Module | Models | State and actions |
|---|---|---|
| `TsoChecker` | the timestamp checker as operators | `checkBalance`, `checkTransferEvents`, `mergeTransferEvents`, `verifyReadEvent`, `verifyTsoEvents`, `generateTsoEvents`, `Check`. The checker's state is a record `[evs, possible]`: the table of events with their flags, and per account a sequence of indices into the table. An index stands for the pointer of the source, so that `Confirm` is seen through every list, as `lastEvent.Unknown = false` is. |
| `TsoVerify` | the loop of `verifyTsoEvents` as a state machine | variables `input`, `ck`, `valid`; one step replays one event, which is any read or transfer over the balances of the configuration. The machine stops at the first event refused, as the loop returns. |
| `BankModel` | `bank.Init` and `bank.Step` | operators `ModelInit`, `Step`, `balancesEqual`. |
| `BankLedger` | what the bank promises: the state machine `bank.Init` and `bank.Step` define | variable `ledger`; one action, `Move`, a whole transfer as `Step` applies it. |
| `Bank` | the clients and the database they run against | variables `table`, `balance`, `writeTs`, `tso` (the database), `client` (whether the client has its handle, where it is in `Invoke`, its snapshot and the answer it is about to return), `history`, and the history variables `applied`, `refused`, `lost`, which are read by properties only. Actions: `SetUp`, `SetUpFails`, `TearDown`; `Invoke` (the request is drawn and the call recorded), `Begin` (start timestamp and snapshot), `StatementFails` (any statement before the commit fails), `ReadBalances`, `Insufficient`, `Commit` (the transfer takes effect), `Returned` (its return is recorded), `CommitFails`. |
| `BankHistory` | the two checkers applied to the history of `Bank`, and `Bank` as an implementation of `BankLedger` | the properties; the pending calls answered by `OnNoopResponse`; the refinement mapping `ledger <- balance`. |
| `Backup` | the backup test | Variables: the fields of `backupClient` (`lastBackupTs`, `nextBackupIndex`, `nextRestoreIndex`, `txnID`); `pc`, `configured`, `session`, `accounts`, `inserting`, `tries` for `SetUp`; `stored` (the range of timestamps in every backup directory), `backing` and `restoring` (where the two goroutines are, which is also who holds `restoringLock`); `exit` (running, or which `log.Fatalf`, error or nil handle ended the test); the history variable `replayed`. Actions of `SetUp`: `SetUpOther` (`idx != 0`), `OpenDB`, `OpenDBFails`, `applyConfig`, `applyConfigFails`, `Reopen`, `ReopenFails`, `createTables`, `createTablesFails`, `initData`, `Insert`, `InsertFails`, `InsertGivesUp`, `SetUpReturns`. Actions of `Start`: `BackupBegins`, `BackupSucceeds`, `BackupFails`, `RestoreBegins`, `RestoreOne`, `RestoreFails`, `RestoreEnds`, `TransferSkips`, `TransferErrors`, `TransferReads`, and, on a client `SetUp` opened no database for, `BackupPanics` and `TransferPanics`. |
| `IdList` | the id list, statement by statement | variables `ids`, `positions`, `maxID`, `writers` and `readers` (who holds the `sync.RWMutex`), `pc`, `arg`, `held`, `seen`. One action for `Lock` and one for every statement on the fields up to the deferred `Unlock`: `AllocLock`, `AllocIncrement`, `AllocReturn`, `LenLock`, `LenReturn`, `PushLock`, `PushPosition`, `PushAppend`. |
| `IdPool` | what the id list promises | variables `held`, `members`, `seen`; every method is one step: `Alloc`, `Push`, `Length`. |
| `NoopDB` | `NoopDB.SetUp`, one call per node | variables `prepareSQL`, `pc`, `executed`, `effective`, and the clock: `now`, `setAt` (when the statements ran), `wake` (when the sleep of a call ends). Actions `NothingToDo`, `Open`, `Exec`, `ExecFails`, `Close`, `Sleep`; `Reload` (a node takes up the global variables) and `Tick` (100 ms pass) are the environment. |
| `Pocket` | the executors, the switch that builds them, and the replay of their logs | variables `mode`, `logging`, `reproducing`, `alive`, `building`, `execs`, `loop`, `open`, `dir`, `reproduced`, `logFiles`. Actions `Construct`, `Connect`, `ConstructFails`, `Build`, `Start`, `Stop`, `RunAgain` (the program is started again on the same directory), `Reproduce`, `ReproduceFatal`. |
| `ListAppend` | the list-append checker as operators | `DuplicateAppends`, `VersionOrder`, `WWGraph`, `WRGraph`, `RWGraph`, `Graph`, `G1aCases`, `G1bCases`, `InternalCases`, `Sccs`, `CycleTypes`, `AnomalyTypes`, `Valid`. |
| `ListAppendTests` | `list_append_test.go` | every test as the history it builds and the result it requires. |
| `ListAppendDB` | a database that produces histories for the checker | variables `applied`, `rolled`, `state`, `mops`, `history`, `opOf`, and the history variables `serial`, `dirty`. Actions `DoAppend`, `DoRead`, `Commit`, `Abort`, `CrashCommitted`, `CrashAborted`. |
| `V1alpha1` | the operator types as far as copying goes | for each struct of `tiflash_config.go` the fields that hold a pointer; for every `DeepCopyInto` of `zz_generated.deepcopy.go` a table from field to copy step. |
| `DeepCopy` | the generated copy functions run on a heap | variables `heap`, `root`, `copied`, `copy`, `seen`. Actions `DeepCopy`, `DeepCopyNil`, `DeepCopyObject`; `Grow` (the object is built) and `Write` (the holder of the copy writes to it) are the environment. |
| `MCTsoVerify`, `MCBank`, `MCIdList`, `MCNoopDB`, `MCListAppend` | definitions for the configurations | the set of balances; the sets of clients, threads, transactions and keys, the symmetry of the last two; the cluster. |

Accounts are `1 .. AccountNum` where the source has `0 .. accountNum - 1`;
`NextRequest` is translated accordingly. Error texts, logging, the JSON form of
the history and the random source are left out; random draws are
nondeterministic choices.

### The database

The database is the environment of the code and is not in the repository. It is
modelled as the comment of `mergeTransferEvents` assumes it: a transaction reads
the snapshot of its start timestamp, and its commit is refused when an account
it wrote was committed by another transaction after that timestamp. Two
constants widen it:

* `LostUpdate = TRUE` is the faulty database the test exists to catch: a commit
  may go through over such a conflict.
* `CommitErrors = TRUE` lets a commit fail, or succeed and lose its answer,
  without a conflict. In both cases the client answers `Unknown` with the
  timestamp and balances it read.

The pessimistic transaction mode, in which `select ... for update` reads the
latest committed value rather than the snapshot, is not modelled.

### The run of a bank test

What calls `SetUp`, `Invoke` and `TearDown` is not in the repository. The model
takes the requests to be made after the `SetUp` of every client has returned
nil and before the first `TearDown`, and `TearDown` to be called on a client
that is not inside `Invoke`. `SetUp` fills the table on the node with index 0
and only opens a handle on the others; when it fails, the table is as the
statement that failed left it (`table` is `"none"` or `"partial"`) and no
request is made. `TearDown` drops the table and closes the handle on the node
with index 0; on the others it returns before `Close`, so their handles stay
open (`client[c].db`).

Invariants are checked in every state, so the checkers are run on every
prefix of a history: with calls that have no return yet, some of them
transfers the database has already committed. That is the history a checker is
given when the recording stops before a client has returned.

## Runs

| Run | Module, configuration | Expect | Properties |
|---|---|---|---|
| `tso_replay` | `MCTsoVerify`, `MCTsoVerify.cfg` | pass | `TypeOK`, `AcceptedIsExplainablePerAccount`, `ReadNotBeforeLastReported` |
| `tso_explainable` | `MCTsoVerify`, `TsoGlobal.cfg` | violation | `AcceptedIsExplainable` |
| `bank_concurrent` | `MCBank`, `BankAlarm.cfg` | pass | `TypeOK`, `ImplementsBankModel`, `NoOverdraft`, `ValidHistoryLinearizable`, `FalseAlarmNeedsFailedTwin`, `SequentialHistoryAccepted` |
| `bank_lost_update` | `MCBank`, `BankLost.cfg` | pass | `LostUpdateCaught` |
| `bank_false_alarm` | `MCBank`, `BankSound.cfg` | violation | `ValidHistoryAccepted` |
| `backup_restore` | `Backup`, `MCBackup.cfg` | pass | `TypeOK`, `RestoreReplaysChain`, `FeaturesInEffect`, `AccountsInitialised`, `TransferFindsBothAccounts`, `EveryBackupRestored` |
| `id_list` | `MCIdList`, `MCIdList.cfg` | pass | `TypeOK`, `PositionsIndexIds`, `ImplementsIdPool` |
| `prepare_sql` | `MCNoopDB`, `MCNoopDB.cfg` | pass | `TypeOK`, `PreparedOnce`, `SetUpMeansPrepared` |
| `pocket` | `Pocket`, `MCPocket.cfg` | pass | `TypeOK`, `LoopHasItsConnections` |
| `pocket_reproduce` | `Pocket`, `PocketReproduce.cfg` | violation | `ReproduceFindsTheLogs` |
| `elle_list_append` | `MCListAppend`, `MCListAppend.cfg` | pass | `TypeOK`, `SerialHistoryIsValid`, `VersionOrderIsReal`, `AbortedReadFound`, `IntermediateReadFound`, `TestsPass` |
| `deep_copy` | `DeepCopy`, `MCDeepCopy.cfg` | pass | `TypeOK`, `OriginalIntact` |

### What the runs found

Five places where the code disagrees with its comments, its specification, its
tests or its configuration. `PROJECT.json` lists them with their lines; the
sections below explain them.

| Where | What | Shown by |
|---|---|---|
| `bank.go:530` | the timestamp checker refuses the history of a correct database: `checkBalance` confirms the later of two transfers that started from the same balance | `bank_false_alarm`: TLC's counterexample to `ValidHistoryAccepted` |
| `bank.go:533` | the timestamp checker accepts a history nothing explains: a transfer is confirmed through the list of one account, or by a read, and the chain it belongs to is not checked again | `tso_explainable`: TLC's counterexample to `AcceptedIsExplainable` |
| `reproduce.go:68` | a run in mode `binlog` writes `ab-test-N.log` and its reproduction looks for `single-test-N.log` | `pocket_reproduce`: TLC's counterexample to `ReproduceFindsTheLogs` |
| `backup.go:165` | `Features.ReplicaRead` is set on a session of a handle that `SetUp` replaces: the test never runs with it | `BackupReplicaRead.cfg` on `Backup`, a configuration beside the runs: TLC's counterexample to `ReplicaReadKept` |
| `list_append_test.go:161` | the specification orders the appends to a key nobody read by the order of the history; the test requires that no order is inferred | `elle_list_append`: `TestsPass` holds with the rule of the test and is violated with the rule of the specification |

### What the checker accepts (`tso_replay`, `tso_explainable`)

`TsoVerify` feeds the loop every sequence of up to four events over two
accounts. `AcceptedIsExplainable` says that an accepted history has an
explanation: a choice of which unknown transfers happened such that every
account goes from `InitBalance` through an unbroken chain of balances. TLC
finds an accepted history without one:

    T1  unknown     1 -> 2   read [10, 10]
    T2  successful  1 -> 2   read [10, 15]

Account 1 is merged first. T2 read there what T1 read, so nothing is learnt
about T1 and the list is cut to `[T2]`. On account 2, T2 read the balance T1
would leave, so `checkBalance` marks T1 successful; the flag is shared, so
T1 is now successful on account 1 as well, where T1 and T2 both started from 10
(case 3 of the comment, "Invalid"), but that list is not looked at again. The
comment asks for it: "After T1 is set to OK, we must check T1 to its previous
events".

`AcceptedIsExplainablePerAccount` is what does hold: every account, on its own,
has such a choice. The difference between the two is exactly the shared flag.

Both speak of the transfers only. Of a read, an accepted history says what
`ReadNotBeforeLastReported` states: on every account the read saw the balance
before or after a transfer that is not older than the last transfer reported
successful before the read, and `InitBalance` where no transfer came before
it. That is what cutting the list in `mergeTransferEvents` gives; without the
cut (the mutant) a read of a balance two transfers old is accepted.

`TypeOK` of `TsoVerify` carries the shape the two others rest on: the events
the checker holds are the events it was given, changed at most in that an
unknown transfer has become a known one, and the list of an account is an end
of that account's transfers in timestamp order, never empty once the account
has had one. A cut one place late (the mutant) empties the list, and the next
event of the account is then compared with nothing.

It is also all an accepted history says of a read. When the explanation of an
account is asked to cover the reads as well (each read sees the chain up to the
last transfer before it, or up to the one before that, whose commit may come
after the read), TLC finds accepted histories without one, among them:

    T1  successful  1 -> 2   read [10, 10]
    T2  unknown     2 -> 1   read [10, 10]
    R   read [15, 5]

    T1  successful  1 -> 2   read [10, 10]
    T2  unknown     1 -> 2   read [5, 15]
    R1  read [0, 20]
    R2  read [10, 10]

In the first, R confirms T2, which started from the balances T1 started from:
`checkBalance` sets the flag and `verifyReadEvent` returns without
`checkTransferEvents`, so the two successful transfers that exclude each other
are noticed only if a later transfer is merged into the list. In the second,
R2 sees the balance before T1 although R1, earlier, saw T2 applied on top of
T1: `checkBalance` accepts the balance before any event of the list. These
histories are not a run of the project: the stronger property is not part of
`TsoVerify`, and the section "Plan" says what recording them takes.

### What the checker refuses (`bank_concurrent`, `bank_false_alarm`)

`ValidHistoryAccepted` says that a history of a correct database
(`LostUpdate = FALSE`) in which every transfer that took effect has its return
is accepted. `SequentialHistoryAccepted` is the part of
it that holds: a history in which every call is followed by its own return is
accepted, with statements and commits that fail and answers that are lost, and
whichever of the two clients made each request. For requests that overlap TLC
finds a false alarm with three of them:

    T1  successful  1 -> 2   read [10, 10]   start 1
    T2  unknown     1 -> 2   read [10, 10]   start 2, commit refused (conflict with T1)
    T3  any         1 -> 2   read [ 5, 15]   start 4

When T3 is merged, `checkBalance` looks for the event that left 5 on account 1,
from the end of the list, and finds T2: a transfer of the same amount from the
same balance. T2 is marked successful, `checkTransferEvents` sees two
successful transfers that both started from 10, and the history is refused. The
comment lists the situation as case 2, "it is fine now".

`FalseAlarmNeedsFailedTwin` states where the false alarms end. A history of a
correct database is refused only for one of two reasons:

* it holds a transfer that did not take effect and that started from the
  balance an earlier transfer of the same account started from (the case
  above);
* a transfer took effect and its return is not in the history. The call is
  completed with `OnNoopResponse`, which is `Unknown` and has no `Tso`;
  `generateTsoEvents` drops responses without a `Tso`; a read that saw the
  transfer then has a balance no event of the list explains. Two requests are
  enough: a transfer that has committed and not returned, and a read that
  started after the commit.

`ValidHistoryLinearizable` is the same question for the other checker: there is
an order of the operations that respects real time and that `Step` accepts. It
holds with two clients, although `Step` applies every unknown transfer: one
that failed can be put after every read, because its answer is unknown and its
return is taken to be the end of the history. It holds for the histories with
pending calls too: a pending transfer is unknown, `Step` applies it, and it can
stand wherever its commit was. The two checkers of the file thus disagree on a
history whose last transfer committed and was not recorded: the model accepts
it, the timestamp checker does not.

### The table and the model (`bank_concurrent`)

`ImplementsBankModel` is a refinement: with `balance` for `ledger`, every
behaviour of `Bank` on a correct database is a behaviour of `BankLedger`. A
commit writes two balances computed from what the transaction selected at its
start timestamp, possibly several commits of other clients ago; the property
says that what it writes is nevertheless one whole `Step` of the model on the
balances of the moment. It is the refusal of conflicting commits that makes it
so: with `LostUpdate = TRUE` TLC finds a commit that is no step of the model.

`NoOverdraft`: no balance of a correct database is negative. `Invoke` compares
the amount with the balance it selected at its start timestamp; by the time it
commits, other transfers may have taken money from the account. `Step` makes no
such comparison, so the refinement does not imply it. It holds because the
commit of a transaction that selected an outdated balance is refused; without
the comparison (the mutant) three transfers overdraw an account.

### What the test is for (`bank_lost_update`)

With `LostUpdate = TRUE` and no other commit errors, every history in which a
transfer committed over a conflicting write is refused by the timestamp
checker as soon as the returns of the commits are recorded: three accounts,
two clients, three requests.

### Backup and restore (`backup_restore`)

`SetUp` of the client with index 0 opens the database, sets the features
(`applyConfig`), sleeps, opens the database again, creates and truncates the
tables, and inserts the accounts, one goroutine per account, each with the
retries of `RunWithRetry`. Any of these steps can fail; most failures end the
process with `log.Fatalf`. `Start` then runs transfers, backups and restores.

* `FeaturesInEffect`: when `Start` runs on the client with index 0, it has a
  handle, and the sessions of that handle have the global variables
  `applyConfig` set. A session keeps the global variables
  it was opened with; it is the second `OpenDB`, after the sleep, that makes
  the features count. Without it (the mutant keeps the first handle) the test
  would run with the features of the cluster as it found it.
* `ReplicaReadKept` (violated, `BackupReplicaRead.cfg`): the other side of the
  same step. The comment of `Features` calls its fields "the feature on TiDB we
  can turn on and off". `applyConfig` sets `tidb_replica_read` with `set @@`,
  for the session that runs the statement, on the handle `SetUp` replaces two
  lines later. The property says that the second `OpenDB` leaves the setting
  as `applyConfig` made it; TLC's counterexample is `OpenDB`, `applyConfig`
  with `ReplicaRead` set, `Reopen`. No session the test uses has the setting:
  `Features.ReplicaRead` changes nothing in the test. The property is not part
  of `backup_restore`, whose properties hold; run it with
  `tlc -config BackupReplicaRead.cfg Backup`.
* `AccountsInitialised`: when `Start` runs on the client with index 0, every
  account is in the table.
  An `INSERT` whose answer is lost is retried although the row is there
  (`INSERT IGNORE` and `IsErrDupEntry` make the retry a success), a goroutine
  that runs out of attempts ends the test, and `wg.Wait` keeps `initData` from
  returning before the last goroutine has.
* `TransferFindsBothAccounts`: `transferOnce` never ends the test with
  "invalid count". Under high contention one side of the transfer is replaced
  by the system account, which side depends on the draw; when both sides end
  up the same account the function returns before its `SELECT`.
* `RestoreReplaysChain`: what one call of `restore` replays is restorable: a
  full backup first, then increments each from the timestamp of the one
  before. `backup` asks for the changes since `lastBackupTs` and stores them
  under the directory `nextBackupIndex`; `restore` replays the directories from
  `nextRestoreIndex` up to `nextBackupIndex` and sets `lastBackupTs` to 0, so
  that the next backup is a full one.
* `EveryBackupRestored`: every backup taken is replayed, unless a statement
  failed and `log.Fatalf` ended the test.

`SetUp` of a client with any other index returns nil at once
(`backup.go:111`) and opens nothing. `Start` is not told the index: on such a
client `backup` and `transferOnce` dereference the nil handle as soon as they
reach `c.db` (`BackupPanics`, `TransferPanics`; a transfer between an account
and itself returns before that). The model takes these steps and ends the
test there; whether the framework runs the test with more than one client is
not in the repository, so no property calls it an error.

What is assumed of code that is not in the repository:

* `util.RunWithRetry(ctx, n, ...)` makes up to `n` attempts and returns the
  last error.
* `util.OpenDB` that fails returns an error and either a handle or nil.
  `SetUp` calls `SetMaxOpenConns` on the result of the second `OpenDB` before
  it looks at the error (`backup.go:127`); `ReopenFails` takes both outcomes,
  the error returned and the panic.
* The loops that call `backup`, `restore` and `transferOnce`
  (`startBackup`, `startRestore`, `startTransactions`) are not in the file,
  and neither are the calls that take the lock. `Start` declares one
  `sync.RWMutex` and hands it to the loops of backup and restore; the model
  assumes that `restore` holds it exclusively and `backup` shared
  (`WriteLocked`, `ReadLocked`), and that transfers use no lock.
  `RestoreReplaysChain` depends on this.
* The BACKUP statement that fails is taken to store nothing.

An observation that is not stated as a property, because nothing in the
repository says what the test expects:

* `transferOnce` breaks off after its `SELECT ... FOR UPDATE`. What a transfer
  reads while `RESTORE` replaces the tables is therefore not modelled: the
  table `accounts` stays as `SetUp` filled it.

### The id list (`id_list`)

Two threads call `allocID`, `pushID` and `len` in any order. Every method is
followed from its `Lock` to its deferred `Unlock`, one step per statement on
the fields, so that other threads can run in between wherever the lock lets
them.

* `PositionsIndexIds`: whoever gets the mutex finds `positions` the inverse of
  `ids`. `pushID` writes the two in two statements, and the index it records is
  the length before the append.
* `ImplementsIdPool` is a refinement: with `members <- ToSet(ids)`, every
  behaviour of `IdList` is a behaviour of `IdPool`, in which `allocID` returns
  an id nobody got before and each method is one step. `allocID` increments
  `maxID` and reads it again in a second statement; with a shared lock (the
  mutant) two threads get the same id.
* `TypeOK` includes that the holders of the mutex are exactly the threads
  inside a method: no path returns without its `Unlock`.

`popID` breaks off after its first statement and is not called in the model.

### The set-up hook (`prepare_sql`)

The framework calls `NoopDB.SetUp` once for every node, with the list of all
nodes. The calls share nothing; each decides by itself whether it is the one
that runs `PrepareSQL`. The cluster of the run has five nodes, the third to
fifth of them TiDB nodes; the calls run at the same time.

* `PreparedOnce`: the statements are executed at most once.
* `SetUpMeansPrepared`: when every call has returned nil, the global variables
  are in effect on every TiDB node. The code does not ask the nodes: after
  `Close` it sleeps 2100 ms ("Wait until global variables take effect"). The
  model has a clock in ticks of 100 ms; the sleep ends `SleepTicks = 21` ticks
  after `Close`, whatever the nodes have done, and a node takes up the
  variables at most `ReloadTicks` after the statements ran. With
  `ReloadTicks = 20`, a reload within two seconds, the property holds; a sleep
  of two seconds (the mutant) returns in the tick in which the last node may
  still be reloading. With a `ReloadTicks` of 21 or more the property fails: the
  sleep is as good as the assumption about the database.

All calls but one return at once, so the property is for whoever waits for
every call; a client started on another node as soon as that node's call
returns runs without the variables. Whether the framework waits is not in the
repository.

### The executors and their logs (`pocket`, `pocket_reproduce`)

The core builds one executor per id with the constructor its mode selects
(`initConnectionWithoutSchema`); a constructor opens one, two or three
connections and a logger, and returns nil at the first error. `Start` picks the
loop by a mode string the constructor wrote. With `Options.Reproduce` a later
run of the program selects log files of the same directory by pattern.

* `LoopHasItsConnections`: the loop an executor runs has the connections it
  works on, all open.
* `ReproduceFindsTheLogs` (violated): in the modes `reproduceFromDir` has a
  pattern for, it finds the test logs the executors of that mode wrote. In
  mode `binlog` the core builds the executors with `NewABTest`, which names its
  log `ab-test-<id>.log`; `reproduceFromDir` looks for
  `single-test-[0-9]+\.log` and selects nothing.

The executor with id 0 gets no suffix, and the patterns require a number: its
log is never selected, in any mode. The property is stated for ids above 0;
which executor gets id 0 is decided outside the repository.

`Start` is taken once for an executor, as its comment asks ("one `Start` for
one executor"): `New` and `NewABTest` start the executor themselves,
`NewDMTest` leaves it to its caller, and the callers are not in the
repository. Which connections a loop works on (`uses`) is read from the
constructors, because the loops themselves are past the end of the files.

### The list-append checker (`elle_list_append`)

Of the package `list_append` only the tests are in the repository. `ListAppend`
is the checker they call, written from the specification and held to the
tests: `TestsPass` evaluates every test of `list_append_test.go` and requires
the result the test requires. `ListAppendDB` then runs the checker on every
history three transactions leave in a database that isolates nothing.

* `SerialHistoryIsValid`: when the transactions ran one after the other,
  nothing is reported, also with transactions that failed or whose outcome is
  unknown.
* `VersionOrderIsReal`: every ww edge is an order in which the database
  applied the appends.
* `AbortedReadFound`, `IntermediateReadFound`: a read of an element whose
  writer then failed is reported as G1a wherever the element is in the list;
  a read that ends between two appends of one transaction is reported as G1b.

The specification and the tests disagree on one point. The specification gives
a key that nobody read the order in which the history meets its appends. The
test at `list_append_test.go:161` requires an empty graph for a read of nil
followed by two appends to the key by two operations: no order is inferred.
The module follows the test. With the rule of the specification (the mutant
`VersionOrder_EncounterOrder`) TLC finds `TestsPass` violated, and
`VersionOrderIsReal` violated by two transactions that complete in the
opposite order of their appends.

### Deep copies (`deep_copy`)

The objects of the operator are kept in a cache shared by every controller; a
controller takes a `DeepCopy` before it changes one. `zz_generated.deepcopy.go`
is generated from the struct declarations and checked in.

`DeepCopy` runs the generated functions on a heap. A cell stands for a struct
or for what a pointer, a slice or a map refers to; `heap[a].refs[f]` holds the
addresses field `f` of the cell at `a` refers to. `Copy` does what
`DeepCopyInto` does: the assignment `*out = *in`, which leaves every field of
`out` referring to the cells of `in`, and then for every field the step the
function has for it, taken from the table of `V1alpha1`:

| Step | Code | In the model |
|---|---|---|
| `Value` | `*out = new(T); **out = **in`, `make` and `copy`, a map filled with `(*out)[key] = val` | a new cell; what the old one refers to is shared |
| `Struct(T)`, `Structs(T)` | `(*in).DeepCopyInto(*out)` on a new `T`, or on every element of a new slice | a new cell filled by the table of `T` |
| `Deep`, `Deeps` | `in.F.DeepCopyInto(&out.F)`, `in.F.DeepCopy()` of a type of another package | everything is copied |
| no step | the field is not mentioned | the field is left as the assignment made it |

The environment builds an object of any of the 38 types (`Grow`), from the
fields the struct declares where the declaration is in the repository
(`CommonConfig` and the types it points to, `tiflash_config.go`) and otherwise
from the fields the function mentions; after the copy it writes to cells of the
copy (`Write`).

* `OriginalIntact`: whatever is written to the copy, the original stays as it
  was when `DeepCopy` was called. For `CommonConfig` this compares the
  generated function with the declaration: every one of its 22 pointer fields
  has its step. A field without one (the mutant drops the step of
  `FlashProfile`) is shared, and a write through the copy shows in the cache.
* `TypeOK` includes that every address in the heap refers to a cell of the
  declared type, and that what `DeepCopy` returns is nil or a cell. For a nil
  receiver it is nil: `DeepCopy` tests `in == nil` before it calls
  `DeepCopyInto`, which dereferences `in`. Without the test (the mutant) the
  call ends in a panic, which the model records as the value `Panicked`.

What the model cannot tell apart: a field held by value whose type has pointers
of its own (`Spec`, `Status`) is `Deep`, copied as a whole; the cell a `Value`
step allocates is opaque, so a one-level copy of something that itself holds
pointers would not show. Only for `CommonConfig` are the fields taken from a
declaration that is independent of the generated function; for the other types
the run shows that the steps the function has are carried out on every shape
of object, not that no field is missing.

Trusted, because their code is not in the repository: the copy functions of
`k8s.io` types and of the `v1alpha1` types after `DumplingConfig`, where the
file ends.

## Bounds

| Constant | Value | Why it is enough |
|---|---|---|
| `AccountNum` | 2 (3 in `bank_lost_update`) | a transfer has two accounts; the third lets two transfers share one account only |
| `InitBalance`, `Amount` | 10, 5 | two transfers empty an account, so the insufficient balance is reached |
| `Balances` (`TsoVerify`) | 0, 5, 10, 15, 20 | every balance two transfers in either direction can produce |
| `MaxEvents` | 4 | the violation needs 2 events; chains of three transfers and a read are covered |
| `MaxRequests` | 3 | the false alarm of the failed twin needs 3 requests, the one of the unrecorded commit 2, an overdraft 3; two transfers and a read that sees them |
| `Clients` | 2 | two transactions that overlap are what the properties are about; the first is the client of the node with index 0 |
| `MaxBackups` | 5 | several restores, each with a full backup and increments, and failed backups between them (failures are not bounded) |
| `NumAccounts` | 3 | the system account and two others: every case of `transferOnce` under both contentions, and goroutines of `initData` that finish in different orders |
| `RetryLimit` | 2 | an insert that fails once and succeeds, and one that gives up |
| `MaxTxnID` | 2 | `txnID` only counts; two transfers show the increment |
| `Threads`, `MaxID` (`IdList`) | 2, 3 | two threads inside methods at once; three ids give lists where a wrong position differs from a right one |
| `Cluster` | pd, tikv, three tidb | the first node is not a TiDB node, and there is more than one |
| `ReloadTicks` | 20 | a node reloads global variables within 2 s, the longest delay the sleep of 2100 ms covers in ticks of 100 ms |
| `MaxID` (`Pocket`) | 1 | executor 0, which has no suffix, and executor 1, which has |
| `Txns`, `Keys` | 3, 2 | the cycles of the tests need two or three operations on one or two keys |
| `MaxMops`, `MaxTotal`, `MaxFaults` | 2, 5, 1 | a transaction that appends twice (G1b) and one that reads two keys; one transaction that fails or ends unknown |
| `MaxCells`, `MaxLen` | 3, 2 | an object, what it points to, and what that points to; slices and maps of two elements. The run with `MaxCells = 4` (about a minute, 430,890 states) passes as well |

The bounds of the runs are chosen for their time. The properties were also
checked once on larger instances, each a few minutes to twenty minutes of TLC,
and hold there:

| Configuration | Change | Properties | Distinct states |
|---|---|---|---|
| `BankAlarm.cfg` | `MaxRequests = 4` | `FalseAlarmNeedsFailedTwin`, `NoOverdraft`, `ValidHistoryLinearizable`, `SequentialHistoryAccepted` | 6,335,077 |
| `BankAlarm.cfg` | three clients | the same | 590,404 |
| `BankAlarm.cfg` | `AccountNum = 3` | the same | 2,257,206 |
| `BankLost.cfg` | `AccountNum = 2`, `MaxRequests = 4` | `LostUpdateCaught` | 1,719,107 |
| `MCTsoVerify.cfg` | `MaxEvents = 5` | `AcceptedIsExplainablePerAccount`, `ReadNotBeforeLastReported` | 190,896 |
| `MCTsoVerify.cfg` | `AccountNum = 3` | the same | 468,508 |

The bank instances were run with `TearDown` taken out of `Next`: it adds the
orders in which the clients are torn down to every state in which all are
idle, about three fifths of the states of `bank_concurrent`, and no property of
the history depends on it.

The unknown reads of `TsoVerify` all carry the same balances: the checker never
looks at the balances of an unknown read, and the client never reports one with
a timestamp.

`Txns` and `Keys` are symmetry sets in `MCListAppend.cfg`: the checker and the
properties treat transactions and keys alike, and the tests, which name keys,
are evaluated on constants of their own.

Deadlock checking is off where the system stops: the replay at the event it
refuses, a test run when its requests are used up, the backup test when a
statement fails, `SetUp` and the constructors when they have returned, the
database of `ListAppendDB` when every transaction has completed, and
`DeepCopy` when everything is written. It is on in `id_list`: a thread can
always call `len`, so a state without a step would be a lock never released.

## Fairness

The bank runs check no liveness property: the checkers are terminating
functions of a finite history, and whether a client is ever answered is the
database's doing, not the client's. The same holds for the list-append
checker and the copy functions, which are functions, and for `SetUp` and the
constructors, which wait for the database. `ImplementsIdPool` is checked
against the safety part of `IdPool`; Go's `sync.RWMutex` makes no promise that
the model could use for more.

`backup_restore` runs `FairSpec`:

* weak fairness of `BackupSucceeds \/ BackupFails`: the database answers the
  statement;
* weak fairness of `RestoreOne` and `RestoreEnds`: the loop of `restore` goes
  on once entered (a `RESTORE` that fails is not excluded: `RestoreFails` has
  no fairness and the property allows for it);
* strong fairness of `RestoreBegins`: `restore` is started once every
  `RestoreInterval` (the comment of `Config`), it can enter whenever no backup
  is running, which is so again and again, and a `sync.RWMutex` admits no new
  reader while a writer waits. Weak fairness would not do: TLC finds the
  behaviour in which a backup is retried for ever and `restore` never runs.

## Not modelled

* `DumpState` and `bank.Prepare`: `DumpState` reads the table and changes
  nothing, and when it is called is not in the repository. `bank.Init` returns
  the state that was prepared, if one was; the model takes the other branch,
  the balances `SetUp` inserted, which is also what a dump taken before the
  first request holds. `bankTsoChecker.Check` ignores its model argument and
  starts every account from `initBalance` (`checkBalance`): on a history that
  starts from any other dumped state the two checkers would not agree.
* `OnRequest`, `OnResponse` and `OnState` of `bankParser`: JSON decoding.
* The pessimistic transaction mode of the database.
* `popID` of the id list, `singleTest`, `abTest` and `dmTest` of the executor,
  the updates of `transferOnce`, `createTables` of the deadlock case,
  `Suit.Run`: the files end before or inside them.
* The channels of the executor (`SQLCh`, `TxnReadyCh`, `ErrCh`): the
  constructors create them, nothing in the repository sends or receives.
* `tikv_config.go`, `TiFlashConfig` and `ProxyConfig`: declarations whose copy
  functions are past the end of `zz_generated.deepcopy.go`.
* The list-append checker's explanations of cycles and its parser of
  operations; the register checker, of which only types are in the repository.
* Provisioning (`pkg/test-infra`), the SQL generator (`go-sqlsmith`), command
  wiring: I/O, formatting and flags.

`PROJECT.json` lists every component with its status and reason.

## Plan

What is left, in the order of what it would add:

1. **The version order as the specification has it**: a configuration of
   `ListAppend` with the encounter-order rule, checked against `TestsPass`, to
   record the disagreement as a run of its own.
2. **A reference for the timestamp checker that covers reads**: the
   explanation of `AcceptedIsExplainable` extended to reads, as a property of
   `TsoVerify` with a configuration in which TLC shows the two histories of
   the section on what the checker accepts, and compared with the verdict of
   `Check` on the histories of `Bank` with three accounts.
3. **Histories that start from a dumped state**: `DumpState`, `Prepare` and
   the first branch of `bank.Init`, once it is known when the state is dumped.
