------------------------------- MODULE Backup -------------------------------
(***************************************************************************)
(* The backup test (tests/backup/backup.go).  SetUp, for the client of     *)
(* index 0, opens the database, sets the features, opens the database      *)
(* again, creates the tables and inserts the accounts, one goroutine for   *)
(* each.  Start then runs the transfers, backup and restore: backup takes  *)
(* a full or incremental backup of the database into the next directory,   *)
(* restore replays the directories not yet restored, the two in goroutines *)
(* that share restoringLock, and transferOnce moves money between two      *)
(* accounts.                                                               *)
(* SetUp opens nothing for a client of another index, and Start does not   *)
(* ask for the index: on such a client the first use of the handle is the  *)
(* end of the process.                                                     *)
(*                                                                         *)
(* The database is the environment: a statement succeeds or fails, an      *)
(* INSERT may take effect although its answer is lost, a global variable   *)
(* is seen by the sessions opened after it was set, a BACKUP statement     *)
(* stores the changes between the timestamp it is given and its own, or    *)
(* fails and stores nothing.                                               *)
(***************************************************************************)
EXTENDS Integers, Sequences, FiniteSets

CONSTANTS
    MaxBackups,     \* bound on the number of BACKUP statements that succeed
    NumAccounts,    \* Config.NumAccounts
    RetryLimit,     \* Config.RetryLimit: the attempts RunWithRetry makes
    MaxTxnID        \* bound on the transfers that get a transaction id

ASSUME /\ MaxBackups \in Nat /\ MaxTxnID \in Nat
       /\ NumAccounts \in Nat \ {0} /\ RetryLimit \in Nat \ {0}

VARIABLES
    lastBackupTs,       \* backupClient.lastBackupTs
    nextBackupIndex,    \* backupClient.nextBackupIndex
    nextRestoreIndex,   \* backupClient.nextRestoreIndex
    txnID,              \* backupClient.txnID
    stored,             \* stored[i + 1]: the range of timestamps under full-i
    backing,            \* the BACKUP statement in progress, or NoBackup
    restoring,          \* restore is between its first line and its last
    replayed,           \* the directories the last call of restore replayed
    exit,               \* Running, or why the process has ended
    idx,                \* the argument idx of SetUp
    contention,         \* Config.Contention
    pc,                 \* where SetUp is, or what it returned
    configured,         \* the global variables of the database are the features
    session,            \* what the sessions of backupClient.db have, or NoDB
    accounts,           \* the ids in the table accounts
    inserting,          \* the goroutines of initData that have not returned
    tries               \* tries[i]: the attempts the goroutine of account i made

setup == <<idx, contention, pc, configured, session, accounts, inserting, tries>>

vars == <<lastBackupTs, nextBackupIndex, nextRestoreIndex, txnID, stored,
          backing, restoring, replayed, exit, setup>>

systemAccountID == 0

Accounts == 0 .. NumAccounts - 1

NoBackup == [index |-> -1, from |-> 0]
NoDB     == [globals |-> FALSE, replicaRead |-> FALSE, open |-> FALSE]

Running == "running"
Exits   == {"config", "reopen", "tables", "insert", "count", "restore", "nil handle"}

alive   == exit = Running

\* SetUp has returned nil to the client, and Start is called on it.
Started == pc = "nil"

\* backupClient.db is a handle: SetUp has opened it.
HasDB == session.open

TypeOK ==
    /\ lastBackupTs \in 0 .. MaxBackups
    /\ nextBackupIndex = Len(stored)
    /\ nextRestoreIndex \in 0 .. nextBackupIndex
    /\ txnID \in 0 .. MaxTxnID
    /\ stored \in Seq([from : 0 .. MaxBackups, to : 1 .. MaxBackups])
    /\ backing \in [index : -1 .. MaxBackups, from : 0 .. MaxBackups]
    /\ restoring \in BOOLEAN
    /\ replayed \in Seq(0 .. MaxBackups)
    /\ exit \in {Running} \cup Exits
    /\ idx \in {0, 1} /\ contention \in {"low", "high"}
    /\ pc \in {"start", "config", "reopen", "tables", "data", "wait", "nil", "err"}
    /\ configured \in BOOLEAN
    /\ session \in [globals : BOOLEAN, replicaRead : BOOLEAN, open : BOOLEAN]
    /\ accounts \subseteq Accounts /\ inserting \subseteq Accounts
    /\ tries \in [Accounts -> 0 .. RetryLimit - 1]

\* A new backupClient, a database that may hold the accounts of an earlier
\* test, and the arguments the framework passes.
Init ==
    /\ lastBackupTs = 0 /\ nextBackupIndex = 0 /\ nextRestoreIndex = 0
    /\ txnID = 0
    /\ stored = <<>>
    /\ backing = NoBackup
    /\ restoring = FALSE
    /\ replayed = <<>>
    /\ exit = Running
    /\ idx \in {0, 1} /\ contention \in {"low", "high"}
    /\ pc = "start"
    /\ configured = FALSE
    /\ session = NoDB
    /\ accounts \in SUBSET Accounts
    /\ inserting = {}
    /\ tries = [i \in Accounts |-> 0]

backupVars == <<lastBackupTs, nextBackupIndex, nextRestoreIndex, txnID, stored,
                backing, restoring, replayed>>

-----------------------------------------------------------------------------
\* Mutated forms of the definitions below: SetUp that goes on with the
\* handle it opened first, initData that returns without wg.Wait.
Reopened_SameHandle == session

AllInserted_NoWait == TRUE

-----------------------------------------------------------------------------
\* SetUp for a client other than the first: nothing is opened.
SetUpOther ==
    /\ alive /\ pc = "start" /\ idx # 0
    /\ pc' = "nil"
    /\ UNCHANGED <<backupVars, exit, idx, contention, configured, session,
                   accounts, inserting, tries>>

\* util.OpenDB: the sessions of the handle see the global variables as they
\* are now.
OpenDB ==
    /\ alive /\ pc = "start" /\ idx = 0
    /\ session' = [globals |-> configured, replicaRead |-> FALSE, open |-> TRUE]
    /\ pc' = "config"
    /\ UNCHANGED <<backupVars, exit, idx, contention, configured, accounts,
                   inserting, tries>>

OpenDBFails ==
    /\ alive /\ pc = "start" /\ idx = 0
    /\ pc' = "err"
    /\ UNCHANGED <<backupVars, exit, idx, contention, configured, session,
                   accounts, inserting, tries>>

\* applyConfig: tidb_replica_read is set in the session, and an error of it
\* is logged only; the three global variables are set; five seconds pass.
applyConfig ==
    /\ alive /\ pc = "config"
    /\ \E set \in BOOLEAN : session' = [session EXCEPT !.replicaRead = set]
    /\ configured' = TRUE
    /\ pc' = "reopen"
    /\ UNCHANGED <<backupVars, exit, idx, contention, accounts, inserting, tries>>

\* One of the statements that set a global variable failed: log.Fatalf.
applyConfigFails ==
    /\ alive /\ pc = "config"
    /\ exit' = "config"
    /\ UNCHANGED <<backupVars, setup>>

\* What the second util.OpenDB leaves in backupClient.db: a new handle.
Reopened == [globals |-> configured, replicaRead |-> FALSE, open |-> TRUE]

Reopen ==
    /\ alive /\ pc = "reopen"
    /\ session' = Reopened
    /\ pc' = "tables"
    /\ UNCHANGED <<backupVars, exit, idx, contention, configured, accounts,
                   inserting, tries>>

\* The second util.OpenDB failed.  SetMaxOpenConns is called on what it
\* returned before the error is looked at: on a handle, and SetUp returns the
\* error, or on nil, and the process panics.
ReopenFails ==
    /\ alive /\ pc = "reopen"
    /\ session' = NoDB
    /\ \/ pc' = "err" /\ UNCHANGED exit
       \/ exit' = "reopen" /\ UNCHANGED pc
    /\ UNCHANGED <<backupVars, idx, contention, configured, accounts,
                   inserting, tries>>

\* What stmtsCreate leaves of the table accounts: the table, truncated.
Truncated == {}

createTables ==
    /\ alive /\ pc = "tables"
    /\ accounts' = Truncated
    /\ pc' = "data"
    /\ UNCHANGED <<backupVars, exit, idx, contention, configured, session,
                   inserting, tries>>

\* A statement of stmtsCreate failed: log.Fatalf.  The tables that exist by
\* then keep what they hold.
createTablesFails ==
    /\ alive /\ pc = "tables"
    /\ exit' = "tables"
    /\ UNCHANGED <<backupVars, setup>>

\* initData, up to wg.Wait: a goroutine for every account.
initData ==
    /\ alive /\ pc = "data"
    /\ inserting' = Accounts
    /\ pc' = "wait"
    /\ UNCHANGED <<backupVars, exit, idx, contention, configured, session,
                   accounts, tries>>

\* The INSERT IGNORE of account i succeeded, or the error was a duplicate
\* entry: RunWithRetry returns nil and the goroutine is done.
Insert(i) ==
    /\ alive /\ i \in inserting
    /\ accounts' = accounts \cup {i}
    /\ inserting' = inserting \ {i}
    /\ UNCHANGED <<backupVars, exit, idx, contention, pc, configured, session, tries>>

\* RunWithRetry has attempts left after this many.
MayRetry(n) == n < RetryLimit

\* The INSERT returned another error, whether the row was written or not, and
\* RunWithRetry tries again.
InsertFails(i) ==
    /\ alive /\ i \in inserting /\ MayRetry(tries[i] + 1)
    /\ tries' = [tries EXCEPT ![i] = @ + 1]
    /\ \E written \in SUBSET {i} : accounts' = accounts \cup written
    /\ UNCHANGED <<backupVars, exit, idx, contention, pc, configured, session,
                   inserting>>

\* The last attempt failed: log.Fatalf in the goroutine.
InsertGivesUp(i) ==
    /\ alive /\ i \in inserting /\ ~MayRetry(tries[i] + 1)
    /\ exit' = "insert"
    /\ UNCHANGED <<backupVars, setup>>

\* wg.Wait returns.
AllInserted == inserting = {}

\* initData and SetUp return.
SetUpReturns ==
    /\ alive /\ pc = "wait" /\ AllInserted
    /\ pc' = "nil"
    /\ UNCHANGED <<backupVars, exit, idx, contention, configured, session,
                   accounts, inserting, tries>>

-----------------------------------------------------------------------------
\* Mutated forms of the definitions below: a failed backup that moves the
\* index on all the same, a restore that leaves lastBackupTs as it found it,
\* a loop that stops one directory early.
BackupFails_Advances ==
    /\ alive /\ backing # NoBackup
    /\ backing' = NoBackup
    /\ nextBackupIndex' = nextBackupIndex + 1
    /\ UNCHANGED <<lastBackupTs, nextRestoreIndex, stored, restoring, replayed, exit, txnID, setup>>

Reset_Missing == lastBackupTs

MoreToRestore_StopsEarly == nextRestoreIndex + 1 < nextBackupIndex

-----------------------------------------------------------------------------
\* restoringLock, a sync.RWMutex that Start hands to both goroutines.  The
\* calls that take it are in startBackup and startRestore, which are not in
\* the repository: restore is taken to hold it as the writer and backup as a
\* reader, so that each excludes the other.
ReadLocked  == backing # NoBackup
WriteLocked == restoring

\* backup, up to the BACKUP statement: the directory and LAST_BACKUP are read.
BackupBegins ==
    /\ Started /\ alive /\ HasDB /\ backing = NoBackup /\ ~WriteLocked
    /\ Len(stored) < MaxBackups
    /\ backing' = [index |-> nextBackupIndex, from |-> lastBackupTs]
    /\ UNCHANGED <<lastBackupTs, nextBackupIndex, nextRestoreIndex, stored,
                   restoring, replayed, exit, txnID, setup>>

\* backup on the client of another index: SetUp opened nothing for it, and
\* c.db.QueryRow dereferences nil.
BackupPanics ==
    /\ Started /\ alive /\ ~HasDB /\ ~WriteLocked
    /\ exit' = "nil handle"
    /\ UNCHANGED <<backupVars, setup>>

\* The statement succeeded: its timestamp is kept and the index moves on.
BackupSucceeds ==
    /\ alive /\ backing # NoBackup
    /\ LET ts == Len(stored) + 1       \* a timestamp later than every earlier one
       IN  /\ stored' = Append(stored, [from |-> backing.from, to |-> ts])
           /\ lastBackupTs' = ts
    /\ nextBackupIndex' = nextBackupIndex + 1
    /\ backing' = NoBackup
    /\ UNCHANGED <<nextRestoreIndex, restoring, replayed, exit, txnID, setup>>

\* The statement failed: backup returns the error and changes nothing.
BackupFails ==
    /\ alive /\ backing # NoBackup
    /\ backing' = NoBackup
    /\ UNCHANGED <<lastBackupTs, nextBackupIndex, nextRestoreIndex, stored,
                   restoring, replayed, exit, txnID, setup>>

\* restore is entered, with the lock.
RestoreBegins ==
    /\ Started /\ alive /\ ~restoring /\ ~ReadLocked
    /\ restoring' = TRUE
    /\ replayed' = <<>>
    /\ UNCHANGED <<lastBackupTs, nextBackupIndex, nextRestoreIndex, stored,
                   backing, exit, txnID, setup>>

\* The condition of the loop of restore.
MoreToRestore == nextRestoreIndex < nextBackupIndex

\* One turn of the loop: RESTORE from the next directory.
RestoreOne ==
    /\ alive /\ restoring /\ MoreToRestore
    /\ replayed' = Append(replayed, nextRestoreIndex)
    /\ nextRestoreIndex' = nextRestoreIndex + 1
    /\ UNCHANGED <<lastBackupTs, nextBackupIndex, stored, backing, restoring,
                   exit, txnID, setup>>

\* RESTORE failed: "no error should occur during restore", log.Fatalf.
RestoreFails ==
    /\ alive /\ restoring /\ MoreToRestore
    /\ exit' = "restore"
    /\ UNCHANGED <<lastBackupTs, nextBackupIndex, nextRestoreIndex, stored,
                   backing, restoring, replayed, txnID, setup>>

\* What restore leaves in lastBackupTs: the next backup is a full one.
Reset == 0

\* The loop is over.
RestoreEnds ==
    /\ alive /\ restoring /\ ~MoreToRestore
    /\ lastBackupTs' = Reset
    /\ restoring' = FALSE
    /\ UNCHANGED <<nextBackupIndex, nextRestoreIndex, stored, backing, replayed,
                   exit, txnID, setup>>

-----------------------------------------------------------------------------
\* Mutated form of the definition below: transferOnce without its test of
\* from == to.
SameAccount_Missing(parties) == FALSE

\* The accounts transferOnce transfers between, from the two it drew: under
\* high contention one of them is the system account.
Parties(from, to) ==
    IF contention # "high" THEN <<from, to>>
    ELSE IF from > NumAccounts \div 2 THEN <<systemAccountID, to>>
         ELSE <<from, systemAccountID>>

SameAccount(parties) == parties[1] = parties[2]

\* The rows SELECT ... WHERE id IN (from, to) FOR UPDATE returns.
Found(parties) == {parties[1], parties[2]} \cap accounts

\* transferOnce drew the same account twice: it returns nil.
TransferSkips ==
    /\ Started /\ alive
    /\ \E from, to \in Accounts : SameAccount(Parties(from, to))
    /\ UNCHANGED vars

\* Begin, Query, Scan or the rows returned an error: transferOnce returns it
\* and the transaction is rolled back.
TransferErrors ==
    /\ Started /\ alive /\ HasDB
    /\ \E from, to \in Accounts : ~SameAccount(Parties(from, to))
    /\ UNCHANGED vars

\* transferOnce on the client of another index: c.db.Begin dereferences nil.
TransferPanics ==
    /\ Started /\ alive /\ ~HasDB
    /\ \E from, to \in Accounts : ~SameAccount(Parties(from, to))
    /\ exit' = "nil handle"
    /\ UNCHANGED <<backupVars, setup>>

\* transferOnce counts the rows: log.Fatalf unless there are two.  It then
\* returns if the balance is too small, or goes on with a new transaction id
\* (the statements that follow are not in the file).
TransferReads ==
    /\ Started /\ alive /\ HasDB /\ txnID < MaxTxnID
    /\ \E from, to \in Accounts :
        LET parties == Parties(from, to)
        IN  /\ ~SameAccount(parties)
            /\ IF Cardinality(Found(parties)) # 2
                  THEN exit' = "count" /\ UNCHANGED txnID
                  ELSE txnID' \in {txnID, txnID + 1} /\ UNCHANGED exit
    /\ UNCHANGED <<lastBackupTs, nextBackupIndex, nextRestoreIndex, stored,
                   backing, restoring, replayed, setup>>

Next ==
    \/ SetUpOther \/ OpenDB \/ OpenDBFails \/ applyConfig \/ applyConfigFails
    \/ Reopen \/ ReopenFails \/ createTables \/ createTablesFails \/ initData
    \/ \E i \in Accounts : Insert(i) \/ InsertFails(i) \/ InsertGivesUp(i)
    \/ SetUpReturns
    \/ TransferSkips \/ TransferErrors \/ TransferReads \/ TransferPanics
    \/ BackupBegins \/ BackupPanics \/ BackupSucceeds \/ BackupFails
    \/ RestoreBegins \/ RestoreOne \/ RestoreFails \/ RestoreEnds

Spec == Init /\ [][Next]_vars

(***************************************************************************)
(* Restore is run once every RestoreInterval and the database answers     *)
(* every statement: the steps of restore, and the end of a backup, are     *)
(* taken when they stay possible.  Entering restore is strongly fair: the  *)
(* lock is free between two backups, and a sync.RWMutex lets no new reader *)
(* in while a writer waits.  Nothing is assumed of RestoreFails.           *)
(***************************************************************************)
FairSpec ==
    /\ Spec
    /\ WF_vars(BackupSucceeds \/ BackupFails)
    /\ SF_vars(RestoreBegins) /\ WF_vars(RestoreOne) /\ WF_vars(RestoreEnds)

-----------------------------------------------------------------------------
(***************************************************************************)
(* What a call of restore replays can be restored: it starts with a full   *)
(* backup (LAST_BACKUP = 0) and every backup after it is the increment     *)
(* from the timestamp of the one before.  This is what the reset of        *)
(* lastBackupTs at the end of restore, and the exclusion of backup and     *)
(* restore by restoringLock, are for.                                      *)
(***************************************************************************)
RestoreReplaysChain ==
    \A k \in DOMAIN replayed :
        stored[replayed[k] + 1].from =
            IF k = 1 THEN 0 ELSE stored[replayed[k - 1] + 1].to

(***************************************************************************)
(* Every backup taken is restored, unless a RESTORE statement failed       *)
(* and ended the test: the loop of restore runs up to nextBackupIndex.     *)
(***************************************************************************)
EveryBackupRestored ==
    \A i \in 0 .. MaxBackups - 1 :
        (nextBackupIndex > i) ~> (nextRestoreIndex > i \/ ~alive)

(***************************************************************************)
(* When Start runs on the client that SetUp opened the database for, the   *)
(* sessions of backupClient.db have the global variables applyConfig set:  *)
(* a session keeps the values it was opened with, and SetUp opens the      *)
(* database again after applyConfig and its sleep, before anything else    *)
(* uses the handle.                                                        *)
(***************************************************************************)
FeaturesInEffect == Started /\ idx = 0 => HasDB /\ session.globals

(***************************************************************************)
(* "Features means the feature on TiDB we can turn on and off", and        *)
(* ReplicaRead is one of them: what applyConfig set for it is still set    *)
(* when SetUp goes on to create the tables.  The code does otherwise:      *)
(* tidb_replica_read is set with "set @@", for one session of the handle   *)
(* of the first util.OpenDB, and SetUp then replaces backupClient.db by a  *)
(* new handle, whose sessions start with the default.                      *)
(***************************************************************************)
ReplicaReadKept ==
    [][pc = "reopen" /\ pc' = "tables" => session'.replicaRead = session.replicaRead]_vars

(***************************************************************************)
(* When Start runs on that client, every account is in the table:          *)
(* initData returns only when each of its goroutines has, and a goroutine  *)
(* returns only when its INSERT succeeded, at the first attempt or at a    *)
(* later one.                                                              *)
(***************************************************************************)
AccountsInitialised == Started /\ idx = 0 => accounts = Accounts

(***************************************************************************)
(* transferOnce never ends the test with "invalid count": the two accounts *)
(* it selects are different, under low and under high contention, and      *)
(* SetUp has inserted both before Start calls it.                          *)
(***************************************************************************)
TransferFindsBothAccounts == exit # "count"
=============================================================================
