------------------------------- MODULE NoopDB -------------------------------
(***************************************************************************)
(* The set-up hook of a database that needs no installation (NoopDB.SetUp  *)
(* of pkg/core/db.go).  The framework calls SetUp once for every node of   *)
(* the cluster, with the list of all nodes; the call for the first TiDB    *)
(* node of the list runs the prepare statements, which set global          *)
(* variables, and waits for them to take effect.                           *)
(*                                                                         *)
(* The calls are made by code that is not in the repository: they are      *)
(* taken to run in any order and at the same time.  The database is the    *)
(* environment: a TiDB node other than the one that ran the statements     *)
(* sees the global variables when it next reloads them, which it does      *)
(* within ReloadTicks of the statements.  Time is counted in ticks of 100  *)
(* milliseconds, from the start, and only while somebody waits for it.     *)
(***************************************************************************)
EXTENDS Integers, Sequences, FiniteSets, FiniteSetsExt

CONSTANTS
    Cluster,        \* the argument nodes: a sequence of [name, component]
    ReloadTicks     \* a TiDB node reloads the global variables within this time

ASSUME ReloadTicks \in Nat \ {0}

TiDB == "tidb"

\* The values of TiDBClusterConfig.PrepareSQL that SetUp tells apart.
Empty      == "empty"
Blank      == "blank"       \* white space only
Statements == "statements"

VARIABLES
    prepareSQL,     \* fixture.Context.TiDBClusterConfig.PrepareSQL
    pc,             \* pc[i]: where the call of SetUp for Cluster[i] is
    executed,       \* how many times the prepare statements were executed
    effective,      \* the nodes on which the global variables are in effect
    now,            \* the time
    setAt,          \* when the prepare statements were last executed
    wake            \* wake[i]: when the sleep of the call for Cluster[i] is over

vars == <<prepareSQL, pc, executed, effective, now, setAt, wake>>

Calls == DOMAIN Cluster
TiDBs == {i \in Calls : Cluster[i].component = TiDB}

Returned == {"nil", "err"}

TypeOK ==
    /\ prepareSQL \in {Empty, Blank, Statements}
    /\ pc \in [Calls -> {"start", "exec", "close", "sleep"} \cup Returned]
    /\ executed \in 0 .. Len(Cluster)
    /\ effective \subseteq TiDBs
    /\ now \in Nat /\ setAt \in 0 .. now
    /\ wake \in [Calls -> Nat]

Init ==
    /\ prepareSQL \in {Empty, Blank, Statements}
    /\ pc = [i \in Calls |-> "start"]
    /\ executed = 0
    /\ effective = {}
    /\ now = 0 /\ setAt = 0
    /\ wake = [i \in Calls |-> 0]

Goto(i, label) == pc' = [pc EXCEPT ![i] = label]

-----------------------------------------------------------------------------
\* Mutated forms of the definitions below: the first node of the list
\* whatever its component, every TiDB node, a sleep of two seconds.
IsFirstTiDB_FirstNode(node) == node = Cluster[1]

IsFirstTiDB_EveryTiDB(node) == node.component = TiDB

SleepTicks_TwoSeconds == 20

-----------------------------------------------------------------------------
\* strings.TrimSpace.
TrimSpace(s) == IF s = Blank THEN Empty ELSE s

\* The loop over nodes: it stops at the first TiDB node and compares it,
\* as a value, with the node of this call.
IsFirstTiDB(node) == TiDBs # {} /\ Cluster[Min(TiDBs)] = node

\* The two ways SetUp returns nil without touching the database.
NothingToDo(i) ==
    /\ pc[i] = "start"
    /\ TrimSpace(prepareSQL) = Empty \/ ~IsFirstTiDB(Cluster[i])
    /\ Goto(i, "nil")
    /\ UNCHANGED <<prepareSQL, executed, effective, now, setAt, wake>>

\* sql.Open, which may fail.
Open(i) ==
    /\ pc[i] = "start"
    /\ TrimSpace(prepareSQL) # Empty /\ IsFirstTiDB(Cluster[i])
    /\ \E next \in {"exec", "err"} : Goto(i, next)
    /\ UNCHANGED <<prepareSQL, executed, effective, now, setAt, wake>>

\* db.Exec(PrepareSQL): the node that ran it sees the variables at once.
Exec(i) ==
    /\ pc[i] = "exec"
    /\ executed' = executed + 1
    /\ effective' = effective \cup {i}
    /\ setAt' = now
    /\ Goto(i, "close")
    /\ UNCHANGED <<prepareSQL, now, wake>>

ExecFails(i) ==
    /\ pc[i] = "exec"
    /\ Goto(i, "err")
    /\ UNCHANGED <<prepareSQL, executed, effective, now, setAt, wake>>

\* time.Sleep(2100 * time.Millisecond), in ticks.
SleepTicks == 21

\* db.Close, which may fail; when it did not, the sleep begins.
Close(i) ==
    /\ pc[i] = "close"
    /\ \E next \in {"sleep", "err"} : Goto(i, next)
    /\ wake' = [wake EXCEPT ![i] = now + SleepTicks]
    /\ UNCHANGED <<prepareSQL, executed, effective, now, setAt>>

\* The sleep is over and SetUp returns nil.
Sleep(i) ==
    /\ pc[i] = "sleep"
    /\ now >= wake[i]
    /\ Goto(i, "nil")
    /\ UNCHANGED <<prepareSQL, executed, effective, now, setAt, wake>>

\* The environment: a TiDB node reloads the global variables.
Reload(j) ==
    /\ executed > 0
    /\ j \in TiDBs \ effective
    /\ effective' = effective \cup {j}
    /\ UNCHANGED <<prepareSQL, pc, executed, now, setAt, wake>>

\* The environment: time passes, while a call sleeps or a node has a reload
\* to make, and never past the time by which a node has reloaded.
Tick ==
    /\ executed > 0
    /\ \/ \E i \in Calls : pc[i] = "sleep" /\ now < wake[i]
       \/ TiDBs \ effective # {}
    /\ TiDBs \ effective # {} => now < setAt + ReloadTicks
    /\ now' = now + 1
    /\ UNCHANGED <<prepareSQL, pc, executed, effective, setAt, wake>>

Next ==
    \E i \in Calls :
        \/ NothingToDo(i) \/ Open(i) \/ Exec(i) \/ ExecFails(i)
        \/ Close(i) \/ Sleep(i) \/ Reload(i)
    \/ Tick

Spec == Init /\ [][Next]_vars

-----------------------------------------------------------------------------
(***************************************************************************)
(* The prepare statements are executed at most once, however many TiDB     *)
(* nodes the cluster has and in whatever order their calls of SetUp run:   *)
(* the loop of SetUp picks the same node in every call.                    *)
(***************************************************************************)
PreparedOnce == executed <= 1

(***************************************************************************)
(* "Wait until global variables take effect": when SetUp has returned nil  *)
(* for every node, and there were statements to run and a TiDB node to run *)
(* them, the global variables are in effect on every TiDB node.  SetUp     *)
(* does not ask the nodes; it sleeps 2100 milliseconds after it has closed *)
(* the handle, and that is enough when no node takes longer than that to   *)
(* reload, counted from the statements.  All but one of the calls return   *)
(* at once: the property speaks for whoever waits for all of them.         *)
(***************************************************************************)
SetUpMeansPrepared ==
    /\ \A i \in Calls : pc[i] = "nil"
    /\ TrimSpace(prepareSQL) # Empty
    /\ TiDBs # {}
    => effective = TiDBs
=============================================================================
