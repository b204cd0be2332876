---------------------------- MODULE ListAppendDB ----------------------------
(***************************************************************************)
(* The histories the list-append checker is given: a database of lists     *)
(* that transactions read and append to, and the operations they complete  *)
(* with.  The database is the environment of the checker; it isolates      *)
(* nothing: a transaction reads what the others have appended so far,      *)
(* committed or not, and an abort takes the appends of the transaction out *)
(* of the lists again.  The executions in which the transactions run one   *)
(* after the other are among its behaviours.                               *)
(*                                                                         *)
(* The checker is run on the history of every state reached.               *)
(***************************************************************************)
EXTENDS ListAppendTests

CONSTANTS
    Txns,       \* the transactions, one for each client process
    Keys,       \* the keys of the lists
    MaxMops,    \* bound on the mops of a transaction
    MaxTotal,   \* bound on the mops of all transactions together
    MaxFaults   \* bound on the transactions that fail or end unknown

VARIABLES
    applied,    \* applied[k]: the values appended to k, in the order they were
    rolled,     \* the values that an abort took out again
    state,      \* state[t]: "idle", "open", or the type t completed with
    mops,       \* mops[t]: what t has executed
    history,    \* the completed operations, as the checker gets them
    opOf,       \* opOf[t]: the index in history of the operation of t, or 0
    serial,     \* no two transactions have been open at the same time
    dirty       \* the reads of a value whose writer was open at the time

vars == <<applied, rolled, state, mops, history, opOf, serial, dirty>>

Values == 1 .. Cardinality(Txns) * MaxMops
Types == {"ok", "fail", "info"}

\* The list of k as a read finds it.
Store(k) == SelectSeq(applied[k], LAMBDA v : v \notin rolled)

\* The values t has appended.
Written(t) == {mops[t][j].value : j \in {j \in DOMAIN mops[t] : IsAppend(mops[t][j])}}

Open == {t \in Txns : state[t] = "open"}

TypeOK ==
    /\ applied \in [Keys -> Seq(Values)]
    /\ rolled \subseteq Values
    /\ state \in [Txns -> {"idle", "open"} \cup Types]
    /\ \A t \in Txns : Len(mops[t]) <= MaxMops
    /\ \A i \in DOMAIN history : history[i].type \in Types
    /\ opOf \in [Txns -> 0 .. Len(history)]
    /\ serial \in BOOLEAN
    /\ dirty \subseteq [reader : Txns, writer : Txns, element : Values, last : BOOLEAN]
    /\ Graph(history) \subseteq
            {e \in (DOMAIN history) \X (DOMAIN history) \X {"ww", "wr", "rw"} : e[1] # e[2]}

Init ==
    /\ applied = [k \in Keys |-> <<>>]
    /\ rolled = {}
    /\ state = [t \in Txns |-> "idle"]
    /\ mops = [t \in Txns |-> <<>>]
    /\ history = <<>>
    /\ opOf = [t \in Txns |-> 0]
    /\ serial = TRUE
    /\ dirty = {}

\* The first mop of t opens it.
Executed == FoldFunctionOnSet(LAMBDA m, n : Len(m) + n, 0, mops, Txns)

CanExecute(t) ==
    /\ state[t] \in {"idle", "open"}
    /\ Len(mops[t]) < MaxMops /\ Executed < MaxTotal

Executes(t) ==
    /\ state' = [state EXCEPT ![t] = "open"]
    /\ serial' = (serial /\ Open \subseteq {t})

\* t appends a value nobody has appended before.
DoAppend(t, k) ==
    /\ CanExecute(t)
    /\ LET v == 1 + Cardinality(UNION {ToSet(applied[key]) : key \in Keys})
       IN  /\ applied' = [applied EXCEPT ![k] = Append(@, v)]
           /\ mops' = [mops EXCEPT ![t] = Append(@, AppendMop(k, v))]
    /\ Executes(t)
    /\ UNCHANGED <<rolled, history, opOf, dirty>>

\* t reads the list of k, whoever appended to it.
DoRead(t, k) ==
    /\ CanExecute(t)
    /\ LET list == Store(k)
       IN  /\ mops' = [mops EXCEPT
                        ![t] = Append(@, IF list = <<>> THEN ReadNil(k)
                                                         ELSE ReadMop(k, list))]
           /\ dirty' = dirty \cup
                        {[reader |-> t, writer |-> w, element |-> list[n],
                          last |-> n = Len(list)] :
                            <<w, n>> \in {wn \in (Open \ {t}) \X (DOMAIN list) :
                                            list[wn[2]] \in Written(wn[1])}}
    /\ Executes(t)
    /\ UNCHANGED <<applied, rolled, history, opOf>>

\* What the history holds of a transaction that did not complete ok: its
\* mops as they were invoked, the reads without a value.
Invoked(t) ==
    [j \in DOMAIN mops[t] |->
        IF IsRead(mops[t][j]) THEN ReadNil(mops[t][j].key) ELSE mops[t][j]]

Completes(t, type) ==
    /\ state[t] = "open" /\ mops[t] # <<>>
    /\ state' = [state EXCEPT ![t] = type]
    /\ history' = Append(history, Op(type, IF type = "ok" THEN mops[t] ELSE Invoked(t)))
    /\ opOf' = [opOf EXCEPT ![t] = Len(history) + 1]
    /\ UNCHANGED <<applied, mops, serial, dirty>>

Faults == Cardinality({t \in Txns : state[t] \in {"fail", "info"}})

Commit(t) == Completes(t, "ok") /\ UNCHANGED rolled

Abort(t) ==
    /\ Faults < MaxFaults
    /\ Completes(t, "fail")
    /\ rolled' = rolled \cup Written(t)

\* The client does not learn whether t committed; it did.
CrashCommitted(t) ==
    /\ Faults < MaxFaults
    /\ Completes(t, "info")
    /\ UNCHANGED rolled

\* The client does not learn whether t committed; it did not.
CrashAborted(t) ==
    /\ Faults < MaxFaults
    /\ Completes(t, "info")
    /\ rolled' = rolled \cup Written(t)

Next ==
    \E t \in Txns :
        \/ \E k \in Keys : DoAppend(t, k) \/ DoRead(t, k)
        \/ Commit(t) \/ Abort(t) \/ CrashCommitted(t) \/ CrashAborted(t)

Spec == Init /\ [][Next]_vars

-----------------------------------------------------------------------------
(***************************************************************************)
(* The checker finds nothing in the history of transactions that ran one   *)
(* after the other, whatever they did and however they ended: no cycle of  *)
(* the graph that wwGraph, wrGraph and rwGraph build, no case of g1aCases, *)
(* g1bCases and internalCases, no duplicate append.                        *)
(***************************************************************************)
SerialHistoryIsValid ==
    serial => AnomalyTypes(history) = {} /\ DuplicateAppends(history) = {}

(***************************************************************************)
(* A ww edge of wwGraph is an order the database really applied: on some   *)
(* key, the first operation appended before the second did.  The version   *)
(* order is inferred from reads, and from nothing else where nothing else  *)
(* is known.                                                               *)
(***************************************************************************)
VersionOrderIsReal ==
    \A e \in WWGraph(history) :
        \E k \in Keys : \E m, n \in DOMAIN applied[k] :
            /\ m < n
            /\ applied[k][m] \in ToSet(AppendsOf(history, e[1], k))
            /\ applied[k][n] \in ToSet(AppendsOf(history, e[2], k))

(***************************************************************************)
(* The checker gives for the history of every test of list_append_test.go  *)
(* what the test requires of wwGraph, wrGraph, graph, g1aCases, g1bCases,  *)
(* internalCases and check.  The tests do not depend on the database: they *)
(* are evaluated in its initial state.                                     *)
(***************************************************************************)
TestsPass == Init => AgreesWithTests

\* The dirty reads of a transaction that completed ok, from a writer that
\* completed with the type.
DirtyReads(type) ==
    {d \in dirty : state[d.reader] = "ok" /\ state[d.writer] = type}

(***************************************************************************)
(* g1aCases reports every aborted read: when a transaction that completed  *)
(* ok read an element while its writer was open, and the writer failed,    *)
(* there is a G1a case for that reader, writer and element, wherever in    *)
(* the list the element was.                                               *)
(***************************************************************************)
AbortedReadFound ==
    \A d \in DirtyReads("fail") :
        \E c \in G1aCases(history) :
            c.op = opOf[d.reader] /\ c.writer = opOf[d.writer] /\ c.element = d.element

(***************************************************************************)
(* g1bCases reports every intermediate read: when the last element a       *)
(* transaction that completed ok read was appended by an open transaction  *)
(* that went on to append to the same key and completed ok, there is a G1b *)
(* case for that reader, writer and element.                               *)
(***************************************************************************)
IntermediateReadFound ==
    \A d \in DirtyReads("ok") :
        /\ d.last
        /\ \E k \in Keys : \E m, n \in DOMAIN applied[k] :
                m < n /\ applied[k][m] = d.element /\ applied[k][n] \in Written(d.writer)
        => \E c \in G1bCases(history) :
                c.op = opOf[d.reader] /\ c.writer = opOf[d.writer] /\ c.element = d.element
=============================================================================
