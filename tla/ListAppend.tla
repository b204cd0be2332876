----------------------------- MODULE ListAppend -----------------------------
(***************************************************************************)
(* The list-append anomaly checker of pkg/elle/list_append, as operators   *)
(* on a history.  The package's tests (list_append_test.go) are in the     *)
(* repository, its code is not: the operators are written from the         *)
(* specification of the checker (sections 4.3, 4.5, 4.6 and 4.8) and,      *)
(* where that leaves a choice, from what the tests expect.                 *)
(*                                                                         *)
(* A history is a sequence of operations; an operation is identified by    *)
(* its index in the history.  An edge of the dependency graph is a triple  *)
(* <<from, to, type>>.                                                     *)
(***************************************************************************)
EXTENDS Integers, Sequences, FiniteSets, SequencesExt

LOCAL Digraphs == INSTANCE Graphs

\* The first element of "expected" when what the list began with is unknown.
unknownPrefixMagicNumber == -1

\* A micro-operation.  A read holds the list it returned; nil, the value of
\* a key that was never written, is told apart from the empty list.
AppendMop(k, v) == [f |-> "append", key |-> k, value |-> v]
ReadMop(k, list) == [f |-> "r", key |-> k, value |-> list, nil |-> FALSE]
ReadNil(k) == [f |-> "r", key |-> k, value |-> <<>>, nil |-> TRUE]

IsAppend(mop) == mop.f = "append"
IsRead(mop) == mop.f = "r"

\* An operation: its type is "ok", "fail", "info" or "invoke".
Op(type, mops) == [type |-> type, value |-> mops]

OkOps(h) == {i \in DOMAIN h : h[i].type = "ok"}

\* The operations whose appends may have taken effect.
OkOrInfoOps(h) == {i \in DOMAIN h : h[i].type \in {"ok", "info"}}

KeysOf(h) == UNION {{h[i].value[j].key : j \in DOMAIN h[i].value} : i \in DOMAIN h}

\* The values the operation i appends to k, in the order of its mops.
AppendsOf(h, i, k) ==
    LET mops == SelectSeq(h[i].value, LAMBDA mop : IsAppend(mop) /\ mop.key = k)
    IN  [n \in DOMAIN mops |-> mops[n].value]

\* The operations among ops that append v to k.
WritersAmong(h, ops, k, v) == {i \in ops : v \in ToSet(AppendsOf(h, i, k))}

WriterOf(h, k, v) == WritersAmong(h, OkOrInfoOps(h), k, v)

\* The reads of k that ok operations made.
ReadsOf(h, k) ==
    UNION {{h[i].value[j].value :
                j \in {j \in DOMAIN h[i].value :
                         IsRead(h[i].value[j]) /\ h[i].value[j].key = k}} :
           i \in OkOps(h)}

-----------------------------------------------------------------------------
\* Mutated form of VersionOrder: the order of a key nobody read is taken to
\* be the order in which the history meets its appends.
VersionOrder_EncounterOrder(h, k) ==
    LET observed == {list \in ReadsOf(h, k) : list # <<>>}
    IN  IF observed # {}
        THEN CHOOSE list \in observed : \A other \in observed : Len(other) <= Len(list)
        ELSE FlattenSeq([i \in DOMAIN h |->
                            IF i \in OkOrInfoOps(h) THEN AppendsOf(h, i, k) ELSE <<>>])

-----------------------------------------------------------------------------
(***************************************************************************)
(* verifyUniqueAppends: the appends that repeat an earlier append of the   *)
(* same value to the same key, in whatever operation.  The checker panics  *)
(* on the first of them.                                                   *)
(***************************************************************************)
DuplicateAppends(h) ==
    LET appends == {<<i, j>> \in UNION {{i} \X DOMAIN h[i].value : i \in DOMAIN h} :
                        IsAppend(h[i].value[j])}
        Earlier(a, b) == a[1] < b[1] \/ (a[1] = b[1] /\ a[2] < b[2])
        Same(a, b) == /\ h[a[1]].value[a[2]].key = h[b[1]].value[b[2]].key
                      /\ h[a[1]].value[a[2]].value = h[b[1]].value[b[2]].value
    IN  {[op |-> b[1], key |-> h[b[1]].value[b[2]].key,
          value |-> h[b[1]].value[b[2]].value] :
            b \in {b \in appends : \E a \in appends : Earlier(a, b) /\ Same(a, b)}}

(***************************************************************************)
(* The version order of a key: the longest list an ok operation read of    *)
(* it; for a key nobody read and only one operation appended to once, that *)
(* one value; otherwise nothing is known.                                  *)
(***************************************************************************)
VersionOrder(h, k) ==
    LET observed == {list \in ReadsOf(h, k) : list # <<>>}
        appended == UNION {ToSet(AppendsOf(h, i, k)) : i \in OkOrInfoOps(h)}
    IN  IF observed # {}
        THEN CHOOSE list \in observed : \A other \in observed : Len(other) <= Len(list)
        ELSE IF Cardinality(appended) = 1 THEN SetToSeq(appended) ELSE <<>>

\* ww: from the writer of a version to the writer of the next one.
WWGraph(h) ==
    {<<a, b, "ww">> : <<a, b>> \in
        UNION {LET order == VersionOrder(h, k)
               IN  UNION {{ab \in WriterOf(h, k, order[n]) \X WriterOf(h, k, order[n + 1]) :
                              ab[1] # ab[2]} : n \in 1 .. Len(order) - 1} :
               k \in KeysOf(h)}}

\* The external reads of an operation: the reads of a key that come before
\* any other mop of the operation on that key.
ExtReads(h, i) ==
    {j \in DOMAIN h[i].value :
        /\ IsRead(h[i].value[j])
        /\ \A earlier \in 1 .. j - 1 : h[i].value[earlier].key # h[i].value[j].key}

\* Mutated form of WRGraph: an edge from the writer of every element read.
WRGraph_EveryElement(h) ==
    {<<w, i, "wr">> : <<w, i>> \in
        UNION {UNION {LET mop == h[i].value[j]
                      IN  (UNION {WriterOf(h, mop.key, v) : v \in ToSet(mop.value)}
                            \ {i}) \X {i} :
                      j \in ExtReads(h, i)} :
               i \in OkOps(h)}}

\* wr: from the writer of the last element of a list to the ok operation
\* that read the list.
WRGraph(h) ==
    {<<w, i, "wr">> : <<w, i>> \in
        UNION {UNION {LET mop == h[i].value[j]
                      IN  IF mop.value = <<>> THEN {}
                          ELSE (WriterOf(h, mop.key, Last(mop.value)) \ {i}) \X {i} :
                      j \in ExtReads(h, i)} :
               i \in OkOps(h)}}

\* Mutated form of NextVersion: the version read, not the one after it.
NextVersion_Current(order, list) ==
    IF list = <<>>
    THEN {order[n] : n \in DOMAIN order \cap {1}}
    ELSE {order[n] : n \in {n \in 1 .. Len(order) : order[n] = Last(list)}}

\* The version that follows the one a read returned: the first one after
\* nil or the empty list, else the one after the last element of the list.
NextVersion(order, list) ==
    IF list = <<>>
    THEN {order[n] : n \in DOMAIN order \cap {1}}
    ELSE {order[n + 1] : n \in {n \in 1 .. Len(order) - 1 : order[n] = Last(list)}}

\* Mutated form of RWGraph: the next version may be the reader's own.
RWGraph_OwnAppend(h) ==
    {<<i, w, "rw">> : <<i, w>> \in
        UNION {UNION {LET mop == h[i].value[j]
                          next == NextVersion(VersionOrder(h, mop.key), mop.value)
                      IN  {i} \X UNION {WriterOf(h, mop.key, v) : v \in next} :
                      j \in ExtReads(h, i)} :
               i \in OkOps(h)}}

\* rw: from the ok operation that read a version to the writer of the next.
RWGraph(h) ==
    {<<i, w, "rw">> : <<i, w>> \in
        UNION {UNION {LET mop == h[i].value[j]
                          next == NextVersion(VersionOrder(h, mop.key), mop.value)
                      IN  {i} \X (UNION {WriterOf(h, mop.key, v) : v \in next} \ {i}) :
                      j \in ExtReads(h, i)} :
               i \in OkOps(h)}}

\* graph: the union of the three.
Graph(h) == WWGraph(h) \cup WRGraph(h) \cup RWGraph(h)

-----------------------------------------------------------------------------
\* The reads of the ok operations, as <<operation, mop>>.
OkReads(h) ==
    UNION {{<<i, h[i].value[j]>> : j \in {j \in DOMAIN h[i].value : IsRead(h[i].value[j])}} :
           i \in OkOps(h)}

G1Conflict(i, mop, w, e) == [op |-> i, mop |-> mop, writer |-> w, element |-> e]

\* Mutated form of G1aCases: only the last element of a list is looked up.
G1aCases_LastElement(h) ==
    LET failed == {i \in DOMAIN h : h[i].type = "fail"}
    IN  UNION {IF r[2].value = <<>> THEN {}
               ELSE {G1Conflict(r[1], r[2], w, Last(r[2].value)) :
                        w \in WritersAmong(h, failed, r[2].key, Last(r[2].value))} :
               r \in OkReads(h)}

\* g1aCases: an ok operation read an element that a failed operation
\* appended, wherever in the list the element is.
G1aCases(h) ==
    LET failed == {i \in DOMAIN h : h[i].type = "fail"}
    IN  UNION {UNION {{G1Conflict(r[1], r[2], w, e) :
                         w \in WritersAmong(h, failed, r[2].key, e)} :
                      e \in ToSet(r[2].value)} :
               r \in OkReads(h)}

\* Mutated form of G1bCases: the element is compared with the first value
\* its writer appended to the key.
G1bCases_FirstAppend(h) ==
    UNION {LET mop == r[2]
           IN  IF mop.value = <<>> THEN {}
               ELSE {G1Conflict(r[1], mop, w, Last(mop.value)) :
                        w \in {w \in WriterOf(h, mop.key, Last(mop.value)) \ {r[1]} :
                                 Head(AppendsOf(h, w, mop.key)) # Last(mop.value)}} :
           r \in OkReads(h)}

\* g1bCases: the last element an ok operation read is one that another
\* operation appended and was not the last that operation appended to the
\* key.
G1bCases(h) ==
    UNION {LET mop == r[2]
           IN  IF mop.value = <<>> THEN {}
               ELSE {G1Conflict(r[1], mop, w, Last(mop.value)) :
                        w \in {w \in WriterOf(h, mop.key, Last(mop.value)) \ {r[1]} :
                                 Last(AppendsOf(h, w, mop.key)) # Last(mop.value)}} :
           r \in OkReads(h)}

(***************************************************************************)
(* What an operation that has run mops expects to read of k next: nothing  *)
(* when it has not touched k (any), the list it last read followed by what *)
(* it appended since (known), or just what it appended, after an unknown   *)
(* prefix.                                                                 *)
(***************************************************************************)
Expected(mops, k) ==
    FoldLeft(LAMBDA e, mop :
                IF mop.key # k THEN e
                ELSE IF IsRead(mop)
                     THEN [any |-> FALSE, known |-> TRUE, list |-> mop.value]
                     ELSE [any |-> FALSE, known |-> e.known,
                           list |-> Append(e.list, mop.value)],
             [any |-> TRUE, known |-> FALSE, list |-> <<>>], mops)

\* internalCases: the reads of ok operations that disagree with what the
\* operation itself read and appended before.
InternalCases(h) ==
    UNION {UNION {LET mop == h[i].value[j]
                      e == Expected(SubSeq(h[i].value, 1, j - 1), mop.key)
                      agrees == IF e.known THEN mop.value = e.list
                                ELSE IsSuffix(e.list, mop.value)
                  IN  IF ~IsRead(mop) \/ e.any \/ agrees THEN {}
                      ELSE {[op |-> i, mop |-> mop,
                             expected |-> IF e.known THEN e.list
                                          ELSE <<unknownPrefixMagicNumber>> \o e.list]} :
                  j \in DOMAIN h[i].value} :
           i \in OkOps(h)}

-----------------------------------------------------------------------------
\* Reach(...)[a, b]: there is a path from a to b along the edges of g that
\* have one of the types.
Reach(nodes, g, types) ==
    Digraphs!ConnectionsIn([node |-> nodes,
                            edge |-> {<<e[1], e[2]>> : e \in {e \in g : e[3] \in types}}])

\* The strongly connected components of more than one operation.
Sccs(h) ==
    LET reach == Reach(DOMAIN h, Graph(h), {"ww", "wr", "rw"})
    IN  {scc \in {{b \in DOMAIN h : reach[a, b] /\ reach[b, a]} : a \in DOMAIN h} :
            Cardinality(scc) > 1}

\* The classification of cycles: only ww edges, G0; ww and wr edges with a
\* wr edge, G1c; a cycle with an rw edge, G2 here, whatever its finer name.
CycleTypes(h) ==
    LET g == Graph(h)
        ww == Reach(DOMAIN h, g, {"ww"})
        wwr == Reach(DOMAIN h, g, {"ww", "wr"})
        all == Reach(DOMAIN h, g, {"ww", "wr", "rw"})
    IN  {type \in {"G0", "G1c", "G2"} :
            \/ type = "G0"  /\ \E e \in g : e[3] = "ww" /\ ww[e[2], e[1]]
            \/ type = "G1c" /\ \E e \in g : e[3] = "wr" /\ wwr[e[2], e[1]]
            \/ type = "G2"  /\ \E e \in g : e[3] = "rw" /\ all[e[2], e[1]]}

\* The types of the anomalies found in the history.
AnomalyTypes(h) ==
    CycleTypes(h) \cup {type \in {"G1a", "G1b", "internal"} :
                            \/ type = "G1a" /\ G1aCases(h) # {}
                            \/ type = "G1b" /\ G1bCases(h) # {}
                            \/ type = "internal" /\ InternalCases(h) # {}}

\* check: the verdict for the anomalies asked for.
Valid(h, anomalies) == AnomalyTypes(h) \cap anomalies = {}
=============================================================================
