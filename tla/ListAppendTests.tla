--------------------------- MODULE ListAppendTests ---------------------------
(***************************************************************************)
(* The tests of the list-append checker (list_append_test.go): every test  *)
(* is the history it builds and the result it requires, with operations    *)
(* named by their index in the history.                                    *)
(***************************************************************************)
EXTENDS ListAppend

LOCAL a(k, v) == AppendMop(k, v)
LOCAL r(k, list) == ReadMop(k, list)
LOCAL nil(k) == ReadNil(k)
LOCAL ok(mops) == Op("ok", mops)

TestWWGraph ==
    WWGraph(<<ok(<<a("x", 1)>>), ok(<<a("x", 2)>>), ok(<<a("x", 3)>>),
              ok(<<r("x", <<1, 2, 3>>)>>)>>)
        = {<<1, 2, "ww">>, <<2, 3, "ww">>}

TestWRGraph ==
    WRGraph(<<ok(<<a("x", 1)>>), ok(<<r("x", <<1>>)>>), ok(<<a("x", 2)>>),
              ok(<<r("x", <<1, 2>>)>>)>>)
        = {<<1, 2, "wr">>, <<3, 4, "wr">>}

\* The operations TestGraph uses in more than one case.
LOCAL ax1 == ok(<<a("x", 1)>>)
LOCAL ax2 == ok(<<a("x", 2)>>)
LOCAL rx  == ok(<<nil("x")>>)
LOCAL rx1 == ok(<<r("x", <<1>>)>>)

\* TestGraph: a read of an append, a read before it, two appends in the
\* order a read saw them.
TestGraphOneKey ==
    /\ Graph(<<ax1, rx1>>) = {<<1, 2, "wr">>}
    /\ Graph(<<rx, ax1, rx1>>) = {<<1, 2, "rw">>, <<2, 3, "wr">>}
    /\ Graph(<<ax2, ax1, ok(<<r("x", <<1, 2>>)>>)>>) = {<<2, 1, "ww">>, <<1, 3, "wr">>}

\* TestGraph: a chain over three keys.
TestGraphChain ==
    Graph(<<ok(<<a("z", 1), a("x", 1), a("y", 1)>>),
            ok(<<r("x", <<1>>), a("y", 2)>>),
            ok(<<r("y", <<1, 2>>), a("z", 3)>>),
            ok(<<r("z", <<1, 3>>)>>)>>)
        = {<<1, 2, "ww">>, <<1, 3, "ww">>, <<1, 2, "wr">>, <<2, 3, "wr">>,
           <<3, 4, "wr">>}

\* The history of two writers seen in opposite orders on x and y.
WriteCycle ==
    <<ok(<<a("x", 1), a("y", 1)>>), ok(<<a("x", 2), a("y", 2)>>),
      ok(<<r("x", <<1, 2>>), r("y", <<2, 1>>)>>)>>

TestGraphWriteCycle ==
    Graph(WriteCycle) = {<<1, 2, "ww">>, <<1, 3, "wr">>, <<2, 1, "ww">>, <<2, 3, "wr">>}

\* TestGraph: two operations that each read what the other had not yet
\* appended are one strongly connected component.
TestGraphReadCycle ==
    Sccs(<<ok(<<nil("x"), a("y", 1)>>), ok(<<nil("y"), a("x", 1)>>),
           ok(<<r("x", <<1>>), r("y", <<1>>)>>)>>) = {{1, 2}}

\* TestGraph: the append of an info operation counts, its read does not.
TestGraphInfo ==
    Graph(<<Op("info", <<a("x", 2), nil("y")>>), ok(<<a("x", 1), a("y", 1)>>),
            ok(<<r("x", <<1, 2>>), r("y", <<1>>)>>)>>)
        = {<<1, 3, "wr">>, <<2, 1, "ww">>, <<2, 3, "wr">>}

\* TestGraph: one append nobody read is the first version; of two appends
\* nobody read nothing is known.
TestGraphUnobserved ==
    /\ Graph(<<rx, ax1>>) = {<<1, 2, "rw">>}
    /\ Graph(<<rx, ax1, ax2>>) = {}

\* TestGraph: the panic names the second operation that appends 1 to x.
TestGraphDuplicate ==
    DuplicateAppends(<<Op("invoke", <<a("x", 1), nil("y")>>),
                       Op("invoke", <<a("y", 2), a("x", 1)>>)>>)
        = {[op |-> 2, key |-> "x", value |-> 1]}

TestG1aCases ==
    /\ G1aCases(<<>>) = {}
    /\ G1aCases(<<ok(<<r("x", <<1>>), a("x", 2)>>),
                  ok(<<r("x", <<1, 2>>), r("y", <<3>>)>>),
                  Op("fail", <<a("x", 1)>>)>>)
        = {G1Conflict(1, r("x", <<1>>), 3, 1), G1Conflict(2, r("x", <<1, 2>>), 3, 1)}

TestG1bCases ==
    /\ G1bCases(<<>>) = {}
    /\ G1bCases(<<ok(<<r("x", <<1>>)>>), ok(<<r("x", <<1, 2>>), r("y", <<3>>)>>),
                  ok(<<a("x", 1), a("x", 2)>>), ok(<<r("x", <<1, 2, 3>>)>>)>>)
        = {G1Conflict(1, r("x", <<1>>), 3, 1)}

\* TestInternalCases: reads that agree with the operation's own mops.
TestInternalAgree ==
    /\ InternalCases(<<>>) = {}
    /\ InternalCases(<<ok(<<r("y", <<5, 6>>), a("x", 3), r("x", <<1, 2, 3>>),
                            a("x", 4), r("x", <<1, 2, 3, 4>>)>>)>>) = {}

LOCAL Conflict(i, mop, expected) == [op |-> i, mop |-> mop, expected |-> expected]

\* TestInternalCases: a stale read, a bad prefix, an extension and a short
\* read, after a read that fixed what to expect.
TestInternalKnown ==
    LET after(list) == ok(<<r("x", <<1, 2>>), a("x", 3), r("x", list)>>)
        lists == <<(<<1, 2>>), (<<0, 2, 3>>), (<<1, 2, 3, 4>>), (<<1>>)>>
    IN  InternalCases([i \in 1 .. 4 |-> after(lists[i])])
            = {Conflict(i, r("x", lists[i]), <<1, 2, 3>>) : i \in 1 .. 4}

\* TestInternalCases: reads after an append and nothing else, and an
\* operation that is in the history as invoke and as ok.
TestInternalUnknownPrefix ==
    LET magic == unknownPrefixMagicNumber
    IN  /\ InternalCases(<<ok(<<a("x", 3), r("x", <<1, 2, 3, 4>>)>>),
                           ok(<<a("x", 3), r("x", <<>>)>>)>>)
            = {Conflict(1, r("x", <<1, 2, 3, 4>>), <<magic, 3>>),
               Conflict(2, r("x", <<>>), <<magic, 3>>)}
        /\ InternalCases(<<Op("invoke", <<a("0", 6), nil("0")>>),
                           ok(<<a("0", 6), nil("0")>>)>>)
            = {Conflict(2, nil("0"), <<magic, 6>>)}

\* TestChecker: the write cycle is a G0, and the history is not valid for
\* who asks for G0.
TestCheckerG0 ==
    /\ AnomalyTypes(WriteCycle) = {"G0"}
    /\ ~Valid(WriteCycle, {"G0"})
    /\ Sccs(WriteCycle) = {{1, 2}}

-----------------------------------------------------------------------------
\* Every test passes.
AgreesWithTests ==
    /\ TestWWGraph /\ TestWRGraph
    /\ TestGraphOneKey /\ TestGraphChain /\ TestGraphWriteCycle
    /\ TestGraphReadCycle /\ TestGraphInfo /\ TestGraphUnobserved
    /\ TestGraphDuplicate
    /\ TestG1aCases /\ TestG1bCases
    /\ TestInternalAgree /\ TestInternalKnown /\ TestInternalUnknownPrefix
    /\ TestCheckerG0
=============================================================================
