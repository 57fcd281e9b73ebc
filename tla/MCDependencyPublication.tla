---------------------- MODULE MCDependencyPublication -----------------------
(* DependencyPublication over a few dependency shapes of four items.         *)
EXTENDS DependencyPublication

MCItems == 0..3
MCRows == 0..4

\* Item 0 owns a row of its own, item 1 two, item 2 one, item 3 the last; the
\* numbering of rows differs from that of items.
MCOwnedRows == [i \in MCItems |->
    CASE i = 0 -> {1} [] i = 1 -> {0, 2} [] i = 2 -> {4} [] i = 3 -> {3}]

MCPositions == [i \in MCItems |-> 3 - i]
ShapeOf(edges) ==
    Seal(MCPositions, [i \in MCItems |-> {d \in MCItems : <<i, d>> \in edges}])

\* A diamond, and a fork beside an independent item.
MCPlans == {ShapeOf({<<0, 1>>, <<0, 2>>, <<1, 3>>, <<2, 3>>}),
            ShapeOf({<<0, 3>>, <<1, 3>>})}

MCValues == 0..1
\* Each owned row adds what was read, with a different offset per row.
MCAnalyze(item, input) ==
    [r \in MCOwnedRows[item] |->
        (r + Cardinality({q \in DOMAIN input : input[q] = 1})) % 2]

MCInitialRows == {[r \in MCRows |-> 0]}
MCActivations == {MCItems, {3}}
MCFaultMaps ==
    {[i \in MCItems |-> "none"]} \cup
    {[i \in MCItems |-> IF i = a THEN k ELSE "none"] :
        a \in MCItems, k \in {"prepare error", "analyze panic", "foreign rows"}} \cup
    {[i \in MCItems |-> IF i \in {1, 2} THEN k ELSE "none"] :
        k \in {"prepare panic", "analyze error"}}
=============================================================================
