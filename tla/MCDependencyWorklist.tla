------------------------ MODULE MCDependencyWorklist ------------------------
(* DependencyWorklist over a few shapes of dependency relation.             *)
EXTENDS DependencyWorklist

CONSTANT ItemCount

MCItems == 0..ItemCount - 1

\* Positions differ from item numbers, so that claiming by item and claiming
\* by position are told apart.
MCPositions == [i \in MCItems |-> (i + 2) % ItemCount]

ItemAt(position) == CHOOSE i \in MCItems : MCPositions[i] = position

\* Dependency edges between positions: a chain, a diamond, a fork with a
\* separate item, a zigzag and the complete order.
MCShapes ==
    {{<<1, 0>>, <<2, 1>>, <<3, 2>>},
     {<<1, 0>>, <<2, 0>>, <<3, 1>>, <<3, 2>>},
     {<<1, 0>>, <<2, 0>>},
     {<<2, 0>>, <<2, 1>>, <<3, 1>>},
     {<<1, 0>>, <<2, 0>>, <<2, 1>>, <<3, 0>>, <<3, 1>>, <<3, 2>>}}

MCPlans ==
    {Seal(MCPositions, [i \in MCItems |->
             {ItemAt(e[2]) : e \in {f \in shape : ItemAt(f[1]) = i}}]) :
        shape \in MCShapes}
=============================================================================
