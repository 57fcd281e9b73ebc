---------------------------- MODULE MCMappedEdit ----------------------------
(* MappedEdit on a two-cell netlist between two boundary nets.               *)
EXTENDS MappedEdit

CONSTANTS w1, w2

MCWorkers == {w1, w2}
MCSymmetry == Permutations(MCWorkers)

MCDesigns(instance) ==
    {[nets |-> <<<<"net", 1>>, NoName, <<"syn", 9>>>>,
      cells |-> <<[name |-> <<"syn", 1>>, type |-> <<"type", 1>>, signals |-> <<1, 2>>],
                  [name |-> <<"U", 1>>, type |-> <<"type", 1>>, signals |-> <<2, 3>>]>>,
      boundary |-> <<1, 3>>,
      instances |-> <<instance>>]}

MCDesignsU == MCDesigns(<<"U", 2>>)
MCDesignsInst == MCDesigns(<<"inst", 1>>)
MCPlanLimits == {<<2>>, <<1, 1>>}
MCNetNames == {NoName, <<"net", 2>>}
MCCellNames == {<<"syn", 1>>, <<"syn", 2>>}
MCCellTypes == {<<"type", 2>>}
=============================================================================
