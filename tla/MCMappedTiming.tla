---------------------------- MODULE MCMappedTiming ----------------------------
(* Input net 1 - U1 - net 2 - U2 - output net 3, a flop U3 from net 2 to net *)
(* 4, and a free identity 4; net 5 does not exist yet. View a has a library  *)
(* with constant delays, view b one whose delays grow with the load.         *)
EXTENDS MappedTiming

Instance(cell, ins, out) == [cell |-> cell, ins |-> ins, out |-> out]

MCOwners == {"a", "b"}
MCOwnerOrder == <<"a", "b">>
MCIds == 1..4
MCKind == [slow |-> "gate", fast |-> "gate", and2 |-> "gate", ff |-> "flop"]
MCLibrary ==
    [a |-> [slow |-> [delay |-> 3, cap |-> 1], fast |-> [delay |-> 1, cap |-> 2],
            and2 |-> [delay |-> 2, cap |-> 1], ff |-> [delay |-> 1, cap |-> 1]],
     b |-> [slow |-> [delay |-> 2, cap |-> 1], fast |-> [delay |-> 1, cap |-> 2],
            and2 |-> [delay |-> 1, cap |-> 1], ff |-> [delay |-> 1, cap |-> 1]]]
MCSlope == [a |-> 0, b |-> 1]
\* A resistance on net 2 of view a.
MCResistance == [a |-> (2 :> 1), b |-> <<>>]
\* set_drive on the input port, in both views.
MCDrive == [a |-> (1 :> 1), b |-> (1 :> 1)]
MCInputNets == {1}
MCPortRequired == [a |-> (3 :> 9), b |-> (3 :> 8)]
MCPeriod == [a |-> 10, b |-> 7]
MCDesign == <<Instance("slow", <<1>>, 2), Instance("slow", <<2>>, 3),
              Instance("ff", <<2>>, 4), Absent>>

\* Resizing, reconnecting, inserting a buffer on a new net, reconvergence,
\* removal (of a flop and its endpoint too), a delta that changes nothing and
\* one that closes a loop. A flop changes only together with an edge of the
\* graph.
MCDeltas ==
    {2 :> Instance("fast", <<2>>, 3),
     1 :> Instance("fast", <<1>>, 2),
     (2 :> Instance("slow", <<1>>, 3)) @@ (3 :> Instance("ff", <<2>>, 4)),
     (4 :> Instance("slow", <<2>>, 5)) @@ (2 :> Instance("slow", <<5>>, 3)),
     (2 :> Absent) @@ (3 :> Instance("ff", <<1>>, 4)) @@ (4 :> Instance("and2", <<2, 4>>, 3)),
     4 :> Absent,
     (2 :> Absent) @@ (3 :> Absent),
     1 :> Instance("slow", <<3>>, 2),
     <<>>}

\* A flop alone: moved to another net.
MCFlopDeltas == {3 :> Instance("ff", <<1>>, 4)}

\* A second load on the input net and one on the output net: a gate between
\* the two and a new net.
MCLoadDeltas == {4 :> Instance("and2", <<1, 3>>, 5)}
=============================================================================
