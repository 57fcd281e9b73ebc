--------------------------- MODULE MCIndexedCommit --------------------------
(* IndexedCommit with every pair of failing items.                           *)
EXTENDS IndexedCommit

MCFaults ==
    {[i \in Items |-> "none"]} \cup
    {[i \in Items |-> IF i = a THEN k ELSE IF i = b THEN l ELSE "none"] :
        a \in Items, b \in Items, k \in FaultKinds, l \in FaultKinds}
=============================================================================
