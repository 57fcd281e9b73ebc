---------------------------- MODULE MCOrderedMap ----------------------------
(* OrderedMap for four tasks, with and without a duplicated key.             *)
EXTENDS OrderedMap

MCSlots == 1..4
MCKeys == 1..4
MCKeyLists == {[s \in MCSlots |-> 5 - s], [s \in MCSlots |-> IF s = 1 THEN 2 ELSE s]}
MCWorkMaps == {[k \in MCKeys |-> 1], [k \in MCKeys |-> k]}
MCFaults == [MCKeys -> Outcomes]
=============================================================================
