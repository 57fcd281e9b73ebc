------------------------- MODULE DependencyWorklist -------------------------
(***************************************************************************)
(* The ready-set worklist over a sealed dependency plan                    *)
(* (crates/opto-runtime/src/dependency.rs: DependencyPlan,                 *)
(* DependencyWorklist).  A plan is an acyclic dependency relation with a   *)
(* topological position per item; a worklist walks a scheduled part of it  *)
(* forwards or backwards, with some exact edges disabled at run time.      *)
(* Every item carries a counter of its unresolved dependencies, maintained *)
(* incrementally by schedule and finish; an item whose counter is zero is  *)
(* in the ready set, from which claims take the least keys.                *)
(***************************************************************************)
EXTENDS Integers, FiniteSets

CONSTANTS
    Items,          \* the item arena
    PositionLimit,  \* u32::MAX: the sentinel no position may reach
    Limits,         \* the claim limits the callers use
    Plans,          \* the sealed plans, each one accepted by ValidPlan
    Directions      \* the traversal directions: a part of {"Forward", "Reverse"}

VARIABLES
    plan,           \* DependencyPlan: predecessors, successors, positions
    direction,      \* DependencyDirection of the traversal
    disabled,       \* disabled_dependencies: forward (item, dependency) pairs
    state,          \* ItemState per item
    unresolved,     \* outstanding enabled dependencies per item
    ready,          \* the items of the ready BTreeSet, ordered by ReadyKey
    pending,        \* scheduled items that are not complete
    running,        \* claimed items that are not complete
    outcome         \* what the last call returned

vars == <<plan, direction, disabled, state, unresolved, ready, pending,
          running, outcome>>
planVars == <<plan, direction, disabled>>
workVars == <<state, unresolved, ready, pending, running>>

ItemState == {"Absent", "Pending", "Running", "Complete"}

(***************************************************************************)
(* The plan.                                                               *)
(***************************************************************************)

\* CsrEdges of both orientations, sorted and free of duplicates: one set of
\* neighbours per item, the successor rows being the converse relation.
Seal(positions, predecessors) ==
    [predecessors |-> predecessors,
     successors   |-> [d \in Items |-> {i \in Items : d \in predecessors[i]}],
     positions    |-> positions]

\* What from_topological_order accepts: every item has one position of its
\* own below the sentinel and every dependency an earlier position.
ValidPlan(p) ==
    /\ p.positions \in [Items -> 0..PositionLimit - 1]
    /\ p.predecessors \in [Items -> SUBSET Items]
    /\ \A i, j \in Items : p.positions[i] = p.positions[j] => i = j
    /\ \A i \in Items : \A d \in p.predecessors[i] : p.positions[d] < p.positions[i]
    /\ p = Seal(p.positions, p.predecessors)

ASSUME ItemsAssumption == IsFiniteSet(Items)
ASSUME LimitsAssumption == PositionLimit \in Nat /\ Limits \subseteq Nat
ASSUME PlansAssumption == \A p \in Plans : ValidPlan(p)
ASSUME DirectionsAssumption == Directions \subseteq {"Forward", "Reverse"}

\* The rows a traversal reads: dependencies in its direction, and dependents.
Dependencies(item) ==
    IF direction = "Forward" THEN plan.predecessors[item] ELSE plan.successors[item]

Dependents(item) ==
    IF direction = "Forward" THEN plan.successors[item] ELSE plan.predecessors[item]

\* Disabled pairs keep their forward orientation in both directions.
DependencyIsEnabled(item, dependency) ==
    (IF direction = "Forward" THEN <<item, dependency>> ELSE <<dependency, item>>)
        \notin disabled

\* Mutant: the edge is looked up in the wrong orientation.
DependentIsEnabledSwapped(item, dependent) == DependencyIsEnabled(item, dependent)

DependentIsEnabled(item, dependent) == DependencyIsEnabled(dependent, item)

EnabledDependencies(item) == {d \in Dependencies(item) : DependencyIsEnabled(item, d)}

EnabledDependents(item) == {s \in Dependents(item) : DependentIsEnabled(item, s)}

\* The order of the ready set; positions are distinct, so the item that breaks
\* ties in the code's pair is never consulted.
ReadyKey(item) ==
    IF direction = "Forward" THEN plan.positions[item]
    ELSE PositionLimit - plan.positions[item]

-----------------------------------------------------------------------------
(***************************************************************************)
(* The worklist.                                                           *)
(***************************************************************************)

\* The exact dependency pairs a mask may disable.
EdgesOf(p) == {e \in Items \X Items : e[2] \in p.predecessors[e[1]]}

\* worklist_masked before it schedules its seeds.
Init ==
    /\ plan \in Plans
    /\ direction \in Directions
    /\ disabled \in SUBSET EdgesOf(plan)
    /\ state = [i \in Items |-> "Absent"]
    /\ unresolved = [i \in Items |-> 0]
    /\ ready = {}
    /\ pending = 0
    /\ running = 0
    /\ outcome = "ok"

\* Mutant: only running consumers count as the frontier.
CrossesRunningFrontier(item) ==
    \E s \in EnabledDependents(item) : state[s] = "Running"

CrossesCompletedFrontier(item) ==
    \E s \in EnabledDependents(item) : state[s] \in {"Running", "Complete"}

PendingDependents(item) == {s \in EnabledDependents(item) : state[s] = "Pending"}

\* The enabled dependencies that hold an item back.
Outstanding(item) ==
    {d \in EnabledDependencies(item) : state[d] \in {"Pending", "Running"}}

\* Mutant: pending dependents are not held back by the new item.
AddItemWithoutHold(item) ==
    LET outstanding == Cardinality(Outstanding(item))
    IN  /\ state' = [state EXCEPT ![item] = "Pending"]
        /\ pending' = pending + 1
        /\ unresolved' = [unresolved EXCEPT ![item] = outstanding]
        /\ ready' = ready \cup (IF outstanding = 0 THEN {item} ELSE {})
        /\ UNCHANGED running

\* Mutant: dependents gain a dependency and stay in the ready set.
AddItemKeepsReady(item) ==
    LET outstanding == Cardinality(Outstanding(item))
        held == PendingDependents(item)
    IN  /\ state' = [state EXCEPT ![item] = "Pending"]
        /\ pending' = pending + 1
        /\ unresolved' = [i \in Items |->
               IF i = item THEN outstanding
               ELSE IF i \in held THEN unresolved[i] + 1 ELSE unresolved[i]]
        /\ ready' = ready \cup (IF outstanding = 0 THEN {item} ELSE {})
        /\ UNCHANGED running

\* schedule, when it adds an absent item.  Pending dependents gain one
\* unresolved dependency and leave the ready set.
AddItem(item) ==
    LET outstanding == Cardinality(Outstanding(item))
        held == PendingDependents(item)
    IN  /\ state' = [state EXCEPT ![item] = "Pending"]
        /\ pending' = pending + 1
        /\ unresolved' = [i \in Items |->
               IF i = item THEN outstanding
               ELSE IF i \in held THEN unresolved[i] + 1 ELSE unresolved[i]]
        /\ ready' = (ready \ held) \cup (IF outstanding = 0 THEN {item} ELSE {})
        /\ UNCHANGED running

Schedule(item) ==
    /\ ~CrossesCompletedFrontier(item)
    /\ IF state[item] = "Absent"
       THEN AddItem(item) /\ outcome' = "ok"
       ELSE UNCHANGED workVars /\ outcome' = "already"
    /\ UNCHANGED planVars

\* Adding an item whose consumer already runs or completed is refused.
RefuseSchedule(item) ==
    /\ CrossesCompletedFrontier(item)
    /\ outcome' = "frontier"
    /\ UNCHANGED <<planVars, workVars>>

\* The least keys of the ready set, at most limit of them.
IsClaim(claimed, limit) ==
    /\ claimed \subseteq ready
    /\ Cardinality(claimed) =
           IF limit <= Cardinality(ready) THEN limit ELSE Cardinality(ready)
    /\ \A c \in claimed, r \in ready \ claimed : ReadyKey(c) < ReadyKey(r)

TakeReady(claimed) ==
    /\ ready' = ready \ claimed
    /\ state' = [i \in Items |-> IF i \in claimed THEN "Running" ELSE state[i]]
    /\ running' = running + Cardinality(claimed)
    /\ UNCHANGED <<unresolved, pending>>

\* claim_ready_bounded, when it returns items.
Claim(limit) ==
    /\ limit # 0 /\ pending # 0 /\ ready # {}
    /\ \E claimed \in SUBSET ready : IsClaim(claimed, limit) /\ TakeReady(claimed)
    /\ outcome' = "ok"
    /\ UNCHANGED planVars

\* The early returns of claim_ready_bounded.
EmptyClaimOutcome(limit) ==
    IF limit = 0 THEN "zero limit"
    ELSE IF pending = 0 THEN "none"
    ELSE IF running # 0 THEN "wait"
    ELSE "cycle"

EmptyClaim(limit) ==
    /\ limit = 0 \/ pending = 0 \/ ready = {}
    /\ outcome' = EmptyClaimOutcome(limit)
    /\ UNCHANGED <<planVars, workVars>>

\* Mutant: the released dependents are tested before the decrement.
CompleteTestsTooEarly(item) ==
    LET released == PendingDependents(item)
    IN  /\ state' = [state EXCEPT ![item] = "Complete"]
        /\ running' = running - 1
        /\ pending' = pending - 1
        /\ unresolved' = [i \in Items |->
               IF i \in released THEN unresolved[i] - 1 ELSE unresolved[i]]
        /\ ready' = ready \cup {s \in released : unresolved[s] = 0}

\* finish, for a claimed item.  The checked subtraction fails on a pending
\* dependent whose counter is already zero.
Complete(item) ==
    LET released == PendingDependents(item)
    IN  /\ state' = [state EXCEPT ![item] = "Complete"]
        /\ running' = running - 1
        /\ pending' = pending - 1
        /\ unresolved' = [i \in Items |->
               IF i \in released THEN unresolved[i] - 1 ELSE unresolved[i]]
        /\ ready' = ready \cup {s \in released : unresolved[s] = 1}

Finish(item) ==
    /\ state[item] = "Running"
    /\ Complete(item)
    /\ outcome' = IF \E s \in PendingDependents(item) : unresolved[s] = 0
                  THEN "underflow" ELSE "ok"
    /\ UNCHANGED planVars

\* finish refuses an item that was not claimed or already completed.
RefuseFinish(item) ==
    /\ state[item] # "Running"
    /\ outcome' = "not claimed"
    /\ UNCHANGED <<planVars, workVars>>

Next ==
    \/ \E item \in Items : Schedule(item)
    \/ \E item \in Items : RefuseSchedule(item)
    \/ \E limit \in Limits : Claim(limit)
    \/ \E limit \in Limits : EmptyClaim(limit)
    \/ \E item \in Items : Finish(item)
    \/ \E item \in Items : RefuseFinish(item)

Spec == Init /\ [][Next]_vars

\* A driver that keeps claiming, and finishes what it claimed.
FairSpec ==
    /\ Spec
    /\ \A limit \in Limits : WF_vars(Claim(limit))
    /\ \A item \in Items : WF_vars(Finish(item))

-----------------------------------------------------------------------------
(***************************************************************************)
(* Properties.                                                             *)
(***************************************************************************)

\* Type correctness of the worklist's fields.
TypeOK ==
    /\ ValidPlan(plan)
    /\ direction \in Directions
    /\ disabled \in SUBSET EdgesOf(plan)
    /\ state \in [Items -> ItemState]
    /\ unresolved \in [Items -> Nat]
    /\ ready \in SUBSET Items
    /\ pending \in Nat
    /\ running \in Nat

\* The counter schedule and finish maintain step by step is, for a pending
\* item, the number of its enabled dependencies that are scheduled and not
\* complete, whatever the order of schedules, claims and completions.
UnresolvedExact ==
    \A i \in Items : state[i] = "Pending" =>
        unresolved[i] = Cardinality(Outstanding(i))

\* The ready set holds the pending items with no outstanding dependency, no
\* others and all of them: nothing is released early, nothing is lost.
ReadyExact == ready = {i \in Items : state[i] = "Pending" /\ Outstanding(i) = {}}

\* pending and running count the scheduled and the claimed items.
CountsExact ==
    /\ pending = Cardinality({i \in Items : state[i] \in {"Pending", "Running"}})
    /\ running = Cardinality({i \in Items : state[i] = "Running"})

\* An item runs or has run only after every scheduled enabled dependency is
\* complete, and no dependency is ever scheduled behind it.
NoEarlyRelease ==
    \A i \in Items : state[i] \in {"Running", "Complete"} =>
        \A d \in EnabledDependencies(i) : state[d] \in {"Absent", "Complete"}

\* When nothing runs, the pending item with the least key is ready: a serial
\* traversal visits the scheduled items in key order.
LeastPendingIsReady ==
    running = 0 =>
        \A i \in Items :
            (/\ state[i] = "Pending"
             /\ \A j \in Items : state[j] = "Pending" => ReadyKey(i) <= ReadyKey(j))
            => i \in ready

\* The errors of claim_ready_bounded and finish that report a corrupted
\* worklist, "cycle" and "underflow", are never returned on a sealed plan.
NoCorruptionReported == outcome \notin {"cycle", "underflow"}

\* Every scheduled item completes.
ScheduledCompletes ==
    \A i \in Items : state[i] = "Pending" ~> state[i] = "Complete"

=============================================================================
