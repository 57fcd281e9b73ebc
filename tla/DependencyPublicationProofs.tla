-------------------- MODULE DependencyPublicationProofs ---------------------
(***************************************************************************)
(* Machine-checked proofs about DependencyWorklist, for every finite item  *)
(* arena, every sealed plan, both directions, every mask and every order   *)
(* of schedules, claims and completions; then about DependencyPublication, *)
(* for every plan, ownership, analysis function, activation mask, fault    *)
(* map, worker count and cancellation time, and every order in which       *)
(* workers answer.                                                         *)
(***************************************************************************)
EXTENDS DependencyPublication, SequenceLemmas

-----------------------------------------------------------------------------
(***************************************************************************)
(* The worklist.                                                           *)
(***************************************************************************)

\* The inductive invariant: exact counters, exact ready set, exact totals,
\* and the frontier rule.
IInv == TypeOK /\ UnresolvedExact /\ ReadyExact /\ CountsExact /\ NoEarlyRelease

-----------------------------------------------------------------------------
(***************************************************************************)
(* Facts about a sealed plan.                                              *)
(***************************************************************************)

\* The two CSR orientations and the mask agree: s waits for i exactly when i
\* releases s.
LEMMA EnabledConverse ==
    ASSUME TypeOK, NEW i \in Items, NEW s \in Items
    PROVE  s \in EnabledDependents(i) <=> i \in EnabledDependencies(s)
BY DirectionsAssumption DEF TypeOK, ValidPlan, Seal, EnabledDependents, EnabledDependencies,
   Dependents, Dependencies, DependentIsEnabled, DependencyIsEnabled

\* Dependencies are items of the arena with a smaller ready key.
LEMMA DependencyKey ==
    ASSUME TypeOK, NEW i \in Items, NEW d \in EnabledDependencies(i)
    PROVE  /\ d \in Items
           /\ ReadyKey(d) < ReadyKey(i)
           /\ d # i
<1>1. d \in Dependencies(i)
  BY DEF EnabledDependencies
<1>2. /\ plan.positions \in [Items -> 0..PositionLimit - 1]
      /\ plan.predecessors \in [Items -> SUBSET Items]
      /\ \A j \in Items : \A e \in plan.predecessors[j] :
            plan.positions[e] < plan.positions[j]
      /\ plan.successors = [e \in Items |-> {j \in Items : e \in plan.predecessors[j]}]
  BY DEF TypeOK, ValidPlan, Seal
<1>3. d \in Items /\ ReadyKey(d) < ReadyKey(i)
  BY <1>1, <1>2, LimitsAssumption DEF Dependencies, ReadyKey
<1>4. ReadyKey(i) \in Int
  BY <1>2, LimitsAssumption DEF ReadyKey
<1>. QED BY <1>3, <1>4

\* Dependents are items of the arena.
LEMMA DependentsInArena ==
    ASSUME TypeOK, NEW i \in Items
    PROVE  EnabledDependents(i) \subseteq Items
BY DEF TypeOK, ValidPlan, Seal, EnabledDependents, Dependents

\* Ready keys are natural numbers.
LEMMA ReadyKeyType ==
    ASSUME TypeOK, NEW i \in Items
    PROVE  ReadyKey(i) \in Nat
BY LimitsAssumption DEF TypeOK, ValidPlan, ReadyKey

\* A worklist step does not change what a plan enables.
LEMMA PlanFrame ==
    ASSUME UNCHANGED planVars, NEW i
    PROVE  /\ EnabledDependencies(i)' = EnabledDependencies(i)
           /\ EnabledDependents(i)' = EnabledDependents(i)
           /\ ReadyKey(i)' = ReadyKey(i)
BY DEF planVars, EnabledDependencies, EnabledDependents, Dependencies, Dependents,
   DependencyIsEnabled, DependentIsEnabled, ReadyKey

\* Every set the counters measure is finite.
LEMMA CountedSetsFinite ==
    ASSUME TypeOK, NEW i \in Items
    PROVE  /\ IsFiniteSet(Outstanding(i))
           /\ Cardinality(Outstanding(i)) \in Nat
           /\ Cardinality(Outstanding(i)) = 0 <=> Outstanding(i) = {}
<1>1. Outstanding(i) \in SUBSET Items
  BY DependencyKey DEF Outstanding
<1>2. IsFiniteSet(Outstanding(i))
  BY <1>1, ItemsAssumption, FS_Subset
<1>. QED BY <1>2, FS_CardinalityType, FS_EmptySet

-----------------------------------------------------------------------------
(***************************************************************************)
(* The initial state.                                                      *)
(***************************************************************************)

\* An empty worklist satisfies the inductive invariant.
LEMMA InitIInv == Init => IInv
<1>. SUFFICES ASSUME Init PROVE IInv
  OBVIOUS
<1>1. TypeOK
  BY PlansAssumption DEF Init, TypeOK, ItemState
<1>2. UnresolvedExact /\ ReadyExact /\ NoEarlyRelease
  BY DEF Init, UnresolvedExact, ReadyExact, NoEarlyRelease
<1>3. CountsExact
  <2>1. /\ {i \in Items : state[i] \in {"Pending", "Running"}} = {}
        /\ {i \in Items : state[i] = "Running"} = {}
    BY DEF Init
  <2>. QED BY <2>1, FS_EmptySet DEF Init, CountsExact
<1>. QED BY <1>1, <1>2, <1>3 DEF IInv

-----------------------------------------------------------------------------
(***************************************************************************)
(* schedule.                                                               *)
(***************************************************************************)

\* Adding an absent item: its own dependencies are counted exactly, and every
\* pending dependent gains exactly this one.
LEMMA AddItemStep ==
    ASSUME IInv, NEW item \in Items, state[item] = "Absent",
           ~CrossesCompletedFrontier(item), AddItem(item), UNCHANGED planVars
    PROVE  IInv'
<1>. USE DEF IInv
<1>. DEFINE held == PendingDependents(item)
            n == Cardinality(Outstanding(item))
<1>1. n \in Nat /\ (n = 0 <=> Outstanding(item) = {})
  BY CountedSetsFinite
<1>2. /\ state' = [state EXCEPT ![item] = "Pending"]
      /\ pending' = pending + 1
      /\ running' = running
      /\ ready' = (ready \ held) \cup (IF n = 0 THEN {item} ELSE {})
      /\ unresolved' = [i \in Items |->
             IF i = item THEN n
             ELSE IF i \in held THEN unresolved[i] + 1 ELSE unresolved[i]]
  BY DEF AddItem
<1>3. state \in [Items -> ItemState] /\ unresolved \in [Items -> Nat]
  BY DEF TypeOK
<1>4. TypeOK'
  BY <1>1, <1>2, <1>3 DEF TypeOK, planVars, ItemState, ValidPlan, Seal, EdgesOf
<1>5. ASSUME NEW i \in Items
      PROVE  i \in held <=> item \in EnabledDependencies(i) /\ state[i] = "Pending"
  BY EnabledConverse DEF PendingDependents
<1>6. ASSUME NEW i \in Items
      PROVE  /\ item \in EnabledDependencies(i) => Outstanding(i)' = Outstanding(i) \cup {item}
             /\ item \notin EnabledDependencies(i) => Outstanding(i)' = Outstanding(i)
             /\ item \notin Outstanding(i)
  <2>1. EnabledDependencies(i)' = EnabledDependencies(i)
    BY PlanFrame
  <2>2. \A d \in EnabledDependencies(i) : d \in Items
    BY DependencyKey
  <2>. QED BY <1>2, <1>3, <2>1, <2>2 DEF Outstanding
<1>7. item \notin EnabledDependencies(item)
  BY DependencyKey
<1>8. UnresolvedExact'
  <2>. SUFFICES ASSUME NEW i \in Items, state'[i] = "Pending"
                PROVE  unresolved'[i] = Cardinality(Outstanding(i)')
    BY DEF UnresolvedExact
  <2>1. CASE i = item
    BY <2>1, <1>2, <1>6, <1>7
  <2>2. CASE i # item /\ item \in EnabledDependencies(i)
    <3>1. state[i] = "Pending"
      BY <2>2, <1>2, <1>3
    <3>2. unresolved'[i] = Cardinality(Outstanding(i)) + 1
      BY <2>2, <3>1, <1>2, <1>5 DEF UnresolvedExact
    <3>3. IsFiniteSet(Outstanding(i))
      BY CountedSetsFinite
    <3>4. Cardinality(Outstanding(i) \cup {item}) = Cardinality(Outstanding(i)) + 1
      BY <3>3, <1>6, FS_AddElement
    <3>. QED BY <2>2, <3>2, <3>4, <1>6
  <2>3. CASE i # item /\ item \notin EnabledDependencies(i)
    <3>1. state[i] = "Pending"
      BY <2>3, <1>2, <1>3
    <3>. QED BY <2>3, <3>1, <1>2, <1>5, <1>6 DEF UnresolvedExact
  <2>. QED BY <2>1, <2>2, <2>3
<1>9. ReadyExact'
  <2>1. ASSUME NEW i \in Items
        PROVE  i \in ready' <=> state'[i] = "Pending" /\ Outstanding(i)' = {}
    <3>1. CASE i = item
      BY <3>1, <1>1, <1>2, <1>3, <1>5, <1>6, <1>7 DEF ReadyExact
    <3>2. CASE i # item
      BY <3>2, <1>2, <1>3, <1>5, <1>6 DEF ReadyExact
    <3>. QED BY <3>1, <3>2
  <2>2. ready' \subseteq Items
    BY <1>4 DEF TypeOK
  <2>. QED BY <2>1, <2>2 DEF ReadyExact
<1>10. CountsExact'
  <2>. DEFINE S == {i \in Items : state[i] \in {"Pending", "Running"}}
  <2>1. IsFiniteSet(S) /\ item \notin S
    BY ItemsAssumption, FS_Subset
  <2>2. {i \in Items : state'[i] \in {"Pending", "Running"}} = S \cup {item}
    BY <1>2, <1>3
  <2>3. {i \in Items : state'[i] = "Running"} = {i \in Items : state[i] = "Running"}
    BY <1>2, <1>3
  <2>4. Cardinality(S \cup {item}) = Cardinality(S) + 1
    BY <2>1, FS_AddElement
  <2>. QED BY <2>2, <2>3, <2>4, <1>2 DEF CountsExact
<1>11. NoEarlyRelease'
  <2>. SUFFICES ASSUME NEW i \in Items, state'[i] \in {"Running", "Complete"},
                       NEW d \in EnabledDependencies(i)
                PROVE  state'[d] \in {"Absent", "Complete"}
    BY PlanFrame DEF NoEarlyRelease
  <2>1. state[i] \in {"Running", "Complete"}
    BY <1>2, <1>3
  <2>2. d \in Items /\ d # item
    <3>1. d \in Items
      BY DependencyKey
    <3>2. item \in EnabledDependencies(i) => i \in EnabledDependents(item)
      BY EnabledConverse
    <3>. QED BY <3>1, <3>2, <2>1 DEF CrossesCompletedFrontier
  <2>. QED BY <2>1, <2>2, <1>2, <1>3 DEF NoEarlyRelease
<1>. QED BY <1>4, <1>8, <1>9, <1>10, <1>11

-----------------------------------------------------------------------------
(***************************************************************************)
(* claim_ready_bounded.                                                    *)
(***************************************************************************)

\* Claiming moves ready items from pending to running; no counter depends on
\* the difference.
LEMMA ClaimStep ==
    ASSUME IInv, NEW claimed \in SUBSET ready, TakeReady(claimed), UNCHANGED planVars
    PROVE  IInv'
<1>. USE DEF IInv
<1>1. /\ ready' = ready \ claimed
      /\ state' = [i \in Items |-> IF i \in claimed THEN "Running" ELSE state[i]]
      /\ running' = running + Cardinality(claimed)
      /\ unresolved' = unresolved
      /\ pending' = pending
  BY DEF TakeReady
<1>2. state \in [Items -> ItemState] /\ ready \subseteq Items
  BY DEF TypeOK
<1>3. \A i \in claimed : i \in Items /\ state[i] = "Pending" /\ Outstanding(i) = {}
  BY DEF ReadyExact
<1>4. IsFiniteSet(claimed) /\ Cardinality(claimed) \in Nat
  BY <1>2, ItemsAssumption, FS_Subset, FS_CardinalityType
<1>5. TypeOK'
  BY <1>1, <1>2, <1>4 DEF TypeOK, planVars, ItemState, ValidPlan, Seal, EdgesOf
<1>6. ASSUME NEW i \in Items
      PROVE  Outstanding(i)' = Outstanding(i)
  <2>1. EnabledDependencies(i)' = EnabledDependencies(i)
    BY PlanFrame
  <2>2. \A d \in EnabledDependencies(i) : d \in Items
    BY DependencyKey
  <2>. QED BY <1>1, <1>2, <1>3, <2>1, <2>2 DEF Outstanding
<1>7. UnresolvedExact'
  BY <1>1, <1>2, <1>3, <1>6 DEF UnresolvedExact
<1>8. ReadyExact'
  BY <1>1, <1>2, <1>3, <1>6 DEF ReadyExact
<1>9. CountsExact'
  <2>. DEFINE R == {i \in Items : state[i] = "Running"}
  <2>1. {i \in Items : state'[i] \in {"Pending", "Running"}}
           = {i \in Items : state[i] \in {"Pending", "Running"}}
    BY <1>1, <1>2, <1>3
  <2>2. {i \in Items : state'[i] = "Running"} = R \cup claimed
    BY <1>1, <1>2, <1>3
  <2>3. R \cap claimed = {} /\ IsFiniteSet(R) /\ Cardinality(R) \in Nat
    BY <1>3, ItemsAssumption, FS_Subset, FS_CardinalityType
  <2>4. Cardinality(R \cup claimed) = Cardinality(R) + Cardinality(claimed)
    <3>. HIDE DEF R
    <3>1. Cardinality(R \cup claimed) =
             Cardinality(R) + Cardinality(claimed) - Cardinality(R \cap claimed)
      BY <2>3, <1>4, FS_Union
    <3>2. Cardinality(R \cap claimed) = 0
      BY <2>3, FS_EmptySet
    <3>. QED BY <3>1, <3>2, <2>3, <1>4
  <2>. QED BY <2>1, <2>2, <2>4, <1>1 DEF CountsExact
<1>10. NoEarlyRelease'
  <2>. SUFFICES ASSUME NEW i \in Items, state'[i] \in {"Running", "Complete"},
                       NEW d \in EnabledDependencies(i)
                PROVE  state'[d] \in {"Absent", "Complete"}
    BY PlanFrame DEF NoEarlyRelease
  <2>1. d \in Items
    BY DependencyKey
  <2>2. state[d] \in {"Absent", "Complete"}
    <3>1. CASE i \in claimed
      <4>1. d \notin Outstanding(i)
        BY <3>1, <1>3
      <4>. QED BY <4>1, <2>1, <1>2 DEF Outstanding, ItemState
    <3>2. CASE i \notin claimed
      BY <3>2, <1>1, <1>2 DEF NoEarlyRelease
    <3>. QED BY <3>1, <3>2
  <2>. QED BY <2>1, <2>2, <1>1, <1>3
<1>. QED BY <1>5, <1>7, <1>8, <1>9, <1>10

-----------------------------------------------------------------------------
(***************************************************************************)
(* finish.                                                                 *)
(***************************************************************************)

\* Completing a running item takes it out of the outstanding set of each of
\* its pending dependents, and of no other item.
LEMMA CompleteStep ==
    ASSUME IInv, NEW item \in Items, state[item] = "Running",
           Complete(item), UNCHANGED planVars
    PROVE  IInv' /\ \A s \in PendingDependents(item) : unresolved[s] # 0
<1>. USE DEF IInv
<1>. DEFINE released == PendingDependents(item)
<1>1. /\ state' = [state EXCEPT ![item] = "Complete"]
      /\ running' = running - 1
      /\ pending' = pending - 1
      /\ unresolved' = [i \in Items |->
             IF i \in released THEN unresolved[i] - 1 ELSE unresolved[i]]
      /\ ready' = ready \cup {s \in released : unresolved[s] = 1}
  BY DEF Complete
<1>2. state \in [Items -> ItemState] /\ unresolved \in [Items -> Nat] /\ ready \subseteq Items
  BY DEF TypeOK
<1>3. ASSUME NEW i \in Items
      PROVE  i \in released <=> item \in EnabledDependencies(i) /\ state[i] = "Pending"
  BY EnabledConverse DEF PendingDependents
<1>4. released \subseteq Items
  BY DependentsInArena DEF PendingDependents
<1>5. ASSUME NEW i \in Items
      PROVE  /\ Outstanding(i)' = Outstanding(i) \ {item}
             /\ item \in Outstanding(i) <=> item \in EnabledDependencies(i)
  <2>1. EnabledDependencies(i)' = EnabledDependencies(i)
    BY PlanFrame
  <2>2. \A d \in EnabledDependencies(i) : d \in Items
    BY DependencyKey
  <2>. QED BY <1>1, <1>2, <2>1, <2>2 DEF Outstanding
<1>6. ASSUME NEW i \in released
      PROVE  /\ i \in Items /\ state[i] = "Pending" /\ item \in Outstanding(i)
             /\ unresolved[i] = Cardinality(Outstanding(i)) /\ unresolved[i] # 0
             /\ Cardinality(Outstanding(i) \ {item}) = unresolved[i] - 1
             /\ unresolved[i] = 1 <=> Outstanding(i) \ {item} = {}
  <2>1. i \in Items /\ state[i] = "Pending" /\ item \in Outstanding(i)
    BY <1>3, <1>4, <1>5
  <2>2. unresolved[i] = Cardinality(Outstanding(i))
    BY <2>1 DEF UnresolvedExact
  <2>3. IsFiniteSet(Outstanding(i)) /\ unresolved[i] # 0 /\ unresolved[i] \in Nat
    BY <2>1, <2>2, CountedSetsFinite
  <2>4. /\ IsFiniteSet(Outstanding(i) \ {item})
        /\ Cardinality(Outstanding(i) \ {item}) = unresolved[i] - 1
    BY <2>1, <2>2, <2>3, FS_RemoveElement
  <2>5. unresolved[i] = 1 <=> Outstanding(i) \ {item} = {}
    BY <2>3, <2>4, FS_EmptySet
  <2>. QED BY <2>1, <2>2, <2>3, <2>4, <2>5
<1>7. CountsExact' /\ running' \in Nat /\ pending' \in Nat
  <2>. DEFINE S == {i \in Items : state[i] \in {"Pending", "Running"}}
              R == {i \in Items : state[i] = "Running"}
  <2>1. IsFiniteSet(S) /\ IsFiniteSet(R) /\ item \in S /\ item \in R
    BY ItemsAssumption, FS_Subset
  <2>2. /\ {i \in Items : state'[i] \in {"Pending", "Running"}} = S \ {item}
        /\ {i \in Items : state'[i] = "Running"} = R \ {item}
    BY <1>1, <1>2
  <2>3. /\ Cardinality(S \ {item}) = Cardinality(S) - 1
        /\ Cardinality(R \ {item}) = Cardinality(R) - 1
        /\ Cardinality(S \ {item}) \in Nat
        /\ Cardinality(R \ {item}) \in Nat
    BY <2>1, FS_RemoveElement, FS_CardinalityType
  <2>. QED BY <2>2, <2>3, <1>1 DEF CountsExact
<1>8. TypeOK'
  <2>1. unresolved' \in [Items -> Nat]
    <3>. HIDE DEF released
    <3>1. ASSUME NEW i \in Items, i \in released
          PROVE  unresolved[i] - 1 \in Nat
      <4>1. unresolved[i] # 0
        BY <3>1, <1>6
      <4>2. unresolved[i] \in Nat
        BY <1>2
      <4>. QED BY <4>1, <4>2
    <3>. QED BY <3>1, <1>1, <1>2
  <2>. QED BY <2>1, <1>1, <1>2, <1>4, <1>7
       DEF TypeOK, planVars, ItemState, ValidPlan, Seal, EdgesOf
<1>9. UnresolvedExact'
  <2>. SUFFICES ASSUME NEW i \in Items, state'[i] = "Pending"
                PROVE  unresolved'[i] = Cardinality(Outstanding(i)')
    BY DEF UnresolvedExact
  <2>1. state[i] = "Pending"
    BY <1>1, <1>2
  <2>2. CASE i \in released
    BY <2>2, <1>1, <1>5, <1>6
  <2>3. CASE i \notin released
    BY <2>1, <2>3, <1>1, <1>3, <1>5 DEF UnresolvedExact
  <2>. QED BY <2>2, <2>3
<1>10. ReadyExact'
  <2>1. ASSUME NEW i \in Items
        PROVE  i \in ready' <=> state'[i] = "Pending" /\ Outstanding(i)' = {}
    <3>1. CASE i \in released
      BY <3>1, <1>1, <1>2, <1>5, <1>6 DEF ReadyExact
    <3>2. CASE i \notin released
      BY <3>2, <1>1, <1>2, <1>3, <1>5 DEF ReadyExact
    <3>. QED BY <3>1, <3>2
  <2>. QED BY <2>1, <1>1, <1>2, <1>4 DEF ReadyExact
<1>11. NoEarlyRelease'
  <2>. SUFFICES ASSUME NEW i \in Items, state'[i] \in {"Running", "Complete"},
                       NEW d \in EnabledDependencies(i)
                PROVE  state'[d] \in {"Absent", "Complete"}
    BY PlanFrame DEF NoEarlyRelease
  <2>1. d \in Items /\ state[i] \in {"Running", "Complete"}
    BY DependencyKey, <1>1, <1>2
  <2>. QED BY <2>1, <1>1, <1>2 DEF NoEarlyRelease
<1>. QED BY <1>6, <1>7, <1>8, <1>9, <1>10, <1>11

-----------------------------------------------------------------------------
(***************************************************************************)
(* The theorems.                                                           *)
(***************************************************************************)

\* Every call of the worklist preserves the inductive invariant.
LEMMA NextIInv == IInv /\ [Next]_vars => IInv'
<1>. SUFFICES ASSUME IInv, [Next]_vars PROVE IInv'
  OBVIOUS
<1>1. ASSUME UNCHANGED <<planVars, workVars>> PROVE IInv'
  BY <1>1 DEF IInv, planVars, workVars, TypeOK, ValidPlan, Seal, EdgesOf,
     UnresolvedExact, ReadyExact, CountsExact, NoEarlyRelease, Outstanding,
     EnabledDependencies, Dependencies, DependencyIsEnabled
<1>2. ASSUME NEW item \in Items, Schedule(item) PROVE IInv'
  <2>1. CASE state[item] = "Absent"
    BY <1>2, <2>1, AddItemStep DEF Schedule
  <2>2. CASE state[item] # "Absent"
    BY <1>1, <1>2, <2>2 DEF Schedule
  <2>. QED BY <2>1, <2>2
<1>3. ASSUME NEW item \in Items, RefuseSchedule(item) PROVE IInv'
  BY <1>1, <1>3 DEF RefuseSchedule
<1>4. ASSUME NEW limit \in Limits, Claim(limit) PROVE IInv'
  BY <1>4, ClaimStep DEF Claim
<1>5. ASSUME NEW limit \in Limits, EmptyClaim(limit) PROVE IInv'
  BY <1>1, <1>5 DEF EmptyClaim
<1>6. ASSUME NEW item \in Items, Finish(item) PROVE IInv'
  BY <1>6, CompleteStep DEF Finish
<1>7. ASSUME NEW item \in Items, RefuseFinish(item) PROVE IInv'
  BY <1>1, <1>7 DEF RefuseFinish
<1>8. ASSUME UNCHANGED vars PROVE IInv'
  BY <1>1, <1>8 DEF vars, planVars, workVars
<1>. QED BY <1>2, <1>3, <1>4, <1>5, <1>6, <1>7, <1>8 DEF Next

\* The inductive invariant holds in every reachable state.
LEMMA Invariance == Spec => []IInv
BY InitIInv, NextIInv, PTL DEF Spec

\* The worklist's fields keep their types.
THEOREM WorklistTypeCorrect == Spec => []TypeOK
<1>1. IInv => TypeOK
  BY DEF IInv
<1>. QED BY <1>1, Invariance, PTL

\* The counters the worklist maintains step by step are exact: an item's
\* counter is the number of its outstanding enabled dependencies, and the two
\* totals count the pending and the running items.
THEOREM WorklistExact == Spec => [](UnresolvedExact /\ CountsExact)
<1>1. IInv => UnresolvedExact /\ CountsExact
  BY DEF IInv
<1>. QED BY <1>1, Invariance, PTL

\* The ready set is exactly the pending items without outstanding dependencies:
\* none is forgotten by complete and none enters twice or too early.
THEOREM WorklistReadyExact == Spec => []ReadyExact
<1>1. IInv => ReadyExact
  BY DEF IInv
<1>. QED BY <1>1, Invariance, PTL

\* No item runs before its scheduled dependencies, and none is scheduled
\* behind a running or completed consumer.
THEOREM WorklistNoEarlyRelease == Spec => []NoEarlyRelease
<1>1. IInv => NoEarlyRelease
  BY DEF IInv
<1>. QED BY <1>1, Invariance, PTL

\* With nothing running, the least pending item has no outstanding dependency.
LEMMA LeastIsReady == IInv => LeastPendingIsReady
<1>. SUFFICES ASSUME IInv, running = 0, NEW i \in Items, state[i] = "Pending",
                     \A j \in Items : state[j] = "Pending" => ReadyKey(i) <= ReadyKey(j)
              PROVE  i \in ready
  BY DEF LeastPendingIsReady
<1>. USE DEF IInv
<1>1. {j \in Items : state[j] = "Running"} = {}
  <2>. DEFINE R == {j \in Items : state[j] = "Running"}
  <2>1. IsFiniteSet(R) /\ Cardinality(R) = 0
    BY ItemsAssumption, FS_Subset DEF CountsExact
  <2>. QED BY <2>1, FS_EmptySet
<1>2. Outstanding(i) = {}
  <2>. SUFFICES ASSUME NEW d \in Outstanding(i) PROVE FALSE
    OBVIOUS
  <2>1. d \in EnabledDependencies(i) /\ state[d] \in {"Pending", "Running"}
    BY DEF Outstanding
  <2>2. d \in Items /\ ReadyKey(d) < ReadyKey(i)
    BY <2>1, DependencyKey
  <2>3. state[d] = "Pending"
    BY <1>1, <2>1, <2>2
  <2>4. ReadyKey(d) \in Nat /\ ReadyKey(i) \in Nat
    BY <2>2, ReadyKeyType
  <2>. QED BY <2>2, <2>3, <2>4
<1>. QED BY <1>2 DEF ReadyExact

\* A serial traversal always finds the least pending item ready.
THEOREM WorklistLeastPendingReady == Spec => []LeastPendingIsReady
BY LeastIsReady, Invariance, PTL

\* A nonempty set of items has one with the least key.
LEMMA LeastKeyExists ==
    ASSUME TypeOK, NEW S \in SUBSET Items, S # {}
    PROVE  \E i \in S : \A j \in S : ReadyKey(i) <= ReadyKey(j)
<1>. DEFINE keys == {ReadyKey(i) : i \in S}
<1>1. keys \subseteq Nat /\ keys # {}
  BY ReadyKeyType
<1>2. \E k \in keys : \A l \in keys : ~(<<l, k>> \in OpToRel(<, Nat))
  <2>. HIDE DEF keys
  <2>. QED BY <1>1, NatLessThanWellFounded, WFMin
<1>3. PICK k \in keys : \A l \in keys : ~(<<l, k>> \in OpToRel(<, Nat))
  BY <1>2
<1>4. \A l \in keys : k <= l
  <2>. HIDE DEF keys
  <2>. SUFFICES ASSUME NEW l \in keys, l < k PROVE FALSE
    BY <1>1
  <2>1. <<l, k>> \in OpToRel(<, Nat)
    BY <1>1 DEF OpToRel
  <2>. QED BY <2>1, <1>3
<1>. QED BY <1>4

\* A nonempty pending count leaves something to claim or to wait for.
LEMMA SomethingToDo ==
    ASSUME IInv, pending # 0, running = 0
    PROVE  ready # {}
<1>. USE DEF IInv
<1>. DEFINE P == {i \in Items : state[i] = "Pending"}
            R == {i \in Items : state[i] = "Running"}
<1>1. R = {}
  <2>1. IsFiniteSet(R) /\ Cardinality(R) = 0
    BY ItemsAssumption, FS_Subset DEF CountsExact
  <2>. QED BY <2>1, FS_EmptySet
<1>2. {i \in Items : state[i] \in {"Pending", "Running"}} = P
  BY <1>1
<1>3. P # {}
  <2>. HIDE DEF P
  <2>. QED BY <1>2, FS_EmptySet DEF CountsExact
<1>4. PICK i \in P : \A j \in P : ReadyKey(i) <= ReadyKey(j)
  BY <1>3, LeastKeyExists
<1>. QED BY <1>4, LeastIsReady DEF LeastPendingIsReady

\* A call on a well-formed worklist never reports corruption.
LEMMA NextNoCorruption ==
    IInv /\ NoCorruptionReported /\ [Next]_vars => NoCorruptionReported'
<1>. SUFFICES ASSUME IInv, NoCorruptionReported, [Next]_vars
              PROVE  NoCorruptionReported'
  OBVIOUS
<1>1. ASSUME NEW item \in Items, Schedule(item) \/ RefuseSchedule(item) \/ RefuseFinish(item)
      PROVE  NoCorruptionReported'
  BY <1>1 DEF Schedule, RefuseSchedule, RefuseFinish, NoCorruptionReported
<1>2. ASSUME NEW limit \in Limits, Claim(limit) PROVE NoCorruptionReported'
  BY <1>2 DEF Claim, NoCorruptionReported
<1>3. ASSUME NEW limit \in Limits, EmptyClaim(limit) PROVE NoCorruptionReported'
  <2>1. limit # 0 /\ pending # 0 => ready = {} /\ running # 0
    BY <1>3, SomethingToDo DEF EmptyClaim
  <2>. QED BY <1>3, <2>1 DEF EmptyClaim, EmptyClaimOutcome, NoCorruptionReported
<1>4. ASSUME NEW item \in Items, Finish(item) PROVE NoCorruptionReported'
  BY <1>4, CompleteStep DEF Finish, NoCorruptionReported
<1>5. ASSUME UNCHANGED vars PROVE NoCorruptionReported'
  BY <1>5 DEF vars, NoCorruptionReported
<1>. QED BY <1>1, <1>2, <1>3, <1>4, <1>5 DEF Next

\* claim_ready_bounded never reports a cycle and finish never underflows on a
\* sealed plan.
THEOREM WorklistNoCorruption == Spec => []NoCorruptionReported
<1>1. Init => NoCorruptionReported
  BY DEF Init, NoCorruptionReported
<1>. QED BY <1>1, Invariance, NextNoCorruption, PTL DEF Spec

-----------------------------------------------------------------------------
(***************************************************************************)
(* The publication of rows.                                                *)
(***************************************************************************)

\* What a callback may read or publish: a value for some of the rows.
RowMaps == UNION {[read -> Values] : read \in SUBSET Rows}
Entry == [item : Items, previous : RowMaps]
Task == [item : Items, input : RowMaps]
Message == [item : Items, ok : BOOLEAN, rows : RowMaps]
Failures == [item : Items, kind : {"Failed", "Panicked"}]
Statuses == {"Pending", "Ok", "Failed", "Panicked", "Cancelled"}

PubTypeOK ==
    /\ rows \in [Rows -> Values] /\ initialRows \in [Rows -> Values]
    /\ fault \in [Items -> FaultKinds] /\ parallelism \in Nat \ {0}
    /\ active \in SUBSET Items /\ initialActive \in SUBSET Items
    /\ journal \in Seq(Entry) /\ published \in SUBSET Items
    /\ ran \in BOOLEAN /\ batches \in Nat
    /\ cancelFlag \in BOOLEAN /\ cancelled \in BOOLEAN /\ claimedAny \in BOOLEAN
    /\ failure \in {NoFailure} \cup Failures
    /\ phase \in Phases /\ workers \in Nat
    /\ batch \in SUBSET Items /\ inFlight \in Nat
    /\ tasks \in SUBSET Task /\ channel \in Seq(Message)
    /\ result \in [status : Statuses, item : Int]

\* The items with a worker, the items whose answers are on their way, and both.
Analyzed == {t.item : t \in tasks}
Sent == [k \in 1..Len(channel) |-> channel[k].item]
InPool == Analyzed \cup ToSet(Sent)

\* Every item in the coordinator's hands is claimed, in one place, and worth
\* executing; the pool has room for those that are spawned.
ItemsPlaced ==
    /\ IsInjective(Sent) /\ Analyzed \cap ToSet(Sent) = {} /\ batch \cap InPool = {}
    /\ \A i \in batch \cup InPool : state[i] = "Running"
    /\ InPool \subseteq active
    /\ inFlight = Cardinality(InPool) /\ inFlight <= workers

\* Where the coordinator stands, and what that says about the batch, the pool
\* and the run so far.
PhaseOK ==
    /\ phase \notin {"serial item", "dispatch"} => batch = {}
    /\ phase = "serial item" => \E i \in Items : batch = {i}
    /\ phase \in {"building", "serial", "serial item"} => ~cancelled
    /\ phase \in {"building", "serial", "serial item", "resolve", "done"} => inFlight = 0
    /\ phase \in {"top", "dispatch", "recv"} => workers >= 2
    /\ phase = "dispatch" => /\ inFlight + Cardinality(batch) <= workers
                             /\ ~claimedAny => batch = {}
    /\ phase = "recv" => inFlight # 0
    /\ phase = "building" => failure = NoFailure /\ published = {} /\ workers = 0
    /\ phase = "building" => \A i \in Items : state[i] \in {"Absent", "Pending"}
    /\ phase \notin {"building", "done"} => effects = {}
    /\ phase # "done" => batches = 0 /\ result.status = "Pending"

Untroubled == failure = NoFailure /\ ~cancelled

\* As long as nothing failed or was cancelled, every claimed item is in the
\* coordinator's hands, and the loop ends only when every item is complete.
NothingLost ==
    /\ (Untroubled /\ phase # "done") =>
          \A i \in Items : state[i] = "Running" => i \in batch \cup InPool
    /\ (Untroubled /\ phase = "dispatch" /\ ~claimedAny /\ inFlight = 0) => pending = 0
    /\ (Untroubled /\ phase = "resolve") => pending = 0

\* An item whose rows differ from the caller's.
Moved(i) == \E r \in OwnedRows[i] : rows[r] # initialRows[r]

\* What an item read: its own rows before the call, and the rows of its
\* dependencies as they are.
InputOf(i) ==
    [r \in ReadRows(i) |-> IF r \in OwnedRows[i] THEN initialRows[r] ELSE rows[r]]

\* The rows of a published item agree with those of its dependencies, all
\* other rows are the caller's; a complete item was published exactly if it
\* was active from the start or a dependency changed.
RowsExact ==
    /\ active = {i \in Items : i \in initialActive \/ \E d \in EnabledDependencies(i) : Moved(d)}
    /\ \A i \in published : state[i] = "Complete"
    /\ \A i \in Items : state[i] = "Complete" => (i \in published <=> i \in active)
    /\ \A r \in Rows : (\A i \in published : r \notin OwnedRows[i]) => rows[r] = initialRows[r]
    /\ \A i \in published : \A r \in OwnedRows[i] : rows[r] = Analyze(i, InputOf(i))[r]

\* The journal records what the rows of the published items were.
JournalExact ==
    /\ \A k \in 1..Len(journal) :
          /\ journal[k].item \in published
          /\ journal[k].previous = [r \in OwnedRows[journal[k].item] |-> initialRows[r]]
    /\ \A i \in published : \E k \in 1..Len(journal) : journal[k].item = i

ContentExact == phase # "done" => RowsExact /\ JournalExact

\* What a call that returned left.
ReturnedExact ==
    phase = "done" =>
        /\ result.status # "Pending"
        /\ result.status = "Ok" => IsOutcome(rows) /\ \A i \in Items : state[i] \in {"Absent", "Complete"}
        /\ result.status # "Ok" => rows = initialRows

PubInv ==
    /\ IInv /\ PubTypeOK /\ ItemsPlaced /\ SnapshotsCurrent /\ PhaseOK /\ NothingLost
    /\ ContentExact /\ ReturnedExact /\ EffectsUndo

-----------------------------------------------------------------------------
(***************************************************************************)
(* What callbacks read and give.                                           *)
(***************************************************************************)

\* The rows an item reads are rows of the arena, and what analyze gives is one
\* value for every row the item owns.
LEMMA ReadFacts ==
  ASSUME TypeOK, PubTypeOK, NEW i \in Items
  PROVE  /\ OwnedRows[i] \in SUBSET Rows /\ ReadRows(i) \in SUBSET Rows
         /\ OwnedRows[i] \subseteq ReadRows(i)
         /\ Snapshot(i) \in RowMaps /\ InputOf(i) \in RowMaps
<1>1. \A d \in Items : OwnedRows[d] \in SUBSET Rows
  BY OwnershipAssumption DEF ValidOwnership
<1>2. \A d \in EnabledDependencies(i) : d \in Items
  BY DependencyKey
<1>3. ReadRows(i) \in SUBSET Rows
  BY <1>1, <1>2 DEF ReadRows
<1>4. Snapshot(i) \in [ReadRows(i) -> Values] /\ InputOf(i) \in [ReadRows(i) -> Values]
  BY <1>3 DEF Snapshot, InputOf, PubTypeOK
<1>5. OwnedRows[i] \subseteq ReadRows(i)
  BY DEF ReadRows
<1>. QED BY <1>1, <1>3, <1>4, <1>5 DEF RowMaps

\* What analyze gives.
LEMMA AnalyzeFacts ==
  ASSUME NEW i \in Items, NEW input \in RowMaps
  PROVE  Analyze(i, input) \in [OwnedRows[i] -> Values] /\ Analyze(i, input) \in RowMaps
<1>1. PICK read \in SUBSET Rows : input \in [read -> Values]
  BY DEF RowMaps
<1>2. Analyze(i, input) \in [OwnedRows[i] -> Values]
  BY <1>1, AnalyzeAssumption
<1>3. OwnedRows[i] \in SUBSET Rows
  BY OwnershipAssumption DEF ValidOwnership
<1>. QED BY <1>2, <1>3 DEF RowMaps

\* Two items never own a row in common.
LEMMA OwnersDiffer ==
  ASSUME NEW i \in Items, NEW j \in Items, i # j
  PROVE  OwnedRows[i] \cap OwnedRows[j] = {}
BY OwnershipAssumption DEF ValidOwnership

\* A claimed item owns no row that another claimed or complete item reads: the
\* frontier rule of the worklist, seen from the rows.
LEMMA ReadsApart ==
  ASSUME IInv, NEW i \in Items, NEW j \in Items, i # j,
         state[i] \in {"Running", "Complete"}, state[j] = "Running"
  PROVE  /\ j \notin EnabledDependencies(i)
         /\ ReadRows(i) \cap OwnedRows[j] = {}
<1>1. j \notin EnabledDependencies(i)
  BY DEF IInv, NoEarlyRelease
<1>2. \A d \in EnabledDependencies(i) : OwnedRows[d] \cap OwnedRows[j] = {}
  <2>. SUFFICES ASSUME NEW d \in EnabledDependencies(i) PROVE OwnedRows[d] \cap OwnedRows[j] = {}
    OBVIOUS
  <2>1. d \in Items /\ d # j
    BY <1>1, DependencyKey DEF IInv
  <2>. QED BY <2>1, OwnersDiffer
<1>3. OwnedRows[i] \cap OwnedRows[j] = {}
  BY OwnersDiffer
<1>. QED BY <1>1, <1>2, <1>3 DEF ReadRows

\* The plan, and so the rows an item reads, never change.
LEMMA ReadFrame ==
  ASSUME UNCHANGED planVars, NEW i
  PROVE  ReadRows(i)' = ReadRows(i) /\ EnabledDependencies(i)' = EnabledDependencies(i)
BY PlanFrame DEF ReadRows

\* Rows that are read and do not change leave the snapshot as it is.
LEMMA SnapshotFrame ==
  ASSUME UNCHANGED planVars, NEW i, \A r \in ReadRows(i) : rows'[r] = rows[r]
  PROVE  Snapshot(i)' = Snapshot(i)
BY ReadFrame DEF Snapshot

\* The same for the input of a published item.
LEMMA InputFrame ==
  ASSUME UNCHANGED planVars, initialRows' = initialRows, NEW i,
         \A r \in ReadRows(i) : rows'[r] = rows[r]
  PROVE  InputOf(i)' = InputOf(i)
BY ReadFrame DEF InputOf

-----------------------------------------------------------------------------
(***************************************************************************)
(* The worklist behind the call.                                           *)
(***************************************************************************)

\* The states of the items after each of the worklist's operations.
LEMMA ScheduleWork ==
  ASSUME IInv, NEW item \in Items, state[item] = "Absent", Schedule(item)
  PROVE  /\ IInv' /\ UNCHANGED planVars
         /\ state' = [state EXCEPT ![item] = "Pending"]
<1>1. AddItem(item) /\ ~CrossesCompletedFrontier(item) /\ UNCHANGED planVars
  BY DEF Schedule
<1>2. IInv'
  BY <1>1, AddItemStep
<1>. QED BY <1>1, <1>2 DEF AddItem

\* A claim takes ready items, at most as many as it was asked for.
LEMMA ClaimWork ==
  ASSUME IInv, NEW limit \in Nat, Claim(limit)
  PROVE  /\ IInv' /\ UNCHANGED planVars
         /\ ready \ ready' \in SUBSET Items
         /\ IsFiniteSet(ready \ ready') /\ Cardinality(ready \ ready') \in Nat
         /\ Cardinality(ready \ ready') <= limit /\ ready \ ready' # {}
         /\ \A i \in ready \ ready' : state[i] = "Pending"
         /\ state' = [i \in Items |-> IF i \in ready \ ready' THEN "Running" ELSE state[i]]
<1>1. PICK claimed \in SUBSET ready : IsClaim(claimed, limit) /\ TakeReady(claimed)
  BY DEF Claim
<1>2. UNCHANGED planVars /\ limit # 0 /\ ready # {}
  BY DEF Claim
<1>3. IInv'
  BY <1>1, <1>2, ClaimStep
<1>4. ready' = ready \ claimed /\ ready \ ready' = claimed
  BY <1>1 DEF TakeReady
<1>5. IsFiniteSet(ready) /\ IsFiniteSet(claimed) /\ ready \in SUBSET Items
  BY ItemsAssumption, FS_Subset DEF IInv, TypeOK
<1>6. Cardinality(ready) \in Nat /\ Cardinality(ready) # 0 /\ Cardinality(claimed) \in Nat
  BY <1>2, <1>5, FS_CardinalityType, FS_EmptySet
<1>7. Cardinality(claimed) <= limit /\ Cardinality(claimed) # 0
  BY <1>1, <1>2, <1>6 DEF IsClaim
<1>8. claimed # {}
  BY <1>7, FS_EmptySet
<1>9. \A i \in claimed : state[i] = "Pending"
  BY DEF IInv, ReadyExact
<1>10. state' = [i \in Items |-> IF i \in claimed THEN "Running" ELSE state[i]]
  BY <1>1 DEF TakeReady
<1>. QED BY <1>2, <1>3, <1>4, <1>5, <1>6, <1>7, <1>8, <1>9, <1>10

\* A claim that returns nothing while nothing runs finds every item complete.
LEMMA EmptyClaimWork ==
  ASSUME IInv, NEW limit, limit # 0, EmptyClaim(limit)
  PROVE  /\ IInv' /\ UNCHANGED planVars /\ UNCHANGED workVars
         /\ (\A i \in Items : state[i] # "Running") => pending = 0
<1>1. UNCHANGED planVars /\ UNCHANGED workVars /\ (pending = 0 \/ ready = {})
  BY DEF EmptyClaim
<1>2. IInv'
  BY <1>1 DEF IInv, planVars, workVars, TypeOK, ValidPlan, Seal, EdgesOf,
     UnresolvedExact, ReadyExact, CountsExact, NoEarlyRelease, Outstanding,
     EnabledDependencies, Dependencies, DependencyIsEnabled
<1>3. ASSUME \A i \in Items : state[i] # "Running" PROVE pending = 0
  <2>1. {i \in Items : state[i] = "Running"} = {}
    BY <1>3
  <2>2. running = 0
    BY <2>1, FS_EmptySet DEF IInv, CountsExact
  <2>. QED BY <1>1, <2>2, SomethingToDo
<1>. QED BY <1>1, <1>2, <1>3

\* A finished item is complete.
LEMMA FinishWork ==
  ASSUME IInv, NEW item \in Items, Finish(item)
  PROVE  /\ IInv' /\ UNCHANGED planVars /\ state[item] = "Running"
         /\ state' = [state EXCEPT ![item] = "Complete"]
<1>1. state[item] = "Running" /\ Complete(item) /\ UNCHANGED planVars
  BY DEF Finish
<1>2. IInv'
  BY <1>1, CompleteStep
<1>. QED BY <1>1, <1>2 DEF Complete

\* A step that leaves the worklist alone.
LEMMA IdleWork ==
  ASSUME IInv, UNCHANGED vars
  PROVE  IInv' /\ UNCHANGED planVars /\ state' = state /\ pending' = pending
<1>1. UNCHANGED planVars /\ UNCHANGED workVars
  BY DEF vars, planVars, workVars
<1>2. IInv'
  BY NextIInv
<1>. QED BY <1>1, <1>2 DEF workVars

\* Nothing pending means that every scheduled item is complete.
LEMMA NonePending ==
  ASSUME IInv, pending = 0
  PROVE  \A i \in Items : state[i] \in {"Absent", "Complete"}
<1>. DEFINE P == {i \in Items : state[i] \in {"Pending", "Running"}}
<1>1. IsFiniteSet(P) /\ Cardinality(P) = 0
  BY ItemsAssumption, FS_Subset DEF IInv, CountsExact
<1>2. P = {}
  BY <1>1, FS_EmptySet
<1>. QED BY <1>2 DEF IInv, TypeOK, ItemState

-----------------------------------------------------------------------------
(***************************************************************************)
(* The rows and the journal.                                               *)
(***************************************************************************)

\* A step that publishes nothing and completes nothing.
LEMMA ContentFrame ==
  ASSUME RowsExact, JournalExact, UNCHANGED planVars, UNCHANGED inputVars, UNCHANGED commitVars,
         \A i \in Items : state'[i] = "Complete" <=> state[i] = "Complete",
         published \in SUBSET Items
  PROVE  RowsExact' /\ JournalExact'
<1>1. /\ rows' = rows /\ active' = active /\ journal' = journal /\ published' = published
      /\ initialRows' = initialRows /\ initialActive' = initialActive
  BY DEF inputVars, commitVars
<1>2. \A i : /\ EnabledDependencies(i)' = EnabledDependencies(i) /\ InputOf(i)' = InputOf(i)
             /\ Moved(i)' = Moved(i)
  BY <1>1, ReadFrame, InputFrame DEF Moved
<1>3. RowsExact'
  BY <1>1, <1>2 DEF RowsExact
<1>4. JournalExact'
  BY <1>1 DEF JournalExact
<1>. QED BY <1>3, <1>4

\* Completing an item that is not worth executing.
LEMMA ContentSkip ==
  ASSUME RowsExact, JournalExact, UNCHANGED planVars, UNCHANGED inputVars, UNCHANGED commitVars,
         IInv, NEW item \in Items, item \notin active, state[item] = "Running",
         state' = [state EXCEPT ![item] = "Complete"], published \in SUBSET Items
  PROVE  RowsExact' /\ JournalExact'
<1>1. /\ rows' = rows /\ active' = active /\ journal' = journal /\ published' = published
      /\ initialRows' = initialRows /\ initialActive' = initialActive
  BY DEF inputVars, commitVars
<1>2. \A i : /\ EnabledDependencies(i)' = EnabledDependencies(i) /\ InputOf(i)' = InputOf(i)
             /\ Moved(i)' = Moved(i)
  BY <1>1, ReadFrame, InputFrame DEF Moved
<1>3. state \in [Items -> ItemState] /\ item \notin published
  BY DEF IInv, TypeOK, RowsExact
<1>4. RowsExact'
  <2>1. \A i \in Items : state'[i] = IF i = item THEN "Complete" ELSE state[i]
    BY <1>3
  <2>2. (\A i \in published : state[i] = "Complete")'
    BY <1>1, <2>1 DEF RowsExact
  <2>3. (\A i \in Items : state[i] = "Complete" => (i \in published <=> i \in active))'
    BY <1>1, <1>3, <2>1 DEF RowsExact
  <2>4. (active = {i \in Items : i \in initialActive \/ \E d \in EnabledDependencies(i) : Moved(d)})'
    BY <1>1, <1>2 DEF RowsExact
  <2>5. (\A i \in published : \A r \in OwnedRows[i] : rows[r] = Analyze(i, InputOf(i))[r])'
    BY <1>1, <1>2 DEF RowsExact
  <2>6. (\A r \in Rows : (\A i \in published : r \notin OwnedRows[i]) => rows[r] = initialRows[r])'
    BY <1>1 DEF RowsExact
  <2>. QED BY <2>2, <2>3, <2>4, <2>5, <2>6 DEF RowsExact
<1>5. JournalExact'
  BY <1>1 DEF JournalExact
<1>. QED BY <1>4, <1>5

\* The rows of an item that is not published are the caller's.
LEMMA UnpublishedRows ==
  ASSUME RowsExact, published \in SUBSET Items, NEW i \in Items, i \notin published
  PROVE  /\ \A r \in OwnedRows[i] : rows[r] = initialRows[r]
         /\ ~Moved(i)
<1>1. \A r \in OwnedRows[i] : r \in Rows /\ \A j \in published : r \notin OwnedRows[j]
  BY OwnersDiffer, OwnershipAssumption DEF ValidOwnership
<1>. QED BY <1>1 DEF RowsExact, Moved

\* A claimed item that is not published read its own rows as the caller gave
\* them.
LEMMA SnapshotIsInput ==
  ASSUME RowsExact, published \in SUBSET Items, NEW i \in Items, i \notin published
  PROVE  Snapshot(i) = InputOf(i)
<1>1. \A r \in OwnedRows[i] : rows[r] = initialRows[r]
  BY UnpublishedRows
<1>. QED BY <1>1 DEF Snapshot, InputOf

\* The types of what a publication writes.
LEMMA PublishTypes ==
  ASSUME PubTypeOK, NEW item \in Items, NEW output \in [OwnedRows[item] -> Values],
         TypeOK, UNCHANGED planVars, PublishRows(item, output)
  PROVE  /\ rows' \in [Rows -> Values] /\ journal' \in Seq(Entry)
         /\ active' \in SUBSET Items /\ published' \in SUBSET Items
         /\ active \subseteq active' /\ published' = published \cup {item}
         /\ Len(journal') = Len(journal) + 1 /\ Len(journal) \in Nat
         /\ \A k \in 1..Len(journal) : journal'[k] = journal[k]
         /\ journal'[Len(journal) + 1] =
               [item |-> item, previous |-> [r \in OwnedRows[item] |-> rows[r]]]
<1>. DEFINE changed == {r \in OwnedRows[item] : rows[r] # output[r]}
            entry == [item |-> item, previous |-> [r \in OwnedRows[item] |-> rows[r]]]
<1>1. /\ rows' = [r \in Rows |-> IF r \in OwnedRows[item] THEN output[r] ELSE rows[r]]
      /\ journal' = Append(journal, entry)
      /\ published' = published \cup {item}
      /\ active' = IF changed = {} THEN active ELSE active \cup EnabledDependents(item)
  BY DEF PublishRows
<1>2. OwnedRows[item] \in SUBSET Rows
  BY OwnershipAssumption DEF ValidOwnership
<1>3. rows' \in [Rows -> Values]
  BY <1>1 DEF PubTypeOK
<1>4. entry \in Entry
  <2>1. [r \in OwnedRows[item] |-> rows[r]] \in [OwnedRows[item] -> Values]
    BY <1>2 DEF PubTypeOK
  <2>2. [r \in OwnedRows[item] |-> rows[r]] \in RowMaps
    BY <1>2, <2>1 DEF RowMaps
  <2>. QED BY <2>2 DEF Entry
<1>. HIDE DEF entry
<1>5. /\ journal' \in Seq(Entry) /\ Len(journal') = Len(journal) + 1 /\ Len(journal) \in Nat
      /\ \A k \in 1..Len(journal) : journal'[k] = journal[k]
      /\ journal'[Len(journal) + 1] = entry
  BY <1>1, <1>4, AppendProperties, LenProperties DEF PubTypeOK
<1>6. active' \in SUBSET Items /\ active \subseteq active'
  BY <1>1, DependentsInArena DEF PubTypeOK
<1>7. published' \in SUBSET Items /\ published' = published \cup {item}
  BY <1>1 DEF PubTypeOK
<1>. QED BY <1>3, <1>5, <1>6, <1>7 DEF entry

\* Publishing the answer of a claimed item: its rows now agree with its
\* dependencies, exactly its dependents become active, and nothing any other
\* claimed or complete item read has changed.
LEMMA ContentPublish ==
  ASSUME IInv, PubTypeOK, RowsExact, JournalExact, UNCHANGED planVars, UNCHANGED inputVars,
         NEW item \in Items, item \in active, state[item] = "Running",
         state' = [state EXCEPT ![item] = "Complete"],
         PublishRows(item, Analyze(item, Snapshot(item)))
  PROVE  /\ RowsExact' /\ JournalExact'
         /\ \A i \in Items : i # item /\ state[i] \in {"Running", "Complete"} =>
               \A r \in ReadRows(i) : rows'[r] = rows[r]
<1>. DEFINE output == Analyze(item, Snapshot(item))
<1>1. /\ initialRows' = initialRows /\ initialActive' = initialActive
      /\ TypeOK /\ state \in [Items -> ItemState] /\ published \in SUBSET Items
      /\ item \notin published
  BY DEF inputVars, IInv, TypeOK, PubTypeOK, RowsExact
<1>2. /\ OwnedRows[item] \in SUBSET Rows /\ Snapshot(item) \in RowMaps
      /\ output \in [OwnedRows[item] -> Values] /\ Snapshot(item) = InputOf(item)
  BY <1>1, ReadFacts, AnalyzeFacts, SnapshotIsInput
<1>3. \A r \in OwnedRows[item] : rows[r] = initialRows[r]
  BY <1>1, UnpublishedRows
<1>4. /\ rows' = [r \in Rows |-> IF r \in OwnedRows[item] THEN output[r] ELSE rows[r]]
      /\ active' = IF {r \in OwnedRows[item] : rows[r] # output[r]} = {} THEN active
                   ELSE active \cup EnabledDependents(item)
  BY DEF PublishRows
<1>5. /\ published' = published \cup {item} /\ active \subseteq active'
      /\ Len(journal') = Len(journal) + 1 /\ Len(journal) \in Nat
      /\ \A k \in 1..Len(journal) : journal'[k] = journal[k]
      /\ journal'[Len(journal) + 1] =
            [item |-> item, previous |-> [r \in OwnedRows[item] |-> rows[r]]]
  BY <1>1, <1>2, PublishTypes
<1>6. ASSUME NEW i \in Items, i # item, state[i] \in {"Running", "Complete"}
      PROVE  /\ \A r \in ReadRows(i) : rows'[r] = rows[r]
             /\ item \notin EnabledDependencies(i)
  <2>1. /\ item \notin EnabledDependencies(i) /\ ReadRows(i) \cap OwnedRows[item] = {}
        /\ ReadRows(i) \in SUBSET Rows
    BY <1>1, <1>6, ReadsApart, ReadFacts
  <2>. QED BY <1>4, <2>1
<1>7. \A i \in Items : state'[i] = IF i = item THEN "Complete" ELSE state[i]
  BY <1>1
<1>8. \A i \in Items : i # item => Moved(i)' = Moved(i)
  <2>. SUFFICES ASSUME NEW i \in Items, i # item PROVE Moved(i)' = Moved(i)
    OBVIOUS
  <2>1. \A r \in OwnedRows[i] : r \in Rows /\ r \notin OwnedRows[item]
    BY OwnersDiffer, OwnershipAssumption DEF ValidOwnership
  <2>2. \A r \in OwnedRows[i] : rows'[r] = rows[r]
    BY <1>4, <2>1
  <2>. QED BY <1>1, <2>2 DEF Moved
<1>9. /\ ~Moved(item)
      /\ Moved(item)' <=> {r \in OwnedRows[item] : rows[r] # output[r]} # {}
  <2>1. \A r \in OwnedRows[item] : rows'[r] = output[r] /\ rows[r] = initialRows[r]
    BY <1>2, <1>3, <1>4
  <2>2. ~Moved(item)
    BY <2>1 DEF Moved
  <2>3. Moved(item)' <=> \E r \in OwnedRows[item] : output[r] # rows[r]
    BY <1>1, <2>1 DEF Moved
  <2>. QED BY <2>2, <2>3
<1>. HIDE DEF output
<1>10. (active = {i \in Items : i \in initialActive \/ \E d \in EnabledDependencies(i) : Moved(d)})'
  <2>1. \A i \in Items : EnabledDependencies(i)' = EnabledDependencies(i)
    BY ReadFrame
  <2>2. \A i \in Items : i \in EnabledDependents(item) <=> item \in EnabledDependencies(i)
    BY <1>1, EnabledConverse
  <2>3. EnabledDependents(item) \subseteq Items
    BY <1>1, DependentsInArena
  <2>4. \A i \in Items : \A d \in EnabledDependencies(i) : d \in Items
    BY <1>1, DependencyKey
  <2>5. active = {i \in Items : i \in initialActive \/ \E d \in EnabledDependencies(i) : Moved(d)}
    BY DEF RowsExact
  <2>6. ASSUME NEW i \in Items
        PROVE  i \in active' <=>
                  i \in initialActive \/ \E d \in EnabledDependencies(i) : Moved(d)'
    <3>1. (\E d \in EnabledDependencies(i) : Moved(d)') <=>
             \/ \E d \in EnabledDependencies(i) : Moved(d)
             \/ item \in EnabledDependencies(i) /\ Moved(item)'
      BY <1>8, <1>9, <2>4
    <3>2. i \in active' <=> i \in active \/ (Moved(item)' /\ i \in EnabledDependents(item))
      BY <1>4, <1>9
    <3>. QED BY <2>2, <2>5, <3>1, <3>2
  <2>7. active' \subseteq Items
    BY <1>4, <2>3, <2>5
  <2>. QED BY <1>1, <2>1, <2>6, <2>7
<1>11. (\A i \in published : state[i] = "Complete")'
  BY <1>1, <1>5, <1>7 DEF RowsExact
<1>12. (\A i \in Items : state[i] = "Complete" => (i \in published <=> i \in active))'
  <2>. SUFFICES ASSUME NEW i \in Items, i # item, state[i] = "Complete"
                PROVE  i \in published' <=> i \in active'
    BY <1>5, <1>7
  <2>1. item \notin EnabledDependencies(i)
    BY <1>6
  <2>2. i \notin EnabledDependents(item)
    BY <1>1, <2>1, EnabledConverse
  <2>. QED BY <1>4, <1>5, <2>2 DEF RowsExact
<1>13. (\A r \in Rows : (\A i \in published : r \notin OwnedRows[i]) => rows[r] = initialRows[r])'
  BY <1>1, <1>4, <1>5 DEF RowsExact
<1>14. (\A i \in published : \A r \in OwnedRows[i] : rows[r] = Analyze(i, InputOf(i))[r])'
  <2>1. ASSUME NEW i \in published, i # item, NEW r \in OwnedRows[i]
        PROVE  rows'[r] = Analyze(i, InputOf(i)')[r]
    <3>1. i \in Items /\ state[i] = "Complete" /\ OwnedRows[i] \subseteq ReadRows(i)
      BY <1>1, ReadFacts DEF RowsExact
    <3>2. \A q \in ReadRows(i) : rows'[q] = rows[q]
      BY <1>6, <2>1, <3>1
    <3>3. InputOf(i)' = InputOf(i)
      BY <1>1, <3>2, InputFrame
    <3>. QED BY <2>1, <3>1, <3>2, <3>3 DEF RowsExact
  <2>2. ASSUME NEW r \in OwnedRows[item]
        PROVE  rows'[r] = Analyze(item, InputOf(item)')[r]
    <3>1. InputOf(item)' = InputOf(item)
      <4>1. \A q \in ReadRows(item) \ OwnedRows[item] : rows'[q] = rows[q]
        BY <1>1, <1>4, ReadFacts
      <4>2. ReadRows(item)' = ReadRows(item)
        BY ReadFrame
      <4>. QED BY <1>1, <4>1, <4>2 DEF InputOf
    <3>2. rows'[r] = output[r]
      BY <1>2, <1>4
    <3>. QED BY <1>2, <3>1, <3>2 DEF output
  <2>. QED BY <1>5, <2>1, <2>2
<1>15. RowsExact'
  BY <1>10, <1>11, <1>12, <1>13, <1>14 DEF RowsExact
<1>16. JournalExact'
  <2>1. [r \in OwnedRows[item] |-> rows[r]] = [r \in OwnedRows[item] |-> initialRows[r]]
    BY <1>3
  <2>2. \A k \in 1..Len(journal') :
           /\ journal'[k].item \in published'
           /\ journal'[k].previous = [r \in OwnedRows[journal'[k].item] |-> initialRows[r]]
    <3>. SUFFICES ASSUME NEW k \in 1..Len(journal) + 1
                  PROVE  /\ journal'[k].item \in published'
                         /\ journal'[k].previous =
                               [r \in OwnedRows[journal'[k].item] |-> initialRows[r]]
      BY <1>5
    <3>1. CASE k \in 1..Len(journal)
      BY <1>5, <3>1 DEF JournalExact
    <3>2. CASE k = Len(journal) + 1
      BY <1>5, <2>1, <3>2
    <3>. QED BY <1>5, <3>1, <3>2
  <2>3. \A i \in published' : \E k \in 1..Len(journal') : journal'[k].item = i
    <3>. SUFFICES ASSUME NEW i \in published' PROVE \E k \in 1..Len(journal') : journal'[k].item = i
      OBVIOUS
    <3>1. CASE i = item
      <4>1. Len(journal) + 1 \in 1..Len(journal')
        BY <1>5
      <4>. QED BY <1>5, <3>1, <4>1
    <3>2. CASE i \in published
      <4>1. PICK k \in 1..Len(journal) : journal[k].item = i
        BY <3>2 DEF JournalExact
      <4>. QED BY <1>5, <4>1
    <3>. QED BY <1>5, <3>1, <3>2
  <2>. QED BY <1>1, <2>2, <2>3 DEF JournalExact
<1>. QED BY <1>6, <1>15, <1>16

\* Rolling the journal back gives the caller's rows.
LEMMA RollbackRestores ==
  ASSUME PubTypeOK, RowsExact, JournalExact
  PROVE  Rollback(journal) = initialRows
<1>. DEFINE at(r) == {k \in 1..Len(journal) : r \in DOMAIN journal[k].previous}
            value(r) == IF at(r) = {} THEN rows[r]
                        ELSE journal[CHOOSE k \in at(r) : \A l \in at(r) : k <= l].previous[r]
<1>1. Rollback(journal) = [r \in Rows |-> value(r)]
  BY DEF Rollback
<1>2. Len(journal) \in Nat
  BY LenProperties DEF PubTypeOK
<1>3. ASSUME NEW r \in Rows PROVE value(r) = initialRows[r]
  <2>1. CASE at(r) = {}
    <3>1. ASSUME NEW i \in published, r \in OwnedRows[i] PROVE FALSE
      <4>1. PICK k \in 1..Len(journal) : journal[k].item = i
        BY DEF JournalExact
      <4>2. journal[k].previous = [q \in OwnedRows[i] |-> initialRows[q]]
        BY <4>1 DEF JournalExact
      <4>3. r \in DOMAIN journal[k].previous
        BY <3>1, <4>2
      <4>. QED BY <2>1, <4>3
    <3>. QED BY <2>1, <3>1 DEF RowsExact
  <2>2. CASE at(r) # {}
    <3>1. at(r) \in SUBSET Nat
      BY <1>2
    <3>2. \A k \in at(r) : journal[k].previous[r] = initialRows[r]
      BY DEF JournalExact
    <3>. HIDE DEF at
    <3>3. \E k \in at(r) : \A l \in at(r) : k <= l
      BY <2>2, <3>1, LeastNumber
    <3>4. (CHOOSE k \in at(r) : \A l \in at(r) : k <= l) \in at(r)
      BY <3>3
    <3>. QED BY <2>2, <3>2, <3>4
  <2>. QED BY <2>1, <2>2
<1>. HIDE DEF value
<1>4. initialRows = [r \in Rows |-> initialRows[r]]
  BY DEF PubTypeOK
<1>. QED BY <1>1, <1>3, <1>4

\* The one owner of a row.
LEMMA OwnerOf ==
  ASSUME NEW i \in Items, NEW r \in OwnedRows[i]
  PROVE  (CHOOSE j \in Items : r \in OwnedRows[j]) = i
<1>1. \A j \in Items : r \in OwnedRows[j] => j = i
  BY OwnersDiffer
<1>. QED BY <1>1

\* When every scheduled item is complete the rows are an outcome.
LEMMA OutcomeReached ==
  ASSUME IInv, PubTypeOK, RowsExact, \A i \in Items : state[i] \in {"Absent", "Complete"}
  PROVE  IsOutcome(rows)
<1>. DEFINE executes(i) == /\ state[i] # "Absent"
                           /\ i \in initialActive \/ \E d \in EnabledDependencies(i) : Moved(d)
<1>1. \A i \in Items : executes(i) <=> i \in published
  <2>1. \A i \in Items : state[i] # "Absent" <=> state[i] = "Complete"
    OBVIOUS
  <2>2. \A i \in Items : executes(i) <=> state[i] = "Complete" /\ i \in active
    BY <2>1 DEF RowsExact
  <2>. QED BY <2>2 DEF RowsExact
<1>2. ASSUME NEW r \in Rows
      PROVE  rows[r] = IF \E i \in Items : r \in OwnedRows[i] /\ executes(i)
                       THEN Analyze(CHOOSE i \in Items : r \in OwnedRows[i],
                                    InputOf(CHOOSE i \in Items : r \in OwnedRows[i]))[r]
                       ELSE initialRows[r]
  <2>. HIDE DEF executes
  <2>1. CASE \E i \in Items : r \in OwnedRows[i] /\ executes(i)
    <3>1. PICK i \in Items : r \in OwnedRows[i] /\ executes(i)
      BY <2>1
    <3>2. (CHOOSE j \in Items : r \in OwnedRows[j]) = i
      BY <3>1, OwnerOf
    <3>3. rows[r] = Analyze(i, InputOf(i))[r]
      BY <1>1, <3>1 DEF RowsExact
    <3>. QED BY <2>1, <3>2, <3>3
  <2>2. CASE ~\E i \in Items : r \in OwnedRows[i] /\ executes(i)
    <3>1. \A i \in published : r \notin OwnedRows[i]
      BY <1>1, <2>2 DEF PubTypeOK
    <3>. QED BY <2>2, <3>1 DEF RowsExact
  <2>. QED BY <2>1, <2>2
<1>. QED BY <1>2 DEF IsOutcome, InputOf, Moved

\* The parts of an outcome, named: what differs from the caller's rows, which
\* items execute, and what they read.
Differs(final, i) == \E r \in OwnedRows[i] : final[r] # initialRows[r]
Executes(final, i) ==
    /\ state[i] # "Absent"
    /\ i \in initialActive \/ \E d \in EnabledDependencies(i) : Differs(final, d)
Reads(final, i) ==
    [r \in ReadRows(i) |-> IF r \in OwnedRows[i] THEN initialRows[r] ELSE final[r]]

\* What an outcome says about one row of an item.
LEMMA OutcomeAt ==
  ASSUME NEW final, IsOutcome(final), NEW i \in Items, NEW r \in OwnedRows[i]
  PROVE  final[r] = IF Executes(final, i) THEN Analyze(i, Reads(final, i))[r] ELSE initialRows[r]
<1>1. r \in Rows
  BY OwnershipAssumption DEF ValidOwnership
<1>2. final[r] = IF \E j \in Items : r \in OwnedRows[j] /\ Executes(final, j)
                 THEN Analyze(CHOOSE j \in Items : r \in OwnedRows[j],
                              Reads(final, CHOOSE j \in Items : r \in OwnedRows[j]))[r]
                 ELSE initialRows[r]
  BY <1>1 DEF IsOutcome, Executes, Differs, Reads
<1>3. (CHOOSE j \in Items : r \in OwnedRows[j]) = i
  BY OwnerOf
<1>4. (\E j \in Items : r \in OwnedRows[j] /\ Executes(final, j)) <=> Executes(final, i)
  BY OwnersDiffer
<1>. QED BY <1>2, <1>3, <1>4

\* A call has at most one outcome: the rows are determined item by item along
\* the dependency order, so neither worker count nor completion order matters.
LEMMA OutcomeUnique ==
  ASSUME TypeOK, NEW f \in [Rows -> Values], NEW g \in [Rows -> Values],
         IsOutcome(f), IsOutcome(g)
  PROVE  f = g
<1>. DEFINE D == {i \in Items : \E r \in OwnedRows[i] : f[r] # g[r]}
<1>1. ASSUME D # {} PROVE FALSE
  <2>1. PICK i \in D : \A j \in D : ReadyKey(i) <= ReadyKey(j)
    <3>1. D \in SUBSET Items
      OBVIOUS
    <3>. HIDE DEF D
    <3>. QED BY <1>1, <3>1, LeastKeyExists
  <2>2. \A d \in EnabledDependencies(i) : d \in Items /\ d \notin D
    <3>. SUFFICES ASSUME NEW d \in EnabledDependencies(i) PROVE d \in Items /\ d \notin D
      OBVIOUS
    <3>1. d \in Items /\ ReadyKey(d) < ReadyKey(i)
      BY DependencyKey
    <3>2. ReadyKey(d) \in Nat /\ ReadyKey(i) \in Nat
      BY <3>1, ReadyKeyType
    <3>. QED BY <2>1, <3>1, <3>2
  <2>3. \A d \in EnabledDependencies(i) : \A r \in OwnedRows[d] : f[r] = g[r]
    BY <2>2
  <2>4. Executes(f, i) <=> Executes(g, i)
    BY <2>3 DEF Executes, Differs
  <2>5. Reads(f, i) = Reads(g, i)
    BY <2>3 DEF Reads, ReadRows
  <2>6. \A r \in OwnedRows[i] : f[r] = g[r]
    BY <2>4, <2>5, OutcomeAt
  <2>. QED BY <2>6
<1>2. \A r \in Rows : f[r] = g[r]
  <2>. SUFFICES ASSUME NEW r \in Rows PROVE f[r] = g[r]
    OBVIOUS
  <2>1. CASE \E i \in Items : r \in OwnedRows[i]
    BY <1>1, <2>1
  <2>2. CASE ~\E i \in Items : r \in OwnedRows[i]
    <3>1. f[r] = initialRows[r]
      BY <2>2 DEF IsOutcome
    <3>2. g[r] = initialRows[r]
      BY <2>2 DEF IsOutcome
    <3>. QED BY <3>1, <3>2
  <2>. QED BY <2>1, <2>2
<1>. QED BY <1>2

-----------------------------------------------------------------------------
(***************************************************************************)
(* The pool.                                                               *)
(***************************************************************************)

\* The answers on their way, as a sequence of items.
LEMMA SentFacts ==
  ASSUME channel \in Seq(Message)
  PROVE  /\ Sent \in Seq(Items) /\ Len(Sent) = Len(channel) /\ Len(channel) \in Nat
         /\ DOMAIN channel = 1..Len(channel)
         /\ ToSet(Sent) = {channel[k].item : k \in 1..Len(channel)}
<1>1. /\ Len(channel) \in Nat /\ DOMAIN channel = 1..Len(channel)
      /\ \A k \in 1..Len(channel) : channel[k] \in Message
  BY ElementOfSeq, LenProperties
<1>2. Sent \in [1..Len(channel) -> Items]
  BY <1>1 DEF Sent, Message
<1>3. Sent \in Seq(Items) /\ Len(Sent) = Len(channel)
  BY <1>1, <1>2, SeqDef, LenProperties
<1>4. ToSet(Sent) = {Sent[k] : k \in 1..Len(channel)}
  BY <1>3, ToSetByPosition
<1>5. ToSet(Sent) = {channel[k].item : k \in 1..Len(channel)}
  BY <1>4 DEF Sent
<1>. QED BY <1>1, <1>3, <1>5

\* A worker's answer goes to the end of the channel.
LEMMA SentSend ==
  ASSUME channel \in Seq(Message), NEW m \in Message, channel' = Append(channel, m)
  PROVE  /\ channel' \in Seq(Message) /\ Sent' = Append(Sent, m.item)
         /\ \A k \in 1..Len(channel') :
               channel'[k] = m \/ \E j \in 1..Len(channel) : channel'[k] = channel[j]
<1>1. /\ channel' \in Seq(Message) /\ Len(channel') = Len(channel) + 1 /\ Len(channel) \in Nat
      /\ \A k \in 1..Len(channel) : channel'[k] = channel[k]
      /\ channel'[Len(channel) + 1] = m
  BY AppendProperties, LenProperties
<1>2. Sent \in Seq(Items) /\ Len(Sent) = Len(channel) /\ m.item \in Items
  BY SentFacts DEF Message
<1>3. /\ Append(Sent, m.item) \in Seq(Items) /\ Len(Append(Sent, m.item)) = Len(channel) + 1
      /\ \A k \in 1..Len(channel) : Append(Sent, m.item)[k] = Sent[k]
      /\ Append(Sent, m.item)[Len(channel) + 1] = m.item
  BY <1>2, AppendProperties
<1>4. Sent' \in Seq(Items) /\ Len(Sent') = Len(channel')
  <2>1. \A k \in 1..Len(channel') : channel'[k] \in Message
    BY <1>1, ElementOfSeq
  <2>2. Sent' = [k \in 1..Len(channel') |-> channel'[k].item]
    BY DEF Sent
  <2>3. Sent' \in [1..Len(channel') -> Items] /\ Len(channel') \in Nat
    BY <1>1, <2>1, <2>2 DEF Message
  <2>. QED BY <2>3, SeqDef, LenProperties
<1>5. \A k \in 1..Len(channel) + 1 : Sent'[k] = Append(Sent, m.item)[k]
  BY <1>1, <1>3 DEF Sent
<1>6. Sent' = Append(Sent, m.item)
  BY <1>1, <1>3, <1>4, <1>5, SeqEqual
<1>. QED BY <1>1, <1>6

\* The coordinator takes the first answer.
LEMMA SentReceive ==
  ASSUME channel \in Seq(Message), channel # <<>>, channel' = Tail(channel)
  PROVE  /\ channel' \in Seq(Message) /\ Sent' = Tail(Sent)
         /\ Sent # <<>> /\ Head(Sent) = Head(channel).item
         /\ Head(channel) \in Message /\ 1 \in 1..Len(channel) /\ Head(channel) = channel[1]
         /\ \A k \in 1..Len(channel') : k + 1 \in 1..Len(channel) /\ channel'[k] = channel[k + 1]
<1>1. /\ channel' \in Seq(Message) /\ Len(channel') = Len(channel) - 1
      /\ Len(channel) \in Nat /\ Len(channel) >= 1
      /\ \A k \in 1..Len(channel') : channel'[k] = channel[k + 1]
      /\ Head(channel) = channel[1] /\ channel[1] \in Message
  BY HeadTailProperties, LenProperties, ElementOfSeq
<1>2. Sent \in Seq(Items) /\ Len(Sent) = Len(channel)
  BY SentFacts
<1>3. Sent # <<>>
  BY <1>1, <1>2, EmptySeq
<1>4. /\ Tail(Sent) \in Seq(Items) /\ Len(Tail(Sent)) = Len(channel) - 1
      /\ \A k \in 1..Len(channel) - 1 : Tail(Sent)[k] = Sent[k + 1]
      /\ Head(Sent) = Sent[1]
  BY <1>2, <1>3, HeadTailProperties
<1>5. Sent' \in Seq(Items) /\ Len(Sent') = Len(channel')
  <2>1. \A k \in 1..Len(channel') : channel'[k] \in Message
    BY <1>1, ElementOfSeq
  <2>2. Sent' = [k \in 1..Len(channel') |-> channel'[k].item]
    BY DEF Sent
  <2>3. Sent' \in [1..Len(channel') -> Items] /\ Len(channel') \in Nat
    BY <1>1, <2>1, <2>2 DEF Message
  <2>. QED BY <2>3, SeqDef, LenProperties
<1>6. \A k \in 1..Len(channel) - 1 : Sent'[k] = Tail(Sent)[k]
  BY <1>1, <1>4 DEF Sent
<1>7. Sent' = Tail(Sent)
  BY <1>1, <1>4, <1>5, <1>6, SeqEqual
<1>8. Head(Sent) = Head(channel).item
  BY <1>1, <1>4 DEF Sent
<1>. QED BY <1>1, <1>3, <1>7, <1>8

\* The items of the pool are items of the arena; an empty pool has neither
\* tasks nor answers.
LEMMA PoolFacts ==
  ASSUME PubTypeOK, ItemsPlaced
  PROVE  /\ Analyzed \in SUBSET Items /\ ToSet(Sent) \in SUBSET Items /\ InPool \in SUBSET Items
         /\ IsFiniteSet(InPool) /\ IsFiniteSet(batch)
         /\ \A k \in 1..Len(channel) : channel[k].item \in ToSet(Sent)
         /\ \A t \in tasks : t.item \in Analyzed
         /\ inFlight = 0 <=> InPool = {}
         /\ InPool = {} => tasks = {} /\ channel = <<>>
<1>1. Analyzed \in SUBSET Items /\ \A t \in tasks : t.item \in Analyzed
  BY DEF Analyzed, PubTypeOK, Task
<1>2. /\ ToSet(Sent) \in SUBSET Items /\ \A k \in 1..Len(channel) : channel[k].item \in ToSet(Sent)
  <2>1. channel \in Seq(Message)
    BY DEF PubTypeOK
  <2>2. Sent \in Seq(Items) /\ ToSet(Sent) = {channel[k].item : k \in 1..Len(channel)}
    BY <2>1, SentFacts
  <2>. QED BY <2>2, ToSetByPosition
<1>3. InPool \in SUBSET Items /\ IsFiniteSet(InPool) /\ IsFiniteSet(batch)
  BY <1>1, <1>2, ItemsAssumption, FS_Subset DEF InPool, PubTypeOK
<1>4. inFlight = 0 <=> InPool = {}
  BY <1>3, FS_EmptySet DEF ItemsPlaced
<1>5. ASSUME InPool = {} PROVE tasks = {} /\ channel = <<>>
  <2>1. tasks = {}
    BY <1>1, <1>5 DEF InPool
  <2>2. 1..Len(channel) = {} /\ Len(channel) \in Nat /\ channel \in Seq(Message)
    BY <1>2, <1>5, LenProperties DEF InPool, PubTypeOK
  <2>3. Len(channel) = 0
    <3>1. 1 \in 1..Len(channel) \/ Len(channel) = 0
      BY <2>2
    <3>. QED BY <2>2, <3>1
  <2>. QED BY <2>1, <2>2, <2>3, EmptySeq
<1>. QED BY <1>1, <1>2, <1>3, <1>4, <1>5

\* Tasks are counted by their items.
LEMMA TasksCount ==
  ASSUME PubTypeOK, SnapshotsCurrent
  PROVE  IsFiniteSet(tasks) /\ Cardinality(tasks) = Cardinality(Analyzed)
<1>. DEFINE g == [i \in Analyzed |-> [item |-> i, input |-> Snapshot(i)]]
<1>1. \A t \in tasks : t = [item |-> t.item, input |-> Snapshot(t.item)]
  BY DEF PubTypeOK, Task, SnapshotsCurrent
<1>2. g \in [Analyzed -> tasks]
  <2>1. \A i \in Analyzed : [item |-> i, input |-> Snapshot(i)] \in tasks
    BY <1>1 DEF Analyzed
  <2>. QED BY <2>1
<1>3. \A t \in tasks : \E i \in Analyzed : g[i] = t
  BY <1>1 DEF Analyzed
<1>4. \A i, j \in Analyzed : g[i] = g[j] => i = j
  OBVIOUS
<1>5. g \in Bijection(Analyzed, tasks)
  <2>. HIDE DEF g
  <2>. QED BY <1>2, <1>3, <1>4 DEF Bijection, Injection, Surjection, IsInjective
<1>6. IsFiniteSet(Analyzed)
  <2>1. Analyzed \in SUBSET Items
    BY DEF Analyzed, PubTypeOK, Task
  <2>. QED BY <2>1, ItemsAssumption, FS_Subset
<1>7. ExistsBijection(Analyzed, tasks)
  <2>. HIDE DEF g
  <2>. QED BY <1>5 DEF ExistsBijection
<1>. QED BY <1>6, <1>7, FS_Bijection

-----------------------------------------------------------------------------
(***************************************************************************)
(* What a step leaves alone.                                               *)
(***************************************************************************)

\* A step that does not touch the pool keeps the items placed, if it keeps the
\* items it holds claimed.
LEMMA PlacementFrame ==
  ASSUME PubInv, UNCHANGED <<tasks, channel, inFlight, workers>>, active \subseteq active',
         batch' \cap InPool = {}, \A i \in batch' \cup InPool : state'[i] = "Running"
  PROVE  ItemsPlaced' /\ InPool' = InPool
<1>1. Analyzed' = Analyzed /\ Sent' = Sent
  BY DEF Analyzed, Sent
<1>2. InPool' = InPool
  BY <1>1 DEF InPool
<1>. QED BY <1>1, <1>2 DEF ItemsPlaced, PubInv

\* Snapshots stay current while no row that was read changes.
LEMMA SnapshotsKept ==
  ASSUME PubInv, UNCHANGED planVars, UNCHANGED <<tasks, channel>>,
         \A i \in InPool : \A r \in ReadRows(i) : rows'[r] = rows[r]
  PROVE  SnapshotsCurrent'
<1>1. \A i \in InPool : Snapshot(i)' = Snapshot(i)
  BY SnapshotFrame
<1>2. /\ \A t \in tasks : t.item \in InPool
      /\ \A k \in 1..Len(channel) : channel[k].item \in InPool
      /\ DOMAIN channel = 1..Len(channel)
  BY PoolFacts, SentFacts DEF PubInv, InPool, PubTypeOK
<1>3. (\A t \in tasks : t.input = Snapshot(t.item))'
  BY <1>1, <1>2 DEF PubInv, SnapshotsCurrent
<1>4. (\A k \in DOMAIN channel :
          channel[k].rows = Analyze(channel[k].item, Snapshot(channel[k].item)))'
  BY <1>1, <1>2 DEF PubInv, SnapshotsCurrent
<1>. QED BY <1>3, <1>4 DEF SnapshotsCurrent

\* Before the return there is nothing to say about what was returned.
LEMMA StillRunning ==
  ASSUME phase' # "done", result'.status = "Pending"
  PROVE  ReturnedExact' /\ EffectsUndo'
BY DEF ReturnedExact, EffectsUndo

\* A retained failure is one.
LEMMA FailureRetained ==
  ASSUME PubTypeOK, NEW item \in Items, RetainStableFailure(item)
  PROVE  failure' \in Failures /\ failure' # NoFailure
<1>1. NoFailure \notin Failures
  BY ItemsAreNumbers DEF NoFailure, Failures
<1>2. [item |-> item, kind |-> FailureKind(item)] \in Failures
  BY DEF Failures, FailureKind
<1>3. failure' \in Failures
  BY <1>1, <1>2 DEF RetainStableFailure, PubTypeOK
<1>. QED BY <1>1, <1>3

\* What is an outcome does not change once items are no longer scheduled.
LEMMA OutcomeFrame ==
  ASSUME UNCHANGED planVars, UNCHANGED inputVars, state' = state, rows' = rows
  PROVE  IsOutcome(rows)' <=> IsOutcome(rows)
<1>. DEFINE At(r) == rows[r] = IF \E i \in Items : r \in OwnedRows[i] /\ Executes(rows, i)
                               THEN Analyze(CHOOSE i \in Items : r \in OwnedRows[i],
                                            Reads(rows, CHOOSE i \in Items : r \in OwnedRows[i]))[r]
                               ELSE initialRows[r]
<1>1. initialRows' = initialRows /\ initialActive' = initialActive
  BY DEF inputVars
<1>2. \A i : ReadRows(i)' = ReadRows(i) /\ EnabledDependencies(i)' = EnabledDependencies(i)
  BY ReadFrame
<1>3. \A i : /\ Executes(rows, i)' <=> Executes(rows, i)
             /\ Reads(rows, i)' = Reads(rows, i)
  BY <1>1, <1>2 DEF Executes, Differs, Reads
<1>4. \A r \in Rows : At(r)' <=> At(r)
  BY <1>1, <1>3
<1>5. IsOutcome(rows) <=> \A r \in Rows : At(r)
  BY DEF IsOutcome, Executes, Differs, Reads
<1>6. IsOutcome(rows)' <=> \A r \in Rows : At(r)'
  BY DEF IsOutcome, Executes, Differs, Reads
<1>. HIDE DEF At
<1>. QED BY <1>4, <1>5, <1>6

-----------------------------------------------------------------------------
(***************************************************************************)
(* The steps.                                                              *)
(***************************************************************************)

\* The invariant holds before the call.
LEMMA PubInitInv == PubInit => PubInv
<1>. SUFFICES ASSUME PubInit PROVE PubInv
  OBVIOUS
<1>1. IInv
  BY InitIInv DEF PubInit
<1>2. /\ rows = initialRows /\ active = initialActive /\ journal = <<>> /\ published = {}
      /\ batches = 0 /\ failure = NoFailure /\ phase = "building"
      /\ workers = 0 /\ batch = {} /\ inFlight = 0 /\ tasks = {} /\ channel = <<>>
      /\ result = NotReturned
  BY DEF PubInit
<1>3. ~ran /\ ~cancelFlag /\ ~cancelled /\ ~claimedAny
  BY DEF PubInit
<1>4. journal \in Seq(Entry) /\ channel \in Seq(Message) /\ Len(channel) = 0 /\ Len(journal) = 0
  BY <1>2, EmptySeq
<1>5. PubTypeOK
  <2>1. /\ initialRows \in [Rows -> Values] /\ fault \in [Items -> FaultKinds]
        /\ parallelism \in Nat \ {0} /\ initialActive \in SUBSET Items
    BY InputsAssumption DEF PubInit
  <2>2. ran \in BOOLEAN /\ cancelFlag \in BOOLEAN /\ cancelled \in BOOLEAN /\ claimedAny \in BOOLEAN
    BY DEF PubInit
  <2>3. result \in [status : Statuses, item : Int]
    BY <1>2 DEF NotReturned, Statuses
  <2>. QED BY <1>2, <1>4, <2>1, <2>2, <2>3 DEF PubTypeOK, Phases
<1>6. ItemsPlaced
  <2>1. Analyzed = {} /\ ToSet(Sent) = {} /\ InPool = {}
    BY <1>2, <1>4, SentFacts DEF Analyzed, InPool
  <2>2. IsInjective(Sent)
    BY <1>4 DEF Sent, IsInjective
  <2>3. Cardinality(InPool) = 0
    BY <2>1, FS_EmptySet
  <2>. QED BY <1>2, <2>1, <2>2, <2>3 DEF ItemsPlaced
<1>7. SnapshotsCurrent
  BY <1>2 DEF SnapshotsCurrent
<1>8. \A i \in Items : state[i] = "Absent"
  BY DEF PubInit, Init
<1>9. PhaseOK
  BY <1>2, <1>3, <1>8 DEF PhaseOK, NotReturned
<1>10. NothingLost
  BY <1>2, <1>8 DEF NothingLost
<1>11. ContentExact
  <2>1. \A i : ~Moved(i)
    BY <1>2 DEF Moved
  <2>2. RowsExact
    BY <1>2, <1>5, <1>8, <2>1 DEF RowsExact, PubTypeOK
  <2>3. JournalExact
    BY <1>2, <1>4 DEF JournalExact
  <2>. QED BY <2>2, <2>3 DEF ContentExact
<1>12. ReturnedExact /\ EffectsUndo
  BY <1>2 DEF ReturnedExact, EffectsUndo, NotReturned
<1>. QED BY <1>1, <1>5, <1>6, <1>7, <1>9, <1>10, <1>11, <1>12 DEF PubInv

\* Seeds are scheduled before the call runs.
LEMMA ScheduleSeedStep == ASSUME PubInv, NEW item \in Items, ScheduleSeed(item) PROVE PubInv'
<1>. USE DEF PubInv
<1>1. /\ phase = "building" /\ state[item] = "Absent" /\ Schedule(item)
      /\ UNCHANGED inputVars /\ UNCHANGED commitVars
      /\ UNCHANGED <<callVars, poolVars, ran, cancelFlag, cancelled, failure, phase, batch, claimedAny>>
  BY DEF ScheduleSeed
<1>2. /\ IInv' /\ UNCHANGED planVars /\ state' = [state EXCEPT ![item] = "Pending"]
  BY <1>1, ScheduleWork
<1>3. /\ rows' = rows /\ active' = active /\ journal' = journal /\ published' = published
      /\ initialRows' = initialRows /\ initialActive' = initialActive /\ fault' = fault
      /\ parallelism' = parallelism
      /\ UNCHANGED <<effects, batches, workers, result, inFlight, tasks, channel, ran, cancelFlag,
                     cancelled, failure, phase, batch, claimedAny>>
  BY <1>1 DEF inputVars, commitVars, callVars, poolVars
<1>4. PubTypeOK'
  BY <1>3 DEF PubTypeOK
<1>5. \A i \in Items : state'[i] = IF i = item THEN "Pending" ELSE state[i]
  BY <1>2 DEF IInv, TypeOK
<1>6. batch = {} /\ InPool = {}
  BY <1>1, PoolFacts DEF PhaseOK
<1>7. ItemsPlaced' /\ InPool' = InPool
  BY <1>3, <1>6, PlacementFrame
<1>8. SnapshotsCurrent'
  BY <1>2, <1>3, <1>6, SnapshotsKept
<1>9. PhaseOK'
  BY <1>1, <1>3, <1>5 DEF PhaseOK
<1>10. NothingLost'
  BY <1>1, <1>3, <1>5, <1>7 DEF NothingLost, PhaseOK
<1>11. ContentExact'
  <2>1. RowsExact' /\ JournalExact'
    BY <1>1, <1>2, <1>5, ContentFrame DEF ContentExact, PubTypeOK
  <2>. QED BY <2>1 DEF ContentExact
<1>12. ReturnedExact' /\ EffectsUndo'
  BY <1>1, <1>3, StillRunning DEF PhaseOK
<1>. QED BY <1>2, <1>4, <1>7, <1>8, <1>9, <1>10, <1>11, <1>12

\* Raising the cancellation flag changes nothing but the flag.
LEMMA FlagStep ==
  ASSUME PubInv, cancelFlag' \in BOOLEAN,
         UNCHANGED <<vars, inputVars, commitVars, callVars, poolVars, ran, cancelled,
                     failure, phase, batch, claimedAny>>
  PROVE  PubInv'
<1>. USE DEF PubInv
<1>1. UNCHANGED vars /\ UNCHANGED inputVars /\ UNCHANGED commitVars
  OBVIOUS
<1>2. IInv' /\ UNCHANGED planVars /\ state' = state /\ pending' = pending
  BY <1>1, IdleWork
<1>3. /\ rows' = rows /\ active' = active /\ journal' = journal /\ published' = published
      /\ initialRows' = initialRows /\ initialActive' = initialActive /\ fault' = fault
      /\ parallelism' = parallelism
      /\ UNCHANGED <<effects, batches, workers, result, inFlight, tasks, channel, ran,
                     cancelled, failure, phase, batch, claimedAny>>
  BY DEF inputVars, commitVars, callVars, poolVars
<1>4. PubTypeOK'
  BY <1>3 DEF PubTypeOK
<1>5. ItemsPlaced' /\ InPool' = InPool
  BY <1>2, <1>3, PlacementFrame DEF ItemsPlaced
<1>6. SnapshotsCurrent'
  BY <1>2, <1>3, SnapshotsKept
<1>7. PhaseOK'
  <2>1. /\ phase' = phase /\ batch' = batch /\ inFlight' = inFlight /\ workers' = workers
        /\ failure' = failure /\ published' = published /\ state' = state /\ effects' = effects
        /\ batches' = batches /\ result' = result
        /\ (cancelled' <=> cancelled) /\ (claimedAny' <=> claimedAny)
    BY <1>2, <1>3
  <2>. QED BY <2>1 DEF PhaseOK
<1>8. NothingLost'
  BY <1>2, <1>3, <1>5 DEF NothingLost, Untroubled
<1>9. ContentExact'
  <2>1. CASE phase = "done"
    BY <1>3, <2>1 DEF ContentExact
  <2>2. CASE phase # "done"
    BY <1>1, <1>2, <1>3, <2>2, ContentFrame DEF ContentExact, PubTypeOK
  <2>. QED BY <2>1, <2>2
<1>10. ReturnedExact'
  <2>1. IsOutcome(rows)' <=> IsOutcome(rows)
    BY <1>1, <1>2, <1>3, OutcomeFrame
  <2>. QED BY <1>2, <1>3, <2>1 DEF ReturnedExact
<1>11. EffectsUndo'
  BY <1>3 DEF EffectsUndo
<1>. QED BY <1>2, <1>4, <1>5, <1>6, <1>7, <1>8, <1>9, <1>10, <1>11

\* The error return gives the caller's rows back.
LEMMA AbortStep ==
  ASSUME PubInv, phase \notin {"building", "done"}, inFlight = 0,
         NEW status \in {"Failed", "Panicked", "Cancelled"}, NEW item \in Int,
         Abort(status, item), batch' = {}, ran' \in BOOLEAN,
         UNCHANGED <<vars, inputVars, poolVars, cancelFlag, cancelled, failure, claimedAny>>
  PROVE  PubInv'
<1>. USE DEF PubInv
<1>1. UNCHANGED vars /\ UNCHANGED inputVars
  OBVIOUS
<1>2. IInv' /\ UNCHANGED planVars /\ state' = state /\ pending' = pending
  BY <1>1, IdleWork
<1>3. /\ rows' = Rollback(journal) /\ journal' = <<>> /\ phase' = "done"
      /\ result' = [status |-> status, item |-> item]
      /\ initialRows' = initialRows /\ initialActive' = initialActive /\ fault' = fault
      /\ parallelism' = parallelism
      /\ UNCHANGED <<active, published, effects, batches, workers, inFlight, tasks, channel,
                     cancelFlag, cancelled, failure, claimedAny>>
  BY DEF inputVars, poolVars, Abort
<1>4. rows' = initialRows
  BY <1>3, RollbackRestores DEF ContentExact
<1>5. InPool = {} /\ tasks = {} /\ channel = <<>> /\ batches = 0 /\ effects = {}
  BY PoolFacts DEF PhaseOK
<1>6. PubTypeOK'
  <2>1. journal' \in Seq(Entry)
    BY <1>3, EmptySeq
  <2>2. result' \in [status : Statuses, item : Int]
    BY <1>3 DEF Statuses
  <2>. QED BY <1>3, <1>4, <2>1, <2>2 DEF PubTypeOK, Phases
<1>7. ItemsPlaced' /\ InPool' = InPool
  BY <1>3, <1>5, PlacementFrame
<1>8. SnapshotsCurrent'
  BY <1>3, <1>5 DEF SnapshotsCurrent
<1>9. PhaseOK'
  BY <1>3 DEF PhaseOK
<1>10. NothingLost' /\ ContentExact'
  BY <1>3 DEF NothingLost, ContentExact
<1>11. ReturnedExact' /\ EffectsUndo'
  BY <1>3, <1>4, <1>5 DEF ReturnedExact, EffectsUndo
<1>. QED BY <1>2, <1>6, <1>7, <1>8, <1>9, <1>10, <1>11

\* The success return hands out rows that are an outcome and effects that undo
\* the call.
LEMMA SucceedStep ==
  ASSUME PubInv, phase = "resolve", Untroubled, Succeed,
         UNCHANGED <<vars, inputVars, poolVars, ran, cancelFlag, cancelled, failure, batch,
                     claimedAny>>
  PROVE  PubInv' /\ IsOutcome(rows)
<1>. USE DEF PubInv
<1>1. UNCHANGED vars /\ UNCHANGED inputVars
  OBVIOUS
<1>2. IInv' /\ UNCHANGED planVars /\ state' = state /\ pending' = pending
  BY <1>1, IdleWork
<1>3. /\ rows' = rows /\ active' = active /\ journal' = journal /\ published' = published
      /\ initialRows' = initialRows /\ initialActive' = initialActive /\ fault' = fault
      /\ parallelism' = parallelism /\ phase' = "done"
      /\ result' = [status |-> "Ok", item |-> -1]
      /\ effects' = {journal[k] : k \in 1..Len(journal)}
      /\ batches' = IF ran THEN batches + 1 ELSE batches
      /\ UNCHANGED <<workers, inFlight, tasks, channel, ran, cancelFlag, cancelled, failure,
                     batch, claimedAny>>
  BY DEF inputVars, poolVars, Succeed, commitVars
<1>4. \A i \in Items : state[i] \in {"Absent", "Complete"}
  BY NonePending DEF NothingLost
<1>5. RowsExact /\ JournalExact /\ IsOutcome(rows)
  BY <1>4, OutcomeReached DEF ContentExact
<1>6. InPool = {} /\ tasks = {} /\ channel = <<>> /\ batch = {}
  BY PoolFacts DEF PhaseOK
<1>7. PubTypeOK'
  <2>1. batches' \in Nat /\ result' \in [status : Statuses, item : Int]
    BY <1>3 DEF Statuses, PubTypeOK
  <2>. QED BY <1>3, <2>1 DEF PubTypeOK, Phases
<1>8. ItemsPlaced' /\ InPool' = InPool
  BY <1>3, <1>6, PlacementFrame
<1>9. SnapshotsCurrent'
  BY <1>3, <1>6 DEF SnapshotsCurrent
<1>10. PhaseOK'
  BY <1>3, <1>6 DEF PhaseOK
<1>11. NothingLost' /\ ContentExact'
  BY <1>3 DEF NothingLost, ContentExact
<1>12. ReturnedExact'
  <2>1. IsOutcome(rows)' <=> IsOutcome(rows)
    BY <1>1, <1>2, <1>3, OutcomeFrame
  <2>. QED BY <1>2, <1>3, <1>4, <1>5, <2>1 DEF ReturnedExact
<1>13. EffectsUndo'
  <2>1. ASSUME NEW r \in Rows
        PROVE  IF \E e \in effects' : r \in DOMAIN e.previous
               THEN \A e \in effects' : r \in DOMAIN e.previous => e.previous[r] = initialRows[r]
               ELSE rows[r] = initialRows[r]
    <3>1. \A e \in effects' : r \in DOMAIN e.previous => e.previous[r] = initialRows[r]
      <4>1. ASSUME NEW k \in 1..Len(journal), r \in DOMAIN journal[k].previous
            PROVE  journal[k].previous[r] = initialRows[r]
        BY <1>5, <4>1 DEF JournalExact
      <4>. QED BY <1>3, <4>1
    <3>2. ASSUME NEW i \in published, r \in OwnedRows[i]
          PROVE  \E e \in effects' : r \in DOMAIN e.previous
      <4>1. PICK k \in 1..Len(journal) : journal[k].item = i
        BY <1>5 DEF JournalExact
      <4>2. journal[k].previous = [q \in OwnedRows[i] |-> initialRows[q]]
        BY <1>5, <4>1 DEF JournalExact
      <4>3. r \in DOMAIN journal[k].previous /\ journal[k] \in effects'
        BY <1>3, <3>2, <4>2
      <4>. QED BY <4>3
    <3>3. (~\E e \in effects' : r \in DOMAIN e.previous) => rows[r] = initialRows[r]
      BY <1>5, <3>2 DEF RowsExact
    <3>. QED BY <3>1, <3>3
  <2>. QED BY <1>3, <2>1 DEF EffectsUndo
<1>. QED BY <1>2, <1>5, <1>7, <1>8, <1>9, <1>10, <1>11, <1>12, <1>13

\* The prologue: cancelled at once, or one of the two loops with nothing
\* claimed.
LEMMA StartStep == ASSUME PubInv, Start PROVE PubInv'
<1>. USE DEF PubInv
<1>1. /\ phase = "building" /\ effects' = {} /\ workers' = WorkerCount
      /\ UNCHANGED vars /\ UNCHANGED inputVars /\ UNCHANGED commitVars
      /\ UNCHANGED <<poolVars, batches, ran, cancelFlag, cancelled, failure, batch, claimedAny>>
  BY DEF Start
<1>2. IInv' /\ UNCHANGED planVars /\ state' = state /\ pending' = pending
  BY <1>1, IdleWork
<1>3. /\ rows' = rows /\ active' = active /\ journal' = journal /\ published' = published
      /\ initialRows' = initialRows /\ initialActive' = initialActive /\ fault' = fault
      /\ parallelism' = parallelism
      /\ UNCHANGED <<batches, inFlight, tasks, channel, ran, cancelFlag, cancelled, failure,
                     batch, claimedAny>>
  BY <1>1 DEF inputVars, commitVars, poolVars
<1>4. WorkerCount \in Nat
  BY DEF WorkerCount, TypeOK, IInv, PubTypeOK
<1>5. /\ InPool = {} /\ batch = {} /\ inFlight = 0 /\ failure = NoFailure /\ published = {}
      /\ ~cancelled /\ batches = 0 /\ tasks = {} /\ channel = <<>>
      /\ \A i \in Items : state[i] \in {"Absent", "Pending"}
  BY <1>1, PoolFacts DEF PhaseOK
<1>6. ItemsPlaced'
  <2>1. InPool' = InPool /\ Analyzed' = Analyzed /\ Sent' = Sent
    BY <1>3 DEF InPool, Analyzed, Sent
  <2>. QED BY <1>1, <1>2, <1>3, <1>4, <1>5, <2>1 DEF ItemsPlaced
<1>7. SnapshotsCurrent'
  BY <1>3, <1>5 DEF SnapshotsCurrent
<1>8. RowsExact' /\ JournalExact'
  BY <1>1, <1>2, ContentFrame DEF ContentExact, PubTypeOK
<1>9. CASE result' = [status |-> "Cancelled", item |-> -1] /\ phase' = "done"
  <2>1. PubTypeOK'
    <3>1. result' \in [status : Statuses, item : Int]
      BY <1>9 DEF Statuses
    <3>. QED BY <1>1, <1>3, <1>4, <1>9, <3>1 DEF PubTypeOK, Phases
  <2>2. PhaseOK'
    BY <1>3, <1>5, <1>9 DEF PhaseOK
  <2>3. NothingLost' /\ ContentExact'
    BY <1>9 DEF NothingLost, ContentExact
  <2>4. rows = initialRows
    <3>1. \A r \in Rows : rows[r] = initialRows[r]
      BY <1>1, <1>5 DEF ContentExact, RowsExact
    <3>. QED BY <3>1 DEF PubTypeOK
  <2>5. ReturnedExact' /\ EffectsUndo'
    BY <1>1, <1>3, <1>5, <1>9, <2>4 DEF ReturnedExact, EffectsUndo
  <2>. QED BY <1>2, <1>6, <1>7, <2>1, <2>2, <2>3, <2>5
<1>10. CASE phase' = (IF WorkerCount <= 1 THEN "serial" ELSE "top") /\ UNCHANGED result
  <2>1. PubTypeOK'
    BY <1>1, <1>3, <1>4, <1>10 DEF PubTypeOK, Phases
  <2>2. result'.status = "Pending" /\ phase' \in {"serial", "top"}
        /\ (phase' = "top" => workers' >= 2)
    BY <1>1, <1>4, <1>10 DEF PhaseOK
  <2>3. PhaseOK'
    <3>1. batch' = {} /\ ~cancelled' /\ inFlight' = 0 /\ effects' = {} /\ batches' = 0
      BY <1>1, <1>3, <1>5
    <3>. QED BY <2>2, <3>1 DEF PhaseOK
  <2>4. NothingLost'
    BY <1>2, <1>5, <2>2 DEF NothingLost
  <2>5. ContentExact' /\ ReturnedExact' /\ EffectsUndo'
    BY <1>8, <2>2, StillRunning DEF ContentExact
  <2>. QED BY <1>2, <1>6, <1>7, <2>1, <2>3, <2>4, <2>5
<1>. QED BY <1>9, <1>10 DEF Start

\* A claim puts ready items into the coordinator's hands.
LEMMA ClaimPlaces ==
  ASSUME PubInv, NEW limit \in Nat, Claim(limit), batch = {}, batch' = ready \ ready',
         phase # "done", UNCHANGED inputVars, UNCHANGED commitVars,
         UNCHANGED <<tasks, channel, inFlight, workers>>
  PROVE  /\ IInv' /\ UNCHANGED planVars
         /\ ItemsPlaced' /\ InPool' = InPool /\ SnapshotsCurrent' /\ RowsExact' /\ JournalExact'
         /\ batch' \in SUBSET Items /\ batch' # {}
         /\ Cardinality(batch') \in Nat /\ Cardinality(batch') <= limit
         /\ IsFiniteSet(batch')
         /\ \A i \in Items : state'[i] = "Running" => state[i] = "Running" \/ i \in batch'
<1>. USE DEF PubInv
<1>1. /\ IInv' /\ UNCHANGED planVars
      /\ batch' \in SUBSET Items
      /\ IsFiniteSet(batch') /\ Cardinality(batch') \in Nat
      /\ Cardinality(batch') <= limit /\ batch' # {}
      /\ \A i \in batch' : state[i] = "Pending"
      /\ state' = [i \in Items |-> IF i \in batch' THEN "Running" ELSE state[i]]
  BY ClaimWork
<1>2. rows' = rows /\ active' = active
  BY DEF commitVars
<1>3. InPool \in SUBSET Items /\ \A i \in InPool : state[i] = "Running"
  BY PoolFacts DEF ItemsPlaced
<1>4. batch' \cap InPool = {} /\ \A i \in batch' \cup InPool : state'[i] = "Running"
  BY <1>1, <1>3
<1>5. ItemsPlaced' /\ InPool' = InPool
  BY <1>2, <1>4, PlacementFrame
<1>6. SnapshotsCurrent'
  BY <1>1, <1>2, SnapshotsKept
<1>7. \A i \in Items : state'[i] = "Complete" <=> state[i] = "Complete"
  BY <1>1
<1>8. RowsExact' /\ JournalExact'
  BY <1>1, <1>7, ContentFrame DEF ContentExact, PubTypeOK
<1>. QED BY <1>1, <1>5, <1>6, <1>8

\* The serial loop claims one item, or ends when there is none.
LEMMA SerialClaimStep == ASSUME PubInv, SerialClaim PROVE PubInv'
<1>. USE DEF PubInv
<1>1. /\ phase = "serial" /\ UNCHANGED inputVars /\ UNCHANGED commitVars
      /\ UNCHANGED <<callVars, poolVars, ran, cancelFlag, cancelled, failure, claimedAny>>
  BY DEF SerialClaim
<1>2. /\ rows' = rows /\ active' = active /\ journal' = journal /\ published' = published
      /\ initialRows' = initialRows /\ initialActive' = initialActive /\ fault' = fault
      /\ parallelism' = parallelism
      /\ UNCHANGED <<effects, batches, workers, result, inFlight, tasks, channel, ran, cancelFlag,
                     cancelled, failure, claimedAny>>
  BY <1>1 DEF inputVars, commitVars, callVars, poolVars
<1>3. /\ batch = {} /\ inFlight = 0 /\ InPool = {} /\ ~cancelled /\ effects = {} /\ batches = 0
      /\ result.status = "Pending"
  BY <1>1, PoolFacts DEF PhaseOK
<1>4. CASE Claim(1) /\ batch' = ready \ ready' /\ phase' = "serial item"
  <2>1. /\ IInv' /\ ItemsPlaced' /\ InPool' = InPool /\ SnapshotsCurrent' /\ RowsExact' /\ JournalExact'
        /\ batch' \in SUBSET Items /\ batch' # {} /\ IsFiniteSet(batch')
        /\ Cardinality(batch') \in Nat /\ Cardinality(batch') <= 1
        /\ \A i \in Items : state'[i] = "Running" => state[i] = "Running" \/ i \in batch'
    BY <1>1, <1>2, <1>3, <1>4, ClaimPlaces
  <2>2. \E i \in Items : batch' = {i}
    <3>1. Cardinality(batch') # 0
      BY <2>1, FS_EmptySet
    <3>2. Cardinality(batch') = 1
      BY <2>1, <3>1
    <3>. QED BY <2>1, <3>2, FS_Singleton
  <2>3. PubTypeOK'
    BY <1>2, <1>4, <2>1 DEF PubTypeOK, Phases
  <2>4. PhaseOK'
    BY <1>2, <1>3, <1>4, <2>2 DEF PhaseOK
  <2>5. NothingLost'
    <3>1. ASSUME Untroubled', NEW i \in Items, state'[i] = "Running"
          PROVE  i \in batch' \cup InPool'
      <4>1. Untroubled
        BY <1>2, <3>1 DEF Untroubled
      <4>. QED BY <1>1, <1>3, <2>1, <3>1, <4>1 DEF NothingLost
    <3>. QED BY <1>4, <3>1 DEF NothingLost
  <2>6. ContentExact' /\ ReturnedExact' /\ EffectsUndo'
    BY <1>2, <1>3, <1>4, <2>1, StillRunning DEF ContentExact
  <2>. QED BY <2>1, <2>3, <2>4, <2>5, <2>6
<1>5. CASE EmptyClaim(1) /\ phase' = "resolve" /\ UNCHANGED batch
  <2>1. /\ IInv' /\ UNCHANGED planVars /\ UNCHANGED workVars
        /\ (\A i \in Items : state[i] # "Running") => pending = 0
    BY <1>5, EmptyClaimWork
  <2>2. state' = state /\ pending' = pending
    BY <2>1 DEF workVars
  <2>3. PubTypeOK'
    BY <1>2, <1>5 DEF PubTypeOK, Phases
  <2>4. ItemsPlaced' /\ InPool' = InPool
    BY <1>2, <1>3, <1>5, PlacementFrame
  <2>5. SnapshotsCurrent'
    BY <1>2, <1>3, <2>1, SnapshotsKept
  <2>6. PhaseOK'
    BY <1>2, <1>3, <1>5 DEF PhaseOK
  <2>7. NothingLost'
    <3>1. ASSUME Untroubled'
          PROVE  pending' = 0 /\ \A i \in Items : state'[i] # "Running"
      <4>1. Untroubled
        BY <1>2, <3>1 DEF Untroubled
      <4>2. \A i \in Items : state[i] # "Running"
        BY <1>1, <1>3, <4>1 DEF NothingLost
      <4>. QED BY <2>1, <2>2, <4>2
    <3>. QED BY <1>5, <3>1 DEF NothingLost
  <2>8. RowsExact' /\ JournalExact'
    BY <1>1, <2>1, <2>2, ContentFrame DEF ContentExact, PubTypeOK
  <2>9. ContentExact' /\ ReturnedExact' /\ EffectsUndo'
    BY <1>2, <1>3, <1>5, <2>8, StillRunning DEF ContentExact
  <2>. QED BY <2>1, <2>3, <2>4, <2>5, <2>6, <2>7, <2>9
<1>. QED BY <1>4, <1>5 DEF SerialClaim

\* An item that is not worth executing is completed and leaves the batch.
LEMMA SkipPlaces ==
  ASSUME PubInv, NEW item \in Items, SkipInactive(item), phase # "done"
  PROVE  /\ IInv' /\ UNCHANGED planVars /\ item \in batch /\ batch' = batch \ {item}
         /\ ItemsPlaced' /\ InPool' = InPool /\ SnapshotsCurrent' /\ RowsExact' /\ JournalExact'
         /\ \A i \in Items : state'[i] = "Running" => state[i] = "Running" /\ i # item
         /\ rows' = rows /\ active' = active /\ journal' = journal /\ published' = published
         /\ initialRows' = initialRows /\ initialActive' = initialActive /\ fault' = fault
         /\ parallelism' = parallelism
         /\ UNCHANGED <<effects, batches, workers, result, inFlight, tasks, channel, ran,
                        cancelFlag, cancelled, failure, claimedAny>>
<1>. USE DEF PubInv
<1>1. /\ item \in batch /\ item \notin active /\ batch' = batch \ {item} /\ Finish(item)
      /\ UNCHANGED inputVars /\ UNCHANGED commitVars
      /\ UNCHANGED <<callVars, poolVars, ran, cancelFlag, cancelled, failure, claimedAny>>
  BY DEF SkipInactive
<1>2. /\ rows' = rows /\ active' = active /\ journal' = journal /\ published' = published
      /\ initialRows' = initialRows /\ initialActive' = initialActive /\ fault' = fault
      /\ parallelism' = parallelism
      /\ UNCHANGED <<effects, batches, workers, result, inFlight, tasks, channel, ran, cancelFlag,
                     cancelled, failure, claimedAny>>
  BY <1>1 DEF inputVars, commitVars, callVars, poolVars
<1>3. /\ IInv' /\ UNCHANGED planVars /\ state[item] = "Running"
      /\ state' = [state EXCEPT ![item] = "Complete"]
  BY <1>1, FinishWork
<1>4. \A i \in Items : state'[i] = IF i = item THEN "Complete" ELSE state[i]
  BY <1>3 DEF IInv, TypeOK
<1>5. /\ batch \in SUBSET Items /\ InPool \in SUBSET Items /\ item \notin InPool
      /\ batch \cap InPool = {} /\ \A i \in batch \cup InPool : state[i] = "Running"
  BY <1>1, PoolFacts DEF ItemsPlaced, PubTypeOK
<1>6. batch' \cap InPool = {} /\ \A i \in batch' \cup InPool : state'[i] = "Running"
  BY <1>1, <1>4, <1>5
<1>7. ItemsPlaced' /\ InPool' = InPool
  BY <1>2, <1>6, PlacementFrame
<1>8. SnapshotsCurrent'
  BY <1>2, <1>3, SnapshotsKept
<1>9. RowsExact' /\ JournalExact'
  BY <1>1, <1>3, ContentSkip DEF ContentExact, PubTypeOK
<1>10. \A i \in Items : state'[i] = "Running" => state[i] = "Running" /\ i # item
  BY <1>4
<1>. QED BY <1>1, <1>2, <1>3, <1>7, <1>8, <1>9, <1>10

\* The serial loop skips its item.
LEMMA SerialSkipStep == ASSUME PubInv, NEW item \in Items, SerialSkip(item) PROVE PubInv'
<1>. USE DEF PubInv
<1>1. phase = "serial item" /\ SkipInactive(item) /\ phase' = "serial"
  BY DEF SerialSkip
<1>2. /\ IInv' /\ UNCHANGED planVars /\ item \in batch /\ batch' = batch \ {item}
      /\ ItemsPlaced' /\ InPool' = InPool /\ SnapshotsCurrent' /\ RowsExact' /\ JournalExact'
      /\ \A i \in Items : state'[i] = "Running" => state[i] = "Running" /\ i # item
      /\ rows' = rows /\ active' = active /\ journal' = journal /\ published' = published
      /\ initialRows' = initialRows /\ initialActive' = initialActive /\ fault' = fault
      /\ parallelism' = parallelism
      /\ UNCHANGED <<effects, batches, workers, result, inFlight, tasks, channel, ran,
                     cancelFlag, cancelled, failure, claimedAny>>
  BY <1>1, SkipPlaces
<1>3. /\ batch' = {} /\ ~cancelled' /\ inFlight' = 0 /\ effects' = {} /\ batches' = 0
      /\ result'.status = "Pending"
  BY <1>1, <1>2 DEF PhaseOK
<1>4. PubTypeOK'
  BY <1>1, <1>2 DEF PubTypeOK, Phases
<1>5. PhaseOK'
  BY <1>1, <1>3 DEF PhaseOK
<1>6. NothingLost'
  <2>1. ASSUME Untroubled', NEW i \in Items, state'[i] = "Running"
        PROVE  i \in batch' \cup InPool'
    <3>1. Untroubled
      BY <1>2, <2>1 DEF Untroubled
    <3>. QED BY <1>1, <1>2, <2>1, <3>1 DEF NothingLost
  <2>. QED BY <1>1, <2>1 DEF NothingLost
<1>7. ContentExact' /\ ReturnedExact' /\ EffectsUndo'
  BY <1>1, <1>2, <1>3, StillRunning DEF ContentExact
<1>. QED BY <1>2, <1>4, <1>5, <1>6, <1>7

\* The parallel loop skips an item of its batch.
LEMMA DispatchSkipStep == ASSUME PubInv, NEW item \in Items, DispatchSkip(item) PROVE PubInv'
<1>. USE DEF PubInv
<1>1. phase = "dispatch" /\ SkipInactive(item) /\ phase' = phase
  BY DEF DispatchSkip
<1>2. /\ IInv' /\ UNCHANGED planVars /\ item \in batch /\ batch' = batch \ {item}
      /\ ItemsPlaced' /\ InPool' = InPool /\ SnapshotsCurrent' /\ RowsExact' /\ JournalExact'
      /\ \A i \in Items : state'[i] = "Running" => state[i] = "Running" /\ i # item
      /\ rows' = rows /\ active' = active /\ journal' = journal /\ published' = published
      /\ initialRows' = initialRows /\ initialActive' = initialActive /\ fault' = fault
      /\ parallelism' = parallelism
      /\ UNCHANGED <<effects, batches, workers, result, inFlight, tasks, channel, ran,
                     cancelFlag, cancelled, failure, claimedAny>>
  BY <1>1, SkipPlaces
<1>3. /\ claimedAny /\ claimedAny' /\ workers' >= 2 /\ effects' = {} /\ batches' = 0
      /\ result'.status = "Pending"
  BY <1>1, <1>2 DEF PhaseOK
<1>4. PubTypeOK'
  BY <1>1, <1>2 DEF PubTypeOK
<1>5. inFlight' + Cardinality(batch') <= workers'
  <2>1. IsFiniteSet(batch) /\ Cardinality(batch) \in Nat
    BY PoolFacts, FS_CardinalityType
  <2>2. Cardinality(batch') = Cardinality(batch) - 1
    BY <1>2, <2>1, FS_RemoveElement
  <2>3. inFlight + Cardinality(batch) <= workers /\ inFlight \in Nat /\ workers \in Nat
    BY <1>1 DEF PhaseOK, PubTypeOK
  <2>. QED BY <1>2, <2>1, <2>2, <2>3
<1>6. PhaseOK'
  BY <1>1, <1>3, <1>5 DEF PhaseOK
<1>7. NothingLost'
  <2>1. ASSUME Untroubled', NEW i \in Items, state'[i] = "Running"
        PROVE  i \in batch' \cup InPool'
    <3>1. Untroubled
      BY <1>2, <2>1 DEF Untroubled
    <3>. QED BY <1>1, <1>2, <2>1, <3>1 DEF NothingLost
  <2>. QED BY <1>1, <1>3, <2>1 DEF NothingLost
<1>8. ContentExact' /\ ReturnedExact' /\ EffectsUndo'
  BY <1>1, <1>2, <1>3, StillRunning DEF ContentExact
<1>. QED BY <1>2, <1>4, <1>6, <1>7, <1>8

\* A cancelled serial loop returns at once.
LEMMA SerialCancelledStep == ASSUME PubInv, NEW item \in Items, SerialCancelled(item) PROVE PubInv'
<1>1. /\ phase = "serial item" /\ batch' = {} /\ Abort("Cancelled", -1)
      /\ UNCHANGED <<vars, inputVars, poolVars, cancelFlag, cancelled, failure, claimedAny>>
  BY DEF SerialCancelled
<1>2. ran' \in BOOLEAN
  BY DEF SerialCancelled
<1>3. inFlight = 0 /\ phase \notin {"building", "done"}
  BY <1>1 DEF PubInv, PhaseOK
<1>4. -1 \in Int /\ "Cancelled" \in {"Failed", "Panicked", "Cancelled"}
  OBVIOUS
<1>. QED BY <1>1, <1>2, <1>3, <1>4, AbortStep

\* The end of the call.
LEMMA ResolveStep == ASSUME PubInv, Resolve PROVE PubInv'
<1>1. /\ phase = "resolve"
      /\ UNCHANGED <<vars, inputVars, poolVars, ran, cancelFlag, cancelled, failure, batch,
                     claimedAny>>
      /\ UNCHANGED <<vars, inputVars, poolVars, cancelFlag, cancelled, failure, claimedAny>>
  BY DEF Resolve
<1>2. inFlight = 0 /\ batch' = {} /\ ran' \in BOOLEAN /\ phase \notin {"building", "done"}
  BY <1>1 DEF PubInv, PhaseOK, PubTypeOK
<1>3. CASE failure # NoFailure /\ Abort(failure.kind, failure.item)
  <2>1. failure \in Failures
    BY <1>3 DEF PubInv, PubTypeOK
  <2>2. failure.item \in Int
    <3>1. failure.item \in Items
      BY <2>1 DEF Failures
    <3>2. \A n \in Items : n \in Int
      BY ItemsAreNumbers
    <3>. QED BY <3>1, <3>2
  <2>3. failure.kind \in {"Failed", "Panicked", "Cancelled"}
    BY <2>1 DEF Failures
  <2>. QED BY <1>1, <1>2, <1>3, <2>2, <2>3, AbortStep
<1>4. CASE Abort("Cancelled", -1)
  <2>1. -1 \in Int /\ "Cancelled" \in {"Failed", "Panicked", "Cancelled"}
    OBVIOUS
  <2>. QED BY <1>1, <1>2, <1>4, <2>1, AbortStep
<1>5. CASE failure = NoFailure /\ ~cancelled /\ Succeed
  BY <1>1, <1>5, SucceedStep DEF Untroubled
<1>. QED BY <1>3, <1>4, <1>5 DEF Resolve

\* Publishing the answer of a claimed item on the rows as they are.
LEMMA PublishPlaces ==
  ASSUME PubInv, phase # "done", NEW item \in Items, item \in active, item \notin batch',
         NEW pool \in SUBSET InPool, item \notin pool, batch' \subseteq batch,
         item \in batch \cup InPool,
         PublishRows(item, Analyze(item, Snapshot(item))), Finish(item), UNCHANGED inputVars
  PROVE  /\ IInv' /\ UNCHANGED planVars /\ RowsExact' /\ JournalExact'
         /\ rows' \in [Rows -> Values] /\ journal' \in Seq(Entry)
         /\ active' \in SUBSET Items /\ published' \in SUBSET Items /\ active \subseteq active'
         /\ \A i \in batch' \cup pool : state'[i] = "Running"
         /\ \A i \in Items : state'[i] = "Running" => state[i] = "Running" /\ i # item
         /\ \A i \in pool : Snapshot(i)' = Snapshot(i)
<1>. USE DEF PubInv
<1>1. /\ IInv' /\ UNCHANGED planVars /\ state[item] = "Running"
      /\ state' = [state EXCEPT ![item] = "Complete"]
  BY FinishWork
<1>2. TypeOK /\ RowsExact /\ JournalExact
  BY DEF IInv, ContentExact
<1>3. Analyze(item, Snapshot(item)) \in [OwnedRows[item] -> Values]
  BY <1>2, ReadFacts, AnalyzeFacts
<1>4. /\ rows' \in [Rows -> Values] /\ journal' \in Seq(Entry)
      /\ active' \in SUBSET Items /\ published' \in SUBSET Items /\ active \subseteq active'
  BY <1>1, <1>2, <1>3, PublishTypes
<1>5. /\ RowsExact' /\ JournalExact'
      /\ \A i \in Items : i # item /\ state[i] \in {"Running", "Complete"} =>
            \A r \in ReadRows(i) : rows'[r] = rows[r]
  BY <1>1, <1>2, ContentPublish
<1>6. \A i \in Items : state'[i] = IF i = item THEN "Complete" ELSE state[i]
  BY <1>1, <1>2 DEF TypeOK
<1>7. \A i \in batch' \cup pool : i \in Items /\ i # item /\ state[i] = "Running"
  BY PoolFacts DEF ItemsPlaced, PubTypeOK
<1>8. \A i \in pool : Snapshot(i)' = Snapshot(i)
  BY <1>1, <1>5, <1>7, SnapshotFrame
<1>. QED BY <1>1, <1>4, <1>5, <1>6, <1>7, <1>8

\* The serial loop executes its item: a failure is retained, an answer
\* published.
LEMMA SerialRunStep == ASSUME PubInv, NEW item \in Items, SerialRun(item) PROVE PubInv'
<1>. USE DEF PubInv
<1>1. /\ phase = "serial item" /\ item \in batch /\ item \in active
      /\ batch' = {} /\ phase' = "serial" /\ UNCHANGED inputVars
      /\ UNCHANGED <<callVars, poolVars, cancelFlag, cancelled, claimedAny>>
  BY DEF SerialRun
<1>2. ran' \in BOOLEAN
  BY DEF SerialRun
<1>3. /\ initialRows' = initialRows /\ initialActive' = initialActive /\ fault' = fault
      /\ parallelism' = parallelism
      /\ UNCHANGED <<effects, batches, workers, result, inFlight, tasks, channel, cancelFlag,
                     cancelled, claimedAny>>
  BY <1>1 DEF inputVars, callVars, poolVars
<1>4. /\ inFlight = 0 /\ InPool = {} /\ ~cancelled /\ effects = {} /\ batches = 0
      /\ result.status = "Pending" /\ tasks = {} /\ channel = <<>> /\ batch = {item}
  BY <1>1, PoolFacts DEF PhaseOK
<1>5. SnapshotsCurrent'
  BY <1>3, <1>4 DEF SnapshotsCurrent
<1>6. PhaseOK'
  <2>1. ~cancelled' /\ inFlight' = 0 /\ effects' = {} /\ batches' = 0 /\ result'.status = "Pending"
    BY <1>3, <1>4
  <2>. QED BY <1>1, <2>1 DEF PhaseOK
<1>7. ReturnedExact' /\ EffectsUndo'
  BY <1>1, <1>3, <1>4, StillRunning
<1>8. CASE RetainStableFailure(item) /\ UNCHANGED <<vars, commitVars>>
  <2>1. UNCHANGED vars /\ UNCHANGED commitVars
    BY <1>8
  <2>2. IInv' /\ UNCHANGED planVars /\ state' = state /\ pending' = pending
    BY <2>1, IdleWork
  <2>3. failure' \in Failures /\ failure' # NoFailure
    BY <1>8, FailureRetained
  <2>4. rows' = rows /\ active' = active /\ journal' = journal /\ published' = published
    BY <2>1 DEF commitVars
  <2>5. PubTypeOK'
    BY <1>1, <1>2, <1>3, <2>3, <2>4 DEF PubTypeOK, Phases
  <2>6. ItemsPlaced' /\ InPool' = InPool
    BY <1>1, <1>3, <1>4, <2>4, PlacementFrame
  <2>7. NothingLost'
    BY <2>3 DEF NothingLost, Untroubled
  <2>8. RowsExact' /\ JournalExact'
    BY <1>1, <2>1, <2>2, ContentFrame DEF ContentExact, PubTypeOK
  <2>. QED BY <1>5, <1>6, <1>7, <2>2, <2>5, <2>6, <2>7, <2>8 DEF ContentExact
<1>9. CASE /\ PublishRows(item, Analyze(item, Snapshot(item))) /\ Finish(item)
           /\ UNCHANGED failure
  <2>1. /\ IInv' /\ UNCHANGED planVars /\ RowsExact' /\ JournalExact'
        /\ rows' \in [Rows -> Values] /\ journal' \in Seq(Entry)
        /\ active' \in SUBSET Items /\ published' \in SUBSET Items /\ active \subseteq active'
        /\ \A i \in Items : state'[i] = "Running" => state[i] = "Running" /\ i # item
    <3>1. {} \in SUBSET InPool /\ item \notin {} /\ item \notin batch' /\ batch' \subseteq batch
      BY <1>1
    <3>. QED BY <1>1, <1>9, <3>1, PublishPlaces
  <2>2. PubTypeOK'
    BY <1>1, <1>2, <1>3, <1>9, <2>1 DEF PubTypeOK, Phases
  <2>3. ItemsPlaced' /\ InPool' = InPool
    BY <1>1, <1>3, <1>4, <2>1, PlacementFrame
  <2>4. NothingLost'
    <3>1. ASSUME Untroubled', NEW i \in Items, state'[i] = "Running" PROVE FALSE
      <4>1. Untroubled
        BY <1>3, <1>9, <3>1 DEF Untroubled
      <4>2. i \in batch \cup InPool /\ i # item
        BY <1>1, <2>1, <3>1, <4>1 DEF NothingLost
      <4>. QED BY <1>4, <4>2
    <3>. QED BY <1>1, <3>1 DEF NothingLost
  <2>. QED BY <1>5, <1>6, <1>7, <2>1, <2>2, <2>3, <2>4 DEF ContentExact
<1>10. \/ RetainStableFailure(item) /\ UNCHANGED <<vars, commitVars>>
       \/ /\ PublishRows(item, Analyze(item, Snapshot(item))) /\ Finish(item)
          /\ UNCHANGED failure
  BY DEF SerialRun, Publish, Answer
<1>. QED BY <1>8, <1>9, <1>10

\* The top of the parallel loop.
LEMMA LoopTopStep == ASSUME PubInv, LoopTop PROVE PubInv'
<1>. USE DEF PubInv
<1>1. /\ phase = "top" /\ phase' = "dispatch" /\ UNCHANGED inputVars /\ UNCHANGED commitVars
      /\ UNCHANGED <<callVars, poolVars, ran, cancelFlag, failure>>
  BY DEF LoopTop
<1>2. cancelled' <=> cancelled \/ cancelFlag
  BY DEF LoopTop
<1>3. cancelled' \in BOOLEAN
  BY DEF LoopTop
<1>4. /\ rows' = rows /\ active' = active /\ journal' = journal /\ published' = published
      /\ initialRows' = initialRows /\ initialActive' = initialActive /\ fault' = fault
      /\ parallelism' = parallelism
      /\ UNCHANGED <<effects, batches, workers, result, inFlight, tasks, channel, ran, cancelFlag,
                     failure>>
  BY <1>1 DEF inputVars, commitVars, callVars, poolVars
<1>5. /\ batch = {} /\ workers >= 2 /\ effects = {} /\ batches = 0 /\ result.status = "Pending"
      /\ inFlight <= workers /\ inFlight \in Nat /\ workers \in Nat
  BY <1>1 DEF PhaseOK, ItemsPlaced, PubTypeOK
<1>6. ReturnedExact' /\ EffectsUndo'
  BY <1>1, <1>4, <1>5, StillRunning
<1>7. Untroubled' => Untroubled
  BY <1>2, <1>4 DEF Untroubled
<1>8. Available \in Nat /\ Available = workers - inFlight
  BY <1>5 DEF Available
<1>9. CASE Claim(Available) /\ batch' = ready \ ready' /\ claimedAny' = TRUE
  <2>1. /\ IInv' /\ ItemsPlaced' /\ InPool' = InPool /\ SnapshotsCurrent' /\ RowsExact' /\ JournalExact'
        /\ batch' \in SUBSET Items /\ batch' # {} /\ IsFiniteSet(batch')
        /\ Cardinality(batch') \in Nat /\ Cardinality(batch') <= Available
        /\ \A i \in Items : state'[i] = "Running" => state[i] = "Running" \/ i \in batch'
    BY <1>1, <1>4, <1>5, <1>8, <1>9, ClaimPlaces
  <2>2. claimedAny' \in BOOLEAN /\ claimedAny'
    BY <1>9
  <2>3. PubTypeOK'
    BY <1>1, <1>3, <1>4, <2>1, <2>2 DEF PubTypeOK, Phases
  <2>4. PhaseOK'
    <3>1. inFlight' + Cardinality(batch') <= workers' /\ workers' >= 2
      BY <1>4, <1>5, <1>8, <2>1
    <3>2. effects' = {} /\ batches' = 0 /\ result'.status = "Pending"
      BY <1>4, <1>5
    <3>. QED BY <1>1, <2>2, <3>1, <3>2 DEF PhaseOK
  <2>5. NothingLost'
    <3>1. ASSUME Untroubled', NEW i \in Items, state'[i] = "Running"
          PROVE  i \in batch' \cup InPool'
      BY <1>1, <1>5, <1>7, <2>1, <3>1 DEF NothingLost
    <3>. QED BY <1>1, <2>2, <3>1 DEF NothingLost
  <2>. QED BY <1>1, <1>6, <2>1, <2>3, <2>4, <2>5 DEF ContentExact
<1>10. ASSUME batch' = {}, claimedAny' = FALSE, IInv', UNCHANGED planVars, state' = state,
              pending' = pending, (Untroubled' /\ inFlight' = 0) => pending' = 0
       PROVE  PubInv'
  <2>1. claimedAny' \in BOOLEAN /\ ~claimedAny'
    BY <1>10
  <2>2. PubTypeOK'
    BY <1>1, <1>3, <1>4, <1>10, <2>1 DEF PubTypeOK, Phases
  <2>3. ItemsPlaced' /\ InPool' = InPool
    <3>1. batch' \cap InPool = {} /\ \A i \in batch' \cup InPool : state'[i] = "Running"
      BY <1>10 DEF ItemsPlaced
    <3>. QED BY <1>4, <3>1, PlacementFrame
  <2>4. SnapshotsCurrent'
    BY <1>4, <1>10, SnapshotsKept
  <2>5. PhaseOK'
    <3>1. inFlight' + Cardinality(batch') <= workers' /\ workers' >= 2
      BY <1>4, <1>5, <1>10, FS_EmptySet
    <3>2. effects' = {} /\ batches' = 0 /\ result'.status = "Pending" /\ batch' = {}
      BY <1>4, <1>5, <1>10
    <3>. QED BY <1>1, <3>1, <3>2 DEF PhaseOK
  <2>6. NothingLost'
    <3>1. ASSUME Untroubled', NEW i \in Items, state'[i] = "Running"
          PROVE  i \in batch' \cup InPool'
      BY <1>1, <1>5, <1>7, <1>10, <2>3, <3>1 DEF NothingLost
    <3>. QED BY <1>1, <1>10, <3>1 DEF NothingLost
  <2>7. RowsExact' /\ JournalExact'
    BY <1>1, <1>10, ContentFrame DEF ContentExact, PubTypeOK
  <2>. QED BY <1>1, <1>6, <1>10, <2>2, <2>3, <2>4, <2>5, <2>6, <2>7 DEF ContentExact
<1>11. CASE Available # 0 /\ EmptyClaim(Available) /\ batch' = {} /\ claimedAny' = FALSE
  <2>1. /\ IInv' /\ UNCHANGED planVars /\ UNCHANGED workVars
        /\ (\A i \in Items : state[i] # "Running") => pending = 0
    BY <1>11, EmptyClaimWork
  <2>2. state' = state /\ pending' = pending
    BY <2>1 DEF workVars
  <2>3. ASSUME Untroubled', inFlight' = 0 PROVE pending' = 0
    <3>1. InPool = {}
      BY <1>4, <2>3, PoolFacts
    <3>2. \A i \in Items : state[i] # "Running"
      BY <1>1, <1>5, <1>7, <2>3, <3>1 DEF NothingLost
    <3>. QED BY <2>1, <2>2, <3>2
  <2>. QED BY <1>10, <1>11, <2>1, <2>2, <2>3
<1>12. CASE /\ cancelled \/ cancelFlag \/ Available = 0
            /\ batch' = {} /\ claimedAny' = FALSE /\ UNCHANGED vars
  <2>1. IInv' /\ UNCHANGED planVars /\ state' = state /\ pending' = pending
    BY <1>12, IdleWork
  <2>2. ~(Untroubled' /\ inFlight' = 0)
    BY <1>2, <1>4, <1>5, <1>8, <1>12 DEF Untroubled
  <2>. QED BY <1>10, <1>12, <2>1, <2>2
<1>. QED BY <1>9, <1>11, <1>12 DEF LoopTop

\* The batch shrinks by the item that is dispatched.
LEMMA BatchShrinks ==
  ASSUME PubInv, phase = "dispatch", NEW item \in batch
  PROVE  /\ Cardinality(batch \ {item}) \in Nat
         /\ inFlight + 1 + Cardinality(batch \ {item}) <= workers
         /\ inFlight \in Nat /\ workers \in Nat /\ claimedAny /\ workers >= 2
         /\ effects = {} /\ batches = 0 /\ result.status = "Pending"
<1>. USE DEF PubInv
<1>1. IsFiniteSet(batch) /\ Cardinality(batch) \in Nat
  BY PoolFacts, FS_CardinalityType
<1>2. Cardinality(batch \ {item}) = Cardinality(batch) - 1 /\ IsFiniteSet(batch \ {item})
  BY <1>1, FS_RemoveElement
<1>3. Cardinality(batch \ {item}) \in Nat
  BY <1>2, FS_CardinalityType
<1>4. inFlight + Cardinality(batch) <= workers /\ inFlight \in Nat /\ workers \in Nat
  BY DEF PhaseOK, PubTypeOK
<1>5. claimedAny /\ workers >= 2 /\ effects = {} /\ batches = 0 /\ result.status = "Pending"
  BY DEF PhaseOK
<1>. QED BY <1>1, <1>2, <1>3, <1>4, <1>5

\* An item whose preparation fails stays claimed and its failure is retained.
LEMMA DispatchFailsStep == ASSUME PubInv, NEW item \in Items, DispatchFails(item) PROVE PubInv'
<1>. USE DEF PubInv
<1>1. /\ phase = "dispatch" /\ item \in batch /\ batch' = batch \ {item}
      /\ RetainStableFailure(item) /\ UNCHANGED vars /\ UNCHANGED inputVars /\ UNCHANGED commitVars
      /\ UNCHANGED <<callVars, poolVars, cancelFlag, cancelled, phase, claimedAny>>
  BY DEF DispatchFails, NextOfBatch
<1>2. ran' \in BOOLEAN
  BY DEF DispatchFails
<1>3. /\ rows' = rows /\ active' = active /\ journal' = journal /\ published' = published
      /\ initialRows' = initialRows /\ initialActive' = initialActive /\ fault' = fault
      /\ parallelism' = parallelism
      /\ UNCHANGED <<effects, batches, workers, result, inFlight, tasks, channel, cancelFlag,
                     cancelled, phase, claimedAny>>
  BY <1>1 DEF inputVars, commitVars, callVars, poolVars
<1>4. IInv' /\ UNCHANGED planVars /\ state' = state /\ pending' = pending
  BY <1>1, IdleWork
<1>5. failure' \in Failures /\ failure' # NoFailure
  BY <1>1, FailureRetained
<1>6. /\ Cardinality(batch') \in Nat /\ inFlight + 1 + Cardinality(batch') <= workers
      /\ inFlight \in Nat /\ workers \in Nat /\ claimedAny /\ workers >= 2
      /\ effects = {} /\ batches = 0 /\ result.status = "Pending"
  BY <1>1, BatchShrinks
<1>7. PubTypeOK'
  BY <1>1, <1>2, <1>3, <1>5 DEF PubTypeOK
<1>8. ItemsPlaced' /\ InPool' = InPool
  <2>1. batch' \cap InPool = {} /\ \A i \in batch' \cup InPool : state'[i] = "Running"
    BY <1>1, <1>4 DEF ItemsPlaced
  <2>. QED BY <1>3, <2>1, PlacementFrame
<1>9. SnapshotsCurrent'
  BY <1>3, <1>4, SnapshotsKept
<1>10. PhaseOK'
  <2>1. /\ phase' = "dispatch" /\ inFlight' + Cardinality(batch') <= workers' /\ workers' >= 2
        /\ effects' = {} /\ batches' = 0 /\ result'.status = "Pending" /\ claimedAny'
    BY <1>1, <1>3, <1>6
  <2>. QED BY <2>1 DEF PhaseOK
<1>11. NothingLost'
  BY <1>5 DEF NothingLost, Untroubled
<1>12. RowsExact' /\ JournalExact'
  BY <1>1, <1>4, ContentFrame DEF ContentExact, PubTypeOK
<1>13. ReturnedExact' /\ EffectsUndo'
  BY <1>1, <1>3, <1>6, StillRunning
<1>. QED BY <1>4, <1>7, <1>8, <1>9, <1>10, <1>11, <1>12, <1>13 DEF ContentExact

\* An item moves from the batch into the pool, with a snapshot of the rows as
\* they are.
LEMMA SpawnStep == ASSUME PubInv, NEW item \in Items, Spawn(item) PROVE PubInv'
<1>. USE DEF PubInv
<1>. DEFINE task == [item |-> item, input |-> Snapshot(item)]
<1>1. /\ phase = "dispatch" /\ item \in batch /\ item \in active /\ batch' = batch \ {item}
      /\ tasks' = tasks \cup {task} /\ inFlight' = inFlight + 1
      /\ UNCHANGED vars /\ UNCHANGED inputVars /\ UNCHANGED commitVars
      /\ UNCHANGED <<callVars, channel, cancelFlag, cancelled, failure, phase, claimedAny>>
  BY DEF Spawn, NextOfBatch
<1>2. ran' \in BOOLEAN
  BY DEF Spawn
<1>3. /\ rows' = rows /\ active' = active /\ journal' = journal /\ published' = published
      /\ initialRows' = initialRows /\ initialActive' = initialActive /\ fault' = fault
      /\ parallelism' = parallelism
      /\ UNCHANGED <<effects, batches, workers, result, channel, cancelFlag,
                     cancelled, failure, phase, claimedAny>>
  BY <1>1 DEF inputVars, commitVars, callVars
<1>4. IInv' /\ UNCHANGED planVars /\ state' = state /\ pending' = pending
  BY <1>1, IdleWork
<1>5. task \in Task
  BY ReadFacts DEF Task, IInv
<1>6. /\ Cardinality(batch') \in Nat /\ inFlight + 1 + Cardinality(batch') <= workers
      /\ inFlight \in Nat /\ workers \in Nat /\ claimedAny /\ workers >= 2
      /\ effects = {} /\ batches = 0 /\ result.status = "Pending"
  BY <1>1, BatchShrinks
<1>7. PubTypeOK'
  BY <1>1, <1>2, <1>3, <1>5, <1>6 DEF PubTypeOK
<1>8. /\ Analyzed' = Analyzed \cup {item} /\ Sent' = Sent /\ ToSet(Sent)' = ToSet(Sent)
      /\ InPool' = InPool \cup {item}
  <2>1. Analyzed' = Analyzed \cup {item}
    <3>1. task.item = item
      OBVIOUS
    <3>2. Analyzed' = {t.item : t \in tasks'}
      BY DEF Analyzed
    <3>. HIDE DEF task
    <3>. QED BY <1>1, <3>1, <3>2 DEF Analyzed
  <2>2. Sent' = Sent
    BY <1>3 DEF Sent
  <2>. QED BY <2>1, <2>2 DEF InPool
<1>9. /\ item \notin InPool /\ IsFiniteSet(InPool) /\ state[item] = "Running"
      /\ InPool \in SUBSET Items
  BY <1>1, PoolFacts DEF ItemsPlaced
<1>10. ItemsPlaced'
  <2>1. inFlight' = Cardinality(InPool') /\ inFlight' <= workers'
    <3>1. Cardinality(InPool \cup {item}) = Cardinality(InPool) + 1
      BY <1>9, FS_AddElement
    <3>2. inFlight = Cardinality(InPool) /\ workers' = workers
      BY <1>3 DEF ItemsPlaced
    <3>. QED BY <1>1, <1>6, <1>8, <3>1, <3>2
  <2>2. IsInjective(Sent)' /\ (Analyzed \cap ToSet(Sent) = {})' /\ (batch \cap InPool = {})'
    BY <1>1, <1>8, <1>9 DEF ItemsPlaced, InPool
  <2>3. (\A i \in batch \cup InPool : state[i] = "Running")' /\ (InPool \subseteq active)'
    BY <1>1, <1>3, <1>4, <1>8, <1>9 DEF ItemsPlaced
  <2>. QED BY <2>1, <2>2, <2>3 DEF ItemsPlaced
<1>11. SnapshotsCurrent'
  <2>1. \A i : Snapshot(i)' = Snapshot(i)
    BY <1>3, <1>4, SnapshotFrame
  <2>2. (\A t \in tasks : t.input = Snapshot(t.item))'
    BY <1>1, <2>1 DEF SnapshotsCurrent
  <2>3. (\A k \in DOMAIN channel :
            channel[k].rows = Analyze(channel[k].item, Snapshot(channel[k].item)))'
    BY <1>3, <2>1 DEF SnapshotsCurrent
  <2>. QED BY <2>2, <2>3 DEF SnapshotsCurrent
<1>12. PhaseOK'
  <2>1. /\ phase' = "dispatch" /\ inFlight' + Cardinality(batch') <= workers' /\ workers' >= 2
        /\ effects' = {} /\ batches' = 0 /\ result'.status = "Pending" /\ claimedAny'
    BY <1>1, <1>3, <1>6
  <2>. QED BY <2>1 DEF PhaseOK
<1>13. NothingLost'
  <2>1. ASSUME Untroubled', NEW i \in Items, state'[i] = "Running"
        PROVE  i \in batch' \cup InPool'
    <3>1. Untroubled
      BY <1>3, <2>1 DEF Untroubled
    <3>. QED BY <1>1, <1>4, <1>8, <2>1, <3>1 DEF NothingLost
  <2>2. claimedAny' /\ phase' = "dispatch"
    BY <1>1, <1>3, <1>6
  <2>. QED BY <2>1, <2>2 DEF NothingLost
<1>14. RowsExact' /\ JournalExact'
  BY <1>1, <1>4, ContentFrame DEF ContentExact, PubTypeOK
<1>15. ReturnedExact' /\ EffectsUndo'
  BY <1>1, <1>3, <1>6, StillRunning
<1>. QED BY <1>4, <1>7, <1>10, <1>11, <1>12, <1>13, <1>14, <1>15 DEF ContentExact

\* The batch is dispatched: wait for an answer, claim again, or leave.
LEMMA EndDispatchStep == ASSUME PubInv, EndDispatch PROVE PubInv'
<1>. USE DEF PubInv
<1>1. /\ phase = "dispatch" /\ batch = {} /\ phase' = AfterDispatch
      /\ UNCHANGED vars /\ UNCHANGED inputVars /\ UNCHANGED commitVars
      /\ UNCHANGED <<callVars, poolVars, ran, cancelFlag, cancelled, failure, batch, claimedAny>>
  BY DEF EndDispatch
<1>2. /\ rows' = rows /\ active' = active /\ journal' = journal /\ published' = published
      /\ initialRows' = initialRows /\ initialActive' = initialActive /\ fault' = fault
      /\ parallelism' = parallelism
      /\ UNCHANGED <<effects, batches, workers, result, inFlight, tasks, channel, ran, cancelFlag,
                     cancelled, failure, batch, claimedAny>>
  BY <1>1 DEF inputVars, commitVars, callVars, poolVars
<1>3. IInv' /\ UNCHANGED planVars /\ state' = state /\ pending' = pending
  BY <1>1, IdleWork
<1>4. /\ workers >= 2 /\ effects = {} /\ batches = 0 /\ result.status = "Pending"
      /\ inFlight \in Nat
  BY <1>1 DEF PhaseOK, PubTypeOK
<1>5. /\ phase' \in {"recv", "top", "resolve"} /\ (phase' = "recv" <=> inFlight # 0)
      /\ (phase' = "resolve" => inFlight = 0 /\ ~claimedAny)
  BY <1>1, <1>4 DEF AfterDispatch
<1>6. PubTypeOK'
  BY <1>2, <1>5 DEF PubTypeOK, Phases
<1>7. ItemsPlaced' /\ InPool' = InPool
  <2>1. batch' \cap InPool = {} /\ \A i \in batch' \cup InPool : state'[i] = "Running"
    BY <1>1, <1>2, <1>3 DEF ItemsPlaced
  <2>. QED BY <1>2, <2>1, PlacementFrame
<1>8. SnapshotsCurrent'
  BY <1>2, <1>3, SnapshotsKept
<1>9. PhaseOK'
  <2>1. /\ batch' = {} /\ inFlight' = inFlight /\ workers' >= 2
        /\ effects' = {} /\ batches' = 0 /\ result'.status = "Pending"
    BY <1>1, <1>2, <1>4
  <2>. QED BY <1>5, <2>1 DEF PhaseOK
<1>10. NothingLost'
  <2>1. ASSUME Untroubled' PROVE Untroubled
    BY <1>2, <2>1 DEF Untroubled
  <2>2. phase' = "resolve" /\ Untroubled' => pending' = 0
    BY <1>1, <1>3, <1>5, <2>1 DEF NothingLost
  <2>3. ASSUME Untroubled', NEW i \in Items, state'[i] = "Running"
        PROVE  i \in batch' \cup InPool'
    BY <1>1, <1>2, <1>3, <1>7, <2>1, <2>3 DEF NothingLost
  <2>. QED BY <1>5, <2>2, <2>3 DEF NothingLost
<1>11. RowsExact' /\ JournalExact'
  BY <1>1, <1>3, ContentFrame DEF ContentExact, PubTypeOK
<1>12. ReturnedExact' /\ EffectsUndo'
  BY <1>2, <1>4, <1>5, StillRunning
<1>. QED BY <1>3, <1>6, <1>7, <1>8, <1>9, <1>10, <1>11, <1>12 DEF ContentExact

\* An item moves from a worker into the channel, with the rows analyze gives
\* on its snapshot.
LEMMA WorkStep == ASSUME PubInv, NEW task \in tasks, Work(task) PROVE PubInv'
<1>. USE DEF PubInv
<1>. DEFINE item == task.item
            m == Answer(item, task.input)
<1>1. /\ tasks' = tasks \ {task} /\ channel' = Append(channel, m)
      /\ UNCHANGED vars /\ UNCHANGED inputVars /\ UNCHANGED commitVars
      /\ UNCHANGED <<callVars, inFlight, ran, cancelFlag, cancelled, failure, phase, batch,
                     claimedAny>>
  BY DEF Work
<1>2. /\ rows' = rows /\ active' = active /\ journal' = journal /\ published' = published
      /\ initialRows' = initialRows /\ initialActive' = initialActive /\ fault' = fault
      /\ parallelism' = parallelism
      /\ UNCHANGED <<effects, batches, workers, result, inFlight, ran, cancelFlag,
                     cancelled, failure, phase, batch, claimedAny>>
  BY <1>1 DEF inputVars, commitVars, callVars
<1>3. IInv' /\ UNCHANGED planVars /\ state' = state /\ pending' = pending
  BY <1>1, IdleWork
<1>4. task \in Task /\ item \in Items /\ task.input \in RowMaps /\ channel \in Seq(Message)
  BY DEF PubTypeOK, Task
<1>5. /\ m \in Message /\ m.item = item /\ m.rows = Analyze(item, task.input)
  <2>1. Analyze(item, task.input) \in RowMaps
    BY <1>4, AnalyzeFacts
  <2>2. m.item = item /\ m.rows = Analyze(item, task.input)
    BY DEF Answer
  <2>. QED BY <1>4, <2>1, <2>2 DEF Answer, Message
<1>6. task.input = Snapshot(item) /\ \A t \in tasks : t.item = item => t = task
  <2>1. \A t \in tasks : t = [item |-> t.item, input |-> Snapshot(t.item)]
    BY DEF PubTypeOK, Task, SnapshotsCurrent
  <2>. QED BY <2>1 DEF SnapshotsCurrent
<1>. HIDE DEF item, m
<1>7. /\ channel' \in Seq(Message) /\ Sent' = Append(Sent, item)
      /\ \A k \in 1..Len(channel') :
            channel'[k] = m \/ \E j \in 1..Len(channel) : channel'[k] = channel[j]
      /\ Sent \in Seq(Items) /\ DOMAIN channel = 1..Len(channel)
  BY <1>1, <1>4, <1>5, SentSend, SentFacts
<1>8. /\ Analyzed' = Analyzed \ {item} /\ item \in Analyzed
  <2>1. item \in Analyzed
    BY DEF Analyzed, item
  <2>2. Analyzed' = {t.item : t \in tasks'}
    BY DEF Analyzed
  <2>3. \A t \in tasks : t \in tasks' <=> t.item # item
    BY <1>1, <1>6 DEF item
  <2>. QED BY <1>1, <2>1, <2>2, <2>3 DEF Analyzed
<1>9. /\ item \notin ToSet(Sent) /\ ToSet(Sent)' = ToSet(Sent) \cup {item} /\ IsInjective(Sent)'
  <2>1. item \notin ToSet(Sent) /\ IsInjective(Sent)
    BY <1>8 DEF ItemsPlaced
  <2>. QED BY <1>4, <1>7, <2>1, ToSetAppend
<1>10. InPool' = InPool
  BY <1>8, <1>9 DEF InPool
<1>11. PubTypeOK'
  BY <1>1, <1>2, <1>7 DEF PubTypeOK
<1>12. ItemsPlaced'
  BY <1>2, <1>3, <1>8, <1>9, <1>10 DEF ItemsPlaced
<1>13. SnapshotsCurrent'
  <2>1. \A i : Snapshot(i)' = Snapshot(i)
    BY <1>2, <1>3, SnapshotFrame
  <2>2. (\A t \in tasks : t.input = Snapshot(t.item))'
    BY <1>1, <2>1 DEF SnapshotsCurrent
  <2>3. \A j \in 1..Len(channel) : channel[j].rows = Analyze(channel[j].item, Snapshot(channel[j].item))
    BY <1>7 DEF SnapshotsCurrent
  <2>4. m.rows = Analyze(m.item, Snapshot(m.item))
    BY <1>5, <1>6
  <2>5. \A k \in 1..Len(channel') : channel'[k].rows = Analyze(channel'[k].item, Snapshot(channel'[k].item))
    BY <1>7, <2>3, <2>4
  <2>6. DOMAIN channel' = 1..Len(channel')
    BY <1>7, LenProperties
  <2>7. (\A k \in DOMAIN channel :
            channel[k].rows = Analyze(channel[k].item, Snapshot(channel[k].item)))'
    BY <2>1, <2>5, <2>6
  <2>. QED BY <2>2, <2>7 DEF SnapshotsCurrent
<1>14. PhaseOK'
  <2>1. /\ phase' = phase /\ batch' = batch /\ inFlight' = inFlight /\ workers' = workers
        /\ failure' = failure /\ published' = published /\ state' = state /\ effects' = effects
        /\ batches' = batches /\ result' = result
        /\ (cancelled' <=> cancelled) /\ (claimedAny' <=> claimedAny)
    BY <1>2, <1>3
  <2>. QED BY <2>1 DEF PhaseOK
<1>15. NothingLost'
  BY <1>2, <1>3, <1>10 DEF NothingLost, Untroubled
<1>16. phase # "done"
  BY <1>8, PoolFacts DEF PhaseOK, InPool
<1>17. RowsExact' /\ JournalExact'
  BY <1>1, <1>3, <1>16, ContentFrame DEF ContentExact, PubTypeOK
<1>18. ReturnedExact' /\ EffectsUndo'
  BY <1>2, <1>16, StillRunning DEF PhaseOK
<1>. QED BY <1>3, <1>11, <1>12, <1>13, <1>14, <1>15, <1>17, <1>18 DEF ContentExact

\* The coordinator takes an answer: the item leaves the pool, its failure is
\* retained, its late answer dropped, or its rows published.
LEMMA ReceiveStep == ASSUME PubInv, Receive PROVE PubInv'
<1>. USE DEF PubInv
<1>. DEFINE item == Head(channel).item
<1>1. /\ phase = "recv" /\ channel # <<>> /\ channel' = Tail(channel)
      /\ inFlight' = inFlight - 1 /\ phase' = "top" /\ UNCHANGED inputVars
      /\ UNCHANGED <<callVars, tasks, ran, cancelFlag, batch, claimedAny>>
  BY DEF Receive
<1>2. (cancelled' <=> cancelled \/ cancelFlag) /\ cancelled' \in BOOLEAN
  BY DEF Receive
<1>3. /\ initialRows' = initialRows /\ initialActive' = initialActive /\ fault' = fault
      /\ parallelism' = parallelism
      /\ UNCHANGED <<effects, batches, workers, result, tasks, ran, cancelFlag, batch, claimedAny>>
  BY <1>1 DEF inputVars, callVars
<1>4. /\ channel \in Seq(Message) /\ channel' \in Seq(Message) /\ Sent' = Tail(Sent)
      /\ Sent # <<>> /\ Head(Sent) = item /\ Head(channel) \in Message
      /\ 1 \in 1..Len(channel) /\ Head(channel) = channel[1]
      /\ \A k \in 1..Len(channel') : k + 1 \in 1..Len(channel) /\ channel'[k] = channel[k + 1]
      /\ Sent \in Seq(Items) /\ DOMAIN channel = 1..Len(channel)
  BY <1>1, SentReceive, SentFacts DEF PubTypeOK
<1>5. item \in Items /\ Head(channel).rows = Analyze(item, Snapshot(item))
  BY <1>4 DEF Message, SnapshotsCurrent
<1>. HIDE DEF item
<1>6. /\ item \in ToSet(Sent) /\ ToSet(Sent) = ToSet(Sent)' \cup {item}
      /\ IsInjective(Sent)' /\ item \notin ToSet(Sent)'
  BY <1>4, ToSetTail DEF ItemsPlaced
<1>7. Analyzed' = Analyzed /\ item \notin Analyzed
  BY <1>3, <1>6 DEF Analyzed, ItemsPlaced
<1>8. /\ InPool = InPool' \cup {item} /\ item \notin InPool' /\ item \in InPool
      /\ InPool' = InPool \ {item}
  BY <1>6, <1>7 DEF InPool
<1>9. /\ batch = {} /\ batch' = {} /\ workers >= 2 /\ effects = {} /\ batches = 0
      /\ result.status = "Pending" /\ inFlight \in Nat /\ inFlight # 0 /\ inFlight <= workers
      /\ workers \in Nat
  BY <1>1, <1>3 DEF PhaseOK, PubTypeOK, ItemsPlaced
<1>10. inFlight' = Cardinality(InPool') /\ inFlight' \in Nat /\ inFlight' <= workers'
  <2>1. IsFiniteSet(InPool) /\ inFlight = Cardinality(InPool)
    BY PoolFacts DEF ItemsPlaced
  <2>2. Cardinality(InPool \ {item}) = Cardinality(InPool) - 1
    BY <1>8, <2>1, FS_RemoveElement
  <2>3. Cardinality(InPool') = inFlight - 1 /\ workers' = workers
    BY <1>3, <1>8, <2>1, <2>2
  <2>. QED BY <1>1, <1>9, <2>3
<1>11. PhaseOK'
  <2>1. /\ workers' >= 2 /\ effects' = {} /\ batches' = 0 /\ result'.status = "Pending"
    BY <1>3, <1>9
  <2>. QED BY <1>1, <1>9, <2>1 DEF PhaseOK
<1>12. ReturnedExact' /\ EffectsUndo'
  BY <1>1, <1>3, <1>9, StillRunning
<1>13. ASSUME active \subseteq active', \A i \in InPool' : state'[i] = "Running"
       PROVE  ItemsPlaced'
  <2>1. (Analyzed \cap ToSet(Sent) = {})'
    BY <1>6, <1>7 DEF ItemsPlaced
  <2>2. (InPool \subseteq active)'
    BY <1>8, <1>13 DEF ItemsPlaced
  <2>. QED BY <1>6, <1>9, <1>10, <1>13, <2>1, <2>2 DEF ItemsPlaced
<1>14. ASSUME \A i \in InPool' : Snapshot(i)' = Snapshot(i)
       PROVE  SnapshotsCurrent'
  <2>1. \A t \in tasks : t.item \in InPool' /\ t.input = Snapshot(t.item)
    BY <1>7 DEF InPool, Analyzed, SnapshotsCurrent
  <2>2. \A k \in 1..Len(channel') : channel'[k].item \in InPool'
    <3>1. ToSet(Sent)' = {channel'[k].item : k \in 1..Len(channel')}
      <4>1. Sent' \in Seq(Items) /\ Len(Sent') = Len(channel') /\ DOMAIN Sent' = 1..Len(channel')
        BY <1>4, HeadTailProperties, LenProperties DEF Sent
      <4>2. ToSet(Sent') = {Sent'[k] : k \in 1..Len(channel')}
        BY <4>1, ToSetByPosition
      <4>. QED BY <4>2 DEF Sent
    <3>. QED BY <3>1 DEF InPool
  <2>3. \A k \in 1..Len(channel') : channel'[k].rows = Analyze(channel'[k].item, Snapshot(channel'[k].item))
    BY <1>4 DEF SnapshotsCurrent
  <2>4. DOMAIN channel' = 1..Len(channel')
    BY <1>4, LenProperties
  <2>5. (\A t \in tasks : t.input = Snapshot(t.item))'
    BY <1>3, <1>14, <2>1
  <2>6. (\A k \in DOMAIN channel :
            channel[k].rows = Analyze(channel[k].item, Snapshot(channel[k].item)))'
    BY <1>14, <2>2, <2>3, <2>4
  <2>. QED BY <2>5, <2>6 DEF SnapshotsCurrent
<1>15. \A i \in InPool' : i \in InPool /\ i \in Items /\ state[i] = "Running" /\ i # item
  BY <1>8, PoolFacts DEF ItemsPlaced
<1>16. ASSUME UNCHANGED vars, UNCHANGED commitVars, failure' \in {NoFailure} \cup Failures,
              failure' # NoFailure \/ cancelled'
       PROVE  PubInv'
  <2>1. IInv' /\ UNCHANGED planVars /\ state' = state /\ pending' = pending
    BY <1>16, IdleWork
  <2>2. rows' = rows /\ active' = active /\ journal' = journal /\ published' = published
    BY <1>16 DEF commitVars
  <2>3. PubTypeOK'
    BY <1>1, <1>2, <1>3, <1>4, <1>10, <1>16, <2>2 DEF PubTypeOK, Phases
  <2>4. ItemsPlaced'
    BY <1>13, <1>15, <2>1, <2>2
  <2>5. SnapshotsCurrent'
    BY <1>14, <2>1, <2>2, SnapshotFrame
  <2>6. NothingLost'
    BY <1>16 DEF NothingLost, Untroubled
  <2>7. RowsExact' /\ JournalExact'
    BY <1>1, <1>16, <2>1, ContentFrame DEF ContentExact, PubTypeOK
  <2>. QED BY <1>11, <1>12, <2>1, <2>3, <2>4, <2>5, <2>6, <2>7 DEF ContentExact
<1>17. CASE RetainStableFailure(item) /\ UNCHANGED <<vars, commitVars>>
  BY <1>5, <1>16, <1>17, FailureRetained
<1>18. CASE cancelled' /\ UNCHANGED <<vars, commitVars, failure>>
  <2>1. failure' \in {NoFailure} \cup Failures
    BY <1>18 DEF PubTypeOK
  <2>. QED BY <1>16, <1>18, <2>1
<1>19. CASE /\ PublishRows(item, Analyze(item, Snapshot(item))) /\ Finish(item)
            /\ UNCHANGED failure
  <2>1. /\ IInv' /\ UNCHANGED planVars /\ RowsExact' /\ JournalExact'
        /\ rows' \in [Rows -> Values] /\ journal' \in Seq(Entry)
        /\ active' \in SUBSET Items /\ published' \in SUBSET Items /\ active \subseteq active'
        /\ \A i \in InPool' : state'[i] = "Running"
        /\ \A i \in Items : state'[i] = "Running" => state[i] = "Running" /\ i # item
        /\ \A i \in InPool' : Snapshot(i)' = Snapshot(i)
    <3>1. /\ InPool' \in SUBSET InPool /\ item \notin InPool' /\ item \notin batch'
          /\ batch' \subseteq batch /\ item \in active /\ item \in batch \cup InPool
          /\ phase # "done"
      BY <1>1, <1>8, <1>9 DEF ItemsPlaced
    <3>. QED BY <1>1, <1>5, <1>19, <3>1, PublishPlaces
  <2>2. PubTypeOK'
    BY <1>1, <1>2, <1>3, <1>4, <1>10, <1>19, <2>1 DEF PubTypeOK, Phases
  <2>3. ItemsPlaced' /\ SnapshotsCurrent'
    BY <1>13, <1>14, <2>1
  <2>4. NothingLost'
    <3>1. ASSUME Untroubled', NEW i \in Items, state'[i] = "Running" PROVE i \in InPool'
      <4>1. Untroubled
        BY <1>2, <1>19, <3>1 DEF Untroubled
      <4>2. i \in batch \cup InPool /\ i # item
        BY <1>1, <2>1, <3>1, <4>1 DEF NothingLost
      <4>. QED BY <1>8, <1>9, <4>2
    <3>. QED BY <1>1, <3>1 DEF NothingLost
  <2>. QED BY <1>11, <1>12, <2>1, <2>2, <2>3, <2>4 DEF ContentExact
<1>20. \/ RetainStableFailure(item) /\ UNCHANGED <<vars, commitVars>>
       \/ cancelled' /\ UNCHANGED <<vars, commitVars, failure>>
       \/ /\ PublishRows(item, Analyze(item, Snapshot(item))) /\ Finish(item)
          /\ UNCHANGED failure
  BY <1>5 DEF Receive, Settle, Publish, item
<1>. QED BY <1>17, <1>18, <1>19, <1>20

\* Every step keeps the invariant.
LEMMA PubNextInv == PubInv /\ [PubNext]_pubVars => PubInv'
<1>. SUFFICES ASSUME PubInv, [PubNext]_pubVars PROVE PubInv'
  OBVIOUS
<1>1. CASE \E item \in Items : ScheduleSeed(item)
  BY <1>1, ScheduleSeedStep
<1>2. CASE Start
  BY <1>2, StartStep
<1>3. CASE Cancel
  <2>1. cancelFlag' \in BOOLEAN
    BY <1>3 DEF Cancel
  <2>2. UNCHANGED <<vars, inputVars, commitVars, callVars, poolVars, ran, cancelled,
                    failure, phase, batch, claimedAny>>
    BY <1>3 DEF Cancel
  <2>. QED BY <2>1, <2>2, FlagStep
<1>4. CASE SerialClaim
  BY <1>4, SerialClaimStep
<1>5. CASE \E item \in Items : SerialSkip(item) \/ SerialCancelled(item) \/ SerialRun(item)
  BY <1>5, SerialSkipStep, SerialCancelledStep, SerialRunStep
<1>6. CASE LoopTop
  BY <1>6, LoopTopStep
<1>7. CASE \E item \in Items : DispatchSkip(item) \/ DispatchFails(item) \/ Spawn(item)
  BY <1>7, DispatchSkipStep, DispatchFailsStep, SpawnStep
<1>8. CASE EndDispatch
  BY <1>8, EndDispatchStep
<1>9. CASE Receive
  BY <1>9, ReceiveStep
<1>10. CASE Resolve
  BY <1>10, ResolveStep
<1>11. CASE \E task \in tasks : Work(task)
  BY <1>11, WorkStep
<1>12. CASE UNCHANGED pubVars
  <2>1. UNCHANGED <<vars, inputVars, commitVars, callVars, poolVars, ran, cancelled,
                    failure, phase, batch, claimedAny>>
    BY <1>12 DEF pubVars
  <2>2. cancelFlag' \in BOOLEAN
    BY <1>12 DEF pubVars, PubInv, PubTypeOK
  <2>. QED BY <2>1, <2>2, FlagStep
<1>13. CASE Returned
  BY <1>12, <1>13 DEF Returned
<1>. QED BY <1>1, <1>2, <1>3, <1>4, <1>5, <1>6, <1>7, <1>8, <1>9, <1>10, <1>11, <1>12, <1>13
     DEF PubNext, Coordinator

\* The invariant holds throughout.
LEMMA PubInvariance == PubSpec => []PubInv
BY PubInitInv, PubNextInv, PTL DEF PubSpec

-----------------------------------------------------------------------------
(***************************************************************************)
(* The results.                                                            *)
(***************************************************************************)

\* No row a worker read is replaced before its answer is published, for every
\* plan, ownership and worker count: the worklist's frontier rule keeps the
\* readers and the owner of a row from being claimed at the same time.
THEOREM PublicationSnapshotsCurrent == PubSpec => []SnapshotsCurrent
<1>1. PubInv => SnapshotsCurrent
  BY DEF PubInv
<1>. QED BY <1>1, PubInvariance, PTL

\* The coordinator's counter is exactly the spawned and unanswered analyses,
\* never above the worker count (so the bounded channel of answers never blocks
\* a worker), and no claim is lost or held twice.
THEOREM PublicationClaimsAccounted == PubSpec => []ClaimsAccounted
<1>1. ASSUME PubInv PROVE ClaimsAccounted
  <2>. USE <1>1 DEF PubInv
  <2>1. /\ channel \in Seq(Message) /\ Sent \in Seq(Items) /\ Len(Sent) = Len(channel)
        /\ Len(channel) \in Nat
        /\ ToSet(Sent) = {channel[k].item : k \in DOMAIN channel}
    BY SentFacts DEF PubTypeOK
  <2>2. Analyzed = {t.item : t \in tasks}
    BY DEF Analyzed
  <2>3. IsFiniteSet(ToSet(Sent)) /\ Cardinality(ToSet(Sent)) = Len(channel)
    BY <2>1, ToSetCardinality DEF ItemsPlaced
  <2>4. IsFiniteSet(Analyzed) /\ Cardinality(tasks) = Cardinality(Analyzed)
    <3>1. Analyzed \in SUBSET Items
      BY PoolFacts
    <3>. QED BY <3>1, TasksCount, ItemsAssumption, FS_Subset
  <2>5. Cardinality(Analyzed \cup ToSet(Sent)) = Cardinality(Analyzed) + Cardinality(ToSet(Sent))
    BY <2>3, <2>4, DisjointCardinality DEF ItemsPlaced
  <2>6. inFlight = Cardinality(Analyzed \cup ToSet(Sent))
    BY DEF ItemsPlaced, InPool
  <2>7. inFlight = Cardinality(tasks) + Len(channel)
    BY <2>3, <2>4, <2>5, <2>6
  <2>8. /\ inFlight <= workers
        /\ \A i \in batch \cup Analyzed \cup ToSet(Sent) : state[i] = "Running"
        /\ batch \cap (Analyzed \cup ToSet(Sent)) = {}
    BY DEF ItemsPlaced, InPool
  <2>9. phase = "recv" => inFlight # 0
    BY DEF PhaseOK
  <2>10. phase = "done" => tasks = {} /\ channel = <<>> /\ batch = {}
    BY PoolFacts DEF PhaseOK
  <2>. QED BY <2>1, <2>2, <2>6, <2>7, <2>8, <2>9, <2>10 DEF ClaimsAccounted
<1>. QED BY <1>1, PubInvariance, PTL

\* The effects a successful call hands out undo all of it, and an unsuccessful
\* call hands out none.
THEOREM PublicationEffectsUndo == PubSpec => []EffectsUndo
<1>1. PubInv => EffectsUndo
  BY DEF PubInv
<1>. QED BY <1>1, PubInvariance, PTL

\* A successful call left the only rows its inputs allow: whatever the worker
\* count and the order of the answers, two calls that succeed on the same
\* inputs leave the same rows, and every scheduled item is complete.
Determined ==
    result.status = "Ok" =>
        /\ \A i \in Items : state[i] \in {"Absent", "Complete"}
        /\ \A final \in [Rows -> Values] : IsOutcome(final) <=> final = rows

\* Worker count and completion order cannot change the rows of a success.
THEOREM PublicationDetermined == PubSpec => []Determined
<1>1. PubInv => Determined
  <2>. SUFFICES ASSUME PubInv, result.status = "Ok"
                PROVE  /\ \A i \in Items : state[i] \in {"Absent", "Complete"}
                       /\ \A final \in [Rows -> Values] : IsOutcome(final) <=> final = rows
    BY DEF Determined
  <2>. USE DEF PubInv
  <2>1. phase = "done"
    BY DEF PhaseOK
  <2>2. IsOutcome(rows) /\ \A i \in Items : state[i] \in {"Absent", "Complete"}
    BY <2>1 DEF ReturnedExact
  <2>3. TypeOK /\ rows \in [Rows -> Values]
    BY DEF IInv, PubTypeOK
  <2>. QED BY <2>2, <2>3, OutcomeUnique
<1>. QED BY <1>1, PubInvariance, PTL

-----------------------------------------------------------------------------
(***************************************************************************)
(* The call is atomic for its caller.                                      *)
(***************************************************************************)

\* After the return nothing the caller sees moves.
LEMMA ReturnedStays ==
  ASSUME PubInv, [PubNext]_pubVars, phase = "done"
  PROVE  phase' = "done" /\ rows' = rows /\ result' = result
<1>. USE DEF PubInv
<1>1. tasks = {}
  BY PoolFacts DEF PhaseOK
<1>2. Cancel \/ UNCHANGED pubVars
  <2>1. ~\E item \in Items : ScheduleSeed(item)
    BY DEF ScheduleSeed
  <2>2. ~Start /\ ~SerialClaim /\ ~LoopTop /\ ~EndDispatch /\ ~Receive /\ ~Resolve
    BY DEF Start, SerialClaim, LoopTop, EndDispatch, Receive, Resolve
  <2>3. ~\E item \in Items : SerialSkip(item) \/ SerialCancelled(item) \/ SerialRun(item)
    BY DEF SerialSkip, SerialCancelled, SerialRun
  <2>4. ~\E item \in Items : DispatchSkip(item) \/ DispatchFails(item) \/ Spawn(item)
    BY DEF DispatchSkip, DispatchFails, Spawn
  <2>. QED BY <1>1, <2>1, <2>2, <2>3, <2>4 DEF PubNext, Coordinator, Returned
<1>. QED BY <1>2 DEF Cancel, pubVars, commitVars, callVars

\* A step that returns a success is the success return.
LEMMA SuccessReturn ==
  ASSUME PubInv, [PubNext]_pubVars, phase # "done", phase' = "done", result'.status = "Ok"
  PROVE  rows' = rows /\ IsOutcome(rows)
<1>. USE DEF PubInv
<1>1. Resolve
  <2>1. ~\E item \in Items : ScheduleSeed(item)
    BY DEF ScheduleSeed
  <2>2. ~Start
    BY DEF Start
  <2>3. ~Cancel /\ ~SerialClaim /\ ~LoopTop /\ ~Receive
    BY DEF Cancel, SerialClaim, LoopTop, Receive
  <2>4. ~EndDispatch
    BY DEF EndDispatch, AfterDispatch
  <2>5. ~\E item \in Items : SerialSkip(item) \/ SerialCancelled(item) \/ SerialRun(item)
    <3>1. \A item \in Items : SerialCancelled(item) => Abort("Cancelled", -1)
      BY DEF SerialCancelled
    <3>2. ~Abort("Cancelled", -1)
      BY DEF Abort
    <3>3. \A item \in Items : SerialSkip(item) \/ SerialRun(item) => phase' = "serial"
      BY DEF SerialSkip, SerialRun
    <3>. QED BY <3>1, <3>2, <3>3
  <2>6. ~\E item \in Items : DispatchSkip(item) \/ DispatchFails(item) \/ Spawn(item)
    BY DEF DispatchSkip, DispatchFails, Spawn
  <2>7. ~\E task \in tasks : Work(task)
    BY DEF Work
  <2>8. ~Returned /\ ~UNCHANGED pubVars
    BY DEF Returned, pubVars
  <2>. QED BY <2>1, <2>2, <2>3, <2>4, <2>5, <2>6, <2>7, <2>8 DEF PubNext, Coordinator
<1>2. failure = NoFailure /\ ~cancelled /\ Succeed
  <2>1. ~Abort("Cancelled", -1)
    BY DEF Abort
  <2>2. failure # NoFailure => ~Abort(failure.kind, failure.item)
    <3>1. failure # NoFailure => failure \in Failures
      BY DEF PubTypeOK
    <3>2. failure # NoFailure => failure.kind # "Ok"
      BY <3>1 DEF Failures
    <3>. QED BY <3>2 DEF Abort
  <2>. QED BY <1>1, <2>1, <2>2 DEF Resolve
<1>3. /\ phase = "resolve"
      /\ UNCHANGED <<vars, inputVars, poolVars, ran, cancelFlag, cancelled, failure, batch,
                     claimedAny>>
  BY <1>1 DEF Resolve
<1>4. IsOutcome(rows)
  BY <1>2, <1>3, SucceedStep DEF Untroubled
<1>5. rows' = rows
  BY <1>2 DEF Succeed, commitVars
<1>. QED BY <1>4, <1>5

\* The caller's inputs never change.
LEMMA InputsFixed ==
  ASSUME [PubNext]_pubVars
  PROVE  initialRows' = initialRows
<1>1. (\E item \in Items : ScheduleSeed(item)) => UNCHANGED inputVars
  BY DEF ScheduleSeed
<1>2. Start \/ Cancel \/ SerialClaim \/ LoopTop \/ EndDispatch \/ Receive \/ Resolve => UNCHANGED inputVars
  BY DEF Start, Cancel, SerialClaim, LoopTop, EndDispatch, Receive, Resolve
<1>3. (\E item \in Items : SerialSkip(item) \/ SerialCancelled(item) \/ SerialRun(item)) => UNCHANGED inputVars
  BY DEF SerialSkip, SerialCancelled, SerialRun, SkipInactive
<1>4. (\E item \in Items : DispatchSkip(item) \/ DispatchFails(item) \/ Spawn(item)) => UNCHANGED inputVars
  BY DEF DispatchSkip, DispatchFails, Spawn, SkipInactive
<1>5. (\E task \in tasks : Work(task)) => UNCHANGED inputVars
  BY DEF Work
<1>6. UNCHANGED pubVars => UNCHANGED inputVars
  BY DEF pubVars
<1>7. UNCHANGED inputVars
  BY <1>1, <1>2, <1>3, <1>4, <1>5, <1>6 DEF PubNext, Coordinator, Returned
<1>. QED BY <1>7 DEF inputVars

\* Every step of the implementation is a commit, a failure or invisible to the
\* caller.
LEMMA AtomicStep ==
  ASSUME PubInv, PubInv', [PubNext]_pubVars
  PROVE  [Atomic!AtomicNext]_(Atomic!visible)
<1>. DEFINE arena == IF phase = "done" THEN rows ELSE initialRows
<1>1. initialRows' = initialRows
  BY InputsFixed
<1>2. CASE phase = "done"
  <2>1. phase' = "done" /\ rows' = rows /\ result' = result
    BY <1>2, ReturnedStays
  <2>. QED BY <1>2, <2>1 DEF Atomic!visible
<1>3. CASE phase # "done" /\ phase' # "done"
  <2>1. result.status = "Pending" /\ result'.status = "Pending"
    BY <1>3 DEF PubInv, PhaseOK
  <2>. QED BY <1>1, <1>3, <2>1 DEF Atomic!visible
<1>4. CASE phase # "done" /\ phase' = "done"
  <2>1. result.status = "Pending" /\ arena = initialRows /\ arena' = rows'
    BY <1>4 DEF PubInv, PhaseOK
  <2>2. CASE result'.status = "Ok"
    <3>1. rows' = rows /\ IsOutcome(rows) /\ rows \in [Rows -> Values]
      BY <1>4, <2>2, SuccessReturn DEF PubInv, PubTypeOK
    <3>2. arena' \in {final \in [Rows -> Values] : IsOutcome(final)}
      BY <2>1, <3>1
    <3>3. Atomic!Commit
      BY <2>1, <2>2, <3>2 DEF Atomic!Commit
    <3>. QED BY <3>3 DEF Atomic!AtomicNext
  <2>3. CASE result'.status # "Ok"
    <3>1. rows' = initialRows' /\ result'.status # "Pending"
      BY <1>4, <2>3 DEF PubInv, ReturnedExact
    <3>2. result'.status \in Statuses
      BY DEF PubInv, PubTypeOK
    <3>3. result'.status \in {"Failed", "Panicked", "Cancelled"}
      BY <2>3, <3>1, <3>2 DEF Statuses
    <3>4. Atomic!Fail
      BY <1>1, <2>1, <3>1, <3>3 DEF Atomic!Fail
    <3>. QED BY <3>4 DEF Atomic!AtomicNext
  <2>. QED BY <2>2, <2>3
<1>. QED BY <1>2, <1>3, <1>4

\* The concurrent publication implements the atomic one: the caller's rows are
\* replaced once, by an outcome of its inputs, or left as they were.
THEOREM PublicationImplementsAtomic == PubSpec => ImplementsAtomic
<1>1. PubInit => Atomic!AtomicInit
  <2>1. PubInit => result = NotReturned
    BY DEF PubInit
  <2>2. NotReturned.status = "Pending"
    BY DEF NotReturned
  <2>. QED BY <2>1, <2>2 DEF Atomic!AtomicInit
<1>2. PubInv /\ PubInv' /\ [PubNext]_pubVars => [Atomic!AtomicNext]_(Atomic!visible)
  BY AtomicStep
<1>. QED BY <1>1, <1>2, PubInvariance, PTL DEF PubSpec, ImplementsAtomic, Atomic!AtomicSpec

-----------------------------------------------------------------------------
(***************************************************************************)
(* The reference pass visits every item once, dependencies first.          *)
(***************************************************************************)

\* How many items the reference pass visits before an item.
Rank(i) == Cardinality({j \in Items : ReadyKey(j) < ReadyKey(i)})

\* The items among the first n the reference pass visits.
Visited(n) == {i \in Items : Rank(i) < n}

\* The rank is smaller than the number of items and grows with the key, so two
\* items never share a rank.
LEMMA RankFacts ==
  ASSUME TypeOK, NEW i \in Items
  PROVE  /\ Rank(i) \in 0..(Cardinality(Items) - 1)
         /\ \A j \in Items : ReadyKey(j) < ReadyKey(i) => Rank(j) < Rank(i)
         /\ \A j \in Items : Rank(j) = Rank(i) => j = i
<1>. DEFINE Before(k) == {j \in Items : ReadyKey(j) < ReadyKey(k)}
<1>1. \A k \in Items : ReadyKey(k) \in Nat
  BY ReadyKeyType
<1>2. \A k \in Items : Before(k) \in SUBSET Items /\ k \notin Before(k)
  BY <1>1
<1>3. \A k \in Items : IsFiniteSet(Before(k)) /\ Cardinality(Before(k)) \in Nat
                       /\ Cardinality(Before(k)) < Cardinality(Items)
  <2>. SUFFICES ASSUME NEW k \in Items
                PROVE  /\ IsFiniteSet(Before(k)) /\ Cardinality(Before(k)) \in Nat
                       /\ Cardinality(Before(k)) < Cardinality(Items)
    OBVIOUS
  <2>. HIDE DEF Before
  <2>. QED BY <1>2, ItemsAssumption, FS_Subset, FS_CardinalityType
<1>4. Cardinality(Items) \in Nat
  BY ItemsAssumption, FS_CardinalityType
<1>5. ASSUME NEW j \in Items, NEW k \in Items, ReadyKey(j) < ReadyKey(k) PROVE Rank(j) < Rank(k)
  <2>1. Before(j) \in SUBSET Before(k) /\ j \in Before(k) /\ j \notin Before(j)
    BY <1>1, <1>5
  <2>2. Rank(j) = Cardinality(Before(j)) /\ Rank(k) = Cardinality(Before(k))
    BY DEF Rank
  <2>. HIDE DEF Before
  <2>. QED BY <1>3, <2>1, <2>2, FS_Subset
<1>6. \A j \in Items : j # i => ReadyKey(j) # ReadyKey(i)
  BY LimitsAssumption, DirectionsAssumption DEF TypeOK, ValidPlan, ReadyKey
<1>7. Rank(i) \in 0..(Cardinality(Items) - 1) /\ \A j \in Items : Rank(j) \in Nat
  <2>1. \A k \in Items : Rank(k) = Cardinality(Before(k))
    BY DEF Rank
  <2>. HIDE DEF Before
  <2>. QED BY <1>3, <1>4, <2>1
<1>8. ASSUME NEW j \in Items, Rank(j) = Rank(i) PROVE j = i
  <2>1. ~(ReadyKey(j) < ReadyKey(i)) /\ ~(ReadyKey(i) < ReadyKey(j))
    BY <1>5, <1>7, <1>8
  <2>. QED BY <1>1, <1>6, <2>1
<1>. QED BY <1>5, <1>7, <1>8

\* Every rank below the number of items is some item's: the pass visits all.
LEMMA RankOnto ==
  ASSUME TypeOK, NEW n \in 0..(Cardinality(Items) - 1)
  PROVE  ItemAt(n) \in Items /\ Rank(ItemAt(n)) = n
<1>. DEFINE N == Cardinality(Items)
            f == [i \in Items |-> Rank(i)]
<1>1. N \in Nat
  BY ItemsAssumption, FS_CardinalityType
<1>2. IsFiniteSet(0..(N - 1)) /\ Cardinality(0..(N - 1)) = N
  BY <1>1, FS_Interval
<1>3. f \in Injection(Items, 0..(N - 1))
  <2>1. f \in [Items -> 0..(N - 1)]
    BY RankFacts
  <2>2. \A i, j \in Items : f[i] = f[j] => i = j
    BY RankFacts
  <2>. HIDE DEF f, N
  <2>. QED BY <2>1, <2>2 DEF Injection, IsInjective
<1>4. f \in Surjection(Items, 0..(N - 1))
  <2>. HIDE DEF f
  <2>. QED BY <1>2, <1>3, FS_Injection
<1>5. \E i \in Items : f[i] = n
  BY <1>4 DEF Surjection
<1>6. \E i \in Items : Cardinality({j \in Items : ReadyKey(j) < ReadyKey(i)}) = n
  BY <1>5 DEF Rank
<1>. QED BY <1>6 DEF ItemAt, Rank

\* A visit adds one item, whose dependencies were visited before it.
LEMMA VisitOrder ==
  ASSUME TypeOK, NEW n \in 1..Cardinality(Items)
  PROVE  LET item == ItemAt(n - 1)
         IN  /\ item \in Items /\ item \notin Visited(n - 1)
             /\ Visited(n) = Visited(n - 1) \cup {item}
             /\ \A i \in Visited(n) : EnabledDependencies(i) \subseteq Visited(n - 1)
<1>. DEFINE item == ItemAt(n - 1)
<1>1. Cardinality(Items) \in Nat
  BY ItemsAssumption, FS_CardinalityType
<1>2. item \in Items /\ Rank(item) = n - 1
  BY <1>1, RankOnto
<1>. HIDE DEF item
<1>3. \A i \in Items : Rank(i) \in Nat /\ (Rank(i) = n - 1 => i = item)
  BY <1>1, <1>2, RankFacts
<1>4. Visited(n) = Visited(n - 1) \cup {item} /\ item \notin Visited(n - 1)
  BY <1>2, <1>3 DEF Visited
<1>5. ASSUME NEW i \in Visited(n), NEW d \in EnabledDependencies(i) PROVE d \in Visited(n - 1)
  <2>1. i \in Items /\ Rank(i) < n
    BY DEF Visited
  <2>2. d \in Items /\ ReadyKey(d) < ReadyKey(i)
    BY <2>1, DependencyKey
  <2>3. Rank(d) < Rank(i)
    BY <2>1, <2>2, RankFacts
  <2>. QED BY <1>3, <2>1, <2>2, <2>3 DEF Visited
<1>. QED BY <1>2, <1>4, <1>5 DEF item

\* Before the first visit nothing is visited, after the last one everything.
LEMMA VisitedBounds ==
  ASSUME TypeOK
  PROVE  Cardinality(Items) \in Nat /\ Visited(0) = {} /\ Visited(Cardinality(Items)) = Items
<1>1. Cardinality(Items) \in Nat
  BY ItemsAssumption, FS_CardinalityType
<1>2. \A i \in Items : Rank(i) \in 0..(Cardinality(Items) - 1)
  BY RankFacts
<1>. QED BY <1>1, <1>2 DEF Visited

-----------------------------------------------------------------------------
(***************************************************************************)
(* What the reference pass computes.                                       *)
(***************************************************************************)

Passes == [rows : [Rows -> Values], active : SUBSET Items, failed : SUBSET Items,
           blocked : SUBSET Items, published : SUBSET Items, changedRows : SUBSET Rows]

FirstPass == [rows |-> initialRows, active |-> initialActive, failed |-> {},
              blocked |-> {}, published |-> {}, changedRows |-> {}]

\* An item behind a failure: a dependency failed or was not reached.
Held(p, i) == \E d \in EnabledDependencies(i) : d \in p.failed \cup p.blocked

\* An item that a pass is to execute.
Reached(p, i) == state[i] # "Absent" /\ ~Held(p, i) /\ i \in p.active

\* The visited items were each treated as their dependencies were: the
\* description of a pass without its order.
PassExact(p, D) ==
    /\ p.failed \subseteq D /\ p.blocked \subseteq D /\ p.published \subseteq D
    /\ \A r \in Rows : (\A i \in p.published : r \notin OwnedRows[i]) => p.rows[r] = initialRows[r]
    /\ p.active = {i \in Items : i \in initialActive
                                 \/ \E d \in EnabledDependencies(i) : Differs(p.rows, d)}
    /\ p.changedRows = {r \in Rows : p.rows[r] # initialRows[r]}
    /\ \A i \in D : i \in p.blocked <=> state[i] # "Absent" /\ Held(p, i)
    /\ \A i \in D : i \in p.failed <=> Reached(p, i) /\ fault[i] # "none"
    /\ \A i \in D : i \in p.published <=> Reached(p, i) /\ fault[i] = "none"
    /\ \A i \in p.published : \A r \in OwnedRows[i] : p.rows[r] = Analyze(i, Reads(p.rows, i))[r]

\* The pieces of a visit, named.
Seen(p, i) == [r \in ReadRows(i) |-> p.rows[r]]
Given(p, i) == Analyze(i, Seen(p, i))
Changes(p, i) == {r \in OwnedRows[i] : Given(p, i)[r] # p.rows[r]}
Written(p, i) == [r \in Rows |-> IF r \in OwnedRows[i] THEN Given(p, i)[r] ELSE p.rows[r]]

\* The five outcomes of a visit, with every piece of the pass it leaves.
LEMMA VisitCases ==
  ASSUME TypeOK, PubTypeOK, NEW p \in Passes, NEW i \in Items
  PROVE  /\ state[i] = "Absent" => Visit(p, i) = p
         /\ state[i] # "Absent" /\ Held(p, i) =>
               Visit(p, i) = [p EXCEPT !.blocked = p.blocked \cup {i}]
         /\ state[i] # "Absent" /\ ~Held(p, i) /\ i \notin p.active => Visit(p, i) = p
         /\ Reached(p, i) /\ fault[i] # "none" =>
               Visit(p, i) = [p EXCEPT !.failed = p.failed \cup {i}]
         /\ Reached(p, i) /\ fault[i] = "none" =>
               Visit(p, i) = [p EXCEPT !.rows = Written(p, i),
                                       !.published = p.published \cup {i},
                                       !.changedRows = p.changedRows \cup Changes(p, i),
                                       !.active = IF Changes(p, i) = {} THEN p.active
                                                  ELSE p.active \cup EnabledDependents(i)]
<1>. USE DEF Passes
<1>1. state[i] = "Absent" => Visit(p, i) = p
  BY DEF Visit
<1>2. state[i] # "Absent" /\ Held(p, i) =>
               Visit(p, i) = [p EXCEPT !.blocked = p.blocked \cup {i}]
  BY DEF Visit, Held
<1>3. state[i] # "Absent" /\ ~Held(p, i) /\ i \notin p.active => Visit(p, i) = p
  BY DEF Visit, Held
<1>4. Reached(p, i) /\ fault[i] # "none" =>
               Visit(p, i) = [p EXCEPT !.failed = p.failed \cup {i}]
  BY DEF Visit, Held, Reached
<1>5. Reached(p, i) /\ fault[i] = "none" =>
               Visit(p, i) = [p EXCEPT !.rows = Written(p, i),
                                       !.published = p.published \cup {i},
                                       !.changedRows = p.changedRows \cup Changes(p, i),
                                       !.active = IF Changes(p, i) = {} THEN p.active
                                                  ELSE p.active \cup EnabledDependents(i)]
  BY DEF Visit, Held, Reached, Written, Changes, Given, Seen
<1>. QED BY <1>1, <1>2, <1>3, <1>4, <1>5

\* What an item gives on the rows of a pass.
LEMMA GivenFacts ==
  ASSUME TypeOK, PubTypeOK, NEW p \in Passes, NEW i \in Items
  PROVE  /\ Given(p, i) \in [OwnedRows[i] -> Values] /\ OwnedRows[i] \in SUBSET Rows
         /\ Written(p, i) \in [Rows -> Values] /\ Changes(p, i) \in SUBSET Rows
<1>1. OwnedRows[i] \in SUBSET Rows /\ ReadRows(i) \in SUBSET Rows
  BY ReadFacts
<1>2. Seen(p, i) \in RowMaps
  BY <1>1 DEF Seen, RowMaps, Passes
<1>3. Given(p, i) \in [OwnedRows[i] -> Values]
  BY <1>2, AnalyzeFacts DEF Given
<1>. QED BY <1>1, <1>3 DEF Written, Changes, Passes

\* A visit keeps the pieces of a pass what they are.
LEMMA VisitType ==
  ASSUME TypeOK, PubTypeOK, NEW p \in Passes, NEW i \in Items
  PROVE  Visit(p, i) \in Passes
<1>1. EnabledDependents(i) \subseteq Items
  BY DependentsInArena
<1>2. /\ p.rows \in [Rows -> Values] /\ p.active \in SUBSET Items /\ p.failed \in SUBSET Items
      /\ p.blocked \in SUBSET Items /\ p.published \in SUBSET Items /\ p.changedRows \in SUBSET Rows
  BY DEF Passes
<1>3. Visit(p, i) = p \/ Visit(p, i) = [p EXCEPT !.blocked = p.blocked \cup {i}]
      \/ Visit(p, i) = [p EXCEPT !.failed = p.failed \cup {i}]
      \/ Visit(p, i) = [p EXCEPT !.rows = Written(p, i),
                                 !.published = p.published \cup {i},
                                 !.changedRows = p.changedRows \cup Changes(p, i),
                                 !.active = IF Changes(p, i) = {} THEN p.active
                                            ELSE p.active \cup EnabledDependents(i)]
  BY VisitCases DEF Reached
<1>4. Written(p, i) \in [Rows -> Values] /\ Changes(p, i) \in SUBSET Rows
  BY GivenFacts
<1>5. (p.changedRows \cup Changes(p, i)) \in SUBSET Rows /\ (p.published \cup {i}) \in SUBSET Items
      /\ (p.failed \cup {i}) \in SUBSET Items /\ (p.blocked \cup {i}) \in SUBSET Items
      /\ (IF Changes(p, i) = {} THEN p.active ELSE p.active \cup EnabledDependents(i)) \in SUBSET Items
  BY <1>1, <1>2, <1>4
<1>. QED BY <1>3, <1>4, <1>5 DEF Passes

\* A visit that touches no row keeps the description, for the items visited
\* so far and for the item it adds.
LEMMA VisitKeepsRows ==
  ASSUME TypeOK, PubTypeOK, NEW p \in Passes, NEW D \in SUBSET Items, NEW x \in Items,
         PassExact(p, D), x \notin D, \A i \in D \cup {x} : EnabledDependencies(i) \subseteq D,
         ~(Reached(p, x) /\ fault[x] = "none")
  PROVE  PassExact(Visit(p, x), D \cup {x})
<1>. DEFINE q == Visit(p, x)
<1>1. /\ p.failed \subseteq D /\ p.blocked \subseteq D /\ p.published \subseteq D
      /\ p.failed \in SUBSET Items /\ p.blocked \in SUBSET Items
  BY DEF PassExact
<1>2. q.rows = p.rows /\ q.active = p.active /\ q.published = p.published /\ q.changedRows = p.changedRows
  <2>1. \/ q = p \/ q = [p EXCEPT !.blocked = p.blocked \cup {x}]
        \/ q = [p EXCEPT !.failed = p.failed \cup {x}]
    BY VisitCases DEF Reached
  <2>. HIDE DEF q
  <2>. QED BY <2>1 DEF Passes
<1>3. /\ q.failed = IF Reached(p, x) /\ fault[x] # "none" THEN p.failed \cup {x} ELSE p.failed
      /\ q.blocked = IF state[x] # "Absent" /\ Held(p, x) THEN p.blocked \cup {x} ELSE p.blocked
  <2>1. \/ Reached(p, x) /\ fault[x] # "none" /\ q = [p EXCEPT !.failed = p.failed \cup {x}]
        \/ state[x] # "Absent" /\ Held(p, x) /\ q = [p EXCEPT !.blocked = p.blocked \cup {x}]
        \/ ~Reached(p, x) /\ ~(state[x] # "Absent" /\ Held(p, x)) /\ q = p
    BY VisitCases DEF Reached
  <2>2. ~(Reached(p, x) /\ state[x] # "Absent" /\ Held(p, x))
    BY DEF Reached
  <2>. HIDE DEF q
  <2>. QED BY <2>1, <2>2 DEF Passes
<1>. HIDE DEF q
<1>4. \A i \in D \cup {x} : Held(q, i) <=> Held(p, i)
  BY <1>3 DEF Held
<1>5. \A i \in D \cup {x} : Reached(q, i) <=> Reached(p, i)
  BY <1>2, <1>4 DEF Reached
<1>6. \A i \in D \cup {x} : i \in q.blocked <=> state[i] # "Absent" /\ Held(q, i)
  <2>1. \A i \in D : i \in q.blocked <=> i \in p.blocked
    BY <1>3
  <2>2. x \in q.blocked <=> state[x] # "Absent" /\ Held(p, x)
    BY <1>1, <1>3
  <2>. QED BY <1>4, <2>1, <2>2 DEF PassExact
<1>7. \A i \in D \cup {x} : i \in q.failed <=> Reached(q, i) /\ fault[i] # "none"
  <2>1. \A i \in D : i \in q.failed <=> i \in p.failed
    BY <1>3
  <2>2. x \in q.failed <=> Reached(p, x) /\ fault[x] # "none"
    BY <1>1, <1>3
  <2>. QED BY <1>5, <2>1, <2>2 DEF PassExact
<1>8. \A i \in D \cup {x} : i \in q.published <=> Reached(q, i) /\ fault[i] = "none"
  BY <1>1, <1>2, <1>5 DEF PassExact
<1>9. /\ q.failed \subseteq D \cup {x} /\ q.blocked \subseteq D \cup {x}
      /\ q.published \subseteq D \cup {x}
  BY <1>1, <1>2, <1>3
<1>10. /\ \A r \in Rows : (\A i \in q.published : r \notin OwnedRows[i]) => q.rows[r] = initialRows[r]
       /\ q.active = {i \in Items : i \in initialActive
                                    \/ \E d \in EnabledDependencies(i) : Differs(q.rows, d)}
       /\ q.changedRows = {r \in Rows : q.rows[r] # initialRows[r]}
       /\ \A i \in q.published : \A r \in OwnedRows[i] : q.rows[r] = Analyze(i, Reads(q.rows, i))[r]
  BY <1>2 DEF PassExact
<1>. QED BY <1>6, <1>7, <1>8, <1>9, <1>10 DEF PassExact, q

\* A visit that publishes: the rows of the item are as the caller gave them
\* until then, and no visited item reads them.
LEMMA VisitPublishes ==
  ASSUME TypeOK, PubTypeOK, NEW p \in Passes, NEW D \in SUBSET Items, NEW x \in Items,
         PassExact(p, D), x \notin D, \A i \in D \cup {x} : EnabledDependencies(i) \subseteq D,
         Reached(p, x), fault[x] = "none"
  PROVE  PassExact(Visit(p, x), D \cup {x})
<1>. DEFINE q == Visit(p, x)
<1>1. /\ p.failed \subseteq D /\ p.blocked \subseteq D /\ p.published \subseteq D
      /\ p.published \in SUBSET Items /\ x \notin p.published
      /\ p.rows \in [Rows -> Values]
  BY DEF PassExact, Passes
<1>2. /\ q.rows = Written(p, x) /\ q.published = p.published \cup {x}
      /\ q.changedRows = p.changedRows \cup Changes(p, x)
      /\ q.active = IF Changes(p, x) = {} THEN p.active ELSE p.active \cup EnabledDependents(x)
      /\ q.failed = p.failed /\ q.blocked = p.blocked
  <2>1. q = [p EXCEPT !.rows = Written(p, x),
                      !.published = p.published \cup {x},
                      !.changedRows = p.changedRows \cup Changes(p, x),
                      !.active = IF Changes(p, x) = {} THEN p.active
                                 ELSE p.active \cup EnabledDependents(x)]
    BY VisitCases
  <2>. HIDE DEF q
  <2>. QED BY <2>1 DEF Passes
<1>. HIDE DEF q
<1>3. /\ Given(p, x) \in [OwnedRows[x] -> Values]
      /\ \A i \in Items : OwnedRows[i] \in SUBSET Rows
  BY GivenFacts, ReadFacts
<1>4. \A i \in Items : i # x => OwnedRows[i] \cap OwnedRows[x] = {}
  BY OwnersDiffer
<1>5. /\ \A r \in OwnedRows[x] : q.rows[r] = Given(p, x)[r]
      /\ \A r \in Rows : r \notin OwnedRows[x] => q.rows[r] = p.rows[r]
  BY <1>2, <1>3 DEF Written
<1>6. \A r \in OwnedRows[x] : p.rows[r] = initialRows[r]
  <2>1. \A r \in OwnedRows[x] : r \in Rows /\ \A i \in p.published : r \notin OwnedRows[i]
    BY <1>1, <1>3, <1>4
  <2>. QED BY <2>1 DEF PassExact
<1>7. \A i \in Items : i # x => \A r \in OwnedRows[i] : q.rows[r] = p.rows[r]
  BY <1>3, <1>4, <1>5
<1>8. \A i \in D \cup {x} : i \in Items /\ \A d \in EnabledDependencies(i) : d \in Items /\ d # x
  BY DependencyKey
<1>9. \A i \in D \cup {x} : Reads(q.rows, i) = Reads(p.rows, i)
  <2>. SUFFICES ASSUME NEW i \in D \cup {x} PROVE Reads(q.rows, i) = Reads(p.rows, i)
    OBVIOUS
  <2>1. \A r \in ReadRows(i) : r \in OwnedRows[i] \/ q.rows[r] = p.rows[r]
    BY <1>7, <1>8 DEF ReadRows
  <2>. QED BY <2>1 DEF Reads
<1>10. Given(p, x) = Analyze(x, Reads(p.rows, x))
  <2>1. Seen(p, x) = Reads(p.rows, x)
    BY <1>6 DEF Seen, Reads
  <2>. QED BY <2>1 DEF Given
<1>11. \A d \in Items : d # x => (Differs(q.rows, d) <=> Differs(p.rows, d))
  BY <1>7 DEF Differs
<1>12. ~Differs(p.rows, x) /\ (Differs(q.rows, x) <=> Changes(p, x) # {})
  BY <1>5, <1>6 DEF Differs, Changes
<1>13. q.active = {i \in Items : i \in initialActive
                                 \/ \E d \in EnabledDependencies(i) : Differs(q.rows, d)}
  <2>1. p.active = {i \in Items : i \in initialActive
                                 \/ \E d \in EnabledDependencies(i) : Differs(p.rows, d)}
    BY DEF PassExact
  <2>2. \A i \in Items : (\E d \in EnabledDependencies(i) : Differs(q.rows, d))
           <=> (\E d \in EnabledDependencies(i) : Differs(p.rows, d))
               \/ (x \in EnabledDependencies(i) /\ Changes(p, x) # {})
    <3>. SUFFICES ASSUME NEW i \in Items
                  PROVE  (\E d \in EnabledDependencies(i) : Differs(q.rows, d))
           <=> (\E d \in EnabledDependencies(i) : Differs(p.rows, d))
               \/ (x \in EnabledDependencies(i) /\ Changes(p, x) # {})
      OBVIOUS
    <3>1. \A d \in EnabledDependencies(i) : d \in Items
      BY DependencyKey
    <3>. QED BY <1>11, <1>12, <3>1
  <2>3. \A i \in Items : i \in EnabledDependents(x) <=> x \in EnabledDependencies(i)
    BY EnabledConverse
  <2>4. EnabledDependents(x) \subseteq Items
    BY DependentsInArena
  <2>. QED BY <1>2, <2>1, <2>2, <2>3, <2>4
<1>14. \A i \in D \cup {x} : Reached(q, i) <=> Reached(p, i)
  <2>1. \A i \in D \cup {x} : i \in q.active <=> i \in p.active
    <3>1. \A i \in D \cup {x} : i \notin EnabledDependents(x)
      BY <1>8, EnabledConverse
    <3>. QED BY <1>2, <3>1
  <2>2. \A i \in D \cup {x} : Held(q, i) <=> Held(p, i)
    BY <1>2 DEF Held
  <2>. QED BY <2>1, <2>2 DEF Reached
<1>15. \A i \in D \cup {x} : i \in q.blocked <=> state[i] # "Absent" /\ Held(q, i)
  <2>1. \A i \in D \cup {x} : Held(q, i) <=> Held(p, i)
    BY <1>2 DEF Held
  <2>. QED BY <1>1, <1>2, <2>1 DEF PassExact, Reached
<1>16. \A i \in D \cup {x} : i \in q.failed <=> Reached(q, i) /\ fault[i] # "none"
  BY <1>1, <1>2, <1>14 DEF PassExact
<1>17. \A i \in D \cup {x} : i \in q.published <=> Reached(q, i) /\ fault[i] = "none"
  BY <1>1, <1>2, <1>14 DEF PassExact
<1>18. \A i \in q.published : \A r \in OwnedRows[i] : q.rows[r] = Analyze(i, Reads(q.rows, i))[r]
  <2>. SUFFICES ASSUME NEW i \in q.published, NEW r \in OwnedRows[i]
                PROVE  q.rows[r] = Analyze(i, Reads(q.rows, i))[r]
    OBVIOUS
  <2>1. i \in D \cup {x} /\ Reads(q.rows, i) = Reads(p.rows, i)
    BY <1>1, <1>2, <1>9
  <2>2. CASE i = x
    BY <1>5, <1>10, <2>1, <2>2
  <2>3. CASE i # x
    <3>1. i \in p.published /\ i \in Items
      BY <1>1, <1>2, <2>3
    <3>2. q.rows[r] = p.rows[r]
      BY <1>7, <2>3, <3>1
    <3>. QED BY <2>1, <3>1, <3>2 DEF PassExact
  <2>. QED BY <2>2, <2>3
<1>19. q.changedRows = {r \in Rows : q.rows[r] # initialRows[r]}
  <2>1. Changes(p, x) = {r \in OwnedRows[x] : q.rows[r] # initialRows[r]}
    BY <1>5, <1>6 DEF Changes
  <2>2. p.changedRows = {r \in Rows : p.rows[r] # initialRows[r]}
    BY DEF PassExact
  <2>. QED BY <1>2, <1>3, <1>5, <1>6, <2>1, <2>2
<1>20. \A r \in Rows : (\A i \in q.published : r \notin OwnedRows[i]) => q.rows[r] = initialRows[r]
  BY <1>2, <1>5 DEF PassExact
<1>21. /\ q.failed \subseteq D \cup {x} /\ q.blocked \subseteq D \cup {x}
       /\ q.published \subseteq D \cup {x}
  BY <1>1, <1>2
<1>. QED BY <1>13, <1>15, <1>16, <1>17, <1>18, <1>19, <1>20, <1>21 DEF PassExact, q

\* The recursive definition of the reference pass has a solution, so it is one.
LEMMA ReferenceSteps ==
  ASSUME TypeOK, PubTypeOK
  PROVE  \E pass : /\ Reference = pass[Cardinality(Items)] /\ pass[0] = FirstPass
                   /\ \A n \in 1..Cardinality(Items) : pass[n] = Visit(pass[n - 1], ItemAt(n - 1))
<1>. DEFINE N == Cardinality(Items)
            pass[n \in 0..N] ==
                IF n = 0
                THEN [rows |-> initialRows, active |-> initialActive, failed |-> {},
                      blocked |-> {}, published |-> {}, changedRows |-> {}]
                ELSE Visit(pass[n - 1], ItemAt(n - 1))
            step == [n \in 1..N |-> [p \in Passes |-> Visit(p, ItemAt(n - 1))]]
<1>1. N \in Nat
  BY VisitedBounds
<1>2. FirstPass \in Passes
  BY DEF FirstPass, Passes, PubTypeOK
<1>3. step \in [1..N -> [Passes -> Passes]]
  <2>1. ASSUME NEW n \in 1..N, NEW p \in Passes PROVE Visit(p, ItemAt(n - 1)) \in Passes
    BY <2>1, VisitOrder, VisitType
  <2>. QED BY <2>1
<1>4. PICK f \in [0..N -> Passes] : f[0] = FirstPass /\ \A n \in 1..N : f[n] = step[n][f[n - 1]]
  <2>. HIDE DEF step, N
  <2>1. IsRecursion(N, Passes, FirstPass, step)
    BY <1>1, <1>2, <1>3 DEF IsRecursion
  <2>2. Solutions(N, Passes, FirstPass, step) # {}
    BY <2>1, RecursionExists
  <2>. QED BY <2>2 DEF Solutions
<1>5. f = [n \in 0..N |-> IF n = 0 THEN FirstPass ELSE Visit(f[n - 1], ItemAt(n - 1))]
  <2>1. ASSUME NEW n \in 1..N PROVE f[n] = Visit(f[n - 1], ItemAt(n - 1))
    <3>1. f[n - 1] \in Passes
      BY <1>1, <1>4
    <3>. QED BY <1>4, <3>1
  <2>. HIDE DEF N
  <2>. QED BY <1>1, <1>4, <2>1
<1>6. pass = [n \in 0..N |-> IF n = 0 THEN FirstPass ELSE Visit(pass[n - 1], ItemAt(n - 1))]
  <2>1. pass = CHOOSE g : g = [n \in 0..N |-> IF n = 0 THEN FirstPass ELSE Visit(g[n - 1], ItemAt(n - 1))]
    BY DEF pass, FirstPass
  <2>. HIDE DEF pass
  <2>. QED BY <1>5, <2>1
<1>7. Reference = pass[N]
  BY DEF Reference
<1>. HIDE DEF pass, N
<1>8. pass[0] = FirstPass /\ \A n \in 1..N : pass[n] = Visit(pass[n - 1], ItemAt(n - 1))
  BY <1>1, <1>6
<1>. QED BY <1>7, <1>8 DEF N

\* The reference pass treats every item as its dependencies were treated.
LEMMA ReferenceExact ==
  ASSUME TypeOK, PubTypeOK
  PROVE  Reference \in Passes /\ PassExact(Reference, Items)
<1>. DEFINE N == Cardinality(Items)
<1>1. PICK pass : /\ Reference = pass[N] /\ pass[0] = FirstPass
                  /\ \A n \in 1..N : pass[n] = Visit(pass[n - 1], ItemAt(n - 1))
  BY ReferenceSteps
<1>. DEFINE S == {n \in 0..N : pass[n] \in Passes /\ PassExact(pass[n], Visited(n))}
<1>2. N \in Nat /\ Visited(0) = {} /\ Visited(N) = Items
  BY VisitedBounds
<1>3. 0 \in S
  <2>1. FirstPass \in Passes
    BY DEF FirstPass, Passes, PubTypeOK
  <2>2. PassExact(FirstPass, {})
    BY DEF PassExact, FirstPass, PubTypeOK, Differs
  <2>. QED BY <1>1, <1>2, <2>1, <2>2
<1>4. ASSUME NEW n \in 1..N, n - 1 \in S PROVE n \in S
  <2>. DEFINE p == pass[n - 1]
              x == ItemAt(n - 1)
  <2>1. p \in Passes /\ PassExact(p, Visited(n - 1))
    BY <1>4
  <2>2. /\ x \in Items /\ x \notin Visited(n - 1) /\ Visited(n) = Visited(n - 1) \cup {x}
        /\ \A i \in Visited(n) : EnabledDependencies(i) \subseteq Visited(n - 1)
    BY VisitOrder
  <2>3. Visited(n - 1) \in SUBSET Items
    BY DEF Visited
  <2>4. pass[n] = Visit(p, x)
    BY <1>1
  <2>. HIDE DEF p, x
  <2>5. Visit(p, x) \in Passes
    BY <2>1, <2>2, VisitType
  <2>6. PassExact(Visit(p, x), Visited(n - 1) \cup {x})
    BY <2>1, <2>2, <2>3, VisitKeepsRows, VisitPublishes
  <2>. QED BY <1>2, <2>2, <2>4, <2>5, <2>6
<1>5. 0..N \subseteq S
  <2>. HIDE DEF S, N
  <2>. QED BY <1>2, <1>3, <1>4, PositionInduction
<1>6. N \in S
  <2>. HIDE DEF S
  <2>. QED BY <1>2, <1>5
<1>. QED BY <1>1, <1>2, <1>6

-----------------------------------------------------------------------------
(***************************************************************************)
(* The run against the reference pass.                                     *)
(***************************************************************************)

\* A claimed item that no one will answer for: it failed.
Stuck == {i \in Items : state[i] = "Running" /\ i \notin batch \cup InPool}

\* What the workers hold and send: nothing whose prepare failed, and answers
\* that tell the faults of analyze.
PoolSound ==
    /\ \A i \in InPool : ~PrepareFails(i)
    /\ \A k \in 1..Len(channel) :
          channel[k].ok = TRUE <=> fault[channel[k].item] \notin {"analyze error", "analyze panic"}

\* The reported changes are those of the rows, and what is published had no
\* fault.
ChangesExact ==
    /\ changedRows = {r \in Rows : rows[r] # initialRows[r]}
    /\ changedItems = {i \in Items : Moved(i)}
    /\ \A i \in published : fault[i] = "none"

\* Without a cancellation the failed items are the faulty ones among those
\* claimed, and the least of them is retained.
FailuresExact ==
    /\ \A i \in Stuck : fault[i] # "none" /\ i \in active
    /\ failure = NoFailure => Stuck = {}
    /\ failure # NoFailure => /\ failure.item \in Stuck
                              /\ failure.kind = FailureKind(failure.item)
                              /\ \A i \in Stuck : failure.item <= i

\* Without a cancellation the loops end only when nothing is ready.
NothingReady ==
    /\ (~cancelled /\ phase = "dispatch" /\ ~claimedAny /\ inFlight = 0) => ready = {}
    /\ (~cancelled /\ phase = "resolve") => ready = {}

\* The failure that was returned is the least one of a pass.
ReturnsLeast(p) ==
    /\ result.item \in p.failed
    /\ \A i \in p.failed : result.item <= i
    /\ result.status = FailureKind(result.item)

RunInv ==
    /\ cancelled = TRUE => cancelFlag = TRUE
    /\ PoolSound
    /\ (phase # "done" \/ result.status = "Ok") => RowsExact /\ ChangesExact
    /\ (phase # "done" /\ cancelFlag = FALSE) => FailuresExact
    /\ NothingReady
    /\ (phase = "done" /\ result.status \in {"Failed", "Panicked"} /\ cancelFlag = FALSE) =>
          \A p \in Passes : PassExact(p, Items) => ReturnsLeast(p)

\* A pass and a run treat an item alike.
Agrees(p, i) ==
    /\ i \in p.failed <=> state[i] = "Running"
    /\ i \in p.blocked <=> state[i] = "Pending"
    /\ i \in p.published <=> i \in published
    /\ \A r \in OwnedRows[i] : p.rows[r] = rows[r]

\* When nothing is ready and what is claimed failed, the items whose
\* dependencies are treated alike are treated alike.
LEMMA AgreesNext ==
  ASSUME IInv, PubTypeOK, RowsExact, ChangesExact, ready = {},
         \A i \in Items : state[i] = "Running" => fault[i] # "none" /\ i \in active,
         NEW p \in Passes, PassExact(p, Items), NEW i \in Items,
         \A d \in EnabledDependencies(i) : d \in Items /\ Agrees(p, d)
  PROVE  Agrees(p, i)
<1>1. state \in [Items -> ItemState] /\ published \in SUBSET Items
  BY DEF IInv, TypeOK, PubTypeOK
<1>2. Held(p, i) <=> Outstanding(i) # {}
  <2>1. \A d \in EnabledDependencies(i) : d \in p.failed \cup p.blocked <=> state[d] \in {"Pending", "Running"}
    BY DEF Agrees
  <2>. QED BY <2>1 DEF Held, Outstanding
<1>3. i \in p.active <=> i \in active
  <2>1. \A d \in EnabledDependencies(i) : Differs(p.rows, d) <=> Moved(d)
    BY DEF Differs, Moved, Agrees
  <2>. QED BY <2>1 DEF PassExact, RowsExact
<1>4. Reads(p.rows, i) = InputOf(i)
  <2>1. \A r \in ReadRows(i) : r \in OwnedRows[i] \/ p.rows[r] = rows[r]
    BY DEF ReadRows, Agrees
  <2>. QED BY <2>1 DEF Reads, InputOf
<1>5. state[i] = "Pending" => Outstanding(i) # {}
  BY DEF IInv, ReadyExact
<1>6. state[i] \in {"Running", "Complete"} => Outstanding(i) = {}
  BY DEF IInv, NoEarlyRelease, Outstanding
<1>7. /\ i \in p.blocked <=> state[i] # "Absent" /\ Held(p, i)
      /\ i \in p.failed <=> Reached(p, i) /\ fault[i] # "none"
      /\ i \in p.published <=> Reached(p, i) /\ fault[i] = "none"
  BY DEF PassExact
<1>8. i \in published <=> state[i] = "Complete" /\ i \in active
  BY <1>1 DEF RowsExact
<1>9. i \in published => fault[i] = "none"
  BY DEF ChangesExact
<1>10. state[i] \in {"Absent", "Pending", "Running", "Complete"}
  BY <1>1 DEF ItemState
<1>11. /\ i \in p.failed <=> state[i] = "Running"
       /\ i \in p.blocked <=> state[i] = "Pending"
       /\ i \in p.published <=> i \in published
  BY <1>2, <1>3, <1>5, <1>6, <1>7, <1>8, <1>9, <1>10 DEF Reached
<1>12. ASSUME NEW r \in OwnedRows[i] PROVE p.rows[r] = rows[r]
  <2>1. CASE i \in published
    BY <1>4, <1>11, <2>1 DEF PassExact, RowsExact
  <2>2. CASE i \notin published
    <3>1. rows[r] = initialRows[r]
      BY <1>1, <2>2, UnpublishedRows
    <3>2. r \in Rows /\ \A j \in p.published : r \notin OwnedRows[j]
      BY <1>11, <2>2, OwnersDiffer, OwnershipAssumption DEF ValidOwnership, Passes
    <3>. QED BY <3>1, <3>2 DEF PassExact
  <2>. QED BY <2>1, <2>2
<1>. QED BY <1>11, <1>12 DEF Agrees

\* A run that has nothing left to claim did what a pass does.
LEMMA RunAgrees ==
  ASSUME IInv, PubTypeOK, RowsExact, ChangesExact, ready = {},
         \A i \in Items : state[i] = "Running" => fault[i] # "none" /\ i \in active,
         NEW p \in Passes, PassExact(p, Items)
  PROVE  /\ p.failed = {i \in Items : state[i] = "Running"}
         /\ p.published = published /\ p.rows = rows /\ p.changedRows = changedRows
<1>. DEFINE D == {i \in Items : ~Agrees(p, i)}
<1>1. ASSUME D # {} PROVE FALSE
  <2>1. PICK i \in D : \A j \in D : ReadyKey(i) <= ReadyKey(j)
    <3>1. D \in SUBSET Items /\ TypeOK
      BY DEF IInv
    <3>. HIDE DEF D
    <3>. QED BY <1>1, <3>1, LeastKeyExists
  <2>2. \A d \in EnabledDependencies(i) : d \in Items /\ Agrees(p, d)
    <3>. SUFFICES ASSUME NEW d \in EnabledDependencies(i) PROVE d \in Items /\ Agrees(p, d)
      OBVIOUS
    <3>1. d \in Items /\ ReadyKey(d) < ReadyKey(i)
      BY DependencyKey DEF IInv
    <3>2. ReadyKey(d) \in Nat /\ ReadyKey(i) \in Nat
      BY <3>1, ReadyKeyType DEF IInv
    <3>. QED BY <2>1, <3>1, <3>2
  <2>. QED BY <2>1, <2>2, AgreesNext
<1>2. \A i \in Items : Agrees(p, i)
  BY <1>1
<1>3. p.failed \in SUBSET Items /\ p.published \in SUBSET Items /\ published \in SUBSET Items
      /\ p.rows \in [Rows -> Values] /\ rows \in [Rows -> Values]
  BY DEF Passes, PubTypeOK
<1>4. p.failed = {i \in Items : state[i] = "Running"} /\ p.published = published
  BY <1>2, <1>3 DEF Agrees
<1>5. \A r \in Rows : p.rows[r] = rows[r]
  <2>. SUFFICES ASSUME NEW r \in Rows PROVE p.rows[r] = rows[r]
    OBVIOUS
  <2>1. CASE \E i \in Items : r \in OwnedRows[i]
    BY <1>2, <2>1 DEF Agrees
  <2>2. CASE ~\E i \in Items : r \in OwnedRows[i]
    BY <1>3, <2>2 DEF PassExact, RowsExact
  <2>. QED BY <2>1, <2>2
<1>6. p.rows = rows
  BY <1>3, <1>5
<1>. QED BY <1>4, <1>6 DEF PassExact, ChangesExact

\* A step within the call: what the invariant asks of it.
LEMMA RunGoesOn ==
  ASSUME PubInv', phase' # "done", cancelled' = TRUE => cancelFlag' = TRUE,
         PoolSound', ChangesExact', cancelFlag' = FALSE => FailuresExact', NothingReady'
  PROVE  RunInv'
<1>1. RowsExact'
  BY DEF PubInv, ContentExact
<1>. QED BY <1>1 DEF RunInv

\* The pool and what it holds.
LEMMA PoolSoundFrame ==
  ASSUME PoolSound, tasks' = tasks, channel' = channel, fault' = fault
  PROVE  PoolSound' /\ InPool' = InPool
<1>1. InPool' = InPool
  BY DEF InPool, Analyzed, Sent
<1>2. \A i : PrepareFails(i)' = PrepareFails(i)
  BY DEF PrepareFails
<1>. QED BY <1>1, <1>2 DEF PoolSound

\* A step that publishes nothing.
LEMMA ChangesFrame ==
  ASSUME ChangesExact, UNCHANGED commitVars, initialRows' = initialRows, fault' = fault
  PROVE  ChangesExact'
<1>1. /\ rows' = rows /\ published' = published /\ changedRows' = changedRows
      /\ changedItems' = changedItems
  BY DEF commitVars
<1>2. \A i : Moved(i)' = Moved(i)
  BY <1>1 DEF Moved
<1>. QED BY <1>1, <1>2 DEF ChangesExact

\* A publication reports the rows it changes, and its item if there are any.
LEMMA ChangesPublish ==
  ASSUME PubTypeOK, RowsExact, ChangesExact, NEW item \in Items, item \notin published,
         NEW output \in [OwnedRows[item] -> Values], PublishRows(item, output),
         fault[item] = "none", initialRows' = initialRows, fault' = fault
  PROVE  ChangesExact'
<1>. DEFINE changed == {r \in OwnedRows[item] : rows[r] # output[r]}
<1>1. /\ rows' = [r \in Rows |-> IF r \in OwnedRows[item] THEN output[r] ELSE rows[r]]
      /\ published' = published \cup {item}
      /\ changedRows' = changedRows \cup changed
      /\ changedItems' = IF changed = {} THEN changedItems ELSE changedItems \cup {item}
  BY DEF PublishRows
<1>2. published \in SUBSET Items /\ \A i \in Items : OwnedRows[i] \in SUBSET Rows
  BY OwnershipAssumption DEF ValidOwnership, PubTypeOK
<1>3. (\A r \in OwnedRows[item] : rows[r] = initialRows[r]) /\ ~Moved(item)
  BY <1>2, UnpublishedRows
<1>4. changed = {r \in OwnedRows[item] : output[r] # initialRows[r]}
  BY <1>3
<1>. HIDE DEF changed
<1>5. \A r \in Rows : rows'[r] = IF r \in OwnedRows[item] THEN output[r] ELSE rows[r]
  BY <1>1
<1>6. changedRows' = {r \in Rows : rows'[r] # initialRows[r]}
  BY <1>1, <1>2, <1>3, <1>4, <1>5 DEF ChangesExact
<1>7. \A i \in Items : i # item => (Moved(i)' <=> Moved(i))
  <2>1. \A i \in Items : i # item => \A r \in OwnedRows[i] : rows'[r] = rows[r]
    BY <1>2, <1>5, OwnersDiffer
  <2>. QED BY <2>1 DEF Moved
<1>8. Moved(item)' <=> changed # {}
  BY <1>2, <1>4, <1>5 DEF Moved
<1>9. changedItems = {i \in Items : Moved(i)}
  BY DEF ChangesExact
<1>10. changedItems' = {i \in Items : Moved(i)'}
  BY <1>1, <1>3, <1>7, <1>8, <1>9
<1>11. \A i \in published' : fault'[i] = "none"
  BY <1>1 DEF ChangesExact
<1>. QED BY <1>6, <1>10, <1>11 DEF ChangesExact

\* No item fails: the retained failure stays.
LEMMA FailuresKept ==
  ASSUME FailuresExact, Stuck' = Stuck, failure' = failure, fault' = fault, active \subseteq active'
  PROVE  FailuresExact'
<1>1. \A i : FailureKind(i)' = FailureKind(i)
  BY DEF FailureKind
<1>2. NoFailure' = NoFailure
  BY DEF NoFailure
<1>. QED BY <1>1, <1>2 DEF FailuresExact

\* One more item fails: the least of the failed items is still retained.
LEMMA FailureAdded ==
  ASSUME FailuresExact, NEW item \in Items, Stuck' = Stuck \cup {item}, fault' = fault,
         fault[item] # "none", item \in active, active' = active, RetainStableFailure(item)
  PROVE  FailuresExact'
<1>1. \A i : FailureKind(i)' = FailureKind(i)
  BY DEF FailureKind
<1>2. \A i \in Stuck : i \in Nat
  BY ItemsAreNumbers DEF Stuck
<1>3. item \in Nat
  BY ItemsAreNumbers
<1>4. \A i \in Stuck' : fault'[i] # "none" /\ i \in active'
  BY DEF FailuresExact
<1>5. CASE failure = NoFailure
  <2>1. Stuck' = {item} /\ failure' = [item |-> item, kind |-> FailureKind(item)]
    BY <1>5 DEF FailuresExact, RetainStableFailure
  <2>2. failure' # NoFailure /\ failure'.item = item /\ failure'.kind = FailureKind(item)
    BY <1>3, <2>1 DEF NoFailure
  <2>. QED BY <1>1, <1>3, <1>4, <2>1, <2>2 DEF FailuresExact
<1>6. CASE failure # NoFailure
  <2>1. /\ failure.item \in Stuck /\ failure.kind = FailureKind(failure.item)
        /\ \A i \in Stuck : failure.item <= i
    BY <1>6 DEF FailuresExact
  <2>2. CASE item < failure.item
    <3>1. failure' = [item |-> item, kind |-> FailureKind(item)]
      BY <2>2 DEF RetainStableFailure
    <3>2. failure' # NoFailure /\ failure'.item = item /\ failure'.kind = FailureKind(item)
      BY <1>3, <3>1 DEF NoFailure
    <3>3. \A i \in Stuck' : item <= i
      BY <1>2, <1>3, <2>1, <2>2
    <3>. QED BY <1>1, <1>4, <3>2, <3>3 DEF FailuresExact
  <2>3. CASE ~(item < failure.item)
    <3>1. failure' = failure
      BY <1>6, <2>3 DEF RetainStableFailure
    <3>2. \A i \in Stuck' : failure.item <= i
      BY <1>2, <1>3, <2>1, <2>3
    <3>. QED BY <1>1, <1>4, <1>6, <2>1, <3>1, <3>2 DEF FailuresExact
  <2>. QED BY <2>2, <2>3
<1>. QED BY <1>5, <1>6

\* What a pass is depends on the plan, the inputs and the scheduled items only.
LEMMA PassFrame ==
  ASSUME UNCHANGED planVars, UNCHANGED inputVars, state' = state, NEW p
  PROVE  PassExact(p, Items)' <=> PassExact(p, Items)
<1>1. initialRows' = initialRows /\ initialActive' = initialActive /\ fault' = fault
  BY DEF inputVars
<1>2. \A i : ReadRows(i)' = ReadRows(i) /\ EnabledDependencies(i)' = EnabledDependencies(i)
  BY ReadFrame
<1>3. \A i : /\ Held(p, i)' <=> Held(p, i)
             /\ Differs(p.rows, i)' <=> Differs(p.rows, i)
             /\ Reads(p.rows, i)' = Reads(p.rows, i)
  BY <1>1, <1>2 DEF Held, Differs, Reads
<1>4. \A i : Reached(p, i)' <=> Reached(p, i)
  BY <1>3 DEF Reached
<1>5. {i \in Items : i \in initialActive \/ \E d \in EnabledDependencies(i) : Differs(p.rows, d)}'
      = {i \in Items : i \in initialActive \/ \E d \in EnabledDependencies(i) : Differs(p.rows, d)}
  BY <1>1, <1>2, <1>3
<1>. QED BY <1>1, <1>3, <1>4, <1>5 DEF PassExact

\* After the return, and on steps that only raise the flag.
LEMMA RunIdle ==
  ASSUME PubInv, PubInv', RunInv, cancelFlag' \in BOOLEAN, cancelFlag = TRUE => cancelFlag' = TRUE,
         UNCHANGED <<vars, inputVars, commitVars, callVars, poolVars, ran, cancelled,
                     failure, phase, batch, claimedAny>>
  PROVE  RunInv'
<1>. USE DEF PubInv
<1>1. UNCHANGED vars /\ UNCHANGED inputVars /\ UNCHANGED commitVars
  OBVIOUS
<1>2. /\ initialRows' = initialRows /\ fault' = fault /\ active' = active /\ result' = result
      /\ UNCHANGED <<tasks, channel, inFlight, cancelled, failure, phase, batch, claimedAny>>
  BY DEF inputVars, commitVars, callVars, poolVars
<1>3. UNCHANGED planVars /\ state' = state /\ ready' = ready
  BY <1>1 DEF vars, planVars
<1>4. PoolSound' /\ InPool' = InPool /\ Stuck' = Stuck
  BY <1>2, <1>3, PoolSoundFrame DEF RunInv, Stuck
<1>5. cancelFlag' = FALSE => cancelFlag = FALSE
  BY DEF PubTypeOK
<1>6. (phase' # "done" \/ result'.status = "Ok") => RowsExact' /\ ChangesExact'
  <2>1. ASSUME RowsExact PROVE RowsExact'
    <3>1. /\ rows' = rows /\ active' = active /\ published' = published
          /\ initialRows' = initialRows /\ initialActive' = initialActive
      BY DEF inputVars, commitVars
    <3>2. \A i : /\ EnabledDependencies(i)' = EnabledDependencies(i) /\ InputOf(i)' = InputOf(i)
                 /\ Moved(i)' = Moved(i)
      BY <1>3, <3>1, ReadFrame, InputFrame DEF Moved
    <3>. QED BY <1>3, <2>1, <3>1, <3>2 DEF RowsExact
  <2>. QED BY <1>1, <1>2, <2>1, ChangesFrame DEF RunInv
<1>7. (phase' # "done" /\ cancelFlag' = FALSE) => FailuresExact'
  BY <1>2, <1>4, <1>5, FailuresKept DEF RunInv
<1>8. NothingReady'
  BY <1>2, <1>3 DEF RunInv, NothingReady
<1>9. ASSUME phase' = "done", result'.status \in {"Failed", "Panicked"}, cancelFlag' = FALSE,
             NEW p \in Passes, PassExact(p, Items)'
      PROVE  ReturnsLeast(p)'
  <2>1. PassExact(p, Items)
    BY <1>1, <1>3, <1>9, PassFrame
  <2>2. ReturnsLeast(p)
    BY <1>2, <1>5, <1>9, <2>1 DEF RunInv
  <2>. QED BY <1>2, <2>2 DEF ReturnsLeast, FailureKind
<1>10. cancelled' = TRUE => cancelFlag' = TRUE
  BY <1>2 DEF RunInv
<1>11. Passes' = Passes
  BY DEF Passes
<1>. QED BY <1>4, <1>6, <1>7, <1>8, <1>9, <1>10, <1>11 DEF RunInv

\* The call starts with nothing claimed.
LEMMA RunInit == ASSUME PubInit, PubInv PROVE RunInv
<1>. USE DEF PubInv
<1>1. /\ phase = "building" /\ tasks = {} /\ channel = <<>> /\ failure = NoFailure
      /\ cancelled = FALSE /\ published = {} /\ changedItems = {} /\ changedRows = {}
      /\ rows = initialRows /\ state = [i \in Items |-> "Absent"]
  BY DEF PubInit, Init
<1>2. InPool = {}
  BY <1>1, PoolFacts DEF PhaseOK
<1>3. 1..Len(channel) = {}
  BY <1>1
<1>4. PoolSound
  BY <1>2, <1>3 DEF PoolSound
<1>5. RowsExact
  BY <1>1 DEF ContentExact
<1>6. ChangesExact
  BY <1>1 DEF ChangesExact, Moved
<1>7. Stuck = {}
  BY <1>1 DEF Stuck
<1>8. FailuresExact
  BY <1>1, <1>7 DEF FailuresExact
<1>9. NothingReady
  BY <1>1 DEF NothingReady
<1>. QED BY <1>1, <1>4, <1>5, <1>6, <1>8, <1>9 DEF RunInv

\* A seed is pending, not claimed, so nothing fails by scheduling it.
LEMMA RunScheduleSeed ==
  ASSUME PubInv, PubInv', RunInv, NEW item \in Items, ScheduleSeed(item)
  PROVE  RunInv'
<1>. USE DEF PubInv
<1>1. /\ phase = "building" /\ state[item] = "Absent" /\ Schedule(item)
      /\ UNCHANGED inputVars /\ UNCHANGED commitVars /\ UNCHANGED poolVars
      /\ UNCHANGED <<cancelFlag, cancelled, failure, phase, batch>>
  BY DEF ScheduleSeed
<1>2. /\ initialRows' = initialRows /\ fault' = fault /\ active' = active
      /\ tasks' = tasks /\ channel' = channel
  BY <1>1 DEF inputVars, commitVars, poolVars
<1>3. state' = [state EXCEPT ![item] = "Pending"] /\ state \in [Items -> ItemState]
  BY <1>1, ScheduleWork DEF IInv, TypeOK
<1>4. PoolSound' /\ InPool' = InPool
  BY <1>2, PoolSoundFrame DEF RunInv
<1>5. \A i \in Items : state'[i] = "Running" <=> state[i] = "Running"
  BY <1>1, <1>3
<1>6. Stuck' = Stuck
  BY <1>1, <1>4, <1>5 DEF Stuck
<1>7. ChangesExact'
  BY <1>1, <1>2, ChangesFrame DEF RunInv
<1>8. cancelFlag' = FALSE => FailuresExact'
  BY <1>1, <1>2, <1>6, FailuresKept DEF RunInv
<1>9. NothingReady' /\ phase' # "done" /\ (cancelled' = TRUE => cancelFlag' = TRUE)
  BY <1>1 DEF NothingReady, RunInv
<1>. QED BY <1>4, <1>7, <1>8, <1>9, RunGoesOn

\* A call that was cancelled at once, or in the serial loop, says nothing of a
\* failure.
LEMMA RunCancelled ==
  ASSUME PubInv', RunInv, phase' = "done", result'.status = "Cancelled",
         tasks' = tasks, channel' = channel, fault' = fault,
         cancelled' = cancelled, cancelFlag' = cancelFlag
  PROVE  RunInv'
<1>1. PoolSound'
  BY PoolSoundFrame DEF RunInv
<1>2. NothingReady'
  BY DEF NothingReady
<1>. QED BY <1>1, <1>2 DEF RunInv

\* The prologue changes no row and claims nothing.
LEMMA RunStart == ASSUME PubInv, PubInv', RunInv, Start PROVE RunInv'
<1>. USE DEF PubInv
<1>1. /\ phase = "building" /\ UNCHANGED vars /\ UNCHANGED inputVars /\ UNCHANGED commitVars
      /\ UNCHANGED poolVars /\ UNCHANGED <<cancelFlag, cancelled, failure, batch>>
  BY DEF Start
<1>2. /\ initialRows' = initialRows /\ fault' = fault /\ active' = active
      /\ tasks' = tasks /\ channel' = channel /\ state' = state
  BY <1>1 DEF inputVars, commitVars, poolVars, vars
<1>3. CASE cancelFlag
  <2>1. result' = [status |-> "Cancelled", item |-> -1] /\ phase' = "done"
    BY <1>3 DEF Start
  <2>. QED BY <1>1, <1>2, <2>1, RunCancelled
<1>4. CASE ~cancelFlag
  <2>1. phase' \in {"serial", "top"}
    BY <1>4 DEF Start
  <2>2. PoolSound' /\ InPool' = InPool
    BY <1>2, PoolSoundFrame DEF RunInv
  <2>3. Stuck' = Stuck
    BY <1>1, <1>2, <2>2 DEF Stuck
  <2>4. ChangesExact'
    BY <1>1, <1>2, ChangesFrame DEF RunInv
  <2>5. cancelFlag' = FALSE => FailuresExact'
    BY <1>1, <1>2, <2>3, FailuresKept DEF RunInv
  <2>6. NothingReady' /\ phase' # "done" /\ (cancelled' = TRUE => cancelFlag' = TRUE)
    BY <1>1, <2>1 DEF NothingReady, RunInv
  <2>. QED BY <2>2, <2>4, <2>5, <2>6, RunGoesOn
<1>. QED BY <1>3, <1>4

\* A claim moves items from the ready set into the batch: none of them failed.
LEMMA ClaimStuck ==
  ASSUME PubInv, NEW limit \in Nat, Claim(limit), batch = {}, batch' = ready \ ready',
         InPool' = InPool
  PROVE  Stuck' = Stuck
<1>. USE DEF PubInv
<1>1. /\ \A i \in batch' : state[i] = "Pending"
      /\ state' = [i \in Items |-> IF i \in batch' THEN "Running" ELSE state[i]]
  BY ClaimWork
<1>2. \A i \in Items : state'[i] = "Running" /\ i \notin batch' <=> state[i] = "Running"
  BY <1>1
<1>. QED BY <1>2 DEF Stuck

\* An empty claim that was asked for something found nothing ready.
LEMMA EmptyClaimReady ==
  ASSUME IInv, NEW limit, limit # 0, EmptyClaim(limit)
  PROVE  state' = state /\ ready' = ready /\ ready' = {}
<1>1. state' = state /\ ready' = ready /\ (pending = 0 \/ ready = {})
  BY DEF EmptyClaim, workVars
<1>2. pending = 0 => ready = {}
  <2>1. pending = 0 => \A i \in Items : state[i] \in {"Absent", "Complete"}
    BY NonePending
  <2>. QED BY <2>1 DEF IInv, ReadyExact
<1>. QED BY <1>1, <1>2

\* The serial loop leaves only when its claim found nothing ready.
LEMMA RunSerialClaim == ASSUME PubInv, PubInv', RunInv, SerialClaim PROVE RunInv'
<1>. USE DEF PubInv
<1>1. /\ phase = "serial" /\ UNCHANGED inputVars /\ UNCHANGED commitVars
      /\ UNCHANGED poolVars /\ UNCHANGED <<cancelFlag, cancelled, failure>>
  BY DEF SerialClaim
<1>2. /\ initialRows' = initialRows /\ fault' = fault /\ active' = active
      /\ tasks' = tasks /\ channel' = channel /\ batch = {}
  BY <1>1 DEF inputVars, commitVars, poolVars, PhaseOK
<1>3. PoolSound' /\ InPool' = InPool
  BY <1>2, PoolSoundFrame DEF RunInv
<1>4. ChangesExact'
  BY <1>1, <1>2, ChangesFrame DEF RunInv
<1>5. \/ Claim(1) /\ batch' = ready \ ready' /\ phase' = "serial item"
      \/ EmptyClaim(1) /\ phase' = "resolve" /\ UNCHANGED batch
  BY DEF SerialClaim
<1>6. Stuck' = Stuck /\ NothingReady' /\ phase' # "done"
  <2>1. CASE Claim(1) /\ batch' = ready \ ready' /\ phase' = "serial item"
    BY <1>2, <1>3, <2>1, ClaimStuck DEF NothingReady
  <2>2. CASE EmptyClaim(1) /\ phase' = "resolve" /\ UNCHANGED batch
    <3>1. state' = state /\ ready' = {}
      BY <2>2, EmptyClaimReady
    <3>. QED BY <1>3, <2>2, <3>1 DEF Stuck, NothingReady
  <2>. QED BY <1>5, <2>1, <2>2
<1>7. cancelFlag' = FALSE => FailuresExact'
  BY <1>1, <1>2, <1>6, FailuresKept DEF RunInv
<1>8. cancelled' = TRUE => cancelFlag' = TRUE
  BY <1>1 DEF RunInv
<1>. QED BY <1>3, <1>4, <1>6, <1>7, <1>8, RunGoesOn

\* A skipped item was in the batch and is complete: it did not fail.
LEMMA RunSkip ==
  ASSUME PubInv, PubInv', RunInv, NEW item \in Items, SkipInactive(item), phase # "done",
         phase' = "serial" \/ (phase = "dispatch" /\ phase' = "dispatch")
  PROVE  RunInv'
<1>. USE DEF PubInv
<1>1. /\ item \in batch /\ batch' = batch \ {item} /\ Finish(item)
      /\ UNCHANGED inputVars /\ UNCHANGED commitVars /\ UNCHANGED poolVars
      /\ UNCHANGED <<cancelFlag, cancelled, failure, claimedAny>>
  BY DEF SkipInactive
<1>2. /\ initialRows' = initialRows /\ fault' = fault /\ active' = active
      /\ tasks' = tasks /\ channel' = channel
  BY <1>1 DEF inputVars, commitVars, poolVars
<1>3. PoolSound' /\ InPool' = InPool
  BY <1>2, PoolSoundFrame DEF RunInv
<1>4. ChangesExact'
  BY <1>1, <1>2, ChangesFrame DEF RunInv
<1>5. state' = [state EXCEPT ![item] = "Complete"] /\ state \in [Items -> ItemState]
  BY <1>1, FinishWork DEF IInv, TypeOK
<1>6. Stuck' = Stuck
  <2>1. \A i \in Items : state'[i] = "Running" <=> state[i] = "Running" /\ i # item
    BY <1>5
  <2>. QED BY <1>1, <1>3, <2>1 DEF Stuck
<1>7. cancelFlag' = FALSE => FailuresExact'
  BY <1>1, <1>2, <1>6, FailuresKept DEF RunInv
<1>8. NothingReady'
  <2>1. phase = "dispatch" => claimedAny
    BY <1>1 DEF PhaseOK
  <2>2. phase = "dispatch" => claimedAny'
    BY <1>1, <2>1
  <2>. QED BY <2>2 DEF NothingReady
<1>9. phase' # "done" /\ (cancelled' = TRUE => cancelFlag' = TRUE)
  BY <1>1 DEF RunInv
<1>. QED BY <1>3, <1>4, <1>7, <1>8, <1>9, RunGoesOn

\* An item that neither fails nor is dropped has no fault.
LEMMA FaultKindsOf ==
  ASSUME PubTypeOK, NEW item \in Items
  PROVE  /\ fault[item] = "none" <=> /\ ~PrepareFails(item) /\ OwnsPublication(item)
                                     /\ fault[item] \notin {"analyze error", "analyze panic"}
BY DEF PubTypeOK, FaultKinds, PrepareFails, OwnsPublication

\* What a step that settles an item does, whichever loop it is in: its failure
\* is retained, or its rows are published.
LEMMA RunFails ==
  ASSUME PubInv, RunInv, phase # "done", NEW item \in Items, item \in active,
         fault[item] # "none", Stuck' = Stuck \cup {item}, RetainStableFailure(item),
         UNCHANGED commitVars, UNCHANGED inputVars, cancelFlag' = cancelFlag
  PROVE  ChangesExact' /\ (cancelFlag' = FALSE => FailuresExact')
<1>1. initialRows' = initialRows /\ fault' = fault /\ active' = active
  BY DEF inputVars, commitVars
<1>2. ChangesExact'
  BY <1>1, ChangesFrame DEF RunInv
<1>. QED BY <1>1, <1>2, FailureAdded DEF RunInv

\* A publication changes the rows of its item and leaves the failures alone.
LEMMA RunPublishes ==
  ASSUME PubInv, RunInv, phase # "done", NEW item \in Items, state[item] = "Running",
         fault[item] = "none", Stuck' = Stuck, failure' = failure,
         PublishRows(item, Analyze(item, Snapshot(item))), UNCHANGED planVars,
         UNCHANGED inputVars, cancelFlag' = cancelFlag
  PROVE  ChangesExact' /\ (cancelFlag' = FALSE => FailuresExact')
<1>. USE DEF PubInv
<1>1. initialRows' = initialRows /\ fault' = fault
  BY DEF inputVars
<1>2. TypeOK /\ RowsExact /\ item \notin published
  BY DEF IInv, ContentExact, RowsExact
<1>3. Analyze(item, Snapshot(item)) \in [OwnedRows[item] -> Values]
  BY <1>2, ReadFacts, AnalyzeFacts
<1>4. ChangesExact'
  BY <1>1, <1>2, <1>3, ChangesPublish DEF RunInv
<1>5. active \subseteq active'
  BY <1>2, <1>3, PublishTypes
<1>. QED BY <1>1, <1>4, <1>5, FailuresKept DEF RunInv

\* The serial loop settles the item it claimed within the step.
LEMMA RunSerialRun ==
  ASSUME PubInv, PubInv', RunInv, NEW item \in Items, SerialRun(item)
  PROVE  RunInv'
<1>. USE DEF PubInv
<1>1. /\ phase = "serial item" /\ item \in batch /\ item \in active
      /\ batch' = {} /\ phase' = "serial" /\ UNCHANGED inputVars /\ UNCHANGED poolVars
      /\ UNCHANGED <<cancelFlag, cancelled>>
  BY DEF SerialRun
<1>2. /\ initialRows' = initialRows /\ fault' = fault
      /\ tasks' = tasks /\ channel' = channel
  BY <1>1 DEF inputVars, poolVars
<1>3. PoolSound' /\ InPool' = InPool
  BY <1>2, PoolSoundFrame DEF RunInv
<1>4. batch = {item} /\ InPool = {} /\ state[item] = "Running"
  BY <1>1, PoolFacts DEF PhaseOK, ItemsPlaced
<1>5. \/ RetainStableFailure(item) /\ UNCHANGED <<vars, commitVars>> /\ fault[item] # "none"
      \/ /\ PublishRows(item, Analyze(item, Snapshot(item))) /\ Finish(item)
         /\ UNCHANGED failure /\ fault[item] = "none"
  <2>1. /\ Answer(item, Snapshot(item)).ok = (fault[item] \notin {"analyze error", "analyze panic"})
        /\ Answer(item, Snapshot(item)).rows = Analyze(item, Snapshot(item))
    BY DEF Answer
  <2>2. \/ /\ PrepareFails(item) \/ ~Answer(item, Snapshot(item)).ok
           /\ RetainStableFailure(item) /\ UNCHANGED <<vars, commitVars>>
        \/ /\ ~PrepareFails(item) /\ Answer(item, Snapshot(item)).ok
           /\ Publish(item, Analyze(item, Snapshot(item)))
    BY <2>1 DEF SerialRun
  <2>. QED BY <2>1, <2>2, FaultKindsOf DEF Publish
<1>6. ChangesExact' /\ (cancelFlag' = FALSE => FailuresExact')
  <2>1. CASE RetainStableFailure(item) /\ UNCHANGED <<vars, commitVars>> /\ fault[item] # "none"
    <3>1. Stuck' = Stuck \cup {item}
      BY <1>1, <1>3, <1>4, <2>1 DEF Stuck, vars
    <3>. QED BY <1>1, <2>1, <3>1, RunFails
  <2>2. CASE /\ PublishRows(item, Analyze(item, Snapshot(item))) /\ Finish(item)
             /\ UNCHANGED failure /\ fault[item] = "none"
    <3>1. /\ state' = [state EXCEPT ![item] = "Complete"] /\ state \in [Items -> ItemState]
          /\ UNCHANGED planVars
      BY <2>2, FinishWork DEF IInv, TypeOK
    <3>2. \A i \in Items : state'[i] = "Running" <=> state[i] = "Running" /\ i # item
      BY <3>1
    <3>3. Stuck' = Stuck
      BY <1>1, <1>3, <1>4, <3>2 DEF Stuck
    <3>. QED BY <1>1, <1>4, <2>2, <3>1, <3>3, RunPublishes
  <2>. QED BY <1>5, <2>1, <2>2
<1>7. NothingReady' /\ phase' # "done" /\ (cancelled' = TRUE => cancelFlag' = TRUE)
  BY <1>1 DEF NothingReady, RunInv
<1>. QED BY <1>3, <1>6, <1>7, RunGoesOn

\* The parallel loop claims what the pool has room for; with an idle pool an
\* empty claim means that nothing is ready.
LEMMA RunLoopTop == ASSUME PubInv, PubInv', RunInv, LoopTop PROVE RunInv'
<1>. USE DEF PubInv
<1>1. /\ phase = "top" /\ phase' = "dispatch" /\ UNCHANGED inputVars /\ UNCHANGED commitVars
      /\ UNCHANGED poolVars /\ UNCHANGED callVars /\ UNCHANGED <<cancelFlag, failure>>
  BY DEF LoopTop
<1>2. cancelled' <=> cancelled \/ cancelFlag
  BY DEF LoopTop
<1>3. /\ initialRows' = initialRows /\ fault' = fault /\ active' = active
      /\ tasks' = tasks /\ channel' = channel /\ batch = {} /\ inFlight' = inFlight
      /\ workers' = workers
  BY <1>1 DEF inputVars, commitVars, poolVars, callVars, PhaseOK
<1>4. PoolSound' /\ InPool' = InPool
  BY <1>3, PoolSoundFrame DEF RunInv
<1>5. ChangesExact'
  BY <1>1, <1>3, ChangesFrame DEF RunInv
<1>6. /\ Available \in Nat /\ Available = workers - inFlight /\ workers >= 2
      /\ workers \in Nat /\ inFlight \in Nat
  BY <1>1 DEF PhaseOK, ItemsPlaced, PubTypeOK, Available
<1>7. \/ Claim(Available) /\ batch' = ready \ ready' /\ claimedAny' = TRUE
      \/ Available # 0 /\ EmptyClaim(Available) /\ batch' = {}
      \/ /\ cancelled \/ cancelFlag \/ Available = 0
         /\ batch' = {} /\ UNCHANGED vars
  BY DEF LoopTop
<1>8. Stuck' = Stuck /\ NothingReady'
  <2>1. CASE Claim(Available) /\ batch' = ready \ ready' /\ claimedAny' = TRUE
    BY <1>1, <1>3, <1>4, <1>6, <2>1, ClaimStuck DEF NothingReady
  <2>2. CASE Available # 0 /\ EmptyClaim(Available) /\ batch' = {}
    <3>1. state' = state /\ ready' = {}
      BY <2>2, EmptyClaimReady
    <3>. QED BY <1>3, <1>4, <2>2, <3>1 DEF Stuck, NothingReady
  <2>3. CASE /\ cancelled \/ cancelFlag \/ Available = 0
             /\ batch' = {} /\ UNCHANGED vars
    <3>1. cancelled' \/ inFlight' # 0
      BY <1>2, <1>3, <1>6, <2>3
    <3>2. state' = state
      BY <2>3 DEF vars
    <3>. QED BY <1>1, <1>3, <1>4, <2>3, <3>1, <3>2 DEF Stuck, NothingReady
  <2>. QED BY <1>7, <2>1, <2>2, <2>3
<1>9. cancelFlag' = FALSE => FailuresExact'
  BY <1>1, <1>3, <1>8, FailuresKept DEF RunInv
<1>10. cancelled' = TRUE => cancelFlag' = TRUE
  <2>1. cancelled \in BOOLEAN /\ cancelFlag \in BOOLEAN
    BY DEF PubTypeOK
  <2>. QED BY <1>1, <1>2, <2>1 DEF RunInv
<1>. QED BY <1>1, <1>4, <1>5, <1>8, <1>9, <1>10, RunGoesOn

\* An item whose prepare failed is not given to a worker.
LEMMA RunDispatchFails ==
  ASSUME PubInv, PubInv', RunInv, NEW item \in Items, DispatchFails(item)
  PROVE  RunInv'
<1>. USE DEF PubInv
<1>1. /\ phase = "dispatch" /\ item \in batch /\ item \in active /\ batch' = batch \ {item}
      /\ PrepareFails(item) /\ RetainStableFailure(item)
      /\ UNCHANGED vars /\ UNCHANGED inputVars /\ UNCHANGED commitVars /\ UNCHANGED poolVars
      /\ UNCHANGED <<cancelFlag, cancelled, phase, claimedAny>>
  BY DEF DispatchFails, NextOfBatch
<1>2. /\ initialRows' = initialRows /\ fault' = fault /\ active' = active
      /\ tasks' = tasks /\ channel' = channel /\ state' = state
  BY <1>1 DEF inputVars, commitVars, poolVars, vars
<1>3. PoolSound' /\ InPool' = InPool
  BY <1>2, PoolSoundFrame DEF RunInv
<1>4. state[item] = "Running" /\ item \notin InPool
  BY <1>1 DEF ItemsPlaced
<1>5. Stuck' = Stuck \cup {item}
  BY <1>1, <1>2, <1>3, <1>4 DEF Stuck
<1>6. ChangesExact' /\ (cancelFlag' = FALSE => FailuresExact')
  BY <1>1, <1>5, FaultKindsOf, RunFails
<1>7. claimedAny'
  BY <1>1, BatchShrinks
<1>8. NothingReady' /\ phase' # "done" /\ (cancelled' = TRUE => cancelFlag' = TRUE)
  BY <1>1, <1>7 DEF NothingReady, RunInv
<1>. QED BY <1>3, <1>6, <1>8, RunGoesOn

\* A spawned item moves from the batch to the pool.
LEMMA RunSpawn ==
  ASSUME PubInv, PubInv', RunInv, NEW item \in Items, Spawn(item)
  PROVE  RunInv'
<1>. USE DEF PubInv
<1>1. /\ phase = "dispatch" /\ item \in batch /\ batch' = batch \ {item} /\ ~PrepareFails(item)
      /\ tasks' = tasks \cup {[item |-> item, input |-> Snapshot(item)]}
      /\ UNCHANGED vars /\ UNCHANGED inputVars /\ UNCHANGED commitVars
      /\ UNCHANGED <<channel, cancelFlag, cancelled, failure, phase, claimedAny>>
  BY DEF Spawn, NextOfBatch
<1>2. /\ initialRows' = initialRows /\ fault' = fault /\ active' = active /\ state' = state
  BY <1>1 DEF inputVars, commitVars, vars
<1>3. InPool' = InPool \cup {item}
  <2>. DEFINE task == [item |-> item, input |-> Snapshot(item)]
  <2>1. task.item = item /\ tasks' = tasks \cup {task}
    BY <1>1
  <2>2. Analyzed' = {t.item : t \in tasks'}
    BY DEF Analyzed
  <2>. HIDE DEF task
  <2>3. Analyzed' = Analyzed \cup {item}
    BY <2>1, <2>2 DEF Analyzed
  <2>4. Sent' = Sent
    BY <1>1 DEF Sent
  <2>. QED BY <2>3, <2>4 DEF InPool
<1>4. PoolSound'
  <2>1. \A i : PrepareFails(i)' = PrepareFails(i)
    BY <1>2 DEF PrepareFails
  <2>. QED BY <1>1, <1>2, <1>3, <2>1 DEF PoolSound, RunInv
<1>5. Stuck' = Stuck
  BY <1>1, <1>2, <1>3 DEF Stuck
<1>6. ChangesExact'
  BY <1>1, <1>2, ChangesFrame DEF RunInv
<1>7. cancelFlag' = FALSE => FailuresExact'
  BY <1>1, <1>2, <1>5, FailuresKept DEF RunInv
<1>8. claimedAny'
  BY <1>1, BatchShrinks
<1>9. NothingReady' /\ phase' # "done" /\ (cancelled' = TRUE => cancelFlag' = TRUE)
  BY <1>1, <1>8 DEF NothingReady, RunInv
<1>. QED BY <1>4, <1>6, <1>7, <1>9, RunGoesOn

\* The loop ends when nothing was claimed and no answer is awaited.
LEMMA RunEndDispatch == ASSUME PubInv, PubInv', RunInv, EndDispatch PROVE RunInv'
<1>. USE DEF PubInv
<1>1. /\ phase = "dispatch" /\ batch = {} /\ phase' = AfterDispatch
      /\ UNCHANGED vars /\ UNCHANGED inputVars /\ UNCHANGED commitVars /\ UNCHANGED poolVars
      /\ UNCHANGED <<cancelFlag, cancelled, failure, batch>>
  BY DEF EndDispatch
<1>2. /\ initialRows' = initialRows /\ fault' = fault /\ active' = active
      /\ tasks' = tasks /\ channel' = channel /\ state' = state /\ ready' = ready
  BY <1>1 DEF inputVars, commitVars, poolVars, vars
<1>3. PoolSound' /\ InPool' = InPool
  BY <1>2, PoolSoundFrame DEF RunInv
<1>4. Stuck' = Stuck
  BY <1>1, <1>2, <1>3 DEF Stuck
<1>5. ChangesExact'
  BY <1>1, <1>2, ChangesFrame DEF RunInv
<1>6. cancelFlag' = FALSE => FailuresExact'
  BY <1>1, <1>2, <1>4, FailuresKept DEF RunInv
<1>7. NothingReady' /\ phase' # "done"
  <2>1. phase' \in {"recv", "top", "resolve"} /\ (phase' = "resolve" => inFlight = 0 /\ ~claimedAny)
    BY <1>1 DEF AfterDispatch
  <2>. QED BY <1>1, <1>2, <2>1 DEF NothingReady, RunInv
<1>8. cancelled' = TRUE => cancelFlag' = TRUE
  BY <1>1 DEF RunInv
<1>. QED BY <1>3, <1>5, <1>6, <1>7, <1>8, RunGoesOn

\* A worker's answer tells whether analyze failed.
LEMMA RunWork == ASSUME PubInv, PubInv', RunInv, NEW task \in tasks, Work(task) PROVE RunInv'
<1>. USE DEF PubInv
<1>. DEFINE item == task.item
            m == Answer(item, task.input)
<1>1. /\ tasks' = tasks \ {task} /\ channel' = Append(channel, m)
      /\ UNCHANGED vars /\ UNCHANGED inputVars /\ UNCHANGED commitVars
      /\ UNCHANGED <<inFlight, cancelFlag, cancelled, failure, phase, batch, claimedAny>>
  BY DEF Work
<1>2. /\ initialRows' = initialRows /\ fault' = fault /\ active' = active /\ state' = state
      /\ ready' = ready
  BY <1>1 DEF inputVars, commitVars, vars
<1>3. task \in Task /\ item \in Items /\ task.input \in RowMaps /\ channel \in Seq(Message)
  BY DEF PubTypeOK, Task
<1>4. /\ m \in Message /\ m.item = item
      /\ m.ok = TRUE <=> fault[item] \notin {"analyze error", "analyze panic"}
  <2>1. Analyze(item, task.input) \in RowMaps
    BY <1>3, AnalyzeFacts
  <2>. QED BY <1>3, <2>1 DEF Answer, Message
<1>5. \A t \in tasks : t.item = item => t = task
  <2>1. \A t \in tasks : t = [item |-> t.item, input |-> Snapshot(t.item)]
    BY DEF PubTypeOK, Task, SnapshotsCurrent
  <2>. QED BY <2>1
<1>6. item \in Analyzed
  BY DEF Analyzed
<1>. HIDE DEF m
<1>7. /\ Sent' = Append(Sent, item) /\ Sent \in Seq(Items)
      /\ \A k \in 1..Len(channel') :
            channel'[k] = m \/ \E j \in 1..Len(channel) : channel'[k] = channel[j]
  BY <1>1, <1>3, <1>4, SentSend, SentFacts
<1>8. InPool' = InPool
  <2>1. Analyzed' = Analyzed \ {item}
    <3>1. Analyzed' = {t.item : t \in tasks'}
      BY DEF Analyzed
    <3>2. \A t \in tasks : t \in tasks' <=> t.item # item
      BY <1>1, <1>5
    <3>. HIDE DEF item
    <3>. QED BY <1>1, <3>1, <3>2 DEF Analyzed
  <2>2. ToSet(Sent)' = ToSet(Sent) \cup {item}
    <3>1. item \notin ToSet(Sent) /\ IsInjective(Sent)
      BY <1>6 DEF ItemsPlaced
    <3>. QED BY <1>3, <1>7, <3>1, ToSetAppend
  <2>. QED BY <1>6, <2>1, <2>2 DEF InPool
<1>. HIDE DEF item
<1>9. PoolSound'
  <2>1. \A i : PrepareFails(i)' = PrepareFails(i)
    BY <1>2 DEF PrepareFails
  <2>2. \A j \in 1..Len(channel) :
          channel[j].ok = TRUE <=> fault[channel[j].item] \notin {"analyze error", "analyze panic"}
    BY DEF PoolSound, RunInv
  <2>3. \A k \in 1..Len(channel') :
          channel'[k].ok = TRUE <=> fault[channel'[k].item] \notin {"analyze error", "analyze panic"}
    BY <1>4, <1>7, <2>2
  <2>. QED BY <1>2, <1>8, <2>1, <2>3 DEF PoolSound, RunInv
<1>10. phase # "done"
  BY <1>6, PoolFacts DEF PhaseOK, InPool
<1>11. ChangesExact'
  BY <1>1, <1>2, <1>10, ChangesFrame DEF RunInv
<1>12. Stuck' = Stuck
  BY <1>1, <1>2, <1>8 DEF Stuck
<1>13. cancelFlag' = FALSE => FailuresExact'
  BY <1>1, <1>2, <1>10, <1>12, FailuresKept DEF RunInv
<1>14. NothingReady' /\ phase' # "done" /\ (cancelled' = TRUE => cancelFlag' = TRUE)
  BY <1>1, <1>2, <1>10 DEF NothingReady, RunInv
<1>. QED BY <1>9, <1>11, <1>13, <1>14, RunGoesOn

\* An answer that arrives is a failure, is dropped because the call was
\* cancelled, or publishes rows of an item without a fault.
LEMMA RunReceive == ASSUME PubInv, PubInv', RunInv, Receive PROVE RunInv'
<1>. USE DEF PubInv
<1>. DEFINE item == Head(channel).item
<1>1. /\ phase = "recv" /\ channel # <<>> /\ channel' = Tail(channel)
      /\ phase' = "top" /\ UNCHANGED inputVars
      /\ UNCHANGED <<tasks, cancelFlag, batch, claimedAny>>
  BY DEF Receive
<1>2. cancelled' <=> cancelled \/ cancelFlag
  BY DEF Receive
<1>3. initialRows' = initialRows /\ fault' = fault
  BY <1>1 DEF inputVars
<1>4. /\ channel \in Seq(Message) /\ Sent' = Tail(Sent)
      /\ Sent # <<>> /\ Head(Sent) = item /\ Head(channel) \in Message
      /\ 1 \in 1..Len(channel) /\ Head(channel) = channel[1]
      /\ \A k \in 1..Len(channel') : k + 1 \in 1..Len(channel) /\ channel'[k] = channel[k + 1]
      /\ Sent \in Seq(Items) /\ DOMAIN channel = 1..Len(channel)
  BY <1>1, SentReceive, SentFacts DEF PubTypeOK
<1>5. /\ item \in Items /\ Head(channel).rows = Analyze(item, Snapshot(item))
      /\ Head(channel).ok \in BOOLEAN
      /\ Head(channel).ok = TRUE <=> fault[item] \notin {"analyze error", "analyze panic"}
  <2>1. item \in Items /\ Head(channel).ok \in BOOLEAN
    BY <1>4 DEF Message
  <2>2. channel[1].rows = Analyze(channel[1].item, Snapshot(channel[1].item))
    BY <1>4 DEF SnapshotsCurrent
  <2>3. channel[1].ok = TRUE <=> fault[channel[1].item] \notin {"analyze error", "analyze panic"}
    BY <1>4 DEF RunInv, PoolSound
  <2>4. Head(channel).rows = Analyze(item, Snapshot(item))
    BY <1>4, <2>2
  <2>5. Head(channel).ok = TRUE <=> fault[item] \notin {"analyze error", "analyze panic"}
    BY <1>4, <2>3
  <2>. QED BY <2>1, <2>4, <2>5
<1>6. /\ item \in ToSet(Sent) /\ ToSet(Sent) = ToSet(Sent)' \cup {item}
      /\ item \notin ToSet(Sent)'
  BY <1>4, ToSetTail DEF ItemsPlaced
<1>. HIDE DEF item
<1>7. Analyzed' = Analyzed /\ item \notin Analyzed
  BY <1>1, <1>6 DEF Analyzed, ItemsPlaced
<1>8. InPool' = InPool \ {item} /\ item \in InPool
  BY <1>6, <1>7 DEF InPool
<1>9. /\ batch = {} /\ batch' = {} /\ state[item] = "Running" /\ item \in active
      /\ ~PrepareFails(item)
  BY <1>1, <1>8 DEF PhaseOK, ItemsPlaced, RunInv, PoolSound
<1>10. PoolSound'
  <2>1. \A i : PrepareFails(i)' = PrepareFails(i)
    BY <1>3 DEF PrepareFails
  <2>2. \A k \in 1..Len(channel') :
          channel'[k].ok = TRUE <=> fault[channel'[k].item] \notin {"analyze error", "analyze panic"}
    BY <1>4 DEF PoolSound, RunInv
  <2>. QED BY <1>3, <1>8, <2>1, <2>2 DEF PoolSound, RunInv
<1>11. \/ RetainStableFailure(item) /\ UNCHANGED <<vars, commitVars>> /\ fault[item] # "none"
       \/ cancelled' /\ UNCHANGED <<vars, commitVars, failure>>
       \/ /\ PublishRows(item, Analyze(item, Snapshot(item))) /\ Finish(item)
          /\ UNCHANGED failure /\ fault[item] = "none"
  <2>1. Settle(Head(channel), cancelled')
    BY DEF Receive
  <2>2. \/ /\ ~Head(channel).ok
           /\ RetainStableFailure(item) /\ UNCHANGED <<vars, commitVars>>
        \/ cancelled' /\ UNCHANGED <<vars, commitVars, failure>>
        \/ Head(channel).ok /\ Publish(item, Analyze(item, Snapshot(item)))
    BY <1>5, <2>1 DEF Settle, item
  <2>. QED BY <1>5, <1>9, <2>2, FaultKindsOf DEF Publish
<1>12. ChangesExact' /\ (cancelFlag' = FALSE => FailuresExact')
  <2>1. CASE RetainStableFailure(item) /\ UNCHANGED <<vars, commitVars>> /\ fault[item] # "none"
    <3>1. Stuck' = Stuck \cup {item}
      BY <1>5, <1>8, <1>9, <2>1 DEF Stuck, vars
    <3>. QED BY <1>1, <1>5, <1>9, <2>1, <3>1, RunFails
  <2>2. CASE cancelled' /\ UNCHANGED <<vars, commitVars, failure>>
    <3>1. cancelFlag
      <4>1. cancelled \in BOOLEAN /\ cancelFlag \in BOOLEAN
        BY DEF PubTypeOK
      <4>. QED BY <1>2, <2>2, <4>1 DEF RunInv
    <3>2. cancelFlag' # FALSE
      BY <1>1, <3>1
    <3>3. ChangesExact'
      BY <1>1, <1>3, <2>2, ChangesFrame DEF RunInv
    <3>. QED BY <3>2, <3>3
  <2>3. CASE /\ PublishRows(item, Analyze(item, Snapshot(item))) /\ Finish(item)
             /\ UNCHANGED failure /\ fault[item] = "none"
    <3>1. /\ state' = [state EXCEPT ![item] = "Complete"] /\ state \in [Items -> ItemState]
          /\ UNCHANGED planVars
      BY <1>5, <2>3, FinishWork DEF IInv, TypeOK
    <3>2. \A i \in Items : state'[i] = "Running" <=> state[i] = "Running" /\ i # item
      BY <3>1
    <3>3. Stuck' = Stuck
      BY <1>8, <1>9, <3>2 DEF Stuck
    <3>. QED BY <1>1, <1>5, <1>9, <2>3, <3>1, <3>3, RunPublishes
  <2>. QED BY <1>11, <2>1, <2>2, <2>3
<1>13. cancelled' = TRUE => cancelFlag' = TRUE
  <2>1. cancelled \in BOOLEAN /\ cancelFlag \in BOOLEAN
    BY DEF PubTypeOK
  <2>. QED BY <1>1, <1>2, <2>1 DEF RunInv
<1>14. NothingReady' /\ phase' # "done"
  BY <1>1 DEF NothingReady
<1>. QED BY <1>10, <1>12, <1>13, <1>14, RunGoesOn

\* The return: a success keeps the rows, a failure without a cancellation is
\* the least one of the reference pass, which the run has followed.
LEMMA RunResolve == ASSUME PubInv, PubInv', RunInv, Resolve PROVE RunInv'
<1>. USE DEF PubInv
<1>1. /\ phase = "resolve" /\ UNCHANGED vars /\ UNCHANGED inputVars /\ UNCHANGED poolVars
      /\ UNCHANGED <<cancelFlag, cancelled, failure, batch, claimedAny>>
  BY DEF Resolve
<1>2. /\ initialRows' = initialRows /\ fault' = fault
      /\ tasks' = tasks /\ channel' = channel /\ state' = state /\ UNCHANGED planVars
  BY <1>1 DEF inputVars, poolVars, vars, planVars
<1>3. PoolSound' /\ (cancelled' = TRUE => cancelFlag' = TRUE)
  BY <1>1, <1>2, PoolSoundFrame DEF RunInv
<1>4. RowsExact /\ ChangesExact
  BY <1>1 DEF RunInv
<1>5. CASE failure # NoFailure /\ Abort(failure.kind, failure.item)
  <2>1. phase' = "done" /\ result' = [status |-> failure.kind, item |-> failure.item]
    BY <1>5 DEF Abort
  <2>2. failure.kind \in {"Failed", "Panicked"}
    BY <1>5 DEF PubTypeOK, Failures
  <2>3. ASSUME cancelFlag' = FALSE, NEW p \in Passes, PassExact(p, Items)'
        PROVE  ReturnsLeast(p)'
    <3>1. FailuresExact /\ cancelled = FALSE
      BY <1>1, <2>3 DEF RunInv, PubTypeOK
    <3>2. ready = {} /\ batch = {} /\ InPool = {}
      BY <1>1, <3>1, PoolFacts DEF RunInv, NothingReady, PhaseOK
    <3>3. PassExact(p, Items)
      BY <1>1, <1>2, <2>3, PassFrame
    <3>4. Stuck = {i \in Items : state[i] = "Running"}
      BY <3>2 DEF Stuck
    <3>5. p.failed = Stuck
      BY <1>4, <3>1, <3>2, <3>3, <3>4, RunAgrees DEF FailuresExact
    <3>6. /\ failure.item \in p.failed /\ failure.kind = FailureKind(failure.item)
          /\ \A i \in p.failed : failure.item <= i
      BY <1>5, <3>1, <3>5 DEF FailuresExact
    <3>7. result'.item = failure.item /\ result'.status = failure.kind
      BY <2>1
    <3>8. FailureKind(failure.item)' = FailureKind(failure.item)
      BY <1>1, <1>2 DEF FailureKind
    <3>9. failure'.item = failure.item
      BY <1>1
    <3>10. FailureKind(result.item)' = FailureKind(failure.item)
      BY <1>2, <3>7 DEF FailureKind
    <3>. QED BY <3>6, <3>7, <3>10 DEF ReturnsLeast
  <2>4. Passes' = Passes
    BY DEF Passes
  <2>5. result'.status # "Ok"
    BY <2>1, <2>2
  <2>. QED BY <1>3, <2>1, <2>3, <2>4, <2>5 DEF RunInv, NothingReady
<1>6. CASE Abort("Cancelled", -1)
  <2>1. phase' = "done" /\ result'.status = "Cancelled"
    BY <1>6 DEF Abort
  <2>. QED BY <1>1, <1>2, <2>1, RunCancelled
<1>7. CASE Succeed
  <2>1. UNCHANGED commitVars /\ phase' = "done" /\ result'.status = "Ok"
    BY <1>7 DEF Succeed
  <2>2. ChangesExact'
    BY <1>2, <1>4, <2>1, ChangesFrame
  <2>3. RowsExact'
    BY <1>1, <1>2, <1>4, <2>1, ContentFrame DEF PubTypeOK, ContentExact
  <2>. QED BY <1>3, <2>1, <2>2, <2>3 DEF RunInv, NothingReady
<1>. QED BY <1>1, <1>5, <1>6, <1>7 DEF Resolve

\* Every step keeps the run in agreement with the reference pass.
LEMMA RunNext == PubInv /\ PubInv' /\ RunInv /\ [PubNext]_pubVars => RunInv'
<1>. SUFFICES ASSUME PubInv, PubInv', RunInv, [PubNext]_pubVars PROVE RunInv'
  OBVIOUS
<1>1. CASE \E item \in Items : ScheduleSeed(item)
  BY <1>1, RunScheduleSeed
<1>2. CASE Start
  BY <1>2, RunStart
<1>3. CASE Cancel
  <2>1. cancelFlag' = TRUE
    BY <1>3 DEF Cancel
  <2>2. UNCHANGED <<vars, inputVars, commitVars, callVars, poolVars, ran, cancelled,
                    failure, phase, batch, claimedAny>>
    BY <1>3 DEF Cancel
  <2>. QED BY <2>1, <2>2, RunIdle
<1>4. CASE SerialClaim
  BY <1>4, RunSerialClaim
<1>5. ASSUME NEW item \in Items, SerialSkip(item) PROVE RunInv'
  <2>1. SkipInactive(item) /\ phase # "done" /\ phase' = "serial"
    BY <1>5 DEF SerialSkip
  <2>. QED BY <2>1, RunSkip
<1>6. ASSUME NEW item \in Items, SerialCancelled(item) PROVE RunInv'
  <2>1. /\ Abort("Cancelled", -1)
        /\ UNCHANGED <<inputVars, poolVars, cancelFlag, cancelled>>
    BY <1>6 DEF SerialCancelled
  <2>2. phase' = "done" /\ result'.status = "Cancelled"
    BY <2>1 DEF Abort
  <2>3. /\ tasks' = tasks /\ channel' = channel /\ fault' = fault
        /\ cancelled' = cancelled /\ cancelFlag' = cancelFlag
    BY <2>1 DEF inputVars, poolVars
  <2>. QED BY <2>2, <2>3, RunCancelled
<1>7. CASE \E item \in Items : SerialRun(item)
  BY <1>7, RunSerialRun
<1>8. CASE LoopTop
  BY <1>8, RunLoopTop
<1>9. ASSUME NEW item \in Items, DispatchSkip(item) PROVE RunInv'
  <2>1. SkipInactive(item) /\ phase = "dispatch" /\ phase' = "dispatch"
    BY <1>9 DEF DispatchSkip
  <2>. QED BY <2>1, RunSkip
<1>10. CASE \E item \in Items : DispatchFails(item) \/ Spawn(item)
  BY <1>10, RunDispatchFails, RunSpawn
<1>11. CASE EndDispatch
  BY <1>11, RunEndDispatch
<1>12. CASE Receive
  BY <1>12, RunReceive
<1>13. CASE Resolve
  BY <1>13, RunResolve
<1>14. CASE \E task \in tasks : Work(task)
  BY <1>14, RunWork
<1>15. CASE UNCHANGED pubVars
  <2>1. UNCHANGED <<vars, inputVars, commitVars, callVars, poolVars, ran, cancelled,
                    failure, phase, batch, claimedAny>>
    BY <1>15 DEF pubVars
  <2>2. cancelFlag' \in BOOLEAN /\ cancelFlag' = cancelFlag
    BY <1>15 DEF pubVars, PubInv, PubTypeOK
  <2>. QED BY <2>1, <2>2, RunIdle
<1>16. CASE Returned
  BY <1>15, <1>16 DEF Returned
<1>17. CASE \E item \in Items : SerialSkip(item) \/ SerialCancelled(item) \/ SerialRun(item)
  BY <1>5, <1>6, <1>7, <1>17
<1>18. CASE \E item \in Items : DispatchSkip(item) \/ DispatchFails(item) \/ Spawn(item)
  BY <1>9, <1>10, <1>18
<1>. QED BY <1>1, <1>2, <1>3, <1>4, <1>17, <1>8, <1>18, <1>11, <1>12, <1>13, <1>14, <1>15, <1>16
     DEF PubNext, Coordinator

\* The run agrees with the reference pass throughout.
LEMMA RunInvariance == PubSpec => []RunInv
<1>1. PubInit /\ PubInv => RunInv
  BY RunInit
<1>. QED BY <1>1, RunNext, PubInvariance, PTL DEF PubSpec

\* Worker count and completion order cannot change the result: a successful
\* call leaves the rows and reports the items and rows of the one pass over the
\* items in key order, and a call that fails without being cancelled reports
\* the least item that pass fails on.
THEOREM PublicationMatchesReference == PubSpec => []ResultMatchesReference
<1>1. ASSUME PubInv, RunInv PROVE ResultMatchesReference
  <2>. USE <1>1 DEF PubInv
  <2>1. Reference \in Passes /\ PassExact(Reference, Items)
    BY ReferenceExact DEF IInv
  <2>. DEFINE p == Reference
  <2>2. p \in Passes /\ PassExact(p, Items)
    BY <2>1
  <2>. HIDE DEF p
  <2>3. ASSUME result.status = "Ok"
        PROVE  /\ \A i \in Items : state[i] \in {"Absent", "Complete"}
               /\ p.failed = {} /\ rows = p.rows /\ published = p.published
               /\ changedRows = p.changedRows
               /\ changedItems = {i \in Items : OwnedRows[i] \cap p.changedRows # {}}
    <3>1. \A i \in Items : state[i] \in {"Absent", "Complete"}
      BY <2>3 DEF ReturnedExact, PhaseOK
    <3>2. ready = {} /\ {i \in Items : state[i] = "Running"} = {}
      BY <3>1 DEF IInv, ReadyExact
    <3>3. RowsExact /\ ChangesExact
      BY <2>3 DEF RunInv
    <3>4. /\ p.failed = {} /\ p.rows = rows /\ p.published = published
          /\ p.changedRows = changedRows
      BY <2>2, <3>2, <3>3, RunAgrees
    <3>5. \A i \in Items : Moved(i) <=> OwnedRows[i] \cap changedRows # {}
      <4>1. \A i \in Items : OwnedRows[i] \in SUBSET Rows
        BY OwnershipAssumption DEF ValidOwnership
      <4>. QED BY <3>3, <4>1 DEF Moved, ChangesExact
    <3>. QED BY <3>1, <3>3, <3>4, <3>5 DEF ChangesExact
  <2>4. ASSUME result.status \in {"Failed", "Panicked"}, ~cancelFlag
        PROVE  /\ result.item \in p.failed /\ \A i \in p.failed : result.item <= i
               /\ result.status = FailureKind(result.item)
    <3>1. phase = "done" /\ cancelFlag = FALSE
      BY <2>4 DEF PhaseOK, ReturnedExact, PubTypeOK, NotReturned
    <3>. QED BY <2>2, <2>4, <3>1 DEF RunInv, ReturnsLeast
  <2>. QED BY <2>3, <2>4 DEF ResultMatchesReference, p
<1>. QED BY <1>1, RunInvariance, PubInvariance, PTL
=============================================================================
