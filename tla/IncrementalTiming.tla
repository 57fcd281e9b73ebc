-------------------------- MODULE IncrementalTiming --------------------------
(* One incremental timing owner (opto-timing, engine/incremental.rs,         *)
(* engine/incremental/transaction.rs, analysis.rs, analysis/required.rs,     *)
(* analysis/arrival.rs, analysis/closure.rs, analysis/topology/region.rs).   *)
(* An owner keeps a timing graph and, derived from it, arrival rows,         *)
(* required rows, endpoint slacks and design-rule values. A region edit      *)
(* replaces some instances and recomputes only what the change reaches; each *)
(* layer journals what it overwrites so that the edit can be rolled back.    *)
(* Times are integers, a net has one row, a gate one output, and a flop      *)
(* launches at its output and is checked at its only input.                  *)
EXTENDS Integers, Sequences, FiniteSets, SequencesExt, FiniteSetsExt, TLC

CONSTANTS
    Owners,         \* the timing views of the design
    Ids,            \* instance identities, 1..k
    Kind,           \* Kind[c]: cell c is a "gate" or a "flop"
    Library,        \* Library[o][c]: delay and input capacitance of cell c
    Slope,          \* Slope[o]: delay and transition per unit of load
    Resistance,     \* Resistance[o]: drive or net resistance of the nets that have one
    InputNets,      \* nets of the input ports
    PortRequired,   \* PortRequired[o]: required time of each output port's net
    Period          \* Period[o]: required time at a flop's data pin

Absent == [cell |-> "absent"]
NoRow == [delay |-> -1, transition |-> -1]
NoTime == 999       \* None, as a required time or a slack
NoSnapshot == <<>>

Nets(g) == 1..g.nets
OutputNets(o) == DOMAIN PortRequired[o]

(* Dense rows, one per net.                                                  *)
EmptyRows(count, row) == [n \in 1..count |-> row]

\* Journaled rows go back, then the appended ones are dropped.
RestoreRows(rows, journal, count) ==
    SubSeq([n \in DOMAIN rows |-> IF n \in DOMAIN journal THEN journal[n] ELSE rows[n]], 1, count)

-----------------------------------------------------------------------------
(* The graph. A net has one position; it is never renumbered.                *)

Present(g) == {i \in Ids : g.inst[i] # Absent}
Gates(g) == {i \in Present(g) : Kind[g.inst[i].cell] = "gate"}
Flops(g) == Present(g) \ Gates(g)

InstanceNets(instance) ==
    IF instance = Absent THEN {} ELSE ToSet(instance.ins) \cup {instance.out}

Edges(g) == UNION {ToSet(g.inst[i].ins) \X {g.inst[i].out} : i \in Gates(g)}

\* What the input pins of an instance add to the load of a net.
PinLoad(o, instance, n) ==
    IF instance = Absent THEN 0
    ELSE Library[o][instance.cell].cap * Cardinality({k \in DOMAIN instance.ins : instance.ins[k] = n})

\* The capacitive loads after adding (direction 1) or removing (-1) the input
\* pins of one instance.
AdjustInstanceLoads(o, load, instance, direction) ==
    [n \in DOMAIN load |-> load[n] + direction * PinLoad(o, instance, n)]

\* The same for the instances of a region, one after the other.
AdjustRegionLoads(o, load, inst, region, direction) ==
    LET adjusted[i \in 0..Cardinality(Ids)] ==
          IF i = 0 THEN load
          ELSE IF i \notin region THEN adjusted[i - 1]
          ELSE AdjustInstanceLoads(o, adjusted[i - 1], inst[i], direction)
    IN  adjusted[Cardinality(Ids)]

Position(g, n) == CHOOSE k \in DOMAIN g.order : g.order[k] = n

\* The nets from which some net of targets can be reached.
Upstream(edges, targets) ==
    LET grown[k \in 0..Cardinality(edges)] ==
          IF k = 0 THEN targets
          ELSE grown[k - 1] \cup {e[1] : e \in {d \in edges : d[2] \in grown[k - 1]}}
    IN  grown[Cardinality(edges)]

\* Which of the ready nets comes first does not matter; here the least does.
TopologicalOrder(g) ==
    LET edges == Edges(g)
        placed[k \in 0..g.nets] ==
          IF k = 0 THEN <<>>
          ELSE LET done == ToSet(placed[k - 1])
                   ready == {n \in Nets(g) \ done :
                               \A e \in edges : e[2] = n => e[1] \in done}
               IN  IF ready = {} THEN placed[k - 1] ELSE Append(placed[k - 1], Min(ready))
    IN  placed[g.nets]

EnsureTopologicalOrder(g) ==
    IF ~g.stale THEN g
    ELSE [g EXCEPT !.order = TopologicalOrder(g), !.plan = Edges(g), !.stale = FALSE,
                   !.generation = @ + 1]

\* Mutant: an instance with changed inputs does not seed its outputs.
RegionDirtyChangedPins(g, delta) ==
    LET dirty(i) ==
          LET old == g.inst[i]
              new == delta[i]
          IN  IF old = new THEN {}
              ELSE IF old # Absent /\ new # Absent /\ old.cell = new.cell
              THEN UNION {{old.ins[k], new.ins[k]} :
                            k \in {j \in DOMAIN old.ins : old.ins[j] # new.ins[j]}}
              ELSE InstanceNets(old) \cup InstanceNets(new)
    IN  UNION {dirty(i) : i \in DOMAIN delta}

\* The seeds of an edit: nothing for an unchanged instance; the nets of the
\* changed pins and of the outputs when only connections changed; else every
\* net of the old and the new instance.
InstanceRegionDirtyNets(g, delta) ==
    LET dirty(i) ==
          LET old == g.inst[i]
              new == delta[i]
          IN  IF old = new THEN {}
              ELSE IF old # Absent /\ new # Absent /\ old.cell = new.cell
              THEN {old.out, new.out}
                   \cup UNION {{old.ins[k], new.ins[k]} :
                                 k \in {j \in DOMAIN old.ins : old.ins[j] # new.ins[j]}}
              ELSE InstanceNets(old) \cup InstanceNets(new)
    IN  UNION {dirty(i) : i \in DOMAIN delta}

AddedEdgesCreateCycle(g, added) ==
    \E e \in added :
        \/ e[1] = e[2]
        \/ /\ g.stale \/ Position(g, e[1]) >= Position(g, e[2])
           /\ e[2] \in Upstream(Edges(g), {e[1]})

\* The loads, with a zero for each new net, after the region's old instances
\* were taken off and its new ones put on, instance by instance.
RegionLoads(o, g, delta, nets) ==
    LET grown == g.load \o EmptyRows(nets - g.nets, 0)
        without == AdjustRegionLoads(o, grown, g.inst, DOMAIN delta, -1)
    IN  AdjustRegionLoads(o, without, delta, DOMAIN delta, 1)

\* replace_instance_region before its cycle check is acted on: the graph, its
\* journal and the seeds.
ReplaceInstanceRegion(o, g, delta) ==
    LET touched == UNION {InstanceNets(g.inst[i]) \cup InstanceNets(delta[i]) : i \in DOMAIN delta}
        nets == Max({g.nets} \cup touched)
        replaced == [g EXCEPT !.nets = nets,
                              !.inst = [i \in Ids |-> IF i \in DOMAIN delta THEN delta[i] ELSE @[i]],
                              !.load = RegionLoads(o, g, delta, nets)]
        changed == nets # g.nets \/ Edges(replaced) # Edges(g)
        ordered == [replaced EXCEPT !.order =
                      IF changed THEN @ \o [k \in 1..nets - g.nets |-> g.nets + k] ELSE @]
    IN  [graph |-> [ordered EXCEPT !.stale = @ \/ changed],
         journal |-> [old_inst |-> [i \in DOMAIN delta |-> g.inst[i]], old_net_len |-> g.nets,
                      old_nets |-> [n \in touched \cap Nets(g) |-> g.load[n]],
                      structure_changed |-> changed, old_order_len |-> Len(g.order),
                      was_stale |-> g.stale, old_generation |-> g.generation],
         dirty |-> InstanceRegionDirtyNets(g, delta),
         cycle |-> AddedEdgesCreateCycle(ordered, Edges(ordered) \ Edges(g))]

\* A recomputed order without the nets that go.
WithoutNewNets(order, count) == SelectSeq(order, LAMBDA n : n <= count)

RollbackInstanceRegion(g, journal) ==
    LET restored == [g EXCEPT !.nets = journal.old_net_len,
                              !.load = RestoreRows(@, journal.old_nets, journal.old_net_len),
                              !.inst = [i \in Ids |-> IF i \in DOMAIN journal.old_inst
                                                      THEN journal.old_inst[i] ELSE @[i]]]
    IN  IF ~journal.structure_changed THEN restored
        ELSE IF g.generation = journal.old_generation
        THEN [restored EXCEPT !.order = SubSeq(@, 1, journal.old_order_len),
                              !.stale = journal.was_stale]
        ELSE [restored EXCEPT !.order = WithoutNewNets(@, journal.old_net_len),
                              !.stale = TRUE]

-----------------------------------------------------------------------------
(* Arrival rows.                                                             *)

OutputTransition(o, g, n) == Slope[o] * g.load[n]

\* The drive resistance of a port's net plus the resistance set on the net.
NetResistance(o, n) == IF n \in DOMAIN Resistance[o] THEN Resistance[o][n] ELSE 0

\* sink_interconnect_delay: from a net's driver to each of its sinks.
WireDelay(o, g, n) == NetResistance(o, n) * g.load[n]

ArcDelay(o, g, i, row) ==
    Library[o][g.inst[i].cell].delay + Slope[o] * g.load[g.inst[i].out] + row.transition

Launches(o, g, n) ==
    {[delay |-> 0, transition |-> 0] : p \in InputNets \cap {n}}
    \cup {[delay |-> ArcDelay(o, g, i, [transition |-> 0]),
           transition |-> OutputTransition(o, g, n)] : i \in {j \in Flops(g) : g.inst[j].out = n}}

\* Seeding and propagating one row: the latest candidate is kept.
PropagateSlots(o, g, arr, n) ==
    LET drivers == {i \in Gates(g) : g.inst[i].out = n}
        through(i) == {[delay |-> arr[f].delay + WireDelay(o, g, f) + ArcDelay(o, g, i, arr[f]),
                        transition |-> OutputTransition(o, g, n)] :
                         f \in {m \in ToSet(g.inst[i].ins) : arr[m] # NoRow}}
        candidates == Launches(o, g, n) \cup UNION {through(i) : i \in drivers}
    IN  IF candidates = {} THEN NoRow
        ELSE CHOOSE c \in candidates : \A d \in candidates : d.delay <= c.delay

\* A row's first journaled value stays.
Journaled(journal, n, row) ==
    [m \in DOMAIN journal \cup {n} |-> IF m \in DOMAIN journal THEN journal[m] ELSE row]

Successors(g, n) == {e[2] : e \in {d \in Edges(g) : d[1] = n}}
Predecessors(g, n) == {e[1] : e \in {d \in Edges(g) : d[2] = n}}

\* One net of the frontier: it is recomputed when it is a seed or a predecessor
\* changed.
VisitArrival(o, g, acc, n) ==
    LET row == PropagateSlots(o, g, acc.arr, n)
        changes == row # acc.arr[n]
    IN  IF n \notin acc.active THEN acc
        ELSE [arr |-> [acc.arr EXCEPT ![n] = row],
              journal |-> Journaled(acc.journal, n, acc.arr[n]),
              changed |-> IF changes THEN acc.changed \cup {n} ELSE acc.changed,
              active |-> IF changes THEN acc.active \cup Successors(g, n) ELSE acc.active]

\* The frontier in topological order.
UpdateArrivals(o, g, arr, seeds) ==
    LET visited[k \in 0..Len(g.order)] ==
          IF k = 0 THEN [arr |-> arr, journal |-> <<>>, changed |-> {}, active |-> seeds]
          ELSE VisitArrival(o, g, visited[k - 1], g.order[k])
    IN  visited[Len(g.order)]

-----------------------------------------------------------------------------
(* Required rows. A row exists only where something arrives.                 *)

RequiredSlots(o, g, arr, req, n) ==
    LET fanout == {i \in Gates(g) : n \in ToSet(g.inst[i].ins) /\ req[g.inst[i].out] # NoTime}
        candidates ==
            {PortRequired[o][n] : p \in OutputNets(o) \cap {n}}
            \cup {Period[o] : i \in {j \in Flops(g) : n \in ToSet(g.inst[j].ins)}}
            \cup {req[g.inst[i].out] - ArcDelay(o, g, i, arr[n]) : i \in fanout}
    IN  IF arr[n] = NoRow \/ candidates = {} THEN NoTime
        ELSE Min(candidates) - WireDelay(o, g, n)

VisitRequired(o, g, arr, acc, n) ==
    LET row == RequiredSlots(o, g, arr, acc.req, n)
    IN  IF n \notin acc.active THEN acc
        ELSE [req |-> [acc.req EXCEPT ![n] = row],
              journal |-> Journaled(acc.journal, n, acc.req[n]),
              active |-> IF row = acc.req[n] THEN acc.active
                         ELSE acc.active \cup Predecessors(g, n)]

\* The frontier in reverse topological order.
UpdateRequireds(o, g, arr, req, seeds) ==
    LET visited[k \in 0..Len(g.order)] ==
          IF k = 0 THEN [req |-> req, journal |-> <<>>, active |-> seeds]
          ELSE VisitRequired(o, g, arr, visited[k - 1], g.order[Len(g.order) + 1 - k])
    IN  visited[Len(g.order)]

-----------------------------------------------------------------------------
(* Endpoint slacks: one entry per output port and one per checked flop, with *)
(* the net the entry is indexed by.                                          *)

PortKeys(o) == {<<"port", n>> : n \in OutputNets(o)}
CheckKeys(g) == {<<"check", i>> : i \in Flops(g)}

EvaluateEndpoint(o, g, arr, key, net) ==
    IF arr[net] = NoRow \/ (key[1] = "check" /\ key[2] \notin Flops(g)) THEN NoTime
    ELSE (IF key[1] = "port" THEN PortRequired[o][net] ELSE Period[o])
         - (arr[net].delay + WireDelay(o, g, net))

EndpointNet(g, key) == IF key[1] = "port" THEN key[2] ELSE g.inst[key[2]].ins[1]

ClosureBuild(o, g, arr) ==
    [key \in PortKeys(o) \cup CheckKeys(g) |->
        [net |-> EndpointNet(g, key),
         slack |-> EvaluateEndpoint(o, g, arr, key, EndpointNet(g, key))]]

\* Entries of the affected instances are rebuilt when the caller names them;
\* then what sits on a changed net, or moved, is evaluated again.
ClosureUpdate(o, g, arr, closure, changedNets, affected) ==
    LET keys == (DOMAIN closure \ {<<"check", i>> : i \in affected})
                \cup {key \in CheckKeys(g) : key[2] \in affected}
        net(key) == IF key[1] = "check" /\ key[2] \in affected
                    THEN EndpointNet(g, key) ELSE closure[key].net
        target(key) == \/ key \notin DOMAIN closure
                       \/ net(key) # closure[key].net
                       \/ net(key) \in changedNets
    IN  [key \in keys |->
           IF target(key)
           THEN [net |-> net(key), slack |-> EvaluateEndpoint(o, g, arr, key, net(key))]
           ELSE closure[key]]

\* What the update overwrote, took out and put in.
ClosureJournal(closure, updated) ==
    [previous |-> [key \in {k \in DOMAIN closure :
                              k \notin DOMAIN updated \/ updated[k] # closure[k]} |-> closure[key]],
     inserted |-> DOMAIN updated \ DOMAIN closure]

\* Mutant: endpoints the edit inserted stay.
ClosureRollbackKeepingInserted(closure, journal) == journal.previous @@ closure

ClosureRollback(closure, journal) ==
    journal.previous @@ [key \in DOMAIN closure \ journal.inserted |-> closure[key]]

-----------------------------------------------------------------------------
(* Design-rule values.                                                       *)

RecomputeRule(o, g, arr, n) == <<g.load[n], arr[n].transition>>

DesignRuleBuild(o, g, arr) == [n \in Nets(g) |-> RecomputeRule(o, g, arr, n)]

DesignRuleUpdate(o, g, arr, rules, changedNets, structureChanged) ==
    IF structureChanged THEN DesignRuleBuild(o, g, arr)
    ELSE [n \in DOMAIN rules |-> IF n \in changedNets THEN RecomputeRule(o, g, arr, n)
                                 ELSE rules[n]]

\* The rules of the changed nets, or all of them when they were rebuilt.
DesignRuleJournal(rules, changedNets, structureChanged) ==
    [n \in IF structureChanged THEN DOMAIN rules ELSE DOMAIN rules \cap changedNets |-> rules[n]]

DesignRuleRollback(rules, journal, count) ==
    [n \in 1..count |-> IF n \in DOMAIN journal THEN journal[n] ELSE rules[n]]

-----------------------------------------------------------------------------
(* An owner.                                                                 *)

PropagateAll(o, g) ==
    LET arr == UpdateArrivals(o, g, EmptyRows(g.nets, NoRow), Nets(g)).arr
    IN  [arr |-> arr,
         req |-> UpdateRequireds(o, g, arr, EmptyRows(g.nets, NoTime), Nets(g)).req]

InstanceLoads(o, inst, nets) ==
    AdjustRegionLoads(o, EmptyRows(nets, 0), inst, Ids, 1)

BuildGraph(o, inst, nets) ==
    EnsureTopologicalOrder([inst |-> inst, nets |-> nets, load |-> InstanceLoads(o, inst, nets),
                            order |-> <<>>, plan |-> {}, stale |-> TRUE, generation |-> 0])

NewOwner(o, inst, nets) ==
    LET g == BuildGraph(o, inst, nets)
        rows == PropagateAll(o, g)
    IN  [graph |-> g, arr |-> rows.arr, req |-> rows.req,
         closure |-> ClosureBuild(o, g, rows.arr), rules |-> DesignRuleBuild(o, g, rows.arr),
         required_dirty |-> {}, active |-> FALSE, prepared |-> FALSE, snapshot |-> NoSnapshot]

ElectricalSnapshot(o, t) ==
    [n \in Nets(t.graph) |-> <<t.graph.load[n], t.arr[n].transition>>]

\* synchronize_requireds. When the propagation fails the rows are put back and
\* the marks stay; the order has been brought up to date.
SynchronizeRequireds(o, t, fails) ==
    LET g == EnsureTopologicalOrder(t.graph)
    IN  IF t.required_dirty = {} THEN t
        ELSE IF fails THEN [t EXCEPT !.graph = g]
        ELSE [t EXCEPT !.graph = g, !.required_dirty = {},
                       !.req = UpdateRequireds(o, g, t.arr, @, t.required_dirty).req]

Refused(t) == [ok |-> FALSE, owner |-> t, edit |-> <<>>]

\* What follows the topology in apply_region_delta_inner: order, propagation,
\* closure, rules. stage tells what fails, "none" if nothing does: "graph"
\* stands for the model, the growth of the rows and the order, "rows" for
\* propagation (which puts back the rows it wrote) and for closure.
AfterTopology(o, t, delta, defer, stage, region) ==
    LET count == region.graph.nets - t.graph.nets
        undone(g) == [t EXCEPT !.graph = RollbackInstanceRegion(g, region.journal)]
        g == EnsureTopologicalOrder(region.graph)
        changed == region.journal.structure_changed
        forward == UpdateArrivals(o, g, t.arr \o EmptyRows(count, NoRow), region.dirty)
        req == t.req \o EmptyRows(count, NoTime)
        required == region.dirty \cup forward.changed
        backward == IF defer THEN [req |-> req, journal |-> <<>>]
                    ELSE UpdateRequireds(o, g, forward.arr, req, required)
        closure == ClosureUpdate(o, g, forward.arr, t.closure, DOMAIN forward.journal,
                                 IF changed THEN DOMAIN delta ELSE {})
        deferred == IF defer THEN required \ t.required_dirty ELSE {}
    IN  IF region.cycle \/ stage = "graph" THEN Refused(undone(region.graph))
        ELSE IF stage = "rows"
        THEN   Refused([undone(g) EXCEPT
                  !.arr = RestoreRows(forward.arr, forward.journal, t.graph.nets),
                  !.req = RestoreRows(backward.req, backward.journal, t.graph.nets)])
        ELSE   [ok |-> TRUE,
                owner |-> [t EXCEPT
                   !.graph = g, !.arr = forward.arr, !.req = backward.req,
                   !.closure = closure,
                   !.rules = DesignRuleUpdate(o, g, forward.arr, @, DOMAIN forward.journal, changed),
                   !.required_dirty = @ \cup deferred,
                   !.active = TRUE, !.prepared = FALSE, !.snapshot = NoSnapshot],
                edit |-> [graph |-> region.journal, arrivals |-> forward.journal,
                          requireds |-> backward.journal,
                          closure |-> ClosureJournal(t.closure, closure),
                          rules |-> DesignRuleJournal(t.rules, DOMAIN forward.journal, changed),
                          required_dirty |-> deferred, snapshot |-> t.snapshot]]

ApplyRegionDeltaInner(o, t, delta, defer, stage) ==
    AfterTopology(o, t, delta, defer, stage, ReplaceInstanceRegion(o, t.graph, delta))

\* apply_region_delta, or apply_optimization_region_delta when defer.
ApplyRegionDelta(o, t, delta, defer, stage) ==
    IF t.active THEN Refused(t)
    ELSE IF stage = "sync" /\ ~defer /\ t.required_dirty # {}
    THEN Refused(SynchronizeRequireds(o, t, TRUE))
    ELSE ApplyRegionDeltaInner(o, IF defer THEN t ELSE SynchronizeRequireds(o, t, FALSE),
                               delta, defer, stage)

\* Mutant: every mark is cleared, those of committed edits too.
RestoredMarksNone(t, edit, count) == {}

\* The marks of the edit, and those beyond the restored nets, go.
RestoredMarks(t, edit, count) == (t.required_dirty \ edit.required_dirty) \cap 1..count

\* Mutant: the snapshot taken during the edit stays.
RestoredSnapshotKept(t, edit, fails) == t.snapshot

\* When the closing compaction fails the snapshot is left alone.
RestoredSnapshot(t, edit, fails) == IF fails THEN t.snapshot ELSE edit.snapshot

\* IncrementalTiming::rollback.
Rollback(t, edit, fails) ==
    LET g == RollbackInstanceRegion(t.graph, edit.graph)
    IN  [t EXCEPT
           !.graph = IF edit.graph.structure_changed THEN EnsureTopologicalOrder(g) ELSE g,
           !.arr = RestoreRows(@, edit.arrivals, g.nets),
           !.req = RestoreRows(@, edit.requireds, g.nets),
           !.closure = ClosureRollback(@, edit.closure),
           !.rules = DesignRuleRollback(@, edit.rules, g.nets),
           !.required_dirty = RestoredMarks(t, edit, g.nets),
           !.active = FALSE, !.prepared = FALSE,
           !.snapshot = RestoredSnapshot(t, edit, fails)]

PrepareCommit(t) == [t EXCEPT !.prepared = TRUE]
CommitPrepared(t) == [t EXCEPT !.active = FALSE, !.prepared = FALSE]
=============================================================================
