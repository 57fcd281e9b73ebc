----------------------------- MODULE MappedTiming -----------------------------
(* One transaction over the mapped netlist and every timing owner (opto-synth, *)
(* closure/mapped_timing.rs): the mapped edit is applied first, then each      *)
(* owner in turn; a failure anywhere rolls the owners back in reverse and the  *)
(* netlist last. Between transactions callers query the owners.                *)
EXTENDS IncrementalTiming

CONSTANTS
    OwnerOrder,     \* the owners as the slice lists them
    Design,         \* the instances of the initial netlist
    NetCount,       \* its nets
    Deltas,         \* the region deltas explored: maps from ids to instances
    MaxEdits        \* bound on the number of transactions

\* The instances a run may meet, and whether their nets can be put in an order
\* in which every gate's output follows its inputs.
Instances == {Design[i] : i \in Ids} \cup UNION {{delta[i] : i \in DOMAIN delta} : delta \in Deltas}
Acyclic(inst, count) ==
    \E place \in [1..count -> 1..count] :
        \A e \in Edges([inst |-> inst]) : place[e[1]] < place[e[2]]

\* The slice lists every owner once.
ASSUME OwnersAssumption ==
    OwnerOrder \in Seq(Owners) /\ IsInjective(OwnerOrder) /\ ToSet(OwnerOrder) = Owners
\* Libraries and constraints are numbers.
ASSUME LibraryAssumption ==
    /\ \A o \in Owners :
          /\ Slope[o] \in Int
          /\ \A n \in DOMAIN Resistance[o] : Resistance[o][n] \in Int
          /\ \A c \in DOMAIN Kind : Library[o][c].delay \in Int /\ Library[o][c].cap \in Int
\* The design has no combinational loop; an instance has its cell's pins.
ASSUME DesignAssumption ==
    /\ IsFiniteSet(Ids) /\ Ids = 1..Cardinality(Ids)
    /\ \A instance \in Instances \ {Absent} :
          instance \in [cell : DOMAIN Kind, ins : Seq(Nat \ {0}), out : Nat \ {0}]
    /\ \A old, new \in Instances \ {Absent} : old.cell = new.cell => Len(old.ins) = Len(new.ins)
    /\ Design = [i \in Ids |-> Design[i]] /\ NetCount \in Nat
    /\ \A i \in Ids : InstanceNets(Design[i]) \subseteq 1..NetCount
    /\ Acyclic(Design, NetCount)
    /\ \A delta \in Deltas : DOMAIN delta \subseteq Ids /\ delta = [i \in DOMAIN delta |-> delta[i]]

VARIABLES
    mapped,     \* the instances of the mapped netlist
    timing,     \* timing[o]: the owner's state
    edit,       \* the open transaction, or NoEdit
    begun,      \* transactions begun
    unrestored  \* owners whose last rollback reported a failure

vars == <<mapped, timing, edit, begun, unrestored>>

NoEdit == [timing |-> <<>>]

Init ==
    /\ mapped = Design
    /\ timing = [o \in Owners |-> NewOwner(o, Design, NetCount)]
    /\ edit = NoEdit
    /\ begun = 0
    /\ unrestored = {}

Overlay(inst, delta) == [i \in Ids |-> IF i \in DOMAIN delta THEN delta[i] ELSE inst[i]]

\* A delta against the present netlist. A removal names a present instance and
\* a new net is the next one.
Applicable(delta) ==
    \A i \in DOMAIN delta :
        /\ delta[i] = Absent => mapped[i] # Absent
        /\ \A o \in Owners : InstanceNets(delta[i]) \subseteq 1..timing[o].graph.nets + 1

\* The place of an owner in the slice.
Slot(o) == CHOOSE k \in DOMAIN OwnerOrder : OwnerOrder[k] = o

\* The owners that have one of the edits, which are those of the first ones.
Edited(edits) == {OwnerOrder[k] : k \in DOMAIN edits}

\* Mutant: the first owner is skipped.
RollbackTimingButFirst(owners, edits, failing) ==
    [o \in Owners |-> IF o \in Edited(edits) /\ Slot(o) # 1
                      THEN Rollback(owners[o], edits[Slot(o)], o \in failing) ELSE owners[o]]

\* rollback_timing: the owners that have an edit, each on its own, go back. A
\* failure of one does not stop the others, so their order does not matter.
RollbackTiming(owners, edits, failing) ==
    [o \in Owners |-> IF o \in Edited(edits)
                      THEN Rollback(owners[o], edits[Slot(o)], o \in failing) ELSE owners[o]]

\* The loop over the owners stops at the first that refuses, which may have
\* changed too; answer is what each owner does when it is its turn.
UpToRefusal(answer) ==
    LET refusing == {k \in DOMAIN OwnerOrder : ~answer[OwnerOrder[k]].ok}
        edited == IF refusing = {} THEN Len(OwnerOrder) ELSE Min(refusing) - 1
    IN  [ok |-> refusing = {},
         timing |-> [o \in Owners |-> IF Slot(o) <= edited + 1 THEN answer[o].owner ELSE timing[o]],
         edits |-> [k \in 1..edited |-> answer[OwnerOrder[k]].edit]]

ApplyTiming(delta, defer, failure) ==
    UpToRefusal([o \in Owners |->
                   ApplyRegionDelta(o, timing[o], delta, defer,
                                    IF failure.owner = o THEN failure.stage ELSE "none")])

NoFailure == [owner |-> "none", stage |-> "none"]
Failures == {NoFailure} \cup [owner : Owners, stage : {"sync", "graph", "rows"}]

\* The end of apply: a transaction, or the owners that were edited and the
\* netlist rolled back.
Applied(delta, applied) ==
    IF applied.ok
    THEN /\ mapped' = Overlay(mapped, delta)
         /\ timing' = applied.timing
         /\ edit' = [timing |-> applied.edits, mapped |-> mapped]
         /\ UNCHANGED unrestored
    ELSE /\ \E failing \in SUBSET Edited(applied.edits) :
              /\ timing' = RollbackTiming(applied.timing, applied.edits, failing)
              /\ unrestored' = unrestored \cup failing
         /\ UNCHANGED <<mapped, edit>>

\* begin, or begin_optimization when defer. A stale or invalid mapped delta
\* changes nothing and is not shown; a failing conversion to a timing delta
\* rolls the mapped edit back and leaves as little. An empty timing delta
\* opens a transaction without owner edits.
Begin(delta, defer, failure) ==
    /\ edit = NoEdit
    /\ begun < MaxEdits
    /\ Applicable(delta)
    /\ begun' = begun + 1
    /\ Applied(delta, IF delta = <<>>
                      THEN [ok |-> TRUE, timing |-> timing, edits |-> <<>>]
                      ELSE ApplyTiming(delta, defer, failure))

\* rollback_applied, for an explicit rollback and for a failed commit. edit
\* .mapped stands for the undo record of the mapped netlist.
RollbackApplied(owners, failing) ==
    /\ failing \subseteq Edited(edit.timing)
    /\ timing' = RollbackTiming(owners, edit.timing, failing)
    /\ mapped' = edit.mapped
    /\ edit' = NoEdit
    /\ unrestored' = unrestored \cup failing
    /\ UNCHANGED begun

PreparedUpTo(k) ==
    [o \in Owners |-> IF \E j \in 1..k : OwnerOrder[j] = o
                      THEN PrepareCommit(timing[o]) ELSE timing[o]]

RollbackEdit(failing) ==
    /\ edit # NoEdit
    /\ RollbackApplied(timing, failing)

\* commit_with when the k-th preparation, or after all of them the caller's
\* publication, fails.
CommitFails(k, failing) ==
    /\ edit # NoEdit
    /\ RollbackApplied(PreparedUpTo(k), failing)

Commit ==
    /\ edit # NoEdit
    /\ LET prepared == PreparedUpTo(Len(edit.timing)) IN
       /\ \A k \in DOMAIN edit.timing :
            prepared[OwnerOrder[k]].active /\ prepared[OwnerOrder[k]].prepared
       /\ timing' = [o \in Owners |-> IF o \in Edited(edit.timing)
                                      THEN CommitPrepared(prepared[o]) ELSE prepared[o]]
    /\ edit' = NoEdit
    /\ UNCHANGED <<mapped, begun, unrestored>>

\* A critical-frontier query of an owner without an edit.
QueryFrontier(o) ==
    /\ ~timing[o].active
    /\ \E fails \in BOOLEAN : timing' = [timing EXCEPT ![o] = SynchronizeRequireds(o, @, fails)]
    /\ UNCHANGED <<mapped, edit, begun, unrestored>>

\* electrical_snapshot fills the cache; it may be asked for at any time.
QuerySnapshot(o) ==
    /\ timing' = [timing EXCEPT ![o].snapshot =
                    IF @ = NoSnapshot THEN ElectricalSnapshot(o, timing[o]) ELSE @]
    /\ UNCHANGED <<mapped, edit, begun, unrestored>>

Next ==
    \/ \E delta \in Deltas, defer \in BOOLEAN, failure \in Failures :
         Begin(delta, defer, failure)
    \/ \E failing \in SUBSET Owners :
         \/ RollbackEdit(failing)
         \/ \E k \in 0..Len(edit.timing) : CommitFails(k, failing)
    \/ Commit
    \/ \E o \in Owners : QueryFrontier(o) \/ QuerySnapshot(o)

Spec == Init /\ [][Next]_vars

-----------------------------------------------------------------------------
(* Properties.                                                               *)

\* Every owner times the netlist as it is: outside a transaction none has an
\* edit, inside one all have, and the graph of each holds exactly the mapped
\* instances, whatever failed on the way.
ViewsAligned ==
    \A o \in Owners :
        /\ timing[o].graph.inst = mapped
        /\ timing[o].active = (edit # NoEdit /\ edit.timing # <<>>)
        /\ ~timing[o].prepared

\* An order that is not stale is a topological order of the present graph, and
\* the dependency plan has the present edges.
OrderCurrent(g) ==
    g.stale \/ /\ g.plan = Edges(g)
               /\ ToSet(g.order) = Nets(g) /\ Len(g.order) = g.nets
               /\ \A e \in Edges(g) : Position(g, e[1]) < Position(g, e[2])

ArrivalsOf(o) ==
    LET g == BuildGraph(o, timing[o].graph.inst, timing[o].graph.nets) IN
    UpdateArrivals(o, g, EmptyRows(g.nets, NoRow), Nets(g)).arr

\* No net with a resistance feeds the net, directly or through gates.
Shielded(o, g, n) ==
    \A m \in Upstream(Edges(g), Predecessors(g, n)) : NetResistance(o, m) = 0

\* After any mixture of applied, failed, committed and rolled back edits the
\* loads, the design-rule values and the arrival row of every net that is not
\* downstream of a resistance, recomputed only where a change was seen, are
\* those of a full propagation; the order and the plan they are computed in
\* fit the graph.
ForwardExact ==
    \A o \in Owners :
        LET g == timing[o].graph
            exact == ArrivalsOf(o)
        IN
        /\ OrderCurrent(g)
        /\ g.load = InstanceLoads(o, g.inst, g.nets)
        /\ DOMAIN timing[o].arr = Nets(g)
        /\ \A n \in Nets(g) : Shielded(o, g, n) => timing[o].arr[n] = exact[n]
        /\ timing[o].rules = DesignRuleBuild(o, g, timing[o].arr)

\* The summary an optimizer reads at once: each endpoint of the graph has an
\* entry on its own net with the slack of the current arrivals, and no other
\* entry has a slack.
ClosureCurrent ==
    \A o \in Owners :
        LET built == ClosureBuild(o, timing[o].graph, timing[o].arr)
            closure == timing[o].closure
        IN  /\ DOMAIN built \subseteq DOMAIN closure
            /\ \A key \in DOMAIN closure :
                 IF key \in DOMAIN built THEN closure[key] = built[key]
                 ELSE closure[key].slack = NoTime

RequiredsOf(o) ==
    LET g == BuildGraph(o, timing[o].graph.inst, timing[o].graph.nets) IN
    UpdateRequireds(o, g, timing[o].arr, EmptyRows(g.nets, NoTime), Nets(g)).req

\* A required row not marked dirty, nor upstream of a mark, is the one a full
\* propagation computes; so the next frontier query sees exact rows. Marks
\* survive a rollback of a later edit and go with a rollback of their own.
RequiredsCurrentFor(o) ==
    LET g == timing[o].graph
        exact == RequiredsOf(o)
    IN  \A n \in Nets(g) \ Upstream(Edges(g), timing[o].required_dirty) :
            timing[o].req[n] = exact[n]

\* RequiredsCurrentFor the owners whose library has load-independent delays.
RequiredsCurrent == \A o \in Owners : Slope[o] = 0 => RequiredsCurrentFor(o)

\* Equivalence to full recomputation, without these restrictions: the arrival
\* rows of all nets, those behind a drive or net resistance too, and the
\* required rows of every owner that no mark covers, are those of a full
\* propagation; that is, the seeds an edit derives are exact.
RowsAlwaysExact ==
    \A o \in Owners : timing[o].arr = ArrivalsOf(o) /\ RequiredsCurrentFor(o)

\* A cached electrical snapshot describes the present graph and arrivals,
\* except after a rollback that reported a failure.
SnapshotCurrent ==
    \A o \in Owners \ unrestored :
        timing[o].snapshot # NoSnapshot => timing[o].snapshot = ElectricalSnapshot(o, timing[o])
=============================================================================
