----------------------------- MODULE MappedEdit -----------------------------
(* Optimistic region edits of the mapped netlist (opto-ir, mapped/edit.rs,   *)
(* mapped/edit/transaction.rs, mapped/edit/helpers.rs). Workers capture the  *)
(* versions of a region, plan a delta against it, and the owner of the       *)
(* netlist applies deltas one at a time: each is checked against the present *)
(* versions, validated as a whole, and applied operation by operation while  *)
(* an undo record collects the first value of everything it overwrites. The  *)
(* holder of an undo record drops it (commit) or rolls the netlist back.     *)
EXTENDS MappedNetlist, TLC

CONSTANTS
    Workers,        \* who may hold a snapshot
    Designs,        \* the designs a netlist is built from
    NetNames,       \* names a plan may give a net, NoName among them
    CellNames,      \* names a plan may give a cell
    CellTypes,      \* types a plan may give a cell
    AddedArities,   \* numbers of pins of an added cell
    PlanLimits,     \* the bounds explored: limits[r + 1] bounds the operations of
                    \* a plan applied at revision r; there are Len(limits) edits
    MaxNets, MaxCells, MaxPins, MaxNames,   \* arena capacities
    DuringTrial,    \* whether snapshots are taken while an undo record is
                    \* outstanding
    SelfConflicting \* whether a plan may reconnect a pin of a cell, or to a net,
                    \* that the same plan removes

\* A design names its nets, cells and instances in order, and a cell of it is
\* connected to nets of the design.
ASSUME DesignsAssumption ==
    \A design \in Designs :
        /\ design.nets \in Seq(ToSet(design.nets))
        /\ design.cells \in Seq(ToSet(design.cells))
        /\ design.instances \in Seq(ToSet(design.instances))
        /\ \A i \in DOMAIN design.cells :
             design.cells[i].signals \in Seq(0..Len(design.nets))

ASSUME PlansAssumption ==
    /\ \A bounds \in PlanLimits : bounds \in Seq(Nat)
    /\ AddedArities \subseteq Nat

VARIABLES netlist, snapshots, undo, limits

vars == <<netlist, snapshots, undo, limits>>

NoSnapshot == [generation |-> -1]

-----------------------------------------------------------------------------
(* Snapshots. seen is not in the code: it records what the worker could read *)
(* of each object when it took the snapshot.                                 *)

SnapshotOf(nl, cells, nets) ==
    [generation |-> nl.generation,
     cells |-> [c \in cells |-> nl.cells[c].version],
     nets |-> [n \in nets |-> nl.nets[n].version],
     seen |-> [cells |-> [c \in cells |-> CellView(nl, c)],
               nets |-> [n \in nets |-> NetView(nl, n)]]]

\* Mutant: only the cells are compared.
SnapshotCurrentCells(nl, s) ==
    /\ s.generation = nl.generation
    /\ \A c \in DOMAIN s.cells : IsLiveCell(nl, c) /\ nl.cells[c].version = s.cells[c]

SnapshotCurrent(nl, s) ==
    /\ s.generation = nl.generation
    /\ \A c \in DOMAIN s.cells : IsLiveCell(nl, c) /\ nl.cells[c].version = s.cells[c]
    /\ \A n \in DOMAIN s.nets : IsLiveNet(nl, n) /\ nl.nets[n].version = s.nets[n]

-----------------------------------------------------------------------------
(* Plans. A signal is a net, Constant, or -k for the k-th net the plan adds. *)

Count(plan, op) == Cardinality({i \in DOMAIN plan : plan[i].op = op})

SignalRefs(s, newNets) == DOMAIN s.nets \cup {Constant} \cup {-k : k \in 1..newNets}

\* The operations the planning interface accepts next for a plan.
NextOperations(nl, s, plan) ==
    LET signals == SignalRefs(s, Count(plan, "add_net")) IN
    [op : {"add_net"}, name : NetNames]
    \cup [op : {"add_cell"}, name : CellNames, type : CellTypes,
          signals : UNION {[1..k -> signals] : k \in AddedArities}]
    \cup [op : {"remove_cell"}, cell : DOMAIN s.cells]
    \cup [op : {"remove_net"}, net : DOMAIN s.nets]
    \cup [op : {"reconnect_pin"}, pin : Pins(nl), signal : signals]
    \cup [op : {"replace_cell"}, cell : DOMAIN s.cells, type : CellTypes]
    \cup [op : {"rename_cell"}, cell : DOMAIN s.cells, name : CellNames]
    \cup [op : {"rename_net"}, net : DOMAIN s.nets, name : NetNames]

Ops(plan, op) == {plan[i] : i \in {j \in DOMAIN plan : plan[j].op = op}}
RemovedCells(plan) == {o.cell : o \in Ops(plan, "remove_cell")}
RemovedNets(plan) == {o.net : o \in Ops(plan, "remove_net")}

Coherent(nl, plan) ==
    \A o \in Ops(plan, "reconnect_pin") :
        /\ PinOwner(nl, o.pin) \notin RemovedCells(plan)
        /\ o.signal \notin RemovedNets(plan)

-----------------------------------------------------------------------------
(* Resolution and validation; neither changes the netlist.                   *)

ResolveSignal(nl, signal) == IF signal < 0 THEN Len(nl.nets) - signal ELSE signal

Resolve(nl, plan) ==
    [i \in DOMAIN plan |->
       CASE plan[i].op = "add_cell" -> [plan[i] EXCEPT !.signals =
                [k \in DOMAIN @ |-> ResolveSignal(nl, @[k])]]
         [] plan[i].op = "reconnect_pin" ->
                [plan[i] EXCEPT !.signal = ResolveSignal(nl, @)]
         [] OTHER -> plan[i]]

AddedPins(plan) == MapThenSumSet(LAMBDA i :
    IF plan[i].op = "add_cell" THEN Len(plan[i].signals) ELSE 0, DOMAIN plan)

CapacitySuffices(nl, plan) ==
    /\ Len(nl.nets) + Count(plan, "add_net") <= MaxNets
    /\ Len(nl.cells) + Count(plan, "add_cell") <= MaxCells
    /\ Len(nl.connections) + AddedPins(plan) <= MaxPins

SignalValid(nl, s, newNets, signal) ==
    \/ signal = Constant
    \/ signal \in newNets
    \/ IsLiveNet(nl, signal) /\ signal \in DOMAIN s.nets

\* The checks that look at one operation; footprint is the snapshot.
OperationValid(nl, s, newNets, o) ==
    CASE o.op = "add_cell" ->
           \A k \in DOMAIN o.signals : SignalValid(nl, s, newNets, o.signals[k])
      [] o.op = "remove_cell" ->
           /\ o.cell \in DOMAIN s.cells
           /\ \A p \in PinRange(nl, o.cell) : SignalValid(nl, s, newNets, nl.connections[p])
      [] o.op = "reconnect_pin" ->
           /\ PinOwner(nl, o.pin) \in DOMAIN s.cells
           /\ SignalValid(nl, s, newNets, nl.connections[o.pin])
           /\ SignalValid(nl, s, newNets, o.signal)
      [] o.op \in {"replace_cell", "rename_cell"} -> o.cell \in DOMAIN s.cells
      [] o.op \in {"remove_net", "rename_net"} -> o.net \in DOMAIN s.nets
      [] OTHER -> TRUE

WritesCell == {"remove_cell", "replace_cell", "rename_cell"}
WritesNet == {"remove_net", "rename_net"}

\* A plan writes a cell, a net and a pin at most once each. Reconnecting a pin
\* does not count as a write of its cell.
WritesOnce(plan) ==
    \A i, j \in DOMAIN plan : i # j =>
        /\ plan[i].op \in WritesCell /\ plan[j].op \in WritesCell
              => plan[i].cell # plan[j].cell
        /\ plan[i].op \in WritesNet /\ plan[j].op \in WritesNet
              => plan[i].net # plan[j].net
        /\ plan[i].op = "reconnect_pin" /\ plan[j].op = "reconnect_pin"
              => plan[i].pin # plan[j].pin

\* Names the plan gives are new to each other and to every instance that
\* keeps its name.
CellNamesValid(nl, plan) ==
    LET renames == {i \in DOMAIN plan : /\ plan[i].op = "rename_cell"
                      /\ nl.names[nl.cells[plan[i].cell].name] # plan[i].name}
        naming == renames \cup {i \in DOMAIN plan : plan[i].op = "add_cell"}
        keeping == LiveCells(nl) \ (RemovedCells(plan) \cup {plan[i].cell : i \in renames})
        used == {nl.names[nl.cells[c].name] : c \in keeping}
                \cup {nl.names[nl.instances[i]] : i \in DOMAIN nl.instances}
    IN  /\ \A i, j \in naming : i # j => plan[i].name # plan[j].name
        /\ \A i \in naming : plan[i].name \notin used

\* A removed net is not a boundary net, and every pin now on it is removed
\* with its cell or reconnected elsewhere; no added cell uses it. A pin that
\* is now on another net is not looked at.
RemovedNetsValid(nl, plan) ==
    \A n \in RemovedNets(plan) :
        /\ n \notin nl.external_nets
        /\ \A k \in DOMAIN PinsOnNet(nl, n) :
             LET p == PinsOnNet(nl, n)[k] IN
             \/ PinOwner(nl, p) \in RemovedCells(plan)
             \/ \E o \in Ops(plan, "reconnect_pin") : o.pin = p /\ o.signal # n
        /\ \A o \in Ops(plan, "add_cell") : n \notin ToSet(o.signals)

\* The checks a plan fails for good once a prefix of it does.
PrefixValid(nl, s, plan) ==
    LET newNets == Len(nl.nets) + 1..Len(nl.nets) + Count(plan, "add_net") IN
    /\ CapacitySuffices(nl, plan)
    /\ \A i \in DOMAIN plan : OperationValid(nl, s, newNets, plan[i])
    /\ WritesOnce(plan)

PlanValid(nl, s, plan) ==
    /\ PrefixValid(nl, s, plan)
    /\ CellNamesValid(nl, plan)
    /\ RemovedNetsValid(nl, plan)

\* The names of an operation, in the order in which they are interned.
OperationNames(o) ==
    CASE o.op \in {"add_net", "rename_net"} /\ o.name # NoName -> <<o.name>>
      [] o.op = "add_cell" -> <<o.name, o.type>>
      [] o.op = "replace_cell" -> <<o.type>>
      [] o.op = "rename_cell" -> <<o.name>>
      [] OTHER -> <<>>

InternPlan(names, plan) ==
    LET interned[k \in 0..Len(plan)] ==
            IF k = 0 THEN names ELSE InternAll(interned[k - 1], OperationNames(plan[k]))
    IN  interned[Len(plan)]

-----------------------------------------------------------------------------
(* Application. st.nl is the netlist, st.ap the undo record. Each old_ field *)
(* maps a slot that existed before to its first value.                       *)

Saved(f, slot, limit, value) ==
    IF slot > limit \/ slot \in DOMAIN f THEN f
    ELSE [x \in DOMAIN f \cup {slot} |-> IF x = slot THEN value ELSE f[x]]

SaveCell(st, c) ==
    [st EXCEPT !.ap.old_cells = Saved(@, c, st.ap.cell_len, st.nl.cells[c])]
SaveNet(st, n) ==
    [st EXCEPT !.ap.old_nets = Saved(@, n, st.ap.net_len, st.nl.nets[n])]
SaveNetPins(st, n) ==
    [st EXCEPT !.ap.old_net_pins = Saved(@, n, st.ap.net_len, st.nl.net_pins[n])]
SavePinLinks(st, p) ==
    [st EXCEPT !.ap.old_pin_links = Saved(@, p, st.ap.connection_len, st.nl.pin_links[p])]

\* Mutant: the pin ahead keeps its link back to the removed one.
UnlinkPinKeepingBackLink(st, p) ==
    LET n == st.nl.connections[p]
        links == st.nl.pin_links[p]
        saved == SavePinLinks(SaveNetPins(st, n), p)
        behind == IF links.previous # None
            THEN [SavePinLinks(saved, links.previous) EXCEPT
                    !.nl.pin_links[links.previous].next = links.next]
            ELSE [saved EXCEPT !.nl.net_pins[n].head = links.next]
        ahead == IF links.next # None THEN behind
                 ELSE [behind EXCEPT !.nl.net_pins[n].tail = links.previous]
    IN  [ahead EXCEPT !.nl.pin_links[p] = Unlinked]

UnlinkPin(st, p) ==
    LET n == st.nl.connections[p]
        links == st.nl.pin_links[p]
        saved == SavePinLinks(SaveNetPins(st, n), p)
        behind == IF links.previous # None
            THEN [SavePinLinks(saved, links.previous) EXCEPT
                    !.nl.pin_links[links.previous].next = links.next]
            ELSE [saved EXCEPT !.nl.net_pins[n].head = links.next]
        ahead == IF links.next # None
            THEN [SavePinLinks(behind, links.next) EXCEPT
                    !.nl.pin_links[links.next].previous = links.previous]
            ELSE [behind EXCEPT !.nl.net_pins[n].tail = links.previous]
    IN  [ahead EXCEPT !.nl.pin_links[p] = Unlinked]

LinkPin(st, n, p) ==
    LET tail == st.nl.net_pins[n].tail
        saved == SavePinLinks(SaveNetPins(st, n), p)
        behind == IF tail # None
            THEN [SavePinLinks(saved, tail) EXCEPT !.nl.pin_links[tail].next = p]
            ELSE [saved EXCEPT !.nl.net_pins[n].head = p]
    IN  [behind EXCEPT !.nl.pin_links[p] = [previous |-> tail, next |-> None],
                       !.nl.net_pins[n].tail = p]

Revision(st) == st.ap.committed_revision

\* Mutant: the net is given a new version without being reported as affected.
TouchSignalNetUnsaved(st, signal) ==
    IF signal = Constant THEN st ELSE [st EXCEPT !.nl.nets[signal].version = Revision(st)]

TouchSignalNet(st, signal) ==
    IF signal = Constant THEN st
    ELSE [SaveNet(st, signal) EXCEPT !.nl.nets[signal].version = Revision(st)]

NameId(st, name) == GetName(st.nl.names, name)

ApplyAddNet(st, o) ==
    [st EXCEPT !.nl.nets = Append(@, [name |-> NameId(st, o.name), live |-> TRUE,
                                      version |-> Revision(st)]),
               !.nl.net_pins = Append(@, NoPins),
               !.ap.added_nets = Append(@, Len(st.nl.nets) + 1)]

ApplyAddCell(st, o) ==
    LET c == Len(st.nl.cells) + 1
        addPin(acc, signal) ==
            LET p == Len(acc.nl.connections) + 1
                pushed == [acc EXCEPT !.nl.connections = Append(@, signal),
                                      !.nl.pin_owners = Append(@, c),
                                      !.nl.pin_links = Append(@, Unlinked)]
            IN  IF signal = Constant THEN pushed
                ELSE TouchSignalNet(LinkPin(pushed, signal, p), signal)
        added[k \in 0..Len(o.signals)] ==
            IF k = 0 THEN st ELSE addPin(added[k - 1], o.signals[k])
        withPins == added[Len(o.signals)]
    IN  [withPins EXCEPT
           !.nl.cells = Append(@, [name |-> NameId(st, o.name), type |-> NameId(st, o.type),
                                   live |-> TRUE, version |-> Revision(st),
                                   first |-> Len(st.nl.connections) + 1,
                                   last |-> Len(withPins.nl.connections)]),
           !.ap.added_cells = Append(@, c)]

ApplyRemoveCell(st, o) ==
    LET removePin(acc, p) ==
            IF acc.nl.connections[p] = Constant THEN acc
            ELSE TouchSignalNet(UnlinkPin(acc, p), acc.nl.connections[p])
        row == st.nl.cells[o.cell]
        arity == row.last - row.first + 1
        unlinked[k \in 0..arity] ==
            IF k = 0 THEN SaveCell(st, o.cell)
            ELSE removePin(unlinked[k - 1], row.first + k - 1)
    IN  [unlinked[arity] EXCEPT !.nl.cells[o.cell].live = FALSE,
                         !.nl.cells[o.cell].version = Revision(st)]

ApplyRemoveNet(st, o) ==
    [SaveNet(st, o.net) EXCEPT !.nl.nets[o.net].live = FALSE,
                               !.nl.nets[o.net].version = Revision(st)]

ApplyReconnectPin(st, o) ==
    LET old == st.nl.connections[o.pin]
        saved == [st EXCEPT !.ap.old_connections =
                    Saved(@, o.pin, st.ap.connection_len, old)]
        unlinked == IF old = Constant THEN saved ELSE UnlinkPin(saved, o.pin)
        moved == [unlinked EXCEPT !.nl.connections[o.pin] = o.signal]
        linked == IF o.signal = Constant THEN moved ELSE LinkPin(moved, o.signal, o.pin)
        owner == PinOwner(st.nl, o.pin)
        written == [SaveCell(linked, owner) EXCEPT !.nl.cells[owner].version = Revision(st)]
    IN  IF owner = None THEN [linked EXCEPT !.nl.status = "panicked"]
        ELSE TouchSignalNet(TouchSignalNet(written, old), o.signal)

ApplyReplaceCell(st, o) ==
    [SaveCell(st, o.cell) EXCEPT !.nl.cells[o.cell].type = NameId(st, o.type),
                                 !.nl.cells[o.cell].version = Revision(st)]

ApplyRenameCell(st, o) ==
    [SaveCell(st, o.cell) EXCEPT !.nl.cells[o.cell].name = NameId(st, o.name),
                                 !.nl.cells[o.cell].version = Revision(st)]

ApplyRenameNet(st, o) ==
    [SaveNet(st, o.net) EXCEPT !.nl.nets[o.net].name = NameId(st, o.name),
                               !.nl.nets[o.net].version = Revision(st),
                               !.ap.renamed_nets = @ \cup {o.net}]

ApplyOperation(st, o) ==
    IF st.nl.status = "panicked" THEN st ELSE
    CASE o.op = "add_net" -> ApplyAddNet(st, o)
      [] o.op = "add_cell" -> ApplyAddCell(st, o)
      [] o.op = "remove_cell" -> ApplyRemoveCell(st, o)
      [] o.op = "remove_net" -> ApplyRemoveNet(st, o)
      [] o.op = "reconnect_pin" -> ApplyReconnectPin(st, o)
      [] o.op = "replace_cell" -> ApplyReplaceCell(st, o)
      [] o.op = "rename_cell" -> ApplyRenameCell(st, o)
      [] o.op = "rename_net" -> ApplyRenameNet(st, o)

\* The undo record at the moment validation has passed. before is not in
\* the code: the netlist a rollback has to bring back.
NewUndo(nl) ==
    [generation |-> nl.generation,
     previous_revision |-> nl.edit_revision,
     committed_revision |-> nl.edit_revision + 1,
     net_count |-> nl.live_net_count, cell_count |-> nl.live_cell_count,
     net_len |-> Len(nl.nets), cell_len |-> Len(nl.cells),
     connection_len |-> Len(nl.connections), names_len |-> Len(nl.names),
     old_nets |-> <<>>, old_cells |-> <<>>, old_connections |-> <<>>,
     old_net_pins |-> <<>>, old_pin_links |-> <<>>,
     added_nets |-> <<>>, added_cells |-> <<>>, renamed_nets |-> {},
     before |-> nl]

Applied(nl, plan) ==
    LET start == [nl |-> [nl EXCEPT !.names = InternPlan(@, plan)], ap |-> NewUndo(nl)]
        applied[k \in 0..Len(plan)] ==
            IF k = 0 THEN start ELSE ApplyOperation(applied[k - 1], plan[k])
        done == applied[Len(plan)]
    IN  [done EXCEPT
           !.ap.renamed_nets = {n \in @ : done.nl.nets[n].live
                                  /\ done.ap.old_nets[n].name # done.nl.nets[n].name},
           !.nl.live_net_count = @ - Count(plan, "remove_net") + Count(plan, "add_net"),
           !.nl.live_cell_count = @ - Count(plan, "remove_cell") + Count(plan, "add_cell"),
           !.nl.edit_revision = done.ap.committed_revision]

\* What is decided before the first write. The name table may fill up while
\* the names of a plan are interned; they are then taken out again.
EditPossible(nl, s) ==
    /\ nl.status = "editable"
    /\ SnapshotCurrent(nl, s)
    /\ nl.edit_revision < Len(limits)

AcceptedPlans(nl, s) ==
    LET limit == limits[nl.edit_revision + 1]
        grown[k \in 0..limit] ==
            IF k = 0 THEN {<<>>}
            ELSE {plan \in UNION {{Resolve(nl, Append(prefix, op)) :
                                     op \in NextOperations(nl, s, prefix)} :
                                   prefix \in grown[k - 1]} : PrefixValid(nl, s, plan)}
    IN  {plan \in UNION {grown[k] : k \in 1..limit} :
            /\ PlanValid(nl, s, plan)
            /\ Len(InternPlan(nl.names, plan)) <= MaxNames
            /\ SelfConflicting \/ Coherent(nl, plan)}

-----------------------------------------------------------------------------
(* Rollback.                                                                 *)

Restored(seq, len, old) ==
    Tabulate(len, LAMBDA i : IF i \in DOMAIN old THEN old[i] ELSE seq[i])

\* Mutant: the names interned by the edit stay.
RolledBackKeepingNames(nl, ap) ==
    [nl EXCEPT !.connections = Restored(@, ap.connection_len, ap.old_connections),
               !.pin_owners = SubSeq(@, 1, ap.connection_len),
               !.pin_links = Restored(@, ap.connection_len, ap.old_pin_links),
               !.cells = Restored(@, ap.cell_len, ap.old_cells),
               !.nets = Restored(@, ap.net_len, ap.old_nets),
               !.net_pins = Restored(@, ap.net_len, ap.old_net_pins),
               !.live_net_count = ap.net_count,
               !.live_cell_count = ap.cell_count,
               !.edit_revision = ap.previous_revision]

RolledBack(nl, ap) ==
    [nl EXCEPT !.connections = Restored(@, ap.connection_len, ap.old_connections),
               !.pin_owners = SubSeq(@, 1, ap.connection_len),
               !.pin_links = Restored(@, ap.connection_len, ap.old_pin_links),
               !.cells = Restored(@, ap.cell_len, ap.old_cells),
               !.nets = Restored(@, ap.net_len, ap.old_nets),
               !.net_pins = Restored(@, ap.net_len, ap.old_net_pins),
               !.live_net_count = ap.net_count,
               !.live_cell_count = ap.cell_count,
               !.names = SubSeq(@, 1, ap.names_len),
               !.edit_revision = ap.previous_revision]

-----------------------------------------------------------------------------
(* The system.                                                               *)

Init ==
    /\ \E design \in Designs : netlist = Freeze(design)
    /\ snapshots = [w \in Workers |-> NoSnapshot]
    /\ undo = <<>>
    /\ limits \in PlanLimits

\* The regions the workers look at: some live cells, the nets they touch, and
\* the nets nothing touches.
Regions(nl) ==
    {[cells |-> cells,
      nets |-> {n \in LiveNets(nl) : \/ PinsOnNet(nl, n) = <<>>
                  \/ \E p \in ToSet(PinsOnNet(nl, n)) : PinOwner(nl, p) \in cells}] :
        cells \in SUBSET LiveCells(nl) \ {{}}}

\* Nobody looks once limits leaves no room for another edit.
TakeSnapshot(w) ==
    /\ netlist.status = "editable"
    /\ netlist.edit_revision < Len(limits)
    /\ DuringTrial \/ undo = <<>>
    /\ snapshots[w] = NoSnapshot
    /\ \E region \in Regions(netlist) :
         snapshots' = [snapshots EXCEPT ![w] =
                         SnapshotOf(netlist, region.cells, region.nets)]
    /\ UNCHANGED <<netlist, undo, limits>>

\* apply_region_delta consumes the delta with its snapshot.
ApplyDelta(w) ==
    /\ snapshots[w] # NoSnapshot
    /\ EditPossible(netlist, snapshots[w])
    /\ \E plan \in AcceptedPlans(netlist, snapshots[w]) :
         LET done == Applied(netlist, plan) IN
         /\ netlist' = done.nl
         /\ undo' = Append(undo, done.ap)
    /\ snapshots' = [snapshots EXCEPT ![w] = NoSnapshot]
    /\ UNCHANGED limits

\* A stale snapshot or an invalid plan is refused, or the worker gives up:
\* nothing remains of the delta.
DropDelta(w) ==
    /\ snapshots[w] # NoSnapshot
    /\ snapshots' = [snapshots EXCEPT ![w] = NoSnapshot]
    /\ UNCHANGED <<netlist, undo, limits>>

\* The holder drops an undo record.
Commit(i) ==
    /\ undo' = RemoveAt(undo, i)
    /\ UNCHANGED <<netlist, snapshots, limits>>

\* rollback_region_delta consumes the record; it is refused when the netlist
\* has been published or edited since. Nothing can be done to a netlist that
\* publication consumed and refused, or after a panic.
Rollback(i) ==
    /\ netlist.status \in {"editable", "published"}
    /\ undo' = RemoveAt(undo, i)
    /\ netlist' = IF /\ netlist.generation = undo[i].generation
                     /\ netlist.edit_revision = undo[i].committed_revision
                  THEN RolledBack(netlist, undo[i]) ELSE netlist
    /\ UNCHANGED <<snapshots, limits>>

\* assign_publication_names and assign_publication_net_names; the revision is
\* not advanced. Publication runs after the last edit has been settled.
NamePublication ==
    /\ netlist.status = "editable"
    /\ undo = <<>>
    /\ \A w \in Workers : snapshots[w] = NoSnapshot
    /\ netlist' = AssignNetNames(AssignCellNames(netlist))
    /\ UNCHANGED <<snapshots, undo, limits>>

\* finalize_for_publication consumes the netlist: it comes back repacked and
\* sealed, or not at all.
Finalize ==
    /\ netlist.status = "editable"
    /\ netlist' = IF PublicationValid(netlist) THEN Repack(netlist)
                  ELSE [netlist EXCEPT !.status = "refused"]
    /\ UNCHANGED <<snapshots, undo, limits>>

Next ==
    \/ \E w \in Workers : TakeSnapshot(w) \/ ApplyDelta(w) \/ DropDelta(w)
    \/ \E i \in DOMAIN undo : Commit(i) \/ Rollback(i)
    \/ NamePublication
    \/ Finalize

Spec == Init /\ [][Next]_vars

-----------------------------------------------------------------------------
(* Properties.                                                               *)

\* Whatever sequence of edits, commits, rollbacks and renamings led here, an
\* unpublished netlist passes every check that publication makes, so that
\* finalize_for_publication never refuses it, and the repacked netlist passes
\* them too and has no tombstone left. Designs with a retained instance named
\* like a generated cell are excluded: assign_publication_names does not look
\* at them, and the publication is refused (README, section 4).
AlwaysPublishable ==
    /\ netlist.status \in {"editable", "published"}
    /\ PublicationValid(netlist)
    /\ netlist.status = "published" =>
         /\ LiveNets(netlist) = Nets(netlist)
         /\ LiveCells(netlist) = Cells(netlist)

\* rollback_region_delta brings back the exact netlist the edit started from:
\* slots, versions, pin lists in their order, counters and the name table.
RollbackRestores ==
    [][netlist'.edit_revision < netlist.edit_revision =>
         \E i \in DOMAIN undo :
            /\ undo[i].committed_revision = netlist.edit_revision
            /\ netlist' = undo[i].before]_vars

\* A snapshot that check_snapshot accepts describes the netlist as it is: no
\* object of it has changed since the worker read it.
SnapshotsSound ==
    \A w \in Workers :
        snapshots[w] # NoSnapshot /\ SnapshotCurrent(netlist, snapshots[w]) =>
            /\ \A c \in DOMAIN snapshots[w].cells :
                 CellView(netlist, c) = snapshots[w].seen.cells[c]
            /\ \A n \in DOMAIN snapshots[w].nets :
                 NetView(netlist, n) = snapshots[w].seen.nets[n]

\* What the undo record of an edit reports as affected is what its
\* readers must refresh: inside the snapshot of the plan, carrying the new
\* version, and with every object outside it, pin lists included, unchanged;
\* the renamed nets are exactly the surviving ones whose name differs.
AffectedExact ==
    [][Len(undo') > Len(undo) =>
         LET ap == Last(undo')
             footprint == snapshots[CHOOSE w \in Workers : snapshots'[w] # snapshots[w]]
         IN  /\ DOMAIN ap.old_cells \subseteq DOMAIN footprint.cells
             /\ DOMAIN ap.old_nets \subseteq DOMAIN footprint.nets
             /\ \A c \in Cells(netlist') :
                  IF c \in DOMAIN ap.old_cells \cup ToSet(ap.added_cells)
                  THEN netlist'.cells[c].version = netlist'.edit_revision
                  ELSE /\ netlist'.cells[c] = netlist.cells[c]
                       /\ CellView(netlist', c) = CellView(netlist, c)
             /\ \A n \in Nets(netlist') :
                  IF n \in DOMAIN ap.old_nets \cup ToSet(ap.added_nets)
                  THEN netlist'.nets[n].version = netlist'.edit_revision
                  ELSE /\ netlist'.nets[n] = netlist.nets[n]
                       /\ NetView(netlist', n) = NetView(netlist, n)
             /\ ap.renamed_nets = {n \in LiveNets(netlist) \cap LiveNets(netlist') :
                                     netlist'.nets[n].name # netlist.nets[n].name}]_vars

\* The live part of a netlist with its nets numbered densely.
LiveContent(nl) ==
    LET rank(n) == Cardinality({m \in LiveNets(nl) : m <= n})
        view(c) == CellView(nl, c)
    IN  [cells |-> [i \in 1..Cardinality(LiveCells(nl)) |->
                      LET c == SetToSortSeq(LiveCells(nl), <)[i] IN
                      [view(c) EXCEPT !.signals = [k \in DOMAIN @ |-> rank(@[k])]]],
         nets |-> [i \in 1..Cardinality(LiveNets(nl)) |->
                      nl.nets[SetToSortSeq(LiveNets(nl), <)[i]].name],
         boundary |-> [i \in DOMAIN nl.boundary |-> rank(nl.boundary[i])],
         external_nets |-> {rank(n) : n \in nl.external_nets},
         names |-> nl.names, instances |-> nl.instances]

\* finalize_for_publication renumbers and nothing else: the sealed netlist has
\* the cells, types, connections, names and boundary of the edited one.
PublicationFaithful ==
    [][netlist.status = "editable" /\ netlist'.status = "published" =>
         LiveContent(netlist') = LiveContent(netlist)]_vars
=============================================================================
