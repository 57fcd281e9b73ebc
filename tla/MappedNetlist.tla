---------------------------- MODULE MappedNetlist ----------------------------
(* The mapped netlist of opto-ir (mapped.rs, mapped/builder.rs,              *)
(* mapped/external.rs, mapped/publication.rs): stable slot arenas for nets   *)
(* and cells, one intrusive doubly linked list of pins per net, an interned  *)
(* name table, and the one-way repacking that seals a netlist for            *)
(* publication. A netlist is one record; the operators here are the pure     *)
(* functions on it that the edit transactions of MappedEdit are built from.  *)
(*                                                                           *)
(* Slots are numbered from 1. Names are pairs of a class and a number:       *)
(* <<"U", 3>> is the dense instance name U3, <<"n", 3>> the dense net name,  *)
(* <<"syn", k>> a name the caller classifies as synthetic, anything else a   *)
(* name to be preserved. Pin names and library indices are not kept: the     *)
(* pins of a cell are told apart by their place.                             *)
EXTENDS Integers, Sequences, SequencesExt, FiniteSets, FiniteSetsExt

None == 0                      \* Option::None for a pin, a name identifier or a slot
Constant == 0                  \* ConnectionSignal::Constant; a net is its slot
NoName == <<"none", 0>>        \* the name of an unnamed net
Unlinked == [previous |-> None, next |-> None]
NoPins == [head |-> None, tail |-> None]

Nets(nl) == 1..Len(nl.nets)
Cells(nl) == 1..Len(nl.cells)
Pins(nl) == 1..Len(nl.connections)

IsLiveNet(nl, n) == n \in Nets(nl) /\ nl.nets[n].live
IsLiveCell(nl, c) == c \in Cells(nl) /\ nl.cells[c].live
LiveNets(nl) == {n \in Nets(nl) : nl.nets[n].live}
LiveCells(nl) == {c \in Cells(nl) : nl.cells[c].live}

PinRange(nl, c) == nl.cells[c].first..nl.cells[c].last

\* The live cell that owns a pin, or None.
PinOwner(nl, p) ==
    IF p \in Pins(nl) /\ IsLiveCell(nl, nl.pin_owners[p])
                      /\ p \in PinRange(nl, nl.pin_owners[p])
    THEN nl.pin_owners[p] ELSE None

\* The pins met by following the links of a net from its head: a list with a
\* cycle is cut after as many steps as there are pins, as the validation does.
PinsOnNet(nl, n) ==
    LET walk[k \in 1..Len(nl.connections)] ==
            IF k = 1 THEN nl.net_pins[n].head
            ELSE IF walk[k - 1] = None THEN None
            ELSE nl.pin_links[walk[k - 1]].next
    IN  SelectSeq([k \in 1..Len(nl.connections) |-> walk[k]], LAMBDA p : p # None)

-----------------------------------------------------------------------------
(* The name table: an append-only sequence, truncated only by a rollback.    *)

GetName(names, name) ==
    IF \E i \in DOMAIN names : names[i] = name
    THEN CHOOSE i \in DOMAIN names : names[i] = name ELSE None

Intern(names, name) == IF Contains(names, name) THEN names ELSE Append(names, name)

InternAll(names, list) ==
    LET interned[k \in 0..Len(list)] ==
            IF k = 0 THEN names ELSE Intern(interned[k - 1], list[k])
    IN  interned[Len(list)]

Resolves(nl, id) == id \in DOMAIN nl.names

-----------------------------------------------------------------------------
(* Construction. A design lists its nets by name, its cells in order, the    *)
(* nets held by ports, constant drivers and retained design occurrences, and *)
(* the names of those occurrences.                                           *)

AppendPin(nl, n, p) ==
    LET tail == nl.net_pins[n].tail
        linked == [nl EXCEPT !.pin_links[p] = [previous |-> tail, next |-> None],
                             !.net_pins[n].tail = p]
    IN  IF tail # None THEN [linked EXCEPT !.pin_links[tail].next = p]
        ELSE [linked EXCEPT !.net_pins[n].head = p]

\* One pin pushed onto the arenas of a cell and linked to its net.
PushPin(nl, owner, signal) ==
    LET p == Len(nl.connections) + 1
        pushed == [nl EXCEPT !.connections = Append(@, signal),
                             !.pin_owners = Append(@, owner),
                             !.pin_links = Append(@, Unlinked)]
    IN  IF signal = Constant THEN pushed ELSE AppendPin(pushed, signal, p)

\* The row of a cell and its pins, as the builder and the repacking append them.
PushCell(nl, row, signals) ==
    LET c == Len(nl.cells) + 1
        pushed[k \in 0..Len(signals)] ==
            IF k = 0 THEN nl ELSE PushPin(pushed[k - 1], c, signals[k])
        withPins == pushed[Len(signals)]
    IN  [withPins EXCEPT !.cells = Append(@,
            [name |-> row.name, type |-> row.type, live |-> TRUE, version |-> 0,
             first |-> Len(nl.connections) + 1, last |-> Len(withPins.connections)])]

AddBuilderNet(nl, name) ==
    LET names == IF name = NoName THEN nl.names ELSE Intern(nl.names, name)
    IN  [nl EXCEPT !.names = names,
                   !.nets = Append(@, [name |-> GetName(names, name), live |-> TRUE,
                                       version |-> 0]),
                   !.net_pins = Append(@, NoPins)]

AddBuilderCell(nl, cell) ==
    LET interned == [nl EXCEPT !.names = InternAll(@, <<cell.name, cell.type>>)]
    IN  PushCell(interned, [name |-> GetName(interned.names, cell.name),
                            type |-> GetName(interned.names, cell.type)], cell.signals)

AddBuilderInstance(nl, name) ==
    LET names == Intern(nl.names, name)
    IN  [nl EXCEPT !.names = names, !.instances = Append(@, GetName(names, name))]

EmptyNetlist ==
    [status |-> "editable", generation |-> 0, edit_revision |-> 0, names |-> <<>>,
     nets |-> <<>>, live_net_count |-> 0, cells |-> <<>>, live_cell_count |-> 0,
     connections |-> <<>>, pin_owners |-> <<>>, pin_links |-> <<>>, net_pins |-> <<>>,
     boundary |-> <<>>, external_nets |-> {}, instances |-> <<>>]

\* The nets held by ports, constant drivers and retained design occurrences.
ExternalNets(boundary) == ToSet(boundary)

BuildNets(design) ==
    LET built[k \in 0..Len(design.nets)] ==
            IF k = 0 THEN EmptyNetlist ELSE AddBuilderNet(built[k - 1], design.nets[k])
    IN  built[Len(design.nets)]

BuildCells(design) ==
    LET built[k \in 0..Len(design.cells)] ==
            IF k = 0 THEN BuildNets(design) ELSE AddBuilderCell(built[k - 1], design.cells[k])
    IN  built[Len(design.cells)]

BuildInstances(design) ==
    LET built[k \in 0..Len(design.instances)] ==
            IF k = 0 THEN BuildCells(design)
            ELSE AddBuilderInstance(built[k - 1], design.instances[k])
    IN  built[Len(design.instances)]

Freeze(design) ==
    LET built == BuildInstances(design)
    IN  [built EXCEPT !.boundary = design.boundary,
                      !.external_nets = ExternalNets(design.boundary),
                      !.live_net_count = Len(built.nets),
                      !.live_cell_count = Len(built.cells)]

-----------------------------------------------------------------------------
(* Validation: what a netlist must satisfy to be published.                  *)

LiveCountsAgree(nl) ==
    /\ nl.live_net_count = Cardinality(LiveNets(nl))
    /\ nl.live_cell_count = Cardinality(LiveCells(nl))

\* Every range, name and net a slot refers to exists; live objects refer to
\* live nets only.
ReferencesValid(nl) ==
    /\ \A c \in Cells(nl) :
         /\ nl.cells[c].first = IF c = 1 THEN 1 ELSE nl.cells[c - 1].last + 1
         /\ nl.cells[c].last >= nl.cells[c].first - 1
         /\ Resolves(nl, nl.cells[c].name) /\ Resolves(nl, nl.cells[c].type)
    /\ Len(nl.connections) = IF nl.cells = <<>> THEN 0 ELSE Last(nl.cells).last
    /\ \A n \in Nets(nl) : nl.nets[n].name = None \/ Resolves(nl, nl.nets[n].name)
    /\ \A i \in DOMAIN nl.boundary : IsLiveNet(nl, nl.boundary[i])
    /\ \A c \in LiveCells(nl), p \in Pins(nl) :
         p \in PinRange(nl, c) /\ nl.connections[p] # Constant
            => IsLiveNet(nl, nl.connections[p])
    /\ \A i \in DOMAIN nl.instances : Resolves(nl, nl.instances[i])

ExternalIndexValid(nl) == nl.external_nets = ExternalNets(nl.boundary)

\* The list of a live net holds each pin of a live cell connected to it once,
\* with matching links both ways; everything else is unlinked.
ConnectivityValid(nl) ==
    /\ Len(nl.pin_owners) = Len(nl.connections)
    /\ Len(nl.pin_links) = Len(nl.connections)
    /\ Len(nl.net_pins) = Len(nl.nets)
    /\ \A n \in Nets(nl) : IF ~nl.nets[n].live THEN nl.net_pins[n] = NoPins ELSE
         LET list == PinsOnNet(nl, n) IN
         /\ ToSet(list) = {p \in Pins(nl) : PinOwner(nl, p) # None
                                              /\ nl.connections[p] = n}
         /\ IsInjective(list)
         /\ \A k \in DOMAIN list :
              nl.pin_links[list[k]].previous = IF k = 1 THEN None ELSE list[k - 1]
         /\ nl.net_pins[n].tail = IF list = <<>> THEN None ELSE Last(list)
    /\ \A p \in Pins(nl) :
         /\ nl.pin_owners[p] \in Cells(nl) /\ p \in PinRange(nl, nl.pin_owners[p])
         /\ PinOwner(nl, p) = None \/ nl.connections[p] = Constant
              => nl.pin_links[p] = Unlinked

\* Instance names are shared by cells and retained design occurrences.
InstanceNamesUnique(nl) ==
    /\ \A c, d \in LiveCells(nl) : c # d => nl.cells[c].name # nl.cells[d].name
    /\ IsInjective(nl.instances)
    /\ \A c \in LiveCells(nl) : nl.cells[c].name \notin ToSet(nl.instances)

PublicationValid(nl) ==
    /\ LiveCountsAgree(nl)
    /\ ReferencesValid(nl)
    /\ ExternalIndexValid(nl)
    /\ ConnectivityValid(nl)
    /\ InstanceNamesUnique(nl)

-----------------------------------------------------------------------------
(* Publication.                                                              *)

Tabulate(n, F(_)) == SubSeq([i \in 1..n |-> F(i)], 1, n)

\* Slots in order, those in keep only.
KeptSlots(len, keep) ==
    LET kept[k \in 0..len] ==
            IF k = 0 THEN <<>>
            ELSE IF k \in keep THEN Append(kept[k - 1], k) ELSE kept[k - 1]
    IN  kept[len]

\* The first dense ordinal above every <prefix><k> that a live, preserved
\* slot carries. Only the slots handed in are looked at.
NextOrdinal(prefix, preserved) ==
    1 + Max({0} \cup {name[2] : name \in {m \in preserved : m[1] = prefix}})

IsSynthetic(name) == name[1] = "syn"

\* The dense names of the synthetic slots, given in slot order.
DenseNames(prefix, synthetic, preserved) ==
    Tabulate(Len(synthetic), LAMBDA k : <<prefix, NextOrdinal(prefix, preserved) + k - 1>>)

\* Rows with the synthetic slots renamed to the interned dense names.
Renamed(rows, synthetic, dense, names) ==
    Tabulate(Len(rows), LAMBDA i :
        IF Contains(synthetic, i)
        THEN [rows[i] EXCEPT !.name = GetName(names,
                 dense[CHOOSE k \in DOMAIN synthetic : synthetic[k] = i])]
        ELSE rows[i])

\* Live cells with a synthetic name are renamed U<k>.
AssignCellNames(nl) ==
    LET nameOf(c) == nl.names[nl.cells[c].name]
        synthetic == KeptSlots(Len(nl.cells), {c \in LiveCells(nl) : IsSynthetic(nameOf(c))})
        dense == DenseNames("U", synthetic, {nameOf(c) : c \in LiveCells(nl) \ ToSet(synthetic)})
        names == InternAll(nl.names, dense)
    IN  [nl EXCEPT !.names = names, !.cells = Renamed(@, synthetic, dense, names)]

\* Live nets that are unnamed or carry a synthetic name are renamed n<k>.
AssignNetNames(nl) ==
    LET nameOf(n) == nl.names[nl.nets[n].name]
        synthetic == KeptSlots(Len(nl.nets), {n \in LiveNets(nl) :
                                 nl.nets[n].name = None \/ IsSynthetic(nameOf(n))})
        dense == DenseNames("n", synthetic, {nameOf(n) : n \in LiveNets(nl) \ ToSet(synthetic)})
        names == InternAll(nl.names, dense)
    IN  [nl EXCEPT !.names = names, !.nets = Renamed(@, synthetic, dense, names)]

\* Mutant: counted from the wrong end.
RemapFromEnd(len, keep) ==
    [i \in 1..len |-> IF i \in keep THEN Cardinality({j \in keep : j >= i}) ELSE None]

\* The place of a live slot in the dense order; a tombstone has none.
Remap(len, keep) ==
    [i \in 1..len |-> IF i \in keep THEN Cardinality({j \in keep : j <= i}) ELSE None]

\* The repacked netlist: boundary, net slots, then cell slots with their pins
\* appended afresh, in slot order; every version starts again at zero.
Repack(nl) ==
    LET nets == Remap(Len(nl.nets), LiveNets(nl))
        keptNets == KeptSlots(Len(nl.nets), LiveNets(nl))
        keptCells == KeptSlots(Len(nl.cells), LiveCells(nl))
        signal(p) == IF nl.connections[p] = Constant THEN Constant
                     ELSE nets[nl.connections[p]]
        row(c) == nl.cells[c]
        emptied == [nl EXCEPT
            !.boundary = Tabulate(Len(@), LAMBDA i : nets[nl.boundary[i]]),
            !.external_nets = {nets[n] : n \in @},
            !.nets = Tabulate(Len(keptNets), LAMBDA i :
                       [nl.nets[keptNets[i]] EXCEPT !.version = 0]),
            !.net_pins = Tabulate(Len(keptNets), LAMBDA i : NoPins),
            !.cells = <<>>, !.connections = <<>>, !.pin_owners = <<>>, !.pin_links = <<>>]
        packed == FoldLeft(LAMBDA acc, c : PushCell(acc, row(c),
                             Tabulate(row(c).last - row(c).first + 1,
                                      LAMBDA k : signal(row(c).first + k - 1))), emptied, keptCells)
    IN  [emptied EXCEPT !.cells = packed.cells, !.connections = packed.connections,
                        !.pin_owners = packed.pin_owners, !.pin_links = packed.pin_links,
                        !.net_pins = packed.net_pins,
                        !.live_net_count = Len(emptied.nets),
                        !.live_cell_count = Len(packed.cells),
                        !.generation = @ + 1,
                        !.edit_revision = @ + 1,
                        !.status = "published"]

-----------------------------------------------------------------------------
(* What a reader of a netlist sees.                                          *)

CellView(nl, c) ==
    [name |-> nl.names[nl.cells[c].name], type |-> nl.names[nl.cells[c].type],
     signals |-> [k \in 1..nl.cells[c].last - nl.cells[c].first + 1 |->
                    nl.connections[nl.cells[c].first + k - 1]]]

NetView(nl, n) ==
    [name |-> IF nl.nets[n].name = None THEN NoName ELSE nl.names[nl.nets[n].name],
     pins |-> PinsOnNet(nl, n)]
=============================================================================
