-------------------------- MODULE MappedEditProofs --------------------------
(***************************************************************************)
(* Machine-checked proof about MappedEdit, for any designs, workers, names *)
(* and capacities, plans of any length, coherent or not, snapshots taken   *)
(* at any time and undo records dropped or rolled back in any order: a     *)
(* rollback brings back the exact netlist its edit started from.           *)
(*                                                                         *)
(* The argument has three parts. Within an edit, every arena agrees with   *)
(* the netlist the edit started from wherever the undo record holds no     *)
(* value, and the record holds the old value elsewhere; each operation     *)
(* keeps this. So the record of the last edit restores. Between edits,     *)
(* the outstanding records form a chain: the netlist that one brings back  *)
(* is the netlist on which the one before it restores.                     *)
(***************************************************************************)
EXTENDS MappedEdit, SequenceLemmas

-----------------------------------------------------------------------------
(***************************************************************************)
(* Shapes. What the arenas of a netlist hold, and the undo record of an    *)
(* edit that started from the netlist base.                                *)
(***************************************************************************)

LinkRow == [previous : Nat, next : Nat]
EndsRow == [head : Nat, tail : Nat]
NetRow == [name : Nat, live : BOOLEAN, version : Nat]
CellRow == [name : Nat, type : Nat, live : BOOLEAN, version : Nat, first : Nat, last : Nat]

\* A sequence, whatever its elements are.
IsSequence(s) == s \in Seq({s[i] : i \in DOMAIN s})

\* Partial functions on slots.
Partial(S) == UNION {[D -> S] : D \in SUBSET Nat}

\* Netlists that differ from base in their arenas only.
NetlistsOf(base) ==
    [status : {"editable", "panicked"}, generation : {base.generation},
     edit_revision : {base.edit_revision}, names : {base.names},
     nets : Seq(NetRow), live_net_count : {base.live_net_count},
     cells : Seq(CellRow), live_cell_count : {base.live_cell_count},
     connections : Seq(Nat), pin_owners : Seq(Nat), pin_links : Seq(LinkRow),
     net_pins : Seq(EndsRow), boundary : {base.boundary},
     external_nets : {base.external_nets}, instances : {base.instances}]

\* The pins of a cell are among the first limit ones.
PinsFit(row, limit) == 1 <= row.first /\ row.first <= row.last + 1 /\ row.last <= limit

\* The arenas are as long as each other and refer to slots that exist.
ArenasFit(nl) ==
    /\ Len(nl.net_pins) = Len(nl.nets)
    /\ Len(nl.pin_owners) = Len(nl.connections)
    /\ Len(nl.pin_links) = Len(nl.connections)
    /\ \A p \in 1..Len(nl.connections) : nl.connections[p] <= Len(nl.nets)
    /\ \A c \in 1..Len(nl.cells) : PinsFit(nl.cells[c], Len(nl.connections))

\* A netlist that can be edited.
WellFormed(nl) ==
    /\ nl \in NetlistsOf(nl)
    /\ nl.generation \in Nat /\ nl.edit_revision \in Nat
    /\ IsSequence(nl.names)
    /\ ArenasFit(nl)

\* Undo records of an edit of base.
UndosOf(base) ==
    [generation : {base.generation}, previous_revision : {base.edit_revision},
     committed_revision : {base.edit_revision + 1},
     net_count : {base.live_net_count}, cell_count : {base.live_cell_count},
     net_len : {Len(base.nets)}, cell_len : {Len(base.cells)},
     connection_len : {Len(base.connections)}, names_len : {Len(base.names)},
     old_nets : Partial(NetRow), old_cells : Partial(CellRow),
     old_connections : Partial(Nat), old_net_pins : Partial(EndsRow),
     old_pin_links : Partial(LinkRow), added_nets : Seq(Nat), added_cells : Seq(Nat),
     renamed_nets : SUBSET Nat, before : {base}]

\* What was in an arena is in it still, or has been saved.
Kept(seq, old, was) ==
    /\ Len(was) <= Len(seq)
    /\ \A i \in 1..Len(was) : (IF i \in DOMAIN old THEN old[i] ELSE seq[i]) = was[i]

\* The undo record saves all that the edit has overwritten.
UndoExact(st, base) ==
    /\ Kept(st.nl.connections, st.ap.old_connections, base.connections)
    /\ Kept(st.nl.pin_owners, <<>>, base.pin_owners)
    /\ Kept(st.nl.pin_links, st.ap.old_pin_links, base.pin_links)
    /\ Kept(st.nl.cells, st.ap.old_cells, base.cells)
    /\ Kept(st.nl.nets, st.ap.old_nets, base.nets)
    /\ Kept(st.nl.net_pins, st.ap.old_net_pins, base.net_pins)

\* The states of an edit of base whose names have been interned to names.
Edits(base, names) ==
    {st \in [nl : NetlistsOf([base EXCEPT !.names = names]), ap : UndosOf(base)] :
        ArenasFit(st.nl) /\ UndoExact(st, base)}

-----------------------------------------------------------------------------
(***************************************************************************)
(* Saving and writing one slot.                                            *)
(***************************************************************************)

\* Saving a slot changes nothing a rollback brings back. A slot that is not
\* there is not saved.
LEMMA SavedKept ==
  ASSUME NEW S, NEW seq \in Seq(S), NEW old \in Partial(S), NEW was \in Seq(S),
         Kept(seq, old, was), NEW slot \in Nat \ {0}
  PROVE  /\ Saved(old, slot, Len(was), seq[slot]) \in Partial(S)
         /\ Kept(seq, Saved(old, slot, Len(was), seq[slot]), was)
         /\ slot > Len(was) \/ slot \in DOMAIN Saved(old, slot, Len(was), seq[slot])
         /\ DOMAIN old \subseteq DOMAIN Saved(old, slot, Len(was), seq[slot])
<1>. DEFINE new == [x \in DOMAIN old \cup {slot} |-> IF x = slot THEN seq[slot] ELSE old[x]]
<1>0. /\ Len(seq) \in Nat /\ Len(was) \in Nat /\ slot \in Nat /\ slot >= 1
      /\ slot <= Len(was) => seq[slot] \in S
  BY LenProperties, ElementOfSeq DEF Kept
<1>1. PICK D \in SUBSET Nat : old \in [D -> S]
  BY DEF Partial
<1>2. CASE slot > Len(was) \/ slot \in DOMAIN old
  BY <1>0, <1>2 DEF Saved
<1>3. CASE ~(slot > Len(was) \/ slot \in DOMAIN old)
  <2>1. Saved(old, slot, Len(was), seq[slot]) = new
    BY <1>3 DEF Saved
  <2>2. new \in [D \cup {slot} -> S] /\ D \cup {slot} \in SUBSET Nat
    BY <1>0, <1>1, <1>3
  <2>3. new \in Partial(S)
    BY <2>2 DEF Partial
  <2>4. seq[slot] = was[slot]
    BY <1>0, <1>3 DEF Kept
  <2>5. \A i \in 1..Len(was) : (IF i \in DOMAIN new THEN new[i] ELSE seq[i]) = was[i]
    BY <2>4, <1>3 DEF Kept
  <2>6. slot \in DOMAIN new /\ DOMAIN old \subseteq DOMAIN new
    OBVIOUS
  <2>. HIDE DEF new
  <2>. QED BY <2>1, <2>3, <2>5, <2>6 DEF Kept
<1>. QED BY <1>2, <1>3

\* A saved slot, and one the edit added, can be overwritten.
LEMMA WriteKept ==
  ASSUME NEW S, NEW seq \in Seq(S), NEW old, NEW was \in Seq(S),
         Kept(seq, old, was), NEW slot \in 1..Len(seq), NEW v \in S,
         slot > Len(was) \/ slot \in DOMAIN old
  PROVE  /\ [seq EXCEPT ![slot] = v] \in Seq(S)
         /\ Len([seq EXCEPT ![slot] = v]) = Len(seq)
         /\ Kept([seq EXCEPT ![slot] = v], old, was)
<1>1. Len(seq) \in Nat /\ Len(was) \in Nat /\ DOMAIN seq = 1..Len(seq)
  BY LenProperties
<1>2. /\ [seq EXCEPT ![slot] = v] \in Seq(S)
      /\ Len([seq EXCEPT ![slot] = v]) = Len(seq)
  BY <1>1, ExceptSeq
<1>3. \A i \in 1..Len(was) : i = slot \/ [seq EXCEPT ![slot] = v][i] = seq[i]
  BY <1>1 DEF Kept
<1>. QED BY <1>1, <1>2, <1>3 DEF Kept

\* Appending leaves the slots that were there alone.
LEMMA AppendKept ==
  ASSUME NEW S, NEW seq \in Seq(S), NEW old, NEW was \in Seq(S), Kept(seq, old, was), NEW v \in S
  PROVE  /\ Append(seq, v) \in Seq(S)
         /\ Len(Append(seq, v)) = Len(seq) + 1
         /\ \A i \in 1..Len(seq) : Append(seq, v)[i] = seq[i]
         /\ Append(seq, v)[Len(seq) + 1] = v
         /\ Kept(Append(seq, v), old, was)
<1>1. Len(seq) \in Nat /\ Len(was) \in Nat
  BY LenProperties
<1>2. /\ Append(seq, v) \in Seq(S)
      /\ Len(Append(seq, v)) = Len(seq) + 1
      /\ \A i \in 1..Len(seq) : Append(seq, v)[i] = seq[i]
      /\ Append(seq, v)[Len(seq) + 1] = v
  BY AppendProperties
<1>. QED BY <1>1, <1>2 DEF Kept

-----------------------------------------------------------------------------
(***************************************************************************)
(* States of an edit: the netlist as far as it has been written, and a     *)
(* record that holds the first value of everything overwritten.            *)
(***************************************************************************)

\* What belongs to the states of an edit of base.
Edit(st, base, names) == WellFormed(base) /\ st \in Edits(base, names)

\* The parts of an edit's state.
LEMMA EditParts ==
  ASSUME NEW base, NEW names, NEW st, Edit(st, base, names)
  PROVE  /\ WellFormed(base)
         /\ st.nl \in NetlistsOf([base EXCEPT !.names = names])
         /\ st.ap \in UndosOf(base)
         /\ ArenasFit(st.nl)
         /\ UndoExact(st, base)
         /\ st = [nl |-> st.nl, ap |-> st.ap]
BY DEF Edit, Edits

\* Put back together, those parts are an edit.
LEMMA EditFromParts ==
  ASSUME NEW base, NEW names, NEW st, WellFormed(base),
         NEW nl \in NetlistsOf([base EXCEPT !.names = names]),
         NEW ap \in UndosOf(base),
         st = [nl |-> nl, ap |-> ap],
         ArenasFit(nl), UndoExact(st, base)
  PROVE  Edit(st, base, names)
BY DEF Edit, Edits

\* The types of the arenas of a netlist.
LEMMA NetlistTypes ==
  ASSUME NEW base, NEW nl \in NetlistsOf(base)
  PROVE  /\ nl.nets \in Seq(NetRow) /\ nl.cells \in Seq(CellRow)
         /\ nl.connections \in Seq(Nat) /\ nl.pin_owners \in Seq(Nat)
         /\ nl.pin_links \in Seq(LinkRow) /\ nl.net_pins \in Seq(EndsRow)
         /\ Len(nl.nets) \in Nat /\ Len(nl.cells) \in Nat /\ Len(nl.connections) \in Nat
<1>1. /\ nl.nets \in Seq(NetRow) /\ nl.cells \in Seq(CellRow)
      /\ nl.connections \in Seq(Nat) /\ nl.pin_owners \in Seq(Nat)
      /\ nl.pin_links \in Seq(LinkRow) /\ nl.net_pins \in Seq(EndsRow)
  BY DEF NetlistsOf
<1>. QED BY <1>1, LenProperties

\* The types of the arenas and of what is saved of them.
LEMMA EditTypes ==
  ASSUME NEW base, NEW names, NEW st, Edit(st, base, names)
  PROVE  /\ st.nl.nets \in Seq(NetRow) /\ st.nl.cells \in Seq(CellRow)
         /\ st.nl.connections \in Seq(Nat) /\ st.nl.pin_owners \in Seq(Nat)
         /\ st.nl.pin_links \in Seq(LinkRow) /\ st.nl.net_pins \in Seq(EndsRow)
         /\ st.ap.old_nets \in Partial(NetRow) /\ st.ap.old_cells \in Partial(CellRow)
         /\ st.ap.old_connections \in Partial(Nat) /\ st.ap.old_net_pins \in Partial(EndsRow)
         /\ st.ap.old_pin_links \in Partial(LinkRow)
         /\ st.ap.net_len = Len(base.nets) /\ st.ap.net_len = Len(base.net_pins)
         /\ st.ap.cell_len = Len(base.cells)
         /\ st.ap.connection_len = Len(base.connections)
         /\ st.ap.connection_len = Len(base.pin_links)
         /\ st.ap.committed_revision = base.edit_revision + 1
         /\ st.ap.committed_revision \in Nat
<1>1. /\ st.nl \in NetlistsOf([base EXCEPT !.names = names])
      /\ st.ap \in UndosOf(base)
  BY EditParts
<1>2. base.edit_revision \in Nat /\ ArenasFit(base)
  BY DEF Edit, WellFormed
<1>3. /\ st.ap.old_nets \in Partial(NetRow) /\ st.ap.old_cells \in Partial(CellRow)
      /\ st.ap.old_connections \in Partial(Nat) /\ st.ap.old_net_pins \in Partial(EndsRow)
      /\ st.ap.old_pin_links \in Partial(LinkRow)
      /\ st.ap.net_len = Len(base.nets) /\ st.ap.cell_len = Len(base.cells)
      /\ st.ap.connection_len = Len(base.connections)
      /\ st.ap.committed_revision = base.edit_revision + 1
  BY <1>1 DEF UndosOf
<1>4. Len(base.net_pins) = Len(base.nets) /\ Len(base.pin_links) = Len(base.connections)
  BY <1>2 DEF ArenasFit
<1>. QED BY <1>1, <1>2, <1>3, <1>4, NetlistTypes

\* What a netlist that can be edited holds.
LEMMA BaseTypes ==
  ASSUME NEW base, WellFormed(base)
  PROVE  /\ base.nets \in Seq(NetRow) /\ base.cells \in Seq(CellRow)
         /\ base.connections \in Seq(Nat) /\ base.pin_owners \in Seq(Nat)
         /\ base.pin_links \in Seq(LinkRow) /\ base.net_pins \in Seq(EndsRow)
         /\ ArenasFit(base) /\ IsSequence(base.names)
BY DEF WellFormed, NetlistsOf

\* The lengths of the arenas.
LEMMA EditLengths ==
  ASSUME NEW base, NEW names, NEW st, Edit(st, base, names)
  PROVE  /\ Len(st.nl.nets) \in Nat /\ Len(st.nl.cells) \in Nat
         /\ Len(st.nl.connections) \in Nat
         /\ Len(st.nl.net_pins) = Len(st.nl.nets)
         /\ Len(st.nl.pin_owners) = Len(st.nl.connections)
         /\ Len(st.nl.pin_links) = Len(st.nl.connections)
         /\ Len(base.nets) <= Len(st.nl.nets) /\ Len(base.cells) <= Len(st.nl.cells)
         /\ Len(base.connections) <= Len(st.nl.connections)
         /\ Len(base.nets) \in Nat /\ Len(base.cells) \in Nat
         /\ Len(base.connections) \in Nat
<1>1. /\ st.nl \in NetlistsOf([base EXCEPT !.names = names])
      /\ base \in NetlistsOf(base)
      /\ ArenasFit(st.nl) /\ UndoExact(st, base)
  BY EditParts DEF Edit, WellFormed
<1>2. /\ Len(st.nl.nets) \in Nat /\ Len(st.nl.cells) \in Nat
      /\ Len(st.nl.connections) \in Nat
      /\ Len(base.nets) \in Nat /\ Len(base.cells) \in Nat
      /\ Len(base.connections) \in Nat
  BY <1>1, NetlistTypes
<1>3. /\ Len(st.nl.net_pins) = Len(st.nl.nets)
      /\ Len(st.nl.pin_owners) = Len(st.nl.connections)
      /\ Len(st.nl.pin_links) = Len(st.nl.connections)
  BY <1>1 DEF ArenasFit
<1>4. /\ Len(base.nets) <= Len(st.nl.nets) /\ Len(base.cells) <= Len(st.nl.cells)
      /\ Len(base.connections) <= Len(st.nl.connections)
  BY <1>1 DEF UndoExact, Kept
<1>. QED BY <1>2, <1>3, <1>4

-----------------------------------------------------------------------------
(* Saving a slot of each arena.                                            *)

\* The state t is st with the links of p saved.
LinksSavedFrom(t, st, base, names, p) ==
    /\ Edit(t, base, names)
    /\ t.nl = st.nl
    /\ p > Len(base.pin_links) \/ p \in DOMAIN t.ap.old_pin_links
    /\ DOMAIN st.ap.old_pin_links \subseteq DOMAIN t.ap.old_pin_links
    /\ t.ap.old_net_pins = st.ap.old_net_pins
    /\ t.ap.old_cells = st.ap.old_cells
    /\ t.ap.old_connections = st.ap.old_connections

\* Saving the links of a pin keeps the edit exact and changes no slot.
LEMMA SavePinLinksEdit ==
  ASSUME NEW base, NEW names, NEW st, Edit(st, base, names),
         NEW p \in Nat \ {0}
  PROVE  LinksSavedFrom(SavePinLinks(st, p), st, base, names, p)
<1>. DEFINE old == Saved(st.ap.old_pin_links, p, Len(base.pin_links), st.nl.pin_links[p])
            ap == [st.ap EXCEPT !.old_pin_links = old]
            t == SavePinLinks(st, p)
<1>1. /\ st.nl.pin_links \in Seq(LinkRow) /\ st.ap.old_pin_links \in Partial(LinkRow)
      /\ base.pin_links \in Seq(LinkRow) /\ Len(st.nl.pin_links) = Len(st.nl.connections)
      /\ Kept(st.nl.pin_links, st.ap.old_pin_links, base.pin_links)
      /\ st.ap.connection_len = Len(base.pin_links)
  <2>1. WellFormed(base) /\ UndoExact(st, base)
    BY EditParts
  <2>. QED BY <2>1, EditTypes, EditLengths, BaseTypes DEF UndoExact
<1>2. /\ old \in Partial(LinkRow) /\ Kept(st.nl.pin_links, old, base.pin_links)
      /\ p > Len(base.pin_links) \/ p \in DOMAIN old
      /\ DOMAIN st.ap.old_pin_links \subseteq DOMAIN old
  BY <1>1, SavedKept
<1>3. st = [nl |-> st.nl, ap |-> st.ap] /\ st.ap \in UndosOf(base)
  BY EditParts
<1>. HIDE DEF old
<1>4. t = [nl |-> st.nl, ap |-> ap]
  BY <1>1, <1>3 DEF SavePinLinks, old
<1>5. /\ ap \in UndosOf(base) /\ ap.old_pin_links = old
      /\ ap.old_connections = st.ap.old_connections /\ ap.old_cells = st.ap.old_cells
      /\ ap.old_nets = st.ap.old_nets /\ ap.old_net_pins = st.ap.old_net_pins
  BY <1>2, <1>3 DEF UndosOf
<1>. HIDE DEF ap, t
<1>6. UndoExact(t, base)
  BY <1>2, <1>4, <1>5, EditParts DEF UndoExact
<1>7. Edit(t, base, names)
  BY <1>4, <1>5, <1>6, EditParts, EditFromParts DEF Edit
<1>. QED BY <1>2, <1>4, <1>5, <1>7 DEF t, LinksSavedFrom

\* Saving the ends of a pin list keeps the edit exact and changes no slot.
LEMMA SaveNetPinsEdit ==
  ASSUME NEW base, NEW names, NEW st, Edit(st, base, names),
         NEW n \in 1..Len(st.nl.nets)
  PROVE  /\ Edit(SaveNetPins(st, n), base, names)
         /\ SaveNetPins(st, n).nl = st.nl
         /\ n > Len(base.net_pins) \/ n \in DOMAIN SaveNetPins(st, n).ap.old_net_pins
         /\ SaveNetPins(st, n).ap.old_pin_links = st.ap.old_pin_links
         /\ SaveNetPins(st, n).ap.old_cells = st.ap.old_cells
         /\ SaveNetPins(st, n).ap.old_connections = st.ap.old_connections
<1>. DEFINE old == Saved(st.ap.old_net_pins, n, Len(base.net_pins), st.nl.net_pins[n])
            ap == [st.ap EXCEPT !.old_net_pins = old]
            t == SaveNetPins(st, n)
<1>1. /\ st.nl.net_pins \in Seq(EndsRow) /\ st.ap.old_net_pins \in Partial(EndsRow)
      /\ base.net_pins \in Seq(EndsRow) /\ Len(st.nl.net_pins) = Len(st.nl.nets)
      /\ Kept(st.nl.net_pins, st.ap.old_net_pins, base.net_pins)
      /\ st.ap.net_len = Len(base.net_pins)
  <2>1. WellFormed(base) /\ UndoExact(st, base)
    BY EditParts
  <2>. QED BY <2>1, EditTypes, EditLengths, BaseTypes DEF UndoExact
<1>2. /\ old \in Partial(EndsRow) /\ Kept(st.nl.net_pins, old, base.net_pins)
      /\ n > Len(base.net_pins) \/ n \in DOMAIN old
  BY <1>1, SavedKept
<1>3. st = [nl |-> st.nl, ap |-> st.ap] /\ st.ap \in UndosOf(base)
  BY EditParts
<1>. HIDE DEF old
<1>4. t = [nl |-> st.nl, ap |-> ap]
  BY <1>1, <1>3 DEF SaveNetPins, old
<1>5. /\ ap \in UndosOf(base) /\ ap.old_net_pins = old
      /\ ap.old_connections = st.ap.old_connections /\ ap.old_cells = st.ap.old_cells
      /\ ap.old_nets = st.ap.old_nets /\ ap.old_pin_links = st.ap.old_pin_links
  BY <1>2, <1>3 DEF UndosOf
<1>. HIDE DEF ap, t
<1>6. UndoExact(t, base)
  BY <1>2, <1>4, <1>5, EditParts DEF UndoExact
<1>7. Edit(t, base, names)
  BY <1>4, <1>5, <1>6, EditParts, EditFromParts DEF Edit
<1>. QED BY <1>2, <1>4, <1>5, <1>7 DEF t

\* Saving the row of a net keeps the edit exact and changes no slot.
LEMMA SaveNetEdit ==
  ASSUME NEW base, NEW names, NEW st, Edit(st, base, names),
         NEW n \in 1..Len(st.nl.nets)
  PROVE  /\ Edit(SaveNet(st, n), base, names)
         /\ SaveNet(st, n).nl = st.nl
         /\ n > Len(base.nets) \/ n \in DOMAIN SaveNet(st, n).ap.old_nets
         /\ SaveNet(st, n).ap.old_cells = st.ap.old_cells
<1>. DEFINE old == Saved(st.ap.old_nets, n, Len(base.nets), st.nl.nets[n])
            ap == [st.ap EXCEPT !.old_nets = old]
            t == SaveNet(st, n)
<1>1. /\ st.nl.nets \in Seq(NetRow) /\ st.ap.old_nets \in Partial(NetRow)
      /\ base.nets \in Seq(NetRow)
      /\ Kept(st.nl.nets, st.ap.old_nets, base.nets)
      /\ st.ap.net_len = Len(base.nets)
  <2>1. WellFormed(base) /\ UndoExact(st, base)
    BY EditParts
  <2>. QED BY <2>1, EditTypes, EditLengths, BaseTypes DEF UndoExact
<1>2. /\ old \in Partial(NetRow) /\ Kept(st.nl.nets, old, base.nets)
      /\ n > Len(base.nets) \/ n \in DOMAIN old
  BY <1>1, SavedKept
<1>3. st = [nl |-> st.nl, ap |-> st.ap] /\ st.ap \in UndosOf(base)
  BY EditParts
<1>. HIDE DEF old
<1>4. t = [nl |-> st.nl, ap |-> ap]
  BY <1>1, <1>3 DEF SaveNet, old
<1>5. /\ ap \in UndosOf(base) /\ ap.old_nets = old
      /\ ap.old_connections = st.ap.old_connections /\ ap.old_cells = st.ap.old_cells
      /\ ap.old_net_pins = st.ap.old_net_pins /\ ap.old_pin_links = st.ap.old_pin_links
  BY <1>2, <1>3 DEF UndosOf
<1>. HIDE DEF ap, t
<1>6. UndoExact(t, base)
  BY <1>2, <1>4, <1>5, EditParts DEF UndoExact
<1>7. Edit(t, base, names)
  BY <1>4, <1>5, <1>6, EditParts, EditFromParts DEF Edit
<1>. QED BY <1>2, <1>4, <1>5, <1>7 DEF t

\* Saving the row of a cell keeps the edit exact and changes no slot.
LEMMA SaveCellEdit ==
  ASSUME NEW base, NEW names, NEW st, Edit(st, base, names),
         NEW c \in 1..Len(st.nl.cells)
  PROVE  /\ Edit(SaveCell(st, c), base, names)
         /\ SaveCell(st, c).nl = st.nl
         /\ c > Len(base.cells) \/ c \in DOMAIN SaveCell(st, c).ap.old_cells
<1>. DEFINE old == Saved(st.ap.old_cells, c, Len(base.cells), st.nl.cells[c])
            ap == [st.ap EXCEPT !.old_cells = old]
            t == SaveCell(st, c)
<1>1. /\ st.nl.cells \in Seq(CellRow) /\ st.ap.old_cells \in Partial(CellRow)
      /\ base.cells \in Seq(CellRow)
      /\ Kept(st.nl.cells, st.ap.old_cells, base.cells)
      /\ st.ap.cell_len = Len(base.cells)
  <2>1. WellFormed(base) /\ UndoExact(st, base)
    BY EditParts
  <2>. QED BY <2>1, EditTypes, EditLengths, BaseTypes DEF UndoExact
<1>2. /\ old \in Partial(CellRow) /\ Kept(st.nl.cells, old, base.cells)
      /\ c > Len(base.cells) \/ c \in DOMAIN old
  BY <1>1, SavedKept
<1>3. st = [nl |-> st.nl, ap |-> st.ap] /\ st.ap \in UndosOf(base)
  BY EditParts
<1>. HIDE DEF old
<1>4. t = [nl |-> st.nl, ap |-> ap]
  BY <1>1, <1>3 DEF SaveCell, old
<1>5. /\ ap \in UndosOf(base) /\ ap.old_cells = old
      /\ ap.old_connections = st.ap.old_connections /\ ap.old_nets = st.ap.old_nets
      /\ ap.old_net_pins = st.ap.old_net_pins /\ ap.old_pin_links = st.ap.old_pin_links
  BY <1>2, <1>3 DEF UndosOf
<1>. HIDE DEF ap, t
<1>6. UndoExact(t, base)
  BY <1>2, <1>4, <1>5, EditParts DEF UndoExact
<1>7. Edit(t, base, names)
  BY <1>4, <1>5, <1>6, EditParts, EditFromParts DEF Edit
<1>. QED BY <1>2, <1>4, <1>5, <1>7 DEF t

-----------------------------------------------------------------------------
(* Putting a new arena in the place of one, when all that it overwrites is  *)
(* saved.                                                                   *)

\* Replacing an arena of the netlist.
LEMMA PutParts ==
  ASSUME NEW st, st = [nl |-> st.nl, ap |-> st.ap], NEW x
  PROVE  /\ [st EXCEPT !.nl.pin_links = x] = [nl |-> [st.nl EXCEPT !.pin_links = x], ap |-> st.ap]
         /\ [st EXCEPT !.nl.net_pins = x] = [nl |-> [st.nl EXCEPT !.net_pins = x], ap |-> st.ap]
         /\ [st EXCEPT !.nl.nets = x] = [nl |-> [st.nl EXCEPT !.nets = x], ap |-> st.ap]
         /\ [st EXCEPT !.nl.cells = x] = [nl |-> [st.nl EXCEPT !.cells = x], ap |-> st.ap]
         /\ [st EXCEPT !.nl.connections = x]
              = [nl |-> [st.nl EXCEPT !.connections = x], ap |-> st.ap]
OBVIOUS

\* New links, where what they overwrite is saved.
LEMMA PutLinks ==
  ASSUME NEW base, NEW names, NEW st, Edit(st, base, names),
         NEW new \in Seq(LinkRow), Len(new) = Len(st.nl.pin_links),
         Kept(new, st.ap.old_pin_links, base.pin_links)
  PROVE  /\ Edit([st EXCEPT !.nl.pin_links = new], base, names)
         /\ [st EXCEPT !.nl.pin_links = new].nl = [st.nl EXCEPT !.pin_links = new]
         /\ [st EXCEPT !.nl.pin_links = new].ap = st.ap
<1>. DEFINE nl == [st.nl EXCEPT !.pin_links = new]
            t == [st EXCEPT !.nl.pin_links = new]
<1>1. /\ st = [nl |-> st.nl, ap |-> st.ap] /\ WellFormed(base)
      /\ st.ap \in UndosOf(base) /\ UndoExact(st, base)
      /\ ArenasFit(st.nl)
      /\ st.nl \in NetlistsOf([base EXCEPT !.names = names])
  BY EditParts
<1>2. t = [nl |-> nl, ap |-> st.ap]
  BY <1>1, PutParts
<1>3. /\ nl \in NetlistsOf([base EXCEPT !.names = names])
      /\ nl.pin_links = new
      /\ nl.connections = st.nl.connections /\ nl.pin_owners = st.nl.pin_owners
      /\ nl.cells = st.nl.cells /\ nl.nets = st.nl.nets
      /\ nl.net_pins = st.nl.net_pins
  BY <1>1 DEF NetlistsOf
<1>. HIDE DEF nl, t
<1>4. ArenasFit(nl)
  <2>1. ArenasFit(st.nl) <=>
          /\ Len(st.nl.net_pins) = Len(st.nl.nets)
          /\ Len(st.nl.pin_owners) = Len(st.nl.connections)
          /\ Len(st.nl.pin_links) = Len(st.nl.connections)
          /\ \A p \in 1..Len(st.nl.connections) : st.nl.connections[p] <= Len(st.nl.nets)
          /\ \A c \in 1..Len(st.nl.cells) :
               PinsFit(st.nl.cells[c], Len(st.nl.connections))
    BY DEF ArenasFit
  <2>. QED BY <1>1, <1>3, <2>1, EditLengths DEF ArenasFit
<1>5. UndoExact(t, base)
  BY <1>1, <1>2, <1>3 DEF UndoExact
<1>6. Edit(t, base, names)
  BY <1>1, <1>2, <1>3, <1>4, <1>5, EditFromParts
<1>. QED BY <1>2, <1>6 DEF t, nl

\* New ends of the pin lists, where what they overwrite is saved.
LEMMA PutNetPins ==
  ASSUME NEW base, NEW names, NEW st, Edit(st, base, names),
         NEW new \in Seq(EndsRow), Len(new) = Len(st.nl.net_pins),
         Kept(new, st.ap.old_net_pins, base.net_pins)
  PROVE  /\ Edit([st EXCEPT !.nl.net_pins = new], base, names)
         /\ [st EXCEPT !.nl.net_pins = new].nl = [st.nl EXCEPT !.net_pins = new]
         /\ [st EXCEPT !.nl.net_pins = new].ap = st.ap
<1>. DEFINE nl == [st.nl EXCEPT !.net_pins = new]
            t == [st EXCEPT !.nl.net_pins = new]
<1>1. /\ st = [nl |-> st.nl, ap |-> st.ap] /\ WellFormed(base)
      /\ st.ap \in UndosOf(base) /\ UndoExact(st, base)
      /\ ArenasFit(st.nl)
      /\ st.nl \in NetlistsOf([base EXCEPT !.names = names])
  BY EditParts
<1>2. t = [nl |-> nl, ap |-> st.ap]
  BY <1>1, PutParts
<1>3. /\ nl \in NetlistsOf([base EXCEPT !.names = names])
      /\ nl.net_pins = new
      /\ nl.connections = st.nl.connections /\ nl.pin_owners = st.nl.pin_owners
      /\ nl.pin_links = st.nl.pin_links /\ nl.cells = st.nl.cells
      /\ nl.nets = st.nl.nets
  BY <1>1 DEF NetlistsOf
<1>. HIDE DEF nl, t
<1>4. ArenasFit(nl)
  <2>1. ArenasFit(st.nl) <=>
          /\ Len(st.nl.net_pins) = Len(st.nl.nets)
          /\ Len(st.nl.pin_owners) = Len(st.nl.connections)
          /\ Len(st.nl.pin_links) = Len(st.nl.connections)
          /\ \A p \in 1..Len(st.nl.connections) : st.nl.connections[p] <= Len(st.nl.nets)
          /\ \A c \in 1..Len(st.nl.cells) :
               PinsFit(st.nl.cells[c], Len(st.nl.connections))
    BY DEF ArenasFit
  <2>. QED BY <1>1, <1>3, <2>1, EditLengths DEF ArenasFit
<1>5. UndoExact(t, base)
  BY <1>1, <1>2, <1>3 DEF UndoExact
<1>6. Edit(t, base, names)
  BY <1>1, <1>2, <1>3, <1>4, <1>5, EditFromParts
<1>. QED BY <1>2, <1>6 DEF t, nl

\* New net rows, where what they overwrite is saved.
LEMMA PutNets ==
  ASSUME NEW base, NEW names, NEW st, Edit(st, base, names),
         NEW new \in Seq(NetRow), Len(new) = Len(st.nl.nets),
         Kept(new, st.ap.old_nets, base.nets)
  PROVE  /\ Edit([st EXCEPT !.nl.nets = new], base, names)
         /\ [st EXCEPT !.nl.nets = new].nl = [st.nl EXCEPT !.nets = new]
         /\ [st EXCEPT !.nl.nets = new].ap = st.ap
<1>. DEFINE nl == [st.nl EXCEPT !.nets = new]
            t == [st EXCEPT !.nl.nets = new]
<1>1. /\ st = [nl |-> st.nl, ap |-> st.ap] /\ WellFormed(base)
      /\ st.ap \in UndosOf(base) /\ UndoExact(st, base)
      /\ ArenasFit(st.nl)
      /\ st.nl \in NetlistsOf([base EXCEPT !.names = names])
  BY EditParts
<1>2. t = [nl |-> nl, ap |-> st.ap]
  BY <1>1, PutParts
<1>3. /\ nl \in NetlistsOf([base EXCEPT !.names = names])
      /\ nl.nets = new
      /\ nl.connections = st.nl.connections /\ nl.pin_owners = st.nl.pin_owners
      /\ nl.pin_links = st.nl.pin_links /\ nl.cells = st.nl.cells
      /\ nl.net_pins = st.nl.net_pins
  BY <1>1 DEF NetlistsOf
<1>. HIDE DEF nl, t
<1>4. ArenasFit(nl)
  <2>1. ArenasFit(st.nl) <=>
          /\ Len(st.nl.net_pins) = Len(st.nl.nets)
          /\ Len(st.nl.pin_owners) = Len(st.nl.connections)
          /\ Len(st.nl.pin_links) = Len(st.nl.connections)
          /\ \A p \in 1..Len(st.nl.connections) : st.nl.connections[p] <= Len(st.nl.nets)
          /\ \A c \in 1..Len(st.nl.cells) :
               PinsFit(st.nl.cells[c], Len(st.nl.connections))
    BY DEF ArenasFit
  <2>. QED BY <1>1, <1>3, <2>1, EditLengths DEF ArenasFit
<1>5. UndoExact(t, base)
  BY <1>1, <1>2, <1>3 DEF UndoExact
<1>6. Edit(t, base, names)
  BY <1>1, <1>2, <1>3, <1>4, <1>5, EditFromParts
<1>. QED BY <1>2, <1>6 DEF t, nl

\* New cell rows with their pins in the arena, where what they overwrite is saved.
LEMMA PutCells ==
  ASSUME NEW base, NEW names, NEW st, Edit(st, base, names),
         NEW new \in Seq(CellRow), Len(new) = Len(st.nl.cells),
         \A c \in 1..Len(new) : PinsFit(new[c], Len(st.nl.connections)),
         Kept(new, st.ap.old_cells, base.cells)
  PROVE  /\ Edit([st EXCEPT !.nl.cells = new], base, names)
         /\ [st EXCEPT !.nl.cells = new].nl = [st.nl EXCEPT !.cells = new]
         /\ [st EXCEPT !.nl.cells = new].ap = st.ap
<1>. DEFINE nl == [st.nl EXCEPT !.cells = new]
            t == [st EXCEPT !.nl.cells = new]
<1>1. /\ st = [nl |-> st.nl, ap |-> st.ap] /\ WellFormed(base)
      /\ st.ap \in UndosOf(base) /\ UndoExact(st, base)
      /\ ArenasFit(st.nl)
      /\ st.nl \in NetlistsOf([base EXCEPT !.names = names])
  BY EditParts
<1>2. t = [nl |-> nl, ap |-> st.ap]
  BY <1>1, PutParts
<1>3. /\ nl \in NetlistsOf([base EXCEPT !.names = names])
      /\ nl.cells = new
      /\ nl.connections = st.nl.connections /\ nl.pin_owners = st.nl.pin_owners
      /\ nl.pin_links = st.nl.pin_links /\ nl.nets = st.nl.nets
      /\ nl.net_pins = st.nl.net_pins
  BY <1>1 DEF NetlistsOf
<1>. HIDE DEF nl, t
<1>4. ArenasFit(nl)
  <2>1. ArenasFit(st.nl) <=>
          /\ Len(st.nl.net_pins) = Len(st.nl.nets)
          /\ Len(st.nl.pin_owners) = Len(st.nl.connections)
          /\ Len(st.nl.pin_links) = Len(st.nl.connections)
          /\ \A p \in 1..Len(st.nl.connections) : st.nl.connections[p] <= Len(st.nl.nets)
          /\ \A c \in 1..Len(st.nl.cells) :
               PinsFit(st.nl.cells[c], Len(st.nl.connections))
    BY DEF ArenasFit
  <2>. QED BY <1>1, <1>3, <2>1, EditLengths DEF ArenasFit
<1>5. UndoExact(t, base)
  BY <1>1, <1>2, <1>3 DEF UndoExact
<1>6. Edit(t, base, names)
  BY <1>1, <1>2, <1>3, <1>4, <1>5, EditFromParts
<1>. QED BY <1>2, <1>6 DEF t, nl

\* New connections to nets that exist, where what they overwrite is saved.
LEMMA PutConnections ==
  ASSUME NEW base, NEW names, NEW st, Edit(st, base, names),
         NEW new \in Seq(Nat), Len(new) = Len(st.nl.connections),
         \A q \in 1..Len(new) : new[q] <= Len(st.nl.nets),
         Kept(new, st.ap.old_connections, base.connections)
  PROVE  /\ Edit([st EXCEPT !.nl.connections = new], base, names)
         /\ [st EXCEPT !.nl.connections = new].nl = [st.nl EXCEPT !.connections = new]
         /\ [st EXCEPT !.nl.connections = new].ap = st.ap
<1>. DEFINE nl == [st.nl EXCEPT !.connections = new]
            t == [st EXCEPT !.nl.connections = new]
<1>1. /\ st = [nl |-> st.nl, ap |-> st.ap] /\ WellFormed(base)
      /\ st.ap \in UndosOf(base) /\ UndoExact(st, base)
      /\ ArenasFit(st.nl)
      /\ st.nl \in NetlistsOf([base EXCEPT !.names = names])
  BY EditParts
<1>2. t = [nl |-> nl, ap |-> st.ap]
  BY <1>1, PutParts
<1>3. /\ nl \in NetlistsOf([base EXCEPT !.names = names])
      /\ nl.connections = new
      /\ nl.pin_owners = st.nl.pin_owners /\ nl.pin_links = st.nl.pin_links
      /\ nl.cells = st.nl.cells /\ nl.nets = st.nl.nets
      /\ nl.net_pins = st.nl.net_pins
  BY <1>1 DEF NetlistsOf
<1>. HIDE DEF nl, t
<1>4. ArenasFit(nl)
  <2>1. ArenasFit(st.nl) <=>
          /\ Len(st.nl.net_pins) = Len(st.nl.nets)
          /\ Len(st.nl.pin_owners) = Len(st.nl.connections)
          /\ Len(st.nl.pin_links) = Len(st.nl.connections)
          /\ \A p \in 1..Len(st.nl.connections) : st.nl.connections[p] <= Len(st.nl.nets)
          /\ \A c \in 1..Len(st.nl.cells) :
               PinsFit(st.nl.cells[c], Len(st.nl.connections))
    BY DEF ArenasFit
  <2>. QED BY <1>1, <1>3, <2>1, EditLengths DEF ArenasFit
<1>5. UndoExact(t, base)
  BY <1>1, <1>2, <1>3 DEF UndoExact
<1>6. Edit(t, base, names)
  BY <1>1, <1>2, <1>3, <1>4, <1>5, EditFromParts
<1>. QED BY <1>2, <1>6 DEF t, nl

-----------------------------------------------------------------------------
(***************************************************************************)
(* Pin lists.                                                              *)
(***************************************************************************)

\* A link that may be overwritten.
LinkSaved(st, base, p) == p > Len(base.pin_links) \/ p \in DOMAIN st.ap.old_pin_links
EndsSaved(st, base, n) == n > Len(base.net_pins) \/ n \in DOMAIN st.ap.old_net_pins

\* All but the pin lists of the netlist is the same.
ListsOnly(t, st) ==
    /\ t.nl.connections = st.nl.connections /\ t.nl.pin_owners = st.nl.pin_owners
    /\ t.nl.nets = st.nl.nets /\ t.nl.cells = st.nl.cells
    /\ t.nl.status = st.nl.status
    /\ t.ap.old_cells = st.ap.old_cells
    /\ t.ap.old_connections = st.ap.old_connections

\* The writes to the pin lists.
PutNext(st, p, x) == [st EXCEPT !.nl.pin_links[p].next = x]
PutPrevious(st, p, x) == [st EXCEPT !.nl.pin_links[p].previous = x]
PutLink(st, p, row) == [st EXCEPT !.nl.pin_links[p] = row]
PutHead(st, n, x) == [st EXCEPT !.nl.net_pins[n].head = x]
PutTail(st, n, x) == [st EXCEPT !.nl.net_pins[n].tail = x]

\* Replacing one list or one field of it.
LEMMA PutSlot ==
  ASSUME NEW st, st = [nl |-> st.nl, ap |-> st.ap], NEW p, NEW x
  PROVE  /\ [st EXCEPT !.nl.pin_links[p] = x]
              = [st EXCEPT !.nl.pin_links = [st.nl.pin_links EXCEPT ![p] = x]]
         /\ [st EXCEPT !.nl.pin_links[p].next = x]
              = [st EXCEPT !.nl.pin_links = [st.nl.pin_links
                                      EXCEPT ![p] = [st.nl.pin_links[p] EXCEPT !.next = x]]]
         /\ [st EXCEPT !.nl.pin_links[p].previous = x]
              = [st EXCEPT !.nl.pin_links = [st.nl.pin_links
                                      EXCEPT ![p] = [st.nl.pin_links[p] EXCEPT !.previous = x]]]
         /\ [st EXCEPT !.nl.net_pins[p].head = x]
              = [st EXCEPT !.nl.net_pins = [st.nl.net_pins
                                      EXCEPT ![p] = [st.nl.net_pins[p] EXCEPT !.head = x]]]
         /\ [st EXCEPT !.nl.net_pins[p].tail = x]
              = [st EXCEPT !.nl.net_pins = [st.nl.net_pins
                                      EXCEPT ![p] = [st.nl.net_pins[p] EXCEPT !.tail = x]]]
         /\ [st EXCEPT !.nl.connections[p] = x]
              = [st EXCEPT !.nl.connections = [st.nl.connections EXCEPT ![p] = x]]
         /\ [st EXCEPT !.nl.nets[p].version = x]
              = [st EXCEPT !.nl.nets = [st.nl.nets
                                      EXCEPT ![p] = [st.nl.nets[p] EXCEPT !.version = x]]]
         /\ [st EXCEPT !.nl.cells[p].version = x]
              = [st EXCEPT !.nl.cells = [st.nl.cells
                                      EXCEPT ![p] = [st.nl.cells[p] EXCEPT !.version = x]]]
OBVIOUS

\* What putting a new pin_links or net_pins leaves alone.
LEMMA ListsPut ==
  ASSUME NEW base, NEW names, NEW st, Edit(st, base, names), NEW x
  PROVE  /\ ListsOnly([st EXCEPT !.nl.pin_links = x], st)
         /\ [st EXCEPT !.nl.pin_links = x].nl.net_pins = st.nl.net_pins
         /\ [st EXCEPT !.nl.pin_links = x].nl.pin_links = x
         /\ [st EXCEPT !.nl.pin_links = x].ap = st.ap
         /\ ListsOnly([st EXCEPT !.nl.net_pins = x], st)
         /\ [st EXCEPT !.nl.net_pins = x].nl.pin_links = st.nl.pin_links
         /\ [st EXCEPT !.nl.net_pins = x].nl.net_pins = x
         /\ [st EXCEPT !.nl.net_pins = x].ap = st.ap
<1>1. st = [nl |-> st.nl, ap |-> st.ap] /\ st.nl \in NetlistsOf([base EXCEPT !.names = names])
  BY EditParts
<1>. DEFINE a == [st.nl EXCEPT !.pin_links = x]
            b == [st.nl EXCEPT !.net_pins = x]
<1>2. /\ a.connections = st.nl.connections /\ a.pin_owners = st.nl.pin_owners
      /\ a.nets = st.nl.nets /\ a.cells = st.nl.cells /\ a.status = st.nl.status
      /\ a.net_pins = st.nl.net_pins /\ a.pin_links = x
  BY <1>1 DEF NetlistsOf
<1>3. /\ b.connections = st.nl.connections /\ b.pin_owners = st.nl.pin_owners
      /\ b.nets = st.nl.nets /\ b.cells = st.nl.cells /\ b.status = st.nl.status
      /\ b.pin_links = st.nl.pin_links /\ b.net_pins = x
  BY <1>1 DEF NetlistsOf
<1>. HIDE DEF a, b
<1>4. /\ [st EXCEPT !.nl.pin_links = x] = [nl |-> a, ap |-> st.ap]
      /\ [st EXCEPT !.nl.net_pins = x] = [nl |-> b, ap |-> st.ap]
  BY <1>1, PutParts DEF a, b
<1>. QED BY <1>2, <1>3, <1>4 DEF ListsOnly

\* Overwriting the links of a saved pin.
LEMMA WriteLink ==
  ASSUME NEW base, NEW names, NEW st, Edit(st, base, names),
         NEW p \in Nat \ {0}, LinkSaved(st, base, p), NEW row,
         p \in 1..Len(st.nl.connections) => row \in LinkRow
  PROVE  /\ Edit([st EXCEPT !.nl.pin_links = [st.nl.pin_links EXCEPT ![p] = row]], base, names)
         /\ Len([st.nl.pin_links EXCEPT ![p] = row]) = Len(st.nl.pin_links)
<1>. DEFINE new == [st.nl.pin_links EXCEPT ![p] = row]
<1>1. /\ st.nl.pin_links \in Seq(LinkRow) /\ base.pin_links \in Seq(LinkRow)
      /\ Kept(st.nl.pin_links, st.ap.old_pin_links, base.pin_links)
      /\ Len(st.nl.pin_links) = Len(st.nl.connections)
      /\ Len(st.nl.connections) \in Nat
  <2>1. WellFormed(base) /\ UndoExact(st, base)
    BY EditParts
  <2>. QED BY <2>1, EditTypes, EditLengths, BaseTypes DEF UndoExact
<1>2. /\ new \in Seq(LinkRow) /\ Len(new) = Len(st.nl.pin_links)
      /\ Kept(new, st.ap.old_pin_links, base.pin_links)
  <2>1. CASE p \in 1..Len(st.nl.connections)
    BY <1>1, <2>1, WriteKept DEF LinkSaved
  <2>2. CASE p \notin 1..Len(st.nl.connections)
    <3>1. p \notin DOMAIN st.nl.pin_links
      BY <1>1, <2>2, LenProperties
    <3>2. new = st.nl.pin_links
      BY <1>1, <3>1
    <3>. QED BY <1>1, <3>2
  <2>. QED BY <2>1, <2>2
<1>. QED BY <1>2, PutLinks

\* Writing the ends of a saved list.
LEMMA WriteEnds ==
  ASSUME NEW base, NEW names, NEW st, Edit(st, base, names),
         NEW n \in 1..Len(st.nl.nets), EndsSaved(st, base, n), NEW row \in EndsRow
  PROVE  Edit([st EXCEPT !.nl.net_pins = [st.nl.net_pins EXCEPT ![n] = row]], base, names)
<1>. DEFINE new == [st.nl.net_pins EXCEPT ![n] = row]
<1>1. /\ st.nl.net_pins \in Seq(EndsRow) /\ base.net_pins \in Seq(EndsRow)
      /\ Kept(st.nl.net_pins, st.ap.old_net_pins, base.net_pins)
      /\ Len(st.nl.net_pins) = Len(st.nl.nets)
  <2>1. WellFormed(base) /\ UndoExact(st, base)
    BY EditParts
  <2>. QED BY <2>1, EditTypes, EditLengths, BaseTypes DEF UndoExact
<1>2. /\ new \in Seq(EndsRow) /\ Len(new) = Len(st.nl.net_pins)
      /\ Kept(new, st.ap.old_net_pins, base.net_pins)
  BY <1>1, WriteKept DEF EndsSaved
<1>. QED BY <1>2, PutNetPins

\* The same, as the operations write it: the field of a saved row, which
\* leaves what is saved and every other arena alone.
LEMMA WriteLinkField ==
  ASSUME NEW base, NEW names, NEW st, Edit(st, base, names),
         NEW p \in Nat \ {0}, LinkSaved(st, base, p), NEW x \in Nat
  PROVE  /\ Edit(PutNext(st, p, x), base, names)
         /\ ListsOnly(PutNext(st, p, x), st)
         /\ PutNext(st, p, x).ap = st.ap
         /\ Edit(PutPrevious(st, p, x), base, names)
         /\ ListsOnly(PutPrevious(st, p, x), st)
         /\ PutPrevious(st, p, x).ap = st.ap
<1>1. st = [nl |-> st.nl, ap |-> st.ap]
  BY EditParts
<1>2. st.nl.pin_links \in Seq(LinkRow) /\ Len(st.nl.pin_links) = Len(st.nl.connections)
  BY EditTypes, EditLengths
<1>3. p \in 1..Len(st.nl.connections) => st.nl.pin_links[p] \in LinkRow
  BY <1>2, ElementOfSeq
<1>4. p \in 1..Len(st.nl.connections) =>
        /\ [st.nl.pin_links[p] EXCEPT !.next = x] \in LinkRow
        /\ [st.nl.pin_links[p] EXCEPT !.previous = x] \in LinkRow
  BY <1>3 DEF LinkRow
<1>. QED BY <1>1, <1>4, PutSlot, WriteLink, ListsPut DEF PutNext, PutPrevious

\* Writing the links of a saved pin.
LEMMA WriteLinkRow ==
  ASSUME NEW base, NEW names, NEW st, Edit(st, base, names),
         NEW p \in Nat \ {0}, LinkSaved(st, base, p), NEW row \in LinkRow
  PROVE  /\ Edit(PutLink(st, p, row), base, names)
         /\ ListsOnly(PutLink(st, p, row), st)
         /\ PutLink(st, p, row).ap = st.ap
         /\ PutLink(st, p, row).nl.net_pins = st.nl.net_pins
<1>1. st = [nl |-> st.nl, ap |-> st.ap]
  BY EditParts
<1>. QED BY <1>1, PutSlot, WriteLink, ListsPut DEF PutLink

\* Writing one end of a saved list.
LEMMA WriteEndsField ==
  ASSUME NEW base, NEW names, NEW st, Edit(st, base, names),
         NEW n \in 1..Len(st.nl.nets), EndsSaved(st, base, n), NEW x \in Nat
  PROVE  /\ Edit(PutHead(st, n, x), base, names)
         /\ ListsOnly(PutHead(st, n, x), st)
         /\ PutHead(st, n, x).ap = st.ap
         /\ Edit(PutTail(st, n, x), base, names)
         /\ ListsOnly(PutTail(st, n, x), st)
         /\ PutTail(st, n, x).ap = st.ap
<1>1. st = [nl |-> st.nl, ap |-> st.ap]
  BY EditParts
<1>2. st.nl.net_pins \in Seq(EndsRow) /\ Len(st.nl.net_pins) = Len(st.nl.nets)
  BY EditTypes, EditLengths
<1>3. st.nl.net_pins[n] \in EndsRow
  BY <1>2, ElementOfSeq
<1>4. /\ [st.nl.net_pins[n] EXCEPT !.head = x] \in EndsRow
      /\ [st.nl.net_pins[n] EXCEPT !.tail = x] \in EndsRow
  BY <1>3 DEF EndsRow
<1>. QED BY <1>1, <1>4, PutSlot, WriteEnds, ListsPut DEF PutHead, PutTail

\* Two changes of pin lists only are one.
LEMMA ListsOnlyTransitive ==
  ASSUME NEW st, NEW t, NEW u, ListsOnly(t, st), ListsOnly(u, t)
  PROVE  ListsOnly(u, st)
BY DEF ListsOnly

\* Saving the ends of a net and the links of a pin.
LEMMA SaveListsEdit ==
  ASSUME NEW base, NEW names, NEW st, Edit(st, base, names),
         NEW n \in 1..Len(st.nl.nets), NEW p \in Nat \ {0}
  PROVE  LET saved == SavePinLinks(SaveNetPins(st, n), p) IN
         /\ Edit(saved, base, names)
         /\ saved.nl = st.nl /\ saved.ap.old_cells = st.ap.old_cells
         /\ saved.ap.old_connections = st.ap.old_connections
         /\ LinkSaved(saved, base, p) /\ EndsSaved(saved, base, n)
<1>. DEFINE one == SaveNetPins(st, n)
            saved == SavePinLinks(one, p)
<1>1. /\ Edit(one, base, names) /\ one.nl = st.nl /\ EndsSaved(one, base, n)
      /\ one.ap.old_cells = st.ap.old_cells
      /\ one.ap.old_connections = st.ap.old_connections
  BY SaveNetPinsEdit DEF EndsSaved
<1>. HIDE DEF one
<1>2. /\ Edit(saved, base, names) /\ saved.nl = one.nl
      /\ p > Len(base.pin_links) \/ p \in DOMAIN saved.ap.old_pin_links
      /\ saved.ap.old_net_pins = one.ap.old_net_pins
      /\ saved.ap.old_cells = one.ap.old_cells
      /\ saved.ap.old_connections = one.ap.old_connections
  <2>1. LinksSavedFrom(saved, one, base, names, p)
    BY <1>1, SavePinLinksEdit
  <2>. QED BY <2>1 DEF LinksSavedFrom
<1>. QED BY <1>1, <1>2 DEF LinkSaved, EndsSaved, one

\* link_pin keeps the undo record exact.
LEMMA LinkPinEdit ==
  ASSUME NEW base, NEW names, NEW st, Edit(st, base, names),
         NEW n \in 1..Len(st.nl.nets), NEW p \in Nat \ {0}
  PROVE  Edit(LinkPin(st, n, p), base, names) /\ ListsOnly(LinkPin(st, n, p), st)
<1>. DEFINE tail == st.nl.net_pins[n].tail
            saved == SavePinLinks(SaveNetPins(st, n), p)
            withTail == SavePinLinks(saved, tail)
            behind == IF tail # None
                THEN PutNext(withTail, tail, p)
                ELSE PutHead(saved, n, p)
            row == [previous |-> tail, next |-> None]
            placed == PutLink(behind, p, row)
            done == PutTail(placed, n, p)
<1>1. /\ Edit(saved, base, names) /\ saved.nl = st.nl /\ saved.ap.old_cells = st.ap.old_cells
      /\ saved.ap.old_connections = st.ap.old_connections
      /\ LinkSaved(saved, base, p) /\ EndsSaved(saved, base, n)
  BY SaveListsEdit
<1>2. tail \in Nat
  <2>1. st.nl.net_pins \in Seq(EndsRow) /\ Len(st.nl.net_pins) = Len(st.nl.nets)
    BY EditTypes, EditLengths
  <2>2. st.nl.net_pins[n] \in EndsRow
    BY <2>1, ElementOfSeq
  <2>. QED BY <2>2 DEF EndsRow
<1>. HIDE DEF tail, saved
<1>3. /\ Edit(behind, base, names) /\ ListsOnly(behind, st)
      /\ LinkSaved(behind, base, p) /\ EndsSaved(behind, base, n)
  <2>1. CASE tail # None
    <3>1. tail \in Nat \ {0}
      BY <1>2, <2>1 DEF None
    <3>2. /\ Edit(withTail, base, names) /\ withTail.nl = saved.nl
          /\ tail > Len(base.pin_links) \/ tail \in DOMAIN withTail.ap.old_pin_links
          /\ DOMAIN saved.ap.old_pin_links \subseteq DOMAIN withTail.ap.old_pin_links
          /\ withTail.ap.old_net_pins = saved.ap.old_net_pins
          /\ withTail.ap.old_cells = saved.ap.old_cells
          /\ withTail.ap.old_connections = saved.ap.old_connections
      <4>1. LinksSavedFrom(withTail, saved, base, names, tail)
        BY <1>1, <3>1, SavePinLinksEdit
      <4>. QED BY <4>1 DEF LinksSavedFrom
    <3>3. /\ LinkSaved(withTail, base, p) /\ EndsSaved(withTail, base, n)
          /\ LinkSaved(withTail, base, tail)
      BY <1>1, <3>2 DEF LinkSaved, EndsSaved
    <3>. HIDE DEF withTail
    <3>4. behind = PutNext(withTail, tail, p)
      BY <2>1
    <3>5. Edit(behind, base, names) /\ ListsOnly(behind, withTail) /\ behind.ap = withTail.ap
      BY <3>1, <3>2, <3>3, <3>4, WriteLinkField
    <3>. HIDE DEF behind
    <3>. QED BY <1>1, <3>2, <3>3, <3>5 DEF ListsOnly, LinkSaved, EndsSaved
  <2>2. CASE tail = None
    <3>1. behind = PutHead(saved, n, p)
      BY <2>2
    <3>2. n \in 1..Len(saved.nl.nets) /\ p \in Nat
      BY <1>1
    <3>3. Edit(behind, base, names) /\ ListsOnly(behind, saved) /\ behind.ap = saved.ap
      BY <1>1, <3>1, <3>2, WriteEndsField
    <3>. HIDE DEF behind
    <3>. QED BY <1>1, <3>3 DEF ListsOnly, LinkSaved, EndsSaved
  <2>. QED BY <2>1, <2>2
<1>. HIDE DEF behind
<1>4. row \in LinkRow
  BY <1>2 DEF LinkRow, None
<1>. HIDE DEF row
<1>5. /\ Edit(placed, base, names) /\ ListsOnly(placed, behind) /\ placed.ap = behind.ap
  BY <1>3, <1>4, WriteLinkRow
<1>. HIDE DEF placed
<1>6. n \in 1..Len(placed.nl.nets) /\ EndsSaved(placed, base, n) /\ p \in Nat
  BY <1>3, <1>5 DEF ListsOnly, EndsSaved
<1>7. Edit(done, base, names) /\ ListsOnly(done, placed)
  BY <1>5, <1>6, WriteEndsField
<1>8. LinkPin(st, n, p) = done
  BY DEF PutNext, PutHead, PutLink, PutTail, LinkPin, done, placed, behind, row, saved, tail,
         withTail
<1>. HIDE DEF done
<1>. QED BY <1>3, <1>5, <1>7, <1>8, ListsOnlyTransitive

\* unlink_pin keeps the undo record exact.
LEMMA UnlinkPinEdit ==
  ASSUME NEW base, NEW names, NEW st, Edit(st, base, names),
         NEW p \in 1..Len(st.nl.connections), st.nl.connections[p] # Constant
  PROVE  Edit(UnlinkPin(st, p), base, names) /\ ListsOnly(UnlinkPin(st, p), st)
<1>. DEFINE n == st.nl.connections[p]
            links == st.nl.pin_links[p]
            previous == links.previous
            next == links.next
            saved == SavePinLinks(SaveNetPins(st, n), p)
            withBehind == SavePinLinks(saved, previous)
            behind == IF previous # None
                THEN PutNext(withBehind, previous, next)
                ELSE PutHead(saved, n, next)
            withAhead == SavePinLinks(behind, next)
            ahead == IF next # None
                THEN PutPrevious(withAhead, next, previous)
                ELSE PutTail(behind, n, previous)
            done == PutLink(ahead, p, Unlinked)
<1>0. /\ st.nl.connections \in Seq(Nat) /\ st.nl.pin_links \in Seq(LinkRow)
      /\ Len(st.nl.pin_links) = Len(st.nl.connections) /\ Len(st.nl.connections) \in Nat
      /\ ArenasFit(st.nl) /\ Len(st.nl.nets) \in Nat
  <2>1. ArenasFit(st.nl)
    BY EditParts
  <2>. QED BY <2>1, EditTypes, EditLengths
<1>1. n \in 1..Len(st.nl.nets) /\ p \in Nat \ {0}
  <2>1. n \in Nat /\ n # 0
    BY <1>0, ElementOfSeq DEF Constant
  <2>2. n <= Len(st.nl.nets)
    BY <1>0 DEF ArenasFit
  <2>. QED BY <1>0, <2>1, <2>2
<1>2. previous \in Nat /\ next \in Nat
  <2>1. links \in LinkRow
    BY <1>0, ElementOfSeq
  <2>. QED BY <2>1 DEF LinkRow
<1>. HIDE DEF n, links, previous, next
<1>3. /\ Edit(saved, base, names) /\ saved.nl = st.nl /\ saved.ap.old_cells = st.ap.old_cells
      /\ saved.ap.old_connections = st.ap.old_connections
      /\ LinkSaved(saved, base, p) /\ EndsSaved(saved, base, n)
  BY <1>1, SaveListsEdit
<1>. HIDE DEF saved
<1>4. /\ Edit(behind, base, names) /\ ListsOnly(behind, st)
      /\ LinkSaved(behind, base, p) /\ EndsSaved(behind, base, n)
  <2>1. CASE previous # None
    <3>1. previous \in Nat \ {0}
      BY <1>2, <2>1 DEF None
    <3>2. /\ Edit(withBehind, base, names) /\ withBehind.nl = saved.nl
          /\ previous > Len(base.pin_links) \/ previous \in DOMAIN withBehind.ap.old_pin_links
          /\ DOMAIN saved.ap.old_pin_links \subseteq DOMAIN withBehind.ap.old_pin_links
          /\ withBehind.ap.old_net_pins = saved.ap.old_net_pins
          /\ withBehind.ap.old_cells = saved.ap.old_cells
          /\ withBehind.ap.old_connections = saved.ap.old_connections
      <4>1. LinksSavedFrom(withBehind, saved, base, names, previous)
        BY <1>3, <3>1, SavePinLinksEdit
      <4>. QED BY <4>1 DEF LinksSavedFrom
    <3>3. /\ LinkSaved(withBehind, base, p) /\ EndsSaved(withBehind, base, n)
          /\ LinkSaved(withBehind, base, previous)
      BY <1>3, <3>2 DEF LinkSaved, EndsSaved
    <3>. HIDE DEF withBehind
    <3>4. behind = PutNext(withBehind, previous, next)
      BY <2>1
    <3>5. Edit(behind, base, names) /\ ListsOnly(behind, withBehind) /\ behind.ap = withBehind.ap
      BY <1>2, <3>1, <3>2, <3>3, <3>4, WriteLinkField
    <3>. HIDE DEF behind
    <3>. QED BY <1>3, <3>2, <3>3, <3>5 DEF ListsOnly, LinkSaved, EndsSaved
  <2>2. CASE previous = None
    <3>1. behind = PutHead(saved, n, next)
      BY <2>2
    <3>2. n \in 1..Len(saved.nl.nets)
      BY <1>1, <1>3
    <3>3. Edit(behind, base, names) /\ ListsOnly(behind, saved) /\ behind.ap = saved.ap
      BY <1>2, <1>3, <3>1, <3>2, WriteEndsField
    <3>. HIDE DEF behind
    <3>. QED BY <1>3, <3>3 DEF ListsOnly, LinkSaved, EndsSaved
  <2>. QED BY <2>1, <2>2
<1>. HIDE DEF behind
<1>5. Edit(ahead, base, names) /\ ListsOnly(ahead, behind) /\ LinkSaved(ahead, base, p)
  <2>1. CASE next # None
    <3>1. next \in Nat \ {0}
      BY <1>2, <2>1 DEF None
    <3>2. /\ Edit(withAhead, base, names) /\ withAhead.nl = behind.nl
          /\ next > Len(base.pin_links) \/ next \in DOMAIN withAhead.ap.old_pin_links
          /\ DOMAIN behind.ap.old_pin_links \subseteq DOMAIN withAhead.ap.old_pin_links
          /\ withAhead.ap.old_cells = behind.ap.old_cells
          /\ withAhead.ap.old_connections = behind.ap.old_connections
      <4>1. LinksSavedFrom(withAhead, behind, base, names, next)
        BY <1>4, <3>1, SavePinLinksEdit
      <4>. QED BY <4>1 DEF LinksSavedFrom
    <3>3. LinkSaved(withAhead, base, p) /\ LinkSaved(withAhead, base, next)
      BY <1>4, <3>2 DEF LinkSaved
    <3>. HIDE DEF withAhead
    <3>4. ahead = PutPrevious(withAhead, next, previous)
      BY <2>1
    <3>5. Edit(ahead, base, names) /\ ListsOnly(ahead, withAhead) /\ ahead.ap = withAhead.ap
      BY <1>2, <3>1, <3>2, <3>3, <3>4, WriteLinkField
    <3>. HIDE DEF ahead
    <3>. QED BY <3>2, <3>3, <3>5 DEF ListsOnly, LinkSaved
  <2>2. CASE next = None
    <3>1. ahead = PutTail(behind, n, previous)
      BY <2>2
    <3>2. n \in 1..Len(behind.nl.nets)
      BY <1>1, <1>4 DEF ListsOnly
    <3>3. Edit(ahead, base, names) /\ ListsOnly(ahead, behind) /\ ahead.ap = behind.ap
      BY <1>2, <1>4, <3>1, <3>2, WriteEndsField
    <3>. HIDE DEF ahead
    <3>. QED BY <1>4, <3>3 DEF LinkSaved
  <2>. QED BY <2>1, <2>2
<1>. HIDE DEF ahead
<1>6. Unlinked \in LinkRow
  BY DEF Unlinked, LinkRow, None
<1>7. Edit(done, base, names) /\ ListsOnly(done, ahead)
  BY <1>1, <1>5, <1>6, WriteLinkRow
<1>8. UnlinkPin(st, p) = done
  BY DEF PutNext, PutPrevious, PutHead, PutLink, PutTail, UnlinkPin, done, ahead, withAhead,
         behind, withBehind, saved, previous, next, links, n
<1>. HIDE DEF done
<1>. QED BY <1>4, <1>5, <1>7, <1>8, ListsOnlyTransitive

\* The state t differs from st in pin lists, in the rows of nets and in what
\* is saved.
Frame(t, st) ==
    /\ t.nl.connections = st.nl.connections /\ t.nl.cells = st.nl.cells
    /\ Len(t.nl.nets) = Len(st.nl.nets) /\ t.nl.status = st.nl.status
    /\ t.ap.old_cells = st.ap.old_cells

\* Two changes inside the frame are one.
LEMMA FrameTransitive ==
  ASSUME NEW st, NEW t, NEW u, Frame(t, st), Frame(u, t)
  PROVE  Frame(u, st)
BY DEF Frame

\* A change of pin lists stays inside the frame.
LEMMA ListsOnlyFrame ==
  ASSUME NEW st, NEW t, ListsOnly(t, st)
  PROVE  Frame(t, st)
BY DEF Frame, ListsOnly

\* Saving the row of a net and overwriting it.
NetWritten(st, n, row) ==
    [SaveNet(st, n) EXCEPT !.nl.nets = [st.nl.nets EXCEPT ![n] = row]]

\* Saving a net row and then writing it.
LEMMA NetWrittenEdit ==
  ASSUME NEW base, NEW names, NEW st, Edit(st, base, names),
         NEW n \in 1..Len(st.nl.nets), NEW row \in NetRow
  PROVE  Edit(NetWritten(st, n, row), base, names) /\ Frame(NetWritten(st, n, row), st)
<1>. DEFINE saved == SaveNet(st, n)
            new == [st.nl.nets EXCEPT ![n] = row]
            t == [saved EXCEPT !.nl.nets = new]
<1>1. /\ Edit(saved, base, names) /\ saved.nl = st.nl
      /\ n > Len(base.nets) \/ n \in DOMAIN saved.ap.old_nets
      /\ saved.ap.old_cells = st.ap.old_cells
  BY SaveNetEdit
<1>. HIDE DEF saved
<1>2. /\ st.nl.nets \in Seq(NetRow) /\ base.nets \in Seq(NetRow)
      /\ Kept(st.nl.nets, saved.ap.old_nets, base.nets)
  <2>1. WellFormed(base) /\ UndoExact(saved, base)
    BY <1>1, EditParts
  <2>2. Kept(saved.nl.nets, saved.ap.old_nets, base.nets) /\ base.nets \in Seq(NetRow)
    BY <2>1, BaseTypes DEF UndoExact
  <2>. QED BY <1>1, <2>2, EditTypes
<1>3. /\ new \in Seq(NetRow) /\ Len(new) = Len(st.nl.nets)
      /\ Kept(new, saved.ap.old_nets, base.nets)
  BY <1>1, <1>2, WriteKept
<1>. HIDE DEF new
<1>4. Len(new) = Len(saved.nl.nets)
  BY <1>1, <1>3
<1>5. Edit(t, base, names) /\ t.nl = [saved.nl EXCEPT !.nets = new] /\ t.ap = saved.ap
  BY <1>1, <1>3, <1>4, PutNets
<1>6. saved.nl \in NetlistsOf([base EXCEPT !.names = names])
  BY <1>1, EditParts
<1>7. /\ t.nl.connections = st.nl.connections /\ t.nl.cells = st.nl.cells
      /\ t.nl.nets = new /\ t.nl.status = st.nl.status
  BY <1>1, <1>5, <1>6 DEF NetlistsOf
<1>8. NetWritten(st, n, row) = t
  BY DEF NetWritten, t, saved, new
<1>. HIDE DEF t
<1>. QED BY <1>1, <1>3, <1>5, <1>7, <1>8 DEF Frame

\* Saving the row of a cell and overwriting it. The pins of the cell stay.
CellWritten(st, c, row) ==
    [SaveCell(st, c) EXCEPT !.nl.cells = [st.nl.cells EXCEPT ![c] = row]]

\* The state t differs from st in pin lists, in rows and in what is saved.
RowsFrame(t, st) ==
    /\ t.nl.connections = st.nl.connections /\ Len(t.nl.cells) = Len(st.nl.cells)
    /\ Len(t.nl.nets) = Len(st.nl.nets) /\ t.nl.status = st.nl.status

\* Saving a cell row and then writing it, its pins apart.
LEMMA CellWrittenEdit ==
  ASSUME NEW base, NEW names, NEW st, Edit(st, base, names),
         NEW c \in 1..Len(st.nl.cells), NEW row \in CellRow,
         row.first = st.nl.cells[c].first, row.last = st.nl.cells[c].last
  PROVE  Edit(CellWritten(st, c, row), base, names) /\ RowsFrame(CellWritten(st, c, row), st)
<1>. DEFINE saved == SaveCell(st, c)
            new == [st.nl.cells EXCEPT ![c] = row]
            t == [saved EXCEPT !.nl.cells = new]
<1>1. /\ Edit(saved, base, names) /\ saved.nl = st.nl
      /\ c > Len(base.cells) \/ c \in DOMAIN saved.ap.old_cells
  BY SaveCellEdit
<1>. HIDE DEF saved
<1>2. /\ st.nl.cells \in Seq(CellRow) /\ base.cells \in Seq(CellRow)
      /\ Kept(st.nl.cells, saved.ap.old_cells, base.cells)
  <2>1. WellFormed(base) /\ UndoExact(saved, base)
    BY <1>1, EditParts
  <2>2. Kept(saved.nl.cells, saved.ap.old_cells, base.cells) /\ base.cells \in Seq(CellRow)
    BY <2>1, BaseTypes DEF UndoExact
  <2>. QED BY <1>1, <2>2, EditTypes
<1>3. /\ new \in Seq(CellRow) /\ Len(new) = Len(st.nl.cells)
      /\ Kept(new, saved.ap.old_cells, base.cells)
  BY <1>1, <1>2, WriteKept
<1>4. \A d \in 1..Len(new) : PinsFit(new[d], Len(saved.nl.connections))
  <2>1. \A d \in 1..Len(st.nl.cells) :
          PinsFit(st.nl.cells[d], Len(st.nl.connections))
    BY EditParts DEF ArenasFit
  <2>2. SUFFICES ASSUME NEW d \in 1..Len(st.nl.cells)
                 PROVE  PinsFit(new[d], Len(st.nl.connections))
    BY <1>1, <1>3
  <2>3. DOMAIN st.nl.cells = 1..Len(st.nl.cells)
    BY <1>2, LenProperties
  <2>4. CASE d = c
    BY <2>1, <2>3, <2>4 DEF PinsFit
  <2>5. CASE d # c
    BY <2>1, <2>3, <2>5
  <2>. QED BY <2>4, <2>5
<1>. HIDE DEF new
<1>5. Len(new) = Len(saved.nl.cells)
  BY <1>1, <1>3
<1>6. Edit(t, base, names) /\ t.nl = [saved.nl EXCEPT !.cells = new]
  BY <1>1, <1>3, <1>4, <1>5, PutCells
<1>7. saved.nl \in NetlistsOf([base EXCEPT !.names = names])
  BY <1>1, EditParts
<1>8. /\ t.nl.connections = st.nl.connections /\ t.nl.cells = new
      /\ t.nl.nets = st.nl.nets /\ t.nl.status = st.nl.status
  <2>. DEFINE nl == [saved.nl EXCEPT !.cells = new]
  <2>1. /\ nl.connections = saved.nl.connections /\ nl.cells = new
        /\ nl.nets = saved.nl.nets /\ nl.status = saved.nl.status
    BY <1>7 DEF NetlistsOf
  <2>. QED BY <1>1, <1>6, <2>1
<1>9. CellWritten(st, c, row) = t
  BY DEF CellWritten, t, saved, new
<1>. HIDE DEF t
<1>. QED BY <1>3, <1>6, <1>8, <1>9 DEF RowsFrame

-----------------------------------------------------------------------------
(* The operations on one net or one cell.                                  *)

\* The revision an edit stamps on what it writes.
LEMMA RevisionIsNumber ==
  ASSUME NEW base, NEW names, NEW st, Edit(st, base, names)
  PROVE  Revision(st) \in Nat
BY EditTypes DEF Revision

\* The row of a net slot.
LEMMA NetRows ==
  ASSUME NEW base, NEW names, NEW st, Edit(st, base, names), NEW n \in 1..Len(st.nl.nets)
  PROVE  st.nl.nets[n] \in NetRow
BY EditTypes, ElementOfSeq

\* The row of a cell slot.
LEMMA CellRows ==
  ASSUME NEW base, NEW names, NEW st, Edit(st, base, names), NEW c \in 1..Len(st.nl.cells)
  PROVE  st.nl.cells[c] \in CellRow
BY EditTypes, ElementOfSeq

\* A netlist state is a pair.
LEMMA SavedPairs ==
  ASSUME NEW base, NEW names, NEW st, Edit(st, base, names)
  PROVE  /\ \A n \in 1..Len(st.nl.nets) :
              SaveNet(st, n) = [nl |-> st.nl, ap |-> SaveNet(st, n).ap]
         /\ \A c \in 1..Len(st.nl.cells) :
              SaveCell(st, c) = [nl |-> st.nl, ap |-> SaveCell(st, c).ap]
<1>1. ASSUME NEW n \in 1..Len(st.nl.nets)
      PROVE  SaveNet(st, n) = [nl |-> st.nl, ap |-> SaveNet(st, n).ap]
  <2>1. Edit(SaveNet(st, n), base, names) /\ SaveNet(st, n).nl = st.nl
    BY SaveNetEdit
  <2>. QED BY <2>1, EditParts
<1>2. ASSUME NEW c \in 1..Len(st.nl.cells)
      PROVE  SaveCell(st, c) = [nl |-> st.nl, ap |-> SaveCell(st, c).ap]
  <2>1. Edit(SaveCell(st, c), base, names) /\ SaveCell(st, c).nl = st.nl
    BY SaveCellEdit
  <2>. QED BY <2>1, EditParts
<1>. QED BY <1>1, <1>2

\* touch_signal_net keeps the undo record exact.
LEMMA TouchSignalNetEdit ==
  ASSUME NEW base, NEW names, NEW st, Edit(st, base, names), NEW signal \in 0..Len(st.nl.nets)
  PROVE  Edit(TouchSignalNet(st, signal), base, names) /\ Frame(TouchSignalNet(st, signal), st)
<1>1. CASE signal = Constant
  BY <1>1 DEF TouchSignalNet, Frame
<1>2. CASE signal # Constant
  <2>. DEFINE row == [st.nl.nets[signal] EXCEPT !.version = Revision(st)]
              saved == SaveNet(st, signal)
  <2>1. signal \in 1..Len(st.nl.nets)
    BY <1>2, EditLengths DEF Constant
  <2>2. row \in NetRow
    BY <2>1, NetRows, RevisionIsNumber DEF NetRow
  <2>3. saved = [nl |-> st.nl, ap |-> saved.ap]
    BY <2>1, SavedPairs
  <2>4. TouchSignalNet(st, signal) = [saved EXCEPT !.nl.nets[signal].version = Revision(st)]
    BY <1>2 DEF TouchSignalNet
  <2>. HIDE DEF saved
  <2>5. saved.nl = st.nl
    BY <2>3
  <2>6. TouchSignalNet(st, signal) = NetWritten(st, signal, row)
    <3>1. [saved EXCEPT !.nl.nets[signal].version = Revision(st)]
            = [saved EXCEPT !.nl.nets = [st.nl.nets EXCEPT ![signal] = row]]
      BY <2>3, <2>5
    <3>. QED BY <2>4, <3>1 DEF NetWritten, saved
  <2>. HIDE DEF row
  <2>. QED BY <2>1, <2>2, <2>6, NetWrittenEdit
<1>. QED BY <1>1, <1>2

\* The state t follows st in an edit, with k nets more.
Follows(t, st, base, names, k) ==
    Edit(t, base, names) /\ Len(t.nl.nets) = Len(st.nl.nets) + k

\* The identifier of a name, or None.
LEMMA NameIdIsNumber ==
  ASSUME NEW base, NEW names, NEW st, Edit(st, base, names), IsSequence(names), NEW name
  PROVE  NameId(st, name) \in Nat
<1>1. st.nl.names = names
  <2>1. st.nl \in NetlistsOf([base EXCEPT !.names = names]) /\ WellFormed(base)
    BY EditParts
  <2>2. [base EXCEPT !.names = names].names = names
    BY <2>1 DEF WellFormed, NetlistsOf
  <2>. QED BY <2>1, <2>2 DEF NetlistsOf
<1>2. DOMAIN names \subseteq Nat
  BY LenProperties DEF IsSequence
<1>3. GetName(names, name) \in Nat
  <2>1. CASE \E i \in DOMAIN names : names[i] = name
    <3>1. (CHOOSE i \in DOMAIN names : names[i] = name) \in DOMAIN names
      BY <2>1
    <3>. QED BY <1>2, <2>1, <3>1 DEF GetName
  <2>2. CASE ~\E i \in DOMAIN names : names[i] = name
    BY <2>2 DEF GetName, None
  <2>. QED BY <2>1, <2>2
<1>. QED BY <1>1, <1>3 DEF NameId

\* remove_net saves what it overwrites.
LEMMA ApplyRemoveNetEdit ==
  ASSUME NEW base, NEW names, NEW st, Edit(st, base, names),
         NEW o, o.net \in 1..Len(st.nl.nets)
  PROVE  Follows(ApplyRemoveNet(st, o), st, base, names, 0)
<1>. DEFINE n == o.net
            row == [st.nl.nets[n] EXCEPT !.live = FALSE, !.version = Revision(st)]
            saved == SaveNet(st, n)
<1>1. row \in NetRow
  <2>1. st.nl.nets[n] \in NetRow /\ Revision(st) \in Nat
    BY NetRows, RevisionIsNumber
  <2>. QED BY <2>1 DEF NetRow
<1>2. saved = [nl |-> st.nl, ap |-> saved.ap]
  BY SavedPairs
<1>3. ApplyRemoveNet(st, o)
        = [saved EXCEPT !.nl.nets[n].live = FALSE, !.nl.nets[n].version = Revision(st)]
  BY DEF ApplyRemoveNet
<1>. HIDE DEF saved, n
<1>4. saved.nl = st.nl
  BY <1>2
<1>5. DOMAIN st.nl.nets = 1..Len(st.nl.nets) /\ n \in 1..Len(st.nl.nets)
  BY EditTypes, LenProperties DEF n
<1>6. [saved EXCEPT !.nl.nets[n].live = FALSE, !.nl.nets[n].version = Revision(st)]
        = [saved EXCEPT !.nl.nets = [st.nl.nets EXCEPT ![n] = row]]
  BY <1>2, <1>4, <1>5
<1>7. ApplyRemoveNet(st, o) = NetWritten(st, n, row)
  BY <1>3, <1>6 DEF NetWritten, saved
<1>. HIDE DEF row
<1>8. Edit(NetWritten(st, n, row), base, names) /\ Frame(NetWritten(st, n, row), st)
  BY <1>1, <1>5, NetWrittenEdit
<1>. QED BY <1>7, <1>8, EditLengths DEF Follows, Frame

\* replace_cell saves what it overwrites.
LEMMA ApplyReplaceCellEdit ==
  ASSUME NEW base, NEW names, NEW st, Edit(st, base, names), IsSequence(names),
         NEW o, o.cell \in 1..Len(st.nl.cells)
  PROVE  Follows(ApplyReplaceCell(st, o), st, base, names, 0)
<1>. DEFINE c == o.cell
            id == NameId(st, o.type)
            row == [st.nl.cells[c] EXCEPT !.type = id, !.version = Revision(st)]
            saved == SaveCell(st, c)
<1>0. id \in Nat
  BY NameIdIsNumber
<1>. HIDE DEF id
<1>1. row \in CellRow /\ row.first = st.nl.cells[c].first /\ row.last = st.nl.cells[c].last
  <2>1. st.nl.cells[c] \in CellRow /\ Revision(st) \in Nat
    BY CellRows, RevisionIsNumber
  <2>. QED BY <1>0, <2>1 DEF CellRow
<1>2. saved = [nl |-> st.nl, ap |-> saved.ap]
  BY SavedPairs
<1>3. ApplyReplaceCell(st, o)
        = [saved EXCEPT !.nl.cells[c].type = id, !.nl.cells[c].version = Revision(st)]
  BY DEF ApplyReplaceCell, id
<1>. HIDE DEF saved, c
<1>4. saved.nl = st.nl
  BY <1>2
<1>5. DOMAIN st.nl.cells = 1..Len(st.nl.cells) /\ c \in 1..Len(st.nl.cells)
  BY EditTypes, LenProperties DEF c
<1>6. [saved EXCEPT !.nl.cells[c].type = id, !.nl.cells[c].version = Revision(st)]
        = [saved EXCEPT !.nl.cells = [st.nl.cells EXCEPT ![c] = row]]
  BY <1>2, <1>4, <1>5
<1>7. ApplyReplaceCell(st, o) = CellWritten(st, c, row)
  BY <1>3, <1>6 DEF CellWritten, saved
<1>. HIDE DEF row
<1>8. Edit(CellWritten(st, c, row), base, names) /\ RowsFrame(CellWritten(st, c, row), st)
  BY <1>1, <1>5, CellWrittenEdit
<1>. QED BY <1>7, <1>8, EditLengths DEF Follows, RowsFrame

\* rename_cell saves what it overwrites.
LEMMA ApplyRenameCellEdit ==
  ASSUME NEW base, NEW names, NEW st, Edit(st, base, names), IsSequence(names),
         NEW o, o.cell \in 1..Len(st.nl.cells)
  PROVE  Follows(ApplyRenameCell(st, o), st, base, names, 0)
<1>. DEFINE c == o.cell
            id == NameId(st, o.name)
            row == [st.nl.cells[c] EXCEPT !.name = id, !.version = Revision(st)]
            saved == SaveCell(st, c)
<1>0. id \in Nat
  BY NameIdIsNumber
<1>. HIDE DEF id
<1>1. row \in CellRow /\ row.first = st.nl.cells[c].first /\ row.last = st.nl.cells[c].last
  <2>1. st.nl.cells[c] \in CellRow /\ Revision(st) \in Nat
    BY CellRows, RevisionIsNumber
  <2>. QED BY <1>0, <2>1 DEF CellRow
<1>2. saved = [nl |-> st.nl, ap |-> saved.ap]
  BY SavedPairs
<1>3. ApplyRenameCell(st, o)
        = [saved EXCEPT !.nl.cells[c].name = id, !.nl.cells[c].version = Revision(st)]
  BY DEF ApplyRenameCell, id
<1>. HIDE DEF saved, c
<1>4. saved.nl = st.nl
  BY <1>2
<1>5. DOMAIN st.nl.cells = 1..Len(st.nl.cells) /\ c \in 1..Len(st.nl.cells)
  BY EditTypes, LenProperties DEF c
<1>6. [saved EXCEPT !.nl.cells[c].name = id, !.nl.cells[c].version = Revision(st)]
        = [saved EXCEPT !.nl.cells = [st.nl.cells EXCEPT ![c] = row]]
  BY <1>2, <1>4, <1>5
<1>7. ApplyRenameCell(st, o) = CellWritten(st, c, row)
  BY <1>3, <1>6 DEF CellWritten, saved
<1>. HIDE DEF row
<1>8. Edit(CellWritten(st, c, row), base, names) /\ RowsFrame(CellWritten(st, c, row), st)
  BY <1>1, <1>5, CellWrittenEdit
<1>. QED BY <1>7, <1>8, EditLengths DEF Follows, RowsFrame

\* The lists of an undo record that name what the edit added or renamed are
\* not used by a rollback.
LEMMA PutReports ==
  ASSUME NEW base, NEW names, NEW st, Edit(st, base, names), NEW ap \in UndosOf(base),
         ap.old_nets = st.ap.old_nets, ap.old_cells = st.ap.old_cells,
         ap.old_connections = st.ap.old_connections, ap.old_net_pins = st.ap.old_net_pins,
         ap.old_pin_links = st.ap.old_pin_links
  PROVE  Edit([nl |-> st.nl, ap |-> ap], base, names)
<1>. DEFINE t == [nl |-> st.nl, ap |-> ap]
<1>1. /\ WellFormed(base) /\ st.nl \in NetlistsOf([base EXCEPT !.names = names])
      /\ ArenasFit(st.nl) /\ UndoExact(st, base)
  BY EditParts
<1>2. t.nl = st.nl /\ t.ap = ap
  OBVIOUS
<1>. HIDE DEF t
<1>3. UndoExact(t, base)
  BY <1>1, <1>2 DEF UndoExact
<1>. QED BY <1>1, <1>3, EditFromParts DEF t

\* rename_net saves what it overwrites.
LEMMA ApplyRenameNetEdit ==
  ASSUME NEW base, NEW names, NEW st, Edit(st, base, names), IsSequence(names),
         NEW o, o.net \in 1..Len(st.nl.nets)
  PROVE  Follows(ApplyRenameNet(st, o), st, base, names, 0)
<1>. DEFINE n == o.net
            id == NameId(st, o.name)
            row == [st.nl.nets[n] EXCEPT !.name = id, !.version = Revision(st)]
            saved == SaveNet(st, n)
            written == NetWritten(st, n, row)
            ap == [written.ap EXCEPT !.renamed_nets = @ \cup {n}]
<1>0. id \in Nat
  BY NameIdIsNumber
<1>. HIDE DEF id
<1>1. row \in NetRow
  <2>1. st.nl.nets[n] \in NetRow /\ Revision(st) \in Nat
    BY NetRows, RevisionIsNumber
  <2>. QED BY <1>0, <2>1 DEF NetRow
<1>2. saved = [nl |-> st.nl, ap |-> saved.ap]
  BY SavedPairs
<1>3. ApplyRenameNet(st, o)
        = [saved EXCEPT !.nl.nets[n].name = id, !.nl.nets[n].version = Revision(st),
                        !.ap.renamed_nets = @ \cup {n}]
  BY DEF ApplyRenameNet, id
<1>. HIDE DEF saved, n
<1>4. saved.nl = st.nl
  BY <1>2
<1>5. DOMAIN st.nl.nets = 1..Len(st.nl.nets) /\ n \in 1..Len(st.nl.nets)
  BY EditTypes, LenProperties DEF n
<1>6. [saved EXCEPT !.nl.nets[n].name = id, !.nl.nets[n].version = Revision(st)]
        = [saved EXCEPT !.nl.nets = [st.nl.nets EXCEPT ![n] = row]]
  BY <1>2, <1>4, <1>5
<1>7. written = [saved EXCEPT !.nl.nets[n].name = id, !.nl.nets[n].version = Revision(st)]
  BY <1>6 DEF NetWritten, saved
<1>8. ApplyRenameNet(st, o) = [written EXCEPT !.ap.renamed_nets = @ \cup {n}]
  BY <1>3, <1>7
<1>. HIDE DEF row
<1>9. Edit(written, base, names) /\ Frame(written, st)
  BY <1>1, <1>5, NetWrittenEdit
<1>. HIDE DEF written
<1>10. written.ap \in UndosOf(base) /\ written = [nl |-> written.nl, ap |-> written.ap]
  BY <1>9, EditParts
<1>11. n \in Nat
  BY <1>5, EditLengths
<1>12. /\ ap \in UndosOf(base)
       /\ ap.old_nets = written.ap.old_nets /\ ap.old_cells = written.ap.old_cells
       /\ ap.old_connections = written.ap.old_connections
       /\ ap.old_net_pins = written.ap.old_net_pins
       /\ ap.old_pin_links = written.ap.old_pin_links
  BY <1>10, <1>11 DEF UndosOf
<1>13. ApplyRenameNet(st, o) = [nl |-> written.nl, ap |-> ap]
  BY <1>8, <1>10
<1>. HIDE DEF ap
<1>14. Edit([nl |-> written.nl, ap |-> ap], base, names)
  BY <1>9, <1>12, PutReports
<1>. QED BY <1>9, <1>13, <1>14, EditLengths DEF Follows, Frame

-----------------------------------------------------------------------------
(***************************************************************************)
(* Adding a net or a cell.                                                 *)
(***************************************************************************)

\* A recursion whose steps stay in a set stays in it.
LEMMA RecursionStays ==
  ASSUME NEW n \in Nat, NEW V, NEW h, h[0] \in V, NEW step \in [1..n -> [V -> V]],
         \A k \in 1..n : h[k - 1] \in V => h[k] = step[k][h[k - 1]]
  PROVE  \A k \in 0..n : h[k] \in V
<1>. DEFINE S == {k \in 0..n : h[k] \in V}
<1>1. 0 \in S
  OBVIOUS
<1>2. ASSUME NEW k \in 1..n, k - 1 \in S PROVE k \in S
  <2>1. h[k - 1] \in V /\ h[k] = step[k][h[k - 1]]
    BY <1>2
  <2>. QED BY <2>1
<1>3. 0..n \subseteq S
  <2>. HIDE DEF S
  <2>. QED BY <1>1, <1>2, PositionInduction
<1>. QED BY <1>3

\* A pin pushed onto the arenas by an edit, and linked.
Pushed(st, c, signal) ==
    [st EXCEPT !.nl.connections = Append(@, signal),
               !.nl.pin_owners = Append(@, c),
               !.nl.pin_links = Append(@, Unlinked)]
AddPin(st, c, signal) ==
    IF signal = Constant THEN Pushed(st, c, signal)
    ELSE TouchSignalNet(LinkPin(Pushed(st, c, signal), signal, Len(st.nl.connections) + 1), signal)

\* Nothing but pins has been added.
PinsOnly(t, st) ==
    /\ Len(t.nl.nets) = Len(st.nl.nets) /\ t.nl.cells = st.nl.cells
    /\ Len(t.nl.connections) \in Nat /\ Len(st.nl.connections) <= Len(t.nl.connections)

\* Two additions of pins are one.
LEMMA PinsOnlyTransitive ==
  ASSUME NEW base, NEW names, NEW st, Edit(st, base, names), NEW t, NEW u,
         PinsOnly(t, st), PinsOnly(u, t)
  PROVE  PinsOnly(u, st)
<1>1. Len(st.nl.connections) \in Nat
  BY EditLengths
<1>. QED BY <1>1 DEF PinsOnly

\* What pushing a pin writes, field by field.
LEMMA PushedParts ==
  ASSUME NEW base, NEW names, NEW st, Edit(st, base, names), NEW c, NEW signal
  PROVE  Pushed(st, c, signal) =
           [nl |-> [st.nl EXCEPT !.connections = Append(st.nl.connections, signal),
                                 !.pin_owners = Append(st.nl.pin_owners, c),
                                 !.pin_links = Append(st.nl.pin_links, Unlinked)],
            ap |-> st.ap]
<1>1. st = [nl |-> st.nl, ap |-> st.ap] /\ st.nl \in NetlistsOf([base EXCEPT !.names = names])
  BY EditParts
<1>. DEFINE a == [st.nl EXCEPT !.connections = Append(st.nl.connections, signal)]
            b == [a EXCEPT !.pin_owners = Append(st.nl.pin_owners, c)]
<1>2. a.pin_owners = st.nl.pin_owners /\ a.pin_links = st.nl.pin_links
  BY <1>1 DEF NetlistsOf
<1>3. b.pin_links = st.nl.pin_links
  BY <1>1 DEF NetlistsOf
<1>4. Pushed(st, c, signal)
        = [st EXCEPT !.nl = [b EXCEPT !.pin_links = Append(b.pin_links, Unlinked)]]
  <2>1. Pushed(st, c, signal)
          = [st EXCEPT !.nl = [[[st.nl EXCEPT !.connections = Append(st.nl.connections, signal)]
                EXCEPT !.pin_owners = Append(a.pin_owners, c)]
                EXCEPT !.pin_links = Append(b.pin_links, Unlinked)]]
    BY <1>1, <1>2, <1>3 DEF Pushed
  <2>. QED BY <1>2, <2>1
<1>5. [b EXCEPT !.pin_links = Append(b.pin_links, Unlinked)]
        = [st.nl EXCEPT !.connections = Append(st.nl.connections, signal),
                        !.pin_owners = Append(st.nl.pin_owners, c),
                        !.pin_links = Append(st.nl.pin_links, Unlinked)]
  BY <1>3
<1>. HIDE DEF b
<1>. QED BY <1>1, <1>4, <1>5

\* A pushed pin lies behind every saved slot.
LEMMA PushedEdit ==
  ASSUME NEW base, NEW names, NEW st, Edit(st, base, names), NEW c \in Nat,
         NEW signal \in 0..Len(st.nl.nets)
  PROVE  Edit(Pushed(st, c, signal), base, names) /\ PinsOnly(Pushed(st, c, signal), st)
<1>. DEFINE connections == Append(st.nl.connections, signal)
            owners == Append(st.nl.pin_owners, c)
            links == Append(st.nl.pin_links, Unlinked)
            nl == [st.nl EXCEPT !.connections = connections, !.pin_owners = owners,
                                !.pin_links = links]
            t == [nl |-> nl, ap |-> st.ap]
<1>1. /\ WellFormed(base) /\ ArenasFit(st.nl) /\ UndoExact(st, base)
      /\ st.nl \in NetlistsOf([base EXCEPT !.names = names])
      /\ st.ap \in UndosOf(base) /\ st = [nl |-> st.nl, ap |-> st.ap]
  BY EditParts
<1>2. /\ st.nl.connections \in Seq(Nat) /\ st.nl.pin_owners \in Seq(Nat)
      /\ st.nl.pin_links \in Seq(LinkRow)
      /\ base.connections \in Seq(Nat) /\ base.pin_owners \in Seq(Nat)
      /\ base.pin_links \in Seq(LinkRow)
  BY <1>1, EditTypes, BaseTypes
<1>3. signal \in Nat /\ signal <= Len(st.nl.nets) /\ Unlinked \in LinkRow
  BY EditLengths DEF Unlinked, LinkRow, None
<1>4. /\ connections \in Seq(Nat) /\ Len(connections) = Len(st.nl.connections) + 1
      /\ \A i \in 1..Len(st.nl.connections) : connections[i] = st.nl.connections[i]
      /\ connections[Len(st.nl.connections) + 1] = signal
      /\ Kept(connections, st.ap.old_connections, base.connections)
  BY <1>1, <1>2, <1>3, AppendKept DEF UndoExact
<1>5. /\ owners \in Seq(Nat) /\ Len(owners) = Len(st.nl.pin_owners) + 1
      /\ Kept(owners, <<>>, base.pin_owners)
  BY <1>1, <1>2, AppendKept DEF UndoExact
<1>6. /\ links \in Seq(LinkRow) /\ Len(links) = Len(st.nl.pin_links) + 1
      /\ Kept(links, st.ap.old_pin_links, base.pin_links)
  BY <1>1, <1>2, <1>3, AppendKept DEF UndoExact
<1>7. Pushed(st, c, signal) = t
  BY PushedParts
<1>. HIDE DEF connections, owners, links
<1>8. /\ nl \in NetlistsOf([base EXCEPT !.names = names])
      /\ nl.connections = connections /\ nl.pin_owners = owners /\ nl.pin_links = links
      /\ nl.cells = st.nl.cells /\ nl.nets = st.nl.nets /\ nl.net_pins = st.nl.net_pins
  BY <1>1, <1>4, <1>5, <1>6 DEF NetlistsOf
<1>. HIDE DEF nl
<1>9. t.nl = nl /\ t.ap = st.ap
  OBVIOUS
<1>. HIDE DEF t
<1>10. UndoExact(t, base)
  BY <1>1, <1>4, <1>5, <1>6, <1>8, <1>9 DEF UndoExact
<1>11. ArenasFit(nl)
  <2>1. /\ Len(st.nl.net_pins) = Len(st.nl.nets)
        /\ Len(st.nl.pin_owners) = Len(st.nl.connections)
        /\ Len(st.nl.pin_links) = Len(st.nl.connections)
        /\ \A p \in 1..Len(st.nl.connections) : st.nl.connections[p] <= Len(st.nl.nets)
        /\ \A d \in 1..Len(st.nl.cells) :
             PinsFit(st.nl.cells[d], Len(st.nl.connections))
    BY <1>1 DEF ArenasFit
  <2>2. Len(st.nl.connections) \in Nat /\ Len(st.nl.nets) \in Nat
    BY EditLengths
  <2>3. ASSUME NEW p \in 1..Len(connections) PROVE connections[p] <= Len(st.nl.nets)
    <3>1. p \in 1..Len(st.nl.connections) \/ p = Len(st.nl.connections) + 1
      BY <1>4, <2>2
    <3>2. CASE p \in 1..Len(st.nl.connections)
      BY <1>4, <2>1, <3>2
    <3>3. CASE p = Len(st.nl.connections) + 1
      BY <1>3, <1>4, <3>3
    <3>. QED BY <3>1, <3>2, <3>3
  <2>4. ASSUME NEW d \in 1..Len(st.nl.cells)
        PROVE  PinsFit(st.nl.cells[d], Len(connections))
    <3>1. st.nl.cells[d].last \in Nat
      BY CellRows DEF CellRow
    <3>2. PinsFit(st.nl.cells[d], Len(st.nl.connections))
      BY <2>1
    <3>3. Len(connections) = Len(st.nl.connections) + 1
      BY <1>4
    <3>. QED BY <2>2, <3>1, <3>2, <3>3 DEF PinsFit
  <2>. QED BY <1>4, <1>5, <1>6, <1>8, <2>1, <2>2, <2>3, <2>4 DEF ArenasFit
<1>12. Edit(t, base, names)
  BY <1>1, <1>8, <1>10, <1>11, EditFromParts DEF t
<1>. QED BY <1>4, <1>7, <1>8, <1>9, <1>12, EditLengths DEF PinsOnly

\* Pushing and linking a pin saves what it overwrites.
LEMMA AddPinEdit ==
  ASSUME NEW base, NEW names, NEW st, Edit(st, base, names), NEW c \in Nat,
         NEW signal \in 0..Len(st.nl.nets)
  PROVE  Edit(AddPin(st, c, signal), base, names) /\ PinsOnly(AddPin(st, c, signal), st)
<1>. DEFINE pushed == Pushed(st, c, signal)
            p == Len(st.nl.connections) + 1
            linked == LinkPin(pushed, signal, p)
            touched == TouchSignalNet(linked, signal)
<1>1. Edit(pushed, base, names) /\ PinsOnly(pushed, st)
  BY PushedEdit
<1>2. Len(st.nl.nets) \in Nat /\ p \in Nat \ {0}
  BY EditLengths
<1>. HIDE DEF pushed, p
<1>3. CASE signal = Constant
  BY <1>1, <1>3 DEF AddPin, pushed
<1>4. CASE signal # Constant
  <2>1. signal \in 1..Len(pushed.nl.nets)
    BY <1>1, <1>2, <1>4 DEF Constant, PinsOnly
  <2>2. Edit(linked, base, names) /\ ListsOnly(linked, pushed)
    BY <1>1, <1>2, <2>1, LinkPinEdit
  <2>. HIDE DEF linked
  <2>3. signal \in 0..Len(linked.nl.nets)
    BY <2>1, <2>2 DEF ListsOnly
  <2>4. Edit(touched, base, names) /\ Frame(touched, linked)
    BY <2>2, <2>3, TouchSignalNetEdit
  <2>5. AddPin(st, c, signal) = touched
    BY <1>4 DEF AddPin, touched, linked, pushed, p
  <2>. HIDE DEF touched
  <2>. QED BY <1>1, <2>2, <2>4, <2>5 DEF PinsOnly, ListsOnly, Frame
<1>. QED BY <1>3, <1>4

\* What the recursion over the pins of an added cell defines.
IsAdding(added, st, c, signals) ==
    added = CHOOSE h : h = [k \in 0..Len(signals) |->
                IF k = 0 THEN st ELSE AddPin(h[k - 1], c, signals[k])]

\* The pins of an added cell.
LEMMA AddPinsEdit ==
  ASSUME NEW base, NEW names, NEW st, Edit(st, base, names), NEW c \in Nat,
         NEW signals \in Seq(0..Len(st.nl.nets)), NEW added,
         IsAdding(added, st, c, signals)
  PROVE  /\ Edit(added[Len(signals)], base, names)
         /\ PinsOnly(added[Len(signals)], st)
<1>. DEFINE N == Len(signals)
            V == {t \in Edits(base, names) : PinsOnly(t, st)}
            step == [k \in 1..N |-> [t \in V |-> AddPin(t, c, signals[k])]]
<1>1. N \in Nat /\ \A k \in 1..N : signals[k] \in 0..Len(st.nl.nets)
  BY LenProperties, ElementOfSeq
<1>2. st \in V /\ WellFormed(base)
  BY DEF Edit, PinsOnly
<1>3. ASSUME NEW t \in V PROVE Edit(t, base, names) /\ PinsOnly(t, st)
  BY <1>2, <1>3 DEF Edit
<1>4. ASSUME NEW t, Edit(t, base, names), PinsOnly(t, st) PROVE t \in V
  BY <1>4 DEF Edit
<1>. HIDE DEF V
<1>5. ASSUME NEW k \in 1..N, NEW t \in V PROVE AddPin(t, c, signals[k]) \in V
  <2>1. Edit(t, base, names) /\ PinsOnly(t, st) /\ signals[k] \in 0..Len(t.nl.nets)
    BY <1>1, <1>3 DEF PinsOnly
  <2>2. Edit(AddPin(t, c, signals[k]), base, names) /\ PinsOnly(AddPin(t, c, signals[k]), t)
    BY <2>1, AddPinEdit
  <2>3. PinsOnly(AddPin(t, c, signals[k]), st)
    BY <2>1, <2>2, PinsOnlyTransitive
  <2>. QED BY <1>4, <2>2, <2>3
<1>6. step \in [1..N -> [V -> V]]
  BY <1>5
<1>7. PICK f \in [0..N -> V] : f[0] = st /\ \A k \in 1..N : f[k] = step[k][f[k - 1]]
  <2>. HIDE DEF step, N
  <2>1. IsRecursion(N, V, st, step)
    BY <1>1, <1>2, <1>6 DEF IsRecursion
  <2>2. Solutions(N, V, st, step) # {}
    BY <2>1, RecursionExists
  <2>. QED BY <2>2 DEF Solutions
<1>8. f = [k \in 0..N |-> IF k = 0 THEN st ELSE AddPin(f[k - 1], c, signals[k])]
  <2>1. ASSUME NEW k \in 1..N PROVE f[k] = AddPin(f[k - 1], c, signals[k])
    <3>1. f[k - 1] \in V
      <4>. HIDE DEF step, N
      <4>. QED BY <1>1, <1>7
    <3>. QED BY <1>7, <3>1
  <2>. HIDE DEF N
  <2>. QED BY <1>1, <1>7, <2>1
<1>9. added = [k \in 0..N |-> IF k = 0 THEN st ELSE AddPin(added[k - 1], c, signals[k])]
  BY <1>8 DEF IsAdding
<1>10. added[0] \in V /\ \A k \in 1..N : added[k - 1] \in V => added[k] = step[k][added[k - 1]]
  <2>1. added[0] = st /\ \A k \in 1..N : added[k] = AddPin(added[k - 1], c, signals[k])
    <3>. HIDE DEF N
    <3>. QED BY <1>1, <1>9
  <2>. QED BY <1>2, <2>1
<1>11. added[N] \in V
  <2>. HIDE DEF step, N
  <2>1. \A k \in 0..N : added[k] \in V
    BY <1>1, <1>6, <1>10, RecursionStays
  <2>. QED BY <1>1, <2>1
<1>. QED BY <1>3, <1>11

\* add_net overwrites nothing and adds one net.
LEMMA ApplyAddNetEdit ==
  ASSUME NEW base, NEW names, NEW st, Edit(st, base, names), IsSequence(names), NEW o
  PROVE  Follows(ApplyAddNet(st, o), st, base, names, 1)
<1>. DEFINE row == [name |-> NameId(st, o.name), live |-> TRUE, version |-> Revision(st)]
            nets == Append(st.nl.nets, row)
            pins == Append(st.nl.net_pins, NoPins)
            nl == [st.nl EXCEPT !.nets = nets, !.net_pins = pins]
            ap == [st.ap EXCEPT !.added_nets = Append(st.ap.added_nets, Len(st.nl.nets) + 1)]
            t == [nl |-> nl, ap |-> ap]
<1>1. /\ WellFormed(base) /\ ArenasFit(st.nl) /\ UndoExact(st, base)
      /\ st.nl \in NetlistsOf([base EXCEPT !.names = names])
      /\ st.ap \in UndosOf(base) /\ st = [nl |-> st.nl, ap |-> st.ap]
  BY EditParts
<1>2. ApplyAddNet(st, o) = t
  <2>. DEFINE one == [st.nl EXCEPT !.nets = nets]
  <2>1. one.net_pins = st.nl.net_pins
    BY <1>1 DEF NetlistsOf
  <2>2. ApplyAddNet(st, o)
          = [[st EXCEPT !.nl = [one EXCEPT !.net_pins = Append(one.net_pins, NoPins)]]
                EXCEPT !.ap = ap]
    BY <1>1, <2>1 DEF ApplyAddNet
  <2>3. [one EXCEPT !.net_pins = Append(one.net_pins, NoPins)] = nl
    BY <2>1
  <2>. HIDE DEF nl, ap, one
  <2>. QED BY <1>1, <2>2, <2>3
<1>3. /\ st.nl.nets \in Seq(NetRow) /\ st.nl.net_pins \in Seq(EndsRow)
      /\ base.nets \in Seq(NetRow) /\ base.net_pins \in Seq(EndsRow)
  BY <1>1, EditTypes, BaseTypes
<1>4. row \in NetRow /\ NoPins \in EndsRow
  BY NameIdIsNumber, RevisionIsNumber DEF NetRow, NoPins, EndsRow, None
<1>. HIDE DEF row
<1>5. /\ nets \in Seq(NetRow) /\ Len(nets) = Len(st.nl.nets) + 1
      /\ Kept(nets, st.ap.old_nets, base.nets)
  BY <1>1, <1>3, <1>4, AppendKept DEF UndoExact
<1>6. /\ pins \in Seq(EndsRow) /\ Len(pins) = Len(st.nl.net_pins) + 1
      /\ Kept(pins, st.ap.old_net_pins, base.net_pins)
  BY <1>1, <1>3, <1>4, AppendKept DEF UndoExact
<1>. HIDE DEF nets, pins
<1>7. /\ nl \in NetlistsOf([base EXCEPT !.names = names])
      /\ nl.connections = st.nl.connections /\ nl.pin_owners = st.nl.pin_owners
      /\ nl.pin_links = st.nl.pin_links /\ nl.cells = st.nl.cells
      /\ nl.nets = nets /\ nl.net_pins = pins
  BY <1>1, <1>5, <1>6 DEF NetlistsOf
<1>8. Len(st.nl.nets) \in Nat /\ Len(st.nl.connections) \in Nat
  BY EditLengths
<1>9. /\ ap \in UndosOf(base)
      /\ ap.old_nets = st.ap.old_nets /\ ap.old_cells = st.ap.old_cells
      /\ ap.old_connections = st.ap.old_connections
      /\ ap.old_net_pins = st.ap.old_net_pins /\ ap.old_pin_links = st.ap.old_pin_links
  <2>. DEFINE added == Append(st.ap.added_nets, Len(st.nl.nets) + 1)
  <2>1. added \in Seq(Nat)
    BY <1>1, <1>8 DEF UndosOf
  <2>. HIDE DEF added
  <2>2. ap = [st.ap EXCEPT !.added_nets = added]
    BY DEF added
  <2>. HIDE DEF ap
  <2>. QED BY <1>1, <2>1, <2>2 DEF UndosOf
<1>. HIDE DEF nl, ap
<1>10. t.nl = nl /\ t.ap = ap
  OBVIOUS
<1>. HIDE DEF t
<1>11. UndoExact(t, base)
  BY <1>1, <1>5, <1>6, <1>7, <1>9, <1>10 DEF UndoExact
<1>12. ArenasFit(nl)
  <2>1. /\ Len(st.nl.net_pins) = Len(st.nl.nets)
        /\ Len(st.nl.pin_owners) = Len(st.nl.connections)
        /\ Len(st.nl.pin_links) = Len(st.nl.connections)
        /\ \A p \in 1..Len(st.nl.connections) : st.nl.connections[p] <= Len(st.nl.nets)
        /\ \A d \in 1..Len(st.nl.cells) :
             PinsFit(st.nl.cells[d], Len(st.nl.connections))
    BY <1>1 DEF ArenasFit
  <2>2. ASSUME NEW p \in 1..Len(st.nl.connections) PROVE st.nl.connections[p] <= Len(nets)
    <3>1. st.nl.connections[p] \in Nat
      BY EditTypes, ElementOfSeq
    <3>2. st.nl.connections[p] <= Len(st.nl.nets)
      BY <2>1
    <3>. QED BY <1>5, <1>8, <3>1, <3>2
  <2>. QED BY <1>5, <1>6, <1>7, <1>8, <2>1, <2>2 DEF ArenasFit
<1>13. Edit(t, base, names)
  BY <1>1, <1>7, <1>9, <1>11, <1>12, EditFromParts DEF t
<1>. QED BY <1>2, <1>5, <1>7, <1>10, <1>13 DEF Follows

\* add_cell saves the pin lists and net rows it overwrites.
LEMMA ApplyAddCellEdit ==
  ASSUME NEW base, NEW names, NEW st, Edit(st, base, names), IsSequence(names), NEW o,
         o.signals \in Seq(0..Len(st.nl.nets))
  PROVE  Follows(ApplyAddCell(st, o), st, base, names, 0)
<1>. DEFINE c == Len(st.nl.cells) + 1
            signals == o.signals
            added[k \in 0..Len(signals)] ==
                IF k = 0 THEN st ELSE AddPin(added[k - 1], c, signals[k])
            u == added[Len(signals)]
            row == [name |-> NameId(st, o.name), type |-> NameId(st, o.type),
                    live |-> TRUE, version |-> Revision(st),
                    first |-> Len(st.nl.connections) + 1, last |-> Len(u.nl.connections)]
            cells == Append(u.nl.cells, row)
            nl == [u.nl EXCEPT !.cells = cells]
            ap == [u.ap EXCEPT !.added_cells = Append(u.ap.added_cells, c)]
            t == [nl |-> nl, ap |-> ap]
<1>1. IsAdding(added, st, c, signals)
  BY DEF IsAdding
<1>2. ApplyAddCell(st, o) = [u EXCEPT !.nl.cells = cells, !.ap.added_cells = Append(@, c)]
  BY DEF ApplyAddCell, AddPin, Pushed
<1>3. c \in Nat /\ Len(st.nl.connections) \in Nat /\ Len(st.nl.nets) \in Nat
  BY EditLengths
<1>. HIDE DEF added, c
<1>4. Edit(u, base, names) /\ PinsOnly(u, st)
  BY <1>1, <1>3, AddPinsEdit
<1>. HIDE DEF u
<1>5. /\ WellFormed(base) /\ ArenasFit(u.nl) /\ UndoExact(u, base)
      /\ u.nl \in NetlistsOf([base EXCEPT !.names = names])
      /\ u.ap \in UndosOf(base) /\ u = [nl |-> u.nl, ap |-> u.ap]
  BY <1>4, EditParts
<1>6. /\ u.nl.cells \in Seq(CellRow) /\ base.cells \in Seq(CellRow)
      /\ Len(u.nl.connections) \in Nat /\ Len(u.nl.cells) \in Nat
  BY <1>4, <1>5, EditTypes, EditLengths, BaseTypes
<1>7. row \in CellRow /\ row.first = Len(st.nl.connections) + 1 /\ row.last = Len(u.nl.connections)
  <2>1. NameId(st, o.name) \in Nat /\ NameId(st, o.type) \in Nat /\ Revision(st) \in Nat
    BY NameIdIsNumber, RevisionIsNumber
  <2>. QED BY <1>3, <1>6, <2>1 DEF CellRow
<1>8. ApplyAddCell(st, o) = t
  BY <1>2, <1>5
<1>. HIDE DEF row
<1>9. /\ cells \in Seq(CellRow) /\ Len(cells) = Len(u.nl.cells) + 1
      /\ \A i \in 1..Len(u.nl.cells) : cells[i] = u.nl.cells[i]
      /\ cells[Len(u.nl.cells) + 1] = row
      /\ Kept(cells, u.ap.old_cells, base.cells)
  BY <1>5, <1>6, <1>7, AppendKept DEF UndoExact
<1>. HIDE DEF cells
<1>10. /\ nl \in NetlistsOf([base EXCEPT !.names = names])
       /\ nl.connections = u.nl.connections /\ nl.pin_owners = u.nl.pin_owners
       /\ nl.pin_links = u.nl.pin_links /\ nl.cells = cells
       /\ nl.nets = u.nl.nets /\ nl.net_pins = u.nl.net_pins
  BY <1>5, <1>9 DEF NetlistsOf
<1>11. /\ ap \in UndosOf(base)
       /\ ap.old_nets = u.ap.old_nets /\ ap.old_cells = u.ap.old_cells
       /\ ap.old_connections = u.ap.old_connections
       /\ ap.old_net_pins = u.ap.old_net_pins /\ ap.old_pin_links = u.ap.old_pin_links
  <2>. DEFINE more == Append(u.ap.added_cells, c)
  <2>1. more \in Seq(Nat)
    BY <1>3, <1>5 DEF UndosOf
  <2>. HIDE DEF more
  <2>2. ap = [u.ap EXCEPT !.added_cells = more]
    BY DEF more
  <2>. HIDE DEF ap
  <2>. QED BY <1>5, <2>1, <2>2 DEF UndosOf
<1>. HIDE DEF nl, ap
<1>12. t.nl = nl /\ t.ap = ap
  OBVIOUS
<1>. HIDE DEF t
<1>13. UndoExact(t, base)
  BY <1>5, <1>9, <1>10, <1>11, <1>12 DEF UndoExact
<1>14. ArenasFit(nl)
  <2>1. /\ Len(u.nl.net_pins) = Len(u.nl.nets)
        /\ Len(u.nl.pin_owners) = Len(u.nl.connections)
        /\ Len(u.nl.pin_links) = Len(u.nl.connections)
        /\ \A p \in 1..Len(u.nl.connections) : u.nl.connections[p] <= Len(u.nl.nets)
        /\ \A d \in 1..Len(u.nl.cells) :
             PinsFit(u.nl.cells[d], Len(u.nl.connections))
    BY <1>5 DEF ArenasFit
  <2>2. ASSUME NEW d \in 1..Len(cells)
        PROVE  PinsFit(cells[d], Len(u.nl.connections))
    <3>1. d \in 1..Len(u.nl.cells) \/ d = Len(u.nl.cells) + 1
      BY <1>6, <1>9
    <3>2. CASE d \in 1..Len(u.nl.cells)
      BY <1>9, <2>1, <3>2
    <3>3. CASE d = Len(u.nl.cells) + 1
      <4>1. cells[d] = row
        BY <1>9, <3>3
      <4>2. Len(st.nl.connections) <= Len(u.nl.connections)
        BY <1>4 DEF PinsOnly
      <4>3. PinsFit(row, Len(u.nl.connections))
        BY <1>3, <1>6, <1>7, <4>2 DEF PinsFit
      <4>. QED BY <4>1, <4>3
    <3>. QED BY <3>1, <3>2, <3>3
  <2>. QED BY <1>10, <2>1, <2>2 DEF ArenasFit
<1>15. Edit(t, base, names)
  BY <1>5, <1>10, <1>11, <1>13, <1>14, EditFromParts DEF t
<1>16. Len(t.nl.nets) = Len(st.nl.nets) + 0
  BY <1>3, <1>4, <1>10, <1>12 DEF PinsOnly
<1>. QED BY <1>8, <1>15, <1>16 DEF Follows

-----------------------------------------------------------------------------
(***************************************************************************)
(* Removing a cell.                                                        *)
(***************************************************************************)

\* A pin of a removed cell taken off its net.
RemovePin(st, p) ==
    IF st.nl.connections[p] = Constant THEN st
    ELSE TouchSignalNet(UnlinkPin(st, p), st.nl.connections[p])

\* What a pin is connected to is a net that exists.
LEMMA ConnectionInRange ==
  ASSUME NEW base, NEW names, NEW st, Edit(st, base, names),
         NEW p \in 1..Len(st.nl.connections)
  PROVE  st.nl.connections[p] \in 0..Len(st.nl.nets)
<1>1. st.nl.connections[p] \in Nat
  BY EditTypes, ElementOfSeq
<1>2. st.nl.connections[p] <= Len(st.nl.nets)
  BY EditParts DEF ArenasFit
<1>. QED BY <1>1, <1>2, EditLengths

\* Unlinking a pin saves what it overwrites.
LEMMA RemovePinEdit ==
  ASSUME NEW base, NEW names, NEW st, Edit(st, base, names),
         NEW p \in 1..Len(st.nl.connections)
  PROVE  Edit(RemovePin(st, p), base, names) /\ Frame(RemovePin(st, p), st)
<1>. DEFINE signal == st.nl.connections[p]
            unlinked == UnlinkPin(st, p)
            touched == TouchSignalNet(unlinked, signal)
<1>0. signal \in 0..Len(st.nl.nets)
  BY ConnectionInRange
<1>1. CASE signal = Constant
  BY <1>1 DEF RemovePin, Frame
<1>2. CASE signal # Constant
  <2>1. Edit(unlinked, base, names) /\ ListsOnly(unlinked, st)
    BY <1>2, UnlinkPinEdit
  <2>2. RemovePin(st, p) = touched
    BY <1>2 DEF RemovePin
  <2>. HIDE DEF unlinked, signal
  <2>3. signal \in 0..Len(unlinked.nl.nets)
    BY <1>0, <2>1 DEF ListsOnly
  <2>4. Edit(touched, base, names) /\ Frame(touched, unlinked)
    BY <2>1, <2>3, TouchSignalNetEdit
  <2>. HIDE DEF touched
  <2>. QED BY <2>1, <2>2, <2>4, ListsOnlyFrame, FrameTransitive
<1>. QED BY <1>1, <1>2

\* What the recursion over the pins of a removed cell defines.
IsRemoving(unlinked, st, first, n) ==
    unlinked = CHOOSE h : h = [k \in 0..n |->
                   IF k = 0 THEN st ELSE RemovePin(h[k - 1], first + k - 1)]

\* So does unlinking the pins of a cell, one after the other.
LEMMA RemovePinsEdit ==
  ASSUME NEW base, NEW names, NEW st, Edit(st, base, names), NEW first \in Nat, NEW n \in Nat,
         \A k \in 1..n : first + k - 1 \in 1..Len(st.nl.connections),
         NEW unlinked, IsRemoving(unlinked, st, first, n)
  PROVE  Edit(unlinked[n], base, names) /\ Frame(unlinked[n], st)
<1>. DEFINE V == {t \in Edits(base, names) : Frame(t, st)}
            step == [k \in 1..n |-> [t \in V |-> RemovePin(t, first + k - 1)]]
<1>2. st \in V /\ WellFormed(base)
  BY DEF Edit, Frame
<1>3. ASSUME NEW t \in V PROVE Edit(t, base, names) /\ Frame(t, st)
  BY <1>2, <1>3 DEF Edit
<1>4. ASSUME NEW t, Edit(t, base, names), Frame(t, st) PROVE t \in V
  BY <1>4 DEF Edit
<1>. HIDE DEF V
<1>5. ASSUME NEW k \in 1..n, NEW t \in V PROVE RemovePin(t, first + k - 1) \in V
  <2>. DEFINE p == first + k - 1
  <2>1. Edit(t, base, names) /\ Frame(t, st)
    BY <1>3
  <2>2. p \in 1..Len(t.nl.connections)
    BY <2>1 DEF Frame
  <2>. HIDE DEF p
  <2>3. Edit(RemovePin(t, p), base, names) /\ Frame(RemovePin(t, p), t)
    BY <2>1, <2>2, RemovePinEdit
  <2>4. Frame(RemovePin(t, p), st)
    BY <2>1, <2>3, FrameTransitive
  <2>5. RemovePin(t, p) \in V
    BY <1>4, <2>3, <2>4
  <2>. QED BY <2>5 DEF p
<1>6. step \in [1..n -> [V -> V]]
  BY <1>5
<1>7. PICK f \in [0..n -> V] : f[0] = st /\ \A k \in 1..n : f[k] = step[k][f[k - 1]]
  <2>. HIDE DEF step
  <2>1. IsRecursion(n, V, st, step)
    BY <1>2, <1>6 DEF IsRecursion
  <2>2. Solutions(n, V, st, step) # {}
    BY <2>1, RecursionExists
  <2>. QED BY <2>2 DEF Solutions
<1>8. f = [k \in 0..n |-> IF k = 0 THEN st ELSE RemovePin(f[k - 1], first + k - 1)]
  <2>1. ASSUME NEW k \in 1..n PROVE f[k] = RemovePin(f[k - 1], first + k - 1)
    <3>1. f[k - 1] \in V
      <4>. HIDE DEF step
      <4>. QED BY <1>7
    <3>. QED BY <1>7, <3>1
  <2>. QED BY <1>7, <2>1
<1>9. unlinked = [k \in 0..n |->
                    IF k = 0 THEN st ELSE RemovePin(unlinked[k - 1], first + k - 1)]
  BY <1>8 DEF IsRemoving
<1>10. /\ unlinked[0] \in V
       /\ \A k \in 1..n : unlinked[k - 1] \in V => unlinked[k] = step[k][unlinked[k - 1]]
  <2>1. /\ unlinked[0] = st
        /\ \A k \in 1..n : unlinked[k] = RemovePin(unlinked[k - 1], first + k - 1)
    BY <1>9
  <2>. QED BY <1>2, <2>1
<1>11. unlinked[n] \in V
  <2>. HIDE DEF step
  <2>1. \A k \in 0..n : unlinked[k] \in V
    BY <1>6, <1>10, RecursionStays
  <2>. QED BY <2>1
<1>. QED BY <1>3, <1>11

\* remove_cell saves what it overwrites.
LEMMA ApplyRemoveCellEdit ==
  ASSUME NEW base, NEW names, NEW st, Edit(st, base, names), NEW o,
         o.cell \in 1..Len(st.nl.cells)
  PROVE  Follows(ApplyRemoveCell(st, o), st, base, names, 0)
<1>. DEFINE c == o.cell
            old == st.nl.cells[c]
            arity == old.last - old.first + 1
            saved == SaveCell(st, c)
            unlinked[k \in 0..arity] ==
                IF k = 0 THEN saved ELSE RemovePin(unlinked[k - 1], old.first + k - 1)
            u == unlinked[arity]
            row == [old EXCEPT !.live = FALSE, !.version = Revision(st)]
            cells == [u.nl.cells EXCEPT ![c] = row]
            t == [u EXCEPT !.nl.cells = cells]
<1>1. IsRemoving(unlinked, saved, old.first, arity)
  BY DEF IsRemoving
<1>2. ApplyRemoveCell(st, o)
        = [u EXCEPT !.nl.cells[c].live = FALSE, !.nl.cells[c].version = Revision(st)]
  BY DEF ApplyRemoveCell, RemovePin
<1>3. old \in CellRow /\ PinsFit(old, Len(st.nl.connections)) /\ Revision(st) \in Nat
  <2>1. ArenasFit(st.nl)
    BY EditParts
  <2>. QED BY <2>1, CellRows, RevisionIsNumber DEF ArenasFit
<1>4. /\ row \in CellRow /\ row.first = old.first /\ row.last = old.last
      /\ old.first \in Nat /\ old.last \in Nat
  <2>. HIDE DEF old
  <2>. QED BY <1>3 DEF CellRow
<1>5. arity \in Nat /\ \A k \in 1..arity : old.first + k - 1 \in 1..Len(st.nl.connections)
  <2>1. Len(st.nl.connections) \in Nat
    BY EditLengths
  <2>. HIDE DEF old
  <2>. QED BY <1>3, <1>4, <2>1 DEF PinsFit
<1>6. /\ Edit(saved, base, names) /\ saved.nl = st.nl
      /\ c > Len(base.cells) \/ c \in DOMAIN saved.ap.old_cells
  BY SaveCellEdit
<1>. HIDE DEF unlinked, old, saved, arity, c
<1>7. Edit(u, base, names) /\ Frame(u, saved)
  BY <1>1, <1>4, <1>5, <1>6, RemovePinsEdit
<1>. HIDE DEF u
<1>8. DOMAIN u.nl.cells = 1..Len(u.nl.cells) /\ u.nl.cells = st.nl.cells
  BY <1>6, <1>7, EditTypes, LenProperties DEF Frame
<1>9. c \in 1..Len(u.nl.cells) /\ (c > Len(base.cells) \/ c \in DOMAIN u.ap.old_cells)
  BY <1>6, <1>7, <1>8 DEF Frame, c
<1>10. /\ u.nl.cells \in Seq(CellRow) /\ base.cells \in Seq(CellRow)
       /\ Kept(u.nl.cells, u.ap.old_cells, base.cells)
       /\ u = [nl |-> u.nl, ap |-> u.ap]
  <2>1. WellFormed(base) /\ UndoExact(u, base) /\ u = [nl |-> u.nl, ap |-> u.ap]
    BY <1>7, EditParts
  <2>. QED BY <1>7, <2>1, EditTypes, BaseTypes DEF UndoExact
<1>11. ApplyRemoveCell(st, o) = t
  <2>1. old = u.nl.cells[c]
    BY <1>8 DEF old
  <2>2. u = [nl |-> u.nl, ap |-> u.ap] /\ c \in DOMAIN u.nl.cells
    BY <1>8, <1>9, <1>10
  <2>3. [u EXCEPT !.nl.cells[c].live = FALSE, !.nl.cells[c].version = Revision(st)]
          = [u EXCEPT !.nl.cells = [u.nl.cells EXCEPT ![c] =
                [u.nl.cells[c] EXCEPT !.live = FALSE, !.version = Revision(st)]]]
    BY <2>2
  <2>. QED BY <1>2, <2>1, <2>3
<1>12. /\ cells \in Seq(CellRow) /\ Len(cells) = Len(u.nl.cells)
       /\ Kept(cells, u.ap.old_cells, base.cells)
  <2>. HIDE DEF row
  <2>. QED BY <1>4, <1>9, <1>10, WriteKept
<1>13. \A d \in 1..Len(cells) : PinsFit(cells[d], Len(u.nl.connections))
  <2>1. \A d \in 1..Len(u.nl.cells) : PinsFit(u.nl.cells[d], Len(u.nl.connections))
    <3>1. ArenasFit(u.nl)
      BY <1>7, EditParts
    <3>. QED BY <3>1 DEF ArenasFit
  <2>2. PinsFit(row, Len(u.nl.connections))
    <3>1. u.nl.connections = st.nl.connections
      BY <1>6, <1>7 DEF Frame
    <3>. HIDE DEF row
    <3>. QED BY <1>3, <1>4, <3>1 DEF PinsFit
  <2>. HIDE DEF row
  <2>. QED BY <1>8, <1>9, <1>12, <2>1, <2>2
<1>. HIDE DEF cells
<1>14. Edit(t, base, names) /\ t.nl = [u.nl EXCEPT !.cells = cells]
  BY <1>7, <1>12, <1>13, PutCells
<1>15. t.nl.nets = u.nl.nets
  <2>1. u.nl \in NetlistsOf([base EXCEPT !.names = names])
    BY <1>7, EditParts
  <2>2. [u.nl EXCEPT !.cells = cells].nets = u.nl.nets
    BY <2>1 DEF NetlistsOf
  <2>. QED BY <1>14, <2>2
<1>16. Len(t.nl.nets) = Len(st.nl.nets) + 0
  BY <1>6, <1>7, <1>15, EditLengths DEF Frame
<1>. QED BY <1>11, <1>14, <1>16 DEF Follows

-----------------------------------------------------------------------------
(***************************************************************************)
(* Reconnecting a pin.                                                     *)
(***************************************************************************)

\* Saving what a pin is connected to.
SaveConnection(st, p) ==
    [st EXCEPT !.ap.old_connections =
        Saved(@, p, st.ap.connection_len, st.nl.connections[p])]

\* Saving the connection of a pin keeps the edit exact and changes no slot.
LEMMA SaveConnectionEdit ==
  ASSUME NEW base, NEW names, NEW st, Edit(st, base, names),
         NEW p \in 1..Len(st.nl.connections)
  PROVE  /\ Edit(SaveConnection(st, p), base, names)
         /\ SaveConnection(st, p).nl = st.nl
         /\ p > Len(base.connections) \/ p \in DOMAIN SaveConnection(st, p).ap.old_connections
<1>. DEFINE old == Saved(st.ap.old_connections, p, Len(base.connections), st.nl.connections[p])
            ap == [st.ap EXCEPT !.old_connections = old]
            t == SaveConnection(st, p)
<1>1. /\ st.nl.connections \in Seq(Nat) /\ st.ap.old_connections \in Partial(Nat)
      /\ base.connections \in Seq(Nat)
      /\ Kept(st.nl.connections, st.ap.old_connections, base.connections)
      /\ st.ap.connection_len = Len(base.connections) /\ p \in Nat \ {0}
  <2>1. WellFormed(base) /\ UndoExact(st, base)
    BY EditParts
  <2>. QED BY <2>1, EditTypes, EditLengths, BaseTypes DEF UndoExact
<1>2. /\ old \in Partial(Nat) /\ Kept(st.nl.connections, old, base.connections)
      /\ p > Len(base.connections) \/ p \in DOMAIN old
  BY <1>1, SavedKept
<1>3. st = [nl |-> st.nl, ap |-> st.ap] /\ st.ap \in UndosOf(base)
  BY EditParts
<1>. HIDE DEF old
<1>4. t = [nl |-> st.nl, ap |-> ap]
  BY <1>1, <1>3 DEF SaveConnection, old
<1>5. /\ ap \in UndosOf(base) /\ ap.old_connections = old
      /\ ap.old_cells = st.ap.old_cells /\ ap.old_nets = st.ap.old_nets
      /\ ap.old_net_pins = st.ap.old_net_pins /\ ap.old_pin_links = st.ap.old_pin_links
  BY <1>2, <1>3 DEF UndosOf
<1>. HIDE DEF ap, t
<1>6. UndoExact(t, base)
  BY <1>2, <1>4, <1>5, EditParts DEF UndoExact
<1>7. Edit(t, base, names)
  BY <1>4, <1>5, <1>6, EditParts, EditFromParts DEF Edit
<1>. QED BY <1>2, <1>4, <1>5, <1>7 DEF t

\* A pin moved to another signal: its connection is saved, it is taken off the
\* net it was on and put at the end of the net it goes to.
Detached(st, p) ==
    IF st.nl.connections[p] = Constant THEN SaveConnection(st, p)
    ELSE UnlinkPin(SaveConnection(st, p), p)
Attached(st, p, signal) ==
    IF signal = Constant THEN [st EXCEPT !.nl.connections[p] = signal]
    ELSE LinkPin([st EXCEPT !.nl.connections[p] = signal], signal, p)

\* What detaching and attaching a pin leave alone.
SameRows(t, st) ==
    /\ Len(t.nl.connections) = Len(st.nl.connections)
    /\ t.nl.nets = st.nl.nets /\ t.nl.cells = st.nl.cells

\* Taking a pin off its net saves its connection and the list.
LEMMA DetachedEdit ==
  ASSUME NEW base, NEW names, NEW st, Edit(st, base, names),
         NEW p \in 1..Len(st.nl.connections)
  PROVE  /\ Edit(Detached(st, p), base, names) /\ SameRows(Detached(st, p), st)
         /\ p > Len(base.connections) \/ p \in DOMAIN Detached(st, p).ap.old_connections
<1>. DEFINE saved == SaveConnection(st, p)
            unlinked == UnlinkPin(saved, p)
<1>1. /\ Edit(saved, base, names) /\ saved.nl = st.nl
      /\ p > Len(base.connections) \/ p \in DOMAIN saved.ap.old_connections
  BY SaveConnectionEdit
<1>2. CASE st.nl.connections[p] = Constant
  <2>1. Detached(st, p) = saved
    BY <1>2 DEF Detached
  <2>. HIDE DEF saved
  <2>. QED BY <1>1, <2>1 DEF SameRows
<1>3. CASE st.nl.connections[p] # Constant
  <2>1. Detached(st, p) = unlinked
    BY <1>3 DEF Detached
  <2>. HIDE DEF saved
  <2>2. p \in 1..Len(saved.nl.connections) /\ saved.nl.connections[p] # Constant
    BY <1>1, <1>3
  <2>3. Edit(unlinked, base, names) /\ ListsOnly(unlinked, saved)
    BY <1>1, <2>2, UnlinkPinEdit
  <2>. HIDE DEF unlinked
  <2>. QED BY <1>1, <2>1, <2>3 DEF SameRows, ListsOnly
<1>. QED BY <1>2, <1>3

\* Connecting a pin whose connection is saved.
LEMMA AttachedEdit ==
  ASSUME NEW base, NEW names, NEW st, Edit(st, base, names),
         NEW p \in 1..Len(st.nl.connections), NEW signal \in 0..Len(st.nl.nets),
         p > Len(base.connections) \/ p \in DOMAIN st.ap.old_connections
  PROVE  Edit(Attached(st, p, signal), base, names) /\ SameRows(Attached(st, p, signal), st)
<1>. DEFINE new == [st.nl.connections EXCEPT ![p] = signal]
            moved == [st EXCEPT !.nl.connections = new]
            linked == LinkPin(moved, signal, p)
<1>1. /\ st.nl.connections \in Seq(Nat) /\ base.connections \in Seq(Nat)
      /\ Kept(st.nl.connections, st.ap.old_connections, base.connections)
      /\ st = [nl |-> st.nl, ap |-> st.ap]
      /\ st.nl \in NetlistsOf([base EXCEPT !.names = names])
  <2>1. /\ WellFormed(base) /\ UndoExact(st, base) /\ st = [nl |-> st.nl, ap |-> st.ap]
        /\ st.nl \in NetlistsOf([base EXCEPT !.names = names])
    BY EditParts
  <2>2. st.nl.connections \in Seq(Nat)
    BY EditTypes
  <2>3. base.connections \in Seq(Nat)
    BY <2>1, BaseTypes
  <2>. QED BY <2>1, <2>2, <2>3 DEF UndoExact
<1>2. signal \in Nat /\ p \in Nat \ {0} /\ DOMAIN st.nl.connections = 1..Len(st.nl.connections)
  BY <1>1, EditLengths, LenProperties
<1>3. /\ new \in Seq(Nat) /\ Len(new) = Len(st.nl.connections)
      /\ Kept(new, st.ap.old_connections, base.connections)
  <2>. DEFINE seq == st.nl.connections
              old == st.ap.old_connections
              was == base.connections
  <2>1. /\ seq \in Seq(Nat) /\ was \in Seq(Nat) /\ Kept(seq, old, was)
        /\ p \in 1..Len(seq) /\ signal \in Nat
        /\ p > Len(was) \/ p \in DOMAIN old
    BY <1>1, <1>2
  <2>. HIDE DEF seq, old, was
  <2>2. /\ [seq EXCEPT ![p] = signal] \in Seq(Nat)
        /\ Len([seq EXCEPT ![p] = signal]) = Len(seq)
        /\ Kept([seq EXCEPT ![p] = signal], old, was)
    BY <2>1, WriteKept
  <2>. QED BY <2>2 DEF seq, old, was
<1>4. \A q \in 1..Len(new) : new[q] <= Len(st.nl.nets)
  <2>1. \A q \in 1..Len(st.nl.connections) : st.nl.connections[q] <= Len(st.nl.nets)
    BY EditParts DEF ArenasFit
  <2>2. SUFFICES ASSUME NEW q \in 1..Len(st.nl.connections)
                 PROVE  new[q] <= Len(st.nl.nets)
    BY <1>3
  <2>3. CASE q = p
    BY <1>2, <2>3
  <2>4. CASE q # p
    BY <1>2, <2>1, <2>4
  <2>. QED BY <2>3, <2>4
<1>5. [st EXCEPT !.nl.connections[p] = signal] = moved
  BY <1>1
<1>. HIDE DEF new
<1>6. Edit(moved, base, names) /\ moved.nl = [st.nl EXCEPT !.connections = new]
  BY <1>3, <1>4, PutConnections
<1>. HIDE DEF moved
<1>7. SameRows(moved, st)
  <2>. DEFINE nl == [st.nl EXCEPT !.connections = new]
  <2>1. nl.connections = new /\ nl.nets = st.nl.nets /\ nl.cells = st.nl.cells
    BY <1>1 DEF NetlistsOf
  <2>. QED BY <1>3, <1>6, <2>1 DEF SameRows
<1>8. CASE signal = Constant
  BY <1>5, <1>6, <1>7, <1>8 DEF Attached
<1>9. CASE signal # Constant
  <2>1. Attached(st, p, signal) = linked
    BY <1>5, <1>9 DEF Attached
  <2>2. signal \in 1..Len(moved.nl.nets)
    BY <1>2, <1>7, <1>9, EditLengths DEF SameRows, Constant
  <2>3. Edit(linked, base, names) /\ ListsOnly(linked, moved)
    BY <1>2, <1>6, <2>2, LinkPinEdit
  <2>. HIDE DEF linked
  <2>. QED BY <1>7, <2>1, <2>3 DEF SameRows, ListsOnly
<1>. QED BY <1>8, <1>9

\* A panic stops an edit where it is.
LEMMA PanicEdit ==
  ASSUME NEW base, NEW names, NEW st, Edit(st, base, names)
  PROVE  Follows([st EXCEPT !.nl.status = "panicked"], st, base, names, 0)
<1>. DEFINE nl == [st.nl EXCEPT !.status = "panicked"]
            t == [nl |-> nl, ap |-> st.ap]
<1>1. /\ WellFormed(base) /\ ArenasFit(st.nl) /\ UndoExact(st, base)
      /\ st.nl \in NetlistsOf([base EXCEPT !.names = names])
      /\ st.ap \in UndosOf(base) /\ st = [nl |-> st.nl, ap |-> st.ap]
  BY EditParts
<1>2. [st EXCEPT !.nl.status = "panicked"] = t
  BY <1>1
<1>3. /\ nl \in NetlistsOf([base EXCEPT !.names = names])
      /\ nl.nets = st.nl.nets /\ nl.cells = st.nl.cells /\ nl.connections = st.nl.connections
      /\ nl.pin_owners = st.nl.pin_owners /\ nl.pin_links = st.nl.pin_links
      /\ nl.net_pins = st.nl.net_pins
  BY <1>1 DEF NetlistsOf
<1>. HIDE DEF nl
<1>4. t.nl = nl /\ t.ap = st.ap
  OBVIOUS
<1>5. ArenasFit(nl)
  BY <1>1, <1>3 DEF ArenasFit
<1>. HIDE DEF t
<1>6. UndoExact(t, base)
  BY <1>1, <1>3, <1>4 DEF UndoExact
<1>7. Edit(t, base, names)
  BY <1>1, <1>3, <1>5, <1>6, EditFromParts DEF t
<1>8. Len(t.nl.nets) = Len(st.nl.nets) + 0
  BY <1>3, <1>4, EditLengths
<1>. QED BY <1>2, <1>7, <1>8 DEF Follows

\* reconnect_pin saves what it overwrites, also when it panics.
LEMMA ApplyReconnectPinEdit ==
  ASSUME NEW base, NEW names, NEW st, Edit(st, base, names), NEW o,
         o.pin \in 1..Len(st.nl.connections), o.signal \in 0..Len(st.nl.nets)
  PROVE  Follows(ApplyReconnectPin(st, o), st, base, names, 0)
<1>. DEFINE p == o.pin
            signal == o.signal
            old == st.nl.connections[p]
            detached == Detached(st, p)
            linked == Attached(detached, p, signal)
            owner == PinOwner(st.nl, p)
            row == [linked.nl.cells[owner] EXCEPT !.version = Revision(st)]
            saved == SaveCell(linked, owner)
            written == CellWritten(linked, owner, row)
            one == TouchSignalNet(written, old)
            two == TouchSignalNet(one, signal)
<1>1. ApplyReconnectPin(st, o)
        = IF owner = None THEN [linked EXCEPT !.nl.status = "panicked"]
          ELSE TouchSignalNet(TouchSignalNet(
                 [saved EXCEPT !.nl.cells[owner].version = Revision(st)], old), signal)
  BY DEF ApplyReconnectPin, Detached, Attached, SaveConnection
<1>2. old \in 0..Len(st.nl.nets)
  BY ConnectionInRange
<1>3. owner = None \/ owner \in 1..Len(st.nl.cells)
  BY DEF PinOwner, IsLiveCell, Cells
<1>4. p \in 1..Len(st.nl.connections) /\ signal \in 0..Len(st.nl.nets)
  OBVIOUS
<1>. HIDE DEF p, signal, old, owner
<1>5. /\ Edit(detached, base, names) /\ SameRows(detached, st)
      /\ p > Len(base.connections) \/ p \in DOMAIN detached.ap.old_connections
  BY <1>4, DetachedEdit
<1>. HIDE DEF detached
<1>6. p \in 1..Len(detached.nl.connections) /\ signal \in 0..Len(detached.nl.nets)
  BY <1>4, <1>5 DEF SameRows
<1>7. Edit(linked, base, names) /\ SameRows(linked, detached)
  BY <1>5, <1>6, AttachedEdit
<1>. HIDE DEF linked
<1>8. linked.nl.nets = st.nl.nets /\ linked.nl.cells = st.nl.cells
  BY <1>5, <1>7 DEF SameRows
<1>9. Len(st.nl.nets) \in Nat
  BY EditLengths
<1>10. CASE owner = None
  <2>1. Follows([linked EXCEPT !.nl.status = "panicked"], linked, base, names, 0)
    BY <1>7, PanicEdit
  <2>. QED BY <1>1, <1>8, <1>10, <2>1 DEF Follows
<1>11. CASE owner # None
  <2>1. owner \in 1..Len(linked.nl.cells)
    BY <1>3, <1>8, <1>11
  <2>2. /\ row \in CellRow /\ row.first = linked.nl.cells[owner].first
        /\ row.last = linked.nl.cells[owner].last
    <3>1. linked.nl.cells[owner] \in CellRow /\ Revision(st) \in Nat
      BY <1>7, <2>1, CellRows, RevisionIsNumber
    <3>. QED BY <3>1 DEF CellRow
  <2>3. saved = [nl |-> linked.nl, ap |-> saved.ap]
    BY <1>7, <2>1, SavedPairs
  <2>4. [saved EXCEPT !.nl.cells[owner].version = Revision(st)] = written
    <3>. HIDE DEF saved
    <3>1. saved.nl = linked.nl
      BY <2>3
    <3>2. [saved EXCEPT !.nl.cells[owner].version = Revision(st)]
            = [saved EXCEPT !.nl.cells = [linked.nl.cells EXCEPT ![owner] = row]]
      BY <2>3, <3>1
    <3>. QED BY <3>2 DEF CellWritten, saved
  <2>5. ApplyReconnectPin(st, o) = two
    BY <1>1, <1>11, <2>4
  <2>. HIDE DEF row
  <2>6. Edit(written, base, names) /\ RowsFrame(written, linked)
    BY <1>7, <2>1, <2>2, CellWrittenEdit
  <2>. HIDE DEF written
  <2>7. old \in 0..Len(written.nl.nets)
    BY <1>2, <1>8, <2>6 DEF RowsFrame
  <2>8. Edit(one, base, names) /\ Frame(one, written)
    BY <2>6, <2>7, TouchSignalNetEdit
  <2>. HIDE DEF one
  <2>9. signal \in 0..Len(one.nl.nets)
    BY <1>4, <1>8, <2>6, <2>8 DEF RowsFrame, Frame
  <2>10. Edit(two, base, names) /\ Frame(two, one)
    BY <2>8, <2>9, TouchSignalNetEdit
  <2>. HIDE DEF two
  <2>. QED BY <1>8, <1>9, <2>5, <2>6, <2>8, <2>10 DEF Follows, Frame, RowsFrame
<1>. QED BY <1>10, <1>11

\* The name table only grows.
Extends(s, t) == Len(t) <= Len(s) /\ \A i \in 1..Len(t) : s[i] = t[i]

\* A name table that grows twice has grown.
LEMMA ExtendsTransitive ==
  ASSUME NEW U, NEW r \in Seq(U), NEW s \in Seq(U), NEW t \in Seq(U),
         Extends(s, r), Extends(t, s)
  PROVE  Extends(t, r)
<1>1. Len(r) \in Nat /\ Len(s) \in Nat /\ Len(t) \in Nat
  BY LenProperties
<1>. QED BY <1>1 DEF Extends

\* Interning a name keeps the identifiers given before.
LEMMA InternExtends ==
  ASSUME NEW U, NEW names \in Seq(U), NEW name \in U
  PROVE  Intern(names, name) \in Seq(U) /\ Extends(Intern(names, name), names)
<1>0. Len(names) \in Nat
  BY LenProperties
<1>1. CASE Contains(names, name)
  BY <1>0, <1>1 DEF Intern, Extends
<1>2. CASE ~Contains(names, name)
  <2>1. /\ Append(names, name) \in Seq(U) /\ Len(Append(names, name)) = Len(names) + 1
        /\ \A i \in 1..Len(names) : Append(names, name)[i] = names[i]
    BY AppendProperties
  <2>2. Intern(names, name) = Append(names, name)
    BY <1>2 DEF Intern
  <2>. QED BY <1>0, <2>1, <2>2 DEF Extends
<1>. QED BY <1>1, <1>2

\* What the recursion over the names of a list defines.
IsInterning(interned, names, list) ==
    interned = CHOOSE h : h = [k \in 0..Len(list) |->
                   IF k = 0 THEN names ELSE Intern(h[k - 1], list[k])]

\* So does interning the names of a list, one after the other.
LEMMA InterningExtends ==
  ASSUME NEW U, NEW names \in Seq(U), NEW list \in Seq(U),
         NEW interned, IsInterning(interned, names, list)
  PROVE  interned[Len(list)] \in Seq(U) /\ Extends(interned[Len(list)], names)
<1>. DEFINE n == Len(list)
            V == {s \in Seq(U) : Extends(s, names)}
            step == [k \in 1..n |-> [s \in V |-> Intern(s, list[k])]]
<1>1. n \in Nat /\ \A k \in 1..n : list[k] \in U
  BY LenProperties, ElementOfSeq
<1>2. names \in V
  BY LenProperties DEF Extends
<1>. HIDE DEF n
<1>5. ASSUME NEW k \in 1..n, NEW s \in V PROVE Intern(s, list[k]) \in V
  <2>1. s \in Seq(U) /\ Extends(s, names) /\ list[k] \in U
    BY <1>1
  <2>2. Intern(s, list[k]) \in Seq(U) /\ Extends(Intern(s, list[k]), s)
    BY <2>1, InternExtends
  <2>. QED BY <2>1, <2>2, ExtendsTransitive
<1>3. \A s \in V : s \in Seq(U) /\ Extends(s, names)
  OBVIOUS
<1>. HIDE DEF V
<1>6. step \in [1..n -> [V -> V]]
  BY <1>5
<1>7. PICK f \in [0..n -> V] : f[0] = names /\ \A k \in 1..n : f[k] = step[k][f[k - 1]]
  <2>. HIDE DEF step
  <2>1. IsRecursion(n, V, names, step)
    BY <1>1, <1>2, <1>6 DEF IsRecursion
  <2>2. Solutions(n, V, names, step) # {}
    BY <2>1, RecursionExists
  <2>. QED BY <2>2 DEF Solutions
<1>8. f = [k \in 0..n |-> IF k = 0 THEN names ELSE Intern(f[k - 1], list[k])]
  <2>1. ASSUME NEW k \in 1..n PROVE f[k] = Intern(f[k - 1], list[k])
    <3>1. f[k - 1] \in V
      <4>. HIDE DEF step
      <4>. QED BY <1>1, <1>7
    <3>. QED BY <1>7, <3>1
  <2>. QED BY <1>7, <2>1
<1>9. interned = [k \in 0..n |-> IF k = 0 THEN names ELSE Intern(interned[k - 1], list[k])]
  BY <1>8 DEF IsInterning, n
<1>10. /\ interned[0] \in V
       /\ \A k \in 1..n : interned[k - 1] \in V => interned[k] = step[k][interned[k - 1]]
  <2>1. /\ interned[0] = names
        /\ \A k \in 1..n : interned[k] = Intern(interned[k - 1], list[k])
    BY <1>1, <1>9
  <2>. QED BY <1>2, <2>1
<1>11. interned[n] \in V
  <2>. HIDE DEF step
  <2>1. \A k \in 0..n : interned[k] \in V
    BY <1>1, <1>6, <1>10, RecursionStays
  <2>. QED BY <1>1, <2>1
<1>. QED BY <1>3, <1>11 DEF n

\* What intern does for a list.
LEMMA InternAllExtends ==
  ASSUME NEW U, NEW names \in Seq(U), NEW list \in Seq(U)
  PROVE  InternAll(names, list) \in Seq(U) /\ Extends(InternAll(names, list), names)
<1>. DEFINE interned[k \in 0..Len(list)] ==
                IF k = 0 THEN names ELSE Intern(interned[k - 1], list[k])
<1>1. IsInterning(interned, names, list)
  BY DEF IsInterning
<1>2. InternAll(names, list) = interned[Len(list)]
  BY DEF InternAll
<1>. HIDE DEF interned
<1>. QED BY <1>1, <1>2, InterningExtends

-----------------------------------------------------------------------------
(* The names of a plan.                                                    *)

\* The names of an operation are among those it carries.
LEMMA OperationNamesTyped ==
  ASSUME NEW o, NEW U, o.name \in U, o.type \in U
  PROVE  OperationNames(o) \in Seq(U)
<1>1. <<>> \in Seq(U) /\ <<o.name>> \in Seq(U) /\ <<o.type>> \in Seq(U)
      /\ <<o.name, o.type>> \in Seq(U)
  OBVIOUS
<1>. QED BY <1>1 DEF OperationNames

\* What the recursion over the operations of a plan defines.
IsPlanInterning(interned, names, plan) ==
    interned = CHOOSE h : h = [k \in 0..Len(plan) |->
                   IF k = 0 THEN names ELSE InternAll(h[k - 1], OperationNames(plan[k]))]

\* Interning the names of a plan, operation by operation.
LEMMA PlanInterningExtends ==
  ASSUME NEW U, NEW names \in Seq(U), NEW plan, Len(plan) \in Nat,
         \A k \in 1..Len(plan) : OperationNames(plan[k]) \in Seq(U),
         NEW interned, IsPlanInterning(interned, names, plan)
  PROVE  interned[Len(plan)] \in Seq(U) /\ Extends(interned[Len(plan)], names)
<1>. DEFINE n == Len(plan)
            V == {s \in Seq(U) : Extends(s, names)}
            Step(s, k) == InternAll(s, OperationNames(plan[k]))
            step == [k \in 1..n |-> [s \in V |-> Step(s, k)]]
<1>1. n \in Nat
  OBVIOUS
<1>2. names \in V
  BY LenProperties DEF Extends
<1>5. ASSUME NEW k \in 1..n, NEW s \in V PROVE Step(s, k) \in V
  <2>1. s \in Seq(U) /\ Extends(s, names) /\ OperationNames(plan[k]) \in Seq(U)
    OBVIOUS
  <2>2. Step(s, k) \in Seq(U) /\ Extends(Step(s, k), s)
    BY <2>1, InternAllExtends
  <2>. HIDE DEF Step
  <2>. QED BY <2>1, <2>2, ExtendsTransitive
<1>3. \A s \in V : s \in Seq(U) /\ Extends(s, names)
  OBVIOUS
<1>4. IsPlanInterning(interned, names, plan) <=>
         interned = CHOOSE h : h = [k \in 0..n |-> IF k = 0 THEN names ELSE Step(h[k - 1], k)]
  BY DEF IsPlanInterning
<1>. HIDE DEF V, n, Step
<1>6. step \in [1..n -> [V -> V]]
  BY <1>5
<1>7. PICK f \in [0..n -> V] : f[0] = names /\ \A k \in 1..n : f[k] = step[k][f[k - 1]]
  <2>. HIDE DEF step
  <2>1. IsRecursion(n, V, names, step)
    BY <1>1, <1>2, <1>6 DEF IsRecursion
  <2>2. Solutions(n, V, names, step) # {}
    BY <2>1, RecursionExists
  <2>. QED BY <2>2 DEF Solutions
<1>8. f = [k \in 0..n |-> IF k = 0 THEN names ELSE Step(f[k - 1], k)]
  <2>1. ASSUME NEW k \in 1..n PROVE f[k] = Step(f[k - 1], k)
    <3>1. f[k - 1] \in V
      <4>. HIDE DEF step
      <4>. QED BY <1>1, <1>7
    <3>. QED BY <1>7, <3>1
  <2>. QED BY <1>7, <2>1
<1>9. interned = [k \in 0..n |-> IF k = 0 THEN names ELSE Step(interned[k - 1], k)]
  BY <1>4, <1>8
<1>10. /\ interned[0] \in V
       /\ \A k \in 1..n : interned[k - 1] \in V => interned[k] = step[k][interned[k - 1]]
  <2>1. /\ interned[0] = names
        /\ \A k \in 1..n : interned[k] = Step(interned[k - 1], k)
    BY <1>1, <1>9
  <2>. QED BY <1>2, <2>1
<1>11. interned[n] \in V
  <2>. HIDE DEF step
  <2>1. \A k \in 0..n : interned[k] \in V
    BY <1>1, <1>6, <1>10, RecursionStays
  <2>. QED BY <1>1, <2>1
<1>. QED BY <1>3, <1>11 DEF n

\* The table after the names of a plan have been interned starts with the
\* table before.
LEMMA InternPlanExtends ==
  ASSUME NEW names, IsSequence(names), NEW plan, Len(plan) \in Nat
  PROVE  IsSequence(InternPlan(names, plan)) /\ Extends(InternPlan(names, plan), names)
<1>. DEFINE U == {names[i] : i \in DOMAIN names}
                  \cup {plan[k].name : k \in 1..Len(plan)} \cup {plan[k].type : k \in 1..Len(plan)}
            interned[k \in 0..Len(plan)] ==
                IF k = 0 THEN names ELSE InternAll(interned[k - 1], OperationNames(plan[k]))
<1>1. IsPlanInterning(interned, names, plan)
  BY DEF IsPlanInterning
<1>2. InternPlan(names, plan) = interned[Len(plan)]
  BY DEF InternPlan
<1>. HIDE DEF interned
<1>3. names \in Seq(U)
  <2>1. names \in Seq({names[i] : i \in DOMAIN names})
    BY DEF IsSequence
  <2>2. Len(names) \in Nat /\ names \in [1..Len(names) -> {names[i] : i \in DOMAIN names}]
    BY <2>1, LenProperties
  <2>3. names \in [1..Len(names) -> U]
    BY <2>2
  <2>. HIDE DEF U
  <2>. QED BY <2>2, <2>3, SeqDef
<1>4. ASSUME NEW k \in 1..Len(plan) PROVE OperationNames(plan[k]) \in Seq(U)
  <2>1. plan[k].name \in U /\ plan[k].type \in U
    OBVIOUS
  <2>. HIDE DEF U
  <2>. QED BY <2>1, OperationNamesTyped
<1>. HIDE DEF U
<1>5. interned[Len(plan)] \in Seq(U) /\ Extends(interned[Len(plan)], names)
  BY <1>1, <1>3, <1>4, PlanInterningExtends
<1>6. ASSUME NEW s \in Seq(U) PROVE IsSequence(s)
  <2>1. Len(s) \in Nat /\ DOMAIN s = 1..Len(s) /\ s \in [1..Len(s) -> U]
    BY LenProperties
  <2>. DEFINE W == {s[i] : i \in DOMAIN s}
  <2>2. s \in [1..Len(s) -> W]
    BY <2>1
  <2>. HIDE DEF W
  <2>3. s \in Seq(W)
    BY <2>1, <2>2, SeqDef
  <2>. QED BY <2>3 DEF IsSequence, W
<1>. QED BY <1>2, <1>5, <1>6

-----------------------------------------------------------------------------
(* A rollback.                                                             *)

\* A function on the first numbers is the sequence tabulated from it.
LEMMA TabulateElements ==
  ASSUME NEW S, NEW n \in Nat, NEW f \in [1..n -> S]
  PROVE  SubSeq(f, 1, n) = f
<1>1. f \in Seq(S) /\ Len(f) = n
  BY SeqDef
<1>. QED BY <1>1, SubSeqProperties

\* Writing the saved values back and cutting the arena restores it.
LEMMA RestoredIs ==
  ASSUME NEW S, NEW was \in Seq(S), NEW seq, NEW old, Kept(seq, old, was)
  PROVE  Restored(seq, Len(was), old) = was
<1>. DEFINE f == [i \in 1..Len(was) |-> IF i \in DOMAIN old THEN old[i] ELSE seq[i]]
<1>1. Len(was) \in Nat /\ was \in [1..Len(was) -> S]
  BY LenProperties
<1>2. f = was
  BY <1>1 DEF Kept
<1>3. Restored(seq, Len(was), old) = SubSeq(f, 1, Len(was))
  BY DEF Restored, Tabulate
<1>. HIDE DEF f
<1>. QED BY <1>1, <1>2, <1>3, TabulateElements

\* Cutting a table that has grown restores it.
LEMMA SubSeqIs ==
  ASSUME NEW S, NEW was \in Seq(S), NEW seq \in Seq(S), Extends(seq, was)
  PROVE  SubSeq(seq, 1, Len(was)) = was
<1>1. /\ Len(was) \in Nat /\ was \in [1..Len(was) -> S] /\ Len(seq) \in Nat
      /\ Len(was) <= Len(seq)
  BY LenProperties DEF Extends
<1>. DEFINE t == SubSeq(seq, 1, Len(was))
<1>2. t \in Seq(S) /\ Len(t) = Len(was) /\ \A i \in 1..Len(was) : t[i] = seq[i]
  BY <1>1, SubSeqProperties
<1>. HIDE DEF t
<1>3. \A i \in 1..Len(was) : t[i] = was[i]
  BY <1>2 DEF Extends
<1>4. t = was
  BY <1>2, <1>3, SeqEqual
<1>. QED BY <1>4 DEF t

\* The nets among the first k operations of a plan.
NetsBefore(plan, k) == Cardinality({j \in 1..k : plan[j].op = "add_net"})

\* How many nets a plan has added after its k-th operation.
LEMMA NetsBeforeStep ==
  ASSUME NEW plan, NEW k \in Nat \ {0}
  PROVE  /\ NetsBefore(plan, k - 1) \in Nat /\ NetsBefore(plan, k) \in Nat
         /\ NetsBefore(plan, k)
              = NetsBefore(plan, k - 1) + (IF plan[k].op = "add_net" THEN 1 ELSE 0)
<1>. DEFINE S == {j \in 1..k - 1 : plan[j].op = "add_net"}
            T == {j \in 1..k : plan[j].op = "add_net"}
<1>1. IsFiniteSet(S) /\ IsFiniteSet(T)
  <2>1. IsFiniteSet(1..k - 1) /\ IsFiniteSet(1..k) /\ S \subseteq 1..k - 1 /\ T \subseteq 1..k
    BY FS_Interval
  <2>. HIDE DEF S, T
  <2>. QED BY <2>1, FS_Subset
<1>2. k \notin S /\ (plan[k].op = "add_net" => T = S \cup {k})
      /\ (plan[k].op # "add_net" => T = S)
  OBVIOUS
<1>3. NetsBefore(plan, k - 1) = Cardinality(S) /\ NetsBefore(plan, k) = Cardinality(T)
  BY DEF NetsBefore
<1>. HIDE DEF S, T
<1>4. Cardinality(S) \in Nat /\ Cardinality(T) \in Nat
  BY <1>1, FS_CardinalityType
<1>5. Cardinality(S \cup {k}) = Cardinality(S) + 1
  BY <1>1, <1>2, FS_AddElement
<1>. QED BY <1>2, <1>3, <1>4, <1>5

\* Before its first operation a plan has added no net.
LEMMA NetsBeforeNone ==
  ASSUME NEW plan
  PROVE  NetsBefore(plan, 0) = 0
<1>1. {j \in 1..0 : plan[j].op = "add_net"} = {}
  OBVIOUS
<1>. QED BY <1>1, FS_EmptySet DEF NetsBefore

\* An operation that refers to slots of base and to the first n nets.
OperationFits(o, base, n) ==
    /\ o.op \in {"add_net", "add_cell", "remove_cell", "remove_net", "reconnect_pin",
                 "replace_cell", "rename_cell", "rename_net"}
    /\ o.op = "add_cell" => o.signals \in Seq(0..n)
    /\ o.op \in WritesCell => o.cell \in 1..Len(base.cells)
    /\ o.op \in WritesNet => o.net \in 1..Len(base.nets)
    /\ o.op = "reconnect_pin" => o.pin \in 1..Len(base.connections) /\ o.signal \in 0..n

\* A plan whose operations refer to slots of base and to nets added before.
PlanFits(base, plan) ==
    /\ Len(plan) \in Nat
    /\ \A k \in 1..Len(plan) :
         OperationFits(plan[k], base, Len(base.nets) + NetsBefore(plan, k - 1))

\* Every operation that fits saves what it overwrites.
LEMMA ApplyOperationEdit ==
  ASSUME NEW base, NEW names, NEW st, Edit(st, base, names), IsSequence(names), NEW o,
         OperationFits(o, base, Len(st.nl.nets)), st.nl.status # "panicked"
  PROVE  Follows(ApplyOperation(st, o), st, base, names, IF o.op = "add_net" THEN 1 ELSE 0)
<1>1. /\ Len(base.nets) \in Nat /\ Len(base.cells) \in Nat /\ Len(base.connections) \in Nat
      /\ Len(st.nl.nets) \in Nat /\ Len(st.nl.cells) \in Nat /\ Len(st.nl.connections) \in Nat
      /\ Len(base.nets) <= Len(st.nl.nets) /\ Len(base.cells) <= Len(st.nl.cells)
      /\ Len(base.connections) <= Len(st.nl.connections)
  BY EditLengths
<1>2. CASE o.op = "add_net"
  <2>1. ApplyOperation(st, o) = ApplyAddNet(st, o)
    BY <1>2 DEF ApplyOperation
  <2>. QED BY <1>2, <2>1, ApplyAddNetEdit
<1>3. CASE o.op = "add_cell"
  <2>1. ApplyOperation(st, o) = ApplyAddCell(st, o)
    BY <1>3 DEF ApplyOperation
  <2>2. o.signals \in Seq(0..Len(st.nl.nets))
    BY <1>3 DEF OperationFits
  <2>. QED BY <1>3, <2>1, <2>2, ApplyAddCellEdit
<1>4. CASE o.op = "remove_cell"
  <2>1. ApplyOperation(st, o) = ApplyRemoveCell(st, o)
    BY <1>4 DEF ApplyOperation
  <2>2. o.cell \in 1..Len(st.nl.cells)
    BY <1>1, <1>4 DEF OperationFits, WritesCell
  <2>. QED BY <1>4, <2>1, <2>2, ApplyRemoveCellEdit
<1>5. CASE o.op = "remove_net"
  <2>1. ApplyOperation(st, o) = ApplyRemoveNet(st, o)
    BY <1>5 DEF ApplyOperation
  <2>2. o.net \in 1..Len(st.nl.nets)
    BY <1>1, <1>5 DEF OperationFits, WritesNet
  <2>. QED BY <1>5, <2>1, <2>2, ApplyRemoveNetEdit
<1>6. CASE o.op = "reconnect_pin"
  <2>1. ApplyOperation(st, o) = ApplyReconnectPin(st, o)
    BY <1>6 DEF ApplyOperation
  <2>2. o.pin \in 1..Len(st.nl.connections) /\ o.signal \in 0..Len(st.nl.nets)
    BY <1>1, <1>6 DEF OperationFits
  <2>. QED BY <1>6, <2>1, <2>2, ApplyReconnectPinEdit
<1>7. CASE o.op = "replace_cell"
  <2>1. ApplyOperation(st, o) = ApplyReplaceCell(st, o)
    BY <1>7 DEF ApplyOperation
  <2>2. o.cell \in 1..Len(st.nl.cells)
    BY <1>1, <1>7 DEF OperationFits, WritesCell
  <2>. QED BY <1>7, <2>1, <2>2, ApplyReplaceCellEdit
<1>8. CASE o.op = "rename_cell"
  <2>1. ApplyOperation(st, o) = ApplyRenameCell(st, o)
    BY <1>8 DEF ApplyOperation
  <2>2. o.cell \in 1..Len(st.nl.cells)
    BY <1>1, <1>8 DEF OperationFits, WritesCell
  <2>. QED BY <1>8, <2>1, <2>2, ApplyRenameCellEdit
<1>9. CASE o.op = "rename_net"
  <2>1. ApplyOperation(st, o) = ApplyRenameNet(st, o)
    BY <1>9 DEF ApplyOperation
  <2>2. o.net \in 1..Len(st.nl.nets)
    BY <1>1, <1>9 DEF OperationFits, WritesNet
  <2>. QED BY <1>9, <2>1, <2>2, ApplyRenameNetEdit
<1>. QED BY <1>2, <1>3, <1>4, <1>5, <1>6, <1>7, <1>8, <1>9 DEF OperationFits

-----------------------------------------------------------------------------
(* The operations of a plan, one after the other.                          *)

\* The state t of an edit of base after k operations of a plan.
Reached(t, base, plan, k) ==
    t.nl.status = "panicked" \/ Len(t.nl.nets) = Len(base.nets) + NetsBefore(plan, k)

\* What the recursion over the operations of a plan defines.
IsApplying(applied, start, plan) ==
    applied = CHOOSE h : h = [k \in 0..Len(plan) |->
                  IF k = 0 THEN start ELSE ApplyOperation(h[k - 1], plan[k])]

\* One operation of a plan keeps the edit exact, or has panicked.
LEMMA ReachedStep ==
  ASSUME NEW base, NEW names, NEW st, Edit(st, base, names), IsSequence(names),
         NEW plan, PlanFits(base, plan), NEW k \in 1..Len(plan), Reached(st, base, plan, k - 1)
  PROVE  /\ Edit(ApplyOperation(st, plan[k]), base, names)
         /\ Reached(ApplyOperation(st, plan[k]), base, plan, k)
<1>1. CASE st.nl.status = "panicked"
  <2>1. ApplyOperation(st, plan[k]) = st
    BY <1>1 DEF ApplyOperation
  <2>. QED BY <1>1, <2>1 DEF Reached
<1>2. CASE st.nl.status # "panicked"
  <2>. DEFINE t == ApplyOperation(st, plan[k])
              b == IF plan[k].op = "add_net" THEN 1 ELSE 0
  <2>1. Len(st.nl.nets) = Len(base.nets) + NetsBefore(plan, k - 1)
    BY <1>2 DEF Reached
  <2>2. OperationFits(plan[k], base, Len(st.nl.nets))
    BY <2>1 DEF PlanFits
  <2>3. Follows(t, st, base, names, b)
    BY <1>2, <2>2, ApplyOperationEdit
  <2>4. /\ NetsBefore(plan, k - 1) \in Nat /\ NetsBefore(plan, k) \in Nat
        /\ NetsBefore(plan, k) = NetsBefore(plan, k - 1) + b
    <3>1. k \in Nat \ {0}
      BY DEF PlanFits
    <3>. QED BY <3>1, NetsBeforeStep
  <2>5. Len(base.nets) \in Nat
    BY EditLengths
  <2>6. b \in Nat
    OBVIOUS
  <2>. HIDE DEF t, b
  <2>7. Len(t.nl.nets) = Len(base.nets) + NetsBefore(plan, k)
    BY <2>1, <2>3, <2>4, <2>5, <2>6 DEF Follows
  <2>. QED BY <2>3, <2>7 DEF Follows, Reached, t
<1>. QED BY <1>1, <1>2

\* So do all of them.
LEMMA ApplyingEdit ==
  ASSUME NEW base, NEW names, NEW st, Edit(st, base, names), IsSequence(names),
         NEW plan, PlanFits(base, plan), st.nl.nets = base.nets,
         NEW applied, IsApplying(applied, st, plan)
  PROVE  Edit(applied[Len(plan)], base, names)
<1>. DEFINE n == Len(plan)
            V == Edits(base, names)
            Step(t, k) == ApplyOperation(t, plan[k])
            guarded == [k \in 1..n |-> [t \in V |->
                          IF Reached(t, base, plan, k - 1) THEN Step(t, k) ELSE t]]
<1>1. n \in Nat
  BY DEF PlanFits
<1>2. st \in V /\ WellFormed(base)
  BY DEF Edit
<1>3. ASSUME NEW t \in V PROVE Edit(t, base, names)
  BY <1>2 DEF Edit
<1>4. ASSUME NEW t, Edit(t, base, names) PROVE t \in V
  BY <1>4 DEF Edit
<1>. HIDE DEF V
<1>5. ASSUME NEW k \in 1..n, NEW t \in V, Reached(t, base, plan, k - 1)
      PROVE  Step(t, k) \in V /\ Reached(Step(t, k), base, plan, k)
  <2>1. Edit(t, base, names)
    BY <1>3
  <2>2. Edit(Step(t, k), base, names) /\ Reached(Step(t, k), base, plan, k)
    BY <1>5, <2>1, ReachedStep
  <2>. QED BY <1>4, <2>2
<1>6. Reached(st, base, plan, 0)
  <2>1. Len(base.nets) \in Nat
    BY EditLengths
  <2>. QED BY <2>1, NetsBeforeNone DEF Reached
<1>7. IsApplying(applied, st, plan) <=>
         applied = CHOOSE h : h = [k \in 0..n |-> IF k = 0 THEN st ELSE Step(h[k - 1], k)]
  BY DEF IsApplying
<1>. HIDE DEF n, Step
<1>8. guarded \in [1..n -> [V -> V]]
  BY <1>5
<1>9. PICK f \in [0..n -> V] : f[0] = st /\ \A k \in 1..n : f[k] = guarded[k][f[k - 1]]
  <2>. HIDE DEF guarded
  <2>1. IsRecursion(n, V, st, guarded)
    BY <1>1, <1>2, <1>8 DEF IsRecursion
  <2>2. Solutions(n, V, st, guarded) # {}
    BY <2>1, RecursionExists
  <2>. QED BY <2>2 DEF Solutions
<1>10. \A k \in 1..n : f[k - 1] \in V /\
         f[k] = IF Reached(f[k - 1], base, plan, k - 1) THEN Step(f[k - 1], k) ELSE f[k - 1]
  <2>1. ASSUME NEW k \in 1..n
        PROVE  f[k - 1] \in V /\ f[k] = guarded[k][f[k - 1]]
    <3>. HIDE DEF guarded
    <3>. QED BY <1>1, <1>9
  <2>. QED BY <2>1
<1>11. \A k \in 0..n : Reached(f[k], base, plan, k)
  <2>. DEFINE S == {k \in 0..n : Reached(f[k], base, plan, k)}
  <2>1. 0 \in S
    <3>. HIDE DEF guarded
    <3>. QED BY <1>1, <1>6, <1>9
  <2>2. ASSUME NEW k \in 1..n, k - 1 \in S PROVE k \in S
    <3>1. Reached(f[k - 1], base, plan, k - 1)
      BY <2>2
    <3>2. f[k - 1] \in V /\ f[k] = Step(f[k - 1], k)
      BY <1>10, <3>1
    <3>3. Reached(Step(f[k - 1], k), base, plan, k)
      BY <1>5, <3>1, <3>2
    <3>. QED BY <1>1, <3>2, <3>3
  <2>3. 0..n \subseteq S
    <3>. HIDE DEF S
    <3>. QED BY <1>1, <2>1, <2>2, PositionInduction
  <2>. QED BY <2>3
<1>12. f = [k \in 0..n |-> IF k = 0 THEN st ELSE Step(f[k - 1], k)]
  <2>1. ASSUME NEW k \in 1..n PROVE f[k] = Step(f[k - 1], k)
    <3>1. k - 1 \in 0..n
      BY <1>1
    <3>. QED BY <1>10, <1>11, <3>1
  <2>. HIDE DEF guarded
  <2>. QED BY <1>9, <2>1
<1>13. applied = [k \in 0..n |-> IF k = 0 THEN st ELSE Step(applied[k - 1], k)]
  BY <1>7, <1>12
<1>14. /\ applied[0] = st
       /\ \A k \in 1..n : applied[k] = Step(applied[k - 1], k)
  BY <1>1, <1>13
<1>15. applied[n] \in V
  <2>. DEFINE S == {k \in 0..n : applied[k] \in V /\ Reached(applied[k], base, plan, k)}
  <2>1. 0 \in S
    BY <1>1, <1>2, <1>6, <1>14
  <2>2. ASSUME NEW k \in 1..n, k - 1 \in S PROVE k \in S
    <3>1. applied[k - 1] \in V /\ Reached(applied[k - 1], base, plan, k - 1)
      BY <2>2
    <3>2. applied[k] = Step(applied[k - 1], k)
      BY <1>14
    <3>3. Step(applied[k - 1], k) \in V /\ Reached(Step(applied[k - 1], k), base, plan, k)
      BY <1>5, <3>1
    <3>. QED BY <1>1, <3>2, <3>3
  <2>3. 0..n \subseteq S
    <3>. HIDE DEF S
    <3>. QED BY <1>1, <2>1, <2>2, PositionInduction
  <2>. QED BY <1>1, <2>3
<1>. QED BY <1>3, <1>15 DEF n

-----------------------------------------------------------------------------
(***************************************************************************)
(* The whole edit and its rollback.                                        *)
(***************************************************************************)

\* A netlist is the record of its fields.
Fields(status, generation, revision, names, nets, netCount, cells, cellCount, connections,
       owners, links, ends, boundary, external, instances) ==
    [status |-> status, generation |-> generation, edit_revision |-> revision, names |-> names,
     nets |-> nets, live_net_count |-> netCount, cells |-> cells, live_cell_count |-> cellCount,
     connections |-> connections, pin_owners |-> owners, pin_links |-> links,
     net_pins |-> ends, boundary |-> boundary, external_nets |-> external,
     instances |-> instances]

\* A netlist is its fields.
LEMMA NetlistFields ==
  ASSUME NEW base, NEW nl \in NetlistsOf(base)
  PROVE  nl = Fields(nl.status, nl.generation, nl.edit_revision, nl.names, nl.nets,
                     nl.live_net_count, nl.cells, nl.live_cell_count, nl.connections,
                     nl.pin_owners, nl.pin_links, nl.net_pins, nl.boundary,
                     nl.external_nets, nl.instances)
BY DEF NetlistsOf, Fields

\* A netlist that takes over the arenas, counters, names and revision of another.
Reset(nl, other) ==
    [nl EXCEPT !.connections = other.connections, !.pin_owners = other.pin_owners,
               !.pin_links = other.pin_links, !.cells = other.cells, !.nets = other.nets,
               !.net_pins = other.net_pins, !.live_net_count = other.live_net_count,
               !.live_cell_count = other.live_cell_count, !.names = other.names,
               !.edit_revision = other.edit_revision]

\* A netlist that takes everything over from another is that other one.
LEMMA ResetIs ==
  ASSUME NEW base, NEW nl \in NetlistsOf(base), NEW from, NEW other \in NetlistsOf(from),
         nl.status = other.status, nl.generation = other.generation,
         nl.boundary = other.boundary, nl.external_nets = other.external_nets,
         nl.instances = other.instances
  PROVE  Reset(nl, other) = other
<1>. DEFINE s1 == [nl EXCEPT !.connections = other.connections]
            s2 == [s1 EXCEPT !.pin_owners = other.pin_owners]
            s3 == [s2 EXCEPT !.pin_links = other.pin_links]
            s4 == [s3 EXCEPT !.cells = other.cells]
            s5 == [s4 EXCEPT !.nets = other.nets]
            s6 == [s5 EXCEPT !.net_pins = other.net_pins]
            s7 == [s6 EXCEPT !.live_net_count = other.live_net_count]
            s8 == [s7 EXCEPT !.live_cell_count = other.live_cell_count]
            s9 == [s8 EXCEPT !.names = other.names]
            s10 == [s9 EXCEPT !.edit_revision = other.edit_revision]
<1>0. nl = Fields(nl.status, nl.generation, nl.edit_revision, nl.names, nl.nets,
                  nl.live_net_count, nl.cells, nl.live_cell_count, nl.connections,
                  nl.pin_owners, nl.pin_links, nl.net_pins, nl.boundary, nl.external_nets,
                  nl.instances)
  BY NetlistFields
<1>1. s1 = Fields(nl.status, nl.generation, nl.edit_revision, nl.names, nl.nets,
                  nl.live_net_count, nl.cells, nl.live_cell_count, other.connections,
                  nl.pin_owners, nl.pin_links, nl.net_pins, nl.boundary, nl.external_nets,
                  nl.instances)
  BY <1>0 DEF Fields
<1>. HIDE DEF s1
<1>2. s2 = Fields(nl.status, nl.generation, nl.edit_revision, nl.names, nl.nets,
                  nl.live_net_count, nl.cells, nl.live_cell_count, other.connections,
                  other.pin_owners, nl.pin_links, nl.net_pins, nl.boundary,
                  nl.external_nets, nl.instances)
  BY <1>1 DEF Fields
<1>. HIDE DEF s2
<1>3. s3 = Fields(nl.status, nl.generation, nl.edit_revision, nl.names, nl.nets,
                  nl.live_net_count, nl.cells, nl.live_cell_count, other.connections,
                  other.pin_owners, other.pin_links, nl.net_pins, nl.boundary,
                  nl.external_nets, nl.instances)
  BY <1>2 DEF Fields
<1>. HIDE DEF s3
<1>4. s4 = Fields(nl.status, nl.generation, nl.edit_revision, nl.names, nl.nets,
                  nl.live_net_count, other.cells, nl.live_cell_count, other.connections,
                  other.pin_owners, other.pin_links, nl.net_pins, nl.boundary,
                  nl.external_nets, nl.instances)
  BY <1>3 DEF Fields
<1>. HIDE DEF s4
<1>5. s5 = Fields(nl.status, nl.generation, nl.edit_revision, nl.names, other.nets,
                  nl.live_net_count, other.cells, nl.live_cell_count, other.connections,
                  other.pin_owners, other.pin_links, nl.net_pins, nl.boundary,
                  nl.external_nets, nl.instances)
  BY <1>4 DEF Fields
<1>. HIDE DEF s5
<1>6. s6 = Fields(nl.status, nl.generation, nl.edit_revision, nl.names, other.nets,
                  nl.live_net_count, other.cells, nl.live_cell_count, other.connections,
                  other.pin_owners, other.pin_links, other.net_pins, nl.boundary,
                  nl.external_nets, nl.instances)
  BY <1>5 DEF Fields
<1>. HIDE DEF s6
<1>7. s7 = Fields(nl.status, nl.generation, nl.edit_revision, nl.names, other.nets,
                  other.live_net_count, other.cells, nl.live_cell_count,
                  other.connections, other.pin_owners, other.pin_links, other.net_pins,
                  nl.boundary, nl.external_nets, nl.instances)
  BY <1>6 DEF Fields
<1>. HIDE DEF s7
<1>8. s8 = Fields(nl.status, nl.generation, nl.edit_revision, nl.names, other.nets,
                  other.live_net_count, other.cells, other.live_cell_count,
                  other.connections, other.pin_owners, other.pin_links, other.net_pins,
                  nl.boundary, nl.external_nets, nl.instances)
  BY <1>7 DEF Fields
<1>. HIDE DEF s8
<1>9. s9 = Fields(nl.status, nl.generation, nl.edit_revision, other.names, other.nets,
                  other.live_net_count, other.cells, other.live_cell_count,
                  other.connections, other.pin_owners, other.pin_links, other.net_pins,
                  nl.boundary, nl.external_nets, nl.instances)
  BY <1>8 DEF Fields
<1>. HIDE DEF s9
<1>10. s10 = Fields(nl.status, nl.generation, other.edit_revision, other.names, other.nets,
                  other.live_net_count, other.cells, other.live_cell_count,
                  other.connections, other.pin_owners, other.pin_links, other.net_pins,
                  nl.boundary, nl.external_nets, nl.instances)
  BY <1>9 DEF Fields
<1>. HIDE DEF s10
<1>11. Reset(nl, other) = s10
  BY DEF Reset, s1, s2, s3, s4, s5, s6, s7, s8, s9, s10
<1>. QED BY <1>10, <1>11, NetlistFields

\* An edit starts with nothing saved.
LEMMA NothingSaved ==
  ASSUME NEW S
  PROVE  <<>> \in Partial(S)
<1>1. <<>> \in [{} -> S] /\ {} \in SUBSET Nat
  OBVIOUS
<1>. QED BY <1>1 DEF Partial

\* An empty undo record is exact for an arena nobody has written.
LEMMA NothingSavedKept ==
  ASSUME NEW S, NEW seq \in Seq(S)
  PROVE  Kept(seq, <<>>, seq)
<1>1. DOMAIN <<>> = {} /\ Len(seq) \in Nat
  BY LenProperties
<1>. QED BY <1>1 DEF Kept

\* The start of an edit: the names are interned, nothing is saved.
LEMMA StartEdit ==
  ASSUME NEW nl, WellFormed(nl), NEW names
  PROVE  /\ Edit([nl |-> [nl EXCEPT !.names = names], ap |-> NewUndo(nl)], nl, names)
         /\ [nl EXCEPT !.names = names].nets = nl.nets
<1>. DEFINE new == [nl EXCEPT !.names = names]
            ap == NewUndo(nl)
            t == [nl |-> new, ap |-> ap]
<1>1. /\ nl \in NetlistsOf(nl) /\ ArenasFit(nl)
      /\ nl.nets \in Seq(NetRow) /\ nl.cells \in Seq(CellRow)
      /\ nl.connections \in Seq(Nat) /\ nl.pin_owners \in Seq(Nat)
      /\ nl.pin_links \in Seq(LinkRow) /\ nl.net_pins \in Seq(EndsRow)
  BY BaseTypes DEF WellFormed
<1>2. /\ new \in NetlistsOf(new) /\ new.nets = nl.nets /\ new.cells = nl.cells
      /\ new.connections = nl.connections /\ new.pin_owners = nl.pin_owners
      /\ new.pin_links = nl.pin_links /\ new.net_pins = nl.net_pins
  BY <1>1 DEF NetlistsOf
<1>3. /\ ap \in UndosOf(nl) /\ ap.old_nets = <<>> /\ ap.old_cells = <<>>
      /\ ap.old_connections = <<>> /\ ap.old_net_pins = <<>> /\ ap.old_pin_links = <<>>
  <2>1. /\ <<>> \in Partial(NetRow) /\ <<>> \in Partial(CellRow) /\ <<>> \in Partial(Nat)
        /\ <<>> \in Partial(EndsRow) /\ <<>> \in Partial(LinkRow)
        /\ <<>> \in Seq(Nat) /\ {} \in SUBSET Nat
    BY NothingSaved
  <2>. QED BY <2>1 DEF NewUndo, UndosOf
<1>4. t.nl = new /\ t.ap = ap
  OBVIOUS
<1>5. new = [nl EXCEPT !.names = names]
  OBVIOUS
<1>. HIDE DEF new, ap, t
<1>6. ArenasFit(new)
  BY <1>1, <1>2 DEF ArenasFit
<1>7. /\ Kept(nl.connections, <<>>, nl.connections) /\ Kept(nl.pin_owners, <<>>, nl.pin_owners)
      /\ Kept(nl.pin_links, <<>>, nl.pin_links) /\ Kept(nl.cells, <<>>, nl.cells)
      /\ Kept(nl.nets, <<>>, nl.nets) /\ Kept(nl.net_pins, <<>>, nl.net_pins)
  BY <1>1, NothingSavedKept
<1>8. UndoExact(t, nl)
  BY <1>2, <1>3, <1>4, <1>7 DEF UndoExact
<1>9. new \in NetlistsOf([nl EXCEPT !.names = names])
  BY <1>2 DEF new
<1>10. Edit(t, nl, names)
  BY <1>3, <1>6, <1>8, <1>9, EditFromParts DEF t
<1>. QED BY <1>2, <1>10 DEF t, new, ap

\* What an applied edit of nl leaves in the netlist and in the undo record.
EditDone(done, nl) ==
    /\ done.nl.status \in {"editable", "panicked"}
    /\ done.nl.generation = nl.generation
    /\ done.nl.edit_revision = nl.edit_revision + 1
    /\ WellFormed(done.nl)
    /\ done.ap.generation = nl.generation
    /\ done.ap.committed_revision = nl.edit_revision + 1
    /\ done.ap.before = nl
    /\ done.nl.status = "editable" => RolledBack(done.nl, done.ap) = nl

\* The counters and the revision are written last.
LEMMA FinishEdit ==
  ASSUME NEW nl, WellFormed(nl), nl.status = "editable", NEW names, IsSequence(names),
         Extends(names, nl.names), NEW u, Edit(u, nl, names),
         NEW netCount, NEW cellCount, NEW renamed \in SUBSET Nat, NEW done,
         done = [nl |-> [u.nl EXCEPT !.live_net_count = netCount,
                                     !.live_cell_count = cellCount,
                                     !.edit_revision = nl.edit_revision + 1],
                 ap |-> [u.ap EXCEPT !.renamed_nets = renamed]]
  PROVE  EditDone(done, nl)
<1>. DEFINE d == [u.nl EXCEPT !.live_net_count = netCount, !.live_cell_count = cellCount,
                              !.edit_revision = nl.edit_revision + 1]
            a == [u.ap EXCEPT !.renamed_nets = renamed]
<1>1. /\ u.nl \in NetlistsOf([nl EXCEPT !.names = names]) /\ u.ap \in UndosOf(nl)
      /\ ArenasFit(u.nl) /\ UndoExact(u, nl) /\ nl \in NetlistsOf(nl)
      /\ nl.generation \in Nat /\ nl.edit_revision \in Nat /\ IsSequence(nl.names)
  BY EditParts DEF WellFormed
<1>2. /\ done.nl = d /\ done.ap = a
  OBVIOUS
<1>3. /\ u.nl.generation = nl.generation /\ u.nl.names = names /\ u.nl.boundary = nl.boundary
      /\ u.nl.external_nets = nl.external_nets /\ u.nl.instances = nl.instances
      /\ u.nl.status \in {"editable", "panicked"}
  <2>. DEFINE b == [nl EXCEPT !.names = names]
  <2>1. /\ b.generation = nl.generation /\ b.names = names /\ b.boundary = nl.boundary
        /\ b.external_nets = nl.external_nets /\ b.instances = nl.instances
    BY <1>1 DEF NetlistsOf
  <2>2. u.nl \in NetlistsOf(b)
    BY <1>1
  <2>. HIDE DEF b
  <2>. QED BY <2>1, <2>2 DEF NetlistsOf
<1>4. /\ d \in NetlistsOf(d) /\ d.edit_revision = nl.edit_revision + 1
      /\ d.generation = nl.generation /\ d.names = names /\ d.boundary = nl.boundary
      /\ d.external_nets = nl.external_nets /\ d.instances = nl.instances
      /\ d.status = u.nl.status
      /\ d.nets = u.nl.nets /\ d.cells = u.nl.cells /\ d.connections = u.nl.connections
      /\ d.pin_owners = u.nl.pin_owners /\ d.pin_links = u.nl.pin_links
      /\ d.net_pins = u.nl.net_pins
  BY <1>1, <1>3 DEF NetlistsOf
<1>5. /\ a.generation = nl.generation /\ a.committed_revision = nl.edit_revision + 1
      /\ a.before = nl /\ a.previous_revision = nl.edit_revision
      /\ a.net_count = nl.live_net_count /\ a.cell_count = nl.live_cell_count
      /\ a.net_len = Len(nl.nets) /\ a.cell_len = Len(nl.cells)
      /\ a.connection_len = Len(nl.connections) /\ a.names_len = Len(nl.names)
      /\ a.old_nets = u.ap.old_nets /\ a.old_cells = u.ap.old_cells
      /\ a.old_connections = u.ap.old_connections /\ a.old_net_pins = u.ap.old_net_pins
      /\ a.old_pin_links = u.ap.old_pin_links
  BY <1>1 DEF UndosOf
<1>. HIDE DEF d, a
<1>6. ArenasFit(d)
  BY <1>1, <1>4 DEF ArenasFit
<1>7. WellFormed(d)
  BY <1>1, <1>4, <1>6 DEF WellFormed
<1>8. ASSUME d.status = "editable" PROVE RolledBack(d, a) = nl
  <2>1. /\ nl.nets \in Seq(NetRow) /\ nl.cells \in Seq(CellRow)
        /\ nl.connections \in Seq(Nat) /\ nl.pin_owners \in Seq(Nat)
        /\ nl.pin_links \in Seq(LinkRow) /\ nl.net_pins \in Seq(EndsRow) /\ ArenasFit(nl)
    BY BaseTypes
  <2>2. u.nl.pin_owners \in Seq(Nat)
    BY EditTypes
  <2>3. /\ Kept(d.connections, a.old_connections, nl.connections)
        /\ Kept(d.pin_owners, <<>>, nl.pin_owners)
        /\ Kept(d.pin_links, a.old_pin_links, nl.pin_links)
        /\ Kept(d.cells, a.old_cells, nl.cells)
        /\ Kept(d.nets, a.old_nets, nl.nets)
        /\ Kept(d.net_pins, a.old_net_pins, nl.net_pins)
    BY <1>1, <1>4, <1>5 DEF UndoExact
  <2>4. Len(nl.pin_links) = Len(nl.connections) /\ Len(nl.net_pins) = Len(nl.nets)
        /\ Len(nl.pin_owners) = Len(nl.connections)
    BY <2>1 DEF ArenasFit
  <2>5. /\ Restored(d.connections, a.connection_len, a.old_connections) = nl.connections
        /\ Restored(d.pin_links, a.connection_len, a.old_pin_links) = nl.pin_links
        /\ Restored(d.cells, a.cell_len, a.old_cells) = nl.cells
        /\ Restored(d.nets, a.net_len, a.old_nets) = nl.nets
        /\ Restored(d.net_pins, a.net_len, a.old_net_pins) = nl.net_pins
    <3>1. /\ Restored(d.connections, Len(nl.connections), a.old_connections) = nl.connections
          /\ Restored(d.pin_links, Len(nl.pin_links), a.old_pin_links) = nl.pin_links
          /\ Restored(d.cells, Len(nl.cells), a.old_cells) = nl.cells
          /\ Restored(d.nets, Len(nl.nets), a.old_nets) = nl.nets
          /\ Restored(d.net_pins, Len(nl.net_pins), a.old_net_pins) = nl.net_pins
      BY <2>1, <2>3, RestoredIs
    <3>. QED BY <1>5, <2>4, <3>1
  <2>6. SubSeq(d.pin_owners, 1, a.connection_len) = nl.pin_owners
    <3>1. Extends(d.pin_owners, nl.pin_owners)
      <4>1. DOMAIN <<>> = {}
        OBVIOUS
      <4>. QED BY <2>3, <4>1 DEF Kept, Extends
    <3>2. d.pin_owners \in Seq(Nat)
      BY <1>4, <2>2
    <3>3. SubSeq(d.pin_owners, 1, Len(nl.pin_owners)) = nl.pin_owners
      BY <2>1, <3>1, <3>2, SubSeqIs
    <3>. QED BY <1>5, <2>4, <3>3
  <2>7. SubSeq(d.names, 1, a.names_len) = nl.names
    <3>. DEFINE U == {names[i] : i \in DOMAIN names}
                W == {nl.names[i] : i \in DOMAIN nl.names}
    <3>1. names \in Seq(U) /\ nl.names \in Seq(W)
      BY <1>1 DEF IsSequence
    <3>2. names \in Seq(U \cup W) /\ nl.names \in Seq(U \cup W)
      <4>. HIDE DEF U, W
      <4>. QED BY <3>1, SeqMonotonic
    <3>. HIDE DEF U, W
    <3>3. SubSeq(names, 1, Len(nl.names)) = nl.names
      BY <3>2, SubSeqIs
    <3>. QED BY <1>4, <1>5, <3>3
  <2>8. RolledBack(d, a) = Reset(d, nl)
    <3>1. /\ a.net_count = nl.live_net_count /\ a.cell_count = nl.live_cell_count
          /\ a.previous_revision = nl.edit_revision
      BY <1>5
    <3>. QED BY <2>5, <2>6, <2>7, <3>1 DEF RolledBack, Reset
  <2>9. Reset(d, nl) = nl
    BY <1>1, <1>4, <1>8, ResetIs
  <2>. QED BY <2>8, <2>9
<1>. QED BY <1>2, <1>3, <1>4, <1>5, <1>7, <1>8 DEF EditDone

\* apply_region_delta leaves a netlist that its undo record brings back.
LEMMA AppliedRestores ==
  ASSUME NEW nl, WellFormed(nl), nl.status = "editable", NEW plan, PlanFits(nl, plan)
  PROVE  EditDone(Applied(nl, plan), nl)
<1>. DEFINE names == InternPlan(nl.names, plan)
            start == [nl |-> [nl EXCEPT !.names = names], ap |-> NewUndo(nl)]
            applied[k \in 0..Len(plan)] ==
                IF k = 0 THEN start ELSE ApplyOperation(applied[k - 1], plan[k])
            u == applied[Len(plan)]
            renamed == {n \in u.ap.renamed_nets : u.nl.nets[n].live
                                  /\ u.ap.old_nets[n].name # u.nl.nets[n].name}
            netCount == u.nl.live_net_count - Count(plan, "remove_net") + Count(plan, "add_net")
            cellCount == u.nl.live_cell_count - Count(plan, "remove_cell")
                             + Count(plan, "add_cell")
            done == [nl |-> [u.nl EXCEPT !.live_net_count = netCount,
                                     !.live_cell_count = cellCount,
                                     !.edit_revision = nl.edit_revision + 1],
                     ap |-> [u.ap EXCEPT !.renamed_nets = renamed]]
<1>1. IsSequence(names) /\ Extends(names, nl.names)
  BY InternPlanExtends DEF WellFormed, PlanFits
<1>2. Applied(nl, plan)
        = [u EXCEPT !.ap.renamed_nets = renamed,
                    !.nl.live_net_count = @ - Count(plan, "remove_net") + Count(plan, "add_net"),
                    !.nl.live_cell_count = @ - Count(plan, "remove_cell")
                                             + Count(plan, "add_cell"),
                    !.nl.edit_revision = u.ap.committed_revision]
  BY DEF Applied
<1>3. IsApplying(applied, start, plan)
  BY DEF IsApplying
<1>. HIDE DEF names
<1>4. Edit(start, nl, names) /\ start.nl.nets = nl.nets
  BY StartEdit
<1>. HIDE DEF start, applied
<1>5. Edit(u, nl, names)
  BY <1>1, <1>3, <1>4, ApplyingEdit
<1>. HIDE DEF u
<1>6. /\ u = [nl |-> u.nl, ap |-> u.ap] /\ u.ap \in UndosOf(nl)
      /\ u.nl \in NetlistsOf([nl EXCEPT !.names = names])
  BY <1>5, EditParts
<1>7. u.ap.committed_revision = nl.edit_revision + 1 /\ u.ap.renamed_nets \in SUBSET Nat
  BY <1>6 DEF UndosOf
<1>8. renamed \in SUBSET Nat
  BY <1>7
<1>9. Applied(nl, plan) = done
  <2>. DEFINE a == [u.ap EXCEPT !.renamed_nets = renamed]
              one == [u.nl EXCEPT !.live_net_count = netCount]
              two == [one EXCEPT !.live_cell_count = cellCount]
              three == [two EXCEPT !.edit_revision = u.ap.committed_revision]
  <2>2. [u EXCEPT !.ap.renamed_nets = renamed,
                  !.nl.live_net_count = @ - Count(plan, "remove_net") + Count(plan, "add_net"),
                  !.nl.live_cell_count = @ - Count(plan, "remove_cell")
                                             + Count(plan, "add_cell"),
                  !.nl.edit_revision = u.ap.committed_revision]
         = [nl |-> three, ap |-> a]
    <3>. DEFINE v1 == [u EXCEPT !.ap.renamed_nets = renamed]
                v2 == [v1 EXCEPT !.nl.live_net_count = netCount]
                v3 == [v2 EXCEPT !.nl.live_cell_count = cellCount]
                v4 == [v3 EXCEPT !.nl.edit_revision = u.ap.committed_revision]
    <3>1. v1 = [nl |-> u.nl, ap |-> a]
      <4>. HIDE DEF renamed
      <4>. QED BY <1>6
    <3>. HIDE DEF v1, a
    <3>2. v2 = [nl |-> one, ap |-> a]
      BY <3>1
    <3>. HIDE DEF v2, one
    <3>3. v3 = [nl |-> two, ap |-> a]
      BY <3>2
    <3>. HIDE DEF v3, two
    <3>4. v4 = [nl |-> three, ap |-> a]
      BY <3>3
    <3>. HIDE DEF three
    <3>. QED BY <3>4 DEF v1, v2, v3
  <2>3. done = [nl |-> [two EXCEPT !.edit_revision = nl.edit_revision + 1], ap |-> a]
    OBVIOUS
  <2>. HIDE DEF renamed, netCount, cellCount, one, two, a, done
  <2>. QED BY <1>2, <1>7, <2>2, <2>3
<1>10. done = [nl |-> [u.nl EXCEPT !.live_net_count = netCount,
                                   !.live_cell_count = cellCount,
                                   !.edit_revision = nl.edit_revision + 1],
               ap |-> [u.ap EXCEPT !.renamed_nets = renamed]]
  OBVIOUS
<1>. HIDE DEF done, renamed, netCount, cellCount
<1>11. EditDone(done, nl)
  BY <1>1, <1>5, <1>8, <1>10, FinishEdit
<1>. QED BY <1>9, <1>11

-----------------------------------------------------------------------------
(***************************************************************************)
(* Accepted plans: every slot they name exists when it is reached.         *)
(***************************************************************************)

\* The operations a resolved plan is made of.
Operations(nl) ==
    [op : {"add_net"}, name : NetNames]
    \cup [op : {"add_cell"}, name : CellNames, type : CellTypes, signals : Seq(Nat)]
    \cup [op : {"remove_cell"}, cell : Cells(nl)]
    \cup [op : {"remove_net"}, net : Nets(nl)]
    \cup [op : {"reconnect_pin"}, pin : Pins(nl), signal : Nat]
    \cup [op : {"replace_cell"}, cell : Cells(nl), type : CellTypes]
    \cup [op : {"rename_cell"}, cell : Cells(nl), name : CellNames]
    \cup [op : {"rename_net"}, net : Nets(nl), name : NetNames]

ResolvedOperation(nl, o) ==
    CASE o.op = "add_cell" ->
             [o EXCEPT !.signals = [k \in DOMAIN o.signals |-> ResolveSignal(nl, o.signals[k])]]
      [] o.op = "reconnect_pin" -> [o EXCEPT !.signal = ResolveSignal(nl, o.signal)]
      [] OTHER -> o

\* Resolution looks at one operation at a time.
LEMMA ResolveIs ==
  ASSUME NEW nl, NEW plan
  PROVE  Resolve(nl, plan) = [i \in DOMAIN plan |-> ResolvedOperation(nl, plan[i])]
BY DEF Resolve, ResolvedOperation

\* The snapshot is of slots of the netlist.
Covers(nl, s) == DOMAIN s.cells \subseteq Cells(nl) /\ DOMAIN s.nets \subseteq Nets(nl)

\* What is resolved stays as it is.
LEMMA ResolvedStays ==
  ASSUME NEW nl, NEW o \in Operations(nl)
  PROVE  ResolvedOperation(nl, o) = o
<1>1. CASE o \in [op : {"add_cell"}, name : CellNames, type : CellTypes, signals : Seq(Nat)]
  <2>. DEFINE new == [k \in DOMAIN o.signals |-> ResolveSignal(nl, o.signals[k])]
  <2>1. o.op = "add_cell" /\ o.signals \in Seq(Nat)
    BY <1>1
  <2>2. o.signals \in [1..Len(o.signals) -> Nat]
    BY <2>1, LenProperties
  <2>3. new = o.signals
    BY <2>2 DEF ResolveSignal
  <2>. HIDE DEF new
  <2>4. [o EXCEPT !.signals = new] = o
    BY <1>1, <2>3
  <2>. QED BY <2>1, <2>4 DEF ResolvedOperation, new
<1>2. CASE o \in [op : {"reconnect_pin"}, pin : Pins(nl), signal : Nat]
  <2>1. o.op = "reconnect_pin" /\ o.signal \in Nat
    BY <1>2
  <2>2. ResolveSignal(nl, o.signal) = o.signal
    BY <2>1 DEF ResolveSignal
  <2>3. [o EXCEPT !.signal = o.signal] = o
    BY <1>2
  <2>. QED BY <2>1, <2>2, <2>3 DEF ResolvedOperation
<1>3. CASE o.op # "add_cell" /\ o.op # "reconnect_pin"
  BY <1>3 DEF ResolvedOperation
<1>. QED BY <1>1, <1>2, <1>3 DEF Operations

\* A signal of a plan resolves to a net that exists, or will by then.
LEMMA SignalRefsResolved ==
  ASSUME NEW nl, Len(nl.nets) \in Nat, NEW s, Covers(nl, s), NEW n \in Nat,
         NEW signal \in SignalRefs(s, n)
  PROVE  ResolveSignal(nl, signal) \in 0..Len(nl.nets) + n
<1>1. CASE signal \in DOMAIN s.nets \cup {Constant}
  BY <1>1 DEF Covers, ResolveSignal, Constant, Nets
<1>2. CASE signal \in {-k : k \in 1..n}
  <2>1. PICK k \in 1..n : signal = -k
    BY <1>2
  <2>. DEFINE len == Len(nl.nets)
  <2>2. len \in Nat /\ k \in Nat /\ k >= 1 /\ k <= n
    OBVIOUS
  <2>3. ResolveSignal(nl, signal) = IF -k < 0 THEN len - (-k) ELSE -k
    BY <2>1 DEF ResolveSignal
  <2>. HIDE DEF len
  <2>4. -k < 0 /\ len - (-k) \in 0..len + n
    BY <2>2
  <2>. QED BY <2>3, <2>4 DEF len
<1>. QED BY <1>1, <1>2 DEF SignalRefs

\* An operation the planning interface accepts refers, once resolved, to slots
\* of the netlist and to nets that the plan has added before.
LEMMA NextOperationFits ==
  ASSUME NEW nl, Len(nl.nets) \in Nat, NEW s, Covers(nl, s), NEW plan,
         Count(plan, "add_net") \in Nat, NEW o \in NextOperations(nl, s, plan)
  PROVE  /\ ResolvedOperation(nl, o) \in Operations(nl)
         /\ OperationFits(ResolvedOperation(nl, o), nl, Len(nl.nets) + Count(plan, "add_net"))
<1>. DEFINE n == Count(plan, "add_net")
            signals == SignalRefs(s, n)
            r == ResolvedOperation(nl, o)
<1>1. n \in Nat /\ \A signal \in signals : ResolveSignal(nl, signal) \in 0..Len(nl.nets) + n
  BY SignalRefsResolved
<1>2. \/ o \in [op : {"add_net"}, name : NetNames]
      \/ o \in [op : {"add_cell"}, name : CellNames, type : CellTypes,
                signals : UNION {[1..k -> signals] : k \in AddedArities}]
      \/ o \in [op : {"remove_cell"}, cell : DOMAIN s.cells]
      \/ o \in [op : {"remove_net"}, net : DOMAIN s.nets]
      \/ o \in [op : {"reconnect_pin"}, pin : Pins(nl), signal : signals]
      \/ o \in [op : {"replace_cell"}, cell : DOMAIN s.cells, type : CellTypes]
      \/ o \in [op : {"rename_cell"}, cell : DOMAIN s.cells, name : CellNames]
      \/ o \in [op : {"rename_net"}, net : DOMAIN s.nets, name : NetNames]
  BY DEF NextOperations
<1>. HIDE DEF signals, n
<1>3. CASE o \in [op : {"add_cell"}, name : CellNames, type : CellTypes,
                  signals : UNION {[1..k -> signals] : k \in AddedArities}]
  <2>. DEFINE new == [k \in DOMAIN o.signals |-> ResolveSignal(nl, o.signals[k])]
  <2>1. o.op = "add_cell" /\ o.signals \in UNION {[1..k -> signals] : k \in AddedArities}
    BY <1>3
  <2>2. PICK k \in Nat : o.signals \in [1..k -> signals]
    BY <2>1, PlansAssumption
  <2>3. new \in [1..k -> 0..Len(nl.nets) + n]
    BY <1>1, <2>2
  <2>4. new \in Seq(0..Len(nl.nets) + n)
    <3>. HIDE DEF new
    <3>. QED BY <2>3, SeqDef
  <2>5. new \in Seq(Nat)
    <3>. HIDE DEF new
    <3>1. 0..Len(nl.nets) + n \subseteq Nat
      BY <1>1
    <3>. QED BY <2>4, <3>1, SeqMonotonic
  <2>. HIDE DEF new
  <2>6. r = [o EXCEPT !.signals = new]
    BY <2>1 DEF ResolvedOperation, new
  <2>7. r \in [op : {"add_cell"}, name : CellNames, type : CellTypes, signals : Seq(Nat)]
        /\ r.signals = new
    <3>1. [o EXCEPT !.signals = new]
            \in [op : {"add_cell"}, name : CellNames, type : CellTypes, signals : Seq(Nat)]
          /\ [o EXCEPT !.signals = new].signals = new
      BY <1>3, <2>5
    <3>. QED BY <2>6, <3>1
  <2>. HIDE DEF r
  <2>8. r.op = "add_cell"
    BY <2>7
  <2>9. OperationFits(r, nl, Len(nl.nets) + n)
    BY <2>4, <2>7, <2>8 DEF OperationFits, WritesCell, WritesNet
  <2>. QED BY <2>7, <2>9 DEF Operations, r, n
<1>4. CASE o \in [op : {"reconnect_pin"}, pin : Pins(nl), signal : signals]
  <2>. DEFINE new == ResolveSignal(nl, o.signal)
  <2>1. o.op = "reconnect_pin" /\ o.signal \in signals /\ o.pin \in Pins(nl)
    BY <1>4
  <2>2. new \in 0..Len(nl.nets) + n /\ new \in Nat
    BY <1>1, <2>1
  <2>. HIDE DEF new
  <2>3. r = [o EXCEPT !.signal = new]
    BY <2>1 DEF ResolvedOperation, new
  <2>4. r \in [op : {"reconnect_pin"}, pin : Pins(nl), signal : Nat] /\ r.signal = new
    <3>1. [o EXCEPT !.signal = new] \in [op : {"reconnect_pin"}, pin : Pins(nl), signal : Nat]
          /\ [o EXCEPT !.signal = new].signal = new
      BY <1>4, <2>2
    <3>. QED BY <2>3, <3>1
  <2>. HIDE DEF r
  <2>5. r.op = "reconnect_pin" /\ r.pin \in 1..Len(nl.connections)
    BY <2>4 DEF Pins
  <2>6. OperationFits(r, nl, Len(nl.nets) + n)
    BY <2>2, <2>4, <2>5 DEF OperationFits, WritesCell, WritesNet
  <2>. QED BY <2>4, <2>6 DEF Operations, r, n
<1>5. ASSUME o.op # "add_cell", o.op # "reconnect_pin" PROVE r = o
  BY <1>5 DEF ResolvedOperation
<1>6. DOMAIN s.cells \subseteq Cells(nl) /\ DOMAIN s.nets \subseteq Nets(nl)
  BY DEF Covers
<1>7. CASE o \in [op : {"add_net"}, name : NetNames]
  <2>1. r = o /\ o.op = "add_net"
    BY <1>5, <1>7
  <2>. HIDE DEF r
  <2>2. OperationFits(o, nl, Len(nl.nets) + n)
    BY <2>1 DEF OperationFits, WritesCell, WritesNet
  <2>. QED BY <1>7, <2>1, <2>2 DEF Operations, r, n
<1>8. CASE \/ o \in [op : {"remove_cell"}, cell : DOMAIN s.cells]
           \/ o \in [op : {"replace_cell"}, cell : DOMAIN s.cells, type : CellTypes]
           \/ o \in [op : {"rename_cell"}, cell : DOMAIN s.cells, name : CellNames]
  <2>1. /\ o.op \in WritesCell /\ o.op \notin WritesNet /\ o.cell \in 1..Len(nl.cells)
        /\ o.op # "add_cell" /\ o.op # "reconnect_pin"
    BY <1>6, <1>8 DEF Cells, WritesCell, WritesNet
  <2>2. r = o
    BY <1>5, <2>1
  <2>3. \/ o \in [op : {"remove_cell"}, cell : Cells(nl)]
        \/ o \in [op : {"replace_cell"}, cell : Cells(nl), type : CellTypes]
        \/ o \in [op : {"rename_cell"}, cell : Cells(nl), name : CellNames]
    BY <1>6, <1>8
  <2>. HIDE DEF r
  <2>4. OperationFits(o, nl, Len(nl.nets) + n)
    BY <2>1 DEF OperationFits, WritesCell
  <2>. QED BY <2>2, <2>3, <2>4 DEF Operations, r, n
<1>9. CASE \/ o \in [op : {"remove_net"}, net : DOMAIN s.nets]
           \/ o \in [op : {"rename_net"}, net : DOMAIN s.nets, name : NetNames]
  <2>1. /\ o.op \in WritesNet /\ o.op \notin WritesCell /\ o.net \in 1..Len(nl.nets)
        /\ o.op # "add_cell" /\ o.op # "reconnect_pin"
    BY <1>6, <1>9 DEF Nets, WritesCell, WritesNet
  <2>2. r = o
    BY <1>5, <2>1
  <2>3. \/ o \in [op : {"remove_net"}, net : Nets(nl)]
        \/ o \in [op : {"rename_net"}, net : Nets(nl), name : NetNames]
    BY <1>6, <1>9
  <2>. HIDE DEF r
  <2>4. OperationFits(o, nl, Len(nl.nets) + n)
    BY <2>1 DEF OperationFits, WritesNet
  <2>. QED BY <2>2, <2>3, <2>4 DEF Operations, r, n
<1>. QED BY <1>2, <1>3, <1>4, <1>7, <1>8, <1>9

\* The plans that can be applied to a netlist.
Plans(nl) == {plan \in Seq(Operations(nl)) : PlanFits(nl, plan)}

\* A plan grows by one operation, and stays resolved.
LEMMA PlanGrows ==
  ASSUME NEW nl, Len(nl.nets) \in Nat, NEW s, Covers(nl, s), NEW prefix \in Plans(nl),
         NEW o \in NextOperations(nl, s, prefix)
  PROVE  Resolve(nl, Append(prefix, o)) \in Plans(nl)
<1>. DEFINE n == Len(prefix)
            r == ResolvedOperation(nl, o)
            raw == Append(prefix, o)
            plan == Append(prefix, r)
<1>1. /\ prefix \in Seq(Operations(nl)) /\ PlanFits(nl, prefix)
      /\ n \in Nat /\ DOMAIN prefix = 1..n
      /\ \A i \in 1..n : prefix[i] \in Operations(nl)
  <2>1. prefix \in Seq(Operations(nl)) /\ PlanFits(nl, prefix)
    BY DEF Plans
  <2>. QED BY <2>1, LenProperties, ElementOfSeq
<1>2. Count(prefix, "add_net") = NetsBefore(prefix, n)
  BY <1>1 DEF Count, NetsBefore
<1>3. NetsBefore(prefix, n) \in Nat
  <2>1. n + 1 \in Nat \ {0} /\ (n + 1) - 1 = n
    BY <1>1
  <2>. QED BY <2>1, NetsBeforeStep
<1>4. r \in Operations(nl) /\ OperationFits(r, nl, Len(nl.nets) + NetsBefore(prefix, n))
  BY <1>2, <1>3, NextOperationFits
<1>. HIDE DEF r
<1>5. /\ plan \in Seq(Operations(nl)) /\ Len(plan) = n + 1 /\ DOMAIN plan = 1..n + 1
      /\ \A i \in 1..n : plan[i] = prefix[i]
      /\ plan[n + 1] = r
  BY <1>1, <1>4, AppendProperties, LenProperties
<1>6. Resolve(nl, raw) = plan
  <2>1. DOMAIN raw = 1..n + 1 /\ raw[n + 1] = o /\ \A i \in 1..n : raw[i] = prefix[i]
    <3>. DEFINE U == Operations(nl) \cup {o}
    <3>1. prefix \in Seq(U) /\ o \in U
      <4>1. Operations(nl) \subseteq U /\ o \in U
        OBVIOUS
      <4>. HIDE DEF U
      <4>. QED BY <1>1, <4>1, SeqMonotonic
    <3>. HIDE DEF U
    <3>. QED BY <1>1, <3>1, AppendProperties, LenProperties
  <2>2. Resolve(nl, raw) = [i \in DOMAIN raw |-> ResolvedOperation(nl, raw[i])]
    BY ResolveIs
  <2>. HIDE DEF raw, plan
  <2>3. ASSUME NEW i \in 1..n + 1 PROVE ResolvedOperation(nl, raw[i]) = plan[i]
    <3>1. CASE i = n + 1
      BY <1>5, <2>1, <3>1 DEF r
    <3>2. CASE i # n + 1
      <4>1. i \in 1..n
        BY <1>1, <3>2
      <4>2. raw[i] = prefix[i] /\ plan[i] = prefix[i] /\ prefix[i] \in Operations(nl)
        BY <1>1, <1>5, <2>1, <4>1
      <4>. QED BY <4>2, ResolvedStays
    <3>. QED BY <3>1, <3>2
  <2>4. plan = [i \in 1..n + 1 |-> plan[i]]
    BY <1>5, LenProperties
  <2>5. Resolve(nl, raw) = [i \in 1..n + 1 |-> ResolvedOperation(nl, raw[i])]
    BY <2>1, <2>2
  <2>. QED BY <2>3, <2>4, <2>5
<1>. HIDE DEF plan
<1>7. ASSUME NEW k \in 0..n PROVE NetsBefore(plan, k) = NetsBefore(prefix, k)
  <2>1. {j \in 1..k : plan[j].op = "add_net"} = {j \in 1..k : prefix[j].op = "add_net"}
    BY <1>1, <1>5
  <2>. QED BY <2>1 DEF NetsBefore
<1>8. ASSUME NEW k \in 1..n + 1
      PROVE  OperationFits(plan[k], nl, Len(nl.nets) + NetsBefore(plan, k - 1))
  <2>1. k - 1 \in 0..n
    BY <1>1
  <2>2. NetsBefore(plan, k - 1) = NetsBefore(prefix, k - 1)
    BY <1>7, <2>1
  <2>3. CASE k = n + 1
    <3>1. k - 1 = n /\ plan[k] = r
      BY <1>1, <1>5, <2>3
    <3>. QED BY <1>4, <2>2, <3>1
  <2>4. CASE k # n + 1
    <3>1. k \in 1..n /\ plan[k] = prefix[k]
      BY <1>1, <1>5, <2>4
    <3>2. OperationFits(prefix[k], nl, Len(nl.nets) + NetsBefore(prefix, k - 1))
      BY <1>1, <3>1 DEF PlanFits
    <3>. QED BY <2>2, <3>1, <3>2
  <2>. QED BY <2>3, <2>4
<1>9. PlanFits(nl, plan)
  <2>1. Len(plan) \in Nat
    BY <1>1, <1>5
  <2>. QED BY <1>5, <1>8, <2>1 DEF PlanFits
<1>. QED BY <1>5, <1>6, <1>9 DEF Plans

\* The plans that grow from a set of plans.
Grown(nl, s, X) ==
    {plan \in UNION {{Resolve(nl, Append(prefix, op)) : op \in NextOperations(nl, s, prefix)} :
                       prefix \in X} : PrefixValid(nl, s, plan)}

\* A fitting plan grows into fitting plans.
LEMMA GrownPlans ==
  ASSUME NEW nl, Len(nl.nets) \in Nat, NEW s, Covers(nl, s), NEW X \in SUBSET Plans(nl)
  PROVE  Grown(nl, s, X) \in SUBSET Plans(nl)
<1>1. ASSUME NEW plan \in Grown(nl, s, X) PROVE plan \in Plans(nl)
  <2>1. PICK prefix \in X : \E op \in NextOperations(nl, s, prefix) :
                                plan = Resolve(nl, Append(prefix, op))
    BY DEF Grown
  <2>2. PICK op \in NextOperations(nl, s, prefix) : plan = Resolve(nl, Append(prefix, op))
    BY <2>1
  <2>. QED BY <2>2, PlanGrows
<1>. QED BY <1>1

\* What the recursion over the length of a plan defines.
IsGrowing(grown, nl, s, limit) ==
    grown = CHOOSE h : h = [k \in 0..limit |->
                IF k = 0 THEN {<<>>} ELSE Grown(nl, s, h[k - 1])]

\* So do all plans up to the limit.
LEMMA GrowingPlans ==
  ASSUME NEW nl, Len(nl.nets) \in Nat, NEW s, Covers(nl, s), NEW limit \in Nat,
         NEW grown, IsGrowing(grown, nl, s, limit)
  PROVE  \A k \in 0..limit : grown[k] \in SUBSET Plans(nl)
<1>. DEFINE n == limit
            V == SUBSET Plans(nl)
            step == [k \in 1..n |-> [X \in V |-> Grown(nl, s, X)]]
<1>2. {<<>>} \in V
  <2>1. <<>> \in Seq(Operations(nl)) /\ Len(<<>>) = 0
    OBVIOUS
  <2>2. PlanFits(nl, <<>>)
    <3>1. \A k \in 1..Len(<<>>) : FALSE
      BY <2>1
    <3>. QED BY <2>1, <3>1 DEF PlanFits
  <2>. QED BY <2>1, <2>2 DEF Plans
<1>5. ASSUME NEW k \in 1..n, NEW X \in V PROVE Grown(nl, s, X) \in V
  BY GrownPlans
<1>. HIDE DEF V
<1>6. step \in [1..n -> [V -> V]]
  BY <1>5
<1>7. PICK f \in [0..n -> V] : f[0] = {<<>>} /\ \A k \in 1..n : f[k] = step[k][f[k - 1]]
  <2>. HIDE DEF step
  <2>1. IsRecursion(n, V, {<<>>}, step)
    BY <1>2, <1>6 DEF IsRecursion
  <2>2. Solutions(n, V, {<<>>}, step) # {}
    BY <2>1, RecursionExists
  <2>. QED BY <2>2 DEF Solutions
<1>8. f = [k \in 0..n |-> IF k = 0 THEN {<<>>} ELSE Grown(nl, s, f[k - 1])]
  <2>1. ASSUME NEW k \in 1..n PROVE f[k] = Grown(nl, s, f[k - 1])
    <3>1. f[k - 1] \in V
      <4>. HIDE DEF step
      <4>. QED BY <1>7
    <3>. QED BY <1>7, <3>1
  <2>. HIDE DEF step
  <2>. QED BY <1>7, <2>1
<1>9. grown = [k \in 0..n |-> IF k = 0 THEN {<<>>} ELSE Grown(nl, s, grown[k - 1])]
  BY <1>8 DEF IsGrowing
<1>10. /\ grown[0] \in V
       /\ \A k \in 1..n : grown[k - 1] \in V => grown[k] = step[k][grown[k - 1]]
  <2>. DEFINE Value(k) == IF k = 0 THEN {<<>>} ELSE Grown(nl, s, grown[k - 1])
  <2>0. \A k \in 0..n : grown[k] = Value(k)
    <3>1. grown = [k \in 0..n |-> Value(k)]
      BY <1>9
    <3>. HIDE DEF Value
    <3>. QED BY <3>1
  <2>1. /\ grown[0] = {<<>>}
        /\ \A k \in 1..n : grown[k] = Grown(nl, s, grown[k - 1])
    BY <2>0
  <2>. HIDE DEF Value
  <2>. QED BY <1>2, <2>1
<1>11. \A k \in 0..n : grown[k] \in V
  <2>. HIDE DEF step
  <2>. QED BY <1>6, <1>10, RecursionStays
<1>. QED BY <1>11 DEF V

\* A plan that validation accepts refers to slots that exist when it is applied.
LEMMA AcceptedPlansFit ==
  ASSUME NEW nl, WellFormed(nl), NEW s, EditPossible(nl, s), limits \in Seq(Nat),
         NEW plan \in AcceptedPlans(nl, s)
  PROVE  PlanFits(nl, plan)
<1>. DEFINE limit == limits[nl.edit_revision + 1]
            grown[k \in 0..limit] == IF k = 0 THEN {<<>>} ELSE Grown(nl, s, grown[k - 1])
<1>1. limit \in Nat
  <2>1. nl.edit_revision \in Nat /\ nl.edit_revision < Len(limits) /\ Len(limits) \in Nat
    BY LenProperties DEF WellFormed, EditPossible
  <2>2. nl.edit_revision + 1 \in 1..Len(limits)
    BY <2>1
  <2>. QED BY <2>2, ElementOfSeq
<1>2. Covers(nl, s)
  BY DEF EditPossible, SnapshotCurrent, IsLiveCell, IsLiveNet, Covers
<1>3. Len(nl.nets) \in Nat
  BY BaseTypes, LenProperties
<1>4. IsGrowing(grown, nl, s, limit)
  BY DEF IsGrowing
<1>5. plan \in UNION {grown[k] : k \in 1..limit}
  BY DEF AcceptedPlans, Grown
<1>. HIDE DEF limit, grown
<1>6. \A k \in 0..limit : grown[k] \in SUBSET Plans(nl)
  BY <1>1, <1>2, <1>3, <1>4, GrowingPlans
<1>7. PICK k \in 1..limit : plan \in grown[k]
  BY <1>5
<1>8. k \in 0..limit
  BY <1>1
<1>9. plan \in Plans(nl)
  BY <1>6, <1>7, <1>8
<1>. QED BY <1>9 DEF Plans

-----------------------------------------------------------------------------
(***************************************************************************)
(* Names given for publication.                                            *)
(***************************************************************************)

\* A sequence over a set is a sequence.
LEMMA SequenceOf ==
  ASSUME NEW U, NEW s \in Seq(U)
  PROVE  IsSequence(s)
<1>1. Len(s) \in Nat /\ DOMAIN s = 1..Len(s) /\ s \in [1..Len(s) -> U]
  BY LenProperties
<1>. DEFINE W == {s[i] : i \in DOMAIN s}
<1>2. s \in [1..Len(s) -> W]
  BY <1>1
<1>. HIDE DEF W
<1>3. s \in Seq(W)
  BY <1>1, <1>2, SeqDef
<1>. QED BY <1>3 DEF IsSequence, W

\* The name table stays a sequence when a list is interned.
LEMMA InternAllSequence ==
  ASSUME NEW names, IsSequence(names), NEW list, IsSequence(list)
  PROVE  IsSequence(InternAll(names, list))
<1>. DEFINE U == {names[i] : i \in DOMAIN names}
            W == {list[i] : i \in DOMAIN list}
<1>1. names \in Seq(U) /\ list \in Seq(W)
  BY DEF IsSequence
<1>. HIDE DEF U, W
<1>2. names \in Seq(U \cup W) /\ list \in Seq(U \cup W)
  BY <1>1, SeqMonotonic
<1>3. InternAll(names, list) \in Seq(U \cup W)
  BY <1>2, InternAllExtends
<1>. QED BY <1>3, SequenceOf

\* An identifier of a name table, or None.
LEMMA GetNameIsNumber ==
  ASSUME NEW names, IsSequence(names), NEW name
  PROVE  GetName(names, name) \in Nat
<1>2. DOMAIN names \subseteq Nat
  BY LenProperties DEF IsSequence
<1>3. CASE \E i \in DOMAIN names : names[i] = name
  <2>1. (CHOOSE i \in DOMAIN names : names[i] = name) \in DOMAIN names
    BY <1>3
  <2>. QED BY <1>2, <1>3, <2>1 DEF GetName
<1>4. CASE ~\E i \in DOMAIN names : names[i] = name
  BY <1>4 DEF GetName, None
<1>. QED BY <1>3, <1>4

\* The slots that are kept are a sequence.
IsKeeping(kept, len, keep) ==
    kept = CHOOSE h : h = [k \in 0..len |->
               IF k = 0 THEN <<>> ELSE IF k \in keep THEN Append(h[k - 1], k) ELSE h[k - 1]]

\* The slots collected one after the other are a sequence.
LEMMA KeepingTyped ==
  ASSUME NEW len \in Nat, NEW keep, NEW kept, IsKeeping(kept, len, keep)
  PROVE  kept[len] \in Seq(Nat)
<1>. DEFINE n == len
            V == Seq(Nat)
            Step(s, k) == IF k \in keep THEN Append(s, k) ELSE s
            step == [k \in 1..n |-> [s \in V |-> Step(s, k)]]
<1>1. <<>> \in V
  OBVIOUS
<1>2. ASSUME NEW k \in 1..n, NEW s \in V PROVE Step(s, k) \in V
  <2>1. Append(s, k) \in Seq(Nat)
    BY AppendProperties
  <2>. QED BY <2>1
<1>3. kept = CHOOSE h : h = [k \in 0..n |-> IF k = 0 THEN <<>> ELSE Step(h[k - 1], k)]
  BY DEF IsKeeping
<1>. HIDE DEF V, Step
<1>6. step \in [1..n -> [V -> V]]
  BY <1>2
<1>7. PICK f \in [0..n -> V] : f[0] = <<>> /\ \A k \in 1..n : f[k] = step[k][f[k - 1]]
  <2>. HIDE DEF step
  <2>1. IsRecursion(n, V, <<>>, step)
    BY <1>1, <1>6 DEF IsRecursion
  <2>2. Solutions(n, V, <<>>, step) # {}
    BY <2>1, RecursionExists
  <2>. QED BY <2>2 DEF Solutions
<1>8. f = [k \in 0..n |-> IF k = 0 THEN <<>> ELSE Step(f[k - 1], k)]
  <2>1. ASSUME NEW k \in 1..n PROVE f[k] = Step(f[k - 1], k)
    <3>1. f[k - 1] \in V
      <4>. HIDE DEF step
      <4>. QED BY <1>7
    <3>. QED BY <1>7, <3>1
  <2>. HIDE DEF step
  <2>. QED BY <1>7, <2>1
<1>9. kept = [k \in 0..n |-> IF k = 0 THEN <<>> ELSE Step(kept[k - 1], k)]
  BY <1>3, <1>8
<1>10. /\ kept[0] \in V
       /\ \A k \in 1..n : kept[k - 1] \in V => kept[k] = step[k][kept[k - 1]]
  <2>1. kept[0] = <<>> /\ \A k \in 1..n : kept[k] = Step(kept[k - 1], k)
    BY <1>9
  <2>. QED BY <1>1, <2>1
<1>11. kept[n] \in V
  <2>. HIDE DEF step
  <2>1. \A k \in 0..n : kept[k] \in V
    BY <1>6, <1>10, RecursionStays
  <2>. QED BY <2>1
<1>. QED BY <1>11 DEF V

\* The kept slots are a sequence.
LEMMA KeptSlotsTyped ==
  ASSUME NEW len \in Nat, NEW keep
  PROVE  KeptSlots(len, keep) \in Seq(Nat)
<1>. DEFINE kept[k \in 0..len] ==
                IF k = 0 THEN <<>>
                ELSE IF k \in keep THEN Append(kept[k - 1], k) ELSE kept[k - 1]
<1>1. IsKeeping(kept, len, keep)
  BY DEF IsKeeping
<1>2. KeptSlots(len, keep) = kept[len]
  BY DEF KeptSlots
<1>. HIDE DEF kept
<1>. QED BY <1>1, <1>2, KeepingTyped

\* The dense names are a sequence.
LEMMA DenseNamesSequence ==
  ASSUME NEW prefix, NEW synthetic \in Seq(Nat), NEW preserved
  PROVE  IsSequence(DenseNames(prefix, synthetic, preserved))
<1>. DEFINE n == Len(synthetic)
            f == [k \in 1..n |-> <<prefix, NextOrdinal(prefix, preserved) + k - 1>>]
            U == {f[k] : k \in 1..n}
<1>1. n \in Nat
  BY LenProperties
<1>2. DenseNames(prefix, synthetic, preserved) = SubSeq(f, 1, n)
  BY DEF DenseNames, Tabulate
<1>3. \A k \in 1..n : f[k] \in U
  OBVIOUS
<1>. HIDE DEF f, n, U
<1>4. SubSeq(f, 1, n) \in Seq(U)
  BY <1>1, <1>3, SubSeqProperties
<1>. QED BY <1>2, <1>4, SequenceOf

\* Rows that stay what they are under another name.
Renamable(S) == \A row \in S, id \in Nat : [row EXCEPT !.name = id] \in S

\* Renaming rows keeps their number and their shape.
LEMMA RenamedTyped ==
  ASSUME NEW S, NEW rows \in Seq(S), NEW synthetic, NEW dense, NEW names, IsSequence(names),
         Renamable(S)
  PROVE  /\ Renamed(rows, synthetic, dense, names) \in Seq(S)
         /\ Len(Renamed(rows, synthetic, dense, names)) = Len(rows)
<1>. DEFINE n == Len(rows)
            Id(i) == GetName(names, dense[CHOOSE k \in DOMAIN synthetic : synthetic[k] = i])
            f == [i \in 1..n |-> IF Contains(synthetic, i) THEN [rows[i] EXCEPT !.name = Id(i)]
                                 ELSE rows[i]]
<1>1. n \in Nat /\ \A i \in 1..n : rows[i] \in S
  BY LenProperties, ElementOfSeq
<1>2. Renamed(rows, synthetic, dense, names) = SubSeq(f, 1, n)
  BY DEF Renamed, Tabulate
<1>3. ASSUME NEW i PROVE Id(i) \in Nat
  BY GetNameIsNumber
<1>. HIDE DEF Id, n
<1>4. \A i \in 1..n : f[i] \in S
  BY <1>1, <1>3 DEF Renamable
<1>. HIDE DEF f
<1>5. SubSeq(f, 1, n) \in Seq(S) /\ Len(SubSeq(f, 1, n)) = n
  BY <1>1, <1>4, SubSeqProperties
<1>. QED BY <1>2, <1>5 DEF n

\* A netlist whose rows have been renamed.
SameLife(t, nl) ==
    /\ t.status = nl.status /\ t.generation = nl.generation
    /\ t.edit_revision = nl.edit_revision

\* assign_publication_names leaves a netlist that can be edited, at its revision.
LEMMA AssignCellNamesWellFormed ==
  ASSUME NEW nl, WellFormed(nl)
  PROVE  WellFormed(AssignCellNames(nl)) /\ SameLife(AssignCellNames(nl), nl)
<1>. DEFINE nameOf(c) == nl.names[nl.cells[c].name]
            synthetic == KeptSlots(Len(nl.cells), {c \in LiveCells(nl) : IsSynthetic(nameOf(c))})
            dense == DenseNames("U", synthetic,
                                {nameOf(c) : c \in LiveCells(nl) \ ToSet(synthetic)})
            names == InternAll(nl.names, dense)
            cells == Renamed(nl.cells, synthetic, dense, names)
            t == [nl EXCEPT !.names = names, !.cells = cells]
            limit == Len(nl.connections)
            S == {row \in CellRow : PinsFit(row, limit)}
<1>1. /\ nl \in NetlistsOf(nl) /\ nl.generation \in Nat /\ nl.edit_revision \in Nat
      /\ IsSequence(nl.names) /\ ArenasFit(nl)
  BY DEF WellFormed
<1>2. nl.cells \in Seq(CellRow) /\ Len(nl.cells) \in Nat
  BY BaseTypes, LenProperties
<1>3. AssignCellNames(nl) = t
  BY DEF AssignCellNames
<1>4. synthetic \in Seq(Nat)
  BY <1>2, KeptSlotsTyped
<1>. HIDE DEF synthetic
<1>5. IsSequence(dense)
  BY <1>4, DenseNamesSequence
<1>. HIDE DEF dense
<1>6. IsSequence(names)
  BY <1>1, <1>5, InternAllSequence
<1>. HIDE DEF names
<1>7. nl.cells \in Seq(S)
  <2>1. \A i \in 1..Len(nl.cells) : nl.cells[i] \in CellRow /\ PinsFit(nl.cells[i], limit)
    BY <1>1, <1>2, ElementOfSeq DEF ArenasFit
  <2>2. \A i \in 1..Len(nl.cells) : nl.cells[i] \in S
    BY <2>1
  <2>3. nl.cells \in [1..Len(nl.cells) -> S]
    <3>. HIDE DEF S
    <3>. QED BY <1>2, <2>2, LenProperties
  <2>. HIDE DEF S
  <2>. QED BY <1>2, <2>3, SeqDef
<1>8. Renamable(S)
  <2>. SUFFICES ASSUME NEW row \in S, NEW id \in Nat PROVE [row EXCEPT !.name = id] \in S
    BY DEF Renamable
  <2>. DEFINE new == [row EXCEPT !.name = id]
  <2>1. new \in CellRow /\ new.first = row.first /\ new.last = row.last
    BY DEF CellRow
  <2>. HIDE DEF new
  <2>2. PinsFit(new, limit)
    BY <2>1 DEF PinsFit
  <2>. QED BY <2>1, <2>2 DEF new
<1>9. cells \in Seq(S) /\ Len(cells) = Len(nl.cells)
  <2>. HIDE DEF S
  <2>. QED BY <1>6, <1>7, <1>8, RenamedTyped
<1>. HIDE DEF cells
<1>10. cells \in Seq(CellRow) /\ \A c \in 1..Len(cells) : PinsFit(cells[c], limit)
  <2>1. S \subseteq CellRow /\ \A row \in S : PinsFit(row, limit)
    OBVIOUS
  <2>. HIDE DEF S
  <2>2. cells \in Seq(CellRow)
    BY <1>9, <2>1, SeqMonotonic
  <2>3. \A c \in 1..Len(cells) : cells[c] \in S
    BY <1>9, ElementOfSeq
  <2>. QED BY <2>1, <2>2, <2>3
<1>11. /\ t \in NetlistsOf(t) /\ t.status = nl.status /\ t.generation = nl.generation
       /\ t.edit_revision = nl.edit_revision /\ t.names = names /\ t.cells = cells
       /\ t.connections = nl.connections /\ t.nets = nl.nets /\ t.net_pins = nl.net_pins
       /\ t.pin_owners = nl.pin_owners /\ t.pin_links = nl.pin_links
  BY <1>1, <1>10 DEF NetlistsOf
<1>. HIDE DEF t
<1>12. ArenasFit(t)
  BY <1>1, <1>10, <1>11 DEF ArenasFit
<1>. QED BY <1>1, <1>3, <1>6, <1>11, <1>12 DEF WellFormed, SameLife

\* assign_publication_net_names does the same.
LEMMA AssignNetNamesWellFormed ==
  ASSUME NEW nl, WellFormed(nl)
  PROVE  WellFormed(AssignNetNames(nl)) /\ SameLife(AssignNetNames(nl), nl)
<1>. DEFINE nameOf(n) == nl.names[nl.nets[n].name]
            synthetic == KeptSlots(Len(nl.nets), {n \in LiveNets(nl) :
                                     nl.nets[n].name = None \/ IsSynthetic(nameOf(n))})
            dense == DenseNames("n", synthetic,
                                {nameOf(n) : n \in LiveNets(nl) \ ToSet(synthetic)})
            names == InternAll(nl.names, dense)
            nets == Renamed(nl.nets, synthetic, dense, names)
            t == [nl EXCEPT !.names = names, !.nets = nets]
<1>1. /\ nl \in NetlistsOf(nl) /\ nl.generation \in Nat /\ nl.edit_revision \in Nat
      /\ IsSequence(nl.names) /\ ArenasFit(nl)
  BY DEF WellFormed
<1>2. nl.nets \in Seq(NetRow) /\ Len(nl.nets) \in Nat
  BY BaseTypes, LenProperties
<1>3. AssignNetNames(nl) = t
  BY DEF AssignNetNames
<1>4. synthetic \in Seq(Nat)
  BY <1>2, KeptSlotsTyped
<1>. HIDE DEF synthetic
<1>5. IsSequence(dense)
  BY <1>4, DenseNamesSequence
<1>. HIDE DEF dense
<1>6. IsSequence(names)
  BY <1>1, <1>5, InternAllSequence
<1>. HIDE DEF names
<1>8. Renamable(NetRow)
  BY DEF NetRow, Renamable
<1>9. nets \in Seq(NetRow) /\ Len(nets) = Len(nl.nets)
  BY <1>2, <1>6, <1>8, RenamedTyped
<1>. HIDE DEF nets
<1>11. /\ t \in NetlistsOf(t) /\ t.status = nl.status /\ t.generation = nl.generation
       /\ t.edit_revision = nl.edit_revision /\ t.names = names /\ t.nets = nets
       /\ t.connections = nl.connections /\ t.cells = nl.cells /\ t.net_pins = nl.net_pins
       /\ t.pin_owners = nl.pin_owners /\ t.pin_links = nl.pin_links
  BY <1>1, <1>9 DEF NetlistsOf
<1>. HIDE DEF t
<1>12. ArenasFit(t)
  BY <1>1, <1>9, <1>11 DEF ArenasFit
<1>. QED BY <1>1, <1>3, <1>6, <1>11, <1>12 DEF WellFormed, SameLife

-----------------------------------------------------------------------------
(***************************************************************************)
(* The builder.                                                            *)
(***************************************************************************)

\* Netlists under construction, with names from U.
BuilderFields(U) ==
    [status : {"editable"}, generation : {0}, edit_revision : {0}, names : Seq(U),
     nets : Seq(NetRow), live_net_count : {0}, cells : Seq(CellRow), live_cell_count : {0},
     connections : Seq(Nat), pin_owners : Seq(Nat), pin_links : Seq(LinkRow),
     net_pins : Seq(EndsRow), boundary : {<<>>}, external_nets : {{}}, instances : Seq(Nat)]

Builders(U) == {nl \in BuilderFields(U) : ArenasFit(nl)}

\* What a netlist under construction holds.
LEMMA BuilderTypes ==
  ASSUME NEW U, NEW nl \in Builders(U)
  PROVE  /\ nl \in BuilderFields(U) /\ ArenasFit(nl) /\ nl.names \in Seq(U)
         /\ nl.nets \in Seq(NetRow) /\ nl.cells \in Seq(CellRow)
         /\ nl.connections \in Seq(Nat) /\ nl.pin_owners \in Seq(Nat)
         /\ nl.pin_links \in Seq(LinkRow) /\ nl.net_pins \in Seq(EndsRow)
         /\ nl.instances \in Seq(Nat)
BY DEF Builders, BuilderFields

\* Its arenas fit each other.
LEMMA BuilderLengths ==
  ASSUME NEW U, NEW nl \in Builders(U)
  PROVE  /\ Len(nl.nets) \in Nat /\ Len(nl.cells) \in Nat /\ Len(nl.connections) \in Nat
         /\ Len(nl.net_pins) = Len(nl.nets)
         /\ Len(nl.pin_owners) = Len(nl.connections)
         /\ Len(nl.pin_links) = Len(nl.connections)
<1>1. /\ ArenasFit(nl) /\ nl.nets \in Seq(NetRow) /\ nl.cells \in Seq(CellRow)
      /\ nl.connections \in Seq(Nat)
  BY BuilderTypes
<1>. QED BY <1>1, LenProperties DEF ArenasFit

\* What linking a pin leaves alone.
SameArenas(t, nl) ==
    /\ t.connections = nl.connections /\ t.nets = nl.nets /\ t.cells = nl.cells

\* New links or ends of lists change nothing else.
LEMMA BuilderLists ==
  ASSUME NEW U, NEW nl \in Builders(U)
  PROVE  /\ \A x \in Seq(LinkRow) : Len(x) = Len(nl.pin_links) =>
              /\ [nl EXCEPT !.pin_links = x] \in Builders(U)
              /\ SameArenas([nl EXCEPT !.pin_links = x], nl)
              /\ [nl EXCEPT !.pin_links = x].pin_links = x
              /\ [nl EXCEPT !.pin_links = x].net_pins = nl.net_pins
         /\ \A x \in Seq(EndsRow) : Len(x) = Len(nl.net_pins) =>
              /\ [nl EXCEPT !.net_pins = x] \in Builders(U)
              /\ SameArenas([nl EXCEPT !.net_pins = x], nl)
              /\ [nl EXCEPT !.net_pins = x].net_pins = x
              /\ [nl EXCEPT !.net_pins = x].pin_links = nl.pin_links
<1>1. nl \in BuilderFields(U) /\ ArenasFit(nl)
  BY BuilderTypes
<1>2. ASSUME NEW x \in Seq(LinkRow), Len(x) = Len(nl.pin_links)
      PROVE  /\ [nl EXCEPT !.pin_links = x] \in Builders(U)
             /\ SameArenas([nl EXCEPT !.pin_links = x], nl)
             /\ [nl EXCEPT !.pin_links = x].pin_links = x
             /\ [nl EXCEPT !.pin_links = x].net_pins = nl.net_pins
  <2>. DEFINE t == [nl EXCEPT !.pin_links = x]
  <2>1. /\ t \in BuilderFields(U) /\ t.pin_links = x /\ t.net_pins = nl.net_pins
        /\ t.connections = nl.connections /\ t.nets = nl.nets /\ t.cells = nl.cells
        /\ t.pin_owners = nl.pin_owners
    BY <1>1 DEF BuilderFields
  <2>. HIDE DEF t
  <2>2. ArenasFit(t)
    BY <1>1, <1>2, <2>1 DEF ArenasFit
  <2>. QED BY <2>1, <2>2 DEF Builders, SameArenas, t
<1>3. ASSUME NEW x \in Seq(EndsRow), Len(x) = Len(nl.net_pins)
      PROVE  /\ [nl EXCEPT !.net_pins = x] \in Builders(U)
             /\ SameArenas([nl EXCEPT !.net_pins = x], nl)
             /\ [nl EXCEPT !.net_pins = x].net_pins = x
             /\ [nl EXCEPT !.net_pins = x].pin_links = nl.pin_links
  <2>. DEFINE t == [nl EXCEPT !.net_pins = x]
  <2>1. /\ t \in BuilderFields(U) /\ t.net_pins = x /\ t.pin_links = nl.pin_links
        /\ t.connections = nl.connections /\ t.nets = nl.nets /\ t.cells = nl.cells
        /\ t.pin_owners = nl.pin_owners
    BY <1>1 DEF BuilderFields
  <2>. HIDE DEF t
  <2>2. ArenasFit(t)
    BY <1>1, <1>3, <2>1 DEF ArenasFit
  <2>. QED BY <2>1, <2>2 DEF Builders, SameArenas, t
<1>. QED BY <1>2, <1>3

\* A write to a slot that is not there does nothing.
LEMMA ExceptAnywhere ==
  ASSUME NEW S, NEW seq \in Seq(S), NEW i, NEW e, i \in 1..Len(seq) => e \in S
  PROVE  [seq EXCEPT ![i] = e] \in Seq(S) /\ Len([seq EXCEPT ![i] = e]) = Len(seq)
<1>1. CASE i \in 1..Len(seq)
  BY <1>1, ExceptSeq
<1>2. CASE i \notin 1..Len(seq)
  <2>1. DOMAIN seq = 1..Len(seq) /\ seq \in [1..Len(seq) -> S]
    BY LenProperties
  <2>2. [seq EXCEPT ![i] = e] = seq
    BY <1>2, <2>1
  <2>. QED BY <2>2
<1>. QED BY <1>1, <1>2

\* The writes of append_pin.
SetLink(nl, p, row) == [nl EXCEPT !.pin_links[p] = row]
SetNext(nl, p, x) == [nl EXCEPT !.pin_links[p].next = x]
SetHead(nl, n, x) == [nl EXCEPT !.net_pins[n].head = x]
SetTail(nl, n, x) == [nl EXCEPT !.net_pins[n].tail = x]

\* Writing the links of a pin.
LEMMA SetLinkBuilder ==
  ASSUME NEW U, NEW nl \in Builders(U), NEW p, NEW row \in LinkRow
  PROVE  SetLink(nl, p, row) \in Builders(U) /\ SameArenas(SetLink(nl, p, row), nl)
         /\ SetLink(nl, p, row).net_pins = nl.net_pins
<1>. DEFINE x == [nl.pin_links EXCEPT ![p] = row]
<1>1. SetLink(nl, p, row) = [nl EXCEPT !.pin_links = x]
  BY DEF SetLink
<1>2. x \in Seq(LinkRow) /\ Len(x) = Len(nl.pin_links)
  <2>1. nl.pin_links \in Seq(LinkRow)
    BY BuilderTypes
  <2>. QED BY <2>1, ExceptAnywhere
<1>. HIDE DEF x
<1>. QED BY <1>1, <1>2, BuilderLists

\* Writing the forward link of a pin.
LEMMA SetNextBuilder ==
  ASSUME NEW U, NEW nl \in Builders(U), NEW p, NEW v \in Nat
  PROVE  SetNext(nl, p, v) \in Builders(U) /\ SameArenas(SetNext(nl, p, v), nl)
<1>. DEFINE row == [nl.pin_links[p] EXCEPT !.next = v]
            x == [nl.pin_links EXCEPT ![p] = row]
<1>1. SetNext(nl, p, v) = [nl EXCEPT !.pin_links = x]
  BY DEF SetNext
<1>2. nl.pin_links \in Seq(LinkRow)
  BY BuilderTypes
<1>3. p \in 1..Len(nl.pin_links) => row \in LinkRow
  <2>1. p \in 1..Len(nl.pin_links) => nl.pin_links[p] \in LinkRow
    BY <1>2, ElementOfSeq
  <2>. QED BY <2>1 DEF LinkRow
<1>. HIDE DEF row
<1>4. x \in Seq(LinkRow) /\ Len(x) = Len(nl.pin_links)
  <2>. DEFINE seq == nl.pin_links
  <2>. HIDE DEF seq
  <2>1. seq \in Seq(LinkRow) /\ (p \in 1..Len(seq) => row \in LinkRow)
    BY <1>2, <1>3 DEF seq
  <2>2. [seq EXCEPT ![p] = row] \in Seq(LinkRow) /\ Len([seq EXCEPT ![p] = row]) = Len(seq)
    BY <2>1, ExceptAnywhere
  <2>. QED BY <2>2 DEF seq
<1>. HIDE DEF x
<1>. QED BY <1>1, <1>4, BuilderLists

\* Writing the head of a list.
LEMMA SetHeadBuilder ==
  ASSUME NEW U, NEW nl \in Builders(U), NEW n, NEW v \in Nat
  PROVE  SetHead(nl, n, v) \in Builders(U) /\ SameArenas(SetHead(nl, n, v), nl)
<1>. DEFINE row == [nl.net_pins[n] EXCEPT !.head = v]
            x == [nl.net_pins EXCEPT ![n] = row]
<1>1. SetHead(nl, n, v) = [nl EXCEPT !.net_pins = x]
  BY DEF SetHead
<1>2. nl.net_pins \in Seq(EndsRow)
  BY BuilderTypes
<1>3. n \in 1..Len(nl.net_pins) => row \in EndsRow
  <2>1. n \in 1..Len(nl.net_pins) => nl.net_pins[n] \in EndsRow
    BY <1>2, ElementOfSeq
  <2>. QED BY <2>1 DEF EndsRow
<1>. HIDE DEF row
<1>4. x \in Seq(EndsRow) /\ Len(x) = Len(nl.net_pins)
  <2>. DEFINE seq == nl.net_pins
  <2>. HIDE DEF seq
  <2>1. seq \in Seq(EndsRow) /\ (n \in 1..Len(seq) => row \in EndsRow)
    BY <1>2, <1>3 DEF seq
  <2>2. [seq EXCEPT ![n] = row] \in Seq(EndsRow) /\ Len([seq EXCEPT ![n] = row]) = Len(seq)
    BY <2>1, ExceptAnywhere
  <2>. QED BY <2>2 DEF seq
<1>. HIDE DEF x
<1>. QED BY <1>1, <1>4, BuilderLists

\* Writing the tail of a list.
LEMMA SetTailBuilder ==
  ASSUME NEW U, NEW nl \in Builders(U), NEW n, NEW v \in Nat
  PROVE  SetTail(nl, n, v) \in Builders(U) /\ SameArenas(SetTail(nl, n, v), nl)
<1>. DEFINE row == [nl.net_pins[n] EXCEPT !.tail = v]
            x == [nl.net_pins EXCEPT ![n] = row]
<1>1. SetTail(nl, n, v) = [nl EXCEPT !.net_pins = x]
  BY DEF SetTail
<1>2. nl.net_pins \in Seq(EndsRow)
  BY BuilderTypes
<1>3. n \in 1..Len(nl.net_pins) => row \in EndsRow
  <2>1. n \in 1..Len(nl.net_pins) => nl.net_pins[n] \in EndsRow
    BY <1>2, ElementOfSeq
  <2>. QED BY <2>1 DEF EndsRow
<1>. HIDE DEF row
<1>4. x \in Seq(EndsRow) /\ Len(x) = Len(nl.net_pins)
  <2>. DEFINE seq == nl.net_pins
  <2>. HIDE DEF seq
  <2>1. seq \in Seq(EndsRow) /\ (n \in 1..Len(seq) => row \in EndsRow)
    BY <1>2, <1>3 DEF seq
  <2>2. [seq EXCEPT ![n] = row] \in Seq(EndsRow) /\ Len([seq EXCEPT ![n] = row]) = Len(seq)
    BY <2>1, ExceptAnywhere
  <2>. QED BY <2>2 DEF seq
<1>. HIDE DEF x
<1>. QED BY <1>1, <1>4, BuilderLists

\* Linking a pin at the end of a list.
LEMMA AppendPinBuilder ==
  ASSUME NEW U, NEW nl \in Builders(U), NEW n \in 1..Len(nl.nets), NEW p \in Nat
  PROVE  AppendPin(nl, n, p) \in Builders(U) /\ SameArenas(AppendPin(nl, n, p), nl)
<1>. DEFINE tail == nl.net_pins[n].tail
            row == [previous |-> tail, next |-> None]
            one == SetLink(nl, p, row)
            linked == SetTail(one, n, p)
            withNext == SetNext(linked, tail, p)
            withHead == SetHead(linked, n, p)
<1>1. tail \in Nat
  <2>1. nl.net_pins \in Seq(EndsRow) /\ Len(nl.net_pins) = Len(nl.nets)
    BY BuilderTypes, BuilderLengths
  <2>2. nl.net_pins[n] \in EndsRow
    BY <2>1, ElementOfSeq
  <2>. QED BY <2>2 DEF EndsRow
<1>2. linked = [nl EXCEPT !.pin_links[p] = row, !.net_pins[n].tail = p]
  <2>1. nl \in BuilderFields(U)
    BY BuilderTypes
  <2>2. one.net_pins = nl.net_pins
    BY <2>1 DEF SetLink, BuilderFields
  <2>. HIDE DEF row
  <2>. QED BY <2>2 DEF SetLink, SetTail
<1>3. AppendPin(nl, n, p) = IF tail # None THEN withNext ELSE withHead
  <2>. DEFINE raw == [nl EXCEPT !.pin_links[p] = row, !.net_pins[n].tail = p]
  <2>1. AppendPin(nl, n, p) = IF tail # None THEN [raw EXCEPT !.pin_links[tail].next = p]
                              ELSE [raw EXCEPT !.net_pins[n].head = p]
    BY DEF AppendPin
  <2>2. raw = linked
    BY <1>2
  <2>. HIDE DEF raw, linked, tail
  <2>. QED BY <2>1, <2>2 DEF SetNext, SetHead
<1>. HIDE DEF tail
<1>4. row \in LinkRow
  BY <1>1 DEF LinkRow, None
<1>. HIDE DEF row
<1>5. one \in Builders(U) /\ SameArenas(one, nl)
  BY <1>4, SetLinkBuilder
<1>. HIDE DEF one
<1>6. linked \in Builders(U) /\ SameArenas(linked, one)
  BY <1>5, SetTailBuilder
<1>. HIDE DEF linked
<1>7. withNext \in Builders(U) /\ SameArenas(withNext, linked)
  BY <1>6, SetNextBuilder
<1>8. withHead \in Builders(U) /\ SameArenas(withHead, linked)
  BY <1>6, SetHeadBuilder
<1>. HIDE DEF withNext, withHead
<1>. QED BY <1>3, <1>5, <1>6, <1>7, <1>8 DEF SameArenas

\* Only pins have been pushed.
PinsPushed(t, nl) ==
    /\ t.nets = nl.nets /\ t.cells = nl.cells /\ Len(t.connections) \in Nat
    /\ Len(nl.connections) <= Len(t.connections)

\* Pushing a pin of a new cell.
LEMMA PushPinBuilder ==
  ASSUME NEW U, NEW nl \in Builders(U), NEW owner \in Nat, NEW signal \in 0..Len(nl.nets)
  PROVE  PushPin(nl, owner, signal) \in Builders(U) /\ PinsPushed(PushPin(nl, owner, signal), nl)
<1>. DEFINE p == Len(nl.connections) + 1
            connections == Append(nl.connections, signal)
            owners == Append(nl.pin_owners, owner)
            links == Append(nl.pin_links, Unlinked)
            pushed == [nl EXCEPT !.connections = connections, !.pin_owners = owners,
                                 !.pin_links = links]
            linked == AppendPin(pushed, signal, p)
<1>1. PushPin(nl, owner, signal) = IF signal = Constant THEN pushed ELSE linked
  BY DEF PushPin
<1>2. /\ nl \in BuilderFields(U) /\ ArenasFit(nl)
      /\ nl.connections \in Seq(Nat) /\ nl.pin_owners \in Seq(Nat)
      /\ nl.pin_links \in Seq(LinkRow) /\ nl.cells \in Seq(CellRow)
  BY BuilderTypes
<1>3. /\ Len(nl.nets) \in Nat /\ Len(nl.connections) \in Nat /\ signal \in Nat
      /\ Len(nl.pin_owners) = Len(nl.connections) /\ Len(nl.pin_links) = Len(nl.connections)
  BY BuilderLengths
<1>4. Unlinked \in LinkRow
  BY DEF Unlinked, LinkRow, None
<1>5. /\ connections \in Seq(Nat) /\ Len(connections) = Len(nl.connections) + 1
      /\ \A i \in 1..Len(nl.connections) : connections[i] = nl.connections[i]
      /\ connections[Len(nl.connections) + 1] = signal
  BY <1>2, <1>3, AppendProperties
<1>6. owners \in Seq(Nat) /\ Len(owners) = Len(nl.pin_owners) + 1
  BY <1>2, AppendProperties
<1>7. links \in Seq(LinkRow) /\ Len(links) = Len(nl.pin_links) + 1
  BY <1>2, <1>4, AppendProperties
<1>. HIDE DEF connections, owners, links, p
<1>8. /\ pushed \in BuilderFields(U) /\ pushed.connections = connections
      /\ pushed.pin_owners = owners /\ pushed.pin_links = links
      /\ pushed.nets = nl.nets /\ pushed.cells = nl.cells /\ pushed.net_pins = nl.net_pins
  BY <1>2, <1>5, <1>6, <1>7 DEF BuilderFields
<1>. HIDE DEF pushed
<1>9. ArenasFit(pushed)
  <2>1. /\ Len(nl.net_pins) = Len(nl.nets)
        /\ \A q \in 1..Len(nl.connections) : nl.connections[q] <= Len(nl.nets)
        /\ \A d \in 1..Len(nl.cells) : PinsFit(nl.cells[d], Len(nl.connections))
    BY <1>2 DEF ArenasFit
  <2>2. ASSUME NEW q \in 1..Len(connections) PROVE connections[q] <= Len(nl.nets)
    <3>1. q \in 1..Len(nl.connections) \/ q = Len(nl.connections) + 1
      BY <1>3, <1>5
    <3>2. CASE q \in 1..Len(nl.connections)
      BY <1>5, <2>1, <3>2
    <3>3. CASE q = Len(nl.connections) + 1
      BY <1>3, <1>5, <3>3
    <3>. QED BY <3>1, <3>2, <3>3
  <2>3. ASSUME NEW d \in 1..Len(nl.cells) PROVE PinsFit(nl.cells[d], Len(connections))
    <3>1. nl.cells[d] \in CellRow
      BY <1>2, ElementOfSeq
    <3>2. nl.cells[d].last \in Nat
      BY <3>1 DEF CellRow
    <3>3. PinsFit(nl.cells[d], Len(nl.connections))
      BY <2>1
    <3>. QED BY <1>3, <1>5, <3>2, <3>3 DEF PinsFit
  <2>. QED BY <1>3, <1>5, <1>6, <1>7, <1>8, <2>1, <2>2, <2>3 DEF ArenasFit
<1>10. pushed \in Builders(U) /\ PinsPushed(pushed, nl)
  BY <1>3, <1>5, <1>8, <1>9 DEF Builders, PinsPushed
<1>11. CASE signal = Constant
  BY <1>1, <1>10, <1>11
<1>12. CASE signal # Constant
  <2>1. signal \in 1..Len(pushed.nets) /\ p \in Nat
    BY <1>3, <1>8, <1>12 DEF Constant, p
  <2>2. linked \in Builders(U) /\ SameArenas(linked, pushed)
    BY <1>10, <2>1, AppendPinBuilder
  <2>. HIDE DEF linked
  <2>. QED BY <1>1, <1>10, <1>12, <2>2 DEF SameArenas, PinsPushed
<1>. QED BY <1>11, <1>12

\* What the recursion over the pins of a cell defines.
IsPushing(pushed, nl, c, signals) ==
    pushed = CHOOSE h : h = [k \in 0..Len(signals) |->
                 IF k = 0 THEN nl ELSE PushPin(h[k - 1], c, signals[k])]

\* Pushing the pins of a new cell, one after the other.
LEMMA PushingBuilder ==
  ASSUME NEW U, NEW nl \in Builders(U), NEW c \in Nat, NEW signals \in Seq(0..Len(nl.nets)),
         NEW pushed, IsPushing(pushed, nl, c, signals)
  PROVE  pushed[Len(signals)] \in Builders(U) /\ PinsPushed(pushed[Len(signals)], nl)
<1>. DEFINE n == Len(signals)
            V == {t \in Builders(U) : PinsPushed(t, nl)}
            Step(t, k) == PushPin(t, c, signals[k])
            step == [k \in 1..n |-> [t \in V |-> Step(t, k)]]
<1>1. n \in Nat /\ \A k \in 1..n : signals[k] \in 0..Len(nl.nets)
  BY LenProperties, ElementOfSeq
<1>2. nl \in V
  BY BuilderLengths DEF PinsPushed
<1>3. ASSUME NEW t \in V PROVE t \in Builders(U) /\ PinsPushed(t, nl)
  OBVIOUS
<1>4. ASSUME NEW t \in Builders(U), PinsPushed(t, nl) PROVE t \in V
  BY <1>4
<1>. HIDE DEF V
<1>5. ASSUME NEW k \in 1..n, NEW t \in V PROVE Step(t, k) \in V
  <2>1. t \in Builders(U) /\ PinsPushed(t, nl) /\ signals[k] \in 0..Len(nl.nets)
    BY <1>1, <1>3
  <2>2. signals[k] \in 0..Len(t.nets)
    BY <2>1 DEF PinsPushed
  <2>3. Step(t, k) \in Builders(U) /\ PinsPushed(Step(t, k), t)
    BY <2>1, <2>2, PushPinBuilder
  <2>. HIDE DEF Step
  <2>4. PinsPushed(Step(t, k), nl)
    BY <2>1, <2>3, BuilderLengths DEF PinsPushed
  <2>. QED BY <1>4, <2>3, <2>4
<1>6. pushed = CHOOSE h : h = [k \in 0..n |-> IF k = 0 THEN nl ELSE Step(h[k - 1], k)]
  BY DEF IsPushing
<1>. HIDE DEF n, Step
<1>7. step \in [1..n -> [V -> V]]
  BY <1>5
<1>8. PICK f \in [0..n -> V] : f[0] = nl /\ \A k \in 1..n : f[k] = step[k][f[k - 1]]
  <2>. HIDE DEF step
  <2>1. IsRecursion(n, V, nl, step)
    BY <1>1, <1>2, <1>7 DEF IsRecursion
  <2>2. Solutions(n, V, nl, step) # {}
    BY <2>1, RecursionExists
  <2>. QED BY <2>2 DEF Solutions
<1>9. f = [k \in 0..n |-> IF k = 0 THEN nl ELSE Step(f[k - 1], k)]
  <2>1. ASSUME NEW k \in 1..n PROVE f[k] = Step(f[k - 1], k)
    <3>1. f[k - 1] \in V
      <4>. HIDE DEF step
      <4>. QED BY <1>1, <1>8
    <3>. QED BY <1>8, <3>1
  <2>. HIDE DEF step
  <2>. QED BY <1>8, <2>1
<1>10. pushed = [k \in 0..n |-> IF k = 0 THEN nl ELSE Step(pushed[k - 1], k)]
  BY <1>6, <1>9
<1>11. /\ pushed[0] \in V
       /\ \A k \in 1..n : pushed[k - 1] \in V => pushed[k] = step[k][pushed[k - 1]]
  <2>1. pushed[0] = nl /\ \A k \in 1..n : pushed[k] = Step(pushed[k - 1], k)
    BY <1>1, <1>10
  <2>. QED BY <1>2, <2>1
<1>12. pushed[n] \in V
  <2>. HIDE DEF step
  <2>1. \A k \in 0..n : pushed[k] \in V
    BY <1>1, <1>7, <1>11, RecursionStays
  <2>. QED BY <1>1, <2>1
<1>. QED BY <1>3, <1>12 DEF n

\* The row of a new cell covers the pins just pushed.
LEMMA PushCellBuilder ==
  ASSUME NEW U, NEW nl \in Builders(U), NEW row, row.name \in Nat, row.type \in Nat,
         NEW signals \in Seq(0..Len(nl.nets))
  PROVE  PushCell(nl, row, signals) \in Builders(U) /\ PushCell(nl, row, signals).nets = nl.nets
<1>. DEFINE c == Len(nl.cells) + 1
            pushed[k \in 0..Len(signals)] ==
                IF k = 0 THEN nl ELSE PushPin(pushed[k - 1], c, signals[k])
            u == pushed[Len(signals)]
            new == [name |-> row.name, type |-> row.type, live |-> TRUE, version |-> 0,
                    first |-> Len(nl.connections) + 1, last |-> Len(u.connections)]
            cells == Append(u.cells, new)
            t == [u EXCEPT !.cells = cells]
<1>1. IsPushing(pushed, nl, c, signals)
  BY DEF IsPushing
<1>2. PushCell(nl, row, signals) = t
  BY DEF PushCell
<1>3. Len(nl.connections) \in Nat /\ c \in Nat
  BY BuilderLengths
<1>. HIDE DEF pushed, c
<1>4. u \in Builders(U) /\ PinsPushed(u, nl)
  BY <1>1, <1>3, PushingBuilder
<1>. HIDE DEF u
<1>5. u \in BuilderFields(U) /\ ArenasFit(u) /\ u.cells \in Seq(CellRow)
  BY <1>4, BuilderTypes
<1>6. Len(u.connections) \in Nat /\ Len(u.cells) \in Nat
  BY <1>4, BuilderLengths
<1>7. new \in CellRow /\ new.first = Len(nl.connections) + 1 /\ new.last = Len(u.connections)
  BY <1>3, <1>6 DEF CellRow
<1>. HIDE DEF new
<1>8. PinsFit(new, Len(u.connections))
  BY <1>3, <1>4, <1>6, <1>7 DEF PinsFit, PinsPushed
<1>9. /\ cells \in Seq(CellRow) /\ Len(cells) = Len(u.cells) + 1
      /\ \A i \in 1..Len(u.cells) : cells[i] = u.cells[i]
      /\ cells[Len(u.cells) + 1] = new
  BY <1>5, <1>7, AppendProperties
<1>. HIDE DEF cells
<1>10. /\ t \in BuilderFields(U) /\ t.cells = cells /\ t.connections = u.connections
       /\ t.nets = u.nets /\ t.net_pins = u.net_pins /\ t.pin_owners = u.pin_owners
       /\ t.pin_links = u.pin_links
  BY <1>5, <1>9 DEF BuilderFields
<1>. HIDE DEF t
<1>11. \A d \in 1..Len(cells) : PinsFit(cells[d], Len(u.connections))
  <2>1. \A d \in 1..Len(u.cells) : PinsFit(u.cells[d], Len(u.connections))
    BY <1>5 DEF ArenasFit
  <2>2. SUFFICES ASSUME NEW d \in 1..Len(cells) PROVE PinsFit(cells[d], Len(u.connections))
    OBVIOUS
  <2>3. d \in 1..Len(u.cells) \/ d = Len(u.cells) + 1
    BY <1>6, <1>9
  <2>. QED BY <1>8, <1>9, <2>1, <2>3
<1>12. ArenasFit(t)
  BY <1>5, <1>10, <1>11 DEF ArenasFit
<1>. QED BY <1>2, <1>4, <1>10, <1>12 DEF Builders, PinsPushed

\* A new name table changes nothing else.
LEMMA BuilderNames ==
  ASSUME NEW U, NEW nl \in Builders(U), NEW names \in Seq(U)
  PROVE  [nl EXCEPT !.names = names] \in Builders(U) /\ [nl EXCEPT !.names = names].nets = nl.nets
         /\ [nl EXCEPT !.names = names].names = names
<1>. DEFINE t == [nl EXCEPT !.names = names]
<1>1. nl \in BuilderFields(U) /\ ArenasFit(nl)
  BY BuilderTypes
<1>2. /\ t \in BuilderFields(U) /\ t.cells = nl.cells /\ t.connections = nl.connections
      /\ t.nets = nl.nets /\ t.net_pins = nl.net_pins /\ t.pin_owners = nl.pin_owners
      /\ t.pin_links = nl.pin_links /\ t.names = names
  BY <1>1 DEF BuilderFields
<1>. HIDE DEF t
<1>3. ArenasFit(t)
  BY <1>1, <1>2 DEF ArenasFit
<1>. QED BY <1>2, <1>3 DEF Builders, t

\* Adding a cell whose signals are nets that exist.
LEMMA AddBuilderCellBuilder ==
  ASSUME NEW U, NEW nl \in Builders(U), NEW cell, cell.name \in U, cell.type \in U,
         cell.signals \in Seq(0..Len(nl.nets))
  PROVE  AddBuilderCell(nl, cell) \in Builders(U) /\ AddBuilderCell(nl, cell).nets = nl.nets
<1>. DEFINE names == InternAll(nl.names, <<cell.name, cell.type>>)
            interned == [nl EXCEPT !.names = names]
            row == [name |-> GetName(interned.names, cell.name),
                    type |-> GetName(interned.names, cell.type)]
<1>1. AddBuilderCell(nl, cell) = PushCell(interned, row, cell.signals)
  BY DEF AddBuilderCell
<1>2. names \in Seq(U)
  <2>1. nl.names \in Seq(U) /\ <<cell.name, cell.type>> \in Seq(U)
    BY BuilderTypes
  <2>. QED BY <2>1, InternAllExtends
<1>. HIDE DEF names
<1>3. interned \in Builders(U) /\ interned.nets = nl.nets /\ interned.names = names
  BY <1>2, BuilderNames
<1>. HIDE DEF interned
<1>4. row.name \in Nat /\ row.type \in Nat
  <2>1. IsSequence(names)
    BY <1>2, SequenceOf
  <2>. QED BY <1>3, <2>1, GetNameIsNumber
<1>. HIDE DEF row
<1>5. cell.signals \in Seq(0..Len(interned.nets))
  BY <1>3
<1>. QED BY <1>1, <1>3, <1>4, <1>5, PushCellBuilder

\* Adding a retained design occurrence.
LEMMA AddBuilderInstanceBuilder ==
  ASSUME NEW U, NEW nl \in Builders(U), NEW name \in U
  PROVE  AddBuilderInstance(nl, name) \in Builders(U)
<1>. DEFINE names == Intern(nl.names, name)
            instances == Append(nl.instances, GetName(names, name))
            t == [nl EXCEPT !.names = names, !.instances = instances]
<1>1. AddBuilderInstance(nl, name) = t
  BY DEF AddBuilderInstance
<1>2. nl \in BuilderFields(U) /\ ArenasFit(nl) /\ nl.names \in Seq(U) /\ nl.instances \in Seq(Nat)
  BY BuilderTypes
<1>3. names \in Seq(U)
  BY <1>2, InternExtends
<1>. HIDE DEF names
<1>4. instances \in Seq(Nat)
  <2>1. GetName(names, name) \in Nat
    BY <1>3, SequenceOf, GetNameIsNumber
  <2>. QED BY <1>2, <2>1, AppendProperties
<1>. HIDE DEF instances
<1>5. /\ t \in BuilderFields(U) /\ t.cells = nl.cells /\ t.connections = nl.connections
      /\ t.nets = nl.nets /\ t.net_pins = nl.net_pins /\ t.pin_owners = nl.pin_owners
      /\ t.pin_links = nl.pin_links
  BY <1>2, <1>3, <1>4 DEF BuilderFields
<1>. HIDE DEF t
<1>6. ArenasFit(t)
  BY <1>2, <1>5 DEF ArenasFit
<1>. QED BY <1>1, <1>5, <1>6 DEF Builders

\* Adding a net.
LEMMA AddBuilderNetBuilder ==
  ASSUME NEW U, NEW nl \in Builders(U), NEW name \in U
  PROVE  AddBuilderNet(nl, name) \in Builders(U)
         /\ Len(AddBuilderNet(nl, name).nets) = Len(nl.nets) + 1
<1>. DEFINE names == IF name = NoName THEN nl.names ELSE Intern(nl.names, name)
            row == [name |-> GetName(names, name), live |-> TRUE, version |-> 0]
            nets == Append(nl.nets, row)
            ends == Append(nl.net_pins, NoPins)
            t == [nl EXCEPT !.names = names, !.nets = nets, !.net_pins = ends]
<1>1. AddBuilderNet(nl, name) = t
  BY DEF AddBuilderNet
<1>2. /\ nl \in BuilderFields(U) /\ ArenasFit(nl) /\ nl.names \in Seq(U)
      /\ nl.nets \in Seq(NetRow) /\ nl.net_pins \in Seq(EndsRow) /\ nl.connections \in Seq(Nat)
  BY BuilderTypes
<1>3. names \in Seq(U)
  BY <1>2, InternExtends
<1>. HIDE DEF names
<1>4. row \in NetRow /\ NoPins \in EndsRow
  <2>1. GetName(names, name) \in Nat
    BY <1>3, SequenceOf, GetNameIsNumber
  <2>. QED BY <2>1 DEF NetRow, NoPins, EndsRow, None
<1>. HIDE DEF row
<1>5. nets \in Seq(NetRow) /\ Len(nets) = Len(nl.nets) + 1
  BY <1>2, <1>4, AppendProperties
<1>6. ends \in Seq(EndsRow) /\ Len(ends) = Len(nl.net_pins) + 1
  BY <1>2, <1>4, AppendProperties
<1>. HIDE DEF nets, ends
<1>7. /\ t \in BuilderFields(U) /\ t.cells = nl.cells /\ t.connections = nl.connections
      /\ t.nets = nets /\ t.net_pins = ends /\ t.pin_owners = nl.pin_owners
      /\ t.pin_links = nl.pin_links
  BY <1>2, <1>3, <1>5, <1>6 DEF BuilderFields
<1>. HIDE DEF t
<1>8. ArenasFit(t)
  <2>1. /\ Len(nl.net_pins) = Len(nl.nets) /\ Len(nl.pin_owners) = Len(nl.connections)
        /\ Len(nl.pin_links) = Len(nl.connections)
        /\ \A p \in 1..Len(nl.connections) : nl.connections[p] <= Len(nl.nets)
        /\ \A d \in 1..Len(nl.cells) : PinsFit(nl.cells[d], Len(nl.connections))
    BY <1>2 DEF ArenasFit
  <2>2. Len(nl.nets) \in Nat
    BY BuilderLengths
  <2>3. ASSUME NEW p \in 1..Len(nl.connections) PROVE nl.connections[p] <= Len(nets)
    <3>1. nl.connections[p] \in Nat
      BY <1>2, ElementOfSeq
    <3>2. nl.connections[p] <= Len(nl.nets)
      BY <2>1
    <3>. QED BY <1>5, <2>2, <3>1, <3>2
  <2>. QED BY <1>5, <1>6, <1>7, <2>1, <2>3 DEF ArenasFit
<1>. QED BY <1>1, <1>5, <1>7, <1>8 DEF Builders

\* What the recursion over the nets of a design defines.
IsNetBuilding(built, first, list) ==
    built = CHOOSE h : h = [k \in 0..Len(list) |->
                IF k = 0 THEN first ELSE AddBuilderNet(h[k - 1], list[k])]

\* Adding the nets of a design, one after the other.
LEMMA NetBuildingBuilder ==
  ASSUME NEW U, NEW first \in Builders(U), NEW list, list \in Seq(U), Len(first.nets) = 0,
         NEW built, IsNetBuilding(built, first, list)
  PROVE  built[Len(list)] \in Builders(U) /\ Len(built[Len(list)].nets) = Len(list)
<1>. DEFINE n == Len(list)
            V == Builders(U)
            Step(t, k) == AddBuilderNet(t, list[k])
            step == [k \in 1..n |-> [t \in V |-> Step(t, k)]]
<1>1. n \in Nat /\ \A k \in 1..n : list[k] \in U
  BY LenProperties, ElementOfSeq
<1>2. first \in V
  OBVIOUS
<1>3. ASSUME NEW t \in V PROVE t \in Builders(U)
  OBVIOUS
<1>4. ASSUME NEW t \in Builders(U) PROVE t \in V
  OBVIOUS
<1>. HIDE DEF V
<1>5. ASSUME NEW k \in 1..n, NEW t \in V
      PROVE  Step(t, k) \in V /\ Len(Step(t, k).nets) = Len(t.nets) + 1
  <2>1. t \in Builders(U) /\ list[k] \in U
    BY <1>1, <1>3
  <2>2. Step(t, k) \in Builders(U) /\ Len(Step(t, k).nets) = Len(t.nets) + 1
    BY <2>1, AddBuilderNetBuilder
  <2>. HIDE DEF Step
  <2>. QED BY <1>4, <2>2
<1>6. built = CHOOSE h : h = [k \in 0..n |-> IF k = 0 THEN first ELSE Step(h[k - 1], k)]
  BY DEF IsNetBuilding
<1>. HIDE DEF n, Step
<1>7. step \in [1..n -> [V -> V]]
  BY <1>5
<1>8. PICK f \in [0..n -> V] : f[0] = first /\ \A k \in 1..n : f[k] = step[k][f[k - 1]]
  <2>. HIDE DEF step
  <2>1. IsRecursion(n, V, first, step)
    BY <1>1, <1>2, <1>7 DEF IsRecursion
  <2>2. Solutions(n, V, first, step) # {}
    BY <2>1, RecursionExists
  <2>. QED BY <2>2 DEF Solutions
<1>9. f = [k \in 0..n |-> IF k = 0 THEN first ELSE Step(f[k - 1], k)]
  <2>1. ASSUME NEW k \in 1..n PROVE f[k] = Step(f[k - 1], k)
    <3>1. f[k - 1] \in V
      <4>. HIDE DEF step
      <4>. QED BY <1>1, <1>8
    <3>. QED BY <1>8, <3>1
  <2>. HIDE DEF step
  <2>. QED BY <1>8, <2>1
<1>10. built = [k \in 0..n |-> IF k = 0 THEN first ELSE Step(built[k - 1], k)]
  BY <1>6, <1>9
<1>11. built[0] = first /\ \A k \in 1..n : built[k] = Step(built[k - 1], k)
  BY <1>1, <1>10
<1>12. /\ built[0] \in V
       /\ \A k \in 1..n : built[k - 1] \in V => built[k] = step[k][built[k - 1]]
  BY <1>2, <1>11
<1>13. \A k \in 0..n : built[k] \in V
  <2>. HIDE DEF step
  <2>. QED BY <1>1, <1>7, <1>12, RecursionStays
<1>. DEFINE S == {k \in 0..n : Len(built[k].nets) = k}
<1>14. 0 \in S
  BY <1>1, <1>11
<1>15. ASSUME NEW k \in 1..n, k - 1 \in S PROVE k \in S
  <2>1. built[k - 1] \in V /\ Len(built[k - 1].nets) = k - 1
    BY <1>1, <1>13, <1>15
  <2>2. Len(Step(built[k - 1], k).nets) = Len(built[k - 1].nets) + 1
    BY <1>5, <2>1
  <2>3. Len(built[k].nets) = k
    BY <1>1, <1>11, <2>1, <2>2
  <2>. QED BY <2>3
<1>16. 0..n \subseteq S
  <2>. HIDE DEF S
  <2>. QED BY <1>1, <1>14, <1>15, PositionInduction
<1>17. n \in S /\ built[n] \in V
  BY <1>1, <1>13, <1>16
<1>. QED BY <1>3, <1>17 DEF n

\* A cell of a design, on nets that exist.
CellFits(cell, U, nets) == cell.name \in U /\ cell.type \in U /\ cell.signals \in Seq(0..nets)

\* What the recursion over the cells of a design defines.
IsCellBuilding(built, first, list) ==
    built = CHOOSE h : h = [k \in 0..Len(list) |->
                IF k = 0 THEN first ELSE AddBuilderCell(h[k - 1], list[k])]

\* Adding its cells, on the nets just added.
LEMMA CellBuildingBuilder ==
  ASSUME NEW U, NEW first \in Builders(U), NEW list, NEW W, list \in Seq(W), \A cell \in W : CellFits(cell, U, Len(first.nets)),
         NEW built, IsCellBuilding(built, first, list)
  PROVE  built[Len(list)] \in Builders(U)
<1>. DEFINE n == Len(list)
            V == {t \in Builders(U) : t.nets = first.nets}
            Step(t, k) == AddBuilderCell(t, list[k])
            step == [k \in 1..n |-> [t \in V |-> Step(t, k)]]
<1>1. n \in Nat /\ \A k \in 1..n : CellFits(list[k], U, Len(first.nets))
  BY LenProperties, ElementOfSeq
<1>2. first \in V
  OBVIOUS
<1>3. ASSUME NEW t \in V PROVE t \in Builders(U) /\ t.nets = first.nets
  OBVIOUS
<1>4. ASSUME NEW t \in Builders(U), t.nets = first.nets PROVE t \in V
  BY <1>4
<1>. HIDE DEF V
<1>5. ASSUME NEW k \in 1..n, NEW t \in V PROVE Step(t, k) \in V
  <2>1. t \in Builders(U) /\ t.nets = first.nets /\ CellFits(list[k], U, Len(first.nets))
    BY <1>1, <1>3
  <2>2. list[k].name \in U /\ list[k].type \in U /\ list[k].signals \in Seq(0..Len(t.nets))
    BY <2>1 DEF CellFits
  <2>3. Step(t, k) \in Builders(U) /\ Step(t, k).nets = t.nets
    BY <2>1, <2>2, AddBuilderCellBuilder
  <2>. HIDE DEF Step
  <2>. QED BY <1>4, <2>1, <2>3
<1>6. built = CHOOSE h : h = [k \in 0..n |-> IF k = 0 THEN first ELSE Step(h[k - 1], k)]
  BY DEF IsCellBuilding
<1>. HIDE DEF n, Step
<1>7. step \in [1..n -> [V -> V]]
  BY <1>5
<1>8. PICK f \in [0..n -> V] : f[0] = first /\ \A k \in 1..n : f[k] = step[k][f[k - 1]]
  <2>. HIDE DEF step
  <2>1. IsRecursion(n, V, first, step)
    BY <1>1, <1>2, <1>7 DEF IsRecursion
  <2>2. Solutions(n, V, first, step) # {}
    BY <2>1, RecursionExists
  <2>. QED BY <2>2 DEF Solutions
<1>9. f = [k \in 0..n |-> IF k = 0 THEN first ELSE Step(f[k - 1], k)]
  <2>1. ASSUME NEW k \in 1..n PROVE f[k] = Step(f[k - 1], k)
    <3>1. f[k - 1] \in V
      <4>. HIDE DEF step
      <4>. QED BY <1>1, <1>8
    <3>. QED BY <1>8, <3>1
  <2>. HIDE DEF step
  <2>. QED BY <1>8, <2>1
<1>10. built = [k \in 0..n |-> IF k = 0 THEN first ELSE Step(built[k - 1], k)]
  BY <1>6, <1>9
<1>11. built[0] = first /\ \A k \in 1..n : built[k] = Step(built[k - 1], k)
  BY <1>1, <1>10
<1>12. /\ built[0] \in V
       /\ \A k \in 1..n : built[k - 1] \in V => built[k] = step[k][built[k - 1]]
  BY <1>2, <1>11
<1>13. \A k \in 0..n : built[k] \in V
  <2>. HIDE DEF step
  <2>. QED BY <1>1, <1>7, <1>12, RecursionStays
<1>. QED BY <1>1, <1>3, <1>13 DEF n

\* What the recursion over the instances of a design defines.
IsInstanceBuilding(built, first, list) ==
    built = CHOOSE h : h = [k \in 0..Len(list) |->
                IF k = 0 THEN first ELSE AddBuilderInstance(h[k - 1], list[k])]

\* Adding its retained occurrences.
LEMMA InstanceBuildingBuilder ==
  ASSUME NEW U, NEW first \in Builders(U), NEW list, list \in Seq(U),
         NEW built, IsInstanceBuilding(built, first, list)
  PROVE  built[Len(list)] \in Builders(U)
<1>. DEFINE n == Len(list)
            V == Builders(U)
            Step(t, k) == AddBuilderInstance(t, list[k])
            step == [k \in 1..n |-> [t \in V |-> Step(t, k)]]
<1>1. n \in Nat /\ \A k \in 1..n : list[k] \in U
  BY LenProperties, ElementOfSeq
<1>2. first \in V
  OBVIOUS
<1>3. ASSUME NEW t \in V PROVE t \in Builders(U)
  OBVIOUS
<1>4. ASSUME NEW t \in Builders(U) PROVE t \in V
  OBVIOUS
<1>. HIDE DEF V
<1>5. ASSUME NEW k \in 1..n, NEW t \in V PROVE Step(t, k) \in V
  <2>1. t \in Builders(U) /\ list[k] \in U
    BY <1>1, <1>3
  <2>2. Step(t, k) \in Builders(U)
    BY <2>1, AddBuilderInstanceBuilder
  <2>. HIDE DEF Step
  <2>. QED BY <1>4, <2>2
<1>6. built = CHOOSE h : h = [k \in 0..n |-> IF k = 0 THEN first ELSE Step(h[k - 1], k)]
  BY DEF IsInstanceBuilding
<1>. HIDE DEF n, Step
<1>7. step \in [1..n -> [V -> V]]
  BY <1>5
<1>8. PICK f \in [0..n -> V] : f[0] = first /\ \A k \in 1..n : f[k] = step[k][f[k - 1]]
  <2>. HIDE DEF step
  <2>1. IsRecursion(n, V, first, step)
    BY <1>1, <1>2, <1>7 DEF IsRecursion
  <2>2. Solutions(n, V, first, step) # {}
    BY <2>1, RecursionExists
  <2>. QED BY <2>2 DEF Solutions
<1>9. f = [k \in 0..n |-> IF k = 0 THEN first ELSE Step(f[k - 1], k)]
  <2>1. ASSUME NEW k \in 1..n PROVE f[k] = Step(f[k - 1], k)
    <3>1. f[k - 1] \in V
      <4>. HIDE DEF step
      <4>. QED BY <1>1, <1>8
    <3>. QED BY <1>8, <3>1
  <2>. HIDE DEF step
  <2>. QED BY <1>8, <2>1
<1>10. built = [k \in 0..n |-> IF k = 0 THEN first ELSE Step(built[k - 1], k)]
  BY <1>6, <1>9
<1>11. built[0] = first /\ \A k \in 1..n : built[k] = Step(built[k - 1], k)
  BY <1>1, <1>10
<1>12. /\ built[0] \in V
       /\ \A k \in 1..n : built[k - 1] \in V => built[k] = step[k][built[k - 1]]
  BY <1>2, <1>11
<1>13. \A k \in 0..n : built[k] \in V
  <2>. HIDE DEF step
  <2>. QED BY <1>1, <1>7, <1>12, RecursionStays
<1>. QED BY <1>1, <1>3, <1>13 DEF n

\* The builder starts with an empty netlist.
LEMMA EmptyNetlistBuilder ==
  ASSUME NEW U
  PROVE  EmptyNetlist \in Builders(U) /\ Len(EmptyNetlist.nets) = 0
<1>1. EmptyNetlist \in BuilderFields(U)
  BY DEF EmptyNetlist, BuilderFields
<1>2. /\ EmptyNetlist.nets = <<>> /\ EmptyNetlist.cells = <<>> /\ EmptyNetlist.connections = <<>>
      /\ EmptyNetlist.pin_owners = <<>> /\ EmptyNetlist.pin_links = <<>>
      /\ EmptyNetlist.net_pins = <<>>
  BY DEF EmptyNetlist
<1>3. ArenasFit(EmptyNetlist)
  BY <1>2 DEF ArenasFit
<1>. QED BY <1>1, <1>2, <1>3 DEF Builders

\* The names of a design.
NamesOf(design) ==
    ToSet(design.nets) \cup {cell.name : cell \in ToSet(design.cells)}
        \cup {cell.type : cell \in ToSet(design.cells)} \cup ToSet(design.instances)

\* What the builder makes of a design.
LEMMA DesignBuilt ==
  ASSUME NEW design \in Designs
  PROVE  BuildInstances(design) \in Builders(NamesOf(design))
<1>. DEFINE U == NamesOf(design)
            W == ToSet(design.cells)
            nets[k \in 0..Len(design.nets)] ==
                IF k = 0 THEN EmptyNetlist ELSE AddBuilderNet(nets[k - 1], design.nets[k])
            cells[k \in 0..Len(design.cells)] ==
                IF k = 0 THEN BuildNets(design) ELSE AddBuilderCell(cells[k - 1], design.cells[k])
            all[k \in 0..Len(design.instances)] ==
                IF k = 0 THEN BuildCells(design)
                ELSE AddBuilderInstance(all[k - 1], design.instances[k])
<1>1. /\ design.nets \in Seq(ToSet(design.nets))
      /\ design.cells \in Seq(W)
      /\ design.instances \in Seq(ToSet(design.instances))
      /\ \A i \in DOMAIN design.cells : design.cells[i].signals \in Seq(0..Len(design.nets))
  BY DesignsAssumption
<1>2. design.nets \in Seq(U) /\ design.instances \in Seq(U)
  <2>1. ToSet(design.nets) \subseteq U /\ ToSet(design.instances) \subseteq U
    BY DEF NamesOf
  <2>. HIDE DEF U
  <2>. QED BY <1>1, <2>1, SeqMonotonic
<1>3. \A cell \in W : CellFits(cell, U, Len(design.nets))
  <2>1. SUFFICES ASSUME NEW cell \in W PROVE CellFits(cell, U, Len(design.nets))
    OBVIOUS
  <2>2. cell.name \in U /\ cell.type \in U
    BY DEF NamesOf
  <2>3. PICK i \in DOMAIN design.cells : cell = design.cells[i]
    BY DEF ToSet
  <2>. QED BY <1>1, <2>2, <2>3 DEF CellFits
<1>4. /\ IsNetBuilding(nets, EmptyNetlist, design.nets)
      /\ BuildNets(design) = nets[Len(design.nets)]
  BY DEF IsNetBuilding, BuildNets
<1>5. /\ IsCellBuilding(cells, BuildNets(design), design.cells)
      /\ BuildCells(design) = cells[Len(design.cells)]
  BY DEF IsCellBuilding, BuildCells
<1>6. /\ IsInstanceBuilding(all, BuildCells(design), design.instances)
      /\ BuildInstances(design) = all[Len(design.instances)]
  BY DEF IsInstanceBuilding, BuildInstances
<1>. HIDE DEF nets, cells, all, U, W
<1>7. BuildNets(design) \in Builders(U) /\ Len(BuildNets(design).nets) = Len(design.nets)
  <2>. DEFINE first == EmptyNetlist
              list == design.nets
  <2>1. first \in Builders(U) /\ Len(first.nets) = 0
    BY EmptyNetlistBuilder
  <2>2. IsNetBuilding(nets, first, list) /\ list \in Seq(U)
    BY <1>2, <1>4
  <2>. HIDE DEF first, list
  <2>3. nets[Len(list)] \in Builders(U) /\ Len(nets[Len(list)].nets) = Len(list)
    BY <2>1, <2>2, NetBuildingBuilder
  <2>. QED BY <1>4, <2>3 DEF list
<1>8. BuildCells(design) \in Builders(U)
  <2>1. \A cell \in W : CellFits(cell, U, Len(BuildNets(design).nets))
    BY <1>3, <1>7
  <2>. DEFINE first == BuildNets(design)
              list == design.cells
  <2>. HIDE DEF first, list
  <2>2. /\ first \in Builders(U) /\ list \in Seq(W) /\ IsCellBuilding(cells, first, list)
        /\ \A cell \in W : CellFits(cell, U, Len(first.nets))
    BY <1>1, <1>5, <1>7, <2>1 DEF first, list
  <2>3. cells[Len(list)] \in Builders(U)
    BY <2>2, CellBuildingBuilder
  <2>. QED BY <1>5, <2>3 DEF list
<1>9. BuildInstances(design) \in Builders(U)
  BY <1>2, <1>6, <1>8, InstanceBuildingBuilder
<1>. QED BY <1>9 DEF U

\* A netlist at the start of its life.
Fresh(nl) ==
    /\ WellFormed(nl) /\ nl.status = "editable" /\ nl.generation = 0 /\ nl.edit_revision = 0

\* A frozen design is a netlist that can be edited, at revision zero.
LEMMA FreezeWellFormed ==
  ASSUME NEW design \in Designs
  PROVE  Fresh(Freeze(design))
<1>. DEFINE U == NamesOf(design)
            u == BuildInstances(design)
            netCount == Len(u.nets)
            cellCount == Len(u.cells)
            external == ExternalNets(design.boundary)
            t == [u EXCEPT !.boundary = design.boundary, !.external_nets = external,
                           !.live_net_count = netCount, !.live_cell_count = cellCount]
<1>1. Freeze(design) = t
  BY DEF Freeze
<1>2. u \in Builders(U)
  BY DesignBuilt
<1>. HIDE DEF U, u, netCount, cellCount, external
<1>3. u \in BuilderFields(U) /\ ArenasFit(u) /\ u.names \in Seq(U)
  BY <1>2, BuilderTypes
<1>4. /\ t \in NetlistsOf(t) /\ t.cells = u.cells /\ t.connections = u.connections
      /\ t.nets = u.nets /\ t.net_pins = u.net_pins /\ t.pin_owners = u.pin_owners
      /\ t.pin_links = u.pin_links /\ t.names = u.names
      /\ t.status = "editable" /\ t.generation = 0 /\ t.edit_revision = 0
  BY <1>3 DEF BuilderFields, NetlistsOf
<1>. HIDE DEF t
<1>5. ArenasFit(t)
  BY <1>3, <1>4 DEF ArenasFit
<1>6. IsSequence(t.names)
  BY <1>3, <1>4, SequenceOf
<1>7. WellFormed(t)
  BY <1>4, <1>5, <1>6 DEF WellFormed
<1>. QED BY <1>1, <1>4, <1>7 DEF Fresh

\* A netlist that publication has sealed, or consumed and refused.
Sealed(t, nl) ==
    /\ t.status \in {"published", "refused"}
    /\ t.status = "published" => t.generation = nl.generation + 1
    /\ t.edit_revision \in Nat /\ t.edit_revision >= nl.edit_revision
    /\ t.generation \in Nat

\* Repacking starts a new generation and does not lower the revision.
LEMMA RepackSeals ==
  ASSUME NEW nl, WellFormed(nl)
  PROVE  Sealed(Repack(nl), nl)
<1>. DEFINE nets == Remap(Len(nl.nets), LiveNets(nl))
            keptNets == KeptSlots(Len(nl.nets), LiveNets(nl))
            keptCells == KeptSlots(Len(nl.cells), LiveCells(nl))
            signal(p) == IF nl.connections[p] = Constant THEN Constant
                         ELSE nets[nl.connections[p]]
            row(c) == nl.cells[c]
            boundary == Tabulate(Len(nl.boundary), LAMBDA i : nets[nl.boundary[i]])
            external == {nets[n] : n \in nl.external_nets}
            rows == Tabulate(Len(keptNets), LAMBDA i :
                       [nl.nets[keptNets[i]] EXCEPT !.version = 0])
            ends == Tabulate(Len(keptNets), LAMBDA i : NoPins)
            emptied == [nl EXCEPT !.boundary = boundary, !.external_nets = external,
                !.nets = rows, !.net_pins = ends,
                !.cells = <<>>, !.connections = <<>>, !.pin_owners = <<>>, !.pin_links = <<>>]
            packed == FoldLeft(LAMBDA acc, c : PushCell(acc, row(c),
                             Tabulate(row(c).last - row(c).first + 1,
                                      LAMBDA k : signal(row(c).first + k - 1))), emptied, keptCells)
            t == [emptied EXCEPT !.cells = packed.cells, !.connections = packed.connections,
                        !.pin_owners = packed.pin_owners, !.pin_links = packed.pin_links,
                        !.net_pins = packed.net_pins,
                        !.live_net_count = Len(emptied.nets),
                        !.live_cell_count = Len(packed.cells),
                        !.generation = emptied.generation + 1,
                        !.edit_revision = emptied.edit_revision + 1,
                        !.status = "published"]
<1>1. Repack(nl) = t
  BY DEF Repack
<1>2. nl \in NetlistsOf(nl) /\ nl.generation \in Nat /\ nl.edit_revision \in Nat
  BY DEF WellFormed
<1>. HIDE DEF packed, boundary, external, rows, ends
<1>3. DOMAIN nl = {"status", "generation", "edit_revision", "names", "nets", "live_net_count",
          "cells", "live_cell_count", "connections", "pin_owners", "pin_links", "net_pins",
          "boundary", "external_nets", "instances"}
  BY <1>2 DEF NetlistsOf
<1>4. /\ DOMAIN emptied = DOMAIN nl /\ emptied.generation = nl.generation
      /\ emptied.edit_revision = nl.edit_revision
  BY <1>3
<1>. HIDE DEF emptied
<1>5. /\ t.generation = emptied.generation + 1 /\ t.edit_revision = emptied.edit_revision + 1
      /\ t.status = "published"
  BY <1>3, <1>4
<1>. HIDE DEF t
<1>. QED BY <1>1, <1>2, <1>4, <1>5 DEF Sealed

-----------------------------------------------------------------------------
(***************************************************************************)
(* The undo records that are outstanding together.                         *)
(***************************************************************************)

\* An undo record of an edit of the generation of nl, at or before its revision;
\* rolling back the last one brings the netlist it started from back.
UndoOf(ap, nl) ==
    /\ WellFormed(ap.before) /\ ap.before.status = "editable"
    /\ ap.before.generation = nl.generation /\ ap.generation = nl.generation
    /\ ap.committed_revision = ap.before.edit_revision + 1
    /\ ap.committed_revision <= nl.edit_revision
    /\ ap.committed_revision = nl.edit_revision => RolledBack(nl, ap) = ap.before

\* The netlist a record brings back can be rolled back by the record before it.
Chained(ap, previous) ==
    previous.committed_revision = ap.before.edit_revision =>
        RolledBack(ap.before, previous) = previous.before

UndoSound(nl, records) ==
    /\ \A i \in DOMAIN records : UndoOf(records[i], nl)
    /\ \A i, j \in DOMAIN records : Chained(records[i], records[j])
    /\ \A i, j \in DOMAIN records :
         i # j => records[i].committed_revision # records[j].committed_revision

\* What is known of one record.
LEMMA UndoSoundParts ==
  ASSUME NEW nl, NEW records, UndoSound(nl, records), NEW i \in DOMAIN records
  PROVE  /\ UndoOf(records[i], nl)
         /\ \A j \in DOMAIN records : Chained(records[i], records[j])
         /\ \A j \in DOMAIN records :
              i # j => records[i].committed_revision # records[j].committed_revision
BY DEF UndoSound

\* The place in a sequence of the j-th element left once the i-th is removed.
OldPlace(i, j) == IF j < i THEN j ELSE j + 1

\* What is left of a sequence once an element is removed, and where it was.
LEMMA RemoveAtPlaces ==
  ASSUME NEW s, IsSequence(s), NEW i \in DOMAIN s
  PROVE  /\ IsSequence(RemoveAt(s, i))
         /\ \A j \in DOMAIN RemoveAt(s, i) :
              /\ RemoveAt(s, i)[j] = s[OldPlace(i, j)]
              /\ OldPlace(i, j) \in DOMAIN s /\ OldPlace(i, j) # i
         /\ \A j, k \in DOMAIN RemoveAt(s, i) : j # k => OldPlace(i, j) # OldPlace(i, k)
<1>. DEFINE S == {s[j] : j \in DOMAIN s}
            a == SubSeq(s, 1, i - 1)
            b == SubSeq(s, i + 1, Len(s))
            t == a \o b
<1>1. s \in Seq(S)
  BY DEF IsSequence
<1>. HIDE DEF S
<1>2. Len(s) \in Nat /\ DOMAIN s = 1..Len(s) /\ i \in 1..Len(s)
  BY <1>1, LenProperties
<1>3. RemoveAt(s, i) = t
  BY DEF RemoveAt
<1>4. a \in Seq(S) /\ Len(a) = i - 1 /\ \A j \in 1..(i - 1) : a[j] = s[j]
  BY <1>1, <1>2, SubSeqProperties
<1>5. b \in Seq(S) /\ Len(b) = Len(s) - i /\ \A j \in 1..(Len(s) - i) : b[j] = s[i + j]
  BY <1>1, <1>2, SubSeqProperties
<1>. HIDE DEF a, b
<1>6. /\ t \in Seq(S) /\ Len(t) = Len(a) + Len(b)
      /\ \A j \in 1..Len(a) : t[j] = a[j]
      /\ \A j \in 1..Len(b) : t[Len(a) + j] = b[j]
  <2>1. /\ a \in Seq(S) /\ b \in Seq(S) /\ Len(a) \in Nat /\ Len(b) \in Nat
    BY <1>4, <1>5, LenProperties
  <2>2. t \in Seq(S) /\ Len(t) = Len(a) + Len(b)
    BY <2>1, ConcatProperties
  <2>3. \A j \in 1..(Len(a) + Len(b)) : t[j] = IF j <= Len(a) THEN a[j] ELSE b[j - Len(a)]
    BY <2>1, ConcatProperties
  <2>. HIDE DEF t
  <2>. QED BY <2>1, <2>2, <2>3
<1>. HIDE DEF t
<1>7. DOMAIN t = 1..(Len(s) - 1)
  BY <1>2, <1>4, <1>5, <1>6, LenProperties
<1>8. ASSUME NEW j \in 1..(Len(s) - 1)
      PROVE  t[j] = s[OldPlace(i, j)] /\ OldPlace(i, j) \in 1..Len(s) /\ OldPlace(i, j) # i
  <2>1. CASE j < i
    BY <1>2, <1>4, <1>6, <2>1 DEF OldPlace
  <2>2. CASE ~(j < i)
    <3>1. j - (i - 1) \in 1..Len(b) /\ j = Len(a) + (j - (i - 1))
      BY <1>2, <1>4, <1>5, <2>2
    <3>2. t[Len(a) + (j - (i - 1))] = b[j - (i - 1)]
      BY <1>6, <3>1
    <3>3. b[j - (i - 1)] = s[i + (j - (i - 1))]
      BY <1>2, <1>5, <3>1
    <3>4. i + (j - (i - 1)) = j + 1
      BY <1>2
    <3>5. t[j] = s[j + 1]
      BY <3>1, <3>2, <3>3, <3>4
    <3>6. OldPlace(i, j) = j + 1
      BY <2>2 DEF OldPlace
    <3>. QED BY <1>2, <2>2, <3>5, <3>6
  <2>. QED BY <2>1, <2>2
<1>9. ASSUME NEW j \in 1..(Len(s) - 1), NEW k \in 1..(Len(s) - 1), j # k
      PROVE  OldPlace(i, j) # OldPlace(i, k)
  BY <1>2, <1>9 DEF OldPlace
<1>. QED BY <1>2, <1>3, <1>6, <1>7, <1>8, <1>9, SequenceOf

\* Dropping a record leaves the others sound.
LEMMA DroppedSound ==
  ASSUME NEW nl, NEW records, IsSequence(records), UndoSound(nl, records), NEW i \in DOMAIN records
  PROVE  UndoSound(nl, RemoveAt(records, i))
<1>. DEFINE t == RemoveAt(records, i)
<1>1. \A j \in DOMAIN t : t[j] = records[OldPlace(i, j)] /\ OldPlace(i, j) \in DOMAIN records
  BY RemoveAtPlaces
<1>2. \A j, k \in DOMAIN t : j # k => OldPlace(i, j) # OldPlace(i, k)
  BY RemoveAtPlaces
<1>. HIDE DEF t
<1>3. ASSUME NEW j \in DOMAIN t PROVE UndoOf(t[j], nl)
  BY <1>1, UndoSoundParts
<1>4. ASSUME NEW j \in DOMAIN t, NEW k \in DOMAIN t
      PROVE  /\ Chained(t[j], t[k])
             /\ j # k => t[j].committed_revision # t[k].committed_revision
  BY <1>1, <1>2, UndoSoundParts
<1>. QED BY <1>3, <1>4 DEF UndoSound, t

\* The netlist a rollback brings back has the remaining records sound.
LEMMA RolledBackSound ==
  ASSUME NEW nl, WellFormed(nl), NEW records, IsSequence(records), UndoSound(nl, records),
         NEW i \in DOMAIN records, records[i].committed_revision = nl.edit_revision
  PROVE  /\ RolledBack(nl, records[i]) = records[i].before
         /\ WellFormed(records[i].before) /\ records[i].before.status = "editable"
         /\ UndoSound(records[i].before, RemoveAt(records, i))
<1>. DEFINE t == RemoveAt(records, i)
            old == records[i].before
<1>1. UndoOf(records[i], nl)
  BY UndoSoundParts
<1>2. /\ RolledBack(nl, records[i]) = old /\ WellFormed(old) /\ old.status = "editable"
      /\ old.generation = nl.generation /\ nl.edit_revision = old.edit_revision + 1
  BY <1>1 DEF UndoOf
<1>3. old.edit_revision \in Nat
  BY <1>2 DEF WellFormed
<1>4. \A j \in DOMAIN t : /\ t[j] = records[OldPlace(i, j)] /\ OldPlace(i, j) \in DOMAIN records
                          /\ OldPlace(i, j) # i
  BY RemoveAtPlaces
<1>5. UndoSound(nl, t)
  BY DroppedSound
<1>. HIDE DEF t
<1>6. ASSUME NEW j \in DOMAIN t PROVE UndoOf(t[j], old)
  <2>1. UndoOf(t[j], nl)
    BY <1>5, UndoSoundParts
  <2>2. Chained(records[i], t[j]) /\ t[j].committed_revision # nl.edit_revision
    <3>. DEFINE k == OldPlace(i, j)
    <3>. HIDE DEF k
    <3>1. t[j] = records[k] /\ k \in DOMAIN records /\ k # i
      BY <1>4 DEF k
    <3>2. /\ Chained(records[i], records[k])
          /\ records[i].committed_revision # records[k].committed_revision
      BY <3>1, UndoSoundParts
    <3>. QED BY <3>1, <3>2
  <2>3. /\ WellFormed(t[j].before) /\ t[j].before.status = "editable"
        /\ t[j].before.generation = nl.generation /\ t[j].generation = nl.generation
        /\ t[j].committed_revision = t[j].before.edit_revision + 1
        /\ t[j].committed_revision <= nl.edit_revision
    BY <2>1 DEF UndoOf
  <2>4. t[j].before.edit_revision \in Nat
    BY <2>3 DEF WellFormed
  <2>5. t[j].committed_revision <= old.edit_revision
    BY <1>2, <1>3, <2>2, <2>3, <2>4
  <2>6. t[j].committed_revision = old.edit_revision => RolledBack(old, t[j]) = t[j].before
    BY <2>2 DEF Chained
  <2>. HIDE DEF old
  <2>. QED BY <1>2, <2>3, <2>5, <2>6 DEF UndoOf
<1>7. UndoSound(old, t)
  BY <1>5, <1>6 DEF UndoSound
<1>. QED BY <1>2, <1>7 DEF t

\* An edit adds a record.
LEMMA EditedSound ==
  ASSUME NEW nl, WellFormed(nl), nl.status = "editable", NEW records, IsSequence(records),
         UndoSound(nl, records), NEW done, EditDone(done, nl), done.nl.status = "editable"
  PROVE  UndoSound(done.nl, Append(records, done.ap))
<1>. DEFINE ap == done.ap
            new == done.nl
            t == Append(records, ap)
            n == Len(records)
<1>1. /\ new.generation = nl.generation /\ new.edit_revision = nl.edit_revision + 1
      /\ ap.generation = nl.generation /\ ap.committed_revision = nl.edit_revision + 1
      /\ ap.before = nl /\ RolledBack(new, ap) = nl
  BY DEF EditDone
<1>. HIDE DEF ap, new
<1>2. nl.edit_revision \in Nat
  BY DEF WellFormed
<1>3. /\ n \in Nat /\ DOMAIN records = 1..n /\ DOMAIN t = 1..(n + 1)
      /\ \A i \in 1..n : t[i] = records[i]
      /\ t[n + 1] = ap
  <2>. DEFINE S == {records[i] : i \in DOMAIN records}
  <2>1. records \in Seq(S)
    BY DEF IsSequence
  <2>. HIDE DEF S
  <2>2. records \in Seq(S \cup {ap}) /\ ap \in S \cup {ap}
    BY <2>1, SeqMonotonic
  <2>. QED BY <2>2, AppendProperties, LenProperties
<1>. HIDE DEF t, n
<1>4. UndoOf(ap, new)
  BY <1>1, <1>2 DEF UndoOf
<1>5. ASSUME NEW i \in 1..n
      PROVE  /\ UndoOf(t[i], nl) /\ UndoOf(t[i], new)
             /\ t[i].before.edit_revision \in Nat
             /\ t[i].committed_revision = t[i].before.edit_revision + 1
             /\ t[i].committed_revision <= nl.edit_revision
  <2>1. UndoOf(t[i], nl)
    BY <1>3, UndoSoundParts
  <2>2. /\ WellFormed(t[i].before) /\ t[i].before.status = "editable"
        /\ t[i].before.generation = nl.generation /\ t[i].generation = nl.generation
        /\ t[i].committed_revision = t[i].before.edit_revision + 1
        /\ t[i].committed_revision <= nl.edit_revision
    BY <2>1 DEF UndoOf
  <2>3. t[i].before.edit_revision \in Nat
    BY <2>2 DEF WellFormed
  <2>4. t[i].committed_revision < new.edit_revision /\ t[i].committed_revision \in Nat
    BY <1>1, <1>2, <2>2, <2>3
  <2>5. UndoOf(t[i], new)
    BY <1>1, <1>2, <2>2, <2>4 DEF UndoOf
  <2>. QED BY <2>1, <2>2, <2>3, <2>5
<1>6. ASSUME NEW i \in 1..(n + 1), NEW j \in 1..(n + 1)
      PROVE  /\ Chained(t[i], t[j])
             /\ i # j => t[i].committed_revision # t[j].committed_revision
  <2>1. CASE i \in 1..n /\ j \in 1..n
    BY <1>3, <2>1, UndoSoundParts
  <2>2. CASE i = n + 1 /\ j \in 1..n
    <3>1. UndoOf(t[j], nl)
      BY <1>5, <2>2
    <3>2. Chained(ap, t[j])
      BY <1>1, <3>1 DEF Chained, UndoOf
    <3>3. t[j].committed_revision # ap.committed_revision
      BY <1>1, <1>2, <1>5, <2>2
    <3>. QED BY <1>3, <2>2, <3>2, <3>3
  <2>3. CASE i \in 1..n /\ j = n + 1
    <3>1. ap.committed_revision # t[i].before.edit_revision
      BY <1>1, <1>2, <1>5, <2>3
    <3>2. t[i].committed_revision # ap.committed_revision
      BY <1>1, <1>2, <1>5, <2>3
    <3>. QED BY <1>3, <2>3, <3>1, <3>2 DEF Chained
  <2>4. CASE i = n + 1 /\ j = n + 1
    <3>1. ap.committed_revision # ap.before.edit_revision
      BY <1>1, <1>2
    <3>. QED BY <1>3, <2>4, <3>1 DEF Chained
  <2>. QED BY <1>3, <2>1, <2>2, <2>3, <2>4
<1>7. \A i \in 1..(n + 1) : UndoOf(t[i], new)
  BY <1>3, <1>4, <1>5
<1>8. UndoSound(new, t)
  BY <1>3, <1>6, <1>7 DEF UndoSound
<1>. QED BY <1>8 DEF t, new, ap

-----------------------------------------------------------------------------
(***************************************************************************)
(* The theorem.                                                            *)
(***************************************************************************)

\* The inductive invariant: an editable netlist is well formed and the records
\* outstanding are sound for it; the records of a published one are out of date.
RollbackInv ==
    /\ limits \in PlanLimits /\ IsSequence(undo)
    /\ netlist.edit_revision \in Nat
    /\ netlist.status = "editable" => WellFormed(netlist) /\ UndoSound(netlist, undo)
    /\ netlist.status = "published" =>
         \A i \in DOMAIN undo : undo[i].generation # netlist.generation

\* A step that lowers the revision brings back what a record started from.
RestoringStep ==
    netlist'.edit_revision < netlist.edit_revision =>
        \E i \in DOMAIN undo :
            /\ undo[i].committed_revision = netlist.edit_revision
            /\ netlist' = undo[i].before

\* The invariant holds of a frozen design.
LEMMA RollbackInvInit == Init => RollbackInv
<1>1. SUFFICES ASSUME Init PROVE RollbackInv
  OBVIOUS
<1>2. PICK design \in Designs : netlist = Freeze(design)
  BY <1>1 DEF Init
<1>3. Fresh(netlist)
  BY <1>2, FreezeWellFormed
<1>4. undo = <<>> /\ limits \in PlanLimits /\ DOMAIN undo = {}
  BY <1>1 DEF Init
<1>5. IsSequence(undo)
  BY <1>4 DEF IsSequence
<1>6. UndoSound(netlist, undo)
  BY <1>4 DEF UndoSound
<1>7. /\ WellFormed(netlist) /\ netlist.status = "editable" /\ netlist.edit_revision = 0
  BY <1>3 DEF Fresh
<1>. QED BY <1>4, <1>5, <1>6, <1>7 DEF RollbackInv

\* A step that touches neither the netlist nor the records.
LEMMA SameNetlistStep ==
  ASSUME RollbackInv, netlist' = netlist, undo' = undo, limits' = limits
  PROVE  RollbackInv' /\ RestoringStep
<1>1. RollbackInv'
  BY DEF RollbackInv
<1>2. ~(netlist.edit_revision < netlist.edit_revision)
  BY DEF RollbackInv
<1>. QED BY <1>1, <1>2 DEF RestoringStep

\* apply_region_delta adds the record of an exact edit.
LEMMA ApplyDeltaStep ==
  ASSUME RollbackInv, NEW w \in Workers, ApplyDelta(w)
  PROVE  RollbackInv' /\ RestoringStep
<1>1. EditPossible(netlist, snapshots[w]) /\ limits' = limits
  BY DEF ApplyDelta
<1>2. PICK plan \in AcceptedPlans(netlist, snapshots[w]) :
          /\ netlist' = Applied(netlist, plan).nl
          /\ undo' = Append(undo, Applied(netlist, plan).ap)
  BY DEF ApplyDelta
<1>3. netlist.status = "editable"
  BY <1>1 DEF EditPossible
<1>4. /\ WellFormed(netlist) /\ UndoSound(netlist, undo) /\ limits \in PlanLimits
      /\ IsSequence(undo) /\ netlist.edit_revision \in Nat
  BY <1>3 DEF RollbackInv
<1>5. limits \in Seq(Nat)
  BY <1>4, PlansAssumption
<1>6. PlanFits(netlist, plan)
  BY <1>1, <1>4, <1>5, AcceptedPlansFit
<1>. DEFINE done == Applied(netlist, plan)
<1>7. EditDone(done, netlist)
  BY <1>3, <1>4, <1>6, AppliedRestores
<1>. HIDE DEF done
<1>8. netlist' = done.nl /\ undo' = Append(undo, done.ap)
  BY <1>2 DEF done
<1>9. /\ netlist'.status \in {"editable", "panicked"} /\ WellFormed(netlist')
      /\ netlist'.edit_revision = netlist.edit_revision + 1
  BY <1>7, <1>8 DEF EditDone
<1>10. IsSequence(undo')
  <2>. DEFINE S == {undo[i] : i \in DOMAIN undo}
  <2>1. undo \in Seq(S)
    BY <1>4 DEF IsSequence
  <2>. HIDE DEF S
  <2>2. undo \in Seq(S \cup {done.ap}) /\ done.ap \in S \cup {done.ap}
    BY <2>1, SeqMonotonic
  <2>3. undo' \in Seq(S \cup {done.ap})
    BY <1>8, <2>2, AppendProperties
  <2>. QED BY <2>3, SequenceOf
<1>11. netlist'.status = "editable" => UndoSound(netlist', undo')
  BY <1>3, <1>4, <1>7, <1>8, EditedSound
<1>12. RollbackInv'
  BY <1>1, <1>4, <1>9, <1>10, <1>11 DEF RollbackInv
<1>13. RestoringStep
  BY <1>4, <1>9 DEF RestoringStep
<1>. QED BY <1>12, <1>13

\* Dropping a record leaves the others sound.
LEMMA CommitStep ==
  ASSUME RollbackInv, NEW i \in DOMAIN undo, Commit(i)
  PROVE  RollbackInv' /\ RestoringStep
<1>1. undo' = RemoveAt(undo, i) /\ netlist' = netlist /\ limits' = limits
  BY DEF Commit
<1>2. /\ limits \in PlanLimits /\ IsSequence(undo) /\ netlist.edit_revision \in Nat
      /\ netlist.status = "editable" => WellFormed(netlist) /\ UndoSound(netlist, undo)
      /\ netlist.status = "published" =>
           \A j \in DOMAIN undo : undo[j].generation # netlist.generation
  BY DEF RollbackInv
<1>3. /\ IsSequence(undo')
      /\ \A j \in DOMAIN undo' : /\ undo'[j] = undo[OldPlace(i, j)]
                                 /\ OldPlace(i, j) \in DOMAIN undo
  BY <1>1, <1>2, RemoveAtPlaces
<1>4. netlist.status = "editable" => UndoSound(netlist, undo')
  BY <1>1, <1>2, DroppedSound
<1>5. netlist.status = "published" =>
        \A j \in DOMAIN undo' : undo'[j].generation # netlist.generation
  BY <1>2, <1>3
<1>6. RollbackInv'
  BY <1>1, <1>2, <1>3, <1>4, <1>5 DEF RollbackInv
<1>7. RestoringStep
  BY <1>1, <1>2 DEF RestoringStep
<1>. QED BY <1>6, <1>7

\* rollback_region_delta restores or refuses.
LEMMA RollbackStep ==
  ASSUME RollbackInv, NEW i \in DOMAIN undo, Rollback(i)
  PROVE  RollbackInv' /\ RestoringStep
<1>1. CASE /\ netlist.generation = undo[i].generation
           /\ netlist.edit_revision = undo[i].committed_revision
  <2>1. /\ netlist.status \in {"editable", "published"} /\ undo' = RemoveAt(undo, i)
        /\ netlist' = RolledBack(netlist, undo[i]) /\ limits' = limits
    BY <1>1 DEF Rollback
  <2>2. /\ limits \in PlanLimits /\ IsSequence(undo) /\ netlist.status = "editable"
        /\ WellFormed(netlist) /\ UndoSound(netlist, undo)
    BY <1>1, <2>1 DEF RollbackInv
  <2>3. /\ RolledBack(netlist, undo[i]) = undo[i].before
        /\ WellFormed(undo[i].before) /\ undo[i].before.status = "editable"
        /\ UndoSound(undo[i].before, RemoveAt(undo, i))
    BY <1>1, <2>2, RolledBackSound
  <2>4. /\ netlist' = undo[i].before /\ WellFormed(netlist') /\ netlist'.status = "editable"
        /\ UndoSound(netlist', undo')
    BY <2>1, <2>3
  <2>5. IsSequence(undo')
    BY <2>1, <2>2, RemoveAtPlaces
  <2>6. netlist'.edit_revision \in Nat
    BY <2>4 DEF WellFormed
  <2>7. RollbackInv'
    BY <2>1, <2>2, <2>4, <2>5, <2>6 DEF RollbackInv
  <2>8. RestoringStep
    BY <1>1, <2>4 DEF RestoringStep
  <2>. QED BY <2>7, <2>8
<1>2. CASE ~(/\ netlist.generation = undo[i].generation
             /\ netlist.edit_revision = undo[i].committed_revision)
  <2>1. Commit(i)
    BY <1>2 DEF Rollback, Commit
  <2>. QED BY <2>1, CommitStep
<1>. QED BY <1>1, <1>2

\* Naming for publication happens with no record outstanding.
LEMMA NamePublicationStep ==
  ASSUME RollbackInv, NamePublication
  PROVE  RollbackInv' /\ RestoringStep
<1>1. /\ netlist.status = "editable" /\ undo = <<>> /\ undo' = undo /\ limits' = limits
      /\ netlist' = AssignNetNames(AssignCellNames(netlist))
  BY DEF NamePublication
<1>2. /\ WellFormed(netlist) /\ limits \in PlanLimits /\ IsSequence(undo)
      /\ netlist.edit_revision \in Nat
  BY <1>1 DEF RollbackInv
<1>3. WellFormed(AssignCellNames(netlist)) /\ SameLife(AssignCellNames(netlist), netlist)
  BY <1>2, AssignCellNamesWellFormed
<1>4. WellFormed(netlist') /\ SameLife(netlist', AssignCellNames(netlist))
  BY <1>1, <1>3, AssignNetNamesWellFormed
<1>5. netlist'.edit_revision = netlist.edit_revision /\ netlist'.status = "editable"
  BY <1>1, <1>3, <1>4 DEF SameLife
<1>6. UndoSound(netlist', undo')
  BY <1>1 DEF UndoSound
<1>7. RollbackInv'
  BY <1>1, <1>2, <1>4, <1>5, <1>6 DEF RollbackInv
<1>8. RestoringStep
  BY <1>2, <1>5 DEF RestoringStep
<1>. QED BY <1>7, <1>8

\* Publication starts a generation that no outstanding record belongs to.
LEMMA FinalizeStep ==
  ASSUME RollbackInv, Finalize
  PROVE  RollbackInv' /\ RestoringStep
<1>1. netlist.status = "editable" /\ undo' = undo /\ limits' = limits
  BY DEF Finalize
<1>2. /\ WellFormed(netlist) /\ UndoSound(netlist, undo) /\ limits \in PlanLimits
      /\ IsSequence(undo) /\ netlist.edit_revision \in Nat /\ netlist.generation \in Nat
  BY <1>1 DEF RollbackInv, WellFormed
<1>3. Sealed(netlist', netlist)
  <2>1. CASE PublicationValid(netlist)
    <3>1. netlist' = Repack(netlist)
      BY <2>1 DEF Finalize
    <3>. QED BY <1>2, <3>1, RepackSeals
  <2>2. CASE ~PublicationValid(netlist)
    <3>1. netlist' = [netlist EXCEPT !.status = "refused"]
      BY <2>2 DEF Finalize
    <3>2. netlist \in NetlistsOf(netlist)
      BY <1>2 DEF WellFormed
    <3>3. /\ netlist'.status = "refused" /\ netlist'.generation = netlist.generation
          /\ netlist'.edit_revision = netlist.edit_revision
      BY <3>1, <3>2 DEF NetlistsOf
    <3>. QED BY <1>2, <3>3 DEF Sealed
  <2>. QED BY <2>1, <2>2
<1>4. /\ netlist'.status \in {"published", "refused"}
      /\ netlist'.status = "published" => netlist'.generation = netlist.generation + 1
      /\ netlist'.edit_revision \in Nat /\ netlist'.edit_revision >= netlist.edit_revision
  BY <1>3 DEF Sealed
<1>5. ASSUME NEW i \in DOMAIN undo, netlist'.status = "published"
      PROVE  undo[i].generation # netlist'.generation
  <2>1. undo[i].generation = netlist.generation
    BY <1>2, UndoSoundParts DEF UndoOf
  <2>. QED BY <1>2, <1>4, <1>5, <2>1
<1>6. RollbackInv'
  BY <1>1, <1>2, <1>4, <1>5 DEF RollbackInv
<1>7. RestoringStep
  BY <1>2, <1>4 DEF RestoringStep
<1>. QED BY <1>6, <1>7

\* Every step keeps the invariant and lowers the revision only by restoring.
LEMMA RollbackInvStep ==
  ASSUME RollbackInv, [Next]_vars
  PROVE  RollbackInv' /\ RestoringStep
<1>1. CASE UNCHANGED vars
  BY <1>1, SameNetlistStep DEF vars
<1>2. ASSUME NEW w \in Workers, TakeSnapshot(w) \/ DropDelta(w)
      PROVE  RollbackInv' /\ RestoringStep
  BY <1>2, SameNetlistStep DEF TakeSnapshot, DropDelta
<1>3. ASSUME NEW w \in Workers, ApplyDelta(w) PROVE RollbackInv' /\ RestoringStep
  BY <1>3, ApplyDeltaStep
<1>4. ASSUME NEW i \in DOMAIN undo, Commit(i) PROVE RollbackInv' /\ RestoringStep
  BY <1>4, CommitStep
<1>5. ASSUME NEW i \in DOMAIN undo, Rollback(i) PROVE RollbackInv' /\ RestoringStep
  BY <1>5, RollbackStep
<1>6. CASE NamePublication
  BY <1>6, NamePublicationStep
<1>7. CASE Finalize
  BY <1>7, FinalizeStep
<1>. QED BY <1>1, <1>2, <1>3, <1>4, <1>5, <1>6, <1>7 DEF Next

\* The invariant holds at every moment: the undo records that are outstanding
\* together stay a chain, whichever of them are dropped, rolled back or refused.
THEOREM EditUndoRecordsSound == Spec => []RollbackInv
<1>1. Init => RollbackInv
  BY RollbackInvInit
<1>2. RollbackInv /\ [Next]_vars => RollbackInv'
  BY RollbackInvStep
<1>. QED BY <1>1, <1>2, PTL DEF Spec

\* rollback_region_delta, the only operation that lowers the revision, brings
\* back the exact netlist that apply_region_delta started from: slots, versions,
\* pin lists in their order, counters and the name table.
THEOREM EditRollbackRestores == Spec => RollbackRestores
<1>1. RollbackInv /\ [Next]_vars => [RestoringStep]_vars
  BY RollbackInvStep
<1>2. [][RestoringStep]_vars => RollbackRestores
  BY DEF RollbackRestores, RestoringStep
<1>. QED BY <1>1, <1>2, EditUndoRecordsSound, PTL DEF Spec

=============================================================================
